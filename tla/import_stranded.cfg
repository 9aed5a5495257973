SPECIFICATION Spec
CONSTANTS
  w1 = w1
  w2 = w2
  r1 = r1
  r2 = r2
  hNumber = hNumber
  hMail = hMail
  hDept = hDept
  hRest = hRest
  hCode = hCode
  hOdd = hOdd
  n1 = n1
  n2 = n2
  n3 = n3
  m1 = m1
  m2 = m2
  eng = eng
  ops = ops
  dev = dev
  dev2 = dev2
  cEng = cEng
  cOps = cOps
  cDev = cDev
  x = x
  y = y
  Bad = Bad
  None = None
  Header = {hNumber, hMail, hDept, hRest}
  Canonical <- Names
  Number = {n1, n2, n3}
  Mail = {m1, m2}
  Name = {eng, ops}
  Normal <- Spellings
  Code = {cEng, cOps, cDev}
  Generated <- Codes
  Rest = {x, y}
  Worker = {w1}
  Request = {r1}
  Files <- OneFile
  Hired <- Staff
  Opened <- OneDepartment
  Answers = {None}
  Proposals = {}
  BatchSize = 2
  ChunkSize = 2
  MaxAttempts = 2
  MaxStalledCount = 1
  Bounds <- Exhausted
INVARIANT NoStranded
CHECK_DEADLOCK FALSE
