SPECIFICATION FairSpec
CONSTANTS
  w1 = w1
  w2 = w2
  r1 = r1
  r2 = r2
  hNumber = hNumber
  hMail = hMail
  hDept = hDept
  hRest = hRest
  hCode = hCode
  hOdd = hOdd
  n1 = n1
  n2 = n2
  n3 = n3
  m1 = m1
  m2 = m2
  eng = eng
  ops = ops
  dev = dev
  dev2 = dev2
  cEng = cEng
  cOps = cOps
  cDev = cDev
  x = x
  y = y
  Bad = Bad
  None = None
  Header = {hNumber, hMail, hDept, hRest, hCode, hOdd}
  Canonical <- Names
  Number = {n1, n2}
  Mail = {m1, m2}
  Name = {eng, dev, dev2}
  Normal <- Spellings
  Code = {cEng, cDev}
  Generated <- Codes
  Rest = {x}
  Worker = {w1}
  Request = {r1}
  Files <- AllFiles
  Hired <- Staff
  Opened <- OneDepartment
  Answers = {None, "department"}
  Proposals <- MoveToEng
  BatchSize = 2
  ChunkSize = 1
  MaxAttempts = 3
  MaxStalledCount = 1
  Bounds <- Troubled
INVARIANT ReviewedIsWhole
INVARIANT DirectorySound
INVARIANT UndisturbedSucceeds
PROPERTY Settles
CHECK_DEADLOCK FALSE
