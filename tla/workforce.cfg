SPECIFICATION Spec
CONSTANTS
  h1 = h1
  h2 = h2
  k1 = k1
  k2 = k2
  n1 = n1
  n2 = n2
  n3 = n3
  m1 = m1
  m2 = m2
  a1 = a1
  a2 = a2
  d1 = d1
  d2 = d2
  d3 = d3
  cEng = cEng
  cOps = cOps
  eng = eng
  ops = ops
  lab = lab
  cNew = cNew
  k3 = k3
  None = None
  Handler = {h1, h2}
  Id = {1, 2, 3}
  DepartmentId = {d1, d2, d3}
  Key = {k1, k2, k3}
  Newcomers <- NewEmployees
  Patches <- SomePatches
  Raises <- SomeRaises
  Forms <- SomeForms
  Hired <- TwoEmployees
  Opened <- TwoDepartments
  Limit = 1
  Bounds <- Busy
SYMMETRY Symmetry
INVARIANT HistoryInStep
INVARIANT EvidenceKept
INVARIANT KeyActsOnce
INVARIANT ReplaysAgree
INVARIANT Anchored
INVARIANT ListedOnce
INVARIANT NoStandstill
CHECK_DEADLOCK FALSE
