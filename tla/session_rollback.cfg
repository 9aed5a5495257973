SPECIFICATION Spec
CONSTANTS
  r1 = r1
  r2 = r2
  r3 = r3
  r4 = r4
  r5 = r5
  o1 = o1
  o2 = o2
  owner = owner
  admin = admin
  viewer = viewer
  Null = Null
  Request = {r1, r2, r3, r4}
  Org = {o1}
  Role <- Roles
  Owner = owner
  SeedRole <- AdminEverywhere
  Bounds <- RollbackBounds
  Environment = {"crash", "errors"}
SYMMETRY Symmetry
INVARIANT NoLeftover
CHECK_DEADLOCK FALSE
