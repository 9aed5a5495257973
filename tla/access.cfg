SPECIFICATION Spec
CONSTANTS
  h1 = h1
  h2 = h2
  m0 = m0
  m1 = m1
  t1 = t1
  t2 = t2
  t3 = t3
  s1 = s1
  owner = owner
  manager = manager
  employee = employee
  None = None
  Handler = {h1, h2}
  Mail = {m0, m1}
  Slug = {1, 2, 3}
  Role = {owner, manager, employee}
  Owner = owner
  Invites <- Permissions
  Token = {t1, t2, t3}
  Profiles <- SomeProfiles
  Members <- OneOwner
  Bounds <- Few
SYMMETRY Symmetry
INVARIANT AcceptedIsMember
INVARIANT MembersAreInvited
INVARIANT UsedOnce
INVARIANT SubjectIsOneUser
INVARIANT BarredStaysOut
INVARIANT NoStandstill
PROPERTY RevokedStaysOut
CHECK_DEADLOCK FALSE
