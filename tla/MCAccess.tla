-------------------------------- MODULE MCAccess --------------------------------
(* Small instances of Access for TLC.                                         *)
EXTENDS Access, TLC

CONSTANTS h1, h2, m0, m1, t1, t2, t3, owner, manager, employee, s1

\* One organization with an owner.
OneOwner == (<<1, m0>> :> owner)
\* The owner may invite either, a manager only employees.
Permissions == owner :> {manager, employee} @@ manager :> {employee} @@ employee :> {}
\* A Google account that changes its email, to one that is somebody else's.
SomeProfiles == {<<s1, m1>>, <<s1, m0>>}

Symmetry == Permutations(Handler) \cup Permutations(Token)

\* Five requests or faults in all: an invitation is made, revoked and accepted twice, or
\* Google calls back three times.
Few ==
  [l \in Limits |->
     CASE l = "all" -> 5
       [] l = "callback" -> 3
       [] l \in {"invite", "start", "accept", "verify"} -> 2
       [] OTHER -> 1]

==============================================================================
