------------------------------ MODULE MCSessions ------------------------------
(* Small instances of Sessions for TLC.                                       *)
EXTENDS Sessions, TLC

CONSTANTS r1, r2, r3, r4, r5, o1, o2, owner, admin, viewer

Symmetry == Permutations(Request)

AdminEverywhere == [o \in Org |-> admin]
Roles == {owner, admin, viewer}

Nobody == [op \in Ops \cup {"seed"} |-> 0]

\* Rollbacks and reseeds that may crash, logins, a refresh, a logout and a role
\* change all along.
RollbackBounds == [Nobody EXCEPT !["login"] = 2, !["refresh"] = 1, !["logout"] = 1, !["role"] = 1,
                                 !["seed"] = 3]
\* Up to three refreshes of a session, or two resets with a link, beside all else
\* and one run of the seed.
StoreBounds == [Nobody EXCEPT !["login"] = 2, !["refresh"] = 3, !["switch"] = 1, !["logout"] = 1,
                              !["role"] = 1, !["forgot"] = 1, !["reset"] = 2,
                              !["seed"] = 1]
==============================================================================
