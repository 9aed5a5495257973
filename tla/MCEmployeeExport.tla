--------------------------- MODULE MCEmployeeExport ---------------------------
(* Small instances of EmployeeExport for TLC.                                 *)
EXTENDS EmployeeExport, TLC

CONSTANTS w1, w2, r1, r2

Symmetry == Permutations(Workers) \cup Permutations(Requests)

TwoIds == 1 .. 2
ThreeIds == 1 .. 3
OddIds == {1, 3}

NoFaults == [k \in Kinds |-> 0]

\* Every call may throw, often enough for a job to use up its attempts, while an
\* employee is hired or leaves between two batches.
FaultBounds == [NoFaults EXCEPT !["requests"] = 3, !["errors"] = 4, !["crashes"] = 1,
                                !["churn"] = 2]
\* Two pauses and two resumptions, or a cancel among them, and errors enough for a job
\* of two attempts to fail.
ResumeBounds == [NoFaults EXCEPT !["requests"] = 4, !["errors"] = 2]
\* A worker loses its lock and goes on, a handler is killed, a reply is lost.
ZombieBounds == [NoFaults EXCEPT !["requests"] = 2, !["aborts"] = 1, !["locks"] = 1,
                                 !["replies"] = 1]
\* Faults a job survives within its attempts.
SettleBounds == [NoFaults EXCEPT !["requests"] = 2, !["errors"] = 2, !["crashes"] = 1]
\* One worker too slow to renew its lock.
OneLostLock == [NoFaults EXCEPT !["locks"] = 1]

==============================================================================
