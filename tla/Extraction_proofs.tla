-------------------------- MODULE Extraction_proofs ---------------------------
(* What an export promises as long as no worker loses its lock and goes on:   *)
(* one extractor, a whole file, exact progress, a quiet pause; and that it is *)
(* then an export as ExportLife describes it.                                 *)
EXTENDS EmployeeExport_proofs, WellFoundedInduction

\* No job has been taken from a worker that goes on.
LocksKept == left["locks"] = Bounds["locks"]

\* And, if a resumed export has a job of its own beside the first one, no worker
\* has died and no reply was lost between writing PAUSED and returning.
Undisturbed ==
  /\ LocksKept
  /\ \/ RejectsColonIds
     \/ left["crashes"] = Bounds["crashes"] /\ left["replies"] = Bounds["replies"]

Works(w) == Take(w) \/ WorkerStep(w) \/ WorkerFault(w)
Serves(r) == RequestBegin(r) \/ RequestStep(r) \/ RequestFault(r)

------------------------------------------------------------------------------
(* What each step leaves alone, and what it does to its worker.               *)

LEMMA WorkerFrame ==
  ASSUME NEW w \in Workers, Works(w)
  PROVE  UNCHANGED <<request, sweeper, expired, directory, stable>>
BY DEF Works, Take, WorkerStep, WorkerFault, Start, Claim, ReadState, Fetch, Upload, Checkpoint,
   ClaimFinal, MissedFinal, Finalize, BuildPart, UploadFinal, Complete, Tidy, Wipe, ConfirmCancel,
   Park, RetryLater, MarkFailed, Done, StartThrows, Throw, MarkFailedThrows, Crash, LoseLock,
   people

LEMMA RequestFrame ==
  ASSUME NEW r \in Requests, Serves(r)
  PROVE  UNCHANGED <<worker, sweeper, expired, directory>>
BY DEF Serves, RequestBegin, RequestStep, RequestFault, CreateRow, CancelRead, ResumeRead,
   CancelNow, Cleanup, AskCancel, ResumeClaim, Enqueue, EnqueueRefused, Undo, EnqueueThrows,
   Abort, people

LEMMA RestFrame ==
  ASSUME Stalled \/ Pause \/ Expire \/ SweepStep \/ \E e \in Ids : Hire(e) \/ Leave(e)
  PROVE  UNCHANGED <<worker, request>>
BY DEF Stalled, Pause, Expire, SweepStep, SweepExpired, SweepDelete, SweepMark, SweepStale, Hire,
   Leave

\* A step is a worker's, a handler's, or neither's.
LEMMA Actors ==
  ASSUME Next
  PROVE  \/ \E w \in Workers : Works(w)
         \/ \E r \in Requests : Serves(r)
         \/ Stalled \/ Pause \/ Expire \/ SweepStep \/ \E e \in Ids : Hire(e) \/ Leave(e)
BY DEF Next, Works, Serves

\* What remains of the bounds only shrinks.
Budget == \A k \in Kinds : left[k] <= Bounds[k]

LEMMA Spends ==
  ASSUME TypeInv, [Next]_vars, NEW k \in Kinds
  PROVE  left[k] \in Nat /\ left'[k] \in Nat /\ left'[k] <= left[k]
<1>0. left \in [Kinds -> Nat]
  BY DEF TypeInv, TypeOK, RestOK
<1>1. left' = left \/ \E k2 \in Kinds : Spend(k2)
  BY DEF vars, Kinds, Next, Take, WorkerStep, WorkerFault, Start, Claim, ReadState, Fetch, Upload,
     Checkpoint, ClaimFinal, MissedFinal, Finalize, BuildPart, UploadFinal, Complete, Tidy, Wipe,
     ConfirmCancel, Park, RetryLater, MarkFailed, Done, StartThrows, Throw, MarkFailedThrows,
     Crash, LoseLock, RequestBegin, RequestStep, RequestFault, CreateRow, CancelRead, ResumeRead,
     CancelNow, Cleanup, AskCancel, ResumeClaim, Enqueue, EnqueueRefused, Undo, EnqueueThrows,
     Abort, Stalled, Pause, Expire, SweepStep, SweepExpired, SweepDelete, SweepMark, SweepStale,
     Hire, Leave
<1>. QED  BY <1>0, <1>1 DEF Spend

LEMMA BudgetStep ==
  ASSUME TypeInv, Budget, [Next]_vars
  PROVE  Budget' /\ (LocksKept' => LocksKept) /\ (Undisturbed' => Undisturbed)
<1>0. Bounds \in [Kinds -> Nat]
  BY BoundsAssumption DEF BoundsAssumption
<1>1. \A k \in Kinds : left[k] \in Nat /\ left'[k] \in Nat /\ left'[k] <= left[k]
  BY Spends
<1>2. Budget'
  BY <1>0, <1>1 DEF Budget
<1>3. \A k \in Kinds : left'[k] = Bounds[k] => left[k] = Bounds[k]
  BY <1>0, <1>1 DEF Budget
<1>. QED  BY <1>2, <1>3 DEF LocksKept, Undisturbed, Kinds

\* A kept budget means that no such fault happens in the step.
LEMMA NotSpent ==
  ASSUME TypeInv, NEW k \in Kinds, left'[k] = left[k]
  PROVE  ~Spend(k)
BY DEF TypeInv, TypeOK, RestOK, Spend

LEMMA LockStays ==
  ASSUME TypeInv, Budget, [Next]_vars, LocksKept', NEW w \in Workers
  PROVE  ~LoseLock(w)
BY BudgetStep, NotSpent DEF LocksKept, Kinds, LoseLock

\* What a worker's step makes of the worker.
LEMMA Moves ==
  ASSUME TypeInv, NEW w \in Workers, NEW pc, Goto(w, pc)
  PROVE  /\ worker'[w].pc = pc /\ worker'[w].job = worker[w].job /\ worker'[w].made = worker[w].made
         /\ worker'[w].cursor = worker[w].cursor /\ worker'[w].batch = worker[w].batch
         /\ worker'[w].chunk = worker[w].chunk /\ worker'[w].base = worker[w].base
         /\ worker'[w].parts = worker[w].parts /\ worker'[w].built = worker[w].built
BY DEF TypeInv, TypeOK, WorkerType, Goto

LEMMA TakeMoves ==
  ASSUME TypeInv, NEW w \in Workers, Take(w)
  PROVE  /\ worker[w].pc = "idle" /\ worker'[w].pc = "start"
         /\ \E j \in jobs : /\ j.state = "waiting" /\ worker'[w].job = j.id /\ worker'[w].made = j.made
                            /\ jobs' = (jobs \ {j}) \cup {[j EXCEPT !.state = "active", !.owner = w]}
<1>1. PICK j \in jobs :
        /\ j.state = "waiting"
        /\ jobs' = (jobs \ {j}) \cup {[j EXCEPT !.state = "active", !.owner = w]}
        /\ worker' = [worker EXCEPT ![w] = [@ EXCEPT !.pc = "start", !.job = j.id, !.made = j.made]]
  BY DEF Take
<1>2. worker'[w].pc = "start" /\ worker'[w].job = j.id /\ worker'[w].made = j.made
  BY <1>1 DEF TypeInv, TypeOK, WorkerType
<1>. QED  BY <1>1, <1>2 DEF Take, At

LEMMA StartMoves ==
  ASSUME TypeInv, NEW w \in Workers, Start(w)
  PROVE  /\ worker[w].pc = "start" /\ UNCHANGED <<row, staging, final, jobs, left>>
         /\ worker'[w].pc = Entry(row.status) /\ worker'[w].job = worker[w].job
         /\ worker'[w].made = worker[w].made
         /\ worker'[w].cursor = row.cursor /\ worker'[w].batch = row.nextBatch
<1>. DEFINE pc == Entry(row.status)
<1>0. worker[w].pc = "start" /\ UNCHANGED <<row, staging, final, jobs, left>>
  BY DEF Start, At, objects
<1>1. worker' = [worker EXCEPT ![w] =
        [worker[w] EXCEPT !.pc = pc, !.cursor = row.cursor, !.batch = row.nextBatch]]
  BY DEF Start
<1>. HIDE DEF pc
<1>2. /\ worker'[w].pc = pc /\ worker'[w].job = worker[w].job /\ worker'[w].made = worker[w].made
      /\ worker'[w].cursor = row.cursor /\ worker'[w].batch = row.nextBatch
  BY <1>1 DEF TypeInv, TypeOK, WorkerType
<1>. QED  BY <1>0, <1>2 DEF pc

LEMMA ReadMoves ==
  ASSUME TypeInv, NEW w \in Workers, ReadState(w)
  PROVE  /\ worker[w].pc = "read" /\ UNCHANGED <<row, staging, final, jobs, left>>
         /\ \/ row.status = "CANCELLING" /\ worker'[w].pc = "wipe"
            \/ row.status = "PAUSING" /\ worker'[w].pc = "park"
            \/ row.status \notin {"CANCELLING", "PAUSING"} /\ worker'[w].pc = "fetch"
         /\ worker'[w].job = worker[w].job /\ worker'[w].made = worker[w].made
         /\ worker'[w].cursor = worker[w].cursor /\ worker'[w].batch = worker[w].batch
         /\ worker'[w].base = row.processedRows
<1>. DEFINE pc == CASE row.status = "CANCELLING" -> "wipe"
                    [] row.status = "PAUSING"    -> "park"
                    [] OTHER                     -> "fetch"
<1>0. worker[w].pc = "read" /\ UNCHANGED <<row, staging, final, jobs, left>>
  BY DEF ReadState, At, objects
<1>1. worker' = [worker EXCEPT ![w] = [worker[w] EXCEPT !.base = row.processedRows, !.pc = pc]]
  BY DEF ReadState
<1>2. \/ row.status = "CANCELLING" /\ pc = "wipe"
      \/ row.status = "PAUSING" /\ pc = "park"
      \/ row.status \notin {"CANCELLING", "PAUSING"} /\ pc = "fetch"
  OBVIOUS
<1>. HIDE DEF pc
<1>. QED  BY <1>0, <1>1, <1>2 DEF TypeInv, TypeOK, WorkerType

LEMMA FetchMoves ==
  ASSUME TypeInv, NEW w \in Workers, Fetch(w)
  PROVE  /\ worker[w].pc = "fetch" /\ UNCHANGED <<row, staging, final, jobs, left>>
         /\ worker'[w].pc = IF Page(worker[w].cursor) = {} THEN "claimFinal" ELSE "upload"
         /\ worker'[w].chunk = Page(worker[w].cursor)
         /\ worker'[w].job = worker[w].job /\ worker'[w].made = worker[w].made
         /\ worker'[w].cursor = worker[w].cursor /\ worker'[w].batch = worker[w].batch
         /\ worker'[w].base = worker[w].base
<1>. DEFINE page == Page(worker[w].cursor)
            pc == IF page = {} THEN "claimFinal" ELSE "upload"
<1>0. worker[w].pc = "fetch" /\ UNCHANGED <<row, staging, final, jobs, left>>
  BY DEF Fetch, At, objects
<1>1. worker' = [worker EXCEPT ![w] = [worker[w] EXCEPT !.chunk = page, !.pc = pc]]
  BY DEF Fetch
<1>2. pc = IF page = {} THEN "claimFinal" ELSE "upload"
  OBVIOUS
<1>. HIDE DEF page, pc
<1>3. /\ worker'[w].pc = pc /\ worker'[w].chunk = page
      /\ worker'[w].job = worker[w].job /\ worker'[w].made = worker[w].made
      /\ worker'[w].cursor = worker[w].cursor /\ worker'[w].batch = worker[w].batch
      /\ worker'[w].base = worker[w].base
  BY <1>1 DEF TypeInv, TypeOK, WorkerType
<1>. QED  BY <1>0, <1>2, <1>3 DEF page

LEMMA CheckpointMoves ==
  ASSUME TypeInv, NEW w \in Workers, Checkpoint(w)
  PROVE  /\ worker[w].pc = "checkpoint" /\ UNCHANGED <<staging, final, jobs, left>>
         /\ worker'[w].pc = "read" /\ worker'[w].job = worker[w].job
         /\ worker'[w].made = worker[w].made
         /\ worker'[w].cursor = Last(worker[w].chunk) /\ worker'[w].batch = worker[w].batch + 1
         /\ row'.status = row.status /\ row'.key = row.key /\ row'.cursor = Last(worker[w].chunk)
         /\ row'.nextBatch = worker[w].batch + 1
         /\ row'.processedRows = worker[w].base + Cardinality(worker[w].chunk)
<1>. DEFINE last == Last(worker[w].chunk)
            next == worker[w].batch + 1
            rows == worker[w].base + Cardinality(worker[w].chunk)
<1>0. worker[w].pc = "checkpoint" /\ UNCHANGED <<staging, final, jobs, left>>
  BY DEF Checkpoint, At, objects
<1>1. /\ worker' = [worker EXCEPT ![w] =
           [worker[w] EXCEPT !.pc = "read", !.cursor = last, !.batch = next, !.chunk = {}]]
      /\ row' = [row EXCEPT !.cursor = last, !.nextBatch = next, !.processedRows = rows]
  BY DEF Checkpoint
<1>. HIDE DEF last, next, rows
<1>2. /\ worker'[w].pc = "read" /\ worker'[w].job = worker[w].job
      /\ worker'[w].made = worker[w].made /\ worker'[w].cursor = last /\ worker'[w].batch = next
  BY <1>1 DEF TypeInv, TypeOK, WorkerType
<1>3. /\ row'.status = row.status /\ row'.key = row.key /\ row'.cursor = last
      /\ row'.nextBatch = next /\ row'.processedRows = rows
  BY <1>1 DEF TypeInv, TypeOK, RowOK
<1>. QED  BY <1>0, <1>2, <1>3 DEF last, next, rows

LEMMA FinalizeMoves ==
  ASSUME TypeInv, NEW w \in Workers, Finalize(w)
  PROVE  /\ worker[w].pc = "finalize" /\ UNCHANGED <<row, staging, final, jobs, left>>
         /\ worker'[w].pc = IF row.status \in Terminal THEN "done" ELSE "build"
         /\ worker'[w].parts = row.nextBatch - 1 /\ worker'[w].built = << >>
         /\ worker'[w].job = worker[w].job /\ worker'[w].made = worker[w].made
<1>. DEFINE pc == IF row.status \in Terminal THEN "done" ELSE "build"
            parts == row.nextBatch - 1
<1>0. worker[w].pc = "finalize" /\ UNCHANGED <<row, staging, final, jobs, left>>
  BY DEF Finalize, At, objects
<1>1. worker' = [worker EXCEPT ![w] =
        [worker[w] EXCEPT !.parts = parts, !.built = << >>, !.pc = pc]]
  BY DEF Finalize
<1>2. pc = IF row.status \in Terminal THEN "done" ELSE "build"
  OBVIOUS
<1>. HIDE DEF pc, parts
<1>3. /\ worker'[w].pc = pc /\ worker'[w].parts = parts /\ worker'[w].built = << >>
      /\ worker'[w].job = worker[w].job /\ worker'[w].made = worker[w].made
  BY <1>1 DEF TypeInv, TypeOK, WorkerType
<1>. QED  BY <1>0, <1>2, <1>3 DEF parts

LEMMA BuildMoves ==
  ASSUME TypeInv, NEW w \in Workers, BuildPart(w)
  PROVE  /\ worker[w].pc = "build" /\ UNCHANGED <<row, staging, final, jobs, left>>
         /\ worker'[w].job = worker[w].job
         /\ worker'[w].made = worker[w].made /\ worker'[w].parts = worker[w].parts
         /\ \/ worker'[w].pc = "caught"
            \/ /\ worker'[w].pc = "build" /\ Len(worker[w].built) + 1 <= worker[w].parts
               /\ Len(worker[w].built) + 1 \in DOMAIN staging
               /\ worker'[w].built = Append(worker[w].built, staging[Len(worker[w].built) + 1])
BY DEF TypeInv, TypeOK, WorkerType, BuildPart, At, Goto, objects

------------------------------------------------------------------------------
(* Every job that runs has one worker, which runs no other.                   *)

Holds(w, j) == j \in jobs /\ j.id = worker[w].job /\ j.owner = w

Owned ==
  /\ \A w \in Workers : worker[w].pc # "idle" => \E j \in jobs : Holds(w, j)
  /\ \A j \in jobs : j.owner # None =>
       j.state = "active" /\ worker[j.owner].pc # "idle" /\ worker[j.owner].job = j.id
  /\ \A j, k \in jobs : j.id = k.id => j = k

\* The worker goes on with its job, or has no job any more.
Runs(w) ==
  /\ jobs' = jobs /\ worker[w].pc \notin {"idle", "done"} /\ worker'[w].pc # "idle"
  /\ worker'[w].job = worker[w].job /\ worker'[w].made = worker[w].made

Leaves(w) ==
  /\ worker[w].pc # "idle" /\ worker' = [worker EXCEPT ![w] = IdleWorker]
  /\ Done(w) \/ RetryLater(w) \/ StartThrows(w) \/ MarkFailedThrows(w) \/ Crash(w)

LEMMA WorkerKinds ==
  ASSUME TypeInv, NEW w \in Workers, Works(w)
  PROVE  Take(w) \/ LoseLock(w) \/ Runs(w) \/ Leaves(w)
<1>0. worker \in [Workers -> WorkerType]
  BY DEF TypeInv, TypeOK
<1>2. CASE Claim(w)
  BY <1>2, <1>0 DEF Claim, At, Goto, WorkerType, Runs
<1>3. CASE Upload(w) \/ ClaimFinal(w) \/ MissedFinal(w)
  BY <1>3, <1>0 DEF Upload, ClaimFinal, MissedFinal, At, Goto, WorkerType, Runs
<1>4. CASE UploadFinal(w) \/ Complete(w) \/ Tidy(w) \/ Wipe(w)
  BY <1>4, <1>0 DEF UploadFinal, Complete, Tidy, Wipe, At, Goto, WorkerType, Runs
<1>5. CASE ConfirmCancel(w) \/ Park(w) \/ Throw(w) \/ MarkFailed(w)
  BY <1>5, <1>0 DEF ConfirmCancel, Park, Throw, MarkFailed, At, Goto, WorkerType, Runs
<1>6. CASE Start(w)
  BY <1>6, StartMoves DEF Runs, Entry
<1>7. CASE ReadState(w)
  BY <1>7, ReadMoves DEF Runs
<1>8. CASE Fetch(w)
  BY <1>8, FetchMoves DEF Runs
<1>9. CASE Checkpoint(w)
  BY <1>9, CheckpointMoves DEF Runs
<1>10. CASE Finalize(w)
  BY <1>10, FinalizeMoves DEF Runs
<1>11. CASE BuildPart(w)
  BY <1>11, BuildMoves DEF Runs
<1>12. CASE Done(w) \/ RetryLater(w) \/ StartThrows(w) \/ MarkFailedThrows(w) \/ Crash(w)
  BY <1>12 DEF Done, RetryLater, StartThrows, MarkFailedThrows, Crash, Return, Rethrow, At, Leaves
<1>. QED
  BY <1>2, <1>3, <1>4, <1>5, <1>6, <1>7, <1>8, <1>9, <1>10, <1>11, <1>12
     DEF Works, WorkerStep, WorkerFault

\* The job a worker lets go of disappears, waits, or is kept as failed; the job of
\* a worker that died stays active without an owner.
LEMMA LeavesJob ==
  ASSUME TypeInv, Owned, NEW w \in Workers, Leaves(w)
  PROVE  \E j \in jobs :
           /\ Holds(w, j)
           /\ \/ Done(w) /\ jobs' = jobs \ {j}
              \/ /\ ~At(w, "done") \/ Crash(w)
                 /\ \E k \in JobType :
                      /\ jobs' = (jobs \ {j}) \cup {k}
                      /\ k.id = j.id /\ k.owner = None
                      /\ \/ Crash(w) /\ k.state = "active" /\ k.made = j.made /\ k.stalls = j.stalls
                         \/ /\ ~Crash(w) /\ ~At(w, "done") /\ k.made = j.made + 1 /\ k.stalls = j.stalls
                            /\ k.state = IF k.made < MaxAttempts THEN "waiting" ELSE "failed"
<1>1. PICK j \in jobs : Holds(w, j)
  BY DEF Owned, Leaves
<1>2. Held(w) = {j}
  BY <1>1 DEF Held, Holds, Owned
<1>3. j \in JobType
  BY DEF TypeInv, TypeOK
<1>4. CASE Done(w)
  BY <1>1, <1>2, <1>4 DEF Done, Return
<1>5. CASE ~Crash(w) /\ (RetryLater(w) \/ StartThrows(w) \/ MarkFailedThrows(w))
  <2>. DEFINE state == IF j.made + 1 < MaxAttempts THEN "waiting" ELSE "failed"
              k == [j EXCEPT !.made = @ + 1, !.owner = None, !.state = state]
  <2>1. jobs' = (jobs \ {j}) \cup {k}
    BY <1>2, <1>5 DEF RetryLater, StartThrows, MarkFailedThrows, Rethrow
  <2>2. state \in {"waiting", "failed"}
    OBVIOUS
  <2>3. j.made + 1 \in Nat
    BY <1>3 DEF JobType
  <2>4. k \in JobType
    <3>. HIDE DEF state
    <3>. QED  BY <1>3, <2>2, <2>3, Zenon DEF JobType
  <2>5. /\ k.id = j.id /\ k.owner = None /\ k.made = j.made + 1 /\ k.stalls = j.stalls
        /\ k.state = state
    <3>. HIDE DEF state
    <3>. QED  BY <1>3 DEF JobType
  <2>6. ~At(w, "done")
    BY <1>5 DEF RetryLater, StartThrows, MarkFailedThrows, At
  <2>7. k.state = IF k.made < MaxAttempts THEN "waiting" ELSE "failed"
    BY <2>5
  <2>. HIDE DEF k
  <2>. QED  BY <1>1, <1>5, <2>1, <2>4, <2>5, <2>6, <2>7
<1>6. CASE Crash(w)
  <2>. DEFINE k == [j EXCEPT !.owner = None]
  <2>1. jobs' = (jobs \ {j}) \cup {k}
    BY <1>2, <1>6 DEF Crash, Release
  <2>2. k \in JobType
    BY <1>3, Zenon DEF JobType
  <2>3. /\ k.id = j.id /\ k.owner = None /\ k.made = j.made /\ k.stalls = j.stalls
        /\ k.state = "active"
    BY <1>1, <1>3, NoneAssumption DEF JobType, Owned, Holds, NoneAssumption
  <2>. HIDE DEF k
  <2>. QED  BY <1>1, <1>6, <2>1, <2>2, <2>3
<1>. QED  BY <1>4, <1>5, <1>6 DEF Leaves

\* A handler adds one job, or none.
LEMMA RequestJobs ==
  ASSUME NEW r \in Requests, Serves(r)
  PROVE  \/ jobs' = jobs
         \/ request[r].pc = "enqueue" /\ ~Refused(r) /\ jobs' = Added(request[r].batch)
BY DEF Serves, RequestBegin, RequestStep, RequestFault, CreateRow, CancelRead, ResumeRead,
   CancelNow, Cleanup, AskCancel, ResumeClaim, Enqueue, EnqueueRefused, Undo, EnqueueThrows, Abort

LEMMA StalledJob ==
  ASSUME TypeInv, Stalled
  PROVE  \E j \in jobs : \E k \in JobType :
           /\ j.state = "active" /\ j.owner = None
           /\ jobs' = (jobs \ {j}) \cup {k}
           /\ k.id = j.id /\ k.owner = None /\ k.made = j.made /\ k.stalls = j.stalls + 1
           /\ k.state = IF k.stalls > MaxStalledCount THEN "failed" ELSE "waiting"
<1>1. PICK j \in jobs :
        /\ j.state = "active" /\ j.owner = None
        /\ jobs' = (jobs \ {j}) \cup
             {[j EXCEPT !.stalls = @ + 1,
                        !.state = IF j.stalls + 1 > MaxStalledCount THEN "failed" ELSE "waiting"]}
  BY DEF Stalled
<1>. DEFINE state == IF j.stalls + 1 > MaxStalledCount THEN "failed" ELSE "waiting"
            k == [j EXCEPT !.stalls = @ + 1, !.state = state]
<1>2. j \in JobType /\ j.stalls + 1 \in Nat /\ state \in {"waiting", "failed"}
  BY DEF TypeInv, TypeOK, JobType
<1>3. jobs' = (jobs \ {j}) \cup {k}
  BY <1>1
<1>4. /\ k \in JobType /\ k.id = j.id /\ k.owner = None /\ k.made = j.made
      /\ k.stalls = j.stalls + 1 /\ k.state = state
  <2>. HIDE DEF state
  <2>1. k \in JobType
    BY <1>2, Zenon DEF JobType
  <2>. QED  BY <1>1, <1>2, <2>1 DEF JobType
<1>5. k.state = IF k.stalls > MaxStalledCount THEN "failed" ELSE "waiting"
  BY <1>4
<1>. HIDE DEF k, state
<1>. QED  BY <1>1, <1>3, <1>4, <1>5

LEMMA OwnedStep ==
  ASSUME TypeInv, Owned, [Next]_vars, \A w \in Workers : ~LoseLock(w)
  PROVE  Owned'
<1>0. /\ worker \in [Workers -> WorkerType] /\ jobs \subseteq JobType
      /\ \A j \in JobType : j.owner \in Workers \cup {None}
      /\ None \notin Workers
  BY NoneAssumption DEF TypeInv, TypeOK, JobType, NoneAssumption
<1>1. ASSUME jobs' = jobs,
             \A w \in Workers : /\ worker[w].pc = "idle" <=> worker'[w].pc = "idle"
                                /\ worker[w].job = worker'[w].job
      PROVE  Owned'
  BY <1>0, <1>1 DEF Owned, Holds
<1>2. ASSUME NEW j \in jobs, NEW k \in JobType, j.owner = None, k.owner = None, k.id = j.id,
             jobs' = (jobs \ {j}) \cup {k}, worker' = worker
      PROVE  Owned'
  <2>1. \A w \in Workers : worker'[w].pc # "idle" => \E i \in jobs' : Holds(w, i)'
    BY <1>0, <1>2 DEF Owned, Holds
  <2>2. \A i \in jobs' : i.owner # None =>
          i.state = "active" /\ worker'[i.owner].pc # "idle" /\ worker'[i.owner].job = i.id
    BY <1>0, <1>2 DEF Owned
  <2>3. \A i, m \in jobs' : i.id = m.id => i = m
    BY <1>2 DEF Owned
  <2>. QED  BY <2>1, <2>2, <2>3 DEF Owned
<1>3. ASSUME NEW w \in Workers, Take(w) PROVE Owned'
  <2>1. PICK j \in jobs :
          /\ j.state = "waiting" /\ worker'[w].job = j.id
          /\ jobs' = (jobs \ {j}) \cup {[j EXCEPT !.state = "active", !.owner = w]}
    BY <1>3, TakeMoves
  <2>. DEFINE k == [j EXCEPT !.state = "active", !.owner = w]
  <2>2. k.state = "active" /\ k.owner = w /\ k.id = j.id /\ j.owner = None
    BY <1>0, <2>1 DEF JobType, Owned
  <2>3. jobs' = (jobs \ {j}) \cup {k}
    BY <2>1
  <2>. HIDE DEF k
  <2>4. worker[w].pc = "idle" /\ worker'[w].pc = "start"
    BY <1>3, TakeMoves
  <2>5. \A v \in Workers : v # w => worker'[v] = worker[v]
    BY <1>3, OneWorker
  <2>6. \A v \in Workers : worker'[v].pc # "idle" => \E i \in jobs' : Holds(v, i)'
    <3>1. Holds(w, k)'
      BY <2>1, <2>2, <2>3 DEF Holds
    <3>2. ASSUME NEW v \in Workers, v # w, worker'[v].pc # "idle"
          PROVE  \E i \in jobs' : Holds(v, i)'
      <4>1. PICK i \in jobs : Holds(v, i)
        BY <2>5, <3>2 DEF Owned
      <4>2. i # j
        BY <1>0, <2>2, <4>1 DEF Holds
      <4>. QED  BY <2>3, <2>5, <3>2, <4>1, <4>2 DEF Holds
    <3>. QED  BY <2>3, <3>1, <3>2
  <2>7. \A i \in jobs' : i.owner # None =>
          i.state = "active" /\ worker'[i.owner].pc # "idle" /\ worker'[i.owner].job = i.id
    BY <1>0, <2>1, <2>2, <2>3, <2>4, <2>5 DEF Owned
  <2>8. \A i, m \in jobs' : i.id = m.id => i = m
    BY <2>2, <2>3 DEF Owned
  <2>. QED  BY <2>6, <2>7, <2>8 DEF Owned
<1>4. ASSUME NEW w \in Workers, Leaves(w) PROVE Owned'
  <2>1. PICK j \in jobs : /\ Holds(w, j)
                          /\ \/ jobs' = jobs \ {j}
                             \/ \E k \in JobType : /\ jobs' = (jobs \ {j}) \cup {k}
                                                   /\ k.id = j.id /\ k.owner = None
    BY <1>4, LeavesJob
  <2>2. /\ worker'[w].pc = "idle" /\ \A v \in Workers : v # w => worker'[v] = worker[v]
        /\ jobs \ {j} \subseteq jobs'
        /\ \A i \in jobs' : i \in jobs \ {j} \/ (i.owner = None /\ i.id = j.id)
    <3>1. worker'[w].pc = "idle" /\ \A v \in Workers : v # w => worker'[v] = worker[v]
      BY <1>0, <1>4 DEF Leaves, IdleWorker
    <3>2. CASE jobs' = jobs \ {j}
      BY <3>1, <3>2
    <3>3. ASSUME NEW k, jobs' = (jobs \ {j}) \cup {k}, k.id = j.id, k.owner = None
          PROVE  /\ jobs \ {j} \subseteq jobs'
                 /\ \A i \in jobs' : i \in jobs \ {j} \/ (i.owner = None /\ i.id = j.id)
      BY <3>3
    <3>. QED  BY <2>1, <3>1, <3>2, <3>3
  <2>3. \A v \in Workers : worker'[v].pc # "idle" => \E i \in jobs' : Holds(v, i)'
    <3>1. ASSUME NEW v \in Workers, v # w, worker'[v].pc # "idle"
          PROVE  \E i \in jobs' : Holds(v, i)'
      <4>1. PICK i \in jobs : Holds(v, i)
        BY <2>2, <3>1 DEF Owned
      <4>2. i # j
        BY <2>1, <3>1, <4>1 DEF Holds
      <4>. QED  BY <2>2, <3>1, <4>1, <4>2 DEF Holds
    <3>. QED  BY <2>2, <3>1
  <2>4. \A i \in jobs' : i.owner # None =>
          i.state = "active" /\ worker'[i.owner].pc # "idle" /\ worker'[i.owner].job = i.id
    <3>1. ASSUME NEW i \in jobs', i.owner # None PROVE i \in jobs /\ i.owner \in Workers \ {w}
      BY <1>0, <2>1, <2>2, <3>1 DEF Owned, Holds
    <3>. QED  BY <2>2, <3>1 DEF Owned
  <2>5. \A i, m \in jobs' : i.id = m.id => i = m
    BY <2>1, <2>2 DEF Owned
  <2>. QED  BY <2>3, <2>4, <2>5 DEF Owned
<1>5. ASSUME NEW w \in Workers, Runs(w), Works(w) PROVE Owned'
  BY <1>1, <1>5, OneWorker DEF Runs, Works
<1>6. ASSUME NEW r \in Requests, Serves(r) PROVE Owned'
  <2>0. worker' = worker
    BY <1>6, RequestFrame
  <2>1. CASE jobs' = jobs
    BY <1>1, <2>0, <2>1
  <2>2. CASE /\ \A j \in jobs : j.id # request[r].batch
             /\ jobs' = jobs \cup {[id |-> request[r].batch, state |-> "waiting", made |-> 0,
                                    stalls |-> 0, owner |-> None]}
    BY <2>0, <2>2 DEF Owned, Holds
  <2>. QED  BY <1>6, <2>1, <2>2, RequestJobs DEF Added
<1>7. CASE Stalled
  BY <1>2, <1>7, StalledJob, RestFrame
<1>8. CASE Pause \/ Expire \/ SweepStep \/ \E e \in Ids : Hire(e) \/ Leave(e)
  BY <1>8, <1>1 DEF Pause, Expire, SweepStep, SweepExpired, SweepDelete, SweepMark, SweepStale,
     Hire, Leave
<1>9. CASE UNCHANGED vars
  BY <1>9, <1>1 DEF vars
<1>. QED  BY <1>3, <1>4, <1>5, <1>6, <1>7, <1>8, <1>9, Actors, WorkerKinds

------------------------------------------------------------------------------
(* Who changes the status of the row, and from what to what.                  *)

Turns(from, to) ==
  /\ row.status = from /\ row'.status = to
  /\ row'.cursor = row.cursor /\ row'.nextBatch = row.nextBatch
  /\ row'.processedRows = row.processedRows

LEMMA FlipTurns ==
  ASSUME TypeInv, NEW from, NEW to, Flip(from, to)
  PROVE  row' = row \/ Turns(from, to)
BY DEF TypeInv, TypeOK, RowOK, Flip, Turns

LEMMA WorkerRow ==
  ASSUME TypeInv, NEW w \in Workers, Works(w)
  PROVE  \/ row' = row
         \/ Checkpoint(w)
         \/ Claim(w) /\ Turns("QUEUED", "PROCESSING")
         \/ ClaimFinal(w) /\ Turns("PROCESSING", "FINALIZING")
         \/ Complete(w) /\ Turns("FINALIZING", "COMPLETED") /\ row'.key
         \/ ConfirmCancel(w) /\ Turns("CANCELLING", "CANCELLED")
         \/ Park(w) /\ Turns("PAUSING", "PAUSED")
         \/ MarkFailed(w) /\ row.status \in InProgress /\ Turns(row.status, "FAILED")
<1>1. CASE Claim(w) \/ ClaimFinal(w) \/ ConfirmCancel(w) \/ Park(w)
  BY <1>1, FlipTurns DEF Claim, ClaimFinal, ConfirmCancel, Park
<1>2. CASE Complete(w)
  BY <1>2 DEF Complete, Turns, TypeInv, TypeOK, RowOK
<1>3. CASE MarkFailed(w)
  BY <1>3 DEF MarkFailed, Turns, TypeInv, TypeOK, RowOK
<1>. QED  BY <1>1, <1>2, <1>3 DEF Works, Take, WorkerStep, WorkerFault, Start, ReadState, Fetch,
            Upload, MissedFinal, Finalize, BuildPart, UploadFinal, Tidy, Wipe, RetryLater, Done,
            StartThrows, Throw, MarkFailedThrows, Crash, LoseLock

LEMMA RequestRow ==
  ASSUME TypeInv, NEW r \in Requests, Serves(r)
  PROVE  \/ row' = row
         \/ CreateRow(r) /\ Turns("ABSENT", "QUEUED")
         \/ CancelNow(r) /\ Turns(request[r].seen, "CANCELLED")
         \/ AskCancel(r) /\ Turns(request[r].seen, "CANCELLING")
         \/ ResumeClaim(r) /\ Turns("PAUSED", "QUEUED")
         \/ Undo(r) /\ request[r].op # "create" /\ Turns("QUEUED", "PAUSED")
         \/ Undo(r) /\ request[r].op = "create" /\ Turns(row.status, "FAILED")
<1>1. CASE CreateRow(r)
  BY <1>1 DEF CreateRow, Turns, TypeInv, TypeOK, RowOK
<1>2. CASE CancelNow(r) \/ AskCancel(r) \/ ResumeClaim(r)
  BY <1>2, FlipTurns DEF CancelNow, AskCancel, ResumeClaim
<1>3. CASE Undo(r)
  BY <1>3, FlipTurns DEF Undo, Turns, TypeInv, TypeOK, RowOK
<1>. QED  BY <1>1, <1>2, <1>3 DEF Serves, RequestBegin, RequestStep, RequestFault, CancelRead,
            ResumeRead, Cleanup, Enqueue, EnqueueRefused, EnqueueThrows, Abort

LEMMA RestRow ==
  ASSUME TypeInv, Stalled \/ Pause \/ Expire \/ SweepStep \/ \E e \in Ids : Hire(e) \/ Leave(e)
  PROVE  \/ row' = row
         \/ Pause /\ Turns("PROCESSING", "PAUSING")
         \/ SweepMark /\ Turns("COMPLETED", "EXPIRED")
<1>1. CASE Pause \/ SweepMark
  BY <1>1, FlipTurns DEF Pause, SweepMark
<1>. QED  BY <1>1 DEF Stalled, Expire, SweepStep, SweepExpired, SweepDelete, SweepStale, Hire,
            Leave

------------------------------------------------------------------------------
(* What handlers know, and what there is before the export.                   *)

Adding(r) == request[r].pc \in {"enqueue", "undo"}

Aimed(r) ==
  /\ request[r].pc = "cancelNow" => request[r].seen \in {"QUEUED", "PAUSED"}
  /\ request[r].pc = "askCancel" => request[r].seen \in {"PROCESSING", "PAUSING", "CANCELLING"}
  /\ request[r].pc = "cleanup" => row.status \in {"CANCELLED", "FAILED"}
  /\ request[r].pc = "resume" => request[r].op = "resume"
  /\ Adding(r) => \/ request[r].op = "create" /\ request[r].batch = 0
                  \/ request[r].op = "resume"

\* Nothing runs before there is a row, and those present since are still there.
Begun ==
  \/ jobs # {}
  \/ \E w \in Workers : worker[w].pc # "idle"
  \/ \E r \in Requests : request[r].pc # "idle"
  => row.status # "ABSENT"
Fresh == row.status = "ABSENT" => row = FreshRow
Present == stable \subseteq Employees

ControlInv == (\A r \in Requests : Aimed(r)) /\ Begun /\ Fresh /\ Present

LEMMA ServeMoves ==
  ASSUME TypeInv, ControlInv, NEW r \in Requests, Serves(r)
  PROVE  /\ \A q \in Requests : q # r => request'[q] = request[q]
         /\ Aimed(r)'
         /\ request'[r].pc # "idle" => row'.status # "ABSENT"
<1>0. /\ request \in [Requests -> RequestType] /\ RowOK /\ Aimed(r)
      /\ request[r].pc # "idle" => row.status # "ABSENT"
  BY DEF TypeInv, TypeOK, ControlInv, Begun
<1>1. CASE CreateRow(r)
  BY <1>0, <1>1 DEF CreateRow, IdleRequest, Aimed, Adding, RowOK
<1>2. CASE CancelRead(r)
  <2>. DEFINE pc == IF row.status \in {"QUEUED", "PAUSED"} THEN "cancelNow" ELSE "askCancel"
  <2>1. /\ request' = [request EXCEPT ![r] = [IdleRequest EXCEPT !.op = "cancel",
             !.seen = row.status, !.key = row.key, !.pc = pc]]
        /\ row' = row
        /\ row.status \in {"QUEUED", "PAUSED", "PROCESSING", "PAUSING", "CANCELLING"}
    BY <1>2 DEF CancelRead
  <2>2. \/ pc = "cancelNow" /\ row.status \in {"QUEUED", "PAUSED"}
        \/ pc = "askCancel" /\ row.status \notin {"QUEUED", "PAUSED"}
    OBVIOUS
  <2>. HIDE DEF pc
  <2>3. request'[r].pc = pc /\ request'[r].seen = row.status
    BY <1>0, <2>1 DEF IdleRequest
  <2>. QED  BY <1>0, <2>1, <2>2, <2>3 DEF Aimed, Adding
<1>3. CASE ResumeRead(r)
  BY <1>0, <1>3 DEF ResumeRead, IdleRequest, Aimed, Adding
<1>4. CASE CancelNow(r)
  BY <1>0, <1>4 DEF CancelNow, IdleRequest, Aimed, Adding, RequestType, Flip, RowOK
<1>5. CASE Cleanup(r) \/ Enqueue(r) \/ Abort(r)
  BY <1>0, <1>5 DEF Cleanup, Enqueue, Abort, IdleRequest, Aimed, Adding
<1>6. CASE AskCancel(r) \/ Undo(r)
  BY <1>0, <1>6 DEF AskCancel, Undo, IdleRequest, Aimed, Adding
<1>7. CASE ResumeClaim(r)
  BY <1>0, <1>7 DEF ResumeClaim, IdleRequest, Aimed, Adding, RequestType, Flip, RowOK
<1>8. CASE EnqueueRefused(r) \/ EnqueueThrows(r)
  BY <1>0, <1>8 DEF EnqueueRefused, EnqueueThrows, Aimed, Adding, RequestType
<1>. QED  BY <1>1, <1>2, <1>3, <1>4, <1>5, <1>6, <1>7, <1>8
            DEF Serves, RequestBegin, RequestStep, RequestFault

LEMMA ControlStep ==
  ASSUME TypeInv, ControlInv, [Next]_vars
  PROVE  ControlInv'
<1>0. /\ request \in [Requests -> RequestType] /\ RowOK /\ TypeInv'
      /\ \A r \in Requests : Aimed(r)
  BY TypeStep DEF TypeInv, TypeOK, ControlInv
<1>ended. ASSUME row.status \in {"CANCELLED", "FAILED"} PROVE row'.status \in {"CANCELLED", "FAILED"}
  <2>1. ASSUME NEW w \in Workers, Works(w) PROVE row'.status \in {"CANCELLED", "FAILED"}
    BY <1>ended, <2>1, WorkerRow, CheckpointMoves DEF Turns
  <2>2. ASSUME NEW r \in Requests, Serves(r) PROVE row'.status \in {"CANCELLED", "FAILED"}
    BY <1>0, <1>ended, <2>2, RequestRow DEF Turns, Aimed, CancelNow, AskCancel
  <2>3. ASSUME UNCHANGED row PROVE row'.status \in {"CANCELLED", "FAILED"}
    BY <1>ended, <2>3
  <2>. QED  BY <1>ended, <2>1, <2>2, <2>3, Actors, RestRow DEF Turns, vars
<1>absent. ASSUME row'.status = "ABSENT" PROVE row' = row /\ UNCHANGED <<jobs, worker, request>>
  <2>0. row.status = "ABSENT" => jobs = {} /\ \A w \in Workers : worker[w].pc = "idle"
    BY DEF ControlInv, Begun
  <2>1. ASSUME NEW w \in Workers, Works(w) PROVE FALSE
    <3>1. row.status # "ABSENT"
      BY <2>0, <2>1, WorkerKinds, TakeMoves DEF Runs, Leaves, LoseLock, Held
    <3>. QED  BY <1>absent, <2>1, <3>1, WorkerRow, CheckpointMoves DEF Turns
  <2>2. ASSUME NEW r \in Requests, Serves(r) PROVE FALSE
    <3>1. row.status # "ABSENT" \/ request[r].pc = "idle"
      BY DEF ControlInv, Begun
    <3>2. row' = row
      BY <1>absent, <2>2, RequestRow DEF Turns
    <3>. QED  BY <1>0, <1>absent, <2>2, <3>1, <3>2 DEF Serves, RequestBegin, RequestStep,
                RequestFault, CreateRow, CancelRead, ResumeRead, CancelNow, Cleanup, AskCancel,
                ResumeClaim, Enqueue, EnqueueRefused, Undo, EnqueueThrows, Abort, RowOK
  <2>3. ASSUME Stalled \/ Pause \/ Expire \/ SweepStep \/ \E e \in Ids : Hire(e) \/ Leave(e)
        PROVE  row' = row /\ UNCHANGED <<jobs, worker, request>>
    <3>1. row' = row
      BY <1>absent, <2>3, RestRow DEF Turns
    <3>. QED  BY <1>absent, <2>0, <2>3, <3>1, RestFrame DEF Stalled, Pause, Expire, SweepStep,
                SweepExpired, SweepDelete, SweepMark, SweepStale, Hire, Leave
  <2>. QED  BY <2>1, <2>2, <2>3, Actors DEF vars
<1>1. ASSUME NEW r \in Requests PROVE Aimed(r)'
  <2>1. CASE request'[r] = request[r]
    BY <1>0, <1>ended, <2>1 DEF Aimed, Adding
  <2>2. ASSUME NEW q \in Requests, Serves(q) PROVE Aimed(r)'
    BY <2>1, <2>2, ServeMoves
  <2>3. ASSUME NEW w \in Workers, Works(w) PROVE request' = request
    BY <2>3, WorkerFrame
  <2>. QED  BY <2>1, <2>2, <2>3, Actors, RestFrame DEF vars
<1>2. Begun'
  BY <1>absent DEF ControlInv, Begun
<1>3. Fresh'
  BY <1>absent DEF ControlInv, Fresh
<1>4. Present'
  <2>1. CASE UNCHANGED <<directory, stable>>
    BY <2>1 DEF ControlInv, Present, Employees
  <2>2. ASSUME NEW r \in Requests, CreateRow(r) PROVE Present'
    BY <2>2 DEF CreateRow, Present, Employees
  <2>3. ASSUME NEW r \in Requests, Serves(r), ~CreateRow(r) PROVE UNCHANGED <<directory, stable>>
    BY <2>3 DEF Serves, RequestBegin, RequestStep, RequestFault, CancelRead, ResumeRead, CancelNow,
       Cleanup, AskCancel, ResumeClaim, Enqueue, EnqueueRefused, Undo, EnqueueThrows, Abort, people
  <2>4. ASSUME NEW w \in Workers, Works(w) PROVE UNCHANGED <<directory, stable>>
    BY <2>4, WorkerFrame
  <2>5. ASSUME NEW e \in Ids, Hire(e) \/ Leave(e) PROVE Present'
    BY <2>5 DEF Hire, Leave, ControlInv, Present, Employees, TypeInv, TypeOK, PeopleOK
  <2>6. ASSUME Stalled \/ Pause \/ Expire \/ SweepStep PROVE UNCHANGED <<directory, stable>>
    BY <2>6 DEF Stalled, Pause, Expire, SweepStep, SweepExpired, SweepDelete, SweepMark,
       SweepStale, people
  <2>. QED  BY <2>1, <2>2, <2>3, <2>4, <2>5, <2>6, Actors DEF vars, people
<1>. QED  BY <1>1, <1>2, <1>3, <1>4 DEF ControlInv

------------------------------------------------------------------------------
(* One actor at a time.  Either a resumed export can have no second job, or a *)
(* job is added only when the one before it has done its work.                *)

OneJob == \A j \in jobs : j.id = 0

\* A job that may still do something.
Counts(j) == j.state # "failed" /\ (j.owner # None => worker[j.owner].pc # "done")

OneAtWork ==
  /\ \A j, k \in jobs : Counts(j) /\ Counts(k) => j = k
  /\ \A q, r \in Requests : Adding(q) /\ Adding(r) => q = r
  /\ \A j \in jobs : Counts(j) => row.status # "PAUSED" /\ \A r \in Requests : ~Adding(r)
  /\ \A r \in Requests : Adding(r) => row.status # "PAUSED"

Sole == IF RejectsColonIds THEN OneJob ELSE OneAtWork

LEMMA OneJobStep ==
  ASSUME TypeInv, Owned, ControlInv, OneJob, [Next]_vars, RejectsColonIds,
         \A w \in Workers : ~LoseLock(w)
  PROVE  OneJob'
<1>same. ASSUME jobs' = jobs PROVE OneJob'
  BY <1>same DEF OneJob
<1>1. ASSUME NEW w \in Workers, Take(w) PROVE OneJob'
  <2>1. PICK j \in jobs : jobs' = (jobs \ {j}) \cup {[j EXCEPT !.state = "active", !.owner = w]}
    BY <1>1, TakeMoves
  <2>2. j \in JobType
    BY DEF TypeInv, TypeOK
  <2>3. [j EXCEPT !.state = "active", !.owner = w].id = j.id
    BY <2>2 DEF JobType
  <2>. QED  BY <2>1, <2>3 DEF OneJob
<1>2. ASSUME NEW w \in Workers, Leaves(w) PROVE OneJob'
  <2>1. PICK j \in jobs : \/ jobs' = jobs \ {j}
                          \/ \E k \in JobType : jobs' = (jobs \ {j}) \cup {k} /\ k.id = j.id
    BY <1>2, LeavesJob
  <2>. QED  BY <2>1 DEF OneJob
<1>3. ASSUME NEW r \in Requests, Serves(r) PROVE OneJob'
  <2>1. CASE request[r].pc = "enqueue" /\ ~Refused(r) /\ jobs' = Added(request[r].batch)
    <3>1. request[r].batch = 0
      BY <2>1 DEF ControlInv, Aimed, Adding, Refused
    <3>. QED  BY <2>1, <3>1 DEF Added, OneJob
  <2>. QED  BY <1>3, <2>1, <1>same, RequestJobs
<1>4. CASE Stalled
  <2>1. PICK j \in jobs : \E k \in JobType : jobs' = (jobs \ {j}) \cup {k} /\ k.id = j.id
    BY <1>4, StalledJob
  <2>. QED  BY <2>1 DEF OneJob
<1>5. CASE Pause \/ Expire \/ SweepStep \/ \E e \in Ids : Hire(e) \/ Leave(e)
  BY <1>5, <1>same DEF Pause, Expire, SweepStep, SweepExpired, SweepDelete, SweepMark, SweepStale,
     Hire, Leave
<1>6. ASSUME NEW w \in Workers, Works(w) PROVE OneJob'
  BY <1>1, <1>2, <1>6, <1>same, WorkerKinds DEF Runs
<1>. QED  BY <1>3, <1>4, <1>5, <1>6, <1>same, Actors DEF vars

\* A step that makes no new job count and lets no new handler add one.
LEMMA OneAtWorkKept ==
  ASSUME OneAtWork, Owned',
         \A k \in jobs' : Counts(k)' => \E j \in jobs : Counts(j) /\ j.id = k.id,
         \A r \in Requests : Adding(r)' => Adding(r),
         \/ row'.status # "PAUSED"
         \/ row'.status = row.status
         \/ (\A k \in jobs' : ~Counts(k)') /\ \A r \in Requests : ~Adding(r)'
  PROVE  OneAtWork'
<1>1. ASSUME NEW k \in jobs', NEW l \in jobs', Counts(k)', Counts(l)' PROVE k = l
  <2>1. k.id = l.id
    BY <1>1 DEF OneAtWork
  <2>. QED  BY <2>1 DEF Owned
<1>2. \A q, r \in Requests : Adding(q)' /\ Adding(r)' => q = r
  BY DEF OneAtWork
<1>3. ASSUME NEW k \in jobs', Counts(k)'
      PROVE  row'.status # "PAUSED" /\ \A r \in Requests : ~Adding(r)'
  <2>1. row.status # "PAUSED" /\ \A r \in Requests : ~Adding(r)
    BY <1>3 DEF OneAtWork
  <2>. QED  BY <1>3, <2>1
<1>4. ASSUME NEW r \in Requests, Adding(r)' PROVE row'.status # "PAUSED"
  <2>1. row.status # "PAUSED"
    BY <1>4 DEF OneAtWork
  <2>. QED  BY <1>4, <2>1
<1>. QED  BY <1>1, <1>2, <1>3, <1>4 DEF OneAtWork

LEMMA WorkerSole ==
  ASSUME TypeInv, Owned, OneAtWork, NEW w \in Workers, Works(w), Owned',
         ~LoseLock(w), ~Crash(w), ~Spend("replies")
  PROVE  OneAtWork'
<1>0. /\ worker \in [Workers -> WorkerType] /\ jobs \subseteq JobType
      /\ \A j \in JobType : j.owner \in Workers \cup {None}
      /\ None \notin Workers
  BY NoneAssumption DEF TypeInv, TypeOK, JobType, NoneAssumption
<1>1. \A v \in Workers : v # w => worker'[v] = worker[v]
  BY OneWorker DEF Works
<1>2. \A r \in Requests : Adding(r)' => Adding(r)
  BY WorkerFrame DEF Adding
<1>3. CASE Take(w)
  <2>1. PICK j \in jobs :
          /\ j.state = "waiting"
          /\ jobs' = (jobs \ {j}) \cup {[j EXCEPT !.state = "active", !.owner = w]}
    BY <1>3, TakeMoves
  <2>. DEFINE k == [j EXCEPT !.state = "active", !.owner = w]
  <2>2. k.owner = w /\ k.id = j.id /\ j.owner = None
    BY <1>0, <2>1 DEF JobType, Owned
  <2>3. jobs' = (jobs \ {j}) \cup {k}
    BY <2>1
  <2>. HIDE DEF k
  <2>4. Counts(j)
    BY <2>1, <2>2 DEF Counts
  <2>5. ASSUME NEW i \in jobs', Counts(i)' PROVE \E m \in jobs : Counts(m) /\ m.id = i.id
    <3>1. CASE i = k
      BY <2>2, <2>4, <3>1
    <3>2. CASE i # k
      <4>1. i \in jobs /\ (i.owner # None => worker[i.owner].pc # "idle")
        BY <2>3, <3>2 DEF Owned
      <4>2. i.owner # w
        BY <1>0, <1>3, <4>1, TakeMoves
      <4>. QED  BY <1>0, <1>1, <2>5, <4>1, <4>2 DEF Counts
    <3>. QED  BY <3>1, <3>2
  <2>6. row' = row
    BY <1>3 DEF Take
  <2>. QED  BY <1>2, <2>5, <2>6, OneAtWorkKept
<1>4. CASE Runs(w)
  <2>1. \A k \in jobs' : Counts(k)' => Counts(k)
    BY <1>0, <1>1, <1>4 DEF Runs, Counts
  <2>2. CASE Park(w) /\ Turns("PAUSING", "PAUSED")
    <3>1. worker'[w].pc = "done" /\ worker[w].pc = "park"
      BY <2>2, Moves DEF Park, At
    <3>2. PICK j \in jobs : Holds(w, j)
      BY <3>1 DEF Owned
    <3>3. j.owner = w /\ j.state = "active"
      BY <1>0, <3>2 DEF Owned, Holds
    <3>4. Counts(j)
      BY <3>1, <3>3 DEF Counts
    <3>5. \A k \in jobs' : ~Counts(k)'
      <4>1. ASSUME NEW k \in jobs', Counts(k)' PROVE FALSE
        <5>1. k = j
          BY <1>4, <2>1, <3>4, <4>1 DEF OneAtWork, Runs
        <5>. QED  BY <1>0, <3>1, <3>3, <4>1, <5>1 DEF Counts
      <4>. QED  BY <4>1
    <3>6. \A r \in Requests : ~Adding(r)'
      BY <1>2, <3>4 DEF OneAtWork
    <3>. QED  BY <1>2, <2>1, <3>5, <3>6, OneAtWorkKept
  <2>3. row'.status = row.status \/ row'.status # "PAUSED" \/ (Park(w) /\ Turns("PAUSING", "PAUSED"))
    BY WorkerRow, CheckpointMoves DEF Turns
  <2>. QED  BY <1>2, <1>4, <2>1, <2>2, <2>3, OneAtWorkKept DEF Runs
<1>5. CASE Leaves(w)
  <2>1. PICK j \in jobs :
          /\ Holds(w, j)
          /\ \/ jobs' = jobs \ {j}
             \/ /\ ~At(w, "done")
                /\ \E k \in JobType : jobs' = (jobs \ {j}) \cup {k} /\ k.id = j.id
    BY <1>5, LeavesJob
  <2>2. j.owner = w /\ j.state = "active"
    BY <1>0, <2>1 DEF Owned, Holds
  <2>3. \A i \in jobs \ {j} : i.owner # w
    BY <1>0, <2>1, <2>2 DEF Owned, Holds
  <2>4. ASSUME NEW i \in jobs \ {j}, Counts(i)' PROVE Counts(i)
    BY <1>0, <1>1, <2>3, <2>4 DEF Counts
  <2>5. ~At(w, "done") => Counts(j)
    BY <2>2 DEF Counts, At
  <2>6. \A i \in jobs' : Counts(i)' => \E m \in jobs : Counts(m) /\ m.id = i.id
    BY <2>1, <2>4, <2>5
  <2>7. row' = row
    BY <1>5 DEF Leaves, Done, RetryLater, StartThrows, MarkFailedThrows
  <2>. QED  BY <1>2, <2>6, <2>7, OneAtWorkKept
<1>. QED  BY <1>3, <1>4, <1>5, WorkerKinds

LEMMA RequestSole ==
  ASSUME TypeInv, Owned, ControlInv, OneAtWork, NEW r \in Requests, Serves(r), Owned',
         ~Spend("replies")
  PROVE  OneAtWork'
<1>0. /\ request \in [Requests -> RequestType] /\ RowOK /\ worker' = worker
      /\ \A q \in Requests : q # r => request'[q] = request[q]
  BY RequestFrame, ServeMoves DEF TypeInv, TypeOK
<1>1. ASSUME jobs' = jobs, Adding(r)' => Adding(r),
             row'.status # "PAUSED" \/ row'.status = row.status
      PROVE  OneAtWork'
  <2>1. \A q \in Requests : Adding(q)' => Adding(q)
    BY <1>0, <1>1 DEF Adding
  <2>2. \A k \in jobs' : Counts(k)' => Counts(k)
    BY <1>0, <1>1 DEF Counts
  <2>. QED  BY <1>1, <2>1, <2>2, OneAtWorkKept
\* It may add a job now: there is none that counts, and nobody else may.
<1>2. ASSUME jobs' = jobs, row'.status = "QUEUED", \A j \in jobs : ~Counts(j),
             \A q \in Requests : ~Adding(q)
      PROVE  OneAtWork'
  <2>1. \A q \in Requests : Adding(q)' => q = r
    BY <1>0, <1>2 DEF Adding
  <2>2. \A k \in jobs' : ~Counts(k)'
    BY <1>0, <1>2 DEF Counts
  <2>. QED  BY <1>2, <2>1, <2>2 DEF OneAtWork
<1>3. CASE CreateRow(r)
  <2>1. row'.status = "QUEUED" /\ jobs' = jobs
    BY <1>0, <1>3 DEF CreateRow, RowOK
  <2>2. jobs = {} /\ \A q \in Requests : request[q].pc = "idle"
    BY <1>3 DEF CreateRow, ControlInv, Begun
  <2>. QED  BY <1>2, <2>1, <2>2 DEF Adding
<1>4. CASE ResumeClaim(r) /\ row.status = "PAUSED"
  <2>1. row'.status = "QUEUED" /\ jobs' = jobs
    BY <1>0, <1>4 DEF ResumeClaim, Flip, RowOK
  <2>. QED  BY <1>2, <1>4, <2>1 DEF OneAtWork
<1>5. CASE ResumeClaim(r) /\ row.status # "PAUSED"
  <2>1. request'[r] = IdleRequest /\ row' = row /\ jobs' = jobs
    BY <1>0, <1>5 DEF ResumeClaim, Flip
  <2>. QED  BY <1>1, <2>1 DEF Adding, IdleRequest
<1>6. CASE Enqueue(r)
  <2>1. Adding(r) /\ ~Adding(r)' /\ row' = row
    BY <1>0, <1>6 DEF Enqueue, Adding, IdleRequest
  <2>2. \A q \in Requests : ~Adding(q)'
    BY <1>0, <2>1 DEF OneAtWork, Adding
  <2>3. row.status # "PAUSED" /\ \A j \in jobs : ~Counts(j)
    BY <2>1 DEF OneAtWork
  <2>4. PICK new : /\ jobs' \subseteq jobs \cup {new}
    BY <1>6 DEF Enqueue, Added
  <2>5. \A k \in jobs' : Counts(k)' => k = new
    BY <1>0, <2>3, <2>4 DEF Counts
  <2>. QED  BY <2>1, <2>2, <2>3, <2>5 DEF OneAtWork
<1>7. CASE Undo(r)
  <2>1. Adding(r) /\ jobs' = jobs /\ request'[r] = IdleRequest
    BY <1>0, <1>7 DEF Undo, Adding
  <2>2. \A q \in Requests : ~Adding(q)'
    BY <1>0, <2>1 DEF OneAtWork, Adding, IdleRequest
  <2>3. \A k \in jobs' : ~Counts(k)'
    BY <1>0, <2>1 DEF OneAtWork, Counts
  <2>. QED  BY <2>2, <2>3 DEF OneAtWork
<1>8. CASE EnqueueRefused(r) \/ EnqueueThrows(r)
  BY <1>1, <1>8 DEF EnqueueRefused, EnqueueThrows, Adding
<1>9. CASE CancelNow(r) \/ AskCancel(r)
  <2>1. jobs' = jobs /\ (row' = row \/ row'.status # "PAUSED")
    BY <1>0, <1>9 DEF CancelNow, AskCancel, Flip, RowOK
  <2>2. ~Adding(r)'
    BY <1>0, <1>9 DEF CancelNow, AskCancel, IdleRequest, Adding, RequestType
  <2>. QED  BY <1>1, <2>1, <2>2
<1>10. CASE CancelRead(r) \/ ResumeRead(r)
  <2>1. ~Adding(r)'
    <3>1. request'[r].pc \in {"cancelNow", "askCancel", "resume"}
      BY <1>0, <1>10 DEF CancelRead, ResumeRead, IdleRequest
    <3>. QED  BY <3>1 DEF Adding
  <2>. QED  BY <1>1, <1>10, <2>1 DEF CancelRead, ResumeRead
<1>11. CASE Cleanup(r) \/ Abort(r)
  <2>1. ~Adding(r)'
    BY <1>0, <1>11 DEF Cleanup, Abort, IdleRequest, Adding
  <2>. QED  BY <1>1, <1>11, <2>1 DEF Cleanup, Abort
<1>. QED  BY <1>3, <1>4, <1>5, <1>6, <1>7, <1>8, <1>9, <1>10, <1>11
            DEF Serves, RequestBegin, RequestStep, RequestFault

LEMMA SoleStep ==
  ASSUME TypeInv, Budget, Owned, ControlInv, Sole, [Next]_vars, Undisturbed'
  PROVE  Owned' /\ Sole'
<1>0. \A w \in Workers : ~LoseLock(w)
  BY LockStays DEF Undisturbed
<1>1. Owned'
  BY <1>0, OwnedStep
<1>2. CASE RejectsColonIds
  BY <1>0, <1>1, <1>2, OneJobStep DEF Sole
<1>3. CASE ~RejectsColonIds
  <2>0. OneAtWork
    BY <1>3 DEF Sole
  <2>1. ~Spend("replies") /\ ~Spend("crashes")
    BY <1>3, BudgetStep, NotSpent DEF Undisturbed, Kinds
  <2>2. ASSUME NEW w \in Workers, Works(w) PROVE OneAtWork'
    <3>1. ~Crash(w)
      BY <2>1 DEF Crash
    <3>. QED  BY <1>0, <1>1, <2>0, <2>1, <2>2, <3>1, WorkerSole
  <2>3. ASSUME NEW r \in Requests, Serves(r) PROVE OneAtWork'
    BY <1>1, <2>0, <2>1, <2>3, RequestSole
  <2>4. ASSUME Stalled PROVE OneAtWork'
    <3>1. PICK j \in jobs : \E k \in JobType : /\ j.state = "active" /\ j.owner = None
                                               /\ jobs' = (jobs \ {j}) \cup {k}
                                               /\ k.id = j.id /\ k.owner = None
      BY <2>4, StalledJob
    <3>2. worker' = worker /\ request' = request /\ row' = row
      BY <2>4 DEF Stalled
    <3>3. Counts(j)
      BY <3>1 DEF Counts
    <3>4. \A i \in jobs' : Counts(i)' => \E m \in jobs : Counts(m) /\ m.id = i.id
      BY <3>1, <3>2, <3>3 DEF Counts
    <3>5. row'.status = row.status /\ \A r \in Requests : Adding(r)' => Adding(r)
      BY <3>2 DEF Adding
    <3>. QED  BY <1>1, <2>0, <3>4, <3>5, OneAtWorkKept
  <2>5. ASSUME \/ UNCHANGED vars
               \/ Pause \/ Expire \/ SweepStep \/ \E e \in Ids : Hire(e) \/ Leave(e)
        PROVE  OneAtWork'
    <3>1. UNCHANGED <<jobs, worker, request>>
      BY <2>5 DEF vars, Pause, Expire, SweepStep, SweepExpired, SweepDelete, SweepMark, SweepStale,
         Hire, Leave
    <3>2. row'.status # "PAUSED" \/ row'.status = row.status
      BY <2>5, RestRow DEF vars, Turns
    <3>3. \A k \in jobs' : Counts(k)' => Counts(k)
      BY <3>1 DEF Counts
    <3>. QED  BY <1>1, <2>0, <3>1, <3>2, <3>3, OneAtWorkKept DEF Adding
  <2>6. OneAtWork'
    BY <2>2, <2>3, <2>4, <2>5, Actors
  <2>. QED  BY <1>1, <1>3, <2>6 DEF Sole
<1>. QED  BY <1>1, <1>2, <1>3, NatAssumption DEF NatAssumption

Busy(w) == worker[w].pc \notin {"idle", "done"}

LEMMA OneBusy ==
  ASSUME TypeInv, Owned, Sole, NEW v \in Workers, NEW w \in Workers, Busy(v), Busy(w)
  PROVE  v = w
<1>1. PICK i \in jobs : Holds(v, i)
  BY DEF Busy, Owned
<1>2. PICK j \in jobs : Holds(w, j)
  BY DEF Busy, Owned
<1>3. i.owner = v /\ j.owner = w /\ i.state = "active" /\ j.state = "active"
  BY <1>1, <1>2, NoneAssumption DEF Holds, Owned, NoneAssumption
<1>4. Counts(i) /\ Counts(j)
  BY <1>3 DEF Counts, Busy
<1>5. i = j
  BY <1>4 DEF Sole, OneJob, OneAtWork, Owned
<1>. QED  BY <1>3, <1>5

SoloInv ==
  /\ TypeInv /\ Budget /\ ControlInv
  /\ Undisturbed => Owned /\ Sole

LEMMA SoloInit == Init => SoloInv
<1>. SUFFICES ASSUME Init PROVE SoloInv
  OBVIOUS
<1>1. TypeInv
  BY TypeInit
<1>2. Budget
  BY BoundsAssumption DEF BoundsAssumption, Init, Budget
<1>3. ControlInv
  BY DEF Init, ControlInv, Aimed, Adding, Begun, Fresh, Present, IdleRequest, IdleWorker
<1>4. Owned
  BY DEF Init, Owned, IdleWorker
<1>5. Sole
  BY DEF Init, Sole, OneJob, OneAtWork, Adding, IdleRequest
<1>. QED  BY <1>1, <1>2, <1>3, <1>4, <1>5 DEF SoloInv

LEMMA SoloStep == SoloInv /\ [Next]_vars => SoloInv'
<1>. SUFFICES ASSUME SoloInv, [Next]_vars PROVE SoloInv'
  OBVIOUS
<1>0. TypeInv /\ Budget /\ ControlInv
  BY DEF SoloInv
<1>1. TypeInv' /\ Budget' /\ ControlInv'
  BY <1>0, TypeStep, BudgetStep, ControlStep
<1>2. ASSUME Undisturbed' PROVE Owned' /\ Sole'
  <2>1. Undisturbed
    BY <1>0, <1>2, BudgetStep
  <2>. QED  BY <1>0, <1>2, <2>1, SoleStep DEF SoloInv
<1>. QED  BY <1>1, <1>2 DEF SoloInv

LEMMA Solo == Spec => []SoloInv
BY SoloInit, SoloStep, PTL DEF Spec

\* As long as no worker has lost its lock, and none has died between writing
\* PAUSED and returning, no two workers extract or finalize the export.
THEOREM OneExtractor == Spec => [](Undisturbed => SingleExtractor)
<1>1. SoloInv => (Undisturbed => SingleExtractor)
  <2>. SUFFICES ASSUME SoloInv, Undisturbed PROVE SingleExtractor
    OBVIOUS
  <2>1. \A w \in Workers : worker[w].pc \in Extracting => Busy(w)
    BY DEF Extracting, Busy
  <2>. QED  BY <2>1, OneBusy DEF SoloInv, SingleExtractor
<1>. QED  BY <1>1, Solo, PTL

------------------------------------------------------------------------------
(* Where a worker can be for each status of the row.                          *)

InLoop == {"read", "fetch", "upload", "checkpoint", "claimFinal", "missed"}
Closing == {"finalize", "build", "complete"}

Where(w) ==
  /\ worker[w].pc \in InLoop => row.status \in {"PROCESSING", "PAUSING", "CANCELLING", "FAILED"}
  /\ worker[w].pc \in Closing => row.status \in {"FINALIZING", "FAILED"}
  /\ worker[w].pc = "park" => row.status \in {"PAUSING", "CANCELLING", "FAILED"}
  /\ worker[w].pc \in {"wipe", "confirmCancel"} => row.status \in {"CANCELLING", "FAILED"}
  /\ worker[w].pc = "tidy" => row.status \in {"COMPLETED", "EXPIRED", "FAILED"}

Sweeping == sweeper # "idle" => expired /\ row.status \in {"COMPLETED", "EXPIRED", "FAILED"}

PlaceInv == Sweeping /\ (Undisturbed => \A w \in Workers : Where(w))

\* Beside a busy worker the others only take and return jobs.
LEMMA Alone ==
  ASSUME TypeInv, Owned, Sole, NEW v \in Workers, NEW w \in Workers, v # w, Busy(w),
         Works(v), ~LoseLock(v)
  PROVE  /\ UNCHANGED <<row, staging, final>> /\ worker'[w] = worker[w]
         /\ Take(v) \/ Leaves(v)
<1>1. ~Runs(v)
  BY OneBusy DEF Runs, Busy
<1>2. worker'[w] = worker[w]
  BY OneWorker DEF Works
<1>. QED  BY <1>1, <1>2, WorkerKinds DEF Take, Leaves, Done, RetryLater, StartThrows,
            MarkFailedThrows, Crash, objects

LEMMA MovesWhere ==
  ASSUME TypeInv, ControlInv, NEW w \in Workers, Where(w), Works(w), ~LoseLock(w)
  PROVE  Where(w)'
<1>0. worker \in [Workers -> WorkerType] /\ worker[w] \in WorkerType /\ RowOK
  BY DEF TypeInv, TypeOK
<1>aside. ASSUME worker'[w].pc \in {"idle", "start", "claim", "caught", "done"} PROVE Where(w)'
  BY <1>aside DEF Where, InLoop, Closing
<1>1. CASE Take(w)
  BY <1>1, <1>aside, TakeMoves
<1>2. CASE Start(w)
  <2>1. row.status # "ABSENT" /\ row' = row /\ worker'[w].pc = Entry(row.status)
    BY <1>2, StartMoves DEF ControlInv, Begun
  <2>. QED  BY <1>0, <2>1 DEF Entry, Where, InLoop, Closing, RowOK, Status, Terminal, InProgress
<1>3. CASE Claim(w)
  <2>1. \/ worker'[w].pc = "read" /\ row'.status = "PROCESSING"
        \/ worker'[w].pc = "done"
    BY <1>0, <1>3 DEF Claim, Goto, Flip, WorkerType, RowOK
  <2>. QED  BY <2>1, <1>aside DEF Where, InLoop, Closing
<1>4. CASE ReadState(w)
  BY <1>4, ReadMoves DEF Where, InLoop, Closing
<1>5. CASE Fetch(w)
  BY <1>5, FetchMoves DEF Where, InLoop, Closing
<1>6. CASE Upload(w)
  <2>1. worker'[w].pc = "checkpoint" /\ worker[w].pc = "upload" /\ row' = row
    BY <1>6, Moves DEF Upload, At
  <2>. QED  BY <2>1 DEF Where, InLoop, Closing
<1>7. CASE Checkpoint(w)
  BY <1>7, CheckpointMoves DEF Where, InLoop, Closing
<1>8. CASE ClaimFinal(w)
  <2>1. \/ worker'[w].pc = "finalize" /\ row'.status = "FINALIZING"
        \/ worker'[w].pc = "missed" /\ worker[w].pc = "claimFinal" /\ row' = row
    BY <1>0, <1>8 DEF ClaimFinal, At, Goto, Flip, WorkerType, RowOK
  <2>. QED  BY <2>1 DEF Where, InLoop, Closing
<1>9. CASE MissedFinal(w)
  <2>1. /\ row' = row
        /\ \/ worker'[w].pc = "wipe" /\ row.status = "CANCELLING"
           \/ worker'[w].pc = "park" /\ row.status = "PAUSING"
           \/ worker'[w].pc = "done"
    BY <1>0, <1>9 DEF MissedFinal, Goto, WorkerType
  <2>. QED  BY <2>1, <1>aside DEF Where, InLoop, Closing
<1>10. CASE Finalize(w)
  <2>1. /\ row' = row /\ worker[w].pc = "finalize"
        /\ worker'[w].pc = "build" \/ worker'[w].pc = "done"
    BY <1>10, FinalizeMoves
  <2>. QED  BY <2>1, <1>aside DEF Where, InLoop, Closing
<1>11. CASE BuildPart(w)
  BY <1>11, <1>aside, BuildMoves DEF Where, InLoop, Closing
<1>12. CASE UploadFinal(w)
  <2>1. worker'[w].pc = "complete" /\ worker[w].pc = "build" /\ row' = row
    BY <1>12, Moves DEF UploadFinal, At
  <2>. QED  BY <2>1 DEF Where, InLoop, Closing
<1>13. CASE Complete(w)
  <2>1. \/ worker'[w].pc = "tidy" /\ row'.status = "COMPLETED"
        \/ worker'[w].pc = "done"
    BY <1>0, <1>13 DEF Complete, Goto, WorkerType, RowOK
  <2>. QED  BY <2>1, <1>aside DEF Where, InLoop, Closing
<1>14. CASE Wipe(w)
  <2>1. worker'[w].pc = "confirmCancel" /\ worker[w].pc = "wipe" /\ row' = row
    BY <1>14, Moves DEF Wipe, At
  <2>. QED  BY <2>1 DEF Where, InLoop, Closing
<1>15. CASE Tidy(w) \/ ConfirmCancel(w) \/ Park(w) \/ Throw(w) \/ MarkFailed(w)
  BY <1>0, <1>15, <1>aside DEF Tidy, ConfirmCancel, Park, Throw, MarkFailed, Goto, WorkerType
<1>16. CASE Done(w) \/ RetryLater(w) \/ StartThrows(w) \/ MarkFailedThrows(w) \/ Crash(w)
  <2>1. worker'[w] = IdleWorker
    BY <1>0, <1>16 DEF Done, RetryLater, StartThrows, MarkFailedThrows, Crash, Return, Rethrow
  <2>. QED  BY <2>1, <1>aside DEF IdleWorker
<1>. QED  BY <1>1, <1>2, <1>3, <1>4, <1>5, <1>6, <1>7, <1>8, <1>9, <1>10, <1>11, <1>12, <1>13,
            <1>14, <1>15, <1>16 DEF Works, WorkerStep, WorkerFault

\* What everybody else does to the row keeps a worker where it may be.
LEMMA OthersWhere ==
  ASSUME TypeInv, ControlInv, NEW w \in Workers, Where(w), worker'[w] = worker[w],
         \/ \E r \in Requests : Serves(r)
         \/ Stalled \/ Pause \/ Expire \/ SweepStep \/ \E e \in Ids : Hire(e) \/ Leave(e)
  PROVE  Where(w)'
<1>1. ASSUME row'.status = row.status PROVE Where(w)'
  BY <1>1 DEF Where
<1>2. ASSUME NEW r \in Requests, Serves(r) PROVE Where(w)'
  <2>1. Aimed(r)
    BY DEF ControlInv
  <2>. QED  BY <1>1, <1>2, <2>1, RequestRow
            DEF Turns, Aimed, CancelNow, AskCancel, Where, InLoop, Closing
<1>3. CASE Stalled \/ Pause \/ Expire \/ SweepStep \/ \E e \in Ids : Hire(e) \/ Leave(e)
  BY <1>1, <1>3, RestRow DEF Turns, Where, InLoop, Closing
<1>. QED  BY <1>2, <1>3

LEMMA SweepingKept ==
  ASSUME TypeInv, ControlInv, Sweeping, [Next]_vars
  PROVE  Sweeping'
<1>1. ASSUME NEW w \in Workers, Works(w) PROVE Sweeping'
  BY <1>1, WorkerFrame, WorkerRow, CheckpointMoves DEF Sweeping, Turns, InProgress
<1>2. ASSUME NEW r \in Requests, Serves(r) PROVE Sweeping'
  <2>1. Aimed(r)
    BY DEF ControlInv
  <2>. QED  BY <1>2, <2>1, RequestFrame, RequestRow DEF Sweeping, Turns, Aimed, CancelNow, AskCancel
<1>3. CASE SweepStep
  BY <1>3, RestRow DEF SweepStep, SweepExpired, SweepDelete, SweepMark, SweepStale, Sweeping, Turns
<1>4. CASE Stalled \/ Pause \/ Expire \/ \E e \in Ids : Hire(e) \/ Leave(e)
  <2>1. sweeper' = sweeper /\ (expired' = expired \/ expired' = TRUE)
    BY <1>4 DEF Stalled, Pause, Expire, Hire, Leave
  <2>2. row' = row \/ row.status = "PROCESSING"
    BY <1>4, RestRow DEF Turns, Stalled, Pause, Expire, Hire, Leave
  <2>. QED  BY <2>1, <2>2 DEF Sweeping
<1>5. CASE UNCHANGED vars
  BY <1>5 DEF vars, Sweeping
<1>. QED  BY <1>1, <1>2, <1>3, <1>4, <1>5, Actors

LEMMA PlaceStep ==
  ASSUME SoloInv, PlaceInv, [Next]_vars
  PROVE  PlaceInv'
<1>0. TypeInv /\ Budget /\ ControlInv
  BY DEF SoloInv
<1>1. Sweeping'
  BY <1>0, SweepingKept DEF PlaceInv
<1>2. ASSUME Undisturbed', NEW w \in Workers PROVE Where(w)'
  <2>0. Undisturbed /\ \A v \in Workers : ~LoseLock(v)
    BY <1>0, <1>2, BudgetStep, LockStays DEF Undisturbed
  <2>1. Owned /\ Sole /\ Where(w)
    BY <2>0 DEF SoloInv, PlaceInv
  <2>2. ASSUME NEW v \in Workers, Works(v) PROVE Where(w)'
    <3>1. CASE v = w
      BY <1>0, <2>0, <2>1, <2>2, <3>1, MovesWhere
    <3>2. CASE v # w /\ Busy(w)
      <4>1. row' = row /\ worker'[w] = worker[w]
        BY <1>0, <2>0, <2>1, <2>2, <3>2, Alone
      <4>. QED  BY <2>1, <4>1 DEF Where
    <3>3. CASE v # w /\ ~Busy(w)
      <4>1. worker'[w].pc \in {"idle", "done"}
        BY <1>0, <2>2, <3>3, OneWorker DEF Busy, Works
      <4>. QED  BY <4>1 DEF Where, InLoop, Closing
    <3>. QED  BY <3>1, <3>2, <3>3
  <2>3. ASSUME \/ \E r \in Requests : Serves(r)
               \/ Stalled \/ Pause \/ Expire \/ SweepStep \/ \E e \in Ids : Hire(e) \/ Leave(e)
        PROVE  Where(w)'
    <3>1. worker' = worker
      BY <2>3, RequestFrame, RestFrame
    <3>. QED  BY <1>0, <2>1, <2>3, <3>1, OthersWhere
  <2>4. CASE UNCHANGED vars
    BY <2>1, <2>4 DEF vars, Where
  <2>. QED  BY <2>2, <2>3, <2>4, Actors
<1>. QED  BY <1>1, <1>2 DEF PlaceInv

PlacedInv == SoloInv /\ PlaceInv

LEMMA PlacedInit == Init => PlacedInv
<1>. SUFFICES ASSUME Init PROVE PlaceInv
  BY SoloInit DEF PlacedInv
<1>1. sweeper = "idle" /\ \A w \in Workers : worker[w].pc = "idle"
  BY DEF Init, IdleWorker
<1>. QED  BY <1>1 DEF PlaceInv, Sweeping, Where, InLoop, Closing

LEMMA Placed == Spec => []PlacedInv
<1>1. PlacedInv /\ [Next]_vars => PlacedInv'
  BY SoloStep, PlaceStep DEF PlacedInv
<1>. QED  BY <1>1, PlacedInit, PTL DEF Spec

------------------------------------------------------------------------------
(* What a pause, a cancellation and a completion keep.                        *)

\* Who writes the objects, and when.
LEMMA ObjectsMove ==
  ASSUME TypeInv, [Next]_vars
  PROVE  \/ UNCHANGED <<staging, final>>
         \/ \E w \in Workers :
              /\ Works(w)
              /\ \/ Upload(w) /\ worker[w].pc = "upload" /\ final' = final
                 \/ UploadFinal(w) /\ worker[w].pc = "build" /\ staging' = staging
                 \/ worker[w].pc = "tidy" /\ staging' = << >> /\ final' = final
                 \/ worker[w].pc = "wipe" /\ staging' = << >> /\ final' = {}
         \/ \E r \in Requests : Serves(r) /\ request[r].pc = "cleanup"
                                /\ staging' = << >> /\ final' \in {final, {}}
         \/ sweeper = "delete" /\ SweepDelete /\ row' = row
            /\ staging' \in {staging, << >>} /\ final' \in {final, {}}
         \/ SweepStale /\ row' = row /\ row.status \in {"FAILED", "CANCELLED"}
            /\ staging' = << >> /\ final' \in {final, {}}
<1>1. ASSUME NEW w \in Workers, Works(w)
      PROVE  \/ UNCHANGED <<staging, final>>
             \/ Upload(w) /\ worker[w].pc = "upload" /\ final' = final
             \/ UploadFinal(w) /\ worker[w].pc = "build" /\ staging' = staging
             \/ worker[w].pc = "tidy" /\ staging' = << >> /\ final' = final
             \/ worker[w].pc = "wipe" /\ staging' = << >> /\ final' = {}
  BY <1>1 DEF Works, Take, WorkerStep, WorkerFault, Start, Claim, ReadState, Fetch, Upload,
     Checkpoint, ClaimFinal, MissedFinal, Finalize, BuildPart, UploadFinal, Complete, Tidy, Wipe,
     ConfirmCancel, Park, RetryLater, MarkFailed, Done, StartThrows, Throw, MarkFailedThrows,
     Crash, LoseLock, At, objects
<1>2. ASSUME NEW r \in Requests, Serves(r)
      PROVE  \/ UNCHANGED <<staging, final>>
             \/ request[r].pc = "cleanup" /\ staging' = << >> /\ final' \in {final, {}}
  BY <1>2 DEF Serves, RequestBegin, RequestStep, RequestFault, CreateRow, CancelRead, ResumeRead,
     CancelNow, Cleanup, AskCancel, ResumeClaim, Enqueue, EnqueueRefused, Undo, EnqueueThrows,
     Abort, objects
<1>3. CASE Stalled \/ Pause \/ Expire \/ \E e \in Ids : Hire(e) \/ Leave(e)
  BY <1>3 DEF Stalled, Pause, Expire, Hire, Leave, objects
<1>4. CASE SweepStep
  BY <1>4 DEF SweepStep, SweepExpired, SweepDelete, SweepMark, SweepStale, objects
<1>5. CASE UNCHANGED vars
  BY <1>5 DEF vars
<1>. QED  BY <1>1, <1>2, <1>3, <1>4, <1>5, Actors

\* A pause is quiet as long as the export is undisturbed.
THEOREM QuietPause == Spec /\ []Undisturbed => PausedIsQuiet
<1>1. PlacedInv /\ Undisturbed /\ [Next]_vars =>
        [row.status = "PAUSED" /\ row'.status = "PAUSED" =>
           row' = row /\ staging' = staging /\ final' = final]_vars
  <2>. SUFFICES ASSUME PlacedInv, Undisturbed, [Next]_vars, row.status = "PAUSED",
                       row'.status = "PAUSED"
                PROVE  row' = row /\ staging' = staging /\ final' = final
    OBVIOUS
  <2>0. TypeInv /\ ControlInv /\ Sweeping /\ \A w \in Workers : Where(w)
    BY DEF PlacedInv, SoloInv, PlaceInv
  <2>1. \A w \in Workers : worker[w].pc \notin {"upload", "checkpoint", "build", "tidy", "wipe"}
    BY <2>0 DEF Where, InLoop, Closing
  <2>2. staging' = staging /\ final' = final
    <3>1. \A r \in Requests : request[r].pc # "cleanup"
      BY <2>0 DEF ControlInv, Aimed
    <3>2. sweeper = "idle"
      BY <2>0 DEF Sweeping
    <3>. QED  BY <2>0, <2>1, <3>1, <3>2, ObjectsMove
  <2>3. row' = row
    <3>1. ASSUME NEW w \in Workers, Works(w) PROVE row' = row
      BY <2>0, <2>1, <3>1, WorkerRow DEF Checkpoint, At, Turns
    <3>2. ASSUME NEW r \in Requests, Serves(r) PROVE row' = row
      BY <2>0, <3>2, RequestRow DEF Turns
    <3>3. CASE Stalled \/ Pause \/ Expire \/ SweepStep \/ \E e \in Ids : Hire(e) \/ Leave(e)
      BY <2>0, <3>3, RestRow DEF Turns
    <3>4. CASE UNCHANGED vars
      BY <3>4 DEF vars
    <3>. QED  BY <3>1, <3>2, <3>3, <3>4, Actors
  <2>. QED  BY <2>2, <2>3
<1>. QED  BY <1>1, Placed, PTL DEF Spec, PausedIsQuiet

\* Nor does anybody bring an object back to a cancelled export.
THEOREM CancelledIsClean == Spec /\ []Undisturbed => CancelledStaysClean
<1>1. PlacedInv /\ Undisturbed /\ [Next]_vars =>
        [row.status = "CANCELLED" =>
           DOMAIN staging' \subseteq DOMAIN staging /\ final' \subseteq final]_vars
  <2>. SUFFICES ASSUME PlacedInv, Undisturbed, [Next]_vars, row.status = "CANCELLED"
                PROVE  DOMAIN staging' \subseteq DOMAIN staging /\ final' \subseteq final
    OBVIOUS
  <2>0. TypeInv /\ \A w \in Workers : Where(w)
    BY DEF PlacedInv, SoloInv, PlaceInv
  <2>1. \A w \in Workers : worker[w].pc \notin {"upload", "build"}
    BY <2>0 DEF Where, InLoop, Closing
  <2>2. staging' \in {staging, << >>} /\ final' \in {final, {}}
    BY <2>0, <2>1, ObjectsMove
  <2>3. DOMAIN << >> = {}
    OBVIOUS
  <2>. QED  BY <2>2, <2>3
<1>. QED  BY <1>1, Placed, PTL DEF Spec, CancelledStaysClean

\* Nor touches a file that can be downloaded.
LEMMA DownloadKept ==
  ASSUME PlacedInv, Undisturbed, [Next]_vars, row.status = "COMPLETED", ~expired
  PROVE  final' = final
<1>0. TypeInv /\ ControlInv /\ Sweeping /\ \A w \in Workers : Where(w)
  BY DEF PlacedInv, SoloInv, PlaceInv
<1>1. \A w \in Workers : worker[w].pc \notin {"build", "wipe"}
  BY <1>0 DEF Where, InLoop, Closing
<1>2. sweeper = "idle" /\ \A r \in Requests : request[r].pc # "cleanup"
  BY <1>0 DEF ControlInv, Aimed, Sweeping
<1>. QED  BY <1>0, <1>1, <1>2, ObjectsMove

\* The link a user was given stays good as long as the export is undisturbed.
THEOREM StableDownload == Spec /\ []Undisturbed => DownloadIsStable
<1>1. PlacedInv /\ Undisturbed /\ [Next]_vars =>
        [row.status = "COMPLETED" /\ ~expired /\ row'.status = "COMPLETED" => final' = final]_vars
  BY DownloadKept
<1>. QED  BY <1>1, Placed, PTL DEF Spec, DownloadIsStable

------------------------------------------------------------------------------
(* The end of an export is the end, unless a reply was lost: a create that is *)
(* told its job was not stored, when it was, marks FAILED under the worker.   *)

Answered == left["replies"] = Bounds["replies"]

Creating(r) == Adding(r) /\ request[r].op = "create"

\* As long as the first job is not stored there is nobody else at work.
Early ==
  \A r \in Requests : Creating(r) =>
    /\ jobs = {} /\ row.status \in {"QUEUED", "CANCELLED"}
    /\ \A q \in Requests : Adding(q) => q = r

\* No worker goes on with an export that failed.
Working == InLoop \cup Closing \cup {"park", "wipe", "confirmCancel", "tidy"}

Alive == \A w \in Workers : worker[w].pc \in Working => row.status # "FAILED"

EndInv == Undisturbed /\ Answered => Early /\ Alive

LEMMA EarlyStep ==
  ASSUME PlacedInv, Undisturbed', Answered', Early, [Next]_vars
  PROVE  Early'
<1>0. TypeInv /\ Budget /\ ControlInv /\ Owned /\ Sole
  BY BudgetStep DEF PlacedInv, SoloInv
<1>1. \A w \in Workers : ~LoseLock(w)
  BY <1>0, LockStays DEF Undisturbed
<1>2. Answered
  <2>1. Bounds["replies"] \in Nat /\ left["replies"] \in Nat /\ left'["replies"] <= left["replies"]
        /\ left["replies"] <= Bounds["replies"]
    BY <1>0, Spends, BoundsAssumption DEF Budget, BoundsAssumption, Kinds
  <2>. QED  BY <2>1 DEF Answered
<1>3. ~Spend("replies")
  BY <1>0, <1>2, NotSpent DEF Answered, Kinds
<1>4. ASSUME NEW w \in Workers, Works(w), NEW r \in Requests, Creating(r) PROVE FALSE
  <2>1. jobs = {}
    BY <1>4 DEF Early
  <2>2. worker[w].pc = "idle"
    BY <1>0, <2>1 DEF Owned
  <2>3. ~Runs(w) /\ ~Leaves(w) /\ ~Take(w)
    BY <2>1, <2>2 DEF Runs, Leaves, Take
  <2>. QED  BY <1>0, <1>1, <1>4, <2>3, WorkerKinds
<1>5. ASSUME NEW w \in Workers, Works(w) PROVE Early'
  BY <1>4, <1>5, WorkerFrame DEF Early, Creating, Adding
<1>6. ASSUME NEW s \in Requests, Serves(s) PROVE Early'
  <2>0. /\ \A q \in Requests : q # s => request'[q] = request[q]
        /\ Aimed(s) /\ request \in [Requests -> RequestType]
    BY <1>0, <1>6, ServeMoves DEF ControlInv, TypeInv, TypeOK
  <2>1. CASE CreateRow(s)
    <3>1. row.status = "ABSENT" /\ row'.status = "QUEUED" /\ jobs' = jobs
      BY <1>0, <2>1 DEF CreateRow, TypeInv, TypeOK, RowOK
    <3>2. jobs = {} /\ \A q \in Requests : request[q].pc = "idle"
      BY <1>0, <3>1 DEF ControlInv, Begun
    <3>. QED  BY <2>0, <3>1, <3>2 DEF Early, Creating, Adding
  <2>2. ASSUME ~Adding(s)', jobs' = jobs,
               row'.status = row.status \/ row.status \notin {"QUEUED", "CANCELLED"}
                                        \/ row'.status = "CANCELLED"
        PROVE  Early'
    BY <2>0, <2>2 DEF Early, Creating, Adding
  <2>3. CASE CancelRead(s) \/ ResumeRead(s)
    <3>1. ~Adding(s)'
      BY <2>0, <2>3 DEF CancelRead, ResumeRead, IdleRequest, Adding
    <3>. QED  BY <2>2, <2>3, <3>1 DEF CancelRead, ResumeRead
  <2>4. CASE CancelNow(s) \/ AskCancel(s)
    <3>1. ~Adding(s)'
      BY <2>0, <2>4 DEF CancelNow, AskCancel, IdleRequest, Adding, RequestType
    <3>2. row'.status = row.status \/ row.status \notin {"QUEUED", "CANCELLED"}
                                   \/ row'.status = "CANCELLED"
      BY <1>0, <2>0, <2>4 DEF CancelNow, AskCancel, Flip, Aimed, TypeInv, TypeOK, RowOK
    <3>3. jobs' = jobs
      BY <2>4 DEF CancelNow, AskCancel
    <3>. QED  BY <2>2, <3>1, <3>2, <3>3
  <2>5. CASE Cleanup(s) \/ Abort(s)
    <3>1. ~Adding(s)'
      BY <2>0, <2>5 DEF Cleanup, Abort, IdleRequest, Adding
    <3>. QED  BY <2>2, <2>5, <3>1 DEF Cleanup, Abort
  <2>6. CASE ResumeClaim(s)
    <3>1. CASE row.status = "PAUSED"
      <4>1. \A q \in Requests : ~Creating(q)
        BY <3>1 DEF Early
      <4>2. ~Creating(s)'
        BY <2>0, <2>6, <3>1 DEF ResumeClaim, Aimed, Creating, RequestType
      <4>. QED  BY <2>0, <4>1, <4>2 DEF Early, Creating, Adding
    <3>2. CASE row.status # "PAUSED"
      <4>1. ~Adding(s)' /\ row' = row /\ jobs' = jobs
        BY <2>0, <2>6, <3>2 DEF ResumeClaim, Flip, IdleRequest, Adding
      <4>. QED  BY <2>2, <4>1
    <3>. QED  BY <3>1, <3>2
  <2>7. CASE Enqueue(s) \/ Undo(s)
    <3>1. Adding(s) /\ ~Adding(s)'
      BY <2>0, <2>7 DEF Enqueue, Undo, IdleRequest, Adding
    <3>2. \A q \in Requests : ~Creating(q)'
      <4>. SUFFICES ASSUME NEW q \in Requests, Creating(q)' PROVE FALSE
        OBVIOUS
      <4>1. q # s /\ Creating(q)
        BY <2>0, <3>1 DEF Creating, Adding
      <4>. QED  BY <3>1, <4>1 DEF Early
    <3>. QED  BY <3>2 DEF Early
  <2>8. CASE EnqueueRefused(s) \/ EnqueueThrows(s)
    <3>1. row' = row /\ jobs' = jobs
      BY <1>3, <2>8 DEF EnqueueRefused, EnqueueThrows
    <3>2. Adding(s) /\ Adding(s)' /\ request'[s].op = request[s].op
      BY <2>0, <2>8 DEF EnqueueRefused, EnqueueThrows, Adding, RequestType
    <3>. QED  BY <2>0, <3>1, <3>2 DEF Early, Creating, Adding
  <2>. QED  BY <1>6, <2>1, <2>3, <2>4, <2>5, <2>6, <2>7, <2>8
              DEF Serves, RequestBegin, RequestStep, RequestFault
<1>7. CASE \/ Stalled \/ Pause \/ Expire \/ SweepStep \/ \E e \in Ids : Hire(e) \/ Leave(e)
  <2>1. request' = request
    BY <1>7, RestFrame
  <2>2. jobs = {} => jobs' = {}
    BY <1>7 DEF Stalled, Pause, Expire, SweepStep, SweepExpired, SweepDelete, SweepMark,
       SweepStale, Hire, Leave
  <2>3. row' = row \/ row.status \notin {"QUEUED", "CANCELLED"}
    BY <1>0, <1>7, RestRow DEF Turns
  <2>. QED  BY <2>1, <2>2, <2>3 DEF Early, Creating, Adding
<1>8. CASE UNCHANGED vars
  BY <1>8 DEF vars, Early, Creating, Adding
<1>. QED  BY <1>5, <1>6, <1>7, <1>8, Actors

\* A worker sets to work from its first read of the row or from its claim.
LEMMA SetsToWork ==
  ASSUME TypeInv, NEW w \in Workers, Works(w), worker'[w].pc \in Working,
         row'.status = "FAILED"
  PROVE  worker[w].pc \in Working /\ row.status = "FAILED"
<1>0. worker \in [Workers -> WorkerType] /\ RowOK
  BY DEF TypeInv, TypeOK
<1>1. row.status = "FAILED"
  <2>1. CASE MarkFailed(w)
    <3>1. worker'[w].pc = "done"
      BY <2>1, Moves DEF MarkFailed
    <3>. QED  BY <3>1 DEF Working, InLoop, Closing
  <2>2. CASE ~MarkFailed(w)
    BY <2>2, WorkerRow, CheckpointMoves DEF Turns
  <2>. QED  BY <2>1, <2>2
<1>. SUFFICES ASSUME worker[w].pc \notin Working PROVE FALSE
  BY <1>1
<1>aside. worker'[w].pc \notin {"idle", "start", "claim", "caught", "done"}
  BY DEF Working, InLoop, Closing
<1>2. ~Take(w)
  BY <1>aside, TakeMoves
<1>3. ~Start(w)
  BY <1>1, <1>aside, StartMoves DEF Entry, Terminal
<1>4. ~Claim(w)
  <2>1. Claim(w) => Goto(w, "done")
    BY <1>1 DEF Claim
  <2>. QED  BY <1>aside, <2>1, Moves
<1>5. ~(Done(w) \/ RetryLater(w) \/ StartThrows(w) \/ MarkFailedThrows(w) \/ Crash(w))
  <2>1. Done(w) \/ RetryLater(w) \/ StartThrows(w) \/ MarkFailedThrows(w) \/ Crash(w)
          => worker' = [worker EXCEPT ![w] = IdleWorker]
    BY DEF Done, RetryLater, StartThrows, MarkFailedThrows, Crash, Return, Rethrow
  <2>2. worker' = [worker EXCEPT ![w] = IdleWorker] => worker'[w].pc = "idle"
    BY <1>0 DEF IdleWorker
  <2>. QED  BY <1>aside, <2>1, <2>2
<1>6. ~Throw(w) /\ ~MarkFailed(w)
  BY <1>aside, Moves DEF Throw, MarkFailed
<1>7. ~LoseLock(w)
  BY <1>aside DEF LoseLock, Working
<1>8. worker[w].pc \notin InLoop \cup Closing \cup {"park", "wipe", "confirmCancel", "tidy"}
  BY DEF Working
<1>. QED
  BY <1>2, <1>3, <1>4, <1>5, <1>6, <1>7, <1>8
     DEF Works, WorkerStep, WorkerFault, At, InLoop, Closing, ReadState, Fetch, Upload, Checkpoint,
         ClaimFinal, MissedFinal, Finalize, BuildPart, UploadFinal, Complete, Tidy, Wipe,
         ConfirmCancel, Park

LEMMA AliveStep ==
  ASSUME PlacedInv, Undisturbed', Early, Alive, [Next]_vars
  PROVE  Alive'
<1>0. TypeInv /\ Budget /\ ControlInv /\ Owned /\ Sole
  BY BudgetStep DEF PlacedInv, SoloInv
<1>1. ASSUME NEW v \in Workers, Works(v), NEW w \in Workers, worker'[w].pc \in Working,
             row'.status = "FAILED"
      PROVE  FALSE
  <2>1. CASE v = w
    BY <1>0, <1>1, <2>1, SetsToWork DEF Alive
  <2>2. CASE v # w
    <3>1. worker[w].pc \in Working /\ Busy(w)
      BY <1>0, <1>1, <2>2, OneWorker DEF Works, Busy, Working, InLoop, Closing
    <3>2. row.status # "FAILED"
      BY <3>1 DEF Alive
    <3>3. ~LoseLock(v)
      BY <1>0, <1>1, LockStays DEF Undisturbed
    <3>4. row' = row
      BY <1>0, <1>1, <2>2, <3>1, <3>3, Alone
    <3>. QED  BY <1>1, <3>2, <3>4
  <2>. QED  BY <2>1, <2>2
<1>2. ASSUME NEW r \in Requests, Serves(r) PROVE Alive'
  <2>1. worker' = worker
    BY <1>2, RequestFrame
  <2>2. CASE row.status # "FAILED" /\ row'.status = "FAILED"
    <3>0. Aimed(r)
      BY <1>0 DEF ControlInv
    <3>1. Undo(r) /\ request[r].op = "create"
      BY <1>0, <1>2, <2>2, <3>0, RequestRow DEF Turns
    <3>2. jobs = {}
      BY <3>1 DEF Undo, Early, Creating, Adding
    <3>3. \A w \in Workers : worker[w].pc = "idle"
      BY <1>0, <3>2 DEF Owned
    <3>. QED  BY <2>1, <3>3 DEF Alive, Working, InLoop, Closing
  <2>. QED  BY <2>1, <2>2 DEF Alive
<1>3. CASE \/ Stalled \/ Pause \/ Expire \/ SweepStep \/ \E e \in Ids : Hire(e) \/ Leave(e)
  <2>1. worker' = worker
    BY <1>3, RestFrame
  <2>2. row'.status = "FAILED" => row.status = "FAILED"
    BY <1>0, <1>3, RestRow DEF Turns
  <2>. QED  BY <2>1, <2>2 DEF Alive
<1>4. CASE UNCHANGED vars
  BY <1>4 DEF vars, Alive
<1>5. (\E v \in Workers : Works(v)) => Alive'
  BY <1>1 DEF Alive
<1>. QED  BY <1>2, <1>3, <1>4, <1>5, Actors

LEMMA Ending == Spec => [](PlacedInv /\ EndInv)
<1>1. Init => EndInv
  <2>. SUFFICES ASSUME Init PROVE Early /\ Alive
    BY DEF EndInv
  <2>1. /\ \A w \in Workers : worker[w].pc = "idle"
        /\ \A r \in Requests : request[r].pc = "idle"
    BY DEF Init, IdleWorker, IdleRequest
  <2>. QED  BY <2>1 DEF Early, Creating, Adding, Alive, Working, InLoop, Closing
<1>2. PlacedInv /\ EndInv /\ [Next]_vars => EndInv'
  <2>. SUFFICES ASSUME PlacedInv, EndInv, [Next]_vars, Undisturbed', Answered'
                PROVE  Early' /\ Alive'
    BY DEF EndInv
  <2>0. TypeInv /\ Budget
    BY DEF PlacedInv, SoloInv
  <2>1. Undisturbed
    BY <2>0, BudgetStep
  <2>2. Answered
    <3>1. Bounds["replies"] \in Nat /\ left["replies"] \in Nat /\ left'["replies"] <= left["replies"]
          /\ left["replies"] <= Bounds["replies"]
      BY <2>0, Spends, BoundsAssumption DEF Budget, BoundsAssumption, Kinds
    <3>. QED  BY <3>1 DEF Answered
  <2>. QED  BY <2>1, <2>2, EarlyStep, AliveStep DEF EndInv
<1>3. PlacedInv /\ [Next]_vars => PlacedInv'
  BY SoloStep, PlaceStep DEF PlacedInv
<1>. QED  BY <1>1, <1>2, <1>3, Placed, PTL DEF Spec

\* Unless a worker lost its lock or a reply was lost, a terminal row keeps its
\* checkpoint, and only expiry or a failed create gives it another status.
THEOREM FinalIsFinal == Spec /\ []Undisturbed /\ []Answered => TerminalIsFinal
<1>1. PlacedInv /\ EndInv /\ Undisturbed /\ Answered /\ [Next]_vars =>
        [row.status \in Terminal =>
           \/ row' = row
           \/ row.status = "COMPLETED" /\ row' = [row EXCEPT !.status = "EXPIRED"]
           \/ row.status = "CANCELLED" /\ row' = [row EXCEPT !.status = "FAILED"]]_vars
  <2>. SUFFICES ASSUME PlacedInv, EndInv, Undisturbed, Answered, [Next]_vars,
                       row.status \in Terminal, row' # row
                PROVE  \/ row.status = "COMPLETED" /\ row' = [row EXCEPT !.status = "EXPIRED"]
                       \/ row.status = "CANCELLED" /\ row' = [row EXCEPT !.status = "FAILED"]
    OBVIOUS
  <2>0. TypeInv /\ ControlInv /\ Early /\ Alive /\ \A w \in Workers : Where(w)
    BY DEF PlacedInv, SoloInv, PlaceInv, EndInv
  <2>1. ASSUME NEW w \in Workers, Works(w) PROVE FALSE
    <3>1. row.status \notin InProgress
      BY DEF Terminal, InProgress
    <3>2. CASE Checkpoint(w)
      <4>1. worker[w].pc = "checkpoint"
        BY <3>2 DEF Checkpoint, At
      <4>2. row.status \in {"PROCESSING", "PAUSING", "CANCELLING", "FAILED"}
        BY <2>0, <4>1 DEF Where, InLoop
      <4>. QED  BY <2>0, <4>1, <4>2 DEF Alive, Working, InLoop, Terminal
    <3>. QED  BY <2>0, <2>1, <3>1, <3>2, WorkerRow DEF Turns, InProgress
  <2>2. ASSUME NEW r \in Requests, Serves(r)
        PROVE  row.status = "CANCELLED" /\ row' = [row EXCEPT !.status = "FAILED"]
    <3>0. Aimed(r)
      BY <2>0 DEF ControlInv
    <3>1. Undo(r) /\ request[r].op = "create"
      BY <2>0, <2>2, <3>0, RequestRow DEF Turns, Aimed, CancelNow, AskCancel, Terminal
    <3>2. row.status \in {"QUEUED", "CANCELLED"}
      BY <2>0, <3>1 DEF Undo, Early, Creating, Adding
    <3>. QED  BY <3>1, <3>2 DEF Undo, Terminal
  <2>3. ASSUME Stalled \/ Pause \/ Expire \/ SweepStep \/ \E e \in Ids : Hire(e) \/ Leave(e)
        PROVE  row.status = "COMPLETED" /\ row' = [row EXCEPT !.status = "EXPIRED"]
    <3>1. SweepMark /\ row.status = "COMPLETED"
      BY <2>0, <2>3, RestRow DEF Turns, Terminal
    <3>. QED  BY <3>1 DEF SweepMark, Flip
  <2>4. ~UNCHANGED vars
    BY DEF vars
  <2>. QED  BY <2>1, <2>2, <2>3, <2>4, Actors
<1>. QED  BY <1>1, Ending, PTL DEF Spec, TerminalIsFinal

------------------------------------------------------------------------------
(* Pages of the directory, and what the parts of the checkpoint hold.         *)

LEMMA Least ==
  ASSUME NEW S \in SUBSET Nat, S # {}
  PROVE  \E m \in S : \A n \in S : m <= n
<1>1. IsWellFoundedOn(OpToRel(<, Nat), Nat)
  BY NatLessThanWellFounded, Zenon
<1>2. PICK m \in S : \A n \in S : ~(<<n, m>> \in OpToRel(<, Nat))
  BY <1>1, WFMin, Zenon
<1>3. \A n \in S : ~(n < m)
  BY <1>2 DEF OpToRel
<1>. QED  BY <1>3

LEMMA LastIsLast ==
  ASSUME NEW chunk \in SUBSET Ids, chunk # {}
  PROVE  Last(chunk) \in chunk /\ Last(chunk) \in Nat /\ \A d \in chunk : d <= Last(chunk)
<1>1. \E e \in chunk : \A d \in chunk : d <= e
  BY IdsAssumption DEF IdsAssumption
<1>. QED  BY <1>1, IdsAssumption DEF Last, IdsAssumption

\* The keyset page leaves out nobody between the cursor and its last employee,
\* and is empty only when nobody is left.
LEMMA PageFacts ==
  ASSUME NEW cursor \in Nat
  PROVE  /\ Page(cursor) \in SUBSET Ids
         /\ \A e \in Page(cursor) : e > cursor
         /\ Page(cursor) = {} => \A e \in Employees : e <= cursor
         /\ Page(cursor) # {} =>
              \A e \in Employees : e > cursor /\ e <= Last(Page(cursor)) => e \in Page(cursor)
<1>. DEFINE rest == {e \in Employees : e > cursor}
            Before(e) == {d \in rest : d < e}
            page == {e \in rest : Cardinality(Before(e)) < BatchSize}
<1>0. Page(cursor) = page
  BY DEF Page
<1>1. Ids \subseteq Nat \ {0} /\ rest \in SUBSET Ids /\ IsFiniteSet(rest)
  <2>1. rest \in SUBSET Ids /\ IsFiniteSet(Ids) /\ Ids \subseteq Nat \ {0}
    BY IdsAssumption DEF IdsAssumption, Employees
  <2>. QED  BY <2>1, FS_Subset
<1>2. ASSUME page = {}, NEW e \in Employees, ~(e <= cursor) PROVE FALSE
  <2>1. e \in rest
    BY <1>1, <1>2, IdsAssumption DEF Employees, IdsAssumption
  <2>2. rest \in SUBSET Nat /\ rest # {}
    BY <1>1, <2>1
  <2>3. PICK m \in rest : \A n \in rest : m <= n
    <3>. HIDE DEF rest
    <3>. QED  BY <2>2, Least
  <2>4. Before(m) = {}
    <3>. HIDE DEF rest
    <3>1. m \in Nat /\ \A n \in rest : n \in Nat /\ m <= n
      BY <2>2, <2>3
    <3>2. \A n \in rest : ~(n < m)
      BY <3>1
    <3>. QED  BY <3>2, Zenon
  <2>5. Cardinality(Before(m)) = 0
    BY <2>4, FS_EmptySet
  <2>6. m \in page
    BY <2>5, NatAssumption DEF NatAssumption
  <2>. QED  BY <1>2, <2>6
<1>3. ASSUME page # {}, NEW e \in Employees, e > cursor, e <= Last(page) PROVE e \in page
  <2>0. page \in SUBSET Ids
    BY <1>1
  <2>1. Last(page) \in page /\ Last(page) \in Nat
    <3>. HIDE DEF page
    <3>. QED  BY <1>3, <2>0, LastIsLast
  <2>2. e \in rest
    BY <1>3
  <2>3. Before(e) \in SUBSET Before(Last(page))
    <3>. SUFFICES ASSUME NEW d \in rest, d < e PROVE d < Last(page)
      OBVIOUS
    <3>1. d \in Nat /\ e \in Nat
      BY <1>1, <2>2
    <3>. HIDE DEF page, rest
    <3>. QED  BY <1>3, <2>1, <3>1
  <2>4. Before(Last(page)) \in SUBSET rest
    OBVIOUS
  <2>5. IsFiniteSet(Before(Last(page)))
    <3>. HIDE DEF Before, page, rest
    <3>. QED  BY <1>1, <2>4, FS_Subset
  <2>6. /\ Cardinality(Before(e)) \in Nat /\ Cardinality(Before(Last(page))) \in Nat
        /\ Cardinality(Before(e)) <= Cardinality(Before(Last(page)))
    <3>. HIDE DEF Before, page, rest
    <3>. QED  BY <2>3, <2>5, FS_Subset, FS_CardinalityType
  <2>7. Cardinality(Before(Last(page))) < BatchSize
    BY <2>1
  <2>8. Cardinality(Before(e)) < BatchSize
    <3>. HIDE DEF Before, page, rest
    <3>. QED  BY <2>6, <2>7, NatAssumption DEF NatAssumption
  <2>. QED  BY <2>2, <2>8
<1>4. \A e \in page : e > cursor
  OBVIOUS
<1>5. page \in SUBSET Ids
  BY <1>1
<1>. HIDE DEF page
<1>. QED  BY <1>0, <1>2, <1>3, <1>4, <1>5

\* The rows in the first parts, as ProgressExact counts them.
RowsOf(parts) == {x \in (1 .. parts) \X Ids : x[2] \in staging[x[1]]}

LEMMA RowsCounted ==
  ASSUME NEW n \in Nat, staging[n + 1] \in SUBSET Ids
  PROVE  /\ Cardinality(RowsOf(n)) \in Nat
         /\ Cardinality(RowsOf(n + 1)) = Cardinality(RowsOf(n)) + Cardinality(staging[n + 1])
<1>. DEFINE part == staging[n + 1]
            more == {n + 1} \X part
<1>0. IsFiniteSet(Ids) /\ IsFiniteSet(part)
  BY IdsAssumption, FS_Subset DEF IdsAssumption
<1>1. IsFiniteSet(RowsOf(n))
  <2>1. IsFiniteSet(1 .. n)
    <3>1. 1 \in Int /\ n \in Int
      OBVIOUS
    <3>. QED  BY <3>1, FS_Interval
  <2>2. IsFiniteSet((1 .. n) \X Ids)
    BY <1>0, <2>1, FS_Product
  <2>3. RowsOf(n) \in SUBSET ((1 .. n) \X Ids)
    BY DEF RowsOf
  <2>. QED  BY <2>2, <2>3, FS_Subset
<1>2. IsFiniteSet(more) /\ Cardinality(more) = Cardinality(part)
  <2>1. IsFiniteSet({n + 1}) /\ Cardinality({n + 1}) = 1
    BY FS_Singleton
  <2>2. Cardinality(part) \in Nat
    BY <1>0, FS_CardinalityType
  <2>3. IsFiniteSet(more) /\ Cardinality(more) = 1 * Cardinality(part)
    BY <1>0, <2>1, FS_Product
  <2>. HIDE DEF more, part
  <2>. QED  BY <2>2, <2>3
<1>3. RowsOf(n + 1) = RowsOf(n) \cup more
  <2>1. 1 .. n + 1 = (1 .. n) \cup {n + 1}
    OBVIOUS
  <2>. QED  BY <2>1 DEF RowsOf
<1>4. RowsOf(n) \cap more = {}
  BY DEF RowsOf
<1>5. Cardinality(RowsOf(n) \cup more) =
        Cardinality(RowsOf(n)) + Cardinality(more) - Cardinality(RowsOf(n) \cap more)
  <2>. HIDE DEF more, part
  <2>. QED  BY <1>1, <1>2, FS_Union
<1>6. Cardinality(RowsOf(n) \cap more) = 0
  BY <1>4, FS_EmptySet
<1>7. Cardinality(RowsOf(n)) \in Nat /\ Cardinality(part) \in Nat
  BY <1>0, <1>1, FS_CardinalityType
<1>8. Cardinality(RowsOf(n + 1)) = Cardinality(RowsOf(n)) + Cardinality(part) - 0
  BY <1>2, <1>3, <1>5, <1>6
<1>. HIDE DEF part
<1>9. Cardinality(RowsOf(n + 1)) = Cardinality(RowsOf(n)) + Cardinality(part)
  BY <1>7, <1>8
<1>. QED  BY <1>7, <1>9 DEF part

------------------------------------------------------------------------------
(* What a worker holds agrees with the row, and the parts with the directory. *)

Parts == 1 .. row.nextBatch - 1

\* The worker in the loop starts where the checkpoint is, its page has everybody
\* from there to its last employee, and what it builds is what is staged.
InStep(w) ==
  LET me == worker[w] IN
  /\ me.pc \in Looping => me.batch = row.nextBatch /\ me.cursor = row.cursor
  /\ me.pc \in {"fetch", "upload", "checkpoint"} => me.base = row.processedRows
  /\ me.pc \in {"upload", "checkpoint"} =>
       /\ \A e \in me.chunk : e > row.cursor
       /\ \A e \in stable : e > row.cursor /\ e <= Last(me.chunk) => e \in me.chunk
  /\ me.pc = "checkpoint" /\ row.status \in Open => staging[me.batch] = me.chunk
  /\ me.pc = "claimFinal" => \A e \in stable : e <= row.cursor
  /\ me.pc = "build" /\ row.status \in Open =>
       /\ me.parts = row.nextBatch - 1 /\ Len(me.built) <= me.parts
       /\ \A p \in 1 .. Len(me.built) : me.built[p] = staging[p]

\* The parts hold, in order and counted, all that were there up to the cursor.
Content ==
  row.status \in Open =>
    /\ \A p \in Parts : \A e \in staging[p] : e <= row.cursor
    /\ \A p, q \in Parts : p < q => \A d \in staging[p], e \in staging[q] : d < e
    /\ \A e \in stable : e <= row.cursor => \E p \in Parts : e \in staging[p]
    /\ row.status = "FINALIZING" => \A e \in stable : e <= row.cursor
    /\ row.processedRows = Cardinality(RowsOf(row.nextBatch - 1))

Whole ==
  /\ final # {}
  /\ \A file \in final : InOrder(file) /\ stable \subseteq UNION {file[p] : p \in DOMAIN file}

\* The file is whole from its upload until it expires.
Delivered ==
  /\ row.status = "FINALIZING" /\ (\E w \in Workers : worker[w].pc = "complete") => Whole
  /\ row.status = "COMPLETED" /\ ~expired => row.key /\ Whole

\* A step that leaves the worker, the checkpoint and the open parts alone.
LEMMA InStepKept ==
  ASSUME NEW w \in Workers, InStep(w), worker'[w] = worker[w], stable' \subseteq stable,
         row'.cursor = row.cursor, row'.nextBatch = row.nextBatch,
         row'.processedRows = row.processedRows,
         row'.status \in Open => row.status \in Open /\ staging' = staging
  PROVE  InStep(w)'
BY DEF InStep

LEMMA InStepMoves ==
  ASSUME TypeInv, Present, NEW w \in Workers, InStep(w), Works(w), ~LoseLock(w),
         row'.status \in Open => row.status \in Open
  PROVE  InStep(w)'
<1>0. /\ worker \in [Workers -> WorkerType] /\ worker[w] \in WorkerType /\ RowOK
      /\ row.cursor \in Nat /\ row.nextBatch \in Nat \ {0}
  BY DEF TypeInv, TypeOK, RowOK
<1>1. stable' = stable
  BY WorkerFrame
<1>aside. ASSUME worker'[w].pc \notin Looping \cup {"claimFinal", "build"} PROVE InStep(w)'
  BY <1>aside DEF InStep, Looping
<1>2. CASE Take(w)
  BY <1>2, <1>aside, TakeMoves DEF Looping
<1>3. CASE Start(w)
  <2>1. worker'[w].pc \notin {"fetch", "upload", "checkpoint", "claimFinal", "build"}
    BY <1>3, StartMoves DEF Entry
  <2>2. row' = row /\ worker'[w].cursor = row.cursor /\ worker'[w].batch = row.nextBatch
    BY <1>3, StartMoves
  <2>. QED  BY <2>1, <2>2 DEF InStep
<1>4. CASE Claim(w)
  <2>1. \E pc \in {"read", "done"} : Goto(w, pc)
    BY <1>4 DEF Claim
  <2>2. worker[w].pc = "claim" /\ row'.cursor = row.cursor /\ row'.nextBatch = row.nextBatch
    BY <1>0, <1>4 DEF Claim, At, Flip, RowOK
  <2>3. /\ worker'[w].pc \in {"read", "done"}
        /\ worker'[w].cursor = worker[w].cursor /\ worker'[w].batch = worker[w].batch
    BY <2>1, Moves
  <2>. QED  BY <2>2, <2>3 DEF InStep, Looping
<1>5. CASE ReadState(w)
  <2>1. CASE worker'[w].pc \in {"wipe", "park"}
    BY <1>aside, <2>1 DEF Looping
  <2>2. CASE worker'[w].pc = "fetch"
    BY <1>5, <2>2, ReadMoves DEF InStep, Looping
  <2>. QED  BY <1>5, <2>1, <2>2, ReadMoves
<1>6. CASE Fetch(w)
  <2>. DEFINE page == Page(worker[w].cursor)
  <2>1. /\ worker[w].pc = "fetch" /\ row' = row /\ worker[w].cursor = row.cursor
        /\ worker'[w].batch = row.nextBatch /\ worker'[w].cursor = row.cursor
        /\ worker'[w].base = row.processedRows
        /\ worker'[w].chunk = page
        /\ worker'[w].pc = IF page = {} THEN "claimFinal" ELSE "upload"
    BY <1>6, FetchMoves DEF InStep, Looping
  <2>2. /\ \A e \in page : e > row.cursor
        /\ page = {} => \A e \in stable : e <= row.cursor
        /\ page # {} => \A e \in stable : e > row.cursor /\ e <= Last(page) => e \in page
    BY <1>0, <2>1, PageFacts DEF Present
  <2>. HIDE DEF page
  <2>. QED  BY <1>1, <2>1, <2>2 DEF InStep, Looping
<1>7. CASE Upload(w)
  <2>1. Goto(w, "checkpoint") /\ worker[w].pc = "upload" /\ row' = row
    BY <1>7 DEF Upload, At
  <2>2. staging'[worker[w].batch] = worker[w].chunk
    BY <1>7 DEF Upload
  <2>. QED  BY <1>1, <2>1, <2>2, Moves DEF InStep, Looping
<1>8. CASE Checkpoint(w)
  <2>1. /\ worker'[w].pc = "read" /\ worker'[w].cursor = row'.cursor
        /\ worker'[w].batch = row'.nextBatch
    BY <1>8, CheckpointMoves
  <2>. QED  BY <2>1 DEF InStep
<1>9. CASE ClaimFinal(w)
  <2>1. \E pc \in {"finalize", "missed"} : Goto(w, pc)
    BY <1>9 DEF ClaimFinal
  <2>2. worker'[w].pc \in {"finalize", "missed"}
    BY <2>1, Moves
  <2>. QED  BY <1>aside, <2>2 DEF Looping
<1>10. CASE MissedFinal(w)
  <2>1. \E pc \in {"wipe", "park", "done"} : Goto(w, pc)
    BY <1>10 DEF MissedFinal
  <2>2. worker'[w].pc \in {"wipe", "park", "done"}
    BY <2>1, Moves
  <2>. QED  BY <1>aside, <2>2 DEF Looping
<1>11. CASE Finalize(w)
  <2>1. CASE worker'[w].pc = "done"
    BY <1>aside, <2>1 DEF Looping
  <2>2. CASE worker'[w].pc = "build"
    <3>1. Len(worker'[w].built) = 0 /\ worker'[w].parts = row.nextBatch - 1 /\ row' = row
      BY <1>11, FinalizeMoves
    <3>. QED  BY <1>0, <2>2, <3>1 DEF InStep, Looping
  <2>. QED  BY <1>11, <2>1, <2>2, FinalizeMoves
<1>12. CASE BuildPart(w)
  <2>1. CASE worker'[w].pc = "caught"
    BY <1>aside, <2>1 DEF Looping
  <2>2. CASE worker'[w].pc # "caught"
    <3>. DEFINE built == worker[w].built
                n == Len(worker[w].built)
                part == staging[Len(worker[w].built) + 1]
    <3>1. /\ worker[w].pc = "build" /\ worker'[w].pc = "build" /\ row' = row /\ staging' = staging
          /\ n + 1 <= worker[w].parts /\ worker'[w].parts = worker[w].parts
          /\ worker'[w].built = Append(built, part)
      BY <1>12, <2>2, BuildMoves
    <3>2. built \in Seq(SUBSET Ids) /\ n \in Nat
      BY <1>0 DEF WorkerType
    <3>. HIDE DEF part
    <3>3. Len(Append(built, part)) = n + 1
      BY <3>2
    <3>4. \A p \in 1 .. n : Append(built, part)[p] = built[p]
      BY <3>2
    <3>5. Append(built, part)[n + 1] = part
      BY <3>2
    <3>6. SUFFICES ASSUME row.status \in Open
                   PROVE  \A p \in 1 .. n + 1 : worker'[w].built[p] = staging[p]
      BY <3>1, <3>3 DEF InStep, Looping
    <3>7. \A p \in 1 .. n : built[p] = staging[p]
      BY <3>1, <3>6 DEF InStep
    <3>8. \A p \in 1 .. n + 1 : p \in 1 .. n \/ p = n + 1
      BY <3>2
    <3>. QED  BY <3>1, <3>4, <3>5, <3>7, <3>8 DEF part
  <2>. QED  BY <2>1, <2>2
<1>13. CASE UploadFinal(w) \/ Complete(w) \/ Tidy(w) \/ Wipe(w) \/ ConfirmCancel(w) \/ Park(w)
            \/ Throw(w) \/ MarkFailed(w)
  <2>1. \E pc \in {"complete", "tidy", "done", "confirmCancel", "caught"} : Goto(w, pc)
    BY <1>13 DEF UploadFinal, Complete, Tidy, Wipe, ConfirmCancel, Park, Throw, MarkFailed
  <2>2. worker'[w].pc \in {"complete", "tidy", "done", "confirmCancel", "caught"}
    BY <2>1, Moves
  <2>. QED  BY <1>aside, <2>2 DEF Looping
<1>14. CASE Done(w) \/ RetryLater(w) \/ StartThrows(w) \/ MarkFailedThrows(w) \/ Crash(w)
  <2>1. worker'[w] = IdleWorker
    BY <1>0, <1>14 DEF Done, RetryLater, StartThrows, MarkFailedThrows, Crash, Return, Rethrow
  <2>. QED  BY <1>aside, <2>1 DEF IdleWorker, Looping
<1>. QED  BY <1>2, <1>3, <1>4, <1>5, <1>6, <1>7, <1>8, <1>9, <1>10, <1>11, <1>12, <1>13, <1>14
            DEF Works, WorkerStep, WorkerFault

\* As long as the export is open only uploads write objects.
LEMMA OpenObjects ==
  ASSUME PlacedInv, Undisturbed, [Next]_vars, row.status \in Open
  PROVE  /\ staging' = staging \/ \E w \in Workers : Works(w) /\ Upload(w)
         /\ final' = final \/ \E w \in Workers : Works(w) /\ UploadFinal(w)
<1>0. TypeInv /\ ControlInv /\ Sweeping /\ \A w \in Workers : Where(w)
  BY DEF PlacedInv, SoloInv, PlaceInv
<1>1. \A w \in Workers : worker[w].pc \notin {"tidy", "wipe"}
  BY <1>0 DEF Where, Open, Live
<1>2. sweeper = "idle" /\ \A r \in Requests : request[r].pc # "cleanup"
  BY <1>0 DEF ControlInv, Aimed, Sweeping, Open, Live
<1>3. row.status \notin {"FAILED", "CANCELLED"}
  BY DEF Open, Live
<1>. QED  BY <1>0, <1>1, <1>2, <1>3, ObjectsMove

LEMMA ContentKept ==
  ASSUME Content, stable' \subseteq stable, \A p \in Parts : staging'[p] = staging[p],
         row'.status \in Open => row.status \in Open,
         row'.cursor = row.cursor, row'.nextBatch = row.nextBatch,
         row'.processedRows = row.processedRows,
         row'.status = "FINALIZING" => \/ row.status = "FINALIZING"
                                       \/ \A e \in stable : e <= row.cursor
  PROVE  Content'
<1>. SUFFICES ASSUME row'.status \in Open
              PROVE  /\ \A p \in Parts' : \A e \in staging'[p] : e <= row'.cursor
                     /\ \A p, q \in Parts' : p < q =>
                          \A d \in staging'[p], e \in staging'[q] : d < e
                     /\ \A e \in stable' : e <= row'.cursor => \E p \in Parts' : e \in staging'[p]
                     /\ row'.status = "FINALIZING" => \A e \in stable' : e <= row'.cursor
                     /\ row'.processedRows = Cardinality(RowsOf(row.nextBatch - 1)')
  BY DEF Content, Parts, RowsOf
<1>0. Parts' = Parts
  BY DEF Parts
<1>1. RowsOf(row.nextBatch - 1)' = RowsOf(row.nextBatch - 1)
  BY DEF RowsOf, Parts
<1>. QED  BY <1>0, <1>1 DEF Content

LEMMA ContentCheckpoint ==
  ASSUME TypeInv, NEW w \in Workers, Checkpoint(w), InStep(w), Where(w), Content,
         stable' = stable, row.status \in Open => Staged(row.nextBatch - 1)
  PROVE  Content'
<1>. DEFINE chunk == worker[w].chunk
            n == row.nextBatch
<1>0. /\ worker[w].pc = "checkpoint" /\ staging' = staging /\ row'.status = row.status
      /\ row'.cursor = Last(chunk) /\ row'.nextBatch = n + 1
      /\ row'.processedRows = row.processedRows + Cardinality(chunk)
      /\ row.status # "FINALIZING"
  BY CheckpointMoves DEF InStep, Looping, Where, InLoop
<1>1. /\ chunk \in SUBSET Ids /\ chunk # {} /\ n \in Nat \ {0} /\ row.cursor \in Nat
      /\ row.processedRows \in Nat /\ Ids \subseteq Nat
  BY <1>0, IdsAssumption DEF TypeInv, TypeOK, WorkerType, ChunkFetched, RowOK, IdsAssumption
<1>. SUFFICES ASSUME row.status \in Open PROVE Content'
  BY <1>0 DEF Content
<1>2. /\ staging[n] = chunk
      /\ \A e \in chunk : e > row.cursor
      /\ \A e \in stable : e > row.cursor /\ e <= Last(chunk) => e \in chunk
  BY <1>0 DEF InStep, Looping
<1>3. Last(chunk) \in chunk /\ Last(chunk) \in Nat /\ \A d \in chunk : d <= Last(chunk)
  BY <1>1, LastIsLast
<1>4. /\ \A p \in Parts : p \in DOMAIN staging /\ p < n
      /\ Parts' = Parts \cup {n} /\ n \notin Parts
  BY <1>0, <1>1 DEF Parts, Staged
<1>5. \A p \in Parts : staging[p] \subseteq Ids /\ \A e \in staging[p] : e <= row.cursor
  BY <1>4 DEF Content, TypeInv, TypeOK, ObjectsOK
<1>. HIDE DEF chunk, n
<1>6. \A p \in Parts' : \A e \in staging'[p] : e <= row'.cursor
  <2>1. row.cursor < Last(chunk)
    BY <1>2, <1>3
  <2>2. \A p \in Parts : \A e \in staging[p] : e \in Nat /\ e <= row.cursor
    BY <1>1, <1>5
  <2>3. \A p \in Parts : \A e \in staging[p] : e <= Last(chunk)
    BY <1>1, <1>3, <2>1, <2>2
  <2>. QED  BY <1>0, <1>2, <1>3, <1>4, <2>3
<1>7. \A p, q \in Parts' : p < q => \A d \in staging'[p], e \in staging'[q] : d < e
  <2>. SUFFICES ASSUME NEW p \in Parts', NEW q \in Parts', p < q,
                       NEW d \in staging[p], NEW e \in staging[q]
                PROVE  d < e
    BY <1>0
  <2>1. CASE q \in Parts
    <3>1. p \in Parts
      BY <1>1, <1>4, <2>1 DEF Parts, n
    <3>. QED  BY <2>1, <3>1 DEF Content
  <2>2. CASE q = n
    <3>1. p \in Parts
      BY <1>1, <1>4, <2>2
    <3>2. d \in Nat /\ d <= row.cursor
      BY <1>1, <1>5, <3>1
    <3>3. e \in Nat /\ e > row.cursor
      BY <1>1, <1>2, <2>2
    <3>. QED  BY <1>1, <3>2, <3>3
  <2>. QED  BY <1>4, <2>1, <2>2
<1>8. ASSUME NEW e \in stable', e <= row'.cursor PROVE \E p \in Parts' : e \in staging'[p]
  <2>0. e \in stable /\ e \in Nat /\ e <= Last(chunk)
    BY <1>0, <1>1, <1>8 DEF TypeInv, TypeOK, PeopleOK
  <2>1. CASE e <= row.cursor
    BY <1>0, <1>4, <2>0, <2>1 DEF Content
  <2>2. CASE ~(e <= row.cursor)
    <3>1. e \in chunk
      BY <1>1, <1>2, <2>0, <2>2
    <3>. QED  BY <1>0, <1>2, <1>4, <3>1
  <2>. QED  BY <2>1, <2>2
<1>9. row'.processedRows = Cardinality(RowsOf(row.nextBatch - 1)')
  <2>1. n - 1 \in Nat /\ (n - 1) + 1 = n
    BY <1>1
  <2>2. Cardinality(RowsOf((n - 1) + 1)) =
          Cardinality(RowsOf(n - 1)) + Cardinality(staging[(n - 1) + 1])
    BY <1>1, <1>2, <2>1, RowsCounted
  <2>3. Cardinality(RowsOf(n)) = Cardinality(RowsOf(n - 1)) + Cardinality(chunk)
    BY <1>2, <2>1, <2>2
  <2>4. row.processedRows = Cardinality(RowsOf(n - 1))
    BY DEF Content, n
  <2>5. RowsOf(row.nextBatch - 1)' = RowsOf(n)
    <3>1. row'.nextBatch - 1 = n
      BY <1>0, <1>1
    <3>. QED  BY <1>0, <3>1 DEF RowsOf
  <2>. QED  BY <1>0, <2>3, <2>4, <2>5
<1>. QED  BY <1>0, <1>6, <1>7, <1>8, <1>9 DEF Content

\* Only a checkpoint moves the columns of the checkpoint, only the claim makes a
\* row FINALIZING, and nobody joins those present since the request.
LEMMA RowKept ==
  ASSUME TypeInv, ControlInv, [Next]_vars, \A w \in Workers : ~Checkpoint(w)
  PROVE  /\ row'.cursor = row.cursor /\ row'.nextBatch = row.nextBatch
         /\ row'.processedRows = row.processedRows
         /\ row'.status = "FINALIZING" =>
              row.status = "FINALIZING" \/ \E w \in Workers : ClaimFinal(w)
<1>1. ASSUME NEW w \in Workers, Works(w)
      PROVE  row' = row \/ \E from, to : /\ Turns(from, to)
                                         /\ to = "FINALIZING" => ClaimFinal(w)
  BY <1>1, WorkerRow
<1>2. ASSUME NEW r \in Requests, Serves(r)
      PROVE  row' = row \/ \E from, to : Turns(from, to) /\ to # "FINALIZING"
  BY <1>2, RequestRow
<1>3. CASE Stalled \/ Pause \/ Expire \/ SweepStep \/ \E e \in Ids : Hire(e) \/ Leave(e)
  BY <1>3, RestRow DEF Turns
<1>4. CASE UNCHANGED vars
  BY <1>4 DEF vars
<1>. QED  BY <1>1, <1>2, <1>3, <1>4, Actors DEF Turns

LEMMA StableKept ==
  ASSUME [Next]_vars
  PROVE  stable' \subseteq stable \/ \E r \in Requests : Serves(r) /\ CreateRow(r)
<1>1. ASSUME NEW w \in Workers, Works(w) PROVE stable' = stable
  BY <1>1, WorkerFrame
<1>2. ASSUME NEW r \in Requests, Serves(r), ~CreateRow(r) PROVE stable' = stable
  BY <1>2 DEF Serves, RequestBegin, RequestStep, RequestFault, CancelRead, ResumeRead, CancelNow,
     Cleanup, AskCancel, ResumeClaim, Enqueue, EnqueueRefused, Undo, EnqueueThrows, Abort, people
<1>3. CASE Stalled \/ Pause \/ Expire \/ SweepStep \/ \E e \in Ids : Hire(e) \/ Leave(e)
  BY <1>3 DEF Stalled, Pause, Expire, SweepStep, SweepExpired, SweepDelete, SweepMark, SweepStale,
     Hire, Leave, people
<1>4. CASE UNCHANGED vars
  BY <1>4 DEF vars
<1>. QED  BY <1>1, <1>2, <1>3, <1>4, Actors

\* The new row counts nothing and misses nobody.
LEMMA Created ==
  ASSUME TypeInv, ControlInv, NEW r \in Requests, CreateRow(r)
  PROVE  /\ Content' /\ row'.status = "QUEUED" /\ staging' = staging
         /\ \A w \in Workers : worker[w].pc = "idle" /\ worker'[w].pc = "idle"
<1>1. row.status = "ABSENT" /\ row' = [row EXCEPT !.status = "QUEUED"] /\ stable' = Employees
      /\ worker' = worker /\ staging' = staging
  BY DEF CreateRow, objects
<1>2. row = FreshRow /\ \A w \in Workers : worker[w].pc = "idle"
  BY <1>1 DEF ControlInv, Fresh, Begun
<1>3. /\ row'.status = "QUEUED" /\ row'.cursor = 0 /\ row'.nextBatch = 1
      /\ row'.processedRows = 0
  BY <1>1, <1>2 DEF FreshRow
<1>4. Parts' = {}
  BY <1>3 DEF Parts
<1>5. RowsOf(row.nextBatch - 1)' = {}
  BY <1>3 DEF RowsOf
<1>6. \A e \in stable' : ~(e <= row'.cursor)
  BY <1>1, <1>3, IdsAssumption DEF Employees, IdsAssumption
<1>7. Cardinality({}) = 0
  BY FS_EmptySet
<1>8. row'.processedRows = Cardinality(RowsOf(row.nextBatch - 1)')
  BY <1>3, <1>5, <1>7
<1>9. Content'
  BY <1>3, <1>4, <1>6, <1>8 DEF Content
<1>. QED  BY <1>1, <1>2, <1>3, <1>9

LEMMA ContentStep ==
  ASSUME PlacedInv, DurableInv, Undisturbed, \A w \in Workers : InStep(w), Content, [Next]_vars
  PROVE  Content'
<1>0. /\ TypeInv /\ ControlInv /\ \A w \in Workers : Where(w)
      /\ row.status \in Open => Staged(row.nextBatch - 1)
  BY DEF PlacedInv, SoloInv, PlaceInv, DurableInv
<1>1. SUFFICES ASSUME row'.status \in Open PROVE Content'
  BY DEF Content
<1>2. row.status \in Open
  <2>1. CASE Next
    BY <1>0, <1>1, <2>1, EndIsEnd
  <2>2. CASE UNCHANGED vars
    BY <1>1, <2>2 DEF vars
  <2>. QED  BY <2>1, <2>2
<1>3. ASSUME NEW w \in Workers, Checkpoint(w) PROVE Content'
  <2>1. stable' = stable
    BY <1>3 DEF Checkpoint, people
  <2>. QED  BY <1>0, <1>3, <2>1, ContentCheckpoint
<1>4. ASSUME NEW r \in Requests, CreateRow(r) PROVE Content'
  BY <1>0, <1>4, Created
<1>5. ASSUME \A w \in Workers : ~Checkpoint(w), \A r \in Requests : ~CreateRow(r) PROVE Content'
  <2>1. stable' \subseteq stable
    BY <1>5, StableKept
  <2>2. /\ row'.cursor = row.cursor /\ row'.nextBatch = row.nextBatch
        /\ row'.processedRows = row.processedRows
    BY <1>0, <1>5, RowKept
  <2>3. row'.status = "FINALIZING" => \/ row.status = "FINALIZING"
                                      \/ \A e \in stable : e <= row.cursor
    <3>1. \A w \in Workers : ClaimFinal(w) => \A e \in stable : e <= row.cursor
      BY DEF ClaimFinal, At, InStep
    <3>. QED  BY <1>0, <1>5, <3>1, RowKept
  <2>4. \A p \in Parts : staging'[p] = staging[p]
    <3>1. CASE staging' = staging
      BY <3>1
    <3>2. ASSUME NEW w \in Workers, Upload(w) PROVE \A p \in Parts : staging'[p] = staging[p]
      <4>1. worker[w].batch = row.nextBatch
        BY <3>2 DEF Upload, At, InStep, Looping
      <4>2. \A p \in Parts : p \in DOMAIN staging /\ p # row.nextBatch
        BY <1>0, <1>2 DEF Parts, Staged, TypeInv, TypeOK, RowOK
      <4>. QED  BY <3>2, <4>1, <4>2 DEF Upload
    <3>. QED  BY <1>2, <3>1, <3>2, OpenObjects
  <2>. QED  BY <1>2, <2>1, <2>2, <2>3, <2>4, ContentKept
<1>. QED  BY <1>3, <1>4, <1>5

LEMMA InStepStep ==
  ASSUME PlacedInv, Undisturbed, Undisturbed', \A w \in Workers : InStep(w), [Next]_vars,
         NEW w \in Workers
  PROVE  InStep(w)'
<1>0. TypeInv /\ Budget /\ ControlInv /\ Present /\ Owned /\ Sole
  BY DEF PlacedInv, SoloInv, ControlInv
<1>1. row'.status \in Open => row.status \in Open
  <2>1. CASE Next
    BY <1>0, <2>1, EndIsEnd
  <2>2. CASE UNCHANGED vars
    BY <2>2 DEF vars
  <2>. QED  BY <2>1, <2>2
<1>aside. ASSUME worker'[w].pc \in {"idle", "done"} PROVE InStep(w)'
  BY <1>aside DEF InStep, Looping
<1>2. ASSUME NEW v \in Workers, Works(v) PROVE InStep(w)'
  <2>0. ~LoseLock(v)
    BY <1>0, LockStays DEF Undisturbed
  <2>1. CASE v = w
    BY <1>0, <1>1, <1>2, <2>0, <2>1, InStepMoves
  <2>2. CASE v # w /\ Busy(w)
    <3>1. UNCHANGED <<row, staging, stable>> /\ worker'[w] = worker[w]
      BY <1>0, <1>2, <2>0, <2>2, Alone, WorkerFrame
    <3>. QED  BY <1>1, <3>1, InStepKept
  <2>3. CASE v # w /\ ~Busy(w)
    BY <1>0, <1>2, <1>aside, <2>3, OneWorker DEF Busy, Works
  <2>. QED  BY <2>1, <2>2, <2>3
<1>3. ASSUME \A v \in Workers : ~Works(v) PROVE InStep(w)'
  <2>1. worker' = worker
    BY <1>3, Actors, RequestFrame, RestFrame DEF vars
  <2>2. ASSUME NEW r \in Requests, CreateRow(r) PROVE InStep(w)'
    BY <1>0, <1>aside, <2>2, Created
  <2>3. ASSUME \A r \in Requests : ~CreateRow(r) PROVE InStep(w)'
    <3>1. \A v \in Workers : ~Checkpoint(v)
      BY <1>3 DEF Works, WorkerStep
    <3>2. stable' \subseteq stable /\ (row.status \in Open => staging' = staging)
      BY <1>3, <2>3, StableKept, OpenObjects
    <3>. QED  BY <1>0, <1>1, <2>1, <3>1, <3>2, RowKept, InStepKept
  <2>. QED  BY <2>2, <2>3
<1>. QED  BY <1>2, <1>3

\* A worker is about to complete the row only after it uploaded the file.
LEMMA Completes ==
  ASSUME TypeInv, [Next]_vars, NEW w \in Workers, worker'[w].pc = "complete",
         worker[w].pc # "complete"
  PROVE  Works(w) /\ UploadFinal(w)
<1>1. Works(w)
  <2>1. ASSUME NEW v \in Workers, Works(v) PROVE v = w
    BY <2>1, OneWorker DEF Works
  <2>2. worker' # worker
    OBVIOUS
  <2>. QED  BY <2>1, <2>2, Actors, RequestFrame, RestFrame DEF vars
<1>0. worker \in [Workers -> WorkerType]
  BY DEF TypeInv, TypeOK
<1>2. ASSUME NEW pc, Goto(w, pc) PROVE pc = "complete"
  BY <1>2, Moves
<1>3. ~(Take(w) \/ Start(w) \/ ReadState(w) \/ Fetch(w) \/ Checkpoint(w) \/ Finalize(w)
        \/ BuildPart(w))
  BY TakeMoves, StartMoves, ReadMoves, FetchMoves, CheckpointMoves, FinalizeMoves, BuildMoves
     DEF Entry
<1>4. ~(Done(w) \/ RetryLater(w) \/ StartThrows(w) \/ MarkFailedThrows(w) \/ Crash(w))
  <2>1. Done(w) \/ RetryLater(w) \/ StartThrows(w) \/ MarkFailedThrows(w) \/ Crash(w)
          => worker' = [worker EXCEPT ![w] = IdleWorker]
    BY DEF Done, RetryLater, StartThrows, MarkFailedThrows, Crash, Return, Rethrow
  <2>2. worker' = [worker EXCEPT ![w] = IdleWorker] => worker'[w].pc = "idle"
    BY <1>0 DEF IdleWorker
  <2>. QED  BY <2>1, <2>2
<1>5. ~(Claim(w) \/ Upload(w) \/ ClaimFinal(w) \/ MissedFinal(w) \/ Complete(w) \/ Tidy(w)
        \/ Wipe(w) \/ ConfirmCancel(w) \/ Park(w) \/ Throw(w) \/ MarkFailed(w))
  <2>1. Claim(w) \/ Upload(w) \/ ClaimFinal(w) \/ MissedFinal(w) \/ Complete(w) \/ Tidy(w)
        \/ Wipe(w) \/ ConfirmCancel(w) \/ Park(w) \/ Throw(w) \/ MarkFailed(w)
          => \E pc \in {"read", "done", "checkpoint", "finalize", "missed", "wipe", "park", "tidy",
                        "confirmCancel", "caught"} : Goto(w, pc)
    BY DEF Claim, Upload, ClaimFinal, MissedFinal, Complete, Tidy, Wipe, ConfirmCancel, Park,
       Throw, MarkFailed
  <2>. QED  BY <1>2, <2>1
<1>6. ~LoseLock(w)
  BY DEF LoseLock
<1>. QED  BY <1>1, <1>3, <1>4, <1>5, <1>6 DEF Works, WorkerStep, WorkerFault

\* What it uploads is whole.
LEMMA BuiltWhole ==
  ASSUME TypeInv, NEW w \in Workers, UploadFinal(w), InStep(w), Content, stable' = stable,
         row.status = "FINALIZING"
  PROVE  Whole'
<1>. DEFINE built == worker[w].built
<1>1. /\ worker[w].pc = "build" /\ Len(built) = worker[w].parts /\ final' = {built}
  BY DEF UploadFinal, At
<1>2. /\ Len(built) = row.nextBatch - 1
      /\ \A p \in 1 .. Len(built) : built[p] = staging[p]
  BY <1>1 DEF InStep, Open, Live
<1>3. DOMAIN built = Parts
  BY <1>2 DEF Parts, TypeInv, TypeOK, WorkerType
<1>4. \A p \in Parts : built[p] = staging[p]
  BY <1>2 DEF Parts
<1>. HIDE DEF built
<1>5. InOrder(built)
  BY <1>3, <1>4 DEF InOrder, Content, Open, Live
<1>6. ASSUME NEW e \in stable PROVE \E p \in DOMAIN built : e \in built[p]
  BY <1>3, <1>4 DEF Content, Open, Live
<1>7. stable \subseteq UNION {built[p] : p \in DOMAIN built}
  BY <1>6
<1>. QED  BY <1>1, <1>5, <1>7 DEF Whole, InOrder

LEMMA DeliveredStep ==
  ASSUME PlacedInv, Undisturbed, Undisturbed', \A w \in Workers : InStep(w), Content, Delivered,
         [Next]_vars
  PROVE  Delivered'
<1>0. TypeInv /\ Budget /\ ControlInv /\ Sole /\ Owned /\ \A w \in Workers : Where(w)
  BY DEF PlacedInv, SoloInv, PlaceInv
<1>1. ASSUME row'.status \in {"FINALIZING", "COMPLETED"} PROVE stable' \subseteq stable
  <2>1. \A r \in Requests : CreateRow(r) => row'.status = "QUEUED"
    BY <1>0, Created
  <2>. QED  BY <1>1, <2>1, StableKept
<1>kept. ASSUME Whole, final' = final, stable' \subseteq stable PROVE Whole'
  BY <1>kept DEF Whole, InOrder
<1>2. ASSUME row'.status = "FINALIZING", NEW w \in Workers, worker'[w].pc = "complete"
      PROVE  Whole'
  <2>0. row.status \in Open
    <3>1. CASE Next
      BY <1>0, <1>2, <3>1, EndIsEnd DEF Open, Live
    <3>2. CASE UNCHANGED vars
      BY <1>2, <3>2 DEF vars, Open, Live
    <3>. QED  BY <3>1, <3>2
  <2>1. ASSUME NEW v \in Workers, Works(v), UploadFinal(v) PROVE Whole'
    <3>1. row' = row /\ stable' = stable
      BY <2>1 DEF UploadFinal, people
    <3>. QED  BY <1>0, <1>2, <2>1, <3>1, BuiltWhole
  <2>2. ASSUME ~\E v \in Workers : Works(v) /\ UploadFinal(v) PROVE Whole'
    <3>1. worker[w].pc = "complete"
      BY <1>0, <1>2, <2>2, Completes
    <3>2. row.status = "FINALIZING"
      BY <1>0, <2>0, <3>1 DEF Where, Closing, Open, Live
    <3>3. final' = final
      BY <2>0, <2>2, OpenObjects
    <3>. QED  BY <1>1, <1>2, <1>kept, <3>1, <3>2, <3>3 DEF Delivered
  <2>. QED  BY <2>1, <2>2
<1>3. ASSUME row'.status = "COMPLETED", ~expired' PROVE row'.key /\ Whole'
  <2>1. ASSUME NEW w \in Workers, Works(w), Complete(w), Turns("FINALIZING", "COMPLETED"), row'.key
        PROVE  Whole'
    <3>1. worker[w].pc = "complete" /\ final' = final
      BY <2>1 DEF Complete, At, objects
    <3>. QED  BY <1>1, <1>3, <1>kept, <2>1, <3>1 DEF Delivered, Turns
  <2>2. ASSUME row' = row PROVE row'.key /\ Whole'
    <3>1. ~expired
      <4>1. ASSUME NEW w \in Workers, Works(w) PROVE expired' = expired
        BY <4>1, WorkerFrame
      <4>2. ASSUME NEW r \in Requests, Serves(r) PROVE expired' = expired
        BY <4>2, RequestFrame
      <4>3. CASE Stalled \/ Pause \/ Expire \/ SweepStep \/ \E e \in Ids : Hire(e) \/ Leave(e)
        BY <1>3, <4>3 DEF Stalled, Pause, Expire, SweepStep, SweepExpired, SweepDelete, SweepMark,
           SweepStale, Hire, Leave
      <4>4. CASE UNCHANGED vars
        BY <1>3, <4>4 DEF vars
      <4>. QED  BY <1>3, <4>1, <4>2, <4>3, <4>4, Actors
    <3>2. final' = final
      BY <1>3, <2>2, <3>1, DownloadKept
    <3>. QED  BY <1>1, <1>3, <1>kept, <2>2, <3>1, <3>2 DEF Delivered
  <2>3. ASSUME NEW w \in Workers, Works(w)
        PROVE  row' = row \/ (Complete(w) /\ Turns("FINALIZING", "COMPLETED") /\ row'.key)
    <3>1. CASE Checkpoint(w)
      <4>1. worker[w].pc = "checkpoint" /\ row.status = "COMPLETED"
        BY <1>0, <1>3, <3>1, CheckpointMoves
      <4>. QED  BY <1>0, <4>1 DEF Where, InLoop
    <3>. QED  BY <1>0, <1>3, <2>3, <3>1, WorkerRow DEF Turns
  <2>4. ASSUME NEW r \in Requests, Serves(r) PROVE row' = row
    BY <1>0, <1>3, <2>4, RequestRow DEF Turns
  <2>5. CASE Stalled \/ Pause \/ Expire \/ SweepStep \/ \E e \in Ids : Hire(e) \/ Leave(e)
    BY <1>0, <1>3, <2>2, <2>5, RestRow DEF Turns
  <2>6. CASE UNCHANGED vars
    BY <2>2, <2>6 DEF vars
  <2>. QED  BY <2>1, <2>2, <2>3, <2>4, <2>5, <2>6, Actors
<1>. QED  BY <1>2, <1>3 DEF Delivered

DeliveryInv ==
  /\ PlacedInv /\ DurableInv
  /\ Undisturbed => (\A w \in Workers : InStep(w)) /\ Content /\ Delivered

LEMMA DeliveryInit == Init => DeliveryInv
<1>. SUFFICES ASSUME Init PROVE (\A w \in Workers : InStep(w)) /\ Content /\ Delivered
  BY DurableInit, PlacedInit DEF DeliveryInv
<1>1. \A w \in Workers : worker[w].pc = "idle"
  BY DEF Init, IdleWorker
<1>2. row = FreshRow /\ row.status = "ABSENT" /\ stable = {} /\ row.nextBatch = 1
  BY DEF Init, FreshRow
<1>3. Parts = {} /\ RowsOf(row.nextBatch - 1) = {}
  BY <1>2 DEF Parts, RowsOf
<1>4. row.processedRows = Cardinality(RowsOf(row.nextBatch - 1))
  BY <1>2, <1>3, FS_EmptySet DEF FreshRow
<1>5. Content
  BY <1>2, <1>3, <1>4 DEF Content
<1>. QED  BY <1>1, <1>2, <1>5 DEF InStep, Looping, Delivered

LEMMA DeliveryStep == DeliveryInv /\ [Next]_vars => DeliveryInv'
<1>. SUFFICES ASSUME DeliveryInv, [Next]_vars PROVE DeliveryInv'
  OBVIOUS
<1>0. PlacedInv /\ DurableInv /\ TypeInv /\ Budget
  BY DEF DeliveryInv, PlacedInv, SoloInv
<1>1. PlacedInv' /\ DurableInv'
  BY <1>0, SoloStep, PlaceStep, DurableStep DEF PlacedInv
<1>2. ASSUME Undisturbed' PROVE ((\A w \in Workers : InStep(w)) /\ Content /\ Delivered)'
  <2>1. Undisturbed
    BY <1>0, <1>2, BudgetStep
  <2>. QED  BY <1>0, <1>2, <2>1, InStepStep, ContentStep, DeliveredStep DEF DeliveryInv
<1>. QED  BY <1>1, <1>2 DEF DeliveryInv

LEMMA Delivery == Spec => []DeliveryInv
BY DeliveryInit, DeliveryStep, PTL DEF Spec

\* What a user can download is whole as long as the export is undisturbed.
THEOREM WholeDownload == Spec => [](Undisturbed => DownloadableIsWhole)
<1>1. DeliveryInv => (Undisturbed => DownloadableIsWhole)
  BY DEF DeliveryInv, Delivered, Whole, DownloadableIsWhole
<1>. QED  BY <1>1, Delivery, PTL

\* And its progress is exact.
THEOREM ExactProgress == Spec => [](Undisturbed => ProgressExact)
<1>1. DeliveryInv => (Undisturbed => ProgressExact)
  BY DEF DeliveryInv, Content, RowsOf, ProgressExact, Open
<1>. QED  BY <1>1, Delivery, PTL

------------------------------------------------------------------------------
(* An export is a log of chunks that is closed and becomes the file: see      *)
(* ExportLife.                                                                *)

\* Only a completed export expires.
ExpiresLast == expired => row.status \in {"COMPLETED", "EXPIRED", "FAILED"}

\* What is about to be delivered is the log, chunk by chunk.
Built == row.status = "FINALIZING" /\ (\E w \in Workers : worker[w].pc = "complete")
           => final = {Sealed}

PromiseInv == DeliveryInv /\ EndInv /\ ExpiresLast /\ (Undisturbed => Built)

\* What the user sees is a matter of the status and of the clock.
Places ==
  /\ Stage = "none" <=> row.status = "ABSENT"
  /\ Stage = "resting" <=> row.status \in {"QUEUED", "PAUSED"}
  /\ Stage = "running" <=> row.status \in {"PROCESSING", "PAUSING"}
  /\ Stage = "closing" <=> row.status = "FINALIZING"
  /\ Stage = "cancelling" <=> row.status = "CANCELLING"
  /\ Stage = "over" <=> row.status \in {"CANCELLED", "FAILED"}
  /\ Stage = "delivered" <=> row.status = "COMPLETED" /\ ~expired
  /\ Stage = "expired" <=> row.status = "EXPIRED" \/ (row.status = "COMPLETED" /\ expired)
  /\ row.status \in Live <=> Stage \in {"resting", "running", "closing"}

LEMMA Placing == TypeInv => Places
BY DEF TypeInv, TypeOK, RowOK, Status, Terminal, InProgress, Places, Stage, Live

LEMMA PlacingNext ==
  ASSUME TypeInv, [Next]_vars
  PROVE  Places /\ Places'
<1>1. TypeInv'
  BY TypeStep
<1>2. TypeInv' => Places'
  BY DEF TypeInv, TypeOK, RowOK, Status, Terminal, InProgress, Places, Stage, Live
<1>. QED  BY <1>1, <1>2, Placing

\* What the checkpoint counts is not written again.
LEMMA PartsKept ==
  ASSUME DeliveryInv, Undisturbed, [Next]_vars, row.status \in Open
  PROVE  \A p \in Parts : p \in DOMAIN staging /\ staging'[p] = staging[p]
<1>0. /\ PlacedInv /\ TypeInv /\ Staged(row.nextBatch - 1) /\ \A w \in Workers : InStep(w)
  BY DEF DeliveryInv, PlacedInv, SoloInv, DurableInv
<1>1. \A p \in Parts : p \in DOMAIN staging /\ p # row.nextBatch
  BY <1>0 DEF Parts, Staged, TypeInv, TypeOK, RowOK
<1>2. ASSUME NEW w \in Workers, Upload(w) PROVE \A p \in Parts : staging'[p] = staging[p]
  <2>1. worker[w].batch = row.nextBatch
    BY <1>0, <1>2 DEF Upload, At, InStep, Looping
  <2>. QED  BY <1>1, <1>2, <2>1 DEF Upload
<1>. QED  BY <1>0, <1>1, <1>2, OpenObjects

\* The log stays as long as the export goes on and nothing is checkpointed.
LEMMA LogKept ==
  ASSUME PromiseInv, Undisturbed, [Next]_vars, \A w \in Workers : ~Checkpoint(w),
         row.status \in Live, row'.status \in Live
  PROVE  Log' = Log
<1>0. TypeInv /\ ControlInv
  BY DEF PromiseInv, DeliveryInv, PlacedInv, SoloInv
<1>1. row'.nextBatch = row.nextBatch
  BY <1>0, RowKept
<1>2. \A p \in Parts : staging'[p] = staging[p]
  BY PartsKept DEF PromiseInv, Open
<1>3. Sealed' = Sealed
  BY <1>1, <1>2 DEF Sealed, Parts
<1>. QED  BY <1>3 DEF Log

\* A step that does not move the export, as its user sees it, leaves everything to
\* it but the employees who leave.
LEMMA Still ==
  ASSUME PromiseInv, Undisturbed, [Next]_vars, \A w \in Workers : ~Checkpoint(w),
         Stage' = Stage
  PROVE  Life!Depart
<1>0. TypeInv /\ ControlInv /\ PlacedInv
  BY DEF PromiseInv, DeliveryInv, PlacedInv, SoloInv
<1>1. Places /\ Places'
  BY <1>0, PlacingNext
<1>2. Log' = Log
  <2>1. CASE row.status \in Live
    BY <1>1, <2>1, LogKept DEF Places
  <2>2. CASE row.status \notin Live
    BY <1>1, <2>2 DEF Places, Log
  <2>. QED  BY <2>1, <2>2
<1>3. File' = File
  <2>1. CASE Stage = "delivered"
    <3>1. final' = final
      BY <1>0, <1>1, <2>1, DownloadKept DEF Places
    <3>. QED  BY <2>1, <3>1 DEF File
  <2>2. CASE Stage # "delivered"
    BY <2>2 DEF File
  <2>. QED  BY <2>1, <2>2
<1>4. stable' \subseteq stable
  <2>1. ASSUME NEW r \in Requests, CreateRow(r) PROVE FALSE
    <3>1. row.status = "ABSENT" /\ row'.status = "QUEUED"
      BY <1>0, <2>1, Created DEF CreateRow
    <3>. QED  BY <1>1, <3>1 DEF Places
  <2>. QED  BY <2>1, StableKept
<1>. QED  BY <1>2, <1>3, <1>4 DEF Life!Depart

\* The clock only moves a completed export, and no step of its own.
LEMMA Clock ==
  ASSUME [Next]_vars, expired' # expired
  PROVE  Expire
<1>1. ASSUME NEW w \in Workers, Works(w) PROVE FALSE
  BY <1>1, WorkerFrame
<1>2. ASSUME NEW r \in Requests, Serves(r) PROVE FALSE
  BY <1>2, RequestFrame
<1>3. CASE Stalled \/ Pause \/ Expire \/ SweepStep \/ \E e \in Ids : Hire(e) \/ Leave(e)
  BY <1>3 DEF Stalled, Pause, SweepStep, SweepExpired, SweepDelete, SweepMark, SweepStale, Hire,
     Leave
<1>4. ~UNCHANGED vars
  BY DEF vars
<1>. QED  BY <1>1, <1>2, <1>3, <1>4, Actors

LEMMA ExpiresLastStep ==
  ASSUME TypeInv, ControlInv, ExpiresLast, [Next]_vars
  PROVE  ExpiresLast'
<1>1. ASSUME Expire PROVE ExpiresLast'
  BY <1>1 DEF Expire, ExpiresLast
<1>2. ASSUME ~Expire PROVE ExpiresLast'
  <2>. SUFFICES ASSUME expired, row.status \in {"COMPLETED", "EXPIRED", "FAILED"}
                PROVE  row'.status \in {"COMPLETED", "EXPIRED", "FAILED"}
    BY <1>2, Clock DEF ExpiresLast
  <2>1. ASSUME NEW w \in Workers, Works(w)
        PROVE  row'.status \in {"COMPLETED", "EXPIRED", "FAILED"}
    BY <2>1, WorkerRow, CheckpointMoves DEF Turns
  <2>2. ASSUME NEW r \in Requests, Serves(r)
        PROVE  row'.status \in {"COMPLETED", "EXPIRED", "FAILED"}
    <3>1. Aimed(r)
      BY DEF ControlInv
    <3>. QED  BY <2>2, <3>1, RequestRow DEF Turns, Aimed, CancelNow, AskCancel
  <2>3. CASE Stalled \/ Pause \/ Expire \/ SweepStep \/ \E e \in Ids : Hire(e) \/ Leave(e)
    BY <2>3, RestRow DEF Turns
  <2>4. CASE UNCHANGED vars
    BY <2>4 DEF vars
  <2>. QED  BY <2>1, <2>2, <2>3, <2>4, Actors
<1>. QED  BY <1>1, <1>2

\* What a worker uploads as the file is the log.
LEMMA UploadedIsLog ==
  ASSUME TypeInv, NEW w \in Workers, UploadFinal(w), InStep(w), row.status \in Open
  PROVE  final' = {Sealed'}
<1>. DEFINE built == worker[w].built
<1>1. /\ worker[w].pc = "build" /\ Len(built) = worker[w].parts /\ final' = {built}
      /\ row' = row /\ staging' = staging
  BY DEF UploadFinal, At
<1>2. /\ Len(built) = row.nextBatch - 1
      /\ \A p \in 1 .. Len(built) : built[p] = staging[p]
  BY <1>1 DEF InStep
<1>3. built \in Seq(SUBSET Ids)
  BY DEF TypeInv, TypeOK, WorkerType
<1>. HIDE DEF built
<1>4. built = [p \in 1 .. Len(built) |-> built[p]]
  BY <1>3
<1>5. built = Sealed
  BY <1>2, <1>4 DEF Sealed
<1>. QED  BY <1>1, <1>5 DEF Sealed

LEMMA BuiltStep ==
  ASSUME PromiseInv, Undisturbed, Undisturbed', [Next]_vars
  PROVE  Built'
<1>. SUFFICES ASSUME row'.status = "FINALIZING", NEW w \in Workers, worker'[w].pc = "complete"
              PROVE  final' = {Sealed'}
  BY DEF Built
<1>0. /\ TypeInv /\ ControlInv /\ PlacedInv /\ DeliveryInv
      /\ \A v \in Workers : Where(v) /\ InStep(v)
  BY DEF PromiseInv, DeliveryInv, PlacedInv, SoloInv, PlaceInv
<1>1. row.status \in Open
  <2>1. CASE Next
    BY <1>0, <2>1, EndIsEnd DEF Open, Live
  <2>2. CASE UNCHANGED vars
    BY <2>2 DEF vars, Open, Live
  <2>. QED  BY <2>1, <2>2
<1>2. ASSUME NEW v \in Workers, Works(v), UploadFinal(v) PROVE final' = {Sealed'}
  BY <1>0, <1>1, <1>2, UploadedIsLog
<1>3. ASSUME ~\E v \in Workers : Works(v) /\ UploadFinal(v) PROVE final' = {Sealed'}
  <2>1. worker[w].pc = "complete"
    BY <1>0, <1>3, Completes
  <2>2. row.status = "FINALIZING"
    BY <1>0, <1>1, <2>1 DEF Where, Closing, Open, Live
  <2>3. final' = final /\ final = {Sealed}
    BY <1>0, <1>1, <1>3, <2>1, <2>2, OpenObjects DEF PromiseInv, Built
  <2>4. \A v \in Workers : ~Checkpoint(v)
    BY <1>0, <2>2 DEF Checkpoint, At, Where, InLoop
  <2>5. row'.nextBatch = row.nextBatch
    BY <1>0, <2>4, RowKept
  <2>6. Sealed' = Sealed
    BY <1>0, <1>1, <2>5, PartsKept DEF Sealed, Parts
  <2>. QED  BY <2>3, <2>6
<1>. QED  BY <1>2, <1>3

LEMMA PromiseSafe == Spec => []PromiseInv
<1>1. Init => ExpiresLast /\ Built
  BY DEF Init, ExpiresLast, Built, FreshRow
<1>2. PromiseInv /\ DeliveryInv' /\ EndInv' /\ [Next]_vars => PromiseInv'
  <2>. SUFFICES ASSUME PromiseInv, DeliveryInv', EndInv', [Next]_vars
                PROVE  ExpiresLast' /\ (Undisturbed' => Built')
    BY DEF PromiseInv
  <2>0. TypeInv /\ ControlInv /\ Budget
    BY DEF PromiseInv, DeliveryInv, PlacedInv, SoloInv
  <2>1. ExpiresLast'
    BY <2>0, ExpiresLastStep DEF PromiseInv
  <2>2. Undisturbed' => Built'
    BY <2>0, BudgetStep, BuiltStep
  <2>. QED  BY <2>1, <2>2
<1>3. DeliveryInv /\ EndInv /\ ExpiresLast /\ Built => PromiseInv
  BY DEF PromiseInv
<1>. QED  BY <1>1, <1>2, <1>3, Delivery, Ending, PTL DEF Spec

\* A checkpoint seals the chunk that was uploaded, behind all others.
LEMMA SealStep ==
  ASSUME PromiseInv, Undisturbed, [Next]_vars, NEW w \in Workers, Checkpoint(w),
         row.status \in Live
  PROVE  Life!Seal(worker[w].chunk) /\ worker[w].chunk \in SUBSET Ids
<1>. DEFINE chunk == worker[w].chunk
            n == row.nextBatch
<1>0. /\ TypeInv /\ ControlInv /\ PlacedInv /\ DeliveryInv /\ DurableInv
      /\ Where(w) /\ InStep(w) /\ Content
  BY DEF PromiseInv, DeliveryInv, PlacedInv, SoloInv, PlaceInv
<1>1. /\ worker[w].pc = "checkpoint" /\ staging' = staging /\ row'.status = row.status
      /\ row'.nextBatch = n + 1 /\ row.status \in {"PROCESSING", "PAUSING"}
      /\ expired' = expired /\ stable' = stable
  BY <1>0, CheckpointMoves DEF InStep, Looping, Where, InLoop, Live, Checkpoint, people
<1>2. /\ chunk \in SUBSET Ids /\ chunk # {} /\ n \in Nat \ {0} /\ row.cursor \in Nat
      /\ Ids \subseteq Nat
  BY <1>0, <1>1, IdsAssumption
     DEF DurableInv, TypeInv, TypeOK, WorkerType, ChunkFetched, RowOK, IdsAssumption
<1>3. staging[n] = chunk /\ \A e \in chunk : e > row.cursor
  BY <1>0, <1>1 DEF InStep, Looping, Open
<1>4. \A p \in Parts : /\ staging[p] \in SUBSET Ids
                       /\ \A d \in staging[p] : d <= row.cursor
  BY <1>0, PartsKept DEF Open, Content, TypeInv, TypeOK, ObjectsOK
<1>. HIDE DEF chunk, n
<1>5. Stage = "running" /\ Stage' = "running" /\ File = << >> /\ File' = << >>
  BY <1>1 DEF Stage, File
<1>6. /\ Log = [p \in 1 .. n - 1 |-> staging[p]] /\ Log' = [p \in 1 .. n |-> staging[p]]
  <2>1. row'.nextBatch - 1 = n /\ row.nextBatch - 1 = n - 1
    BY <1>1, <1>2 DEF n
  <2>. QED  BY <1>1, <2>1 DEF Log, Sealed, Live
<1>7. Log \in Seq(SUBSET Ids) /\ Len(Log) = n - 1
  <2>1. \A p \in 1 .. n - 1 : staging[p] \in SUBSET Ids
    BY <1>4 DEF Parts, n
  <2>. QED  BY <1>2, <1>6, <2>1
<1>8. Log' = Append(Log, chunk)
  <2>1. Append(Log, chunk) \in Seq(SUBSET Ids) /\ Len(Append(Log, chunk)) = n
    BY <1>2, <1>7
  <2>2. \A p \in 1 .. n : Append(Log, chunk)[p] = staging[p]
    <3>. SUFFICES ASSUME NEW p \in 1 .. n PROVE Append(Log, chunk)[p] = staging[p]
      OBVIOUS
    <3>1. CASE p = n
      BY <1>2, <1>3, <1>7, <3>1
    <3>2. CASE p # n
      <4>1. p \in 1 .. n - 1 /\ p \in 1 .. Len(Log)
        BY <1>2, <1>7, <3>2
      <4>2. Append(Log, chunk)[p] = Log[p]
        BY <1>2, <1>7, <4>1
      <4>. QED  BY <1>6, <4>1, <4>2
    <3>. QED  BY <3>1, <3>2
  <2>. DEFINE new == Append(Log, chunk)
  <2>. HIDE DEF new
  <2>3. new \in Seq(SUBSET Ids) /\ Len(new) = n /\ \A p \in 1 .. n : new[p] = staging[p]
    BY <2>1, <2>2 DEF new
  <2>4. new = [p \in 1 .. Len(new) |-> new[p]]
    BY <2>3
  <2>5. new = Log'
    BY <1>6, <2>3, <2>4
  <2>. QED  BY <2>5 DEF new
<1>9. \A d \in Life!Listed(Log), e \in chunk : d < e
  <2>. SUFFICES ASSUME NEW d \in Life!Listed(Log), NEW e \in chunk PROVE d < e
    OBVIOUS
  <2>1. PICK p \in 1 .. n - 1 : d \in staging[p]
    BY <1>6 DEF Life!Listed
  <2>2. d \in Nat /\ d <= row.cursor
    BY <1>2, <1>4, <2>1 DEF Parts, n
  <2>. QED  BY <1>2, <1>3, <2>2
<1>. QED  BY <1>1, <1>2, <1>5, <1>8, <1>9 DEF Life!Seal, chunk

\* What a worker does to the row is an action of ExportLife or none.
LEMMA WorkerKeeps ==
  ASSUME PromiseInv, Undisturbed, [Next]_vars, NEW w \in Workers, Works(w)
  PROVE  Life!Next
<1>0. /\ TypeInv /\ ControlInv /\ PlacedInv /\ DeliveryInv /\ Content
      /\ Where(w) /\ InStep(w) /\ expired' = expired /\ stable' = stable
  BY WorkerFrame DEF PromiseInv, DeliveryInv, PlacedInv, SoloInv, PlaceInv
<1>1. Places /\ Places'
  BY <1>0, PlacingNext
<1>2. CASE Checkpoint(w)
  <2>1. CASE row.status \in Live
    BY <1>2, <2>1, SealStep DEF Life!Next
  <2>2. CASE row.status \notin Live
    <3>1. row'.status = row.status
      BY <1>0, <1>2, CheckpointMoves
    <3>2. Stage' = Stage /\ Stage # "delivered"
      <4>1. row.status \in {"PROCESSING", "PAUSING", "CANCELLING", "FAILED"}
        BY <1>0, <1>2 DEF Where, InLoop, Checkpoint, At
      <4>. QED  BY <1>0, <3>1, <4>1 DEF Stage
    <3>3. Log' = Log /\ File' = File
      BY <2>2, <3>1, <3>2 DEF Log, File
    <3>. QED  BY <1>0, <3>2, <3>3 DEF Life!Depart, Life!Next
  <2>. QED  BY <2>1, <2>2
<1>3. ASSUME ~Checkpoint(w) PROVE Life!Next
  <2>0. \A v \in Workers : ~Checkpoint(v)
    <3>. SUFFICES ASSUME NEW v \in Workers, v # w, Checkpoint(v) PROVE FALSE
      BY <1>3
    <3>1. worker[v].pc = "checkpoint" /\ worker'[v].pc = "read"
      BY <1>0, CheckpointMoves
    <3>2. worker'[v] = worker[v]
      BY <1>0, OneWorker DEF Works
    <3>. QED  BY <3>1, <3>2
  <2>1. CASE Stage' = Stage
    BY <2>0, <2>1, Still DEF Life!Next
  <2>same. ASSUME row' = row PROVE Stage' = Stage
    BY <1>0, <2>same DEF Stage
  <2>2. ASSUME Claim(w), Turns("QUEUED", "PROCESSING") PROVE Life!Next
    <3>1. Stage = "resting" /\ Stage' = "running" /\ Log' = Log
      BY <1>1, <2>0, <2>2, LogKept DEF Places, Turns
    <3>2. File' = File
      BY <3>1 DEF File
    <3>. QED  BY <1>0, <3>1, <3>2 DEF Life!Run, Life!Next
  <2>3. ASSUME ClaimFinal(w), Turns("PROCESSING", "FINALIZING") PROVE Life!Next
    <3>1. Stage = "running" /\ Stage' = "closing" /\ Log' = Log
      BY <1>1, <2>0, <2>3, LogKept DEF Places, Turns
    <3>2. File' = File
      BY <3>1 DEF File
    <3>3. stable \subseteq Life!Listed(Log)
      <4>1. worker[w].pc = "claimFinal" /\ row.status = "PROCESSING"
        BY <2>3 DEF ClaimFinal, At, Turns
      <4>2. \A e \in stable : \E p \in Parts : e \in staging[p]
        BY <1>0, <4>1 DEF InStep, Content, Open, Live
      <4>3. Log = [p \in Parts |-> staging[p]]
        BY <4>1 DEF Log, Sealed, Parts, Live
      <4>. QED  BY <4>2, <4>3 DEF Life!Listed
    <3>. QED  BY <1>0, <3>1, <3>2, <3>3 DEF Life!Close, Life!Next
  <2>4. ASSUME Complete(w), Turns("FINALIZING", "COMPLETED") PROVE Life!Next
    <3>1. row.status = "FINALIZING" /\ worker[w].pc = "complete" /\ final' = final
      BY <2>4 DEF Complete, At, objects, Turns
    <3>2. ~expired
      BY <3>1 DEF PromiseInv, ExpiresLast
    <3>3. Stage = "closing" /\ Stage' = "delivered"
      BY <1>0, <1>1, <2>4, <3>2 DEF Places, Turns
    <3>4. Log = Sealed /\ Log' = << >>
      BY <1>1, <3>1, <3>3 DEF Log, Live, Places
    <3>5. final' = {Log}
      BY <3>1, <3>4 DEF PromiseInv, Built
    <3>6. File' = Log
      BY <3>3, <3>5 DEF File
    <3>. QED  BY <1>0, <3>3, <3>4, <3>6 DEF Life!Deliver, Life!Next
  <2>5. ASSUME Turns("CANCELLING", "CANCELLED") PROVE Life!Next
    <3>1. Stage = "cancelling" /\ Stage' = "over" /\ Log' = << >>
      BY <1>1, <2>5 DEF Places, Turns, Log
    <3>2. File' = File
      BY <3>1 DEF File
    <3>. QED  BY <1>0, <3>1, <3>2 DEF Life!End, Life!Next
  <2>6. ASSUME Turns("PAUSING", "PAUSED") PROVE Life!Next
    <3>1. Stage = "running" /\ Stage' = "resting" /\ Log' = Log
      BY <1>1, <2>0, <2>6, LogKept DEF Places, Turns
    <3>2. File' = File
      BY <3>1 DEF File
    <3>. QED  BY <1>0, <3>1, <3>2 DEF Life!Rest, Life!Next
  <2>7. ASSUME row.status \in InProgress, Turns(row.status, "FAILED") PROVE Life!Next
    <3>1. /\ Stage \in {"resting", "running", "closing", "cancelling"}
          /\ Stage' = "over" /\ Log' = << >>
      BY <1>1, <2>7 DEF Places, Turns, Log, InProgress
    <3>2. File' = File
      BY <3>1 DEF File
    <3>. QED  BY <1>0, <3>1, <3>2 DEF Life!End, Life!Next
  <2>. QED  BY <1>0, <1>3, <2>1, <2>same, <2>2, <2>3, <2>4, <2>5, <2>6, <2>7, WorkerRow
<1>. QED  BY <1>2, <1>3

LEMMA RequestKeeps ==
  ASSUME PromiseInv, Undisturbed, Answered, [Next]_vars, NEW r \in Requests, Serves(r)
  PROVE  Life!Next
<1>0. /\ TypeInv /\ ControlInv /\ Aimed(r) /\ Early /\ expired' = expired /\ worker' = worker
  BY RequestFrame DEF PromiseInv, EndInv, DeliveryInv, PlacedInv, SoloInv, ControlInv
<1>1. Places /\ Places'
  BY <1>0, PlacingNext
<1>2. \A w \in Workers : ~Checkpoint(w)
  BY <1>0, CheckpointMoves
<1>3. CASE Stage' = Stage
  BY <1>2, <1>3, Still DEF Life!Next
<1>same. ASSUME row' = row PROVE Stage' = Stage
  BY <1>0, <1>same DEF Stage
<1>4. ASSUME CreateRow(r) PROVE Life!Next
  <2>1. row.status = "ABSENT" /\ row'.status = "QUEUED" /\ stable' = Employees
    BY <1>0, <1>4, Created DEF CreateRow
  <2>2. Stage = "none" /\ Stage' = "resting"
    BY <1>1, <2>1 DEF Places
  <2>3. Log = << >> /\ Log' = << >>
    <3>1. row'.nextBatch = 1
      BY <1>0, <1>4, <2>1, RequestRow DEF ControlInv, Fresh, FreshRow, CreateRow, TypeInv,
         TypeOK, RowOK
    <3>2. Sealed' = << >>
      BY <3>1 DEF Sealed
    <3>. QED  BY <2>1, <3>2 DEF Log, Live
  <2>4. File' = File
    BY <2>2 DEF File
  <2>5. Employees \in SUBSET Ids
    BY DEF Employees
  <2>. QED  BY <2>1, <2>2, <2>3, <2>4, <2>5 DEF Life!Ask, Life!Next
<1>5. ASSUME ~CreateRow(r) PROVE stable' = stable
  BY <1>5 DEF Serves, RequestBegin, RequestStep, RequestFault, CancelRead, ResumeRead, CancelNow,
     Cleanup, AskCancel, ResumeClaim, Enqueue, EnqueueRefused, Undo, EnqueueThrows, Abort, people
<1>6. ASSUME stable' = stable, Stage \in {"resting", "running"}, Stage' = "over" PROVE Life!Next
  <2>1. Log' = << >> /\ File' = File
    BY <1>1, <1>6 DEF Log, File, Places
  <2>. QED  BY <1>6, <2>1 DEF Life!End, Life!Next
<1>7. ASSUME CancelNow(r), Turns(request[r].seen, "CANCELLED") PROVE Life!Next
  <2>1. Stage = "resting" /\ Stage' = "over" /\ ~CreateRow(r)
    BY <1>0, <1>1, <1>7 DEF Places, Turns, Aimed, CancelNow, CreateRow
  <2>. QED  BY <1>5, <1>6, <2>1
<1>8. ASSUME AskCancel(r), Turns(request[r].seen, "CANCELLING") PROVE Life!Next
  <2>1. Stage \in {"running", "cancelling"} /\ Stage' = "cancelling" /\ ~CreateRow(r)
    BY <1>0, <1>1, <1>8 DEF Places, Turns, Aimed, AskCancel, CreateRow
  <2>2. CASE Stage = "running"
    <3>1. Log' = << >> /\ File' = File
      BY <1>1, <2>1, <2>2 DEF Log, File, Places
    <3>. QED  BY <1>5, <2>1, <2>2, <3>1 DEF Life!Cancel, Life!Next
  <2>. QED  BY <1>3, <2>1, <2>2
<1>9. ASSUME Turns("PAUSED", "QUEUED") \/ Turns("QUEUED", "PAUSED") PROVE Life!Next
  BY <1>1, <1>3, <1>9 DEF Places, Turns
<1>10. ASSUME Undo(r), request[r].op = "create", Turns(row.status, "FAILED") PROVE Life!Next
  <2>1. row.status \in {"QUEUED", "CANCELLED"} /\ ~CreateRow(r)
    BY <1>0, <1>10 DEF Undo, Early, Creating, Adding, CreateRow
  <2>2. Stage \in {"resting", "over"} /\ Stage' = "over"
    BY <1>1, <1>10, <2>1 DEF Places, Turns
  <2>. QED  BY <1>3, <1>5, <1>6, <2>1, <2>2
<1>. QED  BY <1>0, <1>3, <1>same, <1>4, <1>7, <1>8, <1>9, <1>10, RequestRow

LEMMA RestKeeps ==
  ASSUME PromiseInv, Undisturbed, [Next]_vars,
         Stalled \/ Pause \/ Expire \/ SweepStep \/ \E e \in Ids : Hire(e) \/ Leave(e)
  PROVE  Life!Next
<1>0. TypeInv /\ ControlInv /\ Sweeping /\ worker' = worker
  BY RestFrame DEF PromiseInv, DeliveryInv, PlacedInv, SoloInv, PlaceInv
<1>1. Places /\ Places'
  BY <1>0, PlacingNext
<1>2. \A w \in Workers : ~Checkpoint(w)
  BY <1>0, CheckpointMoves
<1>3. CASE Stage' = Stage
  BY <1>2, <1>3, Still DEF Life!Next
<1>4. ASSUME Expire PROVE Life!Next
  <2>1. /\ row.status = "COMPLETED" /\ ~expired /\ expired' = TRUE /\ row' = row
        /\ stable' = stable
    BY <1>4 DEF Expire, people
  <2>2. Stage = "delivered" /\ Stage' = "expired"
    BY <1>1, <2>1 DEF Places
  <2>3. Log' = Log /\ File' = << >>
    BY <2>1, <2>2 DEF Log, File, Live
  <2>. QED  BY <2>1, <2>2, <2>3 DEF Life!Expire, Life!Next
<1>5. ASSUME ~Expire PROVE Stage' = Stage
  <2>1. expired' = expired
    BY <1>5, Clock
  <2>2. ASSUME SweepMark, Turns("COMPLETED", "EXPIRED") PROVE Stage' = Stage
    <3>1. expired
      BY <1>0, <2>2 DEF SweepMark, Sweeping
    <3>. QED  BY <1>1, <2>2, <3>1 DEF Places, Turns
  <2>3. ASSUME Turns("PROCESSING", "PAUSING") PROVE Stage' = Stage
    BY <1>1, <2>3 DEF Places, Turns
  <2>4. ASSUME row' = row PROVE Stage' = Stage
    BY <2>1, <2>4 DEF Stage
  <2>. QED  BY <1>0, <2>2, <2>3, <2>4, RestRow
<1>. QED  BY <1>3, <1>4, <1>5

\* An export implements ExportLife, unless a lock or a reply was lost: its chunks
\* form a log that only grows, in order and while it runs; it is closed when nobody
\* who was there throughout is missing, and from then on cannot be paused, added to
\* or cancelled; a download gets exactly the log.
THEOREM PromiseKept == Spec /\ []Undisturbed /\ []Answered => KeepsPromise
<1>1. Init => Life!Init
  BY DEF Init, FreshRow, Life!Init, Stage, Log, File, Live
<1>2. PromiseInv /\ Undisturbed /\ Answered /\ [Next]_vars
        => [Life!Next]_<<Stage, Log, File, stable>>
  <2>. SUFFICES ASSUME PromiseInv, Undisturbed, Answered, [Next]_vars
                PROVE  [Life!Next]_<<Stage, Log, File, stable>>
    OBVIOUS
  <2>1. CASE UNCHANGED vars
    BY <2>1 DEF vars, Stage, Log, File, Sealed
  <2>. QED  BY <2>1, WorkerKeeps, RequestKeeps, RestKeeps, Actors
<1>. QED  BY <1>1, <1>2, PromiseSafe, PTL DEF Spec, KeepsPromise, Life!Spec

------------------------------------------------------------------------------
(* A queued export waits for a job.  A job is used up only by as many failing *)
(* calls as it has attempts, or by as many stalls as the queue allows.        *)

Spent(k) == Bounds[k] - left[k]

\* The queue refuses a second job id, no handler was killed and no lock lost.
Attended == RejectsColonIds /\ LocksKept /\ left["aborts"] = Bounds["aborts"]

\* The create whose first job is not stored yet.
Storing(r) == request[r].pc = "enqueue" /\ request[r].op = "create"

FirstJob ==
  \A r \in Requests : Storing(r) => jobs = {} /\ \A q \in Requests : Creating(q) => q = r

Awaited ==
  row.status = "QUEUED" =>
    \/ \E r \in Requests : Adding(r)
    \/ jobs # {} /\ \A w \in Workers : worker[w].pc # "done"

\* The attempts a job has used, with the one its worker is about to give up.
Tries(j) == j.made + (IF j.owner # None /\ worker[j.owner].pc = "caught" THEN 1 ELSE 0)

Counted(j) ==
  /\ j.stalls + (IF j.state = "active" /\ j.owner = None THEN 1 ELSE 0) <= Spent("crashes")
  /\ j.state = "failed" => j.made >= MaxAttempts \/ j.stalls > MaxStalledCount
  /\ row.status \in Open => Tries(j) <= Spent("errors") + Spent("replies")

LEMMA SpentGrows ==
  ASSUME TypeInv, Budget, [Next]_vars, NEW k \in Kinds
  PROVE  /\ Spent(k) \in Nat /\ Spent(k)' \in Nat /\ Spent(k) <= Spent(k)'
         /\ Spend(k) => Spent(k)' = Spent(k) + 1
<1>1. Bounds[k] \in Nat /\ left[k] \in Nat /\ left'[k] \in Nat /\ left'[k] <= left[k]
      /\ left[k] <= Bounds[k]
  BY Spends, BoundsAssumption DEF Budget, BoundsAssumption
<1>2. Spend(k) => left'[k] = left[k] - 1
  BY DEF Spend, TypeInv, TypeOK, RestOK
<1>. QED  BY <1>1, <1>2 DEF Spent

\* No step of an attended export is a lost lock or an abort.
LEMMA AttendedStep ==
  ASSUME TypeInv, Budget, [Next]_vars, Attended'
  PROVE  /\ Attended /\ Undisturbed /\ Undisturbed'
         /\ \A w \in Workers : ~LoseLock(w)
         /\ \A r \in Requests : ~Abort(r)
<1>1. Undisturbed'
  BY DEF Attended, Undisturbed
<1>2. Undisturbed /\ \A w \in Workers : ~LoseLock(w)
  BY <1>1, BudgetStep, LockStays DEF Undisturbed
<1>3. /\ Bounds["aborts"] \in Nat /\ left["aborts"] \in Nat /\ left'["aborts"] <= left["aborts"]
      /\ left["aborts"] <= Bounds["aborts"]
  BY Spends, BoundsAssumption DEF Budget, BoundsAssumption, Kinds
<1>4. left["aborts"] = Bounds["aborts"] /\ left'["aborts"] = left["aborts"]
  BY <1>3 DEF Attended
<1>5. ~Spend("aborts")
  BY <1>4, NotSpent DEF Kinds
<1>. QED  BY <1>1, <1>2, <1>4, <1>5 DEF Attended, Undisturbed, Abort

LEMMA FirstJobStep ==
  ASSUME PlacedInv, Attended', FirstJob, [Next]_vars
  PROVE  FirstJob'
<1>0. /\ TypeInv /\ ControlInv /\ Budget
      /\ RejectsColonIds /\ \A w \in Workers : ~LoseLock(w)
  BY AttendedStep DEF PlacedInv, SoloInv, Attended
<1>1. Owned /\ \A r \in Requests : ~Abort(r)
  BY <1>0, AttendedStep DEF PlacedInv, SoloInv
<1>2. ASSUME NEW w \in Workers, Works(w) PROVE FirstJob'
  <2>1. ASSUME NEW r \in Requests, Storing(r) PROVE FALSE
    <3>1. jobs = {}
      BY <2>1 DEF FirstJob
    <3>2. worker[w].pc = "idle"
      BY <1>1, <3>1 DEF Owned
    <3>3. ~Runs(w) /\ ~Leaves(w) /\ ~Take(w)
      BY <3>1, <3>2 DEF Runs, Leaves, Take
    <3>. QED  BY <1>0, <1>2, <3>3, WorkerKinds
  <2>. QED  BY <1>2, <2>1, WorkerFrame DEF FirstJob, Storing
<1>3. ASSUME NEW s \in Requests, Serves(s) PROVE FirstJob'
  <2>0. /\ \A q \in Requests : q # s => request'[q] = request[q]
        /\ Aimed(s) /\ request \in [Requests -> RequestType] /\ request[s] \in RequestType
    BY <1>0, <1>3, ServeMoves DEF ControlInv, TypeInv, TypeOK
  <2>1. CASE CreateRow(s)
    <3>1. row.status = "ABSENT" /\ jobs' = jobs
      BY <2>1 DEF CreateRow
    <3>2. jobs = {} /\ \A q \in Requests : request[q].pc = "idle"
      BY <1>0, <3>1 DEF ControlInv, Begun
    <3>. QED  BY <2>0, <3>1, <3>2 DEF FirstJob, Storing, Creating, Adding
  <2>2. ASSUME jobs' = jobs, Creating(s)' => Creating(s), Storing(s)' => Storing(s)
        PROVE  FirstJob'
    BY <2>0, <2>2 DEF FirstJob, Storing, Creating, Adding
  <2>3. CASE CancelRead(s) \/ ResumeRead(s)
    <3>1. ~Adding(s)'
      BY <2>0, <2>3 DEF CancelRead, ResumeRead, IdleRequest, Adding
    <3>. QED  BY <2>2, <2>3, <3>1 DEF CancelRead, ResumeRead, Storing, Creating, Adding
  <2>4. CASE CancelNow(s) \/ AskCancel(s) \/ Cleanup(s) \/ Undo(s)
    <3>1. ~Adding(s)'
      BY <2>0, <2>4 DEF CancelNow, AskCancel, Cleanup, Undo, IdleRequest, Adding, RequestType
    <3>2. jobs' = jobs
      BY <2>4 DEF CancelNow, AskCancel, Cleanup, Undo
    <3>. QED  BY <2>2, <3>1, <3>2 DEF Storing, Creating, Adding
  <2>5. CASE ResumeClaim(s)
    <3>1. request'[s].op # "create" /\ jobs' = jobs
      BY <2>0, <2>5 DEF ResumeClaim, Aimed, IdleRequest, RequestType
    <3>. QED  BY <2>2, <3>1 DEF Storing, Creating
  <2>6. CASE EnqueueRefused(s)
    <3>1. /\ request'[s].pc = "undo" /\ request'[s].op = request[s].op /\ jobs' = jobs
          /\ request[s].pc = "enqueue"
      BY <2>0, <2>6 DEF EnqueueRefused, RequestType
    <3>. QED  BY <2>2, <3>1 DEF Storing, Creating, Adding
  <2>7. CASE Enqueue(s) \/ EnqueueThrows(s)
    <3>1. request[s].pc = "enqueue" /\ request[s].op # "resume"
      BY <1>0, <2>7 DEF Enqueue, EnqueueThrows, Refused
    <3>2. Creating(s)
      BY <2>0, <3>1 DEF Aimed, Creating, Adding
    <3>3. request'[s].pc \in {"idle", "undo"}
      BY <2>0, <2>7 DEF Enqueue, EnqueueThrows, IdleRequest, RequestType
    <3>4. \A q \in Requests : ~Storing(q)'
      <4>. SUFFICES ASSUME NEW q \in Requests, Storing(q)' PROVE FALSE
        OBVIOUS
      <4>1. q # s /\ Storing(q)
        BY <2>0, <3>3 DEF Storing
      <4>. QED  BY <3>2, <4>1 DEF FirstJob
    <3>. QED  BY <3>4 DEF FirstJob
  <2>. QED  BY <1>1, <1>3, <2>1, <2>3, <2>4, <2>5, <2>6, <2>7
              DEF Serves, RequestBegin, RequestStep, RequestFault
<1>4. CASE \/ Stalled \/ Pause \/ Expire \/ SweepStep \/ \E e \in Ids : Hire(e) \/ Leave(e)
  <2>1. request' = request
    BY <1>4, RestFrame
  <2>2. jobs = {} => jobs' = {}
    BY <1>4 DEF Stalled, Pause, Expire, SweepStep, SweepExpired, SweepDelete, SweepMark,
       SweepStale, Hire, Leave
  <2>. QED  BY <2>1, <2>2 DEF FirstJob, Storing, Creating, Adding
<1>5. CASE UNCHANGED vars
  BY <1>5 DEF vars, FirstJob, Storing, Creating, Adding
<1>. QED  BY <1>2, <1>3, <1>4, <1>5, Actors

\* No worker is done with an export that is still queued after its step.
LEMMA FinishQueued ==
  ASSUME TypeInv, NEW w \in Workers, Where(w), Works(w), worker'[w].pc = "done",
         row.status = "QUEUED", row'.status = "QUEUED"
  PROVE  worker[w].pc = "done"
<1>0. worker \in [Workers -> WorkerType] /\ RowOK
  BY DEF TypeInv, TypeOK
<1>. SUFFICES ASSUME worker[w].pc # "done" PROVE FALSE
  OBVIOUS
<1>1. ~(Take(w) \/ ReadState(w) \/ Fetch(w) \/ Checkpoint(w) \/ BuildPart(w))
  BY TakeMoves, ReadMoves, FetchMoves, CheckpointMoves, BuildMoves
<1>2. ~Start(w)
  BY StartMoves DEF Entry, Terminal
<1>3. ~Claim(w)
  BY <1>0 DEF Claim, Flip, RowOK
<1>4. worker[w].pc \notin {"claimFinal", "missed", "finalize", "complete", "tidy", "wipe",
                           "confirmCancel", "park"}
  BY DEF Where, InLoop, Closing
<1>5. ~(ClaimFinal(w) \/ MissedFinal(w) \/ Finalize(w) \/ Complete(w) \/ Tidy(w) \/ Wipe(w)
        \/ ConfirmCancel(w) \/ Park(w))
  BY <1>4 DEF ClaimFinal, MissedFinal, Finalize, Complete, Tidy, Wipe, ConfirmCancel, Park, At
<1>6. ~MarkFailed(w)
  BY <1>0 DEF MarkFailed, InProgress, RowOK
<1>7. ~(Upload(w) \/ UploadFinal(w) \/ Throw(w))
  <2>1. Upload(w) \/ UploadFinal(w) \/ Throw(w)
          => \E pc \in {"checkpoint", "complete", "caught"} : Goto(w, pc)
    BY DEF Upload, UploadFinal, Throw
  <2>. QED  BY <2>1, Moves
<1>8. ~(Done(w) \/ RetryLater(w) \/ StartThrows(w) \/ MarkFailedThrows(w) \/ Crash(w))
  <2>1. Done(w) \/ RetryLater(w) \/ StartThrows(w) \/ MarkFailedThrows(w) \/ Crash(w)
          => worker' = [worker EXCEPT ![w] = IdleWorker]
    BY DEF Done, RetryLater, StartThrows, MarkFailedThrows, Crash, Return, Rethrow
  <2>2. worker' = [worker EXCEPT ![w] = IdleWorker] => worker'[w].pc = "idle"
    BY <1>0 DEF IdleWorker
  <2>. QED  BY <2>1, <2>2
<1>9. ~LoseLock(w)
  BY DEF LoseLock
<1>. QED  BY <1>1, <1>2, <1>3, <1>5, <1>6, <1>7, <1>8, <1>9 DEF Works, WorkerStep, WorkerFault

LEMMA AwaitedStep ==
  ASSUME PlacedInv, Attended', FirstJob, Awaited, [Next]_vars
  PROVE  Awaited'
<1>0. /\ TypeInv /\ ControlInv /\ Budget
      /\ RejectsColonIds /\ Undisturbed /\ \A w \in Workers : ~LoseLock(w)
  BY AttendedStep DEF PlacedInv, SoloInv, Attended
<1>1. Owned /\ (\A r \in Requests : ~Abort(r)) /\ \A w \in Workers : Where(w)
  BY <1>0, AttendedStep DEF PlacedInv, SoloInv, PlaceInv
<1>. SUFFICES ASSUME row'.status = "QUEUED"
              PROVE  \/ \E r \in Requests : Adding(r)'
                     \/ jobs' # {} /\ \A w \in Workers : worker'[w].pc # "done"
  BY DEF Awaited
<1>2. ASSUME NEW w \in Workers, Works(w)
      PROVE  \/ \E r \in Requests : Adding(r)'
             \/ jobs' # {} /\ \A v \in Workers : worker'[v].pc # "done"
  <2>1. row.status = "QUEUED"
    BY <1>0, <1>2, WorkerRow, CheckpointMoves DEF Turns
  <2>2. \A r \in Requests : Adding(r) => Adding(r)'
    BY <1>2, WorkerFrame DEF Adding
  <2>3. ASSUME jobs # {}, \A v \in Workers : worker[v].pc # "done"
        PROVE  jobs' # {} /\ \A v \in Workers : worker'[v].pc # "done"
    <3>1. \A v \in Workers : worker'[v].pc # "done"
      <4>1. worker'[w].pc # "done"
        BY <1>0, <1>1, <1>2, <2>1, <2>3, FinishQueued
      <4>2. \A v \in Workers : v # w => worker'[v] = worker[v]
        BY <1>0, <1>2, OneWorker DEF Works
      <4>. QED  BY <2>3, <4>1, <4>2
    <3>2. jobs' # {}
      <4>1. CASE Take(w)
        BY <1>0, <4>1, TakeMoves
      <4>2. CASE Runs(w)
        BY <2>3, <4>2 DEF Runs
      <4>3. CASE Leaves(w)
        <5>1. ~Done(w)
          BY <2>3 DEF Done, At
        <5>. QED  BY <1>0, <1>1, <4>3, <5>1, LeavesJob
      <4>. QED  BY <1>0, <1>2, <4>1, <4>2, <4>3, WorkerKinds
    <3>. QED  BY <3>1, <3>2
  <2>. QED  BY <2>1, <2>2, <2>3 DEF Awaited
<1>3. ASSUME NEW s \in Requests, Serves(s)
      PROVE  \/ \E r \in Requests : Adding(r)'
             \/ jobs' # {} /\ \A v \in Workers : worker'[v].pc # "done"
  <2>0. /\ \A q \in Requests : q # s => request'[q] = request[q]
        /\ Aimed(s) /\ request \in [Requests -> RequestType] /\ request[s] \in RequestType
        /\ worker' = worker
    BY <1>0, <1>3, ServeMoves, RequestFrame DEF ControlInv, TypeInv, TypeOK
  <2>1. CASE CreateRow(s)
    BY <2>0, <2>1 DEF CreateRow, Adding
  <2>2. CASE ResumeClaim(s) /\ row.status = "PAUSED"
    BY <2>0, <2>2 DEF ResumeClaim, Adding, RequestType
  <2>3. ASSUME row.status = "QUEUED", NEW r \in Requests, r # s, Adding(r)
        PROVE  \E q \in Requests : Adding(q)'
    BY <2>0, <2>3 DEF Adding
  <2>4. ASSUME row.status = "QUEUED", Adding(s)
        PROVE  \/ \E r \in Requests : Adding(r)'
               \/ jobs' # {} /\ \A v \in Workers : worker'[v].pc # "done"
    <3>1. CASE Enqueue(s)
      <4>1. Storing(s)
        BY <1>0, <2>0, <2>4, <3>1 DEF Enqueue, Refused, Storing, Aimed, Adding
      <4>2. jobs = {} /\ \A v \in Workers : worker[v].pc = "idle"
        BY <1>1, <4>1 DEF FirstJob, Owned
      <4>3. jobs' # {}
        BY <3>1, <4>2 DEF Enqueue, Added
      <4>. QED  BY <2>0, <4>2, <4>3
    <3>2. CASE EnqueueRefused(s) \/ EnqueueThrows(s)
      BY <2>0, <3>2 DEF EnqueueRefused, EnqueueThrows, Adding, RequestType
    <3>3. ~Undo(s)
      BY <1>0, <2>4 DEF Undo, Flip, TypeInv, TypeOK, RowOK
    <3>4. ~(CreateRow(s) \/ CancelRead(s) \/ ResumeRead(s) \/ CancelNow(s) \/ AskCancel(s)
            \/ Cleanup(s) \/ ResumeClaim(s))
      BY <2>4 DEF Adding, CreateRow, CancelRead, ResumeRead, CancelNow, AskCancel, Cleanup,
         ResumeClaim
    <3>. QED  BY <1>1, <1>3, <3>1, <3>2, <3>3, <3>4
                DEF Serves, RequestBegin, RequestStep, RequestFault
  <2>5. ASSUME jobs # {}, \A v \in Workers : worker[v].pc # "done"
        PROVE  jobs' # {} /\ \A v \in Workers : worker'[v].pc # "done"
    BY <1>3, <2>0, <2>5, RequestJobs DEF Added
  <2>6. row.status = "QUEUED" \/ CreateRow(s) \/ (ResumeClaim(s) /\ row.status = "PAUSED")
    BY <1>0, <1>3, RequestRow DEF Turns
  <2>. QED  BY <2>1, <2>2, <2>3, <2>4, <2>5, <2>6 DEF Awaited
<1>4. CASE \/ Stalled \/ Pause \/ Expire \/ SweepStep \/ \E e \in Ids : Hire(e) \/ Leave(e)
  <2>1. request' = request /\ worker' = worker
    BY <1>4, RestFrame
  <2>2. jobs # {} => jobs' # {}
    BY <1>4 DEF Stalled, Pause, Expire, SweepStep, SweepExpired, SweepDelete, SweepMark,
       SweepStale, Hire, Leave
  <2>3. row.status = "QUEUED"
    BY <1>0, <1>4, RestRow DEF Turns
  <2>. QED  BY <2>1, <2>2, <2>3 DEF Awaited, Adding
<1>5. CASE UNCHANGED vars
  BY <1>5 DEF vars, Awaited, Adding
<1>. QED  BY <1>2, <1>3, <1>4, <1>5, Actors

\* A worker catches an error that a call threw, or misses a part of the file.
LEMMA Catches ==
  ASSUME TypeInv, NEW w \in Workers, Works(w), worker[w].pc # "caught",
         worker'[w].pc = "caught"
  PROVE  \/ Spend("errors")
         \/ Spend("replies")
         \/ /\ worker[w].pc = "build" /\ Len(worker[w].built) + 1 <= worker[w].parts
            /\ Len(worker[w].built) + 1 \notin DOMAIN staging
<1>0. worker \in [Workers -> WorkerType]
  BY DEF TypeInv, TypeOK
<1>. SUFFICES ASSUME ~Spend("errors"), ~Spend("replies")
              PROVE  /\ worker[w].pc = "build" /\ Len(worker[w].built) + 1 <= worker[w].parts
                     /\ Len(worker[w].built) + 1 \notin DOMAIN staging
  OBVIOUS
<1>1. ~(Take(w) \/ Start(w) \/ ReadState(w) \/ Fetch(w) \/ Checkpoint(w) \/ Finalize(w))
  BY TakeMoves, StartMoves, ReadMoves, FetchMoves, CheckpointMoves, FinalizeMoves DEF Entry
<1>2. ~(Done(w) \/ RetryLater(w) \/ StartThrows(w) \/ MarkFailedThrows(w) \/ Crash(w))
  <2>1. Done(w) \/ RetryLater(w) \/ StartThrows(w) \/ MarkFailedThrows(w) \/ Crash(w)
          => worker' = [worker EXCEPT ![w] = IdleWorker]
    BY DEF Done, RetryLater, StartThrows, MarkFailedThrows, Crash, Return, Rethrow
  <2>2. worker' = [worker EXCEPT ![w] = IdleWorker] => worker'[w].pc = "idle"
    BY <1>0 DEF IdleWorker
  <2>. QED  BY <2>1, <2>2
<1>3. ~(Claim(w) \/ Upload(w) \/ ClaimFinal(w) \/ MissedFinal(w) \/ UploadFinal(w) \/ Complete(w)
        \/ Tidy(w) \/ Wipe(w) \/ ConfirmCancel(w) \/ Park(w) \/ Throw(w) \/ MarkFailed(w))
  <2>1. Claim(w) \/ Upload(w) \/ ClaimFinal(w) \/ MissedFinal(w) \/ UploadFinal(w) \/ Complete(w)
        \/ Tidy(w) \/ Wipe(w) \/ ConfirmCancel(w) \/ Park(w) \/ MarkFailed(w)
          => \E pc \in {"read", "done", "checkpoint", "finalize", "missed", "wipe", "park",
                        "complete", "tidy", "confirmCancel"} : Goto(w, pc)
    BY DEF Claim, Upload, ClaimFinal, MissedFinal, UploadFinal, Complete, Tidy, Wipe,
       ConfirmCancel, Park, MarkFailed
  <2>2. ~\E pc \in {"read", "done", "checkpoint", "finalize", "missed", "wipe", "park",
                    "complete", "tidy", "confirmCancel"} : Goto(w, pc)
    BY Moves
  <2>3. ~Throw(w)
    BY DEF Throw
  <2>. QED  BY <2>1, <2>2, <2>3
<1>4. ~LoseLock(w)
  BY DEF LoseLock
<1>5. BuildPart(w)
  BY <1>1, <1>2, <1>3, <1>4 DEF Works, WorkerStep, WorkerFault
<1>6. Len(worker[w].built) + 1 \in DOMAIN staging => worker'[w].pc = worker[w].pc
  BY <1>0, <1>5 DEF BuildPart, WorkerType
<1>. QED  BY <1>5, <1>6 DEF BuildPart, At

\* A job nobody touches stays counted.
LEMMA CountedKept ==
  ASSUME TypeInv, Budget, [Next]_vars, NEW j \in JobType, Counted(j),
         row'.status \in Open => row.status \in Open,
         j.owner # None => worker'[j.owner].pc = worker[j.owner].pc \/ worker'[j.owner].pc # "caught"
  PROVE  Counted(j)'
<1>1. \A k \in {"crashes", "errors", "replies"} :
        Spent(k) \in Nat /\ Spent(k)' \in Nat /\ Spent(k) <= Spent(k)'
  BY SpentGrows DEF Kinds
<1>2. Tries(j)' <= Tries(j) /\ Tries(j) \in Nat /\ Tries(j)' \in Nat
  BY DEF Tries, JobType
<1>3. j.stalls \in Nat
  BY DEF JobType
<1>. QED  BY <1>1, <1>2, <1>3 DEF Counted

LEMMA CountedWorker ==
  ASSUME DeliveryInv, Undisturbed, \A j \in jobs : Counted(j), [Next]_vars,
         row'.status \in Open => row.status \in Open,
         NEW w \in Workers, Works(w), ~LoseLock(w), NEW j \in jobs'
  PROVE  Counted(j)'
<1>0. /\ TypeInv /\ Budget /\ Owned /\ InStep(w)
      /\ row.status \in Open => Staged(row.nextBatch - 1)
  BY DEF DeliveryInv, PlacedInv, SoloInv, DurableInv
<1>t. jobs \subseteq JobType /\ worker \in [Workers -> WorkerType] /\ None \notin Workers
  BY <1>0, NoneAssumption DEF TypeInv, TypeOK, NoneAssumption
<1>s. \A k \in {"crashes", "errors", "replies"} :
        /\ Spent(k) \in Nat /\ Spent(k)' \in Nat /\ Spent(k) <= Spent(k)'
        /\ Spend(k) => Spent(k)' = Spent(k) + 1
  BY <1>0, SpentGrows DEF Kinds
<1>other. ASSUME j \in jobs, j.owner # w PROVE Counted(j)'
  <2>1. j.owner # None => worker'[j.owner] = worker[j.owner]
    BY <1>0, <1>t, <1>other, OneWorker DEF JobType, Works
  <2>. QED  BY <1>0, <1>t, <1>other, <2>1, CountedKept
<1>1. CASE Take(w)
  <2>1. PICK i \in jobs : /\ i.state = "waiting" /\ worker'[w].pc = "start"
                          /\ jobs' = (jobs \ {i}) \cup {[i EXCEPT !.state = "active", !.owner = w]}
    BY <1>0, <1>1, TakeMoves
  <2>2. CASE j \in jobs /\ j.owner # w
    BY <1>other, <2>2
  <2>3. ~(j \in jobs /\ j.owner = w)
    BY <1>0, <1>1, <1>t DEF Owned, Take
  <2>4. CASE j = [i EXCEPT !.state = "active", !.owner = w]
    <3>0. i \in JobType
      BY <1>t, <2>1
    <3>1. j.stalls = i.stalls /\ j.made = i.made /\ j.state = "active" /\ j.owner = w
      BY <2>4, <3>0 DEF JobType
    <3>2. i.stalls \in Nat /\ i.made \in Nat /\ i.owner = None
      BY <1>0, <1>t, <2>1, <3>0 DEF JobType, Owned
    <3>3. Tries(j)' = i.made /\ Tries(i) = i.made
      BY <1>t, <2>1, <3>1, <3>2 DEF Tries
    <3>4. i.stalls <= Spent("crashes")
      BY <2>1, <3>2 DEF Counted
    <3>5. row.status \in Open => i.made <= Spent("errors") + Spent("replies")
      BY <2>1, <3>3 DEF Counted
    <3>. HIDE DEF Spent
    <3>. QED  BY <1>s, <1>t, <3>1, <3>2, <3>3, <3>4, <3>5 DEF Counted
  <2>. QED  BY <2>1, <2>2, <2>3, <2>4
<1>2. CASE Runs(w)
  <2>0. j \in jobs /\ j \in JobType
    BY <1>2, <1>t DEF Runs
  <2>1. CASE j.owner # w
    BY <1>other, <2>0, <2>1
  <2>2. CASE j.owner = w /\ (worker[w].pc = "caught" \/ worker'[w].pc # "caught")
    BY <1>0, <2>0, <2>2, CountedKept
  <2>3. CASE j.owner = w /\ worker[w].pc # "caught" /\ worker'[w].pc = "caught"
    <3>1. j.state = "active" /\ j.made \in Nat /\ j.stalls \in Nat /\ w # None
      BY <1>0, <1>t, <2>0, <2>3 DEF Owned, JobType
    <3>2. Tries(j) = j.made /\ Tries(j)' = j.made + 1
      BY <2>3, <3>1 DEF Tries
    <3>3. ASSUME row.status \in Open PROVE Spend("errors") \/ Spend("replies")
      <4>. SUFFICES ASSUME worker[w].pc = "build", Len(worker[w].built) + 1 <= worker[w].parts,
                           Len(worker[w].built) + 1 \notin DOMAIN staging
                    PROVE  FALSE
        BY <1>0, <2>3, Catches
      <4>1. worker[w].parts = row.nextBatch - 1
        BY <1>0, <3>3 DEF InStep
      <4>2. Len(worker[w].built) \in Nat /\ row.nextBatch \in Nat
        BY <1>0, <1>t DEF WorkerType, TypeInv, TypeOK, RowOK
      <4>. QED  BY <1>0, <3>3, <4>1, <4>2 DEF Staged
    <3>4. row.status \in Open => j.made <= Spent("errors") + Spent("replies")
      BY <2>0, <3>2 DEF Counted
    <3>5. j.stalls <= Spent("crashes")
      BY <2>0, <2>3, <3>1 DEF Counted
    <3>6. row.status \in Open => j.made + 1 <= Spent("errors")' + Spent("replies")'
      <4>. SUFFICES ASSUME row.status \in Open
                    PROVE  j.made + 1 <= Spent("errors")' + Spent("replies")'
        OBVIOUS
      <4>. QED  BY <1>s, <3>1, <3>3, <3>4
    <3>. QED  BY <1>s, <2>3, <3>1, <3>2, <3>5, <3>6 DEF Counted
  <2>. QED  BY <2>1, <2>2, <2>3
<1>3. CASE Leaves(w)
  <2>1. PICK i \in jobs :
           /\ Holds(w, i)
           /\ \/ Done(w) /\ jobs' = jobs \ {i}
              \/ /\ ~At(w, "done") \/ Crash(w)
                 /\ \E k \in JobType :
                      /\ jobs' = (jobs \ {i}) \cup {k}
                      /\ k.id = i.id /\ k.owner = None
                      /\ \/ Crash(w) /\ k.state = "active" /\ k.made = i.made /\ k.stalls = i.stalls
                         \/ /\ ~Crash(w) /\ ~At(w, "done") /\ k.made = i.made + 1 /\ k.stalls = i.stalls
                            /\ k.state = IF k.made < MaxAttempts THEN "waiting" ELSE "failed"
    BY <1>0, <1>3, LeavesJob
  <2>2. i.owner = w /\ i.state = "active" /\ i.made \in Nat /\ i.stalls \in Nat /\ w # None
    BY <1>0, <1>t, <2>1 DEF Holds, Owned, JobType
  <2>3. CASE j \in jobs /\ j # i
    <3>1. j.owner # w
      BY <1>0, <1>t, <2>1, <2>3 DEF Owned, Holds
    <3>. QED  BY <1>other, <2>3, <3>1
  <2>4. i.stalls <= Spent("crashes") /\ i.made <= Tries(i) /\ Tries(i) \in Nat
        /\ (row.status \in Open => Tries(i) <= Spent("errors") + Spent("replies"))
    BY <2>1, <2>2 DEF Counted, Tries
  <2>5. CASE j \in JobType /\ j.owner = None /\ Crash(w) /\ j.state = "active" /\ j.made = i.made
             /\ j.stalls = i.stalls
    <3>1. Spent("crashes")' = Spent("crashes") + 1
      BY <1>s, <2>5 DEF Crash
    <3>2. Tries(j)' = i.made
      BY <2>2, <2>5 DEF Tries
    <3>. QED  BY <1>s, <2>2, <2>4, <2>5, <3>1, <3>2 DEF Counted
  <2>6. CASE /\ j \in JobType /\ j.owner = None /\ j.made = i.made + 1 /\ j.stalls = i.stalls
             /\ j.state = IF j.made < MaxAttempts THEN "waiting" ELSE "failed"
             /\ ~Crash(w) /\ ~At(w, "done")
    <3>1. StartThrows(w) \/ worker[w].pc = "caught"
      BY <1>3, <2>6 DEF Leaves, Done, RetryLater, MarkFailedThrows, At
    <3>2. Tries(j)' = i.made + 1
      BY <2>2, <2>6 DEF Tries
    <3>3. row.status \in Open => i.made + 1 <= Spent("errors")' + Spent("replies")'
      <4>1. CASE StartThrows(w)
        <5>1. Spent("errors")' = Spent("errors") + 1
          BY <1>s, <4>1 DEF StartThrows
        <5>. QED  BY <1>s, <2>2, <2>4, <5>1
      <4>2. CASE worker[w].pc = "caught"
        <5>1. Tries(i) = i.made + 1
          BY <2>2, <4>2 DEF Tries
        <5>. QED  BY <1>s, <2>2, <2>4, <5>1
      <4>. QED  BY <3>1, <4>1, <4>2
    <3>4. MaxAttempts \in Nat
      BY NatAssumption DEF NatAssumption
    <3>. QED  BY <1>s, <2>2, <2>4, <2>6, <3>2, <3>3, <3>4 DEF Counted
  <2>. QED  BY <1>3, <2>1, <2>3, <2>5, <2>6 DEF Done, At
<1>. QED  BY <1>0, <1>1, <1>2, <1>3, WorkerKinds

LEMMA CountedStep ==
  ASSUME DeliveryInv, Attended', \A j \in jobs : Counted(j), [Next]_vars, NEW j \in jobs'
  PROVE  Counted(j)'
<1>0. TypeInv /\ Budget
  BY DEF DeliveryInv, PlacedInv, SoloInv
<1>t. jobs \subseteq JobType
  BY <1>0 DEF TypeInv, TypeOK
<1>1. Undisturbed /\ \A w \in Workers : ~LoseLock(w)
  BY <1>0, AttendedStep
<1>2. row'.status \in Open => row.status \in Open
  <2>1. CASE Next
    BY <1>0, <2>1, EndIsEnd
  <2>2. CASE UNCHANGED vars
    BY <2>2 DEF vars
  <2>. QED  BY <2>1, <2>2
<1>s. \A k \in {"crashes", "errors", "replies"} :
        Spent(k) \in Nat /\ Spent(k)' \in Nat /\ Spent(k) <= Spent(k)'
  BY <1>0, SpentGrows DEF Kinds
<1>3. ASSUME worker' = worker, j \in jobs PROVE Counted(j)'
  BY <1>0, <1>2, <1>3, <1>t, CountedKept
<1>4. ASSUME NEW w \in Workers, Works(w) PROVE Counted(j)'
  BY <1>1, <1>2, <1>4, CountedWorker
<1>5. ASSUME NEW r \in Requests, Serves(r) PROVE Counted(j)'
  <2>1. worker' = worker
    BY <1>5, RequestFrame
  <2>2. CASE j \in jobs
    BY <1>3, <2>1, <2>2
  <2>3. CASE j \notin jobs
    <3>1. j = [id |-> request[r].batch, state |-> "waiting", made |-> 0, stalls |-> 0,
               owner |-> None]
      BY <1>5, <2>3, RequestJobs DEF Added
    <3>2. j.state = "waiting" /\ j.made = 0 /\ j.stalls = 0 /\ j.owner = None
      BY <3>1
    <3>3. Tries(j)' = 0
      BY <3>2 DEF Tries
    <3>. QED  BY <1>s, <3>2, <3>3 DEF Counted
  <2>. QED  BY <2>2, <2>3
<1>6. CASE Stalled
  <2>1. worker' = worker
    BY <1>6, RestFrame
  <2>2. PICK i \in jobs : \E k \in JobType :
           /\ i.state = "active" /\ i.owner = None
           /\ jobs' = (jobs \ {i}) \cup {k}
           /\ k.id = i.id /\ k.owner = None /\ k.made = i.made /\ k.stalls = i.stalls + 1
           /\ k.state = IF k.stalls > MaxStalledCount THEN "failed" ELSE "waiting"
    BY <1>0, <1>6, StalledJob
  <2>3. CASE j \in jobs
    BY <1>3, <2>1, <2>3
  <2>4. CASE j \notin jobs
    <3>1. /\ j.owner = None /\ j.made = i.made /\ j.stalls = i.stalls + 1
          /\ j.state = IF j.stalls > MaxStalledCount THEN "failed" ELSE "waiting"
      BY <2>2, <2>4
    <3>2. i.stalls \in Nat /\ i.made \in Nat
      BY <1>t, <2>2 DEF JobType
    <3>3. i.stalls + 1 <= Spent("crashes")
      BY <2>2 DEF Counted
    <3>4. Tries(j)' = i.made /\ Tries(i) = i.made
      BY <2>2, <3>1, <3>2 DEF Tries
    <3>5. row.status \in Open => i.made <= Spent("errors") + Spent("replies")
      BY <2>2, <3>4 DEF Counted
    <3>. QED  BY <1>2, <1>s, <3>1, <3>2, <3>3, <3>4, <3>5 DEF Counted
  <2>. QED  BY <2>3, <2>4
<1>7. CASE Pause \/ Expire \/ SweepStep \/ \E e \in Ids : Hire(e) \/ Leave(e)
  <2>1. worker' = worker /\ jobs' = jobs
    BY <1>7 DEF Pause, Expire, SweepStep, SweepExpired, SweepDelete, SweepMark, SweepStale, Hire,
       Leave
  <2>. QED  BY <1>3, <2>1
<1>8. CASE UNCHANGED vars
  BY <1>3, <1>8 DEF vars
<1>. QED  BY <1>4, <1>5, <1>6, <1>7, <1>8, Actors

\* What the faults have used up is less than a job's attempts and stalls.
FewFaults == /\ Spent("errors") + Spent("replies") < MaxAttempts
             /\ Spent("crashes") <= MaxStalledCount

QueueInv ==
  /\ DeliveryInv
  /\ Attended => FirstJob /\ Awaited /\ \A j \in jobs : Counted(j)

\* "Never leave a forever-QUEUED orphan": not before a handler was killed, a lock
\* was lost or a job had more faults than attempts.
THEOREM NoOrphan == Spec => [](Attended /\ FewFaults => QueuedHasJob)
<1>1. Init => QueueInv
  <2>. SUFFICES ASSUME Init PROVE FirstJob /\ Awaited /\ \A j \in jobs : Counted(j)
    BY DeliveryInit DEF QueueInv
  <2>1. jobs = {} /\ row.status = "ABSENT" /\ \A r \in Requests : request[r].pc = "idle"
    BY DEF Init, FreshRow, IdleRequest
  <2>. QED  BY <2>1 DEF FirstJob, Storing, Awaited
<1>2. QueueInv /\ [Next]_vars => QueueInv'
  <2>. SUFFICES ASSUME QueueInv, [Next]_vars PROVE QueueInv'
    OBVIOUS
  <2>1. DeliveryInv /\ PlacedInv /\ TypeInv /\ Budget
    BY DEF QueueInv, DeliveryInv, PlacedInv, SoloInv
  <2>2. DeliveryInv'
    BY <2>1, DeliveryStep
  <2>3. ASSUME Attended' PROVE FirstJob' /\ Awaited' /\ \A j \in jobs' : Counted(j)'
    <3>1. Attended
      BY <2>1, <2>3, AttendedStep
    <3>. QED  BY <2>1, <2>3, <3>1, FirstJobStep, AwaitedStep, CountedStep DEF QueueInv
  <2>. QED  BY <2>2, <2>3 DEF QueueInv
<1>3. QueueInv => (Attended /\ FewFaults => QueuedHasJob)
  <2>. SUFFICES ASSUME QueueInv, Attended, FewFaults, row.status = "QUEUED"
                PROVE  \/ \E j \in jobs : j.state # "failed"
                       \/ \E r \in Requests : request[r].pc \in {"enqueue", "undo"}
    BY DEF QueuedHasJob
  <2>1. CASE \E r \in Requests : Adding(r)
    BY <2>1 DEF Adding
  <2>2. CASE jobs # {}
    <3>1. PICK j \in jobs : TRUE
      BY <2>2
    <3>2. Counted(j) /\ j \in JobType /\ TypeInv /\ Budget
      BY <3>1 DEF QueueInv, DeliveryInv, PlacedInv, SoloInv, TypeInv, TypeOK
    <3>3. j.made \in Nat /\ j.stalls \in Nat
      BY <3>2 DEF JobType
    <3>4. j.made <= Tries(j) /\ Tries(j) \in Nat
      BY <3>3 DEF Tries
    <3>5. \A k \in {"crashes", "errors", "replies"} : Spent(k) \in Int
      <4>1. left \in [Kinds -> Nat]
        BY <3>2 DEF TypeInv, TypeOK, RestOK
      <4>. QED  BY <4>1, BoundsAssumption DEF Spent, BoundsAssumption, Kinds
    <3>6. j.made < MaxAttempts
      <4>1. Tries(j) <= Spent("errors") + Spent("replies")
        BY <3>2 DEF Counted, Open, Live
      <4>. QED  BY <3>3, <3>4, <3>5, <4>1, NatAssumption DEF FewFaults, NatAssumption
    <3>7. j.stalls <= MaxStalledCount
      <4>1. j.stalls + (IF j.state = "active" /\ j.owner = None THEN 1 ELSE 0) <= Spent("crashes")
        BY <3>2 DEF Counted
      <4>. QED  BY <3>3, <3>5, <4>1, NatAssumption DEF FewFaults, NatAssumption
    <3>8. j.state # "failed"
      BY <3>2, <3>3, <3>6, <3>7, NatAssumption DEF Counted, NatAssumption
    <3>. QED  BY <3>8
  <2>. QED  BY <2>1, <2>2 DEF QueueInv, Awaited
<1>. QED  BY <1>1, <1>2, <1>3, PTL DEF Spec

================================================================================
