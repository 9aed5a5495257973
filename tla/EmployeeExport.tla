---------------------------- MODULE EmployeeExport ----------------------------
(* The life of one employee export: its database row, the objects it owns in  *)
(* storage, its BullMQ jobs, the workers that run them, the HTTP requests     *)
(* that create, pause, cancel and resume it, and the hourly sweeper.          *)
(*                                                                            *)
(* One action is what happens between two awaits: a read of the row, a        *)
(* conditional updateMany, an upload, a prefix deletion.  What a handler read *)
(* before an await is kept in the state of the worker or of the request.      *)
EXTENDS Naturals, FiniteSets, Sequences

CONSTANTS
  Workers,           \* processes that consume the export queue, one job each
  Requests,          \* API handlers that can be in flight at the same time
  Ids,               \* employee ids; the numeric order stands for "id asc"
  Initial,           \* the employees there are at the beginning
  BatchSize,         \* EMPLOYEE_EXPORT_BATCH_SIZE
  MaxAttempts,       \* EMPLOYEE_EXPORT_MAX_ATTEMPTS
  MaxStalledCount,   \* BullMQ: times a job may stall before it is failed
  RejectsColonIds,   \* whether the queue refuses a custom job id with a ":"
  CleanupBatch,      \* EMPLOYEE_EXPORT_CLEANUP_BATCH: rows the sweeper lists in one pass
  Older,             \* FAILED and CANCELLED exports that were over before this one is
  Bounds,            \* what users and faults may still do, see Kinds
  None               \* no owner

ASSUME IdsAssumption ==
  /\ Ids \subseteq Nat \ {0} /\ IsFiniteSet(Ids) /\ Initial \subseteq Ids
  /\ \A chunk \in (SUBSET Ids) \ {{}} : \E e \in chunk : \A d \in chunk : d <= e
ASSUME NoneAssumption == None \notin Workers
ASSUME NatAssumption ==
  /\ BatchSize \in Nat \ {0} /\ MaxAttempts \in Nat \ {0} /\ MaxStalledCount \in Nat
  /\ RejectsColonIds \in BOOLEAN
  /\ CleanupBatch \in Nat \ {0} /\ Older \in Nat

\* What is bounded: pause, cancel and resume requests; calls to Postgres, S3 or
\* Redis that throw and do nothing ("errors") or take effect and throw all the
\* same ("replies"); worker processes killed in the middle of a job; jobs taken
\* from a worker that goes on running ("locks"); API handlers killed between two
\* awaits ("aborts"); employees created or deleted meanwhile ("churn").
Kinds == {"requests", "errors", "replies", "crashes", "locks", "aborts", "churn"}

ASSUME BoundsAssumption == Bounds \in [Kinds -> Nat]

VARIABLES
  row,        \* the EmployeeExport row
  staging,    \* staging/part-<n>.ndjson: part number -> employees in the chunk
  final,      \* final/<file>: {} or the one file, as the chunks it was made of
  directory,  \* employee id -> "fresh" (not hired yet), "here" or "gone"
  stable,     \* employees present since the export was created (history)
  jobs,       \* the jobs the queue knows for this export
  worker,     \* worker -> what its process() call has reached and holds
  request,    \* handler -> what it has reached and holds
  sweeper,    \* the cleanup job: "idle", "delete" or "mark"
  expired,    \* expiresAt <= now
  left        \* what remains of Bounds

vars == <<row, staging, final, directory, stable, jobs, worker, request, sweeper, expired, left>>
objects == <<staging, final>>
people == <<directory, stable>>

Terminal == {"CANCELLED", "COMPLETED", "EXPIRED", "FAILED"}
InProgress == {"QUEUED", "PROCESSING", "PAUSING", "FINALIZING", "CANCELLING"}
Status == Terminal \cup InProgress \cup {"PAUSED", "ABSENT"}

Employees == {e \in Ids : directory[e] = "here"}

\* The next BatchSize employees after the cursor, in id order.
Page(cursor) ==
  LET rest == {e \in Employees : e > cursor}
  IN  {e \in rest : Cardinality({d \in rest : d < e}) < BatchSize}

Last(chunk) == CHOOSE e \in chunk : \A d \in chunk : d <= e

IdleWorker == [pc |-> "idle", job |-> 0, made |-> 0, cursor |-> 0, batch |-> 1,
               chunk |-> {}, base |-> 0, parts |-> 0, built |-> << >>]
IdleRequest == [pc |-> "idle", op |-> "none", seen |-> "ABSENT", batch |-> 0, key |-> FALSE]

\* The defaults of the table; "ABSENT" until the row is inserted.
FreshRow ==
  [status |-> "ABSENT", processedRows |-> 0, cursor |-> 0, nextBatch |-> 1, key |-> FALSE]

Init ==
  /\ row = FreshRow
  /\ staging = << >> /\ final = {}
  /\ directory = [e \in Ids |-> IF e \in Initial THEN "here" ELSE "fresh"]
  /\ stable = {}
  /\ jobs = {}
  /\ worker = [w \in Workers |-> IdleWorker]
  /\ request = [r \in Requests |-> IdleRequest]
  /\ sweeper = "idle" /\ expired = FALSE
  /\ left = Bounds

Spend(kind) == left[kind] > 0 /\ left' = [left EXCEPT ![kind] = @ - 1]

\* updateMany({where: {status: from}, data: {status: to}}); a miss changes nothing.
Flip(from, to) == row' = IF row.status = from THEN [row EXCEPT !.status = to] ELSE row

------------------------------------------------------------------------------
(* The queue.  A job keeps its id while it waits, runs, or is kept as failed; *)
(* a completed one is removed.  Adding a known id is silently ignored.        *)
(* The first job of the export is 0; the one resume adds at batch n is n.     *)

Added(id) ==
  IF \E j \in jobs : j.id = id THEN jobs
  ELSE jobs \cup {[id |-> id, state |-> "waiting", made |-> 0, stalls |-> 0, owner |-> None]}

Held(w) == {j \in jobs : j.id = worker[w].job /\ j.owner = w}

Return(w) == /\ jobs' = jobs \ Held(w)
             /\ worker' = [worker EXCEPT ![w] = IdleWorker]

\* An error leaves process(): try again later, or keep the job as failed.
Rethrow(w) ==
  /\ jobs' = (jobs \ Held(w)) \cup
       {[j EXCEPT !.made = @ + 1, !.owner = None,
                  !.state = IF j.made + 1 < MaxAttempts THEN "waiting" ELSE "failed"] :
          j \in Held(w)}
  /\ worker' = [worker EXCEPT ![w] = IdleWorker]

Release(w) == (jobs \ Held(w)) \cup {[j EXCEPT !.owner = None] : j \in Held(w)}

Take(w) ==
  /\ worker[w].pc = "idle"
  /\ \E j \in jobs :
       /\ j.state = "waiting"
       /\ jobs' = (jobs \ {j}) \cup {[j EXCEPT !.state = "active", !.owner = w]}
       /\ worker' = [worker EXCEPT ![w] = [@ EXCEPT !.pc = "start", !.job = j.id,
                                                    !.made = j.made]]
  /\ UNCHANGED <<row, objects, people, request, sweeper, expired, left>>

\* The stalled-job check of another worker finds a job nobody renews.
Stalled ==
  /\ \E j \in jobs :
       /\ j.state = "active" /\ j.owner = None
       /\ jobs' = (jobs \ {j}) \cup
            {[j EXCEPT !.stalls = @ + 1,
                       !.state = IF j.stalls + 1 > MaxStalledCount THEN "failed" ELSE "waiting"]}
  /\ UNCHANGED <<row, objects, people, worker, request, sweeper, expired, left>>

------------------------------------------------------------------------------
(* The worker: EmployeeExportsProcessor.process on an export job.             *)

At(w, pc) == worker[w].pc = pc
Goto(w, pc) == worker' = [worker EXCEPT ![w].pc = pc]

Entry(status) ==
  CASE status \in Terminal \cup {"PAUSED"} -> "done"
    [] status = "CANCELLING" -> "wipe"
    [] status = "PAUSING"    -> "park"
    [] status = "FINALIZING" -> "finalize"
    [] status = "QUEUED"     -> "claim"
    [] OTHER                 -> "read"

Start_ForgetsCursor(w) ==
  /\ At(w, "start")
  /\ worker' = [worker EXCEPT ![w] = [@ EXCEPT !.pc = Entry(row.status), !.batch = row.nextBatch]]
  /\ UNCHANGED <<row, objects, people, jobs, request, sweeper, expired, left>>

\* runExport reads the row and branches; cursor and batch come from this read.
Start(w) ==
  /\ At(w, "start")
  /\ worker' = [worker EXCEPT ![w] = [@ EXCEPT !.pc = Entry(row.status), !.cursor = row.cursor,
                                               !.batch = row.nextBatch]]
  /\ UNCHANGED <<row, objects, people, jobs, request, sweeper, expired, left>>

\* That first read is before the try block: its error is never caught.
StartThrows(w) ==
  /\ At(w, "start") /\ Spend("errors") /\ Rethrow(w)
  /\ UNCHANGED <<row, objects, people, request, sweeper, expired>>

Claim(w) ==
  /\ At(w, "claim")
  /\ Flip("QUEUED", "PROCESSING")
  /\ Goto(w, IF row.status = "QUEUED" THEN "read" ELSE "done")
  /\ UNCHANGED <<objects, people, jobs, request, sweeper, expired, left>>

ReadState_StaleBase(w) ==
  /\ At(w, "read")
  /\ Goto(w, CASE row.status = "CANCELLING" -> "wipe"
               [] row.status = "PAUSING"    -> "park"
               [] OTHER                     -> "fetch")
  /\ UNCHANGED <<row, objects, people, jobs, request, sweeper, expired, left>>

\* Top of the extraction loop: only CANCELLING and PAUSING stop it.
ReadState(w) ==
  /\ At(w, "read")
  /\ worker' = [worker EXCEPT ![w] =
       [@ EXCEPT !.base = row.processedRows,
                 !.pc = CASE row.status = "CANCELLING" -> "wipe"
                          [] row.status = "PAUSING"    -> "park"
                          [] OTHER                     -> "fetch"]]
  /\ UNCHANGED <<row, objects, people, jobs, request, sweeper, expired, left>>

Fetch(w) ==
  LET page == Page(worker[w].cursor) IN
  /\ At(w, "fetch")
  /\ worker' = [worker EXCEPT ![w] =
       [@ EXCEPT !.chunk = page, !.pc = IF page = {} THEN "claimFinal" ELSE "upload"]]
  /\ UNCHANGED <<row, objects, people, jobs, request, sweeper, expired, left>>

Upload(w) ==
  /\ At(w, "upload")
  /\ staging' = [p \in DOMAIN staging \cup {worker[w].batch} |->
                   IF p = worker[w].batch THEN worker[w].chunk ELSE staging[p]]
  /\ Goto(w, "checkpoint")
  /\ UNCHANGED <<row, final, people, jobs, request, sweeper, expired, left>>

\* The checkpoint does not look at the status of the row.
Checkpoint(w) ==
  LET me == worker[w] IN
  /\ At(w, "checkpoint")
  /\ row' = [row EXCEPT !.cursor = Last(me.chunk), !.nextBatch = me.batch + 1,
                        !.processedRows = me.base + Cardinality(me.chunk)]
  /\ worker' = [worker EXCEPT ![w] = [@ EXCEPT !.pc = "read", !.cursor = Last(me.chunk),
                                               !.batch = me.batch + 1, !.chunk = {}]]
  /\ UNCHANGED <<objects, people, jobs, request, sweeper, expired, left>>

ClaimFinal(w) ==
  /\ At(w, "claimFinal")
  /\ Flip("PROCESSING", "FINALIZING")
  /\ Goto(w, IF row.status = "PROCESSING" THEN "finalize" ELSE "missed")
  /\ UNCHANGED <<objects, people, jobs, request, sweeper, expired, left>>

MissedFinal_OnlyCancel(w) ==
  /\ At(w, "missed")
  /\ Goto(w, IF row.status = "CANCELLING" THEN "wipe" ELSE "done")
  /\ UNCHANGED <<row, objects, people, jobs, request, sweeper, expired, left>>

\* A pause or a cancel came after the last batch.
MissedFinal(w) ==
  /\ At(w, "missed")
  /\ Goto(w, CASE row.status = "CANCELLING" -> "wipe"
               [] row.status = "PAUSING"    -> "park"
               [] OTHER                     -> "done")
  /\ UNCHANGED <<row, objects, people, jobs, request, sweeper, expired, left>>

Finalize(w) ==
  /\ At(w, "finalize")
  /\ worker' = [worker EXCEPT ![w] =
       [@ EXCEPT !.parts = row.nextBatch - 1, !.built = << >>,
                 !.pc = IF row.status \in Terminal THEN "done" ELSE "build"]]
  /\ UNCHANGED <<row, objects, people, jobs, request, sweeper, expired, left>>

\* iterateStagedRows downloads the parts one after the other; a missing one throws.
BuildPart(w) ==
  LET part == Len(worker[w].built) + 1 IN
  /\ At(w, "build") /\ part <= worker[w].parts
  /\ IF part \in DOMAIN staging
     THEN worker' = [worker EXCEPT ![w].built = Append(@, staging[part])]
     ELSE Goto(w, "caught")
  /\ UNCHANGED <<row, objects, people, jobs, request, sweeper, expired, left>>

UploadFinal(w) ==
  /\ At(w, "build") /\ Len(worker[w].built) = worker[w].parts
  /\ final' = {worker[w].built}
  /\ Goto(w, "complete")
  /\ UNCHANGED <<row, staging, people, jobs, request, sweeper, expired, left>>

Complete(w) ==
  /\ At(w, "complete")
  /\ row' = IF row.status = "FINALIZING" THEN [row EXCEPT !.status = "COMPLETED", !.key = TRUE]
            ELSE row
  /\ Goto(w, IF row.status = "FINALIZING" THEN "tidy" ELSE "done")
  /\ UNCHANGED <<objects, people, jobs, request, sweeper, expired, left>>

\* The staged chunks are redundant now; a failure to delete them is only logged.
Tidy(w) ==
  /\ At(w, "tidy")
  /\ \/ staging' = << >> /\ UNCHANGED left
     \/ Spend("errors") /\ UNCHANGED staging
  /\ Goto(w, "done")
  /\ UNCHANGED <<row, final, people, jobs, request, sweeper, expired>>

\* cancelCleanup deletes everything under the export's prefix, then ...
Wipe(w) ==
  /\ At(w, "wipe")
  /\ staging' = << >> /\ final' = {}
  /\ Goto(w, "confirmCancel")
  /\ UNCHANGED <<row, people, jobs, request, sweeper, expired, left>>

\* ... says so.  The reply of the update may be lost after it was committed.
ConfirmCancel(w) ==
  /\ At(w, "confirmCancel")
  /\ Flip("CANCELLING", "CANCELLED")
  /\ \/ Goto(w, "done") /\ UNCHANGED left
     \/ Goto(w, "caught") /\ Spend("replies")
  /\ UNCHANGED <<objects, people, jobs, request, sweeper, expired>>

Park(w) ==
  /\ At(w, "park")
  /\ Flip("PAUSING", "PAUSED")
  /\ \/ Goto(w, "done") /\ UNCHANGED left
     \/ Goto(w, "caught") /\ Spend("replies")
  /\ UNCHANGED <<objects, people, jobs, request, sweeper, expired>>

\* A call throws and has no effect.  A call that throws after its effect, where
\* another call follows, is the step itself and then this one.
Throw(w) ==
  /\ worker[w].pc \in {"claim", "read", "fetch", "upload", "checkpoint", "claimFinal", "missed",
                       "finalize", "build", "complete", "wipe", "confirmCancel", "park"}
  /\ Spend("errors")
  /\ Goto(w, "caught")
  /\ UNCHANGED <<row, objects, people, jobs, request, sweeper, expired>>

RetryLater(w) ==
  /\ At(w, "caught") /\ worker[w].made < MaxAttempts - 1
  /\ Rethrow(w)
  /\ UNCHANGED <<row, objects, people, request, sweeper, expired, left>>

MarkFailed(w) ==
  /\ At(w, "caught") /\ worker[w].made >= MaxAttempts - 1
  /\ row' = IF row.status \in InProgress THEN [row EXCEPT !.status = "FAILED"] ELSE row
  /\ Goto(w, "done")
  /\ UNCHANGED <<objects, people, jobs, request, sweeper, expired, left>>

\* The update to FAILED can throw as well, and nothing catches that.
MarkFailedThrows(w) ==
  /\ At(w, "caught") /\ worker[w].made >= MaxAttempts - 1
  /\ Spend("errors") /\ Rethrow(w)
  /\ UNCHANGED <<row, objects, people, request, sweeper, expired>>

Done(w) ==
  /\ At(w, "done")
  /\ Return(w)
  /\ UNCHANGED <<row, objects, people, request, sweeper, expired, left>>

\* The process is killed: what it held is lost and its job stalls.
Crash(w) ==
  /\ ~At(w, "idle") /\ Spend("crashes")
  /\ jobs' = Release(w)
  /\ worker' = [worker EXCEPT ![w] = IdleWorker]
  /\ UNCHANGED <<row, objects, people, request, sweeper, expired>>

\* The worker is too slow to renew its lock; it goes on without knowing.
LoseLock(w) ==
  /\ Held(w) # {} /\ Spend("locks")
  /\ jobs' = Release(w)
  /\ UNCHANGED <<row, objects, people, worker, request, sweeper, expired>>

WorkerStep(w) ==
  \/ Start(w) \/ Claim(w) \/ ReadState(w) \/ Fetch(w) \/ Upload(w) \/ Checkpoint(w)
  \/ ClaimFinal(w) \/ MissedFinal(w) \/ Finalize(w) \/ BuildPart(w) \/ UploadFinal(w)
  \/ Complete(w) \/ Tidy(w) \/ Wipe(w) \/ ConfirmCancel(w) \/ Park(w)
  \/ RetryLater(w) \/ MarkFailed(w) \/ Done(w)

WorkerFault(w) ==
  StartThrows(w) \/ Throw(w) \/ MarkFailedThrows(w) \/ Crash(w) \/ LoseLock(w)

------------------------------------------------------------------------------
(* The API: EmployeeExportsService.                                           *)

CreateRow(r) ==
  /\ request[r].pc = "idle" /\ row.status = "ABSENT"
  /\ row' = [row EXCEPT !.status = "QUEUED"]
  /\ stable' = Employees
  /\ request' = [request EXCEPT ![r] = [IdleRequest EXCEPT !.op = "create", !.pc = "enqueue"]]
  /\ UNCHANGED <<objects, directory, jobs, worker, sweeper, expired, left>>

Pause_AtOnce ==
  /\ row.status = "PROCESSING" /\ Spend("requests")
  /\ Flip("PROCESSING", "PAUSED")
  /\ UNCHANGED <<objects, people, jobs, worker, request, sweeper, expired>>

\* Pausing is a single conditional update after the ownership check.
Pause ==
  /\ row.status = "PROCESSING" /\ Spend("requests")
  /\ Flip("PROCESSING", "PAUSING")
  /\ UNCHANGED <<objects, people, jobs, worker, request, sweeper, expired>>

CancelRead_AnyTime(r) ==
  /\ request[r].pc = "idle" /\ Spend("requests")
  /\ row.status \notin Terminal \cup {"ABSENT"}
  /\ request' = [request EXCEPT ![r] =
       [IdleRequest EXCEPT !.op = "cancel", !.seen = row.status, !.key = row.key,
          !.pc = IF row.status \in {"QUEUED", "PAUSED"} THEN "cancelNow" ELSE "askCancel"]]
  /\ UNCHANGED <<row, objects, people, jobs, worker, sweeper, expired>>

CancelRead(r) ==
  /\ request[r].pc = "idle" /\ Spend("requests")
  /\ row.status \in {"QUEUED", "PAUSED", "PROCESSING", "PAUSING", "CANCELLING"}
  /\ request' = [request EXCEPT ![r] =
       [IdleRequest EXCEPT !.op = "cancel", !.seen = row.status, !.key = row.key,
          !.pc = IF row.status \in {"QUEUED", "PAUSED"} THEN "cancelNow" ELSE "askCancel"]]
  /\ UNCHANGED <<row, objects, people, jobs, worker, sweeper, expired>>

CancelNow_IgnoresCount(r) ==
  /\ request[r].pc = "cancelNow"
  /\ Flip(request[r].seen, "CANCELLED")
  /\ request' = [request EXCEPT ![r].pc = "cleanup"]
  /\ UNCHANGED <<objects, people, jobs, worker, sweeper, expired, left>>

\* No worker is at it: the request cancels, and cleans up if its update won.
CancelNow(r) ==
  /\ request[r].pc = "cancelNow"
  /\ Flip(request[r].seen, "CANCELLED")
  /\ request' = [request EXCEPT ![r] =
       IF row.status = @.seen THEN [@ EXCEPT !.pc = "cleanup"] ELSE IdleRequest]
  /\ UNCHANGED <<objects, people, jobs, worker, sweeper, expired, left>>

Cleanup(r) ==
  /\ request[r].pc = "cleanup"
  /\ staging' = << >>
  /\ final' = IF request[r].key THEN {} ELSE final
  /\ request' = [request EXCEPT ![r] = IdleRequest]
  /\ UNCHANGED <<row, people, jobs, worker, sweeper, expired, left>>

AskCancel_AtOnce(r) ==
  /\ request[r].pc = "askCancel"
  /\ Flip(request[r].seen, "CANCELLED")
  /\ request' = [request EXCEPT ![r] = IdleRequest]
  /\ UNCHANGED <<objects, people, jobs, worker, sweeper, expired, left>>

AskCancel_Unconditional(r) ==
  /\ request[r].pc = "askCancel"
  /\ row' = [row EXCEPT !.status = "CANCELLING"]
  /\ request' = [request EXCEPT ![r] = IdleRequest]
  /\ UNCHANGED <<objects, people, jobs, worker, sweeper, expired, left>>

\* A worker is at it: leave it a flag, if the status is still the one read.
AskCancel(r) ==
  /\ request[r].pc = "askCancel"
  /\ Flip(request[r].seen, "CANCELLING")
  /\ request' = [request EXCEPT ![r] = IdleRequest]
  /\ UNCHANGED <<objects, people, jobs, worker, sweeper, expired, left>>

ResumeRead(r) ==
  /\ request[r].pc = "idle" /\ Spend("requests")
  /\ row.status \notin Terminal \cup {"ABSENT"}
  /\ request' = [request EXCEPT ![r] =
       [IdleRequest EXCEPT !.op = "resume", !.pc = "resume", !.batch = row.nextBatch]]
  /\ UNCHANGED <<row, objects, people, jobs, worker, sweeper, expired>>

ResumeClaim_Unconditional(r) ==
  /\ request[r].pc = "resume"
  /\ row' = [row EXCEPT !.status = "QUEUED"]
  /\ request' = [request EXCEPT ![r].pc = "enqueue"]
  /\ UNCHANGED <<objects, people, jobs, worker, sweeper, expired, left>>

ResumeClaim(r) ==
  /\ request[r].pc = "resume"
  /\ Flip("PAUSED", "QUEUED")
  /\ request' = [request EXCEPT ![r] =
       IF row.status = "PAUSED" THEN [@ EXCEPT !.pc = "enqueue"] ELSE IdleRequest]
  /\ UNCHANGED <<objects, people, jobs, worker, sweeper, expired, left>>

Refused(r) == request[r].op = "resume" /\ RejectsColonIds

Enqueue(r) ==
  /\ request[r].pc = "enqueue" /\ ~Refused(r)
  /\ jobs' = Added(request[r].batch)
  /\ request' = [request EXCEPT ![r] = IdleRequest]
  /\ UNCHANGED <<row, objects, people, worker, sweeper, expired, left>>

\* "<id>:resume:<n>" is refused by the queue before anything is stored.
EnqueueRefused(r) ==
  /\ request[r].pc = "enqueue" /\ Refused(r)
  /\ request' = [request EXCEPT ![r].pc = "undo"]
  /\ UNCHANGED <<row, objects, people, jobs, worker, sweeper, expired, left>>

\* Redis is down, or it stored the job and the reply was lost.
EnqueueThrows(r) ==
  /\ request[r].pc = "enqueue" /\ ~Refused(r)
  /\ \/ Spend("errors") /\ UNCHANGED jobs
     \/ Spend("replies") /\ jobs' = Added(request[r].batch)
  /\ request' = [request EXCEPT ![r].pc = "undo"]
  /\ UNCHANGED <<row, objects, people, worker, sweeper, expired>>

Undo_Forgotten(r) ==
  /\ request[r].pc = "undo"
  /\ request' = [request EXCEPT ![r] = IdleRequest]
  /\ UNCHANGED <<row, objects, people, jobs, worker, sweeper, expired, left>>

\* create marks the row FAILED whatever its status is by now; resume restores
\* PAUSED only over its own QUEUED.
Undo(r) ==
  /\ request[r].pc = "undo"
  /\ IF request[r].op = "create" THEN row' = [row EXCEPT !.status = "FAILED"]
                                 ELSE Flip("QUEUED", "PAUSED")
  /\ request' = [request EXCEPT ![r] = IdleRequest]
  /\ UNCHANGED <<objects, people, jobs, worker, sweeper, expired, left>>

\* The API process dies, or one of the handler's own calls throws.
Abort(r) ==
  /\ request[r].pc # "idle" /\ Spend("aborts")
  /\ request' = [request EXCEPT ![r] = IdleRequest]
  /\ UNCHANGED <<row, objects, people, jobs, worker, sweeper, expired>>

RequestStep(r) ==
  \/ CancelNow(r) \/ Cleanup(r) \/ AskCancel(r) \/ ResumeClaim(r)
  \/ Enqueue(r) \/ EnqueueRefused(r) \/ Undo(r)

RequestBegin(r) == CreateRow(r) \/ CancelRead(r) \/ ResumeRead(r)

RequestFault(r) == EnqueueThrows(r) \/ Abort(r)

------------------------------------------------------------------------------
(* The hourly sweeper (runCleanup), the clock and the rest of the tenant.     *)

Quiet == /\ \A w \in Workers : At(w, "idle")
         /\ \A r \in Requests : request[r].pc = "idle"
         /\ \A j \in jobs : j.state = "failed"

\* Only a completed export is ever compared with its expiry.
Expire ==
  /\ ~expired /\ row.status = "COMPLETED"
  /\ expired' = TRUE
  /\ UNCHANGED <<row, objects, people, jobs, worker, request, sweeper, left>>

SweepExpired ==
  /\ sweeper = "idle" /\ row.status = "COMPLETED" /\ expired
  /\ sweeper' = "delete"
  /\ UNCHANGED <<row, objects, people, jobs, worker, request, expired, left>>

SweepDelete_FinalOnly ==
  /\ sweeper = "delete"
  /\ final' = {} /\ sweeper' = "mark"
  /\ UNCHANGED <<row, staging, people, jobs, worker, request, expired, left>>

\* One of the deletions may fail: the row is left for the next hour.
SweepDelete ==
  /\ sweeper = "delete"
  /\ \/ staging' = << >> /\ final' = {} /\ sweeper' = "mark" /\ UNCHANGED left
     \/ Spend("errors") /\ staging' \in {staging, << >>} /\ sweeper' = "idle" /\ UNCHANGED final
  /\ UNCHANGED <<row, people, jobs, worker, request, expired>>

SweepMark ==
  /\ sweeper = "mark"
  /\ Flip("COMPLETED", "EXPIRED")
  /\ sweeper' = "idle"
  /\ UNCHANGED <<objects, people, jobs, worker, request, expired, left>>

\* Mutant: only the exports that have a file are looked at.
SweepStale_WithFile ==
  /\ sweeper = "idle" /\ row.status \in {"FAILED", "CANCELLED"} /\ Quiet
  /\ Older < CleanupBatch /\ row.key
  /\ staging' = << >> /\ final' = {}
  /\ UNCHANGED <<row, people, jobs, worker, request, sweeper, expired, left>>

\* Rows untouched for seven days: by then nothing that handled them still runs.  A pass
\* lists the oldest first and marks none, so the older ones stay in front for ever.
SweepStale ==
  /\ sweeper = "idle" /\ row.status \in {"FAILED", "CANCELLED"} /\ Quiet
  /\ Older < CleanupBatch
  /\ staging' = << >>
  /\ final' = IF row.key THEN {} ELSE final
  /\ UNCHANGED <<row, people, jobs, worker, request, sweeper, expired, left>>

Hire(e) ==
  /\ directory[e] = "fresh" /\ Spend("churn")
  /\ directory' = [directory EXCEPT ![e] = "here"]
  /\ UNCHANGED <<row, objects, stable, jobs, worker, request, sweeper, expired>>

Leave(e) ==
  /\ directory[e] = "here" /\ Spend("churn")
  /\ directory' = [directory EXCEPT ![e] = "gone"]
  /\ stable' = stable \ {e}
  /\ UNCHANGED <<row, objects, jobs, worker, request, sweeper, expired>>

SweepStep == SweepExpired \/ SweepDelete \/ SweepMark \/ SweepStale

Next ==
  \/ \E w \in Workers : Take(w) \/ WorkerStep(w) \/ WorkerFault(w)
  \/ \E r \in Requests : RequestBegin(r) \/ RequestStep(r) \/ RequestFault(r)
  \/ Stalled \/ Pause \/ Expire \/ SweepStep
  \/ \E e \in Ids : Hire(e) \/ Leave(e)

Spec == Init /\ [][Next]_vars

\* Processes that run go on running, the queue delivers and detects stalled
\* jobs, the sweeper comes every hour and time passes.  That the sweeper comes
\* does not mean that it reaches this row: see the guard of SweepStale.  Users,
\* faults and the directory owe nothing.
Fairness ==
  /\ \A w \in Workers : WF_vars(Take(w)) /\ WF_vars(WorkerStep(w))
  /\ \A r \in Requests : WF_vars(RequestStep(r))
  /\ WF_vars(Stalled) /\ WF_vars(Expire) /\ WF_vars(SweepStep)

FairSpec == Spec /\ Fairness

------------------------------------------------------------------------------
(* What an export promises.                                                   *)

Live == {"QUEUED", "PROCESSING", "PAUSING", "PAUSED", "FINALIZING"}

Extracting == {"read", "fetch", "upload", "checkpoint", "claimFinal", "missed",
               "finalize", "build", "complete"}

JobType == [id : Nat, state : {"waiting", "active", "failed"}, made : Nat, stalls : Nat,
            owner : Workers \cup {None}]

WorkerPc == Extracting \cup {"idle", "start", "claim", "tidy", "wipe", "confirmCancel", "park",
                             "caught", "done"}

WorkerType ==
  [pc : WorkerPc, job : Nat, made : Nat, cursor : Nat, batch : Nat \ {0}, chunk : SUBSET Ids,
   base : Nat, parts : Nat, built : Seq(SUBSET Ids)]

RequestType ==
  [pc : {"idle", "enqueue", "cancelNow", "cleanup", "askCancel", "resume", "undo"},
   op : {"none", "create", "cancel", "resume"}, seen : Status, batch : Nat, key : BOOLEAN]

RowOK == row \in [status : Status, processedRows : Nat, cursor : Nat, nextBatch : Nat \ {0},
                  key : BOOLEAN]

ObjectsOK == /\ DOMAIN staging \subseteq Nat
             /\ \A p \in DOMAIN staging : staging[p] \subseteq Ids
             /\ final \subseteq Seq(SUBSET Ids)

PeopleOK == directory \in [Ids -> {"fresh", "here", "gone"}] /\ stable \subseteq Ids

RestOK ==
  /\ sweeper \in {"idle", "delete", "mark"} /\ expired \in BOOLEAN
  /\ left \in [Kinds -> Nat]

\* The type of every variable: the columns of the row, the objects, the queue
\* and what workers and handlers hold across an await.
TypeOK ==
  /\ RowOK /\ ObjectsOK /\ PeopleOK /\ RestOK
  /\ jobs \subseteq JobType
  /\ worker \in [Workers -> WorkerType]
  /\ request \in [Requests -> RequestType]

\* "Checkpoint only after the chunk is durable" (processor 198), across retries,
\* zombies and cancellation: as long as the export can still be finished, every
\* part the checkpoint counts is in storage.
CheckpointDurable ==
  row.status \in Live => \A p \in 1 .. row.nextBatch - 1 : p \in DOMAIN staging

InOrder(file) ==
  \A p, q \in DOMAIN file : p < q => \A d \in file[p], e \in file[q] : d < e

\* What a user can download is there and whole: every employee present from the
\* request to the end is in it, none twice, in id order (the keyset cursor,
\* extract 142-212, finalize 257-281).
DownloadableIsWhole ==
  row.status = "COMPLETED" /\ ~expired =>
    /\ row.key /\ final # {}
    /\ \A file \in final :
         InOrder(file) /\ stable \subseteq UNION {file[p] : p \in DOMAIN file}

\* Whatever was retried or resumed, the row counts exactly the rows staged up to
\* its checkpoint (processedRows is read at the top of the loop and written after
\* the upload, processor 146 and 196-203).
ProgressExact ==
  row.status \in Live =>
    row.processedRows =
      Cardinality({x \in (1 .. row.nextBatch - 1) \X Ids : x[2] \in staging[x[1]]})

\* "Only one resumed worker can ever exist" (service 154): no two workers
\* extract or finalize the export at the same time.
SingleExtractor ==
  \A v, w \in Workers :
    worker[v].pc \in Extracting /\ worker[w].pc \in Extracting => v = w

\* A pause is a pause: while the row says PAUSED nobody stages a chunk, moves
\* the checkpoint or builds the file, and no chunk is lost.
PausedIsQuiet ==
  [][row.status = "PAUSED" /\ row'.status = "PAUSED" =>
       row' = row /\ staging' = staging /\ final' = final]_vars

\* A cancelled export only loses objects: nothing an upload was doing meanwhile
\* brings employee data back after the row says CANCELLED.
CancelledStaysClean ==
  [][row.status = "CANCELLED" =>
       DOMAIN staging' \subseteq DOMAIN staging /\ final' \subseteq final]_vars

\* "DB state is authoritative: stale redeliveries of terminal work exit"
\* (processor 78): a terminal row keeps its checkpoint and never becomes active
\* again, and a result is lost only to expiry.  (A create whose enqueue failed may
\* still turn a row its user cancelled meanwhile from CANCELLED into FAILED.)
TerminalIsFinal ==
  [][row.status \in Terminal =>
       \/ row' = row
       \/ row.status = "COMPLETED" /\ row' = [row EXCEPT !.status = "EXPIRED"]
       \/ row.status = "CANCELLED" /\ row' = [row EXCEPT !.status = "FAILED"]]_vars

\* A file that can be downloaded is never rewritten or deleted under its users.
DownloadIsStable ==
  [][row.status = "COMPLETED" /\ ~expired /\ row'.status = "COMPLETED" => final' = final]_vars

\* The export keeps the promise of ExportLife.  Its user sees PAUSING as running
\* and a queued export as a paused one; the log is what the checkpoint counts, and
\* the file what a download (service 186-208) gets before the link expires.
Stage ==
  CASE row.status = "ABSENT"                   -> "none"
    [] row.status \in {"QUEUED", "PAUSED"}      -> "resting"
    [] row.status \in {"PROCESSING", "PAUSING"} -> "running"
    [] row.status = "FINALIZING"               -> "closing"
    [] row.status = "CANCELLING"               -> "cancelling"
    [] row.status \in {"CANCELLED", "FAILED"}   -> "over"
    [] row.status = "COMPLETED" /\ ~expired    -> "delivered"
    [] OTHER                                   -> "expired"

Sealed == [p \in 1 .. row.nextBatch - 1 |-> staging[p]]

Log == IF row.status \in Live THEN Sealed ELSE << >>
File == IF Stage = "delivered" THEN CHOOSE object \in final : TRUE ELSE << >>

Life == INSTANCE ExportLife WITH stage <- Stage, log <- Log, file <- File, due <- stable
KeepsPromise == Life!Spec

\* "Never leave a forever-QUEUED orphan" (service 85): a queued export has a job
\* that will run, or a request about to add one.
QueuedHasJob ==
  row.status = "QUEUED" =>
    \/ \E j \in jobs : j.state # "failed"
    \/ \E r \in Requests : request[r].pc \in {"enqueue", "undo"}

\* Work that started comes to a rest: parked, flagged for cancellation or over.
WorkSettles ==
  row.status \in {"QUEUED", "PROCESSING", "PAUSING", "FINALIZING"} ~>
    row.status \in Terminal \cup {"PAUSED", "CANCELLING"}

\* Chunks of an export that is over do not stay for ever: those of an expired one in
\* any case, those of a failed or cancelled one if fewer than a batch of such exports
\* were over before it (with more they do stay).
StagingSwept ==
  (row.status = "EXPIRED" \/ (row.status \in {"CANCELLED", "FAILED"} /\ Older < CleanupBatch))
    ~> staging = << >>

==============================================================================
