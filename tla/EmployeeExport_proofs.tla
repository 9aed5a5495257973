------------------------- MODULE EmployeeExport_proofs -------------------------
(* Theorems about EmployeeExport for every number of workers, requests,       *)
(* employees and faults.                                                      *)
EXTENDS EmployeeExport, FiniteSetTheorems, TLAPS

------------------------------------------------------------------------------
(* Type correctness.                                                          *)

\* A worker that is about to upload or to checkpoint holds a chunk with rows.
ChunkFetched ==
  \A w \in Workers : worker[w].pc \in {"upload", "checkpoint"} => worker[w].chunk # {}

TypeInv == TypeOK /\ ChunkFetched

\* The cursor moves to an employee of the chunk, and the chunk has a size.
LEMMA ChunkFacts ==
  ASSUME NEW chunk \in SUBSET Ids
  PROVE  /\ Cardinality(chunk) \in Nat
         /\ chunk # {} => Last(chunk) \in chunk /\ Last(chunk) \in Nat
<1>1. IsFiniteSet(chunk)
  BY IdsAssumption, FS_Subset DEF IdsAssumption
<1>2. Cardinality(chunk) \in Nat
  BY <1>1, FS_CardinalityType
<1>3. chunk # {} => Last(chunk) \in chunk
  BY IdsAssumption DEF IdsAssumption, Last
<1> QED
  BY <1>2, <1>3, IdsAssumption DEF IdsAssumption

\* Idle workers and idle handlers have the type of workers and handlers.
LEMMA IdleTyped == IdleWorker \in WorkerType /\ IdleRequest \in RequestType
<1>1. IdleWorker \in WorkerType
  BY DEF IdleWorker, WorkerType, WorkerPc
<1>2. IdleRequest \in RequestType
  BY DEF IdleRequest, RequestType, Status
<1> QED
  BY <1>1, <1>2

\* The initial state is typed.
LEMMA TypeInit == Init => TypeInv
<1> SUFFICES ASSUME Init PROVE TypeInv
  OBVIOUS
<1>1. RowOK
  BY DEF Init, FreshRow, RowOK, Status
<1>2. ObjectsOK /\ PeopleOK
  BY DEF Init, ObjectsOK, PeopleOK
<1>3. RestOK
  BY BoundsAssumption DEF BoundsAssumption, Init, RestOK
<1>4. ChunkFetched
  BY DEF Init, ChunkFetched, IdleWorker
<1> QED
  BY <1>1, <1>2, <1>3, <1>4, IdleTyped DEF Init, TypeInv, TypeOK

\* A step that gives one worker a new state, not on its way to an upload.
LEMMA SetWorker ==
  ASSUME worker \in [Workers -> WorkerType], ChunkFetched, NEW w \in Workers,
         NEW v \in WorkerType, v.pc \in {"upload", "checkpoint"} => v.chunk # {},
         worker' = [worker EXCEPT ![w] = v]
  PROVE  worker' \in [Workers -> WorkerType] /\ ChunkFetched'
<1>1. worker' \in [Workers -> WorkerType]
  OBVIOUS
<1>2. worker'[w] = v /\ \A u \in Workers : u # w => worker'[u] = worker[u]
  OBVIOUS
<1> QED
  BY <1>1, <1>2 DEF ChunkFetched

\* A step that only moves a worker to another pc.
LEMMA SetPc ==
  ASSUME worker \in [Workers -> WorkerType], ChunkFetched, NEW w \in Workers, NEW pc \in WorkerPc,
         pc \in {"upload", "checkpoint"} => worker[w].chunk # {}, Goto(w, pc)
  PROVE  worker' \in [Workers -> WorkerType] /\ ChunkFetched'
<1>1. worker' \in [Workers -> WorkerType]
  BY DEF Goto, WorkerType
<1>2. ChunkFetched'
  BY DEF Goto, WorkerType, ChunkFetched
<1> QED
  BY <1>1, <1>2

\* Every step of a worker leaves the workers typed.
LEMMA TypeWorker ==
  ASSUME TypeInv, NEW w \in Workers, Take(w) \/ WorkerStep(w) \/ WorkerFault(w)
  PROVE  worker' \in [Workers -> WorkerType] /\ ChunkFetched'
<1>0. /\ worker \in [Workers -> WorkerType] /\ worker[w] \in WorkerType /\ ChunkFetched
      /\ row.cursor \in Nat /\ row.nextBatch \in Nat \ {0} /\ row.processedRows \in Nat
      /\ row.status \in Status
  BY DEF TypeInv, TypeOK, RowOK
<1> USE <1>0
<1> DEFINE Typed == worker' \in [Workers -> WorkerType] /\ ChunkFetched'
<1>idle. ASSUME worker' = [worker EXCEPT ![w] = IdleWorker] PROVE Typed
  BY <1>idle, SetWorker, IdleTyped DEF IdleWorker
<1>1. CASE Take(w)
  <2>1. PICK j \in jobs :
          worker' = [worker EXCEPT ![w] = [@ EXCEPT !.pc = "start", !.job = j.id, !.made = j.made]]
    BY <1>1 DEF Take
  <2> DEFINE v == [worker[w] EXCEPT !.pc = "start", !.job = j.id, !.made = j.made]
  <2>2. j.id \in Nat /\ j.made \in Nat
    BY DEF TypeInv, TypeOK, JobType
  <2>3. v \in WorkerType
    BY <2>2, Zenon DEF WorkerType, WorkerPc
  <2>4. v.pc = "start"
    BY DEF WorkerType
  <2>5. worker' = [worker EXCEPT ![w] = v]
    BY <2>1
  <2> QED
    BY <2>3, <2>4, <2>5, SetWorker
<1>2. CASE Start(w)
  <2> DEFINE pc == Entry(row.status)
             v == [worker[w] EXCEPT !.pc = pc, !.cursor = row.cursor, !.batch = row.nextBatch]
  <2>1. pc \in WorkerPc /\ pc \notin {"upload", "checkpoint"}
    BY DEF Entry, WorkerPc, Extracting
  <2>2. worker' = [worker EXCEPT ![w] = v]
    BY <1>2 DEF Start
  <2> HIDE DEF pc
  <2>3. v \in WorkerType
    BY <2>1, Zenon DEF WorkerType
  <2>4. v.pc = pc
    BY DEF WorkerType
  <2> QED
    BY <2>1, <2>2, <2>3, <2>4, SetWorker
<1>3. CASE ReadState(w)
  <2> DEFINE pc == CASE row.status = "CANCELLING" -> "wipe"
                     [] row.status = "PAUSING"    -> "park"
                     [] OTHER                     -> "fetch"
             v == [worker[w] EXCEPT !.base = row.processedRows, !.pc = pc]
  <2>1. pc \in WorkerPc /\ pc \notin {"upload", "checkpoint"}
    BY DEF WorkerPc, Extracting
  <2>2. worker' = [worker EXCEPT ![w] = v]
    BY <1>3 DEF ReadState
  <2> HIDE DEF pc
  <2>3. v \in WorkerType
    BY <2>1, Zenon DEF WorkerType
  <2>4. v.pc = pc
    BY DEF WorkerType
  <2> QED
    BY <2>1, <2>2, <2>3, <2>4, SetWorker
<1>4. CASE Fetch(w)
  <2> DEFINE page == Page(worker[w].cursor)
             pc == IF page = {} THEN "claimFinal" ELSE "upload"
             v == [worker[w] EXCEPT !.chunk = page, !.pc = pc]
  <2>1. page \in SUBSET Ids
    BY DEF Page, Employees
  <2>2. pc \in WorkerPc /\ (pc \in {"upload", "checkpoint"} => page # {})
    BY DEF WorkerPc, Extracting
  <2>3. worker' = [worker EXCEPT ![w] = v]
    BY <1>4 DEF Fetch
  <2> HIDE DEF page, pc
  <2>4. v \in WorkerType
    BY <2>1, <2>2, Zenon DEF WorkerType
  <2>5. v.pc = pc /\ v.chunk = page
    BY DEF WorkerType
  <2> QED
    BY <2>2, <2>3, <2>4, <2>5, SetWorker
<1>5. CASE Checkpoint(w)
  <2> DEFINE last == Last(worker[w].chunk)
             next == worker[w].batch + 1
             v == [worker[w] EXCEPT !.pc = "read", !.cursor = last, !.batch = next, !.chunk = {}]
  <2>1. worker[w].chunk # {} /\ worker[w].chunk \in SUBSET Ids
    BY <1>5 DEF ChunkFetched, WorkerType, Checkpoint, At
  <2>2. last \in Nat /\ next \in Nat \ {0}
    <3>1. last \in Nat
      BY <2>1, ChunkFacts
    <3>2. worker[w].batch \in Nat \ {0}
      BY DEF WorkerType
    <3> HIDE DEF last
    <3> QED
      BY <3>1, <3>2
  <2>3. worker' = [worker EXCEPT ![w] = v]
    BY <1>5 DEF Checkpoint
  <2> HIDE DEF last, next
  <2>4. v \in WorkerType
    BY <2>2, Zenon DEF WorkerType, WorkerPc, Extracting
  <2>5. v.pc = "read"
    BY DEF WorkerType
  <2> QED
    BY <2>3, <2>4, <2>5, SetWorker
<1>6. CASE Finalize(w)
  <2> DEFINE pc == IF row.status \in Terminal THEN "done" ELSE "build"
             parts == row.nextBatch - 1
             v == [worker[w] EXCEPT !.parts = parts, !.built = << >>, !.pc = pc]
  <2>1. pc \in WorkerPc /\ pc \notin {"upload", "checkpoint"} /\ parts \in Nat
    BY DEF WorkerPc, Extracting
  <2>2. << >> \in Seq(SUBSET Ids)
    OBVIOUS
  <2>3. worker' = [worker EXCEPT ![w] = v]
    BY <1>6 DEF Finalize
  <2> HIDE DEF pc, parts
  <2>4. v \in WorkerType
    BY <2>1, <2>2, Zenon DEF WorkerType
  <2>5. v.pc = pc
    BY DEF WorkerType
  <2> QED
    BY <2>1, <2>3, <2>4, <2>5, SetWorker
<1>7. CASE BuildPart(w)
  <2> DEFINE part == Len(worker[w].built) + 1
             v == [worker[w] EXCEPT !.built = Append(@, staging[part])]
  <2>1. CASE part \in DOMAIN staging
    <3>1. Append(worker[w].built, staging[part]) \in Seq(SUBSET Ids)
      BY <2>1 DEF TypeInv, TypeOK, ObjectsOK, WorkerType
    <3>2. worker' = [worker EXCEPT ![w] = v]
      BY <1>7, <2>1 DEF BuildPart
    <3>3. v \in WorkerType /\ v.pc = worker[w].pc
      BY <3>1 DEF WorkerType
    <3> QED
      BY <1>7, <3>2, <3>3, SetWorker DEF BuildPart, At
  <2>2. CASE part \notin DOMAIN staging
    BY <1>7, <2>2, SetPc DEF BuildPart, WorkerPc
  <2> QED
    BY <2>1, <2>2
<1>8. CASE Claim(w) \/ ClaimFinal(w) \/ MissedFinal(w)
  BY <1>8, SetPc DEF Claim, ClaimFinal, MissedFinal, WorkerPc, Extracting
<1>9. CASE Upload(w)
  <2>1. worker[w].chunk # {}
    BY <1>9 DEF Upload, At, ChunkFetched
  <2> QED
    BY <1>9, <2>1, SetPc DEF Upload, WorkerPc, Extracting
<1>10. CASE UploadFinal(w) \/ Complete(w) \/ Tidy(w) \/ Wipe(w)
  BY <1>10, SetPc DEF UploadFinal, Complete, Tidy, Wipe, WorkerPc, Extracting
<1>11. CASE ConfirmCancel(w) \/ Park(w) \/ Throw(w) \/ MarkFailed(w)
  BY <1>11, SetPc DEF ConfirmCancel, Park, Throw, MarkFailed, WorkerPc, Extracting
<1>12. CASE RetryLater(w) \/ Done(w) \/ StartThrows(w) \/ MarkFailedThrows(w) \/ Crash(w)
  BY <1>12, <1>idle DEF RetryLater, Done, StartThrows, MarkFailedThrows, Crash, Rethrow, Return
<1>13. CASE LoseLock(w)
  BY <1>13 DEF LoseLock, ChunkFetched
<1> QED
  BY <1>1, <1>2, <1>3, <1>4, <1>5, <1>6, <1>7, <1>8, <1>9, <1>10, <1>11, <1>12, <1>13
     DEF WorkerStep, WorkerFault

\* What the queue does to its jobs keeps them jobs.
LEMMA JobSets ==
  ASSUME jobs \subseteq JobType, NEW w \in Workers
  PROVE  /\ Release(w) \subseteq JobType
         /\ \A id \in Nat : Added(id) \subseteq JobType
         /\ Return(w) => jobs' \subseteq JobType
         /\ Rethrow(w) => jobs' \subseteq JobType
<1>1. Held(w) \subseteq JobType
  BY DEF Held
<1>2. \A j \in JobType : [j EXCEPT !.owner = None] \in JobType
  BY DEF JobType
<1>3. Release(w) \subseteq JobType
  BY <1>1, <1>2 DEF Release
<1>4. \A id \in Nat : Added(id) \subseteq JobType
  BY DEF Added, JobType
<1>5. Return(w) => jobs' \subseteq JobType
  BY DEF Return
<1>6. ASSUME NEW j \in JobType, NEW st \in {"waiting", "failed"}
      PROVE  [j EXCEPT !.made = @ + 1, !.owner = None, !.state = st] \in JobType
  <2>1. j.made + 1 \in Nat
    BY DEF JobType
  <2> QED
    BY <2>1, Zenon DEF JobType
<1>7. ASSUME Rethrow(w), NEW j \in jobs' PROVE j \in JobType
  <2>1. CASE j \in jobs
    BY <2>1
  <2>2. CASE j \notin jobs
    <3>1. PICK h \in Held(w) :
            j = [h EXCEPT !.made = @ + 1, !.owner = None,
                          !.state = IF h.made + 1 < MaxAttempts THEN "waiting" ELSE "failed"]
      BY <1>7, <2>2, Zenon DEF Rethrow
    <3> QED
      BY <3>1, <1>1, <1>6
  <2> QED
    BY <2>1, <2>2
<1> QED
  BY <1>3, <1>4, <1>5, <1>7

\* Every step leaves the jobs typed.
LEMMA TypeJobs ==
  ASSUME TypeInv, Next
  PROVE  jobs' \subseteq JobType
<1>0. jobs \subseteq JobType /\ request \in [Requests -> RequestType]
  BY DEF TypeInv, TypeOK
<1>1. ASSUME NEW w \in Workers, Take(w) PROVE jobs' \subseteq JobType
  <2>1. \A j \in JobType : [j EXCEPT !.state = "active", !.owner = w] \in JobType
    BY Zenon DEF JobType
  <2> QED
    BY <1>0, <1>1, <2>1, Zenon DEF Take
<1>2. ASSUME NEW w \in Workers, WorkerStep(w) PROVE jobs' \subseteq JobType
  <2>1. jobs' = jobs \/ Return(w) \/ Rethrow(w)
    BY <1>2 DEF WorkerStep, Start, Claim, ReadState, Fetch, Upload, Checkpoint, ClaimFinal,
       MissedFinal, Finalize, BuildPart, UploadFinal, Complete, Tidy, Wipe, ConfirmCancel, Park,
       RetryLater, MarkFailed, Done
  <2> QED
    BY <1>0, <2>1, JobSets
<1>3. ASSUME NEW w \in Workers, WorkerFault(w) PROVE jobs' \subseteq JobType
  <2>1. jobs' = jobs \/ jobs' = Release(w) \/ Rethrow(w)
    BY <1>3 DEF WorkerFault, StartThrows, Throw, MarkFailedThrows, Crash, LoseLock
  <2> QED
    BY <1>0, <2>1, JobSets
<1>4. ASSUME NEW r \in Requests, RequestBegin(r) \/ RequestStep(r) \/ RequestFault(r)
      PROVE  jobs' \subseteq JobType
  <2>1. jobs' = jobs \/ jobs' = Added(request[r].batch)
    BY <1>4 DEF RequestBegin, RequestStep, RequestFault, CreateRow, CancelRead, ResumeRead,
       CancelNow, Cleanup, AskCancel, ResumeClaim, Enqueue, EnqueueRefused, Undo, EnqueueThrows,
       Abort
  <2>2. request[r].batch \in Nat
    BY <1>0 DEF RequestType
  <2>3. \A id \in Nat : Added(id) \subseteq JobType
    BY <1>0 DEF Added, JobType
  <2> QED
    BY <1>0, <2>1, <2>2, <2>3
<1>5. CASE Stalled
  <2>1. ASSUME NEW j \in JobType, NEW st \in {"waiting", "failed"}
        PROVE  [j EXCEPT !.stalls = @ + 1, !.state = st] \in JobType
    <3>1. j.stalls + 1 \in Nat
      BY DEF JobType
    <3> QED
      BY <3>1, Zenon DEF JobType
  <2>2. PICK j \in jobs :
          jobs' = (jobs \ {j}) \cup
            {[j EXCEPT !.stalls = @ + 1,
                       !.state = IF j.stalls + 1 > MaxStalledCount THEN "failed" ELSE "waiting"]}
    BY <1>5, Zenon DEF Stalled
  <2> QED
    BY <1>0, <2>1, <2>2
<1>6. CASE Pause \/ Expire \/ SweepStep
  BY <1>0, <1>6 DEF Pause, Expire, SweepStep, SweepExpired, SweepDelete, SweepMark, SweepStale
<1>7. ASSUME NEW e \in Ids, Hire(e) \/ Leave(e) PROVE jobs' \subseteq JobType
  BY <1>0, <1>7 DEF Hire, Leave
<1> QED
  BY <1>1, <1>2, <1>3, <1>4, <1>5, <1>6, <1>7 DEF Next

\* Every step leaves the row typed.
LEMMA TypeRow ==
  ASSUME TypeInv, Next
  PROVE  RowOK'
<1>0. /\ RowOK /\ worker \in [Workers -> WorkerType] /\ request \in [Requests -> RequestType]
      /\ ChunkFetched
  BY DEF TypeInv, TypeOK
<1>set. ASSUME NEW s \in Status, row' = [row EXCEPT !.status = s] PROVE RowOK'
  BY <1>0, <1>set DEF RowOK
<1>flip. ASSUME NEW from, NEW to \in Status, Flip(from, to) PROVE RowOK'
  BY <1>0, <1>flip DEF RowOK, Flip
<1>same. ASSUME row' = row PROVE RowOK'
  BY <1>0, <1>same DEF RowOK
<1>1. ASSUME NEW w \in Workers, Checkpoint(w) PROVE RowOK'
  <2> DEFINE last == Last(worker[w].chunk)
             next == worker[w].batch + 1
             rows == worker[w].base + Cardinality(worker[w].chunk)
  <2>1. worker[w].chunk # {} /\ worker[w].chunk \in SUBSET Ids
    BY <1>0, <1>1 DEF ChunkFetched, WorkerType, Checkpoint, At
  <2>2. last \in Nat /\ next \in Nat \ {0} /\ rows \in Nat
    <3>1. last \in Nat /\ Cardinality(worker[w].chunk) \in Nat
      BY <2>1, ChunkFacts
    <3>2. worker[w].batch \in Nat \ {0} /\ worker[w].base \in Nat
      BY <1>0 DEF WorkerType
    <3> HIDE DEF last
    <3> QED
      BY <3>1, <3>2
  <2>3. row' = [row EXCEPT !.cursor = last, !.nextBatch = next, !.processedRows = rows]
    BY <1>1 DEF Checkpoint
  <2> HIDE DEF last, next, rows
  <2> QED
    BY <1>0, <2>2, <2>3, Zenon DEF RowOK
<1>2. ASSUME NEW w \in Workers, Complete(w) PROVE RowOK'
  <2>1. "COMPLETED" \in Status /\ TRUE \in BOOLEAN
    BY DEF Status, Terminal
  <2>2. [row EXCEPT !.status = "COMPLETED", !.key = TRUE] \in
          [status : Status, processedRows : Nat, cursor : Nat, nextBatch : Nat \ {0}, key : BOOLEAN]
    BY <1>0, <2>1, Zenon DEF RowOK
  <2> QED
    BY <1>0, <1>2, <2>2 DEF Complete, RowOK
<1>3. ASSUME NEW w \in Workers, Claim(w) \/ ClaimFinal(w) \/ ConfirmCancel(w) \/ Park(w)
      PROVE  RowOK'
  BY <1>3, <1>flip DEF Claim, ClaimFinal, ConfirmCancel, Park, Status, Terminal, InProgress
<1>4. ASSUME NEW w \in Workers, MarkFailed(w) PROVE RowOK'
  BY <1>4, <1>set, <1>same DEF MarkFailed, Status, Terminal
<1>5. ASSUME NEW w \in Workers, Take(w) \/ WorkerStep(w) \/ WorkerFault(w) PROVE RowOK'
  <2>1. \/ Checkpoint(w) \/ Complete(w) \/ MarkFailed(w) \/ row' = row
        \/ Claim(w) \/ ClaimFinal(w) \/ ConfirmCancel(w) \/ Park(w)
    BY <1>5 DEF Take, WorkerStep, WorkerFault, Start, ReadState, Fetch, Upload, MissedFinal,
       Finalize, BuildPart, UploadFinal, Tidy, Wipe, RetryLater, Done, StartThrows, Throw,
       MarkFailedThrows, Crash, LoseLock
  <2> QED
    BY <2>1, <1>1, <1>2, <1>3, <1>4, <1>same
<1>6. ASSUME NEW r \in Requests, RequestBegin(r) \/ RequestStep(r) \/ RequestFault(r) PROVE RowOK'
  <2>1. CASE CreateRow(r)
    BY <2>1, <1>set DEF CreateRow, Status, InProgress
  <2>2. CASE CancelNow(r) \/ AskCancel(r) \/ ResumeClaim(r)
    BY <2>2, <1>flip DEF CancelNow, AskCancel, ResumeClaim, Status, Terminal, InProgress
  <2>3. CASE Undo(r)
    BY <2>3, <1>set, <1>flip DEF Undo, Status, Terminal
  <2>4. CASE row' = row
    BY <2>4, <1>same
  <2> QED
    BY <1>6, <2>1, <2>2, <2>3, <2>4 DEF RequestBegin, RequestStep, RequestFault, CancelRead,
       ResumeRead, Cleanup, Enqueue, EnqueueRefused, EnqueueThrows, Abort
<1>7. CASE Pause
  BY <1>7, <1>flip DEF Pause, Status, InProgress
<1>8. CASE SweepMark
  BY <1>8, <1>flip DEF SweepMark, Status, Terminal
<1>9. CASE Stalled \/ Expire \/ SweepExpired \/ SweepDelete \/ SweepStale
  BY <1>9, <1>same DEF Stalled, Expire, SweepExpired, SweepDelete, SweepStale
<1>10. ASSUME NEW e \in Ids, Hire(e) \/ Leave(e) PROVE RowOK'
  BY <1>10, <1>same DEF Hire, Leave
<1> QED
  BY <1>5, <1>6, <1>7, <1>8, <1>9, <1>10 DEF Next, SweepStep

\* Every step leaves the requests typed.
LEMMA TypeRequest ==
  ASSUME TypeInv, Next
  PROVE  request' \in [Requests -> RequestType]
<1>0. /\ request \in [Requests -> RequestType] /\ IdleRequest \in RequestType
      /\ row.status \in Status /\ row.nextBatch \in Nat /\ row.key \in BOOLEAN
  BY IdleTyped DEF TypeInv, TypeOK, RowOK
<1> USE <1>0
<1> DEFINE Typed == request' \in [Requests -> RequestType]
<1>set. ASSUME NEW r \in Requests, NEW v \in RequestType, request' = [request EXCEPT ![r] = v]
        PROVE  Typed
  BY <1>set
<1>same. ASSUME request' = request PROVE Typed
  BY <1>same
<1>1. ASSUME NEW r \in Requests, CreateRow(r) PROVE Typed
  <2>1. [IdleRequest EXCEPT !.op = "create", !.pc = "enqueue"] \in RequestType
    BY Zenon DEF RequestType
  <2> QED
    BY <1>1, <2>1, <1>set DEF CreateRow
<1>2. ASSUME NEW r \in Requests, CancelRead(r) PROVE Typed
  <2> DEFINE pc == IF row.status \in {"QUEUED", "PAUSED"} THEN "cancelNow" ELSE "askCancel"
             v == [IdleRequest EXCEPT !.op = "cancel", !.seen = row.status, !.key = row.key,
                                      !.pc = pc]
  <2>1. pc \in {"cancelNow", "askCancel"}
    OBVIOUS
  <2>2. request' = [request EXCEPT ![r] = v]
    BY <1>2 DEF CancelRead
  <2> HIDE DEF pc
  <2>3. v \in RequestType
    BY <2>1, Zenon DEF RequestType
  <2> QED
    BY <2>2, <2>3, <1>set
<1>3. ASSUME NEW r \in Requests, ResumeRead(r) PROVE Typed
  <2>1. [IdleRequest EXCEPT !.op = "resume", !.pc = "resume", !.batch = row.nextBatch]
          \in RequestType
    BY Zenon DEF RequestType
  <2> QED
    BY <1>3, <2>1, <1>set DEF ResumeRead
<1>4. ASSUME NEW r \in Requests, RequestStep(r) \/ RequestFault(r) PROVE Typed
  <2>1. \A pc \in {"cleanup", "enqueue", "undo"} : [request[r] EXCEPT !.pc = pc] \in RequestType
    BY DEF RequestType
  <2>2. \/ request' = [request EXCEPT ![r] = IdleRequest]
        \/ \E pc \in {"cleanup", "enqueue", "undo"} :
             request' = [request EXCEPT ![r] = [request[r] EXCEPT !.pc = pc]]
    <3>1. CASE CancelNow(r)
      BY <3>1 DEF CancelNow
    <3>2. CASE ResumeClaim(r)
      BY <3>2 DEF ResumeClaim
    <3>3. CASE EnqueueRefused(r) \/ EnqueueThrows(r)
      BY <3>3 DEF EnqueueRefused, EnqueueThrows
    <3>4. CASE Cleanup(r) \/ AskCancel(r) \/ Enqueue(r) \/ Undo(r) \/ Abort(r)
      BY <3>4 DEF Cleanup, AskCancel, Enqueue, Undo, Abort
    <3> QED
      BY <1>4, <3>1, <3>2, <3>3, <3>4 DEF RequestStep, RequestFault
  <2> QED
    BY <2>1, <2>2, <1>set
<1>5. ASSUME NEW w \in Workers, Take(w) \/ WorkerStep(w) \/ WorkerFault(w) PROVE Typed
  BY <1>5, <1>same DEF Take, WorkerStep, WorkerFault, Start, ReadState, Fetch, Upload, MissedFinal,
     Finalize, BuildPart, UploadFinal, Tidy, Wipe, RetryLater, Done, StartThrows, Throw,
     MarkFailedThrows, Crash, LoseLock, Checkpoint, Complete, MarkFailed, Claim, ClaimFinal,
     ConfirmCancel, Park
<1>6. CASE Stalled \/ Pause \/ Expire \/ SweepStep
  BY <1>6, <1>same DEF Stalled, Pause, Expire, SweepStep, SweepExpired, SweepDelete, SweepMark,
     SweepStale
<1>7. ASSUME NEW e \in Ids, Hire(e) \/ Leave(e) PROVE Typed
  BY <1>7, <1>same DEF Hire, Leave
<1> QED
  BY <1>1, <1>2, <1>3, <1>4, <1>5, <1>6, <1>7 DEF Next, RequestBegin

\* Every step leaves the objects in storage typed: chunks of employees by part.
LEMMA TypeObjects ==
  ASSUME TypeInv, Next
  PROVE  ObjectsOK'
<1>0. /\ ObjectsOK /\ worker \in [Workers -> WorkerType]
      /\ << >> \in Seq(SUBSET Ids) /\ DOMAIN << >> = {}
  BY DEF TypeInv, TypeOK, ObjectsOK
<1>less. ASSUME staging' = staging \/ staging' = << >>, final' = final \/ final' = {}
         PROVE  ObjectsOK'
  BY <1>0, <1>less DEF ObjectsOK
<1>1. ASSUME NEW w \in Workers, Upload(w) PROVE ObjectsOK'
  <2> DEFINE n == worker[w].batch
             chunk == worker[w].chunk
  <2>1. n \in Nat /\ chunk \subseteq Ids
    BY <1>0 DEF WorkerType
  <2>2. /\ staging' = [p \in DOMAIN staging \cup {n} |-> IF p = n THEN chunk ELSE staging[p]]
        /\ final' = final
    BY <1>1 DEF Upload
  <2> HIDE DEF n, chunk
  <2> QED
    BY <1>0, <2>1, <2>2 DEF ObjectsOK
<1>2. ASSUME NEW w \in Workers, UploadFinal(w) PROVE ObjectsOK'
  <2>1. worker[w].built \in Seq(SUBSET Ids)
    BY <1>0 DEF WorkerType
  <2> QED
    BY <1>0, <1>2, <2>1 DEF UploadFinal, ObjectsOK
<1>3. ASSUME NEW w \in Workers, Take(w) \/ WorkerStep(w) \/ WorkerFault(w) PROVE ObjectsOK'
  <2>1. \/ Upload(w) \/ UploadFinal(w)
        \/ (staging' = staging \/ staging' = << >>) /\ (final' = final \/ final' = {})
    BY <1>3 DEF objects, Take, WorkerStep, WorkerFault, Start, ReadState, Fetch, MissedFinal,
       Finalize, BuildPart, Tidy, Wipe, RetryLater, Done, StartThrows, Throw, MarkFailedThrows,
       Crash, LoseLock, Checkpoint, Complete, MarkFailed, Claim, ClaimFinal, ConfirmCancel, Park
  <2> QED
    BY <2>1, <1>1, <1>2, <1>less
<1>4. ASSUME NEW r \in Requests, RequestBegin(r) \/ RequestStep(r) \/ RequestFault(r)
      PROVE  ObjectsOK'
  BY <1>4, <1>less DEF objects, RequestBegin, RequestStep, RequestFault, CreateRow, CancelRead,
     ResumeRead, CancelNow, Cleanup, AskCancel, ResumeClaim, Enqueue, EnqueueRefused, Undo,
     EnqueueThrows, Abort
<1>5. CASE Stalled \/ Pause \/ Expire \/ SweepStep
  BY <1>5, <1>less DEF objects, Stalled, Pause, Expire, SweepStep, SweepExpired, SweepDelete,
     SweepMark, SweepStale
<1>6. ASSUME NEW e \in Ids, Hire(e) \/ Leave(e) PROVE ObjectsOK'
  BY <1>6, <1>less DEF objects, Hire, Leave
<1> QED
  BY <1>3, <1>4, <1>5, <1>6 DEF Next

\* Every step leaves the directory typed.
LEMMA TypePeople ==
  ASSUME TypeInv, Next
  PROVE  PeopleOK'
<1>0. PeopleOK
  BY DEF TypeInv, TypeOK
<1>same. ASSUME directory' = directory, stable' = stable PROVE PeopleOK'
  BY <1>0, <1>same DEF PeopleOK
<1>1. ASSUME NEW r \in Requests, RequestBegin(r) \/ RequestStep(r) \/ RequestFault(r)
      PROVE  PeopleOK'
  <2>1. CASE CreateRow(r)
    BY <1>0, <2>1 DEF CreateRow, PeopleOK, Employees
  <2> QED
    BY <1>1, <2>1, <1>same DEF people, RequestBegin, RequestStep, RequestFault, CancelRead,
       ResumeRead, CancelNow, Cleanup, AskCancel, ResumeClaim, Enqueue, EnqueueRefused, Undo,
       EnqueueThrows, Abort
<1>2. ASSUME NEW w \in Workers, Take(w) \/ WorkerStep(w) \/ WorkerFault(w) PROVE PeopleOK'
  BY <1>2, <1>same DEF people, Take, WorkerStep, WorkerFault, Start, ReadState, Fetch, Upload,
     MissedFinal, Finalize, BuildPart, UploadFinal, Tidy, Wipe, RetryLater, Done, StartThrows,
     Throw, MarkFailedThrows, Crash, LoseLock, Checkpoint, Complete, MarkFailed, Claim, ClaimFinal,
     ConfirmCancel, Park
<1>3. CASE Stalled \/ Pause \/ Expire \/ SweepStep
  BY <1>3, <1>same DEF people, Stalled, Pause, Expire, SweepStep, SweepExpired, SweepDelete,
     SweepMark, SweepStale
<1>4. ASSUME NEW e \in Ids, Hire(e) \/ Leave(e) PROVE PeopleOK'
  BY <1>0, <1>4 DEF Hire, Leave, PeopleOK
<1> QED
  BY <1>1, <1>2, <1>3, <1>4 DEF Next

\* Every step leaves the sweeper, the clock and the budgets typed.
LEMMA TypeRest ==
  ASSUME TypeInv, Next
  PROVE  RestOK'
<1>0. RestOK
  BY DEF TypeInv, TypeOK
<1>spend. ASSUME NEW kind \in Kinds, Spend(kind) PROVE left' \in [Kinds -> Nat]
  <2>1. left[kind] \in Nat /\ left[kind] > 0 /\ left' = [left EXCEPT ![kind] = left[kind] - 1]
    BY <1>0, <1>spend DEF RestOK, Spend
  <2>2. left[kind] - 1 \in Nat
    BY <2>1
  <2> QED
    BY <1>0, <2>1, <2>2 DEF RestOK
<1>1. ASSUME left' = left \/ \E kind \in Kinds : Spend(kind), sweeper' = sweeper, expired' = expired
      PROVE  RestOK'
  BY <1>0, <1>1, <1>spend DEF RestOK
<1>2. ASSUME NEW w \in Workers, Take(w) \/ WorkerStep(w) PROVE RestOK'
  <2>1. /\ sweeper' = sweeper /\ expired' = expired
        /\ left' = left \/ Spend("errors") \/ Spend("replies")
    BY <1>2 DEF Take, WorkerStep, Start, ReadState, Fetch, Upload, MissedFinal, Finalize,
       BuildPart, UploadFinal, Tidy, Wipe, RetryLater, Done, Checkpoint, Complete, MarkFailed,
       Claim, ClaimFinal, ConfirmCancel, Park
  <2> QED
    BY <2>1, <1>1 DEF Kinds
<1>3. ASSUME NEW w \in Workers, WorkerFault(w) PROVE RestOK'
  <2>1. /\ sweeper' = sweeper /\ expired' = expired
        /\ Spend("errors") \/ Spend("crashes") \/ Spend("locks")
    BY <1>3 DEF WorkerFault, StartThrows, Throw, MarkFailedThrows, Crash, LoseLock
  <2> QED
    BY <2>1, <1>1 DEF Kinds
<1>4. ASSUME NEW r \in Requests, RequestBegin(r) \/ RequestStep(r) \/ RequestFault(r)
      PROVE  RestOK'
  <2>1. /\ sweeper' = sweeper /\ expired' = expired
        /\ \/ left' = left \/ Spend("errors") \/ Spend("replies") \/ Spend("requests")
           \/ Spend("aborts")
    BY <1>4 DEF RequestBegin, RequestStep, RequestFault, CreateRow, CancelRead, ResumeRead,
       CancelNow, Cleanup, AskCancel, ResumeClaim, Enqueue, EnqueueRefused, Undo, EnqueueThrows,
       Abort
  <2> QED
    BY <2>1, <1>1 DEF Kinds
<1>5. CASE Stalled \/ Pause
  <2>1. /\ sweeper' = sweeper /\ expired' = expired
        /\ left' = left \/ Spend("requests")
    BY <1>5 DEF Stalled, Pause
  <2> QED
    BY <2>1, <1>1 DEF Kinds
<1>6. CASE Expire \/ SweepStep
  <2>1. /\ left' = left \/ Spend("errors")
        /\ sweeper' \in {"idle", "delete", "mark"} /\ expired' \in BOOLEAN
    BY <1>0, <1>6 DEF RestOK, Expire, SweepStep, SweepExpired, SweepDelete, SweepMark, SweepStale
  <2> QED
    BY <2>1, <1>0, <1>spend DEF RestOK, Kinds
<1>7. ASSUME NEW e \in Ids, Hire(e) \/ Leave(e) PROVE RestOK'
  <2>1. sweeper' = sweeper /\ expired' = expired /\ Spend("churn")
    BY <1>7 DEF Hire, Leave
  <2> QED
    BY <2>1, <1>1 DEF Kinds
<1> QED
  BY <1>2, <1>3, <1>4, <1>5, <1>6, <1>7 DEF Next

\* Only the queue and the workers move workers.
LEMMA OthersKeepWorkers ==
  ASSUME \/ \E r \in Requests : RequestBegin(r) \/ RequestStep(r) \/ RequestFault(r)
         \/ Stalled \/ Pause \/ Expire \/ SweepStep
         \/ \E e \in Ids : Hire(e) \/ Leave(e)
  PROVE  worker' = worker
<1>1. ASSUME NEW r \in Requests, RequestBegin(r) \/ RequestStep(r) \/ RequestFault(r)
      PROVE  worker' = worker
  BY <1>1 DEF RequestBegin, RequestStep, RequestFault, CreateRow, CancelRead, ResumeRead,
     CancelNow, Cleanup, AskCancel, ResumeClaim, Enqueue, EnqueueRefused, Undo, EnqueueThrows,
     Abort
<1>2. CASE Stalled \/ Pause \/ Expire \/ SweepStep
  BY <1>2 DEF Stalled, Pause, Expire, SweepStep, SweepExpired, SweepDelete, SweepMark, SweepStale
<1>3. ASSUME NEW e \in Ids, Hire(e) \/ Leave(e) PROVE worker' = worker
  BY <1>3 DEF Hire, Leave
<1> QED
  BY <1>1, <1>2, <1>3

\* The type invariant is inductive.
LEMMA TypeStep == TypeInv /\ [Next]_vars => TypeInv'
<1> SUFFICES ASSUME TypeInv, [Next]_vars PROVE TypeInv'
  OBVIOUS
<1>1. CASE Next
  <2>1. worker' \in [Workers -> WorkerType] /\ ChunkFetched'
    <3>1. CASE \E w \in Workers : Take(w) \/ WorkerStep(w) \/ WorkerFault(w)
      BY <3>1, TypeWorker
    <3>2. CASE worker' = worker
      BY <3>2 DEF TypeInv, TypeOK, ChunkFetched
    <3> QED
      BY <1>1, <3>1, <3>2, OthersKeepWorkers DEF Next
  <2> QED
    BY <1>1, <2>1, TypeRow, TypeObjects, TypePeople, TypeRest, TypeJobs, TypeRequest
       DEF TypeInv, TypeOK
<1>2. CASE UNCHANGED vars
  BY <1>2 DEF vars, objects, people, TypeInv, TypeOK, RowOK, ObjectsOK, PeopleOK, RestOK,
     ChunkFetched
<1> QED
  BY <1>1, <1>2

\* Whatever workers, users, the sweeper and faults do, the row keeps legal
\* columns, the queue legal jobs, and workers and handlers legal local state.
THEOREM TypeCorrect == Spec => []TypeOK
<1>1. TypeInv => TypeOK
  BY DEF TypeInv
<1> QED
  BY TypeInit, TypeStep, <1>1, PTL DEF Spec

------------------------------------------------------------------------------
(* Every chunk the checkpoint counts is in storage.                           *)

\* The export may still be finished.
Open == Live \cup {"ABSENT"}

Staged(parts) == \A p \in 1 .. parts : p \in DOMAIN staging

Looping == {"claim", "read", "fetch", "upload", "checkpoint"}

\* Not only the row but every worker in the extraction loop, a zombie too, knows
\* a batch number up to which all parts are staged: its checkpoint may move
\* nextBatch back, never past a missing part.
WorkerDurable(w) ==
  /\ worker[w].pc \in Looping => Staged(worker[w].batch - 1)
  /\ worker[w].pc = "checkpoint" => worker[w].batch \in DOMAIN staging

\* Whoever is about to delete chunks has seen the export end, and it stays ended.
DeletersAreLate ==
  /\ \A w \in Workers : worker[w].pc \in {"tidy", "wipe"} => row.status \notin Open
  /\ \A r \in Requests : request[r].pc = "cleanup" => row.status \notin Open
  /\ sweeper = "delete" => row.status \notin Open

DurableInv ==
  /\ TypeInv
  /\ DeletersAreLate
  /\ row.status \in Open =>
       Staged(row.nextBatch - 1) /\ \A w \in Workers : WorkerDurable(w)

\* Before the export is created everything is at its beginning.
LEMMA DurableInit == Init => DurableInv
<1> SUFFICES ASSUME Init PROVE DurableInv
  OBVIOUS
<1>1. DeletersAreLate
  BY DEF Init, DeletersAreLate, IdleWorker, IdleRequest
<1>2. row.nextBatch = 1 /\ Staged(row.nextBatch - 1)
  BY DEF Init, FreshRow, Staged
<1>3. \A w \in Workers : WorkerDurable(w)
  BY DEF Init, IdleWorker, WorkerDurable, Looping
<1> QED
  BY <1>1, <1>2, <1>3, TypeInit DEF DurableInv

\* An export that is over, or that a worker has been told to cancel, is never
\* taken up again.
LEMMA EndIsEnd ==
  ASSUME TypeInv, Next, row'.status \in Open
  PROVE  row.status \in Open
<1>0. RowOK
  BY DEF TypeInv, TypeOK
<1>same. ASSUME row' = row PROVE row.status \in Open
  BY <1>same
<1>flip. ASSUME NEW from, NEW to, Flip(from, to), to \in Open => from \in Open
         PROVE  row.status \in Open
  BY <1>0, <1>flip DEF RowOK, Flip
<1>1. ASSUME NEW w \in Workers, Take(w) \/ WorkerStep(w) \/ WorkerFault(w)
      PROVE  row.status \in Open
  <2>1. CASE Claim(w) \/ ClaimFinal(w) \/ ConfirmCancel(w) \/ Park(w)
    BY <2>1, <1>flip DEF Claim, ClaimFinal, ConfirmCancel, Park, Open, Live
  <2>2. CASE Checkpoint(w)
    BY <1>0, <2>2 DEF Checkpoint, RowOK
  <2>3. CASE Complete(w) \/ MarkFailed(w)
    BY <1>0, <2>3 DEF Complete, MarkFailed, RowOK, Open, Live
  <2>4. CASE row' = row
    BY <2>4, <1>same
  <2> QED
    BY <1>1, <2>1, <2>2, <2>3, <2>4 DEF Take, WorkerStep, WorkerFault, Start, ReadState, Fetch,
       Upload, MissedFinal, Finalize, BuildPart, UploadFinal, Tidy, Wipe, RetryLater, Done,
       StartThrows, Throw, MarkFailedThrows, Crash, LoseLock
<1>2. ASSUME NEW r \in Requests, RequestBegin(r) \/ RequestStep(r) \/ RequestFault(r)
      PROVE  row.status \in Open
  <2>1. CASE CreateRow(r)
    BY <2>1 DEF CreateRow, Open
  <2>2. CASE CancelNow(r) \/ AskCancel(r) \/ ResumeClaim(r)
    BY <2>2, <1>flip DEF CancelNow, AskCancel, ResumeClaim, Open, Live
  <2>3. CASE Undo(r)
    <3>1. CASE row' = [row EXCEPT !.status = "FAILED"]
      BY <1>0, <3>1 DEF RowOK, Open, Live
    <3>2. CASE Flip("QUEUED", "PAUSED")
      BY <3>2, <1>flip DEF Open, Live
    <3> QED
      BY <2>3, <3>1, <3>2 DEF Undo
  <2>4. CASE row' = row
    BY <2>4, <1>same
  <2> QED
    BY <1>2, <2>1, <2>2, <2>3, <2>4 DEF RequestBegin, RequestStep, RequestFault, CancelRead,
       ResumeRead, Cleanup, Enqueue, EnqueueRefused, EnqueueThrows, Abort
<1>3. CASE Pause \/ SweepMark
  BY <1>3, <1>flip DEF Pause, SweepMark, Open, Live
<1>4. CASE Stalled \/ Expire \/ SweepExpired \/ SweepDelete \/ SweepStale
  BY <1>4, <1>same DEF Stalled, Expire, SweepExpired, SweepDelete, SweepStale
<1>5. ASSUME NEW e \in Ids, Hire(e) \/ Leave(e) PROVE row.status \in Open
  BY <1>5, <1>same DEF Hire, Leave
<1> QED
  BY <1>1, <1>2, <1>3, <1>4, <1>5 DEF Next, SweepStep

\* While the export may still be finished, no chunk is deleted.
LEMMA ChunksKept ==
  ASSUME TypeInv, DeletersAreLate, Next, row.status \in Open
  PROVE  DOMAIN staging \subseteq DOMAIN staging'
<1>same. ASSUME staging' = staging PROVE DOMAIN staging \subseteq DOMAIN staging'
  BY <1>same
<1>1. ASSUME NEW w \in Workers, Take(w) \/ WorkerStep(w) \/ WorkerFault(w)
      PROVE  DOMAIN staging \subseteq DOMAIN staging'
  <2>1. CASE Upload(w)
    BY <2>1 DEF Upload
  <2>2. ~ (Tidy(w) \/ Wipe(w))
    BY DEF DeletersAreLate, Tidy, Wipe, At
  <2> QED
    BY <1>1, <2>1, <2>2, <1>same DEF objects, Take, WorkerStep, WorkerFault, Start, ReadState,
       Fetch, MissedFinal, Finalize, BuildPart, UploadFinal, RetryLater, Done, StartThrows, Throw,
       MarkFailedThrows, Crash, LoseLock, Checkpoint, Complete, MarkFailed, Claim, ClaimFinal,
       ConfirmCancel, Park
<1>2. ASSUME NEW r \in Requests, RequestBegin(r) \/ RequestStep(r) \/ RequestFault(r)
      PROVE  DOMAIN staging \subseteq DOMAIN staging'
  <2>1. ~ Cleanup(r)
    BY DEF DeletersAreLate, Cleanup
  <2> QED
    BY <1>2, <2>1, <1>same DEF objects, RequestBegin, RequestStep, RequestFault, CreateRow,
       CancelRead, ResumeRead, CancelNow, AskCancel, ResumeClaim, Enqueue, EnqueueRefused, Undo,
       EnqueueThrows, Abort
<1>3. ~ (SweepDelete \/ SweepStale)
  BY DEF DeletersAreLate, SweepDelete, SweepStale, Open, Live
<1>4. CASE Stalled \/ Pause \/ Expire \/ SweepStep
  BY <1>3, <1>4, <1>same DEF objects, Stalled, Pause, Expire, SweepStep, SweepExpired, SweepMark
<1>5. ASSUME NEW e \in Ids, Hire(e) \/ Leave(e) PROVE DOMAIN staging \subseteq DOMAIN staging'
  BY <1>5, <1>same DEF objects, Hire, Leave
<1> QED
  BY <1>1, <1>2, <1>4, <1>5 DEF Next

\* Whoever decides to delete chunks has just seen the export end.
LEMMA LateStep ==
  ASSUME TypeInv, DeletersAreLate, Next
  PROVE  DeletersAreLate'
<1>0. /\ RowOK /\ worker \in [Workers -> WorkerType] /\ request \in [Requests -> RequestType]
  BY DEF TypeInv, TypeOK
<1>1. ASSUME NEW w \in Workers, worker'[w].pc \in {"tidy", "wipe"} PROVE row'.status \notin Open
  <2>1. CASE worker'[w].pc = worker[w].pc
    BY <1>1, <2>1, EndIsEnd DEF DeletersAreLate
  <2>2. CASE worker'[w].pc # worker[w].pc
    <3>1. PICK u \in Workers : Take(u) \/ WorkerStep(u) \/ WorkerFault(u)
      BY <2>2, OthersKeepWorkers DEF Next
    <3>2. u = w
      <4>1. \A v \in Workers : v # u => worker'[v] = worker[v]
        BY <1>0, <3>1 DEF Take, WorkerStep, WorkerFault, Start, Claim, ReadState, Fetch, Upload,
           Checkpoint, ClaimFinal, MissedFinal, Finalize, BuildPart, UploadFinal, Complete, Tidy,
           Wipe, ConfirmCancel, Park, RetryLater, MarkFailed, Done, StartThrows, Throw,
           MarkFailedThrows, Crash, LoseLock, Goto, Rethrow, Return
      <4> QED
        BY <2>2, <4>1
    <3>3. Start(w) \/ ReadState(w) \/ MissedFinal(w) \/ Complete(w)
      <4>1. ASSUME Take(w) \/ Fetch(w) \/ Upload(w) \/ Checkpoint(w)
            PROVE  worker'[w].pc \notin {"tidy", "wipe"}
        <5>1. CASE Take(w)
          <6>1. PICK j \in jobs : worker' = [worker EXCEPT ![w] =
                  [worker[w] EXCEPT !.pc = "start", !.job = j.id, !.made = j.made]]
            BY <5>1 DEF Take
          <6> QED
            BY <1>0, <6>1 DEF WorkerType
        <5>2. CASE Fetch(w)
          <6>1. PICK pc \in {"claimFinal", "upload"} : worker' = [worker EXCEPT ![w] =
                  [worker[w] EXCEPT !.chunk = Page(worker[w].cursor), !.pc = pc]]
            BY <5>2 DEF Fetch
          <6> QED
            BY <1>0, <6>1 DEF WorkerType
        <5>3. CASE Upload(w)
          BY <1>0, <5>3 DEF WorkerType, Upload, Goto
        <5>4. CASE Checkpoint(w)
          BY <1>0, <5>4 DEF WorkerType, Checkpoint
        <5> QED
          BY <4>1, <5>1, <5>2, <5>3, <5>4
      <4>2. CASE Claim(w) \/ ClaimFinal(w) \/ Finalize(w) \/ BuildPart(w) \/ UploadFinal(w)
        BY <1>0, <1>1, <2>2, <4>2 DEF WorkerType, Claim, ClaimFinal, Finalize, BuildPart,
           UploadFinal, Goto
      <4>3. CASE Tidy(w) \/ Wipe(w) \/ ConfirmCancel(w) \/ Park(w) \/ MarkFailed(w) \/ Throw(w)
        BY <1>0, <1>1, <4>3 DEF WorkerType, Tidy, Wipe, ConfirmCancel, Park, MarkFailed, Throw,
           Goto
      <4>4. CASE RetryLater(w) \/ Done(w) \/ StartThrows(w) \/ MarkFailedThrows(w) \/ Crash(w)
        <5>1. worker' = [worker EXCEPT ![w] = IdleWorker]
          BY <4>4 DEF RetryLater, Done, StartThrows, MarkFailedThrows, Crash, Rethrow, Return
        <5> QED
          BY <1>0, <1>1, <5>1 DEF IdleWorker
      <4>5. CASE LoseLock(w)
        BY <2>2, <4>5 DEF LoseLock
      <4> QED
        BY <1>1, <3>1, <3>2, <4>1, <4>2, <4>3, <4>4, <4>5 DEF WorkerStep, WorkerFault
    <3>4. CASE Start(w)
      BY <1>0, <1>1, <3>4 DEF Start, WorkerType, Entry, Open, Live, Terminal
    <3>5. CASE ReadState(w)
      <4> DEFINE pc == CASE row.status = "CANCELLING" -> "wipe"
                         [] row.status = "PAUSING"    -> "park"
                         [] OTHER                     -> "fetch"
      <4>1. worker' = [worker EXCEPT ![w] =
              [worker[w] EXCEPT !.base = row.processedRows, !.pc = pc]]
        BY <3>5 DEF ReadState
      <4>2. pc = "wipe" => row.status = "CANCELLING"
        OBVIOUS
      <4>3. pc # "tidy" /\ row' = row
        BY <3>5 DEF ReadState
      <4> HIDE DEF pc
      <4>4. worker'[w].pc = pc
        BY <1>0, <4>1 DEF WorkerType
      <4> QED
        BY <1>1, <4>2, <4>3, <4>4 DEF Open, Live
    <3>6. CASE MissedFinal(w)
      BY <1>0, <1>1, <3>6 DEF MissedFinal, Goto, WorkerType, Open, Live
    <3>7. CASE Complete(w)
      <4>1. row.status = "FINALIZING"
        BY <1>0, <1>1, <3>7 DEF Complete, Goto, WorkerType
      <4>2. row'.status = "COMPLETED"
        BY <1>0, <3>7, <4>1 DEF Complete, RowOK
      <4> QED
        BY <4>2 DEF Open, Live
    <3> QED
      BY <3>3, <3>4, <3>5, <3>6, <3>7
  <2> QED
    BY <2>1, <2>2
<1>2. ASSUME NEW r \in Requests, request'[r].pc = "cleanup" PROVE row'.status \notin Open
  <2>1. CASE request[r].pc = "cleanup"
    BY <2>1, EndIsEnd DEF DeletersAreLate
  <2>2. CASE request[r].pc # "cleanup"
    <3>1. CASE request' = request
      BY <1>2, <2>2, <3>1
    <3>2. ASSUME NEW q \in Requests, RequestBegin(q) \/ RequestStep(q) \/ RequestFault(q)
          PROVE  CancelNow(q) /\ q = r /\ row.status = request[q].seen
      <4>1. ASSUME RequestBegin(q) PROVE request'[r].pc # "cleanup"
        BY <1>0, <2>2, <4>1 DEF RequestBegin, CreateRow, CancelRead, ResumeRead, IdleRequest
      <4>2. ASSUME RequestStep(q) \/ RequestFault(q), ~CancelNow(q)
            PROVE  request'[r].pc # "cleanup"
        BY <1>0, <2>2, <4>2 DEF RequestType, RequestStep, RequestFault, Cleanup, AskCancel,
           ResumeClaim, Enqueue, EnqueueRefused, Undo, EnqueueThrows, Abort, IdleRequest
      <4>3. CancelNow(q)
        BY <1>2, <3>2, <4>1, <4>2
      <4> QED
        BY <1>0, <1>2, <2>2, <4>3 DEF CancelNow, IdleRequest, RequestType
    <3>3. ASSUME NEW q \in Requests, CancelNow(q), row.status = request[q].seen
          PROVE  row'.status \notin Open
      BY <1>0, <3>3 DEF CancelNow, Flip, RowOK, Open, Live
    <3>4. \/ request' = request
          \/ \E q \in Requests : RequestBegin(q) \/ RequestStep(q) \/ RequestFault(q)
      BY DEF Next, Take, WorkerStep, WorkerFault, Start, ReadState, Fetch, Upload, MissedFinal,
         Finalize, BuildPart, UploadFinal, Tidy, Wipe, RetryLater, Done, StartThrows, Throw,
         MarkFailedThrows, Crash, LoseLock, Checkpoint, Complete, MarkFailed, Claim, ClaimFinal,
         ConfirmCancel, Park, Stalled, Pause, Expire, SweepStep, SweepExpired, SweepDelete,
         SweepMark, SweepStale, Hire, Leave
    <3> QED
      BY <3>1, <3>2, <3>3, <3>4
  <2> QED
    BY <2>1, <2>2
<1>3. ASSUME sweeper' = "delete" PROVE row'.status \notin Open
  <2>1. CASE sweeper = "delete"
    BY <2>1, EndIsEnd DEF DeletersAreLate
  <2>2. CASE sweeper # "delete"
    <3>1. SweepExpired
      BY <1>3, <2>2 DEF Next, Take, WorkerStep, WorkerFault, Start, ReadState, Fetch, Upload,
         MissedFinal, Finalize, BuildPart, UploadFinal, Tidy, Wipe, RetryLater, Done, StartThrows,
         Throw, MarkFailedThrows, Crash, LoseLock, Checkpoint, Complete, MarkFailed, Claim,
         ClaimFinal, ConfirmCancel, Park, RequestBegin, RequestStep, RequestFault, CreateRow,
         CancelRead, ResumeRead, CancelNow, Cleanup, AskCancel, ResumeClaim, Enqueue,
         EnqueueRefused, Undo, EnqueueThrows, Abort, Stalled, Pause, Expire, SweepStep,
         SweepDelete, SweepMark, SweepStale, Hire, Leave
    <3> QED
      BY <3>1 DEF SweepExpired, Open, Live
  <2> QED
    BY <2>1, <2>2
<1> QED
  BY <1>1, <1>2, <1>3 DEF DeletersAreLate

\* How a worker comes to be in the extraction loop with the batch it has.
LEMMA LoopMoves ==
  ASSUME TypeInv, NEW w \in Workers, Take(w) \/ WorkerStep(w) \/ WorkerFault(w),
         worker'[w].pc \in Looping
  PROVE  \/ worker'[w] = worker[w]
         \/ /\ worker[w].pc \in Looping /\ worker'[w].batch = worker[w].batch
            /\ worker'[w].pc = "checkpoint" => Upload(w)
         \/ worker'[w].pc # "checkpoint" /\ worker'[w].batch = row.nextBatch
         \/ Checkpoint(w) /\ worker'[w].pc = "read" /\ worker'[w].batch = worker[w].batch + 1
<1>0. worker \in [Workers -> WorkerType] /\ worker[w] \in WorkerType
  BY DEF TypeInv, TypeOK
<1> USE <1>0
<1>1. CASE Start(w)
  <2> DEFINE pc == Entry(row.status)
  <2>1. worker' = [worker EXCEPT ![w] =
          [worker[w] EXCEPT !.pc = pc, !.cursor = row.cursor, !.batch = row.nextBatch]]
    BY <1>1 DEF Start
  <2>2. pc # "checkpoint"
    BY DEF Entry
  <2> HIDE DEF pc
  <2>3. worker'[w].pc = pc /\ worker'[w].batch = row.nextBatch
    BY <2>1 DEF WorkerType
  <2> QED
    BY <2>2, <2>3
<1>2. CASE Claim(w)
  BY <1>2 DEF Claim, At, Goto, WorkerType, Looping
<1>3. CASE ReadState(w)
  <2> DEFINE pc == CASE row.status = "CANCELLING" -> "wipe"
                     [] row.status = "PAUSING"    -> "park"
                     [] OTHER                     -> "fetch"
  <2>1. /\ worker[w].pc = "read"
        /\ worker' = [worker EXCEPT ![w] =
             [worker[w] EXCEPT !.base = row.processedRows, !.pc = pc]]
    BY <1>3 DEF ReadState, At
  <2>2. pc # "checkpoint"
    OBVIOUS
  <2> HIDE DEF pc
  <2>3. worker'[w].pc = pc /\ worker'[w].batch = worker[w].batch
    BY <2>1 DEF WorkerType
  <2> QED
    BY <2>1, <2>2, <2>3 DEF Looping
<1>4. CASE Fetch(w)
  <2>1. PICK pc \in {"claimFinal", "upload"} : worker' = [worker EXCEPT ![w] =
          [worker[w] EXCEPT !.chunk = Page(worker[w].cursor), !.pc = pc]]
    BY <1>4 DEF Fetch
  <2>2. worker'[w].pc = pc /\ worker'[w].batch = worker[w].batch
    BY <2>1 DEF WorkerType
  <2> QED
    BY <1>4, <2>2 DEF Fetch, At, Looping
<1>5. CASE Upload(w)
  BY <1>5 DEF Upload, At, Goto, WorkerType, Looping
<1>6. CASE Checkpoint(w)
  <2> DEFINE last == Last(worker[w].chunk)
             next == worker[w].batch + 1
  <2>1. worker' = [worker EXCEPT ![w] =
          [worker[w] EXCEPT !.pc = "read", !.cursor = last, !.batch = next, !.chunk = {}]]
    BY <1>6 DEF Checkpoint
  <2> HIDE DEF last, next
  <2>2. worker'[w].pc = "read" /\ worker'[w].batch = next
    BY <2>1 DEF WorkerType
  <2> QED
    BY <1>6, <2>2 DEF next
<1>7. CASE Take(w)
  <2>1. PICK j \in jobs : worker' = [worker EXCEPT ![w] =
          [worker[w] EXCEPT !.pc = "start", !.job = j.id, !.made = j.made]]
    BY <1>7 DEF Take
  <2> QED
    BY <2>1 DEF WorkerType, Looping
<1>8. CASE Finalize(w)
  <2>1. worker'[w].pc \in {"done", "build"}
    <3> DEFINE pc == IF row.status \in Terminal THEN "done" ELSE "build"
               parts == row.nextBatch - 1
    <3>1. worker' = [worker EXCEPT ![w] =
            [worker[w] EXCEPT !.parts = parts, !.built = << >>, !.pc = pc]]
      BY <1>8 DEF Finalize
    <3>2. pc \in {"done", "build"}
      OBVIOUS
    <3> HIDE DEF pc, parts
    <3> QED
      BY <3>1, <3>2 DEF WorkerType
  <2> QED
    BY <2>1 DEF Looping
<1>9. CASE BuildPart(w)
  <2>1. worker'[w].pc \in {"build", "caught"}
    BY <1>9 DEF BuildPart, At, Goto, WorkerType
  <2> QED
    BY <2>1 DEF Looping
<1>10. CASE ClaimFinal(w) \/ MissedFinal(w) \/ UploadFinal(w) \/ Complete(w) \/ Tidy(w)
  BY <1>10 DEF ClaimFinal, MissedFinal, UploadFinal, Complete, Tidy, Goto, WorkerType, Looping
<1>11. CASE Wipe(w) \/ ConfirmCancel(w) \/ Park(w) \/ Throw(w) \/ MarkFailed(w)
  BY <1>11 DEF Wipe, ConfirmCancel, Park, Throw, MarkFailed, Goto, WorkerType, Looping
<1>12. CASE RetryLater(w) \/ Done(w) \/ StartThrows(w) \/ MarkFailedThrows(w) \/ Crash(w)
  <2>1. worker' = [worker EXCEPT ![w] = IdleWorker]
    BY <1>12 DEF RetryLater, Done, StartThrows, MarkFailedThrows, Crash, Rethrow, Return
  <2> QED
    BY <2>1 DEF IdleWorker, Looping
<1>13. CASE LoseLock(w)
  BY <1>13 DEF LoseLock
<1> QED
  BY <1>1, <1>2, <1>3, <1>4, <1>5, <1>6, <1>7, <1>8, <1>9, <1>10, <1>11, <1>12, <1>13
     DEF WorkerStep, WorkerFault

\* A step of one worker leaves the others alone.
LEMMA OneWorker ==
  ASSUME NEW w \in Workers, Take(w) \/ WorkerStep(w) \/ WorkerFault(w), TypeInv,
         NEW v \in Workers, v # w
  PROVE  worker'[v] = worker[v]
<1>1. worker \in [Workers -> WorkerType]
  BY DEF TypeInv, TypeOK
<1> QED
  BY <1>1 DEF Take, WorkerStep, WorkerFault, Start, Claim, ReadState, Fetch, Upload, Checkpoint,
     ClaimFinal, MissedFinal, Finalize, BuildPart, UploadFinal, Complete, Tidy, Wipe,
     ConfirmCancel, Park, RetryLater, MarkFailed, Done, StartThrows, Throw, MarkFailedThrows,
     Crash, LoseLock, Goto, Rethrow, Return

\* Only a checkpoint moves nextBatch.
LEMMA OnlyCheckpointMoves ==
  ASSUME TypeInv, Next, \A w \in Workers : ~Checkpoint(w)
  PROVE  row'.nextBatch = row.nextBatch
<1>0. RowOK
  BY DEF TypeInv, TypeOK
<1>set. ASSUME NEW s, row' = [row EXCEPT !.status = s] PROVE row'.nextBatch = row.nextBatch
  BY <1>0, <1>set DEF RowOK
<1>flip. ASSUME NEW from, NEW to, Flip(from, to) PROVE row'.nextBatch = row.nextBatch
  BY <1>flip, <1>set DEF Flip
<1>same. ASSUME row' = row PROVE row'.nextBatch = row.nextBatch
  BY <1>same
<1>1. ASSUME NEW w \in Workers, Take(w) \/ WorkerStep(w) \/ WorkerFault(w)
      PROVE  row'.nextBatch = row.nextBatch
  <2>1. CASE Claim(w) \/ ClaimFinal(w) \/ ConfirmCancel(w) \/ Park(w)
    BY <2>1, <1>flip DEF Claim, ClaimFinal, ConfirmCancel, Park
  <2>2. CASE Complete(w)
    BY <1>0, <2>2 DEF Complete, RowOK
  <2>3. CASE MarkFailed(w)
    BY <2>3, <1>set, <1>same DEF MarkFailed
  <2>4. CASE row' = row
    BY <2>4
  <2> QED
    BY <1>1, <2>1, <2>2, <2>3, <2>4 DEF Take, WorkerStep, WorkerFault, Start, ReadState, Fetch,
       Upload, MissedFinal, Finalize, BuildPart, UploadFinal, Tidy, Wipe, RetryLater, Done,
       StartThrows, Throw, MarkFailedThrows, Crash, LoseLock
<1>2. ASSUME NEW r \in Requests, RequestBegin(r) \/ RequestStep(r) \/ RequestFault(r)
      PROVE  row'.nextBatch = row.nextBatch
  <2>1. CASE CreateRow(r)
    BY <2>1, <1>set DEF CreateRow
  <2>2. CASE CancelNow(r) \/ AskCancel(r) \/ ResumeClaim(r)
    BY <2>2, <1>flip DEF CancelNow, AskCancel, ResumeClaim
  <2>3. CASE Undo(r)
    BY <2>3, <1>set, <1>flip DEF Undo
  <2>4. CASE row' = row
    BY <2>4
  <2> QED
    BY <1>2, <2>1, <2>2, <2>3, <2>4 DEF RequestBegin, RequestStep, RequestFault, CancelRead,
       ResumeRead, Cleanup, Enqueue, EnqueueRefused, EnqueueThrows, Abort
<1>3. CASE Pause \/ SweepMark
  BY <1>3, <1>flip DEF Pause, SweepMark
<1>4. CASE Stalled \/ Expire \/ SweepExpired \/ SweepDelete \/ SweepStale
  BY <1>4 DEF Stalled, Expire, SweepExpired, SweepDelete, SweepStale
<1>5. ASSUME NEW e \in Ids, Hire(e) \/ Leave(e) PROVE row'.nextBatch = row.nextBatch
  BY <1>5 DEF Hire, Leave
<1> QED
  BY <1>1, <1>2, <1>3, <1>4, <1>5 DEF Next, SweepStep

\* The durability invariant is inductive.
LEMMA DurableStep == DurableInv /\ [Next]_vars => DurableInv'
<1> SUFFICES ASSUME DurableInv, [Next]_vars PROVE DurableInv'
  OBVIOUS
<1>0. TypeInv /\ DeletersAreLate
  BY DEF DurableInv
<1>1. CASE Next
  <2>1. TypeInv' /\ DeletersAreLate'
    BY <1>0, <1>1, TypeStep, LateStep
  <2>2. ASSUME row'.status \in Open
        PROVE  Staged(row.nextBatch - 1)' /\ \A w \in Workers : WorkerDurable(w)'
    <3>1. row.status \in Open /\ DOMAIN staging \subseteq DOMAIN staging'
      BY <1>0, <1>1, <2>2, EndIsEnd, ChunksKept
    <3>2. /\ Staged(row.nextBatch - 1) /\ \A w \in Workers : WorkerDurable(w)
          /\ row.nextBatch \in Nat /\ \A w \in Workers : worker[w].batch \in Nat
      BY <1>0, <3>1 DEF DurableInv, TypeInv, TypeOK, RowOK, WorkerType
    <3>3. ASSUME NEW n \in Int, Staged(n) PROVE \A p \in 1 .. n : p \in DOMAIN staging'
      BY <3>1, <3>3 DEF Staged
    <3>4. ASSUME NEW w \in Workers, Checkpoint(w)
          PROVE  /\ row'.nextBatch = worker[w].batch + 1
                 /\ \A p \in 1 .. worker[w].batch : p \in DOMAIN staging'
      <4>1. row'.nextBatch = worker[w].batch + 1
        BY <1>0, <3>4 DEF Checkpoint, TypeInv, TypeOK, RowOK
      <4>2. Staged(worker[w].batch - 1) /\ worker[w].batch \in DOMAIN staging
        BY <3>2, <3>4 DEF Checkpoint, At, WorkerDurable, Looping
      <4>3. Staged(worker[w].batch)
        BY <3>2, <4>2 DEF Staged
      <4> QED
        BY <3>2, <3>3, <4>1, <4>3
    <3>5. Staged(row.nextBatch - 1)'
      <4>1. CASE \E w \in Workers : Checkpoint(w)
        BY <3>2, <3>4, <4>1 DEF Staged
      <4>2. CASE \A w \in Workers : ~Checkpoint(w)
        BY <1>0, <1>1, <3>2, <3>3, <4>2, OnlyCheckpointMoves DEF Staged
      <4> QED
        BY <4>1, <4>2
    <3>6. ASSUME NEW w \in Workers PROVE WorkerDurable(w)'
      <4>same. ASSUME worker'[w] = worker[w] PROVE WorkerDurable(w)'
        BY <3>1, <3>2, <3>3, <4>same DEF WorkerDurable, Staged
      <4>1. ASSUME NEW u \in Workers, Take(u) \/ WorkerStep(u) \/ WorkerFault(u)
            PROVE  WorkerDurable(w)'
        <5>1. CASE u # w
          BY <1>0, <4>1, <5>1, <4>same, OneWorker
        <5>2. CASE u = w /\ worker'[w].pc \notin Looping
          BY <5>2 DEF WorkerDurable, Looping
        <5>3. CASE /\ u = w /\ worker'[w].pc \in Looping /\ worker[w].pc \in Looping
                   /\ worker'[w].batch = worker[w].batch
                   /\ worker'[w].pc = "checkpoint" => Upload(w)
          <6>1. \A p \in 1 .. worker[w].batch - 1 : p \in DOMAIN staging'
            BY <3>2, <3>3, <5>3 DEF WorkerDurable
          <6>2. Upload(w) => worker[w].batch \in DOMAIN staging'
            BY DEF Upload
          <6> QED
            BY <5>3, <6>1, <6>2 DEF WorkerDurable, Staged
        <5>4. CASE u = w /\ worker'[w].pc # "checkpoint" /\ worker'[w].batch = row.nextBatch
          BY <3>2, <3>3, <5>4 DEF WorkerDurable, Staged
        <5>5. CASE /\ u = w /\ Checkpoint(w) /\ worker'[w].pc = "read"
                   /\ worker'[w].batch = worker[w].batch + 1
          BY <3>2, <3>4, <5>5 DEF WorkerDurable, Staged
        <5> QED
          BY <1>0, <4>1, <4>same, <5>1, <5>2, <5>3, <5>4, <5>5, LoopMoves
      <4>2. CASE worker' = worker
        BY <4>2, <4>same
      <4> QED
        BY <1>1, <4>1, <4>2, OthersKeepWorkers DEF Next
    <3> QED
      BY <3>5, <3>6
  <2> QED
    BY <2>1, <2>2 DEF DurableInv
<1>2. CASE UNCHANGED vars
  <2>1. TypeInv'
    BY <1>0, <1>2, TypeStep
  <2> QED
    BY <1>2, <2>1 DEF vars, objects, DurableInv, DeletersAreLate, WorkerDurable, Staged
<1> QED
  BY <1>1, <1>2

\* "Checkpoint only after the chunk is durable": with any number of workers that
\* crash, stall, lose their lock and go on, and with every call failing, a part
\* the row counts is in storage for as long as the export can be finished.
THEOREM Durable == Spec => []CheckpointDurable
<1>1. DurableInv => CheckpointDurable
  BY DEF DurableInv, Open, Staged, CheckpointDurable
<1> QED
  BY DurableInit, DurableStep, <1>1, PTL DEF Spec

================================================================================
