---------------------------- MODULE EmployeeImport ----------------------------
(* The life of one employee import: its database row, the objects it owns in  *)
(* storage, its BullMQ jobs, the workers that validate and apply the file,    *)
(* the HTTP requests around them, the hourly sweeper, and the directory that  *)
(* others change meanwhile.                                                   *)
(*                                                                            *)
(* One action is what happens between two awaits.  Rows are numbered from 1;  *)
(* the code counts the header too and starts at 2.                            *)
EXTENDS ImportRows

CONSTANTS
  Worker,           \* processes that consume the import queue, one job each
  Request,          \* API handlers that can be in flight at the same time
  Files,            \* files the user may have: [headers, rows, broken]
  Hired,            \* the directory at the beginning: number -> employee
  Opened,           \* the departments at the beginning
  Answers,          \* columns the model may give to a header the names leave open
  Proposals,        \* departments the model may propose for a missing one
  BatchSize,        \* EMPLOYEE_IMPORT_APPLY_BATCH_SIZE
  ChunkSize,        \* EMPLOYEE_IMPORT_NORMALIZED_CHUNK_SIZE
  MaxAttempts,      \* EMPLOYEE_IMPORT_MAX_ATTEMPTS
  MaxStalledCount,  \* BullMQ: times a job may stall before it is failed
  Bounds            \* what users, colleagues and faults may still do, see Limits

\* What is bounded: upload-complete, confirm, pause, resume and cancel requests; calls that throw
\* and do nothing ("errors"); adding a job that is stored and throws all the same
\* ("replies"); worker processes killed in the middle of a job; changes others
\* make to the directory ("churn").  "expiry" is whether a day may go by, and
\* "mishaps" bounds all of these but the requests together.
Limits == {"requests", "errors", "replies", "crashes", "churn", "expiry", "mishaps"}

ASSUME BoundsAssumption == Bounds \in [Limits -> Nat]
ASSUME SizeAssumption ==
  /\ BatchSize \in Nat \ {0} /\ ChunkSize \in Nat \ {0}
  /\ MaxAttempts \in Nat \ {0} /\ MaxStalledCount \in Nat
ASSUME OwnerAssumption == None \notin Worker

\* A file is lines of cells, and under the columns its headers turn out to be each
\* cell says something that column can say, or is refused there.
ASSUME FileAssumption ==
  \A f \in Files :
    /\ f.headers \in Seq(Header) /\ f.broken \in BOOLEAN
    /\ f.rows \in Seq(Seq(Number \cup Mail \cup Name \cup Code \cup Rest \cup Unread))
    /\ \A ai \in [Open -> Answers] :
         LET cols == Resolve(f.headers, ai)
         IN  f.broken \/ BadHeaders(cols)
               \/ \A i \in DOMAIN f.rows : RowOf(f.rows[i], cols) \in RawRow
ASSUME DirectoryAssumption ==
  /\ DOMAIN Hired \subseteq Number /\ \A n \in DOMAIN Hired : Hired[n] \in Employee
  /\ Opened \subseteq Department /\ Proposals \subseteq Proposal
  /\ Answers \subseteq Column \cup {None}

VARIABLES
  row,          \* the EmployeeImport row
  file,         \* the file the user has (never changes)
  source,       \* source/original.<ext>: "none", "there" or "deleted"
  parts,        \* normalized/part-<n>.ndjson: part number -> the rows in it
  staff,        \* the directory: number -> employee
  departments,  \* the Department rows
  written,      \* rows of the file whose write was committed (history)
  jobs,         \* the jobs the queue knows for this import
  worker,       \* worker -> what its process() call has reached and holds
  request,      \* handler -> what it has reached and holds
  sweeper,      \* the cleanup job: what it has reached, and the status it read
  expired,      \* expiresAt <= now
  swept,        \* the sweeper deleted objects of a live import (history)
  overtaken,    \* a write by id alone met a status it was not meant for, or a job
                \* took up what another had begun or ended (history)
  left          \* what remains of Bounds

objects == <<source, parts>>
directory == <<staff, departments, written>>
cleanup == <<file, sweeper, expired, swept>>
outside == <<cleanup, overtaken>>
vars == <<row, objects, directory, jobs, worker, request, outside, left>>

Cancelled == {"CANCELLED", "CANCELLED_PARTIAL"}
Completed == {"COMPLETED", "COMPLETED_WITH_ERRORS"}
Terminal == Cancelled \cup Completed \cup {"FAILED", "EXPIRED"}
InProgress == {"QUEUED", "VALIDATING", "APPLY_QUEUED", "APPLYING", "PAUSING", "CANCELLING"}
\* cancel takes an import in these out at once, no worker being at it.
Idle == {"AWAITING_UPLOAD", "QUEUED", "PAUSED", "READY_FOR_REVIEW", "APPLY_QUEUED"}
Status == Terminal \cup InProgress \cup Idle \cup {"ABSENT"}

Counters == [processed |-> 0, created |-> 0, updated |-> 0, failed |-> 0]

\* The defaults of the table; "ABSENT" until the row is inserted.
FreshRow ==
  [status |-> "ABSENT", prefix |-> FALSE, invalid |-> 0, total |-> 0, unchanged |-> 0,
   plan |-> << >>, createMissing |-> FALSE, last |-> 0, counts |-> Counters]

\* Mutant: the checkpoint is not taken over.
Glance_NoCheckpoint(r) ==
  [status |-> r.status, last |-> 0, createMissing |-> r.createMissing, plan |-> r.plan]

\* What a handler keeps of the row it read.
Glance(r) == [status |-> r.status, last |-> r.last, createMissing |-> r.createMissing,
              plan |-> r.plan]

IdleWorker ==
  [pc |-> "idle", job |-> << >>, made |-> 0, cols |-> << >>, at |-> 0, wrong |-> {}, good |-> {},
   seen |-> Glance(FreshRow), known |-> {}, todo |-> {}, alias |-> << >>, part |-> 1, eof |-> FALSE,
   buffer |-> {}, batch |-> {}, staff |-> << >>, tx |-> {}, aborted |-> FALSE,
   counts |-> Counters]
IdleRequest == [pc |-> "idle", op |-> "none", create |-> FALSE, seen |-> Glance(FreshRow)]

Init ==
  /\ row = FreshRow /\ file \in Files
  /\ source = "none" /\ parts = << >>
  /\ staff = Hired /\ departments = Opened /\ written = {}
  /\ jobs = {}
  /\ worker = [w \in Worker |-> IdleWorker]
  /\ request = [r \in Request |-> IdleRequest]
  /\ sweeper = [pc |-> "idle", seen |-> "ABSENT"] /\ expired = FALSE
  /\ swept = FALSE /\ overtaken = FALSE
  /\ left = Bounds

Ask == left["requests"] > 0 /\ left' = [left EXCEPT !["requests"] = @ - 1]
Spend(limit) ==
  /\ left[limit] > 0 /\ left["mishaps"] > 0
  /\ left' = [left EXCEPT ![limit] = @ - 1, !["mishaps"] = @ - 1]

\* updateMany({where: {status: {in: from}}, data: {status: to}}); a miss changes nothing.
Flip(from, to) == row' = IF row.status \in from THEN [row EXCEPT !.status = to] ELSE row

DeletePrefix == source' = (IF source = "none" THEN "none" ELSE "deleted") /\ parts' = << >>

------------------------------------------------------------------------------
(* The queue.  A job keeps its id while it waits, runs, or is kept as failed; *)
(* a completed one is removed.  Adding a known id is silently ignored.        *)

Added(id) ==
  IF \E j \in jobs : j.id = id THEN jobs
  ELSE jobs \cup {[id |-> id, state |-> "waiting", made |-> 0, stalls |-> 0, owner |-> None]}

Held(w) == {j \in jobs : j.id = worker[w].job /\ j.owner = w}

At(w, pc) == worker[w].pc = pc
Becomes(w, next) == worker' = [worker EXCEPT ![w] = next]
Goto(w, pc) == Becomes(w, [worker[w] EXCEPT !.pc = pc])

Take(w) ==
  /\ At(w, "idle")
  /\ \E j \in jobs :
       /\ j.state = "waiting"
       /\ jobs' = (jobs \ {j}) \cup {[j EXCEPT !.state = "active", !.owner = w]}
       /\ Becomes(w, [IdleWorker EXCEPT !.pc = IF j.id[1] = "validate" THEN "claim" ELSE "look",
                                        !.job = j.id, !.made = j.made])
  /\ UNCHANGED <<row, objects, directory, request, outside, left>>

\* process() returns: the job is complete.
Return(w) ==
  /\ At(w, "return")
  /\ jobs' = jobs \ Held(w)
  /\ Becomes(w, IdleWorker)
  /\ UNCHANGED <<row, objects, directory, request, outside, left>>

\* Another worker's check finds an active job nobody renews.
Stalled ==
  /\ \E j \in jobs :
       /\ j.state = "active" /\ j.owner = None
       /\ jobs' = (jobs \ {j}) \cup
            {[j EXCEPT !.stalls = @ + 1,
                       !.state = IF j.stalls + 1 > MaxStalledCount THEN "failed" ELSE "waiting"]}
  /\ UNCHANGED <<row, objects, directory, worker, request, outside, left>>

------------------------------------------------------------------------------
(* Validation: validateImport.                                                *)

ClaimValidation(w) ==
  /\ At(w, "claim")
  /\ Flip({"QUEUED", "VALIDATING"}, "VALIDATING")
  /\ Goto(w, IF row.status \in {"QUEUED", "VALIDATING"} THEN "parse" ELSE "return")
  /\ UNCHANGED <<objects, directory, jobs, request, outside, left>>

\* The file is downloaded, its headers resolved and the departments loaded.
Parse(w) ==
  /\ At(w, "parse") /\ source = "there"
  /\ \E ai \in [Open -> Answers] :
       LET cols == Resolve(file.headers, ai)
       IN  Becomes(w, [worker[w] EXCEPT
             !.cols = cols, !.known = departments,
             !.pc = IF file.broken \/ BadHeaders(cols) THEN "refuse"
                    ELSE IF file.rows = << >> THEN "plan" ELSE "classify"])
  /\ row' = IF row.status = "VALIDATING" /\ ~file.broken
            THEN [row EXCEPT !.total = Len(file.rows)] ELSE row
  /\ UNCHANGED <<objects, directory, jobs, request, outside, left>>

\* The object is gone: its download throws.
ParseNothing(w) ==
  /\ At(w, "parse") /\ source # "there"
  /\ Goto(w, "caught")
  /\ UNCHANGED <<row, objects, directory, jobs, request, outside, left>>

\* FAILED is written by id alone: for a fatal error of the file, for bad headers,
\* and by an apply job that finds nothing staged.
Refuse(w) ==
  /\ At(w, "refuse")
  /\ row' = [row EXCEPT !.status = "FAILED"]
  /\ Goto(w, "return")
  /\ UNCHANGED <<objects, directory, jobs, request, outside, left>>

Rows(cols) == [i \in DOMAIN file.rows |-> RowOf(file.rows[i], cols)]

\* One batch is looked up in the directory and classified; then the progress is
\* written, unless the import is not VALIDATING any more.
Classify(w) ==
  LET me == worker[w]
      rows == Rows(me.cols)
      upTo == IF me.at + BatchSize < Len(rows) THEN me.at + BatchSize ELSE Len(rows)
      batch == (me.at + 1) .. upTo
      wrong == BatchErrors(rows, batch, staff, me.wrong)
  IN
  /\ At(w, "classify")
  /\ Becomes(w, [me EXCEPT
       !.at = upTo, !.wrong = @ \cup wrong,
       !.good = @ \cup {Normalized(rows, i, staff) : i \in batch \ wrong},
       !.pc = IF row.status # "VALIDATING" THEN "abandon"
              ELSE IF upTo < Len(rows) THEN "classify" ELSE "plan"])
  /\ UNCHANGED <<row, objects, directory, jobs, request, outside, left>>

\* planDepartments, with what the model proposes for names without a sheet code.
PlanDepartments(w) ==
  LET me == worker[w]
      rows == Rows(me.cols)
      missing == Missing(me.good, me.known)
      codes == [key \in Name |-> SheetCode(rows, Len(rows), me.wrong, key)]
  IN
  /\ At(w, "plan")
  /\ \E ai \in [missing -> Proposals \cup {None}] :
       Becomes(w, [me EXCEPT !.seen.plan = Plan(missing, codes, ai), !.pc = "stage"])
  /\ UNCHANGED <<row, objects, directory, jobs, request, outside, left>>

\* Mutant: a part is closed one row early.
Chunk_Early(good, n) ==
  {g \in good : Cardinality({h \in good : h.row <= g.row}) \div ChunkSize = n - 1}

\* The n-th group of good rows, in file order.
Chunk(good, n) ==
  {g \in good : LET before == Cardinality({h \in good : h.row < g.row})
                IN  before \div ChunkSize = n - 1}

Stage(w) ==
  LET me == worker[w] chunk == Chunk(me.good, me.part) IN
  /\ At(w, "stage") /\ chunk # {}
  /\ parts' = [p \in DOMAIN parts \cup {me.part} |-> IF p = me.part THEN chunk ELSE parts[p]]
  /\ Becomes(w, [me EXCEPT !.part = @ + 1])
  /\ UNCHANGED <<row, source, directory, jobs, request, outside, left>>

\* The report is uploaded, then "a validation cancel must win over its final write".
Ready(w) ==
  LET me == worker[w] IN
  /\ At(w, "stage") /\ Chunk(me.good, me.part) = {}
  /\ row' = IF row.status # "VALIDATING" THEN row
            ELSE [row EXCEPT !.status = "READY_FOR_REVIEW", !.prefix = TRUE,
                             !.total = Len(file.rows), !.invalid = Cardinality(me.wrong),
                             !.unchanged = Cardinality({g \in me.good : g.kind = "UNCHANGED"}),
                             !.plan = me.seen.plan]
  /\ Goto(w, IF row.status = "VALIDATING" THEN "return" ELSE "abandon")
  /\ UNCHANGED <<objects, directory, jobs, request, outside, left>>

Abandon(w) ==
  /\ At(w, "abandon")
  /\ Flip({"CANCELLING"}, "CANCELLED")
  /\ Goto(w, IF row.status = "CANCELLING" THEN "discard" ELSE "return")
  /\ UNCHANGED <<objects, directory, jobs, request, outside, left>>

Discard(w) ==
  /\ At(w, "discard")
  /\ DeletePrefix
  /\ Goto(w, "return")
  /\ UNCHANGED <<row, directory, jobs, request, outside, left>>

------------------------------------------------------------------------------
(* Application: applyImport.                                                  *)

\* Mutant: a resumed import counts from zero again.
Look_FromZero(w) ==
  /\ At(w, "look")
  /\ Becomes(w, [worker[w] EXCEPT
       !.seen = Glance(row),
       !.pc = IF row.status \in Terminal \ {"FAILED"} THEN "return"
              ELSE IF ~row.prefix THEN "refuse" ELSE "claimApply"])
  /\ UNCHANGED <<row, objects, directory, jobs, request, outside, left>>

\* The row is read; checkpoint and counters come from this read.
Look(w) ==
  /\ At(w, "look")
  /\ Becomes(w, [worker[w] EXCEPT
       !.seen = Glance(row), !.counts = row.counts,
       !.pc = IF row.status \in Terminal \ {"FAILED"} THEN "return"
              ELSE IF ~row.prefix THEN "refuse" ELSE "claimApply"])
  /\ UNCHANGED <<row, objects, directory, jobs, request, outside, left>>

Applying(w) ==
  worker[w].pc \in {"resolve", "part", "state", "halt", "park", "write", "checkpoint", "finish",
                    "late"}

\* An attempt that finds the claim of an earlier one goes on from there.  What it
\* found may be the claim of another job, though, that is still at it or has ended.
ClaimApply(w) ==
  LET me == worker[w] IN
  /\ At(w, "claimApply")
  /\ Flip({"APPLY_QUEUED"}, "APPLYING")
  /\ IF row.status = "APPLY_QUEUED" \/ me.seen.status = "APPLYING"
     THEN /\ Becomes(w, [me EXCEPT !.pc = "resolve", !.known = departments,
                                   !.todo = DOMAIN me.seen.plan])
          /\ overtaken' = \/ overtaken
                          \/ \E v \in Worker : Applying(v)
                          \/ row.status \notin {"APPLY_QUEUED", "APPLYING", "PAUSING", "CANCELLING"}
     ELSE Goto(w, "return") /\ UNCHANGED overtaken
  /\ UNCHANGED <<objects, directory, jobs, request, cleanup, left>>

\* An existing department takes the planned name's place ...
ResolveKnown(w, from, target) ==
  LET me == worker[w] key == Normal[target.name] IN
  /\ Known(me.known, key)
  /\ Becomes(w, [me EXCEPT !.todo = @ \ {from},
                           !.alias = [k \in DOMAIN @ \cup {Normal[from]} |->
                                        IF k = Normal[from] THEN key ELSE @[k]]])
  /\ UNCHANGED <<row, departments>>

\* ... none, and the user did not ask to create it ...
ResolveRefused(w, target) ==
  /\ ~Known(worker[w].known, Normal[target.name]) /\ ~worker[w].seen.createMissing
  /\ Flip({"APPLYING"}, "FAILED")
  /\ Goto(w, "return")
  /\ UNCHANGED departments

\* Mutant: the unique index is on the name as it is spelled.
ResolveCreate_ByName(w, target) ==
  LET me == worker[w]
      free == FreeCodes(target.code, departments)
      new == [name |-> target.name, code |-> <<target.code, Least(free)>>]
  IN
  /\ ~Known(me.known, Normal[target.name]) /\ me.seen.createMissing /\ free # {}
  /\ \A d \in departments : d.name # target.name
  /\ departments' = departments \cup {new}
  /\ Becomes(w, [me EXCEPT !.known = @ \cup {new}])
  /\ UNCHANGED row

\* ... or it is created under the first free code, unless someone else has just
\* created it: then the unique index says so and the list is read again.
ResolveCreate(w, target) ==
  LET me == worker[w]
      key == Normal[target.name]
      free == FreeCodes(target.code, departments)
      new == [name |-> target.name, code |-> <<target.code, Least(free)>>]
  IN
  /\ ~Known(me.known, key) /\ me.seen.createMissing
  /\ IF Known(departments, key)
     THEN Becomes(w, [me EXCEPT !.known = departments]) /\ UNCHANGED departments
     ELSE IF free = {} THEN Goto(w, "caught") /\ UNCHANGED departments
     ELSE /\ departments' = departments \cup {new}
          /\ Becomes(w, [me EXCEPT !.known = @ \cup {new}])
  /\ UNCHANGED row

ResolveDepartment(w) ==
  /\ At(w, "resolve")
  /\ \E from \in worker[w].todo :
       LET target == Planned(worker[w].seen.plan, from)
       IN  \/ ResolveKnown(w, from, target)
           \/ ResolveRefused(w, target)
           \/ ResolveCreate(w, target)
  /\ UNCHANGED <<objects, staff, written, jobs, request, outside, left>>

\* What to do once the rows in the buffer are these.
NextPc(buffer, eof) ==
  IF eof THEN (IF buffer = {} THEN "finish" ELSE "state")
  ELSE IF Cardinality(buffer) >= BatchSize THEN "state" ELSE "part"

\* Every department known by its own name, too.
Resolved(w) ==
  LET me == worker[w] keys == {Normal[d.name] : d \in me.known} IN
  /\ At(w, "resolve") /\ me.todo = {}
  /\ Becomes(w, [me EXCEPT !.pc = "part",
                           !.alias = [k \in DOMAIN @ \cup keys |-> IF k \in keys THEN k ELSE @[k]]])
  /\ UNCHANGED <<row, objects, directory, jobs, request, outside, left>>

\* The parts are read in order, rows up to the checkpoint skipped; the first one
\* that does not exist is the end.
ReadPart(w) ==
  LET me == worker[w]
      there == me.part \in DOMAIN parts
      buffer == me.buffer \cup
                  (IF there THEN {item \in parts[me.part] : item.row > me.seen.last} ELSE {})
  IN
  /\ At(w, "part")
  /\ Becomes(w, [me EXCEPT !.buffer = buffer, !.part = @ + 1, !.eof = ~there,
                           !.pc = NextPc(buffer, ~there)])
  /\ UNCHANGED <<row, objects, directory, jobs, request, outside, left>>

FirstRows(buffer) ==
  {g \in buffer : Cardinality({h \in buffer : h.row < g.row}) < BatchSize}

\* Before each batch the status is read: only CANCELLING and PAUSING stop it.
\* Then the employees that the batch is about are looked up.
ReadState(w) ==
  LET me == worker[w] IN
  /\ At(w, "state")
  /\ Becomes(w, CASE row.status = "CANCELLING" -> [me EXCEPT !.pc = "halt"]
                  [] row.status = "PAUSING"    -> [me EXCEPT !.pc = "park"]
                  [] OTHER -> [me EXCEPT !.pc = "write", !.batch = FirstRows(me.buffer),
                                         !.todo = FirstRows(me.buffer), !.staff = staff])
  /\ UNCHANGED <<row, objects, directory, jobs, request, outside, left>>

\* CANCELLED_PARTIAL or CANCELLED, by the worker's own counter.
Halt(w) ==
  /\ At(w, "halt")
  /\ Flip({"CANCELLING"}, IF worker[w].counts.processed > 0 THEN "CANCELLED_PARTIAL" ELSE "CANCELLED")
  /\ Goto(w, "return")
  /\ UNCHANGED <<objects, directory, jobs, request, outside, left>>

Park(w) ==
  /\ At(w, "park")
  /\ Flip({"PAUSING"}, "PAUSED")
  /\ Goto(w, "return")
  /\ UNCHANGED <<objects, directory, jobs, request, outside, left>>

NameOf(key) == (CHOOSE d \in departments : Normal[d.name] = key).name

\* What the transactions of other workers have written and not committed.  A statement
\* that touches the same employee, email or department waits for their end; an error
\* of the database is the end.
InFlight(others) ==
  UNION {worker[v].tx : v \in {u \in others : At(u, "write") /\ ~worker[u].aborted}}
Locked(tx, number, mail) == \E g \in tx : g.number = number \/ (mail # None /\ g.mail = mail)

\* A transaction's writes, one for each employee.
Wrote(tx, new) == {g \in tx : g.number # new.number} \cup {new}

\* The directory as the transaction sees it after the rows it wrote.
Overlay(tx) ==
  [n \in DOMAIN staff \cup {g.number : g \in tx} |->
     IF \E g \in tx : g.number = n
     THEN LET g == CHOOSE g \in tx : g.number = n
          IN  [mail |-> g.mail, department |-> g.department, rest |-> g.rest]
     ELSE staff[n]]

\* Mutant: what the review said decides between create and update.
Exists_AsReviewed(me, item) == item.kind = "UPDATE"

\* The look-up before the batch decides, not what the review found.
Exists(me, item) == item.number \in DOMAIN me.staff

\* One row inside the transaction.  An error of the database is caught and counted
\* like any other, but it has aborted the transaction: nothing else in it succeeds
\* and the final COMMIT rolls it back.  An employee deleted meanwhile is no error
\* of the database.
ApplyRow(w) ==
  LET me == worker[w]
      item == CHOOSE g \in me.todo : \A h \in me.todo : g.row <= h.row
      key == Normal[item.department]
      current == Exists(me, item)
      refused == key \notin DOMAIN me.alias \/ Owned(me.staff, item.number, item.mail)
      clash == \/ Owned(Overlay(me.tx), item.number, item.mail)
               \/ ~Known(departments, me.alias[key])
               \/ ~current /\ item.number \in DOMAIN Overlay(me.tx)
      new == [item EXCEPT !.department = NameOf(me.alias[key])]
      counted == [me EXCEPT !.todo = @ \ {item}, !.counts.processed = @ + 1]
      failed == [counted EXCEPT !.counts.failed = @ + 1]
  IN
  /\ At(w, "write") /\ me.todo # {}
  /\ \/ item.kind = "UNCHANGED" \/ refused \/ me.aborted
     \/ ~Locked(InFlight(Worker \ {w}), item.number, item.mail)
  /\ Becomes(w,
       IF item.kind = "UNCHANGED" THEN counted
       ELSE IF refused \/ me.aborted THEN failed
       ELSE IF current /\ item.number \notin DOMAIN staff THEN failed
       ELSE IF clash THEN [failed EXCEPT !.aborted = TRUE]
       ELSE IF current THEN [counted EXCEPT !.tx = Wrote(@, new), !.counts.updated = @ + 1]
       ELSE [counted EXCEPT !.tx = Wrote(@, new), !.counts.created = @ + 1])
  /\ UNCHANGED <<row, objects, directory, jobs, request, outside, left>>

Commit(w) ==
  LET me == worker[w] IN
  /\ At(w, "write") /\ me.todo = {}
  /\ IF me.aborted THEN UNCHANGED <<staff, written>>
     ELSE /\ staff' = Overlay(me.tx)
          /\ written' = written \cup {g.row : g \in me.tx}
  /\ Becomes(w, [me EXCEPT !.pc = "checkpoint", !.tx = {}, !.aborted = FALSE, !.staff = << >>])
  /\ UNCHANGED <<row, objects, departments, jobs, request, outside, left>>

\* Mutant: the header is counted.
LastRow_WithHeader(batch) == (CHOOSE g \in batch : \A h \in batch : h.row <= g.row).row + 1

LastRow(batch) == (CHOOSE g \in batch : \A h \in batch : h.row <= g.row).row

\* The checkpoint does not look at the status of the row.
Checkpoint(w) ==
  LET me == worker[w] buffer == me.buffer \ me.batch IN
  /\ At(w, "checkpoint")
  /\ row' = [row EXCEPT !.last = LastRow(me.batch), !.counts = me.counts]
  /\ Becomes(w, [me EXCEPT !.buffer = buffer, !.batch = {}, !.pc = NextPc(buffer, me.eof)])
  /\ UNCHANGED <<objects, directory, jobs, request, outside, left>>

\* finishImport: the report is uploaded, then the import is complete if it is
\* still APPLYING.
Finish(w) ==
  LET me == worker[w] IN
  /\ At(w, "finish")
  /\ row' = IF row.status # "APPLYING" THEN row
            ELSE [row EXCEPT
                    !.status = IF me.counts.failed > 0 THEN "COMPLETED_WITH_ERRORS" ELSE "COMPLETED",
                    !.counts = [me.counts EXCEPT !.processed = row.counts.processed]]
  /\ Goto(w, IF row.status = "APPLYING" THEN "return" ELSE "late")
  /\ UNCHANGED <<objects, directory, jobs, request, outside, left>>

\* It is not, and only a cancel is taken care of.
Late(w) ==
  /\ At(w, "late")
  /\ Flip({"CANCELLING"}, IF row.counts.processed > 0 THEN "CANCELLED_PARTIAL" ELSE "CANCELLED")
  /\ Goto(w, IF row.status = "CANCELLING" THEN "discard" ELSE "return")
  /\ UNCHANGED <<objects, directory, jobs, request, outside, left>>

------------------------------------------------------------------------------
(* Faults of a worker, and what process() does about them.                    *)

\* A call throws, before its effect or, where the next step has not begun, after it.
Throw(w) ==
  /\ worker[w].pc \notin {"idle", "caught"}
  /\ Spend("errors")
  /\ Goto(w, "caught")
  /\ UNCHANGED <<row, objects, directory, jobs, request, outside>>

\* Mutant: a job that failed once is not tried again.
Rethrow_Once(w) ==
  /\ jobs' = (jobs \ Held(w)) \cup
       {[j EXCEPT !.made = @ + 1, !.owner = None, !.state = "failed"] : j \in Held(w)}
  /\ Becomes(w, IdleWorker)

Rethrow(w) ==
  /\ jobs' = (jobs \ Held(w)) \cup
       {[j EXCEPT !.made = @ + 1, !.owner = None,
                  !.state = IF j.made + 1 < MaxAttempts THEN "waiting" ELSE "failed"] :
          j \in Held(w)}
  /\ Becomes(w, IdleWorker)

\* Any attempt but the last is to be made again.  After the last the row is to be
\* FAILED, but that update names errorCode, a column EmployeeImport does not have:
\* the client refuses it, and what it throws leaves process() like any other error.
GiveBack(w) ==
  /\ At(w, "caught")
  /\ Rethrow(w)
  /\ UNCHANGED <<row, objects, directory, request, outside, left>>

Crash(w) ==
  /\ worker[w].pc # "idle"
  /\ Spend("crashes")
  /\ jobs' = (jobs \ Held(w)) \cup {[j EXCEPT !.owner = None] : j \in Held(w)}
  /\ Becomes(w, IdleWorker)
  /\ UNCHANGED <<row, objects, directory, request, outside>>

------------------------------------------------------------------------------
(* The HTTP handlers: EmployeeImportsService.                                 *)

Reached(r, pc) == request[r].pc = pc
Answer(r) == request' = [request EXCEPT ![r] = IdleRequest]
Continue(r, pc) == request' = [request EXCEPT ![r].pc = pc]
Enter(r, op, pc, create) ==
  request' = [request EXCEPT ![r] = [pc |-> pc, op |-> op, create |-> create,
                                     seen |-> Glance(row)]]

Create(r) ==
  /\ Reached(r, "idle") /\ row.status = "ABSENT"
  /\ row' = [FreshRow EXCEPT !.status = "AWAITING_UPLOAD"]
  /\ UNCHANGED <<objects, directory, jobs, worker, request, outside, left>>

\* The user sends the file to the signed address.
PutFile ==
  /\ row.status # "ABSENT" /\ source = "none"
  /\ source' = "there"
  /\ UNCHANGED <<row, parts, directory, jobs, worker, request, outside, left>>

UploadComplete(r) ==
  /\ Reached(r, "idle") /\ row.status = "AWAITING_UPLOAD" /\ source = "there"
  /\ Ask /\ Enter(r, "upload", "mark", FALSE)
  /\ UNCHANGED <<row, objects, directory, jobs, worker, outside>>

\* QUEUED is written by id alone.
MarkUploaded(r) ==
  /\ Reached(r, "mark")
  /\ row' = [row EXCEPT !.status = "QUEUED"]
  /\ overtaken' = (overtaken \/ row.status # "AWAITING_UPLOAD")
  /\ Continue(r, "add")
  /\ UNCHANGED <<objects, directory, jobs, worker, cleanup, left>>

\* Confirmation of a reviewed import without invalid rows; departments that are
\* missing have to be created, or must have turned up in the meantime.
Confirm(r) ==
  /\ Reached(r, "idle") /\ row.status = "READY_FOR_REVIEW" /\ row.invalid = 0
  /\ Ask
  /\ \E create \in BOOLEAN :
       /\ create \/ ~Unresolved(row.plan, departments)
       /\ Enter(r, "confirm", "claim", create)
  /\ UNCHANGED <<row, objects, directory, jobs, worker, outside>>

Resume(r) ==
  /\ Reached(r, "idle") /\ row.status = "PAUSED"
  /\ Ask
  /\ Enter(r, "resume", "claim", FALSE)
  /\ UNCHANGED <<row, objects, directory, jobs, worker, outside>>

\* READY_FOR_REVIEW or PAUSED, as read, becomes APPLY_QUEUED for one request only.
ClaimConfirmed(r) ==
  LET me == request[r] won == row.status = me.seen.status IN
  /\ Reached(r, "claim")
  /\ row' = IF ~won THEN row
            ELSE [row EXCEPT !.status = "APPLY_QUEUED",
                             !.createMissing = IF me.op = "confirm" THEN me.create ELSE @]
  /\ IF won THEN Continue(r, "add") ELSE Answer(r)
  /\ UNCHANGED <<objects, directory, jobs, worker, outside, left>>

JobId(r) ==
  CASE request[r].op = "upload"  -> <<"validate", 0>>
    [] request[r].op = "confirm" -> <<"apply", 0>>
    [] request[r].op = "resume"  -> <<"resume", request[r].seen.last>>

Enqueue(r) ==
  /\ Reached(r, "add")
  /\ \/ jobs' = Added(JobId(r)) /\ Answer(r) /\ UNCHANGED left
     \/ Spend("errors") /\ Continue(r, "undo") /\ UNCHANGED jobs
     \/ Spend("replies") /\ Continue(r, "undo") /\ jobs' = Added(JobId(r))
  /\ UNCHANGED <<row, objects, directory, worker, outside>>

\* Put the status back: two of the three by id alone.
Undo(r) ==
  LET me == request[r] IN
  /\ Reached(r, "undo")
  /\ row' = CASE me.op = "upload"  -> [row EXCEPT !.status = "AWAITING_UPLOAD"]
              [] me.op = "confirm" -> [row EXCEPT !.status = "READY_FOR_REVIEW",
                                                  !.createMissing = me.seen.createMissing]
              [] row.status = "APPLY_QUEUED" /\ me.op = "resume" -> [row EXCEPT !.status = "PAUSED"]
              [] OTHER -> row
  /\ overtaken' = (overtaken \/ \/ me.op = "upload" /\ row.status # "QUEUED"
                                \/ me.op = "confirm" /\ row.status # "APPLY_QUEUED")
  /\ Answer(r)
  /\ UNCHANGED <<objects, directory, jobs, worker, cleanup, left>>

\* Mutant: PAUSED is written by the request itself.
Pause_AtOnce ==
  /\ row.status = "APPLYING" /\ Ask
  /\ Flip({"APPLYING"}, "PAUSED")
  /\ UNCHANGED <<objects, directory, jobs, worker, request, outside>>

Pause ==
  /\ row.status = "APPLYING" /\ Ask
  /\ Flip({"APPLYING"}, "PAUSING")
  /\ UNCHANGED <<objects, directory, jobs, worker, request, outside>>

Cancel(r) ==
  /\ Reached(r, "idle") /\ row.status \notin Terminal \cup {"ABSENT"}
  /\ Ask
  /\ Enter(r, "cancel", IF row.status \in Idle THEN "cancel" ELSE "flag", FALSE)
  /\ UNCHANGED <<row, objects, directory, jobs, worker, outside>>

\* Mutant: the status is written by id, as it was read.
CancelIdle_ById(r) ==
  /\ Reached(r, "cancel")
  /\ row' = [row EXCEPT !.status = "CANCELLED"]
  /\ Continue(r, "clean")
  /\ UNCHANGED <<objects, directory, jobs, worker, outside, left>>

\* "Claim the terminal transition before deleting anything."
CancelIdle(r) ==
  /\ Reached(r, "cancel")
  /\ Flip(Idle, "CANCELLED")
  /\ IF row.status \in Idle THEN Continue(r, "clean") ELSE Answer(r)
  /\ UNCHANGED <<objects, directory, jobs, worker, outside, left>>

CleanArtifacts(r) ==
  /\ Reached(r, "clean")
  /\ DeletePrefix
  /\ Answer(r)
  /\ UNCHANGED <<row, directory, jobs, worker, outside, left>>

\* Mutant: CANCELLED is written while the worker goes on.
FlagCancelling_AtOnce(r) ==
  /\ Reached(r, "flag")
  /\ Flip({"VALIDATING", "APPLYING", "PAUSING"}, "CANCELLED")
  /\ Answer(r)
  /\ UNCHANGED <<objects, directory, jobs, worker, outside, left>>

FlagCancelling(r) ==
  /\ Reached(r, "flag")
  /\ Flip({"VALIDATING", "APPLYING", "PAUSING"}, "CANCELLING")
  /\ Answer(r)
  /\ UNCHANGED <<objects, directory, jobs, worker, outside, left>>

------------------------------------------------------------------------------
(* The hourly cleanup, time, and colleagues who change the directory.         *)

\* runCleanup lists what has expired, ...
SweepList ==
  /\ sweeper.pc = "idle" /\ expired /\ row.status \notin {"ABSENT", "EXPIRED"}
  /\ sweeper' = [pc |-> "delete", seen |-> row.status]
  /\ UNCHANGED <<row, file, objects, directory, jobs, worker, request, expired, swept,
                 overtaken, left>>

\* ... deletes its objects (an import that fails is left for the next hour), ...
SweepDelete ==
  /\ sweeper.pc = "delete"
  /\ \/ /\ DeletePrefix
        /\ swept' = (swept \/ row.status \notin Terminal)
        /\ sweeper' = [sweeper EXCEPT !.pc = "mark"]
        /\ UNCHANGED left
     \/ /\ Spend("errors")
        /\ sweeper' = [sweeper EXCEPT !.pc = "idle"]
        /\ UNCHANGED <<objects, swept>>
  /\ UNCHANGED <<row, file, directory, jobs, worker, request, expired, overtaken>>

\* ... and marks it, if it is still in the status of the list.
SweepMark ==
  /\ sweeper.pc = "mark"
  /\ Flip({sweeper.seen}, "EXPIRED")
  /\ sweeper' = [pc |-> "idle", seen |-> "ABSENT"]
  /\ UNCHANGED <<file, objects, directory, jobs, worker, request, expired, swept,
                 overtaken, left>>

\* Seven days later than the first, the objects of what failed or was cancelled.
SweepStale ==
  /\ sweeper.pc = "idle" /\ expired /\ row.status \in Cancelled \cup {"FAILED"}
  /\ DeletePrefix
  /\ UNCHANGED <<row, directory, jobs, worker, request, outside, left>>

Expire ==
  /\ ~expired /\ row.status # "ABSENT" /\ Spend("expiry")
  /\ expired' = TRUE
  /\ UNCHANGED <<row, file, objects, directory, jobs, worker, request, sweeper, swept,
                 overtaken>>

\* Employees come and go, departments are opened and closed, by other requests, which
\* wait for what a transaction of the import holds.
Hire ==
  /\ \E n \in Number \ DOMAIN staff, mail \in Mail \cup {None}, d \in departments, rest \in Rest :
       /\ ~Owned(staff, n, mail) /\ ~Locked(InFlight(Worker), n, mail)
       /\ staff' = [m \in DOMAIN staff \cup {n} |->
                      IF m = n THEN [mail |-> mail, department |-> d.name, rest |-> rest]
                      ELSE staff[m]]
  /\ UNCHANGED departments

Dismiss ==
  /\ \E n \in DOMAIN staff :
       /\ ~Locked(InFlight(Worker), n, None)
       /\ staff' = [m \in DOMAIN staff \ {n} |-> staff[m]]
  /\ UNCHANGED departments

OpenDepartment ==
  /\ \E name \in Name, code \in Code :
       /\ ~Known(departments, Normal[name])
       /\ \A d \in departments : d.code # <<code, 0>>
       /\ departments' = departments \cup {[name |-> name, code |-> <<code, 0>>]}
  /\ UNCHANGED staff

CloseDepartment ==
  /\ \E d \in departments :
       /\ \A n \in DOMAIN staff : staff[n].department # d.name
       /\ \A g \in InFlight(Worker) : g.department # d.name
       /\ departments' = departments \ {d}
  /\ UNCHANGED staff

Colleague ==
  /\ Spend("churn")
  /\ Hire \/ Dismiss \/ OpenDepartment \/ CloseDepartment
  /\ UNCHANGED <<row, objects, written, jobs, worker, request, outside>>

------------------------------------------------------------------------------

Validate(w) ==
  \/ ClaimValidation(w) \/ Parse(w) \/ ParseNothing(w) \/ Refuse(w) \/ Classify(w)
  \/ PlanDepartments(w) \/ Stage(w) \/ Ready(w) \/ Abandon(w) \/ Discard(w)

Apply(w) ==
  \/ Look(w) \/ ClaimApply(w) \/ ResolveDepartment(w) \/ Resolved(w) \/ ReadPart(w)
  \/ ReadState(w) \/ Halt(w) \/ Park(w) \/ ApplyRow(w) \/ Commit(w) \/ Checkpoint(w)
  \/ Finish(w) \/ Late(w)

Work(w) ==
  \/ Take(w) \/ Validate(w) \/ Apply(w) \/ Return(w) \/ GiveBack(w)

Fault(w) == Throw(w) \/ Crash(w)

Serve(r) ==
  \/ Create(r) \/ UploadComplete(r) \/ MarkUploaded(r) \/ Confirm(r) \/ Resume(r)
  \/ ClaimConfirmed(r) \/ Enqueue(r) \/ Undo(r) \/ Cancel(r) \/ CancelIdle(r)
  \/ CleanArtifacts(r) \/ FlagCancelling(r)

Sweep == SweepList \/ SweepDelete \/ SweepMark \/ SweepStale

Next ==
  \/ \E w \in Worker : Work(w) \/ Fault(w)
  \/ \E r \in Request : Serve(r)
  \/ Stalled \/ PutFile \/ Pause \/ Sweep \/ Expire \/ Colleague

Spec == Init /\ [][Next]_vars

\* The event loops run: a worker goes on with its job and takes the next one, a
\* handler that has begun goes on, and stalled jobs are looked for.
Handle(r) == request[r].pc # "idle" /\ Serve(r)
FairSpec ==
  /\ Spec
  /\ \A w \in Worker : WF_vars(Work(w))
  /\ \A r \in Request : WF_vars(Handle(r))
  /\ WF_vars(Stalled)

------------------------------------------------------------------------------
(* Properties.                                                                *)

Request_Pc == {"idle", "mark", "add", "undo", "claim", "cancel", "clean", "flag"}
Worker_Pc ==
  {"idle", "claim", "parse", "refuse", "classify", "plan", "stage", "abandon", "discard", "look",
   "claimApply", "resolve", "part", "state", "halt", "park", "write", "checkpoint", "finish",
   "late", "caught", "return"}

RowOK ==
  /\ DOMAIN row = DOMAIN FreshRow /\ row.status \in Status
  /\ \A f \in {row.invalid, row.total, row.unchanged, row.last} : f \in Nat
  /\ DOMAIN row.plan \subseteq Name /\ row.counts \in [DOMAIN Counters -> Nat]
DirectoryOK ==
  /\ DOMAIN staff \subseteq Number /\ \A n \in DOMAIN staff : staff[n] \in Employee
  /\ departments \subseteq Department /\ written \subseteq Nat
ObjectsOK ==
  /\ source \in {"none", "there", "deleted"}
  /\ \A p \in DOMAIN parts : p \in Nat /\ parts[p] \subseteq NormalizedRow
WorkOK ==
  /\ \A w \in Worker : worker[w].pc \in Worker_Pc /\ worker[w].buffer \subseteq NormalizedRow
  /\ \A r \in Request : request[r].pc \in Request_Pc
  /\ \A j \in jobs : j.state \in {"waiting", "active", "failed"} /\ j.made \in 0 .. MaxAttempts

\* Every variable keeps its type.
TypeOK == RowOK /\ DirectoryOK /\ ObjectsOK /\ WorkOK

\* No write by id alone has hit another status than it was meant for, no two jobs
\* have applied the import side by side, and the sweeper has not deleted objects
\* that were in use.
Orderly == ~swept /\ ~overtaken

\* An import reported as COMPLETED, without errors, wrote every row that was to be
\* created or updated, through all pauses, retries and worker crashes.
CompletedIsWhole ==
  row.status = "COMPLETED" => Cardinality(written) + row.unchanged = row.total
AppliedIsWhole == Orderly => CompletedIsWhole

\* The totals of a finished import add up to the rows of the file.
TotalsAddUp ==
  Orderly /\ row.status \in Completed =>
    row.counts.created + row.counts.updated + row.counts.failed + row.unchanged = row.total

\* The counters and the checkpoint describe the same rows, and as long as no row
\* failed all rows up to the checkpoint are in the directory.
CheckpointExact ==
  Orderly =>
    /\ row.counts.processed = row.last
    /\ row.counts.failed = 0 =>
       \A p \in DOMAIN parts : \A g \in parts[p] :
         g.row <= row.last /\ g.kind # "UNCHANGED" => g.row \in written

\* The directory stays what its indexes and references promise, whoever else writes to
\* it: no email, department name or code twice, and everybody in a department.
DirectorySound ==
  /\ \A m, n \in DOMAIN staff : m # n /\ staff[m].mail = staff[n].mail => staff[m].mail = None
  /\ \A n \in DOMAIN staff : \E d \in departments : d.name = staff[n].department
  /\ \A d, e \in departments : d # e => d.code # e.code /\ Normal[d.name] # Normal[e.name]

\* From the review to the last pause, the staged parts are exactly the file: each
\* row once, in order, in the part its position says.
ReviewedIsWhole ==
  Orderly /\ source = "there" /\ row.invalid = 0
    /\ row.status \in {"READY_FOR_REVIEW", "APPLY_QUEUED", "APPLYING", "PAUSING", "PAUSED"} =>
      \A i \in 1 .. row.total :
        \E p \in DOMAIN parts : /\ p = 1 + ((i - 1) \div ChunkSize)
                               /\ Cardinality({g \in parts[p] : g.row = i}) = 1

\* While an import is PAUSED no worker is about to write rows of it.
PausedIsQuiet ==
  Orderly /\ row.status = "PAUSED" =>
    \A w \in Worker : worker[w].pc \notin {"resolve", "part", "state", "write", "checkpoint"}

\* Of an import that was reviewed and confirmed every row is applied, as long as
\* nobody else changes the directory: review and application agree on what can be
\* written, and a batch that is applied again after a crash does no harm.
UndisturbedSucceeds ==
  Orderly /\ left["churn"] = Bounds["churn"] => row.counts.failed = 0

\* No row is written once the import is reported as cancelled.
CancelStops ==
  [][Orderly /\ row.status \in Cancelled => written' = written]_vars

\* What has ended stays as it ended, except that it expires.
TerminalIsFinal ==
  [][Orderly' /\ row.status \in Terminal => row'.status \in {row.status, "EXPIRED"}]_vars

\* "Once BullMQ has exhausted retries, DB state must not strand in progress"
\* (processor 298-299): an import in progress has a job that will be run, or a
\* request that is about to add one.
NoStranded ==
  row.status \in InProgress =>
    \/ \E j \in jobs : j.state # "failed"
    \/ \E r \in Request : request[r].pc # "idle"

\* A confirmed import ends, or is taken back to the review, if nobody pauses or
\* cancels it and the faults stay within what retries and redelivery absorb.
Settles == row.status = "APPLY_QUEUED" ~> row.status \notin InProgress

==============================================================================
