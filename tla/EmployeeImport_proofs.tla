------------------------ MODULE EmployeeImport_proofs ------------------------
(* Theorems about EmployeeImport, for any number of workers, handlers, files  *)
(* and rows: an import that nobody overtakes stops when it is told to, counts *)
(* every row once, loses none, and refuses none while nobody else changes the *)
(* directory; and whoever changes it, the directory stays sound.              *)
EXTENDS EmployeeImport, FiniteSetTheorems, WellFoundedInduction, TLAPS

------------------------------------------------------------------------------
(* What the variables hold.                                                   *)

Tally == [processed : Nat, created : Nat, updated : Nat, failed : Nat]
IsPlan(p) == DOMAIN p \subseteq Name /\ \A x \in DOMAIN p : p[x] \in Proposal
IsGlance(s) ==
  /\ s = [status |-> s.status, last |-> s.last, createMissing |-> s.createMissing,
          plan |-> s.plan]
  /\ s.status \in Status /\ s.last \in Nat /\ IsPlan(s.plan)

IsRow(r) ==
  /\ r = [status |-> r.status, prefix |-> r.prefix, invalid |-> r.invalid, total |-> r.total,
          unchanged |-> r.unchanged, plan |-> r.plan, createMissing |-> r.createMissing,
          last |-> r.last, counts |-> r.counts]
  /\ r.status \in Status /\ r.prefix \in BOOLEAN /\ r.invalid \in Nat /\ r.total \in Nat
  /\ r.unchanged \in Nat /\ r.last \in Nat /\ r.counts \in Tally /\ IsPlan(r.plan)

\* Rows as they are staged, and sets of them that a worker holds.
Lines == Len(file.rows)
IsBatch(S) == S \subseteq NormalizedRow /\ IsFiniteSet(S) /\ \A g \in S : g.row <= Lines

IsWork(c) ==
  /\ c = [pc |-> c.pc, job |-> c.job, made |-> c.made, cols |-> c.cols, at |-> c.at,
          wrong |-> c.wrong, good |-> c.good, seen |-> c.seen, known |-> c.known,
          todo |-> c.todo, alias |-> c.alias, part |-> c.part, eof |-> c.eof,
          buffer |-> c.buffer, batch |-> c.batch, staff |-> c.staff, tx |-> c.tx,
          aborted |-> c.aborted, counts |-> c.counts]
  /\ c.pc \in Worker_Pc /\ IsGlance(c.seen) /\ c.known \subseteq Department
  /\ c.part \in Nat \ {0} /\ c.eof \in BOOLEAN /\ c.aborted \in BOOLEAN /\ c.counts \in Tally
  /\ IsBatch(c.buffer) /\ c.batch \subseteq c.buffer /\ c.tx \subseteq NormalizedRow
  /\ c.pc = "resolve" => c.todo \subseteq DOMAIN c.seen.plan
  /\ c.pc = "write" => c.todo \subseteq c.batch
  /\ c.pc \in {"write", "checkpoint"} => c.batch # {}
  /\ c.pc = "state" => c.buffer # {}
  /\ c.pc \in {"claim", "parse"} => c.at = 0 /\ c.wrong = {} /\ c.good = {}
  /\ c.pc \in {"claim", "parse", "classify", "plan"} => c.part = 1

IsHandler(c) ==
  /\ c = [pc |-> c.pc, op |-> c.op, create |-> c.create, seen |-> c.seen]
  /\ c.pc \in Request_Pc /\ c.create \in BOOLEAN /\ IsGlance(c.seen)

IsJob(j) ==
  /\ j \in [id : {j.id}, state : {"waiting", "active", "failed"}, made : 0 .. MaxAttempts,
            stalls : Nat, owner : Worker \cup {None}]
  /\ j.state # "failed" => j.made < MaxAttempts
  /\ j.owner # None => j.state = "active"

\* The part that row i of a file without wrong rows is in; wrong rows only move a
\* row further up.
Place(i) == 1 + ((i - 1) \div ChunkSize)

\* Columns that a file can be read under.
Columned(cols) ==
  /\ ~file.broken /\ ~BadHeaders(cols)
  /\ \E ai \in [Open -> Answers] : cols = Resolve(file.headers, ai)

\* No row comes twice, and no employee.
Distinct(S) == \A g, h \in S : g.row = h.row => g = h
OnePerEmployee(S) == \A g, h \in S : g.number = h.number => g = h

\* What a validating worker has found in the rows it has been through.
Checked(c) ==
  LET rows == Rows(c.cols) fine == (1 .. c.at) \ c.wrong IN
  /\ Columned(c.cols)
  /\ c.at \in 0 .. Lines /\ c.wrong \subseteq 1 .. c.at
  /\ \A i \in fine : ~Malformed(rows[i]) /\ ~Repeated(rows, i)
  /\ IsBatch(c.good)
  /\ \A g \in c.good :
       /\ g.row \in fine
       /\ g = [row |-> g.row, kind |-> g.kind, number |-> rows[g.row].number,
               mail |-> rows[g.row].mail, department |-> rows[g.row].department,
               rest |-> rows[g.row].rest]
  /\ \A i \in fine : \E g \in c.good : g.row = i
  /\ Distinct(c.good)
  /\ c.pc \in {"plan", "stage"} => c.at = Lines

PartOK(p) ==
  /\ p \in Nat \ {0} /\ parts[p] # {} /\ IsBatch(parts[p])
  /\ \A g \in parts[p] : p <= Place(g.row)

Typed ==
  /\ file \in Files /\ IsRow(row) /\ DirectoryOK
  /\ source \in {"none", "there", "deleted"} /\ \A p \in DOMAIN parts : PartOK(p)
  /\ worker = [w \in Worker |-> worker[w]] /\ \A w \in Worker : IsWork(worker[w])
  /\ \A w \in Worker : worker[w].pc \in {"classify", "plan", "stage"} => Checked(worker[w])
  /\ request = [r \in Request |-> request[r]] /\ \A r \in Request : IsHandler(request[r])
  /\ \A j \in jobs : IsJob(j)
  /\ sweeper = [pc |-> sweeper.pc, seen |-> sweeper.seen]
  /\ sweeper.pc \in {"idle", "delete", "mark"} /\ sweeper.seen \in Status
  /\ swept \in BOOLEAN /\ overtaken \in BOOLEAN
  /\ left \in [Limits -> Nat] /\ left["churn"] <= Bounds["churn"]

------------------------------------------------------------------------------
(* The queue: whoever works holds a job of its own, and of the kind.          *)

Validating == {"claim", "parse", "classify", "plan", "stage", "abandon"}
Committing == {"resolve", "part", "state", "halt", "park", "write", "checkpoint", "finish", "late"}
Started == {"parse", "refuse", "classify", "plan", "stage", "abandon"}

Holds(w, j) == j.id = worker[w].job /\ j.owner = w
Queued ==
  /\ \A i, j \in jobs : i.id = j.id => i = j
  /\ \A w \in Worker : worker[w].pc # "idle" => \E j \in jobs : Holds(w, j)
  /\ \A j \in jobs : j.owner # None =>
       j.state = "active" /\ worker[j.owner].pc # "idle" /\ worker[j.owner].job = j.id
  /\ \A j \in jobs : j.id[1] = "validate" => j.id = <<"validate", 0>>
  /\ \A w \in Worker :
       /\ worker[w].pc \in Validating \cup {"refuse"} => worker[w].job = <<"validate", 0>>
       /\ worker[w].pc \in Committing \cup {"look", "claimApply"} => worker[w].job[1] # "validate"

\* A job or a request that applies the import is for one that has been reviewed.
Reviewed ==
  /\ \A j \in jobs : j.id[1] # "validate" => row.prefix
  /\ \A r \in Request : request[r].op \in {"confirm", "resume"} => row.prefix
  /\ row.status \in {"READY_FOR_REVIEW", "APPLY_QUEUED", "APPLYING", "PAUSING", "PAUSED"} => row.prefix
  /\ row.status = "ABSENT" => ~row.prefix

\* What a request is about to write follows from what it read.
Asked ==
  \A r \in Request :
    LET me == request[r] IN
    /\ me.pc = "mark" => me.op = "upload"
    /\ me.pc = "claim" => \/ me.op = "confirm" /\ me.seen.status = "READY_FOR_REVIEW"
                          \/ me.op = "resume" /\ me.seen.status = "PAUSED"
    /\ me.pc \in {"add", "undo"} => me.op \in {"upload", "confirm", "resume"}

------------------------------------------------------------------------------
(* Who may be where, as long as everything is in order.                       *)

Control ==
  /\ row.prefix => row.status \notin {"ABSENT", "AWAITING_UPLOAD", "QUEUED", "VALIDATING"}
  /\ \A w \in Worker :
       /\ worker[w].pc \in Started => row.status \in {"VALIDATING", "CANCELLING"} /\ ~row.prefix
       /\ worker[w].pc = "abandon" => row.status = "CANCELLING"
       /\ worker[w].pc \in Committing => row.status \in {"APPLYING", "PAUSING", "CANCELLING"}
       /\ worker[w].pc = "discard" => row.status \in Terminal
  /\ \A v, w \in Worker : worker[v].pc \in Committing /\ worker[w].pc \in Committing => v = w
  /\ \A r \in Request : request[r].pc = "clean" => row.status \in Terminal
  /\ sweeper.pc = "mark" => row.status \in Terminal

ControlInv == Typed /\ Queued /\ Reviewed /\ Asked /\ (Orderly => Control)

------------------------------------------------------------------------------
(* The rows of the file, as they were staged and as they are counted.         *)

Items == UNION {parts[p] : p \in DOMAIN parts}
Changing(i) == {g \in Items : g.row <= i /\ g.kind # "UNCHANGED"}
Confirmed == row.prefix /\ row.invalid = 0
Live == row.status \notin Terminal

\* A confirmed import can be applied as it was reviewed.
Staged ==
  /\ \A p \in DOMAIN parts : \A g \in parts[p] : p = Place(g.row)
  /\ \A i \in 1 .. Lines : \E g \in Items : g.row = i
  /\ Distinct(Items) /\ OnePerEmployee(Items)
  /\ Cardinality({g \in Items : g.kind = "UNCHANGED"}) = row.unchanged
  /\ \A i \in written : \E g \in Items : g.row = i /\ g.kind # "UNCHANGED"

\* Counters that are right about the rows up to the one they name.
Counted(c, done) ==
  /\ c.processed <= Lines
  /\ c.created + c.updated + c.failed = Cardinality(Changing(c.processed))
  /\ c.failed = 0 => \A g \in Changing(c.processed) : g.row \in done

\* The parts a worker staged in this attempt are its own.
Staging(c) ==
  \A p \in 1 .. c.part - 1 : p \in DOMAIN parts /\ parts[p] = Chunk(c.good, p)

Ahead(c) == {g \in Items : Place(g.row) >= c.part}
Applied(c) ==
  /\ Counted(c.counts, written \cup {g.row : g \in c.tx})
  /\ \A t \in c.tx : \E g \in Items : /\ g.row = t.row /\ g.number = t.number
                                      /\ g.kind # "UNCHANGED" /\ g.row <= c.counts.processed
  /\ c.pc # "write" => c.tx = {} /\ ~c.aborted
  /\ c.aborted => c.counts.failed > 0

\* The buffer: what has been read and not been counted, or is in the batch.
Buffered(c) ==
  /\ c.seen.last <= c.counts.processed
  /\ \A g \in Items \ Ahead(c) : g.row > c.counts.processed => g \in c.buffer
  /\ \A g \in Ahead(c) : g.row <= c.seen.last \/ g.row > c.counts.processed
  /\ \A g \in c.buffer :
       /\ g \in Items /\ g \notin Ahead(c)
       /\ g.row > c.counts.processed \/ (c.pc \in {"write", "checkpoint"} /\ g \in c.batch)
  /\ c.eof => Ahead(c) = {}
  /\ c.pc = "finish" => c.eof /\ c.buffer = {}

\* The batch: the next rows, counted in order.
Batched(c) ==
  /\ c.pc \notin {"write", "checkpoint"} => c.batch = {}
  /\ \A g \in c.batch, h \in c.buffer : h.row < g.row => h \in c.batch
  /\ c.pc = "write" => /\ c.todo = {g \in c.batch : g.row > c.counts.processed}
                       /\ c.todo = c.batch \/ \E g \in c.batch : g.row = c.counts.processed
  /\ c.pc = "checkpoint" => /\ \A g \in c.batch : g.row <= c.counts.processed
                            /\ \E g \in c.batch : g.row = c.counts.processed

Fresh(c) ==
  /\ c.part = 1 /\ c.buffer = {} /\ c.batch = {} /\ c.tx = {} /\ ~c.eof /\ ~c.aborted

RowExact ==
  /\ row.prefix => row.total = Lines
  /\ ~Confirmed => row.last = 0 /\ row.counts = Counters /\ written = {}
  /\ row.counts.processed = row.last
  /\ Confirmed /\ Live => Staged /\ Counted(row.counts, written)

\* Whoever is about to apply the import has been confirmed.
Consented ==
  /\ \A j \in jobs : j.id[1] # "validate" => row.invalid = 0
  /\ \A r \in Request : request[r].op \in {"confirm", "resume"} => row.invalid = 0
  /\ row.status \in {"APPLY_QUEUED", "APPLYING", "PAUSING", "PAUSED"} => row.invalid = 0

\* What a worker holds of the import.
Sound(w) ==
  LET me == worker[w] IN
  /\ me.pc = "stage" => Staging(me)
  /\ me.pc \in {"look", "claimApply", "resolve"} => Fresh(me)
  /\ me.pc = "claimApply" /\ Live =>
       me.seen.last = me.counts.processed /\ Counted(me.counts, written)
  /\ me.pc \in Committing => Applied(me) /\ Buffered(me) /\ Batched(me)
WorkExact == \A w \in Worker : Sound(w)

\* What the run checks.
Outcome == CheckpointExact /\ TotalsAddUp /\ AppliedIsWhole

Exact == RowExact /\ Consented /\ WorkExact /\ Outcome

ExactInv == ControlInv /\ (Orderly => Exact)

------------------------------------------------------------------------------
(* Nobody else has changed the directory.                                     *)

Undisturbed == left["churn"] = Bounds["churn"]

\* Rows that can all be written: no two about the same employee or email, and no
\* email of somebody else.
Compatible(S) ==
  /\ \A g, h \in S : g.number = h.number \/ (g.mail # None /\ g.mail = h.mail) => g = h
  /\ \A g \in S : ~Owned(staff, g.number, g.mail)

Housed(S, known, plan) ==
  \A g \in S : Known(known, Normal[g.department]) \/ g.department \in plan

Aliased(c) == \A k \in DOMAIN c.alias : Known(departments, c.alias[k])

\* Nothing stands in the way of a worker.
Clear(w) ==
  LET me == worker[w] IN
  /\ me.pc \in {"classify", "plan", "stage"} =>
       /\ \A g \in me.good : ~Owned(staff, g.number, g.mail)
       /\ me.known \subseteq departments
  /\ me.pc = "stage" => Housed(me.good, me.known, DOMAIN me.seen.plan)
  /\ me.pc \in {"look", "claimApply"} => DOMAIN me.alias = {}
  /\ me.pc = "claimApply" => me.counts.failed = 0 /\ me.seen.plan = row.plan
  /\ me.pc \in Committing => me.counts.failed = 0 /\ Aliased(me)
  /\ me.pc = "resolve" =>
       /\ me.known \subseteq departments
       /\ \A g \in Items : \/ Known(me.known, Normal[g.department])
                           \/ g.department \in me.todo
                           \/ Normal[g.department] \in DOMAIN me.alias
  /\ me.pc \in Committing \ {"resolve"} => \A g \in Items : Normal[g.department] \in DOMAIN me.alias
  /\ me.pc = "write" =>
       /\ me.staff = staff
       /\ \A t \in me.tx : \E g \in Items : /\ g.row <= me.counts.processed
                                            /\ g.number = t.number /\ g.mail = t.mail

\* The reviewed rows can be written into the directory as it is.
Writable ==
  Confirmed /\ Live => Compatible(Items) /\ Housed(Items, departments, DOMAIN row.plan)

Calm == row.counts.failed = 0 /\ Writable /\ \A w \in Worker : Clear(w)

CalmInv == ExactInv /\ (Orderly /\ Undisturbed => Calm)

------------------------------------------------------------------------------
(* What each step does to the worker that takes it.                           *)

Shaped(c) ==
  c = [pc |-> c.pc, job |-> c.job, made |-> c.made, cols |-> c.cols, at |-> c.at,
       wrong |-> c.wrong, good |-> c.good, seen |-> c.seen, known |-> c.known,
       todo |-> c.todo, alias |-> c.alias, part |-> c.part, eof |-> c.eof,
       buffer |-> c.buffer, batch |-> c.batch, staff |-> c.staff, tx |-> c.tx,
       aborted |-> c.aborted, counts |-> c.counts]

\* d is c, but for the place in the code and what is named.
Same(c, d, but) ==
  /\ Shaped(d) /\ d.job = c.job
  /\ "check" \in but \/ (d.cols = c.cols /\ d.at = c.at /\ d.wrong = c.wrong /\ d.good = c.good)
  /\ "seen" \in but \/ d.seen = c.seen
  /\ "known" \in but \/ d.known = c.known
  /\ "todo" \in but \/ d.todo = c.todo
  /\ "alias" \in but \/ d.alias = c.alias
  /\ "part" \in but \/ d.part = c.part
  /\ "eof" \in but \/ d.eof = c.eof
  /\ "buffer" \in but \/ d.buffer = c.buffer
  /\ "batch" \in but \/ d.batch = c.batch
  /\ "staff" \in but \/ d.staff = c.staff
  /\ "tx" \in but \/ (d.tx = c.tx /\ d.aborted = c.aborted)
  /\ "counts" \in but \/ d.counts = c.counts

Alone(w) ==
  /\ worker' = [v \in Worker |-> worker'[v]]
  /\ \A v \in Worker : v # w => worker'[v] = worker[v]

LEMMA BecomesForm ==
  ASSUME Typed, NEW w \in Worker, NEW c, Becomes(w, c)
  PROVE  worker'[w] = c /\ Alone(w)
<1>1. worker' = [v \in Worker |-> IF v = w THEN c ELSE worker[v]]
  BY DEF Becomes, Typed
<1>. QED  BY <1>1 DEF Alone

LEMMA WorkForm ==
  ASSUME Typed, NEW w \in Worker
  PROVE  IsWork(worker[w]) /\ Shaped(worker[w])
BY DEF Typed, IsWork, Shaped

LEMMA GoMoves ==
  ASSUME Typed, NEW w \in Worker, NEW pc, Goto(w, pc)
  PROVE  worker'[w].pc = pc /\ Same(worker[w], worker'[w], {}) /\ Alone(w)
<1>1. worker'[w] = [worker[w] EXCEPT !.pc = pc] /\ Alone(w)
  BY BecomesForm DEF Goto
<1>. QED  BY <1>1, WorkForm DEF Same, Shaped

LEMMA TakeMoves ==
  ASSUME Typed, NEW w \in Worker, Take(w)
  PROVE  \E j \in jobs :
           /\ j.state = "waiting" /\ worker'[w].job = j.id
           /\ jobs' = (jobs \ {j}) \cup {[j EXCEPT !.state = "active", !.owner = w]}
           /\ worker'[w].pc = IF j.id[1] = "validate" THEN "claim" ELSE "look"
           /\ Fresh(worker'[w]) /\ worker'[w].alias = << >>
           /\ worker'[w] = [IdleWorker EXCEPT !.pc = worker'[w].pc, !.job = j.id, !.made = j.made]
           /\ Alone(w)
<1>1. PICK j \in jobs :
       /\ j.state = "waiting"
       /\ jobs' = (jobs \ {j}) \cup {[j EXCEPT !.state = "active", !.owner = w]}
       /\ Becomes(w, [IdleWorker EXCEPT !.pc = IF j.id[1] = "validate" THEN "claim" ELSE "look",
                                        !.job = j.id, !.made = j.made])
  BY DEF Take
<1>2. /\ worker'[w] = [IdleWorker EXCEPT !.pc = IF j.id[1] = "validate" THEN "claim" ELSE "look",
                                        !.job = j.id, !.made = j.made]
      /\ Alone(w)
  BY <1>1, BecomesForm
<1>3. /\ worker'[w].job = j.id
      /\ worker'[w].pc = IF j.id[1] = "validate" THEN "claim" ELSE "look"
      /\ Fresh(worker'[w]) /\ worker'[w].alias = << >>
  BY <1>2 DEF IdleWorker, Fresh
<1>. QED  BY <1>1, <1>2, <1>3

LEMMA ParseMoves ==
  ASSUME Typed, NEW w \in Worker, Parse(w)
  PROVE  \E ai \in [Open -> Answers] :
           LET cols == Resolve(file.headers, ai) IN
           /\ worker'[w].cols = cols /\ worker'[w].known = departments
           /\ worker'[w].pc = (IF file.broken \/ BadHeaders(cols) THEN "refuse"
                               ELSE IF file.rows = << >> THEN "plan" ELSE "classify")
           /\ worker'[w].at = worker[w].at /\ worker'[w].wrong = worker[w].wrong
           /\ worker'[w].good = worker[w].good
           /\ Same(worker[w], worker'[w], {"check", "known"}) /\ Alone(w)
<1>1. PICK ai \in [Open -> Answers] :
       LET cols == Resolve(file.headers, ai)
       IN  Becomes(w, [worker[w] EXCEPT
             !.cols = cols, !.known = departments,
             !.pc = IF file.broken \/ BadHeaders(cols) THEN "refuse"
                    ELSE IF file.rows = << >> THEN "plan" ELSE "classify"])
  BY DEF Parse
<1>. DEFINE cols == Resolve(file.headers, ai)
            pc == IF file.broken \/ BadHeaders(cols) THEN "refuse"
                  ELSE IF file.rows = << >> THEN "plan" ELSE "classify"
<1>2. Becomes(w, [worker[w] EXCEPT !.cols = cols, !.known = departments, !.pc = pc])
  BY <1>1
<1>3. worker'[w] = [worker[w] EXCEPT !.cols = cols, !.known = departments, !.pc = pc] /\ Alone(w)
  BY <1>2, BecomesForm
<1>. HIDE DEF cols, pc
<1>4. /\ worker'[w].cols = cols /\ worker'[w].known = departments /\ worker'[w].pc = pc
      /\ worker'[w].at = worker[w].at /\ worker'[w].wrong = worker[w].wrong
      /\ worker'[w].good = worker[w].good
      /\ Same(worker[w], worker'[w], {"check", "known"})
  BY <1>3, WorkForm DEF Same, Shaped
<1>. QED  BY <1>3, <1>4 DEF cols, pc

LEMMA ClassifyMoves ==
  ASSUME Typed, NEW w \in Worker, Classify(w)
  PROVE  LET me == worker[w]
             rows == Rows(me.cols)
             upTo == IF me.at + BatchSize < Len(rows) THEN me.at + BatchSize ELSE Len(rows)
             batch == (me.at + 1) .. upTo
             wrong == BatchErrors(rows, batch, staff, me.wrong)
             you == worker'[w]
         IN  /\ you.at = upTo /\ you.wrong = me.wrong \cup wrong /\ you.cols = me.cols
             /\ you.good = me.good \cup {Normalized(rows, i, staff) : i \in batch \ wrong}
             /\ you.pc = (IF row.status # "VALIDATING" THEN "abandon"
                          ELSE IF upTo < Len(rows) THEN "classify" ELSE "plan")
             /\ Same(me, you, {"check"}) /\ Alone(w)
<1>. DEFINE me == worker[w]
            rows == Rows(me.cols)
            upTo == IF me.at + BatchSize < Len(rows) THEN me.at + BatchSize ELSE Len(rows)
            batch == (me.at + 1) .. upTo
            wrong == BatchErrors(rows, batch, staff, me.wrong)
            fine == {Normalized(rows, i, staff) : i \in batch \ wrong}
            pc == IF row.status # "VALIDATING" THEN "abandon"
                  ELSE IF upTo < Len(rows) THEN "classify" ELSE "plan"
<1>1. Becomes(w, [me EXCEPT !.at = upTo, !.wrong = @ \cup wrong, !.good = @ \cup fine, !.pc = pc])
  BY DEF Classify
<1>2. /\ worker'[w] = [me EXCEPT !.at = upTo, !.wrong = @ \cup wrong, !.good = @ \cup fine, !.pc = pc]
      /\ Alone(w)
  BY <1>1, BecomesForm
<1>. HIDE DEF upTo, wrong, fine, pc
<1>3. /\ worker'[w].at = upTo /\ worker'[w].wrong = me.wrong \cup wrong
      /\ worker'[w].cols = me.cols /\ worker'[w].good = me.good \cup fine /\ worker'[w].pc = pc
      /\ Same(me, worker'[w], {"check"})
  BY <1>2, WorkForm DEF Same, Shaped
<1>. QED  BY <1>2, <1>3 DEF upTo, wrong, fine, pc

LEMMA PlanMoves ==
  ASSUME Typed, NEW w \in Worker, PlanDepartments(w)
  PROVE  LET me == worker[w]
             rows == Rows(me.cols)
             missing == Missing(me.good, me.known)
             codes == [key \in Name |-> SheetCode(rows, Len(rows), me.wrong, key)]
             you == worker'[w]
         IN  \E ai \in [missing -> Proposals \cup {None}] :
               /\ you.seen = [me.seen EXCEPT !.plan = Plan(missing, codes, ai)]
               /\ you.pc = "stage" /\ Same(me, you, {"seen"}) /\ Alone(w)
<1>. DEFINE me == worker[w]
            rows == Rows(me.cols)
            missing == Missing(me.good, me.known)
            codes == [key \in Name |-> SheetCode(rows, Len(rows), me.wrong, key)]
<1>1. PICK ai \in [missing -> Proposals \cup {None}] :
        Becomes(w, [me EXCEPT !.seen.plan = Plan(missing, codes, ai), !.pc = "stage"])
  BY DEF PlanDepartments
<1>. DEFINE plan == Plan(missing, codes, ai)
<1>2. Becomes(w, [me EXCEPT !.seen.plan = plan, !.pc = "stage"])
  BY <1>1
<1>. HIDE DEF plan
<1>3. worker'[w] = [me EXCEPT !.seen.plan = plan, !.pc = "stage"] /\ Alone(w)
  BY <1>2, BecomesForm
<1>4. /\ worker'[w].seen = [me.seen EXCEPT !.plan = plan] /\ worker'[w].pc = "stage"
      /\ Same(me, worker'[w], {"seen"})
  BY <1>3, WorkForm DEF Same, Shaped
<1>. QED  BY <1>3, <1>4 DEF plan

LEMMA StageMoves ==
  ASSUME Typed, NEW w \in Worker, Stage(w)
  PROVE  /\ worker'[w].pc = "stage" /\ worker'[w].part = worker[w].part + 1
         /\ Same(worker[w], worker'[w], {"part"}) /\ Alone(w)
<1>1. Becomes(w, [worker[w] EXCEPT !.part = @ + 1]) /\ worker[w].pc = "stage"
  BY DEF Stage, At
<1>2. worker'[w] = [worker[w] EXCEPT !.part = @ + 1] /\ Alone(w)
  BY <1>1, BecomesForm
<1>. QED  BY <1>1, <1>2, WorkForm DEF Same, Shaped

LEMMA LookMoves ==
  ASSUME Typed, NEW w \in Worker, Look(w)
  PROVE  /\ worker'[w].pc = (IF row.status \in Terminal \ {"FAILED"} THEN "return"
                             ELSE IF ~row.prefix THEN "refuse" ELSE "claimApply")
         /\ worker'[w].seen = Glance(row) /\ worker'[w].counts = row.counts
         /\ Same(worker[w], worker'[w], {"seen", "counts"}) /\ Alone(w)
<1>. DEFINE pc == IF row.status \in Terminal \ {"FAILED"} THEN "return"
                  ELSE IF ~row.prefix THEN "refuse" ELSE "claimApply"
<1>1. Becomes(w, [worker[w] EXCEPT !.seen = Glance(row), !.counts = row.counts, !.pc = pc])
  BY DEF Look
<1>2. /\ worker'[w] = [worker[w] EXCEPT !.seen = Glance(row), !.counts = row.counts, !.pc = pc]
      /\ Alone(w)
  BY <1>1, BecomesForm
<1>. HIDE DEF pc
<1>3. /\ worker'[w].pc = pc /\ worker'[w].seen = Glance(row) /\ worker'[w].counts = row.counts
      /\ Same(worker[w], worker'[w], {"seen", "counts"})
  BY <1>2, WorkForm DEF Same, Shaped
<1>. QED  BY <1>2, <1>3 DEF pc

LEMMA ClaimApplyMoves ==
  ASSUME Typed, NEW w \in Worker, ClaimApply(w)
  PROVE  /\ Alone(w) /\ worker[w].pc = "claimApply"
         /\ \/ /\ row.status = "APPLY_QUEUED" \/ worker[w].seen.status = "APPLYING"
               /\ worker'[w].pc = "resolve" /\ worker'[w].known = departments
               /\ worker'[w].todo = DOMAIN worker[w].seen.plan
               /\ Same(worker[w], worker'[w], {"known", "todo"})
               /\ overtaken' = \/ overtaken
                               \/ \E v \in Worker : Applying(v)
                               \/ row.status \notin {"APPLY_QUEUED", "APPLYING", "PAUSING", "CANCELLING"}
            \/ /\ row.status # "APPLY_QUEUED" /\ overtaken' = overtaken
               /\ worker'[w].pc = "return" /\ Same(worker[w], worker'[w], {})
<1>. DEFINE me == worker[w]
<1>1. CASE row.status = "APPLY_QUEUED" \/ me.seen.status = "APPLYING"
  <2>1. /\ worker'[w] = [me EXCEPT !.pc = "resolve", !.known = departments,
                                   !.todo = DOMAIN me.seen.plan]
        /\ Alone(w)
    BY <1>1, BecomesForm DEF ClaimApply
  <2>2. /\ worker'[w].pc = "resolve" /\ worker'[w].known = departments
        /\ worker'[w].todo = DOMAIN me.seen.plan /\ Same(me, worker'[w], {"known", "todo"})
    BY <2>1, WorkForm DEF Same, Shaped
  <2>. QED  BY <1>1, <2>1, <2>2 DEF ClaimApply, At
<1>2. CASE ~(row.status = "APPLY_QUEUED" \/ me.seen.status = "APPLYING")
  <2>1. Goto(w, "return") /\ overtaken' = overtaken
    BY <1>2 DEF ClaimApply
  <2>. QED  BY <1>2, <2>1, GoMoves DEF ClaimApply, At
<1>. QED  BY <1>1, <1>2

LEMMA KnownMoves ==
  ASSUME Typed, NEW w \in Worker, worker[w].pc = "resolve", NEW from, NEW target,
         ResolveKnown(w, from, target)
  PROVE  LET me == worker[w] you == worker'[w] key == Normal[target.name] IN
         /\ you.pc = "resolve" /\ you.todo = me.todo \ {from}
         /\ you.alias = [k \in DOMAIN me.alias \cup {Normal[from]} |->
                           IF k = Normal[from] THEN key ELSE me.alias[k]]
         /\ Same(me, you, {"todo", "alias"}) /\ Alone(w)
         /\ Known(me.known, key) /\ row' = row /\ departments' = departments
<1>. DEFINE me == worker[w]
            key == Normal[target.name]
            alias == [k \in DOMAIN me.alias \cup {Normal[from]} |->
                        IF k = Normal[from] THEN key ELSE me.alias[k]]
<1>1. Becomes(w, [me EXCEPT !.todo = @ \ {from}, !.alias = alias])
  BY WorkForm DEF ResolveKnown, Shaped
<1>. HIDE DEF alias
<1>2. worker'[w] = [me EXCEPT !.todo = @ \ {from}, !.alias = alias] /\ Alone(w)
  BY <1>1, BecomesForm
<1>3. /\ worker'[w].pc = "resolve" /\ worker'[w].todo = me.todo \ {from}
      /\ worker'[w].alias = alias /\ Same(me, worker'[w], {"todo", "alias"})
  BY <1>2, WorkForm DEF Same, Shaped
<1>. QED  BY <1>2, <1>3 DEF alias, ResolveKnown

LEMMA CreateMoves ==
  ASSUME Typed, NEW w \in Worker, worker[w].pc = "resolve", NEW target,
         ResolveCreate(w, target)
  PROVE  LET me == worker[w]
             you == worker'[w]
             key == Normal[target.name]
             free == FreeCodes(target.code, departments)
             new == [name |-> target.name, code |-> <<target.code, Least(free)>>]
         IN  /\ Alone(w) /\ row' = row /\ ~Known(me.known, key)
             /\ \/ /\ Known(departments, key) /\ departments' = departments
                   /\ you.pc = "resolve" /\ you.known = departments /\ Same(me, you, {"known"})
                \/ /\ ~Known(departments, key) /\ free = {} /\ departments' = departments
                   /\ you.pc = "caught" /\ Same(me, you, {})
                \/ /\ ~Known(departments, key) /\ free # {}
                   /\ departments' = departments \cup {new}
                   /\ you.pc = "resolve" /\ you.known = me.known \cup {new}
                   /\ Same(me, you, {"known"})
<1>. DEFINE me == worker[w]
            key == Normal[target.name]
            free == FreeCodes(target.code, departments)
            new == [name |-> target.name, code |-> <<target.code, Least(free)>>]
<1>0. row' = row /\ ~Known(me.known, key)
  BY DEF ResolveCreate
<1>1. CASE Known(departments, key)
  <2>1. Becomes(w, [me EXCEPT !.known = departments]) /\ departments' = departments
    BY <1>1 DEF ResolveCreate
  <2>2. worker'[w] = [me EXCEPT !.known = departments] /\ Alone(w)
    BY <2>1, BecomesForm
  <2>3. worker'[w].pc = "resolve" /\ worker'[w].known = departments /\ Same(me, worker'[w], {"known"})
    BY <2>2, WorkForm DEF Same, Shaped
  <2>. QED  BY <1>0, <1>1, <2>1, <2>2, <2>3
<1>2. CASE ~Known(departments, key) /\ free = {}
  <2>1. Goto(w, "caught") /\ departments' = departments
    BY <1>2 DEF ResolveCreate
  <2>2. worker'[w].pc = "caught" /\ Same(me, worker'[w], {}) /\ Alone(w)
    BY <2>1, GoMoves
  <2>. QED  BY <1>0, <1>2, <2>1, <2>2
<1>3. CASE ~Known(departments, key) /\ free # {}
  <2>1. Becomes(w, [me EXCEPT !.known = @ \cup {new}]) /\ departments' = departments \cup {new}
    BY <1>3 DEF ResolveCreate
  <2>. HIDE DEF new
  <2>2. worker'[w] = [me EXCEPT !.known = @ \cup {new}] /\ Alone(w)
    BY <2>1, BecomesForm
  <2>3. /\ worker'[w].pc = "resolve" /\ worker'[w].known = me.known \cup {new}
        /\ Same(me, worker'[w], {"known"})
    BY <2>2, WorkForm DEF Same, Shaped
  <2>. QED  BY <1>0, <1>3, <2>1, <2>2, <2>3 DEF new
<1>. QED  BY <1>1, <1>2, <1>3

LEMMA ResolvedMoves ==
  ASSUME Typed, NEW w \in Worker, Resolved(w)
  PROVE  LET me == worker[w] you == worker'[w] keys == {Normal[d.name] : d \in me.known} IN
         /\ you.pc = "part"
         /\ you.alias = [k \in DOMAIN me.alias \cup keys |-> IF k \in keys THEN k ELSE me.alias[k]]
         /\ Same(me, you, {"alias"}) /\ Alone(w)
<1>. DEFINE me == worker[w]
            keys == {Normal[d.name] : d \in me.known}
            alias == [k \in DOMAIN me.alias \cup keys |-> IF k \in keys THEN k ELSE me.alias[k]]
<1>1. Becomes(w, [me EXCEPT !.pc = "part", !.alias = alias])
  BY WorkForm DEF Resolved, Shaped
<1>. HIDE DEF alias
<1>2. worker'[w] = [me EXCEPT !.pc = "part", !.alias = alias] /\ Alone(w)
  BY <1>1, BecomesForm
<1>3. worker'[w].pc = "part" /\ worker'[w].alias = alias /\ Same(me, worker'[w], {"alias"})
  BY <1>2, WorkForm DEF Same, Shaped
<1>. QED  BY <1>2, <1>3 DEF alias

LEMMA ReadPartMoves ==
  ASSUME Typed, NEW w \in Worker, ReadPart(w)
  PROVE  LET me == worker[w]
             there == me.part \in DOMAIN parts
             buffer == me.buffer \cup
                         (IF there THEN {item \in parts[me.part] : item.row > me.seen.last} ELSE {})
             you == worker'[w]
         IN  /\ you.buffer = buffer /\ you.part = me.part + 1 /\ you.eof = ~there
             /\ you.pc = NextPc(buffer, ~there)
             /\ Same(me, you, {"buffer", "part", "eof"}) /\ Alone(w)
<1>. DEFINE me == worker[w]
            there == me.part \in DOMAIN parts
            buffer == me.buffer \cup
                        (IF there THEN {item \in parts[me.part] : item.row > me.seen.last} ELSE {})
            pc == NextPc(buffer, ~there)
<1>1. Becomes(w, [me EXCEPT !.buffer = buffer, !.part = @ + 1, !.eof = ~there, !.pc = pc])
  BY DEF ReadPart
<1>. HIDE DEF buffer, there, pc
<1>2. /\ worker'[w] = [me EXCEPT !.buffer = buffer, !.part = @ + 1, !.eof = ~there, !.pc = pc]
      /\ Alone(w)
  BY <1>1, BecomesForm
<1>3. /\ worker'[w].buffer = buffer /\ worker'[w].part = me.part + 1 /\ worker'[w].eof = ~there
      /\ worker'[w].pc = pc /\ Same(me, worker'[w], {"buffer", "part", "eof"})
  BY <1>2, WorkForm DEF Same, Shaped
<1>. QED  BY <1>2, <1>3 DEF buffer, there, pc

LEMMA ReadStateMoves ==
  ASSUME Typed, NEW w \in Worker, ReadState(w)
  PROVE  LET me == worker[w] you == worker'[w] IN
         /\ Alone(w)
         /\ \/ row.status = "CANCELLING" /\ you.pc = "halt" /\ Same(me, you, {})
            \/ row.status = "PAUSING" /\ you.pc = "park" /\ Same(me, you, {})
            \/ /\ row.status \notin {"CANCELLING", "PAUSING"} /\ you.pc = "write"
               /\ you.batch = FirstRows(me.buffer) /\ you.todo = FirstRows(me.buffer)
               /\ you.staff = staff /\ Same(me, you, {"batch", "todo", "staff"})
<1>. DEFINE me == worker[w]
<1>1. CASE row.status = "CANCELLING"
  <2>1. worker'[w] = [me EXCEPT !.pc = "halt"] /\ Alone(w)
    BY <1>1, BecomesForm DEF ReadState
  <2>. QED  BY <1>1, <2>1, WorkForm DEF Same, Shaped
<1>2. CASE row.status = "PAUSING"
  <2>1. worker'[w] = [me EXCEPT !.pc = "park"] /\ Alone(w)
    BY <1>2, BecomesForm DEF ReadState
  <2>. QED  BY <1>2, <2>1, WorkForm DEF Same, Shaped
<1>3. CASE row.status \notin {"CANCELLING", "PAUSING"}
  <2>. DEFINE first == FirstRows(me.buffer)
  <2>1. Becomes(w, [me EXCEPT !.pc = "write", !.batch = first, !.todo = first, !.staff = staff])
    BY <1>3 DEF ReadState
  <2>. HIDE DEF first
  <2>2. /\ worker'[w] = [me EXCEPT !.pc = "write", !.batch = first, !.todo = first, !.staff = staff]
        /\ Alone(w)
    BY <2>1, BecomesForm
  <2>3. /\ worker'[w].pc = "write" /\ worker'[w].batch = first /\ worker'[w].todo = first
        /\ worker'[w].staff = staff /\ Same(me, worker'[w], {"batch", "todo", "staff"})
    BY <2>2, WorkForm DEF Same, Shaped
  <2>. QED  BY <1>3, <2>2, <2>3 DEF first
<1>. QED  BY <1>1, <1>2, <1>3

FirstOf(S) == CHOOSE g \in S : \A h \in S : g.row <= h.row

\* Why a row is not written.
Refused(me, item) ==
  \/ Normal[item.department] \notin DOMAIN me.alias
  \/ Owned(me.staff, item.number, item.mail)
Clash(me, item) ==
  \/ Owned(Overlay(me.tx), item.number, item.mail)
  \/ ~Known(departments, me.alias[Normal[item.department]])
  \/ ~Exists(me, item) /\ item.number \in DOMAIN Overlay(me.tx)
Gone(me, item) == Exists(me, item) /\ item.number \notin DOMAIN staff

LEMMA ApplyRowMoves ==
  ASSUME Typed, NEW w \in Worker, ApplyRow(w)
  PROVE  LET me == worker[w]
             you == worker'[w]
             item == FirstOf(me.todo)
             new == [item EXCEPT !.department = NameOf(me.alias[Normal[item.department]])]
             old == me.counts
         IN  /\ you.pc = "write" /\ you.todo = me.todo \ {item} /\ Alone(w)
             /\ Same(me, you, {"todo", "counts", "tx"})
             /\ \/ /\ item.kind = "UNCHANGED" /\ you.tx = me.tx /\ you.aborted = me.aborted
                   /\ you.counts = [old EXCEPT !.processed = @ + 1]
                \/ /\ item.kind # "UNCHANGED" /\ you.tx = me.tx
                   /\ Refused(me, item) \/ me.aborted \/ Gone(me, item) \/ Clash(me, item)
                   /\ you.aborted \in BOOLEAN /\ (me.aborted => you.aborted)
                   /\ you.counts = [old EXCEPT !.processed = @ + 1, !.failed = @ + 1]
                \/ /\ item.kind # "UNCHANGED" /\ ~Refused(me, item) /\ ~Clash(me, item)
                   /\ ~me.aborted /\ you.aborted = FALSE /\ you.tx = Wrote(me.tx, new)
                   /\ \/ you.counts = [old EXCEPT !.processed = @ + 1, !.updated = @ + 1]
                      \/ you.counts = [old EXCEPT !.processed = @ + 1, !.created = @ + 1]
<1>. DEFINE me == worker[w]
            item == FirstOf(me.todo)
            new == [item EXCEPT !.department = NameOf(me.alias[Normal[item.department]])]
            old == me.counts
            counted == [me EXCEPT !.todo = @ \ {item}, !.counts.processed = @ + 1]
            failed == [counted EXCEPT !.counts.failed = @ + 1]
            c1 == [old EXCEPT !.processed = @ + 1]
            c2 == [old EXCEPT !.processed = @ + 1, !.failed = @ + 1]
            c3 == [old EXCEPT !.processed = @ + 1, !.updated = @ + 1]
            c4 == [old EXCEPT !.processed = @ + 1, !.created = @ + 1]
            After(counts, tx, b) ==
              [me EXCEPT !.todo = @ \ {item}, !.counts = counts, !.tx = tx, !.aborted = b]
<1>1. Becomes(w,
       IF item.kind = "UNCHANGED" THEN counted
       ELSE IF Refused(me, item) \/ me.aborted THEN failed
       ELSE IF Gone(me, item) THEN failed
       ELSE IF Clash(me, item) THEN [failed EXCEPT !.aborted = TRUE]
       ELSE IF Exists(me, item) THEN [counted EXCEPT !.tx = Wrote(@, new), !.counts.updated = @ + 1]
       ELSE [counted EXCEPT !.tx = Wrote(@, new), !.counts.created = @ + 1])
  BY Zenon DEF ApplyRow, FirstOf, Refused, Clash, Gone
<1>2. Shaped(me) /\ me.pc = "write" /\ old \in Tally /\ me.aborted \in BOOLEAN
  BY WorkForm DEF IsWork, ApplyRow, At
<1>. HIDE DEF item, new, me
<1>3. /\ counted = After(c1, me.tx, me.aborted) /\ failed = After(c2, me.tx, me.aborted)
      /\ [failed EXCEPT !.aborted = TRUE] = After(c2, me.tx, TRUE)
      /\ [counted EXCEPT !.tx = Wrote(@, new), !.counts.updated = @ + 1]
           = After(c3, Wrote(me.tx, new), me.aborted)
      /\ [counted EXCEPT !.tx = Wrote(@, new), !.counts.created = @ + 1]
           = After(c4, Wrote(me.tx, new), me.aborted)
  <2>1. counted = After(c1, me.tx, me.aborted)
    BY <1>2 DEF Shaped
  <2>2. failed = After(c2, me.tx, me.aborted)
    BY <1>2 DEF Shaped, Tally
  <2>3. [failed EXCEPT !.aborted = TRUE] = After(c2, me.tx, TRUE)
    BY <1>2 DEF Shaped, Tally
  <2>4. [counted EXCEPT !.tx = Wrote(@, new), !.counts.updated = @ + 1]
           = After(c3, Wrote(me.tx, new), me.aborted)
    BY <1>2 DEF Shaped, Tally
  <2>5. [counted EXCEPT !.tx = Wrote(@, new), !.counts.created = @ + 1]
           = After(c4, Wrote(me.tx, new), me.aborted)
    BY <1>2 DEF Shaped, Tally
  <2>. QED  BY <2>1, <2>2, <2>3, <2>4, <2>5
<1>. HIDE DEF counted, failed
<1>4. \/ item.kind = "UNCHANGED" /\ Becomes(w, After(c1, me.tx, me.aborted))
      \/ /\ item.kind # "UNCHANGED"
         /\ Refused(me, item) \/ me.aborted \/ Gone(me, item) \/ Clash(me, item)
         /\ Becomes(w, After(c2, me.tx, me.aborted)) \/ Becomes(w, After(c2, me.tx, TRUE))
      \/ /\ item.kind # "UNCHANGED" /\ ~Refused(me, item) /\ ~Clash(me, item) /\ ~me.aborted
         /\ \/ Becomes(w, After(c3, Wrote(me.tx, new), me.aborted))
            \/ Becomes(w, After(c4, Wrote(me.tx, new), me.aborted))
  BY <1>1, <1>3, Zenon
<1>5. ASSUME NEW counts, NEW tx, NEW b, Becomes(w, After(counts, tx, b))
      PROVE  LET you == worker'[w] IN
             /\ you.pc = "write" /\ you.todo = me.todo \ {item} /\ you.counts = counts
             /\ you.tx = tx /\ you.aborted = b /\ Same(me, you, {"todo", "counts", "tx"})
             /\ Alone(w)
  <2>1. worker'[w] = After(counts, tx, b) /\ Alone(w)
    BY <1>5, BecomesForm
  <2>. QED  BY <1>2, <2>1 DEF Same, Shaped
<1>. HIDE DEF After
<1>6. CASE item.kind = "UNCHANGED" /\ Becomes(w, After(c1, me.tx, me.aborted))
  BY <1>5, <1>6 DEF item, new, me
<1>7. CASE /\ item.kind # "UNCHANGED"
           /\ Refused(me, item) \/ me.aborted \/ Gone(me, item) \/ Clash(me, item)
           /\ Becomes(w, After(c2, me.tx, me.aborted)) \/ Becomes(w, After(c2, me.tx, TRUE))
  BY <1>2, <1>5, <1>7 DEF item, new, me
<1>8. CASE /\ item.kind # "UNCHANGED" /\ ~Refused(me, item) /\ ~Clash(me, item) /\ ~me.aborted
           /\ \/ Becomes(w, After(c3, Wrote(me.tx, new), me.aborted))
              \/ Becomes(w, After(c4, Wrote(me.tx, new), me.aborted))
  BY <1>5, <1>8 DEF item, new, me
<1>. QED  BY <1>4, <1>6, <1>7, <1>8

LEMMA CommitMoves ==
  ASSUME Typed, NEW w \in Worker, Commit(w)
  PROVE  LET you == worker'[w] IN
         /\ you.pc = "checkpoint" /\ you.tx = {} /\ you.aborted = FALSE
         /\ Same(worker[w], you, {"tx", "staff"}) /\ Alone(w)
<1>1. Becomes(w, [worker[w] EXCEPT !.pc = "checkpoint", !.tx = {}, !.aborted = FALSE, !.staff = << >>])
  BY DEF Commit
<1>2. /\ worker'[w] = [worker[w] EXCEPT !.pc = "checkpoint", !.tx = {}, !.aborted = FALSE,
                                        !.staff = << >>]
      /\ Alone(w)
  BY <1>1, BecomesForm
<1>. QED  BY <1>2, WorkForm DEF Same, Shaped

LEMMA CheckpointMoves ==
  ASSUME Typed, NEW w \in Worker, Checkpoint(w)
  PROVE  LET me == worker[w] you == worker'[w] buffer == me.buffer \ me.batch IN
         /\ you.pc = NextPc(buffer, me.eof) /\ you.buffer = buffer /\ you.batch = {}
         /\ Same(me, you, {"buffer", "batch"}) /\ Alone(w)
<1>. DEFINE me == worker[w]
            buffer == me.buffer \ me.batch
            pc == NextPc(buffer, me.eof)
<1>1. Becomes(w, [me EXCEPT !.buffer = buffer, !.batch = {}, !.pc = pc])
  BY DEF Checkpoint
<1>. HIDE DEF buffer, pc
<1>2. worker'[w] = [me EXCEPT !.buffer = buffer, !.batch = {}, !.pc = pc] /\ Alone(w)
  BY <1>1, BecomesForm
<1>3. /\ worker'[w].pc = pc /\ worker'[w].buffer = buffer /\ worker'[w].batch = {}
      /\ Same(me, worker'[w], {"buffer", "batch"})
  BY <1>2, WorkForm DEF Same, Shaped
<1>. QED  BY <1>2, <1>3 DEF buffer, pc

\* A worker that has returned, given its job back or been killed.
LEMMA LeaveMoves ==
  ASSUME Typed, NEW w \in Worker, Return(w) \/ GiveBack(w) \/ Crash(w)
  PROVE  /\ worker'[w] = IdleWorker /\ Alone(w) /\ worker[w].pc # "idle"
         /\ \/ jobs' = jobs \ Held(w)
            \/ jobs' = (jobs \ Held(w)) \cup {[j EXCEPT !.owner = None] : j \in Held(w)}
            \/ jobs' = (jobs \ Held(w)) \cup
                 {[j EXCEPT !.made = @ + 1, !.owner = None,
                            !.state = IF j.made + 1 < MaxAttempts THEN "waiting" ELSE "failed"] :
                    j \in Held(w)}
         /\ row' = row /\ UNCHANGED <<objects, directory, request, outside>>
<1>1. Becomes(w, IdleWorker)
  BY DEF Return, GiveBack, Rethrow, Crash
<1>2. worker'[w] = IdleWorker /\ Alone(w)
  BY <1>1, BecomesForm
<1>. QED  BY <1>2 DEF Return, GiveBack, Rethrow, Crash, At

------------------------------------------------------------------------------
(* ... and to the handler that takes it.                                      *)

AloneAt(r) ==
  /\ request' = [s \in Request |-> request'[s]]
  /\ \A s \in Request : s # r => request'[s] = request[s]

LEMMA AnswerMoves ==
  ASSUME Typed, NEW r \in Request, Answer(r)
  PROVE  AloneAt(r) /\ request'[r] = IdleRequest
<1>1. request' = [s \in Request |-> IF s = r THEN IdleRequest ELSE request[s]]
  BY DEF Answer, Typed
<1>. QED  BY <1>1 DEF AloneAt

LEMMA ContinueMoves ==
  ASSUME Typed, NEW r \in Request, NEW pc, Continue(r, pc)
  PROVE  /\ AloneAt(r)
         /\ request'[r] = [pc |-> pc, op |-> request[r].op, create |-> request[r].create,
                           seen |-> request[r].seen]
<1>1. request' = [s \in Request |-> IF s = r THEN [request[r] EXCEPT !.pc = pc] ELSE request[s]]
  BY DEF Continue, Typed
<1>2. AloneAt(r) /\ request'[r] = [request[r] EXCEPT !.pc = pc]
  BY <1>1 DEF AloneAt
<1>3. IsHandler(request[r])
  BY DEF Typed
<1>. QED  BY <1>2, <1>3 DEF IsHandler

LEMMA EnterMoves ==
  ASSUME Typed, NEW r \in Request, NEW op, NEW pc, NEW create, Enter(r, op, pc, create)
  PROVE  /\ AloneAt(r)
         /\ request'[r] = [pc |-> pc, op |-> op, create |-> create, seen |-> Glance(row)]
<1>1. request' = [s \in Request |-> IF s = r THEN [pc |-> pc, op |-> op, create |-> create,
                                                   seen |-> Glance(row)] ELSE request[s]]
  BY DEF Enter, Typed
<1>. QED  BY <1>1 DEF AloneAt

------------------------------------------------------------------------------
(* Every variable keeps its type: the row and the budget.                     *)

LEMMA Flipped ==
  ASSUME Typed, NEW from, NEW to \in Status, Flip(from, to)
  PROVE  /\ IsRow(row')
         /\ row'.status = (IF row.status \in from THEN to ELSE row.status)
         /\ row'.prefix = row.prefix /\ row'.invalid = row.invalid /\ row'.total = row.total
         /\ row'.unchanged = row.unchanged /\ row'.plan = row.plan /\ row'.last = row.last
         /\ row'.counts = row.counts
<1>1. IsRow(row)
  BY DEF Typed
<1>2. CASE row.status \in from
  <2>1. row' = [row EXCEPT !.status = to]
    BY <1>2 DEF Flip
  <2>. QED  BY <1>1, <1>2, <2>1 DEF IsRow
<1>3. CASE row.status \notin from
  BY <1>1, <1>3 DEF Flip
<1>. QED  BY <1>2, <1>3

LEMMA Spent ==
  ASSUME Typed, NEW limit \in Limits \ {"churn"}, Spend(limit) \/ Ask \/ UNCHANGED left
  PROVE  left' \in [Limits -> Nat] /\ left'["churn"] = left["churn"]
<1>1. left \in [Limits -> Nat] /\ {"requests", "mishaps", "churn"} \subseteq Limits
  BY DEF Typed, Limits
<1>2. CASE Spend(limit)
  <2>1. /\ left[limit] > 0 /\ left["mishaps"] > 0
        /\ left' = [left EXCEPT ![limit] = @ - 1, !["mishaps"] = @ - 1]
    BY <1>2 DEF Spend
  <2>. QED  BY <1>1, <2>1 DEF Limits
<1>3. CASE Ask
  <2>1. left["requests"] > 0 /\ left' = [left EXCEPT !["requests"] = @ - 1]
    BY <1>3 DEF Ask
  <2>. QED  BY <1>1, <2>1
<1>. QED  BY <1>1, <1>2, <1>3

LEMMA ColleagueSpends ==
  ASSUME Typed, Colleague
  PROVE  left' \in [Limits -> Nat] /\ left'["churn"] < left["churn"]
<1>1. /\ left["churn"] > 0 /\ left["mishaps"] > 0
      /\ left' = [left EXCEPT !["churn"] = @ - 1, !["mishaps"] = @ - 1]
  BY DEF Colleague, Spend
<1>2. left \in [Limits -> Nat] /\ {"mishaps", "churn"} \subseteq Limits
  BY DEF Typed, Limits
<1>. QED  BY <1>1, <1>2

LEMMA Statuses ==
  /\ {"ABSENT", "AWAITING_UPLOAD", "QUEUED", "VALIDATING", "READY_FOR_REVIEW", "APPLY_QUEUED",
      "APPLYING", "PAUSING", "PAUSED", "CANCELLING", "CANCELLED", "CANCELLED_PARTIAL",
      "COMPLETED", "COMPLETED_WITH_ERRORS", "FAILED", "EXPIRED"} = Status
  /\ Terminal = {"CANCELLED", "CANCELLED_PARTIAL", "COMPLETED", "COMPLETED_WITH_ERRORS", "FAILED",
                 "EXPIRED"}
BY DEF Status, Terminal, Cancelled, Completed, InProgress, Idle

------------------------------------------------------------------------------
(* Facts about rows and sets of rows.                                         *)

LEMMA LeastOf ==
  ASSUME NEW S \in SUBSET Nat, S # {}
  PROVE  Least(S) \in S /\ \A m \in S : Least(S) <= m
<1>1. IsWellFoundedOn(OpToRel(<, Nat), Nat)
  BY NatLessThanWellFounded, Zenon
<1>2. PICK n \in S : \A m \in S : ~(<<m, n>> \in OpToRel(<, Nat))
  BY <1>1, WFMin, Zenon
<1>3. \A m \in S : ~(m < n)
  BY <1>2 DEF OpToRel
<1>4. \A m \in S : n <= m
  BY <1>3
<1>. QED  BY <1>4 DEF Least

LEMMA FirstOfRows ==
  ASSUME NEW S, S # {}, \A g \in S : g.row \in Nat
  PROVE  FirstOf(S) \in S /\ \A h \in S : FirstOf(S).row <= h.row
<1>. DEFINE R == {g.row : g \in S}
<1>1. Least(R) \in R /\ \A m \in R : Least(R) <= m
  BY LeastOf
<1>2. PICK g \in S : g.row = Least(R)
  BY <1>1
<1>3. \A h \in S : g.row <= h.row
  BY <1>1, <1>2
<1>. QED  BY <1>2, <1>3 DEF FirstOf

\* The last one of finitely many.
LEMMA LastOfRows ==
  ASSUME NEW S, S # {}, NEW n \in Nat, \A g \in S : g.row \in Nat /\ g.row <= n
  PROVE  \E g \in S : LastRow(S) = g.row /\ \A h \in S : h.row <= g.row
<1>. DEFINE R == {n - g.row : g \in S}
<1>1. R \in SUBSET Nat /\ R # {}
  OBVIOUS
<1>2. Least(R) \in R /\ \A m \in R : Least(R) <= m
  BY <1>1, LeastOf
<1>3. PICK g \in S : n - g.row = Least(R)
  BY <1>2
<1>4. ASSUME NEW h \in S PROVE h.row <= g.row
  <2>1. n - h.row \in R
    OBVIOUS
  <2>2. n - g.row <= n - h.row
    BY <1>2, <1>3, <2>1
  <2>. QED  BY <2>2
<1>. DEFINE l == CHOOSE x \in S : \A h \in S : h.row <= x.row
<1>5. l \in S /\ \A h \in S : h.row <= l.row
  BY <1>3, <1>4
<1>. QED  BY <1>5 DEF LastRow

LEMMA RowTypes ==
  /\ \A g \in NormalizedRow : g.row \in Nat \ {0} /\ g.kind \in Kind /\ g.number \in Number
       /\ g.mail \in Mail \cup {None} /\ g.department \in Name /\ g.rest \in Rest
  /\ Lines \in Nat
       => \A S, T : IsBatch(S) /\ IsBatch(T) => IsBatch(S \cup T)
  /\ \A S, T : IsBatch(S) /\ T \subseteq S => IsBatch(T)
  /\ IsBatch({})
<1>1. \A g \in NormalizedRow : g.row \in Nat \ {0} /\ g.kind \in Kind /\ g.number \in Number
       /\ g.mail \in Mail \cup {None} /\ g.department \in Name /\ g.rest \in Rest
  BY DEF NormalizedRow
<1>2. ASSUME NEW S, NEW T, IsBatch(S), IsBatch(T) PROVE IsBatch(S \cup T)
  BY <1>2, FS_Union DEF IsBatch
<1>3. ASSUME NEW S, NEW T, IsBatch(S), T \subseteq S PROVE IsBatch(T)
  BY <1>3, FS_Subset DEF IsBatch
<1>4. IsBatch({})
  BY FS_EmptySet DEF IsBatch
<1>. QED  BY <1>1, <1>2, <1>3, <1>4

LEMMA LinesType == Typed => Lines \in Nat /\ DOMAIN file.rows = 1 .. Lines /\ file.broken \in BOOLEAN
BY FileAssumption DEF Typed, Lines

LEMMA RowsForm ==
  ASSUME Typed, NEW cols, Columned(cols)
  PROVE  /\ Rows(cols) \in [1 .. Lines -> RawRow] /\ Len(Rows(cols)) = Lines
         /\ \A i \in 1 .. Lines : Rows(cols)[i] \in RawRow
<1>1. PICK ai \in [Open -> Answers] : cols = Resolve(file.headers, ai)
  BY DEF Columned
<1>2. \A i \in DOMAIN file.rows : RowOf(file.rows[i], cols) \in RawRow
  BY <1>1, FileAssumption DEF Typed, Columned
<1>3. Rows(cols) \in [1 .. Lines -> RawRow]
  BY <1>2, LinesType DEF Rows
<1>4. Len(Rows(cols)) = Lines
  BY <1>3, LinesType
<1>. QED  BY <1>3, <1>4

LEMMA RawFields ==
  \A r \in RawRow :
    /\ r.number \in Number \cup Unread /\ r.mail \in Mail \cup Unread
    /\ r.department \in Name \cup Unread /\ r.rest \in Rest \cup Unread /\ r.code \in Code \cup Unread
BY DEF RawRow

LEMMA GoodRow ==
  ASSUME NEW r \in RawRow, ~Malformed(r)
  PROVE  /\ r.number \in Number /\ r.department \in Name /\ r.rest \in Rest
         /\ r.mail \in Mail \cup {None} /\ r.code \in Code \cup {None}
<1>1. r["number"] = r.number /\ r["department"] = r.department /\ r["rest"] = r.rest
  BY DEF RawRow
<1>2. /\ r.number \notin {None, Bad} /\ r.department \notin {None, Bad} /\ r.rest \notin {None, Bad}
      /\ r.mail # Bad /\ r.code # Bad
  BY <1>1 DEF Malformed, Required
<1>. QED  BY <1>2, RawFields DEF Unread

LEMMA NormalizedForm ==
  ASSUME NEW rows, NEW i \in Nat \ {0}, rows[i] \in RawRow, ~Malformed(rows[i]), NEW people
  PROVE  LET g == Normalized(rows, i, people) IN
         /\ g \in NormalizedRow /\ g.row = i /\ g.number = rows[i].number /\ g.mail = rows[i].mail
         /\ g.department = rows[i].department /\ g.rest = rows[i].rest
<1>1. KindOf(rows[i], people) \in Kind
  BY DEF KindOf, Kind
<1>. QED  BY <1>1, GoodRow DEF Normalized, NormalizedRow

\* What BatchErrors leaves is fine in every respect.
LEMMA BatchErrorsForm ==
  ASSUME NEW rows, NEW batch, NEW people, NEW wrong
  PROVE  /\ BatchErrors(rows, batch, people, wrong) \subseteq batch
         /\ \A i \in batch \ BatchErrors(rows, batch, people, wrong) :
              /\ ~Malformed(rows[i]) /\ ~Repeated(rows, i)
              /\ ~Owned(people, rows[i].number, rows[i].mail)
BY DEF BatchErrors, RowErrors, CodeConflicts

\* Division.
LEMMA DivForm ==
  ASSUME NEW a \in Nat, NEW c \in Nat \ {0}
  PROVE  /\ a \div c \in Nat
         /\ c * (a \div c) <= a /\ a < c * (a \div c) + c
<1>1. a = c * (a \div c) + (a % c) /\ a % c \in 0 .. (c - 1)
  OBVIOUS
<1>2. a \div c \in Nat
  OBVIOUS
<1>. QED  BY <1>1, <1>2

LEMMA Multiples ==
  ASSUME NEW c \in Nat \ {0}, NEW p \in Nat, NEW q \in Nat
  PROVE  /\ p <= q => c * p <= c * q
         /\ p < q => c * p + c <= c * q
         /\ c * p \in Nat
<1>1. c * q = c * p + c * (q - p)
  OBVIOUS
<1>2. ASSUME p <= q PROVE c * (q - p) >= 0
  <2>1. q - p \in Nat
    BY <1>2
  <2>. QED  BY <2>1
<1>3. ASSUME p < q PROVE c * (q - p) >= c
  <2>1. q - p - 1 \in Nat
    BY <1>3
  <2>2. c * (q - p - 1) >= 0
    BY <2>1
  <2>3. c * (q - p) = c * (q - p - 1) + c
    OBVIOUS
  <2>. QED  BY <2>2, <2>3
<1>4. c * p \in Nat
  OBVIOUS
<1>. QED  BY <1>1, <1>2, <1>3, <1>4

LEMMA DivGrows ==
  ASSUME NEW c \in Nat \ {0}, NEW a \in Nat, NEW b \in Nat, a <= b
  PROVE  a \div c <= b \div c
<1>. DEFINE p == a \div c
            q == b \div c
<1>1. /\ p \in Nat /\ q \in Nat /\ c * p <= a /\ b < c * q + c
  BY DivForm
<1>. HIDE DEF p, q
<1>2. ~(q < p)
  <2>1. ASSUME q < p PROVE FALSE
    <3>1. c * q + c <= c * p /\ c * p \in Nat /\ c * q \in Nat
      BY <1>1, <2>1, Multiples
    <3>. QED  BY <1>1, <3>1
  <2>. QED  BY <2>1
<1>. QED  BY <1>1, <1>2 DEF p, q

\* The first row of a part, and the rows from there on.
LEMMA FirstOfPart ==
  ASSUME NEW c \in Nat \ {0}, NEW k \in Nat
  PROVE  /\ (c * k) \div c = k
         /\ \A a \in Nat : k <= a \div c => c * k <= a
<1>. DEFINE q == (c * k) \div c
<1>0. c * k \in Nat
  BY Multiples
<1>1. q \in Nat /\ c * q <= c * k /\ c * k < c * q + c
  BY <1>0, DivForm
<1>. HIDE DEF q
<1>2. ~(q < k)
  <2>1. ASSUME q < k PROVE FALSE
    <3>1. c * q + c <= c * k /\ c * k \in Nat /\ c * q \in Nat
      BY <1>1, <2>1, Multiples
    <3>. QED  BY <1>1, <3>1
  <2>. QED  BY <2>1
<1>3. ~(k < q)
  <2>1. ASSUME k < q PROVE FALSE
    <3>1. c * k + c <= c * q /\ c * k \in Nat /\ c * q \in Nat
      BY <1>1, <2>1, Multiples
    <3>. QED  BY <1>1, <3>1
  <2>. QED  BY <2>1
<1>4. q = k
  BY <1>1, <1>2, <1>3
<1>5. ASSUME NEW a \in Nat, k <= a \div c PROVE c * k <= a
  <2>. DEFINE p == a \div c
  <2>1. p \in Nat /\ c * p <= a /\ k <= p
    BY <1>5, DivForm
  <2>. HIDE DEF p
  <2>2. c * k <= c * p /\ c * k \in Nat /\ c * p \in Nat
    BY <2>1, Multiples
  <2>. QED  BY <2>1, <2>2
<1>. QED  BY <1>4, <1>5 DEF q

LEMMA Places ==
  /\ \A i \in Nat \ {0} : Place(i) \in Nat \ {0}
  /\ \A i, j \in Nat \ {0} : i <= j => Place(i) <= Place(j)
  /\ \A i \in Nat \ {0}, p \in Nat \ {0} : p <= Place(i) =>
       \E j \in 1 .. i : Place(j) = p
<1>1. ChunkSize \in Nat \ {0}
  BY SizeAssumption
<1>2. \A i \in Nat \ {0} : i - 1 \in Nat
  OBVIOUS
<1>3. ASSUME NEW i \in Nat \ {0} PROVE Place(i) \in Nat \ {0}
  <2>1. (i - 1) \div ChunkSize \in Nat
    BY <1>1, <1>2, DivForm
  <2>. QED  BY <2>1 DEF Place
<1>4. ASSUME NEW i \in Nat \ {0}, NEW j \in Nat \ {0}, i <= j PROVE Place(i) <= Place(j)
  <2>1. (i - 1) \div ChunkSize <= (j - 1) \div ChunkSize
    BY <1>1, <1>2, <1>4, DivGrows
  <2>2. (i - 1) \div ChunkSize \in Nat /\ (j - 1) \div ChunkSize \in Nat
    BY <1>1, <1>2, DivForm
  <2>. QED  BY <2>1, <2>2 DEF Place
<1>5. ASSUME NEW i \in Nat \ {0}, NEW p \in Nat \ {0}, p <= Place(i)
      PROVE  \E j \in 1 .. i : Place(j) = p
  <2>. DEFINE b == ChunkSize * (p - 1)
  <2>1. (i - 1) \div ChunkSize \in Nat /\ p - 1 \in Nat /\ p - 1 <= (i - 1) \div ChunkSize
    BY <1>1, <1>2, <1>5, DivForm DEF Place
  <2>2. b \div ChunkSize = p - 1 /\ b <= i - 1 /\ b \in Nat
    BY <1>1, <1>2, <2>1, FirstOfPart, Multiples
  <2>. HIDE DEF b
  <2>3. b + 1 \in 1 .. i /\ (b + 1) - 1 = b
    BY <2>2
  <2>4. Place(b + 1) = p
    BY <2>2, <2>3 DEF Place
  <2>. QED  BY <2>3, <2>4
<1>. QED  BY <1>3, <1>4, <1>5

\* Rows further up in a set of rows.
Above(S, g) == {h \in S : h.row < g.row}

LEMMA AboveForm ==
  ASSUME NEW S, IsFiniteSet(S)
  PROVE  /\ \A g \in S : IsFiniteSet(Above(S, g)) /\ Cardinality(Above(S, g)) \in Nat
         /\ (\A g \in S : g.row \in Nat) =>
              \A g, h \in S : h.row <= g.row =>
                Cardinality(Above(S, h)) <= Cardinality(Above(S, g))
<1>1. ASSUME NEW g \in S PROVE IsFiniteSet(Above(S, g)) /\ Cardinality(Above(S, g)) \in Nat
  BY FS_Subset, FS_CardinalityType DEF Above
<1>2. ASSUME \A g \in S : g.row \in Nat, NEW g \in S, NEW h \in S, h.row <= g.row
      PROVE  Cardinality(Above(S, h)) <= Cardinality(Above(S, g))
  <2>1. Above(S, h) \in SUBSET Above(S, g)
    BY <1>2 DEF Above
  <2>. QED  BY <1>1, <2>1, FS_Subset
<1>. QED  BY <1>1, <1>2

LEMMA FirstRowsForm ==
  ASSUME NEW S, IsBatch(S)
  PROVE  /\ FirstRows(S) \subseteq S
         /\ S # {} => FirstRows(S) # {}
         /\ \A g \in FirstRows(S), h \in S : h.row < g.row => h \in FirstRows(S)
<1>1. FirstRows(S) = {g \in S : Cardinality(Above(S, g)) < BatchSize}
  BY DEF FirstRows, Above
<1>2. IsFiniteSet(S) /\ \A g \in S : g.row \in Nat
  BY RowTypes DEF IsBatch
<1>3. BatchSize \in Nat \ {0}
  BY SizeAssumption
<1>4. ASSUME S # {} PROVE FirstRows(S) # {}
  <2>. DEFINE m == FirstOf(S)
  <2>1. m \in S /\ \A h \in S : m.row <= h.row
    BY <1>2, <1>4, FirstOfRows
  <2>. HIDE DEF m
  <2>2. Above(S, m) = {}
    BY <1>2, <2>1 DEF Above
  <2>3. Cardinality(Above(S, m)) = 0
    BY <2>2, FS_EmptySet
  <2>. QED  BY <1>1, <1>3, <2>1, <2>3
<1>5. ASSUME NEW g \in FirstRows(S), NEW h \in S, h.row < g.row PROVE h \in FirstRows(S)
  <2>1. g \in S /\ Cardinality(Above(S, g)) < BatchSize /\ h.row <= g.row
    BY <1>1, <1>2, <1>5
  <2>2. Cardinality(Above(S, h)) <= Cardinality(Above(S, g))
    BY <1>2, <2>1, AboveForm
  <2>3. Cardinality(Above(S, h)) \in Nat /\ Cardinality(Above(S, g)) \in Nat
    BY <1>2, <2>1, AboveForm
  <2>. QED  BY <1>1, <1>3, <2>1, <2>2, <2>3
<1>. QED  BY <1>1, <1>4, <1>5

LEMMA NextPcForm ==
  ASSUME NEW S, IsFiniteSet(S), NEW eof \in BOOLEAN
  PROVE  /\ NextPc(S, eof) \in {"part", "state", "finish"}
         /\ NextPc(S, eof) = "state" => S # {}
         /\ NextPc(S, eof) = "finish" => eof /\ S = {}
<1>1. BatchSize \in Nat \ {0} /\ Cardinality({}) = 0
  BY SizeAssumption, FS_EmptySet
<1>. QED  BY <1>1 DEF NextPc

\* The rows further up are counted by their numbers.
LEMMA AboveBound ==
  ASSUME NEW S, IsBatch(S), Distinct(S), NEW g \in S
  PROVE  /\ Cardinality(Above(S, g)) <= g.row - 1
         /\ (\A i \in 1 .. g.row - 1 : \E h \in S : h.row = i) =>
              Cardinality(Above(S, g)) = g.row - 1
<1>1. g.row \in Nat \ {0} /\ \A h \in S : h.row \in Nat \ {0}
  BY RowTypes DEF IsBatch
<1>. DEFINE A == Above(S, g)
            T == 1 .. g.row - 1
            f == [h \in A |-> h.row]
<1>2. IsFiniteSet(T) /\ Cardinality(T) = g.row - 1
  <2>. DEFINE n == g.row - 1
  <2>1. n \in Nat
    BY <1>1
  <2>. HIDE DEF n
  <2>2. IsFiniteSet(1 .. n) /\ Cardinality(1 .. n) = IF 1 > n THEN 0 ELSE n - 1 + 1
    BY <2>1, FS_Interval
  <2>3. Cardinality(1 .. n) = n
    BY <2>1, <2>2
  <2>. QED  BY <2>2, <2>3 DEF n
<1>3. f \in Injection(A, T)
  <2>1. \A h \in A : h.row \in T
    BY <1>1 DEF Above
  <2>2. \A h, k \in A : f[h] = f[k] => h = k
    BY DEF Distinct, Above
  <2>3. f \in [A -> T] /\ DOMAIN f = A
    BY <2>1
  <2>. HIDE DEF f
  <2>. QED  BY <2>2, <2>3 DEF Injection, IsInjective
<1>4. /\ Cardinality(A) <= Cardinality(T)
      /\ f \in Surjection(A, T) => Cardinality(A) = Cardinality(T)
  BY <1>2, <1>3, FS_Injection
<1>5. ASSUME \A i \in 1 .. g.row - 1 : \E h \in S : h.row = i PROVE f \in Surjection(A, T)
  <2>1. \A i \in T : \E h \in A : f[h] = i
    BY <1>1, <1>5 DEF Above
  <2>2. f \in [A -> T]
    BY <1>3 DEF Injection
  <2>. QED  BY <2>1, <2>2 DEF Surjection
<1>. QED  BY <1>2, <1>4, <1>5

LEMMA ChunkForm ==
  ASSUME NEW S, IsBatch(S), Distinct(S), NEW n \in Nat \ {0}
  PROVE  /\ IsBatch(Chunk(S, n)) /\ Chunk(S, n) \subseteq S
         /\ \A g \in Chunk(S, n) : n <= Place(g.row)
<1>1. Chunk(S, n) = {g \in S : Cardinality(Above(S, g)) \div ChunkSize = n - 1}
  BY DEF Chunk, Above
<1>2. IsBatch(Chunk(S, n)) /\ Chunk(S, n) \subseteq S
  BY <1>1, RowTypes
<1>3. ASSUME NEW g \in Chunk(S, n) PROVE n <= Place(g.row)
  <2>1. g \in S /\ Cardinality(Above(S, g)) \div ChunkSize = n - 1
    BY <1>1
  <2>2. /\ Cardinality(Above(S, g)) \in Nat /\ g.row - 1 \in Nat
        /\ Cardinality(Above(S, g)) <= g.row - 1
    BY <2>1, AboveForm, AboveBound, RowTypes DEF IsBatch
  <2>3. n - 1 <= (g.row - 1) \div ChunkSize /\ (g.row - 1) \div ChunkSize \in Nat
    BY <2>1, <2>2, DivGrows, DivForm, SizeAssumption
  <2>. QED  BY <2>3 DEF Place
<1>. QED  BY <1>2, <1>3

\* Without gaps, a chunk is what its place says, and when it is empty all of the
\* rows are in those before.
LEMMA WholeChunks ==
  ASSUME NEW S, IsBatch(S), Distinct(S), NEW n \in Nat \ {0},
         \A g \in S : \A i \in 1 .. g.row : \E h \in S : h.row = i
  PROVE  /\ Chunk(S, n) = {g \in S : Place(g.row) = n}
         /\ Chunk(S, n) = {} => \A g \in S : Place(g.row) < n
<1>1. \A g \in S : g.row \in Nat \ {0} /\ Cardinality(Above(S, g)) = g.row - 1
  BY AboveBound, RowTypes DEF IsBatch
<1>2. Chunk(S, n) = {g \in S : (g.row - 1) \div ChunkSize = n - 1}
  <2>1. Chunk(S, n) = {g \in S : Cardinality(Above(S, g)) \div ChunkSize = n - 1}
    BY DEF Chunk, Above
  <2>. QED  BY <1>1, <2>1
<1>3. \A g \in S : (g.row - 1) \div ChunkSize = n - 1 <=> Place(g.row) = n
  <2>1. \A g \in S : (g.row - 1) \div ChunkSize \in Nat
    BY <1>1, DivForm, SizeAssumption
  <2>. QED  BY <2>1 DEF Place
<1>4. Chunk(S, n) = {g \in S : Place(g.row) = n}
  BY <1>2, <1>3
<1>5. ASSUME Chunk(S, n) = {}, NEW g \in S PROVE Place(g.row) < n
  <2>1. ~(n <= Place(g.row))
    <3>1. ASSUME n <= Place(g.row) PROVE FALSE
      <4>1. PICK j \in 1 .. g.row : Place(j) = n
        BY <1>1, <3>1, Places
      <4>2. PICK h \in S : h.row = j
        BY <4>1
      <4>3. h \in Chunk(S, n)
        BY <1>4, <4>1, <4>2
      <4>. QED  BY <1>5, <4>3
    <3>. QED  BY <3>1
  <2>. QED  BY <1>1, <2>1, Places
<1>. QED  BY <1>4, <1>5

------------------------------------------------------------------------------
(* Every variable keeps its type: the workers.                                *)

LEMMA FileKept == [Next]_vars => file' = file
<1>. SUFFICES ASSUME [Next]_vars PROVE file' = file
  OBVIOUS
<1>1. ASSUME NEW w \in Worker, Validate(w) PROVE file' = file
  BY <1>1 DEF Validate, ClaimValidation, Parse, ParseNothing, Refuse, Classify, PlanDepartments,
              Stage, Ready, Abandon, Discard, outside, cleanup
<1>2. ASSUME NEW w \in Worker, Apply(w) PROVE file' = file
  BY <1>2, Zenon DEF Apply, Look, ClaimApply, ResolveDepartment, Resolved, ReadPart, ReadState,
              Halt, Park, ApplyRow, Commit, Checkpoint, Finish, Late, outside, cleanup
<1>3. ASSUME NEW w \in Worker, Take(w) \/ Return(w) \/ GiveBack(w) \/ Fault(w) PROVE file' = file
  BY <1>3 DEF Take, Return, GiveBack, Fault, Throw, Crash, outside, cleanup
<1>4. ASSUME NEW r \in Request, Serve(r) PROVE file' = file
  BY <1>4 DEF Serve, Create, UploadComplete, MarkUploaded, Confirm, Resume, ClaimConfirmed,
              Enqueue, Undo, Cancel, CancelIdle, CleanArtifacts, FlagCancelling, outside, cleanup
<1>5. ASSUME Stalled \/ PutFile \/ Pause \/ Sweep \/ Expire \/ Colleague PROVE file' = file
  BY <1>5 DEF Stalled, PutFile, Pause, Sweep, SweepList, SweepDelete, SweepMark, SweepStale,
              Expire, Colleague, outside, cleanup
<1>6. UNCHANGED vars => file' = file
  BY DEF vars, outside, cleanup
<1>. QED  BY <1>1, <1>2, <1>3, <1>4, <1>5, <1>6 DEF Next, Work

LEMMA GlanceType == Typed => IsGlance(Glance(row))
<1>. SUFFICES ASSUME Typed PROVE IsGlance(Glance(row))
  OBVIOUS
<1>1. row.status \in Status /\ row.last \in Nat /\ IsPlan(row.plan)
  BY DEF Typed, IsRow
<1>. QED  BY <1>1 DEF IsGlance, Glance

LEMMA FreshTypes ==
  /\ IsRow(FreshRow) /\ IsGlance(Glance(FreshRow)) /\ Counters \in Tally
  /\ IsWork(IdleWorker) /\ Fresh(IdleWorker) /\ IdleWorker.pc = "idle" /\ IsHandler(IdleRequest)
<1>1. Counters \in Tally
  BY DEF Counters, Tally
<1>2. IsPlan(<< >>)
  BY DEF IsPlan
<1>3. IsRow(FreshRow)
  BY <1>1, <1>2, Statuses DEF IsRow, FreshRow
<1>4. IsGlance(Glance(FreshRow))
  BY <1>2, Statuses DEF IsGlance, Glance, FreshRow
<1>. DEFINE seen == Glance(FreshRow)
<1>5. IsWork(IdleWorker)
  <2>. HIDE DEF seen
  <2>1. IdleWorker =
          [pc |-> "idle", job |-> << >>, made |-> 0, cols |-> << >>, at |-> 0, wrong |-> {},
           good |-> {}, seen |-> seen, known |-> {}, todo |-> {}, alias |-> << >>, part |-> 1,
           eof |-> FALSE, buffer |-> {}, batch |-> {}, staff |-> << >>, tx |-> {},
           aborted |-> FALSE, counts |-> Counters]
    BY DEF seen, IdleWorker
  <2>2. IsGlance(seen)
    BY <1>4 DEF seen
  <2>3. IsBatch({})
    BY RowTypes
  <2>. QED  BY <1>1, <2>1, <2>2, <2>3 DEF IsWork, Worker_Pc
<1>6. Fresh(IdleWorker) /\ IdleWorker.pc = "idle"
  BY DEF Fresh, IdleWorker
<1>7. IsHandler(IdleRequest)
  <2>. HIDE DEF seen
  <2>1. IdleRequest = [pc |-> "idle", op |-> "none", create |-> FALSE, seen |-> seen]
    BY DEF seen, IdleRequest
  <2>2. IsGlance(seen)
    BY <1>4 DEF seen
  <2>. QED  BY <2>1, <2>2 DEF IsHandler, Request_Pc
<1>. QED  BY <1>1, <1>3, <1>4, <1>5, <1>6, <1>7

\* A worker that only goes to another place.
LEMMA GoWork ==
  ASSUME Typed, file' = file, NEW w \in Worker, NEW pc, Goto(w, pc),
         pc \in Worker_Pc \ {"resolve", "write", "checkpoint", "state", "claim", "parse", "classify",
                             "plan"}
           \/ (worker[w].pc = "claim" /\ pc = "parse")
  PROVE  IsWork(worker[w])'
<1>1. worker'[w].pc = pc /\ Same(worker[w], worker'[w], {})
  BY GoMoves
<1>2. IsWork(worker[w]) /\ "parse" \in Worker_Pc
  BY WorkForm DEF Worker_Pc
<1>. QED  BY <1>1, <1>2 DEF IsWork, Same, Shaped, IsBatch, Lines

LEMMA TakeWork ==
  ASSUME Typed, file' = file, NEW w \in Worker, Take(w)
  PROVE  IsWork(worker[w])'
<1>1. PICK j \in jobs :
        /\ worker'[w] = [IdleWorker EXCEPT !.pc = worker'[w].pc, !.job = j.id, !.made = j.made]
        /\ worker'[w].pc = IF j.id[1] = "validate" THEN "claim" ELSE "look"
  BY TakeMoves
<1>. DEFINE seen == Glance(FreshRow)
<1>2. IsGlance(seen) /\ IsBatch({}) /\ Counters \in Tally
  BY FreshTypes, RowTypes
<1>. HIDE DEF seen
<1>3. IdleWorker =
          [pc |-> "idle", job |-> << >>, made |-> 0, cols |-> << >>, at |-> 0, wrong |-> {},
           good |-> {}, seen |-> seen, known |-> {}, todo |-> {}, alias |-> << >>, part |-> 1,
           eof |-> FALSE, buffer |-> {}, batch |-> {}, staff |-> << >>, tx |-> {},
           aborted |-> FALSE, counts |-> Counters]
  BY DEF seen, IdleWorker
<1>4. worker'[w] =
          [pc |-> worker'[w].pc, job |-> j.id, made |-> j.made, cols |-> << >>, at |-> 0,
           wrong |-> {}, good |-> {}, seen |-> seen, known |-> {}, todo |-> {}, alias |-> << >>,
           part |-> 1, eof |-> FALSE, buffer |-> {}, batch |-> {}, staff |-> << >>, tx |-> {},
           aborted |-> FALSE, counts |-> Counters]
  BY <1>1, <1>3
<1>5. worker'[w].pc \in {"claim", "look"}
  BY <1>1
<1>6. /\ Shaped(worker'[w]) /\ worker'[w].seen = seen /\ worker'[w].counts = Counters
      /\ worker'[w].buffer = {} /\ worker'[w].batch = {} /\ worker'[w].tx = {}
      /\ worker'[w].known = {} /\ worker'[w].part = 1 /\ worker'[w].eof = FALSE
      /\ worker'[w].aborted = FALSE /\ worker'[w].at = 0 /\ worker'[w].wrong = {}
      /\ worker'[w].good = {}
  BY <1>4 DEF Shaped
<1>7. IsFiniteSet({})
  BY FS_EmptySet
<1>8. IsBatch(worker[w].buffer)'
  BY <1>6, <1>7 DEF IsBatch
<1>9. IsGlance(worker'[w].seen) /\ worker'[w].counts \in Tally /\ worker'[w].pc \in Worker_Pc
  BY <1>2, <1>5, <1>6 DEF Worker_Pc
<1>10. /\ worker'[w].known \subseteq Department /\ worker'[w].part \in Nat \ {0}
       /\ worker'[w].batch \subseteq worker'[w].buffer /\ worker'[w].tx \subseteq NormalizedRow
  BY <1>6
<1>12. worker'[w].eof \in BOOLEAN /\ worker'[w].aborted \in BOOLEAN
  BY <1>6, Zenon
<1>11. worker'[w].pc \notin {"resolve", "write", "checkpoint", "state"}
  BY <1>5
<1>. HIDE DEF seen
<1>. QED  BY <1>6, <1>8, <1>9, <1>10, <1>11, <1>12 DEF IsWork, Shaped

LEMMA ParseWork ==
  ASSUME Typed, file' = file, NEW w \in Worker, Parse(w)
  PROVE  /\ IsWork(worker[w])'
         /\ worker'[w].pc \in {"classify", "plan", "stage"} => Checked(worker[w])'
<1>1. PICK ai \in [Open -> Answers] :
           LET cols == Resolve(file.headers, ai) IN
           /\ worker'[w].cols = cols /\ worker'[w].known = departments
           /\ worker'[w].pc = (IF file.broken \/ BadHeaders(cols) THEN "refuse"
                               ELSE IF file.rows = << >> THEN "plan" ELSE "classify")
           /\ worker'[w].at = worker[w].at /\ worker'[w].wrong = worker[w].wrong
           /\ worker'[w].good = worker[w].good
           /\ Same(worker[w], worker'[w], {"check", "known"})
  BY ParseMoves
<1>2. IsWork(worker[w]) /\ worker[w].pc = "parse"
  BY WorkForm DEF Parse, At
<1>3. departments \subseteq Department
  BY DEF Typed, DirectoryOK
<1>. DEFINE you == worker'[w]
<1>4. /\ you.at = 0 /\ you.wrong = {} /\ you.good = {} /\ you.part = 1
      /\ you.pc \in {"refuse", "plan", "classify"} /\ you.known = departments
  BY <1>1, <1>2 DEF IsWork, Same
<1>5. IsWork(worker[w])'
  BY <1>1, <1>2, <1>3, <1>4 DEF IsWork, Same, Shaped, IsBatch, Lines, Worker_Pc
<1>6. ASSUME you.pc \in {"classify", "plan", "stage"} PROVE Checked(worker[w])'
  <2>1. ~file.broken /\ ~BadHeaders(you.cols) /\ you.cols = Resolve(file.headers, ai)
    BY <1>1, <1>6
  <2>2. you.pc = "plan" => Len(file.rows) = 0
    BY <1>1, <1>6
  <2>3. Lines \in Nat
    BY LinesType
  <2>4. IsBatch({})'
    BY FS_EmptySet DEF IsBatch
  <2>5. (1 .. you.at) \ you.wrong = {} /\ you.at \in 0 .. Lines /\ you.wrong \subseteq 1 .. you.at
    BY <1>4, <2>3
  <2>6. you.pc \in {"plan", "stage"} => you.at = Lines
    BY <1>4, <2>2 DEF Lines
  <2>7. Lines' = Lines /\ file' = file
    BY DEF Lines
  <2>8. Columned(worker[w].cols)'
    BY <2>1, <2>7 DEF Columned
  <2>9. Distinct(worker[w].good)'
    BY <1>4 DEF Distinct
  <2>. QED  BY <1>4, <2>4, <2>5, <2>6, <2>7, <2>8, <2>9 DEF Checked
<1>. QED  BY <1>5, <1>6

LEMMA ClassifyWork ==
  ASSUME Typed, file' = file, NEW w \in Worker, Classify(w)
  PROVE  /\ IsWork(worker[w])'
         /\ worker'[w].pc \in {"classify", "plan", "stage"} => Checked(worker[w])'
<1>. DEFINE me == worker[w]
            you == worker'[w]
            rows == Rows(me.cols)
            upTo == IF me.at + BatchSize < Len(rows) THEN me.at + BatchSize ELSE Len(rows)
            batch == (me.at + 1) .. upTo
            wrong == BatchErrors(rows, batch, staff, me.wrong)
            new == {Normalized(rows, i, staff) : i \in batch \ wrong}
<1>1. /\ you.at = upTo /\ you.wrong = me.wrong \cup wrong /\ you.cols = me.cols
      /\ you.good = me.good \cup new
      /\ you.pc = (IF row.status # "VALIDATING" THEN "abandon"
                   ELSE IF upTo < Len(rows) THEN "classify" ELSE "plan")
      /\ Same(me, you, {"check"})
  BY ClassifyMoves
<1>2. IsWork(me) /\ me.pc = "classify"
  BY WorkForm DEF Classify, At
<1>3. Checked(me)
  BY <1>2 DEF Typed
<1>4. /\ rows \in [1 .. Lines -> RawRow] /\ Len(rows) = Lines /\ Lines \in Nat
      /\ Columned(me.cols) /\ \A i \in 1 .. Lines : rows[i] \in RawRow
  BY <1>3, RowsForm, LinesType DEF Checked
<1>. HIDE DEF rows
<1>5. /\ me.at \in 0 .. Lines /\ upTo \in 0 .. Lines /\ me.at <= upTo
      /\ upTo < Len(rows) \/ upTo = Lines
  BY <1>3, <1>4, SizeAssumption DEF Checked
<1>. HIDE DEF upTo
<1>6. /\ wrong \subseteq batch
      /\ \A i \in batch \ wrong : /\ ~Malformed(rows[i]) /\ ~Repeated(rows, i)
  BY BatchErrorsForm
<1>. HIDE DEF wrong
<1>7. /\ (1 .. upTo) \ (me.wrong \cup wrong) = ((1 .. me.at) \ me.wrong) \cup (batch \ wrong)
      /\ me.wrong \cup wrong \subseteq 1 .. upTo
      /\ \A i \in batch : i \in 1 .. Lines /\ i \in Nat \ {0} /\ i > me.at
  <2>1. /\ me.wrong \subseteq 1 .. me.at /\ me.at \in Nat /\ upTo \in Nat /\ Lines \in Nat
        /\ me.at <= upTo /\ upTo <= Lines
    BY <1>3, <1>4, <1>5 DEF Checked
  <2>2. \A i \in batch : i \in Nat /\ me.at < i /\ i <= upTo
    BY <2>1
  <2>3. \A i \in Nat : i <= upTo => (i <= me.at \/ i \in batch)
    BY <2>1
  <2>4. \A i \in wrong : i \in Nat /\ me.at < i /\ i <= upTo
    BY <1>6, <2>2
  <2>5. \A i \in me.wrong : i \in Nat /\ i <= me.at /\ 0 < i
    BY <2>1
  <2>. HIDE DEF batch, me
  <2>6. \A i : i \in (1 .. upTo) \ (me.wrong \cup wrong)
                 => i \in ((1 .. me.at) \ me.wrong) \cup (batch \ wrong)
    BY <2>1, <2>3
  <2>7. \A i : i \in ((1 .. me.at) \ me.wrong) \cup (batch \ wrong)
                 => i \in (1 .. upTo) \ (me.wrong \cup wrong)
    BY <2>1, <2>2, <2>4, <2>5
  <2>8. me.wrong \cup wrong \subseteq 1 .. upTo
    BY <2>1, <2>4, <2>5
  <2>9. \A i \in batch : i \in 1 .. Lines /\ i \in Nat \ {0} /\ i > me.at
    BY <2>1, <2>2
  <2>. QED  BY <2>6, <2>7, <2>8, <2>9
<1>8. \A g \in new :
        /\ g.row \in batch \ wrong /\ g = Normalized(rows, g.row, staff) /\ g \in NormalizedRow
        /\ g = [row |-> g.row, kind |-> g.kind, number |-> rows[g.row].number,
                mail |-> rows[g.row].mail, department |-> rows[g.row].department,
                rest |-> rows[g.row].rest]
  <2>. SUFFICES ASSUME NEW i \in batch \ wrong, NEW g, g = Normalized(rows, i, staff)
                PROVE  /\ g.row = i /\ g \in NormalizedRow
                       /\ g = [row |-> i, kind |-> g.kind, number |-> rows[i].number,
                               mail |-> rows[i].mail, department |-> rows[i].department,
                               rest |-> rows[i].rest]
    OBVIOUS
  <2>1. g.row = i /\ g \in NormalizedRow
    BY <1>4, <1>6, <1>7, NormalizedForm
  <2>2. g = [row |-> i, kind |-> g.kind, number |-> rows[i].number, mail |-> rows[i].mail,
             department |-> rows[i].department, rest |-> rows[i].rest]
    BY DEF Normalized
  <2>. QED  BY <2>1, <2>2
<1>9. \A i \in batch \ wrong : \E g \in new : g.row = i
  <2>. SUFFICES ASSUME NEW i \in batch \ wrong PROVE \E g \in new : g.row = i
    OBVIOUS
  <2>1. Normalized(rows, i, staff) \in new
    OBVIOUS
  <2>2. Normalized(rows, i, staff).row = i
    BY DEF Normalized
  <2>. QED  BY <2>1, <2>2
<1>10. IsFiniteSet(new)
  <2>1. IsFiniteSet(batch)
    <3>1. me.at + 1 \in Int /\ upTo \in Int
      BY <1>5
    <3>. QED  BY <3>1, FS_Interval
  <2>. DEFINE f == [g \in new |-> g.row]
  <2>2. \A g \in new : g.row \in batch
    BY <1>8
  <2>3. \A g, h \in new : g.row = h.row => g = h
    BY <1>8
  <2>. HIDE DEF new, batch
  <2>4. f \in Injection(new, batch)
    BY <2>2, <2>3 DEF Injection, IsInjective
  <2>. QED  BY <2>1, <2>4, FS_Injection
<1>. HIDE DEF new
<1>11. IsBatch(me.good \cup new)
  <2>1. IsBatch(new)
    BY <1>5, <1>7, <1>8, <1>10 DEF IsBatch
  <2>2. IsBatch(me.good)
    BY <1>3 DEF Checked
  <2>. QED  BY <1>4, <2>1, <2>2, RowTypes
<1>12. Lines' = Lines /\ Rows(me.cols)' = rows
  BY <1>1 DEF Lines, Rows, rows
<1>13. IsWork(me)'
  BY <1>1, <1>2, <1>12 DEF IsWork, Same, Shaped, IsBatch, Worker_Pc
<1>14. Checked(me)'
  <2>1. /\ Columned(me.cols)' /\ you.at \in 0 .. Lines /\ you.wrong \subseteq 1 .. you.at
    BY <1>1, <1>4, <1>5, <1>7 DEF Columned
  <2>2. \A i \in (1 .. you.at) \ you.wrong : ~Malformed(rows[i]) /\ ~Repeated(rows, i)
    BY <1>1, <1>3, <1>6, <1>7 DEF Checked, rows
  <2>3. \A g \in you.good :
       /\ g.row \in (1 .. you.at) \ you.wrong
       /\ g = [row |-> g.row, kind |-> g.kind, number |-> rows[g.row].number,
               mail |-> rows[g.row].mail, department |-> rows[g.row].department,
               rest |-> rows[g.row].rest]
    BY <1>1, <1>3, <1>7, <1>8 DEF Checked, rows
  <2>4. \A i \in (1 .. you.at) \ you.wrong : \E g \in you.good : g.row = i
    BY <1>1, <1>3, <1>7, <1>9 DEF Checked
  <2>5. Distinct(you.good)
    <3>1. Distinct(me.good) /\ \A g \in me.good : g.row \in 1 .. me.at
      BY <1>3 DEF Checked
    <3>2. \A g \in new : g.row > me.at /\ g.row \in Nat
      BY <1>7, <1>8
    <3>3. \A g, h \in new : g.row = h.row => g = h
      BY <1>8
    <3>. QED  BY <1>1, <1>5, <3>1, <3>2, <3>3 DEF Distinct
  <2>6. you.pc \in {"plan", "stage"} => you.at = Lines
    BY <1>1, <1>4, <1>5
  <2>7. Distinct(me.good)' /\ IsBatch(me.good)' /\ Rows(me.cols)' = rows /\ Columned(me.cols)'
    BY <1>1, <1>11, <1>12, <2>1, <2>5 DEF Distinct, IsBatch
  <2>. QED  BY <1>12, <2>1, <2>2, <2>3, <2>4, <2>6, <2>7 DEF Checked
<1>. QED  BY <1>13, <1>14

\* Nothing in these depends on what changes but the file, and that does not.
LEMMA Kept ==
  ASSUME Typed, file' = file, NEW w \in Worker
  PROVE  /\ IsWork(worker'[w]) => IsWork(worker[w])'
         /\ worker'[w] = worker[w] => IsWork(worker[w])'
         /\ worker'[w] = worker[w] /\ Checked(worker[w]) => Checked(worker[w])'
         /\ Checked(worker[w]) /\ Same(worker[w], worker'[w], {"seen", "part"})
              /\ worker[w].pc \in {"plan", "stage"} => Checked(worker[w])'
<1>1. Lines' = Lines /\ \A cols : Columned(cols)' = Columned(cols)
  BY DEF Lines, Columned
<1>2. IsWork(worker'[w]) => IsWork(worker[w])'
  BY <1>1 DEF IsWork, IsBatch
<1>3. IsWork(worker[w])
  BY WorkForm
<1>4. ASSUME worker'[w] = worker[w] PROVE IsWork(worker[w])'
  BY <1>2, <1>3, <1>4
<1>5. \A cols : Rows(cols)' = Rows(cols)
  BY DEF Rows
<1>6. ASSUME Checked(worker[w]), NEW c, c = worker'[w],
             c.cols = worker[w].cols, c.at = worker[w].at, c.wrong = worker[w].wrong,
             c.good = worker[w].good, c.pc \in {"plan", "stage"} => c.at = Lines
      PROVE  Checked(worker[w])'
  <2>. DEFINE rows == Rows(worker[w].cols)
              fine == (1 .. worker[w].at) \ worker[w].wrong
  <2>1. /\ Columned(worker[w].cols)' /\ Rows(worker[w].cols)' = rows
        /\ (Columned(c.cols))' = Columned(worker[w].cols)
    BY <1>5, <1>6 DEF Checked, Columned, Rows
  <2>2. IsBatch(worker[w].good)' /\ Distinct(worker[w].good)'
    BY <1>1, <1>6 DEF Checked, IsBatch, Distinct
  <2>3. /\ worker[w].at \in 0 .. Lines /\ worker[w].wrong \subseteq 1 .. worker[w].at
        /\ \A i \in fine : ~Malformed(rows[i]) /\ ~Repeated(rows, i)
        /\ \A g \in worker[w].good :
             /\ g.row \in fine
             /\ g = [row |-> g.row, kind |-> g.kind, number |-> rows[g.row].number,
                     mail |-> rows[g.row].mail, department |-> rows[g.row].department,
                     rest |-> rows[g.row].rest]
        /\ \A i \in fine : \E g \in worker[w].good : g.row = i
    BY <1>6 DEF Checked
  <2>. HIDE DEF rows
  <2>. QED  BY <1>1, <1>6, <2>1, <2>2, <2>3 DEF Checked
<1>7. ASSUME worker'[w] = worker[w], Checked(worker[w]) PROVE Checked(worker[w])'
  <2>1. worker[w].pc \in {"plan", "stage"} => worker[w].at = Lines
    BY <1>7 DEF Checked
  <2>. QED  BY <1>6, <1>7, <2>1
<1>8. ASSUME Checked(worker[w]), Same(worker[w], worker'[w], {"seen", "part"}),
             worker[w].pc \in {"plan", "stage"}
      PROVE  Checked(worker[w])'
  <2>1. worker[w].at = Lines
    BY <1>8 DEF Checked
  <2>2. LET you == worker'[w] IN
        you.cols = worker[w].cols /\ you.at = worker[w].at /\ you.wrong = worker[w].wrong
          /\ you.good = worker[w].good
    BY <1>8 DEF Same
  <2>. QED  BY <1>6, <1>8, <2>1, <2>2
<1>. QED  BY <1>2, <1>4, <1>7, <1>8

LEMMA PlanForm ==
  ASSUME Typed, NEW c, Checked(c), c.at = Lines,
         NEW ai \in [Missing(c.good, c.known) -> Proposals \cup {None}]
  PROVE  LET rows == Rows(c.cols)
             codes == [key \in Name |-> SheetCode(rows, Len(rows), c.wrong, key)]
             plan == Plan(Missing(c.good, c.known), codes, ai)
         IN  IsPlan(plan) /\ DOMAIN plan = Missing(c.good, c.known)
<1>. DEFINE rows == Rows(c.cols)
            codes == [key \in Name |-> SheetCode(rows, Len(rows), c.wrong, key)]
            missing == Missing(c.good, c.known)
            plan == Plan(missing, codes, ai)
<1>1. Len(rows) = Lines /\ \A i \in 1 .. Lines : rows[i] \in RawRow
  BY RowsForm DEF Checked
<1>2. \A i \in (1 .. Lines) \ c.wrong : ~Malformed(rows[i])
  BY DEF Checked
<1>. HIDE DEF rows
<1>3. ASSUME NEW key \in Name PROVE codes[key] \in Code \cup {None}
  <2>. DEFINE coded == {i \in (1 .. Lines) \ c.wrong :
                          rows[i].code # None /\ Normal[rows[i].department] = key}
  <2>1. codes[key] = IF coded = {} THEN None ELSE rows[Least(coded)].code
    BY <1>1 DEF SheetCode
  <2>2. coded \in SUBSET Nat
    BY LinesType
  <2>3. coded # {} => Least(coded) \in coded
    BY <2>2, LeastOf
  <2>4. \A i \in coded : rows[i].code \in Code \cup {None}
    BY <1>1, <1>2, GoodRow
  <2>. QED  BY <2>1, <2>3, <2>4
<1>. HIDE DEF codes
<1>4. missing \subseteq Name
  BY RowTypes DEF Missing, Checked, IsBatch
<1>. HIDE DEF missing
<1>5. plan = [from \in missing |->
     CASE codes[Normal[from]] # None -> [name |-> from, code |-> codes[Normal[from]]]
       [] codes[Normal[from]] = None /\ ai[from] # None -> ai[from]
       [] OTHER -> [name |-> from, code |-> Generated[from]]]
  BY DEF Plan
<1>6. ASSUME NEW from \in missing PROVE plan[from] \in Proposal
  <2>1. codes[Normal[from]] \in Code \cup {None} /\ Generated[from] \in Code /\ from \in Name
    BY <1>3, <1>4, MapAssumption
  <2>2. ai[from] \in Proposal \cup {None}
    BY DirectoryAssumption DEF missing
  <2>3. CASE codes[Normal[from]] # None
    BY <1>5, <2>1, <2>3 DEF Proposal
  <2>4. CASE codes[Normal[from]] = None /\ ai[from] # None
    BY <1>5, <2>2, <2>4
  <2>5. CASE codes[Normal[from]] = None /\ ai[from] = None
    BY <1>5, <2>1, <2>5 DEF Proposal
  <2>. QED  BY <2>3, <2>4, <2>5
<1>7. DOMAIN plan = missing
  BY <1>5
<1>. HIDE DEF plan
<1>8. IsPlan(plan)
  BY <1>4, <1>6, <1>7 DEF IsPlan
<1>. QED  BY <1>7, <1>8 DEF plan, missing, codes, rows

LEMMA PlanWork ==
  ASSUME Typed, file' = file, NEW w \in Worker, PlanDepartments(w)
  PROVE  IsWork(worker[w])' /\ Checked(worker[w])' /\ worker'[w].pc = "stage"
<1>. DEFINE me == worker[w]
            rows == Rows(me.cols)
            missing == Missing(me.good, me.known)
            codes == [key \in Name |-> SheetCode(rows, Len(rows), me.wrong, key)]
<1>1. PICK ai \in [missing -> Proposals \cup {None}] :
               /\ worker'[w].seen = [me.seen EXCEPT !.plan = Plan(missing, codes, ai)]
               /\ worker'[w].pc = "stage" /\ Same(me, worker'[w], {"seen"})
  BY PlanMoves
<1>2. IsWork(me) /\ me.pc = "plan" /\ Checked(me)
  BY WorkForm DEF PlanDepartments, At, Typed
<1>3. me.at = Lines
  BY <1>2 DEF Checked
<1>4. IsPlan(Plan(missing, codes, ai))
  BY <1>2, <1>3, PlanForm
<1>. DEFINE plan == Plan(missing, codes, ai)
<1>. HIDE DEF plan
<1>5. IsGlance(me.seen)
  BY <1>2 DEF IsWork
<1>6. worker'[w].seen = [me.seen EXCEPT !.plan = plan] /\ IsPlan(plan)
  BY <1>1, <1>4 DEF plan
<1>7. IsGlance(worker'[w].seen)
  BY <1>5, <1>6 DEF IsGlance
<1>8. IsWork(worker'[w])
  BY <1>1, <1>2, <1>7 DEF IsWork, Same, Shaped, Worker_Pc
<1>9. Same(me, worker'[w], {"seen", "part"})
  BY <1>1 DEF Same
<1>. QED  BY <1>1, <1>2, <1>8, <1>9, Kept

LEMMA StageWork ==
  ASSUME Typed, file' = file, NEW w \in Worker, Stage(w)
  PROVE  IsWork(worker[w])' /\ Checked(worker[w])' /\ worker'[w].pc = "stage"
<1>1. /\ worker'[w].pc = "stage" /\ worker'[w].part = worker[w].part + 1
      /\ Same(worker[w], worker'[w], {"part"})
  BY StageMoves
<1>2. IsWork(worker[w]) /\ worker[w].pc = "stage" /\ Checked(worker[w])
  BY WorkForm DEF Stage, At, Typed
<1>3. IsWork(worker'[w])
  BY <1>1, <1>2 DEF IsWork, Same, Shaped
<1>4. Same(worker[w], worker'[w], {"seen", "part"})
  BY <1>1 DEF Same
<1>. QED  BY <1>1, <1>2, <1>3, <1>4, Kept

LEMMA LookWork ==
  ASSUME Typed, file' = file, NEW w \in Worker, Look(w)
  PROVE  IsWork(worker[w])' /\ worker'[w].pc \in {"return", "refuse", "claimApply"}
<1>1. /\ worker'[w].pc \in {"return", "refuse", "claimApply"}
      /\ worker'[w].seen = Glance(row) /\ worker'[w].counts = row.counts
      /\ Same(worker[w], worker'[w], {"seen", "counts"})
  BY LookMoves
<1>2. IsWork(worker[w]) /\ IsGlance(Glance(row)) /\ row.counts \in Tally
  BY WorkForm, GlanceType DEF Typed, IsRow
<1>3. IsWork(worker'[w])
  BY <1>1, <1>2 DEF IsWork, Same, Shaped, Worker_Pc
<1>. QED  BY <1>1, <1>3, Kept

LEMMA ClaimApplyWork ==
  ASSUME Typed, file' = file, NEW w \in Worker, ClaimApply(w)
  PROVE  IsWork(worker[w])' /\ worker'[w].pc \in {"resolve", "return"}
<1>1. \/ /\ worker'[w].pc = "resolve" /\ worker'[w].known = departments
         /\ worker'[w].todo = DOMAIN worker[w].seen.plan
         /\ Same(worker[w], worker'[w], {"known", "todo"})
      \/ worker'[w].pc = "return" /\ Same(worker[w], worker'[w], {})
  BY ClaimApplyMoves
<1>2. IsWork(worker[w]) /\ departments \subseteq Department
  BY WorkForm DEF Typed, DirectoryOK
<1>3. IsWork(worker'[w])
  BY <1>1, <1>2 DEF IsWork, Same, Shaped, Worker_Pc
<1>. QED  BY <1>1, <1>3, Kept

\* What is planned for a name is one of the entries of the plan.
LEMMA PlannedForm ==
  ASSUME NEW plan, IsPlan(plan), NEW from \in DOMAIN plan
  PROVE  \E x \in DOMAIN plan : Normal[x] = Normal[from] /\ Planned(plan, from) = plan[x]
BY DEF Planned

LEMMA FreeForm ==
  ASSUME NEW code, NEW deps, FreeCodes(code, deps) # {}
  PROVE  Least(FreeCodes(code, deps)) \in FreeCodes(code, deps)
<1>1. FreeCodes(code, deps) \in SUBSET Nat
  BY DEF FreeCodes, Suffixes
<1>. QED  BY <1>1, LeastOf

LEMMA ResolveWork ==
  ASSUME Typed, file' = file, NEW w \in Worker, ResolveDepartment(w)
  PROVE  /\ IsWork(worker[w])' /\ departments' \subseteq Department
         /\ worker'[w].pc \in {"resolve", "return", "caught"}
<1>. DEFINE me == worker[w]
<1>1. IsWork(me) /\ me.pc = "resolve" /\ departments \subseteq Department
  BY WorkForm DEF ResolveDepartment, At, Typed, DirectoryOK
<1>2. PICK from \in me.todo : LET target == Planned(me.seen.plan, from)
                              IN  \/ ResolveKnown(w, from, target)
                                  \/ ResolveRefused(w, target)
                                  \/ ResolveCreate(w, target)
  BY DEF ResolveDepartment
<1>. DEFINE target == Planned(me.seen.plan, from)
<1>3. target \in Proposal
  <2>1. IsPlan(me.seen.plan) /\ from \in DOMAIN me.seen.plan
    BY <1>1 DEF IsWork, IsGlance
  <2>. QED  BY <2>1, PlannedForm DEF IsPlan
<1>. HIDE DEF target
<1>4. CASE ResolveKnown(w, from, target)
  <2>1. /\ worker'[w].pc = "resolve" /\ worker'[w].todo = me.todo \ {from}
        /\ Same(me, worker'[w], {"todo", "alias"}) /\ departments' = departments
    BY <1>1, <1>4, KnownMoves
  <2>2. IsWork(worker'[w])
    BY <1>1, <2>1 DEF IsWork, Same, Shaped
  <2>. QED  BY <1>1, <2>1, <2>2, Kept
<1>5. CASE ResolveRefused(w, target)
  <2>1. Goto(w, "return") /\ departments' = departments
    BY <1>5 DEF ResolveRefused
  <2>2. IsWork(worker[w])' /\ worker'[w].pc = "return"
    BY <2>1, GoWork, GoMoves DEF Worker_Pc
  <2>. QED  BY <1>1, <2>1, <2>2
<1>6. CASE ResolveCreate(w, target)
  <2>. DEFINE key == Normal[target.name]
              free == FreeCodes(target.code, departments)
              new == [name |-> target.name, code |-> <<target.code, Least(free)>>]
  <2>1. \/ /\ departments' = departments
           /\ worker'[w].pc = "resolve" /\ worker'[w].known = departments
           /\ Same(me, worker'[w], {"known"})
        \/ departments' = departments /\ worker'[w].pc = "caught" /\ Same(me, worker'[w], {})
        \/ /\ free # {} /\ departments' = departments \cup {new}
           /\ worker'[w].pc = "resolve" /\ worker'[w].known = me.known \cup {new}
           /\ Same(me, worker'[w], {"known"})
    BY <1>1, <1>6, CreateMoves
  <2>2. free # {} => new \in Department
    <3>1. free # {} => Least(free) \in Suffixes
      BY FreeForm DEF FreeCodes
    <3>2. target.name \in Name /\ target.code \in Code
      BY <1>3 DEF Proposal
    <3>. QED  BY <3>1, <3>2 DEF Department
  <2>. HIDE DEF new, free
  <2>3. IsWork(worker'[w]) /\ departments' \subseteq Department
    BY <1>1, <2>1, <2>2 DEF IsWork, Same, Shaped, Worker_Pc
  <2>. QED  BY <2>1, <2>3, Kept
<1>. QED  BY <1>2, <1>4, <1>5, <1>6 DEF target

LEMMA ResolvedWork ==
  ASSUME Typed, file' = file, NEW w \in Worker, Resolved(w)
  PROVE  IsWork(worker[w])' /\ worker'[w].pc = "part"
<1>1. worker'[w].pc = "part" /\ Same(worker[w], worker'[w], {"alias"})
  BY ResolvedMoves
<1>2. IsWork(worker[w])
  BY WorkForm
<1>3. IsWork(worker'[w])
  BY <1>1, <1>2 DEF IsWork, Same, Shaped, Worker_Pc
<1>. QED  BY <1>1, <1>3, Kept

LEMMA ReadPartWork ==
  ASSUME Typed, file' = file, NEW w \in Worker, ReadPart(w)
  PROVE  IsWork(worker[w])' /\ worker'[w].pc \in {"part", "state", "finish"}
<1>. DEFINE me == worker[w]
            there == me.part \in DOMAIN parts
            more == IF there THEN {item \in parts[me.part] : item.row > me.seen.last} ELSE {}
            buffer == me.buffer \cup more
<1>1. /\ worker'[w].buffer = buffer /\ worker'[w].part = me.part + 1 /\ worker'[w].eof = ~there
      /\ worker'[w].pc = NextPc(buffer, ~there) /\ Same(me, worker'[w], {"buffer", "part", "eof"})
  BY ReadPartMoves
<1>2. IsWork(me) /\ me.pc = "part"
  BY WorkForm DEF ReadPart, At
<1>3. IsBatch(buffer)
  <2>1. IsBatch(more)
    BY RowTypes DEF Typed, PartOK
  <2>. QED  BY <1>2, <2>1, RowTypes, LinesType DEF IsWork
<1>. HIDE DEF more
<1>4. me.buffer \subseteq buffer
  OBVIOUS
<1>. HIDE DEF buffer, there
<1>5. /\ worker'[w].pc \in {"part", "state", "finish"}
      /\ worker'[w].pc = "state" => buffer # {}
  BY <1>1, <1>3, NextPcForm DEF IsBatch
<1>6. IsWork(worker'[w])
  <2>1. there \in BOOLEAN
    BY DEF there
  <2>. QED  BY <1>1, <1>2, <1>3, <1>4, <1>5, <2>1 DEF IsWork, Same, Shaped, Worker_Pc
<1>. QED  BY <1>5, <1>6, Kept

LEMMA ReadStateWork ==
  ASSUME Typed, file' = file, NEW w \in Worker, ReadState(w)
  PROVE  IsWork(worker[w])' /\ worker'[w].pc \in {"halt", "park", "write"}
<1>. DEFINE me == worker[w]
            first == FirstRows(me.buffer)
<1>1. \/ worker'[w].pc \in {"halt", "park"} /\ Same(me, worker'[w], {})
      \/ /\ worker'[w].pc = "write" /\ worker'[w].batch = first /\ worker'[w].todo = first
         /\ Same(me, worker'[w], {"batch", "todo", "staff"})
  BY ReadStateMoves
<1>2. IsWork(me) /\ me.pc = "state"
  BY WorkForm DEF ReadState, At
<1>3. first \subseteq me.buffer /\ first # {}
  BY <1>2, FirstRowsForm DEF IsWork
<1>. HIDE DEF first
<1>4. IsWork(worker'[w])
  BY <1>1, <1>2, <1>3 DEF IsWork, Same, Shaped, Worker_Pc
<1>. QED  BY <1>1, <1>4, Kept

\* The row that is next, and what is written of it.
LEMMA ItemForm ==
  ASSUME Typed, NEW w \in Worker, worker[w].pc = "write", worker[w].todo # {}
  PROVE  LET me == worker[w]
             item == FirstOf(me.todo)
             new == [item EXCEPT !.department = NameOf(me.alias[Normal[item.department]])]
         IN  /\ item \in me.todo /\ item \in me.batch /\ item \in NormalizedRow
             /\ \A h \in me.todo : item.row <= h.row
             /\ new.row = item.row /\ new.number = item.number /\ new.mail = item.mail
             /\ ~Clash(me, item) => new \in NormalizedRow
<1>. DEFINE me == worker[w]
            item == FirstOf(me.todo)
            name == NameOf(me.alias[Normal[item.department]])
            new == [item EXCEPT !.department = name]
<1>1. /\ me.todo \subseteq me.batch /\ me.batch \subseteq NormalizedRow
      /\ \A g \in me.todo : g.row \in Nat
  BY WorkForm, RowTypes DEF IsWork, IsBatch
<1>2. item \in me.todo /\ \A h \in me.todo : item.row <= h.row
  BY <1>1, FirstOfRows
<1>3. ~Clash(me, item) => name \in Name
  <2>1. ~Clash(me, item) => Known(departments, me.alias[Normal[item.department]])
    BY DEF Clash
  <2>2. departments \subseteq Department
    BY DEF Typed, DirectoryOK
  <2>3. \A key : Known(departments, key) => NameOf(key) \in Name
    BY <2>2 DEF Known, NameOf, Department
  <2>. QED  BY <2>1, <2>3
<1>. HIDE DEF item, name
<1>4. item \in NormalizedRow
  BY <1>1, <1>2
<1>5. new.row = item.row /\ new.number = item.number /\ new.mail = item.mail
  BY <1>4 DEF NormalizedRow
<1>6. name \in Name => new \in NormalizedRow
  BY <1>4 DEF NormalizedRow
<1>. QED  BY <1>1, <1>2, <1>3, <1>4, <1>5, <1>6 DEF item, name

\* One more row is counted.
LEMMA TallyUp ==
  ASSUME NEW c \in Tally
  PROVE  /\ [c EXCEPT !.processed = @ + 1] \in Tally
         /\ [c EXCEPT !.processed = @ + 1, !.failed = @ + 1] \in Tally
         /\ [c EXCEPT !.processed = @ + 1, !.updated = @ + 1] \in Tally
         /\ [c EXCEPT !.processed = @ + 1, !.created = @ + 1] \in Tally
<1>1. c.processed \in Nat /\ c.created \in Nat /\ c.updated \in Nat /\ c.failed \in Nat
  BY DEF Tally
<1>. DEFINE p == c.processed + 1
            n == c.created + 1
            u == c.updated + 1
            f == c.failed + 1
<1>2. p \in Nat /\ n \in Nat /\ u \in Nat /\ f \in Nat
  BY <1>1
<1>. HIDE DEF p, n, u, f
<1>3. [c EXCEPT !.processed = p] \in Tally
  BY <1>2 DEF Tally
<1>4. [c EXCEPT !.processed = p, !.failed = f] \in Tally
  BY <1>2 DEF Tally
<1>5. [c EXCEPT !.processed = p, !.updated = u] \in Tally
  BY <1>2 DEF Tally
<1>6. [c EXCEPT !.processed = p, !.created = n] \in Tally
  BY <1>2 DEF Tally
<1>. QED  BY <1>3, <1>4, <1>5, <1>6 DEF p, n, u, f

LEMMA ApplyRowWork ==
  ASSUME Typed, file' = file, NEW w \in Worker, ApplyRow(w)
  PROVE  IsWork(worker[w])' /\ worker'[w].pc = "write"
<1>. DEFINE me == worker[w]
            you == worker'[w]
            item == FirstOf(me.todo)
            new == [item EXCEPT !.department = NameOf(me.alias[Normal[item.department]])]
            old == me.counts
<1>1. /\ you.pc = "write" /\ you.todo = me.todo \ {item} /\ Same(me, you, {"todo", "counts", "tx"})
      /\ \/ /\ you.tx = me.tx /\ you.aborted = me.aborted
            /\ you.counts = [old EXCEPT !.processed = @ + 1]
         \/ /\ you.tx = me.tx /\ you.aborted \in BOOLEAN
            /\ you.counts = [old EXCEPT !.processed = @ + 1, !.failed = @ + 1]
         \/ /\ ~Clash(me, item) /\ ~me.aborted /\ you.aborted = FALSE /\ you.tx = Wrote(me.tx, new)
            /\ \/ you.counts = [old EXCEPT !.processed = @ + 1, !.updated = @ + 1]
               \/ you.counts = [old EXCEPT !.processed = @ + 1, !.created = @ + 1]
  BY ApplyRowMoves
<1>2. IsWork(me) /\ me.pc = "write" /\ me.todo # {}
  BY WorkForm DEF ApplyRow, At
<1>3. ~Clash(me, item) => new \in NormalizedRow
  BY <1>2, ItemForm
<1>. HIDE DEF item, new
<1>4. old \in Tally
  BY <1>2 DEF IsWork
<1>5. you.counts \in Tally
  BY <1>1, <1>4, TallyUp
<1>6. you.tx \subseteq NormalizedRow
  BY <1>1, <1>2, <1>3 DEF IsWork, Wrote
<1>7. you.aborted \in BOOLEAN
  <2>1. me.aborted \in BOOLEAN
    BY <1>2 DEF IsWork
  <2>. HIDE DEF me, you, old
  <2>2. you.aborted \in {me.aborted, FALSE} \/ you.aborted \in BOOLEAN
    BY <1>1, Zenon
  <2>. QED  BY <2>1, <2>2
<1>8. IsWork(you)
  <2>1. you.todo \subseteq you.batch
    BY <1>1, <1>2 DEF IsWork, Same
  <2>2. Same(me, you, {"todo", "counts", "tx"}) /\ you.pc = "write"
    BY <1>1
  <2>. QED  BY <1>2, <1>5, <1>6, <1>7, <2>1, <2>2 DEF IsWork, Same, Shaped
<1>. QED  BY <1>1, <1>8, Kept

LEMMA CommitWork ==
  ASSUME Typed, file' = file, NEW w \in Worker, Commit(w)
  PROVE  IsWork(worker[w])' /\ worker'[w].pc = "checkpoint"
<1>1. /\ worker'[w].pc = "checkpoint" /\ worker'[w].tx = {} /\ worker'[w].aborted = FALSE
      /\ Same(worker[w], worker'[w], {"tx", "staff"})
  BY CommitMoves
<1>2. IsWork(worker[w]) /\ worker[w].pc = "write"
  BY WorkForm DEF Commit, At
<1>3. IsWork(worker'[w])
  BY <1>1, <1>2 DEF IsWork, Same, Shaped, Worker_Pc
<1>. QED  BY <1>1, <1>3, Kept

LEMMA CheckpointWork ==
  ASSUME Typed, file' = file, NEW w \in Worker, Checkpoint(w)
  PROVE  IsWork(worker[w])' /\ worker'[w].pc \in {"part", "state", "finish"}
<1>. DEFINE me == worker[w]
            buffer == me.buffer \ me.batch
<1>1. /\ worker'[w].pc = NextPc(buffer, me.eof) /\ worker'[w].buffer = buffer
      /\ worker'[w].batch = {} /\ Same(me, worker'[w], {"buffer", "batch"})
  BY CheckpointMoves
<1>2. IsWork(me) /\ me.pc = "checkpoint"
  BY WorkForm DEF Checkpoint, At
<1>3. IsBatch(buffer) /\ me.eof \in BOOLEAN
  BY <1>2, RowTypes DEF IsWork
<1>. HIDE DEF buffer
<1>4. /\ worker'[w].pc \in {"part", "state", "finish"}
      /\ worker'[w].pc = "state" => buffer # {}
  BY <1>1, <1>3, NextPcForm DEF IsBatch
<1>5. IsWork(worker'[w])
  BY <1>1, <1>2, <1>3, <1>4 DEF IsWork, Same, Shaped, Worker_Pc
<1>. QED  BY <1>4, <1>5, Kept

\* A step of a worker changes that worker only, and leaves it well.
Well(w) ==
  /\ Alone(w) /\ IsWork(worker[w])'
  /\ worker'[w].pc \in {"classify", "plan", "stage"} => Checked(worker[w])'

LEMMA GoWell ==
  ASSUME Typed, file' = file, NEW w \in Worker,
         \/ ClaimValidation(w) \/ ParseNothing(w) \/ Refuse(w) \/ Ready(w) \/ Abandon(w)
         \/ Discard(w) \/ Halt(w) \/ Park(w) \/ Finish(w) \/ Late(w) \/ Throw(w)
  PROVE  Well(w)
<1>1. \E pc : /\ Goto(w, pc)
              /\ \/ pc \in {"return", "caught", "abandon", "discard", "late"}
                 \/ worker[w].pc = "claim" /\ pc = "parse"
  <2>1. CASE ClaimValidation(w)
    BY <2>1 DEF ClaimValidation, At
  <2>2. CASE ParseNothing(w) \/ Refuse(w) \/ Discard(w) \/ Halt(w) \/ Park(w) \/ Throw(w)
    BY <2>2 DEF ParseNothing, Refuse, Discard, Halt, Park, Throw
  <2>3. CASE Ready(w) \/ Abandon(w) \/ Finish(w) \/ Late(w)
    BY <2>3 DEF Ready, Abandon, Finish, Late
  <2>. QED  BY <2>1, <2>2, <2>3
<1>2. PICK pc : /\ Goto(w, pc)
                /\ \/ pc \in {"return", "caught", "abandon", "discard", "late"}
                   \/ worker[w].pc = "claim" /\ pc = "parse"
  BY <1>1
<1>3. IsWork(worker[w])'
  BY <1>2, GoWork DEF Worker_Pc
<1>4. Alone(w) /\ worker'[w].pc = pc
  BY <1>2, GoMoves
<1>. QED  BY <1>2, <1>3, <1>4 DEF Well

LEMMA LeaveWell ==
  ASSUME Typed, file' = file, NEW w \in Worker, Return(w) \/ GiveBack(w) \/ Crash(w)
  PROVE  Well(w)
<1>1. worker'[w] = IdleWorker /\ Alone(w)
  BY LeaveMoves
<1>2. IsWork(IdleWorker) /\ IdleWorker.pc = "idle"
  BY FreshTypes
<1>. QED  BY <1>1, <1>2, Kept DEF Well

LEMMA WorkerWell ==
  ASSUME Typed, file' = file, NEW w \in Worker, Work(w) \/ Fault(w)
  PROVE  Well(w)
<1>1. CASE \/ ClaimValidation(w) \/ ParseNothing(w) \/ Refuse(w) \/ Ready(w) \/ Abandon(w)
           \/ Discard(w) \/ Halt(w) \/ Park(w) \/ Finish(w) \/ Late(w) \/ Throw(w)
  BY <1>1, GoWell
<1>2. CASE Return(w) \/ GiveBack(w) \/ Crash(w)
  BY <1>2, LeaveWell
<1>3. CASE Take(w)
  <2>1. Alone(w) /\ worker'[w].pc \in {"claim", "look"}
    BY <1>3, TakeMoves
  <2>. QED  BY <1>3, <2>1, TakeWork DEF Well
<1>4. CASE Parse(w)
  <2>1. Alone(w)
    BY <1>4, ParseMoves
  <2>. QED  BY <1>4, <2>1, ParseWork DEF Well
<1>5. CASE Classify(w)
  <2>1. Alone(w)
    BY <1>5, ClassifyMoves
  <2>. QED  BY <1>5, <2>1, ClassifyWork DEF Well
<1>6. CASE PlanDepartments(w)
  <2>1. Alone(w)
    BY <1>6, PlanMoves
  <2>. QED  BY <1>6, <2>1, PlanWork DEF Well
<1>7. CASE Stage(w)
  BY <1>7, StageMoves, StageWork DEF Well
<1>8. CASE Look(w)
  BY <1>8, LookMoves, LookWork DEF Well
<1>9. CASE ClaimApply(w)
  BY <1>9, ClaimApplyMoves, ClaimApplyWork DEF Well
<1>10. CASE ResolveDepartment(w)
  <2>1. Alone(w)
    <3>1. PICK from \in worker[w].todo :
              LET target == Planned(worker[w].seen.plan, from)
              IN  \/ ResolveKnown(w, from, target)
                  \/ ResolveRefused(w, target)
                  \/ ResolveCreate(w, target)
      BY <1>10 DEF ResolveDepartment
    <3>. DEFINE target == Planned(worker[w].seen.plan, from)
    <3>. HIDE DEF target
    <3>2. worker[w].pc = "resolve"
      BY <1>10 DEF ResolveDepartment, At
    <3>3. ResolveRefused(w, target) => Goto(w, "return")
      BY DEF ResolveRefused
    <3>. QED  BY <3>1, <3>2, <3>3, KnownMoves, CreateMoves, GoMoves DEF target
  <2>. QED  BY <1>10, <2>1, ResolveWork DEF Well
<1>11. CASE Resolved(w)
  <2>1. Alone(w)
    BY <1>11, ResolvedMoves
  <2>. QED  BY <1>11, <2>1, ResolvedWork DEF Well
<1>12. CASE ReadPart(w)
  <2>1. Alone(w)
    BY <1>12, ReadPartMoves
  <2>. QED  BY <1>12, <2>1, ReadPartWork DEF Well
<1>13. CASE ReadState(w)
  BY <1>13, ReadStateMoves, ReadStateWork DEF Well
<1>14. CASE ApplyRow(w)
  <2>1. Alone(w)
    BY <1>14, ApplyRowMoves
  <2>. QED  BY <1>14, <2>1, ApplyRowWork DEF Well
<1>15. CASE Commit(w)
  BY <1>15, CommitMoves, CommitWork DEF Well
<1>16. CASE Checkpoint(w)
  <2>1. Alone(w)
    BY <1>16, CheckpointMoves
  <2>. QED  BY <1>16, <2>1, CheckpointWork DEF Well
<1>. QED  BY <1>1, <1>2, <1>3, <1>4, <1>5, <1>6, <1>7, <1>8, <1>9, <1>10, <1>11, <1>12, <1>13,
             <1>14, <1>15, <1>16 DEF Work, Validate, Apply, Fault

LEMMA WorkersTyped ==
  ASSUME Typed, [Next]_vars
  PROVE  /\ worker' = [w \in Worker |-> worker'[w]] /\ \A w \in Worker : IsWork(worker[w])'
         /\ \A w \in Worker : worker'[w].pc \in {"classify", "plan", "stage"} => Checked(worker[w])'
<1>1. file' = file
  BY FileKept
<1>2. CASE \E w \in Worker : Work(w) \/ Fault(w)
  <2>1. PICK w \in Worker : Well(w)
    BY <1>1, <1>2, WorkerWell
  <2>2. ASSUME NEW v \in Worker, v # w
        PROVE  /\ IsWork(worker[v])'
               /\ worker'[v].pc \in {"classify", "plan", "stage"} => Checked(worker[v])'
    <3>1. worker'[v] = worker[v]
      BY <2>1, <2>2 DEF Well, Alone
    <3>2. worker[v].pc \in {"classify", "plan", "stage"} => Checked(worker[v])
      BY DEF Typed
    <3>. QED  BY <1>1, <3>1, <3>2, Kept
  <2>. QED  BY <2>1, <2>2 DEF Well, Alone
<1>3. CASE ~(\E w \in Worker : Work(w) \/ Fault(w))
  <2>1. worker' = worker
    <3>1. ASSUME NEW r \in Request, Serve(r) PROVE worker' = worker
      BY <3>1 DEF Serve, Create, UploadComplete, MarkUploaded, Confirm, Resume, ClaimConfirmed,
                  Enqueue, Undo, Cancel, CancelIdle, CleanArtifacts, FlagCancelling
    <3>2. ASSUME Stalled \/ PutFile \/ Pause \/ Sweep \/ Expire \/ Colleague PROVE worker' = worker
      BY <3>2 DEF Stalled, PutFile, Pause, Sweep, SweepList, SweepDelete, SweepMark, SweepStale,
                  Expire, Colleague
    <3>3. UNCHANGED vars => worker' = worker
      BY DEF vars
    <3>. QED  BY <1>3, <3>1, <3>2, <3>3 DEF Next
  <2>2. \A w \in Worker : worker[w].pc \in {"classify", "plan", "stage"} => Checked(worker[w])
    BY DEF Typed
  <2>3. worker' = [w \in Worker |-> worker'[w]]
    BY <2>1 DEF Typed
  <2>. QED  BY <1>1, <2>1, <2>2, <2>3, Kept
<1>. QED  BY <1>2, <1>3

------------------------------------------------------------------------------
(* Every variable keeps its type: the row, the objects and the directory.     *)

LEMMA RowTyped ==
  ASSUME Typed, [Next]_vars
  PROVE  IsRow(row')
<1>0. IsRow(row) /\ Lines \in Nat
  BY LinesType DEF Typed
<1>1. ASSUME row' = row PROVE IsRow(row')
  BY <1>0, <1>1
<1>2. ASSUME NEW from, NEW to \in Status, Flip(from, to) PROVE IsRow(row')
  BY <1>2, Flipped
<1>3. ASSUME NEW to \in Status, row' = [row EXCEPT !.status = to] PROVE IsRow(row')
  BY <1>0, <1>3 DEF IsRow
<1>4. ASSUME NEW w \in Worker, Parse(w) PROVE IsRow(row')
  <2>1. row' = row \/ row' = [row EXCEPT !.total = Lines]
    BY <1>4 DEF Parse, Lines
  <2>. QED  BY <1>0, <2>1 DEF IsRow
<1>5. ASSUME NEW w \in Worker, Ready(w) PROVE IsRow(row')
  <2>. DEFINE me == worker[w]
              wrong == Cardinality(me.wrong)
              same == Cardinality({g \in me.good : g.kind = "UNCHANGED"})
  <2>1. \/ row' = row
        \/ row' = [row EXCEPT !.status = "READY_FOR_REVIEW", !.prefix = TRUE, !.total = Lines,
                              !.invalid = wrong, !.unchanged = same, !.plan = me.seen.plan]
    BY <1>5 DEF Ready, Lines
  <2>2. Checked(me) /\ IsPlan(me.seen.plan)
    BY <1>5, WorkForm DEF Ready, At, Typed, IsWork, IsGlance
  <2>3. wrong \in Nat
    <3>1. me.at \in Int /\ me.wrong \subseteq 1 .. me.at
      BY <2>2, <1>0 DEF Checked
    <3>2. IsFiniteSet(1 .. me.at)
      BY <3>1, FS_Interval
    <3>. QED  BY <3>1, <3>2, FS_Subset, FS_CardinalityType
  <2>4. same \in Nat
    <3>1. IsFiniteSet(me.good)
      BY <2>2 DEF Checked, IsBatch
    <3>2. IsFiniteSet({g \in me.good : g.kind = "UNCHANGED"})
      BY <3>1, FS_Subset
    <3>. QED  BY <3>2, FS_CardinalityType
  <2>. HIDE DEF wrong, same
  <2>5. "READY_FOR_REVIEW" \in Status
    BY Statuses
  <2>. DEFINE plan == me.seen.plan
  <2>6. \/ row' = row
        \/ row' = [row EXCEPT !.status = "READY_FOR_REVIEW", !.prefix = TRUE, !.total = Lines,
                              !.invalid = wrong, !.unchanged = same, !.plan = plan]
    BY <2>1
  <2>7. IsPlan(plan)
    BY <2>2
  <2>. HIDE DEF plan
  <2>. QED  BY <1>0, <2>3, <2>4, <2>5, <2>6, <2>7 DEF IsRow
<1>6. ASSUME NEW w \in Worker, Checkpoint(w) PROVE IsRow(row')
  <2>. DEFINE me == worker[w]
              last == LastRow(me.batch)
              counts == me.counts
  <2>1. row' = [row EXCEPT !.last = last, !.counts = counts]
    BY <1>6 DEF Checkpoint
  <2>2. IsWork(me) /\ me.batch # {}
    BY <1>6, WorkForm DEF Checkpoint, At, IsWork
  <2>3. counts \in Tally
    BY <2>2 DEF IsWork
  <2>4. last \in Nat
    <3>1. \A g \in me.batch : g.row \in Nat /\ g.row <= Lines
      BY <2>2, RowTypes DEF IsWork, IsBatch
    <3>. QED  BY <1>0, <2>2, <3>1, LastOfRows
  <2>. HIDE DEF last, counts
  <2>. QED  BY <1>0, <2>1, <2>3, <2>4 DEF IsRow
<1>7. ASSUME NEW w \in Worker, Finish(w) PROVE IsRow(row')
  <2>. DEFINE me == worker[w]
              end == IF me.counts.failed > 0 THEN "COMPLETED_WITH_ERRORS" ELSE "COMPLETED"
              counts == [me.counts EXCEPT !.processed = row.counts.processed]
  <2>1. row' = row \/ row' = [row EXCEPT !.status = end, !.counts = counts]
    BY <1>7 DEF Finish
  <2>2. end \in Status
    BY Statuses
  <2>3. counts \in Tally
    <3>1. me.counts \in Tally /\ row.counts \in Tally
      BY <1>0, WorkForm DEF IsWork, IsRow
    <3>2. row.counts.processed \in Nat
      BY <3>1 DEF Tally
    <3>. QED  BY <3>1, <3>2 DEF Tally
  <2>. HIDE DEF end, counts
  <2>. QED  BY <1>0, <2>1, <2>2, <2>3 DEF IsRow
<1>8. ASSUME NEW w \in Worker, Validate(w) PROVE IsRow(row')
  <2>1. CASE ClaimValidation(w) \/ Abandon(w)
    BY <1>2, <2>1, Statuses DEF ClaimValidation, Abandon
  <2>2. CASE Refuse(w)
    BY <1>3, <2>2, Statuses DEF Refuse
  <2>3. CASE ParseNothing(w) \/ Classify(w) \/ PlanDepartments(w) \/ Stage(w) \/ Discard(w)
    <3>1. row' = row
      BY <2>3 DEF ParseNothing, Classify, PlanDepartments, Stage, Discard
    <3>. QED  BY <1>1, <3>1
  <2>. QED  BY <1>4, <1>5, <1>8, <2>1, <2>2, <2>3 DEF Validate
<1>9. ASSUME NEW w \in Worker, Apply(w) PROVE IsRow(row')
  <2>1. CASE ClaimApply(w) \/ Park(w)
    BY <1>2, <2>1, Statuses DEF ClaimApply, Park
  <2>2. CASE Halt(w)
    <3>1. Flip({"CANCELLING"}, "CANCELLED_PARTIAL") \/ Flip({"CANCELLING"}, "CANCELLED")
      BY <2>2 DEF Halt
    <3>. QED  BY <1>2, <3>1, Statuses
  <2>3. CASE Late(w)
    <3>1. Flip({"CANCELLING"}, "CANCELLED_PARTIAL") \/ Flip({"CANCELLING"}, "CANCELLED")
      BY <2>3 DEF Late
    <3>. QED  BY <1>2, <3>1, Statuses
  <2>4. CASE ResolveDepartment(w)
    <3>1. Flip({"APPLYING"}, "FAILED") \/ row' = row
      BY <2>4 DEF ResolveDepartment, ResolveKnown, ResolveRefused, ResolveCreate
    <3>. QED  BY <1>1, <1>2, <3>1, Statuses
  <2>5. CASE \/ Look(w) \/ Resolved(w) \/ ReadPart(w) \/ ReadState(w) \/ ApplyRow(w) \/ Commit(w)
    <3>1. row' = row
      BY <2>5, Zenon DEF Look, Resolved, ReadPart, ReadState, ApplyRow, Commit
    <3>. QED  BY <1>1, <3>1
  <2>. QED  BY <1>6, <1>7, <1>9, <2>1, <2>2, <2>3, <2>4, <2>5 DEF Apply
<1>10. ASSUME NEW w \in Worker, Take(w) \/ Return(w) \/ GiveBack(w) \/ Fault(w) PROVE row' = row
  BY <1>10 DEF Take, Return, GiveBack, Fault, Throw, Crash
<1>11. ASSUME NEW r \in Request, Serve(r) PROVE IsRow(row')
  <2>. DEFINE me == request[r]
  <2>0. IsHandler(me)
    BY DEF Typed
  <2>1. CASE Create(r)
    <3>1. row' = [FreshRow EXCEPT !.status = "AWAITING_UPLOAD"]
      BY <2>1 DEF Create
    <3>. QED  BY <3>1, FreshTypes, Statuses DEF IsRow
  <2>2. CASE MarkUploaded(r)
    BY <1>3, <2>2, Statuses DEF MarkUploaded
  <2>3. CASE ClaimConfirmed(r)
    <3>. DEFINE create == IF me.op = "confirm" THEN me.create ELSE row.createMissing
    <3>1. row' = row \/ row' = [row EXCEPT !.status = "APPLY_QUEUED", !.createMissing = create]
      BY <2>3 DEF ClaimConfirmed
    <3>. HIDE DEF create
    <3>. QED  BY <1>0, <3>1, Statuses DEF IsRow
  <2>4. CASE Undo(r)
    <3>. DEFINE create == me.seen.createMissing
    <3>1. \/ row' = [row EXCEPT !.status = "AWAITING_UPLOAD"]
          \/ row' = [row EXCEPT !.status = "READY_FOR_REVIEW", !.createMissing = create]
          \/ row' = [row EXCEPT !.status = "PAUSED"]
          \/ row' = row
      BY <2>4, Zenon DEF Undo
    <3>. HIDE DEF create
    <3>. QED  BY <1>0, <3>1, Statuses DEF IsRow
  <2>5. CASE CancelIdle(r) \/ FlagCancelling(r)
    BY <1>2, <2>5, Statuses DEF CancelIdle, FlagCancelling
  <2>6. CASE UploadComplete(r) \/ Confirm(r) \/ Resume(r) \/ Enqueue(r) \/ Cancel(r) \/ CleanArtifacts(r)
    <3>1. row' = row
      BY <2>6 DEF UploadComplete, Confirm, Resume, Enqueue, Cancel, CleanArtifacts
    <3>. QED  BY <1>1, <3>1
  <2>. QED  BY <1>11, <2>1, <2>2, <2>3, <2>4, <2>5, <2>6 DEF Serve
<1>12. ASSUME Pause \/ SweepMark PROVE IsRow(row')
  <2>1. Flip({"APPLYING"}, "PAUSING") \/ Flip({sweeper.seen}, "EXPIRED")
    BY <1>12 DEF Pause, SweepMark
  <2>. QED  BY <1>2, <2>1, Statuses
<1>13. ASSUME Stalled \/ PutFile \/ SweepList \/ SweepDelete \/ SweepStale \/ Expire \/ Colleague
       PROVE  row' = row
  BY <1>13 DEF Stalled, PutFile, SweepList, SweepDelete, SweepStale, Expire, Colleague
<1>14. UNCHANGED vars => row' = row
  BY DEF vars
<1>. QED  BY <1>1, <1>8, <1>9, <1>10, <1>11, <1>12, <1>13, <1>14 DEF Next, Work, Sweep

LEMMA PartsTyped ==
  ASSUME Typed, [Next]_vars
  PROVE  source' \in {"none", "there", "deleted"} /\ \A p \in DOMAIN parts' : PartOK(p)'
<1>1. Lines' = Lines /\ Lines \in Nat
  BY FileKept, LinesType DEF Lines
<1>2. source \in {"none", "there", "deleted"} /\ \A p \in DOMAIN parts : PartOK(p)
  BY DEF Typed
<1>3. ASSUME DeletePrefix
      PROVE  source' \in {"none", "there", "deleted"} /\ \A p \in DOMAIN parts' : PartOK(p)'
  <2>1. source' \in {"none", "deleted"} /\ DOMAIN parts' = {}
    BY <1>3 DEF DeletePrefix
  <2>. QED  BY <2>1
<1>4. ASSUME parts' = parts, source' \in {"none", "there", "deleted"}
      PROVE  source' \in {"none", "there", "deleted"} /\ \A p \in DOMAIN parts' : PartOK(p)'
  BY <1>1, <1>2, <1>4 DEF PartOK, IsBatch
<1>5. ASSUME NEW w \in Worker, Stage(w)
      PROVE  source' \in {"none", "there", "deleted"} /\ \A p \in DOMAIN parts' : PartOK(p)'
  <2>. DEFINE me == worker[w]
              chunk == Chunk(me.good, me.part)
  <2>1. /\ chunk # {} /\ source' = source /\ me.pc = "stage"
        /\ parts' = [p \in DOMAIN parts \cup {me.part} |-> IF p = me.part THEN chunk ELSE parts[p]]
    BY <1>5 DEF Stage, At
  <2>2. IsBatch(me.good) /\ Distinct(me.good) /\ me.part \in Nat \ {0}
    BY <2>1, WorkForm DEF Typed, Checked, IsWork
  <2>3. IsBatch(chunk) /\ \A g \in chunk : me.part <= Place(g.row)
    BY <2>2, ChunkForm
  <2>. HIDE DEF chunk
  <2>4. ASSUME NEW p \in DOMAIN parts' PROVE PartOK(p)'
    <3>1. CASE p = me.part
      <4>1. parts'[p] = chunk /\ p \in Nat \ {0}
        BY <2>1, <2>2, <3>1
      <4>. QED  BY <1>1, <2>1, <2>3, <3>1, <4>1 DEF PartOK, IsBatch
    <3>2. CASE p # me.part
      <4>1. parts'[p] = parts[p] /\ PartOK(p)
        BY <1>2, <2>1, <3>2
      <4>. QED  BY <1>1, <4>1 DEF PartOK, IsBatch
    <3>. QED  BY <3>1, <3>2
  <2>. QED  BY <1>2, <2>1, <2>4
<1>6. ASSUME NEW w \in Worker, Work(w) \/ Fault(w), ~Stage(w)
      PROVE  DeletePrefix \/ (parts' = parts /\ source' = source)
  <2>1. CASE Validate(w)
    BY <1>6, <2>1 DEF Validate, ClaimValidation, Parse, ParseNothing, Refuse, Classify,
              PlanDepartments, Ready, Abandon, Discard, objects
  <2>2. CASE Apply(w)
    BY <2>2, Zenon DEF Apply, Look, ClaimApply, ResolveDepartment, Resolved, ReadPart, ReadState,
              Halt, Park, ApplyRow, Commit, Checkpoint, Finish, Late, objects
  <2>3. CASE Take(w) \/ Return(w) \/ GiveBack(w) \/ Fault(w)
    BY <2>3 DEF Take, Return, GiveBack, Fault, Throw, Crash, objects
  <2>. QED  BY <1>6, <2>1, <2>2, <2>3 DEF Work
<1>7. ASSUME NEW r \in Request, Serve(r) PROVE DeletePrefix \/ (parts' = parts /\ source' = source)
  BY <1>7 DEF Serve, Create, UploadComplete, MarkUploaded, Confirm, Resume, ClaimConfirmed,
              Enqueue, Undo, Cancel, CancelIdle, CleanArtifacts, FlagCancelling, objects
<1>8. ASSUME Stalled \/ PutFile \/ Pause \/ Sweep \/ Expire \/ Colleague
      PROVE  DeletePrefix \/ (parts' = parts /\ source' \in {source, "there"})
  BY <1>8 DEF Stalled, PutFile, Pause, Sweep, SweepList, SweepDelete, SweepMark, SweepStale,
              Expire, Colleague, objects
<1>9. UNCHANGED vars => parts' = parts /\ source' = source
  BY DEF vars, objects
<1>. QED  BY <1>2, <1>3, <1>4, <1>5, <1>6, <1>7, <1>8, <1>9 DEF Next

LEMMA DirectoryTyped ==
  ASSUME Typed, [Next]_vars
  PROVE  DirectoryOK'
<1>1. /\ DOMAIN staff \subseteq Number /\ \A n \in DOMAIN staff : staff[n] \in Employee
      /\ departments \subseteq Department /\ written \subseteq Nat
  BY DEF Typed, DirectoryOK
<1>2. ASSUME staff' = staff, departments' \subseteq Department, written' = written
      PROVE  DirectoryOK'
  BY <1>1, <1>2 DEF DirectoryOK
<1>3. ASSUME NEW w \in Worker, Commit(w) PROVE DirectoryOK'
  <2>. DEFINE tx == worker[w].tx
  <2>1. tx \subseteq NormalizedRow
    BY WorkForm DEF IsWork
  <2>2. /\ departments' = departments
        /\ \/ staff' = staff /\ written' = written
           \/ staff' = Overlay(tx) /\ written' = written \cup {g.row : g \in tx}
    BY <1>3 DEF Commit
  <2>. HIDE DEF tx
  <2>3. CASE staff' = Overlay(tx) /\ written' = written \cup {g.row : g \in tx}
    <3>1. written' \subseteq Nat
      BY <1>1, <2>1, <2>3, RowTypes
    <3>2. /\ DOMAIN staff' = DOMAIN staff \cup {g.number : g \in tx}
          /\ \A n \in DOMAIN staff' :
               staff'[n] = IF \E g \in tx : g.number = n
                           THEN LET g == CHOOSE g \in tx : g.number = n
                                IN  [mail |-> g.mail, department |-> g.department, rest |-> g.rest]
                           ELSE staff[n]
      BY <2>3 DEF Overlay
    <3>3. DOMAIN staff' \subseteq Number
      BY <1>1, <2>1, <3>2, RowTypes
    <3>4. ASSUME NEW n \in DOMAIN staff' PROVE staff'[n] \in Employee
      <4>1. CASE \E g \in tx : g.number = n
        <5>. DEFINE g == CHOOSE g \in tx : g.number = n
        <5>1. g \in tx
          BY <4>1
        <5>2. staff'[n] = [mail |-> g.mail, department |-> g.department, rest |-> g.rest]
          BY <3>2, <4>1
        <5>. HIDE DEF g
        <5>3. g.mail \in Mail \cup {None} /\ g.department \in Name /\ g.rest \in Rest
          BY <2>1, <5>1, RowTypes
        <5>. QED  BY <5>2, <5>3 DEF Employee
      <4>2. CASE ~(\E g \in tx : g.number = n)
        <5>1. n \in DOMAIN staff /\ staff'[n] = staff[n]
          BY <3>2, <4>2
        <5>. QED  BY <1>1, <5>1
      <4>. QED  BY <4>1, <4>2
    <3>. QED  BY <1>1, <2>2, <3>1, <3>3, <3>4 DEF DirectoryOK
  <2>. QED  BY <1>1, <1>2, <2>2, <2>3
<1>4. ASSUME Colleague PROVE DirectoryOK'
  <2>1. CASE Hire
    <3>1. PICK n \in Number \ DOMAIN staff, mail \in Mail \cup {None}, d \in departments, rest \in Rest :
            staff' = [m \in DOMAIN staff \cup {n} |->
                        IF m = n THEN [mail |-> mail, department |-> d.name, rest |-> rest]
                        ELSE staff[m]]
      BY <2>1 DEF Hire
    <3>2. d.name \in Name
      BY <1>1 DEF Department
    <3>3. [mail |-> mail, department |-> d.name, rest |-> rest] \in Employee
      BY <3>2 DEF Employee
    <3>4. DOMAIN staff' \subseteq Number /\ \A m \in DOMAIN staff' : staff'[m] \in Employee
      BY <1>1, <3>1, <3>3
    <3>. QED  BY <1>1, <1>4, <2>1, <3>4 DEF Colleague, Hire, DirectoryOK
  <2>2. CASE Dismiss
    <3>1. DOMAIN staff' \subseteq Number /\ \A m \in DOMAIN staff' : staff'[m] \in Employee
      BY <1>1, <2>2 DEF Dismiss
    <3>. QED  BY <1>1, <1>4, <2>2, <3>1 DEF Colleague, Dismiss, DirectoryOK
  <2>3. CASE OpenDepartment
    <3>1. PICK name \in Name, code \in Code :
            departments' = departments \cup {[name |-> name, code |-> <<code, 0>>]}
      BY <2>3 DEF OpenDepartment
    <3>2. [name |-> name, code |-> <<code, 0>>] \in Department
      BY DEF Department, Suffixes
    <3>. QED  BY <1>1, <1>2, <1>4, <2>3, <3>1, <3>2 DEF Colleague, OpenDepartment
  <2>4. CASE CloseDepartment
    <3>1. departments' \subseteq departments
      BY <2>4 DEF CloseDepartment
    <3>. QED  BY <1>1, <1>2, <1>4, <2>4, <3>1 DEF Colleague, CloseDepartment
  <2>. QED  BY <1>4, <2>1, <2>2, <2>3, <2>4 DEF Colleague
<1>5. ASSUME NEW w \in Worker, ResolveDepartment(w) PROVE DirectoryOK'
  <2>1. departments' \subseteq Department
    BY <1>5, ResolveWork, FileKept
  <2>2. staff' = staff /\ written' = written
    BY <1>5 DEF ResolveDepartment
  <2>. QED  BY <1>2, <2>1, <2>2
<1>6. ASSUME UNCHANGED directory PROVE DirectoryOK'
  BY <1>1, <1>6 DEF directory, DirectoryOK
<1>7. ASSUME NEW w \in Worker, Work(w) \/ Fault(w), ~Commit(w), ~ResolveDepartment(w)
      PROVE  UNCHANGED directory
  <2>1. CASE Validate(w)
    BY <1>7, <2>1 DEF Validate, ClaimValidation, Parse, ParseNothing, Refuse, Classify,
              PlanDepartments, Stage, Ready, Abandon, Discard
  <2>2. CASE Apply(w)
    BY <1>7, <2>2, Zenon DEF Apply, Look, ClaimApply, Resolved, ReadPart, ReadState,
              Halt, Park, ApplyRow, Checkpoint, Finish, Late
  <2>3. CASE Take(w) \/ Return(w) \/ GiveBack(w) \/ Fault(w)
    BY <2>3 DEF Take, Return, GiveBack, Fault, Throw, Crash
  <2>. QED  BY <1>7, <2>1, <2>2, <2>3 DEF Work
<1>8. ASSUME NEW r \in Request, Serve(r) PROVE UNCHANGED directory
  BY <1>8 DEF Serve, Create, UploadComplete, MarkUploaded, Confirm, Resume, ClaimConfirmed,
              Enqueue, Undo, Cancel, CancelIdle, CleanArtifacts, FlagCancelling
<1>9. ASSUME Stalled \/ PutFile \/ Pause \/ Sweep \/ Expire PROVE UNCHANGED directory
  BY <1>9 DEF Stalled, PutFile, Pause, Sweep, SweepList, SweepDelete, SweepMark, SweepStale,
              Expire
<1>10. UNCHANGED vars => UNCHANGED directory
  BY DEF vars
<1>. QED  BY <1>3, <1>4, <1>5, <1>6, <1>7, <1>8, <1>9, <1>10 DEF Next

------------------------------------------------------------------------------
(* Every variable keeps its type: handlers, jobs, and the rest.               *)

LEMMA ServeTyped ==
  ASSUME Typed, NEW r \in Request, Serve(r)
  PROVE  AloneAt(r) /\ IsHandler(request'[r])
<1>. DEFINE me == request[r]
<1>0. IsHandler(me) /\ IsGlance(Glance(row)) /\ IsHandler(IdleRequest)
  BY GlanceType, FreshTypes DEF Typed
<1>1. ASSUME Answer(r) PROVE AloneAt(r) /\ IsHandler(request'[r])
  BY <1>0, <1>1, AnswerMoves
<1>2. ASSUME NEW pc \in Request_Pc, Continue(r, pc) PROVE AloneAt(r) /\ IsHandler(request'[r])
  <2>1. AloneAt(r) /\ request'[r] = [pc |-> pc, op |-> me.op, create |-> me.create, seen |-> me.seen]
    BY <1>2, ContinueMoves
  <2>. QED  BY <1>0, <2>1 DEF IsHandler
<1>3. ASSUME NEW op, NEW pc \in Request_Pc, NEW create \in BOOLEAN, Enter(r, op, pc, create)
      PROVE  AloneAt(r) /\ IsHandler(request'[r])
  <2>. DEFINE seen == Glance(row)
  <2>1. AloneAt(r) /\ request'[r] = [pc |-> pc, op |-> op, create |-> create, seen |-> seen]
    BY <1>3, EnterMoves
  <2>. HIDE DEF seen
  <2>2. IsGlance(seen)
    BY <1>0 DEF seen
  <2>. QED  BY <2>1, <2>2 DEF IsHandler
<1>4. ASSUME request' = request PROVE AloneAt(r) /\ IsHandler(request'[r])
  BY <1>0, <1>4 DEF AloneAt, Typed
<1>5. {"idle", "mark", "add", "undo", "claim", "cancel", "clean", "flag"} = Request_Pc
  BY DEF Request_Pc
<1>6. CASE Create(r)
  BY <1>4, <1>6 DEF Create
<1>7. CASE UploadComplete(r) \/ Resume(r)
  <2>1. Enter(r, "upload", "mark", FALSE) \/ Enter(r, "resume", "claim", FALSE)
    BY <1>7 DEF UploadComplete, Resume
  <2>. QED  BY <1>3, <1>5, <2>1
<1>8. CASE Confirm(r)
  <2>1. \E create \in BOOLEAN : Enter(r, "confirm", "claim", create)
    BY <1>8 DEF Confirm
  <2>. QED  BY <1>3, <1>5, <2>1
<1>9. CASE Cancel(r)
  <2>1. Enter(r, "cancel", "cancel", FALSE) \/ Enter(r, "cancel", "flag", FALSE)
    BY <1>9 DEF Cancel
  <2>. QED  BY <1>3, <1>5, <2>1
<1>10. CASE MarkUploaded(r) \/ ClaimConfirmed(r) \/ Enqueue(r) \/ Undo(r) \/ CancelIdle(r)
            \/ CleanArtifacts(r) \/ FlagCancelling(r)
  <2>1. Answer(r) \/ Continue(r, "add") \/ Continue(r, "undo") \/ Continue(r, "clean")
    BY <1>10, Zenon DEF MarkUploaded, ClaimConfirmed, Enqueue, Undo, CancelIdle, CleanArtifacts,
                 FlagCancelling
  <2>. QED  BY <1>1, <1>2, <1>5, <2>1
<1>. QED  BY <1>6, <1>7, <1>8, <1>9, <1>10 DEF Serve

LEMMA RequestTyped ==
  ASSUME Typed, [Next]_vars
  PROVE  request' = [r \in Request |-> request'[r]] /\ \A r \in Request : IsHandler(request'[r])
<1>0. request = [r \in Request |-> request[r]] /\ \A r \in Request : IsHandler(request[r])
  BY DEF Typed
<1>1. ASSUME NEW r \in Request, Serve(r)
      PROVE request' = [s \in Request |-> request'[s]] /\ \A s \in Request : IsHandler(request'[s])
  BY <1>0, <1>1, ServeTyped DEF AloneAt
<1>2. ASSUME NEW w \in Worker, Work(w) \/ Fault(w) PROVE request' = request
  <2>1. CASE Validate(w)
    BY <2>1 DEF Validate, ClaimValidation, Parse, ParseNothing, Refuse, Classify,
              PlanDepartments, Stage, Ready, Abandon, Discard
  <2>2. CASE Apply(w)
    BY <2>2, Zenon DEF Apply, Look, ClaimApply, ResolveDepartment, Resolved, ReadPart, ReadState,
              Halt, Park, ApplyRow, Commit, Checkpoint, Finish, Late
  <2>3. CASE Take(w) \/ Return(w) \/ GiveBack(w) \/ Fault(w)
    BY <2>3 DEF Take, Return, GiveBack, Fault, Throw, Crash
  <2>. QED  BY <1>2, <2>1, <2>2, <2>3 DEF Work
<1>3. ASSUME Stalled \/ PutFile \/ Pause \/ Sweep \/ Expire \/ Colleague PROVE request' = request
  BY <1>3 DEF Stalled, PutFile, Pause, Sweep, SweepList, SweepDelete, SweepMark, SweepStale,
              Expire, Colleague
<1>4. UNCHANGED vars => request' = request
  BY DEF vars
<1>. QED  BY <1>0, <1>1, <1>2, <1>3, <1>4 DEF Next

\* What becomes of the jobs in a step.
LEMMA JobMoves ==
  ASSUME Typed, [Next]_vars
  PROVE  \/ jobs' = jobs
         \/ \E w \in Worker : Take(w)
         \/ Stalled
         \/ \E r \in Request : Enqueue(r) /\ jobs' = Added(JobId(r))
         \/ \E w \in Worker :
              /\ Return(w) \/ GiveBack(w) \/ Crash(w)
              /\ \/ jobs' = jobs \ Held(w)
                 \/ jobs' = (jobs \ Held(w)) \cup {[j EXCEPT !.owner = None] : j \in Held(w)}
                 \/ jobs' = (jobs \ Held(w)) \cup
                      {[j EXCEPT !.made = @ + 1, !.owner = None,
                                 !.state = IF j.made + 1 < MaxAttempts THEN "waiting" ELSE "failed"] :
                         j \in Held(w)}
<1>1. ASSUME NEW w \in Worker, Validate(w) PROVE jobs' = jobs
  BY <1>1 DEF Validate, ClaimValidation, Parse, ParseNothing, Refuse, Classify,
              PlanDepartments, Stage, Ready, Abandon, Discard
<1>2. ASSUME NEW w \in Worker, Apply(w) PROVE jobs' = jobs
  BY <1>2, Zenon DEF Apply, Look, ClaimApply, ResolveDepartment, Resolved, ReadPart, ReadState,
              Halt, Park, ApplyRow, Commit, Checkpoint, Finish, Late
<1>3. ASSUME NEW w \in Worker, Throw(w) PROVE jobs' = jobs
  BY <1>3 DEF Throw
<1>4. ASSUME NEW r \in Request, Serve(r)
      PROVE  jobs' = jobs \/ (Enqueue(r) /\ jobs' = Added(JobId(r)))
  BY <1>4, Zenon DEF Serve, Create, UploadComplete, MarkUploaded, Confirm, Resume, ClaimConfirmed,
              Enqueue, Undo, Cancel, CancelIdle, CleanArtifacts, FlagCancelling
<1>5. ASSUME PutFile \/ Pause \/ Sweep \/ Expire \/ Colleague PROVE jobs' = jobs
  BY <1>5 DEF PutFile, Pause, Sweep, SweepList, SweepDelete, SweepMark, SweepStale,
              Expire, Colleague
<1>6. UNCHANGED vars => jobs' = jobs
  BY DEF vars
<1>7. ASSUME NEW w \in Worker, Return(w) \/ GiveBack(w) \/ Crash(w)
      PROVE  \/ jobs' = jobs \ Held(w)
             \/ jobs' = (jobs \ Held(w)) \cup {[j EXCEPT !.owner = None] : j \in Held(w)}
             \/ jobs' = (jobs \ Held(w)) \cup
                  {[j EXCEPT !.made = @ + 1, !.owner = None,
                             !.state = IF j.made + 1 < MaxAttempts THEN "waiting" ELSE "failed"] :
                     j \in Held(w)}
  BY <1>7, Zenon, LeaveMoves
<1>. QED  BY <1>1, <1>2, <1>3, <1>4, <1>5, <1>6, <1>7 DEF Next, Work, Fault

LEMMA JobsTyped ==
  ASSUME Typed, [Next]_vars
  PROVE  \A j \in jobs' : IsJob(j)
<1>0. \A j \in jobs : IsJob(j)
  BY DEF Typed
<1>1. ASSUME NEW w \in Worker, Take(w) PROVE \A j \in jobs' : IsJob(j)
  <2>1. PICK j \in jobs : /\ j.state = "waiting"
                          /\ jobs' = (jobs \ {j}) \cup {[j EXCEPT !.state = "active", !.owner = w]}
    BY <1>1 DEF Take
  <2>2. IsJob([j EXCEPT !.state = "active", !.owner = w])
    BY <1>0, <2>1 DEF IsJob
  <2>. QED  BY <1>0, <2>1, <2>2
<1>2. ASSUME Stalled PROVE \A j \in jobs' : IsJob(j)
  <2>. DEFINE end(j) == IF j.stalls + 1 > MaxStalledCount THEN "failed" ELSE "waiting"
  <2>1. PICK j \in jobs :
          /\ j.state = "active" /\ j.owner = None
          /\ jobs' = (jobs \ {j}) \cup {[j EXCEPT !.stalls = @ + 1, !.state = end(j)]}
    BY <1>2 DEF Stalled
  <2>2. end(j) \in {"failed", "waiting"}
    OBVIOUS
  <2>. DEFINE stalls == j.stalls + 1
              state == end(j)
              next == [j EXCEPT !.stalls = stalls, !.state = state]
  <2>3. stalls \in Nat /\ state \in {"failed", "waiting"} /\ IsJob(j)
    BY <1>0, <2>2 DEF IsJob
  <2>. HIDE DEF stalls, state
  <2>4. IsJob(next)
    BY <2>1, <2>3 DEF IsJob
  <2>5. jobs' = (jobs \ {j}) \cup {next}
    BY <2>1 DEF stalls, state
  <2>. QED  BY <1>0, <2>4, <2>5
<1>3. ASSUME NEW id, jobs' = Added(id) PROVE \A j \in jobs' : IsJob(j)
  <2>1. MaxAttempts \in Nat \ {0}
    BY SizeAssumption
  <2>2. IsJob([id |-> id, state |-> "waiting", made |-> 0, stalls |-> 0, owner |-> None])
    BY <2>1 DEF IsJob
  <2>. QED  BY <1>0, <1>3, <2>2 DEF Added
<1>4. ASSUME NEW w \in Worker,
             \/ jobs' = jobs \ Held(w)
             \/ jobs' = (jobs \ Held(w)) \cup {[j EXCEPT !.owner = None] : j \in Held(w)}
             \/ jobs' = (jobs \ Held(w)) \cup
                  {[j EXCEPT !.made = @ + 1, !.owner = None,
                             !.state = IF j.made + 1 < MaxAttempts THEN "waiting" ELSE "failed"] :
                     j \in Held(w)}
      PROVE  \A j \in jobs' : IsJob(j)
  <2>1. \A j \in Held(w) : j \in jobs /\ j.owner = w /\ j.owner # None
    BY OwnerAssumption DEF Held
  <2>2. \A j \in Held(w) : IsJob([j EXCEPT !.owner = None])
    <3>. SUFFICES ASSUME NEW j \in jobs, j.owner # None PROVE IsJob([j EXCEPT !.owner = None])
      BY <2>1
    <3>1. IsJob(j)
      BY <1>0
    <3>. QED  BY <3>1 DEF IsJob
  <2>3. \A j \in Held(w) :
          IsJob([j EXCEPT !.made = @ + 1, !.owner = None,
                          !.state = IF j.made + 1 < MaxAttempts THEN "waiting" ELSE "failed"])
    <3>. SUFFICES ASSUME NEW j \in jobs, j.owner # None
                  PROVE  IsJob([j EXCEPT !.made = @ + 1, !.owner = None,
                          !.state = IF j.made + 1 < MaxAttempts THEN "waiting" ELSE "failed"])
      BY <2>1
    <3>. DEFINE made == j.made + 1
                state == IF made < MaxAttempts THEN "waiting" ELSE "failed"
    <3>1. IsJob(j) /\ j.state = "active"
      BY <1>0 DEF IsJob
    <3>2. /\ made \in 0 .. MaxAttempts /\ state \in {"waiting", "failed"}
          /\ state # "failed" => made < MaxAttempts
      BY <3>1, SizeAssumption DEF IsJob
    <3>. HIDE DEF made, state
    <3>3. IsJob([j EXCEPT !.made = made, !.owner = None, !.state = state])
      BY <3>1, <3>2 DEF IsJob
    <3>4. [j EXCEPT !.made = made, !.owner = None, !.state = state]
            = [j EXCEPT !.made = @ + 1, !.owner = None,
                        !.state = IF j.made + 1 < MaxAttempts THEN "waiting" ELSE "failed"]
      BY Zenon DEF made, state
    <3>. QED  BY <3>3, <3>4, Zenon
  <2>4. CASE jobs' = jobs \ Held(w)
    BY <1>0, <2>4
  <2>5. CASE jobs' = (jobs \ Held(w)) \cup {[j EXCEPT !.owner = None] : j \in Held(w)}
    BY <1>0, <2>2, <2>5
  <2>6. CASE jobs' = (jobs \ Held(w)) \cup
                  {[j EXCEPT !.made = @ + 1, !.owner = None,
                             !.state = IF j.made + 1 < MaxAttempts THEN "waiting" ELSE "failed"] :
                     j \in Held(w)}
    BY <1>0, <2>3, <2>6, Zenon
  <2>. QED  BY <1>4, <2>4, <2>5, <2>6
<1>. QED  BY <1>0, <1>1, <1>2, <1>3, <1>4, JobMoves

LEMMA RestTyped ==
  ASSUME Typed, [Next]_vars
  PROVE  /\ sweeper' = [pc |-> sweeper'.pc, seen |-> sweeper'.seen]
         /\ sweeper'.pc \in {"idle", "delete", "mark"} /\ sweeper'.seen \in Status
         /\ swept' \in BOOLEAN /\ overtaken' \in BOOLEAN
         /\ left' \in [Limits -> Nat] /\ left'["churn"] <= Bounds["churn"]
<1>0. /\ sweeper = [pc |-> sweeper.pc, seen |-> sweeper.seen] /\ row.status \in Status
      /\ sweeper.pc \in {"idle", "delete", "mark"} /\ sweeper.seen \in Status
      /\ swept \in BOOLEAN /\ overtaken \in BOOLEAN
      /\ left \in [Limits -> Nat] /\ left["churn"] <= Bounds["churn"]
  BY DEF Typed, IsRow
<1>1. ASSUME NEW w \in Worker, Work(w) \/ Fault(w)
      PROVE  sweeper' = sweeper /\ swept' = swept
  <2>1. CASE Validate(w)
    BY <2>1 DEF Validate, ClaimValidation, Parse, ParseNothing, Refuse, Classify,
              PlanDepartments, Stage, Ready, Abandon, Discard, outside, cleanup
  <2>2. CASE Apply(w)
    BY <2>2, Zenon DEF Apply, Look, ClaimApply, ResolveDepartment, Resolved, ReadPart, ReadState,
              Halt, Park, ApplyRow, Commit, Checkpoint, Finish, Late, outside, cleanup
  <2>3. CASE Take(w) \/ Return(w) \/ GiveBack(w) \/ Fault(w)
    BY <2>3 DEF Take, Return, GiveBack, Fault, Throw, Crash, outside, cleanup
  <2>. QED  BY <1>1, <2>1, <2>2, <2>3 DEF Work
<1>2. ASSUME NEW r \in Request, Serve(r) PROVE sweeper' = sweeper /\ swept' = swept
  BY <1>2 DEF Serve, Create, UploadComplete, MarkUploaded, Confirm, Resume, ClaimConfirmed,
              Enqueue, Undo, Cancel, CancelIdle, CleanArtifacts, FlagCancelling, outside, cleanup
<1>3. ASSUME Stalled \/ PutFile \/ Pause \/ Expire \/ Colleague PROVE sweeper' = sweeper /\ swept' = swept
  BY <1>3 DEF Stalled, PutFile, Pause, Expire, Colleague, outside, cleanup
<1>4. ASSUME Sweep
      PROVE  /\ sweeper' = [pc |-> sweeper'.pc, seen |-> sweeper'.seen]
             /\ sweeper'.pc \in {"idle", "delete", "mark"} /\ sweeper'.seen \in Status
             /\ swept' \in BOOLEAN
  <2>1. CASE SweepList
    <3>1. sweeper' = [pc |-> "delete", seen |-> row.status] /\ swept' = swept
      BY <2>1 DEF SweepList
    <3>. QED  BY <1>0, <3>1
  <2>2. CASE SweepDelete
    <3>1. /\ sweeper' = [sweeper EXCEPT !.pc = "mark"] \/ sweeper' = [sweeper EXCEPT !.pc = "idle"]
          /\ swept' = (swept \/ row.status \notin Terminal) \/ swept' = swept
      BY <2>2 DEF SweepDelete
    <3>2. swept' \in BOOLEAN
      BY <1>0, <3>1
    <3>. QED  BY <1>0, <3>1, <3>2
  <2>3. CASE SweepMark
    <3>1. sweeper' = [pc |-> "idle", seen |-> "ABSENT"] /\ swept' = swept
      BY <2>3 DEF SweepMark
    <3>. QED  BY <1>0, <3>1, Statuses
  <2>4. CASE SweepStale
    <3>1. sweeper' = sweeper /\ swept' = swept
      BY <2>4 DEF SweepStale, outside, cleanup
    <3>. QED  BY <1>0, <3>1
  <2>. QED  BY <1>4, <2>1, <2>2, <2>3, <2>4 DEF Sweep
<1>5. UNCHANGED vars => sweeper' = sweeper /\ swept' = swept /\ overtaken' = overtaken /\ left' = left
  BY DEF vars, outside, cleanup
<1>6. overtaken' \in BOOLEAN
  <2>1. ASSUME NEW w \in Worker, Work(w) \/ Fault(w) PROVE overtaken' \in BOOLEAN
    <3>1. CASE Validate(w)
      BY <1>0, <3>1 DEF Validate, ClaimValidation, Parse, ParseNothing, Refuse, Classify,
              PlanDepartments, Stage, Ready, Abandon, Discard, outside
    <3>2. CASE Apply(w) /\ ~ClaimApply(w)
      <4>1. overtaken' = overtaken
        BY <3>2, Zenon DEF Apply, Look, ResolveDepartment, Resolved, ReadPart, ReadState,
              Halt, Park, ApplyRow, Commit, Checkpoint, Finish, Late, outside
      <4>. QED  BY <1>0, <4>1
    <3>3. CASE ClaimApply(w)
      <4>1. \/ overtaken' = overtaken
            \/ overtaken' = \/ overtaken
                            \/ \E v \in Worker : Applying(v)
                            \/ row.status \notin {"APPLY_QUEUED", "APPLYING", "PAUSING", "CANCELLING"}
        BY <3>3 DEF ClaimApply
      <4>. QED  BY <1>0, <4>1
    <3>4. CASE Take(w) \/ Return(w) \/ GiveBack(w) \/ Fault(w)
      BY <1>0, <3>4 DEF Take, Return, GiveBack, Fault, Throw, Crash, outside
    <3>. QED  BY <2>1, <3>1, <3>2, <3>3, <3>4 DEF Work
  <2>2. ASSUME NEW r \in Request, Serve(r) PROVE overtaken' \in BOOLEAN
    <3>1. CASE MarkUploaded(r)
      BY <3>1 DEF MarkUploaded
    <3>2. CASE Undo(r)
      BY <3>2 DEF Undo
    <3>3. CASE ~MarkUploaded(r) /\ ~Undo(r)
      <4>1. overtaken' = overtaken
        BY <2>2, <3>3 DEF Serve, Create, UploadComplete, Confirm, Resume, ClaimConfirmed,
              Enqueue, Cancel, CancelIdle, CleanArtifacts, FlagCancelling, outside
      <4>. QED  BY <1>0, <4>1
    <3>. QED  BY <3>1, <3>2, <3>3
  <2>3. ASSUME Stalled \/ PutFile \/ Pause \/ Sweep \/ Expire \/ Colleague PROVE overtaken' = overtaken
    BY <2>3 DEF Stalled, PutFile, Pause, Sweep, SweepList, SweepDelete, SweepMark, SweepStale,
                Expire, Colleague, outside
  <2>. QED  BY <1>0, <1>5, <2>1, <2>2, <2>3 DEF Next
<1>7. left' \in [Limits -> Nat] /\ left'["churn"] <= Bounds["churn"]
  <2>0. BoundsAssumption /\ "churn" \in Limits
    BY BoundsAssumption DEF Limits
  <2>1. \/ Colleague
        \/ \E limit \in Limits \ {"churn"} : Spend(limit) \/ Ask \/ UNCHANGED left
    <3>0. {"requests", "errors", "replies", "crashes", "expiry", "mishaps"} \subseteq Limits \ {"churn"}
      BY DEF Limits
    <3>1. ASSUME NEW w \in Worker, Work(w) \/ Fault(w)
          PROVE  UNCHANGED left \/ Spend("errors") \/ Spend("crashes")
      <4>1. CASE Validate(w)
        BY <4>1 DEF Validate, ClaimValidation, Parse, ParseNothing, Refuse, Classify,
              PlanDepartments, Stage, Ready, Abandon, Discard
      <4>2. CASE Apply(w)
        BY <4>2, Zenon DEF Apply, Look, ClaimApply, ResolveDepartment, Resolved, ReadPart, ReadState,
              Halt, Park, ApplyRow, Commit, Checkpoint, Finish, Late
      <4>3. CASE Take(w) \/ Return(w) \/ GiveBack(w) \/ Fault(w)
        BY <4>3 DEF Take, Return, GiveBack, Fault, Throw, Crash
      <4>. QED  BY <3>1, <4>1, <4>2, <4>3 DEF Work
    <3>2. ASSUME NEW r \in Request, Serve(r)
          PROVE  UNCHANGED left \/ Ask \/ Spend("errors") \/ Spend("replies")
      BY <3>2, Zenon DEF Serve, Create, UploadComplete, MarkUploaded, Confirm, Resume, ClaimConfirmed,
              Enqueue, Undo, Cancel, CancelIdle, CleanArtifacts, FlagCancelling
    <3>3. ASSUME Stalled \/ PutFile \/ Pause \/ Sweep \/ Expire
          PROVE  UNCHANGED left \/ Ask \/ Spend("errors") \/ Spend("expiry")
      BY <3>3, Zenon DEF Stalled, PutFile, Pause, Sweep, SweepList, SweepDelete, SweepMark, SweepStale,
                Expire
    <3>. QED  BY <1>5, <3>0, <3>1, <3>2, <3>3 DEF Next
  <2>2. CASE Colleague
    BY <1>0, <2>0, <2>2, ColleagueSpends DEF BoundsAssumption
  <2>3. CASE \E limit \in Limits \ {"churn"} : Spend(limit) \/ Ask \/ UNCHANGED left
    BY <1>0, <2>3, Spent
  <2>. QED  BY <2>1, <2>2, <2>3
<1>. QED  BY <1>0, <1>1, <1>2, <1>3, <1>4, <1>5, <1>6, <1>7 DEF Next

------------------------------------------------------------------------------
(* The type invariant.                                                        *)

LEMMA TypedInit == Init => Typed
<1>. SUFFICES ASSUME Init PROVE Typed
  OBVIOUS
<1>1. file \in Files /\ IsRow(row)
  BY FreshTypes DEF Init
<1>2. DirectoryOK
  BY DirectoryAssumption DEF Init, DirectoryOK
<1>3. source = "none" /\ DOMAIN parts = {} /\ jobs = {}
  BY DEF Init
<1>4. /\ worker = [w \in Worker |-> worker[w]]
      /\ \A w \in Worker : IsWork(worker[w]) /\ worker[w].pc = "idle"
  <2>1. worker = [w \in Worker |-> IdleWorker]
    BY DEF Init
  <2>2. \A w \in Worker : worker[w] = IdleWorker
    BY <2>1
  <2>. QED  BY <2>1, <2>2, FreshTypes
<1>5. request = [r \in Request |-> request[r]] /\ \A r \in Request : IsHandler(request[r])
  <2>1. request = [r \in Request |-> IdleRequest]
    BY DEF Init
  <2>2. \A r \in Request : request[r] = IdleRequest
    BY <2>1
  <2>. QED  BY <2>1, <2>2, FreshTypes
<1>6. /\ sweeper = [pc |-> sweeper.pc, seen |-> sweeper.seen]
      /\ sweeper.pc \in {"idle", "delete", "mark"} /\ sweeper.seen \in Status
      /\ swept \in BOOLEAN /\ overtaken \in BOOLEAN
  BY Statuses DEF Init
<1>7. left \in [Limits -> Nat] /\ left["churn"] <= Bounds["churn"]
  <2>1. "churn" \in Limits /\ left = Bounds
    BY DEF Limits, Init
  <2>2. Bounds["churn"] \in Nat
    BY <2>1, BoundsAssumption
  <2>. QED  BY <2>1, <2>2, BoundsAssumption
<1>. QED  BY <1>1, <1>2, <1>3, <1>4, <1>5, <1>6, <1>7 DEF Typed

LEMMA TypedStep == Typed /\ [Next]_vars => Typed'
<1>. SUFFICES ASSUME Typed, [Next]_vars PROVE Typed'
  OBVIOUS
<1>1. file' \in Files
  BY FileKept DEF Typed
<1>2. IsRow(row)' /\ DirectoryOK'
  BY RowTyped, DirectoryTyped
<1>. QED  BY <1>1, <1>2, PartsTyped, WorkersTyped, RequestTyped, JobsTyped, RestTyped DEF Typed

\* Every variable keeps its type, for any file and any directory.
THEOREM ImportTypeCorrect == Spec => []TypeOK
<1>1. Typed => TypeOK
  <2>. SUFFICES ASSUME Typed PROVE TypeOK
    OBVIOUS
  <2>1. RowOK
    <3>1. IsRow(row)
      BY DEF Typed
    <3>2. DOMAIN row = DOMAIN FreshRow
      BY <3>1 DEF IsRow, FreshRow
    <3>3. row.counts \in [DOMAIN Counters -> Nat]
      BY <3>1 DEF IsRow, Tally, Counters
    <3>. QED  BY <3>1, <3>2, <3>3 DEF RowOK, IsRow, IsPlan
  <2>2. DirectoryOK /\ ObjectsOK
    BY DEF Typed, ObjectsOK, PartOK, IsBatch
  <2>3. WorkOK
    <3>1. \A w \in Worker : worker[w].pc \in Worker_Pc /\ worker[w].buffer \subseteq NormalizedRow
      BY DEF Typed, IsWork, IsBatch
    <3>2. \A r \in Request : request[r].pc \in Request_Pc
      BY DEF Typed, IsHandler
    <3>3. \A j \in jobs : j.state \in {"waiting", "active", "failed"} /\ j.made \in 0 .. MaxAttempts
      BY DEF Typed, IsJob
    <3>. QED  BY <3>1, <3>2, <3>3 DEF WorkOK
  <2>. QED  BY <2>1, <2>2, <2>3 DEF TypeOK
<1>. QED  BY <1>1, TypedInit, TypedStep, PTL DEF Spec

------------------------------------------------------------------------------
(* The queue.                                                                 *)

\* A step of a worker that goes on with its job.
LEMMA StayMoves ==
  ASSUME Typed, NEW w \in Worker, Validate(w) \/ Apply(w) \/ Throw(w)
  PROVE  /\ Alone(w) /\ worker'[w].job = worker[w].job
         /\ worker[w].pc # "idle" /\ worker'[w].pc # "idle"
         /\ jobs' = jobs /\ request' = request /\ sweeper' = sweeper
         /\ worker'[w].pc \in Validating \cup {"refuse"} =>
              worker[w].pc \in Validating \/ (worker[w].pc = "look" /\ ~row.prefix)
         /\ worker'[w].pc \in Committing \cup {"claimApply"} =>
              worker[w].pc \in Committing \cup {"look", "claimApply"}
         /\ worker'[w].pc \notin {"claim", "look"}
<1>. DEFINE me == worker[w]
            you == worker'[w]
            Fine == /\ Alone(w) /\ you.job = me.job /\ me.pc # "idle" /\ you.pc # "idle"
                    /\ you.pc \in Validating \cup {"refuse"} =>
                         me.pc \in Validating \/ (me.pc = "look" /\ ~row.prefix)
                    /\ you.pc \in Committing \cup {"claimApply"} =>
                         me.pc \in Committing \cup {"look", "claimApply"}
                    /\ you.pc \notin {"claim", "look"}
<1>0. jobs' = jobs /\ request' = request /\ sweeper' = sweeper
  <2>1. CASE Validate(w)
    BY <2>1 DEF Validate, ClaimValidation, Parse, ParseNothing, Refuse, Classify,
              PlanDepartments, Stage, Ready, Abandon, Discard, outside, cleanup
  <2>2. CASE Apply(w)
    BY <2>2, Zenon DEF Apply, Look, ClaimApply, ResolveDepartment, Resolved, ReadPart, ReadState,
              Halt, Park, ApplyRow, Commit, Checkpoint, Finish, Late, outside, cleanup
  <2>3. CASE Throw(w)
    BY <2>3 DEF Throw, outside, cleanup
  <2>. QED  BY <2>1, <2>2, <2>3
<1>. SUFFICES Fine
  BY <1>0
<1>. USE DEF At, Validating, Committing
<1>1. ASSUME NEW pc, Goto(w, pc)
      PROVE  Alone(w) /\ you.job = me.job /\ you.pc = pc
  BY <1>1, GoMoves DEF Same
<1>2. CASE ClaimValidation(w)
  BY <1>1, <1>2 DEF ClaimValidation
<1>3. CASE ParseNothing(w) \/ Refuse(w) \/ Discard(w) \/ Halt(w) \/ Park(w)
  <2>1. Goto(w, "caught") \/ Goto(w, "return")
    BY <1>3 DEF ParseNothing, Refuse, Discard, Halt, Park
  <2>2. me.pc # "idle"
    BY <1>3 DEF ParseNothing, Refuse, Discard, Halt, Park
  <2>. QED  BY <1>1, <2>1, <2>2
<1>4. CASE Throw(w)
  <2>1. Goto(w, "caught") /\ me.pc # "idle"
    BY <1>4 DEF Throw
  <2>. QED  BY <1>1, <2>1
<1>5. CASE Ready(w)
  <2>1. me.pc = "stage" /\ (Goto(w, "return") \/ Goto(w, "abandon"))
    BY <1>5 DEF Ready
  <2>. QED  BY <1>1, <2>1
<1>6. CASE Abandon(w) \/ Finish(w) \/ Late(w)
  <2>1. /\ me.pc \in {"abandon", "finish", "late"}
        /\ \/ Goto(w, "return") \/ Goto(w, "discard")
           \/ Goto(w, "late") /\ me.pc = "finish"
    BY <1>6 DEF Abandon, Finish, Late
  <2>. QED  BY <1>1, <2>1
<1>7. CASE Parse(w)
  <2>1. me.pc = "parse" /\ you.pc \in {"refuse", "plan", "classify"} /\ Alone(w) /\ you.job = me.job
    <3>1. me.pc = "parse"
      BY <1>7 DEF Parse
    <3>. QED  BY <1>7, <3>1, ParseMoves DEF Same
  <2>. QED  BY <2>1
<1>8. CASE Classify(w)
  <2>1. me.pc = "classify" /\ you.pc \in {"abandon", "plan", "classify"} /\ Alone(w) /\ you.job = me.job
    <3>1. me.pc = "classify"
      BY <1>8 DEF Classify
    <3>. QED  BY <1>8, <3>1, ClassifyMoves DEF Same
  <2>. QED  BY <2>1
<1>9. CASE PlanDepartments(w)
  <2>1. me.pc = "plan" /\ you.pc = "stage" /\ Alone(w) /\ you.job = me.job
    <3>1. me.pc = "plan"
      BY <1>9 DEF PlanDepartments
    <3>. QED  BY <1>9, <3>1, PlanMoves DEF Same
  <2>. QED  BY <2>1
<1>10. CASE Stage(w)
  BY <1>10, StageMoves DEF Same, Stage
<1>11. CASE Look(w)
  <2>1. /\ me.pc = "look" /\ you.pc \in {"return", "refuse", "claimApply"}
        /\ you.pc = "refuse" => ~row.prefix
        /\ Alone(w) /\ you.job = me.job
    BY <1>11, LookMoves DEF Look, Same
  <2>. QED  BY <2>1
<1>12. CASE ClaimApply(w)
  <2>1. me.pc = "claimApply" /\ you.pc \in {"return", "resolve"} /\ Alone(w) /\ you.job = me.job
    BY <1>12, ClaimApplyMoves DEF Same
  <2>. QED  BY <2>1
<1>13. CASE ResolveDepartment(w)
  <2>1. me.pc = "resolve"
    BY <1>13 DEF ResolveDepartment
  <2>2. you.pc \in {"resolve", "return", "caught"} /\ Alone(w)
    BY <1>13, ResolveWork, WorkerWell, FileKept DEF Work, Apply, Next, Well
  <2>3. you.job = me.job
    <3>1. PICK from \in worker[w].todo :
              LET target == Planned(worker[w].seen.plan, from)
              IN  \/ ResolveKnown(w, from, target)
                  \/ ResolveRefused(w, target)
                  \/ ResolveCreate(w, target)
      BY <1>13 DEF ResolveDepartment
    <3>. DEFINE target == Planned(worker[w].seen.plan, from)
    <3>. HIDE DEF target
    <3>2. ResolveRefused(w, target) => Goto(w, "return")
      BY DEF ResolveRefused
    <3>. QED  BY <1>1, <2>1, <3>1, <3>2, KnownMoves, CreateMoves DEF target, Same
  <2>. QED  BY <2>1, <2>2, <2>3
<1>14. CASE Resolved(w)
  <2>1. me.pc = "resolve" /\ you.pc = "part" /\ Alone(w) /\ you.job = me.job
    <3>1. me.pc = "resolve"
      BY <1>14 DEF Resolved
    <3>. QED  BY <1>14, <3>1, ResolvedMoves DEF Same
  <2>. QED  BY <2>1
<1>15. CASE ReadPart(w)
  <2>1. me.pc = "part" /\ you.pc \in {"part", "state", "finish"}
    BY <1>15, ReadPartWork, FileKept DEF ReadPart, Next, Work, Apply
  <2>2. Alone(w) /\ you.job = me.job
    BY <1>15, ReadPartMoves DEF Same
  <2>. QED  BY <2>1, <2>2
<1>16. CASE ReadState(w)
  BY <1>16, ReadStateMoves DEF Same, ReadState
<1>17. CASE ApplyRow(w)
  <2>1. me.pc = "write" /\ you.pc = "write" /\ Alone(w) /\ you.job = me.job
    <3>1. me.pc = "write"
      BY <1>17 DEF ApplyRow
    <3>. QED  BY <1>17, <3>1, ApplyRowMoves DEF Same
  <2>. QED  BY <2>1
<1>18. CASE Commit(w)
  BY <1>18, CommitMoves DEF Same, Commit
<1>19. CASE Checkpoint(w)
  <2>1. me.pc = "checkpoint" /\ you.pc \in {"part", "state", "finish"}
    BY <1>19, CheckpointWork, FileKept DEF Checkpoint, Next, Work, Apply
  <2>2. Alone(w) /\ you.job = me.job
    BY <1>19, CheckpointMoves DEF Same
  <2>. QED  BY <2>1, <2>2
<1>. QED  BY <1>2, <1>3, <1>4, <1>5, <1>6, <1>7, <1>8, <1>9, <1>10, <1>11, <1>12, <1>13, <1>14, <1>15, <1>16,
     <1>17, <1>18, <1>19 DEF Validate, Apply

\* All that is not a step of a worker leaves the workers as they are.
LEMMA OthersKeepWorkers ==
  ASSUME [Next]_vars, ~(\E w \in Worker : Work(w) \/ Fault(w))
  PROVE  worker' = worker
<1>1. ASSUME NEW r \in Request, Serve(r) PROVE worker' = worker
  BY <1>1 DEF Serve, Create, UploadComplete, MarkUploaded, Confirm, Resume, ClaimConfirmed,
              Enqueue, Undo, Cancel, CancelIdle, CleanArtifacts, FlagCancelling
<1>2. ASSUME Stalled \/ PutFile \/ Pause \/ Sweep \/ Expire \/ Colleague PROVE worker' = worker
  BY <1>2 DEF Stalled, PutFile, Pause, Sweep, SweepList, SweepDelete, SweepMark, SweepStale,
              Expire, Colleague
<1>3. UNCHANGED vars => worker' = worker
  BY DEF vars
<1>. QED  BY <1>1, <1>2, <1>3 DEF Next

LEMMA QueuedStay ==
  ASSUME Typed, Queued, Reviewed, NEW w \in Worker, Validate(w) \/ Apply(w) \/ Throw(w)
  PROVE  Queued'
<1>1. /\ Alone(w) /\ worker'[w].job = worker[w].job
      /\ worker[w].pc # "idle" /\ worker'[w].pc # "idle" /\ jobs' = jobs
      /\ worker'[w].pc \in Validating \cup {"refuse"} =>
           worker[w].pc \in Validating \/ (worker[w].pc = "look" /\ ~row.prefix)
      /\ worker'[w].pc \in Committing \cup {"claimApply"} =>
           worker[w].pc \in Committing \cup {"look", "claimApply"}
      /\ worker'[w].pc \notin {"claim", "look"}
  BY StayMoves
<1>2. \A v \in Worker : worker'[v].job = worker[v].job /\ (worker'[v].pc = "idle" <=> worker[v].pc = "idle")
  BY <1>1 DEF Alone
<1>3. worker[w].pc = "look" => row.prefix
  BY <1>1 DEF Queued, Reviewed, Holds
<1>4. ASSUME NEW v \in Worker
      PROVE  /\ worker'[v].pc \in Validating \cup {"refuse"} => worker'[v].job = <<"validate", 0>>
             /\ worker'[v].pc \in Committing \cup {"look", "claimApply"} => worker'[v].job[1] # "validate"
  <2>1. CASE v = w
    BY <1>1, <1>3, <2>1 DEF Queued
  <2>2. CASE v # w
    BY <1>1, <2>2 DEF Queued, Alone
  <2>. QED  BY <2>1, <2>2
<1>. QED  BY <1>1, <1>2, <1>4 DEF Queued, Holds, Typed, IsJob

LEMMA QueuedTake ==
  ASSUME Typed, Queued, NEW w \in Worker, Take(w)
  PROVE  Queued'
<1>1. PICK j \in jobs :
        /\ j.state = "waiting" /\ worker'[w].job = j.id
        /\ jobs' = (jobs \ {j}) \cup {[j EXCEPT !.state = "active", !.owner = w]}
        /\ worker'[w].pc = IF j.id[1] = "validate" THEN "claim" ELSE "look"
        /\ Alone(w)
  BY TakeMoves
<1>. DEFINE k == [j EXCEPT !.state = "active", !.owner = w]
<1>2. k.id = j.id /\ k.state = "active" /\ k.owner = w
  BY DEF Typed, IsJob
<1>3. jobs' = (jobs \ {j}) \cup {k}
  BY <1>1
<1>. HIDE DEF k
<1>4. worker[w].pc = "idle" /\ j.owner = None /\ \A i \in jobs : i.owner # w
  BY <1>1, OwnerAssumption DEF Take, At, Queued
<1>5. \A i \in jobs' : i = k \/ (i \in jobs /\ i # j)
  BY <1>3
<1>6. \A i, l \in jobs' : i.id = l.id => i = l
  BY <1>1, <1>2, <1>5 DEF Queued
<1>7. ASSUME NEW v \in Worker, worker'[v].pc # "idle" PROVE \E i \in jobs' : i.id = worker'[v].job /\ i.owner = v
  <2>1. CASE v = w
    BY <1>1, <1>2, <1>3, <2>1
  <2>2. CASE v # w
    <3>1. worker'[v] = worker[v]
      BY <1>1, <2>2 DEF Alone
    <3>2. PICK i \in jobs : Holds(v, i)
      BY <1>7, <3>1 DEF Queued
    <3>3. i # j
      BY <1>4, <3>2, OwnerAssumption DEF Holds
    <3>. QED  BY <1>3, <3>1, <3>2, <3>3 DEF Holds
  <2>. QED  BY <2>1, <2>2
<1>8. ASSUME NEW i \in jobs', i.owner # None
      PROVE  i.state = "active" /\ worker'[i.owner].pc # "idle" /\ worker'[i.owner].job = i.id
  <2>1. CASE i = k
    BY <1>1, <1>2, <2>1
  <2>2. CASE i # k
    <3>1. i \in jobs /\ i.owner # w /\ i.owner \in Worker
      BY <1>4, <1>5, <1>8, <2>2 DEF Typed, IsJob
    <3>2. worker'[i.owner] = worker[i.owner]
      BY <1>1, <3>1 DEF Alone
    <3>. QED  BY <1>8, <3>1, <3>2 DEF Queued
  <2>. QED  BY <2>1, <2>2
<1>9. \A i \in jobs' : i.id[1] = "validate" => i.id = <<"validate", 0>>
  BY <1>1, <1>2, <1>5 DEF Queued
<1>10. ASSUME NEW v \in Worker
      PROVE  /\ worker'[v].pc \in Validating \cup {"refuse"} => worker'[v].job = <<"validate", 0>>
             /\ worker'[v].pc \in Committing \cup {"look", "claimApply"} => worker'[v].job[1] # "validate"
  <2>1. CASE v = w
    BY <1>1, <2>1 DEF Queued, Validating, Committing
  <2>2. CASE v # w
    BY <1>1, <2>2 DEF Queued, Alone
  <2>. QED  BY <2>1, <2>2
<1>. QED  BY <1>6, <1>7, <1>8, <1>9, <1>10 DEF Queued, Holds

LEMMA QueuedLeave ==
  ASSUME Typed, Queued, NEW w \in Worker, Return(w) \/ GiveBack(w) \/ Crash(w)
  PROVE  Queued'
<1>1. /\ worker'[w].pc = "idle" /\ Alone(w)
      /\ \/ jobs' = jobs \ Held(w)
         \/ jobs' = (jobs \ Held(w)) \cup {[j EXCEPT !.owner = None] : j \in Held(w)}
         \/ jobs' = (jobs \ Held(w)) \cup
              {[j EXCEPT !.made = @ + 1, !.owner = None,
                         !.state = IF j.made + 1 < MaxAttempts THEN "waiting" ELSE "failed"] :
                 j \in Held(w)}
  BY LeaveMoves, FreshTypes, Zenon
<1>2. Held(w) = {j \in jobs : j.owner = w}
  BY OwnerAssumption DEF Queued, Held
<1>3. \A i \in jobs' :
        \/ i \in jobs /\ i.owner # w
        \/ i.owner = None /\ \E j \in jobs : j.owner = w /\ i.id = j.id /\ i \notin jobs
  <2>0. \A j \in Held(w) : j \in jobs /\ j.owner = w /\ j.owner # None
    BY <1>2, OwnerAssumption
  <2>1. CASE jobs' = jobs \ Held(w)
    BY <1>2, <2>1
  <2>2. CASE jobs' = (jobs \ Held(w)) \cup {[j EXCEPT !.owner = None] : j \in Held(w)}
    <3>1. \A j \in Held(w) : [j EXCEPT !.owner = None].owner = None /\ [j EXCEPT !.owner = None].id = j.id
      BY <2>0 DEF Typed, IsJob
    <3>2. ASSUME NEW i \in jobs', i \in jobs PROVE i.owner # w
      BY <1>2, <2>0, <2>2, <3>1, <3>2, OwnerAssumption
    <3>. QED  BY <1>2, <2>0, <2>2, <3>1, <3>2
  <2>3. CASE jobs' = (jobs \ Held(w)) \cup
              {[j EXCEPT !.made = @ + 1, !.owner = None,
                         !.state = IF j.made + 1 < MaxAttempts THEN "waiting" ELSE "failed"] :
                 j \in Held(w)}
    <3>. DEFINE next(j) == [j EXCEPT !.made = @ + 1, !.owner = None,
                             !.state = IF j.made + 1 < MaxAttempts THEN "waiting" ELSE "failed"]
    <3>1. \A j \in Held(w) : next(j).owner = None /\ next(j).id = j.id
      BY <2>0 DEF Typed, IsJob
    <3>2. jobs' = (jobs \ Held(w)) \cup {next(j) : j \in Held(w)}
      BY <2>3, Zenon
    <3>. HIDE DEF next
    <3>3. ASSUME NEW i \in jobs', i \in jobs PROVE i.owner # w
      BY <1>2, <2>0, <3>1, <3>2, <3>3, OwnerAssumption
    <3>. QED  BY <1>2, <2>0, <3>1, <3>2, <3>3
  <2>. QED  BY <1>1, <2>1, <2>2, <2>3, Zenon
<1>4. \A i \in jobs : i.owner # w => i \in jobs'
  BY <1>1, <1>2, Zenon
<1>5. \A i, l \in jobs' : i.id = l.id => i = l
  <2>. SUFFICES ASSUME NEW i \in jobs', NEW l \in jobs', i.id = l.id PROVE i = l
    OBVIOUS
  <2>1. CASE i \in jobs /\ l \in jobs
    BY <2>1 DEF Queued
  <2>2. CASE i \in jobs /\ l \notin jobs
    <3>1. PICK j \in jobs : j.owner = w /\ l.id = j.id
      BY <1>3, <2>2
    <3>2. i = j /\ i.owner # w
      BY <1>3, <2>2, <3>1 DEF Queued
    <3>. QED  BY <3>1, <3>2
  <2>3. CASE i \notin jobs /\ l \in jobs
    <3>1. PICK j \in jobs : j.owner = w /\ i.id = j.id
      BY <1>3, <2>3
    <3>2. l = j /\ l.owner # w
      BY <1>3, <2>3, <3>1 DEF Queued
    <3>. QED  BY <3>1, <3>2
  <2>4. CASE i \notin jobs /\ l \notin jobs
    <3>0. PICK j \in jobs : Held(w) \subseteq {j}
      <4>1. PICK j \in jobs : j.owner = w
        BY <1>3, <2>4
      <4>2. \A m \in Held(w) : m = j
        BY <1>2, <4>1, OwnerAssumption DEF Queued
      <4>. QED  BY <4>2
    <3>1. CASE jobs' = jobs \ Held(w)
      BY <2>4, <3>1
    <3>2. CASE jobs' = (jobs \ Held(w)) \cup {[m EXCEPT !.owner = None] : m \in Held(w)}
      BY <2>4, <3>0, <3>2
    <3>3. CASE jobs' = (jobs \ Held(w)) \cup
              {[m EXCEPT !.made = @ + 1, !.owner = None,
                         !.state = IF m.made + 1 < MaxAttempts THEN "waiting" ELSE "failed"] :
                 m \in Held(w)}
      <4>. DEFINE next(m) == [m EXCEPT !.made = @ + 1, !.owner = None,
                             !.state = IF m.made + 1 < MaxAttempts THEN "waiting" ELSE "failed"]
      <4>1. jobs' = (jobs \ Held(w)) \cup {next(m) : m \in Held(w)}
        BY <3>3, Zenon
      <4>. HIDE DEF next
      <4>. QED  BY <2>4, <3>0, <4>1
    <3>. QED  BY <1>1, <3>1, <3>2, <3>3, Zenon
  <2>. QED  BY <2>1, <2>2, <2>3, <2>4
<1>6. ASSUME NEW v \in Worker, worker'[v].pc # "idle"
      PROVE  \E i \in jobs' : i.id = worker'[v].job /\ i.owner = v
  <2>1. v # w /\ worker'[v] = worker[v]
    BY <1>1, <1>6 DEF Alone
  <2>2. PICK i \in jobs : Holds(v, i)
    BY <1>6, <2>1 DEF Queued
  <2>. QED  BY <1>4, <2>1, <2>2 DEF Holds
<1>7. ASSUME NEW i \in jobs', i.owner # None
      PROVE  i.state = "active" /\ worker'[i.owner].pc # "idle" /\ worker'[i.owner].job = i.id
  <2>1. i \in jobs /\ i.owner # w /\ i.owner \in Worker
    BY <1>3, <1>7 DEF Typed, IsJob
  <2>2. worker'[i.owner] = worker[i.owner]
    BY <1>1, <2>1 DEF Alone
  <2>. QED  BY <1>7, <2>1, <2>2 DEF Queued
<1>8. \A i \in jobs' : i.id[1] = "validate" => i.id = <<"validate", 0>>
  <2>. SUFFICES ASSUME NEW i \in jobs' PROVE \E j \in jobs : i.id = j.id
    BY DEF Queued
  <2>. QED  BY <1>3
<1>9. ASSUME NEW v \in Worker
      PROVE  /\ worker'[v].pc \in Validating \cup {"refuse"} => worker'[v].job = <<"validate", 0>>
             /\ worker'[v].pc \in Committing \cup {"look", "claimApply"} => worker'[v].job[1] # "validate"
  <2>1. CASE v = w
    BY <1>1, <2>1 DEF Validating, Committing
  <2>2. CASE v # w
    BY <1>1, <2>2 DEF Queued, Alone
  <2>. QED  BY <2>1, <2>2
<1>. QED  BY <1>5, <1>6, <1>7, <1>8, <1>9 DEF Queued, Holds

LEMMA QueuedElse ==
  ASSUME Typed, Queued, Asked, worker' = worker,
         jobs' = jobs \/ Stalled \/ \E r \in Request : Enqueue(r) /\ jobs' = Added(JobId(r))
  PROVE  Queued'
<1>1. CASE jobs' = jobs
  BY <1>1 DEF Queued, Holds
<1>2. CASE Stalled
  <2>. DEFINE end(j) == IF j.stalls + 1 > MaxStalledCount THEN "failed" ELSE "waiting"
  <2>1. PICK j \in jobs :
          /\ j.owner = None
          /\ jobs' = (jobs \ {j}) \cup {[j EXCEPT !.stalls = @ + 1, !.state = end(j)]}
    BY <1>2 DEF Stalled
  <2>. DEFINE k == [j EXCEPT !.stalls = @ + 1, !.state = end(j)]
  <2>2. k.id = j.id /\ k.owner = None
    BY <2>1 DEF Typed, IsJob
  <2>3. jobs' = (jobs \ {j}) \cup {k}
    BY <2>1
  <2>. HIDE DEF k
  <2>4. \A i, l \in jobs' : i.id = l.id => i = l
    BY <2>1, <2>2, <2>3 DEF Queued
  <2>5. \A v \in Worker : worker[v].pc # "idle" => \E i \in jobs' : Holds(v, i)
    BY <2>1, <2>3, OwnerAssumption DEF Queued, Holds
  <2>. QED  BY <2>1, <2>2, <2>3, <2>4, <2>5 DEF Queued, Holds
<1>3. CASE \E r \in Request : Enqueue(r) /\ jobs' = Added(JobId(r))
  <2>1. PICK r \in Request : Enqueue(r) /\ jobs' = Added(JobId(r))
    BY <1>3
  <2>2. CASE jobs' = jobs
    BY <1>1, <2>2
  <2>3. CASE jobs' # jobs
    <3>. DEFINE k == [id |-> JobId(r), state |-> "waiting", made |-> 0, stalls |-> 0, owner |-> None]
    <3>1. jobs' = jobs \cup {k} /\ ~\E j \in jobs : j.id = JobId(r)
      BY <2>1, <2>3 DEF Added
    <3>2. JobId(r)[1] = "validate" => JobId(r) = <<"validate", 0>>
      <4>1. request[r].op \in {"upload", "confirm", "resume"}
        BY <2>1 DEF Enqueue, Reached, Asked
      <4>2. JobId(r) \in {<<"validate", 0>>, <<"apply", 0>>, <<"resume", request[r].seen.last>>}
        BY <4>1 DEF JobId
      <4>. QED  BY <4>2
    <3>3. k.id = JobId(r) /\ k.owner = None
      OBVIOUS
    <3>. HIDE DEF k
    <3>4. \A i, l \in jobs' : i.id = l.id => i = l
      BY <3>1, <3>3 DEF Queued
    <3>5. \A v \in Worker : worker[v].pc # "idle" => \E i \in jobs' : Holds(v, i)
      BY <3>1 DEF Queued
    <3>. QED  BY <3>1, <3>2, <3>3, <3>4, <3>5 DEF Queued, Holds
  <2>. QED  BY <2>2, <2>3
<1>. QED  BY <1>1, <1>2, <1>3

LEMMA QueuedStep ==
  ASSUME Typed, Queued, Reviewed, Asked, [Next]_vars
  PROVE  Queued'
<1>1. CASE \E w \in Worker : Validate(w) \/ Apply(w) \/ Throw(w)
  BY <1>1, QueuedStay
<1>2. CASE \E w \in Worker : Take(w)
  BY <1>2, QueuedTake
<1>3. CASE \E w \in Worker : Return(w) \/ GiveBack(w) \/ Crash(w)
  BY <1>3, QueuedLeave
<1>4. CASE ~(\E w \in Worker : Work(w) \/ Fault(w))
  <2>1. worker' = worker
    BY <1>4, OthersKeepWorkers
  <2>2. jobs' = jobs \/ Stalled \/ \E r \in Request : Enqueue(r) /\ jobs' = Added(JobId(r))
    <3>1. \A w \in Worker : ~Take(w) /\ ~Return(w) /\ ~GiveBack(w) /\ ~Crash(w)
      BY <1>4 DEF Work, Fault
    <3>. QED  BY <3>1, JobMoves, Zenon
  <2>. QED  BY <2>1, <2>2, QueuedElse
<1>. QED  BY <1>1, <1>2, <1>3, <1>4 DEF Work, Fault

LEMMA OthersKeepRequests ==
  ASSUME [Next]_vars, ~(\E r \in Request : Serve(r))
  PROVE  request' = request
<1>1. ASSUME NEW w \in Worker, Work(w) \/ Fault(w) PROVE request' = request
  <2>1. CASE Validate(w)
    BY <2>1 DEF Validate, ClaimValidation, Parse, ParseNothing, Refuse, Classify,
            PlanDepartments, Stage, Ready, Abandon, Discard
  <2>2. CASE Apply(w)
    BY <2>2, Zenon DEF Apply, Look, ClaimApply, ResolveDepartment, Resolved, ReadPart, ReadState,
            Halt, Park, ApplyRow, Commit, Checkpoint, Finish, Late
  <2>3. CASE Take(w) \/ Return(w) \/ GiveBack(w) \/ Fault(w)
    BY <2>3 DEF Take, Return, GiveBack, Fault, Throw, Crash
  <2>. QED  BY <1>1, <2>1, <2>2, <2>3 DEF Work
<1>2. ASSUME Stalled \/ PutFile \/ Pause \/ Sweep \/ Expire \/ Colleague PROVE request' = request
  BY <1>2 DEF Stalled, PutFile, Pause, Sweep, SweepList, SweepDelete, SweepMark, SweepStale,
              Expire, Colleague
<1>3. UNCHANGED vars => request' = request
  BY DEF vars
<1>. QED  BY <1>1, <1>2, <1>3 DEF Next

LEMMA AskedStep ==
  ASSUME Typed, Asked, [Next]_vars
  PROVE  Asked'
<1>1. ASSUME request' = request PROVE Asked'
  BY <1>1 DEF Asked
<1>2. ASSUME NEW r \in Request, Serve(r) PROVE Asked'
  <2>. DEFINE me == request[r]
              you == request'[r]
              OK(c) == /\ c.pc = "mark" => c.op = "upload"
                       /\ c.pc = "claim" => \/ c.op = "confirm" /\ c.seen.status = "READY_FOR_REVIEW"
                                            \/ c.op = "resume" /\ c.seen.status = "PAUSED"
                       /\ c.pc \in {"add", "undo"} => c.op \in {"upload", "confirm", "resume"}
  <2>1. AloneAt(r)
    BY <1>2, ServeTyped
  <2>2. ASSUME Answer(r) PROVE OK(you)
    BY <2>2, AnswerMoves, FreshTypes DEF IdleRequest
  <2>3. ASSUME NEW pc, Continue(r, pc), pc = "clean" \/ (pc \in {"add", "undo"} /\ me.pc \in {"mark", "claim", "add"})
        PROVE  OK(you)
    <3>1. you = [pc |-> pc, op |-> me.op, create |-> me.create, seen |-> me.seen]
      BY <2>3, ContinueMoves
    <3>2. you.pc = pc /\ you.op = me.op
      BY <3>1
    <3>3. me.pc \in {"mark", "claim", "add"} => me.op \in {"upload", "confirm", "resume"}
      BY DEF Asked
    <3>. QED  BY <2>3, <3>2, <3>3
  <2>4. ASSUME NEW op, NEW pc, NEW create, Enter(r, op, pc, create)
        PROVE  you.pc = pc /\ you.op = op /\ you.seen.status = row.status
    <3>1. you = [pc |-> pc, op |-> op, create |-> create, seen |-> Glance(row)]
      BY <2>4, EnterMoves
    <3>. QED  BY <3>1 DEF Glance
  <2>5. CASE Create(r)
    BY <1>1, <2>5 DEF Create
  <2>6. CASE UploadComplete(r)
    <3>1. you.pc = "mark" /\ you.op = "upload"
      BY <2>4, <2>6 DEF UploadComplete
    <3>. QED  BY <2>1, <3>1 DEF Asked, AloneAt
  <2>7. CASE Confirm(r)
    <3>1. you.pc = "claim" /\ you.op = "confirm" /\ you.seen.status = "READY_FOR_REVIEW"
      BY <2>4, <2>7 DEF Confirm
    <3>. QED  BY <2>1, <3>1 DEF Asked, AloneAt
  <2>8. CASE Resume(r)
    <3>1. you.pc = "claim" /\ you.op = "resume" /\ you.seen.status = "PAUSED"
      BY <2>4, <2>8 DEF Resume
    <3>. QED  BY <2>1, <3>1 DEF Asked, AloneAt
  <2>9. CASE Cancel(r)
    <3>1. you.pc \in {"cancel", "flag"}
      BY <2>4, <2>9 DEF Cancel
    <3>. QED  BY <2>1, <3>1 DEF Asked, AloneAt
  <2>10. CASE \/ MarkUploaded(r) \/ ClaimConfirmed(r) \/ Enqueue(r) \/ Undo(r) \/ CancelIdle(r)
              \/ CleanArtifacts(r) \/ FlagCancelling(r)
    <3>1. \/ Answer(r)
          \/ Continue(r, "add") /\ me.pc \in {"mark", "claim"}
          \/ Continue(r, "undo") /\ me.pc = "add"
          \/ Continue(r, "clean")
      BY <2>10, Zenon DEF MarkUploaded, ClaimConfirmed, Enqueue, Undo, CancelIdle, CleanArtifacts,
                   FlagCancelling, Reached
    <3>. HIDE DEF OK
    <3>2. OK(you)
      BY <2>2, <2>3, <3>1
    <3>. QED  BY <2>1, <3>2 DEF Asked, AloneAt, OK
  <2>. QED  BY <1>2, <2>5, <2>6, <2>7, <2>8, <2>9, <2>10 DEF Serve
<1>. QED  BY <1>1, <1>2, OthersKeepRequests

\* What a step writes to the row: of its status, and of what the review found.
SameReview(r, s) ==
  /\ s.prefix = r.prefix /\ s.invalid = r.invalid /\ s.total = r.total
  /\ s.unchanged = r.unchanged /\ s.plan = r.plan

LEMMA RowMoves ==
  ASSUME Typed, Asked, [Next]_vars
  PROVE  \/ row' = row
         \/ /\ SameReview(row, row') /\ row'.last = row.last /\ row'.counts = row.counts
            /\ \/ row.status \in {"QUEUED", "VALIDATING"} /\ row'.status = "VALIDATING"
                    /\ \E w \in Worker : ClaimValidation(w)
               \/ row'.status = "FAILED" /\ \E w \in Worker : Refuse(w)
               \/ row.status = "CANCELLING" /\ row'.status \in Cancelled
                    /\ \E w \in Worker : Abandon(w) \/ Halt(w) \/ Late(w)
               \/ row.status = "APPLY_QUEUED" /\ row'.status = "APPLYING"
                    /\ \E w \in Worker : ClaimApply(w)
               \/ row.status = "APPLYING" /\ row'.status = "FAILED"
                    /\ \E w \in Worker : ResolveDepartment(w)
               \/ row.status = "PAUSING" /\ row'.status = "PAUSED" /\ \E w \in Worker : Park(w)
               \/ row'.status = "QUEUED" /\ \E r \in Request : MarkUploaded(r)
               \/ /\ row.status \in {"READY_FOR_REVIEW", "PAUSED"} /\ row'.status = "APPLY_QUEUED"
                  /\ \E r \in Request : ClaimConfirmed(r) /\ request[r].op \in {"confirm", "resume"}
               \/ \E r \in Request :
                    /\ Undo(r)
                    /\ \/ request[r].op = "upload" /\ row'.status = "AWAITING_UPLOAD"
                       \/ request[r].op = "confirm" /\ row'.status = "READY_FOR_REVIEW"
                       \/ request[r].op = "resume" /\ row.status = "APPLY_QUEUED"
                            /\ row'.status = "PAUSED"
               \/ row.status \in Idle /\ row'.status = "CANCELLED" /\ \E r \in Request : CancelIdle(r)
               \/ /\ row.status \in {"VALIDATING", "APPLYING", "PAUSING"} /\ row'.status = "CANCELLING"
                  /\ \E r \in Request : FlagCancelling(r)
               \/ row.status = "APPLYING" /\ row'.status = "PAUSING" /\ Pause
               \/ row.status = sweeper.seen /\ row'.status = "EXPIRED" /\ SweepMark
         \/ /\ row.status = "VALIDATING" /\ row'.status = "VALIDATING" /\ row'.total = Lines
            /\ row'.prefix = row.prefix /\ row'.invalid = row.invalid /\ row'.last = row.last
            /\ row'.counts = row.counts /\ \E w \in Worker : Parse(w)
         \/ /\ row.status = "VALIDATING" /\ row'.status = "READY_FOR_REVIEW" /\ row'.prefix
            /\ \E w \in Worker : Ready(w)
         \/ row'.status = row.status /\ SameReview(row, row') /\ \E w \in Worker : Checkpoint(w)
         \/ /\ row.status = "APPLYING" /\ row'.status \in Completed /\ SameReview(row, row')
            /\ row'.last = row.last /\ \E w \in Worker : Finish(w)
         \/ row.status = "ABSENT" /\ row' = [FreshRow EXCEPT !.status = "AWAITING_UPLOAD"]
<1>. DEFINE Same0 == SameReview(row, row') /\ row'.last = row.last /\ row'.counts = row.counts
<1>0. IsRow(row)
  BY DEF Typed
<1>1. ASSUME NEW from, NEW to \in Status, Flip(from, to)
      PROVE  row' = row \/ (row.status \in from /\ row'.status = to /\ Same0)
  <2>1. CASE row.status \in from
    BY <1>1, <2>1, Flipped DEF SameReview
  <2>2. CASE row.status \notin from
    BY <1>1, <2>2 DEF Flip
  <2>. QED  BY <2>1, <2>2
<1>2. ASSUME NEW to, row' = [row EXCEPT !.status = to] PROVE row'.status = to /\ Same0
  BY <1>0, <1>2 DEF IsRow, SameReview
<1>3. ASSUME NEW to, NEW create, row' = [row EXCEPT !.status = to, !.createMissing = create]
      PROVE  row'.status = to /\ Same0
  BY <1>0, <1>3 DEF IsRow, SameReview
<1>4. ASSUME NEW w \in Worker, Validate(w)
      PROVE  \/ row' = row
             \/ /\ Same0
                /\ \/ row.status \in {"QUEUED", "VALIDATING"} /\ row'.status = "VALIDATING"
                        /\ ClaimValidation(w)
                   \/ row'.status = "FAILED" /\ Refuse(w)
                   \/ row.status = "CANCELLING" /\ row'.status \in Cancelled /\ Abandon(w)
             \/ /\ row.status = "VALIDATING" /\ row'.status = "VALIDATING" /\ row'.total = Lines
                /\ row'.prefix = row.prefix /\ row'.invalid = row.invalid /\ row'.last = row.last
                /\ row'.counts = row.counts /\ Parse(w)
             \/ /\ row.status = "VALIDATING" /\ row'.status = "READY_FOR_REVIEW" /\ row'.prefix
                /\ Ready(w)
  <2>1. CASE ClaimValidation(w)
    BY <1>1, <2>1, Statuses DEF ClaimValidation
  <2>2. CASE Refuse(w)
    BY <1>2, <2>2 DEF Refuse
  <2>3. CASE Abandon(w)
    <3>1. Flip({"CANCELLING"}, "CANCELLED") /\ "CANCELLED" \in Cancelled
      BY <2>3 DEF Abandon, Cancelled
    <3>. QED  BY <1>1, <2>3, <3>1, Statuses
  <2>4. CASE Parse(w)
    <3>1. row' = row \/ (row.status = "VALIDATING" /\ row' = [row EXCEPT !.total = Lines])
      BY <2>4 DEF Parse, Lines
    <3>. QED  BY <1>0, <2>4, <3>1 DEF IsRow
  <2>5. CASE Ready(w)
    <3>. DEFINE me == worker[w]
                wrong == Cardinality(me.wrong)
                same == Cardinality({g \in me.good : g.kind = "UNCHANGED"})
                plan == me.seen.plan
    <3>1. \/ row' = row
          \/ /\ row.status = "VALIDATING"
             /\ row' = [row EXCEPT !.status = "READY_FOR_REVIEW", !.prefix = TRUE, !.total = Lines,
                                   !.invalid = wrong, !.unchanged = same, !.plan = plan]
      BY <2>5 DEF Ready, Lines
    <3>. HIDE DEF wrong, same, plan
    <3>. QED  BY <1>0, <2>5, <3>1 DEF IsRow
  <2>6. CASE ParseNothing(w) \/ Classify(w) \/ PlanDepartments(w) \/ Stage(w) \/ Discard(w)
    BY <2>6 DEF ParseNothing, Classify, PlanDepartments, Stage, Discard
  <2>. QED  BY <1>4, <2>1, <2>2, <2>3, <2>4, <2>5, <2>6 DEF Validate
<1>5. ASSUME NEW w \in Worker, Apply(w)
      PROVE  \/ row' = row
             \/ /\ Same0
                /\ \/ row.status = "CANCELLING" /\ row'.status \in Cancelled /\ (Halt(w) \/ Late(w))
                   \/ row.status = "APPLY_QUEUED" /\ row'.status = "APPLYING" /\ ClaimApply(w)
                   \/ row.status = "APPLYING" /\ row'.status = "FAILED" /\ ResolveDepartment(w)
                   \/ row.status = "PAUSING" /\ row'.status = "PAUSED" /\ Park(w)
             \/ row'.status = row.status /\ SameReview(row, row') /\ Checkpoint(w)
             \/ /\ row.status = "APPLYING" /\ row'.status \in Completed /\ SameReview(row, row')
                /\ row'.last = row.last /\ Finish(w)
  <2>1. CASE ClaimApply(w)
    BY <1>1, <2>1, Statuses DEF ClaimApply
  <2>2. CASE Park(w)
    BY <1>1, <2>2, Statuses DEF Park
  <2>3. CASE Halt(w) \/ Late(w)
    <3>1. /\ Flip({"CANCELLING"}, "CANCELLED_PARTIAL") \/ Flip({"CANCELLING"}, "CANCELLED")
          /\ {"CANCELLED", "CANCELLED_PARTIAL"} = Cancelled
      BY <2>3 DEF Halt, Late, Cancelled
    <3>. QED  BY <1>1, <2>3, <3>1, Statuses
  <2>4. CASE ResolveDepartment(w)
    <3>1. Flip({"APPLYING"}, "FAILED") \/ row' = row
      BY <2>4 DEF ResolveDepartment, ResolveKnown, ResolveRefused, ResolveCreate
    <3>. QED  BY <1>1, <2>4, <3>1, Statuses
  <2>5. CASE Checkpoint(w)
    <3>. DEFINE last == LastRow(worker[w].batch)
                counts == worker[w].counts
    <3>1. row' = [row EXCEPT !.last = last, !.counts = counts]
      BY <2>5 DEF Checkpoint
    <3>. HIDE DEF last, counts
    <3>. QED  BY <1>0, <2>5, <3>1 DEF IsRow, SameReview
  <2>6. CASE Finish(w)
    <3>. DEFINE me == worker[w]
                end == IF me.counts.failed > 0 THEN "COMPLETED_WITH_ERRORS" ELSE "COMPLETED"
                counts == [me.counts EXCEPT !.processed = row.counts.processed]
    <3>1. row' = row \/ (row.status = "APPLYING" /\ row' = [row EXCEPT !.status = end, !.counts = counts])
      BY <2>6 DEF Finish
    <3>2. end \in Completed
      BY DEF Completed
    <3>. HIDE DEF end, counts
    <3>. QED  BY <1>0, <2>6, <3>1, <3>2 DEF IsRow, SameReview
  <2>7. CASE \/ Look(w) \/ Resolved(w) \/ ReadPart(w) \/ ReadState(w) \/ ApplyRow(w) \/ Commit(w)
    <3>1. row' = row
      BY <2>7, Zenon DEF Look, Resolved, ReadPart, ReadState, ApplyRow, Commit
    <3>. QED  BY <3>1
  <2>. QED  BY <1>5, <2>1, <2>2, <2>3, <2>4, <2>5, <2>6, <2>7 DEF Apply
<1>6. ASSUME NEW w \in Worker, Take(w) \/ Return(w) \/ GiveBack(w) \/ Fault(w) PROVE row' = row
  BY <1>6 DEF Take, Return, GiveBack, Fault, Throw, Crash
<1>7. ASSUME NEW r \in Request, Serve(r)
      PROVE  \/ row' = row
             \/ /\ Same0
                /\ \/ row'.status = "QUEUED" /\ MarkUploaded(r)
                   \/ /\ row.status \in {"READY_FOR_REVIEW", "PAUSED"} /\ row'.status = "APPLY_QUEUED"
                      /\ ClaimConfirmed(r) /\ request[r].op \in {"confirm", "resume"}
                   \/ /\ Undo(r)
                      /\ \/ request[r].op = "upload" /\ row'.status = "AWAITING_UPLOAD"
                         \/ request[r].op = "confirm" /\ row'.status = "READY_FOR_REVIEW"
                         \/ request[r].op = "resume" /\ row.status = "APPLY_QUEUED"
                              /\ row'.status = "PAUSED"
                   \/ row.status \in Idle /\ row'.status = "CANCELLED" /\ CancelIdle(r)
                   \/ /\ row.status \in {"VALIDATING", "APPLYING", "PAUSING"}
                      /\ row'.status = "CANCELLING" /\ FlagCancelling(r)
             \/ row.status = "ABSENT" /\ row' = [FreshRow EXCEPT !.status = "AWAITING_UPLOAD"]
  <2>. DEFINE me == request[r]
  <2>1. CASE Create(r)
    BY <2>1 DEF Create
  <2>2. CASE MarkUploaded(r)
    BY <1>2, <2>2 DEF MarkUploaded
  <2>3. CASE ClaimConfirmed(r)
    <3>. DEFINE create == IF me.op = "confirm" THEN me.create ELSE row.createMissing
    <3>1. /\ me.op \in {"confirm", "resume"} /\ me.seen.status \in {"READY_FOR_REVIEW", "PAUSED"}
          /\ \/ row' = row
             \/ /\ row.status = me.seen.status
                /\ row' = [row EXCEPT !.status = "APPLY_QUEUED", !.createMissing = create]
      BY <2>3 DEF ClaimConfirmed, Asked, Reached
    <3>. HIDE DEF create
    <3>. QED  BY <1>3, <2>3, <3>1
  <2>4. CASE Undo(r)
    <3>. DEFINE create == me.seen.createMissing
    <3>1. \/ me.op = "upload" /\ row' = [row EXCEPT !.status = "AWAITING_UPLOAD"]
          \/ me.op = "confirm" /\ row' = [row EXCEPT !.status = "READY_FOR_REVIEW", !.createMissing = create]
          \/ me.op = "resume" /\ row.status = "APPLY_QUEUED" /\ row' = [row EXCEPT !.status = "PAUSED"]
          \/ row' = row
      <4>1. me.op \in {"upload", "confirm", "resume"}
        BY <2>4 DEF Undo, Reached, Asked
      <4>2. CASE me.op = "upload"
        BY <2>4, <4>2 DEF Undo
      <4>3. CASE me.op = "confirm"
        BY <2>4, <4>3 DEF Undo
      <4>4. CASE me.op = "resume"
        BY <2>4, <4>4 DEF Undo
      <4>. QED  BY <4>1, <4>2, <4>3, <4>4
    <3>. HIDE DEF create
    <3>. QED  BY <1>2, <1>3, <2>4, <3>1
  <2>5. CASE CancelIdle(r)
    BY <1>1, <2>5, Statuses DEF CancelIdle
  <2>6. CASE FlagCancelling(r)
    BY <1>1, <2>6, Statuses DEF FlagCancelling
  <2>7. CASE UploadComplete(r) \/ Confirm(r) \/ Resume(r) \/ Enqueue(r) \/ Cancel(r) \/ CleanArtifacts(r)
    <3>1. row' = row
      BY <2>7 DEF UploadComplete, Confirm, Resume, Enqueue, Cancel, CleanArtifacts
    <3>. QED  BY <3>1
  <2>. QED  BY <1>7, <2>1, <2>2, <2>3, <2>4, <2>5, <2>6, <2>7 DEF Serve
<1>8. ASSUME Pause PROVE row.status = "APPLYING" /\ row'.status = "PAUSING" /\ Same0
  <2>1. row' = [row EXCEPT !.status = "PAUSING"] /\ row.status = "APPLYING"
    BY <1>8 DEF Pause, Flip
  <2>. QED  BY <1>2, <2>1
<1>9. ASSUME SweepMark
      PROVE  row' = row \/ (row.status = sweeper.seen /\ row'.status = "EXPIRED" /\ Same0)
  <2>1. Flip({sweeper.seen}, "EXPIRED")
    BY <1>9 DEF SweepMark
  <2>. QED  BY <1>1, <2>1, Statuses
<1>10. ASSUME Stalled \/ PutFile \/ SweepList \/ SweepDelete \/ SweepStale \/ Expire \/ Colleague
       PROVE  row' = row
  BY <1>10 DEF Stalled, PutFile, SweepList, SweepDelete, SweepStale, Expire, Colleague
<1>11. UNCHANGED vars => row' = row
  BY DEF vars
<1>12. CASE \E w \in Worker : Work(w) \/ Fault(w)
  <2>1. PICK w \in Worker : Work(w) \/ Fault(w)
    BY <1>12
  <2>2. CASE Validate(w)
    BY <1>4, <2>2
  <2>3. CASE Apply(w)
    BY <1>5, <2>3
  <2>. QED  BY <1>6, <2>1, <2>2, <2>3 DEF Work
<1>13. CASE \E r \in Request : Serve(r)
  BY <1>7, <1>13
<1>14. CASE ~(\E w \in Worker : Work(w) \/ Fault(w)) /\ ~(\E r \in Request : Serve(r))
  BY <1>8, <1>9, <1>10, <1>11, <1>14 DEF Next, Sweep
<1>. QED  BY <1>12, <1>13, <1>14

LEMMA JobIds ==
  ASSUME Typed, [Next]_vars, NEW j \in jobs'
  PROVE  \/ \E i \in jobs : i.id = j.id
         \/ \E r \in Request : Enqueue(r) /\ j.id = JobId(r)
<1>1. CASE jobs' = jobs
  BY <1>1
<1>2. CASE \E w \in Worker : Take(w)
  <2>1. PICK w \in Worker, i \in jobs : jobs' = (jobs \ {i}) \cup {[i EXCEPT !.state = "active", !.owner = w]}
    BY <1>2, TakeMoves
  <2>2. IsJob(i)
    BY DEF Typed
  <2>3. [i EXCEPT !.state = "active", !.owner = w].id = i.id
    BY <2>2 DEF IsJob
  <2>. QED  BY <2>1, <2>3
<1>3. CASE Stalled
  <2>1. PICK i \in jobs :
          jobs' = (jobs \ {i}) \cup
            {[i EXCEPT !.stalls = @ + 1,
                       !.state = IF i.stalls + 1 > MaxStalledCount THEN "failed" ELSE "waiting"]}
    BY <1>3 DEF Stalled
  <2>. DEFINE state == IF i.stalls + 1 > MaxStalledCount THEN "failed" ELSE "waiting"
  <2>2. IsJob(i)
    BY DEF Typed
  <2>3. [i EXCEPT !.stalls = @ + 1, !.state = state].id = i.id
    BY <2>2 DEF IsJob
  <2>. QED  BY <2>1, <2>3
<1>4. CASE \E r \in Request : Enqueue(r) /\ jobs' = Added(JobId(r))
  <2>1. PICK r \in Request : Enqueue(r) /\ jobs' = Added(JobId(r))
    BY <1>4
  <2>. DEFINE id == JobId(r)
  <2>2. jobs' = jobs \/ jobs' = jobs \cup {[id |-> id, state |-> "waiting", made |-> 0, stalls |-> 0, owner |-> None]}
    BY <2>1 DEF Added
  <2>3. [id |-> id, state |-> "waiting", made |-> 0, stalls |-> 0, owner |-> None].id = id
    OBVIOUS
  <2>. HIDE DEF id
  <2>4. j \in jobs \/ j.id = id
    BY <2>2, <2>3
  <2>. QED  BY <2>1, <2>4 DEF id
<1>5. CASE \E w \in Worker :
              /\ Return(w) \/ GiveBack(w) \/ Crash(w)
              /\ \/ jobs' = jobs \ Held(w)
                 \/ jobs' = (jobs \ Held(w)) \cup {[i EXCEPT !.owner = None] : i \in Held(w)}
                 \/ jobs' = (jobs \ Held(w)) \cup
                      {[i EXCEPT !.made = @ + 1, !.owner = None,
                                 !.state = IF i.made + 1 < MaxAttempts THEN "waiting" ELSE "failed"] :
                         i \in Held(w)}
  <2>1. PICK w \in Worker :
              \/ jobs' = jobs \ Held(w)
              \/ jobs' = (jobs \ Held(w)) \cup {[i EXCEPT !.owner = None] : i \in Held(w)}
              \/ jobs' = (jobs \ Held(w)) \cup
                   {[i EXCEPT !.made = @ + 1, !.owner = None,
                              !.state = IF i.made + 1 < MaxAttempts THEN "waiting" ELSE "failed"] :
                      i \in Held(w)}
    BY <1>5
  <2>2. ASSUME NEW i \in Held(w), NEW m, NEW s
        PROVE  /\ i \in jobs /\ [i EXCEPT !.owner = None].id = i.id
               /\ [i EXCEPT !.made = m, !.owner = None, !.state = s].id = i.id
    <3>1. i \in jobs /\ IsJob(i)
      BY DEF Typed, Held
    <3>. QED  BY <3>1 DEF IsJob
  <2>3. CASE j \in jobs
    BY <2>3
  <2>4. CASE \E i \in Held(w) : j = [i EXCEPT !.owner = None]
    BY <2>2, <2>4
  <2>5. CASE \E i \in Held(w) :
                j = [i EXCEPT !.made = @ + 1, !.owner = None,
                              !.state = IF i.made + 1 < MaxAttempts THEN "waiting" ELSE "failed"]
    BY <2>2, <2>5
  <2>. QED  BY <2>1, <2>3, <2>4, <2>5, Zenon
<1>. QED  BY <1>1, <1>2, <1>3, <1>4, <1>5, JobMoves

LEMMA OpMoves ==
  ASSUME Typed, Asked, [Next]_vars, NEW r \in Request, request'[r].op \in {"confirm", "resume"}
  PROVE  request[r].op \in {"confirm", "resume"} \/ Confirm(r) \/ Resume(r)
<1>. DEFINE me == request[r]
            you == request'[r]
            OK == me.op \in {"confirm", "resume"} \/ Confirm(r) \/ Resume(r)
<1>1. CASE Serve(r)
  <2>1. ~Answer(r)
    BY AnswerMoves DEF IdleRequest
  <2>2. ASSUME NEW pc, Continue(r, pc) PROVE OK
    <3>1. you = [pc |-> pc, op |-> me.op, create |-> me.create, seen |-> me.seen]
      BY <2>2, ContinueMoves
    <3>2. you.op = me.op
      BY <3>1
    <3>. QED  BY <3>2
  <2>3. ASSUME NEW op \in {"upload", "cancel"}, NEW pc, NEW create, Enter(r, op, pc, create) PROVE FALSE
    <3>1. you = [pc |-> pc, op |-> op, create |-> create, seen |-> Glance(row)]
      BY <2>3, EnterMoves
    <3>2. you.op = op
      BY <3>1
    <3>. QED  BY <3>2
  <2>4. CASE Create(r)
    BY <2>4 DEF Create
  <2>5. CASE UploadComplete(r)
    BY <2>3, <2>5 DEF UploadComplete
  <2>6. CASE Confirm(r) \/ Resume(r)
    BY <2>6
  <2>7. CASE Cancel(r)
    <3>1. \E pc : Enter(r, "cancel", pc, FALSE)
      BY <2>7 DEF Cancel
    <3>. QED  BY <2>3, <3>1
  <2>8. CASE \/ MarkUploaded(r) \/ ClaimConfirmed(r) \/ Enqueue(r) \/ Undo(r) \/ CancelIdle(r)
             \/ CleanArtifacts(r) \/ FlagCancelling(r)
    <3>1. Answer(r) \/ Continue(r, "add") \/ Continue(r, "undo") \/ Continue(r, "clean")
      BY <2>8, Zenon DEF MarkUploaded, ClaimConfirmed, Enqueue, Undo, CancelIdle, CleanArtifacts,
                   FlagCancelling
    <3>. HIDE DEF OK
    <3>2. OK
      BY <2>1, <2>2, <3>1
    <3>. QED  BY <3>2 DEF OK
  <2>. QED  BY <1>1, <2>4, <2>5, <2>6, <2>7, <2>8 DEF Serve
<1>2. CASE ~Serve(r)
  <2>1. CASE \E s \in Request : Serve(s)
    <3>1. PICK s \in Request : Serve(s)
      BY <2>1
    <3>2. s # r /\ AloneAt(s)
      BY <1>2, <3>1, ServeTyped
    <3>. QED  BY <3>2 DEF AloneAt
  <2>2. CASE request' = request
    BY <2>2
  <2>. QED  BY <2>1, <2>2, OthersKeepRequests
<1>. QED  BY <1>1, <1>2

LEMMA ReviewedStep ==
  ASSUME Typed, Reviewed, Asked, [Next]_vars
  PROVE  Reviewed'
<1>1. row.prefix => row'.prefix
  BY RowMoves DEF Reviewed, SameReview
<1>2. ASSUME NEW j \in jobs', j.id[1] # "validate" PROVE row'.prefix
  <2>1. CASE \E i \in jobs : i.id = j.id
    BY <1>1, <1>2, <2>1 DEF Reviewed
  <2>2. CASE \E r \in Request : Enqueue(r) /\ j.id = JobId(r)
    <3>1. PICK r \in Request : Enqueue(r) /\ j.id = JobId(r)
      BY <2>2
    <3>2. request[r].op \in {"upload", "confirm", "resume"}
      BY <3>1 DEF Enqueue, Reached, Asked
    <3>3. request[r].op # "upload"
      BY <1>2, <3>1 DEF JobId
    <3>. QED  BY <1>1, <3>2, <3>3 DEF Reviewed
  <2>. QED  BY <2>1, <2>2, JobIds
<1>3. ASSUME NEW r \in Request, request'[r].op \in {"confirm", "resume"} PROVE row'.prefix
  BY <1>1, <1>3, OpMoves DEF Reviewed, Confirm, Resume
<1>4. row'.status \in {"READY_FOR_REVIEW", "APPLY_QUEUED", "APPLYING", "PAUSING", "PAUSED"} => row'.prefix
  <2>1. ASSUME NEW r \in Request, request[r].op \in {"confirm", "resume"} PROVE row'.prefix
    BY <1>1, <2>1 DEF Reviewed
  <2>. QED  BY <1>1, <2>1, RowMoves DEF Reviewed, SameReview, Cancelled, Completed, FreshRow
<1>5. row'.status = "ABSENT" => ~row'.prefix
  BY RowMoves DEF Reviewed, SameReview, Cancelled, Completed, FreshRow
<1>. QED  BY <1>2, <1>3, <1>4, <1>5 DEF Reviewed

------------------------------------------------------------------------------
(* As long as everything is in order.                                         *)

LEMMA OrderlyBefore ==
  ASSUME Typed, [Next]_vars, Orderly'
  PROVE  Orderly
<1>1. ASSUME NEW w \in Worker, Work(w) \/ Fault(w)
      PROVE  swept' = swept /\ (overtaken' = overtaken \/ ClaimApply(w))
  <2>1. CASE ClaimApply(w)
    BY <2>1 DEF ClaimApply, cleanup
  <2>2. CASE Validate(w)
    <3>1. outside' = outside
      BY <2>2, Zenon DEF Validate, ClaimValidation, Parse, ParseNothing, Refuse, Classify,
              PlanDepartments, Stage, Ready, Abandon, Discard
    <3>. QED  BY <3>1 DEF outside, cleanup
  <2>3. CASE Apply(w) /\ ~ClaimApply(w)
    <3>1. outside' = outside
      BY <2>3, Zenon DEF Apply, Look, ResolveDepartment, Resolved, ReadPart, ReadState,
              Halt, Park, ApplyRow, Commit, Checkpoint, Finish, Late
    <3>. QED  BY <3>1 DEF outside, cleanup
  <2>4. CASE Take(w) \/ Return(w) \/ GiveBack(w) \/ Fault(w)
    <3>1. outside' = outside
      BY <2>4, Zenon DEF Take, Return, GiveBack, Fault, Throw, Crash
    <3>. QED  BY <3>1 DEF outside, cleanup
  <2>. QED  BY <1>1, <2>1, <2>2, <2>3, <2>4 DEF Work
<1>2. ASSUME NEW r \in Request, Serve(r)
      PROVE  swept' = swept /\ (overtaken' = overtaken \/ MarkUploaded(r) \/ Undo(r))
  <2>1. CASE MarkUploaded(r) \/ Undo(r)
    BY <2>1 DEF MarkUploaded, Undo, cleanup
  <2>2. CASE ~MarkUploaded(r) /\ ~Undo(r)
    <3>1. outside' = outside
      BY <1>2, <2>2, Zenon DEF Serve, Create, UploadComplete, Confirm, Resume, ClaimConfirmed,
              Enqueue, Cancel, CancelIdle, CleanArtifacts, FlagCancelling
    <3>. QED  BY <3>1 DEF outside, cleanup
  <2>. QED  BY <2>1, <2>2
<1>3. ASSUME Stalled \/ PutFile \/ Pause \/ Sweep \/ Expire \/ Colleague
      PROVE  overtaken' = overtaken /\ (swept' = swept \/ SweepDelete)
  BY <1>3 DEF Stalled, PutFile, Pause, Sweep, SweepList, SweepMark, SweepStale, SweepDelete,
              Expire, Colleague, outside, cleanup
<1>4. UNCHANGED vars => overtaken' = overtaken /\ swept' = swept
  BY DEF vars, outside, cleanup
<1>5. swept' = FALSE /\ overtaken' = FALSE
  BY RestTyped DEF Orderly
<1>6. ASSUME NEW w \in Worker, ClaimApply(w) PROVE overtaken = FALSE
  BY <1>5, <1>6, ClaimApplyMoves DEF Typed
<1>7. ASSUME NEW r \in Request, MarkUploaded(r) \/ Undo(r) PROVE overtaken = FALSE
  BY <1>5, <1>7 DEF MarkUploaded, Undo, Typed
<1>8. ASSUME SweepDelete PROVE swept = FALSE
  BY <1>5, <1>8 DEF SweepDelete, Typed
<1>9. swept = FALSE /\ overtaken = FALSE
  BY <1>1, <1>2, <1>3, <1>4, <1>5, <1>6, <1>7, <1>8 DEF Next
<1>. QED  BY <1>9 DEF Orderly

LEMMA Exclusive ==
  ASSUME Queued, Reviewed
  PROVE  /\ \A v, w \in Worker :
              worker[v].pc \in Validating \cup {"refuse"} /\ worker[w].pc \in Validating \cup {"refuse"}
                => v = w
         /\ \A w \in Worker :
              worker[w].pc \in Committing \cup {"look", "claimApply"} => row.prefix
<1>1. ASSUME NEW w \in Worker, worker[w].pc # "idle"
      PROVE  \E j \in jobs : j.id = worker[w].job /\ j.owner = w
  BY <1>1 DEF Queued, Holds
<1>2. ASSUME NEW v \in Worker, NEW w \in Worker, worker[v].pc \in Validating \cup {"refuse"},
             worker[w].pc \in Validating \cup {"refuse"}
      PROVE  v = w
  <2>1. PICK i \in jobs : i.id = worker[v].job /\ i.owner = v
    BY <1>1, <1>2 DEF Validating
  <2>2. PICK j \in jobs : j.id = worker[w].job /\ j.owner = w
    BY <1>1, <1>2 DEF Validating
  <2>3. i.id = j.id
    BY <1>2, <2>1, <2>2 DEF Queued
  <2>. QED  BY <2>1, <2>2, <2>3 DEF Queued
<1>3. ASSUME NEW w \in Worker, worker[w].pc \in Committing \cup {"look", "claimApply"}
      PROVE  row.prefix
  <2>1. PICK j \in jobs : j.id = worker[w].job
    BY <1>1, <1>3 DEF Committing
  <2>2. worker[w].job[1] # "validate"
    BY <1>3 DEF Queued
  <2>. QED  BY <2>1, <2>2 DEF Reviewed
<1>. QED  BY <1>2, <1>3

\* How the status moves, and by whom, when nobody is overtaken.
LEMMA Lifecycle ==
  ASSUME Typed, Queued, Reviewed, Asked, Control, [Next]_vars, Orderly'
  PROVE  LET from == row.status to == row'.status IN
         \/ to = from /\ row'.prefix = row.prefix
         \/ from = "VALIDATING" /\ to = "READY_FOR_REVIEW" /\ \E w \in Worker : Ready(w)
         \/ from = "ABSENT" /\ to = "AWAITING_UPLOAD" /\ ~row'.prefix
         \/ /\ row'.prefix = row.prefix
            /\ \/ from = "QUEUED" /\ to = "VALIDATING"
               \/ from \in {"VALIDATING", "CANCELLING"} /\ to = "FAILED" /\ ~row.prefix
                    /\ \E w \in Worker : Refuse(w)
               \/ from = "CANCELLING" /\ to \in Cancelled
                    /\ \E w \in Worker : Abandon(w) \/ Halt(w) \/ Late(w)
               \/ from = "APPLY_QUEUED" /\ to = "APPLYING"
               \/ from = "APPLYING" /\ to = "FAILED" /\ \E w \in Worker : ResolveDepartment(w)
               \/ from = "PAUSING" /\ to = "PAUSED" /\ \E w \in Worker : Park(w)
               \/ from = "AWAITING_UPLOAD" /\ to = "QUEUED"
               \/ from \in {"READY_FOR_REVIEW", "PAUSED"} /\ to = "APPLY_QUEUED"
               \/ from = "QUEUED" /\ to = "AWAITING_UPLOAD"
               \/ from = "APPLY_QUEUED" /\ to \in {"READY_FOR_REVIEW", "PAUSED"}
               \/ from \in Idle /\ to = "CANCELLED"
               \/ from \in {"VALIDATING", "APPLYING", "PAUSING"} /\ to = "CANCELLING"
               \/ from = "APPLYING" /\ to = "PAUSING"
               \/ from \in Terminal /\ to = "EXPIRED"
               \/ from = "APPLYING" /\ to \in Completed /\ \E w \in Worker : Finish(w)
<1>. DEFINE from == row.status
            to == row'.status
            Fine ==
              \/ to = from /\ row'.prefix = row.prefix
              \/ from = "VALIDATING" /\ to = "READY_FOR_REVIEW" /\ \E w \in Worker : Ready(w)
              \/ from = "ABSENT" /\ to = "AWAITING_UPLOAD" /\ ~row'.prefix
              \/ /\ row'.prefix = row.prefix
                 /\ \/ from = "QUEUED" /\ to = "VALIDATING"
                    \/ from \in {"VALIDATING", "CANCELLING"} /\ to = "FAILED" /\ ~row.prefix
                         /\ \E w \in Worker : Refuse(w)
                    \/ from = "CANCELLING" /\ to \in Cancelled
                         /\ \E w \in Worker : Abandon(w) \/ Halt(w) \/ Late(w)
                    \/ from = "APPLY_QUEUED" /\ to = "APPLYING"
                    \/ from = "APPLYING" /\ to = "FAILED" /\ \E w \in Worker : ResolveDepartment(w)
                    \/ from = "PAUSING" /\ to = "PAUSED" /\ \E w \in Worker : Park(w)
                    \/ from = "AWAITING_UPLOAD" /\ to = "QUEUED"
                    \/ from \in {"READY_FOR_REVIEW", "PAUSED"} /\ to = "APPLY_QUEUED"
                    \/ from = "QUEUED" /\ to = "AWAITING_UPLOAD"
                    \/ from = "APPLY_QUEUED" /\ to \in {"READY_FOR_REVIEW", "PAUSED"}
                    \/ from \in Idle /\ to = "CANCELLED"
                    \/ from \in {"VALIDATING", "APPLYING", "PAUSING"} /\ to = "CANCELLING"
                    \/ from = "APPLYING" /\ to = "PAUSING"
                    \/ from \in Terminal /\ to = "EXPIRED"
                    \/ from = "APPLYING" /\ to \in Completed /\ \E w \in Worker : Finish(w)
<1>. SUFFICES Fine
  OBVIOUS
<1>1. CASE row' = row
  BY <1>1
<1>2. CASE SameReview(row, row') /\ \E r \in Request : MarkUploaded(r) \/ Undo(r)
  <2>1. PICK r \in Request : MarkUploaded(r) \/ Undo(r)
    BY <1>2
  <2>2. IsRow(row) /\ overtaken' = FALSE
    BY DEF Typed, Orderly
  <2>3. CASE MarkUploaded(r)
    <3>1. row' = [row EXCEPT !.status = "QUEUED"] /\ row.status = "AWAITING_UPLOAD"
      BY <2>2, <2>3 DEF MarkUploaded
    <3>. QED  BY <2>2, <3>1 DEF IsRow
  <2>4. CASE Undo(r)
    <3>. DEFINE me == request[r]
    <3>1. me.op \in {"upload", "confirm", "resume"}
      BY <2>4 DEF Undo, Reached, Asked
    <3>2. CASE me.op = "upload"
      <4>1. row' = [row EXCEPT !.status = "AWAITING_UPLOAD"] /\ row.status = "QUEUED"
        BY <2>2, <2>4, <3>2 DEF Undo
      <4>. QED  BY <2>2, <4>1 DEF IsRow
    <3>3. CASE me.op = "confirm"
      <4>. DEFINE create == me.seen.createMissing
      <4>1. /\ row' = [row EXCEPT !.status = "READY_FOR_REVIEW", !.createMissing = create]
            /\ row.status = "APPLY_QUEUED"
        BY <2>2, <2>4, <3>3 DEF Undo
      <4>. HIDE DEF create
      <4>. QED  BY <2>2, <4>1 DEF IsRow
    <3>4. CASE me.op = "resume"
      <4>1. row' = row \/ (row' = [row EXCEPT !.status = "PAUSED"] /\ row.status = "APPLY_QUEUED")
        BY <2>2, <2>4, <3>4 DEF Undo
      <4>. QED  BY <2>2, <4>1 DEF IsRow
    <3>. QED  BY <3>1, <3>2, <3>3, <3>4
  <2>. QED  BY <2>1, <2>3, <2>4
<1>3. CASE SameReview(row, row') /\ row'.status = "FAILED" /\ \E w \in Worker : Refuse(w)
  <2>1. PICK w \in Worker : Refuse(w)
    BY <1>3
  <2>2. row.status \in {"VALIDATING", "CANCELLING"} /\ ~row.prefix
    BY <2>1 DEF Refuse, At, Control, Started
  <2>. QED  BY <1>3, <2>1, <2>2 DEF SameReview
<1>4. CASE /\ SameReview(row, row') /\ row.status \in {"QUEUED", "VALIDATING"}
           /\ row'.status = "VALIDATING"
  BY <1>4 DEF SameReview
<1>5. CASE SameReview(row, row') /\ row.status = sweeper.seen /\ row'.status = "EXPIRED" /\ SweepMark
  <2>1. row.status \in Terminal
    BY <1>5 DEF SweepMark, Control
  <2>. QED  BY <1>5, <2>1 DEF SameReview
<1>6. CASE row.status = "ABSENT" /\ row' = [FreshRow EXCEPT !.status = "AWAITING_UPLOAD"]
  BY <1>6 DEF FreshRow
<1>7. CASE /\ SameReview(row, row')
           /\ \/ row.status = "CANCELLING" /\ row'.status \in Cancelled
                   /\ \E w \in Worker : Abandon(w) \/ Halt(w) \/ Late(w)
              \/ row.status = "APPLY_QUEUED" /\ row'.status = "APPLYING"
              \/ row.status = "APPLYING" /\ row'.status = "FAILED"
                   /\ \E w \in Worker : ResolveDepartment(w)
              \/ row.status = "PAUSING" /\ row'.status = "PAUSED" /\ \E w \in Worker : Park(w)
              \/ row.status \in {"READY_FOR_REVIEW", "PAUSED"} /\ row'.status = "APPLY_QUEUED"
              \/ row.status \in Idle /\ row'.status = "CANCELLED"
              \/ row.status \in {"VALIDATING", "APPLYING", "PAUSING"} /\ row'.status = "CANCELLING"
              \/ row.status = "APPLYING" /\ row'.status = "PAUSING"
              \/ row'.status = row.status
              \/ row.status = "APPLYING" /\ row'.status \in Completed /\ \E w \in Worker : Finish(w)
  <2>1. row'.prefix = row.prefix
    BY <1>7 DEF SameReview
  <2>. QED  BY <1>7, <2>1, Zenon
<1>8. CASE row'.status = row.status /\ row'.prefix = row.prefix
  BY <1>8
<1>9. CASE /\ row.status = "VALIDATING" /\ row'.status = "READY_FOR_REVIEW"
           /\ \E w \in Worker : Ready(w)
  BY <1>9
<1>. HIDE DEF Fine
<1>. QED  BY <1>1, <1>2, <1>3, <1>4, <1>5, <1>6, <1>7, <1>8, <1>9, RowMoves

LEMMA EndedStays ==
  ASSUME Typed, Queued, Reviewed, Asked, Control, [Next]_vars, Orderly', row.status \in Terminal
  PROVE  row'.status \in {row.status, "EXPIRED"}
BY Lifecycle, Statuses DEF Idle, Cancelled, Completed

\* Where a worker may be, given the row.
Placed(w) ==
  /\ worker[w].pc \in Started => row.status \in {"VALIDATING", "CANCELLING"} /\ ~row.prefix
  /\ worker[w].pc = "abandon" => row.status = "CANCELLING"
  /\ worker[w].pc \in Committing => row.status \in {"APPLYING", "PAUSING", "CANCELLING"}
  /\ worker[w].pc = "discard" => row.status \in Terminal

\* Who ends something goes on to somewhere else.
LEMMA EndersMove ==
  ASSUME Typed, NEW w \in Worker,
         \/ Ready(w) \/ Refuse(w) \/ Abandon(w) \/ Halt(w) \/ Late(w) \/ Park(w) \/ Finish(w)
         \/ ResolveDepartment(w) /\ row' # row
  PROVE  /\ worker'[w].pc # worker[w].pc
         /\ Ready(w) \/ Refuse(w) \/ Abandon(w) => worker[w].pc \in Started
         /\ Halt(w) \/ Late(w) \/ Park(w) \/ Finish(w) \/ ResolveDepartment(w) =>
              worker[w].pc \in Committing
<1>1. ASSUME ResolveDepartment(w), row' # row PROVE worker'[w].pc # worker[w].pc
  <2>1. PICK from \in worker[w].todo :
          LET target == Planned(worker[w].seen.plan, from)
          IN  ResolveKnown(w, from, target) \/ ResolveRefused(w, target) \/ ResolveCreate(w, target)
    BY <1>1 DEF ResolveDepartment
  <2>2. \E target : ResolveRefused(w, target)
    BY <1>1, <2>1 DEF ResolveKnown, ResolveCreate
  <2>3. worker[w].pc = "resolve" /\ Goto(w, "return")
    BY <1>1, <2>2 DEF ResolveDepartment, ResolveRefused, At
  <2>. QED  BY <2>3, GoMoves
<1>2. ASSUME \/ Ready(w) \/ Refuse(w) \/ Abandon(w) \/ Halt(w) \/ Late(w) \/ Park(w) \/ Finish(w)
      PROVE  worker'[w].pc # worker[w].pc
  <2>1. \/ worker[w].pc \in {"stage", "refuse", "halt", "park", "finish"}
             /\ \E pc \in {"return", "abandon", "late"} : Goto(w, pc)
        \/ worker[w].pc \in {"abandon", "late"} /\ \E pc \in {"return", "discard"} : Goto(w, pc)
    BY <1>2 DEF Ready, Refuse, Abandon, Halt, Late, Park, Finish, At
  <2>. QED  BY <2>1, GoMoves
<1>3. Ready(w) \/ Refuse(w) \/ Abandon(w) => worker[w].pc \in Started
  BY DEF Ready, Refuse, Abandon, At, Started
<1>4. Halt(w) \/ Late(w) \/ Park(w) \/ Finish(w) \/ ResolveDepartment(w) =>
        worker[w].pc \in Committing
  BY DEF Halt, Late, Park, Finish, ResolveDepartment, At, Committing
<1>. QED  BY <1>1, <1>2, <1>3, <1>4

\* A worker that stays where it is stays in its place: what the others write is theirs
\* to write.
LEMMA OthersPlaced ==
  ASSUME Typed, Queued, Reviewed, Asked, Control, [Next]_vars, Orderly',
         NEW w \in Worker, worker'[w] = worker[w]
  PROVE  Placed(w)'
<1>. DEFINE from == row.status
            to == row'.status
<1>1. Placed(w)
  BY DEF Control, Placed
<1>2. ASSUME worker[w].pc \in Started PROVE to \in {from, "CANCELLING"} /\ row'.prefix = row.prefix
  <2>1. from \in {"VALIDATING", "CANCELLING"} /\ ~row.prefix
    BY <1>1, <1>2 DEF Placed
  <2>2. \A v \in Worker : worker[v].pc \in Started => v = w
    BY <1>2, Exclusive DEF Started, Validating
  <2>3. ASSUME NEW v \in Worker, Ready(v) \/ Refuse(v) \/ Abandon(v) PROVE FALSE
    BY <2>2, <2>3, EndersMove
  <2>4. ASSUME NEW v \in Worker, Halt(v) \/ Late(v) PROVE FALSE
    BY <2>1, <2>4, Exclusive, EndersMove
  <2>. QED  BY <2>1, <2>3, <2>4, Lifecycle, Statuses DEF Idle
<1>3. ASSUME worker[w].pc \in Committing PROVE to \in {from, "PAUSING", "CANCELLING"}
  <2>1. from \in {"APPLYING", "PAUSING", "CANCELLING"} /\ row.prefix
    BY <1>1, <1>3, Exclusive DEF Placed
  <2>2. \A v \in Worker : worker[v].pc \in Committing => v = w
    BY <1>3 DEF Control
  <2>3. ASSUME NEW v \in Worker, \/ Halt(v) \/ Late(v) \/ Park(v) \/ Finish(v)
                                 \/ ResolveDepartment(v) /\ row' # row
        PROVE  FALSE
    BY <2>2, <2>3, EndersMove
  <2>4. ASSUME NEW v \in Worker, Abandon(v) PROVE FALSE
    BY <2>1, <2>4, EndersMove DEF Control
  <2>. QED  BY <2>1, <2>3, <2>4, Lifecycle, Statuses DEF Idle
<1>4. ASSUME worker[w].pc = "discard" PROVE to \in Terminal
  BY <1>1, <1>4, EndedStays, Statuses DEF Placed
<1>. QED  BY <1>1, <1>2, <1>3, <1>4 DEF Placed, Started

\* A step that does not write to the status.
Unmoved == row'.status = row.status /\ row'.prefix = row.prefix

LEMMA ValidatorPlaced ==
  ASSUME Typed, Queued, Reviewed, Control, NEW w \in Worker, Validate(w)
  PROVE  Placed(w)' /\ worker'[w].pc \notin Committing
<1>. DEFINE me == worker[w]
            you == worker'[w]
<1>1. Placed(w)
  BY DEF Control, Placed
<1>2. IsRow(row)
  BY DEF Typed
<1>3. ASSUME NEW pc \in {"return", "caught", "claim", "look", "idle", "claimApply"}, you.pc = pc
      PROVE  Placed(w)' /\ you.pc \notin Committing
  BY <1>3 DEF Placed, Started, Committing
<1>4. ASSUME Unmoved, me.pc \in Started, you.pc \in Started \ {"abandon"}
      PROVE  Placed(w)' /\ you.pc \notin Committing
  BY <1>1, <1>4 DEF Placed, Unmoved, Started, Committing
<1>5. ASSUME row' = row, me.pc \in Started, you.pc = "abandon", row.status # "VALIDATING"
      PROVE  Placed(w)' /\ you.pc \notin Committing
  BY <1>1, <1>5 DEF Placed, Started, Committing
<1>6. CASE ClaimValidation(w)
  <2>1. you.pc = IF row.status \in {"QUEUED", "VALIDATING"} THEN "parse" ELSE "return"
    BY <1>6, GoMoves DEF ClaimValidation
  <2>2. CASE row.status \in {"QUEUED", "VALIDATING"}
    <3>1. row'.status = "VALIDATING" /\ row'.prefix = row.prefix
      BY <1>6, <2>2, Flipped, Statuses DEF ClaimValidation
    <3>. QED  BY <2>1, <2>2, <3>1 DEF Control, Placed, Started, Committing
  <2>. QED  BY <1>3, <2>1, <2>2
<1>7. CASE Parse(w)
  <2>1. Unmoved
    <3>1. row' = row \/ row' = [row EXCEPT !.total = Len(file.rows)]
      BY <1>7 DEF Parse
    <3>. QED  BY <1>2, <3>1 DEF IsRow, Unmoved
  <2>2. me.pc = "parse" /\ you.pc \in {"refuse", "plan", "classify"}
    BY <1>7, ParseMoves DEF Parse, At
  <2>. QED  BY <1>4, <2>1, <2>2 DEF Started
<1>8. CASE ParseNothing(w) \/ Refuse(w) \/ Discard(w)
  <2>1. you.pc \in {"return", "caught"}
    BY <1>8, GoMoves DEF ParseNothing, Refuse, Discard
  <2>. QED  BY <1>3, <2>1
<1>9. CASE Classify(w)
  <2>1. me.pc = "classify" /\ row' = row
    BY <1>9 DEF Classify, At
  <2>2. \/ you.pc = "abandon" /\ row.status # "VALIDATING"
        \/ you.pc \in {"classify", "plan"}
    BY <1>9, ClassifyMoves
  <2>. QED  BY <1>4, <1>5, <2>1, <2>2 DEF Started, Unmoved
<1>10. CASE PlanDepartments(w)
  <2>1. me.pc = "plan" /\ row' = row /\ you.pc = "stage"
    BY <1>10, PlanMoves DEF PlanDepartments, At
  <2>. QED  BY <1>4, <2>1 DEF Started, Unmoved
<1>11. CASE Stage(w)
  <2>1. me.pc = "stage" /\ row' = row /\ you.pc = "stage"
    BY <1>11, StageMoves DEF Stage, At
  <2>. QED  BY <1>4, <2>1 DEF Started, Unmoved
<1>12. CASE Ready(w)
  <2>1. me.pc = "stage" /\ you.pc = IF row.status = "VALIDATING" THEN "return" ELSE "abandon"
    BY <1>12, GoMoves DEF Ready, At
  <2>2. row.status # "VALIDATING" => row' = row
    BY <1>12 DEF Ready
  <2>. QED  BY <1>3, <1>5, <2>1, <2>2 DEF Started
<1>13. CASE Abandon(w)
  <2>1. me.pc = "abandon" /\ you.pc = IF row.status = "CANCELLING" THEN "discard" ELSE "return"
    BY <1>13, GoMoves DEF Abandon, At
  <2>2. row.status = "CANCELLING" => row'.status = "CANCELLED"
    BY <1>13, Flipped, Statuses DEF Abandon
  <2>3. CASE row.status = "CANCELLING"
    BY <2>1, <2>2, <2>3, Statuses DEF Placed, Started, Committing
  <2>. QED  BY <1>3, <2>1, <2>3
<1>. QED  BY <1>6, <1>7, <1>8, <1>9, <1>10, <1>11, <1>12, <1>13 DEF Validate

LEMMA ApplierPlaced ==
  ASSUME Typed, Queued, Reviewed, Control, Orderly', NEW w \in Worker, Apply(w)
  PROVE  /\ Placed(w)'
         /\ worker'[w].pc \in Committing =>
              worker[w].pc \in Committing \/ \A v \in Worker : worker[v].pc \notin Committing
<1>. DEFINE me == worker[w]
            you == worker'[w]
            Fine == /\ Placed(w)'
                    /\ you.pc \in Committing =>
                         me.pc \in Committing \/ \A v \in Worker : worker[v].pc \notin Committing
<1>. SUFFICES Fine
  OBVIOUS
<1>1. Placed(w)
  BY DEF Control, Placed
<1>2. IsRow(row)
  BY DEF Typed
<1>3. ASSUME NEW pc \in {"return", "caught", "claimApply"}, you.pc = pc PROVE Fine
  BY <1>3 DEF Placed, Started, Committing
<1>4. ASSUME row'.status = row.status, me.pc \in Committing, you.pc \in Committing PROVE Fine
  BY <1>1, <1>4 DEF Placed, Started, Committing
<1>5. CASE Look(w)
  <2>1. row.prefix
    BY <1>5, Exclusive DEF Look, At
  <2>2. you.pc \in {"return", "claimApply"}
    BY <1>5, <2>1, LookMoves
  <2>. QED  BY <1>3, <2>2
<1>6. CASE ClaimApply(w)
  <2>1. CASE you.pc = "return"
    BY <1>3, <2>1
  <2>2. CASE you.pc # "return"
    <3>1. /\ you.pc = "resolve"
          /\ overtaken' = \/ overtaken
                          \/ \E v \in Worker : Applying(v)
                          \/ row.status \notin {"APPLY_QUEUED", "APPLYING", "PAUSING", "CANCELLING"}
      BY <1>6, <2>2, ClaimApplyMoves
    <3>2. overtaken' = FALSE
      <4>1. overtaken' \in BOOLEAN
        BY <3>1 DEF Typed
      <4>. QED  BY <4>1 DEF Orderly
    <3>3. /\ row.status \in {"APPLY_QUEUED", "APPLYING", "PAUSING", "CANCELLING"}
          /\ \A v \in Worker : worker[v].pc \notin Committing
      BY <3>1, <3>2 DEF Applying, Committing
    <3>4. row'.status = IF row.status = "APPLY_QUEUED" THEN "APPLYING" ELSE row.status
      BY <1>6, Flipped, Statuses DEF ClaimApply
    <3>. QED  BY <3>1, <3>3, <3>4 DEF Placed, Started, Committing
  <2>. QED  BY <2>1, <2>2
<1>7. CASE ResolveDepartment(w)
  <2>1. PICK from \in me.todo :
          LET target == Planned(me.seen.plan, from)
          IN  ResolveKnown(w, from, target) \/ ResolveRefused(w, target) \/ ResolveCreate(w, target)
    BY <1>7 DEF ResolveDepartment
  <2>. DEFINE target == Planned(me.seen.plan, from)
  <2>2. me.pc = "resolve"
    BY <1>7 DEF ResolveDepartment, At
  <2>. HIDE DEF target
  <2>3. CASE ResolveKnown(w, from, target)
    <3>1. you.pc = "resolve" /\ row' = row
      BY <2>2, <2>3, KnownMoves
    <3>. QED  BY <1>4, <2>2, <3>1 DEF Committing
  <2>4. CASE ResolveRefused(w, target)
    <3>1. you.pc = "return"
      BY <2>4, GoMoves DEF ResolveRefused
    <3>. QED  BY <1>3, <3>1
  <2>5. CASE ResolveCreate(w, target)
    <3>1. row' = row /\ you.pc \in {"resolve", "caught"}
      BY <2>2, <2>5, CreateMoves
    <3>. QED  BY <1>3, <1>4, <2>2, <3>1 DEF Committing
  <2>. HIDE DEF Fine
  <2>. QED  BY <2>1, <2>3, <2>4, <2>5 DEF target
<1>8. CASE Resolved(w) \/ ReadPart(w) \/ ReadState(w) \/ ApplyRow(w) \/ Commit(w)
  <2>1. me.pc \in {"resolve", "part", "state", "write"} /\ row' = row
    BY <1>8 DEF Resolved, ReadPart, ReadState, ApplyRow, Commit, At
  <2>2. you.pc \in {"part", "state", "finish", "halt", "park", "write", "checkpoint"}
    <3>1. CASE Resolved(w)
      BY <3>1, ResolvedMoves
    <3>2. CASE ReadPart(w)
      <4>1. you.pc = NextPc(you.buffer, you.eof) /\ you.eof = (me.part \notin DOMAIN parts)
        BY <3>2, ReadPartMoves
      <4>. QED  BY <4>1 DEF NextPc
    <3>3. CASE ReadState(w)
      BY <3>3, ReadStateMoves
    <3>4. CASE ApplyRow(w)
      BY <3>4, ApplyRowMoves
    <3>5. CASE Commit(w)
      BY <3>5, CommitMoves
    <3>. QED  BY <1>8, <3>1, <3>2, <3>3, <3>4, <3>5
  <2>. QED  BY <1>4, <2>1, <2>2 DEF Committing
<1>9. CASE Checkpoint(w)
  <2>1. me.pc = "checkpoint" /\ you.pc \in {"part", "state", "finish"}
    BY <1>9, CheckpointMoves DEF Checkpoint, At, NextPc
  <2>. DEFINE last == LastRow(me.batch)
  <2>2. row' = [row EXCEPT !.last = last, !.counts = me.counts]
    BY <1>9 DEF Checkpoint
  <2>. HIDE DEF last
  <2>3. row'.status = row.status
    BY <1>2, <2>2 DEF IsRow
  <2>. QED  BY <1>4, <2>1, <2>3 DEF Committing
<1>10. CASE Halt(w) \/ Park(w)
  <2>1. you.pc = "return"
    BY <1>10, GoMoves DEF Halt, Park
  <2>. QED  BY <1>3, <2>1
<1>11. CASE Finish(w)
  <2>1. me.pc = "finish" /\ you.pc = IF row.status = "APPLYING" THEN "return" ELSE "late"
    BY <1>11, GoMoves DEF Finish, At
  <2>2. row.status # "APPLYING" => row' = row
    BY <1>11 DEF Finish
  <2>. QED  BY <1>3, <1>4, <2>1, <2>2 DEF Committing
<1>12. CASE Late(w)
  <2>1. you.pc = IF row.status = "CANCELLING" THEN "discard" ELSE "return"
    BY <1>12, GoMoves DEF Late
  <2>2. row.status = "CANCELLING" => row'.status \in {"CANCELLED", "CANCELLED_PARTIAL"}
    BY <1>12, Flipped, Statuses DEF Late
  <2>3. CASE row.status = "CANCELLING"
    BY <2>1, <2>2, <2>3, Statuses DEF Placed, Started, Committing
  <2>. QED  BY <1>3, <2>1, <2>3
<1>. HIDE DEF Fine
<1>. QED  BY <1>5, <1>6, <1>7, <1>8, <1>9, <1>10, <1>11, <1>12 DEF Apply

LEMMA Cleans ==
  ASSUME Typed, [Next]_vars, NEW r \in Request, request'[r].pc = "clean", request[r].pc # "clean"
  PROVE  CancelIdle(r)
<1>. DEFINE you == request'[r]
<1>1. ~Answer(r)
  BY AnswerMoves DEF IdleRequest
<1>2. ASSUME NEW pc, Continue(r, pc) PROVE pc = "clean"
  <2>1. you = [pc |-> pc, op |-> request[r].op, create |-> request[r].create, seen |-> request[r].seen]
    BY <1>2, ContinueMoves
  <2>. QED  BY <2>1
<1>3. ASSUME NEW op, NEW pc, NEW create, Enter(r, op, pc, create) PROVE pc = "clean"
  <2>1. you = [pc |-> pc, op |-> op, create |-> create, seen |-> Glance(row)]
    BY <1>3, EnterMoves
  <2>. QED  BY <2>1
<1>4. request'[r] # request[r]
  OBVIOUS
<1>5. Serve(r)
  BY <1>4, OthersKeepRequests, ServeTyped DEF AloneAt
<1>6. CASE Create(r)
  BY <1>4, <1>6 DEF Create
<1>7. CASE UploadComplete(r) \/ Confirm(r) \/ Resume(r)
  BY <1>3, <1>7 DEF UploadComplete, Confirm, Resume
<1>8. CASE Cancel(r)
  <2>1. \E pc \in {"cancel", "flag"} : Enter(r, "cancel", pc, FALSE)
    BY <1>8 DEF Cancel
  <2>. QED  BY <1>3, <2>1
<1>9. CASE MarkUploaded(r) \/ ClaimConfirmed(r) \/ Enqueue(r) \/ Undo(r) \/ CleanArtifacts(r) \/ FlagCancelling(r)
  <2>1. Answer(r) \/ Continue(r, "add") \/ Continue(r, "undo")
    BY <1>9, Zenon DEF MarkUploaded, ClaimConfirmed, Enqueue, Undo, CleanArtifacts, FlagCancelling
  <2>. QED  BY <1>1, <1>2, <2>1
<1>. QED  BY <1>5, <1>6, <1>7, <1>8, <1>9 DEF Serve

LEMMA OthersKeepSweeper ==
  ASSUME Typed, [Next]_vars
  PROVE  sweeper' = sweeper \/ SweepList \/ SweepDelete \/ SweepMark
<1>1. ASSUME NEW w \in Worker, Work(w) \/ Fault(w) PROVE sweeper' = sweeper
  <2>1. CASE Validate(w) \/ Apply(w) \/ Throw(w)
    BY <2>1, StayMoves
  <2>2. CASE Take(w)
    BY <2>2 DEF Take, outside, cleanup
  <2>3. CASE Return(w) \/ GiveBack(w) \/ Crash(w)
    BY <2>3, LeaveMoves DEF outside, cleanup
  <2>. QED  BY <1>1, <2>1, <2>2, <2>3 DEF Work, Fault
<1>2. ASSUME NEW r \in Request, Serve(r) PROVE cleanup' = cleanup
  BY <1>2, Zenon DEF Serve, Create, UploadComplete, MarkUploaded, Confirm, Resume, ClaimConfirmed,
          Enqueue, Undo, Cancel, CancelIdle, CleanArtifacts, FlagCancelling, outside
<1>3. ASSUME Stalled \/ PutFile \/ Pause \/ SweepStale \/ Expire \/ Colleague PROVE sweeper' = sweeper
  BY <1>3 DEF Stalled, PutFile, Pause, SweepStale, Expire, Colleague, outside, cleanup
<1>4. UNCHANGED vars => sweeper' = sweeper
  BY DEF vars, outside, cleanup
<1>. QED  BY <1>1, <1>2, <1>3, <1>4 DEF Next, Sweep, cleanup

LEMMA ControlStep ==
  ASSUME ControlInv, [Next]_vars, Orderly'
  PROVE  Control'
<1>1. Typed /\ Queued /\ Reviewed /\ Asked /\ Control
  BY OrderlyBefore DEF ControlInv
<1>2. Typed' /\ Queued' /\ Reviewed' /\ Asked'
  BY <1>1, TypedStep, QueuedStep, ReviewedStep, AskedStep
<1>3. row'.prefix => row'.status \notin {"ABSENT", "AWAITING_UPLOAD", "QUEUED", "VALIDATING"}
  BY <1>1, Lifecycle, Statuses DEF Control, Cancelled, Completed
\* A step that is not a worker's.
<1>4. CASE ~(\E w \in Worker : Work(w) \/ Fault(w))
  <2>1. worker' = worker
    BY <1>4, OthersKeepWorkers
  <2>2. \A w \in Worker : Placed(w)'
    BY <1>1, <2>1, OthersPlaced
  <2>3. \A r \in Request : request'[r].pc = "clean" => row'.status \in Terminal
    <3>1. ASSUME NEW r \in Request, request'[r].pc = "clean" PROVE row'.status \in Terminal
      <4>1. CASE request[r].pc = "clean"
        <5>1. row.status \in Terminal
          BY <1>1, <4>1 DEF Control
        <5>. QED  BY <1>1, <5>1, EndedStays, Statuses
      <4>2. CASE request[r].pc # "clean"
        <5>1. CancelIdle(r)
          BY <1>1, <3>1, <4>2, Cleans
        <5>2. row.status \in Idle
          BY <1>1, <3>1, <5>1, AnswerMoves DEF CancelIdle, IdleRequest
        <5>3. row'.status = "CANCELLED"
          BY <1>1, <5>1, <5>2, Flipped, Statuses DEF CancelIdle
        <5>. QED  BY <5>3, Statuses
      <4>. QED  BY <4>1, <4>2
    <3>. QED  BY <3>1
  <2>4. sweeper'.pc = "mark" => row'.status \in Terminal
    <3>1. CASE SweepDelete
      <4>1. swept' = FALSE /\ row' = row
        BY <1>2, <3>1 DEF SweepDelete, Orderly, Typed
      <4>2. sweeper'.pc = "mark" => row.status \in Terminal
        BY <1>1, <3>1, <4>1 DEF SweepDelete, Typed
      <4>. QED  BY <4>1, <4>2
    <3>2. CASE SweepList \/ SweepMark
      <4>1. sweeper'.pc # "mark"
        BY <3>2 DEF SweepList, SweepMark
      <4>. QED  BY <4>1
    <3>3. CASE sweeper' = sweeper
      <4>1. sweeper.pc = "mark" => row.status \in Terminal
        BY <1>1 DEF Control
      <4>. QED  BY <1>1, <3>3, <4>1, EndedStays, Statuses
    <3>. QED  BY <1>1, <3>1, <3>2, <3>3, OthersKeepSweeper
  <2>. QED  BY <1>1, <1>3, <2>1, <2>2, <2>3, <2>4 DEF Control, Placed
\* A worker's step.
<1>5. ASSUME NEW w \in Worker, Work(w) \/ Fault(w) PROVE Control'
  <2>1. Alone(w) /\ request' = request /\ sweeper' = sweeper
    <3>1. CASE Validate(w) \/ Apply(w) \/ Throw(w)
      BY <1>1, <3>1, StayMoves
    <3>2. CASE Take(w)
      BY <1>1, <3>2, TakeMoves DEF Take, outside, cleanup
    <3>3. CASE Return(w) \/ GiveBack(w) \/ Crash(w)
      BY <1>1, <3>3, LeaveMoves DEF outside, cleanup
    <3>. QED  BY <1>5, <3>1, <3>2, <3>3 DEF Work, Fault
  <2>2. ASSUME NEW v \in Worker, v # w PROVE Placed(v)'
    BY <1>1, <2>1, <2>2, OthersPlaced DEF Alone
  <2>3. /\ Placed(w)'
        /\ worker'[w].pc \in Committing =>
             worker[w].pc \in Committing \/ \A v \in Worker : worker[v].pc \notin Committing
    <3>1. CASE Validate(w)
      BY <1>1, <3>1, ValidatorPlaced
    <3>2. CASE Apply(w)
      BY <1>1, <3>2, ApplierPlaced
    <3>3. CASE Take(w) \/ Return(w) \/ GiveBack(w) \/ Fault(w)
      <4>1. worker'[w].pc \in {"claim", "look", "idle", "caught"}
        <5>1. CASE Take(w)
          BY <1>1, <5>1, TakeMoves
        <5>2. CASE Return(w) \/ GiveBack(w) \/ Crash(w)
          BY <1>1, <5>2, LeaveMoves, FreshTypes
        <5>3. CASE Throw(w)
          BY <1>1, <5>3, GoMoves DEF Throw
        <5>. QED  BY <3>3, <5>1, <5>2, <5>3 DEF Fault
      <4>. QED  BY <4>1 DEF Placed, Started, Committing
    <3>. QED  BY <1>5, <3>1, <3>2, <3>3 DEF Work
  <2>4. \A u, v \in Worker :
          worker'[u].pc \in Committing /\ worker'[v].pc \in Committing => u = v
    BY <1>1, <2>1, <2>3 DEF Alone, Control
  <2>5. row.status \in Terminal => row'.status \in Terminal
    BY <1>1, EndedStays, Statuses
  <2>. QED  BY <1>1, <1>3, <2>1, <2>2, <2>3, <2>4, <2>5 DEF Control, Placed
<1>. QED  BY <1>4, <1>5

LEMMA OnlyCommitWrites ==
  ASSUME [Next]_vars, \A w \in Worker : ~Commit(w)
  PROVE  written' = written
<1>1. ASSUME NEW w \in Worker, Work(w) \/ Fault(w) PROVE written' = written
  <2>1. CASE Validate(w)
    BY <2>1 DEF Validate, ClaimValidation, Parse, ParseNothing, Refuse, Classify,
            PlanDepartments, Stage, Ready, Abandon, Discard, directory
  <2>2. CASE Apply(w)
    BY <2>2, Zenon DEF Apply, Look, ClaimApply, ResolveDepartment, Resolved, ReadPart, ReadState,
            Halt, Park, ApplyRow, Checkpoint, Finish, Late, directory
  <2>3. CASE Take(w) \/ Return(w) \/ GiveBack(w) \/ Fault(w)
    BY <2>3 DEF Take, Return, GiveBack, Fault, Throw, Crash, directory
  <2>. QED  BY <1>1, <2>1, <2>2, <2>3 DEF Work
<1>2. ASSUME NEW r \in Request, Serve(r) PROVE directory' = directory
  BY <1>2, Zenon DEF Serve, Create, UploadComplete, MarkUploaded, Confirm, Resume, ClaimConfirmed,
          Enqueue, Undo, Cancel, CancelIdle, CleanArtifacts, FlagCancelling
<1>3. ASSUME Stalled \/ PutFile \/ Pause \/ Sweep \/ Expire \/ Colleague PROVE written' = written
  BY <1>3 DEF Stalled, PutFile, Pause, Sweep, SweepList, SweepDelete, SweepMark, SweepStale,
              Expire, Colleague, directory
<1>4. UNCHANGED vars => written' = written
  BY DEF vars, directory
<1>. QED  BY <1>1, <1>2, <1>3, <1>4 DEF Next, directory

LEMMA ControlInit == Init => ControlInv
<1>. SUFFICES ASSUME Init PROVE ControlInv
  OBVIOUS
<1>1. /\ row = FreshRow /\ jobs = {} /\ sweeper = [pc |-> "idle", seen |-> "ABSENT"]
      /\ \A w \in Worker : worker[w].pc = "idle"
      /\ \A r \in Request : request[r].pc = "idle" /\ request[r].op = "none"
  BY DEF Init, IdleWorker, IdleRequest
<1>2. row.status = "ABSENT" /\ row.prefix = FALSE /\ sweeper.pc = "idle"
  BY <1>1 DEF FreshRow
<1>3. Queued
  BY <1>1 DEF Queued, Validating, Committing
<1>4. Reviewed /\ Asked
  BY <1>1, <1>2 DEF Reviewed, Asked
<1>5. Control
  BY <1>1, <1>2 DEF Control, Started, Committing
<1>. QED  BY <1>3, <1>4, <1>5, TypedInit DEF ControlInv

LEMMA ControlInvStep == ControlInv /\ [Next]_vars => ControlInv'
<1>. SUFFICES ASSUME ControlInv, [Next]_vars PROVE ControlInv'
  OBVIOUS
<1>1. Typed' /\ Queued' /\ Reviewed' /\ Asked'
  BY TypedStep, QueuedStep, ReviewedStep, AskedStep DEF ControlInv
<1>2. Orderly' => Control'
  BY ControlStep
<1>. QED  BY <1>1, <1>2 DEF ControlInv

LEMMA InControl == Spec => []ControlInv
<1>. QED  BY ControlInit, ControlInvStep, PTL DEF Spec

\* Nobody is about to write rows of an import that is PAUSED: the worker that parks it was
\* the only one, and what it had begun has reached its checkpoint.
THEOREM PauseIsQuiet == Spec => []PausedIsQuiet
<1>1. ControlInv => PausedIsQuiet
  BY DEF ControlInv, Control, PausedIsQuiet, Committing
<1>. QED  BY <1>1, InControl, PTL

\* No row is written once the import is reported as cancelled: whoever reports it was the
\* only one to write.
THEOREM CancelHolds == Spec => CancelStops
<1>1. ControlInv /\ [Next]_vars =>
        [Orderly /\ row.status \in Cancelled => written' = written]_vars
  <2>. SUFFICES ASSUME ControlInv, [Next]_vars, Orderly, row.status \in Cancelled
                PROVE  written' = written
    OBVIOUS
  <2>1. ASSUME NEW w \in Worker, Commit(w) PROVE FALSE
    <3>1. row.status \in {"APPLYING", "PAUSING", "CANCELLING"}
      BY <2>1 DEF Commit, At, ControlInv, Control, Committing
    <3>. QED  BY <3>1 DEF Cancelled
  <2>. QED  BY <2>1, OnlyCommitWrites
<1>. QED  BY <1>1, InControl, PTL DEF Spec, CancelStops

\* An import that has ended stays as it ended, except that it expires: no worker is left
\* that could take it up again, and no request that could put a status back.
THEOREM EndIsFinal == Spec => TerminalIsFinal
<1>1. ControlInv /\ [Next]_vars =>
        [Orderly' /\ row.status \in Terminal => row'.status \in {row.status, "EXPIRED"}]_vars
  <2>. SUFFICES ASSUME ControlInv, [Next]_vars, Orderly', row.status \in Terminal
                PROVE  row'.status \in {row.status, "EXPIRED"}
    OBVIOUS
  <2>. QED  BY EndedStays, OrderlyBefore DEF ControlInv
<1>. QED  BY <1>1, InControl, PTL DEF Spec, TerminalIsFinal

------------------------------------------------------------------------------
(* The rows that were staged.                                                 *)

LEMMA ItemRows ==
  ASSUME Typed
  PROVE  /\ Lines \in Nat
         /\ \A g \in Items : /\ g \in NormalizedRow /\ g.row \in 1 .. Lines
                             /\ g.row \in Nat \ {0} /\ g.row <= Lines
                             /\ Place(g.row) \in Nat \ {0}
                             /\ \E p \in DOMAIN parts : g \in parts[p]
         /\ \A p \in DOMAIN parts : parts[p] \subseteq Items
<1>1. Lines \in Nat
  BY LinesType
<1>2. ASSUME NEW p \in DOMAIN parts, NEW g \in parts[p]
      PROVE  g \in NormalizedRow /\ g.row <= Lines
  BY <1>2 DEF Typed, PartOK, IsBatch
<1>3. \A g \in Items : \E p \in DOMAIN parts : g \in parts[p]
  BY DEF Items
<1>4. ASSUME NEW g \in Items PROVE g \in NormalizedRow /\ g.row \in Nat \ {0} /\ g.row <= Lines
  BY <1>2, <1>3, RowTypes
<1>5. \A p \in DOMAIN parts : parts[p] \subseteq Items
  BY DEF Items
<1>. QED  BY <1>1, <1>3, <1>4, <1>5, Places

LEMMA SameSize ==
  ASSUME NEW S, NEW T, IsFiniteSet(T), Distinct(S), \A g \in S : g.row \in T,
         \A i \in T : \E g \in S : g.row = i
  PROVE  IsFiniteSet(S) /\ Cardinality(S) = Cardinality(T)
<1>. DEFINE f == [g \in S |-> g.row]
<1>1. f \in [S -> T]
  OBVIOUS
<1>2. f \in Injection(S, T)
  <2>1. \A g, h \in S : f[g] = f[h] => g = h
    BY DEF Distinct
  <2>. HIDE DEF f
  <2>. QED  BY <1>1, <2>1 DEF Injection, IsInjective
<1>3. f \in Surjection(S, T)
  <2>1. \A i \in T : \E g \in S : f[g] = i
    OBVIOUS
  <2>. HIDE DEF f
  <2>. QED  BY <1>1, <2>1 DEF Surjection
<1>. HIDE DEF f
<1>. QED  BY <1>2, <1>3, FS_Injection

LEMMA ItemsFinite ==
  ASSUME Typed, Staged
  PROVE  /\ IsFiniteSet(Items) /\ Cardinality(Items) = Lines
         /\ \A S : S \subseteq Items => IsFiniteSet(S) /\ Cardinality(S) \in Nat
<1>1. Lines \in Nat
  BY ItemRows
<1>2. IsFiniteSet(1 .. Lines) /\ Cardinality(1 .. Lines) = Lines
  <2>. DEFINE n == Lines
  <2>1. n \in Nat
    BY <1>1
  <2>. HIDE DEF n
  <2>2. IsFiniteSet(1 .. n) /\ Cardinality(1 .. n) = IF 1 > n THEN 0 ELSE n - 1 + 1
    BY <2>1, FS_Interval
  <2>3. Cardinality(1 .. n) = n
    BY <2>1, <2>2
  <2>. QED  BY <2>2, <2>3 DEF n
<1>3. IsFiniteSet(Items) /\ Cardinality(Items) = Cardinality(1 .. Lines)
  BY <1>2, ItemRows, SameSize DEF Staged
<1>. QED  BY <1>2, <1>3, FS_Subset, FS_CardinalityType

LEMMA ChangingUp ==
  ASSUME Typed, Staged, NEW n \in Nat, NEW item \in Items, item.row = n + 1
  PROVE  /\ Changing(n + 1) = Changing(n) \cup (IF item.kind = "UNCHANGED" THEN {} ELSE {item})
         /\ Cardinality(Changing(n)) \in Nat
         /\ Cardinality(Changing(n + 1)) =
              Cardinality(Changing(n)) + (IF item.kind = "UNCHANGED" THEN 0 ELSE 1)
<1>1. \A g \in Items : g.row <= n + 1 <=> (g.row <= n \/ g = item)
  <2>1. \A g \in Items : g.row \in Nat
    BY ItemRows
  <2>2. \A g \in Items : g.row = n + 1 => g = item
    BY DEF Staged, Distinct
  <2>. QED  BY <2>1, <2>2
<1>2. Changing(n + 1) = Changing(n) \cup (IF item.kind = "UNCHANGED" THEN {} ELSE {item})
  BY <1>1 DEF Changing
<1>3. item \notin Changing(n)
  BY DEF Changing
<1>4. IsFiniteSet(Changing(n)) /\ Cardinality(Changing(n)) \in Nat
  BY ItemsFinite DEF Changing
<1>5. Cardinality(Changing(n) \cup {item}) = Cardinality(Changing(n)) + 1
  BY <1>3, <1>4, FS_AddElement
<1>6. CASE item.kind = "UNCHANGED"
  <2>1. Changing(n + 1) = Changing(n)
    BY <1>2, <1>6
  <2>. QED  BY <1>2, <1>4, <1>6, <2>1
<1>7. CASE item.kind # "UNCHANGED"
  <2>1. Changing(n + 1) = Changing(n) \cup {item}
    BY <1>2, <1>7
  <2>2. Cardinality(Changing(n + 1)) = Cardinality(Changing(n)) + 1
    BY <1>5, <2>1
  <2>. QED  BY <1>2, <1>4, <1>7, <2>2
<1>. QED  BY <1>6, <1>7

LEMMA NoneChanging == ASSUME Typed PROVE Changing(0) = {}
BY ItemRows DEF Changing

\* The rows of a finished import, and of the rows to be written.
LEMMA Totals ==
  ASSUME Typed, Staged
  PROVE  /\ Cardinality(Changing(Lines)) + row.unchanged = Lines
         /\ (\A g \in Changing(Lines) : g.row \in written) =>
              Cardinality(written) + row.unchanged = Lines
<1>. DEFINE C == Changing(Lines)
            U == {g \in Items : g.kind = "UNCHANGED"}
<1>1. C = {g \in Items : g.kind # "UNCHANGED"}
  BY ItemRows DEF Changing
<1>2. IsFiniteSet(C) /\ IsFiniteSet(U) /\ Cardinality(C) \in Nat /\ Cardinality(U) \in Nat
  BY <1>1, ItemsFinite
<1>3. C \cup U = Items /\ C \cap U = {}
  BY <1>1
<1>4. Cardinality(Items) = Cardinality(C) + Cardinality(U) - Cardinality(C \cap U)
  BY <1>2, <1>3, FS_Union
<1>5. Cardinality(C) + row.unchanged = Lines
  BY <1>2, <1>3, <1>4, ItemsFinite, ItemRows, FS_EmptySet DEF Staged
<1>6. ASSUME \A g \in C : g.row \in written PROVE Cardinality(written) = Cardinality(C)
  <2>. DEFINE T == written
  <2>1. \A i \in written : \E g \in C : g.row = i
    BY <1>1 DEF Staged
  <2>2. written \subseteq 1 .. Lines
    BY <1>1, <2>1, ItemRows
  <2>3. IsFiniteSet(1 .. Lines)
    <3>. DEFINE n == Lines
    <3>1. n \in Nat
      BY ItemRows
    <3>. HIDE DEF n
    <3>2. IsFiniteSet(1 .. n)
      BY <3>1, FS_Interval
    <3>. QED  BY <3>2 DEF n
  <2>4. IsFiniteSet(written)
    BY <2>2, <2>3, FS_Subset
  <2>5. Distinct(C)
    BY <1>1 DEF Staged, Distinct
  <2>. QED  BY <1>6, <2>1, <2>4, <2>5, SameSize
<1>. QED  BY <1>5, <1>6

------------------------------------------------------------------------------
(* What a worker that applies the import holds of it.                         *)

LEMMA Counts ==
  ASSUME NEW c \in Tally
  PROVE  /\ c.processed \in Nat /\ c.created \in Nat /\ c.updated \in Nat /\ c.failed \in Nat
         /\ LET d == [c EXCEPT !.processed = @ + 1] IN
            /\ d.processed = c.processed + 1 /\ d.failed = c.failed
            /\ d.created + d.updated + d.failed = c.created + c.updated + c.failed
         /\ LET d == [c EXCEPT !.processed = @ + 1, !.failed = @ + 1] IN
            /\ d.processed = c.processed + 1 /\ d.failed = c.failed + 1
            /\ d.created + d.updated + d.failed = c.created + c.updated + c.failed + 1
         /\ LET d == [c EXCEPT !.processed = @ + 1, !.updated = @ + 1] IN
            /\ d.processed = c.processed + 1 /\ d.failed = c.failed
            /\ d.created + d.updated + d.failed = c.created + c.updated + c.failed + 1
         /\ LET d == [c EXCEPT !.processed = @ + 1, !.created = @ + 1] IN
            /\ d.processed = c.processed + 1 /\ d.failed = c.failed
            /\ d.created + d.updated + d.failed = c.created + c.updated + c.failed + 1
<1>1. c.processed \in Nat /\ c.created \in Nat /\ c.updated \in Nat /\ c.failed \in Nat
  BY DEF Tally
<1>2. LET d == [c EXCEPT !.processed = @ + 1] IN
      d.processed = c.processed + 1 /\ d.created = c.created /\ d.updated = c.updated
        /\ d.failed = c.failed
  BY DEF Tally
<1>3. LET d == [c EXCEPT !.processed = @ + 1, !.failed = @ + 1] IN
      d.processed = c.processed + 1 /\ d.created = c.created /\ d.updated = c.updated
        /\ d.failed = c.failed + 1
  BY DEF Tally
<1>4. LET d == [c EXCEPT !.processed = @ + 1, !.updated = @ + 1] IN
      d.processed = c.processed + 1 /\ d.created = c.created /\ d.updated = c.updated + 1
        /\ d.failed = c.failed
  BY DEF Tally
<1>5. LET d == [c EXCEPT !.processed = @ + 1, !.created = @ + 1] IN
      d.processed = c.processed + 1 /\ d.created = c.created + 1 /\ d.updated = c.updated
        /\ d.failed = c.failed
  BY DEF Tally
<1>. DEFINE d2 == [c EXCEPT !.processed = @ + 1]
            d3 == [c EXCEPT !.processed = @ + 1, !.failed = @ + 1]
            d4 == [c EXCEPT !.processed = @ + 1, !.updated = @ + 1]
            d5 == [c EXCEPT !.processed = @ + 1, !.created = @ + 1]
<1>. HIDE DEF d2, d3, d4, d5
<1>6. /\ d2.processed = c.processed + 1 /\ d2.failed = c.failed
      /\ d2.created + d2.updated + d2.failed = c.created + c.updated + c.failed
  <2>1. d2.processed = c.processed + 1 /\ d2.created = c.created /\ d2.updated = c.updated
          /\ d2.failed = c.failed
    BY <1>2 DEF d2
  <2>. QED  BY <2>1
<1>7. /\ d3.processed = c.processed + 1 /\ d3.failed = c.failed + 1
      /\ d3.created + d3.updated + d3.failed = c.created + c.updated + c.failed + 1
  <2>1. d3.processed = c.processed + 1 /\ d3.created = c.created /\ d3.updated = c.updated
          /\ d3.failed = c.failed + 1
    BY <1>3 DEF d3
  <2>. QED  BY <1>1, <2>1
<1>8. /\ d4.processed = c.processed + 1 /\ d4.failed = c.failed
      /\ d4.created + d4.updated + d4.failed = c.created + c.updated + c.failed + 1
  <2>1. d4.processed = c.processed + 1 /\ d4.created = c.created /\ d4.updated = c.updated + 1
          /\ d4.failed = c.failed
    BY <1>4 DEF d4
  <2>. QED  BY <1>1, <2>1
<1>9. /\ d5.processed = c.processed + 1 /\ d5.failed = c.failed
      /\ d5.created + d5.updated + d5.failed = c.created + c.updated + c.failed + 1
  <2>1. d5.processed = c.processed + 1 /\ d5.created = c.created + 1 /\ d5.updated = c.updated
          /\ d5.failed = c.failed
    BY <1>5 DEF d5
  <2>. QED  BY <1>1, <2>1
<1>. QED  BY <1>1, <1>6, <1>7, <1>8, <1>9 DEF d2, d3, d4, d5

\* The next row of the batch is the next row of the file.
LEMMA NextItem ==
  ASSUME Typed, Staged, NEW w \in Worker, worker[w].pc = "write", worker[w].todo # {},
         Buffered(worker[w]), Batched(worker[w])
  PROVE  LET me == worker[w] item == FirstOf(me.todo) IN
         /\ item \in me.batch /\ item \in me.todo /\ item \in Items /\ item \notin Ahead(me)
         /\ item.row = me.counts.processed + 1
<1>. DEFINE me == worker[w]
            item == FirstOf(me.todo)
            n == me.counts.processed
<1>1. item \in me.todo /\ item \in me.batch /\ \A h \in me.todo : item.row <= h.row
  BY ItemForm
<1>2. me.todo = {g \in me.batch : g.row > n} /\ me.batch \subseteq me.buffer /\ n \in Nat
  BY WorkForm, Counts DEF Batched, IsWork
<1>. HIDE DEF item, n
<1>3. item \in Items /\ item \notin Ahead(me) /\ item.row > n
  BY <1>1, <1>2 DEF Buffered
<1>4. item.row \in Nat \ {0} /\ item.row <= Lines /\ Lines \in Nat
  BY <1>3, ItemRows
<1>5. n + 1 \in 1 .. Lines /\ n + 1 \in Nat \ {0}
  BY <1>2, <1>3, <1>4
<1>6. PICK g \in Items : g.row = n + 1
  BY <1>5 DEF Staged
<1>7. g \notin Ahead(me)
  <2>1. Place(g.row) <= Place(item.row)
    BY <1>2, <1>3, <1>4, <1>5, <1>6, Places
  <2>2. Place(g.row) \in Nat /\ Place(item.row) \in Nat /\ me.part \in Nat
    BY <1>3, <1>6, ItemRows, WorkForm DEF IsWork
  <2>3. ~(Place(item.row) >= me.part)
    BY <1>3 DEF Ahead
  <2>. QED  BY <2>1, <2>2, <2>3 DEF Ahead
<1>8. g \in me.buffer
  BY <1>2, <1>6, <1>7 DEF Buffered, n
<1>9. g.row < item.row => g \in me.batch
  BY <1>1, <1>8 DEF Batched
<1>10. ~(g.row < item.row)
  BY <1>1, <1>2, <1>4, <1>6, <1>9
<1>11. item.row = n + 1
  BY <1>2, <1>3, <1>4, <1>6, <1>10
<1>. QED  BY <1>1, <1>3, <1>11 DEF item, n

LEMMA ApplyRowSound ==
  ASSUME Typed, Staged, NEW w \in Worker, ApplyRow(w), Applied(worker[w]), Buffered(worker[w]),
         Batched(worker[w])
  PROVE  Applied(worker'[w]) /\ Buffered(worker'[w]) /\ Batched(worker'[w])
<1>. DEFINE me == worker[w]
            you == worker'[w]
            item == FirstOf(me.todo)
            n == me.counts.processed
            new == [item EXCEPT !.department = NameOf(me.alias[Normal[item.department]])]
<1>1. me.pc = "write" /\ me.todo # {}
  BY DEF ApplyRow, At
<1>2. /\ item \in me.batch /\ item \in me.todo /\ item \in Items /\ item \notin Ahead(me)
      /\ item.row = n + 1
  BY <1>1, NextItem
<1>3. IsWork(me) /\ n \in Nat /\ me.counts \in Tally /\ me.counts.failed \in Nat
  BY WorkForm, Counts DEF IsWork
<1>4. /\ you.pc = "write" /\ you.todo = me.todo \ {item}
      /\ you.seen = me.seen /\ you.part = me.part /\ you.eof = me.eof /\ you.buffer = me.buffer
      /\ you.batch = me.batch
  BY ApplyRowMoves DEF Same
<1>5. /\ you.counts.processed = n + 1
      /\ you.counts.created + you.counts.updated + you.counts.failed =
           me.counts.created + me.counts.updated + me.counts.failed
             + (IF item.kind = "UNCHANGED" THEN 0 ELSE 1)
      /\ \/ /\ you.tx = me.tx /\ you.aborted = me.aborted /\ you.counts.failed = me.counts.failed
            /\ item.kind = "UNCHANGED"
         \/ you.tx = me.tx /\ you.counts.failed = me.counts.failed + 1
         \/ /\ you.tx = me.tx \cup {new} /\ you.aborted = FALSE
            /\ you.counts.failed = me.counts.failed /\ item.kind # "UNCHANGED"
  <2>0. Wrote(me.tx, new) = me.tx \cup {new}
    <3>1. new.number = item.number
      BY <1>1, ItemForm
    <3>2. ASSUME NEW t \in me.tx, t.number = item.number PROVE FALSE
      <4>1. PICK g \in Items : g.number = t.number /\ g.row <= n
        BY DEF Applied
      <4>2. g = item
        BY <1>2, <3>2, <4>1 DEF Staged, OnePerEmployee
      <4>. HIDE DEF item
      <4>. QED  BY <1>2, <1>3, <4>1, <4>2
    <3>. HIDE DEF item, new
    <3>. QED  BY <3>1, <3>2 DEF Wrote
  <2>1. me.counts.created + me.counts.updated + me.counts.failed \in Nat
    BY <1>3, Counts
  <2>. DEFINE d2 == [me.counts EXCEPT !.processed = @ + 1]
              d3 == [me.counts EXCEPT !.processed = @ + 1, !.failed = @ + 1]
              d4 == [me.counts EXCEPT !.processed = @ + 1, !.updated = @ + 1]
              d5 == [me.counts EXCEPT !.processed = @ + 1, !.created = @ + 1]
  <2>2. \/ /\ item.kind = "UNCHANGED" /\ you.tx = me.tx /\ you.aborted = me.aborted /\ you.counts = d2
        \/ item.kind # "UNCHANGED" /\ you.tx = me.tx /\ you.counts = d3
        \/ /\ item.kind # "UNCHANGED" /\ you.aborted = FALSE /\ you.tx = Wrote(me.tx, new)
           /\ you.counts = d4 \/ you.counts = d5
    BY ApplyRowMoves
  <2>3. /\ d2.processed = n + 1 /\ d2.failed = me.counts.failed
        /\ d2.created + d2.updated + d2.failed = me.counts.created + me.counts.updated + me.counts.failed
        /\ d3.processed = n + 1 /\ d3.failed = me.counts.failed + 1
        /\ d3.created + d3.updated + d3.failed = me.counts.created + me.counts.updated + me.counts.failed + 1
        /\ d4.processed = n + 1 /\ d4.failed = me.counts.failed
        /\ d4.created + d4.updated + d4.failed = me.counts.created + me.counts.updated + me.counts.failed + 1
        /\ d5.processed = n + 1 /\ d5.failed = me.counts.failed
        /\ d5.created + d5.updated + d5.failed = me.counts.created + me.counts.updated + me.counts.failed + 1
    BY <1>3, Counts
  <2>. HIDE DEF d2, d3, d4, d5, me, item, new, n
  <2>. QED  BY <2>0, <2>1, <2>2, <2>3
<1>6. new.row = n + 1 /\ new.number = item.number
  BY <1>1, <1>2, ItemForm
<1>. HIDE DEF item, n, new
<1>7. /\ Changing(n + 1) = Changing(n) \cup (IF item.kind = "UNCHANGED" THEN {} ELSE {item})
      /\ Cardinality(Changing(n + 1)) =
              Cardinality(Changing(n)) + (IF item.kind = "UNCHANGED" THEN 0 ELSE 1)
  BY <1>2, <1>3, ChangingUp
<1>8. \A g \in Items : g.row \in Nat /\ g.row <= Lines /\ (g.row = n + 1 => g = item)
  BY <1>2, ItemRows DEF Staged, Distinct
<1>9. Applied(you)
  <2>1. n + 1 <= Lines
    BY <1>2, <1>8
  <2>2. you.counts.created + you.counts.updated + you.counts.failed = Cardinality(Changing(n + 1))
    BY <1>5, <1>7 DEF Applied, Counted, n
  <2>3. ASSUME you.counts.failed = 0, NEW g \in Changing(n + 1)
        PROVE  g.row \in written \cup {t.row : t \in you.tx}
    <3>1. me.counts.failed = 0 /\ ((you.tx = me.tx /\ item.kind = "UNCHANGED") \/ you.tx = me.tx \cup {new})
      BY <1>3, <1>5, <2>3
    <3>2. CASE g \in Changing(n)
      BY <3>1, <3>2 DEF Applied, Counted, n
    <3>3. CASE g = item /\ item.kind # "UNCHANGED"
      BY <1>2, <1>6, <3>1, <3>3
    <3>. QED  BY <1>7, <2>3, <3>2, <3>3
  <2>4. \A t \in you.tx : \E g \in Items : /\ g.row = t.row /\ g.number = t.number
                                           /\ g.kind # "UNCHANGED" /\ g.row <= n + 1
    <3>1. ASSUME NEW t \in me.tx
          PROVE  \E g \in Items : /\ g.row = t.row /\ g.number = t.number
                                  /\ g.kind # "UNCHANGED" /\ g.row <= n + 1
      <4>1. PICK g \in Items : /\ g.row = t.row /\ g.number = t.number
                               /\ g.kind # "UNCHANGED" /\ g.row <= n
        BY <3>1 DEF Applied, n
      <4>. QED  BY <1>3, <1>8, <4>1
    <3>2. CASE you.tx = me.tx
      BY <3>1, <3>2
    <3>3. CASE you.tx = me.tx \cup {new} /\ item.kind # "UNCHANGED"
      <4>1. n + 1 <= n + 1
        BY <1>3
      <4>. QED  BY <1>2, <1>6, <3>1, <3>3, <4>1
    <3>. QED  BY <1>5, <3>2, <3>3
  <2>5. you.aborted => you.counts.failed > 0
    <3>1. me.aborted => me.counts.failed > 0
      BY DEF Applied
    <3>2. CASE you.aborted = me.aborted /\ you.counts.failed = me.counts.failed
      BY <3>1, <3>2, Zenon
    <3>3. CASE you.counts.failed = me.counts.failed + 1
      BY <1>3, <3>3
    <3>4. CASE you.aborted = FALSE
      BY <3>4
    <3>. QED  BY <1>5, <3>2, <3>3, <3>4
  <2>. QED  BY <1>4, <1>5, <2>1, <2>2, <2>3, <2>4, <2>5 DEF Applied, Counted
<1>10. Buffered(you)
  <2>1. Ahead(you) = Ahead(me) /\ you.counts.processed = n + 1
    BY <1>4, <1>5 DEF Ahead
  <2>2. me.seen.last \in Nat
    BY <1>3 DEF IsWork, IsGlance
  <2>3. you.seen.last <= n + 1
    BY <1>3, <1>4, <2>2 DEF Buffered, n
  <2>4. \A g \in Items \ Ahead(you) : g.row > n + 1 => g \in you.buffer
    BY <1>3, <1>4, <1>8, <2>1 DEF Buffered, n
  <2>5. \A g \in Ahead(you) : g.row <= you.seen.last \/ g.row > n + 1
    <3>1. ASSUME NEW g \in Ahead(me), ~(g.row <= me.seen.last) PROVE g.row > n + 1
      <4>1. g \in Items /\ g # item /\ g.row > n
        BY <1>2, <3>1 DEF Ahead, Buffered, n
      <4>. QED  BY <1>3, <1>8, <4>1
    <3>. QED  BY <1>4, <2>1, <3>1
  <2>6. \A g \in you.buffer : /\ g \in Items /\ g \notin Ahead(you)
                              /\ g.row > n + 1 \/ (you.pc \in {"write", "checkpoint"} /\ g \in you.batch)
    <3>1. ASSUME NEW g \in me.buffer, g \notin me.batch PROVE g.row > n + 1
      <4>1. g \in Items /\ g # item /\ g.row > n
        BY <1>2, <3>1 DEF Buffered, n
      <4>. QED  BY <1>3, <1>8, <4>1
    <3>. QED  BY <1>4, <2>1, <3>1 DEF Buffered
  <2>. QED  BY <1>4, <2>1, <2>3, <2>4, <2>5, <2>6 DEF Buffered
<1>11. Batched(you)
  <2>1. me.todo = {g \in me.batch : g.row > n} /\ me.batch \subseteq me.buffer
    BY <1>1, <1>3 DEF Batched, IsWork, n
  <2>2. \A g \in me.batch : g \in Items
    BY <2>1 DEF Buffered
  <2>3. me.todo \ {item} = {g \in me.batch : g.row > n + 1}
    BY <1>2, <1>3, <1>8, <2>1, <2>2
  <2>. QED  BY <1>2, <1>4, <1>5, <2>3 DEF Batched
<1>. QED  BY <1>9, <1>10, <1>11

LEMMA ReadPartSound ==
  ASSUME Typed, Staged, NEW w \in Worker, ReadPart(w), Applied(worker[w]), Buffered(worker[w]),
         Batched(worker[w])
  PROVE  Applied(worker'[w]) /\ Buffered(worker'[w]) /\ Batched(worker'[w])
<1>. DEFINE me == worker[w]
            you == worker'[w]
            n == me.counts.processed
            there == me.part \in DOMAIN parts
            more == IF there THEN {item \in parts[me.part] : item.row > me.seen.last} ELSE {}
<1>1. me.pc = "part"
  BY DEF ReadPart, At
<1>2. /\ you.buffer = me.buffer \cup more /\ you.part = me.part + 1 /\ you.eof = ~there
      /\ you.pc = NextPc(you.buffer, you.eof)
      /\ you.seen = me.seen /\ you.batch = me.batch /\ you.counts = me.counts
      /\ you.tx = me.tx /\ you.aborted = me.aborted
  BY ReadPartMoves DEF Same
<1>3. /\ me.batch = {} /\ me.tx = {} /\ ~me.aborted
      /\ you.pc \in {"part", "state", "finish"} /\ (you.pc = "finish" => you.eof /\ you.buffer = {})
  BY <1>1, <1>2 DEF Batched, Applied, NextPc
<1>4. n \in Nat /\ me.part \in Nat \ {0} /\ me.seen.last \in Nat
  BY WorkForm, Counts DEF IsWork, IsGlance
<1>5. Applied(you)
  <2>1. you.pc # "write"
    BY <1>3
  <2>. QED  BY <1>2, <1>3, <2>1 DEF Applied
<1>6. Batched(you)
  BY <1>2, <1>3 DEF Batched
<1>7. \A g \in Items : Place(g.row) \in Nat \ {0} /\ g.row \in Nat \ {0}
  BY ItemRows
<1>8. \A g \in Items : g \in Ahead(me) <=> g \in Ahead(you) \/ Place(g.row) = me.part
  BY <1>2, <1>4, <1>7 DEF Ahead
<1>9. more \subseteq Items /\ \A g \in more : Place(g.row) = me.part /\ g.row > me.seen.last
  BY ItemRows DEF Staged
<1>10. \A g \in Items : Place(g.row) = me.part /\ g.row > me.seen.last => g \in more
  BY ItemRows DEF Staged
<1>11. ~there => Ahead(you) = {}
  <2>1. ASSUME ~there, NEW g \in Ahead(you) PROVE FALSE
    <3>1. g \in Items /\ me.part <= Place(g.row) /\ g.row \in 1 .. Lines /\ g.row \in Nat \ {0}
      BY <1>2, <1>4, <1>7, <2>1, ItemRows DEF Ahead
    <3>2. PICK j \in 1 .. g.row : Place(j) = me.part
      BY <1>4, <3>1, Places
    <3>3. j \in 1 .. Lines
      BY <3>1, ItemRows
    <3>4. PICK h \in Items : h.row = j
      BY <3>3 DEF Staged
    <3>5. PICK p \in DOMAIN parts : h \in parts[p]
      BY <3>4, ItemRows
    <3>. QED  BY <2>1, <3>2, <3>4, <3>5 DEF Staged
  <2>. QED  BY <2>1
<1>. HIDE DEF more, there, n
<1>12. Buffered(you)
  <2>1. \A g \in Items \ Ahead(you) : g.row > n => g \in you.buffer
    <3>1. ASSUME NEW g \in Items, g \notin Ahead(you), g.row > n PROVE g \in you.buffer
      <4>1. CASE g \notin Ahead(me)
        BY <1>2, <3>1, <4>1 DEF Buffered, n
      <4>2. CASE g \in Ahead(me)
        <5>1. Place(g.row) = me.part /\ g.row > me.seen.last
          BY <1>4, <1>7, <1>8, <3>1, <4>2 DEF Buffered, n
        <5>. QED  BY <1>2, <1>10, <5>1
      <4>. QED  BY <4>1, <4>2
    <3>. QED  BY <3>1
  <2>2. \A g \in Ahead(you) : g.row <= me.seen.last \/ g.row > n
    <3>1. \A g \in Ahead(you) : g \in Ahead(me)
      BY <1>8 DEF Ahead
    <3>. QED  BY <3>1 DEF Buffered, n
  <2>3. \A g \in you.buffer : g \in Items /\ g \notin Ahead(you) /\ g.row > n
    <3>1. ASSUME NEW g \in me.buffer PROVE g \in Items /\ g \notin Ahead(you) /\ g.row > n
      BY <1>1, <1>8, <3>1 DEF Buffered, n
    <3>2. ASSUME NEW g \in more PROVE g \in Items /\ g \notin Ahead(you) /\ g.row > n
      <4>1. g \in Items /\ Place(g.row) = me.part /\ g.row > me.seen.last
        BY <1>9, <3>2
      <4>2. g \notin Ahead(you)
        BY <1>2, <1>4, <4>1 DEF Ahead
      <4>3. g \in Ahead(me)
        BY <1>8, <4>1
      <4>4. ~(g.row <= me.seen.last)
        BY <1>4, <1>7, <4>1
      <4>. QED  BY <4>1, <4>2, <4>3, <4>4 DEF Buffered, n
    <3>. QED  BY <1>2, <3>1, <3>2
  <2>4. you.eof => Ahead(you) = {}
    BY <1>2, <1>11, Zenon
  <2>. QED  BY <1>2, <1>3, <2>1, <2>2, <2>3, <2>4 DEF Buffered, n
<1>. QED  BY <1>5, <1>6, <1>12

LEMMA ReadStateSound ==
  ASSUME Typed, NEW w \in Worker, ReadState(w), Applied(worker[w]), Buffered(worker[w]),
         Batched(worker[w])
  PROVE  Applied(worker'[w]) /\ Buffered(worker'[w]) /\ Batched(worker'[w])
<1>. DEFINE me == worker[w]
            you == worker'[w]
            n == me.counts.processed
            first == FirstRows(me.buffer)
<1>1. me.pc = "state" /\ me.batch = {} /\ me.tx = {} /\ ~me.aborted
  BY DEF ReadState, At, Batched, Applied
<1>2. /\ you.seen = me.seen /\ you.counts = me.counts /\ you.tx = me.tx /\ you.aborted = me.aborted
      /\ you.part = me.part /\ you.eof = me.eof /\ you.buffer = me.buffer
      /\ \/ you.pc \in {"halt", "park"} /\ you.batch = me.batch
         \/ you.pc = "write" /\ you.batch = first /\ you.todo = first
  BY ReadStateMoves DEF Same
<1>3. /\ first \subseteq me.buffer
      /\ \A g \in first, h \in me.buffer : h.row < g.row => h \in first
  BY WorkForm, FirstRowsForm DEF IsWork
<1>4. Ahead(you) = Ahead(me)
  BY <1>2 DEF Ahead
<1>. HIDE DEF first
<1>5. Applied(you)
  BY <1>1, <1>2 DEF Applied
<1>6. Buffered(you)
  BY <1>1, <1>2, <1>4 DEF Buffered
<1>7. first = {g \in first : g.row > n}
  BY <1>1, <1>3 DEF Buffered
<1>8. Batched(you)
  BY <1>1, <1>2, <1>3, <1>7 DEF Batched
<1>. QED  BY <1>5, <1>6, <1>8

LEMMA CommitSound ==
  ASSUME Typed, Staged, NEW w \in Worker, Commit(w), Applied(worker[w]), Buffered(worker[w]),
         Batched(worker[w]), file' = file
  PROVE  /\ Applied(worker[w])' /\ Buffered(worker'[w]) /\ Batched(worker'[w])
         /\ written \subseteq written'
         /\ \A i \in written' : \E g \in Items : g.row = i /\ g.kind # "UNCHANGED"
<1>. DEFINE me == worker[w]
            you == worker'[w]
            n == me.counts.processed
<1>1. me.pc = "write" /\ me.todo = {} /\ parts' = parts
  BY DEF Commit, At, objects
<1>2. /\ you.pc = "checkpoint" /\ you.tx = {} /\ you.aborted = FALSE
      /\ you.seen = me.seen /\ you.counts = me.counts
      /\ you.part = me.part /\ you.eof = me.eof /\ you.buffer = me.buffer /\ you.batch = me.batch
  BY CommitMoves DEF Same
<1>3. \/ me.aborted /\ written' = written
      \/ written' = written \cup {g.row : g \in me.tx}
  BY DEF Commit
<1>4. IsWork(me) /\ n \in Nat
  BY WorkForm, Counts DEF IsWork
<1>5. Items' = Items /\ Lines' = Lines /\ Ahead(you) = Ahead(me)
  BY <1>1, <1>2 DEF Items, Lines, Ahead
<1>6. written \subseteq written' /\ \A i \in written' : \E g \in Items : g.row = i /\ g.kind # "UNCHANGED"
  BY <1>3 DEF Applied, Staged
<1>7. me.counts.failed = 0 => written' = written \cup {g.row : g \in me.tx}
  BY <1>3 DEF Applied
<1>8. Counted(me.counts, written')
  BY <1>7 DEF Applied, Counted
<1>9. Applied(worker[w])'
  <2>1. Counted(you.counts, written' \cup {})
    BY <1>2, <1>8
  <2>2. written' \cup {g.row : g \in you.tx} = written' \cup {}
    BY <1>2
  <2>3. Counted(you.counts, written' \cup {g.row : g \in you.tx})
    BY <2>1, <2>2
  <2>. QED  BY <1>2, <1>5, <2>3 DEF Applied, Counted, Changing
<1>10. Buffered(you)
  BY <1>1, <1>2, <1>5 DEF Buffered
<1>11. Batched(you)
  <2>1. \A g \in me.batch : ~(g.row > n)
    BY <1>1 DEF Batched
  <2>2. \A g \in me.batch : g.row \in Nat
    BY <1>4, RowTypes DEF IsWork, IsBatch
  <2>3. \A g \in me.batch : g.row <= n
    BY <1>4, <2>1, <2>2
  <2>4. \E g \in me.batch : g.row = n
    BY <1>1, <1>4 DEF Batched, IsWork
  <2>. QED  BY <1>1, <1>2, <2>3, <2>4 DEF Batched
<1>. QED  BY <1>6, <1>9, <1>10, <1>11

LEMMA CheckpointSound ==
  ASSUME Typed, NEW w \in Worker, Checkpoint(w), Applied(worker[w]), Buffered(worker[w]),
         Batched(worker[w])
  PROVE  /\ Applied(worker'[w]) /\ Buffered(worker'[w]) /\ Batched(worker'[w])
         /\ row'.last = worker[w].counts.processed /\ row'.counts = worker[w].counts
         /\ Counted(row'.counts, written)
<1>. DEFINE me == worker[w]
            you == worker'[w]
            n == me.counts.processed
<1>1. me.pc = "checkpoint" /\ me.tx = {} /\ ~me.aborted
  BY DEF Checkpoint, At, Applied
<1>2. /\ you.pc = NextPc(you.buffer, you.eof) /\ you.buffer = me.buffer \ me.batch
      /\ you.batch = {} /\ you.seen = me.seen /\ you.counts = me.counts
      /\ you.tx = me.tx /\ you.aborted = me.aborted /\ you.part = me.part /\ you.eof = me.eof
  BY CheckpointMoves DEF Same
<1>3. you.pc \in {"part", "state", "finish"} /\ (you.pc = "finish" => you.eof /\ you.buffer = {})
  BY <1>2 DEF NextPc
<1>4. IsWork(me) /\ n \in Nat
  BY WorkForm, Counts DEF IsWork
<1>5. \A g \in me.batch : g.row \in Nat /\ g.row <= n
  BY <1>1, <1>4, RowTypes DEF IsWork, IsBatch, Batched
<1>6. LastRow(me.batch) = n
  <2>1. me.batch # {}
    BY <1>1, <1>4 DEF IsWork
  <2>2. PICK g \in me.batch : LastRow(me.batch) = g.row /\ \A h \in me.batch : h.row <= g.row
    BY <1>4, <1>5, <2>1, LastOfRows
  <2>3. \E h \in me.batch : h.row = n
    BY <1>1 DEF Batched
  <2>. QED  BY <1>4, <1>5, <2>2, <2>3
<1>7. row'.last = n /\ row'.counts = me.counts
  <2>1. row' = [row EXCEPT !.last = n, !.counts = me.counts]
    BY <1>6 DEF Checkpoint
  <2>2. IsRow(row)
    BY DEF Typed
  <2>. QED  BY <2>1, <2>2 DEF IsRow
<1>8. Applied(you)
  BY <1>1, <1>2, <1>3 DEF Applied
<1>9. Counted(me.counts, written)
  <2>1. written \cup {g.row : g \in me.tx} = written
    BY <1>1
  <2>. QED  BY <2>1 DEF Applied
<1>10. Ahead(you) = Ahead(me)
  BY <1>2 DEF Ahead
<1>11. Buffered(you)
  <2>1. \A g \in Items \ Ahead(you) : g.row > n => g \in you.buffer
    <3>1. \A g \in Items \ Ahead(me) : g.row > n => g \in me.buffer
      BY DEF Buffered
    <3>2. \A g \in me.batch : ~(g.row > n)
      BY <1>4, <1>5
    <3>. QED  BY <1>2, <1>10, <3>1, <3>2
  <2>2. \A g \in you.buffer : g \in Items /\ g \notin Ahead(you) /\ g.row > n
    BY <1>2, <1>10 DEF Buffered
  <2>. QED  BY <1>2, <1>3, <1>10, <2>1, <2>2 DEF Buffered
<1>12. Batched(you)
  BY <1>2, <1>3 DEF Batched
<1>. QED  BY <1>7, <1>8, <1>9, <1>11, <1>12

\* An application begins where the checkpoint is, with nothing read.
LEMMA BeginSound ==
  ASSUME Typed, Staged, NEW w \in Worker, worker'[w].pc = "resolve", Fresh(worker'[w]),
         worker'[w].seen.last = worker'[w].counts.processed,
         worker'[w].seen.last \in Nat, Counted(worker'[w].counts, written)
  PROVE  Applied(worker'[w]) /\ Buffered(worker'[w]) /\ Batched(worker'[w])
<1>. DEFINE you == worker'[w]
<1>1. /\ you.part = 1 /\ you.buffer = {} /\ you.batch = {} /\ you.tx = {} /\ ~you.eof /\ ~you.aborted
  BY DEF Fresh
<1>2. Applied(you)
  <2>1. written \cup {g.row : g \in you.tx} = written
    BY <1>1
  <2>. QED  BY <1>1, <2>1 DEF Applied
<1>3. Ahead(you) = Items
  BY <1>1, ItemRows DEF Ahead
<1>4. \A g \in Items : g.row <= you.seen.last \/ g.row > you.seen.last
  BY ItemRows
<1>5. Buffered(you)
  BY <1>1, <1>3, <1>4 DEF Buffered
<1>6. Batched(you)
  BY <1>1 DEF Batched
<1>. QED  BY <1>2, <1>5, <1>6

\* What is carried on, in the same place or in the next one, while the departments are
\* resolved and after.
LEMMA StepsSound ==
  ASSUME NEW w \in Worker, Applied(worker[w]), Buffered(worker[w]), Batched(worker[w]),
         worker[w].pc \in Committing \ {"write", "checkpoint"},
         worker'[w].pc \in Committing \ {"write", "checkpoint", "finish"},
         Same(worker[w], worker'[w], {"alias", "todo", "known"})
  PROVE  Applied(worker'[w]) /\ Buffered(worker'[w]) /\ Batched(worker'[w])
<1>. DEFINE me == worker[w]
            you == worker'[w]
<1>1. /\ you.seen = me.seen /\ you.counts = me.counts /\ you.tx = me.tx /\ you.aborted = me.aborted
      /\ you.part = me.part /\ you.eof = me.eof /\ you.buffer = me.buffer /\ you.batch = me.batch
  BY DEF Same
<1>2. Ahead(you) = Ahead(me)
  BY <1>1 DEF Ahead
<1>3. Applied(you)
  BY <1>1 DEF Applied
<1>4. Buffered(you)
  BY <1>1, <1>2 DEF Buffered
<1>5. Batched(you)
  BY <1>1 DEF Batched
<1>. QED  BY <1>3, <1>4, <1>5

------------------------------------------------------------------------------
(* From the validation to the review.                                         *)

LEMMA StageSound ==
  ASSUME Typed, NEW w \in Worker, Stage(w), Staging(worker[w])
  PROVE  Staging(worker[w])'
<1>. DEFINE me == worker[w]
            you == worker'[w]
            chunk == Chunk(me.good, me.part)
<1>1. you.part = me.part + 1 /\ you.good = me.good /\ me.part \in Nat \ {0}
  BY StageMoves, WorkForm DEF Same, IsWork
<1>2. parts' = [p \in DOMAIN parts \cup {me.part} |-> IF p = me.part THEN chunk ELSE parts[p]]
  BY DEF Stage
<1>3. \A p \in 1 .. you.part - 1 : p = me.part \/ (p \in 1 .. me.part - 1 /\ p # me.part)
  BY <1>1
<1>4. \A p \in 1 .. me.part - 1 : p \in DOMAIN parts /\ parts[p] = Chunk(me.good, p)
  BY DEF Staging
<1>5. \A p \in 1 .. you.part - 1 : p \in DOMAIN parts' /\ parts'[p] = Chunk(you.good, p)
  <2>. HIDE DEF me, you
  <2>1. ASSUME NEW p \in 1 .. you.part - 1 PROVE p \in DOMAIN parts' /\ parts'[p] = Chunk(you.good, p)
    <3>1. CASE p = me.part
      BY <1>1, <1>2, <3>1
    <3>2. CASE p \in 1 .. me.part - 1 /\ p # me.part
      BY <1>1, <1>2, <1>4, <3>2
    <3>. QED  BY <1>3, <3>1, <3>2
  <2>. QED  BY <2>1
<1>. QED  BY <1>5 DEF Staging, Chunk

\* Of the rows without errors no two are about the same employee or email.
LEMMA GoodApart ==
  ASSUME Typed, NEW c, Checked(c), c.good = Items,
         NEW g \in Items, NEW h \in Items, g.number = h.number \/ (g.mail # None /\ g.mail = h.mail)
  PROVE  g = h
<1>. DEFINE rows == Rows(c.cols)
<1>1. \A x \in Items : /\ x.row \in (1 .. c.at) \ c.wrong /\ x.row \in Nat
                       /\ ~Repeated(rows, x.row) /\ x.number = rows[x.row].number /\ x.mail = rows[x.row].mail
  BY DEF Checked
<1>2. \A x \in Items : x.number # None
  <2>1. \A x \in Items : x.number \in Number
    BY ItemRows, RowTypes
  <2>. QED  BY <2>1, CellAssumption
<1>3. ASSUME NEW x \in Items, NEW y \in Items, x.row < y.row,
             x.number = y.number \/ (x.mail # None /\ x.mail = y.mail)
      PROVE  FALSE
  <2>. HIDE DEF rows
  <2>1. x.row \in 1 .. y.row - 1
    BY <1>1, <1>3
  <2>2. \/ rows[y.row].number # None /\ rows[x.row].number = rows[y.row].number
        \/ rows[y.row].mail # None /\ rows[x.row].mail = rows[y.row].mail
    <3>1. /\ x.number = rows[x.row].number /\ x.mail = rows[x.row].mail
          /\ y.number = rows[y.row].number /\ y.mail = rows[y.row].mail /\ y.number # None
      BY <1>1, <1>2
    <3>. QED  BY <1>3, <3>1
  <2>3. Repeated(rows, y.row)
    BY <2>1, <2>2 DEF Repeated
  <2>. QED  BY <1>1, <2>3
<1>4. g.row = h.row
  BY <1>1, <1>3
<1>. QED  BY <1>4 DEF Checked, Distinct

LEMMA WholeStaged ==
  ASSUME Typed, NEW w \in Worker, worker[w].pc = "stage", Staging(worker[w]),
         Chunk(worker[w].good, worker[w].part) = {}, worker[w].wrong = {}
  PROVE  /\ Items = worker[w].good
         /\ \A p \in DOMAIN parts : \A g \in parts[p] : p = Place(g.row)
         /\ \A i \in 1 .. Lines : \E g \in Items : g.row = i
         /\ Distinct(Items) /\ OnePerEmployee(Items)
<1>. DEFINE me == worker[w]
            S == me.good
<1>1. /\ IsBatch(S) /\ Distinct(S)
      /\ \A i \in 1 .. Lines : \E g \in S : g.row = i
      /\ \A g \in S : g.row \in 1 .. Lines
  <2>1. Checked(me)
    BY DEF Typed
  <2>2. me.at = Lines /\ (1 .. me.at) \ me.wrong = 1 .. Lines
    BY <2>1 DEF Checked
  <2>. QED  BY <2>1, <2>2 DEF Checked
<1>2. \A g \in S : \A i \in 1 .. g.row : \E h \in S : h.row = i
  BY <1>1, ItemRows
<1>3. me.part \in Nat \ {0}
  BY WorkForm DEF IsWork
<1>4. \A g \in S : Place(g.row) < me.part /\ Place(g.row) \in Nat \ {0}
  BY <1>1, <1>2, <1>3, WholeChunks, Places
<1>5. \A p \in 1 .. me.part - 1 : p \in DOMAIN parts /\ parts[p] = {g \in S : Place(g.row) = p}
  BY <1>1, <1>2, <1>3, WholeChunks DEF Staging
<1>6. \A p \in DOMAIN parts : p \in 1 .. me.part - 1
  <2>1. ASSUME NEW p \in DOMAIN parts PROVE p \in 1 .. me.part - 1
    <3>1. p \in Nat \ {0} /\ parts[p] # {} /\ \A g \in parts[p] : p <= Place(g.row)
      BY DEF Typed, PartOK
    <3>2. PICK g \in parts[p] : p <= Place(g.row)
      BY <3>1
    <3>3. g.row \in 1 .. Lines
      BY <3>2, ItemRows
    <3>4. PICK h \in S : h.row = g.row
      BY <1>1, <3>3
    <3>. QED  BY <1>3, <1>4, <3>1, <3>2, <3>4
  <2>. QED  BY <2>1
<1>7. Items = S
  <2>1. \A g \in Items : g \in S
    BY <1>5, <1>6, ItemRows
  <2>2. ASSUME NEW g \in S PROVE g \in Items
    <3>1. Place(g.row) \in 1 .. me.part - 1
      BY <1>3, <1>4
    <3>. QED  BY <1>5, <3>1, ItemRows
  <2>. QED  BY <2>1, <2>2
<1>8. OnePerEmployee(Items)
  <2>1. Checked(me)
    BY DEF Typed
  <2>. QED  BY <1>7, <2>1, GoodApart DEF OnePerEmployee
<1>. QED  BY <1>1, <1>5, <1>6, <1>7, <1>8

LEMMA ReadyRow ==
  ASSUME Typed, NEW w \in Worker, Ready(w), Staging(worker[w]), row.status = "VALIDATING",
         row.last = 0, row.counts = Counters, written = {}, file' = file
  PROVE  RowExact'
<1>. DEFINE me == worker[w]
            wrong == Cardinality(me.wrong)
            same == Cardinality({g \in me.good : g.kind = "UNCHANGED"})
            plan == me.seen.plan
<1>1. /\ me.pc = "stage" /\ Chunk(me.good, me.part) = {} /\ parts' = parts /\ written' = written
      /\ row' = [row EXCEPT !.status = "READY_FOR_REVIEW", !.prefix = TRUE, !.total = Lines,
                                   !.invalid = wrong, !.unchanged = same, !.plan = plan]
  BY DEF Ready, At, Lines, objects, directory
<1>2. /\ row'.total = Lines /\ row'.invalid = wrong /\ row'.unchanged = same
      /\ row'.last = 0 /\ row'.counts = Counters
  <2>1. IsRow(row)
    BY DEF Typed
  <2>. HIDE DEF wrong, same, plan
  <2>. QED  BY <1>1, <2>1 DEF IsRow
<1>3. Lines' = Lines /\ Items' = Items /\ Lines \in Nat
  BY <1>1, LinesType DEF Lines, Items
<1>4. Counters.processed = 0 /\ Counters.created + Counters.updated + Counters.failed = 0
  BY DEF Counters
<1>5. Changing(0) = {} /\ Changing(0)' = {}
  <2>1. Changing(0) = {}
    BY NoneChanging
  <2>. QED  BY <1>3, <2>1 DEF Changing
<1>6. Counted(row.counts, written)'
  BY <1>2, <1>3, <1>4, <1>5, FS_EmptySet DEF Counted
<1>7. ASSUME wrong = 0 PROVE Staged'
  <2>1. me.wrong = {}
    <3>1. Checked(me)
      BY <1>1 DEF Typed
    <3>2. me.wrong \subseteq 1 .. me.at /\ me.at \in Nat
      BY <3>1, <1>3 DEF Checked
    <3>3. IsFiniteSet(1 .. me.at)
      <4>. DEFINE n == me.at
      <4>1. n \in Nat
        BY <3>2
      <4>. HIDE DEF n
      <4>2. IsFiniteSet(1 .. n)
        BY <4>1, FS_Interval
      <4>. QED  BY <4>2 DEF n
    <3>4. IsFiniteSet(me.wrong)
      BY <3>2, <3>3, FS_Subset
    <3>. QED  BY <1>7, <3>4, FS_EmptySet
  <2>2. /\ Items = me.good
        /\ \A p \in DOMAIN parts : \A g \in parts[p] : p = Place(g.row)
        /\ \A i \in 1 .. Lines : \E g \in Items : g.row = i
        /\ Distinct(Items) /\ OnePerEmployee(Items)
    BY <1>1, <2>1, WholeStaged
  <2>3. \A i \in written' : FALSE
    BY <1>1
  <2>4. Cardinality({g \in Items' : g.kind = "UNCHANGED"}) = row'.unchanged
    BY <1>2, <1>3, <2>2
  <2>. QED  BY <1>1, <1>3, <2>2, <2>3, <2>4 DEF Staged, Place, Distinct, OnePerEmployee
<1>8. row'.counts.processed = row'.last
  BY <1>2, <1>4
<1>. QED  BY <1>1, <1>2, <1>3, <1>6, <1>7, <1>8 DEF RowExact, Confirmed

------------------------------------------------------------------------------
(* What a step leaves alone.                                                  *)

LEMMA PartsMove ==
  ASSUME Typed, Control, [Next]_vars, Orderly'
  PROVE  \/ parts' = parts
         \/ parts' = << >> /\ row.status \in Terminal
         \/ \E w \in Worker : Stage(w)
<1>. DEFINE Fine == \/ parts' = parts
                    \/ parts' = << >> /\ row.status \in Terminal
                    \/ \E w \in Worker : Stage(w)
<1>. SUFFICES Fine
  OBVIOUS
<1>1. ASSUME NEW w \in Worker, Work(w) \/ Fault(w) PROVE Fine
  <2>1. CASE Stage(w)
    BY <2>1
  <2>2. CASE Discard(w)
    <3>1. parts' = << >> /\ row.status \in Terminal
      BY <2>2 DEF Discard, DeletePrefix, At, Control
    <3>. QED  BY <3>1
  <2>3. CASE Validate(w) /\ ~Stage(w) /\ ~Discard(w)
    <3>1. objects' = objects
      BY <2>3, Zenon DEF Validate, ClaimValidation, Parse, ParseNothing, Refuse, Classify,
              PlanDepartments, Ready, Abandon
    <3>. QED  BY <3>1 DEF objects
  <2>4. CASE Apply(w)
    <3>1. objects' = objects
      BY <2>4, Zenon DEF Apply, Look, ClaimApply, ResolveDepartment, Resolved, ReadPart, ReadState,
              Halt, Park, ApplyRow, Commit, Checkpoint, Finish, Late
    <3>. QED  BY <3>1 DEF objects
  <2>5. CASE Take(w) \/ Return(w) \/ GiveBack(w) \/ Fault(w)
    <3>1. objects' = objects
      BY <2>5, Zenon DEF Take, Return, GiveBack, Fault, Throw, Crash
    <3>. QED  BY <3>1 DEF objects
  <2>. HIDE DEF Fine
  <2>. QED  BY <1>1, <2>1, <2>2, <2>3, <2>4, <2>5 DEF Work
<1>2. ASSUME NEW r \in Request, Serve(r) PROVE Fine
  <2>1. CASE CleanArtifacts(r)
    <3>1. parts' = << >> /\ row.status \in Terminal
      BY <2>1 DEF CleanArtifacts, DeletePrefix, Reached, Control
    <3>. QED  BY <3>1
  <2>2. CASE ~CleanArtifacts(r)
    <3>1. objects' = objects
      BY <1>2, <2>2, Zenon DEF Serve, Create, UploadComplete, MarkUploaded, Confirm, Resume,
              ClaimConfirmed, Enqueue, Undo, Cancel, CancelIdle, FlagCancelling
    <3>. QED  BY <3>1 DEF objects
  <2>. HIDE DEF Fine
  <2>. QED  BY <2>1, <2>2
<1>3. CASE SweepDelete
  <2>1. swept' = FALSE
    BY RestTyped DEF Orderly
  <2>2. \/ parts' = << >> /\ row.status \in Terminal
        \/ parts' = parts
    BY <1>3, <2>1 DEF SweepDelete, DeletePrefix, objects, Typed
  <2>. QED  BY <2>2
<1>4. CASE SweepStale
  <2>1. parts' = << >> /\ row.status \in Terminal
    BY <1>4 DEF SweepStale, DeletePrefix, Terminal
  <2>. QED  BY <2>1
<1>5. ASSUME Stalled \/ PutFile \/ Pause \/ SweepList \/ SweepMark \/ Expire \/ Colleague
      PROVE  Fine
  <2>1. parts' = parts
    BY <1>5 DEF Stalled, PutFile, Pause, SweepList, SweepMark, Expire, Colleague, objects
  <2>. QED  BY <2>1
<1>6. UNCHANGED vars => Fine
  BY DEF vars, objects
<1>. HIDE DEF Fine
<1>. QED  BY <1>1, <1>2, <1>3, <1>4, <1>5, <1>6 DEF Next, Sweep

LEMMA ReviewStays ==
  ASSUME Typed, Asked, [Next]_vars
  PROVE  SameReview(row, row') \/ row.status \in {"VALIDATING", "ABSENT"}
<1>1. row' = row => SameReview(row, row')
  BY DEF SameReview
<1>. QED  BY <1>1, RowMoves

LEMMA CountsStay ==
  ASSUME Typed, Asked, Reviewed, RowExact, [Next]_vars,
         \A w \in Worker : ~Checkpoint(w),
         row.status = "VALIDATING" => \A w \in Worker : ~Ready(w),
         row.status = "APPLYING" => \A w \in Worker : ~Finish(w)
  PROVE  row'.last = row.last /\ row'.counts = row.counts
<1>1. CASE row.status = "ABSENT" /\ row' = [FreshRow EXCEPT !.status = "AWAITING_UPLOAD"]
  <2>1. row.last = 0 /\ row.counts = Counters
    BY <1>1 DEF RowExact, Confirmed, Reviewed
  <2>. QED  BY <1>1, <2>1 DEF FreshRow
<1>. QED  BY <1>1, RowMoves

\* Whoever applies the import has been asked to, and it has not ended.
LEMMA Underway ==
  ASSUME Queued, Reviewed, Control, Consented, NEW w \in Worker,
         worker[w].pc \in Committing \cup {"look", "claimApply"}
  PROVE  Confirmed /\ (worker[w].pc \in Committing => Live)
<1>1. row.prefix
  BY Exclusive
<1>2. PICK j \in jobs : j.id = worker[w].job
  BY DEF Queued, Holds, Committing
<1>3. row.invalid = 0
  BY <1>2 DEF Queued, Consented
<1>4. worker[w].pc \in Committing => Live
  BY Statuses DEF Control, Live
<1>. QED  BY <1>1, <1>3, <1>4 DEF Confirmed

LEMMA ConsentedStep ==
  ASSUME Typed, Queued, Reviewed, Asked, Control, Consented, [Next]_vars
  PROVE  Consented'
<1>1. row.prefix => row'.invalid = row.invalid
  BY ReviewStays DEF Control, SameReview
<1>2. ASSUME NEW r \in Request, request[r].op \in {"confirm", "resume"} PROVE row'.invalid = 0
  BY <1>1, <1>2 DEF Consented, Reviewed
<1>3. ASSUME row.status \in {"READY_FOR_REVIEW", "APPLY_QUEUED", "APPLYING", "PAUSING", "PAUSED"}, row.invalid = 0
      PROVE  row'.invalid = 0
  BY <1>1, <1>3 DEF Reviewed
<1>4. ASSUME NEW j \in jobs', j.id[1] # "validate" PROVE row'.invalid = 0
  <2>1. CASE \E i \in jobs : i.id = j.id
    BY <1>1, <1>4, <2>1 DEF Reviewed, Consented
  <2>2. CASE \E r \in Request : Enqueue(r) /\ j.id = JobId(r)
    <3>1. PICK r \in Request : Enqueue(r) /\ j.id = JobId(r)
      BY <2>2
    <3>2. request[r].op \in {"upload", "confirm", "resume"}
      BY <3>1 DEF Enqueue, Reached, Asked
    <3>3. request[r].op # "upload"
      BY <1>4, <3>1 DEF JobId
    <3>. QED  BY <1>2, <3>2, <3>3
  <2>. QED  BY <2>1, <2>2, JobIds
<1>5. ASSUME NEW r \in Request, request'[r].op \in {"confirm", "resume"} PROVE row'.invalid = 0
  <2>1. CASE Confirm(r)
    BY <1>3, <2>1 DEF Confirm
  <2>2. CASE Resume(r)
    BY <1>3, <2>2 DEF Resume, Consented
  <2>. QED  BY <1>2, <1>5, <2>1, <2>2, OpMoves
<1>6. row'.status \in {"APPLY_QUEUED", "APPLYING", "PAUSING", "PAUSED"} => row'.invalid = 0
  <2>1. row.status \in {"APPLY_QUEUED", "APPLYING", "PAUSING", "PAUSED"} => row'.invalid = 0
    BY <1>3 DEF Consented
  <2>. QED  BY <1>2, <2>1, RowMoves DEF Cancelled, Completed, FreshRow
<1>. QED  BY <1>4, <1>5, <1>6 DEF Consented

------------------------------------------------------------------------------
(* What is right about the import stays right.                                *)

LEMMA Carry ==
  ASSUME NEW w \in Worker, parts' = parts, file' = file, written \subseteq written'
  PROVE  /\ Applied(worker'[w]) => Applied(worker[w])'
         /\ Buffered(worker'[w]) => Buffered(worker[w])'
         /\ Batched(worker'[w]) => Batched(worker[w])'
         /\ Fresh(worker'[w]) => Fresh(worker[w])'
         /\ Counted(worker'[w].counts, written) => Counted(worker[w].counts, written)'
<1>1. Items' = Items /\ Lines' = Lines
  BY DEF Items, Lines
<1>2. Applied(worker'[w]) => Applied(worker[w])'
  BY <1>1 DEF Applied, Counted, Changing
<1>3. Buffered(worker'[w]) => Buffered(worker[w])'
  BY <1>1 DEF Buffered, Ahead, Place
<1>4. Batched(worker'[w]) => Batched(worker[w])'
  BY DEF Batched
<1>5. Fresh(worker'[w]) => Fresh(worker[w])'
  BY DEF Fresh
<1>6. Counted(worker'[w].counts, written) => Counted(worker[w].counts, written)'
  BY <1>1 DEF Counted, Changing
<1>. QED  BY <1>2, <1>3, <1>4, <1>5, <1>6

LEMMA OthersSound ==
  ASSUME Typed, Queued, Reviewed, Asked, Control, Consented, [Next]_vars, Orderly',
         written \subseteq written', NEW w \in Worker, Sound(w), worker'[w] = worker[w]
  PROVE  Sound(w)'
<1>. DEFINE me == worker[w]
<1>1. file' = file
  BY FileKept
<1>2. ASSUME me.pc = "stage" PROVE Staging(worker[w])'
  <2>1. row.status \notin Terminal
    BY <1>2, Statuses DEF Control, Started
  <2>2. ASSUME NEW v \in Worker, Stage(v) PROVE FALSE
    <3>1. worker'[v].part = worker[v].part + 1 /\ worker[v].part \in Nat
      BY <2>2, StageMoves, WorkForm DEF IsWork
    <3>2. worker[v].pc = "stage" /\ worker'[v].part # worker[v].part
      BY <2>2, <3>1 DEF Stage, At
    <3>. QED  BY <1>2, <3>2, Exclusive DEF Validating
  <2>3. parts' = parts
    BY <2>1, <2>2, PartsMove
  <2>. QED  BY <1>2, <2>3 DEF Sound, Staging, Chunk
<1>3. ASSUME me.pc \in Committing \cup {"look", "claimApply"}, Live PROVE parts' = parts
  <2>1. row.prefix
    BY <1>3, Exclusive
  <2>2. ASSUME NEW v \in Worker, Stage(v) PROVE FALSE
    BY <2>1, <2>2 DEF Stage, At, Control, Started
  <2>. QED  BY <1>3, <2>2, PartsMove DEF Live
<1>4. ASSUME me.pc \in {"look", "claimApply", "resolve"} PROVE Fresh(worker[w])'
  BY <1>4 DEF Sound, Fresh
<1>5. ASSUME me.pc = "claimApply", Live'
      PROVE  worker'[w].seen.last = worker'[w].counts.processed /\ Counted(worker[w].counts, written)'
  <2>1. Live
    BY <1>5, EndedStays, Statuses DEF Live
  <2>2. parts' = parts
    BY <1>3, <1>5, <2>1
  <2>3. me.seen.last = me.counts.processed /\ Counted(me.counts, written)
    BY <1>5, <2>1 DEF Sound
  <2>. QED  BY <1>1, <2>2, <2>3, Carry
<1>6. ASSUME me.pc \in Committing
      PROVE  Applied(worker[w])' /\ Buffered(worker[w])' /\ Batched(worker[w])'
  <2>1. Live
    BY <1>6, Underway
  <2>2. parts' = parts
    BY <1>3, <1>6, <2>1
  <2>3. Applied(me) /\ Buffered(me) /\ Batched(me)
    BY <1>6 DEF Sound
  <2>. QED  BY <1>1, <2>2, <2>3, Carry
<1>. QED  BY <1>2, <1>4, <1>5, <1>6 DEF Sound

\* Rows that are being applied are as they were reviewed.
LEMMA AsReviewed ==
  ASSUME Typed, Queued, Reviewed, Control, Consented, RowExact, [Next]_vars, Orderly',
         NEW w \in Worker, worker[w].pc \in Committing
  PROVE  parts' = parts /\ Staged /\ Counted(row.counts, written)
<1>1. Confirmed /\ Live
  <2>1. worker[w].pc \in Committing \cup {"look", "claimApply"}
    OBVIOUS
  <2>. QED  BY <2>1, Underway
<1>2. ASSUME NEW v \in Worker, Stage(v) PROVE FALSE
  BY <1>1, <1>2 DEF Stage, At, Control, Started, Confirmed
<1>3. parts' = parts
  BY <1>1, <1>2, PartsMove DEF Live
<1>. QED  BY <1>1, <1>3 DEF RowExact

\* A worker that goes on after a look at the row.
LEMMA LookSound ==
  ASSUME Typed, Queued, Reviewed, Control, Consented, RowExact, [Next]_vars, Orderly',
         NEW w \in Worker, Look(w), Sound(w)
  PROVE  Sound(w)'
<1>. DEFINE me == worker[w]
            you == worker'[w]
<1>1. /\ me.pc = "look" /\ you.pc \in {"return", "refuse", "claimApply"}
      /\ you.seen = Glance(row) /\ you.counts = row.counts /\ Same(me, you, {"seen", "counts"})
  BY LookMoves DEF Look, At
<1>2. Fresh(me)
  BY <1>1 DEF Sound
<1>3. Fresh(you)
  BY <1>1, <1>2 DEF Fresh, Same
<1>4. row' = row /\ parts' = parts /\ written' = written /\ file' = file
  BY DEF Look, objects, directory, outside, cleanup
<1>5. ASSUME Live PROVE you.seen.last = you.counts.processed /\ Counted(you.counts, written)
  <2>1. Confirmed
    BY <1>1, Underway
  <2>2. row.counts.processed = row.last /\ Counted(row.counts, written)
    BY <1>5, <2>1 DEF RowExact
  <2>. QED  BY <1>1, <2>2 DEF Glance
<1>6. Live' => Live
  BY <1>4 DEF Live
<1>7. Fresh(worker[w])' /\ (Live' => worker'[w].seen.last = worker'[w].counts.processed
                                       /\ Counted(worker[w].counts, written)')
  BY <1>3, <1>4, <1>5, <1>6, Carry
<1>. QED  BY <1>1, <1>7 DEF Sound, Committing

LEMMA ClaimSound ==
  ASSUME Typed, Queued, Reviewed, Asked, Control, Control', Consented, RowExact, [Next]_vars, Orderly',
         NEW w \in Worker, ClaimApply(w), Sound(w)
  PROVE  Sound(w)'
<1>. DEFINE me == worker[w]
            you == worker'[w]
<1>1. me.pc = "claimApply" /\ Fresh(me)
  BY ClaimApplyMoves DEF Sound
<1>2. parts' = parts /\ written' = written /\ file' = file
  BY DEF ClaimApply, objects, directory, cleanup
<1>3. CASE you.pc = "return"
  BY <1>3 DEF Sound, Committing
<1>4. CASE you.pc = "resolve" /\ Same(me, you, {"known", "todo"})
  <2>1. Live
    <3>1. row'.status \notin Terminal
      BY <1>4, Statuses DEF Control, Committing
    <3>. QED  BY <3>1, EndedStays, Statuses DEF Live
  <2>2. Confirmed /\ Staged
    BY <1>1, <2>1, Underway DEF RowExact
  <2>3. me.seen.last = me.counts.processed /\ Counted(me.counts, written)
    BY <1>1, <2>1 DEF Sound
  <2>4. you.seen = me.seen /\ you.counts = me.counts
    BY <1>4 DEF Same
  <2>5. Fresh(you)
    BY <1>1, <1>4 DEF Fresh, Same
  <2>6. you.seen.last \in Nat
    BY <2>4, WorkForm DEF IsWork, IsGlance
  <2>7. Applied(worker'[w]) /\ Buffered(worker'[w]) /\ Batched(worker'[w])
    BY <1>4, <2>2, <2>3, <2>4, <2>5, <2>6, BeginSound
  <2>8. Fresh(worker[w])' /\ Applied(worker[w])' /\ Buffered(worker[w])' /\ Batched(worker[w])'
    BY <1>2, <2>5, <2>7, Carry
  <2>. QED  BY <1>4, <2>8 DEF Sound
<1>. QED  BY <1>3, <1>4, ClaimApplyMoves

LEMMA ResolveSound ==
  ASSUME Typed, Queued, Reviewed, Control, Consented, RowExact, [Next]_vars, Orderly',
         NEW w \in Worker, ResolveDepartment(w) \/ Resolved(w), Sound(w)
  PROVE  Sound(w)'
<1>. DEFINE me == worker[w]
            you == worker'[w]
<1>1. me.pc = "resolve" /\ Fresh(me) /\ Applied(me) /\ Buffered(me) /\ Batched(me)
  BY DEF Sound, ResolveDepartment, Resolved, At, Committing
<1>2. parts' = parts
  <2>1. worker[w].pc \in Committing
    BY <1>1 DEF Committing
  <2>. QED  BY <2>1, AsReviewed
<1>3. written' = written /\ file' = file
  BY FileKept DEF ResolveDepartment, Resolved, directory
<1>4. \/ you.pc \in {"return", "caught"}
      \/ you.pc \in {"resolve", "part"} /\ Same(me, you, {"alias", "todo", "known"})
  <2>1. CASE Resolved(w)
    <3>1. you.pc = "part" /\ Same(me, you, {"alias"})
      BY <2>1, ResolvedMoves
    <3>. QED  BY <3>1 DEF Same
  <2>2. CASE ResolveDepartment(w)
    <3>1. PICK from \in me.todo : LET target == Planned(me.seen.plan, from) IN
             ResolveKnown(w, from, target) \/ ResolveRefused(w, target) \/ ResolveCreate(w, target)
      BY <2>2 DEF ResolveDepartment
    <3>. DEFINE target == Planned(me.seen.plan, from)
    <3>2. CASE ResolveKnown(w, from, target)
      <4>1. you.pc = "resolve" /\ Same(me, you, {"todo", "alias"})
        BY <1>1, <3>2, KnownMoves
      <4>. QED  BY <4>1 DEF Same
    <3>3. CASE ResolveRefused(w, target)
      BY <3>3, GoMoves DEF ResolveRefused
    <3>4. CASE ResolveCreate(w, target)
      <4>1. you.pc = "caught" \/ (you.pc = "resolve" /\ Same(me, you, {"known"}))
        BY <1>1, <3>4, CreateMoves
      <4>. QED  BY <4>1 DEF Same
    <3>. QED  BY <3>1, <3>2, <3>3, <3>4
  <2>. QED  BY <2>1, <2>2
<1>5. CASE you.pc \in {"return", "caught"}
  BY <1>5 DEF Sound, Committing
<1>6. CASE you.pc \in {"resolve", "part"} /\ Same(me, you, {"alias", "todo", "known"})
  <2>1. Applied(worker'[w]) /\ Buffered(worker'[w]) /\ Batched(worker'[w])
    BY <1>1, <1>6, StepsSound DEF Committing
  <2>2. Fresh(worker'[w])
    BY <1>1, <1>6 DEF Fresh, Same
  <2>3. Fresh(worker[w])' /\ Applied(worker[w])' /\ Buffered(worker[w])' /\ Batched(worker[w])'
    BY <1>2, <1>3, <2>1, <2>2, Carry
  <2>. QED  BY <1>6, <2>3 DEF Sound
<1>. QED  BY <1>4, <1>5, <1>6

\* A batch is read, written, counted.
LEMMA BatchSound ==
  ASSUME Typed, Queued, Reviewed, Control, Consented, RowExact, [Next]_vars, Orderly',
         NEW w \in Worker, Sound(w),
         ReadPart(w) \/ ReadState(w) \/ ApplyRow(w) \/ Commit(w) \/ Checkpoint(w)
  PROVE  Sound(w)' /\ written \subseteq written'
<1>. DEFINE me == worker[w]
            you == worker'[w]
            Whole == Applied(worker[w])' /\ Buffered(worker[w])' /\ Batched(worker[w])'
<1>1. me.pc \in Committing \ {"resolve"} /\ Applied(me) /\ Buffered(me) /\ Batched(me)
  <2>1. me.pc \in {"part", "state", "write", "checkpoint"}
    BY DEF ReadPart, ReadState, ApplyRow, Commit, Checkpoint, At
  <2>. QED  BY <2>1 DEF Sound, Committing
<1>2. parts' = parts /\ Staged /\ file' = file
  <2>1. worker[w].pc \in Committing
    BY <1>1
  <2>. QED  BY <2>1, AsReviewed, FileKept
<1>3. you.pc \in Committing \ {"resolve"}
  <2>1. you.pc \in {"part", "state", "finish", "halt", "park", "write", "checkpoint"}
    BY <1>2, ReadPartWork, ReadStateWork, ApplyRowWork, CommitWork, CheckpointWork
  <2>. QED  BY <2>1 DEF Committing
<1>4. CASE Commit(w)
  <2>1. Applied(worker[w])' /\ Buffered(worker'[w]) /\ Batched(worker'[w]) /\ written \subseteq written'
    BY <1>1, <1>2, <1>4, CommitSound
  <2>2. Whole
    BY <1>2, <2>1, Carry
  <2>. QED  BY <1>3, <2>1, <2>2 DEF Sound, Committing
<1>5. CASE ReadPart(w) \/ ReadState(w) \/ ApplyRow(w) \/ Checkpoint(w)
  <2>1. written' = written
    BY <1>5 DEF ReadPart, ReadState, ApplyRow, Checkpoint, directory
  <2>2. Applied(worker'[w]) /\ Buffered(worker'[w]) /\ Batched(worker'[w])
    BY <1>1, <1>2, <1>5, ReadPartSound, ReadStateSound, ApplyRowSound, CheckpointSound
  <2>3. Whole
    BY <1>2, <2>1, <2>2, Carry
  <2>. QED  BY <1>3, <2>1, <2>3 DEF Sound, Committing
<1>. QED  BY <1>4, <1>5

LEMMA LeavingSound ==
  ASSUME NEW w \in Worker,
         worker'[w].pc \notin Committing \cup {"stage", "look", "claimApply"}
  PROVE  Sound(w)'
BY DEF Sound, Committing

LEMMA TurningSound ==
  ASSUME Typed, Queued, Reviewed, Control, Consented, RowExact, [Next]_vars, Orderly',
         NEW w \in Worker, Sound(w), Halt(w) \/ Park(w) \/ Finish(w) \/ Late(w)
  PROVE  Sound(w)'
<1>. DEFINE me == worker[w]
            you == worker'[w]
<1>1. \/ you.pc \in {"return", "discard"}
      \/ Finish(w) /\ you.pc = "late" /\ Same(me, you, {})
  BY GoMoves DEF Halt, Park, Finish, Late
<1>2. CASE you.pc \in {"return", "discard"}
  BY <1>2, LeavingSound DEF Committing
<1>3. CASE Finish(w) /\ you.pc = "late" /\ Same(me, you, {})
  <2>1. me.pc = "finish" /\ me.pc \in Committing
    BY <1>3 DEF Finish, At, Committing
  <2>2. parts' = parts /\ file' = file /\ written' = written
    <3>1. worker[w].pc \in Committing
      BY <2>1
    <3>. QED  BY <1>3, <3>1, AsReviewed, FileKept DEF Finish, directory
  <2>3. Applied(me) /\ Buffered(me) /\ Batched(me)
    BY <2>1 DEF Sound
  <2>4. Same(worker[w], worker'[w], {"alias", "todo", "known"})
    BY <1>3 DEF Same
  <2>5. Applied(worker'[w]) /\ Buffered(worker'[w]) /\ Batched(worker'[w])
    BY <1>3, <2>1, <2>3, <2>4, StepsSound DEF Committing
  <2>6. Applied(worker[w])' /\ Buffered(worker[w])' /\ Batched(worker[w])'
    BY <2>2, <2>5, Carry
  <2>. QED  BY <1>3, <2>6 DEF Sound
<1>. QED  BY <1>1, <1>2, <1>3

\* What a worker holds stays right, whatever it does.
LEMMA ActSound ==
  ASSUME Typed, Queued, Reviewed, Asked, Control, Control', Consented, RowExact, [Next]_vars, Orderly',
         NEW w \in Worker, Sound(w), Work(w) \/ Fault(w)
  PROVE  Sound(w)' /\ written \subseteq written'
<1>1. CASE ReadPart(w) \/ ReadState(w) \/ ApplyRow(w) \/ Commit(w) \/ Checkpoint(w)
  BY <1>1, BatchSound
<1>2. CASE Halt(w) \/ Park(w) \/ Finish(w) \/ Late(w)
  BY <1>2, TurningSound DEF Halt, Park, Finish, Late, directory
<1>3. CASE Look(w)
  BY <1>3, LookSound DEF Look, directory
<1>4. CASE ClaimApply(w)
  BY <1>4, ClaimSound DEF ClaimApply, directory
<1>5. CASE ResolveDepartment(w) \/ Resolved(w)
  BY <1>5, ResolveSound DEF ResolveDepartment, Resolved, directory
<1>6. CASE Stage(w)
  <2>1. worker[w].pc = "stage" /\ worker'[w].pc = "stage"
    BY <1>6, StageMoves DEF Stage, At
  <2>2. Staging(worker[w])'
    BY <1>6, <2>1, StageSound DEF Sound
  <2>. QED  BY <1>6, <2>1, <2>2 DEF Sound, Committing, Stage, directory
<1>7. CASE PlanDepartments(w)
  <2>1. worker'[w].pc = "stage" /\ worker'[w].part = 1
    <3>1. worker'[w].pc = "stage" /\ worker'[w].part = worker[w].part /\ worker[w].pc = "plan"
      BY <1>7, PlanMoves DEF PlanDepartments, At, Same
    <3>. QED  BY <3>1, WorkForm DEF IsWork
  <2>2. Staging(worker[w])'
    BY <2>1 DEF Staging
  <2>. QED  BY <1>7, <2>1, <2>2 DEF Sound, Committing, PlanDepartments, directory
<1>8. CASE Take(w)
  <2>1. worker'[w].pc \in {"claim", "look"} /\ Fresh(worker'[w])
    BY <1>8, TakeMoves
  <2>2. Fresh(worker[w])'
    BY <2>1 DEF Fresh
  <2>. QED  BY <1>8, <2>1, <2>2 DEF Sound, Committing, Take, directory
<1>9. CASE Return(w) \/ GiveBack(w) \/ Fault(w)
  <2>1. worker'[w].pc \in {"idle", "caught"} /\ written' = written
    BY <1>9, LeaveMoves, GoMoves, FreshTypes DEF Fault, Throw, directory
  <2>. QED  BY <2>1, LeavingSound DEF Committing
<1>10. CASE ClaimValidation(w) \/ Parse(w) \/ ParseNothing(w) \/ Refuse(w) \/ Classify(w)
              \/ Ready(w) \/ Abandon(w) \/ Discard(w)
  <2>1. worker'[w].pc \in {"parse", "return", "refuse", "classify", "plan", "caught", "abandon", "discard"}
    <3>1. CASE Parse(w)
      BY <3>1, ParseMoves
    <3>2. CASE Classify(w)
      BY <3>2, ClassifyMoves
    <3>3. CASE ClaimValidation(w) \/ ParseNothing(w) \/ Refuse(w) \/ Ready(w) \/ Abandon(w) \/ Discard(w)
      BY <3>3, GoMoves DEF ClaimValidation, ParseNothing, Refuse, Ready, Abandon, Discard
    <3>. QED  BY <1>10, <3>1, <3>2, <3>3
  <2>2. written' = written
    BY <1>10 DEF ClaimValidation, Parse, ParseNothing, Refuse, Classify, Ready, Abandon, Discard,
                 directory
  <2>. QED  BY <2>1, <2>2, LeavingSound DEF Committing
<1>. QED  BY <1>1, <1>2, <1>3, <1>4, <1>5, <1>6, <1>7, <1>8, <1>9, <1>10 DEF Work, Validate, Apply

LEMMA WorkStep ==
  ASSUME Typed, Queued, Reviewed, Asked, Control, Control', Consented, RowExact, WorkExact,
         [Next]_vars, Orderly'
  PROVE  WorkExact' /\ written \subseteq written'
<1>. DEFINE Moves(w) == Work(w) \/ Fault(w)
<1>1. CASE \E w \in Worker : Moves(w)
  <2>1. PICK w \in Worker : Work(w) \/ Fault(w)
    BY <1>1
  <2>2. Sound(w)' /\ written \subseteq written'
    BY <2>1, ActSound DEF WorkExact
  <2>3. Alone(w)
    BY <2>1, WorkerWell, FileKept DEF Well
  <2>4. ASSUME NEW v \in Worker, v # w PROVE Sound(v)'
    <3>1. worker'[v] = worker[v] /\ Sound(v)
      BY <2>3, <2>4 DEF Alone, WorkExact
    <3>. QED  BY <2>2, <3>1, OthersSound
  <2>. QED  BY <2>2, <2>4 DEF WorkExact
<1>2. CASE ~\E w \in Worker : Moves(w)
  <2>1. worker' = worker
    BY <1>2, OthersKeepWorkers
  <2>2. written' = written
    <3>1. \A w \in Worker : ~Commit(w)
      BY <1>2 DEF Work, Apply
    <3>. QED  BY <3>1, OnlyCommitWrites
  <2>3. ASSUME NEW v \in Worker PROVE Sound(v)'
    BY <2>1, <2>2, OthersSound DEF WorkExact
  <2>. QED  BY <2>2, <2>3 DEF WorkExact
<1>. QED  BY <1>1, <1>2

------------------------------------------------------------------------------
(* The row, the staged parts and the directory agree.                         *)

\* The review of an import is what it was, once there is one.
LEMMA SameConfirmation ==
  ASSUME Typed, Queued, Reviewed, Asked, Control, [Next]_vars, Orderly',
         row.status = "VALIDATING" => \A w \in Worker : ~Ready(w)
  PROVE  /\ row'.prefix = row.prefix
         /\ row.prefix => SameReview(row, row') /\ (Confirmed' <=> Confirmed)
<1>1. row'.prefix = row.prefix
  <2>1. row.status = "ABSENT" => ~row.prefix
    BY DEF Reviewed
  <2>2. row.prefix \in BOOLEAN /\ row'.prefix \in BOOLEAN
    BY RowTyped DEF Typed, IsRow
  <2>. QED  BY <2>1, <2>2, Lifecycle
<1>2. row.prefix => SameReview(row, row')
  BY ReviewStays DEF Control
<1>. QED  BY <1>1, <1>2 DEF Confirmed, SameReview

LEMMA SameStaged ==
  ASSUME Typed, Queued, Reviewed, Asked, Control, [Next]_vars, Orderly', row.prefix
  PROVE  /\ Live' => Live
         /\ Live => parts' = parts
         /\ parts' = parts \/ parts' = << >>
<1>1. Live' => Live
  BY EndedStays, Statuses DEF Live
<1>2. ASSUME NEW w \in Worker, Stage(w) PROVE FALSE
  BY <1>2 DEF Stage, At, Control, Started
<1>. QED  BY <1>1, <1>2, PartsMove DEF Live

\* Before the first checkpoint there is nothing to be wrong about.
LEMMA NothingCounted ==
  ASSUME Typed', row'.last = 0, row'.counts.processed = 0
  PROVE  CheckpointExact'
<1>1. \A p \in DOMAIN parts' : \A g \in parts'[p] : ~(g.row <= row'.last)
  <2>1. \A g \in NormalizedRow : ~(g.row <= 0)
    BY RowTypes
  <2>. QED  BY <2>1 DEF Typed, PartOK, IsBatch
<1>. QED  BY <1>1 DEF CheckpointExact

LEMMA CountedExact ==
  ASSUME row.counts.processed = row.last, Counted(row.counts, written)
  PROVE  CheckpointExact
BY DEF CheckpointExact, Counted, Changing, Items

\* Steps that write no row of the file and no counter.
LEMMA QuietExact ==
  ASSUME Typed, Typed', Queued, Reviewed, Asked, Control, RowExact, Outcome, Orderly,
         [Next]_vars, Orderly', row'.last = row.last, row'.counts = row.counts, written' = written,
         row.status = "VALIDATING" => \A w \in Worker : ~Ready(w),
         row.status = "APPLYING" => \A w \in Worker : ~Finish(w)
  PROVE  RowExact' /\ Outcome'
<1>1. /\ row'.prefix = row.prefix
      /\ row.prefix => SameReview(row, row') /\ (Confirmed' <=> Confirmed)
  BY SameConfirmation
<1>2. Confirmed' <=> Confirmed
  BY <1>1 DEF Confirmed
<1>3. file' = file /\ Lines' = Lines
  BY FileKept DEF Lines
<1>4. RowExact'
  <2>1. row'.prefix => row'.total = Lines'
    BY <1>1, <1>3 DEF RowExact, SameReview
  <2>2. ~Confirmed' => row'.last = 0 /\ row'.counts = Counters /\ written' = {}
    BY <1>2 DEF RowExact
  <2>3. ASSUME Confirmed', Live' PROVE Staged' /\ Counted(row.counts, written)'
    <3>1. Confirmed /\ Live /\ parts' = parts /\ SameReview(row, row')
      BY <1>1, <1>2, <2>3, SameStaged DEF Confirmed
    <3>2. Staged /\ Counted(row.counts, written)
      BY <3>1 DEF RowExact
    <3>3. Items' = Items
      BY <3>1 DEF Items
    <3>4. Staged'
      BY <1>3, <3>1, <3>2, <3>3 DEF Staged, SameReview, Place, Distinct, OnePerEmployee
    <3>. QED  BY <1>3, <3>2, <3>3, <3>4 DEF Counted, Changing
  <2>. QED  BY <2>1, <2>2, <2>3 DEF RowExact
<1>5. CheckpointExact'
  <2>1. CASE ~Confirmed
    <3>1. row'.last = 0 /\ row'.counts.processed = 0
      BY <2>1 DEF RowExact, Counters
    <3>. QED  BY <3>1, NothingCounted
  <2>2. CASE Confirmed
    <3>1. parts' = parts \/ parts' = << >>
      BY <2>2, SameStaged DEF Confirmed
    <3>2. CheckpointExact
      BY DEF Outcome
    <3>3. \A p \in DOMAIN parts' : p \in DOMAIN parts /\ parts'[p] = parts[p]
      BY <3>1
    <3>. QED  BY <3>2, <3>3 DEF CheckpointExact
  <2>. QED  BY <2>1, <2>2
<1>6. row'.status \in Completed => row.status = row'.status /\ SameReview(row, row')
  <2>1. row'.status \in Completed => row.status = row'.status
    BY Lifecycle, Statuses DEF Completed, Cancelled
  <2>2. row.status \in Completed => row.status \notin {"VALIDATING", "ABSENT"}
    BY DEF Completed
  <2>. QED  BY <2>1, <2>2, ReviewStays
<1>7. TotalsAddUp' /\ AppliedIsWhole'
  BY <1>6 DEF Outcome, TotalsAddUp, AppliedIsWhole, CompletedIsWhole, SameReview, Completed
<1>. QED  BY <1>4, <1>5, <1>7 DEF Outcome

\* The review itself.
LEMMA ReadyExact ==
  ASSUME Typed, Typed', Control, RowExact, NEW w \in Worker, Ready(w), Sound(w), row.status = "VALIDATING",
         file' = file
  PROVE  RowExact' /\ Outcome'
<1>1. ~row.prefix
  BY DEF Control
<1>2. row.last = 0 /\ row.counts = Counters /\ written = {}
  BY <1>1 DEF RowExact, Confirmed
<1>3. Staging(worker[w])
  BY DEF Ready, At, Sound
<1>4. RowExact'
  BY <1>2, <1>3, ReadyRow
<1>5. row'.last = 0 /\ row'.counts = Counters /\ row'.status = "READY_FOR_REVIEW"
  BY <1>2 DEF Ready, Typed, IsRow
<1>6. CheckpointExact'
  <2>1. row'.counts.processed = 0
    BY <1>5 DEF Counters
  <2>. QED  BY <1>5, <2>1, NothingCounted
<1>. QED  BY <1>4, <1>5, <1>6 DEF Outcome, TotalsAddUp, AppliedIsWhole, CompletedIsWhole, Completed

\* A batch is written, and counted.
LEMMA BatchExact ==
  ASSUME Typed, Typed', Queued, Reviewed, Asked, Control, Control', Consented, RowExact, [Next]_vars,
         Orderly', NEW w \in Worker, Commit(w) \/ Checkpoint(w), Sound(w)
  PROVE  RowExact' /\ Outcome'
<1>. DEFINE me == worker[w]
<1>1. me.pc \in {"write", "checkpoint"} /\ me.pc \in Committing
  BY DEF Commit, Checkpoint, At, Committing
<1>2. Confirmed /\ Live
  <2>1. worker[w].pc \in Committing \cup {"look", "claimApply"}
    BY <1>1
  <2>. QED  BY <1>1, <2>1, Underway
<1>3. parts' = parts /\ Staged /\ Counted(row.counts, written) /\ file' = file
  <2>1. worker[w].pc \in Committing
    BY <1>1
  <2>. QED  BY <2>1, AsReviewed, FileKept
<1>4. Applied(me) /\ Buffered(me) /\ Batched(me)
  BY <1>1 DEF Sound
<1>5. Items' = Items /\ Lines' = Lines
  BY <1>3 DEF Items, Lines
<1>6. row'.status = row.status /\ SameReview(row, row')
  <2>1. CASE Commit(w)
    BY <2>1 DEF Commit, SameReview
  <2>2. CASE Checkpoint(w)
    BY <2>2 DEF Checkpoint, SameReview, Typed, IsRow
  <2>. QED  BY <2>1, <2>2
<1>7. /\ row'.counts.processed = row'.last /\ Counted(row.counts, written)'
      /\ \A i \in written' : \E g \in Items : g.row = i /\ g.kind # "UNCHANGED"
  <2>1. CASE Commit(w)
    <3>1. row' = row /\ written \subseteq written'
          /\ \A i \in written' : \E g \in Items : g.row = i /\ g.kind # "UNCHANGED"
      BY <1>3, <1>4, <2>1, CommitSound DEF Commit
    <3>2. Counted(row.counts, written)'
      BY <1>3, <1>5, <3>1 DEF Counted, Changing
    <3>. QED  BY <3>1, <3>2 DEF RowExact
  <2>2. CASE Checkpoint(w)
    <3>1. /\ row'.last = me.counts.processed /\ row'.counts = me.counts
          /\ Counted(row'.counts, written) /\ written' = written
      BY <1>4, <2>2, CheckpointSound DEF Checkpoint, directory
    <3>2. Counted(row.counts, written)'
      BY <1>5, <3>1 DEF Counted, Changing
    <3>. QED  BY <3>1, <3>2, <1>3 DEF Staged
  <2>. QED  BY <2>1, <2>2
<1>8. Staged'
  BY <1>3, <1>5, <1>6, <1>7 DEF Staged, SameReview, Place, Distinct, OnePerEmployee
<1>9. RowExact'
  <2>1. Confirmed'
    BY <1>2, <1>6 DEF Confirmed, SameReview
  <2>2. row'.total = Lines'
    BY <1>2, <1>5, <1>6 DEF RowExact, SameReview, Confirmed
  <2>. QED  BY <1>7, <1>8, <2>1, <2>2 DEF RowExact
<1>10. CheckpointExact'
  BY <1>7 DEF CheckpointExact, Counted, Changing, Items
<1>11. row'.status \notin Completed
  BY <1>2, <1>6, Statuses DEF Live, Completed
<1>. QED  BY <1>9, <1>10, <1>11 DEF Outcome, TotalsAddUp, AppliedIsWhole, CompletedIsWhole, Completed

\* At the end every row has been counted.
LEMMA FinishExact ==
  ASSUME Typed, Typed', Queued, Reviewed, Asked, Control, Consented, RowExact, [Next]_vars,
         Orderly', NEW w \in Worker, Finish(w), row.status = "APPLYING", Sound(w)
  PROVE  RowExact' /\ Outcome'
<1>. DEFINE me == worker[w]
            you == row'
<1>1. me.pc = "finish" /\ me.pc \in Committing
  BY DEF Finish, At, Committing
<1>2. Confirmed /\ Live
  <2>1. worker[w].pc \in Committing \cup {"look", "claimApply"}
    BY <1>1
  <2>. QED  BY <1>1, <2>1, Underway
<1>3. parts' = parts /\ Staged /\ file' = file /\ written' = written
  <2>1. worker[w].pc \in Committing
    BY <1>1
  <2>. QED  BY <2>1, AsReviewed, FileKept DEF Finish, directory
<1>4. Counted(me.counts, written) /\ me.eof /\ me.buffer = {} /\ Ahead(me) = {} /\ Buffered(me)
  <2>1. Applied(me) /\ Buffered(me) /\ me.tx = {}
    BY <1>1 DEF Sound, Applied
  <2>2. written \cup {g.row : g \in me.tx} = written
    BY <2>1
  <2>. QED  BY <1>1, <2>1, <2>2 DEF Applied, Buffered
<1>5. Changing(me.counts.processed) = Changing(Lines)
  <2>1. \A g \in Items : g.row <= me.counts.processed /\ g.row <= Lines
    <3>1. ASSUME NEW g \in Items, g.row > me.counts.processed PROVE FALSE
      BY <1>4, <3>1 DEF Buffered
    <3>2. me.counts.processed \in Nat
      BY WorkForm, Counts DEF IsWork
    <3>. QED  BY <3>1, <3>2, ItemRows
  <2>. QED  BY <2>1 DEF Changing
<1>6. /\ me.counts.created + me.counts.updated + me.counts.failed + row.unchanged = row.total
      /\ me.counts.failed = 0 => Cardinality(written) + row.unchanged = row.total
      /\ me.counts.failed = 0 => \A g \in Changing(Lines) : g.row \in written
  <2>1. me.counts.created + me.counts.updated + me.counts.failed = Cardinality(Changing(Lines))
    BY <1>4, <1>5 DEF Counted
  <2>2. me.counts.failed = 0 => \A g \in Changing(Lines) : g.row \in written
    BY <1>4, <1>5 DEF Counted
  <2>3. row.total = Lines
    BY <1>2 DEF RowExact, Confirmed
  <2>. QED  BY <1>3, <2>1, <2>2, <2>3, Totals
<1>7. /\ you.status = IF me.counts.failed > 0 THEN "COMPLETED_WITH_ERRORS" ELSE "COMPLETED"
      /\ you.counts = [me.counts EXCEPT !.processed = row.counts.processed]
      /\ you.last = row.last /\ SameReview(row, you)
  <2>. DEFINE status == IF me.counts.failed > 0 THEN "COMPLETED_WITH_ERRORS" ELSE "COMPLETED"
              counts == [me.counts EXCEPT !.processed = row.counts.processed]
  <2>1. row' = [row EXCEPT !.status = status, !.counts = counts]
    BY DEF Finish
  <2>. HIDE DEF status, counts
  <2>2. you.status = status /\ you.counts = counts /\ you.last = row.last /\ SameReview(row, you)
    BY <2>1 DEF Typed, IsRow, SameReview
  <2>. QED  BY <2>2 DEF status, counts
<1>8. /\ you.counts.processed = row.counts.processed /\ you.counts.created = me.counts.created
      /\ you.counts.updated = me.counts.updated /\ you.counts.failed = me.counts.failed
  <2>1. me.counts \in Tally
    BY WorkForm DEF IsWork
  <2>. QED  BY <1>7, <2>1 DEF Tally
<1>9. you.status \in Terminal /\ (you.status = "COMPLETED" => you.counts.failed = 0)
  <2>1. me.counts.failed \in Nat
    BY WorkForm, Counts DEF IsWork
  <2>. QED  BY <1>7, <1>8, <2>1 DEF Terminal, Completed
<1>10. row.counts.processed = row.last
  BY DEF RowExact
<1>11. RowExact'
  <2>1. Confirmed' /\ ~Live' /\ row'.total = Lines'
    BY <1>2, <1>3, <1>7, <1>9 DEF Confirmed, Live, SameReview, RowExact, Lines
  <2>. QED  BY <1>7, <1>8, <1>10, <2>1 DEF RowExact
<1>12. CheckpointExact'
  <2>1. ASSUME me.counts.failed = 0, NEW p \in DOMAIN parts, NEW g \in parts[p], g.kind # "UNCHANGED"
        PROVE  g.row \in written
    BY <1>6, <2>1, ItemRows DEF Changing
  <2>. QED  BY <1>3, <1>7, <1>8, <1>10, <2>1 DEF CheckpointExact
<1>13. TotalsAddUp' /\ AppliedIsWhole'
  BY <1>3, <1>6, <1>7, <1>8, <1>9 DEF TotalsAddUp, AppliedIsWhole, CompletedIsWhole, SameReview
<1>. QED  BY <1>11, <1>12, <1>13 DEF Outcome

LEMMA ExactInit == Init => ExactInv
<1>. SUFFICES ASSUME Init PROVE ExactInv
  OBVIOUS
<1>1. ControlInv
  BY ControlInit
<1>2. /\ row.prefix = FALSE /\ row.last = 0 /\ row.counts = Counters /\ row.counts.processed = 0
      /\ row.status = "ABSENT" /\ written = {} /\ jobs = {} /\ DOMAIN parts = {}
  BY DEF Init, FreshRow, Counters
<1>3. /\ \A w \in Worker : worker[w].pc = "idle"
      /\ \A r \in Request : request[r].op = "none"
  BY DEF Init, IdleWorker, IdleRequest
<1>4. RowExact
  BY <1>2 DEF RowExact, Confirmed
<1>5. Consented
  BY <1>2, <1>3 DEF Consented
<1>6. WorkExact
  BY <1>3 DEF WorkExact, Sound, Committing
<1>7. Outcome
  BY <1>2 DEF Outcome, CheckpointExact, TotalsAddUp, AppliedIsWhole, CompletedIsWhole, Completed
<1>. QED  BY <1>1, <1>4, <1>5, <1>6, <1>7 DEF ExactInv, Exact

LEMMA ExactStep ==
  ASSUME ExactInv, [Next]_vars, Orderly'
  PROVE  Exact'
<1>1. Typed /\ Queued /\ Reviewed /\ Asked
  BY DEF ExactInv, ControlInv
<1>2. Orderly /\ Control /\ Exact
  BY <1>1, OrderlyBefore DEF ExactInv, ControlInv
<1>3. Typed' /\ Control'
  BY ControlInvStep DEF ExactInv, ControlInv
<1>4. RowExact /\ Consented /\ WorkExact /\ Outcome
  BY <1>2 DEF Exact
<1>5. file' = file
  BY FileKept
<1>6. Consented'
  BY <1>1, <1>2, <1>4, ConsentedStep
<1>7. WorkExact' /\ written \subseteq written'
  BY <1>1, <1>2, <1>3, <1>4, WorkStep
<1>8. CASE \E w \in Worker : Commit(w) \/ Checkpoint(w)
  <2>1. PICK w \in Worker : Commit(w) \/ Checkpoint(w)
    BY <1>8
  <2>2. Sound(w)
    BY <1>4 DEF WorkExact
  <2>3. RowExact' /\ Outcome'
    BY <1>1, <1>2, <1>3, <1>4, <1>8, <2>1, <2>2, BatchExact
  <2>. QED  BY <1>6, <1>7, <2>3 DEF Exact
<1>9. CASE row.status = "VALIDATING" /\ \E w \in Worker : Ready(w)
  <2>1. PICK w \in Worker : Ready(w)
    BY <1>9
  <2>2. Sound(w)
    BY <1>4 DEF WorkExact
  <2>3. RowExact' /\ Outcome'
    BY <1>1, <1>2, <1>3, <1>4, <1>5, <1>9, <2>1, <2>2, ReadyExact
  <2>. QED  BY <1>6, <1>7, <2>3 DEF Exact
<1>10. CASE row.status = "APPLYING" /\ \E w \in Worker : Finish(w)
  <2>1. PICK w \in Worker : Finish(w)
    BY <1>10
  <2>2. Sound(w)
    BY <1>4 DEF WorkExact
  <2>3. RowExact' /\ Outcome'
    BY <1>1, <1>2, <1>3, <1>4, <1>10, <2>1, <2>2, FinishExact
  <2>. QED  BY <1>6, <1>7, <2>3 DEF Exact
<1>11. CASE /\ \A w \in Worker : ~Commit(w) /\ ~Checkpoint(w)
            /\ row.status = "VALIDATING" => \A w \in Worker : ~Ready(w)
            /\ row.status = "APPLYING" => \A w \in Worker : ~Finish(w)
  <2>1. row'.last = row.last /\ row'.counts = row.counts
    BY <1>1, <1>4, <1>11, CountsStay
  <2>2. written' = written
    BY <1>11, OnlyCommitWrites
  <2>3. RowExact' /\ Outcome'
    BY <1>1, <1>2, <1>3, <1>4, <1>11, <2>1, <2>2, QuietExact
  <2>. QED  BY <1>6, <1>7, <2>3 DEF Exact
<1>. QED  BY <1>8, <1>9, <1>10, <1>11

LEMMA ExactInvStep == ExactInv /\ [Next]_vars => ExactInv'
<1>. SUFFICES ASSUME ExactInv, [Next]_vars PROVE ExactInv'
  OBVIOUS
<1>1. ControlInv'
  BY ControlInvStep DEF ExactInv
<1>2. Orderly' => Exact'
  BY ExactStep
<1>. QED  BY <1>1, <1>2 DEF ExactInv

LEMMA InExact == Spec => []ExactInv
BY ExactInit, ExactInvStep, PTL DEF Spec

\* What a pause, a retry or a redelivered job goes on from is right: the checkpoint of
\* applyImport (last_applied_row and the counters in one update) names exactly the rows that
\* were counted, and while none of them failed, all of them are in the directory.
THEOREM CheckpointHolds == Spec => []CheckpointExact
<1>1. ExactInv => CheckpointExact
  BY DEF ExactInv, Exact, Outcome, CheckpointExact
<1>. QED  BY <1>1, InExact, PTL

\* The totals that finishImport reports add up to the rows of the file, however often the
\* application was interrupted.
THEOREM TotalsHold == Spec => []TotalsAddUp
<1>1. ExactInv => TotalsAddUp
  BY DEF ExactInv, Exact, Outcome, TotalsAddUp
<1>. QED  BY <1>1, InExact, PTL

\* An import that reports COMPLETED has written every row that was to be created or updated.
THEOREM CompletedHolds == Spec => []AppliedIsWhole
<1>1. ExactInv => AppliedIsWhole
  BY DEF ExactInv, Exact, Outcome, AppliedIsWhole
<1>. QED  BY <1>1, InExact, PTL

\* The staged parts that applyImport reads are exactly the reviewed file: every row once, in
\* the part its position says, although an attempt that is repeated stages over the last one.
THEOREM ReviewHolds == Spec => []ReviewedIsWhole
<1>1. ExactInv => ReviewedIsWhole
  <2>. SUFFICES ASSUME ExactInv, Orderly, row.invalid = 0,
                       row.status \in {"READY_FOR_REVIEW", "APPLY_QUEUED", "APPLYING", "PAUSING", "PAUSED"},
                       NEW i \in 1 .. row.total
                PROVE  \E p \in DOMAIN parts : /\ p = 1 + ((i - 1) \div ChunkSize)
                                              /\ Cardinality({g \in parts[p] : g.row = i}) = 1
    BY DEF ReviewedIsWhole
  <2>1. Typed /\ Reviewed /\ RowExact
    BY DEF ExactInv, ControlInv, Exact
  <2>2. Confirmed /\ Live
    BY <2>1, Statuses DEF Reviewed, Confirmed, Live
  <2>3. Staged /\ row.total = Lines
    BY <2>1, <2>2 DEF RowExact, Confirmed
  <2>4. PICK g \in Items : g.row = i
    BY <2>3 DEF Staged
  <2>5. PICK p \in DOMAIN parts : g \in parts[p]
    BY <2>1, <2>4, ItemRows
  <2>6. p = 1 + ((i - 1) \div ChunkSize)
    BY <2>3, <2>4, <2>5 DEF Staged, Place
  <2>7. {h \in parts[p] : h.row = i} = {g}
    BY <2>1, <2>3, <2>4, <2>5, ItemRows DEF Staged, Distinct
  <2>8. Cardinality({h \in parts[p] : h.row = i}) = 1
    BY <2>7, FS_Singleton
  <2>. QED  BY <2>5, <2>6, <2>8
<1>. QED  BY <1>1, InExact, PTL

------------------------------------------------------------------------------
(* The directory, when only the import itself changes it.                     *)

LEMMA OnlyCommitHires ==
  ASSUME [Next]_vars, ~Colleague, \A w \in Worker : ~Commit(w)
  PROVE  staff' = staff
<1>1. ASSUME NEW w \in Worker, Work(w) \/ Fault(w) PROVE staff' = staff
  <2>1. CASE Validate(w)
    BY <2>1 DEF Validate, ClaimValidation, Parse, ParseNothing, Refuse, Classify,
            PlanDepartments, Stage, Ready, Abandon, Discard, directory
  <2>2. CASE Apply(w)
    BY <2>2, Zenon DEF Apply, Look, ClaimApply, ResolveDepartment, Resolved, ReadPart, ReadState,
            Halt, Park, ApplyRow, Checkpoint, Finish, Late, directory
  <2>3. CASE Take(w) \/ Return(w) \/ GiveBack(w) \/ Fault(w)
    BY <2>3 DEF Take, Return, GiveBack, Fault, Throw, Crash, directory
  <2>. QED  BY <1>1, <2>1, <2>2, <2>3 DEF Work
<1>2. ASSUME NEW r \in Request, Serve(r) PROVE directory' = directory
  BY <1>2, Zenon DEF Serve, Create, UploadComplete, MarkUploaded, Confirm, Resume, ClaimConfirmed,
          Enqueue, Undo, Cancel, CancelIdle, CleanArtifacts, FlagCancelling
<1>3. ASSUME Stalled \/ PutFile \/ Pause \/ Sweep \/ Expire PROVE staff' = staff
  BY <1>3 DEF Stalled, PutFile, Pause, Sweep, SweepList, SweepDelete, SweepMark, SweepStale,
              Expire, directory
<1>4. UNCHANGED vars => staff' = staff
  BY DEF vars, directory
<1>. QED  BY <1>1, <1>2, <1>3, <1>4 DEF Next, directory

LEMMA OnlyResolveOpens ==
  ASSUME [Next]_vars, ~Colleague, \A w \in Worker : ~ResolveDepartment(w)
  PROVE  departments' = departments
<1>1. ASSUME NEW w \in Worker, Work(w) \/ Fault(w) PROVE departments' = departments
  <2>1. CASE Validate(w)
    BY <2>1 DEF Validate, ClaimValidation, Parse, ParseNothing, Refuse, Classify,
            PlanDepartments, Stage, Ready, Abandon, Discard, directory
  <2>2. CASE Apply(w)
    BY <2>2, Zenon DEF Apply, Look, ClaimApply, Resolved, ReadPart, ReadState,
            Halt, Park, ApplyRow, Commit, Checkpoint, Finish, Late, directory
  <2>3. CASE Take(w) \/ Return(w) \/ GiveBack(w) \/ Fault(w)
    BY <2>3 DEF Take, Return, GiveBack, Fault, Throw, Crash, directory
  <2>. QED  BY <1>1, <2>1, <2>2, <2>3 DEF Work
<1>2. ASSUME NEW r \in Request, Serve(r) PROVE directory' = directory
  BY <1>2, Zenon DEF Serve, Create, UploadComplete, MarkUploaded, Confirm, Resume, ClaimConfirmed,
          Enqueue, Undo, Cancel, CancelIdle, CleanArtifacts, FlagCancelling
<1>3. ASSUME Stalled \/ PutFile \/ Pause \/ Sweep \/ Expire PROVE departments' = departments
  BY <1>3 DEF Stalled, PutFile, Pause, Sweep, SweepList, SweepDelete, SweepMark, SweepStale,
              Expire, directory
<1>4. UNCHANGED vars => departments' = departments
  BY DEF vars, directory
<1>. QED  BY <1>1, <1>2, <1>3, <1>4 DEF Next, directory

LEMMA LeftAlone ==
  ASSUME Typed, [Next]_vars, Undisturbed'
  PROVE  Undisturbed /\ ~Colleague
<1>1. left["churn"] \in Nat /\ left["churn"] <= Bounds["churn"] /\ Bounds["churn"] \in Nat
  BY BoundsAssumption DEF Typed, Limits
<1>2. ~Colleague
  <2>1. left'["churn"] = Bounds["churn"]
    BY DEF Undisturbed
  <2>. QED  BY <1>1, <2>1, ColleagueSpends
<1>3. Spend("errors") \/ Spend("replies") \/ Spend("crashes") \/ Spend("expiry") \/ Ask \/ left' = left
  <2>1. ASSUME NEW w \in Worker, Work(w) \/ Fault(w)
        PROVE  left' = left \/ Spend("errors") \/ Spend("crashes")
    <3>1. CASE Validate(w)
      BY <3>1 DEF Validate, ClaimValidation, Parse, ParseNothing, Refuse, Classify,
              PlanDepartments, Stage, Ready, Abandon, Discard
    <3>2. CASE Apply(w)
      BY <3>2, Zenon DEF Apply, Look, ClaimApply, ResolveDepartment, Resolved, ReadPart, ReadState,
              Halt, Park, ApplyRow, Commit, Checkpoint, Finish, Late
    <3>3. CASE Take(w) \/ Return(w) \/ GiveBack(w) \/ Fault(w)
      BY <3>3 DEF Take, Return, GiveBack, Fault, Throw, Crash
    <3>. QED  BY <2>1, <3>1, <3>2, <3>3 DEF Work
  <2>2. ASSUME NEW r \in Request, Serve(r)
        PROVE  left' = left \/ Ask \/ Spend("errors") \/ Spend("replies")
    BY <2>2, Zenon DEF Serve, Create, UploadComplete, MarkUploaded, Confirm, Resume, ClaimConfirmed,
            Enqueue, Undo, Cancel, CancelIdle, CleanArtifacts, FlagCancelling
  <2>3. ASSUME Stalled \/ PutFile \/ Pause \/ Sweep \/ Expire
        PROVE  left' = left \/ Ask \/ Spend("errors") \/ Spend("expiry")
    BY <2>3, Zenon DEF Stalled, PutFile, Pause, Sweep, SweepList, SweepDelete, SweepMark, SweepStale,
                Expire
  <2>4. UNCHANGED vars => left' = left
    BY DEF vars
  <2>. QED  BY <1>2, <2>1, <2>2, <2>3, <2>4 DEF Next
<1>4. left'["churn"] = left["churn"]
  BY <1>3, Spent DEF Limits
<1>. QED  BY <1>2, <1>4 DEF Undisturbed

\* Departments are only opened.
LEMMA Grows ==
  ASSUME Typed, [Next]_vars, ~Colleague
  PROVE  departments \subseteq departments'
<1>1. ASSUME NEW w \in Worker, ResolveDepartment(w) PROVE departments \subseteq departments'
  <2>1. worker[w].pc = "resolve"
    BY <1>1 DEF ResolveDepartment, At
  <2>2. PICK target : (departments' = departments) \/ ResolveCreate(w, target)
    BY <1>1 DEF ResolveDepartment, ResolveKnown, ResolveRefused
  <2>3. CASE ResolveCreate(w, target)
    BY <2>1, <2>3, CreateMoves
  <2>. QED  BY <2>2, <2>3
<1>. QED  BY <1>1, OnlyResolveOpens

LEMMA KnownGrows ==
  ASSUME NEW S, NEW T, S \subseteq T, NEW key
  PROVE  Known(S, key) => Known(T, key)
BY DEF Known

\* The rows of a batch without errors do not get in each other's way.
LEMMA GoodTogether ==
  ASSUME Typed, NEW c, Checked(c), c.good = Items, \A g \in c.good : ~Owned(staff, g.number, g.mail)
  PROVE  Compatible(Items)
BY GoodApart DEF Compatible

------------------------------------------------------------------------------
(* Nobody gets in the way of the workers.                                     *)

LEMMA OthersClear ==
  ASSUME Typed, Queued, Reviewed, Asked, Control, Consented, [Next]_vars, Orderly', ~Colleague,
         NEW w \in Worker, Clear(w), worker'[w] = worker[w]
  PROVE  Clear(w)'
<1>. DEFINE me == worker[w]
<1>1. departments \subseteq departments'
  BY Grows
<1>2. \A key : Known(departments, key) => Known(departments, key)'
  BY <1>1 DEF Known
<1>3. ASSUME me.pc \in {"classify", "plan", "stage", "write"} PROVE staff' = staff
  <2>1. ASSUME NEW v \in Worker, Commit(v) PROVE FALSE
    <3>1. worker[v].pc = "write" /\ worker'[v].pc = "checkpoint"
      BY <2>1, CommitMoves DEF Commit, At
    <3>2. row.prefix
      BY <3>1, Exclusive DEF Committing
    <3>3. me.pc = "write"
      BY <1>3, <3>2 DEF Control, Started
    <3>4. v = w
      BY <3>1, <3>3 DEF Control, Committing
    <3>. QED  BY <3>1, <3>3, <3>4
  <2>. QED  BY <2>1, OnlyCommitHires
<1>4. ASSUME me.pc \in {"classify", "plan", "stage"}
      PROVE  /\ \A g \in me.good : ~Owned(staff, g.number, g.mail)'
             /\ worker'[w].known \subseteq departments'
  <2>1. staff' = staff
    BY <1>3, <1>4
  <2>2. \A g \in me.good : ~Owned(staff, g.number, g.mail)
    BY <1>4 DEF Clear
  <2>3. me.known \subseteq departments
    BY <1>4 DEF Clear
  <2>. QED  BY <1>1, <2>1, <2>2, <2>3 DEF Owned
<1>5. ASSUME me.pc = "stage" PROVE Housed(worker[w].good, worker[w].known, DOMAIN worker[w].seen.plan)'
  <2>1. Housed(me.good, me.known, DOMAIN me.seen.plan)
    BY <1>5 DEF Clear
  <2>. QED  BY <2>1 DEF Housed, Known
<1>6. ASSUME me.pc = "claimApply" PROVE worker'[w].counts.failed = 0 /\ worker'[w].seen.plan = row'.plan
  <2>1. row.prefix
    BY <1>6, Exclusive
  <2>2. row'.plan = row.plan
    BY <2>1, ReviewStays DEF SameReview, Control
  <2>. QED  BY <1>6, <2>2 DEF Clear
<1>7. ASSUME me.pc \in Committing
      PROVE  worker'[w].counts.failed = 0 /\ Aliased(worker[w])' /\ Items' = Items
  <2>1. worker[w].pc \in Committing \cup {"look", "claimApply"}
    BY <1>7
  <2>2. Confirmed /\ Live
    BY <1>7, <2>1, Underway
  <2>3. parts' = parts
    BY <2>2, SameStaged DEF Confirmed
  <2>4. me.counts.failed = 0 /\ Aliased(me)
    BY <1>7 DEF Clear
  <2>. QED  BY <1>2, <2>3, <2>4 DEF Aliased, Items
<1>8. ASSUME me.pc = "resolve"
      PROVE  /\ worker'[w].known \subseteq departments'
             /\ \A g \in Items' : \/ Known(worker[w].known, Normal[g.department])'
                                  \/ g.department \in worker'[w].todo
                                  \/ Normal[g.department] \in DOMAIN worker'[w].alias
  <2>1. Items' = Items
    BY <1>7, <1>8 DEF Committing
  <2>2. me.known \subseteq departments
    BY <1>8 DEF Clear
  <2>3. \A g \in Items : \/ Known(me.known, Normal[g.department])
                         \/ g.department \in me.todo
                         \/ Normal[g.department] \in DOMAIN me.alias
    BY <1>8 DEF Clear
  <2>. QED  BY <1>1, <2>1, <2>2, <2>3 DEF Known
<1>9. ASSUME me.pc \in Committing \ {"resolve"}
      PROVE  \A g \in Items' : Normal[g.department] \in DOMAIN worker'[w].alias
  BY <1>7, <1>9 DEF Clear
<1>10. ASSUME me.pc = "write"
       PROVE  /\ worker'[w].staff = staff'
              /\ \A t \in worker'[w].tx : \E g \in Items' : /\ g.row <= worker'[w].counts.processed
                                                           /\ g.number = t.number /\ g.mail = t.mail
  BY <1>3, <1>7, <1>10 DEF Clear, Committing
<1>11. me.pc \in {"look", "claimApply"} => DOMAIN worker'[w].alias = {}
  BY DEF Clear
<1>. QED  BY <1>4, <1>5, <1>6, <1>7, <1>8, <1>9, <1>10, <1>11 DEF Clear

LEMMA GoneClear ==
  ASSUME NEW w \in Worker,
         worker'[w].pc \notin Committing \cup {"classify", "plan", "stage", "look", "claimApply"}
  PROVE  Clear(w)'
BY DEF Clear, Committing

\* Reading, counting and finishing change nothing that matters.
LEMMA KeepsClear ==
  ASSUME NEW w \in Worker, Clear(w), parts' = parts, departments \subseteq departments',
         worker[w].pc \in Committing \ {"resolve"}, worker'[w].pc \in Committing \ {"resolve", "write"},
         worker'[w].alias = worker[w].alias, worker'[w].counts = worker[w].counts
  PROVE  Clear(w)'
<1>1. Items' = Items
  BY DEF Items
<1>2. worker[w].counts.failed = 0 /\ Aliased(worker[w])
  BY DEF Clear
<1>3. \A g \in Items : Normal[g.department] \in DOMAIN worker[w].alias
  BY DEF Clear
<1>4. Aliased(worker[w])'
  BY <1>2 DEF Aliased, Known
<1>5. worker'[w].pc \notin {"classify", "plan", "stage", "look", "claimApply", "resolve", "write"}
  BY DEF Committing
<1>. QED  BY <1>1, <1>2, <1>3, <1>4, <1>5 DEF Clear

LEMMA ParseClear ==
  ASSUME Typed, NEW w \in Worker, Parse(w)
  PROVE  Clear(w)'
<1>1. /\ worker'[w].pc \in {"refuse", "plan", "classify"} /\ worker'[w].known = departments
      /\ worker'[w].good = worker[w].good /\ worker[w].pc = "parse"
  BY ParseMoves DEF Parse, At
<1>2. worker'[w].good = {}
  BY <1>1, WorkForm DEF IsWork
<1>3. departments' = departments
  BY DEF Parse, directory
<1>. QED  BY <1>1, <1>2, <1>3 DEF Clear, Committing

LEMMA ClassifyClear ==
  ASSUME Typed, NEW w \in Worker, Classify(w), Clear(w)
  PROVE  Clear(w)'
<1>. DEFINE me == worker[w]
            you == worker'[w]
            rows == Rows(me.cols)
            upTo == IF me.at + BatchSize < Len(rows) THEN me.at + BatchSize ELSE Len(rows)
            batch == (me.at + 1) .. upTo
            wrong == BatchErrors(rows, batch, staff, me.wrong)
<1>1. /\ you.good = me.good \cup {Normalized(rows, i, staff) : i \in batch \ wrong}
      /\ you.pc \in {"abandon", "classify", "plan"} /\ you.known = me.known
  BY ClassifyMoves DEF Same
<1>2. me.pc = "classify" /\ directory' = directory
  BY DEF Classify, At
<1>3. (\A g \in me.good : ~Owned(staff, g.number, g.mail)) /\ me.known \subseteq departments
  BY <1>2 DEF Clear
<1>4. \A i \in batch \ wrong : ~Owned(staff, rows[i].number, rows[i].mail)
  BY BatchErrorsForm
<1>5. \A i : Normalized(rows, i, staff).number = rows[i].number /\ Normalized(rows, i, staff).mail = rows[i].mail
  BY DEF Normalized
<1>. HIDE DEF me, rows, batch, wrong
<1>6. \A g \in you.good : ~Owned(staff, g.number, g.mail)
  BY <1>1, <1>3, <1>4, <1>5
<1>7. \A g \in worker'[w].good : ~Owned(staff, g.number, g.mail)'
  BY <1>2, <1>6 DEF directory, Owned
<1>8. worker'[w].known \subseteq departments'
  BY <1>1, <1>2, <1>3 DEF directory
<1>. QED  BY <1>1, <1>7, <1>8 DEF Clear, Committing

LEMMA PlanClear ==
  ASSUME Typed, NEW w \in Worker, PlanDepartments(w), Clear(w)
  PROVE  Clear(w)'
<1>. DEFINE me == worker[w]
            you == worker'[w]
            rows == Rows(me.cols)
            codes == [key \in Name |-> SheetCode(rows, Len(rows), me.wrong, key)]
<1>1. PICK ai \in [Missing(me.good, me.known) -> Proposals \cup {None}] :
        /\ you.seen = [me.seen EXCEPT !.plan = Plan(Missing(me.good, me.known), codes, ai)]
        /\ you.pc = "stage" /\ Same(me, you, {"seen"})
  BY PlanMoves
<1>2. me.pc = "plan" /\ directory' = directory
  BY DEF PlanDepartments, At
<1>3. (\A g \in me.good : ~Owned(staff, g.number, g.mail)) /\ me.known \subseteq departments
  BY <1>2 DEF Clear
<1>4. you.good = me.good /\ you.known = me.known
  BY <1>1 DEF Same
<1>5. DOMAIN you.seen.plan = Missing(me.good, me.known)
  <2>1. IsGlance(me.seen)
    BY WorkForm DEF IsWork
  <2>2. you.seen.plan = Plan(Missing(me.good, me.known), codes, ai)
    BY <1>1, <2>1 DEF IsGlance
  <2>. QED  BY <2>2 DEF Plan
<1>6. Housed(you.good, you.known, DOMAIN you.seen.plan)
  <2>1. ASSUME NEW g \in me.good, ~Known(me.known, Normal[g.department])
        PROVE  g.department \in Missing(me.good, me.known)
    BY <2>1 DEF Missing
  <2>. QED  BY <1>4, <1>5, <2>1 DEF Housed
<1>7. Housed(worker[w].good, worker[w].known, DOMAIN worker[w].seen.plan)'
  BY <1>6 DEF Housed, Known
<1>8. \A g \in worker'[w].good : ~Owned(staff, g.number, g.mail)'
  BY <1>2, <1>3, <1>4 DEF directory, Owned
<1>9. worker'[w].known \subseteq departments'
  BY <1>2, <1>3, <1>4 DEF directory
<1>. QED  BY <1>1, <1>7, <1>8, <1>9 DEF Clear, Committing

LEMMA StageClear ==
  ASSUME Typed, NEW w \in Worker, Stage(w), Clear(w)
  PROVE  Clear(w)'
<1>1. /\ worker[w].pc = "stage" /\ worker'[w].pc = "stage" /\ directory' = directory
      /\ worker'[w].good = worker[w].good /\ worker'[w].known = worker[w].known
      /\ worker'[w].seen = worker[w].seen
  BY StageMoves DEF Stage, At, Same
<1>2. /\ \A g \in worker[w].good : ~Owned(staff, g.number, g.mail)
      /\ worker[w].known \subseteq departments
      /\ Housed(worker[w].good, worker[w].known, DOMAIN worker[w].seen.plan)
  BY <1>1 DEF Clear
<1>3. \A g \in worker'[w].good : ~Owned(staff, g.number, g.mail)'
  BY <1>1, <1>2 DEF directory, Owned
<1>4. Housed(worker[w].good, worker[w].known, DOMAIN worker[w].seen.plan)'
  BY <1>1, <1>2 DEF Housed, Known
<1>. QED  BY <1>1, <1>2, <1>3, <1>4 DEF Clear, Committing, directory

LEMMA LookClear ==
  ASSUME Typed, NEW w \in Worker, Look(w), Clear(w), row.counts.failed = 0
  PROVE  Clear(w)'
<1>1. /\ worker[w].pc = "look" /\ worker'[w].pc \in {"return", "refuse", "claimApply"} /\ row' = row
      /\ worker'[w].seen = Glance(row) /\ worker'[w].counts = row.counts
      /\ worker'[w].alias = worker[w].alias
  BY LookMoves DEF Look, At, Same
<1>2. DOMAIN worker[w].alias = {}
  BY <1>1 DEF Clear
<1>3. worker'[w].seen.plan = row.plan
  BY <1>1 DEF Glance
<1>. QED  BY <1>1, <1>2, <1>3 DEF Clear, Committing

LEMMA ClaimClear ==
  ASSUME Typed, Queued, Reviewed, Asked, Control, Control', Consented, [Next]_vars, Orderly',
         NEW w \in Worker, ClaimApply(w), Clear(w), Writable
  PROVE  Clear(w)'
<1>. DEFINE me == worker[w]
            you == worker'[w]
<1>1. me.pc = "claimApply" /\ DOMAIN me.alias = {} /\ me.counts.failed = 0 /\ me.seen.plan = row.plan
  BY ClaimApplyMoves DEF Clear
<1>2. CASE you.pc = "return"
  BY <1>2, GoneClear DEF Committing
<1>3. CASE /\ you.pc = "resolve" /\ you.known = departments /\ you.todo = DOMAIN me.seen.plan
           /\ Same(me, you, {"known", "todo"})
  <2>1. Live
    <3>1. row'.status \notin Terminal
      BY <1>3, Statuses DEF Control, Committing
    <3>. QED  BY <3>1, EndedStays, Statuses DEF Live
  <2>2. Confirmed
    BY <1>1, Underway
  <2>3. Housed(Items, departments, DOMAIN row.plan)
    BY <2>1, <2>2 DEF Writable
  <2>4. Items' = Items /\ departments' = departments
    BY DEF ClaimApply, objects, directory, Items
  <2>5. you.alias = me.alias /\ you.counts = me.counts
    BY <1>3 DEF Same
  <2>6. Aliased(worker[w])'
    BY <1>1, <2>5 DEF Aliased
  <2>7. \A g \in Items' : \/ Known(worker[w].known, Normal[g.department])'
                          \/ g.department \in worker'[w].todo
                          \/ Normal[g.department] \in DOMAIN worker'[w].alias
    BY <1>1, <1>3, <2>3, <2>4 DEF Housed, Known
  <2>. QED  BY <1>1, <1>3, <2>4, <2>5, <2>6, <2>7 DEF Clear
<1>. QED  BY <1>2, <1>3, ClaimApplyMoves

LEMMA KnownClear ==
  ASSUME Typed, NEW w \in Worker, worker[w].pc = "resolve", Clear(w), NEW from, NEW target,
         ResolveKnown(w, from, target), parts' = parts
  PROVE  Clear(w)'
<1>. DEFINE me == worker[w]
            you == worker'[w]
            key == Normal[target.name]
<1>1. /\ you.pc = "resolve" /\ you.todo = me.todo \ {from}
      /\ you.alias = [k \in DOMAIN me.alias \cup {Normal[from]} |->
                        IF k = Normal[from] THEN key ELSE me.alias[k]]
      /\ you.known = me.known /\ you.counts = me.counts
      /\ Known(me.known, key) /\ departments' = departments
  BY KnownMoves DEF Same
<1>2. /\ me.known \subseteq departments /\ me.counts.failed = 0 /\ Aliased(me)
      /\ \A g \in Items : \/ Known(me.known, Normal[g.department])
                          \/ g.department \in me.todo
                          \/ Normal[g.department] \in DOMAIN me.alias
  BY DEF Clear, Committing
<1>3. Known(departments, key)
  BY <1>1, <1>2 DEF Known
<1>. HIDE DEF me, key
<1>4. DOMAIN you.alias = DOMAIN me.alias \cup {Normal[from]}
  BY <1>1
<1>5. \A k \in DOMAIN you.alias : Known(departments, you.alias[k])
  BY <1>1, <1>2, <1>3 DEF Aliased
<1>6. Aliased(worker[w])'
  BY <1>1, <1>5 DEF Aliased, Known
<1>7. Items' = Items
  BY DEF Items
<1>8. \A g \in Items' : \/ Known(worker[w].known, Normal[g.department])'
                        \/ g.department \in worker'[w].todo
                        \/ Normal[g.department] \in DOMAIN worker'[w].alias
  <2>1. ASSUME NEW g \in Items
        PROVE  \/ Known(me.known, Normal[g.department])
               \/ g.department \in you.todo \/ Normal[g.department] \in DOMAIN you.alias
    BY <1>1, <1>2, <1>4
  <2>. QED  BY <1>1, <1>7, <2>1 DEF Known
<1>. QED  BY <1>1, <1>2, <1>6, <1>8 DEF Clear, Committing

LEMMA CreateClear ==
  ASSUME Typed, NEW w \in Worker, worker[w].pc = "resolve", Clear(w), NEW target,
         ResolveCreate(w, target), parts' = parts, departments \subseteq departments'
  PROVE  Clear(w)'
<1>. DEFINE me == worker[w]
            you == worker'[w]
            key == Normal[target.name]
            free == FreeCodes(target.code, departments)
            new == [name |-> target.name, code |-> <<target.code, Least(free)>>]
<1>1. CASE you.pc = "caught"
  BY <1>1, GoneClear DEF Committing
<1>2. CASE /\ you.pc = "resolve" /\ Same(me, you, {"known"})
           /\ you.known = departments \/ (departments' = departments \cup {new} /\ you.known = me.known \cup {new})
  <2>. HIDE DEF new
  <2>1. you.alias = me.alias /\ you.todo = me.todo /\ you.counts = me.counts
    BY <1>2 DEF Same
  <2>2. /\ me.known \subseteq departments /\ me.counts.failed = 0 /\ Aliased(me)
        /\ \A g \in Items : \/ Known(me.known, Normal[g.department])
                            \/ g.department \in me.todo
                            \/ Normal[g.department] \in DOMAIN me.alias
    BY DEF Clear, Committing
  <2>3. you.known \subseteq departments' /\ me.known \subseteq you.known
    BY <1>2, <2>2
  <2>4. Aliased(worker[w])'
    BY <2>1, <2>2 DEF Aliased, Known
  <2>5. \A g \in Items' : \/ Known(worker[w].known, Normal[g.department])'
                          \/ g.department \in worker'[w].todo
                          \/ Normal[g.department] \in DOMAIN worker'[w].alias
    <3>1. Items' = Items
      BY DEF Items
    <3>. QED  BY <2>1, <2>2, <2>3, <3>1 DEF Known
  <2>. QED  BY <1>2, <2>1, <2>2, <2>3, <2>4, <2>5 DEF Clear, Committing
<1>. HIDE DEF key, new
<1>3. \/ you.pc = "caught"
      \/ /\ you.pc = "resolve" /\ Same(me, you, {"known"})
         /\ you.known = departments \/ (departments' = departments \cup {new} /\ you.known = me.known \cup {new})
  BY CreateMoves DEF new
<1>. QED  BY <1>1, <1>2, <1>3

LEMMA ResolveClear ==
  ASSUME Typed, NEW w \in Worker, ResolveDepartment(w), Clear(w), parts' = parts,
         departments \subseteq departments'
  PROVE  Clear(w)'
<1>1. worker[w].pc = "resolve"
  BY DEF ResolveDepartment, At
<1>2. PICK from, target :
        ResolveKnown(w, from, target) \/ ResolveRefused(w, target) \/ ResolveCreate(w, target)
  BY DEF ResolveDepartment
<1>3. CASE ResolveRefused(w, target)
  <2>1. worker'[w].pc = "return"
    BY <1>3, GoMoves DEF ResolveRefused
  <2>. QED  BY <2>1, GoneClear DEF Committing
<1>. QED  BY <1>1, <1>2, <1>3, KnownClear, CreateClear

LEMMA ResolvedClear ==
  ASSUME Typed, NEW w \in Worker, Resolved(w), Clear(w)
  PROVE  Clear(w)'
<1>. DEFINE me == worker[w]
            you == worker'[w]
            keys == {Normal[d.name] : d \in me.known}
<1>1. /\ you.pc = "part" /\ you.counts = me.counts
      /\ you.alias = [k \in DOMAIN me.alias \cup keys |-> IF k \in keys THEN k ELSE me.alias[k]]
  BY ResolvedMoves DEF Same
<1>2. me.pc = "resolve" /\ me.todo = {} /\ departments' = departments /\ Items' = Items
  BY DEF Resolved, At, directory, objects, Items
<1>3. /\ me.known \subseteq departments /\ me.counts.failed = 0 /\ Aliased(me)
      /\ \A g \in Items : \/ Known(me.known, Normal[g.department])
                          \/ Normal[g.department] \in DOMAIN me.alias
  BY <1>2 DEF Clear, Committing
<1>4. \A k \in keys : Known(departments, k)
  BY <1>3 DEF Known
<1>5. \A k : Known(me.known, k) => k \in keys
  BY DEF Known
<1>. HIDE DEF me, keys
<1>6. DOMAIN you.alias = DOMAIN me.alias \cup keys
  BY <1>1
<1>7. \A g \in Items : Normal[g.department] \in DOMAIN you.alias
  BY <1>3, <1>5, <1>6
<1>8. \A k \in DOMAIN you.alias : Known(departments, you.alias[k])
  BY <1>1, <1>3, <1>4 DEF Aliased
<1>9. Aliased(worker[w])'
  BY <1>2, <1>8 DEF Aliased, Known
<1>. QED  BY <1>1, <1>2, <1>3, <1>7, <1>9 DEF Clear, Committing

LEMMA ReadStateClear ==
  ASSUME Typed, NEW w \in Worker, ReadState(w), Clear(w), Applied(worker[w])
  PROVE  Clear(w)'
<1>. DEFINE me == worker[w]
            you == worker'[w]
<1>1. /\ me.pc = "state" /\ departments' = departments /\ staff' = staff /\ Items' = Items
      /\ parts' = parts
  BY DEF ReadState, At, directory, objects, Items
<1>2. you.alias = me.alias /\ you.counts = me.counts /\ you.tx = me.tx
  BY ReadStateMoves DEF Same
<1>3. CASE you.pc \in {"halt", "park"}
  BY <1>1, <1>2, <1>3, KeepsClear DEF Committing
<1>4. CASE you.pc = "write" /\ you.staff = staff
  <2>1. you.tx = {}
    BY <1>1, <1>2 DEF Applied
  <2>2. me.counts.failed = 0 /\ Aliased(me) /\ \A g \in Items : Normal[g.department] \in DOMAIN me.alias
    BY <1>1 DEF Clear, Committing
  <2>3. Aliased(worker[w])'
    BY <1>1, <1>2, <2>2 DEF Aliased, Known
  <2>. QED  BY <1>1, <1>2, <1>4, <2>1, <2>2, <2>3 DEF Clear, Committing
<1>. QED  BY <1>3, <1>4, ReadStateMoves

\* The row of an import that nobody disturbs finds nothing in its way.
LEMMA NextIsClear ==
  ASSUME Typed, Staged, NEW w \in Worker, worker[w].pc = "write", worker[w].todo # {}, Clear(w),
         Applied(worker[w]), Buffered(worker[w]), Batched(worker[w]), Compatible(Items)
  PROVE  LET me == worker[w] item == FirstOf(me.todo) IN
         ~Refused(me, item) /\ ~me.aborted /\ ~Gone(me, item) /\ ~Clash(me, item)
<1>. DEFINE me == worker[w]
            item == FirstOf(me.todo)
<1>1. item \in Items /\ item.row = me.counts.processed + 1
  BY NextItem
<1>2. /\ me.counts.failed = 0 /\ Aliased(me) /\ me.staff = staff
      /\ \A g \in Items : Normal[g.department] \in DOMAIN me.alias
      /\ \A t \in me.tx : \E g \in Items : /\ g.row <= me.counts.processed
                                           /\ g.number = t.number /\ g.mail = t.mail
  BY DEF Clear, Committing
<1>3. ~Owned(staff, item.number, item.mail)
  BY <1>1 DEF Compatible
<1>4. me.counts.processed \in Nat
  BY WorkForm, Counts DEF IsWork
<1>. HIDE DEF item
<1>5. ~Refused(me, item)
  BY <1>1, <1>2, <1>3 DEF Refused
<1>6. ~me.aborted
  BY <1>2 DEF Applied
<1>7. ~Gone(me, item)
  BY <1>2 DEF Gone, Exists
<1>8. ~Owned(Overlay(me.tx), item.number, item.mail)
  <2>1. ASSUME NEW n \in DOMAIN Overlay(me.tx), n # item.number, item.mail # None,
               Overlay(me.tx)[n].mail = item.mail
        PROVE  FALSE
    <3>1. CASE \E t \in me.tx : t.number = n
      <4>. DEFINE t == CHOOSE g \in me.tx : g.number = n
      <4>1. t \in me.tx /\ t.number = n
        BY <3>1
      <4>2. Overlay(me.tx)[n] = [mail |-> t.mail, department |-> t.department, rest |-> t.rest]
        BY <2>1, <3>1 DEF Overlay
      <4>. HIDE DEF t
      <4>3. t.mail = item.mail
        BY <2>1, <4>2
      <4>4. PICK g \in Items : g.row <= me.counts.processed /\ g.number = t.number /\ g.mail = t.mail
        BY <1>2, <4>1
      <4>5. g = item
        BY <1>1, <2>1, <4>3, <4>4 DEF Compatible
      <4>. QED  BY <1>1, <1>4, <4>4, <4>5
    <3>2. CASE ~\E t \in me.tx : t.number = n
      <4>1. n \in DOMAIN staff
        BY <2>1, <3>2 DEF Overlay
      <4>2. Overlay(me.tx)[n] = staff[n]
        BY <2>1, <3>2 DEF Overlay
      <4>. QED  BY <1>3, <2>1, <4>1, <4>2 DEF Owned
    <3>. QED  BY <3>1, <3>2
  <2>. QED  BY <2>1 DEF Owned
<1>9. Known(departments, me.alias[Normal[item.department]])
  BY <1>1, <1>2 DEF Aliased
<1>10. ASSUME NEW t \in me.tx, t.number = item.number PROVE FALSE
  <2>1. PICK g \in Items : g.row <= me.counts.processed /\ g.number = t.number
    BY <1>2
  <2>2. g = item
    BY <1>1, <1>10, <2>1 DEF Compatible
  <2>. QED  BY <1>1, <1>4, <2>1, <2>2
<1>11. ~Exists(me, item) => item.number \notin DOMAIN Overlay(me.tx)
  BY <1>2, <1>10 DEF Exists, Overlay
<1>12. ~Clash(me, item)
  BY <1>8, <1>9, <1>11 DEF Clash
<1>. QED  BY <1>5, <1>6, <1>7, <1>12 DEF item

LEMMA ApplyRowClear ==
  ASSUME Typed, Staged, NEW w \in Worker, ApplyRow(w), Clear(w),
         Applied(worker[w]), Buffered(worker[w]), Batched(worker[w]), Compatible(Items)
  PROVE  Clear(w)'
<1>. DEFINE me == worker[w]
            you == worker'[w]
            item == FirstOf(me.todo)
            new == [item EXCEPT !.department = NameOf(me.alias[Normal[item.department]])]
<1>1. me.pc = "write" /\ me.todo # {} /\ directory' = directory /\ Items' = Items
  BY DEF ApplyRow, At, objects, Items
<1>2. item \in Items /\ item.row = me.counts.processed + 1
  BY <1>1, NextItem
<1>3. ~Refused(me, item) /\ ~me.aborted /\ ~Gone(me, item) /\ ~Clash(me, item)
  BY <1>1, NextIsClear
<1>4. /\ me.counts.failed = 0 /\ Aliased(me) /\ me.staff = staff
      /\ \A g \in Items : Normal[g.department] \in DOMAIN me.alias
      /\ \A t \in me.tx : \E g \in Items : /\ g.row <= me.counts.processed
                                           /\ g.number = t.number /\ g.mail = t.mail
  BY <1>1 DEF Clear, Committing
<1>5. me.counts \in Tally /\ me.counts.processed \in Nat
  BY WorkForm, Counts DEF IsWork
<1>6. new.number = item.number /\ new.mail = item.mail
  BY <1>1, ItemForm
<1>. HIDE DEF new
<1>7. /\ you.pc = "write" /\ you.alias = me.alias /\ you.staff = me.staff
      /\ you.tx = me.tx \/ you.tx = Wrote(me.tx, new)
      /\ \/ you.counts = [me.counts EXCEPT !.processed = @ + 1]
         \/ you.counts = [me.counts EXCEPT !.processed = @ + 1, !.updated = @ + 1]
         \/ you.counts = [me.counts EXCEPT !.processed = @ + 1, !.created = @ + 1]
  BY <1>3, ApplyRowMoves DEF Same, new
<1>8. you.counts.failed = 0 /\ you.counts.processed = me.counts.processed + 1
  BY <1>4, <1>5, <1>7, Counts
<1>. HIDE DEF item
<1>9. ASSUME NEW t \in you.tx
      PROVE  \E g \in Items : /\ g.row <= you.counts.processed /\ g.number = t.number /\ g.mail = t.mail
  <2>1. CASE t \in me.tx
    <3>1. PICK g \in Items : g.row <= me.counts.processed /\ g.number = t.number /\ g.mail = t.mail
      BY <1>4, <2>1
    <3>2. g.row \in Nat
      BY ItemRows
    <3>. QED  BY <1>5, <1>8, <3>1, <3>2
  <2>2. CASE t = new
    BY <1>2, <1>5, <1>6, <1>8, <2>2
  <2>3. you.tx \subseteq me.tx \cup {new}
    BY <1>7 DEF Wrote
  <2>. QED  BY <1>9, <2>1, <2>2, <2>3
<1>10. Aliased(worker[w])'
  BY <1>1, <1>4, <1>7 DEF Aliased, Known, directory
<1>. QED  BY <1>1, <1>4, <1>7, <1>8, <1>9, <1>10 DEF Clear, Committing, directory

\* What a worker needs stays there, whatever it does.
LEMMA ActClear ==
  ASSUME Typed, Queued, Reviewed, Asked, Control, Control', Consented, RowExact, [Next]_vars, Orderly',
         ~Colleague, row.counts.failed = 0, Writable,
         NEW w \in Worker, Sound(w), Clear(w), Work(w) \/ Fault(w)
  PROVE  Clear(w)'
<1>. DEFINE me == worker[w]
            you == worker'[w]
<1>1. departments \subseteq departments'
  BY Grows
<1>2. ASSUME me.pc \in Committing PROVE Confirmed /\ Live /\ parts' = parts /\ Staged
  <2>1. worker[w].pc \in Committing \cup {"look", "claimApply"}
    BY <1>2
  <2>2. worker[w].pc \in Committing
    BY <1>2
  <2>. QED  BY <2>1, <2>2, Underway, AsReviewed
<1>3. CASE ReadPart(w) \/ Checkpoint(w)
  <2>1. me.pc \in {"part", "checkpoint"} /\ me.pc \in Committing \ {"resolve"}
    BY <1>3 DEF ReadPart, Checkpoint, At, Committing
  <2>2. you.pc \in {"part", "state", "finish"}
    BY <1>3, ReadPartWork, CheckpointWork, FileKept
  <2>3. you.alias = me.alias /\ you.counts = me.counts
    BY <1>3, ReadPartMoves, CheckpointMoves DEF Same
  <2>4. parts' = parts
    BY <1>2, <2>1
  <2>5. worker'[w].pc \in Committing \ {"resolve", "write"}
    BY <2>2 DEF Committing
  <2>. QED  BY <1>1, <2>1, <2>3, <2>4, <2>5, KeepsClear
<1>4. CASE ReadState(w)
  <2>1. Applied(worker[w])
    BY <1>4 DEF ReadState, At, Sound, Committing
  <2>. QED  BY <1>4, <2>1, ReadStateClear
<1>5. CASE ApplyRow(w)
  <2>1. me.pc = "write" /\ me.pc \in Committing
    BY <1>5 DEF ApplyRow, At, Committing
  <2>2. Applied(worker[w]) /\ Buffered(worker[w]) /\ Batched(worker[w])
    BY <2>1 DEF Sound
  <2>3. Staged /\ Compatible(Items)
    BY <1>2, <2>1 DEF Writable
  <2>. QED  BY <1>5, <2>2, <2>3, ApplyRowClear
<1>6. CASE Commit(w)
  <2>1. me.pc = "write" /\ me.pc \in Committing \ {"resolve"}
    BY <1>6 DEF Commit, At, Committing
  <2>2. you.pc = "checkpoint" /\ you.alias = me.alias /\ you.counts = me.counts
    BY <1>6, CommitMoves DEF Same
  <2>3. parts' = parts
    BY <1>2, <2>1
  <2>4. worker'[w].pc \in Committing \ {"resolve", "write"}
    BY <2>2 DEF Committing
  <2>. QED  BY <1>1, <2>1, <2>2, <2>3, <2>4, KeepsClear
<1>7. CASE Halt(w) \/ Park(w) \/ Late(w)
  <2>1. you.pc \in {"return", "discard"}
    BY <1>7, GoMoves DEF Halt, Park, Late
  <2>. QED  BY <2>1, GoneClear DEF Committing
<1>8. CASE Finish(w)
  <2>1. me.pc = "finish" /\ me.pc \in Committing \ {"resolve"}
    BY <1>8 DEF Finish, At, Committing
  <2>2. you.pc \in {"return", "late"} /\ you.alias = me.alias /\ you.counts = me.counts
    BY <1>8, GoMoves DEF Finish, Same
  <2>3. parts' = parts
    BY <1>2, <2>1
  <2>4. CASE you.pc = "return"
    BY <2>4, GoneClear DEF Committing
  <2>5. CASE you.pc = "late"
    BY <1>1, <2>1, <2>2, <2>3, <2>5, KeepsClear DEF Committing
  <2>. QED  BY <2>2, <2>4, <2>5
<1>9. CASE Look(w)
  BY <1>9, LookClear
<1>10. CASE ClaimApply(w)
  BY <1>10, ClaimClear
<1>11. CASE ResolveDepartment(w)
  <2>1. me.pc \in Committing
    BY <1>11 DEF ResolveDepartment, At, Committing
  <2>. QED  BY <1>1, <1>2, <1>11, <2>1, ResolveClear
<1>12. CASE Resolved(w)
  BY <1>12, ResolvedClear
<1>13. CASE Parse(w) \/ Classify(w) \/ PlanDepartments(w) \/ Stage(w)
  BY <1>13, ParseClear, ClassifyClear, PlanClear, StageClear
<1>14. CASE ClaimValidation(w) \/ ParseNothing(w) \/ Refuse(w) \/ Ready(w) \/ Abandon(w) \/ Discard(w)
  <2>1. you.pc \in {"parse", "return", "caught", "abandon", "discard"}
    BY <1>14, GoMoves DEF ClaimValidation, ParseNothing, Refuse, Ready, Abandon, Discard
  <2>. QED  BY <2>1, GoneClear DEF Committing
<1>15. CASE Take(w)
  <2>1. you.pc \in {"claim", "look"} /\ you.alias = << >>
    BY <1>15, TakeMoves
  <2>. QED  BY <2>1 DEF Clear, Committing
<1>16. CASE Return(w) \/ GiveBack(w) \/ Fault(w)
  <2>1. you.pc \in {"idle", "caught"}
    BY <1>16, LeaveMoves, GoMoves, FreshTypes DEF Fault, Throw
  <2>. QED  BY <2>1, GoneClear DEF Committing
<1>. QED  BY <1>3, <1>4, <1>5, <1>6, <1>7, <1>8, <1>9, <1>10, <1>11, <1>12, <1>13, <1>14, <1>15, <1>16
          DEF Work, Validate, Apply

LEMMA ClearStep ==
  ASSUME Typed, Queued, Reviewed, Asked, Control, Control', Consented, RowExact, WorkExact, [Next]_vars,
         Orderly', ~Colleague, Calm
  PROVE  \A w \in Worker : Clear(w)'
<1>1. row.counts.failed = 0 /\ Writable /\ \A w \in Worker : Clear(w)
  BY DEF Calm
<1>2. CASE \E w \in Worker : Work(w) \/ Fault(w)
  <2>1. PICK w \in Worker : Work(w) \/ Fault(w)
    BY <1>2
  <2>2. Clear(w)'
    BY <1>1, <2>1, ActClear DEF WorkExact
  <2>3. Alone(w)
    BY <2>1, WorkerWell, FileKept DEF Well
  <2>4. ASSUME NEW v \in Worker, v # w PROVE Clear(v)'
    <3>1. worker'[v] = worker[v] /\ Clear(v)
      BY <1>1, <2>3, <2>4 DEF Alone
    <3>. QED  BY <3>1, OthersClear
  <2>. QED  BY <2>2, <2>4
<1>3. CASE ~\E w \in Worker : Work(w) \/ Fault(w)
  <2>1. worker' = worker
    BY <1>3, OthersKeepWorkers
  <2>. QED  BY <1>1, <2>1, OthersClear
<1>. QED  BY <1>2, <1>3

\* A batch that is written takes no number or email that another row has.
LEMMA CommitWritable ==
  ASSUME Typed, Control, NEW w \in Worker, Commit(w), Clear(w), Compatible(Items)
  PROVE  \A g \in Items : ~Owned(staff, g.number, g.mail)'
<1>. DEFINE me == worker[w]
<1>1. /\ me.pc = "write"
      /\ staff' = staff \/ staff' = Overlay(me.tx)
  BY DEF Commit, At
<1>2. \A t \in me.tx : \E g \in Items : g.number = t.number /\ g.mail = t.mail
  BY <1>1 DEF Clear
<1>3. ASSUME NEW g \in Items, g.mail # None, NEW n \in DOMAIN Overlay(me.tx), n # g.number,
             Overlay(me.tx)[n].mail = g.mail
      PROVE  FALSE
  <2>1. CASE \E t \in me.tx : t.number = n
    <3>. DEFINE t == CHOOSE x \in me.tx : x.number = n
    <3>1. t \in me.tx /\ t.number = n
      BY <2>1
    <3>2. Overlay(me.tx)[n] = [mail |-> t.mail, department |-> t.department, rest |-> t.rest]
      BY <1>3, <2>1 DEF Overlay
    <3>. HIDE DEF t
    <3>3. PICK h \in Items : h.number = t.number /\ h.mail = t.mail
      BY <1>2, <3>1
    <3>4. h.mail = g.mail
      BY <1>3, <3>2, <3>3
    <3>5. h = g
      BY <1>3, <3>4 DEF Compatible
    <3>. QED  BY <1>3, <3>1, <3>3, <3>5
  <2>2. CASE ~\E t \in me.tx : t.number = n
    <3>1. n \in DOMAIN staff
      BY <1>3, <2>2 DEF Overlay
    <3>2. Overlay(me.tx)[n] = staff[n]
      BY <1>3, <2>2 DEF Overlay
    <3>3. Owned(staff, g.number, g.mail)
      BY <1>3, <3>1, <3>2 DEF Owned
    <3>. QED  BY <3>3 DEF Compatible
  <2>. QED  BY <2>1, <2>2
<1>4. \A g \in Items : ~Owned(Overlay(me.tx), g.number, g.mail)
  BY <1>3 DEF Owned
<1>5. \A g \in Items : ~Owned(staff, g.number, g.mail)
  BY DEF Compatible
<1>. QED  BY <1>1, <1>4, <1>5 DEF Owned

\* What was reviewed can be written until it has been.
LEMMA WritableStep ==
  ASSUME Typed, Queued, Reviewed, Asked, Control, Consented, WorkExact, [Next]_vars,
         Orderly', ~Colleague, Calm
  PROVE  Writable'
<1>1. CASE row.status = "VALIDATING" /\ \E w \in Worker : Ready(w)
  <2>1. PICK w \in Worker : Ready(w)
    BY <1>1
  <2>. DEFINE me == worker[w]
  <2>2. ASSUME Confirmed' PROVE me.wrong = {}
    <3>1. row'.invalid = 0
      BY <2>2 DEF Confirmed
    <3>2. row'.invalid = Cardinality(me.wrong)
      BY <1>1, <2>1 DEF Ready, Typed, IsRow
    <3>3. Checked(me) /\ Lines \in Nat
      BY <2>1, LinesType DEF Typed, Ready, At
    <3>4. IsFiniteSet(me.wrong)
      <4>. DEFINE n == me.at
      <4>1. n \in Nat /\ me.wrong \subseteq 1 .. n
        BY <3>3 DEF Checked
      <4>. HIDE DEF n
      <4>2. IsFiniteSet(1 .. n)
        BY <4>1, FS_Interval
      <4>. QED  BY <4>1, <4>2, FS_Subset
    <3>. QED  BY <3>1, <3>2, <3>4, FS_EmptySet
  <2>3. me.pc = "stage" /\ Chunk(me.good, me.part) = {} /\ Staging(me) /\ Checked(me)
    BY <2>1 DEF Ready, At, WorkExact, Sound, Typed
  <2>4. /\ \A g \in me.good : ~Owned(staff, g.number, g.mail)
        /\ me.known \subseteq departments /\ Housed(me.good, me.known, DOMAIN me.seen.plan)
    BY <2>3 DEF Calm, Clear
  <2>5. row'.plan = me.seen.plan /\ directory' = directory /\ parts' = parts
    BY <1>1, <2>1 DEF Ready, Typed, IsRow, objects
  <2>6. ASSUME Confirmed' PROVE Items = me.good /\ Compatible(Items)
    BY <2>2, <2>3, <2>4, <2>6, WholeStaged, GoodTogether
  <2>7. ASSUME Confirmed' PROVE Compatible(Items)' /\ Housed(Items, departments, DOMAIN row.plan)'
    <3>1. Items' = Items
      BY <2>5 DEF Items
    <3>2. Compatible(Items)'
      BY <2>5, <2>6, <2>7, <3>1 DEF Compatible, Owned, directory
    <3>3. \A key : Known(me.known, key) => Known(departments, key)
      BY <2>4 DEF Known
    <3>4. Housed(Items, departments, DOMAIN row'.plan)
      BY <2>4, <2>5, <2>6, <2>7, <3>3 DEF Housed
    <3>. QED  BY <2>5, <3>1, <3>2, <3>4 DEF Housed, Known, directory
  <2>. QED  BY <2>7 DEF Writable
<1>2. CASE row.status = "VALIDATING" => \A w \in Worker : ~Ready(w)
  <2>. SUFFICES ASSUME Confirmed', Live'
                PROVE  Compatible(Items)' /\ Housed(Items, departments, DOMAIN row.plan)'
    BY DEF Writable
  <2>1. row.prefix /\ Confirmed /\ SameReview(row, row')
    BY <1>2, SameConfirmation DEF Confirmed
  <2>2. Live /\ parts' = parts
    BY <2>1, SameStaged
  <2>3. Items' = Items
    BY <2>2 DEF Items
  <2>4. Compatible(Items) /\ Housed(Items, departments, DOMAIN row.plan)
    BY <2>1, <2>2 DEF Calm, Writable
  <2>5. \A g \in Items : ~Owned(staff, g.number, g.mail)'
    <3>1. CASE \E w \in Worker : Commit(w)
      BY <2>4, <3>1, CommitWritable DEF Calm
    <3>2. CASE \A w \in Worker : ~Commit(w)
      BY <2>4, <3>2, OnlyCommitHires DEF Compatible, Owned
    <3>. QED  BY <3>1, <3>2
  <2>6. Compatible(Items)'
    BY <2>3, <2>4, <2>5 DEF Compatible
  <2>7. \A key : Known(departments, key) => Known(departments, key)'
    BY Grows DEF Known
  <2>. QED  BY <2>1, <2>3, <2>4, <2>6, <2>7 DEF Housed, SameReview
<1>. QED  BY <1>1, <1>2

LEMMA CalmStep ==
  ASSUME CalmInv, [Next]_vars, Orderly', Undisturbed'
  PROVE  Calm'
<1>1. Typed /\ Queued /\ Reviewed /\ Asked
  BY DEF CalmInv, ExactInv, ControlInv
<1>2. Undisturbed /\ ~Colleague
  BY <1>1, LeftAlone
<1>3. Orderly /\ Control /\ RowExact /\ Consented /\ WorkExact /\ Calm
  BY <1>1, <1>2, OrderlyBefore DEF CalmInv, ExactInv, ControlInv, Exact
<1>4. Control'
  BY ControlInvStep DEF CalmInv, ExactInv, ControlInv
<1>5. \A w \in Worker : Clear(w)'
  BY <1>1, <1>2, <1>3, <1>4, ClearStep
<1>6. Writable'
  BY <1>1, <1>2, <1>3, WritableStep
<1>7. row'.counts.failed = 0
  <2>1. CASE \E w \in Worker : Checkpoint(w)
    <3>1. PICK w \in Worker : Checkpoint(w)
      BY <2>1
    <3>2. row'.counts = worker[w].counts
      BY <1>1, <3>1 DEF Checkpoint, Typed, IsRow
    <3>3. worker[w].pc \in Committing
      BY <3>1 DEF Checkpoint, At, Committing
    <3>. QED  BY <1>3, <3>2, <3>3 DEF Calm, Clear
  <2>2. CASE row.status = "APPLYING" /\ \E w \in Worker : Finish(w)
    <3>1. PICK w \in Worker : Finish(w)
      BY <2>2
    <3>. DEFINE counts == [worker[w].counts EXCEPT !.processed = row.counts.processed]
    <3>2. row'.counts = counts
      BY <1>1, <2>2, <3>1 DEF Finish, Typed, IsRow
    <3>3. worker[w].counts.failed = 0
      BY <1>3, <3>1 DEF Finish, At, Committing, Calm, Clear
    <3>4. worker[w].counts \in Tally
      BY <1>1, WorkForm DEF IsWork
    <3>. QED  BY <3>2, <3>3, <3>4 DEF Tally
  <2>3. CASE row.status = "VALIDATING" /\ \E w \in Worker : Ready(w)
    BY <1>1, <1>3, <2>3 DEF Ready, Typed, IsRow, Calm
  <2>4. CASE /\ \A w \in Worker : ~Checkpoint(w)
             /\ row.status = "VALIDATING" => \A w \in Worker : ~Ready(w)
             /\ row.status = "APPLYING" => \A w \in Worker : ~Finish(w)
    BY <1>1, <1>3, <2>4, CountsStay DEF Calm
  <2>. QED  BY <2>1, <2>2, <2>3, <2>4
<1>. QED  BY <1>5, <1>6, <1>7 DEF Calm

LEMMA CalmInit == Init => CalmInv
<1>. SUFFICES ASSUME Init PROVE CalmInv
  OBVIOUS
<1>1. row.prefix = FALSE /\ row.counts.failed = 0
  BY DEF Init, FreshRow, Counters
<1>2. \A w \in Worker : worker[w].pc = "idle"
  BY DEF Init, IdleWorker
<1>3. \A w \in Worker : Clear(w)
  BY <1>2 DEF Clear, Committing
<1>. QED  BY <1>1, <1>3, ExactInit DEF CalmInv, Calm, Writable, Confirmed

LEMMA CalmInvStep == CalmInv /\ [Next]_vars => CalmInv'
<1>. SUFFICES ASSUME CalmInv, [Next]_vars PROVE CalmInv'
  OBVIOUS
<1>1. ExactInv'
  BY ExactInvStep DEF CalmInv
<1>2. Orderly' /\ Undisturbed' => Calm'
  BY CalmStep
<1>. QED  BY <1>1, <1>2 DEF CalmInv

\* Of an import that was reviewed and confirmed every row is applied, as long as nobody else
\* changes the directory: no row that validateImport let through is refused by applyBatch, and
\* no batch that is applied again after a crash, a pause or a retry is.
THEOREM UndisturbedHolds == Spec => []UndisturbedSucceeds
<1>1. CalmInv => UndisturbedSucceeds
  BY DEF CalmInv, Calm, Undisturbed, UndisturbedSucceeds
<1>. QED  BY <1>1, CalmInit, CalmInvStep, PTL DEF Spec

------------------------------------------------------------------------------
(* The directory, whoever changes it.                                         *)

\* A transaction of the import that the database will commit.
Writing(w) == worker[w].pc = "write" /\ ~worker[w].aborted

\* What it has written can go into the directory of these employees and departments.
Harmless(tx, people, places) ==
  /\ OnePerEmployee(tx)
  /\ \A g, h \in tx : g.mail # None /\ g.mail = h.mail => g = h
  /\ \A g \in tx : \E d \in places : d.name = g.department
  /\ \A g \in tx, n \in DOMAIN people :
       g.mail # None /\ people[n].mail = g.mail => \E h \in tx : h.number = n

\* Two transactions that do not wait for each other.
Apart(S, T) ==
  \A g \in S, h \in T : g.number # h.number /\ (g.mail # None => g.mail # h.mail)

TxInv ==
  /\ \A w \in Worker : worker[w].pc \notin {"write", "caught"} => worker[w].tx = {}
  /\ \A w \in Worker : Writing(w) => Harmless(worker[w].tx, staff, departments)
  /\ \A v, w \in Worker :
       v # w /\ Writing(v) /\ Writing(w) => Apart(worker[v].tx, worker[w].tx)

DirectoryInv == Typed /\ DirectorySound /\ TxInv

\* A transaction grows row by row, and is over when the batch is.
LEMMA TxMoves ==
  ASSUME Typed, [Next]_vars, NEW w \in Worker, ~ApplyRow(w),
         worker[w].pc \notin {"write", "caught"} => worker[w].tx = {}
  PROVE  /\ worker'[w].pc \notin {"write", "caught"} => worker'[w].tx = {}
         /\ Writing(w)' => \/ worker'[w].tx = {}
                           \/ Writing(w) /\ worker'[w].tx = worker[w].tx
<1>. DEFINE me == worker[w]
            you == worker'[w]
<1>0. file' = file
  BY FileKept
<1>1. CASE ~(\E v \in Worker : Work(v) \/ Fault(v))
  BY <1>1, OthersKeepWorkers DEF Writing
<1>2. ASSUME NEW v \in Worker, v # w, Work(v) \/ Fault(v)
      PROVE  worker'[w] = worker[w]
  BY <1>0, <1>2, WorkerWell DEF Well, Alone
<1>3. ASSUME me.pc \notin {"write", "caught"}, you.tx = me.tx
      PROVE  you.tx = {}
  BY <1>3
<1>4. ASSUME NEW pc, Goto(w, pc)
      PROVE  you.pc = pc /\ you.tx = me.tx
  BY <1>4, GoMoves DEF Same
<1>5. CASE Throw(w)
  BY <1>4, <1>5 DEF Throw, Writing
<1>6. CASE Return(w) \/ GiveBack(w) \/ Crash(w)
  <2>1. you = IdleWorker
    BY <1>6, LeaveMoves
  <2>. QED  BY <2>1 DEF IdleWorker
<1>7. CASE Take(w)
  <2>1. Fresh(you)
    BY <1>7, TakeMoves
  <2>. QED  BY <2>1 DEF Fresh
<1>8. CASE Commit(w)
  BY <1>8, CommitMoves
<1>9. CASE Validate(w)
  <2>1. me.pc \notin {"write", "caught"}
    <3>1. \/ At(w, "claim") \/ At(w, "parse") \/ At(w, "refuse") \/ At(w, "classify") \/ At(w, "plan")
          \/ At(w, "stage") \/ At(w, "abandon") \/ At(w, "discard")
      BY <1>9, Zenon DEF Validate, ClaimValidation, Parse, ParseNothing, Refuse, Classify,
                PlanDepartments, Stage, Ready, Abandon, Discard
    <3>. QED  BY <3>1 DEF At
  <2>2. CASE ClaimValidation(w) \/ ParseNothing(w) \/ Refuse(w) \/ Ready(w) \/ Abandon(w) \/ Discard(w)
    <3>1. \E pc : Goto(w, pc)
      BY <2>2 DEF ClaimValidation, ParseNothing, Refuse, Ready, Abandon, Discard
    <3>. QED  BY <1>3, <1>4, <2>1, <3>1
  <2>3. CASE Parse(w)
    BY <1>3, <2>1, <2>3, ParseMoves DEF Same
  <2>4. CASE Classify(w)
    BY <1>3, <2>1, <2>4, ClassifyMoves DEF Same
  <2>5. CASE PlanDepartments(w)
    BY <1>3, <2>1, <2>5, PlanMoves DEF Same
  <2>6. CASE Stage(w)
    BY <1>3, <2>1, <2>6, StageMoves DEF Same
  <2>. QED  BY <1>9, <2>2, <2>3, <2>4, <2>5, <2>6 DEF Validate
<1>10. CASE Apply(w) /\ ~Commit(w)
  <2>1. me.pc \notin {"write", "caught"}
    BY <1>10 DEF Apply, Look, ClaimApply, ResolveDepartment, Resolved, ReadPart, ReadState,
              Halt, Park, Checkpoint, Finish, Late, At
  <2>2. CASE Halt(w) \/ Park(w) \/ Finish(w) \/ Late(w)
    <3>1. \E pc : Goto(w, pc)
      BY <2>2 DEF Halt, Park, Finish, Late
    <3>. QED  BY <1>3, <1>4, <2>1, <3>1
  <2>3. CASE Look(w)
    BY <1>3, <2>1, <2>3, LookMoves DEF Same
  <2>4. CASE ClaimApply(w)
    BY <1>3, <2>1, <2>4, ClaimApplyMoves DEF Same
  <2>5. CASE ResolveDepartment(w)
    <3>1. PICK from \in worker[w].todo :
              LET target == Planned(worker[w].seen.plan, from)
              IN  \/ ResolveKnown(w, from, target)
                  \/ ResolveRefused(w, target)
                  \/ ResolveCreate(w, target)
      BY <2>5 DEF ResolveDepartment
    <3>. DEFINE target == Planned(worker[w].seen.plan, from)
    <3>. HIDE DEF target
    <3>2. ResolveRefused(w, target) => Goto(w, "return")
      BY DEF ResolveRefused
    <3>3. me.pc = "resolve"
      BY <2>5 DEF ResolveDepartment, At
    <3>4. you.tx = me.tx
      BY <1>4, <3>1, <3>2, <3>3, KnownMoves, CreateMoves DEF target, Same
    <3>. QED  BY <1>3, <2>1, <3>4
  <2>6. CASE Resolved(w)
    BY <1>3, <2>1, <2>6, ResolvedMoves DEF Same
  <2>7. CASE ReadPart(w)
    BY <1>3, <2>1, <2>7, ReadPartMoves DEF Same
  <2>8. CASE ReadState(w)
    BY <1>3, <2>1, <2>8, ReadStateMoves DEF Same
  <2>9. CASE Checkpoint(w)
    BY <1>3, <2>1, <2>9, CheckpointMoves DEF Same
  <2>. QED  BY <1>10, <2>2, <2>3, <2>4, <2>5, <2>6, <2>7, <2>8, <2>9 DEF Apply
<1>11. CASE Work(w) \/ Fault(w)
  BY <1>5, <1>6, <1>7, <1>8, <1>9, <1>10, <1>11 DEF Work, Fault
<1>12. worker'[w] = worker[w] => you.pc = me.pc /\ you.tx = me.tx /\ (Writing(w)' => Writing(w))
  BY DEF Writing
<1>. QED  BY <1>1, <1>2, <1>11, <1>12

\* Transactions that are left alone, in a directory they still fit in.
LEMMA TxStay ==
  ASSUME Typed, TxInv, [Next]_vars, \A w \in Worker : ~ApplyRow(w),
         \A w \in Worker : Writing(w) /\ Writing(w)' => Harmless(worker[w].tx, staff', departments')
  PROVE  TxInv'
<1>1. \A w \in Worker :
        /\ worker'[w].pc \notin {"write", "caught"} => worker'[w].tx = {}
        /\ Writing(w)' => \/ worker'[w].tx = {}
                          \/ Writing(w) /\ worker'[w].tx = worker[w].tx
  BY TxMoves DEF TxInv
<1>2. Harmless({}, staff', departments')
  BY DEF Harmless, OnePerEmployee
<1>3. \A w \in Worker : Writing(w)' => Harmless(worker'[w].tx, staff', departments')
  BY <1>1, <1>2
<1>4. ASSUME NEW v \in Worker, NEW w \in Worker, v # w, Writing(v)', Writing(w)'
      PROVE  Apart(worker'[v].tx, worker'[w].tx)
  <2>1. CASE worker'[v].tx = {} \/ worker'[w].tx = {}
    BY <2>1 DEF Apart
  <2>2. CASE worker'[v].tx # {} /\ worker'[w].tx # {}
    <3>1. /\ Writing(v) /\ worker'[v].tx = worker[v].tx
          /\ Writing(w) /\ worker'[w].tx = worker[w].tx
      BY <1>1, <1>4, <2>2
    <3>. QED  BY <1>4, <3>1 DEF TxInv
  <2>. QED  BY <2>1, <2>2
<1>. QED  BY <1>1, <1>3, <1>4 DEF TxInv

\* What a transaction will make of the directory.
LEMMA OverlayForm ==
  ASSUME NEW tx, OnePerEmployee(tx)
  PROVE  /\ DOMAIN Overlay(tx) = DOMAIN staff \cup {g.number : g \in tx}
         /\ \A g \in tx : Overlay(tx)[g.number] = [mail |-> g.mail, department |-> g.department,
                                                   rest |-> g.rest]
         /\ \A n \in DOMAIN staff : (\A g \in tx : g.number # n) => Overlay(tx)[n] = staff[n]
<1>1. DOMAIN Overlay(tx) = DOMAIN staff \cup {g.number : g \in tx}
  BY DEF Overlay
<1>2. ASSUME NEW g \in tx
      PROVE  Overlay(tx)[g.number] = [mail |-> g.mail, department |-> g.department, rest |-> g.rest]
  <2>1. (CHOOSE h \in tx : h.number = g.number) = g
    BY DEF OnePerEmployee
  <2>. QED  BY <2>1 DEF Overlay
<1>3. ASSUME NEW n \in DOMAIN staff, \A g \in tx : g.number # n
      PROVE  Overlay(tx)[n] = staff[n]
  BY <1>3 DEF Overlay
<1>. QED  BY <1>1, <1>2, <1>3

\* The row that is written is in a department of the directory.
LEMMA InDepartment ==
  ASSUME NEW key, Known(departments, key)
  PROVE  \E d \in departments : d.name = NameOf(key)
BY DEF Known, NameOf

\* One more row that neither the transaction nor the indexes refuse.
LEMMA WroteHarmless ==
  ASSUME NEW tx, Harmless(tx, staff, departments), NEW new,
         ~Owned(Overlay(tx), new.number, new.mail),
         \E d \in departments : d.name = new.department
  PROVE  Harmless(Wrote(tx, new), staff, departments)
<1>. DEFINE all == Wrote(tx, new)
<1>1. \A g \in all : g = new \/ (g \in tx /\ g.number # new.number)
  BY DEF Wrote
<1>2. \A n : (\E g \in tx : g.number = n) => \E g \in all : g.number = n
  BY DEF Wrote
<1>3. OnePerEmployee(all)
  BY <1>1 DEF Harmless, OnePerEmployee
<1>4. /\ \A g \in tx : Overlay(tx)[g.number].mail = g.mail /\ g.number \in DOMAIN Overlay(tx)
      /\ \A n \in DOMAIN staff : n \in DOMAIN Overlay(tx)
      /\ \A n \in DOMAIN staff : (\A g \in tx : g.number # n) => Overlay(tx)[n] = staff[n]
  <2>1. OnePerEmployee(tx)
    BY DEF Harmless
  <2>2. DOMAIN Overlay(tx) = DOMAIN staff \cup {g.number : g \in tx}
    BY <2>1, OverlayForm
  <2>3. \A g \in tx : Overlay(tx)[g.number] = [mail |-> g.mail, department |-> g.department,
                                               rest |-> g.rest]
    BY <2>1, OverlayForm
  <2>4. \A n \in DOMAIN staff : (\A g \in tx : g.number # n) => Overlay(tx)[n] = staff[n]
    BY <2>1, OverlayForm
  <2>5. ASSUME NEW g \in tx
        PROVE  Overlay(tx)[g.number].mail = g.mail /\ g.number \in DOMAIN Overlay(tx)
    <3>1. Overlay(tx)[g.number] = [mail |-> g.mail, department |-> g.department, rest |-> g.rest]
      BY <2>3
    <3>2. Overlay(tx)[g.number].mail = g.mail
      BY <3>1
    <3>. QED  BY <2>2, <3>2
  <2>. QED  BY <2>2, <2>4, <2>5
<1>5. \A g \in tx : g.number # new.number /\ new.mail # None => g.mail # new.mail
  BY <1>4 DEF Owned
<1>6. \A g, h \in all : g.mail # None /\ g.mail = h.mail => g = h
  BY <1>1, <1>5 DEF Harmless
<1>7. \A g \in all : \E d \in departments : d.name = g.department
  BY <1>1 DEF Harmless
<1>8. ASSUME NEW g \in all, NEW n \in DOMAIN staff, g.mail # None, staff[n].mail = g.mail
      PROVE  \E h \in all : h.number = n
  <2>1. CASE g # new
    BY <1>1, <1>2, <1>8, <2>1 DEF Harmless
  <2>2. CASE g = new
    <3>. SUFFICES ASSUME \A h \in tx : h.number # n, n # new.number PROVE FALSE
      <4>1. new \in all
        BY DEF Wrote
      <4>. QED  BY <1>2, <4>1
    <3>. QED  BY <1>4, <1>8, <2>2 DEF Owned
  <2>. QED  BY <2>1, <2>2
<1>. HIDE DEF all
<1>9. Harmless(all, staff, departments)
  BY <1>3, <1>6, <1>7, <1>8 DEF Harmless
<1>. QED  BY <1>9 DEF all

\* What is in flight elsewhere: a row is written when it does not have to wait for that.
LEMMA Awaits ==
  ASSUME NEW others \in SUBSET Worker, NEW number, NEW mail, ~Locked(InFlight(others), number, mail)
  PROVE  \A v \in others : Writing(v) =>
           \A g \in worker[v].tx : g.number # number /\ (mail # None => g.mail # mail)
<1>1. ASSUME NEW v \in others, Writing(v), NEW g \in worker[v].tx
      PROVE  g \in InFlight(others)
  BY <1>1 DEF InFlight, Writing, At
<1>. QED  BY <1>1 DEF Locked

LEMMA RowWaits ==
  ASSUME NEW w \in Worker, ApplyRow(w)
  PROVE  LET me == worker[w] item == FirstOf(me.todo) IN
         item.kind # "UNCHANGED" /\ ~Refused(me, item) /\ ~me.aborted =>
           ~Locked(InFlight(Worker \ {w}), item.number, item.mail)
BY Zenon DEF ApplyRow, FirstOf, Refused

LEMMA RowWritten ==
  ASSUME DirectoryInv, [Next]_vars, NEW w \in Worker, ApplyRow(w)
  PROVE  DirectorySound' /\ TxInv'
<1>. DEFINE me == worker[w]
            you == worker'[w]
            item == FirstOf(me.todo)
            new == [item EXCEPT !.department = NameOf(me.alias[Normal[item.department]])]
<1>1. Typed /\ DirectorySound /\ TxInv
  BY DEF DirectoryInv
<1>2. staff' = staff /\ departments' = departments /\ me.pc = "write" /\ me.todo # {}
  <2>1. me.pc = "write" /\ me.todo # {} /\ directory' = directory
    BY DEF ApplyRow, At
  <2>. QED  BY <2>1 DEF directory
<1>3. DirectorySound'
  BY <1>1, <1>2 DEF DirectorySound
<1>4. /\ you.pc = "write" /\ Alone(w)
      /\ \/ you.tx = me.tx /\ (me.aborted => you.aborted)
         \/ /\ item.kind # "UNCHANGED" /\ ~Refused(me, item) /\ ~Clash(me, item)
            /\ ~me.aborted /\ you.tx = Wrote(me.tx, new)
  <2>1. /\ you.pc = "write" /\ Alone(w)
        /\ \/ you.tx = me.tx /\ you.aborted = me.aborted
           \/ you.tx = me.tx /\ (me.aborted => you.aborted)
           \/ /\ item.kind # "UNCHANGED" /\ ~Refused(me, item) /\ ~Clash(me, item)
              /\ ~me.aborted /\ you.tx = Wrote(me.tx, new)
    BY <1>1, ApplyRowMoves
  <2>. HIDE DEF item, new
  <2>. QED  BY <2>1, Zenon
<1>5. \A v \in Worker \ {w} : worker'[v] = worker[v]
  BY <1>4 DEF Alone
<1>6. CASE you.tx = me.tx /\ (me.aborted => you.aborted)
  <2>1. \A v \in Worker : /\ worker'[v].pc = worker[v].pc /\ worker'[v].tx = worker[v].tx
                          /\ Writing(v)' => Writing(v)
    BY <1>2, <1>4, <1>5, <1>6 DEF Writing
  <2>2. TxInv'
    BY <1>1, <1>2, <2>1 DEF TxInv
  <2>. QED  BY <1>3, <2>2
<1>7. CASE /\ item.kind # "UNCHANGED" /\ ~Refused(me, item) /\ ~Clash(me, item)
           /\ ~me.aborted /\ you.tx = Wrote(me.tx, new)
  <2>1. new.number = item.number /\ new.mail = item.mail
    BY <1>1, <1>2, ItemForm
  <2>2. \E d \in departments : d.name = new.department
    <3>1. item \in NormalizedRow
      BY <1>1, <1>2, ItemForm
    <3>2. new.department = NameOf(me.alias[Normal[item.department]])
      BY <3>1 DEF NormalizedRow
    <3>. QED  BY <1>7, <3>2, InDepartment DEF Clash
  <2>3. ~Owned(Overlay(me.tx), item.number, item.mail)
    BY <1>7 DEF Clash
  <2>4. ~Locked(InFlight(Worker \ {w}), item.number, item.mail)
    BY <1>7, RowWaits
  <2>. HIDE DEF new, item
  <2>5. Writing(w) /\ Harmless(me.tx, staff, departments)
    BY <1>1, <1>2, <1>7 DEF Writing, TxInv
  <2>6. Harmless(you.tx, staff, departments)
    BY <1>7, <2>1, <2>2, <2>3, <2>5, WroteHarmless
  <2>7. ASSUME NEW v \in Worker \ {w}, Writing(v)
        PROVE  Apart(worker[v].tx, you.tx) /\ Apart(you.tx, worker[v].tx)
    <3>1. Apart(worker[v].tx, me.tx) /\ Apart(me.tx, worker[v].tx)
      BY <1>1, <2>5, <2>7 DEF TxInv
    <3>2. \A g \in worker[v].tx : g.number # new.number /\ (new.mail # None => g.mail # new.mail)
      BY <2>1, <2>4, <2>7, Awaits
    <3>3. \A g \in you.tx : g = new \/ g \in me.tx
      BY <1>7 DEF Wrote
    <3>. QED  BY <3>1, <3>2, <3>3 DEF Apart
  <2>8. \A v \in Worker \ {w} : Writing(v)' <=> Writing(v)
    BY <1>5 DEF Writing
  <2>9. \A v \in Worker : worker'[v].pc \notin {"write", "caught"} => worker'[v].tx = {}
    BY <1>1, <1>4, <1>5 DEF TxInv
  <2>10. \A v \in Worker : Writing(v)' => Harmless(worker'[v].tx, staff', departments')
    BY <1>1, <1>2, <1>5, <2>6, <2>8 DEF TxInv
  <2>11. \A u, v \in Worker : u # v /\ Writing(u)' /\ Writing(v)' => Apart(worker'[u].tx, worker'[v].tx)
    BY <1>1, <1>5, <2>7, <2>8 DEF TxInv
  <2>12. TxInv'
    BY <2>9, <2>10, <2>11 DEF TxInv
  <2>. QED  BY <1>3, <2>12
<1>. QED  BY <1>4, <1>6, <1>7

\* The COMMIT: the employees of the batch as they were written, the others as they are.
LEMMA BatchCommitted ==
  ASSUME DirectoryInv, [Next]_vars, NEW w \in Worker, Commit(w)
  PROVE  DirectorySound' /\ TxInv'
<1>. DEFINE me == worker[w]
            tx == me.tx
<1>1. Typed /\ DirectorySound /\ TxInv
  BY DEF DirectoryInv
<1>2. me.pc = "write" /\ departments' = departments /\ worker'[w].pc = "checkpoint"
  <2>1. worker'[w].pc = "checkpoint"
    BY <1>1, CommitMoves
  <2>. QED  BY <2>1 DEF Commit, At
<1>3. \A v \in Worker : ~ApplyRow(v)
  <2>1. ASSUME NEW v \in Worker, ApplyRow(v) PROVE FALSE
    <3>1. worker'[v].pc = "write"
      BY <1>1, <2>1, ApplyRowWork, FileKept
    <3>2. Alone(v)
      BY <1>1, <2>1, WorkerWell, FileKept DEF Well, Work, Apply
    <3>. QED  BY <1>2, <3>1, <3>2 DEF Alone
  <2>. QED  BY <2>1
<1>4. CASE me.aborted
  <2>1. staff' = staff
    BY <1>4 DEF Commit
  <2>2. DirectorySound'
    BY <1>1, <1>2, <2>1 DEF DirectorySound
  <2>. QED  BY <1>1, <1>2, <1>3, <2>1, <2>2, TxStay DEF TxInv
<1>5. CASE ~me.aborted
  <2>1. staff' = Overlay(tx) /\ Writing(w) /\ Harmless(tx, staff, departments)
    BY <1>1, <1>2, <1>5 DEF Commit, Writing, TxInv
  <2>. HIDE DEF tx
  <2>2. /\ DOMAIN staff' = DOMAIN staff \cup {g.number : g \in tx}
        /\ \A g \in tx : staff'[g.number].mail = g.mail /\ staff'[g.number].department = g.department
        /\ \A n \in DOMAIN staff : (\A g \in tx : g.number # n) => staff'[n] = staff[n]
    <3>1. OnePerEmployee(tx)
      BY <2>1 DEF Harmless
    <3>2. DOMAIN staff' = DOMAIN staff \cup {g.number : g \in tx}
      BY <2>1, <3>1, OverlayForm
    <3>3. \A g \in tx : staff'[g.number] = [mail |-> g.mail, department |-> g.department, rest |-> g.rest]
      BY <2>1, <3>1, OverlayForm
    <3>4. \A n \in DOMAIN staff : (\A g \in tx : g.number # n) => staff'[n] = staff[n]
      BY <2>1, <3>1, OverlayForm
    <3>5. ASSUME NEW g \in tx
          PROVE  staff'[g.number].mail = g.mail /\ staff'[g.number].department = g.department
      <4>1. staff'[g.number] = [mail |-> g.mail, department |-> g.department, rest |-> g.rest]
        BY <3>3
      <4>. QED  BY <4>1
    <3>. QED  BY <3>2, <3>4, <3>5
  <2>3. \A n \in DOMAIN staff' :
          \/ \E g \in tx : g.number = n /\ staff'[n].mail = g.mail /\ staff'[n].department = g.department
          \/ n \in DOMAIN staff /\ staff'[n] = staff[n] /\ \A g \in tx : g.number # n
    BY <2>2
  <2>4. ASSUME NEW m \in DOMAIN staff', NEW n \in DOMAIN staff', m # n, staff'[m].mail = staff'[n].mail
        PROVE  staff'[m].mail = None
    <3>1. ASSUME NEW g \in tx, g.number = m, staff'[m].mail = g.mail,
                 NEW h \in tx, h.number = n, staff'[n].mail = h.mail
          PROVE  staff'[m].mail = None
      <4>1. g.mail = h.mail /\ g # h
        BY <2>4, <3>1
      <4>2. \A i, j \in tx : i.mail # None /\ i.mail = j.mail => i = j
        BY <2>1 DEF Harmless
      <4>. QED  BY <3>1, <4>1, <4>2
    <3>2. ASSUME NEW i \in DOMAIN staff, NEW g \in tx, staff[i].mail = g.mail, \A h \in tx : h.number # i
          PROVE  g.mail = None
      BY <2>1, <3>2 DEF Harmless
    <3>3. CASE /\ m \in DOMAIN staff /\ staff'[m] = staff[m]
               /\ n \in DOMAIN staff /\ staff'[n] = staff[n]
      BY <1>1, <2>4, <3>3 DEF DirectorySound
    <3>. QED  BY <2>3, <2>4, <3>1, <3>2, <3>3
  <2>5. \A n \in DOMAIN staff' : \E d \in departments : d.name = staff'[n].department
    BY <1>1, <2>1, <2>3 DEF DirectorySound, Harmless
  <2>6. DirectorySound'
    BY <1>1, <1>2, <2>4, <2>5 DEF DirectorySound
  <2>7. ASSUME NEW v \in Worker, Writing(v), Writing(v)'
        PROVE  Harmless(worker[v].tx, staff', departments')
    <3>1. v # w
      BY <1>2, <2>7 DEF Writing
    <3>2. Harmless(worker[v].tx, staff, departments) /\ Apart(worker[v].tx, tx)
      BY <1>1, <2>1, <2>7, <3>1 DEF TxInv, tx
    <3>3. ASSUME NEW g \in worker[v].tx, NEW n \in DOMAIN staff', g.mail # None, staff'[n].mail = g.mail
          PROVE  \E h \in worker[v].tx : h.number = n
      <4>1. n \in DOMAIN staff /\ staff'[n] = staff[n]
        BY <2>3, <3>2, <3>3 DEF Apart
      <4>. QED  BY <3>2, <3>3, <4>1 DEF Harmless
    <3>. QED  BY <1>2, <3>2, <3>3 DEF Harmless
  <2>8. TxInv'
    BY <1>1, <1>3, <2>7, TxStay
  <2>. QED  BY <2>6, <2>8
<1>. QED  BY <1>4, <1>5

\* A department more, under a name and a code of its own, disturbs nobody.
LEMMA Opening ==
  ASSUME DirectoryInv, [Next]_vars, \A w \in Worker : ~ApplyRow(w), staff' = staff,
         NEW new, departments' = departments \cup {new}, ~Known(departments, Normal[new.name]),
         \A d \in departments : d.code # new.code
  PROVE  DirectorySound' /\ TxInv'
<1>1. Typed /\ DirectorySound /\ TxInv
  BY DEF DirectoryInv
<1>2. \A d \in departments : Normal[d.name] # Normal[new.name]
  BY DEF Known
<1>3. DirectorySound'
  BY <1>1, <1>2 DEF DirectorySound
<1>4. \A w \in Worker : Writing(w) => Harmless(worker[w].tx, staff', departments')
  BY <1>1 DEF TxInv, Harmless
<1>. QED  BY <1>1, <1>3, <1>4, TxStay

LEMMA DepartmentCreated ==
  ASSUME DirectoryInv, [Next]_vars, \A v \in Worker : ~ApplyRow(v),
         NEW w \in Worker, ResolveDepartment(w)
  PROVE  DirectorySound' /\ TxInv'
<1>1. Typed /\ DirectorySound /\ TxInv
  BY DEF DirectoryInv
<1>2. staff' = staff /\ worker[w].pc = "resolve"
  BY DEF ResolveDepartment, At
<1>3. PICK from \in worker[w].todo :
          LET target == Planned(worker[w].seen.plan, from)
          IN  \/ ResolveKnown(w, from, target)
              \/ ResolveRefused(w, target)
              \/ ResolveCreate(w, target)
  BY DEF ResolveDepartment
<1>. DEFINE target == Planned(worker[w].seen.plan, from)
            free == FreeCodes(target.code, departments)
            new == [name |-> target.name, code |-> <<target.code, Least(free)>>]
<1>. HIDE DEF target
<1>4. \/ departments' = departments
      \/ /\ ~Known(departments, Normal[target.name]) /\ free # {}
         /\ departments' = departments \cup {new}
  BY <1>1, <1>2, <1>3, CreateMoves DEF ResolveKnown, ResolveRefused, target
<1>5. CASE departments' = departments
  <2>1. DirectorySound'
    BY <1>1, <1>2, <1>5 DEF DirectorySound
  <2>2. \A v \in Worker : Writing(v) => Harmless(worker[v].tx, staff', departments')
    BY <1>1, <1>2, <1>5 DEF TxInv
  <2>. QED  BY <1>1, <2>1, <2>2, TxStay
<1>6. CASE /\ ~Known(departments, Normal[target.name]) /\ free # {}
           /\ departments' = departments \cup {new}
  <2>1. Least(free) \in free
    BY <1>6, FreeForm
  <2>2. \A d \in departments : d.code # new.code
    BY <2>1 DEF FreeCodes
  <2>3. ~Known(departments, Normal[new.name])
    BY <1>6
  <2>. HIDE DEF new
  <2>. QED  BY <1>2, <1>6, <2>2, <2>3, Opening
<1>. QED  BY <1>4, <1>5, <1>6

\* Colleagues wait for what a transaction holds.
LEMMA ColleagueActs ==
  ASSUME DirectoryInv, [Next]_vars, \A w \in Worker : ~ApplyRow(w), Colleague
  PROVE  DirectorySound' /\ TxInv'
<1>1. Typed /\ DirectorySound /\ TxInv
  BY DEF DirectoryInv
<1>2. \A w \in Worker : Writing(w) => Harmless(worker[w].tx, staff, departments)
  BY <1>1 DEF TxInv
<1>3. CASE Hire
  <2>1. PICK n \in Number \ DOMAIN staff, mail \in Mail \cup {None}, d \in departments, rest \in Rest :
          /\ ~Owned(staff, n, mail) /\ ~Locked(InFlight(Worker), n, mail)
          /\ staff' = [m \in DOMAIN staff \cup {n} |->
                         IF m = n THEN [mail |-> mail, department |-> d.name, rest |-> rest]
                         ELSE staff[m]]
    BY <1>3 DEF Hire
  <2>2. departments' = departments /\ DOMAIN staff' = DOMAIN staff \cup {n}
    BY <1>3, <2>1 DEF Hire
  <2>3. /\ staff'[n].mail = mail /\ staff'[n].department = d.name
        /\ \A m \in DOMAIN staff : staff'[m] = staff[m]
    BY <2>1
  <2>4. \A m \in DOMAIN staff : mail # None => staff[m].mail # mail
    BY <2>1 DEF Owned
  <2>5. DirectorySound'
    BY <1>1, <2>2, <2>3, <2>4 DEF DirectorySound
  <2>6. ASSUME NEW w \in Worker, Writing(w)
        PROVE  Harmless(worker[w].tx, staff', departments')
    <3>1. \A g \in worker[w].tx : g.number # n /\ (mail # None => g.mail # mail)
      BY <2>1, <2>6, Awaits
    <3>. QED  BY <1>2, <2>2, <2>3, <2>6, <3>1 DEF Harmless
  <2>. QED  BY <1>1, <2>5, <2>6, TxStay
<1>4. CASE Dismiss
  <2>1. PICK n \in DOMAIN staff : staff' = [m \in DOMAIN staff \ {n} |-> staff[m]]
    BY <1>4 DEF Dismiss
  <2>2. /\ departments' = departments
        /\ \A m \in DOMAIN staff' : m \in DOMAIN staff /\ staff'[m] = staff[m]
    BY <1>4, <2>1 DEF Dismiss
  <2>3. DirectorySound'
    BY <1>1, <2>2 DEF DirectorySound
  <2>4. \A w \in Worker : Writing(w) => Harmless(worker[w].tx, staff', departments')
    BY <1>2, <2>2 DEF Harmless
  <2>. QED  BY <1>1, <2>3, <2>4, TxStay
<1>5. CASE OpenDepartment
  <2>1. PICK name \in Name, code \in Code :
          /\ ~Known(departments, Normal[name])
          /\ \A d \in departments : d.code # <<code, 0>>
          /\ departments' = departments \cup {[name |-> name, code |-> <<code, 0>>]}
    BY <1>5 DEF OpenDepartment
  <2>. DEFINE new == [name |-> name, code |-> <<code, 0>>]
  <2>2. /\ staff' = staff /\ departments' = departments \cup {new}
        /\ ~Known(departments, Normal[new.name]) /\ \A d \in departments : d.code # new.code
    BY <1>5, <2>1 DEF OpenDepartment
  <2>. HIDE DEF new
  <2>. QED  BY <2>2, Opening
<1>6. CASE CloseDepartment
  <2>1. PICK d \in departments :
          /\ \A n \in DOMAIN staff : staff[n].department # d.name
          /\ \A g \in InFlight(Worker) : g.department # d.name
          /\ departments' = departments \ {d}
    BY <1>6 DEF CloseDepartment
  <2>2. staff' = staff
    BY <1>6 DEF CloseDepartment
  <2>3. DirectorySound'
    BY <1>1, <2>1, <2>2 DEF DirectorySound
  <2>4. ASSUME NEW w \in Worker, Writing(w)
        PROVE  Harmless(worker[w].tx, staff', departments')
    <3>1. \A g \in worker[w].tx : g.department # d.name
      <4>1. \A g \in worker[w].tx : g \in InFlight(Worker)
        BY <2>4 DEF InFlight, Writing, At
      <4>. QED  BY <2>1, <4>1
    <3>. QED  BY <1>2, <2>1, <2>2, <2>4, <3>1 DEF Harmless
  <2>. QED  BY <1>1, <2>3, <2>4, TxStay
<1>. QED  BY <1>3, <1>4, <1>5, <1>6 DEF Colleague

LEMMA DirectoryInit == Init /\ DirectorySound => DirectoryInv
<1>. SUFFICES ASSUME Init, DirectorySound PROVE TxInv
  BY TypedInit DEF DirectoryInv
<1>1. \A w \in Worker : worker[w].pc = "idle" /\ worker[w].tx = {}
  BY DEF Init, IdleWorker
<1>. QED  BY <1>1 DEF TxInv, Writing

LEMMA DirectoryStep == DirectoryInv /\ [Next]_vars => DirectoryInv'
<1>. SUFFICES ASSUME DirectoryInv, [Next]_vars PROVE DirectorySound' /\ TxInv'
  BY TypedStep DEF DirectoryInv
<1>1. Typed /\ DirectorySound /\ TxInv
  BY DEF DirectoryInv
<1>2. CASE \E w \in Worker : ApplyRow(w)
  BY <1>2, RowWritten
<1>3. CASE \E w \in Worker : Commit(w)
  BY <1>3, BatchCommitted
<1>4. CASE (\A v \in Worker : ~ApplyRow(v)) /\ \E w \in Worker : ResolveDepartment(w)
  BY <1>4, DepartmentCreated
<1>5. CASE (\A v \in Worker : ~ApplyRow(v)) /\ Colleague
  BY <1>5, ColleagueActs
<1>6. CASE /\ ~Colleague
           /\ \A w \in Worker : ~ApplyRow(w) /\ ~Commit(w) /\ ~ResolveDepartment(w)
  <2>1. staff' = staff /\ departments' = departments
    BY <1>6, OnlyCommitHires, OnlyResolveOpens
  <2>2. DirectorySound'
    BY <1>1, <2>1 DEF DirectorySound
  <2>3. \A w \in Worker : Writing(w) => Harmless(worker[w].tx, staff', departments')
    BY <1>1, <2>1 DEF TxInv
  <2>. QED  BY <1>1, <1>6, <2>2, <2>3, TxStay
<1>. QED  BY <1>2, <1>3, <1>4, <1>5, <1>6

\* Whatever happens to an import, and whatever others do to the directory meanwhile, applyBatch
\* and the creation of missing departments leave a directory that was sound sound: no email,
\* department name or code twice, and nobody in a department that is gone.
THEOREM DirectoryKept == Spec /\ DirectorySound => []DirectorySound
<1>1. DirectoryInv => DirectorySound
  BY DEF DirectoryInv
<1>. QED  BY <1>1, DirectoryInit, DirectoryStep, PTL DEF Spec

================================================================================
