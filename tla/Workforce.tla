------------------------------- MODULE Workforce -------------------------------
(* The HTTP side of the directory: departments, employees, their compensation *)
(* with its history, the idempotency keys of the two operations that carry    *)
(* one, and a client that reads the directory or a history page by page.      *)
(*                                                                            *)
(* One action is one statement.  PostgreSQL runs READ COMMITTED: a statement  *)
(* sees what is committed; what a transaction wrote shows when it commits,    *)
(* and a statement that touches the same unique value or row waits until then *)
(* (locks).  Everything is of one organization.                               *)
EXTENDS Naturals, FiniteSets, Sequences

CONSTANTS
  Handler,      \* API handlers that can be in flight at the same time
  Id,           \* employee ids, as they sort
  DepartmentId,
  Key,          \* Idempotency-Key headers
  Newcomers,    \* bodies of POST /employees
  Patches,      \* bodies of PATCH /employees/:id, functions on some fields
  Raises,       \* bodies of the compensation change: [amount, expected]
  Forms,        \* bodies of POST and PATCH /departments: [code, name]
  Hired,        \* the employees at the beginning: id -> employee
  Opened,       \* the departments at the beginning: id -> [code, name]
  Limit,        \* items on a page
  None,         \* no value
  Bounds        \* what clients may still ask and how often a process dies

\* What is bounded: requests about employees, about compensation and about departments,
\* listings that are begun, processes that die, and "all" of these together.
Limits == {"employees", "raises", "departments", "listings", "crashes", "all"}

ASSUME IdAssumption == Id \subseteq Nat /\ None \notin Id /\ None \notin Seq(Nat)
ASSUME LimitAssumption == Limit \in Nat \ {0}
ASSUME RaiseAssumption == \A r \in Raises : r.expected \in Nat
\* The columns a row always has; names are numbers, as they sort.
Columns == {"number", "mail", "department", "name"}
ASSUME EmployeeAssumption ==
  /\ IsFiniteSet(DOMAIN Hired) /\ DOMAIN Hired \subseteq Id
  /\ \A f \in Newcomers \cup {Hired[e] : e \in DOMAIN Hired} :
       Columns \subseteq DOMAIN f /\ f.name \in Nat
  /\ \A p \in Patches : "name" \in DOMAIN p => p.name \in Nat
ASSUME BoundsAssumption == Bounds \in [Limits -> Nat]

VARIABLES
  staff,        \* Employee: id -> [number, mail, department, name, hire, end]
  issued,       \* the ids given to employees so far
  departments,  \* Department: id -> [code, name]
  pay,          \* EmployeeCompensation: employee -> [amount, version]
  history,      \* CompensationHistory: [employee, version, previous, amount, key]
  keys,         \* MutationIdempotency: <<operation, key>> -> [hash, response]
  handler,      \* handler -> what its request has reached and holds
  answers,      \* successful answers to requests that carried a key (history)
  reader,       \* the client that reads pages
  left          \* what remains of Bounds

tables == <<staff, issued, departments, pay, history, keys>>
vars == <<tables, handler, answers, reader, left>>

Idle == [pc |-> "idle", op |-> "none", id |-> None, form |-> None, key |-> None,
         seen |-> None, locks |-> {}]
\* The directory is read, or the history of the employee "of".
Unread == [pc |-> "idle", of |-> None, cursor |-> None, items |-> << >>, stable |-> {}]

Init ==
  /\ staff = Hired /\ issued = DOMAIN Hired /\ departments = Opened
  /\ pay = << >> /\ history = {} /\ keys = << >>
  /\ handler = [h \in Handler |-> Idle]
  /\ answers = {}
  /\ reader = Unread /\ left = Bounds

Spend(limit) ==
  /\ left[limit] > 0 /\ left["all"] > 0
  /\ left' = [left EXCEPT ![limit] = @ - 1, !["all"] = @ - 1]

\* f with f[k] = v, k in its domain or not; f without k.
Put(f, k, v) == [x \in DOMAIN f \cup {k} |-> IF x = k THEN v ELSE f[x]]
Drop(f, k) == [x \in DOMAIN f \ {k} |-> f[x]]

At(h, op, pc) == handler[h].op = op /\ handler[h].pc = pc
Becomes(h, next) == handler' = [handler EXCEPT ![h] = next]
Goto(h, pc) == Becomes(h, [handler[h] EXCEPT !.pc = pc])
\* The request is answered; a transaction under way is rolled back.
Answer(h) == Becomes(h, Idle)
Enter(h, op, pc, id, form, key) ==
  Becomes(h, [Idle EXCEPT !.op = op, !.pc = pc, !.id = id, !.form = form, !.key = key])

\* The operation a key belongs to: one for all creations, one for each employee.
Operation(me) == IF me.op = "hire" THEN <<"employee.create">> ELSE <<"compensation.change", me.id>>
Slot(me) == <<"key", Operation(me), me.key>>
\* The unique values of a body.
Claims(f) ==
  {<<"number", f[x]>> : x \in DOMAIN f \cap {"number"}}
    \cup {<<"mail", f[x]>> : x \in {y \in DOMAIN f \cap {"mail"} : f[y] # None}}

\* What the next statement of a request needs no other transaction to hold.
Wants(me) ==
  CASE me.pc = "reserve" -> {Slot(me)}
    [] <<me.op, me.pc>> \in {<<"hire", "insert">>, <<"edit", "write">>} -> Claims(me.form)
    [] me.op = "raise" /\ me.pc \in {"insert", "update"} -> {<<"pay", me.id>>}
    [] me.op = "dismiss" /\ me.pc = "delete" -> {<<"employee", me.id>>}
    [] me.op = "closeDepartment" /\ me.pc = "write" -> {<<"department", me.id>>}
    [] OTHER -> {}

WaitsFor(g, h) == g # h /\ handler[h].locks \cap Wants(handler[g]) # {}
Waits(h) == \E g \in Handler : WaitsFor(h, g)

------------------------------------------------------------------------------
(* Departments.                                                               *)

CodeTaken(code, except) == \E d \in DOMAIN departments \ {except} : departments[d].code = code
NameTaken(name, except) == \E d \in DOMAIN departments \ {except} : departments[d].name = name
Assigned(d) == \E e \in DOMAIN staff : staff[e].department = d

AskDepartment(h) ==
  /\ handler[h].pc = "idle" /\ Spend("departments")
  /\ \/ \E f \in Forms : Enter(h, "openDepartment", "check", None, f, None)
     \/ \E d \in DepartmentId, f \in Forms : Enter(h, "editDepartment", "check", d, f, None)
     \/ \E d \in DepartmentId : Enter(h, "closeDepartment", "check", d, None, None)
  /\ UNCHANGED <<tables, answers, reader>>

\* A code in use is refused before the write is tried.
CheckDepartment(h) ==
  LET me == handler[h] IN
  /\ me.pc = "check"
  /\ \/ /\ me.op = "openDepartment"
        /\ IF CodeTaken(me.form.code, None) THEN Answer(h) ELSE Goto(h, "write")
     \/ /\ me.op = "editDepartment"
        /\ IF me.id \notin DOMAIN departments \/ CodeTaken(me.form.code, me.id)
           THEN Answer(h) ELSE Goto(h, "write")
     \/ /\ me.op = "closeDepartment"
        /\ IF me.id \notin DOMAIN departments \/ Assigned(me.id)
           THEN Answer(h) ELSE Goto(h, "write")
  /\ UNCHANGED <<tables, answers, reader, left>>

\* The unique indexes decide; of the two only a code is answered as a conflict.
Refused(f, except) == CodeTaken(f.code, except) \/ NameTaken(f.name, except)

OpenDepartment(h) ==
  LET f == handler[h].form IN
  /\ At(h, "openDepartment", "write")
  /\ \/ Refused(f, None) /\ UNCHANGED departments
     \/ /\ ~Refused(f, None)
        /\ \E d \in DepartmentId \ DOMAIN departments : departments' = Put(departments, d, f)
  /\ Answer(h)
  /\ UNCHANGED <<staff, issued, pay, history, keys, answers, reader, left>>

EditDepartment(h) ==
  LET me == handler[h] IN
  /\ At(h, "editDepartment", "write")
  /\ departments' = IF me.id \notin DOMAIN departments \/ Refused(me.form, me.id) THEN departments
                    ELSE Put(departments, me.id, me.form)
  /\ Answer(h)
  /\ UNCHANGED <<staff, issued, pay, history, keys, answers, reader, left>>

\* Mutant: the foreign key cascades to nobody.
CloseDepartment_Unrestricted(h) ==
  /\ At(h, "closeDepartment", "write")
  /\ departments' = Drop(departments, handler[h].id)
  /\ Answer(h)
  /\ UNCHANGED <<staff, issued, pay, history, keys, answers, reader, left>>

\* "A concurrent assignment between the guard check and the delete surfaces as a
\* relation restriction", once the transaction that assigns has committed.
CloseDepartment(h) ==
  LET d == handler[h].id IN
  /\ At(h, "closeDepartment", "write") /\ ~Waits(h)
  /\ departments' = IF Assigned(d) THEN departments ELSE Drop(departments, d)
  /\ Answer(h)
  /\ UNCHANGED <<staff, issued, pay, history, keys, answers, reader, left>>

------------------------------------------------------------------------------
(* Idempotency keys: find, reserve, complete, findCommitted.                  *)

Answered(me, response) ==
  answers' = answers \cup {[slot |-> Slot(me), hash |-> me.form, response |-> response]}

\* Mutant: the body is not compared.
Replay_AnyBody(h) ==
  /\ Answer(h)
  /\ Answered(handler[h], keys[Slot(handler[h])].response)

\* What a committed key answers: its response, or a conflict for another body.
Replay(h) ==
  LET me == handler[h] entry == keys[Slot(me)] IN
  /\ Answer(h)
  /\ IF entry.hash = me.form THEN Answered(me, entry.response) ELSE UNCHANGED answers

FindKey(h) ==
  LET me == handler[h] IN
  /\ me.pc = "find"
  /\ IF Slot(me) \in DOMAIN keys THEN Replay(h) ELSE Goto(h, "reserve") /\ UNCHANGED answers
  /\ UNCHANGED <<tables, reader, left>>

\* Mutant: the reservation is not waited for.
Reserve_NoWait(h) ==
  LET me == handler[h] IN
  /\ me.pc = "reserve"
  /\ Becomes(h, [me EXCEPT !.pc = IF me.op = "hire" THEN "department" ELSE "previous"])
  /\ UNCHANGED <<tables, answers, reader, left>>

\* The insert of the key waits for another transaction that holds it, and fails if
\* that one commits.
Reserve(h) ==
  LET me == handler[h] IN
  /\ me.pc = "reserve" /\ ~Waits(h)
  /\ IF Slot(me) \in DOMAIN keys
     THEN Becomes(h, [me EXCEPT !.pc = "replay", !.locks = {}])
     ELSE Becomes(h, [me EXCEPT !.pc = IF me.op = "hire" THEN "department" ELSE "previous",
                                !.locks = @ \cup {Slot(me)}])
  /\ UNCHANGED <<tables, answers, reader, left>>

\* findCommitted, after the transaction was rolled back.
ReplayCommitted(h) ==
  /\ handler[h].pc = "replay"
  /\ Replay(h)
  /\ UNCHANGED <<tables, reader, left>>

Complete(me, response) ==
  /\ keys' = Put(keys, Slot(me), [hash |-> me.form, response |-> response])
  /\ Answered(me, response)

------------------------------------------------------------------------------
(* Employees.                                                                 *)

NumberTaken(number, except) == \E e \in DOMAIN staff \ {except} : staff[e].number = number
MailTaken(mail, except) ==
  mail # None /\ \E e \in DOMAIN staff \ {except} : staff[e].mail = mail

AskEmployee(h) ==
  /\ handler[h].pc = "idle" /\ Spend("employees")
  /\ \/ \E f \in Newcomers, k \in Key : Enter(h, "hire", "find", None, f, k)
     \/ \E e \in Id, p \in Patches : Enter(h, "edit", "read", e, p, None)
     \/ \E e \in Id : Enter(h, "dismiss", "read", e, None, None)
  /\ UNCHANGED <<tables, answers, reader>>

FindDepartment(h) ==
  LET d == handler[h].form.department IN
  /\ At(h, "hire", "department")
  /\ IF d \in DOMAIN departments THEN Goto(h, "insert") ELSE Answer(h)
  /\ UNCHANGED <<tables, answers, reader, left>>

\* Mutant: the unique values are claimed one at a time, whichever is free first.
InsertEmployee_OneByOne(h) ==
  LET me == handler[h] f == me.form missing == Claims(f) \ me.locks IN
  /\ At(h, "hire", "insert")
  /\ IF NumberTaken(f.number, None) \/ MailTaken(f.mail, None)
          \/ f.department \notin DOMAIN departments
     THEN Answer(h)
     ELSE \/ \E c \in missing :
               /\ \A g \in Handler : c \notin handler[g].locks
               /\ Becomes(h, [me EXCEPT !.locks = @ \cup {c}])
          \/ /\ missing = {}
             /\ \E e \in Id \ issued :
                  /\ \A g \in Handler : <<"id", e>> \notin handler[g].locks
                  /\ Becomes(h, [me EXCEPT !.pc = "commit", !.id = e,
                       !.locks = @ \cup {<<"id", e>>, <<"department", f.department>>}])
  /\ UNCHANGED <<tables, answers, reader, left>>

\* The new row gets an id nobody has; unique values and the department are checked.
InsertEmployee(h) ==
  LET me == handler[h] f == me.form claims == Claims(f) IN
  /\ At(h, "hire", "insert") /\ ~Waits(h)
  /\ IF NumberTaken(f.number, None) \/ MailTaken(f.mail, None)
          \/ f.department \notin DOMAIN departments
     THEN Answer(h)
     ELSE \E e \in Id \ issued :
            /\ \A g \in Handler : <<"id", e>> \notin handler[g].locks
            /\ Becomes(h, [me EXCEPT
                 !.pc = "commit", !.id = e,
                 !.locks = @ \cup claims \cup {<<"id", e>>, <<"department", f.department>>}])
  /\ UNCHANGED <<tables, answers, reader, left>>

CommitEmployee(h) ==
  LET me == handler[h] IN
  /\ At(h, "hire", "commit")
  /\ staff' = Put(staff, me.id, me.form) /\ issued' = issued \cup {me.id}
  /\ Complete(me, [id |-> me.id])
  /\ Answer(h)
  /\ UNCHANGED <<departments, pay, history, reader, left>>

Merged(old, patch) == [x \in DOMAIN old |-> IF x \in DOMAIN patch THEN patch[x] ELSE old[x]]
InOrder(e) == e.end = None \/ e.end >= e.hire

\* The employee is read, and the dates of the body are checked against that.
ReadEmployee(h) ==
  LET me == handler[h] IN
  /\ At(h, "edit", "read")
  /\ IF me.id \notin DOMAIN staff THEN Answer(h)
     ELSE Becomes(h, [me EXCEPT !.pc = "check", !.seen = staff[me.id]])
  /\ UNCHANGED <<tables, answers, reader, left>>

\* Look-ups the write repeats (number, email, department), then the dates.
CheckEmployee(h) ==
  LET me == handler[h] new == Merged(me.seen, me.form) IN
  /\ At(h, "edit", "check")
  /\ IF \/ new.number # me.seen.number /\ NumberTaken(new.number, me.id)
        \/ new.mail # me.seen.mail /\ MailTaken(new.mail, me.id)
        \/ "department" \in DOMAIN me.form /\ new.department \notin DOMAIN departments
        \/ ~InOrder(new)
     THEN Answer(h) ELSE Goto(h, "write")
  /\ UNCHANGED <<tables, answers, reader, left>>

\* Only the fields of the body are written, by id.
WriteEmployee(h) ==
  LET me == handler[h] old == staff[me.id] new == Merged(old, me.form) IN
  /\ At(h, "edit", "write") /\ ~Waits(h)
  /\ IF \/ me.id \notin DOMAIN staff
        \/ NumberTaken(new.number, me.id) \/ MailTaken(new.mail, me.id)
        \/ new.department \notin DOMAIN departments
     THEN UNCHANGED <<staff, reader>>
     ELSE /\ staff' = Put(staff, me.id, new)
          /\ reader' = [reader EXCEPT !.stable = IF new.name = old.name THEN @
                                                ELSE @ \ {<<old.name, me.id>>}]
  /\ Answer(h)
  /\ UNCHANGED <<issued, departments, pay, history, keys, answers, left>>

Evidence(e) == e \in DOMAIN pay \/ \E x \in history : x.employee = e

\* deleteEmployee looks for the employee, then for compensation, then for history.
FindEmployee(h) ==
  /\ At(h, "dismiss", "read")
  /\ IF handler[h].id \in DOMAIN staff THEN Goto(h, "guard") ELSE Answer(h)
  /\ UNCHANGED <<tables, answers, reader, left>>

GuardEvidence(h) ==
  /\ At(h, "dismiss", "guard")
  /\ IF Evidence(handler[h].id) THEN Answer(h) ELSE Goto(h, "delete")
  /\ UNCHANGED <<tables, answers, reader, left>>

\* Mutant: the foreign keys of compensation do not restrict.
DeleteEmployee_Unrestricted(h) ==
  LET e == handler[h].id IN
  /\ At(h, "dismiss", "delete")
  /\ staff' = Drop(staff, e)
  /\ UNCHANGED reader
  /\ Answer(h)
  /\ UNCHANGED <<issued, departments, pay, history, keys, answers, left>>

\* "The FK restriction closes the insert-after-precheck race."
DeleteEmployee(h) ==
  LET e == handler[h].id gone == e \in DOMAIN staff /\ ~Evidence(e) IN
  /\ At(h, "dismiss", "delete") /\ ~Waits(h)
  /\ staff' = IF gone THEN Drop(staff, e) ELSE staff
  /\ reader' = [reader EXCEPT !.stable = IF gone THEN @ \ {<<staff[e].name, e>>} ELSE @]
  /\ Answer(h)
  /\ UNCHANGED <<issued, departments, pay, history, keys, answers, left>>

------------------------------------------------------------------------------
(* Compensation.                                                              *)

AskRaise(h) ==
  /\ handler[h].pc = "idle" /\ Spend("raises")
  /\ \E e \in Id, f \in Raises, k \in Key : Enter(h, "raise", "employee", e, f, k)
  /\ UNCHANGED <<tables, answers, reader>>

FindPaid(h) ==
  /\ At(h, "raise", "employee")
  /\ IF handler[h].id \in DOMAIN staff THEN Goto(h, "find") ELSE Answer(h)
  /\ UNCHANGED <<tables, answers, reader, left>>

\* The current compensation; the version the client expects is compared to it.
ReadPrevious(h) ==
  LET me == handler[h]
      version == IF me.id \in DOMAIN pay THEN pay[me.id].version ELSE 0
  IN
  /\ At(h, "raise", "previous")
  /\ IF me.form.expected # version THEN Answer(h)
     ELSE Becomes(h, [me EXCEPT
            !.pc = IF version = 0 THEN "insert" ELSE "update",
            !.seen = IF version = 0 THEN None ELSE pay[me.id].amount])
  /\ UNCHANGED <<tables, answers, reader, left>>

Holding(me) ==
  [me EXCEPT !.pc = "commit", !.locks = @ \cup {<<"pay", me.id>>, <<"employee", me.id>>}]

\* The first row of an employee: one transaction wins the unique employeeId.
InsertPay(h) ==
  LET me == handler[h] IN
  /\ At(h, "raise", "insert") /\ ~Waits(h)
  /\ IF me.id \in DOMAIN pay \/ me.id \notin DOMAIN staff THEN Answer(h)
     ELSE Becomes(h, Holding(me))
  /\ UNCHANGED <<tables, answers, reader, left>>

\* Mutant: the update does not ask for the version.
UpdatePay_AnyVersion(h) ==
  LET me == handler[h] IN
  /\ At(h, "raise", "update") /\ ~Waits(h)
  /\ Becomes(h, Holding(me))
  /\ UNCHANGED <<tables, answers, reader, left>>

\* updateMany where the version is still the expected one, once the row is free.
UpdatePay(h) ==
  LET me == handler[h] IN
  /\ At(h, "raise", "update") /\ ~Waits(h)
  /\ IF pay[me.id].version # me.form.expected THEN Answer(h) ELSE Becomes(h, Holding(me))
  /\ UNCHANGED <<tables, answers, reader, left>>

\* Compensation, history entry and the completed key become visible together.
CommitPay(h) ==
  LET me == handler[h]
      version == IF me.id \in DOMAIN pay THEN pay[me.id].version + 1 ELSE 1
      row == [amount |-> me.form.amount, version |-> version]
  IN
  /\ At(h, "raise", "commit")
  /\ pay' = Put(pay, me.id, row)
  /\ history' = history \cup {[employee |-> me.id, version |-> version, previous |-> me.seen,
                               amount |-> me.form.amount, key |-> me.key]}
  /\ Complete(me, row)
  /\ Answer(h)
  /\ UNCHANGED <<staff, issued, departments, reader, left>>

\* The process dies: the transaction is rolled back, nobody is answered.
Crash(h) ==
  /\ handler[h].pc # "idle" /\ Spend("crashes")
  /\ Answer(h)
  /\ UNCHANGED <<tables, answers, reader>>

------------------------------------------------------------------------------
(* Pages.  The directory is sorted by name and id, a history by version,      *)
(* newest first; a cursor is the sort key of the last item.                   *)

\* An item is the key it is sorted by: <<name, id>>, or <<version>> of a history.
Sooner(a, b) ==
  IF Len(a) = 1 THEN a[1] > b[1] ELSE a[1] < b[1] \/ (a[1] = b[1] /\ a[2] < b[2])

Listed(of) ==
  IF of = None THEN {<<staff[e].name, e>> : e \in DOMAIN staff}
  ELSE {<<x.version>> : x \in {y \in history : y.employee = of}}

\* Mutant: the cursor forgets the id, so that those of one name end with the page.
After_NameOnly(items, cursor) ==
  IF cursor = None THEN items ELSE {i \in items : i[1] > cursor[1]}

After(items, cursor) == IF cursor = None THEN items ELSE {i \in items : Sooner(cursor, i)}

FirstItems(items, n) == {i \in items : Cardinality({j \in items : Sooner(j, i)}) < n}

StartReading ==
  /\ reader.pc # "reading" /\ Spend("listings")
  /\ \E of \in {None} \cup DOMAIN pay :
       reader' = [Unread EXCEPT !.pc = "reading", !.of = of, !.stable = Listed(of)]
  /\ UNCHANGED <<tables, handler, answers>>

\* list and history with buildCursorPage: one more item than the page holds is asked
\* for, and only if it exists there is a next cursor.
ReadPage ==
  LET rest == After(Listed(reader.of), reader.cursor)
      page == FirstItems(rest, Limit)
      last == CHOOSE i \in page : \A j \in page : ~Sooner(i, j)
      more == FirstItems(rest, Limit + 1) # page
  IN
  /\ reader.pc = "reading"
  /\ reader' = [reader EXCEPT !.items = Append(@, page),
                              !.cursor = IF more THEN last ELSE None,
                              !.pc = IF more THEN @ ELSE "done"]
  /\ UNCHANGED <<tables, handler, answers, left>>

------------------------------------------------------------------------------

Ask(h) == AskDepartment(h) \/ AskEmployee(h) \/ AskRaise(h)

Serve(h) ==
  \/ CheckDepartment(h) \/ OpenDepartment(h) \/ EditDepartment(h) \/ CloseDepartment(h)
  \/ FindKey(h) \/ Reserve(h) \/ ReplayCommitted(h)
  \/ FindDepartment(h) \/ InsertEmployee(h) \/ CommitEmployee(h)
  \/ ReadEmployee(h) \/ CheckEmployee(h) \/ WriteEmployee(h)
  \/ FindEmployee(h) \/ GuardEvidence(h) \/ DeleteEmployee(h)
  \/ FindPaid(h) \/ ReadPrevious(h) \/ InsertPay(h) \/ UpdatePay(h) \/ CommitPay(h)

Next ==
  \/ \E h \in Handler : Ask(h) \/ Serve(h) \/ Crash(h)
  \/ StartReading \/ ReadPage

Spec == Init /\ [][Next]_vars

------------------------------------------------------------------------------
(* Properties.                                                                *)

\* The history of an employee has the versions up to the current one, each once and
\* each starting from what the one before it ended with.
HistoryInStep ==
  \A e \in Id :
    LET mine == {x \in history : x.employee = e}
        version == IF e \in DOMAIN pay THEN pay[e].version ELSE 0
    IN  /\ {x.version : x \in mine} = 1 .. version /\ Cardinality(mine) = version
        /\ \A x, y \in mine : y.version = x.version + 1 => y.previous = x.amount
        /\ \A x \in mine : x.version = version => x.amount = pay[e].amount

\* "Compensation is append-only audit evidence": whoever has some is still there.
EvidenceKept == \A e \in Id : Evidence(e) => e \in DOMAIN staff

\* A key acts once, however often it is sent and whatever crashes in between.
KeyActsOnce ==
  \A x, y \in history : x.key = y.key /\ x.employee = y.employee => x = y

\* Every successful answer to one key is for the same body and says the same.
ReplaysAgree == \A a, b \in answers : a.slot = b.slot => a = b

\* Every employee is in a department, and no two have a number or an email in common.
Anchored ==
  \A e \in DOMAIN staff :
    /\ staff[e].department \in DOMAIN departments
    /\ ~NumberTaken(staff[e].number, e) /\ ~MailTaken(staff[e].mail, e)

\* Reading page by page, whoever was there all the time under the same name is
\* listed exactly once, and nothing is listed twice.
ListedOnce ==
  LET pages(i) == {p \in DOMAIN reader.items : i \in reader.items[p]} IN
  /\ \A p, q \in DOMAIN reader.items : p # q => reader.items[p] \cap reader.items[q] = {}
  /\ reader.pc = "done" => \A i \in reader.stable : Cardinality(pages(i)) = 1

\* Transactions that wait for one another never close a circle, however many there
\* are, and nobody waits for a request that has ended: in every set of requests one
\* waits for none of the others.
NoStandstill ==
  /\ \A g, h \in Handler : WaitsFor(g, h) => handler[h].pc # "idle"
  /\ \A S \in (SUBSET Handler) \ {{}} : \E g \in S : \A h \in S : ~WaitsFor(g, h)

==============================================================================
