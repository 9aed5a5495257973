---------------------------- MODULE Workforce_proofs ----------------------------
(* Theorems about Workforce, for any number of handlers, employees, keys and  *)
(* requests: what idempotency keys and the versions of a compensation promise,*)
(* that references hold, that whoever stays is listed once, and that nobody   *)
(* waits in a circle.                                                         *)
EXTENDS Workforce, FiniteSetTheorems, WellFoundedInduction, TLAPS

------------------------------------------------------------------------------
(* The inductive invariant.                                                   *)

\* The fields of a request, whatever is in them.
IsCall(c) ==
  c = [pc |-> c.pc, op |-> c.op, id |-> c.id, form |-> c.form, key |-> c.key,
       seen |-> c.seen, locks |-> c.locks]
Formed ==
  /\ handler = [h \in Handler |-> handler[h]]
  /\ \A h \in Handler : IsCall(handler[h])

\* What no two transactions hold at the same time: a reserved key, a row of pay, the
\* number, mail and id of a new employee.  A department and an employee are shared.
Exclusive == {"key", "pay", "number", "mail", "id"}
Apart ==
  \A g, h \in Handler : g # h =>
    \A s \in handler[g].locks \cap handler[h].locks : s[1] \notin Exclusive

\* From the reservation to the commit the key is held, and nobody has committed it;
\* a request that was refused the key is answered by whoever did.
Inside == {"department", "previous", "insert", "update", "commit"}
KeyHeld(c) ==
  /\ c.pc \in Inside => Slot(c) \in c.locks /\ Slot(c) \notin DOMAIN keys
  /\ c.pc = "replay" => Slot(c) \in DOMAIN keys

\* A change that is about to update read a version that is still there or is gone for
\* good; one about to commit holds the employee and knows the amount it replaces.
Stands(c) ==
  /\ c.id \in DOMAIN pay /\ c.form.expected <= pay[c.id].version
  /\ c.form.expected = pay[c.id].version => c.seen = pay[c.id].amount
Holds(c) ==
  /\ {<<"pay", c.id>>, <<"employee", c.id>>} \subseteq c.locks /\ c.id \in DOMAIN staff
  /\ c.id \in DOMAIN pay => c.seen = pay[c.id].amount
RaiseOK(c) ==
  c.op = "raise" =>
    /\ c.id \in Id /\ c.form \in Raises
    /\ c.pc = "update" => Stands(c)
    /\ c.pc = "commit" => Holds(c)

Careful(c) == KeyHeld(c) /\ RaiseOK(c)

\* Every history entry and every answer belongs to a committed key, which says so.
Recorded ==
  \A x \in history : <<"key", <<"compensation.change", x.employee>>, x.key>> \in DOMAIN keys
Remembered ==
  \A a \in answers :
    a = [slot |-> a.slot, hash |-> keys[a.slot].hash, response |-> keys[a.slot].response]
      /\ a.slot \in DOMAIN keys

\* Current and past compensation of one employee agree.
Of(e) == {x \in history : x.employee = e}
Version(e) == IF e \in DOMAIN pay THEN pay[e].version ELSE 0
Series(e) ==
  /\ Version(e) \in Nat /\ (e \in DOMAIN pay => Version(e) # 0)
  /\ IsFiniteSet(Of(e)) /\ Cardinality(Of(e)) = Version(e)
  /\ {x.version : x \in Of(e)} = 1 .. Version(e)
  /\ \A x, y \in Of(e) : y.version = x.version + 1 => y.previous = x.amount
  /\ \A x \in Of(e) : x.version = Version(e) => x.amount = pay[e].amount

Inv ==
  /\ Formed /\ Apart /\ \A h \in Handler : Careful(handler[h])
  /\ Recorded /\ Remembered /\ KeyActsOnce /\ EvidenceKept
  /\ \A e \in Id : Series(e)

LEMMA InitInv == Init => Inv
<1>. SUFFICES ASSUME Init PROVE Inv
  OBVIOUS
<1>1. \A h \in Handler : handler[h] = Idle
  BY DEF Init
<1>2. Formed /\ Apart
  BY <1>1 DEF Init, Formed, Apart, IsCall, Idle
<1>3. \A h \in Handler : Careful(handler[h])
  BY <1>1 DEF Idle, Careful, KeyHeld, RaiseOK, Inside
<1>4. Recorded /\ Remembered /\ KeyActsOnce /\ EvidenceKept
  BY DEF Init, Recorded, Remembered, KeyActsOnce, EvidenceKept, Evidence
<1>5. ASSUME NEW e \in Id PROVE Series(e)
  <2>1. Of(e) = {} /\ Version(e) = 0 /\ e \notin DOMAIN pay
    BY DEF Init, Of, Version
  <2>. QED  BY <2>1, FS_EmptySet DEF Series
<1>. QED  BY <1>2, <1>3, <1>4, <1>5 DEF Inv

------------------------------------------------------------------------------
(* Steps that leave compensation, history and keys alone.                     *)

\* What is free for a step of h to hold.
Free(h, locks) ==
  \A s \in locks : s[1] \in Exclusive => \A g \in Handler \ {h} : s \notin handler[g].locks

\* A statement runs when nobody else holds what it wants.
Unheld(h, resources) == \A g \in Handler \ {h} : handler[g].locks \cap resources = {}

LEMMA Unwaiting ==
  ASSUME NEW h \in Handler, ~Waits(h)
  PROVE  LET me == handler[h] IN
         /\ me.pc = "reserve" => Unheld(h, {Slot(me)})
         /\ me.op = "hire" /\ me.pc = "insert" => Unheld(h, Claims(me.form))
         /\ me.op = "edit" /\ me.pc = "write" => Unheld(h, Claims(me.form))
         /\ me.op = "raise" /\ me.pc \in {"insert", "update"} => Unheld(h, {<<"pay", me.id>>})
         /\ me.op = "dismiss" /\ me.pc = "delete" => Unheld(h, {<<"employee", me.id>>})
         /\ me.op = "closeDepartment" /\ me.pc = "write" => Unheld(h, {<<"department", me.id>>})
<1>1. Unheld(h, Wants(handler[h]))
  BY DEF Waits, WaitsFor, Unheld
<1>. QED  BY <1>1 DEF Wants

LEMMA StepForms ==
  ASSUME Formed, NEW h \in Handler, NEW c, IsCall(c), Becomes(h, c)
  PROVE  /\ Formed' /\ handler'[h] = c
         /\ \A g \in Handler : g # h => handler'[g] = handler[g]
<1>1. handler' = [g \in Handler |-> IF g = h THEN c ELSE handler[g]]
  BY DEF Becomes, Formed
<1>2. handler'[h] = c /\ \A g \in Handler : g # h => handler'[g] = handler[g]
  BY <1>1
<1>3. handler' = [g \in Handler |-> handler'[g]]
  BY <1>1
<1>4. \A g \in Handler : IsCall(handler[g])'
  BY <1>2 DEF Formed, IsCall
<1>. QED  BY <1>2, <1>3, <1>4 DEF Formed

LEMMA StepApart ==
  ASSUME Formed, Apart, NEW h \in Handler, NEW c, IsCall(c), Becomes(h, c),
         Free(h, c.locks \ handler[h].locks)
  PROVE  Apart'
<1>1. /\ handler'[h] = c
      /\ \A g \in Handler : g # h => handler'[g] = handler[g]
  BY StepForms
<1>2. Free(h, c.locks)
  BY DEF Free, Apart
<1>. QED  BY <1>1, <1>2 DEF Apart, Free

\* A request with other locks, at another place.
Moved(me, pc, locks) == [me EXCEPT !.pc = pc, !.locks = locks]

LEMMA MovedForm ==
  ASSUME NEW me, IsCall(me), NEW pc, NEW locks
  PROVE  LET c == Moved(me, pc, locks) IN
         /\ IsCall(c) /\ c.pc = pc /\ c.op = me.op /\ c.id = me.id /\ c.form = me.form
         /\ c.key = me.key /\ c.seen = me.seen /\ c.locks = locks
         /\ Slot(c) = Slot(me)
<1>. DEFINE c == Moved(me, pc, locks)
<1>0. c = [me EXCEPT !.pc = pc, !.locks = locks]
  BY DEF Moved
<1>. HIDE DEF c
<1>1. c = [pc |-> pc, op |-> me.op, id |-> me.id, form |-> me.form, key |-> me.key,
           seen |-> me.seen, locks |-> locks]
  BY <1>0 DEF IsCall
<1>2. /\ IsCall(c) /\ c.pc = pc /\ c.op = me.op /\ c.id = me.id /\ c.form = me.form
      /\ c.key = me.key /\ c.seen = me.seen /\ c.locks = locks
  BY <1>1 DEF IsCall
<1>3. Slot(c) = Slot(me)
  BY <1>2 DEF Slot, Operation
<1>. QED  BY <1>2, <1>3 DEF c

\* A step by which h becomes c.
LEMMA Quiet ==
  ASSUME Inv, NEW h \in Handler, NEW c, IsCall(c), Becomes(h, c), Careful(c),
         Free(h, c.locks \ handler[h].locks), UNCHANGED <<keys, pay, history>>,
         DOMAIN staff \subseteq DOMAIN staff', Remembered'
  PROVE  Inv'
<1>1. /\ Formed' /\ handler'[h] = c
      /\ \A g \in Handler : g # h => handler'[g] = handler[g]
  BY StepForms DEF Inv
<1>2. Apart'
  BY StepApart DEF Inv
<1>3. ASSUME NEW g \in Handler PROVE Careful(handler[g])'
  <2>1. Careful(handler'[g])
    BY <1>1 DEF Inv
  <2>. QED
    BY <2>1 DEF Careful, KeyHeld, RaiseOK, Stands, Holds, Slot, Operation
<1>4. Recorded' /\ KeyActsOnce' /\ EvidenceKept'
  BY DEF Inv, Recorded, KeyActsOnce, EvidenceKept, Evidence
<1>5. \A e \in Id : Series(e)'
  BY DEF Inv, Series, Of, Version
<1>. QED  BY <1>1, <1>2, <1>3, <1>4, <1>5 DEF Inv

\* The request ends.
LEMMA QuietAnswer ==
  ASSUME Inv, NEW h \in Handler, Answer(h), UNCHANGED <<keys, pay, history>>,
         DOMAIN staff \subseteq DOMAIN staff', Remembered'
  PROVE  Inv'
<1>1. IsCall(Idle) /\ Careful(Idle) /\ Idle.locks = {}
  BY DEF Idle, IsCall, Careful, KeyHeld, RaiseOK, Inside
<1>2. Free(h, Idle.locks \ handler[h].locks)
  BY <1>1 DEF Free
<1>3. Becomes(h, Idle)
  BY DEF Answer
<1>. QED  BY <1>1, <1>2, <1>3, Quiet

\* The request goes on; it enters the transaction only by its reservation.
LEMMA QuietGoto ==
  ASSUME Inv, NEW h \in Handler, NEW pc, Goto(h, pc), UNCHANGED <<keys, pay, history>>,
         pc \in Inside => handler[h].pc \in Inside, pc # "replay",
         handler[h].op = "raise" => pc \notin {"update", "commit"},
         DOMAIN staff \subseteq DOMAIN staff', Remembered'
  PROVE  Inv'
<1>. DEFINE me == handler[h]  c == [me EXCEPT !.pc = pc]
<1>0. IsCall(me) /\ Careful(me)
  BY DEF Inv, Formed
<1>1. /\ IsCall(c) /\ c.pc = pc /\ c.op = me.op /\ c.id = me.id /\ c.form = me.form
      /\ c.key = me.key /\ c.locks = me.locks
  BY <1>0 DEF IsCall
<1>2. Becomes(h, c)
  BY DEF Goto
<1>. HIDE DEF c, me
<1>3. Slot(c) = Slot(me)
  BY <1>1 DEF Slot, Operation
<1>4. Careful(c)
  BY <1>0, <1>1, <1>3 DEF Careful, KeyHeld, RaiseOK, me
<1>5. Free(h, c.locks \ handler[h].locks)
  BY <1>1 DEF Free, me
<1>. QED  BY <1>1, <1>2, <1>4, <1>5, Quiet

\* A request comes in.
LEMMA QuietEnter ==
  ASSUME Inv, NEW h \in Handler, NEW op, NEW pc, NEW id, NEW form, NEW key,
         Enter(h, op, pc, id, form, key), pc \notin Inside \cup {"replay"},
         op = "raise" => id \in Id /\ form \in Raises,
         UNCHANGED <<keys, pay, history, staff, answers>>
  PROVE  Inv'
<1>. DEFINE c == [Idle EXCEPT !.op = op, !.pc = pc, !.id = id, !.form = form, !.key = key]
<1>0. c = [Idle EXCEPT !.op = op, !.pc = pc, !.id = id, !.form = form, !.key = key]
  OBVIOUS
<1>. HIDE DEF c
<1>a. c = [pc |-> pc, op |-> op, id |-> id, form |-> form, key |-> key, seen |-> None,
           locks |-> {}]
  BY <1>0 DEF Idle
<1>1. IsCall(c) /\ c.pc = pc /\ c.op = op /\ c.id = id /\ c.form = form /\ c.locks = {}
  BY <1>a DEF IsCall
<1>2. Becomes(h, c)
  BY <1>0 DEF Enter
<1>3. Careful(c)
  BY <1>1 DEF Careful, KeyHeld, RaiseOK, Inside
<1>4. Free(h, c.locks \ handler[h].locks)
  BY <1>1 DEF Free
<1>5. Remembered'
  BY DEF Inv, Remembered
<1>. QED  BY <1>1, <1>2, <1>3, <1>4, <1>5, Quiet

LEMMA AskStep == ASSUME Inv, NEW h \in Handler, Ask(h) PROVE Inv'
<1>0. {"check", "read", "find", "employee"} \cap (Inside \cup {"replay"}) = {}
  BY DEF Inside
<1>1. CASE AskDepartment(h)
  BY <1>0, <1>1, QuietEnter DEF AskDepartment, tables
<1>2. CASE AskEmployee(h)
  BY <1>0, <1>2, QuietEnter DEF AskEmployee, tables
<1>3. CASE AskRaise(h)
  BY <1>0, <1>3, QuietEnter DEF AskRaise, tables
<1>. QED  BY <1>1, <1>2, <1>3 DEF Ask

\* The answer a committed key gives is the one it gave before.
LEMMA Replayed ==
  ASSUME Inv, NEW h \in Handler, Replay(h), Slot(handler[h]) \in DOMAIN keys, UNCHANGED keys
  PROVE  Remembered'
<1>. DEFINE me == handler[h]  slot == Slot(me)
<1>1. CASE answers' = answers
  BY <1>1 DEF Inv, Remembered
<1>2. CASE keys[slot].hash = me.form /\ Answered(me, keys[slot].response)
  <2>1. answers' = answers \cup {[slot |-> slot, hash |-> keys[slot].hash,
                                  response |-> keys[slot].response]}
    BY <1>2 DEF Answered
  <2>. QED  BY <2>1 DEF Inv, Remembered
<1>. QED  BY <1>1, <1>2 DEF Replay

LEMMA FindKeyStep == ASSUME Inv, NEW h \in Handler, FindKey(h) PROVE Inv'
<1>1. CASE Slot(handler[h]) \in DOMAIN keys
  <2>1. Replay(h) /\ UNCHANGED <<keys, pay, history, staff>>
    BY <1>1 DEF FindKey, tables
  <2>2. Remembered' /\ Answer(h)
    BY <1>1, <2>1, Replayed DEF Replay
  <2>. QED  BY <2>1, <2>2, QuietAnswer
<1>2. CASE Slot(handler[h]) \notin DOMAIN keys
  <2>1. Goto(h, "reserve") /\ UNCHANGED <<keys, pay, history, staff, answers>>
    BY <1>2 DEF FindKey, tables
  <2>2. Remembered'
    BY <2>1 DEF Inv, Remembered
  <2>. QED  BY <2>1, <2>2, QuietGoto DEF Inside
<1>. QED  BY <1>1, <1>2

LEMMA ReplayCommittedStep == ASSUME Inv, NEW h \in Handler, ReplayCommitted(h) PROVE Inv'
<1>1. Slot(handler[h]) \in DOMAIN keys
  BY DEF ReplayCommitted, Inv, Careful, KeyHeld
<1>2. Replay(h) /\ UNCHANGED <<keys, pay, history, staff>>
  BY DEF ReplayCommitted, tables
<1>3. Remembered' /\ Answer(h)
  BY <1>1, <1>2, Replayed DEF Replay
<1>. QED  BY <1>2, <1>3, QuietAnswer

LEMMA ReserveStep == ASSUME Inv, NEW h \in Handler, Reserve(h) PROVE Inv'
<1>. DEFINE me == handler[h]
<1>0. /\ IsCall(me) /\ Careful(me) /\ UNCHANGED <<keys, pay, history, staff, answers>>
      /\ Remembered' /\ Unheld(h, {Slot(me)})
  BY Unwaiting DEF Reserve, tables, Inv, Formed, Remembered
<1>1. CASE Slot(me) \in DOMAIN keys
  <2>. DEFINE c == Moved(me, "replay", {})
  <2>1. Becomes(h, c)
    BY <1>1 DEF Reserve, Moved
  <2>2. IsCall(c) /\ c.pc = "replay" /\ c.op = me.op /\ c.id = me.id /\ c.form = me.form
          /\ c.locks = {} /\ Slot(c) = Slot(me)
    BY <1>0, MovedForm
  <2>. HIDE DEF c
  <2>4. Careful(c) /\ Free(h, c.locks \ handler[h].locks)
    BY <1>0, <1>1, <2>2 DEF Careful, KeyHeld, RaiseOK, Inside, Free
  <2>. QED  BY <1>0, <2>1, <2>2, <2>4, Quiet
<1>2. CASE Slot(me) \notin DOMAIN keys
  <2>. DEFINE pc == IF me.op = "hire" THEN "department" ELSE "previous"
              c == Moved(me, pc, me.locks \cup {Slot(me)})
  <2>1. Becomes(h, c)
    BY <1>2 DEF Reserve, Moved
  <2>2. IsCall(c) /\ c.pc = pc /\ c.op = me.op /\ c.id = me.id /\ c.form = me.form
          /\ c.locks = me.locks \cup {Slot(me)} /\ Slot(c) = Slot(me)
    BY <1>0, MovedForm
  <2>. HIDE DEF c
  <2>4. Careful(c)
    BY <1>0, <1>2, <2>2 DEF Careful, KeyHeld, RaiseOK
  <2>5. Free(h, c.locks \ handler[h].locks)
    BY <1>0, <2>2 DEF Free, Unheld
  <2>. QED  BY <1>0, <2>1, <2>2, <2>4, <2>5, Quiet
<1>. QED  BY <1>1, <1>2

\* Steps that answer or go on outside the compensation tables.
LEMMA PlainStep ==
  ASSUME Inv, NEW h \in Handler, UNCHANGED <<keys, pay, history, answers>>,
         DOMAIN staff \subseteq DOMAIN staff',
         \/ Answer(h)
         \/ \E pc \in {"write", "check", "guard", "delete", "find"} : Goto(h, pc)
         \/ Goto(h, "insert") /\ handler[h].pc \in Inside
  PROVE  Inv'
<1>1. Remembered'
  BY DEF Inv, Remembered
<1>2. {"write", "check", "guard", "delete", "find"} \cap (Inside \cup {"replay"}) = {}
  BY DEF Inside
<1>3. CASE Answer(h)
  BY <1>1, <1>3, QuietAnswer
<1>4. ASSUME NEW pc \in {"write", "check", "guard", "delete", "find"}, Goto(h, pc)
      PROVE  Inv'
  BY <1>1, <1>2, <1>4, QuietGoto
<1>5. CASE Goto(h, "insert") /\ handler[h].pc \in Inside
  BY <1>1, <1>5, QuietGoto
<1>. QED  BY <1>3, <1>4, <1>5

LEMMA DepartmentSteps ==
  ASSUME Inv, NEW h \in Handler,
         CheckDepartment(h) \/ OpenDepartment(h) \/ EditDepartment(h) \/ CloseDepartment(h)
  PROVE  Inv'
<1>1. CASE CheckDepartment(h)
  BY <1>1, PlainStep DEF CheckDepartment, tables
<1>2. CASE OpenDepartment(h)
  BY <1>2, PlainStep DEF OpenDepartment
<1>3. CASE EditDepartment(h)
  BY <1>3, PlainStep DEF EditDepartment
<1>4. CASE CloseDepartment(h)
  BY <1>4, PlainStep DEF CloseDepartment
<1>. QED  BY <1>1, <1>2, <1>3, <1>4

LEMMA EmployeeSteps ==
  ASSUME Inv, NEW h \in Handler,
         \/ FindDepartment(h) \/ CheckEmployee(h) \/ WriteEmployee(h) \/ FindEmployee(h)
         \/ GuardEvidence(h) \/ FindPaid(h)
  PROVE  Inv'
<1>1. CASE FindDepartment(h)
  BY <1>1, PlainStep DEF FindDepartment, At, tables, Inside
<1>2. CASE CheckEmployee(h)
  BY <1>2, PlainStep DEF CheckEmployee, tables
<1>3. CASE WriteEmployee(h)
  BY <1>3, PlainStep DEF WriteEmployee, Put
<1>4. CASE FindEmployee(h)
  BY <1>4, PlainStep DEF FindEmployee, tables
<1>5. CASE GuardEvidence(h)
  BY <1>5, PlainStep DEF GuardEvidence, tables
<1>6. CASE FindPaid(h)
  BY <1>6, PlainStep DEF FindPaid, tables
<1>. QED  BY <1>1, <1>2, <1>3, <1>4, <1>5, <1>6

LEMMA ReadEmployeeStep == ASSUME Inv, NEW h \in Handler, ReadEmployee(h) PROVE Inv'
<1>. DEFINE me == handler[h]
<1>0. IsCall(me) /\ UNCHANGED <<keys, pay, history, staff, answers>> /\ At(h, "edit", "read")
  BY DEF ReadEmployee, tables, Inv, Formed
<1>1. CASE Answer(h)
  BY <1>0, <1>1, PlainStep
<1>2. CASE Becomes(h, [me EXCEPT !.pc = "check", !.seen = staff[me.id]])
  <2>. DEFINE c == [me EXCEPT !.pc = "check", !.seen = staff[me.id]]
  <2>0. c = [me EXCEPT !.pc = "check", !.seen = staff[me.id]]
    OBVIOUS
  <2>. HIDE DEF c
  <2>1. c = [pc |-> "check", op |-> me.op, id |-> me.id, form |-> me.form, key |-> me.key,
             seen |-> staff[me.id], locks |-> me.locks]
    BY <1>0, <2>0 DEF IsCall
  <2>2. IsCall(c) /\ c.pc = "check" /\ c.op = "edit" /\ c.locks = me.locks
    BY <1>0, <2>1 DEF IsCall, At
  <2>3. Careful(c) /\ Free(h, c.locks \ handler[h].locks) /\ Remembered'
    BY <1>0, <2>2 DEF Careful, KeyHeld, RaiseOK, Inside, Free, Inv, Remembered
  <2>. QED  BY <1>0, <1>2, <2>0, <2>2, <2>3, Quiet
<1>. QED  BY <1>1, <1>2 DEF ReadEmployee

LEMMA InsertEmployeeStep == ASSUME Inv, NEW h \in Handler, InsertEmployee(h) PROVE Inv'
<1>. DEFINE me == handler[h]  claims == Claims(me.form)
<1>0. /\ IsCall(me) /\ Careful(me) /\ UNCHANGED <<keys, pay, history, staff, answers>>
      /\ At(h, "hire", "insert") /\ Unheld(h, claims)
  BY Unwaiting DEF InsertEmployee, At, tables, Inv, Formed
<1>1. CASE Answer(h)
  BY <1>0, <1>1, PlainStep
<1>2. ASSUME NEW e \in Id \ issued, \A g \in Handler : <<"id", e>> \notin handler[g].locks,
             Becomes(h, [me EXCEPT
               !.pc = "commit", !.id = e,
               !.locks = @ \cup claims \cup {<<"id", e>>, <<"department", me.form.department>>}])
      PROVE  Inv'
  <2>. DEFINE new == claims \cup {<<"id", e>>, <<"department", me.form.department>>}
              c == [me EXCEPT !.pc = "commit", !.id = e,
                    !.locks = @ \cup claims \cup {<<"id", e>>, <<"department", me.form.department>>}]
  <2>0. c = [me EXCEPT !.pc = "commit", !.id = e, !.locks = me.locks \cup new]
    BY Zenon DEF IsCall
  <2>f. Unheld(h, claims) /\ Unheld(h, {<<"id", e>>})
    BY <1>0, <1>2 DEF Unheld
  <2>n. Free(h, new)
    BY <2>f DEF Free, Unheld, Exclusive
  <2>b. Becomes(h, c)
    BY <1>2
  <2>. HIDE DEF c, new
  <2>1. c = [pc |-> "commit", op |-> me.op, id |-> e, form |-> me.form, key |-> me.key,
             seen |-> me.seen, locks |-> me.locks \cup new]
    BY <1>0, <2>0 DEF IsCall
  <2>2. /\ IsCall(c) /\ c.pc = "commit" /\ c.op = "hire" /\ c.key = me.key
        /\ c.locks = me.locks \cup new
    BY <1>0, <2>1 DEF IsCall, At
  <2>3. Slot(c) = Slot(me)
    BY <1>0, <2>2 DEF Slot, Operation, At
  <2>4. Careful(c)
    BY <1>0, <2>2, <2>3 DEF Careful, KeyHeld, RaiseOK, Inside, At
  <2>5. Free(h, c.locks \ handler[h].locks) /\ Remembered'
    BY <1>0, <2>2, <2>n DEF Free, Inv, Remembered
  <2>. QED  BY <1>0, <2>b, <2>2, <2>4, <2>5, Quiet
<1>. QED  BY <1>1, <1>2 DEF InsertEmployee

\* Nobody who is paid is deleted, nor whoever a change under way has found.
LEMMA DeleteEmployeeStep == ASSUME Inv, NEW h \in Handler, DeleteEmployee(h) PROVE Inv'
<1>. DEFINE e == handler[h].id
<1>0. /\ Answer(h) /\ UNCHANGED <<keys, pay, history, answers>> /\ Remembered'
      /\ Unheld(h, {<<"employee", e>>})
  BY Unwaiting DEF DeleteEmployee, At, Inv, Remembered
<1>1. CASE staff' = staff
  BY <1>0, <1>1, PlainStep
<1>2. CASE ~Evidence(e) /\ staff' = Drop(staff, e)
  <2>1. DOMAIN staff' = DOMAIN staff \ {e}
    BY <1>2 DEF Drop
  <2>2. Becomes(h, Idle) /\ IsCall(Idle) /\ Idle.locks = {} /\ Idle.pc = "idle" /\ Idle.op = "none"
    BY <1>0 DEF Answer, Idle, IsCall
  <2>3. /\ Formed' /\ handler'[h] = Idle
        /\ \A g \in Handler : g # h => handler'[g] = handler[g]
    BY <2>2, StepForms DEF Inv
  <2>4. Apart'
    BY <2>2, StepApart DEF Inv, Free
  <2>5. ASSUME NEW g \in Handler PROVE Careful(handler[g])'
    <3>1. CASE g = h
      BY <3>1, <2>2, <2>3 DEF Careful, KeyHeld, RaiseOK, Inside
    <3>2. CASE g # h
      <4>1. Careful(handler[g]) /\ handler'[g] = handler[g]
        BY <3>2, <2>3 DEF Inv
      <4>2. KeyHeld(handler[g])'
        BY <1>0, <4>1 DEF Careful, KeyHeld, Slot, Operation
      <4>3. handler[g].op = "raise" /\ handler[g].pc = "commit" => handler[g].id # e
        BY <1>0, <3>2, <4>1 DEF Careful, RaiseOK, Holds, Unheld
      <4>4. RaiseOK(handler[g])'
        BY <1>0, <2>1, <4>1, <4>3 DEF Careful, RaiseOK, Stands, Holds
      <4>. QED  BY <4>2, <4>4 DEF Careful
    <3>. QED  BY <3>1, <3>2
  <2>6. EvidenceKept'
    BY <1>0, <1>2, <2>1 DEF Inv, EvidenceKept, Evidence
  <2>7. Recorded' /\ KeyActsOnce' /\ \A i \in Id : Series(i)'
    BY <1>0 DEF Inv, Recorded, KeyActsOnce, Series, Of, Version
  <2>. QED  BY <1>0, <2>3, <2>4, <2>5, <2>6, <2>7 DEF Inv
<1>. QED  BY <1>1, <1>2 DEF DeleteEmployee

------------------------------------------------------------------------------
(* Compensation.                                                              *)

\* The version that was read is 0 exactly if there was nothing to read.
LEMMA ReadPreviousStep == ASSUME Inv, NEW h \in Handler, ReadPrevious(h) PROVE Inv'
<1>. DEFINE me == handler[h]
            version == IF me.id \in DOMAIN pay THEN pay[me.id].version ELSE 0
            pc == IF version = 0 THEN "insert" ELSE "update"
            seen == IF version = 0 THEN None ELSE pay[me.id].amount
<1>0. /\ IsCall(me) /\ Careful(me) /\ UNCHANGED <<keys, pay, history, staff, answers>>
      /\ At(h, "raise", "previous")
  BY DEF ReadPrevious, tables, Inv, Formed
<1>1. CASE Answer(h)
  BY <1>0, <1>1, PlainStep
<1>2. CASE me.form.expected = version /\ Becomes(h, [me EXCEPT !.pc = pc, !.seen = seen])
  <2>. DEFINE c == [me EXCEPT !.pc = pc, !.seen = seen]
  <2>0. c = [me EXCEPT !.pc = pc, !.seen = seen] /\ Becomes(h, c)
    BY <1>2
  <2>1. me.id \in Id /\ me.form \in Raises
    BY <1>0 DEF Careful, RaiseOK, At
  <2>2. version \in Nat /\ (version # 0 => me.id \in DOMAIN pay /\ version = pay[me.id].version)
    BY <2>1 DEF Inv, Series, Version
  <2>3. pc = "update" => me.id \in DOMAIN pay /\ me.form.expected = pay[me.id].version
                           /\ pay[me.id].version \in Nat /\ seen = pay[me.id].amount
    BY <1>2, <2>2
  <2>4. pc \in {"insert", "update"}
    OBVIOUS
  <2>. HIDE DEF c, pc, seen
  <2>5. c = [pc |-> pc, op |-> me.op, id |-> me.id, form |-> me.form, key |-> me.key,
             seen |-> seen, locks |-> me.locks]
    BY <1>0, <2>0 DEF IsCall
  <2>6. /\ IsCall(c) /\ c.pc = pc /\ c.op = "raise" /\ c.id = me.id /\ c.form = me.form
        /\ c.key = me.key /\ c.locks = me.locks /\ c.seen = seen
    BY <1>0, <2>5 DEF IsCall, At
  <2>7. Slot(c) = Slot(me)
    BY <1>0, <2>6 DEF Slot, Operation, At
  <2>8. KeyHeld(c)
    BY <1>0, <2>4, <2>6, <2>7 DEF Careful, KeyHeld, Inside, At
  <2>9. RaiseOK(c)
    BY <2>1, <2>3, <2>4, <2>6 DEF RaiseOK, Stands
  <2>10. Free(h, c.locks \ handler[h].locks) /\ Remembered'
    BY <1>0, <2>6 DEF Free, Inv, Remembered
  <2>. QED  BY <1>0, <2>0, <2>6, <2>8, <2>9, <2>10, Quiet DEF Careful
<1>. QED  BY <1>1, <1>2 DEF ReadPrevious

\* A change gets the row of the employee, who is there, and knows the amount in it.
LEMMA HoldingStep ==
  ASSUME Inv, NEW h \in Handler, handler[h].op = "raise", handler[h].pc \in {"insert", "update"},
         Becomes(h, Holding(handler[h])), Unheld(h, {<<"pay", handler[h].id>>}),
         handler[h].id \in DOMAIN staff,
         handler[h].id \in DOMAIN pay => handler[h].seen = pay[handler[h].id].amount,
         UNCHANGED <<keys, pay, history, staff, answers>>
  PROVE  Inv'
<1>. DEFINE me == handler[h]
            c == Moved(me, "commit", me.locks \cup {<<"pay", me.id>>, <<"employee", me.id>>})
<1>0. IsCall(me) /\ Careful(me)
  BY DEF Inv, Formed
<1>1. Becomes(h, c)
  BY DEF Holding, Moved
<1>2. /\ IsCall(c) /\ c.pc = "commit" /\ c.op = me.op /\ c.id = me.id /\ c.form = me.form
      /\ c.locks = me.locks \cup {<<"pay", me.id>>, <<"employee", me.id>>}
      /\ c.seen = me.seen /\ Slot(c) = Slot(me)
  BY <1>0, MovedForm
<1>. HIDE DEF c
<1>3. KeyHeld(c)
  BY <1>0, <1>2 DEF Careful, KeyHeld, Inside
<1>4. RaiseOK(c)
  BY <1>0, <1>2 DEF Careful, RaiseOK, Holds
<1>5. Free(h, c.locks \ handler[h].locks) /\ Remembered'
  BY <1>2 DEF Free, Unheld, Exclusive, Inv, Remembered
<1>. QED  BY <1>1, <1>2, <1>3, <1>4, <1>5, Quiet DEF Careful

LEMMA InsertPayStep == ASSUME Inv, NEW h \in Handler, InsertPay(h) PROVE Inv'
<1>0. UNCHANGED <<keys, pay, history, staff, answers>> /\ At(h, "raise", "insert")
  BY DEF InsertPay, tables
<1>1. CASE Answer(h)
  BY <1>0, <1>1, PlainStep
<1>. QED  BY <1>0, <1>1, Unwaiting, HoldingStep DEF InsertPay, At

LEMMA UpdatePayStep == ASSUME Inv, NEW h \in Handler, UpdatePay(h) PROVE Inv'
<1>0. UNCHANGED <<keys, pay, history, staff, answers>> /\ At(h, "raise", "update")
  BY DEF UpdatePay, tables
<1>1. Stands(handler[h]) /\ handler[h].id \in Id
  BY <1>0 DEF Inv, Careful, RaiseOK, At
<1>2. handler[h].id \in DOMAIN staff
  BY <1>1 DEF Inv, Stands, EvidenceKept, Evidence
<1>3. CASE Answer(h)
  BY <1>0, <1>3, PlainStep
<1>. QED  BY <1>0, <1>1, <1>2, <1>3, Unwaiting, HoldingStep DEF UpdatePay, At, Stands

------------------------------------------------------------------------------
(* Commits.                                                                   *)

\* With the commit the key is used up; it was nobody else's and not used before.
LEMMA Completed ==
  ASSUME Inv, NEW h \in Handler, handler[h].pc = "commit", Answer(h),
         NEW response, Complete(handler[h], response)
  PROVE  /\ Formed' /\ Apart' /\ Remembered'
         /\ Slot(handler[h]) \notin DOMAIN keys
         /\ DOMAIN keys' = DOMAIN keys \cup {Slot(handler[h])}
         /\ handler'[h] = Idle /\ KeyHeld(Idle)' /\ RaiseOK(Idle)'
         /\ \A g \in Handler : g # h => handler'[g] = handler[g] /\ KeyHeld(handler[g])'
<1>. DEFINE me == handler[h]  slot == Slot(me)
            entry == [hash |-> me.form, response |-> response]
<1>0. Becomes(h, Idle) /\ IsCall(Idle) /\ Idle.locks = {} /\ Idle.pc = "idle" /\ Idle.op = "none"
  BY DEF Answer, Idle, IsCall
<1>1. /\ Formed' /\ handler'[h] = Idle
      /\ \A g \in Handler : g # h => handler'[g] = handler[g]
  BY <1>0, StepForms DEF Inv
<1>2. Apart'
  BY <1>0, StepApart DEF Inv, Free
<1>3. slot \notin DOMAIN keys /\ slot \in me.locks
  BY DEF Inv, Careful, KeyHeld, Inside
<1>4. keys' = [x \in DOMAIN keys \cup {slot} |-> IF x = slot THEN entry ELSE keys[x]]
  BY DEF Complete, Put
<1>5. answers' = answers \cup {[slot |-> slot, hash |-> me.form, response |-> response]}
  BY DEF Complete, Answered
<1>6. Remembered'
  <2>1. keys'[slot].hash = me.form /\ keys'[slot].response = response
    BY <1>4
  <2>2. \A a \in answers : a.slot \in DOMAIN keys /\ keys'[a.slot] = keys[a.slot]
    BY <1>3, <1>4 DEF Inv, Remembered
  <2>3. DOMAIN keys' = DOMAIN keys \cup {slot}
    BY <1>4
  <2>. HIDE DEF slot, me
  <2>. QED  BY <1>5, <2>1, <2>2, <2>3 DEF Inv, Remembered
<1>7. KeyHeld(Idle)' /\ RaiseOK(Idle)'
  BY <1>0 DEF KeyHeld, RaiseOK, Inside
<1>8. ASSUME NEW g \in Handler, g # h PROVE KeyHeld(handler[g])'
  <2>1. KeyHeld(handler[g]) /\ handler'[g] = handler[g]
    BY <1>1, <1>8 DEF Inv, Careful
  <2>2. slot \notin handler[g].locks
    BY <1>3, <1>8 DEF Inv, Apart, Slot, Exclusive
  <2>. QED  BY <1>4, <2>1, <2>2 DEF KeyHeld, Slot, Operation
<1>9. DOMAIN keys' = DOMAIN keys \cup {slot}
  BY <1>4
<1>. QED  BY <1>1, <1>2, <1>3, <1>6, <1>7, <1>8, <1>9

LEMMA CommitEmployeeStep == ASSUME Inv, NEW h \in Handler, CommitEmployee(h) PROVE Inv'
<1>. DEFINE me == handler[h]
<1>0. /\ me.pc = "commit" /\ Answer(h) /\ Complete(me, [id |-> me.id])
      /\ UNCHANGED <<pay, history>> /\ DOMAIN staff \subseteq DOMAIN staff'
  BY DEF CommitEmployee, At, Put
<1>1. /\ Formed' /\ Apart' /\ Remembered' /\ DOMAIN keys \subseteq DOMAIN keys'
      /\ handler'[h] = Idle /\ KeyHeld(Idle)' /\ RaiseOK(Idle)'
      /\ \A g \in Handler : g # h => handler'[g] = handler[g] /\ KeyHeld(handler[g])'
  BY <1>0, Completed
<1>2. ASSUME NEW g \in Handler PROVE Careful(handler[g])'
  <2>1. CASE g = h
    BY <1>1, <2>1 DEF Careful, KeyHeld, RaiseOK, Inside, Idle
  <2>2. CASE g # h
    <3>1. RaiseOK(handler[g]) /\ handler'[g] = handler[g]
      BY <1>1, <2>2 DEF Inv, Careful
    <3>2. RaiseOK(handler[g])'
      BY <1>0, <3>1 DEF RaiseOK, Stands, Holds
    <3>. QED  BY <1>1, <2>2, <3>2 DEF Careful
  <2>. QED  BY <2>1, <2>2
<1>3. Recorded' /\ KeyActsOnce' /\ EvidenceKept'
  BY <1>0, <1>1 DEF Inv, Recorded, KeyActsOnce, EvidenceKept, Evidence
<1>4. \A e \in Id : Series(e)'
  BY <1>0 DEF Inv, Series, Of, Version
<1>. QED  BY <1>1, <1>2, <1>3, <1>4 DEF Inv

\* The entry a change appends, and the row it leaves.
Entry(c) ==
  [employee |-> c.id, version |-> Version(c.id) + 1, previous |-> c.seen,
   amount |-> c.form.amount, key |-> c.key]

LEMMA CommitPayShape ==
  ASSUME Inv, NEW h \in Handler, CommitPay(h)
  PROVE  LET me == handler[h] IN
         /\ me.id \in Id /\ me.form \in Raises /\ Holds(me) /\ Version(me.id) \in Nat
         /\ DOMAIN pay' = DOMAIN pay \cup {me.id}
         /\ pay'[me.id] = [amount |-> me.form.amount, version |-> Version(me.id) + 1]
         /\ \A e \in DOMAIN pay \ {me.id} : pay'[e] = pay[e]
         /\ history' = history \cup {Entry(me)}
         /\ Slot(me) = <<"key", <<"compensation.change", me.id>>, me.key>>
         /\ staff' = staff
<1>. DEFINE me == handler[h]
<1>1. At(h, "raise", "commit") /\ staff' = staff
  BY DEF CommitPay
<1>2. me.id \in Id /\ me.form \in Raises /\ Holds(me)
  BY <1>1 DEF Inv, Careful, RaiseOK, At
<1>3. Version(me.id) \in Nat
  BY <1>2 DEF Inv, Series
<1>4. (IF me.id \in DOMAIN pay THEN pay[me.id].version + 1 ELSE 1) = Version(me.id) + 1
  BY DEF Version
<1>5. /\ pay' = Put(pay, me.id, [amount |-> me.form.amount, version |-> Version(me.id) + 1])
      /\ history' = history \cup {Entry(me)}
  BY <1>4 DEF CommitPay, Entry
<1>6. Slot(me) = <<"key", <<"compensation.change", me.id>>, me.key>>
  BY <1>1 DEF Slot, Operation, At
<1>. QED  BY <1>1, <1>2, <1>3, <1>5, <1>6 DEF Put

\* The series of an employee grows by one at its end.
LEMMA SeriesGrows ==
  ASSUME Inv, NEW h \in Handler, CommitPay(h), NEW e \in Id
  PROVE  Series(e)'
<1>. DEFINE me == handler[h]  n == Version(me.id)  x == Entry(me)
<1>0. /\ me.id \in Id /\ Holds(me) /\ n \in Nat
      /\ DOMAIN pay' = DOMAIN pay \cup {me.id}
      /\ pay'[me.id] = [amount |-> me.form.amount, version |-> n + 1]
      /\ \A i \in DOMAIN pay \ {me.id} : pay'[i] = pay[i]
      /\ history' = history \cup {x}
  BY CommitPayShape
<1>x. /\ x.employee = me.id /\ x.version = n + 1 /\ x.previous = me.seen
      /\ x.amount = me.form.amount
  BY DEF Entry
<1>1. CASE e # me.id
  <2>1. Of(e)' = Of(e) /\ Version(e)' = Version(e) /\ (e \in DOMAIN pay' <=> e \in DOMAIN pay)
          /\ (e \in DOMAIN pay => pay'[e] = pay[e])
    BY <1>0, <1>1, <1>x DEF Of, Version
  <2>2. Series(e)
    BY DEF Inv
  <2>3. \A y \in Of(e) : y.version = Version(e) => e \in DOMAIN pay
    BY <2>2 DEF Series, Version
  <2>. HIDE DEF x, n, me
  <2>. QED  BY <2>1, <2>2, <2>3 DEF Series
<1>2. CASE e = me.id
  <2>1. Series(e)
    BY DEF Inv
  <2>2. Version(e)' = n + 1 /\ e \in DOMAIN pay' /\ pay'[e].amount = x.amount
    BY <1>0, <1>x, <1>2 DEF Version
  <2>3. Of(e)' = Of(e) \cup {x}
    BY <1>0, <1>x, <1>2 DEF Of
  <2>4. \A y \in Of(e) : y.version \in 1 .. n
    BY <2>1, <1>2 DEF Series
  <2>5. x \notin Of(e)
    BY <1>0, <1>x, <2>4
  <2>6. IsFiniteSet(Of(e)') /\ Cardinality(Of(e)') = n + 1
    BY <2>1, <2>3, <2>5, <1>2, FS_AddElement DEF Series
  <2>7. {y.version : y \in Of(e)'} = 1 .. n + 1
    <3>1. {y.version : y \in Of(e)'} = {y.version : y \in Of(e)} \cup {n + 1}
      BY <2>3, <1>x
    <3>2. {y.version : y \in Of(e)} = 1 .. n
      BY <2>1, <1>2 DEF Series
    <3>. QED  BY <1>0, <3>1, <3>2
  <2>8. ASSUME NEW y \in Of(e)', NEW z \in Of(e)', z.version = y.version + 1
        PROVE  z.previous = y.amount
    <3>1. CASE z \in Of(e)
      <4>1. y # x
        BY <1>0, <1>x, <2>4, <2>8, <3>1
      <4>. QED  BY <2>1, <2>3, <2>8, <3>1, <4>1 DEF Series
    <3>2. CASE z = x
      <4>1. y.version = n /\ y \in Of(e)
        BY <1>0, <1>x, <2>3, <2>4, <2>8, <3>2
      <4>2. e \in DOMAIN pay /\ y.amount = pay[e].amount
        BY <1>0, <1>2, <2>1, <2>4, <4>1 DEF Series, Version
      <4>. QED  BY <1>0, <1>2, <1>x, <3>2, <4>2 DEF Holds
    <3>. QED  BY <2>3, <3>1, <3>2
  <2>9. ASSUME NEW y \in Of(e)', y.version = n + 1 PROVE y.amount = pay'[e].amount
    BY <1>0, <1>x, <2>2, <2>3, <2>4, <2>9
  <2>. HIDE DEF n, x, me
  <2>. QED  BY <1>0, <2>2, <2>6, <2>7, <2>8, <2>9 DEF Series
<1>. QED  BY <1>1, <1>2

\* A change that does not hold the row finds a later version, or another row.
LEMMA OtherRaises ==
  ASSUME Inv, NEW h \in Handler, CommitPay(h), NEW c, RaiseOK(c),
         <<"pay", handler[h].id>> \notin c.locks
  PROVE  RaiseOK(c)'
<1>. DEFINE me == handler[h]  n == Version(me.id)
<1>0. /\ me.id \in Id /\ n \in Nat
      /\ DOMAIN pay' = DOMAIN pay \cup {me.id}
      /\ pay'[me.id] = [amount |-> me.form.amount, version |-> n + 1]
      /\ \A e \in DOMAIN pay \ {me.id} : pay'[e] = pay[e]
      /\ staff' = staff
  BY CommitPayShape
<1>1. ASSUME Stands(c), c.form \in Raises PROVE Stands(c)'
  <2>1. c.form.expected \in Nat
    BY <1>1, RaiseAssumption DEF RaiseAssumption
  <2>2. CASE c.id = me.id
    <3>1. n = pay[c.id].version
      BY <1>1, <2>2 DEF Stands, Version
    <3>. QED  BY <1>0, <1>1, <2>1, <2>2, <3>1 DEF Stands
  <2>3. CASE c.id # me.id
    BY <1>0, <1>1, <2>3 DEF Stands
  <2>. QED  BY <2>2, <2>3
<1>2. ASSUME Holds(c) PROVE Holds(c)'
  <2>1. c.id # me.id
    BY <1>2 DEF Holds
  <2>. QED  BY <1>0, <1>2, <2>1 DEF Holds
<1>. QED  BY <1>1, <1>2 DEF RaiseOK

LEMMA CommitPayStep == ASSUME Inv, NEW h \in Handler, CommitPay(h) PROVE Inv'
<1>. DEFINE me == handler[h]  slot == Slot(me)  x == Entry(me)
<1>0. /\ me.id \in Id /\ Holds(me)
      /\ DOMAIN pay' = DOMAIN pay \cup {me.id}
      /\ history' = history \cup {x} /\ staff' = staff
      /\ slot = <<"key", <<"compensation.change", me.id>>, me.key>>
  BY CommitPayShape
<1>x. x.employee = me.id /\ x.key = me.key
  BY DEF Entry
<1>c. me.pc = "commit" /\ Answer(h) /\ \E response : Complete(me, response)
  BY DEF CommitPay, At
<1>1. /\ Formed' /\ Apart' /\ Remembered' /\ slot \notin DOMAIN keys
      /\ DOMAIN keys' = DOMAIN keys \cup {slot}
      /\ handler'[h] = Idle /\ KeyHeld(Idle)' /\ RaiseOK(Idle)'
      /\ \A g \in Handler : g # h => handler'[g] = handler[g] /\ KeyHeld(handler[g])'
  BY <1>c, Completed
<1>2. ASSUME NEW g \in Handler PROVE Careful(handler[g])'
  <2>1. CASE g = h
    BY <1>1, <2>1 DEF Careful, KeyHeld, RaiseOK, Inside, Idle
  <2>2. CASE g # h
    <3>1. RaiseOK(handler[g]) /\ handler'[g] = handler[g]
      BY <1>1, <2>2 DEF Inv, Careful
    <3>2. <<"pay", me.id>> \notin handler[g].locks
      BY <1>0, <2>2 DEF Inv, Apart, Holds, Exclusive
    <3>3. \A c : c = handler[g] => RaiseOK(c)'
      BY <3>1, <3>2, OtherRaises
    <3>5. RaiseOK(handler[g])'
      BY <3>1, <3>3 DEF RaiseOK, Stands, Holds
    <3>. QED  BY <1>1, <2>2, <3>5 DEF Careful
  <2>. QED  BY <2>1, <2>2
<1>3. Recorded'
  BY <1>0, <1>1, <1>x DEF Inv, Recorded
<1>4. KeyActsOnce'
  <2>1. \A y \in history : ~(y.employee = x.employee /\ y.key = x.key)
    BY <1>0, <1>1, <1>x DEF Inv, Recorded
  <2>. QED  BY <1>0, <2>1 DEF Inv, KeyActsOnce
<1>5. EvidenceKept'
  BY <1>0, <1>x DEF Inv, EvidenceKept, Evidence, Holds
<1>6. \A e \in Id : Series(e)'
  BY SeriesGrows
<1>. QED  BY <1>1, <1>2, <1>3, <1>4, <1>5, <1>6 DEF Inv

------------------------------------------------------------------------------
(* The theorems.                                                              *)

LEMMA NextInv == Inv /\ [Next]_vars => Inv'
<1>. SUFFICES ASSUME Inv, [Next]_vars PROVE Inv'
  OBVIOUS
<1>1. ASSUME NEW h \in Handler, Ask(h) PROVE Inv'
  BY <1>1, AskStep
<1>2. ASSUME NEW h \in Handler, Serve(h) PROVE Inv'
  BY <1>2, DepartmentSteps, EmployeeSteps, FindKeyStep, ReserveStep, ReplayCommittedStep,
     InsertEmployeeStep, CommitEmployeeStep, ReadEmployeeStep, DeleteEmployeeStep,
     ReadPreviousStep, InsertPayStep, UpdatePayStep, CommitPayStep DEF Serve
<1>3. ASSUME NEW h \in Handler, Crash(h) PROVE Inv'
  BY <1>3, PlainStep DEF Crash, tables
<1>4. CASE StartReading \/ ReadPage \/ UNCHANGED vars
  <2>1. UNCHANGED <<handler, keys, pay, history, staff, answers>>
    BY <1>4 DEF StartReading, ReadPage, vars, tables
  <2>2. (Formed /\ Apart /\ \A h \in Handler : Careful(handler[h]))'
    BY <2>1 DEF Inv, Formed, IsCall, Apart, Careful, KeyHeld, RaiseOK, Stands, Holds, Slot,
                Operation
  <2>3. (Recorded /\ Remembered /\ KeyActsOnce /\ EvidenceKept)'
    BY <2>1 DEF Inv, Recorded, Remembered, KeyActsOnce, EvidenceKept, Evidence
  <2>4. \A e \in Id : Series(e)'
    BY <2>1 DEF Inv, Series, Of, Version
  <2>. QED  BY <2>2, <2>3, <2>4 DEF Inv
<1>. QED  BY <1>1, <1>2, <1>3, <1>4 DEF Next

LEMMA Safe == Spec => []Inv
  BY InitInv, NextInv, PTL DEF Spec

\* However often a change of compensation is sent with one key, by whatever handlers at
\* the same time and with whatever crashes, it appears in the history once.
THEOREM KeysActOnce == Spec => []KeyActsOnce
<1>1. Inv => KeyActsOnce
  BY DEF Inv
<1>. QED  BY <1>1, Safe, PTL

\* All successful answers to one idempotency key are for one body and are the same.
THEOREM ReplaysSaySame == Spec => []ReplaysAgree
<1>1. Inv => ReplaysAgree
  BY DEF Inv, Remembered, ReplaysAgree
<1>. QED  BY <1>1, Safe, PTL

\* The history of every employee has each version once and without gaps, each entry
\* starting from the amount of the one before, and the current row is its last.
THEOREM HistoryFollows == Spec => []HistoryInStep
<1>1. Inv => HistoryInStep
  <2>. SUFFICES ASSUME Inv, NEW e \in Id, Series(e)
                PROVE  /\ {x.version : x \in Of(e)} = 1 .. Version(e)
                       /\ Cardinality(Of(e)) = Version(e)
                       /\ \A x, y \in Of(e) : y.version = x.version + 1 => y.previous = x.amount
                       /\ \A x \in Of(e) : x.version = Version(e) => x.amount = pay[e].amount
    BY DEF Inv, HistoryInStep, Of, Version
  <2>. QED  BY DEF Series
<1>. QED  BY <1>1, Safe, PTL

\* Nobody is deleted who has compensation or a history of it, even if the deletion
\* had looked for them before they were written.
THEOREM EvidenceStays == Spec => []EvidenceKept
<1>1. Inv => EvidenceKept
  BY DEF Inv
<1>. QED  BY <1>1, Safe, PTL

------------------------------------------------------------------------------
(* Nobody waits in a circle.                                                  *)

\* A transaction holds nothing before its reservation, and before it is about to commit
\* nothing but its key: whoever waits for a key holds nothing, whoever waits for a row or
\* a unique value holds a key at most, and whoever holds those waits for nothing.
HeldBy(c) ==
  /\ c.pc \notin Inside => c.locks = {}
  /\ c.pc # "commit" => \A s \in c.locks : s[1] = "key"
Held == \A h \in Handler : HeldBy(handler[h])

LEMMA BecomesHeld ==
  ASSUME Formed, Held, NEW h \in Handler, NEW c, IsCall(c), Becomes(h, c), HeldBy(c)
  PROVE  Held'
<1>1. handler'[h] = c /\ \A g \in Handler : g # h => handler'[g] = handler[g]
  BY StepForms
<1>2. ASSUME NEW g \in Handler PROVE HeldBy(handler'[g])
  BY <1>1 DEF Held
<1>. QED  BY <1>2 DEF Held, HeldBy

LEMMA AnswerHeld == ASSUME Formed, Held, NEW h \in Handler, Answer(h) PROVE Held'
<1>1. IsCall(Idle) /\ HeldBy(Idle) /\ Becomes(h, Idle)
  BY DEF Idle, IsCall, HeldBy, Answer
<1>. QED  BY <1>1, BecomesHeld

LEMMA GotoHeld ==
  ASSUME Formed, Held, NEW h \in Handler, NEW pc, Goto(h, pc),
         pc \notin Inside => handler[h].pc \notin Inside, handler[h].pc # "commit"
  PROVE  Held'
<1>. DEFINE me == handler[h]  c == [me EXCEPT !.pc = pc]
<1>1. Becomes(h, c) /\ IsCall(me) /\ HeldBy(me)
  BY DEF Goto, Formed, Held
<1>2. IsCall(c) /\ c.pc = pc /\ c.locks = me.locks
  BY <1>1 DEF IsCall
<1>. HIDE DEF c, me
<1>3. HeldBy(c)
  BY <1>1, <1>2 DEF HeldBy, me
<1>. QED  BY <1>1, <1>2, <1>3, BecomesHeld DEF me

\* A request that has just been sent.
LEMMA EnterHeld ==
  ASSUME Formed, Held, NEW h \in Handler, NEW op, NEW pc, NEW id, NEW form, NEW key,
         Enter(h, op, pc, id, form, key), pc \notin Inside
  PROVE  Held'
<1>. DEFINE c == [Idle EXCEPT !.op = op, !.pc = pc, !.id = id, !.form = form, !.key = key]
<1>1. c = [Idle EXCEPT !.op = op, !.pc = pc, !.id = id, !.form = form, !.key = key]
  OBVIOUS
<1>. HIDE DEF c
<1>2. c = [pc |-> pc, op |-> op, id |-> id, form |-> form, key |-> key, seen |-> None,
           locks |-> {}]
  BY <1>1 DEF Idle
<1>3. IsCall(c) /\ HeldBy(c)
  BY <1>2 DEF IsCall, HeldBy
<1>. QED  BY <1>1, <1>3, BecomesHeld DEF Enter

LEMMA AskHeld == ASSUME Formed, Held, NEW h \in Handler, Ask(h) PROVE Held'
<1>1. \E op, pc, id, form, key :
        pc \in {"check", "find", "read", "employee"} /\ Enter(h, op, pc, id, form, key)
  BY DEF Ask, AskDepartment, AskEmployee, AskRaise
<1>2. PICK op, pc, id, form, key :
        pc \in {"check", "find", "read", "employee"} /\ Enter(h, op, pc, id, form, key)
  BY <1>1
<1>. QED  BY <1>2, EnterHeld DEF Inside

\* The statements that take locks, or read without.
LEMMA TakeHeld ==
  ASSUME Formed, Held, NEW h \in Handler,
         Reserve(h) \/ InsertEmployee(h) \/ InsertPay(h) \/ UpdatePay(h)
           \/ ReadEmployee(h) \/ ReadPrevious(h)
  PROVE  Held'
<1>. DEFINE me == handler[h]
<1>0. IsCall(me) /\ HeldBy(me)
  BY DEF Formed, Held
<1>. SUFFICES ASSUME ~Answer(h) PROVE Held'
  BY AnswerHeld
<1>. SUFFICES \E c : Becomes(h, c) /\ IsCall(c) /\ HeldBy(c)
  BY BecomesHeld, Zenon
<1>1. CASE Reserve(h)
  <2>1. CASE Slot(me) \in DOMAIN keys
    <3>. DEFINE c == Moved(me, "replay", {})
    <3>1. Becomes(h, c)
      BY <1>1, <2>1 DEF Reserve, Moved
    <3>2. IsCall(c) /\ c.pc = "replay" /\ c.locks = {}
      BY <1>0, MovedForm
    <3>. HIDE DEF c
    <3>. QED  BY <3>1, <3>2 DEF HeldBy
  <2>2. CASE Slot(me) \notin DOMAIN keys
    <3>. DEFINE pc == IF me.op = "hire" THEN "department" ELSE "previous"
                c == Moved(me, pc, me.locks \cup {Slot(me)})
    <3>1. Becomes(h, c) /\ me.pc = "reserve"
      BY <1>1, <2>2 DEF Reserve, Moved
    <3>2. IsCall(c) /\ c.pc = pc /\ c.locks = me.locks \cup {Slot(me)} /\ Slot(me)[1] = "key"
      BY <1>0, MovedForm DEF Slot
    <3>. HIDE DEF c
    <3>. QED  BY <1>0, <3>1, <3>2 DEF HeldBy, Inside
  <2>. QED  BY <2>1, <2>2
<1>2. CASE InsertEmployee(h)
  <2>1. PICK e \in Id \ issued :
          Becomes(h, [me EXCEPT
            !.pc = "commit", !.id = e,
            !.locks = @ \cup Claims(me.form) \cup {<<"id", e>>, <<"department", me.form.department>>}])
    BY <1>2 DEF InsertEmployee
  <2>. DEFINE c == [me EXCEPT
            !.pc = "commit", !.id = e,
            !.locks = @ \cup Claims(me.form) \cup {<<"id", e>>, <<"department", me.form.department>>}]
          locks == me.locks \cup Claims(me.form)
                     \cup {<<"id", e>>, <<"department", me.form.department>>}
  <2>2. c = [me EXCEPT !.pc = "commit", !.id = e, !.locks = locks]
    BY Zenon
  <2>3. Becomes(h, c)
    BY <2>1
  <2>. HIDE DEF c, locks
  <2>4. c = [pc |-> "commit", op |-> me.op, id |-> e, form |-> me.form, key |-> me.key,
             seen |-> me.seen, locks |-> locks]
    BY <1>0, <2>2 DEF IsCall
  <2>. QED  BY <2>3, <2>4 DEF IsCall, HeldBy, Inside
<1>3. CASE InsertPay(h) \/ UpdatePay(h)
  <2>. DEFINE c == Moved(me, "commit", me.locks \cup {<<"pay", me.id>>, <<"employee", me.id>>})
  <2>1. Becomes(h, c)
    BY <1>3 DEF InsertPay, UpdatePay, Holding, Moved
  <2>2. IsCall(c) /\ c.pc = "commit"
    BY <1>0, MovedForm
  <2>. HIDE DEF c
  <2>. QED  BY <2>1, <2>2 DEF HeldBy, Inside
<1>4. CASE ReadEmployee(h)
  <2>. DEFINE c == [me EXCEPT !.pc = "check", !.seen = staff[me.id]]
  <2>1. Becomes(h, c) /\ me.pc = "read"
    BY <1>4 DEF ReadEmployee, At
  <2>2. c = [me EXCEPT !.pc = "check", !.seen = staff[me.id]]
    OBVIOUS
  <2>. HIDE DEF c
  <2>3. c = [pc |-> "check", op |-> me.op, id |-> me.id, form |-> me.form, key |-> me.key,
             seen |-> staff[me.id], locks |-> me.locks]
    BY <1>0, <2>2 DEF IsCall
  <2>4. IsCall(c) /\ c.pc = "check" /\ c.locks = me.locks
    BY <2>3 DEF IsCall
  <2>. QED  BY <1>0, <2>1, <2>4 DEF HeldBy, Inside
<1>5. CASE ReadPrevious(h)
  <2>0. PICK pc \in {"insert", "update"} : \E seen : Becomes(h, [me EXCEPT !.pc = pc, !.seen = seen])
    BY <1>5 DEF ReadPrevious
  <2>1. PICK seen : Becomes(h, [me EXCEPT !.pc = pc, !.seen = seen])
    BY <2>0
  <2>. DEFINE c == [me EXCEPT !.pc = pc, !.seen = seen]
  <2>2. Becomes(h, c) /\ me.pc = "previous"
    BY <1>5, <2>1 DEF ReadPrevious, At
  <2>3. c = [me EXCEPT !.pc = pc, !.seen = seen]
    OBVIOUS
  <2>. HIDE DEF c
  <2>4. c = [pc |-> pc, op |-> me.op, id |-> me.id, form |-> me.form, key |-> me.key,
             seen |-> seen, locks |-> me.locks]
    BY <1>0, <2>3 DEF IsCall
  <2>5. IsCall(c) /\ c.pc = pc /\ c.locks = me.locks
    BY <2>4 DEF IsCall
  <2>. QED  BY <1>0, <2>0, <2>1, <2>2, <2>5 DEF HeldBy, Inside
<1>. QED  BY <1>1, <1>2, <1>3, <1>4, <1>5

LEMMA ServeHeld == ASSUME Formed, Held, NEW h \in Handler, Serve(h) PROVE Held'
<1>. SUFFICES ASSUME ~Answer(h) PROVE Held'
  BY AnswerHeld
<1>1. CASE \E pc : Goto(h, pc) /\ (pc \notin Inside => handler[h].pc \notin Inside)
                     /\ handler[h].pc # "commit"
  BY <1>1, GotoHeld
<1>2. CASE \/ CheckDepartment(h) \/ FindKey(h) \/ FindDepartment(h) \/ CheckEmployee(h)
           \/ FindEmployee(h) \/ GuardEvidence(h) \/ FindPaid(h)
  BY <1>1, <1>2 DEF CheckDepartment, FindKey, FindDepartment, CheckEmployee, FindEmployee,
       GuardEvidence, FindPaid, Replay, At, Inside
<1>3. CASE \/ OpenDepartment(h) \/ EditDepartment(h) \/ CloseDepartment(h) \/ ReplayCommitted(h)
           \/ CommitEmployee(h) \/ WriteEmployee(h) \/ DeleteEmployee(h) \/ CommitPay(h)
  BY <1>3 DEF OpenDepartment, EditDepartment, CloseDepartment, ReplayCommitted, CommitEmployee,
       WriteEmployee, DeleteEmployee, CommitPay, Replay
<1>. QED  BY <1>2, <1>3, TakeHeld DEF Serve

LEMMA NextHeld == Formed /\ Held /\ [Next]_vars => Held'
<1>. SUFFICES ASSUME Formed, Held, [Next]_vars PROVE Held'
  OBVIOUS
<1>1. CASE \E h \in Handler : Ask(h) \/ Serve(h) \/ Crash(h)
  BY <1>1, AskHeld, ServeHeld, AnswerHeld DEF Crash
<1>2. CASE StartReading \/ ReadPage \/ UNCHANGED vars
  BY <1>2 DEF StartReading, ReadPage, vars, Held
<1>. QED  BY <1>1, <1>2 DEF Next

LEMMA HeldStill == ASSUME Held PROVE NoStandstill
<1>1. ASSUME NEW g \in Handler, NEW h \in Handler, WaitsFor(g, h)
      PROVE  /\ handler[h].pc \in Inside
             /\ handler[g].pc # "reserve" => handler[h].pc = "commit"
  <2>. DEFINE me == handler[g]
  <2>1. PICK s \in handler[h].locks : s \in Wants(me)
    BY <1>1 DEF WaitsFor
  <2>2. me.pc # "reserve" => s[1] # "key"
    BY <2>1 DEF Wants, Claims
  <2>. QED  BY <2>1, <2>2 DEF Held, HeldBy
<1>2. ASSUME NEW g \in Handler, NEW h \in Handler, handler[g].pc = "commit" PROVE ~WaitsFor(g, h)
  BY <1>2 DEF WaitsFor, Wants
<1>3. ASSUME NEW S \in (SUBSET Handler) \ {{}} PROVE \E g \in S : \A h \in S : ~WaitsFor(g, h)
  <2>. SUFFICES ASSUME \A g \in S : \E h \in S : WaitsFor(g, h) PROVE FALSE
    OBVIOUS
  <2>1. PICK g \in S : TRUE
    OBVIOUS
  <2>2. PICK h \in S : WaitsFor(g, h)
    OBVIOUS
  <2>3. PICK k \in S : WaitsFor(h, k)
    OBVIOUS
  <2>4. PICK l \in S : WaitsFor(k, l)
    OBVIOUS
  <2>5. handler[h].pc \in Inside /\ handler[k].pc = "commit"
    BY <1>1, <2>2, <2>3 DEF Inside
  <2>. QED  BY <1>2, <2>4, <2>5
<1>. QED  BY <1>1, <1>3 DEF NoStandstill, Inside

\* Requests never wait for one another in a circle, nor for one that was given up: whoever
\* waits for a key holds nothing yet, and whoever holds rows is about to commit.
THEOREM NobodyStuck == Spec => []NoStandstill
<1>0. Inv => Formed
  BY DEF Inv
<1>1. Init => Held
  BY DEF Init, Held, HeldBy, Idle
<1>2. Spec => []Held
  BY <1>1, <1>0, Safe, NextHeld, PTL DEF Spec
<1>. QED  BY <1>2, HeldStill, PTL

------------------------------------------------------------------------------
(* The directory.  Whoever hires holds what the new row claims, from the      *)
(* insert to the commit, and nobody else can take it meanwhile.               *)

Hiring(c) ==
  c.op = "hire" =>
    /\ c.form \in Newcomers
    /\ c.pc = "commit" =>
         /\ Claims(c.form) \cup {<<"id", c.id>>, <<"department", c.form.department>>} \subseteq c.locks
         /\ c.id \in Id \ issued /\ c.form.department \in DOMAIN departments
         /\ ~NumberTaken(c.form.number, None) /\ ~MailTaken(c.form.mail, None)
Editing(c) == c.op = "edit" => c.id \in Id /\ c.form \in Patches

\* An id is given once; every row has its columns.
Rows ==
  /\ DOMAIN staff \subseteq issued /\ issued \subseteq Id /\ IsFiniteSet(DOMAIN staff)
  /\ \A e \in DOMAIN staff : Columns \subseteq DOMAIN staff[e] /\ staff[e].name \in Nat

DirInv ==
  /\ Inv /\ Rows /\ Anchored
  /\ \A h \in Handler : Hiring(handler[h]) /\ Editing(handler[h])

LEMMA InitDir == Init /\ Anchored => DirInv
<1>. SUFFICES ASSUME Init, Anchored PROVE DirInv
  OBVIOUS
<1>1. Rows
  BY EmployeeAssumption DEF Init, Rows, EmployeeAssumption
<1>2. \A h \in Handler : Hiring(handler[h]) /\ Editing(handler[h])
  BY DEF Init, Idle, Hiring, Editing
<1>. QED  BY <1>1, <1>2, InitInv DEF DirInv

\* A step of h that leaves the directory alone.
LEMMA Calm ==
  ASSUME DirInv, Inv', NEW h \in Handler, NEW c, IsCall(c), Becomes(h, c), Hiring(c), Editing(c),
         UNCHANGED <<staff, issued, departments>>
  PROVE  DirInv'
<1>1. handler'[h] = c /\ \A g \in Handler : g # h => handler'[g] = handler[g]
  BY StepForms DEF DirInv, Inv
<1>2. \A g \in Handler : Hiring(handler'[g]) /\ Editing(handler'[g])
  BY <1>1 DEF DirInv
<1>3. \A g \in Handler : Hiring(handler[g])' /\ Editing(handler[g])'
  BY <1>2 DEF Hiring, Editing, NumberTaken, MailTaken
<1>4. Rows' /\ Anchored'
  BY DEF DirInv, Rows, Anchored, NumberTaken, MailTaken
<1>. QED  BY <1>3, <1>4 DEF DirInv

\* One that only moves on.
LEMMA CalmGoto ==
  ASSUME DirInv, Inv', NEW h \in Handler, NEW pc, Goto(h, pc), pc # "commit",
         UNCHANGED <<staff, issued, departments>>
  PROVE  DirInv'
<1>. DEFINE me == handler[h]  c == [me EXCEPT !.pc = pc]
<1>0. IsCall(me) /\ Hiring(me) /\ Editing(me) /\ Becomes(h, c)
  BY DEF DirInv, Inv, Formed, Goto
<1>1. IsCall(c) /\ c.pc = pc /\ c.op = me.op /\ c.id = me.id /\ c.form = me.form
  BY <1>0 DEF IsCall
<1>. HIDE DEF c, me
<1>2. Hiring(c) /\ Editing(c)
  BY <1>0, <1>1 DEF Hiring, Editing
<1>. QED  BY <1>0, <1>1, <1>2, Calm

LEMMA IdleFree == IsCall(Idle) /\ Hiring(Idle) /\ Editing(Idle)
BY DEF Idle, IsCall, Hiring, Editing

LEMMA CalmAnswer ==
  ASSUME DirInv, Inv', NEW h \in Handler, Answer(h), UNCHANGED <<staff, issued, departments>>
  PROVE  DirInv'
BY IdleFree, Calm DEF Answer

LEMMA CalmEnter ==
  ASSUME DirInv, Inv', NEW h \in Handler, NEW op, NEW pc, NEW id, NEW form, NEW key,
         Enter(h, op, pc, id, form, key), pc # "commit",
         op = "hire" => form \in Newcomers, op = "edit" => id \in Id /\ form \in Patches,
         UNCHANGED <<staff, issued, departments>>
  PROVE  DirInv'
<1>. DEFINE c == [Idle EXCEPT !.op = op, !.pc = pc, !.id = id, !.form = form, !.key = key]
<1>0. c = [Idle EXCEPT !.op = op, !.pc = pc, !.id = id, !.form = form, !.key = key]
  OBVIOUS
<1>. HIDE DEF c
<1>1. c = [pc |-> pc, op |-> op, id |-> id, form |-> form, key |-> key, seen |-> None,
           locks |-> {}]
  BY <1>0 DEF Idle
<1>2. IsCall(c) /\ Hiring(c) /\ Editing(c)
  BY <1>1 DEF IsCall, Hiring, Editing
<1>. QED  BY <1>0, <1>2, Calm DEF Enter

LEMMA AskDir == ASSUME DirInv, Inv', NEW h \in Handler, Ask(h) PROVE DirInv'
<1>1. CASE AskDepartment(h)
  BY <1>1, CalmEnter DEF AskDepartment, tables
<1>2. CASE AskEmployee(h)
  BY <1>2, CalmEnter DEF AskEmployee, tables
<1>3. CASE AskRaise(h)
  BY <1>3, CalmEnter DEF AskRaise, tables
<1>. QED  BY <1>1, <1>2, <1>3 DEF Ask

\* A request that is not about the directory's rows goes on, with what it holds.
LEMMA CalmOther ==
  ASSUME DirInv, Inv', NEW h \in Handler, NEW c, IsCall(c), Becomes(h, c), c.op = handler[h].op,
         c.form = handler[h].form, c.id = handler[h].id, c.op = "hire" => c.pc # "commit",
         UNCHANGED <<staff, issued, departments>>
  PROVE  DirInv'
<1>1. Hiring(handler[h]) /\ Editing(handler[h])
  BY DEF DirInv
<1>2. Hiring(c) /\ Editing(c)
  BY <1>1 DEF Hiring, Editing
<1>. QED  BY <1>2, Calm

LEMMA ReserveDir == ASSUME DirInv, Inv', NEW h \in Handler, Reserve(h) PROVE DirInv'
<1>. DEFINE me == handler[h]
<1>0. IsCall(me) /\ UNCHANGED <<staff, issued, departments>>
  BY DEF Reserve, tables, DirInv, Inv, Formed
<1>a. \/ Becomes(h, Moved(me, "replay", {}))
      \/ Becomes(h, Moved(me, "department", me.locks \cup {Slot(me)}))
      \/ Becomes(h, Moved(me, "previous", me.locks \cup {Slot(me)}))
  BY DEF Reserve, Moved
<1>1. PICK pc, locks : Becomes(h, Moved(me, pc, locks)) /\ pc # "commit"
  BY <1>a
<1>. DEFINE c == Moved(me, pc, locks)
<1>2. IsCall(c) /\ c.pc = pc /\ c.op = me.op /\ c.id = me.id /\ c.form = me.form
  BY <1>0, MovedForm
<1>. HIDE DEF c
<1>3. Becomes(h, c)
  BY <1>1 DEF c
<1>. QED  BY <1>0, <1>1, <1>2, <1>3, CalmOther

LEMMA ReadDir ==
  ASSUME DirInv, Inv', NEW h \in Handler,
         ReadEmployee(h) \/ ReadPrevious(h) \/ InsertPay(h) \/ UpdatePay(h)
  PROVE  DirInv'
<1>. DEFINE me == handler[h]
<1>0. IsCall(me) /\ UNCHANGED <<staff, issued, departments>> /\ me.op \in {"edit", "raise"}
  BY DEF ReadEmployee, ReadPrevious, InsertPay, UpdatePay, At, tables, DirInv, Inv, Formed
<1>1. CASE Answer(h)
  BY <1>0, <1>1, CalmAnswer
<1>2. CASE \E pc, seen : Becomes(h, [me EXCEPT !.pc = pc, !.seen = seen])
  <2>1. PICK pc, seen : Becomes(h, [me EXCEPT !.pc = pc, !.seen = seen])
    BY <1>2
  <2>. DEFINE c == [me EXCEPT !.pc = pc, !.seen = seen]
  <2>0. c = [me EXCEPT !.pc = pc, !.seen = seen] /\ Becomes(h, c)
    BY <2>1
  <2>. HIDE DEF c
  <2>a. c = [pc |-> pc, op |-> me.op, id |-> me.id, form |-> me.form, key |-> me.key,
             seen |-> seen, locks |-> me.locks]
    BY <1>0, <2>0 DEF IsCall
  <2>2. IsCall(c) /\ c.op = me.op /\ c.id = me.id /\ c.form = me.form
    BY <2>a DEF IsCall
  <2>3. Becomes(h, c)
    BY <2>0
  <2>4. c.op # "hire"
    BY <1>0, <2>2
  <2>. QED  BY <1>0, <2>2, <2>3, <2>4, CalmOther
<1>3. CASE Becomes(h, Holding(me))
  <2>. DEFINE c == Moved(me, "commit", me.locks \cup {<<"pay", me.id>>, <<"employee", me.id>>})
  <2>1. IsCall(c) /\ c.op = me.op /\ c.id = me.id /\ c.form = me.form
    BY <1>0, MovedForm
  <2>2. Becomes(h, c)
    BY <1>3 DEF Holding, Moved
  <2>. HIDE DEF c
  <2>3. c.op # "hire"
    BY <1>0, <2>1
  <2>. QED  BY <1>0, <2>1, <2>2, <2>3, CalmOther
<1>. QED  BY <1>1, <1>2, <1>3 DEF ReadEmployee, ReadPrevious, InsertPay, UpdatePay

LEMMA PlainDir ==
  ASSUME DirInv, Inv', NEW h \in Handler,
         \/ CheckDepartment(h) \/ FindKey(h) \/ ReplayCommitted(h) \/ FindDepartment(h)
         \/ CheckEmployee(h) \/ FindEmployee(h) \/ GuardEvidence(h) \/ FindPaid(h) \/ CommitPay(h)
         \/ Crash(h)
  PROVE  DirInv'
<1>1. UNCHANGED <<staff, issued, departments>>
  BY DEF CheckDepartment, FindKey, ReplayCommitted, FindDepartment, CheckEmployee, FindEmployee,
     GuardEvidence, FindPaid, CommitPay, Crash, tables
<1>2. Answer(h) \/ \E pc : Goto(h, pc) /\ pc # "commit"
  BY DEF CheckDepartment, FindKey, ReplayCommitted, FindDepartment, CheckEmployee, FindEmployee,
     GuardEvidence, FindPaid, CommitPay, Crash, Replay
<1>. QED  BY <1>1, <1>2, CalmAnswer, CalmGoto

LEMMA InsertDir == ASSUME DirInv, Inv', NEW h \in Handler, InsertEmployee(h) PROVE DirInv'
<1>. DEFINE me == handler[h]  f == me.form
<1>0. /\ IsCall(me) /\ UNCHANGED <<staff, issued, departments>> /\ me.op = "hire"
      /\ f \in Newcomers
  BY DEF InsertEmployee, At, tables, DirInv, Inv, Formed, Hiring
<1>1. CASE Answer(h)
  BY <1>0, <1>1, CalmAnswer
<1>2. ASSUME NEW e \in Id \ issued,
             f.department \in DOMAIN departments,
             ~NumberTaken(f.number, None), ~MailTaken(f.mail, None),
             Becomes(h, [me EXCEPT
               !.pc = "commit", !.id = e,
               !.locks = @ \cup Claims(f) \cup {<<"id", e>>, <<"department", f.department>>}])
      PROVE  DirInv'
  <2>. DEFINE new == Claims(f) \cup {<<"id", e>>, <<"department", f.department>>}
              c == [me EXCEPT !.pc = "commit", !.id = e,
                    !.locks = @ \cup Claims(f) \cup {<<"id", e>>, <<"department", f.department>>}]
  <2>0. c = [me EXCEPT !.pc = "commit", !.id = e, !.locks = me.locks \cup new]
    BY Zenon DEF IsCall
  <2>b. Becomes(h, c)
    BY <1>2
  <2>. HIDE DEF c, new
  <2>1. c = [pc |-> "commit", op |-> me.op, id |-> e, form |-> f, key |-> me.key,
             seen |-> me.seen, locks |-> me.locks \cup new]
    BY <1>0, <2>0 DEF IsCall
  <2>2. /\ IsCall(c) /\ c.pc = "commit" /\ c.op = "hire" /\ c.form = f /\ c.id = e
        /\ c.locks = me.locks \cup new
    BY <1>0, <2>1 DEF IsCall
  <2>3. Claims(c.form) \cup {<<"id", c.id>>, <<"department", c.form.department>>} \subseteq c.locks
    BY <2>2 DEF new
  <2>4. Hiring(c) /\ Editing(c)
    BY <1>0, <1>2, <2>2, <2>3 DEF Hiring, Editing
  <2>. QED  BY <1>0, <2>b, <2>2, <2>4, Calm
<1>. QED  BY <1>1, <1>2 DEF InsertEmployee

\* A step of h that ends its request and changes the directory.
LEMMA EndDir ==
  ASSUME DirInv, Inv', NEW h \in Handler, Answer(h), Rows', Anchored',
         \A g \in Handler \ {h} : \A c : c = handler[g] => Hiring(c)'
  PROVE  DirInv'
<1>1. handler'[h] = Idle /\ \A g \in Handler : g # h => handler'[g] = handler[g]
  BY IdleFree, StepForms DEF DirInv, Inv, Answer
<1>2. \A g \in Handler : Editing(handler[g])'
  BY <1>1, IdleFree DEF DirInv, Editing
<1>3. Hiring(handler[h])'
  BY <1>1 DEF Hiring, Idle
<1>4. ASSUME NEW g \in Handler, g # h PROVE Hiring(handler[g])'
  <2>1. \A c : c = handler[g] => Hiring(c)'
    BY <1>4
  <2>2. handler'[g] = handler[g]
    BY <1>1, <1>4
  <2>. QED  BY <2>1, <2>2 DEF Hiring
<1>. QED  BY <1>2, <1>3, <1>4 DEF DirInv

LEMMA DepartmentDir ==
  ASSUME DirInv, Inv', NEW h \in Handler,
         OpenDepartment(h) \/ EditDepartment(h) \/ CloseDepartment(h)
  PROVE  DirInv'
<1>0. Answer(h) /\ UNCHANGED <<staff, issued>> /\ Rows'
  BY DEF OpenDepartment, EditDepartment, CloseDepartment, DirInv, Rows
<1>1. CASE DOMAIN departments \subseteq DOMAIN departments'
  <2>1. Anchored'
    BY <1>0, <1>1 DEF DirInv, Anchored, NumberTaken, MailTaken
  <2>2. \A g \in Handler \ {h} : \A c : c = handler[g] => Hiring(c)'
    BY <1>0, <1>1 DEF DirInv, Hiring, NumberTaken, MailTaken
  <2>. QED  BY <1>0, <2>1, <2>2, EndDir
<1>2. CASE \E d : /\ departments' = Drop(departments, d) /\ ~Assigned(d)
                  /\ Unheld(h, {<<"department", d>>})
  <2>0. PICK d : /\ departments' = Drop(departments, d) /\ ~Assigned(d)
                 /\ Unheld(h, {<<"department", d>>})
    BY <1>2
  <2>1. DOMAIN departments' = DOMAIN departments \ {d}
    BY <2>0 DEF Drop
  <2>2. Anchored'
    BY <1>0, <2>0, <2>1 DEF DirInv, Anchored, NumberTaken, MailTaken, Assigned
  <2>3. ASSUME NEW g \in Handler \ {h}, NEW c, c = handler[g] PROVE Hiring(c)'
    <3>1. Hiring(c) /\ <<"department", d>> \notin c.locks
      BY <2>0, <2>3 DEF DirInv, Unheld
    <3>. QED  BY <1>0, <2>1, <3>1 DEF Hiring, NumberTaken, MailTaken
  <2>. QED  BY <1>0, <2>2, <2>3, EndDir
<1>. QED  BY <1>1, <1>2, Unwaiting DEF OpenDepartment, EditDepartment, CloseDepartment, At, Put

\* The values a new row claims are nobody's until it is there.
LEMMA CommitDir == ASSUME DirInv, Inv', NEW h \in Handler, CommitEmployee(h) PROVE DirInv'
<1>. DEFINE me == handler[h]  f == me.form  e == me.id
<1>0. /\ Answer(h) /\ UNCHANGED departments /\ issued' = issued \cup {e}
      /\ staff' = Put(staff, e, f) /\ At(h, "hire", "commit") /\ Hiring(me)
  BY DEF CommitEmployee, DirInv
<1>1. /\ f \in Newcomers /\ e \in Id \ issued /\ f.department \in DOMAIN departments
      /\ ~NumberTaken(f.number, None) /\ ~MailTaken(f.mail, None)
      /\ Claims(f) \cup {<<"id", e>>} \subseteq me.locks
  BY <1>0 DEF Hiring, At
<1>2. e \notin DOMAIN staff /\ None \notin DOMAIN staff
  BY <1>1, IdAssumption DEF DirInv, Rows, IdAssumption
<1>3. /\ DOMAIN staff' = DOMAIN staff \cup {e} /\ staff'[e] = f
      /\ \A x \in DOMAIN staff : staff'[x] = staff[x]
  BY <1>0, <1>2 DEF Put
<1>. HIDE DEF f, e, me
<1>f. Columns \subseteq DOMAIN f /\ f.name \in Nat
  BY <1>1, EmployeeAssumption DEF EmployeeAssumption
<1>4. Rows'
  <2>1. IsFiniteSet(DOMAIN staff')
    BY <1>3, FS_AddElement DEF DirInv, Rows
  <2>2. DOMAIN staff' \subseteq issued' /\ issued' \subseteq Id
    BY <1>0, <1>1, <1>3 DEF DirInv, Rows
  <2>3. ASSUME NEW x \in DOMAIN staff' PROVE Columns \subseteq DOMAIN staff'[x] /\ staff'[x].name \in Nat
    BY <1>f, <1>3, <2>3 DEF DirInv, Rows
  <2>. QED  BY <2>1, <2>2, <2>3 DEF Rows
<1>5. \A x \in DOMAIN staff : staff[x].number # f.number /\ (f.mail # None => staff[x].mail # f.mail)
  BY <1>1, <1>2 DEF NumberTaken, MailTaken
<1>6. Anchored'
  BY <1>0, <1>1, <1>2, <1>3, <1>5 DEF DirInv, Anchored, NumberTaken, MailTaken
<1>7. ASSUME NEW g \in Handler \ {h}, NEW c, c = handler[g] PROVE Hiring(c)'
  <2>1. Hiring(c) /\ c = handler[g]
    BY <1>7 DEF DirInv
  <2>2. CASE c.op = "hire" /\ c.pc = "commit"
    <3>1. /\ c.form \in Newcomers /\ c.id \in Id \ issued /\ c.form.department \in DOMAIN departments
          /\ ~NumberTaken(c.form.number, None) /\ ~MailTaken(c.form.mail, None)
          /\ Claims(c.form) \cup {<<"id", c.id>>, <<"department", c.form.department>>} \subseteq c.locks
      BY <2>1, <2>2 DEF Hiring
    <3>2. \A s \in c.locks \cap me.locks : s[1] \notin Exclusive
      BY <1>7 DEF DirInv, Inv, Apart, me
    <3>3. c.id # e
      <4>1. <<"id", e>> \in me.locks /\ <<"id", c.id>> \in c.locks
        BY <1>1, <3>1
      <4>. QED  BY <3>2, <4>1 DEF Exclusive
    <3>4. {"number", "mail"} \subseteq DOMAIN c.form /\ {"number", "mail"} \subseteq DOMAIN f
      BY <1>f, <3>1, EmployeeAssumption DEF EmployeeAssumption, Columns
    <3>5. f.number # c.form.number
      <4>1. <<"number", f.number>> \in Claims(f) /\ <<"number", c.form.number>> \in Claims(c.form)
        BY <3>4 DEF Claims
      <4>. QED  BY <1>1, <3>1, <3>2, <4>1 DEF Exclusive
    <3>6. c.form.mail # None => f.mail # c.form.mail
      <4>1. f.mail # None => <<"mail", f.mail>> \in Claims(f)
        BY <3>4 DEF Claims
      <4>2. c.form.mail # None => <<"mail", c.form.mail>> \in Claims(c.form)
        BY <3>4 DEF Claims
      <4>. QED  BY <1>1, <3>1, <3>2, <4>1, <4>2 DEF Exclusive
    <3>7. (~NumberTaken(c.form.number, None))' /\ (~MailTaken(c.form.mail, None))'
      BY <1>2, <1>3, <3>1, <3>5, <3>6 DEF NumberTaken, MailTaken
    <3>. QED  BY <1>0, <3>1, <3>3, <3>7 DEF Hiring
  <2>. QED  BY <2>1, <2>2 DEF Hiring
<1>. QED  BY <1>0, <1>4, <1>6, <1>7, EndDir

\* A PATCH takes only values nobody has and no transaction claims.
LEMMA WriteDir == ASSUME DirInv, Inv', NEW h \in Handler, WriteEmployee(h) PROVE DirInv'
<1>. DEFINE me == handler[h]  e == me.id  p == me.form  old == staff[e]  new == Merged(old, p)
<1>0. /\ Answer(h) /\ UNCHANGED <<issued, departments>> /\ me.op = "edit" /\ e \in Id
      /\ p \in Patches /\ Unheld(h, Claims(p))
  BY Unwaiting DEF WriteEmployee, At, DirInv, Editing
<1>1. CASE staff' = staff
  BY <1>0, <1>1, CalmAnswer
<1>2. CASE /\ staff' = Put(staff, e, new) /\ e \in DOMAIN staff
           /\ ~NumberTaken(new.number, e) /\ ~MailTaken(new.mail, e)
           /\ new.department \in DOMAIN departments
  <2>1. /\ DOMAIN staff' = DOMAIN staff /\ staff'[e] = new
        /\ \A x \in DOMAIN staff \ {e} : staff'[x] = staff[x]
    BY <1>2 DEF Put
  <2>2. Columns \subseteq DOMAIN old /\ old.name \in Nat
    BY <1>2 DEF DirInv, Rows
  <2>3. /\ DOMAIN new = DOMAIN old
        /\ \A x \in DOMAIN old : new[x] = IF x \in DOMAIN p THEN p[x] ELSE old[x]
    BY DEF Merged
  <2>4. new.name \in Nat
    BY <1>0, <2>2, <2>3, EmployeeAssumption DEF Columns, EmployeeAssumption
  <2>. HIDE DEF new, old, e, p, me
  <2>5. Rows'
    BY <1>0, <2>1, <2>2, <2>3, <2>4 DEF DirInv, Rows
  <2>6. Anchored'
    <3>1. \A x \in DOMAIN staff \ {e} : /\ staff[x].number # new.number
                                       /\ new.mail # None => staff[x].mail # new.mail
      BY <1>2 DEF NumberTaken, MailTaken
    <3>. QED  BY <1>0, <1>2, <2>1, <3>1 DEF DirInv, Anchored, NumberTaken, MailTaken
  <2>7. ASSUME NEW g \in Handler \ {h}, NEW c, c = handler[g] PROVE Hiring(c)'
    <3>1. Hiring(c) /\ c.locks \cap Claims(p) = {}
      BY <1>0, <2>7 DEF DirInv, Unheld
    <3>2. CASE c.op = "hire" /\ c.pc = "commit"
      <4>1. /\ c.form \in Newcomers /\ c.id \in Id \ issued /\ c.form.department \in DOMAIN departments
            /\ ~NumberTaken(c.form.number, None) /\ ~MailTaken(c.form.mail, None)
            /\ Claims(c.form) \cup {<<"id", c.id>>, <<"department", c.form.department>>} \subseteq c.locks
        BY <3>1, <3>2 DEF Hiring
      <4>2. {"number", "mail"} \subseteq DOMAIN c.form /\ {"number", "mail"} \subseteq DOMAIN old
        BY <2>2, <4>1, EmployeeAssumption DEF EmployeeAssumption, Columns
      <4>n. None \notin DOMAIN staff
        BY IdAssumption DEF DirInv, Rows, IdAssumption
      <4>3. new.number # c.form.number
        <5>1. CASE "number" \in DOMAIN p
          <6>1. <<"number", p.number>> \in Claims(p) /\ new.number = p.number
            BY <2>3, <4>2, <5>1 DEF Claims
          <6>2. <<"number", c.form.number>> \in Claims(c.form)
            BY <4>2 DEF Claims
          <6>. QED  BY <3>1, <4>1, <6>1, <6>2
        <5>2. CASE "number" \notin DOMAIN p
          <6>1. new.number = old.number
            BY <2>3, <4>2, <5>2
          <6>. QED  BY <1>2, <4>1, <4>n, <6>1 DEF NumberTaken, old
        <5>. QED  BY <5>1, <5>2
      <4>4. c.form.mail # None => new.mail # c.form.mail
        <5>. SUFFICES ASSUME c.form.mail # None, new.mail = c.form.mail PROVE FALSE
          OBVIOUS
        <5>1. CASE "mail" \in DOMAIN p
          <6>1. new.mail = p.mail
            BY <2>3, <4>2, <5>1
          <6>2. <<"mail", p.mail>> \in Claims(p)
            BY <5>1, <6>1 DEF Claims
          <6>3. <<"mail", c.form.mail>> \in Claims(c.form)
            BY <4>2 DEF Claims
          <6>. QED  BY <3>1, <4>1, <6>1, <6>2, <6>3
        <5>2. CASE "mail" \notin DOMAIN p
          <6>1. new.mail = old.mail
            BY <2>3, <4>2, <5>2
          <6>. QED  BY <1>2, <4>1, <4>n, <6>1 DEF MailTaken, old
        <5>. QED  BY <5>1, <5>2
      <4>5. (~NumberTaken(c.form.number, None))' /\ (~MailTaken(c.form.mail, None))'
        BY <2>1, <4>1, <4>3, <4>4, <4>n DEF NumberTaken, MailTaken
      <4>. QED  BY <1>0, <4>1, <4>5 DEF Hiring
    <3>. QED  BY <3>1, <3>2 DEF Hiring
  <2>. QED  BY <1>0, <2>5, <2>6, <2>7, EndDir
<1>. QED  BY <1>1, <1>2 DEF WriteEmployee

LEMMA DeleteDir == ASSUME DirInv, Inv', NEW h \in Handler, DeleteEmployee(h) PROVE DirInv'
<1>. DEFINE e == handler[h].id
<1>0. Answer(h) /\ UNCHANGED <<issued, departments>>
  BY DEF DeleteEmployee
<1>1. CASE staff' = staff
  BY <1>0, <1>1, CalmAnswer
<1>2. CASE staff' = Drop(staff, e)
  <2>1. DOMAIN staff' = DOMAIN staff \ {e} /\ \A x \in DOMAIN staff' : staff'[x] = staff[x]
    BY <1>2 DEF Drop
  <2>2. Rows'
    BY <1>0, <2>1, FS_Subset DEF DirInv, Rows
  <2>3. Anchored'
    BY <1>0, <2>1 DEF DirInv, Anchored, NumberTaken, MailTaken
  <2>4. \A g \in Handler \ {h} : \A c : c = handler[g] => Hiring(c)'
    BY <1>0, <2>1 DEF DirInv, Hiring, NumberTaken, MailTaken
  <2>. QED  BY <1>0, <2>2, <2>3, <2>4, EndDir
<1>. QED  BY <1>1, <1>2 DEF DeleteEmployee

LEMMA NextDir == DirInv /\ [Next]_vars => DirInv'
<1>. SUFFICES ASSUME DirInv, [Next]_vars PROVE DirInv'
  OBVIOUS
<1>0. Inv'
  BY NextInv DEF DirInv
<1>1. ASSUME NEW h \in Handler, Ask(h) \/ Serve(h) \/ Crash(h) PROVE DirInv'
  BY <1>0, <1>1, AskDir, PlainDir, ReserveDir, ReadDir, InsertDir, CommitDir, WriteDir, DeleteDir,
     DepartmentDir DEF Serve
<1>2. CASE StartReading \/ ReadPage \/ UNCHANGED vars
  <2>1. UNCHANGED <<handler, staff, issued, departments>>
    BY <1>2 DEF StartReading, ReadPage, vars, tables
  <2>2. Rows' /\ Anchored'
    BY <2>1 DEF DirInv, Rows, Anchored, NumberTaken, MailTaken
  <2>3. \A h \in Handler : Hiring(handler[h])' /\ Editing(handler[h])'
    BY <2>1 DEF DirInv, Hiring, Editing, NumberTaken, MailTaken
  <2>. QED  BY <1>0, <2>2, <2>3 DEF DirInv
<1>. QED  BY <1>1, <1>2 DEF Next

LEMMA Directory == Spec /\ Anchored => []DirInv
  BY InitDir, NextDir, PTL DEF Spec

\* In a directory that begins so, every employee stays in a department that is there, and
\* no two get one number or one email, whoever hires, moves, renames or closes meanwhile.
THEOREM StaysAnchored == Spec /\ Anchored => []Anchored
<1>1. DirInv => Anchored
  BY DEF DirInv
<1>. QED  BY <1>1, Directory, PTL

------------------------------------------------------------------------------
(* Pages.  A list is sorted by a total order, so its items have ranks, and a  *)
(* page is all items up to a rank.                                            *)

\* The sort keys of the directory, and those of a history.
SortKeys(of) == IF of = None THEN Nat \X Nat ELSE {<<v>> : v \in Nat}

LEMMA Order ==
  ASSUME NEW of
  PROVE  LET K == SortKeys(of) IN
         /\ K \subseteq Seq(Nat)
         /\ \A a \in K : ~Sooner(a, a)
         /\ \A a, b, c \in K : Sooner(a, b) /\ Sooner(b, c) => Sooner(a, c)
         /\ \A a, b \in K : a # b => Sooner(a, b) \/ Sooner(b, a)
<1>1. CASE of = None
  <2>1. \A a \in Nat \X Nat : a = <<a[1], a[2]>> /\ a[1] \in Nat /\ a[2] \in Nat /\ Len(a) = 2
    OBVIOUS
  <2>2. \A a, b \in Nat \X Nat : Sooner(a, b) <=> a[1] < b[1] \/ (a[1] = b[1] /\ a[2] < b[2])
    BY <2>1 DEF Sooner
  <2>3. Nat \X Nat \subseteq Seq(Nat)
    <3>1. \A x, y \in Nat : <<x, y>> \in Seq(Nat)
      OBVIOUS
    <3>. QED  BY <2>1, <3>1
  <2>4. \A a, b, c \in Nat \X Nat : Sooner(a, b) /\ Sooner(b, c) => Sooner(a, c)
    BY <2>1, <2>2
  <2>5. \A a, b \in Nat \X Nat : a # b => Sooner(a, b) \/ Sooner(b, a)
    <3>. SUFFICES ASSUME NEW a \in Nat \X Nat, NEW b \in Nat \X Nat, ~Sooner(a, b), ~Sooner(b, a)
                  PROVE  a = b
      OBVIOUS
    <3>1. a[1] = b[1] /\ a[2] = b[2]
      BY <2>1, <2>2
    <3>. QED  BY <2>1, <3>1
  <2>6. \A a \in Nat \X Nat : ~Sooner(a, a)
    BY <2>1, <2>2
  <2>. QED  BY <1>1, <2>3, <2>4, <2>5, <2>6 DEF SortKeys
<1>2. CASE of # None
  <2>1. \A a \in SortKeys(of) : a = <<a[1]>> /\ a[1] \in Nat /\ Len(a) = 1 /\ a \in Seq(Nat)
    BY <1>2 DEF SortKeys
  <2>2. \A a, b \in SortKeys(of) : Sooner(a, b) <=> a[1] > b[1]
    BY <2>1 DEF Sooner
  <2>. QED  BY <2>1, <2>2
<1>. QED  BY <1>1, <1>2

Sooners(S, i) == {j \in S : Sooner(j, i)}

LEMMA LeastNat ==
  ASSUME NEW S \in SUBSET Nat, S # {}
  PROVE  \E m \in S : \A n \in S : m <= n
<1>1. IsWellFoundedOn(OpToRel(<, Nat), Nat)
  BY NatLessThanWellFounded, Zenon
<1>2. PICK m \in S : \A n \in S : ~(<<n, m>> \in OpToRel(<, Nat))
  BY <1>1, WFMin, Zenon
<1>3. \A n \in S : ~(n < m)
  BY <1>2 DEF OpToRel
<1>. QED  BY <1>3

\* The sooner an item comes, the fewer come before it.
LEMMA Ranks ==
  ASSUME NEW of, NEW S \in SUBSET SortKeys(of), IsFiniteSet(S)
  PROVE  /\ \A i \in S : Cardinality(Sooners(S, i)) \in Nat
         /\ \A i, j \in S : Sooner(i, j) => Cardinality(Sooners(S, i)) < Cardinality(Sooners(S, j))
<1>1. \A i \in S : Sooners(S, i) \subseteq S /\ IsFiniteSet(Sooners(S, i))
  BY FS_Subset DEF Sooners
<1>2. \A i \in S : Cardinality(Sooners(S, i)) \in Nat
  BY <1>1, FS_CardinalityType
<1>3. ASSUME NEW i \in S, NEW j \in S, Sooner(i, j)
      PROVE  Cardinality(Sooners(S, i)) < Cardinality(Sooners(S, j))
  <2>1. Sooners(S, i) \subseteq Sooners(S, j)
    BY <1>3, Order DEF Sooners
  <2>2. i \in Sooners(S, j) /\ i \notin Sooners(S, i)
    BY <1>3, Order DEF Sooners
  <2>3. /\ Cardinality(Sooners(S, i)) <= Cardinality(Sooners(S, j))
        /\ Cardinality(Sooners(S, i)) # Cardinality(Sooners(S, j))
    BY <1>1, <2>1, <2>2, FS_Subset
  <2>. QED  BY <1>2, <2>3
<1>. QED  BY <1>2, <1>3

\* A non-empty set of items has a first and a last one.
LEMMA Ends ==
  ASSUME NEW of, NEW S \in SUBSET SortKeys(of), IsFiniteSet(S), NEW T \in SUBSET S, T # {}
  PROVE  /\ \E i \in T : \A j \in T : ~Sooner(j, i)
         /\ \E i \in T : \A j \in T : ~Sooner(i, j)
<1>. DEFINE rank(i) == Cardinality(Sooners(S, i))
<1>1. \A i \in S : rank(i) \in Nat /\ rank(i) <= Cardinality(S)
  <2>1. \A i \in S : Sooners(S, i) \subseteq S
    BY DEF Sooners
  <2>. QED  BY <2>1, FS_Subset, FS_CardinalityType
<1>2. \A i, j \in S : Sooner(i, j) => rank(i) < rank(j)
  BY Ranks
<1>3. Cardinality(S) \in Nat
  BY FS_CardinalityType
<1>. HIDE DEF rank
<1>4. \E i \in T : \A j \in T : ~Sooner(j, i)
  <2>1. {rank(i) : i \in T} \in SUBSET Nat /\ {rank(i) : i \in T} # {}
    BY <1>1
  <2>2. PICK m \in {rank(i) : i \in T} : \A n \in {rank(i) : i \in T} : m <= n
    BY <2>1, LeastNat
  <2>3. PICK i \in T : m = rank(i)
    BY <2>2
  <2>4. \A j \in T : rank(i) <= rank(j) /\ rank(i) \in Nat /\ rank(j) \in Nat
    BY <1>1, <2>2, <2>3
  <2>. QED  BY <1>2, <2>4
<1>5. \E i \in T : \A j \in T : ~Sooner(i, j)
  <2>. DEFINE over(i) == Cardinality(S) - rank(i)
  <2>1. {over(i) : i \in T} \in SUBSET Nat /\ {over(i) : i \in T} # {}
    BY <1>1, <1>3
  <2>2. PICK m \in {over(i) : i \in T} : \A n \in {over(i) : i \in T} : m <= n
    BY <2>1, LeastNat
  <2>3. PICK i \in T : m = over(i)
    BY <2>2
  <2>4. \A j \in T : over(i) <= over(j) /\ rank(i) \in Nat /\ rank(j) \in Nat
    BY <1>1, <2>2, <2>3
  <2>. QED  BY <1>2, <1>3, <2>4
<1>. QED  BY <1>4, <1>5

\* What a page leaves out comes after all of it; a page that is not all there is has a
\* last item, and the one item more that is asked for tells which it is.
LEMMA PageFacts ==
  ASSUME NEW of, NEW S \in SUBSET SortKeys(of), IsFiniteSet(S)
  PROVE  LET page == FirstItems(S, Limit)  more == FirstItems(S, Limit + 1) # page IN
         /\ page \subseteq S
         /\ \A i \in S \ page : \A p \in page : Sooner(p, i)
         /\ more => \E p \in page : \A j \in page : ~Sooner(p, j)
         /\ ~more => page = S
<1>. DEFINE rank(i) == Cardinality(Sooners(S, i))  page == FirstItems(S, Limit)
            wider == FirstItems(S, Limit + 1)
<1>0. Limit \in Nat /\ Limit > 0
  BY LimitAssumption DEF LimitAssumption
<1>1. \A i \in S : rank(i) \in Nat
  BY Ranks
<1>2. \A i, j \in S : Sooner(i, j) => rank(i) < rank(j)
  BY Ranks
<1>3. page = {i \in S : rank(i) < Limit} /\ wider = {i \in S : rank(i) < Limit + 1}
  BY DEF FirstItems, Sooners
<1>. HIDE DEF rank, page, wider
<1>4. page \in SUBSET S
  BY <1>3
<1>5. ASSUME NEW i \in S \ page, NEW p \in page PROVE Sooner(p, i)
  <2>1. rank(p) < Limit /\ ~(rank(i) < Limit) /\ p \in S /\ i \in S /\ p # i
    BY <1>3, <1>5
  <2>2. ~Sooner(i, p)
    BY <1>0, <1>1, <1>2, <2>1
  <2>. QED  BY <2>1, <2>2, Order
<1>6. S # {} => page # {}
  <2>. SUFFICES ASSUME S # {} PROVE page # {}
    OBVIOUS
  <2>1. PICK i \in S : \A j \in S : ~Sooner(j, i)
    BY Ends
  <2>2. rank(i) = 0
    BY <2>1, FS_EmptySet DEF rank, Sooners
  <2>. QED  BY <1>0, <1>3, <2>2
<1>7. ASSUME wider # page PROVE \E p \in page : \A j \in page : ~Sooner(p, j)
  <2>1. page # {}
    BY <1>3, <1>6, <1>7
  <2>. QED  BY <1>4, <2>1, Ends
<1>8. ASSUME wider = page PROVE page = S
  <2>. SUFFICES ASSUME S \ page # {} PROVE FALSE
    BY <1>4
  <2>1. PICK m \in S \ page : \A j \in S \ page : ~Sooner(j, m)
    BY Ends
  <2>2. Sooners(S, m) = page
    BY <1>4, <1>5, <2>1 DEF Sooners
  <2>3. page # {}
    BY <1>6
  <2>4. PICK l \in page : \A j \in page : ~Sooner(l, j)
    BY <1>4, <2>3, Ends
  <2>5. page \subseteq Sooners(S, l) \cup {l}
    BY <1>4, <2>4, Order DEF Sooners
  <2>6. IsFiniteSet(Sooners(S, l)) /\ l \notin Sooners(S, l)
    BY <1>4, FS_Subset, Order DEF Sooners
  <2>7. /\ IsFiniteSet(Sooners(S, l) \cup {l})
        /\ Cardinality(Sooners(S, l) \cup {l}) = rank(l) + 1
    BY <2>6, FS_AddElement DEF rank
  <2>8. Cardinality(page) <= rank(l) + 1
    BY <2>5, <2>7, FS_Subset
  <2>9. rank(m) <= rank(l) + 1
    BY <2>2, <2>8 DEF rank
  <2>10. rank(l) < Limit /\ rank(l) \in Nat /\ rank(m) \in Nat
    BY <1>1, <1>3, <2>4
  <2>11. m \in wider
    BY <1>0, <1>3, <2>9, <2>10
  <2>. QED  BY <1>8, <2>11
<1>. QED  BY <1>4, <1>5, <1>7, <1>8 DEF page, wider

------------------------------------------------------------------------------
(* A reader.  The cursor parts what it has seen from what it has not: nothing *)
(* that was listed comes after it, and nobody who stays comes before it       *)
(* without having been listed.                                                *)

Page(p) == reader.items[p]
Seen(i) == \E p \in DOMAIN reader.items : i \in Page(p)

Behind ==
  IF reader.cursor = None THEN reader.items = << >>
  ELSE /\ reader.cursor \in SortKeys(reader.of)
       /\ \A p \in DOMAIN reader.items : \A i \in Page(p) :
            i = reader.cursor \/ Sooner(i, reader.cursor)
       /\ \A s \in reader.stable : Sooner(reader.cursor, s) \/ Seen(s)

Reads ==
  /\ reader = [pc |-> reader.pc, of |-> reader.of, cursor |-> reader.cursor,
               items |-> reader.items, stable |-> reader.stable]
  /\ reader.of \in {None} \cup Id /\ reader.pc \in {"idle", "reading", "done"}
  /\ reader.items \in Seq(SUBSET SortKeys(reader.of))
  /\ \A p, q \in DOMAIN reader.items : p # q => Page(p) \cap Page(q) = {}
  /\ reader.stable \subseteq Listed(reader.of)
  /\ reader.pc = "reading" => Behind
  /\ reader.pc = "done" => \A s \in reader.stable : Seen(s)

ReadInv == DirInv /\ DOMAIN pay \subseteq Id /\ Reads

LEMMA InitRead == Init /\ Anchored => ReadInv
BY InitDir DEF Init, Unread, ReadInv, Reads, Behind, Seen, Page, Listed

LEMMA Sorted ==
  ASSUME DirInv, NEW of \in {None} \cup Id
  PROVE  Listed(of) \subseteq SortKeys(of) /\ IsFiniteSet(Listed(of))
<1>0. None \notin Id /\ Id \subseteq Nat
  BY IdAssumption DEF IdAssumption
<1>1. CASE of = None
  <2>. DEFINE T == {<<staff[e].name, e>> : e \in DOMAIN staff}
              f == [e \in DOMAIN staff |-> <<staff[e].name, e>>]
  <2>1. Listed(of) = T
    BY <1>1 DEF Listed
  <2>2. f \in Surjection(DOMAIN staff, T)
    BY DEF Surjection
  <2>3. IsFiniteSet(T)
    BY <2>2, FS_Surjection DEF DirInv, Rows
  <2>4. T \subseteq Nat \X Nat
    <3>1. \A e \in DOMAIN staff : staff[e].name \in Nat /\ e \in Nat
      BY <1>0 DEF DirInv, Rows
    <3>. QED  BY <3>1
  <2>. QED  BY <1>1, <2>1, <2>3, <2>4 DEF SortKeys
<1>2. CASE of \in Id
  <2>. DEFINE T == {<<x.version>> : x \in Of(of)}  f == [x \in Of(of) |-> <<x.version>>]
  <2>0. of # None /\ Series(of)
    BY <1>0, <1>2 DEF DirInv, Inv
  <2>1. Listed(of) = T
    BY <2>0 DEF Listed, Of
  <2>2. f \in Surjection(Of(of), T)
    BY DEF Surjection
  <2>3. IsFiniteSet(T)
    BY <2>0, <2>2, FS_Surjection DEF Series
  <2>4. \A x \in Of(of) : x.version \in Nat
    <3>1. \A x \in Of(of) : x.version \in {y.version : y \in Of(of)}
      OBVIOUS
    <3>2. {y.version : y \in Of(of)} = 1 .. Version(of) /\ Version(of) \in Nat
      BY <2>0 DEF Series
    <3>3. 1 .. Version(of) \subseteq Nat
      BY <3>2
    <3>. QED  BY <3>1, <3>2, <3>3
  <2>5. T \subseteq {<<v>> : v \in Nat}
    BY <2>4
  <2>. QED  BY <2>0, <2>1, <2>3, <2>5 DEF SortKeys
<1>. QED  BY <1>1, <1>2

\* The directory and the histories change under the reader: some of those who were
\* there are no longer, the others still are.
LEMMA Changed ==
  ASSUME ReadInv, DirInv', DOMAIN pay' \subseteq Id, NEW T \in SUBSET reader.stable,
         reader' = [reader EXCEPT !.stable = T], T \subseteq Listed(reader.of)'
  PROVE  ReadInv'
<1>0. Reads
  BY DEF ReadInv
<1>1. /\ reader'.pc = reader.pc /\ reader'.of = reader.of /\ reader'.cursor = reader.cursor
      /\ reader'.items = reader.items /\ reader'.stable = T
      /\ reader' = [pc |-> reader'.pc, of |-> reader'.of, cursor |-> reader'.cursor,
                    items |-> reader'.items, stable |-> reader'.stable]
  BY <1>0 DEF Reads
<1>2. \A p : Page(p)' = Page(p)
  BY <1>1 DEF Page
<1>3. \A i : Seen(i) <=> Seen(i)'
  BY <1>1 DEF Seen, Page
<1>4. Behind => Behind'
  BY <1>1, <1>2, <1>3 DEF Behind
<1>5. reader'.stable \subseteq Listed(reader.of)'
  BY <1>1 DEF Listed
<1>. QED  BY <1>0, <1>1, <1>2, <1>3, <1>4, <1>5 DEF ReadInv, Reads

\* Nothing that is listed goes.
LEMMA Kept ==
  ASSUME ReadInv, DirInv', DOMAIN pay' \subseteq Id, UNCHANGED reader,
         history \subseteq history', DOMAIN staff \subseteq DOMAIN staff',
         \A e \in DOMAIN staff : staff'[e].name = staff[e].name
  PROVE  ReadInv'
<1>1. Listed(reader.of) \subseteq Listed(reader.of)'
  BY DEF Listed
<1>2. reader' = [reader EXCEPT !.stable = reader.stable]
  BY DEF ReadInv, Reads
<1>3. reader.stable \subseteq Listed(reader.of)'
  BY <1>1 DEF ReadInv, Reads
<1>. QED  BY <1>2, <1>3, Changed

LEMMA HandlerReads ==
  ASSUME ReadInv, DirInv', NEW h \in Handler, Ask(h) \/ Serve(h) \/ Crash(h)
  PROVE  ReadInv'
<1>1. CASE WriteEmployee(h)
  <2>. DEFINE e == handler[h].id  old == staff[e]  new == Merged(old, handler[h].form)
              T == IF new.name = old.name THEN reader.stable
                   ELSE reader.stable \ {<<old.name, e>>}
  <2>1. UNCHANGED <<pay, history>>
    BY <1>1 DEF WriteEmployee
  <2>2. CASE UNCHANGED <<staff, reader>>
    BY <2>1, <2>2, Kept DEF ReadInv
  <2>3. CASE staff' = Put(staff, e, new) /\ reader' = [reader EXCEPT !.stable = T] /\ e \in DOMAIN staff
    <3>1. /\ DOMAIN staff' = DOMAIN staff /\ staff'[e] = new
          /\ \A x \in DOMAIN staff \ {e} : staff'[x] = staff[x]
      BY <2>3 DEF Put
    <3>o. reader'.of = reader.of
      BY <2>3 DEF ReadInv, Reads
    <3>2. T \in SUBSET reader.stable /\ reader.stable \subseteq Listed(reader.of)
      BY DEF ReadInv, Reads
    <3>3. T \subseteq Listed(reader.of)'
      <4>1. CASE reader.of = None
        <5>1. ASSUME NEW i \in T PROVE \E x \in DOMAIN staff' : i = <<staff'[x].name, x>>
          <6>1. PICK x \in DOMAIN staff : i = <<staff[x].name, x>>
            BY <3>2, <4>1 DEF Listed
          <6>2. x # e \/ new.name = old.name
            BY <6>1
          <6>3. staff'[x].name = staff[x].name
            BY <3>1, <6>2
          <6>. QED  BY <3>1, <6>1, <6>3
        <5>. QED  BY <3>o, <4>1, <5>1 DEF Listed
      <4>2. CASE reader.of # None
        <5>1. Listed(reader.of)' = Listed(reader.of)
          BY <2>1, <2>3, <4>2 DEF Listed, ReadInv, Reads
        <5>. QED  BY <3>2, <5>1
      <4>. QED  BY <4>1, <4>2
    <3>. QED  BY <2>1, <2>3, <3>2, <3>3, Changed DEF ReadInv
  <2>. QED  BY <1>1, <2>2, <2>3 DEF WriteEmployee
<1>2. CASE DeleteEmployee(h)
  <2>. DEFINE e == handler[h].id  gone == e \in DOMAIN staff /\ ~Evidence(e)
              T == IF gone THEN reader.stable \ {<<staff[e].name, e>>} ELSE reader.stable
  <2>1. /\ UNCHANGED <<pay, history>> /\ reader' = [reader EXCEPT !.stable = T]
        /\ staff' = IF gone THEN Drop(staff, e) ELSE staff
    BY <1>2 DEF DeleteEmployee
  <2>. HIDE DEF gone
  <2>o. reader'.of = reader.of
    BY <2>1 DEF ReadInv, Reads
  <2>2. T \in SUBSET reader.stable /\ reader.stable \subseteq Listed(reader.of)
    BY DEF ReadInv, Reads
  <2>3. T \subseteq Listed(reader.of)'
    <3>1. CASE reader.of = None
      <4>1. ASSUME NEW i \in T PROVE \E x \in DOMAIN staff' : i = <<staff'[x].name, x>>
        <5>1. PICK x \in DOMAIN staff : i = <<staff[x].name, x>>
          BY <2>2, <3>1 DEF Listed
        <5>2. ~(gone /\ x = e)
          BY <5>1
        <5>3. x \in DOMAIN staff' /\ staff'[x] = staff[x]
          BY <2>1, <5>2 DEF Drop
        <5>. QED  BY <5>1, <5>3
      <4>. QED  BY <2>o, <3>1, <4>1 DEF Listed
    <3>2. CASE reader.of # None
      <4>1. Listed(reader.of)' = Listed(reader.of)
        BY <2>1, <3>2 DEF Listed, ReadInv, Reads
      <4>. QED  BY <2>2, <4>1
    <3>. QED  BY <3>1, <3>2
  <2>. QED  BY <2>1, <2>2, <2>3, Changed DEF ReadInv
<1>3. CASE CommitPay(h)
  <2>1. DOMAIN pay' \subseteq Id
    BY <1>3, CommitPayShape DEF ReadInv, DirInv
  <2>2. UNCHANGED <<reader, staff>> /\ history \subseteq history'
    BY <1>3 DEF CommitPay
  <2>. QED  BY <2>1, <2>2, Kept
<1>4. CASE CommitEmployee(h)
  <2>1. UNCHANGED <<reader, pay, history>> /\ staff' = Put(staff, handler[h].id, handler[h].form)
    BY <1>4 DEF CommitEmployee
  <2>2. handler[h].id \notin DOMAIN staff
    BY <1>4 DEF CommitEmployee, At, ReadInv, DirInv, Hiring, Rows
  <2>3. DOMAIN staff \subseteq DOMAIN staff' /\ \A e \in DOMAIN staff : staff'[e] = staff[e]
    BY <2>1, <2>2 DEF Put
  <2>. QED  BY <2>1, <2>3, Kept DEF ReadInv
<1>5. CASE UNCHANGED <<reader, staff, pay, history>>
  BY <1>5, Kept DEF ReadInv
<1>. QED
  BY <1>1, <1>2, <1>3, <1>4, <1>5 DEF Ask, Serve, Crash, AskDepartment, AskEmployee, AskRaise,
     CheckDepartment, OpenDepartment, EditDepartment, CloseDepartment, FindKey, Reserve,
     ReplayCommitted, FindDepartment, InsertEmployee, ReadEmployee, CheckEmployee, FindEmployee,
     GuardEvidence, FindPaid, ReadPrevious, InsertPay, UpdatePay, tables

LEMMA StartReads == ASSUME ReadInv, DirInv', StartReading PROVE ReadInv'
<1>1. PICK of \in {None} \cup DOMAIN pay :
        reader' = [Unread EXCEPT !.pc = "reading", !.of = of, !.stable = Listed(of)]
  BY DEF StartReading
<1>2. reader' = [pc |-> "reading", of |-> of, cursor |-> None, items |-> << >>,
                 stable |-> Listed(of)]
  BY <1>1 DEF Unread
<1>3. /\ reader'.pc = "reading" /\ reader'.of = of /\ reader'.cursor = None
      /\ reader'.items = << >> /\ reader'.stable = Listed(of)
  BY <1>2
<1>4. UNCHANGED <<staff, pay, history>> /\ of \in {None} \cup Id
  BY DEF StartReading, tables, ReadInv
<1>5. Listed(reader.of)' = Listed(of)
  BY <1>3, <1>4 DEF Listed
<1>6. Behind'
  BY <1>3 DEF Behind
<1>7. Reads'
  BY <1>2, <1>3, <1>4, <1>5, <1>6 DEF Reads, Page
<1>. QED  BY <1>4, <1>7 DEF ReadInv

LEMMA PageReads == ASSUME ReadInv, DirInv', ReadPage PROVE ReadInv'
<1>. DEFINE of == reader.of  cursor == reader.cursor
            rest == After(Listed(of), cursor)
            page == FirstItems(rest, Limit)
            last == CHOOSE i \in page : \A j \in page : ~Sooner(i, j)
            more == FirstItems(rest, Limit + 1) # page
            n == Len(reader.items) + 1
<1>0. /\ reader.pc = "reading" /\ UNCHANGED <<staff, pay, history>>
      /\ Reads /\ Behind /\ of \in {None} \cup Id
  BY DEF ReadPage, tables, ReadInv, Reads
<1>1. reader' = [pc |-> IF more THEN reader.pc ELSE "done", of |-> of,
                 cursor |-> IF more THEN last ELSE None,
                 items |-> Append(reader.items, page), stable |-> reader.stable]
  BY <1>0 DEF ReadPage, Reads
<1>2. Listed(of) \subseteq SortKeys(of) /\ IsFiniteSet(Listed(of))
  BY <1>0, Sorted DEF ReadInv
<1>3. rest \in SUBSET Listed(of) /\ (cursor # None => rest = {i \in Listed(of) : Sooner(cursor, i)})
        /\ (cursor = None => rest = Listed(of))
  BY DEF After
<1>. HIDE DEF rest
<1>4. rest \in SUBSET SortKeys(of) /\ IsFiniteSet(rest)
  BY <1>2, <1>3, FS_Subset
<1>5. /\ page \subseteq rest
      /\ \A i \in rest \ page : \A p \in page : Sooner(p, i)
      /\ more => \E p \in page : \A j \in page : ~Sooner(p, j)
      /\ ~more => page = rest
  BY <1>4, PageFacts
<1>6. more => last \in page /\ \A j \in page : ~Sooner(last, j)
  BY <1>5
<1>. HIDE DEF page, last, more
<1>7. /\ reader'.pc = IF more THEN "reading" ELSE "done"
      /\ reader'.of = of /\ reader'.cursor = IF more THEN last ELSE None
      /\ reader'.items = Append(reader.items, page) /\ reader'.stable = reader.stable
  BY <1>0, <1>1
<1>8. /\ n \in Nat /\ n \in 1 .. n /\ 1 .. n - 1 \subseteq 1 .. n
      /\ reader'.items \in Seq(SUBSET SortKeys(of)) /\ DOMAIN reader.items = 1 .. n - 1
      /\ DOMAIN reader'.items = 1 .. n /\ reader'.items[n] = page
      /\ \A p \in 1 .. n - 1 : reader'.items[p] = reader.items[p]
  BY <1>0, <1>4, <1>5, <1>7 DEF Reads
<1>. HIDE DEF n
<1>9. \A p \in 1 .. n - 1 : reader.items[p] \subseteq SortKeys(of)
  BY <1>0, <1>8 DEF Reads
\* The new page comes after everything listed before.
<1>10. ASSUME NEW p \in 1 .. n - 1, NEW i \in reader.items[p]
       PROVE  cursor # None /\ cursor \in SortKeys(of) /\ (i = cursor \/ Sooner(i, cursor))
  <2>1. cursor # None
    BY <1>0, <1>8, <1>10 DEF Behind
  <2>. QED  BY <1>0, <1>8, <1>10, <2>1 DEF Behind, Page
<1>11. ASSUME NEW p \in 1 .. n - 1, NEW i \in reader.items[p], NEW j \in page PROVE Sooner(i, j)
  <2>1. cursor # None /\ cursor \in SortKeys(of) /\ (i = cursor \/ Sooner(i, cursor))
    BY <1>10, <1>11
  <2>2. j \in rest
    BY <1>5, <1>11
  <2>3. Sooner(cursor, j) /\ j \in SortKeys(of) /\ i \in SortKeys(of)
    BY <1>3, <1>4, <1>9, <1>11, <2>1, <2>2
  <2>. QED  BY <2>1, <2>3, Order
<1>12. \A p, q \in 1 .. n : p # q => reader'.items[p] \cap reader'.items[q] = {}
  <2>1. \A p \in 1 .. n - 1 : reader.items[p] \cap page = {}
    <3>1. \A j \in page : ~Sooner(j, j)
      BY <1>4, <1>5, Order
    <3>. QED  BY <1>11, <3>1
  <2>2. \A p, q \in 1 .. n - 1 : p # q => reader.items[p] \cap reader.items[q] = {}
    BY <1>0, <1>8 DEF Reads, Page
  <2>3. \A p \in 1 .. n : p = n \/ p \in 1 .. n - 1
    BY <1>8
  <2>. QED  BY <1>8, <2>1, <2>2, <2>3
\* Whoever stays has been listed, is on this page, or comes after it.
<1>13. ASSUME NEW s \in reader.stable
       PROVE  (\E p \in 1 .. n : s \in reader'.items[p]) \/ s \in rest \ page
  <2>1. s \in Listed(of)
    BY <1>0 DEF Reads
  <2>2. s \in rest \/ \E p \in 1 .. n - 1 : s \in reader.items[p]
    BY <1>0, <1>3, <1>8, <2>1 DEF Behind, Seen, Page
  <2>. QED  BY <1>8, <2>2
<1>14. CASE more
  <2>1. last \in page /\ last \in SortKeys(of) /\ last # None
    <3>1. last \in page /\ last \in SortKeys(of)
      BY <1>4, <1>5, <1>6, <1>14
    <3>. QED  BY <3>1, Order, IdAssumption DEF IdAssumption
  <2>2. ASSUME NEW p \in 1 .. n, NEW i \in reader'.items[p] PROVE i = last \/ Sooner(i, last)
    <3>1. CASE p = n
      <4>1. i \in page /\ i \in SortKeys(of) /\ ~Sooner(last, i)
        BY <1>4, <1>5, <1>6, <1>8, <1>14, <2>2, <3>1
      <4>. QED  BY <2>1, <4>1, Order
    <3>2. CASE p \in 1 .. n - 1
      BY <1>8, <1>11, <2>1, <2>2, <3>2
    <3>. QED  BY <1>8, <3>1, <3>2
  <2>3. \A s \in reader.stable : Sooner(last, s) \/ \E p \in 1 .. n : s \in reader'.items[p]
    BY <1>5, <1>13, <2>1
  <2>4. Behind'
    BY <1>7, <1>8, <1>14, <2>1, <2>2, <2>3 DEF Behind, Seen, Page
  <2>5. reader'.pc = "reading"
    BY <1>7, <1>14
  <2>. QED  BY <1>0, <1>1, <1>7, <1>8, <1>12, <2>4, <2>5 DEF ReadInv, Reads, Page, Listed
<1>15. CASE ~more
  <2>1. \A s \in reader.stable : \E p \in 1 .. n : s \in reader'.items[p]
    BY <1>5, <1>13, <1>15
  <2>2. reader'.pc = "done" /\ \A s \in reader'.stable : Seen(s)'
    BY <1>7, <1>8, <1>15, <2>1 DEF Seen, Page
  <2>. QED  BY <1>0, <1>1, <1>7, <1>8, <1>12, <2>2 DEF ReadInv, Reads, Page, Listed
<1>. QED  BY <1>14, <1>15

LEMMA Reading == Spec /\ Anchored => []ReadInv
<1>1. ReadInv /\ [Next]_vars => ReadInv'
  <2>. SUFFICES ASSUME ReadInv, [Next]_vars PROVE ReadInv'
    OBVIOUS
  <2>1. DirInv'
    BY NextDir DEF ReadInv
  <2>2. CASE UNCHANGED vars
    BY <2>1, <2>2, Kept DEF vars, tables, ReadInv
  <2>. QED  BY <2>1, <2>2, HandlerReads, StartReads, PageReads DEF Next
<1>. QED  BY <1>1, InitRead, PTL DEF Spec

\* Reading the directory or a history page by page lists nothing twice, and whoever
\* stays under the same name exactly once, whatever is hired, renamed and deleted between.
THEOREM PagesComplete == Spec /\ Anchored => []ListedOnce
<1>1. ReadInv => ListedOnce
  <2>. SUFFICES ASSUME Reads
                PROVE  /\ \A p, q \in DOMAIN reader.items :
                            p # q => reader.items[p] \cap reader.items[q] = {}
                       /\ reader.pc = "done" => \A i \in reader.stable :
                            Cardinality({p \in DOMAIN reader.items : i \in reader.items[p]}) = 1
    BY DEF ReadInv, ListedOnce
  <2>1. \A p, q \in DOMAIN reader.items : p # q => reader.items[p] \cap reader.items[q] = {}
    BY DEF Reads, Page
  <2>2. ASSUME reader.pc = "done", NEW i \in reader.stable
        PROVE  Cardinality({p \in DOMAIN reader.items : i \in reader.items[p]}) = 1
    <3>1. PICK p \in DOMAIN reader.items : i \in reader.items[p]
      BY <2>2 DEF Reads, Seen, Page
    <3>2. {q \in DOMAIN reader.items : i \in reader.items[q]} = {p}
      BY <2>1, <3>1
    <3>. QED  BY <3>2, FS_Singleton
  <2>. QED  BY <2>1, <2>2
<1>. QED  BY <1>1, Reading, PTL

================================================================================
