------------------------------ MODULE MCWorkforce ------------------------------
(* Small instances of Workforce for TLC.                                      *)
EXTENDS Workforce, TLC

CONSTANTS h1, h2, k1, k2, n1, n2, n3, m1, m2, a1, a2, d1, d2, d3, cEng, cOps, eng, ops, lab, cNew, k3

Employee(number, mail, name) ==
  [number |-> number, mail |-> mail, department |-> d1, name |-> name, hire |-> 2, end |-> None]
\* Two employees of one name.
TwoEmployees == 1 :> Employee(n1, m1, 1) @@ 3 :> Employee(n2, None, 1)
TwoDepartments == d1 :> [code |-> cEng, name |-> eng] @@ d2 :> [code |-> cOps, name |-> ops]

\* Two bodies that want the same number, one of them in the other department and with an
\* email that only the other attempts to hire it want.
NewEmployees == {Employee(n3, None, 1), [Employee(n3, m2, 1) EXCEPT !.department = d2]}
\* A move, either date, a name, and values that may be somebody else's.
SomePatches == {[department |-> d2], [hire |-> 3], [end |-> 2], [name |-> 2], [number |-> n3, mail |-> m1]}
\* A first salary twice, and a raise.
SomeRaises == {[amount |-> a1, expected |-> 0], [amount |-> a2, expected |-> 0],
               [amount |-> a1, expected |-> 1]}
\* A code and a name that are taken, apart, and new ones.
SomeForms == {[code |-> cOps, name |-> ops], [code |-> cNew, name |-> eng], [code |-> cNew, name |-> lab]}

Symmetry == Permutations(Handler) \cup Permutations(Key)

Busy == [l \in Limits |-> CASE l = "all" -> 4 [] l = "raises" -> 3 [] l = "employees" -> 2 [] OTHER -> 1]

==============================================================================
