--------------------------- MODULE MCEmployeeImport ---------------------------
(* Small instances of EmployeeImport for TLC.                                 *)
EXTENDS EmployeeImport, TLC

CONSTANTS w1, w2, r1, r2,
          hNumber, hMail, hDept, hRest, hCode, hOdd,
          n1, n2, n3, m1, m2, eng, ops, dev, dev2, cEng, cOps, cDev, x, y

Symmetry == Permutations(Worker) \cup Permutations(Request)

Names == [h \in Header |-> CASE h = hNumber -> "number" [] h = hMail -> "mail"
                             [] h = hDept -> "department" [] h = hRest -> "rest"
                             [] h = hCode -> "code" [] OTHER -> None]
\* dev2 is another spelling of dev.
Spellings == [n \in Name |-> IF n = dev2 THEN dev ELSE n]
Codes == [n \in Name |-> CASE n = eng -> cEng [] n = ops -> cOps [] OTHER -> cDev]

Staff == n1 :> [mail |-> m1, department |-> eng, rest |-> x]
OneDepartment == {[name |-> eng, code |-> <<cEng, 0>>]}
MoveToEng == {[name |-> eng, code |-> cEng]}

\* An employee to update, and two to create, one in a department to create.
Columns == <<hNumber, hMail, hDept, hRest>>
Coded == Append(Columns, hCode)
File(headers, rows) == [headers |-> headers, rows |-> rows, broken |-> FALSE]
Good == File(Columns, << <<n1, m1, eng, y>>, <<n2, m2, eng, x>>, <<n3, None, ops, x>> >>)
OneFile == {Good}

\* A missing department spelled two ways; one whose code is taken, under a header the
\* names leave open; an email of another employee and a bad one; a number given twice
\* and a second code; no rows; a column given twice; and a file that cannot be read.
AllFiles ==
  {File(Columns, << <<n2, m2, dev, x>>, <<n1, None, dev2, x>> >>),
   File(<<hNumber, hMail, hOdd, hRest, hCode>>, << <<n1, m1, eng, x>>, <<n2, None, dev, x, cEng>> >>),
   File(Columns, << <<n2, m1, eng, x>>, <<n1, Bad, eng, x>> >>),
   File(Coded, << <<n2, m2, dev, x, cDev>>, <<n2, None, eng, x>>, <<n1, None, dev, x, cEng>> >>),
   File(Columns, << >>),
   File(<<hNumber, hNumber, hDept, hRest>>, << <<n2, n2, eng, x>> >>),
   [File(Columns, << >>) EXCEPT !.broken = TRUE]}

\* In every run "mishaps" bounds all that others and faults do, together.
NoFaults == [l \in Limits |-> 0]
Steered == [NoFaults EXCEPT !["requests"] = 4, !["errors"] = 1, !["replies"] = 1, !["crashes"] = 1,
                            !["churn"] = 1, !["expiry"] = 1, !["mishaps"] = 1]
Troubled == [NoFaults EXCEPT !["requests"] = 2, !["errors"] = 2, !["crashes"] = 1, !["churn"] = 2,
                             !["mishaps"] = 2]
\* As many errors as a job has attempts.
Exhausted == [NoFaults EXCEPT !["requests"] = 1, !["errors"] = 2, !["mishaps"] = 2]

==============================================================================
