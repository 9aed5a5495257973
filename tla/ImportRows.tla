------------------------------ MODULE ImportRows ------------------------------
(* What the import worker computes from a file: which column is which, which  *)
(* rows are wrong, what is to be done with the others, and the departments    *)
(* they need.  The state machine around it is EmployeeImport.                 *)
(*                                                                            *)
(* A file is a header line and rows of cells.  Columns that no decision tells *)
(* apart (names, title, country, type, status, level, dates) are one, "rest". *)
EXTENDS Naturals, FiniteSets, Sequences

CONSTANTS
  Header,      \* header cells
  Canonical,   \* header -> the column the fixed names and aliases give it, or None
  Number,      \* employee numbers
  Mail,        \* work emails, in lower case
  Name,        \* department names, trimmed
  Normal,      \* department name -> normalizeDepartmentName of it
  Code,        \* department codes
  Generated,   \* department name -> departmentCodeFor of it
  Rest,        \* what the other columns can say
  Bad,         \* a cell that its column's rules refuse
  None         \* an empty cell, or no value

Column == {"number", "mail", "department", "rest", "code"}
Required == {"number", "department", "rest"}
Kind == {"CREATE", "UPDATE", "UNCHANGED"}

ASSUME CellAssumption ==
  /\ {Bad, None} \cap (Number \cup Mail \cup Name \cup Code \cup Rest) = {} /\ Bad # None
  /\ None \notin Column
ASSUME MapAssumption ==
  /\ Canonical \in [Header -> Column \cup {None}]
  /\ Normal \in [Name -> Name] /\ Generated \in [Name -> Code]

Least(S) == CHOOSE n \in S : \A m \in S : n <= m

------------------------------------------------------------------------------
(* Headers.  Fixed names win; what they leave open a model may answer.        *)

Open == {h \in Header : Canonical[h] = None}

\* resolveHeaders: ai is the answer of the model, None for a header it left out.
\* Without a model, or when it fails, every answer is None.
Resolve(headers, ai) ==
  [i \in DOMAIN headers |->
     IF Canonical[headers[i]] # None THEN Canonical[headers[i]] ELSE ai[headers[i]]]

\* failIfBadHeaders: an empty file, a missing column or one claimed twice.
BadHeaders(cols) ==
  \/ cols = << >>
  \/ \E c \in Required : \A i \in DOMAIN cols : cols[i] # c
  \/ \E i, j \in DOMAIN cols : i # j /\ cols[i] = cols[j] /\ cols[i] # None

\* The cell of a row under a column; short rows end in empty cells.
Cell(cells, cols, column) ==
  LET at == {i \in DOMAIN cols : cols[i] = column}
  IN  IF at = {} THEN None
      ELSE IF Least(at) \in DOMAIN cells THEN cells[Least(at)] ELSE None

\* A row as the worker reads it.
RowOf(cells, cols) == [c \in Column |-> Cell(cells, cols, c)]

Unread == {Bad, None}
RawRow == [number : Number \cup Unread, mail : Mail \cup Unread, department : Name \cup Unread,
           rest : Rest \cup Unread, code : Code \cup Unread]

------------------------------------------------------------------------------
(* Rows.  rows is the whole file as records; a batch is a set of row numbers; *)
(* staff is what the directory held when the batch was looked up.             *)

Malformed(r) ==
  \/ \E c \in Required : r[c] \in {None, Bad}
  \/ Bad \in {r.mail, r.code}

\* The same number or email further up in the file.
Repeated(rows, i) ==
  \E j \in 1 .. i - 1 :
    \/ rows[i].number # None /\ rows[j].number = rows[i].number
    \/ rows[i].mail # None /\ rows[j].mail = rows[i].mail

\* The email belongs to another employee of the directory.
Owned(staff, number, mail) ==
  mail # None /\ \E n \in DOMAIN staff : n # number /\ staff[n].mail = mail

RowErrors(rows, batch, staff) ==
  {i \in batch : \/ Malformed(rows[i]) \/ Repeated(rows, i)
                 \/ Owned(staff, rows[i].number, rows[i].mail)}

\* The department code of the first good row that gives one for the department.
SheetCode(rows, upTo, wrong, key) ==
  LET coded == {i \in (1 .. upTo) \ wrong :
                  rows[i].code # None /\ Normal[rows[i].department] = key}
  IN  IF coded = {} THEN None ELSE rows[Least(coded)].code

\* Rows without another error that give a department a second code.
CodeConflicts(rows, batch, wrong) ==
  {i \in batch \ wrong :
     /\ rows[i].code # None
     /\ SheetCode(rows, i, wrong, Normal[rows[i].department]) # rows[i].code}

\* The errors of a batch, wrong being those of the rows before it.
BatchErrors(rows, batch, staff, wrong) ==
  LET basic == RowErrors(rows, batch, staff)
  IN  basic \cup CodeConflicts(rows, batch, wrong \cup basic)

\* An employee as the row describes it; department is a name here.
Described(r) == [mail |-> r.mail, department |-> r.department, rest |-> r.rest]

KindOf(r, staff) ==
  IF r.number \notin DOMAIN staff THEN "CREATE"
  ELSE IF staff[r.number] = Described(r) THEN "UNCHANGED" ELSE "UPDATE"

\* NormalizedRow: what is staged of a good row.
Normalized(rows, i, staff) ==
  [row |-> i, kind |-> KindOf(rows[i], staff), number |-> rows[i].number,
   mail |-> rows[i].mail, department |-> rows[i].department, rest |-> rows[i].rest]

NormalizedRow == [row : Nat \ {0}, kind : Kind, number : Number, mail : Mail \cup {None},
                  department : Name, rest : Rest]

------------------------------------------------------------------------------
(* Departments.  One is [name, code]; a code is a base and how often it was   *)
(* tried, <<c, 0>> for the plain one and <<c, k + 1>> for the k-th suffix.    *)

Known(departments, key) == \E d \in departments : Normal[d.name] = key

\* Departments the good rows name and the directory did not have.
Missing(good, departments) ==
  {item.department : item \in {g \in good : ~Known(departments, Normal[g.department])}}

\* planDepartments: the sheet's code, or what the model proposes, or a default.
Plan(missing, codes, ai) ==
  [from \in missing |->
     CASE codes[Normal[from]] # None -> [name |-> from, code |-> codes[Normal[from]]]
       [] codes[Normal[from]] = None /\ ai[from] # None -> ai[from]
       [] OTHER -> [name |-> from, code |-> Generated[from]]]

\* readDepartmentPlan is keyed by the normalized name: spellings share an entry.
Planned(plan, from) == plan[CHOOSE x \in DOMAIN plan : Normal[x] = Normal[from]]

\* hasUnresolvedDepartments, at the time of the confirmation.
Unresolved(plan, departments) ==
  \E from \in DOMAIN plan : ~Known(departments, Normal[Planned(plan, from).name])

Suffixes == {0} \cup (2 .. 6)
Proposal == [name : Name, code : Code]
Department == [name : Name, code : Code \X Suffixes]
Employee == [mail : Mail \cup {None}, department : Name, rest : Rest]

\* The first code the unique index lets through, of the six that are tried.
FreeCodes(code, departments) ==
  {n \in Suffixes : \A d \in departments : d.code # <<code, n>>}

==============================================================================
