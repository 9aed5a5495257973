------------------------------ MODULE ExportLife ------------------------------
(* What an export promises to the user who asked for it, whatever queue,      *)
(* workers and retries are behind it: a log of chunks that only grows, in     *)
(* order and while it runs, is closed when nobody who was there throughout is *)
(* missing, and is then the file, for as long as there is one.                *)
EXTENDS Naturals, Sequences

CONSTANT Ids       \* the employees there can be, numbered in the order of the file

VARIABLES
  stage,    \* where the export is, as its user sees it
  log,      \* the chunks that count, in order
  file,     \* what a download returns, chunk by chunk
  due       \* who was asked for and has been there ever since

Listed(chunks) == UNION {chunks[p] : p \in DOMAIN chunks}

Init == stage = "none" /\ log = << >> /\ file = << >> /\ due = {}

\* Somebody asks for everybody there is.
Ask(people) ==
  /\ stage = "none" /\ stage' = "resting"
  /\ due' = people
  /\ UNCHANGED <<log, file>>

\* It runs, is paused, and runs again: nothing is lost in between.
Run == stage = "resting" /\ stage' = "running" /\ UNCHANGED <<log, file, due>>
Rest == stage = "running" /\ stage' = "resting" /\ UNCHANGED <<log, file, due>>

\* The next chunk has only employees that come after all others.
Seal(chunk) ==
  /\ stage = "running" /\ chunk # {}
  /\ \A d \in Listed(log), e \in chunk : d < e
  /\ log' = Append(log, chunk)
  /\ UNCHANGED <<stage, file, due>>

\* Nobody is missing: from here on it cannot be paused, cancelled or added to.
Close ==
  /\ stage = "running" /\ due \subseteq Listed(log)
  /\ stage' = "closing"
  /\ UNCHANGED <<log, file, due>>

\* The file is the log.
Deliver ==
  /\ stage = "closing" /\ stage' = "delivered"
  /\ file' = log /\ log' = << >>
  /\ UNCHANGED due

Expire ==
  /\ stage = "delivered" /\ stage' = "expired"
  /\ file' = << >>
  /\ UNCHANGED <<log, due>>

\* A cancelled export, running or not, and one that failed never get a file.
Cancel ==
  /\ stage = "running" /\ stage' = "cancelling"
  /\ log' = << >>
  /\ UNCHANGED <<file, due>>

End ==
  /\ stage \in {"resting", "running", "closing", "cancelling"} /\ stage' = "over"
  /\ log' = << >>
  /\ UNCHANGED <<file, due>>

\* Employees leave, at any time; a file that has them keeps them.
Depart == due' \in SUBSET due /\ UNCHANGED <<stage, log, file>>

Next ==
  \/ \E people \in SUBSET Ids : Ask(people) \/ Seal(people)
  \/ Run \/ Rest \/ Close \/ Deliver \/ Expire \/ Cancel \/ End \/ Depart

Spec == Init /\ [][Next]_<<stage, log, file, due>>
==============================================================================
