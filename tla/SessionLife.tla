------------------------------ MODULE SessionLife ------------------------------
(* What the session store promises, whoever calls it: a session lives once,   *)
(* and a refresh secret opens it once.                                        *)
CONSTANT Request     \* session ids and refresh secrets are both fresh names

VARIABLES
  life,     \* session -> "unborn", "live" or "dead"
  current,  \* session -> the secret that can refresh it while it is live
  spent     \* secrets that were replaced, or died with their session

Live == {s \in Request : life[s] = "live"}
Unused(x) == x \notin spent /\ \A s \in Live : current[s] # x

Init ==
  /\ life = [s \in Request |-> "unborn"]
  /\ current = [s \in Request |-> s]
  /\ spent = {}

\* A new session starts with a secret of its own.
Open(s) ==
  /\ life[s] = "unborn" /\ Unused(s)
  /\ life' = [life EXCEPT ![s] = "live"]
  /\ current' = [current EXCEPT ![s] = s]
  /\ UNCHANGED spent

\* A refresh replaces the secret of a live session by one never seen before.
Rotate(s, x) ==
  /\ life[s] = "live" /\ Unused(x)
  /\ current' = [current EXCEPT ![s] = x]
  /\ spent' = spent \cup {current[s]}
  /\ UNCHANGED life

\* Sessions end together or alone, for good.
End(gone) ==
  /\ gone \subseteq Live
  /\ life' = [s \in Request |-> IF s \in gone THEN "dead" ELSE life[s]]
  /\ current' = [s \in Request |-> IF s \in gone THEN s ELSE current[s]]
  /\ spent' = spent \cup {current[s] : s \in gone}

Next ==
  \/ \E s \in Request : Open(s)
  \/ \E s, x \in Request : Rotate(s, x)
  \/ \E gone \in SUBSET Request : End(gone)

Spec == Init /\ [][Next]_<<life, current, spent>>
==============================================================================
