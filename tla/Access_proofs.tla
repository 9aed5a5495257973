----------------------------- MODULE Access_proofs -----------------------------
(* Theorems about Access, for any number of handlers, users, organizations    *)
(* and tokens: what links, invitations, OAuth states and identities promise,  *)
(* that nobody suspended gets in, and that nobody waits in a circle.          *)
EXTENDS Access, TLAPS

------------------------------------------------------------------------------
(* The inductive invariant: the requests.                                     *)

\* The fields of a request, whatever is in them.
IsCall(c) ==
  c = [pc |-> c.pc, op |-> c.op, user |-> c.user, mail |-> c.mail, org |-> c.org,
       role |-> c.role, token |-> c.token, invitation |-> c.invitation, sub |-> c.sub,
       fresh |-> c.fresh, locks |-> c.locks, barred |-> c.barred]
Formed ==
  /\ handler = [h \in Handler |-> handler[h]]
  /\ \A h \in Handler : IsCall(handler[h])

\* No two transactions hold an invitation at the same time.
Apart ==
  \A g, h \in Handler : g # h =>
    \A s \in handler[g].locks \cap handler[h].locks : s[1] # "invitation"

\* The three ways to accept an invitation share their last steps; registration and
\* the founding of an organization share others.
Joining == {"accept", "join", "callback"}
Placed(c) ==
  /\ c.pc \in {"look", "user"} => c.op \in {"register", "join"}
  /\ c.pc \in {"slug", "create"} => c.op \in {"register", "found"}
  /\ c.pc \in {"match", "conflict"} => c.op = "accept"

\* Tokens a request works on are there.
Aimed(c) ==
  /\ c.op \in {"accept", "join", "revoke"} => c.invitation \in DOMAIN invitations
  /\ c.op \in {"start", "callback"} => c.invitation \in DOMAIN invitations \cup {None}
  /\ c.op = "callback"
       /\ c.pc \in {"claim", "organization", "addressee", "take", "enroll", "commit"}
       => c.invitation \in DOMAIN invitations
  /\ c.op = "verify" /\ c.pc \in {"read", "consume"} => c.token \in DOMAIN links

\* A callback that knows its user knows the identity that says so.
Linked(c) ==
  /\ c.op # "callback" => c.sub = None
  /\ c.op = "callback" => \E p \in Profiles : p[1] = c.sub /\ p[2] = c.mail
  /\ /\ c.op = "callback"
     /\ c.pc \in {"confirm", "memberships", "claim", "organization", "addressee", "take", "enroll",
                  "commit"}
     => c.sub \in DOMAIN identities /\ identities[c.sub] = c.user

\* A request that is going to accept an invitation is for its organization ...
Matched(c) ==
  /\ c.op \in Joining /\ c.pc \in {"match", "conflict", "organization", "addressee", "take",
                                   "user", "enroll", "commit"}
       => /\ c.org = invitations[c.invitation].org
          /\ c.role = invitations[c.invitation].role
  /\ c.op = "join" /\ c.pc = "look" =>
       /\ c.org = invitations[c.invitation].org /\ c.role = invitations[c.invitation].role

\* ... and from somebody it is for.
Addressed(c) ==
  /\ c.op = "join" /\ c.pc \in {"look", "organization", "take", "user", "enroll", "commit"}
       => c.user = invitations[c.invitation].mail
  /\ c.op = "accept" /\ c.pc \in {"conflict", "organization", "take", "enroll", "commit"}
       => c.user = invitations[c.invitation].mail
  /\ c.op = "callback" /\ c.pc \in {"take", "enroll", "commit"}
       => c.mail = invitations[c.invitation].mail

\* From the moment it takes the invitation it holds it, still pending, and before it
\* commits it has a membership or is about to insert one.
Taken(c) ==
  /\ c.op \in Joining /\ c.pc \in {"user", "enroll", "commit"} =>
       <<"invitation", c.invitation>> \in c.locks /\ Pending(c.invitation)
  /\ c.op \in Joining /\ c.pc = "commit" =>
       \/ <<"member", <<c.org, c.user>>>> \in c.locks
       \/ <<c.org, c.user>> \in DOMAIN members
  /\ c.op = "callback" /\ c.pc = "take" /\ ~c.fresh => <<c.org, c.user>> \in DOMAIN members

Sound(c) ==
  /\ Placed(c) /\ Aimed(c) /\ Linked(c)
  /\ Matched(c) /\ Addressed(c) /\ Taken(c)

------------------------------------------------------------------------------
(* The inductive invariant: the tables.                                       *)

IsLink(x) ==
  x = [mail |-> x.mail, consumed |-> x.consumed, revoked |-> x.revoked, expired |-> x.expired]
IsInvitation(x) ==
  x = [org |-> x.org, mail |-> x.mail, role |-> x.role, accepted |-> x.accepted,
       revoked |-> x.revoked, expired |-> x.expired]
Tables ==
  /\ \A t \in DOMAIN links : IsLink(links[t])
  /\ \A t \in DOMAIN invitations : IsInvitation(invitations[t])
  /\ \A t \in DOMAIN states : states[t] \in DOMAIN invitations \cup {None}

\* A token is of one kind.
Kinds ==
  /\ minted \subseteq Token
  /\ DOMAIN links \cup DOMAIN invitations \cup DOMAIN states \subseteq minted
  /\ DOMAIN links \cap DOMAIN invitations = {} /\ DOMAIN links \cap DOMAIN states = {}
  /\ DOMAIN invitations \cap DOMAIN states = {}

\* What was used says so.
Spent ==
  /\ uses \in [Token -> {0, 1}]
  /\ \A t \in Token : uses[t] = 1 =>
       /\ t \in minted \ DOMAIN states
       /\ t \in DOMAIN links => links[t].consumed
       /\ t \in DOMAIN invitations => invitations[t].accepted

\* Sessions opened for a subject belong to the user of its identity.
Signed ==
  \A a \in opened : a.sub # None => a.sub \in DOMAIN identities /\ identities[a.sub] = a.user

\* Whoever it was for is a member once an invitation is accepted.
IsMember(x) == x = [role |-> x.role, active |-> x.active, changed |-> x.changed]
Joined == AcceptedIsMember /\ \A k \in DOMAIN members : IsMember(members[k])

Store == Tables /\ Kinds /\ Spent /\ Signed /\ Joined

Inv == Formed /\ Apart /\ (\A h \in Handler : Sound(handler[h])) /\ Store

LEMMA InitInv == Init => Inv
<1>. SUFFICES ASSUME Init PROVE Inv
  OBVIOUS
<1>1. \A h \in Handler : handler[h] = Idle
  BY DEF Init
<1>2. Formed /\ Apart
  BY <1>1 DEF Init, Formed, Apart, IsCall, Idle
<1>3. \A h \in Handler : Sound(handler[h])
  BY <1>1 DEF Idle, Sound, Placed, Aimed, Linked, Matched, Addressed, Taken, Joining
<1>4. /\ DOMAIN links = {} /\ DOMAIN invitations = {} /\ DOMAIN states = {}
      /\ uses = [t \in Token |-> 0] /\ minted = {} /\ opened = {}
  BY DEF Init
<1>5. Tables /\ Kinds /\ Spent /\ Signed /\ AcceptedIsMember
  BY <1>4 DEF Tables, Kinds, Spent, Signed, AcceptedIsMember
<1>6. \A k \in DOMAIN members : IsMember(members[k])
  BY DEF Init, IsMember
<1>. QED  BY <1>2, <1>3, <1>5, <1>6 DEF Inv, Store, Joined

------------------------------------------------------------------------------
(* What a step of one request may do to the others and to the tables.         *)

\* Rows stay, and what a request relies on in them does not change.
Grows ==
  /\ DOMAIN links \subseteq DOMAIN links' /\ DOMAIN members \subseteq DOMAIN members'
  /\ \A s \in DOMAIN identities : s \in DOMAIN identities' /\ identities'[s] = identities[s]
  /\ \A i \in DOMAIN invitations :
       /\ i \in DOMAIN invitations'
       /\ invitations'[i].org = invitations[i].org /\ invitations'[i].mail = invitations[i].mail
       /\ invitations'[i].role = invitations[i].role
       /\ invitations[i].accepted => invitations'[i].accepted

\* An invitation somebody holds is as pending as before.
Spared(locks) ==
  \A i \in DOMAIN invitations : <<"invitation", i>> \in locks /\ Pending(i) => Pending(i)'
Spares(h) ==
  \A g \in Handler \ {h}, i \in DOMAIN invitations :
    <<"invitation", i>> \in handler[g].locks /\ Pending(i) => Pending(i)'

LEMMA SoundKept ==
  ASSUME NEW c, Sound(c), Grows, Spared(c.locks)
  PROVE  Sound(c)'
<1>1. Aimed(c)' /\ Placed(c)'
  BY DEF Sound, Aimed, Placed, Grows
<1>2. Linked(c)'
  BY DEF Sound, Linked, Grows
<1>3. c.op \in Joining /\ c.pc \in {"match", "conflict", "organization", "addressee", "take",
                                   "user", "enroll", "commit", "look"}
        => c.invitation \in DOMAIN invitations
  BY DEF Sound, Aimed, Joining, Placed
<1>4. Matched(c)' /\ Addressed(c)'
  <2>1. Matched(c)'
    BY <1>3 DEF Sound, Matched, Grows, Joining
  <2>2. Addressed(c)'
    BY <1>3 DEF Sound, Addressed, Grows, Joining
  <2>. QED  BY <2>1, <2>2
<1>5. Taken(c)'
  BY <1>3 DEF Sound, Taken, Spared, Grows
<1>. QED  BY <1>1, <1>2, <1>4, <1>5 DEF Sound

\* What a request waits for, another transaction holds.
Blocked(h, resource) == \E g \in Handler \ {h} : resource \in handler[g].locks

LEMMA Unwaiting ==
  ASSUME NEW h \in Handler, ~Waits(h)
  PROVE  LET me == handler[h] IN
         /\ me.pc \in {"user", "newuser"} => ~Blocked(h, <<"mail", me.user>>)
         /\ me.pc = "create" => ~Blocked(h, <<"slug", me.org>>)
         /\ me.pc = "take" \/ (me.op = "revoke" /\ me.pc = "write")
              => ~Blocked(h, <<"invitation", me.invitation>>)
         /\ me.pc = "enroll" => ~Blocked(h, <<"member", <<me.org, me.user>>>>)
<1>1. \A s \in Wants(handler[h]) : ~Blocked(h, s)
  BY DEF Waits, WaitsFor, Blocked
<1>. QED  BY <1>1 DEF Wants

\* What is free for a step of h to hold.
Free(h, locks) ==
  \A s \in locks : s[1] = "invitation" => \A g \in Handler \ {h} : s \notin handler[g].locks

LEMMA StepForms ==
  ASSUME Formed, NEW h \in Handler, NEW c, IsCall(c), Becomes(h, c)
  PROVE  /\ Formed' /\ handler'[h] = c
         /\ \A g \in Handler : g # h => handler'[g] = handler[g]
<1>1. handler' = [g \in Handler |-> IF g = h THEN c ELSE handler[g]]
  BY DEF Becomes, Formed
<1>2. handler'[h] = c /\ \A g \in Handler : g # h => handler'[g] = handler[g]
  BY <1>1
<1>3. handler' = [g \in Handler |-> handler'[g]]
  BY <1>1
<1>4. \A g \in Handler : IsCall(handler[g])'
  BY <1>2 DEF Formed, IsCall
<1>. QED  BY <1>2, <1>3, <1>4 DEF Formed

\* A step by which h becomes c.
LEMMA Step ==
  ASSUME Inv, NEW h \in Handler, NEW c, IsCall(c), Becomes(h, c), Sound(c)',
         Free(h, c.locks \ handler[h].locks), Grows,
         Spares(h), Store'
  PROVE  Inv'
<1>1. /\ Formed' /\ handler'[h] = c
      /\ \A g \in Handler : g # h => handler'[g] = handler[g]
  BY StepForms DEF Inv
<1>2. Free(h, c.locks)
  BY DEF Free, Inv, Apart
<1>3. Apart'
  BY <1>1, <1>2 DEF Inv, Apart, Free
<1>4. ASSUME NEW g \in Handler PROVE Sound(handler[g])'
  <2>. DEFINE d == handler'[g]
  <2>1. \A x : x = d => Sound(x)'
    <3>1. CASE g = h
      BY <1>1, <3>1
    <3>2. CASE g # h
      <4>. SUFFICES ASSUME NEW x, x = d PROVE Sound(x)'
        OBVIOUS
      <4>1. x = handler[g]
        BY <1>1, <3>2
      <4>2. Sound(x) /\ Spared(x.locks)
        BY <3>2, <4>1 DEF Inv, Spared, Spares
      <4>. QED  BY <4>2, SoundKept
    <3>. QED  BY <3>1, <3>2
  <2>. QED  BY <2>1 DEF Sound, Placed, Aimed, Linked, Matched, Addressed, Taken, Pending
<1>. QED  BY <1>1, <1>3, <1>4 DEF Inv

\* A step that leaves the tables alone.
LEMMA Quiet ==
  ASSUME Inv, NEW h \in Handler, NEW c, IsCall(c), Becomes(h, c), Sound(c),
         Free(h, c.locks \ handler[h].locks),
         UNCHANGED <<links, members, identities, invitations, states, minted, uses, opened>>
  PROVE  Inv'
<1>1. Grows /\ Spares(h) /\ Spared(c.locks)
  BY DEF Grows, Spares, Spared, Pending
<1>3. Sound(c)'
  BY <1>1, SoundKept
<1>4. Store'
  BY DEF Inv, Store, Tables, Kinds, Spent, Signed, Joined, AcceptedIsMember, Reaches
<1>. QED  BY <1>1, <1>3, <1>4, Step

------------------------------------------------------------------------------
(* Steps that leave the tables alone.                                         *)

\* The tables as far as the invariant looks at them.
Untouched == UNCHANGED <<links, members, identities, invitations, states, minted, uses, opened>>

LEMMA IdleSound == IsCall(Idle) /\ Sound(Idle) /\ Idle.locks = {}
  BY DEF Idle, IsCall, Sound, Placed, Aimed, Linked, Matched, Addressed, Taken, Joining

LEMMA QuietAnswer == ASSUME Inv, NEW h \in Handler, Answer(h), Untouched PROVE Inv'
<1>1. Free(h, Idle.locks \ handler[h].locks) /\ Becomes(h, Idle)
  BY IdleSound DEF Free, Answer
<1>. QED  BY <1>1, IdleSound, Quiet DEF Untouched

\* The same request at another place, with other locks.
Alike(c, me) ==
  /\ c.op = me.op /\ c.user = me.user /\ c.mail = me.mail /\ c.org = me.org /\ c.role = me.role
  /\ c.token = me.token /\ c.invitation = me.invitation /\ c.sub = me.sub /\ c.fresh = me.fresh
  /\ c.barred = me.barred

LEMMA GotoFields ==
  ASSUME Formed, NEW h \in Handler, NEW pc, Goto(h, pc)
  PROVE  \E c : /\ IsCall(c) /\ Becomes(h, c) /\ c.pc = pc /\ Alike(c, handler[h])
                /\ c.locks = handler[h].locks /\ Free(h, c.locks \ handler[h].locks)
<1>. DEFINE me == handler[h]  c == [me EXCEPT !.pc = pc]
<1>0. IsCall(me) /\ c = [me EXCEPT !.pc = pc] /\ Becomes(h, c)
  BY DEF Formed, Goto
<1>. HIDE DEF c, me
<1>1. c = [pc |-> pc, op |-> me.op, user |-> me.user, mail |-> me.mail, org |-> me.org,
           role |-> me.role, token |-> me.token, invitation |-> me.invitation, sub |-> me.sub,
           fresh |-> me.fresh, locks |-> me.locks, barred |-> me.barred]
  BY <1>0 DEF IsCall
<1>2. IsCall(c) /\ c.pc = pc /\ Alike(c, me) /\ c.locks = me.locks
  BY <1>1 DEF IsCall, Alike
<1>3. Free(h, c.locks \ handler[h].locks)
  BY <1>2 DEF Free, me
<1>. QED  BY <1>0, <1>2, <1>3 DEF me

LEMMA LockShape ==
  ASSUME Formed, NEW h \in Handler, NEW pc, NEW s, Lock(h, pc, s)
  PROVE  \E c : /\ IsCall(c) /\ Becomes(h, c) /\ c.pc = pc /\ Alike(c, handler[h])
                /\ c.locks = handler[h].locks \cup {s}
<1>. DEFINE me == handler[h]  c == [me EXCEPT !.pc = pc, !.locks = @ \cup {s}]
<1>0. IsCall(me) /\ c = [me EXCEPT !.pc = pc, !.locks = @ \cup {s}] /\ Becomes(h, c)
  BY DEF Formed, Lock
<1>. HIDE DEF c, me
<1>1. c = [pc |-> pc, op |-> me.op, user |-> me.user, mail |-> me.mail, org |-> me.org,
           role |-> me.role, token |-> me.token, invitation |-> me.invitation, sub |-> me.sub,
           fresh |-> me.fresh, locks |-> me.locks \cup {s}, barred |-> me.barred]
  BY <1>0 DEF IsCall
<1>2. IsCall(c) /\ c.pc = pc /\ Alike(c, me) /\ c.locks = me.locks \cup {s}
  BY <1>1 DEF IsCall, Alike
<1>. QED  BY <1>0, <1>2 DEF me

LEMMA LockFields ==
  ASSUME Formed, NEW h \in Handler, NEW pc, NEW s, Lock(h, pc, s),
         s[1] # "invitation" \/ ~Blocked(h, s)
  PROVE  \E c : /\ IsCall(c) /\ Becomes(h, c) /\ c.pc = pc /\ Alike(c, handler[h])
                /\ c.locks = handler[h].locks \cup {s}
                /\ Free(h, c.locks \ handler[h].locks)
<1>1. PICK c : /\ IsCall(c) /\ Becomes(h, c) /\ c.pc = pc /\ Alike(c, handler[h])
               /\ c.locks = handler[h].locks \cup {s}
  BY LockShape
<1>2. Free(h, c.locks \ handler[h].locks)
  BY <1>1 DEF Free, Blocked
<1>. QED  BY <1>1, <1>2

LEMMA LookForUserStep == ASSUME Inv, NEW h \in Handler, LookForUser(h) PROVE Inv'
<1>. DEFINE me == handler[h]  pc == IF me.op = "join" THEN "organization" ELSE "slug"
<1>0. Sound(me) /\ Formed /\ Untouched /\ me.pc = "look"
  BY DEF Inv, LookForUser, Untouched, tables, rows, ghosts
<1>1. CASE Answer(h)
  BY <1>0, <1>1, QuietAnswer
<1>2. CASE Goto(h, pc)
  <2>1. PICK c : /\ IsCall(c) /\ Becomes(h, c) /\ c.pc = pc /\ Alike(c, me)
                 /\ c.locks = me.locks /\ Free(h, c.locks \ me.locks)
    BY <1>0, <1>2, GotoFields
  <2>2. Sound(c)
    BY <1>0, <2>1 DEF Alike, Sound, Placed, Aimed, Linked, Matched, Addressed, Taken, Joining
  <2>. QED  BY <1>0, <2>1, <2>2, Quiet DEF Untouched
<1>. QED  BY <1>1, <1>2 DEF LookForUser

\* Places a request may reach by Goto, where nothing more is asked than before.
LEMMA PlainStep ==
  ASSUME Inv, NEW h \in Handler,
         \/ LookResend(h) \/ FindInvitation(h) \/ FindTarget(h) \/ MatchUser(h)
         \/ FindConflict(h) \/ FindOrganization(h) \/ Crash(h)
  PROVE  Inv'
<1>. DEFINE me == handler[h]
<1>0. Sound(me) /\ Formed /\ Untouched
  BY DEF Inv, LookResend, FindInvitation, FindTarget, MatchUser, FindConflict, FindOrganization,
         Crash, Untouched, tables, rows, ghosts
<1>1. CASE Answer(h)
  BY <1>0, <1>1, QuietAnswer
<1>2. ASSUME NEW pc, Goto(h, pc),
             \/ /\ pc \in {"revoke", "write"}
             \/ /\ At(h, "accept", "match") /\ pc = "conflict"
                /\ me.user = invitations[me.invitation].mail
             \/ At(h, "accept", "conflict") /\ pc = "organization"
             \/ me.pc = "organization" /\ pc = IF me.op = "callback" THEN "addressee" ELSE "take"
      PROVE  Inv'
  <2>1. PICK c : /\ IsCall(c) /\ Becomes(h, c) /\ c.pc = pc /\ Alike(c, me)
                 /\ c.locks = me.locks /\ Free(h, c.locks \ me.locks)
    BY <1>0, <1>2, GotoFields
  <2>2. Placed(c) /\ Aimed(c) /\ Linked(c) /\ Taken(c)
    BY <1>0, <1>2, <2>1 DEF At, Alike, Sound, Placed, Aimed, Linked, Taken, Joining
  <2>3. Matched(c) /\ Addressed(c)
    BY <1>0, <1>2, <2>1 DEF At, Alike, Sound, Matched, Addressed, Joining, Placed
  <2>. QED  BY <1>0, <2>1, <2>2, <2>3, Quiet DEF Untouched, Sound
<1>. QED
  BY <1>1, <1>2 DEF LookResend, FindInvitation, FindTarget, MatchUser, FindConflict,
                    FindOrganization, Crash, At

LEMMA InsertStep ==
  ASSUME Inv, NEW h \in Handler, InsertUser(h) \/ InsertOrganization(h)
  PROVE  Inv'
<1>. DEFINE me == handler[h]
<1>0. Sound(me) /\ Formed /\ Untouched
  BY DEF Inv, InsertUser, InsertOrganization, Untouched, tables, rows, ghosts
<1>1. CASE Answer(h)
  BY <1>0, <1>1, QuietAnswer
<1>2. ASSUME NEW pc, NEW s, Lock(h, pc, s), s[1] # "invitation",
             \/ me.pc = "user" /\ pc = IF me.op = "join" THEN "enroll" ELSE "create"
             \/ me.pc = "create" /\ pc = "commit"
      PROVE  Inv'
  <2>1. PICK c : /\ IsCall(c) /\ Becomes(h, c) /\ c.pc = pc /\ Alike(c, me)
                 /\ c.locks = me.locks \cup {s} /\ Free(h, c.locks \ me.locks)
    BY <1>0, <1>2, LockFields
  <2>2. Placed(c) /\ Aimed(c) /\ Linked(c) /\ Taken(c)
    BY <1>0, <1>2, <2>1 DEF Alike, Sound, Placed, Aimed, Linked, Taken, Joining
  <2>3. Matched(c) /\ Addressed(c)
    BY <1>0, <1>2, <2>1 DEF Alike, Sound, Matched, Addressed, Joining, Placed
  <2>. QED  BY <1>0, <2>1, <2>2, <2>3, Quiet DEF Untouched, Sound
<1>3. <<"mail", me.user>>[1] # "invitation" /\ <<"slug", me.org>>[1] # "invitation"
  OBVIOUS
<1>. QED  BY <1>1, <1>2, <1>3 DEF InsertUser, InsertOrganization

LEMMA TakeInvitationStep == ASSUME Inv, NEW h \in Handler, TakeInvitation(h) PROVE Inv'
<1>. DEFINE me == handler[h]  i == me.invitation
<1>0. Sound(me) /\ Formed /\ Untouched /\ me.pc = "take" /\ ~Blocked(h, <<"invitation", i>>)
  BY Unwaiting DEF Inv, TakeInvitation, Untouched, tables, rows, ghosts
<1>1. CASE Answer(h)
  BY <1>0, <1>1, QuietAnswer
<1>2. CASE Pending(i) /\ Lock(h, AfterTake(me), <<"invitation", i>>)
  <2>1. PICK c : /\ IsCall(c) /\ Becomes(h, c) /\ c.pc = AfterTake(me) /\ Alike(c, me)
                 /\ c.locks = me.locks \cup {<<"invitation", i>>} /\ Free(h, c.locks \ me.locks)
    BY <1>0, <1>2, LockFields
  <2>2. /\ me.op = "join" => c.pc = "user"
        /\ me.op = "callback" => c.pc = IF me.fresh THEN "enroll" ELSE "commit"
        /\ me.op \notin {"join", "callback"} => c.pc = "enroll"
    BY <2>1 DEF AfterTake
  <2>3. Placed(c) /\ Aimed(c) /\ Linked(c)
    BY <1>0, <2>1, <2>2 DEF Alike, Sound, Placed, Aimed, Linked
  <2>4. Matched(c) /\ Addressed(c)
    BY <1>0, <2>1, <2>2 DEF Alike, Sound, Matched, Addressed, Joining
  <2>5. Taken(c)
    BY <1>0, <1>2, <2>1, <2>2 DEF Alike, Sound, Taken, Joining
  <2>. QED  BY <1>0, <2>1, <2>3, <2>4, <2>5, Quiet DEF Untouched, Sound
<1>. QED  BY <1>1, <1>2 DEF TakeInvitation

LEMMA EnrollStep == ASSUME Inv, NEW h \in Handler, Enroll(h) PROVE Inv'
<1>. DEFINE me == handler[h]  k == <<me.org, me.user>>
<1>0. Sound(me) /\ Formed /\ Untouched /\ me.pc = "enroll"
  BY DEF Inv, Enroll, Untouched, tables, rows, ghosts
<1>1. CASE Answer(h)
  BY <1>0, <1>1, QuietAnswer
<1>2. CASE Lock(h, "commit", <<"member", k>>)
  <2>1. PICK c : /\ IsCall(c) /\ Becomes(h, c) /\ c.pc = "commit" /\ Alike(c, me)
                 /\ c.locks = me.locks \cup {<<"member", k>>} /\ Free(h, c.locks \ me.locks)
    BY <1>0, <1>2, LockFields
  <2>2. Placed(c) /\ Aimed(c) /\ Linked(c)
    BY <1>0, <2>1 DEF Alike, Sound, Placed, Aimed, Linked
  <2>3. Matched(c) /\ Addressed(c)
    BY <1>0, <2>1 DEF Alike, Sound, Matched, Addressed, Joining
  <2>4. Taken(c)
    BY <1>0, <2>1 DEF Alike, Sound, Taken, Joining
  <2>. QED  BY <1>0, <2>1, <2>2, <2>3, <2>4, Quiet DEF Untouched, Sound
<1>. QED  BY <1>1, <1>2 DEF Enroll

\* A request with other fields at another place; Changed says what they are.
Change(me, pc, user, org, role, invitation, fresh) ==
  [me EXCEPT !.pc = pc, !.user = user, !.org = org, !.role = role, !.invitation = invitation,
             !.fresh = fresh]
Changed(c, me, pc, user, org, role, invitation, fresh) ==
  /\ c.op = me.op /\ c.mail = me.mail /\ c.token = me.token /\ c.sub = me.sub
  /\ c.locks = me.locks /\ c.barred = me.barred
  /\ c.pc = pc /\ c.user = user /\ c.org = org /\ c.role = role
  /\ c.invitation = invitation /\ c.fresh = fresh

LEMMA ChangeFields ==
  ASSUME Formed, NEW h \in Handler, NEW pc, NEW user, NEW org, NEW role, NEW invitation, NEW fresh,
         Becomes(h, Change(handler[h], pc, user, org, role, invitation, fresh))
  PROVE  \E c : /\ IsCall(c) /\ Becomes(h, c) /\ Free(h, c.locks \ handler[h].locks)
                /\ Changed(c, handler[h], pc, user, org, role, invitation, fresh)
<1>. DEFINE me == handler[h]  c == Change(me, pc, user, org, role, invitation, fresh)
<1>0. IsCall(me) /\ c = Change(me, pc, user, org, role, invitation, fresh) /\ Becomes(h, c)
  BY DEF Formed
<1>. HIDE DEF c, me
<1>1. c = [pc |-> pc, op |-> me.op, user |-> user, mail |-> me.mail, org |-> org,
           role |-> role, token |-> me.token, invitation |-> invitation, sub |-> me.sub,
           fresh |-> fresh, locks |-> me.locks, barred |-> me.barred]
  BY <1>0 DEF IsCall, Change
<1>2. IsCall(c) /\ Changed(c, me, pc, user, org, role, invitation, fresh)
  BY <1>1 DEF IsCall, Changed
<1>3. Free(h, c.locks \ handler[h].locks)
  BY <1>2 DEF Free, Changed, me
<1>. QED  BY <1>0, <1>2, <1>3 DEF me

LEMMA ChooseSlugStep == ASSUME Inv, NEW h \in Handler, ChooseSlug(h) PROVE Inv'
<1>. DEFINE me == handler[h]  row == invitations[me.invitation]
<1>0. IsCall(me) /\ Sound(me) /\ Formed /\ Untouched /\ me.pc = "slug"
  BY DEF Inv, Formed, ChooseSlug, At, Untouched, tables, rows, ghosts
<1>1. CASE Answer(h)
  BY <1>0, <1>1, QuietAnswer
<1>2. ASSUME NEW o,
             Becomes(h, [me EXCEPT !.org = o, !.pc = IF me.op = "register"
                                                THEN "user" ELSE "create"])
      PROVE  Inv'
  <2>1. Becomes(h, Change(me, IF me.op = "register" THEN "user" ELSE "create", me.user, o, me.role,
                     me.invitation, me.fresh))
    <3>1. [me EXCEPT !.org = o, !.pc = IF me.op = "register"
                                                THEN "user" ELSE "create"]
            = Change(me, IF me.op = "register" THEN "user" ELSE "create", me.user, o, me.role,
                     me.invitation, me.fresh)
      BY <1>0 DEF IsCall, Change
    <3>. QED  BY <1>2, <3>1
  <2>2. PICK c : /\ IsCall(c) /\ Becomes(h, c) /\ Free(h, c.locks \ me.locks)
                 /\ Changed(c, me, IF me.op = "register" THEN "user" ELSE "create", me.user, o,
                     me.role, me.invitation, me.fresh)
    BY <1>0, <2>1, ChangeFields
  <2>3. Placed(c) /\ Aimed(c) /\ Linked(c)
    BY <1>0, <1>2, <2>2 DEF At, Changed, Sound, Placed, Aimed, Linked
  <2>4. Matched(c) /\ Addressed(c) /\ Taken(c)
    BY <1>0, <1>2, <2>2 DEF At, Changed, Sound, Matched, Addressed, Taken, Joining, Placed
  <2>. QED  BY <1>0, <2>2, <2>3, <2>4, Quiet DEF Untouched, Sound
<1>. QED  BY <1>0, <1>1, <1>2 DEF ChooseSlug

LEMMA ReadLinkStep == ASSUME Inv, NEW h \in Handler, ReadLink(h) PROVE Inv'
<1>. DEFINE me == handler[h]  row == invitations[me.invitation]
<1>0. IsCall(me) /\ Sound(me) /\ Formed /\ Untouched /\ At(h, "verify", "read")
  BY DEF Inv, Formed, ReadLink, At, Untouched, tables, rows, ghosts
<1>1. CASE Answer(h)
  BY <1>0, <1>1, QuietAnswer
<1>2. ASSUME NEW u, NEW f,
             Becomes(h, [me EXCEPT !.pc = "consume", !.user = u, !.fresh = f])
      PROVE  Inv'
  <2>1. Becomes(h, Change(me, "consume", u, me.org, me.role, me.invitation, f))
    <3>1. [me EXCEPT !.pc = "consume", !.user = u, !.fresh = f]
            = Change(me, "consume", u, me.org, me.role, me.invitation, f)
      BY <1>0 DEF IsCall, Change
    <3>. QED  BY <1>2, <3>1
  <2>2. PICK c : /\ IsCall(c) /\ Becomes(h, c) /\ Free(h, c.locks \ me.locks)
                 /\ Changed(c, me, "consume", u, me.org, me.role, me.invitation, f)
    BY <1>0, <2>1, ChangeFields
  <2>3. Placed(c) /\ Aimed(c) /\ Linked(c)
    BY <1>0, <1>2, <2>2 DEF At, Changed, Sound, Placed, Aimed, Linked
  <2>4. Matched(c) /\ Addressed(c) /\ Taken(c)
    BY <1>0, <1>2, <2>2 DEF At, Changed, Sound, Matched, Addressed, Taken, Joining, Placed
  <2>. QED  BY <1>0, <2>2, <2>3, <2>4, Quiet DEF Untouched, Sound
<1>. QED  BY <1>0, <1>1, <1>2 DEF ReadLink

LEMMA PermitStep == ASSUME Inv, NEW h \in Handler, Permit(h) PROVE Inv'
<1>. DEFINE me == handler[h]  row == invitations[me.invitation]
<1>0. IsCall(me) /\ Sound(me) /\ Formed /\ Untouched /\ me.pc = "permit"
  BY DEF Inv, Formed, Permit, At, Untouched, tables, rows, ghosts
<1>1. CASE Answer(h)
  BY <1>0, <1>1, QuietAnswer
<1>2. ASSUME Becomes(h, [me EXCEPT !.pc = IF me.op = "invite" THEN "write" ELSE "find",
               !.role = IF me.op = "revoke" THEN members[<<me.org, me.user>>].role
                        ELSE @])
      PROVE  Inv'
  <2>1. Becomes(h, Change(me, IF me.op = "invite" THEN "write" ELSE "find", me.user, me.org,
                     IF me.op = "revoke" THEN members[<<me.org, me.user>>].role ELSE me.role,
                     me.invitation, me.fresh))
    <3>1. [me EXCEPT !.pc = IF me.op = "invite" THEN "write" ELSE "find",
               !.role = IF me.op = "revoke" THEN members[<<me.org, me.user>>].role
                        ELSE @]
            = Change(me, IF me.op = "invite" THEN "write" ELSE "find", me.user, me.org,
                     IF me.op = "revoke" THEN members[<<me.org, me.user>>].role ELSE me.role,
                     me.invitation, me.fresh)
      BY <1>0 DEF IsCall, Change
    <3>. QED  BY <1>2, <3>1
  <2>2. PICK c : /\ IsCall(c) /\ Becomes(h, c) /\ Free(h, c.locks \ me.locks)
                 /\ Changed(c, me, IF me.op = "invite" THEN "write" ELSE "find", me.user, me.org,
                     IF me.op = "revoke" THEN members[<<me.org, me.user>>].role ELSE me.role,
                     me.invitation, me.fresh)
    BY <1>0, <2>1, ChangeFields
  <2>3. Placed(c) /\ Aimed(c) /\ Linked(c)
    BY <1>0, <1>2, <2>2 DEF At, Changed, Sound, Placed, Aimed, Linked
  <2>4. Matched(c) /\ Addressed(c) /\ Taken(c)
    BY <1>0, <1>2, <2>2 DEF At, Changed, Sound, Matched, Addressed, Taken, Joining, Placed
  <2>. QED  BY <1>0, <2>2, <2>3, <2>4, Quiet DEF Untouched, Sound
<1>. QED  BY <1>0, <1>1, <1>2 DEF Permit

LEMMA ReadInvitationStep == ASSUME Inv, NEW h \in Handler, ReadInvitation(h) PROVE Inv'
<1>. DEFINE me == handler[h]  row == invitations[me.invitation]
<1>0. /\ IsCall(me) /\ Sound(me) /\ Formed /\ Untouched
      /\ me.pc = "read" /\ me.op \in {"accept", "join"}
  BY DEF Inv, Formed, ReadInvitation, At, Untouched, tables, rows, ghosts
<1>1. CASE Answer(h)
  BY <1>0, <1>1, QuietAnswer
<1>2. ASSUME NEW pc, NEW u, NEW r, r = row.role,
             pc = IF me.op = "accept" THEN "match" ELSE "look",
             u = IF me.op = "accept" THEN me.user ELSE row.mail,
             Becomes(h, [me EXCEPT !.pc = pc, !.org = row.org, !.role = r, !.user = u])
      PROVE  Inv'
  <2>1. Becomes(h, Change(me, pc, u, row.org, r, me.invitation, me.fresh))
    <3>1. [me EXCEPT !.pc = pc, !.org = row.org, !.role = r, !.user = u]
            = Change(me, pc, u, row.org, r, me.invitation, me.fresh)
      BY <1>0 DEF IsCall, Change
    <3>. QED  BY <1>2, <3>1
  <2>2. PICK c : /\ IsCall(c) /\ Becomes(h, c) /\ Free(h, c.locks \ me.locks)
                 /\ Changed(c, me, pc, u, row.org, r, me.invitation, me.fresh)
    BY <1>0, <2>1, ChangeFields
  <2>3. Placed(c) /\ Aimed(c) /\ Linked(c)
    BY <1>0, <1>2, <2>2 DEF At, Changed, Sound, Placed, Aimed, Linked
  <2>4. Matched(c) /\ Addressed(c) /\ Taken(c)
    BY <1>0, <1>2, <2>2 DEF At, Changed, Sound, Matched, Addressed, Taken, Joining, Placed
  <2>. QED  BY <1>0, <2>2, <2>3, <2>4, Quiet DEF Untouched, Sound
<1>. QED  BY <1>0, <1>1, <1>2 DEF ReadInvitation

LEMMA FindNewcomerStep == ASSUME Inv, NEW h \in Handler, FindNewcomer(h) PROVE Inv'
<1>. DEFINE me == handler[h]  row == invitations[me.invitation]
<1>0. IsCall(me) /\ Sound(me) /\ Formed /\ Untouched /\ At(h, "callback", "newcomer")
  BY DEF Inv, Formed, FindNewcomer, At, Untouched, tables, rows, ghosts
<1>1. CASE Answer(h)
  BY <1>0, <1>1, QuietAnswer
<1>2. ASSUME NEW u,
             Becomes(h, [me EXCEPT !.pc = "newuser", !.user = u])
      PROVE  Inv'
  <2>1. Becomes(h, Change(me, "newuser", u, me.org, me.role, me.invitation, me.fresh))
    <3>1. [me EXCEPT !.pc = "newuser", !.user = u]
            = Change(me, "newuser", u, me.org, me.role, me.invitation, me.fresh)
      BY <1>0 DEF IsCall, Change
    <3>. QED  BY <1>2, <3>1
  <2>2. PICK c : /\ IsCall(c) /\ Becomes(h, c) /\ Free(h, c.locks \ me.locks)
                 /\ Changed(c, me, "newuser", u, me.org, me.role, me.invitation, me.fresh)
    BY <1>0, <2>1, ChangeFields
  <2>3. Placed(c) /\ Aimed(c) /\ Linked(c)
    BY <1>0, <1>2, <2>2 DEF At, Changed, Sound, Placed, Aimed, Linked
  <2>4. Matched(c) /\ Addressed(c) /\ Taken(c)
    BY <1>0, <1>2, <2>2 DEF At, Changed, Sound, Matched, Addressed, Taken, Joining, Placed
  <2>. QED  BY <1>0, <2>2, <2>3, <2>4, Quiet DEF Untouched, Sound
<1>3. ASSUME NEW u, NEW f,
             Becomes(h, [me EXCEPT !.pc = "link", !.user = u, !.fresh = f])
      PROVE  Inv'
  <2>1. Becomes(h, Change(me, "link", u, me.org, me.role, me.invitation, f))
    <3>1. [me EXCEPT !.pc = "link", !.user = u, !.fresh = f]
            = Change(me, "link", u, me.org, me.role, me.invitation, f)
      BY <1>0 DEF IsCall, Change
    <3>. QED  BY <1>3, <3>1
  <2>2. PICK c : /\ IsCall(c) /\ Becomes(h, c) /\ Free(h, c.locks \ me.locks)
                 /\ Changed(c, me, "link", u, me.org, me.role, me.invitation, f)
    BY <1>0, <2>1, ChangeFields
  <2>3. Placed(c) /\ Aimed(c) /\ Linked(c)
    BY <1>0, <1>3, <2>2 DEF At, Changed, Sound, Placed, Aimed, Linked
  <2>4. Matched(c) /\ Addressed(c) /\ Taken(c)
    BY <1>0, <1>3, <2>2 DEF At, Changed, Sound, Matched, Addressed, Taken, Joining, Placed
  <2>. QED  BY <1>0, <2>2, <2>3, <2>4, Quiet DEF Untouched, Sound
<1>. QED  BY <1>0, <1>1, <1>2, <1>3 DEF FindNewcomer

LEMMA ClaimInvitationStep == ASSUME Inv, NEW h \in Handler, ClaimInvitation(h) PROVE Inv'
<1>. DEFINE me == handler[h]  row == invitations[me.invitation]
<1>0. IsCall(me) /\ Sound(me) /\ Formed /\ Untouched /\ At(h, "callback", "claim")
  BY DEF Inv, Formed, ClaimInvitation, At, Untouched, tables, rows, ghosts
<1>1. CASE Answer(h)
  BY <1>0, <1>1, QuietAnswer
<1>2. ASSUME NEW r, r = row.role,
             Becomes(h, [me EXCEPT !.pc = "organization", !.org = row.org, !.role = r])
      PROVE  Inv'
  <2>1. Becomes(h, Change(me, "organization", me.user, row.org, r, me.invitation, me.fresh))
    <3>1. [me EXCEPT !.pc = "organization", !.org = row.org, !.role = r]
            = Change(me, "organization", me.user, row.org, r, me.invitation, me.fresh)
      BY <1>0 DEF IsCall, Change
    <3>. QED  BY <1>2, <3>1
  <2>2. PICK c : /\ IsCall(c) /\ Becomes(h, c) /\ Free(h, c.locks \ me.locks)
                 /\ Changed(c, me, "organization", me.user, row.org, r, me.invitation, me.fresh)
    BY <1>0, <2>1, ChangeFields
  <2>3. Placed(c) /\ Aimed(c) /\ Linked(c)
    BY <1>0, <1>2, <2>2 DEF At, Changed, Sound, Placed, Aimed, Linked
  <2>4. Matched(c) /\ Addressed(c) /\ Taken(c)
    BY <1>0, <1>2, <2>2 DEF At, Changed, Sound, Matched, Addressed, Taken, Joining, Placed
  <2>. QED  BY <1>0, <2>2, <2>3, <2>4, Quiet DEF Untouched, Sound
<1>. QED  BY <1>0, <1>1, <1>2 DEF ClaimInvitation

LEMMA MatchAddresseeStep == ASSUME Inv, NEW h \in Handler, MatchAddressee(h) PROVE Inv'
<1>. DEFINE me == handler[h]  row == invitations[me.invitation]
<1>0. IsCall(me) /\ Sound(me) /\ Formed /\ Untouched /\ At(h, "callback", "addressee")
  BY DEF Inv, Formed, MatchAddressee, At, Untouched, tables, rows, ghosts
<1>1. CASE Answer(h)
  BY <1>0, <1>1, QuietAnswer
<1>2. ASSUME NEW f,
             f = (<<me.org, me.user>> \notin DOMAIN members), row.mail = me.mail,
             Becomes(h, [me EXCEPT !.pc = "take", !.fresh = f])
      PROVE  Inv'
  <2>1. Becomes(h, Change(me, "take", me.user, me.org, me.role, me.invitation, f))
    <3>1. [me EXCEPT !.pc = "take", !.fresh = f]
            = Change(me, "take", me.user, me.org, me.role, me.invitation, f)
      BY <1>0 DEF IsCall, Change
    <3>. QED  BY <1>2, <3>1
  <2>2. PICK c : /\ IsCall(c) /\ Becomes(h, c) /\ Free(h, c.locks \ me.locks)
                 /\ Changed(c, me, "take", me.user, me.org, me.role, me.invitation, f)
    BY <1>0, <2>1, ChangeFields
  <2>3. Placed(c) /\ Aimed(c) /\ Linked(c)
    BY <1>0, <1>2, <2>2 DEF At, Changed, Sound, Placed, Aimed, Linked
  <2>4. Matched(c) /\ Addressed(c) /\ Taken(c)
    BY <1>0, <1>2, <2>2 DEF At, Changed, Sound, Matched, Addressed, Taken, Joining, Placed
  <2>. QED  BY <1>0, <2>2, <2>3, <2>4, Quiet DEF Untouched, Sound
<1>. QED  BY <1>0, <1>1, <1>2 DEF MatchAddressee

LEMMA FindIdentityStep == ASSUME Inv, NEW h \in Handler, FindIdentity(h) PROVE Inv'
<1>. DEFINE me == handler[h]  u == identities[me.sub]
<1>0. IsCall(me) /\ Sound(me) /\ Formed /\ Untouched /\ At(h, "callback", "identity")
  BY DEF Inv, Formed, FindIdentity, Untouched, tables, rows, ghosts
<1>1. CASE Answer(h)
  BY <1>0, <1>1, QuietAnswer
<1>2. CASE Goto(h, "newcomer")
  <2>1. PICK c : /\ IsCall(c) /\ Becomes(h, c) /\ c.pc = "newcomer" /\ Alike(c, me)
                 /\ c.locks = me.locks /\ Free(h, c.locks \ me.locks)
    BY <1>0, <1>2, GotoFields
  <2>2. Sound(c)
    BY <1>0, <2>1 DEF At, Alike, Sound, Placed, Aimed, Linked, Matched, Addressed, Taken, Joining
  <2>. QED  BY <1>0, <2>1, <2>2, Quiet DEF Untouched
<1>3. CASE me.sub \in DOMAIN identities /\ Becomes(h, [me EXCEPT !.pc = "memberships", !.user = u])
  <2>1. Becomes(h, Change(me, "memberships", u, me.org, me.role, me.invitation, me.fresh))
    <3>1. [me EXCEPT !.pc = "memberships", !.user = u]
            = Change(me, "memberships", u, me.org, me.role, me.invitation, me.fresh)
      BY <1>0 DEF IsCall, Change
    <3>. QED  BY <1>3, <3>1
  <2>2. PICK c : /\ IsCall(c) /\ Becomes(h, c) /\ Free(h, c.locks \ me.locks)
                 /\ Changed(c, me, "memberships", u, me.org, me.role, me.invitation, me.fresh)
    BY <1>0, <2>1, ChangeFields
  <2>3. Placed(c) /\ Aimed(c) /\ Linked(c)
    BY <1>0, <1>3, <2>2 DEF At, Changed, Sound, Placed, Aimed, Linked
  <2>4. Matched(c) /\ Addressed(c) /\ Taken(c)
    BY <1>0, <2>2 DEF At, Changed, Sound, Matched, Addressed, Taken, Joining, Placed
  <2>. QED  BY <1>0, <2>2, <2>3, <2>4, Quiet DEF Untouched, Sound
<1>. QED  BY <1>1, <1>2, <1>3 DEF FindIdentity

\* A request that comes in.
Incoming(op, pc, user, mail, org, role, token, invitation, sub) ==
  [pc |-> pc, op |-> op, user |-> user, mail |-> mail, org |-> org, role |-> role,
   token |-> token, invitation |-> invitation, sub |-> sub, fresh |-> FALSE, locks |-> {},
   barred |-> Barred]

\* It holds nothing, and what it is about is there.
Arrived(c) ==
  /\ IsCall(c) /\ c.locks = {} /\ c.barred = Barred
  /\ \/ c.op = "register" /\ c.pc = "look" /\ c.user \in Mail
     \/ c.op = "found" /\ c.pc = "slug" /\ c.user \in DOMAIN users
     \/ c.op = "verify" /\ c.pc = "read" /\ c.token \in DOMAIN links
     \/ c.op = "resend" /\ c.pc = "eligible" /\ c.user \in DOMAIN users
     \/ /\ c.op = "invite" /\ c.pc = "permit" /\ c.mail \in Mail
        /\ \E k \in DOMAIN members : c.org = k[1]
     \/ c.op = "revoke" /\ c.pc = "permit" /\ c.invitation \in DOMAIN invitations
     \/ c.op = "change" /\ c.pc = "permit" /\ c.role \in Role
     \/ /\ c.op = "accept" /\ c.pc = "read" /\ c.invitation \in DOMAIN invitations
        /\ c.user \in DOMAIN users
     \/ c.op = "join" /\ c.pc = "read" /\ c.invitation \in DOMAIN invitations
     \/ c.op = "start" /\ c.pc = "save" /\ c.invitation \in DOMAIN invitations \cup {None}
     \/ /\ c.op = "callback" /\ c.pc = "state" /\ c.invitation = None
        /\ \E p \in Profiles : p[1] = c.sub /\ p[2] = c.mail
  /\ c.op # "callback" => c.sub = None

LEMMA Asked ==
  ASSUME NEW h \in Handler, Ask(h)
  PROVE  Untouched /\ \E c : Becomes(h, c) /\ Arrived(c)
<1>0. Untouched
  BY DEF Ask, Register, Found, Verify, Resend, Invite, Revoke, ChangeRole, Accept, Start,
         Callback, Untouched, tables, rows, ghosts
<1>1. CASE Register(h)
  <2>1. PICK m \in Mail : Becomes(h, [Arrives(h, "register", "look") EXCEPT !.user = m])
    BY <1>1 DEF Register
  <2>2. PICK c : Becomes(h, c) /\ c = [Arrives(h, "register", "look") EXCEPT !.user = m]
    BY <2>1
  <2>3. c = Incoming("register", "look", m, None, None, None, None, None, None)
    BY <2>2 DEF Arrives, Idle, Incoming
  <2>. QED  BY <1>0, <2>2, <2>3 DEF Incoming, Arrived, IsCall
<1>2. CASE Found(h)
  <2>1. PICK m \in DOMAIN users : Becomes(h, [Arrives(h, "found", "slug") EXCEPT !.user = m])
    BY <1>2 DEF Found
  <2>2. PICK c : Becomes(h, c) /\ c = [Arrives(h, "found", "slug") EXCEPT !.user = m]
    BY <2>1
  <2>3. c = Incoming("found", "slug", m, None, None, None, None, None, None)
    BY <2>2 DEF Arrives, Idle, Incoming
  <2>. QED  BY <1>0, <2>2, <2>3 DEF Incoming, Arrived, IsCall
<1>3. CASE Verify(h)
  <2>1. PICK t \in DOMAIN links : Becomes(h, [Arrives(h, "verify", "read") EXCEPT !.token = t])
    BY <1>3 DEF Verify
  <2>2. PICK c : Becomes(h, c) /\ c = [Arrives(h, "verify", "read") EXCEPT !.token = t]
    BY <2>1
  <2>3. c = Incoming("verify", "read", None, None, None, None, t, None, None)
    BY <2>2 DEF Arrives, Idle, Incoming
  <2>. QED  BY <1>0, <2>2, <2>3 DEF Incoming, Arrived, IsCall
<1>4. CASE Resend(h)
  <2>1. PICK m \in DOMAIN users : Becomes(h, [Arrives(h, "resend", "eligible") EXCEPT !.user = m])
    BY <1>4 DEF Resend
  <2>2. PICK c : Becomes(h, c) /\ c = [Arrives(h, "resend", "eligible") EXCEPT !.user = m]
    BY <2>1
  <2>3. c = Incoming("resend", "eligible", m, None, None, None, None, None, None)
    BY <2>2 DEF Arrives, Idle, Incoming
  <2>. QED  BY <1>0, <2>2, <2>3 DEF Incoming, Arrived, IsCall
<1>5. CASE Invite(h)
  <2>1. PICK k \in DOMAIN members, m \in Mail, role \in Role :
               Becomes(h, [Steer(h, "invite", k) EXCEPT !.role = role, !.mail = m])
    BY <1>5 DEF Invite
  <2>2. PICK c : Becomes(h, c) /\ c = [Steer(h, "invite", k) EXCEPT !.role = role, !.mail = m]
    BY <2>1
  <2>3. c = Incoming("invite", "permit", k[2], m, k[1], role, None, None, None)
    BY <2>2 DEF Steer, Arrives, Idle, Incoming
  <2>. QED  BY <1>0, <2>2, <2>3 DEF Incoming, Arrived, IsCall
<1>6. CASE Revoke(h)
  <2>1. PICK k \in DOMAIN members, i \in DOMAIN invitations :
               Becomes(h, [Steer(h, "revoke", k) EXCEPT !.invitation = i])
    BY <1>6 DEF Revoke
  <2>2. PICK c : Becomes(h, c) /\ c = [Steer(h, "revoke", k) EXCEPT !.invitation = i]
    BY <2>1
  <2>3. c = Incoming("revoke", "permit", k[2], None, k[1], None, None, i, None)
    BY <2>2 DEF Steer, Arrives, Idle, Incoming
  <2>. QED  BY <1>0, <2>2, <2>3 DEF Incoming, Arrived, IsCall
<1>7. CASE Accept(h)
  <2>1. ASSUME NEW i \in DOMAIN invitations, NEW m \in DOMAIN users,
               Becomes(h, [Arrives(h, "accept", "read") EXCEPT !.invitation = i, !.user = m])
        PROVE  \E c : Becomes(h, c) /\ Arrived(c)
    <3>1. PICK c : /\ Becomes(h, c)
                   /\ c = [Arrives(h, "accept", "read") EXCEPT !.invitation = i, !.user = m]
      BY <2>1
    <3>2. c = Incoming("accept", "read", m, None, None, None, None, i, None)
      BY <3>1 DEF Arrives, Idle, Incoming
    <3>. QED  BY <1>0, <3>1, <3>2 DEF Incoming, Arrived, IsCall
  <2>2. ASSUME NEW i \in DOMAIN invitations,
               Becomes(h, [Arrives(h, "join", "read") EXCEPT !.invitation = i])
        PROVE  \E c : Becomes(h, c) /\ Arrived(c)
    <3>1. PICK c : Becomes(h, c) /\ c = [Arrives(h, "join", "read") EXCEPT !.invitation = i]
      BY <2>2
    <3>2. c = Incoming("join", "read", None, None, None, None, None, i, None)
      BY <3>1 DEF Arrives, Idle, Incoming
    <3>. QED  BY <1>0, <3>1, <3>2 DEF Incoming, Arrived, IsCall
  <2>. QED  BY <1>0, <1>7, <2>1, <2>2 DEF Accept
<1>8. CASE Start(h)
  <2>1. PICK i \in DOMAIN invitations \cup {None} :
               Becomes(h, [Arrives(h, "start", "save") EXCEPT !.invitation = i])
    BY <1>8 DEF Start
  <2>2. PICK c : Becomes(h, c) /\ c = [Arrives(h, "start", "save") EXCEPT !.invitation = i]
    BY <2>1
  <2>3. c = Incoming("start", "save", None, None, None, None, None, i, None)
    BY <2>2 DEF Arrives, Idle, Incoming
  <2>. QED  BY <1>0, <2>2, <2>3 DEF Incoming, Arrived, IsCall
<1>9. CASE Callback(h)
  <2>1. PICK t \in minted, p \in Profiles :
               Becomes(h, [Arrives(h, "callback", "state") EXCEPT
                             !.token = t, !.sub = p[1], !.mail = p[2]])
    BY <1>9 DEF Callback
  <2>2. PICK c : /\ Becomes(h, c)
                 /\ c = [Arrives(h, "callback", "state") EXCEPT
                           !.token = t, !.sub = p[1], !.mail = p[2]]
    BY <2>1
  <2>3. c = Incoming("callback", "state", None, p[2], None, None, t, None, p[1])
    BY <2>2 DEF Arrives, Idle, Incoming
  <2>4. /\ IsCall(c) /\ c.op = "callback" /\ c.pc = "state" /\ c.mail = p[2] /\ c.sub = p[1]
        /\ c.invitation = None /\ c.locks = {} /\ c.barred = Barred
    BY <2>3 DEF Incoming, IsCall
  <2>. QED  BY <1>0, <2>2, <2>4 DEF Arrived
<1>10. CASE ChangeRole(h)
  <2>1. PICK k \in DOMAIN members, m \in Mail, role \in Role :
               Becomes(h, [Steer(h, "change", k) EXCEPT !.role = role, !.mail = m])
    BY <1>10 DEF ChangeRole
  <2>2. PICK c : Becomes(h, c) /\ c = [Steer(h, "change", k) EXCEPT !.role = role, !.mail = m]
    BY <2>1
  <2>3. c = Incoming("change", "permit", k[2], m, k[1], role, None, None, None)
    BY <2>2 DEF Steer, Arrives, Idle, Incoming
  <2>. QED  BY <1>0, <2>2, <2>3 DEF Incoming, Arrived, IsCall
<1>. QED  BY <1>0, <1>1, <1>2, <1>3, <1>4, <1>5, <1>6, <1>7, <1>8, <1>9, <1>10 DEF Ask

LEMMA AskStep == ASSUME Inv, NEW h \in Handler, Ask(h) PROVE Inv'
<1>0. PICK c : Becomes(h, c) /\ Arrived(c)
  BY Asked
<1>1. IsCall(c) /\ Untouched /\ Free(h, c.locks \ handler[h].locks)
  BY <1>0, Asked DEF Arrived, Free
<1>2. Placed(c) /\ Aimed(c) /\ Linked(c)
  BY <1>0 DEF Arrived, Placed, Aimed, Linked
<1>3. Matched(c) /\ Addressed(c) /\ Taken(c)
  BY <1>0 DEF Arrived, Matched, Addressed, Taken, Joining
<1>. QED  BY <1>0, <1>1, <1>2, <1>3, Quiet DEF Untouched, Sound

------------------------------------------------------------------------------
(* Steps that change the tables.                                              *)

LEMMA AnswerStep ==
  ASSUME Inv, NEW h \in Handler, Answer(h), Grows, Spares(h), Store'
  PROVE  Inv'
<1>1. Becomes(h, Idle) /\ Free(h, Idle.locks \ handler[h].locks) /\ Spared(Idle.locks)
  BY IdleSound DEF Answer, Free, Spared
<1>2. Sound(Idle)'
  BY <1>1, IdleSound, SoundKept
<1>. QED  BY <1>1, <1>2, IdleSound, Step

LEMMA SameStep ==
  ASSUME Inv, NEW h \in Handler, NEW c, IsCall(c), Becomes(h, c), Sound(c),
         Free(h, c.locks \ handler[h].locks), Grows, Spares(h), Spared(c.locks), Store'
  PROVE  Inv'
<1>1. Sound(c)'
  BY SoundKept
<1>. QED  BY <1>1, Step

\* Memberships have their shape.
MembersGrow == \A k \in DOMAIN members' : IsMember(members'[k])

LEMMA MembersStay ==
  ASSUME Joined, Grows, MembersGrow,
         \A i \in DOMAIN invitations' :
           invitations'[i].accepted => i \in DOMAIN invitations /\ invitations[i].accepted
  PROVE  Joined'
<1>1. AcceptedIsMember'
  <2>. SUFFICES ASSUME NEW i \in DOMAIN invitations', invitations'[i].accepted
                PROVE  \E k \in DOMAIN members' :
                         k[1] = invitations'[i].org /\ Reaches(invitations[i].mail, k[2])'
    BY DEF AcceptedIsMember, Grows, Reaches
  <2>1. PICK k \in DOMAIN members :
               k[1] = invitations[i].org /\ Reaches(invitations[i].mail, k[2])
    BY DEF Joined, AcceptedIsMember
  <2>2. Reaches(invitations[i].mail, k[2])'
    BY <2>1 DEF Reaches, Grows
  <2>. QED  BY <2>1, <2>2 DEF Grows
<1>. QED  BY <1>1 DEF Joined, MembersGrow

LEMMA SameMembers == ASSUME Joined, UNCHANGED members PROVE MembersGrow
BY DEF Joined, MembersGrow

LEMMA OpenedForm ==
  ASSUME NEW h, NEW user, NEW org, Opened(h, user, org)
  PROVE  \E a : opened' = opened \cup {a} /\ a.sub = handler[h].sub /\ a.user = user
<1>. DEFINE a == [user |-> user, org |-> org, sub |-> handler[h].sub,
                  barred |-> handler[h].barred \cap {<<user>>, <<org>>, <<org, user>>} # {}]
<1>1. opened' = opened \cup {a}
  BY DEF Opened
<1>2. a.sub = handler[h].sub /\ a.user = user
  OBVIOUS
<1>. QED  BY <1>1, <1>2

LEMMA ReadMembershipsStep == ASSUME Inv, NEW h \in Handler, ReadMemberships(h) PROVE Inv'
<1>. DEFINE me == handler[h]
<1>0. /\ Sound(me) /\ Formed /\ me.pc = "memberships"
      /\ UNCHANGED <<links, members, identities, invitations, states, minted, uses>>
  BY DEF Inv, ReadMemberships, tables, rows
<1>1. CASE me.invitation # None /\ Goto(h, "claim") /\ UNCHANGED opened
  <2>1. PICK c : /\ IsCall(c) /\ Becomes(h, c) /\ c.pc = "claim" /\ Alike(c, me)
                 /\ c.locks = me.locks /\ Free(h, c.locks \ me.locks)
    BY <1>0, <1>1, GotoFields
  <2>2. Sound(c)
    BY <1>0, <1>1, <2>1 DEF Alike, Sound, Placed, Aimed, Linked, Matched, Addressed, Taken, Joining
  <2>. QED  BY <1>0, <1>1, <2>1, <2>2, Quiet
<1>2. CASE Answer(h) /\ \E org : Opened(h, me.user, org)
  <2>1. Grows /\ Spares(h)
    BY <1>0 DEF Grows, Spares, Pending
  <2>2. PICK a : opened' = opened \cup {a} /\ a.sub = me.sub /\ a.user = me.user
    BY <1>2, OpenedForm
  <2>3. Signed'
    BY <1>0, <2>2 DEF Inv, Store, Signed, Sound, Linked
  <2>4. Tables' /\ Kinds' /\ Spent' /\ Joined'
    BY <1>0 DEF Inv, Store, Tables, Kinds, Spent, Joined, AcceptedIsMember, Reaches
  <2>. QED  BY <1>2, <2>1, <2>3, <2>4, AnswerStep DEF Store
<1>. QED  BY <1>1, <1>2 DEF ReadMemberships

\* A new token is used for nothing yet.
LEMMA MintedLink ==
  ASSUME Store, NEW h \in Handler, NEW t \in Token \ minted, NEW m,
         minted' = minted \cup {t}, links' = Put(links, t, NewLink(m)),
         UNCHANGED <<identities, invitations, states, uses, opened>>,
         DOMAIN members \subseteq DOMAIN members', MembersGrow
  PROVE  Store' /\ Grows /\ Spares(h) /\ \A locks : Spared(locks)
<1>1. /\ DOMAIN links' = DOMAIN links \cup {t} /\ links'[t] = NewLink(m) /\ t \notin DOMAIN links
      /\ \A x \in DOMAIN links : links'[x] = links[x]
  BY DEF Put, Store, Kinds
<1>2. Grows /\ Spares(h) /\ \A locks : Spared(locks)
  BY <1>1 DEF Grows, Spares, Spared, Pending
<1>3. IsLink(NewLink(m))
  BY DEF IsLink, NewLink
<1>4. Tables'
  BY <1>1, <1>3 DEF Store, Tables, IsLink, IsInvitation
<1>5. Kinds' /\ Spent' /\ Signed'
  BY <1>1 DEF Store, Kinds, Spent, Signed
<1>. QED  BY <1>2, <1>4, <1>5, MembersStay DEF Store

LEMMA MintedInvitation ==
  ASSUME Store, NEW h \in Handler, NEW t \in Token \ minted, NEW x, IsInvitation(x), ~x.accepted,
         minted' = minted \cup {t}, invitations' = Put(invitations, t, x),
         UNCHANGED <<members, identities, links, states, uses, opened>>
  PROVE  Store' /\ Grows /\ Spares(h) /\ \A locks : Spared(locks)
<1>1. /\ DOMAIN invitations' = DOMAIN invitations \cup {t} /\ invitations'[t] = x
      /\ t \notin DOMAIN invitations
      /\ \A i \in DOMAIN invitations : invitations'[i] = invitations[i]
  BY DEF Put, Store, Kinds
<1>2. Grows /\ Spares(h) /\ \A locks : Spared(locks)
  BY <1>1 DEF Grows, Spares, Spared, Pending
<1>4. Tables'
  BY <1>1 DEF Store, Tables, IsLink, IsInvitation
<1>5. Kinds' /\ Spent' /\ Signed'
  BY <1>1 DEF Store, Kinds, Spent, Signed
<1>6. Joined'
  BY <1>1, <1>2, SameMembers, MembersStay DEF Store
<1>. QED  BY <1>2, <1>4, <1>5, <1>6 DEF Store

LEMMA MintedState ==
  ASSUME Store, NEW h \in Handler, NEW t \in Token \ minted,
         NEW i \in DOMAIN invitations \cup {None},
         minted' = minted \cup {t}, states' = Put(states, t, i),
         UNCHANGED <<members, identities, links, invitations, uses, opened>>
  PROVE  Store' /\ Grows /\ Spares(h)
<1>1. /\ DOMAIN states' = DOMAIN states \cup {t} /\ states'[t] = i
      /\ \A x \in DOMAIN states : states'[x] = states[x]
  BY DEF Put, Store, Kinds
<1>2. Grows /\ Spares(h)
  BY DEF Grows, Spares, Pending
<1>4. Tables'
  BY <1>1 DEF Store, Tables
<1>5. Kinds' /\ Spent' /\ Signed'
  BY <1>1 DEF Store, Kinds, Spent, Signed
<1>6. Joined'
  BY <1>2, SameMembers, MembersStay DEF Store
<1>. QED  BY <1>2, <1>4, <1>5, <1>6 DEF Store

\* The three requests that mint a token and send it.
Sent(me, t, locks) == [me EXCEPT !.pc = "send", !.token = t, !.locks = locks]

LEMMA MintStep ==
  ASSUME Inv, NEW h \in Handler, NEW t, NEW locks,
         handler[h].op \in {"register", "resend", "invite"}, locks \subseteq handler[h].locks,
         Becomes(h, Sent(handler[h], t, locks)),
         Store', Grows, Spares(h), Spared(locks)
  PROVE  Inv'
<1>. DEFINE me == handler[h]
<1>0. IsCall(me) /\ Sound(me)
  BY DEF Inv, Formed
<1>c. PICK c : Becomes(h, c) /\ c = Sent(me, t, locks)
  OBVIOUS
<1>1. c = [pc |-> "send", op |-> me.op, user |-> me.user, mail |-> me.mail, org |-> me.org,
           role |-> me.role, token |-> t, invitation |-> me.invitation, sub |-> me.sub,
           fresh |-> me.fresh, locks |-> locks, barred |-> me.barred]
  BY <1>0, <1>c DEF IsCall, Sent
<1>2. IsCall(c) /\ c.pc = "send" /\ c.op = me.op /\ c.sub = me.sub /\ c.locks = locks
  BY <1>1 DEF IsCall
<1>3. Sound(c)
  BY <1>0, <1>2 DEF Sound, Placed, Aimed, Linked, Matched, Addressed, Taken, Joining
<1>4. Free(h, c.locks \ handler[h].locks)
  BY <1>2 DEF Free
<1>. QED  BY <1>c, <1>2, <1>3, <1>4, SameStep

LEMMA OwnersGrow ==
  ASSUME Joined, NEW k, members' = Put(members, k, Member(Owner))
  PROVE  MembersGrow
<1>1. IsMember(Member(Owner))
  BY DEF IsMember, Member
<1>. QED  BY <1>1 DEF Joined, MembersGrow, Put

LEMMA CommitRegistrationStep == ASSUME Inv, NEW h \in Handler, CommitRegistration(h) PROVE Inv'
<1>. DEFINE me == handler[h]
<1>0. /\ me.op = "register" /\ DOMAIN members \subseteq DOMAIN members'
      /\ members' = Put(members, <<me.org, me.user>>, Member(Owner))
      /\ UNCHANGED <<identities, invitations, states, uses, opened>>
  BY DEF CommitRegistration, At, ghosts, Put
<1>1. PICK t \in Token \ minted :
        /\ minted' = minted \cup {t} /\ links' = Put(links, t, NewLink(me.user))
        /\ Becomes(h, [me EXCEPT !.pc = "send", !.token = t, !.locks = {}])
  BY DEF CommitRegistration
<1>2. MembersGrow
  BY <1>0, OwnersGrow DEF Inv, Store
<1>3. Store' /\ Grows /\ Spares(h) /\ Spared({})
  BY <1>0, <1>1, <1>2, MintedLink DEF Inv
<1>4. Becomes(h, Sent(me, t, {}))
  BY <1>1 DEF Sent
<1>. QED  BY <1>0, <1>3, <1>4, MintStep

LEMMA MintLinkStep == ASSUME Inv, NEW h \in Handler, MintLink(h) PROVE Inv'
<1>. DEFINE me == handler[h]
<1>0. /\ me.op = "resend" /\ IsCall(me)
      /\ UNCHANGED <<members, identities, invitations, states, uses, opened>>
  BY DEF MintLink, At, ghosts, Inv, Formed
<1>1. PICK t \in Token \ minted :
        /\ minted' = minted \cup {t} /\ links' = Put(links, t, NewLink(me.user))
        /\ Becomes(h, [me EXCEPT !.pc = "send", !.token = t])
  BY DEF MintLink
<1>2. Store' /\ Grows /\ Spares(h) /\ Spared(me.locks)
  BY <1>0, <1>1, MintedLink, SameMembers DEF Inv, Store
<1>3. [me EXCEPT !.pc = "send", !.token = t] = Sent(me, t, me.locks)
  BY <1>0 DEF IsCall, Sent
<1>4. Becomes(h, Sent(me, t, me.locks))
  BY <1>1, <1>3
<1>. QED  BY <1>0, <1>2, <1>4, MintStep

LEMMA CreateInvitationStep == ASSUME Inv, NEW h \in Handler, CreateInvitation(h) PROVE Inv'
<1>. DEFINE me == handler[h]
            x == [org |-> me.org, mail |-> me.mail, role |-> me.role,
                  accepted |-> FALSE, revoked |-> FALSE, expired |-> FALSE]
<1>0. /\ me.op = "invite" /\ IsCall(me)
      /\ UNCHANGED <<members, identities, links, states, uses, opened>>
  BY DEF CreateInvitation, At, ghosts, Inv, Formed
<1>1. PICK t \in Token \ minted :
        /\ minted' = minted \cup {t} /\ invitations' = Put(invitations, t, x)
        /\ Becomes(h, [me EXCEPT !.pc = "send", !.token = t])
  BY DEF CreateInvitation
<1>x. IsInvitation(x) /\ ~x.accepted
  BY DEF IsInvitation
<1>. HIDE DEF x
<1>2. Store' /\ Grows /\ Spares(h) /\ Spared(me.locks)
  BY <1>0, <1>x, <1>1, MintedInvitation DEF Inv
<1>3. [me EXCEPT !.pc = "send", !.token = t] = Sent(me, t, me.locks)
  BY <1>0 DEF IsCall, Sent
<1>4. Becomes(h, Sent(me, t, me.locks))
  BY <1>1, <1>3
<1>. QED  BY <1>0, <1>2, <1>4, MintStep

LEMMA SaveStateStep == ASSUME Inv, NEW h \in Handler, SaveState(h) PROVE Inv'
<1>. DEFINE i == handler[h].invitation
<1>0. /\ At(h, "start", "save") /\ Answer(h)
      /\ UNCHANGED <<members, identities, links, invitations, uses, opened>>
  BY DEF SaveState, rows, ghosts
<1>1. i \in DOMAIN invitations \cup {None}
  BY <1>0 DEF Inv, Sound, Aimed, At
<1>2. PICK t \in Token \ minted : minted' = minted \cup {t} /\ states' = Put(states, t, i)
  BY DEF SaveState
<1>3. Store' /\ Grows /\ Spares(h)
  BY <1>0, <1>1, <1>2, MintedState DEF Inv
<1>. QED  BY <1>0, <1>3, AnswerStep

\* Rows are added to members or identities, and nothing else.
LEMMA Growth ==
  ASSUME Store, Grows, MembersGrow, UNCHANGED <<links, invitations, states, minted, uses, opened>>
  PROVE  Store' /\ \A locks : Spared(locks)
<1>1. Tables' /\ Kinds' /\ Spent'
  BY DEF Store, Tables, Kinds, Spent
<1>2. Signed'
  BY DEF Store, Signed, Grows
<1>3. Joined'
  BY MembersStay DEF Store
<1>. QED  BY <1>1, <1>2, <1>3 DEF Store, Spared, Pending

\* What spares whoever holds it spares the others.
LEMMA AllSpared ==
  ASSUME NEW h \in Handler, \A locks : Spared(locks)
  PROVE  Spares(h)
BY DEF Spares, Spared

LEMMA CommitOrganizationStep == ASSUME Inv, NEW h \in Handler, CommitOrganization(h) PROVE Inv'
<1>0. /\ Answer(h) /\ DOMAIN members \subseteq DOMAIN members'
      /\ members' = Put(members, <<handler[h].org, handler[h].user>>, Member(Owner))
      /\ UNCHANGED <<identities, links, invitations, states, minted, uses, opened>>
  BY DEF CommitOrganization, ghosts, Put
<1>1. Grows
  BY <1>0 DEF Grows
<1>2. MembersGrow
  BY <1>0, OwnersGrow DEF Inv, Store
<1>3. Store' /\ Spares(h)
  BY <1>0, <1>1, <1>2, Growth, AllSpared DEF Inv
<1>. QED  BY <1>0, <1>1, <1>3, AnswerStep

LEMMA SendStep == ASSUME Inv, NEW h \in Handler, Send(h) PROVE Inv'
<1>1. Answer(h) /\ Untouched
  BY DEF Send, Untouched, rows, ghosts
<1>. QED  BY <1>1, QuietAnswer

LEMMA ConfirmStep == ASSUME Inv, NEW h \in Handler, Confirm(h) PROVE Inv'
<1>. DEFINE me == handler[h]
<1>0. Sound(me) /\ Formed /\ Untouched /\ me.pc = "confirm" /\ Goto(h, "memberships")
  BY DEF Inv, Confirm, Untouched, ghosts
<1>1. PICK c : /\ IsCall(c) /\ Becomes(h, c) /\ c.pc = "memberships" /\ Alike(c, me)
               /\ c.locks = me.locks /\ Free(h, c.locks \ me.locks)
  BY <1>0, GotoFields
<1>2. Sound(c)
  BY <1>0, <1>1 DEF Alike, Sound, Placed, Aimed, Linked, Matched, Addressed, Taken, Joining
<1>. QED  BY <1>0, <1>1, <1>2, Quiet DEF Untouched

LEMMA CreateGoogleUserStep == ASSUME Inv, NEW h \in Handler, CreateGoogleUser(h) PROVE Inv'
<1>. DEFINE me == handler[h]
<1>0. Sound(me) /\ Formed /\ Untouched /\ At(h, "callback", "newuser")
  BY DEF Inv, CreateGoogleUser, Untouched, ghosts
<1>1. CASE Answer(h)
  BY <1>0, <1>1, QuietAnswer
<1>2. CASE Goto(h, "link")
  <2>1. PICK c : /\ IsCall(c) /\ Becomes(h, c) /\ c.pc = "link" /\ Alike(c, me)
                 /\ c.locks = me.locks /\ Free(h, c.locks \ me.locks)
    BY <1>0, <1>2, GotoFields
  <2>2. Sound(c)
    BY <1>0, <2>1 DEF At, Alike, Sound, Placed, Aimed, Linked, Matched, Addressed, Taken, Joining
  <2>. QED  BY <1>0, <2>1, <2>2, Quiet DEF Untouched
<1>. QED  BY <1>1, <1>2 DEF CreateGoogleUser

\* Rows of links change, but what was consumed stays so, and what is used is consumed.
LEMMA LinkUpdate ==
  ASSUME Store, DOMAIN links' = DOMAIN links,
         \A t \in DOMAIN links : IsLink(links'[t]) /\ (links[t].consumed => links'[t].consumed),
         UNCHANGED <<members, identities, invitations, states, minted, opened>>,
         uses' \in [Token -> {0, 1}],
         \A t \in Token : uses'[t] = 1 =>
           uses[t] = 1 \/ (t \in DOMAIN links /\ links'[t].consumed)
  PROVE  Store' /\ Grows /\ \A locks : Spared(locks)
<1>1. Grows /\ \A locks : Spared(locks)
  BY DEF Grows, Spared, Pending
<1>2. Tables' /\ Kinds' /\ Signed'
  BY DEF Store, Tables, IsLink, IsInvitation, Kinds, Signed
<1>3. Spent'
  BY DEF Store, Spent, Kinds
<1>4. Joined'
  BY <1>1, SameMembers, MembersStay DEF Store
<1>. QED  BY <1>1, <1>2, <1>3, <1>4 DEF Store

LEMMA ConsumeLinkStep == ASSUME Inv, NEW h \in Handler, ConsumeLink(h) PROVE Inv'
<1>. DEFINE me == handler[h]  t == me.token
<1>0. /\ Sound(me) /\ Formed /\ At(h, "verify", "consume")
      /\ UNCHANGED <<members, identities, invitations, states, minted, opened>>
  BY DEF Inv, ConsumeLink
<1>1. CASE Answer(h) /\ UNCHANGED <<links, uses>>
  BY <1>0, <1>1, QuietAnswer DEF Untouched
<1>2. ASSUME NEW pc \in {"confirm", "memberships"}, Goto(h, pc), Spendable(links[t]),
             links' = [links EXCEPT ![t].consumed = TRUE], Used(t)
      PROVE  Inv'
  <2>1. t \in DOMAIN links /\ t \in Token /\ uses \in [Token -> {0, 1}] /\ IsLink(links[t])
    BY <1>0 DEF At, Sound, Aimed, Inv, Store, Kinds, Spent, Tables
  <2>2. uses[t] = 0
    BY <1>2, <2>1 DEF Spendable, Inv, Store, Spent
  <2>3. uses' \in [Token -> {0, 1}] /\ \A x \in Token : uses'[x] = 1 => uses[x] = 1 \/ x = t
    BY <1>2, <2>1, <2>2 DEF Used
  <2>4. DOMAIN links' = DOMAIN links /\ \A x \in DOMAIN links : x # t => links'[x] = links[x]
    BY <1>2
  <2>5. IsLink(links'[t]) /\ links'[t].consumed
    BY <1>2, <2>1 DEF IsLink
  <2>6. \A x \in DOMAIN links : IsLink(links'[x]) /\ (links[x].consumed => links'[x].consumed)
    BY <2>4, <2>5 DEF Inv, Store, Tables
  <2>7. Store' /\ Grows /\ Spares(h) /\ \A locks : Spared(locks)
    BY <1>0, <2>1, <2>3, <2>4, <2>5, <2>6, LinkUpdate, AllSpared DEF Inv
  <2>8. PICK c : /\ IsCall(c) /\ Becomes(h, c) /\ c.pc = pc /\ Alike(c, me)
                 /\ c.locks = me.locks /\ Free(h, c.locks \ me.locks)
    BY <1>0, <1>2, GotoFields
  <2>9. Sound(c)
    BY <1>0, <2>8 DEF At, Alike, Sound, Placed, Aimed, Linked, Matched, Addressed, Taken, Joining
  <2>. QED  BY <2>7, <2>8, <2>9, SameStep
<1>. QED  BY <1>1, <1>2 DEF ConsumeLink

LEMMA RevokeLinksStep == ASSUME Inv, NEW h \in Handler, RevokeLinks(h) PROVE Inv'
<1>. DEFINE me == handler[h]
<1>0. /\ Sound(me) /\ Formed /\ At(h, "resend", "revoke") /\ Goto(h, "mint")
      /\ UNCHANGED <<members, identities, invitations, states, minted, uses, opened>>
  BY DEF Inv, RevokeLinks, ghosts
<1>1. DOMAIN links' = DOMAIN links
  BY DEF RevokeLinks
<1>2. ASSUME NEW x \in DOMAIN links
      PROVE  IsLink(links'[x]) /\ (links[x].consumed => links'[x].consumed)
  <2>1. IsLink(links[x])
    BY DEF Inv, Store, Tables
  <2>2. links'[x] = links[x] \/ links'[x] = [links[x] EXCEPT !.revoked = TRUE]
    BY DEF RevokeLinks
  <2>. QED  BY <2>1, <2>2 DEF IsLink
<1>3. Store' /\ Grows /\ Spares(h) /\ \A locks : Spared(locks)
  BY <1>0, <1>1, <1>2, LinkUpdate, AllSpared DEF Inv, Store, Spent
<1>4. PICK c : /\ IsCall(c) /\ Becomes(h, c) /\ c.pc = "mint" /\ Alike(c, me)
               /\ c.locks = me.locks /\ Free(h, c.locks \ me.locks)
  BY <1>0, GotoFields
<1>5. Sound(c)
  BY <1>0, <1>4 DEF At, Alike, Sound, Placed, Aimed, Linked, Matched, Addressed, Taken, Joining
<1>. QED  BY <1>3, <1>4, <1>5, SameStep

\* Rows of invitations are revoked or expire.
LEMMA InvitationUpdate ==
  ASSUME Store, DOMAIN invitations' = DOMAIN invitations,
         \A i \in DOMAIN invitations :
           /\ IsInvitation(invitations'[i]) /\ invitations'[i].org = invitations[i].org
           /\ invitations'[i].mail = invitations[i].mail
           /\ invitations'[i].role = invitations[i].role
           /\ invitations'[i].accepted = invitations[i].accepted,
         UNCHANGED <<members, identities, links, states, minted, uses, opened>>
  PROVE  Store' /\ Grows
<1>1. Grows
  BY DEF Grows
<1>2. Tables' /\ Kinds' /\ Signed'
  BY DEF Store, Tables, IsLink, IsInvitation, Kinds, Signed
<1>3. Spent'
  BY DEF Store, Spent
<1>4. Joined'
  BY <1>1, SameMembers, MembersStay DEF Store
<1>. QED  BY <1>1, <1>2, <1>3, <1>4 DEF Store

LEMMA WriteRevocationStep == ASSUME Inv, NEW h \in Handler, WriteRevocation(h) PROVE Inv'
<1>. DEFINE i == handler[h].invitation
<1>0. /\ Answer(h) /\ ~Blocked(h, <<"invitation", i>>)
      /\ invitations' = [invitations EXCEPT ![i].revoked = TRUE]
      /\ UNCHANGED <<members, identities, links, states, minted, uses, opened>>
  BY Unwaiting DEF WriteRevocation, At, ghosts
<1>1. /\ DOMAIN invitations' = DOMAIN invitations
      /\ \A x \in DOMAIN invitations : x # i => invitations'[x] = invitations[x]
  BY <1>0
<1>2. ASSUME NEW x \in DOMAIN invitations
      PROVE  /\ IsInvitation(invitations'[x]) /\ invitations'[x].org = invitations[x].org
             /\ invitations'[x].mail = invitations[x].mail
             /\ invitations'[x].role = invitations[x].role
             /\ invitations'[x].accepted = invitations[x].accepted
  <2>1. IsInvitation(invitations[x])
    BY DEF Inv, Store, Tables
  <2>2. CASE x = i
    <3>1. invitations'[x] = [invitations[x] EXCEPT !.revoked = TRUE]
      BY <1>0, <2>2
    <3>. QED  BY <2>1, <3>1 DEF IsInvitation
  <2>3. CASE x # i
    BY <1>1, <2>1, <2>3
  <2>. QED  BY <2>2, <2>3
<1>3. Spares(h)
  BY <1>0, <1>1 DEF Spares, Blocked, Pending
<1>4. Store' /\ Grows
  BY <1>0, <1>1, <1>2, InvitationUpdate DEF Inv
<1>. QED  BY <1>0, <1>3, <1>4, AnswerStep

LEMMA WriteRoleStep == ASSUME Inv, NEW h \in Handler, WriteRole(h) PROVE Inv'
<1>. DEFINE me == handler[h]  k == <<me.org, me.mail>>
<1>0. /\ Answer(h)
      /\ members' = [members EXCEPT ![k].role = me.role, ![k].changed = TRUE]
      /\ UNCHANGED <<identities, links, invitations, states, minted, uses, opened>>
  BY DEF WriteRole, ghosts
<1>1. DOMAIN members' = DOMAIN members
  BY <1>0
<1>2. Grows
  BY <1>0, <1>1 DEF Grows
<1>3. ASSUME NEW q \in DOMAIN members PROVE IsMember(members'[q])
  <2>1. IsMember(members[q])
    BY DEF Inv, Store, Joined
  <2>2. \/ members'[q] = members[q]
        \/ members'[q] = [members[q] EXCEPT !.role = me.role, !.changed = TRUE]
    BY <1>0
  <2>. QED  BY <2>1, <2>2 DEF IsMember
<1>4. Store' /\ Spares(h)
  BY <1>0, <1>1, <1>2, <1>3, Growth, AllSpared DEF Inv, MembersGrow
<1>. QED  BY <1>0, <1>2, <1>4, AnswerStep

\* What an acceptance does to the tables.
LEMMA Acceptance ==
  ASSUME Inv, NEW h \in Handler, CommitAcceptance(h),
         NEW me, me = handler[h], NEW i, i = me.invitation
  PROVE  Store' /\ Grows /\ Spares(h)
<1>. DEFINE k == <<me.org, me.user>>
<1>0. /\ Sound(me) /\ me.pc = "commit" /\ me.op \in Joining
      /\ invitations' = [invitations EXCEPT ![i].accepted = TRUE] /\ Used(i)
      /\ Opened(h, me.user, me.org)
      /\ members' = IF <<"member", k>> \in me.locks THEN Put(members, k, Member(me.role))
                    ELSE members
      /\ UNCHANGED <<identities, links, states, minted>>
  BY DEF Inv, CommitAcceptance, Joining
<1>1. i \in DOMAIN invitations /\ i \in Token /\ IsInvitation(invitations[i])
  BY <1>0 DEF Sound, Aimed, Joining, Inv, Store, Kinds, Tables
<1>2. <<"invitation", i>> \in me.locks /\ Pending(i)
  BY <1>0 DEF Sound, Taken
<1>3. DOMAIN members \subseteq DOMAIN members' /\ k \in DOMAIN members'
  BY <1>0 DEF Sound, Taken, Put
<1>4. /\ DOMAIN invitations' = DOMAIN invitations
      /\ \A x \in DOMAIN invitations : x # i => invitations'[x] = invitations[x]
      /\ IsInvitation(invitations'[i]) /\ invitations'[i].accepted
      /\ invitations'[i].org = invitations[i].org /\ invitations'[i].mail = invitations[i].mail
      /\ invitations'[i].role = invitations[i].role
  BY <1>0, <1>1 DEF IsInvitation
<1>5. Grows
  BY <1>0, <1>3, <1>4 DEF Grows
<1>6. Spares(h)
  <2>. SUFFICES ASSUME NEW g \in Handler \ {h}, NEW x \in DOMAIN invitations,
                       <<"invitation", x>> \in handler[g].locks, Pending(x)
                PROVE  Pending(x)'
    BY DEF Spares
  <2>1. <<"invitation", x>>[1] = "invitation"
    OBVIOUS
  <2>2. x # i
    BY <1>2, <2>1 DEF Inv, Apart
  <2>. QED  BY <1>4, <2>2 DEF Pending
<1>7. Tables' /\ Kinds'
  BY <1>0, <1>4 DEF Inv, Store, Tables, IsLink, IsInvitation, Kinds
<1>8. Spent'
  <2>1. uses \in [Token -> {0, 1}] /\ uses[i] = 0
    BY <1>1, <1>2 DEF Inv, Store, Spent, Pending
  <2>2. uses' \in [Token -> {0, 1}] /\ \A x \in Token : uses'[x] = 1 => uses[x] = 1 \/ x = i
    BY <1>0, <1>1, <2>1 DEF Used
  <2>3. i \in minted \ DOMAIN states /\ i \notin DOMAIN links
    BY <1>1 DEF Inv, Store, Kinds
  <2>. QED  BY <1>0, <1>4, <2>2, <2>3 DEF Inv, Store, Spent
<1>9. Signed'
  <2>1. PICK a : opened' = opened \cup {a} /\ a.sub = me.sub /\ a.user = me.user
    BY <1>0, OpenedForm
  <2>2. me.sub # None => me.sub \in DOMAIN identities /\ identities[me.sub] = me.user
    BY <1>0 DEF Sound, Linked
  <2>. QED  BY <1>0, <2>1, <2>2 DEF Inv, Store, Signed
<1>10. Reaches(invitations[i].mail, me.user)'
  BY <1>0, <1>4 DEF Sound, Addressed, Linked, Joining, Reaches
<1>11. AcceptedIsMember'
  <2>. SUFFICES ASSUME NEW x \in DOMAIN invitations', invitations'[x].accepted
                PROVE  \E q \in DOMAIN members' :
                         q[1] = invitations'[x].org /\ Reaches(invitations[x].mail, q[2])'
    BY DEF AcceptedIsMember, Reaches
  <2>1. CASE x = i
    <3>1. k[1] = me.org /\ k[2] = me.user /\ me.org = invitations[i].org
      BY <1>0 DEF Sound, Matched
    <3>2. Reaches(invitations[x].mail, k[2])'
      BY <1>10, <1>4, <2>1, <3>1 DEF Reaches
    <3>. QED  BY <1>3, <1>4, <2>1, <3>1, <3>2
  <2>2. CASE x # i
    <3>1. PICK q \in DOMAIN members :
                 q[1] = invitations[x].org /\ Reaches(invitations[x].mail, q[2])
      BY <1>4, <2>2 DEF Inv, Store, Joined, AcceptedIsMember
    <3>2. Reaches(invitations[x].mail, q[2])'
      BY <1>0, <1>4, <2>2, <3>1 DEF Reaches
    <3>. QED  BY <1>3, <1>4, <2>2, <3>1, <3>2
  <2>. QED  BY <2>1, <2>2
<1>12. MembersGrow
  <2>1. IsMember(Member(me.role))
    BY DEF IsMember, Member
  <2>. QED  BY <1>0, <2>1 DEF Put, Inv, Store, Joined, MembersGrow
<1>13. Joined'
  BY <1>11, <1>12 DEF Joined, MembersGrow
<1>. QED  BY <1>5, <1>6, <1>7, <1>8, <1>9, <1>13 DEF Store

LEMMA CommitAcceptanceStep == ASSUME Inv, NEW h \in Handler, CommitAcceptance(h) PROVE Inv'
<1>1. Answer(h)
  BY DEF CommitAcceptance
<1>2. Store' /\ Grows /\ Spares(h)
  BY Acceptance
<1>. QED  BY <1>1, <1>2, AnswerStep

\* A state of OAuth is taken away, by the request that uses it or by its time.
LEMMA StateGone ==
  ASSUME Store, NEW t, states' = [x \in DOMAIN states \ {t} |-> states[x]],
         UNCHANGED <<members, identities, links, invitations, minted, opened>>,
         UNCHANGED uses \/ (t \in DOMAIN states /\ Used(t))
  PROVE  Store' /\ Grows /\ \A locks : Spared(locks)
<1>1. Grows /\ \A locks : Spared(locks)
  BY DEF Grows, Spared, Pending
<1>2. Tables' /\ Kinds' /\ Signed'
  BY DEF Store, Tables, IsLink, IsInvitation, Kinds, Signed
<1>3. Spent'
  <2>1. CASE UNCHANGED uses
    BY <2>1 DEF Store, Spent
  <2>2. CASE t \in DOMAIN states /\ Used(t)
    <3>1. t \in Token /\ t \in minted /\ t \notin DOMAIN links /\ t \notin DOMAIN invitations
      BY <2>2 DEF Store, Kinds
    <3>2. uses \in [Token -> {0, 1}] /\ uses[t] = 0
      BY <2>2, <3>1 DEF Store, Spent
    <3>3. uses' \in [Token -> {0, 1}] /\ \A x \in Token : uses'[x] = 1 => uses[x] = 1 \/ x = t
      BY <2>2, <3>1, <3>2 DEF Used
    <3>. QED  BY <3>1, <3>3 DEF Store, Spent
  <2>. QED  BY <2>1, <2>2
<1>4. Joined'
  BY <1>1, SameMembers, MembersStay DEF Store
<1>. QED  BY <1>1, <1>2, <1>3, <1>4 DEF Store

LEMMA ConsumeStateStep == ASSUME Inv, NEW h \in Handler, ConsumeState(h) PROVE Inv'
<1>. DEFINE me == handler[h]  t == me.token
<1>0. /\ IsCall(me) /\ Sound(me) /\ Formed /\ At(h, "callback", "state")
      /\ states' = [x \in DOMAIN states \ {t} |-> states[x]]
      /\ UNCHANGED <<members, identities, links, invitations, minted, opened>>
      /\ UNCHANGED uses \/ (t \in DOMAIN states /\ Used(t))
  BY DEF Inv, Formed, ConsumeState, rows
<1>1. Store' /\ Grows /\ Spares(h) /\ \A locks : Spared(locks)
  BY <1>0, StateGone, AllSpared DEF Inv
<1>2. CASE Answer(h)
  BY <1>1, <1>2, AnswerStep
<1>3. ASSUME NEW i, t \in DOMAIN states, i = states[t],
             Becomes(h, [me EXCEPT !.pc = "identity", !.invitation = i])
      PROVE  Inv'
  <2>1. Becomes(h, Change(me, "identity", me.user, me.org, me.role, i, me.fresh))
    <3>1. [me EXCEPT !.pc = "identity", !.invitation = i]
            = Change(me, "identity", me.user, me.org, me.role, i, me.fresh)
      BY <1>0 DEF IsCall, Change
    <3>. QED  BY <1>3, <3>1
  <2>2. PICK c : /\ IsCall(c) /\ Becomes(h, c) /\ Free(h, c.locks \ me.locks)
                 /\ Changed(c, me, "identity", me.user, me.org, me.role, i, me.fresh)
    BY <1>0, <2>1, ChangeFields
  <2>3. i \in DOMAIN invitations \cup {None}
    BY <1>3 DEF Inv, Store, Tables
  <2>4. Placed(c) /\ Aimed(c) /\ Linked(c)
    BY <1>0, <2>2, <2>3 DEF At, Changed, Sound, Placed, Aimed, Linked
  <2>5. Matched(c) /\ Addressed(c) /\ Taken(c)
    BY <1>0, <2>2 DEF At, Changed, Sound, Matched, Addressed, Taken, Joining, Placed
  <2>. QED  BY <1>1, <2>2, <2>4, <2>5, SameStep DEF Sound
<1>. QED  BY <1>2, <1>3 DEF ConsumeState

LEMMA LinkIdentityStep == ASSUME Inv, NEW h \in Handler, LinkIdentity(h) PROVE Inv'
<1>. DEFINE me == handler[h]
<1>0. /\ Sound(me) /\ Formed /\ At(h, "callback", "link")
      /\ UNCHANGED <<members, links, invitations, states, minted, uses, opened>>
  BY DEF Inv, LinkIdentity, ghosts
<1>1. CASE Answer(h) /\ UNCHANGED identities
  BY <1>0, <1>1, QuietAnswer DEF Untouched
<1>2. ASSUME NEW pc \in {"confirm", "memberships"}, Goto(h, pc), me.sub \notin DOMAIN identities,
             identities' = Put(identities, me.sub, me.user)
      PROVE  Inv'
  <2>1. /\ me.sub \in DOMAIN identities' /\ identities'[me.sub] = me.user
        /\ \A s \in DOMAIN identities : s \in DOMAIN identities' /\ identities'[s] = identities[s]
    BY <1>2 DEF Put
  <2>2. Grows
    BY <1>0, <2>1 DEF Grows
  <2>3. Store' /\ Spares(h)
    BY <1>0, <2>2, Growth, SameMembers, AllSpared DEF Inv, Store
  <2>4. PICK c : /\ IsCall(c) /\ Becomes(h, c) /\ c.pc = pc /\ Alike(c, me)
                 /\ c.locks = me.locks /\ Free(h, c.locks \ me.locks)
    BY <1>0, <1>2, GotoFields
  <2>5. Placed(c)' /\ Aimed(c)'
    BY <1>0, <2>4 DEF At, Alike, Sound, Placed, Aimed
  <2>6. Linked(c)'
    BY <1>0, <2>1, <2>4 DEF At, Alike, Sound, Linked
  <2>7. Matched(c)' /\ Addressed(c)' /\ Taken(c)'
    BY <1>0, <2>4 DEF At, Alike, Matched, Addressed, Taken, Joining
  <2>. QED  BY <2>2, <2>3, <2>4, <2>5, <2>6, <2>7, Step DEF Sound
<1>. QED  BY <1>1, <1>2 DEF LinkIdentity

------------------------------------------------------------------------------
(* What happens to the tables while the requests stay where they are.         *)

LEMMA StillStep ==
  ASSUME Inv, UNCHANGED handler, Grows, \A locks : Spared(locks), Store'
  PROVE  Inv'
<1>1. Formed' /\ Apart'
  BY DEF Inv, Formed, IsCall, Apart
<1>2. ASSUME NEW g \in Handler PROVE Sound(handler[g])'
  <2>. DEFINE d == handler'[g]
  <2>1. \A x : x = d => Sound(x)'
    <3>. SUFFICES ASSUME NEW x, x = d PROVE Sound(x)'
      OBVIOUS
    <3>1. Sound(x) /\ Spared(x.locks)
      BY DEF Inv
    <3>. QED  BY <3>1, SoundKept
  <2>. QED  BY <2>1 DEF Sound, Placed, Aimed, Linked, Matched, Addressed, Taken, Pending
<1>. QED  BY <1>1, <1>2 DEF Inv

LEMMA SuspendStep == ASSUME Inv, Suspend PROVE Inv'
<1>0. UNCHANGED <<identities, links, invitations, states, minted, uses, opened, handler>>
  BY DEF Suspend, ghosts
<1>1. DOMAIN members \subseteq DOMAIN members'
  BY DEF Suspend
<1>2. Grows
  BY <1>0, <1>1 DEF Grows
<1>4. MembersGrow
  <2>. SUFFICES ASSUME NEW k \in DOMAIN members'
                PROVE  IsMember(members'[k])
    BY DEF MembersGrow
  <2>1. k \in DOMAIN members /\ IsMember(members[k])
    BY DEF Suspend, Inv, Store, Joined
  <2>2. members'[k] = members[k] \/ members'[k] = [members[k] EXCEPT !.active = FALSE]
    BY <2>1 DEF Suspend
  <2>. QED  BY <2>1, <2>2 DEF IsMember
<1>3. Store' /\ \A locks : Spared(locks)
  BY <1>0, <1>2, <1>4, Growth DEF Inv
<1>. QED  BY <1>0, <1>2, <1>3, StillStep

LEMMA ExpireStep == ASSUME Inv, Expire PROVE Inv'
<1>0. UNCHANGED <<members, identities, minted, uses, opened, handler>>
  BY DEF Expire, ghosts
<1>1. ASSUME NEW t \in DOMAIN links, links' = [links EXCEPT ![t].expired = TRUE],
             UNCHANGED <<invitations, states>>
      PROVE  Inv'
  <2>1. ASSUME NEW x \in DOMAIN links
        PROVE  IsLink(links'[x]) /\ links'[x].consumed = links[x].consumed
    <3>1. IsLink(links[x])
      BY DEF Inv, Store, Tables
    <3>2. links'[x] = links[x] \/ links'[x] = [links[x] EXCEPT !.expired = TRUE]
      BY <1>1
    <3>. QED  BY <3>1, <3>2 DEF IsLink
  <2>2. DOMAIN links' = DOMAIN links /\ uses' \in [Token -> {0, 1}]
    BY <1>0, <1>1 DEF Inv, Store, Spent
  <2>3. Store' /\ Grows /\ \A locks : Spared(locks)
    BY <1>0, <1>1, <2>1, <2>2, LinkUpdate DEF Inv
  <2>. QED  BY <1>0, <2>3, StillStep
<1>2. ASSUME NEW t \in DOMAIN invitations,
             invitations' = [invitations EXCEPT ![t].expired = TRUE], UNCHANGED <<links, states>>
      PROVE  Inv'
  <2>1. ASSUME NEW x \in DOMAIN invitations
        PROVE  /\ IsInvitation(invitations'[x]) /\ invitations'[x].org = invitations[x].org
               /\ invitations'[x].mail = invitations[x].mail
               /\ invitations'[x].role = invitations[x].role
               /\ invitations'[x].accepted = invitations[x].accepted
               /\ invitations'[x].revoked = invitations[x].revoked
    <3>1. IsInvitation(invitations[x])
      BY DEF Inv, Store, Tables
    <3>2. \/ invitations'[x] = invitations[x]
          \/ invitations'[x] = [invitations[x] EXCEPT !.expired = TRUE]
      BY <1>2
    <3>. QED  BY <3>1, <3>2 DEF IsInvitation
  <2>2. DOMAIN invitations' = DOMAIN invitations
    BY <1>2
  <2>3. \A locks : Spared(locks)
    BY <2>1 DEF Spared, Pending
  <2>4. Store' /\ Grows
    BY <1>0, <1>2, <2>1, <2>2, InvitationUpdate DEF Inv
  <2>. QED  BY <1>0, <2>3, <2>4, StillStep
<1>3. ASSUME NEW t \in DOMAIN states, states' = [x \in DOMAIN states \ {t} |-> states[x]],
             UNCHANGED <<links, invitations>>
      PROVE  Inv'
  <2>1. Store' /\ Grows /\ \A locks : Spared(locks)
    BY <1>0, <1>3, StateGone DEF Inv
  <2>. QED  BY <1>0, <2>1, StillStep
<1>. QED  BY <1>1, <1>2, <1>3 DEF Expire

------------------------------------------------------------------------------
(* The invariant holds.                                                       *)

LEMMA ServeStep == ASSUME Inv, NEW h \in Handler, Serve(h) PROVE Inv'
<1>1. \/ LookForUser(h) \/ ChooseSlug(h) \/ InsertUser(h) \/ InsertOrganization(h)
      \/ CommitRegistration(h) \/ CommitOrganization(h) \/ Send(h)
      => Inv'
  BY LookForUserStep, ChooseSlugStep, InsertStep, CommitRegistrationStep, CommitOrganizationStep,
     SendStep
<1>2. \/ ReadLink(h) \/ ConsumeLink(h) \/ Confirm(h) \/ ReadMemberships(h)
      \/ LookResend(h) \/ RevokeLinks(h) \/ MintLink(h)
      => Inv'
  BY ReadLinkStep, ConsumeLinkStep, ConfirmStep, ReadMembershipsStep, PlainStep, RevokeLinksStep,
     MintLinkStep
<1>3. \/ Permit(h) \/ CreateInvitation(h) \/ FindInvitation(h) \/ WriteRevocation(h)
      \/ FindTarget(h) \/ WriteRole(h)
      \/ ReadInvitation(h) \/ MatchUser(h) \/ FindConflict(h) \/ FindOrganization(h)
      \/ TakeInvitation(h) \/ Enroll(h) \/ CommitAcceptance(h)
      => Inv'
  BY PermitStep, CreateInvitationStep, PlainStep, WriteRevocationStep, WriteRoleStep,
     ReadInvitationStep, TakeInvitationStep, EnrollStep, CommitAcceptanceStep
<1>4. \/ SaveState(h) \/ ConsumeState(h) \/ FindIdentity(h) \/ FindNewcomer(h)
      \/ CreateGoogleUser(h) \/ LinkIdentity(h) \/ ClaimInvitation(h) \/ MatchAddressee(h)
      => Inv'
  BY SaveStateStep, ConsumeStateStep, FindIdentityStep, FindNewcomerStep, CreateGoogleUserStep,
     LinkIdentityStep, ClaimInvitationStep, MatchAddresseeStep
<1>. QED  BY <1>1, <1>2, <1>3, <1>4 DEF Serve

LEMMA NextInv == ASSUME Inv, [Next]_vars PROVE Inv'
<1>1. ASSUME NEW h \in Handler, Ask(h) \/ Serve(h) \/ Crash(h) PROVE Inv'
  BY <1>1, AskStep, ServeStep, PlainStep
<1>2. CASE UNCHANGED vars
  <2>1. UNCHANGED <<handler, links, members, identities, invitations, states, minted, uses, opened>>
    BY <1>2 DEF vars, tables, rows, ghosts
  <2>2. Grows
    BY <2>1 DEF Grows
  <2>3. Store' /\ \A locks : Spared(locks)
    BY <2>1, <2>2, Growth, SameMembers DEF Inv, Store
  <2>. QED  BY <2>1, <2>2, <2>3, StillStep
<1>. QED  BY <1>1, <1>2, SuspendStep, ExpireStep DEF Next

LEMMA Invariant == Spec => []Inv
<1>1. Inv /\ [Next]_vars => Inv'
  BY NextInv
<1>. QED  BY InitInv, <1>1, PTL DEF Spec

------------------------------------------------------------------------------
(* Rows, and what a request knows of them: types, and who is suspended.       *)

\* No two transactions hold anything together.
Exclusive ==
  \A g, h \in Handler : g # h => handler[g].locks \cap handler[h].locks = {}

\* A member who is not an owner.
Ordinary(k) == k \in DOMAIN members /\ members[k].role # Owner

\* Users and organizations a request works on are there, or about to be; a role is changed
\* to another than that of an owner, and only where it is another.
Typed(c) ==
  /\ c.pc = "idle" => c = Idle
  /\ c.op \in {"found", "resend", "accept"} => c.user \in DOMAIN users
  /\ c.op = "register" => c.user \in Mail
  /\ c.op = "callback" /\ c.pc = "newuser" => c.user \in Mail
  /\ c.op = "callback" /\ c.pc = "link" => c.user \in DOMAIN users
  /\ c.op \in {"register", "found"} /\ c.pc \in {"user", "create", "commit"} => c.org \in Slug
  /\ c.op = "invite" => c.org \in DOMAIN organizations /\ c.mail \in Mail
  /\ c.op = "invite" /\ c.pc = "write" => c.role \in Role \ {Owner}
  /\ c.op = "change" => c.role \in Role
  /\ c.op = "change" /\ c.pc = "write" => c.role # Owner /\ Ordinary(<<c.org, c.mail>>)
  /\ c.pc = "send" => c.token \in minted
  /\ c.pc \in {"organization", "take", "enroll"} => c.op \in Joining
  /\ c.pc \in {"confirm", "memberships"} => c.op \in {"verify", "callback"}

\* A transaction takes an invitation before an email, and both before the rest; what it
\* inserts nobody else has inserted, and before it commits it has inserted all it needs.
Reserved(c) ==
  /\ c.pc \notin {"user", "create", "enroll", "commit"} => c.locks = {}
  /\ \A s \in c.locks :
       /\ c.pc = "user" => s[1] = "invitation"
       /\ c.pc \in {"create", "enroll"} => s[1] \in {"invitation", "mail"}
       /\ s = <<s[1], s[2]>>
       /\ s[1] = "mail" => s[2] \notin DOMAIN users
       /\ s[1] = "slug" => s[2] \notin DOMAIN organizations
       /\ s[1] = "member" => s[2] \notin DOMAIN members /\ s[2][1] \in DOMAIN organizations
  /\ c.op = "register" /\ c.pc \in {"create", "commit"} => <<"mail", c.user>> \in c.locks
  /\ c.op \in {"register", "found"} /\ c.pc = "commit" => <<"slug", c.org>> \in c.locks
  /\ c.op = "join" /\ c.pc \in {"enroll", "commit"} => <<"mail", c.user>> \in c.locks

\* Where a request has seen its user, its organization or its membership to be usable
\* or not to be there ...
UserSeen(c) ==
  \/ c.op = "verify" /\ c.pc \in {"consume", "confirm", "memberships"}
  \/ c.op = "accept" /\ c.pc \in {"conflict", "organization", "take", "enroll", "commit"}
  \/ c.op = "join" /\ c.pc \in {"organization", "take", "user", "enroll", "commit"}
  \/ /\ c.op = "callback"
     /\ c.pc \in {"newuser", "link", "confirm", "memberships", "claim", "organization", "addressee",
                  "take", "enroll", "commit"}
OrganizationSeen(c) ==
  c.op \in Joining /\ c.pc \in {"addressee", "take", "user", "enroll", "commit"}
MemberSeen(c) ==
  \/ c.op \in {"accept", "join"} /\ c.pc = "commit"
  \/ c.op = "callback" /\ c.pc \in {"take", "enroll", "commit"}

\* ... it was not suspended when the request began.
Cleared(c) ==
  /\ UserSeen(c) => <<c.user>> \notin c.barred
  /\ OrganizationSeen(c) => <<c.org>> \notin c.barred
  /\ MemberSeen(c) => <<c.org, c.user>> \notin c.barred
  /\ c.barred \subseteq Barred

Guarded(c) == Typed(c) /\ Reserved(c) /\ Cleared(c)

\* The rows: TypeOK but for the requests, and their shape.
IsUser(x) == x = [verified |-> x.verified, active |-> x.active]
Rows ==
  /\ DOMAIN users \subseteq Mail /\ DOMAIN organizations \subseteq Slug
  /\ \A m \in DOMAIN users : IsUser(users[m])
  /\ DOMAIN members \subseteq (DOMAIN organizations) \X (DOMAIN users)
  /\ \A k \in DOMAIN members : members[k].role \in Role
  /\ \A x \in DOMAIN identities : identities[x] \in DOMAIN users
  /\ \A t \in DOMAIN links : links[t].mail \in DOMAIN users
  /\ \A t \in DOMAIN invitations :
       /\ invitations[t].org \in DOMAIN organizations /\ invitations[t].mail \in Mail
       /\ invitations[t].role \in Role \ {Owner}
  /\ inbox \subseteq minted

GuardInv ==
  Exclusive /\ (\A h \in Handler : Guarded(handler[h])) /\ Rows /\ BarredStaysOut

LEMMA Pairs ==
  ASSUME NEW A, NEW B, NEW k \in A \X B
  PROVE  k[1] \in A /\ k[2] \in B /\ k = <<k[1], k[2]>>
OBVIOUS

LEMMA MemberRows ==
  ASSUME Rows, NEW k \in DOMAIN members
  PROVE  /\ k[1] \in DOMAIN organizations /\ k[2] \in DOMAIN users /\ k = <<k[1], k[2]>>
         /\ members[k].role \in Role
<1>1. k \in (DOMAIN organizations) \X (DOMAIN users) /\ members[k].role \in Role
  BY DEF Rows
<1>. QED  BY <1>1, Pairs

LEMMA GuardGives == ASSUME Inv, GuardInv PROVE TypeOK
<1>1. DOMAIN links \cup DOMAIN invitations \cup DOMAIN states \cup inbox \subseteq minted
  BY DEF Inv, Store, Kinds, GuardInv, Rows
<1>2. \A h \in Handler : handler[h].pc = "idle" => handler[h] = Idle
  BY DEF GuardInv, Guarded, Typed
<1>3. \A k \in DOMAIN members :
        k[1] \in DOMAIN organizations /\ k[2] \in DOMAIN users /\ members[k].role \in Role
  BY MemberRows DEF GuardInv
<1>4. /\ DOMAIN users \subseteq Mail /\ DOMAIN organizations \subseteq Slug
      /\ \A x \in DOMAIN identities : identities[x] \in DOMAIN users
      /\ \A t \in DOMAIN links : links[t].mail \in DOMAIN users
      /\ \A t \in DOMAIN invitations :
           invitations[t].org \in DOMAIN organizations /\ invitations[t].role \in Role \ {Owner}
  BY DEF GuardInv, Rows
<1>. QED  BY <1>1, <1>2, <1>3, <1>4, Zenon DEF TypeOK

LEMMA IdleGuarded == Guarded(Idle)
<1>1. Idle.pc = "idle" /\ Idle.op = "none" /\ Idle.locks = {} /\ Idle.barred = {}
  BY DEF Idle
<1>2. Typed(Idle)
  BY <1>1 DEF Typed, Joining
<1>3. Reserved(Idle)
  BY <1>1 DEF Reserved
<1>4. Cleared(Idle)
  BY <1>1 DEF Cleared, UserSeen, OrganizationSeen, MemberSeen, Joining
<1>. QED  BY <1>2, <1>3, <1>4 DEF Guarded

LEMMA GuardInit == ASSUME Init PROVE GuardInv
<1>1. \A h \in Handler : handler[h] = Idle
  BY DEF Init
<1>2. Exclusive
  BY <1>1 DEF Exclusive, Idle
<1>7. \A h \in Handler : Guarded(handler[h])
  BY <1>1, IdleGuarded
<1>3. DOMAIN members = DOMAIN Members /\ \A k \in DOMAIN members : members[k].role \in Role
  BY MembersAssumption DEF Init
<1>4. /\ DOMAIN users = {k[2] : k \in DOMAIN Members} /\ \A m \in DOMAIN users : IsUser(users[m])
      /\ DOMAIN organizations = {k[1] : k \in DOMAIN Members}
  BY DEF Init, IsUser
<1>5. /\ DOMAIN users \subseteq Mail /\ DOMAIN organizations \subseteq Slug
      /\ DOMAIN members \subseteq (DOMAIN organizations) \X (DOMAIN users)
  <2>1. ASSUME NEW k \in DOMAIN Members
        PROVE  /\ k[1] \in Slug /\ k[2] \in Mail
               /\ k \in (DOMAIN organizations) \X (DOMAIN users)
    <3>1. k \in Slug \X Mail
      BY MembersAssumption
    <3>2. k[1] \in Slug /\ k[2] \in Mail /\ k = <<k[1], k[2]>>
      BY <3>1, Pairs
    <3>3. k[1] \in DOMAIN organizations /\ k[2] \in DOMAIN users
      BY <1>4
    <3>4. <<k[1], k[2]>> \in (DOMAIN organizations) \X (DOMAIN users)
      BY <3>3
    <3>. QED  BY <3>2, <3>4
  <2>2. DOMAIN users \subseteq Mail /\ DOMAIN organizations \subseteq Slug
    BY <1>4, <2>1
  <2>3. DOMAIN members \subseteq (DOMAIN organizations) \X (DOMAIN users)
    BY <1>3, <2>1
  <2>. QED  BY <2>2, <2>3
<1>8. /\ DOMAIN identities = {} /\ DOMAIN links = {} /\ DOMAIN invitations = {} /\ inbox = {}
      /\ opened = {}
  BY DEF Init
<1>6. Rows /\ BarredStaysOut
  BY <1>3, <1>4, <1>5, <1>8 DEF Rows, BarredStaysOut
<1>. QED  BY <1>2, <1>6, <1>7 DEF GuardInv

------------------------------------------------------------------------------
(* What a step may do to the other requests.                                  *)

\* Users, organizations and tokens stay, and so does what is suspended; nobody becomes
\* an owner.
Widens ==
  /\ DOMAIN users \subseteq DOMAIN users' /\ DOMAIN organizations \subseteq DOMAIN organizations'
  /\ minted \subseteq minted' /\ Barred \subseteq Barred'
  /\ \A k \in DOMAIN members : Ordinary(k) => Ordinary(k)'

\* What somebody else is about to insert is not inserted.
Leaves(locks) ==
  \A s \in locks :
    /\ s[1] = "mail" /\ s[2] \notin DOMAIN users => s[2] \notin DOMAIN users'
    /\ s[1] = "slug" /\ s[2] \notin DOMAIN organizations => s[2] \notin DOMAIN organizations'
    /\ s[1] = "member" /\ s[2] \notin DOMAIN members /\ s[2][1] \in DOMAIN organizations
         => s[2] \notin DOMAIN members'

LEMMA GuardedKept ==
  ASSUME NEW c, Guarded(c), Widens, Leaves(c.locks)
  PROVE  Guarded(c)'
<1>1. Typed(c)'
  BY DEF Guarded, Typed, Widens, Ordinary
<1>2. Reserved(c)'
  BY DEF Guarded, Reserved, Widens, Leaves
<1>3. Cleared(c)'
  BY DEF Guarded, Cleared, Widens, UserSeen, OrganizationSeen, MemberSeen
<1>. QED  BY <1>1, <1>2, <1>3 DEF Guarded

\* What h holds from now on nobody else does.
Unheld(h, locks) == \A s \in locks : \A g \in Handler \ {h} : s \notin handler[g].locks

\* A step by which h becomes c.
LEMMA GuardStep ==
  ASSUME Formed, GuardInv, NEW h \in Handler, NEW c, IsCall(c), Becomes(h, c), Guarded(c)',
         Unheld(h, c.locks \ handler[h].locks), Widens,
         \A g \in Handler \ {h} : Leaves(handler[g].locks), Rows', BarredStaysOut'
  PROVE  GuardInv'
<1>1. handler'[h] = c /\ \A g \in Handler : g # h => handler'[g] = handler[g]
  BY StepForms
<1>2. Unheld(h, c.locks)
  BY DEF Unheld, GuardInv, Exclusive
<1>3. Exclusive'
  <2>. SUFFICES ASSUME NEW f \in Handler, NEW g \in Handler, f # g, NEW s,
                       s \in handler'[f].locks, s \in handler'[g].locks
                PROVE  FALSE
    BY DEF Exclusive
  <2>1. CASE f # h /\ g # h
    BY <1>1, <2>1 DEF GuardInv, Exclusive
  <2>2. CASE f = h \/ g = h
    BY <1>1, <1>2, <2>2 DEF Unheld
  <2>. QED  BY <2>1, <2>2
<1>4. ASSUME NEW g \in Handler PROVE Guarded(handler[g])'
  <2>. DEFINE d == handler'[g]
  <2>1. \A x : x = d => Guarded(x)'
    <3>1. CASE g = h
      BY <1>1, <3>1
    <3>2. CASE g # h
      <4>. SUFFICES ASSUME NEW x, x = d PROVE Guarded(x)'
        OBVIOUS
      <4>1. x = handler[g]
        BY <1>1, <3>2
      <4>2. Guarded(x) /\ Leaves(x.locks)
        BY <3>2, <4>1 DEF GuardInv
      <4>. QED  BY <4>2, GuardedKept
    <3>. QED  BY <3>1, <3>2
  <2>. QED  BY <2>1 DEF Guarded, Typed, Ordinary, Reserved, Cleared, UserSeen, OrganizationSeen,
                     MemberSeen, Barred
<1>. QED  BY <1>3, <1>4 DEF GuardInv

\* A step that leaves alone what the invariant looks at.
Rested == UNCHANGED <<users, organizations, members, identities, links, invitations, inbox, minted,
                      opened>>

LEMMA RestWidens ==
  ASSUME UNCHANGED <<users, organizations, members>>, minted \subseteq minted'
  PROVE  Widens /\ \A locks : Leaves(locks)
BY DEF Widens, Leaves, Barred, Ordinary

LEMMA GuardQuiet ==
  ASSUME Formed, GuardInv, NEW h \in Handler, NEW c, IsCall(c), Becomes(h, c), Guarded(c),
         Unheld(h, c.locks \ handler[h].locks), Rested
  PROVE  GuardInv'
<1>1. Widens /\ \A locks : Leaves(locks)
  BY RestWidens DEF Rested
<1>2. Guarded(c)'
  BY <1>1, GuardedKept
<1>3. Rows' /\ BarredStaysOut'
  BY DEF Rested, GuardInv, Rows, IsUser, BarredStaysOut
<1>. QED  BY <1>1, <1>2, <1>3, GuardStep

LEMMA GuardAnswer ==
  ASSUME Formed, GuardInv, NEW h \in Handler, Answer(h), Widens,
         \A g \in Handler \ {h} : Leaves(handler[g].locks), Rows', BarredStaysOut'
  PROVE  GuardInv'
<1>1. IsCall(Idle) /\ Becomes(h, Idle) /\ Idle.locks = {}
  BY IdleSound DEF Answer
<1>2. Guarded(Idle)'
  BY <1>1, IdleGuarded, GuardedKept DEF Leaves
<1>3. Unheld(h, Idle.locks \ handler[h].locks)
  BY <1>1 DEF Unheld
<1>. QED  BY <1>1, <1>2, <1>3, GuardStep

LEMMA GuardQuietAnswer ==
  ASSUME Formed, GuardInv, NEW h \in Handler, Answer(h), Rested
  PROVE  GuardInv'
<1>1. Widens /\ \A locks : Leaves(locks)
  BY RestWidens DEF Rested
<1>2. Rows' /\ BarredStaysOut'
  BY DEF Rested, GuardInv, Rows, IsUser, BarredStaysOut
<1>. QED  BY <1>1, <1>2, GuardAnswer

------------------------------------------------------------------------------
(* Who is suspended.                                                          *)

LEMMA UserFree ==
  ASSUME Rows, NEW u \in Mail, u \in DOMAIN users => users[u].active
  PROVE  <<u>> \notin Barred
<1>1. u \notin DOMAIN organizations
  BY MailAssumption DEF Rows
<1>2. <<u>> \notin DOMAIN members
  <2>. SUFFICES ASSUME <<u>> \in DOMAIN members PROVE FALSE
    OBVIOUS
  <2>. QED  BY MemberRows
<1>. QED  BY <1>1, <1>2 DEF Barred

LEMMA OrganizationFree ==
  ASSUME Rows, NEW o \in Slug, o \in DOMAIN organizations => organizations[o]
  PROVE  <<o>> \notin Barred
<1>1. o \notin DOMAIN users
  BY MailAssumption DEF Rows
<1>2. <<o>> \notin DOMAIN members
  <2>. SUFFICES ASSUME <<o>> \in DOMAIN members PROVE FALSE
    OBVIOUS
  <2>. QED  BY MemberRows
<1>. QED  BY <1>1, <1>2 DEF Barred

LEMMA MemberFree ==
  ASSUME Rows, NEW o, NEW u, <<o, u>> \in DOMAIN members => members[<<o, u>>].active
  PROVE  <<o, u>> \notin Barred
BY DEF Barred

LEMMA NobodyFree ==
  ASSUME Rows, NEW u
  PROVE  <<None>> \notin Barred /\ <<None, u>> \notin Barred
<1>1. None \notin DOMAIN users /\ None \notin DOMAIN organizations
  BY SlugAssumption DEF Rows
<1>2. <<None>> \notin DOMAIN members /\ <<None, u>> \notin DOMAIN members
  <2>1. ASSUME <<None>> \in DOMAIN members PROVE FALSE
    BY <2>1, MemberRows
  <2>2. ASSUME <<None, u>> \in DOMAIN members PROVE FALSE
    BY <1>1, <2>2, MemberRows
  <2>. QED  BY <2>1, <2>2
<1>. QED  BY <1>1, <1>2 DEF Barred

\* Rows are added, or suspended.
LEMMA BarredGrows ==
  ASSUME \A m \in DOMAIN users : m \in DOMAIN users' /\ (users'[m].active => users[m].active),
         \A o \in DOMAIN organizations :
           o \in DOMAIN organizations' /\ (organizations'[o] => organizations[o]),
         \A k \in DOMAIN members :
           k \in DOMAIN members' /\ (members'[k].active => members[k].active)
  PROVE  Barred \subseteq Barred'
<1>1. ASSUME NEW b \in Barred PROVE b \in Barred'
  <2>1. CASE \E m \in DOMAIN users : ~users[m].active /\ b = <<m>>
    BY <2>1 DEF Barred
  <2>2. CASE \E o \in DOMAIN organizations : ~organizations[o] /\ b = <<o>>
    BY <2>2 DEF Barred
  <2>3. CASE b \in DOMAIN members /\ ~members[b].active
    BY <2>3 DEF Barred
  <2>. QED  BY <2>1, <2>2, <2>3 DEF Barred
<1>. QED  BY <1>1

LEMMA OpenedClean ==
  ASSUME NEW h, NEW user, NEW org, Opened(h, user, org), BarredStaysOut,
         <<user>> \notin handler[h].barred, <<org>> \notin handler[h].barred,
         <<org, user>> \notin handler[h].barred
  PROVE  BarredStaysOut'
<1>. DEFINE hit == handler[h].barred \cap {<<user>>, <<org>>, <<org, user>>}
            a == [user |-> user, org |-> org, sub |-> handler[h].sub, barred |-> hit # {}]
<1>1. opened' = opened \cup {a}
  BY DEF Opened
<1>2. hit = {}
  OBVIOUS
<1>3. ~a.barred
  BY <1>2
<1>. QED  BY <1>1, <1>3 DEF BarredStaysOut

------------------------------------------------------------------------------
(* Steps that leave the rows alone.                                           *)

\* A request goes on with what it had: what it knows is what it knew, and what it has
\* seen by now.
LEMMA GuardGoto ==
  ASSUME Formed, GuardInv, NEW h \in Handler, NEW pc, Goto(h, pc), Rested,
         \A c : /\ c.pc = pc /\ Alike(c, handler[h]) /\ c.locks = handler[h].locks
                => Guarded(c)
  PROVE  GuardInv'
<1>1. PICK c : /\ IsCall(c) /\ Becomes(h, c) /\ c.pc = pc /\ Alike(c, handler[h])
               /\ c.locks = handler[h].locks /\ Free(h, c.locks \ handler[h].locks)
  BY GotoFields
<1>2. Guarded(c) /\ Unheld(h, c.locks \ handler[h].locks)
  BY <1>1 DEF Unheld
<1>. QED  BY <1>1, <1>2, GuardQuiet

LEMMA GuardLock ==
  ASSUME Formed, GuardInv, NEW h \in Handler, NEW pc, NEW s, Lock(h, pc, s), Rested,
         ~Blocked(h, s),
         \A c : /\ c.pc = pc /\ Alike(c, handler[h]) /\ c.locks = handler[h].locks \cup {s}
                => Guarded(c)
  PROVE  GuardInv'
<1>1. PICK c : /\ IsCall(c) /\ Becomes(h, c) /\ c.pc = pc /\ Alike(c, handler[h])
               /\ c.locks = handler[h].locks \cup {s}
  BY LockShape
<1>2. Guarded(c) /\ Unheld(h, c.locks \ handler[h].locks)
  BY <1>1 DEF Unheld, Blocked
<1>. QED  BY <1>1, <1>2, GuardQuiet

LEMMA GuardChange ==
  ASSUME Formed, GuardInv, NEW h \in Handler, NEW pc, NEW user, NEW org, NEW role,
         NEW invitation, NEW fresh, Rested,
         Becomes(h, Change(handler[h], pc, user, org, role, invitation, fresh)),
         \A c : Changed(c, handler[h], pc, user, org, role, invitation, fresh) => Guarded(c)
  PROVE  GuardInv'
<1>1. PICK c : /\ IsCall(c) /\ Becomes(h, c)
               /\ Changed(c, handler[h], pc, user, org, role, invitation, fresh)
  BY ChangeFields
<1>2. Guarded(c) /\ Unheld(h, c.locks \ handler[h].locks)
  BY <1>1 DEF Unheld, Changed
<1>. QED  BY <1>1, <1>2, GuardQuiet

LEMMA GuardLookForUser ==
  ASSUME Inv, GuardInv, NEW h \in Handler, LookForUser(h) PROVE GuardInv'
<1>. DEFINE me == handler[h]  pc == IF me.op = "join" THEN "organization" ELSE "slug"
<1>0. Formed /\ Sound(me) /\ Guarded(me) /\ Rows /\ Rested /\ me.pc = "look"
  BY DEF Inv, GuardInv, LookForUser, Rested, tables, rows, ghosts
<1>1. CASE Answer(h)
  BY <1>0, <1>1, GuardQuietAnswer
<1>2. CASE me.user \notin DOMAIN users /\ Goto(h, pc)
  <2>1. me.user \in Mail
    BY <1>0 DEF Sound, Placed, Addressed, Aimed, Guarded, Typed, Rows
  <2>2. <<me.user>> \notin me.barred
    BY <1>0, <1>2, <2>1, UserFree DEF Guarded, Cleared
  <2>3. ASSUME NEW c, c.pc = pc /\ Alike(c, me) /\ c.locks = me.locks PROVE Guarded(c)
    <3>1. Typed(c)
      BY <1>0, <2>1, <2>3 DEF Alike, Guarded, Typed, Sound, Placed, Joining
    <3>2. Reserved(c)
      BY <1>0, <2>3 DEF Alike, Guarded, Reserved
    <3>3. Cleared(c)
      BY <1>0, <2>2, <2>3 DEF Alike, Guarded, Cleared, UserSeen, OrganizationSeen, MemberSeen
    <3>. QED  BY <3>1, <3>2, <3>3 DEF Guarded
  <2>. QED  BY <1>0, <1>2, <2>3, GuardGoto
<1>. QED  BY <1>1, <1>2 DEF LookForUser

LEMMA GuardInsertUser ==
  ASSUME Inv, GuardInv, NEW h \in Handler, InsertUser(h) PROVE GuardInv'
<1>. DEFINE me == handler[h]  pc == IF me.op = "join" THEN "enroll" ELSE "create"
            s == <<"mail", me.user>>
<1>0. /\ Formed /\ Sound(me) /\ Guarded(me) /\ Rows /\ Rested /\ me.pc = "user"
      /\ ~Blocked(h, s)
  BY Unwaiting DEF Inv, GuardInv, InsertUser, Rested, tables, rows, ghosts
<1>1. CASE Answer(h)
  BY <1>0, <1>1, GuardQuietAnswer
<1>2. CASE me.user \notin DOMAIN users /\ Lock(h, pc, s)
  <2>3. ASSUME NEW c, c.pc = pc /\ Alike(c, me) /\ c.locks = me.locks \cup {s} PROVE Guarded(c)
    <3>1. Typed(c)
      BY <1>0, <2>3 DEF Alike, Guarded, Typed, Sound, Placed, Joining
    <3>2. Reserved(c)
      <4>1. s[1] = "mail" /\ s[2] = me.user
        OBVIOUS
      <4>. QED  BY <1>0, <1>2, <2>3, <4>1 DEF Alike, Guarded, Reserved
    <3>3. Cleared(c)
      BY <1>0, <2>3 DEF Alike, Guarded, Cleared, UserSeen, OrganizationSeen, MemberSeen, Joining,
                        Sound, Placed
    <3>. QED  BY <3>1, <3>2, <3>3 DEF Guarded
  <2>. QED  BY <1>0, <1>2, <2>3, GuardLock
<1>. QED  BY <1>1, <1>2 DEF InsertUser

LEMMA GuardInsertOrganization ==
  ASSUME Inv, GuardInv, NEW h \in Handler, InsertOrganization(h) PROVE GuardInv'
<1>. DEFINE me == handler[h]  s == <<"slug", me.org>>
<1>0. /\ Formed /\ Sound(me) /\ Guarded(me) /\ Rows /\ Rested /\ me.pc = "create"
      /\ ~Blocked(h, s)
  BY Unwaiting DEF Inv, GuardInv, InsertOrganization, Rested, tables, rows, ghosts
<1>1. CASE Answer(h)
  BY <1>0, <1>1, GuardQuietAnswer
<1>2. CASE me.org \notin DOMAIN organizations /\ Lock(h, "commit", s)
  <2>3. ASSUME NEW c, c.pc = "commit" /\ Alike(c, me) /\ c.locks = me.locks \cup {s}
        PROVE  Guarded(c)
    <3>1. Typed(c)
      BY <1>0, <2>3 DEF Alike, Guarded, Typed, Sound, Placed, Joining
    <3>2. Reserved(c)
      <4>1. s[1] = "slug" /\ s[2] = me.org
        OBVIOUS
      <4>. QED  BY <1>0, <1>2, <2>3, <4>1 DEF Alike, Guarded, Reserved, Sound, Placed
    <3>3. Cleared(c)
      BY <1>0, <2>3 DEF Alike, Guarded, Cleared, UserSeen, OrganizationSeen, MemberSeen, Joining,
                        Sound, Placed
    <3>. QED  BY <3>1, <3>2, <3>3 DEF Guarded
  <2>. QED  BY <1>0, <1>2, <2>3, GuardLock
<1>. QED  BY <1>1, <1>2 DEF InsertOrganization

LEMMA GuardEnroll ==
  ASSUME Inv, GuardInv, NEW h \in Handler, Enroll(h) PROVE GuardInv'
<1>. DEFINE me == handler[h]  k == <<me.org, me.user>>  s == <<"member", k>>
<1>0. /\ Formed /\ Sound(me) /\ Guarded(me) /\ Rows /\ Rested /\ me.pc = "enroll"
      /\ ~Blocked(h, s)
  BY Unwaiting DEF Inv, GuardInv, Enroll, Rested, tables, rows, ghosts
<1>1. CASE Answer(h)
  BY <1>0, <1>1, GuardQuietAnswer
<1>2. CASE k \notin DOMAIN members /\ Lock(h, "commit", s)
  <2>1. me.org \in DOMAIN organizations
    BY <1>0 DEF Sound, Matched, Aimed, Guarded, Typed, Joining, Rows
  <2>2. k \notin me.barred
    BY <1>0, <1>2, MemberFree DEF Guarded, Cleared
  <2>3. ASSUME NEW c, c.pc = "commit" /\ Alike(c, me) /\ c.locks = me.locks \cup {s}
        PROVE  Guarded(c)
    <3>1. Typed(c)
      BY <1>0, <2>3 DEF Alike, Guarded, Typed, Joining
    <3>2. Reserved(c)
      <4>1. s[1] = "member" /\ s[2] = k /\ k[1] = me.org
        OBVIOUS
      <4>. QED  BY <1>0, <1>2, <2>1, <2>3, <4>1 DEF Alike, Guarded, Reserved, Typed, Joining
    <3>3. Cleared(c)
      BY <1>0, <2>2, <2>3 DEF Alike, Guarded, Cleared, UserSeen, OrganizationSeen, MemberSeen,
                              Joining, Typed
    <3>. QED  BY <3>1, <3>2, <3>3 DEF Guarded
  <2>. QED  BY <1>0, <1>2, <2>3, GuardLock
<1>. QED  BY <1>1, <1>2 DEF Enroll

LEMMA GuardTakeInvitation ==
  ASSUME Inv, GuardInv, NEW h \in Handler, TakeInvitation(h) PROVE GuardInv'
<1>. DEFINE me == handler[h]  s == <<"invitation", me.invitation>>
<1>0. /\ Formed /\ Sound(me) /\ Guarded(me) /\ Rows /\ Rested /\ me.pc = "take"
      /\ ~Blocked(h, s)
  BY Unwaiting DEF Inv, GuardInv, TakeInvitation, Rested, tables, rows, ghosts
<1>1. CASE Answer(h)
  BY <1>0, <1>1, GuardQuietAnswer
<1>2. CASE Lock(h, AfterTake(me), s)
  <2>1. /\ me.op = "join" => AfterTake(me) = "user"
        /\ me.op = "callback" => AfterTake(me) \in {"enroll", "commit"}
        /\ me.op = "accept" => AfterTake(me) = "enroll"
    BY DEF AfterTake
  <2>3. ASSUME NEW c, c.pc = AfterTake(me) /\ Alike(c, me) /\ c.locks = me.locks \cup {s}
        PROVE  Guarded(c)
    <3>0. me.op \in Joining
      BY <1>0 DEF Guarded, Typed
    <3>1. Typed(c)
      BY <1>0, <2>1, <2>3, <3>0 DEF Alike, Guarded, Typed, Joining
    <3>2. Reserved(c)
      <4>1. s[1] = "invitation"
        OBVIOUS
      <4>. QED  BY <1>0, <2>1, <2>3, <3>0, <4>1 DEF Alike, Guarded, Reserved, Joining
    <3>3. Cleared(c)
      BY <1>0, <2>1, <2>3, <3>0 DEF Alike, Guarded, Cleared, UserSeen, OrganizationSeen,
                                    MemberSeen, Joining
    <3>. QED  BY <3>1, <3>2, <3>3 DEF Guarded
  <2>. QED  BY <1>0, <1>2, <2>3, GuardLock
<1>. QED  BY <1>1, <1>2 DEF TakeInvitation

LEMMA GuardLookResend ==
  ASSUME Inv, GuardInv, NEW h \in Handler, LookResend(h) PROVE GuardInv'
<1>. DEFINE me == handler[h]
<1>0. /\ IsCall(me) /\ Formed /\ Sound(me) /\ Guarded(me) /\ Rows /\ Rested
      /\ me.op = "resend" /\ me.pc = "eligible"
  BY DEF Inv, Formed, GuardInv, LookResend, At, Rested, tables, rows, ghosts
<1>1. CASE Answer(h)
  BY <1>0, <1>1, GuardQuietAnswer
<1>2. CASE Goto(h, "revoke")
  <2>3. ASSUME NEW c, c.pc = "revoke" /\ Alike(c, me) /\ c.locks = me.locks PROVE Guarded(c)
    <3>1. Typed(c)
      BY <1>0, <2>3 DEF Alike, Guarded, Typed, Joining
    <3>2. Reserved(c)
      BY <1>0, <2>3 DEF Alike, Guarded, Reserved, Typed, Joining
    <3>3. Cleared(c)
      BY <1>0, <2>3 DEF Alike, Guarded, Cleared, UserSeen, OrganizationSeen, MemberSeen,
                        Typed, Joining
    <3>. QED  BY <3>1, <3>2, <3>3 DEF Guarded
  <2>. QED  BY <1>0, <1>2, <2>3, GuardGoto
<1>. QED  BY <1>0, <1>1, <1>2 DEF LookResend

LEMMA GuardFindInvitation ==
  ASSUME Inv, GuardInv, NEW h \in Handler, FindInvitation(h) PROVE GuardInv'
<1>. DEFINE me == handler[h]
<1>0. /\ IsCall(me) /\ Formed /\ Sound(me) /\ Guarded(me) /\ Rows /\ Rested
      /\ me.op = "revoke" /\ me.pc = "find"
  BY DEF Inv, Formed, GuardInv, FindInvitation, At, Rested, tables, rows, ghosts
<1>1. CASE Answer(h)
  BY <1>0, <1>1, GuardQuietAnswer
<1>2. CASE Goto(h, "write")
  <2>3. ASSUME NEW c, c.pc = "write" /\ Alike(c, me) /\ c.locks = me.locks PROVE Guarded(c)
    <3>1. Typed(c)
      BY <1>0, <2>3 DEF Alike, Guarded, Typed, Joining
    <3>2. Reserved(c)
      BY <1>0, <2>3 DEF Alike, Guarded, Reserved, Typed, Joining
    <3>3. Cleared(c)
      BY <1>0, <2>3 DEF Alike, Guarded, Cleared, UserSeen, OrganizationSeen, MemberSeen,
                        Typed, Joining
    <3>. QED  BY <3>1, <3>2, <3>3 DEF Guarded
  <2>. QED  BY <1>0, <1>2, <2>3, GuardGoto
<1>. QED  BY <1>0, <1>1, <1>2 DEF FindInvitation

LEMMA GuardFindTarget ==
  ASSUME Inv, GuardInv, NEW h \in Handler, FindTarget(h) PROVE GuardInv'
<1>. DEFINE me == handler[h]
<1>0. /\ IsCall(me) /\ Formed /\ Sound(me) /\ Guarded(me) /\ Rows /\ Rested
      /\ me.op = "change" /\ me.pc = "find"
  BY DEF Inv, Formed, GuardInv, FindTarget, At, Rested, tables, rows, ghosts
<1>1. CASE Answer(h)
  BY <1>0, <1>1, GuardQuietAnswer
<1>2. CASE Goto(h, "write") /\ Ordinary(<<me.org, me.mail>>) /\ me.role # Owner
  <2>3. ASSUME NEW c, c.pc = "write" /\ Alike(c, me) /\ c.locks = me.locks PROVE Guarded(c)
    <3>1. Typed(c)
      BY <1>0, <1>2, <2>3 DEF Alike, Guarded, Typed, Joining
    <3>2. Reserved(c)
      BY <1>0, <2>3 DEF Alike, Guarded, Reserved, Typed, Joining
    <3>3. Cleared(c)
      BY <1>0, <2>3 DEF Alike, Guarded, Cleared, UserSeen, OrganizationSeen, MemberSeen,
                        Typed, Joining
    <3>. QED  BY <3>1, <3>2, <3>3 DEF Guarded
  <2>. QED  BY <1>0, <1>2, <2>3, GuardGoto
<1>. QED  BY <1>0, <1>1, <1>2 DEF FindTarget, Ordinary

LEMMA GuardMatchUser ==
  ASSUME Inv, GuardInv, NEW h \in Handler, MatchUser(h) PROVE GuardInv'
<1>. DEFINE me == handler[h]
<1>0. /\ IsCall(me) /\ Formed /\ Sound(me) /\ Guarded(me) /\ Rows /\ Rested
      /\ me.op = "accept" /\ me.pc = "match"
  BY DEF Inv, Formed, GuardInv, MatchUser, At, Rested, tables, rows, ghosts
<1>1. CASE Answer(h)
  BY <1>0, <1>1, GuardQuietAnswer
<1>2. CASE users[me.user].active /\ Goto(h, "conflict")
  <2>1. <<me.user>> \notin me.barred
    BY <1>0, <1>2, UserFree DEF Guarded, Typed, Cleared, Rows
  <2>3. ASSUME NEW c, c.pc = "conflict" /\ Alike(c, me) /\ c.locks = me.locks PROVE Guarded(c)
    <3>1. Typed(c)
      BY <1>0, <2>3 DEF Alike, Guarded, Typed, Joining
    <3>2. Reserved(c)
      BY <1>0, <2>3 DEF Alike, Guarded, Reserved, Typed, Joining
    <3>3. Cleared(c)
      BY <1>0, <2>3, <2>1 DEF Alike, Guarded, Cleared, UserSeen, OrganizationSeen, MemberSeen,
                        Typed, Joining
    <3>. QED  BY <3>1, <3>2, <3>3 DEF Guarded
  <2>. QED  BY <1>0, <1>2, <2>3, GuardGoto
<1>. QED  BY <1>0, <1>1, <1>2 DEF MatchUser

LEMMA GuardFindConflict ==
  ASSUME Inv, GuardInv, NEW h \in Handler, FindConflict(h) PROVE GuardInv'
<1>. DEFINE me == handler[h]
<1>0. /\ IsCall(me) /\ Formed /\ Sound(me) /\ Guarded(me) /\ Rows /\ Rested
      /\ me.op = "accept" /\ me.pc = "conflict"
  BY DEF Inv, Formed, GuardInv, FindConflict, At, Rested, tables, rows, ghosts
<1>1. CASE Answer(h)
  BY <1>0, <1>1, GuardQuietAnswer
<1>2. CASE Goto(h, "organization")
  <2>3. ASSUME NEW c, c.pc = "organization" /\ Alike(c, me) /\ c.locks = me.locks PROVE Guarded(c)
    <3>1. Typed(c)
      BY <1>0, <2>3 DEF Alike, Guarded, Typed, Joining
    <3>2. Reserved(c)
      BY <1>0, <2>3 DEF Alike, Guarded, Reserved, Typed, Joining
    <3>3. Cleared(c)
      BY <1>0, <2>3 DEF Alike, Guarded, Cleared, UserSeen, OrganizationSeen, MemberSeen,
                        Typed, Joining
    <3>. QED  BY <3>1, <3>2, <3>3 DEF Guarded
  <2>. QED  BY <1>0, <1>2, <2>3, GuardGoto
<1>. QED  BY <1>0, <1>1, <1>2 DEF FindConflict

LEMMA GuardFindOrganization ==
  ASSUME Inv, GuardInv, NEW h \in Handler, FindOrganization(h) PROVE GuardInv'
<1>. DEFINE me == handler[h]  pc == IF me.op = "callback" THEN "addressee" ELSE "take"
<1>0. /\ IsCall(me) /\ Formed /\ Sound(me) /\ Guarded(me) /\ Rows /\ Rested
      /\ me.pc = "organization"
  BY DEF Inv, Formed, GuardInv, FindOrganization, At, Rested, tables, rows, ghosts
<1>1. CASE Answer(h)
  BY <1>0, <1>1, GuardQuietAnswer
<1>2. CASE organizations[me.org] /\ Goto(h, pc)
  <2>1. me.org \in DOMAIN organizations /\ me.op \in Joining
    BY <1>0 DEF Sound, Matched, Aimed, Guarded, Typed, Joining, Rows
  <2>2. <<me.org>> \notin me.barred
    BY <1>0, <1>2, <2>1, OrganizationFree DEF Guarded, Cleared, Rows
  <2>3. ASSUME NEW c, c.pc = pc /\ Alike(c, me) /\ c.locks = me.locks PROVE Guarded(c)
    <3>1. Typed(c)
      BY <1>0, <2>3, <2>1 DEF Alike, Guarded, Typed, Joining
    <3>2. Reserved(c)
      BY <1>0, <2>3 DEF Alike, Guarded, Reserved, Typed, Joining
    <3>3. Cleared(c)
      BY <1>0, <2>3, <2>1, <2>2 DEF Alike, Guarded, Cleared, UserSeen, OrganizationSeen, MemberSeen,
                        Typed, Joining
    <3>. QED  BY <3>1, <3>2, <3>3 DEF Guarded
  <2>. QED  BY <1>0, <1>2, <2>3, GuardGoto
<1>. QED  BY <1>0, <1>1, <1>2 DEF FindOrganization

LEMMA GuardChooseSlug ==
  ASSUME Inv, GuardInv, NEW h \in Handler, ChooseSlug(h) PROVE GuardInv'
<1>. DEFINE me == handler[h]
<1>0. /\ IsCall(me) /\ Formed /\ Sound(me) /\ Guarded(me) /\ Rows /\ Rested
      /\ me.pc = "slug"
  BY DEF Inv, Formed, GuardInv, ChooseSlug, At, Rested, tables, rows, ghosts
<1>1. CASE Answer(h)
  BY <1>0, <1>1, GuardQuietAnswer
<1>2. ASSUME NEW o \in Slug, NEW pc, pc = IF me.op = "register" THEN "user" ELSE "create",
             Becomes(h, [me EXCEPT !.org = o, !.pc = pc])
      PROVE  GuardInv'
  <2>2. Becomes(h, Change(me, pc, me.user, o, me.role, me.invitation, me.fresh))
    <3>1. [me EXCEPT !.org = o, !.pc = pc]
            = Change(me, pc, me.user, o, me.role, me.invitation, me.fresh)
      BY <1>0 DEF IsCall, Change
    <3>. QED  BY <1>2, <3>1
  <2>3. ASSUME NEW c, Changed(c, me, pc, me.user, o, me.role, me.invitation, me.fresh)
        PROVE  Guarded(c)
    <3>1. Typed(c)
      BY <1>0, <1>2, <2>3 DEF Changed, Guarded, Typed, Joining, Sound, Placed
    <3>2. Reserved(c)
      BY <1>0, <1>2, <2>3 DEF Changed, Guarded, Reserved, Typed, Joining
    <3>3. Cleared(c)
      BY <1>0, <1>2, <2>3 DEF Changed, Guarded, Cleared, UserSeen, OrganizationSeen,
                              MemberSeen, Typed, Joining
    <3>. QED  BY <3>1, <3>2, <3>3 DEF Guarded
  <2>. QED  BY <1>0, <2>2, <2>3, GuardChange
<1>. QED  BY <1>0, <1>1, <1>2 DEF ChooseSlug

LEMMA GuardReadLink ==
  ASSUME Inv, GuardInv, NEW h \in Handler, ReadLink(h) PROVE GuardInv'
<1>. DEFINE me == handler[h]
<1>0. /\ IsCall(me) /\ Formed /\ Sound(me) /\ Guarded(me) /\ Rows /\ Rested
      /\ me.op = "verify" /\ me.pc = "read"
  BY DEF Inv, Formed, GuardInv, ReadLink, At, Rested, tables, rows, ghosts
<1>a. me.token \in DOMAIN links
  BY <1>0 DEF Sound, Aimed
<1>1. CASE Answer(h)
  BY <1>0, <1>1, GuardQuietAnswer
<1>2. ASSUME NEW u, u = links[me.token].mail, users[u].active, NEW f,
             Becomes(h, [me EXCEPT !.pc = "consume", !.user = u, !.fresh = f])
      PROVE  GuardInv'
  <2>1. <<u>> \notin me.barred
    BY <1>0, <1>a, <1>2, UserFree DEF Guarded, Cleared, Rows
  <2>2. Becomes(h, Change(me, "consume", u, me.org, me.role, me.invitation, f))
    <3>1. [me EXCEPT !.pc = "consume", !.user = u, !.fresh = f]
            = Change(me, "consume", u, me.org, me.role, me.invitation, f)
      BY <1>0 DEF IsCall, Change
    <3>. QED  BY <1>2, <3>1
  <2>3. ASSUME NEW c, Changed(c, me, "consume", u, me.org, me.role, me.invitation, f)
        PROVE  Guarded(c)
    <3>1. Typed(c)
      BY <1>0, <1>2, <2>3 DEF Changed, Guarded, Typed, Joining
    <3>2. Reserved(c)
      BY <1>0, <1>2, <2>3 DEF Changed, Guarded, Reserved, Typed, Joining
    <3>3. Cleared(c)
      BY <1>0, <1>2, <2>3, <2>1 DEF Changed, Guarded, Cleared, UserSeen, OrganizationSeen,
                              MemberSeen, Typed, Joining
    <3>. QED  BY <3>1, <3>2, <3>3 DEF Guarded
  <2>. QED  BY <1>0, <2>2, <2>3, GuardChange
<1>. QED  BY <1>0, <1>1, <1>2 DEF ReadLink

LEMMA GuardPermit ==
  ASSUME Inv, GuardInv, NEW h \in Handler, Permit(h) PROVE GuardInv'
<1>. DEFINE me == handler[h]
<1>0. /\ IsCall(me) /\ Formed /\ Sound(me) /\ Guarded(me) /\ Rows /\ Rested
      /\ me.pc = "permit"
  BY DEF Inv, Formed, GuardInv, Permit, At, Rested, tables, rows, ghosts
<1>1. CASE Answer(h)
  BY <1>0, <1>1, GuardQuietAnswer
<1>2. ASSUME NEW pc, NEW r, pc = IF me.op = "invite" THEN "write" ELSE "find",
             me.op = "invite" => r \in Role \ {Owner}, me.op = "change" => r = me.role,
             Becomes(h, [me EXCEPT !.pc = pc, !.role = r])
      PROVE  GuardInv'
  <2>2. Becomes(h, Change(me, pc, me.user, me.org, r, me.invitation, me.fresh))
    <3>1. [me EXCEPT !.pc = pc, !.role = r]
            = Change(me, pc, me.user, me.org, r, me.invitation, me.fresh)
      BY <1>0 DEF IsCall, Change
    <3>. QED  BY <1>2, <3>1
  <2>3. ASSUME NEW c, Changed(c, me, pc, me.user, me.org, r, me.invitation, me.fresh)
        PROVE  Guarded(c)
    <3>1. Typed(c)
      BY <1>0, <1>2, <2>3 DEF Changed, Guarded, Typed, Joining
    <3>2. Reserved(c)
      BY <1>0, <1>2, <2>3 DEF Changed, Guarded, Reserved, Typed, Joining
    <3>3. Cleared(c)
      BY <1>0, <1>2, <2>3 DEF Changed, Guarded, Cleared, UserSeen, OrganizationSeen,
                              MemberSeen, Typed, Joining
    <3>. QED  BY <3>1, <3>2, <3>3 DEF Guarded
  <2>. QED  BY <1>0, <2>2, <2>3, GuardChange
<1>3. CASE ~Answer(h)
  <2>. DEFINE k == <<me.org, me.user>>  pc == IF me.op = "invite" THEN "write" ELSE "find"
              r == IF me.op = "revoke" THEN members[k].role ELSE me.role
  <2>1. /\ Usable(k) /\ (me.op = "invite" => me.role \in Invites[members[k].role])
        /\ Becomes(h, [me EXCEPT !.pc = pc, !.role = IF me.op = "revoke" THEN members[k].role
                                                     ELSE @])
    BY <1>3 DEF Permit, Entitled
  <2>2. members[k].role \in Role
    BY <1>0, <2>1, MemberRows DEF Usable
  <2>3. me.op = "invite" => r \in Role \ {Owner}
    BY <2>1, <2>2, RoleAssumption
  <2>4. [me EXCEPT !.pc = pc, !.role = IF me.op = "revoke" THEN members[k].role ELSE @]
          = [me EXCEPT !.pc = pc, !.role = r]
    BY <1>0 DEF IsCall
  <2>5. Becomes(h, [me EXCEPT !.pc = pc, !.role = r])
    BY <2>1, <2>4
  <2>. QED  BY <1>2, <2>3, <2>5
<1>. QED  BY <1>1, <1>3

LEMMA GuardReadInvitation ==
  ASSUME Inv, GuardInv, NEW h \in Handler, ReadInvitation(h) PROVE GuardInv'
<1>. DEFINE me == handler[h]
<1>0. /\ IsCall(me) /\ Formed /\ Sound(me) /\ Guarded(me) /\ Rows /\ Rested
      /\ me.pc = "read" /\ me.op \in {"accept", "join"}
  BY DEF Inv, Formed, GuardInv, ReadInvitation, At, Rested, tables, rows, ghosts
<1>1. CASE Answer(h)
  BY <1>0, <1>1, GuardQuietAnswer
<1>2. ASSUME NEW pc, NEW u, NEW o, NEW r, pc = IF me.op = "accept" THEN "match" ELSE "look",
             me.op = "accept" => u = me.user,
             Becomes(h, [me EXCEPT !.pc = pc, !.org = o, !.role = r, !.user = u])
      PROVE  GuardInv'
  <2>2. Becomes(h, Change(me, pc, u, o, r, me.invitation, me.fresh))
    <3>1. [me EXCEPT !.pc = pc, !.org = o, !.role = r, !.user = u]
            = Change(me, pc, u, o, r, me.invitation, me.fresh)
      BY <1>0 DEF IsCall, Change
    <3>. QED  BY <1>2, <3>1
  <2>3. ASSUME NEW c, Changed(c, me, pc, u, o, r, me.invitation, me.fresh)
        PROVE  Guarded(c)
    <3>1. Typed(c)
      BY <1>0, <1>2, <2>3 DEF Changed, Guarded, Typed, Joining
    <3>2. Reserved(c)
      BY <1>0, <1>2, <2>3 DEF Changed, Guarded, Reserved, Typed, Joining
    <3>3. Cleared(c)
      BY <1>0, <1>2, <2>3 DEF Changed, Guarded, Cleared, UserSeen, OrganizationSeen,
                              MemberSeen, Typed, Joining
    <3>. QED  BY <3>1, <3>2, <3>3 DEF Guarded
  <2>. QED  BY <1>0, <2>2, <2>3, GuardChange
<1>. QED  BY <1>0, <1>1, <1>2 DEF ReadInvitation

LEMMA GuardFindIdentity ==
  ASSUME Inv, GuardInv, NEW h \in Handler, FindIdentity(h) PROVE GuardInv'
<1>. DEFINE me == handler[h]
<1>0. /\ IsCall(me) /\ Formed /\ Sound(me) /\ Guarded(me) /\ Rows /\ Rested
      /\ me.op = "callback" /\ me.pc = "identity"
  BY DEF Inv, Formed, GuardInv, FindIdentity, At, Rested, tables, rows, ghosts
<1>1. CASE Answer(h)
  BY <1>0, <1>1, GuardQuietAnswer
<1>2. CASE Goto(h, "newcomer")
  <2>3. ASSUME NEW c, c.pc = "newcomer" /\ Alike(c, me) /\ c.locks = me.locks PROVE Guarded(c)
    <3>1. Typed(c)
      BY <1>0, <2>3 DEF Alike, Guarded, Typed, Joining
    <3>2. Reserved(c)
      BY <1>0, <2>3 DEF Alike, Guarded, Reserved, Typed, Joining
    <3>3. Cleared(c)
      BY <1>0, <2>3 DEF Alike, Guarded, Cleared, UserSeen, OrganizationSeen, MemberSeen,
                        Typed, Joining
    <3>. QED  BY <3>1, <3>2, <3>3 DEF Guarded
  <2>. QED  BY <1>0, <1>2, <2>3, GuardGoto
<1>3. ASSUME NEW u, u \in DOMAIN users, users[u].active,
             Becomes(h, [me EXCEPT !.pc = "memberships", !.user = u])
      PROVE  GuardInv'
  <2>1. <<u>> \notin me.barred
    BY <1>0, <1>3, UserFree DEF Guarded, Cleared, Rows
  <2>2. Becomes(h, Change(me, "memberships", u, me.org, me.role, me.invitation, me.fresh))
    <3>1. [me EXCEPT !.pc = "memberships", !.user = u]
            = Change(me, "memberships", u, me.org, me.role, me.invitation, me.fresh)
      BY <1>0 DEF IsCall, Change
    <3>. QED  BY <1>3, <3>1
  <2>3. ASSUME NEW c, Changed(c, me, "memberships", u, me.org, me.role, me.invitation, me.fresh)
        PROVE  Guarded(c)
    <3>1. Typed(c)
      BY <1>0, <1>3, <2>3 DEF Changed, Guarded, Typed, Joining
    <3>2. Reserved(c)
      BY <1>0, <1>3, <2>3 DEF Changed, Guarded, Reserved, Typed, Joining
    <3>3. Cleared(c)
      BY <1>0, <1>3, <2>3, <2>1 DEF Changed, Guarded, Cleared, UserSeen, OrganizationSeen,
                              MemberSeen, Typed, Joining
    <3>. QED  BY <3>1, <3>2, <3>3 DEF Guarded
  <2>. QED  BY <1>0, <2>2, <2>3, GuardChange
<1>a. me.sub \in DOMAIN identities => identities[me.sub] \in DOMAIN users
  BY <1>0 DEF Rows
<1>. QED  BY <1>0, <1>a, <1>1, <1>2, <1>3 DEF FindIdentity

LEMMA GuardFindNewcomer ==
  ASSUME Inv, GuardInv, NEW h \in Handler, FindNewcomer(h) PROVE GuardInv'
<1>. DEFINE me == handler[h]
<1>0. /\ IsCall(me) /\ Formed /\ Sound(me) /\ Guarded(me) /\ Rows /\ Rested
      /\ me.op = "callback" /\ me.pc = "newcomer"
  BY DEF Inv, Formed, GuardInv, FindNewcomer, At, Rested, tables, rows, ghosts
<1>a. me.mail \in Mail
  BY <1>0, MailAssumption DEF Sound, Linked
<1>1. CASE Answer(h)
  BY <1>0, <1>1, GuardQuietAnswer
<1>2. ASSUME NEW u, u \in Mail, u \notin DOMAIN users,
             Becomes(h, [me EXCEPT !.pc = "newuser", !.user = u])
      PROVE  GuardInv'
  <2>1. <<u>> \notin me.barred
    BY <1>0, <1>2, UserFree DEF Guarded, Cleared
  <2>2. Becomes(h, Change(me, "newuser", u, me.org, me.role, me.invitation, me.fresh))
    <3>1. [me EXCEPT !.pc = "newuser", !.user = u]
            = Change(me, "newuser", u, me.org, me.role, me.invitation, me.fresh)
      BY <1>0 DEF IsCall, Change
    <3>. QED  BY <1>2, <3>1
  <2>3. ASSUME NEW c, Changed(c, me, "newuser", u, me.org, me.role, me.invitation, me.fresh)
        PROVE  Guarded(c)
    <3>1. Typed(c)
      BY <1>0, <1>2, <2>3 DEF Changed, Guarded, Typed, Joining
    <3>2. Reserved(c)
      BY <1>0, <1>2, <2>3 DEF Changed, Guarded, Reserved, Typed, Joining
    <3>3. Cleared(c)
      BY <1>0, <1>2, <2>3, <2>1 DEF Changed, Guarded, Cleared, UserSeen, OrganizationSeen,
                              MemberSeen, Typed, Joining
    <3>. QED  BY <3>1, <3>2, <3>3 DEF Guarded
  <2>. QED  BY <1>0, <2>2, <2>3, GuardChange
<1>3. ASSUME NEW u, u \in DOMAIN users, users[u].active, NEW f,
             Becomes(h, [me EXCEPT !.pc = "link", !.user = u, !.fresh = f])
      PROVE  GuardInv'
  <2>1. <<u>> \notin me.barred
    BY <1>0, <1>3, UserFree DEF Guarded, Cleared, Rows
  <2>2. Becomes(h, Change(me, "link", u, me.org, me.role, me.invitation, f))
    <3>1. [me EXCEPT !.pc = "link", !.user = u, !.fresh = f]
            = Change(me, "link", u, me.org, me.role, me.invitation, f)
      BY <1>0 DEF IsCall, Change
    <3>. QED  BY <1>3, <3>1
  <2>3. ASSUME NEW c, Changed(c, me, "link", u, me.org, me.role, me.invitation, f)
        PROVE  Guarded(c)
    <3>1. Typed(c)
      BY <1>0, <1>3, <2>3 DEF Changed, Guarded, Typed, Joining
    <3>2. Reserved(c)
      BY <1>0, <1>3, <2>3 DEF Changed, Guarded, Reserved, Typed, Joining
    <3>3. Cleared(c)
      BY <1>0, <1>3, <2>3, <2>1 DEF Changed, Guarded, Cleared, UserSeen, OrganizationSeen,
                              MemberSeen, Typed, Joining
    <3>. QED  BY <3>1, <3>2, <3>3 DEF Guarded
  <2>. QED  BY <1>0, <2>2, <2>3, GuardChange
<1>. QED  BY <1>0, <1>a, <1>1, <1>2, <1>3 DEF FindNewcomer

LEMMA GuardClaimInvitation ==
  ASSUME Inv, GuardInv, NEW h \in Handler, ClaimInvitation(h) PROVE GuardInv'
<1>. DEFINE me == handler[h]
<1>0. /\ IsCall(me) /\ Formed /\ Sound(me) /\ Guarded(me) /\ Rows /\ Rested
      /\ me.op = "callback" /\ me.pc = "claim"
  BY DEF Inv, Formed, GuardInv, ClaimInvitation, At, Rested, tables, rows, ghosts
<1>1. CASE Answer(h)
  BY <1>0, <1>1, GuardQuietAnswer
<1>2. ASSUME NEW o, NEW r,
             Becomes(h, [me EXCEPT !.pc = "organization", !.org = o, !.role = r])
      PROVE  GuardInv'
  <2>2. Becomes(h, Change(me, "organization", me.user, o, r, me.invitation, me.fresh))
    <3>1. [me EXCEPT !.pc = "organization", !.org = o, !.role = r]
            = Change(me, "organization", me.user, o, r, me.invitation, me.fresh)
      BY <1>0 DEF IsCall, Change
    <3>. QED  BY <1>2, <3>1
  <2>3. ASSUME NEW c, Changed(c, me, "organization", me.user, o, r, me.invitation, me.fresh)
        PROVE  Guarded(c)
    <3>1. Typed(c)
      BY <1>0, <1>2, <2>3 DEF Changed, Guarded, Typed, Joining
    <3>2. Reserved(c)
      BY <1>0, <1>2, <2>3 DEF Changed, Guarded, Reserved, Typed, Joining
    <3>3. Cleared(c)
      BY <1>0, <1>2, <2>3 DEF Changed, Guarded, Cleared, UserSeen, OrganizationSeen,
                              MemberSeen, Typed, Joining
    <3>. QED  BY <3>1, <3>2, <3>3 DEF Guarded
  <2>. QED  BY <1>0, <2>2, <2>3, GuardChange
<1>. QED  BY <1>0, <1>1, <1>2 DEF ClaimInvitation

LEMMA GuardMatchAddressee ==
  ASSUME Inv, GuardInv, NEW h \in Handler, MatchAddressee(h) PROVE GuardInv'
<1>. DEFINE me == handler[h]
<1>0. /\ IsCall(me) /\ Formed /\ Sound(me) /\ Guarded(me) /\ Rows /\ Rested
      /\ me.op = "callback" /\ me.pc = "addressee"
  BY DEF Inv, Formed, GuardInv, MatchAddressee, At, Rested, tables, rows, ghosts
<1>1. CASE Answer(h)
  BY <1>0, <1>1, GuardQuietAnswer
<1>2. ASSUME NEW f, <<me.org, me.user>> \in DOMAIN members => members[<<me.org, me.user>>].active,
             Becomes(h, [me EXCEPT !.pc = "take", !.fresh = f])
      PROVE  GuardInv'
  <2>1. <<me.org, me.user>> \notin me.barred
    BY <1>0, <1>2, MemberFree DEF Guarded, Cleared
  <2>2. Becomes(h, Change(me, "take", me.user, me.org, me.role, me.invitation, f))
    <3>1. [me EXCEPT !.pc = "take", !.fresh = f]
            = Change(me, "take", me.user, me.org, me.role, me.invitation, f)
      BY <1>0 DEF IsCall, Change
    <3>. QED  BY <1>2, <3>1
  <2>3. ASSUME NEW c, Changed(c, me, "take", me.user, me.org, me.role, me.invitation, f)
        PROVE  Guarded(c)
    <3>1. Typed(c)
      BY <1>0, <1>2, <2>3 DEF Changed, Guarded, Typed, Joining
    <3>2. Reserved(c)
      BY <1>0, <1>2, <2>3 DEF Changed, Guarded, Reserved, Typed, Joining
    <3>3. Cleared(c)
      BY <1>0, <1>2, <2>3, <2>1 DEF Changed, Guarded, Cleared, UserSeen, OrganizationSeen,
                              MemberSeen, Typed, Joining
    <3>. QED  BY <3>1, <3>2, <3>3 DEF Guarded
  <2>. QED  BY <1>0, <2>2, <2>3, GuardChange
<1>. QED  BY <1>0, <1>1, <1>2 DEF MatchAddressee

LEMMA GuardConsumeState ==
  ASSUME Inv, GuardInv, NEW h \in Handler, ConsumeState(h) PROVE GuardInv'
<1>. DEFINE me == handler[h]
<1>0. /\ IsCall(me) /\ Formed /\ Sound(me) /\ Guarded(me) /\ Rows /\ Rested
      /\ me.op = "callback" /\ me.pc = "state"
  BY DEF Inv, Formed, GuardInv, ConsumeState, At, Rested, tables, rows, ghosts
<1>1. CASE Answer(h)
  BY <1>0, <1>1, GuardQuietAnswer
<1>2. ASSUME NEW i,
             Becomes(h, [me EXCEPT !.pc = "identity", !.invitation = i])
      PROVE  GuardInv'
  <2>2. Becomes(h, Change(me, "identity", me.user, me.org, me.role, i, me.fresh))
    <3>1. [me EXCEPT !.pc = "identity", !.invitation = i]
            = Change(me, "identity", me.user, me.org, me.role, i, me.fresh)
      BY <1>0 DEF IsCall, Change
    <3>. QED  BY <1>2, <3>1
  <2>3. ASSUME NEW c, Changed(c, me, "identity", me.user, me.org, me.role, i, me.fresh)
        PROVE  Guarded(c)
    <3>1. Typed(c)
      BY <1>0, <1>2, <2>3 DEF Changed, Guarded, Typed, Joining
    <3>2. Reserved(c)
      BY <1>0, <1>2, <2>3 DEF Changed, Guarded, Reserved, Typed, Joining
    <3>3. Cleared(c)
      BY <1>0, <1>2, <2>3 DEF Changed, Guarded, Cleared, UserSeen, OrganizationSeen,
                              MemberSeen, Typed, Joining
    <3>. QED  BY <3>1, <3>2, <3>3 DEF Guarded
  <2>. QED  BY <1>0, <2>2, <2>3, GuardChange
<1>. QED  BY <1>0, <1>1, <1>2 DEF ConsumeState

LEMMA GuardAsk == ASSUME Inv, GuardInv, NEW h \in Handler, Ask(h) PROVE GuardInv'
<1>0. PICK c : Becomes(h, c) /\ Arrived(c)
  BY Asked
<1>1. Formed /\ Rested
  BY DEF Inv, Ask, Register, Found, Verify, Resend, Invite, Revoke, ChangeRole, Accept, Start,
         Callback, Rested, tables, rows, ghosts
<1>2. \A k \in DOMAIN members : k[1] \in DOMAIN organizations
  BY MemberRows DEF GuardInv
<1>3. Typed(c)
  BY <1>0, <1>2 DEF Arrived, Typed
<1>4. Reserved(c) /\ Cleared(c)
  BY <1>0 DEF Arrived, Reserved, Cleared, UserSeen, OrganizationSeen, MemberSeen, Joining
<1>5. IsCall(c) /\ Unheld(h, c.locks \ handler[h].locks)
  BY <1>0 DEF Arrived, Unheld
<1>. QED  BY <1>0, <1>1, <1>3, <1>4, <1>5, GuardQuiet DEF Guarded

------------------------------------------------------------------------------
(* Steps that change the rows.                                                *)

LEMMA GuardMove ==
  ASSUME Formed, GuardInv, NEW h \in Handler, NEW pc, Goto(h, pc), Widens,
         \A g \in Handler \ {h} : Leaves(handler[g].locks), Rows', BarredStaysOut',
         \A c : /\ c.pc = pc /\ Alike(c, handler[h]) /\ c.locks = handler[h].locks
                => Guarded(c)'
  PROVE  GuardInv'
<1>1. PICK c : /\ IsCall(c) /\ Becomes(h, c) /\ c.pc = pc /\ Alike(c, handler[h])
               /\ c.locks = handler[h].locks /\ Free(h, c.locks \ handler[h].locks)
  BY GotoFields
<1>2. Guarded(c)' /\ Unheld(h, c.locks \ handler[h].locks)
  BY <1>1 DEF Unheld
<1>. QED  BY <1>1, <1>2, GuardStep

LEMMA GuardSend == ASSUME Inv, GuardInv, NEW h \in Handler, Send(h) PROVE GuardInv'
<1>0. /\ Formed /\ Guarded(handler[h]) /\ handler[h].pc = "send" /\ Answer(h)
      /\ inbox' = inbox \cup {handler[h].token}
      /\ UNCHANGED <<users, organizations, members, identities, links, invitations, minted, opened>>
  BY DEF Inv, GuardInv, Send, rows, ghosts
<1>1. Widens /\ \A locks : Leaves(locks)
  BY <1>0, RestWidens
<1>2. Rows' /\ BarredStaysOut'
  BY <1>0 DEF GuardInv, Rows, IsUser, BarredStaysOut, Guarded, Typed
<1>. QED  BY <1>0, <1>1, <1>2, GuardAnswer

\* Rows of links change, but not whose they are.
LEMMA LinkRows ==
  ASSUME Inv, GuardInv, NEW t,
         \/ links' = [links EXCEPT ![t].consumed = TRUE]
         \/ links' = [links EXCEPT ![t].expired = TRUE],
         UNCHANGED <<users, organizations, members, identities, invitations, inbox, minted, opened>>
  PROVE  Rows' /\ BarredStaysOut'
<1>1. DOMAIN links' = DOMAIN links
  OBVIOUS
<1>2. ASSUME NEW x \in DOMAIN links PROVE links'[x].mail = links[x].mail
  <2>1. IsLink(links[x])
    BY DEF Inv, Store, Tables
  <2>2. \/ links'[x] = links[x] \/ links'[x] = [links[x] EXCEPT !.consumed = TRUE]
        \/ links'[x] = [links[x] EXCEPT !.expired = TRUE]
    OBVIOUS
  <2>. QED  BY <2>1, <2>2 DEF IsLink
<1>. QED  BY <1>1, <1>2 DEF GuardInv, Rows, IsUser, BarredStaysOut

LEMMA GuardConsumeLink == ASSUME Inv, GuardInv, NEW h \in Handler, ConsumeLink(h) PROVE GuardInv'
<1>. DEFINE me == handler[h]
<1>0. /\ Formed /\ Guarded(me) /\ At(h, "verify", "consume")
      /\ UNCHANGED <<users, organizations, members, identities, invitations, inbox, minted, opened>>
  BY DEF Inv, GuardInv, ConsumeLink
<1>1. Widens /\ \A locks : Leaves(locks)
  BY <1>0, RestWidens
<1>2. CASE Answer(h) /\ UNCHANGED links
  BY <1>0, <1>2, GuardQuietAnswer DEF Rested
<1>3. ASSUME NEW pc \in {"confirm", "memberships"}, Goto(h, pc),
             links' = [links EXCEPT ![me.token].consumed = TRUE]
      PROVE  GuardInv'
  <2>1. Rows' /\ BarredStaysOut'
    BY <1>0, <1>3, LinkRows
  <2>2. ASSUME NEW c, c.pc = pc /\ Alike(c, me) /\ c.locks = me.locks PROVE Guarded(c)'
    <3>1. Typed(c)
      BY <1>0, <2>2 DEF At, Alike, Guarded, Typed, Joining
    <3>2. Reserved(c)
      BY <1>0, <2>2 DEF At, Alike, Guarded, Reserved
    <3>3. Cleared(c)
      BY <1>0, <2>2 DEF At, Alike, Guarded, Cleared, UserSeen, OrganizationSeen, MemberSeen,
                        Joining
    <3>. QED  BY <1>1, <3>1, <3>2, <3>3, GuardedKept DEF Guarded
  <2>. QED  BY <1>0, <1>1, <1>3, <2>1, <2>2, GuardMove
<1>. QED  BY <1>2, <1>3 DEF ConsumeLink

LEMMA GuardConfirm == ASSUME Inv, GuardInv, NEW h \in Handler, Confirm(h) PROVE GuardInv'
<1>. DEFINE me == handler[h]
<1>0. /\ Formed /\ Guarded(me) /\ me.pc = "confirm" /\ Goto(h, "memberships")
      /\ users' = [users EXCEPT ![me.user].verified = TRUE]
      /\ UNCHANGED <<organizations, members, identities, links, invitations, inbox, minted, opened>>
  BY DEF Inv, GuardInv, Confirm, ghosts
<1>1. DOMAIN users' = DOMAIN users
  BY <1>0
<1>2. ASSUME NEW x \in DOMAIN users
      PROVE  IsUser(users'[x]) /\ users'[x].active = users[x].active
  <2>1. IsUser(users[x])
    BY DEF GuardInv, Rows
  <2>2. users'[x] = users[x] \/ users'[x] = [users[x] EXCEPT !.verified = TRUE]
    BY <1>0
  <2>. QED  BY <2>1, <2>2 DEF IsUser
<1>3. Barred \subseteq Barred'
  BY <1>0, <1>1, <1>2, BarredGrows
<1>4. Widens /\ \A locks : Leaves(locks)
  BY <1>0, <1>1, <1>3 DEF Widens, Leaves, Ordinary
<1>5. Rows' /\ BarredStaysOut'
  BY <1>0, <1>1, <1>2 DEF GuardInv, Rows, BarredStaysOut
<1>6. ASSUME NEW c, c.pc = "memberships" /\ Alike(c, me) /\ c.locks = me.locks PROVE Guarded(c)'
  <2>1. Typed(c)
    BY <1>0, <1>6 DEF Alike, Guarded, Typed, Joining
  <2>2. Reserved(c)
    BY <1>0, <1>6 DEF Alike, Guarded, Reserved
  <2>3. Cleared(c)
    BY <1>0, <1>6 DEF Alike, Guarded, Typed, Cleared, UserSeen, OrganizationSeen, MemberSeen
  <2>. QED  BY <1>4, <2>1, <2>2, <2>3, GuardedKept DEF Guarded
<1>. QED  BY <1>0, <1>4, <1>5, <1>6, GuardMove

LEMMA GuardRevokeLinks == ASSUME Inv, GuardInv, NEW h \in Handler, RevokeLinks(h) PROVE GuardInv'
<1>. DEFINE me == handler[h]
<1>0. /\ Formed /\ Guarded(me) /\ At(h, "resend", "revoke") /\ Goto(h, "mint")
      /\ UNCHANGED <<users, organizations, members, identities, invitations, inbox, minted, opened>>
  BY DEF Inv, GuardInv, RevokeLinks, ghosts
<1>1. Widens /\ \A locks : Leaves(locks)
  BY <1>0, RestWidens
<1>2. DOMAIN links' = DOMAIN links
  BY DEF RevokeLinks
<1>3. ASSUME NEW x \in DOMAIN links PROVE links'[x].mail = links[x].mail
  <2>1. IsLink(links[x])
    BY DEF Inv, Store, Tables
  <2>2. links'[x] = links[x] \/ links'[x] = [links[x] EXCEPT !.revoked = TRUE]
    BY DEF RevokeLinks
  <2>. QED  BY <2>1, <2>2 DEF IsLink
<1>4. Rows' /\ BarredStaysOut'
  BY <1>0, <1>2, <1>3 DEF GuardInv, Rows, IsUser, BarredStaysOut
<1>5. ASSUME NEW c, c.pc = "mint" /\ Alike(c, me) /\ c.locks = me.locks PROVE Guarded(c)'
  <2>1. Typed(c)
    BY <1>0, <1>5 DEF At, Alike, Guarded, Typed, Joining
  <2>2. Reserved(c)
    BY <1>0, <1>5 DEF At, Alike, Guarded, Reserved
  <2>3. Cleared(c)
    BY <1>0, <1>5 DEF At, Alike, Guarded, Cleared, UserSeen, OrganizationSeen, MemberSeen, Joining
  <2>. QED  BY <1>1, <2>1, <2>2, <2>3, GuardedKept DEF Guarded
<1>. QED  BY <1>0, <1>1, <1>4, <1>5, GuardMove

\* A token is given out and is about to be sent.
LEMMA GuardMint ==
  ASSUME Formed, GuardInv, NEW h \in Handler, NEW t \in minted', NEW locks, locks = {},
         handler[h].op \in {"register", "resend", "invite"},
         Becomes(h, Sent(handler[h], t, locks)), Widens,
         \A g \in Handler \ {h} : Leaves(handler[g].locks), Rows', BarredStaysOut'
  PROVE  GuardInv'
<1>. DEFINE me == handler[h]
<1>0. IsCall(me) /\ Guarded(me)
  BY DEF Formed, GuardInv
<1>c. PICK c : Becomes(h, c) /\ c = Sent(me, t, locks)
  OBVIOUS
<1>1. c = [pc |-> "send", op |-> me.op, user |-> me.user, mail |-> me.mail, org |-> me.org,
           role |-> me.role, token |-> t, invitation |-> me.invitation, sub |-> me.sub,
           fresh |-> me.fresh, locks |-> locks, barred |-> me.barred]
  BY <1>0, <1>c DEF IsCall, Sent
<1>2. /\ IsCall(c) /\ c.pc = "send" /\ c.op = me.op /\ c.user = me.user /\ c.org = me.org
      /\ c.mail = me.mail /\ c.token = t /\ c.locks = {} /\ c.barred = me.barred
  BY <1>1 DEF IsCall
<1>3. Typed(c)'
  BY <1>0, <1>2 DEF Guarded, Typed, Widens, Joining
<1>4. Reserved(c)'
  BY <1>2 DEF Reserved
<1>5. Cleared(c)'
  BY <1>0, <1>2 DEF Guarded, Cleared, Widens, UserSeen, OrganizationSeen, MemberSeen, Joining
<1>6. Unheld(h, c.locks \ handler[h].locks)
  BY <1>2 DEF Unheld
<1>. QED  BY <1>c, <1>2, <1>3, <1>4, <1>5, <1>6, GuardStep DEF Guarded

LEMMA GuardMintLink == ASSUME Inv, GuardInv, NEW h \in Handler, MintLink(h) PROVE GuardInv'
<1>. DEFINE me == handler[h]
<1>0. /\ Formed /\ IsCall(me) /\ Guarded(me) /\ At(h, "resend", "mint")
      /\ UNCHANGED <<users, organizations, members, identities, invitations, inbox, opened>>
  BY DEF Inv, Formed, GuardInv, MintLink, ghosts
<1>1. PICK t \in Token \ minted :
        /\ minted' = minted \cup {t} /\ links' = Put(links, t, NewLink(me.user))
        /\ Becomes(h, [me EXCEPT !.pc = "send", !.token = t])
  BY DEF MintLink
<1>2. me.locks = {} /\ me.user \in DOMAIN users /\ me.op = "resend"
  BY <1>0 DEF At, Guarded, Typed, Reserved
<1>3. [me EXCEPT !.pc = "send", !.token = t] = Sent(me, t, {})
  BY <1>0, <1>2 DEF IsCall, Sent
<1>4. Widens /\ \A locks : Leaves(locks)
  BY <1>0, <1>1, RestWidens
<1>5. NewLink(me.user).mail = me.user
  BY DEF NewLink
<1>6. Rows' /\ BarredStaysOut'
  BY <1>0, <1>1, <1>2, <1>5 DEF GuardInv, Rows, IsUser, BarredStaysOut, Put
<1>. QED  BY <1>0, <1>1, <1>2, <1>3, <1>4, <1>6, GuardMint

LEMMA GuardCreateInvitation ==
  ASSUME Inv, GuardInv, NEW h \in Handler, CreateInvitation(h) PROVE GuardInv'
<1>. DEFINE me == handler[h]
            x == [org |-> me.org, mail |-> me.mail, role |-> me.role,
                  accepted |-> FALSE, revoked |-> FALSE, expired |-> FALSE]
<1>0. /\ Formed /\ IsCall(me) /\ Guarded(me) /\ At(h, "invite", "write")
      /\ UNCHANGED <<users, organizations, members, identities, links, inbox, opened>>
  BY DEF Inv, Formed, GuardInv, CreateInvitation, ghosts
<1>1. PICK t \in Token \ minted :
        /\ minted' = minted \cup {t} /\ invitations' = Put(invitations, t, x)
        /\ Becomes(h, [me EXCEPT !.pc = "send", !.token = t])
  BY DEF CreateInvitation
<1>2. /\ me.locks = {} /\ me.org \in DOMAIN organizations /\ me.mail \in Mail
      /\ me.role \in Role \ {Owner} /\ me.op = "invite"
  BY <1>0 DEF At, Guarded, Typed, Reserved
<1>3. [me EXCEPT !.pc = "send", !.token = t] = Sent(me, t, {})
  BY <1>0, <1>2 DEF IsCall, Sent
<1>4. Widens /\ \A locks : Leaves(locks)
  BY <1>0, <1>1, RestWidens
<1>5. x.org = me.org /\ x.mail = me.mail /\ x.role = me.role
  OBVIOUS
<1>. HIDE DEF x
<1>6. Rows' /\ BarredStaysOut'
  BY <1>0, <1>1, <1>2, <1>5 DEF GuardInv, Rows, IsUser, BarredStaysOut, Put
<1>. QED  BY <1>0, <1>1, <1>2, <1>3, <1>4, <1>6, GuardMint

\* Rows of invitations change, but not whom and what they are for.
LEMMA InvitationRows ==
  ASSUME Inv, GuardInv, NEW t,
         \/ invitations' = [invitations EXCEPT ![t].revoked = TRUE]
         \/ invitations' = [invitations EXCEPT ![t].expired = TRUE]
         \/ invitations' = [invitations EXCEPT ![t].accepted = TRUE]
  PROVE  /\ DOMAIN invitations' = DOMAIN invitations
         /\ \A x \in DOMAIN invitations :
              /\ invitations'[x].org = invitations[x].org
              /\ invitations'[x].mail = invitations[x].mail
              /\ invitations'[x].role = invitations[x].role
<1>1. DOMAIN invitations' = DOMAIN invitations
  OBVIOUS
<1>2. ASSUME NEW x \in DOMAIN invitations
      PROVE  /\ invitations'[x].org = invitations[x].org
             /\ invitations'[x].mail = invitations[x].mail
             /\ invitations'[x].role = invitations[x].role
  <2>1. IsInvitation(invitations[x])
    BY DEF Inv, Store, Tables
  <2>2. \/ invitations'[x] = invitations[x]
        \/ invitations'[x] = [invitations[x] EXCEPT !.revoked = TRUE]
        \/ invitations'[x] = [invitations[x] EXCEPT !.expired = TRUE]
        \/ invitations'[x] = [invitations[x] EXCEPT !.accepted = TRUE]
    OBVIOUS
  <2>. QED  BY <2>1, <2>2 DEF IsInvitation
<1>. QED  BY <1>1, <1>2

LEMMA GuardWriteRevocation ==
  ASSUME Inv, GuardInv, NEW h \in Handler, WriteRevocation(h) PROVE GuardInv'
<1>. DEFINE i == handler[h].invitation
<1>0. /\ Formed /\ Answer(h) /\ invitations' = [invitations EXCEPT ![i].revoked = TRUE]
      /\ UNCHANGED <<users, organizations, members, identities, links, inbox, minted, opened>>
  BY DEF Inv, WriteRevocation, ghosts
<1>1. Widens /\ \A locks : Leaves(locks)
  BY <1>0, RestWidens
<1>2. Rows' /\ BarredStaysOut'
  BY <1>0, InvitationRows DEF GuardInv, Rows, IsUser, BarredStaysOut
<1>. QED  BY <1>0, <1>1, <1>2, GuardAnswer

LEMMA GuardWriteRole ==
  ASSUME Inv, GuardInv, NEW h \in Handler, WriteRole(h) PROVE GuardInv'
<1>. DEFINE me == handler[h]  k == <<me.org, me.mail>>
<1>0. /\ Formed /\ Answer(h) /\ me.role \in Role \ {Owner}
      /\ members' = [members EXCEPT ![k].role = me.role, ![k].changed = TRUE]
      /\ UNCHANGED <<users, organizations, identities, links, invitations, inbox, minted, opened>>
  BY DEF Inv, WriteRole, At, GuardInv, Guarded, Typed, ghosts
<1>1. DOMAIN members' = DOMAIN members
  BY <1>0
<1>2. ASSUME NEW q \in DOMAIN members
      PROVE  /\ members'[q].active = members[q].active
             /\ members'[q].role = members[q].role \/ members'[q].role = me.role
  <2>1. IsMember(members[q])
    BY DEF Inv, Store, Joined
  <2>2. \/ members'[q] = members[q]
        \/ members'[q] = [members[q] EXCEPT !.role = me.role, !.changed = TRUE]
    BY <1>0
  <2>. QED  BY <2>1, <2>2 DEF IsMember
<1>3. Widens /\ \A locks : Leaves(locks)
  <2>1. Barred \subseteq Barred'
    BY <1>0, <1>1, <1>2, BarredGrows
  <2>. QED  BY <1>0, <1>1, <1>2, <2>1 DEF Widens, Leaves, Ordinary
<1>4. Rows' /\ BarredStaysOut'
  BY <1>0, <1>1, <1>2 DEF GuardInv, Rows, IsUser, BarredStaysOut
<1>. QED  BY <1>0, <1>3, <1>4, GuardAnswer

LEMMA GuardSaveState == ASSUME Inv, GuardInv, NEW h \in Handler, SaveState(h) PROVE GuardInv'
<1>0. /\ Formed /\ Answer(h) /\ minted \subseteq minted'
      /\ UNCHANGED <<users, organizations, members, identities, links, invitations, inbox, opened>>
  BY DEF Inv, SaveState, rows, ghosts
<1>1. Widens /\ \A locks : Leaves(locks)
  BY <1>0, RestWidens
<1>2. Rows' /\ BarredStaysOut'
  BY <1>0 DEF GuardInv, Rows, IsUser, BarredStaysOut
<1>. QED  BY <1>0, <1>1, <1>2, GuardAnswer

LEMMA GuardLinkIdentity == ASSUME Inv, GuardInv, NEW h \in Handler, LinkIdentity(h) PROVE GuardInv'
<1>. DEFINE me == handler[h]
<1>0. /\ Formed /\ Guarded(me) /\ At(h, "callback", "link")
      /\ UNCHANGED <<users, organizations, members, links, invitations, inbox, minted, opened>>
  BY DEF Inv, GuardInv, LinkIdentity, ghosts
<1>1. Widens /\ \A locks : Leaves(locks)
  BY <1>0, RestWidens
<1>2. CASE Answer(h) /\ UNCHANGED identities
  BY <1>0, <1>2, GuardQuietAnswer DEF Rested
<1>3. ASSUME NEW pc \in {"confirm", "memberships"}, Goto(h, pc),
             identities' = Put(identities, me.sub, me.user)
      PROVE  GuardInv'
  <2>0. me.user \in DOMAIN users
    BY <1>0 DEF At, Guarded, Typed
  <2>1. Rows' /\ BarredStaysOut'
    BY <1>0, <1>3, <2>0 DEF GuardInv, Rows, IsUser, BarredStaysOut, Put
  <2>2. ASSUME NEW c, c.pc = pc /\ Alike(c, me) /\ c.locks = me.locks PROVE Guarded(c)'
    <3>1. Typed(c)
      BY <1>0, <2>2 DEF At, Alike, Guarded, Typed, Joining
    <3>2. Reserved(c)
      BY <1>0, <2>2 DEF At, Alike, Guarded, Reserved
    <3>3. Cleared(c)
      BY <1>0, <2>2 DEF At, Alike, Guarded, Cleared, UserSeen, OrganizationSeen, MemberSeen,
                        Joining
    <3>. QED  BY <1>1, <3>1, <3>2, <3>3, GuardedKept DEF Guarded
  <2>. QED  BY <1>0, <1>1, <1>3, <2>1, <2>2, GuardMove
<1>. QED  BY <1>2, <1>3 DEF LinkIdentity

\* A user is inserted who was not there.
LEMMA NewUser ==
  ASSUME Rows, NEW m \in Mail \ DOMAIN users, NEW x, IsUser(x), users' = Put(users, m, x)
  PROVE  /\ DOMAIN users' = DOMAIN users \cup {m} /\ DOMAIN users' \subseteq Mail
         /\ \A y \in DOMAIN users' : IsUser(users'[y])
         /\ \A y \in DOMAIN users : y \in DOMAIN users' /\ users'[y] = users[y]
BY DEF Put, Rows

LEMMA GuardCreateGoogleUser ==
  ASSUME Inv, GuardInv, NEW h \in Handler, CreateGoogleUser(h) PROVE GuardInv'
<1>. DEFINE me == handler[h]  m == me.user  x == [verified |-> TRUE, active |-> TRUE]
<1>0. /\ Formed /\ Guarded(me) /\ At(h, "callback", "newuser") /\ ~Blocked(h, <<"mail", m>>)
      /\ UNCHANGED <<organizations, members, identities, links, invitations, inbox, minted, opened>>
  BY Unwaiting DEF Inv, GuardInv, CreateGoogleUser, At, ghosts
<1>1. CASE Answer(h) /\ UNCHANGED users
  BY <1>0, <1>1, GuardQuietAnswer DEF Rested
<1>2. CASE m \notin DOMAIN users /\ Goto(h, "link") /\ users' = Put(users, m, x)
  <2>0. m \in Mail /\ me.locks = {} /\ IsUser(x)
    BY <1>0 DEF At, Guarded, Typed, Reserved, IsUser
  <2>1. /\ DOMAIN users' = DOMAIN users \cup {m} /\ DOMAIN users' \subseteq Mail
        /\ \A y \in DOMAIN users' : IsUser(users'[y])
        /\ \A y \in DOMAIN users : y \in DOMAIN users' /\ users'[y] = users[y]
    BY <1>2, <2>0, NewUser DEF GuardInv
  <2>2. Widens
    BY <1>0, <2>1, BarredGrows DEF Widens, Ordinary
  <2>3. ASSUME NEW g \in Handler \ {h} PROVE Leaves(handler[g].locks)
    <3>1. <<"mail", m>> \notin handler[g].locks
      BY <1>0 DEF Blocked
    <3>2. Reserved(handler[g])
      BY DEF GuardInv, Guarded
    <3>3. ASSUME NEW s \in handler[g].locks, s[1] = "mail" PROVE s[2] # m
      BY <3>1, <3>2, <3>3 DEF Reserved
    <3>. QED  BY <1>0, <2>1, <3>3 DEF Leaves
  <2>4. Rows' /\ BarredStaysOut'
    <3>1. DOMAIN members' \subseteq (DOMAIN organizations') \X (DOMAIN users')
      BY <1>0, <2>1 DEF GuardInv, Rows
    <3>. QED  BY <1>0, <2>1, <3>1 DEF GuardInv, Rows, BarredStaysOut
  <2>5. ASSUME NEW c, c.pc = "link" /\ Alike(c, me) /\ c.locks = me.locks PROVE Guarded(c)'
    <3>1. Typed(c)'
      BY <1>0, <2>1, <2>2, <2>5 DEF At, Alike, Guarded, Typed, Joining
    <3>2. Reserved(c)'
      BY <1>0, <2>0, <2>5 DEF At, Alike, Guarded, Reserved
    <3>3. Cleared(c)'
      BY <1>0, <2>2, <2>5 DEF At, Alike, Guarded, Cleared, UserSeen, OrganizationSeen, MemberSeen,
                        Joining, Widens
    <3>. QED  BY <3>1, <3>2, <3>3 DEF Guarded
  <2>. QED  BY <1>0, <1>2, <2>2, <2>3, <2>4, <2>5, GuardMove
<1>. QED  BY <1>1, <1>2 DEF CreateGoogleUser

\* An organization is inserted whose slug the request holds, with its owner.
LEMMA Founding ==
  ASSUME GuardInv, NEW h \in Handler, NEW me, me = handler[h],
         me.op \in {"register", "found"}, me.pc = "commit",
         organizations' = Put(organizations, me.org, TRUE),
         members' = Put(members, <<me.org, me.user>>, Member(Owner))
  PROVE  /\ me.org \in Slug \ DOMAIN organizations
         /\ \A k \in DOMAIN members : k # <<me.org, me.user>>
         /\ \A o \in DOMAIN organizations :
              o \in DOMAIN organizations' /\ organizations'[o] = organizations[o]
         /\ \A k \in DOMAIN members : k \in DOMAIN members' /\ members'[k] = members[k]
         /\ DOMAIN organizations' = DOMAIN organizations \cup {me.org}
         /\ DOMAIN members' = DOMAIN members \cup {<<me.org, me.user>>}
         /\ members'[<<me.org, me.user>>].role = Owner
         /\ \A g \in Handler \ {h} : \A s \in handler[g].locks :
              /\ s[1] = "slug" => s[2] # me.org
              /\ s[1] = "member" => s[2] # <<me.org, me.user>>
<1>0. /\ Guarded(me) /\ <<"slug", me.org>> \in me.locks /\ me.org \in Slug
      /\ <<"slug", me.org>>[1] = "slug" /\ <<"slug", me.org>>[2] = me.org
  BY DEF GuardInv, Guarded, Reserved, Typed
<1>1. me.org \notin DOMAIN organizations
  BY <1>0 DEF Guarded, Reserved
<1>2. ASSUME NEW k \in DOMAIN members PROVE k # <<me.org, me.user>>
  <2>1. k[1] \in DOMAIN organizations
    BY MemberRows DEF GuardInv
  <2>. QED  BY <1>1, <2>1
<1>3. ASSUME NEW g \in Handler \ {h}, NEW s \in handler[g].locks
      PROVE  /\ s[1] = "slug" => s[2] # me.org
             /\ s[1] = "member" => s[2] # <<me.org, me.user>>
  <2>1. Reserved(handler[g]) /\ s \notin me.locks
    BY DEF GuardInv, Guarded, Exclusive
  <2>2. s = <<s[1], s[2]>> /\ (s[1] = "member" => s[2][1] \in DOMAIN organizations)
    BY <2>1 DEF Reserved
  <2>. QED  BY <1>0, <1>1, <2>1, <2>2
<1>4. Member(Owner).role = Owner
  BY DEF Member
<1>. QED  BY <1>0, <1>1, <1>2, <1>3, <1>4 DEF Put

LEMMA GuardCommitRegistration ==
  ASSUME Inv, GuardInv, NEW h \in Handler, CommitRegistration(h) PROVE GuardInv'
<1>. DEFINE me == handler[h]  k == <<me.org, me.user>>
<1>0. /\ Formed /\ IsCall(me) /\ Guarded(me) /\ me.op = "register" /\ me.pc = "commit"
      /\ users' = Put(users, me.user, Unverified)
      /\ organizations' = Put(organizations, me.org, TRUE)
      /\ members' = Put(members, k, Member(Owner))
      /\ UNCHANGED <<identities, invitations, inbox, opened>>
  BY DEF Inv, Formed, GuardInv, CommitRegistration, At, ghosts
<1>1. PICK t \in Token \ minted :
        /\ minted' = minted \cup {t} /\ links' = Put(links, t, NewLink(me.user))
        /\ Becomes(h, [me EXCEPT !.pc = "send", !.token = t, !.locks = {}])
  BY DEF CommitRegistration
<1>2. /\ me.org \in Slug \ DOMAIN organizations
      /\ \A o \in DOMAIN organizations :
           o \in DOMAIN organizations' /\ organizations'[o] = organizations[o]
      /\ \A q \in DOMAIN members : q \in DOMAIN members' /\ members'[q] = members[q]
      /\ DOMAIN organizations' = DOMAIN organizations \cup {me.org}
      /\ DOMAIN members' = DOMAIN members \cup {k} /\ members'[k].role = Owner
      /\ \A g \in Handler \ {h} : \A s \in handler[g].locks :
           (s[1] = "slug" => s[2] # me.org) /\ (s[1] = "member" => s[2] # k)
  BY <1>0, Founding
<1>3. /\ me.user \in Mail /\ me.user \notin DOMAIN users /\ <<"mail", me.user>> \in me.locks
  <2>1. <<"mail", me.user>>[1] = "mail" /\ <<"mail", me.user>>[2] = me.user
    OBVIOUS
  <2>. QED  BY <1>0, <2>1 DEF Guarded, Typed, Reserved
<1>4. /\ DOMAIN users' = DOMAIN users \cup {me.user} /\ DOMAIN users' \subseteq Mail
      /\ \A y \in DOMAIN users' : IsUser(users'[y])
      /\ \A y \in DOMAIN users : y \in DOMAIN users' /\ users'[y] = users[y]
  <2>1. IsUser(Unverified)
    BY DEF IsUser, Unverified
  <2>. QED  BY <1>0, <1>3, <2>1, NewUser DEF GuardInv
<1>5. Widens
  BY <1>1, <1>2, <1>4, BarredGrows DEF Widens, Ordinary
<1>6. ASSUME NEW g \in Handler \ {h} PROVE Leaves(handler[g].locks)
  <2>1. ASSUME NEW s \in handler[g].locks, s[1] = "mail" PROVE s[2] # me.user
    <3>1. s = <<s[1], s[2]>> /\ s \notin me.locks
      BY DEF GuardInv, Guarded, Reserved, Exclusive
    <3>. QED  BY <1>3, <2>1, <3>1
  <2>. QED  BY <1>2, <1>4, <2>1 DEF Leaves
<1>7. Rows' /\ BarredStaysOut'
  <2>1. NewLink(me.user).mail = me.user
    BY DEF NewLink
  <2>2. DOMAIN members' \subseteq (DOMAIN organizations') \X (DOMAIN users')
    <3>1. k \in (DOMAIN organizations') \X (DOMAIN users')
      BY <1>2, <1>4
    <3>. QED  BY <1>2, <1>4, <3>1 DEF GuardInv, Rows
  <2>3. \A q \in DOMAIN members' : members'[q].role \in Role
    BY <1>2, RoleAssumption DEF GuardInv, Rows
  <2>4. \A x \in DOMAIN links' : links'[x].mail \in DOMAIN users'
    BY <1>1, <1>4, <2>1 DEF GuardInv, Rows, Put
  <2>. QED  BY <1>0, <1>1, <1>2, <1>4, <2>2, <2>3, <2>4 DEF GuardInv, Rows, BarredStaysOut
<1>8. Becomes(h, Sent(me, t, {}))
  BY <1>1 DEF Sent
<1>. QED  BY <1>0, <1>1, <1>5, <1>6, <1>7, <1>8, GuardMint

LEMMA GuardCommitOrganization ==
  ASSUME Inv, GuardInv, NEW h \in Handler, CommitOrganization(h) PROVE GuardInv'
<1>. DEFINE me == handler[h]  k == <<me.org, me.user>>
<1>0. /\ Formed /\ Guarded(me) /\ me.op = "found" /\ me.pc = "commit" /\ Answer(h)
      /\ organizations' = Put(organizations, me.org, TRUE)
      /\ members' = Put(members, k, Member(Owner))
      /\ UNCHANGED <<users, identities, links, invitations, inbox, minted, opened>>
  BY DEF Inv, GuardInv, CommitOrganization, At, ghosts
<1>2. /\ me.org \in Slug \ DOMAIN organizations
      /\ \A o \in DOMAIN organizations :
           o \in DOMAIN organizations' /\ organizations'[o] = organizations[o]
      /\ \A q \in DOMAIN members : q \in DOMAIN members' /\ members'[q] = members[q]
      /\ DOMAIN organizations' = DOMAIN organizations \cup {me.org}
      /\ DOMAIN members' = DOMAIN members \cup {k} /\ members'[k].role = Owner
      /\ \A g \in Handler \ {h} : \A s \in handler[g].locks :
           (s[1] = "slug" => s[2] # me.org) /\ (s[1] = "member" => s[2] # k)
  BY <1>0, Founding
<1>3. Widens
  BY <1>0, <1>2, BarredGrows DEF Widens, Ordinary
<1>4. ASSUME NEW g \in Handler \ {h} PROVE Leaves(handler[g].locks)
  BY <1>0, <1>2 DEF Leaves
<1>5. Rows' /\ BarredStaysOut'
  <2>1. k \in (DOMAIN organizations') \X (DOMAIN users')
    BY <1>0, <1>2 DEF Guarded, Typed
  <2>2. DOMAIN members' \subseteq (DOMAIN organizations') \X (DOMAIN users')
    BY <1>0, <1>2, <2>1 DEF GuardInv, Rows
  <2>3. \A q \in DOMAIN members' : members'[q].role \in Role
    BY <1>2, RoleAssumption DEF GuardInv, Rows
  <2>. QED  BY <1>0, <1>2, <2>2, <2>3 DEF GuardInv, Rows, IsUser, BarredStaysOut
<1>. QED  BY <1>0, <1>3, <1>4, <1>5, GuardAnswer

LEMMA GuardReadMemberships ==
  ASSUME Inv, GuardInv, NEW h \in Handler, ReadMemberships(h) PROVE GuardInv'
<1>. DEFINE me == handler[h]
<1>0. /\ Formed /\ Guarded(me) /\ Rows /\ me.pc = "memberships"
      /\ UNCHANGED <<users, organizations, members, identities, links, invitations, inbox, minted>>
  BY DEF Inv, GuardInv, ReadMemberships, tables, rows
<1>1. CASE Goto(h, "claim") /\ UNCHANGED opened
  <2>1. ASSUME NEW c, c.pc = "claim" /\ Alike(c, me) /\ c.locks = me.locks PROVE Guarded(c)
    <3>1. Typed(c)
      BY <1>0, <2>1 DEF Alike, Guarded, Typed, Joining
    <3>2. Reserved(c)
      BY <1>0, <2>1 DEF Alike, Guarded, Reserved
    <3>3. Cleared(c)
      BY <1>0, <2>1 DEF Alike, Guarded, Typed, Cleared, UserSeen, OrganizationSeen, MemberSeen
    <3>. QED  BY <3>1, <3>2, <3>3 DEF Guarded
  <2>. QED  BY <1>0, <1>1, <2>1, GuardGoto DEF Rested
<1>2. ASSUME NEW org, Answer(h), Opened(h, me.user, org),
             <<org>> \notin me.barred, <<org, me.user>> \notin me.barred
      PROVE  GuardInv'
  <2>1. <<me.user>> \notin me.barred
    BY <1>0 DEF Guarded, Typed, Cleared, UserSeen
  <2>2. BarredStaysOut'
    BY <1>2, <2>1, OpenedClean DEF GuardInv
  <2>3. Rows'
    BY <1>0 DEF Rows, IsUser
  <2>4. Widens /\ \A locks : Leaves(locks)
    BY <1>0, RestWidens
  <2>. QED  BY <1>0, <1>2, <2>2, <2>3, <2>4, GuardAnswer
<1>3. CASE Answer(h) /\ Opened(h, me.user, None)
  BY <1>0, <1>2, <1>3, NobodyFree DEF Guarded, Cleared
<1>4. ASSUME NEW k \in DOMAIN members, k[2] = me.user, Usable(k), Answer(h),
             Opened(h, me.user, k[1])
      PROVE  GuardInv'
  <2>1. k[1] \in DOMAIN organizations /\ k = <<k[1], me.user>>
    BY <1>0, <1>4, MemberRows
  <2>2. k[1] \in Slug /\ organizations[k[1]] /\ members[k].active
    BY <1>0, <1>4, <2>1 DEF Rows, Usable
  <2>3. <<k[1]>> \notin Barred /\ <<k[1], me.user>> \notin Barred
    BY <1>0, <2>1, <2>2, OrganizationFree, MemberFree
  <2>. QED  BY <1>0, <1>2, <1>4, <2>3 DEF Guarded, Cleared
<1>. QED  BY <1>1, <1>3, <1>4 DEF ReadMemberships

\* What an acceptance inserts, its request holds.
LEMMA Joins ==
  ASSUME Inv, GuardInv, NEW h \in Handler, CommitAcceptance(h), NEW me, me = handler[h],
         NEW k, k = <<me.org, me.user>>
  PROVE  /\ DOMAIN users' \subseteq Mail /\ me.user \in DOMAIN users'
         /\ \A y \in DOMAIN users' : IsUser(users'[y])
         /\ \A y \in DOMAIN users : y \in DOMAIN users' /\ users'[y] = users[y]
         /\ \A y \in DOMAIN users' : y \in DOMAIN users \/ <<"mail", y>> \in me.locks
         /\ \A q \in DOMAIN members : q \in DOMAIN members' /\ members'[q] = members[q]
         /\ \A q \in DOMAIN members' :
              q \in DOMAIN members
                \/ (q = k /\ <<"member", q>> \in me.locks /\ members'[q].role = me.role)
         /\ me.org \in DOMAIN organizations /\ me.role \in Role
<1>0. /\ Sound(me) /\ Guarded(me) /\ Rows /\ me.pc = "commit" /\ me.op \in Joining
      /\ users' = IF me.op = "join" THEN Put(users, me.user, [verified |-> TRUE, active |-> TRUE])
                  ELSE users
      /\ members' = IF <<"member", k>> \in me.locks THEN Put(members, k, Member(me.role))
                    ELSE members
  BY DEF Inv, GuardInv, CommitAcceptance, Joining
<1>1. /\ me.invitation \in DOMAIN invitations
      /\ me.org = invitations[me.invitation].org /\ me.role = invitations[me.invitation].role
      /\ me.op = "join" => me.user = invitations[me.invitation].mail
  BY <1>0 DEF Sound, Aimed, Matched, Addressed, Joining
<1>2. me.org \in DOMAIN organizations /\ me.role \in Role /\ (me.op = "join" => me.user \in Mail)
  BY <1>0, <1>1 DEF Rows
<1>3. /\ DOMAIN users' \subseteq Mail /\ me.user \in DOMAIN users'
      /\ \A y \in DOMAIN users' : IsUser(users'[y])
      /\ \A y \in DOMAIN users : y \in DOMAIN users' /\ users'[y] = users[y]
      /\ \A y \in DOMAIN users' : y \in DOMAIN users \/ <<"mail", y>> \in me.locks
  <2>1. CASE me.op = "join"
    <3>1. <<"mail", me.user>> \in me.locks
      BY <1>0, <2>1 DEF Guarded, Reserved
    <3>2. me.user \in Mail \ DOMAIN users
      <4>1. <<"mail", me.user>>[1] = "mail" /\ <<"mail", me.user>>[2] = me.user
        OBVIOUS
      <4>. QED  BY <1>0, <1>2, <2>1, <3>1, <4>1 DEF Guarded, Reserved
    <3>3. IsUser([verified |-> TRUE, active |-> TRUE])
      BY DEF IsUser
    <3>4. users' = Put(users, me.user, [verified |-> TRUE, active |-> TRUE])
      BY <1>0, <2>1
    <3>5. /\ DOMAIN users' = DOMAIN users \cup {me.user} /\ DOMAIN users' \subseteq Mail
          /\ \A y \in DOMAIN users' : IsUser(users'[y])
          /\ \A y \in DOMAIN users : y \in DOMAIN users' /\ users'[y] = users[y]
      BY <1>0, <3>2, <3>3, <3>4, NewUser
    <3>. QED  BY <3>1, <3>5
  <2>2. CASE me.op # "join"
    <3>1. me.user \in DOMAIN users
      <4>1. CASE me.op = "accept"
        BY <1>0, <4>1 DEF Guarded, Typed
      <4>2. CASE me.op = "callback"
        BY <1>0, <4>2 DEF Sound, Linked, Rows
      <4>. QED  BY <1>0, <2>2, <4>1, <4>2 DEF Joining
    <3>. QED  BY <1>0, <2>2, <3>1 DEF Rows, IsUser
  <2>. QED  BY <2>1, <2>2
<1>4. <<"member", k>> \in me.locks => k \notin DOMAIN members
  <2>1. <<"member", k>>[1] = "member" /\ <<"member", k>>[2] = k
    OBVIOUS
  <2>. QED  BY <1>0, <2>1 DEF Guarded, Reserved
<1>5. Member(me.role).role = me.role
  BY DEF Member
<1>6. /\ \A q \in DOMAIN members : q \in DOMAIN members' /\ members'[q] = members[q]
      /\ \A q \in DOMAIN members' :
           q \in DOMAIN members
             \/ (q = k /\ <<"member", q>> \in me.locks /\ members'[q].role = me.role)
  <2>1. CASE <<"member", k>> \in me.locks
    <3>1. members' = Put(members, k, Member(me.role))
      BY <1>0, <2>1
    <3>. QED  BY <1>4, <1>5, <2>1, <3>1 DEF Put
  <2>2. CASE <<"member", k>> \notin me.locks
    BY <1>0, <2>2
  <2>. QED  BY <2>1, <2>2
<1>. QED  BY <1>2, <1>3, <1>6

LEMMA GuardCommitAcceptance ==
  ASSUME Inv, GuardInv, NEW h \in Handler, CommitAcceptance(h) PROVE GuardInv'
<1>. DEFINE me == handler[h]  k == <<me.org, me.user>>
<1>0. /\ Formed /\ Guarded(me) /\ Rows /\ me.pc = "commit" /\ me.op \in Joining /\ Answer(h)
      /\ invitations' = [invitations EXCEPT ![me.invitation].accepted = TRUE]
      /\ Opened(h, me.user, me.org)
      /\ UNCHANGED <<organizations, identities, links, inbox, minted>>
  BY DEF Inv, GuardInv, CommitAcceptance, Joining
<1>1. /\ DOMAIN users' \subseteq Mail /\ me.user \in DOMAIN users'
      /\ \A y \in DOMAIN users' : IsUser(users'[y])
      /\ \A y \in DOMAIN users : y \in DOMAIN users' /\ users'[y] = users[y]
      /\ \A y \in DOMAIN users' : y \in DOMAIN users \/ <<"mail", y>> \in me.locks
      /\ \A q \in DOMAIN members : q \in DOMAIN members' /\ members'[q] = members[q]
      /\ \A q \in DOMAIN members' :
           q \in DOMAIN members
             \/ (q = k /\ <<"member", q>> \in me.locks /\ members'[q].role = me.role)
      /\ me.org \in DOMAIN organizations /\ me.role \in Role
  BY Joins
<1>2. Widens
  BY <1>0, <1>1, BarredGrows DEF Widens, Ordinary
<1>3. ASSUME NEW g \in Handler \ {h} PROVE Leaves(handler[g].locks)
  <2>1. ASSUME NEW s \in handler[g].locks PROVE s = <<s[1], s[2]>> /\ s \notin me.locks
    BY DEF GuardInv, Guarded, Reserved, Exclusive
  <2>. QED  BY <1>0, <1>1, <2>1 DEF Leaves
<1>4. BarredStaysOut'
  <2>1. <<me.user>> \notin me.barred /\ <<me.org>> \notin me.barred /\ k \notin me.barred
    BY <1>0 DEF Guarded, Cleared, UserSeen, OrganizationSeen, MemberSeen, Joining
  <2>. QED  BY <1>0, <2>1, OpenedClean DEF GuardInv
<1>5. Rows'
  <2>1. k \in (DOMAIN organizations') \X (DOMAIN users')
    BY <1>0, <1>1
  <2>2. ASSUME NEW q \in DOMAIN members'
        PROVE  q \in (DOMAIN organizations') \X (DOMAIN users') /\ members'[q].role \in Role
    <3>1. CASE q \in DOMAIN members
      <4>1. q \in (DOMAIN organizations) \X (DOMAIN users) /\ members[q].role \in Role
        BY <1>0, <3>1 DEF Rows
      <4>. QED  BY <1>0, <1>1, <3>1, <4>1
    <3>2. CASE q = k /\ members'[q].role = me.role
      BY <1>1, <2>1, <3>2
    <3>. QED  BY <1>1, <3>1, <3>2
  <2>3. /\ DOMAIN invitations' = DOMAIN invitations
        /\ \A x \in DOMAIN invitations :
             /\ invitations'[x].org = invitations[x].org
             /\ invitations'[x].mail = invitations[x].mail
             /\ invitations'[x].role = invitations[x].role
    BY <1>0, InvitationRows
  <2>. QED  BY <1>0, <1>1, <2>2, <2>3 DEF Rows
<1>. QED  BY <1>0, <1>2, <1>3, <1>4, <1>5, GuardAnswer

------------------------------------------------------------------------------
(* What happens to the rows while the requests stay where they are.           *)

LEMMA GuardStill ==
  ASSUME GuardInv, UNCHANGED handler, Widens, \A locks : Leaves(locks), Rows', BarredStaysOut'
  PROVE  GuardInv'
<1>1. Exclusive'
  BY DEF GuardInv, Exclusive
<1>2. ASSUME NEW g \in Handler PROVE Guarded(handler[g])'
  <2>. DEFINE d == handler'[g]
  <2>1. \A x : x = d => Guarded(x)'
    <3>. SUFFICES ASSUME NEW x, x = d PROVE Guarded(x)'
      OBVIOUS
    <3>1. Guarded(x) /\ Leaves(x.locks)
      BY DEF GuardInv
    <3>. QED  BY <3>1, GuardedKept
  <2>. QED  BY <2>1 DEF Guarded, Typed, Ordinary, Reserved, Cleared, UserSeen, OrganizationSeen,
                     MemberSeen, Barred
<1>. QED  BY <1>1, <1>2 DEF GuardInv

LEMMA GuardSuspend == ASSUME Inv, GuardInv, Suspend PROVE GuardInv'
<1>0. /\ Rows /\ UNCHANGED <<identities, links, invitations, inbox, minted, opened, handler>>
  BY DEF GuardInv, Suspend, ghosts
<1>1. ASSUME NEW m \in DOMAIN users
      PROVE  m \in DOMAIN users' /\ IsUser(users'[m]) /\ (users'[m].active => users[m].active)
  <2>1. IsUser(users[m])
    BY <1>0 DEF Rows
  <2>2. /\ m \in DOMAIN users'
        /\ users'[m] = users[m] \/ users'[m] = [users[m] EXCEPT !.active = FALSE]
    BY DEF Suspend
  <2>. QED  BY <2>1, <2>2 DEF IsUser
<1>2. ASSUME NEW o \in DOMAIN organizations
      PROVE  o \in DOMAIN organizations' /\ (organizations'[o] => organizations[o])
  BY DEF Suspend
<1>3. ASSUME NEW k \in DOMAIN members
      PROVE  /\ k \in DOMAIN members' /\ members'[k].role = members[k].role
             /\ members'[k].active => members[k].active
  <2>1. IsMember(members[k])
    BY DEF Inv, Store, Joined
  <2>2. /\ k \in DOMAIN members'
        /\ members'[k] = members[k] \/ members'[k] = [members[k] EXCEPT !.active = FALSE]
    BY DEF Suspend
  <2>. QED  BY <2>1, <2>2 DEF IsMember
<1>4. /\ DOMAIN users' = DOMAIN users /\ DOMAIN organizations' = DOMAIN organizations
      /\ DOMAIN members' = DOMAIN members
  BY DEF Suspend
<1>5. Widens /\ \A locks : Leaves(locks)
  <2>1. Barred \subseteq Barred'
    BY <1>1, <1>2, <1>3, BarredGrows
  <2>. QED  BY <1>0, <1>3, <1>4, <2>1 DEF Widens, Leaves, Ordinary
<1>6. Rows' /\ BarredStaysOut'
  BY <1>0, <1>1, <1>3, <1>4 DEF Rows, GuardInv, BarredStaysOut
<1>. QED  BY <1>0, <1>5, <1>6, GuardStill

LEMMA GuardExpire == ASSUME Inv, GuardInv, Expire PROVE GuardInv'
<1>0. UNCHANGED <<users, organizations, members, identities, inbox, minted, opened, handler>>
  BY DEF Expire, ghosts
<1>1. Widens /\ \A locks : Leaves(locks)
  BY <1>0, RestWidens
<1>2. ASSUME NEW t, links' = [links EXCEPT ![t].expired = TRUE], UNCHANGED invitations
      PROVE  Rows' /\ BarredStaysOut'
  BY <1>0, <1>2, LinkRows
<1>3. ASSUME NEW t, invitations' = [invitations EXCEPT ![t].expired = TRUE], UNCHANGED links
      PROVE  Rows' /\ BarredStaysOut'
  BY <1>0, <1>3, InvitationRows DEF GuardInv, Rows, IsUser, BarredStaysOut
<1>4. ASSUME UNCHANGED <<links, invitations>> PROVE Rows' /\ BarredStaysOut'
  BY <1>0, <1>4 DEF GuardInv, Rows, IsUser, BarredStaysOut
<1>5. Rows' /\ BarredStaysOut'
  BY <1>2, <1>3, <1>4 DEF Expire
<1>. QED  BY <1>0, <1>1, <1>5, GuardStill

LEMMA GuardServe == ASSUME Inv, GuardInv, NEW h \in Handler, Serve(h) PROVE GuardInv'
<1>1. \/ LookForUser(h) \/ ChooseSlug(h) \/ InsertUser(h) \/ InsertOrganization(h)
      \/ CommitRegistration(h) \/ CommitOrganization(h) \/ Send(h)
      => GuardInv'
  BY GuardLookForUser, GuardChooseSlug, GuardInsertUser, GuardInsertOrganization,
     GuardCommitRegistration, GuardCommitOrganization, GuardSend
<1>2. \/ ReadLink(h) \/ ConsumeLink(h) \/ Confirm(h) \/ ReadMemberships(h)
      \/ LookResend(h) \/ RevokeLinks(h) \/ MintLink(h)
      => GuardInv'
  BY GuardReadLink, GuardConsumeLink, GuardConfirm, GuardReadMemberships, GuardLookResend,
     GuardRevokeLinks, GuardMintLink
<1>3. \/ Permit(h) \/ CreateInvitation(h) \/ FindInvitation(h) \/ WriteRevocation(h)
      \/ FindTarget(h) \/ WriteRole(h)
      \/ ReadInvitation(h) \/ MatchUser(h) \/ FindConflict(h) \/ FindOrganization(h)
      \/ TakeInvitation(h) \/ Enroll(h) \/ CommitAcceptance(h)
      => GuardInv'
  BY GuardPermit, GuardCreateInvitation, GuardFindInvitation, GuardWriteRevocation,
     GuardFindTarget, GuardWriteRole, GuardReadInvitation, GuardMatchUser, GuardFindConflict,
     GuardFindOrganization, GuardTakeInvitation, GuardEnroll, GuardCommitAcceptance
<1>4. \/ SaveState(h) \/ ConsumeState(h) \/ FindIdentity(h) \/ FindNewcomer(h)
      \/ CreateGoogleUser(h) \/ LinkIdentity(h) \/ ClaimInvitation(h) \/ MatchAddressee(h)
      => GuardInv'
  BY GuardSaveState, GuardConsumeState, GuardFindIdentity, GuardFindNewcomer,
     GuardCreateGoogleUser, GuardLinkIdentity, GuardClaimInvitation, GuardMatchAddressee
<1>. QED  BY <1>1, <1>2, <1>3, <1>4 DEF Serve

LEMMA GuardNext == ASSUME Inv, GuardInv, [Next]_vars PROVE GuardInv'
<1>1. ASSUME NEW h \in Handler, Crash(h) PROVE GuardInv'
  <2>1. Formed /\ Answer(h) /\ Rested
    BY <1>1 DEF Inv, Crash, Rested, tables, rows, ghosts
  <2>. QED  BY <2>1, GuardQuietAnswer
<1>2. CASE UNCHANGED vars
  <2>1. UNCHANGED handler /\ Rested
    BY <1>2 DEF vars, tables, rows, ghosts, Rested
  <2>2. Widens /\ \A locks : Leaves(locks)
    BY <2>1, RestWidens DEF Rested
  <2>3. Rows' /\ BarredStaysOut'
    BY <2>1 DEF Rested, GuardInv, Rows, IsUser, BarredStaysOut
  <2>. QED  BY <2>1, <2>2, <2>3, GuardStill
<1>. QED  BY <1>1, <1>2, GuardAsk, GuardServe, GuardSuspend, GuardExpire DEF Next

LEMMA GuardInvariant == Spec => [](Inv /\ GuardInv)
<1>1. Init => Inv /\ GuardInv
  BY InitInv, GuardInit
<1>2. Inv /\ GuardInv /\ [Next]_vars => (Inv /\ GuardInv)'
  BY NextInv, GuardNext
<1>. QED  BY <1>1, <1>2, PTL DEF Spec

------------------------------------------------------------------------------
(* Who is a member, and with which role.                                      *)

\* The memberships at the beginning are those of owners.
Owned == \A k \in DOMAIN Members : Members[k] = Owner

\* Identities stay, and so does what an invitation is for and that it was accepted.
Remembered ==
  /\ \A s \in DOMAIN identities : s \in DOMAIN identities' /\ identities'[s] = identities[s]
  /\ \A i \in DOMAIN invitations :
       /\ i \in DOMAIN invitations'
       /\ invitations'[i].org = invitations[i].org /\ invitations'[i].mail = invitations[i].mail
       /\ invitations'[i].role = invitations[i].role
       /\ invitations[i].accepted => invitations'[i].accepted

\* The steps that touch invitations, identities or memberships.
Touches ==
  \E h \in Handler :
    \/ CreateInvitation(h) \/ WriteRevocation(h) \/ LinkIdentity(h)
    \/ CommitRegistration(h) \/ CommitOrganization(h) \/ CommitAcceptance(h) \/ WriteRole(h)

LEMMA Touching ==
  ASSUME [Next]_vars
  PROVE  Touches \/ Suspend \/ Expire \/ UNCHANGED <<members, identities, invitations>>
<1>1. ASSUME NEW h \in Handler, Ask(h) \/ Crash(h)
      PROVE  UNCHANGED <<members, identities, invitations>>
  BY <1>1 DEF Ask, Register, Found, Verify, Resend, Invite, Revoke, ChangeRole, Accept, Start,
              Callback, Crash, tables, rows
<1>2. ASSUME NEW h \in Handler, Serve(h), ~Touches
      PROVE  UNCHANGED <<members, identities, invitations>>
  BY <1>2 DEF Serve, Touches, LookForUser, ChooseSlug, InsertUser, InsertOrganization, Send,
       ReadLink, ConsumeLink, Confirm, ReadMemberships, LookResend, RevokeLinks, MintLink, Permit,
       FindInvitation, FindTarget, ReadInvitation, MatchUser, FindConflict, FindOrganization,
       TakeInvitation, Enroll, SaveState, ConsumeState, FindIdentity, FindNewcomer,
       CreateGoogleUser, ClaimInvitation, MatchAddressee, tables, rows
<1>3. CASE UNCHANGED vars
  BY <1>3 DEF vars, tables, rows
<1>. QED  BY <1>1, <1>2, <1>3 DEF Next

LEMMA Remembering == ASSUME Inv, GuardInv, [Next]_vars PROVE Remembered
<1>1. CASE UNCHANGED <<identities, invitations>>
  BY <1>1 DEF Remembered
<1>2. ASSUME NEW t, UNCHANGED identities,
             \/ invitations' = [invitations EXCEPT ![t].revoked = TRUE]
             \/ invitations' = [invitations EXCEPT ![t].expired = TRUE]
             \/ invitations' = [invitations EXCEPT ![t].accepted = TRUE]
      PROVE  Remembered
  <2>1. ASSUME NEW i \in DOMAIN invitations, invitations[i].accepted
        PROVE  invitations'[i].accepted
    <3>1. IsInvitation(invitations[i])
      BY DEF Inv, Store, Tables
    <3>2. \/ invitations'[i] = invitations[i]
          \/ invitations'[i] = [invitations[i] EXCEPT !.revoked = TRUE]
          \/ invitations'[i] = [invitations[i] EXCEPT !.expired = TRUE]
          \/ invitations'[i] = [invitations[i] EXCEPT !.accepted = TRUE]
      BY <1>2
    <3>. QED  BY <2>1, <3>1, <3>2 DEF IsInvitation
  <2>. QED  BY <1>2, <2>1, InvitationRows DEF Remembered
<1>3. ASSUME NEW h \in Handler, CreateInvitation(h) PROVE Remembered
  <2>1. PICK t \in Token \ minted : \E x : invitations' = Put(invitations, t, x)
    BY <1>3 DEF CreateInvitation
  <2>2. UNCHANGED identities /\ t \notin DOMAIN invitations
    BY <1>3, <2>1 DEF CreateInvitation, Inv, Store, Kinds
  <2>. QED  BY <2>1, <2>2 DEF Put, Remembered
<1>4. ASSUME NEW h \in Handler, LinkIdentity(h) PROVE Remembered
  BY <1>4 DEF LinkIdentity, Put, Remembered
<1>5. ASSUME NEW h \in Handler,
             WriteRevocation(h) \/ CommitAcceptance(h) \/ CommitRegistration(h)
               \/ CommitOrganization(h) \/ WriteRole(h)
      PROVE  Remembered
  BY <1>1, <1>2, <1>5 DEF WriteRevocation, CommitAcceptance, CommitRegistration,
                          CommitOrganization, WriteRole
<1>6. CASE Suspend \/ Expire
  BY <1>1, <1>2, <1>6 DEF Suspend, Expire
<1>. QED  BY <1>1, <1>3, <1>4, <1>5, <1>6, Touching DEF Touches

\* A membership keeps its role, or an owner changes it ...
Keeps(k) ==
  \/ members'[k].role = members[k].role /\ members'[k].changed = members[k].changed
  \/ Ordinary(k) /\ members'[k].role # Owner /\ members'[k].changed
\* ... and one that is new is that of an owner, or comes with an acceptance.
Comes(k) ==
  \/ members'[k].role = Owner /\ ~members'[k].changed
  \/ members'[k].role # Owner /\ \E i \in DOMAIN invitations' :
       /\ invitations'[i].accepted /\ invitations'[i].org = k[1]
       /\ invitations'[i].role = members'[k].role /\ Reaches(invitations[i].mail, k[2])'

LEMMA MembersChange ==
  ASSUME Inv, GuardInv, [Next]_vars, NEW k \in DOMAIN members'
  PROVE  (k \in DOMAIN members /\ Keeps(k)) \/ Comes(k)
<1>1. CASE UNCHANGED members
  BY <1>1 DEF Keeps
<1>2. ASSUME NEW h \in Handler, CommitRegistration(h) \/ CommitOrganization(h)
      PROVE  (k \in DOMAIN members /\ Keeps(k)) \/ Comes(k)
  <2>. DEFINE me == handler[h]  q == <<me.org, me.user>>
  <2>1. /\ me.op \in {"register", "found"} /\ me.pc = "commit"
        /\ organizations' = Put(organizations, me.org, TRUE)
        /\ members' = Put(members, q, Member(Owner))
    BY <1>2 DEF CommitRegistration, CommitOrganization, At
  <2>2. /\ \A x \in DOMAIN members : members'[x] = members[x]
        /\ DOMAIN members' = DOMAIN members \cup {q}
    BY <2>1, Founding
  <2>3. members'[q].role = Owner /\ ~members'[q].changed
    BY <2>1 DEF Put, Member
  <2>. QED  BY <2>2, <2>3 DEF Keeps, Comes
<1>3. ASSUME NEW h \in Handler, CommitAcceptance(h)
      PROVE  (k \in DOMAIN members /\ Keeps(k)) \/ Comes(k)
  <2>. PICK me : me = handler[h]
    OBVIOUS
  <2>. DEFINE i == me.invitation
  <2>1. \/ k \in DOMAIN members /\ members'[k] = members[k]
        \/ k = <<me.org, me.user>> /\ members'[k].role = me.role
    <3>1. PICK q : q = <<me.org, me.user>>
      OBVIOUS
    <3>2. /\ \A x \in DOMAIN members : x \in DOMAIN members' /\ members'[x] = members[x]
          /\ \A x \in DOMAIN members' :
               x \in DOMAIN members
                 \/ (x = q /\ <<"member", x>> \in me.locks /\ members'[x].role = me.role)
      BY <1>3, <3>1, Joins
    <3>. QED  BY <3>1, <3>2
  <2>2. /\ Sound(me) /\ me.pc = "commit" /\ me.op \in Joining
        /\ invitations' = [invitations EXCEPT ![i].accepted = TRUE] /\ UNCHANGED identities
    BY <1>3 DEF Inv, CommitAcceptance, Joining
  <2>3. /\ i \in DOMAIN invitations /\ IsInvitation(invitations[i])
        /\ me.org = invitations[i].org /\ me.role = invitations[i].role /\ me.role # Owner
    BY <2>2 DEF Sound, Aimed, Matched, Joining, Inv, Store, Tables, GuardInv, Rows
  <2>4. /\ i \in DOMAIN invitations' /\ invitations'[i].accepted
        /\ invitations'[i].org = invitations[i].org /\ invitations'[i].mail = invitations[i].mail
        /\ invitations'[i].role = invitations[i].role
    BY <2>2, <2>3 DEF IsInvitation
  <2>5. Reaches(invitations[i].mail, me.user)'
    BY <2>2, <2>4 DEF Sound, Addressed, Linked, Joining, Reaches
  <2>6. CASE k = <<me.org, me.user>> /\ members'[k].role = me.role
    <3>1. k[1] = me.org /\ k[2] = me.user
      BY <2>6
    <3>2. Reaches(invitations[i].mail, k[2])'
      BY <2>5, <3>1
    <3>. QED  BY <2>3, <2>4, <2>6, <3>1, <3>2 DEF Comes
  <2>. QED  BY <2>1, <2>6 DEF Keeps
<1>4. ASSUME NEW h \in Handler, WriteRole(h) PROVE k \in DOMAIN members /\ Keeps(k)
  <2>. DEFINE me == handler[h]  q == <<me.org, me.mail>>
  <2>1. /\ Ordinary(q) /\ me.role # Owner
        /\ members' = [members EXCEPT ![q].role = me.role, ![q].changed = TRUE]
    BY <1>4 DEF WriteRole, At, GuardInv, Guarded, Typed
  <2>2. k \in DOMAIN members /\ IsMember(members[k])
    BY <2>1 DEF Inv, Store, Joined
  <2>3. CASE k = q
    <3>1. members'[k] = [members[k] EXCEPT !.role = me.role, !.changed = TRUE]
      BY <2>1, <2>2, <2>3
    <3>2. members'[k].role # Owner /\ members'[k].changed
      BY <2>1, <2>2, <3>1 DEF IsMember
    <3>. QED  BY <2>1, <2>2, <2>3, <3>2 DEF Keeps
  <2>4. CASE k # q
    BY <2>1, <2>2, <2>4 DEF Keeps
  <2>. QED  BY <2>3, <2>4
<1>5. CASE Suspend
  <2>1. k \in DOMAIN members /\ IsMember(members[k])
    BY <1>5 DEF Suspend, Inv, Store, Joined
  <2>2. members'[k] = members[k] \/ members'[k] = [members[k] EXCEPT !.active = FALSE]
    BY <1>5, <2>1 DEF Suspend
  <2>. QED  BY <2>1, <2>2 DEF IsMember, Keeps
<1>6. ASSUME NEW h \in Handler, CreateInvitation(h) \/ WriteRevocation(h) \/ LinkIdentity(h)
      PROVE  UNCHANGED members
  BY <1>6 DEF CreateInvitation, WriteRevocation, LinkIdentity
<1>7. CASE Expire
  BY <1>1, <1>7 DEF Expire
<1>. QED  BY <1>1, <1>2, <1>3, <1>4, <1>5, <1>6, <1>7, Touching DEF Touches

LEMMA InvitedStep ==
  ASSUME Inv, GuardInv, [Next]_vars, MembersAreInvited PROVE MembersAreInvited'
<1>1. ASSUME NEW k \in DOMAIN members', members'[k].changed PROVE members'[k].role # Owner
  BY <1>1, MembersChange DEF MembersAreInvited, Keeps, Comes
<1>2. ASSUME NEW k \in DOMAIN members', members'[k].role # Owner
      PROVE  \E i \in DOMAIN invitations' :
               /\ invitations'[i].accepted /\ invitations'[i].org = k[1]
               /\ Reaches(invitations[i].mail, k[2])'
               /\ members'[k].changed \/ invitations'[i].role = members'[k].role
  <2>1. CASE Comes(k)
    BY <1>2, <2>1 DEF Comes
  <2>2. CASE k \in DOMAIN members /\ Keeps(k)
    <3>1. Remembered /\ members[k].role # Owner
      BY <1>2, <2>2, Remembering DEF Keeps, Ordinary
    <3>2. PICK i \in DOMAIN invitations :
                 /\ invitations[i].accepted /\ invitations[i].org = k[1]
                 /\ Reaches(invitations[i].mail, k[2])
                 /\ members[k].changed \/ invitations[i].role = members[k].role
      BY <2>2, <3>1 DEF MembersAreInvited
    <3>3. /\ i \in DOMAIN invitations' /\ invitations'[i].accepted
          /\ invitations'[i].org = invitations[i].org
          /\ invitations'[i].role = invitations[i].role
          /\ invitations'[i].mail = invitations[i].mail
      BY <3>1, <3>2 DEF Remembered
    <3>4. Reaches(invitations[i].mail, k[2])'
      BY <3>1, <3>2, <3>3 DEF Reaches, Remembered
    <3>5. members'[k].changed \/ invitations'[i].role = members'[k].role
      BY <2>2, <3>2, <3>3 DEF Keeps
    <3>. QED  BY <3>2, <3>3, <3>4, <3>5
  <2>. QED  BY <2>1, <2>2, MembersChange
<1>. QED  BY <1>1, <1>2 DEF MembersAreInvited, Reaches

------------------------------------------------------------------------------
(* What it gives.                                                             *)

\* However many requests carry an invitation, a verification link or an OAuth state at
\* the same time, one of them succeeds with it: the conditions of the updateMany calls
\* and of the script are enough, whatever was read before.
THEOREM TokensWorkOnce == Spec => []UsedOnce
<1>1. Inv => UsedOnce
  BY DEF Inv, Store, Spent, UsedOnce
<1>. QED  BY <1>1, Invariant, PTL

\* No transaction uses an invitation up without making the one it was for a member.
THEOREM AcceptanceCounts == Spec => []AcceptedIsMember
<1>1. Inv => AcceptedIsMember
  BY DEF Inv, Store, Joined
<1>. QED  BY <1>1, Invariant, PTL

\* If it begins with owners only, nobody else ever is a member of an organization who
\* has not accepted an invitation to it that was for them; and the role is that of such
\* an invitation until an owner changes it.  No change of a role makes or unmakes an
\* owner, whatever happens between the check of the target and the write by id.
THEOREM MembersWereInvited == ASSUME Owned PROVE Spec => []MembersAreInvited
<1>1. Init => MembersAreInvited
  BY DEF Init, Owned, MembersAreInvited
<1>2. Inv /\ GuardInv /\ MembersAreInvited /\ [Next]_vars => MembersAreInvited'
  BY InvitedStep
<1>. QED  BY <1>1, <1>2, GuardInvariant, PTL DEF Spec

\* Sessions opened for one Google subject are all of one user, in whatever order first
\* sign-ins, links by email and changes of the email overlap.
THEOREM SubjectsStay == Spec => []SubjectIsOneUser
<1>1. Inv => SubjectIsOneUser
  BY DEF Inv, Store, Signed, SubjectIsOneUser
<1>. QED  BY <1>1, Invariant, PTL

\* No step accepts an invitation that is revoked, not even that of a request which
\* found it valid before the revocation.
THEOREM RevokedNeverJoins == Spec => RevokedStaysOut
<1>1. ASSUME Inv, [Next]_vars, NEW i \in DOMAIN invitations,
             invitations[i].revoked, ~invitations[i].accepted
      PROVE  ~invitations'[i].accepted
  <2>0. IsInvitation(invitations[i]) /\ DOMAIN invitations \subseteq minted
    BY <1>1 DEF Inv, Store, Tables, Kinds
  <2>1. CASE UNCHANGED invitations
    BY <1>1, <2>1
  <2>2. ASSUME NEW h \in Handler, CreateInvitation(h) PROVE ~invitations'[i].accepted
    <3>1. PICK t \in Token \ minted : \E x : invitations' = Put(invitations, t, x)
      BY <2>2 DEF CreateInvitation
    <3>. QED  BY <1>1, <2>0, <3>1 DEF Put
  <2>3. ASSUME NEW h \in Handler, WriteRevocation(h) PROVE ~invitations'[i].accepted
    <3>1. \/ invitations'[i] = invitations[i]
          \/ invitations'[i] = [invitations[i] EXCEPT !.revoked = TRUE]
      BY <1>1, <2>3 DEF WriteRevocation
    <3>. QED  BY <1>1, <2>0, <3>1 DEF IsInvitation
  <2>4. ASSUME NEW h \in Handler, CommitAcceptance(h) PROVE ~invitations'[i].accepted
    <3>1. /\ Sound(handler[h]) /\ handler[h].pc = "commit" /\ handler[h].op \in Joining
          /\ invitations' = [invitations EXCEPT ![handler[h].invitation].accepted = TRUE]
      BY <1>1, <2>4 DEF Inv, CommitAcceptance, Joining
    <3>2. handler[h].invitation # i
      BY <1>1, <3>1 DEF Sound, Taken, Pending
    <3>. QED  BY <1>1, <3>1, <3>2
  <2>5. CASE Expire
    <3>1. \/ invitations'[i] = invitations[i]
          \/ invitations'[i] = [invitations[i] EXCEPT !.expired = TRUE]
      BY <1>1, <2>5 DEF Expire
    <3>. QED  BY <1>1, <2>0, <3>1 DEF IsInvitation
  <2>6. \/ UNCHANGED invitations \/ Expire
        \/ \E h \in Handler : CreateInvitation(h) \/ WriteRevocation(h) \/ CommitAcceptance(h)
    <3>1. ASSUME NEW h \in Handler, Ask(h) \/ Crash(h) PROVE UNCHANGED invitations
      BY <3>1 DEF Ask, Register, Found, Verify, Resend, Invite, Revoke, ChangeRole, Accept, Start,
                  Callback, Crash, tables, rows
    <3>2. ASSUME NEW h \in Handler, Serve(h),
                 ~CreateInvitation(h), ~WriteRevocation(h), ~CommitAcceptance(h)
          PROVE  UNCHANGED invitations
      BY <3>2 DEF Serve, LookForUser, ChooseSlug, InsertUser, InsertOrganization,
           CommitRegistration, CommitOrganization, Send, ReadLink, ConsumeLink, Confirm,
           ReadMemberships, LookResend, RevokeLinks, MintLink, Permit, FindInvitation, FindTarget,
           WriteRole, ReadInvitation, MatchUser, FindConflict, FindOrganization, TakeInvitation, Enroll,
           SaveState, ConsumeState, FindIdentity, FindNewcomer, CreateGoogleUser, LinkIdentity,
           ClaimInvitation, MatchAddressee, tables, rows
    <3>3. CASE UNCHANGED vars
      BY <3>3 DEF vars, tables, rows
    <3>4. CASE Suspend
      BY <3>4 DEF Suspend
    <3>. QED  BY <1>1, <3>1, <3>2, <3>3, <3>4 DEF Next
  <2>. QED  BY <2>1, <2>2, <2>3, <2>4, <2>5, <2>6
<1>2. Inv /\ [Next]_vars =>
        [\A i \in DOMAIN invitations :
           invitations[i].revoked /\ ~invitations[i].accepted => ~invitations'[i].accepted]_vars
  BY <1>1
<1>. QED  BY <1>2, Invariant, PTL DEF Spec, RevokedStaysOut

\* Every variable keeps its type: users, organizations and the tokens a row or a request
\* points to are there, and an idle handler holds nothing.
THEOREM AccessTypeCorrect == Spec => []TypeOK
<1>1. Inv /\ GuardInv => TypeOK
  BY GuardGives
<1>. QED  BY <1>1, GuardInvariant, PTL

\* Whoever was suspended, as a user, as a member or with the organization, before a
\* request began is given no session by it, whichever of verification, new organizations,
\* invitations and Google sign-in it takes: each looks at all three, or inserts what it
\* does not find.
THEOREM BarredNeverEnter == Spec => []BarredStaysOut
<1>1. Inv /\ GuardInv => BarredStaysOut
  BY DEF GuardInv
<1>. QED  BY <1>1, GuardInvariant, PTL

\* Requests never wait for one another in a circle, nor for one that was given up:
\* whoever holds what somebody waits for waits, if at all, for something that comes
\* later in the order invitation, email, slug or membership.
THEOREM NobodyStuck == Spec => []NoStandstill
<1>1. ASSUME GuardInv, NEW g \in Handler, NEW h \in Handler, WaitsFor(g, h)
      PROVE  /\ handler[g].pc # "commit" /\ handler[h].pc \in {"user", "create", "enroll", "commit"}
             /\ handler[g].pc = "user" => handler[h].pc # "user"
             /\ handler[g].pc \in {"create", "enroll"} => handler[h].pc = "commit"
  <2>1. PICK s \in handler[h].locks : s \in Wants(handler[g])
    BY <1>1 DEF WaitsFor
  <2>2. /\ handler[g].pc # "commit"
        /\ handler[g].pc = "user" => s[1] = "mail"
        /\ handler[g].pc = "create" => s[1] = "slug"
        /\ handler[g].pc = "enroll" => s[1] = "member"
    BY <2>1 DEF Wants
  <2>. QED  BY <1>1, <2>1, <2>2 DEF GuardInv, Guarded, Reserved
<1>2. ASSUME GuardInv, NEW S \in (SUBSET Handler) \ {{}}
      PROVE  \E g \in S : \A h \in S : ~WaitsFor(g, h)
  <2>. SUFFICES ASSUME \A g \in S : \E h \in S : WaitsFor(g, h) PROVE FALSE
    OBVIOUS
  <2>1. PICK a \in S : TRUE
    OBVIOUS
  <2>2. PICK b \in S : WaitsFor(a, b)
    OBVIOUS
  <2>3. PICK c \in S : WaitsFor(b, c)
    OBVIOUS
  <2>4. PICK d \in S : WaitsFor(c, d)
    OBVIOUS
  <2>5. PICK e \in S : WaitsFor(d, e)
    OBVIOUS
  <2>6. handler[b].pc \in {"user", "create", "enroll"} /\ handler[c].pc \in {"create", "enroll"}
    BY <1>1, <1>2, <2>2, <2>3, <2>4
  <2>7. handler[d].pc = "commit"
    BY <1>1, <1>2, <2>4, <2>6
  <2>. QED  BY <1>1, <1>2, <2>5, <2>7
<1>3. Inv /\ GuardInv => NoStandstill
  BY <1>1, <1>2 DEF NoStandstill
<1>. QED  BY <1>3, GuardInvariant, PTL

==============================================================================
