-------------------------- MODULE Revocation_proofs ---------------------------
(* What ending sessions promises: a credential works once, a replay ends its  *)
(* session, and neither a revocation nor a rollback leaves a session behind.  *)
EXTENDS SessionLife_proofs

------------------------------------------------------------------------------
(* What a handler knows of its own request.                                   *)

Enders == {"look", "unlist", "drop"}

\* Each kind of request goes its own way.
OnRoute(op, pc) ==
  \/ op = "none" /\ pc = "new"
  \/ op = "login" /\ pc \in {"memberships", "create", "done"}
  \/ op = "refresh" /\ pc \in {"rotate", "reread", "tenant", "clear", "look", "unlist", "drop",
                               "done"}
  \/ op = "logout" /\ pc \in {"look", "unlist", "drop", "done"}
  \/ op = "switch" /\ pc \in {"identify", "choose", "activate", "done"}
  \/ op = "forgot" /\ pc \in {"revoke", "mint", "done"}
  \/ op = "reset" /\ pc \in {"commit", "list", "delete", "unindex", "done"}
  \/ op = "role" /\ pc \in {"update", "list", "delete", "unindex", "done"}

\* It is over when it was answered, but for a replay, which ends the session first;
\* a refresh that goes on has drawn a secret, one that ends the session has not.
Route(c) ==
  /\ OnRoute(c.op, c.pc)
  /\ c.out \in {"ok", "failed"} => c.pc = "done"
  /\ c.out = "replay" => c.op = "refresh" /\ c.pc \in Enders \cup {"done"}
  /\ c.used => c.op \in {"refresh", "reset"} /\ c.pc \notin Enders \cup {"new", "rotate", "commit"}
  /\ c.pc \in {"reread", "tenant", "clear"} => c.used

\* Its cookie is of a session there was, its link was sent by a request now over.
Known(c) ==
  /\ c.op \in {"refresh", "logout", "switch"} => c.sid \in Request /\ born[c.sid] # Null
  /\ c.op = "refresh" => c.secret \in Request /\ Minted(c.secret)
  /\ c.op = "reset" => c.secret \in Request /\ call[c.secret].pc = "done"
  /\ \A s \in c.old : born[s] # Null

CallsKnown == \A r \in Request : Route(call[r]) /\ Known(call[r])

\* Cookies hold secrets that were drawn, and links were sent by requests now over.
CredentialsKnown ==
  /\ \A c \in held : c \in Request \X Request /\ born[c[1]] # Null /\ Minted(c[2])
  /\ \A l \in Request : link[l] # "none" => call[l].pc = "done"

KnownInv == CallsKnown /\ CredentialsKnown

------------------------------------------------------------------------------
(* What a handler does, as far as credentials and revocations are concerned.  *)

Like(c, d) == c.op = d.op /\ c.sid = d.sid /\ c.secret = d.secret

\* It has just been given something for its credential.
Wins(r, c) ==
  \/ /\ call[r].pc = "rotate" /\ c.op = "refresh"
     /\ session[c.sid] # Null /\ session[c.sid].secret = c.secret
     /\ session'[c.sid].secret = r /\ ~Minted(r)
  \/ /\ call[r].pc = "commit" /\ c.op = "reset"
     /\ link[c.secret] = "live" /\ link'[c.secret] = "consumed"

\* It ends a session, or gives up with an error.
Ends(c, d) == d.pc \in Enders => c.pc \in Enders \/ session'[d.sid] = Null \/ c.out = "failed"

\* A revocation goes on from the list it read to an answer.
Sweeps(c, d) ==
  c.op \in {"reset", "role"} =>
    /\ c.pc = "delete" => d.pc = "list" /\ c.seen = index /\ c.old = d.old
    /\ c.pc = "unindex" => /\ c.old = d.old
                           /\ \/ d.pc = "list" /\ index = {}
                              \/ d.pc = "delete" /\ Without(d.seen)
    /\ c.out = "ok" => d.pc = "unindex" /\ c.old = d.old

Served(r, c) ==
  /\ Becomes(r, c) /\ call[r].pc # "done"
  /\ Route(c) /\ Known(c)
  /\ call[r].pc # "new" => Like(c, call[r])
  /\ c.used => call[r].used \/ Wins(r, c)
  /\ c.out = "replay" => c.pc \in Enders \/ session'[c.sid] = Null
  /\ Ends(c, call[r]) /\ Sweeps(c, call[r])

LEMMA KnownLike ==
  ASSUME NEW c, NEW d, Known(d), Like(c, d), c.old = d.old
  PROVE  Known(c)
BY DEF Known, Like

\* A request arrives.
LEMMA ServedNew ==
  ASSUME KnownInv, NEW r \in Request, NEW c, Becomes(r, c), call[r].pc = "new",
         Known(c), c.out = call[r].out, c.used = call[r].used, OnRoute(c.op, c.pc),
         c.pc \in {"memberships", "rotate", "look", "identify", "revoke", "commit", "update"}
  PROVE  Served(r, c)
<1>1. Route(call[r]) /\ call[r].op = "none"
  BY DEF KnownInv, CallsKnown, Route, OnRoute
<1>2. ~call[r].used /\ call[r].out \notin {"ok", "failed", "replay"}
  BY <1>1 DEF Route, Enders
<1>3. Route(c)
  BY <1>2 DEF Route
<1>. QED  BY <1>2, <1>3 DEF Served, Ends, Sweeps, Enders

\* It goes on, ends no session and revokes none.
LEMMA ServedOn ==
  ASSUME KnownInv, NEW r \in Request, NEW c, Becomes(r, c),
         call[r].pc \notin Enders \cup {"new", "done"}, Like(c, call[r]),
         c.old = call[r].old, c.out = call[r].out, c.used = call[r].used, OnRoute(c.op, c.pc),
         \/ c.pc \in {"create", "choose", "activate", "mint"}
         \/ call[r].pc \in {"reread", "tenant"} /\ c.pc \in {"tenant", "clear"}
  PROVE  Served(r, c)
<1>1. Route(call[r]) /\ Known(call[r])
  BY DEF KnownInv, CallsKnown
<1>2. Known(c)
  BY <1>1, KnownLike
<1>3. call[r].out \notin {"ok", "failed", "replay"}
  BY <1>1 DEF Route
<1>4. Route(c)
  BY <1>1, <1>3 DEF Route, Like, Enders
<1>. QED  BY <1>2, <1>3, <1>4 DEF Served, Ends, Sweeps, Enders

\* It is answered.
LEMMA ServedFinish ==
  ASSUME TypeInv, KnownInv, NEW r \in Request, NEW out \in {"ok", "failed"}, Finish(r, out),
         call[r].pc \notin {"new", "done"},
         out = "ok" => \/ call[r].pc \in {"create", "reread", "tenant", "clear", "activate", "mint",
                                          "unindex"}
                       \/ call[r].pc = "drop" /\ session'[call[r].sid] = Null
  PROVE  \E c : Served(r, c)
<1>. DEFINE d == call[r]
            c == [d EXCEPT !.pc = "done", !.out = out]
<1>0. d \in Calls /\ Route(d) /\ Known(d)
  BY DEF TypeInv, CallsInv, CallsOK, KnownInv, CallsKnown
<1>1. c.pc = "done" /\ c.out = out /\ Like(c, d) /\ c.used = d.used /\ c.old = d.old
  BY <1>0 DEF Calls, Like
<1>2. Becomes(r, c)
  BY DEF Finish
<1>. HIDE DEF c
<1>3. Known(c)
  BY <1>0, <1>1, KnownLike
<1>4. OnRoute(c.op, c.pc)
  BY <1>0, <1>1 DEF Route, OnRoute, Like
<1>5. Route(c)
  BY <1>0, <1>1, <1>4 DEF Route, Like, Enders
<1>6. Ends(c, d)
  BY <1>1 DEF Ends, Enders
<1>7. Sweeps(c, d)
  BY <1>0, <1>1 DEF Sweeps, Route, OnRoute, Like
<1>. QED  BY <1>1, <1>2, <1>3, <1>5, <1>6, <1>7 DEF Served

LEMMA ServedGoto ==
  ASSUME TypeInv, KnownInv, NEW r \in Request, NEW pc, Goto(r, pc), OnRoute(call[r].op, pc),
         call[r].pc \notin Enders \cup {"new", "done"},
         \/ pc \in {"create", "choose", "activate", "mint"}
         \/ call[r].pc \in {"reread", "tenant"} /\ pc \in {"tenant", "clear"}
  PROVE  \E c : Served(r, c)
<1>. DEFINE d == call[r]
            c == [d EXCEPT !.pc = pc]
<1>0. d \in Calls
  BY DEF TypeInv, CallsInv, CallsOK
<1>1. c.pc = pc /\ c.out = d.out /\ Like(c, d) /\ c.used = d.used /\ c.old = d.old
  BY <1>0 DEF Calls, Like
<1>2. Becomes(r, c)
  BY DEF Goto
<1>. HIDE DEF c
<1>3. OnRoute(c.op, c.pc)
  BY <1>1 DEF Like
<1>4. Served(r, c)
  BY <1>1, <1>2, <1>3, ServedOn
<1>. QED  BY <1>4

\* Opening a session, and switching its organization.
LEMMA LoginServed ==
  ASSUME TypeInv, StoreInv, KnownInv, NEW r \in Request,
         Login(r) \/ ReadMemberships(r) \/ CreateSession(r)
  PROVE  \E c : Served(r, c)
<1>. DEFINE d == call[r]
<1>0. d \in Calls /\ Route(d) /\ Known(d)
  BY DEF TypeInv, CallsInv, CallsOK, KnownInv, CallsKnown
<1>1. CASE Login(r)
  <2>. DEFINE c == [d EXCEPT !.op = "login", !.pc = "memberships"]
  <2>1. Becomes(r, c) /\ d.pc = "new"
    BY <1>1 DEF Login, Arrives, At
  <2>2. /\ c.op = "login" /\ c.pc = "memberships" /\ c.out = d.out /\ c.used = d.used
        /\ c.old = d.old
    BY <1>0 DEF Calls
  <2>. HIDE DEF c
  <2>3. Known(c) /\ OnRoute(c.op, c.pc)
    BY <2>2, <1>0 DEF Known, OnRoute
  <2>4. Served(r, c)
    BY <2>1, <2>2, <2>3, ServedNew
  <2>. QED  BY <2>4
<1>2. CASE ReadMemberships(r)
  <2>0. d.pc = "memberships" /\ d.op = "login"
    BY <1>0, <1>2 DEF ReadMemberships, At, Route, OnRoute
  <2>1. CASE Goto(r, "create")
    BY <2>0, <2>1, ServedGoto DEF OnRoute, Enders
  <2>2. ASSUME NEW o \in Org,
               Becomes(r, [d EXCEPT !.pc = "create", !.org = o, !.role = member[o], !.era = epoch])
        PROVE  \E c : Served(r, c)
    <3>. DEFINE c == [d EXCEPT !.pc = "create", !.org = o, !.role = member[o], !.era = epoch]
    <3>1. Becomes(r, c)
      BY <2>2
    <3>2. /\ c.pc = "create" /\ c.op = d.op /\ Like(c, d) /\ c.out = d.out /\ c.used = d.used
          /\ c.old = d.old
      BY <1>0 DEF Calls, Like
    <3>. HIDE DEF c
    <3>3. OnRoute(c.op, c.pc)
      BY <2>0, <3>2 DEF OnRoute
    <3>4. Served(r, c)
      BY <2>0, <3>1, <3>2, <3>3, ServedOn DEF Enders
    <3>. QED  BY <3>4
  <2>. QED  BY <1>2, <2>1, <2>2 DEF ReadMemberships
<1>3. CASE CreateSession(r)
  BY <1>3, ServedFinish DEF CreateSession, At
<1>. QED  BY <1>1, <1>2, <1>3

LEMMA SwitchServed ==
  ASSUME TypeInv, StoreInv, KnownInv, NEW r \in Request,
         Switch(r) \/ Identify(r) \/ Choose(r) \/ Activate(r)
  PROVE  \E c : Served(r, c)
<1>. DEFINE d == call[r]
<1>0. d \in Calls /\ Route(d) /\ Known(d)
  BY DEF TypeInv, CallsInv, CallsOK, KnownInv, CallsKnown
<1>1. CASE Switch(r)
  <2>0. PICK k \in held : Becomes(r, [d EXCEPT !.op = "switch", !.pc = "identify", !.sid = k[1]])
    BY <1>1 DEF Switch
  <2>. DEFINE c == [d EXCEPT !.op = "switch", !.pc = "identify", !.sid = k[1]]
  <2>1. Becomes(r, c) /\ d.pc = "new"
    BY <2>0, <1>1 DEF Switch, Arrives, At
  <2>2. /\ c.op = "switch" /\ c.pc = "identify" /\ c.out = d.out /\ c.used = d.used
        /\ c.old = d.old /\ c.sid = k[1]
    BY <1>0 DEF Calls
  <2>. HIDE DEF c
  <2>k. k[1] \in Request /\ born[k[1]] # Null
    BY DEF KnownInv, CredentialsKnown
  <2>3. Known(c) /\ OnRoute(c.op, c.pc)
    BY <2>2, <2>k, <1>0 DEF Known, OnRoute
  <2>4. Served(r, c)
    BY <2>1, <2>2, <2>3, ServedNew
  <2>. QED  BY <2>4
<1>2. CASE Identify(r)
  <2>0. d.pc = "identify" /\ d.op = "switch"
    BY <1>0, <1>2 DEF Identify, At, Route, OnRoute
  <2>1. CASE Goto(r, "choose")
    BY <2>0, <2>1, ServedGoto DEF OnRoute, Enders
  <2>. QED  BY <1>2, <2>0, <2>1, ServedFinish DEF Identify
<1>3. CASE Choose(r)
  <2>0. d.pc = "choose" /\ d.op = "switch"
    BY <1>0, <1>3 DEF Choose, At, Route, OnRoute
  <2>2. ASSUME NEW o \in Org,
               Becomes(r, [d EXCEPT !.pc = "activate", !.org = o, !.role = member[o],
                                    !.era = epoch])
        PROVE  \E c : Served(r, c)
    <3>. DEFINE c == [d EXCEPT !.pc = "activate", !.org = o, !.role = member[o], !.era = epoch]
    <3>1. Becomes(r, c)
      BY <2>2
    <3>2. /\ c.pc = "activate" /\ c.op = d.op /\ Like(c, d) /\ c.out = d.out /\ c.used = d.used
          /\ c.old = d.old
      BY <1>0 DEF Calls, Like
    <3>. HIDE DEF c
    <3>3. OnRoute(c.op, c.pc)
      BY <2>0, <3>2 DEF OnRoute
    <3>4. Served(r, c)
      BY <2>0, <3>1, <3>2, <3>3, ServedOn DEF Enders
    <3>. QED  BY <3>4
  <2>3. CASE Finish(r, "failed")
    BY <2>0, <2>3, ServedFinish
  <2>. QED  BY <1>3, <2>2, <2>3 DEF Choose
<1>4. CASE Activate(r)
  BY <1>4, ServedFinish DEF Activate, At
<1>. QED  BY <1>1, <1>2, <1>3, <1>4

\* Presenting a refresh cookie.
LEMMA RotateServed ==
  ASSUME TypeInv, StoreInv, KnownInv, NEW r \in Request, Rotate(r)
  PROVE  \E c : Served(r, c)
<1>. DEFINE d == call[r]
            s == d.sid
<1>0. d \in Calls /\ Route(d) /\ Known(d)
  BY DEF TypeInv, CallsInv, CallsOK, KnownInv, CallsKnown
<1>1. d.pc = "rotate" /\ d.op = "refresh" /\ ~d.used /\ d.out \notin {"ok", "failed", "replay"}
  BY <1>0 DEF Rotate, At, Route, OnRoute, Enders
<1>2. CASE Finish(r, "failed")
  BY <1>1, <1>2, ServedFinish
<1>3. CASE /\ session[s] # Null /\ Current(r)
           /\ session' = [session EXCEPT ![s].secret = r]
           /\ Becomes(r, [d EXCEPT !.pc = "reread", !.used = TRUE])
  <2>. DEFINE c == [d EXCEPT !.pc = "reread", !.used = TRUE]
  <2>1. Becomes(r, c)
    BY <1>3
  <2>2. c.pc = "reread" /\ c.out = d.out /\ Like(c, d) /\ c.used /\ c.old = d.old
    BY <1>0 DEF Calls, Like
  <2>. HIDE DEF c
  <2>3. Known(c)
    BY <1>0, <2>2, KnownLike
  <2>4. Route(c)
    BY <1>1, <2>2 DEF Route, OnRoute, Like, Enders
  <2>5. s \in Request /\ session[s] \in Record
    BY <1>0, <1>1, <1>3 DEF Known, TypeInv, StoreOK
  <2>6. session'[s].secret = r
    BY <1>3, <2>5 DEF Record, TypeInv, StoreOK
  <2>7. ~Minted(r)
    BY <1>1 DEF Minted, StoreInv, DrawnOnce
  <2>8. Wins(r, c)
    BY <1>1, <1>3, <2>2, <2>6, <2>7 DEF Wins, Like, Current
  <2>9. Ends(c, d) /\ Sweeps(c, d)
    BY <1>1, <2>2 DEF Ends, Sweeps, Like, Enders
  <2>10. Served(r, c)
    BY <1>1, <2>1, <2>2, <2>3, <2>4, <2>8, <2>9 DEF Served
  <2>. QED  BY <2>10
<1>4. CASE Becomes(r, [d EXCEPT !.pc = "look", !.out = "replay"])
  <2>. DEFINE c == [d EXCEPT !.pc = "look", !.out = "replay"]
  <2>1. Becomes(r, c)
    BY <1>4
  <2>2. c.pc = "look" /\ c.out = "replay" /\ Like(c, d) /\ c.used = d.used /\ c.old = d.old
    BY <1>0 DEF Calls, Like
  <2>. HIDE DEF c
  <2>3. Known(c)
    BY <1>0, <2>2, KnownLike
  <2>4. Route(c)
    BY <1>1, <2>2 DEF Route, OnRoute, Like, Enders
  <2>5. Ends(c, d) /\ Sweeps(c, d)
    BY <1>1, <2>2 DEF Ends, Sweeps, Like, Enders
  <2>6. Served(r, c)
    BY <1>1, <2>1, <2>2, <2>3, <2>4, <2>5 DEF Served, Enders
  <2>. QED  BY <2>6
<1>. QED  BY <1>2, <1>3, <1>4 DEF Rotate

LEMMA RefreshServed ==
  ASSUME TypeInv, StoreInv, KnownInv, NEW r \in Request,
         Refresh(r) \/ Rotate(r) \/ Reread(r) \/ CheckTenant(r) \/ ClearTenant(r)
  PROVE  \E c : Served(r, c)
<1>. DEFINE d == call[r]
<1>0. d \in Calls /\ Route(d) /\ Known(d)
  BY DEF TypeInv, CallsInv, CallsOK, KnownInv, CallsKnown
<1>1. CASE Refresh(r)
  <2>0. PICK k \in held :
          Becomes(r, [d EXCEPT !.op = "refresh", !.pc = "rotate", !.sid = k[1], !.secret = k[2]])
    BY <1>1 DEF Refresh
  <2>. DEFINE c == [d EXCEPT !.op = "refresh", !.pc = "rotate", !.sid = k[1], !.secret = k[2]]
  <2>1. Becomes(r, c) /\ d.pc = "new"
    BY <2>0, <1>1 DEF Refresh, Arrives, At
  <2>2. /\ c.op = "refresh" /\ c.pc = "rotate" /\ c.out = d.out /\ c.used = d.used
        /\ c.old = d.old /\ c.sid = k[1] /\ c.secret = k[2]
    BY <1>0 DEF Calls
  <2>. HIDE DEF c
  <2>k. k[1] \in Request /\ k[2] \in Request /\ born[k[1]] # Null /\ Minted(k[2])
    BY DEF KnownInv, CredentialsKnown
  <2>3. Known(c) /\ OnRoute(c.op, c.pc)
    BY <2>2, <2>k, <1>0 DEF Known, OnRoute
  <2>4. Served(r, c)
    BY <2>1, <2>2, <2>3, ServedNew
  <2>. QED  BY <2>4
<1>2. CASE Rotate(r)
  BY <1>2, RotateServed
<1>3. CASE Reread(r)
  <2>. DEFINE record == session[call[r].sid]
  <2>0. d.pc = "reread" /\ d.op = "refresh"
    BY <1>0, <1>3 DEF Reread, At, Route, OnRoute
  <2>1. CASE Finish(r, "failed") \/ Finish(r, "ok")
    BY <2>0, <2>1, ServedFinish
  <2>2. CASE Becomes(r, [d EXCEPT !.pc = "tenant", !.org = record.org, !.era = record.era])
    <3>. DEFINE c == [d EXCEPT !.pc = "tenant", !.org = record.org, !.era = record.era]
    <3>1. Becomes(r, c)
      BY <2>2
    <3>2. /\ c.pc = "tenant" /\ c.op = d.op /\ Like(c, d) /\ c.out = d.out /\ c.used = d.used
          /\ c.old = d.old
      BY <1>0 DEF Calls, Like
    <3>. HIDE DEF c
    <3>3. OnRoute(c.op, c.pc)
      BY <2>0, <3>2 DEF OnRoute
    <3>4. Served(r, c)
      BY <2>0, <3>1, <3>2, <3>3, ServedOn DEF Enders
    <3>. QED  BY <3>4
  <2>. QED  BY <1>3, <2>1, <2>2 DEF Reread, Deliver
<1>4. CASE CheckTenant(r)
  <2>0. d.pc = "tenant" /\ d.op = "refresh"
    BY <1>0, <1>4 DEF CheckTenant, At, Route, OnRoute
  <2>1. CASE Goto(r, "clear")
    BY <2>0, <2>1, ServedGoto DEF OnRoute, Enders
  <2>. QED  BY <1>4, <2>0, <2>1, ServedFinish DEF CheckTenant, Deliver
<1>5. CASE ClearTenant(r)
  BY <1>5, ServedFinish DEF ClearTenant, Deliver, At
<1>. QED  BY <1>1, <1>2, <1>3, <1>4, <1>5

\* Ending one session.
LEMMA EnderGoes ==
  ASSUME TypeInv, KnownInv, NEW r \in Request, NEW pc \in Enders, Goto(r, pc),
         call[r].pc \in Enders
  PROVE  \E c : Served(r, c)
<1>. DEFINE d == call[r]
            c == [d EXCEPT !.pc = pc]
<1>0. d \in Calls /\ Route(d) /\ Known(d)
  BY DEF TypeInv, CallsInv, CallsOK, KnownInv, CallsKnown
<1>1. c.pc = pc /\ c.out = d.out /\ Like(c, d) /\ c.used = d.used /\ c.old = d.old
  BY <1>0 DEF Calls, Like
<1>2. Becomes(r, c)
  BY DEF Goto
<1>. HIDE DEF c
<1>3. Known(c)
  BY <1>0, <1>1, KnownLike
<1>4. Route(c)
  BY <1>0, <1>1 DEF Route, OnRoute, Like, Enders
<1>5. Ends(c, d) /\ Sweeps(c, d)
  BY <1>0, <1>1, <1>4 DEF Ends, Sweeps, Route, OnRoute, Enders
<1>6. Served(r, c)
  BY <1>1, <1>2, <1>3, <1>4, <1>5 DEF Served, Enders
<1>. QED  BY <1>6

LEMMA LogoutServed ==
  ASSUME TypeInv, StoreInv, KnownInv, NEW r \in Request,
         Logout(r) \/ Look(r) \/ Unlist(r) \/ Drop(r)
  PROVE  \E c : Served(r, c)
<1>. DEFINE d == call[r]
<1>0. d \in Calls /\ Route(d) /\ Known(d)
  BY DEF TypeInv, CallsInv, CallsOK, KnownInv, CallsKnown
<1>1. CASE Logout(r)
  <2>0. PICK k \in held : Becomes(r, [d EXCEPT !.op = "logout", !.pc = "look", !.sid = k[1]])
    BY <1>1 DEF Logout
  <2>. DEFINE c == [d EXCEPT !.op = "logout", !.pc = "look", !.sid = k[1]]
  <2>1. Becomes(r, c) /\ d.pc = "new"
    BY <2>0, <1>1 DEF Logout, Arrives, At
  <2>2. /\ c.op = "logout" /\ c.pc = "look" /\ c.out = d.out /\ c.used = d.used
        /\ c.old = d.old /\ c.sid = k[1]
    BY <1>0 DEF Calls
  <2>. HIDE DEF c
  <2>k. k[1] \in Request /\ born[k[1]] # Null
    BY DEF KnownInv, CredentialsKnown
  <2>3. Known(c) /\ OnRoute(c.op, c.pc)
    BY <2>2, <2>k, <1>0 DEF Known, OnRoute
  <2>4. Served(r, c)
    BY <2>1, <2>2, <2>3, ServedNew
  <2>. QED  BY <2>4
<1>2. CASE Look(r) \/ Unlist(r)
  <2>1. d.pc \in Enders /\ \E pc \in Enders : Goto(r, pc)
    BY <1>2 DEF Look, Unlist, At, Enders
  <2>. QED  BY <2>1, EnderGoes
<1>3. CASE Drop(r)
  <2>0. d.pc = "drop" /\ d.op \in {"refresh", "logout"} /\ d.sid \in Request
    BY <1>0, <1>3 DEF Drop, At, Route, OnRoute, Known
  <2>1. session'[d.sid] = Null
    BY <1>3, <2>0 DEF Drop, TypeInv, StoreOK
  <2>2. CASE Finish(r, "ok")
    BY <2>0, <2>1, <2>2, ServedFinish
  <2>3. CASE d.out = "replay" /\ Finish(r, "replay")
    <3>. DEFINE c == [d EXCEPT !.pc = "done", !.out = "replay"]
    <3>1. Becomes(r, c)
      BY <2>3 DEF Finish
    <3>2. c.pc = "done" /\ c.out = "replay" /\ Like(c, d) /\ c.used = d.used /\ c.old = d.old
      BY <1>0 DEF Calls, Like
    <3>. HIDE DEF c
    <3>3. Known(c)
      BY <1>0, <3>2, KnownLike
    <3>4. Route(c)
      BY <1>0, <2>3, <3>2 DEF Route, OnRoute, Like, Enders
    <3>5. Ends(c, d) /\ Sweeps(c, d)
      BY <2>1, <3>2 DEF Ends, Sweeps
    <3>6. Served(r, c)
      BY <2>0, <2>1, <3>1, <3>2, <3>3, <3>4, <3>5 DEF Served, Like
    <3>. QED  BY <3>6
  <2>. QED  BY <1>3, <2>2, <2>3 DEF Drop
<1>. QED  BY <1>1, <1>2, <1>3

\* A link is sent and used, a role changed.
LEMMA CommitServed ==
  ASSUME TypeInv, StoreInv, KnownInv, NEW r \in Request, CommitReset(r) \/ UpdateRole(r)
  PROVE  \E c : Served(r, c)
<1>. DEFINE d == call[r]
<1>0. d \in Calls /\ Route(d) /\ Known(d)
  BY DEF TypeInv, CallsInv, CallsOK, KnownInv, CallsKnown
<1>old. \A s \in Live : born[s] # Null
  BY DEF StoreInv, SecretsApart
<1>1. CASE Finish(r, "failed")
  BY <1>1, ServedFinish DEF CommitReset, UpdateRole, At
<1>2. CASE CommitReset(r) /\ ~Finish(r, "failed")
  <2>. DEFINE c == [d EXCEPT !.pc = "list", !.old = Live, !.used = TRUE]
  <2>0. d.pc = "commit" /\ d.op = "reset" /\ d.secret \in Request
    BY <1>0, <1>2 DEF CommitReset, At, Route, OnRoute, Known
  <2>1. Becomes(r, c) /\ link[d.secret] = "live" /\ link' = [link EXCEPT ![d.secret] = "consumed"]
    BY <1>2 DEF CommitReset
  <2>2. c.pc = "list" /\ c.out = d.out /\ Like(c, d) /\ c.old = Live
    BY <1>0 DEF Calls, Like
  <2>. HIDE DEF c
  <2>3. Known(c)
    BY <1>0, <1>old, <2>2 DEF Known, Like
  <2>4. Route(c)
    BY <1>0, <2>0, <2>2 DEF Route, OnRoute, Like, Enders
  <2>5. Wins(r, c)
    BY <2>0, <2>1, <2>2 DEF Wins, Like, TypeInv, DatabaseOK
  <2>6. Ends(c, d) /\ Sweeps(c, d)
    BY <2>0, <2>2, <2>4 DEF Ends, Sweeps, Enders, Route
  <2>7. Served(r, c)
    BY <2>0, <2>1, <2>2, <2>3, <2>4, <2>5, <2>6 DEF Served, Like, Route
  <2>. QED  BY <2>7
<1>3. CASE UpdateRole(r) /\ ~Finish(r, "failed")
  <2>. DEFINE c == [d EXCEPT !.pc = "list", !.old = Live]
  <2>0. d.pc = "update" /\ d.op = "role"
    BY <1>0, <1>3 DEF UpdateRole, At, Route, OnRoute
  <2>1. Becomes(r, c)
    BY <1>3 DEF UpdateRole
  <2>2. c.pc = "list" /\ c.out = d.out /\ Like(c, d) /\ c.used = d.used /\ c.old = Live
    BY <1>0 DEF Calls, Like
  <2>. HIDE DEF c
  <2>3. Known(c)
    BY <1>0, <1>old, <2>2 DEF Known, Like
  <2>4. Route(c)
    BY <1>0, <2>0, <2>2 DEF Route, OnRoute, Like, Enders
  <2>5. Ends(c, d) /\ Sweeps(c, d)
    BY <2>0, <2>2, <2>4 DEF Ends, Sweeps, Enders, Route
  <2>6. Served(r, c)
    BY <2>0, <2>1, <2>2, <2>3, <2>4, <2>5 DEF Served, Like, Route
  <2>. QED  BY <2>6
<1>. QED  BY <1>1, <1>2, <1>3

LEMMA CredentialServed ==
  ASSUME TypeInv, StoreInv, KnownInv, NEW r \in Request,
         Forgot(r) \/ RevokeLinks(r) \/ MintLink(r) \/ Reset(r) \/ ChangeRole(r)
  PROVE  \E c : Served(r, c)
<1>. DEFINE d == call[r]
<1>0. d \in Calls /\ Route(d) /\ Known(d)
  BY DEF TypeInv, CallsInv, CallsOK, KnownInv, CallsKnown
<1>1. CASE Forgot(r)
  <2>. DEFINE c == [d EXCEPT !.op = "forgot", !.pc = "revoke"]
  <2>1. Becomes(r, c) /\ d.pc = "new"
    BY <1>1 DEF Forgot, Arrives, At
  <2>2. /\ c.op = "forgot" /\ c.pc = "revoke" /\ c.out = d.out /\ c.used = d.used
        /\ c.old = d.old
    BY <1>0 DEF Calls
  <2>. HIDE DEF c
  <2>3. Known(c) /\ OnRoute(c.op, c.pc)
    BY <2>2, <1>0 DEF Known, OnRoute
  <2>4. Served(r, c)
    BY <2>1, <2>2, <2>3, ServedNew
  <2>. QED  BY <2>4
<1>2. CASE RevokeLinks(r)
  <2>1. d.pc = "revoke" /\ d.op = "forgot" /\ Goto(r, "mint")
    BY <1>0, <1>2 DEF RevokeLinks, At, Route, OnRoute
  <2>. QED  BY <2>1, ServedGoto DEF OnRoute, Enders
<1>3. CASE MintLink(r)
  BY <1>3, ServedFinish DEF MintLink, At
<1>4. CASE Reset(r)
  <2>0. PICK l \in Request : /\ link[l] = "live"
                             /\ Becomes(r, [d EXCEPT !.op = "reset", !.pc = "commit", !.secret = l])
    BY <1>4 DEF Reset
  <2>. DEFINE c == [d EXCEPT !.op = "reset", !.pc = "commit", !.secret = l]
  <2>1. Becomes(r, c) /\ d.pc = "new"
    BY <2>0, <1>4 DEF Reset, Arrives, At
  <2>2. /\ c.op = "reset" /\ c.pc = "commit" /\ c.out = d.out /\ c.used = d.used
        /\ c.old = d.old /\ c.secret = l
    BY <1>0 DEF Calls
  <2>. HIDE DEF c
  <2>l. call[l].pc = "done"
    BY <2>0 DEF KnownInv, CredentialsKnown
  <2>3. Known(c) /\ OnRoute(c.op, c.pc)
    BY <2>2, <2>l, <1>0 DEF Known, OnRoute
  <2>4. Served(r, c)
    BY <2>1, <2>2, <2>3, ServedNew
  <2>. QED  BY <2>4
<1>5. CASE ChangeRole(r)
  <2>0. PICK o \in Org, role \in Role \ {Owner} :
          Becomes(r, [d EXCEPT !.op = "role", !.pc = "update", !.org = o, !.role = role,
                               !.era = epoch])
    BY <1>5 DEF ChangeRole
  <2>. DEFINE c == [d EXCEPT !.op = "role", !.pc = "update", !.org = o, !.role = role,
                             !.era = epoch]
  <2>1. Becomes(r, c) /\ d.pc = "new"
    BY <2>0, <1>5 DEF ChangeRole, Arrives, At
  <2>2. /\ c.op = "role" /\ c.pc = "update" /\ c.out = d.out /\ c.used = d.used
        /\ c.old = d.old
    BY <1>0 DEF Calls
  <2>. HIDE DEF c
  <2>3. Known(c) /\ OnRoute(c.op, c.pc)
    BY <2>2, <1>0 DEF Known, OnRoute
  <2>4. Served(r, c)
    BY <2>1, <2>2, <2>3, ServedNew
  <2>. QED  BY <2>4
<1>. QED  BY <1>1, <1>2, <1>3, <1>4, <1>5

\* A revocation lists, deletes and drops the index.
LEMMA SweepServed ==
  ASSUME TypeInv, StoreInv, KnownInv, NEW r \in Request, ListSessions(r) \/ DeleteSessions(r)
  PROVE  \E c : Served(r, c)
<1>. DEFINE d == call[r]
<1>0. d \in Calls /\ Route(d) /\ Known(d)
  BY DEF TypeInv, CallsInv, CallsOK, KnownInv, CallsKnown
<1>pc. d.pc \in {"list", "delete"} /\ d.op \in {"reset", "role"}
  BY <1>0 DEF ListSessions, DeleteSessions, At, Route, OnRoute
<1>1. ASSUME NEW c, Becomes(r, c), c.pc \in {"delete", "unindex"}, Like(c, d), c.out = d.out,
             c.used = d.used, c.old = d.old, Sweeps(c, d)
      PROVE  \E k : Served(r, k)
  <2>1. Known(c)
    BY <1>0, <1>1, KnownLike
  <2>2. Route(c)
    BY <1>0, <1>1, <1>pc DEF Route, OnRoute, Like, Enders
  <2>3. Ends(c, d)
    BY <1>pc DEF Ends, Enders
  <2>4. Served(r, c)
    BY <1>1, <1>pc, <2>1, <2>2, <2>3 DEF Served, Route, Like
  <2>. QED  BY <2>4
<1>2. CASE ListSessions(r)
  <2>. DEFINE pc == IF index = {} THEN "unindex" ELSE "delete"
              c == [d EXCEPT !.pc = pc, !.seen = index]
  <2>1. Becomes(r, c) /\ d.pc = "list"
    BY <1>2 DEF ListSessions, At
  <2>2. /\ c.pc = pc /\ c.out = d.out /\ Like(c, d) /\ c.used = d.used /\ c.old = d.old
        /\ c.seen = index
    BY <1>0 DEF Calls, Like
  <2>. HIDE DEF c
  <2>3. c.out # "ok"
    BY <1>0, <1>pc, <2>2 DEF Route
  <2>4. Sweeps(c, d)
    BY <2>1, <2>2, <2>3 DEF Sweeps
  <2>. QED  BY <1>1, <2>1, <2>2, <2>4
<1>3. CASE DeleteSessions(r)
  <2>. DEFINE c == [d EXCEPT !.pc = "unindex", !.seen = {}]
  <2>1. Becomes(r, c) /\ d.pc = "delete" /\ Without(d.seen)
    BY <1>3 DEF DeleteSessions, At
  <2>2. /\ c.pc = "unindex" /\ c.out = d.out /\ Like(c, d) /\ c.used = d.used /\ c.old = d.old
    BY <1>0 DEF Calls, Like
  <2>. HIDE DEF c
  <2>3. c.out # "ok"
    BY <1>0, <1>pc, <2>2 DEF Route
  <2>4. Sweeps(c, d)
    BY <2>1, <2>2, <2>3 DEF Sweeps
  <2>. QED  BY <1>1, <2>1, <2>2, <2>4
<1>. QED  BY <1>2, <1>3

LEMMA HandlerServed ==
  ASSUME TypeInv, StoreInv, KnownInv, NEW r \in Request, Handler(r)
  PROVE  \E c : Served(r, c)
<1>1. CASE DropIndex(r) \/ CallFails(r)
  BY <1>1, ServedFinish DEF DropIndex, CallFails, At
<1>. QED  BY <1>1, LoginServed, RefreshServed, LogoutServed, SwitchServed, CredentialServed,
             CommitServed, SweepServed DEF Handler

------------------------------------------------------------------------------
(* What every step leaves standing.                                           *)

\* Sessions that were, secrets that were drawn, and requests that are over.
Grows ==
  /\ \A s \in Request : born[s] # Null => born'[s] # Null
  /\ \A s \in Request : born[s] # Null /\ session[s] = Null => session'[s] = Null
  /\ \A x \in Request : Minted(x) => Minted(x)'

LEMMA GrowsStep ==
  ASSUME TypeInv, StoreInv, [Next]_vars
  PROVE  Grows
<1>0. Shape
  BY StoreStep
<1>1. CASE Keeps
  BY <1>1 DEF Keeps, Grows, Live
<1>2. ASSUME NEW r \in Request, NEW s \in Request, Rotates(r, s) PROVE Grows
  BY <1>2 DEF Rotates, OthersMinted, Grows, Live
<1>3. ASSUME NEW r \in Request, Opens(r) PROVE Grows
  <2>1. \A s \in Request : born[s] # Null => s # r
    BY <1>3 DEF Opens, Minted
  <2>2. Minted(r)'
    BY <1>3 DEF Opens, Minted
  <2>. QED  BY <1>3, <2>1, <2>2 DEF Opens, OthersMinted, Grows
<1>. QED  BY <1>0, <1>1, <1>2, <1>3 DEF Shape

\* A handler moves, or the calls stay as they are.
LEMMA WhoMoves ==
  ASSUME TypeInv, StoreInv, KnownInv, [Next]_vars
  PROVE  \/ \E r \in Request : \E c : Handler(r) /\ Served(r, c)
         \/ ~(\E r \in Request : Handler(r)) /\ call' = call
<1>1. CASE \E r \in Request : Handler(r)
  BY <1>1, HandlerServed
<1>2. CASE UNCHANGED vars \/ IndexExpires \/ (\E s \in Request : SessionExpires(s))
           \/ (\E o \in Org : Suspend(o))
  BY <1>2, HandlerServed DEF vars, IndexExpires, SessionExpires, Suspend
<1>3. CASE Runner
  BY <1>3, HandlerServed
     DEF Runner, StartRollback, BlockSessions, SeedList, SeedDelete, SeedUnindex, DeleteUser,
         StartSeed, ReconcileUsers, ReconcileMemberships, VerifySeed, UnblockSessions, SeedFails
<1>. QED  BY <1>1, <1>2, <1>3 DEF Next

LEMMA CallMoves ==
  ASSUME TypeInv, NEW r \in Request, NEW c, Served(r, c)
  PROVE  call'[r] = c /\ \A q \in Request \ {r} : call'[q] = call[q]
BY DEF TypeInv, CallsInv, CallsOK, Served, Becomes

LEMMA DoneStays ==
  ASSUME TypeInv, StoreInv, KnownInv, [Next]_vars
  PROVE  \A q \in Request : call[q].pc = "done" => call'[q] = call[q]
<1>1. ASSUME NEW r \in Request, NEW c, Served(r, c)
      PROVE  \A q \in Request : call[q].pc = "done" => call'[q] = call[q]
  BY <1>1, CallMoves DEF Served
<1>. QED  BY <1>1, WhoMoves

LEMMA KnownStays ==
  ASSUME TypeInv, StoreInv, KnownInv, [Next]_vars, NEW c, Known(c), c.old \in SUBSET Request
  PROVE  Known(c)'
<1>1. Grows /\ \A q \in Request : call[q].pc = "done" => call'[q].pc = "done"
  BY GrowsStep, DoneStays
<1>. QED  BY <1>1 DEF Known, Grows

LEMMA CallsKnownStep ==
  ASSUME TypeInv, StoreInv, KnownInv, [Next]_vars
  PROVE  CallsKnown'
<1>0. CallsInv'
  BY TypeStep DEF TypeInv
<1>old. \A q \in Request : call[q].old \in SUBSET Request /\ call'[q].old \in SUBSET Request
  BY <1>0 DEF TypeInv, CallsInv, CallsOK, Calls
<1>1. ASSUME NEW q \in Request, NEW c, c = call'[q], Route(c), Known(c)
      PROVE  (Route(call[q]) /\ Known(call[q]))'
  <2>1. Known(c)'
    BY <1>1, <1>old, KnownStays
  <2>2. Route(call[q])'
    BY <1>1 DEF Route
  <2>3. Known(call[q])'
    BY <1>1, <2>1 DEF Known
  <2>. QED  BY <2>2, <2>3
<1>2. \A q \in Request : \E c : c = call'[q] /\ Route(c) /\ Known(c)
  <2>1. ASSUME NEW r \in Request, NEW c, Served(r, c), NEW q \in Request
        PROVE  \E k : k = call'[q] /\ Route(k) /\ Known(k)
    <3>1. CASE q = r
      BY <2>1, <3>1, CallMoves DEF Served
    <3>2. CASE q # r
      BY <2>1, <3>2, CallMoves DEF KnownInv, CallsKnown
    <3>. QED  BY <3>1, <3>2
  <2>2. CASE call' = call
    BY <2>2 DEF KnownInv, CallsKnown
  <2>. QED  BY <2>1, <2>2, WhoMoves
<1>. QED  BY <1>1, <1>2 DEF CallsKnown

\* Cookies are sent by handlers that drew the secret in them.
LEMMA HeldStep ==
  ASSUME TypeInv, StoreInv, KnownInv, [Next]_vars
  PROVE  \A k \in held' : \/ k \in held
                          \/ /\ k \in Request \X Request
                             /\ born'[k[1]] # Null /\ Minted(k[2])'
<1>0. Grows
  BY GrowsStep
<1>1. ASSUME NEW r \in Request, CreateSession(r)
      PROVE  \A k \in held' : \/ k \in held
                              \/ /\ k \in Request \X Request
                                 /\ born'[k[1]] # Null /\ Minted(k[2])'
  <2>1. CASE held' = held
    BY <2>1
  <2>2. CASE held' = held \cup {<<r, r>>} /\ born' = [born EXCEPT ![r] = epoch]
    <3>1. born'[r] # Null
      BY <2>2, NullAssumption DEF TypeInv, StoreOK, DatabaseOK
    <3>. QED  BY <2>2, <3>1 DEF Minted
  <2>. QED  BY <1>1, <2>1, <2>2 DEF CreateSession
<1>2. ASSUME NEW r \in Request, Deliver(r), call[r].pc \in {"reread", "tenant", "clear"}
      PROVE  \A k \in held' : \/ k \in held
                              \/ /\ k \in Request \X Request
                                 /\ born'[k[1]] # Null /\ Minted(k[2])'
  <2>1. call[r].op = "refresh" /\ call[r].used /\ call[r].sid \in Request
        /\ born[call[r].sid] # Null
    BY <1>2 DEF KnownInv, CallsKnown, Route, OnRoute, Known
  <2>2. Minted(r)
    BY <2>1 DEF Minted
  <2>3. PICK s \in Request : s = call[r].sid
    BY <2>1
  <2>4. held' = held \cup {<<s, r>>}
    BY <1>2, <2>3 DEF Deliver
  <2>5. born'[s] # Null /\ Minted(r)'
    BY <2>1, <2>2, <2>3, <1>0 DEF Grows
  <2>. QED  BY <2>4, <2>5
<1>3. ASSUME NEW r \in Request, Handler(r), ~CreateSession(r),
             ~(Deliver(r) /\ call[r].pc \in {"reread", "tenant", "clear"})
      PROVE  held' = held
  <2>1. ASSUME Reread(r) \/ CheckTenant(r) \/ ClearTenant(r) PROVE held' = held
    BY <2>1, <1>3 DEF Reread, CheckTenant, ClearTenant, At
  <2>2. CASE Login(r) \/ ReadMemberships(r) \/ Refresh(r) \/ Rotate(r) \/ Logout(r) \/ Look(r)
             \/ Unlist(r) \/ Drop(r)
    BY <2>2 DEF Login, ReadMemberships, Refresh, Rotate, Logout, Look, Unlist, Drop
  <2>3. CASE Switch(r) \/ Identify(r) \/ Choose(r) \/ Activate(r) \/ Forgot(r) \/ RevokeLinks(r)
             \/ MintLink(r) \/ Reset(r) \/ CommitReset(r)
    BY <2>3 DEF Switch, Identify, Choose, Activate, Forgot, RevokeLinks, MintLink, Reset,
                CommitReset
  <2>4. CASE ChangeRole(r) \/ UpdateRole(r) \/ ListSessions(r) \/ DeleteSessions(r) \/ DropIndex(r)
             \/ CallFails(r)
    BY <2>4 DEF ChangeRole, UpdateRole, ListSessions, DeleteSessions, DropIndex, CallFails
  <2>. QED  BY <1>3, <2>1, <2>2, <2>3, <2>4 DEF Handler
<1>4. ASSUME ~(\E r \in Request : Handler(r)) PROVE held' = held
  <2>1. CASE UNCHANGED vars \/ IndexExpires \/ (\E s \in Request : SessionExpires(s))
             \/ (\E o \in Org : Suspend(o))
    BY <2>1 DEF vars, IndexExpires, SessionExpires, Suspend
  <2>2. CASE Runner
    BY <2>2
       DEF Runner, StartRollback, BlockSessions, SeedList, SeedDelete, SeedUnindex, DeleteUser,
           StartSeed, ReconcileUsers, ReconcileMemberships, VerifySeed, UnblockSessions, SeedFails
  <2>. QED  BY <1>4, <2>1, <2>2 DEF Next
<1>. QED  BY <1>1, <1>2, <1>3, <1>4

\* What happens to a link.
LinksMove ==
  \A l \in Request : \/ link'[l] = link[l]
                     \/ /\ link'[l] \in {"none", "revoked", "consumed"}
                        /\ link'[l] # "none" => link[l] # "none"
                     \/ call[l].pc = "mint" /\ call'[l].pc = "done"

LEMMA LinkStep ==
  ASSUME TypeInv, StoreInv, KnownInv, [Next]_vars
  PROVE  LinksMove
<1>0. link \in [Request -> {"none", "live", "revoked", "consumed"}]
  BY DEF TypeInv, DatabaseOK
<1>same. ASSUME link' = link PROVE LinksMove
  BY <1>same DEF LinksMove
<1>1. ASSUME NEW r \in Request, RevokeLinks(r) PROVE LinksMove
  BY <1>0, <1>1 DEF RevokeLinks, LinksMove
<1>2. ASSUME NEW r \in Request, MintLink(r) PROVE LinksMove
  <2>1. CASE link' = [link EXCEPT ![r] = "live"] /\ Finish(r, "ok")
    <3>1. call'[r].pc = "done"
      BY <2>1 DEF Finish, Becomes, TypeInv, CallsInv, CallsOK, Calls
    <3>2. \A l \in Request \ {r} : link'[l] = link[l]
      BY <2>1, <1>0
    <3>. QED  BY <3>1, <3>2, <1>2 DEF LinksMove, MintLink, At
  <2>. QED  BY <1>2, <2>1, <1>same DEF MintLink
<1>3. ASSUME NEW r \in Request, CommitReset(r) PROVE LinksMove
  <2>1. CASE /\ link[call[r].secret] = "live"
             /\ link' = [link EXCEPT ![call[r].secret] = "consumed"]
    BY <2>1, <1>0 DEF LinksMove
  <2>. QED  BY <1>3, <2>1, <1>same DEF CommitReset
<1>4. CASE DeleteUser
  BY <1>4 DEF DeleteUser, LinksMove
<1>5. ASSUME NEW r \in Request, Handler(r), ~RevokeLinks(r), ~MintLink(r), ~CommitReset(r)
      PROVE  link' = link
  <2>2. CASE Login(r) \/ ReadMemberships(r) \/ CreateSession(r) \/ Refresh(r) \/ Rotate(r)
             \/ Reread(r) \/ CheckTenant(r) \/ ClearTenant(r) \/ Logout(r) \/ Look(r)
             \/ Unlist(r) \/ Drop(r)
    BY <2>2 DEF Login, ReadMemberships, CreateSession, Refresh, Rotate, Reread, CheckTenant,
                ClearTenant, Logout, Look, Unlist, Drop, rest
  <2>3. CASE Switch(r) \/ Identify(r) \/ Choose(r) \/ Activate(r) \/ Forgot(r) \/ Reset(r)
    BY <2>3 DEF Switch, Identify, Choose, Activate, Forgot, Reset, rest
  <2>4. CASE ChangeRole(r) \/ UpdateRole(r) \/ ListSessions(r) \/ DeleteSessions(r) \/ DropIndex(r)
             \/ CallFails(r)
    BY <2>4 DEF ChangeRole, UpdateRole, ListSessions, DeleteSessions, DropIndex, CallFails, rest
  <2>. QED  BY <1>5, <2>2, <2>3, <2>4 DEF Handler
<1>6. ASSUME ~(\E r \in Request : Handler(r)), ~DeleteUser PROVE link' = link
  <2>1. CASE UNCHANGED vars \/ IndexExpires \/ (\E s \in Request : SessionExpires(s))
             \/ (\E o \in Org : Suspend(o))
    BY <2>1 DEF vars, IndexExpires, SessionExpires, Suspend, rest
  <2>2. CASE Runner
    BY <2>2, <1>6
       DEF Runner, StartRollback, BlockSessions, SeedList, SeedDelete, SeedUnindex, StartSeed,
           ReconcileUsers, ReconcileMemberships, VerifySeed, UnblockSessions, SeedFails, databases
  <2>. QED  BY <1>6, <2>1, <2>2 DEF Next
<1>. QED  BY <1>same, <1>1, <1>2, <1>3, <1>4, <1>5, <1>6

LEMMA KnownStep ==
  ASSUME TypeInv, StoreInv, KnownInv, [Next]_vars
  PROVE  KnownInv'
<1>1. CallsKnown'
  BY CallsKnownStep
<1>2. Grows /\ \A q \in Request : call[q].pc = "done" => call'[q].pc = "done"
  BY GrowsStep, DoneStays
<1>3. \A k \in held' : k \in Request \X Request /\ born'[k[1]] # Null /\ Minted(k[2])'
  BY HeldStep, <1>2 DEF KnownInv, CredentialsKnown, Grows
<1>4. \A l \in Request : link'[l] # "none" => call'[l].pc = "done"
  BY LinkStep, <1>2 DEF LinksMove, KnownInv, CredentialsKnown
<1>. QED  BY <1>1, <1>3, <1>4 DEF KnownInv, CredentialsKnown, Minted

LEMMA KnownInit == Init => KnownInv
BY DEF Init, Waiting, KnownInv, CallsKnown, CredentialsKnown, Route, OnRoute, Known, Enders

LEMMA KnownSafe == Spec => [](TypeInv /\ StoreInv /\ KnownInv)
<1>1. TypeInv /\ StoreInv /\ KnownInv /\ [Next]_vars => (TypeInv /\ StoreInv /\ KnownInv)'
  BY TypeStep, StoreStep, KnownStep
<1>2. Init => TypeInv /\ StoreInv /\ KnownInv
  BY InitType, StoreInit, KnownInit
<1>. QED  BY <1>1, <1>2, PTL DEF Spec

------------------------------------------------------------------------------
(* A credential works once, and a replay ends its session.                    *)

\* What it opened it will not open again.
Beaten(c) ==
  c.used =>
    /\ c.op = "refresh" => session[c.sid] = Null \/ session[c.sid].secret # c.secret
    /\ c.op = "reset" => link[c.secret] # "live"

\* A replay was answered after the session had gone.
Avenged(c) == c.pc = "done" /\ c.out = "replay" => session[c.sid] = Null

UsedInv ==
  /\ \A r \in Request : Beaten(call[r]) /\ Avenged(call[r])
  /\ CredentialUsedOnce

LEMMA BeatenStays ==
  ASSUME TypeInv, StoreInv, KnownInv, [Next]_vars, NEW c, Route(c), Known(c), Beaten(c)
  PROVE  Beaten(c)'
<1>0. Shape /\ LinksMove
  BY StoreStep, LinkStep
<1>1. ASSUME c.used, c.op = "refresh"
      PROVE  session'[c.sid] = Null \/ session'[c.sid].secret # c.secret
  <2>0. /\ c.sid \in Request /\ born[c.sid] # Null /\ Minted(c.secret)
        /\ session[c.sid] = Null \/ session[c.sid].secret # c.secret
    BY <1>1 DEF Known, Beaten
  <2>1. CASE Keeps
    BY <2>0, <2>1 DEF Keeps, Live
  <2>2. ASSUME NEW r \in Request, NEW s \in Request, Rotates(r, s)
        PROVE  session'[c.sid] = Null \/ session'[c.sid].secret # c.secret
    BY <2>0, <2>2 DEF Rotates
  <2>3. ASSUME NEW r \in Request, Opens(r)
        PROVE  session'[c.sid] = Null \/ session'[c.sid].secret # c.secret
    BY <2>0, <2>3 DEF Opens, Minted
  <2>. QED  BY <1>0, <2>1, <2>2, <2>3 DEF Shape
<1>2. ASSUME c.used, c.op = "reset"
      PROVE  link'[c.secret] # "live"
  BY <1>0, <1>2 DEF Known, Beaten, LinksMove
<1>. QED  BY <1>1, <1>2 DEF Beaten

LEMMA WinnerBeaten ==
  ASSUME NEW r \in Request, NEW c, Known(c), Wins(r, c)
  PROVE  Beaten(c)'
BY DEF Known, Wins, Beaten

LEMMA AvengedStays ==
  ASSUME Grows, NEW c, Route(c), Known(c), Avenged(c)
  PROVE  Avenged(c)'
BY DEF Grows, Route, Known, Avenged

LEMMA UsedStep ==
  ASSUME TypeInv, StoreInv, KnownInv, UsedInv, [Next]_vars
  PROVE  UsedInv'
<1>0. Grows
  BY GrowsStep
<1>1. \A q \in Request : Route(call[q]) /\ Known(call[q]) /\ Beaten(call[q]) /\ Avenged(call[q])
  BY DEF KnownInv, CallsKnown, UsedInv
<1>set. ASSUME NEW q \in Request, NEW c, c = call'[q], Beaten(c)', Avenged(c)'
        PROVE  (Beaten(call[q]) /\ Avenged(call[q]))'
  BY <1>set DEF Beaten, Avenged
<1>kept. ASSUME NEW q \in Request, call'[q] = call[q]
         PROVE  (Beaten(call[q]) /\ Avenged(call[q]))'
  <2>1. PICK c : c = call[q]
    OBVIOUS
  <2>2. Beaten(c)' /\ Avenged(c)'
    BY <1>0, <1>1, <2>1, BeatenStays, AvengedStays
  <2>. QED  BY <1>set, <1>kept, <2>1, <2>2
<1>2. CASE call' = call
  <2>1. CredentialUsedOnce'
    BY <1>2 DEF UsedInv, CredentialUsedOnce
  <2>. QED  BY <1>2, <1>kept, <2>1 DEF UsedInv
<1>3. ASSUME NEW r \in Request, NEW c, Served(r, c) PROVE UsedInv'
  <2>0. call'[r] = c /\ \A q \in Request \ {r} : call'[q] = call[q]
    BY <1>3, CallMoves
  <2>1. Route(c) /\ Known(c)
    BY <1>3 DEF Served
  <2>used. ASSUME call[r].used PROVE Beaten(c)' /\ CredentialUsedOnce'
    <3>1. Like(c, call[r])
      BY <1>3, <2>used, <1>1 DEF Served, Route
    <3>2. \/ c.used = TRUE /\ Beaten(c)
          \/ ~c.used
      BY <3>1, <2>used, <1>1 DEF Beaten, Like
    <3>3. Beaten(c)'
      <4>1. CASE ~c.used
        BY <4>1 DEF Beaten
      <4>. QED  BY <4>1, <3>2, <2>1, BeatenStays
    <3>4. CredentialUsedOnce'
      BY <2>0, <3>1, <2>used DEF UsedInv, CredentialUsedOnce, Like
    <3>. QED  BY <3>3, <3>4
  <2>fresh. ASSUME ~call[r].used PROVE Beaten(c)' /\ CredentialUsedOnce'
    <3>1. CASE ~c.used
      <4>1. CredentialUsedOnce'
        BY <2>0, <3>1 DEF UsedInv, CredentialUsedOnce
      <4>. QED  BY <4>1, <3>1 DEF Beaten
    <3>2. CASE c.used
      <4>1. Wins(r, c)
        BY <1>3, <2>fresh, <3>2 DEF Served
      <4>2. ASSUME NEW q \in Request \ {r}, call[q].used, call[q].op = c.op
            PROVE  <<c.sid, c.secret>> # <<call[q].sid, call[q].secret>>
        BY <1>1, <4>1, <4>2 DEF Wins, Beaten
      <4>3. CredentialUsedOnce'
        <5>. SUFFICES ASSUME NEW x \in Request, NEW y \in Request, call'[x].used, call'[y].used,
                             x # y, call'[x].op = call'[y].op
                      PROVE  <<call'[x].sid, call'[x].secret>> # <<call'[y].sid, call'[y].secret>>
          BY DEF CredentialUsedOnce
        <5>1. CASE x = r
          BY <5>1, <2>0, <4>2
        <5>2. CASE y = r
          BY <5>2, <2>0, <4>2
        <5>3. CASE x # r /\ y # r
          BY <5>3, <2>0 DEF UsedInv, CredentialUsedOnce
        <5>. QED  BY <5>1, <5>2, <5>3
      <4>4. Beaten(c)'
        BY <2>1, <4>1, WinnerBeaten
      <4>. QED  BY <4>3, <4>4
    <3>. QED  BY <3>1, <3>2
  <2>2. Beaten(c)' /\ CredentialUsedOnce'
    BY <2>used, <2>fresh
  <2>3. Avenged(c)'
    BY <1>3 DEF Served, Avenged, Enders
  <2>4. (Beaten(call[r]) /\ Avenged(call[r]))'
    BY <2>0, <2>2, <2>3, <1>set
  <2>5. \A q \in Request \ {r} : (Beaten(call[q]) /\ Avenged(call[q]))'
    BY <2>0, <1>kept
  <2>. QED  BY <2>2, <2>4, <2>5 DEF UsedInv
<1>. QED  BY <1>2, <1>3, WhoMoves

LEMMA UsedInit == Init => UsedInv
BY DEF Init, Waiting, UsedInv, Beaten, Avenged, CredentialUsedOnce

LEMMA UsedSafe == Spec => []UsedInv
<1>1. TypeInv /\ StoreInv /\ KnownInv /\ UsedInv /\ [Next]_vars => UsedInv'
  BY UsedStep
<1>. QED  BY <1>1, UsedInit, KnownSafe, PTL DEF Spec

\* No refresh cookie and no reset link gives anything to two requests.
THEOREM CredentialsWorkOnce == Spec => []CredentialUsedOnce
<1>1. UsedInv => CredentialUsedOnce
  BY DEF UsedInv
<1>. QED  BY <1>1, UsedSafe, PTL

\* When the presentation of a replaced secret has been answered, the session is gone.
THEOREM ReplaysRevoke == Spec => []ReplayRevokes
<1>1. UsedInv => ReplayRevokes
  BY DEF UsedInv, Avenged, ReplayRevokes, At
<1>. QED  BY <1>1, UsedSafe, PTL

------------------------------------------------------------------------------
(* Neither a revocation nor a rollback leaves a session behind.               *)

Gone(s) == session[s] = Null \/ Ending(s) \/ GivenUp(s)

\* Nobody but those in R has dropped the index.
OnlyRevoked(R) == \A q \in Request \ R : ~Revoked(q)

\* A session is found through the index, by the rollback too when it has listed it.
Tracked == \A s \in Live : s \in index \/ Gone(s)
Listed == seed.pc = "delete" => \A s \in Live : s \in seed.seen \/ Gone(s)
Swept == seed.pc \in {"unindex", "boundary"} => \A s \in Live : Gone(s)
OfThisUser == \A s \in Live : born[s] = epoch \/ Gone(s)

\* While the sessions are swept and the user is away nobody opens one.
Blocking ==
  /\ seed.pc \in {"list", "delete", "unindex", "boundary"} \/ account = "absent" => blocked
  /\ seed.pc \in {"memberships", "verify", "unblock"} => account # "absent"

\* A revocation has seen, or somebody ends, what there was at its commit.
Sweeping(c) ==
  c.op \in {"reset", "role"} =>
    /\ c.pc = "delete" => \A s \in c.old : s \in c.seen \/ Gone(s)
    /\ c.pc = "unindex" \/ c.out = "ok" => \A s \in c.old : Gone(s)

SweepInv ==
  /\ Blocking
  /\ OnlyRevoked({}) => Tracked /\ Listed /\ Swept /\ OfThisUser
  /\ \A r \in Request : OnlyRevoked({r}) => Sweeping(call[r])

Sound == TypeInv /\ StoreInv /\ KnownInv

\* Who is ending a session ends it or gives up.
LEMMA GoneStays ==
  ASSUME Sound, [Next]_vars
  PROVE  \A s \in Request : born[s] # Null /\ Gone(s) => Gone(s)'
<1>. SUFFICES ASSUME NEW s \in Request, born[s] # Null, Gone(s) PROVE Gone(s)'
  OBVIOUS
<1>0. Grows /\ \A q \in Request : call[q].pc = "done" => call'[q] = call[q]
  BY GrowsStep, DoneStays DEF Sound
<1>known. \A q \in Request : Route(call[q])
  BY DEF Sound, KnownInv, CallsKnown
<1>1. CASE session[s] = Null
  BY <1>0, <1>1 DEF Grows, Gone
<1>2. CASE GivenUp(s)
  <2>1. PICK q \in Request : /\ call[q].op \in {"logout", "refresh"} /\ call[q].sid = s
                             /\ call[q].out = "failed" /\ ~call[q].used
    BY <1>2 DEF GivenUp
  <2>2. call'[q] = call[q]
    BY <2>1, <1>0, <1>known DEF Route
  <2>3. GivenUp(s)'
    BY <2>1, <2>2 DEF GivenUp
  <2>. QED  BY <2>3 DEF Gone
<1>3. CASE Ending(s)
  <2>1. PICK q \in Request : call[q].pc \in Enders /\ call[q].sid = s
    BY <1>3 DEF Ending, Enders
  <2>2. call[q].op \in {"logout", "refresh"} /\ ~call[q].used
    BY <2>1, <1>known DEF Route, OnRoute, Enders
  <2>3. ASSUME call'[q] = call[q] PROVE Gone(s)'
    BY <2>1, <2>3 DEF Gone, Ending, Enders
  <2>4. ASSUME NEW c, Served(q, c) PROVE Gone(s)'
    <3>1. call'[q] = c
      BY <2>4, CallMoves DEF Sound
    <3>2. Like(c, call[q]) /\ Route(c) /\ ~c.used
      BY <2>1, <2>2, <2>4 DEF Served, Enders, Wins
    <3>3. CASE c.pc \in Enders
      <4>1. Ending(s)'
        BY <2>1, <3>1, <3>2, <3>3 DEF Ending, Enders, Like
      <4>. QED  BY <4>1 DEF Gone
    <3>4. CASE session'[s] = Null
      BY <3>4 DEF Gone
    <3>5. CASE c.out = "failed"
      <4>1. GivenUp(s)'
        BY <2>1, <2>2, <3>1, <3>2, <3>5 DEF GivenUp, Like
      <4>. QED  BY <4>1 DEF Gone
    <3>. QED  BY <2>1, <2>4, <3>3, <3>4, <3>5 DEF Served, Ends
  <2>5. ASSUME NEW r \in Request \ {q}, NEW c, Served(r, c) PROVE call'[q] = call[q]
    BY <2>5, CallMoves DEF Sound
  <2>. QED  BY <2>3, <2>4, <2>5, WhoMoves DEF Sound
<1>. QED  BY <1>1, <1>2, <1>3 DEF Gone

LEMMA RevokedStays ==
  ASSUME Sound, [Next]_vars
  PROVE  \A q \in Request : Revoked(q) => Revoked(q)'
<1>1. \A q \in Request : Revoked(q) => call[q].pc = "done"
  BY DEF Sound, KnownInv, CallsKnown, Route, Revoked
<1>2. \A q \in Request : call[q].pc = "done" => call'[q] = call[q]
  BY DoneStays DEF Sound
<1>. QED  BY <1>1, <1>2 DEF Revoked

LEMMA QuietBefore ==
  ASSUME Sound, [Next]_vars, NEW R \in SUBSET Request, OnlyRevoked(R)'
  PROVE  OnlyRevoked(R)
BY RevokedStays DEF OnlyRevoked

\* What a step does to the index.
SameIndex == index' = index /\ born' = born
Creates(r) ==
  /\ ~blocked /\ index' = index \cup {r} /\ born'[r] = epoch
  /\ \A s \in Request \ {r} : born'[s] = born[s]
  /\ \A s \in Request \ {r} : session'[s] = session[s]
Unlists(s) == index' = index \ {s} /\ born' = born /\ Ending(s)'
Revokes(r) == Revoked(r)' /\ born' = born
Lapses == Live = {} /\ born' = born

\* The runner and the handlers do not move in the same step.
Aside == UNCHANGED <<seed, epoch, blocked>> /\ (account' = account \/ account' # "absent")

LEMMA HandlerAside ==
  ASSUME NEW r \in Request, Handler(r)
  PROVE  Aside
<1>1. CASE Login(r) \/ ReadMemberships(r) \/ CreateSession(r) \/ Refresh(r) \/ Rotate(r)
           \/ Reread(r) \/ CheckTenant(r) \/ ClearTenant(r) \/ Logout(r) \/ Look(r)
           \/ Unlist(r) \/ Drop(r)
  BY <1>1 DEF Login, ReadMemberships, CreateSession, Refresh, Rotate, Reread, CheckTenant,
              ClearTenant, Logout, Look, Unlist, Drop, rest, Aside
<1>2. CASE Switch(r) \/ Identify(r) \/ Choose(r) \/ Activate(r) \/ Forgot(r) \/ Reset(r)
           \/ RevokeLinks(r) \/ MintLink(r) \/ CommitReset(r)
  BY <1>2 DEF Switch, Identify, Choose, Activate, Forgot, Reset, RevokeLinks, MintLink, CommitReset,
              rest, Aside
<1>3. CASE ChangeRole(r) \/ UpdateRole(r) \/ ListSessions(r) \/ DeleteSessions(r) \/ DropIndex(r)
           \/ CallFails(r)
  BY <1>3 DEF ChangeRole, UpdateRole, ListSessions, DeleteSessions, DropIndex, CallFails, rest,
              Aside
<1>. QED  BY <1>1, <1>2, <1>3 DEF Handler

LEMMA HandlerIndex ==
  ASSUME Sound, NEW r \in Request, Handler(r)
  PROVE  SameIndex \/ Creates(r) \/ (\E s : Unlists(s)) \/ Revokes(r)
<1>. DEFINE d == call[r]
<1>0. d \in Calls /\ Route(d)
  BY DEF Sound, TypeInv, CallsInv, CallsOK, KnownInv, CallsKnown
<1>1. CASE CreateSession(r)
  <2>1. CASE UNCHANGED <<session, index, held, born>>
    BY <2>1 DEF SameIndex
  <2>2. CASE /\ ~blocked /\ index' = index \cup {r} /\ born' = [born EXCEPT ![r] = epoch]
             /\ session' = [session EXCEPT ![r] = [secret |-> r, org |-> call[r].org,
                                              role |-> call[r].role, era |-> call[r].era]]
    <3>1. /\ born'[r] = epoch
          /\ \A s \in Request \ {r} : born'[s] = born[s] /\ session'[s] = session[s]
      BY <2>2 DEF Sound, TypeInv, StoreOK
    <3>. QED  BY <2>2, <3>1 DEF Creates
  <2>. QED  BY <1>1, <2>1, <2>2 DEF CreateSession
<1>2. CASE Unlist(r)
  <2>. DEFINE c == [d EXCEPT !.pc = "drop"]
  <2>1. Becomes(r, c)
    BY <1>2 DEF Unlist, Goto
  <2>2. c.pc = "drop" /\ c.sid = d.sid
    BY <1>0 DEF Calls
  <2>. HIDE DEF c
  <2>3. call'[r].pc = "drop" /\ call'[r].sid = d.sid
    BY <2>1, <2>2 DEF Becomes, Sound, TypeInv, CallsInv, CallsOK
  <2>4. PICK x : x = d.sid
    OBVIOUS
  <2>5. Ending(x)'
    BY <2>3, <2>4 DEF Ending
  <2>6. Unlists(x)
    BY <1>2, <2>4, <2>5 DEF Unlist, Unlists
  <2>. QED  BY <2>6
<1>3. CASE DropIndex(r)
  <2>. DEFINE c == [d EXCEPT !.pc = "done", !.out = "ok"]
  <2>1. Becomes(r, c) /\ d.pc = "unindex"
    BY <1>3 DEF DropIndex, Finish, At
  <2>2. c.out = "ok" /\ c.op = d.op
    BY <1>0 DEF Calls
  <2>. HIDE DEF c
  <2>3. d.op \in {"reset", "role"}
    BY <1>0, <2>1 DEF Route, OnRoute
  <2>4. call'[r].out = "ok" /\ call'[r].op = d.op
    BY <2>1, <2>2 DEF Becomes, Sound, TypeInv, CallsInv, CallsOK
  <2>. QED  BY <1>3, <2>3, <2>4 DEF DropIndex, Revoked, Revokes
<1>4. CASE Login(r) \/ ReadMemberships(r) \/ Refresh(r) \/ Rotate(r) \/ Reread(r) \/ CheckTenant(r)
           \/ ClearTenant(r) \/ Logout(r) \/ Look(r) \/ Drop(r)
  BY <1>4 DEF Login, ReadMemberships, Refresh, Rotate, Reread, CheckTenant,
              ClearTenant, Logout, Look, Drop, SameIndex
<1>5. CASE Switch(r) \/ Identify(r) \/ Choose(r) \/ Activate(r) \/ Forgot(r) \/ Reset(r)
           \/ RevokeLinks(r) \/ MintLink(r) \/ CommitReset(r)
  BY <1>5 DEF Switch, Identify, Choose, Activate, Forgot, Reset, RevokeLinks, MintLink, CommitReset,
              SameIndex
<1>6. CASE ChangeRole(r) \/ UpdateRole(r) \/ ListSessions(r) \/ DeleteSessions(r) \/ CallFails(r)
  BY <1>6 DEF ChangeRole, UpdateRole, ListSessions, DeleteSessions, CallFails, SameIndex
<1>. QED  BY <1>1, <1>2, <1>3, <1>4, <1>5, <1>6 DEF Handler

\* Only a login brings a session to life.
LEMMA LiveShrinks ==
  ASSUME Sound, [Next]_vars, born' = born
  PROVE  Live' \subseteq Live
<1>0. Shape
  BY StoreStep DEF Sound
<1>1. CASE Keeps
  BY <1>1 DEF Keeps, Live
<1>2. ASSUME NEW r \in Request, NEW s \in Request, Rotates(r, s) PROVE Live' \subseteq Live
  BY <1>2 DEF Rotates, Live
<1>3. ASSUME NEW r \in Request, Opens(r) PROVE FALSE
  BY <1>3 DEF Opens, Minted
<1>. QED  BY <1>0, <1>1, <1>2, <1>3 DEF Shape

\* A step of a handler, or of the world around, keeps what the runner relies on.
LEMMA TrackedStep ==
  ASSUME Sound, SweepInv, [Next]_vars, Aside, OnlyRevoked({})',
         \/ SameIndex
         \/ \E r \in Request : Creates(r) \/ Revokes(r)
         \/ \E s : Unlists(s)
         \/ Lapses
  PROVE  (Tracked /\ Listed /\ Swept /\ OfThisUser)'
<1>1. OnlyRevoked({})
  BY QuietBefore
<1>2. Tracked /\ Listed /\ Swept /\ OfThisUser /\ Blocking
  BY <1>1 DEF SweepInv
<1>3. \A s \in Live : s \in Request /\ born[s] # Null
  BY DEF Sound, StoreInv, SecretsApart, Live
<1>4. \A s \in Live : Gone(s) => Gone(s)'
  BY <1>3, GoneStays
<1>5. ~(\E r \in Request : Revokes(r))
  BY DEF OnlyRevoked, Revokes
<1>6. CASE born' = born /\ (SameIndex \/ Lapses \/ \E s : Unlists(s))
  <2>0. Live' \subseteq Live
    BY <1>6, LiveShrinks
  <2>1. Listed' /\ Swept' /\ OfThisUser'
    BY <2>0, <1>2, <1>4, <1>6 DEF Listed, Swept, OfThisUser, Aside
  <2>2. ASSUME NEW s \in Live' PROVE s \in index' \/ Gone(s)'
    <3>1. s \in index \/ Gone(s)
      BY <2>0, <1>2 DEF Tracked
    <3>2. ASSUME NEW t, Unlists(t), s \in index PROVE s \in index' \/ Gone(s)'
      <4>1. CASE s = t
        <5>1. Ending(s)'
          BY <3>2, <4>1 DEF Unlists
        <5>. QED  BY <5>1 DEF Gone
      <4>. QED  BY <3>2, <4>1 DEF Unlists
    <3>. QED  BY <2>0, <3>1, <3>2, <1>4, <1>6 DEF SameIndex, Lapses
  <2>. QED  BY <2>1, <2>2 DEF Tracked
<1>7. ASSUME NEW r \in Request, Creates(r) PROVE (Tracked /\ Listed /\ Swept /\ OfThisUser)'
  <2>0. \A s \in Live' : s = r \/ s \in Live
    BY <1>7 DEF Creates, Live
  <2>1. Tracked'
    BY <2>0, <1>2, <1>4, <1>7 DEF Tracked, Creates
  <2>2. Listed' /\ Swept'
    BY <1>2, <1>7 DEF Listed, Swept, Creates, Aside, Blocking
  <2>3. OfThisUser'
    <3>1. ASSUME NEW s \in Live' PROVE born'[s] = epoch' \/ Gone(s)'
      BY <2>0, <1>2, <1>3, <1>4, <1>7 DEF OfThisUser, Creates, Aside
    <3>. QED  BY <3>1 DEF OfThisUser
  <2>. QED  BY <2>1, <2>2, <2>3
<1>. QED  BY <1>5, <1>6, <1>7 DEF SameIndex, Lapses, Unlists

LEMMA SeedMoves ==
  ASSUME SeedOK, NEW pc, SeedGoto(pc)
  PROVE  seed'.pc = pc /\ seed'.seen = seed.seen
BY DEF SeedOK, SeedGoto

\* A step of the runner that deletes nothing, and is not about to.
LEMMA RunnerIdles ==
  ASSUME SweepInv, OnlyRevoked({}), UNCHANGED <<session, index, born, call, epoch>>,
         seed'.pc \notin {"delete", "unindex", "boundary"}
  PROVE  (Tracked /\ Listed /\ Swept /\ OfThisUser)'
BY DEF SweepInv, Tracked, Listed, Swept, OfThisUser, Live, Gone, Ending, GivenUp

LEMMA RunnerTracked ==
  ASSUME Sound, SweepInv, [Next]_vars, Runner, OnlyRevoked({})'
  PROVE  (Tracked /\ Listed /\ Swept /\ OfThisUser)'
<1>0. OnlyRevoked({}) /\ SeedOK
  BY QuietBefore DEF Sound, TypeInv
<1>1. Tracked /\ Listed /\ Swept /\ OfThisUser
  BY <1>0 DEF SweepInv
<1>2. \A s \in Live : Gone(s) => Gone(s)'
  BY GoneStays DEF Sound, StoreInv, SecretsApart, Live
<1>3. CASE StartRollback \/ StartSeed
  BY <1>0, <1>3, RunnerIdles DEF StartRollback, StartSeed, StartRun, databases
<1>4. CASE BlockSessions \/ ReconcileUsers \/ ReconcileMemberships \/ UnblockSessions \/ SeedFails
  <2>1. \E pc \in {"list", "memberships", "verify", "idle"} : SeedGoto(pc)
    BY <1>4 DEF BlockSessions, ReconcileUsers, ReconcileMemberships, UnblockSessions, SeedFails
  <2>2. seed'.pc \in {"list", "memberships", "verify", "idle"}
    BY <2>1, <1>0, SeedMoves
  <2>. QED  BY <1>0, <1>4, <2>2, RunnerIdles
            DEF BlockSessions, ReconcileUsers, ReconcileMemberships, UnblockSessions, SeedFails,
                databases
<1>5. CASE VerifySeed
  <2>1. \E pc \in {"unblock", "idle"} : SeedGoto(pc)
    BY <1>5 DEF VerifySeed
  <2>2. seed'.pc \in {"unblock", "idle"}
    BY <2>1, <1>0, SeedMoves
  <2>. QED  BY <1>0, <1>5, <2>2, RunnerIdles DEF VerifySeed, databases
<1>6. CASE SeedList
  <2>1. UNCHANGED <<session, index, born, call, epoch>>
    BY <1>6 DEF SeedList, databases
  <2>2. /\ seed'.pc = IF index = {} THEN "unindex" ELSE "delete"
        /\ seed'.seen = index
    BY <1>0, <1>6 DEF SeedList, SeedOK
  <2>3. Tracked' /\ OfThisUser'
    BY <1>1, <2>1 DEF Tracked, OfThisUser, Live, Gone, Ending, GivenUp
  <2>4. Live' = Live
    BY <2>1 DEF Live
  <2>5. Listed' /\ Swept'
    BY <1>1, <1>2, <2>2, <2>4 DEF Tracked, Listed, Swept
  <2>. QED  BY <2>3, <2>5
<1>7. CASE SeedDelete
  <2>1. UNCHANGED <<index, born, call, epoch>> /\ Without(seed.seen) /\ SeedGoto("unindex")
        /\ seed.pc = "delete"
    BY <1>7 DEF SeedDelete, databases
  <2>2. seed'.pc = "unindex"
    BY <1>0, <2>1, SeedMoves
  <2>3. \A s \in Live' : s \in Live /\ s \notin seed.seen
    BY <2>1 DEF Live, Without
  <2>4. \A s \in Live' : Gone(s)'
    BY <1>1, <1>2, <2>1, <2>3 DEF Listed
  <2>. QED  BY <2>2, <2>4 DEF Tracked, Listed, Swept, OfThisUser
<1>8. CASE SeedUnindex
  <2>1. UNCHANGED <<session, born, call, epoch>> /\ seed.pc = "unindex"
    BY <1>8 DEF SeedUnindex, databases
  <2>2. seed'.pc \in {"boundary", "idle"}
    BY <1>0, <1>8 DEF SeedUnindex, SeedOK
  <2>3. \A s \in Live' : Gone(s)'
    BY <1>1, <1>2, <2>1 DEF Swept, Live
  <2>. QED  BY <2>2, <2>3 DEF Tracked, Listed, Swept, OfThisUser
<1>9. CASE DeleteUser
  <2>1. UNCHANGED <<session, born, call, index>> /\ seed.pc = "boundary"
    BY <1>9 DEF DeleteUser
  <2>2. seed'.pc = "list"
    BY <1>0, <1>9 DEF DeleteUser, SeedOK
  <2>3. \A s \in Live' : Gone(s)'
    BY <1>1, <1>2, <2>1 DEF Swept, Live
  <2>. QED  BY <2>2, <2>3 DEF Tracked, Listed, Swept, OfThisUser
<1>. QED  BY <1>3, <1>4, <1>5, <1>6, <1>7, <1>8, <1>9 DEF Runner

LEMMA RunnerBlocks ==
  ASSUME Sound, SweepInv, Runner
  PROVE  Blocking'
<1>0. SeedOK /\ Blocking
  BY DEF Sound, TypeInv, SweepInv
<1>1. CASE StartRollback
  BY <1>0, <1>1 DEF StartRollback, StartRun, databases, Blocking
<1>2. CASE StartSeed
  BY <1>0, <1>2 DEF StartSeed, StartRun, databases, Blocking
<1>3. CASE BlockSessions
  <2>1. seed'.pc = "list" /\ blocked' = TRUE
    BY <1>0, <1>3, SeedMoves DEF BlockSessions
  <2>. QED  BY <2>1 DEF Blocking
<1>4. CASE SeedList
  <2>1. seed'.pc \in {"unindex", "delete"} /\ seed.pc = "list" /\ UNCHANGED <<blocked, account>>
    BY <1>0, <1>4 DEF SeedList, SeedOK, databases
  <2>. QED  BY <1>0, <2>1 DEF Blocking
<1>5. CASE SeedDelete
  <2>1. seed'.pc = "unindex" /\ seed.pc = "delete" /\ UNCHANGED <<blocked, account>>
    BY <1>0, <1>5, SeedMoves DEF SeedDelete, databases
  <2>. QED  BY <1>0, <2>1 DEF Blocking
<1>6. CASE SeedUnindex
  <2>1. seed'.pc \in {"boundary", "idle"} /\ seed.pc = "unindex" /\ UNCHANGED <<blocked, account>>
    BY <1>0, <1>6 DEF SeedUnindex, SeedOK, databases
  <2>. QED  BY <1>0, <2>1 DEF Blocking
<1>7. CASE DeleteUser
  <2>1. seed'.pc = "list" /\ seed.pc = "boundary" /\ blocked' = blocked
    BY <1>0, <1>7 DEF DeleteUser, SeedOK
  <2>. QED  BY <1>0, <2>1 DEF Blocking
<1>8. CASE ReconcileUsers
  <2>1. seed'.pc = "memberships" /\ account' = "seeded"
    BY <1>0, <1>8, SeedMoves DEF ReconcileUsers
  <2>. QED  BY <2>1 DEF Blocking
<1>9. CASE ReconcileMemberships
  <2>1. seed'.pc = "verify" /\ seed.pc = "memberships" /\ UNCHANGED <<blocked, account>>
    BY <1>0, <1>9, SeedMoves DEF ReconcileMemberships
  <2>. QED  BY <1>0, <2>1 DEF Blocking
<1>10. CASE VerifySeed
  <2>1. seed'.pc \in {"unblock", "idle"} /\ seed.pc = "verify" /\ UNCHANGED <<blocked, account>>
    BY <1>0, <1>10, SeedMoves DEF VerifySeed, databases
  <2>. QED  BY <1>0, <2>1 DEF Blocking
<1>11. CASE UnblockSessions
  <2>1. seed'.pc = "idle" /\ seed.pc = "unblock" /\ account' = account
    BY <1>0, <1>11, SeedMoves DEF UnblockSessions, databases
  <2>. QED  BY <1>0, <2>1 DEF Blocking
<1>12. CASE SeedFails
  <2>1. seed'.pc = "idle" /\ UNCHANGED <<blocked, account>>
    BY <1>0, <1>12, SeedMoves DEF SeedFails, databases
  <2>. QED  BY <1>0, <2>1 DEF Blocking
<1>. QED  BY <1>1, <1>2, <1>3, <1>4, <1>5, <1>6, <1>7, <1>8, <1>9, <1>10, <1>11, <1>12 DEF Runner

\* A revocation has the sessions of its commit in its list until it deletes them.
LEMMA SweepingStep ==
  ASSUME Sound, SweepInv, [Next]_vars, NEW r \in Request, OnlyRevoked({r})'
  PROVE  Sweeping(call[r])'
<1>0. OnlyRevoked({r})
  BY QuietBefore
<1>1. Sweeping(call[r]) /\ Route(call[r]) /\ Known(call[r]) /\ call[r].old \in SUBSET Request
  BY <1>0 DEF SweepInv, Sound, KnownInv, CallsKnown, TypeInv, CallsInv, CallsOK, Calls
<1>2. \A s \in call[r].old : Gone(s) => Gone(s)'
  BY <1>1, GoneStays DEF Known
<1>3. ASSUME call'[r] = call[r] PROVE Sweeping(call[r])'
  BY <1>1, <1>2, <1>3 DEF Sweeping
<1>4. ASSUME NEW c, Served(r, c) PROVE Sweeping(call[r])'
  <2>0. call'[r] = c
    BY <1>4, CallMoves DEF Sound
  <2>. SUFFICES ASSUME c.op \in {"reset", "role"}
                PROVE  /\ c.pc = "delete" => \A s \in c.old : s \in c.seen \/ Gone(s)'
                       /\ c.pc = "unindex" \/ c.out = "ok" => \A s \in c.old : Gone(s)'
    BY <2>0 DEF Sweeping
  <2>1. Sweeps(c, call[r]) /\ (call[r].pc # "new" => call[r].op = c.op)
    BY <1>4 DEF Served, Like
  <2>listed. ASSUME call[r].pc = "list"
             PROVE  \A s \in call[r].old : s \in index \/ Gone(s)
    <3>1. ~Revoked(r)
      BY <1>1, <2>listed DEF Revoked, Route
    <3>2. OnlyRevoked({})
      BY <1>0, <3>1 DEF OnlyRevoked
    <3>3. Tracked
      BY <3>2 DEF SweepInv
    <3>. QED  BY <1>1, <3>3 DEF Tracked, Live, Gone
  <2>2. ASSUME c.pc = "delete" PROVE \A s \in c.old : s \in c.seen \/ Gone(s)'
    BY <1>2, <2>1, <2>2, <2>listed DEF Sweeps
  <2>3. ASSUME c.pc = "unindex" PROVE \A s \in c.old : Gone(s)'
    <3>1. CASE call[r].pc = "list" /\ index = {}
      BY <1>2, <2>1, <2>3, <3>1, <2>listed DEF Sweeps
    <3>2. CASE call[r].pc = "delete" /\ Without(call[r].seen)
      <4>1. \A s \in call[r].old : s \in call[r].seen \/ Gone(s)
        BY <1>1, <2>1, <3>2 DEF Sweeping
      <4>2. \A s \in call[r].old : s \in call[r].seen => session'[s] = Null
        BY <1>1, <3>2 DEF Without
      <4>3. \A s \in call[r].old : session'[s] = Null => Gone(s)'
        BY DEF Gone
      <4>. QED  BY <1>2, <2>1, <2>3, <4>1, <4>2, <4>3 DEF Sweeps
    <3>. QED  BY <2>1, <2>3, <3>1, <3>2 DEF Sweeps
  <2>4. ASSUME c.out = "ok" PROVE \A s \in c.old : Gone(s)'
    BY <1>1, <1>2, <2>1, <2>4 DEF Sweeps, Sweeping
  <2>. QED  BY <2>2, <2>3, <2>4
<1>5. ASSUME NEW q \in Request \ {r}, NEW c, Served(q, c) PROVE call'[r] = call[r]
  BY <1>5, CallMoves DEF Sound
<1>. QED  BY <1>3, <1>4, <1>5, WhoMoves DEF Sound

LEMMA SweepStep ==
  ASSUME Sound, SweepInv, [Next]_vars
  PROVE  SweepInv'
<1>1. \A r \in Request : OnlyRevoked({r})' => Sweeping(call[r])'
  BY SweepingStep
<1>2. CASE Runner
  BY <1>1, <1>2, RunnerTracked, RunnerBlocks DEF SweepInv
<1>3. CASE ~Runner
  <2>1. /\ Aside
        /\ \/ SameIndex
           \/ \E r \in Request : Creates(r) \/ Revokes(r)
           \/ \E s : Unlists(s)
           \/ Lapses
    <3>1. ASSUME NEW r \in Request, Handler(r)
          PROVE  Aside /\ (SameIndex \/ Creates(r) \/ (\E s : Unlists(s)) \/ Revokes(r))
      BY <3>1, HandlerAside, HandlerIndex
    <3>2. CASE UNCHANGED vars \/ (\E s \in Request : SessionExpires(s))
               \/ (\E o \in Org : Suspend(o))
      BY <3>2 DEF vars, SessionExpires, Suspend, rest, Aside, SameIndex
    <3>3. CASE IndexExpires
      BY <3>3 DEF IndexExpires, rest, Aside, Lapses
    <3>. QED  BY <1>3, <3>1, <3>2, <3>3 DEF Next
  <2>2. Blocking'
    BY <2>1 DEF SweepInv, Blocking, Aside
  <2>. QED  BY <1>1, <2>1, <2>2, TrackedStep DEF SweepInv
<1>. QED  BY <1>2, <1>3

LEMMA SweepInit == Init => SweepInv
BY DEF Init, Waiting, SweepInv, Blocking, Tracked, Listed, Swept, OfThisUser, Sweeping, Live

LEMMA SweepSafe == Spec => []SweepInv
<1>1. Sound /\ SweepInv /\ [Next]_vars => SweepInv'
  BY SweepStep
<1>2. Spec => []Sound
  BY KnownSafe DEF Sound
<1>. QED  BY <1>1, <1>2, SweepInit, PTL DEF Spec

\* When the first revocation answers, the sessions there were at its commit are gone,
\* or a request is about to end them, or one that was has failed.
THEOREM RevocationHolds == Spec => []FirstRevocationHolds
<1>1. SweepInv => FirstRevocationHolds
  BY DEF SweepInv, OnlyRevoked, Sweeping, Revoked, FirstRevocationHolds, Gone
<1>. QED  BY <1>1, SweepSafe, PTL

\* No session of a deleted user is left for the one recreated under its id.
THEOREM RollbackLeavesNone == Spec => []NoLeftover
<1>1. SweepInv => NoLeftover
  BY DEF SweepInv, OnlyRevoked, OfThisUser, Gone, NoLeftover, Live
<1>. QED  BY <1>1, SweepSafe, PTL
==============================================================================
