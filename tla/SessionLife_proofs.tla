-------------------------- MODULE SessionLife_proofs --------------------------
(* The session store keeps its promise, SessionLife, whatever the requests,   *)
(* the seed runner, the clock and the faults do.                              *)
EXTENDS Sessions_proofs

\* What a handler's own state says of the secret it may draw.
Healthy(c) ==
  /\ c.pc \in {"memberships", "create"} => c.op = "login"
  /\ c.pc = "rotate" => c.op = "refresh" /\ ~c.used
  /\ c.pc = "new" => ~c.used
  /\ c.pc = "commit" => c.op = "reset"

\* A request that opened a session is over, so its secret is drawn once.
DrawnOnce ==
  /\ \A r \in Request : Healthy(call[r])
  /\ \A r \in Request : born[r] # Null => call[r].pc = "done"

\* The secret of a session was drawn, and for no other session.
SecretsApart ==
  /\ \A s \in Live : born[s] # Null /\ Minted(session[s].secret)
  /\ \A s, t \in Live : session[s].secret = session[t].secret => s = t

StoreInv == DrawnOnce /\ SecretsApart

------------------------------------------------------------------------------
(* The three things a step can do to the store.                               *)

OthersMinted(r) == \A x \in Request \ {r} : Minted(x)' <=> Minted(x)

\* It ends some sessions and leaves the secrets of the others alone.
Keeps ==
  /\ \A s \in Request : session'[s] # Null => s \in Live /\ session'[s].secret = session[s].secret
  /\ born' = born
  /\ \A x \in Request : Minted(x)' <=> Minted(x)

\* It gives a session a secret never drawn before.
Rotates(r, s) ==
  /\ ~Minted(r) /\ Minted(r)' /\ OthersMinted(r)
  /\ s \in Live /\ session'[s] # Null /\ session'[s].secret = r
  /\ \A t \in Request \ {s} : session'[t] = session[t]
  /\ born' = born

\* It opens a session never opened before.
Opens(r) ==
  /\ ~Minted(r) /\ OthersMinted(r)
  /\ session'[r] # Null /\ session'[r].secret = r
  /\ \A t \in Request \ {r} : session'[t] = session[t] /\ born'[t] = born[t]
  /\ born'[r] # Null

Shape == Keeps \/ (\E r, s \in Request : Rotates(r, s)) \/ (\E r \in Request : Opens(r))

------------------------------------------------------------------------------
(* Every step has one of these shapes.                                        *)

\* The handler of a request still being served moves, and draws no secret.
Quiet(r) ==
  /\ call[r].pc # "done" /\ Healthy(call'[r])
  /\ call'[r].used /\ call'[r].op = "refresh" <=> call[r].used /\ call[r].op = "refresh"
  /\ \A q \in Request \ {r} : call'[q] = call[q]

LEMMA QuietBecomes ==
  ASSUME CallsInv, NEW r \in Request, NEW c, Becomes(r, c), call[r].pc # "done",
         Healthy(c), c.used /\ c.op = "refresh" <=> call[r].used /\ call[r].op = "refresh"
  PROVE  Quiet(r)
<1>1. call'[r] = c /\ \A q \in Request \ {r} : call'[q] = call[q]
  BY DEF CallsInv, CallsOK, Becomes
<1>. QED  BY <1>1 DEF Quiet

\* Where a handler goes once it has its request.
Onward == Pc \ {"new", "memberships", "create", "rotate", "commit"}

LEMMA QuietOnward ==
  ASSUME CallsInv, NEW r \in Request, NEW c, Becomes(r, c), call[r].pc # "done",
         c.pc \in Onward, c.op = call[r].op, c.used = call[r].used
  PROVE  Quiet(r)
<1>1. Healthy(c)
  BY DEF Healthy, Onward
<1>. QED  BY <1>1, QuietBecomes

LEMMA QuietGoto ==
  ASSUME CallsInv, NEW r \in Request, NEW pc \in Onward, Goto(r, pc), call[r].pc # "done"
  PROVE  Quiet(r)
<1>. DEFINE c == [call[r] EXCEPT !.pc = pc]
<1>1. c.pc = pc /\ c.used = call[r].used /\ c.op = call[r].op
  BY DEF CallsInv, CallsOK, Calls
<1>2. Becomes(r, c)
  BY DEF Goto
<1>. HIDE DEF c
<1>. QED  BY <1>1, <1>2, QuietOnward

LEMMA QuietFinish ==
  ASSUME CallsInv, NEW r \in Request, NEW out, Finish(r, out), call[r].pc # "done"
  PROVE  Quiet(r)
<1>. DEFINE c == [call[r] EXCEPT !.pc = "done", !.out = out]
<1>1. c.pc = "done" /\ c.used = call[r].used /\ c.op = call[r].op
  BY DEF CallsInv, CallsOK, Calls
<1>2. Becomes(r, c)
  BY DEF Finish
<1>. HIDE DEF c
<1>3. c.pc \in Onward
  BY <1>1 DEF Onward, Pc
<1>. QED  BY <1>1, <1>2, <1>3, QuietOnward

\* The handlers but the one that opens a session and the one that rotates a secret.
LEMMA HandlerQuiet ==
  ASSUME TypeInv, DrawnOnce, NEW r \in Request, Handler(r), ~CreateSession(r),
         ~(Rotate(r) /\ session[call[r].sid] # Null /\ Current(r))
  PROVE  Quiet(r)
<1>0. CallsInv /\ call[r] \in Calls /\ Healthy(call[r])
  BY DEF TypeInv, CallsInv, CallsOK, DrawnOnce
<1>on. Onward = {"reread", "tenant", "clear", "look", "unlist", "drop", "identify", "choose",
                 "activate", "revoke", "mint", "update", "list", "delete", "unindex", "done"}
  BY DEF Onward, Pc
<1>finish. ASSUME NEW out, Finish(r, out), call[r].pc # "done" PROVE Quiet(r)
  BY <1>finish, <1>0, QuietFinish
<1>goto. ASSUME NEW pc \in Onward, Goto(r, pc), call[r].pc # "done" PROVE Quiet(r)
  BY <1>goto, <1>0, QuietGoto
<1>1. CASE Login(r)
  <2>. DEFINE c == [call[r] EXCEPT !.op = "login", !.pc = "memberships"]
  <2>1. Becomes(r, c) /\ call[r].pc = "new"
    BY <1>1 DEF Login, Arrives, At
  <2>2. c.pc = "memberships" /\ c.op = "login" /\ c.used = call[r].used
    BY <1>0 DEF Calls
  <2>3. ~c.used /\ ~call[r].used
    BY <2>1, <2>2, <1>0 DEF Healthy
  <2>. HIDE DEF c
  <2>4. Healthy(c)
    BY <2>2, <2>3 DEF Healthy
  <2>. QED  BY <2>1, <2>3, <2>4, <1>0, QuietBecomes
<1>2. CASE ReadMemberships(r)
  <2>0. call[r].pc = "memberships" /\ call[r].op = "login"
    BY <1>2, <1>0 DEF ReadMemberships, At, Healthy
  <2>1. ASSUME NEW c, Becomes(r, c), c.pc = "create", c.op = call[r].op PROVE Quiet(r)
    <3>1. Healthy(c)
      BY <2>0, <2>1 DEF Healthy
    <3>. QED  BY <3>1, <2>0, <2>1, <1>0, QuietBecomes
  <2>2. CASE Goto(r, "create")
    <3>. DEFINE c == [call[r] EXCEPT !.pc = "create"]
    <3>1. c.pc = "create" /\ c.op = call[r].op
      BY <1>0 DEF Calls
    <3>2. Becomes(r, c)
      BY <2>2 DEF Goto
    <3>. HIDE DEF c
    <3>. QED  BY <3>1, <3>2, <2>1
  <2>3. ASSUME NEW o \in Org,
               Becomes(r, [call[r] EXCEPT !.pc = "create", !.org = o, !.role = member[o],
                                          !.era = epoch])
        PROVE  Quiet(r)
    <3>. DEFINE c == [call[r] EXCEPT !.pc = "create", !.org = o, !.role = member[o], !.era = epoch]
    <3>1. c.pc = "create" /\ c.op = call[r].op
      BY <1>0 DEF Calls
    <3>2. Becomes(r, c)
      BY <2>3
    <3>. HIDE DEF c
    <3>. QED  BY <3>1, <3>2, <2>1
  <2>. QED  BY <2>2, <2>3, <1>2 DEF ReadMemberships
<1>3. CASE Refresh(r)
  <2>0. PICK k \in held :
          Becomes(r, [call[r] EXCEPT !.op = "refresh", !.pc = "rotate", !.sid = k[1],
                                     !.secret = k[2]])
    BY <1>3 DEF Refresh
  <2>. DEFINE c == [call[r] EXCEPT !.op = "refresh", !.pc = "rotate", !.sid = k[1], !.secret = k[2]]
  <2>1. Becomes(r, c) /\ call[r].pc = "new"
    BY <2>0, <1>3 DEF Refresh, Arrives, At
  <2>2. c.pc = "rotate" /\ c.op = "refresh" /\ c.used = call[r].used
    BY <1>0 DEF Calls
  <2>3. ~c.used /\ ~call[r].used
    BY <2>1, <2>2, <1>0 DEF Healthy
  <2>. HIDE DEF c
  <2>4. Healthy(c)
    BY <2>2, <2>3 DEF Healthy
  <2>. QED  BY <2>1, <2>3, <2>4, <1>0, QuietBecomes
<1>4. CASE Rotate(r) /\ ~(session[call[r].sid] # Null /\ Current(r))
  <2>1. CASE Finish(r, "failed")
    BY <2>1, <1>4, <1>finish DEF Rotate, At
  <2>2. CASE Becomes(r, [call[r] EXCEPT !.pc = "look", !.out = "replay"])
    <3>. DEFINE c == [call[r] EXCEPT !.pc = "look", !.out = "replay"]
    <3>1. Becomes(r, c) /\ call[r].pc # "done"
      BY <2>2, <1>4 DEF Rotate, At
    <3>2. c.pc = "look" /\ c.op = call[r].op /\ c.used = call[r].used
      BY <1>0 DEF Calls
    <3>. HIDE DEF c
    <3>. QED  BY <3>1, <3>2, <1>0, <1>on, QuietOnward
  <2>. QED  BY <2>1, <2>2, <1>4 DEF Rotate
<1>5. CASE Reread(r)
  <2>. DEFINE record == session[call[r].sid]
  <2>1. CASE Becomes(r, [call[r] EXCEPT !.pc = "tenant", !.org = record.org, !.era = record.era])
    <3>. DEFINE c == [call[r] EXCEPT !.pc = "tenant", !.org = record.org, !.era = record.era]
    <3>1. Becomes(r, c) /\ call[r].pc # "done"
      BY <2>1, <1>5 DEF Reread, At
    <3>2. c.pc = "tenant" /\ c.op = call[r].op /\ c.used = call[r].used
      BY <1>0 DEF Calls
    <3>. HIDE DEF c
    <3>. QED  BY <3>1, <3>2, <1>0, <1>on, QuietOnward
  <2>. QED  BY <2>1, <1>5, <1>finish DEF Reread, Deliver, At
<1>6. CASE CheckTenant(r)
  BY <1>6, <1>finish, <1>goto, <1>on DEF CheckTenant, Deliver, At
<1>7. CASE ClearTenant(r) \/ Drop(r) \/ Activate(r) \/ MintLink(r) \/ DropIndex(r) \/ CallFails(r)
  BY <1>7, <1>finish DEF ClearTenant, Deliver, Drop, Activate, MintLink, DropIndex, CallFails, At
<1>8. CASE Logout(r)
  <2>0. PICK k \in held : Becomes(r, [call[r] EXCEPT !.op = "logout", !.pc = "look", !.sid = k[1]])
    BY <1>8 DEF Logout
  <2>. DEFINE c == [call[r] EXCEPT !.op = "logout", !.pc = "look", !.sid = k[1]]
  <2>1. Becomes(r, c) /\ call[r].pc = "new"
    BY <2>0, <1>8 DEF Logout, Arrives, At
  <2>2. c.pc = "look" /\ c.op = "logout" /\ c.used = call[r].used
    BY <1>0 DEF Calls
  <2>3. ~c.used /\ ~call[r].used
    BY <2>1, <2>2, <1>0 DEF Healthy
  <2>. HIDE DEF c
  <2>4. Healthy(c)
    BY <2>2, <2>3 DEF Healthy
  <2>. QED  BY <2>1, <2>3, <2>4, <1>0, QuietBecomes
<1>9. CASE Look(r) \/ Unlist(r) \/ Identify(r) \/ RevokeLinks(r)
  BY <1>9, <1>finish, <1>goto, <1>on DEF Look, Unlist, Identify, RevokeLinks, At
<1>10. CASE Switch(r)
  <2>0. PICK k \in held :
          Becomes(r, [call[r] EXCEPT !.op = "switch", !.pc = "identify", !.sid = k[1]])
    BY <1>10 DEF Switch
  <2>. DEFINE c == [call[r] EXCEPT !.op = "switch", !.pc = "identify", !.sid = k[1]]
  <2>1. Becomes(r, c) /\ call[r].pc = "new"
    BY <2>0, <1>10 DEF Switch, Arrives, At
  <2>2. c.pc = "identify" /\ c.op = "switch" /\ c.used = call[r].used
    BY <1>0 DEF Calls
  <2>3. ~c.used /\ ~call[r].used
    BY <2>1, <2>2, <1>0 DEF Healthy
  <2>. HIDE DEF c
  <2>4. Healthy(c)
    BY <2>2, <2>3 DEF Healthy
  <2>. QED  BY <2>1, <2>3, <2>4, <1>0, QuietBecomes
<1>11. CASE Choose(r)
  <2>1. ASSUME NEW o \in Org,
               Becomes(r, [call[r] EXCEPT !.pc = "activate", !.org = o, !.role = member[o],
                                          !.era = epoch])
        PROVE  Quiet(r)
    <3>. DEFINE c == [call[r] EXCEPT !.pc = "activate", !.org = o, !.role = member[o],
                                     !.era = epoch]
    <3>1. Becomes(r, c) /\ call[r].pc # "done"
      BY <2>1, <1>11 DEF Choose, At
    <3>2. c.pc = "activate" /\ c.op = call[r].op /\ c.used = call[r].used
      BY <1>0 DEF Calls
    <3>. HIDE DEF c
    <3>. QED  BY <3>1, <3>2, <1>0, <1>on, QuietOnward
  <2>. QED  BY <2>1, <1>11, <1>finish DEF Choose, At
<1>12. CASE Forgot(r)
  <2>. DEFINE c == [call[r] EXCEPT !.op = "forgot", !.pc = "revoke"]
  <2>1. Becomes(r, c) /\ call[r].pc = "new"
    BY <1>12 DEF Forgot, Arrives, At
  <2>2. c.pc = "revoke" /\ c.op = "forgot" /\ c.used = call[r].used
    BY <1>0 DEF Calls
  <2>3. ~c.used /\ ~call[r].used
    BY <2>1, <2>2, <1>0 DEF Healthy
  <2>. HIDE DEF c
  <2>4. Healthy(c)
    BY <2>2, <2>3 DEF Healthy
  <2>. QED  BY <2>1, <2>3, <2>4, <1>0, QuietBecomes
<1>13. CASE Reset(r)
  <2>0. PICK l \in Request :
          Becomes(r, [call[r] EXCEPT !.op = "reset", !.pc = "commit", !.secret = l])
    BY <1>13 DEF Reset
  <2>. DEFINE c == [call[r] EXCEPT !.op = "reset", !.pc = "commit", !.secret = l]
  <2>1. Becomes(r, c) /\ call[r].pc = "new"
    BY <2>0, <1>13 DEF Reset, Arrives, At
  <2>2. c.pc = "commit" /\ c.op = "reset" /\ c.used = call[r].used
    BY <1>0 DEF Calls
  <2>3. ~c.used /\ ~call[r].used
    BY <2>1, <2>2, <1>0 DEF Healthy
  <2>. HIDE DEF c
  <2>4. Healthy(c)
    BY <2>2, <2>3 DEF Healthy
  <2>. QED  BY <2>1, <2>3, <2>4, <1>0, QuietBecomes
<1>14. CASE CommitReset(r)
  <2>1. CASE Becomes(r, [call[r] EXCEPT !.pc = "list", !.old = Live, !.used = TRUE])
    <3>. DEFINE c == [call[r] EXCEPT !.pc = "list", !.old = Live, !.used = TRUE]
    <3>1. Becomes(r, c) /\ call[r].pc = "commit" /\ call[r].op = "reset"
      BY <2>1, <1>14, <1>0 DEF CommitReset, At, Healthy
    <3>2. c.pc = "list" /\ c.op = call[r].op
      BY <1>0 DEF Calls
    <3>. HIDE DEF c
    <3>3. Healthy(c)
      BY <3>2 DEF Healthy
    <3>. QED  BY <3>1, <3>2, <3>3, <1>0, QuietBecomes
  <2>. QED  BY <2>1, <1>14, <1>finish DEF CommitReset, At
<1>15. CASE ChangeRole(r)
  <2>0. PICK o \in Org, role \in Role \ {Owner} :
          Becomes(r, [call[r] EXCEPT !.op = "role", !.pc = "update", !.org = o, !.role = role,
                                     !.era = epoch])
    BY <1>15 DEF ChangeRole
  <2>. DEFINE c == [call[r] EXCEPT !.op = "role", !.pc = "update", !.org = o, !.role = role,
                                   !.era = epoch]
  <2>1. Becomes(r, c) /\ call[r].pc = "new"
    BY <2>0, <1>15 DEF ChangeRole, Arrives, At
  <2>2. c.pc = "update" /\ c.op = "role" /\ c.used = call[r].used
    BY <1>0 DEF Calls
  <2>3. ~c.used /\ ~call[r].used
    BY <2>1, <2>2, <1>0 DEF Healthy
  <2>. HIDE DEF c
  <2>4. Healthy(c)
    BY <2>2, <2>3 DEF Healthy
  <2>. QED  BY <2>1, <2>3, <2>4, <1>0, QuietBecomes
<1>16. CASE UpdateRole(r)
  <2>1. CASE Becomes(r, [call[r] EXCEPT !.pc = "list", !.old = Live])
    <3>. DEFINE c == [call[r] EXCEPT !.pc = "list", !.old = Live]
    <3>1. Becomes(r, c) /\ call[r].pc # "done"
      BY <2>1, <1>16 DEF UpdateRole, At
    <3>2. c.pc = "list" /\ c.op = call[r].op /\ c.used = call[r].used
      BY <1>0 DEF Calls
    <3>. HIDE DEF c
    <3>. QED  BY <3>1, <3>2, <1>0, <1>on, QuietOnward
  <2>. QED  BY <2>1, <1>16, <1>finish DEF UpdateRole, At
<1>17. CASE ListSessions(r)
  <2>. DEFINE pc == IF index = {} THEN "unindex" ELSE "delete"
  <2>0. pc \in Onward
    BY <1>on
  <2>. DEFINE c == [call[r] EXCEPT !.pc = pc, !.seen = index]
  <2>1. Becomes(r, c) /\ call[r].pc # "done"
    BY <1>17 DEF ListSessions, At
  <2>. HIDE DEF pc
  <2>2. c.pc = pc /\ c.op = call[r].op /\ c.used = call[r].used
    BY <1>0 DEF Calls
  <2>. HIDE DEF c
  <2>. QED  BY <2>0, <2>1, <2>2, <1>0, QuietOnward
<1>18. CASE DeleteSessions(r)
  <2>. DEFINE c == [call[r] EXCEPT !.pc = "unindex", !.seen = {}]
  <2>1. Becomes(r, c) /\ call[r].pc # "done"
    BY <1>18 DEF DeleteSessions, At
  <2>2. c.pc = "unindex" /\ c.op = call[r].op /\ c.used = call[r].used
    BY <1>0 DEF Calls
  <2>. HIDE DEF c
  <2>. QED  BY <2>1, <2>2, <1>0, <1>on, QuietOnward
<1>. QED  BY <1>1, <1>2, <1>3, <1>4, <1>5, <1>6, <1>7, <1>8, <1>9, <1>10, <1>11, <1>12,
         <1>13, <1>14, <1>15, <1>16, <1>17, <1>18 DEF Handler, Rotate

------------------------------------------------------------------------------
(* What a step does to the records.                                           *)

\* No session gets a record, and none another secret.
Tame ==
  \A s \in Request : session'[s] # Null => s \in Live /\ session'[s].secret = session[s].secret

LEMMA TameSame == ASSUME session' = session PROVE Tame
BY DEF Tame, Live

LEMMA TameWithout ==
  ASSUME StoreOK, NEW gone, Without(gone)
  PROVE  Tame
BY DEF StoreOK, Without, Tame, Live

LEMMA TameSelect ==
  ASSUME StoreOK, NEW s \in Request, session[s] # Null, NEW org, NEW role, NEW era,
         Select(s, org, role, era)
  PROVE  Tame
<1>1. session[s] \in Record
  BY DEF StoreOK
<1>2. [session[s] EXCEPT !.org = org, !.role = role, !.era = era].secret = session[s].secret
  BY <1>1 DEF Record
<1>3. session' = [session EXCEPT ![s] = [session[s] EXCEPT !.org = org, !.role = role, !.era = era]]
  BY <1>1 DEF Select, StoreOK
<1>. QED  BY <1>2, <1>3 DEF StoreOK, Tame, Live

\* A handler that draws no secret ends sessions at most.
LEMMA HandlerTame ==
  ASSUME TypeInv, NEW r \in Request, Handler(r), ~CreateSession(r),
         ~(Rotate(r) /\ session[call[r].sid] # Null /\ Current(r))
  PROVE  Tame /\ born' = born
<1>0. StoreOK /\ call[r] \in Calls /\ Aimed(call[r])
  BY DEF TypeInv, CallsInv, CallsOK, CallsAimed
<1>1. born' = born
  BY DEF Handler, Login, ReadMemberships, Refresh, Rotate, Reread, CheckTenant, ClearTenant, Logout,
       Look, Unlist, Drop, Switch, Identify, Choose, Activate, Forgot, RevokeLinks, MintLink, Reset,
       CommitReset, ChangeRole, UpdateRole, ListSessions, DeleteSessions, DropIndex, CallFails
<1>2. CASE ClearTenant(r)
  <2>1. call[r].sid \in Request
    BY <1>2, <1>0 DEF ClearTenant, At, Aimed, OnSession
  <2>. QED  BY <2>1, <1>0, <1>1, <1>2, TameSame, TameSelect DEF ClearTenant
<1>3. CASE Activate(r)
  <2>1. call[r].sid \in Request
    BY <1>3, <1>0 DEF Activate, At, Aimed, OnSession
  <2>. QED  BY <2>1, <1>0, <1>1, <1>3, TameSame, TameSelect DEF Activate
<1>4. CASE DeleteSessions(r)
  BY <1>4, <1>0, <1>1, TameWithout DEF DeleteSessions
<1>5. CASE Drop(r)
  BY <1>5, <1>0, <1>1 DEF Drop, StoreOK, Tame, Live
<1>6. CASE session' = session
  BY <1>6, <1>1, TameSame
<1>7. CASE Rotate(r)
  BY <1>7, <1>1, TameSame DEF Rotate
<1>. QED  BY <1>2, <1>3, <1>4, <1>5, <1>6, <1>7
     DEF Handler, Login, ReadMemberships, Refresh, Reread, CheckTenant, Logout, Look, Unlist,
       Switch, Identify, Choose, Forgot, RevokeLinks, MintLink, Reset, CommitReset, ChangeRole,
       UpdateRole, ListSessions, DropIndex, CallFails

LEMMA QuietShape ==
  ASSUME TypeInv, DrawnOnce, NEW r \in Request, Quiet(r), Tame, born' = born
  PROVE  DrawnOnce' /\ Keeps
<1>1. \A x \in Request : Minted(x)' <=> Minted(x)
  BY DEF Quiet, Minted
<1>2. DrawnOnce'
  BY DEF Quiet, DrawnOnce
<1>. QED  BY <1>1, <1>2 DEF Tame, Keeps

\* Opening a session draws the secret that the request names.
LEMMA CreateShape ==
  ASSUME TypeInv, DrawnOnce, NEW r \in Request, CreateSession(r), ~blocked
  PROVE  DrawnOnce' /\ Opens(r)
<1>. DEFINE new == [secret |-> r, org |-> call[r].org, role |-> call[r].role, era |-> call[r].era]
            c   == [call[r] EXCEPT !.pc = "done", !.out = "ok"]
<1>1. /\ session' = [session EXCEPT ![r] = new] /\ born' = [born EXCEPT ![r] = epoch]
      /\ call' = [call EXCEPT ![r] = c] /\ call[r].pc = "create"
  BY DEF CreateSession, Finish, Becomes, At
<1>2. call[r] \in Calls /\ call[r].op = "login" /\ born[r] = Null
  BY <1>1 DEF TypeInv, CallsInv, CallsOK, DrawnOnce, Healthy
<1>3. c.pc = "done" /\ c.op = "login"
  BY <1>2 DEF Calls
<1>4. new \in Record /\ new.secret = r
  BY <1>2 DEF Calls, Record
<1>5. epoch # Null /\ new # Null
  BY <1>4, NullAssumption DEF NullAssumption, TypeInv, DatabaseOK
<1>. HIDE DEF new, c
<1>6. call'[r] = c /\ \A q \in Request \ {r} : call'[q] = call[q]
  BY <1>1 DEF TypeInv, CallsInv, CallsOK
<1>7. /\ session'[r] = new /\ born'[r] = epoch
      /\ \A q \in Request \ {r} : session'[q] = session[q] /\ born'[q] = born[q]
  BY <1>1 DEF TypeInv, StoreOK
<1>8. Healthy(c)
  BY <1>3 DEF Healthy
<1>9. DrawnOnce'
  BY <1>3, <1>6, <1>7, <1>8 DEF DrawnOnce
<1>10. ~Minted(r)
  BY <1>2 DEF Minted
<1>11. OthersMinted(r)
  BY <1>6, <1>7 DEF OthersMinted, Minted
<1>. QED  BY <1>4, <1>5, <1>7, <1>9, <1>10, <1>11 DEF Opens

\* So does a refresh that the script accepts.
LEMMA RotateShape ==
  ASSUME TypeInv, DrawnOnce, NEW r \in Request, Rotate(r), session[call[r].sid] # Null, Current(r)
  PROVE  DrawnOnce' /\ Rotates(r, call[r].sid)
<1>. DEFINE s == call[r].sid
            c == [call[r] EXCEPT !.pc = "reread", !.used = TRUE]
            record == [session[s] EXCEPT !.secret = r]
<1>1. /\ call[r] \in Calls /\ s \in Request /\ call[r].pc = "rotate" /\ call[r].op = "refresh"
      /\ ~call[r].used /\ born[r] = Null
  BY DEF Rotate, At, Aimed, OnSession, TypeInv, CallsInv, CallsAimed, CallsOK, DrawnOnce, Healthy
<1>2. /\ session' = [session EXCEPT ![s].secret = r] /\ born' = born
      /\ call' = [call EXCEPT ![r] = c]
  BY DEF Rotate, Becomes
<1>3. c.pc = "reread" /\ c.op = "refresh" /\ c.used
  BY <1>1 DEF Calls
<1>4. session[s] \in Record
  BY <1>1 DEF TypeInv, StoreOK
<1>5. record \in Record /\ record.secret = r
  BY <1>4 DEF Record
<1>6. session' = [session EXCEPT ![s] = record]
  BY <1>2
<1>7. record # Null
  BY <1>5, NullAssumption DEF NullAssumption
<1>8. call'[r] = c /\ \A q \in Request \ {r} : call'[q] = call[q]
  BY <1>2 DEF TypeInv, CallsInv, CallsOK
<1>. HIDE DEF c, record
<1>9. session'[s] = record /\ \A t \in Request \ {s} : session'[t] = session[t]
  BY <1>1, <1>6 DEF TypeInv, StoreOK
<1>10. Healthy(c)
  BY <1>3 DEF Healthy
<1>11. DrawnOnce'
  BY <1>1, <1>2, <1>8, <1>10 DEF DrawnOnce
<1>12. ~Minted(r) /\ Minted(r)' /\ OthersMinted(r)
  BY <1>1, <1>2, <1>3, <1>8 DEF Minted, OthersMinted
<1>13. s \in Live
  BY <1>1 DEF Live
<1>. HIDE DEF s
<1>14. Rotates(r, s)
  BY <1>2, <1>5, <1>7, <1>9, <1>12, <1>13 DEF Rotates
<1>. QED  BY <1>11, <1>14 DEF s

LEMMA StepShape ==
  ASSUME TypeInv, DrawnOnce, [Next]_vars
  PROVE  DrawnOnce' /\ Shape
<1>1. ASSUME NEW r \in Request, Handler(r) PROVE DrawnOnce' /\ Shape
  <2>1. CASE CreateSession(r) /\ ~blocked
    BY <2>1, CreateShape DEF Shape
  <2>2. CASE Rotate(r) /\ session[call[r].sid] # Null /\ Current(r)
    <3>1. call[r].sid \in Request
      BY <2>2 DEF Rotate, At, Aimed, OnSession, TypeInv, CallsInv, CallsAimed
    <3>. QED  BY <3>1, <2>2, RotateShape DEF Shape
  <2>3. CASE CreateSession(r) /\ blocked
    <3>1. Finish(r, "failed") /\ session' = session /\ born' = born /\ call[r].pc = "create"
      BY <2>3 DEF CreateSession, At
    <3>2. Quiet(r)
      BY <3>1, QuietFinish DEF TypeInv
    <3>. QED  BY <3>1, <3>2, TameSame, QuietShape DEF Shape
  <2>4. CASE ~CreateSession(r) /\ ~(Rotate(r) /\ session[call[r].sid] # Null /\ Current(r))
    BY <2>4, <1>1, HandlerQuiet, HandlerTame, QuietShape DEF Shape
  <2>. QED  BY <2>1, <2>2, <2>3, <2>4
<1>2. ASSUME Tame, born' = born, call' = call PROVE DrawnOnce' /\ Shape
  <2>1. \A x \in Request : Minted(x)' <=> Minted(x)
    BY <1>2 DEF Minted
  <2>. QED  BY <2>1, <1>2 DEF DrawnOnce, Healthy, Tame, Keeps, Shape
<1>3. CASE Runner
  <2>1. born' = born /\ call' = call
    BY <1>3 DEF Runner, StartRollback, BlockSessions, SeedList, SeedDelete, SeedUnindex, DeleteUser,
         StartSeed, ReconcileUsers, ReconcileMemberships, VerifySeed, UnblockSessions, SeedFails
  <2>2. CASE SeedDelete
    BY <2>1, <2>2, <1>2, TameWithout DEF SeedDelete, TypeInv
  <2>3. CASE ~SeedDelete
    <3>1. session' = session
      BY <1>3, <2>3 DEF Runner, StartRollback, BlockSessions, SeedList, SeedUnindex, DeleteUser,
           StartSeed, ReconcileUsers, ReconcileMemberships, VerifySeed, UnblockSessions, SeedFails
    <3>. QED  BY <3>1, <2>1, <1>2, TameSame
  <2>. QED  BY <2>2, <2>3
<1>4. ASSUME NEW s \in Request, SessionExpires(s) PROVE DrawnOnce' /\ Shape
  BY <1>4, <1>2, TameWithout DEF SessionExpires, TypeInv
<1>5. CASE IndexExpires
  BY <1>5, <1>2, TameSame DEF IndexExpires
<1>6. ASSUME NEW o \in Org, Suspend(o) PROVE DrawnOnce' /\ Shape
  BY <1>6, <1>2, TameSame DEF Suspend
<1>7. CASE UNCHANGED vars
  BY <1>7, <1>2, TameSame DEF vars
<1>. QED  BY <1>1, <1>3, <1>4, <1>5, <1>6, <1>7 DEF Next

------------------------------------------------------------------------------
(* Each shape keeps the invariant.                                            *)

LEMMA ApartStep ==
  ASSUME TypeInv, StoreInv, Shape
  PROVE  SecretsApart'
<1>0. \A s \in Live : /\ s \in Request /\ session[s].secret \in Request
                      /\ born[s] # Null /\ Minted(session[s].secret)
  BY DEF Live, TypeInv, StoreOK, Record, StoreInv, SecretsApart
<1>distinct. \A s, t \in Live : session[s].secret = session[t].secret => s = t
  BY DEF StoreInv, SecretsApart
<1>live. \A s : s \in Live' <=> s \in Request /\ session'[s] # Null
  BY DEF Live
<1>apart. ASSUME \A s \in Live' :
                   born'[s] # Null /\ \E x \in Request : session'[s].secret = x /\ Minted(x)',
                 \A s, t \in Live' : session'[s].secret = session'[t].secret => s = t
          PROVE  SecretsApart'
  BY <1>apart DEF SecretsApart, Minted
<1>1. CASE Keeps
  <2>1. \A s \in Live' : s \in Live /\ session'[s].secret = session[s].secret
    BY <1>1, <1>live DEF Keeps
  <2>. QED  BY <2>1, <1>0, <1>1, <1>distinct, <1>apart DEF Keeps
<1>2. ASSUME NEW r \in Request, NEW s \in Request, Rotates(r, s) PROVE SecretsApart'
  <2>1. \A t \in Live' : t \in Live /\ session'[t].secret = IF t = s THEN r ELSE session[t].secret
    BY <1>2, <1>live DEF Rotates, Live
  <2>2. \A t \in Live : session[t].secret # r
    BY <1>2, <1>0 DEF Rotates
  <2>3. \A t \in Live' : born'[t] # Null /\ \E x \in Request : session'[t].secret = x /\ Minted(x)'
    BY <2>1, <2>2, <1>0, <1>2 DEF Rotates, OthersMinted
  <2>4. \A t, u \in Live' : session'[t].secret = session'[u].secret => t = u
    BY <2>1, <2>2, <1>distinct
  <2>. QED  BY <2>3, <2>4, <1>apart
<1>3. ASSUME NEW r \in Request, Opens(r) PROVE SecretsApart'
  <2>1. \A t \in Live' : /\ t # r => t \in Live /\ born'[t] = born[t]
                         /\ session'[t].secret = IF t = r THEN r ELSE session[t].secret
    BY <1>3, <1>live DEF Opens, Live
  <2>2. \A t \in Live : session[t].secret # r
    BY <1>3, <1>0 DEF Opens
  <2>3. Minted(r)'
    BY <1>3 DEF Opens, Minted
  <2>4. \A t \in Live' : born'[t] # Null /\ \E x \in Request : session'[t].secret = x /\ Minted(x)'
    BY <2>1, <2>2, <2>3, <1>0, <1>3 DEF Opens, OthersMinted
  <2>5. \A t, u \in Live' : session'[t].secret = session'[u].secret => t = u
    BY <2>1, <2>2, <1>distinct
  <2>. QED  BY <2>4, <2>5, <1>apart
<1>. QED  BY <1>1, <1>2, <1>3 DEF Shape

LEMMA StoreInit == Init => StoreInv
BY DEF Init, Waiting, StoreInv, DrawnOnce, SecretsApart, Healthy, Live

LEMMA StoreStep == TypeInv /\ StoreInv /\ [Next]_vars => StoreInv' /\ Shape
BY StepShape, ApartStep DEF StoreInv

LEMMA StoreSafe == Spec => [](TypeInv /\ StoreInv)
<1>1. TypeInv /\ StoreInv /\ [Next]_vars => (TypeInv /\ StoreInv)'
  BY TypeStep, StoreStep
<1>2. Init => TypeInv /\ StoreInv
  BY InitType, StoreInit
<1>. QED  BY <1>1, <1>2, PTL DEF Spec

------------------------------------------------------------------------------
(* The theorems.                                                              *)

\* No handler, however long before it read the session, brings back one that was
\* revoked or has expired.
THEOREM NoResurrection == Spec => DeadStaysDead
<1>1. ASSUME TypeInv, StoreInv, Shape
      PROVE  \A s \in Request : born[s] # Null /\ session[s] = Null => session'[s] = Null
  <2>1. CASE Keeps
    BY <2>1 DEF Keeps, Live
  <2>2. ASSUME NEW r \in Request, NEW s \in Request, Rotates(r, s)
        PROVE  \A t \in Request : session[t] = Null => session'[t] = Null
    BY <2>2 DEF Rotates, Live
  <2>3. ASSUME NEW r \in Request, Opens(r)
        PROVE  \A t \in Request : born[t] # Null /\ session[t] = Null => session'[t] = Null
    BY <2>3 DEF Opens, Minted
  <2>. QED  BY <1>1, <2>1, <2>2, <2>3 DEF Shape
<1>2. TypeInv /\ StoreInv /\ [Next]_vars =>
        [\A s \in Request : born[s] # Null /\ session[s] = Null => session'[s] = Null]_vars
  BY <1>1, StoreStep
<1>. QED  BY <1>2, StoreSafe, PTL DEF Spec, DeadStaysDead

\* The variables of SessionLife, by name.
LifeOf(s) == IF session[s] # Null THEN "live" ELSE IF born[s] = Null THEN "unborn" ELSE "dead"
SecretOf(s) == IF session[s] # Null THEN session[s].secret ELSE s
life == [s \in Request |-> LifeOf(s)]
current == [s \in Request |-> SecretOf(s)]
spent == {x \in Request : Minted(x) /\ \A s \in Live : session[s].secret # x}

LEMMA LifeLive == Life!Live = Live
BY DEF Life!Live, Live

LEMMA LifeUnused ==
  ASSUME StoreInv, NEW x \in Request, ~Minted(x)
  PROVE  Life!Unused(x)
<1>1. \A s \in Live : session[s].secret # x
  BY DEF StoreInv, SecretsApart
<1>. QED  BY <1>1, LifeLive DEF Life!Unused, Live

\* A session's life, and its secret, step by step.
LEMMA EndStep ==
  ASSUME TypeInv, StoreInv, Keeps
  PROVE  Life!Next
<1>gone. PICK gone \in SUBSET Request : gone = {s \in Live : session'[s] = Null}
  BY DEF Live
<1>0. /\ \A s \in Live : s \in Request /\ session[s] # Null /\ born[s] # Null
      /\ \A s \in Live : session[s].secret \in Request /\ Minted(session[s].secret)
      /\ \A s, t \in Live : session[s].secret = session[t].secret => s = t
  BY DEF Live, TypeInv, StoreOK, Record, StoreInv, SecretsApart
<1>live. \A s : s \in Live' <=> s \in Live \ gone
  BY <1>0, <1>gone DEF Live, Keeps
<1>1. gone \subseteq Life!Live
  BY <1>gone, LifeLive
<1>2. life' = [s \in Request |-> IF s \in gone THEN "dead" ELSE life[s]]
  <2>1. \A s \in Request : LifeOf(s)' = IF s \in gone THEN "dead" ELSE LifeOf(s)
    BY <1>0, <1>gone DEF Keeps, LifeOf, Live
  <2>. QED  BY <2>1 DEF life
<1>3. current' = [s \in Request |-> IF s \in gone THEN s ELSE current[s]]
  <2>1. \A s \in Request : SecretOf(s)' = IF s \in gone THEN s ELSE SecretOf(s)
    BY <1>0, <1>gone DEF Keeps, SecretOf, Live
  <2>. QED  BY <2>1 DEF current
<1>4. spent' = spent \cup {current[s] : s \in gone}
  <2>1. \A s \in gone : s \in Live /\ current[s] = session[s].secret
    BY <1>0, <1>gone DEF current, SecretOf
  <2>2. \A s \in Live' : session'[s].secret = session[s].secret
    BY <1>live DEF Keeps, Live
  <2>3. \A x \in Request : Minted(x)' <=> Minted(x)
    BY DEF Keeps
  <2>4. ASSUME NEW x \in spent' PROVE x \in spent \cup {current[s] : s \in gone}
    <3>1. x \in Request /\ Minted(x) /\ \A s \in Live' : session[s].secret # x
      BY <2>2, <2>3, <2>4 DEF spent
    <3>2. CASE \E s \in Live : session[s].secret = x
      BY <3>1, <3>2, <2>1, <1>live
    <3>3. CASE \A s \in Live : session[s].secret # x
      BY <3>1, <3>3 DEF spent
    <3>. QED  BY <3>2, <3>3
  <2>5. ASSUME NEW x \in spent \cup {current[s] : s \in gone} PROVE x \in spent'
    <3>1. x \in Request /\ Minted(x)
      BY <2>1, <2>5, <1>0 DEF spent
    <3>2. \A s \in Live' : session[s].secret # x
      BY <2>1, <2>5, <1>0, <1>live DEF spent
    <3>. QED  BY <3>1, <3>2, <2>2, <2>3 DEF spent
  <2>. QED  BY <2>4, <2>5
<1>5. Life!End(gone)
  BY <1>1, <1>2, <1>3, <1>4 DEF Life!End, life, current, spent, LifeOf, SecretOf
<1>. QED  BY <1>5 DEF Life!Next

LEMMA RotateStep ==
  ASSUME TypeInv, StoreInv, NEW r \in Request, NEW s \in Request, Rotates(r, s)
  PROVE  Life!Next
<1>0. /\ \A t \in Live : t \in Request /\ session[t] # Null /\ born[t] # Null
      /\ \A t \in Live : session[t].secret \in Request /\ Minted(session[t].secret)
      /\ \A t, u \in Live : session[t].secret = session[u].secret => t = u
  BY DEF Live, TypeInv, StoreOK, Record, StoreInv, SecretsApart
<1>live. Live' = Live
  BY DEF Live, Rotates
<1>1. life[s] = "live" /\ Life!Unused(r)
  BY <1>0, LifeUnused DEF Rotates, life, LifeOf
<1>2. life' = life
  <2>1. \A t \in Request : LifeOf(t)' = LifeOf(t)
    BY <1>0 DEF Rotates, LifeOf
  <2>. QED  BY <2>1 DEF life
<1>3. current' = [current EXCEPT ![s] = r]
  <2>1. \A t \in Request : SecretOf(t)' = IF t = s THEN r ELSE SecretOf(t)
    BY <1>0 DEF Rotates, SecretOf
  <2>. QED  BY <2>1 DEF current
<1>4. spent' = spent \cup {current[s]}
  <2>1. current[s] = session[s].secret /\ s \in Live
    BY <1>0 DEF current, SecretOf, Rotates
  <2>2. session'[s].secret = r /\ \A t \in Live \ {s} : session'[t].secret = session[t].secret
    BY <1>0 DEF Rotates
  <2>3. \A x \in Request \ {r} : Minted(x)' <=> Minted(x)
    BY DEF Rotates, OthersMinted
  <2>4. ASSUME NEW x \in spent' PROVE x \in spent \cup {current[s]}
    <3>1. x \in Request /\ x # r /\ Minted(x) /\ \A t \in Live \ {s} : session[t].secret # x
      BY <1>live, <2>1, <2>2, <2>3, <2>4 DEF spent
    <3>. QED  BY <3>1, <2>1 DEF spent
  <2>5. ASSUME NEW x \in spent \cup {current[s]} PROVE x \in spent'
    <3>1. x \in Request /\ Minted(x)
      BY <2>1, <2>5, <1>0 DEF spent
    <3>2. x # r
      BY <3>1 DEF Rotates
    <3>3. \A t \in Live \ {s} : session[t].secret # x
      BY <2>1, <2>5, <1>0 DEF spent
    <3>. QED  BY <3>1, <3>2, <3>3, <1>live, <2>2, <2>3 DEF spent
  <2>. QED  BY <2>4, <2>5
<1>5. Life!Rotate(s, r)
  BY <1>1, <1>2, <1>3, <1>4 DEF Life!Rotate, life, current, spent, LifeOf, SecretOf
<1>. QED  BY <1>5 DEF Life!Next

LEMMA OpenStep ==
  ASSUME TypeInv, StoreInv, NEW r \in Request, Opens(r)
  PROVE  Life!Next
<1>0. /\ \A t \in Live : t \in Request /\ session[t] # Null /\ born[t] # Null
      /\ \A t \in Live : session[t].secret \in Request /\ Minted(session[t].secret)
  BY DEF Live, TypeInv, StoreOK, Record, StoreInv, SecretsApart
<1>r. born[r] = Null /\ session[r] = Null
  BY <1>0 DEF Opens, Minted, Live
<1>live. Live' = Live \cup {r}
  BY DEF Live, Opens
<1>1. life[r] = "unborn" /\ Life!Unused(r)
  BY <1>r, LifeUnused DEF Opens, life, LifeOf
<1>2. life' = [life EXCEPT ![r] = "live"]
  <2>1. \A t \in Request : LifeOf(t)' = IF t = r THEN "live" ELSE LifeOf(t)
    BY DEF Opens, LifeOf
  <2>. QED  BY <2>1 DEF life
<1>3. current' = [current EXCEPT ![r] = r]
  <2>1. \A t \in Request : SecretOf(t)' = IF t = r THEN r ELSE SecretOf(t)
    BY DEF Opens, SecretOf
  <2>. QED  BY <2>1 DEF current
<1>4. spent' = spent
  <2>1. /\ session'[r].secret = r /\ r \notin Live
        /\ \A t \in Live : session'[t].secret = session[t].secret
    BY <1>0, <1>r DEF Opens, Live
  <2>2. \A x \in Request \ {r} : Minted(x)' <=> Minted(x)
    BY DEF Opens, OthersMinted
  <2>3. r \notin spent /\ r \notin spent'
    BY <2>1, <1>live DEF spent, Opens
  <2>4. \A x \in Request \ {r} : x \in spent' <=> x \in spent
    BY <2>1, <2>2, <1>live DEF spent
  <2>. QED  BY <2>3, <2>4 DEF spent
<1>5. Life!Open(r)
  BY <1>1, <1>2, <1>3, <1>4 DEF Life!Open, life, current, spent, LifeOf, SecretOf
<1>. QED  BY <1>5 DEF Life!Next

\* The store refines SessionLife: a session lives once, and a refresh secret opens
\* it once, so a stolen secret that was used is recognised for ever.
THEOREM StoreLives == Spec => LivesOnce
<1>1. Init => Life!Init
  BY DEF Init, Waiting, Life!Init, Minted, Live
<1>2. TypeInv /\ StoreInv /\ [Next]_vars =>
        [Life!Next]_<<life, current, spent>>
  BY StoreStep, EndStep, RotateStep, OpenStep DEF Shape
<1>3. TypeInv /\ StoreInv /\ [Next]_vars =>
        [Life!Next]_<<[s \in Request |-> IF session[s] # Null THEN "live"
                                         ELSE IF born[s] = Null THEN "unborn" ELSE "dead"],
                      [s \in Request |-> IF session[s] # Null THEN session[s].secret ELSE s],
                      {x \in Request : Minted(x) /\ \A s \in Live : session[s].secret # x}>>
  BY <1>2 DEF life, current, spent, LifeOf, SecretOf
<1>. QED  BY <1>1, <1>3, StoreSafe, PTL DEF Spec, LivesOnce, Life!Spec

==============================================================================
