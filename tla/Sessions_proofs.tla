---------------------------- MODULE Sessions_proofs ----------------------------
(* Theorems about Sessions, for any requests, organizations, bounds and       *)
(* environment.                                                               *)
EXTENDS Sessions, TLAPS

------------------------------------------------------------------------------
(* Types.                                                                     *)

OnSession == {"rotate", "reread", "tenant", "clear", "look", "unlist", "drop", "identify",
              "choose", "activate"}

\* A handler that works on a session knows which; one about to write, what.
Aimed(c) ==
  /\ c.pc \in OnSession => c.sid \in Request
  /\ c.pc = "commit" => c.secret \in Request
  /\ c.pc = "update" => c.org \in Org /\ c.role \in Role

CallsAimed == \A r \in Request : Aimed(call[r])

CallsInv == CallsOK /\ CallsAimed

\* A handler that moves to a well-formed state leaves the others alone.
LEMMA BecomesTyped ==
  ASSUME CallsInv, NEW r \in Request, NEW c \in Calls, Aimed(c), Becomes(r, c)
  PROVE  CallsInv'
<1>1. CallsOK'
  BY DEF CallsInv, CallsOK, Becomes
<1>2. call'[r] = c /\ \A q \in Request : q # r => call'[q] = call[q]
  BY DEF CallsInv, CallsOK, Becomes
<1>3. Aimed(call[r])' <=> Aimed(c)
  BY <1>2 DEF Aimed
<1>4. \A q \in Request : q # r => (Aimed(call[q])' <=> Aimed(call[q]))
  BY <1>2 DEF Aimed
<1>. QED  BY <1>1, <1>3, <1>4 DEF CallsInv, CallsAimed

\* Only a handler that has a session goes on to work on it.
LEMMA GotoTyped ==
  ASSUME CallsInv, NEW r \in Request, NEW pc \in Pc, pc \notin {"commit", "update"},
         pc \in OnSession => call[r].pc \in OnSession, Goto(r, pc)
  PROVE  CallsInv'
<1>. DEFINE c == [call[r] EXCEPT !.pc = pc]
<1>0. call[r] \in Calls /\ Aimed(call[r])
  BY DEF CallsInv, CallsOK, CallsAimed
<1>1. c \in Calls
  BY <1>0, Zenon DEF Calls
<1>2. c.pc = pc /\ c.sid = call[r].sid
  BY <1>0 DEF Calls
<1>3. Becomes(r, c)
  BY DEF Goto
<1>. HIDE DEF c
<1>4. Aimed(c)
  BY <1>0, <1>2 DEF Aimed
<1>. QED  BY <1>1, <1>3, <1>4, BecomesTyped

LEMMA FinishTyped ==
  ASSUME CallsInv, NEW r \in Request, NEW out \in Out, Finish(r, out)
  PROVE  CallsInv'
<1>. DEFINE c == [call[r] EXCEPT !.pc = "done", !.out = out]
<1>0. call[r] \in Calls
  BY DEF CallsInv, CallsOK
<1>1. "done" \in Pc
  BY DEF Pc
<1>2. c \in Calls
  BY <1>0, <1>1, Zenon DEF Calls
<1>3. c.pc = "done"
  BY <1>0 DEF Calls
<1>4. Becomes(r, c)
  BY DEF Finish
<1>. HIDE DEF c
<1>5. Aimed(c)
  BY <1>3 DEF Aimed, OnSession
<1>. QED  BY <1>2, <1>4, <1>5, BecomesTyped

TypeInv == StoreOK /\ DatabaseOK /\ CallsInv /\ SeedOK

LEMMA InitType == Init => TypeInv
<1>. SUFFICES ASSUME Init PROVE TypeInv
  OBVIOUS
<1>1. StoreOK
  BY DEF Init, StoreOK
<1>2. DatabaseOK
  BY RoleAssumption DEF RoleAssumption, Init, DatabaseOK
<1>3. Waiting \in Calls /\ Aimed(Waiting)
  BY DEF Waiting, Calls, Pc, Out, Aimed, OnSession
<1>4. CallsInv
  BY <1>3 DEF Init, CallsInv, CallsOK, CallsAimed
<1>5. SeedOK
  BY DEF Init, SeedOK, SeedPc
<1>. QED  BY <1>1, <1>2, <1>4, <1>5 DEF TypeInv

\* What a handler does to its own state.
LEMMA HandlerCalls ==
  ASSUME TypeInv, NEW r \in Request, Handler(r)
  PROVE  CallsInv'
<1>0. /\ CallsInv /\ call[r] \in Calls /\ Aimed(call[r]) /\ epoch \in Nat
      /\ index \in SUBSET Request /\ member \in [Org -> Role \cup {Null}]
      /\ held \in SUBSET (Request \X Request) /\ session \in [Request -> Record \cup {Null}]
  BY DEF TypeInv, CallsInv, CallsOK, CallsAimed, StoreOK, DatabaseOK
<1>pc. Pc = {"new", "memberships", "create", "rotate", "reread", "tenant", "clear", "look",
             "unlist", "drop", "identify", "choose", "activate", "revoke", "mint", "commit",
             "update", "list", "delete", "unindex", "done"}
  BY DEF Pc
<1>out. "ok" \in Out /\ "failed" \in Out /\ "replay" \in Out
  BY DEF Out
<1>ops. Ops = {"login", "refresh", "logout", "switch", "forgot", "reset", "role"}
  BY DEF Ops
<1>failed. ASSUME Finish(r, "failed") PROVE CallsInv'
  BY <1>failed, <1>0, <1>out, FinishTyped
<1>ok. ASSUME Finish(r, "ok") PROVE CallsInv'
  BY <1>ok, <1>0, <1>out, FinishTyped
<1>1. CASE Login(r)
  <2>. DEFINE c == [call[r] EXCEPT !.op = "login", !.pc = "memberships"]
  <2>a. c \in Calls
    BY <1>0, <1>pc, <1>ops, <1>out, Zenon DEF Calls
  <2>b. Becomes(r, c)
    BY <1>1 DEF Login
  <2>c. c.pc = "memberships"
    BY <1>0 DEF Calls
  <2>. HIDE DEF c
  <2>d. Aimed(c)
    BY <2>c DEF Aimed, OnSession
  <2>. QED  BY <2>a, <2>b, <2>d, <1>0, BecomesTyped
<1>2. CASE ReadMemberships(r)
  <2>1. CASE Goto(r, "create")
    BY <2>1, <1>0, <1>pc, GotoTyped DEF OnSession
  <2>2. ASSUME NEW o \in Org,
               Becomes(r, [call[r] EXCEPT !.pc = "create", !.org = o, !.role = member[o],
                                          !.era = epoch])
        PROVE  CallsInv'
    <3>1. member[o] \in Role \cup {Null}
      BY <1>0
    <3>. DEFINE c == [call[r] EXCEPT !.pc = "create", !.org = o, !.role = member[o], !.era = epoch]
    <3>a. c \in Calls
      BY <3>1, <1>0, <1>pc, <1>ops, <1>out, Zenon DEF Calls
    <3>b. Becomes(r, c)
      BY <2>2
    <3>c. c.pc = "create"
      BY <1>0 DEF Calls
    <3>. HIDE DEF c
    <3>d. Aimed(c)
      BY <3>c DEF Aimed, OnSession
    <3>. QED  BY <3>a, <3>b, <3>d, <1>0, BecomesTyped
  <2>. QED  BY <2>1, <2>2, <1>2 DEF ReadMemberships
<1>3. CASE CreateSession(r)
  BY <1>3, <1>ok, <1>failed DEF CreateSession
<1>4. CASE Refresh(r)
  <2>1. PICK k \in held :
          Becomes(r, [call[r] EXCEPT !.op = "refresh", !.pc = "rotate", !.sid = k[1],
                                     !.secret = k[2]])
    BY <1>4 DEF Refresh
  <2>2. k[1] \in Request /\ k[2] \in Request
    BY <1>0
  <2>. DEFINE c == [call[r] EXCEPT !.op = "refresh", !.pc = "rotate", !.sid = k[1], !.secret = k[2]]
  <2>a. c \in Calls
    BY <2>2, <1>0, <1>pc, <1>ops, <1>out, Zenon DEF Calls
  <2>b. Becomes(r, c)
    BY <2>1
  <2>c. c.pc = "rotate" /\ c.sid = k[1]
    BY <1>0 DEF Calls
  <2>. HIDE DEF c
  <2>d. Aimed(c)
    BY <2>c, <2>2 DEF Aimed, OnSession
  <2>. QED  BY <2>a, <2>b, <2>d, <1>0, BecomesTyped
<1>5. CASE Rotate(r)
  <2>0. call[r].sid \in Request
    BY <1>0, <1>5 DEF Rotate, At, Aimed, OnSession
  <2>1. CASE Finish(r, "failed")
    BY <2>1, <1>failed
  <2>2. CASE Becomes(r, [call[r] EXCEPT !.pc = "reread", !.used = TRUE])
    <3>. DEFINE c == [call[r] EXCEPT !.pc = "reread", !.used = TRUE]
    <3>a. c \in Calls
      BY <1>0, <1>pc, <1>ops, <1>out, Zenon DEF Calls
    <3>b. Becomes(r, c)
      BY <2>2
    <3>c. c.pc = "reread" /\ c.sid = call[r].sid
      BY <1>0 DEF Calls
    <3>. HIDE DEF c
    <3>d. Aimed(c)
      BY <3>c, <2>0 DEF Aimed, OnSession
    <3>. QED  BY <3>a, <3>b, <3>d, <1>0, BecomesTyped
  <2>3. CASE Becomes(r, [call[r] EXCEPT !.pc = "look", !.out = "replay"])
    <3>. DEFINE c == [call[r] EXCEPT !.pc = "look", !.out = "replay"]
    <3>a. c \in Calls
      BY <1>0, <1>pc, <1>ops, <1>out, Zenon DEF Calls
    <3>b. Becomes(r, c)
      BY <2>3
    <3>c. c.pc = "look" /\ c.sid = call[r].sid
      BY <1>0 DEF Calls
    <3>. HIDE DEF c
    <3>d. Aimed(c)
      BY <3>c, <2>0 DEF Aimed, OnSession
    <3>. QED  BY <3>a, <3>b, <3>d, <1>0, BecomesTyped
  <2>. QED  BY <2>1, <2>2, <2>3, <1>5 DEF Rotate
<1>6. CASE Reread(r)
  <2>. DEFINE record == session[call[r].sid]
  <2>0. call[r].sid \in Request
    BY <1>0, <1>6 DEF Reread, At, Aimed, OnSession
  <2>1. CASE Finish(r, "failed") \/ Deliver(r)
    BY <2>1, <1>failed, <1>ok DEF Deliver
  <2>2. ASSUME record # Null,
               Becomes(r, [call[r] EXCEPT !.pc = "tenant", !.org = record.org, !.era = record.era])
        PROVE  CallsInv'
    <3>1. record.org \in Org \cup {Null} /\ record.era \in Nat
      BY <2>0, <2>2, <1>0 DEF Record
    <3>2. Becomes(r, [call[r] EXCEPT !.pc = "tenant", !.org = record.org, !.era = record.era])
      BY <2>2
    <3>. HIDE DEF record
    <3>. DEFINE c == [call[r] EXCEPT !.pc = "tenant", !.org = record.org, !.era = record.era]
    <3>a. c \in Calls
      BY <3>1, <1>0, <1>pc, <1>ops, <1>out, Zenon DEF Calls
    <3>b. Becomes(r, c)
      BY <3>2
    <3>c. c.pc = "tenant" /\ c.sid = call[r].sid
      BY <1>0 DEF Calls
    <3>. HIDE DEF c
    <3>d. Aimed(c)
      BY <3>c, <2>0 DEF Aimed, OnSession
    <3>. QED  BY <3>a, <3>b, <3>d, <1>0, BecomesTyped
  <2>. QED  BY <2>1, <2>2, <1>6 DEF Reread
<1>7. CASE CheckTenant(r)
  <2>1. CASE Goto(r, "clear")
    BY <2>1, <1>7, <1>0, <1>pc, GotoTyped DEF CheckTenant, At, OnSession
  <2>. QED  BY <2>1, <1>7, <1>ok DEF CheckTenant, Deliver
<1>8. CASE ClearTenant(r)
  BY <1>8, <1>ok, <1>failed DEF ClearTenant, Deliver
<1>9. CASE Logout(r)
  <2>1. PICK k \in held : Becomes(r, [call[r] EXCEPT !.op = "logout", !.pc = "look", !.sid = k[1]])
    BY <1>9 DEF Logout
  <2>2. k[1] \in Request /\ k[2] \in Request
    BY <1>0
  <2>. DEFINE c == [call[r] EXCEPT !.op = "logout", !.pc = "look", !.sid = k[1]]
  <2>a. c \in Calls
    BY <2>2, <1>0, <1>pc, <1>ops, <1>out, Zenon DEF Calls
  <2>b. Becomes(r, c)
    BY <2>1
  <2>c. c.pc = "look" /\ c.sid = k[1]
    BY <1>0 DEF Calls
  <2>. HIDE DEF c
  <2>d. Aimed(c)
    BY <2>c, <2>2 DEF Aimed, OnSession
  <2>. QED  BY <2>a, <2>b, <2>d, <1>0, BecomesTyped
<1>10. CASE Look(r)
  <2>. DEFINE pc == IF session[call[r].sid] = Null THEN "drop" ELSE "unlist"
  <2>1. pc \in {"drop", "unlist"} /\ Goto(r, pc) /\ call[r].pc = "look"
    BY <1>10 DEF Look, At
  <2>. HIDE DEF pc
  <2>. QED  BY <2>1, <1>0, <1>pc, GotoTyped DEF OnSession
<1>11. CASE Unlist(r)
  BY <1>11, <1>0, <1>pc, GotoTyped DEF Unlist, At, OnSession
<1>12. CASE Drop(r)
  <2>1. Finish(r, "replay") \/ Finish(r, "ok")
    BY <1>12 DEF Drop
  <2>. QED  BY <2>1, <1>ok, <1>0, <1>out, FinishTyped
<1>13. CASE Switch(r)
  <2>1. PICK k \in held :
          Becomes(r, [call[r] EXCEPT !.op = "switch", !.pc = "identify", !.sid = k[1]])
    BY <1>13 DEF Switch
  <2>2. k[1] \in Request /\ k[2] \in Request
    BY <1>0
  <2>. DEFINE c == [call[r] EXCEPT !.op = "switch", !.pc = "identify", !.sid = k[1]]
  <2>a. c \in Calls
    BY <2>2, <1>0, <1>pc, <1>ops, <1>out, Zenon DEF Calls
  <2>b. Becomes(r, c)
    BY <2>1
  <2>c. c.pc = "identify" /\ c.sid = k[1]
    BY <1>0 DEF Calls
  <2>. HIDE DEF c
  <2>d. Aimed(c)
    BY <2>c, <2>2 DEF Aimed, OnSession
  <2>. QED  BY <2>a, <2>b, <2>d, <1>0, BecomesTyped
<1>14. CASE Identify(r)
  <2>1. CASE Goto(r, "choose")
    BY <2>1, <1>14, <1>0, <1>pc, GotoTyped DEF Identify, At, OnSession
  <2>. QED  BY <2>1, <1>14, <1>failed DEF Identify
<1>15. CASE Choose(r)
  <2>0. call[r].sid \in Request
    BY <1>0, <1>15 DEF Choose, At, Aimed, OnSession
  <2>1. ASSUME NEW o \in Org,
               Becomes(r, [call[r] EXCEPT !.pc = "activate", !.org = o, !.role = member[o],
                                          !.era = epoch])
        PROVE  CallsInv'
    <3>1. member[o] \in Role \cup {Null}
      BY <1>0
    <3>. DEFINE c == [call[r] EXCEPT !.pc = "activate", !.org = o, !.role = member[o],
                                     !.era = epoch]
    <3>a. c \in Calls
      BY <3>1, <1>0, <1>pc, <1>ops, <1>out, Zenon DEF Calls
    <3>b. Becomes(r, c)
      BY <2>1
    <3>c. c.pc = "activate" /\ c.sid = call[r].sid
      BY <1>0 DEF Calls
    <3>. HIDE DEF c
    <3>d. Aimed(c)
      BY <3>c, <2>0 DEF Aimed, OnSession
    <3>. QED  BY <3>a, <3>b, <3>d, <1>0, BecomesTyped
  <2>. QED  BY <2>1, <1>15, <1>failed DEF Choose
<1>16. CASE Activate(r)
  BY <1>16, <1>ok, <1>failed DEF Activate
<1>17. CASE Forgot(r)
  <2>. DEFINE c == [call[r] EXCEPT !.op = "forgot", !.pc = "revoke"]
  <2>a. c \in Calls
    BY <1>0, <1>pc, <1>ops, <1>out, Zenon DEF Calls
  <2>b. Becomes(r, c)
    BY <1>17 DEF Forgot
  <2>c. c.pc = "revoke"
    BY <1>0 DEF Calls
  <2>. HIDE DEF c
  <2>d. Aimed(c)
    BY <2>c DEF Aimed, OnSession
  <2>. QED  BY <2>a, <2>b, <2>d, <1>0, BecomesTyped
<1>18. CASE RevokeLinks(r)
  BY <1>18, <1>0, <1>pc, GotoTyped DEF RevokeLinks, OnSession
<1>19. CASE MintLink(r)
  BY <1>19, <1>ok, <1>failed DEF MintLink
<1>20. CASE Reset(r)
  <2>1. PICK l \in Request :
          Becomes(r, [call[r] EXCEPT !.op = "reset", !.pc = "commit", !.secret = l])
    BY <1>20 DEF Reset
  <2>. DEFINE c == [call[r] EXCEPT !.op = "reset", !.pc = "commit", !.secret = l]
  <2>a. c \in Calls
    BY <1>0, <1>pc, <1>ops, <1>out, Zenon DEF Calls
  <2>b. Becomes(r, c)
    BY <2>1
  <2>c. c.pc = "commit" /\ c.secret = l
    BY <1>0 DEF Calls
  <2>. HIDE DEF c
  <2>d. Aimed(c)
    BY <2>c DEF Aimed, OnSession
  <2>. QED  BY <2>a, <2>b, <2>d, <1>0, BecomesTyped
<1>21. CASE CommitReset(r)
  <2>1. CASE Becomes(r, [call[r] EXCEPT !.pc = "list", !.old = Live, !.used = TRUE])
    <3>1. Live \in SUBSET Request
      BY DEF Live
    <3>. DEFINE c == [call[r] EXCEPT !.pc = "list", !.old = Live, !.used = TRUE]
    <3>a. c \in Calls
      BY <3>1, <1>0, <1>pc, <1>ops, <1>out, Zenon DEF Calls
    <3>b. Becomes(r, c)
      BY <2>1
    <3>c. c.pc = "list"
      BY <1>0 DEF Calls
    <3>. HIDE DEF c
    <3>d. Aimed(c)
      BY <3>c DEF Aimed, OnSession
    <3>. QED  BY <3>a, <3>b, <3>d, <1>0, BecomesTyped
  <2>. QED  BY <2>1, <1>21, <1>failed DEF CommitReset
<1>22. CASE ChangeRole(r)
  <2>1. PICK o \in Org, role \in Role \ {Owner} :
          Becomes(r, [call[r] EXCEPT !.op = "role", !.pc = "update", !.org = o, !.role = role,
                                     !.era = epoch])
    BY <1>22 DEF ChangeRole
  <2>. DEFINE c == [call[r] EXCEPT !.op = "role", !.pc = "update", !.org = o, !.role = role,
                                   !.era = epoch]
  <2>a. c \in Calls
    BY <1>0, <1>pc, <1>ops, <1>out, Zenon DEF Calls
  <2>b. Becomes(r, c)
    BY <2>1
  <2>c. c.pc = "update" /\ c.org = o /\ c.role = role
    BY <1>0 DEF Calls
  <2>. HIDE DEF c
  <2>d. Aimed(c)
    BY <2>c DEF Aimed, OnSession
  <2>. QED  BY <2>a, <2>b, <2>d, <1>0, BecomesTyped
<1>23. CASE UpdateRole(r)
  <2>1. CASE Becomes(r, [call[r] EXCEPT !.pc = "list", !.old = Live])
    <3>1. Live \in SUBSET Request
      BY DEF Live
    <3>. DEFINE c == [call[r] EXCEPT !.pc = "list", !.old = Live]
    <3>a. c \in Calls
      BY <3>1, <1>0, <1>pc, <1>ops, <1>out, Zenon DEF Calls
    <3>b. Becomes(r, c)
      BY <2>1
    <3>c. c.pc = "list"
      BY <1>0 DEF Calls
    <3>. HIDE DEF c
    <3>d. Aimed(c)
      BY <3>c DEF Aimed, OnSession
    <3>. QED  BY <3>a, <3>b, <3>d, <1>0, BecomesTyped
  <2>. QED  BY <2>1, <1>23, <1>failed DEF UpdateRole
<1>24. CASE ListSessions(r)
  <2>. DEFINE pc == IF index = {} THEN "unindex" ELSE "delete"
  <2>1. pc \in {"unindex", "delete"} /\ Becomes(r, [call[r] EXCEPT !.pc = pc, !.seen = index])
    BY <1>24 DEF ListSessions
  <2>. HIDE DEF pc
  <2>. DEFINE c == [call[r] EXCEPT !.pc = pc, !.seen = index]
  <2>a. c \in Calls
    BY <2>1, <1>0, <1>pc, <1>ops, <1>out, Zenon DEF Calls
  <2>b. Becomes(r, c)
    BY <2>1
  <2>c. c.pc = pc
    BY <1>0 DEF Calls
  <2>. HIDE DEF c
  <2>d. Aimed(c)
    BY <2>c, <2>1 DEF Aimed, OnSession
  <2>. QED  BY <2>a, <2>b, <2>d, <1>0, BecomesTyped
<1>25. CASE DeleteSessions(r)
  <2>. DEFINE c == [call[r] EXCEPT !.pc = "unindex", !.seen = {}]
  <2>a. c \in Calls
    BY <1>0, <1>pc, <1>ops, <1>out, Zenon DEF Calls
  <2>b. Becomes(r, c)
    BY <1>25 DEF DeleteSessions
  <2>c. c.pc = "unindex"
    BY <1>0 DEF Calls
  <2>. HIDE DEF c
  <2>d. Aimed(c)
    BY <2>c DEF Aimed, OnSession
  <2>. QED  BY <2>a, <2>b, <2>d, <1>0, BecomesTyped
<1>26. CASE DropIndex(r)
  BY <1>26, <1>ok DEF DropIndex
<1>27. CASE CallFails(r)
  BY <1>27, <1>failed DEF CallFails
<1>. QED  BY <1>1, <1>2, <1>3, <1>4, <1>5, <1>6, <1>7, <1>8, <1>9, <1>10, <1>11, <1>12,
         <1>13, <1>14, <1>15, <1>16, <1>17, <1>18, <1>19, <1>20, <1>21, <1>22, <1>23, <1>24,
         <1>25, <1>26, <1>27 DEF Handler

\* A record rewritten by a script stays a record.
LEMMA SelectTyped ==
  ASSUME StoreOK, NEW s \in Request, session[s] # Null, NEW org \in Org \cup {Null},
         NEW role \in Role \cup {Null}, NEW era \in Nat, Select(s, org, role, era)
  PROVE  session' \in [Request -> Record \cup {Null}]
<1>1. session[s] \in Record
  BY DEF StoreOK
<1>2. [session[s] EXCEPT !.org = org, !.role = role, !.era = era] \in Record
  BY <1>1 DEF Record
<1>3. session' = [session EXCEPT ![s] = [session[s] EXCEPT !.org = org, !.role = role, !.era = era]]
  BY <1>1 DEF Select, StoreOK
<1>. QED  BY <1>2, <1>3 DEF StoreOK

LEMMA WithoutTyped ==
  ASSUME StoreOK, NEW gone, Without(gone)
  PROVE  session' \in [Request -> Record \cup {Null}]
BY DEF StoreOK, Without

\* What a handler does to Redis.
LEMMA HandlerStore ==
  ASSUME TypeInv, NEW r \in Request, Handler(r)
  PROVE  StoreOK'
<1>0. /\ StoreOK /\ call[r] \in Calls /\ Aimed(call[r]) /\ epoch \in Nat
  BY DEF TypeInv, CallsInv, CallsOK, CallsAimed, StoreOK, DatabaseOK
<1>same. ASSUME UNCHANGED <<session, index, held, born, blocked>> PROVE StoreOK'
  BY <1>same, <1>0 DEF StoreOK
<1>1. CASE Login(r) \/ ReadMemberships(r) \/ Refresh(r) \/ Logout(r) \/ Look(r) \/ Switch(r)
           \/ Identify(r) \/ Choose(r) \/ Forgot(r) \/ Reset(r) \/ ChangeRole(r)
           \/ ListSessions(r) \/ CallFails(r)
  BY <1>1, <1>same DEF Login, ReadMemberships, Refresh, Logout, Look, Switch, Identify, Choose,
       Forgot, Reset, ChangeRole, ListSessions, CallFails, rest
<1>2. CASE RevokeLinks(r) \/ MintLink(r) \/ CommitReset(r) \/ UpdateRole(r)
  BY <1>2, <1>same DEF RevokeLinks, MintLink, CommitReset, UpdateRole
<1>3. CASE CreateSession(r)
  <2>. DEFINE new == [secret |-> r, org |-> call[r].org, role |-> call[r].role, era |-> call[r].era]
  <2>1. new \in Record
    BY <1>0 DEF Calls, Record
  <2>2. CASE blocked
    BY <2>2, <1>3, <1>same DEF CreateSession, rest
  <2>3. CASE ~blocked
    <3>1. /\ session' = [session EXCEPT ![r] = new] /\ index' = index \cup {r}
          /\ born' = [born EXCEPT ![r] = epoch] /\ held' = held \cup {<<r, r>>}
          /\ blocked' = blocked
      BY <2>3, <1>3 DEF CreateSession, rest
    <3>. HIDE DEF new
    <3>. QED  BY <3>1, <2>1, <1>0 DEF StoreOK
  <2>. QED  BY <2>2, <2>3
<1>4. CASE Rotate(r)
  <2>0. call[r].sid \in Request /\ blocked' = blocked
    BY <1>4, <1>0 DEF Rotate, At, Aimed, OnSession, rest
  <2>. DEFINE s == call[r].sid
  <2>1. CASE session' = session
    BY <2>0, <2>1, <1>4, <1>same DEF Rotate
  <2>2. CASE session[s] # Null /\ session' = [session EXCEPT ![s].secret = r]
    <3>1. session[s] \in Record
      BY <2>0, <2>2, <1>0 DEF StoreOK
    <3>2. [session[s] EXCEPT !.secret = r] \in Record
      BY <3>1 DEF Record
    <3>3. session' \in [Request -> Record \cup {Null}]
      BY <2>2, <3>2, <2>0, <1>0 DEF StoreOK
    <3>. QED  BY <3>3, <2>0, <1>4, <1>0 DEF Rotate, StoreOK
  <2>. QED  BY <2>1, <2>2, <1>4 DEF Rotate
<1>delivered. ASSUME call[r].sid \in Request, session' \in [Request -> Record \cup {Null}],
                     UNCHANGED <<index, born, blocked>>, Deliver(r) \/ held' = held
              PROVE  StoreOK'
  BY <1>delivered, <1>0 DEF StoreOK, Deliver
<1>5. CASE Reread(r) \/ CheckTenant(r)
  <2>1. call[r].sid \in Request
    BY <1>5, <1>0 DEF Reread, CheckTenant, At, Aimed, OnSession
  <2>2. /\ session' \in [Request -> Record \cup {Null}] /\ UNCHANGED <<index, born, blocked>>
        /\ Deliver(r) \/ held' = held
    BY <1>5, <1>0 DEF Reread, CheckTenant, StoreOK, rest
  <2>. QED  BY <2>1, <2>2, <1>delivered
<1>6. CASE ClearTenant(r)
  <2>1. call[r].sid \in Request
    BY <1>6, <1>0 DEF ClearTenant, At, Aimed, OnSession
  <2>2. session' \in [Request -> Record \cup {Null}]
    BY <2>1, <1>6, <1>0, SelectTyped DEF ClearTenant, StoreOK
  <2>3. UNCHANGED <<index, born, blocked>> /\ (Deliver(r) \/ held' = held)
    BY <1>6 DEF ClearTenant, rest
  <2>. QED  BY <2>1, <2>2, <2>3, <1>delivered
<1>7. CASE Activate(r)
  <2>1. /\ call[r].sid \in Request /\ call[r].org \in Org \cup {Null}
        /\ call[r].role \in Role \cup {Null} /\ call[r].era \in Nat
    BY <1>7, <1>0 DEF Activate, At, Aimed, OnSession, Calls
  <2>2. session' \in [Request -> Record \cup {Null}]
    BY <2>1, <1>7, <1>0, SelectTyped DEF Activate, StoreOK
  <2>. QED  BY <2>2, <1>7, <1>0 DEF Activate, rest, StoreOK
<1>8. CASE Unlist(r) \/ DropIndex(r)
  BY <1>8, <1>0 DEF Unlist, DropIndex, rest, StoreOK
<1>9. CASE Drop(r) \/ DeleteSessions(r)
  <2>1. session' \in [Request -> Record \cup {Null}]
    BY <1>9, <1>0, WithoutTyped DEF Drop, DeleteSessions, StoreOK
  <2>. QED  BY <2>1, <1>9, <1>0 DEF Drop, DeleteSessions, rest, StoreOK
<1>. QED  BY <1>1, <1>2, <1>3, <1>4, <1>5, <1>6, <1>7, <1>8, <1>9 DEF Handler

\* What a handler does to the database.
LEMMA HandlerDatabase ==
  ASSUME TypeInv, NEW r \in Request, Handler(r)
  PROVE  DatabaseOK' /\ seed' = seed
<1>0. /\ DatabaseOK /\ call[r] \in Calls /\ Aimed(call[r])
  BY DEF TypeInv, CallsInv, CallsOK, CallsAimed
<1>1. CASE RevokeLinks(r) \/ MintLink(r) \/ CommitReset(r)
  BY <1>1, <1>0 DEF RevokeLinks, MintLink, CommitReset, DatabaseOK, tenancy
<1>2. CASE UpdateRole(r)
  <2>1. call[r].role \in Role
    BY <1>2, <1>0 DEF UpdateRole, At, Aimed
  <2>2. member' \in [Org -> Role \cup {Null}]
    BY <2>1, <1>2, <1>0 DEF UpdateRole, DatabaseOK
  <2>. QED  BY <2>2, <1>2, <1>0 DEF UpdateRole, DatabaseOK
<1>3. CASE UNCHANGED rest
  BY <1>3, <1>0 DEF rest, tenancy, DatabaseOK
<1>. QED  BY <1>1, <1>2, <1>3 DEF Handler, Login, ReadMemberships, CreateSession, Refresh, Rotate,
            Reread, CheckTenant, ClearTenant, Logout, Look, Unlist, Drop, Switch, Identify, Choose,
            Activate, Forgot, Reset, ChangeRole, ListSessions, DeleteSessions, DropIndex, CallFails

\* The seed runner.
LEMMA RunnerType ==
  ASSUME TypeInv, Runner
  PROVE  TypeInv'
<1>0. StoreOK /\ DatabaseOK /\ CallsInv /\ SeedOK
  BY DEF TypeInv
<1>calls. ASSUME call' = call PROVE CallsInv'
  BY <1>calls, <1>0 DEF CallsInv, CallsOK, CallsAimed, Aimed
<1>1. call' = call
  BY DEF Runner, StartRollback, BlockSessions, SeedList, SeedDelete, SeedUnindex, DeleteUser,
       StartSeed, ReconcileUsers, ReconcileMemberships, VerifySeed, UnblockSessions, SeedFails
<1>pc. SeedPc = {"idle", "block", "list", "delete", "unindex", "boundary", "users", "memberships",
                 "verify", "unblock"}
  BY DEF SeedPc
<1>2. ASSUME NEW pc \in SeedPc, SeedGoto(pc) PROVE SeedOK'
  BY <1>2, <1>0 DEF SeedGoto, SeedOK
<1>3. ASSUME NEW pc \in SeedPc, StartRun(pc) PROVE SeedOK'
  BY <1>3, <1>0 DEF StartRun, SeedOK
<1>4. SeedOK'
  <2>1. CASE StartRollback \/ StartSeed
    BY <2>1, <1>3, <1>pc DEF StartRollback, StartSeed
  <2>2. CASE BlockSessions \/ SeedDelete \/ ReconcileUsers \/ ReconcileMemberships
             \/ UnblockSessions \/ SeedFails
    BY <2>2, <1>2, <1>pc DEF BlockSessions, SeedDelete, ReconcileUsers, ReconcileMemberships,
         UnblockSessions, SeedFails
  <2>3. CASE VerifySeed
    BY <2>3, <1>2, <1>pc DEF VerifySeed
  <2>4. CASE SeedList
    BY <2>4, <1>0, <1>pc DEF SeedList, SeedOK, StoreOK
  <2>5. CASE SeedUnindex
    BY <2>5, <1>0, <1>pc DEF SeedUnindex, SeedOK
  <2>6. CASE DeleteUser
    BY <2>6, <1>0, <1>pc DEF DeleteUser, SeedOK
  <2>. QED  BY <2>1, <2>2, <2>3, <2>4, <2>5, <2>6 DEF Runner
<1>5. StoreOK'
  <2>1. CASE SeedDelete
    BY <2>1, <1>0, WithoutTyped DEF SeedDelete, StoreOK
  <2>. QED  BY <2>1, <1>0 DEF Runner, StoreOK, StartRollback, BlockSessions, SeedList, SeedUnindex,
              DeleteUser, StartSeed, ReconcileUsers, ReconcileMemberships, VerifySeed,
              UnblockSessions, SeedFails
<1>6. DatabaseOK'
  <2>1. CASE DeleteUser
    BY <2>1, <1>0 DEF DeleteUser, DatabaseOK
  <2>2. CASE ReconcileUsers
    BY <2>2, <1>0 DEF ReconcileUsers, DatabaseOK, tenancy
  <2>3. CASE ReconcileMemberships
    BY <2>3, <1>0, RoleAssumption DEF ReconcileMemberships, DatabaseOK, RoleAssumption
  <2>4. CASE UNCHANGED databases
    BY <2>4, <1>0 DEF databases, tenancy, DatabaseOK
  <2>. QED  BY <2>1, <2>2, <2>3, <2>4
      DEF Runner, StartRollback, BlockSessions, SeedList, SeedDelete,
              SeedUnindex, StartSeed, VerifySeed, UnblockSessions, SeedFails
<1>. QED  BY <1>1, <1>calls, <1>4, <1>5, <1>6 DEF TypeInv

LEMMA TypeStep == TypeInv /\ [Next]_vars => TypeInv'
<1>. SUFFICES ASSUME TypeInv, [Next]_vars PROVE TypeInv'
  OBVIOUS
<1>0. StoreOK /\ DatabaseOK /\ CallsInv /\ SeedOK
  BY DEF TypeInv
<1>1. ASSUME NEW r \in Request, Handler(r) PROVE TypeInv'
  <2>1. CallsInv' /\ StoreOK' /\ DatabaseOK' /\ seed' = seed
    BY <1>1, HandlerCalls, HandlerStore, HandlerDatabase
  <2>. QED  BY <2>1, <1>0 DEF TypeInv, SeedOK
<1>2. CASE Runner
  BY <1>2, RunnerType
<1>3. ASSUME call' = call, seed' = seed, StoreOK', DatabaseOK' PROVE TypeInv'
  BY <1>3, <1>0 DEF TypeInv, CallsInv, CallsOK, CallsAimed, Aimed, SeedOK
<1>4. ASSUME NEW s \in Request, SessionExpires(s) PROVE TypeInv'
  <2>1. session' \in [Request -> Record \cup {Null}]
    BY <1>4, <1>0, WithoutTyped DEF SessionExpires
  <2>. QED  BY <2>1, <1>4, <1>0, <1>3 DEF SessionExpires, StoreOK, DatabaseOK, rest, tenancy
<1>5. CASE IndexExpires
  BY <1>5, <1>0, <1>3 DEF IndexExpires, StoreOK, DatabaseOK, rest, tenancy
<1>6. ASSUME NEW o \in Org, Suspend(o) PROVE TypeInv'
  BY <1>6, <1>0, <1>3 DEF Suspend, StoreOK, DatabaseOK
<1>7. CASE UNCHANGED vars
  BY <1>7, <1>0, <1>3 DEF vars, StoreOK, DatabaseOK
<1>. QED  BY <1>1, <1>2, <1>4, <1>5, <1>6, <1>7 DEF Next

LEMMA Typed == Spec => []TypeInv
BY InitType, TypeStep, PTL DEF Spec

\* TypeOK holds in every reachable state.
THEOREM SessionsTypeCorrect == Spec => []TypeOK
<1>1. TypeInv => TypeOK
  BY DEF TypeInv, TypeOK, CallsInv
<1>. QED  BY <1>1, Typed, PTL
==============================================================================
