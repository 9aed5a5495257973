------------------------------- MODULE Sessions -------------------------------
(* The Redis sessions of one user: SessionService and its Lua scripts, the    *)
(* HTTP handlers that open, refresh, switch, end and revoke sessions, and the *)
(* seed runner, which deletes and recreates the user under the same id.       *)
(*                                                                            *)
(* One action is what happens between two awaits.  A handler is named by its  *)
(* request; the session id and the secret it draws are fresh, so the request  *)
(* names them too.                                                            *)
EXTENDS Naturals, FiniteSets

CONSTANTS
  Request,     \* HTTP requests, each served once
  Org,         \* the organizations the user belongs to
  Role,        \* MembershipRole
  Owner,       \* TENANT_OWNER, which changeRole neither takes nor gives
  SeedRole,    \* the membership the seed gives the user in each organization
  Bounds,      \* how many requests of each kind, and seed runs, there may be
  Environment, \* which of "errors", "expiry", "suspension", "crash" may happen
  Null

Ops == {"login", "refresh", "logout", "switch", "forgot", "reset", "role"}

\* SessionRecord, as far as handlers tell records apart.
Record == [secret : Request, org : Org \cup {Null}, role : Role \cup {Null}, era : Nat]

ASSUME NullAssumption ==
  /\ Null \notin Request /\ Null \notin Org /\ Null \notin Role
  /\ Null \notin Nat /\ Null \notin Record
ASSUME RoleAssumption == Owner \in Role /\ SeedRole \in [Org -> Role]
ASSUME BoundsAssumption == Bounds \in [Ops \cup {"seed"} -> Nat]

VARIABLES
  session,  \* auth:session:<id> -> the record, Null when there is no such key
  index,    \* auth:user-sessions:<userId>
  blocked,  \* auth:session-block:<userId> exists
  account,  \* the User row: "absent", "seeded" or "changed" (its password)
  member,   \* organization -> the user's role there, Null without a membership
  open,     \* organization -> it and the membership are both ACTIVE
  link,     \* password-reset token minted by a request -> its state
  held,     \* <<session, secret>> of every refresh cookie sent to a browser
  call,     \* request -> what its handler has reached and holds
  seed,     \* the seed runner (an advisory lock lets one process run)
  epoch,    \* how many times the User row was deleted (history)
  born      \* session -> epoch of its creation, Null before it (history)

vars == <<session, index, blocked, account, member, open, link, held, call, seed, epoch, born>>
tenancy == <<member, open>>
rest == <<blocked, account, tenancy, link, seed, epoch>>

Waiting == [op |-> "none", pc |-> "new", sid |-> Null, secret |-> Null, org |-> Null,
            role |-> Null, era |-> 0, seen |-> {}, old |-> {}, used |-> FALSE, out |-> "none"]

Init ==
  /\ session = [s \in Request |-> Null] /\ index = {} /\ blocked = FALSE
  /\ account = "seeded" /\ member = SeedRole /\ open = [o \in Org |-> TRUE]
  /\ link = [r \in Request |-> "none"] /\ held = {}
  /\ call = [r \in Request |-> Waiting]
  /\ seed = [pc |-> "idle", round |-> 1, seen |-> {}, runs |-> 0]
  /\ epoch = 0 /\ born = [s \in Request |-> Null]

Live == {s \in Request : session[s] # Null}

\* activeTenantMembershipWhere: the membership and its organization are ACTIVE.
Usable(o) == member[o] # Null /\ open[o]

\* A membership row is recreated with a new id, so its epoch tells it apart.
Valid(o, era) == Usable(o) /\ era = epoch

At(r, pc) == call[r].pc = pc
Becomes(r, next) == call' = [call EXCEPT ![r] = next]
Goto(r, pc) == Becomes(r, [call[r] EXCEPT !.pc = pc])
Finish(r, out) == Becomes(r, [call[r] EXCEPT !.pc = "done", !.out = out])

\* A new request of this kind, within its bound.
Arrives(r, op) ==
  /\ At(r, "new")
  /\ Cardinality({q \in Request : call[q].op = op}) < Bounds[op]

------------------------------------------------------------------------------
(* Login: AuthService.login, then SessionService.createSession.               *)

\* The user is found and the password verified; a failure changes nothing.
Login(r) ==
  /\ Arrives(r, "login") /\ account # "absent"
  /\ Becomes(r, [call[r] EXCEPT !.op = "login", !.pc = "memberships"])
  /\ UNCHANGED <<session, index, held, born, rest>>

\* The only usable membership, if there is only one, becomes the tenant.
ReadMemberships(r) ==
  /\ At(r, "memberships")
  /\ LET mine == {o \in Org : Usable(o)}
     IN  \/ /\ Cardinality(mine) # 1
            /\ Goto(r, "create")
         \/ \E o \in mine :
              /\ mine = {o}
              /\ Becomes(r, [call[r] EXCEPT !.pc = "create", !.org = o, !.role = member[o],
                                         !.era = epoch])
  /\ UNCHANGED <<session, index, held, born, rest>>

\* CREATE_SESSION_SCRIPT: the block check and the registration are one step.
CreateSession(r) ==
  /\ At(r, "create")
  /\ \/ /\ blocked
        /\ Finish(r, "failed")
        /\ UNCHANGED <<session, index, held, born>>
     \/ /\ ~blocked
        /\ session' = [session EXCEPT ![r] = [secret |-> r, org |-> call[r].org,
                                              role |-> call[r].role, era |-> call[r].era]]
        /\ index' = index \cup {r}
        /\ born' = [born EXCEPT ![r] = epoch]
        /\ held' = held \cup {<<r, r>>}
        /\ Finish(r, "ok")
  /\ UNCHANGED rest

------------------------------------------------------------------------------
(* Refresh: AuthController.refresh, SessionService.refresh, ROTATE_SCRIPT and *)
(* AuthService.revalidateSessionTenant.                                       *)

\* A browser presents a cookie it was sent, the current one or an older one.
Refresh(r) ==
  /\ Arrives(r, "refresh")
  /\ \E c \in held :
       Becomes(r, [call[r] EXCEPT !.op = "refresh", !.pc = "rotate", !.sid = c[1], !.secret = c[2]])
  /\ UNCHANGED <<session, index, held, born, rest>>

Current_Unchecked(r) == TRUE
\* The hash of the presented secret is the one in the record.
Current(r) == session[call[r].sid].secret = call[r].secret

Rotate_KeepsSecret(r) ==
  /\ At(r, "rotate")
  /\ LET s == call[r].sid
     IN  IF session[s] = Null THEN Finish(r, "failed")
         ELSE IF Current(r) THEN Becomes(r, [call[r] EXCEPT !.pc = "reread", !.used = TRUE])
         ELSE Becomes(r, [call[r] EXCEPT !.pc = "look", !.out = "replay"])
  /\ UNCHANGED <<session, index, held, born, rest>>
\* The script answers 0, 1 or -1; after -1 the session is revoked.
Rotate(r) ==
  /\ At(r, "rotate")
  /\ LET s == call[r].sid
     IN  \/ /\ session[s] = Null
            /\ Finish(r, "failed")
            /\ UNCHANGED session
         \/ /\ session[s] # Null /\ Current(r)
            /\ session' = [session EXCEPT ![s].secret = r]
            /\ Becomes(r, [call[r] EXCEPT !.pc = "reread", !.used = TRUE])
         \/ /\ session[s] # Null /\ ~Current(r)
            /\ Becomes(r, [call[r] EXCEPT !.pc = "look", !.out = "replay"])
            /\ UNCHANGED session
  /\ UNCHANGED <<index, held, born, rest>>

\* The response carries the next secret.
Deliver(r) == held' = held \cup {<<call[r].sid, r>>} /\ Finish(r, "ok")

\* getSession after the script; the tenant in it is checked before it is reissued.
Reread(r) ==
  /\ At(r, "reread")
  /\ LET record == session[call[r].sid]
     IN  \/ /\ record = Null
            /\ Finish(r, "failed") /\ UNCHANGED held
         \/ /\ record # Null /\ record.org = Null
            /\ Deliver(r)
         \/ /\ record # Null /\ record.org # Null
            /\ Becomes(r, [call[r] EXCEPT !.pc = "tenant", !.org = record.org, !.era = record.era])
            /\ UNCHANGED held
  /\ UNCHANGED <<session, index, born, rest>>

CheckTenant(r) ==
  /\ At(r, "tenant")
  /\ \/ /\ Valid(call[r].org, call[r].era)
        /\ Deliver(r)
     \/ /\ ~Valid(call[r].org, call[r].era)
        /\ Goto(r, "clear")
        /\ UNCHANGED held
  /\ UNCHANGED <<session, index, born, rest>>

\* SWITCH_ORGANIZATION_SCRIPT: rewrites the tenant of a record that is there.
Select(s, org, role, era) ==
  session' = [session EXCEPT ![s].org = org, ![s].role = role, ![s].era = era]

ClearTenant(r) ==
  /\ At(r, "clear")
  /\ \/ /\ session[call[r].sid] = Null
        /\ Finish(r, "failed") /\ UNCHANGED <<session, held>>
     \/ /\ session[call[r].sid] # Null
        /\ Select(call[r].sid, Null, Null, 0)
        /\ Deliver(r)
  /\ UNCHANGED <<index, born, rest>>

------------------------------------------------------------------------------
(* Ending one session: AuthController.logout and the replay of a secret both  *)
(* call SessionService.revokeSession.                                         *)

Logout(r) ==
  /\ Arrives(r, "logout")
  /\ \E c \in held :
       Becomes(r, [call[r] EXCEPT !.op = "logout", !.pc = "look", !.sid = c[1]])
  /\ UNCHANGED <<session, index, held, born, rest>>

Look(r) ==
  /\ At(r, "look")
  /\ Goto(r, IF session[call[r].sid] = Null THEN "drop" ELSE "unlist")
  /\ UNCHANGED <<session, index, held, born, rest>>

Unlist(r) ==
  /\ At(r, "unlist")
  /\ index' = index \ {call[r].sid}
  /\ Goto(r, "drop")
  /\ UNCHANGED <<session, held, born, rest>>

Drop_IfCurrent(r) ==
  /\ At(r, "drop")
  /\ session' = IF session[call[r].sid] # Null /\ Current(r)
                THEN [session EXCEPT ![call[r].sid] = Null] ELSE session
  /\ Finish(r, IF call[r].out = "replay" THEN "replay" ELSE "ok")
  /\ UNCHANGED <<index, held, born, rest>>
Drop(r) ==
  /\ At(r, "drop")
  /\ session' = [session EXCEPT ![call[r].sid] = Null]
  /\ Finish(r, IF call[r].out = "replay" THEN "replay" ELSE "ok")
  /\ UNCHANGED <<index, held, born, rest>>

------------------------------------------------------------------------------
(* Switching the tenant: SessionGuard, then AuthService.switchOrganization.   *)

\* The guard finds the session of the access cookie...
Switch(r) ==
  /\ Arrives(r, "switch")
  /\ \E c \in held :
       /\ session[c[1]] # Null
       /\ Becomes(r, [call[r] EXCEPT !.op = "switch", !.pc = "identify", !.sid = c[1]])
  /\ UNCHANGED <<session, index, held, born, rest>>

\* ... and then its user.
Identify(r) ==
  /\ At(r, "identify")
  /\ \/ account # "absent" /\ Goto(r, "choose")
     \/ account = "absent" /\ Finish(r, "failed")
  /\ UNCHANGED <<session, index, held, born, rest>>

Choose(r) ==
  /\ At(r, "choose")
  /\ \E o \in Org :
       \/ /\ Usable(o)
          /\ Becomes(r, [call[r] EXCEPT !.pc = "activate", !.org = o, !.role = member[o],
                                     !.era = epoch])
       \/ ~Usable(o) /\ Finish(r, "failed")
  /\ UNCHANGED <<session, index, held, born, rest>>

Activate(r) ==
  /\ At(r, "activate")
  /\ \/ /\ session[call[r].sid] = Null
        /\ Finish(r, "failed") /\ UNCHANGED session
     \/ /\ session[call[r].sid] # Null
        /\ Select(call[r].sid, call[r].org, call[r].role, call[r].era)
        /\ Finish(r, "ok")
  /\ UNCHANGED <<index, held, born, rest>>

------------------------------------------------------------------------------
(* Password reset: AuthService.forgotPassword and AuthService.resetPassword.  *)

Forgot(r) ==
  /\ Arrives(r, "forgot") /\ account # "absent"
  /\ Becomes(r, [call[r] EXCEPT !.op = "forgot", !.pc = "revoke"])
  /\ UNCHANGED <<session, index, held, born, rest>>

RevokeLinks(r) ==
  /\ At(r, "revoke")
  /\ link' = [l \in Request |-> IF link[l] = "live" THEN "revoked" ELSE link[l]]
  /\ Goto(r, "mint")
  /\ UNCHANGED <<session, index, held, born, blocked, account, tenancy, seed, epoch>>

MintLink(r) ==
  /\ At(r, "mint")
  /\ \/ /\ account # "absent"
        /\ link' = [link EXCEPT ![r] = "live"]
        /\ Finish(r, "ok")
     \/ account = "absent" /\ Finish(r, "failed") /\ UNCHANGED link
  /\ UNCHANGED <<session, index, held, born, blocked, account, tenancy, seed, epoch>>

\* The token is read and found usable; then the new password is hashed.
Reset(r) ==
  /\ Arrives(r, "reset")
  /\ \E l \in Request :
       /\ link[l] = "live"
       /\ Becomes(r, [call[r] EXCEPT !.op = "reset", !.pc = "commit", !.secret = l])
  /\ UNCHANGED <<session, index, held, born, rest>>

\* One transaction: the token is consumed if it still can be, the password set.
CommitReset(r) ==
  /\ At(r, "commit")
  /\ LET l == call[r].secret
     IN  \/ /\ link[l] = "live"
            /\ link' = [link EXCEPT ![l] = "consumed"]
            /\ account' = "changed"
            /\ Becomes(r, [call[r] EXCEPT !.pc = "list", !.old = Live, !.used = TRUE])
         \/ link[l] # "live" /\ Finish(r, "failed") /\ UNCHANGED <<link, account>>
  /\ UNCHANGED <<session, index, held, born, blocked, tenancy, seed, epoch>>

------------------------------------------------------------------------------
(* Role change, by the owner of the organization: changeRole.                 *)

\* The membership that has to be active is the owner's, not the one changed.
ChangeRole(r) ==
  /\ Arrives(r, "role")
  /\ \E o \in Org, role \in Role \ {Owner} :
       /\ member[o] \notin {Null, Owner}
       /\ Becomes(r, [call[r] EXCEPT !.op = "role", !.pc = "update", !.org = o, !.role = role,
                                  !.era = epoch])
  /\ UNCHANGED <<session, index, held, born, rest>>

UpdateRole(r) ==
  /\ At(r, "update")
  /\ LET o == call[r].org
     IN  \/ /\ member[o] # Null /\ call[r].era = epoch
            /\ member' = [member EXCEPT ![o] = call[r].role]
            /\ Becomes(r, [call[r] EXCEPT !.pc = "list", !.old = Live])
         \/ /\ ~(member[o] # Null /\ call[r].era = epoch)
            /\ Finish(r, "failed") /\ UNCHANGED member
  /\ UNCHANGED <<session, index, held, born, blocked, account, open, link, seed, epoch>>

------------------------------------------------------------------------------
(* SessionService.revokeAllUserSessions, called by reset and by changeRole.   *)

ListSessions(r) ==
  /\ At(r, "list")
  /\ Becomes(r, [call[r] EXCEPT !.pc = IF index = {} THEN "unindex" ELSE "delete",
                                !.seen = index])
  /\ UNCHANGED <<session, index, held, born, rest>>

Without(gone) == session' = [s \in Request |-> IF s \in gone THEN Null ELSE session[s]]

DeleteSessions_OneOnly(r) ==
  /\ At(r, "delete")
  /\ \E s \in call[r].seen : Without({s})
  /\ Becomes(r, [call[r] EXCEPT !.pc = "unindex", !.seen = {}])
  /\ UNCHANGED <<index, held, born, rest>>
DeleteSessions(r) ==
  /\ At(r, "delete")
  /\ Without(call[r].seen)
  /\ Becomes(r, [call[r] EXCEPT !.pc = "unindex", !.seen = {}])
  /\ UNCHANGED <<index, held, born, rest>>

DropIndex(r) ==
  /\ At(r, "unindex")
  /\ index' = {}
  /\ Finish(r, "ok")
  /\ UNCHANGED <<session, held, born, rest>>

------------------------------------------------------------------------------
(* The seed runner: runRollback, then runSeed, in any order and number.       *)

SeedGoto(pc) == seed' = [seed EXCEPT !.pc = pc]
StartRun(pc) ==
  /\ seed.pc = "idle" /\ seed.runs < Bounds["seed"]
  /\ seed' = [pc |-> pc, round |-> 1, seen |-> {}, runs |-> seed.runs + 1]
databases == <<account, tenancy, link, epoch>>

\* assertRollbackSafe: among others, the user has no action token at all.
StartRollback ==
  /\ StartRun("block")
  /\ \A l \in Request : link[l] = "none"
  /\ UNCHANGED <<session, index, held, call, born, blocked, databases>>

BlockSessions_Skipped ==
  /\ seed.pc = "block"
  /\ SeedGoto("list")
  /\ UNCHANGED <<session, index, held, call, born, blocked, databases>>
BlockSessions ==
  /\ seed.pc = "block"
  /\ blocked' = TRUE
  /\ SeedGoto("list")
  /\ UNCHANGED <<session, index, held, call, born, databases>>

\* cleanupSeedSessions, before and after the rows are deleted.
SeedList ==
  /\ seed.pc = "list"
  /\ seed' = [seed EXCEPT !.pc = IF index = {} THEN "unindex" ELSE "delete", !.seen = index]
  /\ UNCHANGED <<session, index, held, call, born, blocked, databases>>

SeedDelete ==
  /\ seed.pc = "delete"
  /\ Without(seed.seen)
  /\ SeedGoto("unindex")
  /\ UNCHANGED <<index, held, call, born, blocked, databases>>

SeedUnindex ==
  /\ seed.pc = "unindex"
  /\ index' = {}
  /\ seed' = [seed EXCEPT !.pc = IF seed.round = 1 THEN "boundary" ELSE "idle", !.seen = {}]
  /\ UNCHANGED <<session, held, call, born, blocked, databases>>

\* runProtectedUserBoundary: memberships and user go; action tokens cascade.
DeleteUser ==
  /\ seed.pc = "boundary"
  /\ account' = "absent"
  /\ member' = [o \in Org |-> Null]
  /\ link' = [l \in Request |-> "none"]
  /\ epoch' = IF account = "absent" THEN epoch ELSE epoch + 1
  /\ seed' = [seed EXCEPT !.pc = "list", !.round = 2]
  /\ UNCHANGED <<session, index, held, call, born, blocked, open>>

StartSeed ==
  /\ StartRun("users")
  /\ UNCHANGED <<session, index, held, call, born, blocked, databases>>

\* The user keeps its id; the seed password is put back if it was changed.  The
\* phases that follow are one step each, what they do to other users left out.
ReconcileUsers ==
  /\ seed.pc = "users"
  /\ account' = "seeded"
  /\ SeedGoto("memberships")
  /\ UNCHANGED <<session, index, held, call, born, blocked, tenancy, link, epoch>>

ReconcileMemberships ==
  /\ seed.pc = "memberships"
  /\ member' = SeedRole /\ open' = [o \in Org |-> TRUE]
  /\ SeedGoto("verify")
  /\ UNCHANGED <<session, index, held, call, born, blocked, account, link, epoch>>

VerifySeed ==
  /\ seed.pc = "verify"
  /\ SeedGoto(IF account = "seeded" /\ member = SeedRole THEN "unblock" ELSE "idle")
  /\ UNCHANGED <<session, index, held, call, born, blocked, databases>>

UnblockSessions ==
  /\ seed.pc = "unblock"
  /\ blocked' = FALSE
  /\ SeedGoto("idle")
  /\ UNCHANGED <<session, index, held, call, born, databases>>

------------------------------------------------------------------------------
(* What happens to them.                                                      *)

\* A call to Redis or Postgres throws: the handler ends where it is.
CallFails(r) ==
  /\ "errors" \in Environment
  /\ call[r].pc \notin {"new", "done"}
  /\ Finish(r, "failed")
  /\ UNCHANGED <<session, index, held, born, rest>>

\* A runner phase throws, or its process dies and loses the lock.
SeedFails ==
  /\ "crash" \in Environment
  /\ seed.pc # "idle"
  /\ SeedGoto("idle")
  /\ UNCHANGED <<session, index, held, call, born, blocked, databases>>

\* EX: a session has the lifetime it was created with, refreshed or not.
SessionExpires(s) ==
  /\ "expiry" \in Environment
  /\ session[s] # Null
  /\ Without({s})
  /\ UNCHANGED <<index, held, call, born, rest>>

\* Every creation renews the index, so it outlives the sessions.
IndexExpires ==
  /\ "expiry" \in Environment
  /\ index # {} /\ Live = {}
  /\ index' = {}
  /\ UNCHANGED <<session, held, call, born, rest>>

\* No code suspends a tenant; an operator does.
Suspend(o) ==
  /\ "suspension" \in Environment
  /\ open[o]
  /\ open' = [open EXCEPT ![o] = FALSE]
  /\ UNCHANGED <<session, index, held, call, born, blocked, account, member, link, seed, epoch>>

------------------------------------------------------------------------------

Handler(r) ==
  \/ Login(r) \/ ReadMemberships(r) \/ CreateSession(r)
  \/ Refresh(r) \/ Rotate(r) \/ Reread(r) \/ CheckTenant(r) \/ ClearTenant(r)
  \/ Logout(r) \/ Look(r) \/ Unlist(r) \/ Drop(r)
  \/ Switch(r) \/ Identify(r) \/ Choose(r) \/ Activate(r)
  \/ Forgot(r) \/ RevokeLinks(r) \/ MintLink(r) \/ Reset(r) \/ CommitReset(r)
  \/ ChangeRole(r) \/ UpdateRole(r)
  \/ ListSessions(r) \/ DeleteSessions(r) \/ DropIndex(r)
  \/ CallFails(r)

Runner ==
  \/ StartRollback \/ BlockSessions \/ SeedList \/ SeedDelete \/ SeedUnindex \/ DeleteUser
  \/ StartSeed \/ ReconcileUsers \/ ReconcileMemberships \/ VerifySeed \/ UnblockSessions
  \/ SeedFails

Next ==
  \/ \E r \in Request : Handler(r)
  \/ Runner
  \/ \E s \in Request : SessionExpires(s)
  \/ IndexExpires
  \/ \E o \in Org : Suspend(o)

Spec == Init /\ [][Next]_vars

------------------------------------------------------------------------------
(* Properties.                                                                *)

Pc == {"new", "memberships", "create", "rotate", "reread", "tenant", "clear", "look", "unlist",
       "drop", "identify", "choose", "activate", "revoke", "mint", "commit", "update", "list",
       "delete", "unindex", "done"}
Out == {"none", "ok", "failed", "replay"}

Calls == [op : Ops \cup {"none"}, pc : Pc, sid : Request \cup {Null}, secret : Request \cup {Null},
          org : Org \cup {Null}, role : Role \cup {Null}, era : Nat, seen : SUBSET Request,
          old : SUBSET Request, used : BOOLEAN, out : Out]

SeedPc == {"idle", "block", "list", "delete", "unindex", "boundary", "users", "memberships",
           "verify", "unblock"}

StoreOK ==
  /\ session \in [Request -> Record \cup {Null}] /\ born \in [Request -> Nat \cup {Null}]
  /\ index \in SUBSET Request /\ blocked \in BOOLEAN
  /\ held \in SUBSET (Request \X Request)
DatabaseOK ==
  /\ account \in {"absent", "seeded", "changed"} /\ epoch \in Nat
  /\ member \in [Org -> Role \cup {Null}] /\ open \in [Org -> BOOLEAN]
  /\ link \in [Request -> {"none", "live", "revoked", "consumed"}]
CallsOK == call \in [Request -> Calls]
SeedOK == seed \in [pc : SeedPc, round : {1, 2}, seen : SUBSET Request, runs : Nat]

\* Every variable keeps its type.
TypeOK == StoreOK /\ DatabaseOK /\ CallsOK /\ SeedOK

\* No two requests get anything for the same refresh cookie, and no two resets
\* change the password with the same link, whatever the order of their awaits.
CredentialUsedOnce ==
  \A r, q \in Request :
    call[r].used /\ call[q].used /\ r # q /\ call[r].op = call[q].op =>
      <<call[r].sid, call[r].secret>> # <<call[q].sid, call[q].secret>>

\* Once the presentation of a replaced secret has been answered, the session is
\* gone, even if the other holder refreshed or switched it in between.
ReplayRevokes ==
  \A r \in Request : At(r, "done") /\ call[r].out = "replay" => session[call[r].sid] = Null

\* No handler brings a session back that was revoked or expired, however long
\* before it read it (the promise of the scripts that rewrite a record).
DeadStaysDead ==
  [][\A s \in Request : born[s] # Null /\ session[s] = Null => session'[s] = Null]_vars

\* A logout, or a refresh answered with a replay, is about to delete the key.
Ending(s) == \E r \in Request : call[r].pc \in {"look", "unlist", "drop"} /\ call[r].sid = s

\* One of them was answered with an error: it may have taken the session out of
\* the index and have left the key.
GivenUp(s) ==
  \E r \in Request : /\ call[r].op \in {"logout", "refresh"} /\ call[r].sid = s
                    /\ call[r].out = "failed" /\ ~call[r].used

\* A reset or a role change that was answered has deleted the index.
Revoked(r) == call[r].op \in {"reset", "role"} /\ call[r].out = "ok"

\* "All old sessions become unusable" (auth.service 449): when a reset or a role
\* change answers, the sessions there were at its commit are gone, whatever login,
\* refresh, switch, rollback or unanswered revocation ran beside it.  It has to be
\* the first: it drops the index from under a login that the next does not find.
FirstRevocationHolds ==
  \A r \in Request :
    Revoked(r) /\ (\A q \in Request \ {r} : ~Revoked(q))
      => \A s \in call[r].old : session[s] = Null \/ Ending(s) \/ GivenUp(s)

\* A session never outlives the rollback of its user: whoever holds a cookie from
\* before it is nobody once the user is there again under the same id.  Again this
\* is so until a revocation has dropped the index.
NoLeftover ==
  (\A r \in Request : ~Revoked(r))
    => \A s \in Live : born[s] = epoch \/ Ending(s) \/ GivenUp(s)

\* The store keeps its promise: see SessionLife.
Minted(x) == born[x] # Null \/ (call[x].used /\ call[x].op = "refresh")
Life == INSTANCE SessionLife WITH
  life    <- [s \in Request |-> IF session[s] # Null THEN "live"
                                ELSE IF born[s] = Null THEN "unborn" ELSE "dead"],
  current <- [s \in Request |-> IF session[s] # Null THEN session[s].secret ELSE s],
  spent   <- {x \in Request : Minted(x) /\ \A s \in Live : session[s].secret # x}
LivesOnce == Life!Spec

==============================================================================
