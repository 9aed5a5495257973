-------------------------------- MODULE Access --------------------------------
(* How somebody comes to be a user and a member of an organization:           *)
(* registration and the verification of its email, invitations, Google        *)
(* sign-in, the organization a signed-in user creates, and the role an owner  *)
(* gives a member later.                                                      *)
(*                                                                            *)
(* One action is one statement or one Redis call; transactions hold what they *)
(* wrote until they commit (locks, as in Workforce).  A user is named by the  *)
(* email, which is unique and which no code changes.  The session a request   *)
(* opens in the end is only noted here; its life is that of Sessions.         *)
EXTENDS Naturals, FiniteSets

CONSTANTS
  Handler,      \* API handlers that can be in flight at the same time
  Mail,         \* emails, each the name of a user
  Slug,         \* slugs of organizations in the order they are tried, each its name
  Role,         \* MembershipRole
  Owner,        \* TENANT_OWNER
  Invites,      \* INVITE_PERMISSIONS: role -> the roles it may invite
  Token,        \* tokens of links and invitations, and states of OAuth
  Profiles,     \* what Google may say: <<subject, email>>
  Members,      \* the memberships at the beginning: <<organization, user>> -> role
  None,         \* no value
  Bounds        \* how many requests there may be of each kind, and what may befall them

Ops == {"register", "verify", "resend", "invite", "revoke", "accept", "join", "start",
        "callback", "found", "change"}
\* What is bounded: requests of each kind, suspensions, links that expire, processes
\* that die, and all of these together.
Limits == Ops \cup {"suspensions", "expiries", "crashes", "all"}

ASSUME SlugAssumption == Slug \subseteq Nat /\ None \notin Slug \cup Mail \cup Token
ASSUME RoleAssumption == Owner \in Role /\ Invites \in [Role -> SUBSET (Role \ {Owner})]
ASSUME MembersAssumption ==
  DOMAIN Members \subseteq Slug \X Mail /\ \A k \in DOMAIN Members : Members[k] \in Role
\* No slug is an email, and Google confirms emails.
ASSUME MailAssumption == Mail \cap Slug = {} /\ \A p \in Profiles : p[2] \in Mail
ASSUME BoundsAssumption == Bounds \in [Limits -> Nat]

VARIABLES
  users,         \* User: email -> [verified, active]
  organizations, \* Organization: slug -> whether it is ACTIVE
  members,       \* OrganizationMembership: <<organization, user>> -> [role, active], and
                 \* "changed": an owner changed the role since (history)
  identities,    \* OAuthIdentity: subject -> user
  links,         \* EMAIL_VERIFICATION tokens: token -> [mail, consumed, revoked, expired]
  invitations,   \* token -> [org, mail, role, accepted, revoked, expired]
  states,        \* auth:oauth-state:<state> -> the invitation it was started with
  inbox,         \* tokens that were sent by email
  handler,       \* handler -> what its request has reached and holds
  minted,        \* tokens given out so far
  uses,          \* token -> how often a request succeeded with it (history)
  opened,        \* sessions opened or given a tenant (history)
  left           \* what remains of Bounds

rows == <<users, organizations, members, identities, links, invitations>>
tables == <<rows, states, inbox, minted>>
ghosts == <<uses, opened>>
vars == <<tables, handler, ghosts, left>>

Idle == [pc |-> "idle", op |-> "none", user |-> None, mail |-> None, org |-> None, role |-> None,
         token |-> None, invitation |-> None, sub |-> None, fresh |-> FALSE, locks |-> {},
         barred |-> {}]

Init ==
  /\ users = [m \in {k[2] : k \in DOMAIN Members} |-> [verified |-> TRUE, active |-> TRUE]]
  /\ organizations = [o \in {k[1] : k \in DOMAIN Members} |-> TRUE]
  /\ members = [k \in DOMAIN Members |-> [role |-> Members[k], active |-> TRUE, changed |-> FALSE]]
  /\ identities = << >> /\ links = << >> /\ invitations = << >> /\ states = << >>
  /\ inbox = {} /\ minted = {}
  /\ handler = [h \in Handler |-> Idle]
  /\ uses = [t \in Token |-> 0] /\ opened = {} /\ left = Bounds

Spend(limit) ==
  /\ left[limit] > 0 /\ left["all"] > 0
  /\ left' = [left EXCEPT ![limit] = @ - 1, !["all"] = @ - 1]

Put(f, k, v) == [x \in DOMAIN f \cup {k} |-> IF x = k THEN v ELSE f[x]]

At(h, op, pc) == handler[h].op = op /\ handler[h].pc = pc
Becomes(h, next) == handler' = [handler EXCEPT ![h] = next]
Goto(h, pc) == Becomes(h, [handler[h] EXCEPT !.pc = pc])
Lock(h, pc, resource) == Becomes(h, [handler[h] EXCEPT !.pc = pc, !.locks = @ \cup {resource}])

\* The request is answered; a transaction under way is rolled back.
Answer(h) == Becomes(h, Idle)

\* Mutant: a registration closes the invitations of its email in the same transaction.
Wants_Invited(me) ==
  CASE me.pc \in {"user", "newuser"} -> {<<"mail", me.user>>}
    [] me.pc = "create" ->
         {<<"slug", me.org>>} \cup
           {<<"invitation", i>> : i \in {x \in DOMAIN invitations :
                                          me.op = "register" /\ invitations[x].mail = me.user}}
    [] me.pc = "take" \/ (me.op = "revoke" /\ me.pc = "write") -> {<<"invitation", me.invitation>>}
    [] me.pc = "enroll" -> {<<"member", <<me.org, me.user>>>>}
    [] OTHER -> {}

\* What the next statement of a request needs no other transaction to hold: a unique
\* value it inserts, or the row of an invitation.
Wants(me) ==
  CASE me.pc \in {"user", "newuser"} -> {<<"mail", me.user>>}
    [] me.pc = "create" -> {<<"slug", me.org>>}
    [] me.pc = "take" \/ (me.op = "revoke" /\ me.pc = "write") -> {<<"invitation", me.invitation>>}
    [] me.pc = "enroll" -> {<<"member", <<me.org, me.user>>>>}
    [] OTHER -> {}

WaitsFor(g, h) == g # h /\ handler[h].locks \cap Wants(handler[g]) # {}
Waits(h) == \E g \in Handler : WaitsFor(h, g)

Usable(k) == k \in DOMAIN members /\ members[k].active /\ organizations[k[1]]
\* What is suspended, which a request that begins now has to respect.
Barred ==
  {<<m>> : m \in {x \in DOMAIN users : ~users[x].active}}
    \cup {<<o>> : o \in {x \in DOMAIN organizations : ~organizations[x]}}
    \cup {k \in DOMAIN members : ~members[k].active}

\* A new request of this kind.
Arrives(h, op, pc) == [Idle EXCEPT !.op = op, !.pc = pc, !.barred = Barred]

\* The session gets its tenant, None for no selection.
Opened(h, user, org) ==
  opened' = opened \cup {[user |-> user, org |-> org, sub |-> handler[h].sub,
                          barred |-> handler[h].barred \cap {<<user>>, <<org>>, <<org, user>>} # {}]}
Used(t) == uses' = [uses EXCEPT ![t] = @ + 1]

------------------------------------------------------------------------------
(* Registration: AuthService.register, and OrganizationService's              *)
(* createOrganization for a user who has signed in.                           *)

Register(h) ==
  /\ handler[h].pc = "idle" /\ Spend("register")
  /\ \E m \in Mail : Becomes(h, [Arrives(h, "register", "look") EXCEPT !.user = m])
  /\ UNCHANGED <<tables, ghosts>>

\* Any user with a session may create an organization.
Found(h) ==
  /\ handler[h].pc = "idle" /\ Spend("found")
  /\ \E m \in DOMAIN users :
       /\ users[m].active /\ users[m].verified
       /\ Becomes(h, [Arrives(h, "found", "slug") EXCEPT !.user = m])
  /\ UNCHANGED <<tables, ghosts>>

\* A registered email is refused, here and where an invitation meets a new user.
LookForUser(h) ==
  LET me == handler[h] IN
  /\ me.pc = "look"
  /\ IF me.user \in DOMAIN users THEN Answer(h)
     ELSE Goto(h, IF me.op = "join" THEN "organization" ELSE "slug")
  /\ UNCHANGED <<tables, ghosts, left>>

\* The first slug nobody has at this moment.
ChooseSlug(h) ==
  LET free == Slug \ DOMAIN organizations IN
  /\ handler[h].pc = "slug"
  /\ \E o \in free :
       /\ \A other \in free : o <= other
       /\ Becomes(h, [handler[h] EXCEPT !.org = o, !.pc = IF handler[h].op = "register"
                                                          THEN "user" ELSE "create"])
  /\ UNCHANGED <<tables, ghosts, left>>

\* Within a transaction: the user is inserted, unless the email is taken.
InsertUser(h) ==
  LET me == handler[h] IN
  /\ me.pc = "user" /\ ~Waits(h)
  /\ IF me.user \in DOMAIN users THEN Answer(h)
     ELSE Lock(h, IF me.op = "join" THEN "enroll" ELSE "create", <<"mail", me.user>>)
  /\ UNCHANGED <<tables, ghosts, left>>

\* The organization is inserted, unless the slug was taken meanwhile.
InsertOrganization(h) ==
  LET me == handler[h] IN
  /\ me.pc = "create" /\ ~Waits(h)
  /\ IF me.org \in DOMAIN organizations THEN Answer(h)
     ELSE Lock(h, "commit", <<"slug", me.org>>)
  /\ UNCHANGED <<tables, ghosts, left>>

NewLink(m) == [mail |-> m, consumed |-> FALSE, revoked |-> FALSE, expired |-> FALSE]
Unverified == [verified |-> FALSE, active |-> TRUE]
Member(role) == [role |-> role, active |-> TRUE, changed |-> FALSE]

\* User, organization, its owner and a link to verify the email appear together.
CommitRegistration(h) ==
  LET me == handler[h] IN
  /\ At(h, "register", "commit")
  /\ \E t \in Token \ minted :
       /\ minted' = minted \cup {t} /\ links' = Put(links, t, NewLink(me.user))
       /\ Becomes(h, [me EXCEPT !.pc = "send", !.token = t, !.locks = {}])
  /\ users' = Put(users, me.user, Unverified)
  /\ organizations' = Put(organizations, me.org, TRUE)
  /\ members' = Put(members, <<me.org, me.user>>, Member(Owner))
  /\ UNCHANGED <<identities, invitations, states, inbox, ghosts, left>>

\* Organization and owner appear together; the session is switched to it.
CommitOrganization(h) ==
  LET me == handler[h] IN
  /\ At(h, "found", "commit")
  /\ organizations' = Put(organizations, me.org, TRUE)
  /\ members' = Put(members, <<me.org, me.user>>, Member(Owner))
  /\ Answer(h)
  /\ UNCHANGED <<users, identities, links, invitations, states, inbox, minted, ghosts, left>>

\* The email with the token is queued, after whatever it is about is committed.
Send(h) ==
  /\ handler[h].pc = "send"
  /\ inbox' = inbox \cup {handler[h].token}
  /\ Answer(h)
  /\ UNCHANGED <<rows, states, minted, ghosts, left>>

------------------------------------------------------------------------------
(* Verification: verifyEmail and resendVerification.                          *)

Verify(h) ==
  /\ handler[h].pc = "idle" /\ Spend("verify")
  /\ \E t \in inbox \cap DOMAIN links :
       Becomes(h, [Arrives(h, "verify", "read") EXCEPT !.token = t])
  /\ UNCHANGED <<tables, ghosts>>

Spendable(x) == ~x.consumed /\ ~x.revoked

\* The link and its user are read; "fresh" keeps that the email was not verified.
ReadLink(h) ==
  LET me == handler[h] link == links[me.token] IN
  /\ At(h, "verify", "read")
  /\ IF Spendable(link) /\ ~link.expired /\ users[link.mail].active
     THEN Becomes(h, [me EXCEPT !.pc = "consume", !.user = link.mail,
                                !.fresh = ~users[link.mail].verified])
     ELSE Answer(h)
  /\ UNCHANGED <<tables, ghosts, left>>

\* Mutant: that the link was usable when it was read is enough.
ConsumeLink_AsRead(h) ==
  LET me == handler[h] IN
  /\ At(h, "verify", "consume")
  /\ links' = [links EXCEPT ![me.token].consumed = TRUE] /\ Used(me.token)
  /\ Goto(h, IF me.fresh THEN "confirm" ELSE "memberships")
  /\ UNCHANGED <<users, organizations, members, identities, invitations, states, inbox, minted,
                 opened, left>>

\* updateMany where it is neither consumed nor revoked.
ConsumeLink(h) ==
  LET me == handler[h] IN
  /\ At(h, "verify", "consume")
  /\ IF Spendable(links[me.token])
     THEN /\ links' = [links EXCEPT ![me.token].consumed = TRUE] /\ Used(me.token)
          /\ Goto(h, IF me.fresh THEN "confirm" ELSE "memberships")
     ELSE Answer(h) /\ UNCHANGED <<links, uses>>
  /\ UNCHANGED <<users, organizations, members, identities, invitations, states, inbox, minted,
                 opened, left>>

\* emailVerifiedAt is set, for a link and for the Google account of the same email.
Confirm(h) ==
  LET m == handler[h].user IN
  /\ handler[h].pc = "confirm"
  /\ users' = [users EXCEPT ![m].verified = TRUE]
  /\ Goto(h, "memberships")
  /\ UNCHANGED <<organizations, members, identities, links, invitations, states, inbox, minted,
                 ghosts, left>>

Resend(h) ==
  /\ handler[h].pc = "idle" /\ Spend("resend")
  /\ \E m \in DOMAIN users : Becomes(h, [Arrives(h, "resend", "eligible") EXCEPT !.user = m])
  /\ UNCHANGED <<tables, ghosts>>

LookResend(h) ==
  LET user == users[handler[h].user] IN
  /\ At(h, "resend", "eligible")
  /\ IF user.verified \/ ~user.active THEN Answer(h) ELSE Goto(h, "revoke")
  /\ UNCHANGED <<tables, ghosts, left>>

RevokeLinks(h) ==
  LET mine == {t \in DOMAIN links : links[t].mail = handler[h].user /\ ~links[t].consumed} IN
  /\ At(h, "resend", "revoke")
  /\ links' = [t \in DOMAIN links |-> IF t \in mine THEN [links[t] EXCEPT !.revoked = TRUE]
                                      ELSE links[t]]
  /\ Goto(h, "mint")
  /\ UNCHANGED <<users, organizations, members, identities, invitations, states, inbox, minted,
                 ghosts, left>>

MintLink(h) ==
  LET me == handler[h] IN
  /\ At(h, "resend", "mint")
  /\ \E t \in Token \ minted :
       /\ minted' = minted \cup {t} /\ links' = Put(links, t, NewLink(me.user))
       /\ Becomes(h, [me EXCEPT !.pc = "send", !.token = t])
  /\ UNCHANGED <<users, organizations, members, identities, invitations, states, inbox, ghosts,
                 left>>

\* activeMemberships: the only one is selected in the session that is opened; with an
\* invitation from Google's round trip, that comes first.
ReadMemberships(h) ==
  LET me == handler[h] mine == {k \in DOMAIN members : k[2] = me.user /\ Usable(k)} IN
  /\ me.pc = "memberships"
  /\ IF me.invitation # None THEN Goto(h, "claim") /\ UNCHANGED opened
     ELSE /\ Answer(h)
          /\ \/ Cardinality(mine) # 1 /\ Opened(h, me.user, None)
             \/ Cardinality(mine) = 1 /\ \E k \in mine : Opened(h, me.user, k[1])
  /\ UNCHANGED <<tables, uses, left>>

------------------------------------------------------------------------------
(* Invitations: InvitationService.                                            *)

\* A principal with a tenant selected; whether it is usable is looked up next.
Steer(h, op, k) == [Arrives(h, op, "permit") EXCEPT !.user = k[2], !.org = k[1]]

Invite(h) ==
  /\ handler[h].pc = "idle" /\ Spend("invite")
  /\ \E k \in DOMAIN members, m \in Mail, role \in Role :
       Becomes(h, [Steer(h, "invite", k) EXCEPT !.role = role, !.mail = m])
  /\ UNCHANGED <<tables, ghosts>>

Revoke(h) ==
  /\ handler[h].pc = "idle" /\ Spend("revoke")
  /\ \E k \in DOMAIN members, i \in DOMAIN invitations :
       Becomes(h, [Steer(h, "revoke", k) EXCEPT !.invitation = i])
  /\ UNCHANGED <<tables, ghosts>>

ChangeRole(h) ==
  /\ handler[h].pc = "idle" /\ Spend("change")
  /\ \E k \in DOMAIN members, m \in Mail, role \in Role :
       Becomes(h, [Steer(h, "change", k) EXCEPT !.role = role, !.mail = m])
  /\ UNCHANGED <<tables, ghosts>>

\* What a member of this role may ask for: a role invites others, an owner changes them.
Entitled(me, role) ==
  CASE me.op = "invite" -> me.role \in Invites[role]
    [] me.op = "change" -> role = Owner
    [] OTHER -> TRUE

\* requireMembership and requireActiveMembership, and what the role allows; a revocation
\* needs the role again.
Permit(h) ==
  LET me == handler[h] k == <<me.org, me.user>> IN
  /\ me.pc = "permit"
  /\ IF ~Usable(k) \/ ~Entitled(me, members[k].role)
     THEN Answer(h)
     ELSE Becomes(h, [me EXCEPT !.pc = IF me.op = "invite" THEN "write" ELSE "find",
                                !.role = IF me.op = "revoke" THEN members[k].role ELSE @])
  /\ UNCHANGED <<tables, ghosts, left>>

CreateInvitation(h) ==
  LET me == handler[h] IN
  /\ At(h, "invite", "write")
  /\ \E t \in Token \ minted :
       /\ minted' = minted \cup {t}
       /\ invitations' = Put(invitations, t,
            [org |-> me.org, mail |-> me.mail, role |-> me.role,
             accepted |-> FALSE, revoked |-> FALSE, expired |-> FALSE])
       /\ Becomes(h, [me EXCEPT !.pc = "send", !.token = t])
  /\ UNCHANGED <<users, organizations, members, identities, links, states, inbox, ghosts, left>>

Pending(i) == ~invitations[i].accepted /\ ~invitations[i].revoked

FindInvitation(h) ==
  LET me == handler[h] i == me.invitation IN
  /\ At(h, "revoke", "find")
  /\ IF invitations[i].org = me.org /\ Pending(i) /\ invitations[i].role \in Invites[me.role]
     THEN Goto(h, "write") ELSE Answer(h)
  /\ UNCHANGED <<tables, ghosts, left>>

\* By id: an invitation accepted since it was found is revoked as well.
WriteRevocation(h) ==
  LET i == handler[h].invitation IN
  /\ At(h, "revoke", "write") /\ ~Waits(h)
  /\ invitations' = [invitations EXCEPT ![i].revoked = TRUE]
  /\ Answer(h)
  /\ UNCHANGED <<users, organizations, members, identities, links, states, inbox, minted, ghosts,
                 left>>

\* Mutant: that owners stay owners is not asked.
FindTarget_Owners(h) ==
  LET me == handler[h] IN
  /\ At(h, "change", "find")
  /\ IF <<me.org, me.mail>> \notin DOMAIN members \/ me.role = Owner THEN Answer(h)
     ELSE Goto(h, "write")
  /\ UNCHANGED <<tables, ghosts, left>>

\* The member is looked up, suspended or not.  Owners stay owners, and nobody becomes one.
FindTarget(h) ==
  LET me == handler[h] k == <<me.org, me.mail>> IN
  /\ At(h, "change", "find")
  /\ IF k \notin DOMAIN members \/ members[k].role = Owner \/ me.role = Owner
     THEN Answer(h) ELSE Goto(h, "write")
  /\ UNCHANGED <<tables, ghosts, left>>

\* By id; the sessions of the member are revoked after that.
WriteRole(h) ==
  LET me == handler[h] IN
  /\ At(h, "change", "write")
  /\ members' = [members EXCEPT ![<<me.org, me.mail>>].role = me.role,
                                ![<<me.org, me.mail>>].changed = TRUE]
  /\ Answer(h)
  /\ UNCHANGED <<users, organizations, identities, links, invitations, states, inbox, minted,
                 ghosts, left>>

\* The link of the email is opened by a user with a session, or by nobody known.
Accept(h) ==
  /\ handler[h].pc = "idle"
  /\ \E i \in inbox \cap DOMAIN invitations :
       \/ /\ Spend("accept")
          /\ \E m \in DOMAIN users :
               /\ users[m].active /\ users[m].verified
               /\ Becomes(h, [Arrives(h, "accept", "read") EXCEPT !.invitation = i, !.user = m])
       \/ /\ Spend("join")
          /\ Becomes(h, [Arrives(h, "join", "read") EXCEPT !.invitation = i])
  /\ UNCHANGED <<tables, ghosts>>

Valid(i) == Pending(i) /\ ~invitations[i].expired /\ organizations[invitations[i].org]

\* findValidInvitation.
ReadInvitation(h) ==
  LET me == handler[h] i == me.invitation IN
  /\ me.pc = "read" /\ me.op \in {"accept", "join"}
  /\ IF ~Valid(i) THEN Answer(h)
     ELSE Becomes(h, [me EXCEPT !.pc = IF me.op = "accept" THEN "match" ELSE "look",
                                !.org = invitations[i].org, !.role = invitations[i].role,
                                !.user = IF me.op = "accept" THEN @ ELSE invitations[i].mail])
  /\ UNCHANGED <<tables, ghosts, left>>

\* Mutant: whoever is signed in may accept.
MatchUser_Anyone(h) ==
  /\ At(h, "accept", "match")
  /\ IF users[handler[h].user].active THEN Goto(h, "conflict") ELSE Answer(h)
  /\ UNCHANGED <<tables, ghosts, left>>

MatchUser(h) ==
  LET me == handler[h] IN
  /\ At(h, "accept", "match")
  /\ IF me.user = invitations[me.invitation].mail /\ users[me.user].active
     THEN Goto(h, "conflict") ELSE Answer(h)
  /\ UNCHANGED <<tables, ghosts, left>>

FindConflict(h) ==
  LET me == handler[h] IN
  /\ At(h, "accept", "conflict")
  /\ IF <<me.org, me.user>> \in DOMAIN members THEN Answer(h) ELSE Goto(h, "organization")
  /\ UNCHANGED <<tables, ghosts, left>>

\* The transaction of an acceptance begins with the organization.
FindOrganization(h) ==
  LET me == handler[h] IN
  /\ me.pc = "organization"
  /\ IF ~organizations[me.org] THEN Answer(h)
     ELSE Goto(h, IF me.op = "callback" THEN "addressee" ELSE "take")
  /\ UNCHANGED <<tables, ghosts, left>>

AfterTake(me) ==
  CASE me.op = "join" -> "user"
    [] me.op = "callback" /\ ~me.fresh -> "commit"
    [] OTHER -> "enroll"

\* Mutant: the invitation is used up at once, not with the transaction.
TakeInvitation_AtOnce(h) ==
  LET me == handler[h] i == me.invitation IN
  /\ me.pc = "take" /\ ~Waits(h)
  /\ IF Pending(i)
     THEN Goto(h, AfterTake(me)) /\ invitations' = [invitations EXCEPT ![i].accepted = TRUE]
     ELSE Answer(h) /\ UNCHANGED invitations
  /\ UNCHANGED <<users, organizations, members, identities, links, states, inbox, minted, ghosts,
                 left>>

\* Mutant: that the invitation was not revoked is not asked for again.
TakeInvitation_Revoked(h) ==
  LET me == handler[h] i == me.invitation IN
  /\ me.pc = "take" /\ ~Waits(h)
  /\ IF ~invitations[i].accepted THEN Lock(h, AfterTake(me), <<"invitation", i>>) ELSE Answer(h)
  /\ UNCHANGED <<tables, ghosts, left>>

\* updateMany where it is neither accepted nor revoked, once nobody else holds it.
TakeInvitation(h) ==
  LET me == handler[h] i == me.invitation IN
  /\ me.pc = "take" /\ ~Waits(h)
  /\ IF Pending(i) THEN Lock(h, AfterTake(me), <<"invitation", i>>) ELSE Answer(h)
  /\ UNCHANGED <<tables, ghosts, left>>

\* The membership is inserted, unless there is one by now.
Enroll(h) ==
  LET me == handler[h] k == <<me.org, me.user>> IN
  /\ me.pc = "enroll" /\ ~Waits(h)
  /\ IF k \in DOMAIN members THEN Answer(h) ELSE Lock(h, "commit", <<"member", k>>)
  /\ UNCHANGED <<tables, ghosts, left>>

\* Acceptance, membership and, for a new one, the verified user appear together; the
\* session gets the organization.
CommitAcceptance(h) ==
  LET me == handler[h] k == <<me.org, me.user>> IN
  /\ me.pc = "commit" /\ me.op \in {"accept", "join", "callback"}
  /\ users' = IF me.op = "join" THEN Put(users, me.user, [verified |-> TRUE, active |-> TRUE])
              ELSE users
  /\ members' = IF <<"member", k>> \in me.locks THEN Put(members, k, Member(me.role)) ELSE members
  /\ invitations' = [invitations EXCEPT ![me.invitation].accepted = TRUE]
  /\ Used(me.invitation)
  /\ Opened(h, me.user, me.org)
  /\ Answer(h)
  /\ UNCHANGED <<organizations, identities, links, states, inbox, minted, left>>

------------------------------------------------------------------------------
(* Google: GoogleService.                                                     *)

\* The flow starts, with an invitation that is valid now or without one.
Start(h) ==
  /\ handler[h].pc = "idle" /\ Spend("start")
  /\ \E i \in {None} \cup {x \in DOMAIN invitations : Valid(x)} :
       Becomes(h, [Arrives(h, "start", "save") EXCEPT !.invitation = i])
  /\ UNCHANGED <<tables, ghosts>>

SaveState(h) ==
  /\ At(h, "start", "save")
  /\ \E t \in Token \ minted :
       minted' = minted \cup {t} /\ states' = Put(states, t, handler[h].invitation)
  /\ Answer(h)
  /\ UNCHANGED <<rows, inbox, ghosts, left>>

\* A browser comes back with the state that it was given, once or more.
Callback(h) ==
  /\ handler[h].pc = "idle" /\ Spend("callback")
  /\ \E t \in minted \ (DOMAIN links \cup DOMAIN invitations), p \in Profiles :
       Becomes(h, [Arrives(h, "callback", "state") EXCEPT !.token = t, !.sub = p[1], !.mail = p[2]])
  /\ UNCHANGED <<tables, ghosts>>

\* CONSUME_OAUTH_STATE_SCRIPT; then Google is asked who it is, and may refuse.
ConsumeState(h) ==
  LET me == handler[h] t == me.token IN
  /\ At(h, "callback", "state")
  /\ states' = [x \in DOMAIN states \ {t} |-> states[x]]
  /\ IF t \in DOMAIN states
     THEN /\ Used(t)
          /\ \/ Becomes(h, [me EXCEPT !.pc = "identity", !.invitation = states[t]])
             \/ Answer(h)
     ELSE Answer(h) /\ UNCHANGED uses
  /\ UNCHANGED <<rows, inbox, minted, opened, left>>

\* Mutant: the email decides who it is.
FindIdentity_ByMail(h) ==
  LET me == handler[h] IN
  /\ At(h, "callback", "identity")
  /\ IF me.mail \in DOMAIN users THEN Becomes(h, [me EXCEPT !.pc = "memberships", !.user = me.mail])
     ELSE Goto(h, "newcomer")
  /\ UNCHANGED <<tables, ghosts, left>>

\* "Provider-subject identity wins", whatever the email is by now.
FindIdentity(h) ==
  LET me == handler[h] IN
  /\ At(h, "callback", "identity")
  /\ \/ me.sub \notin DOMAIN identities /\ Goto(h, "newcomer")
     \/ /\ me.sub \in DOMAIN identities
        /\ IF users[identities[me.sub]].active
           THEN Becomes(h, [me EXCEPT !.pc = "memberships", !.user = identities[me.sub]])
           ELSE Answer(h)
  /\ UNCHANGED <<tables, ghosts, left>>

\* On first contact the user of the email is linked, or one is created.
FindNewcomer(h) ==
  LET me == handler[h] m == me.mail IN
  /\ At(h, "callback", "newcomer")
  /\ \/ m \notin DOMAIN users /\ Becomes(h, [me EXCEPT !.pc = "newuser", !.user = m])
     \/ /\ m \in DOMAIN users
        /\ IF users[m].active
           THEN Becomes(h, [me EXCEPT !.pc = "link", !.user = m, !.fresh = ~users[m].verified])
           ELSE Answer(h)
  /\ UNCHANGED <<tables, ghosts, left>>

\* The user is there before the identity is; an email taken meanwhile is an error.
CreateGoogleUser(h) ==
  LET m == handler[h].user IN
  /\ At(h, "callback", "newuser") /\ ~Waits(h)
  /\ IF m \in DOMAIN users THEN Answer(h) /\ UNCHANGED users
     ELSE Goto(h, "link") /\ users' = Put(users, m, [verified |-> TRUE, active |-> TRUE])
  /\ UNCHANGED <<organizations, members, identities, links, invitations, states, inbox, minted,
                 ghosts, left>>

\* One identity for a subject, and one Google identity for a user.
LinkIdentity(h) ==
  LET me == handler[h]
      taken == me.sub \in DOMAIN identities \/ \E x \in DOMAIN identities : identities[x] = me.user
  IN
  /\ At(h, "callback", "link")
  /\ IF taken THEN Answer(h) /\ UNCHANGED identities
     ELSE /\ identities' = Put(identities, me.sub, me.user)
          /\ Goto(h, IF me.fresh THEN "confirm" ELSE "memberships")
  /\ UNCHANGED <<users, organizations, members, links, invitations, states, inbox, minted, ghosts,
                 left>>

\* consumeInvitationForGoogleUser: the invitation is read in the transaction.
ClaimInvitation(h) ==
  LET me == handler[h] i == me.invitation IN
  /\ At(h, "callback", "claim")
  /\ IF ~Pending(i) \/ invitations[i].expired THEN Answer(h)
     ELSE Becomes(h, [me EXCEPT !.pc = "organization", !.org = invitations[i].org,
                                !.role = invitations[i].role])
  /\ UNCHANGED <<tables, ghosts, left>>

\* Mutant: a suspended membership is no obstacle.
MatchAddressee_Suspended(h) ==
  LET me == handler[h] IN
  /\ At(h, "callback", "addressee")
  /\ IF invitations[me.invitation].mail # me.mail THEN Answer(h)
     ELSE Becomes(h, [me EXCEPT !.pc = "take", !.fresh = <<me.org, me.user>> \notin DOMAIN members])
  /\ UNCHANGED <<tables, ghosts, left>>

\* The invitation is for the email Google confirmed; a member uses it up as well, and
\* keeps its role, unless the membership is suspended ("fresh": there is none).
MatchAddressee(h) ==
  LET me == handler[h] k == <<me.org, me.user>> IN
  /\ At(h, "callback", "addressee")
  /\ IF invitations[me.invitation].mail # me.mail \/ (k \in DOMAIN members /\ ~members[k].active)
     THEN Answer(h)
     ELSE Becomes(h, [me EXCEPT !.pc = "take", !.fresh = k \notin DOMAIN members])
  /\ UNCHANGED <<tables, ghosts, left>>

------------------------------------------------------------------------------
(* What happens to them.                                                      *)

\* No code suspends a user, a membership or an organization; an operator does.
Suspend ==
  /\ Spend("suspensions")
  /\ \/ \E m \in DOMAIN users :
          /\ users[m].active /\ users' = [users EXCEPT ![m].active = FALSE]
          /\ UNCHANGED <<organizations, members>>
     \/ \E o \in DOMAIN organizations :
          /\ organizations[o] /\ organizations' = [organizations EXCEPT ![o] = FALSE]
          /\ UNCHANGED <<users, members>>
     \/ \E k \in DOMAIN members :
          /\ members[k].active /\ members' = [members EXCEPT ![k].active = FALSE]
          /\ UNCHANGED <<users, organizations>>
  /\ UNCHANGED <<identities, links, invitations, states, inbox, minted, handler, ghosts>>

\* isExpired, and the lifetime of a state in Redis.
Expire ==
  /\ Spend("expiries")
  /\ \/ \E t \in DOMAIN links :
          links' = [links EXCEPT ![t].expired = TRUE] /\ UNCHANGED <<invitations, states>>
     \/ \E t \in DOMAIN invitations :
          invitations' = [invitations EXCEPT ![t].expired = TRUE] /\ UNCHANGED <<links, states>>
     \/ \E t \in DOMAIN states :
          states' = [x \in DOMAIN states \ {t} |-> states[x]] /\ UNCHANGED <<links, invitations>>
  /\ UNCHANGED <<users, organizations, members, identities, inbox, minted, handler, ghosts>>

\* The process dies, or a call throws: what was committed stays, the rest is gone.
Crash(h) ==
  /\ handler[h].pc # "idle" /\ Spend("crashes")
  /\ Answer(h)
  /\ UNCHANGED <<tables, ghosts>>

------------------------------------------------------------------------------

Ask(h) ==
  \/ Register(h) \/ Found(h) \/ Verify(h) \/ Resend(h) \/ Invite(h) \/ Revoke(h) \/ Accept(h)
  \/ Start(h) \/ Callback(h) \/ ChangeRole(h)

Serve(h) ==
  \/ LookForUser(h) \/ ChooseSlug(h) \/ InsertUser(h) \/ InsertOrganization(h)
  \/ CommitRegistration(h) \/ CommitOrganization(h) \/ Send(h)
  \/ ReadLink(h) \/ ConsumeLink(h) \/ Confirm(h) \/ ReadMemberships(h)
  \/ LookResend(h) \/ RevokeLinks(h) \/ MintLink(h)
  \/ Permit(h) \/ CreateInvitation(h) \/ FindInvitation(h) \/ WriteRevocation(h)
  \/ FindTarget(h) \/ WriteRole(h)
  \/ ReadInvitation(h) \/ MatchUser(h) \/ FindConflict(h) \/ FindOrganization(h)
  \/ TakeInvitation(h) \/ Enroll(h) \/ CommitAcceptance(h)
  \/ SaveState(h) \/ ConsumeState(h) \/ FindIdentity(h) \/ FindNewcomer(h)
  \/ CreateGoogleUser(h) \/ LinkIdentity(h) \/ ClaimInvitation(h) \/ MatchAddressee(h)

Next ==
  \/ \E h \in Handler : Ask(h) \/ Serve(h) \/ Crash(h)
  \/ Suspend \/ Expire

Spec == Init /\ [][Next]_vars

------------------------------------------------------------------------------
(* Properties.                                                                *)

\* Every variable keeps its type: keys point to rows that are there, and whoever is
\* not serving a request holds nothing.
TypeOK ==
  /\ DOMAIN users \subseteq Mail /\ DOMAIN organizations \subseteq Slug
  /\ \A k \in DOMAIN members :
       k[1] \in DOMAIN organizations /\ k[2] \in DOMAIN users /\ members[k].role \in Role
  /\ \A x \in DOMAIN identities : identities[x] \in DOMAIN users
  /\ \A t \in DOMAIN links : links[t].mail \in DOMAIN users
  /\ \A t \in DOMAIN invitations :
       invitations[t].org \in DOMAIN organizations /\ invitations[t].role \in Role \ {Owner}
  /\ DOMAIN links \cup DOMAIN invitations \cup DOMAIN states \cup inbox \subseteq minted
  /\ \A h \in Handler : handler[h].pc = "idle" => handler[h] = Idle

\* Whose an invitation to this email is: the user of the email, or the user of a Google
\* account that had it.
Reaches(mail, user) ==
  \/ user = mail
  \/ \E p \in Profiles : p[2] = mail /\ p[1] \in DOMAIN identities /\ identities[p[1]] = user

\* An invitation is never used up for nothing, whatever fails after it was taken:
\* accepted, it has made somebody it was for a member.
AcceptedIsMember ==
  \A i \in DOMAIN invitations :
    invitations[i].accepted =>
      \E k \in DOMAIN members : k[1] = invitations[i].org /\ Reaches(invitations[i].mail, k[2])

\* Whoever is a member without having created the organization accepted an invitation
\* that was for them, and has the role it was for until an owner changes it; and no
\* change of a role makes or unmakes an owner.
MembersAreInvited ==
  \A k \in DOMAIN members :
    /\ members[k].changed => members[k].role # Owner
    /\ members[k].role # Owner =>
         \E i \in DOMAIN invitations :
           /\ invitations[i].accepted /\ invitations[i].org = k[1]
           /\ Reaches(invitations[i].mail, k[2])
           /\ members[k].changed \/ invitations[i].role = members[k].role

\* Invitations, verification links and OAuth states work once, however many requests
\* carry them at the same time.
UsedOnce == \A t \in Token : uses[t] <= 1

\* From the moment an invitation is revoked nobody joins with it, not even a request
\* that had found it valid before.
RevokedStaysOut ==
  [][\A i \in DOMAIN invitations :
       invitations[i].revoked /\ ~invitations[i].accepted => ~invitations'[i].accepted]_vars

\* A Google subject is the same user for ever, whatever emails it shows and however its
\* first sign-ins overlap.
SubjectIsOneUser ==
  \A a, b \in opened : a.sub # None /\ a.sub = b.sub => a.user = b.user

\* Nobody waits for a request that has ended, and requests that wait for one another
\* never close a circle, however many there are: each transaction takes its invitation
\* before the email of its user, and that before a slug or a membership.
NoStandstill ==
  /\ \A g, h \in Handler : WaitsFor(g, h) => handler[h].pc # "idle"
  /\ \A S \in (SUBSET Handler) \ {{}} : \E g \in S : \A h \in S : ~WaitsFor(g, h)

\* A request that began after a user, an organization or a membership was suspended
\* opens no session for it: the ways in that are modelled here are verification, new
\* organizations, invitations and Google sign-in.
BarredStaysOut == \A a \in opened : ~a.barred

==============================================================================
