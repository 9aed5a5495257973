# paylens-server: a verification project

TLA+ models of the PayLens API server (NestJS, Prisma/PostgreSQL, BullMQ/Redis,
S3), model-checked with TLC on small instances and, where marked, proved with
TLAPS for every value of the constants. Paths are relative to the repository
root (`src/` here is the repository); `processor` and `service` without more
mean `src/modules/employee-exports/employee-exports.processor.ts` and
`...service.ts`.

## 1. The system

One process type serves HTTP and consumes the queues. Everything durable is in
PostgreSQL (rows), S3 (objects), Redis (sessions, jobs). Handlers and workers
interleave at every `await`; several server processes may run.

| Component | State it keeps | Operations | What makes it correct |
|---|---|---|---|
| Employee exports (`modules/employee-exports`) | `EmployeeExport` row, `staging/part-n` and `final/` objects, jobs | create, pause, resume, cancel, download; worker: extract, finalize, cancel clean-up; hourly expiry | a downloadable file is whole; a cancel or pause is carried out; no duplicates after retries; nothing left behind |
| Employee imports (`modules/employee-imports`) | `EmployeeImport` row, source, normalized parts, reports, employees and departments it writes | upload, validate, review, confirm, apply in batches, pause, resume, cancel, expire | a row of the file is applied once; counters match the directory; terminal is final; no import without a job |
| Sessions (`modules/auth/services/session.service.ts`) | session records and per-user index in Redis, blocks | create, rotate, switch organization, revoke one or all, block | a revoked session never comes back; a stolen old token revokes; a block wins over a login |
| Passwords and tokens (`auth.service.ts`) | users, one-time tokens | register, verify, login, forgot, reset, revalidate tenant | a token works once; after a reset no old session lives |
| Invitations, Google (`invitation.service.ts`, `google.service.ts`) | invitations, memberships, identities, OAuth states | invite, accept, revoke, sign in, link | an invitation is used once and not after revocation; one user per identity |
| Organizations (`organization.service.ts`) | organizations, memberships | create, list members, change role | no session carries a role its member lost |
| Employees, departments (`modules/employees`, `modules/departments`) | directory rows | CRUD, dashboard, pagination | uniqueness, no dangling department, protected employees are not deleted |
| Compensation, idempotency (`modules/compensation`, `common/idempotency`) | current compensation, history, keys | change, history, replay | versions without gaps, one history row per version, a key acts once |
| Seed, rollback (`seed/`) | all of the above for the demo tenants | seed, verify, rollback | rollback touches nothing else and no seeded session survives it |
| E-mail, storage, AI, tracing, configuration | none of their own (a queue, an S3 client) | | delivery at least once; pure I/O otherwise |

Components meet in four ways: the exports and imports read and write the
directory that the employee handlers change; role changes, resets and the
rollback revoke sessions that logins create concurrently; invitations and Google
sign-in create the users and memberships sessions are made of; and everything
asynchronous (exports, imports, e-mail, sweepers) shares BullMQ's rules: a job is
delivered at least once, retried up to `attempts`, and taken from a worker that
stops renewing its lock, whether or not that worker still runs.

What is hard in this code is nearly always the same: a row is read, something is
awaited, and the decision taken from the read is written, sometimes under a
condition (`updateMany ... where status`), sometimes by id alone. The list of
places is in `PROJECT.json` under `hazards`.

## 2. The modules

| Module | Models | Composes | Runs |
|---|---|---|---|
| `EmployeeExport` | row, objects, queue, workers, requests and sweeper of one export | | `export_*` |
| `ExportLife` | what an export promises its user; `EmployeeExport` implements it | | `export_faults` |
| `ImportRows` | what the import worker computes from a file (no state) | | those of `EmployeeImport` |
| `EmployeeImport` | row, objects, two kinds of jobs, workers, requests and sweeper of one import, and the directory it writes to while others change it | `ImportRows` | `import_*` |
| `Sessions` | the session store of one user beside the handlers and the seed runner that use it | | `session_*` |
| `SessionLife` | what the store promises; `Sessions` implements it | | `session_store` |
| `Access` | registration, verification, invitations, changes of roles, Google sign-in, new organizations | ends where `Sessions` begins | `access` |
| `Workforce` | departments, employees, compensation with history and idempotency keys, page by page reading | | `workforce` |
| `*_proofs` | theorems about the module they are named after | | |
| `MC*` | small instances for TLC | | |

Parameters are constants with named assumptions, there is one action per operation
or statement, and no `RECURSIVE` operator anywhere.

What is left to do: an abstract specification of an import, as `ExportLife` is one of an
export; and the clean-up of many rows at a time, of which the model has only the number of
rows in front of this one (section 3).

## 3. `EmployeeExport`

### State

| Variable | Code |
|---|---|
| `row` | the `EmployeeExport` row: `status`, `processedRows`, `lastProcessedEmployeeId` (`cursor`, 0 for null), `nextBatchNumber` (`nextBatch`), whether `finalObjectKey` is set (`key`); `"ABSENT"` before the insert |
| `staging`, `final` | the objects under `staging/` (part number to the employees in it) and under `final/` (the file, as the sequence of chunks it was built from) |
| `directory` | which employees exist; ids are numbers whose order stands for `orderBy: { id: "asc" }` |
| `jobs` | what BullMQ knows: id, state, attempts made, stall count, the lock's owner |
| `worker[w]` | where the worker's `process()` call is (`pc`) and the locals that survive an await: `cursor`, `batch`, the page fetched, the `processedRows` read at the top of the loop, the parts of the file |
| `request[r]` | the same for a handler of `service`: the status, batch number and key read before the update |
| `sweeper`, `expired` | the cleanup job between deletion and update; `expiresAt <= now` |
| `stable`, `left` | history of who was there throughout; what is left of the bounds |

### Actions

One action is what happens between two awaits. `Start` is the read of
`runExport` and its branches, `Claim` the conditional QUEUED to PROCESSING update,
`ReadState`, `Fetch`, `Upload`, `Checkpoint` the extraction loop, `ClaimFinal` and
`MissedFinal` its end, `Finalize`, `BuildPart`, `UploadFinal`, `Complete`, `Tidy`
the file, `Wipe` and `ConfirmCancel` `cancelCleanup`, `Park` the PAUSING to PAUSED
update (written three times in the code). `Throw` is an error of any of these
calls without effect; an error after the effect is the step itself followed by
the `Throw` of the next call, and where no call follows the action has the second
outcome itself. `RetryLater`, `MarkFailed` and `MarkFailedThrows` are the catch
block. `StartThrows` is separate because the first read is outside the `try`.

The API's actions are `CreateRow`; `Pause`; `CancelRead` followed by `CancelNow`
and `Cleanup` or by `AskCancel`; `ResumeRead`, `ResumeClaim`; `Enqueue`,
`EnqueueRefused`, `EnqueueThrows`, `Undo`. `SweepExpired`, `SweepDelete`,
`SweepMark` and `SweepStale` are `runCleanup` for this row. A pass lists at most
`CleanupBatch` rows of each kind (`EMPLOYEE_EXPORT_CLEANUP_BATCH`, 100). `Older` is the number
of FAILED and CANCELLED exports that were over before this one, which come before it in every
list.

External to the repository, modelled from how it is used: BullMQ (`Added`,
`Take`, `Return`, `Rethrow`, `Stalled`, `LoseLock`), process death (`Crash`,
`Abort`), and whether the queue refuses a custom job id with a colon
(`RejectsColonIds`; the import service says that BullMQ v6 does, the export
service uses such ids). Both values are checked.

Left out: progress percentages, `totalRows`, file names and the encoding of
cells, the contents of an employee's record (only who is in a chunk), job
progress events, tenancy checks before each handler, reads that change nothing
(`list`, `detail`, `download`). The file name contains the day; a finalize
retried after midnight leaves a second object, which the single `final` abstracts.
Employees are hired with any id that is not in use, as cuid order is not time
order across processes.

### What it implements

`ExportLife` is the export as its user knows it, without queue, workers, retries and
objects: `stage`, the `log` of the chunks that count, the `file` a download returns, and
who is `due`, having been there all along. A chunk is added (`Seal`) only while it runs
and only behind all others; it closes only when nobody due is missing (`Close`); the file
is the log (`Deliver`), stays until it expires (`Expire`), and there is none for an export
that ended otherwise (`Cancel`, `End`). `KeepsPromise` is this specification under a
mapping (end of `EmployeeExport`):

| `ExportLife` | is in `EmployeeExport` |
|---|---|
| `stage` | `Stage`: QUEUED and PAUSED are "resting", PROCESSING and PAUSING "running", CANCELLED and FAILED "over", COMPLETED "delivered" until the link expires |
| `log` | `Log`: the staged parts below `nextBatchNumber` while the export is live. A part that was uploaded and not counted is not in it, so an upload repeated after a crash does not show |
| `file` | `File`: the final object, as long as it can be downloaded |
| `due` | `stable` |

### What is checked

The instances have one or two workers, one or two handlers, two or three
employees, chunks of one (of two and then one in `export_resume`), three attempts
(`EMPLOYEE_EXPORT_MAX_ATTEMPTS`; two in `export_resume`), one tolerated stall (BullMQ's
default), clean-up batches of two and one older export in front of this one.
`Bounds` names what users and faults may still do; each cfg gives the counts. That is enough for every situation the
properties are about: two chunks make "before" and "after" a checkpoint differ,
two workers make a zombie and its replacement, four errors exhaust three attempts
and leave one, two errors exhaust two attempts and leave chunks behind, two requests are a race, four are two pauses and two resumes, and two
changes of the directory are a hire and a departure around a chunk boundary.

| Run | Question | Result |
|---|---|---|
| `export_faults` | calls that throw, a killed worker, three requests, employees hired and deleted between pages: is every file whole (each employee present throughout once, in order), every end final, nothing back after a cancel, and the whole an implementation of `ExportLife`? | holds, and proved |
| `export_resume` | pause, resume, cancel racing with two workers: one extractor, quiet while paused, exact counter? And, under fairness, are the chunks of an export that is over deleted eventually? | holds; all but the last also proved |
| `export_zombies` | worker that lost its lock beside its replacement: does the row only count stored chunks? | holds, and proved |
| `export_settles` | does started work come to rest, has a queued export a job? | holds; the job of a queued export also proved |
| `export_truncated` | is the file whole with a zombie worker? | violated (section 9) |

Two behaviours break what one might expect; the model has them and no property is
about them:

- *A cancel can be lost* (`processor:154`). The worker reads PAUSING, the user cancels
  (CANCELLING is written), the worker's PAUSING to PAUSED update matches nothing, and
  its result is not looked at. The job completes; the row stays CANCELLING.
  `WorkSettles` therefore counts CANCELLING as rest.
- *Limbo* (`processor:70`). The first read of `runExport` is before the `try`. If it
  throws on the last attempt, the row stays QUEUED or PROCESSING and no job is left.
  `export_settles` has fewer errors than a job has attempts.

Two more behaviours are in the model and no listed run is about them: the final
object is uploaded before the row knows its key, so an export that fails in between
leaves an object that no sweep finds; and a continuation's id is `<id>:resume:<n>`, which the queue may refuse
for its colons (`RejectsColonIds = TRUE`): then every resume fails and puts the
export back to PAUSED. If the queue takes it, two resumptions at the same batch number
use the same id, and the second is ignored while the first job is still returning:
the export is then QUEUED without a job, which is why `QueuedHasJob` is checked in
`export_settles` (colons refused) and not in `export_resume`.

Exceptions the passing properties state or their runs exclude, because the code
does not promise more: `DownloadableIsWhole`, `ProgressExact`, `SingleExtractor`
and `CancelledStaysClean` do not hold when a worker loses its lock and goes on
(the first is a finding; the checkpoint is unconditional); `SingleExtractor` also
needs that no worker dies between writing PAUSED and returning, since the
redelivered job then runs beside the resumed one; `QueuedHasJob` does not survive
the death of the API process between the insert and the enqueue;
`TerminalIsFinal` allows a create whose enqueue failed to turn its row, cancelled
meanwhile, from CANCELLED to FAILED.

`StagingSwept` is about chunks that are still there when the export is over: those of an
EXPIRED one in any case, those of a FAILED or CANCELLED one if `Older < CleanupBatch`. It is
checked in `export_resume`, where a job can use up its attempts (an export becomes FAILED with
chunks left), a cancel may beat the worker to the clean-up, and the tidying of a finished
export may fail. The condition is needed. `runCleanup` (`processor:415-429`) takes the 100
FAILED and CANCELLED rows that were untouched longest, deletes their objects and leaves the rows
as they are, so the next pass takes the same 100: once there are that many, the chunks of every
younger one stay. With `Older = 2` and the condition left out, TLC finds an export that stays FAILED
with its chunks. The rows that expire are marked EXPIRED and make room for others.

`CHECK_DEADLOCK FALSE` everywhere: an export ends, and users owe nothing.

### Fairness

`Fairness` is weak fairness of every running worker (`WorkerStep`), of the queue
handing out waiting jobs (`Take`) and noticing stalled ones (`Stalled`), of a
handler that has begun (`RequestStep`), of the clock (`Expire`) and of the
hourly sweeper (`SweepStep`). The code justifies each: a promise chain runs on,
BullMQ polls, and the scheduler upserts a repeating job at boot. That the sweeper comes is
not that it gets to this row: the list it works on is full when there are a batch of older ones, so
`Older < CleanupBatch` is a guard of `SweepStale`, and fairness gives nothing where it is
false. There is no
fairness for starting requests, for faults or for the directory, and none for
`BuildPart` beyond that of its worker. Nothing is strongly fair.

## 4. `Sessions`

### State

One user; every other user has keys and rows of its own. A session id, and the
secret a refresh draws, are fresh random values, so the model names both by the
request that draws them.

| Variable | Code |
|---|---|
| `session` | `auth:session:<id>`: the secret whose hash is stored, the organization, the role, and `era` for the membership id (a recreated membership has a new `cuid`) |
| `index` | the set `auth:user-sessions:<userId>` |
| `blocked` | `auth:session-block:<userId>` |
| `account`, `member`, `open` | the `User` row and which password it has; the role per organization; whether the organization and the membership are both ACTIVE |
| `link` | `AuthActionToken` rows of type PASSWORD_RESET |
| `held` | every refresh cookie ever sent: a browser, or somebody else, may present any of them |
| `call` | where each request's handler is and what it read |
| `seed` | the phase of the seed runner, which holds an advisory lock |
| `epoch`, `born` | history: how often the user was deleted, and when in that count a session was created |

### Actions

A Lua script is one action (`CreateSession`, `Rotate`, and `Select` inside
`ClearTenant` and `Activate`); everything around it is as many as there are awaits.
`Refresh`, `Rotate`, `Reread`, `CheckTenant`, `ClearTenant` are
`AuthController.refresh`; `Look`, `Unlist`, `Drop` are `revokeSession`, reached by
`Logout` and by a replayed secret; `ListSessions`, `DeleteSessions`, `DropIndex` are
`revokeAllUserSessions`, reached by `CommitReset` and `UpdateRole`. `Switch` and
`Identify` are the session guard in front of `Choose` and `Activate`. The runner's
actions are the phases of `runRollback` (`StartRollback`, `BlockSessions`, the
clean-up `SeedList`, `SeedDelete`, `SeedUnindex` before and after `DeleteUser`) and of
`runSeed` (`StartSeed`, `ReconcileUsers`, `ReconcileMemberships`, `VerifySeed`,
`UnblockSessions`). `CallFails` and `SeedFails` end a handler or the runner anywhere;
`SessionExpires` and `IndexExpires` are the time-to-live of the keys.

Left out: wrong passwords and codes (they change nothing), suspended or unverified
users, expiry of links (it only refuses more), the audit rows, registration,
verification, Google and invitations (they open sessions as a login does), the
access token (the guard takes only the session id from it and reads the record), a
record that does not parse, a seed run without `REDIS_URL`, and a call that Redis
carries out but whose reply is lost and resent by the client library.

### What is checked

`Bounds` gives the requests of each kind; each request is served once. Four requests
over one organization are enough for the races the properties are about: one or two
actors open a session, one or two others read it, and one revokes it. `session_store`
allows up to three refreshes, two resets with one link, a role change and a seed run,
any four of them together; three seed runs in `session_rollback` are a rollback, a reseed
and the repetition of either after a crash, beside two logins, a refresh, a logout and a
role change, each of which may fail at any call.

| Run | Question | Result |
|---|---|---|
| `session_store` | everything at once, with expiry and suspension: does a secret or a link work once, does a replay end the session, are the old sessions gone when the first revocation answers, does the store keep the promise `SessionLife`? | holds, and proved |
| `session_rollback` | can a session outlive the deletion of its user, when rollbacks and reseeds crash and repeat beside logins and failing calls? | no, and proved |

Three behaviours of the model no property forbids. The comments promise more than holds in
the first two: "Revoke them all so stale authorization can never be reused"
(`organization.service.ts:245-248`) and "All old sessions become unusable"
(`auth.service.ts:449`). What does hold, and is proved, is that the first revocation that
is answered has ended every session there was when the change was committed, but for what a
logout failed to delete.

- *An orphaned session* (`session.service.ts:243`). `revokeAllUserSessions` is three calls.
  A login between the first and the last leaves a session whose index entry is deleted
  with the index; the next revocation does not find it. `FirstRevocationHolds` and
  `NoLeftover` are therefore stated up to the first revocation that is answered; a session
  from before a second role change or reset may survive it. One
  that dies on its way has not touched the index and excuses nothing.
- *A stale role* (`auth.service.ts:351`). A login that read the membership before a role
  change creates its session after it, with the old role; one that verified the password
  before a reset creates it after the reset.
- *An undone switch.* A refresh whose check and whose clearing of the organization are
  two calls, with a switch in between, undoes the switch.

Both excuse a session whose deletion another handler is about to carry out (`Ending`),
and one that a logout, or the end of a replayed session, removed from the index and then
failed to delete (`GivenUp`): no revocation finds its record either. `CHECK_DEADLOCK FALSE`: requests are finitely many. No liveness is
claimed, and the specification has no fairness: a handler that stops only leaves what a
crash leaves.

## 5. `ImportRows` and `EmployeeImport`

### The file

`ImportRows` is the pure part of the worker: which column a header is (`Resolve`: fixed
names first, the model's answer for what they leave open, `BadHeaders` when that is not
enough), which rows are wrong (`Malformed`, `Repeated`, `Owned`, `CodeConflicts`), what is
to be done with the others (`KindOf`), and which departments they need under which codes
(`Missing`, `Plan`, `FreeCodes`). Columns no decision tells apart are one, `rest`. A cell is
a model value; `Bad` stands for whatever the rules of its column refuse. `FileAssumption`
of `EmployeeImport` says so much of a file: under the columns its headers turn out to
be, each cell is empty, refused, or something its column can say.

### State

| Variable | Code |
|---|---|
| `row` | the `EmployeeImport` row: `status`, whether `normalizedPrefix` is set, the numbers of invalid, unchanged and all rows, the department plan, `createMissingDepartments`, the checkpoint `lastAppliedRowNumber` (`last`) with its counters |
| `file`, `source`, `parts` | the user's file; `source/original.<ext>`; `normalized/part-n.ndjson` |
| `staff`, `departments` | the directory the import is applied to, which colleagues change too |
| `jobs` | the two kinds of jobs, with attempts, stalls and owner |
| `worker[w]` | where the worker's `process()` call is and the locals that survive an await: resolved columns, valid and wrong rows, the buffer, the batch, the transaction under way |
| `request[r]`, `sweeper`, `expired` | as for exports |
| `written`, `swept`, `overtaken` | history, see below |

### Actions

`ClaimValidation`, `Parse`, `Refuse`, `Classify`, `PlanDepartments`, `Stage`, `Ready` (and
`Abandon`, `Discard` when the import was cancelled meanwhile) are `runValidation`; `Look`,
`ClaimApply`, `Resolved`, `ReadPart`, `ReadState`, `ApplyRow`, `Commit`, `Checkpoint`,
`Finish`, `Halt`, `Park` and `Late` are `runApply`. A batch is one transaction: `ApplyRow`
collects its writes in `tx`, `Commit` makes them visible, `Checkpoint` is a later, separate
write. When a row fails inside the transaction for a reason of the database, PostgreSQL
aborts the transaction: the statements after it fail too, the commit rolls back, and the
counters of the code still count what went before (`aborted`). Until its end a transaction
keeps others waiting: a row of another worker, a hire or a dismissal that touches an employee
number or an email in some `tx` (`InFlight`, `Locked`), and the closing of a department that `tx`
refers to. An error of the database, or the end of the worker, lets them go on. `Throw`, `Rethrow` and
`GiveBack` are a call that throws, the catch block and the end of an attempt; `Crash` and
`Stalled` a killed worker and the queue noticing it.

The requests are `Create`, `PutFile` and `UploadComplete` with `MarkUploaded`; `Confirm`
and `Resume` with `ClaimConfirmed`; `Enqueue` and `Undo`; `Pause`; `Cancel` with
`CancelIdle`, `CleanArtifacts` and `FlagCancelling`. `SweepList`, `SweepDelete`,
`SweepMark`, `SweepStale` are the cleanup. `Hire`, `Dismiss`, `OpenDepartment` and
`CloseDepartment` are what colleagues do to the directory meanwhile. An employee is known by
the number and a department by its name and code: one that is dismissed and hired again, or
closed and opened again, counts as the same, where the code would meet a new id.

An external fact the model relies on: the client (Prisma) refuses an update that names a
column its schema does not have.

### What is checked

| Run | Question | Result |
|---|---|---|
| `import_steered` | pauses, resumptions and cancels with two workers, a killed worker, a failing call and a changing directory: is a completed import whole, do totals and checkpoint agree with the directory, is it quiet while paused and after a cancel, is the end final? | holds, and proved |
| `import_files` | seven kinds of files, among them missing and doubly spelled departments, taken codes and emails, repeated numbers, no rows and unreadable files: are the staged parts the file, is what was reviewed applied when nobody interferes, does the directory keep its unique values and references, does a confirmed import end? | holds; all but the last also proved |
| `import_stranded` | is an import in progress always going to be worked on? | violated (section 9) |

Two rows in a batch of two with a third behind it make "before" and "after" a checkpoint
differ; one update and two creations, one of them in a department to create, are one of each thing a
batch does; `import_files` has parts of one row and batches of two, so that a batch
spans parts. Two attempts suffice for a retry and its exhaustion. Four requests are upload, confirm, and
two of pause, resume and cancel. `mishaps` bounds faults, colleagues and expiry together
to one or two, so that each is combined with every interleaving of the requests;
`import_files` leaves expiry out, which `import_steered` lets happen at any moment.

`Orderly` in front of most properties excludes three kinds of behaviour the code permits
and no text of the repository rules out, noted in history variables when they occur:

- `overtaken`, by a write: one by id alone meets another status than the one it is meant
  for (`employee-imports.service.ts:205`, `:231`, `:305`: QUEUED or a restored status
  written over a cancel that came in between);
- `overtaken`, by a job: it takes up an application that another job is at, or has ended or
  parked (a worker killed after it wrote PAUSED is delivered again, and may find the
  import resumed and APPLYING under the job of the resumption);
- `swept`: the sweeper lists expired imports whatever their status, so the objects of one
  in use may be deleted under its worker, which takes the end of the parts for the end
  of the file (`employee-imports.processor.ts:1291`).

Two faults are not in the model: a worker that lost its lock and goes on (here a job is only
taken from a worker that is dead), and a handler of the API that dies between two calls. The
first is in `EmployeeExport`, and what it does to a checkpoint written by id alone is a finding
there (section 9); the import's checkpoint (`employee-imports.processor.ts:1157`) is written by id alone too.

Further behaviours the model has and no property forbids: the rows a batch had counted before
its transaction was aborted stay counted although they are rolled back (`processor:1141`; the
totals still add up, and the import does not end COMPLETED); a retry that finds PAUSING or
CANCELLING returns at once, and nobody is left to act on the flag (`processor:935`); a
pause between the last batch and COMPLETED is not noticed, and the import stays PAUSING
(`:1263`); a cancel that read APPLYING and meets PAUSED does nothing; a cancel of a
PAUSED import gives CANCELLED although rows were applied, not CANCELLED_PARTIAL.

### Fairness

`FairSpec` is weak fairness of every worker, of every handler that has begun and of the
queue's search for stalled jobs: the event loop runs on and BullMQ polls. Nothing makes
users ask, colleagues act or faults happen, and the sweeper is not needed. `Settles`
is checked with two errors or one crash and three attempts: with as many errors as
attempts it is false, which is the finding of `import_stranded`.

## 6. `Access`

A user is named by the email, which no code changes. `users`, `organizations`, `members`,
`identities`, `links` (EMAIL_VERIFICATION tokens) and `invitations` are the tables, `states`
the OAuth states in Redis, `inbox` what was sent by email, and `handler[h]` what a request
has reached and holds. A transaction keeps what it inserted or updated in `locks` until
it commits; a statement that meets the same unique value or row waits
(PostgreSQL, READ COMMITTED), then sees the outcome. `uses`, `opened` and the `barred` of
a handler are history.

`Register` to `CommitRegistration` are `AuthService.register`; `Found` and the same steps
`createOrganization`; `Verify`, `ReadLink`, `ConsumeLink`, `Confirm`, `ReadMemberships`
are `verifyEmail`; `Resend`, `LookResend`, `RevokeLinks`, `MintLink` its resend. `Invite`,
`Revoke`, `Accept` (with a session, or as a new user: "join") and the steps they share are
`InvitationService`; `ChangeRole`, `Permit`, `FindTarget` and `WriteRole` are
`OrganizationService.changeRole` up to the revocation of the member's sessions, which
`Sessions` has; `Start`, `SaveState`, `Callback`, `ConsumeState`, `FindIdentity`,
`FindNewcomer`, `CreateGoogleUser`, `LinkIdentity`, `ClaimInvitation`, `MatchAddressee` are
`GoogleService`. `Suspend` is an operator (no code suspends anything), `Expire` time,
`Crash` a process that dies or a call that throws anywhere.

| Run | Question | Result |
|---|---|---|
| `access` | two handlers, one organization, an owner who may invite managers and employees, a Google account that changes its email to somebody else's, five requests or faults in all: does an acceptance always make a member, does a membership come from an acceptance and its role from that or from an owner, does each token work once, does nobody join with a revoked invitation, is a Google subject one user, does no suspended account get in, can transactions wait for one another for ever? | holds, and proved |

Five in all are an invitation, its revocation and two acceptances with a crash, or three
callbacks from Google with two states. Both handlers may serve any two of them at once.
Passwords are never wrong here, expiry only refuses more, and the sessions that are
opened are those of `Sessions`. A login is a way in too, and is modelled there:
`BarredStaysOut` is about verification, new organizations, invitations and Google. `Reaches` states whom an invitation is for: the user
of its email, or the user of a Google account that shows this email, whatever email the
user registered with. `changed` of a membership is history: an owner has changed its
role. `MembersAreInvited` says that whoever is not an owner accepted an invitation that was for
them and has its role until then, and that no change of a role makes or unmakes an owner,
although `FindTarget` checks and `WriteRole` writes later, by id.

Behaviours no property forbids: `revokeInvitation` writes by id, so an invitation
accepted since it was found is both accepted and revoked, and the membership stays; two
resends at the same time leave two live links; a crash after the link was consumed and
before the email was confirmed leaves the user to ask for another link.

## 7. `Workforce`

Tables of one organization: `staff`, `departments`, `pay` (EmployeeCompensation),
`history` (CompensationHistory), `keys` (MutationIdempotency). `handler[h].locks` is what a
transaction under way has inserted or updated, the keys of referenced rows included, as
in `Access`: unique indexes and foreign keys are what this code relies on, so waiting for
them is part of the model. `reader` is a client that reads the directory or one history
page by page; `stable` is who was there all along.

`CheckDepartment`, `OpenDepartment`, `EditDepartment`, `CloseDepartment` are
`departments.service.ts`; `FindKey`, `Reserve`, `ReplayCommitted`, `Complete` the idempotency
service; `FindDepartment`, `InsertEmployee`, `CommitEmployee`, `ReadEmployee`,
`CheckEmployee`, `WriteEmployee`, `FindEmployee`, `GuardEvidence`, `DeleteEmployee`
`employees.service.ts`; `FindPaid` to `CommitPay` `compensation.service.ts`; `StartReading`
and `ReadPage` the two lists with `buildCursorPage`.

| Run | Question | Result |
|---|---|---|
| `workforce` | two handlers, four requests or crashes: is the history of a salary in step with its version, does a key act once and answer the same, is nobody deleted who has been paid, is every employee in a department and every unique value unique, does paging list whoever stays exactly once, can transactions wait for one another for ever? | holds, and proved |

Three changes of compensation are two that race for the first version and one that
builds on it; two employees of one name and pages of one item make the id decide where a
page ends. The two employees that may be hired have one number, and one of them an email too, so
two transactions may want the same values at once.

`NoStandstill`, here and in `Access`, is about the waiting itself: `Wants(h)` is what the
next statement of a request needs (unique values, rows, a reservation), `WaitsFor` who holds
it. It says that of any requests that wait, one waits for none of the others, so there
is no circle, and that nobody waits for a request that is over: an answer, an error or a
death releases everything. `Waits(h)` was compared with `ENABLED Serve(h)` in a
run: a busy request can take its next step exactly when it does not wait. Its mutants invert the
order of locks: the unique values of an employee claimed one at a time, whichever is free first
(`InsertEmployee_OneByOne`), and a registration that closes the invitations of its email after
it inserted the user (`Wants_Invited`). The batches of imports take such locks too (`Locked` in
`EmployeeImport`); they are not part of `NoStandstill`.

Two writes are simpler than in the code: a PATCH of a department, and of an employee's number
(which is not written when it is the one that was read, `employees.service.ts:782-793`), write all
columns they have. No property depends on it.

Behaviours no property forbids: two PATCHes, one of each date, can leave the end before
the beginning, since the dates are checked on what was read and only the fields of the
body are written (`employees.service.ts:902`); the department's name is as unique as its code, but only the code is answered as a
conflict; the replay of a key may answer with an employee deleted since.

## 8. Proofs

### `EmployeeExport_proofs`

Its theorems hold for any finite set of employees and any sets of
workers and handlers, any `Bounds`, `BatchSize`, `MaxAttempts`, `MaxStalledCount`,
`CleanupBatch` and `Older`, from the four assumptions `EmployeeExport` names (ids are
positive numbers and every non-empty set of them has a greatest element; `None`
is not a worker; the numeric parameters are numbers; `Bounds` is a function to
`Nat`). TLC evaluates the assumptions in every run.

- `TypeCorrect == Spec => []TypeOK`. Not inductive alone: a checkpoint writes the
  last id of the worker's chunk, which has one only if the chunk is not empty, so
  `TypeInv` adds `ChunkFetched`. One lemma per variable (`TypeRow`, `TypeWorker`,
  `TypeJobs`, `TypeRequest`, `TypeObjects`, `TypePeople`, `TypeRest`), one case per
  action, combined in `TypeStep`.
- `Durable == Spec => []CheckpointDurable`. The invariant `DurableInv` adds two
  facts. `WorkerDurable`: every worker in the loop, a zombie too, holds a batch
  number up to which all parts are staged, and one about to checkpoint has staged
  its own; so an old worker may move `nextBatch` back but never past a missing
  part. `DeletersAreLate`: whoever is about to delete chunks (the worker after
  COMPLETED or on CANCELLING, a cancel that won its update, the sweeper) acts on an
  export that is over. `EndIsEnd` shows that no step leads back, and `ChunksKept`
  that until then no chunk is deleted. TLC found `DurableInv` invariant on the
  instances of `export_zombies`, `export_faults` and `export_resume` before it
  was proved.

### `Extraction_proofs`

What an export promises while nothing takes a job from a worker that goes on. The
hypotheses are states of the bounds, true in the runs that check the properties and
false as soon as the excluded fault has happened: `LocksKept` (no lock was lost);
`Undisturbed` (and, if the queue takes the ids of resumptions, no worker died and no
reply was lost, since a redelivered job would run beside the resumed one); `Answered`
(no reply was lost); `Attended` (the queue refuses a second id, no lock was lost and no
handler killed); `FewFaults` (fewer throwing calls and lost replies than attempts, no
more dead workers than tolerated stalls). Section 3 says what the code does without them.

- `OneExtractor == Spec => [](Undisturbed => SingleExtractor)`. `SoloInv`: what remains of
  the bounds only shrinks (`Budget`), every running job has one worker (`Owned`), and
  `Sole`: either there is one job for good (`OneJob`), or a second one is added only
  when the first has nothing more to do (`OneAtWork`). `OneBusy` concludes that at most
  one worker is at work.
- `QuietPause`, `CancelledIsClean`, `StableDownload`: no step writes an object or the
  checkpoint of a PAUSED export, brings an object back to a CANCELLED one, or changes a
  file that can be downloaded. `PlaceInv` says where a worker can be for each status of
  the row (`Where`), and `ObjectsMove` who writes and deletes objects.
- `FinalIsFinal`: a terminal row changes only by expiry or by a create that failed. It
  needs `Answered` too: a create whose job was stored although it was told otherwise
  marks FAILED under the worker, which goes on to COMPLETED. `EndInv` says that else
  nobody is at work while the first job is not stored (`Early`) and no worker goes on
  after FAILED (`Alive`).
- `WholeDownload`, `ExactProgress`: `DeliveryInv` keeps the worker in step with the row
  (`InStep`), the parts with the directory up to the cursor (`Content`) and the file
  whole from its upload to its expiry (`Delivered`). That a page of the next ids leaves
  out nobody who stays is `PageFacts`, an argument by a least element
  (`WellFoundedInduction` gives it for numbers).
- `NoOrphan == Spec => [](Attended /\ FewFaults => QueuedHasJob)`: `QueueInv` counts. The
  attempts and stalls of a job are paid for by faults (`Counted`), so with fewer faults
  than attempts the job is still there.

- `PromiseKept == Spec /\ []Undisturbed /\ []Answered => KeepsPromise`: the refinement of
  `ExportLife`. Its hypotheses are those of `WholeDownload` and `FinalIsFinal` together: a
  worker that lost its lock may go back behind the log, and a create that reported FAILED
  may have a job that goes on. `PromiseInv` collects the invariants above and adds two:
  `ExpiresLast` (what is EXPIRED or being swept has a link that expired) and `Built` (the
  object about to become the file is the log, chunk by chunk). There is one lemma per
  kind of step (`WorkerKeeps`, `RequestKeeps`, `RestKeeps`): each is one action of
  `ExportLife`, or does not show. The checkpoint is `Seal` (`SealStep`); that all others leave
  the log alone is `LogKept`, from `PartsKept`: parts below the checkpoint are not rewritten.

TLC found each of these invariants to hold on the instances of the export runs before it was
proved. Only model-checked for exports: the liveness properties `WorkSettles` and
`StagingSwept`.

### `Sessions_proofs` and `SessionLife_proofs`

They hold for any sets of requests, organizations and roles, any `Bounds` and any
`Environment`, from three assumptions of `Sessions` (`Null` is no value of the other
kinds; `Owner` is a role and `SeedRole` gives one per organization; `Bounds` is a
function to `Nat`).

- `SessionsTypeCorrect == Spec => []TypeOK`. The strengthening is `CallsAimed`: a
  handler working on a session knows which one, a reset knows its link, a role
  change its organization and role. `HandlerCalls` has one case per action of a
  handler, `HandlerStore`, `HandlerDatabase` and `RunnerType` the rest.
- `StoreLives == Spec => LivesOnce` (that is, `Life!Spec`) and
  `NoResurrection == Spec => DeadStaysDead`. The invariant is `StoreInv`:
  `DrawnOnce` (a request that opened a session is over, one about to rotate has not
  drawn its secret yet) and `SecretsApart` (the secret of every session was drawn,
  and for no other session). The argument has two halves. `StepShape` shows, action
  by action, that a step does one of three things to the store: it ends sessions and
  keeps the secrets of the others (`Keeps`), it gives one session a secret never
  drawn (`Rotates`), or it opens one (`Opens`). `EndStep`, `RotateStep` and `OpenStep`
  map each to the action of `SessionLife` of that name, `ApartStep` shows that each
  keeps the invariant, and `DeadStaysDead` is read off the three. TLC found
  `StoreInv` invariant on the instance of `session_store` first.

Type correctness of all components but `Workforce` is proved, like `NoResurrection`
and `StableDownload`, and no listed run checks it; what `Workforce` needs of it is in `Inv` and `DirInv` below.

### `Revocation_proofs`

The rest of what `session_store` and `session_rollback` check, from the same assumptions
and without hypotheses.

- `CredentialsWorkOnce`, `ReplaysRevoke`: `CredentialUsedOnce` and `ReplayRevokes` are
  invariants. `KnownInv` says what a handler knows of its own request (`Route`: each kind
  goes its own way; `Known`: its cookie is of a session there was, its link was sent).
  `Served` describes a step of a handler as far as credentials are concerned, and one
  lemma per action shows that it is such a step. `UsedInv` adds that whoever has been
  given something has spent its credential for everybody else (`Beaten`: the secret is
  no longer the session's, the link no longer live) and that a replay was answered after
  its session had gone (`Avenged`).
- `RevocationHolds`, `RollbackLeavesNone`: `FirstRevocationHolds` and `NoLeftover` are
  invariants. `SweepInv` follows the sessions that are to go: as long as nobody else has
  finished a revocation every live session is in the index or is being ended (`Tracked`);
  what was there when a revocation read the list is in what it read, and gone once it
  has deleted (`Sweeping`); the same for the runner (`Listed`, `Swept`), which nobody
  overtakes because creation is blocked while the user is away (`Blocking`), so no session
  is of a user deleted before (`OfThisUser`).

TLC found the three invariants to hold on the instances of both runs before they were proved.

### `Workforce_proofs`

It holds for any sets of handlers, employees, keys, bodies and any `Bounds` and `Limit`,
from the assumptions `Workforce` names (ids and expected versions are numbers, a page
has room for an item, every employee has the columns that are never null).

- `KeysActOnce`, `ReplaysSaySame`, `HistoryFollows`, `EvidenceStays`: the properties
  `KeyActsOnce`, `ReplaysAgree`, `HistoryInStep`, `EvidenceKept` are invariants. All four
  come from one inductive invariant, `Inv`, because the reasons are entangled:
  - `Apart`: no two transactions hold one reservation or one row of `pay`;
  - `KeyHeld`: between reservation and commit a request holds its key and nobody has
    committed it, which is why a second attempt cannot act;
  - `Stands`: a change about to update read a version the row still has or will never
    have again, as versions only grow; `Holds`: one about to commit holds the row and the
    employee and knows the amount it replaces;
  - `Recorded`, `Remembered`: every history entry and every answer belongs to a committed
    key, which still says what it said;
  - `Series`: the history of an employee is `1 .. version` and linked amount by amount.

  `Quiet` shows that a step outside the tables of compensation and keys keeps all this;
  `Completed` is what the two commits do to a key, `SeriesGrows` that the history grows by
  one at its end, `OtherRaises` that changes that raced with the one that commits stay
  careful: they find a later version, or another employee. TLC found `Inv` invariant on
  the instance of `workforce` first.
- `StaysAnchored == Spec /\ Anchored => []Anchored`: it is the code that keeps the
  directory consistent, not the one it begins with, so the theorem starts from any that is.
  `DirInv` adds what makes it inductive: whoever hires holds, from the insert to the
  commit, the number, the email, the id and the key of the department (`Hiring`), and
  nobody else can insert, rename or delete what is held.
- `PagesComplete == Spec /\ Anchored => []ListedOnce`. The pages are defined by rank: the
  items after the cursor that have fewer than `Limit` others before them. Lemmas over
  finite sets (`FiniteSetTheorems`, a least element from `WellFoundedInduction`) show that
  such a page is an initial segment, in order, and that it has an item when there is one.
  `Reads` then says, while the client reads: everything listed is at or before the
  cursor and everybody who stays is behind it or listed (`Behind`).
- `NobodyStuck == Spec => []NoStandstill`. `Held` says where a transaction can hold what:
  nothing before its reservation, and only its key until it is about to commit. Whoever
  waits for a key therefore waits for somebody inside a transaction, who can wait for
  somebody about to commit at most, and that one waits for nobody: no chain of waiting
  is longer than two.

### `Access_proofs`

It holds for any sets of handlers, users, organizations, roles and tokens, any `Profiles`
and any `Bounds`, from the assumptions `Access` names: slugs are numbers and no emails,
nobody may invite an owner, the memberships at the beginning are of users and organizations,
and Google confirms emails. `MembersWereInvited` starts from memberships of owners only.

- `TokensWorkOnce`, `AcceptanceCounts`, `SubjectsStay`: the properties `UsedOnce`,
  `AcceptedIsMember`, `SubjectIsOneUser` are invariants.
  The inductive invariant `Inv` has a part for the requests, `Sound`, and one for the
  tables, `Store`:
  - `Taken`: from `updateMany` to the commit a transaction holds its invitation, and it
    is still pending; with `Apart`, no two hold the same one. This, not what
    `findValidInvitation` read, is why an invitation is accepted once and why a revocation
    between the two is final;
  - `Matched`, `Addressed`, `Linked`: organization, role and addressee are still those of
    the invitation, and a callback's user is the one its identity names, so whoever is
    enrolled is somebody the invitation is for;
  - `Kinds`, `Spent`: a token is a link, an invitation or a state, and a used one says so
    in its row or is gone; `Signed`: sessions of a subject belong to the user of its identity.

  `Grows` is what every step leaves standing (identities, memberships, whom an
  invitation is for), and `Spared` that an invitation somebody holds stays pending;
  `SoundKept` shows that they are all other requests rely on, so the proof of an
  action looks at its own request and its own table (`Quiet`, `Step`, `StillStep`,
  and one lemma per kind of table).
- `RevokedNeverJoins == Spec => RevokedStaysOut`: only `CommitAcceptance` accepts an
  invitation, and `Taken` says that it was pending. TLC found `Inv` invariant on the
  instance of `access` as well.
- `AccessTypeCorrect == Spec => []TypeOK` and `BarredNeverEnter == Spec => []BarredStaysOut`.
  A second invariant, `GuardInv`, stands on the first:
  - `Typed`, `Rows`: users and organizations that rows and requests point to are there;
  - `Reserved`, `Exclusive`: what a transaction is about to insert nobody has inserted and
    nobody else is inserting, and before it commits it has inserted all it needs. This
    is why a commit only adds rows: one that replaced a suspended user or membership
    by a new one would lift the suspension;
  - `Cleared`: at each place where a request has seen its user, its organization or its
    membership (`UserSeen`, `OrganizationSeen`, `MemberSeen`), that was not suspended when
    the request began. It was seen active or not to be there, later than it began, and
    what is suspended stays so (`Barred` only grows, `BarredGrows`).

  `GuardedKept` shows what other steps may do to a request (`Widens`, `Leaves`), and again one
  lemma per action looks at its own request. TLC found `GuardInv` invariant on the
  instance of `access` first.
- `MembersWereInvited == ASSUME Owned PROVE Spec => []MembersAreInvited`: a third layer on
  the two. `Remembered` says what no step takes back (identities, whom an invitation is for, that
  it was accepted). `MembersChange` says what a step does to a membership: an old one keeps
  its role or an owner changes it (`Keeps`), a new one is a founder's or comes with an
  acceptance (`Comes`). That a change of role meets no owner is `Ordinary`, a part of `Typed`:
  between the look at the target and the write by id a membership stays one that is not an
  owner's, whatever others do (`Widens`).
- `NobodyStuck == Spec => []NoStandstill`: `Reserved` says what each transaction holds where it
  is, which gives an order, an invitation before an email, and that before a slug or a
  membership: whoever waits for one holds none of the later ones (`Unwaiting`, `Blocked`).

### `EmployeeImport_proofs`

It holds for any sets of workers, handlers, files, headers and cells, any `Bounds`,
`BatchSize`, `ChunkSize`, `MaxAttempts` and `MaxStalledCount`, from the assumptions
`ImportRows` and `EmployeeImport` name: no value is also `None` or `Bad`, the maps are total,
the numbers are numbers (sizes and attempts at least 1), `None` is no worker, a file is
lines of cells its columns can hold or refuse, and the initial directory is well typed.
`Orderly` is part of the properties (section 5), so the invariants say `Orderly => ...`; once
disorder has been noted it stays, which is why they remain inductive.

- `ImportTypeCorrect == Spec => []TypeOK`. `Typed` adds the shape of what workers and
  handlers hold, and `Checked`: the rows a validator calls good are exactly those it did not
  find wrong, each once, and none is malformed or repeats a number or an email. That
  staged rows and the plan are typed depends on it.
- `PauseIsQuiet`, `CancelHolds`, `EndIsFinal`: `PausedIsQuiet`, `CancelStops` and
  `TerminalIsFinal`. `ControlInv` has four parts. `Queued`: whoever works holds a job of
  its own, of the right kind. `Reviewed`: there are jobs to apply only after a review.
  `Asked`: what a request is about to write follows from what it read. `Control`: for each
  status of the row, where workers, requests and the sweeper may be, and that at most
  one worker is at the application. `Lifecycle` reads the transitions of the status off
  the actions (`RowMoves`).
- `CheckpointHolds`, `TotalsHold`, `CompletedHolds`, `ReviewHolds`: `CheckpointExact`,
  `TotalsAddUp`, `AppliedIsWhole`, `ReviewedIsWhole`. `ExactInv` stands on the two above:
  - `RowExact`: of a reviewed import without wrong rows that has not ended, the parts are
    the file cut into pieces of `ChunkSize` (`Staged`), and the counters are those of the
    rows up to the checkpoint (`Counted`);
  - `Consented`: whoever is about to apply an import, request or job, was let through by the
    check that it has no wrong rows;
  - `WorkExact`: what each worker knows is right where it is. A validator has staged the
    parts before its own (`Staging`), a worker that applies started from the checkpoint
    (`Fresh`), its buffer is the rows read and not yet counted (`Buffered`), its batch the
    first of them, of which those up to the row it is at are counted (`Batched`), and what it
    counted without a failure is committed or in its transaction (`Applied`);
  - `Outcome`: the three properties about counters themselves.

  Pieces, their order and their sizes are lemmas over finite sets (`FiniteSetTheorems`,
  and a least element from `WellFoundedInduction`): the pieces are disjoint, cover the rows,
  and without wrong rows the piece of row `i` is `1 + (i - 1) \div ChunkSize`.
- `UndisturbedHolds`: `UndisturbedSucceeds`. `CalmInv` adds that, while nobody else changes
  the directory, no row has failed because none can: `Writable` says of the staged rows that no
  two are about one employee or email and none has the email of somebody else (`Compatible`),
  and that each one's department is there or in the plan (`Housed`). `Clear` says the same
  of the rows a validator holds, and of a worker that it looked at the directory as it is,
  which also covers a batch applied a second time.

- `DirectoryKept == Spec /\ DirectorySound => []DirectorySound`: if the directory is sound
  when the import begins it stays so, whatever other workers, colleagues, crashes and sweeps do;
  `Orderly` is not needed. `DirectoryInv` adds `TxInv`, which says of the transactions under way
  that the database has not aborted (`Writing`) what `Commit` needs:
  - `Harmless`: what one has written fits the directory as it is *now*. It wrote an employee
    once, no email for two, only departments that exist, and no email of somebody it has not
    rewritten too. `WroteHarmless` is the step for one row: the unique indexes are asked with
    what the transaction itself wrote laid over the directory (`Overlay`);
  - `Apart`: two transactions have no employee and no email in common, so one stays harmless
    when the other commits (`BatchCommitted`).

  Colleagues keep both because they wait for what a transaction holds (`ColleagueActs`). The
  attempt to prove it showed what the model lacked: without these locks a colleague could
  take the email a transaction had just written, and two rows of one batch could create the
  same number.

TLC found the parts of all four invariants to hold on the instances of both runs before they were
proved. It also refuted an earlier form: with five requests, a worker killed after
writing PAUSED was delivered again beside the job of the resumption, while the model
called the behaviour orderly. `ClaimApply` now notes it as overtaken.

### What is only model-checked

Liveness under fairness (`WorkSettles`, `StagingSwept`, `Settles`), which is out of the
prover's reach. Every other property of a passing run is a theorem. Two results are not stated
either: that imports implement an abstract specification, as exports and sessions do (none
is written for them), and type correctness of `Workforce`, whose invariants carry what they
need of the types themselves.

## 9. Findings

- *Truncated file* (`export_truncated`, `employee-exports.processor.ts:199`). The checkpoint
  is written by id alone. A worker that lost its lock and goes on can move
  `nextBatchNumber` back under its replacement, which is about to finalize; the file is then
  built from too few chunks and the export is COMPLETED. The comment at `:239` says that
  retries of finalizing see every chunk.
- *Stranded import* (`import_stranded`, `employee-imports.processor.ts:302-309`). When the
  last attempt fails, the import is marked FAILED by an update that also writes `errorCode`.
  The table has no such column (`prisma/schema.prisma:314-347`, no migration adds one), so
  the update is refused and the row keeps its status without a job. The comment at
  `:298-299` says that the state must not strand in progress.

## 10. Not modelled

- Registration of the clean-up jobs: one idempotent call at boot; the models assume that
  the jobs exist.
- The tables of header names and the model's answers (any answer in a set is possible),
  search by text, dashboards: they change nothing, or only values the properties do
  not tell apart.
- E-mail templates, SMTP and its retries: an email is sent or lost.
- Object storage: a client whose calls succeed or throw.
- Controllers, DTOs, guards, CSRF and request ids, error mapping, configuration, tracing,
  health checks: stateless, or not domain state.
- Generation of the demo data, its fingerprint and its verification; of the runner, the
  phases that touch a user, its sessions and its block are in `Sessions`, the batches of
  business rows are not.
- Clean-up of several rows in one pass: exports and imports are modelled one at a time. Of the
  others only their number counts, for exports (`Older`); the import's sweeper is not needed
  for any property.

## 11. Running

    tlc -config export_faults.cfg MCEmployeeExport
    tlc -config import_steered.cfg MCEmployeeImport
    tlc -config session_store.cfg MCSessions
    tlc -config access.cfg MCAccess
    tlc -config workforce.cfg MCWorkforce
    tlapm EmployeeExport_proofs.tla
    tlapm Extraction_proofs.tla
    tlapm SessionLife_proofs.tla
    tlapm Sessions_proofs.tla
    tlapm Revocation_proofs.tla
    tlapm Workforce_proofs.tla
    tlapm Access_proofs.tla
    tlapm EmployeeImport_proofs.tla

The `MC` modules name the bounds the cfgs use. Operators named
`<Definition>_<Change>` are mutated versions of the definition that follows them,
each the way the code could plausibly be wrong; `PROJECT.json` says which property
finds which of them.
