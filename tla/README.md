# A TLA+ model of Porta Identity

Porta is a multi-tenant OpenID provider: a TypeScript server on PostgreSQL and
Redis, an SDK, and a command-line client. This directory holds TLA+ modules for
the parts of it in which order, concurrency and failure matter, the TLC
configurations that check them on small instances, and proofs, checked by
TLAPS, that hold for every value of the constants.

Paths below are relative to `packages/server/src/` unless they start with
`sdk/` or `cli/`.

## 1. The system and its parts

| Part | State it keeps | Operations | Works with | What is hard |
|---|---|---|---|---|
| Recovery queue (`auth/recovery-job-repository.ts`) | rows of `auth_recovery_jobs`: status, lease, attempts | enqueue, claimAvailable, beginAttempt, scheduleRetry, markCompleted, markTerminalFailure | every worker process | several workers, leases that run out, crashes, lost answers, clocks that differ |
| Recovery worker (`auth/recovery-worker.ts`) | timer, running cycle, wake flag, claimed batch | start, wake, stop, poll cycle | queue, processor, server process | wake-ups during a cycle, failed cycles, shutdown |
| Recovery processor (`auth/recovery-job-processor.ts`, `auth/token-repository.ts`) | the token tables | process, ensureRecoveryJobToken | queue, mail, OIDC interactions | overlapping attempts, retries after partial success, order of jobs |
| Magic-link callback (`routes/magic-link.ts`, `auth/magic-link-session.ts`) | token row, Redis continuation | verifyMagicLink, createMagicLinkSession, consumeMagicLinkSession | token tables, Redis, interactions | two stores, racing callbacks |
| Password reset form (`routes/password-reset.ts`) | token row, password | showResetPassword, processResetPassword | token tables, users | three statements without a transaction |
| Server process (`index.ts`, `auth/recovery-service.ts`) | listening, shutting down | start, signal, shutdown | worker, database, Redis | order of the shutdown, forced exit |
| OIDC artifact store (`oidc/*-adapter.ts`, `oidc/adapter-factory.ts`, `lib/session-tracking.ts`) | `oidc_payloads`, Redis keys, `admin_sessions` | upsert, find, consume, destroy, revokeByGrantId | provider library, user and client status | two stores without a common transaction, revocation cascades |
| Interactions (`routes/interactions.ts`) | CSRF cookie, interaction result | login, consent, abort, magic-link request | provider, users, two-factor | checks made before an await, used after it |
| Users (`users/service.ts`, `users/repository.ts`) | status, failure counter, lock fields | create, activate, deactivate, lock, record failure, delete | caches, audit, RBAC | status read without a lock; automatic unlock |
| Super-admin protection (`lib/super-admin-protection.ts`, `rbac/user-role-service.ts`) | role assignments | remove role, delete, deactivate, bulk change | users | one invariant over many rows, only some writers take the lock |
| Invitations (`users/invite-service.ts`, `users/invitation-service.ts`, `routes/invitation.ts`) | invitation rows | invite, replace, revoke, accept | users, roles, mail | acceptance races, role assignment after the commit |
| Two-factor (`two-factor/service.ts`, `two-factor/repository.ts`) | secrets, used time steps, codes | enrol, confirm, verify, disable, regenerate | users, interactions | one-time codes presented twice |
| Read-through caches (`*/cache.ts`) | Redis entries | fill, invalidate | every service | a stale fill after an invalidation |
| Signing keys and configuration (`lib/signing-keys.ts`, `lib/system-config.ts`, `routes/keys.ts`) | key rows, in-process snapshots | load, rotate, clear | token verification | a load that is overtaken by a rotation |
| Request transactions (`lib/database.ts`) | transaction of the request, effects after its commit | run, join, afterDatabaseCommit | every service | nested use, effects lost between commit and run |
| Optimistic concurrency (`lib/etag.ts`) | none | checkIfMatch | admin routes | the compared value is read before the write |
| Portability (`portability/`) | one import transaction | plan, apply, clean up | every table | mostly data mapping |
| SDK authentication (`sdk/src/auth/`) | cached token, request in flight | getToken, refreshToken | token endpoint | shared requests, forced refreshes |
| CLI credentials (`cli/src/credential-store.ts`, `cli/src/credential-lock.ts`) | credential file, lock file | save, clear, refresh | SDK | rotation and a durable write; logout during it |
| Rate limits, clients and secrets, organizations, applications, RBAC, claims, audit, templates, mail, middleware, migrator, TUI | rows or none | single-step reads and writes | | little that spans two steps |

The properties that make each part correct, in a sentence:

* queue: no job is lost, none is processed more often than the limit, and no
  worker ends another's claim before its lease is over;
* worker: one cycle, one timer, no wake-up forgotten, nothing begun after a
  stop;
* links: one usable link per account and kind, the newest request's; a spent
  link stays spent; one login per link;
* artifact store: nothing of a revoked session or grant is honoured again;
* users: a lockout ends only when it is due, and an account that is active may
  still fail;
* super-admins: deletions and role removals never take the last active one away;
* invitations: one outcome each, one live invitation per address, and roles only
  for the account it created;
* two-factor: a code lets one request pass, and a configuration is confirmed by
  its own codes;
* caches: an entry is out of date only for a cause the code accepts, and then
  until it expires;
* SDK and CLI: a refresh token is sent again only when its answer never reached
  the file.

`PROJECT.json` lists every part with what is modelled of it, and every hazard
found in the code with the properties that cover it, or why none does.

## 2. Modules

| Module | Models | Kind |
|---|---|---|
| `RecoveryLedger` | what the queue promises about a job | abstract specification |
| `RecoveryQueue` | the queue's statements and the workers' walks over their batches | detailed specification |
| `OneTimeArtifact` | what a mailed link promises: issued once, redeemed or taken back once, one standing per owner | abstract specification |
| `RecoveryArtifacts` | processor, links, callbacks and reset forms of one account, on top of the ledger | composition |
| `LinkTransactions` | issue and callback of `RecoveryArtifacts` statement by statement, with row locks and `NOW()` | detailed specification |
| `RecoveryScheduler` | timer, cycle, wake and stop of one worker inside its server process | detailed specification |
| `SessionStore` | sessions, grants, codes and refresh tokens of one account in Redis and PostgreSQL | detailed specification |
| `UserAccounts` | holders of the super-admin role, account status and lockout, with every writer of them | detailed specification |
| `Invitations` | invitation rows, the transactions that contend for them, and the accounts and roles they lead to | detailed specification |
| `TwoFactor` | enrolment, checks and management of one user's second factor | detailed specification |
| `ProcessCaches` | the signing-key and configuration snapshots of each server, and the first key | detailed specification |
| `ReadCaches` | the Redis entries of rows with an identifier and a reusable slug | detailed specification |
| `CliCredentials` | the CLI's credential file and the providers that refresh it | detailed specification |
| `RecoveryQueueProofs` | theorems about the queue and the ledger it implements | proofs |
| `RecoveryArtifactsProofs` | theorems about links, callbacks and reset forms | proofs |
| `RecoverySchedulerProofs` | theorems about the worker's life cycle | proofs |
| `SessionStoreProofs` | theorems about sessions, grants, codes and tokens | proofs |
| `LinkTransactionsProofs` | theorems about the locks of issues and callbacks | proofs |
| `AccountsProofs` | theorems about `UserAccounts`, `TwoFactor` and `Invitations` | proofs |
| `CopiesProofs` | theorems about `ProcessCaches`, `ReadCaches` and `CliCredentials` | proofs |
| `ComponentsProofs` | what the combination `MCComponents` has to do with its six components | proofs |
| `MCRecoveryQueue`, `MCRecoveryArtifacts`, `MCSessionStore` | small instances | model checking |
| `MCProgress` | a small instance of `LinkTransactions` and of `RecoveryScheduler`, one per behaviour | model checking |
| `MCComponents` | small instances of the six modules from `UserAccounts` to `CliCredentials`, one per behaviour | model checking |

### RecoveryQueue

`jobs` is the table. A row keeps its status, owner, attempts and one instant
`at`: `available_at` while it is available and `claimed_at` while it is
claimed, the one the claim statement compares. Each statement of the repository
is one `UPDATE ... WHERE`, so its effect is one operator on rows
(`ClaimedRows`, `ChargedRows`, `RetriedRows`, `CompletedRows`, `FailedRows`),
applied in one step, and used again by the action in which the same statement
throws: then the rows are either the new or the old ones. Between statements a
worker remembers what it read: the clock (`seen`), its batch, the claims of it
that were exhausted (`spent`), the job in hand (`cur`) and the attempt number it
was given (`tries`). `mode` is where `runCycle` or `processClaim` stands.

`ClaimSets` are the batches one claim may return. `FOR UPDATE SKIP LOCKED` is a
choice of any subset of the rows another worker's statement may have locked;
ties in the order are left open, which covers `created_at, id`.

Time is relative: `Tick` moves every instant one unit into the past, until it
is older than any comparison can tell (`Past`). A process reads its own clock,
`Skew[w]` ahead of the slowest, and the reading may be up to `MaxLag` old when
the claim that uses it runs. Under `FairSpec` every process that is alive goes
on, time passes, and of the claims a worker makes over and over not every one
runs out before the first statement about it: the lease is minutes, a statement
milliseconds. Nothing is assumed of crashes, except that one process survives.

`begun`, `succeeded` and `rejected` are history for the properties;
`faults` counts the lost answers, which the bound `MaxFaults` caps.

### RecoveryLedger

A job is accepted, charged attempts up to the limit, and settled once, only
after it was charged. `RecoveryQueue!Standing` maps the rows to it; claims,
leases and workers are invisible.

### RecoveryArtifacts

The jobs of one account, with the ledger in place of the queue, and several
processor runs at a time, which the queue allows after a lease has run out.
`Enter` is `beginAttempt` and the call of `process`; `Load`, `Resolve`,
`EnsureRecoveryJobToken` and `Send` are its steps; each may throw
(`StepThrows`, with both outcomes of the transaction or the mail), and the run
may die (`Die`). A protected address that cannot be revealed is rejected
(`Reject`), which fails the job at whatever attempt it is; any other failure
does so at the last (`FinishFailed`). `TokensAfterIssue` is the token table after the transaction of
`ensureRecoveryJobToken`, which locks the user's row first. The order of jobs is
modelled twice, as the database keeps it (`Newer`, microseconds) and as the
code compares it (`NewerByDate`, milliseconds of a `Date`).

A callback resolves the interaction (`Present`), consumes the link in one
transaction, and leaves a continuation in Redis, which `showLogin` consumes. A
reset form runs its three statements as three steps.

### OneTimeArtifact

An artifact is issued once, to one owner, which takes the owner's standing one
back; while it stands it is redeemed or taken back, once. Two modules implement
it:

* `RecoveryArtifacts`: the owner is the kind of link (the account is one), and
  `LinkStanding` maps a link that was used with a login to redeemed, any other
  used or expired one to taken back. A reset link is only issued and taken back
  here: what its form does before it marks the link is `OneResetPerLink`.
* `Invitations`: the owner is the address, and `Outcome` maps the row and the
  way it ended. An expired invitation stands until something ends it, since
  replacing marks expired rows too.

Processor runs, callbacks, forms, locks and snapshots are invisible in it.

### LinkTransactions

`RecoveryArtifacts` takes each transaction as one instant. Below that, the
issue of a link locks the account, reads the existing and the newest link, and
then locks and marks the standing ones row by row; a callback finds its link,
locks it, and then locks the account. `gone` are the links that had expired
when the transaction began, which is what `NOW()` keeps telling it; `seen` are
the rows an `UPDATE` found and has yet to lock. Marks and logins appear at the
commit, locks at once. `Fail` ends any transaction, for a statement that
fails, a connection that is lost, or a deadlock that the database resolves;
the queue runs the issue again, the user opens the link again. A callback
presents the interaction of its own link, so a callback of a bound link locks
the client.

What changes below the instant: a callback that began before its link expired
may use it afterwards, and even after a newer link was issued beside it,
because the issue found the older link expired and left it unmarked. The
predicates are repeated at mutation time "so expiry or accidental prior
consumption cannot be converted into a successful use"
(`auth/token-repository.ts:567`); for prior consumption the model agrees, for
expiry it does so by the transaction's `NOW()` only, which is its beginning.
`NewestStands` therefore says "used or expired", and `LinkTransactions` does not
implement `OneTimeArtifact`.

### RecoveryScheduler

One worker and its server process. A JavaScript callback is one action, an
await is where others interleave. `timer` is the field, `timeouts` the timeouts
the event loop really holds, `cycles` the invocations of `runCycle` by their
progress, so that the field `activeCycle` and the truth can be told apart.
`due` is set by a wake-up or a full batch and cleared when a cycle begins.
`connections` are what `server.close` waits for; a client may hang up while the
handler of its request goes on, which is how requests enqueue and wake after the
worker was stopped. Assumed fair are the listen callback and the worker's own
callbacks (the event loop runs what is due, the database answers or fails);
no request and no signal has to come.

### SessionStore

The provider library calls the adapters; every such call that reaches Redis or
PostgreSQL is one step, so a lookup of a session is three (the payload, its
tracking row, its authority) and of a code or token two. `payload` is the Redis
key of each session with the grants in its `authorizations` map, `tracking` its
row in `admin_sessions`, `grants` the Grant rows, `artifact` the codes in Redis
and the refresh tokens in `oidc_payloads`, `indexed` the members of the Redis
grant sets.

A visit of the authorization endpoint starts or finds a session, saves a new
grant (consent) or loads the session's (`loadExistingGrant`, which may save it
again with offline access), saves a code, tracks the session and publishes it.
An exchange finds a code or token, consumes it and saves a token. Both may fail
or die between any two steps. `HybridAdapter.destroy` is seven steps, each of
which may fail: the cascade's failures are swallowed as in the code, the
others end the request. An administrator revokes a session, and
`RevokeAuthority` is the transaction of `lib/authority-revocation.ts` followed
by the detached Redis pass, which may stop anywhere.

`dead`, `revoked`, `restored` and `closed` are history. A Grant row carries no
`grant_id`, so `RevokeGrants` leaves it; `RevokeAuthority` deletes by identifier
and account too. What the library does between the calls is external: it is
taken from how `oidc/configuration.ts`, `routes/interactions.ts` and the adapter
tests use it. The artifacts are those with offline access, which the library
does not tie to their session.

### UserAccounts

`users` are the rows of the control-plane organization, `holders` the users with
the exact super-admin role. Every administrative request is one transaction (an
item of a bulk change is one of its own), in the steps at which it waits for a
lock:

| Request | Locks, in order |
|---|---|
| deletion | the organization (`LockOrganization`), the target (`LockTarget`), the survivor check of an active holder (`RequireSurvivor`), the references of its audit entry (`DeleteUser`) |
| role removal | the organization, the target, the role (`LockRole`), the survivor check, which asks for the organization again (`OrganizationMine`), the audit entry (`RemoveRole`) |
| assignment | the target (`BeginTarget`, `LockTarget`), the role, the reference of the new row to its actor (`InsertAssignment`), the audit entry (`AssignRole`) |
| status change | none for the read (`ReadStatus`), the target by the unconditional `UPDATE` (`UpdateStatus`), the audit entry (`WriteStatus`) |
| bulk status change | the target (`BeginTarget`, `LockTarget`), the audit entry (`WriteStatus`) |

`orgLock` and `rowLock` are the row locks. The audit entry's foreign keys
(`migrations/009_audit_log.sql`) take `FOR KEY SHARE` on the rows of the
organization and of the `Actor`, so it waits for whoever has locked one of them
`FOR UPDATE` (`AuditHolders`); after it a request waits for nobody, and entry,
last write and `COMMIT` are one step. `Fail` rolls a request back: a statement
fails, its actor's row is gone, or PostgreSQL ends a circle of waits.
`AdminAwaits` says who waits for whom.

Such circles there are. A deletion holds the organization and waits for its
target, whose row a status change, a bulk change or an assignment holds that
waits to refer to the organization; the same with a removal in the deletion's
place, and two requests can meet at the row of an actor. What
the code promises is narrower: "User deletion uses the same organization-first
order, preventing the two rare administrative operations from deadlocking each
other" (`techdocs/architecture/security.md:569`). `WaitsGoForward` states that
promise, and that all waits but those at a reference go to a request that has
come further with its locks. So deletions and removals never wait for one
another once they have begun, and every circle goes through a reference.
One of the requests in it then fails and is rolled back; a bulk change reports
its remaining items as not attempted.

A password login is `FindCandidate` (with the cutoff from the server's clock),
`UnlockElapsed`, `LoadEligible`, and `RecordFailure` or `RecordLogin`.

`unguarded` and `overwritten` are history. The first records that a writer
which does not look for a survivor (deactivation, bulk change, lockout) took an
active holder down: the code's promise is about the writers that look. The
second names the accounts whose lockout a stale status change wrote over, which
then carry a lock instant while they are active.

### Invitations

A row of `invitation_tokens` is `used` once it was accepted, replaced or
revoked; `ends` counts each kind. PostgreSQL's rules are modelled as such: an
`UPDATE` finds its rows in a snapshot (`FindReplaced`), waits for their locks
and checks its condition again (`MarkReplaced`); an `INSERT` waits for another
transaction whose uncommitted row or mark decides whether the unique index is
violated (`Conflicting`, `BeingReplaced`); `NOW()` is the start of the
transaction (`began`). Acceptance is the form's check (`SubmitForm`), the row
lock, and account and consumption in one commit; roles and claims follow in
`ApplyPreAssignments`, unless the process stops (`LosePreAssignments`).

### TwoFactor

`request` says how far each request is. Every statement is one step, and any
request may stop after any of them; only the confirmation of an enrolment and
its flags are one transaction (`VerifyTotpEnrollment`). Accepting a code is two
steps, the comparison with what was loaded and the `UPDATE`; `Advances` and
`StillPending` are the conditions of the two conditional ones. A code is the
pair of a configuration, which stands for its secret, and a time step.
`accepted`, `redeemed` and `proven` are history.

### ProcessCaches

The content of a table is the number of changes committed to it (`commits`
keeps their instants), so a snapshot is a number. A read is three steps, with
the clock and the generation taken before the query. The configuration cache
replaces its map where the key cache counts a generation; both are
`Installable`. A change is committed in one step and clears the cache of its own
server in a later one, so other servers see it a lifetime later. A starting
server takes the table lock, rechecks, and inserts the first key.

### ReadCaches

Two rows use one slug one after the other. Each Redis command is a step that may
fail, and what is registered to run after a commit may never run. An entry gets
an `excuse` when it was out of date on arrival ("late": a reader overtaken by a
writer), when nobody was left to remove it ("lost"), or when a bulk change
ignored it ("bulk"), and then stays until `CACHE_TTL`. `StaleOnlyForCause` says
that any other entry that is out of date has a request which has yet to remove
it, under the very key it stands under. It describes the code and does not
justify it: that a bulk change invalidates nothing contradicts the
documentation, and `StatusChangesInvalidate`, the same property without that
excuse, is violated (run `bulk_status`).

### CliCredentials

A snapshot is numbered in the order of issue and stands for both of its tokens.
A provider takes the kernel lock, repeats a write that failed earlier, or reads
the file again, and sends the refresh token only when the file's access token
has expired. The server rotates it, or fails, or its answer is lost, and then
the provider refuses to refresh (`latched`). `LogOut` removes the file without
the lock, as in the code. The history variables say which tokens may have to be
sent twice: those whose answer never reached the file (`unsaved`), and those a
repeated write put back although they had been sent by then (`putBack`).

### MCComponents

The six modules share no variable, so their behaviours are independent, and the
instance runs one of them per behaviour, chosen at the start as its `part`:
the state spaces add up instead of multiplying. `UserAccounts` and `TwoFactor`
have two parts each, which restrict the same actions to different requests.

## 3. Runs

| Run | Checks | Instance |
|---|---|---|
| `queue` | rows, budget, fencing, and that the queue implements the ledger | 2 workers with skewed clocks, 2 jobs, 2 attempts, 1 lost answer, crashes |
| `queue_live` | `EveryJobCloses` | the same with batches of one job and no lost answers |
| `artifacts` | links of one account, and that they are one-time artifacts | 2 jobs admitted in different milliseconds, 2 runs, 2 callbacks and 1 form; 1 administrative change, 1 password change. Jobs of one kind, of which the newer may be bound: three actors at a time. A magic link and a reset link, unbound: two at a time |
| `close` | `NewestJobWins`, violated | 2 jobs admitted within one millisecond |
| `reset` | `OneResetPerLink`, violated | 2 forms, 2 password changes |
| `progress` | in its part `transactions`, locks, authority at the commit and the end of every transaction, statement by statement; in its part `schedule`, the worker's life cycle | 2 links, the newer one bound to a client, 2 issues, 1 callback, 1 administrative change; 3 requests in flight |
| `sessions` | tracking, revocation and single use of the OIDC artifacts | 1 session, 1 visit at a time, 2 token requests, 1 logout, 2 grants, 2 artifacts, 1 loss of authority |
| `logout` | `LogoutIsTotal`, violated | the same |
| `components` | the six modules from `UserAccounts` to `CliCredentials`, that invitations are one-time artifacts, that invitation requests do not deadlock, and that administrative requests do so only at a reference | in its parts, below |
| `recovery_code` | `RecoveryCodeOnce`, violated | 2 requests, 2 recovery codes |
| `bulk_status` | `StatusChangesInvalidate`, violated | part readCaches, below |
| `credential_write` | `ReplacesPrevious`, violated | 2 providers |

The parts of `components`:

| Part | Instance | Why it is enough |
|---|---|---|
| removals | 2 users, 2 administrative requests, the logins of one of them one at a time, no time passing | two requests on the two holders are what the organization's lock decides; both act for one of them, which can be their target too |
| lockouts | 1 user who is active, 2 logins, administrative requests one at a time, threshold 2, cooldown 1, time up to 2 | a failure below and one at the threshold; the clock before, at and past the cutoff |
| invitations | 1 address, 3 invitations, 2 invite requests, 2 forms, 1 day | two replacements of one invitation, or two with none to replace |
| authenticator | 2 configurations, time steps 0 and 1, 2 requests; recovery codes are made and not used | a code of this and the last step; one configuration replaced by another |
| codes | 2 recovery codes, 1 e-mailed code, 2 requests | one code presented twice |
| processCaches | 2 servers, of which one serves 2 readers of one table at a time and the other starts and makes changes; 2 changes, lifetime 1, time up to 2, passing while the first server is up | a read before, during and after a change by this or the other server |
| readCaches | 2 rows of one slug, the first changed up to twice and the second only created and deleted; 1 reader, 2 writers | a slug that moves; a reader between two writers |
| credentials | 2 providers, 3 snapshots | a rotation, a login over it, and a second rotation |

Why these bounds are enough to meet the interesting cases: two workers and two
jobs are what fencing, skipping and takeover need; two attempts distinguish the
first, a retried and the last; with `Lease = 1` and `MaxSkew = 1` the clock
error is as large as the lease; one lost answer can hit any statement. Two jobs,
two runs and one change give every pair of overlapping attempts with every
failure between their steps; three actors at a time are two attempts with a
callback or a form, or two racing callbacks with an attempt. A magic link and a
reset link share only the account, so one actor of each at a time is what they
can do to each other. In `transactions`, the first part of `progress`, two links
of which one is bound are an issue that marks another link and one
that does not, with and without the client's lock; two issues and a callback
give every circle of two and every wait behind another. Three requests cover one
before, one during and one after a cycle. In `sessions` the visit may start over
and over, so sessions are found, revoked and published again; two artifacts are
a code and its token, or two codes, of one grant or of two grants of one client,
the second of which replaces the first in the session. Names of bounds:
`MaxFaults`, `MaxSkew`, `MaxLag`, `MaxChanges`, `MaxResets`, `MaxRequests`,
`MaxRevocations`, `MaxTime`, `MaxDays`, `MaxStep`, `MaxCommits`, `MaxInstant`,
`MaxVersion`, `MaxIssued`. Symmetry is used over jobs, runs, callbacks, grants,
artifacts and token requests, and in `components` over the actors of a part,
which share two pairs of names so that the group stays small; in safety runs only
(and so not in `progress`, which checks liveness too). The restrictions on
Init and Next stand in the MC modules; the specifications of the components, and
so the theorems about them, have none: a property that is also proved holds
outside the instance too. Deadlock is not checked where the system may stop:
every job closed and every counter at its bound, or the process gone.

Six runs show disagreements between the code and its comments or documents:

* `close`: "A retry from an older job cannot replace authority created by any
  newer job" (`auth/token-repository.ts:315`). Timestamps are compared as
  `Date`s; within one millisecond the larger identifier wins, so a retry of the
  older job can retire the newer one's link.
* `reset`: "Mark token as used (single-use)" (`routes/password-reset.ts:541`).
  Validation and retirement are separate statements, so two submissions of one
  link both change the password.
* `logout`: "This ensures that after logout, no tokens remain usable"
  (`docs/concepts/session-lifecycle.md:47`). The cascade deletes rows by
  `grant_id` and leaves the Grant row, so a token that a request in flight saves
  after the delete has live authority. No step of the logout fails in the run.
* `recovery_code`: "Recovery codes are single-use"
  (`two-factor/repository.ts:330`). The `UPDATE` that marks a code has no
  condition on `used_at` and its row count is ignored, so two requests that
  loaded the code both pass. The time step of an authenticator code, by
  contrast, is consumed conditionally, and `TotpCodeOnce` holds.
* `bulk_status`: "The cache is invalidated automatically when an organization is
  updated or its status changes" (`docs/concepts/multi-tenancy.md:48`, and
  `organizations/cache.ts:118` asks it of every write). `bulkStatusChange`
  (`lib/bulk-operations.ts:224`) and its route (`routes/bulk.ts:81`) do not, so an
  organization suspended in bulk is resolved as active until its entries expire.
* `credential_write`: "Atomically replaces the previous stored snapshot with the
  refreshed one" (`sdk/src/auth/cli-auth.ts:21`). The CLI's hook ignores the
  previous snapshot, so a refresh in flight writes the file back after a logout,
  and a repeated write replaces a newer login's.

Each property also fails when one definition of the code is replaced by a
faulty variant; the variants stand next to the definitions they replace, and
`PROJECT.json` pairs them with the properties.

## 4. Proofs

Every safety invariant and every action property of the passing runs is proved,
for any sets of workers, jobs, requests, rows, servers and so on, and any values
of the bounds that satisfy the named assumptions. Each proof rests on an
inductive invariant of its module, a conjunction of named parts; a theorem then
says that one part, or a consequence of it, always holds. The constants'
assumptions say what kind of value they are (numbers, non-empty sets, null
values outside the sets they are null for); the ones that say more are pointed
out below.

### RecoveryQueueProofs

* `TypeCorrect`, `BoundedProcessingHolds`, `UnstartedJobsKeepBudgetHolds` and
  `ClosedForAReasonHolds`. The inductive invariant ties each worker's memory to
  the rows: a job in hand has been begun, its attempt number is at most the
  row's attempts, a worker about to complete holds a job whose processor
  returned, one about to fail holds a rejected job or one at the limit, and the
  runs begun for a job never exceed the attempts charged. Without the part on
  `spent` claims (they were at the limit when claimed, and attempts never fall)
  closing an exhausted claim could not be justified.
* `ClaimsALeaseApartHolds`: a held job that is still owned carries the instant
  of its owner's clock reading, and a job whose claim was lost carries a later
  one by at least a lease.
* `ClaimsAreFencedHolds`, an action property, from the type invariant alone.
* `ImplementsLedgerHolds`: the initial rows map to the ledger's initial state,
  and every step, including the throwing ones, to a step of it or a stutter.

### RecoveryArtifactsProofs

* `ArtifactsTypeCorrect`, `OneLiveLinkHolds`, `LinksNeverReviveHolds`. What a
  step may do to the links is said once (`TokenStep`): it spends and expires
  links, or issues one after retiring the others of its kind, provided that no
  newer job has one by the comparison of Dates. The properties of links follow
  from that relation and not from each action.
* `NewestJobWinsHolds` has a hypothesis, `DatesKeepOrder`: the comparison by
  Date agrees with the database's order. It is needed, as the run `close`
  shows, and `DistinctMillisKeepOrder` derives it for jobs admitted in different
  milliseconds, which is what the run `artifacts` assumes. So nothing but the
  loss of precision stands between the code and its comment. The invariant keeps
  that one of the jobs with a link is the newest of them (`NewestExists`), since
  links are issued one at a time; that spares an induction over the jobs.
* `SilentOnlyForCauseHolds`: a run that returns has mailed its link or has a
  cause not to, where a job that got in first is a cause only if it is newer in
  the order the code compares by (`NewerByDate`). A run that resolves an
  interaction has one to resolve, which is where the cause "the interaction is
  gone" comes from.
* `LinksAreOneTimeHolds`: the step simulation of `OneTimeArtifact`. The links a
  step may change are again those of `TokenStep`; what the map adds is that a
  login comes in the very step that uses its link, so that a link that stands
  has none.
* `FinishedResetRetiresLinkHolds`: what a form validated was issued, and what
  was issued and used does not become usable again.
* `OneLoginPerLinkHolds`: what follows from a login is in one place, with the
  callback that committed it, in Redis, or nowhere (`LinkLogin`).

### RecoverySchedulerProofs

`SchedulerTypeCorrect`, `OneWorkerHolds` (one cycle, and no timeout but the one
the worker holds), `NoLostWakeHolds`, `OrderedShutdownHolds` and
`StoppedBeginsNothingHolds`, for any number of requests. The invariants
strengthen each other; besides them the proof needs in which phases the worker
runs, and that no timer is left beside an active cycle or after a stop
(`FieldInv`).

### SessionStoreProofs

* `StoreTypeCorrect`, `TrackedBeforePublishedHolds`,
  `DeadSessionsStayDeadHolds`, `RevokedGrantsAreDeadHolds`. The decisive parts
  of the invariant: a dead session's row is revoked, and refreshing a row never
  clears that; a grant a reduction removed has no row unless it was restored,
  since consent only saves new identifiers; a visit about to publish has tracked
  its session; and a logout in progress is of a session that was tracked.
* `RedeemedOnceHolds`: of the requests that found one code or token, the one
  that consumed it holds the only claim to it until the claim becomes the one
  token issued for it, and what is spent stays spent (`RedeemInv`).

### LinkTransactionsProofs

`LinkTypeCorrect`, `NewestStandsHolds`, `LoginsHaveAuthorityHolds` and
`LinkWaitsCrossHolds`, for any number of links, issues and callbacks. Whatever
a transaction relies on about the links' rows it relies on while it holds the
account, so that others' steps keep it (`OthersKept`): rows change only when
somebody who holds the account commits (`RowsChangeByCommit`). The parts of the
invariant say for each transaction where it stands (`PlaceInv`), which locks
that means (`LocksInv`) and what it found and counts on (`FoundInv`): an issue
that marks has every standing link among those it has locked or has yet to
lock, unless it had expired by its `NOW()`.

`LinkWaitsCross` follows from the locks alone. An issue that waits for a link
holds the account; the link is held by a callback, since another issue would
hold the account as well; and a callback that holds a link without the account
is waiting for it. So every such wait is a deadlock of two, which the database
resolves with an error: the lock orders of `ensureRecoveryJobToken` (account,
links) and `findAndLockMagicLinkToken` (link, account) are opposite. No longer
circle exists.

### AccountsProofs

* `AccountsTypeCorrect`, `SurvivorRemainsHolds`,
  `ActiveAccountsHaveBudgetHolds` and `LockoutLastsHolds`. Whoever has passed
  `RequireSurvivor` knows another active holder until it commits, or a writer
  without the check took one down (`CommitInv`). That it knows this rests on the
  organization's row lock alone (`RequestInv`): the lock on the target's row is
  not needed for it. The budget follows from a fact that covers inactive
  accounts, since activating one gives it no failures back: an account that is
  not locked carries no lock instant and is below the threshold (`BudgetInv`).
* `WaitsGoForwardHolds`, for any actors. A user's row is locked only by a request
  past its own wait for it, and the target of such a request exists
  (`TargetInv`); a deletion or removal that has begun holds the organization
  (`RequestInv`), so there is only one, and asking for it again does not make it
  wait.
* `TwoFactorTypeCorrect`, `TotpCodeOnceHolds`, `VerifiedByOwnCodeHolds`. A code
  that was accepted belongs to a configuration that is gone, or to the present
  one, which is verified by then and whose last step is the code's or a later
  one (`SpentCodes`). Each of the two conditional updates asks for the opposite,
  so the comparison with what was loaded earlier may be as stale as it likes.
* `InviteTypeCorrect`, `OneOutcomeHolds`, `OneLiveInvitationHolds`,
  `RolesFromOwnInvitationHolds`. A row has ended once if it is used and never if
  it is not (`RowsInv`); what a transaction is about to replace or to accept is
  unused and locked by it (`InviterHolds`, `GuestHolds`), so that nobody else
  can end it first; an insertion waits for whoever holds a conflicting row. It
  is assumed that invite requests and acceptances are different transactions.
* `InviteWaitsEndHolds`: an invite request that holds a row's lock replaces the
  one unused invitation of its address, so the index shows it no other to wait
  for; an acceptance locks one row and no more.
* `InvitationsAreOneTimeHolds`: the step simulation of `OneTimeArtifact`. The
  commit of an invite request marks every unused row of the address that it has
  not inserted, because `Conflicting` is empty by then, and so issues the new
  one and takes the other back in one step of the promise.

### CopiesProofs

* `ProcessCachesTypeCorrect`, `OneFirstKeyHolds`, `SnapshotsAreFreshHolds`. A
  read is stamped before it is sent, so what it misses was committed at its
  stamp or later (`Covers`); and a read begun under the present generation has
  seen every change its server cleared the cache for (`LoadHolds`).
* `ReadCachesTypeCorrect`, `StaleOnlyForCauseHolds`. An entry stands under its
  row's identifier or the slug (`KeysInv`), and one that is out of date without
  an excuse has a request that has yet to remove it under that key. The theorem
  is inductive only in this form: a request that "is about to remove the
  row's entries" may already be past the identifier.
* `CredentialsTypeCorrect`, `ReplayedForCauseHolds`. An answer is new to the
  file, to the network and to every write that waits (`AnswerNew`); a token in
  the file that was sent has its cause or is being refreshed (`SentInFile`); and
  a provider that finds there what it sent itself is in the middle of that, has
  stopped refreshing, or has a write to repeat first (`OwnInFile`). The proof
  corrected the history variable `putBack`: with three providers and four
  snapshots, which is beyond the instance TLC checks, a repeated write could
  bring back a token that had been sent without being recorded as the cause. It
  now records exactly that.

### ComponentsProofs

`ComponentsRefined`: a step of a part is a step of its component, with fewer
requests or in a fixed order of names, and a stutter of the others
(`PartStep`), so every behaviour of `MCComponents` is one of each of the six
specifications. The combination therefore checks the components and nothing
else, and inherits their theorems; `ComponentsTypeCorrect` is its `TypeOK`.

### Theorems without a run

`OneLiveLink`, `LinksNeverRevive`, `OneOutcome` and `OneLiveInvitation` are what
`LinksAreOneTime` and `InvitationsAreOneTime` say of standing and ended
artifacts; `FinishedResetRetiresLink`, `StoppedBeginsNothing` and
`ClosedForAReason` are parts of what the runs check in other words. They are
proved, as facts a reader may look for under these names, and no run repeats
them. So are the type invariants of the modules that `MCComponents` combines.

### Only model-checked

`EveryJobCloses`, `PollingNeverDies` and `TransactionsEnd` are liveness under
fairness, which with `ENABLED` is out of the prover's reach. The six properties
that runs expect to be violated have no theorems. Every other property of a
passing run is proved.

## 5. Abstractions

Addresses, digests, keys, secrets and mail contents do not appear; a job is its
idempotency key. Sealing an address and deriving a job's token are deterministic
functions of the job, so a retry finds the same link. Expiry is a step that may
happen at any time; in `SessionStore` it removes session payloads, while expired
codes and tokens, which could only not be redeemed, are left out. Logging,
observers, metrics, rate limits, rendering and CSRF are left out. An audit row
written in a transaction is part of that transaction and not kept.

In `SessionStore` the account and its clients stay active, so of an artifact's
references only the grants can lose authority; the transaction that revokes an
account's authority is one step, and its Redis pass ends before another begins;
the grant sets of a session's grants are read in one step. The grant restored
by an upgrade is an exception named in `RevokedGrantsAreDead`: the code has no
guard against it.

In `LinkTransactions` the account is never deleted, jobs are ordered as the
database orders them (the comparison by `Date` is in `RecoveryArtifacts`), and
one client stands for the clients of the bound links. PostgreSQL's lock queues
are fair, so the statements of a transaction are assumed strongly fair: a
statement whose row is free again and again gets it. A circle is found after
`deadlock_timeout`, so its end is assumed weakly fair; other failures are not
assumed. In `UserAccounts` locks are those of the organization's and the users'
rows and of the role that is removed or assigned, which is what `WaitsGoForward`
covers: the rows that a deletion's cascade locks are left out, and so are other
writers of the organization's own row. An entry takes its key shares on
organization and actor at once, when both are free. Counts beyond the threshold, which only an
overwritten lockout makes possible, saturate; the status changes of other
organizations, where nobody holds the role, are the same without the survivor
check. The account a login found by its address is taken to be the one it loads
again. In `Invitations` an identifier is issued once, and the rows of one
application are modelled. In `TwoFactor` the two background statements of a
check are one step that may fail, and an identifier of a configuration is used
again once nothing refers to it. In `ProcessCaches` the configuration table
stands for one key of it, and a rotation always leaves an active key, as
`routes/keys.ts` does in one transaction. In `ReadCaches` a reader writes both
keys, as `cacheOrganization` does, whichever it missed; a lookup that finds an
entry changes nothing and is left out. In `CliCredentials` a snapshot without a
refresh token is the case of a missing file, since both end in an error before
anything is sent.

### Not modelled

* Optimistic concurrency (`lib/etag.ts`): `If-Match` is compared with a value
  read earlier, and the update that follows has no condition, so two writers
  with one tag both pass. There is no further promise in the code to check.
* Client-credentials provider of the SDK: one token and one request in flight in
  one process; a forced refresh that races an older answer costs a request more.
* Memory-only mode of `createCliAuth`: no command of the CLI uses it.
* Rate limits, clients and their secrets, RBAC definitions, custom claims,
  audit, statistics, exports, middleware: single statements or single
  transactions, with little that spans two steps.
* Portability: one transaction under an advisory lock; mostly data mapping.
* Templates, mail, branding, command-line screens, the migrator: input and
  output, or start-up tooling run by one operator at a time.
* Two-factor state left by a set-up that overlaps a confirmation: the model has
  the steps (`DeleteTotp` removes a row that was just verified), but nothing in
  the repository says which of the two should win, so no property does.

## 6. Plan

What remains, in order of value:

1. `OneTimeArtifact` for authenticator codes and refresh tokens, with the
   refinements proved from `SpentCodes` and `RedeemInv`. It is stated for links
   and invitations.
2. The queue's liveness as a chain of leads-to properties that TLC checks one by
   one, so that a failure says which link of the chain broke.
3. Revocation in `SessionStore` as a refinement of a specification that knows
   sessions and grants and neither Redis nor PostgreSQL.
4. The cascades of a user's deletion, with the locks they take on links and
   invitations, in `LinkTransactions` and `UserAccounts`.
