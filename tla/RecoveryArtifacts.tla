------------------------- MODULE RecoveryArtifacts -------------------------
(***************************************************************************)
(* What the recovery jobs of one account do once the queue hands them out: *)
(* the processor (auth/recovery-job-processor.ts) issues one link per job  *)
(* (auth/token-repository.ts), mails it, and the link is used by the       *)
(* magic-link callback or by the password-reset form.                      *)
(*                                                                         *)
(* The queue itself is the ledger it implements (RecoveryLedger): an open  *)
(* job is charged a bounded number of attempts, and because a claim can be *)
(* lost to another worker, several attempts at one job, or at several jobs *)
(* of the account, may be under way at once.  Each runs the processor's    *)
(* steps with everything else in between; a transaction is one step.       *)
(***************************************************************************)
EXTENDS RecoveryLedger, FiniteSets

CONSTANTS
    Run,                \* processor invocations that can overlap
    Callback,           \* concurrent magic-link requests
    Form,               \* concurrent reset-form submissions
    CreatedAt,          \* created_at of each job, in microseconds
    Id,                 \* the order of the jobs' identifiers
    MicrosPerMilli,     \* microseconds in the millisecond a Date keeps
    MaxChanges,         \* bound on the administrative changes below
    MaxResets           \* bound on the password changes made with one link

ASSUME JobAssumption ==
    /\ Job # {}
    /\ CreatedAt \in [Job -> Nat]
    /\ Id \in [Job -> Nat]
    /\ \A j, k \in Job : Id[j] = Id[k] => j = k
    /\ MicrosPerMilli \in Nat \ {0}
    /\ MaxChanges \in Nat
    /\ MaxResets \in Nat
    /\ AttemptLimit \in Nat \ {0}

JobType == {"magic_link", "password_reset"}

VARIABLES
    kind,           \* the job type of each job, fixed when it is admitted
    bound,          \* the magic-link jobs that carry an interaction
    token,          \* the artifact of each job, if it has one
    mailed,         \* jobs whose mail has been accepted for delivery
    run,            \* the processor invocations
    active,         \* whether the account (and its tenant) is active
    changes,        \* administrative changes so far
    everInactive,   \* whether the account has ever been inactive
    live,           \* whether the interaction is still live
    clientActive,   \* whether the client still has its authority
    callback,       \* the magic-link requests
    logins,         \* logins committed with each job's link
    session,        \* the continuation each login left in Redis
    form,           \* the reset-form submissions
    resets,         \* password changes made with each job's link
    retired         \* jobs whose reset form ran to its end

jobVars == <<kind, bound>>
artifactVars == <<token, mailed>>
accountVars == <<active, changes, everInactive>>
authorityVars == <<live, clientActive>>
magicVars == <<callback, logins, session>>
resetVars == <<form, resets, retired>>
vars == <<jobVars, ledgerVars, artifactVars, run, accountVars, authorityVars, magicVars, resetVars>>

-----------------------------------------------------------------------------
(* The order of jobs.                                                      *)

(* The order the database keeps: created_at, then id. *)
Newer(j, k) ==
    \/ CreatedAt[j] > CreatedAt[k]
    \/ CreatedAt[j] = CreatedAt[k] /\ Id[j] > Id[k]

Millis(j) == CreatedAt[j] \div MicrosPerMilli

(* The order the code compares by, after a timestamp became a Date. *)
NewerByDate(j, k) ==
    \/ Millis(j) > Millis(k)
    \/ Millis(j) = Millis(k) /\ Id[j] > Id[k]

Artifacts(k) == {j \in Job : kind[j] = k /\ token[j] # "none"}

(* Faulty variant: jobs are served in any order. *)
UnorderedArtifacts(j) == FALSE

(* Faulty variant: whether the link found is a newer job's is not compared. *)
AnyArtifactExists(j) ==
    \E n \in Artifacts(kind[j]) : \A k \in Artifacts(kind[j]) \ {n} : Newer(n, k)

NewerArtifactExists(j) ==
    \E n \in Artifacts(kind[j]) :
        /\ \A k \in Artifacts(kind[j]) \ {n} : Newer(n, k)
        /\ NewerByDate(n, j)

-----------------------------------------------------------------------------
(* The queue, seen through its ledger.                                     *)

Outside == <<jobVars, artifactVars, run, accountVars, authorityVars, magicVars, resetVars>>

AcceptJob(j) == Accept(j) /\ UNCHANGED Outside

(* A claim whose last attempt has an unknown outcome is closed. *)
CloseExhausted(j) ==
    /\ charged[j] = AttemptLimit
    /\ Settle(j)
    /\ ledger'[j] = "terminal_failure"
    /\ UNCHANGED Outside

-----------------------------------------------------------------------------
(* AccountRecoveryJobProcessor.process                                     *)

Idle == [job |-> CHOOSE j \in Job : TRUE, stage |-> "idle"]

Stage ==
    {"idle", "loading", "resolving", "issuing", "sending", "returned", "failed", "rejected"}

GoTo(r, stage) == run' = [run EXCEPT ![r].stage = stage]

WorkerSide == <<jobVars, accountVars, authorityVars, magicVars, resetVars>>

Enter(r, j) ==
    /\ run[r].stage = "idle"
    /\ Charge(j)
    /\ run' = [run EXCEPT ![r] = [job |-> j, stage |-> "loading"]]
    /\ UNCHANGED <<artifactVars, WorkerSide>>

(* The address cannot be revealed: no attempt at this job can succeed. *)
Reject(r) ==
    /\ run[r].stage = "loading"
    /\ GoTo(r, "rejected")
    /\ UNCHANGED <<ledgerVars, artifactVars, WorkerSide>>

(* Only a live account of a live tenant is served; a missing one looks the *)
(* same as a completed job.                                                *)
Load(r) ==
    /\ run[r].stage = "loading"
    /\ GoTo(r, IF ~active THEN "returned"
               ELSE IF run[r].job \in bound THEN "resolving"
               ELSE "issuing")
    /\ UNCHANGED <<ledgerVars, artifactVars, WorkerSide>>

Resolve(r) ==
    /\ run[r].stage = "resolving"
    /\ GoTo(r, IF live THEN "issuing" ELSE "returned")
    /\ UNCHANGED <<ledgerVars, artifactVars, WorkerSide>>

(* ensureRecoveryJobToken gives up on a job: its client lost its authority, *)
(* its own link is spent, or a newer job of the kind has a link.           *)
Superseded(j) ==
    \/ j \in bound /\ ~clientActive
    \/ token[j] \in {"used", "expired"}
    \/ token[j] = "none" /\ NewerArtifactExists(j)

(* The token table after the transaction of ensureRecoveryJobToken, which  *)
(* the lock on the user's row makes one step.                              *)
TokensAfterIssue(j) ==
    IF Superseded(j) \/ token[j] = "live"
    THEN token
    ELSE [k \in Job |->
            IF k = j THEN "live"
            ELSE IF kind[k] = kind[j] /\ token[k] = "live" THEN "used"
            ELSE token[k]]

EnsureRecoveryJobToken(r) ==
    /\ run[r].stage = "issuing"
    /\ token' = TokensAfterIssue(run[r].job)
    /\ GoTo(r, IF Superseded(run[r].job) THEN "returned" ELSE "sending")
    /\ UNCHANGED <<ledgerVars, mailed, WorkerSide>>

Send(r) ==
    /\ run[r].stage = "sending"
    /\ mailed' = mailed \cup {run[r].job}
    /\ GoTo(r, "returned")
    /\ UNCHANGED <<ledgerVars, token, WorkerSide>>

(* A step throws: the transaction or the mail may have gone through. *)
StepThrows(r) ==
    /\ \/ run[r].stage \in {"loading", "resolving"} /\ UNCHANGED artifactVars
       \/ /\ run[r].stage = "issuing"
          /\ token' \in {token, TokensAfterIssue(run[r].job)}
          /\ UNCHANGED mailed
       \/ /\ run[r].stage = "sending"
          /\ mailed' \in {mailed, mailed \cup {run[r].job}}
          /\ UNCHANGED token
    /\ GoTo(r, "failed")
    /\ UNCHANGED <<ledgerVars, WorkerSide>>

Leave(r) ==
    /\ run' = [run EXCEPT ![r] = Idle]
    /\ UNCHANGED <<artifactVars, WorkerSide>>

(* markCompleted, if the claim is still this run's. *)
FinishReturned(r) ==
    /\ run[r].stage = "returned"
    /\ \/ Settle(run[r].job) /\ ledger'[run[r].job] = "completed"
       \/ UNCHANGED ledgerVars
    /\ Leave(r)

(* scheduleRetry below the limit, markTerminalFailure at it; a rejected    *)
(* job is not retried.                                                     *)
FinishFailed(r) ==
    /\ run[r].stage \in {"failed", "rejected"}
    /\ \/ /\ run[r].stage = "failed" => charged[run[r].job] = AttemptLimit
          /\ Settle(run[r].job)
          /\ ledger'[run[r].job] = "terminal_failure"
       \/ UNCHANGED ledgerVars
    /\ Leave(r)

Die(r) ==
    /\ run[r].stage # "idle"
    /\ UNCHANGED ledgerVars
    /\ Leave(r)

-----------------------------------------------------------------------------
(* Time and administration.                                                *)

Expire(j) ==
    /\ token[j] = "live"
    /\ token' = [token EXCEPT ![j] = "expired"]
    /\ UNCHANGED <<ledgerVars, mailed, run, WorkerSide>>

Change == changes < MaxChanges /\ changes' = changes + 1

ChangeStatus ==
    /\ Change
    /\ active' = ~active
    /\ everInactive' = (everInactive \/ active)
    /\ UNCHANGED <<jobVars, ledgerVars, artifactVars, run, authorityVars, magicVars, resetVars>>

EndInteraction ==
    /\ bound # {} /\ live /\ Change
    /\ live' = FALSE
    /\ UNCHANGED <<jobVars, ledgerVars, artifactVars, run, active, everInactive, clientActive,
                   magicVars, resetVars>>

RevokeClient ==
    /\ bound # {} /\ clientActive /\ Change
    /\ clientActive' = FALSE
    /\ UNCHANGED <<jobVars, ledgerVars, artifactVars, run, active, everInactive, live,
                   magicVars, resetVars>>

-----------------------------------------------------------------------------
(* The magic-link callback (routes/magic-link.ts) and its continuation     *)
(* (auth/magic-link-session.ts, routes/interactions.ts).                   *)

RequestSide == <<jobVars, ledgerVars, mailed, run, accountVars, authorityVars>>

(* The interaction is resolved before the transaction starts. *)
Present(c, j) ==
    /\ callback[c].stage = "idle"
    /\ j \in mailed /\ kind[j] = "magic_link"
    /\ j \in bound => live
    /\ callback' = [callback EXCEPT ![c] = [job |-> j, stage |-> "presented"]]
    /\ UNCHANGED <<RequestSide, token, logins, session, resetVars>>

(* Faulty variant: the link is not looked at again under its lock. *)
ConsumeUnlocked(c) ==
    LET j == callback[c].job
        accepted == (j \in bound => clientActive) /\ active
    IN  /\ callback[c].stage = "presented"
        /\ callback' = [callback EXCEPT ![c] =
                           IF accepted /\ j \in bound THEN [@ EXCEPT !.stage = "committed"]
                           ELSE Idle]
        /\ token' = IF accepted THEN [token EXCEPT ![j] = "used"] ELSE token
        /\ logins' = IF accepted THEN [logins EXCEPT ![j] = @ + 1] ELSE logins
        /\ UNCHANGED <<RequestSide, session, resetVars>>

(* consumeAuthorizedMagicLink, one transaction. *)
ConsumeAuthorizedMagicLink(c) ==
    LET j == callback[c].job
        accepted == /\ j \in bound => clientActive
                    /\ token[j] = "live"
                    /\ active
    IN  /\ callback[c].stage = "presented"
        /\ callback' = [callback EXCEPT ![c] =
                           IF accepted /\ j \in bound THEN [@ EXCEPT !.stage = "committed"]
                           ELSE Idle]
        /\ token' = IF accepted THEN [token EXCEPT ![j] = "used"] ELSE token
        /\ logins' = IF accepted THEN [logins EXCEPT ![j] = @ + 1] ELSE logins
        /\ UNCHANGED <<RequestSide, session, resetVars>>

CreateMagicLinkSession(c) ==
    /\ callback[c].stage = "committed"
    /\ callback' = [callback EXCEPT ![c] = Idle]
    /\ session' = [session EXCEPT ![callback[c].job] = @ \cup {c}]
    /\ UNCHANGED <<RequestSide, token, logins, resetVars>>

(* Redis is unreachable, or the server dies after the commit. *)
LoseCallback(c) ==
    /\ callback[c].stage # "idle"
    /\ callback' = [callback EXCEPT ![c] = Idle]
    /\ UNCHANGED <<RequestSide, token, logins, session, resetVars>>

(* The continuation is compared and deleted in one Redis script. *)
ConsumeMagicLinkSession(j, c) ==
    /\ c \in session[j]
    /\ live
    /\ session' = [session EXCEPT ![j] = @ \ {c}]
    /\ UNCHANGED <<RequestSide, token, callback, logins, resetVars>>

-----------------------------------------------------------------------------
(* The reset form (processResetPassword): three statements, no transaction. *)

ValidateReset(f, j) ==
    /\ form[f].stage = "idle"
    /\ j \in mailed /\ kind[j] = "password_reset"
    /\ token[j] = "live"
    /\ form' = [form EXCEPT ![f] = [job |-> j, stage |-> "validated"]]
    /\ UNCHANGED <<RequestSide, token, magicVars, resets, retired>>

SetUserPassword(f) ==
    /\ form[f].stage = "validated"
    /\ resets[form[f].job] < MaxResets
    /\ form' = [form EXCEPT ![f].stage = "applied"]
    /\ resets' = [resets EXCEPT ![form[f].job] = @ + 1]
    /\ UNCHANGED <<RequestSide, token, magicVars, retired>>

MarkTokenUsed(f) ==
    /\ form[f].stage = "applied"
    /\ form' = [form EXCEPT ![f] = Idle]
    /\ token' = [token EXCEPT ![form[f].job] = "used"]
    /\ retired' = retired \cup {form[f].job}
    /\ UNCHANGED <<RequestSide, magicVars, resets>>

LoseForm(f) ==
    /\ form[f].stage # "idle"
    /\ form' = [form EXCEPT ![f] = Idle]
    /\ UNCHANGED <<RequestSide, token, magicVars, resets, retired>>

-----------------------------------------------------------------------------

Init ==
    /\ LedgerInit
    /\ kind \in [Job -> JobType]
    /\ bound \in SUBSET {j \in Job : kind[j] = "magic_link"}
    /\ token = [j \in Job |-> "none"]
    /\ mailed = {}
    /\ run = [r \in Run |-> Idle]
    /\ active = TRUE /\ changes = 0 /\ everInactive = FALSE
    /\ live = TRUE /\ clientActive = TRUE
    /\ callback = [c \in Callback |-> Idle]
    /\ logins = [j \in Job |-> 0]
    /\ session = [j \in Job |-> {}]
    /\ form = [f \in Form |-> Idle]
    /\ resets = [j \in Job |-> 0]
    /\ retired = {}

QueueStep == \E j \in Job : AcceptJob(j) \/ CloseExhausted(j) \/ \E r \in Run : Enter(r, j)

ProcessorStep ==
    \E r \in Run :
        \/ Reject(r) \/ Load(r) \/ Resolve(r) \/ EnsureRecoveryJobToken(r) \/ Send(r)
        \/ StepThrows(r) \/ FinishReturned(r) \/ FinishFailed(r) \/ Die(r)

AdminStep == (\E j \in Job : Expire(j)) \/ ChangeStatus \/ EndInteraction \/ RevokeClient

MagicStep ==
    \E c \in Callback :
        \/ ConsumeAuthorizedMagicLink(c) \/ CreateMagicLinkSession(c) \/ LoseCallback(c)
        \/ \E j \in Job : Present(c, j) \/ ConsumeMagicLinkSession(j, c)

ResetStep ==
    \E f \in Form :
        \/ SetUserPassword(f) \/ MarkTokenUsed(f) \/ LoseForm(f)
        \/ \E j \in Job : ValidateReset(f, j)

Next == QueueStep \/ ProcessorStep \/ AdminStep \/ MagicStep \/ ResetStep

Spec == Init /\ [][Next]_vars

-----------------------------------------------------------------------------
(* Properties.                                                             *)

Flight(stages) == [job : Job, stage : stages]

(* The types of the variables; the columns of auth_recovery_jobs and of    *)
(* the two token tables among them.                                        *)
TypeOK ==
    /\ ledger \in [Job -> {"none", "open", "completed", "terminal_failure"}]
    /\ charged \in [Job -> 0 .. AttemptLimit]
    /\ kind \in [Job -> JobType]
    /\ bound \subseteq {j \in Job : kind[j] = "magic_link"}
    /\ token \in [Job -> {"none", "live", "used", "expired"}]
    /\ mailed \subseteq Job
    /\ run \in [Run -> Flight(Stage)]
    /\ active \in BOOLEAN /\ everInactive \in BOOLEAN
    /\ changes \in 0 .. MaxChanges
    /\ live \in BOOLEAN /\ clientActive \in BOOLEAN
    /\ callback \in [Callback -> Flight({"idle", "presented", "committed"})]
    /\ logins \in [Job -> Nat]
    /\ session \in [Job -> SUBSET Callback]
    /\ form \in [Form -> Flight({"idle", "validated", "applied"})]
    /\ resets \in [Job -> 0 .. MaxResets]
    /\ retired \subseteq Job

(* An account never has two usable links of one kind, whatever attempts    *)
(* overlap, fail or are retried.                                           *)
OneLiveLink ==
    \A j, k \in Job :
        kind[j] = kind[k] /\ token[j] = "live" /\ token[k] = "live" => j = k

(* "A retry from an older job cannot replace authority created by any      *)
(* newer job": while a newer job has a link, no older job has a usable     *)
(* one.                                                                    *)
NewestJobWins ==
    \A j, k \in Job :
        kind[j] = kind[k] /\ Newer(k, j) /\ token[k] # "none" => token[j] # "live"

(* A link that was used, superseded or has expired never works again, also *)
(* when its job is retried afterwards, and no job gets a second one.       *)
LinksNeverRevive ==
    [][\A j \in Job : token[j] \in {"used", "expired"} =>
          token'[j] \in {"used", token[j]}]_vars

(* A job that was closed as completed without a mail had a reason to stay  *)
(* silent: the account was inactive, its interaction or client lost its    *)
(* authority, its own link was spent, or a newer job, in the order the     *)
(* code compares by, has a link.  That an older job has one is no reason.  *)
SilentOnlyForCause ==
    \A j \in Job : ledger[j] = "completed" /\ j \notin mailed =>
        \/ everInactive
        \/ j \in bound /\ (~live \/ ~clientActive)
        \/ token[j] \in {"used", "expired"}
        \/ \E k \in Job : kind[k] = kind[j] /\ token[k] # "none" /\ NewerByDate(k, j)

(* One magic link yields at most one login, and leaves at most one         *)
(* continuation behind, however many callbacks race with it.               *)
OneLoginPerLink ==
    \A j \in Job :
        /\ logins[j] <= 1
        /\ Cardinality(session[j]) <= logins[j]
        /\ logins[j] > 0 => token[j] = "used"

(* A reset form that ran to its end leaves a dead link, even when a late   *)
(* retry of the job issues and mails it again.                             *)
FinishedResetRetiresLink == \A j \in retired : token[j] = "used"

(* "Mark token as used (single-use)": one reset link changes the password  *)
(* once.                                                                   *)
OneResetPerLink == \A j \in Job : resets[j] <= 1

(* What has become of a job's link.  It stands while it is usable; a login *)
(* redeems it.  A reset link is never redeemed in this sense: the form     *)
(* only takes it back after the password was changed (OneResetPerLink).    *)
LinkOwner(j) == IF token[j] = "none" THEN "none" ELSE kind[j]

LinkStanding(j) ==
    IF token[j] = "none" THEN "unissued"
    ELSE IF token[j] = "live" THEN "open"
    ELSE IF token[j] = "used" /\ logins[j] > 0 THEN "redeemed"
    ELSE "void"

OneTime == INSTANCE OneTimeArtifact WITH
    Artifact <- Job, Owner <- JobType, NoOwner <- "none",
    owner <- [j \in Job |-> LinkOwner(j)],
    standing <- [j \in Job |-> LinkStanding(j)]

(* The links of an account are one-time artifacts of their kind, whatever  *)
(* attempts overlap or are retried: a job issues its link once and in the  *)
(* same step takes back the one that stands, and a login needs a link that *)
(* stands at the moment it commits.                                        *)
LinksAreOneTime == OneTime!OneTimeSpec
=============================================================================
