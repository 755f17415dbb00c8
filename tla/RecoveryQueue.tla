--------------------------- MODULE RecoveryQueue ---------------------------
(***************************************************************************)
(* The durable account-recovery queue (auth/recovery-job-repository.ts)    *)
(* and the cycles of the workers that drain it (auth/recovery-worker.ts).  *)
(*                                                                         *)
(* Every statement of the repository is one conditional UPDATE of          *)
(* PostgreSQL, hence one atomic step; between two statements a worker only *)
(* remembers the rows it read.  A worker that stalls, loses its connection *)
(* or dies leaves its claims behind, and another worker takes them over    *)
(* when the lease is old enough.                                           *)
(*                                                                         *)
(* Time.  An instant is an integer relative to the present: Tick shifts    *)
(* all of them one unit into the past, and an instant older than every     *)
(* comparison in the code reaches stays at Past.  The server processes     *)
(* read their own clocks, which run ahead of the slowest by Skew[w].       *)
(***************************************************************************)
EXTENDS Integers, FiniteSets

CONSTANTS
    Job,            \* admitted requests: one per (organization, type, digest)
    Worker,         \* worker processes; a restarted process is a new worker
    AttemptLimit,   \* RECOVERY_JOB_ATTEMPT_LIMIT (5)
    ClaimLimit,     \* RECOVERY_JOB_CLAIM_LIMIT (25)
    Lease,          \* RECOVERY_WORKER_LEASE_MILLISECONDS
    RetryDelay,     \* RECOVERY_WORKER_RETRY_DELAYS_MILLISECONDS
    Skew,           \* how far each process's clock runs ahead
    MaxSkew,        \* bound of Skew
    MaxLag,         \* bound on the age of a clock reading when its claim runs
    MaxFaults,      \* bound on the statements whose answer is lost
    NoWorker,       \* claimed_by IS NULL
    NoJob           \* no job in hand

ASSUME LimitAssumption == AttemptLimit \in Nat \ {0} /\ ClaimLimit \in Nat \ {0}
ASSUME DelayAssumption ==
    /\ RetryDelay = [n \in 1 .. AttemptLimit - 1 |-> RetryDelay[n]]
    /\ \A n \in 1 .. AttemptLimit - 1 : RetryDelay[n] \in Nat
ASSUME ClockAssumption ==
    /\ Lease \in Nat \ {0}
    /\ MaxSkew \in Nat
    /\ MaxLag \in Nat \ {0}
    /\ MaxFaults \in Nat
    /\ Skew \in [Worker -> 0 .. MaxSkew]
ASSUME NullAssumption == NoWorker \notin Worker /\ NoJob \notin Job

VARIABLES
    jobs,       \* the rows of auth_recovery_jobs
    mode,       \* what each worker is about to do
    seen,       \* the clock reading of each worker's current cycle
    batch,      \* the claimed jobs each worker has not walked to yet
    spent,      \* those of them claimed with disposition lease_exhausted
    cur,        \* the job each worker has in hand
    tries,      \* the attempt number the worker was given for it
    begun,      \* how often the processor was entered for each job
    succeeded,  \* jobs whose processor has returned normally
    rejected,   \* jobs whose processor has failed beyond retry
    faults      \* statements whose answer was lost so far

workerVars == <<mode, seen, batch, spent, cur, tries>>
historyVars == <<begun, succeeded, rejected>>
vars == <<jobs, workerVars, historyVars, faults>>

-----------------------------------------------------------------------------

Closed == {"completed", "terminal_failure"}

Past == 0 - (Lease + MaxSkew + MaxLag)
Instant == {t \in Int : Past <= t}
Aged(t) == IF t > Past THEN t - 1 ELSE t

(* `at` is the instant the claim statement reads: available_at of an        *)
(* available row, claimed_at of a claimed one.                             *)
Row == [status : {"absent", "available", "claimed"} \cup Closed,
        at : Instant,
        claimedBy : Worker \cup {NoWorker},
        attempts : 0 .. AttemptLimit]

Mode == {"idle", "polling", "walking", "processing",
         "completing", "retrying", "failing", "dead"}

InHand == {"processing", "completing", "retrying", "failing"}

Owns(w, j) == jobs[j].status = "claimed" /\ jobs[j].claimedBy = w

(* The jobs a worker still acts upon, whether or not it still owns them. *)
Held(w) == batch[w] \cup ({cur[w]} \ {NoJob})

-----------------------------------------------------------------------------
(* The statements of the repository, as the rows they leave.              *)

(* Faulty variants, which the checks must tell from the code: a release    *)
(* that keeps its owner, and one that forgets the attempts.                *)
OwnedRelease(row, status, at) == [row EXCEPT !.status = status, !.at = at]
AfreshRelease(row, status, at) ==
    [row EXCEPT !.status = status, !.at = at, !.claimedBy = NoWorker, !.attempts = 0]

(* A row whose claim is dropped: claimed_at and claimed_by become NULL. *)
Released(row, status, at) ==
    [row EXCEPT !.status = status, !.at = at, !.claimedBy = NoWorker]

(* Faulty variants: a claim that ignores the lease, and one that follows    *)
(* the partial index and leaves exhausted claims alone.                    *)
ClaimableAtOnce(w) ==
    {j \in Job : /\ jobs[j].status \in {"available", "claimed"}
                 /\ jobs[j].at <= seen[w]}
ClaimableBelowLimit(w) ==
    {j \in Job : /\ jobs[j].attempts < AttemptLimit
                 /\ \/ jobs[j].status = "available" /\ jobs[j].at <= seen[w]
                    \/ jobs[j].status = "claimed" /\ jobs[j].at <= seen[w] - Lease}

Claimable(w) ==
    {j \in Job :
        \/ /\ jobs[j].status = "available"
           /\ jobs[j].at <= seen[w]
           /\ jobs[j].attempts < AttemptLimit
        \/ /\ jobs[j].status = "claimed"
           /\ jobs[j].at <= seen[w] - Lease
           /\ jobs[j].attempts <= AttemptLimit}

(* Rows another live worker's statement may hold locked: SKIP LOCKED.      *)
RowsInUse(w) ==
    {j \in Job : \E v \in Worker \ {w} :
        Owns(v, j) /\ mode[v] \in {"walking", "completing", "retrying", "failing"}}

(* The batches one claimAvailable may return: the oldest rows, up to the   *)
(* limit, among the claimable ones it does not skip.  They are ordered by  *)
(* COALESCE(claimed_at, available_at); creation order breaks ties and is   *)
(* left open.                                                              *)
ClaimSets(w) ==
    {S \in SUBSET Claimable(w) :
        \E skipped \in SUBSET RowsInUse(w) :
            LET open == Claimable(w) \ skipped
            IN  /\ S \subseteq open
                /\ \A a \in S, b \in open \ S : jobs[a].at <= jobs[b].at
                /\ \/ S = open
                   \/ Cardinality(S) = ClaimLimit
                /\ Cardinality(S) <= ClaimLimit}

(* Faulty variant: the attempt is charged with the claim. *)
ChargedClaim(w, S) ==
    [j \in Job |->
        IF j \in S
        THEN [status |-> "claimed", at |-> seen[w], claimedBy |-> w,
              attempts |-> jobs[j].attempts + 1]
        ELSE jobs[j]]

ClaimedRows(w, S) ==
    [j \in Job |->
        IF j \in S
        THEN [jobs[j] EXCEPT !.status = "claimed",
                             !.at = seen[w],
                             !.claimedBy = w]
        ELSE jobs[j]]

Chargeable(w, j) == Owns(w, j) /\ jobs[j].attempts < AttemptLimit

ChargedRows(w, j) ==
    IF Chargeable(w, j) THEN [jobs EXCEPT ![j].attempts = @ + 1] ELSE jobs

RetriedRows(w, j) ==
    IF Owns(w, j) /\ jobs[j].attempts < AttemptLimit
    THEN [jobs EXCEPT ![j] = Released(@, "available", Skew[w] + RetryDelay[tries[w]])]
    ELSE jobs

(* Faulty variants: settling without looking at the claim. *)
UnclaimedCompletion(w, j) == [jobs EXCEPT ![j] = Released(@, "completed", Past)]
UnfencedFailure(w, j) ==
    IF jobs[j].status = "claimed"
    THEN [jobs EXCEPT ![j] = Released(@, "terminal_failure", Past)]
    ELSE jobs

CompletedRows(w, j) ==
    IF Owns(w, j) THEN [jobs EXCEPT ![j] = Released(@, "completed", Past)] ELSE jobs

FailedRows(w, j) ==
    IF Owns(w, j) THEN [jobs EXCEPT ![j] = Released(@, "terminal_failure", Past)] ELSE jobs

-----------------------------------------------------------------------------
(* Requests.                                                               *)

(* enqueueAccountRecovery on the server of worker h: insert the row, or    *)
(* observe the one with the same idempotency key.                          *)
Enqueue(h, j) ==
    /\ jobs' = IF jobs[j].status = "absent"
               THEN [jobs EXCEPT ![j].status = "available",
                                 ![j].at = Skew[h]]
               ELSE jobs
    /\ UNCHANGED <<workerVars, historyVars, faults>>

-----------------------------------------------------------------------------
(* One cycle of a worker: runCycle, then processClaim for each job.        *)

(* The cycle reads its clock once, before the claim statement runs. *)
Poll(w) ==
    /\ mode[w] = "idle"
    /\ mode' = [mode EXCEPT ![w] = "polling"]
    /\ seen' = [seen EXCEPT ![w] = Skew[w]]
    /\ UNCHANGED <<jobs, batch, spent, cur, tries, historyVars, faults>>

Claim(w) ==
    /\ mode[w] = "polling"
    /\ \E S \in ClaimSets(w) :
        /\ jobs' = ClaimedRows(w, S)
        /\ batch' = [batch EXCEPT ![w] = S]
        /\ spent' = [spent EXCEPT ![w] =
                        {j \in S : /\ jobs[j].status = "claimed"
                                   /\ jobs[j].attempts >= AttemptLimit}]
    /\ mode' = [mode EXCEPT ![w] = "walking"]
    /\ UNCHANGED <<seen, cur, tries, historyVars, faults>>

(* beginAttempt charges one attempt and the processor is entered with the  *)
(* row it returned; a lost claim is skipped.                               *)
BeginAttempt(w, j) ==
    /\ mode[w] = "walking"
    /\ j \in batch[w] \ spent[w]
    /\ batch' = [batch EXCEPT ![w] = @ \ {j}]
    /\ jobs' = ChargedRows(w, j)
    /\ IF Chargeable(w, j)
       THEN /\ mode' = [mode EXCEPT ![w] = "processing"]
            /\ cur' = [cur EXCEPT ![w] = j]
            /\ tries' = [tries EXCEPT ![w] = jobs[j].attempts + 1]
            /\ begun' = [begun EXCEPT ![j] = @ + 1]
       ELSE UNCHANGED <<mode, cur, tries, begun>>
    /\ UNCHANGED <<seen, spent, succeeded, rejected, faults>>

(* A lease_exhausted claim is closed without entering the processor. *)
CloseExhausted(w, j) ==
    /\ mode[w] = "walking"
    /\ j \in batch[w] \cap spent[w]
    /\ batch' = [batch EXCEPT ![w] = @ \ {j}]
    /\ jobs' = FailedRows(w, j)
    /\ UNCHANGED <<mode, seen, spent, cur, tries, historyVars, faults>>

ProcessReturns(w) ==
    /\ mode[w] = "processing"
    /\ mode' = [mode EXCEPT ![w] = "completing"]
    /\ succeeded' = succeeded \cup {cur[w]}
    /\ UNCHANGED <<jobs, seen, batch, spent, cur, tries, begun, rejected, faults>>

(* The catch block's choice for a retryable failure. *)
AfterRetryableFailure(w) ==
    IF tries[w] < AttemptLimit THEN "retrying" ELSE "failing"

ProcessFailsRetryably(w) ==
    /\ mode[w] = "processing"
    /\ mode' = [mode EXCEPT ![w] = AfterRetryableFailure(w)]
    /\ UNCHANGED <<jobs, seen, batch, spent, cur, tries, historyVars, faults>>

ProcessIsRejected(w) ==
    /\ mode[w] = "processing"
    /\ mode' = [mode EXCEPT ![w] = "failing"]
    /\ rejected' = rejected \cup {cur[w]}
    /\ UNCHANGED <<jobs, seen, batch, spent, cur, tries, begun, succeeded, faults>>

(* After a settling statement the walk goes on, whether or not the claim   *)
(* was still owned.                                                        *)
BackToWalk(w) ==
    /\ mode' = [mode EXCEPT ![w] = "walking"]
    /\ cur' = [cur EXCEPT ![w] = NoJob]
    /\ tries' = [tries EXCEPT ![w] = 0]
    /\ UNCHANGED <<seen, batch, spent, historyVars, faults>>

Complete(w) ==
    /\ mode[w] = "completing"
    /\ jobs' = CompletedRows(w, cur[w])
    /\ BackToWalk(w)

Retry(w) ==
    /\ mode[w] = "retrying"
    /\ jobs' = RetriedRows(w, cur[w])
    /\ BackToWalk(w)

Fail(w) ==
    /\ mode[w] = "failing"
    /\ jobs' = FailedRows(w, cur[w])
    /\ BackToWalk(w)

EndCycle(w) ==
    /\ mode[w] = "walking"
    /\ batch[w] = {}
    /\ mode' = [mode EXCEPT ![w] = "idle"]
    /\ spent' = [spent EXCEPT ![w] = {}]
    /\ seen' = [seen EXCEPT ![w] = Past]
    /\ UNCHANGED <<jobs, batch, cur, tries, historyVars, faults>>

-----------------------------------------------------------------------------
(* Failures.  A statement that throws may or may not have been committed.  *)

(* The cycle's promise rejects: what it had claimed stays claimed. *)
AbandonCycle(w, m) ==
    /\ mode' = [mode EXCEPT ![w] = m]
    /\ batch' = [batch EXCEPT ![w] = {}]
    /\ spent' = [spent EXCEPT ![w] = {}]
    /\ cur' = [cur EXCEPT ![w] = NoJob]
    /\ seen' = [seen EXCEPT ![w] = Past]
    /\ tries' = [tries EXCEPT ![w] = 0]
    /\ UNCHANGED historyVars

LoseAnswer == faults < MaxFaults /\ faults' = faults + 1

ClaimThrows(w) ==
    /\ mode[w] = "polling"
    /\ LoseAnswer
    /\ jobs' \in {ClaimedRows(w, S) : S \in ClaimSets(w) \cup {{}}}
    /\ AbandonCycle(w, "idle")

BeginAttemptThrows(w, j) ==
    /\ mode[w] = "walking"
    /\ j \in batch[w] \ spent[w]
    /\ LoseAnswer
    /\ jobs' \in {jobs, ChargedRows(w, j)}
    /\ AbandonCycle(w, "idle")

CloseExhaustedThrows(w, j) ==
    /\ mode[w] = "walking"
    /\ j \in batch[w] \cap spent[w]
    /\ LoseAnswer
    /\ jobs' \in {jobs, FailedRows(w, j)}
    /\ AbandonCycle(w, "idle")

(* markCompleted is inside the try block: its failure is caught and retried. *)
CompleteThrows(w) ==
    /\ mode[w] = "completing"
    /\ LoseAnswer
    /\ jobs' \in {jobs, CompletedRows(w, cur[w])}
    /\ mode' = [mode EXCEPT ![w] = AfterRetryableFailure(w)]
    /\ UNCHANGED <<seen, batch, spent, cur, tries, historyVars>>

RetryThrows(w) ==
    /\ mode[w] = "retrying"
    /\ LoseAnswer
    /\ jobs' \in {jobs, RetriedRows(w, cur[w])}
    /\ AbandonCycle(w, "idle")

FailThrows(w) ==
    /\ mode[w] = "failing"
    /\ LoseAnswer
    /\ jobs' \in {jobs, FailedRows(w, cur[w])}
    /\ AbandonCycle(w, "idle")

(* A process dies for good, as long as another one is left. *)
Crash(w) ==
    /\ mode[w] # "dead"
    /\ \E v \in Worker \ {w} : mode[v] # "dead"
    /\ AbandonCycle(w, "dead")
    /\ UNCHANGED <<jobs, faults>>

Tick ==
    /\ \A w \in Worker : mode[w] = "polling" => seen[w] > Skew[w] - MaxLag
    /\ jobs' = [j \in Job |-> [jobs[j] EXCEPT !.at = Aged(@)]]
    /\ seen' = [w \in Worker |-> Aged(seen[w])]
    /\ UNCHANGED <<mode, batch, spent, cur, tries, historyVars, faults>>

-----------------------------------------------------------------------------

Init ==
    /\ jobs = [j \in Job |-> [status |-> "absent", at |-> Past,
                              claimedBy |-> NoWorker, attempts |-> 0]]
    /\ mode = [w \in Worker |-> "idle"]
    /\ seen = [w \in Worker |-> Past]
    /\ batch = [w \in Worker |-> {}]
    /\ spent = [w \in Worker |-> {}]
    /\ cur = [w \in Worker |-> NoJob]
    /\ tries = [w \in Worker |-> 0]
    /\ begun = [j \in Job |-> 0]
    /\ succeeded = {}
    /\ rejected = {}
    /\ faults = 0

(* What a worker does of itself. *)
Advance(w) ==
    \/ Poll(w) \/ Claim(w)
    \/ \E j \in Job : BeginAttempt(w, j) \/ CloseExhausted(w, j)
    \/ ProcessReturns(w) \/ ProcessFailsRetryably(w) \/ ProcessIsRejected(w)
    \/ Complete(w) \/ Retry(w) \/ Fail(w) \/ EndCycle(w)

Disturb(w) ==
    \/ ClaimThrows(w) \/ CompleteThrows(w) \/ RetryThrows(w) \/ FailThrows(w)
    \/ \E j \in Job : BeginAttemptThrows(w, j) \/ CloseExhaustedThrows(w, j)
    \/ Crash(w)

Next ==
    \/ \E w \in Worker : Advance(w) \/ Disturb(w)
    \/ \E h \in Worker, j \in Job : Enqueue(h, j)
    \/ Tick

Spec == Init /\ [][Next]_vars

(* The first statement about a job the worker has claimed, still owning it. *)
Timely(w) ==
    \E j \in Job :
        Owns(w, j) /\ (BeginAttempt(w, j) \/ CloseExhausted(w, j))

(* Every process that is alive keeps going, and time passes.  The lease is *)
(* minutes and a statement milliseconds, so of the claims a worker makes   *)
(* over and over not every one has run out before its first statement.     *)
FairSpec ==
    /\ Spec
    /\ WF_vars(Tick)
    /\ \A w \in Worker : WF_vars(Advance(w)) /\ SF_vars(Timely(w))

-----------------------------------------------------------------------------
(* Properties.                                                             *)

(* The rows satisfy the column types and CHECK constraints of migration    *)
(* 021 (attempt_count, claim_state), and a worker has a job in hand        *)
(* exactly while it processes or settles one.                              *)
WellFormed(rows) ==
    /\ rows \in [Job -> Row]
    /\ \A j \in Job : rows[j].status = "claimed" <=> rows[j].claimedBy # NoWorker

WorkersTyped ==
    /\ mode \in [Worker -> Mode]
    /\ seen \in [Worker -> Instant]
    /\ batch \in [Worker -> SUBSET Job]
    /\ spent \in [Worker -> SUBSET Job]
    /\ cur \in [Worker -> Job \cup {NoJob}]
    /\ \A w \in Worker : cur[w] # NoJob <=> mode[w] \in InHand
    /\ tries \in [Worker -> 0 .. AttemptLimit]

HistoryTyped ==
    /\ begun \in [Job -> Nat]
    /\ succeeded \subseteq Job
    /\ rejected \subseteq Job
    /\ faults \in 0 .. MaxFaults

(* The rows, the workers' memory and the counts keep their types, and a    *)
(* row is owned exactly while it is claimed (claim_state of migration 021). *)
TypeOK == WellFormed(jobs) /\ WorkersTyped /\ HistoryTyped

(* The processor, which sends mail, is entered at most AttemptLimit times  *)
(* for a job over all workers, crashes and reclaimed leases.               *)
BoundedProcessing == \A j \in Job : begun[j] <= AttemptLimit

(* "A crash while walking a batch cannot consume the retry budget of jobs  *)
(* it never started": an attempt is charged without a processor run only   *)
(* when the answer to beginAttempt itself is lost.                         *)
UnstartedJobsKeepBudget == \A j \in Job : jobs[j].attempts <= begun[j] + faults

(* A job is closed as completed only after a processor run returned for    *)
(* it, and given up only after a final rejection or the last attempt.      *)
ClosedForAReason ==
    \A j \in Job :
        /\ jobs[j].status = "completed" => j \in succeeded
        /\ jobs[j].status = "terminal_failure" =>
              j \in rejected \/ jobs[j].attempts = AttemptLimit

(* Two workers act on one job only when their claims are at least a lease  *)
(* apart on the clocks they were made with, skewed as these are.           *)
ClaimsALeaseApart ==
    \A v, w \in Worker : \A j \in Job :
        (/\ v # w
         /\ j \in Held(v) \cap Held(w)
         /\ seen[v] > Past
         /\ seen[w] > Past) =>
            seen[v] >= seen[w] + Lease \/ seen[w] >= seen[v] + Lease

(* A claim ends by its owner settling that very job, or by another worker  *)
(* taking it over when the lease has run out on the latter's clock: no     *)
(* step of a third worker can end it.                                      *)
ClaimsAreFenced ==
    [][\A w \in Worker, j \in Job :
          Owns(w, j) /\ ~Owns(w, j)' =>
            \/ /\ cur[w] = j
               /\ mode[w] \in {"completing", "retrying", "failing"}
               /\ mode'[w] # mode[w]
            \/ j \in spent[w] /\ batch'[w] # batch[w]
            \/ /\ jobs'[j].status = "claimed"
               /\ jobs[j].at <= seen[jobs'[j].claimedBy] - Lease]_vars

(* Every admitted request is eventually closed, whatever crashes and lost  *)
(* answers leave behind.                                                   *)
EveryJobCloses ==
    \A j \in Job : jobs[j].status # "absent" ~> jobs[j].status \in Closed

(* The ledger a requester may rely on: claims, leases and workers are      *)
(* invisible, an open job is one that is available or claimed.             *)
Standing(j) ==
    CASE jobs[j].status = "absent" -> "none"
      [] jobs[j].status \in Closed -> jobs[j].status
      [] OTHER -> "open"

Ledger == INSTANCE RecoveryLedger WITH
    ledger <- [j \in Job |-> Standing(j)],
    charged <- [j \in Job |-> jobs[j].attempts]

(* The queue implements the ledger: every statement of every worker is one *)
(* step of it or invisible in it.                                          *)
ImplementsLedger == Ledger!LedgerSpec

=============================================================================
