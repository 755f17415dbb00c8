------------------------ MODULE RecoveryQueueProofs ------------------------
(***************************************************************************)
(* Proofs about RecoveryQueue, for every set of workers and jobs, every    *)
(* limit, lease, retry schedule and bounded clock skew.                    *)
(***************************************************************************)
EXTENDS RecoveryQueue, TLAPS

(* A worker with a job in hand was charged a legal attempt for it, and     *)
(* schedules a retry only when the retry schedule has a delay for it.      *)
TriesInv ==
    \A w \in Worker :
        /\ mode[w] \in InHand => tries[w] >= 1
        /\ mode[w] = "retrying" => tries[w] < AttemptLimit

TypeInv == TypeOK /\ TriesInv

-----------------------------------------------------------------------------
(* The rows the statements leave are rows the table accepts.               *)

LEMMA PastIsAnInstant == Past \in Instant /\ Past <= 0 /\ \A n \in Nat : n \in Instant
  BY ClockAssumption DEF Past, Instant

LEMMA ClaimedWellFormed ==
    ASSUME WellFormed(jobs), NEW w \in Worker, seen[w] \in Instant, NEW S \in SUBSET Job
    PROVE  WellFormed(ClaimedRows(w, S))
  BY NullAssumption DEF WellFormed, Row, ClaimedRows, Closed

LEMMA ChargedWellFormed ==
    ASSUME WellFormed(jobs), NEW w \in Worker, NEW j \in Job
    PROVE  WellFormed(ChargedRows(w, j))
<1>1. CASE Chargeable(w, j)
  <2>1. jobs[j].attempts + 1 \in 0 .. AttemptLimit
    BY <1>1, LimitAssumption DEF WellFormed, Row, Chargeable
  <2>2. QED
    BY <1>1, <2>1 DEF WellFormed, Row, ChargedRows
<1>2. CASE ~Chargeable(w, j)
  BY <1>2 DEF ChargedRows
<1>3. QED
  BY <1>1, <1>2

LEMMA ReleasedWellFormed ==
    ASSUME WellFormed(jobs), NEW j \in Job,
           NEW status \in {"available"} \cup Closed, NEW at \in Instant
    PROVE  WellFormed([jobs EXCEPT ![j] = Released(@, status, at)])
  BY NullAssumption DEF WellFormed, Row, Released, Closed

LEMMA SettledWellFormed ==
    ASSUME WellFormed(jobs), NEW w \in Worker, NEW j \in Job
    PROVE  /\ WellFormed(CompletedRows(w, j))
           /\ WellFormed(FailedRows(w, j))
  BY ReleasedWellFormed, PastIsAnInstant DEF CompletedRows, FailedRows, Closed

LEMMA RetriedWellFormed ==
    ASSUME WellFormed(jobs), NEW w \in Worker, NEW j \in Job,
           tries[w] \in 1 .. AttemptLimit - 1
    PROVE  WellFormed(RetriedRows(w, j))
<1>1. Skew[w] + RetryDelay[tries[w]] \in Nat
  BY ClockAssumption, DelayAssumption, LimitAssumption
<1>2. Skew[w] + RetryDelay[tries[w]] \in Instant
  BY <1>1, PastIsAnInstant
<1>3. QED
  BY <1>2, ReleasedWellFormed DEF RetriedRows

-----------------------------------------------------------------------------
(* The type invariant.                                                     *)

LEMMA AgedInstant == \A t \in Instant : Aged(t) \in Instant
  BY ClockAssumption DEF Aged, Instant, Past

LEMMA TypeInvInit == Init => TypeInv
<1> SUFFICES ASSUME Init PROVE TypeInv
  OBVIOUS
<1>1. WellFormed(jobs)
  BY PastIsAnInstant, LimitAssumption DEF Init, WellFormed, Row
<1>2. seen \in [Worker -> Instant]
  BY PastIsAnInstant DEF Init
<1>3. WorkersTyped /\ HistoryTyped /\ TriesInv
  BY <1>2, ClockAssumption, LimitAssumption, NullAssumption
  DEF Init, WorkersTyped, HistoryTyped, TriesInv, InHand, Mode
<1>4. QED
  BY <1>1, <1>3 DEF TypeInv, TypeOK

LEMMA TypeInvStep == TypeInv /\ [Next]_vars => TypeInv'
<1> SUFFICES ASSUME TypeInv, [Next]_vars PROVE TypeInv'
  OBVIOUS
<1>r. WellFormed(jobs)
  BY DEF TypeInv, TypeOK
<1>w. WorkersTyped /\ HistoryTyped /\ TriesInv
  BY DEF TypeInv, TypeOK
<1>c. \A v \in Worker, k \in Job :
        Chargeable(v, k) => jobs[k].attempts + 1 \in 1 .. AttemptLimit
  BY <1>r, LimitAssumption DEF Chargeable, WellFormed, Row
<1>s. \A v \in Worker : Skew[v] \in Instant
  BY ClockAssumption, PastIsAnInstant
<1>h. \A w \in Worker : mode[w] \in InHand => cur[w] \in Job /\ tries[w] \in 1 .. AttemptLimit
  BY NullAssumption DEF TypeInv, TypeOK, WorkersTyped, TriesInv, InHand
<1>rt. \A w \in Worker : mode[w] = "retrying" => tries[w] \in 1 .. AttemptLimit - 1
  BY <1>h, LimitAssumption DEF TypeInv, TypeOK, WorkersTyped, TriesInv, InHand
<1>1. ASSUME NEW w \in Worker, Poll(w)
      PROVE  TypeInv'
  <2>1. WellFormed(jobs)'
    BY <1>1, <1>r DEF Poll, WellFormed
  <2>2. (WorkersTyped /\ HistoryTyped /\ TriesInv)'
    BY <1>1, <1>w, <1>h, LimitAssumption, NullAssumption, ClockAssumption, <1>s
    DEF Poll, WorkersTyped, HistoryTyped, TriesInv, InHand, Mode, historyVars
  <2>3. QED
    BY <2>1, <2>2 DEF TypeInv, TypeOK
<1>2. ASSUME NEW w \in Worker, Claim(w)
      PROVE  TypeInv'
  <2>1. WellFormed(jobs)'
    BY <1>2, <1>r, <1>w, ClaimedWellFormed
    DEF Claim, WorkersTyped, ClaimSets, Claimable, WellFormed
  <2>2. (WorkersTyped /\ HistoryTyped /\ TriesInv)'
    BY <1>2, <1>w, <1>h, LimitAssumption, NullAssumption, ClockAssumption
    DEF Claim, ClaimSets, Claimable, WorkersTyped, HistoryTyped, TriesInv, InHand,
        Mode, historyVars
  <2>3. QED
    BY <2>1, <2>2 DEF TypeInv, TypeOK
<1>3. ASSUME NEW w \in Worker, NEW j \in Job, BeginAttempt(w, j)
      PROVE  TypeInv'
  <2>1. WellFormed(jobs)'
    BY <1>3, <1>r, ChargedWellFormed DEF BeginAttempt, WellFormed
  <2>2. (WorkersTyped /\ HistoryTyped /\ TriesInv)'
    BY <1>3, <1>w, <1>h, LimitAssumption, NullAssumption, ClockAssumption, <1>c
    DEF BeginAttempt, WorkersTyped, HistoryTyped, TriesInv, InHand, Mode, historyVars
  <2>3. QED
    BY <2>1, <2>2 DEF TypeInv, TypeOK
<1>4. ASSUME NEW w \in Worker, NEW j \in Job, CloseExhausted(w, j)
      PROVE  TypeInv'
  <2>1. WellFormed(jobs)'
    BY <1>4, <1>r, SettledWellFormed DEF CloseExhausted, WellFormed
  <2>2. (WorkersTyped /\ HistoryTyped /\ TriesInv)'
    BY <1>4, <1>w, <1>h, LimitAssumption, NullAssumption, ClockAssumption
    DEF CloseExhausted, WorkersTyped, HistoryTyped, TriesInv, InHand, Mode, historyVars
  <2>3. QED
    BY <2>1, <2>2 DEF TypeInv, TypeOK
<1>5. ASSUME NEW w \in Worker, ProcessReturns(w)
      PROVE  TypeInv'
  <2>1. WellFormed(jobs)'
    BY <1>5, <1>r DEF ProcessReturns, WellFormed
  <2>2. (WorkersTyped /\ HistoryTyped /\ TriesInv)'
    BY <1>5, <1>w, <1>h, LimitAssumption, NullAssumption, ClockAssumption
    DEF ProcessReturns, WorkersTyped, HistoryTyped, TriesInv, InHand, Mode, historyVars
  <2>3. QED
    BY <2>1, <2>2 DEF TypeInv, TypeOK
<1>6. ASSUME NEW w \in Worker, ProcessFailsRetryably(w)
      PROVE  TypeInv'
  <2>1. WellFormed(jobs)'
    BY <1>6, <1>r DEF ProcessFailsRetryably, WellFormed
  <2>2. (WorkersTyped /\ HistoryTyped /\ TriesInv)'
    BY <1>6, <1>w, <1>h, LimitAssumption, NullAssumption, ClockAssumption
    DEF ProcessFailsRetryably, AfterRetryableFailure, WorkersTyped, HistoryTyped,
        TriesInv, InHand, Mode, historyVars
  <2>3. QED
    BY <2>1, <2>2 DEF TypeInv, TypeOK
<1>7. ASSUME NEW w \in Worker, ProcessIsRejected(w)
      PROVE  TypeInv'
  <2>1. WellFormed(jobs)'
    BY <1>7, <1>r DEF ProcessIsRejected, WellFormed
  <2>2. (WorkersTyped /\ HistoryTyped /\ TriesInv)'
    BY <1>7, <1>w, <1>h, LimitAssumption, NullAssumption, ClockAssumption
    DEF ProcessIsRejected, WorkersTyped, HistoryTyped, TriesInv, InHand, Mode,
        historyVars
  <2>3. QED
    BY <2>1, <2>2 DEF TypeInv, TypeOK
<1>8. ASSUME NEW w \in Worker, Complete(w)
      PROVE  TypeInv'
  <2>1. WellFormed(jobs)'
    BY <1>8, <1>r, <1>h, SettledWellFormed DEF Complete, InHand, WellFormed
  <2>2. (WorkersTyped /\ HistoryTyped /\ TriesInv)'
    BY <1>8, <1>w, <1>h, LimitAssumption, NullAssumption, ClockAssumption
    DEF Complete, BackToWalk, WorkersTyped, HistoryTyped, TriesInv, InHand, Mode,
        historyVars
  <2>3. QED
    BY <2>1, <2>2 DEF TypeInv, TypeOK
<1>9. ASSUME NEW w \in Worker, Retry(w)
      PROVE  TypeInv'
  <2>1. WellFormed(jobs)'
    BY <1>9, <1>r, <1>h, <1>rt, RetriedWellFormed DEF Retry, InHand, WellFormed
  <2>2. (WorkersTyped /\ HistoryTyped /\ TriesInv)'
    BY <1>9, <1>w, <1>h, LimitAssumption, NullAssumption, ClockAssumption
    DEF Retry, BackToWalk, WorkersTyped, HistoryTyped, TriesInv, InHand, Mode,
        historyVars
  <2>3. QED
    BY <2>1, <2>2 DEF TypeInv, TypeOK
<1>10. ASSUME NEW w \in Worker, Fail(w)
      PROVE  TypeInv'
  <2>1. WellFormed(jobs)'
    BY <1>10, <1>r, <1>h, SettledWellFormed DEF Fail, InHand, WellFormed
  <2>2. (WorkersTyped /\ HistoryTyped /\ TriesInv)'
    BY <1>10, <1>w, <1>h, LimitAssumption, NullAssumption, ClockAssumption
    DEF Fail, BackToWalk, WorkersTyped, HistoryTyped, TriesInv, InHand, Mode,
        historyVars
  <2>3. QED
    BY <2>1, <2>2 DEF TypeInv, TypeOK
<1>11. ASSUME NEW w \in Worker, EndCycle(w)
      PROVE  TypeInv'
  <2>1. WellFormed(jobs)'
    BY <1>11, <1>r DEF EndCycle, WellFormed
  <2>2. (WorkersTyped /\ HistoryTyped /\ TriesInv)'
    BY <1>11, <1>w, <1>h, LimitAssumption, NullAssumption, ClockAssumption,
       PastIsAnInstant
    DEF EndCycle, WorkersTyped, HistoryTyped, TriesInv, InHand, Mode, historyVars
  <2>3. QED
    BY <2>1, <2>2 DEF TypeInv, TypeOK
<1>12. ASSUME NEW w \in Worker, ClaimThrows(w)
      PROVE  TypeInv'
  <2>1. WellFormed(jobs)'
    BY <1>12, <1>r, <1>w, ClaimedWellFormed
    DEF ClaimThrows, WorkersTyped, ClaimSets, Claimable, WellFormed
  <2>2. (WorkersTyped /\ HistoryTyped /\ TriesInv)'
    BY <1>12, <1>w, <1>h, LimitAssumption, NullAssumption, ClockAssumption,
       PastIsAnInstant
    DEF ClaimThrows, AbandonCycle, LoseAnswer, WorkersTyped, HistoryTyped, TriesInv,
        InHand, Mode, historyVars
  <2>3. QED
    BY <2>1, <2>2 DEF TypeInv, TypeOK
<1>13. ASSUME NEW w \in Worker, NEW j \in Job, BeginAttemptThrows(w, j)
      PROVE  TypeInv'
  <2>1. WellFormed(jobs)'
    BY <1>13, <1>r, ChargedWellFormed DEF BeginAttemptThrows, WellFormed
  <2>2. (WorkersTyped /\ HistoryTyped /\ TriesInv)'
    BY <1>13, <1>w, <1>h, LimitAssumption, NullAssumption, ClockAssumption,
       PastIsAnInstant
    DEF BeginAttemptThrows, AbandonCycle, LoseAnswer, WorkersTyped, HistoryTyped,
        TriesInv, InHand, Mode, historyVars
  <2>3. QED
    BY <2>1, <2>2 DEF TypeInv, TypeOK
<1>14. ASSUME NEW w \in Worker, NEW j \in Job, CloseExhaustedThrows(w, j)
      PROVE  TypeInv'
  <2>1. WellFormed(jobs)'
    BY <1>14, <1>r, SettledWellFormed DEF CloseExhaustedThrows, WellFormed
  <2>2. (WorkersTyped /\ HistoryTyped /\ TriesInv)'
    BY <1>14, <1>w, <1>h, LimitAssumption, NullAssumption, ClockAssumption,
       PastIsAnInstant
    DEF CloseExhaustedThrows, AbandonCycle, LoseAnswer, WorkersTyped, HistoryTyped,
        TriesInv, InHand, Mode, historyVars
  <2>3. QED
    BY <2>1, <2>2 DEF TypeInv, TypeOK
<1>15. ASSUME NEW w \in Worker, CompleteThrows(w)
      PROVE  TypeInv'
  <2>1. WellFormed(jobs)'
    BY <1>15, <1>r, <1>h, SettledWellFormed DEF CompleteThrows, InHand, WellFormed
  <2>2. (WorkersTyped /\ HistoryTyped /\ TriesInv)'
    BY <1>15, <1>w, <1>h, LimitAssumption, NullAssumption, ClockAssumption
    DEF CompleteThrows, AfterRetryableFailure, LoseAnswer, WorkersTyped,
        HistoryTyped, TriesInv, InHand, Mode, historyVars
  <2>3. QED
    BY <2>1, <2>2 DEF TypeInv, TypeOK
<1>16. ASSUME NEW w \in Worker, RetryThrows(w)
      PROVE  TypeInv'
  <2>1. WellFormed(jobs)'
    BY <1>16, <1>r, <1>h, <1>rt, RetriedWellFormed DEF RetryThrows, InHand, WellFormed
  <2>2. (WorkersTyped /\ HistoryTyped /\ TriesInv)'
    BY <1>16, <1>w, <1>h, LimitAssumption, NullAssumption, ClockAssumption,
       PastIsAnInstant
    DEF RetryThrows, AbandonCycle, LoseAnswer, WorkersTyped, HistoryTyped, TriesInv,
        InHand, Mode, historyVars
  <2>3. QED
    BY <2>1, <2>2 DEF TypeInv, TypeOK
<1>17. ASSUME NEW w \in Worker, FailThrows(w)
      PROVE  TypeInv'
  <2>1. WellFormed(jobs)'
    BY <1>17, <1>r, <1>h, SettledWellFormed DEF FailThrows, InHand, WellFormed
  <2>2. (WorkersTyped /\ HistoryTyped /\ TriesInv)'
    BY <1>17, <1>w, <1>h, LimitAssumption, NullAssumption, ClockAssumption,
       PastIsAnInstant
    DEF FailThrows, AbandonCycle, LoseAnswer, WorkersTyped, HistoryTyped, TriesInv,
        InHand, Mode, historyVars
  <2>3. QED
    BY <2>1, <2>2 DEF TypeInv, TypeOK
<1>18. ASSUME NEW w \in Worker, Crash(w)
      PROVE  TypeInv'
  <2>1. WellFormed(jobs)'
    BY <1>18, <1>r DEF Crash, WellFormed
  <2>2. (WorkersTyped /\ HistoryTyped /\ TriesInv)'
    BY <1>18, <1>w, <1>h, LimitAssumption, NullAssumption, ClockAssumption,
       PastIsAnInstant
    DEF Crash, AbandonCycle, WorkersTyped, HistoryTyped, TriesInv, InHand, Mode,
        historyVars
  <2>3. QED
    BY <2>1, <2>2 DEF TypeInv, TypeOK
<1>19. ASSUME NEW h \in Worker, NEW j \in Job, Enqueue(h, j)
      PROVE  TypeInv'
  <2>1. WellFormed(jobs)'
    BY <1>19, <1>r, <1>s DEF Enqueue, WellFormed, Row
  <2>2. (WorkersTyped /\ HistoryTyped /\ TriesInv)'
    BY <1>19, <1>w, <1>h, LimitAssumption, NullAssumption, ClockAssumption
    DEF Enqueue, workerVars, WorkersTyped, HistoryTyped, TriesInv, InHand, Mode,
        historyVars
  <2>3. QED
    BY <2>1, <2>2 DEF TypeInv, TypeOK
<1>20. ASSUME Tick
      PROVE  TypeInv'
  <2>1. WellFormed(jobs)'
    BY <1>20, <1>r, AgedInstant DEF Tick, WellFormed, Row
  <2>2. (WorkersTyped /\ HistoryTyped /\ TriesInv)'
    BY <1>20, <1>w, <1>h, LimitAssumption, NullAssumption, ClockAssumption, AgedInstant
    DEF Tick, WorkersTyped, HistoryTyped, TriesInv, InHand, Mode, historyVars
  <2>3. QED
    BY <2>1, <2>2 DEF TypeInv, TypeOK
<1>21. CASE UNCHANGED vars
  BY <1>21, <1>r, <1>w
  DEF TypeInv, TypeOK, vars, workerVars, WellFormed, WorkersTyped, HistoryTyped,
      TriesInv, InHand, Mode, historyVars
<1>22. QED
  BY <1>1, <1>2, <1>3, <1>4, <1>5, <1>6, <1>7, <1>8, <1>9, <1>10, <1>11, <1>12,
     <1>13, <1>14, <1>15, <1>16, <1>17, <1>18, <1>19, <1>20, <1>21
  DEF Next, Advance, Disturb

(* The rows obey the constraints of the migration, and every worker holds *)
(* what it claimed, at every step of its walk.                             *)
THEOREM TypeCorrect == Spec => []TypeOK
<1>1. Spec => []TypeInv
  BY TypeInvInit, TypeInvStep, PTL DEF Spec
<1>2. QED
  BY <1>1, PTL DEF TypeInv
-----------------------------------------------------------------------------
(* What each statement does to the attempts and the status of a row.       *)

LEMMA ClaimedEffect ==
    ASSUME WellFormed(jobs), NEW w \in Worker, NEW S \in SUBSET Claimable(w), NEW k \in Job
    PROVE  /\ ClaimedRows(w, S)[k].attempts = jobs[k].attempts
           /\ \/ ClaimedRows(w, S)[k].status = jobs[k].status
              \/ /\ jobs[k].status \in {"available", "claimed"}
                 /\ ClaimedRows(w, S)[k].status = "claimed"
  BY DEF ClaimedRows, WellFormed, Row, Claimable

LEMMA ChargedEffect ==
    ASSUME WellFormed(jobs), NEW w \in Worker, NEW j \in Job, NEW k \in Job
    PROVE  /\ ChargedRows(w, j)[k].status = jobs[k].status
           /\ ChargedRows(w, j)[k].attempts =
                IF k = j /\ Chargeable(w, j) THEN jobs[k].attempts + 1 ELSE jobs[k].attempts
  BY DEF ChargedRows, WellFormed, Row

LEMMA RetriedEffect ==
    ASSUME WellFormed(jobs), NEW w \in Worker, NEW j \in Job, NEW k \in Job
    PROVE  /\ RetriedRows(w, j)[k].attempts = jobs[k].attempts
           /\ \/ RetriedRows(w, j)[k].status = jobs[k].status
              \/ k = j /\ jobs[j].status = "claimed" /\ RetriedRows(w, j)[k].status = "available"
  BY DEF RetriedRows, Released, Owns, WellFormed, Row

LEMMA CompletedEffect ==
    ASSUME WellFormed(jobs), NEW w \in Worker, NEW j \in Job, NEW k \in Job
    PROVE  /\ CompletedRows(w, j)[k].attempts = jobs[k].attempts
           /\ \/ CompletedRows(w, j)[k].status = jobs[k].status
              \/ k = j /\ jobs[j].status = "claimed" /\ CompletedRows(w, j)[k].status = "completed"
  BY DEF CompletedRows, Released, Owns, WellFormed, Row

LEMMA FailedEffect ==
    ASSUME WellFormed(jobs), NEW w \in Worker, NEW j \in Job, NEW k \in Job
    PROVE  /\ FailedRows(w, j)[k].attempts = jobs[k].attempts
           /\ \/ FailedRows(w, j)[k].status = jobs[k].status
              \/ k = j /\ jobs[j].status = "claimed" /\ FailedRows(w, j)[k].status = "terminal_failure"
  BY DEF FailedRows, Released, Owns, WellFormed, Row

-----------------------------------------------------------------------------
(* The retry budget and the reasons for closing a job.                     *)

(* Attempts are counted where the processor is entered; what a worker      *)
(* remembers of a job it holds cannot outrun the row.                      *)
BudgetInv ==
    /\ \A j \in Job : begun[j] <= jobs[j].attempts
    /\ \A j \in Job : jobs[j].attempts <= begun[j] + faults
    /\ \A w \in Worker : mode[w] \in InHand => tries[w] <= jobs[cur[w]].attempts

ReasonInv ==
    /\ \A w \in Worker : mode[w] = "completing" => cur[w] \in succeeded
    /\ \A w \in Worker : mode[w] = "failing" =>
          cur[w] \in rejected \/ jobs[cur[w]].attempts = AttemptLimit
    /\ \A w \in Worker : \A j \in spent[w] : jobs[j].attempts = AttemptLimit
    /\ ClosedForAReason

HistoryInv == BudgetInv /\ ReasonInv

LEMMA HistoryInvInit == Init => HistoryInv
  BY LimitAssumption
  DEF Init, HistoryInv, BudgetInv, ReasonInv, InHand, ClosedForAReason

LEMMA HistoryInvStep == TypeInv /\ TypeInv' /\ HistoryInv /\ [Next]_vars => HistoryInv'
<1> SUFFICES ASSUME TypeInv, TypeInv', HistoryInv, [Next]_vars PROVE HistoryInv'
  OBVIOUS
<1>r. WellFormed(jobs) /\ WellFormed(jobs)'
  BY DEF TypeInv, TypeOK
<1>w. WorkersTyped /\ WorkersTyped' /\ HistoryTyped /\ TriesInv
  BY DEF TypeInv, TypeOK
<1>a. \A j \in Job : jobs[j].attempts \in 0 .. AttemptLimit /\ jobs'[j].attempts \in 0 .. AttemptLimit
  BY <1>r DEF WellFormed, Row
<1>c. \A w \in Worker : \A S \in ClaimSets(w) : S \subseteq Claimable(w) /\ S \subseteq Job
  BY DEF ClaimSets, Claimable
<1>h. \A w \in Worker : mode[w] \in InHand => cur[w] \in Job /\ tries[w] \in 1 .. AttemptLimit
  BY <1>w, NullAssumption DEF WorkersTyped, TriesInv, InHand
<1>1. ASSUME NEW w \in Worker, Poll(w)
      PROVE  HistoryInv'
  BY <1>1, <1>r, <1>c, <1>w, <1>a, <1>h, LimitAssumption, ClockAssumption
  DEF Poll, HistoryInv, BudgetInv, ReasonInv, ClosedForAReason, WorkersTyped,
      HistoryTyped, InHand, Closed, historyVars
<1>2. ASSUME NEW w \in Worker, Claim(w)
      PROVE  HistoryInv'
  <2>1. \A k \in Job :
          /\ jobs'[k].attempts = jobs[k].attempts
          /\ jobs'[k].status = jobs[k].status \/ jobs'[k].status = "claimed"
    BY <1>2, <1>r, <1>h, <1>c, ClaimedEffect DEF Claim
  <2>u. /\ UNCHANGED <<cur, tries, historyVars, faults>>
        /\ mode' = [mode EXCEPT ![w] = "walking"]
        /\ \A v \in Worker : \A k \in spent'[v] : jobs[k].attempts = AttemptLimit
    BY <1>2, <1>c, <1>a, <1>w, <1>r, LimitAssumption
    DEF Claim, WorkersTyped, HistoryInv, ReasonInv
  <2>2. BudgetInv'
    BY <2>u, <2>1, <1>r, <1>c, <1>w, <1>a, <1>h, LimitAssumption, ClockAssumption
    DEF workerVars, HistoryInv, BudgetInv, ReasonInv, ClosedForAReason,
        WorkersTyped, HistoryTyped, InHand, Closed, historyVars
  <2>3. ReasonInv'
    BY <2>u, <2>1, <1>r, <1>c, <1>w, <1>a, <1>h, LimitAssumption, ClockAssumption
    DEF workerVars, HistoryInv, BudgetInv, ReasonInv, ClosedForAReason,
        WorkersTyped, HistoryTyped, InHand, Closed, historyVars
  <2>4. QED
    BY <2>2, <2>3 DEF HistoryInv
<1>3. ASSUME NEW w \in Worker, NEW j \in Job, BeginAttempt(w, j)
      PROVE  HistoryInv'
  <2>1. \A k \in Job :
          /\ jobs'[k].status = jobs[k].status
          /\ jobs'[k].attempts =
                IF k = j /\ Chargeable(w, j) THEN jobs[k].attempts + 1 ELSE jobs[k].attempts
    BY <1>3, <1>r, <1>h, <1>c, ChargedEffect DEF BeginAttempt
  <2>2. BudgetInv'
    BY <1>3, <2>1, <1>r, <1>c, <1>w, <1>a, <1>h, LimitAssumption, ClockAssumption
    DEF BeginAttempt, Chargeable, Owns, HistoryInv, BudgetInv, ReasonInv,
        ClosedForAReason, WorkersTyped, HistoryTyped, InHand, Closed, historyVars
  <2>3. ReasonInv'
    BY <1>3, <2>1, <1>r, <1>c, <1>w, <1>a, <1>h, LimitAssumption, ClockAssumption
    DEF BeginAttempt, Chargeable, Owns, HistoryInv, BudgetInv, ReasonInv,
        ClosedForAReason, WorkersTyped, HistoryTyped, InHand, Closed, historyVars
  <2>4. QED
    BY <2>2, <2>3 DEF HistoryInv
<1>4. ASSUME NEW w \in Worker, NEW j \in Job, CloseExhausted(w, j)
      PROVE  HistoryInv'
  <2>1. \A k \in Job :
          /\ jobs'[k].attempts = jobs[k].attempts
          /\ \/ jobs'[k].status = jobs[k].status
             \/ k = j /\ jobs'[k].status = "terminal_failure"
    BY <1>4, <1>r, <1>h, <1>c, FailedEffect DEF CloseExhausted
  <2>2. BudgetInv'
    BY <1>4, <2>1, <1>r, <1>c, <1>w, <1>a, <1>h, LimitAssumption, ClockAssumption
    DEF CloseExhausted, HistoryInv, BudgetInv, ReasonInv, ClosedForAReason,
        WorkersTyped, HistoryTyped, InHand, Closed, historyVars
  <2>3. ReasonInv'
    BY <1>4, <2>1, <1>r, <1>c, <1>w, <1>a, <1>h, LimitAssumption, ClockAssumption
    DEF CloseExhausted, HistoryInv, BudgetInv, ReasonInv, ClosedForAReason,
        WorkersTyped, HistoryTyped, InHand, Closed, historyVars
  <2>4. QED
    BY <2>2, <2>3 DEF HistoryInv
<1>5. ASSUME NEW w \in Worker, ProcessReturns(w)
      PROVE  HistoryInv'
  BY <1>5, <1>r, <1>c, <1>w, <1>a, <1>h, LimitAssumption, ClockAssumption
  DEF ProcessReturns, HistoryInv, BudgetInv, ReasonInv, ClosedForAReason,
      WorkersTyped, HistoryTyped, InHand, Closed, historyVars
<1>6. ASSUME NEW w \in Worker, ProcessFailsRetryably(w)
      PROVE  HistoryInv'
  BY <1>6, <1>r, <1>c, <1>w, <1>a, <1>h, LimitAssumption, ClockAssumption
  DEF ProcessFailsRetryably, AfterRetryableFailure, HistoryInv, BudgetInv,
      ReasonInv, ClosedForAReason, WorkersTyped, HistoryTyped, InHand, Closed,
      historyVars
<1>7. ASSUME NEW w \in Worker, ProcessIsRejected(w)
      PROVE  HistoryInv'
  BY <1>7, <1>r, <1>c, <1>w, <1>a, <1>h, LimitAssumption, ClockAssumption
  DEF ProcessIsRejected, HistoryInv, BudgetInv, ReasonInv, ClosedForAReason,
      WorkersTyped, HistoryTyped, InHand, Closed, historyVars
<1>8. ASSUME NEW w \in Worker, Complete(w)
      PROVE  HistoryInv'
  <2>1. \A k \in Job :
          /\ jobs'[k].attempts = jobs[k].attempts
          /\ \/ jobs'[k].status = jobs[k].status
             \/ k = cur[w] /\ jobs'[k].status = "completed"
    BY <1>8, <1>r, <1>h, <1>c, CompletedEffect DEF Complete, InHand
  <2>2. BudgetInv'
    BY <1>8, <2>1, <1>r, <1>c, <1>w, <1>a, <1>h, LimitAssumption, ClockAssumption
    DEF Complete, BackToWalk, HistoryInv, BudgetInv, ReasonInv, ClosedForAReason,
        WorkersTyped, HistoryTyped, InHand, Closed, historyVars
  <2>3. ReasonInv'
    BY <1>8, <2>1, <1>r, <1>c, <1>w, <1>a, <1>h, LimitAssumption, ClockAssumption
    DEF Complete, BackToWalk, HistoryInv, BudgetInv, ReasonInv, ClosedForAReason,
        WorkersTyped, HistoryTyped, InHand, Closed, historyVars
  <2>4. QED
    BY <2>2, <2>3 DEF HistoryInv
<1>9. ASSUME NEW w \in Worker, Retry(w)
      PROVE  HistoryInv'
  <2>1. \A k \in Job :
          /\ jobs'[k].attempts = jobs[k].attempts
          /\ \/ jobs'[k].status = jobs[k].status
             \/ k = cur[w] /\ jobs'[k].status = "available"
    BY <1>9, <1>r, <1>h, <1>c, RetriedEffect DEF Retry, InHand
  <2>2. BudgetInv'
    BY <1>9, <2>1, <1>r, <1>c, <1>w, <1>a, <1>h, LimitAssumption, ClockAssumption
    DEF Retry, BackToWalk, HistoryInv, BudgetInv, ReasonInv, ClosedForAReason,
        WorkersTyped, HistoryTyped, InHand, Closed, historyVars
  <2>3. ReasonInv'
    BY <1>9, <2>1, <1>r, <1>c, <1>w, <1>a, <1>h, LimitAssumption, ClockAssumption
    DEF Retry, BackToWalk, HistoryInv, BudgetInv, ReasonInv, ClosedForAReason,
        WorkersTyped, HistoryTyped, InHand, Closed, historyVars
  <2>4. QED
    BY <2>2, <2>3 DEF HistoryInv
<1>10. ASSUME NEW w \in Worker, Fail(w)
      PROVE  HistoryInv'
  <2>1. \A k \in Job :
          /\ jobs'[k].attempts = jobs[k].attempts
          /\ \/ jobs'[k].status = jobs[k].status
             \/ k = cur[w] /\ jobs'[k].status = "terminal_failure"
    BY <1>10, <1>r, <1>h, <1>c, FailedEffect DEF Fail, InHand
  <2>2. BudgetInv'
    BY <1>10, <2>1, <1>r, <1>c, <1>w, <1>a, <1>h, LimitAssumption, ClockAssumption
    DEF Fail, BackToWalk, HistoryInv, BudgetInv, ReasonInv, ClosedForAReason,
        WorkersTyped, HistoryTyped, InHand, Closed, historyVars
  <2>3. ReasonInv'
    BY <1>10, <2>1, <1>r, <1>c, <1>w, <1>a, <1>h, LimitAssumption, ClockAssumption
    DEF Fail, BackToWalk, HistoryInv, BudgetInv, ReasonInv, ClosedForAReason,
        WorkersTyped, HistoryTyped, InHand, Closed, historyVars
  <2>4. QED
    BY <2>2, <2>3 DEF HistoryInv
<1>11. ASSUME NEW w \in Worker, EndCycle(w)
      PROVE  HistoryInv'
  BY <1>11, <1>r, <1>c, <1>w, <1>a, <1>h, LimitAssumption, ClockAssumption
  DEF EndCycle, HistoryInv, BudgetInv, ReasonInv, ClosedForAReason, WorkersTyped,
      HistoryTyped, InHand, Closed, historyVars
<1>12. ASSUME NEW w \in Worker, ClaimThrows(w)
      PROVE  HistoryInv'
  <2>1. \A k \in Job :
          /\ jobs'[k].attempts = jobs[k].attempts
          /\ jobs'[k].status = jobs[k].status \/ jobs'[k].status = "claimed"
    BY <1>12, <1>r, <1>h, <1>c, ClaimedEffect DEF ClaimThrows
  <2>2. BudgetInv'
    BY <1>12, <2>1, <1>r, <1>c, <1>w, <1>a, <1>h, LimitAssumption, ClockAssumption
    DEF ClaimThrows, AbandonCycle, LoseAnswer, HistoryInv, BudgetInv, ReasonInv,
        ClosedForAReason, WorkersTyped, HistoryTyped, InHand, Closed, historyVars
  <2>3. ReasonInv'
    BY <1>12, <2>1, <1>r, <1>c, <1>w, <1>a, <1>h, LimitAssumption, ClockAssumption
    DEF ClaimThrows, AbandonCycle, LoseAnswer, HistoryInv, BudgetInv, ReasonInv,
        ClosedForAReason, WorkersTyped, HistoryTyped, InHand, Closed, historyVars
  <2>4. QED
    BY <2>2, <2>3 DEF HistoryInv
<1>13. ASSUME NEW w \in Worker, NEW j \in Job, BeginAttemptThrows(w, j)
      PROVE  HistoryInv'
  <2>1. \A k \in Job :
          /\ jobs'[k].status = jobs[k].status
          /\ \/ jobs'[k].attempts = jobs[k].attempts
             \/ Chargeable(w, j) /\ jobs'[k].attempts = jobs[k].attempts + 1
    BY <1>13, <1>r, <1>h, <1>c, ChargedEffect DEF BeginAttemptThrows
  <2>2. BudgetInv'
    BY <1>13, <2>1, <1>r, <1>c, <1>w, <1>a, <1>h, LimitAssumption, ClockAssumption
    DEF BeginAttemptThrows, AbandonCycle, LoseAnswer, Chargeable, Owns, HistoryInv,
        BudgetInv, ReasonInv, ClosedForAReason, WorkersTyped, HistoryTyped, InHand,
        Closed, historyVars
  <2>3. ReasonInv'
    BY <1>13, <2>1, <1>r, <1>c, <1>w, <1>a, <1>h, LimitAssumption, ClockAssumption
    DEF BeginAttemptThrows, AbandonCycle, LoseAnswer, Chargeable, Owns, HistoryInv,
        BudgetInv, ReasonInv, ClosedForAReason, WorkersTyped, HistoryTyped, InHand,
        Closed, historyVars
  <2>4. QED
    BY <2>2, <2>3 DEF HistoryInv
<1>14. ASSUME NEW w \in Worker, NEW j \in Job, CloseExhaustedThrows(w, j)
      PROVE  HistoryInv'
  <2>1. \A k \in Job :
          /\ jobs'[k].attempts = jobs[k].attempts
          /\ \/ jobs'[k].status = jobs[k].status
             \/ k = j /\ jobs'[k].status = "terminal_failure"
    BY <1>14, <1>r, <1>h, <1>c, FailedEffect DEF CloseExhaustedThrows
  <2>2. BudgetInv'
    BY <1>14, <2>1, <1>r, <1>c, <1>w, <1>a, <1>h, LimitAssumption, ClockAssumption
    DEF CloseExhaustedThrows, AbandonCycle, LoseAnswer, HistoryInv, BudgetInv,
        ReasonInv, ClosedForAReason, WorkersTyped, HistoryTyped, InHand, Closed,
        historyVars
  <2>3. ReasonInv'
    BY <1>14, <2>1, <1>r, <1>c, <1>w, <1>a, <1>h, LimitAssumption, ClockAssumption
    DEF CloseExhaustedThrows, AbandonCycle, LoseAnswer, HistoryInv, BudgetInv,
        ReasonInv, ClosedForAReason, WorkersTyped, HistoryTyped, InHand, Closed,
        historyVars
  <2>4. QED
    BY <2>2, <2>3 DEF HistoryInv
<1>15. ASSUME NEW w \in Worker, CompleteThrows(w)
      PROVE  HistoryInv'
  <2>1. \A k \in Job :
          /\ jobs'[k].attempts = jobs[k].attempts
          /\ \/ jobs'[k].status = jobs[k].status
             \/ k = cur[w] /\ jobs'[k].status = "completed"
    BY <1>15, <1>r, <1>h, <1>c, CompletedEffect DEF CompleteThrows, InHand
  <2>2. BudgetInv'
    BY <1>15, <2>1, <1>r, <1>c, <1>w, <1>a, <1>h, LimitAssumption, ClockAssumption
    DEF CompleteThrows, AfterRetryableFailure, LoseAnswer, HistoryInv, BudgetInv,
        ReasonInv, ClosedForAReason, WorkersTyped, HistoryTyped, InHand, Closed,
        historyVars
  <2>3. ReasonInv'
    BY <1>15, <2>1, <1>r, <1>c, <1>w, <1>a, <1>h, LimitAssumption, ClockAssumption
    DEF CompleteThrows, AfterRetryableFailure, LoseAnswer, HistoryInv, BudgetInv,
        ReasonInv, ClosedForAReason, WorkersTyped, HistoryTyped, InHand, Closed,
        historyVars
  <2>4. QED
    BY <2>2, <2>3 DEF HistoryInv
<1>16. ASSUME NEW w \in Worker, RetryThrows(w)
      PROVE  HistoryInv'
  <2>1. \A k \in Job :
          /\ jobs'[k].attempts = jobs[k].attempts
          /\ \/ jobs'[k].status = jobs[k].status
             \/ k = cur[w] /\ jobs'[k].status = "available"
    BY <1>16, <1>r, <1>h, <1>c, RetriedEffect DEF RetryThrows, InHand
  <2>2. BudgetInv'
    BY <1>16, <2>1, <1>r, <1>c, <1>w, <1>a, <1>h, LimitAssumption, ClockAssumption
    DEF RetryThrows, AbandonCycle, LoseAnswer, HistoryInv, BudgetInv, ReasonInv,
        ClosedForAReason, WorkersTyped, HistoryTyped, InHand, Closed, historyVars
  <2>3. ReasonInv'
    BY <1>16, <2>1, <1>r, <1>c, <1>w, <1>a, <1>h, LimitAssumption, ClockAssumption
    DEF RetryThrows, AbandonCycle, LoseAnswer, HistoryInv, BudgetInv, ReasonInv,
        ClosedForAReason, WorkersTyped, HistoryTyped, InHand, Closed, historyVars
  <2>4. QED
    BY <2>2, <2>3 DEF HistoryInv
<1>17. ASSUME NEW w \in Worker, FailThrows(w)
      PROVE  HistoryInv'
  <2>1. \A k \in Job :
          /\ jobs'[k].attempts = jobs[k].attempts
          /\ \/ jobs'[k].status = jobs[k].status
             \/ k = cur[w] /\ jobs'[k].status = "terminal_failure"
    BY <1>17, <1>r, <1>h, <1>c, FailedEffect DEF FailThrows, InHand
  <2>2. BudgetInv'
    BY <1>17, <2>1, <1>r, <1>c, <1>w, <1>a, <1>h, LimitAssumption, ClockAssumption
    DEF FailThrows, AbandonCycle, LoseAnswer, HistoryInv, BudgetInv, ReasonInv,
        ClosedForAReason, WorkersTyped, HistoryTyped, InHand, Closed, historyVars
  <2>3. ReasonInv'
    BY <1>17, <2>1, <1>r, <1>c, <1>w, <1>a, <1>h, LimitAssumption, ClockAssumption
    DEF FailThrows, AbandonCycle, LoseAnswer, HistoryInv, BudgetInv, ReasonInv,
        ClosedForAReason, WorkersTyped, HistoryTyped, InHand, Closed, historyVars
  <2>4. QED
    BY <2>2, <2>3 DEF HistoryInv
<1>18. ASSUME NEW w \in Worker, Crash(w)
      PROVE  HistoryInv'
  BY <1>18, <1>r, <1>c, <1>w, <1>a, <1>h, LimitAssumption, ClockAssumption
  DEF Crash, AbandonCycle, HistoryInv, BudgetInv, ReasonInv, ClosedForAReason,
      WorkersTyped, HistoryTyped, InHand, Closed, historyVars
<1>e. ASSUME NEW h \in Worker, NEW j \in Job, Enqueue(h, j), NEW k \in Job
      PROVE  /\ jobs'[k].attempts = jobs[k].attempts
             /\ \/ jobs'[k].status = jobs[k].status
                \/ k = j /\ jobs'[k].status = "available"
  <2>1. CASE jobs[j].status = "absent"
    BY <1>e, <2>1, <1>r DEF Enqueue, WellFormed, Row
  <2>2. CASE jobs[j].status # "absent"
    BY <1>e, <2>2 DEF Enqueue
  <2>3. QED
    BY <2>1, <2>2
<1>19. ASSUME NEW h \in Worker, NEW j \in Job, Enqueue(h, j)
      PROVE  HistoryInv'
  <2>1. \A k \in Job :
          /\ jobs'[k].attempts = jobs[k].attempts
          /\ \/ jobs'[k].status = jobs[k].status
             \/ k = j /\ jobs'[k].status = "available"
    BY <1>19, <1>r, <1>h, <1>c, <1>e
  <2>u. UNCHANGED <<workerVars, historyVars, faults>>
    BY <1>19 DEF Enqueue
  <2>2. BudgetInv'
    BY <2>u, <2>1, <1>r, <1>c, <1>w, <1>a, <1>h, LimitAssumption, ClockAssumption
    DEF workerVars, HistoryInv, BudgetInv, ReasonInv, ClosedForAReason,
        WorkersTyped, HistoryTyped, InHand, Closed, historyVars
  <2>3. ReasonInv'
    BY <2>u, <2>1, <1>r, <1>c, <1>w, <1>a, <1>h, LimitAssumption, ClockAssumption
    DEF workerVars, HistoryInv, BudgetInv, ReasonInv, ClosedForAReason,
        WorkersTyped, HistoryTyped, InHand, Closed, historyVars
  <2>4. QED
    BY <2>2, <2>3 DEF HistoryInv
<1>20. ASSUME Tick
      PROVE  HistoryInv'
  <2>1. \A k \in Job : jobs'[k].attempts = jobs[k].attempts /\ jobs'[k].status = jobs[k].status
    BY <1>20, <1>r, <1>h, <1>c, PastIsAnInstant DEF Tick, WellFormed, Row
  <2>u. UNCHANGED <<mode, batch, spent, cur, tries, historyVars, faults>>
    BY <1>20 DEF Tick
  <2>2. BudgetInv'
    BY <2>u, <2>1, <1>r, <1>c, <1>w, <1>a, <1>h, LimitAssumption, ClockAssumption
    DEF workerVars, HistoryInv, BudgetInv, ReasonInv, ClosedForAReason,
        WorkersTyped, HistoryTyped, InHand, Closed, historyVars
  <2>3. ReasonInv'
    BY <2>u, <2>1, <1>r, <1>c, <1>w, <1>a, <1>h, LimitAssumption, ClockAssumption
    DEF workerVars, HistoryInv, BudgetInv, ReasonInv, ClosedForAReason,
        WorkersTyped, HistoryTyped, InHand, Closed, historyVars
  <2>4. QED
    BY <2>2, <2>3 DEF HistoryInv
<1>21. CASE UNCHANGED vars
  BY <1>21, <1>r
  DEF vars, workerVars, HistoryInv, BudgetInv, ReasonInv, ClosedForAReason,
      WorkersTyped, HistoryTyped, InHand, Closed, historyVars
<1>22. QED
  BY <1>1, <1>2, <1>3, <1>4, <1>5, <1>6, <1>7, <1>8, <1>9, <1>10, <1>11, <1>12,
     <1>13, <1>14, <1>15, <1>16, <1>17, <1>18, <1>19, <1>20, <1>21
  DEF Next, Advance, Disturb

LEMMA HistoryInvariant == Spec => [](TypeInv /\ HistoryInv)
<1>1. TypeInv /\ HistoryInv /\ [Next]_vars => (TypeInv /\ HistoryInv)'
  BY TypeInvStep, HistoryInvStep
<1>2. QED
  BY <1>1, TypeInvInit, HistoryInvInit, PTL DEF Spec

(* The processor is entered at most AttemptLimit times for a job.          *)
THEOREM BoundedProcessingHolds == Spec => []BoundedProcessing
<1>1. TypeInv /\ HistoryInv => BoundedProcessing
  <2> SUFFICES ASSUME TypeInv, HistoryInv, NEW j \in Job PROVE begun[j] <= AttemptLimit
    BY DEF BoundedProcessing
  <2>1. jobs[j].attempts \in 0 .. AttemptLimit /\ begun[j] \in Nat
    BY DEF TypeInv, TypeOK, WellFormed, HistoryTyped, Row
  <2>2. QED
    BY <2>1, LimitAssumption DEF HistoryInv, BudgetInv
<1>2. QED
  BY <1>1, HistoryInvariant, PTL

(* Only a lost answer costs a job an attempt it did not get.               *)
THEOREM UnstartedJobsKeepBudgetHolds == Spec => []UnstartedJobsKeepBudget
<1>1. HistoryInv => UnstartedJobsKeepBudget
  BY DEF HistoryInv, BudgetInv, UnstartedJobsKeepBudget
<1>2. QED
  BY <1>1, HistoryInvariant, PTL

(* No job is closed without the outcome its status claims.                 *)
THEOREM ClosedForAReasonHolds == Spec => []ClosedForAReason
<1>1. HistoryInv => ClosedForAReason
  BY DEF HistoryInv, ReasonInv
<1>2. QED
  BY <1>1, HistoryInvariant, PTL

-----------------------------------------------------------------------------
(* The queue implements the ledger: every step leaves the ledger as it is, *)
(* accepts a job, charges one or settles one.                              *)

SameEntry(k) == Standing(k)' = Standing(k) /\ jobs'[k].attempts = jobs[k].attempts

LEMMA Stutters ==
    ASSUME \A k \in Job : SameEntry(k)
    PROVE  UNCHANGED Ledger!ledgerVars
  BY DEF SameEntry, Ledger!ledgerVars

LEMMA Accepts ==
    ASSUME NEW j \in Job, \A k \in Job \ {j} : SameEntry(k),
           Standing(j) = "none", Standing(j)' = "open", jobs'[j].attempts = jobs[j].attempts
    PROVE  Ledger!LedgerNext
<1>1. Ledger!Accept(j)
  BY DEF SameEntry, Ledger!Accept
<1>2. QED
  BY <1>1 DEF Ledger!LedgerNext

LEMMA Charges ==
    ASSUME NEW j \in Job, \A k \in Job \ {j} : SameEntry(k),
           Standing(j) = "open", Standing(j)' = "open",
           jobs[j].attempts < AttemptLimit, jobs'[j].attempts = jobs[j].attempts + 1
    PROVE  Ledger!LedgerNext
<1>1. Ledger!Charge(j)
  BY DEF SameEntry, Ledger!Charge
<1>2. QED
  BY <1>1 DEF Ledger!LedgerNext

LEMMA Settles ==
    ASSUME NEW j \in Job, \A k \in Job \ {j} : SameEntry(k),
           Standing(j) = "open", Standing(j)' \in {"completed", "terminal_failure"},
           jobs[j].attempts > 0, jobs'[j].attempts = jobs[j].attempts
    PROVE  Ledger!LedgerNext
<1>1. Ledger!Settle(j)
  BY DEF SameEntry, Ledger!Settle
<1>2. QED
  BY <1>1 DEF Ledger!LedgerNext

(* The rows one statement may leave, for the ledger. *)
LedgerStep == Ledger!LedgerNext \/ UNCHANGED Ledger!ledgerVars

LEMMA ClaimingIsInvisible ==
    ASSUME WellFormed(jobs), NEW w \in Worker, NEW S \in SUBSET Claimable(w),
           jobs' = ClaimedRows(w, S)
    PROVE  LedgerStep
<1>1. \A k \in Job : SameEntry(k)
  BY ClaimedEffect DEF SameEntry, Standing, Closed
<1>2. QED
  BY <1>1, Stutters DEF LedgerStep

LEMMA ChargingCharges ==
    ASSUME WellFormed(jobs), NEW w \in Worker, NEW j \in Job, jobs' = ChargedRows(w, j)
    PROVE  LedgerStep
<1>1. CASE Chargeable(w, j)
  <2>1. \A k \in Job \ {j} : SameEntry(k)
    BY ChargedEffect DEF SameEntry, Standing
  <2>2. jobs[j].status = "claimed" /\ jobs[j].attempts < AttemptLimit
    BY <1>1 DEF Chargeable, Owns
  <2>3. jobs'[j].status = "claimed" /\ jobs'[j].attempts = jobs[j].attempts + 1
    BY <1>1, <2>2, ChargedEffect
  <2>4. QED
    BY <2>1, <2>2, <2>3, Charges DEF Standing, Closed, LedgerStep
<1>2. CASE ~Chargeable(w, j)
  BY <1>2, Stutters DEF ChargedRows, SameEntry, Standing, LedgerStep
<1>3. QED
  BY <1>1, <1>2

LEMMA RetryingIsInvisible ==
    ASSUME WellFormed(jobs), NEW w \in Worker, NEW j \in Job, jobs' = RetriedRows(w, j)
    PROVE  LedgerStep
<1>1. \A k \in Job : SameEntry(k)
  BY RetriedEffect DEF SameEntry, Standing, Closed
<1>2. QED
  BY <1>1, Stutters DEF LedgerStep

LEMMA SettlingSettles ==
    ASSUME WellFormed(jobs), NEW w \in Worker, NEW j \in Job, jobs[j].attempts > 0,
           jobs' = CompletedRows(w, j) \/ jobs' = FailedRows(w, j)
    PROVE  LedgerStep
<1>1. \A k \in Job \ {j} : SameEntry(k)
  BY CompletedEffect, FailedEffect DEF SameEntry, Standing
<1>2. jobs'[j].attempts = jobs[j].attempts
  BY CompletedEffect, FailedEffect
<1>3. \/ jobs'[j].status = jobs[j].status
      \/ jobs[j].status = "claimed" /\ jobs'[j].status \in {"completed", "terminal_failure"}
  BY CompletedEffect, FailedEffect
<1>4. CASE jobs'[j].status = jobs[j].status
  BY <1>1, <1>2, <1>4, Stutters DEF SameEntry, Standing, LedgerStep
<1>5. CASE jobs[j].status = "claimed" /\ jobs'[j].status \in {"completed", "terminal_failure"}
  BY <1>1, <1>2, <1>5, Settles DEF Standing, Closed, LedgerStep
<1>6. QED
  BY <1>3, <1>4, <1>5

LEMMA SameRowsStutter ==
    ASSUME UNCHANGED jobs
    PROVE  LedgerStep
  BY Stutters DEF SameEntry, Standing, LedgerStep

LEMMA StepsRefine == TypeInv /\ HistoryInv /\ [Next]_vars => [Ledger!LedgerNext]_(Ledger!ledgerVars)
<1> SUFFICES ASSUME TypeInv, HistoryInv, [Next]_vars PROVE LedgerStep
  BY DEF LedgerStep
<1>r. WellFormed(jobs)
  BY DEF TypeInv, TypeOK
<1>s. \A w \in Worker : \A S \in ClaimSets(w) : S \in SUBSET Claimable(w)
  BY DEF ClaimSets
<1>e. \A w \in Worker : {} \in SUBSET Claimable(w)
  OBVIOUS
<1>h. \A w \in Worker : mode[w] \in InHand => cur[w] \in Job /\ jobs[cur[w]].attempts > 0
  <2> SUFFICES ASSUME NEW w \in Worker, mode[w] \in InHand
               PROVE  cur[w] \in Job /\ jobs[cur[w]].attempts > 0
    OBVIOUS
  <2>1. cur[w] \in Job
    BY NullAssumption DEF TypeInv, TypeOK, WorkersTyped
  <2>2. tries[w] \in Nat /\ tries[w] >= 1
    BY LimitAssumption DEF TypeInv, TypeOK, WorkersTyped, TriesInv
  <2>3. jobs[cur[w]].attempts \in Nat /\ tries[w] <= jobs[cur[w]].attempts
    BY <2>1, <1>r DEF HistoryInv, BudgetInv, WellFormed, Row
  <2>4. QED
    BY <2>1, <2>2, <2>3
<1>x. \A w \in Worker : \A j \in spent[w] : jobs[j].attempts > 0
  BY LimitAssumption DEF HistoryInv, ReasonInv
<1>1. ASSUME NEW w \in Worker,
             Poll(w) \/ ProcessReturns(w) \/ ProcessFailsRetryably(w)
                \/ ProcessIsRejected(w) \/ EndCycle(w) \/ Crash(w)
      PROVE  LedgerStep
  BY <1>1, SameRowsStutter
  DEF Poll, ProcessReturns, ProcessFailsRetryably, ProcessIsRejected, EndCycle, Crash
<1>2. ASSUME NEW w \in Worker, Claim(w) \/ ClaimThrows(w)
      PROVE  LedgerStep
  <2>1. PICK S \in SUBSET Claimable(w) : jobs' = ClaimedRows(w, S)
    BY <1>2, <1>s, <1>e DEF Claim, ClaimThrows
  <2>2. QED
    BY <2>1, <1>r, ClaimingIsInvisible
<1>3. ASSUME NEW w \in Worker, NEW j \in Job, BeginAttempt(w, j) \/ BeginAttemptThrows(w, j)
      PROVE  LedgerStep
  <2>1. jobs' = jobs \/ jobs' = ChargedRows(w, j)
    BY <1>3 DEF BeginAttempt, BeginAttemptThrows
  <2>2. QED
    BY <2>1, <1>r, ChargingCharges, SameRowsStutter
<1>4. ASSUME NEW w \in Worker, NEW j \in Job, CloseExhausted(w, j) \/ CloseExhaustedThrows(w, j)
      PROVE  LedgerStep
  <2>1. /\ jobs' = jobs \/ jobs' = FailedRows(w, j)
        /\ jobs[j].attempts > 0
    BY <1>4, <1>x DEF CloseExhausted, CloseExhaustedThrows
  <2>2. QED
    BY <2>1, <1>r, SettlingSettles, SameRowsStutter
<1>5. ASSUME NEW w \in Worker,
             Complete(w) \/ CompleteThrows(w) \/ Fail(w) \/ FailThrows(w)
      PROVE  LedgerStep
  <2>1. /\ \/ jobs' = jobs
           \/ jobs' = CompletedRows(w, cur[w])
           \/ jobs' = FailedRows(w, cur[w])
        /\ mode[w] \in InHand
    BY <1>5 DEF Complete, CompleteThrows, Fail, FailThrows, InHand
  <2>2. cur[w] \in Job /\ jobs[cur[w]].attempts > 0
    BY <2>1, <1>h
  <2>3. QED
    BY <2>1, <2>2, <1>r, SettlingSettles, SameRowsStutter
<1>6. ASSUME NEW w \in Worker, Retry(w) \/ RetryThrows(w)
      PROVE  LedgerStep
  <2>1. /\ jobs' = jobs \/ jobs' = RetriedRows(w, cur[w])
        /\ cur[w] \in Job
    BY <1>6, <1>h DEF Retry, RetryThrows, InHand
  <2>2. QED
    BY <2>1, <1>r, RetryingIsInvisible, SameRowsStutter
<1>7. ASSUME NEW h \in Worker, NEW j \in Job, Enqueue(h, j)
      PROVE  LedgerStep
  <2>1. CASE jobs[j].status = "absent"
    <3>1. \A k \in Job \ {j} : jobs'[k] = jobs[k]
      BY <1>7, <2>1, <1>r DEF Enqueue, WellFormed
    <3>2. jobs'[j].status = "available" /\ jobs'[j].attempts = jobs[j].attempts
      BY <1>7, <2>1, <1>r DEF Enqueue, WellFormed, Row
    <3>3. QED
      BY <2>1, <3>1, <3>2, Accepts DEF SameEntry, Standing, Closed, LedgerStep
  <2>2. CASE jobs[j].status # "absent"
    BY <1>7, <2>2, SameRowsStutter DEF Enqueue
  <2>3. QED
    BY <2>1, <2>2
<1>8. ASSUME Tick PROVE LedgerStep
  <2>1. \A k \in Job : jobs'[k].status = jobs[k].status /\ jobs'[k].attempts = jobs[k].attempts
    BY <1>8, <1>r DEF Tick, WellFormed, Row
  <2>2. QED
    BY <2>1, Stutters DEF SameEntry, Standing, LedgerStep
<1>9. CASE UNCHANGED vars
  BY <1>9, SameRowsStutter DEF vars
<1>10. QED
  BY <1>1, <1>2, <1>3, <1>4, <1>5, <1>6, <1>7, <1>8, <1>9 DEF Next, Advance, Disturb

(* What a requester can observe of its job obeys the ledger.               *)
THEOREM ImplementsLedgerHolds == Spec => ImplementsLedger
<1>1. ASSUME Init PROVE Ledger!LedgerInit
  <2>1. \A j \in Job : jobs[j].status = "absent" /\ jobs[j].attempts = 0
    BY <1>1 DEF Init
  <2>2. \A j \in Job : Standing(j) = "none" /\ jobs[j].attempts = 0
    BY <2>1 DEF Standing, Closed
  <2>3. [j \in Job |-> Standing(j)] = [j \in Job |-> "none"]
    BY <2>2
  <2>4. [j \in Job |-> jobs[j].attempts] = [j \in Job |-> 0]
    BY <2>2
  <2>5. QED
    BY <2>3, <2>4 DEF Ledger!LedgerInit
<1>2. QED
  BY <1>1, StepsRefine, HistoryInvariant, PTL
  DEF Spec, ImplementsLedger, Ledger!LedgerSpec

-----------------------------------------------------------------------------
(* Claims end only by their owner or by the end of the lease.              *)

(* A settling statement takes away nobody's claim but the worker's own. *)
LEMMA OnlyOwnClaimsEnd ==
    ASSUME WellFormed(jobs), NEW v \in Worker, NEW k \in Job,
           \/ jobs' = jobs
           \/ jobs' = CompletedRows(v, k)
           \/ jobs' = FailedRows(v, k)
           \/ jobs' = RetriedRows(v, k),
           NEW w \in Worker, NEW j \in Job, Owns(w, j), ~Owns(w, j)'
    PROVE  v = w /\ k = j
  BY DEF CompletedRows, FailedRows, RetriedRows, Owns, WellFormed

LEMMA ClaimsTakeExpired ==
    ASSUME WellFormed(jobs), NEW v \in Worker, NEW S \in SUBSET Claimable(v),
           jobs' = ClaimedRows(v, S),
           NEW w \in Worker, NEW j \in Job, Owns(w, j), ~Owns(w, j)'
    PROVE  /\ jobs'[j].status = "claimed"
           /\ jobs[j].at <= seen[jobs'[j].claimedBy] - Lease
<1>1. j \in S
  BY DEF ClaimedRows, Owns
<1>2. jobs'[j].status = "claimed" /\ jobs'[j].claimedBy = v
  BY <1>1 DEF ClaimedRows, WellFormed, Row
<1>3. jobs[j].at <= seen[v] - Lease
  BY <1>1 DEF Claimable, Owns
<1>4. QED
  BY <1>2, <1>3

(* No worker's claim is ended by a third party.                            *)
THEOREM ClaimsAreFencedHolds == Spec => ClaimsAreFenced
<1> DEFINE Fenced(w, j) ==
        \/ /\ cur[w] = j
           /\ mode[w] \in {"completing", "retrying", "failing"}
           /\ mode'[w] # mode[w]
        \/ j \in spent[w] /\ batch'[w] # batch[w]
        \/ /\ jobs'[j].status = "claimed"
           /\ jobs[j].at <= seen[jobs'[j].claimedBy] - Lease
<1>1. ASSUME TypeInv, [Next]_vars, NEW w \in Worker, NEW j \in Job,
             Owns(w, j), ~Owns(w, j)'
      PROVE  Fenced(w, j)
  <2>r. WellFormed(jobs) /\ WorkersTyped
    BY <1>1 DEF TypeInv, TypeOK
  <2>h. \A v \in Worker : mode[v] \in InHand => cur[v] \in Job
    BY <2>r, NullAssumption DEF WorkersTyped
  <2>1. ASSUME NEW v \in Worker, UNCHANGED jobs PROVE FALSE
    BY <1>1, <2>1 DEF Owns
  <2>2. ASSUME NEW v \in Worker, Claim(v) \/ ClaimThrows(v)
        PROVE  Fenced(w, j)
    <3>1. PICK S \in SUBSET Claimable(v) : jobs' = ClaimedRows(v, S)
      BY <2>2 DEF Claim, ClaimThrows, ClaimSets
    <3>2. QED
      BY <3>1, <1>1, <2>r, ClaimsTakeExpired
  <2>3. ASSUME NEW v \in Worker, NEW k \in Job, BeginAttempt(v, k) \/ BeginAttemptThrows(v, k)
        PROVE  FALSE
    <3>1. jobs' = jobs \/ jobs' = ChargedRows(v, k)
      BY <2>3 DEF BeginAttempt, BeginAttemptThrows
    <3>2. QED
      BY <3>1, <1>1, <2>r DEF ChargedRows, Owns, WellFormed, Row
  <2>4. ASSUME NEW v \in Worker, NEW k \in Job, CloseExhausted(v, k) \/ CloseExhaustedThrows(v, k)
        PROVE  Fenced(w, j)
    <3>1. jobs' = jobs \/ jobs' = FailedRows(v, k)
      BY <2>4 DEF CloseExhausted, CloseExhaustedThrows
    <3>2. v = w /\ k = j
      BY <3>1, <1>1, <2>r, OnlyOwnClaimsEnd
    <3>3. QED
      BY <3>2, <2>4, <2>r
      DEF CloseExhausted, CloseExhaustedThrows, AbandonCycle, WorkersTyped
  <2>5. ASSUME NEW v \in Worker,
               \/ Complete(v) \/ CompleteThrows(v)
               \/ Retry(v) \/ RetryThrows(v)
               \/ Fail(v) \/ FailThrows(v)
        PROVE  Fenced(w, j)
    <3>1. /\ mode[v] \in {"completing", "retrying", "failing"}
          /\ \/ jobs' = jobs
             \/ jobs' = CompletedRows(v, cur[v])
             \/ jobs' = FailedRows(v, cur[v])
             \/ jobs' = RetriedRows(v, cur[v])
          /\ mode'[v] # mode[v]
      BY <2>5, <2>r
      DEF Complete, CompleteThrows, Retry, RetryThrows, Fail, FailThrows,
          BackToWalk, AbandonCycle, AfterRetryableFailure, WorkersTyped
    <3>2. v = w /\ cur[v] = j
      BY <3>1, <1>1, <2>r, <2>h, OnlyOwnClaimsEnd DEF InHand
    <3>3. QED
      BY <3>1, <3>2
  <2>6. ASSUME NEW h \in Worker, NEW k \in Job, Enqueue(h, k)
        PROVE  FALSE
    <3>1. jobs'[j] = jobs[j]
      BY <2>6, <1>1, <2>r DEF Enqueue, Owns, WellFormed
    <3>2. QED
      BY <3>1, <1>1 DEF Owns
  <2>7. ASSUME Tick PROVE FALSE
    BY <2>7, <1>1, <2>r DEF Tick, Owns, WellFormed, Row
  <2>8. CASE UNCHANGED vars
    BY <2>8, <1>1 DEF vars, Owns
  <2>9. ASSUME NEW v \in Worker,
               Poll(v) \/ ProcessReturns(v) \/ ProcessFailsRetryably(v)
                  \/ ProcessIsRejected(v) \/ EndCycle(v) \/ Crash(v)
        PROVE  FALSE
    BY <2>9, <2>1
    DEF Poll, ProcessReturns, ProcessFailsRetryably, ProcessIsRejected, EndCycle, Crash
  <2>10. QED
    BY <1>1, <2>2, <2>3, <2>4, <2>5, <2>6, <2>7, <2>8, <2>9 DEF Next, Advance, Disturb
<1>2. TypeInv /\ [Next]_vars =>
        [\A w \in Worker, j \in Job : Owns(w, j) /\ ~Owns(w, j)' => Fenced(w, j)]_vars
  BY <1>1
<1>3. QED
  BY <1>2, TypeInvInit, TypeInvStep, PTL DEF Spec, ClaimsAreFenced

-----------------------------------------------------------------------------
(* Claims of one job are a lease apart.                                    *)

(* Between cycles a worker holds nothing, and the job in hand is no longer *)
(* in the batch.                                                           *)
HoldInv ==
    \A w \in Worker :
        /\ mode[w] \in {"idle", "polling", "dead"} => batch[w] = {}
        /\ cur[w] \notin batch[w]

(* The row of a claim that was lost is closed, or has been available or    *)
(* claimed from a lease after that claim on; a claim is never made with a  *)
(* reading later than its worker's clock.                                  *)
ReadingInv ==
    /\ \A w \in Worker : seen[w] <= Skew[w]
    /\ \A w \in Worker, j \in Job : Owns(w, j) => jobs[j].at <= Skew[w]
    /\ \A w \in Worker : \A j \in Held(w) : jobs[j].status # "absent"
    /\ \A w \in Worker : \A j \in Held(w) : seen[w] > Past =>
          \/ jobs[j].status \in Closed
          \/ Owns(w, j) /\ jobs[j].at = seen[w]
          \/ ~Owns(w, j) /\ jobs[j].at >= seen[w] + Lease

LeaseInv == ReadingInv /\ ClaimsALeaseApart

LEMMA HoldInvStep == TypeInv /\ HoldInv /\ [Next]_vars => HoldInv'
<1> SUFFICES ASSUME TypeInv, HoldInv, [Next]_vars, NEW w \in Worker
             PROVE  /\ mode'[w] \in {"idle", "polling", "dead"} => batch'[w] = {}
                    /\ cur'[w] \notin batch'[w]
  BY DEF HoldInv
<1>t. WorkersTyped
  BY DEF TypeInv, TypeOK
<1>n. \A v \in Worker : batch[v] \subseteq Job
  BY <1>t DEF WorkersTyped
<1> USE NullAssumption DEF HoldInv, WorkersTyped, InHand
<1>1. ASSUME NEW v \in Worker, Poll(v) \/ Claim(v) \/ EndCycle(v)
      PROVE  /\ mode'[w] \in {"idle", "polling", "dead"} => batch'[w] = {}
             /\ cur'[w] \notin batch'[w]
  <2>1. \A S \in ClaimSets(v) : S \subseteq Job
    BY DEF ClaimSets, Claimable
  <2>2. QED
    BY <1>1, <1>t, <1>n, <2>1 DEF Poll, Claim, EndCycle
<1>2. ASSUME NEW v \in Worker, NEW j \in Job, BeginAttempt(v, j) \/ CloseExhausted(v, j)
      PROVE  /\ mode'[w] \in {"idle", "polling", "dead"} => batch'[w] = {}
             /\ cur'[w] \notin batch'[w]
  BY <1>2, <1>t, <1>n DEF BeginAttempt, CloseExhausted
<1>3. ASSUME NEW v \in Worker,
             ProcessReturns(v) \/ ProcessFailsRetryably(v) \/ ProcessIsRejected(v)
      PROVE  /\ mode'[w] \in {"idle", "polling", "dead"} => batch'[w] = {}
             /\ cur'[w] \notin batch'[w]
  BY <1>3, <1>t, <1>n
  DEF ProcessReturns, ProcessFailsRetryably, ProcessIsRejected, AfterRetryableFailure
<1>4. ASSUME NEW v \in Worker, Complete(v) \/ Retry(v) \/ Fail(v)
      PROVE  /\ mode'[w] \in {"idle", "polling", "dead"} => batch'[w] = {}
             /\ cur'[w] \notin batch'[w]
  BY <1>4, <1>t, <1>n DEF Complete, Retry, Fail, BackToWalk
<1>5. ASSUME NEW v \in Worker, AbandonCycle(v, "idle") \/ AbandonCycle(v, "dead")
      PROVE  /\ mode'[w] \in {"idle", "polling", "dead"} => batch'[w] = {}
             /\ cur'[w] \notin batch'[w]
  BY <1>5, <1>t, <1>n DEF AbandonCycle
<1>6. ASSUME NEW v \in Worker, CompleteThrows(v)
      PROVE  /\ mode'[w] \in {"idle", "polling", "dead"} => batch'[w] = {}
             /\ cur'[w] \notin batch'[w]
  BY <1>6, <1>t, <1>n DEF CompleteThrows, AfterRetryableFailure
<1>7. CASE UNCHANGED <<mode, batch, cur>>
  BY <1>7
<1>8. ASSUME NEW v \in Worker, Disturb(v)
      PROVE  AbandonCycle(v, "idle") \/ AbandonCycle(v, "dead") \/ CompleteThrows(v)
  BY <1>8
  DEF Disturb, ClaimThrows, RetryThrows, FailThrows, BeginAttemptThrows,
      CloseExhaustedThrows, Crash
<1>9. ASSUME Tick \/ UNCHANGED vars \/ \E h \in Worker, j \in Job : Enqueue(h, j)
      PROVE  UNCHANGED <<mode, batch, cur>>
  BY <1>9 DEF Tick, vars, workerVars, Enqueue
<1>10. QED
  BY <1>1, <1>2, <1>3, <1>4, <1>5, <1>6, <1>7, <1>8, <1>9 DEF Next, Advance

(* Most steps only forget: a worker holds no more than before, and a row   *)
(* that changes is closed, or made available later by its owner.           *)
Forgets ==
    /\ \A v \in Worker : /\ Held(v)' \subseteq Held(v)
                         /\ \/ seen'[v] = seen[v]
                            \/ Held(v)' = {} /\ seen'[v] <= Skew[v]
    /\ \A k \in Job :
        \/ /\ jobs'[k].status = jobs[k].status
           /\ jobs'[k].at = jobs[k].at
           /\ jobs'[k].claimedBy = jobs[k].claimedBy
        \/ jobs'[k].status \in Closed
        \/ /\ jobs'[k].status = "available"
           /\ \E v \in Worker : Owns(v, k) /\ k \notin Held(v)' /\ jobs'[k].at >= Skew[v]

LEMMA ForgettingKeepsLeases ==
    ASSUME TypeInv, TypeInv', LeaseInv, Forgets
    PROVE  LeaseInv'
<1>t. /\ \A v \in Worker : seen[v] \in Int /\ seen'[v] \in Int /\ Skew[v] \in Nat
      /\ \A k \in Job : jobs[k].at \in Int /\ jobs'[k].at \in Int
      /\ \A v \in Worker : Held(v) \subseteq Job
      /\ Lease \in Nat /\ Past \in Int
  BY ClockAssumption
  DEF TypeInv, TypeOK, WorkersTyped, WellFormed, Row, Instant, Held, Past
<1>1. \A w \in Worker : seen'[w] <= Skew[w]
  BY <1>t DEF Forgets, LeaseInv, ReadingInv
<1>2. \A w \in Worker, j \in Job : Owns(w, j)' => jobs'[j].at <= Skew[w]
  BY <1>t DEF Forgets, LeaseInv, ReadingInv, Owns, Closed
<1>3. \A w \in Worker : \A j \in Held(w)' : jobs'[j].status # "absent"
  BY <1>t DEF Forgets, LeaseInv, ReadingInv, Closed
<1>4. ASSUME NEW w \in Worker, NEW j \in Held(w)', seen'[w] > Past
      PROVE  \/ jobs'[j].status \in Closed
             \/ Owns(w, j)' /\ jobs'[j].at = seen'[w]
             \/ ~Owns(w, j)' /\ jobs'[j].at >= seen'[w] + Lease
  <2>1. j \in Held(w) /\ j \in Job /\ seen'[w] = seen[w]
    BY <1>4, <1>t DEF Forgets
  <2>2. \/ jobs[j].status \in Closed
        \/ Owns(w, j) /\ jobs[j].at = seen[w]
        \/ ~Owns(w, j) /\ jobs[j].at >= seen[w] + Lease
    BY <2>1, <1>4 DEF LeaseInv, ReadingInv
  <2>3. CASE /\ jobs'[j].status = jobs[j].status
             /\ jobs'[j].at = jobs[j].at
             /\ jobs'[j].claimedBy = jobs[j].claimedBy
    BY <2>1, <2>2, <2>3 DEF Owns
  <2>4. ASSUME NEW v \in Worker, jobs'[j].status = "available",
               Owns(v, j), j \notin Held(v)', jobs'[j].at >= Skew[v]
        PROVE  ~Owns(w, j)' /\ jobs'[j].at >= seen'[w] + Lease
    <3>1. v # w
      BY <1>4, <2>4
    <3>2. ~Owns(w, j) /\ jobs[j].status \notin Closed
      BY <2>4, <3>1 DEF Owns, Closed
    <3>3. jobs[j].at >= seen[w] + Lease /\ jobs[j].at <= Skew[v]
      BY <2>1, <2>2, <2>4, <3>2 DEF LeaseInv, ReadingInv
    <3>4. jobs'[j].at >= seen'[w] + Lease
      BY <3>3, <2>1, <2>4, <1>t
    <3>5. QED
      BY <3>4, <2>4 DEF Owns
  <2>5. QED
    BY <2>1, <2>3, <2>4 DEF Forgets
<1>5. ClaimsALeaseApart'
  <2> SUFFICES ASSUME NEW v \in Worker, NEW w \in Worker, NEW j \in Job,
                      v # w, j \in Held(v)', j \in Held(w)', seen'[v] > Past, seen'[w] > Past
               PROVE  seen'[v] >= seen'[w] + Lease \/ seen'[w] >= seen'[v] + Lease
    BY DEF ClaimsALeaseApart
  <2>1. /\ j \in Held(v) /\ j \in Held(w)
        /\ seen'[v] = seen[v] /\ seen'[w] = seen[w]
    BY DEF Forgets
  <2>2. QED
    BY <2>1 DEF LeaseInv, ClaimsALeaseApart
<1>6. QED
  BY <1>1, <1>2, <1>3, <1>4, <1>5 DEF LeaseInv, ReadingInv

LEMMA TickKeepsLeases ==
    ASSUME TypeInv, TypeInv', LeaseInv, Tick
    PROVE  LeaseInv'
<1>t. /\ \A v \in Worker : seen[v] \in Instant /\ Skew[v] \in Nat
      /\ \A k \in Job : jobs[k].at \in Instant
      /\ \A v \in Worker : Held(v) \subseteq Job
      /\ Lease \in Nat /\ Past \in Int /\ Past <= 0
  BY ClockAssumption, PastIsAnInstant
  DEF TypeInv, TypeOK, WorkersTyped, WellFormed, Row, Held, Past
<1>a. /\ \A t \in Instant : Aged(t) \in Int /\ Past <= Aged(t)
      /\ \A t \in Instant : t > Past => Aged(t) = t - 1
      /\ \A t \in Instant : Aged(t) <= t \/ Aged(t) = Past
      /\ \A t \in Instant : Aged(t) > Past => t > Past
  BY <1>t DEF Aged, Instant
<1>j. \A k \in Job : /\ jobs'[k].status = jobs[k].status
                     /\ jobs'[k].claimedBy = jobs[k].claimedBy
                     /\ jobs'[k].at = Aged(jobs[k].at)
  BY DEF Tick, TypeInv, TypeOK, WellFormed, Row
<1>w. /\ \A v \in Worker : seen'[v] = Aged(seen[v]) /\ Held(v)' = Held(v)
      /\ \A v \in Worker, k \in Job : Owns(v, k)' <=> Owns(v, k)
  BY <1>j DEF Tick, Held, Owns
<1>1. \A w \in Worker : seen'[w] <= Skew[w]
  <2> SUFFICES ASSUME NEW w \in Worker PROVE Aged(seen[w]) <= Skew[w]
    BY <1>w
  <2>1. seen[w] <= Skew[w]
    BY DEF LeaseInv, ReadingInv
  <2>2. QED
    BY <2>1, <1>t, <1>a DEF Instant
<1>2. \A w \in Worker, j \in Job : Owns(w, j)' => jobs'[j].at <= Skew[w]
  <2> SUFFICES ASSUME NEW w \in Worker, NEW j \in Job, Owns(w, j)
               PROVE  Aged(jobs[j].at) <= Skew[w]
    BY <1>w, <1>j
  <2>1. jobs[j].at <= Skew[w]
    BY DEF LeaseInv, ReadingInv
  <2>2. QED
    BY <2>1, <1>t, <1>a DEF Instant
<1>3. \A w \in Worker : \A j \in Held(w)' : jobs'[j].status # "absent"
  BY <1>t, <1>w, <1>j DEF LeaseInv, ReadingInv
<1>4. ASSUME NEW w \in Worker, NEW j \in Held(w)', seen'[w] > Past
      PROVE  \/ jobs'[j].status \in Closed
             \/ Owns(w, j)' /\ jobs'[j].at = seen'[w]
             \/ ~Owns(w, j)' /\ jobs'[j].at >= seen'[w] + Lease
  <2>1. j \in Held(w) /\ j \in Job /\ seen[w] > Past /\ seen'[w] = seen[w] - 1
    BY <1>4, <1>w, <1>t, <1>a
  <2>2. \/ jobs[j].status \in Closed
        \/ Owns(w, j) /\ jobs[j].at = seen[w]
        \/ ~Owns(w, j) /\ jobs[j].at >= seen[w] + Lease
    BY <2>1 DEF LeaseInv, ReadingInv
  <2>3. jobs[j].at >= seen[w] + Lease => jobs'[j].at = jobs[j].at - 1
    BY <2>1, <1>t, <1>a, <1>j DEF Instant
  <2>4. QED
    BY <2>1, <2>2, <2>3, <1>w, <1>j, <1>t DEF Instant
<1>5. ClaimsALeaseApart'
  <2> SUFFICES ASSUME NEW v \in Worker, NEW w \in Worker, NEW j \in Job,
                      v # w, j \in Held(v)', j \in Held(w)', seen'[v] > Past, seen'[w] > Past
               PROVE  seen'[v] >= seen'[w] + Lease \/ seen'[w] >= seen'[v] + Lease
    BY DEF ClaimsALeaseApart
  <2>1. /\ j \in Held(v) /\ j \in Held(w)
        /\ seen[v] > Past /\ seen[w] > Past
        /\ seen'[v] = seen[v] - 1 /\ seen'[w] = seen[w] - 1
    BY <1>w, <1>t, <1>a
  <2>2. seen[v] >= seen[w] + Lease \/ seen[w] >= seen[v] + Lease
    BY <2>1 DEF LeaseInv, ClaimsALeaseApart
  <2>3. QED
    BY <2>1, <2>2, <1>t DEF Instant
<1>6. QED
  BY <1>1, <1>2, <1>3, <1>4, <1>5 DEF LeaseInv, ReadingInv

LEMMA ClaimingKeepsLeases ==
    ASSUME TypeInv, TypeInv', LeaseInv, NEW w \in Worker, NEW S \in SUBSET Claimable(w),
           Held(w) = {}, jobs' = ClaimedRows(w, S),
           \/ Held(w)' = S /\ seen' = seen
           \/ Held(w)' = {} /\ seen' = [seen EXCEPT ![w] = Past],
           \A v \in Worker \ {w} : Held(v)' = Held(v)
    PROVE  LeaseInv'
<1>t. /\ \A v \in Worker : seen[v] \in Int /\ seen'[v] \in Int /\ Skew[v] \in Nat
      /\ \A k \in Job : jobs[k].at \in Int /\ jobs'[k].at \in Int
      /\ \A v \in Worker : Held(v) \subseteq Job
      /\ Lease \in Nat /\ Past \in Int /\ Past <= 0 /\ S \subseteq Job
  BY ClockAssumption, PastIsAnInstant
  DEF TypeInv, TypeOK, WorkersTyped, WellFormed, Row, Instant, Held, Past, Claimable
<1>s. \A v \in Worker : \/ seen'[v] = seen[v]
                        \/ v = w /\ Held(w)' = {} /\ seen'[v] = Past
  BY DEF TypeInv, TypeOK, WorkersTyped
<1>j. \A k \in Job :
        IF k \in S
        THEN jobs'[k].status = "claimed" /\ jobs'[k].claimedBy = w /\ jobs'[k].at = seen[w]
        ELSE jobs'[k] = jobs[k]
  BY ZenonT(60) DEF ClaimedRows, TypeInv, TypeOK, WellFormed, Row
<1>c. \A k \in S :
        \/ jobs[k].status = "available" /\ jobs[k].at <= seen[w]
        \/ jobs[k].status = "claimed" /\ jobs[k].at <= seen[w] - Lease
  BY DEF Claimable
<1>m. ASSUME NEW v \in Worker, NEW k \in Held(v), v # w, k \in S, seen[v] > Past
      PROVE  seen[w] >= seen[v] + Lease
  <2>1. jobs[k].status \notin Closed /\ k \in Job
    BY <1>m, <1>c, <1>t DEF Closed
  <2>2. \/ Owns(v, k) /\ jobs[k].at = seen[v]
        \/ ~Owns(v, k) /\ jobs[k].at >= seen[v] + Lease
    BY <1>m, <2>1 DEF LeaseInv, ReadingInv
  <2>3. QED
    BY <2>1, <2>2, <1>m, <1>c, <1>t DEF Owns
<1>1. \A v \in Worker : seen'[v] <= Skew[v]
  BY <1>s, <1>t DEF LeaseInv, ReadingInv
<1>2. \A v \in Worker, k \in Job : Owns(v, k)' => jobs'[k].at <= Skew[v]
  BY <1>j, <1>t DEF LeaseInv, ReadingInv, Owns
<1>3. \A v \in Worker : \A k \in Held(v)' : jobs'[k].status # "absent"
  <2> SUFFICES ASSUME NEW v \in Worker, NEW k \in Held(v)' PROVE jobs'[k].status # "absent"
    OBVIOUS
  <2>1. k \in S \/ k \in Held(v)
    OBVIOUS
  <2>2. QED
    BY <2>1, <1>j, <1>t DEF LeaseInv, ReadingInv
<1>4. ASSUME NEW v \in Worker, NEW k \in Held(v)', seen'[v] > Past
      PROVE  \/ jobs'[k].status \in Closed
             \/ Owns(v, k)' /\ jobs'[k].at = seen'[v]
             \/ ~Owns(v, k)' /\ jobs'[k].at >= seen'[v] + Lease
  <2>1. CASE v = w
    <3>1. k \in S /\ k \in Job /\ seen'[w] = seen[w]
      BY <1>4, <2>1, <1>t
    <3>2. QED
      BY <3>1, <2>1, <1>j DEF Owns
  <2>2. CASE v # w
    <3>1. k \in Held(v) /\ k \in Job /\ seen'[v] = seen[v]
      BY <1>4, <2>2, <1>t, <1>s
    <3>2. CASE k \in S
      BY <3>1, <3>2, <2>2, <1>4, <1>m, <1>j, <1>t DEF Owns
    <3>3. CASE k \notin S
      BY <3>1, <3>3, <1>4, <1>j DEF LeaseInv, ReadingInv, Owns
    <3>4. QED
      BY <3>2, <3>3
  <2>3. QED
    BY <2>1, <2>2
<1>5. ClaimsALeaseApart'
  <2> SUFFICES ASSUME NEW u \in Worker, NEW v \in Worker, NEW k \in Job,
                      u # v, k \in Held(u)', k \in Held(v)', seen'[u] > Past, seen'[v] > Past
               PROVE  seen'[u] >= seen'[v] + Lease \/ seen'[v] >= seen'[u] + Lease
    BY DEF ClaimsALeaseApart
  <2>1. seen'[u] = seen[u] /\ seen'[v] = seen[v]
    BY <1>s
  <2>2. CASE u = w
    BY <2>1, <2>2, <1>m
  <2>3. CASE v = w
    BY <2>1, <2>3, <1>m
  <2>4. CASE u # w /\ v # w
    BY <2>1, <2>4 DEF LeaseInv, ClaimsALeaseApart
  <2>5. QED
    BY <2>2, <2>3, <2>4
<1>6. QED
  BY <1>1, <1>2, <1>3, <1>4, <1>5 DEF LeaseInv, ReadingInv

LEMMA LeaseInvStep ==
    ASSUME TypeInv, TypeInv', HoldInv, HoldInv', LeaseInv, [Next]_vars
    PROVE  LeaseInv'
<1>r. WellFormed(jobs) /\ WorkersTyped /\ HistoryTyped
  BY DEF TypeInv, TypeOK
<1>n. /\ NoJob \notin Job
      /\ \A v \in Worker : batch[v] \subseteq Job /\ cur[v] \in Job \cup {NoJob}
      /\ \A v \in Worker : mode[v] \in InHand => cur[v] \in Job
      /\ \A v \in Worker : mode[v] \notin InHand => cur[v] = NoJob
  BY <1>r, NullAssumption DEF WorkersTyped
<1>k. \A v \in Worker : Skew[v] \in Nat /\ Past <= Skew[v] /\ Past \in Int
  BY ClockAssumption, PastIsAnInstant DEF Past
<1>f. Forgets => LeaseInv'
  BY ForgettingKeepsLeases
<1>q. ASSUME UNCHANGED <<jobs, seen, batch, cur>> PROVE LeaseInv'
  <2>1. Forgets
    BY <1>q DEF Forgets, Held
  <2>2. QED
    BY <2>1, <1>f
<1>1. ASSUME NEW w \in Worker, Poll(w) PROVE LeaseInv'
  <2>1. Held(w)' = {}
    BY <1>1, <1>n DEF Poll, Held, HoldInv, InHand
  <2>2. \A v \in Worker : v # w => Held(v)' = Held(v) /\ seen'[v] = seen[v]
    BY <1>1, <1>r DEF Poll, Held, WorkersTyped
  <2>3. seen'[w] = Skew[w]
    BY <1>1, <1>r DEF Poll, WorkersTyped
  <2>4. Forgets
    BY <1>1, <1>k, <2>1, <2>2, <2>3 DEF Forgets, Poll
  <2>5. QED
    BY <2>4, <1>f
<1>2. ASSUME NEW w \in Worker, Claim(w) PROVE LeaseInv'
  <2>1. PICK S \in ClaimSets(w) :
          jobs' = ClaimedRows(w, S) /\ batch' = [batch EXCEPT ![w] = S]
    BY <1>2 DEF Claim
  <2>2. S \in SUBSET Claimable(w)
    BY DEF ClaimSets
  <2>3. Held(w) = {}
    BY <1>2, <1>n DEF Claim, Held, HoldInv, InHand
  <2>4. Held(w)' = S /\ seen' = seen
    BY <1>2, <1>n, <1>r, <2>1 DEF Claim, Held, InHand, WorkersTyped
  <2>5. \A v \in Worker \ {w} : Held(v)' = Held(v)
    BY <1>2, <1>r, <2>1 DEF Claim, Held, WorkersTyped
  <2>6. QED
    BY <2>1, <2>2, <2>3, <2>4, <2>5, ClaimingKeepsLeases
<1>3. ASSUME NEW w \in Worker, ClaimThrows(w) PROVE LeaseInv'
  <2>1. PICK S \in SUBSET Claimable(w) : jobs' = ClaimedRows(w, S)
    BY <1>3 DEF ClaimThrows, ClaimSets
  <2>2. Held(w) = {}
    BY <1>3, <1>n DEF ClaimThrows, Held, HoldInv, InHand
  <2>3. Held(w)' = {} /\ seen' = [seen EXCEPT ![w] = Past]
    BY <1>3, <1>r DEF ClaimThrows, AbandonCycle, Held, WorkersTyped
  <2>4. \A v \in Worker \ {w} : Held(v)' = Held(v)
    BY <1>3, <1>r DEF ClaimThrows, AbandonCycle, Held, WorkersTyped
  <2>5. QED
    BY <2>1, <2>2, <2>3, <2>4, ClaimingKeepsLeases
<1>4. ASSUME NEW w \in Worker, NEW j \in Job, BeginAttempt(w, j) PROVE LeaseInv'
  <2>1. \A v \in Worker : Held(v)' \subseteq Held(v) /\ seen'[v] = seen[v]
    BY <1>4, <1>n, <1>r DEF BeginAttempt, Held, WorkersTyped
  <2>2. \A k \in Job : /\ jobs'[k].status = jobs[k].status
                       /\ jobs'[k].at = jobs[k].at
                       /\ jobs'[k].claimedBy = jobs[k].claimedBy
    BY <1>4, <1>r DEF BeginAttempt, ChargedRows, WellFormed, Row
  <2>3. QED
    BY <2>1, <2>2, <1>f DEF Forgets
<1>5. ASSUME NEW w \in Worker, NEW j \in Job, CloseExhausted(w, j) PROVE LeaseInv'
  <2>1. \A v \in Worker : Held(v)' \subseteq Held(v) /\ seen'[v] = seen[v]
    BY <1>5, <1>r DEF CloseExhausted, Held, WorkersTyped
  <2>2. \A k \in Job : jobs'[k] = jobs[k] \/ jobs'[k].status \in Closed
    BY <1>5, <1>r DEF CloseExhausted, FailedRows, Released, Closed, WellFormed, Row
  <2>3. QED
    BY <2>1, <2>2, <1>f DEF Forgets
<1>6. ASSUME NEW w \in Worker,
             ProcessReturns(w) \/ ProcessFailsRetryably(w) \/ ProcessIsRejected(w)
      PROVE  LeaseInv'
  BY <1>6, <1>q DEF ProcessReturns, ProcessFailsRetryably, ProcessIsRejected
<1>7. ASSUME NEW w \in Worker, Complete(w) \/ Retry(w) \/ Fail(w) PROVE LeaseInv'
  <2>1. \A v \in Worker : Held(v)' \subseteq Held(v) /\ seen'[v] = seen[v]
    BY <1>7, <1>r DEF Complete, Retry, Fail, BackToWalk, Held, WorkersTyped
  <2>2. cur[w] \in Job /\ cur[w] \notin Held(w)'
    BY <1>7, <1>n, <1>r
    DEF Complete, Retry, Fail, BackToWalk, Held, WorkersTyped, HoldInv, InHand
  <2>3. ASSUME NEW k \in Job
        PROVE  \/ jobs'[k] = jobs[k]
               \/ jobs'[k].status \in Closed
               \/ /\ jobs'[k].status = "available"
                  /\ Owns(w, k) /\ k \notin Held(w)' /\ jobs'[k].at >= Skew[w]
    <3>1. CASE Complete(w) \/ Fail(w)
      BY ZenonT(60), <3>1, <1>r
      DEF Complete, Fail, CompletedRows, FailedRows, Released, Closed, WellFormed, Row
    <3>2. CASE Retry(w)
      <4>1. Skew[w] + RetryDelay[tries[w]] >= Skew[w]
        <5>1. tries[w] \in 1 .. AttemptLimit - 1
          BY <3>2, <1>r, LimitAssumption
          DEF Retry, TypeInv, TriesInv, InHand, WorkersTyped
        <5>2. QED
          BY <5>1, <1>k, DelayAssumption
      <4>2. QED
        BY <3>2, <4>1, <2>2, <1>r DEF Retry, RetriedRows, Released, WellFormed, Row
    <3>3. QED
      BY <1>7, <3>1, <3>2
  <2>4. QED
    BY <2>1, <2>3, <1>f DEF Forgets
<1>8. ASSUME NEW w \in Worker, EndCycle(w) PROVE LeaseInv'
  <2>1. Held(w)' = {}
    BY <1>8, <1>n DEF EndCycle, Held, InHand
  <2>2. \A v \in Worker : v # w => Held(v)' = Held(v) /\ seen'[v] = seen[v]
    BY <1>8, <1>r DEF EndCycle, Held, WorkersTyped
  <2>3. seen'[w] = Past
    BY <1>8, <1>r DEF EndCycle, WorkersTyped
  <2>4. QED
    BY <1>8, <1>k, <1>f, <2>1, <2>2, <2>3 DEF Forgets, EndCycle
<1>9. ASSUME NEW w \in Worker, CompleteThrows(w) PROVE LeaseInv'
  <2>1. \A v \in Worker : Held(v)' = Held(v) /\ seen'[v] = seen[v]
    BY <1>9 DEF CompleteThrows, Held
  <2>2. cur[w] \in Job
    BY <1>9, <1>n DEF CompleteThrows, InHand
  <2>3. \A k \in Job : jobs'[k] = jobs[k] \/ jobs'[k].status \in Closed
    BY ZenonT(60), <1>9, <1>r, <2>2
    DEF CompleteThrows, CompletedRows, Released, Closed, WellFormed, Row
  <2>4. QED
    BY <2>1, <2>3, <1>f DEF Forgets
<1>10. ASSUME NEW w \in Worker,
              AbandonCycle(w, "idle") \/ AbandonCycle(w, "dead"),
              NEW j \in Job,
              \/ jobs' = jobs
              \/ jobs' = ChargedRows(w, j)
              \/ jobs' = FailedRows(w, j)
              \/ jobs' = RetriedRows(w, j) /\ tries[w] \in 1 .. AttemptLimit - 1
       PROVE  LeaseInv'
  <2>1. Held(w)' = {} /\ seen'[w] = Past
    BY <1>10, <1>r DEF AbandonCycle, Held, WorkersTyped
  <2>2. \A v \in Worker : v # w => Held(v)' = Held(v) /\ seen'[v] = seen[v]
    BY <1>10, <1>r DEF AbandonCycle, Held, WorkersTyped
  <2>3. ASSUME NEW k \in Job
        PROVE  \/ /\ jobs'[k].status = jobs[k].status
                  /\ jobs'[k].at = jobs[k].at
                  /\ jobs'[k].claimedBy = jobs[k].claimedBy
               \/ jobs'[k].status \in Closed
               \/ /\ jobs'[k].status = "available"
                  /\ Owns(w, k) /\ k \notin Held(w)' /\ jobs'[k].at >= Skew[w]
    <3>1. CASE jobs' = jobs \/ jobs' = ChargedRows(w, j)
      BY <3>1, <1>r DEF ChargedRows, WellFormed, Row
    <3>2. CASE jobs' = FailedRows(w, j)
      BY <3>2, <1>r DEF FailedRows, Released, Closed, WellFormed, Row
    <3>3. CASE jobs' = RetriedRows(w, j) /\ tries[w] \in 1 .. AttemptLimit - 1
      <4>1. Skew[w] + RetryDelay[tries[w]] >= Skew[w]
        BY <3>3, <1>k, DelayAssumption
      <4>2. QED
        BY <3>3, <4>1, <2>1, <1>r DEF RetriedRows, Released, WellFormed, Row
    <3>4. QED
      BY <1>10, <3>1, <3>2, <3>3
  <2>4. QED
    BY <2>1, <2>2, <2>3, <1>k, <1>f DEF Forgets
<1>11. ASSUME NEW w \in Worker, RetryThrows(w) \/ FailThrows(w) PROVE LeaseInv'
  <2>1. cur[w] \in Job
    BY <1>11, <1>n DEF RetryThrows, FailThrows, InHand
  <2>2. mode[w] = "retrying" => tries[w] \in 1 .. AttemptLimit - 1
    BY <1>r, LimitAssumption DEF TypeInv, TriesInv, InHand, WorkersTyped
  <2>3. QED
    BY <2>1, <2>2, <1>11, <1>10 DEF RetryThrows, FailThrows
<1>12. ASSUME NEW w \in Worker, NEW j \in Job,
              BeginAttemptThrows(w, j) \/ CloseExhaustedThrows(w, j)
       PROVE  LeaseInv'
  BY <1>12, <1>10 DEF BeginAttemptThrows, CloseExhaustedThrows
<1>13. ASSUME NEW w \in Worker, Crash(w) PROVE LeaseInv'
  <2>1. Held(w)' = {} /\ seen'[w] = Past
    BY <1>13, <1>r DEF Crash, AbandonCycle, Held, WorkersTyped
  <2>2. \A v \in Worker : v # w => Held(v)' = Held(v) /\ seen'[v] = seen[v]
    BY <1>13, <1>r DEF Crash, AbandonCycle, Held, WorkersTyped
  <2>3. QED
    BY <1>13, <2>1, <2>2, <1>k, <1>f DEF Forgets, Crash
<1>14. ASSUME NEW h \in Worker, NEW j \in Job, Enqueue(h, j) PROVE LeaseInv'
  <2>1. CASE jobs[j].status # "absent"
    BY <1>14, <2>1, <1>q DEF Enqueue, workerVars
  <2>2. CASE jobs[j].status = "absent"
    <3>1. \A k \in Job : jobs'[k] = jobs[k] \/ k = j
      BY <1>14, <2>2, <1>r DEF Enqueue, WellFormed
    <3>2. jobs'[j].status = "available"
      BY <1>14, <2>2, <1>r DEF Enqueue, WellFormed, Row
    <3>3. UNCHANGED <<seen, batch, cur>>
      BY <1>14 DEF Enqueue, workerVars
    <3>4. /\ \A v \in Worker : Held(v)' = Held(v) /\ j \notin Held(v)
          /\ \A v \in Worker : Held(v) \subseteq Job
      BY <3>3, <2>2, <1>n DEF Held, LeaseInv, ReadingInv
    <3>5. ReadingInv'
      BY <3>1, <3>2, <3>3, <3>4 DEF LeaseInv, ReadingInv, Owns
    <3>6. ClaimsALeaseApart'
      BY <3>3, <3>4 DEF LeaseInv, ClaimsALeaseApart
    <3>7. QED
      BY <3>5, <3>6 DEF LeaseInv
  <2>3. QED
    BY <2>1, <2>2
<1>15. ASSUME Tick PROVE LeaseInv'
  BY <1>15, TickKeepsLeases
<1>16. CASE UNCHANGED vars
  BY <1>16, <1>q DEF vars, workerVars
<1>17. QED
  BY <1>1, <1>2, <1>3, <1>4, <1>5, <1>6, <1>7, <1>8, <1>9, <1>11, <1>12, <1>13, <1>14,
     <1>15, <1>16
  DEF Next, Advance, Disturb

(* Two workers act on one job only with claims at least a lease apart.     *)
THEOREM ClaimsALeaseApartHolds == Spec => []ClaimsALeaseApart
<1>1. Init => HoldInv /\ LeaseInv
  <2> SUFFICES ASSUME Init PROVE HoldInv /\ LeaseInv
    OBVIOUS
  <2>1. \A w \in Worker : Held(w) = {}
    BY NullAssumption DEF Init, Held
  <2>2. \A w \in Worker : seen[w] <= Skew[w]
    BY ClockAssumption, PastIsAnInstant DEF Init, Past
  <2>3. \A w \in Worker, j \in Job : ~Owns(w, j)
    BY DEF Init, Owns
  <2>4. QED
    BY <2>1, <2>2, <2>3
    DEF Init, HoldInv, LeaseInv, ReadingInv, ClaimsALeaseApart
<1>2. TypeInv /\ HoldInv /\ LeaseInv /\ [Next]_vars => (TypeInv /\ HoldInv /\ LeaseInv)'
  BY TypeInvStep, HoldInvStep, LeaseInvStep
<1>3. LeaseInv => ClaimsALeaseApart
  BY DEF LeaseInv
<1>4. QED
  BY <1>1, <1>2, <1>3, TypeInvInit, PTL DEF Spec

=============================================================================
