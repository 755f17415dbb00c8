---------------------- MODULE RecoverySchedulerProofs ----------------------
(***************************************************************************)
(* Proofs about RecoveryScheduler, for every number of requests in flight. *)
(***************************************************************************)
EXTENDS RecoveryScheduler, TLAPS

(* The safety properties strengthen each other, with three facts about the *)
(* fields: running follows the phase, no timer is left beside an active    *)
(* cycle, and none after stop.                                             *)
FieldInv ==
    /\ running <=> phase \in {"serving", "closing"}
    /\ activeCycle => timer = "none" /\ phase # "starting"
    /\ ~running => timer = "none"

SchedulerInv ==
    /\ TypeOK
    /\ FieldInv
    /\ SingleFlight
    /\ OneTimer
    /\ NoLostWake
    /\ OrderedShutdown

(* cycles, counted stage by stage. *)
LEMMA Counts ==
    ASSUME TypeOK
    PROVE  /\ cycles["claiming"] \in Nat /\ cycles["walking"] \in Nat
           /\ cycles["fulfilled"] \in Nat /\ cycles["rejected"] \in Nat
  BY DEF TypeOK, Stage

LEMMA SchedulerInit == Init => SchedulerInv
<1> SUFFICES ASSUME Init PROVE SchedulerInv
  OBVIOUS
<1>0. FlagsTyped
  BY DEF Init, FlagsTyped
<1>1. TypeOK
  BY <1>0 DEF Init, TypeOK, Phase, Stage
<1>2. SingleFlight /\ OrderedShutdown
  BY DEF Init, SingleFlight, OrderedShutdown, InFlight, Working, Stage
<1>3. FieldInv /\ OneTimer /\ NoLostWake
  BY DEF Init, FieldInv, OneTimer, NoLostWake, Held
<1>4. QED
  BY <1>1, <1>2, <1>3 DEF SchedulerInv

LEMMA RespondTyped ==
    ASSUME admitted' \in Nat, stored' \in Nat, connections \in Nat, Respond
    PROVE  connections' \in Nat /\ connections' <= admitted' + stored'
<1>1. /\ connections' = connections \/ connections' = connections - 1
      /\ connections' >= 0 /\ connections' <= admitted' + stored'
  BY DEF Respond
<1>2. QED
  BY <1>1

(* Every action assigns the flags values they may hold. *)
LEMMA FlagsStep == FlagsTyped /\ [Next]_vars => FlagsTyped'
<1> SUFFICES ASSUME FlagsTyped, [Next]_vars PROVE FlagsTyped'
  OBVIOUS
<1> USE DEF FlagsTyped
<1>1. CASE ServerStep
  BY <1>1 DEF ServerStep, Listen, Signal, Stop, DisconnectDatabase, Exit, workerVars
<1>2. CASE RequestStep
  BY <1>2 DEF RequestStep, Admit, HangUp, Store, Wake, workerVars
<1>3. CASE WorkerStep
  BY <1>3 DEF WorkerStep, BeginCycle, Claimed, CycleFails, WalkEnds, Advance, CycleFinally
<1>4. CASE UNCHANGED vars
  BY <1>4 DEF vars, workerVars
<1>5. QED
  BY <1>1, <1>2, <1>3, <1>4 DEF Next

LEMMA SchedulerStep == SchedulerInv /\ [Next]_vars => SchedulerInv'
<1> SUFFICES ASSUME SchedulerInv, [Next]_vars PROVE SchedulerInv'
  OBVIOUS
<1> USE DEF SchedulerInv, TypeOK, FieldInv, SingleFlight, OneTimer, NoLostWake,
            OrderedShutdown, InFlight, Working, Held, Phase
<1>c. /\ cycles["claiming"] \in Nat /\ cycles["walking"] \in Nat
      /\ cycles["fulfilled"] \in Nat /\ cycles["rejected"] \in Nat
      /\ cycles \in [Stage -> Nat]
  BY Counts
<1>f. FlagsTyped'
  BY FlagsStep
<1>s. \A delay : Schedule(delay) => timer' = delay /\ timeouts' = 1
  BY DEF Schedule
<1>d. ClearScheduledPoll => timer' = "none" /\ timeouts' = 0
  BY DEF ClearScheduledPoll
<1>1. ASSUME Listen PROVE SchedulerInv'
  BY <1>1, <1>c, <1>f, <1>s DEF Listen, requestVars
<1>2. ASSUME Admit \/ HangUp PROVE SchedulerInv'
  BY <1>2, <1>c, <1>f DEF Admit, HangUp, workerVars
<1>3. ASSUME Store PROVE SchedulerInv'
  BY <1>3, <1>c, <1>f, RespondTyped DEF Store, workerVars
<1>4. ASSUME Wake PROVE SchedulerInv'
  BY <1>4, <1>c, <1>f, <1>s, RespondTyped DEF Wake
<1>5. ASSUME Signal \/ DisconnectDatabase PROVE SchedulerInv'
  BY <1>5, <1>c, <1>f DEF Signal, DisconnectDatabase, requestVars, workerVars
<1>6. ASSUME Stop PROVE SchedulerInv'
  BY <1>6, <1>c, <1>f, <1>d DEF Stop, requestVars
<1>7. ASSUME Exit PROVE SchedulerInv'
  BY <1>7, <1>c, <1>f DEF Exit, Stage
<1>8. ASSUME BeginCycle PROVE SchedulerInv'
  BY <1>8, <1>c, <1>f DEF BeginCycle, serverVars, requestVars, Stage
<1>9. ASSUME Claimed PROVE SchedulerInv'
  BY <1>9, <1>c, <1>f DEF Claimed, Advance, serverVars, requestVars, Stage
<1>10. ASSUME CycleFails PROVE SchedulerInv'
  BY <1>10, <1>c, <1>f DEF CycleFails, Advance, serverVars, requestVars, Stage
<1>11. ASSUME NEW full \in BOOLEAN, WalkEnds(full) PROVE SchedulerInv'
  BY <1>11, <1>c, <1>f DEF WalkEnds, Advance, serverVars, requestVars, Stage
<1>12. ASSUME NEW outcome \in {"fulfilled", "rejected"}, CycleFinally(outcome)
       PROVE  SchedulerInv'
  BY <1>12, <1>c, <1>f, <1>s DEF CycleFinally, requestVars, Stage
<1>13. CASE UNCHANGED vars
  BY <1>13, <1>c, <1>f DEF vars, serverVars, requestVars, workerVars
<1>14. QED
  BY <1>1, <1>2, <1>3, <1>4, <1>5, <1>6, <1>7, <1>8, <1>9, <1>10, <1>11, <1>12, <1>13
  DEF Next, ServerStep, RequestStep, WorkerStep

(* The inductive invariant holds in every state of every execution.        *)
LEMMA SchedulerInvariant == Spec => []SchedulerInv
  BY SchedulerInit, SchedulerStep, PTL DEF Spec

(* The worker's fields and the request counts keep their types, for any    *)
(* number of requests: no timeout is cleared that was never set.           *)
THEOREM SchedulerTypeCorrect == Spec => []TypeOK
  BY SchedulerInvariant, PTL DEF SchedulerInv

(* Two cycles never overlap, activeCycle tells the truth about it, and the *)
(* worker holds every timeout that is outstanding, however requests and    *)
(* cycles reschedule the poll.                                             *)
THEOREM OneWorkerHolds == Spec => []OneWorker
  BY SchedulerInvariant, PTL DEF SchedulerInv, OneWorker

(* A wake-up or a full batch leads to a cycle without waiting for the      *)
(* interval, wherever in the running cycle it arrives.                     *)
THEOREM NoLostWakeHolds == Spec => []NoLostWake
  BY SchedulerInvariant, PTL DEF SchedulerInv

(* No cycle and no timer is left when the database is disconnected.        *)
THEOREM OrderedShutdownHolds == Spec => []OrderedShutdown
  BY SchedulerInvariant, PTL DEF SchedulerInv

(* A stopped worker begins no cycle.                                       *)
THEOREM StoppedBeginsNothingHolds == Spec => StoppedBeginsNothing
<1>1. ASSUME SchedulerInv, [Next]_vars, Working' > Working
      PROVE  phase \in {"serving", "closing"}
  <2>c. /\ cycles["claiming"] \in Nat /\ cycles["walking"] \in Nat
        /\ cycles \in [Stage -> Nat]
    BY <1>1, Counts DEF SchedulerInv, TypeOK
  <2>1. CASE BeginCycle
    BY <1>1, <2>1, <2>c DEF BeginCycle, SchedulerInv, FieldInv, Working, Stage
  <2>2. ASSUME cycles' = cycles PROVE FALSE
    BY <1>1, <2>2, <2>c DEF Working
  <2>3. CASE Exit
    BY <1>1, <2>3, <2>c DEF Exit, Working, Stage
  <2>4. CASE Claimed \/ CycleFails \/ \E full \in BOOLEAN : WalkEnds(full)
    BY <1>1, <2>4, <2>c DEF Claimed, CycleFails, WalkEnds, Advance, Working, Stage
  <2>5. ASSUME NEW outcome \in {"fulfilled", "rejected"}, CycleFinally(outcome)
        PROVE  FALSE
    BY <1>1, <2>5, <2>c DEF CycleFinally, Working, Stage
  <2>6. QED
    BY <1>1, <2>1, <2>2, <2>3, <2>4, <2>5
    DEF Next, ServerStep, RequestStep, WorkerStep, Listen, Signal, Stop,
        DisconnectDatabase, Admit, HangUp, Store, Wake, vars, workerVars
<1>2. SchedulerInv /\ [Next]_vars =>
        [Working' > Working => phase \in {"serving", "closing"}]_vars
  BY <1>1
<1>3. QED
  BY <1>2, SchedulerInit, SchedulerStep, PTL DEF Spec, StoppedBeginsNothing
=============================================================================
