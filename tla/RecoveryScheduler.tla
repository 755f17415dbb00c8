------------------------- MODULE RecoveryScheduler -------------------------
(***************************************************************************)
(* The scheduling half of RecoveryWorker (auth/recovery-worker.ts) inside  *)
(* the life of its server process (index.ts, auth/recovery-service.ts):    *)
(* one poll timer, one cycle at a time, wake-ups from requests that        *)
(* enqueue work, and a graceful shutdown that drains the cycle before the  *)
(* database is disconnected.                                               *)
(*                                                                         *)
(* JavaScript callbacks are atomic; everything else interleaves at the     *)
(* awaits.  What a cycle does between its claim and its end is the subject *)
(* of RecoveryQueue.                                                       *)
(***************************************************************************)
EXTENDS Integers

CONSTANT MaxRequests    \* bound on the requests in flight

ASSUME RequestAssumption == MaxRequests \in Nat \ {0}

VARIABLES
    phase,          \* the server process
    admitted,       \* requests that have not inserted their job yet
    stored,         \* requests that have, and are about to call wake
    connections,    \* connections those requests' clients still hold open
    running,        \* RecoveryWorker.running
    timer,          \* RecoveryWorker.timer, by its delay
    timeouts,       \* timeouts the event loop still holds for the worker
    activeCycle,    \* RecoveryWorker.activeCycle
    cycles,         \* invocations of runCycle, by how far they are
    wakePending,    \* RecoveryWorker.wakePending
    due             \* a wake-up or a full batch no later cycle has begun for

requestVars == <<admitted, stored, connections>>
serverVars == <<phase, requestVars>>
workerVars == <<running, timer, timeouts, activeCycle, cycles, wakePending, due>>
vars == <<serverVars, workerVars>>

Phase == {"starting", "serving", "closing", "draining",
          "drained", "disconnected", "failing", "exited"}

(* A cycle awaits its claim, then walks its batch; a settled one has        *)
(* fulfilled or rejected its promise, with the reactions still to run.      *)
Stage == {"claiming", "walking", "fulfilled", "rejected"}

Working == cycles["claiming"] + cycles["walking"]
InFlight == Working + cycles["fulfilled"] + cycles["rejected"]

-----------------------------------------------------------------------------
(* schedule, as timer and timeouts after it, given the same before it.     *)

Held == IF timer = "none" THEN 0 ELSE 1

Schedule(delay) ==
    /\ timer' = delay
    /\ timeouts' = (timeouts - Held) + 1

(* Faulty variant: something is cleared even when nothing is scheduled. *)
ClearTwice == timer' = "none" /\ timeouts' = timeouts - 1

ClearScheduledPoll ==
    /\ timer' = "none"
    /\ timeouts' = timeouts - Held

-----------------------------------------------------------------------------
(* The server process.                                                     *)

(* The listen callback starts the worker. *)
Listen ==
    /\ phase = "starting"
    /\ phase' = "serving"
    /\ running' = TRUE
    /\ Schedule("soon")
    /\ UNCHANGED <<requestVars, activeCycle, cycles, wakePending, due>>

Admit ==
    /\ phase = "serving"
    /\ admitted + stored < MaxRequests
    /\ admitted' = admitted + 1
    /\ connections' = connections + 1
    /\ UNCHANGED <<phase, stored, workerVars>>

(* A client goes away; the handler of its request does not notice. *)
HangUp ==
    /\ connections > 0
    /\ connections' = connections - 1
    /\ UNCHANGED <<phase, admitted, stored, workerVars>>

(* A request ends, with the connection of its client if that is still open. *)
Respond ==
    connections' \in {c \in {connections, connections - 1} :
                        c >= 0 /\ c <= admitted' + stored'}

(* The insert of enqueueAccountRecovery, or its failure: the only outcome  *)
(* once the pool is gone.                                                  *)
Store ==
    /\ admitted > 0
    /\ admitted' = admitted - 1
    /\ \/ phase # "disconnected" /\ stored' = stored + 1 /\ UNCHANGED connections
       \/ UNCHANGED stored /\ Respond
    /\ UNCHANGED <<phase, workerVars>>

(* Faulty variant: the running cycle is trusted to see the new job. *)
WakeIdleOnly ==
    /\ stored > 0
    /\ stored' = stored - 1
    /\ IF running
       THEN /\ due' = TRUE
            /\ IF activeCycle THEN UNCHANGED <<timer, timeouts>> ELSE Schedule("soon")
       ELSE UNCHANGED <<due, timer, timeouts>>
    /\ UNCHANGED <<phase, admitted, running, activeCycle, cycles, wakePending>>
    /\ Respond

(* worker?.wake() after the insert. *)
Wake ==
    /\ stored > 0
    /\ stored' = stored - 1
    /\ IF running
       THEN /\ due' = TRUE
            /\ IF activeCycle
               THEN wakePending' = TRUE /\ UNCHANGED <<timer, timeouts>>
               ELSE Schedule("soon") /\ UNCHANGED wakePending
       ELSE UNCHANGED <<due, wakePending, timer, timeouts>>
    /\ UNCHANGED <<phase, admitted, running, activeCycle, cycles>>
    /\ Respond

Signal ==
    /\ phase = "serving"
    /\ phase' = "closing"
    /\ UNCHANGED <<requestVars, workerVars>>

(* Faulty variant: stop does not wait for the cycle. *)
StopAtOnce ==
    /\ phase = "closing" /\ connections = 0
    /\ running' = FALSE
    /\ wakePending' = FALSE
    /\ ClearScheduledPoll
    /\ phase' = "drained"
    /\ UNCHANGED <<requestVars, activeCycle, cycles, due>>

(* server.close has waited for the open connections; then stop(). *)
Stop ==
    /\ phase = "closing" /\ connections = 0
    /\ running' = FALSE
    /\ wakePending' = FALSE
    /\ ClearScheduledPoll
    /\ phase' = IF activeCycle THEN "draining" ELSE "drained"
    /\ UNCHANGED <<requestVars, activeCycle, cycles, due>>

DisconnectDatabase ==
    /\ phase = "drained"
    /\ phase' = "disconnected"
    /\ UNCHANGED <<requestVars, workerVars>>

(* process.exit: when all is disconnected, when stop's deadline passes or  *)
(* its cycle is rejected, or when the forced exit fires.  Nothing of the   *)
(* process remains.                                                        *)
Exit ==
    /\ phase \in {"closing", "draining", "drained", "disconnected", "failing"}
    /\ phase' = "exited"
    /\ admitted' = 0 /\ stored' = 0 /\ connections' = 0
    /\ running' = FALSE /\ activeCycle' = FALSE /\ wakePending' = FALSE /\ due' = FALSE
    /\ timer' = "none" /\ timeouts' = 0
    /\ cycles' = [s \in Stage |-> 0]

-----------------------------------------------------------------------------
(* The worker.                                                             *)

(* The timeout callback: beginCycle, whose runCycle reads its clock before *)
(* the first await.                                                        *)
BeginCycle ==
    /\ timeouts > 0
    /\ timeouts' = timeouts - 1
    /\ timer' = "none"
    /\ CASE ~running -> UNCHANGED <<activeCycle, cycles, wakePending, due>>
         [] running /\ activeCycle ->
              wakePending' = TRUE /\ UNCHANGED <<activeCycle, cycles, due>>
         [] OTHER ->
              /\ activeCycle' = TRUE
              /\ cycles' = [cycles EXCEPT !["claiming"] = @ + 1]
              /\ due' = FALSE
              /\ UNCHANGED wakePending
    /\ UNCHANGED <<serverVars, running>>

Advance(from, to) ==
    /\ cycles[from] > 0
    /\ cycles' = [cycles EXCEPT ![from] = @ - 1, ![to] = @ + 1]
    /\ UNCHANGED <<serverVars, running, timer, timeouts, activeCycle>>

Claimed == Advance("claiming", "walking") /\ UNCHANGED <<wakePending, due>>

CycleFails ==
    /\ \/ Advance("claiming", "rejected")
       \/ Advance("walking", "rejected")
    /\ UNCHANGED <<wakePending, due>>

(* The walk ends; a full batch asks for another cycle at once. *)
WalkEnds(full) ==
    /\ Advance("walking", "fulfilled")
    /\ wakePending' = (wakePending \/ full)
    /\ due' = (due \/ full)

(* Faulty variants: the reaction leaves the field set, or runs only when   *)
(* the cycle was fulfilled.                                                *)
FinallyKeepsCycle(outcome) ==
    /\ cycles[outcome] > 0
    /\ cycles' = [cycles EXCEPT ![outcome] = @ - 1]
    /\ IF running
       THEN Schedule("soon") /\ wakePending' = FALSE
       ELSE UNCHANGED <<timer, timeouts, wakePending>>
    /\ UNCHANGED <<serverVars, running, activeCycle, due>>
FinallyIfFulfilled(outcome) ==
    /\ cycles[outcome] > 0
    /\ cycles' = [cycles EXCEPT ![outcome] = @ - 1]
    /\ activeCycle' = FALSE
    /\ IF running /\ outcome = "fulfilled"
       THEN Schedule("soon") /\ wakePending' = FALSE
       ELSE UNCHANGED <<timer, timeouts, wakePending>>
    /\ UNCHANGED <<serverVars, running, due>>

(* The reactions of the cycle's promise: the finally callback of           *)
(* beginCycle, and stop's race, which a rejection makes reject as well.    *)
CycleFinally(outcome) ==
    /\ cycles[outcome] > 0
    /\ cycles' = [cycles EXCEPT ![outcome] = @ - 1]
    /\ activeCycle' = FALSE
    /\ IF running
       THEN Schedule(IF wakePending THEN "soon" ELSE "poll") /\ wakePending' = FALSE
       ELSE UNCHANGED <<timer, timeouts, wakePending>>
    /\ phase' = IF phase # "draining" THEN phase
                ELSE IF outcome = "fulfilled" THEN "drained"
                ELSE "failing"
    /\ UNCHANGED <<requestVars, running, due>>

-----------------------------------------------------------------------------

Init ==
    /\ phase = "starting" /\ admitted = 0 /\ stored = 0 /\ connections = 0
    /\ running = FALSE /\ timer = "none" /\ timeouts = 0
    /\ activeCycle = FALSE /\ cycles = [s \in Stage |-> 0]
    /\ wakePending = FALSE /\ due = FALSE

RequestStep == Admit \/ HangUp \/ Store \/ Wake

WorkerStep ==
    \/ BeginCycle \/ Claimed \/ CycleFails
    \/ \E full \in BOOLEAN : WalkEnds(full)
    \/ \E outcome \in {"fulfilled", "rejected"} : CycleFinally(outcome)

ServerStep == Listen \/ Signal \/ Stop \/ DisconnectDatabase \/ Exit

Next == ServerStep \/ RequestStep \/ WorkerStep

Spec == Init /\ [][Next]_vars

(* The server starts, its event loop runs the callbacks that are due, and  *)
(* the database answers or fails.  No client has to send anything, and no  *)
(* signal has to come.                                                     *)
FairSpec == Spec /\ WF_vars(Listen) /\ WF_vars(WorkerStep)

-----------------------------------------------------------------------------
(* Properties.                                                             *)

FlagsTyped == {running, activeCycle, wakePending, due} \subseteq BOOLEAN

(* The fields of RecoveryWorker and the request counts keep their types:   *)
(* no timeout is cleared that was never set, and every open connection     *)
(* belongs to a request.                                                   *)
TypeOK ==
    /\ phase \in Phase
    /\ admitted \in Nat /\ stored \in Nat
    /\ connections \in Nat /\ connections <= admitted + stored
    /\ timer \in {"none", "soon", "poll"}
    /\ timeouts \in Nat
    /\ cycles \in [Stage -> Nat]
    /\ FlagsTyped

(* Cycles never overlap, and the field that guards them tells the truth.   *)
SingleFlight == InFlight = IF activeCycle THEN 1 ELSE 0

(* The worker owns every timeout it has outstanding: rescheduling never    *)
(* leaves a second poll behind.                                            *)
OneTimer == timeouts = Held

(* However wakes, polls and the ends of cycles reschedule each other, what *)
(* the worker's fields say is all there is: one cycle and one timer.       *)
OneWorker == SingleFlight /\ OneTimer

(* A wake-up, or a full batch, is followed by a cycle without waiting for  *)
(* the poll interval, wherever in the running cycle it arrived.            *)
NoLostWake ==
    running /\ due => timer = "soon" \/ (activeCycle /\ wakePending)

(* The database is disconnected only when no cycle can use it any more,    *)
(* and no timer is left to begin one.                                      *)
OrderedShutdown ==
    phase \in {"drained", "disconnected"} => InFlight = 0 /\ timeouts = 0

(* Once it is stopped the worker begins no cycle, whatever requests whose  *)
(* clients are gone still enqueue.                                         *)
StoppedBeginsNothing ==
    [][Working' > Working => phase \in {"serving", "closing"}]_vars

(* Polling goes on after every kind of cycle, a failed one included, until *)
(* the process shuts down.                                                 *)
PollingNeverDies ==
    phase = "serving" ~> cycles["claiming"] > 0 \/ phase # "serving"

=============================================================================
