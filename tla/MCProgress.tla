----------------------------- MODULE MCProgress -----------------------------
(* Progress of two components that share no variable.  A behaviour runs    *)
(* one of them, chosen at the start as its part, so that their state       *)
(* spaces add up instead of multiplying.                                   *)
(*                                                                         *)
(* Transactions: two links, the newer one bound to a client, and two       *)
(* issues that can overlap with each other and with a callback.            *)
(* Schedule: the recovery worker of one process, with three requests in    *)
(* flight.                                                                 *)
EXTENDS LinkTransactions, RecoveryScheduler

CONSTANTS i1, i2, v1

VARIABLE part

MCLink == {1, 2}
MCBound == {2}
MCIssuer == {i1, i2}
MCVisitor == {v1}

MCInit == part \in {"transactions", "schedule"} /\ LinkInit /\ Init

Transacts(step) == part = "transactions" /\ step /\ UNCHANGED vars
Schedules(step) == part = "schedule" /\ step /\ UNCHANGED linkVars

MCNext == (Transacts(LinkNext) \/ Schedules(Next)) /\ UNCHANGED part

bothVars == <<linkVars, vars>>

(* The fairness of either module, in the behaviours that run it.            *)
MCSpec ==
    /\ MCInit /\ [][MCNext]_<<part, bothVars>>
    /\ \A t \in Issuer : SF_bothVars(Transacts(IssueStep(t)))
    /\ \A t \in Visitor : SF_bothVars(Transacts(VisitStep(t)))
    /\ \A t \in Txn : WF_bothVars(Transacts(Deadlocked(t) /\ Fail(t)))
    /\ WF_bothVars(Schedules(Listen)) /\ WF_bothVars(Schedules(WorkerStep))
=============================================================================
