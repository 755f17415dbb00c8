--------------------------- MODULE RecoveryLedger ---------------------------
(***************************************************************************)
(* What the recovery queue promises about one job, without workers,        *)
(* leases or clocks: an accepted job is charged a bounded number of        *)
(* attempts, is settled once, only after it was charged, and is left alone *)
(* from then on.                                                           *)
(***************************************************************************)
EXTENDS Naturals

CONSTANTS Job, AttemptLimit

VARIABLES
    ledger,     \* the state of each job
    charged     \* the attempts charged to it

ledgerVars == <<ledger, charged>>

LedgerInit ==
    /\ ledger = [j \in Job |-> "none"]
    /\ charged = [j \in Job |-> 0]

Accept(j) ==
    /\ ledger[j] = "none"
    /\ ledger' = [ledger EXCEPT ![j] = "open"]
    /\ UNCHANGED charged

(* Faulty variant: an attempt past the limit. *)
ChargePastLimit(j) ==
    /\ ledger[j] = "open"
    /\ charged' = [charged EXCEPT ![j] = @ + 1]
    /\ UNCHANGED ledger

Charge(j) ==
    /\ ledger[j] = "open"
    /\ charged[j] < AttemptLimit
    /\ charged' = [charged EXCEPT ![j] = @ + 1]
    /\ UNCHANGED ledger

Settle(j) ==
    /\ ledger[j] = "open"
    /\ charged[j] > 0
    /\ \E verdict \in {"completed", "terminal_failure"} :
        ledger' = [ledger EXCEPT ![j] = verdict]
    /\ UNCHANGED charged

LedgerNext == \E j \in Job : Accept(j) \/ Charge(j) \/ Settle(j)

LedgerSpec == LedgerInit /\ [][LedgerNext]_ledgerVars
=============================================================================
