-------------------------- MODULE MCRecoveryQueue --------------------------
(* Small instance of RecoveryQueue: two workers, two jobs, two attempts.   *)
EXTENDS RecoveryQueue, TLC

CONSTANTS w1, w2, j1, j2

MCWorker == {w1, w2}
MCJob == {j1, j2}
MCRetryDelay == <<1>>
MCSkew == w1 :> 0 @@ w2 :> MaxSkew
Symmetry == Permutations(MCJob)
=============================================================================
