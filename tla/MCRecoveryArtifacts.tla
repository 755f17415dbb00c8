------------------------ MODULE MCRecoveryArtifacts ------------------------
(* Small instances of RecoveryArtifacts: two jobs, numbered by the order   *)
(* of their identifiers, which is not the order they were created in.      *)
EXTENDS RecoveryArtifacts, TLC

CONSTANTS r1, r2, c1, c2, f1, f2

MCRun == {r1, r2}
MCOneRun == {r1}
MCCallback == {c1, c2}
MCOneCallback == {c1}
MCForm == {f1, f2}
MCOneForm == {f1}
MCNoForm == {}
MCJob == {1, 2}
MCId == <<1, 2>>

(* Created in different milliseconds, and within one. *)
MCCreatedAt == <<20, 10>>
CloseCreatedAt == <<13, 11>>

Busy(actors) == {a \in DOMAIN actors : actors[a] # Idle}

(* Two links of one kind, of which the newer may be bound, or a magic link  *)
(* and a reset link, which share only the account.                           *)
MCInit ==
    /\ Init
    /\ kind[1] # kind[2] => kind[1] = "magic_link" /\ bound = {}
    /\ bound \subseteq {1}

(* So many of two runs, two callbacks and a form are busy at a time.         *)
AtATime == IF kind[1] = kind[2] THEN 3 ELSE 2
FewAtATime ==
    Cardinality(Busy(run)) + Cardinality(Busy(callback)) + Cardinality(Busy(form)) <= AtATime

MCSpec == MCInit /\ [][Next /\ FewAtATime']_vars

Symmetry == Permutations(MCRun) \cup Permutations(MCCallback)
=============================================================================
