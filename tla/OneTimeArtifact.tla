-------------------------- MODULE OneTimeArtifact --------------------------
(***************************************************************************)
(* What a link that is mailed to somebody promises, without transactions,  *)
(* locks, retries or clocks: it is issued once, to one owner, and that     *)
(* takes the owner's other links back; while it stands it can be redeemed  *)
(* or taken back, once, and is left alone from then on.                    *)
(***************************************************************************)
CONSTANTS
    Artifact,       \* rows that may be issued
    Owner,          \* what an artifact is issued to
    NoOwner         \* the owner of a row that was not

VARIABLES
    owner,          \* whom each artifact was issued to
    standing        \* what has become of it

oneTimeVars == <<owner, standing>>

OneTimeInit ==
    /\ owner = [a \in Artifact |-> NoOwner]
    /\ standing = [a \in Artifact |-> "unissued"]

Issue(a, o) ==
    /\ standing[a] = "unissued"
    /\ owner' = [owner EXCEPT ![a] = o]
    /\ standing' = [b \in Artifact |->
                      IF b = a THEN "open"
                      ELSE IF owner[b] = o /\ standing[b] = "open" THEN "void"
                      ELSE standing[b]]

Close(a, how) ==
    /\ standing[a] = "open"
    /\ standing' = [standing EXCEPT ![a] = how]
    /\ UNCHANGED owner

Redeem(a) == Close(a, "redeemed")

TakeBack(a) == Close(a, "void")

OneTimeNext ==
    \E a \in Artifact : Redeem(a) \/ TakeBack(a) \/ \E o \in Owner : Issue(a, o)

OneTimeSpec == OneTimeInit /\ [][OneTimeNext]_oneTimeVars
=============================================================================
