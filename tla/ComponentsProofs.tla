--------------------------- MODULE ComponentsProofs ---------------------------
(***************************************************************************)
(* What the behaviours of MCComponents, where one component runs and the   *)
(* others stand still, have to do with the components themselves.          *)
(***************************************************************************)
EXTENDS MCComponents, AccountsProofs, CopiesProofs

(* A step of a part is a step of its component, with fewer requests or in  *)
(* a fixed order of names, and a stutter of every other one.               *)
LEMMA PartStep ==
    ASSUME [Next]_<<part, accountsVars, inviteVars, twoFactorVars, processCachesVars,
                    readCachesVars, credentialsVars>>
    PROVE  /\ [AccountsNext]_accountsVars
           /\ [InviteNext]_inviteVars
           /\ [TwoFactorNext]_twoFactorVars
           /\ [ProcessCachesNext]_processCachesVars
           /\ [ReadCachesNext]_readCachesVars
           /\ [CredentialsNext]_credentialsVars
  BY DEF Next, Removals, Lockouts, InvitesInOrder, Authenticator, Codes, ReadsOfOneServer,
         FewChanges, FileExpires

(* Every behaviour of the combination is one of each component, so that    *)
(* what a run finds true of it is found of the components as specified.    *)
THEOREM ComponentsRefined ==
    Spec => /\ AccountsSpec /\ InviteSpec /\ TwoFactorSpec
            /\ ProcessCachesSpec /\ ReadCachesSpec /\ CredentialsSpec
<1>1. Init => /\ AccountsInit /\ InviteInit /\ TwoFactorInit
              /\ ProcessCachesInit /\ ReadCachesInit /\ CredentialsInit
  BY DEF Init
<1>2. QED
  BY <1>1, PartStep, PTL DEF Spec, AccountsSpec, InviteSpec, TwoFactorSpec,
     ProcessCachesSpec, ReadCachesSpec, CredentialsSpec

(* All of their rows, locks, requests, snapshots and entries keep their    *)
(* types.                                                                  *)
THEOREM ComponentsTypeCorrect == Spec => []TypeOK
  BY ComponentsRefined, AccountsTypeCorrect, InviteTypeCorrect, TwoFactorTypeCorrect,
     ProcessCachesTypeCorrect, ReadCachesTypeCorrect, CredentialsTypeCorrect, PTL DEF TypeOK
=============================================================================
