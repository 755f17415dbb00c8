---------------------------- MODULE MCComponents ----------------------------
(* Small instances of six components that share no variable.  A behaviour   *)
(* runs one of them, chosen at the start as its part, so that their state    *)
(* spaces add up instead of multiplying.                                     *)
EXTENDS UserAccounts, Invitations, TwoFactor, ProcessCaches, ReadCaches, CliCredentials, TLC

VARIABLE part

CONSTANTS u1, u2, e1, i1, i2, i3, c1, c2, o1, s1, s2, w1, w2, f1, p1, p2, q1, q2

MCUser == {u1, u2}
MCEmail == {e1}
MCInvitation == {i1, i2, i3}
MCConfig == {c1, c2}
MCOtp == {o1}
MCServer == {s1, s2}
MCRow == {w1, w2}
MCFill == {f1}

(* Actors of one component that may exchange their names have the same two  *)
(* names in every component, which keeps the symmetry group small:           *)
(* administrators, inviters, requests, readers, changes and providers are    *)
(* MCActor; logins, guests and recovery codes are MCOther.                   *)
MCActor == {p1, p2}
MCOther == {q1, q2}
MCOneActor == [a \in MCActor |-> u1]
Symmetry == Permutations(MCActor) \cup Permutations(MCOther)

Parts == {"removals", "lockouts", "invitations", "authenticator", "codes",
          "processCaches", "readCaches", "credentials"}

(* Removals: the administrators' requests on two users and the logins of one *)
(* of them, two at a time.                                                   *)
(* Lockouts: the logins of one user, and one administrative request at a     *)
(* time.                                                                     *)
Init ==
    /\ part \in Parts
    /\ AccountsInit /\ InviteInit /\ TwoFactorInit
    /\ ProcessCachesInit /\ ReadCachesInit /\ CredentialsInit
    /\ part # "removals" => ActiveHolders = {u1} /\ ~Exists(u2)

Removals ==
    /\ AccountsNext
    /\ Cardinality({a \in Admin : admin'[a] # NoRequest})
         + Cardinality({l \in Login : login'[l] # NoLogin}) <= 2
    /\ \A l \in Login : login'[l].user # u2
    /\ clock' = clock

Lockouts == AccountsNext /\ \E a \in Admin : admin'[a] = NoRequest

(* Server s2 starts and makes changes; the reads are those of s1, of one     *)
(* table at a time, and time passes while it is up.                          *)
MaxChanges == 2
ReadsOfOneServer ==
    /\ ProcessCachesNext
    /\ load'[s2] = load[s2]
    /\ Cardinality({l.table : l \in {load'[s1][r] : r \in Reader} \ {NoLoad}}) <= 1
    /\ boot[s2] # "down" => boot'[s2] # "down"
    /\ instant' # instant => boot[s1] = "up"
    /\ Len(commits'["keys"]) + Len(commits'["config"]) <= MaxChanges

(* Rows are created, invitations issued and configurations added in one      *)
(* order: another order only exchanges their names.  The second row of a     *)
(* slug is created and deleted, the first one changed as well.               *)
FewChanges ==
    /\ ReadCachesNext
    /\ row'[w2].status # "unborn" => row[w1].status # "unborn"
    /\ row'[w2].version = 0

InvitesInOrder ==
    /\ InviteNext
    /\ invitation'[i2] # Unissued => invitation[i1] # Unissued
    /\ invitation'[i3] # Unissued => invitation[i2] # Unissued

(* Authenticator: TOTP configurations and their codes; recovery codes are    *)
(* made and not used.                                                        *)
(* Codes: recovery and e-mailed codes, of a user without a configuration.    *)
Authenticator ==
    /\ TwoFactorNext
    /\ (totp'.id = c2 /\ totp.id # c2) => ~NewConfig(c1)
    /\ \A q \in Request :
          /\ request'[q].op \notin {"setupEmail", "regenerate"}
          /\ request'[q].stage \notin {"send", "redeem"}
    /\ \E k \in Recovery : recovery'[k] = "absent"

Codes ==
    /\ TwoFactorNext
    /\ totp' = totp
    /\ step' = step
    /\ \A q \in Request : request'[q].op # "setupTotp"

(* A token that expires outside the file may as well expire once it is there. *)
FileExpires ==
    /\ CredentialsNext
    /\ expired' # expired => file \in expired'

Next ==
    \/ /\ part = "removals" /\ Removals
       /\ UNCHANGED <<part, inviteVars, twoFactorVars, processCachesVars, readCachesVars,
                      credentialsVars>>
    \/ /\ part = "lockouts" /\ Lockouts
       /\ UNCHANGED <<part, inviteVars, twoFactorVars, processCachesVars, readCachesVars,
                      credentialsVars>>
    \/ /\ part = "invitations" /\ InvitesInOrder
       /\ UNCHANGED <<part, accountsVars, twoFactorVars, processCachesVars, readCachesVars,
                      credentialsVars>>
    \/ /\ part = "authenticator" /\ Authenticator
       /\ UNCHANGED <<part, accountsVars, inviteVars, processCachesVars, readCachesVars,
                      credentialsVars>>
    \/ /\ part = "codes" /\ Codes
       /\ UNCHANGED <<part, accountsVars, inviteVars, processCachesVars, readCachesVars,
                      credentialsVars>>
    \/ /\ part = "processCaches" /\ ReadsOfOneServer
       /\ UNCHANGED <<part, accountsVars, inviteVars, twoFactorVars, readCachesVars,
                      credentialsVars>>
    \/ /\ part = "readCaches" /\ FewChanges
       /\ UNCHANGED <<part, accountsVars, inviteVars, twoFactorVars, processCachesVars,
                      credentialsVars>>
    \/ /\ part = "credentials" /\ FileExpires
       /\ UNCHANGED <<part, accountsVars, inviteVars, twoFactorVars, processCachesVars,
                      readCachesVars>>

Spec == Init /\ [][Next]_<<part, accountsVars, inviteVars, twoFactorVars, processCachesVars,
                           readCachesVars, credentialsVars>>

TypeOK ==
    /\ AccountsTypeOK /\ InviteTypeOK /\ TwoFactorTypeOK
    /\ ProcessCachesTypeOK /\ ReadCachesTypeOK /\ CredentialsTypeOK
=============================================================================
