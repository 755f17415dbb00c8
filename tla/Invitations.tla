----------------------------- MODULE Invitations -----------------------------
(***************************************************************************)
(* The invitation_tokens rows of one organization and the accounts they    *)
(* become.  Inviting an address replaces its live invitation               *)
(* (users/invite-service.ts, auth/token-repository.ts), the invited person *)
(* accepts by creating the account (users/invitation-service.ts,           *)
(* routes/invitation.ts), an administrator revokes                         *)
(* (users/invitation-revocation-service.ts).  Three transactions contend   *)
(* for a row, under READ COMMITTED: whoever waits for a row lock sees the  *)
(* row as the previous holder left it and checks its condition again.      *)
(*                                                                         *)
(* An invitation issued for one application cannot be revoked through      *)
(* another; the rows here are those of one application.                    *)
(***************************************************************************)
EXTENDS Naturals, FiniteSets

CONSTANTS
    Email,          \* addresses
    Invitation,     \* identifiers of invitation_tokens rows
    Inviter,        \* concurrent invite requests
    Guest,          \* concurrent submissions of the acceptance form
    Manual,         \* the account was created by an administrator
    Nothing,        \* no lock, no row, no address, no account
    MaxDays         \* bound on the clock, in lifetimes of an invitation

ASSUME InvitationsAssumption ==
    /\ Manual \notin Invitation \cup {Nothing}
    /\ Nothing \notin Invitation \cup Email \cup Inviter \cup Guest
    /\ Inviter \cap Guest = {}
    /\ MaxDays \in Nat

VARIABLES
    invitation,     \* the rows
    account,        \* what created the account of each address
    roles,          \* the invitations whose roles that account was given
    invLock,        \* the transaction that has locked each row
    inviter,        \* invite requests
    guest,          \* acceptances
    today           \* the clock

accountVars == <<account, roles>>
inviteVars == <<invitation, accountVars, invLock, inviter, guest, today>>

-----------------------------------------------------------------------------
(* The rows.  used_at is set by whatever ends an invitation; `ends` counts *)
(* how often each kind of end was written to the row.                      *)

NoEnd == [accepted |-> 0, replaced |-> 0, revoked |-> 0]

Unissued == [email |-> Nothing, expires |-> 0, used |-> FALSE, ends |-> NoEnd]

Issued(e, d) == [email |-> e, expires |-> d, used |-> FALSE, ends |-> NoEnd]

Ended(row, how) == [row EXCEPT !.used = TRUE, !.ends[how] = @ + 1]

(* used_at IS NULL; the partial unique index covers these rows, expired    *)
(* ones included.                                                          *)
Unused(i) == invitation[i].email # Nothing /\ ~invitation[i].used

UnusedOf(e) == {i \in Invitation : invitation[i].email = e /\ Unused(i)}

(* used_at IS NULL AND expires_at > NOW(), where NOW() is the start of the *)
(* transaction.                                                            *)
ValidAt(i, now) == Unused(i) /\ invitation[i].expires > now

-----------------------------------------------------------------------------
(* Inviting.                                                               *)

InviterStage == {"idle", "checked", "marking", "inserting"}

NoInvite == [stage |-> "idle", email |-> Nothing, seen |-> {}]

(* Locked by another transaction that has already written the row.  A row  *)
(* an acceptance has only locked counts as live for the index.             *)
BeingReplaced(i, r) == invLock[i] \in Inviter \ {r}

Unlocked(r) == [i \in Invitation |-> IF invLock[i] = r THEN Nothing ELSE invLock[i]]

(* The address has no account.  Asked before the transaction begins. *)
CheckNoAccount(r, e) ==
    /\ inviter[r] = NoInvite
    /\ account[e] = Nothing
    /\ inviter' = [inviter EXCEPT ![r] = [stage |-> "checked", email |-> e, seen |-> {}]]
    /\ UNCHANGED <<invitation, accountVars, invLock, guest, today>>

(* The UPDATE's snapshot of the unused invitations. *)
FindReplaced(r) ==
    /\ inviter[r].stage = "checked"
    /\ inviter' = [inviter EXCEPT ![r].stage = "marking", ![r].seen = UnusedOf(inviter[r].email)]
    /\ UNCHANGED <<invitation, accountVars, invLock, guest, today>>

(* Faulty variant: it marks what the snapshot showed.                      *)
MarkUnchecked(r) ==
    /\ inviter[r].stage = "marking"
    /\ \A i \in inviter[r].seen : invLock[i] = Nothing
    /\ invLock' = [i \in Invitation |-> IF i \in inviter[r].seen THEN r ELSE invLock[i]]
    /\ inviter' = [inviter EXCEPT ![r].stage = "inserting"]
    /\ UNCHANGED <<invitation, accountVars, guest, today>>

(* It waits for each of them and marks those still unused. *)
MarkReplaced(r) ==
    LET marked == {i \in inviter[r].seen : Unused(i)} IN
    /\ inviter[r].stage = "marking"
    /\ \A i \in inviter[r].seen : invLock[i] = Nothing
    /\ invLock' = [i \in Invitation |-> IF i \in marked THEN r ELSE invLock[i]]
    /\ inviter' = [inviter EXCEPT ![r].stage = "inserting", ![r].seen = marked]
    /\ UNCHANGED <<invitation, accountVars, guest, today>>

EndInvite(r) ==
    /\ inviter' = [inviter EXCEPT ![r] = NoInvite]
    /\ invLock' = Unlocked(r)

(* The index finds an unused invitation of the address that this           *)
(* transaction has not marked.                                             *)
Conflicting(r) == UnusedOf(inviter[r].email) \ inviter[r].seen

(* The INSERT waits for a transaction that is replacing a conflicting row, *)
(* and commits with the audit row.                                         *)
InsertInvitation(r, i) ==
    /\ inviter[r].stage = "inserting"
    /\ invitation[i] = Unissued
    /\ Conflicting(r) = {}
    /\ invitation' = [j \in Invitation |->
                        IF j = i THEN Issued(inviter[r].email, today + 1)
                        ELSE IF j \in inviter[r].seen THEN Ended(invitation[j], "replaced")
                        ELSE invitation[j]]
    /\ EndInvite(r)
    /\ UNCHANGED <<accountVars, guest, today>>

(* A committed one is a conflict: everything is rolled back. *)
InviteConflicts(r) ==
    /\ inviter[r].stage = "inserting"
    /\ \E i \in Conflicting(r) : ~BeingReplaced(i, r)
    /\ EndInvite(r)
    /\ UNCHANGED <<invitation, accountVars, guest, today>>

(* The audit row or the connection fails. *)
InviteFails(r) ==
    /\ inviter[r].stage \in {"marking", "inserting"}
    /\ EndInvite(r)
    /\ UNCHANGED <<invitation, accountVars, guest, today>>

-----------------------------------------------------------------------------
(* Accepting.                                                              *)

GuestStage == {"idle", "begun", "locked", "assigning"}

NoGuest == [stage |-> "idle", row |-> Nothing, began |-> 0]

(* The form's own check, and the transaction that begins after the         *)
(* password was hashed.                                                    *)
SubmitForm(g, i) ==
    /\ guest[g] = NoGuest
    /\ ValidAt(i, today)
    /\ account[invitation[i].email] = Nothing
    /\ guest' = [guest EXCEPT ![g] = [stage |-> "begun", row |-> i, began |-> today]]
    /\ UNCHANGED <<invitation, accountVars, invLock, inviter, today>>

EndGuest(g) ==
    /\ guest' = [guest EXCEPT ![g] = NoGuest]
    /\ invLock' = Unlocked(g)

(* Faulty variant: what the form found is not looked at again under the    *)
(* lock.                                                                   *)
LockWithoutRecheck(g) ==
    /\ guest[g].stage = "begun"
    /\ invLock[guest[g].row] = Nothing
    /\ invLock' = [invLock EXCEPT ![guest[g].row] = g]
    /\ guest' = [guest EXCEPT ![g].stage = "locked"]
    /\ UNCHANGED <<invitation, accountVars, inviter, today>>

(* SELECT ... FOR UPDATE. *)
LockInvitation(g) ==
    LET i == guest[g].row IN
    /\ guest[g].stage = "begun"
    /\ invLock[i] = Nothing
    /\ IF ValidAt(i, guest[g].began)
       THEN /\ invLock' = [invLock EXCEPT ![i] = g]
            /\ guest' = [guest EXCEPT ![g].stage = "locked"]
       ELSE EndGuest(g)
    /\ UNCHANGED <<invitation, accountVars, inviter, today>>

(* The address is free: the account is inserted, the invitation consumed,  *)
(* both committed.                                                         *)
CreateAccount(g) ==
    LET i == guest[g].row IN
    /\ guest[g].stage = "locked"
    /\ account[invitation[i].email] = Nothing
    /\ account' = [account EXCEPT ![invitation[i].email] = i]
    /\ UNCHANGED roles
    /\ invitation' = [invitation EXCEPT ![i] = Ended(@, "accepted")]
    /\ invLock' = Unlocked(g)
    /\ guest' = [guest EXCEPT ![g].stage = "assigning"]
    /\ UNCHANGED <<inviter, today>>

(* The address has an account by now, or a statement fails: rolled back. *)
AcceptanceRejected(g) ==
    /\ guest[g].stage = "locked"
    /\ EndGuest(g)
    /\ UNCHANGED <<invitation, accountVars, inviter, today>>

(* Faulty variant: roles are given to the address, not to the account. *)
ApplyToAddress(g) ==
    LET i == guest[g].row IN
    /\ guest[g].stage = "assigning"
    /\ roles' = [roles EXCEPT ![invitation[i].email] = @ \cup {i}]
    /\ EndGuest(g)
    /\ UNCHANGED <<invitation, account, inviter, today>>

(* Roles and claims follow the commit, each in its own statement, for the  *)
(* identifier of the new account: a role that is gone is skipped, and when *)
(* the account is gone every statement fails.                              *)
ApplyPreAssignments(g) ==
    LET i == guest[g].row IN
    /\ guest[g].stage = "assigning"
    /\ roles' = [e \in Email |-> IF account[e] = i THEN roles[e] \cup {i} ELSE roles[e]]
    /\ EndGuest(g)
    /\ UNCHANGED <<invitation, account, inviter, today>>

(* Or the process stops first, and the promise is lost. *)
LosePreAssignments(g) ==
    /\ guest[g].stage = "assigning"
    /\ EndGuest(g)
    /\ UNCHANGED <<invitation, accountVars, inviter, today>>

-----------------------------------------------------------------------------
(* Revoking, other ways an account comes and goes, and time.               *)

RevokeInvitation(i) ==
    /\ invLock[i] = Nothing
    /\ ValidAt(i, today)
    /\ invitation' = [invitation EXCEPT ![i] = Ended(@, "revoked")]
    /\ UNCHANGED <<accountVars, invLock, inviter, guest, today>>

CreateUser(e) ==
    /\ account[e] = Nothing
    /\ account' = [account EXCEPT ![e] = Manual]
    /\ UNCHANGED <<invitation, roles, invLock, inviter, guest, today>>

(* The roles go with the account, and the used row of its invitation, which *)
(* nothing looks for any more, stands for one that is gone.                *)
DeleteAccount(e) ==
    /\ account[e] # Nothing
    /\ account' = [account EXCEPT ![e] = Nothing]
    /\ roles' = [roles EXCEPT ![e] = {}]
    /\ UNCHANGED <<invitation, invLock, inviter, guest, today>>

DayPasses ==
    /\ today < MaxDays
    /\ today' = today + 1
    /\ UNCHANGED <<invitation, accountVars, invLock, inviter, guest>>

-----------------------------------------------------------------------------
InviteInit ==
    /\ invitation = [i \in Invitation |-> Unissued]
    /\ account = [e \in Email |-> Nothing]
    /\ roles = [e \in Email |-> {}]
    /\ invLock = [i \in Invitation |-> Nothing]
    /\ inviter = [r \in Inviter |-> NoInvite]
    /\ guest = [g \in Guest |-> NoGuest]
    /\ today = 0

InviteNext ==
    \/ \E r \in Inviter, e \in Email : CheckNoAccount(r, e)
    \/ \E r \in Inviter, i \in Invitation : InsertInvitation(r, i)
    \/ \E r \in Inviter : FindReplaced(r) \/ MarkReplaced(r) \/ InviteConflicts(r) \/ InviteFails(r)
    \/ \E g \in Guest, i \in Invitation : SubmitForm(g, i)
    \/ \E g \in Guest :
        \/ LockInvitation(g) \/ CreateAccount(g) \/ AcceptanceRejected(g)
        \/ ApplyPreAssignments(g) \/ LosePreAssignments(g)
    \/ \E i \in Invitation : RevokeInvitation(i)
    \/ \E e \in Email : CreateUser(e) \/ DeleteAccount(e)
    \/ DayPasses

InviteSpec == InviteInit /\ [][InviteNext]_inviteVars

-----------------------------------------------------------------------------
(* Properties.                                                             *)

(* Every variable holds values of its kind. *)
InviteTypeOK ==
    /\ invitation \in [Invitation -> [email : Email \cup {Nothing}, expires : Nat, used : BOOLEAN,
                                      ends : [accepted : Nat, replaced : Nat, revoked : Nat]]]
    /\ account \in [Email -> Invitation \cup {Manual, Nothing}]
    /\ roles \in [Email -> SUBSET Invitation]
    /\ invLock \in [Invitation -> Inviter \cup Guest \cup {Nothing}]
    /\ inviter \in [Inviter -> [stage : InviterStage, email : Email \cup {Nothing}, seen : SUBSET Invitation]]
    /\ guest \in [Guest -> [stage : GuestStage, row : Invitation \cup {Nothing}, began : Nat]]
    /\ today \in Nat

Endings(row) == row.ends.accepted + row.ends.replaced + row.ends.revoked

(* An invitation ends once and in one way: accepted by one account,        *)
(* replaced by one newer invitation, or revoked, and never two of these,   *)
(* however the transactions wait for each other.                           *)
OneOutcome == \A i \in Invitation : Endings(invitation[i]) <= 1

(* An address has at most one unused invitation: concurrent requests that  *)
(* replace the same one, or find none to replace, leave one winner.        *)
OneLiveInvitation == \A e \in Email : Cardinality(UnusedOf(e)) <= 1

(* Roles promised with an invitation reach only the account it created,    *)
(* also when that account was deleted and the address given another one    *)
(* between the commit and the assignment.                                  *)
RolesFromOwnInvitation == \A e \in Email : roles[e] \subseteq {account[e]}

(* x waits for y to commit or roll back: for the lock of a row it found, or *)
(* to learn whether the invitation that y replaces is gone.                *)
InviteAwaits(x, y) ==
    \/ /\ x \in Inviter /\ inviter[x].stage = "marking"
       /\ \E i \in inviter[x].seen : invLock[i] = y
    \/ /\ x \in Inviter /\ inviter[x].stage = "inserting"
       /\ \E i \in Conflicting(x) : BeingReplaced(i, x) /\ invLock[i] = y
    \/ x \in Guest /\ guest[x].stage = "begun" /\ invLock[guest[x].row] = y

(* Whoever is waited for waits for nobody, so requests that replace and    *)
(* accept the invitations of an address never wait in a circle, although   *)
(* the index makes the one that inserts wait while it holds locks.         *)
InviteWaitsEnd ==
    \A x, y, z \in Inviter \cup Guest : ~(InviteAwaits(x, y) /\ InviteAwaits(y, z))

(* What has become of a row.  It stands until something ends it, also      *)
(* after it has expired; the promise knows no row that ended twice.        *)
Outcome(row) ==
    IF row.email = Nothing THEN "unissued"
    ELSE IF ~row.used THEN "open"
    ELSE IF Endings(row) # 1 THEN "amiss"
    ELSE IF row.ends.accepted = 1 THEN "redeemed" ELSE "void"

OneTime == INSTANCE OneTimeArtifact WITH
    Artifact <- Invitation, Owner <- Email, NoOwner <- Nothing,
    owner <- [i \in Invitation |-> invitation[i].email],
    standing <- [i \in Invitation |-> Outcome(invitation[i])]

(* Invitations are one-time artifacts of their address: every transaction  *)
(* is one step of that promise or invisible in it.  A new invitation takes *)
(* the address's other one back in the step that issues it, and what is    *)
(* accepted still stands, however long it was waited for.                  *)
InvitationsAreOneTime == OneTime!OneTimeSpec
=============================================================================
