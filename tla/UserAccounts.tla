---------------------------- MODULE UserAccounts ----------------------------
(***************************************************************************)
(* The user rows of the control-plane organization: who holds the exact    *)
(* porta-super-admin role, the status of each account, and the lockout     *)
(* after failed passwords.  Four kinds of writer meet on a row:            *)
(*                                                                         *)
(*   - deletion and role removal lock the organization row, then the user  *)
(*     row, and look for another active holder (users/repository.ts,       *)
(*     rbac/user-role-service.ts); a removal locks the role's row as well; *)
(*   - assignment locks the user row, then the role's row;                 *)
(*   - status changes: one reads the status without a lock and updates     *)
(*     unconditionally (users/service.ts), the bulk one locks the row      *)
(*     (lib/bulk-operations.ts);                                           *)
(*   - a password login unlocks an elapsed lockout, verifies, and records  *)
(*     the outcome, each in a statement of its own.                        *)
(*                                                                         *)
(* Isolation is READ COMMITTED.  Every administrative transaction ends     *)
(* with an audit entry, whose foreign keys (migrations/009_audit_log.sql)  *)
(* take FOR KEY SHARE on the organization's row, on the target's and on    *)
(* the actor's, so it waits for whoever holds one of them FOR UPDATE.      *)
(* From that entry on it waits for nobody: entry, last write and COMMIT    *)
(* are one step, up to which everybody else reads the old rows.            *)
(***************************************************************************)
EXTENDS Integers

CONSTANTS
    User,           \* accounts of the organization
    Admin,          \* concurrent administrative requests
    Login,          \* concurrent password logins
    Nobody,         \* holds no lock, is no target
    Bootstrap,      \* system_config super_admin_user_id, Nobody when unset
    Actor,          \* the account each request acts for, Nobody for a service
    MaxFailed,      \* system_config max_failed_logins
    Cooldown,       \* system_config lockout_duration_seconds
    MaxTime         \* bound on the clock

ASSUME AccountsAssumption ==
    /\ Nobody \notin User \cup Admin
    /\ Bootstrap \in User \cup {Nobody}
    /\ Actor \in [Admin -> User \cup {Nobody}]
    /\ MaxFailed \in Nat \ {0}
    /\ Cooldown \in Nat
    /\ MaxTime \in Nat

VARIABLES
    users,          \* the users rows
    holders,        \* users with the porta-super-admin role
    orgLock,        \* the request that has locked the organization row
    rowLock,        \* the request that has locked each users row
    admin,          \* administrative requests
    login,          \* password logins
    clock,
    unguarded,      \* a writer without the survivor check took a holder down
    overwritten     \* users whose lockout a stale status change wrote over

lockVars == <<orgLock, rowLock>>
accountsVars == <<users, holders, lockVars, admin, login, clock, unguarded, overwritten>>

-----------------------------------------------------------------------------
(* The rows.                                                               *)

NotLocked == -1

(* locked_at and locked_reason are set and cleared together, so one field  *)
(* stands for both.                                                        *)
UserRow ==
    [status : {"active", "inactive", "locked", "gone"}, failures : 0 .. MaxFailed, lockedAt : Int]

Exists(u) == users[u].status # "gone"

ActiveHolders == {u \in holders : users[u].status = "active"}

(* Faulty variant: the failure count survives the unlocking. *)
ClearedWithoutReset(row) == [row EXCEPT !.status = "active", !.lockedAt = NotLocked]

(* The two clearing statements write the same columns. *)
Cleared(row) == [row EXCEPT !.status = "active", !.failures = 0, !.lockedAt = NotLocked]

SetStatus(u, status) == users' = [users EXCEPT ![u].status = status]

(* What a writer that takes an active holder down leaves behind when it    *)
(* does not look for a survivor.                                           *)
TakesDown(u) == unguarded' = (unguarded \/ u \in ActiveHolders)

-----------------------------------------------------------------------------
(* Administrative requests.                                                *)

AdminStage == {"idle", "target", "status", "role", "survivor", "insert", "commit"}

SingleOp == {"activate", "deactivate"}
BulkOp == {"bulkActivate", "bulkDeactivate"}
AdminOp == {"none", "delete", "remove", "assign"} \cup SingleOp \cup BulkOp

Serving(op, stage, u) == [op |-> op, stage |-> stage, user |-> u]

NoRequest == Serving("none", "idle", Nobody)

AdminGoes(a, stage) == admin' = [admin EXCEPT ![a].stage = stage]

(* The row of the role is locked with the targets of a removal or an       *)
(* assignment, and kept.                                                   *)
HoldsRole(a) ==
    admin[a].op \in {"remove", "assign"} /\ admin[a].stage \in {"survivor", "insert", "commit"}

(* The assigned_by of an assignment it has inserted shares its actor's row. *)
SharesRow(a, u) == admin[a].op = "assign" /\ admin[a].stage = "commit" /\ Actor[a] = u

(* Whom a's FOR UPDATE on a users row waits for. *)
RowHolders(a, u) == {b \in Admin \ {a} : rowLock[u] = b \/ SharesRow(b, u)}

(* Whom a's reference to its actor waits for.  An UPDATE of the status     *)
(* alone lets references to the row through.                               *)
ReferenceHolders(a) ==
    {b \in Admin \ {a} :
        Actor[a] \in User /\ rowLock[Actor[a]] = b /\ admin[b].op \notin SingleOp}

ActorExists(a) == Actor[a] \in User => Exists(Actor[a])

(* The audit entry refers to the organization and to the actor; its target *)
(* is locked by the request itself.                                        *)
AuditHolders(a) == {b \in Admin \ {a} : orgLock = b} \cup ReferenceHolders(a)

(* The request gets its audit entry in and commits. *)
Commits(a) == admin[a].stage = "commit" /\ AuditHolders(a) = {} /\ ActorExists(a)

(* COMMIT or ROLLBACK gives every lock back. *)
EndRequest(a) ==
    /\ admin' = [admin EXCEPT ![a] = NoRequest]
    /\ orgLock' = IF orgLock = a THEN Nobody ELSE orgLock
    /\ rowLock' = [u \in User |-> IF rowLock[u] = a THEN Nobody ELSE rowLock[u]]

(* Faulty variant: the organization row is read without FOR UPDATE. *)
LockOrganizationWithoutLock(a, op, u) ==
    /\ admin[a] = NoRequest
    /\ op \in {"delete", "remove"}
    /\ orgLock' = orgLock
    /\ admin' = [admin EXCEPT ![a] = Serving(op, "target", u)]
    /\ UNCHANGED <<users, holders, rowLock, login, clock, unguarded, overwritten>>

(* Faulty variant: a role removal leaves the organization row to the       *)
(* survivor check.                                                         *)
LockOrganizationForDeletion(a, op, u) ==
    /\ admin[a] = NoRequest
    /\ op \in {"delete", "remove"}
    /\ op = "delete" => orgLock = Nobody
    /\ orgLock' = IF op = "delete" THEN a ELSE orgLock
    /\ admin' = [admin EXCEPT ![a] = Serving(op, "target", u)]
    /\ UNCHANGED <<users, holders, rowLock, login, clock, unguarded, overwritten>>

(* Deletion and role removal begin by locking the organization row. *)
LockOrganization(a, op, u) ==
    /\ admin[a] = NoRequest
    /\ op \in {"delete", "remove"}
    /\ orgLock = Nobody
    /\ orgLock' = a
    /\ admin' = [admin EXCEPT ![a] = Serving(op, "target", u)]
    /\ UNCHANGED <<users, holders, rowLock, login, clock, unguarded, overwritten>>

(* Assignment and the items of a bulk request begin with the target. *)
BeginTarget(a, op, u) ==
    /\ admin[a] = NoRequest
    /\ op \in {"assign"} \cup BulkOp
    /\ admin' = [admin EXCEPT ![a] = Serving(op, "target", u)]
    /\ UNCHANGED <<users, holders, lockVars, login, clock, unguarded, overwritten>>

FromStatus(op) == IF op \in {"activate", "bulkActivate"} THEN "inactive" ELSE "active"
ToStatus(op) == IF op \in {"activate", "bulkActivate"} THEN "active" ELSE "inactive"

(* A target that is gone, or in a status the bulk change does not start    *)
(* from, ends the request.                                                 *)
Admissible(op, u) == Exists(u) /\ (op \in BulkOp => users[u].status = FromStatus(op))

(* The target row is locked FOR UPDATE and read.  Only an active holder    *)
(* needs a survivor.                                                       *)
LockTarget(a) ==
    LET op == admin[a].op
        u == admin[a].user
    IN  /\ admin[a].stage = "target"
        /\ RowHolders(a, u) = {}
        /\ IF Admissible(op, u)
           THEN /\ rowLock' = [rowLock EXCEPT ![u] = a]
                /\ AdminGoes(a, IF op \in {"remove", "assign"} THEN "role"
                                ELSE IF op = "delete" /\ u \in ActiveHolders THEN "survivor"
                                ELSE "commit")
                /\ UNCHANGED orgLock
           ELSE EndRequest(a)
        /\ UNCHANGED <<users, holders, login, clock, unguarded, overwritten>>

(* The role's row is locked FOR UPDATE and the assignment read.  A removal *)
(* of a role that is not assigned returns early.                           *)
LockRole(a) ==
    LET u == admin[a].user IN
    /\ admin[a].stage = "role"
    /\ \A b \in Admin : ~HoldsRole(b)
    /\ IF admin[a].op = "remove" /\ u \notin holders
       THEN EndRequest(a)
       ELSE /\ AdminGoes(a, IF admin[a].op = "assign" THEN "insert"
                            ELSE IF u \in ActiveHolders THEN "survivor"
                            ELSE "commit")
            /\ UNCHANGED lockVars
    /\ UNCHANGED <<users, holders, login, clock, unguarded, overwritten>>

(* The survivor check of a role removal locks the organization row again;  *)
(* that of a deletion relies on its lock. *)
OrganizationMine(a) == admin[a].op = "remove" => orgLock \in {Nobody, a}

(* The other holders are read without locking their rows. *)
RequireSurvivor(a) ==
    /\ admin[a].stage = "survivor"
    /\ OrganizationMine(a)
    /\ IF ActiveHolders \ {admin[a].user} # {}
       THEN /\ AdminGoes(a, "commit")
            /\ orgLock' = IF admin[a].op = "remove" THEN a ELSE orgLock
            /\ UNCHANGED rowLock
       ELSE EndRequest(a)
    /\ UNCHANGED <<users, holders, login, clock, unguarded, overwritten>>

DeleteUser(a) ==
    /\ Commits(a) /\ admin[a].op = "delete"
    /\ SetStatus(admin[a].user, "gone")
    /\ holders' = holders \ {admin[a].user}
    /\ EndRequest(a)
    /\ UNCHANGED <<login, clock, unguarded, overwritten>>

RemoveRole(a) ==
    /\ Commits(a) /\ admin[a].op = "remove"
    /\ holders' = holders \ {admin[a].user}
    /\ EndRequest(a)
    /\ UNCHANGED <<users, login, clock, unguarded, overwritten>>

(* The assignment refers to its actor; one that is there already inserts   *)
(* nothing, and the request ends without an audit entry.                   *)
InsertAssignment(a) ==
    /\ admin[a].stage = "insert"
    /\ IF admin[a].user \in holders
       THEN EndRequest(a)
       ELSE /\ ReferenceHolders(a) = {} /\ ActorExists(a)
            /\ AdminGoes(a, "commit")
            /\ UNCHANGED lockVars
    /\ UNCHANGED <<users, holders, login, clock, unguarded, overwritten>>

AssignRole(a) ==
    /\ Commits(a) /\ admin[a].op = "assign"
    /\ holders' = holders \cup {admin[a].user}
    /\ EndRequest(a)
    /\ UNCHANGED <<users, login, clock, unguarded, overwritten>>

(* The single status change reads the row with a plain SELECT; the route   *)
(* protects the bootstrap administrator from deactivation.                 *)
ReadStatus(a, op, u) ==
    /\ admin[a] = NoRequest
    /\ op \in SingleOp
    /\ op = "deactivate" => u # Bootstrap
    /\ users[u].status = FromStatus(op)
    /\ admin' = [admin EXCEPT ![a] = Serving(op, "status", u)]
    /\ UNCHANGED <<users, holders, lockVars, login, clock, unguarded, overwritten>>

(* The UPDATE waits for the row lock and has no condition on the status. A *)
(* row that is gone makes it throw.                                        *)
UpdateStatus(a) ==
    LET u == admin[a].user IN
    /\ admin[a].stage = "status"
    /\ rowLock[u] = Nobody
    /\ IF Exists(u)
       THEN /\ rowLock' = [rowLock EXCEPT ![u] = a]
            /\ AdminGoes(a, "commit")
            /\ UNCHANGED orgLock
       ELSE EndRequest(a)
    /\ UNCHANGED <<users, holders, login, clock, unguarded, overwritten>>

(* A status change, single or bulk, commits.  The bootstrap administrator  *)
(* is not protected from the bulk one.                                     *)
WriteStatus(a) ==
    LET u == admin[a].user
        to == ToStatus(admin[a].op)
    IN  /\ Commits(a) /\ admin[a].op \in SingleOp \cup BulkOp
        /\ SetStatus(u, to)
        /\ IF to = "inactive" THEN TakesDown(u) ELSE UNCHANGED unguarded
        /\ overwritten' = IF users[u].status = "locked" THEN overwritten \cup {u} ELSE overwritten
        /\ EndRequest(a)
        /\ UNCHANGED <<holders, login, clock>>

(* A statement fails (its actor's row is gone, the connection is lost), or *)
(* the database ends a circle of waits: the transaction is rolled back.    *)
Fail(a) ==
    /\ admin[a].stage # "idle"
    /\ EndRequest(a)
    /\ UNCHANGED <<users, holders, login, clock, unguarded, overwritten>>

-----------------------------------------------------------------------------
(* Password logins.  An address without an account goes through the same   *)
(* statements with an identifier no row has, and changes nothing.          *)

LoginStage == {"idle", "unlock", "load", "verify"}

NoLogin == [stage |-> "idle", user |-> Nobody, cutoff |-> 0]

EndLogin(l) == login' = [login EXCEPT ![l] = NoLogin]

LoginOnly == UNCHANGED <<users, holders, lockVars, admin, clock, unguarded, overwritten>>

(* The account is found by address, and the cutoff of elapsed lockouts     *)
(* computed from this server's clock.                                      *)
FindCandidate(l, u) ==
    /\ login[l] = NoLogin
    /\ Exists(u)
    /\ login' = [login EXCEPT ![l] = [stage |-> "unlock", user |-> u, cutoff |-> clock - Cooldown]]
    /\ LoginOnly

(* Faulty variant: an automatic lock of any age. *)
LockOfAnyAge(u, cutoff) == users[u].status = "locked" /\ users[u].lockedAt # NotLocked

(* An automatic lock that began at or before the cutoff. *)
LockElapsed(u, cutoff) ==
    users[u].status = "locked" /\ users[u].lockedAt # NotLocked /\ users[u].lockedAt <= cutoff

UnlockElapsed(l) ==
    LET u == login[l].user IN
    /\ login[l].stage = "unlock"
    /\ rowLock[u] = Nobody
    /\ IF LockElapsed(u, login[l].cutoff)
       THEN /\ users' = [users EXCEPT ![u] = Cleared(@)]
            /\ overwritten' = overwritten \ {u}
       ELSE UNCHANGED <<users, overwritten>>
    /\ login' = [login EXCEPT ![l].stage = "load"]
    /\ UNCHANGED <<holders, lockVars, admin, clock, unguarded>>

(* The account is read again; only an active one is verified with its own  *)
(* password, the others end in a failure that counts for nobody.           *)
LoadEligible(l) ==
    /\ login[l].stage = "load"
    /\ IF users[login[l].user].status = "active"
       THEN login' = [login EXCEPT ![l].stage = "verify"]
       ELSE EndLogin(l)
    /\ LoginOnly

(* Faulty variant: the threshold is compared with the count before this    *)
(* failure, and exceeded.                                                  *)
FailedTooLate(row) ==
    IF row.failures > MaxFailed
    THEN [status |-> "locked", failures |-> MaxFailed, lockedAt |-> clock]
    ELSE [row EXCEPT !.failures = @ + 1]

(* A failure counts only for a row that is still active, and the one that  *)
(* reaches the threshold locks it.  Counts beyond the threshold, which a   *)
(* status change that wrote over a lockout makes possible, are not told    *)
(* apart.                                                                  *)
Failed(row) ==
    IF row.failures + 1 >= MaxFailed
    THEN [status |-> "locked", failures |-> MaxFailed, lockedAt |-> clock]
    ELSE [row EXCEPT !.failures = @ + 1]

RecordFailure(l) ==
    LET u == login[l].user IN
    /\ login[l].stage = "verify"
    /\ rowLock[u] = Nobody
    /\ IF users[u].status = "active"
       THEN /\ users' = [users EXCEPT ![u] = Failed(@)]
            /\ IF Failed(users[u]).status = "locked" THEN TakesDown(u) ELSE UNCHANGED unguarded
       ELSE UNCHANGED <<users, unguarded>>
    /\ EndLogin(l)
    /\ UNCHANGED <<holders, lockVars, admin, clock, overwritten>>

(* A success resets the count of whatever row is there by now. *)
RecordLogin(l) ==
    LET u == login[l].user IN
    /\ login[l].stage = "verify"
    /\ rowLock[u] = Nobody
    /\ users' = IF Exists(u) THEN [users EXCEPT ![u].failures = 0] ELSE users
    /\ EndLogin(l)
    /\ UNCHANGED <<holders, lockVars, admin, clock, unguarded, overwritten>>

TimePasses ==
    /\ clock < MaxTime
    /\ clock' = clock + 1
    /\ UNCHANGED <<users, holders, lockVars, admin, login, unguarded, overwritten>>

-----------------------------------------------------------------------------
(* An organization after bootstrap: somebody active holds the role.  An    *)
(* identifier may be one that was deleted before.                          *)
AccountsInit ==
    /\ users \in [User -> {[status |-> s, failures |-> 0, lockedAt |-> NotLocked] :
                             s \in {"active", "inactive", "gone"}}]
    /\ holders \in SUBSET {u \in User : Exists(u)}
    /\ ActiveHolders # {}
    /\ orgLock = Nobody
    /\ rowLock = [u \in User |-> Nobody]
    /\ admin = [a \in Admin |-> NoRequest]
    /\ login = [l \in Login |-> NoLogin]
    /\ clock = 0
    /\ unguarded = FALSE
    /\ overwritten = {}

AdminNext ==
    \/ \E a \in Admin, u \in User, op \in AdminOp :
        LockOrganization(a, op, u) \/ BeginTarget(a, op, u) \/ ReadStatus(a, op, u)
    \/ \E a \in Admin :
        \/ LockTarget(a) \/ LockRole(a) \/ RequireSurvivor(a) \/ InsertAssignment(a)
        \/ DeleteUser(a) \/ RemoveRole(a) \/ AssignRole(a)
        \/ UpdateStatus(a) \/ WriteStatus(a) \/ Fail(a)

LoginNext ==
    \/ \E l \in Login, u \in User : FindCandidate(l, u)
    \/ \E l \in Login : UnlockElapsed(l) \/ LoadEligible(l) \/ RecordFailure(l) \/ RecordLogin(l)

AccountsNext == AdminNext \/ LoginNext \/ TimePasses

AccountsSpec == AccountsInit /\ [][AccountsNext]_accountsVars

-----------------------------------------------------------------------------
(* Properties.                                                             *)

(* Every variable holds values of its kind. *)
AccountsTypeOK ==
    /\ users \in [User -> UserRow]
    /\ holders \subseteq User
    /\ orgLock \in Admin \cup {Nobody}
    /\ rowLock \in [User -> Admin \cup {Nobody}]
    /\ admin \in [Admin -> [op : AdminOp, stage : AdminStage, user : User \cup {Nobody}]]
    /\ login \in [Login -> [stage : LoginStage, user : User \cup {Nobody}, cutoff : Int]]
    /\ clock \in Nat
    /\ unguarded \in BOOLEAN
    /\ overwritten \subseteq User

(* Deletions and role removals, however they overlap with each other and   *)
(* with every other writer, never take the last active super-admin away.   *)
(* Only a writer that does not look for a survivor (deactivation, bulk     *)
(* change, lockout) can leave none.                                        *)
SurvivorRemains == ActiveHolders # {} \/ unguarded

(* An account that is active may fail at least once more before it is      *)
(* locked, and carries no trace of an earlier lock: concurrent failures,   *)
(* unlocks and successes keep status, count and lock in step.  Exempt is   *)
(* an account whose lockout a stale status change wrote over.              *)
ActiveAccountsHaveBudget ==
    \A u \in User \ overwritten :
        users[u].status = "active" => users[u].failures < MaxFailed /\ users[u].lockedAt = NotLocked

(* A lockout ends no earlier than the cooldown allows, unless an           *)
(* administrator's request ends with this very step.                       *)
LockoutLasts ==
    [][\A u \in User :
        (users[u].status = "locked" /\ users'[u].status = "active")
            => clock >= users[u].lockedAt + Cooldown \/ admin' # admin]_accountsVars

(* x waits for y to commit or roll back. *)
AdminAwaits(x, y) ==
    LET u == admin[x].user IN
    \/ admin[x].stage = "target" /\ y \in RowHolders(x, u)
    \/ admin[x].stage = "status" /\ rowLock[u] = y
    \/ admin[x].stage = "role" /\ HoldsRole(y)
    \/ admin[x].stage = "survivor" /\ ~OrganizationMine(x) /\ orgLock = y
    \/ admin[x].stage = "insert" /\ u \notin holders /\ y \in ReferenceHolders(x)
    \/ admin[x].stage = "commit" /\ y \in AuditHolders(x)

Guarded(a) == admin[a].op \in {"delete", "remove"}

(* How far a request is with the rows it locks. *)
LocksTaken(stage) ==
    CASE stage = "role" -> 1 [] stage \in {"survivor", "insert", "commit"} -> 2 [] OTHER -> 0

(* "User deletion uses the same organization-first order, preventing the   *)
(* two rare administrative operations from deadlocking each other"         *)
(* (techdocs/architecture/security.md:569): deletions and removals, once   *)
(* begun, never wait for one another.  Of all the others, a request waits  *)
(* for one that has come further with its locks, unless a reference makes  *)
(* it wait.  So every circle of waits goes through an audit entry or an    *)
(* assignment that refers to a row another request holds.  Such circles    *)
(* there are: a deletion that waits for its target, and the status change  *)
(* of that account that waits to refer to the organization.                *)
WaitsGoForward ==
    \A x, y \in Admin : AdminAwaits(x, y) =>
        /\ ~(Guarded(x) /\ Guarded(y))
        /\ \/ LocksTaken(admin[x].stage) < LocksTaken(admin[y].stage)
           \/ admin[x].stage \in {"insert", "commit"}
=============================================================================
