---------------------------- MODULE AccountsProofs ----------------------------
(***************************************************************************)
(* What holds of accounts, of the second factors they log in with and of   *)
(* the invitations they come from, for any number of accounts, requests,   *)
(* logins, configurations, codes, invitations and acceptances, and any     *)
(* limits.                                                                 *)
(*                                                                         *)
(* Each of the three modules has an inductive invariant of its own: the    *)
(* sections say what it rests on.                                          *)
(***************************************************************************)
EXTENDS UserAccounts, TwoFactor, Invitations, FiniteSetTheorems, TLAPS

(* UserAccounts: an active super-admin survives every deletion and role    *)
(* removal, an active account has failures left before it is locked, and a *)
(* lockout lasts as long as the cooldown.                                  *)
(*                                                                         *)
(* The survivor rests on the organization's row lock alone.  Whoever has   *)
(* passed its own check holds that lock until it commits, so no second     *)
(* request with the check can take down the holder the first one found;    *)
(* every other writer that could is one without the check.                 *)

(* A request between its begin and its commit: what it works on, that      *)
(* deletion and removal hold the organization row all the while, and which *)
(* requests the stages belong to.                                          *)
RequestInv ==
    \A a \in Admin :
        /\ admin[a].stage # "idle" => admin[a].user \in User
        /\ Guarded(a) /\ admin[a].stage # "idle" => orgLock = a
        /\ admin[a].stage = "survivor" => Guarded(a)
        /\ admin[a].stage = "role" => admin[a].op \in {"remove", "assign"}
        /\ admin[a].stage = "insert" => admin[a].op = "assign"
        /\ admin[a].stage = "status" => admin[a].op \in SingleOp

(* A login works on an account, with a cutoff that lies a cooldown back.   *)
LoginInv ==
    \A l \in Login :
        login[l].stage # "idle" =>
            login[l].user \in User /\ login[l].cutoff + Cooldown <= clock

(* What a deletion or removal knows between its check and its commit.      *)
CommitInv ==
    \A a \in Admin :
        Guarded(a) /\ admin[a].stage = "commit" =>
            ActiveHolders \ {admin[a].user} # {} \/ unguarded

(* An account that is not locked carries no trace of a lock and has        *)
(* failures left, also while it is inactive: activating it resets nothing. *)
BudgetInv ==
    \A u \in User \ overwritten :
        users[u].status \in {"active", "inactive"} =>
            users[u].failures < MaxFailed /\ users[u].lockedAt = NotLocked

AccountsInv ==
    /\ AccountsTypeOK
    /\ RequestInv
    /\ LoginInv
    /\ CommitInv
    /\ SurvivorRemains
    /\ BudgetInv

-----------------------------------------------------------------------------
(* Row locks.                                                              *)

(* The stages in which a request has its target locked.                    *)
Locked == {"role", "survivor", "insert", "commit"}

(* A request that has passed its target holds it, and nobody deletes it    *)
(* meanwhile; nobody else holds a row.                                     *)
TargetInv ==
    /\ \A a \in Admin :
        admin[a].stage \in Locked => rowLock[admin[a].user] = a /\ Exists(admin[a].user)
    /\ \A u \in User : rowLock[u] # Nobody => admin[rowLock[u]].stage \in Locked

-----------------------------------------------------------------------------
(* Types.                                                                  *)

LEMMA AccountsInitInv == AccountsInit => AccountsInv
<1> SUFFICES ASSUME AccountsInit PROVE AccountsInv
  OBVIOUS
<1> USE AccountsAssumption DEF AccountsInit, NoRequest, Serving, NoLogin
<1>1. users \in [User -> UserRow]
  BY DEF UserRow, NotLocked
<1>2. /\ admin \in [Admin -> [op : AdminOp, stage : AdminStage, user : User \cup {Nobody}]]
      /\ login \in [Login -> [stage : LoginStage, user : User \cup {Nobody}, cutoff : Int]]
  BY DEF AdminOp, AdminStage, LoginStage
<1>3. AccountsTypeOK
  BY <1>1, <1>2 DEF AccountsTypeOK
<1>4. RequestInv /\ LoginInv /\ CommitInv /\ SurvivorRemains
  BY DEF RequestInv, LoginInv, CommitInv, SurvivorRemains, Guarded
<1>5. BudgetInv
  BY DEF BudgetInv, NotLocked
<1>6. QED
  BY <1>3, <1>4, <1>5 DEF AccountsInv

(* Ending a request frees its locks and leaves the other requests alone.   *)
LEMMA EndedRequest ==
    ASSUME AccountsTypeOK, RequestInv, NEW a \in Admin, EndRequest(a)
    PROVE  /\ orgLock' \in Admin \cup {Nobody}
           /\ rowLock' \in [User -> Admin \cup {Nobody}]
           /\ admin' \in [Admin -> [op : AdminOp, stage : AdminStage, user : User \cup {Nobody}]]
           /\ admin'[a].stage = "idle"
           /\ \A b \in Admin \ {a} : admin'[b] = admin[b]
           /\ RequestInv'
<1> USE DEF AccountsTypeOK, EndRequest, NoRequest, Serving
<1>1. /\ orgLock' \in Admin \cup {Nobody}
      /\ rowLock' \in [User -> Admin \cup {Nobody}]
  OBVIOUS
<1>2. admin' \in [Admin -> [op : AdminOp, stage : AdminStage, user : User \cup {Nobody}]]
  BY DEF AdminOp, AdminStage
<1>3. /\ admin'[a].stage = "idle"
      /\ \A b \in Admin \ {a} : admin'[b] = admin[b]
  OBVIOUS
<1>4. RequestInv'
  <2>1. admin'[a].op = "none"
    OBVIOUS
  <2>2. ASSUME NEW b \in Admin \ {a} PROVE orgLock = b => orgLock' = b
    BY AccountsAssumption
  <2>3. QED
    BY <1>3, <2>1, <2>2 DEF RequestInv, Guarded
<1>5. QED
  BY <1>1, <1>2, <1>3, <1>4

-----------------------------------------------------------------------------
(* What a step leaves alone.                                               *)

LEMMA RequestFrame == RequestInv /\ UNCHANGED <<admin, orgLock>> => RequestInv'
  BY DEF RequestInv, Guarded

LEMMA LoginFrame == LoginInv /\ UNCHANGED <<login, clock>> => LoginInv'
  BY DEF LoginInv

LEMMA BudgetFrame == BudgetInv /\ UNCHANGED <<users, overwritten>> => BudgetInv'
  BY DEF BudgetInv

(* A step that takes no active holder down, or says that nobody looked for *)
(* a survivor, and lets no request into its commit, breaks no promise.     *)
LEMMA SurvivorFrame ==
    ASSUME CommitInv, SurvivorRemains,
           unguarded \in BOOLEAN, unguarded' \in BOOLEAN, unguarded => unguarded',
           ActiveHolders \subseteq ActiveHolders' \/ unguarded',
           \A a \in Admin : admin'[a].stage = "commit" => admin'[a] = admin[a]
    PROVE  CommitInv' /\ SurvivorRemains'
<1>1. CASE unguarded'
  BY <1>1 DEF CommitInv, SurvivorRemains
<1>2. CASE ~unguarded' /\ ActiveHolders \subseteq ActiveHolders'
  BY <1>2 DEF CommitInv, SurvivorRemains, Guarded
<1>3. QED
  BY <1>1, <1>2

(* Nobody is taken down where the rows keep their holders and status.      *)
LEMMA HoldersKept ==
    ASSUME AccountsTypeOK, users' \in [User -> UserRow], holders \subseteq holders',
           \A u \in User : users[u].status = "active" => users'[u].status = "active"
    PROVE  ActiveHolders \subseteq ActiveHolders'
  BY DEF ActiveHolders, AccountsTypeOK

(* A writer that takes one row down reports it.                            *)
LEMMA TakenDown ==
    ASSUME AccountsTypeOK, NEW u \in User, holders' = holders,
           \A v \in User \ {u} : users'[v] = users[v], TakesDown(u)
    PROVE  /\ unguarded' \in BOOLEAN
           /\ unguarded => unguarded'
           /\ ActiveHolders \subseteq ActiveHolders' \/ unguarded'
<1>1. /\ unguarded' \in BOOLEAN
      /\ unguarded => unguarded'
  BY DEF TakesDown, AccountsTypeOK
<1>2. CASE u \in ActiveHolders
  BY <1>1, <1>2 DEF TakesDown, AccountsTypeOK
<1>3. CASE u \notin ActiveHolders
  <2>1. ActiveHolders \subseteq ActiveHolders'
    BY <1>3 DEF ActiveHolders, AccountsTypeOK
  <2>2. QED
    BY <1>1, <2>1
<1>4. QED
  BY <1>1, <1>2, <1>3

-----------------------------------------------------------------------------
(* Steps of administrative requests.                                       *)

LEMMA RequestBegins ==
    ASSUME AccountsInv, NEW a \in Admin, NEW u \in User, NEW op \in AdminOp,
           LockOrganization(a, op, u) \/ BeginTarget(a, op, u) \/ ReadStatus(a, op, u)
    PROVE  AccountsInv'
<1> USE AccountsAssumption
<1>1. PICK stage \in {"target", "status"} :
        /\ admin' = [admin EXCEPT ![a] = Serving(op, stage, u)]
        /\ admin[a] = NoRequest
        /\ op \in {"delete", "remove"} => orgLock = Nobody /\ orgLock' = a
        /\ op \notin {"delete", "remove"} => orgLock' = orgLock
        /\ stage = "status" => op \in SingleOp
        /\ UNCHANGED <<users, holders, rowLock, login, clock, unguarded, overwritten>>
  BY DEF LockOrganization, BeginTarget, ReadStatus, lockVars, SingleOp, BulkOp
<1>2. admin' \in [Admin -> [op : AdminOp, stage : AdminStage, user : User \cup {Nobody}]]
  BY <1>1 DEF AccountsInv, AccountsTypeOK, AdminStage, Serving
<1>3. AccountsTypeOK'
  BY <1>1, <1>2 DEF AccountsInv, AccountsTypeOK
<1>4. RequestInv'
  <2>1. /\ admin'[a].op = op /\ admin'[a].stage = stage /\ admin'[a].user = u
        /\ \A b \in Admin \ {a} : admin'[b] = admin[b]
    BY <1>1 DEF AccountsInv, AccountsTypeOK, Serving
  <2>2. ASSUME NEW b \in Admin \ {a}, Guarded(b), admin[b].stage # "idle" PROVE orgLock' = b
    BY <1>1, <2>2 DEF AccountsInv, RequestInv
  <2>3. QED
    BY <1>1, <2>1, <2>2 DEF AccountsInv, RequestInv, Guarded
<1>5. \A b \in Admin : admin'[b].stage = "commit" => admin'[b] = admin[b]
  BY <1>1 DEF AccountsInv, AccountsTypeOK, Serving
<1>6. ActiveHolders \subseteq ActiveHolders'
  BY <1>1 DEF ActiveHolders
<1>7. CommitInv' /\ SurvivorRemains'
  BY <1>1, <1>5, <1>6, SurvivorFrame DEF AccountsInv, AccountsTypeOK
<1>8. QED
  BY <1>1, <1>3, <1>4, <1>7, LoginFrame, BudgetFrame DEF AccountsInv

(* A request that ends without having written anything.                    *)
LEMMA EndsStep ==
    ASSUME AccountsInv, NEW a \in Admin, EndRequest(a),
           UNCHANGED <<users, holders, login, clock, unguarded, overwritten>>
    PROVE  AccountsInv'
<1>1. AccountsTypeOK' /\ RequestInv'
  BY EndedRequest DEF AccountsInv, AccountsTypeOK
<1>2. CommitInv' /\ SurvivorRemains'
  BY EndedRequest DEF AccountsInv, CommitInv, SurvivorRemains, ActiveHolders, Guarded
<1>3. QED
  BY <1>1, <1>2, LoginFrame, BudgetFrame DEF AccountsInv

(* A request that goes on to a stage of its own, and to its commit only    *)
(* with what it has to know there.                                         *)
LEMMA GoesOnStep ==
    ASSUME AccountsInv, NEW a \in Admin, NEW stage \in {"role", "survivor", "insert", "commit"},
           AdminGoes(a, stage), admin[a].stage # "idle",
           orgLock' = orgLock, rowLock' \in [User -> Admin \cup {Nobody}],
           UNCHANGED <<users, holders, login, clock, unguarded, overwritten>>,
           stage = "survivor" => Guarded(a),
           stage = "role" => admin[a].op \in {"remove", "assign"},
           stage = "insert" => admin[a].op = "assign",
           stage = "commit" /\ Guarded(a) => ActiveHolders \ {admin[a].user} # {} \/ unguarded
    PROVE  AccountsInv'
<1>1. /\ admin' = [admin EXCEPT ![a].stage = stage]
      /\ admin'[a].stage = stage /\ admin'[a].op = admin[a].op /\ admin'[a].user = admin[a].user
      /\ \A b \in Admin \ {a} : admin'[b] = admin[b]
  BY DEF AdminGoes, AccountsInv, AccountsTypeOK
<1>2. admin' \in [Admin -> [op : AdminOp, stage : AdminStage, user : User \cup {Nobody}]]
  <2>1. stage \in AdminStage
    BY DEF AdminStage
  <2>2. QED
    BY <1>1, <2>1 DEF AccountsInv, AccountsTypeOK
<1>3. AccountsTypeOK'
  BY <1>2 DEF AccountsInv, AccountsTypeOK
<1>4. RequestInv'
  BY <1>1 DEF AccountsInv, RequestInv, Guarded
<1>5. CommitInv' /\ SurvivorRemains'
  BY <1>1 DEF AccountsInv, CommitInv, SurvivorRemains, ActiveHolders, Guarded
<1>6. QED
  BY <1>3, <1>4, <1>5, LoginFrame, BudgetFrame DEF AccountsInv

LEMMA LockTargetStep ==
    ASSUME AccountsInv, NEW a \in Admin, LockTarget(a)
    PROVE  AccountsInv'
<1> DEFINE u == admin[a].user
<1>1. UNCHANGED <<users, holders, login, clock, unguarded, overwritten>>
  BY DEF LockTarget
<1>2. CASE EndRequest(a)
  BY <1>1, <1>2, EndsStep
<1>3. CASE ~EndRequest(a)
  <2>1. PICK stage \in {"role", "survivor", "commit"} :
          /\ AdminGoes(a, stage)
          /\ stage = "role" => admin[a].op \in {"remove", "assign"}
          /\ stage = "survivor" => admin[a].op = "delete"
          /\ stage = "commit" => admin[a].op # "remove"
          /\ stage = "commit" /\ admin[a].op = "delete" => u \notin ActiveHolders
    BY <1>3 DEF LockTarget
  <2>2. orgLock' = orgLock /\ rowLock' \in [User -> Admin \cup {Nobody}]
    BY <1>3 DEF LockTarget, AccountsInv, AccountsTypeOK
  <2>3. stage = "commit" /\ Guarded(a) => ActiveHolders \ {u} # {} \/ unguarded
    BY <2>1 DEF Guarded, AccountsInv, SurvivorRemains
  <2>4. admin[a].stage # "idle"
    BY DEF LockTarget
  <2>5. QED
    BY <1>1, <2>1, <2>2, <2>3, <2>4, GoesOnStep DEF Guarded
<1>4. QED
  BY <1>2, <1>3

LEMMA LockRoleStep ==
    ASSUME AccountsInv, NEW a \in Admin, LockRole(a)
    PROVE  AccountsInv'
<1> DEFINE u == admin[a].user
<1>1. UNCHANGED <<users, holders, login, clock, unguarded, overwritten>>
  BY DEF LockRole
<1>2. CASE EndRequest(a)
  BY <1>1, <1>2, EndsStep
<1>3. CASE ~EndRequest(a)
  <2>1. admin[a].stage = "role" /\ admin[a].op \in {"remove", "assign"}
    BY DEF LockRole, AccountsInv, RequestInv
  <2>2. PICK stage \in {"survivor", "insert", "commit"} :
          /\ AdminGoes(a, stage)
          /\ stage = "insert" => admin[a].op = "assign"
          /\ stage # "insert" => admin[a].op # "assign"
          /\ stage = "commit" => u \notin ActiveHolders
    BY <1>3 DEF LockRole
  <2>3. orgLock' = orgLock /\ rowLock' \in [User -> Admin \cup {Nobody}]
    BY <1>3 DEF LockRole, lockVars, AccountsInv, AccountsTypeOK
  <2>4. stage = "commit" /\ Guarded(a) => ActiveHolders \ {u} # {} \/ unguarded
    BY <2>2 DEF AccountsInv, SurvivorRemains
  <2>5. QED
    BY <1>1, <2>1, <2>2, <2>3, <2>4, GoesOnStep DEF Guarded
<1>4. QED
  BY <1>2, <1>3

LEMMA RequireSurvivorStep ==
    ASSUME AccountsInv, NEW a \in Admin, RequireSurvivor(a)
    PROVE  AccountsInv'
<1>1. UNCHANGED <<users, holders, login, clock, unguarded, overwritten>>
  BY DEF RequireSurvivor
<1>2. CASE EndRequest(a)
  BY <1>1, <1>2, EndsStep
<1>3. CASE ~EndRequest(a)
  <2>1. admin[a].stage = "survivor" /\ orgLock = a
    BY DEF RequireSurvivor, AccountsInv, RequestInv
  <2>2. /\ AdminGoes(a, "commit")
        /\ orgLock' = orgLock /\ rowLock' \in [User -> Admin \cup {Nobody}]
        /\ ActiveHolders \ {admin[a].user} # {}
    BY <1>3, <2>1 DEF RequireSurvivor, AccountsInv, AccountsTypeOK
  <2>3. QED
    BY <1>1, <2>1, <2>2, GoesOnStep
<1>4. QED
  BY <1>2, <1>3

LEMMA InsertOrUpdateStep ==
    ASSUME AccountsInv, NEW a \in Admin, InsertAssignment(a) \/ UpdateStatus(a)
    PROVE  AccountsInv'
<1>1. UNCHANGED <<users, holders, login, clock, unguarded, overwritten>>
  BY DEF InsertAssignment, UpdateStatus
<1>2. CASE EndRequest(a)
  BY <1>1, <1>2, EndsStep
<1>3. CASE ~EndRequest(a)
  <2>1. admin[a].stage # "idle" /\ ~Guarded(a)
    BY DEF InsertAssignment, UpdateStatus, AccountsInv, RequestInv, Guarded, SingleOp
  <2>2. AdminGoes(a, "commit") /\ orgLock' = orgLock /\ rowLock' \in [User -> Admin \cup {Nobody}]
    BY <1>3 DEF InsertAssignment, UpdateStatus, lockVars, AccountsInv, AccountsTypeOK
  <2>3. QED
    BY <1>1, <2>1, <2>2, GoesOnStep
<1>4. QED
  BY <1>2, <1>3

(* The commit that takes a holder away: no other request is in its commit, *)
(* because this one holds the organization's lock.                         *)
LEMMA RemovalStep ==
    ASSUME AccountsInv, NEW a \in Admin, DeleteUser(a) \/ RemoveRole(a)
    PROVE  AccountsInv'
<1> DEFINE u == admin[a].user
<1>1. /\ admin[a].stage = "commit" /\ Guarded(a) /\ holders' = holders \ {u} /\ EndRequest(a)
      /\ users' = users \/ users' = [users EXCEPT ![u].status = "gone"]
      /\ UNCHANGED <<login, clock, unguarded, overwritten>>
  BY DEF DeleteUser, RemoveRole, SetStatus, Commits, Guarded
<1>2. u \in User /\ orgLock = a
  BY <1>1 DEF AccountsInv, RequestInv
<1>3. AccountsTypeOK' /\ RequestInv'
  <2>1. users' \in [User -> UserRow]
    BY <1>1, <1>2 DEF AccountsInv, AccountsTypeOK, UserRow
  <2>2. QED
    BY <1>1, <2>1, EndedRequest DEF AccountsInv, AccountsTypeOK
<1>4. \A b \in Admin : ~(Guarded(b)' /\ admin'[b].stage = "commit")
  BY <1>1, <1>2, EndedRequest DEF AccountsInv, RequestInv, Guarded
<1>5. ActiveHolders' = ActiveHolders \ {u}
  BY <1>1, <1>2 DEF AccountsInv, AccountsTypeOK, UserRow, ActiveHolders
<1>6. CommitInv' /\ SurvivorRemains'
  BY <1>1, <1>4, <1>5 DEF AccountsInv, CommitInv, SurvivorRemains
<1>7. BudgetInv'
  BY <1>1, <1>2 DEF AccountsInv, AccountsTypeOK, UserRow, BudgetInv
<1>8. QED
  BY <1>1, <1>3, <1>6, <1>7, LoginFrame DEF AccountsInv

(* The status change: a stale one may revive a locked account, which is    *)
(* then marked as overwritten; it may take a holder down, which it reports. *)
LEMMA WriteStatusStep ==
    ASSUME AccountsInv, NEW a \in Admin, WriteStatus(a), Exists(admin[a].user)
    PROVE  AccountsInv'
<1> DEFINE u == admin[a].user
           to == ToStatus(admin[a].op)
<1>1. /\ admin[a].stage = "commit" /\ EndRequest(a)
      /\ UNCHANGED <<holders, login, clock>>
  BY DEF WriteStatus, Commits
<1>2. u \in User
  BY <1>1 DEF AccountsInv, RequestInv
<1>3. /\ users' = [users EXCEPT ![u].status = to]
      /\ users[u].status # "gone"
      /\ overwritten' = IF users[u].status = "locked" THEN overwritten \cup {u} ELSE overwritten
      /\ (to = "active" /\ UNCHANGED unguarded) \/ TakesDown(u)
  BY <1>2 DEF WriteStatus, SetStatus, ToStatus, Exists
<1>4. to \in {"active", "inactive"}
  BY DEF ToStatus
<1>5. users' \in [User -> UserRow] /\ overwritten' \subseteq User
  BY <1>2, <1>3, <1>4 DEF AccountsInv, AccountsTypeOK, UserRow
<1>6. \A v \in User \ {u} : users'[v] = users[v]
  BY <1>3 DEF AccountsInv, AccountsTypeOK
<1>7. /\ unguarded' \in BOOLEAN
      /\ unguarded => unguarded'
      /\ ActiveHolders \subseteq ActiveHolders' \/ unguarded'
  <2>1. CASE TakesDown(u)
    BY <1>1, <1>2, <1>6, <2>1, TakenDown DEF AccountsInv
  <2>2. CASE UNCHANGED unguarded /\ to = "active"
    <3>1. \A v \in User : users[v].status = "active" => users'[v].status = "active"
      BY <1>2, <1>3, <1>6, <2>2 DEF AccountsInv, AccountsTypeOK, UserRow
    <3>2. ActiveHolders \subseteq ActiveHolders'
      BY <1>1, <1>5, <3>1, HoldersKept DEF AccountsInv
    <3>3. QED
      BY <2>2, <3>2 DEF AccountsInv, AccountsTypeOK
  <2>3. QED
    BY <1>3, <2>1, <2>2
<1>8. AccountsTypeOK' /\ RequestInv'
  BY <1>1, <1>5, <1>7, EndedRequest DEF AccountsInv, AccountsTypeOK
<1>9. CommitInv' /\ SurvivorRemains'
  <2>1. \A b \in Admin : admin'[b].stage = "commit" => admin'[b] = admin[b]
    BY <1>1, EndedRequest DEF AccountsInv
  <2>2. QED
    BY <1>7, <2>1, SurvivorFrame DEF AccountsInv, AccountsTypeOK
<1>10. BudgetInv'
  BY <1>2, <1>3, <1>4, <1>6 DEF AccountsInv, AccountsTypeOK, UserRow, BudgetInv
<1>11. QED
  BY <1>1, <1>8, <1>9, <1>10, LoginFrame DEF AccountsInv

LEMMA AssignRoleStep ==
    ASSUME AccountsInv, NEW a \in Admin, AssignRole(a)
    PROVE  AccountsInv'
<1>1. /\ holders' = holders \cup {admin[a].user} /\ EndRequest(a)
      /\ UNCHANGED <<users, login, clock, unguarded, overwritten>>
  BY DEF AssignRole
<1>2. admin[a].user \in User
  BY DEF AssignRole, Commits, AccountsInv, RequestInv
<1>3. AccountsTypeOK' /\ RequestInv'
  BY <1>1, <1>2, EndedRequest DEF AccountsInv, AccountsTypeOK
<1>4. ActiveHolders \subseteq ActiveHolders'
  BY <1>1 DEF ActiveHolders
<1>5. \A b \in Admin : admin'[b].stage = "commit" => admin'[b] = admin[b]
  BY <1>1, EndedRequest DEF AccountsInv
<1>6. CommitInv' /\ SurvivorRemains'
  BY <1>1, <1>4, <1>5, SurvivorFrame DEF AccountsInv, AccountsTypeOK
<1>7. QED
  BY <1>1, <1>3, <1>6, LoginFrame, BudgetFrame DEF AccountsInv

-----------------------------------------------------------------------------
(* Steps of logins, and time.                                              *)

LEMMA LoginStepTyped ==
    ASSUME AccountsInv, NEW l \in Login,
           \/ \E u \in User : FindCandidate(l, u)
           \/ UnlockElapsed(l) \/ LoadEligible(l) \/ RecordFailure(l) \/ RecordLogin(l)
    PROVE  /\ login' \in [Login -> [stage : LoginStage, user : User \cup {Nobody}, cutoff : Int]]
           /\ LoginInv'
           /\ UNCHANGED <<holders, lockVars, admin, clock>>
<1> USE AccountsAssumption
<1>0. UNCHANGED <<holders, lockVars, admin, clock>>
  BY DEF FindCandidate, UnlockElapsed, LoadEligible, RecordFailure, RecordLogin, LoginOnly
<1>1. CASE \E u \in User : FindCandidate(l, u)
  <2>1. PICK u \in User :
          login' = [login EXCEPT ![l] = [stage |-> "unlock", user |-> u, cutoff |-> clock - Cooldown]]
    BY <1>1 DEF FindCandidate
  <2>2. login' \in [Login -> [stage : LoginStage, user : User \cup {Nobody}, cutoff : Int]]
    BY <2>1 DEF AccountsInv, AccountsTypeOK, LoginStage
  <2>3. (clock - Cooldown) + Cooldown <= clock
    BY DEF AccountsInv, AccountsTypeOK
  <2>4. LoginInv'
    BY <1>0, <2>1, <2>3 DEF AccountsInv, AccountsTypeOK, LoginInv
  <2>5. QED
    BY <1>0, <2>2, <2>4
<1>2. CASE ~\E u \in User : FindCandidate(l, u)
  <2>1. PICK stage \in {"load", "verify"} :
            \/ login' = [login EXCEPT ![l].stage = stage] /\ login[l].stage # "idle"
            \/ login' = [login EXCEPT ![l] = NoLogin]
    BY <1>2 DEF UnlockElapsed, LoadEligible, RecordFailure, RecordLogin, EndLogin
  <2>2. login' \in [Login -> [stage : LoginStage, user : User \cup {Nobody}, cutoff : Int]]
    BY <2>1 DEF AccountsInv, AccountsTypeOK, LoginStage, NoLogin
  <2>3. LoginInv'
    BY <1>0, <2>1 DEF AccountsInv, AccountsTypeOK, LoginInv, NoLogin
  <2>4. QED
    BY <1>0, <2>2, <2>3
<1>3. QED
  BY <1>1, <1>2

(* The statements of a login that write no users row. *)
LEMMA LoginReadsStep ==
    ASSUME AccountsInv, NEW l \in Login,
           (\E u \in User : FindCandidate(l, u)) \/ LoadEligible(l)
    PROVE  AccountsInv'
<1>1. /\ UNCHANGED <<users, holders, lockVars, admin, clock, unguarded, overwritten>>
  BY DEF FindCandidate, LoadEligible, LoginOnly
<1>2. AccountsTypeOK' /\ LoginInv'
  BY <1>1, LoginStepTyped DEF AccountsInv, AccountsTypeOK, lockVars
<1>3. CommitInv' /\ SurvivorRemains'
  BY <1>1 DEF AccountsInv, CommitInv, SurvivorRemains, ActiveHolders, Guarded
<1>4. QED
  BY <1>1, <1>2, <1>3, RequestFrame, BudgetFrame DEF AccountsInv, lockVars

LEMMA UnlockElapsedStep ==
    ASSUME AccountsInv, NEW l \in Login, UnlockElapsed(l)
    PROVE  AccountsInv'
<1> DEFINE u == login[l].user
<1>0. UNCHANGED <<holders, lockVars, admin, clock, unguarded>>
  BY DEF UnlockElapsed
<1>1. u \in User
  BY DEF UnlockElapsed, AccountsInv, LoginInv
<1>2. \/ /\ users' = [users EXCEPT ![u] = Cleared(@)]
         /\ overwritten' = overwritten \ {u}
      \/ UNCHANGED <<users, overwritten>>
  BY DEF UnlockElapsed
<1>3. Cleared(users[u]) \in UserRow /\ Cleared(users[u]).status = "active"
      /\ Cleared(users[u]).failures < MaxFailed /\ Cleared(users[u]).lockedAt = NotLocked
  <2>1. users[u] \in UserRow
    BY <1>1 DEF AccountsInv, AccountsTypeOK
  <2>2. Cleared(users[u]) = [users[u] EXCEPT !.status = "active", !.failures = 0, !.lockedAt = -1]
    BY DEF Cleared, NotLocked
  <2>3. 0 < MaxFailed /\ 0 \in 0 .. MaxFailed /\ -1 \in Int
    BY AccountsAssumption
  <2>4. QED
    BY <2>1, <2>2, <2>3 DEF UserRow, NotLocked
<1>4. /\ users' \in [User -> UserRow] /\ overwritten' \subseteq User
      /\ \A v \in User : users[v].status = "active" => users'[v].status = "active"
  BY <1>1, <1>2, <1>3 DEF AccountsInv, AccountsTypeOK
<1>5. AccountsTypeOK' /\ LoginInv'
  BY <1>0, <1>4, LoginStepTyped DEF AccountsInv, AccountsTypeOK, lockVars
<1>6. ActiveHolders \subseteq ActiveHolders'
  BY <1>0, <1>4, HoldersKept DEF AccountsInv
<1>7. CommitInv' /\ SurvivorRemains'
  BY <1>0, <1>6, SurvivorFrame DEF AccountsInv, AccountsTypeOK
<1>8. BudgetInv'
  BY <1>1, <1>2, <1>3 DEF AccountsInv, AccountsTypeOK, BudgetInv
<1>9. QED
  BY <1>0, <1>5, <1>7, <1>8, RequestFrame DEF AccountsInv, lockVars

(* A failure locks the row or leaves it active with failures to spare.     *)
LEMMA FailedRow ==
    ASSUME NEW row \in UserRow, row.status = "active", clock \in Nat
    PROVE  /\ Failed(row) \in UserRow
           /\ Failed(row).status \in {"active", "locked"}
           /\ Failed(row).status = "active" =>
                 Failed(row).failures < MaxFailed /\ Failed(row).lockedAt = row.lockedAt
<1>1. CASE row.failures + 1 >= MaxFailed
  <2>1. Failed(row) = [status |-> "locked", failures |-> MaxFailed, lockedAt |-> clock]
    BY <1>1 DEF Failed
  <2>2. QED
    BY <2>1, AccountsAssumption DEF UserRow
<1>2. CASE ~(row.failures + 1 >= MaxFailed)
  <2>1. Failed(row) = [row EXCEPT !.failures = row.failures + 1]
    BY <1>2 DEF Failed
  <2>2. row.failures + 1 \in 0 .. MaxFailed /\ row.failures + 1 < MaxFailed
    BY <1>2, AccountsAssumption DEF UserRow
  <2>3. QED
    BY <2>1, <2>2 DEF UserRow
<1>3. QED
  BY <1>1, <1>2

LEMMA RecordFailureStep ==
    ASSUME AccountsInv, NEW l \in Login, RecordFailure(l)
    PROVE  AccountsInv'
<1> DEFINE u == login[l].user
<1>0. UNCHANGED <<holders, lockVars, admin, clock, overwritten>>
  BY DEF RecordFailure
<1>1. u \in User
  BY DEF RecordFailure, AccountsInv, LoginInv
<1>2. CASE users[u].status # "active"
  <2>1. UNCHANGED <<users, unguarded>>
    BY <1>2 DEF RecordFailure
  <2>2. AccountsTypeOK' /\ LoginInv'
    BY <1>0, <2>1, LoginStepTyped DEF AccountsInv, AccountsTypeOK, lockVars
  <2>3. CommitInv' /\ SurvivorRemains'
    BY <1>0, <2>1 DEF AccountsInv, CommitInv, SurvivorRemains, ActiveHolders, Guarded
  <2>4. QED
    BY <1>0, <2>1, <2>2, <2>3, RequestFrame, BudgetFrame DEF AccountsInv, lockVars
<1>3. CASE users[u].status = "active"
  <2>1. /\ users' = [users EXCEPT ![u] = Failed(users[u])]
        /\ IF Failed(users[u]).status = "locked" THEN TakesDown(u) ELSE UNCHANGED unguarded
    BY <1>3 DEF RecordFailure
  <2>2. /\ Failed(users[u]) \in UserRow
        /\ Failed(users[u]).status \in {"active", "locked"}
        /\ Failed(users[u]).status = "active" =>
              Failed(users[u]).failures < MaxFailed /\ Failed(users[u]).lockedAt = users[u].lockedAt
    BY <1>1, <1>3, FailedRow DEF AccountsInv, AccountsTypeOK
  <2>3. /\ users' \in [User -> UserRow]
        /\ users'[u] = Failed(users[u])
        /\ \A v \in User \ {u} : users'[v] = users[v]
    BY <1>1, <2>1, <2>2 DEF AccountsInv, AccountsTypeOK
  <2>4. /\ unguarded' \in BOOLEAN
        /\ unguarded => unguarded'
        /\ ActiveHolders \subseteq ActiveHolders' \/ unguarded'
    <3>1. CASE Failed(users[u]).status = "locked"
      BY <1>0, <1>1, <2>1, <2>3, <3>1, TakenDown DEF AccountsInv
    <3>2. CASE Failed(users[u]).status = "active"
      <4>1. UNCHANGED unguarded
        BY <2>1, <3>2
      <4>2. \A v \in User : users[v].status = "active" => users'[v].status = "active"
        BY <2>3, <3>2
      <4>3. ActiveHolders \subseteq ActiveHolders'
        BY <1>0, <2>3, <4>2, HoldersKept DEF AccountsInv
      <4>4. QED
        BY <4>1, <4>3 DEF AccountsInv, AccountsTypeOK
    <3>3. QED
      BY <2>2, <3>1, <3>2
  <2>5. AccountsTypeOK' /\ LoginInv'
    BY <1>0, <2>3, <2>4, LoginStepTyped DEF AccountsInv, AccountsTypeOK, lockVars
  <2>6. CommitInv' /\ SurvivorRemains'
    BY <1>0, <2>4, SurvivorFrame DEF AccountsInv, AccountsTypeOK
  <2>7. BudgetInv'
    BY <1>0, <1>3, <2>2, <2>3 DEF AccountsInv, BudgetInv
  <2>8. QED
    BY <1>0, <2>5, <2>6, <2>7, RequestFrame DEF AccountsInv, lockVars
<1>4. QED
  BY <1>2, <1>3

LEMMA RecordLoginStep ==
    ASSUME AccountsInv, NEW l \in Login, RecordLogin(l)
    PROVE  AccountsInv'
<1> DEFINE u == login[l].user
<1>0. UNCHANGED <<holders, lockVars, admin, clock, unguarded, overwritten>>
  BY DEF RecordLogin
<1>1. u \in User
  BY DEF RecordLogin, AccountsInv, LoginInv
<1>2. users' = users \/ users' = [users EXCEPT ![u].failures = 0]
  BY DEF RecordLogin
<1>3. /\ users' \in [User -> UserRow]
      /\ \A v \in User : users'[v].status = users[v].status
      /\ \A v \in User : users'[v].lockedAt = users[v].lockedAt
      /\ \A v \in User : users'[v].failures \in {0, users[v].failures}
  <2>1. 0 \in 0 .. MaxFailed
    BY AccountsAssumption
  <2>2. CASE users' = users
    BY <2>2 DEF AccountsInv, AccountsTypeOK
  <2>3. CASE users' = [users EXCEPT ![u].failures = 0]
    BY <1>1, <2>1, <2>3 DEF AccountsInv, AccountsTypeOK, UserRow
  <2>4. QED
    BY <1>2, <2>2, <2>3
<1>4. AccountsTypeOK' /\ LoginInv'
  BY <1>0, <1>3, LoginStepTyped DEF AccountsInv, AccountsTypeOK, lockVars
<1>5. ActiveHolders \subseteq ActiveHolders'
  BY <1>0, <1>3, HoldersKept DEF AccountsInv
<1>6. CommitInv' /\ SurvivorRemains'
  BY <1>0, <1>5, SurvivorFrame DEF AccountsInv, AccountsTypeOK
<1>7. BudgetInv'
  BY <1>0, <1>3, AccountsAssumption DEF AccountsInv, BudgetInv
<1>8. QED
  BY <1>0, <1>4, <1>6, <1>7, RequestFrame DEF AccountsInv, lockVars

LEMMA TimePassesStep ==
    ASSUME AccountsInv, TimePasses
    PROVE  AccountsInv'
<1> USE DEF TimePasses, lockVars
<1>1. AccountsTypeOK'
  BY DEF AccountsInv, AccountsTypeOK
<1>2. LoginInv'
  BY AccountsAssumption DEF AccountsInv, AccountsTypeOK, LoginInv
<1>3. CommitInv' /\ SurvivorRemains'
  BY DEF AccountsInv, CommitInv, SurvivorRemains, ActiveHolders, Guarded
<1>4. QED
  BY <1>1, <1>2, <1>3, RequestFrame, BudgetFrame DEF AccountsInv

-----------------------------------------------------------------------------
(* What keeps a target in place while its request works on it.             *)

LEMMA TargetInit == AccountsInit => TargetInv
  BY DEF AccountsInit, TargetInv, Locked, NoRequest, Serving

(* A request that ends gives back its own rows only, and may have deleted  *)
(* its own target.                                                         *)
LEMMA TargetEnds ==
    ASSUME AccountsInv, TargetInv, NEW a \in Admin, EndRequest(a),
           \A v \in User : Exists(v) => Exists(v)' \/ rowLock[v] = a
    PROVE  TargetInv'
<1>1. /\ admin'[a].stage = "idle"
      /\ \A b \in Admin \ {a} : admin'[b] = admin[b]
      /\ rowLock' = [u \in User |-> IF rowLock[u] = a THEN Nobody ELSE rowLock[u]]
  BY EndedRequest DEF AccountsInv, EndRequest
<1>2. ASSUME NEW b \in Admin, admin'[b].stage \in Locked
      PROVE  rowLock'[admin'[b].user] = b /\ users'[admin'[b].user].status # "gone"
  <2>1. b # a /\ admin'[b] = admin[b]
    BY <1>1, <1>2 DEF Locked
  <2>2. admin[b].user \in User /\ rowLock[admin[b].user] = b /\ Exists(admin[b].user)
    BY <1>2, <2>1 DEF TargetInv, AccountsInv, RequestInv, Locked
  <2>3. users'[admin[b].user].status # "gone"
    BY <2>1, <2>2 DEF Exists
  <2>4. QED
    BY <1>1, <2>1, <2>2, <2>3 DEF Exists
<1>3. ASSUME NEW u \in User, rowLock'[u] # Nobody PROVE admin'[rowLock'[u]].stage \in Locked
  <2>1. rowLock[u] # a /\ rowLock'[u] = rowLock[u] /\ rowLock[u] \in Admin
    BY <1>1, <1>3 DEF AccountsInv, AccountsTypeOK
  <2>2. QED
    BY <1>1, <1>3, <2>1 DEF TargetInv
<1>4. QED
  BY <1>2, <1>3 DEF TargetInv, Exists

(* A request that goes on from its target keeps it.                        *)
LEMMA TargetKept ==
    ASSUME AccountsInv, TargetInv, NEW a \in Admin, NEW stage \in Locked,
           AdminGoes(a, stage), users' = users,
           \/ admin[a].stage \in Locked /\ rowLock' = rowLock
           \/ /\ admin[a].stage \in {"target", "status"}
              /\ Exists(admin[a].user)
              /\ rowLock[admin[a].user] \in {Nobody, a}
              /\ rowLock' = [rowLock EXCEPT ![admin[a].user] = a]
    PROVE  TargetInv'
<1>1. /\ admin'[a].stage = stage /\ admin'[a].user = admin[a].user /\ admin[a].user \in User
      /\ \A b \in Admin \ {a} : admin'[b] = admin[b]
  BY DEF AdminGoes, AccountsInv, AccountsTypeOK, RequestInv, Locked
<1>2. \A v \in User : Exists(v)' = Exists(v)
  BY DEF Exists
<1>3. rowLock'[admin[a].user] = a /\ Exists(admin[a].user)
  <2>1. CASE admin[a].stage \in Locked /\ rowLock' = rowLock
    BY <2>1 DEF TargetInv
  <2>2. CASE Exists(admin[a].user) /\ rowLock' = [rowLock EXCEPT ![admin[a].user] = a]
    BY <1>1, <2>2 DEF AccountsInv, AccountsTypeOK
  <2>3. QED
    BY <2>1, <2>2
<1>4. \A v \in User : rowLock'[v] = rowLock[v] \/ (rowLock[v] \in {Nobody, a} /\ rowLock'[v] = a)
  <2>1. CASE rowLock' = rowLock
    BY <2>1
  <2>2. CASE /\ rowLock[admin[a].user] \in {Nobody, a}
             /\ rowLock' = [rowLock EXCEPT ![admin[a].user] = a]
    BY <1>1, <2>2 DEF AccountsInv, AccountsTypeOK
  <2>3. QED
    BY <2>1, <2>2
<1>5. ASSUME NEW b \in Admin, admin'[b].stage \in Locked
      PROVE  rowLock'[admin'[b].user] = b /\ users'[admin'[b].user].status # "gone"
  <2>1. CASE b = a
    BY <1>1, <1>3, <2>1 DEF Exists
  <2>2. CASE b # a
    <3>1. admin[b].user \in User /\ rowLock[admin[b].user] = b /\ Exists(admin[b].user)
      BY <1>1, <1>5, <2>2 DEF TargetInv, AccountsInv, RequestInv, Locked
    <3>2. rowLock'[admin[b].user] = b
      BY <1>4, <2>2, <3>1, AccountsAssumption
    <3>3. QED
      BY <1>1, <2>2, <3>1, <3>2 DEF Exists
  <2>3. QED
    BY <2>1, <2>2
<1>6. ASSUME NEW v \in User, rowLock'[v] # Nobody PROVE admin'[rowLock'[v]].stage \in Locked
  <2>1. CASE rowLock'[v] = a
    BY <1>1, <2>1
  <2>2. CASE rowLock'[v] # a
    <3>1. rowLock'[v] = rowLock[v] /\ rowLock[v] \in Admin
      BY <1>4, <1>6, <2>2 DEF AccountsInv, AccountsTypeOK
    <3>2. QED
      BY <1>1, <1>6, <2>2, <3>1 DEF TargetInv
  <2>3. QED
    BY <2>1, <2>2
<1>7. QED
  BY <1>5, <1>6 DEF TargetInv, Exists

LEMMA TargetAdminStep ==
    ASSUME AccountsInv, TargetInv, AdminNext
    PROVE  TargetInv'
<1>1. ASSUME NEW a \in Admin, NEW u \in User, NEW op \in AdminOp,
             LockOrganization(a, op, u) \/ BeginTarget(a, op, u) \/ ReadStatus(a, op, u)
      PROVE  TargetInv'
  <2>1. /\ UNCHANGED <<users, rowLock>>
        /\ admin[a].stage = "idle" /\ admin'[a].stage \in {"target", "status"}
        /\ \A b \in Admin \ {a} : admin'[b] = admin[b]
    BY <1>1 DEF LockOrganization, BeginTarget, ReadStatus, NoRequest, Serving, lockVars,
       AccountsInv, AccountsTypeOK
  <2>2. QED
    BY <2>1 DEF TargetInv, Locked, Exists, AccountsInv, AccountsTypeOK
<1>2. ASSUME NEW a \in Admin, EndRequest(a), users' = users PROVE TargetInv'
  BY <1>2, TargetEnds DEF Exists
<1>3. ASSUME NEW a \in Admin, LockTarget(a), ~EndRequest(a) PROVE TargetInv'
  <2>1. PICK stage \in Locked : AdminGoes(a, stage)
    BY <1>3 DEF LockTarget, Locked
  <2>2. rowLock[admin[a].user] \in {Nobody, a}
    BY <1>3 DEF LockTarget, RowHolders, AccountsInv, AccountsTypeOK, RequestInv
  <2>3. users' = users /\ admin[a].stage = "target"
    BY <1>3 DEF LockTarget
  <2>4. Exists(admin[a].user)
    <3>1. Admissible(admin[a].op, admin[a].user)
      BY <1>3 DEF LockTarget
    <3>2. QED
      BY <3>1 DEF Admissible
  <2>5. rowLock' = [rowLock EXCEPT ![admin[a].user] = a]
    BY <1>3 DEF LockTarget
  <2>6. QED
    BY <2>1, <2>2, <2>3, <2>4, <2>5, TargetKept
<1>4. ASSUME NEW a \in Admin, UpdateStatus(a), ~EndRequest(a) PROVE TargetInv'
  BY <1>4, TargetKept DEF UpdateStatus, Locked
<1>5. ASSUME NEW a \in Admin, LockRole(a), ~EndRequest(a) PROVE TargetInv'
  <2>1. PICK stage \in Locked : AdminGoes(a, stage)
    BY <1>5 DEF LockRole, Locked
  <2>2. QED
    BY <1>5, <2>1, TargetKept DEF LockRole, lockVars, Locked
<1>6. ASSUME NEW a \in Admin, RequireSurvivor(a) \/ InsertAssignment(a), ~EndRequest(a)
      PROVE  TargetInv'
  BY <1>6, TargetKept DEF RequireSurvivor, InsertAssignment, lockVars, Locked
<1>7. ASSUME NEW a \in Admin, DeleteUser(a) \/ WriteStatus(a) PROVE TargetInv'
  <2>1. /\ EndRequest(a) /\ admin[a].stage = "commit"
        /\ \E status \in {"gone", "active", "inactive"} : SetStatus(admin[a].user, status)
    BY <1>7 DEF DeleteUser, WriteStatus, Commits, ToStatus
  <2>2. rowLock[admin[a].user] = a
    BY <2>1 DEF TargetInv, Locked
  <2>3. \A v \in User : v = admin[a].user \/ users'[v] = users[v]
    BY <2>1 DEF SetStatus, AccountsInv, AccountsTypeOK
  <2>4. QED
    BY <2>1, <2>2, <2>3, TargetEnds DEF Exists
<1>8. QED
  BY <1>1, <1>2, <1>3, <1>4, <1>5, <1>6, <1>7
  DEF AdminNext, LockTarget, LockRole, RequireSurvivor, InsertAssignment, UpdateStatus,
      RemoveRole, AssignRole, Fail

LEMMA TargetStep ==
    ASSUME AccountsInv, TargetInv, [AccountsNext]_accountsVars
    PROVE  TargetInv'
<1>1. ASSUME UNCHANGED <<rowLock, admin>>, \A v \in User : Exists(v) => Exists(v)'
      PROVE  TargetInv'
  <2>1. ASSUME NEW a \in Admin, admin[a].stage \in Locked PROVE users'[admin[a].user].status # "gone"
    <3>1. admin[a].user \in User /\ Exists(admin[a].user)
      BY <2>1 DEF TargetInv, AccountsInv, RequestInv, Locked
    <3>2. QED
      BY <1>1, <3>1 DEF Exists
  <2>2. QED
    BY <1>1, <2>1 DEF TargetInv, Exists
<1>2. CASE LoginNext
  <2>1. ASSUME NEW l \in Login, UnlockElapsed(l) PROVE \A v \in User : Exists(v) => Exists(v)'
    <3>1. users' = users \/ users' = [users EXCEPT ![login[l].user] = Cleared(@)]
      BY <2>1 DEF UnlockElapsed
    <3>2. \A row \in UserRow : Cleared(row).status = "active"
      BY DEF Cleared, UserRow
    <3>3. QED
      BY <3>1, <3>2 DEF Exists, AccountsInv, AccountsTypeOK
  <2>2. ASSUME NEW l \in Login, RecordFailure(l) PROVE \A v \in User : Exists(v) => Exists(v)'
    <3> DEFINE w == login[l].user
    <3>1. \/ users' = users
          \/ users[w].status = "active" /\ users' = [users EXCEPT ![w] = Failed(@)]
      BY <2>2 DEF RecordFailure
    <3>2. ASSUME w \in User, users[w].status = "active" PROVE Failed(users[w]).status # "gone"
      BY <3>2, FailedRow DEF AccountsInv, AccountsTypeOK
    <3>3. QED
      BY <3>1, <3>2 DEF Exists, AccountsInv, AccountsTypeOK
  <2>3. ASSUME NEW l \in Login, RecordLogin(l) PROVE \A v \in User : Exists(v) => Exists(v)'
    BY <2>3 DEF RecordLogin, Exists, AccountsInv, AccountsTypeOK, UserRow
  <2>4. ASSUME NEW l \in Login, LoadEligible(l) \/ \E u \in User : FindCandidate(l, u)
        PROVE  \A v \in User : Exists(v) => Exists(v)'
    BY <2>4 DEF LoadEligible, FindCandidate, LoginOnly, Exists
  <2>5. UNCHANGED <<rowLock, admin>>
    BY <1>2 DEF LoginNext, FindCandidate, UnlockElapsed, LoadEligible, RecordFailure,
       RecordLogin, LoginOnly, lockVars
  <2>6. QED
    BY <1>1, <1>2, <2>1, <2>2, <2>3, <2>4, <2>5 DEF LoginNext
<1>3. CASE TimePasses \/ UNCHANGED accountsVars
  BY <1>1, <1>3 DEF TimePasses, accountsVars, lockVars, Exists
<1>4. QED
  BY <1>2, <1>3, TargetAdminStep DEF AccountsNext

-----------------------------------------------------------------------------
LEMMA AccountsStep == AccountsInv /\ TargetInv /\ [AccountsNext]_accountsVars => AccountsInv'
<1> SUFFICES ASSUME AccountsInv, TargetInv, [AccountsNext]_accountsVars PROVE AccountsInv'
  OBVIOUS
<1>1. ASSUME NEW a \in Admin, WriteStatus(a) PROVE AccountsInv'
  <2>1. Exists(admin[a].user)
    BY <1>1 DEF WriteStatus, Commits, TargetInv, Locked
  <2>2. QED
    BY <1>1, <2>1, WriteStatusStep
<1>2. ASSUME NEW a \in Admin, Fail(a) PROVE AccountsInv'
  BY <1>2, EndsStep DEF Fail
<1>3. CASE AdminNext
  BY <1>1, <1>2, <1>3, RequestBegins, LockTargetStep, LockRoleStep, RequireSurvivorStep,
     InsertOrUpdateStep, RemovalStep, AssignRoleStep DEF AdminNext
<1>4. CASE LoginNext
  BY <1>4, LoginReadsStep, UnlockElapsedStep, RecordFailureStep, RecordLoginStep
  DEF LoginNext
<1>5. CASE TimePasses
  BY <1>5, TimePassesStep
<1>6. CASE UNCHANGED accountsVars
  <2>1. AccountsTypeOK' /\ CommitInv' /\ SurvivorRemains'
    BY <1>6 DEF accountsVars, lockVars, AccountsInv, AccountsTypeOK, CommitInv,
       SurvivorRemains, ActiveHolders, Guarded
  <2>2. QED
    BY <1>6, <2>1, RequestFrame, LoginFrame, BudgetFrame
    DEF accountsVars, lockVars, AccountsInv
<1>7. QED
  BY <1>3, <1>4, <1>5, <1>6 DEF AccountsNext

LEMMA AccountsInvariant == AccountsSpec => [](AccountsInv /\ TargetInv)
<1>1. AccountsInit => AccountsInv /\ TargetInv
  BY AccountsInitInv, TargetInit
<1>2. AccountsInv /\ TargetInv /\ [AccountsNext]_accountsVars => AccountsInv' /\ TargetInv'
  BY AccountsStep, TargetStep
<1>3. QED
  BY <1>1, <1>2, PTL DEF AccountsSpec

(* The users rows, the locks, the requests and the logins keep their       *)
(* types, whatever the code's interleavings.                               *)
THEOREM AccountsTypeCorrect == AccountsSpec => []AccountsTypeOK
  BY AccountsInvariant, PTL DEF AccountsInv

(* Deletions and role removals never take the last active super-admin      *)
(* away, for any number of accounts and of requests.                       *)
THEOREM SurvivorRemainsHolds == AccountsSpec => []SurvivorRemains
  BY AccountsInvariant, PTL DEF AccountsInv

(* Whatever failures, successes, unlocks and status changes overlap, an    *)
(* active account has failures left and carries no trace of a lock.        *)
THEOREM ActiveAccountsHaveBudgetHolds == AccountsSpec => []ActiveAccountsHaveBudget
<1>1. AccountsInv => ActiveAccountsHaveBudget
  BY DEF AccountsInv, BudgetInv, ActiveAccountsHaveBudget
<1>2. QED
  BY <1>1, AccountsInvariant, PTL

-----------------------------------------------------------------------------
(* Who waits for whom.                                                     *)

(* Deletions and role removals never wait for one another, because only    *)
(* one of them at a time has got past its first lock; any other request    *)
(* waits for one that has come further with its locks, or else at a        *)
(* reference (users/repository.ts:796-880, rbac/user-role-service.ts:98,   *)
(* rbac/mapping-repository.ts:351, lib/bulk-operations.ts:224, and the     *)
(* foreign keys of migrations/009_audit_log.sql:7).                        *)
THEOREM WaitsGoForwardHolds == AccountsSpec => []WaitsGoForward
<1>1. AccountsInv /\ TargetInv => WaitsGoForward
  <2> SUFFICES ASSUME AccountsInv, TargetInv, NEW x \in Admin, NEW y \in Admin, AdminAwaits(x, y)
               PROVE  /\ ~(Guarded(x) /\ Guarded(y))
                      /\ \/ LocksTaken(admin[x].stage) < LocksTaken(admin[y].stage)
                         \/ admin[x].stage \in {"insert", "commit"}
    BY DEF WaitsGoForward
  <2> USE AccountsAssumption
  <2>1. /\ admin[x].stage \in {"target", "status", "role", "survivor", "insert", "commit"}
        /\ admin[x].user \in User
    BY DEF AdminAwaits, AccountsInv, RequestInv
  <2>2. admin[x].stage # "survivor"
    BY DEF AdminAwaits, AccountsInv, RequestInv, OrganizationMine, Guarded
  <2>3. ASSUME NEW u \in User, rowLock[u] = y PROVE admin[y].stage \in Locked
    BY <2>3 DEF TargetInv
  <2>4. CASE admin[x].stage = "target"
    <3>1. x # y /\ admin[y].stage \in Locked
      BY <2>1, <2>3, <2>4 DEF AdminAwaits, RowHolders, SharesRow, Locked
    <3>2. ~(Guarded(x) /\ Guarded(y))
      BY <2>4, <3>1 DEF AccountsInv, RequestInv, Locked
    <3>3. QED
      BY <2>4, <3>1, <3>2 DEF LocksTaken, Locked
  <2>5. CASE admin[x].stage = "status"
    <3>1. admin[y].stage \in Locked /\ ~Guarded(x)
      BY <2>1, <2>3, <2>5 DEF AdminAwaits, AccountsInv, RequestInv, SingleOp, Guarded
    <3>2. QED
      BY <2>5, <3>1 DEF LocksTaken, Locked
  <2>6. CASE admin[x].stage = "role"
    <3>1. admin[y].stage \in {"survivor", "insert", "commit"}
      BY <2>6 DEF AdminAwaits, HoldsRole
    <3>2. ~(Guarded(x) /\ Guarded(y))
      BY <2>6, <3>1 DEF AccountsInv, RequestInv
    <3>3. QED
      BY <2>6, <3>1, <3>2 DEF LocksTaken
  <2>7. CASE admin[x].stage \in {"insert", "commit"}
    <3>1. /\ x # y
          /\ orgLock = y \/ \E u \in User : rowLock[u] = y
      BY <2>7 DEF AdminAwaits, AuditHolders, ReferenceHolders
    <3>2. ASSUME Guarded(x), Guarded(y) PROVE FALSE
      <4>1. orgLock = x
        BY <2>7, <3>2 DEF AccountsInv, RequestInv
      <4>2. admin[y].stage \in Locked
        BY <2>3, <3>1, <4>1
      <4>3. orgLock = y
        BY <3>2, <4>2 DEF AccountsInv, RequestInv, Locked
      <4>4. QED
        BY <3>1, <4>1, <4>3
    <3>3. QED
      BY <2>7, <3>2
  <2>8. QED
    BY <2>1, <2>2, <2>4, <2>5, <2>6, <2>7
<1>2. QED
  BY <1>1, AccountsInvariant, PTL

-----------------------------------------------------------------------------
(* Only an unlock whose cutoff the lock precedes, or an administrator's    *)
(* request that ends in this step, makes a locked account active.          *)
LEMMA UnlocksInTime ==
    ASSUME AccountsInv, AccountsNext, NEW u \in User,
           users[u].status = "locked", users'[u].status = "active"
    PROVE  clock >= users[u].lockedAt + Cooldown \/ admin' # admin
<1>1. ASSUME users' = users PROVE FALSE
  BY <1>1
<1>2. ASSUME NEW a \in Admin, DeleteUser(a) \/ WriteStatus(a) PROVE admin' # admin
  <2>1. admin[a].stage # "idle" /\ EndRequest(a)
    BY <1>2 DEF DeleteUser, WriteStatus, Commits
  <2>2. admin'[a].stage = "idle"
    BY <2>1, EndedRequest DEF AccountsInv
  <2>3. QED
    BY <2>1, <2>2
<1>3. ASSUME NEW l \in Login, UnlockElapsed(l)
      PROVE  clock >= users[u].lockedAt + Cooldown
  <2>1. LockElapsed(u, login[l].cutoff)
    BY <1>3 DEF UnlockElapsed, AccountsInv, AccountsTypeOK
  <2>2. login[l].cutoff + Cooldown <= clock
    BY <1>3 DEF UnlockElapsed, AccountsInv, LoginInv
  <2>3. QED
    BY <2>1, <2>2, AccountsAssumption
    DEF LockElapsed, AccountsInv, AccountsTypeOK, UserRow
<1>4. ASSUME NEW l \in Login, RecordFailure(l) \/ RecordLogin(l) PROVE FALSE
  <2> DEFINE w == login[l].user
  <2>1. \/ users' = users
        \/ users' = [users EXCEPT ![w].failures = 0]
        \/ users[w].status = "active" /\ users' = [users EXCEPT ![w] = Failed(@)]
    BY <1>4 DEF RecordFailure, RecordLogin
  <2>2. QED
    BY <2>1 DEF AccountsInv, AccountsTypeOK, UserRow
<1>5. QED
  BY <1>1, <1>2, <1>3, <1>4
  DEF AccountsNext, AdminNext, LoginNext, LockOrganization, BeginTarget, ReadStatus, LockTarget,
      LockRole, RequireSurvivor, InsertAssignment, RemoveRole, AssignRole, UpdateStatus, Fail,
      FindCandidate, LoadEligible, LoginOnly, TimePasses

(* A lockout ends no earlier than the cooldown allows, unless an           *)
(* administrator's request ends with the very step that ends it.           *)
THEOREM LockoutLastsHolds == AccountsSpec => LockoutLasts
<1>1. AccountsInv /\ [AccountsNext]_accountsVars =>
        [\A u \in User :
            (users[u].status = "locked" /\ users'[u].status = "active")
                => clock >= users[u].lockedAt + Cooldown \/ admin' # admin]_accountsVars
  BY UnlocksInTime
<1>2. QED
  BY <1>1, AccountsInvariant, PTL DEF AccountsSpec, LockoutLasts

-----------------------------------------------------------------------------
(* Two-factor authentication.                                              *)
(*                                                                         *)
(* A code that was accepted belongs to a configuration that is gone, or to *)
(* the present one, verified and with its last step at or beyond the       *)
(* code's.  Both conditional updates ask for the opposite.                 *)

RequestType ==
    [op : Op, stage : Stage, config : Config \cup {NoConfig},
     matched : Step \cup {-1}, code : Recovery \cup Otp \cup {NoCode}]

(* What a check carries from the comparison to the update.                 *)
Carries(r) ==
    /\ r.stage \in {"consume", "confirm"} => r.config \in Config /\ r.matched \in Step
    /\ r.stage = "redeem" => r.code \in Recovery
    /\ r.stage = "spend" => r.code \in Otp

SpentCodes ==
    \A c \in Config, s \in Step :
        accepted[c][s] # 0 =>
            /\ accepted[c][s] = 1
            /\ c \in proven
            /\ totp.id = c => totp.verified /\ s <= totp.last

TwoFactorInv ==
    /\ TwoFactorTypeOK
    /\ \A q \in Request : Carries(request[q])
    /\ SpentCodes
    /\ VerifiedByOwnCode

-----------------------------------------------------------------------------
LEMMA TwoFactorInitInv == TwoFactorInit => TwoFactorInv
<1> SUFFICES ASSUME TwoFactorInit PROVE TwoFactorInv
  OBVIOUS
<1> USE TwoFactorAssumption DEF TwoFactorInit, NotConfigured, NoRequest2FA
<1>1. TwoFactorTypeOK
  BY DEF TwoFactorTypeOK, Op, Stage, Step
<1>2. (\A q \in Request : Carries(request[q])) /\ SpentCodes /\ VerifiedByOwnCode
  BY DEF Carries, SpentCodes, VerifiedByOwnCode
<1>3. QED
  BY <1>1, <1>2 DEF TwoFactorInv

-----------------------------------------------------------------------------
(* What a step leaves alone.                                               *)

LEMMA TotpFrame ==
    SpentCodes /\ VerifiedByOwnCode /\ UNCHANGED totpVars => SpentCodes' /\ VerifiedByOwnCode'
  BY DEF SpentCodes, VerifiedByOwnCode, totpVars

(* A request begins, goes on or ends: it carries what its stage needs.     *)
LEMMA RequestTyped ==
    ASSUME TwoFactorInv, NEW q \in Request, NEW r \in RequestType, Carries(r),
           request' = [request EXCEPT ![q] = r]
    PROVE  request' \in [Request -> RequestType] /\ \A p \in Request : Carries(request'[p])
  BY DEF TwoFactorInv, TwoFactorTypeOK, RequestType

Plain == Stage \ {"consume", "confirm", "redeem", "spend"}

LEMMA NoRequestTyped == NoRequest2FA \in RequestType
  BY DEF NoRequest2FA, RequestType, Op, Stage

LEMMA RequestGoes ==
    ASSUME TwoFactorInv, NEW q \in Request, NEW op \in Op, NEW stage \in Plain,
           Starts(q, op, stage) \/ Goes(q, stage) \/ Ends(q)
    PROVE  request' \in [Request -> RequestType] /\ \A p \in Request : Carries(request'[p])
<1> USE NoRequestTyped
<1>1. CASE Starts(q, op, stage)
  <2> DEFINE r == [NoRequest2FA EXCEPT !.op = op, !.stage = stage]
  <2>1. r \in RequestType /\ r.stage = stage
    BY DEF RequestType, Plain, NoRequest2FA
  <2>2. request' = [request EXCEPT ![q] = r]
    BY <1>1 DEF Starts
  <2> HIDE DEF r
  <2>3. QED
    BY <2>1, <2>2, RequestTyped DEF Carries, Plain
<1>2. CASE Goes(q, stage)
  <2> DEFINE r == [request[q] EXCEPT !.stage = stage]
  <2>1. r \in RequestType /\ r.stage = stage
    BY ZenonT(60) DEF TwoFactorInv, TwoFactorTypeOK, RequestType, Plain
  <2>2. request' = [request EXCEPT ![q] = r]
    BY <1>2 DEF Goes
  <2> HIDE DEF r
  <2>3. QED
    BY <2>1, <2>2, RequestTyped DEF Carries, Plain
<1>3. CASE Ends(q)
  <2>1. Carries(NoRequest2FA)
    BY DEF NoRequest2FA, Carries
  <2>2. QED
    BY <1>3, <2>1, RequestTyped DEF Ends
<1>4. QED
  BY <1>1, <1>2, <1>3

(* A check that has matched a code carries it to its update.               *)
LEMMA RequestMatches ==
    ASSUME TwoFactorInv, NEW q \in Request, NEW stage \in Stage,
           NEW config \in Config \cup {NoConfig}, NEW s \in Step \cup {-1},
           NEW code \in Recovery \cup Otp \cup {NoCode},
           Carries([op |-> "check", stage |-> stage, config |-> config, matched |-> s, code |-> code]),
           request' = [request EXCEPT ![q] =
               [op |-> "check", stage |-> stage, config |-> config, matched |-> s, code |-> code]]
    PROVE  request' \in [Request -> RequestType] /\ \A p \in Request : Carries(request'[p])
<1>1. [op |-> "check", stage |-> stage, config |-> config, matched |-> s, code |-> code] \in RequestType
  BY DEF RequestType, Op
<1>2. QED
  BY <1>1, RequestTyped

-----------------------------------------------------------------------------
(* Enrolment and management, statement by statement.                       *)

LEMMA BeginStep ==
    ASSUME TwoFactorInv, NEW q \in Request,
           \/ ShowTwoFactorSetup(q) \/ SetupTotp(q) \/ SetupEmailOtp(q) \/ DisableTwoFactor(q)
           \/ RegenerateRecoveryCodes(q) \/ SendOtpCode(q) \/ RequestStops(q)
    PROVE  TwoFactorInv'
<1>1. UNCHANGED <<totpVars, codeVars, method, otp, step>>
  BY DEF ShowTwoFactorSetup, SetupTotp, SetupEmailOtp, DisableTwoFactor, RegenerateRecoveryCodes,
     ManagementBegins, SendOtpCode, RequestStops
<1>2. \E op \in Op, stage \in Plain : Starts(q, op, stage) \/ Goes(q, stage) \/ Ends(q)
  BY DEF ShowTwoFactorSetup, SetupTotp, SetupEmailOtp, DisableTwoFactor, RegenerateRecoveryCodes,
     ManagementBegins, SendOtpCode, RequestStops, Op, Plain, Stage
<1>3. request' \in [Request -> RequestType] /\ \A p \in Request : Carries(request'[p])
  BY <1>2, RequestGoes
<1>4. TwoFactorTypeOK'
  BY <1>1, <1>3 DEF TwoFactorInv, TwoFactorTypeOK, RequestType, totpVars, codeVars
<1>5. QED
  BY <1>1, <1>3, <1>4, TotpFrame DEF TwoFactorInv

(* Deleting the row, or inserting a new one, forgets the last step; the    *)
(* new secret has had no code accepted, for nothing has proven it.         *)
LEMMA TotpRowStep ==
    ASSUME TwoFactorInv, NEW q \in Request,
           DeleteTotp(q) \/ \E c \in Config : NewConfig(c) /\ InsertTotp(q, c)
    PROVE  TwoFactorInv'
<1> USE TwoFactorAssumption
<1>1. UNCHANGED <<accepted, proven, codeVars, method, otp, step>>
  BY DEF DeleteTotp, InsertTotp
<1>2. \/ totp' = NotConfigured \/ totp' = totp
      \/ \E c \in Config \ proven : totp' = Pending(c)
  BY DEF DeleteTotp, InsertTotp, NewConfig
<1>3. \E stage \in Plain : Goes(q, stage) \/ Ends(q)
  BY DEF DeleteTotp, InsertTotp, Plain, Stage
<1>4. request' \in [Request -> RequestType] /\ \A p \in Request : Carries(request'[p])
  BY <1>3, RequestGoes DEF Op
<1>5. totp' \in [id : Config \cup {NoConfig}, verified : BOOLEAN, last : Step \cup {-1}]
  <2>1. NotConfigured \in [id : Config \cup {NoConfig}, verified : BOOLEAN, last : Step \cup {-1}]
    BY DEF NotConfigured
  <2>2. ASSUME NEW c \in Config
        PROVE  Pending(c) \in [id : Config \cup {NoConfig}, verified : BOOLEAN, last : Step \cup {-1}]
    BY DEF Pending
  <2>3. QED
    BY <1>2, <2>1, <2>2 DEF TwoFactorInv, TwoFactorTypeOK
<1>6. TwoFactorTypeOK'
  BY <1>1, <1>4, <1>5 DEF TwoFactorInv, TwoFactorTypeOK, RequestType, codeVars
<1>7. SpentCodes' /\ VerifiedByOwnCode'
  <2>1. CASE totp' = totp
    BY <1>1, <2>1, TotpFrame DEF TwoFactorInv, totpVars
  <2>2. CASE ~totp'.verified /\ (totp'.id = NoConfig \/ totp'.id \notin proven)
    BY <1>1, <2>2 DEF TwoFactorInv, SpentCodes, VerifiedByOwnCode
  <2>3. QED
    BY <1>2, <2>1, <2>2 DEF NotConfigured, Pending
<1>8. QED
  BY <1>4, <1>6, <1>7 DEF TwoFactorInv

(* Steps on recovery codes, e-mailed codes and flags.                      *)
LEMMA CodeRowStep ==
    ASSUME TwoFactorInv, NEW q \in Request,
           \/ DeleteAllRecoveryCodes(q)
           \/ \E batch \in SUBSET Recovery : InsertRecoveryCodes(q, batch)
           \/ DeleteSpentOtpCodes(q) \/ SetFlags(q)
           \/ \E o \in Otp : InsertOtpCode(q, o)
           \/ MarkOtpCodeUsed(q) \/ MarkRecoveryCodeUsed(q)
    PROVE  TwoFactorInv'
<1>1. UNCHANGED <<totpVars, step>>
  BY DEF DeleteAllRecoveryCodes, InsertRecoveryCodes, DeleteSpentOtpCodes, SetFlags,
     InsertOtpCode, MarkOtpCodeUsed, MarkRecoveryCodeUsed, codeVars
<1>2. \E stage \in Plain : Goes(q, stage) \/ Ends(q)
  BY DEF DeleteAllRecoveryCodes, InsertRecoveryCodes, DeleteSpentOtpCodes, SetFlags,
     InsertOtpCode, MarkOtpCodeUsed, MarkRecoveryCodeUsed, Plain, Stage
<1>3. request' \in [Request -> RequestType] /\ \A p \in Request : Carries(request'[p])
  BY <1>2, RequestGoes DEF Op
<1>4. recovery' \in [Recovery -> {"absent", "unused", "used", "deleted"}]
  BY DEF DeleteAllRecoveryCodes, InsertRecoveryCodes, DeleteSpentOtpCodes, SetFlags,
     InsertOtpCode, MarkOtpCodeUsed, MarkRecoveryCodeUsed, codeVars, TwoFactorInv, TwoFactorTypeOK
<1>5. otp' \in [Otp -> {"absent", "active", "used", "expired", "deleted"}]
  BY DEF DeleteAllRecoveryCodes, InsertRecoveryCodes, DeleteSpentOtpCodes, SetFlags, WithoutSpent,
     InsertOtpCode, MarkOtpCodeUsed, MarkRecoveryCodeUsed, TwoFactorInv, TwoFactorTypeOK
<1>6. redeemed' \in [Recovery -> Nat]
  BY DEF DeleteAllRecoveryCodes, InsertRecoveryCodes, DeleteSpentOtpCodes, SetFlags,
     InsertOtpCode, MarkOtpCodeUsed, MarkRecoveryCodeUsed, codeVars, TwoFactorInv, TwoFactorTypeOK
<1>7. method' \in {"none", "email", "totp"}
  BY DEF DeleteAllRecoveryCodes, InsertRecoveryCodes, DeleteSpentOtpCodes, SetFlags,
     InsertOtpCode, MarkOtpCodeUsed, MarkRecoveryCodeUsed, TwoFactorInv, TwoFactorTypeOK
<1>8. TwoFactorTypeOK'
  BY <1>1, <1>3, <1>4, <1>5, <1>6, <1>7 DEF TwoFactorInv, TwoFactorTypeOK, RequestType, totpVars
<1>9. QED
  BY <1>1, <1>3, <1>8, TotpFrame DEF TwoFactorInv

-----------------------------------------------------------------------------
(* Checks.                                                                 *)

(* A code is compared and carried.                                         *)
LEMMA CompareStep ==
    ASSUME TwoFactorInv, NEW q \in Request,
           \/ \E s \in Step : VerifyTotp(q, s) \/ ConfirmTotpSetup(q, s)
           \/ \E r \in Recovery : VerifyRecoveryCode(q, r)
           \/ \E o \in Otp : VerifyOtp(q, o)
    PROVE  TwoFactorInv'
<1> USE TwoFactorAssumption
<1>1. UNCHANGED <<totpVars, codeVars, method, otp, step>>
  BY DEF VerifyTotp, ConfirmTotpSetup, VerifyRecoveryCode, VerifyOtp
<1>2. request' \in [Request -> RequestType] /\ \A p \in Request : Carries(request'[p])
  <2>1. CASE \E s \in Step : VerifyTotp(q, s) \/ ConfirmTotpSetup(q, s)
    <3>1. PICK s \in Step, stage \in {"consume", "confirm"} :
            (totp.verified \/ totp.id # NoConfig) /\ Matched(q, stage, s)
      BY <2>1 DEF VerifyTotp, ConfirmTotpSetup
    <3>2. totp.id \in Config
      BY <3>1 DEF TwoFactorInv, TwoFactorTypeOK, VerifiedByOwnCode
    <3> DEFINE r == [NoRequest2FA EXCEPT !.op = "check", !.stage = stage, !.config = totp.id, !.matched = s]
    <3>3. r \in RequestType /\ r.stage = stage /\ r.config = totp.id /\ r.matched = s
      BY <3>2 DEF RequestType, NoRequest2FA, Op, Stage
    <3>4. request' = [request EXCEPT ![q] = r]
      BY <3>1 DEF Matched
    <3> HIDE DEF r
    <3>5. QED
      BY <3>2, <3>3, <3>4, RequestTyped DEF Carries
  <2>2. CASE \E r \in Recovery : VerifyRecoveryCode(q, r)
    <3>1. PICK r \in Recovery :
            request' = [request EXCEPT ![q] = [op |-> "check", stage |-> "redeem", config |-> NoConfig,
                                               matched |-> -1, code |-> r]]
      BY ZenonT(60), <2>2 DEF VerifyRecoveryCode, NoRequest2FA
    <3>2. Carries([op |-> "check", stage |-> "redeem", config |-> NoConfig, matched |-> -1, code |-> r])
      BY DEF Carries
    <3>3. QED
      BY <3>1, <3>2, RequestMatches DEF Stage
  <2>3. CASE \E o \in Otp : VerifyOtp(q, o)
    <3>1. PICK o \in Otp :
            request' = [request EXCEPT ![q] = [op |-> "check", stage |-> "spend", config |-> NoConfig,
                                               matched |-> -1, code |-> o]]
      BY ZenonT(60), <2>3 DEF VerifyOtp, NoRequest2FA
    <3>2. Carries([op |-> "check", stage |-> "spend", config |-> NoConfig, matched |-> -1, code |-> o])
      BY DEF Carries
    <3>3. QED
      BY <3>1, <3>2, RequestMatches DEF Stage
  <2>4. QED
    BY <2>1, <2>2, <2>3
<1>3. TwoFactorTypeOK'
  BY <1>1, <1>2 DEF TwoFactorInv, TwoFactorTypeOK, RequestType, totpVars, codeVars
<1>4. QED
  BY <1>1, <1>2, <1>3, TotpFrame DEF TwoFactorInv

(* The code passes: it had not been accepted before, and now its step is   *)
(* the last one.                                                           *)
LEMMA CodePasses ==
    ASSUME TwoFactorInv, NEW q \in Request, request[q].config \in Config,
           request[q].matched \in Step, totp.id = request[q].config,
           totp.verified => totp.last < request[q].matched,
           totp' = [totp EXCEPT !.verified = TRUE, !.last = request[q].matched],
           Accepts(q), proven' = proven \cup {request[q].config}
    PROVE  /\ totp' \in [id : Config \cup {NoConfig}, verified : BOOLEAN, last : Step \cup {-1}]
           /\ accepted' \in [Config -> [Step -> Nat]]
           /\ proven' \subseteq Config
           /\ SpentCodes' /\ VerifiedByOwnCode'
<1> DEFINE c == request[q].config
           s == request[q].matched
<1>1. /\ totp' \in [id : Config \cup {NoConfig}, verified : BOOLEAN, last : Step \cup {-1}]
      /\ totp'.id = c /\ totp'.verified /\ totp'.last = s
      /\ proven' \subseteq Config
  BY DEF TwoFactorInv, TwoFactorTypeOK
<1>2. accepted[c][s] = 0
  BY DEF TwoFactorInv, TwoFactorTypeOK, SpentCodes, Step
<1>3. /\ accepted' \in [Config -> [Step -> Nat]]
      /\ accepted'[c][s] = 1
      /\ \A d \in Config, t \in Step : d # c \/ t # s => accepted'[d][t] = accepted[d][t]
  BY <1>2 DEF Accepts, TwoFactorInv, TwoFactorTypeOK
<1>4. SpentCodes'
  <2> SUFFICES ASSUME NEW d \in Config, NEW t \in Step, accepted'[d][t] # 0
               PROVE  /\ accepted'[d][t] = 1
                      /\ d \in proven'
                      /\ totp'.id = d => totp'.verified /\ t <= totp'.last
    BY DEF SpentCodes, Step
  <2>1. CASE d = c /\ t = s
    BY <1>1, <1>3, <2>1 DEF Step
  <2>2. CASE d = c /\ t # s
    BY <1>1, <1>3, <2>2 DEF TwoFactorInv, TwoFactorTypeOK, SpentCodes, Step
  <2>3. CASE d # c
    BY <1>1, <1>3, <2>3 DEF TwoFactorInv, SpentCodes
  <2>4. QED
    BY <2>1, <2>2, <2>3
<1>5. VerifiedByOwnCode'
  BY <1>1 DEF VerifiedByOwnCode
<1>6. QED
  BY <1>1, <1>3, <1>4, <1>5

LEMMA ConsumeTotpTimeStepStep ==
    ASSUME TwoFactorInv, NEW q \in Request, ConsumeTotpTimeStep(q)
    PROVE  TwoFactorInv'
<1>1. /\ At(q, "consume") /\ Ends(q)
      /\ UNCHANGED <<proven, codeVars, method, otp, step>>
  BY DEF ConsumeTotpTimeStep
<1>2. request' \in [Request -> RequestType] /\ \A p \in Request : Carries(request'[p])
  BY <1>1, RequestGoes DEF Op, Plain, Stage
<1>3. /\ totp' \in [id : Config \cup {NoConfig}, verified : BOOLEAN, last : Step \cup {-1}]
      /\ accepted' \in [Config -> [Step -> Nat]]
      /\ proven' \subseteq Config
      /\ SpentCodes' /\ VerifiedByOwnCode'
  <2>1. CASE Advances(q)
    <3>1. request[q].config \in Config /\ request[q].matched \in Step
      BY <1>1 DEF At, TwoFactorInv, Carries
    <3>2. totp' = [totp EXCEPT !.last = request[q].matched] /\ Accepts(q)
      BY <2>1 DEF ConsumeTotpTimeStep
    <3>3. /\ totp.id = request[q].config /\ totp.verified = TRUE
          /\ totp.last < request[q].matched
      BY <2>1 DEF Advances, TwoFactorInv, TwoFactorTypeOK
    <3>4. totp' = [totp EXCEPT !.verified = TRUE, !.last = request[q].matched]
      BY <3>2, <3>3 DEF TwoFactorInv, TwoFactorTypeOK
    <3>5. proven' = proven \cup {request[q].config}
      BY <1>1, <3>3 DEF TwoFactorInv, VerifiedByOwnCode
    <3>6. QED
      BY <3>1, <3>2, <3>3, <3>4, <3>5, CodePasses
  <2>2. CASE ~Advances(q)
    BY <1>1, <2>2, TotpFrame DEF ConsumeTotpTimeStep, TwoFactorInv, TwoFactorTypeOK, totpVars
  <2>3. QED
    BY <2>1, <2>2
<1>4. TwoFactorTypeOK'
  BY <1>1, <1>2, <1>3 DEF TwoFactorInv, TwoFactorTypeOK, RequestType, codeVars
<1>5. QED
  BY <1>2, <1>3, <1>4 DEF TwoFactorInv

LEMMA VerifyTotpEnrollmentStep ==
    ASSUME TwoFactorInv, NEW q \in Request, VerifyTotpEnrollment(q)
    PROVE  TwoFactorInv'
<1>1. At(q, "confirm") /\ Ends(q) /\ UNCHANGED <<codeVars, otp, step>>
  BY DEF VerifyTotpEnrollment
<1>2. request' \in [Request -> RequestType] /\ \A p \in Request : Carries(request'[p])
  BY <1>1, RequestGoes DEF Op, Plain, Stage
<1>3. /\ totp' \in [id : Config \cup {NoConfig}, verified : BOOLEAN, last : Step \cup {-1}]
      /\ accepted' \in [Config -> [Step -> Nat]]
      /\ proven' \subseteq Config
      /\ SpentCodes' /\ VerifiedByOwnCode'
  <2>1. CASE StillPending(q)
    <3>1. request[q].config \in Config /\ request[q].matched \in Step
      BY <1>1 DEF At, TwoFactorInv, Carries
    <3>2. QED
      BY <2>1, <3>1, CodePasses DEF VerifyTotpEnrollment, StillPending
  <2>2. CASE ~StillPending(q)
    BY <2>2, TotpFrame DEF VerifyTotpEnrollment, TwoFactorInv, TwoFactorTypeOK, totpVars
  <2>3. QED
    BY <2>1, <2>2
<1>4. method' \in {"none", "email", "totp"}
  BY DEF VerifyTotpEnrollment, TwoFactorInv, TwoFactorTypeOK
<1>5. TwoFactorTypeOK'
  BY <1>1, <1>2, <1>3, <1>4 DEF TwoFactorInv, TwoFactorTypeOK, RequestType, codeVars
<1>6. QED
  BY <1>2, <1>3, <1>5 DEF TwoFactorInv

(* Steps without a request's progress.                                     *)
LEMMA PassingStep ==
    ASSUME TwoFactorInv,
           \/ \E q \in Request : RefuseOtpCode(q)
           \/ \E o \in Otp : OtpExpires(o)
           \/ StepPasses \/ UNCHANGED twoFactorVars
    PROVE  TwoFactorInv'
<1>1. UNCHANGED <<totpVars, codeVars, method, request>>
  BY DEF RefuseOtpCode, OtpExpires, StepPasses, twoFactorVars
<1>2. otp' \in [Otp -> {"absent", "active", "used", "expired", "deleted"}]
  BY DEF RefuseOtpCode, OtpExpires, StepPasses, twoFactorVars, WithoutSpent, TwoFactorInv,
     TwoFactorTypeOK
<1>3. step' \in Step
  BY TwoFactorAssumption
  DEF RefuseOtpCode, OtpExpires, StepPasses, twoFactorVars, TwoFactorInv, TwoFactorTypeOK, Step
<1>4. TwoFactorTypeOK'
  BY <1>1, <1>2, <1>3 DEF TwoFactorInv, TwoFactorTypeOK, totpVars, codeVars
<1>5. QED
  BY <1>1, <1>4, TotpFrame DEF TwoFactorInv

-----------------------------------------------------------------------------
LEMMA TwoFactorStep == TwoFactorInv /\ [TwoFactorNext]_twoFactorVars => TwoFactorInv'
<1> SUFFICES ASSUME TwoFactorInv, [TwoFactorNext]_twoFactorVars PROVE TwoFactorInv'
  OBVIOUS
<1>1. QED
  BY BeginStep, TotpRowStep, CodeRowStep, CompareStep, ConsumeTotpTimeStepStep,
     VerifyTotpEnrollmentStep, PassingStep
  DEF TwoFactorNext, EnrolNext, CheckNext

LEMMA TwoFactorInvariant == TwoFactorSpec => []TwoFactorInv
  BY TwoFactorInitInv, TwoFactorStep, PTL DEF TwoFactorSpec

(* The rows, the codes and the requests of a user keep their types in      *)
(* every interleaving of the statements.                                   *)
THEOREM TwoFactorTypeCorrect == TwoFactorSpec => []TwoFactorTypeOK
  BY TwoFactorInvariant, PTL DEF TwoFactorInv

(* A code of the authenticator lets one request pass, however many present *)
(* it and in whatever order their updates arrive.                          *)
THEOREM TotpCodeOnceHolds == TwoFactorSpec => []TotpCodeOnce
<1>1. TwoFactorInv => TotpCodeOnce
  BY DEF TwoFactorInv, TwoFactorTypeOK, SpentCodes, TotpCodeOnce
<1>2. QED
  BY <1>1, TwoFactorInvariant, PTL

(* A confirmation never verifies a configuration that replaced the one its *)
(* code was compared with.                                                 *)
THEOREM VerifiedByOwnCodeHolds == TwoFactorSpec => []VerifiedByOwnCode
  BY TwoFactorInvariant, PTL DEF TwoFactorInv

-----------------------------------------------------------------------------
(* Invitations: one ends once and in one way, an address has at most one   *)
(* unused one, and promised roles reach no account but the one that the    *)
(* invitation created.                                                     *)
(*                                                                         *)
(* A row is written only while it is unused, and only by a transaction     *)
(* that holds its lock or finds it unlocked; so what a transaction that    *)
(* holds the lock found unused is still unused when it commits.            *)

(* used_at is set by what ends the invitation, once.                       *)
RowsInv == \A i \in Invitation : Endings(invitation[i]) = IF invitation[i].used THEN 1 ELSE 0

OneUnused ==
    \A i, j \in Invitation :
        Unused(i) /\ Unused(j) /\ invitation[i].email = invitation[j].email => i = j

(* The invitations a request is about to replace are those of its address, *)
(* unused and locked; it locks no others.                                  *)
InviterHolds(r) ==
    /\ IF inviter[r].stage = "idle" THEN inviter[r].seen = {} ELSE inviter[r].email \in Email
    /\ \A i \in inviter[r].seen : invitation[i].email = inviter[r].email
    /\ inviter[r].stage = "inserting" => \A i \in inviter[r].seen : Unused(i) /\ invLock[i] = r
    /\ \A i \in Invitation :
          invLock[i] = r => inviter[r].stage = "inserting" /\ i \in inviter[r].seen

(* So is the invitation an acceptance is about to consume.                 *)
GuestHolds(g) ==
    /\ guest[g].stage # "idle" =>
          guest[g].row \in Invitation /\ invitation[guest[g].row].email \in Email
    /\ guest[g].stage = "locked" => Unused(guest[g].row) /\ invLock[guest[g].row] = g
    /\ \A i \in Invitation : invLock[i] = g => guest[g].stage = "locked" /\ guest[g].row = i

(* What a step of x leaves to the others: their locks, the rows they have  *)
(* locked, and the address of every row.                                   *)
LeavesOthers(x) ==
    /\ \A i \in Invitation : invLock[i] # invLock'[i] => invLock[i] \in {x, Nothing}
                                                       /\ invLock'[i] \in {x, Nothing}
    /\ \A i \in Invitation : invLock[i] \notin {x, Nothing} => invitation'[i] = invitation[i]
    /\ \A i \in Invitation :
          invitation[i].email \in Email => invitation'[i].email = invitation[i].email

InviteInv ==
    /\ InviteTypeOK
    /\ RowsInv
    /\ OneUnused
    /\ \A r \in Inviter : InviterHolds(r)
    /\ \A g \in Guest : GuestHolds(g)
    /\ RolesFromOwnInvitation

InvitationRow == [email : Email \cup {Nothing}, expires : Nat, used : BOOLEAN,
                  ends : [accepted : Nat, replaced : Nat, revoked : Nat]]

-----------------------------------------------------------------------------
LEMMA InviteInitInv == InviteInit => InviteInv
<1> SUFFICES ASSUME InviteInit PROVE InviteInv
  OBVIOUS
<1> USE InvitationsAssumption DEF InviteInit, Unissued, NoEnd
<1>1. InviteTypeOK
  BY DEF InviteTypeOK, NoInvite, NoGuest, InviterStage, GuestStage
<1>2. RowsInv /\ OneUnused
  BY DEF RowsInv, OneUnused, Endings, Unused
<1>3. (\A r \in Inviter : InviterHolds(r)) /\ (\A g \in Guest : GuestHolds(g))
  BY DEF InviterHolds, GuestHolds, NoInvite, NoGuest
<1>4. RolesFromOwnInvitation
  BY DEF RolesFromOwnInvitation
<1>5. QED
  BY <1>1, <1>2, <1>3, <1>4 DEF InviteInv

(* The end of an unused row is its only one.                               *)
LEMMA EndedRow ==
    ASSUME NEW row \in InvitationRow, ~row.used, Endings(row) = 0,
           NEW how \in {"accepted", "replaced", "revoked"}
    PROVE  /\ Ended(row, how) \in InvitationRow
           /\ Ended(row, how).used /\ Ended(row, how).email = row.email
           /\ Endings(Ended(row, how)) = 1
<1> DEFINE ends == [row.ends EXCEPT ![how] = row.ends[how] + 1]
<1>1. Ended(row, how) = [row EXCEPT !.used = TRUE, !.ends = ends]
  BY DEF Ended, InvitationRow
<1>2. row.ends \in [accepted : Nat, replaced : Nat, revoked : Nat]
  BY DEF InvitationRow
<1>3. /\ ends \in [accepted : Nat, replaced : Nat, revoked : Nat]
      /\ ends.accepted + ends.replaced + ends.revoked
           = row.ends.accepted + row.ends.replaced + row.ends.revoked + 1
  <2>1. CASE how = "accepted"
    BY <1>2, <2>1
  <2>2. CASE how = "replaced"
    BY <1>2, <2>2
  <2>3. CASE how = "revoked"
    BY <1>2, <2>3
  <2>4. QED
    BY <2>1, <2>2, <2>3
<1> HIDE DEF ends
<1>4. /\ Ended(row, how).ends = ends
      /\ Ended(row, how).used /\ Ended(row, how).email = row.email
  BY <1>1 DEF InvitationRow
<1>5. Ended(row, how) \in InvitationRow
  BY <1>1, <1>3 DEF InvitationRow
<1>6. Endings(Ended(row, how)) = 1
  BY <1>2, <1>3, <1>4 DEF InvitationRow, Endings
<1>7. QED
  BY <1>4, <1>5, <1>6

(* Locks are given back by their holder alone.                             *)
LEMMA UnlockedTyped ==
    ASSUME InviteTypeOK, NEW x \in Inviter \cup Guest
    PROVE  /\ Unlocked(x) \in [Invitation -> Inviter \cup Guest \cup {Nothing}]
           /\ \A i \in Invitation : invLock[i] # x => Unlocked(x)[i] = invLock[i]
           /\ \A i \in Invitation : invLock[i] = x => Unlocked(x)[i] = Nothing
  BY DEF InviteTypeOK, Unlocked

-----------------------------------------------------------------------------
(* What a step leaves alone.                                               *)

LEMMA RowsFrame ==
    RowsInv /\ OneUnused /\ UNCHANGED invitation => RowsInv' /\ OneUnused'
  BY DEF RowsInv, OneUnused, Unused

LEMMA RolesFrame ==
    RolesFromOwnInvitation /\ UNCHANGED accountVars => RolesFromOwnInvitation'
  BY DEF RolesFromOwnInvitation, accountVars

LEMMA InviterKept ==
    ASSUME NEW r \in Inviter, NEW x, InviteTypeOK, InviterHolds(r), inviter'[r] = inviter[r],
           x # r, LeavesOthers(x)
    PROVE  InviterHolds(r)'
<1>1. r # Nothing /\ inviter[r].seen \subseteq Invitation
  BY InvitationsAssumption DEF InviteTypeOK
<1>2. ASSUME NEW i \in inviter[r].seen PROVE invitation'[i].email = inviter[r].email
  BY <1>1 DEF InviterHolds, LeavesOthers
<1>3. ASSUME inviter[r].stage = "inserting", NEW i \in inviter[r].seen
      PROVE  Unused(i)' /\ invLock'[i] = r
  BY <1>1, <1>3 DEF InviterHolds, LeavesOthers, Unused
<1>4. \A i \in Invitation : invLock'[i] = r => invLock[i] = r
  BY <1>1 DEF LeavesOthers
<1>5. QED
  BY <1>2, <1>3, <1>4 DEF InviterHolds

LEMMA GuestKept ==
    ASSUME NEW g \in Guest, NEW x, InviteTypeOK, GuestHolds(g), guest'[g] = guest[g],
           x # g, LeavesOthers(x)
    PROVE  GuestHolds(g)'
<1>1. g # Nothing
  BY InvitationsAssumption
<1>2. \A i \in Invitation : invLock'[i] = g <=> invLock[i] = g
  BY <1>1 DEF LeavesOthers
<1>3. ASSUME guest[g].stage = "locked" PROVE Unused(guest[g].row)'
  BY <1>1, <1>3 DEF GuestHolds, LeavesOthers, Unused
<1>4. QED
  BY <1>2, <1>3 DEF GuestHolds, LeavesOthers

(* The other requests hold what they held.                                 *)
LEMMA OthersKept ==
    ASSUME InviteInv, NEW x, LeavesOthers(x),
           \A s \in Inviter \ {x} : inviter'[s] = inviter[s],
           \A h \in Guest \ {x} : guest'[h] = guest[h]
    PROVE  /\ \A s \in Inviter \ {x} : InviterHolds(s)'
           /\ \A h \in Guest \ {x} : GuestHolds(h)'
<1>1. ASSUME NEW s \in Inviter \ {x} PROVE InviterHolds(s)'
  BY InviterKept DEF InviteInv
<1>2. ASSUME NEW h \in Guest \ {x} PROVE GuestHolds(h)'
  BY GuestKept DEF InviteInv
<1>3. QED
  BY <1>1, <1>2

(* A step that writes no row, and locks or unlocks rows of its own at most. *)
LEMMA LocksOnly ==
    ASSUME InviteInv, NEW x, UNCHANGED invitation,
           \/ invLock' = invLock
           \/ x \in Inviter \cup Guest /\ invLock' = Unlocked(x)
    PROVE  LeavesOthers(x)
<1>1. \A i \in Invitation :
        invLock[i] # invLock'[i] => invLock[i] = x /\ invLock'[i] = Nothing
  BY UnlockedTyped DEF InviteInv
<1>2. QED
  BY <1>1 DEF LeavesOthers

(* A step that changes neither rows nor locks, nor the requests.           *)
LEMMA BystanderFrame ==
    ASSUME InviteInv, UNCHANGED <<invitation, invLock, inviter>>
    PROVE  /\ RowsInv' /\ OneUnused'
           /\ \A r \in Inviter : InviterHolds(r)'
           /\ guest' = guest => \A g \in Guest : GuestHolds(g)'
  BY RowsFrame DEF InviteInv, InviterHolds, GuestHolds, Unused

-----------------------------------------------------------------------------
(* Steps of invite requests.                                               *)

(* A request that marks nothing yet, or ends without a trace.              *)
LEMMA InviterStep ==
    ASSUME InviteInv, NEW r \in Inviter,
           \/ \E e \in Email : CheckNoAccount(r, e)
           \/ FindReplaced(r) \/ InviteConflicts(r) \/ InviteFails(r)
    PROVE  InviteInv'
<1> USE InvitationsAssumption
<1>1. UNCHANGED <<invitation, accountVars, guest, today>>
  BY DEF CheckNoAccount, FindReplaced, InviteConflicts, InviteFails
<1>2. \/ \E e \in Email : inviter' = [inviter EXCEPT ![r] = [stage |-> "checked", email |-> e, seen |-> {}]]
      \/ /\ inviter[r].stage = "checked"
         /\ inviter' = [inviter EXCEPT ![r].stage = "marking",
                                       ![r].seen = UnusedOf(inviter[r].email)]
      \/ inviter' = [inviter EXCEPT ![r] = NoInvite]
  BY DEF CheckNoAccount, FindReplaced, InviteConflicts, InviteFails, EndInvite
<1>3. invLock' = invLock \/ invLock' = Unlocked(r)
  BY DEF CheckNoAccount, FindReplaced, InviteConflicts, InviteFails, EndInvite
<1>4. /\ inviter' \in [Inviter -> [stage : InviterStage, email : Email \cup {Nothing}, seen : SUBSET Invitation]]
      /\ \A s \in Inviter \ {r} : inviter'[s] = inviter[s]
  <2>1. CASE \E e \in Email : inviter' = [inviter EXCEPT ![r] = [stage |-> "checked", email |-> e, seen |-> {}]]
    BY <2>1 DEF InviteInv, InviteTypeOK, InviterStage
  <2>2. CASE /\ inviter[r].stage = "checked"
             /\ inviter' = [inviter EXCEPT ![r].stage = "marking",
                                           ![r].seen = UnusedOf(inviter[r].email)]
    <3>1. UnusedOf(inviter[r].email) \in SUBSET Invitation
      BY DEF UnusedOf
    <3>3. inviter' \in [Inviter -> [stage : InviterStage, email : Email \cup {Nothing}, seen : SUBSET Invitation]]
      <4> DEFINE stepped == [inviter EXCEPT ![r].stage = "marking"]
                 shown == UnusedOf(inviter[r].email)
      <4>1. stepped \in [Inviter -> [stage : InviterStage, email : Email \cup {Nothing}, seen : SUBSET Invitation]]
        BY DEF InviteInv, InviteTypeOK, InviterStage
      <4>2. inviter' = [stepped EXCEPT ![r].seen = shown]
        BY <2>2
      <4> HIDE DEF stepped, shown
      <4>3. shown \in SUBSET Invitation
        BY <3>1 DEF shown
      <4>4. QED
        BY <4>1, <4>2, <4>3
    <3>5. \A s \in Inviter \ {r} : inviter'[s] = inviter[s]
      BY <2>2 DEF InviteInv, InviteTypeOK
    <3>6. QED
      BY <3>3, <3>5
  <2>3. CASE inviter' = [inviter EXCEPT ![r] = NoInvite]
    BY <2>3 DEF InviteInv, InviteTypeOK, InviterStage, NoInvite
  <2>4. QED
    BY <1>2, <2>1, <2>2, <2>3
<1>5. InviteTypeOK'
  BY <1>1, <1>3, <1>4, UnlockedTyped DEF InviteInv, InviteTypeOK, accountVars
<1>6. \A i \in Invitation : invLock'[i] # r
  <2>1. r # Nothing
    OBVIOUS
  <2>2. CASE invLock' = Unlocked(r)
    BY <2>1, <2>2, UnlockedTyped DEF InviteInv
  <2>3. CASE invLock' # Unlocked(r)
    <3>1. inviter[r] = NoInvite \/ inviter[r].stage = "checked"
      BY <2>3 DEF CheckNoAccount, FindReplaced, InviteConflicts, InviteFails, EndInvite
    <3>2. inviter[r].stage # "inserting"
      BY <3>1 DEF NoInvite
    <3>3. QED
      BY <1>3, <2>3, <3>2 DEF InviteInv, InviterHolds
  <2>4. QED
    BY <2>2, <2>3
<1>7. InviterHolds(r)'
  <2>1. CASE \E e \in Email : inviter' = [inviter EXCEPT ![r] = [stage |-> "checked", email |-> e, seen |-> {}]]
    BY <1>6, <2>1 DEF InviteInv, InviteTypeOK, InviterHolds
  <2>2. CASE /\ inviter[r].stage = "checked"
             /\ inviter' = [inviter EXCEPT ![r].stage = "marking",
                                           ![r].seen = UnusedOf(inviter[r].email)]
    <3>1. /\ inviter'[r].stage = "marking" /\ inviter'[r].email = inviter[r].email
          /\ inviter'[r].seen = UnusedOf(inviter[r].email)
      BY <2>2 DEF InviteInv, InviteTypeOK
    <3>2. inviter[r].email \in Email
      BY <2>2 DEF InviteInv, InviterHolds
    <3>3. \A i \in UnusedOf(inviter[r].email) : invitation'[i].email = inviter[r].email
      BY <1>1 DEF UnusedOf
    <3>4. QED
      BY <1>6, <3>1, <3>2, <3>3 DEF InviterHolds
  <2>3. CASE inviter' = [inviter EXCEPT ![r] = NoInvite]
    BY <1>6, <2>3 DEF InviteInv, InviteTypeOK, NoInvite, InviterHolds
  <2>4. QED
    BY <1>2, <2>1, <2>2, <2>3
<1>8. LeavesOthers(r)
  BY <1>1, <1>3, LocksOnly
<1>9. (\A s \in Inviter \ {r} : InviterHolds(s)') /\ (\A g \in Guest : GuestHolds(g)')
  BY <1>1, <1>4, <1>8, OthersKept
<1>10. QED
  BY <1>1, <1>5, <1>7, <1>9, RowsFrame, RolesFrame DEF InviteInv

LEMMA MarkReplacedStep ==
    ASSUME InviteInv, NEW r \in Inviter, MarkReplaced(r)
    PROVE  InviteInv'
<1> USE InvitationsAssumption
<1> DEFINE marked == {i \in inviter[r].seen : Unused(i)}
<1>1. /\ UNCHANGED <<invitation, accountVars, guest, today>>
      /\ inviter[r].stage = "marking"
      /\ \A i \in inviter[r].seen : invLock[i] = Nothing
      /\ invLock' = [i \in Invitation |-> IF i \in marked THEN r ELSE invLock[i]]
      /\ inviter' = [inviter EXCEPT ![r].stage = "inserting", ![r].seen = marked]
  BY DEF MarkReplaced
<1>2. marked \in SUBSET Invitation
  BY DEF InviteInv, InviteTypeOK
<1>3. InviteTypeOK'
  BY ZenonT(60), <1>1, <1>2 DEF InviteInv, InviteTypeOK, InviterStage, accountVars
<1>4. InviterHolds(r)'
  <2>1. /\ inviter'[r].stage = "inserting" /\ inviter'[r].email = inviter[r].email
        /\ inviter'[r].seen = marked
    BY <1>1 DEF InviteInv, InviteTypeOK
  <2>2. \A i \in Invitation : invLock[i] # r
    BY <1>1 DEF InviteInv, InviterHolds
  <2>3. inviter[r].email \in Email /\ \A i \in marked : invitation[i].email = inviter[r].email
    BY <1>1 DEF InviteInv, InviterHolds
  <2>4. \A i \in marked : Unused(i)'
    BY <1>1 DEF Unused
  <2> HIDE DEF marked
  <2>5. QED
    BY <1>1, <1>2, <2>1, <2>2, <2>3, <2>4 DEF InviterHolds
<1>5. LeavesOthers(r)
  BY <1>1 DEF LeavesOthers
<1>6. (\A s \in Inviter \ {r} : InviterHolds(s)') /\ (\A g \in Guest : GuestHolds(g)')
  <2>1. \A s \in Inviter \ {r} : inviter'[s] = inviter[s]
    BY <1>1 DEF InviteInv, InviteTypeOK
  <2>2. QED
    BY <1>1, <1>5, <2>1, OthersKept
<1>7. QED
  BY <1>1, <1>3, <1>4, <1>6, RowsFrame, RolesFrame DEF InviteInv

(* The new invitation is the only unused one of its address: the others    *)
(* the index sees are the ones that end with it.                           *)
LEMMA InsertInvitationStep ==
    ASSUME InviteInv, NEW r \in Inviter, NEW i \in Invitation, InsertInvitation(r, i)
    PROVE  InviteInv'
<1> USE InvitationsAssumption
<1> DEFINE e == inviter[r].email
           seen == inviter[r].seen
           new == Issued(e, today + 1)
<1>1. /\ inviter[r].stage = "inserting"
      /\ invitation[i] = Unissued
      /\ UnusedOf(e) \subseteq seen
      /\ invitation' = [j \in Invitation |->
                          IF j = i THEN new
                          ELSE IF j \in seen THEN Ended(invitation[j], "replaced")
                          ELSE invitation[j]]
      /\ inviter' = [inviter EXCEPT ![r] = NoInvite]
      /\ invLock' = Unlocked(r)
      /\ UNCHANGED <<accountVars, guest, today>>
  BY DEF InsertInvitation, Conflicting, EndInvite
<1>2. e \in Email /\ seen \subseteq Invitation /\ \A j \in seen : Unused(j) /\ invLock[j] = r
  BY <1>1 DEF InviteInv, InviteTypeOK, InviterHolds
<1>3. /\ new \in InvitationRow /\ ~new.used /\ new.email = e /\ Endings(new) = 0
  BY <1>2 DEF InviteInv, InviteTypeOK, Issued, NoEnd, InvitationRow, Endings
<1>4. ASSUME NEW j \in seen
      PROVE  /\ Ended(invitation[j], "replaced") \in InvitationRow
             /\ Ended(invitation[j], "replaced").used
             /\ Ended(invitation[j], "replaced").email = invitation[j].email
             /\ Endings(Ended(invitation[j], "replaced")) = 1
  <2>1. invitation[j] \in InvitationRow /\ ~invitation[j].used /\ Endings(invitation[j]) = 0
    BY <1>2 DEF InviteInv, InviteTypeOK, RowsInv, Unused, InvitationRow
  <2>2. QED
    BY <2>1, EndedRow
<1>5. \A j \in Invitation : invitation'[j] \in InvitationRow
  BY <1>1, <1>3, <1>4 DEF InviteInv, InviteTypeOK, InvitationRow
<1>6. InviteTypeOK'
  <2>1. invitation' \in [Invitation -> InvitationRow]
    BY <1>1, <1>5
  <2>2. inviter' \in [Inviter -> [stage : InviterStage, email : Email \cup {Nothing}, seen : SUBSET Invitation]]
    BY <1>1 DEF InviteInv, InviteTypeOK, NoInvite, InviterStage
  <2>3. QED
    BY <1>1, <2>1, <2>2, UnlockedTyped DEF InviteInv, InviteTypeOK, InvitationRow, accountVars
<1>7. RowsInv'
  BY <1>1, <1>3, <1>4 DEF InviteInv, RowsInv
<1>8. OneUnused'
  <2> SUFFICES ASSUME NEW j \in Invitation, NEW k \in Invitation,
                      Unused(j)', Unused(k)', invitation'[j].email = invitation'[k].email
               PROVE  j = k
    BY DEF OneUnused
  <2>1. ASSUME NEW m \in Invitation, Unused(m)', m # i
        PROVE  Unused(m) /\ invitation'[m] = invitation[m] /\ invitation[m].email # e
    <3>1. m \notin seen /\ invitation'[m] = invitation[m]
      BY <1>1, <1>4, <2>1 DEF Unused
    <3>2. QED
      BY <1>1, <2>1, <3>1 DEF Unused, UnusedOf
  <2>2. CASE j # i /\ k # i
    BY <2>1, <2>2 DEF InviteInv, OneUnused
  <2>3. CASE j = i \/ k = i
    BY <1>1, <1>3, <2>1, <2>3
  <2>4. QED
    BY <2>2, <2>3
<1>9. \A j \in Invitation :
        invLock'[j] # r /\ (invLock[j] # invLock'[j] => invLock[j] = r /\ invLock'[j] = Nothing)
  BY <1>1, UnlockedTyped DEF InviteInv
<1>10. ASSUME NEW s \in Inviter \cup Guest, invLock[i] = s PROVE FALSE
  <2>1. ~Unused(i)
    BY <1>1 DEF Unused, Unissued
  <2>2. QED
    BY <1>10, <2>1 DEF InviteInv, InviterHolds, GuestHolds
<1>11. LeavesOthers(r)
  <2>1. ASSUME NEW j \in Invitation, invLock[j] \notin {r, Nothing}
        PROVE  invitation'[j] = invitation[j]
    <3>1. j # i /\ j \notin seen
      BY <1>2, <1>10, <2>1 DEF InviteInv, InviteTypeOK
    <3>2. QED
      BY <1>1, <3>1
  <2>2. ASSUME NEW j \in Invitation, invitation[j].email \in Email
        PROVE  invitation'[j].email = invitation[j].email
    <3>1. j # i
      BY <1>1, <2>2 DEF Unissued
    <3>2. QED
      BY <1>1, <1>4, <3>1
  <2>3. QED
    BY <1>9, <2>1, <2>2 DEF LeavesOthers
<1>12. InviterHolds(r)'
  BY <1>1, <1>9 DEF InviteInv, InviteTypeOK, InviterHolds, NoInvite
<1>13. (\A s \in Inviter \ {r} : InviterHolds(s)') /\ (\A g \in Guest : GuestHolds(g)')
  <2>1. \A s \in Inviter \ {r} : inviter'[s] = inviter[s]
    BY <1>1 DEF InviteInv, InviteTypeOK
  <2>2. QED
    BY <1>1, <1>11, <2>1, OthersKept
<1>14. QED
  BY <1>1, <1>6, <1>7, <1>8, <1>12, <1>13, RolesFrame DEF InviteInv

-----------------------------------------------------------------------------
(* Steps of acceptances.                                                   *)

LEMMA SubmitFormStep ==
    ASSUME InviteInv, NEW g \in Guest, NEW i \in Invitation, SubmitForm(g, i)
    PROVE  InviteInv'
<1> USE InvitationsAssumption
<1>1. /\ UNCHANGED <<invitation, accountVars, invLock, inviter, today>>
      /\ Unused(i)
      /\ guest' = [guest EXCEPT ![g] = [stage |-> "begun", row |-> i, began |-> today]]
  BY DEF SubmitForm, ValidAt
<1>2. InviteTypeOK'
  BY <1>1 DEF InviteInv, InviteTypeOK, GuestStage, accountVars
<1>3. invitation[i].email \in Email
  BY <1>1 DEF InviteInv, InviteTypeOK, Unused
<1>4. GuestHolds(g)'
  <2>1. guest[g].stage = "idle"
    BY DEF SubmitForm, NoGuest
  <2>2. /\ guest'[g].stage = "begun" /\ guest'[g].row = i
        /\ \A j \in Invitation : invLock'[j] # g
    BY <1>1, <2>1 DEF InviteInv, InviteTypeOK, GuestHolds
  <2>3. QED
    BY <1>1, <1>3, <2>2 DEF GuestHolds
<1>5. \A h \in Guest \ {g} : GuestHolds(h)'
  <2>1. \A h \in Guest \ {g} : guest'[h] = guest[h]
    BY <1>1 DEF InviteInv, InviteTypeOK
  <2>2. LeavesOthers(g)
    BY <1>1, LocksOnly
  <2>3. QED
    BY <1>1, <2>1, <2>2, OthersKept
<1>6. QED
  BY <1>1, <1>2, <1>4, <1>5, BystanderFrame, RolesFrame DEF InviteInv

(* An acceptance that ends holds nothing and leaves the others what they   *)
(* hold, whatever it has done to its own row.                              *)
LEMMA GuestEnds ==
    ASSUME InviteInv, NEW g \in Guest, EndGuest(g), UNCHANGED <<invitation, inviter>>
    PROVE  /\ guest' \in [Guest -> [stage : GuestStage, row : Invitation \cup {Nothing}, began : Nat]]
           /\ invLock' \in [Invitation -> Inviter \cup Guest \cup {Nothing}]
           /\ \A r \in Inviter : InviterHolds(r)'
           /\ \A h \in Guest : GuestHolds(h)'
<1> USE InvitationsAssumption
<1>1. guest' = [guest EXCEPT ![g] = NoGuest] /\ invLock' = Unlocked(g)
  BY DEF EndGuest
<1>2. guest' \in [Guest -> [stage : GuestStage, row : Invitation \cup {Nothing}, began : Nat]]
  BY <1>1 DEF InviteInv, InviteTypeOK, NoGuest, GuestStage
<1>3. \A i \in Invitation : invLock'[i] # g
  BY <1>1, UnlockedTyped DEF InviteInv
<1>4. GuestHolds(g)'
  BY <1>1, <1>3 DEF InviteInv, InviteTypeOK, GuestHolds, NoGuest
<1>5. LeavesOthers(g)
  BY <1>1, LocksOnly
<1>6. \A h \in Guest \ {g} : guest'[h] = guest[h]
  BY <1>1 DEF InviteInv, InviteTypeOK
<1>7. (\A r \in Inviter : InviterHolds(r)') /\ (\A h \in Guest \ {g} : GuestHolds(h)')
  BY <1>5, <1>6, OthersKept
<1>8. QED
  BY <1>1, <1>2, <1>4, <1>7, UnlockedTyped DEF InviteInv

(* The acceptance locks its row, or gives up.                              *)
LEMMA LockInvitationStep ==
    ASSUME InviteInv, NEW g \in Guest, LockInvitation(g)
    PROVE  InviteInv'
<1> USE InvitationsAssumption
<1> DEFINE i == guest[g].row
<1>1. /\ UNCHANGED <<invitation, accountVars, inviter, today>>
      /\ guest[g].stage = "begun"
  BY DEF LockInvitation
<1>2. i \in Invitation /\ invitation[i].email \in Email
  BY <1>1 DEF InviteInv, GuestHolds
<1>3. CASE EndGuest(g)
  <2>1. InviteTypeOK'
    BY <1>1, <1>3, GuestEnds DEF InviteInv, InviteTypeOK, accountVars
  <2>2. QED
    BY <1>1, <1>3, <2>1, GuestEnds, RowsFrame, RolesFrame DEF InviteInv
<1>4. CASE ~EndGuest(g)
  <2>1. /\ invLock[i] = Nothing /\ Unused(i)
        /\ invLock' = [invLock EXCEPT ![i] = g]
        /\ guest' = [guest EXCEPT ![g].stage = "locked"]
    BY <1>4 DEF LockInvitation, ValidAt
  <2>2. InviteTypeOK'
    BY ZenonT(60), <1>1, <2>1 DEF InviteInv, InviteTypeOK, GuestStage, accountVars
  <2>3. GuestHolds(g)'
    <3>1. \A j \in Invitation : invLock[j] # g
      BY <1>1 DEF InviteInv, GuestHolds
    <3>2. guest'[g].stage = "locked" /\ guest'[g].row = i
      BY <2>1 DEF InviteInv, InviteTypeOK
    <3>3. /\ invLock'[i] = g
          /\ \A j \in Invitation \ {i} : invLock'[j] # g
      BY <1>2, <2>1, <3>1 DEF InviteInv, InviteTypeOK
    <3>4. QED
      BY <1>1, <1>2, <2>1, <3>2, <3>3 DEF GuestHolds, Unused
  <2>4. LeavesOthers(g)
    BY <1>1, <2>1 DEF LeavesOthers, InviteInv, InviteTypeOK
  <2>5. \A h \in Guest \ {g} : guest'[h] = guest[h]
    BY <2>1 DEF InviteInv, InviteTypeOK
  <2>6. (\A r \in Inviter : InviterHolds(r)') /\ (\A h \in Guest \ {g} : GuestHolds(h)')
    BY <1>1, <2>4, <2>5, OthersKept
  <2>7. QED
    BY <1>1, <2>2, <2>3, <2>6, RowsFrame, RolesFrame DEF InviteInv
<1>5. QED
  BY <1>3, <1>4

(* The row is still unused when the acceptance that locked it consumes it, *)
(* and the new account has no roles.                                       *)
LEMMA CreateAccountStep ==
    ASSUME InviteInv, NEW g \in Guest, CreateAccount(g)
    PROVE  InviteInv'
<1> USE InvitationsAssumption
<1> DEFINE i == guest[g].row
           e == invitation[i].email
           row == Ended(invitation[i], "accepted")
<1>1. /\ guest[g].stage = "locked"
      /\ account[e] = Nothing
      /\ account' = [account EXCEPT ![e] = i]
      /\ invitation' = [invitation EXCEPT ![i] = row]
      /\ invLock' = Unlocked(g)
      /\ guest' = [guest EXCEPT ![g].stage = "assigning"]
      /\ UNCHANGED <<roles, inviter, today>>
  BY DEF CreateAccount
<1>2. i \in Invitation /\ e \in Email /\ Unused(i) /\ invLock[i] = g
  BY <1>1 DEF InviteInv, GuestHolds
<1>3. row \in InvitationRow /\ row.used /\ row.email = e /\ Endings(row) = 1
  <2>1. invitation[i] \in InvitationRow /\ ~invitation[i].used /\ Endings(invitation[i]) = 0
    BY <1>2 DEF InviteInv, InviteTypeOK, RowsInv, Unused, InvitationRow
  <2>2. QED
    BY <2>1, EndedRow
<1> HIDE DEF row
<1>4. InviteTypeOK'
  <2>1. invitation' \in [Invitation -> InvitationRow]
    BY <1>1, <1>3 DEF InviteInv, InviteTypeOK, InvitationRow
  <2>2. account' \in [Email -> Invitation \cup {Manual, Nothing}]
    BY <1>1, <1>2 DEF InviteInv, InviteTypeOK
  <2>3. guest' \in [Guest -> [stage : GuestStage, row : Invitation \cup {Nothing}, began : Nat]]
    BY <1>1 DEF InviteInv, InviteTypeOK, GuestStage
  <2>4. QED
    BY <1>1, <2>1, <2>2, <2>3, UnlockedTyped DEF InviteInv, InviteTypeOK, InvitationRow
<1>5. \A j \in Invitation \ {i} : invitation'[j] = invitation[j]
  BY <1>1, <1>2 DEF InviteInv, InviteTypeOK
<1>6. invitation'[i] = row
  BY <1>1, <1>2 DEF InviteInv, InviteTypeOK
<1>7. RowsInv'
  BY <1>3, <1>5, <1>6 DEF InviteInv, RowsInv
<1>8. OneUnused'
  BY <1>3, <1>5, <1>6 DEF InviteInv, OneUnused, Unused
<1>9. \A j \in Invitation :
        invLock'[j] # g /\ (invLock[j] # invLock'[j] => invLock[j] = g /\ invLock'[j] = Nothing)
  BY <1>1, UnlockedTyped DEF InviteInv
<1>10. LeavesOthers(g)
  BY <1>2, <1>3, <1>5, <1>6, <1>9 DEF LeavesOthers
<1>11. (\A r \in Inviter : InviterHolds(r)') /\ (\A h \in Guest : GuestHolds(h)')
  <2>1. \A h \in Guest \ {g} : guest'[h] = guest[h]
    BY <1>1 DEF InviteInv, InviteTypeOK
  <2>2. (\A r \in Inviter : InviterHolds(r)') /\ (\A h \in Guest \ {g} : GuestHolds(h)')
    BY <1>1, <1>10, <2>1, OthersKept
  <2>3. guest'[g].stage = "assigning" /\ guest'[g].row = i
    BY <1>1 DEF InviteInv, InviteTypeOK
  <2>4. GuestHolds(g)'
    BY <1>2, <1>3, <1>6, <1>9, <2>3 DEF GuestHolds
  <2>5. QED
    BY <2>2, <2>4
<1>12. RolesFromOwnInvitation'
  <2>1. roles[e] = {}
    BY <1>1, <1>2 DEF InviteInv, InviteTypeOK, RolesFromOwnInvitation
  <2>2. QED
    BY <1>1, <1>2, <2>1 DEF InviteInv, InviteTypeOK, RolesFromOwnInvitation
<1>13. QED
  BY <1>4, <1>7, <1>8, <1>11, <1>12 DEF InviteInv

(* The end of an acceptance: rejected, or after the roles were assigned,   *)
(* which are given to the account of this very invitation.                 *)
LEMMA AcceptanceEndsStep ==
    ASSUME InviteInv, NEW g \in Guest,
           AcceptanceRejected(g) \/ ApplyPreAssignments(g) \/ LosePreAssignments(g)
    PROVE  InviteInv'
<1> USE InvitationsAssumption
<1> DEFINE i == guest[g].row
<1>1. /\ UNCHANGED <<invitation, account, inviter, today>>
      /\ EndGuest(g)
      /\ guest[g].stage # "idle"
  BY DEF AcceptanceRejected, ApplyPreAssignments, LosePreAssignments, accountVars
<1>2. \/ roles' = roles
      \/ roles' = [e \in Email |-> IF account[e] = i THEN roles[e] \cup {i} ELSE roles[e]]
  BY DEF AcceptanceRejected, ApplyPreAssignments, LosePreAssignments, accountVars
<1>3. roles' \in [Email -> SUBSET Invitation] /\ RolesFromOwnInvitation'
  <2>1. i \in Invitation
    BY <1>1 DEF InviteInv, GuestHolds
  <2>2. CASE roles' = roles
    BY <1>1, <2>2 DEF InviteInv, InviteTypeOK, RolesFromOwnInvitation
  <2>3. CASE roles' = [e \in Email |-> IF account[e] = i THEN roles[e] \cup {i} ELSE roles[e]]
    BY <1>1, <2>1, <2>3 DEF InviteInv, InviteTypeOK, RolesFromOwnInvitation
  <2>4. QED
    BY <1>2, <2>2, <2>3
<1>4. InviteTypeOK'
  BY <1>1, <1>3, GuestEnds DEF InviteInv, InviteTypeOK
<1>5. QED
  BY <1>1, <1>3, <1>4, GuestEnds, RowsFrame DEF InviteInv

-----------------------------------------------------------------------------
(* The other steps.                                                        *)

LEMMA RevokeInvitationStep ==
    ASSUME InviteInv, NEW i \in Invitation, RevokeInvitation(i)
    PROVE  InviteInv'
<1> USE InvitationsAssumption
<1> DEFINE row == Ended(invitation[i], "revoked")
<1>1. /\ invLock[i] = Nothing /\ Unused(i)
      /\ invitation' = [invitation EXCEPT ![i] = row]
      /\ UNCHANGED <<accountVars, invLock, inviter, guest, today>>
  BY DEF RevokeInvitation, ValidAt
<1>2. row \in InvitationRow /\ row.used /\ row.email = invitation[i].email /\ Endings(row) = 1
  <2>1. invitation[i] \in InvitationRow /\ ~invitation[i].used /\ Endings(invitation[i]) = 0
    BY <1>1 DEF InviteInv, InviteTypeOK, RowsInv, Unused, InvitationRow
  <2>2. QED
    BY <2>1, EndedRow
<1>3. InviteTypeOK'
  BY <1>1, <1>2 DEF InviteInv, InviteTypeOK, InvitationRow, accountVars
<1>4. \A j \in Invitation \ {i} : invitation'[j] = invitation[j]
  BY <1>1 DEF InviteInv, InviteTypeOK
<1>5. invitation'[i] = row
  BY <1>1 DEF InviteInv, InviteTypeOK
<1>6. RowsInv' /\ OneUnused'
  BY <1>2, <1>4, <1>5 DEF InviteInv, RowsInv, OneUnused, Unused
<1>7. LeavesOthers(Nothing)
  BY <1>1, <1>2, <1>4, <1>5 DEF LeavesOthers
<1>8. (\A r \in Inviter : InviterHolds(r)') /\ (\A g \in Guest : GuestHolds(g)')
  BY <1>1, <1>7, OthersKept
<1>9. QED
  BY <1>1, <1>3, <1>6, <1>8, RolesFrame DEF InviteInv

LEMMA AccountStep ==
    ASSUME InviteInv, NEW e \in Email, CreateUser(e) \/ DeleteAccount(e)
    PROVE  InviteInv'
<1> USE InvitationsAssumption
<1>1. UNCHANGED <<invitation, invLock, inviter, guest, today>>
  BY DEF CreateUser, DeleteAccount
<1>2. InviteTypeOK'
  BY <1>1 DEF CreateUser, DeleteAccount, InviteInv, InviteTypeOK
<1>3. RolesFromOwnInvitation'
  BY <1>1 DEF CreateUser, DeleteAccount, InviteInv, InviteTypeOK, RolesFromOwnInvitation
<1>4. QED
  BY <1>1, <1>2, <1>3, BystanderFrame DEF InviteInv

LEMMA IdleStep ==
    ASSUME InviteInv, DayPasses \/ UNCHANGED inviteVars
    PROVE  InviteInv'
<1>1. UNCHANGED <<invitation, accountVars, invLock, inviter, guest>> /\ today' \in Nat
  BY DEF DayPasses, inviteVars, InviteInv, InviteTypeOK
<1>2. InviteTypeOK'
  BY <1>1 DEF InviteInv, InviteTypeOK, accountVars
<1>3. QED
  BY <1>1, <1>2, BystanderFrame, RolesFrame DEF InviteInv

-----------------------------------------------------------------------------
LEMMA InviteStep == InviteInv /\ [InviteNext]_inviteVars => InviteInv'
<1> SUFFICES ASSUME InviteInv, [InviteNext]_inviteVars PROVE InviteInv'
  OBVIOUS
<1>1. QED
  BY InviterStep, MarkReplacedStep, InsertInvitationStep, SubmitFormStep, LockInvitationStep,
     CreateAccountStep, AcceptanceEndsStep, RevokeInvitationStep, AccountStep, IdleStep
  DEF InviteNext

LEMMA InviteInvariant == InviteSpec => []InviteInv
  BY InviteInitInv, InviteStep, PTL DEF InviteSpec

(* Invitations, accounts, locks and both kinds of request keep their types *)
(* in every execution.                                                     *)
THEOREM InviteTypeCorrect == InviteSpec => []InviteTypeOK
  BY InviteInvariant, PTL DEF InviteInv

(* An invitation is accepted, replaced or revoked, once, however the three *)
(* transactions wait for each other.                                       *)
THEOREM OneOutcomeHolds == InviteSpec => []OneOutcome
<1>1. InviteInv => OneOutcome
  <2> SUFFICES ASSUME InviteInv, NEW i \in Invitation PROVE Endings(invitation[i]) <= 1
    BY DEF OneOutcome, Endings
  <2>1. QED
    BY DEF InviteInv, RowsInv
<1>2. QED
  BY <1>1, InviteInvariant, PTL

(* Concurrent requests that replace the same invitation of an address, or  *)
(* find none to replace, leave it one unused invitation.                   *)
THEOREM OneLiveInvitationHolds == InviteSpec => []OneLiveInvitation
<1>1. InviteInv => OneLiveInvitation
  <2> SUFFICES ASSUME InviteInv, NEW e \in Email PROVE Cardinality(UnusedOf(e)) <= 1
    BY DEF OneLiveInvitation
  <2>1. CASE UnusedOf(e) = {}
    BY <2>1, FS_EmptySet
  <2>2. CASE UnusedOf(e) # {}
    <3>1. PICK i : i \in UnusedOf(e)
      BY <2>2
    <3>2. UnusedOf(e) = {i}
      BY <3>1 DEF UnusedOf, InviteInv, OneUnused
    <3>3. QED
      BY <3>2, FS_Singleton
  <2>3. QED
    BY <2>1, <2>2
<1>2. QED
  BY <1>1, InviteInvariant, PTL

(* Roles promised with an invitation reach no account but the one the      *)
(* invitation created, whatever is deleted and created in between.         *)
THEOREM RolesFromOwnInvitationHolds == InviteSpec => []RolesFromOwnInvitation
  BY InviteInvariant, PTL DEF InviteInv

(* A request that has locked a row replaces the one unused invitation of   *)
(* its address, so the index shows it no other; an acceptance locks one    *)
(* row and no more.  Neither waits while others wait for it.               *)
THEOREM InviteWaitsEndHolds == InviteSpec => []InviteWaitsEnd
<1>1. InviteInv => InviteWaitsEnd
  <2> SUFFICES ASSUME InviteInv, NEW x \in Inviter \cup Guest, NEW y \in Inviter \cup Guest,
                      NEW z \in Inviter \cup Guest, InviteAwaits(x, y), InviteAwaits(y, z)
               PROVE  FALSE
    BY DEF InviteWaitsEnd
  <2>1. PICK i \in Invitation : invLock[i] = y
    BY DEF InviteInv, InviteTypeOK, GuestHolds, InviteAwaits, Conflicting, UnusedOf
  <2>2. CASE y \in Guest
    <3>1. guest[y].stage = "locked" /\ y \notin Inviter
      BY <2>1, <2>2, InvitationsAssumption DEF InviteInv, GuestHolds
    <3>2. QED
      BY <3>1 DEF InviteAwaits
  <2>3. CASE y \in Inviter
    <3>1. /\ inviter[y].stage = "inserting" /\ i \in inviter[y].seen
          /\ Unused(i) /\ invitation[i].email = inviter[y].email
      BY <2>1, <2>3 DEF InviteInv, InviterHolds
    <3>2. PICK j \in Conflicting(y) : TRUE
      BY <2>3, <3>1, InvitationsAssumption DEF InviteAwaits
    <3>3. j \in Invitation \ inviter[y].seen /\ Unused(j) /\ invitation[j].email = inviter[y].email
      BY <3>2 DEF Conflicting, UnusedOf
    <3>4. QED
      BY <3>1, <3>3 DEF InviteInv, OneUnused
  <2>4. QED
    BY <2>2, <2>3
<1>2. QED
  BY <1>1, InviteInvariant, PTL

-----------------------------------------------------------------------------
(* Invitations as one-time artifacts.                                      *)

LEMMA RowKept == UNCHANGED invitation => UNCHANGED OneTime!oneTimeVars
  BY DEF OneTime!oneTimeVars

(* An unused row that ends is redeemed or void, by what ended it.          *)
LEMMA EndedOutcome ==
    ASSUME NEW row \in InvitationRow, ~row.used, Endings(row) = 0, row.email # Nothing,
           NEW how \in {"accepted", "replaced", "revoked"}
    PROVE  /\ Outcome(row) = "open"
           /\ Outcome(Ended(row, how)) = IF how = "accepted" THEN "redeemed" ELSE "void"
<1>1. row.ends \in [accepted : Nat, replaced : Nat, revoked : Nat] /\ row.ends.accepted = 0
  BY DEF InvitationRow, Endings
<1>2. Ended(row, how).ends.accepted = IF how = "accepted" THEN 1 ELSE 0
  <2> DEFINE ends == [row.ends EXCEPT ![how] = row.ends[how] + 1]
  <2>1. Ended(row, how).ends = ends
    BY DEF Ended, InvitationRow
  <2>2. CASE how = "accepted"
    BY <1>1, <2>1, <2>2
  <2>3. CASE how = "replaced" \/ how = "revoked"
    BY <1>1, <2>1, <2>3
  <2>4. QED
    BY <2>2, <2>3
<1>3. /\ Ended(row, how).used /\ Ended(row, how).email = row.email
      /\ Endings(Ended(row, how)) = 1
  BY EndedRow
<1>4. QED
  BY <1>2, <1>3 DEF Outcome

(* Whatever else it writes, a transaction that ends one unused row is a    *)
(* step of the promise.                                                    *)
LEMMA OneRowEnds ==
    ASSUME InviteInv, NEW i \in Invitation, Unused(i),
           NEW how \in {"accepted", "replaced", "revoked"},
           invitation' = [invitation EXCEPT ![i] = Ended(@, how)]
    PROVE  OneTime!OneTimeNext
<1> DEFINE row == Ended(invitation[i], how)
<1>1. invitation[i] \in InvitationRow /\ ~invitation[i].used /\ Endings(invitation[i]) = 0
      /\ invitation[i].email # Nothing
  BY DEF InviteInv, InviteTypeOK, RowsInv, Unused, InvitationRow
<1>2. /\ row.email = invitation[i].email /\ Outcome(invitation[i]) = "open"
      /\ Outcome(row) = IF how = "accepted" THEN "redeemed" ELSE "void"
  BY <1>1, EndedRow, EndedOutcome
<1>3. invitation' = [invitation EXCEPT ![i] = row] /\ invitation \in [Invitation -> InvitationRow]
  BY DEF InviteInv, InviteTypeOK, InvitationRow
<1> HIDE DEF row
<1>4. invitation'[i] = row /\ \A j \in Invitation \ {i} : invitation'[j] = invitation[j]
  BY <1>3
<1>5. OneTime!Close(i, Outcome(row))
  <2>1. \A j \in Invitation : invitation'[j].email = invitation[j].email
    BY <1>2, <1>4
  <2>2. [j \in Invitation |-> Outcome(invitation'[j])]
          = [[j \in Invitation |-> Outcome(invitation[j])] EXCEPT ![i] = Outcome(row)]
    <3> DEFINE Old(j) == Outcome(invitation[j])
               New(j) == Outcome(invitation'[j])
    <3>1. New(i) = Outcome(row) /\ \A j \in Invitation \ {i} : New(j) = Old(j)
      BY <1>4
    <3> HIDE DEF Old, New
    <3>2. [j \in Invitation |-> New(j)] = [[j \in Invitation |-> Old(j)] EXCEPT ![i] = Outcome(row)]
      BY <3>1
    <3>3. QED
      BY <3>2 DEF Old, New
  <2>3. QED
    BY <1>2, <2>1, <2>2 DEF OneTime!Close
<1>6. QED
  BY <1>2, <1>5 DEF OneTime!OneTimeNext, OneTime!Redeem, OneTime!TakeBack

(* The insert issues the new row, and what it marks is what the address    *)
(* still had.                                                              *)
LEMMA InsertIssues ==
    ASSUME InviteInv, NEW r \in Inviter, NEW i \in Invitation, InsertInvitation(r, i)
    PROVE  OneTime!OneTimeNext
<1>0. PICK e \in Email : e = inviter[r].email
  BY InvitationsAssumption DEF InviteInv, InviteTypeOK, InviterHolds, InsertInvitation
<1> DEFINE seen == inviter[r].seen
           new == Issued(e, today + 1)
<1>1. /\ inviter[r].stage = "inserting"
      /\ invitation[i] = Unissued
      /\ UnusedOf(e) \subseteq seen
      /\ \A j \in Invitation :
            invitation'[j] = IF j = i THEN new
                             ELSE IF j \in seen THEN Ended(invitation[j], "replaced")
                             ELSE invitation[j]
  BY <1>0 DEF InsertInvitation, Conflicting
<1>2. /\ e # Nothing /\ seen \subseteq Invitation
      /\ \A j \in seen : Unused(j) /\ invitation[j].email = e
  BY <1>0, <1>1, InvitationsAssumption DEF InviteInv, InviteTypeOK, InviterHolds
<1>3. new.email = e /\ Outcome(new) = "open" /\ Outcome(invitation[i]) = "unissued"
  BY <1>1, <1>2 DEF Outcome, Issued, Unissued
<1>4. ASSUME NEW j \in seen
      PROVE  /\ Outcome(invitation[j]) = "open"
             /\ Ended(invitation[j], "replaced").email = e
             /\ Outcome(Ended(invitation[j], "replaced")) = "void"
  <2>1. /\ invitation[j] \in InvitationRow /\ ~invitation[j].used /\ Endings(invitation[j]) = 0
        /\ invitation[j].email = e
    BY <1>2 DEF InviteInv, InviteTypeOK, RowsInv, Unused, InvitationRow
  <2>2. QED
    BY <1>2, <2>1, EndedRow, EndedOutcome
<1>5. ASSUME NEW j \in Invitation, invitation[j].email = e, Outcome(invitation[j]) = "open"
      PROVE  j \in seen
  BY <1>1, <1>2, <1>5 DEF Outcome, UnusedOf, Unused
<1>6. [j \in Invitation |-> invitation'[j].email]
        = [[j \in Invitation |-> invitation[j].email] EXCEPT ![i] = e]
  BY <1>1, <1>2, <1>3, <1>4
<1>7. \A j \in Invitation :
        Outcome(invitation'[j]) =
          IF j = i THEN "open"
          ELSE IF invitation[j].email = e /\ Outcome(invitation[j]) = "open" THEN "void"
          ELSE Outcome(invitation[j])
  BY <1>1, <1>2, <1>3, <1>4, <1>5
<1>8. OneTime!Issue(i, e)
  <2> HIDE DEF new, seen
  <2>1. QED
    BY <1>3, <1>6, <1>7, Zenon DEF OneTime!Issue
<1>9. QED
  BY <1>8 DEF OneTime!OneTimeNext

LEMMA InvitationsRefine ==
    InviteInv /\ [InviteNext]_inviteVars => [OneTime!OneTimeNext]_(OneTime!oneTimeVars)
<1> SUFFICES ASSUME InviteInv, [InviteNext]_inviteVars
             PROVE  OneTime!OneTimeNext \/ UNCHANGED OneTime!oneTimeVars
  OBVIOUS
<1>1. ASSUME NEW g \in Guest, CreateAccount(g) PROVE OneTime!OneTimeNext
  <2>1. guest[g].row \in Invitation /\ Unused(guest[g].row)
    BY <1>1 DEF InviteInv, GuestHolds, CreateAccount
  <2>2. QED
    BY <1>1, <2>1, OneRowEnds DEF CreateAccount
<1>2. ASSUME NEW i \in Invitation, RevokeInvitation(i) PROVE OneTime!OneTimeNext
  BY <1>2, OneRowEnds DEF RevokeInvitation, ValidAt
<1>3. ASSUME NEW r \in Inviter,
             FindReplaced(r) \/ MarkReplaced(r) \/ InviteConflicts(r) \/ InviteFails(r)
             \/ \E e \in Email : CheckNoAccount(r, e)
      PROVE  UNCHANGED invitation
  BY <1>3 DEF CheckNoAccount, FindReplaced, MarkReplaced, InviteConflicts, InviteFails
<1>4. ASSUME NEW g \in Guest,
             LockInvitation(g) \/ AcceptanceRejected(g) \/ ApplyPreAssignments(g)
             \/ LosePreAssignments(g) \/ \E i \in Invitation : SubmitForm(g, i)
      PROVE  UNCHANGED invitation
  BY <1>4 DEF LockInvitation, AcceptanceRejected, ApplyPreAssignments, LosePreAssignments, SubmitForm
<1>5. CASE (\E e \in Email : CreateUser(e) \/ DeleteAccount(e)) \/ DayPasses \/ UNCHANGED inviteVars
  BY <1>5, RowKept DEF CreateUser, DeleteAccount, DayPasses, inviteVars
<1>6. QED
  BY <1>1, <1>2, <1>3, <1>4, <1>5, InsertIssues, RowKept DEF InviteNext

(* Every transaction on the invitations is a step of the one-time promise  *)
(* or invisible in it: replacing takes the address's open invitation back  *)
(* in the step that issues the new one, and only an open one is accepted.  *)
THEOREM InvitationsAreOneTimeHolds == InviteSpec => InvitationsAreOneTime
<1>1. InviteInit => OneTime!OneTimeInit
  BY DEF InviteInit, Unissued, Outcome, OneTime!OneTimeInit
<1>2. QED
  BY <1>1, InviteInvariant, InvitationsRefine, PTL
  DEF InviteSpec, InvitationsAreOneTime, OneTime!OneTimeSpec
=============================================================================
