------------------------- MODULE LinkTransactions -------------------------
(***************************************************************************)
(* The magic links of one account below the level of RecoveryArtifacts,    *)
(* where a transaction is one step: ensureRecoveryJobToken and             *)
(* consumeAuthorizedMagicLink (auth/token-repository.ts) statement by      *)
(* statement, with the row locks and the clock of PostgreSQL.              *)
(*                                                                         *)
(* A statement sees what is committed when it begins, waits for the rows   *)
(* it locks and checks its condition again once it has them.  NOW() is the *)
(* time at which the transaction began.  Of transactions that wait for     *)
(* each other in a circle PostgreSQL ends one with an error.               *)
(*                                                                         *)
(* An issue locks the account before it marks links, a callback locks its  *)
(* link before the account.                                                *)
(***************************************************************************)
EXTENDS Integers, FiniteSets

CONSTANTS
    Link,           \* links by their jobs, numbered in the order of created_at
    Bound,          \* those whose job carries an interaction and its client
    Issuer,         \* transactions of ensureRecoveryJobToken that can overlap
    Visitor,        \* and of consumeAuthorizedMagicLink
    Nobody,         \* the holder of a lock that is free
    NoLink,         \* the link of a transaction that has not begun
    MaxChanges      \* bound on the administrative changes

Txn == Issuer \cup Visitor

ASSUME LinkAssumption ==
    /\ Link \subseteq Nat
    /\ Bound \subseteq Link
    /\ Issuer \cap Visitor = {}
    /\ Nobody \notin Txn
    /\ NoLink \notin Link
    /\ MaxChanges \in Nat

VARIABLES
    artifact,       \* the committed row of each link
    expired,        \* the links whose expires_at has passed
    accountActive,  \* status of the account
    clientActive,   \* status of the client of the bound links
    changes,        \* administrative changes so far
    accountLock,    \* the transaction that holds the account's row
    linkLock,       \* and each link's, to use it or to mark it used
    clientShare,    \* the transactions that share the client's row
    txn,            \* where each transaction stands
    logins          \* logins committed with each link

rowVars == <<artifact, logins>>
authorityVars == <<accountActive, clientActive, changes>>
lockVars == <<accountLock, linkLock, clientShare>>
linkVars == <<rowVars, expired, authorityVars, lockVars, txn>>

-----------------------------------------------------------------------------
TxnStage == {"idle", "account", "client", "existing", "newest", "standing", "mark",
             "find", "link", "owner", "consume"}

(* gone are the links that had expired by NOW(), seen those that an UPDATE *)
(* found and has yet to mark.                                              *)
TxnAt(stage, l, gone, seen) == [stage |-> stage, link |-> l, gone |-> gone, seen |-> seen]

Idle == TxnAt("idle", NoLink, {}, {})

Goes(t, stage) == txn' = [txn EXCEPT ![t].stage = stage]

(* The SQL conditions on used_at and expires_at, by the clock of t. *)
Usable(t, l) == artifact[l] = "unused" /\ l \notin txn[t].gone

(* COMMIT and ROLLBACK give every lock back. *)
End(t) ==
    /\ txn' = [txn EXCEPT ![t] = Idle]
    /\ accountLock' = IF accountLock = t THEN Nobody ELSE accountLock
    /\ linkLock' = [l \in Link |-> IF linkLock[l] = t THEN Nobody ELSE linkLock[l]]
    /\ clientShare' = clientShare \ {t}

(* Faulty variant: the client is read without a lock. *)
ReadClient(t) ==
    /\ txn[t].stage = "client"
    /\ IF clientActive
       THEN /\ Goes(t, IF t \in Issuer THEN "existing" ELSE "find")
            /\ UNCHANGED lockVars
       ELSE End(t)
    /\ UNCHANGED <<rowVars, expired, authorityVars>>

(* Both transactions lock the client of a bound link FOR SHARE; without an *)
(* active one they end.                                                    *)
LockClient(t) ==
    /\ txn[t].stage = "client"
    /\ IF clientActive
       THEN /\ clientShare' = clientShare \cup {t}
            /\ Goes(t, IF t \in Issuer THEN "existing" ELSE "find")
            /\ UNCHANGED <<accountLock, linkLock>>
       ELSE End(t)
    /\ UNCHANGED <<rowVars, expired, authorityVars>>

-----------------------------------------------------------------------------
(* ensureRecoveryJobToken.                                                 *)

BeginIssue(t, l) ==
    /\ txn[t] = Idle
    /\ txn' = [txn EXCEPT ![t] = TxnAt("account", l, expired, {})]
    /\ UNCHANGED <<rowVars, expired, authorityVars, lockVars>>

AfterAccount(t) == IF txn[t].link \in Bound THEN "client" ELSE "existing"

(* Faulty variant: the account is read without FOR UPDATE. *)
ReadAccount(t) ==
    /\ txn[t].stage = "account"
    /\ Goes(t, AfterAccount(t))
    /\ UNCHANGED <<rowVars, expired, authorityVars, lockVars>>

LockAccount(t) ==
    /\ txn[t].stage = "account"
    /\ accountLock = Nobody
    /\ accountLock' = t
    /\ Goes(t, AfterAccount(t))
    /\ UNCHANGED <<rowVars, expired, authorityVars, linkLock, clientShare>>

(* Faulty variant: the early return leaves the transaction open. *)
FindExistingUncommitted(t) ==
    /\ txn[t].stage = "existing"
    /\ txn' = [txn EXCEPT ![t] = IF artifact[txn[t].link] = "none"
                                 THEN [@ EXCEPT !.stage = "newest"]
                                 ELSE Idle]
    /\ UNCHANGED <<rowVars, expired, authorityVars, lockVars>>

(* A job that has its link issues no other. *)
FindExisting(t) ==
    /\ txn[t].stage = "existing"
    /\ IF artifact[txn[t].link] = "none"
       THEN Goes(t, "newest") /\ UNCHANGED lockVars
       ELSE End(t)
    /\ UNCHANGED <<rowVars, expired, authorityVars>>

(* Nor does a job when a newer one has had a link. *)
FindNewest(t) ==
    /\ txn[t].stage = "newest"
    /\ IF \A k \in Link : k > txn[t].link => artifact[k] = "none"
       THEN Goes(t, "standing") /\ UNCHANGED lockVars
       ELSE End(t)
    /\ UNCHANGED <<rowVars, expired, authorityVars>>

(* The UPDATE that retires links finds its rows. *)
FindStanding(t) ==
    /\ txn[t].stage = "standing"
    /\ txn' = [txn EXCEPT ![t].stage = "mark", ![t].seen = {k \in Link : Usable(t, k)}]
    /\ UNCHANGED <<rowVars, expired, authorityVars, lockVars>>

(* It waits for each row, and marks it if it is still unused.  Nobody else *)
(* sees the mark before the commit, but the row stays locked.              *)
MarkStanding(t, k) ==
    /\ txn[t].stage = "mark"
    /\ k \in txn[t].seen
    /\ linkLock[k] = Nobody
    /\ linkLock' = IF artifact[k] = "unused" THEN [linkLock EXCEPT ![k] = t] ELSE linkLock
    /\ txn' = [txn EXCEPT ![t].seen = @ \ {k}]
    /\ UNCHANGED <<rowVars, expired, authorityVars, accountLock, clientShare>>

(* INSERT and COMMIT.  A second link of the job violates an index. *)
InsertLink(t) ==
    /\ txn[t].stage = "mark"
    /\ txn[t].seen = {}
    /\ artifact' = IF artifact[txn[t].link] = "none"
                   THEN [k \in Link |->
                            IF k = txn[t].link THEN "unused"
                            ELSE IF linkLock[k] = t THEN "used" ELSE artifact[k]]
                   ELSE artifact
    /\ End(t)
    /\ UNCHANGED <<logins, expired, authorityVars>>

-----------------------------------------------------------------------------
(* consumeAuthorizedMagicLink.                                             *)

BeginVisit(t, l) ==
    /\ txn[t] = Idle
    /\ txn' = [txn EXCEPT ![t] =
                 TxnAt(IF l \in Bound THEN "client" ELSE "find", l, expired, {})]
    /\ UNCHANGED <<rowVars, expired, authorityVars, lockVars>>

(* SELECT ... FOR UPDATE OF token, account finds the row, *)
FindLink(t) ==
    /\ txn[t].stage = "find"
    /\ IF Usable(t, txn[t].link)
       THEN Goes(t, "link") /\ UNCHANGED lockVars
       ELSE End(t)
    /\ UNCHANGED <<rowVars, expired, authorityVars>>

(* locks the link *)
LockLink(t) ==
    /\ txn[t].stage = "link"
    /\ linkLock[txn[t].link] = Nobody
    /\ linkLock' = [linkLock EXCEPT ![txn[t].link] = t]
    /\ Goes(t, "owner")
    /\ UNCHANGED <<rowVars, expired, authorityVars, accountLock, clientShare>>

(* and then its owner, and checks the condition on what it has locked. *)
LockOwner(t) ==
    /\ txn[t].stage = "owner"
    /\ accountLock = Nobody
    /\ IF Usable(t, txn[t].link) /\ accountActive
       THEN accountLock' = t /\ Goes(t, "consume") /\ UNCHANGED <<linkLock, clientShare>>
       ELSE End(t)
    /\ UNCHANGED <<rowVars, expired, authorityVars>>

(* The link, the account and the audit row, and COMMIT. *)
ConsumeLink(t) ==
    LET l == txn[t].link IN
    /\ txn[t].stage = "consume"
    /\ IF Usable(t, l) /\ accountActive
       THEN /\ artifact' = [artifact EXCEPT ![l] = "used"]
            /\ logins' = [logins EXCEPT ![l] = @ + 1]
       ELSE UNCHANGED rowVars
    /\ End(t)
    /\ UNCHANGED <<expired, authorityVars>>

-----------------------------------------------------------------------------
(* x waits for y to commit or roll back. *)
Awaits(x, y) ==
    \/ txn[x].stage \in {"account", "owner"} /\ accountLock = y
    \/ txn[x].stage = "link" /\ linkLock[txn[x].link] = y
    \/ txn[x].stage = "mark" /\ \E k \in txn[x].seen : linkLock[k] = y

Deadlocked(t) == \E u \in Txn : Awaits(t, u) /\ Awaits(u, t)

(* A statement fails, or the process stops, or PostgreSQL ends a circle. *)
Fail(t) ==
    /\ txn[t] # Idle
    /\ End(t)
    /\ UNCHANGED <<rowVars, expired, authorityVars>>

Expire(l) ==
    /\ artifact[l] # "none" /\ l \notin expired
    /\ expired' = expired \cup {l}
    /\ UNCHANGED <<rowVars, authorityVars, lockVars, txn>>

(* An administrator's UPDATE waits for the row it changes. *)
ChangeAccount ==
    /\ changes < MaxChanges /\ accountLock = Nobody
    /\ accountActive' = ~accountActive
    /\ changes' = changes + 1
    /\ UNCHANGED <<rowVars, expired, clientActive, lockVars, txn>>

ChangeClient ==
    /\ changes < MaxChanges /\ clientShare = {}
    /\ clientActive' = ~clientActive
    /\ changes' = changes + 1
    /\ UNCHANGED <<rowVars, expired, accountActive, lockVars, txn>>

LinkInit ==
    /\ artifact = [l \in Link |-> "none"]
    /\ logins = [l \in Link |-> 0]
    /\ expired = {}
    /\ accountActive = TRUE /\ clientActive = TRUE /\ changes = 0
    /\ accountLock = Nobody
    /\ linkLock = [l \in Link |-> Nobody]
    /\ clientShare = {}
    /\ txn = [t \in Txn |-> Idle]

IssueStep(t) ==
    \/ LockAccount(t) \/ LockClient(t) \/ FindExisting(t) \/ FindNewest(t)
    \/ FindStanding(t) \/ InsertLink(t)
    \/ \E k \in Link : MarkStanding(t, k)

VisitStep(t) ==
    LockClient(t) \/ FindLink(t) \/ LockLink(t) \/ LockOwner(t) \/ ConsumeLink(t)

LinkNext ==
    \/ \E t \in Issuer : IssueStep(t) \/ \E l \in Link : BeginIssue(t, l)
    \/ \E t \in Visitor : VisitStep(t) \/ \E l \in Link : BeginVisit(t, l)
    \/ \E t \in Txn : Fail(t)
    \/ \E l \in Link : Expire(l)
    \/ ChangeAccount \/ ChangeClient

LinkSpec == LinkInit /\ [][LinkNext]_linkVars

(* A statement that does not wait is answered, a lock goes to whoever      *)
(* waits for it in turn, and a circle is found after deadlock_timeout.     *)
LinkFairSpec ==
    /\ LinkSpec
    /\ \A t \in Issuer : SF_linkVars(IssueStep(t))
    /\ \A t \in Visitor : SF_linkVars(VisitStep(t))
    /\ \A t \in Txn : WF_linkVars(Deadlocked(t) /\ Fail(t))

-----------------------------------------------------------------------------
LinkTypeOK ==
    /\ artifact \in [Link -> {"none", "unused", "used"}]
    /\ logins \in [Link -> Nat]
    /\ expired \subseteq Link
    /\ accountActive \in BOOLEAN /\ clientActive \in BOOLEAN
    /\ changes \in 0 .. MaxChanges
    /\ accountLock \in Txn \cup {Nobody}
    /\ linkLock \in [Link -> Txn \cup {Nobody}]
    /\ clientShare \subseteq Txn
    /\ txn \in [Txn -> [stage : TxnStage, link : Link \cup {NoLink},
                        gone : SUBSET Link, seen : SUBSET Link]]

(* Once a newer job has had a link, an older one's is used or has expired: *)
(* a callback that holds on to the older link across the issue can use it  *)
(* only if it expired since the callback began, which NOW() does not tell. *)
NewestStands ==
    \A j, k \in Link :
        j < k /\ artifact[k] # "none" /\ artifact[j] = "unused" => j \in expired

(* "so a concurrent revocation cannot pass an earlier route-only check and *)
(* then gain authority": whoever logs in does so with an unused link of an *)
(* account that is active at the commit, and a bound link is neither used  *)
(* nor issued without its client.                                          *)
LoginsHaveAuthority ==
    [][\A l \in Link :
         /\ logins'[l] # logins[l] => logins[l] = 0 /\ artifact[l] = "unused" /\ accountActive
         /\ l \in Bound /\ (logins'[l] # logins[l] \/ (artifact[l] = "none" /\ artifact'[l] # "none"))
               => clientActive]_linkVars

(* An issue that has to wait for a link waits for a callback that already  *)
(* waits for it: the two lock the account and the link in opposite orders, *)
(* so the wait ends only when one of them is ended with an error.  Longer  *)
(* circles there are none, since of any two transactions that are waited   *)
(* for in a row one holds the account.                                     *)
LinkWaitsCross ==
    \A x, y \in Txn : Awaits(x, y) =>
        /\ txn[x].stage = "mark" => Awaits(y, x)
        /\ \A z \in Txn : Awaits(y, z) => accountLock \in {y, z}

(* Every transaction ends. *)
TransactionsEnd == \A t \in Txn : txn[t] # Idle ~> txn[t] = Idle
=============================================================================
