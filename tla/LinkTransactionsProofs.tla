----------------------- MODULE LinkTransactionsProofs -----------------------
(***************************************************************************)
(* What the row locks of issues and callbacks are good for, for any number *)
(* of links and of transactions at once.                                   *)
(*                                                                         *)
(* Whatever a transaction relies on about the links' rows it relies on     *)
(* while it holds the account: so the steps of others cannot disturb it    *)
(* (OthersKept), and what remains is its own step.                         *)
(***************************************************************************)
EXTENDS LinkTransactions, TLAPS

(* Where an issue and a callback hold the account's row.                   *)
HoldsAccount(t) ==
    \/ t \in Issuer /\ txn[t].stage \in {"client", "existing", "newest", "standing", "mark"}
    \/ t \in Visitor /\ txn[t].stage = "consume"

StagesOf(t) ==
    IF t \in Issuer
    THEN {"idle", "account", "client", "existing", "newest", "standing", "mark"}
    ELSE {"idle", "client", "find", "link", "owner", "consume"}

(* A transaction stands where its kind can, with a link in hand.           *)
PlaceInv(t) ==
    /\ txn[t].stage \in StagesOf(t)
    /\ txn[t].stage # "idle" => txn[t].link \in Link
    /\ txn[t].gone \subseteq expired

LocksInv(t) ==
    /\ accountLock = t <=> HoldsAccount(t)
    /\ \A k \in Link : linkLock[k] = t =>
          IF t \in Visitor THEN txn[t].link = k /\ txn[t].stage \in {"owner", "consume"}
          ELSE txn[t].stage = "mark" /\ artifact[k] = "unused"
    /\ t \in Visitor /\ txn[t].stage \in {"owner", "consume"} => linkLock[txn[t].link] = t
    /\ txn[t].stage \notin {"idle", "account", "client"} /\ txn[t].link \in Bound
          => t \in clientShare

(* What it has found out and still counts on.                              *)
FoundInv(t) ==
    /\ txn[t].stage \in {"newest", "standing", "mark"} => artifact[txn[t].link] = "none"
    /\ txn[t].stage \in {"standing", "mark"} =>
          \A k \in Link : k > txn[t].link => artifact[k] = "none"
    /\ txn[t].stage = "mark" =>
          \A k \in Link : artifact[k] = "unused" =>
              k \in txn[t].gone \cup txn[t].seen \/ linkLock[k] = t
    /\ txn[t].stage = "consume" => artifact[txn[t].link] = "unused" /\ accountActive

TxnInv(t) == PlaceInv(t) /\ LocksInv(t) /\ FoundInv(t)

SharedInv == clientShare # {} => clientActive

LoginInv == \A l \in Link : logins[l] # 0 => artifact[l] = "used"

LinkInv ==
    /\ LinkTypeOK
    /\ SharedInv /\ LoginInv /\ NewestStands
    /\ \A t \in Txn : TxnInv(t)

-----------------------------------------------------------------------------
(* A transaction that waits for the account, or holds no lock yet, counts  *)
(* on no row.                                                              *)
LEMMA OthersKept ==
    ASSUME LinkInv, NEW u \in Txn,
           txn'[u] = txn[u],
           accountLock' = u <=> accountLock = u,
           \A k \in Link : linkLock'[k] = u <=> linkLock[k] = u,
           u \in clientShare => u \in clientShare',
           expired \subseteq expired',
           HoldsAccount(u) => artifact' = artifact /\ accountActive' = accountActive
    PROVE  TxnInv(u)'
<1>1. TxnInv(u) /\ (u \in Issuer \/ u \in Visitor) /\ ~(u \in Issuer /\ u \in Visitor)
  BY LinkAssumption DEF LinkInv, Txn
<1>2. PlaceInv(u)'
  BY <1>1 DEF TxnInv, PlaceInv, StagesOf
<1>3. CASE HoldsAccount(u)
  <2>0. /\ txn'[u] = txn[u] /\ artifact' = artifact
        /\ HoldsAccount(u)' <=> HoldsAccount(u)
    BY <1>3 DEF HoldsAccount
  <2>1. LocksInv(u)'
    BY <1>1, <2>0 DEF TxnInv, LocksInv, PlaceInv
  <2>2. FoundInv(u)'
    BY <1>1, <1>3 DEF TxnInv, FoundInv
  <2>3. QED
    BY <1>2, <2>1, <2>2 DEF TxnInv
<1>4. CASE ~HoldsAccount(u)
  <2>1. txn[u].stage \notin {"newest", "standing", "mark", "consume"}
    BY <1>1, <1>4 DEF TxnInv, PlaceInv, StagesOf, HoldsAccount
  <2>2. LocksInv(u)'
    BY <1>1, <1>4, <2>1 DEF TxnInv, LocksInv, PlaceInv, StagesOf, HoldsAccount
  <2>3. FoundInv(u)'
    BY <2>1 DEF FoundInv
  <2>4. QED
    BY <1>2, <2>2, <2>3 DEF TxnInv
<1>5. QED
  BY <1>3, <1>4

(* A transaction that has ended holds nothing and knows nothing.           *)
LEMMA EndedInv ==
    ASSUME LinkInv, NEW t \in Txn, End(t)
    PROVE  /\ TxnInv(t)'
           /\ txn' \in [Txn -> [stage : TxnStage, link : Link \cup {NoLink},
                                gone : SUBSET Link, seen : SUBSET Link]]
           /\ accountLock' \in Txn \cup {Nobody}
           /\ linkLock' \in [Link -> Txn \cup {Nobody}]
           /\ clientShare' \subseteq clientShare
           /\ \A u \in Txn \ {t} :
                 /\ txn'[u] = txn[u]
                 /\ accountLock' = u <=> accountLock = u
                 /\ \A k \in Link : linkLock'[k] = u <=> linkLock[k] = u
                 /\ u \in clientShare => u \in clientShare'
<1>1. /\ txn \in [Txn -> [stage : TxnStage, link : Link \cup {NoLink},
                          gone : SUBSET Link, seen : SUBSET Link]]
      /\ accountLock \in Txn \cup {Nobody}
      /\ linkLock \in [Link -> Txn \cup {Nobody}]
      /\ clientShare \subseteq Txn
  BY DEF LinkInv, LinkTypeOK
<1>2. Idle \in [stage : TxnStage, link : Link \cup {NoLink}, gone : SUBSET Link, seen : SUBSET Link]
  BY DEF Idle, TxnAt, TxnStage
<1>3. /\ txn'[t] = Idle
      /\ accountLock' # t
      /\ \A k \in Link : linkLock'[k] # t
  BY <1>1, LinkAssumption DEF End
<1>4. TxnInv(t)'
  BY <1>3 DEF TxnInv, PlaceInv, LocksInv, FoundInv, HoldsAccount, StagesOf, Idle, TxnAt
<1>5. \A u \in Txn \ {t} :
         /\ txn'[u] = txn[u]
         /\ accountLock' = u <=> accountLock = u
         /\ \A k \in Link : linkLock'[k] = u <=> linkLock[k] = u
         /\ u \in clientShare => u \in clientShare'
  BY <1>1, LinkAssumption DEF End
<1>6. QED
  BY <1>1, <1>2, <1>4, <1>5 DEF End

(* Ending without a word about the links keeps the invariant.              *)
LEMMA EndStep ==
    ASSUME LinkInv, NEW t \in Txn, End(t), UNCHANGED <<rowVars, expired, authorityVars>>
    PROVE  LinkInv'
<1>1. LinkTypeOK'
  BY EndedInv DEF LinkInv, LinkTypeOK, rowVars, authorityVars
<1>2. SharedInv' /\ LoginInv' /\ NewestStands'
  BY EndedInv DEF LinkInv, SharedInv, LoginInv, NewestStands, rowVars, authorityVars
<1>3. \A u \in Txn : TxnInv(u)'
  BY EndedInv, OthersKept DEF rowVars, authorityVars
<1>4. QED
  BY <1>1, <1>2, <1>3 DEF LinkInv

LEMMA LinkInitInv == LinkInit => LinkInv
<1> SUFFICES ASSUME LinkInit PROVE LinkInv
  OBVIOUS
<1>1. LinkTypeOK
  BY LinkAssumption DEF LinkInit, LinkTypeOK, Idle, TxnAt, TxnStage
<1>2. SharedInv /\ LoginInv /\ NewestStands
  BY DEF LinkInit, SharedInv, LoginInv, NewestStands
<1>3. ASSUME NEW t \in Txn PROVE TxnInv(t)
  BY LinkAssumption DEF LinkInit, TxnInv, PlaceInv, LocksInv, FoundInv, HoldsAccount, StagesOf, Idle, TxnAt
<1>4. QED
  BY <1>1, <1>2, <1>3 DEF LinkInv

-----------------------------------------------------------------------------
(* The steps of one transaction.                                           *)

(* An invariant step in which t alone moves.                               *)
LEMMA StepKeeps ==
    ASSUME LinkInv, NEW t \in Txn, LinkTypeOK', SharedInv', LoginInv', NewestStands', TxnInv(t)',
           expired \subseteq expired',
           \A u \in Txn \ {t} :
              /\ txn'[u] = txn[u]
              /\ accountLock' = u <=> accountLock = u
              /\ \A k \in Link : linkLock'[k] = u <=> linkLock[k] = u
              /\ u \in clientShare => u \in clientShare'
              /\ HoldsAccount(u) => artifact' = artifact /\ accountActive' = accountActive
    PROVE  LinkInv'
<1>1. \A u \in Txn \ {t} : TxnInv(u)'
  BY OthersKept
<1>2. QED
  BY <1>1 DEF LinkInv

LEMMA BeginStep ==
    ASSUME LinkInv, NEW t \in Txn, NEW l \in Link,
           (t \in Issuer /\ BeginIssue(t, l)) \/ (t \in Visitor /\ BeginVisit(t, l))
    PROVE  LinkInv'
<1>1. PICK stage \in {"account", "client", "find"} :
         /\ txn' = [txn EXCEPT ![t] = TxnAt(stage, l, expired, {})]
         /\ stage \in StagesOf(t)
         /\ t \in Issuer => stage = "account"
         /\ stage = "find" => l \notin Bound
  BY LinkAssumption DEF BeginIssue, BeginVisit, StagesOf
<1>2. txn[t] = Idle /\ UNCHANGED <<rowVars, expired, authorityVars, lockVars>>
  BY DEF BeginIssue, BeginVisit
<1>3. LinkTypeOK'
  BY <1>1, <1>2 DEF LinkInv, LinkTypeOK, TxnAt, TxnStage, rowVars, authorityVars, lockVars
<1>4. SharedInv' /\ LoginInv' /\ NewestStands'
  BY <1>2 DEF LinkInv, SharedInv, LoginInv, NewestStands, rowVars, authorityVars, lockVars
<1>5. /\ txn'[t] = TxnAt(stage, l, expired, {})
      /\ \A u \in Txn \ {t} : txn'[u] = txn[u]
  BY <1>1 DEF LinkInv, LinkTypeOK
<1>6. TxnInv(t)'
  <2>1. /\ txn[t].stage = "idle" /\ TxnInv(t) /\ ~(t \in Issuer /\ t \in Visitor)
        /\ txn'[t].stage = stage /\ txn'[t].link = l /\ txn'[t].gone = expired
        /\ UNCHANGED <<expired, accountLock, linkLock>>
    BY <1>2, <1>5, LinkAssumption DEF LinkInv, Idle, TxnAt, lockVars
  <2>2. PlaceInv(t)'
    BY <1>1, <2>1 DEF PlaceInv, StagesOf
  <2>3. LocksInv(t)' /\ FoundInv(t)'
    BY <1>1, <2>1 DEF TxnInv, LocksInv, FoundInv, HoldsAccount, StagesOf
  <2>4. QED
    BY <2>2, <2>3 DEF TxnInv
<1>7. QED
  BY <1>2, <1>3, <1>4, <1>5, <1>6, StepKeeps DEF rowVars, lockVars, authorityVars

LEMMA LockClientStep ==
    ASSUME LinkInv, NEW t \in Txn, LockClient(t)
    PROVE  LinkInv'
<1>1. CASE ~clientActive
  BY <1>1, EndStep DEF LockClient
<1>2. CASE clientActive
  <2>1. PICK stage \in {"existing", "find"} :
           /\ txn' = [txn EXCEPT ![t].stage = stage]
           /\ stage = "existing" <=> t \in Issuer
    BY <1>2 DEF LockClient, Goes
  <2>2. /\ txn[t].stage = "client" /\ clientShare' = clientShare \cup {t}
        /\ UNCHANGED <<rowVars, expired, authorityVars, accountLock, linkLock>>
    BY <1>2 DEF LockClient
  <2>3. LinkTypeOK'
    BY <2>1, <2>2 DEF LinkInv, LinkTypeOK, TxnStage, rowVars, authorityVars
  <2>4. SharedInv' /\ LoginInv' /\ NewestStands'
    BY <1>2, <2>2 DEF LinkInv, SharedInv, LoginInv, NewestStands, rowVars, authorityVars
  <2>5. /\ txn'[t] = [txn[t] EXCEPT !.stage = stage]
        /\ \A u \in Txn \ {t} : txn'[u] = txn[u]
    BY <2>1 DEF LinkInv, LinkTypeOK
  <2>6. TxnInv(t)'
    BY <2>1, <2>2, <2>5, LinkAssumption
    DEF LinkInv, LinkTypeOK, TxnInv, PlaceInv, LocksInv, FoundInv, HoldsAccount, StagesOf, rowVars, Txn
  <2>7. QED
    BY <2>2, <2>3, <2>4, <2>5, <2>6, StepKeeps DEF rowVars, authorityVars
<1>3. QED
  BY <1>1, <1>2

LEMMA LockAccountStep ==
    ASSUME LinkInv, NEW t \in Issuer, LockAccount(t)
    PROVE  LinkInv'
<1>1. PICK stage \in {"client", "existing"} :
         /\ txn' = [txn EXCEPT ![t].stage = stage]
         /\ stage = "existing" => txn[t].link \notin Bound
  BY DEF LockAccount, Goes, AfterAccount
<1>2. /\ txn[t].stage = "account" /\ accountLock = Nobody /\ accountLock' = t
      /\ UNCHANGED <<rowVars, expired, authorityVars, linkLock, clientShare>>
  BY DEF LockAccount
<1>3. /\ t \in Txn
      /\ txn'[t].stage = stage /\ txn'[t].link = txn[t].link /\ txn'[t].gone = txn[t].gone
      /\ \A u \in Txn \ {t} : txn'[u] = txn[u]
  BY <1>1 DEF LinkInv, LinkTypeOK, Txn
<1>4. LinkTypeOK'
  BY <1>1, <1>2, <1>3 DEF LinkInv, LinkTypeOK, TxnStage, rowVars, authorityVars
<1>5. SharedInv' /\ LoginInv' /\ NewestStands'
  BY <1>2 DEF LinkInv, SharedInv, LoginInv, NewestStands, rowVars, authorityVars
<1>6. TxnInv(t)'
  <2>1. TxnInv(t) /\ t \notin Visitor
    BY <1>3, LinkAssumption DEF LinkInv
  <2>2. PlaceInv(t)' /\ FoundInv(t)'
    BY <1>2, <1>3, <2>1 DEF TxnInv, PlaceInv, FoundInv, StagesOf
  <2>3. LocksInv(t)'
    BY <1>1, <1>2, <1>3, <2>1 DEF TxnInv, LocksInv, HoldsAccount, rowVars
  <2>4. QED
    BY <2>2, <2>3 DEF TxnInv
<1>7. QED
  BY <1>2, <1>3, <1>4, <1>5, <1>6, StepKeeps, LinkAssumption DEF rowVars, authorityVars

(* Where a statement only reads, what remains to show is what it found.    *)
LEMMA ReadStep ==
    ASSUME LinkInv, NEW t \in Txn, NEW stage \in StagesOf(t) \ {"idle"}, Goes(t, stage),
           txn[t].stage \in {"existing", "newest", "find"},
           stage \in {"newest", "standing", "link"},
           UNCHANGED <<rowVars, expired, authorityVars, lockVars>>,
           FoundInv(t)'
    PROVE  LinkInv'
<1>1. /\ txn'[t].stage = stage /\ txn'[t].link = txn[t].link /\ txn'[t].gone = txn[t].gone
      /\ \A u \in Txn \ {t} : txn'[u] = txn[u]
  BY DEF Goes, LinkInv, LinkTypeOK
<1>2. LinkTypeOK'
  BY DEF Goes, LinkInv, LinkTypeOK, TxnStage, StagesOf, rowVars, authorityVars, lockVars
<1>3. SharedInv' /\ LoginInv' /\ NewestStands'
  BY DEF LinkInv, SharedInv, LoginInv, NewestStands, rowVars, authorityVars, lockVars
<1>4. TxnInv(t)'
  <2>1. TxnInv(t) /\ ~(t \in Issuer /\ t \in Visitor)
    BY LinkAssumption DEF LinkInv
  <2>2. PlaceInv(t)'
    BY <1>1, <2>1 DEF TxnInv, PlaceInv, StagesOf
  <2>3. (accountLock = t <=> HoldsAccount(t))'
    BY <1>1, <2>1 DEF TxnInv, LocksInv, PlaceInv, HoldsAccount, StagesOf, lockVars
  <2>4. \A k \in Link : linkLock'[k] = t =>
           IF t \in Visitor THEN txn'[t].link = k /\ txn'[t].stage \in {"owner", "consume"}
           ELSE txn'[t].stage = "mark" /\ artifact'[k] = "unused"
    BY <1>1, <2>1 DEF TxnInv, LocksInv, lockVars, rowVars
  <2>5. QED
    BY <1>1, <2>1, <2>2, <2>3, <2>4 DEF TxnInv, LocksInv, lockVars
<1>5. QED
  BY <1>1, <1>2, <1>3, <1>4, StepKeeps DEF rowVars, authorityVars, lockVars

LEMMA FindExistingStep ==
    ASSUME LinkInv, NEW t \in Issuer, FindExisting(t)
    PROVE  LinkInv'
<1>1. t \in Txn /\ txn[t].stage = "existing"
  BY DEF Txn, FindExisting
<1>2. CASE artifact[txn[t].link] # "none"
  BY <1>1, <1>2, EndStep DEF FindExisting
<1>3. CASE artifact[txn[t].link] = "none"
  <2>1. /\ Goes(t, "newest") /\ UNCHANGED <<rowVars, expired, authorityVars, lockVars>>
        /\ "newest" \in StagesOf(t) \ {"idle"}
    BY <1>3 DEF FindExisting, StagesOf
  <2>2. FoundInv(t)'
    BY <1>1, <1>3, <2>1 DEF LinkInv, LinkTypeOK, FoundInv, Goes, rowVars
  <2>3. QED
    BY <1>1, <2>1, <2>2, ReadStep
<1>4. QED
  BY <1>2, <1>3

LEMMA FindNewestStep ==
    ASSUME LinkInv, NEW t \in Issuer, FindNewest(t)
    PROVE  LinkInv'
<1>1. t \in Txn /\ txn[t].stage = "newest"
  BY DEF Txn, FindNewest
<1>2. CASE ~\A k \in Link : k > txn[t].link => artifact[k] = "none"
  BY <1>1, <1>2, EndStep DEF FindNewest
<1>3. CASE \A k \in Link : k > txn[t].link => artifact[k] = "none"
  <2>1. /\ Goes(t, "standing") /\ UNCHANGED <<rowVars, expired, authorityVars, lockVars>>
        /\ "standing" \in StagesOf(t) \ {"idle"}
    BY <1>3 DEF FindNewest, StagesOf
  <2>2. artifact[txn[t].link] = "none"
    BY <1>1 DEF LinkInv, TxnInv, FoundInv
  <2>3. FoundInv(t)'
    BY <1>1, <1>3, <2>1, <2>2 DEF LinkInv, LinkTypeOK, FoundInv, Goes, rowVars
  <2>4. QED
    BY <1>1, <2>1, <2>3, ReadStep
<1>4. QED
  BY <1>2, <1>3

LEMMA FindLinkStep ==
    ASSUME LinkInv, NEW t \in Visitor, FindLink(t)
    PROVE  LinkInv'
<1>1. t \in Txn /\ txn[t].stage = "find" /\ t \notin Issuer
  BY LinkAssumption DEF Txn, FindLink
<1>2. CASE ~Usable(t, txn[t].link)
  BY <1>1, <1>2, EndStep DEF FindLink
<1>3. CASE Usable(t, txn[t].link)
  <2>1. /\ Goes(t, "link") /\ UNCHANGED <<rowVars, expired, authorityVars, lockVars>>
        /\ "link" \in StagesOf(t) \ {"idle"}
    BY <1>1, <1>3 DEF FindLink, StagesOf
  <2>2. FoundInv(t)'
    BY <1>1, <2>1 DEF LinkInv, LinkTypeOK, FoundInv, Goes
  <2>3. QED
    BY <1>1, <2>1, <2>2, ReadStep
<1>4. QED
  BY <1>2, <1>3

(* Every unused link is found, or had expired when the transaction began.  *)
LEMMA FindStandingStep ==
    ASSUME LinkInv, NEW t \in Issuer, FindStanding(t)
    PROVE  LinkInv'
<1> DEFINE seen == {k \in Link : Usable(t, k)}
<1>1. /\ t \in Txn /\ txn[t].stage = "standing" /\ seen \subseteq Link
      /\ txn' = [txn EXCEPT ![t].stage = "mark", ![t].seen = seen]
      /\ UNCHANGED <<rowVars, expired, authorityVars, lockVars>>
      /\ \A k \in Link : artifact[k] = "unused" => k \in txn[t].gone \cup seen
  BY DEF FindStanding, Txn, Usable
<1> HIDE DEF seen
<1>2. /\ txn'[t].stage = "mark" /\ txn'[t].link = txn[t].link
      /\ txn'[t].gone = txn[t].gone /\ txn'[t].seen = seen
      /\ \A u \in Txn \ {t} : txn'[u] = txn[u]
  BY <1>1 DEF LinkInv, LinkTypeOK
<1>3. LinkTypeOK'
  <2> DEFINE Row == [stage : TxnStage, link : Link \cup {NoLink},
                     gone : SUBSET Link, seen : SUBSET Link]
  <2>1. txn' \in [Txn -> Row]
    <3>1. txn \in [Txn -> Row] /\ txn[t] \in Row
      BY <1>1 DEF LinkInv, LinkTypeOK
    <3>2. [txn[t] EXCEPT !.stage = "mark", !.seen = seen] \in Row
      BY <1>1, <3>1 DEF TxnStage
    <3>3. txn' = [txn EXCEPT ![t] = [@ EXCEPT !.stage = "mark", !.seen = seen]]
      BY <1>1
    <3> HIDE DEF Row
    <3>4. QED
      BY <3>1, <3>2, <3>3
  <2>2. QED
    BY <1>1, <2>1 DEF LinkInv, LinkTypeOK, rowVars, authorityVars, lockVars
<1>4. SharedInv' /\ LoginInv' /\ NewestStands'
  BY <1>1 DEF LinkInv, SharedInv, LoginInv, NewestStands, rowVars, authorityVars, lockVars
<1>5. TxnInv(t)'
  <2>1. TxnInv(t) /\ t \notin Visitor
    BY <1>1, LinkAssumption DEF LinkInv
  <2>2. PlaceInv(t)'
    <3>1. txn[t].link \in Link /\ txn[t].gone \subseteq expired
      BY <1>1, <2>1 DEF TxnInv, PlaceInv
    <3>2. expired' = expired
      BY <1>1
    <3>3. QED
      BY <1>2, <3>1, <3>2 DEF PlaceInv, StagesOf
  <2>3. LocksInv(t)'
    BY <1>1, <1>2, <2>1 DEF TxnInv, LocksInv, HoldsAccount, rowVars, lockVars
  <2>4. FoundInv(t)'
    BY <1>1, <1>2, <2>1 DEF TxnInv, FoundInv, rowVars, lockVars
  <2>5. QED
    BY <2>2, <2>3, <2>4 DEF TxnInv
<1>6. QED
  BY <1>1, <1>2, <1>3, <1>4, <1>5, StepKeeps DEF rowVars, authorityVars, lockVars

LEMMA MarkStandingStep ==
    ASSUME LinkInv, NEW t \in Issuer, NEW k \in Link, MarkStanding(t, k)
    PROVE  LinkInv'
<1>1. /\ t \in Txn /\ txn[t].stage = "mark" /\ k \in txn[t].seen /\ linkLock[k] = Nobody
      /\ linkLock' = IF artifact[k] = "unused" THEN [linkLock EXCEPT ![k] = t] ELSE linkLock
      /\ txn' = [txn EXCEPT ![t].seen = @ \ {k}]
      /\ UNCHANGED <<rowVars, expired, authorityVars, accountLock, clientShare>>
  BY DEF MarkStanding, Txn
<1>2. /\ txn'[t].stage = "mark" /\ txn'[t].link = txn[t].link
      /\ txn'[t].gone = txn[t].gone /\ txn'[t].seen = txn[t].seen \ {k}
      /\ \A u \in Txn \ {t} : txn'[u] = txn[u]
      /\ linkLock'[k] = IF artifact[k] = "unused" THEN t ELSE Nobody
      /\ \A j \in Link \ {k} : linkLock'[j] = linkLock[j]
  BY <1>1 DEF LinkInv, LinkTypeOK
<1>3. LinkTypeOK'
  BY <1>1 DEF LinkInv, LinkTypeOK, rowVars, authorityVars
<1>4. SharedInv' /\ LoginInv' /\ NewestStands'
  BY <1>1 DEF LinkInv, SharedInv, LoginInv, NewestStands, rowVars, authorityVars
<1>5. TxnInv(t)'
  <2>1. TxnInv(t) /\ t \notin Visitor /\ t # Nobody
    BY <1>1, LinkAssumption DEF LinkInv
  <2>2. PlaceInv(t)' /\ FoundInv(t)'
    BY <1>1, <1>2, <2>1 DEF TxnInv, PlaceInv, FoundInv, StagesOf, rowVars
  <2>3. LocksInv(t)'
    BY <1>1, <1>2, <2>1 DEF TxnInv, LocksInv, HoldsAccount, rowVars
  <2>4. QED
    BY <2>2, <2>3 DEF TxnInv
<1>6. \A u \in Txn \ {t}, j \in Link : linkLock'[j] = u <=> linkLock[j] = u
  BY <1>1, <1>2, LinkAssumption
<1>7. QED
  BY <1>1, <1>2, <1>3, <1>4, <1>5, <1>6, StepKeeps DEF rowVars, authorityVars

(* While the account is locked no link is issued: what the issue found     *)
(* unused it has marked, the rest has expired, and no newer job has one.   *)
LEMMA InsertLinkStep ==
    ASSUME LinkInv, NEW t \in Issuer, InsertLink(t)
    PROVE  LinkInv'
<1> DEFINE l == txn[t].link
<1>1. /\ t \in Txn /\ txn[t].stage = "mark" /\ txn[t].seen = {} /\ End(t)
      /\ UNCHANGED <<logins, expired, authorityVars>>
  BY DEF InsertLink, Txn
<1>2. TxnInv(t) /\ t \notin Visitor
  BY <1>1, LinkAssumption DEF LinkInv
<1>3. /\ l \in Link /\ artifact[l] = "none"
      /\ \A k \in Link : k > l => artifact[k] = "none"
      /\ \A k \in Link : artifact[k] = "unused" => k \in expired \/ linkLock[k] = t
      /\ \A k \in Link : linkLock[k] = t => artifact[k] = "unused"
      /\ accountLock = t
  BY <1>1, <1>2 DEF TxnInv, PlaceInv, LocksInv, FoundInv, HoldsAccount
<1>4. /\ artifact' = [k \in Link |-> IF k = l THEN "unused"
                                     ELSE IF linkLock[k] = t THEN "used" ELSE artifact[k]]
      /\ artifact \in [Link -> {"none", "unused", "used"}]
  BY <1>3 DEF InsertLink, LinkInv, LinkTypeOK
<1> HIDE DEF l
<1>5. LinkTypeOK'
  BY <1>1, <1>4, EndedInv DEF LinkInv, LinkTypeOK, authorityVars
<1>6. SharedInv'
  BY <1>1, EndedInv DEF LinkInv, SharedInv, authorityVars
<1>7. LoginInv'
  BY <1>1, <1>3, <1>4 DEF LinkInv, LoginInv
<1>8. NewestStands'
  <2> SUFFICES ASSUME NEW j \in Link, NEW k \in Link, j < k,
                      artifact'[k] # "none", artifact'[j] = "unused"
               PROVE  j \in expired
    BY <1>1 DEF NewestStands
  <2>1. CASE j = l
    BY <1>3, <1>4, <2>1, LinkAssumption
  <2>2. CASE j # l
    BY <1>3, <1>4, <2>2
  <2>3. QED
    BY <2>1, <2>2
<1>9. \A u \in Txn \ {t} : ~HoldsAccount(u)
  BY <1>3 DEF LinkInv, TxnInv, LocksInv
<1>10. QED
  BY <1>1, <1>5, <1>6, <1>7, <1>8, <1>9, EndedInv, StepKeeps

LEMMA LockLinkStep ==
    ASSUME LinkInv, NEW t \in Visitor, LockLink(t)
    PROVE  LinkInv'
<1> DEFINE l == txn[t].link
<1>1. /\ t \in Txn /\ txn[t].stage = "link" /\ linkLock[l] = Nobody
      /\ linkLock' = [linkLock EXCEPT ![l] = t] /\ txn' = [txn EXCEPT ![t].stage = "owner"]
      /\ UNCHANGED <<rowVars, expired, authorityVars, accountLock, clientShare>>
  BY DEF LockLink, Goes, Txn
<1>2. TxnInv(t) /\ t \notin Issuer /\ l \in Link
  BY <1>1, LinkAssumption DEF LinkInv, TxnInv, PlaceInv
<1>3. /\ txn'[t].stage = "owner" /\ txn'[t].link = l /\ txn'[t].gone = txn[t].gone
      /\ \A u \in Txn \ {t} : txn'[u] = txn[u]
      /\ linkLock'[l] = t
      /\ \A k \in Link \ {l} : linkLock'[k] = linkLock[k]
  BY <1>1, <1>2 DEF LinkInv, LinkTypeOK
<1>4. LinkTypeOK'
  BY <1>1, <1>2 DEF LinkInv, LinkTypeOK, TxnStage, rowVars, authorityVars
<1>5. SharedInv' /\ LoginInv' /\ NewestStands'
  BY <1>1 DEF LinkInv, SharedInv, LoginInv, NewestStands, rowVars, authorityVars
<1>6. TxnInv(t)'
  <2>1. PlaceInv(t)' /\ FoundInv(t)'
    BY <1>1, <1>2, <1>3 DEF TxnInv, PlaceInv, FoundInv, StagesOf
  <2>2. LocksInv(t)'
    BY <1>1, <1>2, <1>3 DEF TxnInv, LocksInv, HoldsAccount
  <2>3. QED
    BY <2>1, <2>2 DEF TxnInv
<1>7. \A u \in Txn \ {t}, k \in Link : linkLock'[k] = u <=> linkLock[k] = u
  BY <1>1, <1>3, LinkAssumption
<1>8. QED
  BY <1>1, <1>3, <1>4, <1>5, <1>6, <1>7, StepKeeps DEF rowVars, authorityVars

LEMMA LockOwnerStep ==
    ASSUME LinkInv, NEW t \in Visitor, LockOwner(t)
    PROVE  LinkInv'
<1>1. t \in Txn /\ txn[t].stage = "owner" /\ accountLock = Nobody
      /\ UNCHANGED <<rowVars, expired, authorityVars>>
  BY DEF LockOwner, Txn
<1>2. TxnInv(t) /\ t \notin Issuer
  BY <1>1, LinkAssumption DEF LinkInv
<1>3. CASE ~(Usable(t, txn[t].link) /\ accountActive)
  BY <1>1, <1>3, EndStep DEF LockOwner
<1>4. CASE Usable(t, txn[t].link) /\ accountActive
  <2>1. /\ accountLock' = t /\ txn' = [txn EXCEPT ![t].stage = "consume"]
        /\ UNCHANGED <<linkLock, clientShare>> /\ artifact[txn[t].link] = "unused"
    BY <1>4 DEF LockOwner, Goes, Usable
  <2>2. /\ txn'[t].stage = "consume" /\ txn'[t].link = txn[t].link
        /\ txn'[t].gone = txn[t].gone
        /\ \A u \in Txn \ {t} : txn'[u] = txn[u]
    BY <1>1, <2>1 DEF LinkInv, LinkTypeOK
  <2>3. LinkTypeOK'
    BY <1>1, <2>1 DEF LinkInv, LinkTypeOK, TxnStage, rowVars, authorityVars
  <2>4. SharedInv' /\ LoginInv' /\ NewestStands'
    BY <1>1, <2>1 DEF LinkInv, SharedInv, LoginInv, NewestStands, rowVars, authorityVars
  <2>5. TxnInv(t)'
    <3>1. PlaceInv(t)'
      BY <1>1, <1>2, <2>2 DEF TxnInv, PlaceInv, StagesOf
    <3>2. FoundInv(t)'
      BY <1>1, <1>4, <2>1, <2>2 DEF FoundInv, rowVars, authorityVars
    <3>3. LocksInv(t)'
      BY <1>1, <1>2, <2>1, <2>2 DEF TxnInv, LocksInv, HoldsAccount
    <3>4. QED
      BY <3>1, <3>2, <3>3 DEF TxnInv
  <2>6. QED
    BY <1>1, <2>1, <2>2, <2>3, <2>4, <2>5, StepKeeps, LinkAssumption DEF rowVars, authorityVars
<1>5. QED
  BY <1>3, <1>4

LEMMA ConsumeLinkStep ==
    ASSUME LinkInv, NEW t \in Visitor, ConsumeLink(t)
    PROVE  LinkInv'
<1> DEFINE l == txn[t].link
<1>1. t \in Txn /\ txn[t].stage = "consume" /\ End(t) /\ UNCHANGED <<expired, authorityVars>>
  BY DEF ConsumeLink, Txn
<1>2. l \in Link /\ accountLock = t
  BY <1>1 DEF LinkInv, TxnInv, PlaceInv, LocksInv, HoldsAccount
<1>3. CASE ~(Usable(t, l) /\ accountActive)
  BY <1>1, <1>3, EndStep DEF ConsumeLink
<1>4. CASE Usable(t, l) /\ accountActive
  <2>1. /\ artifact' = [artifact EXCEPT ![l] = "used"] /\ logins' = [logins EXCEPT ![l] = @ + 1]
        /\ artifact[l] = "unused"
    BY <1>4 DEF ConsumeLink, Usable
  <2> HIDE DEF l
  <2>2. LinkTypeOK'
    BY <1>1, <1>2, <2>1, EndedInv DEF LinkInv, LinkTypeOK, authorityVars
  <2>3. SharedInv'
    BY <1>1, EndedInv DEF LinkInv, SharedInv, authorityVars
  <2>4. LoginInv' /\ NewestStands'
    BY <1>1, <1>2, <2>1 DEF LinkInv, LinkTypeOK, LoginInv, NewestStands
  <2>5. \A u \in Txn \ {t} : ~HoldsAccount(u)
    BY <1>2 DEF LinkInv, TxnInv, LocksInv
  <2>6. QED
    BY <1>1, <2>2, <2>3, <2>4, <2>5, EndedInv, StepKeeps
<1>5. QED
  BY <1>3, <1>4

(* Time and the administrator.                                             *)
LEMMA EnvironmentStep ==
    ASSUME LinkInv, (\E l \in Link : Expire(l)) \/ ChangeAccount \/ ChangeClient \/ UNCHANGED linkVars
    PROVE  LinkInv'
<1>1. UNCHANGED <<rowVars, lockVars, txn>> /\ expired \subseteq expired'
  BY DEF Expire, ChangeAccount, ChangeClient, linkVars
<1>2. LinkTypeOK'
  <2>1. /\ expired' \subseteq Link
        /\ accountActive' \in BOOLEAN /\ clientActive' \in BOOLEAN
    BY DEF LinkInv, LinkTypeOK, Expire, ChangeAccount, ChangeClient, linkVars, authorityVars
  <2>2. changes' \in 0 .. MaxChanges
    <3>1. \/ changes' = changes
          \/ changes < MaxChanges /\ changes' = changes + 1
      BY DEF Expire, ChangeAccount, ChangeClient, linkVars, authorityVars
    <3>2. QED
      BY <3>1, LinkAssumption DEF LinkInv, LinkTypeOK
  <2>3. QED
    BY <1>1, <2>1, <2>2 DEF LinkInv, LinkTypeOK, rowVars, lockVars
<1>3. SharedInv'
  BY DEF LinkInv, SharedInv, Expire, ChangeAccount, ChangeClient, linkVars, lockVars, authorityVars
<1>4. LoginInv' /\ NewestStands'
  BY <1>1 DEF LinkInv, LoginInv, NewestStands, rowVars
<1>5. ASSUME NEW u \in Txn PROVE TxnInv(u)'
  <2>1. HoldsAccount(u) => accountActive' = accountActive
    <3>1. HoldsAccount(u) => accountLock # Nobody
      BY LinkAssumption DEF LinkInv, TxnInv, LocksInv
    <3>2. QED
      BY <3>1 DEF Expire, ChangeAccount, ChangeClient, linkVars, authorityVars
  <2>2. QED
    BY <1>1, <2>1, OthersKept DEF rowVars, lockVars
<1>6. QED
  BY <1>2, <1>3, <1>4, <1>5 DEF LinkInv

LEMMA LinkStep == LinkInv /\ [LinkNext]_linkVars => LinkInv'
<1> SUFFICES ASSUME LinkInv, [LinkNext]_linkVars PROVE LinkInv'
  OBVIOUS
<1>1. ASSUME NEW t \in Issuer, IssueStep(t) \/ \E l \in Link : BeginIssue(t, l)
      PROVE  LinkInv'
  BY <1>1, BeginStep, LockAccountStep, LockClientStep, FindExistingStep, FindNewestStep,
     FindStandingStep, MarkStandingStep, InsertLinkStep DEF IssueStep, Txn
<1>2. ASSUME NEW t \in Visitor, VisitStep(t) \/ \E l \in Link : BeginVisit(t, l)
      PROVE  LinkInv'
  BY <1>2, BeginStep, LockClientStep, FindLinkStep, LockLinkStep, LockOwnerStep,
     ConsumeLinkStep DEF VisitStep, Txn
<1>3. ASSUME NEW t \in Txn, Fail(t) PROVE LinkInv'
  BY <1>3, EndStep DEF Fail
<1>4. QED
  BY <1>1, <1>2, <1>3, EnvironmentStep DEF LinkNext

(* The inductive invariant holds in every state of every execution.        *)
LEMMA LinkInvariant == LinkSpec => []LinkInv
  BY LinkInitInv, LinkStep, PTL DEF LinkSpec

(* Rows, locks and transactions keep their types.                          *)
THEOREM LinkTypeCorrect == LinkSpec => []LinkTypeOK
  BY LinkInvariant, PTL DEF LinkInv

(* However issues and callbacks interleave, an older job's link that is    *)
(* still unused beside a newer job's has expired.                          *)
THEOREM NewestStandsHolds == LinkSpec => []NewestStands
  BY LinkInvariant, PTL DEF LinkInv

-----------------------------------------------------------------------------
(* Only the last statement of a transaction changes the links' rows.       *)
LEMMA RowsChangeByCommit ==
    ASSUME [LinkNext]_linkVars, artifact' # artifact \/ logins' # logins
    PROVE  (\E t \in Issuer : InsertLink(t)) \/ \E t \in Visitor : ConsumeLink(t)
<1>1. ASSUME NEW t \in Issuer, IssueStep(t) \/ \E l \in Link : BeginIssue(t, l)
      PROVE  InsertLink(t)
  BY <1>1 DEF IssueStep, BeginIssue, LockAccount, LockClient, FindExisting, FindNewest,
     FindStanding, MarkStanding, rowVars
<1>2. ASSUME NEW t \in Visitor, VisitStep(t) \/ \E l \in Link : BeginVisit(t, l)
      PROVE  ConsumeLink(t)
  BY <1>2 DEF VisitStep, BeginVisit, LockClient, FindLink, LockLink, LockOwner, rowVars
<1>3. ~(\E t \in Txn : Fail(t)) /\ ~(\E l \in Link : Expire(l))
      /\ ~ChangeAccount /\ ~ChangeClient /\ ~UNCHANGED linkVars
  BY DEF Fail, Expire, ChangeAccount, ChangeClient, linkVars, rowVars
<1>4. QED
  BY <1>1, <1>2, <1>3 DEF LinkNext

(* A callback logs in by its own link, while it holds the account.         *)
LEMMA ConsumeHasAuthority ==
    ASSUME LinkInv, NEW t \in Visitor, ConsumeLink(t), NEW l \in Link
    PROVE  /\ logins'[l] # logins[l] =>
                 /\ logins[l] = 0 /\ artifact[l] = "unused" /\ accountActive
                 /\ l \in Bound => clientActive
           /\ artifact[l] = "none" => artifact'[l] = "none"
<1>1. /\ t \in Txn /\ txn[t].stage = "consume" /\ TxnInv(t) /\ LinkTypeOK /\ SharedInv /\ LoginInv
  BY DEF ConsumeLink, LinkInv, Txn
<1>2. txn[t].link \in Link
  BY <1>1 DEF TxnInv, PlaceInv
<1>3. artifact[txn[t].link] = "unused" /\ accountActive
  BY <1>1 DEF TxnInv, FoundInv
<1>4. txn[t].link \in Bound => clientActive
  BY <1>1 DEF TxnInv, LocksInv, SharedInv
<1>5. logins[txn[t].link] = 0
  BY <1>1, <1>2, <1>3 DEF LoginInv
<1>6. \/ UNCHANGED rowVars
      \/ /\ artifact' = [artifact EXCEPT ![txn[t].link] = "used"]
         /\ logins' = [logins EXCEPT ![txn[t].link] = @ + 1]
  BY DEF ConsumeLink
<1>7. QED
  BY <1>1, <1>2, <1>3, <1>4, <1>5, <1>6 DEF LinkTypeOK, rowVars

(* An issue inserts its own link, while it shares the client of a bound one. *)
LEMMA InsertHasAuthority ==
    ASSUME LinkInv, NEW t \in Issuer, InsertLink(t), NEW l \in Link
    PROVE  /\ logins' = logins
           /\ l \in Bound /\ artifact[l] = "none" /\ artifact'[l] # "none" => clientActive
<1>1. /\ t \in Txn /\ txn[t].stage = "mark" /\ TxnInv(t) /\ SharedInv
  BY DEF InsertLink, LinkInv, Txn
<1>2. txn[t].link \in Bound => clientActive
  BY <1>1 DEF TxnInv, LocksInv, SharedInv
<1>3. linkLock[l] = t => artifact[l] = "unused"
  BY <1>1, LinkAssumption DEF TxnInv, LocksInv
<1>4. artifact[l] = "none" /\ artifact'[l] # "none" => l = txn[t].link
  BY <1>3 DEF InsertLink
<1>5. QED
  BY <1>2, <1>4 DEF InsertLink

(* Every login spends an unused link of an account that is active at the   *)
(* commit, and a bound link is neither issued nor used unless its client   *)
(* is: nobody can take the authority away between the check and the use.   *)
THEOREM LoginsHaveAuthorityHolds == LinkSpec => LoginsHaveAuthority
<1> DEFINE Authority(l) ==
         /\ logins'[l] # logins[l] => logins[l] = 0 /\ artifact[l] = "unused" /\ accountActive
         /\ l \in Bound /\ (logins'[l] # logins[l] \/ (artifact[l] = "none" /\ artifact'[l] # "none"))
               => clientActive
<1>1. LinkInv /\ [LinkNext]_linkVars => [\A l \in Link : Authority(l)]_linkVars
  <2> SUFFICES ASSUME LinkInv, [LinkNext]_linkVars, NEW l \in Link PROVE Authority(l)
    OBVIOUS
  <2>1. CASE artifact' = artifact /\ logins' = logins
    BY <2>1
  <2>2. CASE artifact' # artifact \/ logins' # logins
    BY <2>2, RowsChangeByCommit, ConsumeHasAuthority, InsertHasAuthority
  <2>3. QED
    BY <2>1, <2>2
<1>2. QED
  BY <1>1, LinkInvariant, PTL DEF LinkSpec, LoginsHaveAuthority

-----------------------------------------------------------------------------
(* An issue that waits for a link holds the account, and so whoever holds  *)
(* the link is a callback that waits for the account.                      *)
LEMMA MarkWaitsForOwner ==
    ASSUME LinkInv, NEW x \in Txn, NEW y \in Txn \ {x}, Awaits(x, y), txn[x].stage = "mark"
    PROVE  accountLock = x /\ txn[y].stage = "owner"
<1>1. TxnInv(x) /\ TxnInv(y) /\ LinkTypeOK
  BY DEF LinkInv
<1>2. PICK k \in txn[x].seen : linkLock[k] = y
  BY DEF Awaits
<1>3. k \in Link
  BY <1>1 DEF LinkTypeOK
<1>4. x \in Issuer
  BY <1>1 DEF TxnInv, PlaceInv, StagesOf
<1>5. accountLock = x
  BY <1>1, <1>4 DEF TxnInv, LocksInv, HoldsAccount
<1>6. ~HoldsAccount(y)
  BY <1>1, <1>5 DEF TxnInv, LocksInv
<1>7. y \in Visitor
  BY <1>1, <1>2, <1>3, <1>6 DEF TxnInv, LocksInv, HoldsAccount, Txn
<1>8. txn[y].stage \in {"owner", "consume"}
  BY <1>1, <1>2, <1>3, <1>7 DEF TxnInv, LocksInv
<1>9. QED
  BY <1>5, <1>6, <1>7, <1>8 DEF HoldsAccount

(* Whoever waits for a link without having locked it holds nothing that    *)
(* anybody waits for.                                                      *)
LEMMA NobodyAwaitsLinkWait ==
    ASSUME LinkInv, NEW x \in Txn, NEW y \in Txn, Awaits(x, y)
    PROVE  txn[y].stage # "link"
<1>1. TxnInv(x) /\ TxnInv(y) /\ LinkTypeOK
  BY DEF LinkInv
<1>2. SUFFICES ASSUME txn[y].stage = "link" PROVE FALSE
  OBVIOUS
<1>3. accountLock # y
  BY <1>1, <1>2 DEF TxnInv, LocksInv, HoldsAccount
<1>4. \A k \in Link : linkLock[k] # y
  BY <1>1, <1>2 DEF TxnInv, LocksInv
<1>5. txn[x].link \in Link \/ txn[x].stage = "idle"
  BY <1>1 DEF TxnInv, PlaceInv
<1>6. txn[x].seen \subseteq Link
  BY <1>1 DEF LinkTypeOK
<1>7. QED
  BY <1>3, <1>4, <1>5, <1>6 DEF Awaits

(* An issue waits for a link only across from a callback that waits for    *)
(* it, and no circle is longer than that.                                  *)
THEOREM LinkWaitsCrossHolds == LinkSpec => []LinkWaitsCross
<1>1. ASSUME LinkInv PROVE LinkWaitsCross
  <2> SUFFICES ASSUME NEW x \in Txn, NEW y \in Txn, Awaits(x, y)
               PROVE  /\ txn[x].stage = "mark" => Awaits(y, x)
                      /\ \A z \in Txn : Awaits(y, z) => accountLock \in {y, z}
    BY DEF LinkWaitsCross
  <2>1. txn[x].stage = "mark" => Awaits(y, x)
    BY <1>1, MarkWaitsForOwner DEF Awaits
  <2>2. ASSUME NEW z \in Txn, Awaits(y, z) PROVE accountLock \in {y, z}
    <3>1. CASE txn[y].stage \in {"account", "owner"}
      BY <2>2, <3>1 DEF Awaits
    <3>2. CASE txn[y].stage = "mark"
      <4>1. TxnInv(y)
        BY <1>1 DEF LinkInv
      <4>2. y \in Issuer
        BY <4>1, <3>2 DEF TxnInv, PlaceInv, StagesOf
      <4>3. QED
        BY <4>1, <4>2, <3>2 DEF TxnInv, LocksInv, HoldsAccount
    <3>3. QED
      BY <1>1, <2>2, <3>1, <3>2, NobodyAwaitsLinkWait DEF Awaits
  <2>3. QED
    BY <2>1, <2>2
<1>2. QED
  BY <1>1, LinkInvariant, PTL
=============================================================================
