----------------------------- MODULE CopiesProofs -----------------------------
(***************************************************************************)
(* Three kinds of copy that outlive the transaction they were read in: the *)
(* keys and the configuration in the memory of a server (ProcessCaches),   *)
(* rows in Redis (ReadCaches), and the snapshot of tokens in the file and  *)
(* the memory of the CLI (CliCredentials).  For each, how old a copy may   *)
(* be: for any number of servers, requests, rows and providers, and any    *)
(* lifetime and bound.                                                     *)
(***************************************************************************)
EXTENDS ProcessCaches, ReadCaches, CliCredentials, SequenceTheorems, TLAPS

-----------------------------------------------------------------------------
(* The caches of a server.  A read is stamped with the clock before it is  *)
(* sent, so whatever it misses was committed at its stamp or later; and a  *)
(* read under an earlier generation than the last clear is not installed.  *)

(* Who is between LOCK TABLE and its commit holds the lock, and who is     *)
(* about to insert has seen an empty table under it.                       *)
BootInv ==
    /\ \A s \in Server :
        /\ boot[s] \in {"locked", "inserting"} => keyLock = s
        /\ boot[s] = "inserting" => Version("keys") = 0
    /\ generated <= 1
    /\ generated = 1 => Version("keys") > 0

(* A server clears its cache once for each of its changes.                 *)
ClearsInv ==
    \A s \in Server, t \in Table :
        /\ generation[s][t] + uncleared[s][t] <= Version(t)
        /\ cleared[s][t] <= Version(t)

(* A value read at `since` lacks only changes committed since.             *)
Covers(t, upto, since) ==
    /\ since <= instant
    /\ \A n \in upto + 1 .. Version(t) : since <= commits[t][n]

SnapshotHolds(s, t) ==
    snapshot[s][t] # NoSnapshot =>
        /\ cleared[s][t] <= snapshot[s][t].upto
        /\ Covers(t, snapshot[s][t].upto, snapshot[s][t].since)

LoadHolds(s, l) ==
    /\ l.since <= instant
    /\ l.under <= generation[s][l.table]
    /\ l.answered =>
        /\ Covers(l.table, l.upto, l.since)
        /\ l.under = generation[s][l.table] => cleared[s][l.table] <= l.upto

ProcessCachesInv ==
    /\ ProcessCachesTypeOK
    /\ BootInv
    /\ ClearsInv
    /\ \A s \in Server, t \in Table : SnapshotHolds(s, t)
    /\ \A s \in Server, r \in Reader : load[s][r] # NoLoad => LoadHolds(s, load[s][r])

LEMMA Bounds == 0 \in Count /\ 0 \in Instant /\ Count \subseteq Nat /\ Instant \subseteq Nat
  BY ProcessCachesAssumption DEF Count, Instant

LEMMA Versions ==
    ASSUME ProcessCachesTypeOK, NEW t \in Table
    PROVE  /\ Version(t) \in Count /\ commits[t] \in Seq(Instant)
           /\ \A n \in 1 .. Version(t) : commits[t][n] \in Instant
  BY ElementOfSeq DEF ProcessCachesTypeOK, Version

(* The counts of a server and a table, as numbers.                         *)
LEMMA Counters ==
    ASSUME ProcessCachesInv, NEW s \in Server, NEW t \in Table
    PROVE  /\ uncleared[s][t] \in Nat /\ generation[s][t] \in Nat /\ cleared[s][t] \in Nat
           /\ Version(t) \in Nat /\ Version(t) <= MaxCommits
           /\ generation[s][t] + uncleared[s][t] <= Version(t) /\ cleared[s][t] <= Version(t)
<1>1. /\ uncleared[s][t] \in Count /\ generation[s][t] \in Count /\ cleared[s][t] \in Count
      /\ Version(t) \in Count
  BY Versions DEF ProcessCachesInv, ProcessCachesTypeOK
<1>2. generation[s][t] + uncleared[s][t] <= Version(t) /\ cleared[s][t] <= Version(t)
  BY DEF ProcessCachesInv, ClearsInv
<1>3. QED
  BY <1>1, <1>2, ProcessCachesAssumption DEF Count

LEMMA ProcessCachesInitInv == ProcessCachesInit => ProcessCachesInv
<1> SUFFICES ASSUME ProcessCachesInit PROVE ProcessCachesInv
  OBVIOUS
<1> USE ProcessCachesAssumption, Bounds DEF ProcessCachesInit
<1>1. ProcessCachesTypeOK
  BY DEF ProcessCachesTypeOK, Boot
<1>2. \A t \in Table : Version(t) = 0
  BY DEF Version
<1>3. BootInv /\ ClearsInv
  BY <1>2 DEF BootInv, ClearsInv, Table
<1>4. \A s \in Server, t \in Table : SnapshotHolds(s, t)
  BY DEF SnapshotHolds
<1>5. \A s \in Server, r \in Reader : load[s][r] # NoLoad => LoadHolds(s, load[s][r])
  OBVIOUS
<1>6. QED
  BY <1>1, <1>3, <1>4, <1>5 DEF ProcessCachesInv

(* What a step keeps when it changes no cache: with the same changes and a *)
(* clock that does not go back, what covered a table covers it still.      *)
LEMMA CoversKept ==
    ASSUME ProcessCachesTypeOK, NEW t \in Table, NEW upto \in Count, NEW since \in Instant,
           Covers(t, upto, since), instant' \in Instant, instant <= instant',
           commits'[t] = commits[t] \/ commits'[t] = Append(commits[t], instant)
    PROVE  Covers(t, upto, since)'
<1> USE Bounds DEF Count, Instant
<1>1. CASE commits'[t] = commits[t]
  BY <1>1 DEF Covers, Version, ProcessCachesTypeOK
<1>2. CASE commits'[t] = Append(commits[t], instant)
  <2>1. /\ Version(t) \in Nat /\ Version(t)' = Version(t) + 1
        /\ \A n \in 1 .. Version(t) : commits'[t][n] = commits[t][n]
        /\ commits'[t][Version(t) + 1] = instant
    BY <1>2, Versions, AppendProperties DEF Version, ProcessCachesTypeOK
  <2> SUFFICES ASSUME NEW n \in upto + 1 .. Version(t)' PROVE since <= commits'[t][n]
    BY DEF Covers, ProcessCachesTypeOK
  <2>2. CASE n = Version(t) + 1
    BY <2>1, <2>2 DEF Covers
  <2>3. CASE n # Version(t) + 1
    BY <2>1, <2>3 DEF Covers
  <2>4. QED
    BY <2>2, <2>3
<1>3. QED
  BY <1>1, <1>2

LEMMA CachesFrame ==
    ASSUME ProcessCachesInv, UNCHANGED <<snapshot, generation, load, cleared>>,
           instant' \in Instant, instant <= instant',
           \A t \in Table :
              commits'[t] = commits[t] \/ commits'[t] = Append(commits[t], instant)
    PROVE  /\ \A s \in Server, t \in Table : SnapshotHolds(s, t)'
           /\ \A s \in Server, r \in Reader : load'[s][r] # NoLoad => LoadHolds(s, load[s][r])'
<1>1. ASSUME NEW s \in Server, NEW t \in Table PROVE SnapshotHolds(s, t)'
  <2>1. snapshot[s][t] # NoSnapshot =>
          snapshot[s][t].upto \in Count /\ snapshot[s][t].since \in Instant
    BY DEF ProcessCachesInv, ProcessCachesTypeOK, Snapshot
  <2>2. snapshot[s][t] # NoSnapshot => Covers(t, snapshot[s][t].upto, snapshot[s][t].since)'
    BY <2>1, CoversKept DEF ProcessCachesInv, SnapshotHolds
  <2>3. QED
    BY <2>2 DEF ProcessCachesInv, SnapshotHolds
<1>2. ASSUME NEW s \in Server, NEW r \in Reader, load[s][r] # NoLoad
      PROVE  LoadHolds(s, load[s][r])'
  <2> DEFINE l == load[s][r]
  <2>1. l \in Load
    BY <1>2 DEF ProcessCachesInv, ProcessCachesTypeOK
  <2>2. LoadHolds(s, l)
    BY <1>2 DEF ProcessCachesInv
  <2>3. l.answered => Covers(l.table, l.upto, l.since)'
    BY <2>1, <2>2, CoversKept DEF ProcessCachesInv, LoadHolds, Load
  <2>4. l.since <= instant'
    <3>1. l.since <= instant /\ {l.since, instant, instant'} \subseteq Nat
      BY <2>1, <2>2, Bounds DEF ProcessCachesInv, ProcessCachesTypeOK, LoadHolds, Load
    <3>2. QED
      BY <3>1
  <2>5. QED
    BY <2>2, <2>3, <2>4 DEF LoadHolds
<1>3. QED
  BY <1>1, <1>2

(* The table of keys under its lock, and the clock.                        *)
LEMMA BootStep ==
    ASSUME ProcessCachesInv, NEW s \in Server, LockKeys(s) \/ RecheckKeys(s)
    PROVE  ProcessCachesInv'
<1> USE ProcessCachesAssumption
<1>1. UNCHANGED <<commits, instant, generated, cacheVars>>
  BY DEF LockKeys, RecheckKeys
<1>2. /\ boot' \in [Server -> Boot] /\ keyLock' \in Server \cup {NoServer}
  BY DEF LockKeys, RecheckKeys, ProcessCachesInv, ProcessCachesTypeOK, Boot
<1>3. ProcessCachesTypeOK'
  BY <1>1, <1>2 DEF ProcessCachesInv, ProcessCachesTypeOK, cacheVars
<1>4. BootInv'
  <2>1. Version("keys")' = Version("keys")
    BY <1>1 DEF Version
  <2>2. \A z \in Server :
          /\ boot'[z] \in {"locked", "inserting"} => keyLock' = z
          /\ boot'[z] = "inserting" => Version("keys") = 0
    BY DEF LockKeys, RecheckKeys, ProcessCachesInv, ProcessCachesTypeOK, BootInv
  <2>3. QED
    BY <1>1, <2>1, <2>2 DEF ProcessCachesInv, BootInv
<1>5. ClearsInv'
  BY <1>1 DEF ProcessCachesInv, ClearsInv, cacheVars, Version
<1>6. QED
  BY <1>1, <1>3, <1>4, <1>5, CachesFrame
  DEF ProcessCachesInv, ProcessCachesTypeOK, cacheVars, Bounds, Instant

(* A commit of one more change, by a server that starts or by a request.   *)
LEMMA CommitTyped ==
    ASSUME ProcessCachesInv, NEW t \in Table, Version(t) < MaxCommits,
           commits' = [commits EXCEPT ![t] = Append(@, instant)]
    PROVE  /\ commits' \in [Table -> Seq(Instant)] /\ \A x \in Table : Len(commits'[x]) \in Count
           /\ Version(t)' = Version(t) + 1
           /\ \A x \in Table \ {t} : Version(x)' = Version(x)
           /\ \A x \in Table : commits'[x] = commits[x] \/ commits'[x] = Append(commits[x], instant)
<1>1. /\ commits[t] \in Seq(Instant) /\ instant \in Instant /\ Version(t) \in Count
      /\ commits \in [Table -> Seq(Instant)] /\ \A x \in Table : Len(commits[x]) \in Count
  BY Versions DEF ProcessCachesInv, ProcessCachesTypeOK
<1>2. /\ Append(commits[t], instant) \in Seq(Instant)
      /\ Len(Append(commits[t], instant)) = Len(commits[t]) + 1
  BY <1>1, AppendProperties
<1>3. Len(commits[t]) + 1 \in Count
  BY <1>1, ProcessCachesAssumption DEF Version, Count
<1>4. QED
  BY <1>1, <1>2, <1>3 DEF Version

(* The one that inserts holds the lock, and the table was empty.           *)
LEMMA InsertFirstKeyStep ==
    ASSUME ProcessCachesInv, NEW s \in Server, InsertFirstKey(s)
    PROVE  ProcessCachesInv'
<1> USE ProcessCachesAssumption
<1>1. /\ boot[s] = "inserting" /\ Version("keys") < MaxCommits
      /\ commits' = [commits EXCEPT !["keys"] = Append(@, instant)]
      /\ generated' = generated + 1 /\ keyLock' = NoServer
      /\ boot' = [boot EXCEPT ![s] = "up"]
      /\ UNCHANGED <<instant, snapshot, generation, load, uncleared, cleared>>
  BY DEF InsertFirstKey, cacheVars
<1>2. /\ commits' \in [Table -> Seq(Instant)] /\ \A x \in Table : Len(commits'[x]) \in Count
      /\ Version("keys")' = Version("keys") + 1
      /\ Version("config")' = Version("config")
      /\ \A x \in Table : commits'[x] = commits[x] \/ commits'[x] = Append(commits[x], instant)
  BY <1>1, CommitTyped DEF Table
<1>3. keyLock = s /\ Version("keys") = 0 /\ generated = 0
  BY <1>1 DEF ProcessCachesInv, ProcessCachesTypeOK, BootInv
<1>4. ProcessCachesTypeOK'
  BY <1>1, <1>2, <1>3 DEF ProcessCachesInv, ProcessCachesTypeOK, Boot
<1>5. BootInv'
  <2>1. \A z \in Server : boot'[z] \notin {"locked", "inserting"}
    BY <1>1, <1>3 DEF ProcessCachesInv, ProcessCachesTypeOK, BootInv
  <2>2. generated' = 1 /\ Version("keys")' = 1
    BY <1>1, <1>2, <1>3
  <2>3. QED
    BY <2>1, <2>2 DEF BootInv
<1>6. ClearsInv'
  <2> SUFFICES ASSUME NEW z \in Server, NEW x \in Table
               PROVE  generation[z][x] + uncleared[z][x] <= Version(x)' /\ cleared[z][x] <= Version(x)'
    BY <1>1 DEF ClearsInv
  <2>1. Version(x)' = Version(x) \/ Version(x)' = Version(x) + 1
    BY <1>2 DEF Table
  <2>2. QED
    BY <2>1, Counters
<1>7. QED
  BY <1>1, <1>2, <1>4, <1>5, <1>6, CachesFrame
  DEF ProcessCachesInv, ProcessCachesTypeOK, Instant

LEMMA CommitChangeStep ==
    ASSUME ProcessCachesInv, NEW s \in Server, NEW t \in Table, CommitChange(s, t)
    PROVE  ProcessCachesInv'
<1> USE ProcessCachesAssumption
<1>1. /\ Version(t) < MaxCommits
      /\ t = "keys" => keyLock = NoServer
      /\ commits' = [commits EXCEPT ![t] = Append(@, instant)]
      /\ uncleared' = [uncleared EXCEPT ![s][t] = @ + 1]
      /\ UNCHANGED <<instant, boot, keyLock, generated, snapshot, generation, load, cleared>>
  BY DEF CommitChange, bootVars
<1>2. /\ commits' \in [Table -> Seq(Instant)] /\ \A x \in Table : Len(commits'[x]) \in Count
      /\ Version(t)' = Version(t) + 1
      /\ \A x \in Table \ {t} : Version(x)' = Version(x)
      /\ \A x \in Table : commits'[x] = commits[x] \/ commits'[x] = Append(commits[x], instant)
  BY <1>1, CommitTyped
<1>3. \A x \in Table : Version(x) \in Nat /\ Version(x) <= MaxCommits
  BY Versions DEF ProcessCachesInv, Count
<1>4. ClearsInv' /\ uncleared' \in [Server -> [Table -> Count]]
  <2>1. \A z \in Server, x \in Table :
          /\ uncleared[z][x] \in Nat /\ generation[z][x] \in Nat /\ cleared[z][x] \in Nat
          /\ generation[z][x] + uncleared[z][x] <= Version(x) /\ cleared[z][x] <= Version(x)
    BY Counters
  <2>2. uncleared[s][t] + 1 \in Count
    BY <1>1, <1>3, <2>1 DEF Count
  <2>3. uncleared' \in [Server -> [Table -> Count]]
    BY <1>1, <2>2 DEF ProcessCachesInv, ProcessCachesTypeOK
  <2>4. \A z \in Server, x \in Table :
          uncleared'[z][x] = IF z = s /\ x = t THEN uncleared[z][x] + 1 ELSE uncleared[z][x]
    BY <1>1 DEF ProcessCachesInv, ProcessCachesTypeOK
  <2>5. \A z \in Server, x \in Table :
          generation[z][x] + uncleared'[z][x] <= Version(x)' /\ cleared[z][x] <= Version(x)'
    <3> SUFFICES ASSUME NEW z \in Server, NEW x \in Table
                 PROVE  generation[z][x] + uncleared'[z][x] <= Version(x)' /\ cleared[z][x] <= Version(x)'
      OBVIOUS
    <3>1. CASE x = t
      BY <1>2, <1>3, <2>1, <2>4, <3>1
    <3>2. CASE x # t
      BY <1>2, <1>3, <2>1, <2>4, <3>2
    <3>3. QED
      BY <3>1, <3>2
  <2>6. QED
    BY <1>1, <2>3, <2>5 DEF ClearsInv
<1>5. ProcessCachesTypeOK'
  BY <1>1, <1>2, <1>4 DEF ProcessCachesInv, ProcessCachesTypeOK
<1>6. BootInv'
  <2>1. CASE t = "keys"
    BY <1>1, <1>2, <1>3, <2>1 DEF ProcessCachesInv, BootInv
  <2>2. CASE t = "config"
    BY <1>1, <1>2, <2>2 DEF ProcessCachesInv, BootInv, Table
  <2>3. QED
    BY <2>1, <2>2 DEF Table
<1>7. QED
  BY <1>1, <1>2, <1>4, <1>5, <1>6, CachesFrame
  DEF ProcessCachesInv, ProcessCachesTypeOK, Instant

LEMMA ClockStep ==
    ASSUME ProcessCachesInv, ClockTicks \/ UNCHANGED processCachesVars
    PROVE  ProcessCachesInv'
<1>1. /\ UNCHANGED <<commits, boot, keyLock, generated, snapshot, generation, load, uncleared, cleared>>
      /\ instant' = instant \/ (instant < MaxInstant /\ instant' = instant + 1)
  <2>1. CASE ClockTicks
    BY <2>1 DEF ClockTicks, bootVars, cacheVars
  <2>2. CASE UNCHANGED processCachesVars
    BY <2>2 DEF processCachesVars
  <2>3. QED
    BY <2>1, <2>2
<1>2. instant' \in Instant /\ instant <= instant'
  BY <1>1, ProcessCachesAssumption DEF ProcessCachesInv, ProcessCachesTypeOK, Instant
<1>3. ProcessCachesTypeOK' /\ BootInv' /\ ClearsInv'
  BY <1>1, <1>2 DEF ProcessCachesInv, ProcessCachesTypeOK, BootInv, ClearsInv, Version
<1>4. QED
  BY <1>1, <1>2, <1>3, CachesFrame DEF ProcessCachesInv

(* A process that ends gives up its copies, its reads and its lock.        *)
LEMMA StopStep ==
    ASSUME ProcessCachesInv, NEW s \in Server, Stop(s)
    PROVE  ProcessCachesInv'
<1> USE Bounds DEF Stop
<1>1. ProcessCachesTypeOK'
  BY DEF ProcessCachesInv, ProcessCachesTypeOK, Boot
<1>2. BootInv'
  BY DEF ProcessCachesInv, ProcessCachesTypeOK, BootInv, Version
<1>3. ClearsInv'
  <2> SUFFICES ASSUME NEW z \in Server, NEW x \in Table
               PROVE  generation'[z][x] + uncleared'[z][x] <= Version(x) /\ cleared'[z][x] <= Version(x)
    BY DEF ClearsInv, Version
  <2>1. CASE z = s
    <3>1. generation'[z][x] = 0 /\ uncleared'[z][x] = 0 /\ cleared'[z][x] = 0
      BY <2>1 DEF ProcessCachesInv, ProcessCachesTypeOK
    <3>2. QED
      BY <3>1, Counters
  <2>2. CASE z # s
    BY <2>2 DEF ProcessCachesInv, ProcessCachesTypeOK, ClearsInv
  <2>3. QED
    BY <2>1, <2>2
<1>4. \A z \in Server, x \in Table : SnapshotHolds(z, x)'
  BY DEF ProcessCachesInv, ProcessCachesTypeOK, SnapshotHolds, Covers, Version
<1>5. ASSUME NEW z \in Server, NEW r \in Reader, load'[z][r] # NoLoad
      PROVE  LoadHolds(z, load[z][r])'
  <2>1. z # s /\ load'[z] = load[z] /\ generation'[z] = generation[z] /\ cleared'[z] = cleared[z]
    BY <1>5 DEF ProcessCachesInv, ProcessCachesTypeOK
  <2>2. LoadHolds(z, load[z][r])
    BY <1>5, <2>1 DEF ProcessCachesInv
  <2>3. QED
    BY <2>1, <2>2 DEF LoadHolds, Covers, Version
<1>6. QED
  BY <1>1, <1>2, <1>3, <1>4, <1>5 DEF ProcessCachesInv

(* Reads: the stamp first, then the answer, then the copy.                 *)
LEMMA ReadFrame ==
    ASSUME ProcessCachesInv, NEW s \in Server, NEW r \in Reader,
           UNCHANGED <<commits, instant, boot, keyLock, generated, generation, uncleared, cleared>>,
           snapshot' \in [Server -> [Table -> Snapshot \cup {NoSnapshot}]],
           \A z \in Server, t \in Table : SnapshotHolds(z, t)',
           NEW l \in Load \cup {NoLoad}, l # NoLoad => LoadHolds(s, l),
           load' = [load EXCEPT ![s][r] = l]
    PROVE  ProcessCachesInv'
<1>1. ProcessCachesTypeOK'
  BY DEF ProcessCachesInv, ProcessCachesTypeOK
<1>2. BootInv' /\ ClearsInv'
  BY DEF ProcessCachesInv, BootInv, ClearsInv, Version
<1>3. ASSUME NEW z \in Server, NEW y \in Reader, load'[z][y] # NoLoad
      PROVE  LoadHolds(z, load[z][y])'
  <2>1. LoadHolds(z, load'[z][y])
    BY <1>3 DEF ProcessCachesInv, ProcessCachesTypeOK
  <2>2. QED
    BY <2>1 DEF LoadHolds, Covers, Version
<1>4. QED
  BY <1>1, <1>2, <1>3 DEF ProcessCachesInv

LEMMA SnapshotFrame ==
    ASSUME ProcessCachesInv, UNCHANGED <<commits, instant, snapshot, cleared>>
    PROVE  \A z \in Server, t \in Table : SnapshotHolds(z, t)'
  BY DEF ProcessCachesInv, SnapshotHolds, Covers, Version

LEMMA StartLoadStep ==
    ASSUME ProcessCachesInv, NEW s \in Server, NEW r \in Reader, NEW t \in Table, StartLoad(s, r, t)
    PROVE  ProcessCachesInv'
<1> DEFINE l == [table |-> t, under |-> generation[s][t], since |-> instant,
                 answered |-> FALSE, upto |-> 0]
<1>1. /\ load' = [load EXCEPT ![s][r] = l]
      /\ UNCHANGED <<commits, instant, boot, keyLock, generated, snapshot, generation, uncleared, cleared>>
  BY DEF StartLoad, bootVars
<1>2. generation[s][t] \in Count /\ generation[s][t] \in Nat /\ instant \in Instant /\ instant \in Nat
  BY Bounds DEF ProcessCachesInv, ProcessCachesTypeOK
<1>3. l \in Load
  BY <1>2, Bounds DEF Load
<1>4. LoadHolds(s, l)
  BY <1>2 DEF LoadHolds
<1>5. snapshot' \in [Server -> [Table -> Snapshot \cup {NoSnapshot}]]
  BY <1>1 DEF ProcessCachesInv, ProcessCachesTypeOK
<1> HIDE DEF l
<1>6. QED
  BY <1>1, <1>3, <1>4, <1>5, ReadFrame, SnapshotFrame

LEMMA AnswerLoadStep ==
    ASSUME ProcessCachesInv, NEW s \in Server, NEW r \in Reader, AnswerLoad(s, r)
    PROVE  ProcessCachesInv'
<1> DEFINE old == load[s][r]
           t == old.table
           l == [old EXCEPT !.answered = TRUE, !.upto = Version(t)]
<1>1. /\ load' = [load EXCEPT ![s][r] = l]
      /\ UNCHANGED <<commits, instant, boot, keyLock, generated, snapshot, generation, uncleared, cleared>>
      /\ old # NoLoad
  BY DEF AnswerLoad, bootVars, ProcessCachesInv, ProcessCachesTypeOK
<1>2. old \in Load /\ LoadHolds(s, old) /\ t \in Table
  BY <1>1 DEF ProcessCachesInv, ProcessCachesTypeOK, Load
<1>3. Version(t) \in Count /\ Version(t) \in Nat
  BY <1>2, Versions, Bounds DEF ProcessCachesInv
<1>4. /\ l \in Load /\ l.table = t /\ l.under = old.under /\ l.since = old.since
      /\ l.upto = Version(t)
  BY <1>2, <1>3 DEF Load
<1>5. snapshot' \in [Server -> [Table -> Snapshot \cup {NoSnapshot}]]
  BY <1>1 DEF ProcessCachesInv, ProcessCachesTypeOK
<1> HIDE DEF l
<1>6. LoadHolds(s, l)
  <2>1. Covers(t, Version(t), old.since)
    BY <1>2, <1>3 DEF Covers, LoadHolds
  <2>2. cleared[s][t] <= Version(t)
    BY <1>2 DEF ProcessCachesInv, ClearsInv
  <2>3. QED
    BY <1>2, <1>4, <2>1, <2>2 DEF LoadHolds
<1>7. QED
  BY <1>1, <1>4, <1>5, <1>6, ReadFrame, SnapshotFrame

LEMMA EndLoadStep ==
    ASSUME ProcessCachesInv, NEW s \in Server, NEW r \in Reader,
           InstallLoad(s, r) \/ LoadFails(s, r)
    PROVE  ProcessCachesInv'
<1> DEFINE l == load[s][r]
           t == l.table
           copy == [upto |-> l.upto, since |-> l.since]
<1>1. /\ load' = [load EXCEPT ![s][r] = NoLoad]
      /\ UNCHANGED <<commits, instant, boot, keyLock, generated, generation, uncleared, cleared>>
  BY DEF InstallLoad, LoadFails, bootVars
<1>2. CASE snapshot' = snapshot
  <2>1. snapshot' \in [Server -> [Table -> Snapshot \cup {NoSnapshot}]]
    BY <1>2 DEF ProcessCachesInv, ProcessCachesTypeOK
  <2>2. QED
    BY <1>1, <1>2, <2>1, ReadFrame, SnapshotFrame
<1>3. CASE snapshot' # snapshot
  <2>1. /\ l # NoLoad /\ l.answered /\ l.under = generation[s][t]
        /\ snapshot' = [snapshot EXCEPT ![s][t] = copy]
    BY <1>3 DEF InstallLoad, LoadFails, Installable
  <2>2. l \in Load /\ LoadHolds(s, l) /\ t \in Table
    BY <2>1 DEF ProcessCachesInv, ProcessCachesTypeOK, Load
  <2>3. copy \in Snapshot /\ copy.upto = l.upto /\ copy.since = l.since
    BY <2>2 DEF Load, Snapshot
  <2>4. cleared[s][t] <= copy.upto /\ Covers(t, copy.upto, copy.since)
    BY <2>1, <2>2, <2>3 DEF LoadHolds
  <2> HIDE DEF copy
  <2>5. snapshot' \in [Server -> [Table -> Snapshot \cup {NoSnapshot}]]
    BY <2>1, <2>3 DEF ProcessCachesInv, ProcessCachesTypeOK
  <2>6. ASSUME NEW z \in Server, NEW x \in Table PROVE SnapshotHolds(z, x)'
    <3>1. snapshot'[z][x] = IF z = s /\ x = t THEN copy ELSE snapshot[z][x]
      BY <2>1, <2>2 DEF ProcessCachesInv, ProcessCachesTypeOK
    <3>2. CASE z = s /\ x = t
      BY <1>1, <2>4, <3>1, <3>2 DEF SnapshotHolds, Covers, Version
    <3>3. CASE ~(z = s /\ x = t)
      BY <1>1, <3>1, <3>3 DEF ProcessCachesInv, SnapshotHolds, Covers, Version
    <3>4. QED
      BY <3>2, <3>3
  <2>7. QED
    BY <1>1, <2>5, <2>6, ReadFrame
<1>4. QED
  BY <1>2, <1>3

(* A clear: the copy goes, and every read in flight is of an earlier       *)
(* generation now.                                                         *)
LEMMA ClearCacheStep ==
    ASSUME ProcessCachesInv, NEW s \in Server, NEW t \in Table, ClearCache(s, t)
    PROVE  ProcessCachesInv'
<1> USE ProcessCachesAssumption
<1>1. /\ uncleared[s][t] > 0
      /\ snapshot' = [snapshot EXCEPT ![s][t] = NoSnapshot]
      /\ generation' = [generation EXCEPT ![s][t] = @ + 1]
      /\ cleared' = [cleared EXCEPT ![s][t] = Version(t)]
      /\ uncleared' = [uncleared EXCEPT ![s][t] = @ - 1]
      /\ UNCHANGED <<commits, instant, boot, keyLock, generated, load>>
  BY DEF ClearCache, bootVars
<1>2. \A z \in Server, x \in Table :
        /\ uncleared[z][x] \in Nat /\ generation[z][x] \in Nat /\ cleared[z][x] \in Nat
        /\ Version(x) \in Nat /\ Version(x) <= MaxCommits
        /\ generation[z][x] + uncleared[z][x] <= Version(x) /\ cleared[z][x] <= Version(x)
  BY Counters
<1>3. generation[s][t] + 1 \in Count /\ uncleared[s][t] - 1 \in Count /\ Version(t) \in Count
  BY <1>1, <1>2 DEF Count
<1>4. ProcessCachesTypeOK'
  BY <1>1, <1>3 DEF ProcessCachesInv, ProcessCachesTypeOK
<1>5. \A z \in Server, x \in Table :
        /\ generation'[z][x] = IF z = s /\ x = t THEN generation[z][x] + 1 ELSE generation[z][x]
        /\ uncleared'[z][x] = IF z = s /\ x = t THEN uncleared[z][x] - 1 ELSE uncleared[z][x]
        /\ cleared'[z][x] = IF z = s /\ x = t THEN Version(x) ELSE cleared[z][x]
        /\ snapshot'[z][x] = IF z = s /\ x = t THEN NoSnapshot ELSE snapshot[z][x]
        /\ Version(x)' = Version(x)
  BY <1>1 DEF ProcessCachesInv, ProcessCachesTypeOK, Version
<1>6. ClearsInv'
  <2> SUFFICES ASSUME NEW z \in Server, NEW x \in Table
               PROVE  generation'[z][x] + uncleared'[z][x] <= Version(x)' /\ cleared'[z][x] <= Version(x)'
    BY DEF ClearsInv
  <2>1. CASE z = s /\ x = t
    BY <1>1, <1>2, <1>5, <2>1
  <2>2. CASE ~(z = s /\ x = t)
    BY <1>2, <1>5, <2>2
  <2>3. QED
    BY <2>1, <2>2
<1>7. BootInv'
  BY <1>1 DEF ProcessCachesInv, BootInv, Version
<1>8. \A z \in Server, x \in Table : SnapshotHolds(z, x)'
  BY <1>1, <1>5 DEF ProcessCachesInv, SnapshotHolds, Covers, Version
<1>9. ASSUME NEW z \in Server, NEW r \in Reader, load'[z][r] # NoLoad
      PROVE  LoadHolds(z, load[z][r])'
  <2> DEFINE l == load[z][r]
  <2>0. l \in Load /\ LoadHolds(z, l)
    BY <1>1, <1>9 DEF ProcessCachesInv, ProcessCachesTypeOK
  <2>1. l \in Load /\ LoadHolds(z, l) /\ l.table \in Table /\ l.under \in Nat
    BY <2>0, Bounds DEF Load
  <2>2. l.answered => Covers(l.table, l.upto, l.since)'
    BY <1>1, <2>1 DEF LoadHolds, Covers, Version
  <2>3. CASE z = s /\ l.table = t
    <3>1. l.under <= generation'[z][l.table] /\ l.under # generation'[z][l.table]
      BY <1>2, <1>5, <2>1, <2>3 DEF LoadHolds
    <3>2. QED
      BY <1>1, <2>1, <2>2, <3>1 DEF LoadHolds
  <2>4. CASE ~(z = s /\ l.table = t)
    BY <1>1, <1>5, <2>1, <2>2, <2>4 DEF LoadHolds
  <2>5. QED
    BY <2>3, <2>4
<1>10. QED
  BY <1>4, <1>6, <1>7, <1>8, <1>9 DEF ProcessCachesInv

LEMMA ProcessCachesStep ==
    ProcessCachesInv /\ [ProcessCachesNext]_processCachesVars => ProcessCachesInv'
  BY BootStep, InsertFirstKeyStep, CommitChangeStep, ClockStep, StopStep, StartLoadStep,
     AnswerLoadStep, EndLoadStep, ClearCacheStep
  DEF ProcessCachesNext

LEMMA ProcessCachesInvariant == ProcessCachesSpec => []ProcessCachesInv
  BY ProcessCachesInitInv, ProcessCachesStep, PTL DEF ProcessCachesSpec

(* The tables, the caches and the reads in flight keep their types.        *)
THEOREM ProcessCachesTypeCorrect == ProcessCachesSpec => []ProcessCachesTypeOK
  BY ProcessCachesInvariant, PTL DEF ProcessCachesInv

(* Any number of servers that start on an empty database create one key    *)
(* between them, whichever of them stops half-way.                         *)
THEOREM OneFirstKeyHolds == ProcessCachesSpec => []OneFirstKey
  BY ProcessCachesInvariant, PTL DEF ProcessCachesInv, BootInv, OneFirstKey

(* What a server serves from memory holds every change it has cleared the  *)
(* cache for, and every change committed a lifetime ago.                   *)
THEOREM SnapshotsAreFreshHolds == ProcessCachesSpec => []SnapshotsAreFresh
<1>1. ASSUME ProcessCachesInv, NEW s \in Server, NEW t \in Table, Served(s, t)
      PROVE  /\ snapshot[s][t].upto >= cleared[s][t]
             /\ \A n \in snapshot[s][t].upto + 1 .. Version(t) :
                    instant - commits[t][n] < CacheTtl
  <2>1. /\ snapshot[s][t].upto \in Nat /\ snapshot[s][t].since \in Nat /\ cleared[s][t] \in Nat
        /\ instant \in Nat /\ Version(t) \in Nat
        /\ instant - snapshot[s][t].since < CacheTtl
        /\ cleared[s][t] <= snapshot[s][t].upto
        /\ Covers(t, snapshot[s][t].upto, snapshot[s][t].since)
    <3>1. snapshot[s][t] \in Snapshot /\ SnapshotHolds(s, t) /\ instant \in Instant
      BY <1>1 DEF Served, ProcessCachesInv, ProcessCachesTypeOK
    <3>2. QED
      BY <1>1, <3>1, Bounds, Counters DEF Served, SnapshotHolds, Snapshot
  <2>2. ASSUME NEW n \in snapshot[s][t].upto + 1 .. Version(t)
        PROVE  instant - commits[t][n] < CacheTtl
    <3>1. n \in 1 .. Version(t)
      BY <2>1
    <3>2. commits[t][n] \in Nat /\ snapshot[s][t].since <= commits[t][n]
      BY <1>1, <2>1, <3>1, Versions, Bounds DEF Covers, ProcessCachesInv
    <3>3. QED
      BY <2>1, <3>2, ProcessCachesAssumption
  <2>3. QED
    BY <2>1, <2>2
<1>2. ProcessCachesInv => SnapshotsAreFresh
  BY <1>1 DEF SnapshotsAreFresh
<1>3. QED
  BY <1>2, ProcessCachesInvariant, PTL
-----------------------------------------------------------------------------
(* The caches in Redis.  An entry stands under its row's identifier or     *)
(* under the slug; one that is out of date without excuse has a request    *)
(* that still owes its removal, under that very key.                       *)
KeysInv ==
    \A k \in Key : cache[k] # NoEntry => k \in {cache[k].row, Slug}

Stale(k) ==
    /\ cache[k] # NoEntry
    /\ cache[k].excuse = "none"
    /\ ~Current(cache[k].row, cache[k].version)

ReadCachesInv ==
    /\ ReadCachesTypeOK
    /\ KeysInv
    /\ \A k \in Key : Stale(k) => \E c \in Change : Removes(c, cache[k].row, k)

LEMMA RowVersions == 0 \in RowVersion /\ RowVersion \subseteq Nat
  BY ReadCachesAssumption DEF RowVersion

(* What a changing request is while it is one.                             *)
LEMMA ChangingTyped ==
    ASSUME ReadCachesTypeOK, NEW c \in Change, change[c] # NoChange
    PROVE  change[c] \in Changing /\ change[c].row \in Row /\ change[c].version \in RowVersion
  BY DEF ReadCachesTypeOK, Changing

LEMMA ChangeTyped ==
    ASSUME ReadCachesTypeOK, NEW c \in Change, NEW stage \in Owed, NEW r \in Row,
           NEW v \in RowVersion, Owes(c, stage, r, v)
    PROVE  /\ change' \in [Change -> Changing \cup {NoChange}]
           /\ change'[c] # NoChange
           /\ change'[c].stage = stage /\ change'[c].row = r
           /\ \A d \in Change \ {c} : change'[d] = change[d]
<1>1. [stage |-> stage, row |-> r, version |-> v] \in Changing
  BY DEF Changing
<1>2. QED
  BY <1>1, NoChangeAssumption DEF Owes, ReadCachesTypeOK

LEMMA ProceedsTyped ==
    ASSUME ReadCachesTypeOK, NEW c \in Change, NEW stage \in Owed, change[c] # NoChange,
           Proceeds(c, stage)
    PROVE  /\ change' \in [Change -> Changing \cup {NoChange}]
           /\ change'[c] # NoChange
           /\ change'[c].stage = stage /\ change'[c].row = change[c].row
           /\ \A d \in Change \ {c} : change'[d] = change[d]
<1> DEFINE n == [change[c] EXCEPT !.stage = stage]
<1>1. n \in Changing /\ n.stage = stage /\ n.row = change[c].row
  BY ChangingTyped DEF Changing
<1>2. change' = [change EXCEPT ![c] = n]
  BY DEF Proceeds
<1> HIDE DEF n
<1>3. QED
  BY <1>1, <1>2, NoChangeAssumption DEF ReadCachesTypeOK

LEMMA DoneTyped ==
    ASSUME ReadCachesTypeOK, NEW c \in Change, Done(c)
    PROVE  /\ change' \in [Change -> Changing \cup {NoChange}]
           /\ change'[c] = NoChange
           /\ \A d \in Change \ {c} : change'[d] = change[d]
  BY DEF Done, ReadCachesTypeOK

LEMMA StoredTyped ==
    ASSUME NEW r \in Row, NEW v \in RowVersion
    PROVE  Stored(r, v) \in Entry
  BY DEF Stored, Entry, Excuse

LEMMA ExcusedTyped ==
    ASSUME ReadCachesInv, NEW r \in Row, NEW excuse \in Excuse \ {"none"},
           cache' = Excused(r, excuse)
    PROVE  /\ cache' \in [Key -> Entry \cup {NoEntry}]
           /\ \A k \in Key :
               \/ cache'[k] = cache[k] /\ (cache[k] # NoEntry => cache[k].row # r)
               \/ /\ cache'[k] # NoEntry => cache'[k].excuse # "none"
                  /\ cache'[k].row = cache[k].row
                  /\ cache[k] # NoEntry
<1>1. ASSUME NEW k \in Key
      PROVE  /\ cache'[k] \in Entry \cup {NoEntry}
             /\ \/ cache'[k] = cache[k] /\ (cache[k] # NoEntry => cache[k].row # r)
                \/ /\ cache'[k] # NoEntry => cache'[k].excuse # "none"
                   /\ cache'[k].row = cache[k].row
                   /\ cache[k] # NoEntry
  <2>1. CASE cache[k] # NoEntry /\ cache[k].row = r
    <3> DEFINE n == [cache[k] EXCEPT !.excuse = excuse]
    <3>1. cache[k] \in Entry
      BY <2>1 DEF ReadCachesInv, ReadCachesTypeOK
    <3>2. n \in Entry /\ n.excuse # "none" /\ n.row = cache[k].row
      BY <3>1 DEF Entry
    <3>3. cache'[k] = n
      BY <2>1 DEF Excused
    <3> HIDE DEF n
    <3>4. QED
      BY <2>1, <3>2, <3>3
  <2>2. CASE ~(cache[k] # NoEntry /\ cache[k].row = r)
    <3>1. cache'[k] = cache[k]
      BY <2>2 DEF Excused
    <3>2. QED
      BY <2>2, <3>1 DEF ReadCachesInv, ReadCachesTypeOK
  <2>3. QED
    BY <2>1, <2>2
<1>2. cache' = [k \in Key |-> cache'[k]]
  BY DEF Excused
<1>3. QED
  BY <1>1, <1>2

LEMMA ReadCachesInitInv == ReadCachesInit => ReadCachesInv
<1> SUFFICES ASSUME ReadCachesInit PROVE ReadCachesInv
  OBVIOUS
<1>1. ReadCachesTypeOK
  BY RowVersions DEF ReadCachesInit, ReadCachesTypeOK, Status
<1>2. \A k \in Key : cache[k] = NoEntry
  BY DEF ReadCachesInit
<1>3. QED
  BY <1>1, <1>2 DEF ReadCachesInv, KeysInv, Stale

(* A step that only moves a reading request on.                            *)
LEMMA FillStep ==
    ASSUME ReadCachesInv, UNCHANGED <<row, cache, change>>,
           fill' \in [Fill -> Filling \cup {NoFill}]
    PROVE  ReadCachesInv'
  BY DEF ReadCachesInv, ReadCachesTypeOK, KeysInv, Stale, Removes, Current, Live

(* The rows stay, and no entry arrives that is stale without excuse: what  *)
(* is left of the entries must keep whoever removes them.                  *)
LEMMA CacheStep ==
    ASSUME ReadCachesInv, ReadCachesTypeOK', row' = row,
           \A k \in Key :
              \/ cache'[k] = NoEntry
              \/ cache'[k].excuse # "none" /\ k \in {cache'[k].row, Slug}
              \/ Current(cache'[k].row, cache'[k].version) /\ k \in {cache'[k].row, Slug}
              \/ /\ cache'[k] = cache[k]
                 /\ \A c \in Change :
                      Removes(c, cache[k].row, k) => Removes(c, cache[k].row, k)'
    PROVE  ReadCachesInv'
<1>1. ASSUME NEW k \in Key, cache'[k] # NoEntry
      PROVE  /\ k \in {cache'[k].row, Slug}
             /\ Stale(k)' => \E c \in Change : Removes(c, cache[k].row, k)'
  BY <1>1 DEF ReadCachesInv, KeysInv, Stale, Current, Live, Removes
<1>2. QED
  BY <1>1 DEF ReadCachesInv, KeysInv, Stale

LEMMA ReadStep ==
    ASSUME ReadCachesInv, NEW f \in Fill,
           \/ \E k \in Key : Miss(f, k)
           \/ LoadRow(f)
           \/ FillEnds(f)
    PROVE  ReadCachesInv'
<1>1. CASE \E k \in Key : Miss(f, k)
  <2>1. PICK k \in Key : Miss(f, k)
    BY <1>1
  <2>2. [stage |-> "missed", key |-> k] \in Filling
    BY DEF Filling
  <2>3. QED
    BY <2>1, <2>2, FillStep DEF Miss, ReadCachesInv, ReadCachesTypeOK
<1>2. CASE LoadRow(f)
  <2>1. PICK r \in Row :
          fill' = [fill EXCEPT ![f] =
                     [stage |-> "storeSlug", row |-> r, version |-> row[r].version]]
    BY <1>2 DEF LoadRow
  <2>2. row[r].version \in RowVersion
    BY DEF ReadCachesInv, ReadCachesTypeOK
  <2>3. [stage |-> "storeSlug", row |-> r, version |-> row[r].version] \in Filling
    BY <2>2 DEF Filling
  <2>4. QED
    BY <1>2, <2>1, <2>3, FillStep DEF LoadRow, ReadCachesInv, ReadCachesTypeOK
<1>3. CASE FillEnds(f)
  BY <1>3, FillStep DEF FillEnds, ReadCachesInv, ReadCachesTypeOK
<1>4. QED
  BY <1>1, <1>2, <1>3

(* An entry as it arrives is the row as it stands, or comes late.          *)
LEMMA StoredAnswers ==
    ASSUME NEW r \in Row, NEW v \in RowVersion
    PROVE  /\ Stored(r, v).row = r /\ Stored(r, v).version = v
           /\ Stored(r, v).excuse # "none" \/ Current(r, v)
  BY DEF Stored, Current, Live

LEMMA StoreStep ==
    ASSUME ReadCachesInv, NEW r \in Row, NEW v \in RowVersion, NEW k \in {r, Slug},
           cache' = [cache EXCEPT ![k] = Stored(r, v)],
           row' = row, fill' \in [Fill -> Filling \cup {NoFill}],
           change' \in [Change -> Changing \cup {NoChange}],
           \A c \in Change : change'[c] = change[c] \/ change[c].stage \notin Removing
    PROVE  ReadCachesInv'
<1>1. k \in Key
  BY DEF Key
<1>2. ReadCachesTypeOK'
  BY <1>1, StoredTyped DEF ReadCachesInv, ReadCachesTypeOK
<1>3. cache'[k] = Stored(r, v) /\ \A x \in Key \ {k} : cache'[x] = cache[x]
  BY <1>1 DEF ReadCachesInv, ReadCachesTypeOK
<1>4. \A c \in Change, x \in Key :
        Removes(c, cache[x].row, x) => change'[c] = change[c]
  BY DEF Removes, Removing
<1>5. ASSUME NEW x \in Key \ {k}, NEW c \in Change, Removes(c, cache[x].row, x)
      PROVE  Removes(c, cache[x].row, x)'
  BY <1>3, <1>4, <1>5 DEF Removes
<1>6. cache'[k].excuse # "none" \/ Current(cache'[k].row, cache'[k].version)
  BY <1>3, StoredAnswers
<1>7. k \in {cache'[k].row, Slug}
  BY <1>3, StoredAnswers
<1>8. QED
  BY <1>2, <1>3, <1>5, <1>6, <1>7, CacheStep

LEMMA FillStoreStep ==
    ASSUME ReadCachesInv, NEW f \in Fill, StoreSlug(f) \/ StoreId(f)
    PROVE  ReadCachesInv'
<1>1. fill[f] # NoFill /\ fill[f].stage \in {"storeSlug", "storeId"}
  BY DEF StoreSlug, StoreId
<1>2. fill[f] \in Filling
  BY <1>1 DEF ReadCachesInv, ReadCachesTypeOK
<1>3. fill[f].row \in Row /\ fill[f].version \in RowVersion
  BY <1>1, <1>2 DEF Filling
<1>4. UNCHANGED <<row, change>> /\ change' \in [Change -> Changing \cup {NoChange}]
  BY DEF StoreSlug, StoreId, ReadCachesInv, ReadCachesTypeOK
<1>5. CASE StoreSlug(f)
  <2> DEFINE n == [fill[f] EXCEPT !.stage = "storeId"]
  <2>1. n \in Filling
    BY <1>1, <1>2 DEF Filling
  <2>2. fill' = [fill EXCEPT ![f] = n]
    BY <1>5 DEF StoreSlug
  <2> HIDE DEF n
  <2>3. fill' \in [Fill -> Filling \cup {NoFill}]
    BY <2>1, <2>2 DEF ReadCachesInv, ReadCachesTypeOK
  <2>4. cache' = [cache EXCEPT ![Slug] = Stored(fill[f].row, fill[f].version)]
    BY <1>5 DEF StoreSlug
  <2>5. QED
    BY <1>3, <1>4, <2>3, <2>4, StoreStep
<1>6. CASE StoreId(f)
  <2>1. fill' \in [Fill -> Filling \cup {NoFill}]
    BY <1>6 DEF StoreId, ReadCachesInv, ReadCachesTypeOK
  <2>2. cache' = [cache EXCEPT ![fill[f].row] = Stored(fill[f].row, fill[f].version)]
    BY <1>6 DEF StoreId
  <2>3. QED
    BY <1>3, <1>4, <2>1, <2>2, StoreStep
<1>7. QED
  BY <1>5, <1>6

LEMMA RecacheStep ==
    ASSUME ReadCachesInv, NEW c \in Change, Recache(c)
    PROVE  ReadCachesInv'
<1>1. change[c] # NoChange /\ change[c].row \in Row /\ change[c].version \in RowVersion
  BY ChangingTyped DEF Recache, ReadCachesInv
<1>2. UNCHANGED <<row, fill>> /\ fill' \in [Fill -> Filling \cup {NoFill}]
  BY DEF Recache, ReadCachesInv, ReadCachesTypeOK
<1>3. CASE change[c].stage = "storeSlug"
  <2>1. /\ cache' = [cache EXCEPT ![Slug] = Stored(change[c].row, change[c].version)]
        /\ Proceeds(c, "storeId")
    BY <1>3 DEF Recache
  <2>2. /\ change' \in [Change -> Changing \cup {NoChange}]
        /\ \A d \in Change \ {c} : change'[d] = change[d]
    BY <1>1, <2>1, ProceedsTyped DEF ReadCachesInv, Owed
  <2>3. change[c].stage \notin Removing
    BY <1>3 DEF Removing
  <2>4. QED
    BY <1>1, <1>2, <2>1, <2>2, <2>3, StoreStep
<1>4. CASE change[c].stage = "storeId"
  <2>1. /\ cache' = [cache EXCEPT ![change[c].row] = Stored(change[c].row, change[c].version)]
        /\ Done(c)
    BY <1>4 DEF Recache
  <2>2. /\ change' \in [Change -> Changing \cup {NoChange}]
        /\ \A d \in Change \ {c} : change'[d] = change[d]
    BY <2>1, DoneTyped DEF ReadCachesInv
  <2>3. change[c].stage \notin Removing
    BY <1>4 DEF Removing
  <2>4. QED
    BY <1>1, <1>2, <2>1, <2>2, <2>3, StoreStep
<1>5. QED
  BY <1>3, <1>4 DEF Recache

LEMMA ExpiryStep ==
    ASSUME ReadCachesInv, NEW k \in Key, EntryExpires(k)
    PROVE  ReadCachesInv'
<1>1. ReadCachesTypeOK'
  BY DEF EntryExpires, ReadCachesInv, ReadCachesTypeOK
<1>2. \A x \in Key : cache'[x] = NoEntry \/ cache'[x] = cache[x]
  BY DEF EntryExpires, ReadCachesInv, ReadCachesTypeOK
<1>3. \A x \in Key, c \in Change :
        cache'[x] = cache[x] /\ Removes(c, cache[x].row, x) => Removes(c, cache[x].row, x)'
  BY DEF EntryExpires, Removes
<1>4. QED
  BY <1>1, <1>2, <1>3, CacheStep DEF EntryExpires

(* A changed row: the request that changed it owes the removal of both     *)
(* entries before anything else.                                           *)
LEMMA ChangedStep ==
    ASSUME ReadCachesInv, NEW c \in Change, NEW r \in Row, NEW v \in RowVersion,
           NEW stage \in {"invalidate", "invalidateOnly", "cleanId"},
           change[c] = NoChange, Owes(c, stage, r, v), UNCHANGED <<cache, fill>>,
           row' \in [Row -> [status : Status, version : RowVersion]],
           \A x \in Row \ {r} : row'[x] = row[x]
    PROVE  ReadCachesInv'
<1>1. /\ change' \in [Change -> Changing \cup {NoChange}]
      /\ change'[c] # NoChange /\ change'[c].stage = stage /\ change'[c].row = r
      /\ \A d \in Change \ {c} : change'[d] = change[d]
  BY ChangeTyped DEF ReadCachesInv, Owed
<1>2. ReadCachesTypeOK'
  BY <1>1 DEF ReadCachesInv, ReadCachesTypeOK
<1>3. KeysInv'
  BY DEF ReadCachesInv, KeysInv
<1>4. ASSUME NEW k \in Key, Stale(k)' PROVE \E d \in Change : Removes(d, cache[k].row, k)'
  <2>1. CASE cache[k].row = r
    <3>1. Removes(c, cache[k].row, k)'
      BY <1>1, <2>1 DEF Removes
    <3>2. QED
      BY <3>1
  <2>2. CASE cache[k].row # r
    <3>1. cache[k] # NoEntry /\ cache[k] \in Entry
      BY <1>4 DEF Stale, ReadCachesInv, ReadCachesTypeOK
    <3>2. Stale(k)
      BY <1>4, <2>2, <3>1 DEF Stale, Current, Live, Entry
    <3>3. PICK d \in Change : Removes(d, cache[k].row, k)
      BY <3>2 DEF ReadCachesInv
    <3>4. Removes(d, cache[k].row, k)'
      BY <1>1, <3>3 DEF Removes
    <3>5. QED
      BY <3>4
  <2>3. QED
    BY <2>1, <2>2
<1>5. QED
  BY <1>2, <1>3, <1>4 DEF ReadCachesInv

LEMMA RewrittenTyped ==
    ASSUME ReadCachesTypeOK, NEW r \in Row, Rewritten(r)
    PROVE  /\ row' \in [Row -> [status : Status, version : RowVersion]]
           /\ row[r].version + 1 \in RowVersion
           /\ \A x \in Row \ {r} : row'[x] = row[x]
<1>1. row[r] \in [status : Status, version : RowVersion] /\ row[r].version < MaxVersion
  BY DEF ReadCachesTypeOK, Rewritten
<1>2. row[r].version + 1 \in RowVersion
  BY <1>1, ReadCachesAssumption DEF RowVersion
<1> DEFINE n == [row[r] EXCEPT !.version = @ + 1]
<1>3. n \in [status : Status, version : RowVersion]
  BY <1>1, <1>2
<1>4. row' = [row EXCEPT ![r] = n]
  BY DEF Rewritten
<1> HIDE DEF n
<1>5. QED
  BY <1>2, <1>3, <1>4 DEF ReadCachesTypeOK

LEMMA ChangeStep ==
    ASSUME ReadCachesInv, NEW c \in Change, NEW r \in Row,
           UpdateRow(c, r) \/ ChangeRowStatus(c, r) \/ DeleteRow(c, r)
    PROVE  ReadCachesInv'
<1>1. CASE UpdateRow(c, r)
  BY <1>1, RewrittenTyped, ChangedStep DEF UpdateRow, ReadCachesInv
<1>2. CASE ChangeRowStatus(c, r)
  BY <1>2, RewrittenTyped, ChangedStep DEF ChangeRowStatus, ReadCachesInv
<1>3. CASE DeleteRow(c, r)
  <2>1. row[r] \in [status : Status, version : RowVersion]
    BY DEF ReadCachesInv, ReadCachesTypeOK
  <2> DEFINE n == [row[r] EXCEPT !.status = "deleted"]
  <2>2. n \in [status : Status, version : RowVersion]
    BY <2>1 DEF Status
  <2>3. row' = [row EXCEPT ![r] = n]
    BY <1>3 DEF DeleteRow
  <2> HIDE DEF n
  <2>4. /\ row' \in [Row -> [status : Status, version : RowVersion]]
        /\ \A x \in Row \ {r} : row'[x] = row[x]
    BY <2>2, <2>3 DEF ReadCachesInv, ReadCachesTypeOK
  <2>5. QED
    BY <1>3, <2>1, <2>4, ChangedStep DEF DeleteRow
<1>4. QED
  BY <1>1, <1>2, <1>3

(* A row that is created has no older version to be mistaken for: it was   *)
(* never live, so no entry loses its claim to be current.                  *)
LEMMA CreateStep ==
    ASSUME ReadCachesInv, NEW c \in Change, NEW r \in Row, CreateRow(c, r)
    PROVE  ReadCachesInv'
<1>1. /\ change[c] = NoChange /\ row[r].status = "unborn"
      /\ row' = [row EXCEPT ![r].status = "live"]
      /\ Owes(c, "storeSlug", r, 0)
      /\ UNCHANGED <<cache, fill>>
  BY DEF CreateRow
<1>2. row[r] \in [status : Status, version : RowVersion]
  BY DEF ReadCachesInv, ReadCachesTypeOK
<1> DEFINE n == [row[r] EXCEPT !.status = "live"]
<1>3. n \in [status : Status, version : RowVersion]
  BY <1>2 DEF Status
<1>4. row' = [row EXCEPT ![r] = n]
  BY <1>1
<1> HIDE DEF n
<1>5. /\ row' \in [Row -> [status : Status, version : RowVersion]]
      /\ \A x \in Row \ {r} : row'[x] = row[x]
  BY <1>3, <1>4 DEF ReadCachesInv, ReadCachesTypeOK
<1>6. /\ change' \in [Change -> Changing \cup {NoChange}]
      /\ \A d \in Change \ {c} : change'[d] = change[d]
  BY <1>1, RowVersions, ChangeTyped DEF ReadCachesInv, Owed
<1>7. ReadCachesTypeOK' /\ KeysInv'
  BY <1>1, <1>5, <1>6 DEF ReadCachesInv, ReadCachesTypeOK, KeysInv
<1>8. ASSUME NEW k \in Key, Stale(k)' PROVE \E d \in Change : Removes(d, cache[k].row, k)'
  <2>1. cache[k] # NoEntry /\ cache[k] \in Entry
    BY <1>1, <1>8 DEF Stale, ReadCachesInv, ReadCachesTypeOK
  <2>2. Stale(k)
    BY <1>1, <1>5, <1>8, <2>1 DEF Stale, Current, Live, Entry
  <2>3. PICK d \in Change : Removes(d, cache[k].row, k)
    BY <2>2 DEF ReadCachesInv
  <2>4. Removes(d, cache[k].row, k)'
    BY <1>1, <1>6, <2>3 DEF Removes
  <2>5. QED
    BY <2>4
<1>9. QED
  BY <1>7, <1>8 DEF ReadCachesInv

(* The entries of one row get an excuse; the rows may change with them.    *)
LEMMA ExcuseStep ==
    ASSUME ReadCachesInv, NEW r \in Row, NEW excuse \in Excuse \ {"none"},
           cache' = Excused(r, excuse), fill' = fill,
           row' \in [Row -> [status : Status, version : RowVersion]],
           \A x \in Row \ {r} : row'[x] = row[x],
           change' \in [Change -> Changing \cup {NoChange}],
           \A c \in Change : change'[c] = change[c] \/ change[c].row = r
    PROVE  ReadCachesInv'
<1>1. /\ cache' \in [Key -> Entry \cup {NoEntry}]
      /\ \A k \in Key :
          \/ cache'[k] = cache[k] /\ (cache[k] # NoEntry => cache[k].row # r)
          \/ /\ cache'[k] # NoEntry => cache'[k].excuse # "none"
             /\ cache'[k].row = cache[k].row
             /\ cache[k] # NoEntry
  BY ExcusedTyped
<1>2. ReadCachesTypeOK'
  BY <1>1 DEF ReadCachesInv, ReadCachesTypeOK
<1>3. KeysInv'
  BY <1>1 DEF ReadCachesInv, KeysInv
<1>4. ASSUME NEW k \in Key, Stale(k)' PROVE \E d \in Change : Removes(d, cache[k].row, k)'
  <2>1. cache'[k] = cache[k] /\ cache[k] # NoEntry /\ cache[k].row # r
    BY <1>1, <1>4 DEF Stale
  <2>2. cache[k] \in Entry
    BY <2>1 DEF ReadCachesInv, ReadCachesTypeOK
  <2>3. Stale(k)
    BY <1>4, <2>1, <2>2 DEF Stale, Current, Live, Entry
  <2>4. PICK d \in Change : Removes(d, cache[k].row, k)
    BY <2>3 DEF ReadCachesInv
  <2>5. Removes(d, cache[k].row, k)'
    BY <2>1, <2>4 DEF Removes
  <2>6. QED
    BY <2>5
<1>5. QED
  BY <1>2, <1>3, <1>4 DEF ReadCachesInv

LEMMA BulkStep ==
    ASSUME ReadCachesInv, NEW r \in Row, BulkRowStatus(r)
    PROVE  ReadCachesInv'
<1>1. "bulk" \in Excuse \ {"none"}
  BY DEF Excuse
<1>2. QED
  BY <1>1, RewrittenTyped, ExcuseStep DEF BulkRowStatus, ReadCachesInv, ReadCachesTypeOK

(* A request that ends, or goes on, without removing what it owed.         *)
LEMMA GiveUpStep ==
    ASSUME ReadCachesInv, NEW c \in Change, CommandFails(c) \/ ChangeStops(c)
    PROVE  ReadCachesInv'
<1>1. /\ change[c] # NoChange /\ change[c].row \in Row
      /\ UNCHANGED <<row, fill>>
      /\ cache' = IF change[c].stage \in Removing THEN Excused(change[c].row, "lost") ELSE cache
      /\ Done(c) \/ Proceeds(c, "storeSlug")
  BY ChangingTyped DEF CommandFails, ChangeStops, ReadCachesInv
<1>2. /\ change' \in [Change -> Changing \cup {NoChange}]
      /\ \A d \in Change \ {c} : change'[d] = change[d]
  BY <1>1, DoneTyped, ProceedsTyped DEF ReadCachesInv, Owed
<1>3. CASE change[c].stage \in Removing
  <2>1. "lost" \in Excuse \ {"none"}
    BY DEF Excuse
  <2>2. QED
    BY <1>1, <1>2, <1>3, <2>1, ExcuseStep DEF ReadCachesInv, ReadCachesTypeOK
<1>4. CASE change[c].stage \notin Removing
  <2>1. cache' = cache
    BY <1>1, <1>4
  <2>2. ReadCachesTypeOK'
    BY <1>1, <1>2, <2>1 DEF ReadCachesInv, ReadCachesTypeOK
  <2>3. \A k \in Key, d \in Change :
          Removes(d, cache[k].row, k) => Removes(d, cache[k].row, k)'
    BY <1>2, <1>4, <2>1 DEF Removes, Removing
  <2>4. QED
    BY <1>1, <2>1, <2>2, <2>3, CacheStep
<1>5. QED
  BY <1>3, <1>4

(* Both entries are removed at once, so whoever removed them has nothing   *)
(* left to answer for: no other key can hold this row.                     *)
LEMMA InvalidateStep ==
    ASSUME ReadCachesInv, NEW c \in Change, Invalidate(c)
    PROVE  ReadCachesInv'
<1> DEFINE r == change[c].row
<1>1. /\ change[c] # NoChange /\ r \in Row /\ r \in Key /\ Slug \in Key
      /\ UNCHANGED <<row, fill>>
      /\ cache' = [cache EXCEPT ![r] = NoEntry, ![Slug] = NoEntry]
      /\ Done(c) \/ Proceeds(c, "storeSlug")
  BY ChangingTyped DEF Invalidate, ReadCachesInv, Key
<1>2. /\ change' \in [Change -> Changing \cup {NoChange}]
      /\ \A d \in Change \ {c} : change'[d] = change[d]
  BY <1>1, DoneTyped, ProceedsTyped DEF ReadCachesInv, Owed
<1>3. /\ cache' \in [Key -> Entry \cup {NoEntry}]
      /\ cache'[r] = NoEntry /\ cache'[Slug] = NoEntry
      /\ \A k \in Key \ {r, Slug} : cache'[k] = cache[k]
  BY <1>1 DEF ReadCachesInv, ReadCachesTypeOK
<1>4. ReadCachesTypeOK'
  BY <1>1, <1>2, <1>3 DEF ReadCachesInv, ReadCachesTypeOK
<1>5. ASSUME NEW k \in Key \ {r, Slug}, cache[k] # NoEntry,
             NEW d \in Change, Removes(d, cache[k].row, k)
      PROVE  Removes(d, cache[k].row, k)'
  <2>1. cache[k].row = k
    BY <1>5 DEF ReadCachesInv, KeysInv
  <2>2. d # c
    BY <1>5, <2>1 DEF Removes
  <2>3. QED
    BY <1>2, <1>3, <1>5, <2>2 DEF Removes
<1> HIDE DEF r
<1>6. QED
  BY <1>1, <1>3, <1>4, <1>5, CacheStep

LEMMA CleanUpStep ==
    ASSUME ReadCachesInv, NEW c \in Change, CleanUp(c)
    PROVE  ReadCachesInv'
<1> DEFINE r == change[c].row
<1>1. /\ change[c] # NoChange /\ r \in Row /\ r \in Key /\ Slug \in Key /\ r # Slug
      /\ UNCHANGED <<row, fill>>
  BY ChangingTyped, ReadCachesAssumption DEF CleanUp, ReadCachesInv, Key
<1>2. CASE change[c].stage = "cleanId"
  <2>1. cache' = [cache EXCEPT ![r] = NoEntry] /\ Proceeds(c, "cleanSlug")
    BY <1>2 DEF CleanUp
  <2>2. /\ change' \in [Change -> Changing \cup {NoChange}]
        /\ change'[c] # NoChange /\ change'[c].stage = "cleanSlug" /\ change'[c].row = r
        /\ \A d \in Change \ {c} : change'[d] = change[d]
    BY <1>1, <2>1, ProceedsTyped DEF ReadCachesInv, Owed
  <2>3. /\ cache' \in [Key -> Entry \cup {NoEntry}]
        /\ cache'[r] = NoEntry /\ \A k \in Key \ {r} : cache'[k] = cache[k]
    BY <1>1, <2>1 DEF ReadCachesInv, ReadCachesTypeOK
  <2>4. ReadCachesTypeOK'
    BY <1>1, <2>2, <2>3 DEF ReadCachesInv, ReadCachesTypeOK
  <2>5. ASSUME NEW k \in Key \ {r}, cache[k] # NoEntry,
               NEW d \in Change, Removes(d, cache[k].row, k)
        PROVE  Removes(d, cache[k].row, k)'
    <3>1. CASE d = c
      <4>1. cache[k].row = r /\ k = Slug
        BY <2>5, <3>1 DEF Removes, ReadCachesInv, KeysInv
      <4>2. QED
        BY <2>2, <2>3, <3>1, <4>1 DEF Removes
    <3>2. CASE d # c
      BY <2>2, <2>3, <2>5, <3>2 DEF Removes
    <3>3. QED
      BY <3>1, <3>2
  <2> HIDE DEF r
  <2>6. QED
    BY <1>1, <2>3, <2>4, <2>5, CacheStep
<1>3. CASE change[c].stage = "cleanSlug"
  <2>1. /\ cache' = IF cache[Slug] # NoEntry /\ cache[Slug].row = r
                    THEN [cache EXCEPT ![Slug] = NoEntry]
                    ELSE cache
        /\ Done(c)
    BY <1>3 DEF CleanUp
  <2>2. /\ change' \in [Change -> Changing \cup {NoChange}]
        /\ \A d \in Change \ {c} : change'[d] = change[d]
    BY <2>1, DoneTyped DEF ReadCachesInv
  <2>3. /\ cache' \in [Key -> Entry \cup {NoEntry}]
        /\ \A k \in Key \ {Slug} : cache'[k] = cache[k]
        /\ \/ cache'[Slug] = NoEntry
           \/ cache'[Slug] = cache[Slug] /\ cache[Slug].row # r
    BY <1>1, <2>1 DEF ReadCachesInv, ReadCachesTypeOK
  <2>4. ReadCachesTypeOK'
    BY <1>1, <2>2, <2>3 DEF ReadCachesInv, ReadCachesTypeOK
  <2>5. ASSUME NEW k \in Key, cache'[k] # NoEntry, cache'[k] = cache[k],
               NEW d \in Change, Removes(d, cache[k].row, k)
        PROVE  Removes(d, cache[k].row, k)'
    <3>1. d # c
      BY <1>3, <2>3, <2>5 DEF Removes
    <3>2. QED
      BY <2>2, <2>5, <3>1 DEF Removes
  <2>6. \A k \in Key : cache'[k] = NoEntry \/ cache'[k] = cache[k]
    BY <2>3
  <2> HIDE DEF r
  <2>7. QED
    BY <1>1, <2>4, <2>5, <2>6, CacheStep
<1>4. QED
  BY <1>2, <1>3 DEF CleanUp

LEMMA ReadCachesStep ==
    ReadCachesInv /\ [ReadCachesNext]_readCachesVars => ReadCachesInv'
<1> SUFFICES ASSUME ReadCachesInv, [ReadCachesNext]_readCachesVars PROVE ReadCachesInv'
  OBVIOUS
<1>1. CASE UNCHANGED readCachesVars
  BY <1>1, FillStep DEF readCachesVars, ReadCachesInv, ReadCachesTypeOK
<1>2. QED
  BY <1>1, ReadStep, FillStoreStep, ExpiryStep, BulkStep, CreateStep, ChangeStep,
     InvalidateStep, RecacheStep, CleanUpStep, GiveUpStep
  DEF ReadCachesNext

LEMMA ReadCachesInvariant == ReadCachesSpec => []ReadCachesInv
  BY ReadCachesInitInv, ReadCachesStep, PTL DEF ReadCachesSpec

(* The rows, the entries and what each request is doing keep their types.  *)
THEOREM ReadCachesTypeCorrect == ReadCachesSpec => []ReadCachesTypeOK
  BY ReadCachesInvariant, PTL DEF ReadCachesInv

(* Redis keeps an entry that is not the row as it stands only when it      *)
(* arrived late, its removal failed or a bulk change left it, or while a   *)
(* request is about to remove it: for any number of rows that share a      *)
(* slug, of readers and of writers.                                        *)
THEOREM StaleOnlyForCauseHolds == ReadCachesSpec => []StaleOnlyForCause
<1>1. ASSUME ReadCachesInv, NEW k \in Key, cache[k] # NoEntry PROVE cache[k].excuse \in Excuse
  BY <1>1 DEF ReadCachesInv, ReadCachesTypeOK, Entry
<1>2. ReadCachesInv => StaleOnlyForCause
  BY <1>1 DEF ReadCachesInv, StaleOnlyForCause, StaleOnlyFor, Stale, Excuse
<1>3. QED
  BY <1>2, ReadCachesInvariant, PTL
-----------------------------------------------------------------------------
(* The credential file.  Whoever is between the lock and the end of its    *)
(* refresh holds the lock, so there is one of them; what it got is new to  *)
(* the file, to the network and to every write that waits.                 *)
Flying(p) == auth[p].stage \in {"sent", "answered"}

AnswerNew(p) ==
    /\ auth[p].got \in 1..issued
    /\ sent[auth[p].got] = 0
    /\ file # auth[p].got
    /\ auth[p].held # auth[p].got
    /\ \A q \in Provider :
        auth[q].pending # NoWrite => auth[q].pending.refreshed # auth[p].got

ProviderInv(p) ==
    /\ auth[p].stage \in {"locked", "sent", "answered"} => lock = p
    /\ auth[p].latched => auth[p].stage = "idle"
    /\ \A g \in sentBy[p] : sent[g] > 0
    /\ auth[p].pending # NoWrite =>
        /\ auth[p].pending.previous # auth[p].pending.refreshed
        /\ auth[p].pending.refreshed <= issued
    /\ Flying(p) => auth[p].held \in 1..issued /\ auth[p].pending = NoWrite
    /\ auth[p].stage = "answered" => AnswerNew(p)

(* A token in the file that was sent before has its cause already, or its  *)
(* refresh is still under way.                                             *)
SentInFile ==
    file # NoFile /\ sent[file] > 0 =>
        \/ file \in unsaved \cup putBack
        \/ \E p \in Provider : Flying(p) /\ auth[p].held = file

(* A provider that finds in the file what it sent itself is in the middle  *)
(* of it, refuses to refresh, or has a write to repeat first.              *)
OwnInFile(p) ==
    file \in sentBy[p] =>
        \/ file \in putBack
        \/ Flying(p) /\ auth[p].held = file
        \/ auth[p].latched
        \/ auth[p].pending # NoWrite /\ auth[p].pending.previous = file

CredentialsInv ==
    /\ CredentialsTypeOK
    /\ file <= issued
    /\ \A g \in Snap : sent[g] > 0 => g <= issued
    /\ \A p \in Provider : ProviderInv(p)
    /\ SentInFile
    /\ \A p \in Provider : OwnInFile(p)
    /\ ReplayedForCause

AuthState ==
    [stage : RefreshStage, latched : BOOLEAN, pending : Write \cup {NoWrite},
     held : Snap \cup {NoFile}, got : Snap \cup {NoFile}]

LEMMA Numbers ==
    ASSUME CredentialsTypeOK
    PROVE  /\ issued \in Nat /\ issued <= MaxIssued /\ MaxIssued \in Nat
           /\ file \in Nat /\ file <= MaxIssued
           /\ \A g \in Snap : sent[g] \in 0..2 /\ g \in Nat
           /\ 1..issued \subseteq Snap
  BY CliCredentialsAssumption DEF CredentialsTypeOK, Snap, NoFile

LEMMA AuthTyped ==
    ASSUME CredentialsTypeOK, NEW p \in Provider
    PROVE  /\ auth \in [Provider -> AuthState]
           /\ auth[p] \in AuthState
           /\ auth[p].pending # NoWrite => auth[p].pending \in Write
  BY DEF CredentialsTypeOK, AuthState

LEMMA FinishedTyped ==
    ASSUME CredentialsTypeOK, NEW p \in Provider, NEW latched \in BOOLEAN,
           NEW pending \in Write \cup {NoWrite}, Finished(p, latched, pending)
    PROVE  /\ auth' \in [Provider -> AuthState]
           /\ auth'[p].stage = "idle" /\ auth'[p].latched = latched
           /\ auth'[p].pending = pending
           /\ \A q \in Provider \ {p} : auth'[q] = auth[q]
           /\ lock' \in Provider \cup {NoHolder}
           /\ lock' = IF lock = p THEN NoHolder ELSE lock
<1> DEFINE n == [Fresh EXCEPT !.latched = latched, !.pending = pending]
<1>1. /\ n \in AuthState
      /\ n.stage = "idle" /\ n.latched = latched /\ n.pending = pending
  BY DEF Fresh, AuthState, RefreshStage
<1>2. auth' = [auth EXCEPT ![p] = n]
  BY DEF Finished
<1> HIDE DEF n
<1>3. auth \in [Provider -> AuthState]
  BY AuthTyped
<1>4. lock' = IF lock = p THEN NoHolder ELSE lock
  BY DEF Finished
<1>5. QED
  BY <1>1, <1>2, <1>3, <1>4 DEF CredentialsTypeOK

(* A holder of the lock is alone between the lock and its end.             *)
LEMMA HolderAlone ==
    ASSUME CredentialsInv, NEW p \in Provider, lock = p \/ lock = NoHolder,
           NEW q \in Provider, q # p
    PROVE  /\ ~Flying(q) /\ auth[q].stage \notin {"locked", "sent", "answered"}
  BY CliCredentialsAssumption DEF CredentialsInv, ProviderInv, Flying

LEMMA CredentialsInitInv == CredentialsInit => CredentialsInv
<1> SUFFICES ASSUME CredentialsInit PROVE CredentialsInv
  OBVIOUS
<1> USE DEF CredentialsInit
<1>1. Fresh \in AuthState
  BY DEF Fresh, AuthState, RefreshStage
<1>2. CredentialsTypeOK
  <2>1. auth \in [Provider -> AuthState]
    BY <1>1
  <2>2. /\ file \in Snap \cup {NoFile} /\ lock \in Provider \cup {NoHolder}
        /\ issued \in 0..MaxIssued /\ sent \in [Snap -> 0..2]
    BY CliCredentialsAssumption
  <2>3. /\ spent \subseteq 1..issued /\ expired \subseteq 1..issued
        /\ sentBy \in [Provider -> SUBSET (1..issued)]
        /\ resent \subseteq 1..issued /\ unsaved \subseteq 1..issued
        /\ putBack \subseteq 1..issued /\ displaced \in BOOLEAN
    OBVIOUS
  <2>4. QED
    BY <2>1, <2>2, <2>3 DEF CredentialsTypeOK, AuthState
<1>3. \A p \in Provider :
        /\ auth[p].stage = "idle" /\ ~auth[p].latched /\ auth[p].pending = NoWrite
        /\ sentBy[p] = {}
  BY DEF Fresh
<1>4. file <= issued
  BY DEF NoFile
<1>5. \A g \in Snap : sent[g] = 0
  OBVIOUS
<1>6. \A p \in Provider : ProviderInv(p) /\ OwnInFile(p)
  BY <1>3 DEF ProviderInv, OwnInFile, Flying
<1>7. SentInFile /\ ReplayedForCause
  BY <1>5 DEF SentInFile, ReplayedForCause
<1>8. QED
  BY <1>2, <1>4, <1>5, <1>6, <1>7 DEF CredentialsInv

(* The refresh of one provider moves on and touches neither the file nor   *)
(* the network.                                                            *)
LEMMA AuthStep ==
    ASSUME CredentialsInv, NEW p \in Provider,
           UNCHANGED <<file, serverVars, historyVars>>,
           auth' \in [Provider -> AuthState],
           \A q \in Provider \ {p} : auth'[q] = auth[q],
           lock' \in Provider \cup {NoHolder},
           \A q \in Provider \ {p} : lock = q => lock' = q,
           ~Flying(p), ~Flying(p)',
           auth'[p].stage = "locked" => lock' = p,
           auth'[p].pending = auth[p].pending,
           auth'[p].latched = auth[p].latched,
           auth'[p].latched => auth'[p].stage = "idle"
    PROVE  CredentialsInv'
<1> USE DEF serverVars, historyVars
<1>1. CredentialsTypeOK'
  BY DEF CredentialsInv, CredentialsTypeOK, AuthState
<1>2. \A q \in Provider : auth'[q].pending = auth[q].pending /\ auth'[q].latched = auth[q].latched
  OBVIOUS
<1>3. \A q \in Provider : Flying(q)' => auth'[q] = auth[q] /\ Flying(q)
  BY DEF Flying
<1>4. \A q \in Provider : Flying(q) => auth'[q] = auth[q] /\ Flying(q)'
  BY DEF Flying
<1>5. ASSUME NEW q \in Provider PROVE ProviderInv(q)'
  <2>1. ProviderInv(q)
    BY DEF CredentialsInv
  <2>2. CASE q = p
    BY <1>2, <2>1, <2>2 DEF ProviderInv, Flying
  <2>3. CASE q # p
    <3>1. auth'[q] = auth[q] /\ (lock = q => lock' = q)
      BY <2>3
    <3>2. AnswerNew(q) => AnswerNew(q)'
      BY <1>2, <3>1 DEF AnswerNew
    <3>3. QED
      BY <2>1, <3>1, <3>2 DEF ProviderInv, Flying
  <2>4. QED
    BY <2>2, <2>3
<1>6. SentInFile'
  BY <1>4 DEF CredentialsInv, SentInFile
<1>7. \A q \in Provider : OwnInFile(q)'
  BY <1>2, <1>4 DEF CredentialsInv, OwnInFile
<1>8. QED
  BY <1>1, <1>5, <1>6, <1>7 DEF CredentialsInv, ReplayedForCause

LEMMA BeginsStep ==
    ASSUME CredentialsInv, NEW p \in Provider, BeginRefresh(p) \/ TakeLock(p)
    PROVE  CredentialsInv'
<1>1. PICK stage \in {"waiting", "locked"} :
        /\ auth' = [auth EXCEPT ![p].stage = stage]
        /\ stage = "waiting" => auth[p].stage = "idle" /\ ~auth[p].latched /\ lock' = lock
        /\ stage = "locked" => auth[p].stage = "waiting" /\ lock = NoHolder /\ lock' = p
        /\ UNCHANGED <<file, serverVars, historyVars>>
  BY DEF BeginRefresh, TakeLock
<1> DEFINE n == [auth[p] EXCEPT !.stage = stage]
<1>2. auth[p] \in AuthState /\ auth \in [Provider -> AuthState]
  BY AuthTyped DEF CredentialsInv
<1>3. /\ n \in AuthState
      /\ n.stage = stage /\ n.pending = auth[p].pending /\ n.latched = auth[p].latched
  BY <1>2 DEF AuthState, RefreshStage
<1>4. auth' = [auth EXCEPT ![p] = n]
  BY <1>1
<1> HIDE DEF n
<1>5. /\ auth' \in [Provider -> AuthState] /\ auth'[p] = n
      /\ \A q \in Provider \ {p} : auth'[q] = auth[q]
  BY <1>2, <1>3, <1>4
<1>6. ~Flying(p) /\ ~Flying(p)'
  BY <1>1, <1>3, <1>5 DEF Flying
<1>7. ~auth[p].latched
  BY <1>1 DEF CredentialsInv, ProviderInv
<1>8. lock' \in Provider \cup {NoHolder}
  BY <1>1 DEF CredentialsInv, CredentialsTypeOK
<1>9. \A q \in Provider \ {p} : lock = q => lock' = q
  BY <1>1, CliCredentialsAssumption
<1>10. QED
  BY <1>1, <1>3, <1>5, <1>6, <1>7, <1>8, <1>9, AuthStep

LEMMA EndsQuietlyStep ==
    ASSUME CredentialsInv, NEW p \in Provider, LockTimesOut(p) \/ UseFile(p)
    PROVE  CredentialsInv'
<1>1. /\ Finished(p, FALSE, auth[p].pending)
      /\ auth[p].stage \in {"waiting", "locked"}
      /\ UNCHANGED <<file, serverVars, historyVars>>
  BY DEF LockTimesOut, UseFile
<1>2. auth[p].pending \in Write \cup {NoWrite}
  BY AuthTyped DEF CredentialsInv, AuthState
<1>3. /\ auth' \in [Provider -> AuthState]
      /\ auth'[p].stage = "idle" /\ auth'[p].latched = FALSE
      /\ auth'[p].pending = auth[p].pending
      /\ \A q \in Provider \ {p} : auth'[q] = auth[q]
      /\ lock' \in Provider \cup {NoHolder}
      /\ lock' = IF lock = p THEN NoHolder ELSE lock
  BY <1>1, <1>2, FinishedTyped DEF CredentialsInv
<1>4. ~Flying(p) /\ ~Flying(p)' /\ ~auth[p].latched /\ auth[p].latched \in BOOLEAN
  BY <1>1, <1>3, AuthTyped DEF Flying, CredentialsInv, ProviderInv, AuthState
<1>5. QED
  BY <1>1, <1>3, <1>4, AuthStep

(* Login, logout and the clock.                                            *)
LEMMA FileStep ==
    ASSUME CredentialsInv, LogIn \/ LogOut
    PROVE  CredentialsInv'
<1>1. /\ UNCHANGED <<lock, spent, expired, auth, historyVars>>
      /\ \/ issued' = issued + 1 /\ issued < MaxIssued /\ file' = issued + 1
         \/ issued' = issued /\ file' = NoFile
  BY DEF LogIn, LogOut, serverVars
<1>2. CredentialsTypeOK'
  <2>1. issued' \in 0..MaxIssued /\ file' \in Snap \cup {NoFile} /\ 1..issued \subseteq 1..issued'
    BY <1>1, Numbers DEF CredentialsInv, Snap
  <2>2. QED
    BY <1>1, <2>1 DEF CredentialsInv, CredentialsTypeOK, historyVars
<1>3. /\ file' <= issued' /\ issued <= issued' /\ file' \in Nat /\ issued' \in Nat
      /\ \A g \in Snap : g <= issued => g <= issued'
      /\ file' # NoFile => file' > issued
  BY <1>1, Numbers DEF CredentialsInv, NoFile, Snap
<1>4. file' # NoFile => file' \in Snap /\ ~(sent[file'] > 0)
  BY <1>2, <1>3, Numbers DEF CredentialsInv, CredentialsTypeOK
<1>5. ASSUME NEW q \in Provider PROVE ProviderInv(q)'
  <2>1. ProviderInv(q) /\ auth' = auth /\ lock' = lock /\ sent' = sent /\ sentBy' = sentBy
    BY <1>1 DEF CredentialsInv, historyVars
  <2>2. ASSUME auth[q].pending # NoWrite PROVE auth[q].pending.refreshed <= issued'
    <3>1. auth[q].pending.refreshed \in Snap /\ auth[q].pending.refreshed <= issued
      BY <2>1, <2>2, AuthTyped DEF ProviderInv, CredentialsInv, Write
    <3>2. QED
      BY <1>3, <3>1
  <2>3. 1..issued \subseteq 1..issued'
    BY <1>3, Numbers DEF CredentialsInv
  <2>4. ASSUME AnswerNew(q) PROVE AnswerNew(q)'
    <3>1. auth[q].got \in 1..issued /\ file' # auth[q].got
      BY <1>3, <2>4, Numbers DEF AnswerNew, CredentialsInv, NoFile
    <3>2. QED
      BY <2>1, <2>3, <2>4, <3>1 DEF AnswerNew
  <2>5. QED
    BY <2>1, <2>2, <2>3, <2>4 DEF ProviderInv, Flying
<1>6. SentInFile'
  BY <1>1, <1>4 DEF SentInFile, historyVars
<1>7. ASSUME NEW q \in Provider PROVE OwnInFile(q)'
  <2>1. \A g \in sentBy[q] : g \in Snap /\ g # NoFile /\ sent[g] > 0
    BY Numbers DEF CredentialsInv, CredentialsTypeOK, ProviderInv, NoFile
  <2>2. file' \notin sentBy'[q]
    BY <1>1, <1>4, <2>1 DEF historyVars
  <2>3. QED
    BY <2>2 DEF OwnInFile
<1>8. QED
  BY <1>1, <1>2, <1>3, <1>5, <1>6, <1>7 DEF CredentialsInv, ReplayedForCause, historyVars

LEMMA ExpireStep ==
    ASSUME CredentialsInv,
           (\E g \in Snap : AccessTokenExpires(g)) \/ UNCHANGED credentialsVars
    PROVE  CredentialsInv'
<1>1. /\ UNCHANGED <<file, lock, issued, spent, auth, historyVars>>
      /\ expired' \subseteq 1..issued
  <2>1. ASSUME NEW g \in Snap, AccessTokenExpires(g) PROVE g \in 1..issued
    BY <2>1, Numbers DEF AccessTokenExpires, CredentialsInv, Snap
  <2>2. QED
    BY <2>1 DEF AccessTokenExpires, credentialsVars, historyVars, CredentialsInv, CredentialsTypeOK
<1>2. QED
  BY <1>1 DEF CredentialsInv, CredentialsTypeOK, ProviderInv, AnswerNew, Flying, SentInFile,
              OwnInFile, ReplayedForCause, historyVars
(* The one step that puts a token on the network.  Its holder is alone     *)
(* and waits for no write: what the file holds was sent before only for    *)
(* the causes that stay.                                                   *)
LEMMA DispatchStep ==
    ASSUME CredentialsInv, NEW p \in Provider, Dispatch(p)
    PROVE  CredentialsInv'
<1>1. /\ auth[p].stage = "locked" /\ auth[p].pending = NoWrite /\ file \in expired
      /\ sent' = [sent EXCEPT ![file] = IF @ = 0 THEN 1 ELSE 2]
      /\ sentBy' = [sentBy EXCEPT ![p] = @ \cup {file}]
      /\ resent' = IF file \in sentBy[p] THEN resent \cup {file} ELSE resent
      /\ UNCHANGED <<file, lock, issued, spent, expired, unsaved, putBack, displaced>>
  BY DEF Dispatch, serverVars
<1>2. /\ file \in Snap /\ file # NoFile /\ file <= issued /\ file \in 1..issued
      /\ lock = p /\ ~auth[p].latched /\ sent[file] \in 0..2
  BY <1>1, Numbers DEF CredentialsInv, CredentialsTypeOK, ProviderInv, NoFile
<1>3. \A q \in Provider \ {p} : ~Flying(q) /\ auth[q].stage \notin {"locked", "sent", "answered"}
  BY <1>2, HolderAlone
<1>4. auth[p] \in AuthState /\ auth \in [Provider -> AuthState]
  BY AuthTyped DEF CredentialsInv
<1> DEFINE n == [auth[p] EXCEPT !.stage = "sent", !.held = file]
<1>5. /\ n \in AuthState
      /\ n.stage = "sent" /\ n.held = file /\ n.pending = NoWrite /\ n.latched = FALSE
  BY <1>1, <1>2, <1>4 DEF AuthState, RefreshStage
<1>6. auth' = [auth EXCEPT ![p] = n]
  <2>1. auth' = [auth EXCEPT ![p].stage = "sent", ![p].held = file]
    BY DEF Dispatch
  <2>2. QED
    BY <1>4, <2>1
<1> HIDE DEF n
<1>7. /\ auth' \in [Provider -> AuthState] /\ auth'[p] = n
      /\ \A q \in Provider \ {p} : auth'[q] = auth[q]
  BY <1>4, <1>5, <1>6
<1>8. /\ sent' \in [Snap -> 0..2] /\ sent'[file] > 0 /\ \A g \in Snap \ {file} : sent'[g] = sent[g]
      /\ sentBy' \in [Provider -> SUBSET (1..issued)]
      /\ sentBy'[p] = sentBy[p] \cup {file}
      /\ \A q \in Provider \ {p} : sentBy'[q] = sentBy[q]
      /\ resent' \subseteq 1..issued
  BY <1>1, <1>2 DEF CredentialsInv, CredentialsTypeOK
<1>9. CredentialsTypeOK'
  BY <1>1, <1>7, <1>8 DEF CredentialsInv, CredentialsTypeOK, AuthState
<1>10. \A g \in Snap : sent'[g] > 0 => g <= issued'
  BY <1>1, <1>2, <1>8 DEF CredentialsInv
<1>11. ASSUME NEW q \in Provider PROVE ProviderInv(q)'
  <2>1. ProviderInv(q)
    BY DEF CredentialsInv
  <2>2. \A g \in sentBy[q] : g \in Snap
    BY Numbers DEF CredentialsInv, CredentialsTypeOK
  <2>3. \A g \in sentBy'[q] : sent'[g] > 0
    BY <1>8, <2>1, <2>2 DEF ProviderInv
  <2>4. CASE q = p
    BY <1>1, <1>2, <1>5, <1>7, <2>3, <2>4 DEF ProviderInv, Flying
  <2>5. CASE q # p
    BY <1>1, <1>3, <1>7, <2>1, <2>3, <2>5 DEF ProviderInv, Flying
  <2>6. QED
    BY <2>4, <2>5
<1>12. SentInFile' /\ \A q \in Provider : OwnInFile(q)'
  <2>1. Flying(p)' /\ auth'[p].held = file' /\ file' = file
    BY <1>1, <1>5, <1>7 DEF Flying
  <2>2. ASSUME NEW q \in Provider \ {p} PROVE OwnInFile(q)'
    BY <1>1, <1>3, <1>7, <1>8 DEF CredentialsInv, OwnInFile, Flying
  <2>3. OwnInFile(p)'
    BY <2>1 DEF OwnInFile
  <2>4. QED
    BY <2>1, <2>2, <2>3 DEF SentInFile
<1>13. ReplayedForCause'
  <2>1. sent[file] > 0 => file \in unsaved \cup putBack
    BY <1>1, <1>2, <1>3 DEF CredentialsInv, SentInFile, Flying
  <2>2. sent'[file] > 1 => sent[file] > 0
    BY <1>1, <1>2 DEF CredentialsInv, CredentialsTypeOK
  <2>3. file \in sentBy[p] => file \in putBack
    BY <1>1, <1>2 DEF CredentialsInv, OwnInFile, Flying
  <2>4. QED
    BY <1>1, <1>8, <2>1, <2>2, <2>3 DEF CredentialsInv, ReplayedForCause
<1>14. QED
  BY <1>1, <1>2, <1>9, <1>10, <1>11, <1>12, <1>13 DEF CredentialsInv

(* The answer is a snapshot that nothing has seen yet.                     *)
LEMMA RotateStep ==
    ASSUME CredentialsInv, NEW p \in Provider, Rotate(p)
    PROVE  CredentialsInv'
<1>1. /\ auth[p].stage = "sent" /\ issued < MaxIssued /\ issued' = issued + 1
      /\ spent' = spent \cup {auth[p].held}
      /\ UNCHANGED <<file, lock, expired, sent, sentBy, resent, unsaved, putBack, displaced>>
  BY DEF Rotate, historyVars
<1>2. /\ lock = p /\ auth[p].held \in 1..issued /\ auth[p].pending = NoWrite /\ ~auth[p].latched
  BY <1>1 DEF CredentialsInv, ProviderInv, Flying
<1>3. \A q \in Provider \ {p} : ~Flying(q) /\ auth[q].stage \notin {"locked", "sent", "answered"}
  BY <1>2, HolderAlone
<1>4. auth[p] \in AuthState /\ auth \in [Provider -> AuthState]
  BY AuthTyped DEF CredentialsInv
<1>5. /\ issued' \in 0..MaxIssued /\ issued + 1 \in Snap /\ issued + 1 \in 1..issued'
      /\ 1..issued \subseteq 1..issued' /\ file # issued + 1 /\ file <= issued'
      /\ issued + 1 \notin 1..issued
      /\ \A g \in Snap : g <= issued => g <= issued' /\ g # issued + 1
  BY <1>1, Numbers DEF CredentialsInv, Snap
<1> DEFINE n == [auth[p] EXCEPT !.stage = "answered", !.got = issued + 1]
<1>6. /\ n \in AuthState
      /\ n.stage = "answered" /\ n.got = issued + 1 /\ n.held = auth[p].held
      /\ n.pending = NoWrite /\ n.latched = FALSE
  BY <1>2, <1>4, <1>5 DEF AuthState, RefreshStage
<1>7. auth' = [auth EXCEPT ![p] = n]
  <2>1. auth' = [auth EXCEPT ![p].stage = "answered", ![p].got = issued + 1]
    BY DEF Rotate
  <2>2. QED
    BY <1>4, <2>1
<1> HIDE DEF n
<1>8. /\ auth' \in [Provider -> AuthState] /\ auth'[p] = n
      /\ \A q \in Provider \ {p} : auth'[q] = auth[q]
  BY <1>4, <1>6, <1>7
<1>9. CredentialsTypeOK'
  <2>1. spent' \subseteq 1..issued'
    BY <1>1, <1>2, <1>5 DEF CredentialsInv, CredentialsTypeOK
  <2>2. QED
    BY <1>1, <1>5, <1>8, <2>1 DEF CredentialsInv, CredentialsTypeOK, AuthState
<1>10. \A g \in Snap : sent'[g] > 0 => g <= issued'
  BY <1>1, <1>5 DEF CredentialsInv
<1>11. \A q \in Provider :
        auth'[q].pending # NoWrite =>
          /\ auth'[q].pending.previous # auth'[q].pending.refreshed
          /\ auth'[q].pending.refreshed <= issued' /\ auth'[q].pending.refreshed # issued + 1
  <2> SUFFICES ASSUME NEW q \in Provider, auth'[q].pending # NoWrite
               PROVE  /\ auth'[q].pending.previous # auth'[q].pending.refreshed
                      /\ auth'[q].pending.refreshed <= issued'
                      /\ auth'[q].pending.refreshed # issued + 1
    OBVIOUS
  <2>1. q # p /\ auth'[q] = auth[q]
    BY <1>6, <1>8
  <2>2. /\ auth[q].pending.refreshed \in Snap /\ auth[q].pending.refreshed <= issued
        /\ auth[q].pending.previous # auth[q].pending.refreshed
    BY <2>1, AuthTyped DEF CredentialsInv, ProviderInv, Write
  <2>3. QED
    BY <1>5, <2>1, <2>2
<1>12. sent[issued + 1] = 0
  <2>1. sent[issued + 1] \in 0..2 /\ ~(sent[issued + 1] > 0)
    BY <1>5, Numbers DEF CredentialsInv
  <2>2. QED
    BY <2>1
<1>13. AnswerNew(p)'
  <2>1. auth[p].held # issued + 1
    BY <1>2, <1>5
  <2>2. QED
    BY <1>1, <1>5, <1>6, <1>8, <1>11, <1>12, <2>1 DEF AnswerNew
<1>14. ASSUME NEW q \in Provider PROVE ProviderInv(q)'
  <2>1. ProviderInv(q)
    BY DEF CredentialsInv
  <2>2. CASE q = p
    BY <1>1, <1>2, <1>5, <1>6, <1>8, <1>11, <1>13, <2>1, <2>2 DEF ProviderInv, Flying
  <2>3. CASE q # p
    BY <1>1, <1>3, <1>8, <1>11, <2>1, <2>3 DEF ProviderInv, Flying
  <2>4. QED
    BY <2>2, <2>3
<1>15. \A q \in Provider : Flying(q) => Flying(q)' /\ auth'[q].held = auth[q].held
  BY <1>3, <1>6, <1>8 DEF Flying
<1>16. \A q \in Provider :
        /\ auth[q].latched => auth'[q].latched
        /\ auth'[q].pending = auth[q].pending
  BY <1>2, <1>6, <1>8
<1>17. SentInFile' /\ (\A q \in Provider : OwnInFile(q)') /\ ReplayedForCause'
  BY <1>1, <1>15, <1>16 DEF CredentialsInv, SentInFile, OwnInFile, ReplayedForCause
<1>18. QED
  BY <1>5, <1>1, <1>9, <1>10, <1>14, <1>17 DEF CredentialsInv

(* A refresh ends with its token marked as unsaved, or is not in flight;   *)
(* the provider has forgotten what it sent, or refuses to send again, or   *)
(* the file is as it was with nothing of its own in it.                    *)
LEMMA EndedStep ==
    ASSUME CredentialsInv, NEW p \in Provider, NEW latched \in BOOLEAN,
           Finished(p, latched, NoWrite),
           UNCHANGED <<file, issued, expired, sent, resent, putBack, displaced>>,
           spent' \subseteq 1..issued,
           Flying(p) => unsaved' = unsaved \cup {auth[p].held},
           ~Flying(p) => unsaved' = unsaved,
           \/ sentBy' = sentBy /\ latched
           \/ sentBy' = [sentBy EXCEPT ![p] = {}]
    PROVE  CredentialsInv'
<1>1. /\ auth' \in [Provider -> AuthState]
      /\ auth'[p].stage = "idle" /\ auth'[p].latched = latched /\ auth'[p].pending = NoWrite
      /\ \A q \in Provider \ {p} : auth'[q] = auth[q]
      /\ lock' \in Provider \cup {NoHolder}
      /\ lock' = IF lock = p THEN NoHolder ELSE lock
  BY FinishedTyped DEF CredentialsInv
<1>2. unsaved \subseteq unsaved' /\ unsaved' \subseteq 1..issued
  BY DEF CredentialsInv, CredentialsTypeOK, ProviderInv
<1>3. /\ sentBy' \in [Provider -> SUBSET (1..issued)]
      /\ \A q \in Provider : sentBy'[q] \subseteq sentBy[q]
  BY DEF CredentialsInv, CredentialsTypeOK
<1>4. CredentialsTypeOK'
  BY <1>1, <1>2, <1>3 DEF CredentialsInv, CredentialsTypeOK, AuthState
<1>5. ASSUME NEW q \in Provider PROVE ProviderInv(q)'
  <2>1. ProviderInv(q)
    BY DEF CredentialsInv
  <2>2. CASE q = p
    BY <1>1, <1>3, <2>1, <2>2 DEF ProviderInv, Flying
  <2>3. CASE q # p
    <3>1. auth'[q] = auth[q] /\ (lock = q => lock' = q)
      BY <1>1, <2>3
    <3>2. AnswerNew(q) => AnswerNew(q)'
      BY <1>1, <3>1 DEF AnswerNew
    <3>3. QED
      BY <1>3, <2>1, <3>1, <3>2 DEF ProviderInv, Flying
  <2>4. QED
    BY <2>2, <2>3
<1>6. SentInFile'
  <2> SUFFICES ASSUME file # NoFile, sent[file] > 0
               PROVE  \/ file \in unsaved' \cup putBack
                      \/ \E q \in Provider : Flying(q)' /\ auth'[q].held = file
    BY DEF SentInFile
  <2>1. CASE file \in unsaved \cup putBack
    BY <1>2, <2>1
  <2>2. CASE \E q \in Provider : Flying(q) /\ auth[q].held = file
    BY <1>1, <2>2 DEF Flying
  <2>3. QED
    BY <2>1, <2>2 DEF CredentialsInv, SentInFile
<1>7. ASSUME NEW q \in Provider PROVE OwnInFile(q)'
  <2>1. CASE q = p
    <3>1. auth'[p].latched \/ sentBy'[p] = {}
      BY <1>1 DEF CredentialsInv, CredentialsTypeOK
    <3>2. QED
      BY <2>1, <3>1 DEF OwnInFile
  <2>2. CASE q # p
    <3>1. auth'[q] = auth[q] /\ sentBy'[q] \subseteq sentBy[q] /\ OwnInFile(q)
      BY <1>1, <1>3, <2>2 DEF CredentialsInv
    <3>2. QED
      BY <3>1 DEF OwnInFile, Flying
  <2>3. QED
    BY <2>1, <2>2
<1>8. ReplayedForCause'
  BY <1>2 DEF CredentialsInv, ReplayedForCause
<1>9. QED
  BY <1>4, <1>5, <1>6, <1>7, <1>8 DEF CredentialsInv

LEMMA RefreshFailsStep ==
    ASSUME CredentialsInv, NEW p \in Provider, RefreshFails(p)
    PROVE  CredentialsInv'
<1>1. Flying(p) /\ auth[p].held \in 1..issued
  BY DEF RefreshFails, Flying, CredentialsInv, ProviderInv
<1>2. spent' \subseteq 1..issued
  BY <1>1 DEF RefreshFails, CredentialsInv, CredentialsTypeOK
<1>3. QED
  BY <1>1, <1>2, EndedStep DEF RefreshFails, Unsaved

LEMMA ProviderEndsStep ==
    ASSUME CredentialsInv, NEW p \in Provider, ProviderEnds(p)
    PROVE  CredentialsInv'
<1>1. spent' \subseteq 1..issued
  BY DEF ProviderEnds, CredentialsInv, CredentialsTypeOK, ProviderInv, Flying
<1>2. QED
  BY <1>1, EndedStep DEF ProviderEnds, Unsaved, Flying

(* An answer that is written, or kept to be written.                       *)
LEMMA SaveStep ==
    ASSUME CredentialsInv, NEW p \in Provider, SaveAnswer(p) \/ SaveFails(p)
    PROVE  CredentialsInv'
<1> DEFINE got == auth[p].got
           held == auth[p].held
<1>1. /\ auth[p].stage = "answered" /\ Flying(p)
      /\ UNCHANGED <<issued, spent, expired, sent, sentBy, resent, putBack>>
  BY DEF SaveAnswer, SaveFails, Flying, serverVars
<1>2. /\ lock = p /\ held \in 1..issued /\ got \in 1..issued /\ AnswerNew(p)
      /\ auth[p].pending = NoWrite /\ ~auth[p].latched
  BY <1>1 DEF CredentialsInv, ProviderInv, AnswerNew
<1>3. \A q \in Provider \ {p} : ~Flying(q) /\ auth[q].stage \notin {"locked", "sent", "answered"}
  BY <1>2, HolderAlone
<1>4. /\ held \in Snap /\ got \in Snap /\ got # held /\ got <= issued /\ got # NoFile
      /\ sent[got] = 0 /\ file # got
  BY <1>2, Numbers DEF AnswerNew, CredentialsInv, NoFile
<1>5. /\ Answered(p) \in Write
      /\ Answered(p).previous = held /\ Answered(p).refreshed = got /\ Answered(p) # NoWrite
  BY <1>4, NoWriteAssumption DEF Answered, Write
<1>6. PICK w \in {NoWrite, Answered(p)} :
        /\ Finished(p, FALSE, w)
        /\ file' = got \/ (file' = file /\ w = Answered(p))
        /\ w = NoWrite => unsaved' = unsaved
        /\ w = Answered(p) => unsaved' = unsaved \cup {held}
        /\ displaced' \in BOOLEAN
  BY <1>5 DEF SaveAnswer, SaveFails, Persisted, PersistFailed, Unsaved, CredentialsInv, CredentialsTypeOK
<1>7. w \in Write \cup {NoWrite}
  BY <1>5
<1>8. /\ auth' \in [Provider -> AuthState]
      /\ auth'[p].stage = "idle" /\ auth'[p].latched = FALSE /\ auth'[p].pending = w
      /\ \A q \in Provider \ {p} : auth'[q] = auth[q]
      /\ lock' \in Provider \cup {NoHolder}
      /\ lock' = IF lock = p THEN NoHolder ELSE lock
  BY <1>6, <1>7, FinishedTyped DEF CredentialsInv
<1>9. /\ file' \in Snap \cup {NoFile} /\ file' <= issued /\ unsaved \subseteq unsaved'
      /\ unsaved' \subseteq 1..issued
  BY <1>2, <1>4, <1>6 DEF CredentialsInv, CredentialsTypeOK
<1>10. CredentialsTypeOK'
  BY <1>1, <1>6, <1>8, <1>9 DEF CredentialsInv, CredentialsTypeOK, AuthState
<1> HIDE DEF got, held
<1>11. ASSUME NEW q \in Provider PROVE ProviderInv(q)'
  <2>1. ProviderInv(q)
    BY DEF CredentialsInv
  <2>2. CASE q = p
    BY <1>1, <1>4, <1>5, <1>6, <1>8, <2>1, <2>2 DEF ProviderInv, Flying
  <2>3. CASE q # p
    BY <1>1, <1>3, <1>8, <2>1, <2>3 DEF ProviderInv, Flying
  <2>4. QED
    BY <2>2, <2>3
<1>12. SentInFile'
  <2>1. CASE file' = got
    BY <1>1, <1>4, <2>1 DEF SentInFile
  <2>2. CASE file' = file /\ w = Answered(p)
    BY <1>1, <1>3, <1>6, <2>2 DEF SentInFile, CredentialsInv, held
  <2>3. QED
    BY <1>6, <2>1, <2>2
<1>13. ASSUME NEW q \in Provider PROVE OwnInFile(q)'
  <2>1. CASE file' = got
    <3>1. got \notin sentBy'[q]
      BY <1>1, <1>4 DEF CredentialsInv, ProviderInv
    <3>2. QED
      BY <2>1, <3>1 DEF OwnInFile
  <2>2. CASE file' = file /\ w = Answered(p) /\ q = p
    BY <1>1, <1>2, <1>5, <1>8, <2>2 DEF OwnInFile, CredentialsInv, held
  <2>3. CASE file' = file /\ q # p
    BY <1>1, <1>8, <2>3 DEF OwnInFile, CredentialsInv, Flying
  <2>4. QED
    BY <1>6, <2>1, <2>2, <2>3
<1>14. ReplayedForCause'
  BY <1>1, <1>9 DEF CredentialsInv, ReplayedForCause
<1>15. \A g \in Snap : sent'[g] > 0 => g <= issued'
  BY <1>1 DEF CredentialsInv
<1>16. QED
  BY <1>1, <1>9, <1>10, <1>11, <1>12, <1>13, <1>14, <1>15 DEF CredentialsInv

(* A repeated write brings back what it brings back, and says so.          *)
LEMMA RepeatWriteStep ==
    ASSUME CredentialsInv, NEW p \in Provider, RepeatWrite(p)
    PROVE  CredentialsInv'
<1> DEFINE old == auth[p].pending
<1>1. /\ auth[p].stage = "locked" /\ old # NoWrite
      /\ putBack' = IF file' # file /\ sent[old.refreshed] > 0 THEN putBack \cup {file'} ELSE putBack
      /\ UNCHANGED <<issued, spent, expired, sent, sentBy, resent, unsaved>>
  BY DEF RepeatWrite, serverVars
<1>2. /\ old \in Write /\ old.refreshed \in Snap /\ old.refreshed <= issued
      /\ old.previous # old.refreshed /\ old.refreshed \in 1..issued
      /\ lock = p /\ ~auth[p].latched
  <2>1. old \in Write /\ old.refreshed \in Snap /\ old.refreshed <= issued
        /\ old.previous # old.refreshed /\ lock = p /\ ~auth[p].latched
    BY <1>1, AuthTyped DEF CredentialsInv, ProviderInv, Write
  <2>2. QED
    BY <2>1, Numbers DEF CredentialsInv, Snap
<1>3. \A q \in Provider \ {p} : ~Flying(q) /\ auth[q].stage \notin {"locked", "sent", "answered"}
  BY <1>2, HolderAlone
<1>4. PICK w \in {NoWrite, old} :
        /\ Finished(p, FALSE, w)
        /\ file' = old.refreshed \/ (file' = file /\ w = old)
        /\ displaced' \in BOOLEAN
  BY DEF RepeatWrite, Persisted, PersistFailed, CredentialsInv, CredentialsTypeOK
<1>5. w \in Write \cup {NoWrite}
  BY <1>2
<1>6. /\ auth' \in [Provider -> AuthState]
      /\ auth'[p].stage = "idle" /\ auth'[p].latched = FALSE /\ auth'[p].pending = w
      /\ \A q \in Provider \ {p} : auth'[q] = auth[q]
      /\ lock' \in Provider \cup {NoHolder}
      /\ lock' = IF lock = p THEN NoHolder ELSE lock
  BY <1>4, <1>5, FinishedTyped DEF CredentialsInv
<1>7. /\ file' \in Snap \cup {NoFile} /\ file' <= issued
      /\ putBack \subseteq putBack' /\ putBack' \subseteq 1..issued
  BY <1>1, <1>2, <1>4 DEF CredentialsInv, CredentialsTypeOK
<1>8. CredentialsTypeOK'
  BY <1>1, <1>4, <1>6, <1>7 DEF CredentialsInv, CredentialsTypeOK, AuthState
<1> HIDE DEF old
<1>9. ASSUME NEW q \in Provider PROVE ProviderInv(q)'
  <2>1. ProviderInv(q)
    BY DEF CredentialsInv
  <2>2. CASE q = p
    BY <1>1, <1>2, <1>4, <1>6, <2>1, <2>2 DEF ProviderInv, Flying
  <2>3. CASE q # p
    BY <1>1, <1>3, <1>6, <2>1, <2>3 DEF ProviderInv, Flying
  <2>4. QED
    BY <2>2, <2>3
<1>10. ~Flying(p)
  BY <1>1 DEF Flying
<1>11. file' # file /\ file' # NoFile /\ sent[file'] > 0 => file' \in putBack'
  BY <1>1, <1>4
<1>12. SentInFile'
  <2>1. CASE file' = file
    BY <1>1, <1>3, <1>7, <1>10, <2>1 DEF SentInFile, CredentialsInv
  <2>2. CASE file' # file
    BY <1>1, <1>11, <2>2 DEF SentInFile
  <2>3. QED
    BY <2>1, <2>2
<1>13. ASSUME NEW q \in Provider PROVE OwnInFile(q)'
  <2>1. CASE file' # file
    <3>1. file' \in sentBy[q] => sent[file'] > 0 /\ file' # NoFile
      BY Numbers DEF CredentialsInv, CredentialsTypeOK, ProviderInv, NoFile
    <3>2. QED
      BY <1>1, <1>11, <2>1, <3>1 DEF OwnInFile
  <2>2. CASE file' = file /\ q # p
    BY <1>1, <1>6, <1>7, <2>2 DEF OwnInFile, CredentialsInv, Flying
  <2>3. CASE file' = file /\ q = p
    <3>1. file \in sentBy[p] => file \in putBack \/ old.previous = file
      BY <1>2, <1>10 DEF OwnInFile, CredentialsInv, old
    <3>2. file \in sentBy[p] /\ file \notin putBack => w = old
      BY <1>2, <1>4, <2>3, <3>1
    <3>3. QED
      BY <1>1, <1>6, <1>7, <2>3, <3>1, <3>2 DEF OwnInFile
  <2>4. QED
    BY <2>1, <2>2, <2>3
<1>14. ReplayedForCause'
  BY <1>1, <1>7 DEF CredentialsInv, ReplayedForCause
<1>15. \A g \in Snap : sent'[g] > 0 => g <= issued'
  BY <1>1 DEF CredentialsInv
<1>16. QED
  BY <1>1, <1>7, <1>8, <1>9, <1>12, <1>13, <1>14, <1>15 DEF CredentialsInv

LEMMA CredentialsStep ==
    CredentialsInv /\ [CredentialsNext]_credentialsVars => CredentialsInv'
  BY FileStep, ExpireStep, BeginsStep, EndsQuietlyStep, DispatchStep, RotateStep,
     RefreshFailsStep, ProviderEndsStep, SaveStep, RepeatWriteStep
  DEF CredentialsNext

LEMMA CredentialsInvariant == CredentialsSpec => []CredentialsInv
  BY CredentialsInitInv, CredentialsStep, PTL DEF CredentialsSpec

(* The file, the lock, the server's record and every provider keep their   *)
(* types.                                                                  *)
THEOREM CredentialsTypeCorrect == CredentialsSpec => []CredentialsTypeOK
  BY CredentialsInvariant, PTL DEF CredentialsInv

(* However many providers share the file, and whenever one of them ends, a *)
(* refresh token is sent a second time only for want of its answer or      *)
(* after a repeated write, and by one provider only after the latter.      *)
THEOREM ReplayedForCauseHolds == CredentialsSpec => []ReplayedForCause
  BY CredentialsInvariant, PTL DEF CredentialsInv
=============================================================================
