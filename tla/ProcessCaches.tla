--------------------------- MODULE ProcessCaches ---------------------------
(* The caches a server keeps in its own memory: the signing keys             *)
(* (lib/signing-keys.ts) and the configuration (lib/system-config.ts), with   *)
(* the transactions that change what they hold (routes/keys.ts,               *)
(* routes/config.ts) and the start of a server, which creates the first key.  *)
(*                                                                            *)
(* The content of a table is the number of changes committed to it; a         *)
(* snapshot is that number at the time of a read.  Each of a server's         *)
(* requests in flight has one read at most.                                   *)
EXTENDS Naturals, Sequences

CONSTANTS
    Server,      \* server processes
    Reader,      \* requests of a server that read a cached value
    NoServer,    \* the owner of a free table lock
    NoSnapshot,  \* an empty cache
    NoLoad,      \* a request without a read in flight
    CacheTtl,    \* JWKS_CACHE_TTL_MS and CACHE_TTL_MS
    MaxCommits,  \* bound: changes of one table
    MaxInstant   \* bound: clock

ASSUME ProcessCachesAssumption ==
    /\ CacheTtl \in Nat \ {0} /\ MaxCommits \in Nat \ {0} /\ MaxInstant \in Nat
    /\ NoServer \notin Server

Table == {"keys", "config"}

VARIABLES
    commits,     \* the instants at which a table's changes were committed
    instant,     \* the clock
    boot,        \* how far a server is in ensureSigningKeys
    keyLock,     \* the server that holds LOCK TABLE signing_keys
    generated,   \* how many keys servers generated while starting
    snapshot,    \* the value a server caches of a table, and since when
    generation,  \* how often a server cleared a cache (config: which map it uses)
    load,        \* the reads in flight
    uncleared,   \* a server's commits that have still to clear its cache
    cleared      \* the changes a server has cleared its cache for

processCachesVars ==
    <<commits, instant, boot, keyLock, generated, snapshot, generation, load, uncleared, cleared>>

Instant == 0..MaxInstant
Count == 0..MaxCommits

Boot == {"down", "locked", "inserting", "up"}

Snapshot == [upto : Count, since : Instant]

(* A read: the cache it fills, the generation it started under, its clock    *)
(* reading, and the value once the query has answered.                       *)
Load == [table : Table, under : Count, since : Instant, answered : BOOLEAN, upto : Count]

ProcessCachesTypeOK ==
    /\ commits \in [Table -> Seq(Instant)] /\ \A t \in Table : Len(commits[t]) \in Count
    /\ instant \in Instant
    /\ boot \in [Server -> Boot]
    /\ keyLock \in Server \cup {NoServer}
    /\ generated \in Nat
    /\ snapshot \in [Server -> [Table -> Snapshot \cup {NoSnapshot}]]
    /\ generation \in [Server -> [Table -> Count]]
    /\ load \in [Server -> [Reader -> Load \cup {NoLoad}]]
    /\ uncleared \in [Server -> [Table -> Count]]
    /\ cleared \in [Server -> [Table -> Count]]

Version(t) == Len(commits[t])

(* A new database: the configuration is seeded by a migration, the keys not. *)
ProcessCachesInit ==
    /\ commits = [t \in Table |-> <<>>]
    /\ instant = 0
    /\ boot = [s \in Server |-> "down"]
    /\ keyLock = NoServer
    /\ generated = 0
    /\ snapshot = [s \in Server |-> [t \in Table |-> NoSnapshot]]
    /\ generation = [s \in Server |-> [t \in Table |-> 0]]
    /\ load = [s \in Server |-> [r \in Reader |-> NoLoad]]
    /\ uncleared = [s \in Server |-> [t \in Table |-> 0]]
    /\ cleared = [s \in Server |-> [t \in Table |-> 0]]

cacheVars == <<snapshot, generation, load, uncleared, cleared>>
bootVars == <<boot, keyLock, generated>>

-----------------------------------------------------------------------------
(* The start of a server: ensureSigningKeys.                                 *)

(* Faulty variant: the lock mode of an ordinary insert, which two servers    *)
(* hold at once.                                                             *)
LockKeysShared(s) ==
    /\ boot[s] = "down"
    /\ keyLock' = s
    /\ boot' = [boot EXCEPT ![s] = "locked"]
    /\ UNCHANGED <<commits, instant, generated, cacheVars>>

(* LOCK TABLE signing_keys IN SHARE ROW EXCLUSIVE MODE                       *)
LockKeys(s) ==
    /\ boot[s] = "down"
    /\ keyLock = NoServer
    /\ keyLock' = s
    /\ boot' = [boot EXCEPT ![s] = "locked"]
    /\ UNCHANGED <<commits, instant, generated, cacheVars>>

(* The recheck under the lock; with a key there the transaction just ends.   *)
RecheckKeys(s) ==
    /\ boot[s] = "locked"
    /\ boot' = [boot EXCEPT ![s] = IF Version("keys") = 0 THEN "inserting" ELSE "up"]
    /\ keyLock' = IF Version("keys") = 0 THEN keyLock ELSE NoServer
    /\ UNCHANGED <<commits, instant, generated, cacheVars>>

(* The first key is inserted and committed, which frees the lock.            *)
InsertFirstKey(s) ==
    /\ boot[s] = "inserting"
    /\ Version("keys") < MaxCommits
    /\ commits' = [commits EXCEPT !["keys"] = Append(@, instant)]
    /\ generated' = generated + 1
    /\ keyLock' = NoServer
    /\ boot' = [boot EXCEPT ![s] = "up"]
    /\ UNCHANGED <<instant, cacheVars>>

(* A process ends, at any point; an open transaction is rolled back.         *)
Stop(s) ==
    /\ boot[s] # "down"
    /\ boot' = [boot EXCEPT ![s] = "down"]
    /\ keyLock' = IF keyLock = s THEN NoServer ELSE keyLock
    /\ snapshot' = [snapshot EXCEPT ![s] = [t \in Table |-> NoSnapshot]]
    /\ generation' = [generation EXCEPT ![s] = [t \in Table |-> 0]]
    /\ load' = [load EXCEPT ![s] = [r \in Reader |-> NoLoad]]
    /\ uncleared' = [uncleared EXCEPT ![s] = [t \in Table |-> 0]]
    /\ cleared' = [cleared EXCEPT ![s] = [t \in Table |-> 0]]
    /\ UNCHANGED <<commits, instant, generated>>

-----------------------------------------------------------------------------
(* Reads: getActiveJwks, getRawConfigValue.                                  *)

(* A cached value younger than its lifetime is returned as it is.            *)
Served(s, t) ==
    /\ snapshot[s][t] # NoSnapshot
    /\ instant - snapshot[s][t].since < CacheTtl

(* A miss: the clock and the generation are read before the query.           *)
StartLoad(s, r, t) ==
    /\ boot[s] = "up"
    /\ load[s][r] = NoLoad
    /\ ~Served(s, t)
    /\ load' = [load EXCEPT ![s][r] =
         [table |-> t, under |-> generation[s][t], since |-> instant,
          answered |-> FALSE, upto |-> 0]]
    /\ UNCHANGED <<commits, instant, bootVars, snapshot, generation, uncleared, cleared>>

(* PostgreSQL answers.                                                       *)
AnswerLoad(s, r) ==
    /\ load[s][r] # NoLoad /\ ~load[s][r].answered
    /\ load' = [load EXCEPT ![s][r].answered = TRUE,
                            ![s][r].upto = Version(load[s][r].table)]
    /\ UNCHANGED <<commits, instant, bootVars, snapshot, generation, uncleared, cleared>>

(* Whether a completed read may still be installed: the generation is the    *)
(* one it started under, or its map is still the one in use.                 *)
Installable(s, l) == l.under = generation[s][l.table]

(* The value is installed with the time from before the query; the caller    *)
(* gets it in either case.                                                   *)
InstallLoad(s, r) ==
    LET l == load[s][r]
    IN  /\ l # NoLoad /\ l.answered
        /\ snapshot' = IF Installable(s, l)
             THEN [snapshot EXCEPT ![s][l.table] = [upto |-> l.upto, since |-> l.since]]
             ELSE snapshot
        /\ load' = [load EXCEPT ![s][r] = NoLoad]
        /\ UNCHANGED <<commits, instant, bootVars, generation, uncleared, cleared>>

(* The query fails, or the row is missing: nothing is cached.                *)
LoadFails(s, r) ==
    /\ load[s][r] # NoLoad /\ ~load[s][r].answered
    /\ load' = [load EXCEPT ![s][r] = NoLoad]
    /\ UNCHANGED <<commits, instant, bootVars, snapshot, generation, uncleared, cleared>>

-----------------------------------------------------------------------------
(* Changes: createActiveSigningKey within generate and rotate,               *)
(* commitConfigChanges.                                                      *)

(* The transaction commits.  A change of the keys waits for a starting       *)
(* server's table lock.                                                      *)
CommitChange(s, t) ==
    /\ boot[s] = "up"
    /\ Version(t) < MaxCommits
    /\ t = "keys" => keyLock = NoServer
    /\ commits' = [commits EXCEPT ![t] = Append(@, instant)]
    /\ uncleared' = [uncleared EXCEPT ![s][t] = @ + 1]
    /\ UNCHANGED <<instant, bootVars, snapshot, generation, load, cleared>>

(* Faulty variant: the cache is emptied but reads in flight are not told.    *)
ClearCacheOnly(s, t) ==
    /\ uncleared[s][t] > 0
    /\ snapshot' = [snapshot EXCEPT ![s][t] = NoSnapshot]
    /\ cleared' = [cleared EXCEPT ![s][t] = Version(t)]
    /\ uncleared' = [uncleared EXCEPT ![s][t] = @ - 1]
    /\ UNCHANGED <<commits, instant, bootVars, generation, load>>

(* After the commit: clearJwksCache, clearSystemConfigCache, in the process  *)
(* that made the change only.                                                *)
ClearCache(s, t) ==
    /\ uncleared[s][t] > 0
    /\ snapshot' = [snapshot EXCEPT ![s][t] = NoSnapshot]
    /\ generation' = [generation EXCEPT ![s][t] = @ + 1]
    /\ cleared' = [cleared EXCEPT ![s][t] = Version(t)]
    /\ uncleared' = [uncleared EXCEPT ![s][t] = @ - 1]
    /\ UNCHANGED <<commits, instant, bootVars, load>>

ClockTicks ==
    /\ instant < MaxInstant
    /\ instant' = instant + 1
    /\ UNCHANGED <<commits, bootVars, cacheVars>>

-----------------------------------------------------------------------------
ProcessCachesNext ==
    \/ ClockTicks
    \/ \E s \in Server :
        \/ LockKeys(s) \/ RecheckKeys(s) \/ InsertFirstKey(s) \/ Stop(s)
        \/ \E t \in Table : CommitChange(s, t) \/ ClearCache(s, t)
        \/ \E r \in Reader :
            \/ \E t \in Table : StartLoad(s, r, t)
            \/ AnswerLoad(s, r) \/ InstallLoad(s, r) \/ LoadFails(s, r)

ProcessCachesSpec == ProcessCachesInit /\ [][ProcessCachesNext]_processCachesVars

-----------------------------------------------------------------------------
(* What a server serves from memory holds every change it has itself         *)
(* cleared the cache for, although reads that began before the clear end     *)
(* after it, and every change that any server committed a lifetime ago       *)
(* (lib/signing-keys.ts:52-70, lib/system-config.ts:67-91).                  *)
SnapshotsAreFresh ==
    \A s \in Server, t \in Table :
        Served(s, t) =>
            /\ snapshot[s][t].upto >= cleared[s][t]
            /\ \A n \in snapshot[s][t].upto + 1 .. Version(t) :
                   instant - commits[t][n] < CacheTtl

(* Servers that start together on an empty database create one key between   *)
(* them, whichever of them stops half-way (lib/signing-keys.ts:304-337).     *)
OneFirstKey == generated <= 1
=============================================================================
