----------------------------- MODULE ReadCaches -----------------------------
(* The read-through caches in Redis, for rows with an identifier and a       *)
(* reusable second key: organizations under their slug (organizations/       *)
(* cache.ts, service.ts), applications likewise, clients under their          *)
(* client_id.  The cache of users is the same without the second key.         *)
(*                                                                            *)
(* A row's content is the number of changes made to it.  Redis answers one    *)
(* command at a time; each command of a request may fail, and the request     *)
(* may stop before it.  An entry carries an excuse once it was out of date    *)
(* on arrival ("late"), its removal failed ("lost"), or a bulk change left    *)
(* it as it was ("bulk"): it then stays until it expires.                     *)
EXTENDS Naturals

CONSTANTS
    Row,        \* rows that use one slug after the other
    Slug,       \* that slug, as a key of the cache
    Fill,       \* requests that read a row
    Change,     \* requests that change a row
    NoEntry,    \* an absent key
    NoFill,     \* an idle reading request
    NoChange,   \* an idle changing request
    MaxVersion  \* bound: changes of one row

ASSUME ReadCachesAssumption ==
    /\ MaxVersion \in Nat \ {0}
    /\ Slug \notin Row

VARIABLES
    row,    \* the rows in PostgreSQL
    cache,  \* the keys in Redis
    fill,   \* what a reading request is doing
    change  \* what a changing request has left to do after its commit

readCachesVars == <<row, cache, fill, change>>

Key == Row \cup {Slug}
RowVersion == 0..MaxVersion
Status == {"unborn", "live", "deleted"}

Excuse == {"none", "late", "lost", "bulk"}

Entry == [row : Row, version : RowVersion, excuse : Excuse]

(* A reading request: the key it missed, and then the row it stores, first   *)
(* under the slug and then under the identifier.                             *)
Filling ==
    [stage : {"missed"}, key : Key]
      \cup [stage : {"storeSlug", "storeId"}, row : Row, version : RowVersion]

(* A changing request after its commit: what it still owes the cache.        *)
Owed == {"invalidate", "invalidateOnly", "cleanId", "cleanSlug", "storeSlug", "storeId"}
Changing == [stage : Owed, row : Row, version : RowVersion]

ASSUME NoChangeAssumption == NoChange \notin Changing

ReadCachesTypeOK ==
    /\ row \in [Row -> [status : Status, version : RowVersion]]
    /\ cache \in [Key -> Entry \cup {NoEntry}]
    /\ fill \in [Fill -> Filling \cup {NoFill}]
    /\ change \in [Change -> Changing \cup {NoChange}]

ReadCachesInit ==
    /\ row = [r \in Row |-> [status |-> "unborn", version |-> 0]]
    /\ cache = [k \in Key |-> NoEntry]
    /\ fill = [f \in Fill |-> NoFill]
    /\ change = [c \in Change |-> NoChange]

Live(r) == row[r].status = "live"
Current(r, v) == Live(r) /\ row[r].version = v

(* The entry a SET leaves: one that is out of date already comes late.       *)
Stored(r, v) ==
    [row |-> r, version |-> v, excuse |-> IF Current(r, v) THEN "none" ELSE "late"]

(* Nobody will remove the entries of a row that is out of date now.          *)
Excused(r, excuse) ==
    [k \in Key |-> IF cache[k] # NoEntry /\ cache[k].row = r
                   THEN [cache[k] EXCEPT !.excuse = excuse]
                   ELSE cache[k]]

-----------------------------------------------------------------------------
(* Reading: getOrganizationById, getOrganizationBySlug, tenantResolver.      *)

(* The key is absent, or Redis does not answer.                              *)
Miss(f, k) ==
    /\ fill[f] = NoFill
    /\ fill' = [fill EXCEPT ![f] = [stage |-> "missed", key |-> k]]
    /\ UNCHANGED <<row, cache, change>>

(* The row is read from PostgreSQL.                                          *)
LoadRow(f) ==
    /\ fill[f] # NoFill /\ fill[f].stage = "missed"
    /\ \E r \in Row :
        /\ Live(r) /\ fill[f].key \in {r, Slug}
        /\ fill' = [fill EXCEPT ![f] =
             [stage |-> "storeSlug", row |-> r, version |-> row[r].version]]
    /\ UNCHANGED <<row, cache, change>>

StoreSlug(f) ==
    /\ fill[f] # NoFill /\ fill[f].stage = "storeSlug"
    /\ cache' = [cache EXCEPT ![Slug] = Stored(fill[f].row, fill[f].version)]
    /\ fill' = [fill EXCEPT ![f].stage = "storeId"]
    /\ UNCHANGED <<row, change>>

StoreId(f) ==
    /\ fill[f] # NoFill /\ fill[f].stage = "storeId"
    /\ cache' = [cache EXCEPT ![fill[f].row] = Stored(fill[f].row, fill[f].version)]
    /\ fill' = [fill EXCEPT ![f] = NoFill]
    /\ UNCHANGED <<row, change>>

(* No such row, a failed command, or a request that stops.                   *)
FillEnds(f) ==
    /\ fill[f] # NoFill
    /\ fill' = [fill EXCEPT ![f] = NoFill]
    /\ UNCHANGED <<row, cache, change>>

(* Every entry expires after CACHE_TTL.                                      *)
EntryExpires(k) ==
    /\ cache[k] # NoEntry
    /\ cache' = [cache EXCEPT ![k] = NoEntry]
    /\ UNCHANGED <<row, fill, change>>

-----------------------------------------------------------------------------
(* Changing.  What the code registers with afterDatabaseCommit runs after    *)
(* the row has changed.                                                      *)

Owes(c, stage, r, v) ==
    change' = [change EXCEPT ![c] = [stage |-> stage, row |-> r, version |-> v]]

(* createOrganization                                                        *)
CreateRow(c, r) ==
    /\ change[c] = NoChange
    /\ row[r].status = "unborn"
    /\ \A other \in Row : ~Live(other)
    /\ row' = [row EXCEPT ![r].status = "live"]
    /\ Owes(c, "storeSlug", r, 0)
    /\ UNCHANGED <<cache, fill>>

Rewritten(r) ==
    /\ Live(r) /\ row[r].version < MaxVersion
    /\ row' = [row EXCEPT ![r].version = @ + 1]

(* updateOrganization, updateOrganizationBranding: the entries are deleted   *)
(* and the row as this request wrote it is stored.                           *)
UpdateRow(c, r) ==
    /\ change[c] = NoChange
    /\ Rewritten(r)
    /\ Owes(c, "invalidate", r, row[r].version + 1)
    /\ UNCHANGED <<cache, fill>>

(* suspendOrganization, activateOrganization: the entries are deleted.       *)
ChangeRowStatus(c, r) ==
    /\ change[c] = NoChange
    /\ Rewritten(r)
    /\ Owes(c, "invalidateOnly", r, row[r].version + 1)
    /\ UNCHANGED <<cache, fill>>

(* bulkStatusChange leaves the cache alone, and so does its route.           *)
BulkRowStatus(r) ==
    /\ Rewritten(r)
    /\ cache' = Excused(r, "bulk")
    /\ UNCHANGED <<fill, change>>

(* The deletion of an organization; its cleanup is registered with the row.  *)
DeleteRow(c, r) ==
    /\ change[c] = NoChange
    /\ Live(r)
    /\ row' = [row EXCEPT ![r].status = "deleted"]
    /\ Owes(c, "cleanId", r, row[r].version)
    /\ UNCHANGED <<cache, fill>>

Proceeds(c, stage) == change' = [change EXCEPT ![c].stage = stage]
Done(c) == change' = [change EXCEPT ![c] = NoChange]

(* Faulty variant: the entry under the identifier only.                      *)
InvalidateIdOnly(c) ==
    /\ change[c] # NoChange
    /\ cache' = [cache EXCEPT ![change[c].row] = NoEntry]
    /\ \/ change[c].stage = "invalidate" /\ Proceeds(c, "storeSlug")
       \/ change[c].stage = "invalidateOnly" /\ Done(c)
    /\ UNCHANGED <<row, fill>>

(* invalidateOrganizationCache: one DEL of both keys.                        *)
Invalidate(c) ==
    /\ change[c] # NoChange
    /\ cache' = [cache EXCEPT ![change[c].row] = NoEntry, ![Slug] = NoEntry]
    /\ \/ change[c].stage = "invalidate" /\ Proceeds(c, "storeSlug")
       \/ change[c].stage = "invalidateOnly" /\ Done(c)
    /\ UNCHANGED <<row, fill>>

(* cacheOrganization with the row this request wrote: one SET per key.       *)
Recache(c) ==
    /\ change[c] # NoChange
    /\ \/ /\ change[c].stage = "storeSlug"
          /\ cache' = [cache EXCEPT ![Slug] = Stored(change[c].row, change[c].version)]
          /\ Proceeds(c, "storeId")
       \/ /\ change[c].stage = "storeId"
          /\ cache' =
               [cache EXCEPT ![change[c].row] = Stored(change[c].row, change[c].version)]
          /\ Done(c)
    /\ UNCHANGED <<row, fill>>

(* cleanupDeletionRedis: the key with the identifier, then the slug, by a    *)
(* script that deletes it only while it names the deleted row.               *)
CleanUp(c) ==
    /\ change[c] # NoChange
    /\ \/ /\ change[c].stage = "cleanId"
          /\ cache' = [cache EXCEPT ![change[c].row] = NoEntry]
          /\ Proceeds(c, "cleanSlug")
       \/ /\ change[c].stage = "cleanSlug"
          /\ cache' = IF cache[Slug] # NoEntry /\ cache[Slug].row = change[c].row
                      THEN [cache EXCEPT ![Slug] = NoEntry]
                      ELSE cache
          /\ Done(c)
    /\ UNCHANGED <<row, fill>>

Removing == {"invalidate", "invalidateOnly", "cleanId", "cleanSlug"}

(* A failed command is logged and swallowed: an update goes on to store its  *)
(* row, whatever else is left is not done.                                   *)
CommandFails(c) ==
    /\ change[c] # NoChange
    /\ cache' = IF change[c].stage \in Removing THEN Excused(change[c].row, "lost") ELSE cache
    /\ IF change[c].stage = "invalidate" THEN Proceeds(c, "storeSlug") ELSE Done(c)
    /\ UNCHANGED <<row, fill>>

(* The server stops before the rest is done.                                 *)
ChangeStops(c) ==
    /\ change[c] # NoChange
    /\ cache' = IF change[c].stage \in Removing THEN Excused(change[c].row, "lost") ELSE cache
    /\ Done(c)
    /\ UNCHANGED <<row, fill>>

-----------------------------------------------------------------------------
ReadCachesNext ==
    \/ \E f \in Fill :
        \/ \E k \in Key : Miss(f, k)
        \/ LoadRow(f) \/ StoreSlug(f) \/ StoreId(f) \/ FillEnds(f)
    \/ \E k \in Key : EntryExpires(k)
    \/ \E r \in Row : BulkRowStatus(r)
    \/ \E c \in Change :
        \/ \E r \in Row :
            CreateRow(c, r) \/ UpdateRow(c, r) \/ ChangeRowStatus(c, r) \/ DeleteRow(c, r)
        \/ Invalidate(c) \/ Recache(c) \/ CleanUp(c)
        \/ CommandFails(c) \/ ChangeStops(c)

ReadCachesSpec == ReadCachesInit /\ [][ReadCachesNext]_readCachesVars

-----------------------------------------------------------------------------
(* Request c has still to remove the entries of row r under key k: once the  *)
(* identifier of a deleted row is cleaned only the slug is left to clean.    *)
Removes(c, r, k) ==
    /\ change[c] # NoChange
    /\ change[c].row = r
    /\ \/ change[c].stage \in {"invalidate", "invalidateOnly", "cleanId"}
       \/ change[c].stage = "cleanSlug" /\ k = Slug

(* An entry that is not the row as it stands has one of these excuses, or a  *)
(* request that has changed the row has yet to remove it under that key.     *)
StaleOnlyFor(excuses) ==
    \A k \in Key :
        (cache[k] # NoEntry /\ ~Current(cache[k].row, cache[k].version)) =>
            \/ cache[k].excuse \in excuses
            \/ \E c \in Change : Removes(c, cache[k].row, k)

(* An entry that is out of date arrived late, lost its removal, was left by  *)
(* a bulk change, or is about to be removed under that very key, whatever    *)
(* other requests do meanwhile (organizations/service.ts:280-281, :393,      *)
(* lib/deletion-cleanup.ts:197-225, lib/database.ts:58-65).                  *)
StaleOnlyForCause == StaleOnlyFor({"late", "lost", "bulk"})

(* "The cache is invalidated automatically when an organization is updated   *)
(* or its status changes." (docs/concepts/multi-tenancy.md:48): the same,    *)
(* and no change of the status leaves its entries to expire.                 *)
StatusChangesInvalidate == StaleOnlyFor({"late", "lost"})
=============================================================================
