--------------------------- MODULE CliCredentials ---------------------------
(* The credential file of the CLI and the providers that refresh it: the     *)
(* durable mode of createCliAuth (sdk/src/auth/cli-auth.ts) with the CLI's    *)
(* lock and file (cli/src/credential-lock.ts, credential-store.ts).           *)
(*                                                                            *)
(* A snapshot is numbered in the order in which the server issued it, and     *)
(* stands for its access token and its refresh token.  The server rotates a   *)
(* refresh token on use (oidc/configuration.ts:551).                          *)
EXTENDS Naturals

CONSTANTS
    Provider,    \* instances of createCliAuth, in any process
    NoHolder,    \* the owner of a free lock
    NoWrite,     \* no write to repeat
    MaxIssued    \* bound: snapshots the server issues

ASSUME CliCredentialsAssumption ==
    /\ MaxIssued \in Nat
    /\ NoHolder \notin Provider

Snap == 1..MaxIssued
NoFile == 0

VARIABLES
    file,      \* the snapshot in the file
    lock,      \* the provider that holds the kernel lock on the file
    issued,    \* how many snapshots the server has issued
    spent,     \* snapshots whose refresh token the server has rotated
    expired,   \* snapshots whose access token has expired
    auth,      \* the state of each provider
    sent,      \* history: how often a refresh token was sent, counted up to two
    sentBy,    \* history: the tokens a provider has sent in its life
    resent,    \* history: tokens that one provider sent twice
    unsaved,   \* history: sent, and the answer did not reach the file
    putBack,   \* history: sent, and brought back by a repeated write
    displaced  \* history: a write replaced something else than its previous snapshot

credentialsVars ==
    <<file, lock, issued, spent, expired, auth, sent, sentBy, resent,
      unsaved, putBack, displaced>>

RefreshStage == {"idle", "waiting", "locked", "sent", "answered"}

Write == [previous : Snap, refreshed : Snap]

ASSUME NoWriteAssumption == NoWrite \notin Write

CredentialsTypeOK ==
    /\ file \in Snap \cup {NoFile}
    /\ lock \in Provider \cup {NoHolder}
    /\ issued \in 0..MaxIssued
    /\ spent \subseteq 1..issued
    /\ expired \subseteq 1..issued
    /\ auth \in [Provider -> [stage : RefreshStage, latched : BOOLEAN,
                              pending : Write \cup {NoWrite},
                              held : Snap \cup {NoFile}, got : Snap \cup {NoFile}]]
    /\ sent \in [Snap -> 0..2]
    /\ sentBy \in [Provider -> SUBSET (1..issued)]
    /\ resent \subseteq 1..issued
    /\ unsaved \subseteq 1..issued
    /\ putBack \subseteq 1..issued
    /\ displaced \in BOOLEAN

Fresh == [stage |-> "idle", latched |-> FALSE, pending |-> NoWrite,
          held |-> NoFile, got |-> NoFile]

CredentialsInit ==
    /\ file = NoFile
    /\ lock = NoHolder
    /\ issued = 0
    /\ spent = {} /\ expired = {}
    /\ auth = [p \in Provider |-> Fresh]
    /\ sent = [g \in Snap |-> 0]
    /\ sentBy = [p \in Provider |-> {}]
    /\ resent = {} /\ unsaved = {} /\ putBack = {} /\ displaced = FALSE

serverVars == <<issued, spent, expired>>
historyVars == <<sent, sentBy, resent, unsaved, putBack, displaced>>

(* The operation ends, with a result or an error, and frees the lock.        *)
Finished(p, latched, pending) ==
    /\ auth' = [auth EXCEPT ![p] = [Fresh EXCEPT !.latched = latched, !.pending = pending]]
    /\ lock' = IF lock = p THEN NoHolder ELSE lock

-----------------------------------------------------------------------------
(* login and logout.                                                         *)

(* saveCredentialsDurably, under the lock.                                   *)
LogIn ==
    /\ lock = NoHolder
    /\ issued < MaxIssued
    /\ issued' = issued + 1
    /\ file' = issued + 1
    /\ UNCHANGED <<lock, spent, expired, auth, historyVars>>

(* clearCredentials, without the lock.                                       *)
LogOut ==
    /\ file # NoFile
    /\ file' = NoFile
    /\ UNCHANGED <<lock, serverVars, auth, historyVars>>

AccessTokenExpires(g) ==
    /\ g <= issued /\ g \notin expired
    /\ expired' = expired \cup {g}
    /\ UNCHANGED <<file, lock, issued, spent, auth, historyVars>>

-----------------------------------------------------------------------------
(* One refresh of a provider; other callers share it.                        *)

(* refreshOnce, from getToken or refreshToken.                               *)
BeginRefresh(p) ==
    /\ auth[p].stage = "idle"
    /\ ~auth[p].latched
    /\ auth' = [auth EXCEPT ![p].stage = "waiting"]
    /\ UNCHANGED <<file, lock, serverVars, historyVars>>

(* withCredentialLock                                                        *)
TakeLock(p) ==
    /\ auth[p].stage = "waiting"
    /\ lock = NoHolder
    /\ lock' = p
    /\ auth' = [auth EXCEPT ![p].stage = "locked"]
    /\ UNCHANGED <<file, serverVars, historyVars>>

(* CREDENTIAL_LOCK_TIMEOUT, AUTH_CANCELLED                                   *)
LockTimesOut(p) ==
    /\ auth[p].stage = "waiting"
    /\ Finished(p, FALSE, auth[p].pending)
    /\ UNCHANGED <<file, serverVars, historyVars>>

(* persistAtomically, which does not look at what it replaces.               *)
Persisted(write) ==
    /\ file' = write.refreshed
    /\ displaced' = (displaced \/ file # write.previous)

(* It failed: before the rename, or after it.                                *)
PersistFailed(write) ==
    \/ UNCHANGED <<file, displaced>>
    \/ Persisted(write)

(* A write that failed earlier is repeated, and nothing else is done.        *)
RepeatWrite(p) ==
    /\ auth[p].stage = "locked"
    /\ auth[p].pending # NoWrite
    /\ \/ Persisted(auth[p].pending) /\ Finished(p, FALSE, NoWrite)
       \/ PersistFailed(auth[p].pending) /\ Finished(p, FALSE, auth[p].pending)
    /\ putBack' = IF file' # file /\ sent[auth[p].pending.refreshed] > 0
                  THEN putBack \cup {file'} ELSE putBack
    /\ UNCHANGED <<serverVars, sent, sentBy, resent, unsaved>>

(* The file is read again under the lock: no file is an error, and a token   *)
(* that has not expired, another provider's perhaps, is used as it is.       *)
UseFile(p) ==
    /\ auth[p].stage = "locked"
    /\ auth[p].pending = NoWrite
    /\ file \notin expired
    /\ Finished(p, FALSE, NoWrite)
    /\ UNCHANGED <<file, serverVars, historyVars>>

(* dispatchRefresh                                                           *)
Dispatch(p) ==
    /\ auth[p].stage = "locked"
    /\ auth[p].pending = NoWrite
    /\ file \in expired
    /\ auth' = [auth EXCEPT ![p].stage = "sent", ![p].held = file]
    /\ sent' = [sent EXCEPT ![file] = IF @ = 0 THEN 1 ELSE 2]
    /\ sentBy' = [sentBy EXCEPT ![p] = @ \cup {file}]
    /\ resent' = IF file \in sentBy[p] THEN resent \cup {file} ELSE resent
    /\ UNCHANGED <<file, lock, serverVars, unsaved, putBack, displaced>>

(* The server rotates the token and its answer arrives.                      *)
Rotate(p) ==
    /\ auth[p].stage = "sent"
    /\ auth[p].held \notin spent
    /\ issued < MaxIssued
    /\ issued' = issued + 1
    /\ spent' = spent \cup {auth[p].held}
    /\ auth' = [auth EXCEPT ![p].stage = "answered", ![p].got = issued + 1]
    /\ UNCHANGED <<file, lock, expired, historyVars>>

Unsaved(p) == unsaved' = unsaved \cup {auth[p].held}

(* Faulty variant: the provider stays willing to refresh.                    *)
RefreshFailsUnlatched(p) ==
    /\ auth[p].stage = "sent"
    /\ spent' \in {spent, spent \cup {auth[p].held}}
    /\ Unsaved(p)
    /\ Finished(p, FALSE, NoWrite)
    /\ UNCHANGED <<file, issued, expired, sent, sentBy, resent, putBack, displaced>>

(* The server rejects the token, its answer is lost or makes no sense: the   *)
(* provider refuses to refresh from then on.                                 *)
RefreshFails(p) ==
    /\ auth[p].stage = "sent"
    /\ spent' \in {spent, spent \cup {auth[p].held}}
    /\ Unsaved(p)
    /\ Finished(p, TRUE, NoWrite)
    /\ UNCHANGED <<file, issued, expired, sent, sentBy, resent, putBack, displaced>>

Answered(p) == [previous |-> auth[p].held, refreshed |-> auth[p].got]

SaveAnswer(p) ==
    /\ auth[p].stage = "answered"
    /\ Persisted(Answered(p))
    /\ Finished(p, FALSE, NoWrite)
    /\ UNCHANGED <<serverVars, sent, sentBy, resent, unsaved, putBack>>

(* The answer is kept in memory, to be written by the next refresh.          *)
SaveFails(p) ==
    /\ auth[p].stage = "answered"
    /\ PersistFailed(Answered(p))
    /\ Unsaved(p)
    /\ Finished(p, FALSE, Answered(p))
    /\ UNCHANGED <<serverVars, sent, sentBy, resent, putBack>>

(* The process ends, at any point; a new provider knows only the file.       *)
ProviderEnds(p) ==
    /\ auth[p] # Fresh \/ sentBy[p] # {}
    /\ sentBy' = [sentBy EXCEPT ![p] = {}]
    /\ IF auth[p].stage \in {"sent", "answered"} THEN Unsaved(p) ELSE UNCHANGED unsaved
    /\ IF auth[p].stage = "sent"
       THEN spent' \in {spent, spent \cup {auth[p].held}}
       ELSE UNCHANGED spent
    /\ Finished(p, FALSE, NoWrite)
    /\ UNCHANGED <<file, issued, expired, sent, resent, putBack, displaced>>

-----------------------------------------------------------------------------
CredentialsNext ==
    \/ LogIn \/ LogOut
    \/ \E g \in Snap : AccessTokenExpires(g)
    \/ \E p \in Provider :
        \/ BeginRefresh(p) \/ TakeLock(p) \/ LockTimesOut(p)
        \/ RepeatWrite(p) \/ UseFile(p) \/ Dispatch(p) \/ Rotate(p)
        \/ RefreshFails(p) \/ SaveAnswer(p) \/ SaveFails(p) \/ ProviderEnds(p)

CredentialsSpec == CredentialsInit /\ [][CredentialsNext]_credentialsVars

-----------------------------------------------------------------------------
(* A refresh token is sent a second time only if the answer to the first     *)
(* never reached the file, or a repeated write put the token back there:     *)
(* never because two providers found it expired at once.  One provider never *)
(* repeats itself, whatever became of the answer, unless the token came back *)
(* into the file (cli-auth.ts:201-211, :231-323).                            *)
ReplayedForCause ==
    /\ \A g \in Snap : sent[g] > 1 => g \in unsaved \cup putBack
    /\ resent \subseteq putBack

(* A refreshed snapshot replaces the one it was refreshed from, as           *)
(* cli-auth.ts:21 says of the hook that stores it.                           *)
ReplacesPrevious == ~displaced
=============================================================================
