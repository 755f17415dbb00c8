---------------------------- MODULE SessionStore ----------------------------
(***************************************************************************)
(* The OIDC artifacts of one account, kept in two stores that share no     *)
(* transaction: Session payloads and authorization codes in Redis          *)
(* (oidc/redis-adapter.ts), Grant rows, refresh tokens and the tracking    *)
(* rows of sessions in PostgreSQL (oidc/postgres-adapter.ts,               *)
(* lib/session-tracking.ts).  Every adapter call is one step, so a lookup  *)
(* is a read of the payload and, later, a check of its authority           *)
(* (oidc/adapter-factory.ts).                                              *)
(*                                                                         *)
(* The provider library drives the adapters: a visit of the authorization  *)
(* endpoint finds a session, resolves a grant, issues a code and saves the *)
(* session; an exchange finds a code or a refresh token, consumes it and   *)
(* issues a token.  The artifacts are those with offline access, which are *)
(* meant to outlive their session.                                         *)
(***************************************************************************)
EXTENDS Naturals, FiniteSets

CONSTANTS
    Session,            \* session identifiers
    Grant,              \* grant identifiers
    Client,             \* the account's clients
    ClientOf,           \* the client each grant is for
    Art,                \* identifiers of codes and refresh tokens
    Visit,              \* concurrent visits of the authorization endpoint
    Exchange,           \* concurrent token requests
    Logout,             \* concurrent destructions of a session
    Absent,             \* no payload, no grant, no parent
    MaxRevocations      \* bound on the reductions of the account's authority

ASSUME StoreAssumption ==
    /\ ClientOf \in [Grant -> Client]
    /\ MaxRevocations \in Nat
    /\ Absent \notin Grant \cup Art \cup Session

VARIABLES
    grants,         \* the Grant rows
    minted,         \* grants that have ever been saved
    payload,        \* the authorizations in each session's Redis payload
    tracking,       \* the row of each session in admin_sessions
    artifact,       \* the codes and tokens
    indexed,        \* members of the Redis grant sets
    visit,          \* visits of the authorization endpoint
    exchange,       \* token requests
    logout,         \* destructions under way
    sweep,          \* the detached Redis pass after a reduction
    revocations,    \* reductions so far
    dead,           \* sessions whose row has been revoked
    revoked,        \* grants whose row a reduction removed
    restored,       \* of those, the ones a concurrent visit saved again
    closed          \* grants of sessions destroyed with no step failing

grantVars == <<grants, minted>>
sessionVars == <<payload, tracking, dead>>
artifactVars == <<artifact, indexed>>
reductionVars == <<sweep, revocations, revoked>>
vars == <<grantVars, sessionVars, artifactVars, visit, exchange, logout, reductionVars, restored, closed>>

-----------------------------------------------------------------------------
(* What the stores hold.                                                   *)

(* No Redis key. *)
NoPayload == {Absent}

Unborn == [model |-> "none", standing |-> "unborn", grant |-> Absent, parent |-> Absent]

NewCode(g) == [model |-> "code", standing |-> "live", grant |-> g, parent |-> Absent]

NewToken(a) ==
    [model |-> "token", standing |-> "live", grant |-> artifact[a].grant, parent |-> a]

Fresh(a) == artifact[a].standing = "unborn"

(* The keys or rows that are gone, for good or because they expired. *)
Without(as) == [a \in Art |-> IF a \in as THEN [artifact[a] EXCEPT !.standing = "gone"] ELSE artifact[a]]

Of(gs) == {a \in Art : artifact[a].grant \in gs}

Codes == {a \in Art : artifact[a].model = "code"}

Tokens == {a \in Art : artifact[a].model = "token"}

(* Of the references of an artifact, the grants can be revoked here: the   *)
(* account and its clients stay active.                                    *)
HasLiveAuthority(gs) == gs \subseteq grants

Redeemable(a) == artifact[a].standing = "live" /\ HasLiveAuthority({artifact[a].grant})

SessionIsLive(s) == payload[s] # NoPayload /\ tracking[s] = "live" /\ HasLiveAuthority(payload[s])

(* A session holds one grant per client. *)
WithAuthorization(gs, g) == {h \in gs : ClientOf[h] # ClientOf[g]} \cup {g}

-----------------------------------------------------------------------------
(* A visit of the authorization endpoint.                                  *)

VisitStage == {"idle", "tracking", "authority", "resolving", "upgrading", "issuing", "saving", "publishing"}

Visiting(stage, s, gs) == [stage |-> stage, session |-> s, auths |-> gs, grant |-> Absent]

NoVisit == Visiting("idle", Absent, {})

VisitGoes(v, stage) == visit' = [visit EXCEPT ![v].stage = stage]

EndVisit(v) == visit' = [visit EXCEPT ![v] = NoVisit]

(* Everything a visit leaves alone while it only reads. *)
StoresUnchanged == UNCHANGED <<grantVars, sessionVars, artifactVars, reductionVars, restored, closed>>

(* A browser without a session signs in. *)
StartSession(v, s) ==
    /\ visit[v].stage = "idle"
    /\ tracking[s] = "none" /\ payload[s] = NoPayload
    /\ \A w \in Visit : visit[w].session # s
    /\ visit' = [visit EXCEPT ![v] = Visiting("resolving", s, {})]
    /\ StoresUnchanged
    /\ UNCHANGED <<exchange, logout>>

ReadSession(v, s) ==
    /\ visit[v].stage = "idle"
    /\ payload[s] # NoPayload
    /\ visit' = [visit EXCEPT ![v] = Visiting("tracking", s, payload[s])]
    /\ StoresUnchanged
    /\ UNCHANGED <<exchange, logout>>

CheckTracking(v) ==
    /\ visit[v].stage = "tracking"
    /\ IF tracking[visit[v].session] = "live" THEN VisitGoes(v, "authority") ELSE EndVisit(v)
    /\ StoresUnchanged
    /\ UNCHANGED <<exchange, logout>>

CheckAuthority(v) ==
    /\ visit[v].stage = "authority"
    /\ IF HasLiveAuthority(visit[v].auths) THEN VisitGoes(v, "resolving") ELSE EndVisit(v)
    /\ StoresUnchanged
    /\ UNCHANGED <<exchange, logout>>

(* Consent creates a grant, under a new identifier. *)
SaveGrant(v, g) ==
    /\ visit[v].stage = "resolving"
    /\ g \notin minted
    /\ grants' = grants \cup {g}
    /\ minted' = minted \cup {g}
    /\ visit' = [visit EXCEPT ![v].stage = "issuing", ![v].grant = g]
    /\ UNCHANGED <<sessionVars, artifactVars, reductionVars, restored, closed, exchange, logout>>

(* The session's grant is found again; it is upgraded when the request     *)
(* asks for offline access that it lacks.                                  *)
LoadGrant(v, g) ==
    /\ visit[v].stage = "resolving"
    /\ g \in visit[v].auths \cap grants
    /\ \E stage \in {"issuing", "upgrading"} :
           visit' = [visit EXCEPT ![v].stage = stage, ![v].grant = g]
    /\ StoresUnchanged
    /\ UNCHANGED <<exchange, logout>>

(* grant.save() is an upsert: it inserts a row that is gone by now. *)
SaveUpgrade(v) ==
    /\ visit[v].stage = "upgrading"
    /\ grants' = grants \cup {visit[v].grant}
    /\ restored' = restored \cup ({visit[v].grant} \ grants)
    /\ VisitGoes(v, "issuing")
    /\ UNCHANGED <<minted, sessionVars, artifactVars, reductionVars, closed, exchange, logout>>

(* The code and its entry in the grant set are written in one pipeline. *)
SaveCode(v, a) ==
    /\ visit[v].stage = "issuing"
    /\ Fresh(a)
    /\ artifact' = [artifact EXCEPT ![a] = NewCode(visit[v].grant)]
    /\ indexed' = indexed \cup {a}
    /\ visit' = [visit EXCEPT ![v].stage = "saving",
                              ![v].auths = WithAuthorization(@, visit[v].grant)]
    /\ UNCHANGED <<grantVars, sessionVars, reductionVars, restored, closed, exchange, logout>>

(* Faulty variant: the refresh clears the revocation. *)
RevivedRow(s) == "live"

(* The row of a tracked session is refreshed, and stays revoked if it was. *)
TrackedRow(s) == IF tracking[s] = "revoked" THEN "revoked" ELSE "live"

(* Faulty variant: the payload is published, and the session never tracked. *)
SkipTracking(v) ==
    /\ visit[v].stage = "saving"
    /\ VisitGoes(v, "publishing")
    /\ StoresUnchanged
    /\ UNCHANGED <<exchange, logout>>

TrackSession(v) ==
    /\ visit[v].stage = "saving"
    /\ tracking' = [tracking EXCEPT ![visit[v].session] = TrackedRow(visit[v].session)]
    /\ VisitGoes(v, "publishing")
    /\ UNCHANGED <<grantVars, payload, dead, artifactVars, reductionVars, restored, closed, exchange, logout>>

PublishSession(v) ==
    /\ visit[v].stage = "publishing"
    /\ payload' = [payload EXCEPT ![visit[v].session] = visit[v].auths]
    /\ EndVisit(v)
    /\ UNCHANGED <<grantVars, tracking, dead, artifactVars, reductionVars, restored, closed, exchange, logout>>

(* The request fails, or its process dies, between two calls. *)
LoseVisit(v) ==
    /\ visit[v].stage # "idle"
    /\ EndVisit(v)
    /\ StoresUnchanged
    /\ UNCHANGED <<exchange, logout>>

-----------------------------------------------------------------------------
(* A token request: a code or a refresh token is used once.                *)

ExchangeStage == {"idle", "checking", "consuming", "saving"}

NoExchange == [stage |-> "idle", art |-> Absent]

ExchangeGoes(x, stage) == exchange' = [exchange EXCEPT ![x].stage = stage]

EndExchange(x) == exchange' = [exchange EXCEPT ![x] = NoExchange]

ReadArtifact(x, a) ==
    /\ exchange[x].stage = "idle"
    /\ artifact[a].standing = "live"
    /\ exchange' = [exchange EXCEPT ![x] = [stage |-> "checking", art |-> a]]
    /\ StoresUnchanged
    /\ UNCHANGED <<visit, logout>>

CheckArtifact(x) ==
    /\ exchange[x].stage = "checking"
    /\ IF HasLiveAuthority({artifact[exchange[x].art].grant})
       THEN ExchangeGoes(x, "consuming") ELSE EndExchange(x)
    /\ StoresUnchanged
    /\ UNCHANGED <<visit, logout>>

(* Faulty variant: the write does not look whether the artifact is used. *)
Present(a) == artifact[a].standing # "gone"

(* The Lua script and the conditional UPDATE: a missing or consumed        *)
(* artifact is an invalid grant.                                           *)
Consumable(a) == artifact[a].standing = "live"

Consume(x) ==
    /\ exchange[x].stage = "consuming"
    /\ LET a == exchange[x].art IN
       \/ /\ Consumable(a)
          /\ artifact' = [artifact EXCEPT ![a].standing = "consumed"]
          /\ ExchangeGoes(x, "saving")
       \/ /\ ~Consumable(a)
          /\ EndExchange(x)
          /\ UNCHANGED artifact
    /\ UNCHANGED <<grantVars, sessionVars, indexed, reductionVars, restored, closed, visit, logout>>

(* Faulty variant: tokens join the Redis grant sets too. *)
SaveIndexedToken(x, b) ==
    /\ exchange[x].stage = "saving"
    /\ Fresh(b)
    /\ artifact' = [artifact EXCEPT ![b] = NewToken(exchange[x].art)]
    /\ indexed' = indexed \cup {b}
    /\ EndExchange(x)
    /\ UNCHANGED <<grantVars, sessionVars, reductionVars, restored, closed, visit, logout>>

SaveToken(x, b) ==
    /\ exchange[x].stage = "saving"
    /\ Fresh(b)
    /\ artifact' = [artifact EXCEPT ![b] = NewToken(exchange[x].art)]
    /\ EndExchange(x)
    /\ UNCHANGED <<grantVars, sessionVars, indexed, reductionVars, restored, closed, visit, logout>>

LoseExchange(x) ==
    /\ exchange[x].stage # "idle"
    /\ EndExchange(x)
    /\ StoresUnchanged
    /\ UNCHANGED <<visit, logout>>

-----------------------------------------------------------------------------
(* HybridAdapter.destroy of a session: cascade first, then the session.    *)

LogoutStage == {"idle", "tracking", "cascade", "collecting", "clearing", "revoking", "removing"}

Destroying(stage, s, gs) == [stage |-> stage, session |-> s, auths |-> gs, members |-> {}]

NoLogout == Destroying("idle", Absent, {})

LogoutGoes(o, stage) == logout' = [logout EXCEPT ![o].stage = stage]

(* Without its authorizations, the rest of a destruction is no cascade. *)
WithoutCascade(o) == logout' = [logout EXCEPT ![o].stage = "revoking", ![o].auths = {}, ![o].members = {}]

ReadForDestroy(o, s) ==
    /\ logout[o].stage = "idle"
    /\ tracking[s] # "none"
    /\ logout' = [logout EXCEPT ![o] =
           IF payload[s] = NoPayload
           THEN Destroying("revoking", s, {}) ELSE Destroying("tracking", s, payload[s])]
    /\ StoresUnchanged
    /\ UNCHANGED <<visit, exchange>>

CheckDestroyTracking(o) ==
    /\ logout[o].stage = "tracking"
    /\ IF tracking[logout[o].session] = "live" THEN LogoutGoes(o, "cascade") ELSE WithoutCascade(o)
    /\ StoresUnchanged
    /\ UNCHANGED <<visit, exchange>>

(* DELETE WHERE grant_id: the rows issued under the grants.  A Grant row   *)
(* has no grant_id of its own.                                             *)
RowsOfGrants(gs) == Of(gs) \cap Tokens

RevokeGrants(o) ==
    /\ logout[o].stage = "cascade"
    /\ artifact' = Without(RowsOfGrants(logout[o].auths))
    /\ LogoutGoes(o, "collecting")
    /\ UNCHANGED <<grantVars, sessionVars, indexed, reductionVars, restored, closed, visit, exchange>>

(* A failure of the cascade is logged, and the destruction goes on. *)
CascadeFails(o) ==
    /\ logout[o].stage \in {"tracking", "cascade", "collecting", "clearing"}
    /\ WithoutCascade(o)
    /\ StoresUnchanged
    /\ UNCHANGED <<visit, exchange>>

CollectMembers(o) ==
    /\ logout[o].stage = "collecting"
    /\ logout' = [logout EXCEPT ![o].stage = "clearing", ![o].members = indexed \cap Of(logout[o].auths)]
    /\ StoresUnchanged
    /\ UNCHANGED <<visit, exchange>>

(* One DEL of the sets and of the members read before. *)
ClearMembers(o) ==
    /\ logout[o].stage = "clearing"
    /\ artifact' = Without(logout[o].members)
    /\ indexed' = indexed \ Of(logout[o].auths)
    /\ LogoutGoes(o, "revoking")
    /\ UNCHANGED <<grantVars, sessionVars, reductionVars, restored, closed, visit, exchange>>

RevokeRow(s) == IF tracking[s] = "none" THEN "none" ELSE "revoked"

RevokeSession(o) ==
    /\ logout[o].stage = "revoking"
    /\ tracking' = [tracking EXCEPT ![logout[o].session] = RevokeRow(logout[o].session)]
    /\ dead' = dead \cup {logout[o].session}
    /\ LogoutGoes(o, "removing")
    /\ UNCHANGED <<grantVars, payload, artifactVars, reductionVars, restored, closed, visit, exchange>>

RemovePayload(o) ==
    /\ logout[o].stage = "removing"
    /\ payload' = [payload EXCEPT ![logout[o].session] = NoPayload]
    /\ closed' = closed \cup logout[o].auths
    /\ logout' = [logout EXCEPT ![o] = NoLogout]
    /\ UNCHANGED <<grantVars, tracking, dead, artifactVars, reductionVars, restored, visit, exchange>>

LoseLogout(o) ==
    /\ logout[o].stage # "idle"
    /\ logout' = [logout EXCEPT ![o] = NoLogout]
    /\ StoresUnchanged
    /\ UNCHANGED <<visit, exchange>>

-----------------------------------------------------------------------------
(* Administration, and time.                                               *)

(* DELETE /api/admin/sessions/:id marks an active row.  Its Redis delete   *)
(* after the commit may fail, and is DropPayload when it does not.         *)
RevokeSessionByPublicId(s) ==
    /\ tracking[s] = "live"
    /\ tracking' = [tracking EXCEPT ![s] = "revoked"]
    /\ dead' = dead \cup {s}
    /\ UNCHANGED <<grantVars, payload, artifactVars, reductionVars, restored, closed, visit, exchange, logout>>

(* The administrative delete, the delete of a sweep, or the key's expiry. *)
DropPayload(s) ==
    /\ payload[s] # NoPayload
    /\ payload' = [payload EXCEPT ![s] = NoPayload]
    /\ UNCHANGED <<grantVars, tracking, dead, artifactVars, reductionVars, restored, closed, visit, exchange, logout>>

NoSweep == [stage |-> "idle", grants |-> {}]

(* Faulty variant: rows are deleted by grant_id only, as by a logout. *)
RemovedByGrantId == {}

(* The rows a reduction deletes: by id, by grant_id and by accountId. *)
RemovedGrants == grants

(* The account loses a role: its live sessions are revoked and its rows    *)
(* deleted in one transaction, and a Redis pass is left for afterwards.    *)
RevokeAuthority ==
    /\ revocations < MaxRevocations
    /\ sweep = NoSweep
    /\ revocations' = revocations + 1
    /\ grants' = grants \ RemovedGrants
    /\ revoked' = revoked \cup grants
    /\ artifact' = Without(Tokens)
    /\ tracking' = [s \in Session |-> RevokeRow(s)]
    /\ dead' = dead \cup {s \in Session : tracking[s] = "live"}
    /\ sweep' = [stage |-> "indexes", grants |-> grants]
    /\ UNCHANGED <<minted, payload, indexed, restored, closed, visit, exchange, logout>>

SweepIndexes ==
    /\ sweep.stage = "indexes"
    /\ indexed' = indexed \ Of(sweep.grants)
    /\ sweep' = [sweep EXCEPT !.stage = "payloads"]
    /\ UNCHANGED <<grantVars, sessionVars, artifact, revocations, revoked, restored, closed, visit, exchange, logout>>

(* The scan deletes what it meets of the account, in any order; a session  *)
(* payload it deletes is DropPayload.                                      *)
SweepCode(a) ==
    /\ sweep.stage = "payloads"
    /\ a \in Codes /\ artifact[a].standing # "gone"
    /\ artifact' = Without({a})
    /\ UNCHANGED <<grantVars, sessionVars, indexed, reductionVars, restored, closed, visit, exchange, logout>>

(* The pass is over, failed, or died with its process. *)
EndSweep ==
    /\ sweep # NoSweep
    /\ sweep' = NoSweep
    /\ UNCHANGED <<grantVars, sessionVars, artifactVars, revocations, revoked, restored, closed, visit, exchange, logout>>

-----------------------------------------------------------------------------

Init ==
    /\ grants = {} /\ minted = {}
    /\ payload = [s \in Session |-> NoPayload]
    /\ tracking = [s \in Session |-> "none"]
    /\ dead = {}
    /\ artifact = [a \in Art |-> Unborn]
    /\ indexed = {}
    /\ visit = [v \in Visit |-> NoVisit]
    /\ exchange = [x \in Exchange |-> NoExchange]
    /\ logout = [o \in Logout |-> NoLogout]
    /\ sweep = NoSweep /\ revocations = 0 /\ revoked = {}
    /\ restored = {} /\ closed = {}

VisitNext(v) ==
    \/ \E s \in Session : StartSession(v, s) \/ ReadSession(v, s)
    \/ CheckTracking(v) \/ CheckAuthority(v)
    \/ \E g \in Grant : SaveGrant(v, g) \/ LoadGrant(v, g)
    \/ SaveUpgrade(v)
    \/ \E a \in Art : SaveCode(v, a)
    \/ TrackSession(v) \/ PublishSession(v) \/ LoseVisit(v)

ExchangeNext(x) ==
    \/ \E a \in Art : ReadArtifact(x, a) \/ SaveToken(x, a)
    \/ CheckArtifact(x) \/ Consume(x) \/ LoseExchange(x)

LogoutNext(o) ==
    \/ \E s \in Session : ReadForDestroy(o, s)
    \/ CheckDestroyTracking(o)
    \/ RevokeGrants(o) \/ CascadeFails(o) \/ CollectMembers(o) \/ ClearMembers(o)
    \/ RevokeSession(o) \/ RemovePayload(o) \/ LoseLogout(o)

StoreNext ==
    \/ \E s \in Session : RevokeSessionByPublicId(s) \/ DropPayload(s)
    \/ RevokeAuthority
    \/ SweepIndexes \/ EndSweep
    \/ \E a \in Art : SweepCode(a)

Next ==
    \/ \E v \in Visit : VisitNext(v)
    \/ \E x \in Exchange : ExchangeNext(x)
    \/ \E o \in Logout : LogoutNext(o)
    \/ StoreNext

Spec == Init /\ [][Next]_vars

-----------------------------------------------------------------------------
(* Properties.                                                             *)

Artifact == [model : {"none", "code", "token"}, standing : {"unborn", "live", "consumed", "gone"},
             grant : Grant \cup {Absent}, parent : Art \cup {Absent}]

GrantsTyped ==
    /\ grants \subseteq minted /\ minted \subseteq Grant
    /\ revoked \subseteq minted /\ restored \subseteq minted /\ closed \subseteq minted

SessionsTyped ==
    /\ payload \in [Session -> SUBSET (minted \cup {Absent})]
    /\ tracking \in [Session -> {"none", "live", "revoked"}]
    /\ dead \subseteq Session

ArtifactsTyped == artifact \in [Art -> Artifact] /\ indexed \subseteq Codes

VisitsTyped ==
    visit \in [Visit -> [stage : VisitStage, session : Session \cup {Absent},
                        auths : SUBSET minted, grant : minted \cup {Absent}]]

ExchangesTyped == exchange \in [Exchange -> [stage : ExchangeStage, art : Art \cup {Absent}]]

LogoutsTyped ==
    logout \in [Logout -> [stage : LogoutStage, session : Session \cup {Absent},
                          auths : SUBSET minted, members : SUBSET Codes]]

ReductionTyped ==
    /\ sweep \in [stage : {"idle", "indexes", "payloads"}, grants : SUBSET minted]
    /\ revocations \in 0 .. MaxRevocations

(* The stores and the requests in flight keep their types, the Redis grant *)
(* sets hold codes only, and every grant in use was saved once.            *)
TypeOK ==
    /\ GrantsTyped /\ SessionsTyped /\ ArtifactsTyped
    /\ VisitsTyped /\ ExchangesTyped /\ LogoutsTyped /\ ReductionTyped

(* No session payload is ever in Redis that has no tracking row, whatever  *)
(* fails between the two writes: an administrator could not revoke it.     *)
TrackedBeforePublished == \A s \in Session : payload[s] # NoPayload => tracking[s] # "none"

(* A session that was destroyed, revoked by an administrator or by a loss  *)
(* of authority is never found again, although a visit that read it before *)
(* saves and publishes it afterwards.                                      *)
DeadSessionsStayDead == \A s \in dead : ~SessionIsLive(s)

(* After a loss of authority no artifact of a grant that existed then can  *)
(* be redeemed, whichever requests were in flight and however much of the  *)
(* Redis pass was done, unless a visit re-saved the grant while upgrading. *)
RevokedGrantsAreDead ==
    \A a \in Art : artifact[a].grant \in revoked \ restored => ~Redeemable(a)

(* Of the requests that found one code or refresh token, at most one goes  *)
(* on to issue a token for it, now or earlier.                             *)
RedeemedOnce ==
    \A a \in Art : Cardinality({x \in Exchange : exchange[x] = [stage |-> "saving", art |-> a]}
                                \cup {b \in Tokens : artifact[b].parent = a}) <= 1

(* After a logout none of whose steps failed no token or code of the       *)
(* session remains usable.                                                 *)
LogoutIsTotal == \A a \in Art : artifact[a].grant \in closed => ~Redeemable(a)
=============================================================================
