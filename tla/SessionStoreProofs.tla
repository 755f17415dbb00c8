------------------------- MODULE SessionStoreProofs -------------------------
(***************************************************************************)
(* Proofs about SessionStore, for every set of sessions, grants, clients   *)
(* and artifacts, every number of requests in flight, and every number of  *)
(* losses of authority.                                                    *)
(***************************************************************************)
EXTENDS SessionStore, FiniteSetTheorems, TLAPS

(* The session has a payload in Redis. *)
Published(s) == payload[s] # NoPayload

(* A grant removed by a reduction has no row unless it was saved again. *)
GrantInv ==
    /\ GrantsTyped
    /\ (revoked \ restored) \cap grants = {}

SessionInv ==
    /\ SessionsTyped
    /\ \A s \in Session : Published(s) => payload[s] \subseteq minted /\ tracking[s] # "none"
    /\ \A s \in dead : tracking[s] = "revoked"

ArtifactInv ==
    /\ ArtifactsTyped
    /\ \A a \in Art : artifact[a].model = "none" <=> artifact[a].standing = "unborn"

(* What a visit has in hand: a session, then a grant, then a tracked row. *)
VisitInv ==
    /\ VisitsTyped
    /\ \A v \in Visit :
           /\ visit[v].stage # "idle" => visit[v].session \in Session
           /\ visit[v].stage \in {"upgrading", "issuing"} => visit[v].grant \in minted
           /\ visit[v].stage = "publishing" => tracking[visit[v].session] # "none"

ExchangeInv ==
    /\ ExchangesTyped
    /\ \A x \in Exchange : exchange[x].stage # "idle" => exchange[x].art \in Art

(* Only a session that was tracked is ever destroyed. *)
LogoutInv ==
    /\ LogoutsTyped
    /\ \A o \in Logout : logout[o].stage # "idle" =>
           /\ logout[o].session \in Session
           /\ tracking[logout[o].session] # "none"

StoreInv ==
    /\ GrantInv /\ SessionInv /\ ArtifactInv
    /\ VisitInv /\ ExchangeInv /\ LogoutInv /\ ReductionTyped

-----------------------------------------------------------------------------
(* What one part of the state owes to the others when it does not change.  *)

(* The stores grow monotonically in what the requests rely on. *)
Onward ==
    /\ minted \subseteq minted'
    /\ Codes \subseteq Codes'
    /\ \A s \in Session : tracking[s] # "none" => tracking'[s] # "none"

LEMMA StillOnward ==
    ASSUME minted' = minted \/ minted \subseteq minted',
           artifact' = artifact \/ Codes \subseteq Codes',
           tracking' = tracking
    PROVE  Onward
  BY DEF Onward, Codes

LEMMA VisitFrame ==
    ASSUME VisitInv, Onward, UNCHANGED visit
    PROVE  VisitInv'
  BY DEF VisitInv, VisitsTyped, Onward

LEMMA ExchangeFrame ==
    ASSUME ExchangeInv, UNCHANGED exchange
    PROVE  ExchangeInv'
  BY DEF ExchangeInv, ExchangesTyped

LEMMA LogoutFrame ==
    ASSUME LogoutInv, Onward, UNCHANGED logout
    PROVE  LogoutInv'
  BY DEF LogoutInv, LogoutsTyped, Onward

LEMMA ReductionFrame ==
    ASSUME ReductionTyped, Onward, UNCHANGED <<sweep, revocations>>
    PROVE  ReductionTyped'
  BY DEF ReductionTyped, Onward

LEMMA SessionFrame ==
    ASSUME SessionInv, Onward, UNCHANGED <<payload, tracking, dead>>
    PROVE  SessionInv'
  BY DEF SessionInv, SessionsTyped, Published, NoPayload, Onward

LEMMA ArtifactFrame ==
    ASSUME ArtifactInv, UNCHANGED <<artifact, indexed>>
    PROVE  ArtifactInv'
  BY DEF ArtifactInv, ArtifactsTyped, Codes

LEMMA GrantFrame ==
    ASSUME GrantInv, UNCHANGED <<grants, minted, revoked, restored, closed>>
    PROVE  GrantInv'
  BY DEF GrantInv, GrantsTyped

(* The four parts that are stores. *)
LEMMA StoresFrame ==
    ASSUME StoreInv, StoresUnchanged
    PROVE  Onward /\ GrantInv' /\ SessionInv' /\ ArtifactInv' /\ ReductionTyped'
<1>1. Onward
  BY DEF StoresUnchanged, grantVars, sessionVars, artifactVars, Onward, Codes
<1>2. GrantInv'
  BY GrantFrame DEF StoreInv, StoresUnchanged, grantVars, reductionVars
<1>3. SessionInv'
  BY <1>1, SessionFrame DEF StoreInv, StoresUnchanged, sessionVars
<1>4. ArtifactInv'
  BY ArtifactFrame DEF StoreInv, StoresUnchanged, artifactVars
<1>5. ReductionTyped'
  BY <1>1, ReductionFrame DEF StoreInv, StoresUnchanged, reductionVars
<1>6. QED
  BY <1>1, <1>2, <1>3, <1>4, <1>5

-----------------------------------------------------------------------------
(* Changes of one request's record.                                        *)

LEMMA VisitMoves ==
    ASSUME VisitInv, Onward, NEW v \in Visit,
           NEW r \in [stage : VisitStage, session : Session \cup {Absent},
                      auths : SUBSET minted', grant : minted' \cup {Absent}],
           r.stage # "idle" => r.session \in Session,
           r.stage \in {"upgrading", "issuing"} => r.grant \in minted',
           r.stage = "publishing" => tracking'[r.session] # "none",
           visit' = [visit EXCEPT ![v] = r]
    PROVE  VisitInv'
  BY DEF VisitInv, VisitsTyped, Onward

LEMMA VisitEnds ==
    ASSUME VisitInv, Onward, NEW v \in Visit, EndVisit(v)
    PROVE  VisitInv'
  BY DEF VisitInv, VisitsTyped, Onward, EndVisit, NoVisit, Visiting, VisitStage

LEMMA VisitStages ==
    ASSUME VisitInv, Onward, NEW v \in Visit, NEW st \in VisitStage, VisitGoes(v, st),
           visit[v].stage # "idle",
           st \in {"upgrading", "issuing"} => visit[v].grant \in minted',
           st = "publishing" => tracking'[visit[v].session] # "none"
    PROVE  VisitInv'
  BY DEF VisitInv, VisitsTyped, Onward, VisitGoes

LEMMA ExchangeEnds ==
    ASSUME ExchangeInv, NEW x \in Exchange, EndExchange(x)
    PROVE  ExchangeInv'
  BY DEF ExchangeInv, ExchangesTyped, EndExchange, NoExchange, ExchangeStage

LEMMA ExchangeStages ==
    ASSUME ExchangeInv, NEW x \in Exchange, NEW st \in ExchangeStage, ExchangeGoes(x, st),
           exchange[x].stage # "idle"
    PROVE  ExchangeInv'
  BY DEF ExchangeInv, ExchangesTyped, ExchangeGoes

LEMMA LogoutMoves ==
    ASSUME LogoutInv, Onward, NEW o \in Logout,
           NEW r \in [stage : LogoutStage, session : Session \cup {Absent},
                      auths : SUBSET minted', members : SUBSET Codes'],
           r.stage # "idle" => r.session \in Session /\ tracking'[r.session] # "none",
           logout' = [logout EXCEPT ![o] = r]
    PROVE  LogoutInv'
  BY DEF LogoutInv, LogoutsTyped, Onward

LEMMA LogoutEnds ==
    ASSUME LogoutInv, Onward, NEW o \in Logout, logout' = [logout EXCEPT ![o] = NoLogout]
    PROVE  LogoutInv'
  BY DEF LogoutInv, LogoutsTyped, Onward, NoLogout, Destroying, LogoutStage

LEMMA LogoutStages ==
    ASSUME LogoutInv, Onward, NEW o \in Logout, NEW st \in LogoutStage, LogoutGoes(o, st),
           logout[o].stage # "idle"
    PROVE  LogoutInv'
  BY DEF LogoutInv, LogoutsTyped, Onward, LogoutGoes

LEMMA CascadeDropped ==
    ASSUME LogoutInv, Onward, NEW o \in Logout, WithoutCascade(o), logout[o].stage # "idle"
    PROVE  LogoutInv'
  BY ZenonT(60) DEF LogoutInv, LogoutsTyped, Onward, WithoutCascade, LogoutStage

(* Rows and keys that go leave every model as it was. *)
LEMMA RemovalKeepsModels ==
    ASSUME ArtifactInv, NEW as \in SUBSET (Codes \cup Tokens),
           artifact' = Without(as), indexed' \subseteq indexed
    PROVE  ArtifactInv' /\ Codes' = Codes
<1>0. \A a \in Art : artifact[a] \in Artifact
  BY DEF ArtifactInv, ArtifactsTyped
<1>1. \A a \in Art : /\ artifact'[a] \in Artifact
                     /\ artifact'[a].model = artifact[a].model
                     /\ artifact'[a] = artifact[a] \/ artifact'[a].standing = "gone"
  BY <1>0 DEF Without, Artifact
<1>2. artifact' \in [Art -> Artifact]
  BY <1>1 DEF Without
<1>3. Codes' = Codes
  BY <1>1 DEF Codes
<1>4. \A a \in as : artifact[a].model # "none"
  BY DEF Codes, Tokens
<1>5. \A a \in Art : artifact'[a].standing = "unborn" <=> artifact[a].standing = "unborn"
  BY <1>0, <1>4 DEF ArtifactInv, Without, Artifact
<1>6. QED
  BY ZenonT(60), <1>1, <1>2, <1>3, <1>5 DEF ArtifactInv, ArtifactsTyped

-----------------------------------------------------------------------------
(* The steps of a visit.                                                   *)

(* What a step needs of the record it changes. *)
LEMMA VisitRecord ==
    ASSUME VisitInv, NEW v \in Visit
    PROVE  /\ visit[v].stage \in VisitStage
           /\ visit[v].session \in Session \cup {Absent}
           /\ visit[v].auths \subseteq minted
           /\ visit[v].grant \in minted \cup {Absent}
           /\ visit[v].stage # "idle" => visit[v].session \in Session
           /\ visit[v].stage \in {"upgrading", "issuing"} => visit[v].grant \in minted
           /\ visit[v].stage = "publishing" => tracking[visit[v].session] # "none"
  BY DEF VisitInv, VisitsTyped

LEMMA VisitReads ==
    ASSUME StoreInv, NEW v \in Visit, StoresUnchanged, UNCHANGED <<exchange, logout>>,
           VisitInv'
    PROVE  StoreInv'
  BY StoresFrame, ExchangeFrame, LogoutFrame DEF StoreInv

LEMMA FindSession ==
    ASSUME StoreInv, NEW v \in Visit, NEW s \in Session, StartSession(v, s) \/ ReadSession(v, s)
    PROVE  StoreInv'
<1>1. StoresUnchanged /\ UNCHANGED <<exchange, logout>>
  BY DEF StartSession, ReadSession
<1>2. Onward /\ minted' = minted
  BY <1>1, StoresFrame DEF StoresUnchanged, grantVars
<1> DEFINE new == [stage |-> "resolving", session |-> s, auths |-> {}, grant |-> Absent]
           found == [stage |-> "tracking", session |-> s, auths |-> payload[s], grant |-> Absent]
           Records == [stage : VisitStage, session : Session \cup {Absent},
                       auths : SUBSET minted', grant : minted' \cup {Absent}]
<1>3. CASE StartSession(v, s)
  <2>1. visit' = [visit EXCEPT ![v] = new]
    BY <1>3 DEF StartSession, Visiting
  <2>2. new \in Records
    BY <1>2 DEF VisitStage
  <2>3. QED
    BY <1>1, <1>2, <2>1, <2>2, VisitMoves, VisitReads DEF StoreInv
<1>4. CASE ReadSession(v, s)
  <2>1. visit' = [visit EXCEPT ![v] = found]
    BY <1>4 DEF ReadSession, Visiting
  <2>2. payload[s] \subseteq minted
    BY <1>4 DEF ReadSession, StoreInv, SessionInv, Published
  <2>3. found \in Records
    BY <1>2, <2>2 DEF VisitStage
  <2>4. QED
    BY <1>1, <1>2, <2>1, <2>3, VisitMoves, VisitReads DEF StoreInv
<1>5. QED
  BY <1>3, <1>4

LEMMA CheckSession ==
    ASSUME StoreInv, NEW v \in Visit, CheckTracking(v) \/ CheckAuthority(v)
    PROVE  StoreInv'
<1>1. StoresUnchanged /\ UNCHANGED <<exchange, logout>>
  BY DEF CheckTracking, CheckAuthority
<1>2. Onward
  BY <1>1, StoresFrame
<1>3. visit[v].stage # "idle" /\ (VisitGoes(v, "authority") \/ VisitGoes(v, "resolving") \/ EndVisit(v))
  BY DEF CheckTracking, CheckAuthority
<1>4. VisitInv'
  BY <1>2, <1>3, VisitStages, VisitEnds DEF StoreInv, VisitStage
<1>5. QED
  BY <1>1, <1>4, VisitReads

LEMMA SaveGrantStep ==
    ASSUME StoreInv, NEW v \in Visit, NEW g \in Grant, SaveGrant(v, g)
    PROVE  StoreInv'
<1> USE DEF SaveGrant
<1>1. Onward
  BY DEF Onward, Codes, artifactVars, sessionVars
<1>2. GrantInv'
  BY DEF StoreInv, GrantInv, GrantsTyped, reductionVars
<1>3. SessionInv' /\ ArtifactInv' /\ ReductionTyped'
  BY <1>1, SessionFrame, ArtifactFrame, ReductionFrame
  DEF StoreInv, sessionVars, artifactVars, reductionVars
<1>4. VisitInv'
  <2> DEFINE r == [visit[v] EXCEPT !.stage = "issuing", !.grant = g]
  <2>1. visit' = [visit EXCEPT ![v] = r]
    BY DEF StoreInv, VisitInv, VisitsTyped
  <2>2. /\ r \in [stage : VisitStage, session : Session \cup {Absent},
                  auths : SUBSET minted', grant : minted' \cup {Absent}]
        /\ r.stage = "issuing" /\ r.grant = g /\ r.session = visit[v].session
    BY DEF StoreInv, VisitInv, VisitsTyped, VisitStage
  <2>3. r.session \in Session
    BY <2>2, VisitRecord DEF StoreInv
  <2> HIDE DEF r
  <2>4. QED
    BY <1>1, <2>1, <2>2, <2>3, VisitMoves DEF StoreInv
<1>5. ExchangeInv' /\ LogoutInv'
  BY <1>1, ExchangeFrame, LogoutFrame DEF StoreInv
<1>6. QED
  BY <1>2, <1>3, <1>4, <1>5 DEF StoreInv

LEMMA LoadGrantStep ==
    ASSUME StoreInv, NEW v \in Visit, NEW g \in Grant, LoadGrant(v, g)
    PROVE  StoreInv'
<1>1. StoresUnchanged /\ UNCHANGED <<exchange, logout>>
  BY DEF LoadGrant
<1>2. Onward /\ minted' = minted
  BY <1>1, StoresFrame DEF StoresUnchanged, grantVars
<1>3. PICK st \in {"issuing", "upgrading"} :
          visit' = [visit EXCEPT ![v].stage = st, ![v].grant = g]
  BY DEF LoadGrant
<1> DEFINE r == [visit[v] EXCEPT !.stage = st, !.grant = g]
<1>4. visit' = [visit EXCEPT ![v] = r]
  BY <1>3 DEF StoreInv, VisitInv, VisitsTyped
<1>5. g \in minted /\ visit[v].session \in Session
  BY VisitRecord DEF LoadGrant, StoreInv
<1>6. /\ r \in [stage : VisitStage, session : Session \cup {Absent},
                auths : SUBSET minted', grant : minted' \cup {Absent}]
      /\ r.stage \in {"issuing", "upgrading"} /\ r.grant = g /\ r.session \in Session
  BY <1>2, <1>3, <1>5 DEF StoreInv, VisitInv, VisitsTyped, VisitStage
<1> HIDE DEF r
<1>7. VisitInv'
  BY <1>2, <1>4, <1>5, <1>6, VisitMoves DEF StoreInv
<1>8. QED
  BY <1>1, <1>7, VisitReads

LEMMA SaveUpgradeStep ==
    ASSUME StoreInv, NEW v \in Visit, SaveUpgrade(v)
    PROVE  StoreInv'
<1> USE DEF SaveUpgrade
<1>1. Onward /\ minted' = minted
  BY DEF Onward, Codes, artifactVars, sessionVars
<1>2. visit[v].grant \in minted
  BY VisitRecord DEF StoreInv
<1>3. GrantInv'
  BY <1>2 DEF StoreInv, GrantInv, GrantsTyped, reductionVars
<1>4. SessionInv' /\ ArtifactInv' /\ ReductionTyped'
  BY <1>1, SessionFrame, ArtifactFrame, ReductionFrame
  DEF StoreInv, sessionVars, artifactVars, reductionVars
<1>5. VisitInv'
  BY <1>1, <1>2, VisitStages DEF StoreInv, VisitStage
<1>6. ExchangeInv' /\ LogoutInv'
  BY <1>1, ExchangeFrame, LogoutFrame DEF StoreInv
<1>7. QED
  BY <1>3, <1>4, <1>5, <1>6 DEF StoreInv

LEMMA SaveCodeStep ==
    ASSUME StoreInv, NEW v \in Visit, NEW a \in Art, SaveCode(v, a)
    PROVE  StoreInv'
<1> USE DEF SaveCode
<1>1. visit[v].grant \in minted /\ visit[v].session \in Session /\ visit[v].auths \subseteq minted
  BY VisitRecord DEF StoreInv
<1>2. NewCode(visit[v].grant) \in Artifact /\ NewCode(visit[v].grant).model = "code"
      /\ NewCode(visit[v].grant).standing = "live"
  BY <1>1 DEF NewCode, Artifact, StoreInv, GrantInv, GrantsTyped
<1>3. artifact \in [Art -> Artifact]
  BY DEF StoreInv, ArtifactInv, ArtifactsTyped
<1>4. Codes' = Codes \cup {a}
  BY <1>2, <1>3 DEF Codes
<1>5. ArtifactInv'
  BY <1>2, <1>3, <1>4 DEF StoreInv, ArtifactInv, ArtifactsTyped
<1>6. Onward /\ minted' = minted
  BY <1>4 DEF Onward, grantVars, sessionVars
<1>7. GrantInv' /\ SessionInv' /\ ReductionTyped'
  BY <1>6, GrantFrame, SessionFrame, ReductionFrame
  DEF StoreInv, grantVars, sessionVars, reductionVars
<1>8. VisitInv'
  <2> DEFINE r == [visit[v] EXCEPT !.stage = "saving", !.auths = WithAuthorization(@, visit[v].grant)]
  <2>1. visit' = [visit EXCEPT ![v] = r]
    BY DEF StoreInv, VisitInv, VisitsTyped
  <2>2. WithAuthorization(visit[v].auths, visit[v].grant) \subseteq minted
    BY <1>1 DEF WithAuthorization
  <2>3. /\ r \in [stage : VisitStage, session : Session \cup {Absent},
                  auths : SUBSET minted', grant : minted' \cup {Absent}]
        /\ r.stage = "saving" /\ r.session \in Session
    BY <1>1, <1>6, <2>2 DEF StoreInv, VisitInv, VisitsTyped, VisitStage
  <2> HIDE DEF r
  <2>4. QED
    BY <1>6, <2>1, <2>3, VisitMoves DEF StoreInv
<1>9. ExchangeInv' /\ LogoutInv'
  BY <1>6, ExchangeFrame, LogoutFrame DEF StoreInv
<1>10. QED
  BY <1>5, <1>7, <1>8, <1>9 DEF StoreInv

(* The tracking row is written first, and a revoked row stays revoked. *)
LEMMA TrackSessionStep ==
    ASSUME StoreInv, NEW v \in Visit, TrackSession(v)
    PROVE  StoreInv'
<1> USE DEF TrackSession
<1>1. visit[v].session \in Session
  BY VisitRecord DEF StoreInv
<1>2. /\ \A s \in Session : tracking[s] # "none" => tracking'[s] # "none"
      /\ tracking'[visit[v].session] # "none"
      /\ tracking' \in [Session -> {"none", "live", "revoked"}]
      /\ \A s \in Session : tracking[s] = "revoked" => tracking'[s] = "revoked"
  BY <1>1 DEF TrackedRow, StoreInv, SessionInv, SessionsTyped
<1>3. Onward /\ minted' = minted
  BY <1>2 DEF Onward, grantVars, artifactVars, Codes
<1>4. SessionInv'
  BY <1>2, <1>3 DEF StoreInv, SessionInv, SessionsTyped, Published, NoPayload
<1>5. GrantInv' /\ ArtifactInv' /\ ReductionTyped'
  BY <1>3, GrantFrame, ArtifactFrame, ReductionFrame
  DEF StoreInv, grantVars, artifactVars, reductionVars
<1>6. VisitInv'
  BY <1>2, <1>3, VisitStages DEF StoreInv, VisitStage
<1>7. ExchangeInv' /\ LogoutInv'
  BY <1>3, ExchangeFrame, LogoutFrame DEF StoreInv
<1>8. QED
  BY <1>4, <1>5, <1>6, <1>7 DEF StoreInv

LEMMA PublishSessionStep ==
    ASSUME StoreInv, NEW v \in Visit, PublishSession(v)
    PROVE  StoreInv'
<1> USE DEF PublishSession
<1>1. /\ visit[v].session \in Session /\ visit[v].auths \subseteq minted
      /\ tracking[visit[v].session] # "none"
  BY VisitRecord DEF StoreInv
<1>2. Onward /\ minted' = minted
  BY DEF Onward, grantVars, artifactVars, Codes
<1>3. SessionInv'
  BY <1>1, <1>2 DEF StoreInv, SessionInv, SessionsTyped, Published, NoPayload
<1>4. GrantInv' /\ ArtifactInv' /\ ReductionTyped'
  BY <1>2, GrantFrame, ArtifactFrame, ReductionFrame
  DEF StoreInv, grantVars, artifactVars, reductionVars
<1>5. VisitInv'
  BY <1>2, VisitEnds DEF StoreInv
<1>6. ExchangeInv' /\ LogoutInv'
  BY <1>2, ExchangeFrame, LogoutFrame DEF StoreInv
<1>7. QED
  BY <1>3, <1>4, <1>5, <1>6 DEF StoreInv

LEMMA LoseVisitStep ==
    ASSUME StoreInv, NEW v \in Visit, LoseVisit(v)
    PROVE  StoreInv'
<1>1. StoresUnchanged /\ UNCHANGED <<exchange, logout>> /\ EndVisit(v)
  BY DEF LoseVisit
<1>2. VisitInv'
  BY <1>1, StoresFrame, VisitEnds DEF StoreInv
<1>3. QED
  BY <1>1, <1>2, VisitReads

LEMMA VisitStep ==
    ASSUME StoreInv, NEW v \in Visit, VisitNext(v)
    PROVE  StoreInv'
  BY FindSession, CheckSession, SaveGrantStep, LoadGrantStep, SaveUpgradeStep, SaveCodeStep,
     TrackSessionStep, PublishSessionStep, LoseVisitStep
  DEF VisitNext

-----------------------------------------------------------------------------
(* The steps of a token request.                                           *)

LEMMA ExchangeReads ==
    ASSUME StoreInv, StoresUnchanged, UNCHANGED <<visit, logout>>, ExchangeInv'
    PROVE  StoreInv'
  BY StoresFrame, VisitFrame, LogoutFrame DEF StoreInv

LEMMA FindArtifact ==
    ASSUME StoreInv, NEW x \in Exchange,
           (\E a \in Art : ReadArtifact(x, a)) \/ CheckArtifact(x) \/ LoseExchange(x)
    PROVE  StoreInv'
<1>1. StoresUnchanged /\ UNCHANGED <<visit, logout>>
  BY DEF ReadArtifact, CheckArtifact, LoseExchange
<1>2. ExchangeInv'
  <2>1. ASSUME NEW a \in Art, ReadArtifact(x, a) PROVE ExchangeInv'
    BY <2>1 DEF ReadArtifact, StoreInv, ExchangeInv, ExchangesTyped, ExchangeStage
  <2>2. CASE CheckArtifact(x)
    BY <2>2, ExchangeStages, ExchangeEnds DEF CheckArtifact, StoreInv, ExchangeStage
  <2>3. CASE LoseExchange(x)
    BY <2>3, ExchangeEnds DEF LoseExchange, StoreInv
  <2>4. QED
    BY <2>1, <2>2, <2>3
<1>3. QED
  BY <1>1, <1>2, ExchangeReads

(* A change of the artifacts that only an exchange made. *)
LEMMA ExchangeWrites ==
    ASSUME StoreInv, Codes \subseteq Codes', ArtifactInv', ExchangeInv',
           UNCHANGED <<grantVars, sessionVars, reductionVars, restored, closed, visit, logout>>
    PROVE  StoreInv'
<1>1. Onward
  BY DEF Onward, grantVars, sessionVars
<1>2. GrantInv' /\ SessionInv' /\ ReductionTyped'
  BY <1>1, GrantFrame, SessionFrame, ReductionFrame
  DEF StoreInv, grantVars, sessionVars, reductionVars
<1>3. VisitInv' /\ LogoutInv'
  BY <1>1, VisitFrame, LogoutFrame DEF StoreInv
<1>4. QED
  BY <1>2, <1>3 DEF StoreInv

LEMMA ConsumeStep ==
    ASSUME StoreInv, NEW x \in Exchange, Consume(x)
    PROVE  StoreInv'
<1> USE DEF Consume
<1>1. exchange[x].art \in Art
  BY DEF StoreInv, ExchangeInv
<1>2. ExchangeInv'
  BY ExchangeStages, ExchangeEnds DEF StoreInv, ExchangeStage
<1>3. \A a \in Art : artifact[a] \in Artifact
  BY DEF StoreInv, ArtifactInv, ArtifactsTyped
<1>4. \A a \in Art : /\ artifact'[a] \in Artifact
                     /\ artifact'[a].model = artifact[a].model
                     /\ artifact'[a].standing = "unborn" <=> artifact[a].standing = "unborn"
  BY <1>1, <1>3 DEF Consumable, Artifact, StoreInv, ArtifactInv, ArtifactsTyped
<1>5. Codes' = Codes
  BY <1>4 DEF Codes
<1>6. artifact' \in [Art -> Artifact]
  BY <1>4 DEF StoreInv, ArtifactInv, ArtifactsTyped
<1>7. ArtifactInv'
  BY <1>4, <1>5, <1>6 DEF StoreInv, ArtifactInv, ArtifactsTyped
<1>8. QED
  BY <1>2, <1>5, <1>7, ExchangeWrites

LEMMA SaveTokenStep ==
    ASSUME StoreInv, NEW x \in Exchange, NEW b \in Art, SaveToken(x, b)
    PROVE  StoreInv'
<1> USE DEF SaveToken
<1>1. exchange[x].art \in Art
  BY DEF StoreInv, ExchangeInv
<1>2. artifact \in [Art -> Artifact]
  BY DEF StoreInv, ArtifactInv, ArtifactsTyped
<1>3. /\ NewToken(exchange[x].art) \in Artifact
      /\ NewToken(exchange[x].art).model = "token"
      /\ NewToken(exchange[x].art).standing = "live"
  BY <1>1, <1>2 DEF NewToken, Artifact
<1>4. artifact[b].model = "none"
  BY DEF Fresh, StoreInv, ArtifactInv
<1>5. Codes' = Codes
  BY <1>2, <1>3, <1>4 DEF Codes
<1>6. ArtifactInv'
  BY <1>2, <1>3, <1>5 DEF StoreInv, ArtifactInv, ArtifactsTyped
<1>7. ExchangeInv'
  BY ExchangeEnds DEF StoreInv
<1>8. QED
  BY <1>5, <1>6, <1>7, ExchangeWrites

LEMMA ExchangeStep ==
    ASSUME StoreInv, NEW x \in Exchange, ExchangeNext(x)
    PROVE  StoreInv'
  BY FindArtifact, ConsumeStep, SaveTokenStep DEF ExchangeNext

-----------------------------------------------------------------------------
(* The steps of a destruction.                                             *)

LEMMA LogoutReads ==
    ASSUME StoreInv, StoresUnchanged, UNCHANGED <<visit, exchange>>, LogoutInv'
    PROVE  StoreInv'
  BY StoresFrame, VisitFrame, ExchangeFrame DEF StoreInv

LEMMA ReadForDestroyStep ==
    ASSUME StoreInv, NEW o \in Logout, NEW s \in Session, ReadForDestroy(o, s)
    PROVE  StoreInv'
<1>1. StoresUnchanged /\ UNCHANGED <<visit, exchange>>
  BY DEF ReadForDestroy
<1>2. Onward /\ minted' = minted /\ tracking' = tracking
  BY <1>1, StoresFrame DEF StoresUnchanged, grantVars, sessionVars
<1> DEFINE bare == [stage |-> "revoking", session |-> s, auths |-> {}, members |-> {}]
           full == [stage |-> "tracking", session |-> s, auths |-> payload[s], members |-> {}]
           Records == [stage : LogoutStage, session : Session \cup {Absent},
                       auths : SUBSET minted', members : SUBSET Codes']
<1>3. tracking'[s] # "none"
  BY <1>2 DEF ReadForDestroy
<1>4. CASE payload[s] = NoPayload
  <2>1. logout' = [logout EXCEPT ![o] = bare]
    BY <1>4 DEF ReadForDestroy, Destroying
  <2>2. bare \in Records
    BY DEF LogoutStage
  <2>3. QED
    BY <1>1, <1>2, <1>3, <2>1, <2>2, LogoutMoves, LogoutReads DEF StoreInv
<1>5. CASE payload[s] # NoPayload
  <2>1. logout' = [logout EXCEPT ![o] = full]
    BY <1>5 DEF ReadForDestroy, Destroying
  <2>2. payload[s] \subseteq minted'
    BY <1>2, <1>5 DEF StoreInv, SessionInv, Published
  <2>3. full \in Records
    BY <2>2 DEF LogoutStage
  <2>4. QED
    BY <1>1, <1>2, <1>3, <2>1, <2>3, LogoutMoves, LogoutReads DEF StoreInv
<1>6. QED
  BY <1>4, <1>5

LEMMA CollectMembersStep ==
    ASSUME StoreInv, NEW o \in Logout, CollectMembers(o)
    PROVE  StoreInv'
<1>1. StoresUnchanged /\ UNCHANGED <<visit, exchange>>
  BY DEF CollectMembers
<1>2. Onward
  BY <1>1, StoresFrame
<1>3. indexed \cap Of(logout[o].auths) \subseteq Codes
  BY DEF StoreInv, ArtifactInv, ArtifactsTyped
<1>4. LogoutInv'
  BY ZenonT(60), <1>2, <1>3 DEF CollectMembers, StoreInv, LogoutInv, LogoutsTyped, LogoutStage, Onward
<1>5. QED
  BY <1>1, <1>4, LogoutReads

LEMMA LogoutFails ==
    ASSUME StoreInv, NEW o \in Logout,
           CheckDestroyTracking(o) \/ CascadeFails(o) \/ LoseLogout(o)
    PROVE  StoreInv'
<1>1. StoresUnchanged /\ UNCHANGED <<visit, exchange>>
  BY DEF CheckDestroyTracking, CascadeFails, LoseLogout
<1>2. Onward
  BY <1>1, StoresFrame
<1>3. /\ logout[o].stage # "idle"
      /\ \/ LogoutGoes(o, "cascade")
         \/ WithoutCascade(o)
         \/ logout' = [logout EXCEPT ![o] = NoLogout]
  BY DEF CheckDestroyTracking, CascadeFails, LoseLogout
<1>4. LogoutInv'
  BY <1>2, <1>3, LogoutStages, CascadeDropped, LogoutEnds DEF StoreInv, LogoutStage
<1>5. QED
  BY <1>1, <1>4, LogoutReads

LEMMA RemovalStep ==
    ASSUME StoreInv, NEW o \in Logout, RevokeGrants(o) \/ ClearMembers(o)
    PROVE  StoreInv'
<1>1. PICK as \in SUBSET (Codes \cup Tokens) : artifact' = Without(as)
  <2>1. CASE RevokeGrants(o)
    BY <2>1 DEF RevokeGrants, RowsOfGrants
  <2>2. CASE ClearMembers(o)
    BY <2>2 DEF ClearMembers, StoreInv, LogoutInv, LogoutsTyped
  <2>3. QED
    BY <2>1, <2>2
<1>2. indexed' \subseteq indexed
  BY DEF RevokeGrants, ClearMembers
<1>3. ArtifactInv' /\ Codes' = Codes
  BY <1>1, <1>2, RemovalKeepsModels DEF StoreInv
<1>4. UNCHANGED <<grantVars, sessionVars, reductionVars, restored, closed, visit, exchange>>
  BY DEF RevokeGrants, ClearMembers
<1>5. Onward
  BY <1>3, <1>4 DEF Onward, grantVars, sessionVars
<1>6. GrantInv' /\ SessionInv' /\ ReductionTyped'
  BY <1>4, <1>5, GrantFrame, SessionFrame, ReductionFrame
  DEF StoreInv, grantVars, sessionVars, reductionVars
<1>7. VisitInv' /\ ExchangeInv'
  BY <1>4, <1>5, VisitFrame, ExchangeFrame DEF StoreInv
<1>8. LogoutInv'
  BY <1>5, LogoutStages DEF RevokeGrants, ClearMembers, StoreInv, LogoutStage
<1>9. QED
  BY <1>3, <1>6, <1>7, <1>8 DEF StoreInv

(* A row that is revoked was tracked, and no row is unmade. *)
LEMMA RevokedRows ==
    ASSUME SessionInv, NEW s \in Session
    PROVE  /\ RevokeRow(s) \in {"none", "revoked"}
           /\ RevokeRow(s) = "none" <=> tracking[s] = "none"
  BY DEF RevokeRow, SessionInv, SessionsTyped

LEMMA RevokeSessionStep ==
    ASSUME StoreInv, NEW o \in Logout, RevokeSession(o)
    PROVE  StoreInv'
<1> USE DEF RevokeSession
<1>1. logout[o].session \in Session /\ tracking[logout[o].session] # "none"
  BY DEF StoreInv, LogoutInv
<1>2. RevokeRow(logout[o].session) = "revoked"
  BY <1>1, RevokedRows DEF StoreInv
<1>3. /\ tracking' \in [Session -> {"none", "live", "revoked"}]
      /\ \A s \in Session : tracking'[s] = tracking[s] \/ tracking'[s] = "revoked"
      /\ tracking'[logout[o].session] = "revoked"
  BY <1>1, <1>2 DEF StoreInv, SessionInv, SessionsTyped
<1>4. Onward /\ minted' = minted
  BY <1>3 DEF Onward, grantVars, artifactVars, Codes
<1>5. SessionInv'
  BY <1>1, <1>3, <1>4 DEF StoreInv, SessionInv, SessionsTyped, Published, NoPayload
<1>6. GrantInv' /\ ArtifactInv' /\ ReductionTyped'
  BY <1>4, GrantFrame, ArtifactFrame, ReductionFrame
  DEF StoreInv, grantVars, artifactVars, reductionVars
<1>7. VisitInv' /\ ExchangeInv'
  BY <1>4, VisitFrame, ExchangeFrame DEF StoreInv
<1>8. LogoutInv'
  BY <1>4, LogoutStages DEF StoreInv, LogoutStage
<1>9. QED
  BY <1>5, <1>6, <1>7, <1>8 DEF StoreInv

LEMMA RemovePayloadStep ==
    ASSUME StoreInv, NEW o \in Logout, RemovePayload(o)
    PROVE  StoreInv'
<1> USE DEF RemovePayload
<1>1. logout[o].session \in Session /\ logout[o].auths \subseteq minted
  BY DEF StoreInv, LogoutInv, LogoutsTyped
<1>2. Onward /\ minted' = minted
  BY DEF Onward, grantVars, artifactVars, Codes
<1>3. GrantInv'
  BY <1>1 DEF StoreInv, GrantInv, GrantsTyped, grantVars, reductionVars
<1>4. SessionInv'
  BY <1>1, <1>2 DEF StoreInv, SessionInv, SessionsTyped, Published, NoPayload
<1>5. ArtifactInv' /\ ReductionTyped'
  BY <1>2, ArtifactFrame, ReductionFrame DEF StoreInv, artifactVars, reductionVars
<1>6. VisitInv' /\ ExchangeInv' /\ LogoutInv'
  BY <1>2, VisitFrame, ExchangeFrame, LogoutEnds DEF StoreInv
<1>7. QED
  BY <1>3, <1>4, <1>5, <1>6 DEF StoreInv

LEMMA LogoutStep ==
    ASSUME StoreInv, NEW o \in Logout, LogoutNext(o)
    PROVE  StoreInv'
  BY ReadForDestroyStep, CollectMembersStep, LogoutFails, RemovalStep, RevokeSessionStep,
     RemovePayloadStep
  DEF LogoutNext

-----------------------------------------------------------------------------
(* The steps of the administration.                                        *)

(* A row revoked by an administrator or with its account. *)
LEMMA SessionsRevoked ==
    ASSUME StoreInv, UNCHANGED <<payload, minted>>,
           tracking' \in [Session -> {"none", "live", "revoked"}],
           \A s \in Session : tracking'[s] = tracking[s]
                              \/ (tracking[s] # "none" /\ tracking'[s] = "revoked"),
           dead' \subseteq Session,
           \A s \in dead' : tracking'[s] = "revoked"
    PROVE  SessionInv'
  BY DEF StoreInv, SessionInv, SessionsTyped, Published, NoPayload

LEMMA AdminRevokeStep ==
    ASSUME StoreInv, NEW s \in Session, RevokeSessionByPublicId(s)
    PROVE  StoreInv'
<1> USE DEF RevokeSessionByPublicId
<1>0. tracking \in [Session -> {"none", "live", "revoked"}] /\ tracking[s] # "none"
  BY DEF StoreInv, SessionInv, SessionsTyped
<1>1. /\ tracking' \in [Session -> {"none", "live", "revoked"}]
      /\ \A t \in Session : tracking'[t] = tracking[t]
                            \/ (tracking[t] # "none" /\ tracking'[t] = "revoked")
      /\ tracking'[s] = "revoked"
  BY <1>0
<1>2. dead' \subseteq Session /\ \A t \in dead' : tracking'[t] = "revoked"
  BY <1>1 DEF StoreInv, SessionInv, SessionsTyped
<1>3. Onward /\ UNCHANGED <<payload, minted>>
  BY <1>1 DEF Onward, grantVars, artifactVars, Codes
<1>4. SessionInv'
  BY <1>1, <1>2, <1>3, SessionsRevoked
<1>5. GrantInv' /\ ArtifactInv' /\ ReductionTyped'
  BY <1>3, GrantFrame, ArtifactFrame, ReductionFrame
  DEF StoreInv, grantVars, artifactVars, reductionVars
<1>6. VisitInv' /\ ExchangeInv' /\ LogoutInv'
  BY <1>3, VisitFrame, ExchangeFrame, LogoutFrame DEF StoreInv
<1>7. QED
  BY <1>4, <1>5, <1>6 DEF StoreInv

LEMMA DropPayloadStep ==
    ASSUME StoreInv, NEW s \in Session, DropPayload(s)
    PROVE  StoreInv'
<1> USE DEF DropPayload
<1>1. Onward /\ minted' = minted
  BY DEF Onward, grantVars, artifactVars, Codes
<1>2. SessionInv'
  BY <1>1 DEF StoreInv, SessionInv, SessionsTyped, Published, NoPayload
<1>3. GrantInv' /\ ArtifactInv' /\ ReductionTyped'
  BY <1>1, GrantFrame, ArtifactFrame, ReductionFrame
  DEF StoreInv, grantVars, artifactVars, reductionVars
<1>4. VisitInv' /\ ExchangeInv' /\ LogoutInv'
  BY <1>1, VisitFrame, ExchangeFrame, LogoutFrame DEF StoreInv
<1>5. QED
  BY <1>2, <1>3, <1>4 DEF StoreInv

(* Every Grant row of the account goes, so none that is revoked is left. *)
LEMMA RevokeAuthorityStep ==
    ASSUME StoreInv, RevokeAuthority
    PROVE  StoreInv'
<1> USE DEF RevokeAuthority
<1>1. GrantInv'
  BY DEF RemovedGrants, StoreInv, GrantInv, GrantsTyped
<1>2. /\ \A s \in Session : tracking'[s] \in {"none", "revoked"}
      /\ \A s \in Session : tracking'[s] = "none" <=> tracking[s] = "none"
  BY RevokedRows DEF StoreInv
<1>3. /\ tracking' \in [Session -> {"none", "live", "revoked"}]
      /\ \A s \in Session : tracking'[s] = tracking[s]
                            \/ (tracking[s] # "none" /\ tracking'[s] = "revoked")
  BY <1>2
<1>4. dead' \subseteq Session /\ \A s \in dead' : tracking'[s] = "revoked"
  BY <1>2 DEF StoreInv, SessionInv, SessionsTyped
<1>5. SessionInv'
  BY <1>3, <1>4, SessionsRevoked
<1>6. ArtifactInv' /\ Codes' = Codes
  BY RemovalKeepsModels DEF StoreInv
<1>7. Onward
  BY <1>2, <1>6 DEF Onward
<1>8. ReductionTyped'
  <2>1. grants \subseteq minted'
    BY DEF StoreInv, GrantInv, GrantsTyped
  <2>2. revocations' \in 0 .. MaxRevocations
    BY StoreAssumption DEF StoreInv, ReductionTyped
  <2>3. QED
    BY <2>1, <2>2 DEF ReductionTyped
<1>9. VisitInv' /\ ExchangeInv' /\ LogoutInv'
  BY <1>7, VisitFrame, ExchangeFrame, LogoutFrame DEF StoreInv
<1>10. QED
  BY <1>1, <1>5, <1>6, <1>8, <1>9 DEF StoreInv

LEMMA SweepStep ==
    ASSUME StoreInv, SweepIndexes \/ EndSweep \/ \E a \in Art : SweepCode(a)
    PROVE  StoreInv'
<1>1. /\ UNCHANGED <<grantVars, sessionVars, revocations, revoked, restored, closed>>
      /\ UNCHANGED <<visit, exchange, logout>>
  BY DEF SweepIndexes, EndSweep, SweepCode, reductionVars
<1>2. ArtifactInv' /\ Codes' = Codes
  <2>1. CASE SweepIndexes
    BY <2>1 DEF SweepIndexes, StoreInv, ArtifactInv, ArtifactsTyped, Codes
  <2>2. CASE EndSweep
    BY <2>2 DEF EndSweep, artifactVars, StoreInv, ArtifactInv, ArtifactsTyped, Codes
  <2>3. ASSUME NEW a \in Art, SweepCode(a) PROVE ArtifactInv' /\ Codes' = Codes
    BY <2>3, RemovalKeepsModels DEF SweepCode, StoreInv
  <2>4. QED
    BY <2>1, <2>2, <2>3
<1>3. Onward
  BY <1>1, <1>2 DEF Onward, grantVars, sessionVars
<1>4. sweep' \in [stage : {"idle", "indexes", "payloads"}, grants : SUBSET minted']
  <2>1. sweep \in [stage : {"idle", "indexes", "payloads"}, grants : SUBSET minted']
    BY <1>1 DEF grantVars, StoreInv, ReductionTyped
  <2>2. CASE SweepIndexes
    BY <2>1, <2>2 DEF SweepIndexes
  <2>3. CASE EndSweep
    BY <2>3 DEF EndSweep, NoSweep
  <2>4. CASE \E a \in Art : SweepCode(a)
    BY <2>1, <2>4 DEF SweepCode, reductionVars
  <2>5. QED
    BY <2>2, <2>3, <2>4
<1>5. ReductionTyped'
  BY <1>1, <1>4 DEF StoreInv, ReductionTyped
<1>6. GrantInv' /\ SessionInv'
  BY <1>1, <1>3, GrantFrame, SessionFrame DEF StoreInv, grantVars, sessionVars
<1>7. VisitInv' /\ ExchangeInv' /\ LogoutInv'
  BY <1>1, <1>3, VisitFrame, ExchangeFrame, LogoutFrame DEF StoreInv
<1>8. QED
  BY <1>2, <1>5, <1>6, <1>7 DEF StoreInv

-----------------------------------------------------------------------------
(* The invariant, and what follows from it.                                *)

LEMMA StoreInvInit == Init => StoreInv
<1> SUFFICES ASSUME Init PROVE StoreInv
  OBVIOUS
<1> USE DEF Init
<1>1. GrantInv
  BY DEF GrantInv, GrantsTyped
<1>2. SessionInv
  BY DEF SessionInv, SessionsTyped, Published, NoPayload
<1>3. ArtifactInv
  BY DEF ArtifactInv, ArtifactsTyped, Unborn, Artifact
<1>4. VisitInv
  BY DEF VisitInv, VisitsTyped, NoVisit, Visiting, VisitStage
<1>5. ExchangeInv
  BY DEF ExchangeInv, ExchangesTyped, NoExchange, ExchangeStage
<1>6. LogoutInv
  BY DEF LogoutInv, LogoutsTyped, NoLogout, Destroying, LogoutStage
<1>7. ReductionTyped
  BY StoreAssumption DEF ReductionTyped, NoSweep
<1>8. QED
  BY <1>1, <1>2, <1>3, <1>4, <1>5, <1>6, <1>7 DEF StoreInv

LEMMA StoreInvStep == StoreInv /\ [Next]_vars => StoreInv'
<1> SUFFICES ASSUME StoreInv, [Next]_vars PROVE StoreInv'
  OBVIOUS
<1>1. ASSUME NEW v \in Visit, VisitNext(v) PROVE StoreInv'
  BY <1>1, VisitStep
<1>2. ASSUME NEW x \in Exchange, ExchangeNext(x) PROVE StoreInv'
  BY <1>2, ExchangeStep
<1>3. ASSUME NEW o \in Logout, LogoutNext(o) PROVE StoreInv'
  BY <1>3, LogoutStep
<1>4. CASE StoreNext
  BY <1>4, AdminRevokeStep, DropPayloadStep, RevokeAuthorityStep, SweepStep DEF StoreNext
<1>5. CASE UNCHANGED vars
  <2>1. StoresUnchanged /\ UNCHANGED <<visit, exchange, logout>>
    BY <1>5 DEF vars, StoresUnchanged
  <2>2. QED
    BY <2>1, StoresFrame, VisitFrame, ExchangeFrame, LogoutFrame DEF StoreInv
<1>6. QED
  BY <1>1, <1>2, <1>3, <1>4, <1>5 DEF Next

LEMMA StoreSafety == Spec => []StoreInv
  BY StoreInvInit, StoreInvStep, PTL DEF Spec

(* The stores and the requests in flight keep their types, whatever the    *)
(* number of sessions, grants, artifacts and requests.                     *)
THEOREM StoreTypeCorrect == Spec => []TypeOK
<1>1. StoreInv => TypeOK
  BY DEF StoreInv, TypeOK, GrantInv, SessionInv, ArtifactInv, VisitInv, ExchangeInv, LogoutInv
<1>2. QED
  BY <1>1, StoreSafety, PTL

(* No session is in Redis that an administrator could not revoke.          *)
THEOREM TrackedBeforePublishedHolds == Spec => []TrackedBeforePublished
<1>1. StoreInv => TrackedBeforePublished
  BY DEF StoreInv, SessionInv, Published, TrackedBeforePublished
<1>2. QED
  BY <1>1, StoreSafety, PTL

(* A session revoked once is never found again.                            *)
THEOREM DeadSessionsStayDeadHolds == Spec => []DeadSessionsStayDead
<1>1. StoreInv => DeadSessionsStayDead
  BY DEF StoreInv, SessionInv, SessionsTyped, DeadSessionsStayDead, SessionIsLive
<1>2. QED
  BY <1>1, StoreSafety, PTL

(* After a loss of authority nothing issued under its grants is redeemable *)
(* unless a visit saved the grant again.                                   *)
THEOREM RevokedGrantsAreDeadHolds == Spec => []RevokedGrantsAreDead
<1>1. StoreInv => RevokedGrantsAreDead
  BY DEF StoreInv, GrantInv, RevokedGrantsAreDead, Redeemable, HasLiveAuthority
<1>2. QED
  BY <1>1, StoreSafety, PTL
-----------------------------------------------------------------------------
(* One redemption.  An artifact that was found by several requests is      *)
(* consumed by one of them, and from then on it is spent: the request that *)
(* consumed it holds the only claim to it, until it becomes the one token  *)
(* issued for it.                                                          *)

Spent(a) == artifact[a].standing \in {"consumed", "gone"}

Redeeming(x, a) == exchange[x].stage = "saving" /\ exchange[x].art = a

IssuedFor(b, a) == artifact[b].model = "token" /\ artifact[b].parent = a

RedeemInv ==
    \A a \in Art :
        /\ \A x \in Exchange : Redeeming(x, a) =>
            /\ Spent(a)
            /\ \A y \in Exchange : Redeeming(y, a) => y = x
            /\ \A b \in Art : ~IssuedFor(b, a)
        /\ \A b \in Art : IssuedFor(b, a) =>
            /\ Spent(a)
            /\ \A c \in Art : IssuedFor(c, a) => c = b

(* What is spent stays so, and no token appears or changes its parent.     *)
NoRedemption ==
    /\ \A a \in Art : Spent(a) => Spent(a)'
    /\ \A a, b \in Art : IssuedFor(b, a)' => IssuedFor(b, a)
    /\ \A x \in Exchange : exchange'[x].stage = "saving" => exchange'[x] = exchange[x]

LEMMA RedeemKept ==
    ASSUME RedeemInv, NoRedemption
    PROVE  RedeemInv'
<1>1. \A x \in Exchange, a \in Art : Redeeming(x, a)' => Redeeming(x, a)
  BY DEF NoRedemption, Redeeming
<1>2. QED
  BY <1>1 DEF RedeemInv, NoRedemption

LEMMA ArtifactRecords ==
    ASSUME StoreInv
    PROVE  /\ artifact \in [Art -> Artifact]
           /\ \A a \in Art : artifact[a].model = "none" <=> artifact[a].standing = "unborn"
           /\ exchange \in [Exchange -> [stage : ExchangeStage, art : Art \cup {Absent}]]
           /\ \A x \in Exchange : exchange[x].stage # "idle" => exchange[x].art \in Art
  BY DEF StoreInv, ArtifactInv, ArtifactsTyped, ExchangeInv, ExchangesTyped

(* Removing artifacts redeems nothing.                                     *)
LEMMA RemovalRedeems ==
    ASSUME StoreInv, NEW as, artifact' = artifact \/ artifact' = Without(as), exchange' = exchange
    PROVE  NoRedemption
<1>1. ASSUME NEW a \in Art
      PROVE  /\ artifact'[a].model = artifact[a].model
             /\ artifact'[a].parent = artifact[a].parent
             /\ artifact'[a].standing \in {artifact[a].standing, "gone"}
  <2>1. artifact[a] \in Artifact
    BY ArtifactRecords
  <2>2. CASE artifact' = Without(as) /\ a \in as
    <3>1. artifact'[a] = [artifact[a] EXCEPT !.standing = "gone"]
      BY <2>2 DEF Without
    <3>2. QED
      BY <2>1, <3>1 DEF Artifact
  <2>3. CASE artifact'[a] = artifact[a]
    BY <2>3
  <2>4. QED
    BY <2>2, <2>3 DEF Without
<1>2. QED
  BY <1>1 DEF NoRedemption, Spent, IssuedFor

LEMMA VisitRedeems ==
    ASSUME StoreInv, NEW v \in Visit, VisitNext(v)
    PROVE  NoRedemption
<1>1. exchange' = exchange
  BY DEF VisitNext, StartSession, ReadSession, CheckTracking, CheckAuthority, SaveGrant, LoadGrant,
         SaveUpgrade, SaveCode, TrackSession, PublishSession, LoseVisit
<1>2. ASSUME NEW a \in Art, SaveCode(v, a) PROVE NoRedemption
  <2>1. /\ artifact[a].standing = "unborn"
        /\ artifact' = [artifact EXCEPT ![a] = NewCode(visit[v].grant)]
    BY <1>2 DEF SaveCode, Fresh
  <2>2. NewCode(visit[v].grant).model = "code"
    BY DEF NewCode
  <2>3. artifact'[a].model = "code" /\ \A b \in Art \ {a} : artifact'[b] = artifact[b]
    BY <2>1, <2>2, ArtifactRecords
  <2>4. QED
    BY <1>1, <2>1, <2>3 DEF NoRedemption, Spent, IssuedFor
<1>3. artifact' = artifact \/ \E a \in Art : SaveCode(v, a)
  BY DEF VisitNext, StartSession, ReadSession, CheckTracking, CheckAuthority, SaveGrant, LoadGrant,
         SaveUpgrade, TrackSession, PublishSession, LoseVisit, StoresUnchanged, artifactVars
<1>4. QED
  BY <1>1, <1>2, <1>3, RemovalRedeems

LEMMA OthersRedeem ==
    ASSUME StoreInv, (\E o \in Logout : LogoutNext(o)) \/ StoreNext \/ UNCHANGED vars
    PROVE  NoRedemption
<1>1. exchange' = exchange
  BY DEF LogoutNext, StoreNext, vars, ReadForDestroy, CheckDestroyTracking, RevokeGrants,
         CascadeFails, CollectMembers, ClearMembers, RevokeSession, RemovePayload, LoseLogout,
         RevokeSessionByPublicId, DropPayload, RevokeAuthority, SweepIndexes, SweepCode, EndSweep
<1>2. artifact' = artifact \/ \E as : artifact' = Without(as)
  BY DEF LogoutNext, StoreNext, vars, ReadForDestroy, CheckDestroyTracking, RevokeGrants,
         CascadeFails, CollectMembers, ClearMembers, RevokeSession, RemovePayload, LoseLogout,
         RevokeSessionByPublicId, DropPayload, RevokeAuthority, SweepIndexes, SweepCode, EndSweep,
         StoresUnchanged, artifactVars
<1>3. QED
  BY <1>1, <1>2, RemovalRedeems

(* The artifact was live, so nobody had consumed it.                       *)
LEMMA ConsumeRedeems ==
    ASSUME StoreInv, RedeemInv, NEW x \in Exchange, Consume(x)
    PROVE  RedeemInv'
<1>0. PICK a \in Art : a = exchange[x].art
  BY ArtifactRecords DEF Consume
<1>1. CASE Consumable(a)
  <2>1. /\ artifact[a].standing = "live"
        /\ artifact' = [artifact EXCEPT ![a].standing = "consumed"]
        /\ exchange' = [exchange EXCEPT ![x].stage = "saving"]
    BY <1>0, <1>1 DEF Consume, Consumable, ExchangeGoes
  <2>2. /\ artifact'[a].standing = "consumed" /\ artifact'[a].model = artifact[a].model
        /\ artifact'[a].parent = artifact[a].parent
        /\ \A b \in Art \ {a} : artifact'[b] = artifact[b]
    BY <2>1, ArtifactRecords DEF Artifact
  <2>3. /\ exchange'[x].stage = "saving" /\ exchange'[x].art = a
        /\ \A y \in Exchange \ {x} : exchange'[y] = exchange[y]
    BY <1>0, <2>1, ArtifactRecords
  <2>4. \A y \in Exchange, b \in Art : ~Redeeming(y, a) /\ ~IssuedFor(b, a)
    BY <2>1 DEF RedeemInv, Spent
  <2>5. \A b, c \in Art : IssuedFor(b, c)' <=> IssuedFor(b, c)
    BY <2>2 DEF IssuedFor
  <2>6. \A c \in Art : Spent(c) => Spent(c)'
    BY <2>2 DEF Spent
  <2>7. \A y \in Exchange, c \in Art :
          Redeeming(y, c)' <=> (IF y = x THEN c = a ELSE Redeeming(y, c))
    BY <2>3 DEF Redeeming
  <2>8. ~\E c \in Art : Redeeming(x, c)
    BY DEF Redeeming, Consume
  <2>9. Spent(a)'
    BY <2>2 DEF Spent
  <2>10. QED
    BY <2>4, <2>5, <2>6, <2>7, <2>8, <2>9 DEF RedeemInv
<1>2. CASE ~Consumable(a)
  <2>1. artifact' = artifact /\ exchange' = [exchange EXCEPT ![x] = NoExchange]
    BY <1>0, <1>2 DEF Consume, EndExchange
  <2>2. NoRedemption
    BY <2>1, ArtifactRecords DEF NoRedemption, Spent, IssuedFor, NoExchange
  <2>3. QED
    BY <2>2, RedeemKept
<1>3. QED
  BY <1>1, <1>2

(* The claim becomes the token.                                            *)
LEMMA SaveRedeems ==
    ASSUME StoreInv, RedeemInv, NEW x \in Exchange, NEW b \in Art, SaveToken(x, b)
    PROVE  RedeemInv'
<1>0. PICK a \in Art : a = exchange[x].art
  BY ArtifactRecords DEF SaveToken
<1>1. /\ Redeeming(x, a) /\ artifact[b].standing = "unborn" /\ artifact[b].model = "none"
      /\ artifact' = [artifact EXCEPT ![b] = NewToken(a)]
      /\ exchange' = [exchange EXCEPT ![x] = NoExchange]
  BY <1>0, ArtifactRecords DEF SaveToken, Redeeming, Fresh, EndExchange
<1>2. NewToken(a).model = "token" /\ NewToken(a).parent = a
  BY DEF NewToken
<1>3. /\ artifact'[b].model = "token" /\ artifact'[b].parent = a
      /\ \A c \in Art \ {b} : artifact'[c] = artifact[c]
  BY <1>1, <1>2, ArtifactRecords
<1>4. /\ exchange'[x].stage = "idle"
      /\ \A y \in Exchange \ {x} : exchange'[y] = exchange[y]
  BY <1>1, ArtifactRecords DEF NoExchange
<1>5. \A c \in Art : Spent(c) => Spent(c)'
  BY <1>1, <1>3 DEF Spent
<1>6. \A c, d \in Art : IssuedFor(c, d)' <=> (IF c = b THEN d = a ELSE IssuedFor(c, d))
  BY <1>3 DEF IssuedFor
<1>7. \A y \in Exchange, d \in Art : Redeeming(y, d)' <=> y # x /\ Redeeming(y, d)
  BY <1>4 DEF Redeeming
<1>8. Spent(a)' /\ (\A c \in Art : ~IssuedFor(c, a)) /\ (\A y \in Exchange : Redeeming(y, a) => y = x)
  BY <1>1, <1>5 DEF RedeemInv
<1>9. QED
  BY <1>5, <1>6, <1>7, <1>8 DEF RedeemInv

LEMMA RedeemStep == StoreInv /\ RedeemInv /\ [Next]_vars => RedeemInv'
<1> SUFFICES ASSUME StoreInv, RedeemInv, [Next]_vars PROVE RedeemInv'
  OBVIOUS
<1>1. ASSUME NEW x \in Exchange, ExchangeNext(x) PROVE RedeemInv'
  <2>1. ASSUME (\E a \in Art : ReadArtifact(x, a)) \/ CheckArtifact(x) \/ LoseExchange(x)
        PROVE  NoRedemption
    <3>1. artifact' = artifact
      BY <2>1 DEF ReadArtifact, CheckArtifact, LoseExchange, StoresUnchanged, artifactVars
    <3>2. \A y \in Exchange : exchange'[y].stage = "saving" => exchange'[y] = exchange[y]
      BY <2>1, ArtifactRecords
      DEF ReadArtifact, CheckArtifact, LoseExchange, ExchangeGoes, EndExchange, NoExchange
    <3>3. QED
      BY <3>1, <3>2 DEF NoRedemption, Spent, IssuedFor
  <2>2. QED
    BY <1>1, <2>1, RedeemKept, ConsumeRedeems, SaveRedeems DEF ExchangeNext
<1>2. QED
  BY <1>1, VisitRedeems, OthersRedeem, RedeemKept DEF Next

(* However many requests find one code or refresh token, at most one of    *)
(* them goes on to issue a token for it, and it issues one.                *)
THEOREM RedeemedOnceHolds == Spec => []RedeemedOnce
<1>1. Init => RedeemInv
  BY DEF Init, RedeemInv, Redeeming, IssuedFor, NoExchange, Unborn
<1>2. ASSUME StoreInv, RedeemInv, NEW a \in Art
      PROVE  Cardinality({x \in Exchange : exchange[x] = [stage |-> "saving", art |-> a]}
                           \cup {b \in Tokens : artifact[b].parent = a}) <= 1
  <2> DEFINE holders == {x \in Exchange : exchange[x] = [stage |-> "saving", art |-> a]}
             tokens == {b \in Tokens : artifact[b].parent = a}
  <2>1. \A x \in holders : x \in Exchange /\ Redeeming(x, a)
    BY DEF Redeeming
  <2>2. \A b \in tokens : b \in Art /\ IssuedFor(b, a)
    BY DEF Tokens, IssuedFor
  <2> HIDE DEF holders, tokens
  <2>3. holders \cup tokens = {} \/ \E z : holders \cup tokens = {z}
    BY <1>2, <2>1, <2>2 DEF RedeemInv
  <2>4. Cardinality(holders \cup tokens) = 0 \/ Cardinality(holders \cup tokens) = 1
    BY <2>3, FS_EmptySet, FS_Singleton
  <2>5. Cardinality(holders \cup tokens) <= 1
    BY <2>4
  <2>6. QED
    BY <2>5 DEF holders, tokens
<1>3. StoreInv /\ RedeemInv => RedeemedOnce
  BY <1>2 DEF RedeemedOnce
<1>4. QED
  BY <1>1, <1>3, RedeemStep, StoreSafety, PTL DEF Spec
=============================================================================
