---------------------- MODULE RecoveryArtifactsProofs ----------------------
(***************************************************************************)
(* Proofs about RecoveryArtifacts: for any number of jobs, of overlapping  *)
(* processor runs, of callbacks and of reset forms.  Nothing is assumed of *)
(* the number of jobs; that one of the jobs with a link is the newest of   *)
(* them is part of the invariant, because links are issued one at a time.  *)
(***************************************************************************)
EXTENDS RecoveryArtifacts, FiniteSetTheorems, TLAPS

(* What a form validated was issued.                                       *)
FormInv == \A f \in Form : form[f].stage # "idle" => token[form[f].job] # "none"

(* Of the jobs of a kind that have a link, one is the newest.              *)
NewestExists ==
    \A k \in JobType :
        Artifacts(k) # {} =>
            \E n \in Artifacts(k) : \A m \in Artifacts(k) \ {n} : Newer(n, m)

(* Why a job may stay silent.                                              *)
Cause(j) ==
    \/ everInactive
    \/ j \in bound /\ (~live \/ ~clientActive)
    \/ token[j] \in {"used", "expired"}
    \/ \E k \in Job : kind[k] = kind[j] /\ token[k] # "none" /\ NewerByDate(k, j)

(* A run that returns has mailed its link or has a cause not to; one that  *)
(* resolves an interaction has one.                                        *)
RunAnswers(r) ==
    /\ run[r].stage = "returned" => run[r].job \in mailed \/ Cause(run[r].job)
    /\ run[r].stage = "resolving" => run[r].job \in bound

SilenceInv ==
    /\ ~active => everInactive
    /\ \A r \in Run : RunAnswers(r)
    /\ SilentOnlyForCause

(* A login leaves its link used, and what follows from it is in one place: *)
(* with the callback that committed it, in Redis, or nowhere.              *)
LinkLogin(j) ==
    /\ logins[j] \in {0, 1}
    /\ logins[j] = 1 => token[j] = "used"
    /\ session[j] # {} => logins[j] = 1 /\ \E c \in Callback : session[j] = {c}
    /\ \A c \in Callback :
        callback[c].stage = "committed" /\ callback[c].job = j =>
            /\ logins[j] = 1 /\ session[j] = {}
            /\ \A d \in Callback :
                callback[d].stage = "committed" /\ callback[d].job = j => d = c

LoginInv == \A j \in Job : LinkLogin(j)

ArtifactsInv ==
    /\ TypeOK
    /\ FormInv
    /\ OneLiveLink
    /\ NewestExists
    /\ SilenceInv
    /\ FinishedResetRetiresLink
    /\ LoginInv

-----------------------------------------------------------------------------
(* Types.                                                                  *)

LEMMA IdleTyped == Idle \in [job : Job, stage : {"idle"}] /\ Idle.stage = "idle"
<1>1. (CHOOSE j \in Job : TRUE) \in Job
  BY JobAssumption
<1>2. QED
  BY <1>1 DEF Idle

LEMMA GoToTyped ==
    ASSUME TypeOK, NEW r \in Run, NEW stage \in Stage, GoTo(r, stage)
    PROVE  /\ run' \in [Run -> Flight(Stage)]
           /\ run'[r].stage = stage /\ run'[r].job = run[r].job
           /\ \A s \in Run \ {r} : run'[s] = run[s]
<1> DEFINE n == [run[r] EXCEPT !.stage = stage]
<1>1. run \in [Run -> Flight(Stage)] /\ run[r] \in Flight(Stage)
  BY DEF TypeOK
<1>2. n \in Flight(Stage) /\ n.stage = stage /\ n.job = run[r].job
  BY <1>1 DEF Flight
<1>3. run' = [run EXCEPT ![r] = n]
  BY DEF GoTo
<1> HIDE DEF n
<1>4. QED
  BY <1>1, <1>2, <1>3

LEMMA LeaveTyped ==
    ASSUME TypeOK, NEW r \in Run, Leave(r)
    PROVE  /\ run' \in [Run -> Flight(Stage)] /\ run'[r].stage = "idle"
           /\ \A s \in Run \ {r} : run'[s] = run[s]
<1>1. Idle \in Flight(Stage) /\ Idle.stage = "idle"
  BY IdleTyped DEF Flight, Stage
<1>2. QED
  BY <1>1 DEF Leave, TypeOK

LEMMA InitInv == Init => ArtifactsInv
<1> SUFFICES ASSUME Init PROVE ArtifactsInv
  OBVIOUS
<1> USE DEF Init, LedgerInit
<1>1. /\ Idle \in Flight(Stage) /\ Idle \in Flight({"idle", "presented", "committed"})
      /\ Idle \in Flight({"idle", "validated", "applied"}) /\ Idle.stage = "idle"
  BY IdleTyped DEF Flight, Stage
<1>2. 0 \in 0 .. AttemptLimit /\ 0 \in 0 .. MaxChanges /\ 0 \in 0 .. MaxResets
  BY JobAssumption
<1>3. TypeOK
  BY <1>1, <1>2 DEF TypeOK
<1>4. FormInv /\ OneLiveLink /\ NewestExists /\ FinishedResetRetiresLink
  BY <1>1 DEF FormInv, OneLiveLink, NewestExists, Artifacts, FinishedResetRetiresLink
<1>5. SilenceInv
  BY <1>1 DEF SilenceInv, RunAnswers, SilentOnlyForCause
<1>6. LoginInv
  <2>1. \A j \in Job : logins[j] = 0 /\ session[j] = {}
    OBVIOUS
  <2>2. \A c \in Callback : callback[c].stage = "idle"
    BY <1>1
  <2> HIDE DEF Init, LedgerInit
  <2>3. ASSUME NEW j \in Job PROVE LinkLogin(j)
    BY <2>1, <2>2 DEF LinkLogin
  <2>4. QED
    BY <2>3 DEF LoginInv
<1>7. QED
  BY <1>3, <1>4, <1>5, <1>6 DEF ArtifactsInv

LEMMA SettleTyped ==
    ASSUME TypeOK, NEW j \in Job, Settle(j)
    PROVE  ledger' \in [Job -> {"none", "open", "completed", "terminal_failure"}]
  BY DEF Settle, TypeOK

LEMMA QueueTyped == TypeOK /\ QueueStep => TypeOK'
<1> SUFFICES ASSUME TypeOK, NEW j \in Job,
                    AcceptJob(j) \/ CloseExhausted(j) \/ \E r \in Run : Enter(r, j)
             PROVE  TypeOK'
  BY DEF QueueStep
<1> USE DEF Outside, jobVars, artifactVars, accountVars, authorityVars, magicVars, resetVars,
            WorkerSide
<1>1. CASE AcceptJob(j)
  BY <1>1 DEF AcceptJob, Accept, TypeOK
<1>2. CASE CloseExhausted(j)
  BY <1>2, SettleTyped DEF CloseExhausted, Settle, TypeOK
<1>3. ASSUME NEW r \in Run, Enter(r, j) PROVE TypeOK'
  <2>1. charged[j] + 1 \in 0 .. AttemptLimit
    BY <1>3, JobAssumption DEF Enter, Charge, TypeOK
  <2>2. charged' \in [Job -> 0 .. AttemptLimit] /\ ledger' = ledger
    BY <1>3, <2>1 DEF Enter, Charge, TypeOK
  <2>3. run' \in [Run -> Flight(Stage)]
    BY <1>3 DEF Enter, TypeOK, Flight, Stage
  <2>4. QED
    BY <1>3, <2>2, <2>3 DEF Enter, TypeOK
<1>4. QED
  BY <1>1, <1>2, <1>3

LEMMA TokensTyped ==
    ASSUME TypeOK, NEW j \in Job
    PROVE  TokensAfterIssue(j) \in [Job -> {"none", "live", "used", "expired"}]
  BY DEF TypeOK, TokensAfterIssue

LEMMA ProcessorTyped == TypeOK /\ ProcessorStep => TypeOK'
<1> SUFFICES ASSUME TypeOK, NEW r \in Run,
                    \/ Reject(r) \/ Load(r) \/ Resolve(r) \/ EnsureRecoveryJobToken(r) \/ Send(r)
                    \/ StepThrows(r) \/ FinishReturned(r) \/ FinishFailed(r) \/ Die(r)
             PROVE  TypeOK'
  BY DEF ProcessorStep
<1> DEFINE j == run[r].job
<1>1. j \in Job
  BY DEF TypeOK, Flight
<1>2. /\ UNCHANGED WorkerSide
      /\ run' \in [Run -> Flight(Stage)]
  <2>1. CASE Leave(r)
    BY <2>1, LeaveTyped DEF Leave
  <2>2. CASE Reject(r) \/ Load(r) \/ Resolve(r) \/ EnsureRecoveryJobToken(r)
    BY <2>2, GoToTyped DEF Reject, Load, Resolve, EnsureRecoveryJobToken, Stage
  <2>3. CASE Send(r) \/ StepThrows(r)
    BY <2>3, GoToTyped DEF Send, StepThrows, Stage
  <2>4. QED
    BY <2>1, <2>2, <2>3 DEF FinishReturned, FinishFailed, Die
<1>3. token' \in [Job -> {"none", "live", "used", "expired"}] /\ mailed' \subseteq Job
  <2>1. token' = token \/ token' = TokensAfterIssue(j)
    BY DEF Reject, Load, Resolve, EnsureRecoveryJobToken, Send, StepThrows,
           FinishReturned, FinishFailed, Die, Leave, artifactVars
  <2>2. mailed' = mailed \/ mailed' = mailed \cup {j}
    BY DEF Reject, Load, Resolve, EnsureRecoveryJobToken, Send, StepThrows,
           FinishReturned, FinishFailed, Die, Leave, artifactVars
  <2> HIDE DEF j
  <2>3. QED
    BY <1>1, <2>1, <2>2, TokensTyped DEF TypeOK
<1>4. /\ ledger' \in [Job -> {"none", "open", "completed", "terminal_failure"}]
      /\ charged' = charged
  <2>1. Settle(j) \/ UNCHANGED ledgerVars
    BY DEF Reject, Load, Resolve, EnsureRecoveryJobToken, Send, StepThrows,
           FinishReturned, FinishFailed, Die
  <2> HIDE DEF j
  <2>2. QED
    BY <1>1, <2>1, SettleTyped DEF Settle, ledgerVars, TypeOK
<1>5. QED
  BY <1>2, <1>3, <1>4
  DEF WorkerSide, jobVars, accountVars, authorityVars, magicVars, resetVars, TypeOK

LEMMA AdminTyped == TypeOK /\ AdminStep => TypeOK'
<1> SUFFICES ASSUME TypeOK, AdminStep PROVE TypeOK'
  OBVIOUS
<1> USE DEF jobVars, ledgerVars, artifactVars, accountVars, authorityVars, magicVars, resetVars,
            WorkerSide
<1>1. CASE \E j \in Job : Expire(j)
  BY <1>1 DEF Expire, TypeOK
<1>2. Change => changes' \in 0 .. MaxChanges
  BY JobAssumption DEF Change, TypeOK
<1>3. CASE ChangeStatus
  BY <1>2, <1>3 DEF ChangeStatus, TypeOK
<1>4. CASE EndInteraction \/ RevokeClient
  BY <1>2, <1>4 DEF EndInteraction, RevokeClient, TypeOK
<1>5. QED
  BY <1>1, <1>3, <1>4 DEF AdminStep

(* A request's record as it begins, moves on or ends.                      *)
LEMMA MagicTyped == TypeOK /\ MagicStep => TypeOK'
<1> SUFFICES ASSUME TypeOK, NEW c \in Callback,
                    \/ ConsumeAuthorizedMagicLink(c) \/ CreateMagicLinkSession(c) \/ LoseCallback(c)
                    \/ \E j \in Job : Present(c, j) \/ ConsumeMagicLinkSession(j, c)
             PROVE  TypeOK'
  BY DEF MagicStep
<1> DEFINE CallbackType == Flight({"idle", "presented", "committed"})
<1>1. /\ Idle \in CallbackType /\ callback \in [Callback -> CallbackType]
      /\ callback[c] \in CallbackType /\ callback[c].job \in Job
      /\ [callback[c] EXCEPT !.stage = "committed"] \in CallbackType
  BY IdleTyped DEF TypeOK, Flight
<1>2. UNCHANGED <<RequestSide, resetVars>>
  BY DEF ConsumeAuthorizedMagicLink, CreateMagicLinkSession, LoseCallback, Present,
         ConsumeMagicLinkSession
<1>3. /\ callback' \in [Callback -> CallbackType]
      /\ token' \in [Job -> {"none", "live", "used", "expired"}]
      /\ logins' \in [Job -> Nat] /\ session' \in [Job -> SUBSET Callback]
  <2>1. CASE ConsumeAuthorizedMagicLink(c)
    <3>1. callback' \in [Callback -> CallbackType]
      BY <1>1, <2>1 DEF ConsumeAuthorizedMagicLink
    <3>2. token' \in [Job -> {"none", "live", "used", "expired"}]
      BY <1>1, <2>1 DEF ConsumeAuthorizedMagicLink, TypeOK
    <3>3. logins' \in [Job -> Nat] /\ session' = session
      BY <1>1, <2>1 DEF ConsumeAuthorizedMagicLink, TypeOK
    <3>4. QED
      BY <3>1, <3>2, <3>3 DEF TypeOK
  <2>2. CASE CreateMagicLinkSession(c)
    <3>1. callback' \in [Callback -> CallbackType]
      BY <1>1, <2>2 DEF CreateMagicLinkSession
    <3>2. session' \in [Job -> SUBSET Callback]
      BY <1>1, <2>2 DEF CreateMagicLinkSession, TypeOK
    <3>3. QED
      BY <2>2, <3>1, <3>2 DEF CreateMagicLinkSession, TypeOK
  <2>3. CASE LoseCallback(c)
    <3>1. callback' \in [Callback -> CallbackType]
      BY <1>1, <2>3 DEF LoseCallback
    <3>2. QED
      BY <2>3, <3>1 DEF LoseCallback, TypeOK
  <2>4. ASSUME NEW j \in Job, Present(c, j)
        PROVE  /\ callback' \in [Callback -> CallbackType]
               /\ UNCHANGED <<token, logins, session>>
    <3>1. [job |-> j, stage |-> "presented"] \in CallbackType
      BY DEF Flight
    <3>2. callback' \in [Callback -> CallbackType]
      BY <1>1, <2>4, <3>1 DEF Present
    <3>3. QED
      BY <2>4, <3>2 DEF Present
  <2>5. ASSUME NEW j \in Job, ConsumeMagicLinkSession(j, c)
        PROVE  /\ session' \in [Job -> SUBSET Callback]
               /\ UNCHANGED <<token, logins, callback>>
    BY <2>5 DEF ConsumeMagicLinkSession, TypeOK
  <2> HIDE DEF CallbackType
  <2>6. QED
    BY <1>1, <2>1, <2>2, <2>3, <2>4, <2>5 DEF TypeOK
<1>4. QED
  BY <1>2, <1>3
  DEF RequestSide, jobVars, ledgerVars, accountVars, authorityVars, resetVars, TypeOK

LEMMA ResetTyped == TypeOK /\ ResetStep => TypeOK'
<1> SUFFICES ASSUME TypeOK, NEW f \in Form,
                    \/ SetUserPassword(f) \/ MarkTokenUsed(f) \/ LoseForm(f)
                    \/ \E j \in Job : ValidateReset(f, j)
             PROVE  TypeOK'
  BY DEF ResetStep
<1> DEFINE FormType == Flight({"idle", "validated", "applied"})
<1>1. /\ Idle \in FormType /\ form \in [Form -> FormType]
      /\ form[f] \in FormType /\ form[f].job \in Job
      /\ [form[f] EXCEPT !.stage = "applied"] \in FormType
  BY IdleTyped DEF TypeOK, Flight
<1>2. UNCHANGED <<RequestSide, magicVars>>
  BY DEF SetUserPassword, MarkTokenUsed, LoseForm, ValidateReset
<1>3. /\ form' \in [Form -> FormType]
      /\ token' \in [Job -> {"none", "live", "used", "expired"}]
      /\ resets' \in [Job -> 0 .. MaxResets] /\ retired' \subseteq Job
  <2>1. CASE SetUserPassword(f)
    <3>1. resets[form[f].job] + 1 \in 0 .. MaxResets
      BY <1>1, <2>1, JobAssumption DEF SetUserPassword, TypeOK
    <3>2. resets' \in [Job -> 0 .. MaxResets]
      BY <2>1, <3>1 DEF SetUserPassword, TypeOK
    <3>3. form' \in [Form -> FormType]
      <4> DEFINE n == [form[f] EXCEPT !.stage = "applied"]
      <4>1. form' = [form EXCEPT ![f] = n]
        BY <2>1 DEF SetUserPassword
      <4> HIDE DEF n, FormType
      <4>2. n \in FormType
        BY <1>1 DEF n
      <4>3. QED
        BY <1>1, <4>1, <4>2
    <3>4. QED
      BY <2>1, <3>2, <3>3 DEF SetUserPassword, TypeOK
  <2>2. CASE MarkTokenUsed(f)
    <3>1. form' \in [Form -> FormType]
      BY <1>1, <2>2 DEF MarkTokenUsed
    <3>2. token' \in [Job -> {"none", "live", "used", "expired"}] /\ retired' \subseteq Job
      BY <1>1, <2>2 DEF MarkTokenUsed, TypeOK
    <3>3. QED
      BY <2>2, <3>1, <3>2 DEF MarkTokenUsed, TypeOK
  <2>3. CASE LoseForm(f)
    <3>1. form' \in [Form -> FormType]
      BY <1>1, <2>3 DEF LoseForm
    <3>2. QED
      BY <2>3, <3>1 DEF LoseForm, TypeOK
  <2>4. ASSUME NEW j \in Job, ValidateReset(f, j)
        PROVE  /\ form' \in [Form -> FormType]
               /\ UNCHANGED <<token, resets, retired>>
    <3>1. [job |-> j, stage |-> "validated"] \in FormType
      BY DEF Flight
    <3>2. form' \in [Form -> FormType]
      BY <1>1, <2>4, <3>1 DEF ValidateReset
    <3>3. QED
      BY <2>4, <3>2 DEF ValidateReset
  <2> HIDE DEF FormType
  <2>5. QED
    BY <2>1, <2>2, <2>3, <2>4 DEF TypeOK
<1>4. QED
  BY <1>2, <1>3
  DEF RequestSide, jobVars, ledgerVars, accountVars, authorityVars, magicVars, TypeOK

LEMMA TypeStep == TypeOK /\ [Next]_vars => TypeOK'
<1>1. TypeOK /\ UNCHANGED vars => TypeOK'
  BY DEF vars, jobVars, ledgerVars, artifactVars, accountVars, authorityVars, magicVars,
         resetVars, TypeOK
<1>2. QED
  BY <1>1, QueueTyped, ProcessorTyped, AdminTyped, MagicTyped, ResetTyped DEF Next

(* Each job's row, link, run, request and form keep their types.           *)
THEOREM ArtifactsTypeCorrect == Spec => []TypeOK
<1>1. Init => TypeOK
  BY InitInv DEF ArtifactsInv
<1>2. QED
  BY <1>1, TypeStep, PTL DEF Spec

-----------------------------------------------------------------------------
(* What a step may do to the links.                                        *)

(* No link revives, and at most one is issued, to a job that had none, in  *)
(* place of the usable link of its kind, while no newer job has one.       *)
TokenStep ==
    /\ kind' = kind
    /\ \A j \in Job :
        /\ token[j] = "used" => token'[j] = "used"
        /\ token[j] = "expired" => token'[j] \in {"used", "expired"}
        /\ token[j] # "none" => token'[j] # "none"
    /\ \/ \A j \in Job :
            /\ token[j] = "none" => token'[j] = "none"
            /\ token'[j] = "live" => token[j] = "live"
       \/ \E j \in Job :
            /\ token[j] = "none" /\ token'[j] = "live"
            /\ ~NewerArtifactExists(j)
            /\ \A k \in Job \ {j} :
                /\ token[k] = "none" => token'[k] = "none"
                /\ token'[k] = "live" => token[k] = "live" /\ kind[k] # kind[j]

LEMMA IssueStep ==
    ASSUME TypeOK, NEW j \in Job, token' = TokensAfterIssue(j), kind' = kind
    PROVE  TokenStep
<1>1. CASE Superseded(j) \/ token[j] = "live"
  BY <1>1 DEF TokensAfterIssue, TokenStep
<1>2. CASE ~Superseded(j) /\ token[j] # "live"
  <2>1. token[j] = "none" /\ ~NewerArtifactExists(j)
    BY <1>2 DEF Superseded, TypeOK
  <2>2. \A k \in Job :
          token'[k] = IF k = j THEN "live"
                      ELSE IF kind[k] = kind[j] /\ token[k] = "live" THEN "used"
                      ELSE token[k]
    BY <1>2 DEF TokensAfterIssue
  <2>3. QED
    BY <2>1, <2>2 DEF TokenStep
<1>3. QED
  BY <1>1, <1>2

LEMMA UsedStep ==
    ASSUME TypeOK, NEW j \in Job, token[j] # "none" \/ token[j] = "live",
           token' = [token EXCEPT ![j] = "used"], kind' = kind
    PROVE  TokenStep
  BY DEF TokenStep, TypeOK

LEMMA SameTokens ==
    ASSUME token' = token, kind' = kind
    PROVE  TokenStep
  BY DEF TokenStep

LEMMA LinksStep ==
    ASSUME TypeOK, FormInv, [Next]_vars
    PROVE  TokenStep
<1> USE DEF jobVars, WorkerSide, RequestSide
<1>1. CASE QueueStep
  BY <1>1, SameTokens DEF QueueStep, AcceptJob, CloseExhausted, Enter, Outside, artifactVars
<1>2. ASSUME NEW r \in Run,
             \/ Reject(r) \/ Load(r) \/ Resolve(r) \/ EnsureRecoveryJobToken(r) \/ Send(r)
             \/ StepThrows(r) \/ FinishReturned(r) \/ FinishFailed(r) \/ Die(r)
      PROVE  TokenStep
  <2>1. run[r].job \in Job
    BY DEF TypeOK, Flight
  <2>2. kind' = kind /\ (token' = token \/ token' = TokensAfterIssue(run[r].job))
    BY <1>2 DEF Reject, Load, Resolve, EnsureRecoveryJobToken, Send, StepThrows, FinishReturned,
                FinishFailed, Die, Leave, artifactVars
  <2>3. QED
    BY <2>1, <2>2, IssueStep, SameTokens
<1>3. CASE AdminStep
  <2>1. ASSUME NEW j \in Job, Expire(j) PROVE TokenStep
    BY <2>1 DEF Expire, TokenStep, TypeOK
  <2>2. CASE ChangeStatus \/ EndInteraction \/ RevokeClient
    BY <2>2, SameTokens DEF ChangeStatus, EndInteraction, RevokeClient, artifactVars
  <2>3. QED
    BY <1>3, <2>1, <2>2 DEF AdminStep
<1>4. ASSUME NEW c \in Callback, ConsumeAuthorizedMagicLink(c) PROVE TokenStep
  <2>1. callback[c].job \in Job /\ kind' = kind
    BY <1>4 DEF TypeOK, Flight, ConsumeAuthorizedMagicLink
  <2>2. \/ token' = token
        \/ /\ token[callback[c].job] = "live"
           /\ token' = [token EXCEPT ![callback[c].job] = "used"]
    BY <1>4 DEF ConsumeAuthorizedMagicLink
  <2>3. QED
    BY <2>1, <2>2, UsedStep, SameTokens
<1>5. ASSUME NEW c \in Callback,
             \/ CreateMagicLinkSession(c) \/ LoseCallback(c)
             \/ \E j \in Job : Present(c, j) \/ ConsumeMagicLinkSession(j, c)
      PROVE  TokenStep
  BY <1>5, SameTokens
  DEF CreateMagicLinkSession, LoseCallback, Present, ConsumeMagicLinkSession
<1>6. ASSUME NEW f \in Form, MarkTokenUsed(f) PROVE TokenStep
  <2>1. form[f].job \in Job /\ token[form[f].job] # "none" /\ kind' = kind
    BY <1>6 DEF TypeOK, Flight, MarkTokenUsed, FormInv
  <2>2. QED
    BY <1>6, <2>1, UsedStep DEF MarkTokenUsed
<1>7. ASSUME NEW f \in Form,
             SetUserPassword(f) \/ LoseForm(f) \/ \E j \in Job : ValidateReset(f, j)
      PROVE  TokenStep
  BY <1>7, SameTokens DEF SetUserPassword, LoseForm, ValidateReset
<1>8. CASE UNCHANGED vars
  BY <1>8, SameTokens DEF vars, artifactVars
<1>9. QED
  BY <1>1, <1>2, <1>3, <1>4, <1>5, <1>6, <1>7, <1>8 DEF Next, ProcessorStep, MagicStep, ResetStep
LEMMA OneLiveLinkStep ==
    ASSUME TypeOK, OneLiveLink, TokenStep
    PROVE  OneLiveLink'
  BY DEF OneLiveLink, TokenStep

LEMMA FormStep ==
    ASSUME TypeOK, FormInv, FinishedResetRetiresLink, TokenStep, [Next]_vars
    PROVE  FormInv' /\ FinishedResetRetiresLink'
<1>1. \A j \in Job :
        /\ token[j] # "none" => token'[j] # "none"
        /\ token[j] = "used" => token'[j] = "used"
  BY DEF TokenStep
<1>2. \A f \in Form : form[f].job \in Job
  BY DEF TypeOK, Flight
<1>3. CASE UNCHANGED resetVars
  BY <1>1, <1>2, <1>3 DEF resetVars, FormInv, FinishedResetRetiresLink, TypeOK
<1>4. ASSUME NEW f \in Form, NEW j \in Job, ValidateReset(f, j)
      PROVE  FormInv' /\ FinishedResetRetiresLink'
  <2>1. token[j] = "live" /\ token' = token /\ retired' = retired
    BY <1>4 DEF ValidateReset
  <2>2. ASSUME NEW g \in Form PROVE form'[g] = form[g] \/ form'[g].job = j
    BY <1>4 DEF ValidateReset, TypeOK
  <2>3. FormInv'
    BY <2>1, <2>2 DEF FormInv
  <2>4. QED
    BY <2>1, <2>3 DEF FinishedResetRetiresLink
<1>5. ASSUME NEW f \in Form, SetUserPassword(f)
      PROVE  FormInv' /\ FinishedResetRetiresLink'
  <2>1. token' = token /\ retired' = retired /\ form[f].stage = "validated"
    BY <1>5 DEF SetUserPassword
  <2>2. ASSUME NEW g \in Form
        PROVE  form'[g] = form[g] \/ (g = f /\ form'[g].job = form[f].job)
    <3>1. form \in [Form -> Flight({"idle", "validated", "applied"})]
          /\ form[f] \in Flight({"idle", "validated", "applied"})
      BY DEF TypeOK
    <3>2. QED
      BY <1>5, <3>1 DEF SetUserPassword, Flight
  <2>3. FormInv'
    BY <2>1, <2>2 DEF FormInv
  <2>4. QED
    BY <2>1, <2>3 DEF FinishedResetRetiresLink
<1>6. ASSUME NEW f \in Form, MarkTokenUsed(f) \/ LoseForm(f)
      PROVE  FormInv' /\ FinishedResetRetiresLink'
  <2>1. /\ form' = [form EXCEPT ![f] = Idle]
        /\ \/ retired' = retired
           \/ /\ token' = [token EXCEPT ![form[f].job] = "used"]
              /\ retired' = retired \cup {form[f].job}
    BY <1>6 DEF MarkTokenUsed, LoseForm
  <2>2. \A g \in Form : form'[g] = form[g] \/ form'[g].stage = "idle"
    BY <2>1, IdleTyped DEF TypeOK
  <2>3. FormInv'
    BY <1>1, <1>2, <2>2 DEF FormInv
  <2>4. \A j \in retired' : j \in retired \/ token'[j] = "used"
    BY <1>2, <2>1 DEF TypeOK
  <2>5. QED
    BY <1>1, <2>3, <2>4 DEF FinishedResetRetiresLink, TypeOK
<1>7. UNCHANGED resetVars \/ ResetStep
  BY DEF Next, vars, QueueStep, ProcessorStep, AdminStep, MagicStep, AcceptJob, CloseExhausted,
         Outside, Enter, Reject, Load, Resolve, EnsureRecoveryJobToken, Send, StepThrows,
         FinishReturned, FinishFailed, Die, Leave, WorkerSide, Expire, ChangeStatus, EndInteraction,
         RevokeClient, ConsumeAuthorizedMagicLink, CreateMagicLinkSession, LoseCallback,
         Present, ConsumeMagicLinkSession
<1>8. QED
  BY <1>3, <1>4, <1>5, <1>6, <1>7 DEF ResetStep

-----------------------------------------------------------------------------
(* The order of jobs.                                                      *)

LEMMA NewerOrder ==
    /\ \A j, k \in Job : j # k => Newer(j, k) \/ Newer(k, j)
    /\ \A j, k, l \in Job : Newer(j, k) /\ Newer(k, l) => Newer(j, l)
    /\ \A j \in Job : ~Newer(j, j)
  BY JobAssumption DEF Newer

LEMMA NewestStep ==
    ASSUME TypeOK, NewestExists, TokenStep
    PROVE  NewestExists'
<1>1. CASE \A j \in Job :
             /\ token[j] = "none" => token'[j] = "none"
             /\ token'[j] = "live" => token[j] = "live"
  <2>1. \A k \in JobType : Artifacts(k)' = Artifacts(k)
    BY <1>1 DEF TokenStep, Artifacts
  <2>2. QED
    BY <2>1 DEF NewestExists, Newer
<1>2. ASSUME NEW j \in Job, token[j] = "none", token'[j] = "live",
             \A k \in Job \ {j} : token[k] = "none" => token'[k] = "none"
      PROVE  NewestExists'
  <2>1. \A k \in JobType :
          Artifacts(k)' = IF k = kind[j] THEN Artifacts(k) \cup {j} ELSE Artifacts(k)
    BY <1>2 DEF TokenStep, Artifacts
  <2>2. ASSUME NEW k \in JobType, Artifacts(k)' # {}
        PROVE  \E n \in Artifacts(k)' : \A m \in Artifacts(k)' \ {n} : Newer(n, m)
    <3>1. Artifacts(k) \subseteq Job
      BY DEF Artifacts
    <3>2. CASE k # kind[j]
      BY <2>1, <2>2, <3>2 DEF NewestExists
    <3>3. CASE k = kind[j] /\ Artifacts(k) = {}
      BY <2>1, <3>3
    <3>4. CASE k = kind[j] /\ Artifacts(k) # {}
      <4>1. PICK n \in Artifacts(k) : \A m \in Artifacts(k) \ {n} : Newer(n, m)
        BY <3>4 DEF NewestExists
      <4>2. n # j /\ n \in Job
        BY <1>2, <3>1 DEF Artifacts
      <4>3. CASE Newer(n, j)
        BY <2>1, <3>4, <4>1, <4>3
      <4>4. CASE Newer(j, n)
        <5>1. \A m \in Artifacts(k) : Newer(j, m)
          BY <3>1, <4>1, <4>2, <4>4, NewerOrder
        <5>2. QED
          BY <2>1, <3>4, <5>1
      <4>5. QED
        BY <4>2, <4>3, <4>4, NewerOrder
    <3>5. QED
      BY <3>2, <3>3, <3>4
  <2>3. QED
    BY <2>2 DEF NewestExists, Newer
<1>3. QED
  BY <1>1, <1>2 DEF TokenStep

(* The comparison by Date agrees with the database's order.                *)
DatesKeepOrder == \A j, k \in Job : Newer(j, k) => NewerByDate(j, k)

LEMMA NewestWinsStep ==
    ASSUME DatesKeepOrder, TypeOK, NewestExists, NewestJobWins, TokenStep
    PROVE  NewestJobWins'
<1> SUFFICES ASSUME NEW j \in Job, NEW k \in Job, kind[j] = kind[k], Newer(k, j),
                    token'[k] # "none", token'[j] = "live"
             PROVE  FALSE
  BY DEF NewestJobWins, Newer, TokenStep
<1>1. ~(token[k] # "none" /\ token[j] = "live")
  BY DEF NewestJobWins
<1>2. PICK i \in Job :
        /\ token[i] = "none" /\ token'[i] = "live"
        /\ ~NewerArtifactExists(i)
        /\ \A m \in Job \ {i} :
            /\ token[m] = "none" => token'[m] = "none"
            /\ token'[m] = "live" => token[m] = "live" /\ kind[m] # kind[i]
  BY <1>1 DEF TokenStep
<1>3. j = i
  BY <1>1, <1>2
<1>4. k # i /\ token[k] # "none" /\ k \in Artifacts(kind[i])
  BY <1>2, <1>3, NewerOrder DEF Artifacts
<1>5. PICK n \in Artifacts(kind[i]) : \A m \in Artifacts(kind[i]) \ {n} : Newer(n, m)
  BY <1>4 DEF NewestExists, TypeOK
<1>6. n \in Job /\ Newer(n, i)
  BY <1>3, <1>4, <1>5, NewerOrder DEF Artifacts
<1>7. NewerByDate(n, i)
  BY <1>6 DEF DatesKeepOrder
<1>8. QED
  BY <1>2, <1>5, <1>7 DEF NewerArtifactExists

(* A Date keeps the order of the timestamps it was made from.              *)
LEMMA MillisMonotone ==
    ASSUME NEW a \in Nat, NEW b \in Nat, NEW m \in Nat \ {0}, a >= b
    PROVE  a \div m \in Int /\ b \div m \in Int /\ a \div m >= b \div m
<1>1. a \div m \in Int /\ b \div m \in Int
  OBVIOUS
<1>2. /\ a = m * (a \div m) + (a % m) /\ a % m \in 0 .. m - 1
      /\ b = m * (b \div m) + (b % m) /\ b % m \in 0 .. m - 1
  OBVIOUS
<1>3. \A x, y \in Int : x + 1 <= y => m * x + m <= m * y
  <2> SUFFICES ASSUME NEW x \in Int, NEW y \in Int, x + 1 <= y PROVE m * x + m <= m * y
    OBVIOUS
  <2>1. PICK d \in Nat : y = x + 1 + d
    OBVIOUS
  <2>2. m * y = m * x + m + m * d
    BY <2>1
  <2>3. m * d >= 0
    OBVIOUS
  <2>4. m * x \in Int /\ m * y \in Int /\ m * d \in Int
    OBVIOUS
  <2>5. QED
    BY <2>2, <2>3, <2>4
<1>4. QED
  <2> SUFFICES ASSUME (a \div m) + 1 <= b \div m PROVE FALSE
    BY <1>1
  <2>1. m * (a \div m) + m <= m * (b \div m)
    BY <1>1, <1>3
  <2>2. m * (a \div m) \in Int /\ m * (b \div m) \in Int /\ a % m \in Int /\ b % m \in Int
    BY <1>1, <1>2
  <2>3. QED
    BY <1>2, <2>1, <2>2

(* Jobs admitted in different milliseconds are compared as their rows are. *)
LEMMA DistinctMillisKeepOrder ==
    ASSUME \A j, k \in Job : j # k => Millis(j) # Millis(k)
    PROVE  DatesKeepOrder
<1> SUFFICES ASSUME NEW j \in Job, NEW k \in Job, Newer(j, k) PROVE NewerByDate(j, k)
  BY DEF DatesKeepOrder
<1>1. CreatedAt[j] \in Nat /\ CreatedAt[k] \in Nat /\ CreatedAt[j] >= CreatedAt[k] /\ j # k
  BY JobAssumption, NewerOrder DEF Newer
<1>2. Millis(j) \in Int /\ Millis(k) \in Int /\ Millis(j) >= Millis(k)
  BY <1>1, MillisMonotone, JobAssumption DEF Millis
<1>3. QED
  BY <1>1, <1>2 DEF NewerByDate

-----------------------------------------------------------------------------
(* Silence.                                                                *)

(* The world only gives more causes, and no mail is taken back.            *)
WorldStep ==
    /\ bound' = bound
    /\ mailed \subseteq mailed'
    /\ everInactive => everInactive'
    /\ ~live => ~live'
    /\ ~clientActive => ~clientActive'
    /\ ~active' => everInactive'

LEMMA CauseKept ==
    ASSUME TypeOK, TokenStep, WorldStep, NEW j \in Job, Cause(j)
    PROVE  Cause(j)'
<1>1. CASE \E k \in Job : kind[k] = kind[j] /\ token[k] # "none" /\ NewerByDate(k, j)
  BY <1>1 DEF TokenStep, Cause, NewerByDate, Millis
<1>2. CASE token[j] \in {"used", "expired"}
  BY <1>2 DEF TokenStep, Cause
<1>3. CASE everInactive \/ (j \in bound /\ (~live \/ ~clientActive))
  BY <1>3 DEF WorldStep, Cause
<1>4. QED
  BY <1>1, <1>2, <1>3 DEF Cause

LEMMA WorldChanges ==
    ASSUME TypeOK, SilenceInv, [Next]_vars
    PROVE  WorldStep
<1> USE DEF jobVars, WorkerSide, RequestSide, accountVars, authorityVars, artifactVars
<1>1. CASE QueueStep
  BY <1>1 DEF QueueStep, AcceptJob, CloseExhausted, Enter, Outside, WorldStep, SilenceInv
<1>2. ASSUME NEW r \in Run,
             \/ Reject(r) \/ Load(r) \/ Resolve(r) \/ EnsureRecoveryJobToken(r) \/ Send(r)
             \/ StepThrows(r) \/ FinishReturned(r) \/ FinishFailed(r) \/ Die(r)
      PROVE  WorldStep
  <2>1. UNCHANGED WorkerSide /\ mailed \subseteq mailed'
    BY <1>2 DEF Reject, Load, Resolve, EnsureRecoveryJobToken, Send, StepThrows, FinishReturned,
                FinishFailed, Die, Leave
  <2>2. QED
    BY <2>1 DEF WorldStep, SilenceInv
<1>3. CASE AdminStep
  <2>1. CASE \E j \in Job : Expire(j)
    BY <2>1 DEF Expire, WorldStep, SilenceInv
  <2>2. CASE ChangeStatus
    BY <2>2 DEF ChangeStatus, WorldStep, SilenceInv, TypeOK
  <2>3. CASE EndInteraction \/ RevokeClient
    BY <2>3 DEF EndInteraction, RevokeClient, WorldStep, SilenceInv
  <2>4. QED
    BY <1>3, <2>1, <2>2, <2>3 DEF AdminStep
<1>4. CASE MagicStep \/ ResetStep
  <2>1. UNCHANGED RequestSide
    BY <1>4 DEF MagicStep, ResetStep, ConsumeAuthorizedMagicLink, CreateMagicLinkSession,
                LoseCallback, Present, ConsumeMagicLinkSession, SetUserPassword, MarkTokenUsed,
                LoseForm, ValidateReset
  <2>2. QED
    BY <2>1 DEF WorldStep, SilenceInv
<1>5. CASE UNCHANGED vars
  BY <1>5 DEF vars, WorldStep, SilenceInv
<1>6. QED
  BY <1>1, <1>2, <1>3, <1>4, <1>5 DEF Next, ProcessorStep

LEMMA RunKept ==
    ASSUME TypeOK, SilenceInv, TokenStep, WorldStep, NEW r \in Run, run'[r] = run[r]
    PROVE  RunAnswers(r)'
<1>1. run[r].job \in Job /\ RunAnswers(r)
  BY DEF TypeOK, Flight, SilenceInv, RunAnswers
<1>2. PICK k \in Job : k = run[r].job
  BY <1>1
<1>3. Cause(k) => Cause(k)'
  BY CauseKept
<1>4. run[r].stage = "returned" => Cause(k)' \/ k \in mailed'
  BY <1>1, <1>2, <1>3 DEF RunAnswers, WorldStep
<1>5. run'[r].job = k /\ Cause(run[r].job)' = Cause(k)'
  BY <1>2 DEF Cause
<1>6. QED
  BY <1>1, <1>2, <1>4, <1>5 DEF RunAnswers, WorldStep

LEMMA ReturnStep ==
    ASSUME TypeOK, SilenceInv, TokenStep, WorldStep, ProcessorStep
    PROVE  \A r \in Run : RunAnswers(r)'
<1>1. PICK s \in Run :
        \/ Reject(s) \/ Load(s) \/ Resolve(s) \/ EnsureRecoveryJobToken(s) \/ Send(s)
        \/ StepThrows(s) \/ FinishReturned(s) \/ FinishFailed(s) \/ Die(s)
  BY DEF ProcessorStep
<1>2. PICK j \in Job : j = run[s].job
  BY DEF TypeOK, Flight
<1>3. \A r \in Run : run'[r] = run[r] => RunAnswers(r)'
  BY RunKept
<1>4. ASSUME NEW stage \in Stage, GoTo(s, stage),
             stage = "returned" => j \in mailed' \/ Cause(j),
             stage = "resolving" => j \in bound
      PROVE  \A r \in Run : RunAnswers(r)'
  <2>1. /\ run'[s].stage = stage /\ run'[s].job = j
        /\ \A r \in Run \ {s} : run'[r] = run[r]
    BY <1>2, <1>4, GoToTyped
  <2>2. Cause(j) => Cause(j)'
    BY CauseKept
  <2>3. Cause(run[s].job)' = Cause(j)'
    BY <2>1 DEF Cause
  <2>4. RunAnswers(s)'
    BY <1>4, <2>1, <2>2, <2>3 DEF RunAnswers, WorldStep
  <2>5. QED
    BY <1>3, <2>1, <2>4
<1>5. CASE Leave(s)
  <2>1. run'[s].stage = "idle" /\ \A r \in Run \ {s} : run'[r] = run[r]
    BY <1>5, LeaveTyped
  <2>2. RunAnswers(s)'
    BY <2>1 DEF RunAnswers
  <2>3. QED
    BY <1>3, <2>1, <2>2
<1>6. CASE Reject(s) \/ StepThrows(s)
  BY <1>4, <1>6 DEF Reject, StepThrows, Stage
<1>7. CASE Load(s)
  <2>1. PICK stage \in {"returned", "resolving", "issuing"} :
          /\ GoTo(s, stage)
          /\ stage = "returned" => ~active
          /\ stage = "resolving" => j \in bound
    BY <1>2, <1>7 DEF Load
  <2>2. ~active => Cause(j)
    BY DEF SilenceInv, Cause
  <2>3. QED
    BY <1>4, <2>1, <2>2 DEF Stage
<1>8. CASE Resolve(s)
  <2>1. PICK stage \in {"returned", "issuing"} : GoTo(s, stage) /\ (stage = "returned" => ~live)
    BY <1>8 DEF Resolve
  <2>2. ~live => Cause(j)
    BY <1>2, <1>8 DEF Resolve, SilenceInv, RunAnswers, Cause
  <2>3. QED
    BY <1>4, <2>1, <2>2 DEF Stage
<1>9. CASE EnsureRecoveryJobToken(s)
  <2>1. PICK stage \in {"returned", "sending"} :
          GoTo(s, stage) /\ (stage = "returned" => Superseded(j))
    BY <1>2, <1>9 DEF EnsureRecoveryJobToken
  <2>2. ASSUME token[j] = "none", NewerArtifactExists(j) PROVE Cause(j)
    BY <2>2 DEF NewerArtifactExists, Artifacts, Cause
  <2>3. Superseded(j) => Cause(j)
    BY <2>2 DEF Superseded, Cause
  <2>4. QED
    BY <1>4, <2>1, <2>3 DEF Stage
<1>10. CASE Send(s)
  BY <1>2, <1>4, <1>10 DEF Send, Stage
<1>11. QED
  BY <1>1, <1>5, <1>6, <1>7, <1>8, <1>9, <1>10 DEF FinishReturned, FinishFailed, Die

(* What closes a job as completed is a run that returned from it.          *)
LEMMA CompletedStep ==
    ASSUME TypeOK, [Next]_vars, NEW j \in Job, ledger'[j] = "completed", ledger[j] # "completed"
    PROVE  \E r \in Run : run[r].stage = "returned" /\ run[r].job = j
<1>1. CASE QueueStep
  <2>1. ASSUME NEW k \in Job, Settle(k), ledger'[k] = "terminal_failure" PROVE FALSE
    BY <2>1 DEF Settle, TypeOK
  <2>2. QED
    BY <1>1, <2>1 DEF QueueStep, AcceptJob, Accept, CloseExhausted, Enter, Charge, TypeOK
<1>2. ASSUME NEW r \in Run,
             \/ Reject(r) \/ Load(r) \/ Resolve(r) \/ EnsureRecoveryJobToken(r) \/ Send(r)
             \/ StepThrows(r) \/ FinishReturned(r) \/ FinishFailed(r) \/ Die(r)
      PROVE  run[r].stage = "returned" /\ run[r].job = j
  <2>1. run[r].job \in Job
    BY DEF TypeOK, Flight
  <2>2. ASSUME Settle(run[r].job)
        PROVE  j = run[r].job
    BY <2>1, <2>2 DEF Settle, TypeOK
  <2>3. CASE FinishReturned(r)
    BY <2>2, <2>3 DEF FinishReturned, ledgerVars
  <2>4. CASE FinishFailed(r)
    BY <2>2, <2>4 DEF FinishFailed, ledgerVars
  <2>5. CASE ~FinishReturned(r) /\ ~FinishFailed(r)
    BY <1>2, <2>5 DEF Reject, Load, Resolve, EnsureRecoveryJobToken, Send,
                StepThrows, Die, ledgerVars
  <2>6. QED
    BY <2>3, <2>4, <2>5
<1>3. CASE AdminStep \/ MagicStep \/ ResetStep \/ UNCHANGED vars
  BY <1>3 DEF AdminStep, MagicStep, ResetStep, vars, ledgerVars, RequestSide, Expire,
              ChangeStatus, EndInteraction, RevokeClient, ConsumeAuthorizedMagicLink,
              CreateMagicLinkSession, LoseCallback, Present, ConsumeMagicLinkSession,
              SetUserPassword, MarkTokenUsed, LoseForm, ValidateReset
<1>4. QED
  BY <1>1, <1>2, <1>3 DEF Next, ProcessorStep

LEMMA SilenceStep ==
    ASSUME TypeOK, SilenceInv, TokenStep, WorldStep, [Next]_vars
    PROVE  SilenceInv'
<1>1. \A r \in Run : run[r].job \in Job
  BY DEF TypeOK, Flight
<1>2. ASSUME NEW j \in Job, ledger'[j] = "completed", j \notin mailed'
      PROVE  Cause(j)'
  <2>1. j \notin mailed
    BY <1>2 DEF WorldStep
  <2>2. CASE ledger[j] = "completed"
    BY <2>1, <2>2, CauseKept DEF SilenceInv, SilentOnlyForCause, Cause
  <2>3. CASE ledger[j] # "completed"
    <3>1. Cause(j)
      BY <1>2, <2>1, <2>3, CompletedStep DEF SilenceInv, RunAnswers
    <3>2. QED
      BY <3>1, CauseKept
  <2>4. QED
    BY <2>2, <2>3
<1>3. SilentOnlyForCause'
  BY <1>2 DEF SilentOnlyForCause, Cause
<1>4. \A r \in Run : RunAnswers(r)'
  <2>1. CASE ProcessorStep
    BY <2>1, ReturnStep
  <2>2. CASE QueueStep
    <3>1. ASSUME NEW r \in Run PROVE run'[r] = run[r] \/ run'[r].stage = "loading"
      BY <2>2 DEF QueueStep, AcceptJob, CloseExhausted, Enter, Outside, TypeOK
    <3>2. ASSUME NEW r \in Run, run'[r] = run[r] PROVE RunAnswers(r)'
      BY <1>1, <3>2, RunKept
    <3>3. QED
      BY <3>1, <3>2 DEF RunAnswers
  <2>3. CASE AdminStep \/ MagicStep \/ ResetStep \/ UNCHANGED vars
    <3>1. run' = run
      BY <2>3 DEF AdminStep, MagicStep, ResetStep, vars, RequestSide, Expire,
                  ChangeStatus, EndInteraction, RevokeClient, ConsumeAuthorizedMagicLink,
                  CreateMagicLinkSession, LoseCallback, Present, ConsumeMagicLinkSession,
                  SetUserPassword, MarkTokenUsed, LoseForm, ValidateReset
    <3>2. QED
      BY <3>1, RunKept
  <2>4. QED
    BY <2>1, <2>2, <2>3 DEF Next
<1>5. QED
  BY <1>3, <1>4 DEF SilenceInv, RunAnswers, WorldStep
-----------------------------------------------------------------------------
(* Logins.                                                                 *)

LEMMA CallbackTyped ==
    ASSUME TypeOK, NEW c \in Callback
    PROVE  /\ callback[c] \in Flight({"idle", "presented", "committed"})
           /\ callback[c].job \in Job
           /\ callback \in [Callback -> Flight({"idle", "presented", "committed"})]
  BY DEF TypeOK, Flight

(* A step that starts no login and moves no continuation.                  *)
LEMMA LoginKept ==
    ASSUME TypeOK, LoginInv, TokenStep, UNCHANGED <<logins, session>>,
           \A c \in Callback :
              callback'[c].stage = "committed" => callback'[c] = callback[c]
    PROVE  LoginInv'
  BY DEF LoginInv, LinkLogin, TokenStep

(* The link was usable, so it had brought no login yet.                    *)
LEMMA ConsumeStep ==
    ASSUME TypeOK, LoginInv, TokenStep, NEW c \in Callback, ConsumeAuthorizedMagicLink(c)
    PROVE  LoginInv'
<1>0. PICK j \in Job : j = callback[c].job
  BY CallbackTyped
<1>1. /\ callback[c].stage = "presented" /\ session' = session
  BY DEF ConsumeAuthorizedMagicLink
<1>2. \A d \in Callback \ {c} : callback'[d] = callback[d]
  BY CallbackTyped DEF ConsumeAuthorizedMagicLink
<1>3. callback'[c].stage = "committed" =>
        callback'[c].job = j /\ logins'[j] = logins[j] + 1 /\ token[j] = "live" /\ token'[j] = "used"
  <2>1. \/ callback'[c] = Idle
        \/ /\ callback'[c] = [callback[c] EXCEPT !.stage = "committed"]
           /\ token[j] = "live"
           /\ logins' = [logins EXCEPT ![j] = @ + 1]
           /\ token' = [token EXCEPT ![j] = "used"]
    BY <1>0, CallbackTyped DEF ConsumeAuthorizedMagicLink
  <2>2. [callback[c] EXCEPT !.stage = "committed"].job = j
    BY <1>0, CallbackTyped DEF Flight
  <2>3. CASE callback'[c] = Idle
    BY <2>3, IdleTyped
  <2>4. CASE callback'[c] = [callback[c] EXCEPT !.stage = "committed"]
    BY <2>1, <2>2, <2>4, IdleTyped DEF TypeOK
  <2>5. QED
    BY <2>1, <2>3, <2>4
<1>4. \/ logins' = logins
      \/ /\ logins' = [logins EXCEPT ![j] = @ + 1]
         /\ token[j] = "live" /\ token'[j] = "used"
  BY <1>0, <1>1 DEF ConsumeAuthorizedMagicLink, TypeOK
<1>5. callback'[c].stage # "committed" \/ logins' # logins
  <2>1. logins[j] \in Nat
    BY DEF TypeOK
  <2>2. QED
    BY <1>3, <2>1
<1>6. CASE logins' = logins
  <2>1. \A d \in Callback : callback'[d].stage = "committed" => callback'[d] = callback[d]
    BY <1>2, <1>5, <1>6
  <2>2. QED
    BY <1>1, <1>6, <2>1, LoginKept
<1>7. CASE logins' = [logins EXCEPT ![j] = @ + 1] /\ token[j] = "live" /\ token'[j] = "used"
  <2>1. LinkLogin(j)
    BY <1>1 DEF LoginInv
  <2>2. /\ logins[j] = 0 /\ session[j] = {}
        /\ \A d \in Callback : ~(callback[d].stage = "committed" /\ callback[d].job = j)
    BY <1>7, <2>1 DEF LinkLogin
  <2>3. logins'[j] = 1 /\ \A k \in Job \ {j} : logins'[k] = logins[k]
    BY <1>1, <1>7, <2>2 DEF TypeOK
  <2>4. LinkLogin(j)'
    BY <1>1, <1>2, <1>3, <1>7, <2>2, <2>3 DEF LinkLogin
  <2>5. ASSUME NEW k \in Job \ {j} PROVE LinkLogin(k)'
    <3>1. \A d \in Callback :
            callback'[d].stage = "committed" /\ callback'[d].job = k =>
              callback[d].stage = "committed" /\ callback[d].job = k
      BY <1>2, <1>3, <2>5
    <3>2. LinkLogin(k)
      BY DEF LoginInv
    <3>3. QED
      BY <1>1, <2>3, <2>5, <3>1, <3>2 DEF LinkLogin, TokenStep
  <2>6. QED
    BY <2>4, <2>5 DEF LoginInv
<1>8. QED
  BY <1>4, <1>6, <1>7

(* The callback hands its login over to Redis.                             *)
LEMMA ContinueStep ==
    ASSUME TypeOK, LoginInv, TokenStep, NEW c \in Callback, CreateMagicLinkSession(c)
    PROVE  LoginInv'
<1>0. PICK j \in Job : j = callback[c].job
  BY CallbackTyped
<1>1. /\ callback[c].stage = "committed" /\ callback[c].job = j /\ logins' = logins
      /\ session'[j] = session[j] \cup {c}
      /\ \A k \in Job \ {j} : session'[k] = session[k]
  BY <1>0 DEF CreateMagicLinkSession, TypeOK
<1>2. /\ callback'[c].stage = "idle"
      /\ \A d \in Callback \ {c} : callback'[d] = callback[d]
  BY CallbackTyped, IdleTyped DEF CreateMagicLinkSession
<1>3. LinkLogin(j)'
  <2>1. /\ logins[j] = 1 /\ session[j] = {}
        /\ \A d \in Callback : callback[d].stage = "committed" /\ callback[d].job = j => d = c
    BY <1>1 DEF LoginInv, LinkLogin
  <2>2. session'[j] = {c}
    BY <1>1, <2>1
  <2>3. \A d \in Callback : ~(callback'[d].stage = "committed" /\ callback'[d].job = j)
    BY <1>2, <2>1
  <2>4. logins'[j] = 1 /\ token'[j] = "used"
    BY <1>1, <2>1 DEF LoginInv, LinkLogin, TokenStep
  <2>5. QED
    BY <2>2, <2>3, <2>4 DEF LinkLogin
<1>4. ASSUME NEW k \in Job \ {j} PROVE LinkLogin(k)'
  <2>1. LinkLogin(k)
    BY DEF LoginInv
  <2>2. \A d \in Callback : callback'[d].stage = "committed" => callback'[d] = callback[d]
    BY <1>2
  <2>3. QED
    BY <1>1, <1>4, <2>1, <2>2 DEF LinkLogin, TokenStep
<1>5. QED
  BY <1>3, <1>4 DEF LoginInv

LEMMA TakeStep ==
    ASSUME TypeOK, LoginInv, TokenStep, NEW c \in Callback, NEW j \in Job,
           ConsumeMagicLinkSession(j, c)
    PROVE  LoginInv'
<1>1. /\ c \in session[j] /\ UNCHANGED <<callback, logins>>
      /\ session'[j] = session[j] \ {c}
      /\ \A k \in Job \ {j} : session'[k] = session[k]
  BY DEF ConsumeMagicLinkSession, TypeOK
<1>2. LinkLogin(j)'
  <2>1. LinkLogin(j) /\ logins[j] = 1
    BY <1>1 DEF LoginInv, LinkLogin
  <2>2. session'[j] = {}
    BY <1>1, <2>1 DEF LinkLogin
  <2>3. QED
    BY <1>1, <2>1, <2>2 DEF LinkLogin, TokenStep
<1>3. ASSUME NEW k \in Job \ {j} PROVE LinkLogin(k)'
  BY <1>1, <1>3 DEF LoginInv, LinkLogin, TokenStep
<1>4. QED
  BY <1>2, <1>3 DEF LoginInv

LEMMA LoginStep ==
    ASSUME TypeOK, LoginInv, TokenStep, [Next]_vars
    PROVE  LoginInv'
<1>1. ASSUME NEW c \in Callback, NEW j \in Job, Present(c, j) PROVE LoginInv'
  <2>1. UNCHANGED <<logins, session>>
    BY <1>1 DEF Present
  <2>2. \A d \in Callback : callback'[d].stage = "committed" => callback'[d] = callback[d]
    BY <1>1, CallbackTyped DEF Present
  <2>3. QED
    BY <2>1, <2>2, LoginKept
<1>2. ASSUME NEW c \in Callback, LoseCallback(c) PROVE LoginInv'
  <2>1. UNCHANGED <<logins, session>>
    BY <1>2 DEF LoseCallback
  <2>2. \A d \in Callback : callback'[d].stage = "committed" => callback'[d] = callback[d]
    BY <1>2, CallbackTyped, IdleTyped DEF LoseCallback
  <2>3. QED
    BY <2>1, <2>2, LoginKept
<1>3. CASE QueueStep \/ ProcessorStep \/ AdminStep \/ ResetStep \/ UNCHANGED vars
  <2>1. UNCHANGED magicVars
    BY <1>3 DEF vars, QueueStep, ProcessorStep, AdminStep, ResetStep, AcceptJob, CloseExhausted,
         Outside, Enter, Reject, Load, Resolve, EnsureRecoveryJobToken, Send, StepThrows,
         FinishReturned, FinishFailed, Die, Leave, WorkerSide, Expire, ChangeStatus, EndInteraction,
         RevokeClient, ValidateReset, SetUserPassword, MarkTokenUsed, LoseForm
  <2>2. QED
    BY <2>1, LoginKept DEF magicVars
<1>4. QED
  BY <1>1, <1>2, <1>3, ConsumeStep, ContinueStep, TakeStep DEF Next, MagicStep

-----------------------------------------------------------------------------
(* The invariant and what it says.                                         *)

LEMMA ArtifactsStep == ArtifactsInv /\ [Next]_vars => ArtifactsInv'
<1> SUFFICES ASSUME ArtifactsInv, [Next]_vars PROVE ArtifactsInv'
  OBVIOUS
<1> USE DEF ArtifactsInv
<1>1. TypeOK'
  BY TypeStep
<1>2. TokenStep
  BY LinksStep
<1>3. WorldStep
  BY WorldChanges
<1>4. QED
  BY <1>1, <1>2, <1>3, FormStep, OneLiveLinkStep, NewestStep, SilenceStep, LoginStep

LEMMA ArtifactsInvariant == Spec => []ArtifactsInv
  BY InitInv, ArtifactsStep, PTL DEF Spec

(* Whatever runs overlap, fail or are retried, an account has one usable   *)
(* link of a kind at most (token-repository.ts:357-407).                   *)
THEOREM OneLiveLinkHolds == Spec => []OneLiveLink
  BY ArtifactsInvariant, PTL DEF ArtifactsInv

(* While a newer job has a link no older one has a usable link, as long as *)
(* the jobs' Dates are ordered as their rows are: what the comparison in   *)
(* ensureRecoveryJobToken loses is all that is lost.                       *)
THEOREM NewestJobWinsHolds == DatesKeepOrder => (Spec => []NewestJobWins)
<1>1. ASSUME DatesKeepOrder PROVE Spec => []NewestJobWins
  <2>1. Init => NewestJobWins
    BY DEF Init, NewestJobWins
  <2>2. ArtifactsInv /\ NewestJobWins /\ [Next]_vars => NewestJobWins'
    BY <1>1, LinksStep, NewestWinsStep DEF ArtifactsInv
  <2>3. QED
    BY <2>1, <2>2, ArtifactsInvariant, PTL DEF Spec
<1>2. QED
  BY <1>1

(* A link that is spent stays spent, and a job never gets a second one.    *)
THEOREM LinksNeverReviveHolds == Spec => LinksNeverRevive
<1>1. ArtifactsInv /\ [Next]_vars =>
        [\A j \in Job : token[j] \in {"used", "expired"} => token'[j] \in {"used", token[j]}]_vars
  BY LinksStep DEF ArtifactsInv, TokenStep
<1>2. QED
  BY <1>1, ArtifactsInvariant, PTL DEF Spec, LinksNeverRevive

(* A job completed without a mail had a reason to stay silent.             *)
THEOREM SilentOnlyForCauseHolds == Spec => []SilentOnlyForCause
  BY ArtifactsInvariant, PTL DEF ArtifactsInv, SilenceInv

(* The link of a reset form that ran to its end is used for good.          *)
THEOREM FinishedResetRetiresLinkHolds == Spec => []FinishedResetRetiresLink
  BY ArtifactsInvariant, PTL DEF ArtifactsInv

(* However many callbacks race, a magic link brings one login at most and  *)
(* leaves one continuation at most.                                        *)
THEOREM OneLoginPerLinkHolds == Spec => []OneLoginPerLink
<1>1. ASSUME LoginInv, NEW j \in Job
      PROVE  logins[j] <= 1 /\ Cardinality(session[j]) <= logins[j]
             /\ (logins[j] > 0 => token[j] = "used")
  <2>1. LinkLogin(j)
    BY <1>1 DEF LoginInv
  <2>2. Cardinality(session[j]) = 0 \/ (Cardinality(session[j]) = 1 /\ logins[j] = 1)
    BY <2>1, FS_EmptySet, FS_Singleton DEF LinkLogin
  <2>3. QED
    BY <2>1, <2>2 DEF LinkLogin
<1>2. LoginInv => OneLoginPerLink
  BY <1>1 DEF OneLoginPerLink
<1>3. QED
  BY <1>2, ArtifactsInvariant, PTL DEF ArtifactsInv

-----------------------------------------------------------------------------
(* The links as one-time artifacts.                                        *)

LEMMA LinksLookAlike ==
    ASSUME \A j \in Job : LinkOwner(j)' = LinkOwner(j) /\ LinkStanding(j)' = LinkStanding(j)
    PROVE  UNCHANGED OneTime!oneTimeVars
  BY DEF OneTime!oneTimeVars

LEMMA LinkCloses ==
    ASSUME NEW j \in Job, LinkStanding(j) = "open", LinkStanding(j)' \in {"redeemed", "void"},
           \A k \in Job : LinkOwner(k)' = LinkOwner(k),
           \A k \in Job \ {j} : LinkStanding(k)' = LinkStanding(k)
    PROVE  OneTime!OneTimeNext
<1>1. PICK how \in {"redeemed", "void"} : LinkStanding(j)' = how
  OBVIOUS
<1>2. [k \in Job |-> LinkStanding(k)]'
        = [[k \in Job |-> LinkStanding(k)] EXCEPT ![j] = how]
  BY <1>1
<1>3. OneTime!Close(j, how)
  BY <1>2 DEF OneTime!Close
<1>4. QED
  BY <1>1, <1>3 DEF OneTime!OneTimeNext, OneTime!Redeem, OneTime!TakeBack

LEMMA LinkIssues ==
    ASSUME NEW j \in Job, NEW k \in JobType, LinkStanding(j) = "unissued", LinkOwner(j)' = k,
           \A i \in Job \ {j} : LinkOwner(i)' = LinkOwner(i),
           \A i \in Job :
              LinkStanding(i)' = IF i = j THEN "open"
                                 ELSE IF LinkOwner(i) = k /\ LinkStanding(i) = "open" THEN "void"
                                 ELSE LinkStanding(i)
    PROVE  OneTime!OneTimeNext
<1>1. [i \in Job |-> LinkOwner(i)]' = [[i \in Job |-> LinkOwner(i)] EXCEPT ![j] = k]
  OBVIOUS
<1>2. OneTime!Issue(j, k)
  BY <1>1 DEF OneTime!Issue
<1>3. QED
  BY <1>2 DEF OneTime!OneTimeNext

(* A link that ends without a login, or is marked again after it ended.    *)
LEMMA LinkSpent ==
    ASSUME TypeOK, LoginInv, NEW j \in Job, kind' = kind, logins' = logins,
           NEW v \in {"used", "expired"}, token' = [token EXCEPT ![j] = v],
           token[j] # "none", v = "expired" => token[j] = "live"
    PROVE  OneTime!OneTimeNext \/ UNCHANGED OneTime!oneTimeVars
<1>1. /\ token[j] # "used" => logins[j] = 0
      /\ token[j] \in {"live", "used", "expired"} /\ token'[j] = v
      /\ \A k \in Job \ {j} : token'[k] = token[k]
      /\ logins[j] \in Nat
  BY DEF TypeOK, LoginInv, LinkLogin
<1>2. \A k \in Job : LinkOwner(k)' = LinkOwner(k)
  BY <1>1 DEF LinkOwner
<1>3. \A k \in Job \ {j} : LinkStanding(k)' = LinkStanding(k)
  BY <1>1 DEF LinkStanding
<1>4. CASE token[j] = "live"
  <2>1. LinkStanding(j) = "open" /\ LinkStanding(j)' = "void"
    BY <1>1, <1>4 DEF LinkStanding
  <2>2. QED
    BY <1>2, <1>3, <2>1, LinkCloses
<1>5. CASE token[j] # "live"
  <2>1. LinkStanding(j)' = LinkStanding(j)
    BY <1>1, <1>5 DEF LinkStanding
  <2>2. QED
    BY <1>2, <1>3, <2>1, LinksLookAlike
<1>6. QED
  BY <1>4, <1>5

LEMMA LinkIssued ==
    ASSUME TypeOK, LoginInv, NEW j \in Job, token' = TokensAfterIssue(j),
           kind' = kind, logins' = logins
    PROVE  OneTime!OneTimeNext \/ UNCHANGED OneTime!oneTimeVars
<1>1. CASE token' = token
  BY <1>1, LinksLookAlike DEF LinkOwner, LinkStanding
<1>2. CASE token' # token
  <2>1. /\ token[j] = "none"
        /\ \A k \in Job :
              token'[k] = IF k = j THEN "live"
                          ELSE IF kind[k] = kind[j] /\ token[k] = "live" THEN "used"
                          ELSE token[k]
    BY <1>2 DEF TokensAfterIssue, Superseded, TypeOK
  <2>2. kind[j] \in JobType /\ \A k \in Job : token[k] = "live" => logins[k] = 0
    BY DEF TypeOK, LoginInv, LinkLogin
  <2>3. LinkStanding(j) = "unissued" /\ LinkOwner(j)' = kind[j]
    BY <2>1 DEF LinkStanding, LinkOwner
  <2>4. \A k \in Job \ {j} : LinkOwner(k)' = LinkOwner(k)
    BY <2>1 DEF LinkOwner
  <2>5. ASSUME NEW k \in Job
        PROVE  LinkStanding(k)' = IF k = j THEN "open"
                                  ELSE IF LinkOwner(k) = kind[j] /\ LinkStanding(k) = "open" THEN "void"
                                  ELSE LinkStanding(k)
    <3>1. CASE k = j
      BY <2>1, <3>1 DEF LinkStanding
    <3>2. CASE k # j /\ token[k] = "live"
      BY <2>1, <2>2, <3>2 DEF LinkStanding, LinkOwner
    <3>3. CASE k # j /\ token[k] # "live"
      BY <2>1, <3>3 DEF LinkStanding
    <3>4. QED
      BY <3>1, <3>2, <3>3
  <2>6. QED
    BY <2>2, <2>3, <2>4, <2>5, LinkIssues
<1>3. QED
  BY <1>1, <1>2

(* A login redeems the link it was made with.                              *)
LEMMA LoginRedeems ==
    ASSUME TypeOK, LoginInv, NEW c \in Callback, ConsumeAuthorizedMagicLink(c)
    PROVE  OneTime!OneTimeNext \/ UNCHANGED OneTime!oneTimeVars
<1>1. PICK j \in Job : j = callback[c].job
  BY DEF TypeOK, Flight
<1>2. kind' = kind
  BY DEF ConsumeAuthorizedMagicLink, RequestSide, jobVars
<1>3. CASE UNCHANGED <<token, logins>>
  BY <1>2, <1>3, LinksLookAlike DEF LinkOwner, LinkStanding
<1>4. CASE /\ token[j] = "live"
           /\ token' = [token EXCEPT ![j] = "used"]
           /\ logins' = [logins EXCEPT ![j] = @ + 1]
  <2>1. /\ token'[j] = "used" /\ logins'[j] > 0
        /\ \A k \in Job \ {j} : token'[k] = token[k] /\ logins'[k] = logins[k]
    BY <1>4 DEF TypeOK
  <2>2. LinkStanding(j) = "open" /\ LinkStanding(j)' = "redeemed"
    BY <1>4, <2>1 DEF LinkStanding
  <2>3. \A k \in Job : LinkOwner(k)' = LinkOwner(k)
    BY <1>2, <1>4, <2>1 DEF LinkOwner
  <2>4. \A k \in Job \ {j} : LinkStanding(k)' = LinkStanding(k)
    BY <2>1 DEF LinkStanding
  <2>5. QED
    BY <2>2, <2>3, <2>4, LinkCloses
<1>5. QED
  BY <1>1, <1>3, <1>4 DEF ConsumeAuthorizedMagicLink

LEMMA LinksRefine ==
    ArtifactsInv /\ [Next]_vars => [OneTime!OneTimeNext]_(OneTime!oneTimeVars)
<1> SUFFICES ASSUME TypeOK, FormInv, LoginInv, [Next]_vars
             PROVE  OneTime!OneTimeNext \/ UNCHANGED OneTime!oneTimeVars
  BY DEF ArtifactsInv
<1> USE DEF jobVars, WorkerSide, RequestSide, magicVars
<1>1. CASE UNCHANGED <<kind, token, logins>>
  BY <1>1, LinksLookAlike DEF LinkOwner, LinkStanding
<1>2. CASE QueueStep
  BY <1>1, <1>2 DEF QueueStep, AcceptJob, CloseExhausted, Enter, Outside, artifactVars
<1>3. ASSUME NEW r \in Run,
             \/ Reject(r) \/ Load(r) \/ Resolve(r) \/ EnsureRecoveryJobToken(r) \/ Send(r)
             \/ StepThrows(r) \/ FinishReturned(r) \/ FinishFailed(r) \/ Die(r)
      PROVE  OneTime!OneTimeNext \/ UNCHANGED OneTime!oneTimeVars
  <2>1. run[r].job \in Job
    BY DEF TypeOK, Flight
  <2>2. /\ kind' = kind /\ logins' = logins
        /\ token' = token \/ token' = TokensAfterIssue(run[r].job)
    BY <1>3 DEF Reject, Load, Resolve, EnsureRecoveryJobToken, Send, StepThrows, FinishReturned,
                FinishFailed, Die, Leave, artifactVars
  <2>3. QED
    BY <1>1, <2>1, <2>2, LinkIssued
<1>4. CASE AdminStep
  <2>1. ASSUME NEW j \in Job, Expire(j)
        PROVE  OneTime!OneTimeNext \/ UNCHANGED OneTime!oneTimeVars
    <3>1. token[j] = "live" /\ token' = [token EXCEPT ![j] = "expired"]
      BY <2>1 DEF Expire
    <3>2. kind' = kind /\ logins' = logins
      BY <2>1 DEF Expire
    <3>3. QED
      BY <3>1, <3>2, LinkSpent
  <2>2. CASE ChangeStatus \/ EndInteraction \/ RevokeClient
    BY <1>1, <2>2 DEF ChangeStatus, EndInteraction, RevokeClient, artifactVars
  <2>3. QED
    BY <1>4, <2>1, <2>2 DEF AdminStep
<1>5. ASSUME NEW c \in Callback,
             \/ CreateMagicLinkSession(c) \/ LoseCallback(c)
             \/ \E j \in Job : Present(c, j) \/ ConsumeMagicLinkSession(j, c)
      PROVE  OneTime!OneTimeNext \/ UNCHANGED OneTime!oneTimeVars
  BY <1>1, <1>5 DEF CreateMagicLinkSession, LoseCallback, Present, ConsumeMagicLinkSession
<1>6. ASSUME NEW f \in Form, MarkTokenUsed(f)
      PROVE  OneTime!OneTimeNext \/ UNCHANGED OneTime!oneTimeVars
  <2>1. form[f].job \in Job /\ token[form[f].job] # "none" /\ kind' = kind /\ logins' = logins
    BY <1>6 DEF TypeOK, Flight, MarkTokenUsed, FormInv
  <2>2. QED
    BY <1>6, <2>1, LinkSpent DEF MarkTokenUsed
<1>7. ASSUME NEW f \in Form,
             SetUserPassword(f) \/ LoseForm(f) \/ \E j \in Job : ValidateReset(f, j)
      PROVE  OneTime!OneTimeNext \/ UNCHANGED OneTime!oneTimeVars
  BY <1>1, <1>7 DEF SetUserPassword, LoseForm, ValidateReset
<1>8. CASE UNCHANGED vars
  BY <1>1, <1>8 DEF vars, artifactVars
<1>9. QED
  BY <1>2, <1>3, <1>4, <1>5, <1>6, <1>7, <1>8, LoginRedeems
  DEF Next, ProcessorStep, MagicStep, ResetStep

(* Every step of the recovery jobs, the callbacks and the forms is a step  *)
(* of the one-time promise or invisible in it: the transaction that issues *)
(* a link takes the standing one of its kind back, and a login is made     *)
(* with a link that stands.                                                *)
THEOREM LinksAreOneTimeHolds == Spec => LinksAreOneTime
<1>1. Init => OneTime!OneTimeInit
  BY DEF Init, LinkOwner, LinkStanding, OneTime!OneTimeInit
<1>2. QED
  BY <1>1, ArtifactsInvariant, LinksRefine, PTL DEF Spec, LinksAreOneTime, OneTime!OneTimeSpec
=============================================================================
