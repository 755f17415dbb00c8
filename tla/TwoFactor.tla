------------------------------ MODULE TwoFactor ------------------------------
(***************************************************************************)
(* Two-factor authentication of one user (two-factor/service.ts and        *)
(* two-factor/repository.ts, driven by routes/two-factor.ts and, for the   *)
(* management requests, routes/two-factor-admin.ts).  Enrolment, checks    *)
(* and management are sequences of statements without a surrounding        *)
(* transaction, except the one that confirms a TOTP enrolment; any two     *)
(* requests of the user and of an administrator may overlap, and a request *)
(* may stop after any statement.                                           *)
(*                                                                         *)
(* A TOTP configuration stands for its secret: a code is the pair of a     *)
(* configuration and a time step, and matches when the configuration is    *)
(* the loaded one and the step is within one of the current step.          *)
(***************************************************************************)
EXTENDS Integers, FiniteSets

CONSTANTS
    Config,         \* identifiers of user_totp rows
    Recovery,       \* recovery codes
    Otp,            \* e-mailed codes
    Request,        \* concurrent requests
    NoConfig,       \* no user_totp row
    NoCode,         \* no recovery or e-mailed code
    MaxActive,      \* MAX_ACTIVE_OTP_CODES
    BatchSize,      \* recovery codes generated at once
    MaxStep         \* bound on the time step

ASSUME TwoFactorAssumption ==
    /\ NoConfig \notin Config
    /\ NoCode \notin Recovery \cup Otp
    /\ MaxActive \in Nat /\ BatchSize \in Nat /\ MaxStep \in Nat

VARIABLES
    totp,           \* the user_totp row of the user
    method,         \* two_factor_enabled and two_factor_method
    recovery,       \* two_factor_recovery_codes
    otp,            \* two_factor_otp_codes
    request,        \* requests under way
    step,           \* the current time step
    accepted,       \* how often each TOTP code let a request pass
    redeemed,       \* how often each recovery code did
    proven          \* configurations a code of their own has confirmed

totpVars == <<totp, accepted, proven>>
codeVars == <<recovery, redeemed>>
twoFactorVars == <<totpVars, codeVars, method, otp, request, step>>

-----------------------------------------------------------------------------
Step == 0 .. MaxStep

NotConfigured == [id |-> NoConfig, verified |-> FALSE, last |-> -1]

Pending(c) == [id |-> c, verified |-> FALSE, last |-> -1]

Enabled2FA == method # "none"

Stage == {"idle", "start", "delete", "insert", "clear", "codes", "flags", "consume", "confirm", "redeem", "spend", "send", "drop"}

Op == {"none", "setupTotp", "setupEmail", "disable", "regenerate", "check"}

NoRequest2FA == [op |-> "none", stage |-> "idle", config |-> NoConfig, matched |-> -1, code |-> NoCode]

Starts(q, op, stage) == request' = [request EXCEPT ![q] = [NoRequest2FA EXCEPT !.op = op, !.stage = stage]]

Goes(q, stage) == request' = [request EXCEPT ![q].stage = stage]

Ends(q) == request' = [request EXCEPT ![q] = NoRequest2FA]

At(q, stage) == request[q].stage = stage

-----------------------------------------------------------------------------
(* Enrolment and management, statement by statement.                       *)

(* Every one of them reads the user's flags before it writes anything. *)

(* The setup page begins a TOTP enrolment only when it finds none pending. *)
ShowTwoFactorSetup(q) ==
    /\ At(q, "idle")
    /\ totp.id = NoConfig \/ totp.verified
    /\ Starts(q, "setupTotp", "start")
    /\ UNCHANGED <<totpVars, codeVars, method, otp, step>>

SetupTotp(q) ==
    /\ At(q, "start")
    /\ IF Enabled2FA THEN Ends(q) ELSE Goes(q, "delete")
    /\ UNCHANGED <<totpVars, codeVars, method, otp, step>>

SetupEmailOtp(q) ==
    /\ At(q, "idle")
    /\ ~Enabled2FA
    /\ Starts(q, "setupEmail", "codes")
    /\ UNCHANGED <<totpVars, codeVars, method, otp, step>>

ManagementBegins(q, op, stage) ==
    /\ At(q, "idle")
    /\ Enabled2FA
    /\ Starts(q, op, stage)
    /\ UNCHANGED <<totpVars, codeVars, method, otp, step>>

DisableTwoFactor(q) == ManagementBegins(q, "disable", "delete")

RegenerateRecoveryCodes(q) == ManagementBegins(q, "regenerate", "clear")

(* Whatever row the user has by now is deleted, a verified one too. *)
DeleteTotp(q) ==
    /\ At(q, "delete")
    /\ totp' = NotConfigured
    /\ Goes(q, IF request[q].op = "disable" THEN "clear" ELSE "insert")
    /\ UNCHANGED <<accepted, proven, codeVars, method, otp, step>>

(* A second row for the user violates UNIQUE (user_id): the setup throws. *)
InsertTotp(q, c) ==
    /\ At(q, "insert")
    /\ IF totp.id = NoConfig
       THEN /\ totp' = Pending(c)
            /\ Goes(q, "clear")
       ELSE UNCHANGED totp /\ Ends(q)
    /\ UNCHANGED <<accepted, proven, codeVars, method, otp, step>>

(* A new row has an identifier and a secret of its own: one that nothing   *)
(* refers to any more stands for a new one.                                *)
NewConfig(c) ==
    /\ totp.id # c /\ c \notin proven
    /\ \A s \in Step : accepted[c][s] = 0
    /\ \A q \in Request : request[q].config # c

DeleteAllRecoveryCodes(q) ==
    /\ At(q, "clear")
    /\ recovery' = [r \in Recovery |-> IF recovery[r] = "absent" THEN "absent" ELSE "deleted"]
    /\ Goes(q, IF request[q].op = "disable" THEN "drop" ELSE "codes")
    /\ UNCHANGED <<totpVars, redeemed, method, otp, step>>

(* One INSERT of a batch of new codes; enabling e-mail codes comes after   *)
(* it, the other two end with it.                                          *)
InsertRecoveryCodes(q, batch) ==
    /\ At(q, "codes")
    /\ \A r \in batch : recovery[r] = "absent"
    /\ recovery' = [r \in Recovery |-> IF r \in batch THEN "unused" ELSE recovery[r]]
    /\ IF request[q].op = "setupEmail" THEN Goes(q, "flags") ELSE Ends(q)
    /\ UNCHANGED <<totpVars, redeemed, method, otp, step>>

(* Expired and used e-mailed codes are deleted; the active ones stay.      *)
WithoutSpent(codes) == [o \in Otp |-> IF codes[o] \in {"used", "expired"} THEN "deleted" ELSE codes[o]]

DeleteSpentOtpCodes(q) ==
    /\ At(q, "drop")
    /\ otp' = WithoutSpent(otp)
    /\ Goes(q, "flags")
    /\ UNCHANGED <<totpVars, codeVars, method, step>>

SetFlags(q) ==
    /\ At(q, "flags")
    /\ method' = IF request[q].op = "disable" THEN "none" ELSE "email"
    /\ Ends(q)
    /\ UNCHANGED <<totpVars, codeVars, otp, step>>

-----------------------------------------------------------------------------
(* Checks.                                                                 *)

(* The row is loaded and the submitted code compared with its secret.      *)
Matches(c, s) == totp.id = c /\ s \in (step - 1) .. (step + 1)

Matched(q, stage, s) ==
    request' = [request EXCEPT ![q] =
                    [NoRequest2FA EXCEPT !.op = "check", !.stage = stage, !.config = totp.id, !.matched = s]]

VerifyTotp(q, s) ==
    /\ At(q, "idle")
    /\ totp.verified
    /\ Matches(totp.id, s)
    /\ Matched(q, "consume", s)
    /\ UNCHANGED <<totpVars, codeVars, method, otp, step>>

ConfirmTotpSetup(q, s) ==
    /\ At(q, "idle")
    /\ totp.id # NoConfig /\ ~totp.verified
    /\ Matches(totp.id, s)
    /\ Matched(q, "confirm", s)
    /\ UNCHANGED <<totpVars, codeVars, method, otp, step>>

(* The request passes with the code it matched. *)
Accepts(q) == accepted' = [accepted EXCEPT ![request[q].config][request[q].matched] = @ + 1]

(* Faulty variant: a step is accepted again when it is the last one. *)
AdvancesOrRepeats(q) ==
    totp.id = request[q].config /\ totp.verified /\ totp.last <= request[q].matched

(* The UPDATE names the loaded row and moves its last step forward. *)
Advances(q) == totp.id = request[q].config /\ totp.verified /\ totp.last < request[q].matched

ConsumeTotpTimeStep(q) ==
    /\ At(q, "consume")
    /\ IF Advances(q)
       THEN totp' = [totp EXCEPT !.last = request[q].matched] /\ Accepts(q)
       ELSE UNCHANGED <<totp, accepted>>
    /\ Ends(q)
    /\ UNCHANGED <<proven, codeVars, method, otp, step>>

(* Faulty variant: the pending row is found by its user alone. *)
PendingOfUser(q) == totp.id # NoConfig /\ ~totp.verified

(* It is the loaded row, and still unverified. *)
StillPending(q) == totp.id = request[q].config /\ ~totp.verified

(* Confirmation and flags are one transaction. *)
VerifyTotpEnrollment(q) ==
    /\ At(q, "confirm")
    /\ IF StillPending(q)
       THEN /\ totp' = [totp EXCEPT !.verified = TRUE, !.last = request[q].matched]
            /\ method' = "totp"
            /\ Accepts(q)
            /\ proven' = proven \cup {request[q].config}
       ELSE UNCHANGED <<totpVars, method>>
    /\ Ends(q)
    /\ UNCHANGED <<codeVars, otp, step>>

(* The unused codes are loaded and one of them matches. *)
VerifyRecoveryCode(q, r) ==
    /\ At(q, "idle")
    /\ recovery[r] = "unused"
    /\ request' = [request EXCEPT ![q] = [NoRequest2FA EXCEPT !.op = "check", !.stage = "redeem", !.code = r]]
    /\ UNCHANGED <<totpVars, codeVars, method, otp, step>>

(* The UPDATE names the code and nothing else, and nobody looks at how     *)
(* many rows it changed: the request passes.                               *)
MarkRecoveryCodeUsed(q) ==
    LET r == request[q].code IN
    /\ At(q, "redeem")
    /\ recovery' = IF recovery[r] = "deleted" THEN recovery ELSE [recovery EXCEPT ![r] = "used"]
    /\ redeemed' = [redeemed EXCEPT ![r] = @ + 1]
    /\ Ends(q)
    /\ UNCHANGED <<totpVars, method, otp, step>>

(* E-mailed codes: so many may be active at once. *)
Active == {o \in Otp : otp[o] = "active"}

SendOtpCode(q) ==
    /\ At(q, "idle")
    /\ Cardinality(Active) < MaxActive
    /\ Starts(q, "check", "send")
    /\ UNCHANGED <<totpVars, codeVars, method, otp, step>>

(* When the limit is met, the spent codes are deleted and the active ones  *)
(* counted again: one that expired meanwhile lets the request go on like   *)
(* SendOtpCode, otherwise it throws.                                       *)
RefuseOtpCode(q) ==
    /\ At(q, "idle")
    /\ Cardinality(Active) >= MaxActive
    /\ otp' = WithoutSpent(otp)
    /\ UNCHANGED <<totpVars, codeVars, method, request, step>>

InsertOtpCode(q, o) ==
    /\ At(q, "send")
    /\ otp[o] = "absent"
    /\ otp' = [otp EXCEPT ![o] = "active"]
    /\ Ends(q)
    /\ UNCHANGED <<totpVars, codeVars, method, step>>

VerifyOtp(q, o) ==
    /\ At(q, "idle")
    /\ otp[o] = "active"
    /\ request' = [request EXCEPT ![q] = [NoRequest2FA EXCEPT !.op = "check", !.stage = "spend", !.code = o]]
    /\ UNCHANGED <<totpVars, codeVars, method, otp, step>>

(* Marked like a recovery code, and the spent codes deleted in the         *)
(* background, which may fail.                                             *)
MarkOtpCodeUsed(q) ==
    LET marked == [otp EXCEPT ![request[q].code] = IF @ = "deleted" THEN @ ELSE "used"] IN
    /\ At(q, "spend")
    /\ otp' \in {marked, WithoutSpent(marked)}
    /\ Ends(q)
    /\ UNCHANGED <<totpVars, codeVars, method, step>>

-----------------------------------------------------------------------------
(* A statement fails or the process stops, and the request ends here. *)
RequestStops(q) ==
    /\ ~At(q, "idle")
    /\ Ends(q)
    /\ UNCHANGED <<totpVars, codeVars, method, otp, step>>

OtpExpires(o) ==
    /\ otp[o] = "active"
    /\ otp' = [otp EXCEPT ![o] = "expired"]
    /\ UNCHANGED <<totpVars, codeVars, method, request, step>>

StepPasses ==
    /\ step < MaxStep
    /\ step' = step + 1
    /\ UNCHANGED <<totpVars, codeVars, method, otp, request>>

-----------------------------------------------------------------------------
(* A user who has never enrolled. *)
TwoFactorInit ==
    /\ totp = NotConfigured
    /\ method = "none"
    /\ recovery = [r \in Recovery |-> "absent"]
    /\ otp = [o \in Otp |-> "absent"]
    /\ request = [q \in Request |-> NoRequest2FA]
    /\ step = 0
    /\ accepted = [c \in Config |-> [s \in Step |-> 0]]
    /\ redeemed = [r \in Recovery |-> 0]
    /\ proven = {}

EnrolNext(q) ==
    \/ ShowTwoFactorSetup(q) \/ SetupTotp(q) \/ SetupEmailOtp(q) \/ DisableTwoFactor(q) \/ RegenerateRecoveryCodes(q)
    \/ DeleteTotp(q) \/ DeleteAllRecoveryCodes(q) \/ DeleteSpentOtpCodes(q) \/ SetFlags(q)
    \/ \E c \in Config : NewConfig(c) /\ InsertTotp(q, c)
    \/ \E batch \in SUBSET Recovery : Cardinality(batch) = BatchSize /\ InsertRecoveryCodes(q, batch)

CheckNext(q) ==
    \/ \E s \in Step : VerifyTotp(q, s) \/ ConfirmTotpSetup(q, s)
    \/ ConsumeTotpTimeStep(q) \/ VerifyTotpEnrollment(q)
    \/ \E r \in Recovery : VerifyRecoveryCode(q, r)
    \/ MarkRecoveryCodeUsed(q)
    \/ \E o \in Otp : InsertOtpCode(q, o) \/ VerifyOtp(q, o)
    \/ SendOtpCode(q) \/ RefuseOtpCode(q) \/ MarkOtpCodeUsed(q)

TwoFactorNext ==
    \/ \E q \in Request : EnrolNext(q) \/ CheckNext(q) \/ RequestStops(q)
    \/ \E o \in Otp : OtpExpires(o)
    \/ StepPasses

TwoFactorSpec == TwoFactorInit /\ [][TwoFactorNext]_twoFactorVars

-----------------------------------------------------------------------------
(* Properties.                                                             *)

(* Every variable holds values of its kind. *)
TwoFactorTypeOK ==
    /\ totp \in [id : Config \cup {NoConfig}, verified : BOOLEAN, last : Step \cup {-1}]
    /\ method \in {"none", "email", "totp"}
    /\ recovery \in [Recovery -> {"absent", "unused", "used", "deleted"}]
    /\ otp \in [Otp -> {"absent", "active", "used", "expired", "deleted"}]
    /\ request \in [Request -> [op : Op, stage : Stage, config : Config \cup {NoConfig},
                                matched : Step \cup {-1}, code : Recovery \cup Otp \cup {NoCode}]]
    /\ step \in Step
    /\ accepted \in [Config -> [Step -> Nat]]
    /\ redeemed \in [Recovery -> Nat]
    /\ proven \subseteq Config

(* A code of the authenticator lets one request pass, the confirmation of  *)
(* the enrolment included, however many present it at once and in whatever *)
(* order their updates arrive.                                             *)
TotpCodeOnce == \A c \in Config, s \in Step : accepted[c][s] <= 1

(* A configuration is verified only by a code of its own secret: a         *)
(* confirmation that validated a code against a configuration which was    *)
(* replaced in the meantime does not confirm the replacement.              *)
VerifiedByOwnCode == totp.verified => totp.id \in proven

(* What the comment at markRecoveryCodeUsed says: once used, a recovery    *)
(* code cannot be used again.                                              *)
RecoveryCodeOnce == \A r \in Recovery : redeemed[r] <= 1
=============================================================================
