------------------------------- MODULE Sessions -------------------------------
(***************************************************************************)
(* The sessions of one account (internal/auth, the erasure of              *)
(* internal/users, the suspension of internal/admin and the account gate   *)
(* of pkg/grpcmiddleware): refresh tokens that are rotated at every use,   *)
(* devices they belong to, and recovery codes.                             *)
(*                                                                         *)
(* No flow here is one transaction.  A refresh consumes the old token,     *)
(* reads the account, then stores the new token; a sign-in reads the       *)
(* account, writes the device and stores.  Anything may come in between.   *)
(* Tokens are numbered in the order they are stored; a chain is a sign-in  *)
(* and every token rotated out of it, named by its first token.            *)
(***************************************************************************)
EXTENDS Naturals, FiniteSets

CONSTANTS
  Devices,    \* device ids the clients send
  NoRow,      \* a session without a device (a blank device id)
  Requests,   \* concurrent calls
  MaxTokens   \* bound: refresh_tokens rows

ASSUME SessionBounds == MaxTokens \in Nat \ {0}
ASSUME NoRowAssumption == NoRow \notin Devices \X BOOLEAN

Tokens == 1..MaxTokens
Rows == Devices \X BOOLEAN   \* a devices row, before or after the erasure

VARIABLES
  status,    \* users.status, "none" before the account exists
  linked,    \* the provider identity points at this account
  erased,    \* the account was erased
  devices,   \* devices rows
  cache,     \* what the account gate remembers
  token,     \* token[t]: "none" before it is stored, "live", "recent" (revoked
             \* less than replayGrace ago), "used" (revoked before that), or
             \* "gone": past expires_at, or deleted with the account
  chain,     \* chain[t], 0 while t is not stored
  device,    \* device[t]: refresh_tokens.device_id
  codeOut,   \* a recovery code may still be consumed (bound: one at a time)
  stage, carry, row  \* per call: where it stands and what it holds

account == <<status, linked, erased, devices>>
tokens == <<token, chain, device>>
call == <<stage, carry, row>>
vars == <<account, cache, tokens, codeOut, call>>

Init ==
  /\ status = "none" /\ linked = FALSE /\ erased = FALSE
  /\ devices = {}
  /\ cache = "empty"
  /\ token = [t \in Tokens |-> "none"]
  /\ chain = [t \in Tokens |-> 0]
  /\ device = [t \in Tokens |-> NoRow]
  /\ codeOut = FALSE
  /\ stage = [r \in Requests |-> "idle"]
  /\ carry = [r \in Requests |-> 0]
  /\ row = [r \in Requests |-> NoRow]

Stages ==
  {"idle", "sawActive", "sawInactive", "create", "upsert", "store", "check",
   "replay", "code", "link"}

Goes(r, s) == stage' = [stage EXCEPT ![r] = s]

In(s) == {t \in Tokens : token[t] = s}
Live == In("live")
Stored == Tokens \ In("none")

(* The call returns, with an answer, an error or its process. *)
Ends(r) ==
  /\ Goes(r, "idle")
  /\ carry' = [carry EXCEPT ![r] = 0]
  /\ row' = [row EXCEPT ![r] = NoRow]

(* The process stops between two statements of the call. *)
Dies(r) == stage[r] # "idle" /\ Ends(r) /\ UNCHANGED <<account, cache, tokens, codeOut>>

-----------------------------------------------------------------------------
(* The account gate in front of every authenticated call. *)

(* Wrong variant: only a deleted account is inactive. *)
GateReadsDeleted(r) ==
  /\ stage[r] = "idle"
  /\ cache = "empty"
  /\ status # "none"
  /\ Goes(r, IF status # "deleted" THEN "sawActive" ELSE "sawInactive")
  /\ UNCHANGED <<account, cache, tokens, codeOut, carry, row>>

(* A miss: the gate reads the account ... *)
GateReads(r) ==
  /\ stage[r] = "idle"
  /\ cache = "empty"
  /\ status # "none"
  /\ Goes(r, IF status = "active" THEN "sawActive" ELSE "sawInactive")
  /\ UNCHANGED <<account, cache, tokens, codeOut, carry, row>>

(* ... and remembers what it read for 30 seconds. *)
GateRemembers(r) ==
  /\ stage[r] \in {"sawActive", "sawInactive"}
  /\ cache' = IF stage[r] = "sawActive" THEN "active" ELSE "inactive"
  /\ Ends(r)
  /\ UNCHANGED <<account, tokens, codeOut>>

GateForgets ==
  /\ cache # "empty"
  /\ cache' = "empty"
  /\ UNCHANGED <<account, tokens, codeOut, call>>

(* A remembered active account, or a lookup that failed (it fails open). *)
Admitted == status # "none" /\ cache # "inactive"

-----------------------------------------------------------------------------
(* Sign-in. *)

(* FindByProviderIdentity and the status check. *)
SignInFinds(r, d) ==
  /\ stage[r] = "idle"
  /\ linked /\ status = "active"
  /\ row' = [row EXCEPT ![r] = d]
  /\ Goes(r, IF d = NoRow THEN "store" ELSE "upsert")
  /\ UNCHANGED <<account, cache, tokens, codeOut, carry>>

SignInFindsNobody(r, d) ==
  /\ stage[r] = "idle"
  /\ ~linked /\ status = "none"
  /\ row' = [row EXCEPT ![r] = d]
  /\ Goes(r, "create")
  /\ UNCHANGED <<account, cache, tokens, codeOut, carry>>

(* CreateUserFromOAuth: the identity is unique, so the second of two fails. *)
CreateUser(r) ==
  /\ stage[r] = "create"
  /\ ~linked /\ status = "none"
  /\ status' = "active" /\ linked' = TRUE
  /\ Goes(r, IF row[r] = NoRow THEN "store" ELSE "upsert")
  /\ UNCHANGED <<erased, devices, cache, tokens, codeOut, carry, row>>

CreateUserFails(r) ==
  /\ stage[r] = "create"
  /\ linked
  /\ Ends(r)
  /\ UNCHANGED <<account, cache, tokens, codeOut>>

(* UpsertDevice: the row there is, or a new one. *)
UpsertDevice(r) ==
  /\ stage[r] = "upsert"
  /\ LET made == <<row[r][1], erased>>
     IN  devices' = devices \cup {made} /\ row' = [row EXCEPT ![r] = made]
  /\ Goes(r, "store")
  /\ UNCHANGED <<status, linked, erased, cache, tokens, codeOut, carry>>

(* StoreRefreshToken: the device row must still exist (a foreign key). *)
StoreRefreshToken(r, t) ==
  /\ stage[r] = "store"
  /\ row[r] \in devices \cup {NoRow}
  /\ Stored = 1..(t - 1)
  /\ token' = [token EXCEPT ![t] = "live"]
  /\ chain' = [chain EXCEPT ![t] = IF carry[r] = 0 THEN t ELSE carry[r]]
  /\ device' = [device EXCEPT ![t] = row[r]]
  /\ Ends(r)
  /\ UNCHANGED <<account, cache, codeOut>>

StoreFails(r) ==
  /\ stage[r] = "store"
  /\ row[r] \notin devices \cup {NoRow}
  /\ Ends(r)
  /\ UNCHANGED <<account, cache, tokens, codeOut>>

-----------------------------------------------------------------------------
(* Rotation. *)

(* The device of a revoked token is never read again and is dropped here. *)
Revoke(ts) ==
  /\ token' = [t \in Tokens |-> IF t \in ts THEN "recent" ELSE token[t]]
  /\ device' = [t \in Tokens |-> IF t \in ts THEN NoRow ELSE device[t]]

Takes(r, t) ==
  /\ carry' = [carry EXCEPT ![r] = chain[t]]
  /\ row' = [row EXCEPT ![r] = device[t]]
  /\ Goes(r, "check")
  /\ UNCHANGED <<account, cache, chain, codeOut>>

(* Wrong variant: a token used within the grace is rotated once more. *)
ConsumeWithGrace(r, t) ==
  /\ stage[r] = "idle"
  /\ token[t] \in {"live", "recent"}
  /\ Revoke({t})
  /\ Takes(r, t)

(* ConsumeRefreshToken: found and revoked in one statement. *)
ConsumeRefreshToken(r, t) ==
  /\ stage[r] = "idle"
  /\ token[t] = "live"
  /\ Revoke({t})
  /\ Takes(r, t)

(* GetUserByID and the status check of RefreshToken. *)
CheckStatus(r) ==
  /\ stage[r] = "check"
  /\ status = "active"
  /\ Goes(r, "store")
  /\ UNCHANGED <<account, cache, tokens, codeOut, carry, row>>

RefuseInactive(r) ==
  /\ stage[r] = "check"
  /\ status # "active"
  /\ Ends(r)
  /\ UNCHANGED <<account, cache, tokens, codeOut>>

(* revokeFamilyIfReplayed finds the token used longer ago than the grace ... *)
NoticeReplay(r, t) ==
  /\ stage[r] = "idle"
  /\ token[t] = "used"
  /\ carry' = [carry EXCEPT ![r] = t]
  /\ Goes(r, "replay")
  /\ UNCHANGED <<account, cache, tokens, codeOut, row>>

(* ... and revokes every live token of the account. *)
RevokeFamily(r) ==
  /\ stage[r] = "replay"
  /\ Revoke(Live)
  /\ Ends(r)
  /\ UNCHANGED <<account, cache, chain, codeOut>>

(* RevokeDeviceTokens, for the device row there is now. *)
SignOut(d) ==
  /\ Admitted
  /\ Revoke({t \in Live : device[t] = <<d, erased>>})
  /\ <<d, erased>> \in devices
  /\ UNCHANGED <<account, cache, chain, codeOut, call>>

(* The clock: a revoked token leaves the grace, a token expires. *)
GraceEnds(t) ==
  /\ token[t] = "recent"
  /\ token' = [token EXCEPT ![t] = "used"]
  /\ UNCHANGED <<account, cache, chain, device, codeOut, call>>

TokenExpires(t) ==
  /\ token[t] \in {"live", "used"}
  /\ token' = [token EXCEPT ![t] = "gone"]
  /\ device' = [device EXCEPT ![t] = NoRow]
  /\ UNCHANGED <<account, cache, chain, codeOut, call>>

-----------------------------------------------------------------------------
(* Suspension and erasure. *)

SuspendUser ==
  /\ status \notin {"none", "suspended"}
  /\ status' = "suspended"
  /\ UNCHANGED <<linked, erased, devices, cache, tokens, codeOut, call>>

(* EraseAccount, one transaction: tokens, codes, devices and identities go. *)
EraseAccount ==
  /\ Admitted
  /\ ~erased
  /\ status' = "deleted" /\ linked' = FALSE /\ erased' = TRUE
  /\ devices' = {}
  /\ token' = [t \in Tokens |-> IF t \in Stored THEN "gone" ELSE "none"]
  /\ device' = [t \in Tokens |-> NoRow]
  /\ codeOut' = FALSE
  /\ UNCHANGED <<cache, chain, call>>

-----------------------------------------------------------------------------
(* Recovery. *)

(* FindByVerifiedRecoveryEmail; an erased account has no address. *)
RequestAccountRecovery(r) ==
  /\ stage[r] = "idle"
  /\ status # "none" /\ ~erased
  /\ Goes(r, "code")
  /\ UNCHANGED <<account, cache, tokens, codeOut, carry, row>>

CreateRecoveryCode(r) ==
  /\ stage[r] = "code"
  /\ codeOut' = TRUE
  /\ Ends(r)
  /\ UNCHANGED <<account, cache, tokens>>

CodeExpires ==
  /\ codeOut /\ codeOut' = FALSE
  /\ UNCHANGED <<account, cache, tokens, call>>

(* ConsumeRecoveryCode: found and marked used in one statement. *)
RecoverAccount(r, d) ==
  /\ stage[r] = "idle"
  /\ codeOut /\ codeOut' = FALSE
  /\ row' = [row EXCEPT ![r] = d]
  /\ Goes(r, "link")
  /\ UNCHANGED <<account, cache, tokens, carry>>

(* LinkOAuthIdentity; the account is then loaded, whatever its status. *)
LinkOAuthIdentity(r) ==
  /\ stage[r] = "link"
  /\ linked' = TRUE
  /\ Goes(r, IF row[r] = NoRow THEN "store" ELSE "upsert")
  /\ UNCHANGED <<status, erased, devices, cache, tokens, codeOut, carry, row>>

-----------------------------------------------------------------------------
Sent == {<<d, FALSE>> : d \in Devices} \cup {NoRow}   \* device ids of a call

SignIn(r) ==
  \/ \E d \in Sent : SignInFinds(r, d) \/ SignInFindsNobody(r, d)
  \/ CreateUser(r) \/ CreateUserFails(r)
  \/ UpsertDevice(r)
  \/ \E t \in Tokens : StoreRefreshToken(r, t)
  \/ StoreFails(r)

Rotation(r) ==
  \/ \E t \in Tokens : ConsumeRefreshToken(r, t) \/ NoticeReplay(r, t)
  \/ CheckStatus(r) \/ RefuseInactive(r) \/ RevokeFamily(r)

Recovery(r) ==
  \/ RequestAccountRecovery(r) \/ CreateRecoveryCode(r)
  \/ \E d \in Sent : RecoverAccount(r, d)
  \/ LinkOAuthIdentity(r)

Clock ==
  \/ \E t \in Tokens : GraceEnds(t) \/ TokenExpires(t)
  \/ CodeExpires

Next ==
  \/ \E r \in Requests : SignIn(r) \/ Rotation(r) \/ Recovery(r) \/ Dies(r)
  \/ \E r \in Requests : GateReads(r) \/ GateRemembers(r)
  \/ GateForgets
  \/ \E d \in Devices : SignOut(d)
  \/ SuspendUser \/ EraseAccount
  \/ Clock

Spec == Init /\ [][Next]_vars

(* An entry of the gate ends after 30 seconds; a call goes on or dies. *)
FairSpec ==
  /\ Spec
  /\ WF_vars(GateForgets)
  /\ \A r \in Requests : WF_vars(GateRemembers(r))

-----------------------------------------------------------------------------
(* Properties. *)

SessionsTypeOK ==
  /\ status \in {"none", "active", "suspended", "deleted"}
  /\ linked \in BOOLEAN /\ erased \in BOOLEAN
  /\ devices \subseteq Rows
  /\ cache \in {"empty", "active", "inactive"}
  /\ token \in [Tokens -> {"none", "live", "recent", "used", "gone"}]
  /\ chain \in [Tokens -> 0..MaxTokens]
  /\ device \in [Tokens -> Rows \cup {NoRow}]
  /\ codeOut \in BOOLEAN
  /\ stage \in [Requests -> Stages]
  /\ carry \in [Requests -> 0..MaxTokens]
  /\ row \in [Requests -> Rows \cup {NoRow}]

(* The calls that are rotating a token of chain c. *)
Rotating(c) == {r \in Requests : carry[r] = c /\ stage[r] \in {"check", "store"}}

LiveOf(c) == {t \in Live : chain[t] = c}

(* A session never forks, however many calls present its token at once and *)
(* wherever they stop: it has one live token, or one call that is about to *)
(* store the next one (ConsumeRefreshToken reads and marks in one          *)
(* statement).                                                             *)
SessionsDoNotFork ==
  /\ \A s, t \in Live : chain[s] = chain[t] => s = t
  /\ \A c \in Tokens : \A q, r \in Rotating(c) : q = r
  /\ \A c \in Tokens : LiveOf(c) = {} \/ Rotating(c) = {}

Ended(c) == chain[c] = c /\ LiveOf(c) = {} /\ Rotating(c) = {}

(* A session that has ended, by sign-out, replay, refusal, erasure or a    *)
(* lost call, never comes back: only a new sign-in stores a token.         *)
EndedSessionsStayEnded == [][\A c \in Tokens : Ended(c) => Ended(c)']_vars

(* An account that stays suspended or deleted is shut out by the gate for  *)
(* good, although the gate answers from memory and may remember a reading  *)
(* that was overtaken.                                                     *)
InactiveShutOut == ([]<>(cache = "active")) => ([]<>(status = "active"))

=============================================================================
