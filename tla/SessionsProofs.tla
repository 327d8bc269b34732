----------------------------- MODULE SessionsProofs -----------------------------
(***************************************************************************)
(* What Sessions keeps, for any number of devices, concurrent calls and    *)
(* tokens.                                                                 *)
(***************************************************************************)
EXTENDS Sessions, TLAPS

Holding == {"check", "store"}   \* the stages of Rotating

(* A chain is named by a token that has been stored, and so is whatever a  *)
(* call carries.                                                           *)
ChainsAreStored ==
  /\ \A t \in Tokens : token[t] = "none" => chain[t] = 0
  /\ \A t \in Tokens : chain[t] # 0 => token[chain[t]] # "none"
  /\ \A r \in Requests : carry[r] # 0 => token[carry[r]] # "none"

(* A call that rotates nothing carries nothing; one that writes a device   *)
(* knows which.                                                            *)
CallsCarry ==
  /\ \A r \in Requests : stage[r] \notin Holding \cup {"replay"} => carry[r] = 0
  /\ \A r \in Requests : stage[r] = "upsert" => row[r] \in Rows

SessionsInv == SessionsTypeOK /\ ChainsAreStored /\ CallsCarry /\ SessionsDoNotFork

-----------------------------------------------------------------------------
(* Types. *)

LEMMA SessionsInit == Init => SessionsInv
<1> SUFFICES ASSUME Init PROVE SessionsInv
  OBVIOUS
<1>1. SessionsTypeOK
  <2>1. 0 \in 0..MaxTokens
    BY SessionBounds
  <2>2. QED
    BY <2>1 DEF Init, SessionsTypeOK, Stages
<1>2. ChainsAreStored /\ CallsCarry
  BY DEF Init, ChainsAreStored, CallsCarry, Holding
<1>3. SessionsDoNotFork
  BY DEF Init, SessionsDoNotFork, LiveOf, Rotating, Live, In
<1>4. QED
  BY <1>1, <1>2, <1>3 DEF SessionsInv

LEMMA SentAreRows == Sent \subseteq Rows \cup {NoRow}
<1>1. ASSUME NEW d \in Devices PROVE <<d, FALSE>> \in Rows
  BY DEF Rows
<1>2. QED
  BY <1>1 DEF Sent

(* The gate and the sign-in. *)
LEMMA SignInTyped ==
  ASSUME SessionsInv, NEW r \in Requests,
         SignIn(r) \/ GateReads(r) \/ GateRemembers(r) \/ Dies(r)
  PROVE  SessionsTypeOK'
<1> USE SessionBounds DEF SessionsTypeOK, Stages, Goes, Ends
<1>0. SessionsTypeOK /\ 0 \in 0..MaxTokens /\ CallsCarry
  BY DEF SessionsInv
<1>1. ASSUME NEW d \in Sent, SignInFinds(r, d) \/ SignInFindsNobody(r, d) PROVE SessionsTypeOK'
  <2>1. d \in Rows \cup {NoRow}
    BY SentAreRows
  <2>2. QED
    BY <1>0, <1>1, <2>1 DEF SignInFinds, SignInFindsNobody, account, tokens
<1>2. CASE CreateUser(r) \/ CreateUserFails(r) \/ StoreFails(r)
  <2>1. CASE CreateUser(r)
    BY <1>0, <2>1 DEF CreateUser, tokens
  <2>2. CASE CreateUserFails(r)
    BY <1>0, <2>2 DEF CreateUserFails, account, tokens
  <2>3. CASE StoreFails(r)
    BY <1>0, <2>3 DEF StoreFails, account, tokens
  <2>4. QED
    BY <1>2, <2>1, <2>2, <2>3
<1>3. CASE UpsertDevice(r)
  <2>1. <<row[r][1], erased>> \in Rows
    BY <1>0, <1>3 DEF UpsertDevice, CallsCarry, Rows
  <2>2. QED
    BY <1>0, <1>3, <2>1 DEF UpsertDevice, tokens
<1>4. ASSUME NEW t \in Tokens, StoreRefreshToken(r, t) PROVE SessionsTypeOK'
  <2>1. (IF carry[r] = 0 THEN t ELSE carry[r]) \in 0..MaxTokens
    BY <1>0 DEF Tokens
  <2>2. QED
    BY <1>0, <1>4, <2>1 DEF StoreRefreshToken, account
<1>5. CASE GateReads(r) \/ GateRemembers(r) \/ Dies(r)
  BY <1>0, <1>5 DEF GateReads, GateRemembers, Dies, account, tokens
<1>6. QED
  BY <1>1, <1>2, <1>3, <1>4, <1>5 DEF SignIn

(* Rotation and recovery. *)
LEMMA RotationTyped ==
  ASSUME SessionsInv, NEW r \in Requests, Rotation(r) \/ Recovery(r)
  PROVE  SessionsTypeOK'
<1> USE SessionBounds DEF SessionsTypeOK, Stages, Goes, Ends
<1>0. SessionsTypeOK /\ 0 \in 0..MaxTokens
  BY DEF SessionsInv
<1>1. ASSUME NEW t \in Tokens, ConsumeRefreshToken(r, t) PROVE SessionsTypeOK'
  BY <1>0, <1>1 DEF ConsumeRefreshToken, Revoke, Takes, account
<1>2. ASSUME NEW t \in Tokens, NoticeReplay(r, t) PROVE SessionsTypeOK'
  BY <1>0, <1>2 DEF NoticeReplay, Tokens, account, tokens
<1>3. CASE CheckStatus(r) \/ RefuseInactive(r)
  BY <1>0, <1>3 DEF CheckStatus, RefuseInactive, account, tokens
<1>4. CASE RevokeFamily(r)
  BY <1>0, <1>4 DEF RevokeFamily, Revoke, account
<1>5. CASE RequestAccountRecovery(r) \/ CreateRecoveryCode(r) \/ LinkOAuthIdentity(r)
  <2>1. CASE RequestAccountRecovery(r)
    BY <1>0, <2>1 DEF RequestAccountRecovery, account, tokens
  <2>2. CASE CreateRecoveryCode(r)
    BY <1>0, <2>2 DEF CreateRecoveryCode, account, tokens
  <2>3. CASE LinkOAuthIdentity(r)
    BY <1>0, <2>3 DEF LinkOAuthIdentity, tokens
  <2>4. QED
    BY <1>5, <2>1, <2>2, <2>3
<1>6. ASSUME NEW d \in Sent, RecoverAccount(r, d) PROVE SessionsTypeOK'
  <2>1. d \in Rows \cup {NoRow}
    BY SentAreRows
  <2>2. QED
    BY <1>0, <1>6, <2>1 DEF RecoverAccount, account, tokens
<1>7. QED
  BY <1>1, <1>2, <1>3, <1>4, <1>5, <1>6 DEF Rotation, Recovery

(* What no call of the module does: sign-out, the clock, staff, erasure.   *)
Elsewhere ==
  \/ GateForgets \/ SuspendUser \/ EraseAccount \/ Clock
  \/ \E d \in Devices : SignOut(d)

LEMMA ElsewhereTyped == SessionsInv /\ Elsewhere => SessionsTypeOK'
<1> SUFFICES ASSUME SessionsInv, Elsewhere PROVE SessionsTypeOK'
  OBVIOUS
<1> USE DEF SessionsTypeOK, Stages
<1>0. SessionsTypeOK
  BY DEF SessionsInv
<1>1. CASE GateForgets \/ SuspendUser \/ CodeExpires
  BY <1>0, <1>1 DEF GateForgets, SuspendUser, CodeExpires, account, tokens, call
<1>2. CASE EraseAccount
  BY <1>0, <1>2 DEF EraseAccount, call
<1>3. ASSUME NEW t \in Tokens, GraceEnds(t) \/ TokenExpires(t) PROVE SessionsTypeOK'
  BY <1>0, <1>3 DEF GraceEnds, TokenExpires, account, call
<1>4. ASSUME NEW d \in Devices, SignOut(d) PROVE SessionsTypeOK'
  BY <1>0, <1>4 DEF SignOut, Revoke, account, call
<1>5. QED
  BY <1>1, <1>2, <1>3, <1>4 DEF Elsewhere, Clock

LEMMA SessionsTyped == SessionsInv /\ [Next]_vars => SessionsTypeOK'
<1> SUFFICES ASSUME SessionsInv, [Next]_vars PROVE SessionsTypeOK'
  OBVIOUS
<1>1. CASE UNCHANGED vars
  BY <1>1 DEF SessionsInv, SessionsTypeOK, vars, account, tokens, call
<1>2. QED
  BY <1>1, SignInTyped, RotationTyped, ElsewhereTyped DEF Next, Elsewhere

-----------------------------------------------------------------------------
(* The chains. *)

(* No live token appears, no call takes up a chain. *)
Shrinks ==
  /\ Live' \subseteq Live
  /\ \A t \in Tokens : token'[t] = "none" <=> token[t] = "none"
  /\ chain' = chain
  /\ \A r \in Requests :
       /\ carry'[r] # 0 /\ stage'[r] \in Holding => stage[r] \in Holding /\ carry'[r] = carry[r]
       /\ carry'[r] # 0 => token[carry'[r]] # "none"
       /\ stage'[r] \notin Holding \cup {"replay"} => carry'[r] = 0
       /\ stage'[r] = "upsert" => row'[r] \in Rows

(* The two steps that move a session on. *)
Moves(r, t) == ConsumeRefreshToken(r, t) \/ StoreRefreshToken(r, t)

(* Every call but those two only drops what it carries, or goes on.        *)
LEMMA CallsShrink ==
  ASSUME SessionsInv, NEW r \in Requests,
         SignIn(r) \/ Rotation(r) \/ Recovery(r) \/ Dies(r) \/ GateReads(r) \/ GateRemembers(r),
         \A t \in Tokens : ~Moves(r, t)
  PROVE  Shrinks
<1>0. SessionsTypeOK /\ ChainsAreStored /\ CallsCarry
  BY DEF SessionsInv
<1> USE DEF SessionsTypeOK, ChainsAreStored, CallsCarry, Stages, Shrinks, Holding, Goes, Ends, Live, In
<1>1. ASSUME NEW d \in Sent, SignInFinds(r, d) \/ SignInFindsNobody(r, d) PROVE Shrinks
  <2>1. d \in Rows \cup {NoRow}
    BY SentAreRows
  <2>2. QED
    BY <1>0, <1>1, <2>1 DEF SignInFinds, SignInFindsNobody, tokens
<1>2. CASE CreateUser(r) \/ CreateUserFails(r) \/ StoreFails(r) \/ Dies(r)
  BY <1>0, <1>2 DEF CreateUser, CreateUserFails, StoreFails, Dies, tokens
<1>3. CASE UpsertDevice(r)
  BY <1>0, <1>3 DEF UpsertDevice, tokens
<1>4. CASE GateReads(r) \/ GateRemembers(r)
  BY <1>0, <1>4 DEF GateReads, GateRemembers, tokens
<1>5. CASE CheckStatus(r) \/ RefuseInactive(r)
  BY <1>0, <1>5 DEF CheckStatus, RefuseInactive, tokens
<1>6. ASSUME NEW t \in Tokens, NoticeReplay(r, t) PROVE Shrinks
  BY <1>0, <1>6 DEF NoticeReplay, Tokens, tokens
<1>7. CASE RevokeFamily(r)
  BY <1>0, <1>7 DEF RevokeFamily, Revoke
<1>8. CASE RequestAccountRecovery(r) \/ CreateRecoveryCode(r)
  BY <1>0, <1>8 DEF RequestAccountRecovery, CreateRecoveryCode, tokens
<1>9. CASE LinkOAuthIdentity(r)
  BY <1>0, <1>9 DEF LinkOAuthIdentity, tokens
<1>10. ASSUME NEW d \in Sent, RecoverAccount(r, d) PROVE Shrinks
  BY <1>0, <1>10 DEF RecoverAccount, tokens
<1>11. QED
  BY <1>1, <1>2, <1>3, <1>4, <1>5, <1>6, <1>7, <1>8, <1>9, <1>10 DEF SignIn, Rotation, Recovery, Moves

LEMMA ElsewhereShrinks == SessionsInv /\ Elsewhere => Shrinks
<1> SUFFICES ASSUME SessionsInv, Elsewhere PROVE Shrinks
  OBVIOUS
<1>0. SessionsTypeOK /\ ChainsAreStored /\ CallsCarry
  BY DEF SessionsInv
<1> USE DEF SessionsTypeOK, ChainsAreStored, CallsCarry, Shrinks, Live, In, call
<1>1. CASE GateForgets \/ SuspendUser \/ CodeExpires
  BY <1>0, <1>1 DEF GateForgets, SuspendUser, CodeExpires, tokens
<1>2. CASE EraseAccount
  BY <1>0, <1>2 DEF EraseAccount, Stored
<1>3. ASSUME NEW t \in Tokens, GraceEnds(t) \/ TokenExpires(t) PROVE Shrinks
  BY <1>0, <1>3 DEF GraceEnds, TokenExpires
<1>4. ASSUME NEW d \in Devices, SignOut(d) PROVE Shrinks
  BY <1>0, <1>4 DEF SignOut, Revoke
<1>5. QED
  BY <1>1, <1>2, <1>3, <1>4 DEF Elsewhere, Clock

LEMMA StepKinds ==
  ASSUME SessionsInv, [Next]_vars
  PROVE  Shrinks \/ \E r \in Requests, t \in Tokens : Moves(r, t)
<1>1. CASE UNCHANGED vars
  BY <1>1 DEF SessionsInv, ChainsAreStored, CallsCarry, Shrinks, Live, In, Holding, vars, tokens, call
<1>2. QED
  BY <1>1, CallsShrink, ElsewhereShrinks DEF Next, Elsewhere

-----------------------------------------------------------------------------
(* The inductive step. *)

(* What a call that only shrinks leaves of the invariant. *)
LEMMA ShrinkStep ==
  ASSUME SessionsInv, SessionsTypeOK', Shrinks
  PROVE  ChainsAreStored' /\ CallsCarry' /\ SessionsDoNotFork'
<1>1. ChainsAreStored'
  <2>1. \A t \in Tokens : chain[t] # 0 => chain[t] \in Tokens
    BY SessionBounds DEF SessionsInv, SessionsTypeOK, Tokens
  <2>2. \A r \in Requests : carry'[r] # 0 => token'[carry'[r]] # "none"
    <3>1. \A r \in Requests : carry'[r] \in Nat /\ carry'[r] <= MaxTokens
      BY SessionBounds DEF SessionsTypeOK
    <3>2. QED
      BY <3>1 DEF Shrinks, Tokens
  <2>3. QED
    BY <2>1, <2>2 DEF SessionsInv, Shrinks, ChainsAreStored
<1>2. CallsCarry'
  BY DEF Shrinks, CallsCarry, Holding, Rows
<1>3. \A c \in Tokens : LiveOf(c)' \subseteq LiveOf(c)
  BY DEF Shrinks, LiveOf
<1>4. \A c \in Tokens : Rotating(c)' \subseteq Rotating(c)
  BY DEF Shrinks, Rotating, Holding, Tokens
<1>5. QED
  BY <1>1, <1>2, <1>3, <1>4 DEF SessionsInv, Shrinks, SessionsDoNotFork

(* A rotation: the token leaves the live ones as its call takes its place. *)
LEMMA ConsumeStep ==
  ASSUME SessionsInv, NEW r \in Requests, NEW t \in Tokens, ConsumeRefreshToken(r, t)
  PROVE  ChainsAreStored' /\ CallsCarry' /\ SessionsDoNotFork'
<1>0. SessionsTypeOK /\ ChainsAreStored /\ CallsCarry /\ SessionsDoNotFork
  BY DEF SessionsInv
<1>1. /\ stage[r] = "idle" /\ token[t] = "live" /\ chain' = chain
      /\ token' = [s \in Tokens |-> IF s \in {t} THEN "recent" ELSE token[s]]
      /\ carry' = [carry EXCEPT ![r] = chain[t]]
      /\ row' = [row EXCEPT ![r] = device[t]]
      /\ stage' = [stage EXCEPT ![r] = "check"]
  BY DEF ConsumeRefreshToken, Revoke, Takes, Goes
<1>2. ChainsAreStored'
  <2>1. \A s \in Tokens : token'[s] = "none" <=> token[s] = "none"
    BY <1>0, <1>1 DEF SessionsTypeOK
  <2>2. \A s \in Tokens : chain[s] # 0 => chain[s] \in Tokens
    BY <1>0 DEF SessionsTypeOK, Tokens
  <2>3. \A q \in Requests : carry'[q] # 0 => carry'[q] \in Tokens /\ token[carry'[q]] # "none"
    BY <1>0, <1>1, <2>2 DEF SessionsTypeOK, ChainsAreStored, Tokens
  <2>4. QED
    BY <1>0, <1>1, <2>1, <2>2, <2>3 DEF ChainsAreStored
<1>3. CallsCarry'
  BY <1>0, <1>1 DEF SessionsTypeOK, CallsCarry, Holding
<1>4. Live' = Live \ {t} /\ t \in Live
  BY <1>0, <1>1 DEF SessionsTypeOK, Live, In
<1>5. ASSUME NEW c \in Tokens PROVE Rotating(c)' \subseteq IF chain[t] = c THEN Rotating(c) \cup {r} ELSE Rotating(c)
  BY <1>0, <1>1 DEF SessionsTypeOK, Rotating
<1>6. ASSUME NEW c \in Tokens, chain[t] = c PROVE LiveOf(c)' = {} /\ Rotating(c) = {}
  BY <1>0, <1>1, <1>4, <1>6 DEF LiveOf, SessionsDoNotFork
<1>7. ASSUME NEW c \in Tokens, chain[t] # c PROVE LiveOf(c)' = LiveOf(c)
  BY <1>1, <1>4, <1>7 DEF LiveOf
<1>8. SessionsDoNotFork'
  <2>1. \A x, y \in Live' : chain'[x] = chain'[y] => x = y
    BY <1>0, <1>1, <1>4 DEF SessionsDoNotFork
  <2>2. \A c \in Tokens : \A p, q \in Rotating(c)' : p = q
    BY <1>0, <1>5, <1>6 DEF SessionsDoNotFork
  <2>3. \A c \in Tokens : LiveOf(c)' = {} \/ Rotating(c)' = {}
    BY <1>0, <1>5, <1>6, <1>7 DEF SessionsDoNotFork
  <2>4. QED
    BY <2>1, <2>2, <2>3 DEF SessionsDoNotFork
<1>9. QED
  BY <1>2, <1>3, <1>8

(* Storing: the call gives its place to the new token, or a sign-in starts *)
(* a chain of its own.                                                     *)
LEMMA StoreStep ==
  ASSUME SessionsInv, NEW r \in Requests, NEW t \in Tokens, StoreRefreshToken(r, t)
  PROVE  ChainsAreStored' /\ CallsCarry' /\ SessionsDoNotFork'
<1>. PICK new : new = IF carry[r] = 0 THEN t ELSE carry[r]
  OBVIOUS
<1>0. SessionsTypeOK /\ ChainsAreStored /\ CallsCarry /\ SessionsDoNotFork
  BY DEF SessionsInv
<1>1. /\ stage[r] = "store" /\ token[t] = "none"
      /\ token' = [token EXCEPT ![t] = "live"]
      /\ chain' = [chain EXCEPT ![t] = new]
      /\ carry' = [carry EXCEPT ![r] = 0]
      /\ stage' = [stage EXCEPT ![r] = "idle"]
      /\ row' = [row EXCEPT ![r] = NoRow]
  BY SessionBounds DEF StoreRefreshToken, Ends, Goes, Stored, In, Tokens
<1>2. new \in Tokens /\ t # 0
  BY <1>0, SessionBounds DEF SessionsTypeOK, Tokens
<1>3. ChainsAreStored'
  BY <1>0, <1>1, <1>2 DEF SessionsTypeOK, ChainsAreStored, Tokens
<1>4. CallsCarry'
  BY <1>0, <1>1 DEF SessionsTypeOK, CallsCarry, Holding
<1>5. Live' = Live \cup {t} /\ t \notin Live
  BY <1>0, <1>1 DEF SessionsTypeOK, Live, In
<1>6. LiveOf(new) = {} /\ \A x \in Live : chain[x] # new
  <2>1. CASE carry[r] = 0
    BY <1>0, <1>1, <2>1, SessionBounds DEF ChainsAreStored, LiveOf, Live, In, Tokens
  <2>2. CASE carry[r] # 0
    <3>1. r \in Rotating(new)
      BY <1>1, <2>2 DEF Rotating
    <3>2. QED
      BY <1>0, <1>2, <3>1 DEF SessionsDoNotFork, LiveOf
  <2>3. QED
    BY <2>1, <2>2
<1>7. ASSUME NEW c \in Tokens PROVE Rotating(c)' \subseteq Rotating(c) \ {r}
  BY <1>0, <1>1 DEF SessionsTypeOK, Rotating, Tokens
<1>8. Rotating(new)' = {}
  <2>1. CASE carry[r] = 0
    BY <1>0, <1>1, <1>2, <1>7, <2>1 DEF ChainsAreStored, Rotating
  <2>2. CASE carry[r] # 0
    <3>1. r \in Rotating(new)
      BY <1>1, <2>2 DEF Rotating
    <3>2. \A q \in Rotating(new) : q = r
      BY <1>0, <1>2, <3>1 DEF SessionsDoNotFork
    <3>3. Rotating(new)' \subseteq Rotating(new) \ {r}
      BY <1>2, <1>7
    <3>4. QED
      BY <3>2, <3>3
  <2>3. QED
    BY <2>1, <2>2
<1>9. ASSUME NEW c \in Tokens, c # new PROVE LiveOf(c)' = LiveOf(c)
  BY <1>0, <1>1, <1>2, <1>5, <1>9 DEF SessionsTypeOK, LiveOf, Live, In
<1>10. SessionsDoNotFork'
  <2>1. \A x, y \in Live' : chain'[x] = chain'[y] => x = y
    <3>1. \A x \in Live : chain'[x] = chain[x]
      BY <1>0, <1>1, <1>5 DEF SessionsTypeOK, Live, In
    <3>2. chain'[t] = new
      BY <1>0, <1>1 DEF SessionsTypeOK
    <3>3. QED
      BY <1>0, <1>5, <1>6, <3>1, <3>2 DEF SessionsDoNotFork
  <2>2. \A c \in Tokens : \A p, q \in Rotating(c)' : p = q
    BY <1>0, <1>7 DEF SessionsDoNotFork
  <2>3. \A c \in Tokens : LiveOf(c)' = {} \/ Rotating(c)' = {}
    <3> SUFFICES ASSUME NEW c \in Tokens PROVE LiveOf(c)' = {} \/ Rotating(c)' = {}
      OBVIOUS
    <3>1. CASE c = new
      BY <1>8, <3>1
    <3>2. CASE c # new
      <4>1. LiveOf(c)' = LiveOf(c) /\ Rotating(c)' \subseteq Rotating(c)
        BY <1>7, <1>9, <3>2
      <4>2. QED
        BY <1>0, <4>1 DEF SessionsDoNotFork
    <3>3. QED
      BY <3>1, <3>2
  <2>4. QED
    BY <2>1, <2>2, <2>3 DEF SessionsDoNotFork
<1>11. QED
  BY <1>3, <1>4, <1>10

LEMMA SessionsStep == SessionsInv /\ [Next]_vars => SessionsInv'
<1> SUFFICES ASSUME SessionsInv, [Next]_vars PROVE SessionsInv'
  OBVIOUS
<1>1. ChainsAreStored' /\ CallsCarry' /\ SessionsDoNotFork'
  BY SessionsTyped, StepKinds, ShrinkStep, ConsumeStep, StoreStep DEF Moves
<1>2. QED
  BY <1>1, SessionsTyped DEF SessionsInv

(* The state stays within its types, and the chains and the calls agree.   *)
THEOREM SessionsInvariant == Spec => []SessionsInv
<1>1. QED
  BY SessionsInit, SessionsStep, PTL DEF Spec

THEOREM SessionsTypeCorrect == Spec => []SessionsTypeOK
<1>1. SessionsInv => SessionsTypeOK
  BY DEF SessionsInv
<1>2. QED
  BY <1>1, SessionsInvariant, PTL

(* A session never forks, whatever calls present its token at once.        *)
THEOREM NoSessionForks == Spec => []SessionsDoNotFork
<1>1. SessionsInv => SessionsDoNotFork
  BY DEF SessionsInv
<1>2. QED
  BY <1>1, SessionsInvariant, PTL

-----------------------------------------------------------------------------
(* Ended chains. *)

EndsLast == \A c \in Tokens : Ended(c) => Ended(c)'

LEMMA EndedStep == SessionsInv /\ [Next]_vars => EndsLast
<1> SUFFICES ASSUME SessionsInv, [Next]_vars, NEW c \in Tokens, Ended(c) PROVE Ended(c)'
  BY DEF EndsLast
<1>0. SessionsTypeOK /\ ChainsAreStored /\ CallsCarry
  BY DEF SessionsInv
<1>1. token[c] # "none" /\ c # 0 /\ chain[c] = c /\ LiveOf(c) = {} /\ Rotating(c) = {}
  BY <1>0, SessionBounds DEF Ended, ChainsAreStored, Tokens
<1>2. CASE Shrinks
  BY <1>1, <1>2 DEF Shrinks, Ended, LiveOf, Rotating, Holding
<1>3. ASSUME NEW r \in Requests, NEW t \in Tokens, ConsumeRefreshToken(r, t) PROVE Ended(c)'
  <2>1. /\ token[t] = "live" /\ chain' = chain
        /\ token' = [s \in Tokens |-> IF s \in {t} THEN "recent" ELSE token[s]]
        /\ carry' = [carry EXCEPT ![r] = chain[t]]
        /\ stage' = [stage EXCEPT ![r] = "check"]
    BY <1>3 DEF ConsumeRefreshToken, Revoke, Takes, Goes
  <2>2. chain[t] # c
    BY <1>1, <2>1 DEF LiveOf, Live, In
  <2>3. LiveOf(c)' = {}
    BY <1>1, <2>1 DEF LiveOf, Live, In
  <2>4. Rotating(c)' = {}
    BY <1>0, <1>1, <2>1, <2>2 DEF Rotating, SessionsTypeOK
  <2>5. QED
    BY <1>1, <2>1, <2>3, <2>4 DEF Ended
<1>4. ASSUME NEW r \in Requests, NEW t \in Tokens, StoreRefreshToken(r, t) PROVE Ended(c)'
  <2> DEFINE new == IF carry[r] = 0 THEN t ELSE carry[r]
  <2>1. /\ stage[r] = "store" /\ token[t] = "none"
        /\ token' = [token EXCEPT ![t] = "live"]
        /\ chain' = [chain EXCEPT ![t] = new]
        /\ carry' = [carry EXCEPT ![r] = 0]
        /\ stage' = [stage EXCEPT ![r] = "idle"]
    BY <1>4, SessionBounds DEF StoreRefreshToken, Ends, Goes, Stored, In, Tokens
  <2>2. t # c /\ new # c
    BY <1>1, <2>1 DEF Rotating
  <2>3. chain'[c] = c /\ \A s \in Tokens : s \in Live' /\ chain'[s] = c => s \in Live /\ chain[s] = c
    BY <1>0, <1>1, <2>1, <2>2 DEF SessionsTypeOK, Live, In
  <2>4. LiveOf(c)' = {}
    BY <1>1, <2>3 DEF LiveOf, Live, In
  <2>5. Rotating(c)' = {}
    BY <1>0, <1>1, <2>1 DEF Rotating, SessionsTypeOK
  <2>6. QED
    BY <2>3, <2>4, <2>5 DEF Ended
<1>5. QED
  BY <1>2, <1>3, <1>4, StepKinds DEF Moves

(* A session that has ended never comes back.                              *)
THEOREM EndedForGood == Spec => EndedSessionsStayEnded
<1>1. SessionsInv /\ [Next]_vars => [EndsLast]_vars
  BY EndedStep
<1>2. QED
  BY <1>1, SessionsInvariant, PTL DEF Spec, EndedSessionsStayEnded, EndsLast

=============================================================================
