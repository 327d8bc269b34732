----------------------------- MODULE PeopleProofs -----------------------------
(***************************************************************************)
(* Proofs about people and what they are let into: the connection of two   *)
(* people with their chat, for any number of messages, and the doors of    *)
(* communities and plans, for any number of guests and every kind of       *)
(* community and plan.  The two share no state; each theorem names the     *)
(* specification it is about.                                              *)
(***************************************************************************)
EXTENDS Circle, Access, TLAPS

-----------------------------------------------------------------------------
(* The connection of two people. *)


Statuses == {"none", "pending", "accepted", "rejected"}
CallSteps == {"idle", "request", "respond", "tell_request", "tell_accepted", "pass", "wave", "open"}

(* The columns that the two properties are about. *)
PairTyped ==
  /\ row \in [People -> Statuses]
  /\ swipe \in [People -> {"none", "pass", "wave"}]
  /\ call \in [People -> CallSteps]
  /\ seen \in [People -> [by : People \cup {NoOne}, status : Statuses]]
  /\ said \subseteq People

(* Create and Swipe work under the lock. *)
Locked == \A u \in People : call[u] \in {"request", "pass", "wave"} => lock = u

(* What a call has read of the table is still right where it matters: that *)
(* there is no row, or that there is this one.                             *)
SeenStands ==
  \A u \in People :
    /\ call[u] = "request" /\ seen[u] = NoRow => \A v \in People : row[v] = "none"
    /\ call[u] = "request" /\ seen[u] # NoRow => seen[u].by \in People /\ row[seen[u].by] # "none"
    /\ call[u] = "respond" => seen[u].by = Other(u) /\ row[Other(u)] # "none"

(* Who requested or waved has said so. *)
AskedSaid == \A u \in People : row[u] # "none" \/ swipe[u] = "wave" => u \in said

(* The inductive invariant. *)
CircleInv == PairTyped /\ Locked /\ SeenStands /\ AskedSaid /\ OneConnection /\ BothAgreed

-----------------------------------------------------------------------------
(* There is exactly one other person. *)
LEMMA OtherPerson ==
  ASSUME NEW u \in People
  PROVE  Other(u) \in People /\ Other(u) # u /\ People = {u, Other(u)}
  <1>1. PICK a, b : a # b /\ People = {a, b}
    BY PairAssumption
  <1>2. \E v \in People : v # u
    BY <1>1
  <1>3. Other(u) \in People /\ Other(u) # u
    BY <1>2 DEF Other
  <1>4. QED
    BY <1>1, <1>3

LEMMA CircleInvInit == Init => CircleInv
  BY DEF Init, CircleInv, PairTyped, Locked, SeenStands, AskedSaid, OneConnection, BothAgreed,
     NoRow, Statuses, CallSteps

(* Steps that leave the connection, the waves and the lock alone. *)
LEMMA CircleInvQuiet ==
  ASSUME CircleInv, UNCHANGED <<row, swipe, lock, seen, said>>,
         call' \in [People -> CallSteps],
         \A u \in People : call'[u] \in {"request", "respond", "pass", "wave"} => call'[u] = call[u]
  PROVE  CircleInv'
  BY DEF CircleInv, PairTyped, Locked, SeenStands, AskedSaid, OneConnection, BothAgreed, NoRow

LEMMA CircleInvStep ==
  ASSUME CircleInv, [Next]_vars
  PROVE  CircleInv'
  <1>1. ASSUME NEW u \in People, RequestReads(u)
        PROVE  CircleInv'
    <2>1. /\ call' = [call EXCEPT ![u] = "request"] /\ lock = NoOne /\ lock' = u
          /\ UNCHANGED <<row, swipe, said>> /\ call[u] = "idle"
      BY <1>1 DEF RequestReads, LocksPair, At, pair
    <2>2. PICK r \in IF Rows = {} THEN {NoRow} ELSE Rows : seen' = [seen EXCEPT ![u] = r]
      BY <1>1 DEF RequestReads
    <2>3. r \in [by : People \cup {NoOne}, status : Statuses]
      BY <2>2 DEF Rows, NoRow, CircleInv, PairTyped, Statuses
    <2>4. PairTyped'
      BY <2>1, <2>2, <2>3 DEF CircleInv, PairTyped, CallSteps
    <2>5. Locked'
      BY <2>1, PairAssumption DEF CircleInv, PairTyped, Locked
    <2>6. SeenStands'
      <3>1. CASE Rows = {}
        <4>1. r = NoRow /\ \A v \in People : row[v] = "none"
          BY <2>2, <3>1 DEF Rows
        <4>2. QED
          BY <2>1, <2>2, <4>1 DEF CircleInv, PairTyped, SeenStands, NoRow
      <3>2. CASE Rows # {}
        <4>1. PICK v \in People : row[v] # "none" /\ r = [by |-> v, status |-> row[v]]
          BY <2>2, <3>2 DEF Rows
        <4>2. r # NoRow /\ r.by \in People /\ row[r.by] # "none"
          BY <4>1, PairAssumption DEF NoRow
        <4>3. QED
          BY <2>1, <2>2, <4>2 DEF CircleInv, PairTyped, SeenStands, NoRow
      <3>3. QED
        BY <3>1, <3>2
    <2>7. QED
      BY <2>1, <2>4, <2>5, <2>6 DEF CircleInv, AskedSaid, OneConnection, BothAgreed
  <1>2. ASSUME NEW u \in People, RequestWrites(u)
        PROVE  CircleInv'
    <2> DEFINE v == Other(u)
    <2>1. v \in People /\ v # u /\ People = {u, v}
      BY OtherPerson
    <2>2. /\ lock = u /\ lock' = NoOne /\ seen' = [seen EXCEPT ![u] = NoRow]
          /\ said' = said \cup {u} /\ swipe' = swipe /\ call[u] = "request"
      BY <1>2 DEF RequestWrites, Commits, CircleInv, Locked
    <2>3. call[v] \notin {"request", "pass", "wave"}
      BY <2>1, <2>2 DEF CircleInv, Locked
    <2>4. CASE RequestInserts(u)
      <3>1. /\ row' = [row EXCEPT ![u] = "pending"] /\ call' = [call EXCEPT ![u] = "tell_request"]
            /\ \A w \in People : row[w] = "none"
        BY <2>2, <2>4 DEF RequestInserts, At, CircleInv, SeenStands
      <3>2. PairTyped'
        BY <2>2, <3>1 DEF CircleInv, PairTyped, NoRow, Statuses, CallSteps
      <3>3. Locked' /\ SeenStands'
        BY <2>1, <2>2, <2>3, <3>1 DEF CircleInv, PairTyped, Locked, SeenStands, NoRow
      <3>4. AskedSaid' /\ OneConnection' /\ BothAgreed'
        BY <2>2, <3>1 DEF CircleInv, PairTyped, AskedSaid, OneConnection, BothAgreed, Statuses
      <3>5. QED
        BY <3>2, <3>3, <3>4 DEF CircleInv
    <2>5. CASE RequestMeets(u)
      <3>1. /\ row' = [row EXCEPT ![v] = "accepted"] /\ call' = [call EXCEPT ![u] = "tell_accepted"]
            /\ row[v] # "none"
        BY <2>1, <2>2, <2>5 DEF RequestMeets, At, CircleInv, SeenStands, NoRow
      <3>2. v \in said
        BY <2>1, <3>1 DEF CircleInv, AskedSaid
      <3>3. PairTyped'
        BY <2>1, <2>2, <3>1 DEF CircleInv, PairTyped, NoRow, Statuses, CallSteps
      <3>4. Locked' /\ SeenStands'
        BY <2>1, <2>2, <2>3, <3>1 DEF CircleInv, PairTyped, Locked, SeenStands, NoRow
      <3>5. AskedSaid' /\ OneConnection' /\ BothAgreed'
        BY <2>1, <2>2, <3>1, <3>2 DEF CircleInv, PairTyped, AskedSaid, OneConnection, BothAgreed
      <3>6. QED
        BY <3>3, <3>4, <3>5 DEF CircleInv
    <2>6. CASE RequestFinds(u)
      <3>1. row' = row /\ call' = [call EXCEPT ![u] = "idle"]
        BY <2>6 DEF RequestFinds, At
      <3>2. PairTyped'
        BY <2>2, <3>1 DEF CircleInv, PairTyped, NoRow, Statuses, CallSteps
      <3>3. Locked' /\ SeenStands'
        BY <2>1, <2>2, <2>3, <3>1 DEF CircleInv, PairTyped, Locked, SeenStands, NoRow
      <3>4. QED
        BY <2>2, <3>1, <3>2, <3>3 DEF CircleInv, PairTyped, AskedSaid, OneConnection, BothAgreed
    <2>7. QED
      BY <1>2, <2>4, <2>5, <2>6 DEF RequestWrites
  <1>3. ASSUME NEW u \in People, Tells(u)
        PROVE  CircleInv'
    BY <1>3, CircleInvQuiet DEF Tells, At, pair, CircleInv, PairTyped, CallSteps
  <1>4. ASSUME NEW u \in People, RespondReads(u)
        PROVE  CircleInv'
    <2>1. PICK w \in RequestsTo(u) : seen' = [seen EXCEPT ![u] = [by |-> w, status |-> row[w]]]
      BY <1>4 DEF RespondReads
    <2>2. w = Other(u) /\ row[w] # "none" /\ w \in People /\ Other(u) \in People
      BY <2>1, OtherPerson DEF RequestsTo
    <2>3. /\ call' = [call EXCEPT ![u] = "respond"] /\ UNCHANGED <<row, swipe, lock, said>>
      BY <1>4 DEF RespondReads, At, pair
    <2>4. PairTyped'
      BY <2>1, <2>2, <2>3 DEF CircleInv, PairTyped, CallSteps
    <2>5. SeenStands'
      BY <2>1, <2>2, <2>3 DEF CircleInv, PairTyped, SeenStands, NoRow
    <2>6. QED
      BY <2>3, <2>4, <2>5 DEF CircleInv, PairTyped, Locked, AskedSaid, OneConnection, BothAgreed
  <1>5. ASSUME NEW u \in People, NEW accept \in BOOLEAN, RespondWrites(u, accept)
        PROVE  CircleInv'
    <2> DEFINE v == Other(u)
               to == IF accept THEN "accepted" ELSE "rejected"
    <2>1. v \in People /\ v # u /\ People = {u, v}
      BY OtherPerson
    <2>2. seen[u].by = v /\ row[v] # "none" /\ call[u] = "respond"
      BY <1>5 DEF RespondWrites, CircleInv, SeenStands
    <2>3. row' = IF row[v] = "pending" THEN [row EXCEPT ![v] = to] ELSE row
      <3>1. Decides(v, to)
        BY <1>5, <2>2 DEF RespondWrites
      <3>2. QED
        BY <3>1 DEF Decides
    <2>4. /\ seen' = [seen EXCEPT ![u] = NoRow] /\ UNCHANGED <<swipe, lock>>
          /\ said' = IF accept /\ row[v] = "pending" THEN said \cup {u} ELSE said
      BY <1>5, <2>2 DEF RespondWrites
    <2>5. PICK s \in {"tell_accepted", "idle"} : call' = [call EXCEPT ![u] = s]
      BY <1>5 DEF RespondWrites, At
    <2>6. PairTyped'
      BY <2>1, <2>3, <2>4, <2>5 DEF CircleInv, PairTyped, NoRow, Statuses, CallSteps
    <2>7. \A w \in People : (row'[w] = "none") <=> (row[w] = "none")
      <3>1. row \in [People -> Statuses]
        BY DEF CircleInv, PairTyped
      <3>2. to # "none"
        OBVIOUS
      <3>3. CASE row[v] = "pending"
        <4>1. row' = [row EXCEPT ![v] = to]
          BY <2>3, <3>3
        <4>2. QED
          BY <2>1, <2>2, <3>1, <3>2, <4>1
      <3>4. QED
        BY <2>3, <3>3
    <2>8. Locked' /\ SeenStands'
      <3>1. \A w \in People : call'[w] \in {"request", "respond", "pass", "wave"} =>
              w # u /\ call'[w] = call[w] /\ seen'[w] = seen[w]
        BY <2>4, <2>5 DEF CircleInv, PairTyped
      <3>2. QED
        BY <2>4, <2>7, <3>1, OtherPerson DEF CircleInv, Locked, SeenStands, NoRow
    <2>9. AskedSaid' /\ OneConnection'
      BY <2>4, <2>7 DEF CircleInv, AskedSaid, OneConnection
    <2>10. BothAgreed'
      <3>1. v \in said
        BY <2>1, <2>2 DEF CircleInv, AskedSaid
      <3>2. CASE row[v] = "pending" /\ accept
        BY <2>1, <2>4, <3>1, <3>2 DEF CircleInv, PairTyped, BothAgreed
      <3>3. CASE ~(row[v] = "pending" /\ accept)
        <4>1. \A w \in People : row'[w] = "accepted" => row[w] = "accepted"
          BY <2>1, <2>3, <3>3 DEF CircleInv, PairTyped
        <4>2. said' = said
          BY <2>4, <3>3
        <4>3. QED
          BY <4>1, <4>2 DEF CircleInv, BothAgreed
      <3>4. QED
        BY <3>2, <3>3
    <2>11. QED
      BY <2>6, <2>8, <2>9, <2>10 DEF CircleInv
  <1>6. ASSUME NEW u \in People, NEW action \in {"pass", "wave"}, SwipeReads(u, action)
        PROVE  CircleInv'
    <2>1. /\ call' = [call EXCEPT ![u] = action] /\ lock = NoOne /\ lock' = u
          /\ UNCHANGED <<row, swipe, seen, said>>
      BY <1>6 DEF SwipeReads, LocksPair, At, pair
    <2>2. PairTyped' /\ SeenStands'
      BY <2>1 DEF CircleInv, PairTyped, SeenStands, CallSteps, NoRow
    <2>3. Locked'
      BY <2>1, PairAssumption DEF CircleInv, PairTyped, Locked
    <2>4. QED
      BY <2>1, <2>2, <2>3 DEF CircleInv, AskedSaid, OneConnection, BothAgreed
  <1>7. ASSUME NEW u \in People, SwipeWrites(u)
        PROVE  CircleInv'
    <2> DEFINE v == Other(u)
    <2>1. v \in People /\ v # u /\ People = {u, v}
      BY OtherPerson
    <2>2. /\ lock = u /\ lock' = NoOne /\ call[u] \in {"pass", "wave"}
          /\ swipe' = [swipe EXCEPT ![u] = call[u]] /\ call' = [call EXCEPT ![u] = "idle"]
          /\ said' = (IF call[u] \in Waves THEN said \cup {u} ELSE said) /\ seen' = seen
      BY <1>7 DEF SwipeWrites, At, CircleInv, Locked
    <2>3. row' = IF Matches(u, call[u]) THEN Connected(u) ELSE row
      BY <1>7 DEF SwipeWrites
    <2>4. call[v] \notin {"request", "pass", "wave"}
      BY <2>1, <2>2 DEF CircleInv, Locked
    <2>5. CASE ~Matches(u, call[u])
      <3>1. row' = row
        BY <2>3, <2>5
      <3>2. PairTyped' /\ Locked' /\ SeenStands'
        BY <2>1, <2>2, <2>4, <3>1 DEF CircleInv, PairTyped, Locked, SeenStands, NoRow, CallSteps
      <3>3. AskedSaid' /\ OneConnection' /\ BothAgreed'
        BY <2>2, <3>1 DEF CircleInv, PairTyped, AskedSaid, OneConnection, BothAgreed, Waves
      <3>4. QED
        BY <3>2, <3>3 DEF CircleInv
    <2>6. CASE Matches(u, call[u])
      <3>1. said' = People
        BY <2>1, <2>2, <2>6 DEF Matches, Waves, CircleInv, PairTyped, AskedSaid
      <3>2. row' = Connected(u)
        BY <2>3, <2>6
      <3>3. CASE \A w \in People : row[w] = "none"
        <4>1. row' = [row EXCEPT ![u] = "accepted"]
          BY <3>2, <3>3 DEF Connected
        <4>2. call[v] # "respond"
          BY <2>1, <3>3, OtherPerson DEF CircleInv, SeenStands
        <4>3. PairTyped' /\ Locked' /\ SeenStands'
          BY <2>1, <2>2, <2>4, <4>1, <4>2 DEF CircleInv, PairTyped, Locked, SeenStands, NoRow, CallSteps, Statuses
        <4>4. AskedSaid' /\ OneConnection' /\ BothAgreed'
          BY <3>1, <3>3, <4>1 DEF CircleInv, PairTyped, AskedSaid, OneConnection, BothAgreed
        <4>5. QED
          BY <4>3, <4>4 DEF CircleInv
      <3>4. CASE ~\A w \in People : row[w] = "none"
        <4>1. row' = [w \in People |-> IF row[w] = "none" THEN "none" ELSE "accepted"]
          BY <3>2, <3>4 DEF Connected
        <4>2. PairTyped' /\ Locked'
          BY <2>1, <2>2, <2>4, <4>1 DEF CircleInv, PairTyped, Locked, CallSteps, Statuses
        <4>3. SeenStands'
          <5>1. \A w \in People : (row'[w] = "none") <=> (row[w] = "none")
            BY <4>1
          <5>2. \A w \in People : call'[w] \in {"request", "respond"} => call'[w] = call[w]
            BY <2>2 DEF CircleInv, PairTyped
          <5>3. QED
            BY <2>2, <5>1, <5>2, OtherPerson DEF CircleInv, SeenStands, NoRow
        <4>4. OneConnection'
          BY <4>1 DEF CircleInv, OneConnection
        <4>5. AskedSaid' /\ BothAgreed'
          BY <3>1 DEF AskedSaid, BothAgreed
        <4>6. QED
          BY <4>2, <4>3, <4>4, <4>5 DEF CircleInv
      <3>5. QED
        BY <3>3, <3>4
    <2>7. QED
      BY <2>5, <2>6
  <1>8. ASSUME NEW u \in People, OpenReads(u) \/ OpenDM(u)
        PROVE  CircleInv'
    BY <1>8, CircleInvQuiet DEF OpenReads, OpenDM, At, pair, CircleInv, PairTyped, CallSteps
  <1>9. CASE UNCHANGED <<pair, lock, call, seen, said>>
    BY <1>9, CircleInvQuiet DEF pair, CircleInv, PairTyped
  <1>10. ASSUME NEW u \in People,
                BlockUser(u) \/ UnblockUser(u) \/ SendChecks(u) \/ SendInserts(u) \/ NotifyDM(u)
                \/ CreatePoll(u) \/ MarkRead(u) \/ ClearNotices(u) \/ DropNotices(u)
                \/ DeliverPush(u) \/ DropPush(u)
         PROVE  CircleInv'
    BY <1>10, <1>9 DEF BlockUser, UnblockUser, SendChecks, SendInserts, NotifyDM, CreatePoll, MarkRead,
       ClearNotices, DropNotices, DeliverPush, DropPush
  <1>11. CASE UNCHANGED vars
    BY <1>11, <1>9 DEF vars
  <1>12. QED
    BY <1>1, <1>2, <1>3, <1>4, <1>5, <1>6, <1>7, <1>8, <1>10, <1>11 DEF Next

(* The invariant of the pair. *)
THEOREM CircleInvariant == Spec => []CircleInv
  BY CircleInvInit, CircleInvStep, PTL DEF Spec

(* The pair has at most one connection row, whoever asks, waves or answers *)
(* first (the advisory lock of connections.Create and meet.Swipe).         *)
THEOREM CircleOneConnection == Spec => []OneConnection
  <1>1. CircleInv => OneConnection
    BY DEF CircleInv
  <1>2. QED
    BY <1>1, CircleInvariant, PTL

(* Nobody is connected to somebody without having asked, waved or accepted *)
(* (Create, Respond, Swipe).                                               *)
THEOREM CircleBothAgreed == Spec => []BothAgreed
  <1>1. CircleInv => BothAgreed
    BY DEF CircleInv
  <1>2. QED
    BY <1>1, CircleInvariant, PTL

(* No step takes an accepted connection back. *)
LEMMA AcceptedStep ==
  ASSUME CircleInv, [Next]_vars, NEW x \in People, row[x] = "accepted"
  PROVE  row'[x] = "accepted"
  <1> USE DEF CircleInv, PairTyped
  <1>1. ASSUME NEW u \in People, RequestWrites(u)
        PROVE  row'[x] = "accepted"
    <2>1. CASE RequestInserts(u)
      BY <1>1, <2>1 DEF RequestWrites, RequestInserts, SeenStands
    <2>2. CASE RequestMeets(u)
      BY <2>2, OtherPerson DEF RequestMeets
    <2>3. CASE RequestFinds(u)
      BY <2>3 DEF RequestFinds
    <2>4. QED
      BY <1>1, <2>1, <2>2, <2>3 DEF RequestWrites
  <1>2. ASSUME NEW u \in People, NEW accept \in BOOLEAN, RespondWrites(u, accept)
        PROVE  row'[x] = "accepted"
    <2> DEFINE v == seen[u].by
               to == IF accept THEN "accepted" ELSE "rejected"
    <2>1. Decides(v, to)
      BY <1>2 DEF RespondWrites
    <2>2. CASE row[v] = "pending"
      <3>1. row' = [row EXCEPT ![v] = to] /\ v # x
        BY <2>1, <2>2 DEF Decides
      <3>2. QED
        BY <3>1
    <2>3. CASE row[v] # "pending"
      BY <2>1, <2>3 DEF Decides
    <2>4. QED
      BY <2>2, <2>3
  <1>3. ASSUME NEW u \in People, SwipeWrites(u)
        PROVE  row'[x] = "accepted"
    <2>1. Connected(u)[x] = "accepted"
      BY DEF Connected
    <2>2. QED
      BY <1>3, <2>1 DEF SwipeWrites
  <1>4. CASE UNCHANGED row
    BY <1>4
  <1>5. ASSUME NEW u \in People,
               RequestReads(u) \/ Tells(u) \/ RespondReads(u)
               \/ (\E action \in {"pass", "wave"} : SwipeReads(u, action))
               \/ BlockUser(u) \/ UnblockUser(u) \/ OpenReads(u) \/ OpenDM(u)
               \/ SendChecks(u) \/ SendInserts(u) \/ NotifyDM(u) \/ CreatePoll(u)
               \/ MarkRead(u) \/ ClearNotices(u) \/ DropNotices(u) \/ DeliverPush(u) \/ DropPush(u)
        PROVE  UNCHANGED row
    BY <1>5 DEF RequestReads, Tells, RespondReads, SwipeReads, BlockUser, UnblockUser, OpenReads,
       OpenDM, SendChecks, SendInserts, NotifyDM, CreatePoll, MarkRead, ClearNotices, DropNotices,
       DeliverPush, DropPush, pair
  <1>6. CASE UNCHANGED vars
    BY <1>6, <1>4 DEF vars, pair
  <1>7. QED
    BY <1>1, <1>2, <1>3, <1>4, <1>5, <1>6 DEF Next

(* An accepted connection stays accepted: an answer decides only a pending *)
(* request, and a request is inserted only where there is no row.          *)
THEOREM CircleAcceptedStays == Spec => AcceptedStays
  <1>1. CircleInv /\ [Next]_vars => [\A u \in People : row[u] = "accepted" => row'[u] = "accepted"]_vars
    BY AcceptedStep
  <1>2. QED
    BY <1>1, CircleInvariant, PTL DEF Spec, AcceptedStays

-----------------------------------------------------------------------------
(* Type correctness of the pair: connection, chat and notices.               *)
THEOREM CircleTypeCorrect == Spec => []CircleTypeOK
  <1>1. Init => CircleTypeOK
    <2> SUFFICES ASSUME Init PROVE CircleTypeOK
      OBVIOUS
    <2>1. sent \in 0..MaxMessages
      BY MessagesAssumption DEF Init
    <2>2. seen \in [People -> [by : People \cup {NoOne},
                              status : {"none", "pending", "accepted", "rejected"}]]
      BY DEF Init, NoRow
    <2>3. QED
      BY <2>1, <2>2 DEF Init, CircleTypeOK
  <1>2. CircleTypeOK /\ CircleInv /\ CircleInv' /\ [Next]_vars => CircleTypeOK'
    <2> SUFFICES ASSUME CircleTypeOK, CircleInv, CircleInv', [Next]_vars
                 PROVE  CircleTypeOK'
      OBVIOUS
    <2> USE DEF CircleTypeOK
    <2>1. /\ row' \in [People -> {"none", "pending", "accepted", "rejected"}]
          /\ swipe' \in [People -> {"none", "pass", "wave"}]
          /\ call' \in [People -> {"idle", "request", "respond", "tell_request", "tell_accepted",
                                   "pass", "wave", "open"}]
          /\ seen' \in [People -> [by : People \cup {NoOne},
                                   status : {"none", "pending", "accepted", "rejected"}]]
          /\ said' \subseteq People
      BY DEF CircleInv, PairTyped, Statuses, CallSteps
    <2>2. ASSUME UNCHANGED <<blocks, room, send, reads, sent, fresh, notice, queued>>,
                 lock' \in People \cup {NoOne}
          PROVE  CircleTypeOK'
      BY <2>1, <2>2
    <2>3. ASSUME NEW u \in People,
                 \/ RequestReads(u) \/ RequestWrites(u)
                 \/ RespondReads(u) \/ (\E accept \in BOOLEAN : RespondWrites(u, accept))
                 \/ (\E action \in {"pass", "wave"} : SwipeReads(u, action)) \/ OpenReads(u)
          PROVE  CircleTypeOK'
      BY <2>2, <2>3 DEF RequestReads, RequestWrites, Commits, RespondReads, RespondWrites,
         SwipeReads, OpenReads, LocksPair, chat
    <2>4. ASSUME NEW u \in People, NEW kind \in {"request", "accepted", "message"}, Emits(u, kind)
          PROVE  notice' \in [People -> SUBSET {"request", "accepted", "message", "push"}]
      BY <2>4 DEF Emits
    <2>5. ASSUME NEW u \in People, Tells(u) \/ NotifyDM(u)
          PROVE  CircleTypeOK'
      <3>1. Other(u) \in People
        BY OtherPerson
      <3>2. CASE Tells(u)
        <4>1. notice' \in [People -> SUBSET {"request", "accepted", "message", "push"}]
          BY <2>4, <3>1, <3>2 DEF Tells
        <4>2. QED
          BY <2>1, <3>2, <4>1 DEF Tells, chat
      <3>3. CASE NotifyDM(u)
        <4>1. notice' \in [People -> SUBSET {"request", "accepted", "message", "push"}]
          BY <2>4, <3>1, <3>3 DEF NotifyDM
        <4>2. QED
          BY <2>1, <3>3, <4>1 DEF NotifyDM
      <3>4. QED
        BY <2>5, <3>2, <3>3
    <2>6. ASSUME NEW u \in People, BlockUser(u) \/ UnblockUser(u) \/ OpenDM(u)
          PROVE  CircleTypeOK'
      <3>1. CASE BlockUser(u) \/ UnblockUser(u)
        <4>1. blocks' \subseteq People /\ UNCHANGED <<lock, chat, notice, queued>>
          BY <3>1 DEF BlockUser, UnblockUser
        <4>2. QED
          BY <2>1, <4>1 DEF chat
      <3>2. CASE OpenDM(u)
        <4>1. room' = TRUE /\ UNCHANGED <<blocks, lock, send, reads, sent, fresh, notice, queued>>
          BY <3>2 DEF OpenDM
        <4>2. QED
          BY <2>1, <4>1
      <3>3. QED
        BY <2>6, <3>1, <3>2
    <2>7. ASSUME NEW u \in People, SendChecks(u)
          PROVE  CircleTypeOK'
      BY <2>1, <2>7 DEF SendChecks
    <2>8. ASSUME NEW u \in People, SendInserts(u)
          PROVE  CircleTypeOK'
      <3>1. Other(u) \in People
        BY OtherPerson
      <3>2. sent' \in 0..MaxMessages
        BY <2>8, MessagesAssumption DEF SendInserts
      <3>3. fresh' \in [People -> Nat] /\ send' \in [People -> {"idle", "checked", "notify"}]
        BY <2>8, <3>1 DEF SendInserts
      <3>4. QED
        BY <2>1, <2>8, <3>2, <3>3 DEF SendInserts
    <2>9. ASSUME NEW u \in People, MarkRead(u) \/ ClearNotices(u) \/ DropNotices(u)
          PROVE  CircleTypeOK'
      BY <2>1, <2>9 DEF MarkRead, ClearNotices, DropNotices, chat
    <2>10. ASSUME NEW u \in People, SwipeWrites(u)
           PROVE  CircleTypeOK'
      <3>1. Pushes(u, call[u]) \subseteq People
        BY OtherPerson DEF Pushes
      <3>2. QED
        BY <2>1, <2>10, <3>1 DEF SwipeWrites, chat
    <2>11. ASSUME NEW u \in People, DeliverPush(u) \/ DropPush(u)
           PROVE  CircleTypeOK'
      <3>1. queued' \subseteq People
        BY <2>11 DEF DeliverPush, DropPush
      <3>2. notice' \in [People -> SUBSET {"request", "accepted", "message", "push"}]
        BY <2>11 DEF DeliverPush, DropPush
      <3>3. UNCHANGED <<blocks, lock, chat>>
        BY <2>11 DEF DeliverPush, DropPush
      <3>4. QED
        BY <2>1, <3>1, <3>2, <3>3 DEF chat
    <2>12. ASSUME NEW u \in People, CreatePoll(u)
           PROVE  CircleTypeOK'
      <3>1. Other(u) \in People
        BY OtherPerson
      <3>2. sent' \in 0..MaxMessages /\ fresh' \in [People -> Nat]
        BY <2>12, <3>1, MessagesAssumption DEF CreatePoll
      <3>3. UNCHANGED <<blocks, lock, room, send, reads, notice, queued>>
        BY <2>12 DEF CreatePoll
      <3>4. QED
        BY <2>1, <3>2, <3>3
    <2>13. CASE UNCHANGED vars
      BY <2>2, <2>13 DEF vars, chat
    <2>14. QED
      BY <2>3, <2>5, <2>6, <2>7, <2>8, <2>9, <2>10, <2>11, <2>12, <2>13 DEF Next
  <1>3. QED
    BY <1>1, <1>2, CircleInvariant, PTL DEF Spec

(* The three things a block keeps from happening. *)
NoNewNotice ==
  \A u \in People : notice'[u] \subseteq notice[u] \cup (IF u \in queued THEN {"push"} ELSE {})
NoNewText == \A u \in People : send[u] = "idle" => send'[u] = "idle"
NothingAppears ==
  /\ room' = room /\ swipe' = swipe /\ queued' \subseteq queued
  /\ \A u \in People : row[u] = "none" => row'[u] = "none"
NobodyPastCheck ==
  \A u \in People : call[u] \in {"idle", "respond", "tell_request", "tell_accepted"}

LEMMA BlockedStep ==
  ASSUME CircleTypeOK, Blocked, [Next]_vars
  PROVE  NoNewNotice /\ NoNewText /\ (NobodyPastCheck => NothingAppears)
  <1> USE DEF CircleTypeOK, NoNewNotice, NoNewText, NothingAppears
  <1>1. ASSUME NEW u \in People,
               RequestReads(u) \/ (\E action \in {"pass", "wave"} : SwipeReads(u, action))
               \/ OpenReads(u) \/ SendChecks(u)
        PROVE  FALSE
    BY <1>1 DEF RequestReads, SwipeReads, OpenReads, AreConnected, SendChecks, DMBlocked
  <1>2. ASSUME NEW u \in People, RequestWrites(u) \/ SwipeWrites(u) \/ OpenDM(u)
        PROVE  NoNewNotice /\ NoNewText /\ ~NobodyPastCheck
    BY <1>2 DEF RequestWrites, SwipeWrites, OpenDM, NobodyPastCheck, chat
  <1>3. ASSUME NEW u \in People, NEW accept \in BOOLEAN, RespondWrites(u, accept)
        PROVE  NoNewNotice /\ NoNewText /\ NothingAppears
    <2>1. \A w \in People : row[w] = "none" => row'[w] = "none"
      BY <1>3 DEF RespondWrites, Decides
    <2>2. QED
      BY <1>3, <2>1 DEF RespondWrites, chat
  <1>4. ASSUME NEW u \in People,
               Tells(u) \/ RespondReads(u) \/ BlockUser(u) \/ UnblockUser(u)
        PROVE  NoNewNotice /\ NoNewText /\ NothingAppears
    BY <1>4 DEF Tells, Emits, RespondReads, BlockUser, UnblockUser, pair, chat
  <1>5. ASSUME NEW u \in People,
               SendInserts(u) \/ NotifyDM(u) \/ CreatePoll(u)
               \/ MarkRead(u) \/ ClearNotices(u) \/ DropNotices(u)
        PROVE  NoNewNotice /\ NoNewText /\ NothingAppears
    BY <1>5 DEF SendInserts, NotifyDM, CreatePoll, Emits, MarkRead, ClearNotices, DropNotices, pair, chat
  <1>6. ASSUME NEW u \in People, DeliverPush(u) \/ DropPush(u)
        PROVE  NoNewNotice /\ NoNewText /\ NothingAppears
    <2>1. NoNewNotice
      BY <1>6 DEF DeliverPush, DropPush
    <2>2. queued' \subseteq queued /\ UNCHANGED <<row, swipe, room, send>>
      BY <1>6 DEF DeliverPush, DropPush, pair, chat
    <2>3. QED
      BY <2>1, <2>2
  <1>7. CASE UNCHANGED vars
    BY <1>7 DEF vars, pair, chat
  <1>8. QED
    BY <1>1, <1>2, <1>3, <1>4, <1>5, <1>6, <1>7 DEF Next

(* A block silences what follows it: a notice, a text, a chat, a request, a *)
(* wave and the push of a wave need a check of the blocks first, and only a *)
(* call that had made it before the block may still write.  A push queued   *)
(* before the block is delivered all the same, and a poll is not checked.   *)
THEOREM CircleBlocksSilence == Spec => BlocksSilence
  <1>1. CircleTypeOK /\ [Next]_vars =>
          [Blocked =>
             /\ \A u \in People :
                  notice'[u] \subseteq notice[u] \cup (IF u \in queued THEN {"push"} ELSE {})
             /\ \A u \in People : (send[u] = "idle" => send'[u] = "idle")
             /\ (\A u \in People : call[u] \in {"idle", "respond", "tell_request", "tell_accepted"})
                  => /\ room' = room /\ swipe' = swipe /\ queued' \subseteq queued
                     /\ \A u \in People : row[u] = "none" => row'[u] = "none"]_vars
    BY BlockedStep DEF NoNewNotice, NoNewText, NothingAppears, NobodyPastCheck
  <1>2. QED
    BY <1>1, CircleTypeCorrect, PTL DEF Spec, BlocksSilence

-----------------------------------------------------------------------------
(* The doors of communities and plans. *)

(* What entering a community asks for, and what the record shows of it.    *)
LetIn(u) ==
  /\ terms.type = "approval" => request[u] = "approved"
  /\ terms.type = "private" => request[u] = "approved" /\ u \in inviter
  /\ terms.type = "paid" => u \in entitled

(* What the first query of checkAccess saw, as the history keeps it. *)
WasWelcome(u) ==
  /\ terms.mode = "invite_only" => u \in wasInvited
  /\ terms.mode = "approval" => planRequest[u] = "approved" \/ u \in wasInvited
  /\ terms.visibility = "community" => u \in wasMember \/ u \in wasInvited

(* Only a community that asks for approval has requests to decide. *)
OnlyApprovalAsks ==
  \A u \in Guests : request[u] = "pending" \/ joining[u] = "requested" => terms.type = "approval"

AdmittedMayJoin == \A u \in Guests : joining[u] = "admitted" => LetIn(u)

CheckedWereWelcome ==
  \A u \in Guests :
    /\ booking[u] # "idle" => WasWelcome(u)
    /\ booking[u] = "admitted" /\ terms.premium => u \in entitled

HistoryHolds == members \subseteq wasMember /\ planInvited \subseteq wasInvited

AccessInv ==
  /\ AccessTypeOK
  /\ OnlyApprovalAsks
  /\ AdmittedMayJoin
  /\ MembersWereLetIn
  /\ HistoryHolds
  /\ CheckedWereWelcome
  /\ SeatsWereAllowed

(* The initial states: nobody has done anything. *)
LEMMA AccessInvInit == AccessInit => AccessInv
  BY DEF AccessInit, AccessInv, AccessTypeOK, OnlyApprovalAsks, AdmittedMayJoin, MembersWereLetIn,
         HistoryHolds, CheckedWereWelcome, SeatsWereAllowed, LetIn, WasWelcome, Steps

(* A step changes the sets and functions of the state within their types.  *)
LEMMA AccessTyped == AccessTypeOK /\ [AccessNext]_accessVars => AccessTypeOK'
<1> SUFFICES ASSUME AccessTypeOK, [AccessNext]_accessVars PROVE AccessTypeOK'
  OBVIOUS
<1> USE DEF AccessTypeOK, Steps
<1>1. CASE UNCHANGED accessVars
  BY <1>1 DEF accessVars, community, plan
<1>2. ASSUME NEW u \in Guests, Requests(u) \/ RequestAnswered(u) \/ Enters(u) \/ Join(u) \/ Leave(u)
      PROVE AccessTypeOK'
  BY <1>2 DEF Requests, RequestAnswered, Enters, Join, Leave, JoinAt, community, plan
<1>3. ASSUME NEW u \in Guests, Decisions(u) \/ Invite(u) \/ Subscribe(u)
      PROVE AccessTypeOK'
  BY <1>3 DEF Decisions, DecideRequest, DecideJoinRequest, Invite, Subscribe, community, plan
<1>4. ASSUME NEW u \in Guests, RequestToJoinPlan(u) \/ InvitePlanUser(u) \/ RevokeInvite(u)
      PROVE AccessTypeOK'
  BY <1>4 DEF RequestToJoinPlan, InvitePlanUser, RevokeInvite, community
<1>5. ASSUME NEW u \in Guests,
             ChecksAccess(u) \/ ChecksEntitlement(u) \/ Book(u) \/ CancelBooking(u)
      PROVE AccessTypeOK'
  BY <1>5 DEF ChecksAccess, ChecksEntitlement, Book, CancelBooking, BookAt, community, plan
<1>6. QED
  BY <1>1, <1>2, <1>3, <1>4, <1>5 DEF AccessNext

(* What a step never does to the record. *)
RecordKept ==
  /\ terms' = terms
  /\ inviter \subseteq inviter' /\ entitled \subseteq entitled'
  /\ wasMember \subseteq wasMember' /\ wasInvited \subseteq wasInvited'
  /\ \A v \in Guests : request[v] = "approved" => request'[v] = "approved"
  /\ \A v \in Guests : planRequest[v] = "approved" => planRequest'[v] = "approved"

(* The record never forgets: what let somebody in still stands later.      *)
LEMMA StepKeepsRecord == AccessTypeOK /\ [AccessNext]_accessVars => RecordKept
<1> SUFFICES ASSUME AccessTypeOK, [AccessNext]_accessVars PROVE RecordKept
  OBVIOUS
<1> USE DEF AccessTypeOK, RecordKept
<1>1. CASE UNCHANGED accessVars
  BY <1>1 DEF accessVars, community, plan
<1>2. ASSUME NEW u \in Guests, Requests(u) \/ RequestAnswered(u) \/ Enters(u) \/ Join(u) \/ Leave(u)
      PROVE RecordKept
  BY <1>2 DEF Requests, RequestAnswered, Enters, Join, Leave, community, plan
<1>3. ASSUME NEW u \in Guests, Decisions(u) \/ Invite(u) \/ Subscribe(u)
      PROVE RecordKept
  BY <1>3 DEF Decisions, DecideRequest, DecideJoinRequest, Invite, Subscribe, community, plan
<1>4. ASSUME NEW u \in Guests, RequestToJoinPlan(u) \/ InvitePlanUser(u) \/ RevokeInvite(u)
      PROVE RecordKept
  BY <1>4 DEF RequestToJoinPlan, InvitePlanUser, RevokeInvite, community
<1>5. ASSUME NEW u \in Guests,
             ChecksAccess(u) \/ ChecksEntitlement(u) \/ Book(u) \/ CancelBooking(u)
      PROVE RecordKept
  BY <1>5 DEF ChecksAccess, ChecksEntitlement, Book, CancelBooking, community, plan
<1>6. QED
  BY <1>1, <1>2, <1>3, <1>4, <1>5 DEF AccessNext

LEMMA RecordLetsIn ==
  ASSUME RecordKept, NEW u \in Guests, LetIn(u)
  PROVE  LetIn(u)'
  BY DEF RecordKept, LetIn

LEMMA RecordWelcomes ==
  ASSUME RecordKept, NEW u \in Guests, WasWelcome(u)
  PROVE  WasWelcome(u)'
  BY DEF RecordKept, WasWelcome

-----------------------------------------------------------------------------
(* The community. *)

(* Nobody is admitted, or put among the members, without being let in.     *)
LEMMA EntryStep ==
  ASSUME AccessInv, [AccessNext]_accessVars, NEW v \in Guests
  PROVE  /\ joining'[v] = "admitted" => LetIn(v)'
         /\ v \in members' => LetIn(v)'
         /\ request'[v] = "pending" \/ joining'[v] = "requested" => terms'.type = "approval"
<1> DEFINE Good == /\ joining'[v] = "admitted" => LetIn(v)'
                   /\ v \in members' => LetIn(v)'
                   /\ request'[v] = "pending" \/ joining'[v] = "requested" => terms'.type = "approval"
<1>1. RecordKept
  BY StepKeepsRecord DEF AccessInv
<1>2. LetIn(v) => LetIn(v)'
  BY <1>1, RecordLetsIn
<1>3. /\ joining[v] = "admitted" => LetIn(v)
      /\ v \in members => LetIn(v)
      /\ request[v] = "pending" \/ joining[v] = "requested" => terms.type = "approval"
      /\ terms' = terms /\ terms.type \in {"public", "private", "approval", "paid"}
  BY <1>1, TermsAssumption DEF AccessInv, AdmittedMayJoin, MembersWereLetIn, OnlyApprovalAsks, LetIn,
        AccessTypeOK, RecordKept, AllTerms
<1>4. joining \in [Guests -> Steps] /\ request \in [Guests -> {"none", "pending", "approved", "rejected"}]
  BY DEF AccessInv, AccessTypeOK
<1>5. CASE UNCHANGED <<community, joining>>
  BY <1>2, <1>3, <1>5 DEF community
<1>6. ASSUME NEW u \in Guests, Requests(u) PROVE Good
  BY <1>2, <1>3, <1>4, <1>6 DEF Requests, JoinAt, Steps
<1>7. ASSUME NEW u \in Guests, RequestAnswered(u) PROVE Good
  <2>1. u = v /\ request[v] = "approved" => LetIn(v)'
    BY <1>3, <1>4, <1>7 DEF RequestAnswered, LetIn, community
  <2>2. QED
    BY <1>2, <1>3, <1>4, <1>7, <2>1 DEF RequestAnswered, JoinAt, Steps, community
<1>8. ASSUME NEW u \in Guests, Enters(u) PROVE Good
  <2>1. u = v => LetIn(v)'
    BY <1>3, <1>8 DEF Enters, MayEnter, LetIn, community
  <2>2. QED
    BY <1>2, <1>3, <1>4, <1>8, <2>1 DEF Enters, JoinAt, Steps, community
<1>9. ASSUME NEW u \in Guests, Join(u) PROVE Good
  BY <1>2, <1>3, <1>4, <1>9 DEF Join, JoinAt, Steps
<1>10. ASSUME NEW u \in Guests, Leave(u) PROVE Good
  BY <1>2, <1>3, <1>10 DEF Leave
<1>11. ASSUME NEW u \in Guests, NEW approve \in BOOLEAN, DecideRequest(u, approve) PROVE Good
  <2>1. u = v /\ approve => LetIn(v)'
    BY <1>3, <1>4, <1>11 DEF DecideRequest, LetIn, OnlyApprovalAsks
  <2>2. v \in members' => v \in members \/ (u = v /\ approve)
    BY <1>11 DEF DecideRequest
  <2>3. request'[v] = "pending" => request[v] = "pending"
    BY <1>4, <1>11 DEF DecideRequest
  <2>4. QED
    BY <1>2, <1>3, <1>11, <2>1, <2>2, <2>3 DEF DecideRequest
<1>12. ASSUME NEW u \in Guests, Invite(u) PROVE Good
  BY <1>2, <1>3, <1>4, <1>12 DEF Invite
<1>13. ASSUME NEW u \in Guests,
              (\E approve \in BOOLEAN : DecideJoinRequest(u, approve)) \/ Subscribe(u)
              \/ RequestToJoinPlan(u) \/ InvitePlanUser(u) \/ RevokeInvite(u)
              \/ ChecksAccess(u) \/ ChecksEntitlement(u) \/ Book(u) \/ CancelBooking(u)
       PROVE UNCHANGED <<community, joining>>
  BY <1>13 DEF DecideJoinRequest, Subscribe, RequestToJoinPlan, InvitePlanUser, RevokeInvite,
        ChecksAccess, ChecksEntitlement, Book, CancelBooking
<1>14. QED
  BY <1>5, <1>6, <1>7, <1>8, <1>9, <1>10, <1>11, <1>12, <1>13 DEF AccessNext, Decisions, accessVars

-----------------------------------------------------------------------------
(* The plan. *)

(* Nobody passes the checks, or gets a seat, without having been welcome.  *)
LEMMA SeatStep ==
  ASSUME AccessInv, [AccessNext]_accessVars, NEW v \in Guests
  PROVE  /\ booking'[v] # "idle" \/ v \in seats' => WasWelcome(v)'
         /\ booking'[v] = "admitted" \/ v \in seats' => (terms'.premium => v \in entitled')
<1> DEFINE Good == /\ booking'[v] # "idle" \/ v \in seats' => WasWelcome(v)'
                   /\ booking'[v] = "admitted" \/ v \in seats' => (terms'.premium => v \in entitled')
<1>1. RecordKept
  BY StepKeepsRecord DEF AccessInv
<1>2. WasWelcome(v) => WasWelcome(v)'
  BY <1>1, RecordWelcomes
<1>3. /\ booking[v] # "idle" \/ v \in seats => WasWelcome(v)
      /\ booking[v] = "admitted" \/ v \in seats => (terms.premium => v \in entitled)
      /\ terms' = terms /\ entitled \subseteq entitled'
      /\ booking \in [Guests -> {"idle", "checked", "admitted"}]
  BY <1>1 DEF AccessInv, CheckedWereWelcome, SeatsWereAllowed, WasWelcome, AccessTypeOK, RecordKept
<1>4. CASE UNCHANGED <<booking, seats>>
  BY <1>2, <1>3, <1>4
<1>5. ASSUME NEW u \in Guests, ChecksAccess(u) PROVE Good
  <2>1. u = v => WasWelcome(v)
    BY <1>5 DEF ChecksAccess, PlanAccess, Invited, WasWelcome, AccessInv, HistoryHolds
  <2>2. QED
    BY <1>2, <1>3, <1>5, <2>1 DEF ChecksAccess, BookAt
<1>6. ASSUME NEW u \in Guests, ChecksEntitlement(u) PROVE Good
  BY <1>2, <1>3, <1>6 DEF ChecksEntitlement, HasPremium, BookAt
<1>7. ASSUME NEW u \in Guests, Book(u) PROVE Good
  BY <1>2, <1>3, <1>7 DEF Book, BookAt
<1>8. ASSUME NEW u \in Guests, CancelBooking(u) PROVE Good
  BY <1>2, <1>3, <1>8 DEF CancelBooking
<1>9. ASSUME NEW u \in Guests,
             Requests(u) \/ RequestAnswered(u) \/ Enters(u) \/ Join(u) \/ Leave(u)
             \/ Decisions(u) \/ Invite(u) \/ Subscribe(u)
             \/ RequestToJoinPlan(u) \/ InvitePlanUser(u) \/ RevokeInvite(u)
      PROVE UNCHANGED <<booking, seats>>
  BY <1>9 DEF Requests, RequestAnswered, Enters, Join, Leave, Decisions, DecideRequest,
        DecideJoinRequest, Invite, Subscribe, RequestToJoinPlan, InvitePlanUser, RevokeInvite
<1>10. QED
  BY <1>4, <1>5, <1>6, <1>7, <1>8, <1>9 DEF AccessNext, accessVars

(* The history follows what it is the history of. *)
LEMMA HistoryStep == AccessInv /\ [AccessNext]_accessVars => HistoryHolds'
<1> SUFFICES ASSUME AccessInv, [AccessNext]_accessVars PROVE HistoryHolds'
  OBVIOUS
<1> USE DEF AccessInv, HistoryHolds
<1>1. CASE UNCHANGED accessVars
  BY <1>1 DEF accessVars, community, plan
<1>2. ASSUME NEW u \in Guests, Requests(u) \/ RequestAnswered(u) \/ Enters(u) \/ Join(u) \/ Leave(u)
      PROVE HistoryHolds'
  BY <1>2 DEF Requests, RequestAnswered, Enters, Join, Leave, community, plan
<1>3. ASSUME NEW u \in Guests, Decisions(u) \/ Invite(u) \/ Subscribe(u)
      PROVE HistoryHolds'
  BY <1>3 DEF Decisions, DecideRequest, DecideJoinRequest, Invite, Subscribe, community, plan
<1>4. ASSUME NEW u \in Guests, RequestToJoinPlan(u) \/ InvitePlanUser(u) \/ RevokeInvite(u)
      PROVE HistoryHolds'
  BY <1>4 DEF RequestToJoinPlan, InvitePlanUser, RevokeInvite, community
<1>5. ASSUME NEW u \in Guests,
             ChecksAccess(u) \/ ChecksEntitlement(u) \/ Book(u) \/ CancelBooking(u)
      PROVE HistoryHolds'
  BY <1>5 DEF ChecksAccess, ChecksEntitlement, Book, CancelBooking, community, plan
<1>6. QED
  BY <1>1, <1>2, <1>3, <1>4, <1>5 DEF AccessNext

LEMMA AccessStep == AccessInv /\ [AccessNext]_accessVars => AccessInv'
<1> SUFFICES ASSUME AccessInv, [AccessNext]_accessVars PROVE AccessInv'
  OBVIOUS
<1>1. AccessTypeOK'
  BY AccessTyped DEF AccessInv
<1>2. HistoryHolds'
  BY HistoryStep
<1>3. OnlyApprovalAsks' /\ AdmittedMayJoin'
  BY EntryStep DEF OnlyApprovalAsks, AdmittedMayJoin
<1>4. MembersWereLetIn'
  BY <1>1, EntryStep DEF MembersWereLetIn, LetIn, AccessTypeOK
<1>5. CheckedWereWelcome' /\ SeatsWereAllowed'
  BY <1>1, SeatStep DEF CheckedWereWelcome, SeatsWereAllowed, WasWelcome, AccessTypeOK
<1>6. QED
  BY <1>1, <1>2, <1>3, <1>4, <1>5 DEF AccessInv

(* Members, admissions, seats and checks agree with the record, always.    *)
THEOREM AccessInvariant == AccessSpec => []AccessInv
<1>1. QED
  BY AccessInvInit, AccessStep, PTL DEF AccessSpec

(* Everybody in a community that is not public was let in, and the record  *)
(* shows it, although joining checks first and inserts later.              *)
THEOREM MembersLetIn == AccessSpec => []MembersWereLetIn
<1>1. AccessInv => MembersWereLetIn
  BY DEF AccessInv
<1>2. QED
  BY <1>1, AccessInvariant, PTL

(* Everybody with a seat met the plan's conditions when they were checked. *)
THEOREM SeatsAllowed == AccessSpec => []SeatsWereAllowed
<1>1. AccessInv => SeatsWereAllowed
  BY DEF AccessInv
<1>2. QED
  BY <1>1, AccessInvariant, PTL

-----------------------------------------------------------------------------
(* What one step may do to an answer. *)
AnswersStand ==
  \A u \in Guests :
    /\ planRequest[u] \in {"approved", "rejected"} => planRequest'[u] = planRequest[u]
    /\ request[u] = "approved" => request'[u] = "approved"
    /\ request[u] = "rejected" => request'[u] = "rejected" \/ u \in inviter'

LEMMA AnswersStep == AccessTypeOK /\ [AccessNext]_accessVars => AnswersStand
<1> SUFFICES ASSUME AccessTypeOK, [AccessNext]_accessVars PROVE AnswersStand
  OBVIOUS
<1> USE DEF AccessTypeOK, AnswersStand
<1>1. CASE UNCHANGED <<request, planRequest>>
  BY <1>1
<1>2. ASSUME NEW u \in Guests,
             Requests(u) \/ Invite(u) \/ (\E approve \in BOOLEAN : DecideRequest(u, approve))
      PROVE AnswersStand
  BY <1>2 DEF Requests, Invite, DecideRequest, plan
<1>3. ASSUME NEW u \in Guests,
             RequestToJoinPlan(u) \/ (\E approve \in BOOLEAN : DecideJoinRequest(u, approve))
      PROVE AnswersStand
  BY <1>3 DEF RequestToJoinPlan, DecideJoinRequest, community
<1>4. ASSUME NEW u \in Guests,
             RequestAnswered(u) \/ Enters(u) \/ Join(u) \/ Leave(u) \/ Subscribe(u)
             \/ InvitePlanUser(u) \/ RevokeInvite(u)
             \/ ChecksAccess(u) \/ ChecksEntitlement(u) \/ Book(u) \/ CancelBooking(u)
      PROVE UNCHANGED <<request, planRequest>>
  BY <1>4 DEF RequestAnswered, Enters, Join, Leave, Subscribe, InvitePlanUser, RevokeInvite,
        ChecksAccess, ChecksEntitlement, Book, CancelBooking, community, plan
<1>5. QED
  BY <1>1, <1>2, <1>3, <1>4 DEF AccessNext, Decisions, accessVars, community, plan

(* A request is answered once: no late or repeated decision changes it, and *)
(* only an invitation lifts a rejection.                                    *)
THEOREM AnswersAreFinal == AccessSpec => AnsweredOnce
<1>1. AccessTypeOK /\ [AccessNext]_accessVars => [AnswersStand]_accessVars
  BY AnswersStep
<1>2. AccessInv => AccessTypeOK
  BY DEF AccessInv
<1>3. QED
  BY <1>1, <1>2, AccessInvariant, PTL DEF AccessSpec, AnsweredOnce, AnswersStand

=============================================================================
