--------------------------------- MODULE Circle ---------------------------------
(***************************************************************************)
(* Two people who get to know each other: connection requests and answers  *)
(* (internal/connections), waves (internal/meet), blocks                   *)
(* (internal/moderation), their direct chat (internal/chat) and the in-app *)
(* notices of all these (notifications.Emit).                              *)
(*                                                                         *)
(* Create and Swipe hold an advisory lock on the pair and have two steps,  *)
(* what they read and what they write; an answer and a block do not take   *)
(* that lock.  SendMessage, MarkRead and OpenDirectChat are the statements *)
(* they consist of.  Each person has one call of each kind at a time.      *)
(* A wave and a match are also told by a push: Swipe writes it to the      *)
(* outbox, and cmd/worker delivers it later, at least once or not at all.  *)
(* A super wave is a wave here, and wave and match are one kind of push.   *)
(* Refusals for other reasons (rate limits, the origin plan, message       *)
(* contents) change nothing and are left out, like muted categories.       *)
(***************************************************************************)
EXTENDS Naturals

CONSTANTS
  People,
  NoOne,
  MaxMessages  \* bound: messages sent

ASSUME PairAssumption == (\E a, b \in People : a # b /\ People = {a, b}) /\ NoOne \notin People
ASSUME MessagesAssumption == MaxMessages \in Nat

VARIABLES
  row,     \* row[u]: status of the connection u requested, "none" without a row
  swipe,   \* swipe[u]: u's decision on the other, "none", "pass" or "wave"
  blocks,  \* those who block the other
  room,    \* the direct chat exists
  lock,    \* who holds the pair's advisory lock
  call,    \* call[u]: the step u's connection call is at
  seen,    \* seen[u]: what that call has read, [by |-> requester, status |-> ...]
  send,    \* send[u]: "idle", "checked" or "notify"
  reads,   \* reads[u]: "idle", or "marked" between the statements of MarkRead
  sent,    \* messages sent so far
  fresh,   \* fresh[u]: messages to u after its read marker
  notice,  \* notice[u]: kinds of u's unread notifications
  queued,  \* those for whom a push of Swipe waits to be delivered
  said     \* history: who has asked, waved or accepted

pair == <<row, swipe>>
chat == <<room, send, reads, sent, fresh>>
vars == <<pair, blocks, lock, call, seen, chat, notice, queued, said>>

Other(u) == CHOOSE v \in People : v # u
Blocked == blocks # {}
NoRow == [by |-> NoOne, status |-> "none"]

Init ==
  /\ row = [u \in People |-> "none"]
  /\ swipe = [u \in People |-> "none"]
  /\ blocks = {}
  /\ room = FALSE
  /\ lock = NoOne
  /\ call = [u \in People |-> "idle"]
  /\ seen = [u \in People |-> NoRow]
  /\ send = [u \in People |-> "idle"]
  /\ reads = [u \in People |-> "idle"]
  /\ sent = 0
  /\ fresh = [u \in People |-> 0]
  /\ notice = [u \in People |-> {}]
  /\ queued = {}
  /\ said = {}

At(u, s) == call' = [call EXCEPT ![u] = s]

(* Emit, one statement: never across a block; the unique index lets a      *)
(* repeat collapse into the unread one.                                    *)
Emits(u, kind) ==
  notice' = IF Blocked THEN notice ELSE [notice EXCEPT ![u] = @ \cup {kind}]

-----------------------------------------------------------------------------
(* connections.Repository.Create *)

(* Wrong variant: no lock on the pair. *)
LocksNothing(u) == lock' = u

(* pg_advisory_xact_lock on the unordered pair. *)
LocksPair(u) == lock = NoOne /\ lock' = u

Rows == {[by |-> v, status |-> row[v]] : v \in {w \in People : row[w] # "none"}}

RequestReads(u) ==
  /\ call[u] = "idle"
  /\ LocksPair(u)
  /\ ~Blocked
  /\ \E r \in IF Rows = {} THEN {NoRow} ELSE Rows : seen' = [seen EXCEPT ![u] = r]
  /\ At(u, "request")
  /\ UNCHANGED <<pair, blocks, chat, notice, queued, said>>

Commits(u) == lock' = NoOne /\ seen' = [seen EXCEPT ![u] = NoRow]

(* No row yet: a pending one. *)
RequestInserts(u) ==
  /\ seen[u] = NoRow
  /\ row' = [row EXCEPT ![u] = "pending"]
  /\ At(u, "tell_request")

(* A request of the other, pending when it was read: both want it. *)
RequestMeets(u) ==
  /\ seen[u] = [by |-> Other(u), status |-> "pending"]
  /\ row' = [row EXCEPT ![Other(u)] = "accepted"]
  /\ At(u, "tell_accepted")

RequestFinds(u) ==
  /\ seen[u] # NoRow
  /\ seen[u] # [by |-> Other(u), status |-> "pending"]
  /\ At(u, "idle")
  /\ UNCHANGED row

RequestWrites(u) ==
  /\ call[u] = "request"
  /\ RequestInserts(u) \/ RequestMeets(u) \/ RequestFinds(u)
  /\ Commits(u)
  /\ said' = said \cup {u}
  /\ UNCHANGED <<swipe, blocks, chat, notice, queued>>

(* The notice after the commit. *)
Tells(u) ==
  /\ \/ call[u] = "tell_request" /\ Emits(Other(u), "request")
     \/ call[u] = "tell_accepted" /\ Emits(Other(u), "accepted")
  /\ At(u, "idle")
  /\ UNCHANGED <<pair, blocks, lock, seen, chat, queued, said>>

-----------------------------------------------------------------------------
(* RespondConnection: Get, then Respond. *)

(* Wrong variant: either of the two may answer. *)
RequestsToEither(u) == {v \in People : row[v] # "none"}

(* Only the recipient may answer. *)
RequestsTo(u) == {v \in {Other(u)} : row[v] # "none"}

RespondReads(u) ==
  /\ call[u] = "idle"
  /\ \E v \in RequestsTo(u) : seen' = [seen EXCEPT ![u] = [by |-> v, status |-> row[v]]]
  /\ At(u, "respond")
  /\ UNCHANGED <<pair, blocks, lock, chat, notice, queued, said>>

(* UPDATE ... WHERE status = 'pending'. *)
Decides(v, s) == row' = IF row[v] = "pending" THEN [row EXCEPT ![v] = s] ELSE row

RespondWrites(u, accept) ==
  LET v == seen[u].by
  IN  /\ call[u] = "respond"
      /\ Decides(v, IF accept THEN "accepted" ELSE "rejected")
      /\ At(u, IF accept /\ row'[v] = "accepted" /\ seen[u].status = "pending"
               THEN "tell_accepted" ELSE "idle")
      /\ seen' = [seen EXCEPT ![u] = NoRow]
      /\ said' = IF accept /\ row[v] = "pending" THEN said \cup {u} ELSE said
      /\ UNCHANGED <<swipe, blocks, lock, chat, notice, queued>>

-----------------------------------------------------------------------------
(* meet.Repository.Swipe *)

Waves == {"wave"}

SwipeReads(u, action) ==
  /\ call[u] = "idle"
  /\ LocksPair(u)
  /\ ~Blocked
  /\ At(u, action)
  /\ UNCHANGED <<pair, blocks, seen, chat, notice, queued, said>>

(* Wrong variant: any decision of the other counts. *)
MatchesAny(u, action) == action \in Waves /\ swipe[Other(u)] # "none"

Matches(u, action) == action \in Waves /\ swipe[Other(u)] \in Waves

(* The row of either direction, or a new one of u. *)
Connected(u) ==
  IF \A v \in People : row[v] = "none" THEN [row EXCEPT ![u] = "accepted"]
  ELSE [v \in People |-> IF row[v] = "none" THEN "none" ELSE "accepted"]

(* The pushes of the same transaction; a repeated decision tells nobody.   *)
Pushes(u, action) ==
  IF action \notin Waves \/ swipe[u] = action THEN {}
  ELSE IF Matches(u, action) THEN People ELSE {Other(u)}

SwipeWrites(u) ==
  /\ call[u] \in {"pass", "wave"}
  /\ swipe' = [swipe EXCEPT ![u] = call[u]]
  /\ row' = IF Matches(u, call[u]) THEN Connected(u) ELSE row
  /\ queued' = queued \cup Pushes(u, call[u])
  /\ said' = IF call[u] \in Waves THEN said \cup {u} ELSE said
  /\ lock' = NoOne
  /\ At(u, "idle")
  /\ UNCHANGED <<blocks, seen, chat, notice>>

(* handleNotifyUser: whatever the blocks are by now, and once more if the  *)
(* answer to the queue is lost.                                            *)
DeliverPush(u) ==
  /\ u \in queued
  /\ notice' = [notice EXCEPT ![u] = @ \cup {"push"}]
  /\ queued' \in {queued, queued \ {u}}
  /\ UNCHANGED <<pair, blocks, lock, call, seen, chat, said>>

(* A push that failed maxDeliveries times. *)
DropPush(u) ==
  /\ u \in queued
  /\ queued' = queued \ {u}
  /\ UNCHANGED <<pair, blocks, lock, call, seen, chat, notice, said>>

-----------------------------------------------------------------------------
(* moderation.BlockUser and UnblockUser *)

BlockUser(u) ==
  /\ blocks' = blocks \cup {u}
  /\ UNCHANGED <<pair, lock, call, seen, chat, notice, queued, said>>

UnblockUser(u) ==
  /\ blocks' = blocks \ {u}
  /\ UNCHANGED <<pair, lock, call, seen, chat, notice, queued, said>>

-----------------------------------------------------------------------------
(* OpenDirectChat: AreConnected, then the transaction OpenDM. *)

AreConnected == ~Blocked /\ \E v \in People : row[v] = "accepted"

OpenReads(u) ==
  /\ call[u] = "idle"
  /\ AreConnected
  /\ At(u, "open")
  /\ UNCHANGED <<pair, blocks, lock, seen, chat, notice, queued, said>>

OpenDM(u) ==
  /\ call[u] = "open"
  /\ room' = TRUE
  /\ At(u, "idle")
  /\ UNCHANGED <<pair, blocks, lock, seen, send, reads, sent, fresh, notice, queued, said>>

(* Wrong variant: only the blocks of the sender. *)
DMBlockedBySender(u) == u \in blocks

DMBlocked(u) == Blocked

(* requireMember and DMBlocked. *)
SendChecks(u) ==
  /\ send[u] = "idle"
  /\ room /\ ~DMBlocked(u)
  /\ sent < MaxMessages
  /\ send' = [send EXCEPT ![u] = "checked"]
  /\ UNCHANGED <<pair, blocks, lock, call, seen, room, reads, sent, fresh, notice, queued, said>>

SendInserts(u) ==
  /\ send[u] = "checked"
  /\ sent < MaxMessages
  /\ sent' = sent + 1
  /\ fresh' = [fresh EXCEPT ![Other(u)] = @ + 1]
  /\ send' = [send EXCEPT ![u] = "notify"]
  /\ UNCHANGED <<pair, blocks, lock, call, seen, room, reads, notice, queued, said>>

NotifyDM(u) ==
  /\ send[u] = "notify"
  /\ Emits(Other(u), "message")
  /\ send' = [send EXCEPT ![u] = "idle"]
  /\ UNCHANGED <<pair, blocks, lock, call, seen, room, reads, sent, fresh, queued, said>>

(* A poll is a message that asks for membership alone and tells nobody.    *)
CreatePoll(u) ==
  /\ room
  /\ sent < MaxMessages
  /\ sent' = sent + 1
  /\ fresh' = [fresh EXCEPT ![Other(u)] = @ + 1]
  /\ UNCHANGED <<pair, blocks, lock, call, seen, room, send, reads, notice, queued, said>>

MarkRead(u) ==
  /\ room
  /\ reads[u] = "idle"
  /\ fresh' = [fresh EXCEPT ![u] = 0]
  /\ reads' = [reads EXCEPT ![u] = "marked"]
  /\ UNCHANGED <<pair, blocks, lock, call, seen, room, send, sent, notice, queued, said>>

ClearNotices(u) ==
  /\ reads[u] = "marked"
  /\ notice' = [notice EXCEPT ![u] = @ \ {"message"}]
  /\ reads' = [reads EXCEPT ![u] = "idle"]
  /\ UNCHANGED <<pair, blocks, lock, call, seen, room, send, sent, fresh, queued, said>>

(* notifications.MarkRead of all of them. *)
DropNotices(u) ==
  /\ notice' = [notice EXCEPT ![u] = {}]
  /\ UNCHANGED <<pair, blocks, lock, call, seen, chat, queued, said>>

-----------------------------------------------------------------------------
Next == \E u \in People :
  \/ RequestReads(u) \/ RequestWrites(u) \/ Tells(u)
  \/ RespondReads(u) \/ (\E accept \in BOOLEAN : RespondWrites(u, accept))
  \/ (\E action \in {"pass", "wave"} : SwipeReads(u, action)) \/ SwipeWrites(u)
  \/ DeliverPush(u) \/ DropPush(u)
  \/ BlockUser(u) \/ UnblockUser(u)
  \/ OpenReads(u) \/ OpenDM(u)
  \/ SendChecks(u) \/ SendInserts(u) \/ NotifyDM(u) \/ CreatePoll(u)
  \/ MarkRead(u) \/ ClearNotices(u) \/ DropNotices(u)

Spec == Init /\ [][Next]_vars

-----------------------------------------------------------------------------
(* Properties. *)

CircleTypeOK ==
  /\ row \in [People -> {"none", "pending", "accepted", "rejected"}]
  /\ swipe \in [People -> {"none", "pass", "wave"}]
  /\ blocks \subseteq People
  /\ room \in BOOLEAN
  /\ lock \in People \cup {NoOne}
  /\ call \in [People -> {"idle", "request", "respond", "tell_request", "tell_accepted", "pass", "wave", "open"}]
  /\ seen \in [People -> [by : People \cup {NoOne}, status : {"none", "pending", "accepted", "rejected"}]]
  /\ send \in [People -> {"idle", "checked", "notify"}]
  /\ reads \in [People -> {"idle", "marked"}]
  /\ sent \in 0..MaxMessages
  /\ fresh \in [People -> Nat]
  /\ notice \in [People -> SUBSET {"request", "accepted", "message", "push"}]
  /\ queued \subseteq People
  /\ said \subseteq People

(* Two people have at most one connection, although both may ask and wave  *)
(* at the same moment (the key of the table guards one direction only).    *)
OneConnection == \A u, v \in People : row[u] # "none" /\ row[v] # "none" => u = v

(* They are connected only if both have said so: by asking, by waving or   *)
(* by accepting.                                                           *)
BothAgreed == (\E u \in People : row[u] = "accepted") => said = People

(* Once connected they stay so: no late or repeated answer undoes it.      *)
AcceptedStays == [][\A u \in People : row[u] = "accepted" => row'[u] = "accepted"]_vars

(* While either blocks the other, nobody gets an in-app notice of the      *)
(* other, no text is begun, and no chat, request, wave or push of a wave   *)
(* appears except by a call that had passed its check before the block.    *)
(* Two things cross a block in the code and are excepted: a push that was  *)
(* queued before it, and a poll.                                           *)
BlocksSilence ==
  [][Blocked =>
       /\ \A u \in People : notice'[u] \subseteq notice[u] \cup (IF u \in queued THEN {"push"} ELSE {})
       /\ \A u \in People : (send[u] = "idle" => send'[u] = "idle")
       /\ (\A u \in People : call[u] \in {"idle", "respond", "tell_request", "tell_accepted"})
            => /\ room' = room /\ swipe' = swipe /\ queued' \subseteq queued
               /\ \A u \in People : row[u] = "none" => row'[u] = "none"]_vars

=============================================================================
