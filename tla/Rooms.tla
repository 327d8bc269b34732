--------------------------------- MODULE Rooms ---------------------------------
(***************************************************************************)
(* Chat rooms without a plan of their own (internal/chat: CreateAdHocRoom- *)
(* WithMembers and AddRoomMember) and the three flows that make them: two  *)
(* people whose free hours match (internal/availability), the group of an  *)
(* external event (internal/externalevents) and the groups a host splits   *)
(* the guests of a plan into (internal/smartgroups).                       *)
(*                                                                         *)
(* Every flow makes its room, member by member, before the transaction or  *)
(* statement that decides who gets it; a call that stops or loses leaves a *)
(* room nobody uses.  The flows share the supply of rooms and nothing      *)
(* else, so a behaviour follows one of them.                               *)
(***************************************************************************)
EXTENDS Naturals, FiniteSets

CONSTANTS
  Flows,       \* the flows looked at, of "match", "event", "groups"
  People,
  Nobody,
  Windows,     \* availability_windows
  NoWindow,
  Host,        \* Host[w]: whose window it is
  Calls,       \* concurrent calls
  Free,        \* the window's row is not locked
  TargetSize,  \* defaultGroupTargetSize
  MaxRooms     \* bound: rooms made

ASSUME FlowsAssumption == Flows \subseteq {"match", "event", "groups"}
ASSUME PeopleAssumption == IsFiniteSet(People) /\ Nobody \notin People
ASSUME WindowsAssumption == Host \in [Windows -> People] /\ NoWindow \notin Windows
ASSUME CallsAssumption == Free \notin Calls
ASSUME RoomNumbers == TargetSize \in Nat \ {0} /\ MaxRooms \in Nat

VARIABLES
  flow,
  rooms,       \* rooms made so far, numbered in that order
  members,     \* members[r]: chat_members of room r
  window,      \* window[w]: "open", "matched" or "cancelled"
  mate,        \* mate[w]: matched_with_user_id
  place,       \* place[w]: chat_room_id, 0 for none
  holder,      \* holder[w]: the call that has locked the row
  active,      \* the external event is active
  interested,  \* external_event_interests
  eventRoom,   \* external_events.chat_room_id, 0 for none
  told,        \* history: told[p]: the room JoinEventGroup last returned to p
  confirmed,   \* guests of the plan
  groups,      \* plan_groups with their members
  stage, mine, theirs, asks, todo, room, deal, label  \* per call

chat == <<rooms, members>>
match == <<window, mate, place, holder>>
event == <<active, interested, eventRoom, told>>
plan == <<confirmed, groups>>
args == <<mine, theirs, asks>>
call == <<stage, args, todo, room, deal, label>>
vars == <<flow, chat, match, event, plan, call>>

RoomIds == 1..MaxRooms

Init ==
  /\ flow \in Flows
  /\ rooms = 0 /\ members = [r \in RoomIds |-> {}]
  /\ window = [w \in Windows |-> "open"]
  /\ mate = [w \in Windows |-> Nobody]
  /\ place = [w \in Windows |-> 0]
  /\ holder = [w \in Windows |-> Free]
  /\ active = TRUE /\ interested = {} /\ eventRoom = 0
  /\ told = [p \in People |-> 0]
  /\ confirmed = {} /\ groups = {}
  /\ stage = [c \in Calls |-> "idle"]
  /\ mine = [c \in Calls |-> NoWindow] /\ theirs = [c \in Calls |-> NoWindow]
  /\ asks = [c \in Calls |-> Nobody]
  /\ todo = [c \in Calls |-> {}]
  /\ room = [c \in Calls |-> 0]
  /\ deal = [c \in Calls |-> <<>>]
  /\ label = [c \in Calls |-> 0]

Goes(c, s) == stage' = [stage EXCEPT ![c] = s]

(* The call returns, with an answer, an error or its process. *)
Ends(c) ==
  /\ Goes(c, "idle")
  /\ mine' = [mine EXCEPT ![c] = NoWindow] /\ theirs' = [theirs EXCEPT ![c] = NoWindow]
  /\ asks' = [asks EXCEPT ![c] = Nobody]
  /\ todo' = [todo EXCEPT ![c] = {}]
  /\ room' = [room EXCEPT ![c] = 0]
  /\ deal' = [deal EXCEPT ![c] = <<>>]
  /\ label' = [label EXCEPT ![c] = 0]

Unlocked(c) == [w \in Windows |-> IF holder[w] = c THEN Free ELSE holder[w]]

(* A lost connection, a process that stops, or a deadlock that PostgreSQL  *)
(* ends by aborting this transaction.                                      *)
Dies(c) ==
  /\ stage[c] # "idle"
  /\ holder' = Unlocked(c)
  /\ Ends(c)
  /\ UNCHANGED <<flow, chat, window, mate, place, event, plan>>

-----------------------------------------------------------------------------
(* CreateAdHocRoomWithMembers *)

CreateAdHocRoom(c) ==
  /\ stage[c] = "room"
  /\ rooms < MaxRooms
  /\ rooms' = rooms + 1
  /\ room' = [room EXCEPT ![c] = rooms + 1]
  /\ Goes(c, "add")
  /\ UNCHANGED <<flow, members, match, event, plan, args, todo, deal, label>>

WithRoom == [match |-> "lockMine", event |-> "claim", groups |-> "group"]

AddMember(c, p) ==
  /\ stage[c] = "add"
  /\ p \in todo[c]
  /\ members' = [members EXCEPT ![room[c]] = @ \cup {p}]
  /\ todo' = [todo EXCEPT ![c] = @ \ {p}]
  /\ Goes(c, IF todo[c] = {p} THEN WithRoom[flow] ELSE "add")
  /\ UNCHANGED <<flow, rooms, match, event, plan, args, room, deal, label>>

-----------------------------------------------------------------------------
(* AcceptActivityMatch *)

AcceptActivityMatch(c, w, v) ==
  /\ flow = "match"
  /\ stage[c] = "idle"
  /\ w # v
  /\ mine' = [mine EXCEPT ![c] = w] /\ theirs' = [theirs EXCEPT ![c] = v]
  /\ todo' = [todo EXCEPT ![c] = {Host[w], Host[v]}]
  /\ Goes(c, "room")
  /\ UNCHANGED <<flow, chat, match, event, plan, asks, room, deal, label>>

(* AcceptMatch: SELECT ... FOR UPDATE of the caller's window ... *)
LockMine(c) ==
  /\ stage[c] = "lockMine"
  /\ holder[mine[c]] = Free
  /\ holder' = [holder EXCEPT ![mine[c]] = c]
  /\ Goes(c, "lockTheirs")
  /\ UNCHANGED <<flow, chat, window, mate, place, event, plan, args, todo, room, deal, label>>

Pairs(c) ==
  LET w == mine[c]  v == theirs[c]
  IN  /\ window' = [window EXCEPT ![w] = "matched", ![v] = "matched"]
      /\ mate' = [mate EXCEPT ![w] = Host[v], ![v] = Host[w]]
      /\ place' = [place EXCEPT ![w] = room[c], ![v] = room[c]]

(* Wrong variant: only the caller's own window is looked at again. *)
AcceptOwn(c) ==
  /\ stage[c] = "lockTheirs"
  /\ holder[theirs[c]] = Free
  /\ IF window[mine[c]] = "open" THEN Pairs(c) ELSE UNCHANGED <<window, mate, place>>
  /\ holder' = Unlocked(c)
  /\ Ends(c)
  /\ UNCHANGED <<flow, chat, event, plan>>

(* ... then of the other's, and the match if both are still open. *)
AcceptMatch(c) ==
  /\ stage[c] = "lockTheirs"
  /\ holder[theirs[c]] = Free
  /\ IF window[mine[c]] = "open" /\ window[theirs[c]] = "open"
     THEN Pairs(c) ELSE UNCHANGED <<window, mate, place>>
  /\ holder' = Unlocked(c)
  /\ Ends(c)
  /\ UNCHANGED <<flow, chat, event, plan>>

(* CancelAvailability: whatever the status was. *)
CancelAvailability(w) ==
  /\ flow = "match"
  /\ holder[w] = Free
  /\ window' = [window EXCEPT ![w] = "cancelled"]
  /\ UNCHANGED <<flow, chat, mate, place, holder, event, plan, call>>

-----------------------------------------------------------------------------
(* JoinEventGroup *)

SetInterest(p) ==
  /\ flow = "event" /\ active
  /\ \/ interested' = interested \cup {p}
     \/ interested' = interested \ {p}
  /\ UNCHANGED <<flow, chat, match, active, eventRoom, told, plan, call>>

(* By an administrator. *)
DeactivateExternalEvent ==
  /\ flow = "event" /\ active
  /\ active' = FALSE
  /\ UNCHANGED <<flow, chat, match, interested, eventRoom, told, plan, call>>

(* requireInterested *)
JoinEventGroup(c, p) ==
  /\ stage[c] = "idle"
  /\ flow = "event" /\ active /\ p \in interested
  /\ asks' = [asks EXCEPT ![c] = p]
  /\ Goes(c, "find")
  /\ UNCHANGED <<flow, chat, match, event, plan, mine, theirs, todo, room, deal, label>>

(* ExistingRoom *)
FindRoom(c) ==
  /\ stage[c] = "find"
  /\ active
  /\ room' = [room EXCEPT ![c] = eventRoom]
  /\ todo' = [todo EXCEPT ![c] = IF eventRoom = 0 THEN {asks[c]} ELSE {}]
  /\ Goes(c, IF eventRoom = 0 THEN "room" ELSE "join")
  /\ UNCHANGED <<flow, chat, match, event, plan, args, deal, label>>

(* Wrong variant: the room of this call replaces another's. *)
ClaimOver(c) ==
  /\ stage[c] = "claim"
  /\ eventRoom' = room[c]
  /\ Goes(c, "join")
  /\ UNCHANGED <<flow, chat, match, active, interested, told, plan, args, todo, room, deal, label>>

(* COALESCE(chat_room_id, ours): the first room stays. *)
ClaimRoom(c) ==
  /\ stage[c] = "claim"
  /\ eventRoom' = IF eventRoom = 0 THEN room[c] ELSE eventRoom
  /\ room' = [room EXCEPT ![c] = eventRoom']
  /\ Goes(c, "join")
  /\ UNCHANGED <<flow, chat, match, active, interested, told, plan, args, todo, deal, label>>

AddRoomMember(c) ==
  /\ stage[c] = "join"
  /\ members' = [members EXCEPT ![room[c]] = @ \cup {asks[c]}]
  /\ told' = [told EXCEPT ![asks[c]] = room[c]]
  /\ Ends(c)
  /\ UNCHANGED <<flow, rooms, match, active, interested, eventRoom, plan>>

-----------------------------------------------------------------------------
(* GenerateSmartGroups *)

(* Guests come and go. *)
Confirms(p) ==
  /\ flow = "groups"
  /\ confirmed' = IF p \in confirmed THEN confirmed \ {p} ELSE confirmed \cup {p}
  /\ UNCHANGED <<flow, chat, match, event, groups, call>>

(* BuildGroups deals the guests, in the order of their interests, one by   *)
(* one to ceil(n / TargetSize) groups: any order may be that of interests. *)
BuildGroups(P) ==
  LET size == Cardinality(P)
      n == (size + TargetSize - 1) \div TargetSize
      share(i) == Cardinality({j \in 0..(size - 1) : j % n = i - 1})
  IN  {d \in [1..n -> SUBSET P] :
         /\ UNION {d[i] : i \in 1..n} = P
         /\ \A i \in 1..n : Cardinality(d[i]) = share(i)}

(* ListForPlan: groups that exist are returned as they are. *)
GenerateSmartGroups(c) ==
  /\ flow = "groups"
  /\ stage[c] = "idle"
  /\ groups = {}
  /\ Goes(c, "read")
  /\ UNCHANGED <<flow, chat, match, event, plan, args, todo, room, deal, label>>

DealOut(c, d, i) ==
  /\ label' = [label EXCEPT ![c] = i]
  /\ todo' = [todo EXCEPT ![c] = d[i]]
  /\ Goes(c, "room")

(* ConfirmedParticipantsWithInterests *)
ReadParticipants(c) ==
  /\ stage[c] = "read"
  /\ \E d \in BuildGroups(confirmed) :
       /\ deal' = [deal EXCEPT ![c] = d]
       /\ IF confirmed = {} THEN Goes(c, "idle") /\ UNCHANGED <<todo, label>> ELSE DealOut(c, d, 1)
  /\ UNCHANGED <<flow, chat, match, event, plan, args, room>>

Inserts(c) ==
  /\ groups' = groups \cup {[label |-> label[c], room |-> room[c], members |-> deal[c][label[c]]]}
  /\ IF label[c] + 1 \in DOMAIN deal[c]
     THEN DealOut(c, deal[c], label[c] + 1) /\ room' = [room EXCEPT ![c] = 0] /\ UNCHANGED <<args, deal>>
     ELSE Ends(c)
  /\ UNCHANGED <<flow, chat, match, event, confirmed>>

(* Wrong variant: labels may repeat within a plan. *)
CreateGroupAgain(c) ==
  /\ stage[c] = "group"
  /\ Inserts(c)

(* CreateGroup, one transaction: (plan_id, label) is unique. *)
CreateGroup(c) ==
  /\ stage[c] = "group"
  /\ \A g \in groups : g.label # label[c]
  /\ Inserts(c)

CreateGroupFails(c) ==
  /\ stage[c] = "group"
  /\ \E g \in groups : g.label = label[c]
  /\ Ends(c)
  /\ UNCHANGED <<flow, chat, match, event, plan>>

-----------------------------------------------------------------------------
Makes(c) == CreateAdHocRoom(c) \/ (\E p \in People : AddMember(c, p)) \/ Dies(c)

Matches(c) ==
  \/ \E w, v \in Windows : AcceptActivityMatch(c, w, v)
  \/ LockMine(c) \/ AcceptMatch(c)

Joins(c) ==
  \/ \E p \in People : JoinEventGroup(c, p)
  \/ FindRoom(c) \/ ClaimRoom(c) \/ AddRoomMember(c)

Splits(c) ==
  \/ GenerateSmartGroups(c) \/ ReadParticipants(c)
  \/ CreateGroup(c) \/ CreateGroupFails(c)

Next ==
  \/ \E c \in Calls : Makes(c) \/ Matches(c) \/ Joins(c) \/ Splits(c)
  \/ \E w \in Windows : CancelAvailability(w)
  \/ \E p \in People : SetInterest(p) \/ Confirms(p)
  \/ DeactivateExternalEvent

Spec == Init /\ [][Next]_vars

-----------------------------------------------------------------------------
(* Properties. *)

RoomsTypeOK ==
  /\ rooms \in 0..MaxRooms
  /\ members \in [RoomIds -> SUBSET People]
  /\ window \in [Windows -> {"open", "matched", "cancelled"}]
  /\ mate \in [Windows -> People \cup {Nobody}]
  /\ place \in [Windows -> 0..MaxRooms]
  /\ holder \in [Windows -> Calls \cup {Free}]
  /\ eventRoom \in 0..MaxRooms
  /\ interested \subseteq People /\ confirmed \subseteq People
  /\ room \in [Calls -> 0..MaxRooms]
  /\ todo \in [Calls -> SUBSET People]

(* A window is matched with one other, which names it back and shares its  *)
(* room with nobody else, both being members, however many accept the same *)
(* window or each other at once; cancelling afterwards leaves the record.  *)
MatchesArePairs ==
  \A w \in Windows : place[w] # 0 =>
    \E v \in Windows \ {w} :
      /\ {x \in Windows : place[x] = place[w]} = {w, v}
      /\ mate[w] = Host[v] /\ mate[v] = Host[w]
      /\ {Host[w], Host[v]} \subseteq members[place[w]]
      /\ "open" \notin {window[w], window[v]}

(* Everybody who was let into the group of an event was told the same room *)
(* and is in it, although the first few may each make one.                 *)
OneRoomPerEvent ==
  \A p \in People : told[p] # 0 => told[p] = eventRoom /\ p \in members[eventRoom]

(* Nobody is in two groups of a plan and no group is larger than its       *)
(* target, however many calls generate them while guests come and go;      *)
(* every group has a room of its own, with its members.                    *)
GroupsAreDisjoint ==
  /\ \A g, h \in groups : g # h => g.members \cap h.members = {} /\ g.room # h.room
  /\ \A g \in groups : Cardinality(g.members) <= TargetSize /\ g.members \subseteq members[g.room]

=============================================================================
