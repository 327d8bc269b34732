----------------------------- MODULE RoomsProofs -----------------------------
(***************************************************************************)
(* Proofs about chat rooms, for any people, windows and concurrent calls,  *)
(* any target size and any number of rooms: first that dealing the guests  *)
(* of a plan makes disjoint groups of at most the target size, then an     *)
(* inductive invariant of the three flows together, action by action.      *)
(***************************************************************************)
EXTENDS Rooms, Integers, FiniteSetTheorems, TLAPS

(* The places dealt to group i when size guests are dealt to n groups.      *)
Dealt(size, n, i) == {j \in 0..(size - 1) : j % n = i - 1}

(* Division with remainder. *)
LEMMA DivMod ==
  ASSUME NEW j \in Nat, NEW n \in Nat \ {0}
  PROVE  /\ j \div n \in Nat /\ j % n \in 0..(n - 1)
         /\ j = n * (j \div n) + (j % n)
  OBVIOUS

(* 0..(m-1) has m members. *)
LEMMA CountFromZero ==
  ASSUME NEW m \in Nat
  PROVE  IsFiniteSet(0..(m - 1)) /\ Cardinality(0..(m - 1)) = m
  <1>1. 0 \in Int /\ m - 1 \in Int
    OBVIOUS
  <1>2. /\ IsFiniteSet(0..(m - 1))
        /\ Cardinality(0..(m - 1)) = IF 0 > m - 1 THEN 0 ELSE (m - 1) - 0 + 1
    BY <1>1, FS_Interval
  <1>3. QED
    BY <1>2

(* Enough groups keep every group within its target. *)
LEMMA EnoughGroups ==
  ASSUME NEW size \in Nat, NEW T \in Nat \ {0}
  PROVE  LET n == (size + T - 1) \div T
         IN  n \in Nat /\ size <= n * T /\ (size # 0 => n # 0)
  <1> DEFINE m == size + T - 1
             n == m \div T
  <1>1. m \in Nat /\ (size # 0 => m >= T)
    OBVIOUS
  <1> HIDE DEF m
  <1>2. n \in Nat /\ m % T \in 0..(T - 1) /\ m = T * n + (m % T)
    BY <1>1, DivMod
  <1> HIDE DEF n
  <1>3. T * n = n * T /\ n * T \in Nat
    BY <1>2
  <1>4. n * T + (T - 1) >= m
    BY <1>2, <1>3
  <1>5. size <= n * T
    BY <1>3, <1>4 DEF m
  <1>6. n = 0 => n * T = 0
    BY <1>2
  <1>7. QED
    BY <1>2, <1>5, <1>6 DEF n, m

(* Of size places dealt to enough groups, none gets more than T.            *)
LEMMA DealtWithinTarget ==
  ASSUME NEW size \in Nat, NEW n \in Nat \ {0}, NEW T \in Nat \ {0}, size <= n * T,
         NEW i \in 1..n
  PROVE  IsFiniteSet(Dealt(size, n, i)) /\ Cardinality(Dealt(size, n, i)) <= T
  <1> DEFINE S == Dealt(size, n, i)
             turn == [j \in S |-> j \div n]
  <1>1. ASSUME NEW j \in S
        PROVE  /\ j \in Nat /\ j < n * T /\ j % n = i - 1
               /\ j \div n \in Nat /\ j = n * (j \div n) + (j % n) /\ j % n \in 0..(n - 1)
    <2>1. j \in Nat /\ j <= size - 1 /\ j % n = i - 1
      BY DEF Dealt
    <2>2. n * T \in Int /\ size <= n * T
      OBVIOUS
    <2>3. j < n * T
      BY <2>1, <2>2
    <2>4. /\ j \div n \in Nat /\ j % n \in 0..(n - 1)
          /\ j = n * (j \div n) + (j % n)
      BY <2>1, DivMod
    <2>5. QED
      BY <2>1, <2>3, <2>4
  <1>2. ASSUME NEW j \in S
        PROVE  j \div n \in 0..(T - 1)
    <2> DEFINE q == j \div n
    <2>1. q \in Nat /\ n * q <= j /\ j < n * T
      <3> HIDE DEF S
      <3>1. /\ q \in Nat /\ n * q \in Int /\ j \in Nat /\ j < n * T
            /\ j = n * q + (j % n) /\ j % n \in 0..(n - 1)
        BY <1>1
      <3> HIDE DEF q
      <3>2. QED
        BY <3>1
    <2> HIDE DEF q
    <2>2. n * q < n * T
      BY <2>1, <1>1
    <2>3. q < T
      BY <2>1, <2>2
    <2>4. QED
      BY <2>1, <2>3 DEF q
  <1>3. ASSUME NEW j \in S, NEW k \in S, j \div n = k \div n
        PROVE  j = k
    <2> HIDE DEF S
    <2>1. /\ j = n * (j \div n) + (j % n) /\ k = n * (k \div n) + (k % n)
          /\ j % n = k % n
      BY <1>1
    <2>2. n * (j \div n) = n * (k \div n)
      BY <1>3
    <2>3. QED
      BY <2>1, <2>2
  <1> HIDE DEF S
  <1>4. turn \in Injection(S, 0..(T - 1))
    BY <1>2, <1>3 DEF Injection, IsInjective
  <1>5. IsFiniteSet(0..(T - 1)) /\ Cardinality(0..(T - 1)) = T
    BY CountFromZero
  <1>6. IsFiniteSet(S) /\ Cardinality(S) <= T
    BY <1>4, <1>5, FS_Injection
  <1>7. QED
    BY <1>6 DEF S

(* Groups that cover P and have together as many places as P has people     *)
(* share nobody: dealing is onto P, hence one to one.                       *)
LEMMA DealtOnce ==
  ASSUME NEW P, IsFiniteSet(P), NEW n \in Nat \ {0}, NEW d \in [1..n -> SUBSET P],
         UNION {d[i] : i \in 1..n} = P,
         \A i \in 1..n : /\ IsFiniteSet(Dealt(Cardinality(P), n, i))
                         /\ Cardinality(d[i]) = Cardinality(Dealt(Cardinality(P), n, i))
  PROVE  \A i, k \in 1..n : i # k => d[i] \cap d[k] = {}
  <1> DEFINE places == 0..(Cardinality(P) - 1)
             Places(i) == Dealt(Cardinality(P), n, i)
             Seat(i) == CHOOSE f : f \in Bijection(Places(i), d[i])
             who == [j \in places |-> Seat((j % n) + 1)[j]]
  <1>1. Cardinality(P) \in Nat
    BY FS_CardinalityType
  <1>2. ASSUME NEW i \in 1..n
        PROVE  Seat(i) \in Bijection(Places(i), d[i])
    <2>1. IsFiniteSet(d[i])
      BY FS_Subset
    <2>2. ExistsBijection(Places(i), d[i])
      BY <2>1, FS_SameCardinalityBij
    <2>3. \E f : f \in Bijection(Places(i), d[i])
      BY <2>2 DEF ExistsBijection
    <2>4. QED
      BY <2>3
  <1>3. ASSUME NEW i \in 1..n, NEW x \in d[i]
        PROVE  \E j \in Places(i) : Seat(i)[j] = x
    BY <1>2, <1>3 DEF Bijection, Surjection
  <1>4. ASSUME NEW i \in 1..n, NEW j \in Places(i)
        PROVE  j \in places /\ (j % n) + 1 = i /\ who[j] = Seat(i)[j] /\ j % n = i - 1
    <2>1. j \in places /\ j % n = i - 1
      BY DEF Dealt
    <2>2. (j % n) + 1 = i
      BY <2>1
    <2> HIDE DEF Seat
    <2>3. QED
      BY <2>1, <2>2
  <1>5. ASSUME NEW j \in places
        PROVE  (j % n) + 1 \in 1..n /\ j \in Places((j % n) + 1)
    <2>1. j \in Nat
      BY <1>1
    <2>2. j % n \in 0..(n - 1)
      BY <2>1, DivMod
    <2>3. (j % n) + 1 \in 1..n /\ j % n = ((j % n) + 1) - 1
      BY <2>2
    <2>4. QED
      BY <2>3 DEF Dealt
  <1> HIDE DEF Places, Seat
  <1>6. who \in [places -> P]
    <2>1. ASSUME NEW j \in places
          PROVE  Seat((j % n) + 1)[j] \in P
      <3>1. Seat((j % n) + 1) \in [Places((j % n) + 1) -> d[(j % n) + 1]]
        BY <1>2, <1>5 DEF Bijection, Injection
      <3>2. QED
        BY <1>5, <3>1
    <2>2. QED
      BY <2>1
  <1>7. who \in Surjection(places, P)
    <2>1. ASSUME NEW x \in P
          PROVE  \E j \in places : who[j] = x
      <3>1. PICK i \in 1..n : x \in d[i]
        OBVIOUS
      <3>2. PICK j \in Places(i) : Seat(i)[j] = x
        BY <1>3, <3>1
      <3>3. QED
        BY <1>4, <3>2
    <2> HIDE DEF who, places
    <2>2. QED
      BY <1>6, <2>1 DEF Surjection
  <1>8. who \in Injection(places, P)
    <2> HIDE DEF who
    <2>1. IsFiniteSet(places) /\ Cardinality(places) = Cardinality(P)
      BY <1>1, CountFromZero
    <2> HIDE DEF places
    <2>2. QED
      BY <1>7, <2>1, FS_SurjSameCardinalityImpliesInj
  <1>9. ASSUME NEW i \in 1..n, NEW k \in 1..n, i # k, NEW x \in d[i] \cap d[k]
        PROVE  FALSE
    <2>1. PICK j \in Places(i) : Seat(i)[j] = x
      BY <1>3
    <2>2. PICK l \in Places(k) : Seat(k)[l] = x
      BY <1>3
    <2>3. who[j] = x /\ who[l] = x /\ j \in places /\ l \in places
      BY <1>4, <2>1, <2>2
    <2>4. j % n # l % n
      <3>1. j % n = i - 1 /\ l % n = k - 1
        BY <1>4, <2>1, <2>2
      <3>2. QED
        BY <1>9, <3>1
    <2> HIDE DEF who, places
    <2>5. j = l
      BY <1>8, <2>3 DEF Injection, IsInjective
    <2>6. QED
      BY <2>4, <2>5
  <1>10. QED
    BY <1>9

(* Groups of different labels share nobody, and none exceeds its target.    *)
GoodDeal(d) ==
  /\ DOMAIN d \subseteq Nat \ {0}
  /\ \A i \in DOMAIN d : d[i] \subseteq People /\ Cardinality(d[i]) <= TargetSize
  /\ \A i, k \in DOMAIN d : i # k => d[i] \cap d[k] = {}

(* That is what BuildGroups deals, in whatever order the guests stand.      *)
LEMMA GroupsAreDealt ==
  ASSUME NEW P \in SUBSET People, NEW d \in BuildGroups(P)
  PROVE  GoodDeal(d) /\ (P # {} => 1 \in DOMAIN d)
  <1> DEFINE size == Cardinality(P)
             n == (size + TargetSize - 1) \div TargetSize
  <1>1. IsFiniteSet(P) /\ size \in Nat /\ (P # {} => size # 0)
    BY PeopleAssumption, FS_Subset, FS_CardinalityType, FS_EmptySet
  <1>2. /\ d \in [1..n -> SUBSET P]
        /\ UNION {d[i] : i \in 1..n} = P
        /\ \A i \in 1..n : Cardinality(d[i]) = Cardinality(Dealt(size, n, i))
    BY DEF BuildGroups, Dealt
  <1>3. TargetSize \in Nat \ {0}
    BY RoomNumbers
  <1> HIDE DEF size
  <1>4. n \in Nat /\ size <= n * TargetSize /\ (size # 0 => n # 0)
    BY <1>1, <1>3, EnoughGroups
  <1> HIDE DEF n
  <1>5. CASE n = 0
    <2>1. DOMAIN d = {}
      BY <1>2, <1>5
    <2>2. P = {}
      BY <1>1, <1>4, <1>5
    <2>3. QED
      BY <2>1, <2>2 DEF GoodDeal
  <1>6. CASE n # 0
    <2>1. n \in Nat \ {0} /\ DOMAIN d = 1..n /\ 1 \in 1..n
      BY <1>2, <1>4, <1>6
    <2>2. ASSUME NEW i \in 1..n
          PROVE  IsFiniteSet(Dealt(size, n, i)) /\ Cardinality(Dealt(size, n, i)) <= TargetSize
      BY <1>1, <1>3, <1>4, <2>1, DealtWithinTarget
    <2>3. \A i \in 1..n : d[i] \subseteq People /\ Cardinality(d[i]) <= TargetSize
      BY <1>2, <2>2
    <2>4. \A i, k \in 1..n : i # k => d[i] \cap d[k] = {}
      <3> USE DEF size
      <3>1. QED
        BY <1>1, <1>2, <2>1, <2>2, DealtOnce
    <2>5. QED
      BY <2>1, <2>3, <2>4 DEF GoodDeal
  <1>7. QED
    BY <1>5, <1>6

-----------------------------------------------------------------------------
(* The inductive invariant, in parts. *)

(* A call that makes a room, or has made one and not given it away yet.     *)
Prepares(c) == stage[c] \in {"room", "add", "lockMine", "lockTheirs", "claim", "group"}
HasRoom(c) == stage[c] \in {"add", "lockMine", "lockTheirs", "claim", "group"}

(* Whom the room is for. *)
Company(c) ==
  IF flow = "match" THEN {Host[mine[c]], Host[theirs[c]]}
  ELSE IF flow = "groups" THEN deal[c][label[c]] ELSE {}

RoomsTyped ==
  /\ flow \in {"match", "event", "groups"}
  /\ rooms \in 0..MaxRooms
  /\ members \in [RoomIds -> SUBSET People]
  /\ window \in [Windows -> {"open", "matched", "cancelled"}]
  /\ mate \in [Windows -> People \cup {Nobody}]
  /\ place \in [Windows -> 0..MaxRooms]
  /\ holder \in [Windows -> Calls \cup {Free}]
  /\ eventRoom \in 0..MaxRooms
  /\ told \in [People -> 0..MaxRooms]
  /\ interested \subseteq People /\ confirmed \subseteq People
  /\ stage \in [Calls -> {"idle", "room", "add", "lockMine", "lockTheirs", "find", "claim",
                          "join", "read", "group"}]
  /\ mine \in [Calls -> Windows \cup {NoWindow}]
  /\ theirs \in [Calls -> Windows \cup {NoWindow}]
  /\ asks \in [Calls -> People \cup {Nobody}]
  /\ todo \in [Calls -> SUBSET People]
  /\ room \in [Calls -> 0..MaxRooms]
  /\ DOMAIN deal = Calls /\ deal = [c \in Calls |-> deal[c]]
  /\ label \in [Calls -> Nat]

(* What a call works on, in each of the flows. *)
WorkTyped ==
  \A c \in Calls :
    /\ stage[c] \in {"lockMine", "lockTheirs"} => flow = "match"
    /\ stage[c] \in {"find", "claim", "join"} => flow = "event"
    /\ stage[c] \in {"read", "group"} => flow = "groups"
    /\ flow = "match" /\ Prepares(c) =>
         mine[c] \in Windows /\ theirs[c] \in Windows /\ mine[c] # theirs[c]
    /\ flow = "event" /\ stage[c] # "idle" => asks[c] \in People
    /\ flow = "groups" /\ Prepares(c) => GoodDeal(deal[c]) /\ label[c] \in DOMAIN deal[c]

(* A room that is being made is nobody else's ... *)
OwnRooms ==
  \A c \in Calls : HasRoom(c) =>
    /\ room[c] \in 1..rooms
    /\ \A d \in Calls \ {c} : HasRoom(d) => room[d] # room[c]
    /\ \A w \in Windows : place[w] # room[c]
    /\ \A g \in groups : g.room # room[c]

(* ... and its company is in it before anybody gets it. *)
CompanyComes ==
  \A c \in Calls :
    /\ stage[c] = "room" => Company(c) \subseteq todo[c]
    /\ stage[c] = "add" => Company(c) \subseteq todo[c] \cup members[room[c]]
    /\ stage[c] \in {"lockMine", "lockTheirs", "group"} => Company(c) \subseteq members[room[c]]

(* Who joins the group of an event holds its room, which was set once.      *)
Joined ==
  /\ eventRoom <= rooms
  /\ \A c \in Calls : stage[c] = "join" => eventRoom # 0 /\ room[c] = eventRoom
  /\ eventRoom = 0 => \A p \in People : told[p] = 0
  /\ OneRoomPerEvent

(* A window that is still open has no room, and no place is a room to come. *)
Matched ==
  /\ \A w \in Windows : place[w] <= rooms /\ (window[w] = "open" => place[w] = 0)
  /\ MatchesArePairs

(* A call that is past its first group.                                     *)
Splitting(c) == flow = "groups" /\ Prepares(c) /\ label[c] > 1

(* The groups of a plan are all of the one deal whose first group came      *)
(* first, since every call begins with the label 1 and labels are unique.   *)
OneSplit ==
  /\ \A g \in groups : g.room \in 1..rooms
  /\ \A g, h \in groups : g.label = h.label => g = h
  /\ groups # {} => \E g \in groups : g.label = 1
  /\ \A c \in Calls : Splitting(c) =>
       /\ groups # {}
       /\ \A g \in groups : g.label \in DOMAIN deal[c] /\ g.members = deal[c][g.label]
       /\ \A d \in Calls : Splitting(d) => d = c
  /\ GroupsAreDisjoint

RoomsInv ==
  RoomsTyped /\ WorkTyped /\ OwnRooms /\ CompanyComes /\ Joined /\ Matched /\ OneSplit

LEMMA RoomsInvInit == Init => RoomsInv
  <1> SUFFICES ASSUME Init PROVE RoomsInv
    OBVIOUS
  <1> USE RoomNumbers, FlowsAssumption DEF Init
  <1>1. RoomsTyped
    BY DEF RoomsTyped
  <1>2. WorkTyped /\ OwnRooms /\ CompanyComes
    BY DEF WorkTyped, OwnRooms, CompanyComes, Prepares, HasRoom
  <1>3. Joined
    BY DEF Joined, OneRoomPerEvent
  <1>4. Matched
    BY DEF Matched, MatchesArePairs
  <1>5. OneSplit
    BY DEF OneSplit, Splitting, Prepares, GroupsAreDisjoint
  <1>6. QED
    BY <1>1, <1>2, <1>3, <1>4, <1>5 DEF RoomsInv

-----------------------------------------------------------------------------
(* Rooms are only added, and members only join them. *)
ChatGrows ==
  /\ rooms <= rooms'
  /\ \A r \in RoomIds : members[r] \subseteq members'[r]

(* Steps outside a flow leave its part alone. *)
LEMMA MatchedStays ==
  ASSUME RoomsTyped, RoomsTyped', Matched, UNCHANGED <<place, mate>>, ChatGrows,
         \A w \in Windows : window'[w] = "open" => window[w] = "open"
  PROVE  Matched'
  <1>1. ASSUME NEW w \in Windows, place'[w] # 0
        PROVE  \E v \in Windows \ {w} :
                 /\ {x \in Windows : place'[x] = place'[w]} = {w, v}
                 /\ mate'[w] = Host[v] /\ mate'[v] = Host[w]
                 /\ {Host[w], Host[v]} \subseteq members'[place'[w]]
                 /\ "open" \notin {window'[w], window'[v]}
    <2>1. PICK v \in Windows \ {w} :
                 /\ {x \in Windows : place[x] = place[w]} = {w, v}
                 /\ mate[w] = Host[v] /\ mate[v] = Host[w]
                 /\ {Host[w], Host[v]} \subseteq members[place[w]]
                 /\ "open" \notin {window[w], window[v]}
      BY <1>1 DEF Matched, MatchesArePairs
    <2>2. place[w] \in RoomIds
      BY <1>1 DEF RoomsTyped, RoomIds
    <2>3. {Host[w], Host[v]} \subseteq members'[place[w]]
      BY <2>1, <2>2 DEF ChatGrows
    <2>4. QED
      BY <2>1, <2>3
  <1>2. \A w \in Windows : place'[w] <= rooms' /\ (window'[w] = "open" => place'[w] = 0)
    BY DEF Matched, ChatGrows, RoomsTyped
  <1>3. MatchesArePairs'
    BY <1>1, Zenon DEF MatchesArePairs
  <1>4. QED
    BY <1>2, <1>3 DEF Matched

(* ... nor do they touch the group of an event ... *)
LEMMA JoinedStays ==
  ASSUME RoomsTyped, RoomsTyped', Joined, UNCHANGED <<eventRoom, told>>, ChatGrows,
         \A c \in Calls : stage'[c] = "join" => stage[c] = "join" /\ room'[c] = room[c]
  PROVE  Joined'
  BY DEF Joined, OneRoomPerEvent, ChatGrows, RoomsTyped, RoomIds

(* ... or the groups of a plan. *)
LEMMA SplitStays ==
  ASSUME RoomsTyped, RoomsTyped', OneSplit, UNCHANGED groups, ChatGrows,
         \A c \in Calls : Splitting(c)' => Splitting(c) /\ deal'[c] = deal[c]
  PROVE  OneSplit'
  <1>1. ASSUME NEW g \in groups
        PROVE  g.room \in 1..rooms' /\ g.room \in RoomIds
    <2>1. g.room \in 1..rooms
      BY DEF OneSplit
    <2>2. rooms \in Nat /\ rooms' \in Nat /\ rooms <= rooms' /\ rooms' <= MaxRooms
      BY RoomNumbers DEF ChatGrows, RoomsTyped
    <2>3. QED
      BY <2>1, <2>2, RoomNumbers DEF RoomIds
  <1>2. GroupsAreDisjoint'
    BY <1>1 DEF OneSplit, GroupsAreDisjoint, ChatGrows
  <1>3. QED
    BY <1>1, <1>2 DEF OneSplit

(* A call that ends lets go of all it held. *)
LEMMA EndsTyped ==
  ASSUME RoomsTyped, NEW c \in Calls, Ends(c)
  PROVE  /\ stage' \in [Calls -> {"idle", "room", "add", "lockMine", "lockTheirs", "find",
                                  "claim", "join", "read", "group"}]
         /\ mine' \in [Calls -> Windows \cup {NoWindow}]
         /\ theirs' \in [Calls -> Windows \cup {NoWindow}]
         /\ asks' \in [Calls -> People \cup {Nobody}]
         /\ todo' \in [Calls -> SUBSET People]
         /\ room' \in [Calls -> 0..MaxRooms]
         /\ DOMAIN deal' = Calls /\ deal' = [d \in Calls |-> deal'[d]]
         /\ label' \in [Calls -> Nat]
         /\ stage'[c] = "idle"
         /\ \A d \in Calls \ {c} :
              /\ stage'[d] = stage[d] /\ mine'[d] = mine[d] /\ theirs'[d] = theirs[d]
              /\ asks'[d] = asks[d] /\ todo'[d] = todo[d] /\ room'[d] = room[d]
              /\ deal'[d] = deal[d] /\ label'[d] = label[d]
  <1> USE RoomNumbers DEF Ends, Goes, RoomsTyped
  <1>1. /\ stage' \in [Calls -> {"idle", "room", "add", "lockMine", "lockTheirs", "find",
                                 "claim", "join", "read", "group"}]
        /\ stage'[c] = "idle" /\ \A d \in Calls \ {c} : stage'[d] = stage[d]
    OBVIOUS
  <1>2. /\ mine' \in [Calls -> Windows \cup {NoWindow}]
        /\ theirs' \in [Calls -> Windows \cup {NoWindow}]
        /\ \A d \in Calls \ {c} : mine'[d] = mine[d] /\ theirs'[d] = theirs[d]
    OBVIOUS
  <1>3. /\ asks' \in [Calls -> People \cup {Nobody}]
        /\ todo' \in [Calls -> SUBSET People]
        /\ \A d \in Calls \ {c} : asks'[d] = asks[d] /\ todo'[d] = todo[d]
    OBVIOUS
  <1>4. /\ room' \in [Calls -> 0..MaxRooms]
        /\ label' \in [Calls -> Nat]
        /\ \A d \in Calls \ {c} : room'[d] = room[d] /\ label'[d] = label[d]
    OBVIOUS
  <1>5. /\ DOMAIN deal' = Calls /\ deal' = [d \in Calls |-> deal'[d]]
        /\ \A d \in Calls \ {c} : deal'[d] = deal[d]
    OBVIOUS
  <1>6. QED
    BY <1>1, <1>2, <1>3, <1>4, <1>5

(* Ending one call breaks no promise to another; the room it had may have   *)
(* gone to a window.                                                        *)
LEMMA EndsQuietly ==
  ASSUME RoomsInv, NEW c \in Calls, Ends(c), ChatGrows, RoomsTyped', UNCHANGED <<flow, groups>>,
         \A w \in Windows : place'[w] = place[w] \/ (HasRoom(c) /\ place'[w] = room[c])
  PROVE  WorkTyped' /\ OwnRooms' /\ CompanyComes' /\ OneSplit'
  <1>1. /\ stage'[c] = "idle"
        /\ \A d \in Calls \ {c} :
             /\ stage'[d] = stage[d] /\ mine'[d] = mine[d] /\ theirs'[d] = theirs[d]
             /\ asks'[d] = asks[d] /\ todo'[d] = todo[d] /\ room'[d] = room[d]
             /\ deal'[d] = deal[d] /\ label'[d] = label[d]
    BY EndsTyped DEF RoomsInv
  <1>2. WorkTyped'
    BY <1>1 DEF RoomsInv, WorkTyped, Prepares
  <1>3. OwnRooms'
    <2>1. rooms \in Nat /\ rooms' \in Nat /\ rooms <= rooms'
      BY RoomNumbers DEF RoomsInv, RoomsTyped, ChatGrows
    <2>2. \A d \in Calls : HasRoom(d)' => d # c /\ HasRoom(d) /\ room'[d] = room[d]
      BY <1>1 DEF HasRoom
    <2>3. \A d \in Calls : HasRoom(d)' => room'[d] \in 1..rooms'
      BY <2>1, <2>2 DEF RoomsInv, OwnRooms
    <2>4. ASSUME NEW d \in Calls, HasRoom(d)'
          PROVE  \A w \in Windows : place'[w] # room'[d]
      BY <2>2, <2>4 DEF RoomsInv, OwnRooms
    <2>5. QED
      BY <2>2, <2>3, <2>4 DEF RoomsInv, OwnRooms
  <1>4. CompanyComes'
    <2>1. \A d \in Calls \ {c} : Company(d)' = Company(d)
      BY <1>1 DEF Company
    <2>2. \A d \in Calls : HasRoom(d) => members[room[d]] \subseteq members'[room[d]]
      BY DEF RoomsInv, OwnRooms, RoomsTyped, RoomIds, ChatGrows
    <2>3. QED
      BY <1>1, <2>1, <2>2 DEF RoomsInv, CompanyComes, HasRoom
  <1>5. OneSplit'
    <2>1. \A d \in Calls : Splitting(d)' => Splitting(d) /\ deal'[d] = deal[d]
      BY <1>1 DEF Splitting, Prepares
    <2>2. QED
      BY <2>1, SplitStays DEF RoomsInv
  <1>6. QED
    BY <1>2, <1>3, <1>4, <1>5

-----------------------------------------------------------------------------
(* The steps of a call, one lemma each: the number of a new room is nobody  *)
(* else's yet.                                                              *)
LEMMA CreateAdHocRoomStep ==
  ASSUME RoomsInv, NEW c \in Calls, CreateAdHocRoom(c)
  PROVE  RoomsInv'
  <1> USE RoomNumbers, PeopleAssumption, WindowsAssumption
      DEF CreateAdHocRoom, Goes, chat, match, event, plan, args, call
  <1>1. RoomsTyped'
    BY DEF RoomsInv, RoomsTyped, RoomIds
  <1>2. ChatGrows
    BY DEF ChatGrows, RoomsInv, RoomsTyped, RoomIds
  <1>3. WorkTyped'
    BY DEF RoomsInv, RoomsTyped, WorkTyped, Prepares
  <1>4. OwnRooms'
    <2>1. /\ rooms \in Nat /\ rooms' = rooms + 1 /\ room'[c] = rooms + 1
          /\ \A d \in Calls \ {c} : room'[d] = room[d] /\ (HasRoom(d)' => HasRoom(d))
      BY DEF RoomsInv, RoomsTyped, HasRoom
    <2>2. /\ \A d \in Calls : HasRoom(d) => room[d] \in 1..rooms
          /\ \A w \in Windows : place[w] \in Nat /\ place[w] <= rooms
          /\ \A g \in groups : g.room \in 1..rooms
      BY DEF RoomsInv, RoomsTyped, OwnRooms, Matched, OneSplit
    <2>3. ASSUME NEW d \in Calls, HasRoom(d)'
          PROVE  /\ room'[d] \in 1..rooms'
                 /\ \A w \in Windows : place'[w] # room'[d]
                 /\ \A g \in groups' : g.room # room'[d]
      <3>1. CASE d = c
        BY <2>1, <2>2, <3>1
      <3>2. CASE d # c
        <4>1. room'[d] = room[d] /\ HasRoom(d)
          BY <2>1, <2>3, <3>2
        <4>2. QED
          BY <2>1, <2>2, <4>1 DEF RoomsInv, OwnRooms
      <3>3. QED
        BY <3>1, <3>2
    <2>4. ASSUME NEW d \in Calls, HasRoom(d)', NEW e \in Calls \ {d}, HasRoom(e)'
          PROVE  room'[d] # room'[e]
      <3>1. CASE d # c /\ e # c
        BY <2>1, <2>4, <3>1 DEF RoomsInv, OwnRooms
      <3>2. CASE d = c \/ e = c
        BY <2>1, <2>2, <2>4, <3>2
      <3>3. QED
        BY <3>1, <3>2
    <2>5. QED
      BY <2>3, <2>4 DEF OwnRooms
  <1>5. CompanyComes'
    BY DEF RoomsInv, RoomsTyped, WorkTyped, CompanyComes, Company, Prepares
  <1>6. Joined'
    BY <1>1, <1>2, JoinedStays DEF RoomsInv, RoomsTyped
  <1>7. Matched'
    BY <1>1, <1>2, MatchedStays DEF RoomsInv
  <1>8. OneSplit'
    <2>1. \A d \in Calls : Splitting(d)' => Splitting(d) /\ deal'[d] = deal[d]
      BY DEF Splitting, Prepares, RoomsInv, RoomsTyped
    <2>2. QED
      BY <1>1, <1>2, <2>1, SplitStays DEF RoomsInv
  <1>9. QED
    BY <1>1, <1>3, <1>4, <1>5, <1>6, <1>7, <1>8 DEF RoomsInv

(* The last of the company to be added completes it. *)
LEMMA AddMemberStep ==
  ASSUME RoomsInv, NEW c \in Calls, NEW p \in People, AddMember(c, p)
  PROVE  RoomsInv'
  <1> USE RoomNumbers, PeopleAssumption, WindowsAssumption
      DEF AddMember, WithRoom, Goes, chat, match, event, plan, args, call
  <1>1. RoomsTyped'
    <2>1. WithRoom[flow] \in {"lockMine", "claim", "group"}
      BY DEF RoomsInv, RoomsTyped
    <2>2. stage' \in [Calls -> {"idle", "room", "add", "lockMine", "lockTheirs", "find",
                                "claim", "join", "read", "group"}]
      BY <2>1 DEF RoomsInv, RoomsTyped
    <2>3. members' \in [RoomIds -> SUBSET People] /\ todo' \in [Calls -> SUBSET People]
      BY DEF RoomsInv, RoomsTyped
    <2>4. QED
      BY <2>2, <2>3 DEF RoomsInv, RoomsTyped
  <1>2. ChatGrows
    BY DEF ChatGrows, RoomsInv, RoomsTyped, RoomIds
  <1>3. WorkTyped'
    BY DEF RoomsInv, RoomsTyped, WorkTyped, Prepares
  <1>4. OwnRooms'
    BY DEF RoomsInv, RoomsTyped, OwnRooms, HasRoom
  <1>5. CompanyComes'
    <2>1. \A d \in Calls : Company(d)' = Company(d) /\ room'[d] = room[d]
      BY DEF Company
    <2>2. \A d \in Calls : HasRoom(d) => members[room[d]] \subseteq members'[room[d]]
      BY <1>2 DEF RoomsInv, OwnRooms, RoomsTyped, RoomIds, ChatGrows
    <2>3. \A d \in Calls \ {c} : stage'[d] = stage[d] /\ todo'[d] = todo[d]
      BY DEF RoomsInv, RoomsTyped
    <2>4. /\ todo'[c] = todo[c] \ {p}
          /\ members'[room[c]] = members[room[c]] \cup {p}
          /\ stage'[c] # "room" /\ (stage'[c] # "add" => todo[c] = {p})
      BY DEF RoomsInv, RoomsTyped, OwnRooms, HasRoom, RoomIds
    <2>5. Company(c) \subseteq todo[c] \cup members[room[c]]
      BY DEF RoomsInv, CompanyComes
    <2>6. ASSUME NEW d \in Calls
          PROVE  /\ stage'[d] = "room" => Company(d)' \subseteq todo'[d]
                 /\ stage'[d] = "add" => Company(d)' \subseteq todo'[d] \cup members'[room'[d]]
                 /\ stage'[d] \in {"lockMine", "lockTheirs", "group"}
                      => Company(d)' \subseteq members'[room'[d]]
      <3>1. CASE d = c
        BY <2>1, <2>4, <2>5, <3>1
      <3>2. CASE d # c
        BY <2>1, <2>2, <2>3, <3>2 DEF RoomsInv, CompanyComes, HasRoom
      <3>3. QED
        BY <3>1, <3>2
    <2>7. QED
      BY <2>6 DEF CompanyComes
  <1>6. Joined'
    BY <1>1, <1>2, JoinedStays DEF RoomsInv, RoomsTyped
  <1>7. Matched'
    BY <1>1, <1>2, MatchedStays DEF RoomsInv
  <1>8. OneSplit'
    <2>1. \A d \in Calls : Splitting(d)' => Splitting(d) /\ deal'[d] = deal[d]
      BY DEF Splitting, Prepares, RoomsInv, RoomsTyped
    <2>2. QED
      BY <1>1, <1>2, <2>1, SplitStays DEF RoomsInv
  <1>9. QED
    BY <1>1, <1>3, <1>4, <1>5, <1>6, <1>7, <1>8 DEF RoomsInv

LEMMA DiesStep ==
  ASSUME RoomsInv, NEW c \in Calls, Dies(c)
  PROVE  RoomsInv'
  <1> USE RoomNumbers, PeopleAssumption, WindowsAssumption
      DEF Dies, Unlocked, Goes, chat, match, event, plan, args, call
  <1>1. RoomsTyped'
    <2>1. holder' \in [Windows -> Calls \cup {Free}]
      BY DEF RoomsInv, RoomsTyped
    <2>2. QED
      BY <2>1, EndsTyped DEF RoomsInv, RoomsTyped
  <1>2. ChatGrows
    BY DEF ChatGrows, RoomsInv, RoomsTyped, RoomIds
  <1>3. WorkTyped' /\ OwnRooms' /\ CompanyComes' /\ OneSplit'
    BY <1>1, <1>2, EndsQuietly
  <1>4. Joined'
    BY <1>1, <1>2, EndsTyped, JoinedStays DEF RoomsInv
  <1>5. Matched'
    BY <1>1, <1>2, MatchedStays DEF RoomsInv
  <1>6. QED
    BY <1>1, <1>3, <1>4, <1>5 DEF RoomsInv

LEMMA AcceptActivityMatchStep ==
  ASSUME RoomsInv, NEW c \in Calls, NEW w \in Windows, NEW v \in Windows, AcceptActivityMatch(c, w, v)
  PROVE  RoomsInv'
  <1> USE RoomNumbers, PeopleAssumption, WindowsAssumption
      DEF AcceptActivityMatch, Goes, chat, match, event, plan, args, call
  <1>1. RoomsTyped'
    BY DEF RoomsInv, RoomsTyped, RoomIds
  <1>2. ChatGrows
    BY DEF ChatGrows, RoomsInv, RoomsTyped, RoomIds
  <1>3. WorkTyped'
    BY DEF RoomsInv, RoomsTyped, WorkTyped, Prepares
  <1>4. OwnRooms'
    BY DEF RoomsInv, RoomsTyped, OwnRooms, HasRoom
  <1>5. CompanyComes'
    BY DEF RoomsInv, RoomsTyped, WorkTyped, CompanyComes, Company, Prepares
  <1>6. Joined'
    BY <1>1, <1>2, JoinedStays DEF RoomsInv, RoomsTyped
  <1>7. Matched'
    BY <1>1, <1>2, MatchedStays DEF RoomsInv
  <1>8. OneSplit'
    <2>1. \A d \in Calls : Splitting(d)' => Splitting(d) /\ deal'[d] = deal[d]
      BY DEF Splitting, Prepares, RoomsInv, RoomsTyped
    <2>2. QED
      BY <1>1, <1>2, <2>1, SplitStays DEF RoomsInv
  <1>9. QED
    BY <1>1, <1>3, <1>4, <1>5, <1>6, <1>7, <1>8 DEF RoomsInv

LEMMA LockMineStep ==
  ASSUME RoomsInv, NEW c \in Calls, LockMine(c)
  PROVE  RoomsInv'
  <1> USE RoomNumbers, PeopleAssumption, WindowsAssumption
      DEF LockMine, Goes, chat, match, event, plan, args, call
  <1>1. RoomsTyped'
    <2>1. holder' \in [Windows -> Calls \cup {Free}]
      BY DEF RoomsInv, RoomsTyped
    <2>2. stage' \in [Calls -> {"idle", "room", "add", "lockMine", "lockTheirs", "find",
                                "claim", "join", "read", "group"}]
      BY DEF RoomsInv, RoomsTyped
    <2>3. QED
      BY <2>1, <2>2 DEF RoomsInv, RoomsTyped
  <1>2. ChatGrows
    BY DEF ChatGrows, RoomsInv, RoomsTyped, RoomIds
  <1>3. WorkTyped'
    BY DEF RoomsInv, RoomsTyped, WorkTyped, Prepares
  <1>4. OwnRooms'
    BY DEF RoomsInv, RoomsTyped, OwnRooms, HasRoom
  <1>5. CompanyComes'
    BY DEF RoomsInv, RoomsTyped, WorkTyped, CompanyComes, Company, Prepares
  <1>6. Joined'
    BY <1>1, <1>2, JoinedStays DEF RoomsInv, RoomsTyped
  <1>7. Matched'
    BY <1>1, <1>2, MatchedStays DEF RoomsInv
  <1>8. OneSplit'
    <2>1. \A d \in Calls : Splitting(d)' => Splitting(d) /\ deal'[d] = deal[d]
      BY DEF Splitting, Prepares, RoomsInv, RoomsTyped
    <2>2. QED
      BY <1>1, <1>2, <2>1, SplitStays DEF RoomsInv
  <1>9. QED
    BY <1>1, <1>3, <1>4, <1>5, <1>6, <1>7, <1>8 DEF RoomsInv

(* Both windows are open, so neither is in a pair, and the room is new.     *)
LEMMA AcceptMatchStep ==
  ASSUME RoomsInv, NEW c \in Calls, AcceptMatch(c)
  PROVE  RoomsInv'
  <1> USE RoomNumbers, PeopleAssumption, WindowsAssumption
      DEF AcceptMatch, Pairs, Unlocked, Goes, chat, match, event, plan, args, call
  <1> DEFINE w == mine[c]  v == theirs[c]
  <1>0. /\ w \in Windows /\ v \in Windows /\ w # v
        /\ HasRoom(c) /\ room[c] \in 1..rooms /\ room[c] \in RoomIds
        /\ {Host[w], Host[v]} \subseteq members[room[c]]
        /\ \A x \in Windows : place[x] # room[c]
    <2>1. w \in Windows /\ v \in Windows /\ w # v /\ flow = "match"
      BY DEF RoomsInv, WorkTyped, Prepares
    <2>2. /\ HasRoom(c) /\ room[c] \in 1..rooms
          /\ \A x \in Windows : place[x] # room[c]
      BY DEF RoomsInv, HasRoom, OwnRooms
    <2>3. {Host[w], Host[v]} \subseteq members[room[c]]
      BY <2>1 DEF RoomsInv, CompanyComes, Company
    <2>4. room[c] \in RoomIds
      BY <2>2 DEF RoomsInv, RoomsTyped, RoomIds
    <2>5. QED
      BY <2>1, <2>2, <2>3, <2>4
  <1>1. RoomsTyped'
    <2>1. holder' \in [Windows -> Calls \cup {Free}]
      BY DEF RoomsInv, RoomsTyped
    <2>2. window' \in [Windows -> {"open", "matched", "cancelled"}]
      BY <1>0 DEF RoomsInv, RoomsTyped
    <2>3. mate' \in [Windows -> People \cup {Nobody}]
      BY <1>0 DEF RoomsInv, RoomsTyped
    <2>4. place' \in [Windows -> 0..MaxRooms]
      BY <1>0 DEF RoomsInv, RoomsTyped
    <2>5. QED
      BY <2>1, <2>2, <2>3, <2>4, EndsTyped DEF RoomsInv, RoomsTyped
  <1>2. ChatGrows
    BY DEF ChatGrows, RoomsInv, RoomsTyped, RoomIds
  <1>3. WorkTyped' /\ OwnRooms' /\ CompanyComes' /\ OneSplit'
    <2>1. \A x \in Windows : place'[x] = place[x] \/ (HasRoom(c) /\ place'[x] = room[c])
      BY <1>0 DEF RoomsInv, RoomsTyped
    <2>2. QED
      BY <1>1, <1>2, <2>1, EndsQuietly
  <1>4. Joined'
    BY <1>1, <1>2, EndsTyped, JoinedStays DEF RoomsInv
  <1>5. Matched'
    <2>1. CASE window[w] = "open" /\ window[v] = "open"
      <3>1. /\ place' = [place EXCEPT ![w] = room[c], ![v] = room[c]]
            /\ mate' = [mate EXCEPT ![w] = Host[v], ![v] = Host[w]]
            /\ window' = [window EXCEPT ![w] = "matched", ![v] = "matched"]
        BY <2>1
      <3>2. place[w] = 0 /\ place[v] = 0 /\ room[c] # 0
        BY <1>0, <2>1 DEF RoomsInv, Matched
      <3>3. /\ place'[w] = room[c] /\ place'[v] = room[c]
            /\ mate'[w] = Host[v] /\ mate'[v] = Host[w]
            /\ window'[w] = "matched" /\ window'[v] = "matched"
            /\ \A x \in Windows \ {w, v} :
                 place'[x] = place[x] /\ mate'[x] = mate[x] /\ window'[x] = window[x]
        BY <1>0, <3>1 DEF RoomsInv, RoomsTyped
      <3>4. ASSUME NEW x \in Windows, place'[x] # 0
            PROVE  \E y \in Windows \ {x} :
                     /\ {z \in Windows : place'[z] = place'[x]} = {x, y}
                     /\ mate'[x] = Host[y] /\ mate'[y] = Host[x]
                     /\ {Host[x], Host[y]} \subseteq members'[place'[x]]
                     /\ "open" \notin {window'[x], window'[y]}
        <4>1. CASE x \in {w, v}
          <5>1. {z \in Windows : place'[z] = place'[x]} = {w, v}
            BY <1>0, <3>3, <4>1
          <5>2. QED
            BY <1>0, <3>3, <4>1, <5>1
        <4>2. CASE x \notin {w, v}
          <5>1. place'[x] = place[x] /\ place[x] # room[c]
            BY <1>0, <3>3, <4>2
          <5>2. PICK y \in Windows \ {x} :
                     /\ {z \in Windows : place[z] = place[x]} = {x, y}
                     /\ mate[x] = Host[y] /\ mate[y] = Host[x]
                     /\ {Host[x], Host[y]} \subseteq members[place[x]]
                     /\ "open" \notin {window[x], window[y]}
            BY <3>4, <5>1 DEF RoomsInv, Matched, MatchesArePairs
          <5>3. place[y] = place[x] /\ y \notin {w, v}
            BY <2>1, <5>2
          <5>4. {z \in Windows : place'[z] = place'[x]} = {x, y}
            BY <1>0, <3>2, <3>3, <3>4, <5>1, <5>2
          <5>5. QED
            BY <3>3, <4>2, <5>1, <5>2, <5>3, <5>4
        <4>3. QED
          BY <4>1, <4>2
      <3>5. MatchesArePairs'
        BY <3>4, Zenon DEF MatchesArePairs
      <3>6. \A x \in Windows : place'[x] <= rooms /\ (window'[x] = "open" => place'[x] = 0)
        BY <1>0, <3>3 DEF RoomsInv, RoomsTyped, Matched
      <3>7. QED
        BY <3>5, <3>6 DEF Matched
    <2>2. CASE ~ (window[w] = "open" /\ window[v] = "open")
      BY <1>1, <1>2, <2>2, MatchedStays DEF RoomsInv
    <2>3. QED
      BY <2>1, <2>2
  <1>6. QED
    BY <1>1, <1>3, <1>4, <1>5 DEF RoomsInv

LEMMA JoinEventGroupStep ==
  ASSUME RoomsInv, NEW c \in Calls, NEW p \in People, JoinEventGroup(c, p)
  PROVE  RoomsInv'
  <1> USE RoomNumbers, PeopleAssumption, WindowsAssumption
      DEF JoinEventGroup, Goes, chat, match, event, plan, args, call
  <1>1. RoomsTyped'
    BY DEF RoomsInv, RoomsTyped, RoomIds
  <1>2. ChatGrows
    BY DEF ChatGrows, RoomsInv, RoomsTyped, RoomIds
  <1>3. WorkTyped'
    BY DEF RoomsInv, RoomsTyped, WorkTyped, Prepares
  <1>4. OwnRooms'
    BY DEF RoomsInv, RoomsTyped, OwnRooms, HasRoom
  <1>5. CompanyComes'
    BY DEF RoomsInv, RoomsTyped, WorkTyped, CompanyComes, Company, Prepares
  <1>6. Joined'
    BY <1>1, <1>2, JoinedStays DEF RoomsInv, RoomsTyped
  <1>7. Matched'
    BY <1>1, <1>2, MatchedStays DEF RoomsInv
  <1>8. OneSplit'
    <2>1. \A d \in Calls : Splitting(d)' => Splitting(d) /\ deal'[d] = deal[d]
      BY DEF Splitting, Prepares, RoomsInv, RoomsTyped
    <2>2. QED
      BY <1>1, <1>2, <2>1, SplitStays DEF RoomsInv
  <1>9. QED
    BY <1>1, <1>3, <1>4, <1>5, <1>6, <1>7, <1>8 DEF RoomsInv

LEMMA FindRoomStep ==
  ASSUME RoomsInv, NEW c \in Calls, FindRoom(c)
  PROVE  RoomsInv'
  <1> USE RoomNumbers, PeopleAssumption, WindowsAssumption
      DEF FindRoom, Goes, chat, match, event, plan, args, call
  <1>1. RoomsTyped'
    <2>1. stage' \in [Calls -> {"idle", "room", "add", "lockMine", "lockTheirs", "find",
                                "claim", "join", "read", "group"}]
      BY DEF RoomsInv, RoomsTyped
    <2>2. todo' \in [Calls -> SUBSET People] /\ room' \in [Calls -> 0..MaxRooms]
      BY DEF RoomsInv, RoomsTyped, WorkTyped
    <2>3. QED
      BY <2>1, <2>2 DEF RoomsInv, RoomsTyped
  <1>2. ChatGrows
    BY DEF ChatGrows, RoomsInv, RoomsTyped, RoomIds
  <1>3. WorkTyped'
    BY DEF RoomsInv, RoomsTyped, WorkTyped, Prepares
  <1>4. OwnRooms'
    BY DEF RoomsInv, RoomsTyped, OwnRooms, HasRoom
  <1>5. CompanyComes'
    BY DEF RoomsInv, RoomsTyped, WorkTyped, CompanyComes, Company, Prepares
  <1>6. Joined'
    <2>1. \A d \in Calls : stage'[d] = "join" => eventRoom # 0 /\ room'[d] = eventRoom
      BY DEF RoomsInv, RoomsTyped, Joined
    <2>2. QED
      BY <2>1 DEF RoomsInv, Joined, OneRoomPerEvent
  <1>7. Matched'
    BY <1>1, <1>2, MatchedStays DEF RoomsInv
  <1>8. OneSplit'
    <2>1. \A d \in Calls : Splitting(d)' => Splitting(d) /\ deal'[d] = deal[d]
      BY DEF Splitting, Prepares, RoomsInv, RoomsTyped, WorkTyped
    <2>2. QED
      BY <1>1, <1>2, <2>1, SplitStays DEF RoomsInv
  <1>9. QED
    BY <1>1, <1>3, <1>4, <1>5, <1>6, <1>7, <1>8 DEF RoomsInv

(* The first claim stays: nobody was told another room before.              *)
LEMMA ClaimRoomStep ==
  ASSUME RoomsInv, NEW c \in Calls, ClaimRoom(c)
  PROVE  RoomsInv'
  <1> USE RoomNumbers, PeopleAssumption, WindowsAssumption
      DEF ClaimRoom, Goes, chat, match, event, plan, args, call
  <1>1. RoomsTyped'
    BY DEF RoomsInv, RoomsTyped, RoomIds
  <1>2. ChatGrows
    BY DEF ChatGrows, RoomsInv, RoomsTyped, RoomIds
  <1>3. WorkTyped'
    BY DEF RoomsInv, RoomsTyped, WorkTyped, Prepares
  <1>4. OwnRooms'
    BY DEF RoomsInv, RoomsTyped, OwnRooms, HasRoom
  <1>5. CompanyComes'
    BY DEF RoomsInv, RoomsTyped, WorkTyped, CompanyComes, Company, Prepares
  <1>6. Joined'
    <2>1. /\ room[c] \in 1..rooms /\ eventRoom \in Nat /\ rooms \in Nat
          /\ eventRoom' # 0 /\ eventRoom' <= rooms
          /\ eventRoom # 0 => eventRoom' = eventRoom
      BY DEF RoomsInv, RoomsTyped, OwnRooms, HasRoom, Joined
    <2>2. /\ room'[c] = eventRoom'
          /\ \A d \in Calls \ {c} : stage'[d] = stage[d] /\ room'[d] = room[d]
      BY DEF RoomsInv, RoomsTyped
    <2>3. \A d \in Calls : stage'[d] = "join" => room'[d] = eventRoom'
      BY <2>1, <2>2 DEF RoomsInv, Joined
    <2>4. OneRoomPerEvent'
      BY <2>1 DEF RoomsInv, Joined, OneRoomPerEvent
    <2>5. QED
      BY <2>1, <2>3, <2>4 DEF Joined
  <1>7. Matched'
    BY <1>1, <1>2, MatchedStays DEF RoomsInv
  <1>8. OneSplit'
    <2>1. \A d \in Calls : Splitting(d)' => Splitting(d) /\ deal'[d] = deal[d]
      BY DEF Splitting, Prepares, RoomsInv, RoomsTyped
    <2>2. QED
      BY <1>1, <1>2, <2>1, SplitStays DEF RoomsInv
  <1>9. QED
    BY <1>1, <1>3, <1>4, <1>5, <1>6, <1>7, <1>8 DEF RoomsInv

LEMMA AddRoomMemberStep ==
  ASSUME RoomsInv, NEW c \in Calls, AddRoomMember(c)
  PROVE  RoomsInv'
  <1> USE RoomNumbers, PeopleAssumption, WindowsAssumption
      DEF AddRoomMember, Goes, chat, match, event, plan, args, call
  <1>0. /\ asks[c] \in People
        /\ eventRoom # 0 /\ room[c] = eventRoom /\ eventRoom \in RoomIds
    BY DEF RoomsInv, RoomsTyped, WorkTyped, Joined, RoomIds
  <1>1. RoomsTyped'
    <2>1. members' \in [RoomIds -> SUBSET People] /\ told' \in [People -> 0..MaxRooms]
      BY <1>0 DEF RoomsInv, RoomsTyped
    <2>2. QED
      BY <2>1, EndsTyped DEF RoomsInv, RoomsTyped
  <1>2. ChatGrows
    BY DEF ChatGrows, RoomsInv, RoomsTyped, RoomIds
  <1>3. WorkTyped' /\ OwnRooms' /\ CompanyComes' /\ OneSplit'
    BY <1>1, <1>2, EndsQuietly
  <1>4. Joined'
    <2>1. ASSUME NEW p \in People, told'[p] # 0
          PROVE  told'[p] = eventRoom /\ p \in members'[eventRoom]
      <3>1. CASE p = asks[c]
        BY <1>0, <3>1 DEF RoomsInv, RoomsTyped
      <3>2. CASE p # asks[c]
        BY <1>0, <1>2, <2>1, <3>2 DEF RoomsInv, RoomsTyped, Joined, OneRoomPerEvent, ChatGrows
      <3>3. QED
        BY <3>1, <3>2
    <2>2. \A d \in Calls : stage'[d] = "join" => stage[d] = "join" /\ room'[d] = room[d]
      BY EndsTyped DEF RoomsInv
    <2>3. QED
      BY <1>0, <2>1, <2>2 DEF RoomsInv, Joined, OneRoomPerEvent
  <1>5. Matched'
    BY <1>1, <1>2, MatchedStays DEF RoomsInv
  <1>6. QED
    BY <1>1, <1>3, <1>4, <1>5 DEF RoomsInv

LEMMA GenerateSmartGroupsStep ==
  ASSUME RoomsInv, NEW c \in Calls, GenerateSmartGroups(c)
  PROVE  RoomsInv'
  <1> USE RoomNumbers, PeopleAssumption, WindowsAssumption
      DEF GenerateSmartGroups, Goes, chat, match, event, plan, args, call
  <1>1. RoomsTyped'
    BY DEF RoomsInv, RoomsTyped, RoomIds
  <1>2. ChatGrows
    BY DEF ChatGrows, RoomsInv, RoomsTyped, RoomIds
  <1>3. WorkTyped'
    BY DEF RoomsInv, RoomsTyped, WorkTyped, Prepares
  <1>4. OwnRooms'
    BY DEF RoomsInv, RoomsTyped, OwnRooms, HasRoom
  <1>5. CompanyComes'
    BY DEF RoomsInv, RoomsTyped, WorkTyped, CompanyComes, Company, Prepares
  <1>6. Joined'
    BY <1>1, <1>2, JoinedStays DEF RoomsInv, RoomsTyped
  <1>7. Matched'
    BY <1>1, <1>2, MatchedStays DEF RoomsInv
  <1>8. OneSplit'
    <2>1. \A d \in Calls : Splitting(d)' => Splitting(d) /\ deal'[d] = deal[d]
      BY DEF Splitting, Prepares, RoomsInv, RoomsTyped
    <2>2. QED
      BY <1>1, <1>2, <2>1, SplitStays DEF RoomsInv
  <1>9. QED
    BY <1>1, <1>3, <1>4, <1>5, <1>6, <1>7, <1>8 DEF RoomsInv

(* The deal is made here, and is a good one. *)
LEMMA ReadParticipantsStep ==
  ASSUME RoomsInv, NEW c \in Calls, ReadParticipants(c)
  PROVE  RoomsInv'
  <1> USE RoomNumbers, PeopleAssumption, WindowsAssumption
      DEF ReadParticipants, DealOut, Goes, chat, match, event, plan, args, call
  <1>0. PICK d \in BuildGroups(confirmed) :
          /\ deal' = [deal EXCEPT ![c] = d]
          /\ IF confirmed = {} THEN stage' = [stage EXCEPT ![c] = "idle"] /\ UNCHANGED <<todo, label>>
             ELSE /\ label' = [label EXCEPT ![c] = 1]
                  /\ todo' = [todo EXCEPT ![c] = d[1]]
                  /\ stage' = [stage EXCEPT ![c] = "room"]
    OBVIOUS
  <1>good. GoodDeal(d) /\ (confirmed # {} => 1 \in DOMAIN d /\ d[1] \subseteq People)
    BY GroupsAreDealt DEF RoomsInv, RoomsTyped, GoodDeal
  <1>1. RoomsTyped'
    <2>1. stage' \in [Calls -> {"idle", "room", "add", "lockMine", "lockTheirs", "find",
                                "claim", "join", "read", "group"}]
      BY <1>0 DEF RoomsInv, RoomsTyped
    <2>2. todo' \in [Calls -> SUBSET People] /\ label' \in [Calls -> Nat]
      BY <1>0, <1>good DEF RoomsInv, RoomsTyped
    <2>3. DOMAIN deal' = Calls /\ deal' = [e \in Calls |-> deal'[e]]
      <3>1. DOMAIN deal = Calls /\ deal' = [deal EXCEPT ![c] = d]
        BY <1>0 DEF RoomsInv, RoomsTyped
      <3>2. QED
        BY <3>1
    <2>4. QED
      BY <2>1, <2>2, <2>3 DEF RoomsInv, RoomsTyped
  <1>2. ChatGrows
    BY DEF ChatGrows, RoomsInv, RoomsTyped, RoomIds
  <1>3. WorkTyped'
    <2>1. /\ deal'[c] = d /\ flow = "groups"
          /\ stage'[c] = "idle" \/ (stage'[c] = "room" /\ label'[c] = 1 /\ confirmed # {})
          /\ \A e \in Calls \ {c} :
               stage'[e] = stage[e] /\ deal'[e] = deal[e] /\ label'[e] = label[e]
      BY <1>0 DEF RoomsInv, RoomsTyped, WorkTyped
    <2>2. QED
      BY <1>good, <2>1 DEF RoomsInv, WorkTyped, Prepares, GoodDeal
  <1>4. OwnRooms'
    BY DEF RoomsInv, RoomsTyped, OwnRooms, HasRoom
  <1>5. CompanyComes'
    BY DEF RoomsInv, RoomsTyped, WorkTyped, CompanyComes, Company, Prepares
  <1>6. Joined'
    BY <1>1, <1>2, JoinedStays DEF RoomsInv, RoomsTyped
  <1>7. Matched'
    BY <1>1, <1>2, MatchedStays DEF RoomsInv
  <1>8. OneSplit'
    <2>1. \A e \in Calls : Splitting(e)' => Splitting(e) /\ deal'[e] = deal[e]
      BY DEF Splitting, Prepares, RoomsInv, RoomsTyped
    <2>2. QED
      BY <1>1, <1>2, <2>1, SplitStays DEF RoomsInv
  <1>9. QED
    BY <1>1, <1>3, <1>4, <1>5, <1>6, <1>7, <1>8 DEF RoomsInv

LEMMA CreateGroupFailsStep ==
  ASSUME RoomsInv, NEW c \in Calls, CreateGroupFails(c)
  PROVE  RoomsInv'
  <1> USE RoomNumbers, PeopleAssumption, WindowsAssumption
      DEF CreateGroupFails, Goes, chat, match, event, plan, args, call
  <1>1. RoomsTyped'
    BY EndsTyped DEF RoomsInv, RoomsTyped, RoomIds
  <1>2. ChatGrows
    BY DEF ChatGrows, RoomsInv, RoomsTyped, RoomIds
  <1>3. WorkTyped' /\ OwnRooms' /\ CompanyComes' /\ OneSplit'
    BY <1>1, <1>2, EndsQuietly
  <1>4. Joined'
    BY <1>1, <1>2, EndsTyped, JoinedStays DEF RoomsInv
  <1>5. Matched'
    BY <1>1, <1>2, MatchedStays DEF RoomsInv
  <1>6. QED
    BY <1>1, <1>3, <1>4, <1>5 DEF RoomsInv

-----------------------------------------------------------------------------
(* The steps outside the calls: cancelling, interests, an event that ends,  *)
(* guests who come and go.  Every part but the types is as it was.          *)
LEMMA QuietStep ==
  ASSUME RoomsInv, RoomsTyped', UNCHANGED <<flow, chat, mate, place, eventRoom, told, groups, call>>,
         \A w \in Windows : window'[w] = "open" => window[w] = "open"
  PROVE  RoomsInv'
  <1> USE DEF RoomsInv, chat, call, args
  <1>1. ChatGrows
    BY DEF ChatGrows, RoomsTyped
  <1>2. WorkTyped'
    BY DEF WorkTyped, Prepares
  <1>3. OwnRooms' /\ CompanyComes'
    BY DEF OwnRooms, HasRoom, CompanyComes, Company
  <1>4. Joined'
    BY <1>1, JoinedStays
  <1>5. Matched'
    BY <1>1, MatchedStays
  <1>6. OneSplit'
    BY <1>1, SplitStays DEF Splitting, Prepares
  <1>7. QED
    BY <1>2, <1>3, <1>4, <1>5, <1>6

LEMMA OutsideStep ==
  ASSUME RoomsInv,
         \/ \E w \in Windows : CancelAvailability(w)
         \/ \E p \in People : SetInterest(p) \/ Confirms(p)
         \/ DeactivateExternalEvent
         \/ UNCHANGED vars
  PROVE  RoomsInv'
  <1> USE DEF match, event, plan
  <1>1. ASSUME NEW w \in Windows, CancelAvailability(w)
        PROVE  RoomsInv'
    <2>1. window' \in [Windows -> {"open", "matched", "cancelled"}]
          /\ \A x \in Windows : window'[x] = "open" => window[x] = "open"
      BY <1>1 DEF CancelAvailability, RoomsInv, RoomsTyped
    <2>2. RoomsTyped'
      BY <1>1, <2>1 DEF CancelAvailability, RoomsInv, RoomsTyped, chat, call, args
    <2>3. QED
      BY <1>1, <2>1, <2>2, QuietStep DEF CancelAvailability
  <1>2. ASSUME NEW p \in People, SetInterest(p) \/ Confirms(p)
        PROVE  RoomsInv'
    <2>1. RoomsTyped'
      BY <1>2 DEF SetInterest, Confirms, RoomsInv, RoomsTyped, chat, call, args
    <2>2. QED
      BY <1>2, <2>1, QuietStep DEF SetInterest, Confirms
  <1>3. CASE DeactivateExternalEvent \/ UNCHANGED vars
    <2>1. RoomsTyped'
      BY <1>3 DEF DeactivateExternalEvent, vars, RoomsInv, RoomsTyped, chat, call, args
    <2>2. QED
      BY <1>3, <2>1, QuietStep DEF DeactivateExternalEvent, vars
  <1>4. QED
    BY <1>1, <1>2, <1>3

(* Only the call that inserted the label 1 gets to insert another: the rest *)
(* of the groups are those of its deal.                                     *)
LEMMA CreateGroupStep ==
  ASSUME RoomsInv, NEW c \in Calls, CreateGroup(c)
  PROVE  RoomsInv'
  <1> DEFINE i == label[c]
             D == deal[c]
             G == [label |-> i, room |-> room[c], members |-> D[i]]
  <1>1. /\ flow = "groups" /\ stage[c] = "group" /\ \A g \in groups : g.label # i
        /\ groups' = groups \cup {G}
        /\ UNCHANGED <<flow, chat, match, event, confirmed>>
    BY DEF CreateGroup, Inserts, RoomsInv, WorkTyped
  <1>2. \/ /\ i + 1 \in DOMAIN D
           /\ label' = [label EXCEPT ![c] = i + 1]
           /\ todo' = [todo EXCEPT ![c] = D[i + 1]]
           /\ stage' = [stage EXCEPT ![c] = "room"]
           /\ room' = [room EXCEPT ![c] = 0]
           /\ UNCHANGED <<args, deal>>
        \/ Ends(c)
    BY DEF CreateGroup, Inserts, DealOut, Goes
  <1>3. /\ GoodDeal(D) /\ i \in DOMAIN D /\ i \in Nat \ {0}
        /\ D[i] \subseteq People /\ Cardinality(D[i]) <= TargetSize
        /\ \A k \in DOMAIN D : k # i => D[k] \cap D[i] = {}
    BY <1>1 DEF RoomsInv, WorkTyped, Prepares, GoodDeal
  <1>4. /\ HasRoom(c) /\ room[c] \in 1..rooms
        /\ D[i] \subseteq members[room[c]]
        /\ \A g \in groups : g.room # room[c]
    BY <1>1 DEF RoomsInv, OwnRooms, HasRoom, CompanyComes, Company
  <1>5. RoomsTyped'
    <2>1. CASE Ends(c)
      BY <1>1, <2>1, EndsTyped DEF RoomsInv, RoomsTyped, chat, match, event
    <2>2. CASE ~ Ends(c)
      <3>1. D[i + 1] \subseteq People
        BY <1>2, <1>3, <2>2 DEF GoodDeal
      <3>2. /\ todo' \in [Calls -> SUBSET People] /\ label' \in [Calls -> Nat]
            /\ room' \in [Calls -> 0..MaxRooms]
            /\ stage' \in [Calls -> {"idle", "room", "add", "lockMine", "lockTheirs", "find",
                                     "claim", "join", "read", "group"}]
        BY <1>2, <1>3, <2>2, <3>1, RoomNumbers DEF RoomsInv, RoomsTyped
      <3>3. QED
        BY <1>1, <1>2, <2>2, <3>2 DEF RoomsInv, RoomsTyped, chat, match, event, args
    <2>3. QED
      BY <2>1, <2>2
  <1>6. /\ \/ stage'[c] = "idle"
           \/ /\ stage'[c] = "room" /\ deal'[c] = D
              /\ label'[c] = i + 1 /\ i + 1 \in DOMAIN D /\ todo'[c] = D[i + 1]
        /\ \A d \in Calls \ {c} :
             /\ stage'[d] = stage[d] /\ mine'[d] = mine[d] /\ theirs'[d] = theirs[d]
             /\ asks'[d] = asks[d] /\ todo'[d] = todo[d] /\ room'[d] = room[d]
             /\ deal'[d] = deal[d] /\ label'[d] = label[d]
    <2>1. CASE Ends(c)
      BY <2>1, EndsTyped DEF RoomsInv
    <2>2. CASE ~ Ends(c)
      BY <1>2, <2>2 DEF RoomsInv, RoomsTyped, args
    <2>3. QED
      BY <2>1, <2>2
  <1>7. WorkTyped'
    BY <1>1, <1>3, <1>6 DEF RoomsInv, WorkTyped, Prepares
  <1>8. OwnRooms'
    BY <1>1, <1>4, <1>6 DEF RoomsInv, OwnRooms, HasRoom, chat, match
  <1>9. CompanyComes'
    <2>1. \A d \in Calls \ {c} : Company(d)' = Company(d)
      BY <1>1, <1>6 DEF Company
    <2>2. stage'[c] = "room" => Company(c)' = todo'[c]
      BY <1>1, <1>6 DEF Company
    <2>3. QED
      BY <1>1, <1>6, <2>1, <2>2 DEF RoomsInv, CompanyComes, chat
  <1>10. ChatGrows
    BY <1>1 DEF RoomsInv, RoomsTyped, ChatGrows, chat
  <1>11. Joined'
    <2>1. \A d \in Calls : stage'[d] = "join" => stage[d] = "join" /\ room'[d] = room[d]
      BY <1>6
    <2>2. QED
      BY <1>1, <1>5, <1>10, <2>1, JoinedStays DEF RoomsInv, event
  <1>12. Matched'
    BY <1>1, <1>5, <1>10, MatchedStays DEF RoomsInv, match
  <1>13. groups # {} => i > 1
    BY <1>1, <1>3 DEF RoomsInv, OneSplit
  <1>14. i > 1 => Splitting(c)
    BY <1>1 DEF Splitting, Prepares
  <1>15. \A g \in groups : g.label \in DOMAIN D /\ g.members = D[g.label] /\ g.label # i
    BY <1>1, <1>13, <1>14 DEF RoomsInv, OneSplit
  <1>16. \A d \in Calls \ {c} : ~ Splitting(d)
    BY <1>13, <1>14 DEF RoomsInv, OneSplit
  <1>17. OneSplit'
    <2>1. \A g \in groups' : g.room \in 1..rooms'
      BY <1>1, <1>4 DEF RoomsInv, OneSplit, chat
    <2>2. \A g, h \in groups' : g.label = h.label => g = h
      BY <1>1 DEF RoomsInv, OneSplit
    <2>3. groups' # {} /\ \E g \in groups' : g.label = 1
      <3>1. CASE groups = {}
        <4>1. i = 1
          BY <1>3, <1>14, <3>1 DEF RoomsInv, OneSplit
        <4>2. G \in groups' /\ G.label = 1
          BY <1>1, <4>1
        <4> HIDE DEF G
        <4>3. QED
          BY <4>2
      <3>2. CASE groups # {}
        BY <1>1, <3>2 DEF RoomsInv, OneSplit
      <3>3. QED
        BY <3>1, <3>2
    <2>4. \A d \in Calls : Splitting(d)' => d = c /\ deal'[c] = D
      BY <1>1, <1>6, <1>16 DEF Splitting, Prepares
    <2>5. \A g \in groups' : g.label \in DOMAIN D /\ g.members = D[g.label]
      BY <1>1, <1>3, <1>15
    <2>6. GroupsAreDisjoint'
      <3>1. ASSUME NEW g \in groups
            PROVE  g.members \cap G.members = {} /\ g.room # G.room
        BY <1>3, <1>4, <1>15
      <3>2. G.members \subseteq members[G.room] /\ Cardinality(G.members) <= TargetSize
        BY <1>3, <1>4
      <3>3. /\ \A g, h \in groups' : g # h => g.members \cap h.members = {} /\ g.room # h.room
            /\ \A g \in groups' :
                 Cardinality(g.members) <= TargetSize /\ g.members \subseteq members'[g.room]
        <4> HIDE DEF G
        <4>1. QED
          BY <1>1, <3>1, <3>2 DEF RoomsInv, OneSplit, GroupsAreDisjoint, chat
      <3>4. QED
        BY <3>3 DEF GroupsAreDisjoint
    <2>7. QED
      BY <2>1, <2>2, <2>3, <2>4, <2>5, <2>6 DEF OneSplit
  <1>18. QED
    BY <1>5, <1>7, <1>8, <1>9, <1>11, <1>12, <1>17 DEF RoomsInv

-----------------------------------------------------------------------------
(* Every step preserves the invariant. *)
LEMMA RoomsInvStep == RoomsInv /\ [Next]_vars => RoomsInv'
  <1> SUFFICES ASSUME RoomsInv, [Next]_vars PROVE RoomsInv'
    OBVIOUS
  <1>1. ASSUME NEW c \in Calls, Makes(c) PROVE RoomsInv'
    BY <1>1, CreateAdHocRoomStep, AddMemberStep, DiesStep DEF Makes
  <1>2. ASSUME NEW c \in Calls, Matches(c) PROVE RoomsInv'
    BY <1>2, AcceptActivityMatchStep, LockMineStep, AcceptMatchStep DEF Matches
  <1>3. ASSUME NEW c \in Calls, Joins(c) PROVE RoomsInv'
    BY <1>3, JoinEventGroupStep, FindRoomStep, ClaimRoomStep, AddRoomMemberStep DEF Joins
  <1>4. ASSUME NEW c \in Calls, Splits(c) PROVE RoomsInv'
    BY <1>4, GenerateSmartGroupsStep, ReadParticipantsStep, CreateGroupStep,
       CreateGroupFailsStep DEF Splits
  <1>5. QED
    BY <1>1, <1>2, <1>3, <1>4, OutsideStep DEF Next

(* The inductive invariant of the rooms. *)
THEOREM RoomsInvariant == Spec => []RoomsInv
  <1>1. QED
    BY RoomsInvInit, RoomsInvStep, PTL DEF Spec

(* However many calls accept the same windows, or each other's, at once, a  *)
(* match names two people, each the other, in a room of theirs alone.       *)
THEOREM MatchesAreMutual == Spec => []MatchesArePairs
  <1>1. RoomsInv => MatchesArePairs
    BY DEF RoomsInv, Matched
  <1>2. QED
    BY <1>1, RoomsInvariant, PTL

(* Whoever was let into the group of an event was told its one room and is  *)
(* a member of it, for any number of people who come first together.        *)
THEOREM EventHasOneRoom == Spec => []OneRoomPerEvent
  <1>1. RoomsInv => OneRoomPerEvent
    BY DEF RoomsInv, Joined
  <1>2. QED
    BY <1>1, RoomsInvariant, PTL

(* The groups of a plan come of one deal of its guests: they share nobody,  *)
(* keep to the target size and have their members in rooms of their own.    *)
THEOREM GroupsComeOfOneDeal == Spec => []GroupsAreDisjoint
  <1>1. RoomsInv => GroupsAreDisjoint
    BY DEF RoomsInv, OneSplit
  <1>2. QED
    BY <1>1, RoomsInvariant, PTL

=============================================================================
