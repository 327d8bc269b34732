----------------------------- MODULE SeriesProofs -----------------------------
(* Rule.Occurrences computes what a rule means, for every rule, and a plan  *)
(* series keeps to it: Series' invariants and action properties for any     *)
(* number of extenders and hosts, and any rule.                             *)
EXTENDS Series, Sums

(* The last index the loop looks at, and what it starts with. *)
Last == LastDay + Horizon
Begin == [out |-> {}, stop |-> FALSE]

(* The states the loop passes, up to n. *)
IsLoop(h, n, f) ==
  f = [i \in 0..n |-> Step(IF i = 0 THEN Begin ELSE f[i - 1], i, h)]

(* Occurrences returns what the last state of its loop has collected. *)
LEMMA OccurrencesIsLoop ==
  ASSUME NEW h
  PROVE  Occurrences(h) = (CHOOSE f : IsLoop(h, Last, f))[Last].out
  BY DEF Occurrences, IsLoop, Last, Begin, Indices

(* The loop has a state at every index: by the least index that has none.   *)
LEMMA LoopExists ==
  ASSUME NEW h, NEW N \in Nat
  PROVE  \E f : IsLoop(h, N, f)
  <1> DEFINE Bad == {n \in Nat : ~ \E f : IsLoop(h, n, f)}
  <1>1. 0 \notin Bad
    <2>1. IsLoop(h, 0, [i \in 0..0 |-> Step(Begin, 0, h)])
      BY DEF IsLoop
    <2>2. QED
      BY <2>1
  <1>2. ASSUME NEW n \in Nat, n \notin Bad
        PROVE  n + 1 \notin Bad
    <2>1. PICK f : IsLoop(h, n, f)
      BY <1>2
    <2> DEFINE g == [i \in 0..(n + 1) |-> IF i = n + 1 THEN Step(f[n], i, h) ELSE f[i]]
    <2>2. ASSUME NEW i \in 0..(n + 1)
          PROVE  g[i] = Step(IF i = 0 THEN Begin ELSE g[i - 1], i, h)
      <3>1. CASE i = n + 1
        <4>1. i # 0 /\ i - 1 = n /\ n \in 0..(n + 1) /\ n # n + 1
          BY <3>1
        <4>2. QED
          BY <3>1, <4>1
      <3>2. CASE i # n + 1
        <4>1. i \in 0..n /\ g[i] = f[i]
          BY <3>2
        <4>2. i # 0 => i - 1 \in 0..(n + 1) /\ i - 1 # n + 1 /\ g[i - 1] = f[i - 1]
          BY <4>1
        <4>3. f[i] = Step(IF i = 0 THEN Begin ELSE f[i - 1], i, h)
          BY <2>1, <4>1 DEF IsLoop
        <4>4. QED
          BY <4>1, <4>2, <4>3
      <3>3. QED
        BY <3>1, <3>2
    <2>3. g = [i \in 0..(n + 1) |-> g[i]]
      OBVIOUS
    <2> HIDE DEF g
    <2>4. IsLoop(h, n + 1, g)
      BY <2>2, <2>3 DEF IsLoop
    <2>5. QED
      BY <2>4
  <1>3. Bad = {}
    <2>1. SUFFICES ASSUME Bad # {} PROVE FALSE
      OBVIOUS
    <2>2. PICK m \in Bad : \A n \in Bad : m <= n
      BY <2>1, LeastMember
    <2>3. m \in Nat /\ m # 0
      BY <1>1
    <2> HIDE DEF Bad
    <2>4. m - 1 \in Nat /\ m - 1 \notin Bad
      BY <2>2, <2>3
    <2>5. (m - 1) + 1 \notin Bad
      BY <1>2, <2>4
    <2>6. (m - 1) + 1 = m
      BY <2>3
    <2>7. QED
      BY <2>5, <2>6
  <1>4. QED
    BY <1>3

-----------------------------------------------------------------------------
(* The indices before n that the calendar has, and their days. *)
Before(n) == 0..(n - 1) \ Missing
DaysBefore(n) == {Date(j) : j \in Before(n)}

(* A later index is a later day. *)
LEMMA DatesGrow ==
  ASSUME NEW i \in Nat, NEW j \in Nat
  PROVE  Date(i) \in Nat \ {0} /\ (i < j <=> Date(i) < Date(j)) /\ (i = j <=> Date(i) = Date(j))
  <1>1. Start \in Nat \ {0} /\ Interval \in Nat \ {0}
    BY RuleAssumption
  <1>2. ASSUME NEW a \in Nat, NEW b \in Nat, a < b
        PROVE  a * Interval < b * Interval /\ a * Interval \in Nat /\ b * Interval \in Nat
    BY <1>1, <1>2
  <1>3. i * Interval \in Nat /\ j * Interval \in Nat
    BY <1>1
  <1>4. (i < j => i * Interval < j * Interval) /\ (j < i => j * Interval < i * Interval)
    BY <1>2
  <1>5. QED
    BY <1>1, <1>3, <1>4 DEF Date

(* There are as many days before an index as indices: days are not repeated. *)
LEMMA BeforeFinite ==
  ASSUME NEW n \in Nat
  PROVE  /\ Before(n) \subseteq Nat /\ IsFiniteSet(Before(n)) /\ Cardinality(Before(n)) \in Nat
         /\ IsFiniteSet(DaysBefore(n)) /\ Cardinality(DaysBefore(n)) = Cardinality(Before(n))
  <1>1. IsFiniteSet(0..(n - 1)) /\ Before(n) \subseteq 0..(n - 1) /\ Before(n) \subseteq Nat
    <2>1. 0 \in Int /\ n - 1 \in Int
      OBVIOUS
    <2>2. QED
      BY <2>1, FS_Interval DEF Before
  <1>2. IsFiniteSet(Before(n)) /\ Cardinality(Before(n)) \in Nat
    BY <1>1, FS_Subset, FS_CardinalityType
  <1> DEFINE g == [j \in Before(n) |-> Date(j)]
  <1>3. g \in [Before(n) -> DaysBefore(n)] /\ \A d \in DaysBefore(n) : \E j \in Before(n) : g[j] = d
    BY DEF DaysBefore
  <1>4. \A i, j \in Before(n) : g[i] = g[j] => i = j
    BY <1>1, DatesGrow
  <1> HIDE DEF g
  <1>5. g \in Bijection(Before(n), DaysBefore(n))
    BY <1>3, <1>4 DEF Bijection, Injection, Surjection, IsInjective
  <1>6. IsFiniteSet(DaysBefore(n)) /\ Cardinality(DaysBefore(n)) = Cardinality(Before(n))
    BY <1>2, <1>5, FS_Bijection DEF ExistsBijection
  <1>7. QED
    BY <1>1, <1>2, <1>6

(* An index that the calendar has adds its day, one that it lacks nothing. *)
LEMMA BeforeNext ==
  ASSUME NEW n \in Nat
  PROVE  /\ n \in Missing => Before(n + 1) = Before(n)
         /\ n \notin Missing => /\ Before(n + 1) = Before(n) \cup {n}
                              /\ Cardinality(Before(n + 1)) = Cardinality(Before(n)) + 1
                              /\ DaysBefore(n + 1) = DaysBefore(n) \cup {Date(n)}
  <1>1. 0..((n + 1) - 1) = (0..(n - 1)) \cup {n} /\ n \notin 0..(n - 1)
    OBVIOUS
  <1>2. n \in Missing => Before(n + 1) = Before(n)
    BY <1>1 DEF Before
  <1>3. n \notin Missing => Before(n + 1) = Before(n) \cup {n} /\ n \notin Before(n)
    BY <1>1 DEF Before
  <1>4. n \notin Missing => Cardinality(Before(n + 1)) = Cardinality(Before(n)) + 1
    BY <1>3, BeforeFinite, FS_AddElement
  <1>5. n \notin Missing => DaysBefore(n + 1) = DaysBefore(n) \cup {Date(n)}
    BY <1>3 DEF DaysBefore
  <1>6. QED
    BY <1>2, <1>3, <1>4, <1>5

(* More indices give at least as many days. *)
LEMMA BeforeGrows ==
  ASSUME NEW m \in Nat, NEW n \in Nat, m <= n
  PROVE  /\ Before(m) \subseteq Before(n)
         /\ Cardinality(Before(m)) <= Cardinality(Before(n))
  <1>1. Before(m) \subseteq Before(n)
    BY DEF Before
  <1>2. QED
    BY <1>1, BeforeFinite, FS_Subset

(* Meant, in these terms. *)
LEMMA MeantBefore ==
  ASSUME NEW h
  PROVE  Meant(h) = {Date(j) : j \in {k \in Before(Last + 1) :
                       /\ Date(k) <= h
                       /\ ~ PastUntil(Date(k))
                       /\ Count = 0 \/ Cardinality(Before(k + 1)) <= Count}}
  <1>1. Last \in Nat
    BY RuleAssumption DEF Last
  <1>2. Before(Last + 1) = Indices \ Missing
    BY <1>1 DEF Before, Indices, Last
  <1>3. \A k \in Indices \ Missing : Before(k + 1) = 0..k \ Missing
    BY <1>1 DEF Before, Indices, Last
  <1>4. QED
    BY <1>2, <1>3, Zenon DEF Meant

(* What the loop knows when it has passed n indices. *)
Knows(h, n, s) ==
  /\ s.stop \in BOOLEAN
  /\ s.stop = TRUE => s.out = Meant(h)
  /\ s.stop = FALSE =>
       /\ s.out = DaysBefore(n)
       /\ \A j \in Before(n) : Date(j) <= h /\ ~ PastUntil(Date(j))
       /\ Count = 0 \/ Cardinality(Before(n)) < Count

(* Index k gives a day that the rule means. *)
Means(h, k) ==
  /\ Date(k) <= h
  /\ ~ PastUntil(Date(k))
  /\ Count = 0 \/ Cardinality(Before(k + 1)) <= Count

(* When the meant indices are those before n, the meant days are theirs. *)
LEMMA MeantCut ==
  ASSUME NEW h, NEW n \in 0..(Last + 1),
         \A j \in Before(n) : Means(h, j),
         \A k \in Before(Last + 1) \ Before(n) : ~ Means(h, k)
  PROVE  Meant(h) = DaysBefore(n)
  <1>1. Last \in Nat
    BY RuleAssumption DEF Last
  <1>2. Before(n) \subseteq Before(Last + 1)
    BY <1>1, BeforeGrows
  <1>3. {k \in Before(Last + 1) : Means(h, k)} = Before(n)
    BY <1>2
  <1>4. Meant(h) = {Date(j) : j \in {k \in Before(Last + 1) : Means(h, k)}}
    BY MeantBefore DEF Means
  <1>5. QED
    BY <1>3, <1>4 DEF DaysBefore

(* A step of the loop keeps what it knows: it skips, stops or collects. *)
LEMMA KnowsNext ==
  ASSUME NEW h \in Int, NEW n \in 0..Last, NEW s, Knows(h, n, s)
  PROVE  Knows(h, n + 1, Step(s, n, h))
  <1>1. /\ Last \in Nat /\ n \in Nat /\ n + 1 \in Nat /\ n \in 0..(Last + 1) /\ n + 1 \in 0..(Last + 1)
        /\ Count \in Nat /\ Until \in Nat
    BY RuleAssumption DEF Last
  <1>2. CASE s.stop = TRUE
    BY <1>2 DEF Knows, Step
  <1>3. CASE s.stop = FALSE /\ n \in Missing
    <2>1. Step(s, n, h) = s
      BY <1>3 DEF Step
    <2>2. Before(n + 1) = Before(n) /\ DaysBefore(n + 1) = DaysBefore(n)
      BY <1>1, <1>3, BeforeNext DEF DaysBefore
    <2>3. QED
      BY <2>1, <2>2 DEF Knows
  <1>4. ASSUME s.stop = FALSE
        PROVE  \A j \in Before(n) : Means(h, j)
    <2> SUFFICES ASSUME NEW j \in Before(n) PROVE Means(h, j)
      OBVIOUS
    <2>1. j \in Nat /\ j + 1 \in Nat /\ j + 1 <= n
      BY <1>1 DEF Before
    <2>2. Cardinality(Before(j + 1)) <= Cardinality(Before(n))
      BY <1>1, <2>1, BeforeGrows
    <2>3. Cardinality(Before(j + 1)) \in Nat /\ Cardinality(Before(n)) \in Nat
      BY <1>1, <2>1, BeforeFinite
    <2>4. QED
      BY <1>1, <1>4, <2>2, <2>3 DEF Knows, Means
  <1>5. CASE s.stop = FALSE /\ n \notin Missing /\ (Date(n) > h \/ PastUntil(Date(n)))
    <2>1. ASSUME NEW k \in Before(Last + 1) \ Before(n)
          PROVE  ~ Means(h, k)
      <3>1. k \in Nat /\ n <= k
        BY <1>1 DEF Before
      <3>2. Date(n) \in Nat /\ Date(k) \in Nat /\ Date(n) <= Date(k)
        BY <1>1, <3>1, DatesGrow
      <3>3. QED
        BY <1>1, <1>5, <3>2 DEF Means, PastUntil
    <2>2. Meant(h) = DaysBefore(n)
      BY <1>1, <1>4, <1>5, <2>1, MeantCut
    <2>3. Step(s, n, h) = [s EXCEPT !.stop = TRUE]
      BY <1>5 DEF Step
    <2>4. QED
      BY <1>5, <2>2, <2>3 DEF Knows
  <1>6. CASE s.stop = FALSE /\ n \notin Missing /\ ~ (Date(n) > h \/ PastUntil(Date(n)))
    <2> DEFINE days == DaysBefore(n + 1)
    <2>1. Step(s, n, h) = Emitted(days)
      BY <1>1, <1>6, BeforeNext DEF Step, Knows
    <2>2. /\ Cardinality(days) = Cardinality(Before(n + 1))
          /\ Cardinality(Before(n + 1)) = Cardinality(Before(n)) + 1
          /\ Cardinality(Before(n)) \in Nat
          /\ Before(n + 1) = Before(n) \cup {n}
      BY <1>1, <1>6, BeforeFinite, BeforeNext
    <2>3. Date(n) <= h /\ ~ PastUntil(Date(n))
      BY <1>1, <1>6, DatesGrow
    <2>4. CASE Count = 0 \/ Cardinality(Before(n + 1)) < Count
      <3>1. ~ (Count > 0 /\ Cardinality(days) >= Count)
        BY <1>1, <2>2, <2>4
      <3>2. Emitted(days) = [out |-> days, stop |-> FALSE]
        BY <3>1, Zenon DEF Emitted
      <3>3. Step(s, n, h).stop = FALSE /\ Step(s, n, h).out = days
        BY <2>1, <3>2
      <3>4. \A j \in Before(n + 1) : Date(j) <= h /\ ~ PastUntil(Date(j))
        BY <1>6, <2>2, <2>3 DEF Knows
      <3>5. QED
        BY <2>4, <3>3, <3>4 DEF Knows
    <2>5. CASE Count # 0 /\ Cardinality(Before(n + 1)) >= Count
      <3>0. Count > 0 /\ Cardinality(days) >= Count
        BY <1>1, <2>2, <2>5
      <3>1. Emitted(days) = [out |-> days, stop |-> TRUE]
        BY <3>0, Zenon DEF Emitted
      <3>2. Cardinality(Before(n + 1)) = Count
        BY <1>1, <1>6, <2>2, <2>5 DEF Knows
      <3>3. \A j \in Before(n + 1) : Means(h, j)
        <4>1. Means(h, n)
          BY <1>1, <2>3, <3>2 DEF Means
        <4>2. \A j \in Before(n) : Means(h, j)
          BY <1>4, <1>6
        <4>3. QED
          BY <2>2, <4>1, <4>2
      <3>4. ASSUME NEW k \in Before(Last + 1) \ Before(n + 1)
            PROVE  ~ Means(h, k)
        <4>1. k \in Nat /\ k + 1 \in Nat /\ n + 1 <= k /\ k \notin Missing
          BY <1>1 DEF Before
        <4>2. Cardinality(Before(n + 1)) <= Cardinality(Before(k))
          BY <1>1, <4>1, BeforeGrows
        <4>3. Cardinality(Before(k + 1)) = Cardinality(Before(k)) + 1 /\ Cardinality(Before(k)) \in Nat
          BY <4>1, BeforeNext, BeforeFinite
        <4>4. QED
          BY <1>1, <2>5, <3>2, <4>2, <4>3 DEF Means
      <3>5. Meant(h) = days
        BY <1>1, <3>3, <3>4, MeantCut
      <3>6. Step(s, n, h).stop = TRUE /\ Step(s, n, h).out = days
        BY <2>1, <3>1
      <3>7. QED
        BY <3>5, <3>6 DEF Knows
    <2>6. QED
      BY <1>1, <2>2, <2>4, <2>5
  <1>7. QED
    BY <1>2, <1>3, <1>5, <1>6 DEF Knows

(* The loop collects the days that the rule means, for every rule.          *)
THEOREM OccurrencesAreMeant ==
  ASSUME NEW h \in Int
  PROVE  Occurrences(h) = Meant(h)
  <1>1. Last \in Nat
    BY RuleAssumption DEF Last
  <1> DEFINE f == CHOOSE g : IsLoop(h, Last, g)
             Bad == {i \in 0..Last : ~ Knows(h, i + 1, f[i])}
  <1>2. IsLoop(h, Last, f)
    BY <1>1, LoopExists
  <1> HIDE DEF f
  <1>3. Knows(h, 0, Begin)
    <2>1. Before(0) = {}
      BY DEF Before
    <2>2. DaysBefore(0) = {} /\ Cardinality(Before(0)) = 0
      BY <2>1, FS_EmptySet DEF DaysBefore
    <2>3. QED
      BY <2>1, <2>2, RuleAssumption DEF Knows, Begin
  <1>4. ASSUME NEW i \in 0..Last, i = 0 \/ Knows(h, i, f[i - 1])
        PROVE  Knows(h, i + 1, f[i])
    <2> DEFINE s == IF i = 0 THEN Begin ELSE f[i - 1]
    <2>1. f[i] = Step(s, i, h)
      BY <1>2 DEF IsLoop
    <2>2. Knows(h, i, s)
      BY <1>3, <1>4
    <2> HIDE DEF s
    <2>3. QED
      BY <2>1, <2>2, KnowsNext
  <1>5. Bad = {}
    <2>1. SUFFICES ASSUME Bad # {} PROVE FALSE
      OBVIOUS
    <2>2. Bad \subseteq Nat
      BY <1>1
    <2>3. PICK m \in Bad : \A n \in Bad : m <= n
      BY <2>1, <2>2, LeastMember
    <2>4. m \in 0..Last /\ ~ Knows(h, m + 1, f[m])
      OBVIOUS
    <2>5. m # 0
      BY <1>4, <2>4
    <2>6. m - 1 \in 0..Last /\ ~ (m <= m - 1) /\ (m - 1) + 1 = m
      BY <1>1, <2>4, <2>5
    <2>7. m - 1 \notin Bad
      BY <2>3, <2>6
    <2>8. Knows(h, m, f[m - 1])
      BY <2>6, <2>7
    <2>9. QED
      BY <1>4, <2>4, <2>8
  <1>6. Knows(h, Last + 1, f[Last])
    BY <1>1, <1>5
  <1>7. Occurrences(h) = f[Last].out
    BY OccurrencesIsLoop DEF f
  <1>8. CASE f[Last].stop = TRUE
    BY <1>6, <1>7, <1>8 DEF Knows
  <1>9. CASE f[Last].stop = FALSE
    <2>1. f[Last].out = DaysBefore(Last + 1)
      BY <1>6, <1>9 DEF Knows
    <2>2. ASSUME NEW j \in Before(Last + 1)
          PROVE  Means(h, j)
      <3>1. j \in Nat /\ j + 1 \in Nat /\ j + 1 <= Last + 1 /\ Last + 1 \in Nat
        BY <1>1 DEF Before
      <3>2. Cardinality(Before(j + 1)) <= Cardinality(Before(Last + 1))
        BY <3>1, BeforeGrows
      <3>3. Cardinality(Before(j + 1)) \in Nat /\ Cardinality(Before(Last + 1)) \in Nat
        BY <3>1, BeforeFinite
      <3>4. QED
        BY <1>6, <1>9, <3>2, <3>3, RuleAssumption DEF Knows, Means
    <2>3. Last + 1 \in 0..(Last + 1)
      BY <1>1
    <2>4. Meant(h) = DaysBefore(Last + 1)
      BY <2>2, <2>3, MeantCut
    <2>5. QED
      BY <1>7, <2>1, <2>4
  <1>10. QED
    BY <1>6, <1>8, <1>9 DEF Knows

-----------------------------------------------------------------------------
(* The inductive invariant. *)

(* Nothing of a series exists before its template. *)
TemplateFirst ==
  /\ \A d \in Days : row[d] # "none" => Exists
  /\ \A e \in Extenders : job[e] = "insert" => Exists
  /\ \A h \in Hosts : call[h] = "cancel" \/ listed[h] # {} => Exists
  /\ ended # Never => Exists

(* An extension inserts days that the rule means within the horizon.       *)
ExtendsByRule ==
  \A e \in Extenders :
    /\ todo[e] # {} => job[e] = "insert"
    /\ todo[e] \subseteq Meant(today + Horizon)

(* A cancellation works on days that have a row. *)
ListedAreRows == \A h \in Hosts : \A d \in listed[h] : row[d] # "none"

(* What every step of a series keeps. *)
SeriesInv ==
  /\ SeriesTypeOK /\ today \in Start..LastDay
  /\ TemplateFirst /\ ExtendsByRule /\ ListedAreRows

(* The horizon only moves on, and stays within the days of the model.      *)
LEMMA MeantGrows ==
  ASSUME NEW g \in Int, NEW h \in Int, g <= h
  PROVE  Meant(g) \subseteq Meant(h)
  <1>1. \A j \in Indices : Date(j) \in Nat
    BY DatesGrow DEF Indices
  <1>2. QED
    BY <1>1 DEF Meant

(* While the clock is within bounds, what is meant is within the days of the model. *)
LEMMA MeantWithin ==
  ASSUME NEW t \in Start..LastDay
  PROVE  t + Horizon \in Int /\ Meant(t + Horizon) \subseteq Days
  <1>1. \A j \in Indices : Date(j) \in Nat \ {0}
    BY DatesGrow DEF Indices
  <1>2. t \in Nat /\ t <= LastDay /\ Horizon \in Nat /\ LastDay \in Nat
    BY RuleAssumption
  <1>3. ASSUME NEW d \in Meant(t + Horizon)
        PROVE  d \in Days
    <2>1. PICK j \in Indices : d = Date(j) /\ Date(j) <= t + Horizon
      BY DEF Meant
    <2>2. QED
      BY <1>1, <1>2, <2>1 DEF Days
  <1>4. QED
    BY <1>2, <1>3

(* The first of some days is one of them. *)
LEMMA FirstIsOne ==
  ASSUME NEW S, S \subseteq Days, S # {}
  PROVE  First(S) \in S
  <1>1. S \subseteq Nat
    BY RuleAssumption DEF Days
  <1>2. \E d \in S : \A x \in S : d <= x
    BY <1>1, LeastMember
  <1>3. QED
    BY <1>2 DEF First

(* The template is a day of the series, and no end of it comes before.     *)
LEMMA StartIsDay == Start \in Days /\ Never \in 1..Never /\ Start < Never
  BY RuleAssumption DEF Days, Never

(* Before the plan is created there is nothing to keep. *)
LEMMA SeriesInvInit == Init => SeriesInv
  <1> SUFFICES ASSUME Init PROVE SeriesInv
    OBVIOUS
  <1>1. SeriesTypeOK /\ today \in Start..LastDay
    BY StartIsDay, RuleAssumption DEF Init, SeriesTypeOK
  <1>2. TemplateFirst /\ ExtendsByRule
    BY StartIsDay DEF Init, TemplateFirst, ExtendsByRule
  <1>3. ListedAreRows
    BY DEF Init, ListedAreRows
  <1>4. QED
    BY <1>1, <1>2, <1>3 DEF SeriesInv

(* A day that has a row keeps one. *)
RowsStay == \A d \in Days : row[d] # "none" => row'[d] # "none"

(* What a cancelling host has listed still has rows. *)
LEMMA ListedStay ==
  ASSUME SeriesInv, RowsStay, \A h \in Hosts : listed'[h] \subseteq listed[h]
  PROVE  ListedAreRows'
  BY DEF SeriesInv, SeriesTypeOK, ListedAreRows, RowsStay

(* The days an extension starts with are those the rule means. *)
LEMMA StartsByRule ==
  ASSUME SeriesInv, NEW e \in Extenders, StartsExtending(e), Exists', RowsStay,
         row' \in [Days -> {"none", "published", "completed", "cancelled"}]
  PROVE  SeriesInv'
  <1>1. /\ today' = today /\ today + Horizon \in Int /\ Meant(today + Horizon) \subseteq Days
        /\ Occurrences(today + Horizon) = Meant(today + Horizon)
    BY MeantWithin, OccurrencesAreMeant DEF StartsExtending, SeriesInv
  <1>2. todo' \in [Extenders -> SUBSET Days] /\ bound' \in [Extenders -> 1..Never]
        /\ job' \in [Extenders -> {"idle", "insert"}]
    BY <1>1 DEF StartsExtending, SeriesInv, SeriesTypeOK
  <1>3. SeriesTypeOK'
    BY <1>2 DEF StartsExtending, SeriesInv, SeriesTypeOK, cancel
  <1>4. TemplateFirst'
    BY DEF TemplateFirst
  <1>5. ExtendsByRule'
    BY <1>1 DEF StartsExtending, SeriesInv, SeriesTypeOK, ExtendsByRule
  <1>6. ListedAreRows'
    BY ListedStay DEF StartsExtending, cancel
  <1>7. QED
    BY <1>1, <1>3, <1>4, <1>5, <1>6 DEF SeriesInv

(* Writing to a row of the series leaves the template there. *)
LEMMA RowStep ==
  ASSUME SeriesInv, NEW d \in Days, NEW s \in {"published", "completed", "cancelled"}, Exists,
         row' = row \/ row' = [row EXCEPT ![d] = s]
  PROVE  /\ row' \in [Days -> {"none", "published", "completed", "cancelled"}]
         /\ Exists'
         /\ RowsStay
  BY StartIsDay DEF SeriesInv, SeriesTypeOK, Exists, RowsStay

(* Every operation on a series keeps the invariant. *)
LEMMA SeriesInvStep == SeriesInv /\ [Next]_vars => SeriesInv'
  <1> SUFFICES ASSUME SeriesInv, [Next]_vars PROVE SeriesInv'
    OBVIOUS
  <1>1. CASE CreatePlan
    <2>1. Exists' /\ RowsStay /\ row' \in [Days -> {"none", "published", "completed", "cancelled"}]
      BY <1>1, StartIsDay DEF CreatePlan, Exists, RowsStay, SeriesInv, SeriesTypeOK
    <2>2. QED
      BY <1>1, <2>1, CreatorExtends, StartsByRule DEF CreatePlan
  <1>2. ASSUME NEW e \in Extenders, ExtendSeries(e)
        PROVE  SeriesInv'
    <2>1. Exists' /\ RowsStay /\ row' \in [Days -> {"none", "published", "completed", "cancelled"}]
      BY <1>2 DEF ExtendSeries, Exists, RowsStay, SeriesInv, SeriesTypeOK
    <2>2. QED
      BY <1>2, <2>1, StartsByRule DEF ExtendSeries
  <1>3. ASSUME NEW e \in Extenders, InsertOccurrence(e)
        PROVE  SeriesInv'
    <2>1. First(todo[e]) \in Days
      BY <1>3, FirstIsOne DEF InsertOccurrence, SeriesInv, SeriesTypeOK
    <2>2. Exists
      BY <1>3 DEF InsertOccurrence, SeriesInv, ExtendsByRule, TemplateFirst
    <2>3. row' = row \/ row' = [row EXCEPT ![First(todo[e])] = "published"]
      BY <1>3 DEF InsertOccurrence
    <2>4. Exists' /\ RowsStay /\ row' \in [Days -> {"none", "published", "completed", "cancelled"}]
      BY <2>1, <2>2, <2>3, RowStep
    <2>5. SeriesTypeOK'
      BY <1>3, <2>4 DEF InsertOccurrence, SeriesInv, SeriesTypeOK, cancel
    <2>6. ExtendsByRule'
      BY <1>3 DEF InsertOccurrence, SeriesInv, SeriesTypeOK, ExtendsByRule
    <2>7. ListedAreRows'
      BY <1>3, <2>4, ListedStay DEF InsertOccurrence, cancel
    <2>8. QED
      BY <1>3, <2>4, <2>5, <2>6, <2>7 DEF InsertOccurrence, SeriesInv, TemplateFirst
  <1>4. ASSUME NEW e \in Extenders, ExtensionDone(e) \/ ExtenderDies(e)
        PROVE  SeriesInv'
    <2>1. EndsExtending(e) /\ deaths' \in 0..MaxDeaths
      BY <1>4, RuleAssumption DEF ExtensionDone, ExtenderDies, Death, SeriesInv, SeriesTypeOK
    <2>2. SeriesTypeOK'
      BY <2>1, StartIsDay DEF EndsExtending, SeriesInv, SeriesTypeOK, series, cancel
    <2>3. TemplateFirst' /\ ExtendsByRule'
      BY <2>1 DEF EndsExtending, SeriesInv, SeriesTypeOK, TemplateFirst, ExtendsByRule, Exists,
         series, cancel
    <2>4. ListedAreRows'
      BY <2>1, ListedStay DEF EndsExtending, RowsStay, series, cancel
    <2>5. QED
      BY <2>1, <2>2, <2>3, <2>4 DEF EndsExtending, SeriesInv
  <1>5. ASSUME NEW d \in Days, CancelOne(d) \/ Completes(d)
        PROVE  SeriesInv'
    <2>1. Exists /\ \E s \in {"completed", "cancelled"} : row' = [row EXCEPT ![d] = s]
      BY <1>5 DEF CancelOne, Completes, Cancels, SeriesInv, TemplateFirst
    <2>2. Exists' /\ RowsStay /\ row' \in [Days -> {"none", "published", "completed", "cancelled"}]
      BY <2>1, RowStep
    <2>3. UNCHANGED <<ended, today, extend, cancel, deaths>>
      BY <1>5 DEF CancelOne, Completes
    <2>4. ListedAreRows'
      BY <2>2, <2>3, ListedStay DEF cancel
    <2>5. QED
      BY <2>2, <2>3, <2>4 DEF SeriesInv, SeriesTypeOK, TemplateFirst, ExtendsByRule, extend, cancel
  <1>6. ASSUME NEW h \in Hosts, NEW d \in Days, ListFuture(h, d)
        PROVE  SeriesInv'
    <2>1. d \in 1..Never /\ {x \in Days : x >= d /\ row[x] = "published"} \subseteq Days
      BY RuleAssumption DEF Days, Never
    <2>2. SeriesTypeOK'
      BY <1>6, <2>1 DEF ListFuture, SeriesInv, SeriesTypeOK, series, extend
    <2>3. TemplateFirst' /\ ExtendsByRule'
      BY <1>6 DEF ListFuture, SeriesInv, SeriesTypeOK, TemplateFirst, ExtendsByRule, Exists,
         series, extend
    <2>4. ListedAreRows'
      BY <1>6 DEF ListFuture, SeriesInv, SeriesTypeOK, ListedAreRows, series
    <2>5. QED
      BY <1>6, <2>2, <2>3, <2>4 DEF ListFuture, SeriesInv
  <1>7. ASSUME NEW h \in Hosts, CancelNext(h)
        PROVE  SeriesInv'
    <2>1. First(listed[h]) \in Days
      BY <1>7, FirstIsOne DEF CancelNext, SeriesInv, SeriesTypeOK
    <2>2. Exists
      BY <1>7 DEF CancelNext, SeriesInv, TemplateFirst
    <2>3. row' = [row EXCEPT ![First(listed[h])] = "cancelled"]
      BY <1>7 DEF CancelNext, Cancels
    <2>4. Exists' /\ RowsStay /\ row' \in [Days -> {"none", "published", "completed", "cancelled"}]
      BY <2>1, <2>2, <2>3, RowStep
    <2>5. /\ listed' \in [Hosts -> SUBSET Days]
          /\ UNCHANGED <<ended, today, extend, call, from, deaths>>
      BY <1>7 DEF CancelNext, SeriesInv, SeriesTypeOK
    <2>6. \A g \in Hosts : listed'[g] \subseteq listed[g]
      BY <1>7 DEF CancelNext, SeriesInv, SeriesTypeOK
    <2>7. ListedAreRows'
      BY <2>4, <2>6, ListedStay
    <2>8. QED
      BY <2>4, <2>5, <2>6, <2>7 DEF SeriesInv, SeriesTypeOK, TemplateFirst, ExtendsByRule, extend
  <1>8. ASSUME NEW h \in Hosts, EndSeries(h) \/ HostDies(h)
        PROVE  SeriesInv'
    <2>1. ended' \in 1..Never /\ deaths' \in 0..MaxDeaths /\ from' \in [Hosts -> 1..Never]
      BY <1>8, StartIsDay, RuleAssumption
      DEF EndSeries, HostDies, Death, SeriesInv, SeriesTypeOK
    <2>2. call[h] = "cancel" /\ \E s \in {"idle", "done"} : Returns(h, s)
      BY <1>8 DEF EndSeries, HostDies
    <2>3. SeriesTypeOK'
      BY <2>1, <2>2 DEF Returns, SeriesInv, SeriesTypeOK, extend
    <2>4. TemplateFirst' /\ ExtendsByRule'
      BY <2>2 DEF Returns, SeriesInv, SeriesTypeOK, TemplateFirst, ExtendsByRule, Exists, extend
    <2>5. ListedAreRows'
      BY <2>2, ListedStay DEF Returns, RowsStay, SeriesInv, SeriesTypeOK
    <2>6. QED
      BY <2>2, <2>3, <2>4, <2>5 DEF Returns, SeriesInv
  <1>9. CASE Tick
    <2>1. today' \in Start..LastDay /\ today + Horizon <= today' + Horizon
      BY <1>9, RuleAssumption DEF Tick, SeriesInv
    <2>2. Meant(today + Horizon) \subseteq Meant(today' + Horizon)
      BY <2>1, MeantWithin, MeantGrows DEF SeriesInv
    <2>3. SeriesTypeOK' /\ TemplateFirst' /\ ExtendsByRule'
      BY <1>9, <2>1, <2>2, RuleAssumption DEF Tick, SeriesInv, SeriesTypeOK, TemplateFirst,
         ExtendsByRule, Exists, series, extend, cancel
    <2>4. ListedAreRows'
      BY <1>9, ListedStay DEF Tick, RowsStay, series, cancel
    <2>5. QED
      BY <2>1, <2>3, <2>4 DEF SeriesInv
  <1>10. CASE UNCHANGED vars
    BY <1>10 DEF vars, series, extend, cancel, SeriesInv, SeriesTypeOK, TemplateFirst,
       ExtendsByRule, ListedAreRows, Exists
  <1>11. QED
    BY <1>1, <1>2, <1>3, <1>4, <1>5, <1>6, <1>7, <1>8, <1>9, <1>10 DEF Next, Extends

(* The inductive invariant of a series. *)
THEOREM SeriesInvariant == Spec => []SeriesInv
  <1>1. QED
    BY SeriesInvInit, SeriesInvStep, PTL DEF Spec

-----------------------------------------------------------------------------
(* An UNTIL that is before the first occurrence is not refused: the rule    *)
(* then means no day, and the template exists all the same.                 *)
TemplateIsMeant == Until = 0 \/ Start <= Until

(* The template is then itself an occurrence. *)
LEMMA TemplateMeant ==
  ASSUME TemplateIsMeant, NEW t \in Start..LastDay
  PROVE  Start \in Meant(t + Horizon)
  <1>1. /\ Last \in Nat /\ Start \in Nat /\ Interval \in Nat /\ Horizon \in Nat /\ Count \in Nat
        /\ 0 \notin Missing
    BY RuleAssumption DEF Last
  <1>2. Date(0) = Start
    BY <1>1 DEF Date
  <1>3. Before(0) = {} /\ 0 \in Before(Last + 1)
    BY <1>1 DEF Before
  <1>4. Cardinality(Before(0 + 1)) = 1
    <2>1. 0 \in Nat /\ Cardinality(Before(0)) = 0
      BY <1>3, FS_EmptySet
    <2>2. \A n \in Nat : n \notin Missing =>
            Cardinality(Before(n + 1)) = Cardinality(Before(n)) + 1
      BY BeforeNext
    <2>3. QED
      BY <1>1, <2>1, <2>2
  <1>5. Start <= t + Horizon /\ ~ PastUntil(Start)
    BY <1>1, RuleAssumption DEF TemplateIsMeant, PastUntil
  <1>6. Count = 0 \/ Cardinality(Before(0 + 1)) <= Count
    BY <1>1, <1>4
  <1>7. QED
    BY <1>2, <1>3, <1>5, <1>6, MeantBefore

(* Only a creation and an insertion give a day its row. *)
LEMMA RowsAppear ==
  ASSUME SeriesInv, [Next]_vars, NEW d \in Days, row[d] = "none", row'[d] # "none"
  PROVE  \/ d = Start /\ CreatePlan
         \/ \E e \in Extenders : d \in todo[e] /\ d < bound[e] /\ job[e] = "insert"
  <1>1. CASE CreatePlan
    BY <1>1 DEF CreatePlan, SeriesInv, SeriesTypeOK
  <1>2. ASSUME NEW e \in Extenders, InsertOccurrence(e)
        PROVE  d \in todo[e] /\ d < bound[e] /\ job[e] = "insert"
    <2>1. First(todo[e]) \in todo[e] /\ job[e] = "insert"
      BY <1>2, FirstIsOne DEF InsertOccurrence, SeriesInv, SeriesTypeOK, ExtendsByRule
    <2>2. d = First(todo[e]) /\ ~ Skips(e, d)
      BY <1>2 DEF InsertOccurrence, SeriesInv, SeriesTypeOK
    <2>3. bound[e] \in Int /\ d \in Int
      BY RuleAssumption DEF SeriesInv, SeriesTypeOK, Never, Days
    <2>4. QED
      BY <2>1, <2>2, <2>3 DEF Skips
  <1>3. ASSUME NEW e \in Extenders, ExtendSeries(e) \/ ExtensionDone(e) \/ ExtenderDies(e)
        PROVE  FALSE
    BY <1>3 DEF ExtendSeries, ExtensionDone, ExtenderDies, EndsExtending, series
  <1>4. ASSUME NEW x \in Days, CancelOne(x) \/ Completes(x)
        PROVE  FALSE
    BY <1>4 DEF CancelOne, Completes, Cancels, SeriesInv, SeriesTypeOK
  <1>5. ASSUME NEW h \in Hosts, CancelNext(h)
        PROVE  FALSE
    <2>1. First(listed[h]) \in listed[h] /\ row[First(listed[h])] # "none"
      BY <1>5, FirstIsOne DEF CancelNext, SeriesInv, SeriesTypeOK, ListedAreRows
    <2>2. QED
      BY <1>5, <2>1 DEF CancelNext, Cancels, SeriesInv, SeriesTypeOK
  <1>6. ASSUME NEW h \in Hosts,
               (\E x \in Days : ListFuture(h, x)) \/ EndSeries(h) \/ HostDies(h)
        PROVE  FALSE
    BY <1>6 DEF ListFuture, EndSeries, HostDies, Returns, series
  <1>7. CASE Tick \/ UNCHANGED vars
    BY <1>7 DEF Tick, vars, series
  <1>8. QED
    BY <1>1, <1>2, <1>3, <1>4, <1>5, <1>6, <1>7 DEF Next, Extends

(* The clock only moves on. *)
LEMMA ClockMovesOn ==
  ASSUME SeriesInv, [Next]_vars
  PROVE  today <= today'
  <1>1. today \in Nat
    BY DEF SeriesInv, SeriesTypeOK
  <1>2. Next => today' = today \/ Tick
    BY DEF Next, Extends, CreatePlan, ExtendSeries, StartsExtending, InsertOccurrence,
       ExtensionDone, ExtenderDies, EndsExtending, CancelOne, Completes, ListFuture, CancelNext,
       EndSeries, HostDies, Returns
  <1>3. QED
    BY <1>1, <1>2 DEF Tick, vars

(* The occurrences of a series are those its rule means, for any rule whose *)
(* UNTIL is not before its start and any number of extensions at once.      *)
THEOREM RowsAreMeant ==
  ASSUME TemplateIsMeant
  PROVE  Spec => []RowsFollowRule
  <1>1. Init => RowsFollowRule
    BY DEF Init, RowsFollowRule
  <1>2. SeriesInv /\ SeriesInv' /\ RowsFollowRule /\ [Next]_vars => RowsFollowRule'
    <2> SUFFICES ASSUME SeriesInv, SeriesInv', RowsFollowRule, [Next]_vars,
                        NEW d \in Days, row'[d] # "none"
                 PROVE  d \in Meant(today' + Horizon)
      BY DEF RowsFollowRule
    <2>1. /\ today \in Start..LastDay /\ today' \in Start..LastDay /\ today <= today'
          /\ Meant(today + Horizon) \subseteq Meant(today' + Horizon)
      <3>1. today \in Start..LastDay /\ today' \in Start..LastDay
        BY DEF SeriesInv
      <3>2. today <= today'
        BY ClockMovesOn
      <3>3. QED
        BY <3>1, <3>2, MeantWithin, MeantGrows, RuleAssumption
    <2>2. CASE row[d] # "none"
      BY <2>1, <2>2 DEF RowsFollowRule
    <2>3. CASE row[d] = "none"
      <3>1. CASE d = Start
        BY <2>1, <3>1, TemplateMeant
      <3>2. ASSUME NEW e \in Extenders, d \in todo[e]
            PROVE  d \in Meant(today' + Horizon)
        BY <2>1, <3>2 DEF SeriesInv, ExtendsByRule
      <3>3. QED
        BY <2>3, <3>1, <3>2, RowsAppear
    <2>4. QED
      BY <2>2, <2>3
  <1>3. QED
    BY <1>1, <1>2, SeriesInvariant, PTL DEF Spec

(* Nothing is brought back: a cancelled or completed occurrence is never    *)
(* published again, and what an ended series does not have stays away once  *)
(* no older extension runs, whatever extenders and hosts do at once.        *)
THEOREM CancelledStaysAway == Spec => NothingComesBack
  <1> DEFINE Stays(d) ==
               /\ row[d] \in {"cancelled", "completed"} => row'[d] # "published"
               /\ (row[d] = "none" /\ d >= ended
                     /\ \A e \in Extenders : bound[e] <= ended \/ job[e] = "idle")
                    => row'[d] = "none"
  <1>1. ASSUME SeriesInv, [Next]_vars, NEW d \in Days, row[d] \in {"cancelled", "completed"}
        PROVE  row'[d] # "published"
    <2>1. CASE CreatePlan
      BY <1>1, <2>1 DEF CreatePlan, Exists, SeriesInv, SeriesTypeOK
    <2>2. ASSUME NEW e \in Extenders, Extends(e) \/ ExtenderDies(e)
          PROVE  row'[d] # "published"
      BY <1>1, <2>2 DEF Extends, ExtendSeries, InsertOccurrence, ExtensionDone, ExtenderDies,
         EndsExtending, series, SeriesInv, SeriesTypeOK
    <2>3. ASSUME NEW x \in Days, CancelOne(x) \/ Completes(x)
          PROVE  row'[d] # "published"
      BY <1>1, <2>3 DEF CancelOne, Completes, Cancels, SeriesInv, SeriesTypeOK
    <2>4. ASSUME NEW h \in Hosts, (\E x \in Days : ListFuture(h, x)) \/ CancelNext(h)
                                  \/ EndSeries(h) \/ HostDies(h)
          PROVE  row'[d] # "published"
      BY <1>1, <2>4 DEF ListFuture, CancelNext, Cancels, EndSeries, HostDies, Returns, series,
         SeriesInv, SeriesTypeOK
    <2>5. CASE Tick \/ UNCHANGED vars
      BY <1>1, <2>5 DEF Tick, vars, series
    <2>6. QED
      BY <1>1, <2>1, <2>2, <2>3, <2>4, <2>5 DEF Next
  <1>2. ASSUME SeriesInv, [Next]_vars, NEW d \in Days, row[d] = "none", d >= ended,
               \A e \in Extenders : bound[e] <= ended \/ job[e] = "idle"
        PROVE  row'[d] = "none"
    <2>0. LastDay \in Nat /\ Horizon \in Nat
      BY RuleAssumption
    <2>d. d \in Int /\ Never \in Int /\ d < Never
      BY <2>0 DEF Days, Never
    <2>t. ended \in 1..Never /\ bound \in [Extenders -> 1..Never]
      BY <1>2 DEF SeriesInv, SeriesTypeOK
    <2>b. \A e \in Extenders : bound[e] \in 1..Never
      BY <2>t
    <2>1. /\ ended \in Int /\ d \in Int /\ Never \in Int /\ d < Never
          /\ \A e \in Extenders : bound[e] \in Int
      BY <2>d, <2>t, <2>b
    <2>2. Exists
      BY <1>2, <2>1 DEF SeriesInv, TemplateFirst
    <2>3. ~ CreatePlan
      BY <2>2 DEF CreatePlan
    <2>4. \A e \in Extenders : ~ (d < bound[e] /\ job[e] = "insert")
      BY <1>2, <2>1
    <2>5. QED
      BY <1>2, <2>3, <2>4, RowsAppear
  <1>3. SeriesInv /\ [Next]_vars => \A d \in Days : Stays(d)
    BY <1>1, <1>2
  <1>4. SeriesInv /\ [Next]_vars => [\A d \in Days : Stays(d)]_vars
    BY <1>3
  <1>5. QED
    BY <1>4, SeriesInvariant, PTL DEF Spec, NothingComesBack

(* Rows, ends and lists keep their types, and the clock its bounds.         *)
THEOREM SeriesTypes == Spec => []SeriesTypeOK
  <1>1. SeriesInv => SeriesTypeOK
    BY DEF SeriesInv
  <1>2. QED
    BY <1>1, SeriesInvariant, PTL

=============================================================================
