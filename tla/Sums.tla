--------------------------------- MODULE Sums ---------------------------------
(***************************************************************************)
(* Sums over finite sets, for the totals of the ledger and of the refund   *)
(* rows.  The models add up with MapThenSumSet of the community modules,   *)
(* which folds over the subsets of the set.  Its equation is proved here,  *)
(* and what the proofs need of a sum: its type, that any member may be     *)
(* taken out first, that it grows with its set, and that it depends on the *)
(* summands only.                                                          *)
(*                                                                         *)
(* Induction is in the form of sets: a collection that has a set whenever  *)
(* it has all its proper subsets has every finite set.                     *)
(***************************************************************************)
EXTENDS FiniteSetsExt, FiniteSetTheorems, WellFoundedInduction, TLAPS

LessThan == {ss \in Nat \X Nat : ss[1] < ss[2]}

(* A nonempty set of numbers has a least member. *)
LEMMA LeastMember ==
  ASSUME NEW T, T \subseteq Nat, T # {}
  PROVE  \E m \in T : \A n \in T : m <= n
  <1>1. IsWellFoundedOn(LessThan, Nat)
    BY NatLessThanWellFounded DEF OpToRel, LessThan
  <1>2. \E m \in T : \A n \in T : <<n, m>> \notin LessThan
    BY <1>1, WFMin
  <1>3. \A m, n \in Nat : <<n, m>> \notin LessThan => m <= n
    BY DEF LessThan
  <1>4. QED
    BY <1>2, <1>3

(* Induction over the subsets of a finite set. *)
LEMMA SubsetInduction ==
  ASSUME NEW S, IsFiniteSet(S), NEW Good,
         \A s \in SUBSET S : (\A t \in SUBSET s : t # s => t \in Good) => s \in Good
  PROVE  S \in Good
  <1> DEFINE Sizes == {Cardinality(s) : s \in (SUBSET S) \ Good}
  <1>1. \A s \in SUBSET S : IsFiniteSet(s) /\ Cardinality(s) \in Nat
    BY FS_Subset, FS_CardinalityType
  <1>2. Sizes \subseteq Nat
    BY <1>1
  <1>3. SUFFICES ASSUME S \notin Good PROVE FALSE
    OBVIOUS
  <1>4. S \in (SUBSET S) \ Good
    BY <1>3
  <1> HIDE DEF Sizes
  <1>5. Cardinality(S) \in Sizes
    BY <1>4 DEF Sizes
  <1>6. PICK m \in Sizes : \A n \in Sizes : m <= n
    BY <1>2, <1>5, LeastMember
  <1>7. PICK s \in (SUBSET S) \ Good : m = Cardinality(s)
    BY <1>6 DEF Sizes
  <1>8. ASSUME NEW t \in SUBSET s, t # s
        PROVE  t \in Good
    <2>1. Cardinality(t) < Cardinality(s)
      BY <1>1, <1>8, FS_Subset
    <2>2. t \in SUBSET S /\ Cardinality(t) \in Nat /\ Cardinality(s) \in Nat
      BY <1>1
    <2>3. Cardinality(t) \notin Sizes
      BY <1>6, <1>7, <2>1, <2>2
    <2>4. QED
      BY <2>2, <2>3 DEF Sizes
  <1>9. QED
    BY <1>7, <1>8

-----------------------------------------------------------------------------
(* The sum and its equation. *)

Sum(f, S) == MapThenSumSet(LAMBDA x : f[x], S)

Pick(s) == CHOOSE x \in s : TRUE

(* One step of the fold, given what it computes of smaller sets.           *)
SumStep(f, it, s) == IF s = {} THEN 0 ELSE f[Pick(s)] + it[s \ {Pick(s)}]

(* What the fold computes of the subsets of S. *)
IsTable(f, S, it) == it = [s \in SUBSET S |-> SumStep(f, it, s)]

(* A nonempty set has the member that is picked. *)
LEMMA PickIsMember == \A s : s # {} => Pick(s) \in s
  BY DEF Pick

(* The definition of the community modules, in these terms. *)
LEMMA SumIsTable ==
  ASSUME NEW f, NEW S
  PROVE  Sum(f, S) = (CHOOSE it : IsTable(f, S, it))[S]
  BY DEF Sum, MapThenSumSet, MapThenFoldSet, IsTable, SumStep, Pick

(* A table of the subsets up to some size is extended by one more step. *)
LEMMA TableExists ==
  ASSUME NEW f, NEW S, IsFiniteSet(S)
  PROVE  \E it : IsTable(f, S, it)
  <1> DEFINE UpTo(n) == {s \in SUBSET S : Cardinality(s) <= n}
             Partial(n, it) == it = [s \in UpTo(n) |-> SumStep(f, it, s)]
             Bad == {n \in Nat : ~ \E it : Partial(n, it)}
  <1>1. \A s \in SUBSET S : IsFiniteSet(s) /\ Cardinality(s) \in Nat
    BY FS_Subset, FS_CardinalityType
  <1>2. 0 \notin Bad
    <2>1. \A s \in UpTo(0) : s = {}
      BY <1>1, FS_EmptySet
    <2>2. Partial(0, [s \in UpTo(0) |-> 0])
      BY <2>1 DEF SumStep
    <2>3. QED
      BY <2>2
  <1>3. ASSUME NEW n \in Nat, n \notin Bad
        PROVE  n + 1 \notin Bad
    <2>1. PICK it : Partial(n, it)
      BY <1>3
    <2> DEFINE next == [s \in UpTo(n + 1) |-> SumStep(f, it, s)]
    <2>2. ASSUME NEW s \in UpTo(n + 1)
          PROVE  SumStep(f, it, s) = SumStep(f, next, s)
      <3>1. CASE s = {}
        BY <3>1 DEF SumStep
      <3>2. CASE s # {}
        <4> DEFINE t == s \ {Pick(s)}
        <4>1. Cardinality(t) = Cardinality(s) - 1 /\ t \in SUBSET S
          BY <1>1, <3>2, PickIsMember, FS_RemoveElement
        <4>2. t \in UpTo(n) /\ t \in UpTo(n + 1)
          BY <1>1, <4>1
        <4>3. it[t] = next[t]
          BY <2>1, <4>2
        <4>4. QED
          BY <3>2, <4>3 DEF SumStep
      <3>3. QED
        BY <3>1, <3>2
    <2>3. Partial(n + 1, next)
      BY <2>2
    <2>4. QED
      BY <2>3
  <1>4. Bad = {}
    <2>1. SUFFICES ASSUME Bad # {} PROVE FALSE
      OBVIOUS
    <2>2. PICK m \in Bad : \A n \in Bad : m <= n
      BY <2>1, LeastMember
    <2>3. m \in Nat /\ m # 0
      BY <1>2
    <2> HIDE DEF Bad
    <2>4. m - 1 \in Nat /\ m - 1 \notin Bad
      BY <2>2, <2>3
    <2>5. (m - 1) + 1 \notin Bad
      BY <1>3, <2>4
    <2>6. (m - 1) + 1 = m
      BY <2>3
    <2>7. QED
      BY <2>5, <2>6
  <1>5. UpTo(Cardinality(S)) = SUBSET S
    BY <1>1, FS_Subset
  <1>6. PICK it : Partial(Cardinality(S), it)
    <2>1. Cardinality(S) \in Nat /\ Cardinality(S) \notin Bad
      BY <1>1, <1>4
    <2>2. QED
      BY <2>1
  <1>7. IsTable(f, S, it)
    BY <1>5, <1>6 DEF IsTable
  <1>8. QED
    BY <1>7

(* Tables of two sets agree on what they share. *)
LEMMA TablesAgree ==
  ASSUME NEW f, NEW S, NEW T, IsFiniteSet(S), S \subseteq T,
         NEW i, IsTable(f, S, i), NEW j, IsTable(f, T, j)
  PROVE  i[S] = j[S]
  <1> DEFINE Good == {s \in SUBSET S : i[s] = j[s]}
  <1>1. ASSUME NEW s \in SUBSET S, \A t \in SUBSET s : t # s => t \in Good
        PROVE  s \in Good
    <2>1. i[s] = SumStep(f, i, s) /\ j[s] = SumStep(f, j, s)
      BY DEF IsTable
    <2>2. CASE s = {}
      BY <2>1, <2>2 DEF SumStep
    <2>3. CASE s # {}
      <3>1. s \ {Pick(s)} \in Good
        BY <1>1, <2>3, PickIsMember
      <3>2. QED
        BY <2>1, <2>3, <3>1 DEF SumStep
    <2>4. QED
      BY <2>2, <2>3
  <1> HIDE DEF Good
  <1>2. S \in Good
    BY <1>1, SubsetInduction
  <1>3. QED
    BY <1>2 DEF Good

(* The equation of the sum. *)
LEMMA SumUnfolds ==
  ASSUME NEW f, NEW S, IsFiniteSet(S)
  PROVE  Sum(f, S) = IF S = {} THEN 0 ELSE f[Pick(S)] + Sum(f, S \ {Pick(S)})
  <1> DEFINE it(R) == CHOOSE i : IsTable(f, R, i)
             rest == S \ {Pick(S)}
  <1>1. IsFiniteSet(rest)
    BY FS_Subset
  <1>2. IsTable(f, S, it(S)) /\ IsTable(f, rest, it(rest))
    BY <1>1, TableExists
  <1>3. it(rest)[rest] = it(S)[rest]
    BY <1>1, <1>2, TablesAgree
  <1>4. Sum(f, S) = it(S)[S] /\ Sum(f, rest) = it(rest)[rest]
    BY SumIsTable
  <1>5. it(S)[S] = SumStep(f, it(S), S)
    BY <1>2 DEF IsTable
  <1>6. QED
    BY <1>3, <1>4, <1>5 DEF SumStep

-----------------------------------------------------------------------------
(* What the proofs use. *)

(* A sum of integers is an integer. *)
LEMMA SumInt ==
  ASSUME NEW f, NEW S, IsFiniteSet(S), \A x \in S : f[x] \in Int
  PROVE  Sum(f, S) \in Int
  <1> DEFINE Good == {s \in SUBSET S : Sum(f, s) \in Int}
  <1>1. ASSUME NEW s \in SUBSET S, \A t \in SUBSET s : t # s => t \in Good
        PROVE  s \in Good
    <2>1. IsFiniteSet(s)
      BY FS_Subset
    <2>2. CASE s = {}
      <3>1. Sum(f, s) = 0
        BY <2>1, <2>2, SumUnfolds
      <3>2. QED
        BY <3>1
    <2>3. CASE s # {}
      <3>1. Pick(s) \in s /\ s \ {Pick(s)} \in Good
        BY <1>1, <2>3, PickIsMember
      <3>2. QED
        BY <2>1, <2>3, <3>1, SumUnfolds
    <2>4. QED
      BY <2>2, <2>3
  <1> HIDE DEF Good
  <1>2. S \in Good
    BY <1>1, SubsetInduction
  <1>3. QED
    BY <1>2 DEF Good

(* Any member may be taken out first. *)
LEMMA SumWithout ==
  ASSUME NEW f, NEW S, IsFiniteSet(S), \A x \in S : f[x] \in Int, NEW y \in S
  PROVE  Sum(f, S) = f[y] + Sum(f, S \ {y})
  <1> DEFINE Good == {s \in SUBSET S : \A x \in s : Sum(f, s) = f[x] + Sum(f, s \ {x})}
  <1>1. ASSUME NEW s \in SUBSET S, \A t \in SUBSET s : t # s => t \in Good, NEW x \in s
        PROVE  Sum(f, s) = f[x] + Sum(f, s \ {x})
    <2> DEFINE p == Pick(s)
    <2>1. IsFiniteSet(s) /\ IsFiniteSet(s \ {x, p}) /\ s # {}
      BY FS_Subset
    <2>2. p \in s /\ Sum(f, s) = f[p] + Sum(f, s \ {p})
      BY <2>1, PickIsMember, SumUnfolds
    <2>3. CASE x = p
      BY <2>2, <2>3
    <2>4. CASE x # p
      <3>1. s \ {p} \in Good /\ s \ {x} \in Good
        BY <1>1, <2>2
      <3>2. (s \ {p}) \ {x} = s \ {x, p} /\ (s \ {x}) \ {p} = s \ {x, p}
        OBVIOUS
      <3>3. Sum(f, s \ {p}) = f[x] + Sum(f, s \ {x, p})
        BY <2>2, <2>4, <3>1, <3>2
      <3>4. Sum(f, s \ {x}) = f[p] + Sum(f, s \ {x, p})
        BY <2>2, <2>4, <3>1, <3>2
      <3>5. f[x] \in Int /\ f[p] \in Int /\ Sum(f, s \ {x, p}) \in Int
        BY <2>1, <2>2, SumInt
      <3>6. QED
        BY <2>2, <3>3, <3>4, <3>5
    <2>5. QED
      BY <2>3, <2>4
  <1>2. ASSUME NEW s \in SUBSET S, \A t \in SUBSET s : t # s => t \in Good
        PROVE  s \in Good
    BY <1>1, <1>2
  <1> HIDE DEF Good
  <1>3. S \in Good
    BY <1>2, SubsetInduction
  <1>4. QED
    BY <1>3 DEF Good

(* A sum of natural numbers grows with its set. *)
LEMMA SumGrows ==
  ASSUME NEW f, NEW T, IsFiniteSet(T), \A x \in T : f[x] \in Nat, NEW S \in SUBSET T
  PROVE  Sum(f, S) <= Sum(f, T)
  <1> DEFINE Good == {t \in SUBSET T : S \subseteq t => Sum(f, S) <= Sum(f, t)}
  <1>1. ASSUME NEW t \in SUBSET T, \A u \in SUBSET t : u # t => u \in Good, S \subseteq t
        PROVE  Sum(f, S) <= Sum(f, t)
    <2>1. IsFiniteSet(t) /\ IsFiniteSet(S)
      BY FS_Subset
    <2>2. Sum(f, S) \in Int
      BY <2>1, SumInt
    <2>3. CASE t = S
      BY <2>2, <2>3
    <2>4. CASE t # S
      <3>1. PICK y \in t : y \notin S
        BY <1>1, <2>4
      <3>2. t \ {y} \in Good /\ S \subseteq t \ {y}
        BY <1>1, <3>1
      <3>3. Sum(f, t) = f[y] + Sum(f, t \ {y})
        BY <2>1, SumWithout
      <3>4. IsFiniteSet(t \ {y}) /\ f[y] \in Nat
        BY FS_Subset
      <3>5. Sum(f, t \ {y}) \in Int
        BY <3>4, SumInt
      <3>6. QED
        BY <2>2, <3>2, <3>3, <3>4, <3>5
    <2>5. QED
      BY <2>3, <2>4
  <1>2. ASSUME NEW t \in SUBSET T, \A u \in SUBSET t : u # t => u \in Good
        PROVE  t \in Good
    BY <1>1, <1>2
  <1> HIDE DEF Good
  <1>3. T \in Good
    BY <1>2, SubsetInduction
  <1>4. QED
    BY <1>3 DEF Good

(* Only the summands matter. *)
LEMMA SumSame ==
  ASSUME NEW f, NEW g, NEW S, IsFiniteSet(S), \A x \in S : f[x] = g[x]
  PROVE  Sum(f, S) = Sum(g, S)
  <1> DEFINE Good == {s \in SUBSET S : Sum(f, s) = Sum(g, s)}
  <1>1. ASSUME NEW s \in SUBSET S, \A t \in SUBSET s : t # s => t \in Good
        PROVE  s \in Good
    <2>1. IsFiniteSet(s)
      BY FS_Subset
    <2>2. CASE s = {}
      BY <2>1, <2>2, SumUnfolds
    <2>3. CASE s # {}
      <3>1. Pick(s) \in s /\ s \ {Pick(s)} \in Good
        BY <1>1, <2>3, PickIsMember
      <3>2. QED
        BY <2>1, <2>3, <3>1, SumUnfolds
    <2>4. QED
      BY <2>2, <2>3
  <1> HIDE DEF Good
  <1>2. S \in Good
    BY <1>1, SubsetInduction
  <1>3. QED
    BY <1>2 DEF Good

=============================================================================
