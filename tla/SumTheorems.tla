----------------------------- MODULE SumTheorems -----------------------------
(***************************************************************************)
(* Facts about sums over finite sets, from the definition of the fold.     *)
(* The induction theorems of the library have an operator as a parameter,  *)
(* which the provers cannot instantiate: induction is stated here for sets *)
(* of numbers and sets of subsets, from the well-foundedness of Nat.       *)
(***************************************************************************)
EXTENDS Sums, FiniteSetTheorems, WellFoundedInduction, TLAPS

----------------------------------------------------------------------------
(* Induction *)

\* A set of numbers that has 0 and with each number the next has them all.
LEMMA EveryNumber ==
  ASSUME NEW T \in SUBSET Nat, 0 \in T, \A n \in T : n + 1 \in T
  PROVE T = Nat
<1> DEFINE R == OpToRel(<, Nat)
<1> DEFINE U == Nat \ T
<1>0. ASSUME NEW m \in Nat, NEW n \in Nat, m < n
      PROVE <<m, n>> \in R
  BY <1>0 DEF OpToRel
<1>1. SUFFICES ASSUME U # {} PROVE FALSE
  OBVIOUS
<1>2. IsWellFoundedOn(R, Nat)
  BY NatLessThanWellFounded
<1> HIDE DEF R
<1>3. PICK n \in U : \A m \in U : <<m, n>> \notin R
  BY <1>1, <1>2, WFMin
<1>4. n # 0 /\ n \in Nat /\ n - 1 \in Nat /\ n - 1 < n
  BY <1>3
<1>5. n - 1 \notin U
  BY <1>0, <1>3, <1>4
<1>6. n - 1 \in T
  BY <1>4, <1>5
<1> QED
  BY <1>3, <1>4, <1>6

\* A set of subsets of a finite set that has each one whose smaller ones it has, has them all.
LEMMA EverySubset ==
  ASSUME NEW S, IsFiniteSet(S), NEW G \in SUBSET (SUBSET S),
         \A s \in SUBSET S :
           (\A t \in SUBSET S : Cardinality(t) < Cardinality(s) => t \in G) => s \in G
  PROVE G = SUBSET S
<1> DEFINE T == {n \in Nat : \A s \in SUBSET S : Cardinality(s) < n => s \in G}
<1>1. \A s \in SUBSET S : Cardinality(s) \in Nat
  BY FS_Subset, FS_CardinalityType
<1>2. 0 \in T
  BY <1>1
<1>3. ASSUME NEW n \in T
      PROVE n + 1 \in T
  <2>1. ASSUME NEW s \in SUBSET S, Cardinality(s) < n + 1
        PROVE s \in G
    <3>1. ASSUME NEW t \in SUBSET S, Cardinality(t) < Cardinality(s)
          PROVE t \in G
      BY <1>1, <2>1, <3>1
    <3> QED
      BY <3>1
  <2> QED
    BY <2>1
<1>4. T = Nat
  <2>1. T \in SUBSET Nat
    OBVIOUS
  <2> HIDE DEF T
  <2> QED
    BY <1>2, <1>3, <2>1, EveryNumber
<1>5. ASSUME NEW s \in SUBSET S
      PROVE s \in G
  <2>1. Cardinality(s) + 1 \in T /\ Cardinality(s) < Cardinality(s) + 1
    BY <1>1, <1>4
  <2> QED
    BY <2>1
<1> QED
  BY <1>5

----------------------------------------------------------------------------
(* The fold that the sum is *)

Pick(s) == CHOOSE x \in s : TRUE
Rest(s) == s \ {Pick(s)}

\* One step of the recursion, and the function it defines on the subsets of S.
Adds(f, S, g) == [s \in SUBSET S |-> IF s = {} THEN 0 ELSE f[Pick(s)] + g[Rest(s)]]
Partial(f, S) == CHOOSE g : g = Adds(f, S, g)

\* The sum is the value of that function on the whole set.
LEMMA SumIsPartial ==
  ASSUME NEW f, NEW S
  PROVE Sum(f, S) = Partial(f, S)[S]
BY DEF Sum, MapThenSumSet, MapThenFoldSet, Partial, Adds, Pick, Rest

\* What is left after one element was taken is smaller.
LEMMA RestSmaller ==
  ASSUME NEW s, IsFiniteSet(s), s # {}
  PROVE /\ Pick(s) \in s /\ IsFiniteSet(Rest(s)) /\ Rest(s) \subseteq s
        /\ Cardinality(s) \in Nat /\ Cardinality(Rest(s)) = Cardinality(s) - 1
<1>1. Pick(s) \in s
  BY DEF Pick
<1> QED
  BY <1>1, FS_RemoveElement, FS_CardinalityType DEF Rest

\* The recursion defines a function: applied n times, it does on sets of up to n elements.
LEMMA PartialExists ==
  ASSUME NEW f, NEW S, IsFiniteSet(S)
  PROVE Partial(f, S) = Adds(f, S, Partial(f, S))
<1> DEFINE Good(n, g) == \A s \in SUBSET S : Cardinality(s) <= n => g[s] = Adds(f, S, g)[s]
           T == {n \in Nat : \E g : Good(n, g)}
<1>1. 0 \in T
  <2> DEFINE g == [s \in SUBSET S |-> 0]
  <2>1. ASSUME NEW s \in SUBSET S, Cardinality(s) <= 0
        PROVE g[s] = Adds(f, S, g)[s]
    <3>1. s = {}
      BY <2>1, FS_Subset, FS_EmptySet, FS_CardinalityType
    <3> QED
      BY <3>1 DEF Adds
  <2>2. Good(0, g)
    BY <2>1
  <2> QED
    BY <2>2
<1>2. ASSUME NEW n \in T
      PROVE n + 1 \in T
  <2>1. PICK g : Good(n, g)
    OBVIOUS
  <2> DEFINE h == Adds(f, S, g)
  <2>2. ASSUME NEW s \in SUBSET S, Cardinality(s) <= n + 1
        PROVE h[s] = Adds(f, S, h)[s]
    <3>1. CASE s = {}
      BY <3>1 DEF Adds
    <3>2. CASE s # {}
      <4>1. IsFiniteSet(s)
        BY FS_Subset
      <4>2. Rest(s) \in SUBSET S /\ Cardinality(Rest(s)) <= n
        BY <2>2, <3>2, <4>1, RestSmaller
      <4>3. g[Rest(s)] = h[Rest(s)]
        BY <2>1, <4>2
      <4>4. h[s] = f[Pick(s)] + g[Rest(s)]
        BY <3>2 DEF Adds
      <4>5. Adds(f, S, h)[s] = f[Pick(s)] + h[Rest(s)]
        BY <3>2 DEF Adds
      <4> QED
        BY <4>3, <4>4, <4>5
    <3> QED
      BY <3>1, <3>2
  <2>3. Good(n + 1, h)
    BY <2>2
  <2> HIDE DEF h
  <2> QED
    BY <2>3
<1>3. T = Nat
  <2>1. T \in SUBSET Nat
    OBVIOUS
  <2> HIDE DEF T
  <2> QED
    BY <1>1, <1>2, <2>1, EveryNumber
<1>4. PICK g : Good(Cardinality(S), g)
  BY <1>3, FS_CardinalityType
<1> DEFINE h == Adds(f, S, g)
<1>5. ASSUME NEW s \in SUBSET S
      PROVE g[s] = h[s]
  BY <1>4, FS_Subset
<1>6. h = Adds(f, S, h)
  <2>1. ASSUME NEW s \in SUBSET S
        PROVE (IF s = {} THEN 0 ELSE f[Pick(s)] + g[Rest(s)]) =
              (IF s = {} THEN 0 ELSE f[Pick(s)] + h[Rest(s)])
    <3>1. Rest(s) \in SUBSET S
      BY DEF Rest
    <3>2. g[Rest(s)] = h[Rest(s)]
      BY <1>5, <3>1
    <3> QED
      BY <3>2
  <2> HIDE DEF h
  <2>2. h = [s \in SUBSET S |-> IF s = {} THEN 0 ELSE f[Pick(s)] + g[Rest(s)]]
    BY DEF h, Adds
  <2>3. Adds(f, S, h) = [s \in SUBSET S |-> IF s = {} THEN 0 ELSE f[Pick(s)] + h[Rest(s)]]
    BY DEF Adds
  <2> QED
    BY <2>1, <2>2, <2>3
<1> HIDE DEF h
<1> QED
  BY <1>6, Zenon DEF Partial

\* On a subset it has the sum over the subset.
LEMMA PartialIsSum ==
  ASSUME NEW f, NEW S, IsFiniteSet(S), NEW s \in SUBSET S
  PROVE Partial(f, S)[s] = Sum(f, s)
<1> DEFINE G == {t \in SUBSET S : \A U \in SUBSET S : t \subseteq U => Partial(f, U)[t] = Sum(f, t)}
<1>1. ASSUME NEW t \in SUBSET S,
             \A u \in SUBSET S : Cardinality(u) < Cardinality(t) => u \in G
      PROVE t \in G
  <2>1. ASSUME NEW U \in SUBSET S, t \subseteq U
        PROVE Partial(f, U)[t] = Sum(f, t)
    <3>1. IsFiniteSet(U) /\ IsFiniteSet(t)
      BY FS_Subset
    <3>2. /\ Partial(f, U)[t] = IF t = {} THEN 0 ELSE f[Pick(t)] + Partial(f, U)[Rest(t)]
          /\ Partial(f, t)[t] = IF t = {} THEN 0 ELSE f[Pick(t)] + Partial(f, t)[Rest(t)]
      <4>1. Partial(f, U) = Adds(f, U, Partial(f, U)) /\ Partial(f, t) = Adds(f, t, Partial(f, t))
        BY <3>1, PartialExists
      <4>2. /\ Adds(f, U, Partial(f, U))[t] =
                 IF t = {} THEN 0 ELSE f[Pick(t)] + Partial(f, U)[Rest(t)]
            /\ Adds(f, t, Partial(f, t))[t] =
                 IF t = {} THEN 0 ELSE f[Pick(t)] + Partial(f, t)[Rest(t)]
        BY <2>1 DEF Adds
      <4> QED
        BY <4>1, <4>2
    <3>3. CASE t = {}
      BY <3>2, <3>3, SumIsPartial
    <3>4. CASE t # {}
      <4>1. /\ Rest(t) \in SUBSET S /\ Rest(t) \subseteq U /\ Rest(t) \subseteq t
            /\ Cardinality(Rest(t)) < Cardinality(t)
        BY <2>1, <3>1, <3>4, RestSmaller
      <4>2. Rest(t) \in G
        BY <1>1, <4>1
      <4>3. Partial(f, U)[Rest(t)] = Partial(f, t)[Rest(t)]
        BY <4>1, <4>2
      <4> QED
        BY <3>2, <3>4, <4>3, SumIsPartial
    <3> QED
      BY <3>3, <3>4
  <2> QED
    BY <2>1
<1>2. G = SUBSET S
  <2>1. G \in SUBSET (SUBSET S)
    OBVIOUS
  <2> HIDE DEF G
  <2> QED
    BY <1>1, <2>1, EverySubset
<1> QED
  BY <1>2

----------------------------------------------------------------------------
(* Sums *)

\* Nothing sums to zero.
LEMMA SumEmpty ==
  ASSUME NEW f
  PROVE Sum(f, {}) = 0
<1>1. IsFiniteSet({})
  BY FS_EmptySet
<1>2. Adds(f, {}, Partial(f, {}))[{}] = 0
  BY DEF Adds
<1> QED
  BY <1>1, <1>2, PartialExists, SumIsPartial

\* The recursion, in terms of the sum.
LEMMA SumRest ==
  ASSUME NEW f, NEW S, IsFiniteSet(S), S # {}
  PROVE Sum(f, S) = f[Pick(S)] + Sum(f, Rest(S))
<1>1. Adds(f, S, Partial(f, S))[S] = f[Pick(S)] + Partial(f, S)[Rest(S)]
  BY DEF Adds
<1>2. Rest(S) \in SUBSET S
  BY DEF Rest
<1> QED
  BY <1>1, <1>2, PartialExists, PartialIsSum, SumIsPartial

\* Integers sum to an integer.
LEMMA SumInt ==
  ASSUME NEW f, NEW S, IsFiniteSet(S), \A x \in S : f[x] \in Int
  PROVE Sum(f, S) \in Int
<1> DEFINE G == {s \in SUBSET S : Sum(f, s) \in Int}
<1>1. ASSUME NEW s \in SUBSET S,
             \A t \in SUBSET S : Cardinality(t) < Cardinality(s) => t \in G
      PROVE s \in G
  <2>1. IsFiniteSet(s)
    BY FS_Subset
  <2>2. CASE s = {}
    BY <2>2, SumEmpty
  <2>3. CASE s # {}
    <3>1. /\ Rest(s) \in SUBSET S /\ Cardinality(Rest(s)) < Cardinality(s) /\ Pick(s) \in S
      BY <2>1, <2>3, RestSmaller
    <3>2. Sum(f, Rest(s)) \in Int
      BY <1>1, <3>1
    <3> QED
      BY <2>1, <2>3, <3>1, <3>2, SumRest
  <2> QED
    BY <2>2, <2>3
<1>2. G = SUBSET S
  <2>1. G \in SUBSET (SUBSET S)
    OBVIOUS
  <2> HIDE DEF G
  <2> QED
    BY <1>1, <2>1, EverySubset
<1> QED
  BY <1>2

\* A set without an element is smaller.
LEMMA Without ==
  ASSUME NEW s, IsFiniteSet(s), NEW x \in s
  PROVE Cardinality(s \ {x}) < Cardinality(s)
<1>1. Cardinality(s \ {x}) = Cardinality(s) - 1
  BY FS_RemoveElement
<1>2. Cardinality(s) \in Nat
  BY FS_CardinalityType
<1> QED
  BY <1>1, <1>2

\* Any element can be taken out first.
LEMMA SumTake ==
  ASSUME NEW f, NEW S, IsFiniteSet(S), \A x \in S : f[x] \in Int, NEW y \in S
  PROVE Sum(f, S) = f[y] + Sum(f, S \ {y})
<1> DEFINE G == {s \in SUBSET S : \A x \in s : Sum(f, s) = f[x] + Sum(f, s \ {x})}
<1>1. ASSUME NEW s \in SUBSET S,
             \A t \in SUBSET S : Cardinality(t) < Cardinality(s) => t \in G
      PROVE s \in G
  <2>1. IsFiniteSet(s)
    BY FS_Subset
  <2>2. ASSUME NEW x \in s
        PROVE Sum(f, s) = f[x] + Sum(f, s \ {x})
    <3> DEFINE p == Pick(s)
    <3>1. p \in s /\ Rest(s) = s \ {p} /\ Sum(f, s) = f[p] + Sum(f, s \ {p})
      BY <2>1, RestSmaller, SumRest DEF Rest
    <3> HIDE DEF p
    <3>2. CASE x = p
      BY <3>1, <3>2
    <3>3. CASE x # p
      <4>1. /\ s \ {p} \in SUBSET S /\ s \ {x} \in SUBSET S
            /\ Cardinality(s \ {p}) < Cardinality(s) /\ Cardinality(s \ {x}) < Cardinality(s)
        BY <2>1, <3>1, Without
      <4>2. s \ {p} \in G /\ s \ {x} \in G
        BY <1>1, <4>1
      <4>3. Sum(f, s \ {p}) = f[x] + Sum(f, (s \ {p}) \ {x})
        BY <3>3, <4>2
      <4>4. Sum(f, s \ {x}) = f[p] + Sum(f, (s \ {x}) \ {p})
        BY <3>1, <3>3, <4>2
      <4>5. (s \ {x}) \ {p} = (s \ {p}) \ {x}
        OBVIOUS
      <4>6. Sum(f, (s \ {p}) \ {x}) \in Int /\ f[x] \in Int /\ f[p] \in Int
        <5>1. IsFiniteSet((s \ {p}) \ {x})
          BY <2>1, FS_Subset
        <5> QED
          BY <3>1, <5>1, SumInt
      <4>7. \A a, b, c \in Int : a + (b + c) = b + (a + c)
        OBVIOUS
      <4>8. Sum(f, s \ {x}) = f[p] + Sum(f, (s \ {p}) \ {x})
        BY <4>4, <4>5
      <4>9. Sum(f, s) = f[p] + (f[x] + Sum(f, (s \ {p}) \ {x}))
        BY <3>1, <4>3
      <4> QED
        BY <4>6, <4>7, <4>8, <4>9
    <3> QED
      BY <3>2, <3>3
  <2> QED
    BY <2>2
<1>2. G = SUBSET S
  <2>1. G \in SUBSET (SUBSET S)
    OBVIOUS
  <2> HIDE DEF G
  <2> QED
    BY <1>1, <2>1, EverySubset
<1> QED
  BY <1>2

\* Only the values on the set count.
LEMMA SumSame ==
  ASSUME NEW f, NEW g, NEW S, IsFiniteSet(S), \A x \in S : f[x] = g[x]
  PROVE Sum(f, S) = Sum(g, S)
<1> DEFINE G == {s \in SUBSET S : Sum(f, s) = Sum(g, s)}
<1>1. ASSUME NEW s \in SUBSET S,
             \A t \in SUBSET S : Cardinality(t) < Cardinality(s) => t \in G
      PROVE s \in G
  <2>1. IsFiniteSet(s)
    BY FS_Subset
  <2>2. CASE s = {}
    BY <2>2, SumEmpty
  <2>3. CASE s # {}
    <3>1. /\ Rest(s) \in SUBSET S /\ Cardinality(Rest(s)) < Cardinality(s) /\ Pick(s) \in S
      BY <2>1, <2>3, RestSmaller
    <3>2. Sum(f, Rest(s)) = Sum(g, Rest(s))
      BY <1>1, <3>1
    <3> QED
      BY <2>1, <2>3, <3>1, <3>2, SumRest
  <2> QED
    BY <2>2, <2>3
<1>2. G = SUBSET S
  <2>1. G \in SUBSET (SUBSET S)
    OBVIOUS
  <2> HIDE DEF G
  <2> QED
    BY <1>1, <2>1, EverySubset
<1> QED
  BY <1>2

\* What adding to one value does to the sum.
LEMMA SumPlus ==
  ASSUME NEW S, IsFiniteSet(S), NEW f \in [S -> Int], NEW y \in S, NEW c \in Int,
         NEW g, g = [f EXCEPT ![y] = f[y] + c]
  PROVE Sum(g, S) = Sum(f, S) + c
<1>1. /\ f[y] \in Int /\ g[y] = f[y] + c
      /\ \A x \in S : f[x] \in Int /\ g[x] \in Int
      /\ \A x \in S \ {y} : f[x] = g[x] /\ f[x] \in Int
  OBVIOUS
<1>2. IsFiniteSet(S \ {y})
  BY FS_Subset
<1>3. Sum(f, S \ {y}) = Sum(g, S \ {y}) /\ Sum(f, S \ {y}) \in Int
  BY <1>1, <1>2, SumSame, SumInt
<1>4. Sum(f, S) = f[y] + Sum(f, S \ {y}) /\ Sum(g, S) = g[y] + Sum(g, S \ {y})
  BY ONLY <1>1, IsFiniteSet(S), y \in S, SumTake
<1>5. Sum(g, S) = (f[y] + c) + Sum(f, S \ {y}) /\ Sum(f, S) = f[y] + Sum(f, S \ {y})
  BY ONLY <1>1, <1>3, <1>4
<1>6. \A a, b \in Int : (a + c) + b = (a + b) + c
  OBVIOUS
<1>7. (f[y] + c) + Sum(f, S \ {y}) = (f[y] + Sum(f, S \ {y})) + c
  BY ONLY <1>1, <1>3, <1>6
<1> QED
  BY <1>5, <1>7

\* Two of the numbers change.
LEMMA SumTwo ==
  ASSUME NEW S, IsFiniteSet(S), NEW f \in [S -> Int], NEW g \in [S -> Int],
         NEW y \in S, NEW z \in S, y # z, \A x \in S \ {y, z} : g[x] = f[x]
  PROVE Sum(g, S) = Sum(f, S) + (g[y] - f[y]) + (g[z] - f[z])
<1> DEFINE Y == S \ {y}
           Z == Y \ {z}
<1>1. IsFiniteSet(Y) /\ IsFiniteSet(Z) /\ z \in Y /\ Z \subseteq S
  BY FS_Subset
<1>2. \A x \in Z : g[x] = f[x]
  OBVIOUS
<1>3. /\ \A x \in S : f[x] \in Int /\ g[x] \in Int
      /\ \A x \in Y : f[x] \in Int /\ g[x] \in Int
      /\ \A x \in Z : f[x] \in Int /\ g[x] \in Int
  OBVIOUS
<1>4. Sum(f, S) = f[y] + Sum(f, Y) /\ Sum(g, S) = g[y] + Sum(g, Y)
  BY <1>3, SumTake
<1> HIDE DEF Y
<1>5. Sum(f, Y) = f[z] + Sum(f, Z) /\ Sum(g, Y) = g[z] + Sum(g, Z)
  BY <1>1, <1>3, SumTake
<1> HIDE DEF Z
<1>6. Sum(f, Z) = Sum(g, Z) /\ Sum(f, Z) \in Int
  BY <1>1, <1>2, <1>3, SumSame, SumInt
<1>7. f[y] \in Int /\ f[z] \in Int /\ g[y] \in Int /\ g[z] \in Int
  BY <1>3
<1> QED
  BY <1>4, <1>5, <1>6, <1>7

\* Numbers that are not negative sum to one.
LEMMA SumNat ==
  ASSUME NEW f, NEW S, IsFiniteSet(S), \A x \in S : f[x] \in Nat
  PROVE Sum(f, S) \in Nat
<1> DEFINE G == {s \in SUBSET S : Sum(f, s) \in Nat}
<1>1. ASSUME NEW s \in SUBSET S,
             \A t \in SUBSET S : Cardinality(t) < Cardinality(s) => t \in G
      PROVE s \in G
  <2>1. IsFiniteSet(s)
    BY FS_Subset
  <2>2. CASE s = {}
    BY <2>2, SumEmpty
  <2>3. CASE s # {}
    <3>1. /\ Rest(s) \in SUBSET S /\ Cardinality(Rest(s)) < Cardinality(s) /\ Pick(s) \in S
      BY <2>1, <2>3, RestSmaller
    <3>2. Sum(f, Rest(s)) \in Nat
      BY <1>1, <3>1
    <3> QED
      BY <2>1, <2>3, <3>1, <3>2, SumRest
  <2> QED
    BY <2>2, <2>3
<1>2. G = SUBSET S
  <2>1. G \in SUBSET (SUBSET S)
    OBVIOUS
  <2> HIDE DEF G
  <2> QED
    BY <1>1, <2>1, EverySubset
<1> QED
  BY <1>2

\* Zeros sum to zero.
LEMMA SumZero ==
  ASSUME NEW f, NEW S, IsFiniteSet(S), \A x \in S : f[x] = 0
  PROVE Sum(f, S) = 0
<1> DEFINE G == {s \in SUBSET S : Sum(f, s) = 0}
<1>1. ASSUME NEW s \in SUBSET S,
             \A t \in SUBSET S : Cardinality(t) < Cardinality(s) => t \in G
      PROVE s \in G
  <2>1. IsFiniteSet(s)
    BY FS_Subset
  <2>2. CASE s = {}
    BY <2>2, SumEmpty
  <2>3. CASE s # {}
    <3>1. /\ Rest(s) \in SUBSET S /\ Cardinality(Rest(s)) < Cardinality(s) /\ Pick(s) \in S
      BY <2>1, <2>3, RestSmaller
    <3>2. Sum(f, Rest(s)) = 0
      BY <1>1, <3>1
    <3> QED
      BY <2>1, <2>3, <3>1, <3>2, SumRest
  <2> QED
    BY <2>2, <2>3
<1>2. G = SUBSET S
  <2>1. G \in SUBSET (SUBSET S)
    OBVIOUS
  <2> HIDE DEF G
  <2> QED
    BY <1>1, <2>1, EverySubset
<1> QED
  BY <1>2

\* A set is summed in two parts.
LEMMA SumSplit ==
  ASSUME NEW f, NEW S, IsFiniteSet(S), \A x \in S : f[x] \in Int, NEW T \in SUBSET S
  PROVE Sum(f, S) = Sum(f, T) + Sum(f, S \ T)
<1> DEFINE G == {s \in SUBSET T : Sum(f, S \ T) + Sum(f, s) = Sum(f, (S \ T) \union s)}
<1>0. IsFiniteSet(T) /\ IsFiniteSet(S \ T)
  BY FS_Subset
<1>1. ASSUME NEW s \in SUBSET T,
             \A t \in SUBSET T : Cardinality(t) < Cardinality(s) => t \in G
      PROVE s \in G
  <2>1. IsFiniteSet(s)
    BY <1>0, FS_Subset
  <2>2. Sum(f, S \ T) \in Int
    BY <1>0, SumInt
  <2>3. CASE s = {}
    <3>1. (S \ T) \union s = S \ T
      BY <2>3
    <3> QED
      BY <2>2, <2>3, <3>1, SumEmpty
  <2>4. CASE s # {}
    <3> DEFINE p == Pick(s)
    <3>1. /\ p \in s /\ Rest(s) = s \ {p} /\ Rest(s) \in SUBSET T
          /\ Cardinality(Rest(s)) < Cardinality(s)
      <4>1. /\ p \in s /\ Rest(s) \subseteq s
            /\ Cardinality(s) \in Nat /\ Cardinality(Rest(s)) = Cardinality(s) - 1
        BY <2>1, <2>4, RestSmaller
      <4>2. Cardinality(Rest(s)) < Cardinality(s)
        BY <4>1
      <4>3. Rest(s) = s \ {p}
        BY DEF Rest
      <4> QED
        BY <4>1, <4>2, <4>3
    <3>2. Sum(f, s) = f[p] + Sum(f, Rest(s))
      BY <2>1, <2>4, SumRest
    <3> HIDE DEF p
    <3>3. Sum(f, S \ T) + Sum(f, Rest(s)) = Sum(f, (S \ T) \union Rest(s))
      BY <1>1, <3>1
    <3>4. IsFiniteSet((S \ T) \union s) /\ p \in (S \ T) \union s
      BY <3>1, FS_Subset
    <3>5. Sum(f, (S \ T) \union s) = f[p] + Sum(f, ((S \ T) \union s) \ {p})
      BY <3>4, SumTake
    <3>6. ((S \ T) \union s) \ {p} = (S \ T) \union Rest(s)
      BY <3>1
    <3>7. Sum(f, Rest(s)) \in Int /\ f[p] \in Int
      BY <2>1, <3>1, FS_Subset, SumInt
    <3>8. Sum(f, (S \ T) \union s) = f[p] + (Sum(f, S \ T) + Sum(f, Rest(s)))
      BY <3>3, <3>5, <3>6
    <3> QED
      BY <2>2, <3>2, <3>7, <3>8
  <2> QED
    BY <2>3, <2>4
<1>2. G = SUBSET T
  <2>1. G \in SUBSET (SUBSET T)
    OBVIOUS
  <2> HIDE DEF G
  <2> QED
    BY <1>0, <1>1, <2>1, EverySubset
<1>3. (S \ T) \union T = S
  OBVIOUS
<1>4. Sum(f, S \ T) + Sum(f, T) = Sum(f, S)
  BY <1>2, <1>3
<1>5. Sum(f, T) \in Int /\ Sum(f, S \ T) \in Int
  BY <1>0, SumInt
<1> QED
  BY <1>4, <1>5
----------------------------------------------------------------------------
(* Sums over ages *)

\* Ages from one to another are finitely many.
LEMMA Intervals == \A a, b \in Int : IsFiniteSet(a..b)
BY FS_Interval

\* Of a finite set of numbers one is the largest.
LEMMA Largest ==
  ASSUME NEW S \in SUBSET Nat, IsFiniteSet(S), S # {}
  PROVE Max(S) \in S /\ \A y \in S : Max(S) >= y
<1> DEFINE Tops(s) == {x \in s : \A y \in s : x >= y}
           G == {s \in SUBSET S : s # {} => Tops(s) # {}}
<1>1. ASSUME NEW s \in SUBSET S,
             \A t \in SUBSET S : Cardinality(t) < Cardinality(s) => t \in G
      PROVE s \in G
  <2>1. SUFFICES ASSUME NEW z \in s
                 PROVE Tops(s) # {}
    OBVIOUS
  <2> DEFINE t == s \ {z}
  <2>2. t \in G
    BY <1>1, Without, FS_Subset
  <2>3. CASE t = {}
    <3>1. z \in Tops(s)
      BY <2>3
    <3> QED
      BY <3>1
  <2>4. CASE t # {}
    <3>1. PICK x \in t : \A y \in t : x >= y
      BY <2>2, <2>4
    <3>2. x >= z => x \in Tops(s)
      BY <3>1
    <3>3. ~(x >= z) => z \in Tops(s)
      BY <3>1
    <3> QED
      BY <3>2, <3>3
  <2> QED
    BY <2>3, <2>4
<1>2. G \in SUBSET (SUBSET S)
  OBVIOUS
<1> HIDE DEF G
<1>3. G = SUBSET S
  BY <1>1, <1>2, EverySubset
<1>4. Tops(S) # {}
  BY <1>3 DEF G
<1> QED
  BY <1>4 DEF Max

\* A sum whose terms are no larger is no larger.
LEMMA SumAtMost ==
  ASSUME NEW f, NEW g, NEW S, IsFiniteSet(S),
         \A x \in S : f[x] \in Int /\ g[x] \in Int /\ f[x] <= g[x]
  PROVE Sum(f, S) <= Sum(g, S)
<1> DEFINE G == {s \in SUBSET S : Sum(f, s) <= Sum(g, s)}
<1>1. ASSUME NEW s \in SUBSET S,
             \A t \in SUBSET S : Cardinality(t) < Cardinality(s) => t \in G
      PROVE s \in G
  <2>1. IsFiniteSet(s)
    BY FS_Subset
  <2>2. CASE s = {}
    BY <2>2, SumEmpty
  <2>3. ASSUME NEW y \in s
        PROVE s \in G
    <3>1. Sum(f, s \ {y}) <= Sum(g, s \ {y})
      BY <1>1, <2>1, Without
    <3>2. /\ Sum(f, s) = f[y] + Sum(f, s \ {y})
          /\ Sum(g, s) = g[y] + Sum(g, s \ {y})
      BY <2>1, SumTake
    <3>3. Sum(f, s \ {y}) \in Int /\ Sum(g, s \ {y}) \in Int
      BY <2>1, FS_Subset, SumInt
    <3> QED
      BY <3>1, <3>2, <3>3
  <2> QED
    BY <2>2, <2>3
<1>2. G \in SUBSET (SUBSET S)
  OBVIOUS
<1> HIDE DEF G
<1>3. G = SUBSET S
  BY <1>1, <1>2, EverySubset
<1>4. S \in G
  BY <1>3
<1> QED
  BY <1>4 DEF G

\* One term grows, and the sum with it.
LEMMA SumAdd ==
  ASSUME NEW f, NEW g, NEW S, IsFiniteSet(S), NEW y \in S, NEW c \in Int,
         \A x \in S : f[x] \in Int, g[y] = f[y] + c, \A x \in S \ {y} : g[x] = f[x]
  PROVE Sum(g, S) = Sum(f, S) + c
<1>1. \A x \in S : g[x] \in Int
  OBVIOUS
<1>2. /\ Sum(f, S) = f[y] + Sum(f, S \ {y})
      /\ Sum(g, S) = g[y] + Sum(g, S \ {y})
  BY <1>1, SumTake
<1>3. Sum(g, S \ {y}) = Sum(f, S \ {y})
  BY FS_Subset, SumSame
<1>4. Sum(f, S \ {y}) \in Int
  BY FS_Subset, SumInt
<1> QED
  BY <1>2, <1>3, <1>4

\* A shift by one loses the last term.
LEMMA SumShift ==
  ASSUME NEW top \in Nat, NEW f, NEW g, \A a \in 0..top : f[a] \in Int /\ g[a] \in Int,
         g[0] = 0, \A a \in 1..top : g[a] = f[a - 1],
         NEW m \in 0..top
  PROVE Sum(f, 0..m) = Sum(g, 0..m) + f[m]
<1> DEFINE T == {n \in Nat : n <= top => Sum(f, 0..n) = Sum(g, 0..n) + f[n]}
<1>1. 0 \in T
  <2>1. 0..0 = {0} /\ {0} \ {0} = {}
    OBVIOUS
  <2>3. IsFiniteSet({0})
    BY FS_Singleton
  <2>2. Sum(f, {0}) = f[0] + Sum(f, {0} \ {0}) /\ Sum(g, {0}) = g[0] + Sum(g, {0} \ {0})
    BY <2>3, SumTake
  <2> QED
    BY <2>1, <2>2, SumEmpty
<1>2. ASSUME NEW n \in T
      PROVE n + 1 \in T
  <2>1. SUFFICES ASSUME n + 1 <= top
                 PROVE Sum(f, 0..(n + 1)) = Sum(g, 0..(n + 1)) + f[n + 1]
    OBVIOUS
  <2> DEFINE D == 0..n
             B == 0..(n + 1)
  <2>2. IsFiniteSet(D) /\ IsFiniteSet(B)
    <3>1. 0 \in Int /\ n \in Int /\ n + 1 \in Int
      OBVIOUS
    <3> QED
      BY <3>1, Intervals
  <2>3. /\ n + 1 \in B /\ B \ {n + 1} = D
        /\ \A a \in B : f[a] \in Int /\ g[a] \in Int
        /\ \A a \in D : f[a] \in Int /\ g[a] \in Int
    BY <2>1
  <2>4. Sum(f, D) = Sum(g, D) + f[n] /\ g[n + 1] = f[n] /\ f[n] \in Int /\ f[n + 1] \in Int
    BY <2>1
  <2> HIDE DEF D, B
  <2>5. /\ Sum(f, B) = f[n + 1] + Sum(f, B \ {n + 1})
        /\ Sum(g, B) = g[n + 1] + Sum(g, B \ {n + 1})
    BY <2>2, <2>3, SumTake
  <2>6. Sum(f, D) \in Int /\ Sum(g, D) \in Int
    BY <2>2, <2>3, SumInt
  <2>7. Sum(f, B) = Sum(g, B) + f[n + 1]
    <3>1. /\ Sum(f, B) = f[n + 1] + (Sum(g, D) + f[n])
          /\ Sum(g, B) = f[n] + Sum(g, D)
      BY <2>3, <2>4, <2>5
    <3> QED
      BY <2>4, <2>6, <3>1
  <2> QED
    BY <2>7 DEF B
<1>3. T \in SUBSET Nat
  OBVIOUS
<1> HIDE DEF T
<1>4. m \in T
  BY <1>1, <1>2, <1>3, EveryNumber
<1> QED
  BY <1>4 DEF T

\* The same, of functions.
LEMMA SumOlder ==
  ASSUME NEW top \in Nat, NEW m \in 0..top, NEW f, NEW g
  PROVE f \in [0..top -> Nat] /\ g = [a \in 0..top |-> IF a = 0 THEN 0 ELSE f[a - 1]]
          => Sum(f, 0..m) = Sum(g, 0..m) + f[m]
<1> DEFINE Shifted == /\ \A a \in 0..top : f[a] \in Int /\ g[a] \in Int
                      /\ g[0] = 0 /\ \A a \in 1..top : g[a] = f[a - 1]
<1>1. f \in [0..top -> Nat] /\ g = [a \in 0..top |-> IF a = 0 THEN 0 ELSE f[a - 1]] => Shifted
  OBVIOUS
<1>2. Shifted => Sum(f, 0..m) = Sum(g, 0..m) + f[m]
  BY SumShift, Zenon
<1> QED
  BY <1>1, <1>2, Zenon
=============================================================================
