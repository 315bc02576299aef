------------------------------ MODULE SumProofs ------------------------------
(***************************************************************************)
(* What SumFunctionOnSet of module Functions computes: the laws of sums    *)
(* over finite sets that the token books, the chunks, the worker's loads   *)
(* and a search's prompt are proved with. The argument is an induction     *)
(* over finite sets, by a smallest set that breaks a law. In the same way  *)
(* what a fold over a sequence leaves, which the history of a chat and the *)
(* choice of pages are proved with, and that a finite set with a total     *)
(* order can be listed in that order.                                      *)
(***************************************************************************)
EXTENDS Integers, Sequences, FiniteSets, FiniteSetsExt, Functions, FiniteSetTheorems,
        WellFoundedInduction, TLAPS

\* Every set of subsets of a finite set has a smallest one.
LEMMA SmallestSubset ==
    ASSUME NEW S, IsFiniteSet(S), NEW T, T \subseteq SUBSET S, T # {}
    PROVE  \E x \in T : \A y \in T : ~(y \subseteq x /\ y # x)
  <1>1. IsWellFoundedOn(StrictSubsetOrdering(S), FiniteSubsetsOf(S))
    BY FS_StrictSubsetOrderingWellFounded
  <1>2. T \subseteq FiniteSubsetsOf(S)
    BY FS_Subset DEF FiniteSubsetsOf
  <1>3. \E x \in T : \A y \in T : ~ (<<y, x>> \in StrictSubsetOrdering(S))
    BY <1>1, <1>2, WFMin
  <1> QED
    BY <1>3 DEF StrictSubsetOrdering

\* Induction over finite sets: good holds every subset of S whose smaller
\* subsets it holds.
LEMMA SubsetInduction ==
    ASSUME NEW S, IsFiniteSet(S), NEW good,
           \A s \in SUBSET S : (\A t \in SUBSET s : t # s => t \in good) => s \in good
    PROVE  S \in good
  <1> DEFINE bad == {s \in SUBSET S : s \notin good}
  <1>1. ASSUME NEW s \in bad, \A t \in bad : ~(t \subseteq s /\ t # s)
        PROVE  FALSE
    BY <1>1
  <1>2. bad \subseteq SUBSET S
    OBVIOUS
  <1>3. bad = {}
    <2> HIDE DEF bad
    <2> QED
      BY <1>1, <1>2, SmallestSubset
  <1> QED
    BY <1>3

\* Every set of natural numbers has a smallest one.
LEMMA SmallestNumber ==
    ASSUME NEW T, T \subseteq Nat, T # {}
    PROVE  \E n \in T : \A m \in T : ~(m < n)
  <1> DEFINE less == {p \in Nat \X Nat : p[1] < p[2]}
  <1>1. IsWellFoundedOn(less, Nat)
    BY NatLessThanWellFounded DEF OpToRel
  <1>2. \E n \in T : \A m \in T : ~(<<m, n>> \in less)
    <2> HIDE DEF less
    <2> QED
      BY <1>1, WFMin
  <1> QED
    BY <1>2

\* The element that the sum takes next.
Next1(s) == CHOOSE x \in s : TRUE

\* h sums f over every member of sets, which is closed under taking elements away.
Sums(h, f, sets) ==
    h = [s \in sets |-> IF s = {} THEN 0 ELSE f[Next1(s)] + h[s \ {Next1(s)}]]

LEMMA SumIsSums ==
    ASSUME NEW f, NEW S
    PROVE  SumFunctionOnSet(f, S) = (CHOOSE h : Sums(h, f, SUBSET S))[S]
  BY DEF SumFunctionOnSet, FoldFunctionOnSet, MapThenFoldSet, Sums, Next1

LEMMA Next1In == \A s : s # {} => Next1(s) \in s
  BY DEF Next1

SmallSubsets(S, n) == {s \in SUBSET S : Cardinality(s) <= n}

\* There is a sum over every finite set: one for its subsets of up to n
\* elements gives one for those of up to n + 1.
LEMMA LargerSums ==
    ASSUME NEW S, IsFiniteSet(S), NEW f, NEW n \in Nat,
           \E h : Sums(h, f, SmallSubsets(S, n))
    PROVE  \E h : Sums(h, f, SmallSubsets(S, n + 1))
  <1>1. PICK h : Sums(h, f, SmallSubsets(S, n))
    OBVIOUS
  <1> DEFINE g == [s \in SmallSubsets(S, n + 1) |->
                       IF s = {} THEN 0 ELSE f[Next1(s)] + h[s \ {Next1(s)}]]
  <1>2. ASSUME NEW s \in SmallSubsets(S, n + 1), s # {}
        PROVE  /\ s \ {Next1(s)} \in SmallSubsets(S, n)
               /\ s \ {Next1(s)} \in SmallSubsets(S, n + 1)
    <2>1. IsFiniteSet(s) /\ Cardinality(s) \in Nat
      BY FS_Subset, FS_CardinalityType DEF SmallSubsets
    <2>2. Cardinality(s \ {Next1(s)}) = Cardinality(s) - 1
      BY <1>2, <2>1, Next1In, FS_RemoveElement
    <2> QED
      BY <2>1, <2>2 DEF SmallSubsets
  <1>3. ASSUME NEW s \in SmallSubsets(S, n)  PROVE g[s] = h[s]
    <2>1. s \in SmallSubsets(S, n + 1)
      <3>1. Cardinality(s) \in Nat
        BY FS_Subset, FS_CardinalityType DEF SmallSubsets
      <3> QED
        BY <3>1 DEF SmallSubsets
    <2> QED
      BY <1>1, <2>1 DEF Sums
  <1>4. ASSUME NEW s \in SmallSubsets(S, n + 1), s # {}
        PROVE  h[s \ {Next1(s)}] = g[s \ {Next1(s)}]
    <2> HIDE DEF g
    <2> QED
      BY <1>2, <1>3, <1>4
  <1>5. g = [s \in SmallSubsets(S, n + 1) |->
                 IF s = {} THEN 0 ELSE f[Next1(s)] + g[s \ {Next1(s)}]]
    BY <1>4
  <1> HIDE DEF g
  <1> QED
    BY <1>5 DEF Sums

LEMMA SumExists ==
    ASSUME NEW S, IsFiniteSet(S), NEW f
    PROVE  \E h : Sums(h, f, SUBSET S)
  <1> DEFINE bad == {n \in Nat : ~ \E h : Sums(h, f, SmallSubsets(S, n))}
  <1>1. 0 \notin bad
    <2>1. SmallSubsets(S, 0) = {{}}
      BY FS_Subset, FS_EmptySet, FS_CardinalityType DEF SmallSubsets
    <2>2. Sums([s \in {{}} |-> 0], f, {{}})
      BY DEF Sums
    <2> QED
      BY <2>1, <2>2
  <1>2. ASSUME NEW n \in Nat, n + 1 \in bad  PROVE n \in bad
    BY <1>2, LargerSums
  <1>3. bad = {}
    <2> SUFFICES ASSUME bad # {}  PROVE FALSE
      OBVIOUS
    <2>1. bad \subseteq Nat
      OBVIOUS
    <2> HIDE DEF bad
    <2>2. PICK n \in bad : \A m \in bad : ~(m < n)
      BY <2>1, SmallestNumber
    <2>3. n - 1 \in Nat /\ n = (n - 1) + 1
      BY <1>1, <2>1, <2>2
    <2>4. n - 1 \in bad
      BY <1>2, <2>2, <2>3
    <2> QED
      BY <2>1, <2>2, <2>4
  <1>4. Cardinality(S) \in Nat /\ SmallSubsets(S, Cardinality(S)) = SUBSET S
    BY FS_Subset, FS_CardinalityType DEF SmallSubsets
  <1>5. \E h : Sums(h, f, SmallSubsets(S, Cardinality(S)))
    BY <1>3, <1>4
  <1> HIDE DEF bad
  <1> QED
    BY <1>4, <1>5

SameNumbers(f, g, S) == \A x \in S : f[x] \in Nat /\ f[x] = g[x]

\* Two sums over the same numbers agree, and are numbers.
LEMMA SumsAgree ==
    ASSUME NEW S, NEW U, NEW V, IsFiniteSet(V), V \subseteq S, V \subseteq U,
           NEW f, NEW g, NEW h, NEW k,
           Sums(h, f, SUBSET S), Sums(k, g, SUBSET U), SameNumbers(f, g, V)
    PROVE  \A s \in SUBSET V : h[s] \in Nat /\ h[s] = k[s]
  <1> DEFINE bad == {s \in SUBSET V : ~(h[s] \in Nat /\ h[s] = k[s])}
  <1> SUFFICES ASSUME bad # {}  PROVE FALSE
    OBVIOUS
  <1>1. PICK s \in bad : \A t \in bad : ~(t \subseteq s /\ t # s)
    <2>1. bad \subseteq SUBSET V
      OBVIOUS
    <2> HIDE DEF bad
    <2> QED
      BY <2>1, SmallestSubset
  <1>2. /\ h[s] = IF s = {} THEN 0 ELSE f[Next1(s)] + h[s \ {Next1(s)}]
        /\ k[s] = IF s = {} THEN 0 ELSE g[Next1(s)] + k[s \ {Next1(s)}]
    BY DEF Sums
  <1>3. CASE s = {}
    BY <1>2, <1>3
  <1>4. CASE s # {}
    <2>1. Next1(s) \in s /\ Next1(s) \in V
      BY <1>4, Next1In
    <2>2. s \ {Next1(s)} \notin bad
      BY <1>1, <2>1
    <2>3. h[s \ {Next1(s)}] \in Nat /\ h[s \ {Next1(s)}] = k[s \ {Next1(s)}]
      BY <2>2
    <2> QED
      BY <1>2, <1>4, <2>1, <2>3 DEF SameNumbers
  <1> QED
    BY <1>3, <1>4

\* A sum does not depend on the element it takes first.
LEMMA SumsTakeAny ==
    ASSUME NEW S, IsFiniteSet(S), NEW f, NEW h, Sums(h, f, SUBSET S),
           \A x \in S : f[x] \in Nat
    PROVE  \A s \in SUBSET S : \A x \in s : h[s] = f[x] + h[s \ {x}]
  <1> DEFINE bad == {s \in SUBSET S : ~ \A x \in s : h[s] = f[x] + h[s \ {x}]}
  <1> SUFFICES ASSUME bad # {}  PROVE FALSE
    OBVIOUS
  <1>1. PICK s \in bad : \A t \in bad : ~(t \subseteq s /\ t # s)
    <2>1. bad \subseteq SUBSET S
      OBVIOUS
    <2> HIDE DEF bad
    <2> QED
      BY <2>1, SmallestSubset
  <1>2. PICK x \in s : h[s] # f[x] + h[s \ {x}]
    OBVIOUS
  <1> DEFINE c == Next1(s)
  <1>3. c \in s /\ h[s] = f[c] + h[s \ {c}]
    BY <1>2, Next1In DEF Sums
  <1>4. c # x
    BY <1>2, <1>3
  <1>5. s \ {c} \notin bad /\ s \ {x} \notin bad
    BY <1>1, <1>2, <1>3
  <1>6. h[s \ {c}] = f[x] + h[(s \ {c}) \ {x}]
    BY <1>2, <1>3, <1>4, <1>5
  <1>7. h[s \ {x}] = f[c] + h[(s \ {x}) \ {c}]
    BY <1>2, <1>3, <1>4, <1>5
  <1>8. (s \ {x}) \ {c} = (s \ {c}) \ {x}
    OBVIOUS
  <1>9. \A t \in SUBSET S : h[t] \in Nat
    <2> HIDE DEF c, bad
    <2>1. SameNumbers(f, f, S) /\ S \subseteq S
      BY DEF SameNumbers
    <2> QED
      BY <2>1, SumsAgree
  <1>10. /\ f[x] \in Nat /\ f[c] \in Nat
         /\ h[(s \ {c}) \ {x}] \in Nat /\ h[s \ {c}] \in Nat /\ h[s \ {x}] \in Nat
    BY <1>2, <1>3, <1>9
  <1>11. s \in SUBSET S
    OBVIOUS
  <1> HIDE DEF c, bad
  <1>12. h[(s \ {x}) \ {c}] = h[(s \ {c}) \ {x}]
    BY <1>8
  <1>13. \A a, b, m, hc, hx, hs \in Nat :
             hs = b + hc /\ hc = a + m /\ hx = b + m => hs = a + hx
    OBVIOUS
  <1>14. h[s] \in Nat
    BY <1>9, <1>11
  <1> QED
    BY <1>2, <1>3, <1>6, <1>7, <1>10, <1>12, <1>13, <1>14

-----------------------------------------------------------------------------
(* The laws of sums *)

\* Numbers that f gives to every element of S.
NumbersOn(f, S) == IsFiniteSet(S) /\ \A x \in S : f[x] \in Nat

LEMMA SumIsThere ==
    ASSUME NEW S, IsFiniteSet(S), NEW f
    PROVE  \E h : Sums(h, f, SUBSET S) /\ SumFunctionOnSet(f, S) = h[S]
  BY SumExists, SumIsSums

LEMMA SumType ==
    ASSUME NEW f, NEW S, NumbersOn(f, S)
    PROVE  SumFunctionOnSet(f, S) \in Nat
  <1>1. PICK h : Sums(h, f, SUBSET S) /\ SumFunctionOnSet(f, S) = h[S]
    BY SumIsThere DEF NumbersOn
  <1>2. SameNumbers(f, f, S) /\ S \subseteq S /\ IsFiniteSet(S)
    BY DEF NumbersOn, SameNumbers
  <1>3. \A s \in SUBSET S : h[s] \in Nat
    BY <1>1, <1>2, SumsAgree
  <1> QED
    BY <1>1, <1>3

LEMMA SumEmpty == \A f : SumFunctionOnSet(f, {}) = 0
  <1> SUFFICES ASSUME NEW f  PROVE SumFunctionOnSet(f, {}) = 0
    OBVIOUS
  <1>1. PICK h : Sums(h, f, SUBSET {}) /\ SumFunctionOnSet(f, {}) = h[{}]
    BY FS_EmptySet, SumIsThere
  <1> QED
    BY <1>1 DEF Sums

LEMMA SumSame ==
    ASSUME NEW f, NEW g, NEW S, NumbersOn(f, S), \A x \in S : f[x] = g[x]
    PROVE  SumFunctionOnSet(f, S) = SumFunctionOnSet(g, S)
  <1>1. PICK h : Sums(h, f, SUBSET S) /\ SumFunctionOnSet(f, S) = h[S]
    BY SumIsThere DEF NumbersOn
  <1>2. PICK k : Sums(k, g, SUBSET S) /\ SumFunctionOnSet(g, S) = k[S]
    BY SumIsThere DEF NumbersOn
  <1>3. SameNumbers(f, g, S) /\ S \subseteq S /\ IsFiniteSet(S)
    BY DEF NumbersOn, SameNumbers
  <1>4. \A s \in SUBSET S : h[s] = k[s]
    BY <1>1, <1>2, <1>3, SumsAgree
  <1> QED
    BY <1>1, <1>2, <1>4

LEMMA SumTakes ==
    ASSUME NEW f, NEW S, NumbersOn(f, S), NEW x \in S
    PROVE  SumFunctionOnSet(f, S) = f[x] + SumFunctionOnSet(f, S \ {x})
  <1> DEFINE rest == S \ {x}
  <1>1. PICK h : Sums(h, f, SUBSET S) /\ SumFunctionOnSet(f, S) = h[S]
    BY SumIsThere DEF NumbersOn
  <1>2. IsFiniteSet(rest)
    BY FS_RemoveElement DEF NumbersOn
  <1>3. h[S] = f[x] + h[rest]
    BY <1>1, SumsTakeAny DEF NumbersOn
  <1>4. SameNumbers(f, f, rest) /\ rest \subseteq S /\ rest \subseteq rest
    BY DEF NumbersOn, SameNumbers
  <1> HIDE DEF rest
  <1>5. PICK k : Sums(k, f, SUBSET rest) /\ SumFunctionOnSet(f, rest) = k[rest]
    BY <1>2, SumIsThere
  <1>6. \A s \in SUBSET rest : h[s] = k[s]
    BY <1>1, <1>2, <1>4, <1>5, SumsAgree
  <1>7. SumFunctionOnSet(f, S) = f[x] + SumFunctionOnSet(f, rest)
    BY <1>1, <1>3, <1>5, <1>6
  <1> QED
    BY <1>7 DEF rest

LEMMA SumAdds ==
    ASSUME NEW f, NEW S, NEW x, NumbersOn(f, S \cup {x}), x \notin S
    PROVE  SumFunctionOnSet(f, S \cup {x}) = f[x] + SumFunctionOnSet(f, S)
  <1>1. (S \cup {x}) \ {x} = S
    OBVIOUS
  <1> QED
    BY <1>1, SumTakes

HasMax(s) == \E x \in s : \A y \in s : x >= y

\* A finite set of natural numbers has a greatest one.
LEMMA MaxOfNumbers ==
    ASSUME NEW S, IsFiniteSet(S), S \subseteq Nat, S # {}
    PROVE  Max(S) \in S /\ \A y \in S : y <= Max(S)
  <1> DEFINE good == {s \in SUBSET S : s # {} => HasMax(s)}
  <1>1. ASSUME NEW s \in SUBSET S, s # {}, \A t \in SUBSET s : t # s => t \in good
        PROVE  HasMax(s)
    <2>1. PICK c \in s : TRUE
      BY <1>1
    <2>2. CASE s \ {c} = {}
      <3>1. s = {c} /\ c \in Nat
        BY <2>1, <2>2
      <3> QED
        BY <3>1 DEF HasMax
    <2>3. CASE s \ {c} # {}
      <3>1. s \ {c} \in good
        BY <1>1, <2>1
      <3>2. HasMax(s \ {c})
        BY <2>3, <3>1
      <3>3. PICK m \in s \ {c} : \A y \in s \ {c} : m >= y
        BY <3>2 DEF HasMax
      <3>4. m \in Nat /\ c \in Nat /\ \A y \in s : y \in Nat
        BY <2>1, <3>3
      <3>5. CASE m >= c
        BY <3>3, <3>5 DEF HasMax
      <3>6. CASE c >= m
        <4>1. \A y \in s : c >= y
          BY <3>3, <3>4, <3>6
        <4> QED
          BY <2>1, <4>1 DEF HasMax
      <3> QED
        BY <3>4, <3>5, <3>6
    <2> QED
      BY <2>2, <2>3
  <1>2. \A s \in SUBSET S : (\A t \in SUBSET s : t # s => t \in good) => s \in good
    BY <1>1
  <1>3. S \in good
    <2> HIDE DEF good
    <2> QED
      BY <1>2, SubsetInduction
  <1>4. \E x \in S : \A y \in S : x >= y
    BY <1>3 DEF HasMax
  <1>5. Max(S) \in S /\ \A y \in S : Max(S) >= y
    BY <1>4 DEF Max
  <1> QED
    BY <1>5

\* Sums of numbers grow with the set.
LEMMA SumGrows ==
    ASSUME NEW f, NEW T, NumbersOn(f, T), NEW S \in SUBSET T
    PROVE  SumFunctionOnSet(f, S) <= SumFunctionOnSet(f, T)
  <1> DEFINE good == {s \in SUBSET T : S \subseteq s => SumFunctionOnSet(f, S) <= SumFunctionOnSet(f, s)}
  <1>1. ASSUME NEW s \in SUBSET T, \A t \in SUBSET s : t # s => t \in good, S \subseteq s
        PROVE  SumFunctionOnSet(f, S) <= SumFunctionOnSet(f, s)
    <2>1. IsFiniteSet(s) /\ NumbersOn(f, s)
      BY FS_Subset DEF NumbersOn
    <2>2. SumFunctionOnSet(f, s) \in Nat
      BY <2>1, SumType
    <2>3. CASE S = s
      BY <2>2, <2>3
    <2>4. CASE S # s
      <3>1. PICK x \in s : x \notin S
        BY <1>1, <2>4
      <3>2. s \ {x} \in good /\ S \subseteq s \ {x}
        BY <1>1, <3>1
      <3>3. SumFunctionOnSet(f, s) = f[x] + SumFunctionOnSet(f, s \ {x})
        BY <2>1, SumTakes
      <3>4. NumbersOn(f, s \ {x}) /\ f[x] \in Nat
        BY <2>1, FS_RemoveElement DEF NumbersOn
      <3>5. SumFunctionOnSet(f, s \ {x}) \in Nat
        BY <3>4, SumType
      <3>6. NumbersOn(f, S)
        BY FS_Subset DEF NumbersOn
      <3>7. SumFunctionOnSet(f, S) \in Nat /\ SumFunctionOnSet(f, S) <= SumFunctionOnSet(f, s \ {x})
        BY <3>2, <3>6, SumType
      <3> QED
        BY <3>3, <3>4, <3>5, <3>7
    <2> QED
      BY <2>3, <2>4
  <1>2. \A s \in SUBSET T : (\A t \in SUBSET s : t # s => t \in good) => s \in good
    BY <1>1
  <1>3. T \in good
    <2> HIDE DEF good
    <2>1. IsFiniteSet(T)
      BY DEF NumbersOn
    <2> QED
      BY <1>2, <2>1, SubsetInduction
  <1> QED
    BY <1>3

-----------------------------------------------------------------------------
(* Folds over sequences *)

\* h folds a sequence: what it gives a set of places is a step from what it gives
\* the set without its last place. step is a function, so that the law is one of
\* values; steps stay in a set of results.
Folds(h, base, seq, step, sets) ==
    \A s \in sets : h[s] = IF s = {} THEN base ELSE step[<<h[s \ {Max(s)}], seq[Max(s)]>>]

LEMMA LastPlaces ==
    ASSUME NEW S, IsFiniteSet(S), S \subseteq Nat, NEW s \in SUBSET S, s # {}
    PROVE  Max(s) \in s
  <1>1. IsFiniteSet(s) /\ s \subseteq Nat
    BY FS_Subset
  <1> QED
    BY <1>1, MaxOfNumbers DEF Max

LEMMA LargerFolds ==
    ASSUME NEW seq, NEW X, seq \in Seq(X), NEW R, NEW base \in R, NEW step \in [R \X X -> R], NEW n \in Nat,
           NEW h \in [SmallSubsets(DOMAIN seq, n) -> R],
           Folds(h, base, seq, step, SmallSubsets(DOMAIN seq, n))
    PROVE  \E g \in [SmallSubsets(DOMAIN seq, n + 1) -> R] :
               Folds(g, base, seq, step, SmallSubsets(DOMAIN seq, n + 1))
  <1> DEFINE S == DOMAIN seq
             g == [s \in SmallSubsets(S, n + 1) |->
                       IF s = {} THEN base ELSE step[<<h[s \ {Max(s)}], seq[Max(s)]>>]]
  <1>1. IsFiniteSet(S) /\ S \subseteq Nat /\ \A i \in S : seq[i] \in X
    <2>1. S = 1 .. Len(seq) /\ Len(seq) \in Nat /\ \A i \in S : seq[i] \in X
      OBVIOUS
    <2>2. IsFiniteSet(1 .. Len(seq))
      BY <2>1, FS_Interval
    <2>3. 1 .. Len(seq) \subseteq Nat
      OBVIOUS
    <2> HIDE DEF S
    <2> QED
      BY <2>1, <2>2, <2>3
  <1> HIDE DEF S
  <1>2. ASSUME NEW s \in SmallSubsets(S, n + 1), s # {}
        PROVE  /\ s \ {Max(s)} \in SmallSubsets(S, n)
               /\ s \ {Max(s)} \in SmallSubsets(S, n + 1)
               /\ Max(s) \in S
    <2>1. IsFiniteSet(s) /\ Cardinality(s) \in Nat /\ s \in SUBSET S
      BY <1>1, FS_Subset, FS_CardinalityType DEF SmallSubsets
    <2>2. Max(s) \in s
      BY <1>1, <1>2, <2>1, LastPlaces
    <2>3. Cardinality(s \ {Max(s)}) = Cardinality(s) - 1
      BY <2>1, <2>2, FS_RemoveElement
    <2> QED
      BY <2>1, <2>2, <2>3 DEF SmallSubsets
  <1>3. ASSUME NEW s \in SmallSubsets(S, n + 1), s # {}
        PROVE  step[<<h[s \ {Max(s)}], seq[Max(s)]>>] \in R
    <2>1. h[s \ {Max(s)}] \in R
      BY <1>2, <1>3 DEF S
    <2>2. seq[Max(s)] \in X
      BY <1>1, <1>2, <1>3
    <2> QED
      BY <2>1, <2>2
  <1>4. g \in [SmallSubsets(S, n + 1) -> R]
    BY <1>3
  <1>5. ASSUME NEW s \in SmallSubsets(S, n)  PROVE g[s] = h[s]
    <2>1. s \in SmallSubsets(S, n + 1)
      <3>1. Cardinality(s) \in Nat
        BY <1>1, FS_Subset, FS_CardinalityType DEF SmallSubsets
      <3> QED
        BY <3>1 DEF SmallSubsets
    <2> QED
      BY <2>1 DEF Folds, S
  <1>6. ASSUME NEW s \in SmallSubsets(S, n + 1), s # {}
        PROVE  h[s \ {Max(s)}] = g[s \ {Max(s)}]
    <2> HIDE DEF g
    <2> QED
      BY <1>2, <1>5, <1>6
  <1>7. Folds(g, base, seq, step, SmallSubsets(S, n + 1))
    <2>1. ASSUME NEW s \in SmallSubsets(S, n + 1)
          PROVE  g[s] = IF s = {} THEN base ELSE step[<<g[s \ {Max(s)}], seq[Max(s)]>>]
      <3>1. g[s] = IF s = {} THEN base ELSE step[<<h[s \ {Max(s)}], seq[Max(s)]>>]
        OBVIOUS
      <3> HIDE DEF g
      <3> QED
        BY <1>6, <3>1
    <2> HIDE DEF g
    <2> QED
      BY <2>1 DEF Folds
  <1> HIDE DEF g
  <1> QED
    BY <1>4, <1>7 DEF S

\* A sequence has a fold.
LEMMA FoldExists ==
    ASSUME NEW seq, NEW X, seq \in Seq(X), NEW R, NEW base \in R, NEW step \in [R \X X -> R]
    PROVE  \E h \in [SUBSET (DOMAIN seq) -> R] : Folds(h, base, seq, step, SUBSET (DOMAIN seq))
  <1> DEFINE S == DOMAIN seq
             bad == {n \in Nat : ~ \E h \in [SmallSubsets(S, n) -> R] :
                                       Folds(h, base, seq, step, SmallSubsets(S, n))}
  <1>0. IsFiniteSet(S)
    <2>1. S = 1 .. Len(seq) /\ Len(seq) \in Nat
      OBVIOUS
    <2> QED
      BY <2>1, FS_Interval
  <1>1. 0 \notin bad
    <2>1. SmallSubsets(S, 0) = {{}}
      <3> HIDE DEF S
      <3> QED
        BY <1>0, FS_Subset, FS_EmptySet, FS_CardinalityType DEF SmallSubsets
    <2>2. [s \in {{}} |-> base] \in [{{}} -> R] /\ Folds([s \in {{}} |-> base], base, seq, step, {{}})
      BY DEF Folds
    <2> QED
      BY <2>1, <2>2
  <1>2. ASSUME NEW n \in Nat, n + 1 \in bad  PROVE n \in bad
    BY <1>2, LargerFolds
  <1>3. bad = {}
    <2> SUFFICES ASSUME bad # {}  PROVE FALSE
      OBVIOUS
    <2>1. bad \subseteq Nat
      OBVIOUS
    <2> HIDE DEF bad
    <2>2. PICK n \in bad : \A m \in bad : ~(m < n)
      BY <2>1, SmallestNumber
    <2>3. n - 1 \in Nat /\ n = (n - 1) + 1
      BY <1>1, <2>1, <2>2
    <2>4. n - 1 \in bad
      BY <1>2, <2>2, <2>3
    <2> QED
      BY <2>1, <2>2, <2>4
  <1>4. Cardinality(S) \in Nat /\ SmallSubsets(S, Cardinality(S)) = SUBSET S
    <2> HIDE DEF S, bad
    <2> QED
      BY <1>0, FS_Subset, FS_CardinalityType DEF SmallSubsets
  <1>5. \E h \in [SmallSubsets(S, Cardinality(S)) -> R] :
            Folds(h, base, seq, step, SmallSubsets(S, Cardinality(S)))
    BY <1>3, <1>4
  <1> HIDE DEF bad
  <1> QED
    BY <1>4, <1>5

\* The places up to n: the last is n, and without it they are those up to n - 1.
LEMMA LastOfPlaces ==
    ASSUME NEW n \in Nat, n # 0
    PROVE  Max(1 .. n) = n /\ (1 .. n) \ {n} = 1 .. (n - 1) /\ 1 .. n # {} /\ n \in 1 .. n
  <1>1. n \in 1 .. n /\ \A y \in 1 .. n : n >= y
    OBVIOUS
  <1>2. \A x \in 1 .. n : (\A y \in 1 .. n : x >= y) => x = n
    OBVIOUS
  <1>3. Max(1 .. n) \in 1 .. n /\ \A y \in 1 .. n : Max(1 .. n) >= y
    BY <1>1 DEF Max
  <1>4. Max(1 .. n) = n
    <2> HIDE DEF Max
    <2> QED
      BY <1>2, <1>3
  <1>5. (1 .. n) \ {n} = 1 .. (n - 1)
    OBVIOUS
  <1> QED
    BY <1>1, <1>4, <1>5

\* g does what a fold does, as long as its results stay in R.
Follows(g, base, seq, step, R, X) ==
    /\ seq \in Seq(X) /\ base \in R /\ step \in [R \X X -> R] /\ g[{}] = base
    /\ \A s \in SUBSET (DOMAIN seq) :
           s # {} /\ g[s \ {Max(s)}] \in R => g[s] = step[<<g[s \ {Max(s)}], seq[Max(s)]>>]

FoldSteps(h, base, seq, step, R) ==
    /\ h \in [0 .. Len(seq) -> R] /\ h[0] = base
    /\ \A k \in 1 .. Len(seq) : h[k] = step[<<h[k - 1], seq[k]>>]

\* Place by place: the results of a fold, and that they stay in R.
LEMMA FoldWalks ==
    ASSUME NEW seq, NEW X, NEW R, NEW base, NEW step, NEW g, Follows(g, base, seq, step, R, X)
    PROVE  \E h : FoldSteps(h, base, seq, step, R) /\ g[DOMAIN seq] = h[Len(seq)]
  <1>0. seq \in Seq(X) /\ base \in R /\ step \in [R \X X -> R]
    BY DEF Follows
  <1>1. DOMAIN seq = 1 .. Len(seq) /\ Len(seq) \in Nat /\ \A i \in DOMAIN seq : seq[i] \in X
    BY <1>0
  <1>2. PICK n \in Nat : n = Len(seq)
    BY <1>1
  <1> DEFINE h == [k \in 0 .. n |-> g[1 .. k]]
  <1>3. h[0] = base
    <2>1. 1 .. 0 = {} /\ 0 \in 0 .. n
      BY <1>2
    <2>2. g[{}] = base
      BY DEF Follows
    <2> QED
      BY <2>1, <2>2
  <1>4. ASSUME NEW k \in 1 .. n, h[k - 1] \in R
        PROVE  h[k] = step[<<h[k - 1], seq[k]>>] /\ h[k] \in R
    <2>1. /\ k \in Nat /\ k # 0 /\ k \in 0 .. n /\ k - 1 \in 0 .. n
          /\ 1 .. k \subseteq DOMAIN seq /\ k \in DOMAIN seq
      BY <1>1, <1>2
    <2>2. Max(1 .. k) = k /\ (1 .. k) \ {k} = 1 .. (k - 1) /\ 1 .. k # {}
      BY <2>1, LastOfPlaces
    <2>3. h[k] = g[1 .. k] /\ h[k - 1] = g[1 .. (k - 1)]
      BY <2>1
    <2> HIDE DEF h
    <2>4. g[1 .. k] = step[<<g[(1 .. k) \ {Max(1 .. k)}], seq[Max(1 .. k)]>>]
      BY <1>4, <2>1, <2>2, <2>3 DEF Follows
    <2>5. h[k] = step[<<h[k - 1], seq[k]>>]
      BY <2>2, <2>3, <2>4
    <2>6. <<h[k - 1], seq[k]>> \in R \X X
      BY <1>1, <1>4, <2>1
    <2> QED
      BY <1>0, <2>5, <2>6
  <1>5. \A k \in 0 .. n : h[k] \in R
    <2> DEFINE bad == {k \in 0 .. n : h[k] \notin R}
    <2>1. SUFFICES bad = {}
      OBVIOUS
    <2>2. SUFFICES ASSUME bad # {}  PROVE FALSE
      OBVIOUS
    <2>3. bad \subseteq Nat /\ \A k \in bad : k \in 0 .. n /\ h[k] \notin R
      OBVIOUS
    <2> HIDE DEF bad, h
    <2>4. PICK k \in bad : \A j \in bad : ~(j < k)
      BY <2>2, <2>3, SmallestNumber
    <2>5. k # 0
      BY <1>0, <1>3, <2>3
    <2>6. k \in 1 .. n /\ k - 1 \in 0 .. n /\ k - 1 < k
      BY <1>2, <2>3, <2>5
    <2>7. h[k - 1] \in R
      BY <2>4, <2>6 DEF bad
    <2> QED
      BY <1>4, <2>3, <2>6, <2>7
  <1>6. h \in [0 .. n -> R] /\ n \in 0 .. n /\ h[n] = g[1 .. n]
    BY <1>2, <1>5
  <1>7. \A k \in 1 .. n : k - 1 \in 0 .. n
    BY <1>2
  <1> HIDE DEF h
  <1>8. \A k \in 1 .. n : h[k] = step[<<h[k - 1], seq[k]>>]
    BY <1>4, <1>5, <1>7
  <1>9. g[DOMAIN seq] = h[n]
    BY <1>1, <1>2, <1>6
  <1> QED
    BY <1>2, <1>3, <1>6, <1>8, <1>9 DEF FoldSteps

LEMMA LastPlaceOf ==
    ASSUME NEW seq, NEW X, seq \in Seq(X), NEW s \in SUBSET (DOMAIN seq), s # {}
    PROVE  Max(s) \in DOMAIN seq
  <1>1. DOMAIN seq = 1 .. Len(seq) /\ Len(seq) \in Nat
    OBVIOUS
  <1>2. IsFiniteSet(1 .. Len(seq))
    BY <1>1, FS_Interval
  <1>3. 1 .. Len(seq) \subseteq Nat
    OBVIOUS
  <1> QED
    BY <1>1, <1>2, <1>3, LastPlaces

\* What holds of 0, and of a number when it holds of the one before, holds up to n.
LEMMA CountUp ==
    ASSUME NEW n \in Nat, NEW good, 0 \in good, \A k \in 1 .. n : k - 1 \in good => k \in good
    PROVE  \A k \in 0 .. n : k \in good
  <1> DEFINE bad == {k \in 0 .. n : k \notin good}
  <1>1. SUFFICES ASSUME bad # {}  PROVE FALSE
    OBVIOUS
  <1>2. bad \subseteq Nat
    OBVIOUS
  <1> HIDE DEF bad
  <1>3. PICK k \in bad : \A j \in bad : ~(j < k)
    BY <1>1, <1>2, SmallestNumber
  <1>4. k \in 0 .. n /\ k \notin good /\ k # 0
    BY <1>3 DEF bad
  <1>5. k \in 1 .. n /\ k - 1 \in 0 .. n /\ k - 1 < k
    BY <1>4
  <1>6. k - 1 \in good
    BY <1>3, <1>5 DEF bad
  <1> QED
    BY <1>4, <1>5, <1>6

-----------------------------------------------------------------------------
(* Sorting *)

\* less is a strict order of the elements of S.
Orders(less, S) ==
    /\ \A x \in S : <<x, x>> \notin less
    /\ \A x, y, z \in S : <<x, y>> \in less /\ <<y, z>> \in less => <<x, z>> \in less
    /\ \A x, y \in S : x # y => <<x, y>> \in less \/ <<y, x>> \in less

HasLast(T, less) == \E x \in T : \A y \in T : y = x \/ <<y, x>> \in less

LEMMA LastExists ==
    ASSUME NEW S, IsFiniteSet(S), NEW less, Orders(less, S), S # {}
    PROVE  HasLast(S, less)
  <1> DEFINE good == {T \in SUBSET S : T # {} => HasLast(T, less)}
  <1>1. ASSUME NEW T \in SUBSET S, T # {}, \A t \in SUBSET T : t # T => t \in good
        PROVE  HasLast(T, less)
    <2>1. PICK c \in T : TRUE
      BY <1>1
    <2>2. CASE T \ {c} = {}
      <3>1. T = {c}
        BY <2>1, <2>2
      <3> QED
        BY <3>1 DEF HasLast
    <2>3. CASE T \ {c} # {}
      <3>1. T \ {c} \in good
        BY <1>1, <2>1
      <3>2. HasLast(T \ {c}, less)
        BY <2>3, <3>1
      <3>3. PICK m \in T \ {c} : \A y \in T \ {c} : y = m \/ <<y, m>> \in less
        BY <3>2 DEF HasLast
      <3>4. CASE <<c, m>> \in less
        BY <3>3, <3>4 DEF HasLast
      <3>5. CASE <<m, c>> \in less
        <4>1. \A y \in T : y = c \/ <<y, c>> \in less
          BY <3>3, <3>5 DEF Orders
        <4> QED
          BY <4>1 DEF HasLast
      <3> QED
        BY <3>3, <3>4, <3>5 DEF Orders
    <2> QED
      BY <2>2, <2>3
  <1>2. \A T \in SUBSET S : (\A t \in SUBSET T : t # T => t \in good) => T \in good
    BY <1>1
  <1>3. S \in good
    <2> HIDE DEF good
    <2> QED
      BY <1>2, SubsetInduction
  <1> QED
    BY <1>3

\* t lists the elements of T in their order.
Lists(t, T, less) ==
    /\ t \in [1 .. Cardinality(T) -> T]
    /\ \A x \in T : \E i \in 1 .. Cardinality(T) : t[i] = x
    /\ \A i, j \in 1 .. Cardinality(T) : i < j => <<t[i], t[j]>> \in less

LEMMA ListExists ==
    ASSUME NEW S, IsFiniteSet(S), NEW less, Orders(less, S)
    PROVE  \E t : Lists(t, S, less)
  <1> DEFINE good == {T \in SUBSET S : \E t : Lists(t, T, less)}
  <1>1. ASSUME NEW T \in SUBSET S, \A u \in SUBSET T : u # T => u \in good
        PROVE  \E t : Lists(t, T, less)
    <2>1. CASE T = {}
      <3>1. Cardinality(T) = 0 /\ 1 .. 0 = {}
        BY <2>1, FS_EmptySet
      <3>2. Lists([i \in {} |-> 0], T, less)
        BY <2>1, <3>1 DEF Lists
      <3> QED
        BY <3>2
    <2>2. CASE T # {}
      <3>1. IsFiniteSet(T) /\ Orders(less, T)
        BY FS_Subset DEF Orders
      <3>2. PICK x \in T : \A y \in T : y = x \/ <<y, x>> \in less
        BY <2>2, <3>1, LastExists DEF HasLast
      <3>3. T \ {x} \in good
        BY <1>1, <3>2
      <3>4. PICK r : Lists(r, T \ {x}, less)
        BY <3>3
      <3>5. Cardinality(T \ {x}) \in Nat /\ Cardinality(T) = Cardinality(T \ {x}) + 1
        <4>1. IsFiniteSet(T \ {x}) /\ Cardinality(T \ {x}) = Cardinality(T) - 1
          BY <3>1, <3>2, FS_RemoveElement
        <4>2. Cardinality(T) \in Nat /\ Cardinality(T \ {x}) \in Nat
          BY <3>1, <4>1, FS_CardinalityType
        <4> QED
          BY <4>1, <4>2
      <3>6. PICK n \in Nat : n = Cardinality(T \ {x}) /\ Cardinality(T) = n + 1
        BY <3>5
      <3> DEFINE t == [i \in 1 .. (n + 1) |-> IF i = n + 1 THEN x ELSE r[i]]
      <3>7. /\ r \in [1 .. n -> T \ {x}]
            /\ \A y \in T \ {x} : \E i \in 1 .. n : r[i] = y
            /\ \A i, j \in 1 .. n : i < j => <<r[i], r[j]>> \in less
        BY <3>4, <3>6 DEF Lists
      <3>8. \A i \in 1 .. (n + 1) : i = n + 1 \/ (i \in 1 .. n /\ i # n + 1)
        BY <3>6
      <3>9. n + 1 \in 1 .. (n + 1) /\ \A i \in 1 .. n : i \in 1 .. (n + 1) /\ i # n + 1
        BY <3>6
      <3>10. t[n + 1] = x /\ \A i \in 1 .. n : t[i] = r[i]
        BY <3>9
      <3>11. t \in [1 .. (n + 1) -> T]
        BY <3>2, <3>7, <3>8
      <3> HIDE DEF t
      <3>12. \A y \in T : \E i \in 1 .. (n + 1) : t[i] = y
        BY <3>7, <3>9, <3>10
      <3>13. ASSUME NEW i \in 1 .. (n + 1), NEW j \in 1 .. (n + 1), i < j
             PROVE  <<t[i], t[j]>> \in less
        <4>1. i \in 1 .. n /\ t[i] = r[i] /\ r[i] \in T \ {x}
          <5>1. i \in 1 .. n
            BY <3>6, <3>13
          <5> QED
            BY <3>7, <3>10, <5>1
        <4>2. CASE j = n + 1
          BY <3>2, <3>10, <4>1, <4>2
        <4>3. CASE j \in 1 .. n
          BY <3>7, <3>10, <3>13, <4>1, <4>3
        <4> QED
          BY <3>8, <4>2, <4>3
      <3>14. Lists(t, T, less)
        BY <3>6, <3>11, <3>12, <3>13 DEF Lists
      <3> QED
        BY <3>14
    <2> QED
      BY <2>1, <2>2
  <1>2. \A T \in SUBSET S : (\A u \in SUBSET T : u # T => u \in good) => T \in good
    BY <1>1
  <1>3. S \in good
    <2> HIDE DEF good
    <2> QED
      BY <1>2, SubsetInduction
  <1> QED
    BY <1>3

Listed(t, S, less) ==
    /\ t \in [1 .. Cardinality(S) -> S] /\ {t[i] : i \in DOMAIN t} = S
    /\ \A i, j \in DOMAIN t : i < j => <<t[i], t[j]>> \in less

LEMMA ListedExists ==
    ASSUME NEW S, IsFiniteSet(S), NEW less, Orders(less, S)
    PROVE  \E t : Listed(t, S, less)
  <1>1. PICK l : Lists(l, S, less)
    BY ListExists
  <1>2. l \in [1 .. Cardinality(S) -> S] /\ \A x \in S : \E i \in 1 .. Cardinality(S) : l[i] = x
    BY <1>1 DEF Lists
  <1>3. DOMAIN l = 1 .. Cardinality(S)
    BY <1>2
  <1>4. {l[i] : i \in DOMAIN l} = S
    BY <1>2, <1>3
  <1>5. \A i, j \in DOMAIN l : i < j => <<l[i], l[j]>> \in less
    BY <1>1, <1>3 DEF Lists
  <1> QED
    BY <1>2, <1>4, <1>5 DEF Listed

LEMMA ListedOnce ==
    ASSUME NEW S, IsFiniteSet(S), NEW less, Orders(less, S), NEW t, Listed(t, S, less)
    PROVE  t \in Seq(S) /\ Len(t) = Cardinality(S) /\ \A i, j \in DOMAIN t : t[i] = t[j] => i = j
  <1>1. PICK n \in Nat : n = Cardinality(S)
    BY FS_CardinalityType
  <1>2. t \in [1 .. n -> S]
    BY <1>1 DEF Listed
  <1>3. t \in Seq(S) /\ Len(t) = n /\ DOMAIN t = 1 .. n
    BY <1>1, <1>2
  <1>4. ASSUME NEW i \in DOMAIN t, NEW j \in DOMAIN t, t[i] = t[j]
        PROVE  i = j
    <2>1. t[i] \in S /\ <<t[i], t[i]>> \notin less
      BY <1>2 DEF Orders
    <2>2. ~(i < j) /\ ~(j < i)
      BY <1>4, <2>1 DEF Listed
    <2> QED
      BY <1>3, <2>2
  <1> QED
    BY <1>1, <1>3, <1>4

-----------------------------------------------------------------------------
(* Lists and the number of elements before each                            *)

Counted(S, less) ==
    [k \in 1 .. Cardinality(S) |-> CHOOSE x \in S : Cardinality({y \in S : <<y, x>> \in less}) = k - 1]

\* The k-th element of a list has k - 1 before it.
LEMMA ListedIsCounted ==
    ASSUME NEW S, IsFiniteSet(S), NEW less, Orders(less, S), NEW l, Listed(l, S, less)
    PROVE  Counted(S, less) = l
  <1>2. PICK n \in Nat : n = Cardinality(S)
    BY FS_CardinalityType
  <1>3. /\ l \in [1 .. n -> S] /\ DOMAIN l = 1 .. n /\ \A x \in S : \E i \in 1 .. n : l[i] = x
        /\ \A i, j \in 1 .. n : i < j => <<l[i], l[j]>> \in less
    BY <1>2 DEF Listed
  <1>4. \A i, j \in 1 .. n : <<l[i], l[j]>> \in less => i < j
    <2> SUFFICES ASSUME NEW i \in 1 .. n, NEW j \in 1 .. n, <<l[i], l[j]>> \in less, ~(i < j)
                 PROVE  FALSE
      OBVIOUS
    <2>1. l[i] \in S /\ l[j] \in S
      BY <1>3
    <2>2. CASE i = j
      BY <2>1, <2>2 DEF Orders
    <2>3. CASE j < i
      <3>1. <<l[j], l[i]>> \in less
        BY <1>3, <2>3
      <3>2. <<l[i], l[i]>> \in less
        BY <2>1, <3>1 DEF Orders
      <3> QED
        BY <2>1, <3>2 DEF Orders
    <2> QED
      BY <2>2, <2>3
  <1>5. ASSUME NEW k \in 1 .. n
        PROVE  Cardinality({y \in S : <<y, l[k]>> \in less}) = k - 1
    <2> DEFINE B == {y \in S : <<y, l[k]>> \in less}
               f == [i \in 1 .. (k - 1) |-> l[i]]
    <2>1. \A i \in 1 .. (k - 1) : i \in 1 .. n /\ i < k
      OBVIOUS
    <2>2. \A i \in 1 .. (k - 1) : f[i] = l[i] /\ f[i] \in B
      BY <1>3, <2>1
    <2>3. \A i, j \in 1 .. (k - 1) : f[i] = f[j] => i = j
      <3> SUFFICES ASSUME NEW i \in 1 .. (k - 1), NEW j \in 1 .. (k - 1), f[i] = f[j], i # j  PROVE FALSE
        OBVIOUS
      <3>1. i < j \/ j < i
        OBVIOUS
      <3>2. <<l[i], l[j]>> \in less \/ <<l[j], l[i]>> \in less
        BY <1>3, <2>1, <3>1
      <3>3. l[i] = l[j] /\ l[i] \in S
        BY <1>3, <2>1, <2>2
      <3> QED
        BY <3>2, <3>3 DEF Orders
    <2>4. \A y \in B : \E i \in 1 .. (k - 1) : f[i] = y
      <3> SUFFICES ASSUME NEW y \in B  PROVE \E i \in 1 .. (k - 1) : f[i] = y
        OBVIOUS
      <3>1. PICK i \in 1 .. n : l[i] = y
        BY <1>3
      <3>2. i < k
        BY <1>4, <3>1
      <3>3. i \in 1 .. (k - 1)
        BY <3>2
      <3> QED
        BY <2>2, <3>1, <3>3
    <2>5. f \in Bijection(1 .. (k - 1), B)
      <3>1. f \in [1 .. (k - 1) -> B]
        BY <2>2
      <3> HIDE DEF f, B
      <3> QED
        BY <2>3, <2>4, <3>1 DEF Bijection, Injection, Surjection, IsInjective
    <2>6. ExistsBijection(1 .. (k - 1), B)
      BY <2>5 DEF ExistsBijection
    <2>7. k - 1 \in Nat
      OBVIOUS
    <2> HIDE DEF B, f
    <2>8. Cardinality(B) = k - 1
      BY ONLY <2>6, <2>7, FS_CountingElements
    <2> QED
      BY <2>8 DEF B
  <1>6. ASSUME NEW k \in 1 .. n
        PROVE  (CHOOSE x \in S : Cardinality({y \in S : <<y, x>> \in less}) = k - 1) = l[k]
    <2>1. l[k] \in S /\ Cardinality({y \in S : <<y, l[k]>> \in less}) = k - 1
      BY <1>3, <1>5
    <2>2. ASSUME NEW x \in S, Cardinality({y \in S : <<y, x>> \in less}) = k - 1
          PROVE  x = l[k]
      <3>1. PICK j \in 1 .. n : l[j] = x
        BY <1>3
      <3>2. Cardinality({y \in S : <<y, x>> \in less}) = j - 1
        BY <1>5, <3>1
      <3> QED
        BY <2>2, <3>1, <3>2
    <2> QED
      BY <2>1, <2>2
  <1>7. Counted(S, less) = l
    <2>1. Counted(S, less) = [k \in 1 .. n |-> l[k]]
      BY <1>2, <1>6 DEF Counted
    <2> QED
      BY <1>3, <2>1
  <1> QED
    BY <1>7

LEMMA CountedIsListed ==
    ASSUME NEW S, IsFiniteSet(S), NEW less, Orders(less, S)
    PROVE  Listed(Counted(S, less), S, less)
  BY ListedExists, ListedIsCounted

=============================================================================
