----------------------------- MODULE SumProofs -----------------------------
(***************************************************************************)
(* Theorems of the two components that count: the red packets, whose money *)
(* and shares add up, and the sessions with the login limit, which adds up *)
(* the logins of a window.  For any users, packets, codes and handlers,    *)
(* and any pages, lifetimes and windows.                                   *)
(***************************************************************************)
EXTENDS RedPacket, Gate, TLAPS, FiniteSetTheorems, WellFoundedInduction

-----------------------------------------------------------------------------
(***************************************************************************)
(* Sums over finite sets.                                                  *)
(***************************************************************************)
\* What holds of 0, and of n + 1 when it holds of n, holds of all.
LEMMA Induction ==
    ASSUME NEW T, 0 \in T, \A n \in Nat : n \in T => n + 1 \in T
    PROVE  \A n \in Nat : n \in T
<1> DEFINE R == OpToRel(<, Nat)
           Gap == {n \in Nat : n \notin T}
<1> SUFFICES ASSUME Gap # {} PROVE FALSE
  OBVIOUS
<1>1. \A x, y \in Nat : x < y => <<x, y>> \in R
  BY DEF OpToRel
<1>2. Gap \subseteq Nat /\ IsWellFoundedOn(R, Nat)
  BY NatLessThanWellFounded
<1> HIDE DEF R
<1>3. PICK x \in Gap : \A y \in Gap : ~(<<y, x>> \in R)
  <2> HIDE DEF Gap
  <2>1. QED BY <1>2, WFMin
<1>4. x \in Nat /\ x - 1 \in Nat /\ x - 1 < x /\ (x - 1) + 1 = x
  BY <1>2
<1>5. x - 1 \notin Gap
  <2>1. <<x - 1, x>> \in R
    BY <1>1, <1>4
  <2> HIDE DEF Gap
  <2>2. QED BY <1>3, <2>1
<1>6. x - 1 \in T
  BY <1>4, <1>5
<1>7. x \in T
  BY <1>4, <1>6
<1>8. QED BY <1>7

-----------------------------------------------------------------------------
Pick(s) == CHOOSE x \in s : TRUE

Rest(s) == s \ {Pick(s)}

\* g sums f over the sets of D.
Sums(g, f, D) == g = [s \in D |-> IF s = {} THEN 0 ELSE f[Pick(s)] + g[Rest(s)]]

Small(S, n) == {s \in SUBSET S : Cardinality(s) <= n}

LEMMA SumIsDefined ==
    ASSUME NEW f, NEW S
    PROVE  SumFunctionOnSet(f, S) = (CHOOSE g : Sums(g, f, SUBSET S))[S]
BY DEF SumFunctionOnSet, FoldFunctionOnSet, MapThenFoldSet, Sums, Rest, Pick

LEMMA RestIsSmaller ==
    ASSUME NEW s, IsFiniteSet(s), s # {}
    PROVE  /\ Pick(s) \in s /\ Rest(s) \subseteq s
           /\ IsFiniteSet(Rest(s)) /\ Cardinality(Rest(s)) = Cardinality(s) - 1
           /\ Cardinality(s) \in Nat \ {0}
<1>1. Pick(s) \in s
  BY DEF Pick
<1>2. QED BY <1>1, FS_RemoveElement, FS_CardinalityType, FS_EmptySet DEF Rest

LEMMA SumsExist ==
    ASSUME NEW f, NEW S, IsFiniteSet(S)
    PROVE  \E g : Sums(g, f, SUBSET S)
<1> DEFINE T == {n \in Nat : \E g : Sums(g, f, Small(S, n))}
<1>1. \A s \in SUBSET S : IsFiniteSet(s) /\ Cardinality(s) \in Nat
  BY FS_Subset, FS_CardinalityType
<1>2. 0 \in T
  <2> DEFINE g == [s \in Small(S, 0) |-> 0]
  <2>1. \A s \in Small(S, 0) : s = {}
    BY <1>1, FS_EmptySet DEF Small
  <2>2. Sums(g, f, Small(S, 0))
    BY <2>1 DEF Sums
  <2>3. QED BY <2>2
<1>3. ASSUME NEW n \in Nat, n \in T PROVE n + 1 \in T
  <2>1. PICK g : Sums(g, f, Small(S, n))
    BY <1>3
  <2> DEFINE h == [s \in Small(S, n + 1) |-> IF s = {} THEN 0 ELSE f[Pick(s)] + g[Rest(s)]]
  <2>2. ASSUME NEW s \in Small(S, n + 1), s # {} PROVE g[Rest(s)] = h[Rest(s)]
    <3>1. Rest(s) \in Small(S, n)
      BY <1>1, <2>2, RestIsSmaller DEF Small
    <3>2. Rest(s) \in Small(S, n + 1)
      BY <1>1, <3>1 DEF Small
    <3>3. g[Rest(s)] = IF Rest(s) = {} THEN 0 ELSE f[Pick(Rest(s))] + g[Rest(Rest(s))]
      BY <2>1, <3>1 DEF Sums
    <3>4. QED BY <3>2, <3>3
  <2>3. h = [s \in Small(S, n + 1) |-> IF s = {} THEN 0 ELSE f[Pick(s)] + h[Rest(s)]]
    <3> HIDE DEF h
    <3>1. \A s \in Small(S, n + 1) :
             (IF s = {} THEN 0 ELSE f[Pick(s)] + g[Rest(s)])
             = (IF s = {} THEN 0 ELSE f[Pick(s)] + h[Rest(s)])
      BY <2>2
    <3>2. h = [s \in Small(S, n + 1) |-> IF s = {} THEN 0 ELSE f[Pick(s)] + g[Rest(s)]]
      BY DEF h
    <3>3. QED BY <3>1, <3>2, Zenon
  <2>4. Sums(h, f, Small(S, n + 1))
    BY <2>3 DEF Sums
  <2>5. QED BY <2>4
<1>4. Cardinality(S) \in T
  <2> HIDE DEF T
  <2> QED BY <1>1, <1>2, <1>3, Induction
<1>5. Small(S, Cardinality(S)) = SUBSET S
  BY FS_Subset DEF Small
<1>6. QED BY <1>4, <1>5

\* Two sums of the same function agree where both are defined.
LEMMA SumsAgree ==
    ASSUME NEW f, NEW g, NEW h, NEW S, IsFiniteSet(S), NEW R, R \subseteq S,
           Sums(g, f, SUBSET S), Sums(h, f, SUBSET R)
    PROVE  \A s \in SUBSET R : g[s] = h[s]
<1> DEFINE T == {n \in Nat : \A s \in Small(R, n) : g[s] = h[s]}
<1>1. \A s \in SUBSET S : IsFiniteSet(s) /\ Cardinality(s) \in Nat
  BY FS_Subset, FS_CardinalityType
<1>2. ASSUME NEW s \in SUBSET R
      PROVE  /\ g[s] = IF s = {} THEN 0 ELSE f[Pick(s)] + g[Rest(s)]
             /\ h[s] = IF s = {} THEN 0 ELSE f[Pick(s)] + h[Rest(s)]
  BY DEF Sums
<1>3. 0 \in T
  <2>1. \A s \in Small(R, 0) : s \in SUBSET R /\ s = {}
    BY <1>1, FS_EmptySet DEF Small
  <2>2. QED BY <1>2, <2>1
<1>4. ASSUME NEW n \in Nat, n \in T PROVE n + 1 \in T
  <2> SUFFICES ASSUME NEW s \in Small(R, n + 1), s # {} PROVE g[s] = h[s]
    <3>1. \A s \in Small(R, n + 1) : s = {} => g[s] = h[s]
      BY <1>2 DEF Small
    <3>2. QED BY <3>1
  <2>1. Rest(s) \in Small(R, n)
    BY <1>1, RestIsSmaller DEF Small
  <2>2. g[Rest(s)] = h[Rest(s)]
    BY <1>4, <2>1
  <2>3. QED BY <1>2, <2>2 DEF Small
<1> HIDE DEF T
<1>5. \A n \in Nat : n \in T
  BY <1>3, <1>4, Induction
<1>6. QED
  <2> TAKE s \in SUBSET R
  <2>1. Cardinality(s) \in Nat /\ s \in Small(R, Cardinality(s))
    BY <1>1 DEF Small
  <2>2. QED BY <1>5, <2>1 DEF T

\* A sum is an element and the sum of the rest.
LEMMA SumOfRest ==
    ASSUME NEW f, NEW S, IsFiniteSet(S)
    PROVE  /\ S = {} => SumFunctionOnSet(f, S) = 0
           /\ S # {} => SumFunctionOnSet(f, S) = f[Pick(S)] + SumFunctionOnSet(f, Rest(S))
<1>1. PICK g : Sums(g, f, SUBSET S) /\ SumFunctionOnSet(f, S) = g[S]
  BY SumsExist, SumIsDefined
<1>2. Rest(S) \in SUBSET S /\ IsFiniteSet(Rest(S))
  BY FS_Subset DEF Rest
<1>3. PICK h : Sums(h, f, SUBSET Rest(S)) /\ SumFunctionOnSet(f, Rest(S)) = h[Rest(S)]
  BY <1>2, SumsExist, SumIsDefined
<1>4. g[Rest(S)] = h[Rest(S)]
  <2>1. \A s \in SUBSET Rest(S) : g[s] = h[s]
    <3> HIDE DEF Rest
    <3>1. Sums(g, f, SUBSET S)
      BY <1>1
    <3>2. Sums(h, f, SUBSET Rest(S))
      BY <1>3
    <3>3. ASSUME NEW R \in SUBSET S, Sums(h, f, SUBSET R) PROVE \A s \in SUBSET R : g[s] = h[s]
      BY <3>1, <3>3, SumsAgree
    <3>4. QED BY <1>2, <3>2, <3>3
  <2>2. QED BY <2>1
<1>5. g[S] = IF S = {} THEN 0 ELSE f[Pick(S)] + g[Rest(S)]
  BY <1>1 DEF Sums
<1>6. QED BY <1>1, <1>3, <1>4, <1>5

\* What holds of the empty set, and of a set when it holds of the smaller ones, holds.
LEMMA SetInduction ==
    ASSUME NEW S, IsFiniteSet(S), NEW T, T \subseteq SUBSET S,
           \A s \in SUBSET S :
               (\A r \in SUBSET S : Cardinality(r) < Cardinality(s) => r \in T) => s \in T
    PROVE  S \in T
<1> DEFINE N == {n \in Nat : Small(S, n) \subseteq T}
<1>1. \A s \in SUBSET S : IsFiniteSet(s) /\ Cardinality(s) \in Nat
  BY FS_Subset, FS_CardinalityType
<1>2. 0 \in N
  <2>1. \A s \in Small(S, 0) : s \in SUBSET S /\ \A r \in SUBSET S : ~(Cardinality(r) < Cardinality(s))
    BY <1>1 DEF Small
  <2>2. QED BY <2>1
<1>3. ASSUME NEW n \in Nat, n \in N PROVE n + 1 \in N
  <2>1. ASSUME NEW s \in Small(S, n + 1), NEW r \in SUBSET S, Cardinality(r) < Cardinality(s)
        PROVE  r \in T
    <3>1. r \in Small(S, n)
      BY <1>1, <2>1 DEF Small
    <3>2. QED BY <1>3, <3>1
  <2>2. \A s \in Small(S, n + 1) : s \in T
    BY <2>1 DEF Small
  <2>3. QED BY <2>2
<1> HIDE DEF N
<1>4. Cardinality(S) \in N
  BY <1>1, <1>2, <1>3, Induction
<1>5. S \in Small(S, Cardinality(S))
  BY <1>1 DEF Small
<1>6. QED BY <1>4, <1>5 DEF N

\* A sum of natural numbers is one.
LEMMA SumType ==
    ASSUME NEW f, NEW S, IsFiniteSet(S), \A x \in S : f[x] \in Nat
    PROVE  SumFunctionOnSet(f, S) \in Nat
<1> DEFINE T == {s \in SUBSET S : SumFunctionOnSet(f, s) \in Nat}
<1>1. ASSUME NEW s \in SUBSET S, \A r \in SUBSET S : Cardinality(r) < Cardinality(s) => r \in T
      PROVE  s \in T
  <2>1. IsFiniteSet(s)
    BY FS_Subset
  <2>2. CASE s = {}
    BY <2>1, <2>2, SumOfRest
  <2>3. CASE s # {}
    <3>1. Pick(s) \in s /\ Rest(s) \in SUBSET S /\ Cardinality(Rest(s)) < Cardinality(s)
      BY <2>1, <2>3, RestIsSmaller
    <3>2. SumFunctionOnSet(f, Rest(s)) \in Nat /\ f[Pick(s)] \in Nat
      BY <1>1, <3>1
    <3>3. SumFunctionOnSet(f, s) = f[Pick(s)] + SumFunctionOnSet(f, Rest(s))
      BY <2>1, <2>3, SumOfRest
    <3>4. QED BY <3>2, <3>3
  <2>4. QED BY <2>2, <2>3
<1> HIDE DEF T
<1>2. T \subseteq SUBSET S
  BY DEF T
<1>3. S \in T
  BY <1>1, <1>2, SetInduction
<1>4. QED BY <1>3 DEF T

\* Any element may be taken out first.
LEMMA SumOfOthers ==
    ASSUME NEW f, NEW S, IsFiniteSet(S), \A y \in S : f[y] \in Nat, NEW x \in S
    PROVE  /\ SumFunctionOnSet(f, S) = f[x] + SumFunctionOnSet(f, S \ {x})
           /\ SumFunctionOnSet(f, S \ {x}) \in Nat
<1> DEFINE T == {s \in SUBSET S : \A y \in s :
                    SumFunctionOnSet(f, s) = f[y] + SumFunctionOnSet(f, s \ {y})}
<1>1. ASSUME NEW r \in SUBSET S PROVE IsFiniteSet(r) /\ SumFunctionOnSet(f, r) \in Nat
  BY FS_Subset, SumType
<1>2. ASSUME NEW s \in SUBSET S, \A r \in SUBSET S : Cardinality(r) < Cardinality(s) => r \in T
      PROVE  s \in T
  <2> SUFFICES ASSUME NEW y \in s
               PROVE  SumFunctionOnSet(f, s) = f[y] + SumFunctionOnSet(f, s \ {y})
    OBVIOUS
  <2> DEFINE p == Pick(s)
             q == Rest(s)
  <2>1. IsFiniteSet(s) /\ s # {}
    BY <1>1
  <2>2. /\ p \in s /\ q \in SUBSET S /\ q = s \ {p}
        /\ Cardinality(q) < Cardinality(s)
    BY <2>1, RestIsSmaller DEF Rest
  <2>3. SumFunctionOnSet(f, s) = f[p] + SumFunctionOnSet(f, q)
    BY <2>1, SumOfRest
  <2> HIDE DEF p, q
  <2>4. CASE y = p
    BY <2>2, <2>3, <2>4
  <2>5. CASE y # p
    <3>1. q \in T /\ y \in q
      BY <1>2, <2>2, <2>5
    <3>2. SumFunctionOnSet(f, q) = f[y] + SumFunctionOnSet(f, q \ {y})
      BY <3>1
    <3>3. s \ {y} \in SUBSET S /\ Cardinality(s \ {y}) < Cardinality(s)
      <4>1. Cardinality(s) \in Nat /\ Cardinality(s \ {y}) = Cardinality(s) - 1
        BY <2>1, FS_RemoveElement, FS_CardinalityType
      <4>2. QED BY <4>1
    <3>4. p \in s \ {y} /\ q \ {y} = (s \ {y}) \ {p}
      BY <2>2, <2>5
    <3>5. s \ {y} \in T
      BY <1>2, <3>3
    <3>6. SumFunctionOnSet(f, s \ {y}) = f[p] + SumFunctionOnSet(f, q \ {y})
      BY <3>4, <3>5
    <3>7. f[p] \in Nat /\ f[y] \in Nat /\ SumFunctionOnSet(f, q \ {y}) \in Nat
      <4>1. q \ {y} \in SUBSET S
        BY <2>2
      <4>2. QED BY <1>1, <2>2, <4>1
    <3>8. QED BY <2>3, <3>2, <3>6, <3>7
  <2>6. QED BY <2>4, <2>5
<1>3. T \subseteq SUBSET S
  OBVIOUS
<1> HIDE DEF T
<1>4. S \in T
  BY <1>2, <1>3, SetInduction
<1>5. S \ {x} \in SUBSET S
  OBVIOUS
<1>6. QED BY <1>1, <1>4, <1>5 DEF T

\* A sum depends on the values of its elements only.
LEMMA SumOfSame ==
    ASSUME NEW f, NEW g, NEW S, IsFiniteSet(S), \A x \in S : f[x] = g[x]
    PROVE  SumFunctionOnSet(f, S) = SumFunctionOnSet(g, S)
<1> DEFINE T == {s \in SUBSET S : SumFunctionOnSet(f, s) = SumFunctionOnSet(g, s)}
<1>1. ASSUME NEW s \in SUBSET S, \A r \in SUBSET S : Cardinality(r) < Cardinality(s) => r \in T
      PROVE  s \in T
  <2>1. IsFiniteSet(s)
    BY FS_Subset
  <2>2. CASE s = {}
    BY <2>1, <2>2, SumOfRest
  <2>3. CASE s # {}
    <3>1. Pick(s) \in s /\ Rest(s) \in SUBSET S /\ Cardinality(Rest(s)) < Cardinality(s)
      BY <2>1, <2>3, RestIsSmaller
    <3>2. SumFunctionOnSet(f, Rest(s)) = SumFunctionOnSet(g, Rest(s)) /\ f[Pick(s)] = g[Pick(s)]
      BY <1>1, <3>1
    <3>3. /\ SumFunctionOnSet(f, s) = f[Pick(s)] + SumFunctionOnSet(f, Rest(s))
          /\ SumFunctionOnSet(g, s) = g[Pick(s)] + SumFunctionOnSet(g, Rest(s))
      BY <2>1, <2>3, SumOfRest
    <3>4. QED BY <3>2, <3>3
  <2>4. QED BY <2>2, <2>3
<1> HIDE DEF T
<1>2. T \subseteq SUBSET S
  BY DEF T
<1>3. S \in T
  BY <1>1, <1>2, SetInduction
<1>4. QED BY <1>3 DEF T

LEMMA SumOfZeroes ==
    ASSUME NEW f, NEW S, IsFiniteSet(S), \A x \in S : f[x] = 0
    PROVE  SumFunctionOnSet(f, S) = 0
<1> DEFINE T == {s \in SUBSET S : SumFunctionOnSet(f, s) = 0}
<1>1. ASSUME NEW s \in SUBSET S, \A r \in SUBSET S : Cardinality(r) < Cardinality(s) => r \in T
      PROVE  s \in T
  <2>1. IsFiniteSet(s)
    BY FS_Subset
  <2>2. CASE s = {}
    BY <2>1, <2>2, SumOfRest
  <2>3. CASE s # {}
    <3>1. Pick(s) \in s /\ Rest(s) \in SUBSET S /\ Cardinality(Rest(s)) < Cardinality(s)
      BY <2>1, <2>3, RestIsSmaller
    <3>2. SumFunctionOnSet(f, Rest(s)) = 0 /\ f[Pick(s)] = 0
      BY <1>1, <3>1
    <3>3. SumFunctionOnSet(f, s) = f[Pick(s)] + SumFunctionOnSet(f, Rest(s))
      BY <2>1, <2>3, SumOfRest
    <3>4. QED BY <3>2, <3>3
  <2>4. QED BY <2>2, <2>3
<1> HIDE DEF T
<1>2. T \subseteq SUBSET S
  BY DEF T
<1>3. S \in T
  BY <1>1, <1>2, SetInduction
<1>4. QED BY <1>3 DEF T

\* One value changes, and the sum by the difference.
LEMMA SumAfterChange ==
    ASSUME NEW f, NEW g, NEW S, IsFiniteSet(S), NEW x \in S,
           \A y \in S : f[y] \in Nat /\ g[y] \in Nat,
           \A y \in S \ {x} : f[y] = g[y]
    PROVE  SumFunctionOnSet(g, S) = SumFunctionOnSet(f, S) - f[x] + g[x]
<1>1. IsFiniteSet(S \ {x})
  BY FS_RemoveElement
<1>2. SumFunctionOnSet(f, S \ {x}) = SumFunctionOnSet(g, S \ {x})
  BY <1>1, SumOfSame
<1>3. /\ SumFunctionOnSet(f, S) = f[x] + SumFunctionOnSet(f, S \ {x})
      /\ SumFunctionOnSet(g, S) = g[x] + SumFunctionOnSet(g, S \ {x})
      /\ SumFunctionOnSet(f, S \ {x}) \in Nat
      /\ f[x] \in Nat /\ g[x] \in Nat
  BY SumOfOthers
<1>4. QED BY <1>2, <1>3

\* Sums of intervals: an interval is its parts, and moves with the values.
LEMMA Intervals == \A i, j \in Int : IsFiniteSet(i..j)
BY FS_Interval

LEMMA IntervalLast ==
    ASSUME NEW f, NEW a \in Int, NEW b \in Int, a <= b, \A i \in a..b : f[i] \in Nat
    PROVE  SumFunctionOnSet(f, a..b) = f[b] + SumFunctionOnSet(f, a..b - 1)
<1>1. b \in a..b /\ (a..b) \ {b} = a..b - 1 /\ IsFiniteSet(a..b)
  BY Intervals
<1>2. QED BY <1>1, SumOfOthers

LEMMA IntervalSplit ==
    ASSUME NEW f, NEW a \in Int, NEW b \in Int, NEW m \in Int, a - 1 <= m, m <= b,
           \A i \in a..b : f[i] \in Nat
    PROVE  /\ SumFunctionOnSet(f, a..b) = SumFunctionOnSet(f, a..m) + SumFunctionOnSet(f, m + 1..b)
           /\ SumFunctionOnSet(f, a..m) \in Nat /\ SumFunctionOnSet(f, m + 1..b) \in Nat
<1> DEFINE T == {n \in Nat : m + n <= b => SumFunctionOnSet(f, a..m + n)
                     = SumFunctionOnSet(f, a..m) + SumFunctionOnSet(f, m + 1..m + n)}
<1>1. ASSUME NEW i \in Int, NEW j \in Int, a <= i, j <= b
      PROVE  IsFiniteSet(i..j) /\ SumFunctionOnSet(f, i..j) \in Nat
  <2>1. IsFiniteSet(i..j) /\ \A k \in i..j : f[k] \in Nat
    BY <1>1, FS_Interval
  <2>2. QED BY <2>1, SumType
<1>2. 0 \in T
  <2>1. m + 1..m + 0 = {} /\ m + 0 = m
    OBVIOUS
  <2>2. SumFunctionOnSet(f, m + 1..m + 0) = 0
    BY <2>1, FS_EmptySet, SumOfRest
  <2>3. SumFunctionOnSet(f, a..m) \in Nat
    BY <1>1
  <2>4. QED BY <2>1, <2>2, <2>3
<1>3. ASSUME NEW n \in Nat, n \in T PROVE n + 1 \in T
  <2> SUFFICES ASSUME m + (n + 1) <= b
               PROVE  SumFunctionOnSet(f, a..m + (n + 1))
                          = SumFunctionOnSet(f, a..m) + SumFunctionOnSet(f, m + 1..m + (n + 1))
    OBVIOUS
  <2> DEFINE x == m + (n + 1)
  <2>1. x \in Int /\ x <= b /\ a <= x /\ m + 1 <= x /\ m + 1 \in Int /\ x - 1 = m + n
    OBVIOUS
  <2> HIDE DEF x
  <2>2. /\ \A i \in a..x : f[i] \in Nat
        /\ \A i \in m + 1..x : f[i] \in Nat
    BY <2>1
  <2>3. f[x] \in Nat
    BY <2>1
  <2>4. /\ SumFunctionOnSet(f, a..x) = f[x] + SumFunctionOnSet(f, a..m + n)
        /\ SumFunctionOnSet(f, m + 1..x) = f[x] + SumFunctionOnSet(f, m + 1..m + n)
    <3>1. SumFunctionOnSet(f, a..x) = f[x] + SumFunctionOnSet(f, a..x - 1)
      BY <2>1, <2>2, IntervalLast
    <3>2. SumFunctionOnSet(f, m + 1..x) = f[x] + SumFunctionOnSet(f, m + 1..x - 1)
      BY <2>1, <2>2, IntervalLast
    <3>3. QED BY <2>1, <3>1, <3>2
  <2>5. SumFunctionOnSet(f, a..m + n) = SumFunctionOnSet(f, a..m) + SumFunctionOnSet(f, m + 1..m + n)
    BY <1>3
  <2>6. /\ f[x] \in Nat /\ SumFunctionOnSet(f, a..m) \in Nat
        /\ SumFunctionOnSet(f, m + 1..m + n) \in Nat
    <3>1. m + n \in Int /\ m + n <= b /\ a <= m + 1
      OBVIOUS
    <3>2. QED BY <1>1, <2>1, <2>3, <3>1
  <2>7. SumFunctionOnSet(f, a..x) = SumFunctionOnSet(f, a..m) + SumFunctionOnSet(f, m + 1..x)
    BY <2>4, <2>5, <2>6
  <2>8. QED BY <2>7 DEF x
<1> HIDE DEF T
<1>4. b - m \in Nat /\ m + (b - m) = b
  OBVIOUS
<1>5. b - m \in T
  BY <1>2, <1>3, <1>4, Induction
<1>6. a <= m + 1
  OBVIOUS
<1>7. SumFunctionOnSet(f, a..m) \in Nat /\ SumFunctionOnSet(f, m + 1..b) \in Nat
  BY <1>1, <1>6
<1>8. QED BY <1>4, <1>5, <1>7 DEF T

LEMMA IntervalShift ==
    ASSUME NEW f, NEW g, NEW a \in Int, NEW b \in Int, a - 1 <= b,
           \A i \in a..b : f[i] \in Nat /\ g[i + 1] = f[i]
    PROVE  SumFunctionOnSet(g, a + 1..b + 1) = SumFunctionOnSet(f, a..b)
<1> DEFINE T == {n \in Nat : a + n <= b + 1 =>
                    SumFunctionOnSet(g, a + 1..a + n) = SumFunctionOnSet(f, a..a + n - 1)}
<1>1. 0 \in T
  <2>1. a + 1..a + 0 = {} /\ a..a + 0 - 1 = {}
    OBVIOUS
  <2>2. QED BY <2>1, FS_EmptySet, SumOfRest
<1>2. ASSUME NEW n \in Nat, n \in T PROVE n + 1 \in T
  <2> SUFFICES ASSUME a + (n + 1) <= b + 1
               PROVE  SumFunctionOnSet(g, a + 1..a + (n + 1)) = SumFunctionOnSet(f, a..a + (n + 1) - 1)
    OBVIOUS
  <2> DEFINE x == a + n
  <2>1. x \in Int /\ a <= x /\ x + 1 \in Int /\ a + 1 \in Int /\ a + 1 <= x + 1 /\ x <= b
    OBVIOUS
  <2>2. \A i \in a..x : f[i] \in Nat
    BY <2>1
  <2>3. \A i \in a + 1..x + 1 : g[i] \in Nat
    <3> TAKE i \in a + 1..x + 1
    <3>1. i - 1 \in a..b /\ (i - 1) + 1 = i
      BY <2>1
    <3>2. f[i - 1] \in Nat /\ g[(i - 1) + 1] = f[i - 1]
      BY <3>1
    <3>3. QED BY <3>1, <3>2
  <2>4. f[x] \in Nat /\ g[x + 1] = f[x]
    BY <2>1
  <2>5. SumFunctionOnSet(g, a + 1..x) = SumFunctionOnSet(f, a..x - 1)
    BY <1>2
  <2> HIDE DEF x
  <2>6. SumFunctionOnSet(f, a..x) = f[x] + SumFunctionOnSet(f, a..x - 1)
    BY <2>1, <2>2, IntervalLast
  <2>7. SumFunctionOnSet(g, a + 1..x + 1) = g[x + 1] + SumFunctionOnSet(g, a + 1..x)
    <3>1. SumFunctionOnSet(g, a + 1..x + 1) = g[x + 1] + SumFunctionOnSet(g, a + 1..(x + 1) - 1)
      BY <2>1, <2>3, IntervalLast
    <3>2. (x + 1) - 1 = x
      BY <2>1
    <3>3. QED BY <3>1, <3>2
  <2>8. SumFunctionOnSet(g, a + 1..x + 1) = SumFunctionOnSet(f, a..x)
    BY <2>4, <2>5, <2>6, <2>7
  <2>9. a + (n + 1) = x + 1 /\ a + (n + 1) - 1 = x
    BY DEF x
  <2>10. QED BY <2>8, <2>9
<1> HIDE DEF T
<1>3. b - a + 1 \in Nat /\ a + (b - a + 1) = b + 1 /\ a + (b - a + 1) - 1 = b
  OBVIOUS
<1>4. b - a + 1 \in T
  BY <1>1, <1>2, <1>3, Induction
<1>5. QED BY <1>3, <1>4 DEF T

-----------------------------------------------------------------------------
(***************************************************************************)
(* What a draw may return.                                                 *)
(***************************************************************************)

\* A quotient of at least one leaves one for each of the others.
LEMMA QuotientLeavesOneEach ==
    ASSUME NEW n \in Nat, NEW k \in Nat, k >= 2, n >= k
    PROVE  /\ n \div k \in Nat /\ n \div k >= 1
           /\ n \div k <= n - (k - 1)
<1> DEFINE q == n \div k
<1>1. q \in Nat /\ k * q <= n
  OBVIOUS
<1>2. q >= 1
  OBVIOUS
<1>3. (k - 1) * (q - 1) >= 0
  BY <1>1, <1>2
<1>4. (k - 1) * (q - 1) = k * q - k - q + 1
  BY <1>1
<1>5. QED BY <1>1, <1>2, <1>3, <1>4

\* A draw takes at least one fen, leaves one for each other share, and the last takes all.
LEMMA DrawIsCovered ==
    ASSUME NEW n \in Nat, NEW k \in Nat, k >= 1, n >= k, NEW lucky \in BOOLEAN,
           NEW amount \in randomGrabAmount(n, k, lucky)
    PROVE  /\ amount \in Nat /\ amount >= 1
           /\ amount <= n - (k - 1)
           /\ k = 1 => amount = n
<1>1. CASE k = 1
  BY <1>1 DEF randomGrabAmount
<1>2. CASE k >= 2 /\ ~lucky
  BY <1>2, QuotientLeavesOneEach DEF randomGrabAmount
<1>3. CASE k >= 2 /\ lucky
  <2> DEFINE average == IF n \div k < 1 THEN 1 ELSE n \div k
             maxGrab == Lesser(2 * average, n - (k - 1))
  <2>1. average \in Nat /\ average >= 1
    BY <1>3, QuotientLeavesOneEach
  <2>2. amount \in (IF maxGrab <= 1 THEN {1} ELSE 1..maxGrab)
    BY <1>3 DEF randomGrabAmount
  <2> HIDE DEF average
  <2>3. maxGrab \in Int /\ maxGrab <= n - (k - 1)
    BY <2>1 DEF Lesser
  <2> HIDE DEF maxGrab
  <2>4. QED BY <1>3, <2>2, <2>3
<1>4. QED BY <1>1, <1>2, <1>3

-----------------------------------------------------------------------------
(***************************************************************************)
(* The inductive invariant.  EveryShareIsCovered is not inductive: that a  *)
(* commit leaves enough depends on an amount drawn earlier, and is true    *)
(* because the row lock keeps the packet as it was when it was drawn.      *)
(***************************************************************************)
PaysForEachShare ==
    \A r \in Requests :
        request[r].phase = "paying" => request[r].count <= request[r].amount

LockKeepsTheDraw ==
    \A r \in Requests : request[r].phase = "granting" =>
        LET row == packet[request[r].packet] IN
            /\ rowLock[request[r].packet] = r
            /\ row.status = "open"
            /\ row.shares >= 1
            /\ request[r].amount >= 1
            /\ request[r].amount <= row.left - (row.shares - 1)
            /\ row.shares = 1 => request[r].amount = row.left

IndInv == TypeOK /\ PaysForEachShare /\ LockKeepsTheDraw /\ EveryShareIsCovered

LEMMA IndInvInit == Init => IndInv
<1> SUFFICES ASSUME Init PROVE IndInv
  OBVIOUS
<1>1. TypeOK
  BY RedPacketAssumption DEF Init, TypeOK, Request, PacketRow, NoPacket
<1>2. PaysForEachShare /\ LockKeepsTheDraw
  BY DEF Init, Idle, PaysForEachShare, LockKeepsTheDraw
<1>3. EveryShareIsCovered
  BY DEF Init, EveryShareIsCovered, OpenPackets, NoPacket
<1>4. QED BY <1>1, <1>2, <1>3 DEF IndInv

\* A step of a request that leaves the packets alone, and does not grant.
LEMMA OnlyTheRequestMoves ==
    ASSUME IndInv, NEW r \in Requests, NEW q \in Request,
           q.phase # "granting",
           q.phase = "paying" => q.count <= q.amount,
           Becomes(r, q),
           UNCHANGED packet,
           \A s \in Requests \ {r} : request[s].phase = "granting" =>
               rowLock'[request[s].packet] = rowLock[request[s].packet]
    PROVE  PaysForEachShare' /\ LockKeepsTheDraw' /\ EveryShareIsCovered'
<1>1. request' = [request EXCEPT ![r] = q] /\ request \in [Requests -> Request]
  BY DEF Becomes, IndInv, TypeOK
<1>2. PaysForEachShare'
  BY <1>1 DEF IndInv, PaysForEachShare
<1>3. LockKeepsTheDraw'
  BY <1>1 DEF IndInv, LockKeepsTheDraw
<1>4. EveryShareIsCovered'
  BY DEF IndInv, EveryShareIsCovered, OpenPackets
<1>5. QED BY <1>2, <1>3, <1>4

\* The requests in a phase are records of that phase.
LEMMA PhaseShapes ==
    ASSUME TypeOK, NEW r \in Requests
    PROVE  /\ request[r].phase = "paying" =>
                 /\ request[r].user \in Users
                 /\ request[r].amount \in Nat \ {0} /\ request[r].count \in Nat \ {0}
                 /\ request[r].lucky \in BOOLEAN
           /\ request[r].phase \in {"announcing", "grabbing", "granting"} =>
                 request[r].user \in Users /\ request[r].packet \in Packets
           /\ request[r].phase = "granting" => request[r].amount \in Nat
<1>1. request[r] \in Request
  BY DEF TypeOK
<1>2. QED BY <1>1 DEF Request, Idle

\* A step of a request that leaves the packets alone keeps the types.
LEMMA OnlyTheRequestKeepsTypes ==
    ASSUME TypeOK, NEW r \in Requests, NEW q \in Request, Becomes(r, q),
           UNCHANGED <<balance, usedBy, packet, receipt, groupVars>>,
           rowLock' \in [Packets -> Requests \cup {NoRequest}]
    PROVE  TypeOK'
BY DEF TypeOK, Becomes, groupVars

LEMMA IdleIsARequest == Idle \in Request /\ Idle.phase = "idle"
BY DEF Request, Idle

\* Anything that ends a request without touching the packets.
LEMMA FinishKeeps ==
    ASSUME IndInv, NEW r \in Requests, Finish(r),
           UNCHANGED <<moneyVars, rowLock, groupVars>>
    PROVE  IndInv'
<1>1. TypeOK'
  BY IdleIsARequest, OnlyTheRequestKeepsTypes DEF IndInv, TypeOK, Finish, moneyVars
<1>2. PaysForEachShare' /\ LockKeepsTheDraw' /\ EveryShareIsCovered'
  <2>1. UNCHANGED <<packet, rowLock>>
    BY DEF moneyVars
  <2>2. QED BY <2>1, IdleIsARequest, OnlyTheRequestMoves DEF Finish
<1>3. QED BY <1>1, <1>2 DEF IndInv

\* Steps that leave requests, packets and locks alone.
LEMMA ElsewhereKeeps ==
    ASSUME IndInv, TypeOK', UNCHANGED <<packet, rowLock, request>>
    PROVE  IndInv'
BY DEF IndInv, PaysForEachShare, LockKeepsTheDraw, EveryShareIsCovered, OpenPackets

LEMMA SendGroupPacketKeeps ==
    ASSUME IndInv, NEW r \in Requests, NEW u \in Users, NEW a \in Amounts, NEW n \in Counts,
           NEW lucky \in BOOLEAN, SendGroupPacket(r, u, a, n, lucky)
    PROVE  IndInv'
<1> DEFINE q == [phase |-> "paying", user |-> u, amount |-> a, count |-> n, lucky |-> lucky]
<1>1. a \in Nat \ {0} /\ n \in Nat \ {0} /\ n <= a
  <2>1. a > 0 /\ n > 0 /\ n <= a
    BY DEF SendGroupPacket
  <2>2. a \in Nat /\ n \in Nat
    BY RedPacketAssumption DEF RedPacketAssumption
  <2>3. QED BY <2>1, <2>2
<1>2. q \in Request /\ q.phase = "paying" /\ q.count <= q.amount
  BY <1>1 DEF Request
<1>3. Becomes(r, q) /\ UNCHANGED <<moneyVars, rowLock, groupVars, lost>>
  BY DEF SendGroupPacket
<1> HIDE DEF q
<1>4. TypeOK'
  BY <1>2, <1>3, OnlyTheRequestKeepsTypes DEF IndInv, TypeOK, moneyVars
<1>5. UNCHANGED <<packet, rowLock>>
  BY <1>3 DEF moneyVars
<1>6. PaysForEachShare' /\ LockKeepsTheDraw' /\ EveryShareIsCovered'
  BY <1>2, <1>3, <1>5, OnlyTheRequestMoves
<1>7. QED BY <1>4, <1>6 DEF IndInv

LEMMA CreatePacketKeeps ==
    ASSUME IndInv, NEW r \in Requests, NEW p \in Packets, CreatePacket(r, p)
    PROVE  IndInv'
<1> DEFINE old == request[r]
           q == [phase |-> "announcing", user |-> old.user, packet |-> p]
           row == [status |-> "open", total |-> old.amount, count |-> old.count,
                   left |-> old.amount, shares |-> old.count, lucky |-> old.lucky]
<1>1. /\ old.user \in Users
      /\ old.amount \in Nat \ {0} /\ old.count \in Nat \ {0} /\ old.lucky \in BOOLEAN
      /\ old.count <= old.amount
  BY PhaseShapes DEF IndInv, PaysForEachShare, CreatePacket
<1>2. q \in Request /\ row \in PacketRow
  BY <1>1 DEF Request, PacketRow
<1>3. /\ request' = [request EXCEPT ![r] = q]
      /\ packet' = [packet EXCEPT ![p] = row]
      /\ balance' = [balance EXCEPT ![old.user] = @ - old.amount]
      /\ balance[old.user] >= old.amount
      /\ packet[p].status = "none"
      /\ UNCHANGED <<usedBy, receipt, rowLock, groupVars, lost>>
  BY DEF CreatePacket, Becomes
<1>4. balance' \in [Users -> Nat]
  BY <1>1, <1>3 DEF IndInv, TypeOK
<1>5. TypeOK'
  BY <1>2, <1>3, <1>4 DEF IndInv, TypeOK, groupVars
<1>6. PaysForEachShare'
  BY <1>3 DEF IndInv, TypeOK, PaysForEachShare
<1>7. LockKeepsTheDraw'
  BY <1>3, PhaseShapes DEF IndInv, TypeOK, LockKeepsTheDraw
<1>8. EveryShareIsCovered'
  BY <1>1, <1>3 DEF IndInv, TypeOK, EveryShareIsCovered, OpenPackets
<1>9. QED BY <1>5, <1>6, <1>7, <1>8 DEF IndInv

LEMMA CheckGrabKeeps ==
    ASSUME IndInv, NEW r \in Requests, NEW u \in Users, NEW p \in Packets, CheckGrab(r, u, p)
    PROVE  IndInv'
<1> DEFINE q == [phase |-> "grabbing", user |-> u, packet |-> p]
<1>1. q \in Request /\ q.phase = "grabbing"
  BY DEF Request
<1>2. Becomes(r, q) /\ UNCHANGED <<moneyVars, rowLock, groupVars, lost>>
  BY DEF CheckGrab
<1> HIDE DEF q
<1>3. TypeOK'
  BY <1>1, <1>2, OnlyTheRequestKeepsTypes DEF IndInv, TypeOK, moneyVars
<1>4. UNCHANGED <<packet, rowLock>>
  BY <1>2 DEF moneyVars
<1>5. PaysForEachShare' /\ LockKeepsTheDraw' /\ EveryShareIsCovered'
  BY <1>1, <1>2, <1>4, OnlyTheRequestMoves
<1>6. QED BY <1>3, <1>5 DEF IndInv

LEMMA LockPacketKeeps ==
    ASSUME IndInv, NEW r \in Requests, LockPacket(r)
    PROVE  IndInv'
<1> DEFINE u == request[r].user
           p == request[r].packet
           row == packet[p]
<1>1. u \in Users /\ p \in Packets /\ row \in PacketRow
  BY PhaseShapes DEF IndInv, TypeOK, LockPacket
<1>2. PICK amount \in randomGrabAmount(row.left, row.shares, row.lucky) :
          Becomes(r, [phase |-> "granting", user |-> u, packet |-> p, amount |-> amount])
  BY DEF LockPacket
<1>3. /\ rowLock[p] = NoRequest /\ row.status = "open" /\ row.shares > 0
      /\ rowLock' = [rowLock EXCEPT ![p] = r]
      /\ UNCHANGED <<moneyVars, groupVars, lost>>
  BY DEF LockPacket
<1>4. /\ row.left \in Nat /\ row.shares \in Nat /\ row.lucky \in BOOLEAN
      /\ row.shares >= 1 /\ row.left >= row.shares
  BY <1>1, <1>3 DEF IndInv, EveryShareIsCovered, OpenPackets, PacketRow
<1>5. /\ amount \in Nat /\ amount >= 1
      /\ amount <= row.left - (row.shares - 1)
      /\ row.shares = 1 => amount = row.left
  BY <1>2, <1>4, DrawIsCovered
<1> DEFINE q == [phase |-> "granting", user |-> u, packet |-> p, amount |-> amount]
<1>6. q \in Request
  BY <1>1, <1>5 DEF Request
<1>7. TypeOK'
  <2>1. rowLock' \in [Packets -> Requests \cup {NoRequest}]
    BY <1>3 DEF IndInv, TypeOK
  <2>2. QED BY <1>2, <1>3, <1>6, <2>1, OnlyTheRequestKeepsTypes DEF IndInv, TypeOK, moneyVars
<1>8. request' = [request EXCEPT ![r] = q] /\ packet' = packet
  BY <1>2, <1>3 DEF Becomes, moneyVars
<1>9. PaysForEachShare'
  BY <1>8 DEF IndInv, TypeOK, PaysForEachShare
<1>10. LockKeepsTheDraw'
  <2> SUFFICES ASSUME NEW s \in Requests, request'[s].phase = "granting"
               PROVE  LET its == packet'[request'[s].packet] IN
                        /\ rowLock'[request'[s].packet] = s
                        /\ its.status = "open"
                        /\ its.shares >= 1
                        /\ request'[s].amount >= 1
                        /\ request'[s].amount <= its.left - (its.shares - 1)
                        /\ its.shares = 1 => request'[s].amount = its.left
    BY DEF LockKeepsTheDraw
  <2>1. CASE s = r
    BY <1>1, <1>3, <1>4, <1>5, <1>8, <2>1 DEF IndInv, TypeOK
  <2>2. CASE s # r
    <3>1. request'[s] = request[s]
      BY <1>8, <2>2 DEF IndInv, TypeOK
    <3>2. request[s].packet # p
      BY <1>3, <3>1, RedPacketAssumption DEF IndInv, LockKeepsTheDraw, RedPacketAssumption
    <3>3. rowLock'[request[s].packet] = rowLock[request[s].packet]
      BY <1>3, <3>2, <3>1, PhaseShapes DEF IndInv, TypeOK
    <3>4. QED BY <1>8, <3>1, <3>3 DEF IndInv, LockKeepsTheDraw
  <2>3. QED BY <2>1, <2>2
<1>11. EveryShareIsCovered'
  BY <1>8 DEF IndInv, EveryShareIsCovered, OpenPackets
<1>12. QED BY <1>7, <1>9, <1>10, <1>11 DEF IndInv

\* The commit takes the amount that was drawn, from the packet it was drawn from.
LEMMA CommitGrabKeeps ==
    ASSUME IndInv, NEW r \in Requests, CommitGrab(r)
    PROVE  IndInv'
<1> DEFINE u == request[r].user
           p == request[r].packet
           row == packet[p]
           amount == request[r].amount
           new == [row EXCEPT !.left = @ - amount, !.shares = @ - 1]
<1>1. /\ request[r].phase = "granting"
      /\ packet' = [packet EXCEPT ![p].left = @ - amount, ![p].shares = @ - 1]
      /\ receipt' = [receipt EXCEPT ![p][u] = amount]
      /\ balance' = [balance EXCEPT ![u] = @ + amount]
      /\ rowLock' = [rowLock EXCEPT ![p] = NoRequest]
      /\ request' = [request EXCEPT ![r] = Idle]
      /\ UNCHANGED <<usedBy, groupVars, lost>>
  BY DEF CommitGrab, Unlock, Finish, Becomes
<1>2. u \in Users /\ p \in Packets /\ row \in PacketRow /\ amount \in Nat
  BY <1>1, PhaseShapes DEF IndInv, TypeOK
<1>3. /\ rowLock[p] = r /\ row.status = "open" /\ row.shares >= 1
      /\ amount >= 1 /\ amount <= row.left - (row.shares - 1)
      /\ row.shares = 1 => amount = row.left
  BY <1>1 DEF IndInv, LockKeepsTheDraw
<1>4. row.left \in Nat /\ row.shares \in Nat
  BY <1>2 DEF PacketRow
<1>5. /\ packet' = [packet EXCEPT ![p] = new]
      /\ new.left = row.left - amount /\ new.shares = row.shares - 1 /\ new.status = "open"
      /\ new \in PacketRow
  <2>1. row.left - amount \in Nat /\ row.shares - 1 \in Nat
    BY <1>2, <1>3, <1>4
  <2>2. packet' = [packet EXCEPT ![p] = new]
    BY <1>1, <1>2 DEF IndInv, TypeOK, PacketRow
  <2>3. QED BY <1>2, <1>3, <2>1, <2>2 DEF PacketRow
<1>6. TypeOK'
  <2>1. packet' \in [Packets -> PacketRow]
    BY <1>5 DEF IndInv, TypeOK
  <2>2. receipt' \in [Packets -> [Users -> Nat]] /\ balance' \in [Users -> Nat]
    BY <1>1, <1>2 DEF IndInv, TypeOK
  <2>3. rowLock' \in [Packets -> Requests \cup {NoRequest}] /\ request' \in [Requests -> Request]
    BY <1>1, IdleIsARequest DEF IndInv, TypeOK
  <2>4. QED BY <1>1, <2>1, <2>2, <2>3 DEF IndInv, TypeOK, groupVars
<1>7. PaysForEachShare'
  BY <1>1, IdleIsARequest DEF IndInv, TypeOK, PaysForEachShare
<1>8. LockKeepsTheDraw'
  <2>1. ASSUME NEW s \in Requests, request'[s].phase = "granting"
        PROVE  /\ s # r /\ request'[s] = request[s]
               /\ request[s].packet \in Packets \ {p}
               /\ packet'[request[s].packet] = packet[request[s].packet]
               /\ rowLock'[request[s].packet] = rowLock[request[s].packet]
    <3>1. s # r /\ request'[s] = request[s]
      BY <1>1, <2>1, IdleIsARequest DEF IndInv, TypeOK
    <3>2. rowLock[request[s].packet] = s
      BY <2>1, <3>1 DEF IndInv, LockKeepsTheDraw
    <3>3. request[s].packet \in Packets \ {p}
      BY <1>3, <2>1, <3>1, <3>2, PhaseShapes DEF IndInv
    <3>4. QED BY <1>1, <1>5, <3>1, <3>3 DEF IndInv, TypeOK
  <2>2. QED BY <2>1 DEF IndInv, LockKeepsTheDraw
<1>9. EveryShareIsCovered'
  <2> SUFFICES ASSUME NEW o \in Packets, packet'[o].status = "open"
               PROVE  /\ packet'[o].left >= packet'[o].shares
                      /\ packet'[o].shares = 0 => packet'[o].left = 0
    BY DEF EveryShareIsCovered, OpenPackets
  <2>1. CASE o = p
    BY <1>2, <1>3, <1>4, <1>5, <2>1 DEF IndInv, TypeOK
  <2>2. CASE o # p
    BY <1>5, <2>2 DEF IndInv, TypeOK, EveryShareIsCovered, OpenPackets
  <2>3. QED BY <2>1, <2>2
<1>10. QED BY <1>6, <1>7, <1>8, <1>9 DEF IndInv

LEMMA AbortGrabKeeps ==
    ASSUME IndInv, NEW r \in Requests, AbortGrab(r)
    PROVE  IndInv'
<1>1. /\ request[r].phase = "granting"
      /\ rowLock' = [rowLock EXCEPT ![request[r].packet] = NoRequest]
      /\ Becomes(r, Idle)
      /\ UNCHANGED <<moneyVars, groupVars, lost>>
  BY DEF AbortGrab, Unlock, Finish
<1>2. request[r].packet \in Packets /\ rowLock[request[r].packet] = r
  BY <1>1, PhaseShapes DEF IndInv, LockKeepsTheDraw
<1>3. TypeOK'
  BY <1>1, IdleIsARequest, OnlyTheRequestKeepsTypes DEF IndInv, TypeOK, moneyVars
<1>4. ASSUME NEW s \in Requests \ {r}, request[s].phase = "granting"
      PROVE  rowLock'[request[s].packet] = rowLock[request[s].packet]
  BY <1>1, <1>2, <1>4, PhaseShapes DEF IndInv, TypeOK, LockKeepsTheDraw
<1>5. PaysForEachShare' /\ LockKeepsTheDraw' /\ EveryShareIsCovered'
  BY <1>1, <1>4, IdleIsARequest, OnlyTheRequestMoves DEF moneyVars
<1>6. QED BY <1>3, <1>5 DEF IndInv

\* The cascade waits for the row locks, so no grab is under way when it deletes.
LEMMA DissolveKeeps ==
    ASSUME IndInv, Dissolve
    PROVE  IndInv'
<1> DEFINE gone == [NoPacket EXCEPT !.status = "deleted"]
<1>1. /\ \A p \in OpenPackets : rowLock[p] = NoRequest
      /\ exists' = FALSE /\ members' = {}
      /\ packet' = [p \in Packets |-> IF p \in OpenPackets THEN gone ELSE packet[p]]
      /\ receipt' = [p \in Packets |-> [u \in Users |-> 0]]
      /\ UNCHANGED <<balance, usedBy, rowLock, changes, request>>
  BY DEF Dissolve
<1>2. gone \in PacketRow /\ gone.status = "deleted"
  BY DEF PacketRow, NoPacket
<1>3. packet' \in [Packets -> PacketRow]
  BY <1>1, <1>2 DEF IndInv, TypeOK
<1>4. TypeOK'
  BY <1>1, <1>3 DEF IndInv, TypeOK
<1>5. PaysForEachShare'
  BY <1>1 DEF IndInv, PaysForEachShare
<1>6. \A r \in Requests : request[r].phase # "granting"
  BY <1>1, PhaseShapes, RedPacketAssumption
     DEF IndInv, LockKeepsTheDraw, OpenPackets, RedPacketAssumption
<1>7. LockKeepsTheDraw'
  BY <1>1, <1>6 DEF LockKeepsTheDraw
<1>8. EveryShareIsCovered'
  BY <1>1, <1>2 DEF IndInv, EveryShareIsCovered, OpenPackets
<1>9. QED BY <1>4, <1>5, <1>7, <1>8 DEF IndInv

\* Every request and every change of the group keeps the draws under their row locks.
LEMMA IndInvStep == IndInv /\ [Next]_vars => IndInv'
<1> SUFFICES ASSUME IndInv, [Next]_vars PROVE IndInv'
  OBVIOUS
<1> USE DEF moneyVars, groupVars
<1>1. ASSUME NEW u \in Users, NEW c \in Codes, RedeemCode(u, c) PROVE IndInv'
  <2>1. UNCHANGED <<packet, rowLock, request>>
    BY <1>1 DEF RedeemCode
  <2>2. TypeOK'
    BY <1>1, RedPacketAssumption DEF RedeemCode, IndInv, TypeOK, RedPacketAssumption
  <2>3. QED BY <2>1, <2>2, ElsewhereKeeps
<1>2. ASSUME NEW r \in Requests, Send(r) PROVE IndInv'
  <2>1. ASSUME NEW u \in Users, NEW a \in Amounts, NEW n \in Counts, NEW lucky \in BOOLEAN,
               SendGroupPacket(r, u, a, n, lucky)
        PROVE  IndInv'
    BY <2>1, SendGroupPacketKeeps
  <2>2. ASSUME NEW p \in Packets, CreatePacket(r, p) PROVE IndInv'
    BY <2>2, CreatePacketKeeps
  <2>3. CASE CreatePacketFails(r) \/ Announce(r)
    <3>1. Finish(r) /\ UNCHANGED <<moneyVars, rowLock, groupVars>>
      BY <2>3 DEF CreatePacketFails, Announce
    <3>2. QED BY <3>1, FinishKeeps
  <2>4. CASE AnnounceFails(r)
    <3>1. Finish(r) /\ UNCHANGED <<moneyVars, rowLock, groupVars>>
      BY <2>4 DEF AnnounceFails
    <3>2. QED BY <3>1, FinishKeeps
  <2>5. QED BY <1>2, <2>1, <2>2, <2>3, <2>4 DEF Send
<1>3. ASSUME NEW r \in Requests, Grab(r) PROVE IndInv'
  <2>1. ASSUME NEW u \in Users, NEW p \in Packets, CheckGrab(r, u, p) PROVE IndInv'
    BY <2>1, CheckGrabKeeps
  <2>2. CASE LockPacket(r)
    BY <2>2, LockPacketKeeps
  <2>3. CASE GrabRefused(r)
    <3>1. Finish(r) /\ UNCHANGED <<moneyVars, rowLock, groupVars>>
      BY <2>3 DEF GrabRefused
    <3>2. QED BY <3>1, FinishKeeps
  <2>4. CASE CommitGrab(r)
    BY <2>4, CommitGrabKeeps
  <2>5. CASE AbortGrab(r)
    BY <2>5, AbortGrabKeeps
  <2>6. QED BY <1>3, <2>1, <2>2, <2>3, <2>4, <2>5 DEF Grab
<1>4. ASSUME NEW u \in Users, RemoveMember(u) \/ AddMember(u) PROVE IndInv'
  <2>1. UNCHANGED <<balance, usedBy, packet, receipt, rowLock, exists, request>>
    BY <1>4 DEF RemoveMember, AddMember, Change
  <2>2. members' \subseteq Users
    BY <1>4 DEF RemoveMember, AddMember, IndInv, TypeOK
  <2>3. changes' \in 0..MaxChanges
    <3>1. changes < MaxChanges /\ changes' = changes + 1
      BY <1>4 DEF RemoveMember, AddMember, Change
    <3>2. changes \in 0..MaxChanges /\ MaxChanges \in Nat
      BY RedPacketAssumption DEF RedPacketAssumption, IndInv, TypeOK
    <3>3. QED BY <3>1, <3>2
  <2>4. TypeOK'
    BY <2>1, <2>2, <2>3 DEF IndInv, TypeOK
  <2>5. QED BY <2>1, <2>4, ElsewhereKeeps
<1>5. CASE Dissolve
  BY <1>5, DissolveKeeps
<1>6. CASE UNCHANGED vars
  <2>1. TypeOK'
    BY <1>6 DEF vars, IndInv, TypeOK
  <2>2. QED BY <1>6, <2>1, ElsewhereKeeps DEF vars
<1>7. QED BY <1>1, <1>2, <1>3, <1>4, <1>5, <1>6 DEF Next

-----------------------------------------------------------------------------
(***************************************************************************)
(* The rows keep their types; no balance and no packet is ever overdrawn.  *)
(***************************************************************************)
THEOREM TypeCorrect == Spec => []TypeOK
<1>1. IndInv => TypeOK
  BY DEF IndInv
<1>2. QED BY <1>1, IndInvInit, IndInvStep, PTL DEF Spec

(***************************************************************************)
(* However grabs are interleaved, a packet holds a fen for every share     *)
(* that is left, and nothing when none is.                                 *)
(***************************************************************************)
THEOREM NobodyDrawsInVain == Spec => []EveryShareIsCovered
<1>1. IndInv => EveryShareIsCovered
  BY DEF IndInv
<1>2. QED BY <1>1, IndInvInit, IndInvStep, PTL DEF Spec

-----------------------------------------------------------------------------
(***************************************************************************)
(* Normal packets.  Each grab divides what remains among the shares that   *)
(* remain, so the invariant says where what remains may lie: between share *)
(* and share + 1 for each, where share is the quotient of the whole packet.*)
(***************************************************************************)
NormalShare(p) == packet[p].total \div packet[p].count

\* What a grab takes from a normal packet.
NormalDraw(rest, shares) == IF shares <= 1 THEN rest ELSE rest \div shares

FairRest ==
    \A p \in OpenPackets : ~packet[p].lucky =>
        /\ packet[p].count >= 1
        /\ NormalShare(p) * packet[p].shares <= packet[p].left
        /\ packet[p].left <= (NormalShare(p) + 1) * packet[p].shares
        /\ \A u \in Users : receipt[p][u] \in {0, NormalShare(p), NormalShare(p) + 1}

NoEarlyReceipt ==
    \A p \in Packets \ OpenPackets : \A u \in Users : receipt[p][u] = 0

FairDraw ==
    \A r \in Requests : request[r].phase = "granting" =>
        LET row == packet[request[r].packet] IN
            ~row.lucky => request[r].amount = NormalDraw(row.left, row.shares)

FairInv == IndInv /\ FairRest /\ NoEarlyReceipt /\ FairDraw

\* Where the quotient of a number lies that is between share and share + 1 for each.
LEMMA QuotientBetween ==
    ASSUME NEW rest \in Nat, NEW shares \in Nat, shares >= 1, NEW share \in Nat,
           share * shares <= rest, rest <= (share + 1) * shares
    PROVE  rest \div shares \in {share, share + 1}
           /\ (rest \div shares = share + 1 => rest = (share + 1) * shares)
<1> DEFINE q == rest \div shares
<1>1. q \in Nat /\ shares * q <= rest /\ rest < shares * (q + 1)
  OBVIOUS
<1> HIDE DEF q
<1>2. q >= share
  <2> SUFFICES ASSUME q + 1 <= share PROVE FALSE
    BY <1>1
  <2>1. (share - (q + 1)) * shares >= 0
    BY <1>1
  <2>2. (share - (q + 1)) * shares = share * shares - shares * (q + 1)
    BY <1>1
  <2>3. share * shares \in Nat /\ shares * (q + 1) \in Nat
    BY <1>1
  <2>4. QED BY <1>1, <2>1, <2>2, <2>3
<1>3. q <= share + 1 /\ (q = share + 1 => rest = (share + 1) * shares)
  <2>1. CASE q >= share + 1
    <3>1. (q - (share + 1)) * shares >= q - (share + 1)
      <4>1. (q - (share + 1)) * (shares - 1) >= 0
        BY <1>1, <2>1
      <4>2. (q - (share + 1)) * (shares - 1) = (q - (share + 1)) * shares - (q - (share + 1))
        BY <1>1
      <4>3. (q - (share + 1)) * shares \in Int
        BY <1>1
      <4>4. QED BY <1>1, <4>1, <4>2, <4>3
    <3>2. (q - (share + 1)) * shares = shares * q - (share + 1) * shares
      BY <1>1
    <3>3. shares * q \in Nat /\ (share + 1) * shares \in Nat
      BY <1>1
    <3>4. shares * q - (share + 1) * shares <= 0
      BY <1>1, <3>3
    <3>5. q = share + 1
      BY <1>1, <2>1, <3>1, <3>2, <3>4
    <3>6. shares * q = (share + 1) * shares
      BY <3>5
    <3>7. QED BY <1>1, <3>3, <3>5, <3>6
  <2>2. QED BY <1>1, <2>1
<1>4. QED BY <1>1, <1>2, <1>3 DEF q

LEMMA FairDrawLeavesFairRest ==
    ASSUME NEW rest \in Nat, NEW shares \in Nat, shares >= 1, NEW share \in Nat,
           share * shares <= rest, rest <= (share + 1) * shares
    PROVE  /\ NormalDraw(rest, shares) \in {share, share + 1}
           /\ share * (shares - 1) <= rest - NormalDraw(rest, shares)
           /\ rest - NormalDraw(rest, shares) <= (share + 1) * (shares - 1)
<1> DEFINE amount == NormalDraw(rest, shares)
<1> USE DEF NormalDraw
<1>1. CASE shares = 1
  <2>1. amount = rest /\ share * shares = share /\ (share + 1) * shares = share + 1
    BY <1>1
  <2>2. share * (shares - 1) = 0 /\ (share + 1) * (shares - 1) = 0
    BY <1>1
  <2>3. QED BY <2>1, <2>2
<1>2. CASE shares >= 2
  <2>1. /\ amount \in {share, share + 1}
        /\ amount = share + 1 => rest = (share + 1) * shares
    BY <1>2, QuotientBetween
  <2>2. /\ share * (shares - 1) = share * shares - share
        /\ (share + 1) * (shares - 1) = (share + 1) * shares - (share + 1)
        /\ (share + 1) * shares = share * shares + shares
        /\ share * shares \in Nat
    OBVIOUS
  <2> DEFINE P == share * shares
             Q == (share + 1) * shares
  <2>3. P \in Nat /\ Q = P + shares /\ P <= rest /\ rest <= Q
    BY <2>2
  <2>4. share * (shares - 1) = P - share /\ (share + 1) * (shares - 1) = Q - (share + 1)
    BY <2>2
  <2>5. amount = share + 1 => rest = Q
    BY <2>1
  <2> HIDE DEF P, Q
  <2>6. CASE amount = share + 1
    BY <2>3, <2>4, <2>5, <2>6
  <2>7. CASE amount = share
    <3>1. rest - amount <= Q - (share + 1) \/ rest = Q
      BY <2>3, <2>7
    <3>2. rest # Q
      <4> SUFFICES ASSUME rest = Q PROVE FALSE
        OBVIOUS
      <4>1. rest = (share + 1) * shares
        BY DEF Q
      <4>2. rest \div shares = share + 1
        BY <4>1
      <4>3. QED BY <1>2, <2>7, <4>2
    <3>3. QED BY <2>3, <2>4, <2>7, <3>1, <3>2
  <2>8. QED BY <2>1, <2>6, <2>7
<1>3. QED BY <1>1, <1>2

LEMMA FairInvInit == Init => FairInv
<1> SUFFICES ASSUME Init PROVE FairInv
  OBVIOUS
<1>1. OpenPackets = {} /\ \A p \in Packets, u \in Users : receipt[p][u] = 0
  BY DEF Init, OpenPackets, NoPacket
<1>2. \A r \in Requests : request[r].phase # "granting"
  BY DEF Init, Idle
<1>3. QED BY <1>1, <1>2, IndInvInit DEF FairInv, FairRest, NoEarlyReceipt, FairDraw

\* Steps that leave packets and receipts alone and start no grant.
LEMMA FairElsewhere ==
    ASSUME FairInv, UNCHANGED <<packet, receipt>>,
           \A s \in Requests : request'[s].phase = "granting" => request'[s] = request[s]
    PROVE  FairRest' /\ NoEarlyReceipt' /\ FairDraw'
<1>1. FairRest'
  BY DEF FairInv, FairRest, OpenPackets, NormalShare
<1>2. NoEarlyReceipt'
  BY DEF FairInv, NoEarlyReceipt, OpenPackets
<1>3. FairDraw'
  BY DEF FairInv, FairDraw
<1>4. QED BY <1>1, <1>2, <1>3

LEMMA FairBecomes ==
    ASSUME FairInv, UNCHANGED <<packet, receipt>>,
           NEW r \in Requests, NEW q, q.phase # "granting", Becomes(r, q)
    PROVE  FairRest' /\ NoEarlyReceipt' /\ FairDraw'
<1>1. request' = [request EXCEPT ![r] = q] /\ request \in [Requests -> Request]
  BY DEF Becomes, FairInv, IndInv, TypeOK
<1>2. \A s \in Requests : request'[s].phase = "granting" => request'[s] = request[s]
  BY <1>1
<1>3. QED BY <1>2, FairElsewhere

\* What is between share and share + 1 for each share, when a packet is made.
LEMMA NewPacketIsFair ==
    ASSUME NEW total \in Nat, NEW parts \in Nat, parts >= 1
    PROVE  /\ total \div parts \in Nat
           /\ (total \div parts) * parts <= total
           /\ total <= (total \div parts + 1) * parts
<1> DEFINE q == total \div parts
<1>1. q \in Nat /\ parts * q <= total /\ total < parts * (q + 1)
  OBVIOUS
<1> HIDE DEF q
<1>2. q * parts = parts * q /\ (q + 1) * parts = parts * (q + 1) /\ parts * (q + 1) \in Nat
  BY <1>1
<1>3. QED BY <1>1, <1>2 DEF q

LEMMA FairCreatePacket ==
    ASSUME FairInv, NEW r \in Requests, NEW p \in Packets, CreatePacket(r, p)
    PROVE  FairRest' /\ NoEarlyReceipt' /\ FairDraw'
<1> DEFINE old == request[r]
           row == [status |-> "open", total |-> old.amount, count |-> old.count,
                   left |-> old.amount, shares |-> old.count, lucky |-> old.lucky]
<1>1. /\ old.phase = "paying"
      /\ packet[p].status = "none"
      /\ packet' = [packet EXCEPT ![p] = row]
      /\ receipt' = receipt
      /\ request' = [request EXCEPT ![r] = [phase |-> "announcing", user |-> old.user, packet |-> p]]
  BY DEF CreatePacket, Becomes
<1>2. old.amount \in Nat /\ old.count \in Nat /\ old.count >= 1
  BY <1>1, PhaseShapes DEF FairInv, IndInv
<1>3. p \notin OpenPackets
  BY <1>1 DEF OpenPackets
<1>4. /\ packet'[p] = row
      /\ \A o \in Packets \ {p} : packet'[o] = packet[o]
  BY <1>1 DEF FairInv, IndInv, TypeOK
<1>5. FairRest'
  <2> SUFFICES ASSUME NEW o \in Packets, packet'[o].status = "open", ~packet'[o].lucky
               PROVE  /\ packet'[o].count >= 1
                      /\ NormalShare(o)' * packet'[o].shares <= packet'[o].left
                      /\ packet'[o].left <= (NormalShare(o)' + 1) * packet'[o].shares
                      /\ \A u \in Users : receipt'[o][u] \in {0, NormalShare(o)', NormalShare(o)' + 1}
    BY DEF FairRest, OpenPackets
  <2>1. CASE o = p
    <3>1. NormalShare(p)' = old.amount \div old.count
      BY <1>4 DEF NormalShare
    <3>2. \A u \in Users : receipt'[p][u] = 0
      BY <1>1, <1>3 DEF FairInv, NoEarlyReceipt
    <3>3. packet'[p].left = old.amount /\ packet'[p].shares = old.count /\ packet'[p].count = old.count
      BY <1>4
    <3>4. QED BY <1>2, <2>1, <3>1, <3>2, <3>3, NewPacketIsFair
  <2>2. CASE o # p
    BY <1>1, <1>4, <2>2 DEF FairInv, FairRest, OpenPackets, NormalShare
  <2>3. QED BY <2>1, <2>2
<1>6. NoEarlyReceipt'
  BY <1>1, <1>4 DEF FairInv, NoEarlyReceipt, OpenPackets
<1>7. FairDraw'
  <2>1. ASSUME NEW s \in Requests, request'[s].phase = "granting"
        PROVE  request'[s] = request[s] /\ packet'[request[s].packet] = packet[request[s].packet]
    <3>1. request'[s] = request[s]
      BY <1>1, <2>1 DEF FairInv, IndInv, TypeOK
    <3>2. packet[request[s].packet].status = "open" /\ request[s].packet \in Packets
      BY <2>1, <3>1, PhaseShapes DEF FairInv, IndInv, LockKeepsTheDraw
    <3>3. QED BY <1>1, <1>4, <3>1, <3>2
  <2>2. QED BY <2>1 DEF FairInv, FairDraw
<1>8. QED BY <1>5, <1>6, <1>7

LEMMA FairLockPacket ==
    ASSUME FairInv, NEW r \in Requests, LockPacket(r)
    PROVE  FairRest' /\ NoEarlyReceipt' /\ FairDraw'
<1> DEFINE u == request[r].user
           p == request[r].packet
           row == packet[p]
<1>1. PICK amount \in randomGrabAmount(row.left, row.shares, row.lucky) :
          Becomes(r, [phase |-> "granting", user |-> u, packet |-> p, amount |-> amount])
  BY DEF LockPacket
<1>2. UNCHANGED <<packet, receipt>>
  BY DEF LockPacket, moneyVars
<1>3. FairRest' /\ NoEarlyReceipt'
  BY <1>2 DEF FairInv, FairRest, NoEarlyReceipt, OpenPackets, NormalShare
<1>4. request' = [request EXCEPT ![r] = [phase |-> "granting", user |-> u, packet |-> p, amount |-> amount]]
  BY <1>1 DEF Becomes
<1>5. ~row.lucky => amount = NormalDraw(row.left, row.shares)
  BY <1>1 DEF randomGrabAmount, NormalDraw
<1>6. FairDraw'
  BY <1>2, <1>4, <1>5 DEF FairInv, IndInv, TypeOK, FairDraw
<1>7. QED BY <1>3, <1>6

LEMMA FairCommitGrab ==
    ASSUME FairInv, NEW r \in Requests, CommitGrab(r)
    PROVE  FairRest' /\ NoEarlyReceipt' /\ FairDraw'
<1> DEFINE u == request[r].user
           p == request[r].packet
           row == packet[p]
           amount == request[r].amount
<1>1. /\ request[r].phase = "granting"
      /\ packet' = [packet EXCEPT ![p].left = @ - amount, ![p].shares = @ - 1]
      /\ receipt' = [receipt EXCEPT ![p][u] = amount]
      /\ request' = [request EXCEPT ![r] = Idle]
  BY DEF CommitGrab, Finish, Becomes
<1>2. u \in Users /\ p \in Packets /\ row \in PacketRow /\ amount \in Nat
  BY <1>1, PhaseShapes DEF FairInv, IndInv, TypeOK
<1>3. /\ rowLock[p] = r /\ row.status = "open" /\ row.shares >= 1
      /\ ~row.lucky => amount = NormalDraw(row.left, row.shares)
  BY <1>1 DEF FairInv, IndInv, LockKeepsTheDraw, FairDraw
<1>4. /\ row.left \in Nat /\ row.shares \in Nat /\ row.total \in Nat /\ row.count \in Nat
  BY <1>2 DEF PacketRow
<1>5. /\ packet'[p].left = row.left - amount /\ packet'[p].shares = row.shares - 1
      /\ packet'[p].status = row.status /\ packet'[p].lucky = row.lucky
      /\ packet'[p].total = row.total /\ packet'[p].count = row.count
      /\ \A o \in Packets \ {p} : packet'[o] = packet[o]
  BY <1>1, <1>2 DEF FairInv, IndInv, TypeOK, PacketRow
<1>6. /\ receipt'[p][u] = amount
      /\ \A w \in Users \ {u} : receipt'[p][w] = receipt[p][w]
      /\ \A o \in Packets \ {p} : receipt'[o] = receipt[o]
  BY <1>1, <1>2 DEF FairInv, IndInv, TypeOK
<1>7. FairRest'
  <2> SUFFICES ASSUME NEW o \in Packets, packet'[o].status = "open", ~packet'[o].lucky
               PROVE  /\ packet'[o].count >= 1
                      /\ NormalShare(o)' * packet'[o].shares <= packet'[o].left
                      /\ packet'[o].left <= (NormalShare(o)' + 1) * packet'[o].shares
                      /\ \A w \in Users : receipt'[o][w] \in {0, NormalShare(o)', NormalShare(o)' + 1}
    BY DEF FairRest, OpenPackets
  <2>1. CASE o = p
    <3>1. o \in OpenPackets /\ ~row.lucky /\ row = packet[o]
      BY <1>2, <1>3, <1>5, <2>1 DEF OpenPackets
    <3>2. PICK share \in Nat : share = NormalShare(o)
      BY <1>4, <3>1, NewPacketIsFair DEF NormalShare, FairInv, FairRest
    <3>3. /\ row.count >= 1 /\ share * row.shares <= row.left
          /\ row.left <= (share + 1) * row.shares
          /\ \A w \in Users : receipt[o][w] \in {0, share, share + 1}
      BY <3>1, <3>2 DEF FairInv, FairRest
    <3>4. NormalShare(o)' = share
      BY <1>5, <2>1, <3>2 DEF NormalShare
    <3>5. /\ amount \in {share, share + 1}
          /\ share * (row.shares - 1) <= row.left - amount
          /\ row.left - amount <= (share + 1) * (row.shares - 1)
      <4>1. amount = NormalDraw(row.left, row.shares)
        BY <1>3, <3>1
      <4> HIDE DEF row, amount
      <4>2. /\ row.left \in Nat /\ row.shares \in Nat /\ row.shares >= 1
            /\ share * row.shares <= row.left /\ row.left <= (share + 1) * row.shares
        BY <1>3, <1>4, <3>3
      <4>3. QED BY <4>1, <4>2, FairDrawLeavesFairRest
    <3>6. \A w \in Users : receipt'[o][w] \in {0, share, share + 1}
      BY <1>6, <2>1, <3>3, <3>5
    <3>7. /\ packet'[o].left = row.left - amount /\ packet'[o].shares = row.shares - 1
          /\ packet'[o].count = row.count
      BY <1>5, <2>1
    <3>8. QED BY <3>3, <3>4, <3>5, <3>6, <3>7
  <2>2. CASE o # p
    BY <1>5, <1>6, <2>2 DEF FairInv, FairRest, OpenPackets, NormalShare
  <2>3. QED BY <2>1, <2>2
<1>8. NoEarlyReceipt'
  BY <1>3, <1>5, <1>6 DEF FairInv, NoEarlyReceipt, OpenPackets
<1>9. FairDraw'
  <2>1. ASSUME NEW s \in Requests, request'[s].phase = "granting"
        PROVE  request'[s] = request[s] /\ packet'[request[s].packet] = packet[request[s].packet]
    <3>1. s # r /\ request'[s] = request[s]
      BY <1>1, <2>1, IdleIsARequest DEF FairInv, IndInv, TypeOK
    <3>2. rowLock[request[s].packet] = s /\ request[s].packet \in Packets
      BY <2>1, <3>1, PhaseShapes DEF FairInv, IndInv, LockKeepsTheDraw
    <3>3. QED BY <1>3, <1>5, <3>1, <3>2
  <2>2. QED BY <2>1 DEF FairInv, FairDraw
<1>10. QED BY <1>7, <1>8, <1>9

LEMMA FairDissolve ==
    ASSUME FairInv, Dissolve
    PROVE  FairRest' /\ NoEarlyReceipt' /\ FairDraw'
<1>1. /\ \A p \in OpenPackets : rowLock[p] = NoRequest
      /\ packet' = [p \in Packets |-> IF p \in OpenPackets
                                      THEN [NoPacket EXCEPT !.status = "deleted"] ELSE packet[p]]
      /\ receipt' = [p \in Packets |-> [w \in Users |-> 0]]
      /\ request' = request
  BY DEF Dissolve
<1>2. \A p \in Packets : packet'[p].status # "open"
  BY <1>1 DEF OpenPackets, NoPacket
<1>3. FairRest' /\ NoEarlyReceipt'
  BY <1>1, <1>2 DEF FairRest, NoEarlyReceipt, OpenPackets
<1>4. \A s \in Requests : request[s].phase # "granting"
  BY <1>1, PhaseShapes, RedPacketAssumption
     DEF FairInv, IndInv, LockKeepsTheDraw, OpenPackets, RedPacketAssumption
<1>5. QED BY <1>1, <1>3, <1>4 DEF FairDraw

LEMMA FairInvStep == FairInv /\ [Next]_vars => FairInv'
<1> SUFFICES ASSUME FairInv, [Next]_vars PROVE FairRest' /\ NoEarlyReceipt' /\ FairDraw'
  BY IndInvStep DEF FairInv
<1> USE DEF moneyVars
<1>1. ASSUME NEW v \in Users, NEW c \in Codes, RedeemCode(v, c)
      PROVE  FairRest' /\ NoEarlyReceipt' /\ FairDraw'
  BY <1>1, FairElsewhere DEF RedeemCode
<1>2. ASSUME NEW r \in Requests, Send(r)
      PROVE  FairRest' /\ NoEarlyReceipt' /\ FairDraw'
  <2>1. ASSUME NEW v \in Users, NEW a \in Amounts, NEW n \in Counts, NEW lucky \in BOOLEAN,
               SendGroupPacket(r, v, a, n, lucky)
        PROVE  FairRest' /\ NoEarlyReceipt' /\ FairDraw'
    BY <2>1, FairBecomes DEF SendGroupPacket
  <2>2. ASSUME NEW p \in Packets, CreatePacket(r, p)
        PROVE  FairRest' /\ NoEarlyReceipt' /\ FairDraw'
    BY <2>2, FairCreatePacket
  <2>3. CASE CreatePacketFails(r) \/ Announce(r) \/ AnnounceFails(r)
    BY <2>3, FairBecomes, IdleIsARequest DEF CreatePacketFails, Announce, AnnounceFails, Finish
  <2>4. QED BY <1>2, <2>1, <2>2, <2>3 DEF Send
<1>3. ASSUME NEW r \in Requests, Grab(r)
      PROVE  FairRest' /\ NoEarlyReceipt' /\ FairDraw'
  <2>1. ASSUME NEW v \in Users, NEW p \in Packets, CheckGrab(r, v, p)
        PROVE  FairRest' /\ NoEarlyReceipt' /\ FairDraw'
    BY <2>1, FairBecomes DEF CheckGrab
  <2>2. CASE LockPacket(r)
    BY <2>2, FairLockPacket
  <2>3. CASE GrabRefused(r) \/ AbortGrab(r)
    BY <2>3, FairBecomes, IdleIsARequest DEF GrabRefused, AbortGrab, Finish
  <2>4. CASE CommitGrab(r)
    BY <2>4, FairCommitGrab
  <2>5. QED BY <1>3, <2>1, <2>2, <2>3, <2>4 DEF Grab
<1>4. ASSUME NEW v \in Users, RemoveMember(v) \/ AddMember(v)
      PROVE  FairRest' /\ NoEarlyReceipt' /\ FairDraw'
  BY <1>4, FairElsewhere DEF RemoveMember, AddMember, Change
<1>5. CASE Dissolve
  BY <1>5, FairDissolve
<1>6. CASE UNCHANGED vars
  BY <1>6, FairElsewhere DEF vars
<1>7. QED BY <1>1, <1>2, <1>3, <1>4, <1>5, <1>6 DEF Next

(***************************************************************************)
(* The shares of a packet that is not lucky differ by one fen at most,     *)
(* whatever the total, the count and the order of the grabs.               *)
(***************************************************************************)
THEOREM NormalPacketsAreFair == Spec => []NormalSharesAreEven
<1>1. FairInv => NormalSharesAreEven
  <2> SUFFICES ASSUME FairInv, NEW p \in OpenPackets, ~packet[p].lucky,
                      NEW v \in Winners(p), NEW w \in Winners(p)
               PROVE  receipt[p][v] <= receipt[p][w] + 1
    BY DEF NormalSharesAreEven
  <2>1. packet[p] \in PacketRow /\ v \in Users /\ w \in Users
    BY DEF FairInv, IndInv, TypeOK, OpenPackets, Winners
  <2>2. packet[p].count >= 1 /\ packet[p].count \in Nat /\ packet[p].total \in Nat
    BY <2>1 DEF FairInv, FairRest, PacketRow
  <2>3. NormalShare(p) \in Nat
    BY <2>2, NewPacketIsFair DEF NormalShare
  <2>4. /\ receipt[p][v] \in {0, NormalShare(p), NormalShare(p) + 1}
        /\ receipt[p][w] \in {0, NormalShare(p), NormalShare(p) + 1}
    BY <2>1 DEF FairInv, FairRest
  <2>5. receipt[p][v] > 0 /\ receipt[p][w] > 0
    BY DEF Winners
  <2>6. QED BY <2>3, <2>4, <2>5
<1>2. QED BY <1>1, FairInvInit, FairInvStep, PTL DEF Spec

-----------------------------------------------------------------------------
(***************************************************************************)
(* Money and shares.  MoneyIsConserved and PacketAddsUp are inductive with *)
(* the invariants above: that a commit moves what was drawn between rows   *)
(* that are still as they were, and that a new packet finds no receipts.   *)
(***************************************************************************)
LostOK == lost \in Nat /\ IsFiniteSet(usedBy)

MoneyInv == FairInv /\ LostOK /\ MoneyIsConserved /\ PacketAddsUp

MoneyOK == LostOK /\ MoneyIsConserved /\ PacketAddsUp

LEMMA FiniteParts ==
    ASSUME TypeOK
    PROVE  /\ IsFiniteSet(Users) /\ IsFiniteSet(OpenPackets)
           /\ \A p \in Packets : IsFiniteSet(Winners(p))
<1>1. OpenPackets \in SUBSET Packets /\ \A p \in Packets : Winners(p) \in SUBSET Users
  BY DEF OpenPackets, Winners
<1>2. QED BY <1>1, RedPacketAssumption, FS_Subset DEF RedPacketAssumption

LEMMA SumTypes ==
    ASSUME TypeOK
    PROVE  /\ \A u \in Users : balance[u] \in Nat
           /\ \A p \in OpenPackets : Remaining[p] \in Nat
           /\ SumFunctionOnSet(balance, Users) \in Nat
           /\ SumFunctionOnSet(Remaining, OpenPackets) \in Nat
           /\ \A p \in Packets : SumFunctionOnSet(receipt[p], Users) \in Nat
<1>1. \A u \in Users : balance[u] \in Nat
  BY DEF TypeOK
<1>2. \A p \in OpenPackets : Remaining[p] \in Nat
  BY DEF TypeOK, Remaining, OpenPackets, PacketRow
<1>3. \A p \in Packets : \A u \in Users : receipt[p][u] \in Nat
  BY DEF TypeOK
<1>4. IsFiniteSet(Users) /\ IsFiniteSet(OpenPackets)
  BY FiniteParts
<1>5. \A p \in Packets : SumFunctionOnSet(receipt[p], Users) \in Nat
  BY <1>3, <1>4, SumType
<1>6. QED BY <1>1, <1>2, <1>4, <1>5, SumType

LEMMA MoneyInvInit == Init => MoneyInv
<1> SUFFICES ASSUME Init PROVE MoneyInv
  OBVIOUS
<1>1. FairInv /\ TypeOK
  BY FairInvInit DEF FairInv, IndInv
<1>2. OpenPackets = {} /\ usedBy = {} /\ lost = 0 /\ \A u \in Users : balance[u] = 0
  BY DEF Init, OpenPackets, NoPacket
<1>3. SumFunctionOnSet(balance, Users) = 0
  BY <1>1, <1>2, FiniteParts, SumOfZeroes
<1>4. SumFunctionOnSet(Remaining, OpenPackets) = 0
  BY <1>2, FS_EmptySet, SumOfRest
<1>5. LostOK
  BY <1>2, FS_EmptySet DEF LostOK
<1>6. MoneyIsConserved
  <2>1. Cardinality(usedBy) = 0
    BY <1>2, FS_EmptySet
  <2>2. QED BY <1>2, <1>3, <1>4, <2>1, RedPacketAssumption DEF MoneyIsConserved, RedPacketAssumption
<1>7. PacketAddsUp
  BY <1>2 DEF PacketAddsUp
<1>8. QED BY <1>1, <1>5, <1>6, <1>7 DEF MoneyInv

LEMMA MoneyElsewhere ==
    ASSUME MoneyInv, UNCHANGED <<balance, usedBy, packet, receipt, lost>>
    PROVE  MoneyOK'
<1>1. OpenPackets' = OpenPackets /\ Remaining' = Remaining
  BY DEF OpenPackets, Remaining
<1>2. \A p \in Packets : Winners(p)' = Winners(p)
  BY DEF Winners
<1>3. LostOK'
  BY DEF MoneyInv, LostOK
<1>4. MoneyIsConserved'
  BY <1>1 DEF MoneyInv, MoneyIsConserved
<1>5. PacketAddsUp'
  BY <1>1, <1>2 DEF MoneyInv, PacketAddsUp, OpenPackets
<1>6. QED BY <1>3, <1>4, <1>5 DEF MoneyOK

\* A code brings its value, once.
LEMMA MoneyRedeem ==
    ASSUME MoneyInv, NEW u \in Users, NEW c \in Codes, RedeemCode(u, c)
    PROVE  MoneyOK'
<1>1. /\ c \notin usedBy /\ usedBy' = usedBy \cup {c}
      /\ balance' = [balance EXCEPT ![u] = @ + CodeValue]
      /\ UNCHANGED <<packet, receipt, lost>>
  BY DEF RedeemCode
<1>2. TypeOK /\ LostOK /\ CodeValue \in Nat /\ lost \in Nat
  BY RedPacketAssumption DEF MoneyInv, LostOK, FairInv, IndInv, RedPacketAssumption
<1>3. OpenPackets' = OpenPackets /\ Remaining' = Remaining
  BY <1>1 DEF OpenPackets, Remaining
<1>4. /\ IsFiniteSet(usedBy') /\ Cardinality(usedBy') = Cardinality(usedBy) + 1
      /\ Cardinality(usedBy) \in Nat
  BY <1>1, <1>2, FS_AddElement, FS_CardinalityType DEF LostOK
<1>5. SumFunctionOnSet(balance', Users) = SumFunctionOnSet(balance, Users) + CodeValue
  <2>1. \A v \in Users : balance[v] \in Nat /\ balance'[v] \in Nat
    BY <1>1, <1>2 DEF TypeOK
  <2>2. \A v \in Users \ {u} : balance'[v] = balance[v]
    BY <1>1, <1>2 DEF TypeOK
  <2>3. balance'[u] = balance[u] + CodeValue
    BY <1>1, <1>2 DEF TypeOK
  <2>4. SumFunctionOnSet(balance', Users) = SumFunctionOnSet(balance, Users) - balance[u] + balance'[u]
    BY <1>2, <2>1, <2>2, FiniteParts, SumAfterChange
  <2>5. SumFunctionOnSet(balance, Users) \in Nat /\ balance[u] \in Nat
    BY <1>2, <2>1, SumTypes
  <2>6. QED BY <1>2, <2>3, <2>4, <2>5
<1>6. MoneyIsConserved'
  <2>1. CodeValue * (Cardinality(usedBy) + 1) = CodeValue * Cardinality(usedBy) + CodeValue
    BY <1>2, <1>4
  <2>2. /\ SumFunctionOnSet(balance, Users) \in Nat
        /\ SumFunctionOnSet(Remaining, OpenPackets) \in Nat
    BY <1>2, SumTypes
  <2>3. CodeValue * Cardinality(usedBy) =
            SumFunctionOnSet(balance, Users) + SumFunctionOnSet(Remaining, OpenPackets) + lost
    BY DEF MoneyInv, MoneyIsConserved
  <2>4. CodeValue * Cardinality(usedBy') =
            SumFunctionOnSet(balance', Users) + SumFunctionOnSet(Remaining, OpenPackets) + lost
    BY <1>2, <1>4, <1>5, <2>1, <2>2, <2>3
  <2>5. QED BY <1>1, <1>3, <2>4 DEF MoneyIsConserved
<1>7. LostOK'
  BY <1>1, <1>2, <1>4 DEF LostOK
<1>8. PacketAddsUp'
  <2>1. \A p \in Packets : Winners(p)' = Winners(p)
    BY <1>1 DEF Winners
  <2>2. QED BY <1>1, <1>3, <2>1 DEF MoneyInv, PacketAddsUp, OpenPackets
<1>9. QED BY <1>6, <1>7, <1>8 DEF MoneyOK

\* A new packet holds what its sender has less, and starts without receipts.
LEMMA MoneyCreatePacket ==
    ASSUME MoneyInv, NEW r \in Requests, NEW p \in Packets, CreatePacket(r, p)
    PROVE  MoneyOK'
<1> DEFINE old == request[r]
           row == [status |-> "open", total |-> old.amount, count |-> old.count,
                   left |-> old.amount, shares |-> old.count, lucky |-> old.lucky]
<1>1. /\ old.phase = "paying"
      /\ balance[old.user] >= old.amount
      /\ packet[p].status = "none"
      /\ balance' = [balance EXCEPT ![old.user] = @ - old.amount]
      /\ packet' = [packet EXCEPT ![p] = row]
      /\ UNCHANGED <<usedBy, receipt, lost>>
  BY DEF CreatePacket
<1>2. TypeOK /\ LostOK /\ lost \in Nat /\ NoEarlyReceipt
  BY DEF MoneyInv, LostOK, FairInv, IndInv
<1>3. old.user \in Users /\ old.amount \in Nat /\ old.count \in Nat
  BY <1>1, <1>2, PhaseShapes
<1>4. /\ packet'[p] = row
      /\ \A o \in Packets \ {p} : packet'[o] = packet[o]
  BY <1>1, <1>2 DEF TypeOK
<1>5. /\ p \notin OpenPackets /\ OpenPackets' = OpenPackets \cup {p}
      /\ Remaining'[p] = old.amount
      /\ \A o \in OpenPackets : Remaining'[o] = Remaining[o]
  BY <1>1, <1>4 DEF OpenPackets, Remaining
<1>6. SumFunctionOnSet(balance', Users) = SumFunctionOnSet(balance, Users) - old.amount
  <2>1. \A v \in Users : balance[v] \in Nat /\ balance'[v] \in Nat
    <3>1. balance[old.user] - old.amount \in Nat
      BY <1>1, <1>2, <1>3 DEF TypeOK
    <3>2. QED BY <1>1, <1>2, <1>3, <3>1 DEF TypeOK
  <2>2. \A v \in Users \ {old.user} : balance'[v] = balance[v]
    BY <1>1, <1>2 DEF TypeOK
  <2>3. balance'[old.user] = balance[old.user] - old.amount
    BY <1>1, <1>2, <1>3 DEF TypeOK
  <2>4. SumFunctionOnSet(balance', Users)
            = SumFunctionOnSet(balance, Users) - balance[old.user] + balance'[old.user]
    BY <1>2, <1>3, <2>1, <2>2, FiniteParts, SumAfterChange
  <2>5. SumFunctionOnSet(balance, Users) \in Nat /\ balance[old.user] \in Nat
    BY <1>2, <1>3, <2>1, SumTypes
  <2>6. QED BY <1>3, <2>3, <2>4, <2>5
<1>7. SumFunctionOnSet(Remaining', OpenPackets') = old.amount + SumFunctionOnSet(Remaining, OpenPackets)
  <2>1. IsFiniteSet(OpenPackets) /\ IsFiniteSet(OpenPackets')
    BY <1>2, <1>5, FiniteParts, FS_AddElement
  <2>2. \A o \in OpenPackets' : Remaining'[o] \in Nat
    BY <1>2, <1>3, <1>5, SumTypes
  <2>3. /\ p \in OpenPackets' /\ OpenPackets' \ {p} = OpenPackets
    BY <1>5
  <2>4. SumFunctionOnSet(Remaining', OpenPackets')
            = Remaining'[p] + SumFunctionOnSet(Remaining', OpenPackets' \ {p})
    BY <2>1, <2>2, <2>3, SumOfOthers
  <2>5. SumFunctionOnSet(Remaining', OpenPackets) = SumFunctionOnSet(Remaining, OpenPackets)
    BY <1>5, <2>1, SumOfSame
  <2>6. QED BY <1>5, <2>3, <2>4, <2>5
<1>8. MoneyIsConserved'
  <2>1. /\ SumFunctionOnSet(balance, Users) \in Nat
        /\ SumFunctionOnSet(Remaining, OpenPackets) \in Nat
    BY <1>2, SumTypes
  <2>2. CodeValue * Cardinality(usedBy) =
            SumFunctionOnSet(balance, Users) + SumFunctionOnSet(Remaining, OpenPackets) + lost
    BY DEF MoneyInv, MoneyIsConserved
  <2>3. CodeValue * Cardinality(usedBy) =
            SumFunctionOnSet(balance', Users) + SumFunctionOnSet(Remaining', OpenPackets') + lost
    BY <1>2, <1>3, <1>6, <1>7, <2>1, <2>2
  <2>4. QED BY <1>1, <2>3 DEF MoneyIsConserved
<1>9. LostOK'
  BY <1>1, <1>2 DEF LostOK
<1>10. PacketAddsUp'
  <2> SUFFICES ASSUME NEW o \in OpenPackets'
               PROVE  /\ packet'[o].total = packet'[o].left + SumFunctionOnSet(receipt'[o], Users)
                      /\ packet'[o].count = packet'[o].shares + Cardinality(Winners(o)')
    BY DEF PacketAddsUp
  <2>1. Winners(o)' = Winners(o) /\ receipt'[o] = receipt[o]
    BY <1>1 DEF Winners
  <2>2. CASE o = p
    <3>1. \A u \in Users : receipt[p][u] = 0
      BY <1>2, <1>5 DEF NoEarlyReceipt
    <3>2. SumFunctionOnSet(receipt[p], Users) = 0
      BY <1>2, <3>1, FiniteParts, SumOfZeroes
    <3>3. Cardinality(Winners(p)) = 0
      BY <3>1, FS_EmptySet DEF Winners
    <3>4. /\ packet'[p].total = old.amount /\ packet'[p].left = old.amount
          /\ packet'[p].count = old.count /\ packet'[p].shares = old.count
      BY <1>4
    <3>5. QED BY <1>3, <2>1, <2>2, <3>2, <3>3, <3>4
  <2>3. CASE o # p
    <3>1. o \in OpenPackets /\ packet'[o] = packet[o]
      BY <1>4, <1>5, <2>3 DEF OpenPackets
    <3>2. QED BY <2>1, <3>1 DEF MoneyInv, PacketAddsUp
  <2>4. QED BY <2>2, <2>3
<1>11. QED BY <1>8, <1>9, <1>10 DEF MoneyOK

\* A commit moves what was drawn from the packet to the winner, and writes it down.
LEMMA MoneyCommitGrab ==
    ASSUME MoneyInv, NEW r \in Requests, CommitGrab(r)
    PROVE  MoneyOK'
<1> DEFINE u == request[r].user
           p == request[r].packet
           row == packet[p]
           amount == request[r].amount
<1>1. /\ request[r].phase = "granting"
      /\ receipt[p][u] = 0
      /\ packet' = [packet EXCEPT ![p].left = @ - amount, ![p].shares = @ - 1]
      /\ receipt' = [receipt EXCEPT ![p][u] = amount]
      /\ balance' = [balance EXCEPT ![u] = @ + amount]
      /\ UNCHANGED <<usedBy, lost>>
  BY DEF CommitGrab
<1>2. TypeOK /\ LostOK /\ lost \in Nat
  BY DEF MoneyInv, LostOK, FairInv, IndInv
<1>3. u \in Users /\ p \in Packets /\ row \in PacketRow /\ amount \in Nat
  BY <1>1, <1>2, PhaseShapes DEF TypeOK
<1>4. /\ row.status = "open" /\ row.shares >= 1
      /\ amount >= 1 /\ amount <= row.left - (row.shares - 1)
  BY <1>1 DEF MoneyInv, FairInv, IndInv, LockKeepsTheDraw
<1>5. row.left \in Nat /\ row.shares \in Nat /\ row.total \in Nat /\ row.count \in Nat
  BY <1>3 DEF PacketRow
<1>6. /\ packet'[p].left = row.left - amount /\ packet'[p].shares = row.shares - 1
      /\ packet'[p].status = "open"
      /\ packet'[p].total = row.total /\ packet'[p].count = row.count
      /\ \A o \in Packets \ {p} : packet'[o] = packet[o]
  BY <1>1, <1>2, <1>3, <1>4 DEF TypeOK, PacketRow
<1>7. /\ receipt'[p][u] = amount
      /\ \A w \in Users \ {u} : receipt'[p][w] = receipt[p][w]
      /\ \A o \in Packets \ {p} : receipt'[o] = receipt[o]
  BY <1>1, <1>2, <1>3 DEF TypeOK
<1>8. /\ p \in OpenPackets /\ OpenPackets' = OpenPackets
      /\ Remaining[p] = row.left /\ Remaining'[p] = row.left - amount
      /\ \A o \in OpenPackets \ {p} : Remaining'[o] = Remaining[o]
  BY <1>3, <1>4, <1>6 DEF OpenPackets, Remaining
<1> HIDE DEF u, p, row, amount
<1>9. row.left - amount \in Nat
  BY <1>3, <1>4, <1>5
<1>10. SumFunctionOnSet(balance', Users) = SumFunctionOnSet(balance, Users) + amount
  <2>1. \A v \in Users : balance[v] \in Nat /\ balance'[v] \in Nat
    BY <1>1, <1>2, <1>3 DEF TypeOK
  <2>2. \A v \in Users \ {u} : balance'[v] = balance[v]
    BY <1>1, <1>2 DEF TypeOK
  <2>3. balance'[u] = balance[u] + amount
    BY <1>1, <1>2, <1>3 DEF TypeOK
  <2>4. SumFunctionOnSet(balance', Users)
            = SumFunctionOnSet(balance, Users) - balance[u] + balance'[u]
    BY <1>2, <1>3, <2>1, <2>2, FiniteParts, SumAfterChange
  <2>5. SumFunctionOnSet(balance, Users) \in Nat /\ balance[u] \in Nat
    BY <1>2, <1>3, <2>1, SumTypes
  <2>6. QED BY <1>3, <2>3, <2>4, <2>5
<1>11. SumFunctionOnSet(Remaining', OpenPackets) = SumFunctionOnSet(Remaining, OpenPackets) - amount
  <2>1. \A o \in OpenPackets : Remaining[o] \in Nat /\ Remaining'[o] \in Nat
    BY <1>2, <1>8, <1>9, SumTypes
  <2>2. SumFunctionOnSet(Remaining', OpenPackets)
            = SumFunctionOnSet(Remaining, OpenPackets) - Remaining[p] + Remaining'[p]
    BY <1>2, <1>8, <2>1, FiniteParts, SumAfterChange
  <2>3. SumFunctionOnSet(Remaining, OpenPackets) \in Nat
    BY <1>2, SumTypes
  <2>4. QED BY <1>3, <1>5, <1>8, <2>2, <2>3
<1>12. MoneyIsConserved'
  <2>1. /\ SumFunctionOnSet(balance, Users) \in Nat
        /\ SumFunctionOnSet(Remaining, OpenPackets) \in Nat
    BY <1>2, SumTypes
  <2>2. CodeValue * Cardinality(usedBy) =
            SumFunctionOnSet(balance, Users) + SumFunctionOnSet(Remaining, OpenPackets) + lost
    BY DEF MoneyInv, MoneyIsConserved
  <2>3. CodeValue * Cardinality(usedBy) =
            SumFunctionOnSet(balance', Users) + SumFunctionOnSet(Remaining', OpenPackets) + lost
    BY <1>2, <1>3, <1>10, <1>11, <2>1, <2>2
  <2>4. QED BY <1>1, <1>8, <2>3 DEF MoneyIsConserved
<1>13. LostOK'
  BY <1>1, <1>2 DEF LostOK
<1>14. PacketAddsUp'
  <2> SUFFICES ASSUME NEW o \in OpenPackets
               PROVE  /\ packet'[o].total = packet'[o].left + SumFunctionOnSet(receipt'[o], Users)
                      /\ packet'[o].count = packet'[o].shares + Cardinality(Winners(o)')
    BY <1>8 DEF PacketAddsUp
  <2>1. /\ packet[o].total = packet[o].left + SumFunctionOnSet(receipt[o], Users)
        /\ packet[o].count = packet[o].shares + Cardinality(Winners(o))
    BY DEF MoneyInv, PacketAddsUp
  <2>2. CASE o = p
    <3>1. \A w \in Users : receipt[p][w] \in Nat /\ receipt'[p][w] \in Nat
      BY <1>2, <1>3, <1>7 DEF TypeOK
    <3>2. SumFunctionOnSet(receipt'[p], Users)
              = SumFunctionOnSet(receipt[p], Users) - receipt[p][u] + receipt'[p][u]
      BY <1>2, <1>3, <1>7, <3>1, FiniteParts, SumAfterChange
    <3>3. SumFunctionOnSet(receipt[p], Users) \in Nat
      BY <1>2, <1>3, SumTypes
    <3>4. SumFunctionOnSet(receipt'[p], Users) = SumFunctionOnSet(receipt[p], Users) + amount
      BY <1>1, <1>3, <1>7, <3>2, <3>3
    <3>5. Winners(o)' = Winners(o) \cup {u} /\ u \notin Winners(o)
      BY <1>1, <1>3, <1>4, <1>7, <2>2 DEF Winners
    <3>6. /\ Cardinality(Winners(o)') = Cardinality(Winners(o)) + 1
          /\ Cardinality(Winners(o)) \in Nat
      BY <1>2, <1>3, <2>2, <3>5, FiniteParts, FS_AddElement, FS_CardinalityType
    <3>7. /\ row.total = row.left + SumFunctionOnSet(receipt[p], Users)
          /\ row.count = row.shares + Cardinality(Winners(o))
      BY <2>1, <2>2 DEF row
    <3>8. /\ row.total = (row.left - amount) + SumFunctionOnSet(receipt'[p], Users)
          /\ row.count = (row.shares - 1) + Cardinality(Winners(o)')
      BY <1>3, <1>5, <3>3, <3>4, <3>6, <3>7
    <3>9. QED BY <1>6, <2>2, <3>8
  <2>3. CASE o # p
    <3>1. packet'[o] = packet[o] /\ receipt'[o] = receipt[o]
      BY <1>6, <1>7, <2>3 DEF OpenPackets
    <3>2. Winners(o)' = Winners(o)
      BY <3>1 DEF Winners
    <3>3. QED BY <2>1, <3>1, <3>2
  <2>4. QED BY <2>2, <2>3
<1>15. QED BY <1>12, <1>13, <1>14 DEF MoneyOK

\* What the open packets held is lost with the group.
LEMMA MoneyDissolve ==
    ASSUME MoneyInv, Dissolve
    PROVE  MoneyOK'
<1>1. /\ lost' = lost + SumFunctionOnSet(Remaining, OpenPackets)
      /\ packet' = [p \in Packets |-> IF p \in OpenPackets
                                      THEN [NoPacket EXCEPT !.status = "deleted"] ELSE packet[p]]
      /\ UNCHANGED <<balance, usedBy>>
  BY DEF Dissolve
<1>2. TypeOK /\ LostOK /\ lost \in Nat
  BY DEF MoneyInv, LostOK, FairInv, IndInv
<1>3. OpenPackets' = {}
  BY <1>1 DEF OpenPackets, NoPacket
<1>4. /\ SumFunctionOnSet(balance, Users) \in Nat
      /\ SumFunctionOnSet(Remaining, OpenPackets) \in Nat
  BY <1>2, SumTypes
<1>5. SumFunctionOnSet(Remaining', OpenPackets') = 0
  BY <1>3, FS_EmptySet, SumOfRest
<1>6. MoneyIsConserved'
  <2>1. CodeValue * Cardinality(usedBy) =
            SumFunctionOnSet(balance, Users) + SumFunctionOnSet(Remaining, OpenPackets) + lost
    BY DEF MoneyInv, MoneyIsConserved
  <2>2. CodeValue * Cardinality(usedBy) =
            SumFunctionOnSet(balance, Users) + SumFunctionOnSet(Remaining', OpenPackets') + lost'
    BY <1>1, <1>2, <1>4, <1>5, <2>1
  <2>3. QED BY <1>1, <2>2 DEF MoneyIsConserved
<1>7. LostOK' /\ PacketAddsUp'
  BY <1>1, <1>2, <1>3, <1>4 DEF LostOK, PacketAddsUp
<1>8. QED BY <1>6, <1>7 DEF MoneyOK

LEMMA MoneyInvStep == MoneyInv /\ [Next]_vars => MoneyInv'
<1> SUFFICES ASSUME MoneyInv, [Next]_vars PROVE MoneyOK'
  BY FairInvStep DEF MoneyInv, MoneyOK
<1> USE DEF moneyVars
<1>1. ASSUME NEW v \in Users, NEW c \in Codes, RedeemCode(v, c) PROVE MoneyOK'
  BY <1>1, MoneyRedeem
<1>2. ASSUME NEW r \in Requests, Send(r) PROVE MoneyOK'
  <2>1. ASSUME NEW v \in Users, NEW a \in Amounts, NEW n \in Counts, NEW lucky \in BOOLEAN,
               SendGroupPacket(r, v, a, n, lucky)
        PROVE  MoneyOK'
    BY <2>1, MoneyElsewhere DEF SendGroupPacket
  <2>2. ASSUME NEW p \in Packets, CreatePacket(r, p) PROVE MoneyOK'
    BY <2>2, MoneyCreatePacket
  <2>3. CASE CreatePacketFails(r) \/ Announce(r) \/ AnnounceFails(r)
    BY <2>3, MoneyElsewhere DEF CreatePacketFails, Announce, AnnounceFails
  <2>4. QED BY <1>2, <2>1, <2>2, <2>3 DEF Send
<1>3. ASSUME NEW r \in Requests, Grab(r) PROVE MoneyOK'
  <2>1. ASSUME NEW v \in Users, NEW p \in Packets, CheckGrab(r, v, p) PROVE MoneyOK'
    BY <2>1, MoneyElsewhere DEF CheckGrab
  <2>2. CASE LockPacket(r) \/ GrabRefused(r) \/ AbortGrab(r)
    BY <2>2, MoneyElsewhere DEF LockPacket, GrabRefused, AbortGrab
  <2>3. CASE CommitGrab(r)
    BY <2>3, MoneyCommitGrab
  <2>4. QED BY <1>3, <2>1, <2>2, <2>3 DEF Grab
<1>4. ASSUME NEW v \in Users, RemoveMember(v) \/ AddMember(v) PROVE MoneyOK'
  BY <1>4, MoneyElsewhere DEF RemoveMember, AddMember, Change
<1>5. CASE Dissolve
  BY <1>5, MoneyDissolve
<1>6. CASE UNCHANGED vars
  BY <1>6, MoneyElsewhere DEF vars
<1>7. QED BY <1>1, <1>2, <1>3, <1>4, <1>5, <1>6 DEF Next

(***************************************************************************)
(* Every fen that was redeemed is in a balance or in an open packet, or    *)
(* was deleted with the group, whatever is sent and grabbed at a time.     *)
(***************************************************************************)
THEOREM NoFenIsLost == Spec => []MoneyIsConserved
<1>1. MoneyInv => MoneyIsConserved
  BY DEF MoneyInv
<1>2. QED BY <1>1, MoneyInvInit, MoneyInvStep, PTL DEF Spec

(***************************************************************************)
(* The receipts of a packet and what remains of it are its total, and the  *)
(* winners and the shares that remain its count.                           *)
(***************************************************************************)
THEOREM ReceiptsAddUp == Spec => []PacketAddsUp
<1>1. MoneyInv => PacketAddsUp
  BY DEF MoneyInv
<1>2. QED BY <1>1, MoneyInvInit, MoneyInvStep, PTL DEF Spec

-----------------------------------------------------------------------------
(***************************************************************************)
(* The inductive invariant.  RevokedIsRefused is not inductive: an entry   *)
(* that exists may be too short.  EntriesLast says how long it lives, in   *)
(* half seconds: until the second the token expires in.                    *)
(***************************************************************************)
EntriesLast == \A k \in revoked : blacklist[k] >= 2 * k - half

GateInv == GateTypeOK /\ EntriesLast

SomeToken == Tokens \cup {NoToken}

LEMMA GateInvInit == GateInit => GateInv
<1> SUFFICES ASSUME GateInit PROVE GateInv
  OBVIOUS
<1>1. GateTypeOK
  BY GateAssumption DEF GateInit, GateTypeOK, Tokens
<1>2. EntriesLast
  BY DEF GateInit, EntriesLast
<1>3. QED BY <1>1, <1>2 DEF GateInv

-----------------------------------------------------------------------------
(***************************************************************************)
(* What the parts of a step do to their variables.                         *)
(***************************************************************************)
PagesOK ==
    /\ stored \in SomeToken
    /\ token \in [Pages -> SomeToken]
    /\ polling \in [Pages -> BOOLEAN]
    /\ connected \in [Pages -> BOOLEAN]

LEMMA ClearSessionKeeps ==
    ASSUME GateTypeOK, NEW c \in Pages, clearSession(c)
    PROVE  PagesOK'
BY DEF GateTypeOK, clearSession, PagesOK, SomeToken

LEMMA FaultKeeps == ASSUME GateTypeOK, Fault PROVE faults' \in 0..MaxFaults
BY GateAssumption DEF GateTypeOK, Fault

LEMMA BootstrapKeeps ==
    ASSUME GateTypeOK, NEW c \in Pages, NEW k \in Tokens, bootstrapWorkspace(c, k)
    PROVE  PagesOK' /\ faults' \in 0..MaxFaults
<1>1. CASE clearSession(c) /\ UNCHANGED faults
  BY <1>1, ClearSessionKeeps DEF GateTypeOK
<1>2. CASE ~(clearSession(c) /\ UNCHANGED faults)
  <2>1. /\ stored' = k
        /\ token' = [token EXCEPT ![c] = k]
        /\ connected' = [connected EXCEPT ![c] = FALSE]
        /\ \E on \in BOOLEAN : polling' = [polling EXCEPT ![c] = on]
        /\ Fault \/ UNCHANGED faults
    BY <1>2 DEF bootstrapWorkspace
  <2>2. PagesOK'
    BY <2>1 DEF GateTypeOK, PagesOK, SomeToken
  <2>3. QED BY <2>1, <2>2, FaultKeeps DEF GateTypeOK
<1>3. QED BY <1>1, <1>2

LEMMA WindowKeeps ==
    ASSUME GateTypeOK, WithRateLimit
    PROVE  count' \in 0..Limit + 1 /\ left' \in 0..Window /\ recent' \in [0..Window - 1 -> Nat]
<1>1. count' \in 0..Limit + 1 /\ left' \in 0..Window
  BY GateAssumption DEF GateTypeOK, WithRateLimit, Allow
<1>2. recent[0] + 1 \in Nat /\ 0 \in 0..Window - 1
  BY GateAssumption DEF GateTypeOK
<1>3. recent' \in [0..Window - 1 -> Nat]
  BY <1>2 DEF GateTypeOK, WithRateLimit
<1>4. QED BY <1>1, <1>3

\* A sign-out writes an entry that lasts.
LEMMA LogoutKeeps ==
    ASSUME GateInv, NEW k \in 0..TTL, Logout(k), UNCHANGED half
    PROVE  blacklist' \in [0..TTL -> Nat] /\ revoked' \subseteq 0..TTL /\ EntriesLast'
<1> DEFINE entry == IF 2 * k - half > 0 THEN 2 * k - half ELSE Minute
<1>1. entry \in Nat /\ entry >= 2 * k - half
  BY GateAssumption DEF GateInv, GateTypeOK, Minute
<1>2. blacklist' = [blacklist EXCEPT ![k] = entry] /\ revoked' = revoked \cup {k}
  BY DEF Logout, Blacklist
<1> HIDE DEF entry
<1>3. QED BY <1>1, <1>2 DEF GateInv, GateTypeOK, EntriesLast

\* Between two ticks: a step that writes no entry.
LEMMA NoEntry ==
    ASSUME GateInv, UNCHANGED <<half, storeVars>>
    PROVE  blacklist' \in [0..TTL -> Nat] /\ revoked' \subseteq 0..TTL /\ EntriesLast'
BY DEF GateInv, GateTypeOK, EntriesLast, storeVars

LEMMA ValidIsKnown ==
    ASSUME GateTypeOK, NEW k \in SomeToken, k # NoToken, Valid(k) PROVE k \in 0..TTL
BY GateAssumption DEF SomeToken, Tokens, Valid, ParseToken

-----------------------------------------------------------------------------
LEMMA LoginKeeps == ASSUME GateInv, NEW c \in Pages, Login(c) PROVE GateInv'
<1>1. WithRateLimit /\ UNCHANGED <<half, storeVars>> /\ UNCHANGED asked
  BY DEF Login, pageVars
<1>2. PagesOK' /\ faults' \in 0..MaxFaults
  <2>1. TTL \in Tokens
    BY GateAssumption DEF Tokens
  <2>2. CASE UNCHANGED <<pageVars, faults>>
    BY <2>2 DEF GateInv, GateTypeOK, PagesOK, SomeToken, pageVars
  <2>3. CASE bootstrapWorkspace(c, TTL)
    BY <2>1, <2>3, BootstrapKeeps DEF GateInv
  <2>4. QED BY <2>2, <2>3 DEF Login
<1>3. QED
  BY <1>1, <1>2, WindowKeeps, NoEntry DEF GateInv, GateTypeOK, PagesOK, SomeToken

LEMMA LoadKeeps == ASSUME GateInv, NEW c \in Pages, Load(c) PROVE GateInv'
<1>1. /\ UNCHANGED <<half, storeVars>> /\ UNCHANGED <<count, left, recent>>
      /\ asked' = [asked EXCEPT ![c] = [what \in Kinds |-> NoToken]]
  BY DEF Load, limitVars
<1>2. asked' \in [Pages -> [Kinds -> SomeToken]]
  BY <1>1 DEF GateInv, GateTypeOK, SomeToken
<1>3. PagesOK' /\ faults' \in 0..MaxFaults
  <2>1. CASE stored = NoToken
    BY <2>1, ClearSessionKeeps DEF Load, GateInv, GateTypeOK
  <2>2. CASE stored # NoToken
    <3>1. stored \in Tokens /\ bootstrapWorkspace(c, stored)
      BY <2>2 DEF Load, GateInv, GateTypeOK
    <3>2. QED BY <3>1, BootstrapKeeps DEF GateInv
  <2>3. QED BY <2>1, <2>2
<1>4. QED
  BY <1>1, <1>2, <1>3, NoEntry DEF GateInv, GateTypeOK, PagesOK, SomeToken

LEMMA AskKeeps ==
    ASSUME GateInv, NEW c \in Pages, NEW what \in Kinds, Ask(c, what) PROVE GateInv'
<1>1. asked' \in [Pages -> [Kinds -> SomeToken]]
  BY DEF Ask, GateInv, GateTypeOK, SomeToken
<1>2. UNCHANGED <<half, storeVars>>
  BY DEF Ask
<1>3. QED
  BY <1>1, <1>2, NoEntry DEF Ask, limitVars, storeVars, GateInv, GateTypeOK, SomeToken

LEMMA AnswerKeeps ==
    ASSUME GateInv, NEW c \in Pages, NEW what \in Kinds, Answer(c, what) PROVE GateInv'
<1> DEFINE k == asked[c][what]
<1>1. k \in SomeToken /\ k # NoToken
  BY DEF Answer, GateInv, GateTypeOK, SomeToken
<1>2. asked' \in [Pages -> [Kinds -> SomeToken]]
  BY DEF Answer, GateInv, GateTypeOK, SomeToken
<1>3. UNCHANGED half /\ UNCHANGED <<count, left, recent>>
  BY DEF Answer, limitVars
<1>4. PagesOK' /\ faults' \in 0..MaxFaults
  <2>1. clearSession(c) \/ UNCHANGED <<stored, token, polling, connected>>
    BY DEF Answer, Accepted, Failed
  <2>2. Fault \/ UNCHANGED faults
    BY DEF Answer, Failed
  <2>3. PagesOK'
    BY <2>1, ClearSessionKeeps DEF GateInv, GateTypeOK, PagesOK, SomeToken
  <2>4. QED BY <2>2, <2>3, FaultKeeps DEF GateInv, GateTypeOK
<1>5. blacklist' \in [0..TTL -> Nat] /\ revoked' \subseteq 0..TTL /\ EntriesLast'
  <2>1. UNCHANGED storeVars \/ (Valid(k) /\ Logout(k))
    BY DEF Answer, Accepted, Failed
  <2>2. CASE Valid(k) /\ Logout(k)
    BY <1>1, <1>3, <2>2, ValidIsKnown, LogoutKeeps DEF GateInv
  <2>3. QED BY <1>3, <2>1, <2>2, NoEntry
<1>6. QED BY <1>2, <1>3, <1>4, <1>5 DEF GateInv, GateTypeOK, PagesOK, SomeToken

LEMMA ServeWSKeeps == ASSUME GateInv, NEW c \in Pages, ServeWS(c) PROVE GateInv'
<1>1. UNCHANGED <<half, storeVars>> /\ connected' \in [Pages -> BOOLEAN]
  BY DEF ServeWS
<1>2. QED BY <1>1, NoEntry DEF ServeWS, limitVars, GateInv, GateTypeOK

\* Tokens and entries grow old together.
LEMMA OlderIsAToken ==
    ASSUME GateTypeOK, NEW k \in SomeToken PROVE Older(k) \in SomeToken
BY GateAssumption DEF GateTypeOK, SomeToken, Tokens, Older

LEMMA TickKeeps == ASSUME GateInv, Tick PROVE GateInv'
<1> USE DEF Tick
<1>1. half' = 1 - half /\ half \in 0..1 /\ half' \in 0..1
  BY DEF GateInv, GateTypeOK
<1>2. stored' \in SomeToken /\ token' \in [Pages -> SomeToken]
      /\ asked' \in [Pages -> [Kinds -> SomeToken]]
  BY OlderIsAToken DEF GateInv, GateTypeOK, SomeToken
<1>3. \A n \in Nat : Less(n) \in Nat /\ Less(n) >= n - 1
  BY DEF Less
<1>4. blacklist' \in [0..TTL -> Nat]
  <2>1. ASSUME NEW k \in 0..TTL
        PROVE  blacklist[k] \in Nat /\ (k # TTL => blacklist[k + 1] \in Nat)
    BY GateAssumption DEF GateInv, GateTypeOK
  <2> DEFINE entry(k) == IF half = 0 THEN Less(blacklist[k])
                         ELSE IF k = TTL THEN 0 ELSE Less(blacklist[k + 1])
  <2>2. \A k \in 0..TTL : entry(k) \in Nat
    BY <1>3, <2>1
  <2>3. blacklist' = [k \in 0..TTL |-> entry(k)]
    OBVIOUS
  <2> HIDE DEF entry
  <2>4. QED BY <2>2, <2>3
<1>5. ASSUME NEW k \in revoked, Older(k) # -1
      PROVE  Older(k) \in 0..TTL /\ blacklist'[Older(k)] >= 2 * Older(k) - half'
  <2>1. k \in 0..TTL /\ blacklist[k] \in Nat /\ blacklist[k] >= 2 * k - half
    BY DEF GateInv, GateTypeOK, EntriesLast
  <2>2. k # NoToken
    BY <2>1, GateAssumption
  <2>3. CASE half = 0
    <3>1. Older(k) = k /\ blacklist'[k] = Less(blacklist[k])
      BY <2>1, <2>3 DEF Older
    <3> HIDE DEF Tick
    <3>2. half' = 1 /\ Less(blacklist[k]) >= blacklist[k] - 1
      BY <1>1, <1>3, <2>1, <2>3
    <3>3. blacklist'[k] >= 2 * k - half'
      BY <2>1, <2>3, <3>1, <3>2, <1>3
    <3>4. QED BY <2>1, <3>1, <3>3
  <2>4. CASE half = 1
    <3>1. Older(k) = k - 1
      BY <2>1, <2>2, <2>4 DEF Older
    <3>2. k - 1 \in 0..TTL /\ k - 1 # TTL /\ (k - 1) + 1 = k
      BY <1>5, <2>1, <3>1, GateAssumption
    <3>3. blacklist'[k - 1] = Less(blacklist[k])
      BY <2>4, <3>2
    <3> HIDE DEF Tick
    <3>4. half' = 0 /\ Less(blacklist[k]) >= blacklist[k] - 1
      BY <1>1, <1>3, <2>1, <2>4
    <3>5. blacklist'[k - 1] >= 2 * (k - 1) - half'
      BY <1>3, <2>1, <2>4, <3>3, <3>4
    <3>6. QED BY <3>1, <3>2, <3>5
  <2>5. QED BY <1>1, <2>3, <2>4
<1>6. revoked' \subseteq 0..TTL /\ EntriesLast'
  BY <1>5 DEF EntriesLast
<1>7. left' \in 0..Window /\ count' \in 0..Limit + 1
  BY GateAssumption DEF Less, GateInv, GateTypeOK
<1>8. recent' \in [0..Window - 1 -> Nat]
  <2>1. \A i \in 0..Window - 1 : i # 0 => recent[i - 1] \in Nat
    BY GateAssumption DEF GateInv, GateTypeOK
  <2>2. \A i \in 0..Window - 1 : (IF i = 0 THEN 0 ELSE recent[i - 1]) \in Nat
    BY <2>1
  <2>3. QED BY <2>2
<1>9. QED
  BY <1>1, <1>2, <1>4, <1>6, <1>7, <1>8 DEF GateInv, GateTypeOK, SomeToken

-----------------------------------------------------------------------------
LEMMA GateInvNext == GateInv /\ [GateNext]_gateVars => GateInv'
<1> SUFFICES ASSUME GateInv, [GateNext]_gateVars PROVE GateInv'
  OBVIOUS
<1>1. CASE Tick
  BY <1>1, TickKeeps
<1>2. ASSUME NEW c \in Pages, Login(c) \/ Load(c) \/ ServeWS(c) PROVE GateInv'
  BY <1>2, LoginKeeps, LoadKeeps, ServeWSKeeps
<1>3. ASSUME NEW c \in Pages, NEW what \in Kinds, Ask(c, what) \/ Answer(c, what)
      PROVE  GateInv'
  BY <1>3, AskKeeps, AnswerKeeps
<1>4. CASE UNCHANGED gateVars
  BY <1>4 DEF gateVars, pageVars, storeVars, limitVars, GateInv, GateTypeOK, EntriesLast
<1>5. QED BY <1>1, <1>2, <1>3, <1>4 DEF GateNext

LEMMA GateInvariance == GateSpec => []GateInv
<1>1. QED BY GateInvInit, GateInvNext, PTL DEF GateSpec

\* Pages, tokens, entries and windows stay within their types.
THEOREM GateTypeCorrect == GateSpec => []GateTypeOK
<1>1. GateInv => GateTypeOK
  BY DEF GateInv
<1>2. QED BY <1>1, GateInvariance, PTL

\* A token that was signed out is refused until the second it expires in.
THEOREM SignedOutIsRefused == GateSpec => []RevokedIsRefused
<1>1. GateInv => RevokedIsRefused
  <2> SUFFICES ASSUME GateInv, NEW k \in revoked, k >= 1 PROVE Refused(k)
    BY DEF RevokedIsRefused
  <2>1. k \in Int /\ half \in 0..1 /\ blacklist[k] \in Nat /\ blacklist[k] >= 2 * k - half
    BY GateAssumption DEF GateInv, GateTypeOK, EntriesLast
  <2>2. blacklist[k] > 0
    BY <2>1
  <2>3. QED BY <2>2 DEF Refused, Valid, Contains
<1>2. QED BY <1>1, GateInvariance, PTL

-----------------------------------------------------------------------------
(***************************************************************************)
(* The end of a session.                                                   *)
(***************************************************************************)
EndsWell(c) == token[c] # NoToken /\ token'[c] = NoToken => EndedForACause(c)

LEMMA BootstrapEndsForACause ==
    ASSUME GateTypeOK, NEW d \in Pages, NEW c \in Pages, NEW k \in Tokens,
           bootstrapWorkspace(d, k), token[c] # NoToken, token'[c] = NoToken
    PROVE  c = d /\ Refused(k)
BY GateAssumption DEF bootstrapWorkspace, clearSession, GateTypeOK, Tokens

LEMMA StepsEndWell ==
    ASSUME GateTypeOK, [GateNext]_gateVars, NEW c \in Pages PROVE EndsWell(c)
<1> SUFFICES ASSUME token[c] # NoToken, token'[c] = NoToken PROVE EndedForACause(c)
  BY DEF EndsWell
<1>1. CASE Tick
  <2>1. Older(token[c]) # NoToken
    BY GateAssumption DEF Older, GateTypeOK, Tokens
  <2>2. QED BY <1>1, <2>1 DEF Tick
<1>2. ASSUME NEW d \in Pages, Login(d) PROVE EndedForACause(c)
  <2>1. token[d] = NoToken /\ TTL \in Tokens
    BY <1>2, GateAssumption DEF Login, Tokens
  <2>2. QED BY <1>2, <2>1, BootstrapEndsForACause DEF Login, pageVars
<1>3. ASSUME NEW d \in Pages, Load(d) PROVE EndedForACause(c)
  <2>1. CASE stored = NoToken
    BY <2>1 DEF EndedForACause
  <2>2. CASE stored # NoToken
    <3>1. stored \in Tokens /\ bootstrapWorkspace(d, stored)
      BY <1>3, <2>2 DEF Load, GateTypeOK
    <3>2. QED BY <3>1, BootstrapEndsForACause DEF EndedForACause
  <2>3. QED BY <2>1, <2>2
<1>4. ASSUME NEW d \in Pages, NEW what \in Kinds, Answer(d, what) PROVE EndedForACause(c)
  <2> DEFINE k == asked[d][what]
  <2>1. k # NoToken /\ clearSession(d) /\ (what = "logout" \/ Refused(k))
    BY <1>4 DEF Answer, Accepted, Failed, Kinds
  <2>2. c = d
    BY <2>1 DEF clearSession, GateTypeOK
  <2>3. QED BY <2>1, <2>2 DEF EndedForACause, Kinds
<1>5. ASSUME NEW d \in Pages, NEW what \in Kinds, Ask(d, what) \/ ServeWS(d)
      PROVE  EndedForACause(c)
  BY <1>5 DEF Ask, ServeWS
<1>6. CASE UNCHANGED gateVars
  BY <1>6 DEF gateVars, pageVars
<1>7. QED
  BY <1>1, <1>2, <1>3, <1>4, <1>5, <1>6 DEF GateNext, Kinds

\* A page loses its session only for a refusal, a sign-out or a late answer.
THEOREM NoSessionIsLost == GateSpec => SessionsEndForACause
<1> DEFINE Well == \A c \in Pages : EndsWell(c)
<1>1. GateTypeOK /\ [GateNext]_gateVars => [Well]_gateVars
  BY StepsEndWell
<1> HIDE DEF Well
<1>2. GateSpec => [][Well]_gateVars
  BY <1>1, GateTypeCorrect, PTL DEF GateSpec
<1>3. QED BY <1>2 DEF Well, EndsWell, SessionsEndForACause

-----------------------------------------------------------------------------
(***************************************************************************)
(* The window.  AtMostTwiceTheLimit is not inductive: two windows meet in  *)
(* a span, and each must be within the limit by itself.  The logins of the *)
(* current window are those since it began; what is older is of the one    *)
(* before.                                                                 *)
(***************************************************************************)
LoginsOf(first, last) == SumFunctionOnSet(recent, first..last)

WindowOK ==
    /\ count = 0 <=> left = 0
    /\ count = 0 => recent[0] = 0 /\ LoginsOf(0, Window - 1) <= Limit
    /\ count > 0 =>
        /\ LoginsOf(0, Window - left) <= count
        /\ LoginsOf(0, Window - left) <= Limit
        /\ LoginsOf(Window - left + 1, Window - 1) <= Limit

WindowInv == GateInv /\ WindowOK

\* The first or the last entry of an interval, and the others.
LEMMA IntervalEnds ==
    ASSUME NEW f, NEW n \in Nat, \A i \in 0..n : f[i] \in Nat
    PROVE  /\ SumFunctionOnSet(f, 0..n) = f[0] + SumFunctionOnSet(f, 1..n)
           /\ SumFunctionOnSet(f, 0..n) = f[n] + SumFunctionOnSet(f, 0..n - 1)
           /\ SumFunctionOnSet(f, 1..n) \in Nat /\ SumFunctionOnSet(f, 0..n - 1) \in Nat
           /\ SumFunctionOnSet(f, 0..n) \in Nat
<1>1. IsFiniteSet(0..n)
  BY Intervals
<1>2. 0 \in 0..n /\ (0..n) \ {0} = 1..n /\ n \in 0..n /\ (0..n) \ {n} = 0..n - 1
  OBVIOUS
<1>3. /\ SumFunctionOnSet(f, 0..n) = f[0] + SumFunctionOnSet(f, (0..n) \ {0})
      /\ SumFunctionOnSet(f, (0..n) \ {0}) \in Nat
  BY <1>1, <1>2, SumOfOthers
<1>4. /\ SumFunctionOnSet(f, 0..n) = f[n] + SumFunctionOnSet(f, (0..n) \ {n})
      /\ SumFunctionOnSet(f, (0..n) \ {n}) \in Nat
  BY <1>1, <1>2, SumOfOthers
<1>5. SumFunctionOnSet(f, 0..n) \in Nat
  BY <1>1, SumType
<1>6. QED BY <1>2, <1>3, <1>4, <1>5

LEMMA WindowInvInit == GateInit => WindowInv
<1> SUFFICES ASSUME GateInit PROVE WindowInv
  OBVIOUS
<1>1. \A i \in 0..Window - 1 : recent[i] = 0
  BY DEF GateInit
<1>2. LoginsOf(0, Window - 1) = 0 /\ recent[0] = 0
  <2>1. Window - 1 \in Int /\ 0 \in 0..Window - 1
    BY GateAssumption
  <2>2. QED BY <1>1, <2>1, Intervals, SumOfZeroes DEF LoginsOf
<1>3. count = 0 /\ left = 0
  BY DEF GateInit
<1>4. QED BY <1>2, <1>3, GateAssumption, GateInvInit DEF WindowInv, WindowOK

\* A login is counted in the current window, and let through while that has room.
LEMMA WindowLogin ==
    ASSUME WindowInv, WithRateLimit PROVE WindowOK'
<1>1. /\ Window \in Nat \ {0} /\ Limit \in Nat \ {0}
      /\ count \in 0..Limit + 1 /\ left \in 0..Window
      /\ recent \in [0..Window - 1 -> Nat]
  BY GateAssumption DEF WindowInv, GateInv, GateTypeOK
<1>2. /\ count' = IF count > Limit THEN count ELSE count + 1
      /\ left' = IF count = 0 THEN Window ELSE left
      /\ recent' = IF count < Limit THEN [recent EXCEPT ![0] = @ + 1] ELSE recent
  BY DEF WithRateLimit, Allow, Allowed
<1>3. count' > 0 /\ count' \in Nat /\ left' > 0 /\ left' \in 1..Window
  BY <1>1, <1>2 DEF WindowInv, WindowOK
<1>4. CASE count = 0
  <2>1. left' = Window /\ count' = 1 /\ recent' = [recent EXCEPT ![0] = @ + 1]
    BY <1>1, <1>2, <1>4
  <2>2. recent[0] = 0 /\ LoginsOf(0, Window - 1) <= Limit
    BY <1>4 DEF WindowInv, WindowOK
  <2>3. recent'[0] = 1 /\ \A i \in 1..Window - 1 : recent'[i] = recent[i]
    BY <1>1, <2>1, <2>2
  <2>4. SumFunctionOnSet(recent', 0..0) = 1
    <3>1. 0..0 = {0} /\ IsFiniteSet(0..0) /\ (0..0) \ {0} = {}
      <4>1. 0..0 = {0} /\ IsFiniteSet({0})
        BY FS_Singleton
      <4>2. QED BY <4>1
    <3>2. SumFunctionOnSet(recent', {}) = 0
      BY FS_EmptySet, SumOfRest
    <3>3. \A i \in 0..0 : recent'[i] \in Nat
      BY <2>3
    <3>4. SumFunctionOnSet(recent', 0..0) = recent'[0] + SumFunctionOnSet(recent', (0..0) \ {0})
      BY <3>1, <3>3, SumOfOthers
    <3>5. QED BY <2>3, <3>1, <3>2, <3>4
  <2>5. SumFunctionOnSet(recent', 1..Window - 1) = SumFunctionOnSet(recent, 1..Window - 1)
    <3>1. IsFiniteSet(1..Window - 1)
      BY <1>1, Intervals
    <3>2. QED BY <2>3, <3>1, SumOfSame
  <2>6. SumFunctionOnSet(recent, 1..Window - 1) <= Limit
    <3>1. Window - 1 \in Nat /\ \A i \in 0..Window - 1 : recent[i] \in Nat
      BY <1>1
    <3>2. /\ SumFunctionOnSet(recent, 0..Window - 1) = recent[0] + SumFunctionOnSet(recent, 1..Window - 1)
          /\ SumFunctionOnSet(recent, 1..Window - 1) \in Nat
      BY <3>1, IntervalEnds
    <3>3. QED BY <2>2, <3>2 DEF LoginsOf
  <2>7. /\ SumFunctionOnSet(recent', 0..Window - left') <= count'
        /\ SumFunctionOnSet(recent', 0..Window - left') <= Limit
        /\ SumFunctionOnSet(recent', Window - left' + 1..Window - 1) <= Limit
    <3>1. Window - left' = 0 /\ Window - left' + 1 = 1
      BY <1>1, <2>1
    <3>2. QED BY <1>1, <2>1, <2>4, <2>5, <2>6, <3>1
  <2>8. QED BY <1>3, <2>7 DEF WindowOK, LoginsOf
<1>5. CASE count > 0
  <2> DEFINE age == Window - left
  <2>1. /\ left' = left /\ left > 0
        /\ SumFunctionOnSet(recent, 0..age) <= count
        /\ SumFunctionOnSet(recent, 0..age) <= Limit
        /\ SumFunctionOnSet(recent, age + 1..Window - 1) <= Limit
    BY <1>1, <1>2, <1>5 DEF WindowInv, WindowOK, LoginsOf
  <2>2. age \in 0..Window - 1
    BY <1>1, <2>1
  <2> HIDE DEF age
  <2>3. /\ IsFiniteSet(0..age) /\ IsFiniteSet(age + 1..Window - 1)
        /\ 0 \in 0..age /\ 0..age \subseteq 0..Window - 1
        /\ age + 1..Window - 1 \subseteq (0..Window - 1) \ {0}
    <3>1. age \in Int /\ age + 1 \in Int /\ Window - 1 \in Int
      BY <1>1, <2>2
    <3>2. IsFiniteSet(0..age) /\ IsFiniteSet(age + 1..Window - 1)
      BY <3>1, Intervals
    <3>3. QED BY <1>1, <2>2, <3>2
  <2>4. SumFunctionOnSet(recent, 0..age) \in Nat
    BY <1>1, <2>3, SumType
  <2>5. /\ SumFunctionOnSet(recent', 0..age) <= count'
        /\ SumFunctionOnSet(recent', 0..age) <= Limit
        /\ SumFunctionOnSet(recent', age + 1..Window - 1) <= Limit
    <3>1. CASE count < Limit
      <4>1. recent' = [recent EXCEPT ![0] = @ + 1] /\ count' = count + 1
        BY <1>1, <1>2, <3>1
      <4>2. /\ recent'[0] = recent[0] + 1 /\ recent[0] \in Nat
            /\ \A i \in (0..Window - 1) \ {0} : recent'[i] = recent[i] /\ recent[i] \in Nat
        BY <1>1, <2>3, <4>1
      <4>3. SumFunctionOnSet(recent', age + 1..Window - 1) = SumFunctionOnSet(recent, age + 1..Window - 1)
        <5>1. \A i \in age + 1..Window - 1 : recent'[i] = recent[i]
          BY <2>3, <4>2
        <5>2. QED BY <2>3, <5>1, SumOfSame
      <4>4. SumFunctionOnSet(recent', 0..age) = SumFunctionOnSet(recent, 0..age) - recent[0] + recent'[0]
        <5>1. \A i \in (0..age) \ {0} : recent[i] = recent'[i]
          BY <2>3, <4>2
        <5>2. recent'[0] \in Nat
          BY <4>2
        <5>3. \A i \in 0..age : recent[i] \in Nat /\ recent'[i] \in Nat
          BY <2>3, <4>2, <5>2
        <5>4. IsFiniteSet(0..age) /\ 0 \in 0..age
          BY <2>3
        <5>5. ASSUME NEW span, span = 0..age, NEW now, now = 0
              PROVE  SumFunctionOnSet(recent', span)
                         = SumFunctionOnSet(recent, span) - recent[now] + recent'[now]
          <6>1. \A i \in span : recent[i] \in Nat /\ recent'[i] \in Nat
            BY <5>3, <5>5
          <6>2. now \in span /\ \A i \in span \ {now} : recent[i] = recent'[i]
            BY <5>1, <5>4, <5>5
          <6>3. IsFiniteSet(span)
            BY <5>4, <5>5
          <6>4. QED BY <6>1, <6>2, <6>3, SumAfterChange
        <5>6. QED BY <5>5
      <4>5. QED BY <1>1, <2>1, <2>4, <3>1, <4>1, <4>2, <4>3, <4>4
    <3>2. CASE ~(count < Limit)
      BY <1>1, <1>2, <2>1, <2>4, <3>2
    <3>3. QED BY <3>1, <3>2
  <2>6. Window - left' = age
    BY <2>1 DEF age
  <2>7. QED BY <1>3, <2>5, <2>6 DEF WindowOK, LoginsOf
<1>6. QED BY <1>1, <1>4, <1>5

\* A tick moves the logins on, and ends the window or lets it grow with them.
LEMMA WindowTick ==
    ASSUME WindowInv, Tick PROVE WindowOK'
<1>1. /\ Window \in Nat \ {0} /\ Limit \in Nat \ {0}
      /\ count \in 0..Limit + 1 /\ left \in 0..Window
      /\ recent \in [0..Window - 1 -> Nat]
  BY GateAssumption DEF WindowInv, GateInv, GateTypeOK
<1>2. /\ left' = IF left = 0 THEN 0 ELSE left - 1
      /\ count' = IF left <= 1 THEN 0 ELSE count
      /\ recent' = [i \in 0..Window - 1 |-> IF i = 0 THEN 0 ELSE recent[i - 1]]
  BY DEF Tick, Less
<1>3. /\ recent'[0] = 0
      /\ \A i \in 0..Window - 2 : recent[i] \in Nat /\ recent'[i + 1] = recent[i]
      /\ \A i \in 0..Window - 1 : recent'[i] \in Nat
  BY <1>1, <1>2
<1>4. ASSUME NEW m \in 0..Window - 1
      PROVE  SumFunctionOnSet(recent', 0..m) = SumFunctionOnSet(recent, 0..m - 1)
  <2>1. m \in Nat /\ m - 1 \in Int /\ \A i \in 0..m : recent'[i] \in Nat
    BY <1>1, <1>3
  <2>2. /\ SumFunctionOnSet(recent', 0..m) = recent'[0] + SumFunctionOnSet(recent', 1..m)
        /\ SumFunctionOnSet(recent', 1..m) \in Nat
    BY <2>1, IntervalEnds
  <2>3. SumFunctionOnSet(recent', 0 + 1..(m - 1) + 1) = SumFunctionOnSet(recent, 0..m - 1)
    <3>1. \A i \in 0..m - 1 : recent[i] \in Nat /\ recent'[i + 1] = recent[i]
      BY <1>1, <1>3, <2>1
    <3>2. 0 - 1 <= m - 1
      BY <2>1
    <3>3. QED BY <2>1, <3>1, <3>2, IntervalShift
  <2>4. 0 + 1..(m - 1) + 1 = 1..m
    BY <2>1
  <2>5. QED BY <1>3, <2>2, <2>3, <2>4
<1>5. CASE left <= 1
  <2>1. left' = 0 /\ count' = 0
    BY <1>1, <1>2, <1>5
  <2>2. SumFunctionOnSet(recent, 0..Window - 1) <= Limit
    <3>1. CASE count = 0
      BY <3>1 DEF WindowInv, WindowOK, LoginsOf
    <3>2. CASE count > 0
      <4>1. left = 1
        BY <1>1, <1>5, <3>2 DEF WindowInv, WindowOK
      <4>2. QED BY <3>2, <4>1 DEF WindowInv, WindowOK, LoginsOf
    <3>3. QED BY <1>1, <3>1, <3>2
  <2>3. /\ SumFunctionOnSet(recent, 0..Window - 1) =
              recent[Window - 1] + SumFunctionOnSet(recent, 0..(Window - 1) - 1)
        /\ SumFunctionOnSet(recent, 0..(Window - 1) - 1) \in Nat
        /\ recent[Window - 1] \in Nat
    <3>1. Window - 1 \in Nat /\ Window - 1 \in 0..Window - 1 /\ \A i \in 0..Window - 1 : recent[i] \in Nat
      BY <1>1
    <3>2. QED BY <3>1, IntervalEnds
  <2>4. (Window - 1) - 1 = Window - 2 /\ Window - 1 \in 0..Window - 1
    BY <1>1
  <2>5. SumFunctionOnSet(recent', 0..Window - 1) = SumFunctionOnSet(recent, 0..Window - 2)
    BY <1>1, <1>4, <2>4
  <2>6. SumFunctionOnSet(recent', 0..Window - 1) <= Limit
    BY <1>1, <2>2, <2>3, <2>4, <2>5
  <2>7. QED BY <1>3, <2>1, <2>6 DEF WindowOK, LoginsOf
<1>6. CASE left > 1
  <2> DEFINE age == Window - left
  <2>1. left' = left - 1 /\ count' = count /\ count > 0
    BY <1>1, <1>2, <1>6 DEF WindowInv, WindowOK
  <2>2. age \in 0..Window - 2 /\ Window - left' = age + 1
    BY <1>1, <1>6, <2>1
  <2>3. /\ SumFunctionOnSet(recent, 0..age) <= count
        /\ SumFunctionOnSet(recent, 0..age) <= Limit
        /\ SumFunctionOnSet(recent, age + 1..Window - 1) <= Limit
    BY <2>1 DEF WindowInv, WindowOK, LoginsOf
  <2> HIDE DEF age
  <2>4. SumFunctionOnSet(recent', 0..age + 1) = SumFunctionOnSet(recent, 0..age)
    <3>1. age + 1 \in 0..Window - 1 /\ (age + 1) - 1 = age
      BY <1>1, <2>2
    <3>2. QED BY <1>4, <3>1
  <2>5. SumFunctionOnSet(recent', (age + 1) + 1..Window - 1) = SumFunctionOnSet(recent, age + 1..Window - 2)
    <3>1. /\ age + 1 \in Int /\ Window - 2 \in Int /\ (age + 1) - 1 <= Window - 2
          /\ \A i \in age + 1..Window - 2 : recent[i] \in Nat /\ recent'[i + 1] = recent[i]
          /\ (Window - 2) + 1 = Window - 1
      BY <1>1, <1>3, <2>2
    <3>2. ASSUME NEW a \in Int, NEW b \in Int, a = age + 1, b = Window - 2
          PROVE  SumFunctionOnSet(recent', a + 1..b + 1) = SumFunctionOnSet(recent, a..b)
      <4>1. /\ \A i \in a..b : recent[i] \in Nat /\ recent'[i + 1] = recent[i]
            /\ a - 1 <= b
        BY <3>1, <3>2
      <4>2. QED BY <4>1, IntervalShift
    <3>3. QED BY <3>1, <3>2
  <2>6. SumFunctionOnSet(recent, age + 1..Window - 2) <= Limit
    <3>1. /\ age + 1 \in Int /\ Window - 2 \in Int /\ Window - 1 \in Int
          /\ (age + 1) - 1 <= Window - 2 /\ Window - 2 <= Window - 1
          /\ \A i \in age + 1..Window - 1 : recent[i] \in Nat
      BY <1>1, <2>2
    <3>2. /\ SumFunctionOnSet(recent, age + 1..Window - 1) =
                SumFunctionOnSet(recent, age + 1..Window - 2) + SumFunctionOnSet(recent, (Window - 2) + 1..Window - 1)
          /\ SumFunctionOnSet(recent, age + 1..Window - 2) \in Nat
          /\ SumFunctionOnSet(recent, (Window - 2) + 1..Window - 1) \in Nat
      BY <3>1, IntervalSplit
    <3>3. QED BY <1>1, <2>3, <3>2
  <2>7. left' # 0 /\ count' > 0 /\ count' # 0
    BY <1>1, <1>6, <2>1
  <2>8. /\ SumFunctionOnSet(recent', 0..Window - left') <= count'
        /\ SumFunctionOnSet(recent', 0..Window - left') <= Limit
        /\ SumFunctionOnSet(recent', Window - left' + 1..Window - 1) <= Limit
    BY <2>1, <2>2, <2>3, <2>4, <2>5, <2>6
  <2>9. QED BY <2>7, <2>8 DEF WindowOK, LoginsOf
<1>7. QED BY <1>1, <1>5, <1>6

LEMMA WindowInvStep == WindowInv /\ [GateNext]_gateVars => WindowInv'
<1> SUFFICES ASSUME WindowInv, [GateNext]_gateVars PROVE WindowOK'
  BY GateInvNext DEF WindowInv
<1>1. CASE Tick
  BY <1>1, WindowTick
<1>2. ASSUME NEW c \in Pages, Login(c) PROVE WindowOK'
  BY <1>2, WindowLogin DEF Login
<1>3. CASE UNCHANGED limitVars
  BY <1>3 DEF limitVars, WindowInv, WindowOK, LoginsOf
<1>4. ASSUME NEW c \in Pages, Load(c) \/ ServeWS(c) PROVE WindowOK'
  BY <1>3, <1>4 DEF Load, ServeWS
<1>5. ASSUME NEW c \in Pages, NEW what \in Kinds, Ask(c, what) \/ Answer(c, what) PROVE WindowOK'
  BY <1>3, <1>5 DEF Ask, Answer
<1>6. CASE UNCHANGED gateVars
  BY <1>3, <1>6 DEF gateVars
<1>7. QED BY <1>1, <1>2, <1>4, <1>5, <1>6 DEF GateNext

(***************************************************************************)
(* In any span as long as a window, at most twice the limit is let         *)
(* through.                                                                *)
(***************************************************************************)
THEOREM TwiceTheLimitAtMost == GateSpec => []AtMostTwiceTheLimit
<1>1. WindowInv => AtMostTwiceTheLimit
  <2> SUFFICES ASSUME WindowInv PROVE SumFunctionOnSet(recent, 0..Window - 1) <= 2 * Limit
    BY DEF AtMostTwiceTheLimit
  <2>1. /\ Window \in Nat \ {0} /\ Limit \in Nat \ {0}
        /\ count \in 0..Limit + 1 /\ left \in 0..Window
        /\ recent \in [0..Window - 1 -> Nat]
    BY GateAssumption DEF WindowInv, GateInv, GateTypeOK
  <2>2. CASE count = 0
    <3>1. SumFunctionOnSet(recent, 0..Window - 1) <= Limit
      BY <2>2 DEF WindowInv, WindowOK, LoginsOf
    <3>2. SumFunctionOnSet(recent, 0..Window - 1) \in Nat
      BY <2>1, Intervals, SumType
    <3>3. QED BY <2>1, <3>1, <3>2
  <2>3. CASE count > 0
    <3> DEFINE age == Window - left
    <3>1. /\ age \in 0..Window - 1
          /\ SumFunctionOnSet(recent, 0..age) <= Limit
          /\ SumFunctionOnSet(recent, age + 1..Window - 1) <= Limit
      BY <2>1, <2>3 DEF WindowInv, WindowOK, LoginsOf
    <3> HIDE DEF age
    <3>2. /\ SumFunctionOnSet(recent, 0..Window - 1) =
                SumFunctionOnSet(recent, 0..age) + SumFunctionOnSet(recent, age + 1..Window - 1)
          /\ SumFunctionOnSet(recent, 0..age) \in Nat
          /\ SumFunctionOnSet(recent, age + 1..Window - 1) \in Nat
      BY <2>1, <3>1, IntervalSplit
    <3>3. QED BY <2>1, <3>1, <3>2
  <2>4. QED BY <2>1, <2>2, <2>3
<1>2. QED BY <1>1, WindowInvInit, WindowInvStep, PTL DEF GateSpec
=============================================================================
