-------------------------- MODULE InductionLemmas ---------------------------
(***************************************************************************)
(* Induction over the naturals, for the proofs about recursively defined   *)
(* functions.  The induction theorems of the library take the predicate as *)
(* an operator parameter; here the predicate is a set, which the provers   *)
(* can instantiate.                                                        *)
(***************************************************************************)
EXTENDS Integers, Binary, Sequences, SequencesExt, SequenceTheorems, WellFoundedInduction, TLAPS

\* A set of natural numbers has a least element.
LEMMA LeastElement ==
  ASSUME NEW T, T \subseteq Nat, T # {}
  PROVE  \E x \in T : \A y \in T : x <= y
<1> DEFINE R == OpToRel(<, Nat)
<1>1. IsWellFoundedOn(R, Nat)
  BY NatLessThanWellFounded, Zenon
<1>2. \E x \in T : \A y \in T : ~(<<y, x>> \in R)
  <2> HIDE DEF R
  <2> QED
    BY <1>1, WFMin
<1>3. PICK x \in T : \A y \in T : ~(y < x)
  BY <1>2 DEF OpToRel
<1> QED
  BY <1>3

\* A set that has 0, and the successor of each natural number it has, has all
\* of them: the set of those it lacks has no least element.
LEMMA SetInduction ==
  ASSUME NEW T, 0 \in T, \A n \in Nat : n \in T => n + 1 \in T
  PROVE  \A n \in Nat : n \in T
<1> DEFINE F == {n \in Nat : n \notin T}
<1>1. SUFFICES ASSUME F # {} PROVE FALSE
  OBVIOUS
<1>2. PICK x \in F : \A y \in F : x <= y
  <2>1. F \subseteq Nat
    OBVIOUS
  <2> HIDE DEF F
  <2> QED
    BY <1>1, <2>1, LeastElement
<1>3. x \in Nat /\ x # 0 /\ x - 1 \in Nat /\ x - 1 \in T
  BY <1>2
<1> QED
  BY <1>2, <1>3

\* The same between two bounds.
LEMMA IntervalInduction ==
  ASSUME NEW m \in Nat, NEW n \in Nat, NEW T,
         m \in T, \A i \in m..n : i \in T /\ i < n => i + 1 \in T
  PROVE  \A i \in m..n : i \in T
<1> DEFINE U == {k \in Nat : m + k <= n => m + k \in T}
<1>1. 0 \in U
  OBVIOUS
<1>2. \A k \in Nat : k \in U => k + 1 \in U
  OBVIOUS
<1> HIDE DEF U
<1>3. \A k \in Nat : k \in U
  BY <1>1, <1>2, SetInduction
<1>4. ASSUME NEW i \in m..n PROVE i \in T
  <2>1. i - m \in U
    BY <1>3
  <2> QED
    BY <2>1 DEF U
<1> QED
  BY <1>4

\* f is defined by recursion from m to n.
IsRecursive(f, m, n, c, step) ==
  f = [i \in m..n |-> IF i = m THEN c ELSE step[i][f[i - 1]]]

\* A function that is defined by recursion from m to n exists: c is its value
\* at m, and step[i] takes the value at i - 1 to the one at i.
LEMMA RecursiveFunction ==
  ASSUME NEW m \in Nat, NEW n \in Nat, NEW S, NEW c \in S,
         NEW step \in [m..n -> [S -> S]]
  PROVE  \E f \in [m..n -> S] : IsRecursive(f, m, n, c, step)
<1> USE DEF IsRecursive
<1> DEFINE Upto(k, f) == f = [i \in m..k |-> IF i = m THEN c ELSE step[i][f[i - 1]]]
           T == {k \in m..n : \E f \in [m..k -> S] : Upto(k, f)}
<1>1. CASE m > n
  <2>1. m..n = {}
    BY <1>1
  <2> DEFINE g == [i \in m..n |-> c]
  <2>2. g \in [m..n -> S] /\ g = [i \in m..n |-> IF i = m THEN c ELSE step[i][g[i - 1]]]
    BY <2>1
  <2> QED
    BY <2>2
<1>2. CASE m <= n
  <2>1. m \in T
    <3> DEFINE g == [i \in m..m |-> c]
    <3>1. g \in [m..m -> S] /\ Upto(m, g)
      OBVIOUS
    <3> HIDE DEF g, Upto
    <3>2. m \in m..n
      BY <1>2
    <3> QED
      BY <3>1, <3>2
  <2>2. ASSUME NEW k \in m..n, k \in T, k < n PROVE k + 1 \in T
    <3>1. PICK f \in [m..k -> S] : Upto(k, f)
      BY <2>2
    <3> DEFINE g == [i \in m..(k + 1) |-> IF i <= k THEN f[i] ELSE step[k + 1][f[k]]]
    <3>2. k + 1 \in m..n /\ f[k] \in S
      BY <2>2, <3>1
    <3>3. step[k + 1][f[k]] \in S
      BY <3>2
    <3>4. g \in [m..(k + 1) -> S]
      BY <3>1, <3>3
    <3>5. ASSUME NEW i \in m..(k + 1)
          PROVE  g[i] = IF i = m THEN c ELSE step[i][g[i - 1]]
      <4>1. CASE i <= k
        <5>1. i \in m..k /\ f[i] = IF i = m THEN c ELSE step[i][f[i - 1]]
          BY <4>1, <3>1
        <5>2. i # m => i - 1 \in m..(k + 1) /\ i - 1 <= k
          BY <4>1
        <5> QED
          BY <4>1, <5>1, <5>2
      <4>2. CASE i = k + 1
        BY <4>2, <3>1
      <4> QED
        BY <4>1, <4>2
    <3>6. Upto(k + 1, g)
      BY <3>4, <3>5
    <3> QED
      BY <3>2, <3>4, <3>6
  <2> HIDE DEF T
  <2>3. \A i \in m..n : i \in T
    BY <2>1, <2>2, IntervalInduction
  <2>4. n \in T
    BY <1>2, <2>3
  <2> QED
    BY <2>4 DEF T
<1> QED
  BY <1>1, <1>2

-----------------------------------------------------------------------------
(* What FlattenSeq computes. *)

\* The equation FlattenSeq is defined by, and its type.
LEMMA FlattenRecursion ==
  ASSUME NEW S, NEW ss \in Seq(Seq(S)), ss # <<>>
  PROVE  \E f \in [1..Len(ss) -> Seq(S)] :
           /\ f[1] = ss[1]
           /\ \A i \in 2..Len(ss) : f[i] = f[i - 1] \o ss[i]
           /\ FlattenSeq(ss) = f[Len(ss)]
<1> DEFINE n == Len(ss)
           D(f) == [i \in 1..n |-> IF i = 1 THEN ss[i] ELSE f[i - 1] \o ss[i]]
           flatten == CHOOSE f : f = D(f)
           step == [i \in 1..n |-> [x \in Seq(S) |-> x \o ss[i]]]
<1>1. n \in Nat \ {0} /\ \A i \in 1..n : ss[i] \in Seq(S)
  OBVIOUS
<1>2. FlattenSeq(ss) = flatten[n]
  BY <1>1 DEF FlattenSeq
<1> HIDE DEF n
<1>3. step \in [1..n -> [Seq(S) -> Seq(S)]]
  BY <1>1, ConcatProperties
<1>4. PICK f \in [1..n -> Seq(S)] :
        f = [i \in 1..n |-> IF i = 1 THEN ss[1] ELSE step[i][f[i - 1]]]
  <2> DEFINE Q == Seq(S)
             c == ss[1]
  <2>1. c \in Q /\ step \in [1..n -> [Q -> Q]] /\ 1 \in Nat /\ n \in Nat
    BY <1>1, <1>3
  <2> HIDE DEF step, Q, c
  <2>2. \E f \in [1..n -> Q] : IsRecursive(f, 1, n, c, step)
    BY <2>1, RecursiveFunction
  <2> QED
    BY <2>2 DEF Q, c, IsRecursive
<1>5. f = D(f)
  <2>1. ASSUME NEW i \in 1..n, i # 1 PROVE step[i][f[i - 1]] = f[i - 1] \o ss[i]
    <3>1. i - 1 \in 1..n
      BY <2>1, <1>1
    <3> QED
      BY <3>1, <1>4
  <2> QED
    BY <1>4, <2>1
<1>6. flatten = D(flatten)
  <2> HIDE DEF D
  <2> QED
    BY <1>5
<1> HIDE DEF flatten
<1>7. \A i \in 1..n : flatten[i] \in Seq(S)
  <2> DEFINE T == {i \in 1..n : flatten[i] \in Seq(S)}
  <2>1. 1 \in T
    BY <1>1, <1>6
  <2>2. ASSUME NEW i \in 1..n, i \in T, i < n PROVE i + 1 \in T
    <3>1. i + 1 \in 1..n /\ i + 1 # 1 /\ (i + 1) - 1 = i
      BY <2>2, <1>1
    <3>2. flatten[i + 1] = flatten[i] \o ss[i + 1]
      BY <3>1, <1>6
    <3>3. flatten[i] \in Seq(S) /\ ss[i + 1] \in Seq(S)
      BY <3>1, <2>2, <1>1
    <3>4. flatten[i + 1] \in Seq(S)
      BY <3>2, <3>3, ConcatProperties
    <3> QED
      BY <3>1, <3>4
  <2> HIDE DEF T
  <2>3. \A i \in 1..n : i \in T
    BY <2>1, <2>2, <1>1, IntervalInduction
  <2> QED
    BY <2>3 DEF T
<1>8. flatten \in [1..n -> Seq(S)]
  BY <1>6, <1>7
<1>9. ASSUME NEW i \in 2..n PROVE flatten[i] = flatten[i - 1] \o ss[i]
  <2>1. i \in 1..n /\ i # 1
    BY <1>1
  <2> QED
    BY <2>1, <1>6
<1>10. flatten[1] = ss[1]
  BY <1>6, <1>1
<1> QED
  BY <1>2, <1>8, <1>9, <1>10 DEF n

\* FlattenSeq of one sequence, and of one more sequence.
LEMMA FlattenOne ==
  ASSUME NEW S, NEW ss \in Seq(Seq(S)), Len(ss) = 1
  PROVE  FlattenSeq(ss) = ss[1]
<1>1. ss # <<>>
  OBVIOUS
<1>2. PICK f \in [1..Len(ss) -> Seq(S)] : f[1] = ss[1] /\ FlattenSeq(ss) = f[Len(ss)]
  BY <1>1, FlattenRecursion
<1> QED
  BY <1>2

LEMMA FlattenType ==
  ASSUME NEW S, NEW ss \in Seq(Seq(S))
  PROVE  FlattenSeq(ss) \in Seq(S)
<1>1. CASE ss = <<>>
  BY <1>1 DEF FlattenSeq
<1>2. CASE ss # <<>>
  <2>1. PICK f \in [1..Len(ss) -> Seq(S)] : FlattenSeq(ss) = f[Len(ss)]
    BY <1>2, FlattenRecursion
  <2>2. Len(ss) \in 1..Len(ss)
    BY <1>2
  <2> QED
    BY <2>1, <2>2
<1> QED
  BY <1>1, <1>2

LEMMA FlattenAppend ==
  ASSUME NEW S, NEW ss \in Seq(Seq(S)), NEW tt \in Seq(Seq(S)),
         Len(tt) = Len(ss) + 1, \A i \in 1..Len(ss) : tt[i] = ss[i]
  PROVE  FlattenSeq(tt) = FlattenSeq(ss) \o tt[Len(tt)]
<1> DEFINE n == Len(ss)
<1>1. n \in Nat /\ Len(tt) = n + 1
  OBVIOUS
<1>2. CASE n = 0
  <2>1. ss = <<>> /\ FlattenSeq(ss) = <<>>
    BY <1>2 DEF FlattenSeq
  <2>2. FlattenSeq(tt) = tt[1] /\ tt[1] \in Seq(S)
    BY <1>1, <1>2, FlattenOne
  <2> QED
    BY <2>1, <2>2, <1>1, <1>2, ConcatEmptySeq
<1>3. CASE n # 0
  <2>1. ss # <<>> /\ tt # <<>>
    BY <1>1, <1>3
  <2>2. PICK f \in [1..n -> Seq(S)] :
           /\ f[1] = ss[1]
           /\ \A i \in 2..n : f[i] = f[i - 1] \o ss[i]
           /\ FlattenSeq(ss) = f[n]
    BY <2>1, FlattenRecursion
  <2>3. PICK g \in [1..(n + 1) -> Seq(S)] :
           /\ g[1] = tt[1]
           /\ \A i \in 2..(n + 1) : g[i] = g[i - 1] \o tt[i]
           /\ FlattenSeq(tt) = g[n + 1]
    <3>1. \E g \in [1..Len(tt) -> Seq(S)] :
           /\ g[1] = tt[1]
           /\ \A i \in 2..Len(tt) : g[i] = g[i - 1] \o tt[i]
           /\ FlattenSeq(tt) = g[Len(tt)]
      BY <2>1, FlattenRecursion
    <3> HIDE DEF n
    <3> QED
      BY <3>1, <1>1
  <2> HIDE DEF n
  <2> DEFINE T == {i \in 1..n : f[i] = g[i]}
  <2>4. 1 \in T
    BY <2>2, <2>3, <1>1, <1>3 DEF n
  <2>5. ASSUME NEW i \in 1..n, i \in T, i < n PROVE i + 1 \in T
    <3>1. i + 1 \in 2..n /\ i + 1 \in 2..(n + 1) /\ (i + 1) - 1 = i /\ ss[i + 1] = tt[i + 1]
      <4>1. i + 1 \in 2..n /\ i + 1 \in 2..(n + 1) /\ i + 1 \in 1..n /\ (i + 1) - 1 = i
        <5>1. i \in Int /\ 1 <= i /\ i < n /\ n \in Nat
          BY <2>5, <1>1
        <5> QED
          BY <5>1
      <4> QED
        BY <4>1, <1>1 DEF n
    <3>2. f[i + 1] = f[i] \o ss[i + 1] /\ g[i + 1] = g[i] \o tt[i + 1]
      BY <3>1, <2>2, <2>3
    <3>3. f[i] = g[i]
      BY <2>5
    <3>4. f[i + 1] = g[i + 1]
      BY <3>1, <3>2, <3>3
    <3>5. i + 1 \in 1..n
      BY <3>1, <1>1
    <3> QED
      BY <3>4, <3>5
  <2> HIDE DEF T
  <2>6. \A i \in 1..n : i \in T
    BY <2>4, <2>5, <1>1, IntervalInduction
  <2>7. f[n] = g[n]
    BY <2>6, <1>1, <1>3 DEF T
  <2>8. g[n + 1] = g[n] \o tt[n + 1]
    <3>1. n + 1 \in 2..(n + 1) /\ (n + 1) - 1 = n
      BY <1>1, <1>3
    <3> QED
      BY <3>1, <2>3
  <2> QED
    BY <2>2, <2>3, <2>7, <2>8, <1>1
<1> QED
  BY <1>2, <1>3

-----------------------------------------------------------------------------
(* Recursion over the natural numbers. *)

\* The same, for a function on all natural numbers.
IsRecursiveOnNat(f, c, step) ==
  f[0] = c /\ \A n \in Nat : f[n + 1] = step[n + 1][f[n]]

LEMMA RecursiveOnNat ==
  ASSUME NEW S, NEW c \in S, NEW step \in [Nat -> [S -> S]]
  PROVE  \E f \in [Nat -> S] : IsRecursiveOnNat(f, c, step)
<1> DEFINE st(n) == [i \in 0..n |-> step[i]]
           R(n, g) == g \in [0..n -> S] /\ IsRecursive(g, 0, n, c, st(n))
           G(n) == CHOOSE g : R(n, g)
           f == [n \in Nat |-> G(n)[n]]
<1>1. ASSUME NEW n \in Nat PROVE R(n, G(n))
  <2>1. st(n) \in [0..n -> [S -> S]]
    OBVIOUS
  <2> HIDE DEF st
  <2>2. \E g \in [0..n -> S] : IsRecursive(g, 0, n, c, st(n))
    BY <2>1, RecursiveFunction
  <2> QED
    BY <2>2
<1>2. ASSUME NEW n \in Nat
      PROVE  /\ G(n) \in [0..n -> S] /\ G(n)[0] = c
             /\ \A i \in 0..n : i # 0 => G(n)[i] = step[i][G(n)[i - 1]]
  <2> DEFINE g == G(n)
  <2>1. g \in [0..n -> S] /\ g = [i \in 0..n |-> IF i = 0 THEN c ELSE st(n)[i][g[i - 1]]]
    BY <1>1 DEF IsRecursive
  <2> HIDE DEF g
  <2>2. 0 \in 0..n /\ \A i \in 0..n : st(n)[i] = step[i]
    OBVIOUS
  <2> HIDE DEF st
  <2>3. g[0] = c
    BY <2>1, <2>2
  <2>4. \A i \in 0..n : i # 0 => g[i] = step[i][g[i - 1]]
    BY <2>1, <2>2
  <2> QED
    BY <2>1, <2>3, <2>4 DEF g
<1> HIDE DEF G
<1>3. ASSUME NEW n \in Nat PROVE G(n + 1)[n] = G(n)[n]
  <2> DEFINE T == {i \in 0..n : G(n + 1)[i] = G(n)[i]}
  <2>1. n + 1 \in Nat /\ 0 \in Nat /\ 0 \in 0..n /\ n \in 0..n
    OBVIOUS
  <2>2. 0 \in T
    BY <2>1, <1>2
  <2>3. \A i \in 0..n : i \in T /\ i < n => i + 1 \in T
    <3> SUFFICES ASSUME NEW i \in 0..n, i \in T, i < n PROVE i + 1 \in T
      OBVIOUS
    <3>1. i + 1 \in 0..n /\ i + 1 \in 0..(n + 1) /\ i + 1 # 0 /\ (i + 1) - 1 = i
      OBVIOUS
    <3>2. G(n)[i + 1] = step[i + 1][G(n)[i]]
      BY <3>1, <1>2
    <3>3. G(n + 1)[i + 1] = step[i + 1][G(n + 1)[i]]
      BY <3>1, <2>1, <1>2
    <3> QED
      BY <3>1, <3>2, <3>3
  <2> HIDE DEF T
  <2>4. n \in T
    BY <2>1, <2>2, <2>3, IntervalInduction
  <2> QED
    BY <2>4 DEF T
<1>4. f \in [Nat -> S]
  <2>1. ASSUME NEW n \in Nat PROVE G(n)[n] \in S
    BY <1>2
  <2> QED
    BY <2>1
<1>5. f[0] = c
  BY <1>2
<1>6. ASSUME NEW n \in Nat PROVE f[n + 1] = step[n + 1][f[n]]
  <2>1. n + 1 \in Nat /\ n + 1 \in 0..(n + 1) /\ n + 1 # 0 /\ (n + 1) - 1 = n
    OBVIOUS
  <2>2. f[n + 1] = G(n + 1)[n + 1] /\ f[n] = G(n)[n]
    BY <2>1
  <2>3. G(n + 1)[n + 1] = step[n + 1][G(n + 1)[n]]
    BY <2>1, <1>2
  <2> HIDE DEF f
  <2> QED
    BY <2>2, <2>3, <1>3
<1> HIDE DEF f
<1>7. IsRecursiveOnNat(f, c, step)
  BY <1>5, <1>6 DEF IsRecursiveOnNat
<1> QED
  BY <1>4, <1>7

\* A property of the values of a recursive function.
LEMMA RecursionInvariant ==
  ASSUME NEW m \in Nat, NEW n \in Nat, NEW S, NEW f, f[m] \in S,
         \A i \in m..n : i < n /\ f[i] \in S => f[i + 1] \in S
  PROVE  \A i \in m..n : f[i] \in S
<1> DEFINE T == {i \in m..n : f[i] \in S}
<1>1. CASE m > n
  BY <1>1
<1>2. CASE m <= n
  <2>1. m \in T
    BY <1>2
  <2>2. \A i \in m..n : i \in T /\ i < n => i + 1 \in T
    OBVIOUS
  <2> HIDE DEF T
  <2>3. \A i \in m..n : i \in T
    BY <2>1, <2>2, IntervalInduction
  <2> QED
    BY <2>3 DEF T
<1> QED
  BY <1>1, <1>2

-----------------------------------------------------------------------------
(* Powers of two. *)

LEMMA Pow2Recursion ==
  /\ Pow2 \in [Nat -> Nat] /\ Pow2[0] = 1
  /\ \A n \in Nat : Pow2[n + 1] = 2 * Pow2[n]
<1> DEFINE D(f) == [n \in Nat |-> IF n = 0 THEN 1 ELSE 2 * f[n - 1]]
           step == [n \in Nat |-> [x \in Nat |-> 2 * x]]
<1>1. step \in [Nat -> [Nat -> Nat]]
  OBVIOUS
<1>2. \A n \in Nat : \A x \in Nat : step[n][x] = 2 * x
  OBVIOUS
<1> HIDE DEF step
<1>3. PICK f \in [Nat -> Nat] : f[0] = 1 /\ \A n \in Nat : f[n + 1] = step[n + 1][f[n]]
  <2> DEFINE S == Nat
             c == 1
  <2>1. c \in S /\ step \in [Nat -> [S -> S]]
    BY <1>1
  <2> HIDE DEF S, c
  <2>2. \E f \in [Nat -> S] : IsRecursiveOnNat(f, c, step)
    BY <2>1, RecursiveOnNat
  <2> QED
    BY <2>2 DEF S, c, IsRecursiveOnNat
<1>4. \A n \in Nat : f[n + 1] = 2 * f[n]
  <2> SUFFICES ASSUME NEW n \in Nat PROVE f[n + 1] = 2 * f[n]
    OBVIOUS
  <2>1. n + 1 \in Nat /\ f[n] \in Nat
    BY <1>3
  <2> QED
    BY <2>1, <1>2, <1>3
<1>5. f = D(f)
  <2>1. ASSUME NEW n \in Nat PROVE f[n] = IF n = 0 THEN 1 ELSE 2 * f[n - 1]
    <3>1. CASE n = 0
      BY <3>1, <1>3
    <3>2. CASE n # 0
      <4>1. n - 1 \in Nat /\ (n - 1) + 1 = n
        BY <3>2
      <4> QED
        BY <4>1, <3>2, <1>4
    <3> QED
      BY <3>1, <3>2
  <2> QED
    BY <2>1, <1>3
<1>6. Pow2 = D(Pow2)
  <2>1. Pow2 = CHOOSE g : g = D(g)
    BY DEF Pow2
  <2> HIDE DEF D
  <2> QED
    BY <2>1, <1>5
<1>7. Pow2[0] = 1
  BY <1>6
<1>8. ASSUME NEW n \in Nat PROVE Pow2[n + 1] = 2 * Pow2[n]
  <2>1. n + 1 \in Nat /\ n + 1 # 0 /\ (n + 1) - 1 = n
    OBVIOUS
  <2>2. Pow2[n + 1] = 2 * Pow2[(n + 1) - 1]
    BY <2>1, <1>6
  <2> QED
    BY <2>1, <2>2
<1>9. \A n \in Nat : Pow2[n] \in Nat
  <2> DEFINE T == {n \in Nat : Pow2[n] \in Nat}
  <2>1. 0 \in T
    BY <1>7
  <2>2. \A n \in Nat : n \in T => n + 1 \in T
    <3> SUFFICES ASSUME NEW n \in Nat, n \in T PROVE n + 1 \in T
      OBVIOUS
    <3>1. Pow2[n] \in Nat /\ Pow2[n + 1] = 2 * Pow2[n]
      BY <1>8
    <3>2. Pow2[n + 1] \in Nat
      BY <3>1
    <3> QED
      BY <3>2
  <2> HIDE DEF T
  <2>3. \A n \in Nat : n \in T
    BY <2>1, <2>2, SetInduction
  <2> QED
    BY <2>3 DEF T
<1>10. Pow2 \in [Nat -> Nat]
  BY <1>6, <1>9
<1> QED
  BY <1>7, <1>8, <1>10

LEMMA Pow2Positive == \A n \in Nat : Pow2[n] \in Nat /\ Pow2[n] >= 1
<1> DEFINE T == {n \in Nat : Pow2[n] >= 1}
<1>1. 0 \in T
  BY Pow2Recursion
<1>2. \A n \in Nat : n \in T => n + 1 \in T
  <2> SUFFICES ASSUME NEW n \in Nat, n \in T PROVE n + 1 \in T
    OBVIOUS
  <2>1. Pow2[n] \in Nat /\ Pow2[n] >= 1 /\ Pow2[n + 1] = 2 * Pow2[n]
    BY Pow2Recursion
  <2>2. Pow2[n + 1] >= 1
    BY <2>1
  <2> QED
    BY <2>2
<1> HIDE DEF T
<1>3. \A n \in Nat : n \in T
  BY <1>1, <1>2, SetInduction
<1> QED
  BY <1>3, Pow2Recursion DEF T

LEMMA Pow2Add ==
  ASSUME NEW a \in Nat, NEW b \in Nat
  PROVE  Pow2[a + b] = Pow2[a] * Pow2[b]
<1> DEFINE T == {n \in Nat : Pow2[a + n] = Pow2[a] * Pow2[n]}
<1>1. 0 \in T
  <2>1. a + 0 = a /\ Pow2[0] = 1 /\ Pow2[a] \in Nat
    BY Pow2Recursion
  <2> QED
    BY <2>1
<1>2. \A n \in Nat : n \in T => n + 1 \in T
  <2> SUFFICES ASSUME NEW n \in Nat, n \in T PROVE n + 1 \in T
    OBVIOUS
  <2> DEFINE x == Pow2[a]
             y == Pow2[n]
             z == Pow2[a + n]
  <2>1. x \in Nat /\ y \in Nat /\ z \in Nat /\ z = x * y
    BY Pow2Recursion
  <2>2. Pow2[n + 1] = 2 * y /\ Pow2[a + (n + 1)] = 2 * z
    <3>1. a + (n + 1) = (a + n) + 1 /\ a + n \in Nat
      OBVIOUS
    <3> QED
      BY <3>1, Pow2Recursion
  <2> HIDE DEF x, y, z
  <2>3. x * (2 * y) = 2 * (x * y)
    BY <2>1
  <2>4. Pow2[a + (n + 1)] = x * Pow2[n + 1]
    BY <2>1, <2>2, <2>3
  <2> QED
    BY <2>4 DEF x
<1> HIDE DEF T
<1>3. b \in T
  BY <1>1, <1>2, SetInduction
<1> QED
  BY <1>3 DEF T

LEMMA Pow2Monotone ==
  ASSUME NEW a \in Nat, NEW b \in Nat, a <= b
  PROVE  Pow2[a] <= Pow2[b]
<1> DEFINE d == b - a
           x == Pow2[a]
           y == Pow2[d]
<1>1. d \in Nat /\ a + d = b
  OBVIOUS
<1>2. Pow2[a + d] = x * y
  BY <1>1, Pow2Add
<1>3. x \in Nat /\ y \in Nat /\ y >= 1
  BY <1>1, Pow2Positive
<1> HIDE DEF x, y, d
<1>4. x <= x * y
  BY <1>3
<1> QED
  BY <1>1, <1>2, <1>4 DEF x

\* The position of the highest bit of a number below a power of two.
LEMMA Pow2Log ==
  ASSUME NEW n \in Nat, NEW x \in Nat, x >= 1, x < Pow2[n + 1]
  PROVE  \E k \in 0..n : Pow2[k] <= x /\ x < Pow2[k + 1]
<1> DEFINE F == {k \in Nat : x < Pow2[k + 1]}
<1>1. F \subseteq Nat /\ F # {}
  OBVIOUS
<1> HIDE DEF F
<1>2. PICK k \in F : \A j \in F : k <= j
  BY <1>1, LeastElement
<1> USE DEF F
<1>3. k \in Nat /\ x < Pow2[k + 1] /\ k <= n
  BY <1>2
<1>4. Pow2[k] <= x
  <2>1. CASE k = 0
    BY <2>1, Pow2Recursion
  <2>2. CASE k # 0
    <3>1. k - 1 \in Nat /\ (k - 1) + 1 = k
      BY <2>2, <1>3
    <3>2. k - 1 \notin F
      BY <3>1, <1>2, <1>3
    <3>3. ~(x < Pow2[k])
      BY <3>1, <3>2
    <3> QED
      BY <3>3, <1>3, Pow2Positive
  <2> QED
    BY <2>1, <2>2
<1> QED
  BY <1>3, <1>4

-----------------------------------------------------------------------------
(* Division. *)

\* The quotient and the remainder are the only ones.
LEMMA DivisionUnique ==
  ASSUME NEW a \in Int, NEW b \in Nat, b > 0, NEW q \in Int, NEW r \in 0..(b - 1), a = q * b + r
  PROVE  a \div b = q /\ a % b = r
OBVIOUS

LEMMA Division ==
  ASSUME NEW a \in Nat, NEW b \in Nat, b > 0
  PROVE  /\ a \div b \in Nat /\ a % b \in 0..(b - 1)
         /\ a = ((a \div b) * b) + (a % b)
<1> DEFINE q == a \div b
<1>1. q \in Nat
  OBVIOUS
<1>2. \A k \in Nat : a < k * b => q < k
  OBVIOUS
<1>3. \A k \in Nat : a >= k * b => q >= k
  OBVIOUS
<1> HIDE DEF q
<1>4. q * b <= a
  <2>1. ~(a < q * b)
    BY <1>1, <1>2
  <2> QED
    BY <2>1, <1>1
<1>5. a < (q + 1) * b
  <2>1. q + 1 \in Nat /\ ~(q >= q + 1)
    BY <1>1
  <2>2. ~(a >= (q + 1) * b)
    BY <2>1, <1>3
  <2> QED
    BY <2>1, <2>2
<1> DEFINE p == q * b
           r == a - p
<1>6. p \in Nat /\ (q + 1) * b = p + b
  BY <1>1
<1> HIDE DEF p
<1>7. r \in 0..(b - 1) /\ a = p + r
  BY <1>4, <1>5, <1>6 DEF p
<1> HIDE DEF r
<1>8. a = q * b + r
  BY <1>7 DEF p
<1>9. q \in Int /\ a \in Int
  BY <1>1
<1>10. a % b = r
  BY <1>7, <1>8, <1>9, DivisionUnique, Zenon
<1> QED
  BY <1>1, <1>7, <1>8, <1>10, Zenon DEF q

LEMMA DivisionTwice ==
  ASSUME NEW a \in Nat, NEW b \in Nat, NEW c \in Nat, b > 0, c > 0
  PROVE  /\ (a \div b) \div c = a \div (b * c)
         /\ a % (b * c) = (((a \div b) % c) * b) + (a % b)
<1> DEFINE q == a \div b
           r == a % b
           s == q \div c
           t == q % c
<1>1. q \in Nat /\ r \in 0..(b - 1) /\ a = q * b + r
  BY Division
<1>2. s \in Nat /\ t \in 0..(c - 1) /\ q = s * c + t
  BY <1>1, Division
<1> HIDE DEF q, r, s, t
<1> DEFINE d == b * c
           u == t * b + r
<1>3. d \in Nat /\ d > 0
  OBVIOUS
<1>4. u \in Nat /\ u < d
  <2>1. t * b <= (c - 1) * b
    BY <1>2
  <2>2. (c - 1) * b = d - b
    OBVIOUS
  <2> DEFINE v == t * b
  <2>3. v \in Nat
    BY <1>2
  <2> HIDE DEF v, d
  <2>4. v <= d - b
    BY <2>1, <2>2 DEF v
  <2>5. v + r \in Nat /\ v + r < d
    BY <2>3, <2>4, <1>1, <1>3
  <2> QED
    BY <2>5 DEF v
<1>5. a = s * d + u
  <2>1. (s * c + t) * b = s * (b * c) + t * b
    BY <1>2
  <2>2. a = (s * c + t) * b + r
    BY <1>1, <1>2
  <2> DEFINE x == s * (b * c)
             y == t * b
             z == (s * c + t) * b
  <2>3. x \in Nat /\ y \in Nat /\ z \in Nat
    BY <1>2
  <2> HIDE DEF x, y, z
  <2>4. z = x + y /\ a = z + r
    BY <2>1, <2>2 DEF x, y, z
  <2>5. a = x + (y + r)
    BY <2>3, <2>4, <1>1
  <2> QED
    BY <2>5 DEF x, y
<1> HIDE DEF d, u
<1>6. u \in 0..(d - 1)
  BY <1>3, <1>4
<1>7. a \div d = s /\ a % d = u
  BY <1>2, <1>3, <1>5, <1>6, DivisionUnique
<1> QED
  BY <1>7, Zenon DEF q, r, s, t, d, u

-----------------------------------------------------------------------------
(* Numbers and their bytes. *)

\* A value from which each next one is computed by a multiplication and an
\* addition.
LEMMA LinearRecursion ==
  ASSUME NEW n \in Nat, NEW a \in Nat, NEW b \in [1..n -> Nat]
  PROVE  \E f \in [0..n -> Nat] : f[0] = 0 /\ \A k \in 1..n : f[k] = f[k - 1] * a + b[k]
<1> DEFINE S == Nat
           c == 0
           step == [k \in 0..n |-> [x \in S |-> IF k = 0 THEN x ELSE x * a + b[k]]]
<1>1. step \in [0..n -> [S -> S]] /\ c \in S
  <2>1. ASSUME NEW k \in 0..n, k # 0, NEW x \in Nat PROVE x * a + b[k] \in Nat
    <3>1. b[k] \in Nat /\ x * a \in Nat
      BY <2>1
    <3> QED
      BY <3>1
  <2> QED
    BY <2>1
<1>2. \A k \in 1..n : \A x \in Nat : step[k][x] = x * a + b[k]
  OBVIOUS
<1> HIDE DEF step
<1>3. PICK f \in [0..n -> S] : IsRecursive(f, 0, n, c, step)
  <2> HIDE DEF S, c
  <2> QED
    BY <1>1, RecursiveFunction
<1>4. f \in [0..n -> Nat] /\ f = [k \in 0..n |-> IF k = 0 THEN 0 ELSE step[k][f[k - 1]]]
  BY <1>3 DEF IsRecursive
<1>5. f[0] = 0
  BY <1>4
<1>6. ASSUME NEW k \in 1..n PROVE f[k] = f[k - 1] * a + b[k]
  <2>1. k \in 0..n /\ k # 0 /\ k - 1 \in 0..n
    OBVIOUS
  <2>2. f[k - 1] \in Nat /\ f[k] = step[k][f[k - 1]]
    BY <2>1, <1>4
  <2> QED
    BY <2>2, <1>2
<1> QED
  BY <1>4, <1>5, <1>6

\* How a number is built up from its bytes.
LEMMA NumberRecursion ==
  ASSUME NEW s \in Seq(Nat), NEW bits \in Nat
  PROVE  \E f \in [0..Len(s) -> Nat] :
           /\ f[0] = 0
           /\ \A k \in 1..Len(s) : f[k] = f[k - 1] * Pow2[bits] + s[k]
           /\ Number(s, bits) = f[Len(s)]
<1> DEFINE n == Len(s)
           Base == Pow2[bits]
           D(f) == [k \in 0..n |-> IF k = 0 THEN 0 ELSE f[k - 1] * Base + s[k]]
           upTo == CHOOSE f : f = D(f)
<1>1. n \in Nat /\ s \in [1..n -> Nat] /\ Number(s, bits) = upTo[n]
  BY DEF Number
<1> HIDE DEF n
<1>2. Base \in Nat
  BY Pow2Positive
<1> HIDE DEF Base
<1>3. PICK f \in [0..n -> Nat] : f[0] = 0 /\ \A k \in 1..n : f[k] = f[k - 1] * Base + s[k]
  BY <1>1, <1>2, LinearRecursion
<1>4. f = D(f)
  <2>1. ASSUME NEW k \in 0..n PROVE f[k] = IF k = 0 THEN 0 ELSE f[k - 1] * Base + s[k]
    <3>1. k = 0 \/ k \in 1..n
      BY <1>1
    <3> QED
      BY <3>1, <1>1, <1>3
  <2> QED
    BY <2>1, <1>3
<1>5. upTo = D(upTo)
  <2> HIDE DEF D
  <2> QED
    BY <1>4
<1> HIDE DEF upTo
<1>6. upTo[0] = 0 /\ \A k \in 1..n : upTo[k] = upTo[k - 1] * Base + s[k]
  <2>1. \A k \in 0..n : upTo[k] = IF k = 0 THEN 0 ELSE upTo[k - 1] * Base + s[k]
    BY <1>5
  <2>2. 0 \in 0..n /\ \A k \in 1..n : k \in 0..n /\ k # 0
    BY <1>1
  <2> QED
    BY <2>1, <2>2, Zenon
<1>7. \A k \in 0..n : k < n /\ upTo[k] \in Nat => upTo[k + 1] \in Nat
  <2> SUFFICES ASSUME NEW k \in 0..n, k < n, upTo[k] \in Nat PROVE upTo[k + 1] \in Nat
    OBVIOUS
  <2>1. k + 1 \in 1..n /\ (k + 1) - 1 = k
    BY <1>1
  <2>2. upTo[k + 1] = upTo[k] * Base + s[k + 1] /\ s[k + 1] \in Nat
    BY <2>1, <1>1, <1>6
  <2>3. \A x, y, z \in Nat : x * y + z \in Nat
    <3> SUFFICES ASSUME NEW x \in Nat, NEW y \in Nat, NEW z \in Nat PROVE x * y + z \in Nat
      OBVIOUS
    <3>1. x * y \in Nat
      OBVIOUS
    <3> QED
      BY <3>1
  <2> DEFINE x == upTo[k]
             y == Base
             z == s[k + 1]
  <2>4. x \in Nat /\ y \in Nat /\ z \in Nat /\ upTo[k + 1] = x * y + z
    BY <2>2, <1>2
  <2> HIDE DEF x, y, z
  <2>5. x * y + z \in Nat
    BY <2>3, <2>4
  <2> QED
    BY <2>4, <2>5, Zenon
<1>8. \A k \in 0..n : upTo[k] \in Nat
  <2> DEFINE S == Nat
             g == upTo
             m == 0
  <2>1. m \in Nat /\ g[m] \in S /\ \A k \in m..n : k < n /\ g[k] \in S => g[k + 1] \in S
    BY <1>6, <1>7
  <2> HIDE DEF S, g, m
  <2>2. \A k \in m..n : g[k] \in S
    BY <2>1, <1>1, RecursionInvariant
  <2> QED
    BY <2>2 DEF S, g, m
<1>9. upTo \in [0..n -> Nat]
  BY <1>5, <1>8
<1> QED
  BY <1>1, <1>6, <1>9 DEF n, Base

LEMMA DigitsType ==
  ASSUME NEW n \in Nat, NEW p \in Nat, NEW bits \in Nat
  PROVE  Digits(n, p, bits) \in Seq(Nat) /\ Len(Digits(n, p, bits)) = p
<1> DEFINE Base == Pow2[bits]
<1>1. ASSUME NEW i \in 1..p PROVE (n \div Pow2[bits * (p - i)]) % Base \in Nat
  <2> DEFINE e == bits * (p - i)
             b == Pow2[e]
  <2>1. e \in Nat
    <3>1. bits \in Nat /\ p - i \in Nat
      BY Pow2Positive
    <3> QED
      BY <3>1
  <2> HIDE DEF e
  <2>2. b \in Nat /\ b > 0 /\ Base \in Nat /\ Base > 0
    BY <2>1, Pow2Positive
  <2> HIDE DEF b
  <2>3. n \div b \in Nat
    BY <2>2, Division
  <2> DEFINE q == n \div b
  <2> HIDE DEF q
  <2>4. q % Base \in Nat
    BY <2>2, <2>3, Division DEF q
  <2> QED
    BY <2>4 DEF q, b, e
<1> DEFINE v(i) == (n \div Pow2[bits * (p - i)]) % Base
<1>2. Digits(n, p, bits) = [i \in 1..p |-> v(i)] /\ \A i \in 1..p : v(i) \in Nat
  BY <1>1 DEF Digits
<1> HIDE DEF v
<1> QED
  BY <1>2

\* The value of the first k bytes of a size n.
LEMMA NumberOfDigits ==
  ASSUME NEW n \in Nat, NEW p \in Nat, NEW bits \in Nat
  PROVE  Number(Digits(n, p, bits), bits) = n % Pow2[bits * p]
<1> DEFINE s == Digits(n, p, bits)
           Base == Pow2[bits]
           sizeRange == Pow2[bits * p]
           low(k) == Pow2[bits * (p - k)]
           high(k) == Pow2[bits * k]
<1>1. s \in Seq(Nat) /\ Len(s) = p /\ p \in Nat
  BY DigitsType
<1>2. \A i \in 1..p : s[i] = (n \div low(i)) % Base
  BY DEF Digits
<1>3. \A k \in 0..p : low(k) \in Nat /\ low(k) > 0 /\ high(k) \in Nat /\ high(k) > 0
  <2> SUFFICES ASSUME NEW k \in 0..p PROVE low(k) \in Nat /\ low(k) > 0 /\ high(k) \in Nat /\ high(k) > 0
    OBVIOUS
  <2>1. bits \in Nat /\ p - k \in Nat /\ k \in Nat
    BY Pow2Positive
  <2>2. bits * (p - k) \in Nat /\ bits * k \in Nat
    BY <2>1
  <2> QED
    BY <2>2, Pow2Positive
<1>4. ASSUME NEW k \in 1..p
      PROVE  low(k - 1) = low(k) * Base /\ high(k) = Base * high(k - 1)
  <2> DEFINE x == bits * (p - k)
             y == bits * (k - 1)
  <2>1. bits \in Nat /\ p - k \in Nat /\ k - 1 \in Nat
    BY Pow2Positive
  <2>2. x \in Nat /\ y \in Nat
    BY <2>1
  <2>3. bits * (p - (k - 1)) = x + bits /\ bits * k = bits + y
    BY <2>1, <1>1
  <2> HIDE DEF x, y
  <2>4. Pow2[x + bits] = Pow2[x] * Pow2[bits] /\ Pow2[bits + y] = Pow2[bits] * Pow2[y]
    BY <2>1, <2>2, Pow2Add
  <2> QED
    BY <2>3, <2>4 DEF x, y
<1>5. PICK f \in [0..p -> Nat] :
        f[0] = 0 /\ (\A k \in 1..p : f[k] = f[k - 1] * Base + s[k]) /\ Number(s, bits) = f[p]
  <2> HIDE DEF s
  <2> QED
    BY <1>1, NumberRecursion
<1>6. low(p) = 1 /\ high(0) = 1 /\ high(p) = sizeRange /\ Base \in Nat /\ Base > 0
  <2>1. bits * (p - p) = 0 /\ bits * 0 = 0
    BY <1>1
  <2>2. low(p) = 1 /\ high(0) = 1
    BY <2>1, Pow2Recursion
  <2>3. high(p) = sizeRange
    BY DEF sizeRange
  <2>4. Base \in Nat /\ Base > 0
    BY Pow2Positive
  <2> QED
    BY <2>2, <2>3, <2>4
<1> HIDE DEF s, low, high, Base, sizeRange
<1> DEFINE T == {k \in 0..p : f[k] = (n \div low(k)) % high(k)}
           zero == 0
<1>7. zero \in Nat /\ zero \in T
  <2> DEFINE b == low(0)
             q == n \div b
  <2>0. b \in Nat /\ b > 0
    BY <1>1, <1>3
  <2> HIDE DEF b
  <2>1. q \in Nat
    BY <2>0, Division
  <2> HIDE DEF q
  <2>2. q % 1 = 0
    BY <2>1
  <2> QED
    BY <2>2, <1>1, <1>5, <1>6 DEF q, b
<1>8. \A k \in zero..p : k \in T /\ k < p => k + 1 \in T
  <2> SUFFICES ASSUME NEW k \in 0..p, k \in T, k < p PROVE k + 1 \in T
    OBVIOUS
  <2> DEFINE b == low(k + 1)
             c == high(k)
             a == n \div b
  <2>1. k + 1 \in 1..p /\ k + 1 \in 0..p /\ (k + 1) - 1 = k
    BY <1>1
  <2>2. low(k) = b * Base /\ high(k + 1) = Base * c
    BY <2>1, <1>4
  <2>3. b \in Nat /\ b > 0 /\ c \in Nat /\ c > 0
    BY <2>1, <1>3
  <2>4. f[k] = (n \div low(k)) % c
    OBVIOUS
  <2>5. f[k + 1] = (f[k] * Base) + ((n \div b) % Base)
    BY <2>1, <1>2, <1>5
  <2> HIDE DEF b, c
  <2>6. a \in Nat /\ a \div Base = n \div (b * Base)
    <3>1. a \in Nat
      BY <2>3, Division
    <3>2. a \div Base = n \div (b * Base)
      BY <2>3, <1>6, DivisionTwice
    <3> QED
      BY <3>1, <3>2
  <2> HIDE DEF a
  <2>7. a % (Base * c) = (((a \div Base) % c) * Base) + (a % Base)
    BY <2>3, <2>6, <1>6, DivisionTwice
  <2>8. f[k + 1] = a % high(k + 1)
    BY <2>2, <2>4, <2>5, <2>6, <2>7, Zenon DEF a
  <2> QED
    BY <2>8, <2>1 DEF a, b
<1>9. \A k \in zero..p : k \in T
  <2> HIDE DEF T, zero
  <2> QED
    BY <1>1, <1>7, <1>8, IntervalInduction
<1>10. f[p] = (n \div 1) % sizeRange
  BY <1>1, <1>6, <1>9
<1>11. n \div 1 = n
  OBVIOUS
<1> QED
  BY <1>5, <1>10, <1>11 DEF s, sizeRange

-----------------------------------------------------------------------------
(* Sequences made of others. *)

\* The elements of the first sequence, then those of the second.
LEMMA ConcatElements ==
  ASSUME NEW S, NEW a \in Seq(S), NEW b \in Seq(S)
  PROVE  /\ a \o b \in Seq(S) /\ Len(a \o b) = Len(a) + Len(b)
         /\ \A i \in 1..Len(a) : (a \o b)[i] = a[i]
         /\ \A i \in 1..Len(b) : (a \o b)[Len(a) + i] = b[i]
<1> DEFINE c == a \o b
           m == Len(a)
           n == Len(b)
<1>1. m \in Nat /\ n \in Nat
  OBVIOUS
<1>2. c \in Seq(S) /\ Len(c) = m + n /\ \A i \in 1..(m + n) : c[i] = IF i <= m THEN a[i] ELSE b[i - m]
  BY ConcatProperties, Zenon
<1> HIDE DEF c, m, n
<1>3. ASSUME NEW i \in 1..m PROVE c[i] = a[i]
  <2>1. i \in 1..(m + n) /\ i <= m
    BY <1>1
  <2> QED
    BY <2>1, <1>2
<1>4. ASSUME NEW i \in 1..n PROVE c[m + i] = b[i]
  <2> DEFINE j == m + i
  <2>1. j \in 1..(m + n) /\ ~(j <= m) /\ j - m = i
    BY <1>1
  <2> HIDE DEF j
  <2>2. c[j] = b[i]
    BY <2>1, <1>2
  <2> QED
    BY <2>2 DEF j
<1> QED
  BY <1>2, <1>3, <1>4 DEF c, m, n

\* A sequence that is found in another one is a part of it.
LEMMA SubSeqElements ==
  ASSUME NEW S, NEW d \in Seq(S), NEW u \in Seq(S), NEW m \in Nat,
         m + Len(u) <= Len(d), \A i \in 1..Len(u) : d[m + i] = u[i]
  PROVE  SubSeq(d, m + 1, m + Len(u)) = u
<1> DEFINE n == Len(u)
           a == m + 1
           b == m + n
           w == SubSeq(d, a, b)
<1>1. n \in Nat /\ Len(d) \in Nat
  OBVIOUS
<1>2. a \in Int /\ b \in Int /\ b - a + 1 = n /\ (a <= b \/ n = 0) /\ \A i \in a..b : i \in 1..Len(d)
  <2> HIDE DEF n
  <2> QED
    BY <1>1 DEF n
<1>3. \A i \in a..b : d[i] \in S
  <2> HIDE DEF a, b, n
  <2> QED
    BY <1>2
<1> HIDE DEF a, b, n
<1>4. /\ w \in Seq(S) /\ Len(w) = (IF a <= b THEN b - a + 1 ELSE 0)
      /\ \A i \in 1..(b - a + 1) : w[i] = d[a + i - 1]
  BY <1>2, <1>3, SubSeqProperties
<1> HIDE DEF w
<1>5. Len(w) = n
  BY <1>1, <1>2, <1>4
<1>6. \A i \in 1..n : w[i] = u[i]
  <2> SUFFICES ASSUME NEW i \in 1..n PROVE w[i] = u[i]
    OBVIOUS
  <2>1. w[i] = d[a + i - 1]
    BY <1>2, <1>4
  <2>2. a + i - 1 = m + i
    BY DEF a
  <2>3. d[m + i] = u[i]
    BY DEF n
  <2> QED
    BY <2>1, <2>2, <2>3
<1>7. w = u
  <2>1. w = [i \in 1..n |-> w[i]] /\ u = [i \in 1..n |-> u[i]]
    BY <1>4, <1>5 DEF n
  <2> QED
    BY <2>1, <1>6
<1> QED
  BY <1>7 DEF w, a, b, n

\* The sequences ss are found in d behind one another; ss[k] ends at e[k].
AreParts(ss, d, e) ==
  /\ e[0] = 0
  /\ \A k \in 1..Len(ss) : e[k] = e[k - 1] + Len(ss[k])
  /\ Len(d) = e[Len(ss)]
  /\ \A k \in 1..Len(ss) :
       /\ e[k] <= Len(d)
       /\ \A i \in 1..Len(ss[k]) : d[e[k - 1] + i] = ss[k][i]

LEMMA FlattenParts ==
  ASSUME NEW S, NEW ss \in Seq(Seq(S)), ss # <<>>
  PROVE  \E e \in [0..Len(ss) -> Nat] : AreParts(ss, FlattenSeq(ss), e)
<1> DEFINE n == Len(ss)
           lens == [k \in 1..n |-> Len(ss[k])]
<1>1. n \in Nat /\ n >= 1 /\ \A k \in 1..n : ss[k] \in Seq(S) /\ Len(ss[k]) \in Nat
  OBVIOUS
<1>2. PICK f \in [1..n -> Seq(S)] :
        f[1] = ss[1] /\ (\A i \in 2..n : f[i] = f[i - 1] \o ss[i]) /\ FlattenSeq(ss) = f[n]
  BY FlattenRecursion
<1> HIDE DEF n
<1>3. lens \in [1..n -> Nat] /\ \A k \in 1..n : lens[k] = Len(ss[k])
  BY <1>1
<1> HIDE DEF lens
<1>4. PICK e \in [0..n -> Nat] : e[0] = 0 /\ \A k \in 1..n : e[k] = e[k - 1] * 1 + lens[k]
  <2> DEFINE a == 1
  <2>1. a \in Nat
    OBVIOUS
  <2> HIDE DEF a
  <2>2. \E e \in [0..n -> Nat] : e[0] = 0 /\ \A k \in 1..n : e[k] = e[k - 1] * a + lens[k]
    BY <2>1, <1>1, <1>3, LinearRecursion
  <2> QED
    BY <2>2 DEF a
<1>5. \A k \in 1..n : e[k] = e[k - 1] + Len(ss[k]) /\ e[k] \in Nat /\ e[k - 1] \in Nat
  <2> SUFFICES ASSUME NEW k \in 1..n PROVE e[k] = e[k - 1] + Len(ss[k]) /\ e[k] \in Nat /\ e[k - 1] \in Nat
    OBVIOUS
  <2>1. k - 1 \in 0..n /\ k \in 0..n
    BY <1>1
  <2>2. e[k - 1] \in Nat /\ e[k] \in Nat /\ e[k] = e[k - 1] * 1 + Len(ss[k])
    BY <2>1, <1>3, <1>4
  <2> QED
    BY <2>2, <1>1
<1> DEFINE Q(j) == /\ Len(f[j]) = e[j]
                   /\ \A k \in 1..j :
                        /\ e[k] <= e[j]
                        /\ \A i \in 1..Len(ss[k]) : f[j][e[k - 1] + i] = ss[k][i]
           T == {j \in 1..n : Q(j)}
           one == 1
<1>6. one \in Nat /\ one \in T
  <2>1. 1 \in 1..n /\ e[1] = e[0] + Len(ss[1]) /\ e[0] = 0 /\ e[1] \in Nat /\ Len(ss[1]) \in Nat
    <3>1. 1 \in 1..n /\ 1 - 1 = 0
      BY <1>1
    <3> QED
      BY <3>1, <1>1, <1>4, <1>5
  <2>2. Len(f[1]) = e[1]
    BY <2>1, <1>2
  <2>3. ASSUME NEW k \in 1..1
        PROVE  e[k] <= e[1] /\ \A i \in 1..Len(ss[k]) : f[1][e[k - 1] + i] = ss[k][i]
    <3>1. k = 1 /\ k - 1 = 0
      OBVIOUS
    <3>2. \A i \in 1..Len(ss[1]) : 0 + i = i
      BY <2>1
    <3>3. \A i \in 1..Len(ss[1]) : f[1][e[0] + i] = ss[1][i]
      BY <2>1, <3>2, <1>2
    <3> QED
      BY <3>1, <3>3, <2>1
  <2> QED
    BY <2>1, <2>2, <2>3
<1>7. \A j \in one..n : j \in T /\ j < n => j + 1 \in T
  <2> SUFFICES ASSUME NEW j \in 1..n, j \in T, j < n PROVE j + 1 \in T
    OBVIOUS
  <2> DEFINE h == j + 1
  <2>1. h \in 2..n /\ h \in 1..n /\ h - 1 = j /\ Q(j)
    BY <1>1
  <2> HIDE DEF Q, h
  <2>2. f[h] = f[j] \o ss[h] /\ f[j] \in Seq(S) /\ ss[h] \in Seq(S)
    BY <2>1, <1>1, <1>2
  <2>3. /\ Len(f[h]) = Len(f[j]) + Len(ss[h])
        /\ \A i \in 1..Len(f[j]) : f[h][i] = f[j][i]
        /\ \A i \in 1..Len(ss[h]) : f[h][Len(f[j]) + i] = ss[h][i]
    <3> DEFINE x == f[j]
               y == ss[h]
    <3>1. x \in Seq(S) /\ y \in Seq(S) /\ f[h] = x \o y
      BY <2>2
    <3> HIDE DEF x, y
    <3>2. /\ Len(x \o y) = Len(x) + Len(y)
          /\ \A i \in 1..Len(x) : (x \o y)[i] = x[i]
          /\ \A i \in 1..Len(y) : (x \o y)[Len(x) + i] = y[i]
      BY <3>1, ConcatElements
    <3> QED
      BY <3>1, <3>2, Zenon DEF x, y
  <2>4. Len(f[j]) = e[j] /\ e[h] = e[j] + Len(ss[h]) /\ e[j] \in Nat /\ e[h] \in Nat /\ Len(ss[h]) \in Nat
    BY <2>1, <1>1, <1>5 DEF Q
  <2>5. ASSUME NEW k \in 1..h
        PROVE  e[k] <= e[h] /\ \A i \in 1..Len(ss[k]) : f[h][e[k - 1] + i] = ss[k][i]
    <3>1. CASE k = h
      BY <3>1, <2>1, <2>3, <2>4
    <3>2. CASE k # h
      <4>1. k \in 1..j /\ k \in 1..n
        <5>1. k \in Int /\ 1 <= k /\ k <= j + 1 /\ k # j + 1 /\ j \in Nat /\ j <= n /\ n \in Nat
          BY <3>2, <1>1 DEF h
        <5> QED
          BY <5>1
      <4>2. e[k] <= e[j] /\ \A i \in 1..Len(ss[k]) : f[j][e[k - 1] + i] = ss[k][i]
        BY <4>1, <2>1 DEF Q
      <4>3. e[k] = e[k - 1] + Len(ss[k]) /\ e[k] \in Nat /\ e[k - 1] \in Nat /\ Len(ss[k]) \in Nat
        BY <4>1, <1>1, <1>5
      <4>4. \A i \in 1..Len(ss[k]) : e[k - 1] + i \in 1..Len(f[j])
        <5> DEFINE x == e[k - 1]
                   y == Len(ss[k])
                   z == Len(f[j])
        <5>1. x \in Nat /\ y \in Nat /\ z \in Nat /\ x + y <= z
          BY <4>2, <4>3, <2>4
        <5> HIDE DEF x, y, z
        <5>2. \A i \in 1..y : x + i \in 1..z
          BY <5>1
        <5> QED
          BY <5>2 DEF x, y, z
      <4>5. \A i \in 1..Len(ss[k]) : f[h][e[k - 1] + i] = ss[k][i]
        BY <4>2, <4>4, <2>3
      <4>6. e[k] <= e[h]
        BY <4>2, <4>3, <2>4
      <4> QED
        BY <4>5, <4>6
    <3> QED
      BY <3>1, <3>2
  <2>6. Q(h)
    BY <2>3, <2>4, <2>5 DEF Q
  <2> QED
    BY <2>1, <2>6 DEF h
<1>8. \A j \in one..n : j \in T
  <2> HIDE DEF T, one
  <2> QED
    BY <1>1, <1>6, <1>7, IntervalInduction
<1>9. Q(n)
  BY <1>1, <1>8
<1>10. AreParts(ss, FlattenSeq(ss), e)
  BY <1>2, <1>4, <1>5, <1>9 DEF AreParts, n
<1> QED
  BY <1>10 DEF n
=============================================================================
