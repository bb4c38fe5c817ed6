------------------------- MODULE SampleStreamProofs -------------------------
(***************************************************************************)
(* Proofs about SampleStream: for streams of any number of V3C units of    *)
(* any sizes, and bytes of any width, the reader stays in step with the    *)
(* writer, up to the one size that the precision of the stream lacks.      *)
(***************************************************************************)
EXTENDS SampleStream, InductionLemmas, SequenceTheorems, TLAPS

-----------------------------------------------------------------------------
(* The inductive invariant. *)

Types ==
  /\ sizes \in Seq(1..MaxSize)
  /\ forced \in 0..4
  /\ precision \in Nat
  /\ bitstream \in Seq(Int)
  /\ next \in 1..(Len(sizes) + 1)
  /\ pc \in {"header", "write", "read", "done", "crash"}

\* The units in front of next are in the bitstream, each behind its size.
Written ==
  /\ Len(bitstream) = unitsEnd(next - 1)
  /\ \A k \in 1..(next - 1) :
       /\ unitsEnd(k) <= Len(bitstream)
       /\ \A i \in 1..precision : bitstream[unitsEnd(k - 1) + i] = SizeBytes(sizes[k])[i]

\* The reader has found the first units.
Found ==
  /\ unitsRead \in Seq(1..MaxSize)
  /\ Len(unitsRead) <= Len(sizes)
  /\ \A k \in 1..Len(unitsRead) : unitsRead[k] = sizes[k]
  /\ position = unitsEnd(Len(unitsRead))

Phases ==
  /\ pc = "header" => precision = 0 /\ next = 1
  /\ pc # "header" => precision = unitSizePrecision
  /\ pc \in {"header", "write"} => unitsRead = <<>>
  /\ pc \in {"read", "done", "crash"} => next = Len(sizes) + 1
  /\ pc = "done" => Len(unitsRead) = Len(sizes)
  /\ CrashOnlyAtPowerOfBase

IInv == Types /\ Written /\ Found /\ Phases

-----------------------------------------------------------------------------
(* The recursive definitions. *)

\* Where the first k of the units of sizes ss end, each behind p bytes.
EndOf(ss, p, k) ==
  LET upTo[j \in 0..Len(ss)] == IF j = 0 THEN 0 ELSE upTo[j - 1] + p + ss[j]
  IN upTo[k]

LEMMA UnitsEndIsEndOf ==
  \A k : unitsEnd(k) = EndOf(sizes, precision, k) /\ unitsEnd(k)' = EndOf(sizes', precision', k)
BY DEF unitsEnd, EndOf

LEMMA EndOfRecursion ==
  ASSUME NEW ss \in Seq(1..MaxSize), NEW p \in Nat
  PROVE  /\ EndOf(ss, p, 0) = 0
         /\ \A k \in 1..Len(ss) : EndOf(ss, p, k) = EndOf(ss, p, k - 1) + p + ss[k]
         /\ \A k \in 0..Len(ss) : EndOf(ss, p, k) \in Nat
<1> DEFINE n == Len(ss)
           D(f) == [k \in 0..n |-> IF k = 0 THEN 0 ELSE f[k - 1] + p + ss[k]]
           upTo == CHOOSE f : f = D(f)
           b == [k \in 1..n |-> p + ss[k]]
<1>1. n \in Nat /\ \A k \in 1..n : ss[k] \in Nat
  BY SampleStreamAssumption
<1>2. \A k : EndOf(ss, p, k) = upTo[k]
  BY DEF EndOf
<1> HIDE DEF n
<1>3. b \in [1..n -> Nat] /\ \A k \in 1..n : b[k] = p + ss[k]
  BY <1>1
<1> HIDE DEF b
<1>4. PICK f \in [0..n -> Nat] : f[0] = 0 /\ \A k \in 1..n : f[k] = f[k - 1] * 1 + b[k]
  <2> DEFINE a == 1
  <2>1. a \in Nat
    OBVIOUS
  <2> HIDE DEF a
  <2>2. \E f \in [0..n -> Nat] : f[0] = 0 /\ \A k \in 1..n : f[k] = f[k - 1] * a + b[k]
    BY <2>1, <1>1, <1>3, LinearRecursion
  <2> QED
    BY <2>2 DEF a
<1>5. f = D(f)
  <2>1. ASSUME NEW k \in 0..n PROVE f[k] = IF k = 0 THEN 0 ELSE f[k - 1] + p + ss[k]
    <3>1. CASE k = 0
      BY <3>1, <1>4
    <3>2. CASE k # 0
      <4>1. k \in 1..n /\ k - 1 \in 0..n
        BY <3>2, <1>1
      <4>2. f[k] = f[k - 1] * 1 + (p + ss[k]) /\ f[k - 1] \in Nat /\ ss[k] \in Nat
        BY <4>1, <1>1, <1>3, <1>4
      <4> QED
        BY <4>2, <3>2
    <3> QED
      BY <3>1, <3>2
  <2> QED
    BY <2>1, <1>4
<1>6. upTo = D(upTo)
  <2> HIDE DEF D
  <2> QED
    BY <1>5
<1> HIDE DEF upTo
<1>7. upTo[0] = 0 /\ \A k \in 1..n : upTo[k] = upTo[k - 1] + p + ss[k]
  BY <1>1, <1>6
<1>8. \A k \in 0..n : k < n /\ upTo[k] \in Nat => upTo[k + 1] \in Nat
  <2> SUFFICES ASSUME NEW k \in 0..n, k < n, upTo[k] \in Nat PROVE upTo[k + 1] \in Nat
    OBVIOUS
  <2>1. k + 1 \in 1..n /\ (k + 1) - 1 = k
    BY <1>1
  <2>2. upTo[k + 1] = upTo[k] + p + ss[k + 1] /\ ss[k + 1] \in Nat
    BY <2>1, <1>1, <1>7
  <2> QED
    BY <2>2
<1>9. \A k \in 0..n : upTo[k] \in Nat
  <2> DEFINE S == Nat
             g == upTo
             m == 0
  <2>1. m \in Nat /\ g[m] \in S /\ \A k \in m..n : k < n /\ g[k] \in S => g[k + 1] \in S
    BY <1>7, <1>8
  <2> HIDE DEF S, g, m
  <2>2. \A k \in m..n : g[k] \in S
    BY <2>1, <1>1, RecursionInvariant
  <2> QED
    BY <2>2 DEF S, g, m
<1> QED
  BY <1>2, <1>7, <1>9 DEF n

\* Where the units end in the bitstream.
LEMMA UnitsEndRecursion ==
  ASSUME sizes \in Seq(1..MaxSize), precision \in Nat
  PROVE  /\ unitsEnd(0) = 0
         /\ \A k \in 1..Len(sizes) : unitsEnd(k) = unitsEnd(k - 1) + precision + sizes[k]
         /\ \A k \in 0..Len(sizes) : unitsEnd(k) \in Nat
BY EndOfRecursion, UnitsEndIsEndOf

-----------------------------------------------------------------------------
(* What is written is read: the low bytes of a size. *)

LEMMA SizeBytesType ==
  ASSUME precision \in Nat, NEW n \in Nat
  PROVE  SizeBytes(n) \in Seq(Nat) /\ Len(SizeBytes(n)) = precision
<1>1. ByteBits \in Nat
  BY SampleStreamAssumption
<1> QED
  BY <1>1, DigitsType DEF SizeBytes

LEMMA SizeOfSizeBytes ==
  ASSUME precision \in Nat, NEW n \in Nat
  PROVE  SizeOf(SizeBytes(n)) = n % sizeRange
<1>1. ByteBits \in Nat
  BY SampleStreamAssumption
<1> QED
  BY <1>1, NumberOfDigits DEF SizeBytes, SizeOf, sizeRange

-----------------------------------------------------------------------------
(* How many bytes a size gets. *)

\* The exponent is the one of the smallest power of two that is not below x.
LEMMA CeilLog2Bounds ==
  ASSUME NEW K \in 0..31, NEW x \in Nat, x <= Pow2[K + 1]
  PROVE  /\ ceilLog2(x) \in Int /\ ceilLog2(x) <= K + 1
         /\ x >= 1 => ceilLog2(x) >= 0 /\ x <= Pow2[ceilLog2(x)]
<1>1. CASE x = 0
  BY <1>1 DEF ceilLog2
<1>2. CASE x = 1
  <2>1. ceilLog2(x) = 0
    BY <1>2 DEF ceilLog2, floorLog2
  <2> QED
    BY <2>1, <1>2, Pow2Recursion
<1>3. CASE x >= 2
  <2> DEFINE y == x - 1
             P(k) == Pow2[k] <= y /\ y < Pow2[k + 1]
             k == CHOOSE j \in 0..31 : P(j)
  <2>1. y \in Nat /\ y >= 1 /\ y < Pow2[K + 1] /\ K \in Nat
    <3>1. K + 1 \in Nat
      OBVIOUS
    <3>2. Pow2[K + 1] \in Nat
      BY <3>1, Pow2Positive
    <3> QED
      BY <3>2, <1>3
  <2>2. ceilLog2(x) = k + 1
    BY <1>3 DEF ceilLog2, floorLog2
  <2>3. \E j \in 0..K : Pow2[j] <= y /\ y < Pow2[j + 1]
    <3> HIDE DEF y
    <3> QED
      BY <2>1, Pow2Log
  <2>4. k \in 0..31 /\ P(k)
    <3> HIDE DEF y
    <3>1. \E j \in 0..31 : P(j)
      BY <2>3
    <3> HIDE DEF P
    <3> QED
      BY <3>1
  <2> HIDE DEF k
  <2>5. k <= K
    <3> SUFFICES ASSUME K + 1 <= k PROVE FALSE
      BY <2>4
    <3>1. K + 1 \in Nat /\ k \in Nat
      BY <2>4
    <3>2. Pow2[K + 1] <= Pow2[k] /\ Pow2[k] \in Nat /\ Pow2[K + 1] \in Nat
      BY <3>1, Pow2Monotone, Pow2Positive
    <3> QED
      BY <3>2, <2>1, <2>4
  <2>6. Pow2[k + 1] \in Nat
    <3>1. k + 1 \in Nat
      BY <2>4
    <3> QED
      BY <3>1, Pow2Positive
  <2>7. x <= Pow2[k + 1]
    BY <2>4, <2>6
  <2> QED
    BY <2>2, <2>4, <2>5, <2>7
<1> QED
  BY <1>1, <1>2, <1>3

LEMMA MaxOfTwo ==
  ASSUME NEW a \in Int, NEW b \in Int
  PROVE  /\ Max({a, b}) \in {a, b} /\ Max({a, b}) >= a /\ Max({a, b}) >= b
         /\ Min({a, b}) \in {a, b} /\ Min({a, b}) <= a /\ Min({a, b}) <= b
<1>1. \E x \in {a, b} : \A y \in {a, b} : x >= y
  <2>1. CASE a >= b
    BY <2>1
  <2>2. CASE b >= a
    BY <2>2
  <2> QED
    BY <2>1, <2>2
<1>2. \E x \in {a, b} : \A y \in {a, b} : x <= y
  <2>1. CASE a >= b
    BY <2>1
  <2>2. CASE b >= a
    BY <2>2
  <2> QED
    BY <2>1, <2>2
<1>3. Max({a, b}) \in {a, b} /\ \A y \in {a, b} : Max({a, b}) >= y
  BY <1>1 DEF Max
<1>4. Min({a, b}) \in {a, b} /\ \A y \in {a, b} : Min({a, b}) <= y
  BY <1>2 DEF Min
<1> QED
  BY <1>3, <1>4

\* That many bytes have at least n bits.
LEMMA BytesForBounds ==
  ASSUME NEW n \in Int, n <= 8 * ByteBits
  PROVE  bytesFor(n) \in 1..8 /\ n <= ByteBits * bytesFor(n)
<1> DEFINE q == IF n <= 0 THEN 0 ELSE (n + ByteBits - 1) \div ByteBits
           m == Max({q, 1})
           r == Min({m, 8})
<1>0. ByteBits \in Nat /\ ByteBits > 0
  BY SampleStreamAssumption
<1>1. q \in Nat /\ n <= ByteBits * q
  <2>1. CASE n <= 0
    BY <2>1, <1>0
  <2>2. CASE n > 0
    <3> DEFINE a == n + ByteBits - 1
               d == a \div ByteBits
               e == a % ByteBits
    <3>1. a \in Nat
      BY <2>2, <1>0
    <3> HIDE DEF a
    <3>2. d \in Nat /\ e \in 0..(ByteBits - 1) /\ a = (d * ByteBits) + e
      BY <3>1, <1>0, Division
    <3>3. q = d
      BY <2>2 DEF a
    <3> HIDE DEF d, e, q
    <3>4. ByteBits * d = d * ByteBits /\ d * ByteBits \in Nat
      BY <3>2, <1>0
    <3> DEFINE z == d * ByteBits
    <3> HIDE DEF z
    <3>5. n <= z
      BY <3>2, <3>4, <1>0 DEF a, z
    <3> QED
      BY <3>2, <3>3, <3>4, <3>5 DEF z
  <2> QED
    BY <2>1, <2>2
<1> HIDE DEF q
<1>2. m \in {q, 1} /\ m >= q /\ m >= 1
  <2> DEFINE one == 1
  <2>1. one \in Int /\ q \in Int /\ m = Max({q, one})
    BY <1>1
  <2> HIDE DEF one, m
  <2>2. m \in {q, one} /\ m >= q /\ m >= one
    BY <2>1, MaxOfTwo
  <2> QED
    BY <2>2 DEF one
<1> HIDE DEF m
<1>3. m \in Nat
  BY <1>1, <1>2
<1>4. r \in {m, 8} /\ r <= m /\ r <= 8
  <2> DEFINE eight == 8
  <2>1. eight \in Int /\ m \in Int /\ r = Min({m, eight})
    BY <1>3
  <2> HIDE DEF eight, r
  <2>2. r \in {m, eight} /\ r <= m /\ r <= eight
    BY <2>1, MaxOfTwo
  <2> QED
    BY <2>2 DEF eight
<1>5. bytesFor(n) = r
  BY DEF bytesFor, r, m, q
<1> HIDE DEF r
<1>6. r \in 1..8
  BY <1>2, <1>3, <1>4
<1>7. n <= ByteBits * r
  <2>1. CASE r = 8
    BY <2>1, <1>0
  <2>2. CASE r = m
    <3>1. r >= q /\ r \in Nat
      BY <2>2, <1>2, <1>3
    <3>2. \A x, y, z \in Nat : y >= x => z * x <= z * y
      <4> SUFFICES ASSUME NEW x \in Nat, NEW y \in Nat, NEW z \in Nat, y >= x PROVE z * x <= z * y
        OBVIOUS
      <4> DEFINE d == y - x
      <4>1. d \in Nat /\ y = x + d
        OBVIOUS
      <4> HIDE DEF d
      <4>2. z * y = z * x + z * d /\ z * d \in Nat /\ z * x \in Nat
        BY <4>1
      <4> QED
        BY <4>2
    <3>3. ByteBits * q <= ByteBits * r /\ ByteBits * q \in Int /\ ByteBits * r \in Int
      BY <3>1, <3>2, <1>0, <1>1
    <3> DEFINE u == ByteBits * q
               v == ByteBits * r
    <3>4. n <= u /\ u <= v /\ u \in Int /\ v \in Int
      BY <3>3, <1>1
    <3> HIDE DEF u, v
    <3>5. n <= v
      BY <3>4
    <3> QED
      BY <3>5 DEF v
  <2> QED
    BY <1>4, <2>1, <2>2
<1> QED
  BY <1>5, <1>6, <1>7

\* Among finitely many sizes is a largest one.
LEMMA MaxOfBounded ==
  ASSUME NEW m \in Nat, NEW S, S \subseteq 0..m, S # {}
  PROVE  Max(S) \in S /\ \A y \in S : Max(S) >= y
<1> DEFINE T == {u \in Nat : \A y \in S : u >= y}
<1>1. T \subseteq Nat /\ T # {}
  BY m \in T
<1>2. PICK u \in T : \A v \in T : u <= v
  <2> HIDE DEF T
  <2> QED
    BY <1>1, LeastElement
<1>3. u \in S
  <2> SUFFICES ASSUME u \notin S PROVE FALSE
    OBVIOUS
  <2>1. PICK y \in S : TRUE
    OBVIOUS
  <2>2. u >= 1
    BY <2>1, <1>2
  <2>3. u - 1 \in T
    BY <2>2, <1>2
  <2> QED
    BY <2>3, <1>2
<1>4. \E x \in S : \A y \in S : x >= y
  BY <1>2, <1>3
<1> QED
  BY <1>4 DEF Max

LEMMA MaxUnitSizeBounds ==
  ASSUME sizes \in Seq(1..MaxSize)
  PROVE  /\ maxUnitSize \in 0..MaxSize
         /\ \A k \in 1..Len(sizes) : sizes[k] <= maxUnitSize
<1> DEFINE S == {0} \cup Range(sizes)
<1>1. MaxSize \in Nat
  BY SampleStreamAssumption
<1>2. S \subseteq 0..MaxSize /\ S # {} /\ \A k \in 1..Len(sizes) : sizes[k] \in S
  BY <1>1 DEF Range
<1>3. maxUnitSize = Max(S)
  BY DEF maxUnitSize
<1> HIDE DEF S
<1>4. Max(S) \in S /\ \A y \in S : Max(S) >= y
  BY <1>1, <1>2, MaxOfBounded
<1> QED
  BY <1>1, <1>2, <1>3, <1>4

\* The bytes of any size that a unit has or could have had.
LEMMA BytesForSize ==
  ASSUME NEW x \in Nat, x <= MaxSize + 1
  PROVE  /\ bytesFor(ceilLog2(x)) \in 1..8
         /\ \A p \in Nat : p >= bytesFor(ceilLog2(x)) => x <= Pow2[ByteBits * p]
<1>1. MaxSize \in Nat /\ ByteBits \in Nat /\ ByteBits > 0
  BY SampleStreamAssumption
<1>2. PICK K \in 0..31 : MaxSize < Pow2[K + 1] /\ K < 8 * ByteBits
  BY SizeAssumption
<1>3. x <= Pow2[K + 1]
  <2>1. K + 1 \in Nat
    OBVIOUS
  <2>2. Pow2[K + 1] \in Nat
    BY <2>1, Pow2Positive
  <2> QED
    BY <2>2, <1>1, <1>2
<1> DEFINE c == ceilLog2(x)
           b == bytesFor(c)
<1>4. c \in Int /\ c <= K + 1 /\ (x >= 1 => c >= 0 /\ x <= Pow2[c])
  BY <1>3, CeilLog2Bounds
<1> HIDE DEF c
<1>5. c <= 8 * ByteBits
  BY <1>1, <1>2, <1>4
<1>6. b \in 1..8 /\ c <= ByteBits * b
  BY <1>4, <1>5, BytesForBounds
<1> HIDE DEF b
<1>7. ASSUME NEW p \in Nat, p >= b PROVE x <= Pow2[ByteBits * p]
  <2> DEFINE e == ByteBits * p
             d == ByteBits * b
             f == ByteBits * (p - b)
  <2>1. d \in Nat /\ f \in Nat /\ e = d + f
    <3>1. b \in Nat /\ p - b \in Nat
      BY <1>6, <1>7
    <3> QED
      BY <3>1, <1>1
  <2>2. c <= d
    BY <1>6
  <2> HIDE DEF d, e, f
  <2>3. e \in Nat /\ c <= e
    BY <2>1, <2>2, <1>4
  <2>4. Pow2[e] \in Nat
    BY <2>3, Pow2Positive
  <2>5. CASE x = 0
    BY <2>5, <2>4 DEF e
  <2>6. CASE x >= 1
    <3>1. c \in Nat /\ x <= Pow2[c]
      BY <2>6, <1>4
    <3>2. Pow2[c] <= Pow2[e] /\ Pow2[c] \in Nat
      BY <3>1, <2>3, Pow2Monotone, Pow2Positive
    <3>3. x <= Pow2[e]
      BY <3>1, <3>2, <2>4
    <3> QED
      BY <3>3 DEF e
  <2> QED
    BY <2>5, <2>6
<1> QED
  BY <1>6, <1>7 DEF b, c

\* The precision is at least the bytes of the largest unit.
LEMMA PrecisionTypes ==
  ASSUME sizes \in Seq(1..MaxSize), forced \in 0..4
  PROVE  /\ unitSizePrecision \in Nat /\ unitSizePrecision >= 1
         /\ maxUnitSize <= Pow2[ByteBits * unitSizePrecision]
<1> DEFINE m == maxUnitSize
           u == unitSizePrecision
           b == bytesFor(ceilLog2(m))
<1>1. m \in Nat /\ m <= MaxSize + 1
  BY MaxUnitSizeBounds, SampleStreamAssumption
<1>2. u = Max({b, forced})
  BY DEF unitSizePrecision
<1> HIDE DEF m, u
<1>3. b \in 1..8 /\ \A p \in Nat : p >= b => m <= Pow2[ByteBits * p]
  BY <1>1, BytesForSize
<1> HIDE DEF b
<1>4. b \in Int /\ forced \in Int
  BY <1>3
<1>5. u \in {b, forced} /\ u >= b
  BY <1>2, <1>4, MaxOfTwo
<1>6. u \in Nat /\ u >= 1
  BY <1>3, <1>5
<1>7. m <= Pow2[ByteBits * u]
  BY <1>3, <1>5, <1>6
<1> QED
  BY <1>6, <1>7 DEF m, u

\* The precision suffices for every size, but for the size that is the smallest
\* number beyond.
LEMMA PrecisionBounds ==
  ASSUME sizes \in Seq(1..MaxSize), forced \in 0..4, precision = unitSizePrecision
  PROVE  /\ precision \in Nat /\ precision >= 1
         /\ sizeRange \in Nat /\ sizeRange >= 1
         /\ maxUnitSize <= sizeRange
<1>1. precision \in Nat /\ precision >= 1 /\ maxUnitSize <= sizeRange
  BY PrecisionTypes DEF sizeRange
<1>2. sizeRange \in Nat /\ sizeRange >= 1
  <2>1. ByteBits * precision \in Nat
    BY <1>1, SampleStreamAssumption
  <2> QED
    BY <2>1, Pow2Positive DEF sizeRange
<1> QED
  BY <1>1, <1>2

-----------------------------------------------------------------------------
(* The steps. *)

\* What is computed from the sizes and the precision stays while they do.
LEMMA SamePrecision ==
  ASSUME UNCHANGED <<sizes, forced, precision>>
  PROVE  /\ \A k : unitsEnd(k)' = unitsEnd(k)
         /\ \A n : SizeBytes(n)' = SizeBytes(n)
         /\ unitSizePrecision' = unitSizePrecision
         /\ maxUnitSize' = maxUnitSize
         /\ sizeRange' = sizeRange
<1>1. \A k : unitsEnd(k)' = unitsEnd(k)
  BY UnitsEndIsEndOf
<1>2. \A n : SizeBytes(n)' = SizeBytes(n)
  BY DEF SizeBytes
<1>3. maxUnitSize' = maxUnitSize
  BY DEF maxUnitSize
<1>4. unitSizePrecision' = unitSizePrecision
  BY <1>3 DEF unitSizePrecision
<1>5. sizeRange' = sizeRange
  BY DEF sizeRange
<1> QED
  BY <1>1, <1>2, <1>3, <1>4, <1>5

LEMMA InitIInv == Init => IInv
<1> SUFFICES ASSUME Init PROVE IInv
  OBVIOUS
<1>1. Types
  <2>1. sizes \in Seq(1..MaxSize)
    <3>1. PICK m \in 0..MaxUnits : sizes \in [1..m -> 1..MaxSize]
      BY DEF Init, BoundedSeq, SeqOf
    <3> DEFINE S == 1..MaxSize
    <3>2. m \in Nat /\ sizes \in [1..m -> S]
      BY <3>1, SampleStreamAssumption
    <3> HIDE DEF S
    <3>3. sizes \in Seq(S)
      BY <3>2
    <3> QED
      BY <3>3 DEF S
  <2> QED
    BY <2>1, SampleStreamAssumption DEF Init, Types
<1>2. unitsEnd(0) = 0
  BY <1>1, UnitsEndRecursion DEF Types
<1>3. Written
  BY <1>2 DEF Init, Written
<1>4. Found
  BY <1>1, <1>2 DEF Init, Found, Types
<1>5. Phases
  BY DEF Init, Phases, CrashOnlyAtPowerOfBase
<1> QED
  BY <1>1, <1>3, <1>4, <1>5 DEF IInv

LEMMA StutterIInv == IInv /\ UNCHANGED vars => IInv'
<1> SUFFICES ASSUME IInv, UNCHANGED vars PROVE IInv'
  OBVIOUS
<1> USE DEF vars
<1>1. Types'
  BY DEF IInv, Types
<1>2. Written'
  BY SamePrecision DEF IInv, Written
<1>3. Found'
  BY SamePrecision DEF IInv, Found
<1>4. Phases'
  BY SamePrecision DEF IInv, Phases, CrashOnlyAtPowerOfBase
<1> QED
  BY <1>1, <1>2, <1>3, <1>4 DEF IInv

LEMMA WriteHeaderIInv == IInv /\ writeHeader => IInv'
<1> SUFFICES ASSUME IInv, writeHeader PROVE IInv'
  OBVIOUS
<1>1. sizes \in Seq(1..MaxSize) /\ sizes' = sizes /\ next = 1 /\ precision \in Nat
  BY DEF IInv, Types, Phases, writeHeader
<1>2. unitsEnd(0) = 0
  BY <1>1, UnitsEndRecursion
<1>3. precision' = unitSizePrecision' /\ precision' \in Nat
  <2>1. maxUnitSize' = maxUnitSize
    BY <1>1 DEF maxUnitSize
  <2>2. unitSizePrecision' = unitSizePrecision
    BY <2>1 DEF unitSizePrecision, writeHeader
  <2>3. unitSizePrecision \in Nat
    BY PrecisionTypes DEF IInv, Types
  <2> QED
    BY <2>2, <2>3 DEF writeHeader
<1>4. unitsEnd(0)' = 0
  BY <1>1, <1>3, EndOfRecursion, UnitsEndIsEndOf
<1>5. bitstream = <<>> /\ unitsRead = <<>> /\ position = 0
  BY <1>1, <1>2 DEF IInv, Types, Written, Found, Phases, writeHeader
<1>6. Types'
  BY <1>3 DEF IInv, Types, writeHeader
<1>7. Written'
  BY <1>1, <1>4, <1>5 DEF Written, writeHeader
<1>8. Found'
  BY <1>4, <1>5 DEF IInv, Found, writeHeader
<1>9. Phases'
  BY <1>3, <1>5 DEF IInv, Phases, CrashOnlyAtPowerOfBase, writeHeader
<1> QED
  BY <1>6, <1>7, <1>8, <1>9 DEF IInv

LEMMA ConcatBytes ==
  ASSUME NEW a \in Seq(Int), NEW b \in Seq(Int)
  PROVE  /\ a \o b \in Seq(Int) /\ Len(a \o b) = Len(a) + Len(b)
         /\ \A i \in 1..Len(a) : (a \o b)[i] = a[i]
         /\ \A i \in 1..Len(b) : (a \o b)[Len(a) + i] = b[i]
<1> DEFINE S == Int
<1>1. a \in Seq(S) /\ b \in Seq(S)
  OBVIOUS
<1> HIDE DEF S
<1> QED
  BY <1>1, ConcatElements DEF S

LEMMA WriteUnitIInv == IInv /\ writeUnit => IInv'
<1> SUFFICES ASSUME IInv, writeUnit PROVE IInv'
  OBVIOUS
<1> DEFINE u == SizeBytes(sizes[next])
           w == [i \in 1..sizes[next] |-> Payload]
           b == bitstream \o u
<1>1. /\ sizes \in Seq(1..MaxSize) /\ precision \in Nat /\ bitstream \in Seq(Int)
      /\ next \in 1..Len(sizes) /\ sizes[next] \in Nat /\ MaxSize \in Nat
  BY SampleStreamAssumption DEF IInv, Types, writeUnit
<1>2. u \in Seq(Int) /\ Len(u) = precision /\ w \in Seq(Int) /\ Len(w) = sizes[next]
  <2>1. u \in Seq(Nat) /\ Len(u) = precision
    BY <1>1, SizeBytesType
  <2> HIDE DEF u
  <2>2. w \in Seq(Int) /\ Len(w) = sizes[next]
    <3> DEFINE n == sizes[next]
    <3>1. n \in Nat /\ Payload \in Int
      BY <1>1 DEF Payload
    <3> HIDE DEF n
    <3>2. [i \in 1..n |-> Payload] \in Seq(Int) /\ Len([i \in 1..n |-> Payload]) = n
      BY <3>1
    <3> QED
      BY <3>2 DEF n
  <2> HIDE DEF w
  <2> QED
    BY <2>1, <2>2
<1>3. bitstream' = b \o w /\ next' = next + 1
  BY DEF writeUnit
<1>4. UNCHANGED <<sizes, forced, precision>>
  BY DEF writeUnit
<1> HIDE DEF u, w
<1>5. /\ b \in Seq(Int) /\ Len(b) = Len(bitstream) + precision
      /\ \A i \in 1..Len(bitstream) : b[i] = bitstream[i]
      /\ \A i \in 1..precision : b[Len(bitstream) + i] = u[i]
  BY <1>1, <1>2, ConcatBytes
<1> HIDE DEF b
<1>6. /\ bitstream' \in Seq(Int) /\ Len(bitstream') = Len(b) + sizes[next]
      /\ \A i \in 1..Len(b) : bitstream'[i] = b[i]
  <2> DEFINE c == b \o w
  <2>1. c \in Seq(Int) /\ Len(c) = Len(b) + Len(w) /\ \A i \in 1..Len(b) : c[i] = b[i]
    BY <1>2, <1>5, ConcatBytes
  <2> HIDE DEF c
  <2>2. bitstream' = c
    BY <1>3 DEF c
  <2> QED
    BY <2>1, <2>2, <1>2
<1>7. Len(bitstream) \in Nat
  BY <1>1
<1>8. /\ Len(bitstream') = Len(bitstream) + precision + sizes[next]
      /\ \A i \in 1..Len(bitstream) : bitstream'[i] = bitstream[i]
      /\ \A i \in 1..precision : bitstream'[Len(bitstream) + i] = u[i]
  <2>1. Len(bitstream') = Len(bitstream) + precision + sizes[next]
    BY <1>5, <1>6
  <2>2. ASSUME NEW i \in 1..Len(bitstream) PROVE bitstream'[i] = bitstream[i]
    <3>1. i \in 1..Len(b)
      BY <1>1, <1>5, <1>7
    <3> QED
      BY <3>1, <1>5, <1>6
  <2>3. ASSUME NEW i \in 1..precision PROVE bitstream'[Len(bitstream) + i] = u[i]
    <3>1. Len(bitstream) + i \in 1..Len(b)
      BY <1>1, <1>5, <1>7
    <3> QED
      BY <3>1, <1>5, <1>6
  <2> QED
    BY <2>1, <2>2, <2>3
<1>9. /\ Len(bitstream) = unitsEnd(next - 1)
      /\ \A k \in 1..(next - 1) :
           /\ unitsEnd(k) <= Len(bitstream)
           /\ \A i \in 1..precision : bitstream[unitsEnd(k - 1) + i] = SizeBytes(sizes[k])[i]
  BY DEF IInv, Written
<1>10. /\ \A k \in 1..Len(sizes) : unitsEnd(k) = unitsEnd(k - 1) + precision + sizes[k]
       /\ \A k \in 0..Len(sizes) : unitsEnd(k) \in Nat
  BY <1>1, UnitsEndRecursion
<1>11. Len(bitstream') = unitsEnd(next) /\ next' - 1 = next
  <2>1. unitsEnd(next) = unitsEnd(next - 1) + precision + sizes[next]
    BY <1>1, <1>10
  <2>2. next' - 1 = next
    BY <1>1, <1>3
  <2> QED
    BY <2>1, <2>2, <1>8, <1>9
<1>12. ASSUME NEW k \in 1..next
       PROVE  /\ unitsEnd(k) <= Len(bitstream')
              /\ \A i \in 1..precision : bitstream'[unitsEnd(k - 1) + i] = SizeBytes(sizes[k])[i]
  <2>1. CASE k = next
    <3>1. unitsEnd(k) <= Len(bitstream')
      BY <2>1, <1>1, <1>10, <1>11
    <3> QED
      BY <3>1, <2>1, <1>8, <1>9 DEF u
  <2>2. CASE k # next
    <3>1. k \in 1..(next - 1) /\ k \in 1..Len(sizes) /\ k - 1 \in 0..Len(sizes) /\ k \in 0..Len(sizes)
      BY <2>2, <1>1
    <3>2. unitsEnd(k) <= Len(bitstream)
      BY <3>1, <1>9
    <3>3. unitsEnd(k) = unitsEnd(k - 1) + precision + sizes[k] /\ unitsEnd(k - 1) \in Nat /\ unitsEnd(k) \in Nat
      BY <3>1, <1>10
    <3>4. sizes[k] \in Nat
      BY <3>1, <1>1
    <3>5. unitsEnd(k) <= Len(bitstream')
      <4> DEFINE x == unitsEnd(k)
                 n == Len(bitstream)
                 z == sizes[next]
      <4>1. x \in Nat /\ n \in Nat /\ z \in Nat /\ x <= n /\ Len(bitstream') = n + precision + z
        BY <3>2, <3>3, <1>1, <1>7, <1>8
      <4> HIDE DEF x, n, z
      <4>2. x <= Len(bitstream')
        BY <4>1, <1>1
      <4> QED
        BY <4>2 DEF x
    <3>6. ASSUME NEW i \in 1..precision
          PROVE  bitstream'[unitsEnd(k - 1) + i] = SizeBytes(sizes[k])[i]
      <4> DEFINE x == unitsEnd(k - 1)
                 y == unitsEnd(k)
                 z == sizes[k]
                 n == Len(bitstream)
      <4>0. x \in Nat /\ y = x + precision + z /\ y <= n /\ n \in Nat /\ z \in Nat
        BY <3>2, <3>3, <3>4, <1>7
      <4> HIDE DEF x, y, z, n
      <4>A. x + i \in 1..n
        BY <4>0, <1>1
      <4>1. unitsEnd(k - 1) + i \in 1..Len(bitstream)
        BY <4>A DEF x, n
      <4>2. bitstream[unitsEnd(k - 1) + i] = SizeBytes(sizes[k])[i]
        BY <3>1, <1>9
      <4> QED
        BY <4>1, <4>2, <1>8
    <3> QED
      BY <3>5, <3>6
  <2> QED
    BY <2>1, <2>2
<1>13. /\ \A k : unitsEnd(k)' = unitsEnd(k)
       /\ \A n : SizeBytes(n)' = SizeBytes(n)
       /\ unitSizePrecision' = unitSizePrecision
       /\ maxUnitSize' = maxUnitSize /\ sizeRange' = sizeRange
  BY <1>4, SamePrecision
<1>14. Types'
  BY <1>1, <1>3, <1>4, <1>6 DEF IInv, Types, writeUnit
<1>15. Written'
  BY <1>4, <1>11, <1>12, <1>13 DEF Written
<1>16. Found'
  BY <1>13 DEF IInv, Found, writeUnit
<1>17. Phases'
  BY <1>4, <1>13 DEF IInv, Phases, CrashOnlyAtPowerOfBase, writeUnit
<1> QED
  BY <1>14, <1>15, <1>16, <1>17 DEF IInv

LEMMA WriteEndIInv == IInv /\ writeEnd => IInv'
<1> SUFFICES ASSUME IInv, writeEnd PROVE IInv'
  OBVIOUS
<1>1. UNCHANGED <<sizes, forced, precision>>
  BY DEF writeEnd
<1>2. next = Len(sizes) + 1
  <2>1. sizes \in Seq(1..MaxSize) /\ next \in 1..(Len(sizes) + 1) /\ next > Len(sizes)
    BY DEF IInv, Types, writeEnd
  <2> QED
    BY <2>1
<1>3. Types'
  BY DEF IInv, Types, writeEnd
<1>4. Written'
  BY <1>1, SamePrecision DEF IInv, Written, writeEnd
<1>5. Found'
  BY <1>1, SamePrecision DEF IInv, Found, writeEnd
<1>6. Phases'
  BY <1>1, <1>2, SamePrecision DEF IInv, Phases, CrashOnlyAtPowerOfBase, writeEnd
<1> QED
  BY <1>3, <1>4, <1>5, <1>6 DEF IInv

\* A unit begins where the reader is, unless it is at the end.
LEMMA UnitAtPosition ==
  ASSUME IInv, pc = "read"
  PROVE  /\ Len(unitsRead) \in 0..Len(sizes) /\ Len(sizes) \in Nat
         /\ Len(unitsRead) = Len(sizes) => position = Len(bitstream)
         /\ Len(unitsRead) < Len(sizes) =>
              LET k == Len(unitsRead) + 1 IN
                /\ k \in 1..Len(sizes) /\ sizes[k] \in 1..MaxSize
                /\ position \in Nat
                /\ unitsEnd(k) = position + precision + sizes[k]
                /\ unitsEnd(k) <= Len(bitstream)
                /\ \A i \in 1..precision : bitstream[position + i] = SizeBytes(sizes[k])[i]
<1>1. sizes \in Seq(1..MaxSize) /\ precision \in Nat /\ next - 1 = Len(sizes)
  BY DEF IInv, Types, Phases
<1> DEFINE n == Len(sizes)
           j == Len(unitsRead)
<1>2. n \in Nat /\ j \in 0..n
  BY <1>1 DEF IInv, Found
<1>3. position = unitsEnd(j) /\ Len(bitstream) = unitsEnd(n)
  BY <1>1 DEF IInv, Found, Written
<1>4. ASSUME j < n
      PROVE  LET k == j + 1 IN
                /\ k \in 1..n /\ sizes[k] \in 1..MaxSize
                /\ position \in Nat
                /\ unitsEnd(k) = position + precision + sizes[k]
                /\ unitsEnd(k) <= Len(bitstream)
                /\ \A i \in 1..precision : bitstream[position + i] = SizeBytes(sizes[k])[i]
  <2> DEFINE k == j + 1
  <2>1. k \in 1..n /\ k - 1 = j
    BY <1>2, <1>4
  <2>2. sizes[k] \in 1..MaxSize
    <3> DEFINE S == 1..MaxSize
    <3>1. sizes \in Seq(S) /\ k \in 1..Len(sizes)
      BY <2>1, <1>1
    <3> HIDE DEF S, k
    <3>2. sizes[k] \in S
      BY <3>1
    <3> QED
      BY <3>2 DEF S
  <2> HIDE DEF j, n, k
  <2>3. unitsEnd(k) = unitsEnd(k - 1) + precision + sizes[k] /\ unitsEnd(j) \in Nat
    BY <2>1, <1>1, <1>2, UnitsEndRecursion DEF n
  <2>4. /\ unitsEnd(k) <= Len(bitstream)
        /\ \A i \in 1..precision : bitstream[unitsEnd(k - 1) + i] = SizeBytes(sizes[k])[i]
    BY <2>1, <1>1 DEF IInv, Written, n
  <2> QED
    BY <2>1, <2>2, <2>3, <2>4, <1>3 DEF k
<1> QED
  BY <1>2, <1>3, <1>4

LEMMA ReadUnitIInv == IInv /\ readUnit => IInv'
<1> SUFFICES ASSUME IInv, readUnit PROVE IInv'
  OBVIOUS
<1>1. /\ sizes \in Seq(1..MaxSize) /\ precision \in Nat /\ MaxSize \in Nat /\ bitstream \in Seq(Int)
      /\ pc = "read" /\ position < Len(bitstream) /\ unitsRead \in Seq(1..MaxSize)
      /\ forced \in 0..4 /\ precision = unitSizePrecision
  BY SampleStreamAssumption DEF IInv, Types, Found, Phases, readUnit
<1> DEFINE j == Len(unitsRead)
           k == j + 1
           bytes == SubSeq(bitstream, position + 1, position + precision)
           size == SizeOf(bytes)
<1>2. j \in Nat /\ j < Len(sizes)
  <2>1. j \in 0..Len(sizes) /\ Len(sizes) \in Nat /\ (j = Len(sizes) => position = Len(bitstream))
    BY <1>1, UnitAtPosition
  <2>2. Len(bitstream) \in Nat
    BY <1>1
  <2> QED
    BY <2>1, <2>2, <1>1
<1>3. /\ k \in 1..Len(sizes) /\ sizes[k] \in 1..MaxSize /\ position \in Nat
      /\ unitsEnd(k) = position + precision + sizes[k]
      /\ unitsEnd(k) <= Len(bitstream)
      /\ \A i \in 1..precision : bitstream[position + i] = SizeBytes(sizes[k])[i]
  BY <1>1, <1>2, UnitAtPosition
<1> HIDE DEF k
<1>4. bytes = SizeBytes(sizes[k])
  <2> DEFINE u == SizeBytes(sizes[k])
  <2>1. u \in Seq(Int) /\ Len(u) = precision
    <3>1. u \in Seq(Nat) /\ Len(u) = precision
      BY <1>1, <1>3, SizeBytesType
    <3> HIDE DEF u
    <3> QED
      BY <3>1
  <2>2. \A i \in 1..precision : bitstream[position + i] = u[i]
    BY <1>3
  <2>3. position + precision <= Len(bitstream)
    <3> DEFINE x == sizes[k]
               n == Len(bitstream)
    <3>1. x \in Nat /\ n \in Nat /\ position + precision + x <= n
      <4>1. Len(bitstream) \in Nat
        BY <1>1
      <4>2. sizes[k] \in Nat
        BY <1>3
      <4> QED
        BY <4>1, <4>2, <1>3
    <3> HIDE DEF x, n
    <3>2. position + precision <= n
      BY <3>1, <1>1, <1>3
    <3> QED
      BY <3>2 DEF n
  <2> HIDE DEF u
  <2>4. SubSeq(bitstream, position + 1, position + Len(u)) = u
    BY <2>1, <2>2, <2>3, <1>1, <1>3, SubSeqElements
  <2> QED
    BY <2>1, <2>4 DEF u
<1>5. size = sizes[k] % sizeRange
  <2>1. sizes[k] \in Nat
    BY <1>3
  <2> QED
    BY <2>1, <1>1, <1>4, SizeOfSizeBytes
<1>6. sizeRange \in Nat /\ sizeRange >= 1 /\ maxUnitSize <= sizeRange
  BY <1>1, PrecisionBounds
<1>7. maxUnitSize \in Nat /\ sizes[k] <= maxUnitSize /\ sizes[k] \in Nat /\ sizes[k] >= 1
  BY <1>1, <1>3, MaxUnitSizeBounds
<1>8. /\ size = 0 => sizes[k] = sizeRange
      /\ size # 0 => size = sizes[k]
  <2> DEFINE x == sizes[k]
             r == sizeRange
  <2>1. x \in Nat /\ r \in Nat /\ 1 <= x /\ x <= r /\ size = x % r
    BY <1>5, <1>6, <1>7
  <2> HIDE DEF x, r, size
  <2>2. CASE x = r
    <3>1. x % r = 0
      BY <2>1, <2>2
    <3> QED
      BY <3>1, <2>1, <2>2 DEF x, r
  <2>3. CASE x < r
    <3>1. x % r = x
      BY <2>1, <2>3
    <3> QED
      BY <3>1, <2>1, <2>3 DEF x, r
  <2> QED
    BY <2>1, <2>2, <2>3
<1>9. UNCHANGED <<sizes, forced, precision, bitstream, next>>
  BY DEF readUnit
<1>10. /\ \A i : unitsEnd(i)' = unitsEnd(i)
       /\ \A n : SizeBytes(n)' = SizeBytes(n)
       /\ unitSizePrecision' = unitSizePrecision
       /\ maxUnitSize' = maxUnitSize /\ sizeRange' = sizeRange
  BY <1>9, SamePrecision
<1>11. Written'
  BY <1>9, <1>10 DEF IInv, Written
<1>12. CASE size = 0
  <2>1. pc' = "crash" /\ UNCHANGED <<position, unitsRead>>
    BY <1>12 DEF readUnit
  <2>2. maxUnitSize = sizeRange
    BY <1>1, <1>6, <1>7, <1>8, <1>12
  <2>3. Types'
    BY <2>1, <1>9 DEF IInv, Types
  <2>4. Found'
    BY <2>1, <1>9, <1>10 DEF IInv, Found
  <2>5. Phases'
    BY <2>1, <2>2, <1>1, <1>9, <1>10 DEF IInv, Phases, CrashOnlyAtPowerOfBase
  <2> QED
    BY <2>3, <2>4, <2>5, <1>11 DEF IInv
<1>13. CASE size # 0
  <2>1. size = sizes[k]
    BY <1>8, <1>13
  <2>2. pc' = pc /\ unitsRead' = Append(unitsRead, size) /\ position' = position + precision + size
    BY <1>13 DEF readUnit
  <2> HIDE DEF size
  <2>3. Types'
    BY <2>2, <1>9 DEF IInv, Types
  <2>4. Found'
    <3>1. /\ unitsRead' \in Seq(1..MaxSize) /\ Len(unitsRead') = k
          /\ \A i \in 1..j : unitsRead'[i] = unitsRead[i]
          /\ unitsRead'[k] = sizes[k]
      BY <2>1, <2>2, <1>1, <1>3 DEF k
    <3>2. \A i \in 1..j : unitsRead[i] = sizes[i]
      BY DEF IInv, Found
    <3>3. k <= Len(sizes)
      BY <1>1, <1>3
    <3>4. position' = unitsEnd(k)
      BY <2>1, <2>2, <1>3
    <3>5. \A i \in 1..k : i \in 1..j \/ i = k
      BY <1>2 DEF k
    <3>6. \A i \in 1..k : unitsRead'[i] = sizes[i]
      BY <3>1, <3>2, <3>5
    <3> QED
      BY <3>1, <3>3, <3>4, <3>6, <1>9, <1>10 DEF Found
  <2>5. Phases'
    BY <2>2, <1>1, <1>9, <1>10 DEF IInv, Phases, CrashOnlyAtPowerOfBase
  <2> QED
    BY <2>3, <2>4, <2>5, <1>11 DEF IInv
<1> QED
  BY <1>12, <1>13

LEMMA ReadEndIInv == IInv /\ readEnd => IInv'
<1> SUFFICES ASSUME IInv, readEnd PROVE IInv'
  OBVIOUS
<1>1. UNCHANGED <<sizes, forced, precision>>
  BY DEF readEnd
<1>2. Len(unitsRead) = Len(sizes)
  <2> SUFFICES ASSUME Len(unitsRead) # Len(sizes) PROVE FALSE
    OBVIOUS
  <2> DEFINE k == Len(unitsRead) + 1
  <2>0. pc = "read" /\ position >= Len(bitstream) /\ precision \in Nat /\ bitstream \in Seq(Int)
    BY DEF IInv, Types, readEnd
  <2>1. Len(unitsRead) \in 0..Len(sizes) /\ Len(sizes) \in Nat
    BY <2>0, UnitAtPosition
  <2>2. Len(unitsRead) < Len(sizes)
    BY <2>1
  <2>3. /\ sizes[k] \in 1..MaxSize /\ position \in Nat
        /\ unitsEnd(k) = position + precision + sizes[k] /\ unitsEnd(k) <= Len(bitstream)
    BY <2>0, <2>2, UnitAtPosition
  <2> HIDE DEF k
  <2>4. Len(bitstream) \in Nat
    BY <2>0
  <2> QED
    BY <2>0, <2>3, <2>4, SampleStreamAssumption
<1>3. Types'
  BY DEF IInv, Types, readEnd
<1>4. Written'
  BY <1>1, SamePrecision DEF IInv, Written, readEnd
<1>5. Found'
  BY <1>1, SamePrecision DEF IInv, Found, readEnd
<1>6. Phases'
  BY <1>1, <1>2, SamePrecision DEF IInv, Phases, CrashOnlyAtPowerOfBase, readEnd
<1> QED
  BY <1>3, <1>4, <1>5, <1>6 DEF IInv

-----------------------------------------------------------------------------
(* The theorems. *)

LEMMA IInvInvariant == Spec => []IInv
<1>1. IInv /\ [Next]_vars => IInv'
  BY StutterIInv, WriteHeaderIInv, WriteUnitIInv, WriteEndIInv, ReadUnitIInv, ReadEndIInv DEF Next
<1> QED
  BY <1>1, InitIInv, PTL DEF Spec

\* Of any stream the writer wrote, of any number of units, the reader only ever
\* finds the units the writer put there, in their order and at their place, and
\* all of them when it comes to the end.
THEOREM ReadsAlwaysInStep == Spec => []ReadsInStep
<1>1. IInv => ReadsInStep
  <2> SUFFICES ASSUME IInv PROVE ReadsInStep
    OBVIOUS
  <2>1. /\ sizes \in Seq(1..MaxSize) /\ unitsRead \in Seq(1..MaxSize)
        /\ Len(unitsRead) <= Len(sizes) /\ position = unitsEnd(Len(unitsRead))
        /\ \A k \in 1..Len(unitsRead) : unitsRead[k] = sizes[k]
    BY DEF IInv, Types, Found
  <2>2. IsPrefix(unitsRead, sizes)
    <3> DEFINE j == Len(unitsRead)
    <3>1. j \in 0..Len(sizes) /\ Len(sizes) \in Nat
      BY <2>1
    <3>2. /\ SubSeq(unitsRead, 1, j) = [i \in 1..j |-> unitsRead[i]]
          /\ SubSeq(sizes, 1, j) = [i \in 1..j |-> sizes[i]]
      BY <2>1, <3>1
    <3> QED
      BY <2>1, <3>2 DEF IsPrefix
  <2>3. pc = "done" => unitsRead = sizes
    BY <2>1 DEF IInv, Phases
  <2> QED
    BY <2>1, <2>2, <2>3 DEF ReadsInStep
<1> QED
  BY <1>1, IInvInvariant, PTL

\* The reader fails only on a stream whose largest unit has the one size that the
\* precision was rounded down for.
THEOREM CrashesOnlyAtPower == Spec => []CrashOnlyAtPowerOfBase
<1>1. IInv => CrashOnlyAtPowerOfBase
  BY DEF IInv, Phases
<1> QED
  BY <1>1, IInvInvariant, PTL
=============================================================================
