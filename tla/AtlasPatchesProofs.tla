------------------------- MODULE AtlasPatchesProofs -------------------------
(***************************************************************************)
(* Proofs about AtlasPatches: for groups of any number of frames, tiles,   *)
(* patches and reference frames, and for all bit depths, the decoder       *)
(* predicts from the patches the encoder predicted from and gets the       *)
(* depths the encoder had.                                                 *)
(***************************************************************************)
EXTENDS AtlasPatches, InductionLemmas, SequenceTheorems, TLAPS

-----------------------------------------------------------------------------
(* Quotients. *)

LEMMA Quotient ==
  ASSUME NEW a \in Nat, NEW b \in Nat, b > 0
  PROVE  /\ a \div b \in Nat
         /\ (a \div b) * b <= a
         /\ a < ((a \div b) * b) + b
<1> DEFINE q == a \div b
           r == a % b
           x == q * b
<1>1. q \in Nat /\ r \in 0..(b - 1) /\ a = x + r
  BY Division
<1>2. x \in Int
  BY <1>1
<1> HIDE DEF x, r
<1>3. x <= a /\ a < x + b
  BY <1>1, <1>2
<1> QED
  BY <1>1, <1>3 DEF x

LEMMA Products ==
  ASSUME NEW a \in Int, NEW b \in Int, NEW m \in Nat, m > 0
  PROVE  /\ a <= b <=> a * m <= b * m
         /\ a < b <=> a * m < b * m
         /\ (a + b) * m = a * m + b * m
         /\ (a - b) * m = a * m - b * m
         /\ a * m \in Int
OBVIOUS

LEMMA Multiple ==
  ASSUME NEW a \in Int, NEW m \in Nat, m > 0
  PROVE  (a * m) \div m = a /\ (a * m) % m = 0
<1> DEFINE x == a * m
<1>1. x \in Int /\ x = a * m + 0 /\ 0 \in 0..(m - 1)
  OBVIOUS
<1> HIDE DEF x
<1>2. x \div m = a /\ x % m = 0
  BY <1>1, DivisionUnique
<1> QED
  BY <1>2 DEF x

LEMMA IsMultiple ==
  ASSUME NEW a \in Nat, NEW m \in Nat, m > 0, a % m = 0
  PROVE  a \div m \in Nat /\ a = (a \div m) * m
<1>1. a \div m \in Nat /\ a = ((a \div m) * m) + (a % m)
  BY Division
<1> DEFINE x == (a \div m) * m
<1>2. x \in Int
  BY <1>1
<1> HIDE DEF x
<1>3. a = x
  BY <1>1, <1>2 DEF x
<1> QED
  BY <1>1, <1>3 DEF x

\* The powers of two of the bit depths, and how they compare.
minLevels(n) == Pow2[n - Quantizer]

LEMMA Powers ==
  /\ minLevel \in Nat /\ minLevel >= 1
  /\ geometryDepth \in Nat /\ geometryDepth - Quantizer \in Nat
  /\ \A n \in {BitDepth2D, BitDepth3D, geometryDepth, SizeTBits} :
       /\ Pow2[n] \in Nat /\ minLevels(n) \in Nat /\ minLevels(n) >= 1
       /\ Pow2[n] = minLevels(n) * minLevel
  /\ Pow2[geometryDepth] <= Pow2[BitDepth2D] /\ Pow2[geometryDepth] <= Pow2[BitDepth3D]
  /\ Pow2[geometryDepth] = Pow2[BitDepth2D] \/ Pow2[geometryDepth] = Pow2[BitDepth3D]
  /\ Pow2[IntBits] = 2 * Pow2[IntBits - 1]
  /\ Pow2[IntBits - 1] \in Nat /\ Pow2[IntBits - 1] >= 8
  /\ Pow2[BitDepth3D] >= 2 /\ 2 * Pow2[BitDepth3D] <= Pow2[IntBits - 1]
  /\ \E z \in Nat : z >= 1 /\ minLevels(SizeTBits) = z * Pow2[IntBits]
<1> DEFINE G == geometryDepth
<1>0. /\ BitDepth2D \in Nat /\ BitDepth3D \in Nat /\ Quantizer \in Nat
      /\ SizeTBits \in Nat /\ IntBits \in Nat
      /\ Quantizer < BitDepth2D /\ Quantizer < BitDepth3D
      /\ BitDepth3D + 1 < IntBits /\ 3 < IntBits /\ IntBits + Quantizer <= SizeTBits
  BY PatchAssumption
<1>1. G \in Nat /\ Quantizer < G /\ (G = BitDepth2D \/ G = BitDepth3D) /\ G <= BitDepth2D /\ G <= BitDepth3D
  BY <1>0 DEF geometryDepth, Min2
<1> HIDE DEF G
<1>2. minLevel \in Nat /\ minLevel >= 1
  BY <1>0, Pow2Positive DEF minLevel
<1>3. ASSUME NEW n \in {BitDepth2D, BitDepth3D, G, SizeTBits}
      PROVE  /\ Pow2[n] \in Nat /\ minLevels(n) \in Nat /\ minLevels(n) >= 1
             /\ Pow2[n] = minLevels(n) * minLevel
  <2>1. n \in Nat /\ n - Quantizer \in Nat /\ (n - Quantizer) + Quantizer = n
    BY <1>0, <1>1
  <2> DEFINE d == n - Quantizer
  <2> HIDE DEF d
  <2>2. d \in Nat /\ d + Quantizer = n
    BY <2>1 DEF d
  <2>3. Pow2[d + Quantizer] = Pow2[d] * Pow2[Quantizer]
    BY <2>2, <1>0, Pow2Add
  <2> QED
    BY <2>1, <2>2, <2>3, Pow2Positive DEF minLevels, minLevel, d
<1>4. Pow2[G] <= Pow2[BitDepth2D] /\ Pow2[G] <= Pow2[BitDepth3D]
  BY <1>0, <1>1, Pow2Monotone
<1>5. Pow2[IntBits] = 2 * Pow2[IntBits - 1] /\ Pow2[IntBits - 1] \in Nat
  <2> DEFINE n == IntBits - 1
  <2>1. n \in Nat /\ n + 1 = IntBits
    BY <1>0
  <2> HIDE DEF n
  <2>2. Pow2[n + 1] = 2 * Pow2[n] /\ Pow2[n] \in Nat
    BY <2>1, Pow2Recursion
  <2> QED
    BY <2>1, <2>2 DEF n
<1>6. 2 * Pow2[BitDepth3D] <= Pow2[IntBits - 1]
  <2>1. BitDepth3D + 1 \in Nat /\ IntBits - 1 \in Nat /\ BitDepth3D + 1 <= IntBits - 1
    BY <1>0
  <2>2. Pow2[BitDepth3D + 1] <= Pow2[IntBits - 1]
    BY <2>1, Pow2Monotone
  <2> QED
    BY <2>2, <1>0, Pow2Recursion
<1>7. Pow2[BitDepth3D] >= 2
  <2> DEFINE n == BitDepth3D - 1
  <2>1. n \in Nat /\ n + 1 = BitDepth3D
    BY <1>0
  <2> HIDE DEF n
  <2>2. Pow2[n + 1] = 2 * Pow2[n] /\ Pow2[n] \in Nat /\ Pow2[n] >= 1
    BY <2>1, Pow2Recursion, Pow2Positive
  <2> QED
    BY <2>1, <2>2
<1>8. Pow2[IntBits - 1] >= 8
  <2> DEFINE n == IntBits - 4
             k == n + 1
             j == n + 2
  <2>1. n \in Nat /\ k \in Nat /\ j \in Nat /\ k = n + 1 /\ j = k + 1 /\ j + 1 = IntBits - 1
    BY <1>0
  <2> HIDE DEF n, k, j
  <2>2. Pow2[n] \in Nat /\ Pow2[n] >= 1
    BY <2>1, Pow2Positive
  <2>3. Pow2[k] = 2 * Pow2[n] /\ Pow2[j] = 2 * Pow2[k] /\ Pow2[j + 1] = 2 * Pow2[j]
    BY <2>1, Pow2Recursion
  <2> QED
    BY <2>1, <2>2, <2>3
<1>9. \E z \in Nat : z >= 1 /\ minLevels(SizeTBits) = z * Pow2[IntBits]
  <2> DEFINE d == (SizeTBits - Quantizer) - IntBits
             y == SizeTBits - Quantizer
  <2>1. d \in Nat /\ d + IntBits = y
    BY <1>0
  <2>2. minLevels(SizeTBits) = Pow2[y]
    BY DEF minLevels
  <2> HIDE DEF d, y
  <2>3. Pow2[d + IntBits] = Pow2[d] * Pow2[IntBits] /\ Pow2[d] \in Nat /\ Pow2[d] >= 1
    BY <2>1, <1>0, Pow2Add, Pow2Positive
  <2> QED
    BY <2>1, <2>2, <2>3
<1>10. G - Quantizer \in Nat
  BY <1>0, <1>1
<1> QED
  BY <1>1, <1>2, <1>3, <1>4, <1>5, <1>6, <1>7, <1>8, <1>9, <1>10 DEF G

-----------------------------------------------------------------------------
(* The variable length codes. *)

\* What writeUvlc writes is read by readUvlc, up to 2^IntBits - 2.
LEMMA UvlcRoundTrip ==
  ASSUME NEW x \in Nat, x + 1 < Pow2[IntBits]
  PROVE  readUvlc(writeUvlc(x)) = x
<1> DEFINE n == IntBits - 1
           P(k) == Pow2[k] <= x + 1 /\ x + 1 < Pow2[k + 1]
           k == CHOOSE k \in 0..n : P(k)
           b == Pow2[k]
<1>1. n \in Nat /\ n + 1 = IntBits
  BY PatchAssumption
<1>2. \E j \in 0..n : P(j)
  <2> HIDE DEF n
  <2>1. x + 1 \in Nat /\ x + 1 >= 1 /\ x + 1 < Pow2[n + 1]
    BY <1>1
  <2> QED
    BY <1>1, <2>1, Pow2Log
<1>3. k \in 0..n /\ P(k)
  <2> HIDE DEF P, n
  <2> QED
    BY <1>2
<1>4. writeUvlc(x) = [zeros |-> k, code |-> x + 1]
  BY DEF writeUvlc
<1>5. writeUvlc(x).zeros = k /\ writeUvlc(x).code = x + 1
  <2> HIDE DEF k
  <2> QED
    BY <1>4
<1> HIDE DEF k, n
<1>6. k \in Nat
  BY <1>1, <1>3
<1>7. b \in Nat /\ b >= 1 /\ Pow2[k + 1] = 2 * b
  BY <1>6, Pow2Recursion, Pow2Positive
<1>8. readUvlc(writeUvlc(x)) = ((x + 1) % b) + b - 1
  BY <1>5 DEF readUvlc
<1>9. b <= x + 1 /\ x + 1 < 2 * b
  BY <1>3, <1>7
<1> HIDE DEF b
<1> DEFINE r == (x + 1) - b
           y == x + 1
<1>10. r \in 0..(b - 1) /\ y = 1 * b + r /\ y \in Int /\ 1 \in Int
  BY <1>7, <1>9
<1>11. y % b = r
  <2> HIDE DEF y, r
  <2> QED
    BY <1>7, <1>10, DivisionUnique
<1> QED
  BY <1>7, <1>8, <1>11

LEMMA Uint32Of ==
  ASSUME NEW x \in Int, NEW z \in Int, NEW c \in 0..(Pow2[IntBits] - 1), x = z * Pow2[IntBits] + c
  PROVE  Uint32(x) = c
<1> DEFINE b == Pow2[IntBits]
<1>1. b \in Nat /\ b > 0
  BY Powers
<1> HIDE DEF b
<1>2. c \in 0..(b - 1) /\ x = z * b + c
  BY DEF b
<1>3. x % b = c
  BY <1>1, <1>2, DivisionUnique
<1> QED
  BY <1>3 DEF Uint32, b

\* What writeSvlc writes is read by readSvlc, if it is in the range of int32_t but
\* for the least; of any other number the lower bits are.
LEMMA SvlcRoundTrip ==
  ASSUME NEW x \in Int, NEW z \in Int, NEW c \in Int, x = z * Pow2[IntBits] + c,
         -Pow2[IntBits - 1] < c, c < Pow2[IntBits - 1]
  PROVE  readSvlc(writeSvlc(x)) = c
<1> DEFINE b == Pow2[IntBits]
           h == Pow2[IntBits - 1]
           v == IF c <= 0 THEN -c * 2 ELSE c * 2 - 1
<1>1. b = 2 * h /\ h \in Nat /\ h >= 8
  BY Powers
<1>2. x = z * b + c /\ -h < c /\ c < h
  OBVIOUS
<1>3. Int32(x) = c
  <2>1. CASE c >= 0
    <3>1. c \in 0..(b - 1) /\ x = z * b + c
      <4> HIDE DEF b, h
      <4> QED
        BY <2>1, <1>1, <1>2
    <3>2. Uint32(x) = c
      BY <3>1, Uint32Of
    <3> QED
      BY <3>2, <1>2 DEF Int32
  <2>2. CASE c < 0
    <3> DEFINE d == c + b
               y == z - 1
    <3>1. d \in 0..(b - 1) /\ y \in Int /\ x = y * b + d /\ d >= h
      <4> HIDE DEF b, h
      <4> DEFINE w == z * b
      <4>1. w \in Int /\ y * b = w - b
        BY <1>1
      <4> HIDE DEF w
      <4>2. x = w + c
        BY <1>2 DEF w
      <4> QED
        BY <4>1, <4>2, <2>2, <1>1, <1>2
    <3> HIDE DEF d, y
    <3>2. Uint32(x) = d
      BY <3>1, Uint32Of
    <3>3. ~(d < h)
      BY <3>1, <1>1
    <3>4. Int32(x) = d - b
      BY <3>2, <3>3 DEF Int32
    <3>5. d - b = c
      <4> HIDE DEF b
      <4> QED
        BY <1>1 DEF d
    <3> QED
      BY <3>4, <3>5
  <2> QED
    BY <2>1, <2>2
<1> HIDE DEF b, h
<1>4. v \in Nat /\ v + 1 < b
  BY <1>1, <1>2
<1>5. Uint32(v) = v
  <2> HIDE DEF v
  <2> DEFINE o == 0
  <2>1. v \in Int /\ v \in 0..(b - 1) /\ o \in Int /\ v = o * b + v
    BY <1>1, <1>4
  <2> HIDE DEF o
  <2>2. v \in 0..(Pow2[IntBits] - 1) /\ v = o * Pow2[IntBits] + v
    BY <2>1 DEF b
  <2> QED
    BY <2>1, <2>2, Uint32Of
<1>6. writeSvlc(x) = writeUvlc(v)
  <2>1. writeSvlc(x) = writeUvlc(Uint32(v))
    BY <1>3 DEF writeSvlc
  <2> QED
    BY <2>1, <1>5
<1>7. readUvlc(writeSvlc(x)) = v
  <2> HIDE DEF v
  <2> QED
    BY <1>4, <1>6, UvlcRoundTrip DEF b
<1>8. readSvlc(writeSvlc(x)) = IF v % 2 = 1 THEN (v \div 2) + 1 ELSE -(v \div 2)
  <2> HIDE DEF v
  <2> QED
    BY <1>7 DEF readSvlc
<1>9. CASE c <= 0
  <2>1. v = (-c) * 2 /\ v % 2 = 0 /\ v \div 2 = -c
    BY <1>9
  <2> HIDE DEF v
  <2> QED
    BY <2>1, <1>8
<1>10. CASE c > 0
  <2>1. v = c * 2 - 1 /\ v % 2 = 1 /\ v \div 2 = c - 1
    BY <1>10
  <2> HIDE DEF v
  <2> QED
    BY <2>1, <1>8
<1> QED
  BY <1>9, <1>10

\* The same for a number of the range itself.
LEMMA SvlcInRange ==
  ASSUME NEW c \in Int, -Pow2[IntBits - 1] < c, c < Pow2[IntBits - 1]
  PROVE  readSvlc(writeSvlc(c)) = c
<1> DEFINE z == 0
<1>1. z \in Int /\ c = z * Pow2[IntBits] + c
  BY Powers
<1> HIDE DEF z
<1> QED
  BY <1>1, SvlcRoundTrip

-----------------------------------------------------------------------------
(* The depth of a patch. *)

\* A multiple of minLevel that D1 may be.
IsDepth(mode, d) ==
  /\ d \in 0..Pow2[BitDepth3D] /\ d % minLevel = 0
  /\ mode = 0 => d < Pow2[BitDepth3D]

LEMMA SegmentDepth ==
  ASSUME NEW c \in Components
  PROVE  /\ c.mode \in {0, 1}
         /\ IsDepth(c.mode, segmentD1(c))
         /\ c.mode = 1 /\ segmentD1(c) = 0 => AtZero(c)
         /\ segmentSizeDPixel(c) \in 0..Pow2[BitDepth3D]
<1> DEFINE m == minLevel
           b == Pow2[BitDepth3D]
           near == c.near
           far == c.far
           d == segmentD1(c)
           k == minLevels(BitDepth3D)
<1>1. m \in Nat /\ m >= 1 /\ b \in Nat /\ k \in Nat /\ b = k * m
  BY Powers
<1>2. near \in Nat /\ far \in Nat /\ near < b /\ far < b /\ c.mode \in {0, 1}
  <2>1. near \in 0..(b - 1) /\ far \in 0..(b - 1) /\ c.mode \in {0, 1}
    BY DEF Components
  <2> HIDE DEF b, near, far
  <2> QED
    BY <2>1, <1>1
<1>3. IF c.mode = 0 THEN near <= far ELSE near >= far
  BY DEF Components
<1>4. CASE c.mode = 0
  <2> DEFINE q == near \div m
  <2>1. d = q * m
    BY <1>4 DEF segmentD1
  <2>2. segmentSizeDPixel(c) = far - d
    BY <1>4 DEF segmentSizeDPixel
  <2> HIDE DEF d, m, near, far, b
  <2>3. q \in Nat /\ q * m <= near
    BY <1>1, <1>2, Quotient
  <2> HIDE DEF q
  <2>4. d % m = 0
    BY <2>1, <2>3, <1>1, Multiple
  <2>5. d \in Nat
    BY <2>1, <2>3, <1>1
  <2>6. d <= near
    BY <2>1, <2>3
  <2>7. d \in 0..b /\ d < b /\ far - d \in 0..b
    BY <2>5, <2>6, <1>1, <1>2, <1>3, <1>4
  <2>8. IsDepth(c.mode, d)
    BY <2>4, <2>7 DEF IsDepth, m, b
  <2> QED
    BY <2>2, <2>7, <2>8, <1>4 DEF d, b
<1>5. CASE c.mode = 1
  <2> DEFINE a == near + m - 1
             q == a \div m
  <2>1. d = q * m
    BY <1>5 DEF segmentD1
  <2>2. segmentSizeDPixel(c) = d - far
    BY <1>5 DEF segmentSizeDPixel
  <2> HIDE DEF d, m, near, far, b, k
  <2>3. a \in Nat
    BY <1>1, <1>2
  <2> HIDE DEF a
  <2>4. q \in Nat /\ q * m <= a /\ a < (q * m) + m
    BY <2>3, <1>1, Quotient
  <2> HIDE DEF q
  <2>5. d % m = 0
    BY <2>1, <2>4, <1>1, Multiple
  <2>6. d \in Nat
    BY <2>1, <2>4, <1>1
  <2>7. d <= a /\ a < d + m
    BY <2>1, <2>4
  <2>8. near <= d
    BY <2>6, <2>7, <1>1, <1>2 DEF a
  <2>9. d < b + m
    BY <2>6, <2>7, <1>1, <1>2 DEF a
  <2>10. q <= k
    <3>1. (k + 1) * m = b + m
      BY <1>1
    <3>2. q * m < (k + 1) * m
      BY <3>1, <2>1, <2>9
    <3>3. k + 1 \in Int /\ q \in Int /\ m > 0
      BY <1>1, <2>4
    <3>4. q < k + 1
      BY <3>2, <3>3, <1>1, Products
    <3> QED
      BY <3>4, <1>1, <2>4
  <2>11. d <= b
    <3>1. k \in Int /\ q \in Int /\ m > 0
      BY <1>1, <2>4
    <3> QED
      BY <3>1, <2>1, <2>10, <1>1, Products
  <2>12. d \in 0..b /\ d - far \in 0..b
    BY <2>6, <2>8, <2>11, <1>1, <1>2, <1>3, <1>5
  <2>13. IsDepth(c.mode, d)
    BY <2>5, <2>12, <1>5 DEF IsDepth, m, b
  <2>14. d = 0 => AtZero(c)
    <3>1. d = 0 => near = 0
      BY <2>8, <1>2
    <3> QED
      BY <3>1, <1>5 DEF AtZero, near
  <2> QED
    BY <2>2, <2>12, <2>13, <2>14, <1>5 DEF d, b
<1> QED
  BY <1>2, <1>4, <1>5

\* The size that is coded for a patch without a reference, and read back.
LEMMA SegmentSize ==
  ASSUME NEW x \in Nat, x < Pow2[BitDepth2D], x <= Pow2[BitDepth3D],
         NEW s, s = segmentSizeD(x)
  PROVE  /\ s \in Nat /\ s < Pow2[geometryDepth]
         /\ Min2(x, Pow2[BitDepth3D] - 1) - minLevel <= s /\ s <= x + minLevel
         /\ deltaDD(writeU(IF s = 0 THEN 0 ELSE (s + 1) \div minLevel, geometryDepth - Quantizer)) = s
<1> DEFINE m == minLevel
           b2 == Pow2[BitDepth2D]
           b3 == Pow2[BitDepth3D]
           g == Pow2[geometryDepth]
           k == minLevels(geometryDepth)
           d == Min2(g - 1, x)
           q0 == IF d = 0 THEN 0 ELSE ((d - 1) \div m) + 1
           q == Min2(q0, k - 1)
<1>1. /\ m \in Nat /\ m >= 1 /\ b2 \in Nat /\ b3 \in Nat /\ g \in Nat
      /\ k \in Nat /\ k >= 1 /\ g = k * m /\ g <= b2 /\ g <= b3 /\ (g = b2 \/ g = b3)
  BY Powers
<1>2. s = IF q = 0 THEN 0 ELSE q * m - 1
  BY DEF segmentSizeD, minLevels
<1>D. k = Pow2[geometryDepth - Quantizer]
  BY DEF minLevels
<1>3. x < b2 /\ x <= b3
  OBVIOUS
<1> HIDE DEF m, b2, b3, g, k
<1>4. g >= 1
  <2>1. 1 \in Int /\ k \in Int /\ m > 0
    BY <1>1
  <2>2. 1 * m <= k * m
    BY <2>1, <1>1, Products
  <2> QED
    BY <2>2, <1>1
<1>5. d \in Nat /\ d <= g - 1 /\ d <= x /\ d = Min2(x, b3 - 1)
  BY <1>1, <1>3, <1>4 DEF Min2
<1> HIDE DEF d
<1>6. q0 \in Nat /\ d <= q0 * m /\ q0 * m <= (d + m) - 1
  <2>1. CASE d = 0
    BY <2>1, <1>1
  <2>2. CASE d # 0
    <3> DEFINE a == d - 1
               j == a \div m
    <3>1. a \in Nat
      BY <2>2, <1>5
    <3> HIDE DEF a
    <3>2. j \in Nat /\ j * m <= a /\ a < (j * m) + m
      BY <3>1, <1>1, Quotient
    <3>3. q0 = j + 1
      BY <2>2 DEF a
    <3> HIDE DEF j, q0
    <3> DEFINE y == j * m
    <3>4. q0 * m = y + m /\ y \in Int
      BY <3>2, <3>3, <1>1
    <3>5. y <= a /\ a < y + m
      BY <3>2
    <3> HIDE DEF y
    <3>6. d <= y + m /\ y + m <= (d + m) - 1
      BY <3>1, <3>4, <3>5, <1>1, <1>5 DEF a
    <3> QED
      BY <3>2, <3>3, <3>4, <3>6
  <2> QED
    BY <2>1, <2>2
<1> HIDE DEF q0
<1>7. q \in Nat /\ q <= k - 1 /\ q <= q0 /\ (q = q0 \/ (q = k - 1 /\ q < q0))
  BY <1>1, <1>6 DEF Min2
<1> HIDE DEF q
<1> DEFINE y == q * m
<1>8. y \in Nat /\ y <= g - m /\ y <= (d + m) - 1 /\ (y >= d \/ y = g - m)
  <2> DEFINE y0 == q0 * m
             e == k - 1
  <2>1. q \in Int /\ q0 \in Int /\ e \in Int /\ m > 0 /\ q <= e /\ q <= q0
    BY <1>1, <1>6, <1>7
  <2>2. e * m = g - m
    BY <1>1
  <2> HIDE DEF e
  <2>3. y <= e * m /\ y <= y0
    BY <2>1, <1>1, Products
  <2>4. y \in Nat /\ y0 \in Int
    BY <1>1, <1>6, <1>7
  <2>5. y = y0 \/ y = e * m
    BY <1>7 DEF e
  <2>6. d <= y0 /\ y0 <= (d + m) - 1
    BY <1>6
  <2> HIDE DEF y, y0
  <2> QED
    BY <2>2, <2>3, <2>4, <2>5, <2>6, <1>1, <1>5
<1>9. y = 0 => q = 0
  BY <1>1, <1>7
<1>10. s = IF q = 0 THEN 0 ELSE y - 1
  BY <1>2
<1>11. q = 0 => y = 0
  BY <1>1
<1>12. /\ s \in Nat /\ s < g
       /\ d - m <= s /\ s <= x + m
  <2> HIDE DEF y
  <2> QED
    BY <1>1, <1>4, <1>5, <1>8, <1>9, <1>10, <1>11
<1>13. deltaDD(writeU(IF s = 0 THEN 0 ELSE (s + 1) \div m, geometryDepth - Quantizer)) = s
  <2> DEFINE o == 0
  <2>1. CASE s = 0
    <3>1. writeU(o, geometryDepth - Quantizer) = o
      <4>1. o % k = o
        BY <1>1
      <4> QED
        BY <4>1, <1>D DEF writeU
    <3>2. deltaDD(o) = 0
      BY DEF deltaDD
    <3> QED
      BY <2>1, <3>1, <3>2
  <2>2. CASE s # 0
    <3>1. s + 1 = q * m /\ q # 0
      <4>1. s = y - 1 /\ q # 0
        BY <2>2, <1>10
      <4> QED
        BY <4>1, <1>8
    <3>2. (s + 1) \div m = q
      <4>1. (q * m) \div m = q
        BY <1>1, <1>7, Multiple
      <4> QED
        BY <3>1, <4>1
    <3>3. q % k = q
      BY <1>1, <1>7
    <3>4. writeU(q, geometryDepth - Quantizer) = q
      BY <3>3, <1>D DEF writeU
    <3>5. deltaDD(q) = q * m - 1
      BY <3>1 DEF deltaDD, m
    <3> QED
      BY <2>2, <3>1, <3>2, <3>4, <3>5, <1>12
  <2> QED
    BY <2>1, <2>2
<1> QED
  BY <1>5, <1>12, <1>13 DEF m, b3, g

LEMMA TruncOf ==
  ASSUME NEW t \in Int, NEW m \in Nat, m > 0
  PROVE  LET q == Trunc(t, m) IN
         /\ q \in Int
         /\ t >= 0 => q >= 0 /\ q * m <= t /\ t < (q * m) + m
         /\ t < 0 => q <= 0 /\ t <= q * m /\ (q * m) - m < t
<1>1. CASE t >= 0
  <2>1. Trunc(t, m) = t \div m
    BY <1>1 DEF Trunc
  <2>2. t \in Nat
    BY <1>1
  <2> QED
    BY <1>1, <2>1, <2>2, Quotient
<1>2. CASE t < 0
  <2> DEFINE a == -t
             j == a \div m
             y == j * m
  <2>1. a \in Nat
    BY <1>2
  <2>2. Trunc(t, m) = -j
    BY <1>2 DEF Trunc
  <2> HIDE DEF a
  <2>3. j \in Nat /\ j * m <= a /\ a < (j * m) + m
    BY <2>1, Quotient
  <2> HIDE DEF j
  <2>4. (-j) * m = -y /\ y \in Int
    BY <2>3
  <2> HIDE DEF y
  <2>5. t <= -y /\ -y - m < t
    BY <2>1, <2>3, <2>4 DEF a, y
  <2> QED
    BY <1>2, <2>2, <2>3, <2>4, <2>5
<1> QED
  BY <1>1, <1>2

\* The difference interRangeD writes for the size x, predicted from r.
RangeOf(x, r) == IF x - r = 0 THEN 0 ELSE Trunc(x - r + 1, minLevel)

\* The size that is coded as a difference: it is within a level of what it
\* stands for and inside of the bounds of a size, whatever it is predicted from.
LEMMA InterSize ==
  ASSUME NEW x \in Nat, x < Pow2[BitDepth2D], x <= Pow2[BitDepth3D],
         NEW r \in Nat, r < Pow2[BitDepth2D], r <= Pow2[BitDepth3D],
         NEW s, s = r + deltaDD(RangeOf(x, r))
  PROVE  /\ s \in Nat /\ s < Pow2[BitDepth2D] /\ s <= Pow2[BitDepth3D]
         /\ x - minLevel <= s /\ s <= x + minLevel
         /\ RangeOf(x, r) \in Int
         /\ -Pow2[IntBits - 1] < RangeOf(x, r) /\ RangeOf(x, r) < Pow2[IntBits - 1]
<1> DEFINE m == minLevel
           b2 == Pow2[BitDepth2D]
           b3 == Pow2[BitDepth3D]
           h == Pow2[IntBits - 1]
           q == RangeOf(x, r)
           t == x - r + 1
           y == q * m
<1>1. m \in Nat /\ m >= 1 /\ b2 \in Nat /\ b3 \in Nat /\ b3 >= 2 /\ h \in Nat /\ 2 * b3 <= h
  BY Powers
<1>2. x < b2 /\ x <= b3 /\ r < b2 /\ r <= b3
  OBVIOUS
<1>3. s = r + (IF q = 0 THEN 0 ELSE y - 1)
  BY DEF deltaDD
<1>4. t \in Int /\ (x = r => q = 0) /\ (x # r => q = Trunc(t, m))
  BY DEF RangeOf
<1> HIDE DEF m, b2, b3, h, q, t
<1>5. /\ q \in Int
      /\ x # r /\ t >= 0 => q >= 0 /\ q * m <= t /\ t < (q * m) + m
      /\ x # r /\ t < 0 => q <= 0 /\ t <= q * m /\ (q * m) - m < t
  BY <1>1, <1>4, TruncOf
<1>6. y \in Int /\ (q = 0 => y = 0) /\ (q > 0 => y >= m /\ q <= y) /\ (q < 0 => y <= -m /\ q >= y)
  <2>1. y \in Int /\ (q = 0 => y = 0)
    BY <1>1, <1>5
  <2>2. q > 0 => y >= m /\ q <= y
    BY <1>1, <1>5
  <2>3. q < 0 => y <= -m /\ q >= y
    BY <1>1, <1>5
  <2> QED
    BY <2>1, <2>2, <2>3
<1>7. /\ x # r /\ t >= 0 => q >= 0 /\ y <= t /\ t < y + m
      /\ x # r /\ t < 0 => q <= 0 /\ t <= y /\ y - m < t
  BY <1>5
<1> HIDE DEF y
<1>8. CASE x = r
  BY <1>1, <1>2, <1>3, <1>4, <1>8 DEF m, b2, b3, h, q
<1>9. CASE x # r /\ q = 0
  BY <1>1, <1>2, <1>3, <1>6, <1>7, <1>9 DEF m, b2, b3, h, q, t
<1>10. CASE x # r /\ q > 0
  <2>1. t >= 0
    BY <1>4, <1>5, <1>7, <1>10
  <2>2. s = r + y - 1 /\ y <= t /\ t < y + m /\ y >= m /\ q <= y
    BY <2>1, <1>1, <1>3, <1>6, <1>7, <1>10
  <2>3. s \in Nat /\ s <= x /\ x - m <= s
    BY <2>2, <1>1, <1>2, <1>6 DEF t
  <2>4. q < h
    BY <2>2, <1>1, <1>2, <1>5, <1>6 DEF t
  <2> QED
    BY <2>3, <2>4, <1>1, <1>2, <1>5, <1>10 DEF m, b2, b3, h, q
<1>11. CASE x # r /\ q < 0
  <2>1. t < 0
    BY <1>4, <1>5, <1>7, <1>11
  <2>2. s = r + y - 1 /\ t <= y /\ y - m < t /\ y <= -m /\ q >= y
    BY <2>1, <1>1, <1>3, <1>6, <1>7, <1>11
  <2>3. s \in Nat /\ s <= r /\ x <= s /\ s <= x + m
    BY <2>2, <1>1, <1>2, <1>6 DEF t
  <2>4. -h < q
    BY <2>2, <1>1, <1>2, <1>5, <1>6 DEF t
  <2> QED
    BY <2>3, <2>4, <1>1, <1>2, <1>5, <1>11 DEF m, b2, b3, h, q
<1> QED
  BY <1>5, <1>8, <1>9, <1>10, <1>11

\* D1 of a patch without a reference, as it is read back: with 2^BitDepth3D too
\* much if it is 0 and against the normal axis.
LEMMA IntraDepth ==
  ASSUME NEW d, NEW a, a = d \div minLevel
  PROVE  /\ IsDepth(0, d) => writeU(a, BitDepth3D - Quantizer) * minLevel = d
         /\ IsDepth(1, d) =>
              Pow2[BitDepth3D]
                - writeU((Pow2[BitDepth3D] - d) \div minLevel, BitDepth3D - Quantizer) * minLevel
              = IF d = 0 THEN Pow2[BitDepth3D] ELSE d
<1> DEFINE m == minLevel
           b == Pow2[BitDepth3D]
           k == minLevels(BitDepth3D)
<1>1. m \in Nat /\ m >= 1 /\ b \in Nat /\ k \in Nat /\ k >= 1 /\ b = k * m
  BY Powers
<1>2. \A n : writeU(n, BitDepth3D - Quantizer) = n % k
  BY DEF writeU, minLevels
<1> HIDE DEF k, b, m
<1>3. IsDepth(0, d) \/ IsDepth(1, d) => a \in Nat /\ d = a * m /\ d \in Nat /\ d <= b
  <2> SUFFICES ASSUME IsDepth(0, d) \/ IsDepth(1, d) PROVE a \in Nat /\ d = a * m /\ d \in Nat /\ d <= b
    OBVIOUS
  <2>1. d \in 0..b /\ d % m = 0
    BY DEF IsDepth, b, m
  <2>2. d \in Nat /\ d <= b
    BY <2>1, <1>1
  <2> QED
    BY <2>1, <2>2, <1>1, IsMultiple DEF m
<1>4. IsDepth(0, d) => writeU(a, BitDepth3D - Quantizer) * m = d
  <2> SUFFICES ASSUME IsDepth(0, d) PROVE writeU(a, BitDepth3D - Quantizer) * m = d
    OBVIOUS
  <2>1. d < b
    BY DEF IsDepth, b
  <2>2. a * m < k * m /\ a \in Int /\ k \in Int /\ m > 0
    BY <2>1, <1>1, <1>3
  <2>3. a < k
    BY <2>2, <1>1, Products
  <2>4. a \in Nat /\ d = a * m
    BY <1>3
  <2>5. a % k = a
    BY <2>3, <2>4, <1>1
  <2> QED
    BY <2>4, <2>5, <1>2
<1>5. IsDepth(1, d) =>
        b - writeU((b - d) \div m, BitDepth3D - Quantizer) * m = IF d = 0 THEN b ELSE d
  <2> SUFFICES ASSUME IsDepth(1, d)
               PROVE  b - writeU((b - d) \div m, BitDepth3D - Quantizer) * m = IF d = 0 THEN b ELSE d
    OBVIOUS
  <2> DEFINE c == k - a
  <2>1. c \in Int /\ b - d = c * m
    BY <1>1, <1>3
  <2>2. (b - d) \div m = c
    <3> HIDE DEF c
    <3>1. (c * m) \div m = c
      BY <2>1, <1>1, Multiple
    <3> QED
      BY <2>1, <3>1
  <2>3. CASE d = 0
    <3>1. a = 0
      BY <2>3, <1>1, <1>3
    <3>2. k % k = 0
      BY <1>1
    <3>3. c = k
      BY <3>1, <1>1
    <3> QED
      BY <2>2, <2>3, <3>2, <3>3, <1>1, <1>2
  <2>4. CASE d # 0
    <3>1. a >= 1
      BY <2>4, <1>1, <1>3
    <3>2. c >= 0
      <4>1. a * m <= k * m /\ a \in Int /\ k \in Int /\ m > 0
        BY <1>1, <1>3
      <4>2. a <= k
        BY <4>1, <1>1, Products
      <4> QED
        BY <4>2, <1>1, <1>3
    <3>3. c % k = c
      BY <3>1, <3>2, <1>1, <1>3
    <3>4. b - c * m = d
      <4> HIDE DEF c
      <4>1. c * m = b - d
        BY <2>1
      <4> QED
        BY <4>1, <1>1, <1>3
    <3> QED
      BY <2>2, <2>4, <3>3, <3>4, <1>2
  <2> QED
    BY <2>3, <2>4
<1> QED
  BY <1>4, <1>5 DEF m, b

LEMMA SizeTOf ==
  ASSUME NEW x \in Int, NEW z \in Int, NEW c \in Int, 0 <= c, c < Pow2[SizeTBits],
         x = z * Pow2[SizeTBits] + c
  PROVE  SizeT(x) = c
<1> DEFINE b == Pow2[SizeTBits]
<1>1. b \in Nat /\ c \in 0..(b - 1) /\ b > 0
  <2>1. b \in Nat
    BY Powers
  <2> HIDE DEF b
  <2>2. c < b
    BY DEF b
  <2> QED
    BY <2>1, <2>2
<1>2. x = z * b + c
  OBVIOUS
<1> HIDE DEF b
<1>3. x % b = c
  BY <1>1, <1>2, DivisionUnique
<1> QED
  BY <1>3 DEF SizeT, b

\* A difference of size_t that may be negative, in levels: it is off by a multiple of
\* 2^(SizeTBits - Quantizer), which writeSvlc cuts off.
LEMMA SizeTDifference ==
  ASSUME NEW e \in Nat, e < Pow2[SizeTBits], NEW a \in Nat, a * minLevel < Pow2[SizeTBits]
  PROVE  \E w \in {0, 1} :
           SizeT(e - a * minLevel) \div minLevel = (e \div minLevel) - a + w * minLevels(SizeTBits)
<1> DEFINE m == minLevel
           b == Pow2[SizeTBits]
           k == minLevels(SizeTBits)
           y == a * m
           q == e \div m
           f == e % m
           x == e - y
<1>1. m \in Nat /\ m >= 1 /\ b \in Nat /\ k \in Nat /\ k >= 1 /\ b = k * m
  BY Powers
<1>2. e < b /\ y < b
  OBVIOUS
<1> HIDE DEF m, b, k
<1>3. q \in Nat /\ f \in 0..(m - 1) /\ e = q * m + f
  BY <1>1, Division
<1> HIDE DEF q, f
<1>4. y \in Nat
  BY <1>1
<1> HIDE DEF y
<1>5. x \in Int
  BY <1>4
<1>6. ASSUME NEW w \in {0, 1}, 0 <= x + w * b, x + w * b < b
      PROVE  SizeT(x) \div m = q - a + w * k
  <2> DEFINE z == -w
             c == x + w * b
             v == q - a + w * k
  <2>1. z \in Int /\ c \in Int /\ v \in Int /\ x = z * b + c
    BY <1>1, <1>3, <1>5
  <2>2. c = v * m + f
    <3>1. v * m = q * m - a * m + (w * k) * m
      BY <1>1, <1>3
    <3>2. (w * k) * m = w * b
      BY <1>1
    <3>3. q * m \in Int /\ w * b \in Int /\ a * m = y
      BY <1>1, <1>3 DEF y
    <3> QED
      BY <3>1, <3>2, <3>3, <1>3, <1>4
  <2> HIDE DEF z, v, x
  <2>3. 0 <= c /\ c < b
    BY <1>6
  <2>4. SizeT(x) = c
    <3> HIDE DEF c
    <3> QED
      BY <2>1, <2>3, <1>5, SizeTOf DEF b
  <2>5. c \div m = v
    <3> HIDE DEF c
    <3> QED
      BY <2>1, <2>2, <1>1, <1>3, DivisionUnique
  <2> QED
    BY <2>4, <2>5 DEF v
<1>7. CASE y <= e
  <2> DEFINE w == 0
  <2>1. w \in {0, 1} /\ 0 <= x + w * b /\ x + w * b < b
    BY <1>1, <1>2, <1>4, <1>7
  <2>2. SizeT(x) \div m = q - a + w * k
    BY <2>1, <1>6
  <2> QED
    BY <2>2 DEF m, k, q, y
<1>8. CASE e < y
  <2> DEFINE w == 1
  <2>1. w \in {0, 1} /\ 0 <= x + w * b /\ x + w * b < b
    BY <1>1, <1>2, <1>4, <1>8
  <2>2. SizeT(x) \div m = q - a + w * k
    BY <2>1, <1>6
  <2> QED
    BY <2>2 DEF m, k, q, y
<1> QED
  BY <1>4, <1>7, <1>8

LEMMA Pow2Above == \A n \in Nat : n < Pow2[n]
<1> DEFINE T == {n \in Nat : n < Pow2[n]}
<1>1. 0 \in T
  BY Pow2Recursion
<1>2. ASSUME NEW n \in Nat, n \in T PROVE n + 1 \in T
  <2>1. Pow2[n + 1] = 2 * Pow2[n] /\ Pow2[n] \in Nat /\ n < Pow2[n]
    BY <1>2, Pow2Recursion
  <2> QED
    BY <2>1
<1> HIDE DEF T
<1>3. \A n \in Nat : n \in T
  BY <1>1, <1>2, SetInduction
<1> QED
  BY <1>3 DEF T

LEMMA SizeTLarge ==
  /\ Pow2[SizeTBits] \in Nat /\ 2 * Pow2[BitDepth3D] < Pow2[SizeTBits]
  /\ BitDepth3D \in Nat /\ BitDepth3D < Pow2[SizeTBits]
<1> DEFINE m == minLevel
           b == Pow2[BitDepth3D]
           s == Pow2[SizeTBits]
           k == minLevels(SizeTBits)
           i == Pow2[IntBits]
<1>1. /\ m \in Nat /\ m >= 1 /\ b \in Nat /\ b >= 2 /\ s \in Nat /\ k \in Nat /\ s = k * m
      /\ i \in Nat /\ 4 * b <= i
  BY Powers
<1>2. PICK z \in Nat : z >= 1 /\ k = z * i
  BY Powers
<1> HIDE DEF m, b, s, k, i
<1>3. k >= i
  BY <1>1, <1>2
<1>4. s >= k
  BY <1>1
<1>5. 2 * b < s
  BY <1>1, <1>3, <1>4
<1>6. BitDepth3D \in Nat /\ BitDepth3D < b
  BY PatchAssumption, Pow2Above DEF b
<1> QED
  BY <1>1, <1>5, <1>6 DEF b, s

\* The same number of bits for a depth, in levels.
LEMMA DepthLevels ==
  ASSUME NEW mode \in {0, 1}, NEW d, IsDepth(mode, d)
  PROVE  /\ d \in Nat /\ d <= Pow2[BitDepth3D]
         /\ d \div minLevel \in Nat /\ d = (d \div minLevel) * minLevel
         /\ d \div minLevel <= minLevels(BitDepth3D)
         /\ d \div minLevel <= Pow2[BitDepth3D]
<1> DEFINE m == minLevel
           b == Pow2[BitDepth3D]
           k == minLevels(BitDepth3D)
           a == d \div m
<1>1. m \in Nat /\ m >= 1 /\ b \in Nat /\ k \in Nat /\ k >= 1 /\ b = k * m
  BY Powers
<1>2. d \in Nat /\ d <= b /\ d % m = 0
  <2>1. d \in 0..b /\ d % m = 0
    BY DEF IsDepth
  <2> HIDE DEF b, m
  <2> QED
    BY <2>1, <1>1
<1> HIDE DEF m, b, k
<1>3. a \in Nat /\ d = a * m
  BY <1>1, <1>2, IsMultiple
<1> HIDE DEF a
<1>4. a <= k
  <2>1. a * m <= k * m /\ a \in Int /\ k \in Int /\ m > 0
    BY <1>1, <1>2, <1>3
  <2> QED
    BY <2>1, <1>1, Products
<1>5. a <= d
  BY <1>1, <1>3
<1>6. a <= b
  BY <1>1, <1>2, <1>3, <1>5
<1> QED
  BY <1>2, <1>3, <1>4, <1>6 DEF a, m, b, k

\* D1 along the normal axis, predicted from the depth r.
LEMMA InterDepthAlong ==
  ASSUME NEW d, IsDepth(0, d), NEW r, IsDepth(0, r)
  PROVE  SizeT((readSvlc(writeSvlc((d \div minLevel) - (r \div minLevel))) + (r \div minLevel))
               * minLevel) = d
<1> DEFINE m == minLevel
           b == Pow2[BitDepth3D]
           h == Pow2[IntBits - 1]
           s == Pow2[SizeTBits]
           a == d \div m
           c == r \div m
           o == a - c
           zero == 0
<1>1. m \in Nat /\ m >= 1 /\ b \in Nat /\ b >= 2 /\ h \in Nat /\ 2 * b <= h
  BY Powers
<1>2. zero \in {0, 1} /\ IsDepth(zero, d) /\ IsDepth(zero, r)
  OBVIOUS
<1> HIDE DEF zero
<1>3. d \in Nat /\ d <= b /\ a \in Nat /\ d = a * m /\ a <= b /\ c \in Nat /\ c <= b
  BY <1>2, DepthLevels
<1>4. s \in Nat /\ 2 * b < s
  BY SizeTLarge
<1> HIDE DEF m, b, h, s, a, c
<1>5. o \in Int /\ -h < o /\ o < h
  BY <1>1, <1>3
<1>6. readSvlc(writeSvlc(o)) = o
  <2> HIDE DEF o
  <2> QED
    BY <1>5, SvlcInRange DEF h
<1>7. o + c = a
  BY <1>3
<1>8. SizeT(d) = d
  <2> DEFINE z == 0
  <2>1. z \in Int /\ d \in Int /\ 0 <= d /\ d < s /\ d = z * s + d
    BY <1>1, <1>3, <1>4
  <2> HIDE DEF z
  <2>2. d < Pow2[SizeTBits] /\ d = z * Pow2[SizeTBits] + d
    BY <2>1 DEF s
  <2> QED
    BY <2>1, <2>2, SizeTOf
<1>9. SizeT((readSvlc(writeSvlc(o)) + c) * m) = d
  <2> HIDE DEF o
  <2> QED
    BY <1>3, <1>6, <1>7, <1>8
<1> QED
  BY <1>9 DEF m, a, c

\* D1 against the normal axis, predicted from the depth r that is decoded as
\* r + v * 2^BitDepth3D.
LEMMA InterDepthAgainst ==
  ASSUME NEW d, IsDepth(1, d), NEW r, IsDepth(1, r), NEW v \in {0, 1},
         NEW q, q = r + v * Pow2[BitDepth3D],
         NEW o, o = (SizeT(BitDepth3D - d) \div minLevel) - (SizeT(BitDepth3D - r) \div minLevel)
  PROVE  SizeT(Pow2[BitDepth3D]
               - (readSvlc(writeSvlc(o)) + (SizeT(Pow2[BitDepth3D] - q) \div minLevel)) * minLevel)
         = d + v * Pow2[BitDepth3D]
<1> DEFINE m == minLevel
           b == Pow2[BitDepth3D]
           k == minLevels(BitDepth3D)
           h == Pow2[IntBits - 1]
           i == Pow2[IntBits]
           s == Pow2[SizeTBits]
           ks == minLevels(SizeTBits)
           a == d \div m
           c == r \div m
           n == BitDepth3D
           one == 1
<1>1. /\ m \in Nat /\ m >= 1 /\ b \in Nat /\ b >= 2 /\ h \in Nat /\ 2 * b <= h
      /\ k \in Nat /\ b = k * m /\ i \in Nat /\ ks \in Nat /\ s = ks * m
  BY Powers
<1>2. one \in {0, 1} /\ IsDepth(one, d) /\ IsDepth(one, r)
  OBVIOUS
<1> HIDE DEF one
<1>3. /\ d \in Nat /\ d <= b /\ a \in Nat /\ d = a * m /\ a <= b /\ a <= k
      /\ r \in Nat /\ r <= b /\ c \in Nat /\ r = c * m /\ c <= b /\ c <= k
  BY <1>2, DepthLevels
<1>4. s \in Nat /\ 2 * b < s /\ n \in Nat /\ n < s
  BY SizeTLarge
<1>5. PICK z \in Nat : ks = z * i
  BY Powers
<1>6. o = (SizeT(n - d) \div m) - (SizeT(n - r) \div m)
  OBVIOUS
<1>Q. q = r + v * b
  OBVIOUS
<1> HIDE DEF m, b, k, h, i, s, ks, a, c, n
<1>7. PICK w \in {0, 1} : SizeT(n - d) \div m = (n \div m) - a + w * ks
  <2>1. a * m < s
    BY <1>1, <1>3, <1>4
  <2>2. \E w \in {0, 1} : SizeT(n - a * m) \div m = (n \div m) - a + w * ks
    BY <2>1, <1>3, <1>4, SizeTDifference DEF m, s, ks
  <2> QED
    BY <2>2, <1>3
<1>8. PICK u \in {0, 1} : SizeT(n - r) \div m = (n \div m) - c + u * ks
  <2>1. c * m < s
    BY <1>1, <1>3, <1>4
  <2>2. \E j \in {0, 1} : SizeT(n - c * m) \div m = (n \div m) - c + j * ks
    BY <2>1, <1>3, <1>4, SizeTDifference DEF m, s, ks
  <2> QED
    BY <2>2, <1>3
<1> DEFINE e == n \div m
           p == c - a
           y == (w - u) * z
<1>9. e \in Nat
  BY <1>1, <1>4, Quotient
<1>10. p \in Int /\ y \in Int /\ o \in Int /\ o = y * i + p
  <2> DEFINE f == w * ks
             g == u * ks
  <2>1. f \in Int /\ g \in Int
    BY <1>1
  <2> DEFINE x == y * i
  <2>2. f - g = x
    BY <1>1, <1>5
  <2>3. o = (e - a + f) - (e - c + g)
    BY <1>6, <1>7, <1>8
  <2>4. y \in Int /\ x \in Int
    BY <1>1, <1>5
  <2> HIDE DEF f, g, e, y, x
  <2>5. p \in Int /\ o \in Int /\ o = x + p
    BY <2>1, <2>2, <2>3, <2>4, <1>3, <1>9
  <2> QED
    BY <2>4, <2>5 DEF x
<1>11. -h < p /\ p < h
  BY <1>1, <1>3
<1>12. readSvlc(writeSvlc(o)) = p
  <2> HIDE DEF p, y
  <2> QED
    BY <1>10, <1>11, SvlcRoundTrip DEF h, i
<1>13. PICK t \in {0, 1} : SizeT(b - q) \div m = (1 - v) * k - c + t * ks
  <2> DEFINE j == (1 - v) * b
  <2>1. b - q = j - r
    BY <1>1, <1>3, <1>Q
  <2>2. j \in Nat /\ j < s
    BY <1>1, <1>4
  <2>3. j = ((1 - v) * k) * m
    BY <1>1
  <2> HIDE DEF j
  <2>4. c * m < s
    BY <1>1, <1>3, <1>4
  <2>5. \E t \in {0, 1} : SizeT(j - c * m) \div m = (j \div m) - c + t * ks
    BY <2>2, <2>4, <1>3, SizeTDifference DEF m, s, ks
  <2>6. j \div m = (1 - v) * k
    <3> DEFINE l == (1 - v) * k
    <3>1. l \in Int /\ j = l * m
      BY <2>3, <1>1
    <3> HIDE DEF l
    <3>2. (l * m) \div m = l
      BY <3>1, <1>1, Multiple
    <3>3. j \div m = l
      BY <3>1, <3>2
    <3> QED
      BY <3>3 DEF l
  <2> QED
    BY <2>1, <2>5, <2>6, <1>3
<1> DEFINE l == (1 - v) * k - c + t * ks
           x == b - (p + l) * m
           res == d + v * b
           tt == -t
<1>14. x = tt * s + res /\ x \in Int /\ tt \in Int /\ res \in Int
  <2>1. p + l = (1 - v) * k - a + t * ks
    <3> DEFINE f == (1 - v) * k
               g == t * ks
    <3>1. f \in Int /\ g \in Int
      BY <1>1
    <3> HIDE DEF f, g
    <3>2. (c - a) + (f - c + g) = f - a + g
      BY <3>1, <1>3
    <3> QED
      BY <3>2 DEF f, g
  <2>2. ((1 - v) * k - a + t * ks) * m = (1 - v) * b - d + t * s
    <3> DEFINE f == (1 - v) * k
               g == t * ks
    <3>1. f \in Int /\ g \in Int /\ f * m = (1 - v) * b /\ g * m = t * s
      BY <1>1
    <3> HIDE DEF f, g
    <3>2. (f - a + g) * m = f * m - a * m + g * m
      BY <3>1, <1>1, <1>3
    <3>3. (f - a + g) * m = (1 - v) * b - d + t * s
      BY <3>1, <3>2, <1>3
    <3> QED
      BY <3>3 DEF f, g
  <2>3. x = b - ((1 - v) * b - d + t * s)
    BY <2>1, <2>2
  <2> HIDE DEF x
  <2> QED
    BY <2>3, <1>1, <1>3, <1>4
<1>15. 0 <= res /\ res < s
  BY <1>1, <1>3, <1>4
<1>16. SizeT(x) = res
  <2> HIDE DEF x, res, tt
  <2> QED
    BY <1>14, <1>15, SizeTOf DEF s
<1>17. SizeT(b - (readSvlc(writeSvlc(o)) + (SizeT(b - q) \div m)) * m) = res
  <2>1. x = b - (readSvlc(writeSvlc(o)) + (SizeT(b - q) \div m)) * m
    BY <1>12, <1>13
  <2> HIDE DEF x, res
  <2> QED
    BY <2>1, <1>16
<1> QED
  BY <1>17 DEF b, m

-----------------------------------------------------------------------------
(* Tiles and frames. *)

LEMMA ConfTypes ==
  ASSUME conf \in Confs
  PROVE  /\ conf.frames \in Nat /\ conf.frames >= 1
         /\ conf.tiles \in Nat /\ conf.tiles >= 1
         /\ conf.maxRef \in Nat /\ conf.maxRef >= 1 /\ conf.maxRef < Pow2[IntBits]
         /\ conf.maxPatches \in Nat /\ conf.maxPatches < Pow2[IntBits - 1]
         /\ conf.constrainedPack \in BOOLEAN /\ conf.precedence \in BOOLEAN
         /\ conf.components \subseteq Components
         /\ conf.others \in Seq({"raw", "eom"})
         /\ numTiles \in Nat
<1>1. /\ {conf.frames, conf.tiles, conf.maxRef} \subseteq Nat \ {0}
      /\ conf.maxRef < Pow2[IntBits]
      /\ conf.maxPatches \in Nat /\ conf.maxPatches < Pow2[IntBits - 1]
      /\ {conf.constrainedPack, conf.precedence} \subseteq BOOLEAN
      /\ conf.components \subseteq Components
      /\ conf.others \in Seq({"raw", "eom"})
  BY PatchAssumption
<1>2. conf.frames \in Nat /\ conf.frames >= 1 /\ conf.tiles \in Nat /\ conf.tiles >= 1
  BY <1>1
<1>3. numTiles \in Nat
  BY <1>2 DEF numTiles
<1>4. conf.maxRef \in Nat /\ conf.maxRef >= 1
  BY <1>1
<1>5. conf.constrainedPack \in BOOLEAN /\ conf.precedence \in BOOLEAN
  BY <1>1
<1> QED
  BY <1>1, <1>2, <1>3, <1>4, <1>5

LEMMA FrameOf ==
  ASSUME conf \in Confs, NEW i \in Nat
  PROVE  /\ frameOf(i) \in Nat /\ i % conf.tiles \in 0..(conf.tiles - 1)
         /\ i = frameOf(i) * conf.tiles + (i % conf.tiles)
<1> DEFINE t == conf.tiles
<1>1. t \in Nat /\ t > 0
  BY ConfTypes
<1> HIDE DEF t
<1>2. i \div t \in Nat /\ i % t \in 0..(t - 1) /\ i = (i \div t) * t + (i % t)
  BY <1>1, Division
<1> QED
  BY <1>2 DEF frameOf, t

LEMMA FrameIs ==
  ASSUME conf \in Confs, NEW i \in Nat, NEW f \in Nat, NEW x \in Nat, x < conf.tiles,
         i = f * conf.tiles + x
  PROVE  frameOf(i) = f /\ i % conf.tiles = x
<1> DEFINE t == conf.tiles
<1>1. t \in Nat /\ t > 0
  BY ConfTypes
<1>2. x \in 0..(t - 1) /\ i = f * t + x
  BY <1>1
<1> HIDE DEF t
<1>3. i \div t = f /\ i % t = x
  BY <1>1, <1>2, DivisionUnique, SMTT(30)
<1> QED
  BY <1>3 DEF frameOf, t

\* The same tile of another frame.
LEMMA TileIn ==
  ASSUME conf \in Confs, NEW i \in Nat, NEW f \in Nat
  PROVE  /\ tileIn(f, i) \in Nat /\ frameOf(tileIn(f, i)) = f
         /\ tileIn(f, i) % conf.tiles = i % conf.tiles
         /\ f < frameOf(i) => tileIn(f, i) < i
<1> DEFINE t == conf.tiles
           x == i % t
           y == f * t
           g == frameOf(i)
           j == tileIn(f, i)
<1>1. t \in Nat /\ t > 0
  BY ConfTypes
<1>2. g \in Nat /\ x \in 0..(t - 1) /\ i = g * t + x
  BY FrameOf
<1>3. j = y + x
  BY DEF tileIn
<1>4. y \in Nat
  BY <1>1
<1>5. x \in Nat /\ x < t
  BY <1>1, <1>2
<1>6. j \in Nat
  <2> HIDE DEF x, y, j
  <2> QED
    BY <1>3, <1>4, <1>5
<1>7. frameOf(j) = f /\ j % t = x
  <2> HIDE DEF x, j
  <2> QED
    BY <1>3, <1>5, <1>6, FrameIs
<1>8. f < g => j < i
  <2> SUFFICES ASSUME f < g PROVE j < i
    OBVIOUS
  <2> DEFINE z == g * t
  <2>1. y < z
    <3> HIDE DEF g, t
    <3> QED
      BY <1>1, <1>2
  <2>2. i = z + x /\ z \in Int
    BY <1>1, <1>2
  <2> HIDE DEF x, y, j, z
  <2> QED
    BY <2>1, <2>2, <1>3, <1>4, <1>5
<1> QED
  BY <1>6, <1>7, <1>8

\* A tile is known by its frame and its number in it.
LEMMA TileIs ==
  ASSUME conf \in Confs, NEW i \in Nat, NEW j \in Nat, j % conf.tiles = i % conf.tiles
  PROVE  j = tileIn(frameOf(j), i)
<1>1. j = frameOf(j) * conf.tiles + (j % conf.tiles)
  BY FrameOf
<1> QED
  BY <1>1 DEF tileIn

LEMMA FrameMonotone ==
  ASSUME conf \in Confs, NEW i \in Nat
  PROVE  /\ i < numTiles => frameOf(i) < conf.frames
         /\ i < 2 * conf.tiles <=> frameOf(i) < 2
         /\ \/ frameOf(i + 1) = frameOf(i)
            \/ frameOf(i + 1) = frameOf(i) + 1
<1> DEFINE t == conf.tiles
           f == conf.frames
           x == i % t
           g == frameOf(i)
           y == g * t
<1>1. t \in Nat /\ t > 0 /\ f \in Nat
  BY ConfTypes
<1>2. g \in Nat /\ x \in Nat /\ x < t /\ i = y + x
  <2>1. g \in Nat /\ x \in 0..(t - 1) /\ i = y + x
    BY FrameOf
  <2> HIDE DEF t, x, g
  <2> QED
    BY <2>1, <1>1
<1>N. numTiles = f * t
  BY DEF numTiles
<1>3. i < numTiles => g < f
  <2> SUFFICES ASSUME i < numTiles PROVE g < f
    OBVIOUS
  <2> HIDE DEF t, x, g, f
  <2>1. y < f * t
    <3>1. y \in Int /\ f * t \in Int
      BY <1>1, <1>2
    <3> HIDE DEF y
    <3> QED
      BY <3>1, <1>N, <1>2
  <2> QED
    BY <2>1, <1>1, <1>2, Products
<1>4. i < 2 * t <=> g < 2
  <2> HIDE DEF t, x, g, f
  <2>1. g < 2 => y <= t
    BY <1>1, <1>2
  <2>2. g >= 2 => y >= 2 * t
    BY <1>1, <1>2
  <2>3. y \in Int
    BY <1>1, <1>2
  <2> HIDE DEF y
  <2> QED
    BY <2>1, <2>2, <2>3, <1>1, <1>2
<1>5. CASE x + 1 < t
  <2> DEFINE z == x + 1
  <2>1. z \in Nat /\ z < t /\ i + 1 = g * t + z
    <3>1. y \in Int
      BY <1>1, <1>2
    <3> HIDE DEF y, x
    <3>2. i + 1 = y + (x + 1)
      BY <3>1, <1>2
    <3> QED
      BY <3>2, <1>2, <1>5 DEF y
  <2>2. frameOf(i + 1) = g
    <3> HIDE DEF z, g
    <3> QED
      BY <2>1, <1>2, FrameIs
  <2> QED
    BY <2>2, <1>3, <1>4
<1>6. CASE x + 1 = t
  <2> DEFINE z == 0
             e == g + 1
  <2>1. z \in Nat /\ z < t /\ e \in Nat /\ i + 1 = e * t + z
    <3> HIDE DEF g, t, x
    <3>1. y \in Int /\ (g + 1) * t = y + t
      BY <1>1, <1>2
    <3> HIDE DEF y
    <3> QED
      BY <3>1, <1>1, <1>2, <1>6
  <2>2. frameOf(i + 1) = e
    <3> HIDE DEF z, e
    <3> QED
      BY <2>1, <1>2, FrameIs
  <2> QED
    BY <2>2, <1>3, <1>4
<1> QED
  <2> HIDE DEF x, t
  <2> QED
    BY <1>1, <1>2, <1>5, <1>6

-----------------------------------------------------------------------------
(* The inductive invariant of the encoder. *)

PatchSet ==
  [mode : {0, 1}, d1 : Nat, sizeDPixel : Nat, sizeD : Nat, match : Int, ref : Nat]

Types ==
  /\ conf \in Confs
  /\ pc \in {"segment", "adjust", "reverse", "encode", "decode", "undefined"}
  /\ index \in 0..numTiles
  /\ patches \in Seq(Seq(PatchSet)) /\ segmented \in Seq(Seq(Components))
  /\ Len(segmented) = Len(patches)
  /\ Len(patches) = IF pc = "segment" THEN index ELSE numTiles
  /\ referred \subseteq 0..(numTiles - 1)
  /\ \E S : atlList \in Seq(S)
  /\ \E S : decoded \in Seq(S)

Phases ==
  /\ pc \in {"segment", "adjust", "reverse"} => atlList = <<>> /\ referred = {}
  /\ pc = "adjust" => Adjusts /\ index >= 2 * conf.tiles
  /\ pc = "encode" => Len(atlList) = index
  /\ pc = "decode" => Len(atlList) = numTiles /\ Len(decoded) = index
  /\ pc \notin {"decode", "undefined"} => decoded = <<>>
  /\ Len(atlList) <= numTiles /\ Len(decoded) <= numTiles

\* A patch of a tile that was segmented into cs.
IsPatchOf(p, cs) ==
  /\ IsDepth(p.mode, p.d1)
  /\ p.mode = 1 /\ p.d1 = 0 => \E j \in 1..Len(cs) : AtZero(cs[j])
  /\ p.sizeDPixel < Pow2[BitDepth2D] /\ p.sizeDPixel <= Pow2[BitDepth3D]
  /\ p.sizeD < Pow2[BitDepth2D] /\ p.sizeD <= Pow2[BitDepth3D]
  /\ p.ref < conf.maxRef

\* The size is the one of the segmentation until the patch is coded as a
\* difference.
AsSegmented(p) == p.sizeD = segmentSizeD(p.sizeDPixel)

Geometry ==
  \A i \in 1..Len(patches) :
    /\ Len(patches[i]) <= conf.maxPatches
    /\ \/ Len(patches[i]) = Len(segmented[i])
       \/ Adjusts /\ frameOf(i - 1) >= 2 /\ patches[i] = <<>>
    /\ \A k \in 1..Len(patches[i]) :
         /\ IsPatchOf(patches[i][k], segmented[i])
         /\ i > Len(atlList) \/ patches[i][k].match = Unmatched => AsSegmented(patches[i][k])

\* The reference frame of patch p of tile i is one of those before.
HasFrame(i, p) == conf.constrainedPack /\ p.ref < Min2(frameOf(i), conf.maxRef)

\* Matches have been mirrored in the wrong frame.
Mirrored == MirroredElsewhere /\ pc \notin {"segment", "adjust", "reverse"}

\* What p refers to is there.
IsReference(i, p) ==
  /\ HasFrame(i, p)
  /\ pc = "segment" \/ ~Adjusts => p.ref = 0
  /\ Mirrored \/ (refExists(i, p) /\ refPatch(i, p).mode = p.mode)
  /\ i < Len(atlList) => refExists(i, p)

\* Tile i has been through adjustReferenceAtlasFrame, or will not go there.
Settled(i) == pc = "adjust" \/ (pc = "undefined" /\ atlList = <<>>) => i < index

References ==
  \A i \in 0..(Len(patches) - 1) : \A k \in 1..Len(patches[i + 1]) :
    \A p \in {patches[i + 1][k]} :
      p.match # Unmatched /\ Settled(i) => IsReference(i, p)

\* A tile layer: what EncodeTile wrote, with the NAL unit type of updateNaluInfo.
Layer(i, nalu) ==
  [header |-> [Header(i) EXCEPT !.nalu = nalu], units |-> Units(i, Header(i))]

\* The patch was coded as a difference, and its reference is marked.
IsCoded(i, p) ==
  LET r == refPatch(i, p) IN
  /\ p.sizeD = r.sizeD + deltaDD(interRangeD(p, r))
  /\ refTile(i, p) \in referred

LayerCoded(i) ==
  \E nalu \in {0, 1, 2} :
    /\ atlList[i + 1] = Layer(i, nalu)
    /\ pc = "encode" => nalu = 0
    /\ nalu = 2 => i \notin referred

PatchesCoded(i) ==
  \A k \in 1..Len(patches[i + 1]) : \A p \in {patches[i + 1][k]} :
    p.match # Unmatched => IsCoded(i, p)

Coded == \A i \in 0..(Len(atlList) - 1) : LayerCoded(i) /\ PatchesCoded(i)

EncInv ==
  /\ Types /\ Phases /\ Geometry /\ References /\ Coded

-----------------------------------------------------------------------------
(* References. *)

LEMMA Reference ==
  ASSUME conf \in Confs, NEW i \in Nat, NEW p, p.ref \in Nat, HasFrame(i, p)
  PROVE  LET f == frameOf(i) - (p.ref + 1) IN
         /\ f \in Nat /\ f < frameOf(i)
         /\ refAfocList(frameOf(i))[p.ref + 1] = f
         /\ refTile(i, p) = tileIn(f, i)
         /\ refTile(i, p) \in Nat /\ refTile(i, p) < i
         /\ frameOf(refTile(i, p)) = f
         /\ refTile(i, p) % conf.tiles = i % conf.tiles
<1> DEFINE g == frameOf(i)
           n == Min2(g, conf.maxRef)
           f == g - (p.ref + 1)
<1>1. g \in Nat /\ conf.maxRef \in Nat /\ p.ref < n
  BY ConfTypes, FrameOf DEF HasFrame
<1>2. n \in Nat /\ n <= g
  BY <1>1 DEF Min2
<1>3. refAfocList(g) = [k \in 1..n |-> g - k]
  BY DEF refAfocList
<1> HIDE DEF n, g
<1>4. f \in Nat /\ f < g /\ p.ref + 1 \in 1..n
  BY <1>1, <1>2
<1>5. refAfocList(g)[p.ref + 1] = f
  BY <1>3, <1>4
<1>6. refTile(i, p) = tileIn(f, i)
  BY <1>5 DEF refTile, g
<1> HIDE DEF f
<1>7. /\ tileIn(f, i) \in Nat /\ frameOf(tileIn(f, i)) = f
      /\ tileIn(f, i) % conf.tiles = i % conf.tiles /\ tileIn(f, i) < i
  BY <1>4, TileIn DEF g
<1> QED
  BY <1>4, <1>5, <1>6, <1>7 DEF f, g

\* What depends on the configuration only.
LEMMA SameConf ==
  ASSUME conf' = conf
  PROVE  /\ numTiles' = numTiles /\ Adjusts' = Adjusts /\ MirroredElsewhere' = MirroredElsewhere
         /\ \A i : frameOf(i)' = frameOf(i)
         /\ \A i, p : HasFrame(i, p)' = HasFrame(i, p)
         /\ \A i, p : refTile(i, p)' = refTile(i, p)
         /\ \A p, cs : IsPatchOf(p, cs)' = IsPatchOf(p, cs)
<1>1. numTiles' = numTiles /\ Adjusts' = Adjusts /\ MirroredElsewhere' = MirroredElsewhere
  BY DEF numTiles, Adjusts, MirroredElsewhere
<1>2. \A i : frameOf(i)' = frameOf(i)
  BY DEF frameOf
<1>3. \A i, p : HasFrame(i, p)' = HasFrame(i, p)
  BY DEF HasFrame, frameOf
<1>4. \A i, p : refTile(i, p)' = refTile(i, p)
  BY DEF refTile, tileIn, refAfocList, frameOf
<1>5. \A p, cs : IsPatchOf(p, cs)' = IsPatchOf(p, cs)
  BY DEF IsPatchOf
<1> QED
  BY <1>1, <1>2, <1>3, <1>4, <1>5

-----------------------------------------------------------------------------
(* The expected reference patch. *)

\* pred is the index behind the last match in front of every patch.
IsPred(ps, pred) ==
  /\ pred \in [1..(Len(ps) + 1) -> Int]
  /\ pred[1] = 0
  /\ \A k \in 1..Len(ps) :
       pred[k + 1] = IF ps[k].match = Unmatched THEN pred[k] ELSE ps[k].match + 1

LEMMA PredIndex ==
  ASSUME NEW ps \in Seq(PatchSet)
  PROVE  IsPred(ps, predIndex(ps))
<1> DEFINE n == Len(ps) + 1
           m(k) == ps[k - 1].match
           next(k, x) == IF m(k) = Unmatched THEN x ELSE x + (m(k) - x) + 1
           D(f) == [k \in 1..n |-> IF k = 1 THEN 0 ELSE next(k, f[k - 1])]
           pred == CHOOSE f : f = D(f)
           step == [k \in 1..n |-> [x \in Int |-> IF k = 1 THEN x ELSE next(k, x)]]
           S == Int
           one == 1
           c == 0
<1>1. n \in Nat /\ predIndex(ps) = pred
  BY DEF predIndex
<1>2. \A k \in 1..n : k # 1 => k - 1 \in 1..Len(ps) /\ m(k) \in Int
  <2> SUFFICES ASSUME NEW k \in 1..n, k # 1 PROVE k - 1 \in 1..Len(ps) /\ m(k) \in Int
    OBVIOUS
  <2>1. k - 1 \in 1..Len(ps)
    OBVIOUS
  <2>2. ps[k - 1] \in PatchSet
    BY <2>1
  <2> QED
    BY <2>1, <2>2 DEF PatchSet
<1> HIDE DEF n, m
<1>3. \A k \in 1..n, x \in Int : k # 1 => next(k, x) \in Int
  BY <1>2
<1>4. one \in Nat /\ c \in S /\ step \in [one..n -> [S -> S]]
  BY <1>3
<1>5. PICK f \in [one..n -> S] : IsRecursive(f, one, n, c, step)
  <2> HIDE DEF one, c, S, step
  <2> QED
    BY <1>1, <1>4, RecursiveFunction
<1>6. ASSUME NEW k \in 1..n PROVE f[k] = IF k = 1 THEN 0 ELSE next(k, f[k - 1])
  <2>1. f[k] = IF k = 1 THEN 0 ELSE step[k][f[k - 1]]
    BY <1>5 DEF IsRecursive
  <2>2. k # 1 => k - 1 \in 1..n
    BY <1>1
  <2>3. k # 1 => f[k - 1] \in Int
    BY <2>2, <1>5
  <2> QED
    BY <2>1, <2>3
<1> HIDE DEF next
<1>7. f = D(f)
  BY <1>5, <1>6
<1>8. pred = D(pred)
  <2> HIDE DEF D
  <2> QED
    BY <1>7
<1> HIDE DEF pred
<1>9. \A k \in 1..n : pred[k] = IF k = 1 THEN 0 ELSE next(k, pred[k - 1])
  BY <1>8
<1>10. pred[1] = 0
  <2>1. 1 \in 1..n
    BY DEF n
  <2> QED
    BY <1>9, <2>1
<1>11. ASSUME NEW k \in 1..n PROVE pred[k] \in S
  <2>1. \A k1 \in one..n : k1 < n /\ pred[k1] \in S => pred[k1 + 1] \in S
    <3> SUFFICES ASSUME NEW k1 \in 1..n, k1 < n, pred[k1] \in Int PROVE pred[k1 + 1] \in Int
      OBVIOUS
    <3>1. k1 + 1 \in 1..n /\ k1 + 1 # 1 /\ (k1 + 1) - 1 = k1
      BY <1>1
    <3>2. pred[k1 + 1] = next(k1 + 1, pred[k1])
      BY <3>1, <1>9
    <3> QED
      BY <3>1, <3>2, <1>3
  <2>2. pred[one] \in S /\ k \in one..n
    BY <1>10
  <2> HIDE DEF one, S
  <2> QED
    BY <2>1, <2>2, <1>1, <1>4, RecursionInvariant
<1>12. pred \in [1..n -> Int]
  <2>1. pred = [k \in 1..n |-> IF k = 1 THEN 0 ELSE next(k, pred[k - 1])]
    BY <1>8
  <2>2. DOMAIN pred = 1..n /\ pred = [k \in 1..n |-> pred[k]]
    BY <2>1
  <2> QED
    BY <2>2, <1>11
<1>13. ASSUME NEW k \in 1..Len(ps)
       PROVE  pred[k + 1] = IF ps[k].match = Unmatched THEN pred[k] ELSE ps[k].match + 1
  <2>1. k + 1 \in 1..n /\ k + 1 # 1 /\ (k + 1) - 1 = k /\ k \in 1..n
    BY DEF n
  <2>2. pred[k + 1] = next(k + 1, pred[k])
    BY <1>9, <2>1
  <2>3. m(k + 1) = ps[k].match
    BY <2>1 DEF m
  <2>4. m(k + 1) \in Int /\ pred[k] \in Int
    BY <2>1, <1>2, <1>11
  <2> QED
    BY <2>2, <2>3, <2>4 DEF next
<1> QED
  BY <1>1, <1>10, <1>12, <1>13 DEF IsPred, n

LEMMA PredUnique ==
  ASSUME NEW ps, NEW qs, NEW f, NEW g, Len(ps) \in Nat, Len(ps) = Len(qs),
         \A k \in 1..Len(ps) : ps[k].match = qs[k].match,
         IsPred(ps, f), IsPred(qs, g)
  PROVE  f = g
<1> DEFINE n == Len(ps) + 1
           T == {k \in 1..n : f[k] = g[k]}
           one == 1
<1>1. one \in T
  BY DEF IsPred
<1>2. ASSUME NEW k \in one..n, k \in T, k < n PROVE k + 1 \in T
  <2>1. k \in 1..Len(ps) /\ k + 1 \in 1..n
    BY <1>2
  <2> QED
    BY <1>2, <2>1 DEF IsPred
<1>3. \A k \in one..n : k \in T
  <2>1. one \in Nat /\ n \in Nat
    OBVIOUS
  <2> HIDE DEF one, n, T
  <2> QED
    BY <1>1, <1>2, <2>1, IntervalInduction
<1> QED
  BY <1>3 DEF IsPred

-----------------------------------------------------------------------------
(* What EncodeTile leaves as it was. *)

\* The patches of a tile before and after a change of the sizes of those that
\* are coded as differences.
SameButSizes(ps, qs) ==
  /\ Len(qs) = Len(ps)
  /\ \A k \in 1..Len(ps) :
       /\ qs[k].match = ps[k].match /\ qs[k].ref = ps[k].ref
       /\ qs[k].mode = ps[k].mode /\ qs[k].d1 = ps[k].d1 /\ qs[k].sizeDPixel = ps[k].sizeDPixel
       /\ ps[k].match = Unmatched => qs[k] = ps[k]

LEMMA ReferencesKept ==
  ASSUME conf \in Confs, conf' = conf, NEW i \in Nat, NEW p, NEW q, p.ref \in Nat,
         HasFrame(i, p), q.ref = p.ref, q.match = p.match,
         \A j \in Nat : j < i => patches'[j + 1] = patches[j + 1]
  PROVE  /\ refTile(i, q)' = refTile(i, p) /\ refExists(i, q)' = refExists(i, p)
         /\ refPatch(i, q)' = refPatch(i, p)
<1>1. refTile(i, p) \in Nat /\ refTile(i, p) < i
  BY Reference
<1>2. refTile(i, q)' = refTile(i, p)
  BY DEF refTile, tileIn, refAfocList, frameOf
<1> DEFINE t == refTile(i, p)
<1>3. refExists(i, p) = (p.match \in 0..(Len(patches[t + 1]) - 1)) /\ refPatch(i, p) = patches[t + 1][p.match + 1]
  BY DEF refExists, refPatch
<1>4. refExists(i, q)' = (q.match \in 0..(Len(patches'[t + 1]) - 1)) /\ refPatch(i, q)' = patches'[t + 1][q.match + 1]
  BY <1>2 DEF refExists, refPatch
<1>5. patches'[t + 1] = patches[t + 1]
  BY <1>1
<1> HIDE DEF t
<1> QED
  BY <1>2, <1>3, <1>4, <1>5 DEF t

LEMMA LayerKept ==
  ASSUME conf \in Confs, conf' = conf, NEW i \in Nat,
         NEW ps \in Seq(PatchSet), patches[i + 1] = ps,
         NEW qs \in Seq(PatchSet), patches'[i + 1] = qs, SameButSizes(ps, qs),
         \A k \in 1..Len(ps) : ps[k].match # Unmatched => HasFrame(i, ps[k]),
         \A j \in Nat : j < i => patches'[j + 1] = patches[j + 1]
  PROVE  \A nalu : Layer(i, nalu)' = Layer(i, nalu)
<1>1. AnyMatched(qs) = AnyMatched(ps)
  BY DEF AnyMatched, SameButSizes
<1>2. tileType(i)' = tileType(i)
  <2>1. tileType(i) = IF frameOf(i) # 0 /\ AnyMatched(ps) THEN "P" ELSE "I"
    BY DEF tileType
  <2>2. tileType(i)' = IF frameOf(i)' # 0 /\ AnyMatched(qs) THEN "P" ELSE "I"
    BY DEF tileType, AnyMatched
  <2>3. frameOf(i)' = frameOf(i)
    BY DEF frameOf
  <2> QED
    BY <1>1, <2>1, <2>2, <2>3
<1>3. Header(i)' = Header(i)
  <2>1. frameOf(i)' = frameOf(i)
    BY DEF frameOf
  <2>2. \A f : numRefIdxActive(f)' = numRefIdxActive(f) /\ constructAtghRefListStruct(f)' = constructAtghRefListStruct(f)
    BY DEF numRefIdxActive, constructAtghRefListStruct, refAfocList, defaultActiveMinus1
  <2> QED
    BY <1>2, <2>1, <2>2 DEF Header
<1>4. predIndex(qs) = predIndex(ps)
  <2>1. IsPred(ps, predIndex(ps)) /\ IsPred(qs, predIndex(qs))
    BY PredIndex
  <2> QED
    BY <2>1, PredUnique DEF SameButSizes
<1>5. ASSUME NEW h PROVE Units(i, h)' = Units(i, h)
  <2> DEFINE pred == predIndex(ps)
             n == Len(ps)
             inter(p, r, x) == Unit(h.type, "inter", interPatchDataUnit(h, p, r, x))
             intra(p) == Unit(h.type, "intra", patchDataUnit(p))
             A == [k \in 1..n |-> IF ps[k].match = Unmatched THEN intra(ps[k])
                                  ELSE inter(ps[k], refPatch(i, ps[k]), pred[k])]
             B == [k \in 1..n |-> IF qs[k].match = Unmatched THEN intra(qs[k])
                                  ELSE inter(qs[k], refPatch(i, qs[k])', pred[k])]
             rest == [k \in 1..Len(conf.others) |-> Unit(h.type, conf.others[k], k)]
             end == <<Unit(h.type, "end", 0)>>
  <2>1. Units(i, h) = A \o rest \o end
    BY DEF Units
  <2>2. Units(i, h)' = B \o rest \o end
    <3>1. Len(qs) = n /\ predIndex(qs) = pred
      BY <1>4 DEF SameButSizes
    <3> QED
      BY <3>1 DEF Units, interPatchDataUnit, getNumRefIdxActive, defaultActiveMinus1,
                  refPatch, refTile, tileIn, refAfocList, frameOf
  <2>3. ASSUME NEW k \in 1..n PROVE A[k] = B[k]
    <3>1. CASE ps[k].match = Unmatched
      BY <3>1 DEF SameButSizes
    <3>2. CASE ps[k].match # Unmatched
      <4>1. ps[k] \in PatchSet
        OBVIOUS
      <4>2. ps[k].ref \in Nat
        BY <4>1 DEF PatchSet
      <4>3. HasFrame(i, ps[k]) /\ qs[k].ref = ps[k].ref /\ qs[k].match = ps[k].match
            /\ qs[k].mode = ps[k].mode /\ qs[k].d1 = ps[k].d1 /\ qs[k].sizeDPixel = ps[k].sizeDPixel
        BY <3>2 DEF SameButSizes
      <4> DEFINE p == ps[k]
                 q == qs[k]
      <4>4. refPatch(i, q)' = refPatch(i, p)
        <5> HIDE DEF p, q
        <5> QED
          BY <4>2, <4>3, ReferencesKept DEF p, q
      <4>5. \A r, x : interPatchDataUnit(h, q, r, x) = interPatchDataUnit(h, p, r, x)
        BY <4>3 DEF interPatchDataUnit, interOffsetD, interRangeD
      <4> QED
        BY <3>2, <4>3, <4>4, <4>5
    <3> QED
      BY <3>1, <3>2
  <2>4. A = B
    <3> HIDE DEF n
    <3> QED
      BY <2>3
  <2> HIDE DEF A, B, rest, end
  <2> QED
    BY <2>1, <2>2, <2>4
<1>6. PICK h : h = Header(i)
  OBVIOUS
<1>7. Units(i, Header(i))' = Units(i, h)'
  BY <1>3, <1>6 DEF Units, interPatchDataUnit, getNumRefIdxActive, defaultActiveMinus1,
                    refPatch, refTile, tileIn, refAfocList, frameOf
<1> QED
  BY <1>3, <1>5, <1>6, <1>7 DEF Layer

-----------------------------------------------------------------------------
(* The steps that leave the patches as they are. *)

\* The patches of a tile, and each of them.
LEMMA PatchOf ==
  ASSUME Types, NEW i \in 0..(Len(patches) - 1)
  PROVE  /\ i + 1 \in 1..Len(patches) /\ i \in Nat /\ patches[i + 1] \in Seq(PatchSet)
         /\ Len(patches[i + 1]) \in Nat
         /\ \A k \in 1..Len(patches[i + 1]) :
              LET p == patches[i + 1][k] IN
              /\ p \in PatchSet /\ p.mode \in {0, 1} /\ p.d1 \in Nat /\ p.sizeDPixel \in Nat
              /\ p.sizeD \in Nat /\ p.match \in Int /\ p.ref \in Nat
<1>1. patches \in Seq(Seq(PatchSet)) /\ Len(patches) \in Nat
  BY DEF Types
<1>2. i + 1 \in 1..Len(patches) /\ i \in Nat
  BY <1>1
<1>3. patches[i + 1] \in Seq(PatchSet)
  BY <1>1, <1>2
<1>4. ASSUME NEW k \in 1..Len(patches[i + 1]) PROVE patches[i + 1][k] \in PatchSet
  BY <1>3
<1>5. \A p \in PatchSet : /\ p.mode \in {0, 1} /\ p.d1 \in Nat /\ p.sizeDPixel \in Nat
                          /\ p.sizeD \in Nat /\ p.match \in Int /\ p.ref \in Nat
  BY DEF PatchSet
<1> QED
  BY <1>2, <1>3, <1>4, <1>5

LEMMA GeometryUnmoved ==
  ASSUME Geometry, UNCHANGED <<conf, patches, segmented>>, Len(atlList') = Len(atlList)
  PROVE  Geometry'
<1>1. \A p, cs : IsPatchOf(p, cs)' = IsPatchOf(p, cs)
  BY SameConf
<1> QED
  BY DEF Geometry, IsPatchOf, Adjusts, frameOf

LEMMA ReferencesUnmoved ==
  ASSUME References, UNCHANGED <<conf, patches>>, Len(atlList') = Len(atlList),
         Mirrored => Mirrored', pc' = "segment" => pc = "segment",
         \A i \in 0..(Len(patches) - 1) : Settled(i)' => Settled(i)
  PROVE  References'
<1> SUFFICES ASSUME NEW i \in 0..(Len(patches) - 1), NEW k \in 1..Len(patches[i + 1]),
                    patches[i + 1][k].match # Unmatched, Settled(i)',
                    NEW p, p = patches[i + 1][k]
             PROVE  IsReference(i, p)'
  BY DEF References, Settled
<1>1. IsReference(i, p)
  BY DEF References, Settled
<1>2. /\ HasFrame(i, p)' = HasFrame(i, p) /\ Adjusts' = Adjusts
      /\ refTile(i, p)' = refTile(i, p)
  BY SameConf
<1>3. refExists(i, p)' = refExists(i, p) /\ refPatch(i, p)' = refPatch(i, p)
  BY <1>2 DEF refExists, refPatch
<1> QED
  BY <1>1, <1>2, <1>3 DEF IsReference

\* A step that changes no coded tile keeps the tile layers.
LEMMA CodedUnmoved ==
  ASSUME Types, References, Coded, pc \notin {"adjust", "undefined"}, pc' # "encode", Len(atlList) <= Len(patches),
         UNCHANGED <<conf, patches, referred>>,
         \A i \in 0..(Len(atlList) - 1) : \A nalu \in {0, 1, 2} :
           atlList[i + 1] = Layer(i, nalu) /\ (nalu = 2 => i \notin referred) =>
             \E n \in {0, 1, 2} :
               atlList'[i + 1] = Layer(i, n) /\ (n = 2 => i \notin referred),
         Len(atlList') = Len(atlList), Len(atlList) \in Nat
  PROVE  Coded'
<1> SUFFICES ASSUME NEW i \in 0..(Len(atlList) - 1)
             PROVE  LayerCoded(i)' /\ PatchesCoded(i)'
  BY DEF Coded
<1>1. i \in 0..(Len(patches) - 1)
  BY DEF Types
<1>2. PICK ps : ps = patches[i + 1]
  OBVIOUS
<1>3. /\ ps \in Seq(PatchSet) /\ i \in Nat
      /\ \A k \in 1..Len(ps) : ps[k] \in PatchSet
      /\ \A k \in 1..Len(ps) : ps[k].match # Unmatched => HasFrame(i, ps[k])
  BY <1>1, <1>2, PatchOf DEF References, Settled, IsReference
<1>4. SameButSizes(ps, ps)
  BY DEF SameButSizes
<1>5. \A n : Layer(i, n)' = Layer(i, n)
  <2>1. conf \in Confs
    BY DEF Types
  <2> QED
    BY <1>2, <1>3, <1>4, <2>1, LayerKept
<1>6. LayerCoded(i)'
  BY <1>5 DEF Coded, LayerCoded
<1>7. \A p : IsCoded(i, p)' = IsCoded(i, p)
  BY DEF IsCoded, refPatch, refTile, tileIn, refAfocList, frameOf
<1> QED
  BY <1>6, <1>7 DEF Coded, LayerCoded, PatchesCoded

LEMMA EncInit == Init => EncInv
<1> SUFFICES ASSUME Init PROVE EncInv
  OBVIOUS
<1> USE DEF Init
<1>1. numTiles \in Nat
  BY ConfTypes
<1>2. Types
  BY <1>1 DEF Types
<1>3. Phases
  BY <1>1 DEF Phases
<1>4. Geometry /\ References /\ Coded
  BY DEF Geometry, References, Settled, Coded, LayerCoded, PatchesCoded
<1> QED
  BY <1>2, <1>3, <1>4 DEF EncInv

LEMMA EncStutter == EncInv /\ UNCHANGED vars => EncInv'
<1> SUFFICES ASSUME EncInv, UNCHANGED vars PROVE EncInv'
  OBVIOUS
<1> USE DEF vars, EncInv
<1>1. Types' /\ Phases'
  BY DEF Types, Phases, numTiles, Adjusts
<1>2. Mirrored' = Mirrored
  BY DEF Mirrored, MirroredElsewhere, Adjusts
<1>3. Geometry' /\ References'
  BY <1>2, GeometryUnmoved, ReferencesUnmoved DEF Settled
<1>4. Coded'
  <2>1. \A i, n : Layer(i, n)' = Layer(i, n)
    BY DEF Layer, Header, Units, tileType, AnyMatched, numRefIdxActive, constructAtghRefListStruct,
           interPatchDataUnit, getNumRefIdxActive, defaultActiveMinus1,
           refPatch, refTile, tileIn, refAfocList, frameOf
  <2>2. \A i, p : IsCoded(i, p)' = IsCoded(i, p)
    BY DEF IsCoded, refPatch, refTile, tileIn, refAfocList, frameOf
  <2> QED
    BY <2>1, <2>2 DEF Coded, LayerCoded, PatchesCoded
<1> QED
  BY <1>1, <1>3, <1>4

LEMMA EncEndSegment == EncInv /\ EndSegment => EncInv'
<1> SUFFICES ASSUME EncInv, EndSegment PROVE EncInv'
  OBVIOUS
<1> USE DEF EncInv, EndSegment
<1>1. conf \in Confs /\ numTiles \in Nat
  BY ConfTypes DEF Types
<1>2. numTiles' = numTiles /\ Adjusts' = Adjusts
  BY SameConf
<1>3. Adjusts => 2 * conf.tiles \in 0..numTiles
  <2> SUFFICES ASSUME Adjusts PROVE 2 * conf.tiles \in 0..numTiles
    OBVIOUS
  <2>1. conf.frames \in Nat /\ conf.tiles \in Nat /\ conf.frames > 2
    BY <1>1, ConfTypes DEF Adjusts
  <2> DEFINE a == conf.frames
             b == conf.tiles
  <2>2. numTiles = a * b
    BY DEF numTiles
  <2> HIDE DEF a, b
  <2>3. 2 * b <= a * b
    BY <2>1 DEF a, b
  <2> QED
    BY <2>1, <2>2, <2>3, <1>1 DEF b
<1>4. Types'
  BY <1>1, <1>2, <1>3 DEF Types
<1>5. Phases'
  <2>1. Adjusts => 2 * conf.tiles >= 2 * conf.tiles
    BY <1>3
  <2> QED
    BY <1>1, <1>2, <1>3, <2>1 DEF Types, Phases
<1>6. Geometry'
  BY GeometryUnmoved
<1>7. References'
  BY ReferencesUnmoved DEF Mirrored, Settled
<1>8. Coded'
  BY <1>5 DEF Coded, LayerCoded, PatchesCoded, Phases, Types
<1> QED
  BY <1>4, <1>5, <1>6, <1>7, <1>8

LEMMA EncEndAdjust == EncInv /\ EndAdjust => EncInv'
<1> SUFFICES ASSUME EncInv, EndAdjust PROVE EncInv'
  OBVIOUS
<1> USE DEF EncInv, EndAdjust
<1>1. conf \in Confs /\ numTiles \in Nat
  BY ConfTypes DEF Types
<1>2. numTiles' = numTiles /\ Adjusts' = Adjusts
  BY SameConf
<1>3. Types'
  BY <1>1, <1>2 DEF Types
<1>4. Phases'
  BY <1>1, <1>2 DEF Types, Phases
<1>5. Geometry'
  BY GeometryUnmoved
<1>6. References'
  <2>1. \A i \in 0..(Len(patches) - 1) : i < index
    BY <1>1 DEF Types
  <2> QED
    BY <2>1, ReferencesUnmoved DEF Mirrored, Settled
<1>7. Coded'
  BY <1>4 DEF Coded, LayerCoded, PatchesCoded, Phases, Types
<1> QED
  BY <1>3, <1>4, <1>5, <1>6, <1>7

LEMMA EncAdjustOutside == EncInv /\ AdjustOutside => EncInv'
<1> SUFFICES ASSUME EncInv, AdjustOutside PROVE EncInv'
  OBVIOUS
<1> USE DEF EncInv, AdjustOutside
<1>1. conf \in Confs /\ numTiles \in Nat
  BY ConfTypes DEF Types
<1>2. numTiles' = numTiles /\ Adjusts' = Adjusts /\ MirroredElsewhere' = MirroredElsewhere
  BY SameConf
<1>3. Types'
  BY <1>1, <1>2 DEF Types
<1>4. Phases'
  BY <1>1, <1>2 DEF Types, Phases
<1>5. Geometry'
  BY GeometryUnmoved
<1>6. atlList = <<>>
  BY DEF Phases
<1>7. References'
  BY <1>2, <1>6, ReferencesUnmoved DEF Mirrored, Settled
<1>8. Coded'
  BY <1>6 DEF Coded
<1> QED
  BY <1>3, <1>4, <1>5, <1>7, <1>8

LEMMA EncEncodeOutside == EncInv /\ EncodeOutside => EncInv'
<1> SUFFICES ASSUME EncInv, EncodeOutside PROVE EncInv'
  OBVIOUS
<1> USE DEF EncInv, EncodeOutside
<1>1. conf \in Confs /\ numTiles \in Nat
  BY ConfTypes DEF Types
<1>2. numTiles' = numTiles /\ Adjusts' = Adjusts /\ MirroredElsewhere' = MirroredElsewhere
  BY SameConf
<1>3. Types'
  BY <1>1, <1>2 DEF Types
<1>4. Phases'
  BY <1>1, <1>2 DEF Types, Phases
<1>5. Geometry'
  BY GeometryUnmoved
<1>6. References'
  BY <1>2, ReferencesUnmoved DEF Mirrored, Settled
<1>7. Len(atlList) \in Nat /\ Len(atlList) <= Len(patches)
  BY DEF Types, Phases
<1>8. Coded'
  BY <1>7, CodedUnmoved
<1> QED
  BY <1>3, <1>4, <1>5, <1>6, <1>8

LEMMA EncDecodeTile == EncInv /\ DecodeTile => EncInv'
<1> SUFFICES ASSUME EncInv, DecodeTile PROVE EncInv'
  OBVIOUS
<1>1. /\ pc = "decode" /\ index < numTiles /\ pc' \in {"decode", "undefined"}
      /\ \/ pc' = "decode" /\ index' = index + 1 /\ \E t : decoded' = Append(decoded, t)
         \/ pc' = "undefined" /\ UNCHANGED <<index, decoded>>
      /\ UNCHANGED <<conf, patches, segmented, referred, atlList>>
  BY DEF DecodeTile
<1> USE DEF EncInv
<1>2. conf \in Confs /\ numTiles \in Nat
  BY ConfTypes DEF Types
<1>3. numTiles' = numTiles /\ Adjusts' = Adjusts /\ MirroredElsewhere' = MirroredElsewhere
  BY <1>1, SameConf
<1>4. /\ Len(decoded') \in Nat /\ Len(decoded') <= numTiles /\ \E S : decoded' \in Seq(S)
      /\ pc' = "decode" => Len(decoded') = index'
  <2>1. PICK S : decoded \in Seq(S)
    BY DEF Types
  <2>2. Len(decoded) = index /\ index \in Nat
    BY <1>1, <1>2 DEF Phases, Types
  <2>3. CASE pc' = "undefined"
    BY <2>1, <2>2, <2>3, <1>1, <1>2
  <2>4. CASE pc' = "decode"
    <3>1. PICK t : decoded' = Append(decoded, t)
      BY <1>1, <2>4
    <3>2. decoded \in Seq(S \union {t}) /\ t \in S \union {t}
      BY <2>1
    <3>3. decoded' \in Seq(S \union {t}) /\ Len(decoded') = Len(decoded) + 1
      BY <3>1, <3>2
    <3> QED
      BY <3>3, <2>2, <2>4, <1>1, <1>2
  <2> QED
    BY <2>3, <2>4, <1>1
<1>5. Types'
  BY <1>1, <1>2, <1>3, <1>4 DEF Types
<1>6. Phases'
  BY <1>1, <1>2, <1>3, <1>4 DEF Types, Phases
<1>7. Geometry'
  BY <1>1, GeometryUnmoved
<1>8. References'
  BY <1>1, <1>3, ReferencesUnmoved DEF Mirrored, Settled
<1>9. Len(atlList) \in Nat /\ Len(atlList) <= Len(patches)
  BY <1>1 DEF Types, Phases
<1>10. Coded'
  BY <1>1, <1>9, CodedUnmoved
<1> QED
  BY <1>5, <1>6, <1>7, <1>8, <1>10

LEMMA LayerNalu ==
  ASSUME NEW i, NEW a, NEW b
  PROVE  [Layer(i, a) EXCEPT !.header.nalu = b] = Layer(i, b)
<1> DEFINE H(n) == [Header(i) EXCEPT !.nalu = n]
           u == Units(i, Header(i))
<1>1. PICK id, type, lsb, override, minus1 :
        Header(i) = [id |-> id, type |-> type, lsb |-> lsb, override |-> override,
                     activeMinus1 |-> minus1, nalu |-> 0]
  BY DEF Header
<1>2. \A n : H(n) = [id |-> id, type |-> type, lsb |-> lsb, override |-> override,
                     activeMinus1 |-> minus1, nalu |-> n]
  BY <1>1
<1>3. \A n : Layer(i, n) = [header |-> H(n), units |-> u]
  BY DEF Layer
<1> HIDE DEF H, u
<1>4. [Layer(i, a) EXCEPT !.header.nalu = b] = [header |-> [H(a) EXCEPT !.nalu = b], units |-> u]
  BY <1>3
<1>5. [H(a) EXCEPT !.nalu = b] = H(b)
  BY <1>2
<1> QED
  BY <1>3, <1>4, <1>5

LEMMA EncUpdateNaluInfo == EncInv /\ UpdateNaluInfo => EncInv'
<1> SUFFICES ASSUME EncInv, UpdateNaluInfo PROVE EncInv'
  OBVIOUS
<1> USE DEF EncInv
<1>1. /\ pc = "encode" /\ index = numTiles /\ pc' = "decode" /\ index' = 0
      /\ UNCHANGED <<conf, patches, segmented, referred, decoded>>
  BY DEF UpdateNaluInfo
<1>2. conf \in Confs /\ numTiles \in Nat
  BY ConfTypes DEF Types
<1>3. numTiles' = numTiles /\ Adjusts' = Adjusts /\ MirroredElsewhere' = MirroredElsewhere
  BY <1>1, SameConf
<1>4. /\ Len(atlList) = numTiles /\ decoded = <<>> /\ Len(patches) = numTiles
      /\ \E S : decoded \in Seq(S)
  BY <1>1 DEF Types, Phases
<1>5. /\ DOMAIN atlList' = 1..numTiles
      /\ \A i \in 1..numTiles :
           \/ atlList'[i] = atlList[i]
           \/ \E n \in {1, 2} : /\ atlList'[i] = [atlList[i] EXCEPT !.header.nalu = n]
                                /\ n = 2 => i - 1 \notin referred
  BY DEF UpdateNaluInfo
<1>6. /\ \E S : atlList' \in Seq(S)
      /\ Len(atlList') = numTiles
  <2> DEFINE S == {atlList'[i] : i \in 1..numTiles}
  <2>1. atlList' \in [1..numTiles -> S]
    BY DEF UpdateNaluInfo
  <2>2. atlList' \in Seq(S) /\ Len(atlList') = numTiles
    <3> HIDE DEF S
    <3> QED
      BY <2>1, <1>2
  <2> QED
    BY <2>2
<1>7. Types'
  BY <1>1, <1>2, <1>3, <1>4, <1>6 DEF Types
<1>8. Phases'
  BY <1>1, <1>2, <1>3, <1>4, <1>6 DEF Types, Phases
<1>9. Geometry'
  BY <1>1, <1>4, <1>6, GeometryUnmoved
<1>10. References'
  BY <1>1, <1>3, <1>4, <1>6, ReferencesUnmoved DEF Mirrored, Settled
<1>11. ASSUME NEW i \in 0..(Len(atlList) - 1), NEW nalu \in {0, 1, 2},
              atlList[i + 1] = Layer(i, nalu), nalu = 2 => i \notin referred
       PROVE  \E n \in {0, 1, 2} : atlList'[i + 1] = Layer(i, n) /\ (n = 2 => i \notin referred)
  <2>1. i + 1 \in 1..numTiles /\ (i + 1) - 1 = i
    BY <1>2, <1>4
  <2>2. CASE atlList'[i + 1] = atlList[i + 1]
    BY <2>2, <1>11
  <2>3. CASE \E n \in {1, 2} : /\ atlList'[i + 1] = [atlList[i + 1] EXCEPT !.header.nalu = n]
                               /\ n = 2 => i \notin referred
    <3>1. PICK n \in {1, 2} : /\ atlList'[i + 1] = [atlList[i + 1] EXCEPT !.header.nalu = n]
                              /\ n = 2 => i \notin referred
      BY <2>3
    <3>2. atlList'[i + 1] = Layer(i, n)
      BY <3>1, <1>11, LayerNalu
    <3> QED
      BY <3>1, <3>2
  <2> QED
    BY <2>1, <2>2, <2>3, <1>5
<1>12. Coded'
  BY <1>1, <1>2, <1>4, <1>6, <1>11, CodedUnmoved
<1> QED
  BY <1>7, <1>8, <1>9, <1>10, <1>12

-----------------------------------------------------------------------------
(* EncodeTile. *)

LEMMA ReferenceSizes ==
  ASSUME Types, Geometry, NEW i \in 0..(Len(patches) - 1), NEW p \in PatchSet,
         HasFrame(i, p), refExists(i, p)
  PROVE  LET r == refPatch(i, p) IN
         /\ refTile(i, p) \in 0..(Len(patches) - 1) /\ refTile(i, p) < i
         /\ p.match + 1 \in 1..Len(patches[refTile(i, p) + 1])
         /\ r = patches[refTile(i, p) + 1][p.match + 1]
         /\ r \in PatchSet /\ r.sizeD \in Nat
         /\ IsPatchOf(r, segmented[refTile(i, p) + 1])
<1> DEFINE t == refTile(i, p)
           m == p.match + 1
<1>1. p.ref \in Nat /\ p.match \in Int /\ conf \in Confs /\ i \in Nat /\ Len(patches) \in Nat
  BY DEF PatchSet, Types
<1>2. t \in Nat /\ t < i
  BY <1>1, Reference
<1>3. t \in 0..(Len(patches) - 1)
  BY <1>1, <1>2
<1>4. refPatch(i, p) = patches[t + 1][m] /\ p.match \in 0..(Len(patches[t + 1]) - 1)
  BY DEF refPatch, refExists
<1> HIDE DEF t
<1>5. /\ t + 1 \in 1..Len(patches) /\ Len(patches[t + 1]) \in Nat
      /\ \A k \in 1..Len(patches[t + 1]) :
           patches[t + 1][k] \in PatchSet /\ patches[t + 1][k].sizeD \in Nat
  BY <1>3, PatchOf
<1>6. m \in 1..Len(patches[t + 1])
  BY <1>4, <1>5
<1> HIDE DEF m
<1>7. patches[t + 1][m] \in PatchSet /\ patches[t + 1][m].sizeD \in Nat
  BY <1>5, <1>6
<1>8. IsPatchOf(patches[t + 1][m], segmented[t + 1])
  BY <1>5, <1>6 DEF Geometry
<1> QED
  BY <1>2, <1>3, <1>4, <1>6, <1>7, <1>8 DEF t, m

\* The bounds that interSizeD applies are never reached.
LEMMA SizeNotBounded ==
  ASSUME Types, Geometry, NEW i \in 0..(Len(patches) - 1), NEW k \in 1..Len(patches[i + 1]),
         NEW p, p = patches[i + 1][k], HasFrame(i, p), refExists(i, p),
         NEW r, r = refPatch(i, p), NEW s, s = interSizeD(p, r)
  PROVE  /\ s = r.sizeD + deltaDD(interRangeD(p, r))
         /\ s \in Nat /\ s < Pow2[BitDepth2D] /\ s <= Pow2[BitDepth3D]
         /\ p.sizeDPixel - minLevel <= s /\ s <= p.sizeDPixel + minLevel
         /\ interRangeD(p, r) \in Int
         /\ -Pow2[IntBits - 1] < interRangeD(p, r) /\ interRangeD(p, r) < Pow2[IntBits - 1]
<1>1. p \in PatchSet /\ i + 1 \in 1..Len(patches)
  BY PatchOf
<1>2. p.sizeDPixel \in Nat
  BY <1>1 DEF PatchSet
<1>3. IsPatchOf(p, segmented[i + 1])
  BY <1>1 DEF Geometry
<1>4. r.sizeD \in Nat /\ \E cs : IsPatchOf(r, cs)
  BY <1>1, ReferenceSizes
<1> DEFINE x == p.sizeDPixel
           y == r.sizeD
           z == y + deltaDD(RangeOf(x, y))
<1>5. /\ x \in Nat /\ x < Pow2[BitDepth2D] /\ x <= Pow2[BitDepth3D]
      /\ y \in Nat /\ y < Pow2[BitDepth2D] /\ y <= Pow2[BitDepth3D]
  BY <1>2, <1>3, <1>4 DEF IsPatchOf
<1>6. interRangeD(p, r) = RangeOf(x, y) /\ z = r.sizeD + deltaDD(interRangeD(p, r))
  BY DEF interRangeD, RangeOf
<1> HIDE DEF x, y, z
<1>7. /\ z \in Nat /\ z < Pow2[BitDepth2D] /\ z <= Pow2[BitDepth3D]
      /\ x - minLevel <= z /\ z <= x + minLevel
      /\ RangeOf(x, y) \in Int
      /\ -Pow2[IntBits - 1] < RangeOf(x, y) /\ RangeOf(x, y) < Pow2[IntBits - 1]
  <2>1. z = y + deltaDD(RangeOf(x, y))
    BY DEF z
  <2> QED
    BY <1>5, <2>1, InterSize
<1>8. s = z
  <2>1. s = Min2(Max2(z, 0), Pow2[BitDepth2D] - 1)
    BY <1>6 DEF interSizeD
  <2>2. Pow2[BitDepth2D] \in Nat
    BY Powers
  <2> QED
    BY <2>1, <2>2, <1>7 DEF Min2, Max2
<1> QED
  BY <1>6, <1>7, <1>8 DEF x

\* The references to a tile before and after the sizes of its patches change.
Resized(i) ==
  \A j \in Nat : j < i => /\ Len(patches[j + 1]) \in Nat
                          /\ SameButSizes(patches[j + 1], patches'[j + 1])

LEMMA ReferencesResized ==
  ASSUME conf \in Confs, conf' = conf, NEW i \in Nat, NEW p, NEW q, p.ref \in Nat, p.match \in Int,
         HasFrame(i, p), q.ref = p.ref, q.match = p.match, Resized(i)
  PROVE  /\ refTile(i, q)' = refTile(i, p) /\ refExists(i, q)' = refExists(i, p)
         /\ refExists(i, p) => refPatch(i, q)'.mode = refPatch(i, p).mode
<1>1. refTile(i, p) \in Nat /\ refTile(i, p) < i
  BY Reference
<1>2. refTile(i, q)' = refTile(i, p)
  BY DEF refTile, tileIn, refAfocList, frameOf
<1> DEFINE t == refTile(i, p)
           m == p.match + 1
<1>3. /\ refExists(i, p) = (p.match \in 0..(Len(patches[t + 1]) - 1))
      /\ refPatch(i, p) = patches[t + 1][m]
  BY DEF refExists, refPatch
<1>4. /\ refExists(i, q)' = (p.match \in 0..(Len(patches'[t + 1]) - 1))
      /\ refPatch(i, q)' = patches'[t + 1][m]
  BY <1>2 DEF refExists, refPatch
<1>5. SameButSizes(patches[t + 1], patches'[t + 1]) /\ Len(patches[t + 1]) \in Nat
  BY <1>1 DEF Resized
<1> HIDE DEF t
<1>6. refExists(i, p) => m \in 1..Len(patches[t + 1])
  <2> DEFINE n == Len(patches[t + 1])
             y == p.match
  <2>1. n \in Nat /\ y \in Int /\ (refExists(i, p) => y \in 0..(n - 1)) /\ m = y + 1
    BY <1>3, <1>5
  <2> HIDE DEF n, y
  <2>2. refExists(i, p) => m \in 1..n
    BY <2>1
  <2> QED
    BY <2>2 DEF n
<1> HIDE DEF m
<1> QED
  BY <1>2, <1>3, <1>4, <1>5, <1>6 DEF t, SameButSizes

LEMMA EncEncodeTile == EncInv /\ EncodeTile => EncInv'
<1> SUFFICES ASSUME EncInv, EncodeTile PROVE EncInv'
  OBVIOUS
<1> USE DEF EncInv
<1>1. /\ pc = "encode" /\ index < numTiles /\ index' = index + 1
      /\ \A k \in Inter(index) : refExists(index, patches[index + 1][k])
      /\ UNCHANGED <<conf, pc, segmented, decoded>>
  BY DEF EncodeTile
<1>2. conf \in Confs /\ numTiles \in Nat /\ index \in Nat
  BY ConfTypes DEF Types
<1>3. numTiles' = numTiles /\ Adjusts' = Adjusts /\ MirroredElsewhere' = MirroredElsewhere
  BY <1>1, SameConf
<1>4. Len(patches) = numTiles /\ Len(atlList) = index /\ patches \in Seq(Seq(PatchSet))
  BY <1>1 DEF Types, Phases
<1>5. PICK x : x = index
  OBVIOUS
<1>6. PICK ps : ps = patches[x + 1]
  OBVIOUS
<1>7. PICK qs : qs = patches'[x + 1]
  OBVIOUS
<1>8. x \in 0..(Len(patches) - 1) /\ x \in Nat /\ x + 1 \in 1..Len(patches)
  BY <1>1, <1>2, <1>4, <1>5
<1>9. /\ ps \in Seq(PatchSet) /\ Len(ps) \in Nat
      /\ \A k \in 1..Len(ps) : ps[k] \in PatchSet /\ ps[k].ref \in Nat /\ ps[k].match \in Int
  BY <1>6, <1>8, PatchOf
<1>10. ASSUME NEW k \in 1..Len(ps), ps[k].match # Unmatched
       PROVE  IsReference(x, ps[k]) /\ HasFrame(x, ps[k]) /\ refExists(x, ps[k])
  <2>1. k \in Inter(index) /\ patches[index + 1][k] = ps[k]
    BY <1>5, <1>6, <1>10 DEF Inter
  <2>2. IsReference(x, ps[k])
    BY <1>1, <1>6, <1>8, <1>10 DEF References, Settled
  <2> QED
    BY <1>1, <1>5, <2>1, <2>2 DEF IsReference
<1>11. PICK sz : sz = [k \in 1..Len(ps) |-> interSizeD(ps[k], refPatch(x, ps[k]))]
  OBVIOUS
<1>12. ASSUME NEW k \in 1..Len(ps), ps[k].match # Unmatched
       PROVE  LET r == refPatch(x, ps[k]) IN
              /\ sz[k] = r.sizeD + deltaDD(interRangeD(ps[k], r))
              /\ sz[k] \in Nat /\ sz[k] < Pow2[BitDepth2D] /\ sz[k] <= Pow2[BitDepth3D]
  <2> DEFINE p == ps[k]
             r == refPatch(x, p)
             s == sz[k]
  <2>1. s = interSizeD(p, r) /\ HasFrame(x, p) /\ refExists(x, p) /\ p = patches[x + 1][k]
    BY <1>6, <1>10, <1>11, <1>12
  <2> HIDE DEF p, s, r
  <2>2. r = refPatch(x, p)
    BY DEF r
  <2>3. /\ s = r.sizeD + deltaDD(interRangeD(p, r))
        /\ s \in Nat /\ s < Pow2[BitDepth2D] /\ s <= Pow2[BitDepth3D]
    BY <2>1, <2>2, <1>6, <1>8, SizeNotBounded
  <2> QED
    BY <2>3 DEF p, r, s
<1>13. patches' = [patches EXCEPT ![x + 1] =
         [k \in 1..Len(ps) |->
            IF ps[k].match = Unmatched THEN ps[k] ELSE [ps[k] EXCEPT !.sizeD = sz[k]]]]
  <2>1. DOMAIN ps = 1..Len(ps)
    BY <1>9
  <2> QED
    BY <2>1, <1>5, <1>6, <1>11 DEF EncodeTile
<1>14. /\ qs = [k \in 1..Len(ps) |->
                  IF ps[k].match = Unmatched THEN ps[k] ELSE [ps[k] EXCEPT !.sizeD = sz[k]]]
       /\ \A j : j # x + 1 => patches'[j] = patches[j]
  BY <1>4, <1>7, <1>8, <1>13
<1>15. ASSUME NEW k \in 1..Len(ps)
       PROVE  /\ qs[k] \in PatchSet
              /\ qs[k].match = ps[k].match /\ qs[k].ref = ps[k].ref
              /\ qs[k].mode = ps[k].mode /\ qs[k].d1 = ps[k].d1
              /\ qs[k].sizeDPixel = ps[k].sizeDPixel
              /\ ps[k].match = Unmatched => qs[k] = ps[k]
              /\ ps[k].match # Unmatched => qs[k].sizeD = sz[k]
  <2>1. ps[k] \in PatchSet
    BY <1>9
  <2>2. CASE ps[k].match = Unmatched
    BY <2>1, <2>2, <1>14
  <2>3. CASE ps[k].match # Unmatched
    <3>1. qs[k] = [ps[k] EXCEPT !.sizeD = sz[k]] /\ sz[k] \in Nat
      BY <2>3, <1>12, <1>14
    <3> QED
      BY <2>1, <2>3, <3>1 DEF PatchSet
  <2> QED
    BY <2>2, <2>3
<1>16. qs \in Seq(PatchSet) /\ Len(qs) = Len(ps) /\ SameButSizes(ps, qs)
  <2>1. qs \in Seq(PatchSet) /\ Len(qs) = Len(ps)
    <3>1. DOMAIN qs = 1..Len(ps) /\ qs = [k \in 1..Len(ps) |-> qs[k]]
      BY <1>14
    <3>2. qs \in [1..Len(ps) -> PatchSet]
      BY <3>1, <1>15
    <3> QED
      BY <3>2, <1>9
  <2> QED
    BY <2>1, <1>15 DEF SameButSizes
<1>17. patches' \in Seq(Seq(PatchSet)) /\ Len(patches') = Len(patches)
  <2> DEFINE S == Seq(PatchSet)
             y == x + 1
  <2>1. patches' = [patches EXCEPT ![y] = qs] /\ patches \in Seq(S) /\ y \in 1..Len(patches) /\ qs \in S
    BY <1>4, <1>8, <1>13, <1>14, <1>16
  <2> HIDE DEF S, y
  <2> QED
    BY <2>1 DEF S
<1>18. ASSUME NEW j \in 0..(Len(patches) - 1)
       PROVE  Len(patches[j + 1]) \in Nat /\ SameButSizes(patches[j + 1], patches'[j + 1])
  <2>1. Len(patches[j + 1]) \in Nat
    BY PatchOf
  <2>2. CASE j = x
    BY <1>6, <1>7, <1>16, <2>1, <2>2
  <2>3. CASE j # x
    BY <1>8, <1>14, <2>1, <2>3, SMTT(30) DEF SameButSizes
  <2> QED
    BY <2>2, <2>3
<1>19. PICK t : atlList' = Append(atlList, t) /\ t = Layer(x, 0)
  <2>1. atlList' = Append(atlList, [header |-> Header(x), units |-> Units(x, Header(x))])
    BY <1>5 DEF EncodeTile
  <2>2. [Header(x) EXCEPT !.nalu = 0] = Header(x)
    BY DEF Header
  <2> QED
    BY <2>1, <2>2 DEF Layer
<1>20. /\ \E S : atlList' \in Seq(S)
       /\ Len(atlList') = x + 1 /\ atlList'[x + 1] = t
       /\ \A j \in 1..x : atlList'[j] = atlList[j]
  <2>1. PICK S : atlList \in Seq(S)
    BY DEF Types
  <2>2. atlList \in Seq(S \union {t}) /\ t \in S \union {t}
    BY <2>1
  <2>3. Len(atlList) = x /\ x \in Nat
    BY <1>4, <1>5, <1>8
  <2> QED
    BY <2>2, <2>3, <1>19
<1>21. referred' = referred \union {refTile(x, ps[k]) : k \in {k \in 1..Len(ps) : ps[k].match # Unmatched}}
  BY <1>5, <1>6 DEF EncodeTile, Inter
<1>22. Types'
  <2>1. \A k \in 1..Len(ps) : ps[k].match # Unmatched => refTile(x, ps[k]) \in 0..(numTiles - 1)
    BY <1>4, <1>8, <1>9, <1>10, ReferenceSizes
  <2>2. referred' \subseteq 0..(numTiles - 1)
    BY <2>1, <1>21 DEF Types
  <2> QED
    BY <2>2, <1>1, <1>2, <1>3, <1>4, <1>17, <1>20, SMTT(30) DEF Types
<1>23. Phases'
  BY <1>1, <1>2, <1>3, <1>4, <1>5, <1>20 DEF Types, Phases
<1>24. Geometry'
  <2> SUFFICES ASSUME NEW i \in 1..Len(patches)
               PROVE  /\ Len(patches'[i]) <= conf.maxPatches
                      /\ \/ Len(patches'[i]) = Len(segmented[i])
                         \/ Adjusts /\ frameOf(i - 1) >= 2 /\ patches'[i] = <<>>
                      /\ \A k \in 1..Len(patches'[i]) :
                           /\ IsPatchOf(patches'[i][k], segmented[i])
                           /\ i > x + 1 \/ patches'[i][k].match = Unmatched =>
                                AsSegmented(patches'[i][k])
    BY <1>1, <1>3, <1>17, <1>20 DEF Geometry, IsPatchOf, frameOf, AsSegmented
  <2>1. CASE i # x + 1
    <3>1. patches'[i] = patches[i]
      BY <2>1, <1>14
    <3>2. i > x + 1 => i > Len(atlList)
      BY <1>4, <1>5, <1>8
    <3> QED
      BY <3>1, <3>2 DEF Geometry
  <2>2. CASE i = x + 1
    <3>1. patches[i] = ps /\ patches'[i] = qs /\ Len(qs) = Len(ps)
      BY <2>2, <1>6, <1>7, <1>16
    <3>2. /\ Len(qs) <= conf.maxPatches
          /\ \/ Len(qs) = Len(segmented[i])
             \/ Adjusts /\ frameOf(i - 1) >= 2 /\ qs = <<>>
      <4>1. ps = <<>> => qs = <<>>
        BY <3>1, <1>9, <1>16
      <4> QED
        BY <3>1, <4>1 DEF Geometry
    <3>3. ASSUME NEW k \in 1..Len(qs)
          PROVE  /\ IsPatchOf(qs[k], segmented[i])
                 /\ qs[k].match = Unmatched => AsSegmented(qs[k])
      <4>1. k \in 1..Len(ps) /\ IsPatchOf(ps[k], segmented[i])
        BY <3>1 DEF Geometry
      <4>2. CASE ps[k].match = Unmatched
        BY <4>1, <4>2, <3>1, <1>15 DEF Geometry
      <4>3. CASE ps[k].match # Unmatched
        BY <4>1, <4>3, <1>12, <1>15 DEF IsPatchOf
      <4> QED
        BY <4>2, <4>3
    <3>4. ~(i > x + 1)
      BY <2>2, <1>8
    <3> QED
      BY <3>1, <3>2, <3>3, <3>4
  <2> QED
    BY <2>1, <2>2
<1>25. References'
  <2> SUFFICES ASSUME NEW i \in 0..(Len(patches) - 1), NEW k \in 1..Len(patches'[i + 1]),
                      NEW q, q = patches'[i + 1][k], q.match # Unmatched
               PROVE  IsReference(i, q)'
    BY <1>17 DEF References, Settled
  <2>1. PICK p : p = patches[i + 1][k]
    OBVIOUS
  <2>2. /\ Len(patches[i + 1]) \in Nat /\ SameButSizes(patches[i + 1], patches'[i + 1])
        /\ k \in 1..Len(patches[i + 1]) /\ i \in Nat
    BY <1>18 DEF SameButSizes
  <2>3. p.match = q.match /\ p.ref = q.ref /\ p.mode = q.mode
    BY <2>1, <2>2 DEF SameButSizes
  <2>4. p.ref \in Nat /\ p.match \in Int
    BY <2>1, <2>2, PatchOf
  <2>5. IsReference(i, p)
    BY <2>1, <2>2, <2>3, <1>1 DEF References, Settled
  <2>6. /\ HasFrame(i, q)' /\ HasFrame(i, p)
    <3>1. HasFrame(i, q) = HasFrame(i, p)
      BY <2>3 DEF HasFrame
    <3> QED
      BY <2>5, <3>1, <1>1, SameConf DEF IsReference
  <2>7. /\ refExists(i, q)' = refExists(i, p)
        /\ refExists(i, p) => refPatch(i, q)'.mode = refPatch(i, p).mode
    <3>1. \A j \in Nat : j < i => j \in 0..(Len(patches) - 1)
      BY <1>4
    <3>2. Resized(i)
      BY <3>1, <1>18 DEF Resized
    <3>3. conf \in Confs /\ conf' = conf /\ i \in Nat /\ q.ref = p.ref /\ q.match = p.match
      BY <2>2, <2>3, <1>1, <1>2
    <3> HIDE DEF EncInv
    <3>4. p.ref \in Nat /\ p.match \in Int /\ HasFrame(i, p)
      BY <2>4, <2>6
    <3> QED
      BY <3>2, <3>3, <3>4, ReferencesResized
  <2>8. i = x => refExists(i, p)
    <3> SUFFICES ASSUME i = x PROVE refExists(i, p)
      OBVIOUS
    <3>1. k \in 1..Len(ps) /\ p = ps[k] /\ p.match # Unmatched
      BY <2>1, <2>2, <2>3, <1>6
    <3> QED
      BY <3>1, <1>10
  <2>9. i < Len(atlList') => i < Len(atlList) \/ i = x
    BY <1>4, <1>5, <1>8, <1>20
  <2>10. Mirrored' = Mirrored
    BY <1>1, <1>3 DEF Mirrored
  <2> QED
    BY <2>3, <2>5, <2>6, <2>7, <2>8, <2>9, <2>10, <1>1, <1>3 DEF IsReference
<1>26. Coded'
  <2> SUFFICES ASSUME NEW i \in 0..(Len(atlList') - 1)
               PROVE  LayerCoded(i)' /\ PatchesCoded(i)'
    BY DEF Coded
  <2>1. i \in 0..(Len(patches) - 1) /\ i \in Nat /\ i \in 0..x
    BY <1>8, <1>20
  <2>2. PICK pi : pi = patches[i + 1]
    OBVIOUS
  <2>3. PICK qi : qi = patches'[i + 1]
    OBVIOUS
  <2>4. SameButSizes(pi, qi) /\ Len(pi) \in Nat /\ pi \in Seq(PatchSet) /\ qi \in Seq(PatchSet)
    <3>1. i + 1 \in 1..Len(patches')
      BY <2>1, <1>17
    <3> QED
      BY <2>1, <2>2, <2>3, <3>1, <1>17, <1>18, PatchOf
  <2>5. \A j \in Nat : j < i => patches'[j + 1] = patches[j + 1]
    BY <2>1, <1>8, <1>14
  <2>6. ASSUME NEW k \in 1..Len(pi), pi[k].match # Unmatched
        PROVE  IsReference(i, pi[k]) /\ HasFrame(i, pi[k]) /\ pi[k].ref \in Nat
    <3>1. IsReference(i, pi[k])
      BY <2>1, <2>2, <2>6, <1>1 DEF References, Settled
    <3>2. pi[k].ref \in Nat
      BY <2>1, <2>2, PatchOf
    <3> QED
      BY <3>1, <3>2 DEF IsReference
  <2>7. Layer(i, 0)' = Layer(i, 0)
    BY <2>1, <2>2, <2>3, <2>4, <2>5, <2>6, <1>1, <1>2, LayerKept
  <2>8. atlList'[i + 1] = Layer(i, 0)
    <3>1. CASE i = x
      BY <3>1, <1>19, <1>20
    <3>2. CASE i < x
      <4>1. i + 1 \in 1..x /\ i \in 0..(Len(atlList) - 1)
        BY <3>2, <1>4, <1>5, <1>8
      <4> QED
        BY <4>1, <1>1, <1>20 DEF Coded, LayerCoded, PatchesCoded
    <3> QED
      BY <3>1, <3>2, <1>8, <2>1
  <2>9. ASSUME NEW k \in 1..Len(qi), NEW q, q = qi[k], q.match # Unmatched
        PROVE  IsCoded(i, q)'
    <3>1. PICK p : p = pi[k]
      OBVIOUS
    <3>2. /\ k \in 1..Len(pi) /\ p.match = q.match /\ p.ref = q.ref
          /\ p.mode = q.mode /\ p.sizeDPixel = q.sizeDPixel
      BY <2>4, <2>9, <3>1 DEF SameButSizes
    <3>3. HasFrame(i, p) /\ p.ref \in Nat
      BY <2>6, <2>9, <3>1, <3>2
    <3>4. refTile(i, q)' = refTile(i, p) /\ refPatch(i, q)' = refPatch(i, p)
      BY <2>1, <2>5, <3>2, <3>3, <1>1, <1>2, ReferencesKept
    <3>5. PICK r : r = refPatch(i, p)
      OBVIOUS
    <3>6. q.sizeD = r.sizeD + deltaDD(interRangeD(p, r)) /\ refTile(i, p) \in referred'
      <4>1. CASE i = x
        <5>1. pi = ps /\ qi = qs
          BY <4>1, <2>2, <2>3, <1>6, <1>7
        <5>2. q.sizeD = sz[k] /\ p = ps[k] /\ k \in 1..Len(ps) /\ ps[k].match # Unmatched
          BY <5>1, <3>1, <3>2, <2>9, <1>15
        <5>3. r = refPatch(x, ps[k])
          BY <5>2, <4>1, <3>5
        <5>4. sz[k] = r.sizeD + deltaDD(interRangeD(ps[k], r))
          BY <5>2, <5>3, <1>12
        <5>5. refTile(i, p) \in referred'
          BY <5>2, <4>1, <1>21
        <5> QED
          BY <5>2, <5>4, <5>5
      <4>2. CASE i < x
        <5>1. i \in 0..(Len(atlList) - 1)
          BY <4>2, <2>1, <1>4, <1>5, <1>8
        <5>2. qi = pi
          BY <4>2, <2>1, <2>2, <2>3, <1>8, <1>14
        <5>3. q = p /\ IsCoded(i, p)
          BY <5>1, <5>2, <3>1, <3>2, <2>2, <2>9 DEF Coded, LayerCoded, PatchesCoded
        <5> QED
          BY <5>3, <3>5, <1>21 DEF IsCoded
      <4> QED
        BY <4>1, <4>2, <1>8, <2>1
    <3>7. interRangeD(q, r) = interRangeD(p, r)
      BY <3>2 DEF interRangeD
    <3> QED
      BY <3>4, <3>5, <3>6, <3>7 DEF IsCoded
  <2>10. LayerCoded(i)'
    BY <2>7, <2>8 DEF LayerCoded
  <2>11. PatchesCoded(i)'
    BY <2>3, <2>9 DEF PatchesCoded
  <2> QED
    BY <2>10, <2>11
<1> QED
  BY <1>22, <1>23, <1>24, <1>25, <1>26

-----------------------------------------------------------------------------
(* Segment. *)

LEMMA SegmentPatch ==
  ASSUME conf \in Confs, NEW c \in Segments, NEW match \in Int, NEW p, p = Patch(c, match)
  PROVE  /\ p \in PatchSet /\ p.match = match /\ p.ref = 0 /\ p.mode = c.mode
         /\ AsSegmented(p)
         /\ \A cs, j : j \in 1..Len(cs) /\ cs[j] = c => IsPatchOf(p, cs)
<1>1. c \in Components /\ segmentSizeDPixel(c) <= Pow2[BitDepth2D] - 1
  BY ConfTypes DEF Segments
<1> DEFINE x == segmentSizeDPixel(c)
           s == segmentSizeD(x)
<1>2. /\ c.mode \in {0, 1} /\ IsDepth(c.mode, segmentD1(c)) /\ x \in Nat
      /\ c.mode = 1 /\ segmentD1(c) = 0 => AtZero(c)
      /\ x < Pow2[BitDepth2D] /\ x <= Pow2[BitDepth3D]
  <2>1. Pow2[BitDepth2D] \in Nat /\ Pow2[BitDepth3D] \in Nat
    BY Powers
  <2>2. x \in 0..Pow2[BitDepth3D] /\ x <= Pow2[BitDepth2D] - 1
    BY <1>1, SegmentDepth
  <2> HIDE DEF x
  <2>3. x \in Nat /\ x < Pow2[BitDepth2D] /\ x <= Pow2[BitDepth3D]
    BY <2>1, <2>2
  <2> QED
    BY <1>1, <2>3, SegmentDepth
<1>3. /\ p = [mode |-> c.mode, d1 |-> segmentD1(c), sizeDPixel |-> x, sizeD |-> s,
              match |-> match, ref |-> 0]
  BY DEF Patch
<1> HIDE DEF x
<1>4. s \in Nat /\ s < Pow2[BitDepth2D] /\ s <= Pow2[BitDepth3D]
  <2>1. s = segmentSizeD(x)
    OBVIOUS
  <2> HIDE DEF s
  <2>2. s \in Nat /\ s < Pow2[geometryDepth]
    BY <1>2, <2>1, SegmentSize
  <2>3. /\ Pow2[geometryDepth] \in Nat /\ Pow2[BitDepth2D] \in Nat /\ Pow2[BitDepth3D] \in Nat
        /\ Pow2[geometryDepth] <= Pow2[BitDepth2D] /\ Pow2[geometryDepth] <= Pow2[BitDepth3D]
    BY Powers
  <2> QED
    BY <2>2, <2>3
<1>5. AsSegmented(p)
  BY <1>3 DEF AsSegmented
<1> HIDE DEF s
<1>6. segmentD1(c) \in Nat
  BY <1>2, Powers DEF IsDepth
<1>7. p \in PatchSet
  BY <1>2, <1>3, <1>4, <1>6 DEF PatchSet
<1>8. 0 < conf.maxRef
  BY ConfTypes
<1>9. ASSUME NEW cs, NEW j, j \in 1..Len(cs), cs[j] = c PROVE IsPatchOf(p, cs)
  BY <1>2, <1>3, <1>4, <1>8, <1>9 DEF IsPatchOf
<1> QED
  BY <1>3, <1>5, <1>7, <1>9

LEMMA EncSegment == EncInv /\ Segment => EncInv'
<1> SUFFICES ASSUME EncInv, Segment PROVE EncInv'
  OBVIOUS
<1> USE DEF EncInv
<1>1. /\ pc = "segment" /\ index < numTiles /\ index' = index + 1
      /\ UNCHANGED <<conf, pc, referred, atlList, decoded>>
  BY DEF Segment
<1>2. conf \in Confs /\ numTiles \in Nat /\ index \in Nat
  BY ConfTypes DEF Types
<1>3. numTiles' = numTiles /\ Adjusts' = Adjusts /\ MirroredElsewhere' = MirroredElsewhere
  BY <1>1, SameConf
<1>4. /\ Len(patches) = index /\ Len(segmented) = index /\ atlList = <<>> /\ decoded = <<>>
      /\ patches \in Seq(Seq(PatchSet)) /\ segmented \in Seq(Seq(Components))
  BY <1>1 DEF Types, Phases
<1>5. PICK x : x = index
  OBVIOUS
<1>6. PICK prev : prev = IF frameOf(x) = 0 \/ ~conf.constrainedPack THEN <<>>
                         ELSE patches[tileIn(frameOf(x) - 1, x) + 1]
  OBVIOUS
<1>7. PICK n \in 0..conf.maxPatches :
        \E cs \in [1..n -> Segments] : \E ms \in [1..n -> Unmatched..(Len(prev) - 1)] :
          /\ \A k \in 1..n : ms[k] # Unmatched => prev[ms[k] + 1].mode = cs[k].mode
          /\ patches' = Append(patches, [k \in 1..n |-> Patch(cs[k], ms[k])])
          /\ segmented' = Append(segmented, cs)
  BY <1>5, <1>6, ZenonT(30) DEF Segment
<1>20. PICK cs \in [1..n -> Segments] : \E ms \in [1..n -> Unmatched..(Len(prev) - 1)] :
          /\ \A k \in 1..n : ms[k] # Unmatched => prev[ms[k] + 1].mode = cs[k].mode
          /\ patches' = Append(patches, [k \in 1..n |-> Patch(cs[k], ms[k])])
          /\ segmented' = Append(segmented, cs)
  BY <1>7
<1>21. PICK ms \in [1..n -> Unmatched..(Len(prev) - 1)] :
          /\ \A k \in 1..n : ms[k] # Unmatched => prev[ms[k] + 1].mode = cs[k].mode
          /\ patches' = Append(patches, [k \in 1..n |-> Patch(cs[k], ms[k])])
          /\ segmented' = Append(segmented, cs)
  BY <1>20
<1>8. PICK ps : ps = [k \in 1..n |-> Patch(cs[k], ms[k])]
  OBVIOUS
<1>9. n \in Nat /\ n <= conf.maxPatches /\ conf.maxPatches \in Nat
  BY <1>2, ConfTypes
<1>10. ASSUME NEW k \in 1..n
       PROVE  /\ ps[k] \in PatchSet /\ ps[k].match = ms[k] /\ ps[k].ref = 0
              /\ ps[k].mode = cs[k].mode /\ AsSegmented(ps[k]) /\ IsPatchOf(ps[k], cs)
  <2> DEFINE c == cs[k]
             m == ms[k]
             p == ps[k]
  <2>1. c \in Segments /\ m \in Int /\ p = Patch(c, m)
    BY <1>8 DEF Unmatched
  <2>2. k \in 1..Len(cs) /\ cs[k] = c
    BY <1>21, <1>9
  <2> HIDE DEF c, m, p
  <2> HIDE DEF EncInv
  <2>3. /\ p \in PatchSet /\ p.match = m /\ p.ref = 0 /\ p.mode = c.mode
        /\ AsSegmented(p)
        /\ \A ds, j : j \in 1..Len(ds) /\ ds[j] = c => IsPatchOf(p, ds)
    BY <2>1, <1>2, SegmentPatch
  <2>4. IsPatchOf(p, cs)
    BY <2>2, <2>3
  <2> QED
    BY <2>3, <2>4 DEF c, m, p
<1>11. ps \in Seq(PatchSet) /\ Len(ps) = n
  <2>1. ps \in [1..n -> PatchSet]
    BY <1>8, <1>10
  <2> QED
    BY <2>1, <1>9
<1>12. cs \in Seq(Components) /\ Len(cs) = n
  <2>1. Segments \subseteq Components
    BY <1>2, ConfTypes DEF Segments
  <2>2. cs \in [1..n -> Components]
    BY <2>1
  <2> QED
    BY <2>2, <1>9
<1>13. /\ patches' \in Seq(Seq(PatchSet)) /\ Len(patches') = x + 1
       /\ patches'[x + 1] = ps /\ \A j \in 1..x : patches'[j] = patches[j]
  <2> DEFINE S == Seq(PatchSet)
  <2>1. patches \in Seq(S) /\ ps \in S /\ patches' = Append(patches, ps) /\ Len(patches) = x /\ x \in Nat
    BY <1>2, <1>4, <1>5, <1>21, <1>8, <1>11
  <2> HIDE DEF S
  <2> QED
    BY <2>1 DEF S
<1>14. /\ segmented' \in Seq(Seq(Components)) /\ Len(segmented') = x + 1
       /\ segmented'[x + 1] = cs /\ \A j \in 1..x : segmented'[j] = segmented[j]
  <2> DEFINE S == Seq(Components)
  <2>1. /\ segmented \in Seq(S) /\ cs \in S /\ segmented' = Append(segmented, cs)
        /\ Len(segmented) = x /\ x \in Nat
    BY <1>2, <1>4, <1>5, <1>21, <1>12
  <2> HIDE DEF S
  <2> QED
    BY <2>1 DEF S
<1>15. Types'
  BY <1>1, <1>2, <1>3, <1>5, <1>13, <1>14 DEF Types
<1>16. Phases'
  BY <1>1, <1>2, <1>3, <1>4 DEF Types, Phases
<1>17. Geometry'
  <2> SUFFICES ASSUME NEW i \in 1..(x + 1)
               PROVE  /\ Len(patches'[i]) <= conf.maxPatches
                      /\ \/ Len(patches'[i]) = Len(segmented'[i])
                         \/ Adjusts /\ frameOf(i - 1) >= 2 /\ patches'[i] = <<>>
                      /\ \A k \in 1..Len(patches'[i]) :
                           /\ IsPatchOf(patches'[i][k], segmented'[i])
                           /\ i > Len(atlList) \/ patches'[i][k].match = Unmatched =>
                                AsSegmented(patches'[i][k])
    BY <1>1, <1>3, <1>13 DEF Geometry, IsPatchOf, frameOf, AsSegmented
  <2>1. CASE i = x + 1
    BY <2>1, <1>9, <1>10, <1>11, <1>12, <1>13, <1>14
  <2>2. CASE i \in 1..x
    BY <2>2, <1>4, <1>5, <1>13, <1>14 DEF Geometry
  <2> QED
    BY <2>1, <2>2, <1>2, <1>5
<1>18. References'
  <2> SUFFICES ASSUME NEW i \in 0..(Len(patches') - 1), NEW k \in 1..Len(patches'[i + 1]),
                      NEW p, p = patches'[i + 1][k], p.match # Unmatched
               PROVE  IsReference(i, p)'
    BY DEF References, Settled
  <2>1. i \in 0..x /\ i \in Nat /\ x \in Nat
    BY <1>2, <1>5, <1>13
  <2>2. \A j \in Nat : j < i => patches'[j + 1] = patches[j + 1]
    BY <2>1, <1>13
  <2>3. /\ HasFrame(i, p) /\ p.ref = 0 /\ p.ref \in Nat
        /\ refExists(i, p) /\ refPatch(i, p).mode = p.mode
    <3>1. CASE i < x
      <4>1. i \in 0..(Len(patches) - 1) /\ patches'[i + 1] = patches[i + 1]
        <5>1. i + 1 \in 1..x
          BY <2>1, <3>1
        <5> QED
          BY <2>1, <3>1, <5>1, <1>4, <1>5, <1>13
      <4>2. IsReference(i, p)
        BY <4>1, <1>1 DEF References, Settled
      <4> QED
        BY <4>2, <1>1 DEF IsReference, Mirrored
    <3>2. CASE i = x
      <4>1. k \in 1..n /\ p = ps[k]
        BY <3>2, <1>11, <1>13
      <4>2. p.match = ms[k] /\ p.ref = 0 /\ p.mode = cs[k].mode /\ ms[k] # Unmatched
        BY <4>1, <1>10
      <4>3. ms[k] \in Unmatched..(Len(prev) - 1) /\ prev[ms[k] + 1].mode = cs[k].mode
        BY <4>1, <4>2, <1>21
      <4>4. frameOf(i) \in Nat /\ frameOf(i) # 0 /\ conf.constrainedPack
            /\ prev = patches[tileIn(frameOf(i) - 1, i) + 1]
        <5>1. prev # <<>>
          <6>1. Len(<<>>) = 0
            OBVIOUS
          <6> QED
            BY <6>1, <4>2, <4>3 DEF Unmatched
        <5>2. frameOf(i) \in Nat
          BY <1>2, <2>1, FrameOf
        <5> QED
          BY <5>1, <5>2, <3>2, <1>6
      <4>5. HasFrame(i, p)
        <5>1. conf.maxRef \in Nat /\ conf.maxRef >= 1
          BY <1>2, ConfTypes
        <5> QED
          BY <5>1, <4>2, <4>4, SMTT(30) DEF HasFrame, Min2
      <4>6. refTile(i, p) = tileIn(frameOf(i) - 1, i)
        <5>1. p.ref \in Nat /\ frameOf(i) - (p.ref + 1) = frameOf(i) - 1
          BY <4>2, <4>4
        <5> QED
          BY <5>1, <4>5, <2>1, <1>2, Reference
      <4>7. refExists(i, p) /\ refPatch(i, p).mode = p.mode
        BY <4>2, <4>3, <4>4, <4>6 DEF refExists, refPatch, Unmatched
      <4> QED
        BY <4>2, <4>5, <4>7
    <3> QED
      BY <2>1, <3>1, <3>2
  <2>4. refExists(i, p)' = refExists(i, p) /\ refPatch(i, p)' = refPatch(i, p)
    BY <2>1, <2>2, <2>3, <1>1, <1>2, ReferencesKept, ZenonT(30)
  <2>5. HasFrame(i, p)'
    BY <2>3, <1>1, SameConf
  <2> QED
    BY <2>3, <2>4, <2>5 DEF IsReference
<1>19. Coded'
  BY <1>1, <1>4 DEF Coded
<1> QED
  BY <1>15, <1>16, <1>17, <1>18, <1>19

-----------------------------------------------------------------------------
(* adjustReferenceAtlasFrame. *)

\* The patches that Rematch gives for ps have references that are there.
Rematched(x, ps, rs) ==
  /\ rs \in Seq(PatchSet) /\ Len(rs) = Len(ps)
  /\ \A k \in 1..Len(ps) :
       /\ rs[k].mode = ps[k].mode /\ rs[k].d1 = ps[k].d1
       /\ rs[k].sizeDPixel = ps[k].sizeDPixel /\ rs[k].sizeD = ps[k].sizeD
       /\ rs[k].ref < conf.maxRef
       /\ rs[k].match # Unmatched =>
            HasFrame(x, rs[k]) /\ refExists(x, rs[k]) /\ refPatch(x, rs[k]).mode = rs[k].mode

LEMMA RematchPatches ==
  ASSUME Types, conf.constrainedPack, NEW x \in 0..(Len(patches) - 1),
         NEW ps, ps = patches[x + 1], NEW rs \in Rematch(x, ps)
  PROVE  Rematched(x, ps, rs)
<1> DEFINE f == frameOf(x)
           list == refAfocList(f)
           n == Len(ps)
           l == Min2(f, conf.maxRef)
           T(r) == patches[tileIn(list[r], x) + 1]
           Refs == {<<Unmatched, 0>>} \union UNION {{<<k - 1, r - 1>> : k \in 1..Len(T(r))} : r \in 1..Len(list)}
<1>1. conf \in Confs /\ x \in Nat /\ ps \in Seq(PatchSet) /\ n \in Nat
      /\ \A k \in 1..n : ps[k] \in PatchSet
  BY PatchOf DEF Types
<1>2. f \in Nat /\ conf.maxRef \in Nat /\ conf.maxRef >= 1
  BY <1>1, FrameOf, ConfTypes
<1>3. l \in Nat /\ l <= f /\ l <= conf.maxRef
  BY <1>2 DEF Min2
<1>4. Len(list) = l
  <2>1. list = [k \in 1..l |-> f - k]
    BY DEF refAfocList
  <2> HIDE DEF list, l, f
  <2> QED
    BY <2>1, <1>3
<1>5. PICK m \in [1..n -> Refs] :
        /\ rs = [k \in 1..n |-> [ps[k] EXCEPT !.match = m[k][1], !.ref = m[k][2]]]
        /\ \A k \in 1..n : m[k][1] # Unmatched => T(m[k][2] + 1)[m[k][1] + 1].mode = ps[k].mode
  BY ZenonT(30) DEF Rematch
<1> HIDE DEF n
<1>6. ASSUME NEW k \in 1..n
      PROVE  /\ rs[k] = [ps[k] EXCEPT !.match = m[k][1], !.ref = m[k][2]]
             /\ m[k][1] \in Int /\ m[k][2] \in Nat /\ m[k][2] < conf.maxRef
             /\ m[k][1] # Unmatched => m[k][2] < l /\ m[k][1] \in 0..(Len(T(m[k][2] + 1)) - 1)
  <2>1. rs[k] = [ps[k] EXCEPT !.match = m[k][1], !.ref = m[k][2]] /\ m[k] \in Refs
    BY <1>5
  <2>2. CASE m[k] = <<Unmatched, 0>>
    BY <2>1, <2>2, <1>2 DEF Unmatched
  <2>3. CASE \E r \in 1..Len(list) : \E j \in 1..Len(T(r)) : m[k] = <<j - 1, r - 1>>
    <3>1. PICK r \in 1..Len(list) : \E j \in 1..Len(T(r)) : m[k] = <<j - 1, r - 1>>
      BY <2>3
    <3>2. PICK j \in 1..Len(T(r)) : m[k] = <<j - 1, r - 1>>
      BY <3>1
    <3>3. m[k][1] = j - 1 /\ m[k][2] = r - 1 /\ r \in 1..l
      BY <3>1, <3>2, <1>4
    <3>4. m[k][2] + 1 = r /\ m[k][2] \in Nat /\ m[k][2] < l /\ m[k][2] < conf.maxRef
      BY <3>3, <1>2, <1>3, SMTT(30)
    <3> HIDE DEF T, l, Refs
    <3>5. j - 1 \in 0..(Len(T(r)) - 1)
      OBVIOUS
    <3> QED
      BY <2>1, <3>3, <3>4, <3>5
  <2>4. m[k] = <<Unmatched, 0>> \/ \E r \in 1..Len(list) : \E j \in 1..Len(T(r)) : m[k] = <<j - 1, r - 1>>
    <3> HIDE DEF T, list
    <3> QED
      BY <2>1, SMTT(30)
  <2> QED
    BY <2>2, <2>3, <2>4
<1> HIDE DEF Refs
<1>7. ASSUME NEW k \in 1..n
      PROVE  /\ rs[k] \in PatchSet
             /\ rs[k].mode = ps[k].mode /\ rs[k].d1 = ps[k].d1
             /\ rs[k].sizeDPixel = ps[k].sizeDPixel /\ rs[k].sizeD = ps[k].sizeD
             /\ rs[k].match = m[k][1] /\ rs[k].ref = m[k][2]
  <2>1. ps[k] \in PatchSet
    BY <1>1 DEF n
  <2> DEFINE a == m[k][1]
             b == m[k][2]
             p == ps[k]
  <2>2. rs[k] = [p EXCEPT !.match = a, !.ref = b] /\ a \in Int /\ b \in Nat /\ p \in PatchSet
    BY <2>1, <1>6
  <2> HIDE DEF a, b, p
  <2>3. /\ rs[k] \in PatchSet /\ rs[k].mode = p.mode /\ rs[k].d1 = p.d1
        /\ rs[k].sizeDPixel = p.sizeDPixel /\ rs[k].sizeD = p.sizeD
        /\ rs[k].match = a /\ rs[k].ref = b
    BY <2>2, ZenonT(30) DEF PatchSet
  <2> QED
    BY <2>3 DEF a, b, p
<1>8. rs \in Seq(PatchSet) /\ Len(rs) = n
  <2>1. rs \in [1..n -> PatchSet]
    BY <1>5, <1>7
  <2> QED
    BY <2>1, <1>1, SMTT(30) DEF n
<1>9. ASSUME NEW k \in 1..n, rs[k].match # Unmatched
      PROVE  HasFrame(x, rs[k]) /\ refExists(x, rs[k]) /\ refPatch(x, rs[k]).mode = rs[k].mode
  <2>1. /\ rs[k].ref < l
        /\ rs[k].match \in 0..(Len(T(rs[k].ref + 1)) - 1)
        /\ T(rs[k].ref + 1)[rs[k].match + 1].mode = rs[k].mode
    <3>1. rs[k].match = m[k][1] /\ rs[k].ref = m[k][2] /\ rs[k].mode = ps[k].mode
      BY <1>7
    <3> HIDE DEF T
    <3> QED
      BY <3>1, <1>5, <1>6, <1>9, ZenonT(30)
  <2> QED
    BY <2>1 DEF HasFrame, refExists, refPatch, refTile
<1>10. \A k \in 1..n : rs[k].ref < conf.maxRef
  BY <1>6, <1>7
<1> QED
  BY <1>7, <1>8, <1>9, <1>10 DEF n, Rematched

LEMMA EncAdjust == EncInv /\ adjustReferenceAtlasFrame => EncInv'
<1> SUFFICES ASSUME EncInv, adjustReferenceAtlasFrame PROVE EncInv'
  OBVIOUS
<1> USE DEF EncInv
<1>1. /\ pc = "adjust" /\ index < numTiles /\ index' = index + 1
      /\ UNCHANGED <<conf, pc, segmented, referred, atlList, decoded>>
  BY DEF adjustReferenceAtlasFrame
<1>2. conf \in Confs /\ numTiles \in Nat /\ index \in Nat
  BY ConfTypes DEF Types
<1>3. numTiles' = numTiles /\ Adjusts' = Adjusts /\ MirroredElsewhere' = MirroredElsewhere
  BY <1>1, SameConf
<1>4. /\ Len(patches) = numTiles /\ patches \in Seq(Seq(PatchSet)) /\ atlList = <<>>
      /\ Adjusts /\ conf.constrainedPack /\ index >= 2 * conf.tiles /\ decoded = <<>>
  BY <1>1 DEF Types, Phases, Adjusts
<1>5. PICK x : x = index
  OBVIOUS
<1>6. PICK ps : ps = patches[x + 1]
  OBVIOUS
<1>7. PICK rs \in Rematch(x, ps) :
        patches' = [patches EXCEPT ![x + 1] = IF AnyMatched(rs) THEN rs ELSE <<>>]
  BY <1>5, <1>6 DEF adjustReferenceAtlasFrame
<1>8. PICK qs : qs = IF AnyMatched(rs) THEN rs ELSE <<>>
  OBVIOUS
<1>9. x \in 0..(Len(patches) - 1) /\ x \in Nat /\ x + 1 \in 1..Len(patches)
  BY <1>1, <1>2, <1>4, <1>5
<1>10. /\ rs \in Seq(PatchSet) /\ Len(rs) = Len(ps)
       /\ \A k \in 1..Len(ps) :
            /\ rs[k].mode = ps[k].mode /\ rs[k].d1 = ps[k].d1
            /\ rs[k].sizeDPixel = ps[k].sizeDPixel /\ rs[k].sizeD = ps[k].sizeD
            /\ rs[k].ref < conf.maxRef
            /\ rs[k].match # Unmatched =>
                 HasFrame(x, rs[k]) /\ refExists(x, rs[k]) /\ refPatch(x, rs[k]).mode = rs[k].mode
  <2>1. Types /\ conf.constrainedPack /\ ps = patches[x + 1] /\ rs \in Rematch(x, ps)
    BY <1>4, <1>6, <1>7
  <2> HIDE DEF EncInv
  <2>2. Rematched(x, ps, rs)
    BY <2>1, <1>9, RematchPatches
  <2> QED
    BY <2>2 DEF Rematched
<1>11. qs \in Seq(PatchSet) /\ Len(ps) \in Nat /\ (qs = rs \/ qs = <<>>)
  BY <1>6, <1>8, <1>9, <1>10, PatchOf
<1>12. /\ patches' \in Seq(Seq(PatchSet)) /\ Len(patches') = Len(patches)
       /\ patches'[x + 1] = qs /\ \A j : j # x + 1 => patches'[j] = patches[j]
  <2> DEFINE S == Seq(PatchSet)
             y == x + 1
  <2>1. patches' = [patches EXCEPT ![y] = qs] /\ patches \in Seq(S) /\ y \in 1..Len(patches) /\ qs \in S
    BY <1>4, <1>7, <1>8, <1>9, <1>11
  <2> HIDE DEF S, y
  <2>2. patches' \in Seq(S) /\ Len(patches') = Len(patches)
    BY <2>1
  <2>3. patches'[y] = qs /\ \A j : j # y => patches'[j] = patches[j]
    BY <2>1
  <2> QED
    BY <2>2, <2>3 DEF S, y
<1>13. Types'
  BY <1>1, <1>2, <1>3, <1>4, <1>12 DEF Types
<1>14. Phases'
  <2>1. index' >= 2 * conf.tiles
    BY <1>1, <1>2, <1>4, ConfTypes
  <2> QED
    BY <2>1, <1>1, <1>2, <1>3, <1>4 DEF Types, Phases
<1>15. Geometry'
  <2> SUFFICES ASSUME NEW i \in 1..Len(patches)
               PROVE  /\ Len(patches'[i]) <= conf.maxPatches
                      /\ \/ Len(patches'[i]) = Len(segmented[i])
                         \/ Adjusts /\ frameOf(i - 1) >= 2 /\ patches'[i] = <<>>
                      /\ \A k \in 1..Len(patches'[i]) :
                           /\ IsPatchOf(patches'[i][k], segmented[i])
                           /\ i > Len(atlList) \/ patches'[i][k].match = Unmatched =>
                                AsSegmented(patches'[i][k])
    <3>1. Len(patches') = Len(patches) /\ UNCHANGED <<conf, segmented, atlList>> /\ Adjusts' = Adjusts
      BY <1>1, <1>3, <1>12
    <3> HIDE DEF EncInv
    <3> QED
      BY <3>1 DEF Geometry, IsPatchOf, frameOf, AsSegmented
  <2>1. CASE i # x + 1
    <3>1. patches'[i] = patches[i]
      BY <2>1, <1>12
    <3> QED
      BY <3>1 DEF Geometry
  <2>2. CASE i = x + 1
    <3>1. patches[i] = ps /\ patches'[i] = qs /\ i - 1 = x
      BY <2>2, <1>6, <1>9, <1>12
    <3>2. Adjusts /\ frameOf(i - 1) >= 2
      <4>1. frameOf(x) \in Nat /\ (x < 2 * conf.tiles <=> frameOf(x) < 2)
        BY <1>2, <1>9, FrameMonotone, FrameOf
      <4>2. ~(x < 2 * conf.tiles)
        BY <1>2, <1>4, <1>5, ConfTypes
      <4> QED
        BY <3>1, <4>1, <4>2, <1>4
    <3>3. CASE qs = <<>>
      <4>1. Len(qs) = 0 /\ conf.maxPatches \in Nat
        BY <3>3, <1>2, ConfTypes
      <4> QED
        BY <3>1, <3>2, <3>3, <4>1
    <3>4. CASE qs = rs
      <4>1. Len(qs) = Len(ps) /\ (ps = <<>> => qs = <<>>)
        BY <3>4, <1>10, <1>11
      <4>2. /\ Len(qs) <= conf.maxPatches
            /\ \/ Len(qs) = Len(segmented[i])
               \/ Adjusts /\ frameOf(i - 1) >= 2 /\ qs = <<>>
        BY <3>1, <4>1 DEF Geometry
      <4>3. ASSUME NEW k \in 1..Len(qs)
            PROVE  IsPatchOf(qs[k], segmented[i]) /\ AsSegmented(qs[k])
        <5>1. k \in 1..Len(ps) /\ IsPatchOf(ps[k], segmented[i]) /\ AsSegmented(ps[k])
          <6>1. i > Len(atlList)
            BY <1>4
          <6> QED
            BY <3>1, <4>1, <6>1 DEF Geometry
        <5> QED
          BY <5>1, <3>4, <1>10 DEF IsPatchOf, AsSegmented
      <4> QED
        BY <3>1, <4>2, <4>3
    <3> QED
      BY <3>3, <3>4, <1>11
  <2> QED
    BY <2>1, <2>2
<1>16. References'
  <2> SUFFICES ASSUME NEW i \in 0..(Len(patches) - 1), NEW k \in 1..Len(patches'[i + 1]),
                      NEW p, p = patches'[i + 1][k], p.match # Unmatched, i < x + 1
               PROVE  IsReference(i, p)'
    BY <1>1, <1>5, <1>12 DEF References, Settled
  <2>1. i \in 0..x /\ i \in Nat
    BY <1>9
  <2>2. /\ \A j \in Nat : j < x => patches'[j + 1] = patches[j + 1]
        /\ \A j \in Nat : j < i => patches'[j + 1] = patches[j + 1]
    <3>1. \A j \in Nat : j < x => j + 1 # x + 1
      BY <1>9
    <3>2. \A j \in Nat : j < i => j < x
      BY <2>1, <1>9
    <3> QED
      BY <3>1, <3>2, <1>12
  <2>3. /\ HasFrame(i, p) /\ p.ref \in Nat
        /\ refExists(i, p) /\ refPatch(i, p).mode = p.mode
    <3>1. CASE i < x
      <4>1. patches'[i + 1] = patches[i + 1]
        BY <2>1, <2>2, <3>1
      <4>2. IsReference(i, p)
        BY <4>1, <3>1, <1>1, <1>5 DEF References, Settled
      <4>3. p.ref \in Nat
        BY <4>1, PatchOf
      <4> QED
        BY <4>2, <4>3, <1>1 DEF IsReference, Mirrored
    <3>2. CASE i = x
      <4>1. k \in 1..Len(qs) /\ p = qs[k]
        BY <3>2, <1>12
      <4>2. qs = rs
        BY <4>1, <1>11
      <4>3. p \in PatchSet
        BY <4>1, <1>11
      <4> QED
        BY <4>1, <4>2, <4>3, <3>2, <1>10 DEF PatchSet
    <3> QED
      BY <2>1, <3>1, <3>2, <1>9
  <2>4. refExists(i, p)' = refExists(i, p) /\ refPatch(i, p)' = refPatch(i, p)
    BY <2>1, <2>2, <2>3, <1>1, <1>2, ReferencesKept
  <2>5. HasFrame(i, p)'
    BY <2>3, <1>1, SameConf
  <2> QED
    BY <2>3, <2>4, <2>5, <1>1, <1>3, <1>4 DEF IsReference
<1>17. Coded'
  BY <1>1, <1>4 DEF Coded
<1> QED
  BY <1>13, <1>14, <1>15, <1>16, <1>17

-----------------------------------------------------------------------------
(* ReversePatches. *)

\* qs are the patches ps in the reverse order, with every match mirrored in a
\* tile of l patches.
IsReversed(ps, qs, l) ==
  /\ qs \in Seq(PatchSet) /\ Len(qs) = Len(ps)
  /\ \A k \in 1..Len(ps) :
       \E p \in {ps[Len(ps) - k + 1]} :
         /\ qs[k].mode = p.mode /\ qs[k].d1 = p.d1 /\ qs[k].ref = p.ref
         /\ qs[k].sizeDPixel = p.sizeDPixel /\ qs[k].sizeD = p.sizeD
         /\ qs[k].match = IF p.match = Unmatched THEN Unmatched ELSE l - p.match - 1

LEMMA ReversedPatches ==
  ASSUME Types, References, pc = "reverse", NEW i \in 0..(Len(patches) - 1), NEW ps, ps = patches[i + 1],
         NEW l, l = Len(patches[tileIn(frameOf(i) - 1, i) + 1])
  PROVE  IsReversed(ps, Reversed(i), l)
<1> DEFINE n == Len(ps)
           Mirror(p) == IF p.match = Unmatched THEN p ELSE [p EXCEPT !.match = l - p.match - 1]
<1>1. PICK qs : qs = Reversed(i)
  OBVIOUS
<1>2. qs = [k \in 1..n |-> Mirror(ps[n - k + 1])]
  BY <1>1 DEF Reversed
<1>3. conf \in Confs /\ i \in Nat /\ ps \in Seq(PatchSet) /\ n \in Nat
      /\ \A k \in 1..n : /\ ps[k] \in PatchSet /\ ps[k].ref \in Nat /\ ps[k].match \in Int
  BY PatchOf DEF Types
<1> HIDE DEF n
<1>4. \A k \in 1..n : n - k + 1 \in 1..n
  BY <1>3
<1>5. ASSUME NEW k \in 1..n, NEW p, p = ps[n - k + 1]
      PROVE  /\ qs[k] \in PatchSet
             /\ qs[k].mode = p.mode /\ qs[k].d1 = p.d1 /\ qs[k].ref = p.ref
             /\ qs[k].sizeDPixel = p.sizeDPixel /\ qs[k].sizeD = p.sizeD
             /\ qs[k].match = IF p.match = Unmatched THEN Unmatched ELSE l - p.match - 1
  <2>1. p \in PatchSet /\ p.ref \in Nat /\ p.match \in Int /\ qs[k] = Mirror(p)
    BY <1>2, <1>3, <1>4, <1>5
  <2>2. CASE p.match = Unmatched
    BY <2>1, <2>2
  <2>3. CASE p.match # Unmatched
    <3>1. IsReference(i, p)
      BY <2>3, <1>4, <1>5 DEF References, Settled, n
    <3>2. frameOf(i) \in Nat /\ frameOf(i) >= 1
      <4>1. frameOf(i) \in Nat /\ conf.maxRef \in Nat
        BY <1>3, FrameOf, ConfTypes
      <4> QED
        BY <4>1, <3>1, <2>1 DEF IsReference, HasFrame, Min2
    <3>3. l \in Nat
      <4> DEFINE g == frameOf(i) - 1
                 t == tileIn(g, i)
      <4>1. g \in Nat /\ g < frameOf(i) /\ l = Len(patches[t + 1])
        BY <3>2
      <4> HIDE DEF g
      <4>2. t \in Nat /\ t < i
        BY <4>1, <1>3, TileIn
      <4> HIDE DEF t
      <4>3. t \in 0..(Len(patches) - 1)
        BY <4>2 DEF Types
      <4> QED
        BY <4>1, <4>3, PatchOf
    <3> DEFINE m == l - p.match - 1
    <3>4. m \in Int /\ qs[k] = [p EXCEPT !.match = m]
      BY <2>1, <2>3, <3>3
    <3> HIDE DEF m
    <3>5. /\ qs[k] \in PatchSet
          /\ qs[k].mode = p.mode /\ qs[k].d1 = p.d1 /\ qs[k].ref = p.ref
          /\ qs[k].sizeDPixel = p.sizeDPixel /\ qs[k].sizeD = p.sizeD /\ qs[k].match = m
      BY <2>1, <3>4 DEF PatchSet
    <3> QED
      BY <2>3, <3>5 DEF m
  <2> QED
    BY <2>2, <2>3
<1>6. qs \in Seq(PatchSet) /\ Len(qs) = n
  <2>1. qs \in [1..n -> PatchSet]
    BY <1>2, <1>5
  <2> QED
    BY <2>1, <1>3
<1>7. \A k \in 1..n : \E p \in {ps[n - k + 1]} :
         /\ qs[k].mode = p.mode /\ qs[k].d1 = p.d1 /\ qs[k].ref = p.ref
         /\ qs[k].sizeDPixel = p.sizeDPixel /\ qs[k].sizeD = p.sizeD
         /\ qs[k].match = IF p.match = Unmatched THEN Unmatched ELSE l - p.match - 1
  BY <1>5
<1> QED
  BY <1>1, <1>6, <1>7 DEF n, IsReversed

LEMMA EncReversePatches == EncInv /\ ReversePatches => EncInv'
<1> SUFFICES ASSUME EncInv, ReversePatches PROVE EncInv'
  OBVIOUS
<1> USE DEF EncInv
<1>1. /\ pc = "reverse" /\ pc' = "encode" /\ index' = 0
      /\ UNCHANGED <<conf, segmented, referred, atlList, decoded>>
  BY DEF ReversePatches
<1>2. conf \in Confs /\ numTiles \in Nat
  BY ConfTypes DEF Types
<1>3. numTiles' = numTiles /\ Adjusts' = Adjusts /\ MirroredElsewhere' = MirroredElsewhere
  BY <1>1, SameConf
<1>4. /\ Len(patches) = numTiles /\ patches \in Seq(Seq(PatchSet)) /\ atlList = <<>> /\ decoded = <<>>
      /\ Len(atlList) = 0
  BY <1>1 DEF Types, Phases
<1>5. Phases'
  BY <1>1, <1>2, <1>3, <1>4 DEF Phases, Types
<1>6. Coded'
  BY <1>1, <1>4 DEF Coded
<1>7. CASE ~conf.precedence
  <2>1. patches' = patches
    BY <1>7 DEF ReversePatches
  <2>2. Types'
    BY <2>1, <1>1, <1>2, <1>3 DEF Types
  <2>3. Geometry'
    BY <2>1, <1>1, GeometryUnmoved
  <2>4. References'
    BY <2>1, <1>1, ReferencesUnmoved DEF Mirrored, Settled
  <2> QED
    BY <2>2, <2>3, <2>4, <1>5, <1>6
<1>8. CASE conf.precedence
  <2>1. PICK R : R = [i \in 1..numTiles |-> Reversed(i - 1)]
    OBVIOUS
  <2>2. patches' = R
    BY <2>1, <1>8 DEF ReversePatches
  <2>3. ASSUME NEW i \in 0..(numTiles - 1)
        PROVE  IsReversed(patches[i + 1], R[i + 1], Len(patches[tileIn(frameOf(i) - 1, i) + 1]))
    <3>1. i + 1 \in 1..numTiles /\ (i + 1) - 1 = i /\ i \in 0..(Len(patches) - 1)
      BY <1>2, <1>4
    <3>2. R[i + 1] = Reversed(i)
      BY <2>1, <3>1
    <3> DEFINE l == Len(patches[tileIn(frameOf(i) - 1, i) + 1])
               ps == patches[i + 1]
    <3> HIDE DEF l, ps
    <3>3. IsReversed(ps, Reversed(i), l)
      BY <3>1, <1>1, ReversedPatches DEF l, ps
    <3> QED
      BY <3>2, <3>3 DEF l, ps
  <2>4. ASSUME NEW i \in 1..numTiles
        PROVE  /\ R[i] \in Seq(PatchSet) /\ Len(R[i]) = Len(patches[i]) /\ Len(patches[i]) \in Nat
               /\ \A k \in 1..Len(R[i]) : \E j \in 1..Len(patches[i]) : \E p \in {patches[i][j]} :
                    /\ R[i][k].mode = p.mode /\ R[i][k].d1 = p.d1 /\ R[i][k].ref = p.ref
                    /\ R[i][k].sizeDPixel = p.sizeDPixel /\ R[i][k].sizeD = p.sizeD
                    /\ p.match = Unmatched => R[i][k].match = Unmatched
    <3> DEFINE y == i - 1
    <3>1. y \in 0..(numTiles - 1) /\ y + 1 = i /\ y \in 0..(Len(patches) - 1)
      BY <1>2, <1>4
    <3> HIDE DEF y
    <3>2. PICK l : IsReversed(patches[i], R[i], l)
      BY <3>1, <2>3
    <3>3. Len(patches[i]) \in Nat
      BY <3>1, PatchOf
    <3>4. \A k \in 1..Len(patches[i]) : Len(patches[i]) - k + 1 \in 1..Len(patches[i])
      BY <3>3
    <3> QED
      BY <3>2, <3>3, <3>4 DEF IsReversed
  <2>5. patches' \in Seq(Seq(PatchSet)) /\ Len(patches') = numTiles
    <3> DEFINE S == Seq(PatchSet)
    <3>1. R \in [1..numTiles -> S]
      BY <2>1, <2>4
    <3> HIDE DEF S
    <3>2. R \in Seq(S) /\ Len(R) = numTiles
      BY <3>1, <1>2
    <3> QED
      BY <3>2, <2>2 DEF S
  <2>6. Types'
    BY <2>5, <1>1, <1>2, <1>3, <1>4 DEF Types
  <2>7. Geometry'
    <3> SUFFICES ASSUME NEW i \in 1..numTiles
                 PROVE  /\ Len(R[i]) <= conf.maxPatches
                        /\ \/ Len(R[i]) = Len(segmented[i])
                           \/ Adjusts /\ frameOf(i - 1) >= 2 /\ R[i] = <<>>
                        /\ \A k \in 1..Len(R[i]) :
                             IsPatchOf(R[i][k], segmented[i]) /\ AsSegmented(R[i][k])
      BY <2>2, <2>5, <1>1, <1>3, <1>4 DEF Geometry, IsPatchOf, frameOf, AsSegmented
    <3>1. i \in 1..Len(patches) /\ i > Len(atlList)
      BY <1>4
    <3>2. /\ Len(R[i]) <= conf.maxPatches
          /\ \/ Len(R[i]) = Len(segmented[i])
             \/ Adjusts /\ frameOf(i - 1) >= 2 /\ R[i] = <<>>
      BY <3>1, <2>4 DEF Geometry
    <3>3. ASSUME NEW k \in 1..Len(R[i])
          PROVE  IsPatchOf(R[i][k], segmented[i]) /\ AsSegmented(R[i][k])
      <4>1. PICK j \in 1..Len(patches[i]) : \E p \in {patches[i][j]} :
                    /\ R[i][k].mode = p.mode /\ R[i][k].d1 = p.d1 /\ R[i][k].ref = p.ref
                    /\ R[i][k].sizeDPixel = p.sizeDPixel /\ R[i][k].sizeD = p.sizeD
        BY <2>4
      <4>2. PICK p \in {patches[i][j]} :
                    /\ R[i][k].mode = p.mode /\ R[i][k].d1 = p.d1 /\ R[i][k].ref = p.ref
                    /\ R[i][k].sizeDPixel = p.sizeDPixel /\ R[i][k].sizeD = p.sizeD
        BY <4>1
      <4>3. IsPatchOf(p, segmented[i]) /\ AsSegmented(p)
        BY <4>2, <3>1 DEF Geometry
      <4> QED
        BY <4>2, <4>3 DEF IsPatchOf, AsSegmented
    <3> QED
      BY <3>2, <3>3
  <2>8. References'
    <3> SUFFICES ASSUME NEW i \in 0..(numTiles - 1), NEW k \in 1..Len(R[i + 1]),
                        NEW q, q = R[i + 1][k], q.match # Unmatched
                 PROVE  IsReference(i, q)'
      BY <2>2, <2>5 DEF References, Settled
    <3> DEFINE ps == patches[i + 1]
               n == Len(ps)
    <3>1. i + 1 \in 1..numTiles /\ i \in Nat /\ i \in 0..(Len(patches) - 1) /\ n \in Nat
      BY <1>2, <1>4, PatchOf
    <3>2. PICK l : l = Len(patches[tileIn(frameOf(i) - 1, i) + 1])
      OBVIOUS
    <3>3. IsReversed(ps, R[i + 1], l)
      BY <2>3, <3>2
    <3>4. k \in 1..n
      BY <3>3 DEF IsReversed
    <3>5. PICK p \in {ps[n - k + 1]} :
            /\ q.mode = p.mode /\ q.ref = p.ref
            /\ q.match = IF p.match = Unmatched THEN Unmatched ELSE l - p.match - 1
      BY <3>3, <3>4 DEF IsReversed
    <3>6. n - k + 1 \in 1..n /\ p = patches[i + 1][n - k + 1] /\ p.match # Unmatched
      BY <3>1, <3>4, <3>5
    <3>7. IsReference(i, p) /\ HasFrame(i, p)
      BY <3>1, <3>6, <1>1 DEF References, Settled, IsReference
    <3>8. p.ref \in Nat /\ p.match \in Int
      BY <3>1, <3>6, PatchOf
    <3>9. HasFrame(i, q)'
      <4>1. HasFrame(i, q) = HasFrame(i, p)
        BY <3>5 DEF HasFrame
      <4> QED
        BY <3>7, <4>1, <1>1, SameConf
    <3>10. CASE Adjusts
      BY <3>9, <3>10, <1>1, <1>3, <1>4, <1>8 DEF IsReference, Mirrored, MirroredElsewhere
    <3>11. CASE ~Adjusts
      <4>1. p.ref = 0 /\ refExists(i, p) /\ refPatch(i, p).mode = p.mode
        BY <3>7, <3>11, <1>1 DEF IsReference, Mirrored
      <4> DEFINE t == refTile(i, p)
      <4>2. t \in Nat /\ t < i /\ t = tileIn(frameOf(i) - 1, i)
        <5>1. frameOf(i) - (p.ref + 1) = frameOf(i) - 1
          BY <4>1
        <5> QED
          BY <5>1, <3>1, <3>7, <3>8, <1>2, Reference
      <4>3. t \in 0..(numTiles - 1) /\ t + 1 \in 1..numTiles
        BY <4>2, <3>1, <1>2, SMTT(30)
      <4>4. refTile(i, q)' = t
        BY <3>5, <1>1 DEF refTile, tileIn, refAfocList, frameOf
      <4>5. p.match \in 0..(Len(patches[t + 1]) - 1) /\ refPatch(i, p) = patches[t + 1][p.match + 1]
        BY <4>1 DEF refExists, refPatch
      <4> HIDE DEF t
      <4>6. /\ Len(R[t + 1]) = Len(patches[t + 1]) /\ l = Len(patches[t + 1]) /\ l \in Nat
        BY <4>2, <4>3, <3>2, <2>4
      <4>7. q.match = l - p.match - 1 /\ q.match \in 0..(l - 1) /\ q.match + 1 \in 1..l
            /\ l - (q.match + 1) + 1 = p.match + 1
        <5> DEFINE a == p.match
                   b == q.match
        <5>1. a \in 0..(l - 1) /\ a \in Int /\ b = l - a - 1 /\ l \in Nat
          BY <4>5, <4>6, <3>5, <3>6, <3>8
        <5> HIDE DEF a, b
        <5>2. b \in 0..(l - 1) /\ b + 1 \in 1..l /\ l - (b + 1) + 1 = a + 1
          BY <5>1, SMTT(30)
        <5> QED
          BY <5>1, <5>2 DEF a, b
      <4>8. refExists(i, q)'
        BY <4>4, <4>6, <4>7, <2>2 DEF refExists
      <4>9. refPatch(i, q)' = R[t + 1][q.match + 1]
        BY <4>4, <2>2 DEF refPatch
      <4>10. R[t + 1][q.match + 1].mode = patches[t + 1][p.match + 1].mode
        <5>1. PICK l2 : IsReversed(patches[t + 1], R[t + 1], l2)
          BY <4>3, <2>3
        <5> DEFINE j == q.match + 1
        <5>2. j \in 1..Len(patches[t + 1]) /\ Len(patches[t + 1]) - j + 1 = p.match + 1
          BY <4>6, <4>7
        <5> HIDE DEF j
        <5>3. R[t + 1][j].mode = patches[t + 1][p.match + 1].mode
          BY <5>1, <5>2 DEF IsReversed
        <5> QED
          BY <5>3 DEF j
      <4> QED
        BY <3>5, <3>9, <4>1, <4>5, <4>8, <4>9, <4>10, <1>1, <1>4 DEF IsReference
    <3> QED
      BY <3>10, <3>11
  <2> QED
    BY <2>6, <2>7, <2>8, <1>5, <1>6
<1> QED
  BY <1>7, <1>8

-----------------------------------------------------------------------------
(* The encoder. *)

\* The invariant of the encoder: what the patches of every tile are, which references
\* exist, and that the tile layers hold them.
THEOREM EncInvariant == Spec => []EncInv
<1>1. EncInv /\ [Next]_vars => EncInv'
  BY EncStutter, EncSegment, EncEndSegment, EncAdjust, EncAdjustOutside, EncEndAdjust, EncReversePatches,
     EncEncodeTile, EncEncodeOutside, EncUpdateNaluInfo, EncDecodeTile DEF Next
<1> QED
  BY <1>1, EncInit, PTL DEF Spec

\* D1 stays a multiple of the quantizer and D1, SizeD and the reference index in the
\* ranges of their fields, from the segmentation to the bitstream, for all bit depths.
THEOREM TypeCorrect == Spec => []TypeOK
<1>1. EncInv => TypeOK
  <2> SUFFICES ASSUME EncInv PROVE TypeOK
    OBVIOUS
  <2>1. ASSUME NEW i \in 1..Len(patches), NEW k \in 1..Len(patches[i]), NEW p, p = patches[i][k]
        PROVE  /\ p.mode \in {0, 1}
               /\ p.d1 \in 0..Pow2[BitDepth3D] /\ p.d1 % minLevel = 0
               /\ p.sizeD \in 0..(Pow2[BitDepth2D] - 1)
               /\ p.ref \in 0..(conf.maxRef - 1)
    <3> DEFINE x == i - 1
    <3>1. x \in 0..(Len(patches) - 1) /\ x + 1 = i
      OBVIOUS
    <3> HIDE DEF x
    <3>2. Types /\ conf \in Confs
      BY DEF EncInv, Types
    <3>3. p.mode \in {0, 1} /\ p.sizeD \in Nat /\ p.ref \in Nat
      BY <2>1, <3>1, <3>2, PatchOf
    <3>4. IsPatchOf(p, segmented[i])
      BY <2>1 DEF EncInv, Geometry
    <3>5. Pow2[BitDepth2D] \in Nat /\ conf.maxRef \in Nat
      BY <3>2, Powers, ConfTypes
    <3> QED
      BY <3>3, <3>4, <3>5 DEF IsPatchOf, IsDepth
  <2>2. Len(segmented) <= numTiles /\ Len(patches) = Len(segmented)
    <3>1. Types /\ numTiles \in Nat
      BY ConfTypes DEF EncInv, Types
    <3> QED
      BY <3>1 DEF Types
  <2> QED
    BY <2>1, <2>2 DEF EncInv, Types, Phases, TypeOK
<1> QED
  BY <1>1, EncInvariant, PTL

\* The quantization error of SizeD does not grow along a chain of predictions, however
\* long it is: the encoder takes differences to what the decoder will have.
THEOREM ErrorsDoNotAddUp == Spec => []NoDrift
<1>1. EncInv => NoDrift
  <2> SUFFICES ASSUME EncInv, NEW i \in 1..Len(atlList), NEW k \in 1..Len(patches[i]),
                      NEW p, p = patches[i][k]
               PROVE  p.sizeD \in (Min2(p.sizeDPixel, Pow2[BitDepth3D] - 1) - minLevel)
                                  ..(p.sizeDPixel + minLevel)
    BY DEF NoDrift
  <2> DEFINE y == i - 1
             x == p.sizeDPixel
             s == p.sizeD
             b == Pow2[BitDepth3D]
  <2>1. Types /\ Phases /\ Geometry /\ References /\ Coded /\ Len(atlList) \in Nat
    BY DEF EncInv, Types
  <2>2. atlList # <<>>
    <3>1. Len(<<>>) = 0
      OBVIOUS
    <3> QED
      BY <3>1
  <2>3. y \in 0..(Len(atlList) - 1) /\ y + 1 = i /\ y \in 0..(Len(patches) - 1)
    BY <2>1, <2>2 DEF Types, Phases
  <2> HIDE DEF y
  <2>4. x \in Nat /\ s \in Nat /\ b \in Nat /\ minLevel \in Nat
    BY <2>1, <2>3, PatchOf, Powers
  <2>5. IsPatchOf(p, segmented[i]) /\ i \in 1..Len(patches)
    <3>1. i \in 1..Len(patches)
      BY <2>1, <2>3, PatchOf
    <3> QED
      BY <2>1, <3>1 DEF Geometry
  <2>6. x < Pow2[BitDepth2D] /\ x <= b
    BY <2>5 DEF IsPatchOf
  <2>7. CASE p.match = Unmatched
    <3>1. s = segmentSizeD(x)
      BY <2>1, <2>5, <2>7 DEF Geometry, AsSegmented
    <3> HIDE DEF x, s
    <3>2. Min2(x, b - 1) - minLevel <= s /\ s <= x + minLevel
      BY <3>1, <2>4, <2>6, SegmentSize
    <3>3. Min2(x, b - 1) \in Int
      BY <2>4 DEF Min2
    <3> HIDE DEF b
    <3>4. s \in (Min2(x, b - 1) - minLevel)..(x + minLevel)
      BY <2>4, <3>2, <3>3
    <3> QED
      BY <3>4 DEF x, s, b
  <2>8. CASE p.match # Unmatched
    <3>1. pc # "adjust"
      BY <2>1, <2>2 DEF Phases
    <3>2. IsReference(y, p)
      BY <2>1, <2>3, <2>8, <3>1 DEF References, Settled
    <3>3. HasFrame(y, p) /\ refExists(y, p)
      BY <2>3, <3>2 DEF IsReference
    <3>4. PICK r : r = refPatch(y, p)
      OBVIOUS
    <3>5. s = r.sizeD + deltaDD(interRangeD(p, r))
      BY <2>1, <2>3, <2>8, <3>4 DEF Coded, PatchesCoded, IsCoded
    <3>6. s = interSizeD(p, r) /\ x - minLevel <= s /\ s <= x + minLevel
      <4>1. PICK z : z = interSizeD(p, r)
        OBVIOUS
      <4>2. z = r.sizeD + deltaDD(interRangeD(p, r)) /\ x - minLevel <= z /\ z <= x + minLevel
        <5>1. p = patches[y + 1][k] /\ k \in 1..Len(patches[y + 1])
          BY <2>3
        <5> HIDE DEF x
        <5> QED
          BY <2>1, <2>3, <3>3, <3>4, <4>1, <5>1, SizeNotBounded DEF x
      <4> QED
        BY <4>1, <4>2, <3>5
    <3> HIDE DEF x, s, b
    <3>7. s \in (Min2(x, b - 1) - minLevel)..(x + minLevel)
      BY <2>4, <3>6 DEF Min2
    <3> QED
      BY <3>7 DEF x, s, b
  <2> QED
    BY <2>7, <2>8
<1> QED
  BY <1>1, EncInvariant, PTL

-----------------------------------------------------------------------------
(* The decoder: calculateAFOCval. *)

\* The lower bits of the number of a frame, and those of the next one.
LEMMA LowerBits ==
  ASSUME NEW f \in Nat, NEW M \in Nat, M >= 2
  PROVE  /\ f % M \in 0..(M - 1)
         /\ \/ (f + 1) % M = (f % M) + 1
            \/ (f + 1) % M = 0 /\ f % M = M - 1
         /\ M \div 2 \in Nat /\ M \div 2 >= 1 /\ M \div 2 <= M - 1
<1> DEFINE q == f \div M
           e == f % M
           g == f + 1
<1>1. q \in Nat /\ e \in 0..(M - 1) /\ f = q * M + e
  BY Division
<1> HIDE DEF q, e
<1>2. CASE e + 1 < M
  <2> DEFINE d == e + 1
  <2>1. d \in 0..(M - 1) /\ g = q * M + d /\ g \in Int /\ q \in Int
    BY <1>1, <1>2
  <2> HIDE DEF d, g
  <2>2. g % M = d
    BY <2>1, DivisionUnique
  <2> QED
    BY <2>2, <1>1 DEF d, g, e
<1>3. CASE e + 1 >= M
  <2> DEFINE r == q + 1
             z == 0
  <2>1. e = M - 1
    BY <1>1, <1>3
  <2>2. r * M = q * M + M
    BY <1>1
  <2>3. z \in 0..(M - 1) /\ g = r * M + z /\ g \in Int /\ r \in Int
    BY <1>1, <2>1, <2>2
  <2> HIDE DEF r, z, g
  <2>4. g % M = z
    BY <2>3, DivisionUnique
  <2> QED
    BY <2>1, <2>4, <1>1 DEF z, g, e
<1> QED
  BY <1>1, <1>2, <1>3

LEMMA OrderCount ==
  ASSUME EncInv, Len(atlList) = numTiles
  PROVE  \A i \in 1..numTiles : orderCnt[i] = frameOf(i - 1)
<1> DEFINE n == numTiles
           M == Pow2[LsbBits]
           lsb(i) == atlList[i].header.lsb
           next(i, x) == IF lsb(i) < lsb(i - 1) /\ lsb(i - 1) - lsb(i) >= M \div 2
                         THEN x + M
                         ELSE IF lsb(i) > lsb(i - 1) /\ lsb(i) - lsb(i - 1) > M \div 2
                         THEN x - M
                         ELSE x
           D(f) == [i \in 1..n |-> IF i = 1 THEN 0 ELSE next(i, f[i - 1])]
           msb == CHOOSE f : f = D(f)
           step == [i \in 1..n |-> [x \in Int |-> IF i = 1 THEN x ELSE next(i, x)]]
           S == Int
           one == 1
           c == 0
           F(i) == frameOf(i - 1)
<1>1. conf \in Confs /\ n \in Nat /\ Coded
  BY ConfTypes DEF EncInv, Types
<1>2. M \in Nat /\ M >= 2
  <2>1. LsbBits \in Nat /\ LsbBits - 1 \in Nat
    BY PatchAssumption
  <2>2. Pow2[(LsbBits - 1) + 1] = 2 * Pow2[LsbBits - 1] /\ (LsbBits - 1) + 1 = LsbBits
    BY <2>1, Pow2Recursion
  <2>3. Pow2[LsbBits - 1] \in Nat /\ Pow2[LsbBits - 1] >= 1
    BY <2>1, Pow2Positive
  <2> QED
    BY <2>2, <2>3
<1> HIDE DEF M
<1>3. ASSUME NEW i \in 1..n PROVE F(i) \in Nat /\ lsb(i) = F(i) % M /\ lsb(i) \in 0..(M - 1)
  <2> DEFINE y == i - 1
             f == F(i)
  <2>1. y \in 0..(Len(atlList) - 1) /\ y + 1 = i /\ y \in Nat
    BY <1>1
  <2>2. f \in Nat /\ f = frameOf(y)
    BY <1>1, <2>1, FrameOf
  <2> HIDE DEF y
  <2>3. \E nalu : atlList[i] = Layer(y, nalu)
    BY <1>1, <2>1 DEF Coded, LayerCoded
  <2>4. lsb(i) = Header(y).lsb
    <3>1. PICK nalu : atlList[i] = Layer(y, nalu)
      BY <2>3
    <3>2. Layer(y, nalu).header = [Header(y) EXCEPT !.nalu = nalu]
      BY DEF Layer
    <3> QED
      BY <3>1, <3>2 DEF Header
  <2>5. Header(y).lsb = (f % M) % M
    BY <2>2 DEF Header, writeU, M
  <2> HIDE DEF f
  <2>6. f % M \in 0..(M - 1)
    BY <2>2, <1>2, LowerBits
  <2>7. (f % M) % M = f % M
    <3> DEFINE g == f % M
               z == 0
    <3>1. g \in 0..(M - 1) /\ g \in Int /\ z \in Int /\ g = z * M + g
      BY <2>6, <1>2
    <3> HIDE DEF g, z
    <3>2. g % M = g
      BY <3>1, <1>2, DivisionUnique
    <3> QED
      BY <3>2 DEF g
  <2> QED
    BY <2>2, <2>4, <2>5, <2>6, <2>7 DEF f
<1>4. orderCnt = [i \in 1..n |-> msb[i] + lsb(i)]
  BY DEF orderCnt, M
<1> HIDE DEF n, lsb, F
<1>5. \A i \in 1..n : i # 1 => i - 1 \in 1..n /\ lsb(i) \in Nat /\ lsb(i - 1) \in Nat
  BY <1>1, <1>2, <1>3
<1>6. M \div 2 \in Nat
  <2>1. 0 \in Nat
    OBVIOUS
  <2> QED
    BY <2>1, <1>2, LowerBits
<1>7. \A i \in 1..n, x \in Int : i # 1 => next(i, x) \in Int
  BY <1>2, <1>5
<1>8. one \in Nat /\ c \in S /\ step \in [one..n -> [S -> S]]
  BY <1>7
<1>9. PICK f \in [one..n -> S] : IsRecursive(f, one, n, c, step)
  <2> HIDE DEF one, c, S, step
  <2> QED
    BY <1>1, <1>8, RecursiveFunction
<1>10. ASSUME NEW i \in 1..n PROVE f[i] = IF i = 1 THEN 0 ELSE next(i, f[i - 1])
  <2>1. f[i] = IF i = 1 THEN 0 ELSE step[i][f[i - 1]]
    BY <1>9 DEF IsRecursive
  <2>2. i # 1 => i - 1 \in 1..n
    BY <1>5
  <2>3. i # 1 => f[i - 1] \in Int
    BY <2>2, <1>9
  <2> HIDE DEF next
  <2> QED
    BY <2>1, <2>3
<1>11. msb = D(msb)
  <2>1. f = D(f)
    <3> HIDE DEF next
    <3> QED
      BY <1>9, <1>10
  <2> HIDE DEF D
  <2> QED
    BY <2>1
<1> HIDE DEF msb
<1>12. \A i \in 1..n : msb[i] = IF i = 1 THEN 0 ELSE next(i, msb[i - 1])
  <2> HIDE DEF next
  <2> QED
    BY <1>11
<1> DEFINE T == {i \in 1..n : msb[i] = F(i) - lsb(i)}
<1>13. ASSUME NEW i \in 1..n PROVE i \in T
  <2>1. one \in T
    <3>1. 1 \in 1..n /\ msb[1] = 0
      BY <1>1, <1>12 DEF n
    <3>2. F(1) = 0
      <4>1. conf.tiles \in Nat /\ conf.tiles >= 1
        BY <1>1, ConfTypes
      <4> DEFINE z == 0
                 t == conf.tiles
      <4>2. z \in Nat /\ z < t /\ z = z * t + z
        BY <4>1
      <4> HIDE DEF z
      <4>3. frameOf(z) = z
        BY <4>2, <1>1, FrameIs DEF t
      <4> QED
        BY <4>3 DEF F, z
    <3>3. lsb(1) = 0
      <4> DEFINE g == F(1)
      <4>1. lsb(1) = g % M /\ g = 0
        BY <3>1, <3>2, <1>3
      <4>2. 0 = 0 * M + 0 /\ 0 \in 0..(M - 1) /\ 0 \in Int
        BY <1>2
      <4>3. 0 % M = 0
        BY <4>2, <1>2, DivisionUnique
      <4> QED
        BY <4>1, <4>3
    <3> QED
      BY <3>1, <3>2, <3>3
  <2>2. ASSUME NEW j \in one..n, j \in T, j < n PROVE j + 1 \in T
    <3> DEFINE g == F(j)
               a == lsb(j)
               b == lsb(j + 1)
               x == msb[j]
    <3>1. j + 1 \in 1..n /\ j + 1 # 1 /\ (j + 1) - 1 = j /\ j \in 1..n
      BY <2>2, <1>1
    <3>2. /\ g \in Nat /\ a = g % M /\ a \in 0..(M - 1) /\ F(j + 1) \in Nat
          /\ b = F(j + 1) % M /\ x = g - a
      BY <2>2, <3>1, <1>3
    <3>3. F(j + 1) = g \/ F(j + 1) = g + 1
      <4> DEFINE y == j - 1
      <4>1. y \in Nat /\ F(j) = frameOf(y) /\ F(j + 1) = frameOf(y + 1)
        BY <3>1 DEF F
      <4> HIDE DEF y
      <4> QED
        BY <4>1, <1>1, FrameMonotone
    <3>4. msb[j + 1] = next(j + 1, x)
      <4> HIDE DEF next
      <4> QED
        BY <3>1, <1>12
    <3>5. next(j + 1, x) = IF b < a /\ a - b >= M \div 2 THEN x + M
                           ELSE IF b > a /\ b - a > M \div 2 THEN x - M ELSE x
      BY <3>1
    <3> HIDE DEF g, a, b, x, next
    <3>6. /\ \/ (g + 1) % M = (g % M) + 1
             \/ (g + 1) % M = 0 /\ g % M = M - 1
          /\ M \div 2 >= 1 /\ M \div 2 <= M - 1 /\ M \div 2 \in Nat
      BY <3>2, <1>2, LowerBits
    <3>7. CASE F(j + 1) = g
      <4>1. b = a
        BY <3>2, <3>7
      <4>2. msb[j + 1] = x
        BY <4>1, <3>2, <3>4, <3>5, <3>6
      <4> QED
        BY <4>1, <4>2, <3>1, <3>2, <3>7 DEF b
    <3>8. CASE F(j + 1) = g + 1 /\ b = a + 1
      <4>1. msb[j + 1] = x
        BY <3>8, <3>2, <3>4, <3>5, <3>6, <1>2
      <4>2. msb[j + 1] = F(j + 1) - b
        BY <4>1, <3>2, <3>8
      <4> QED
        BY <4>2, <3>1 DEF b
    <3>9. CASE F(j + 1) = g + 1 /\ b = 0 /\ a = M - 1
      <4>1. msb[j + 1] = x + M
        BY <3>9, <3>2, <3>4, <3>5, <3>6, <1>2
      <4>2. msb[j + 1] = F(j + 1) - b
        BY <4>1, <3>2, <3>9, <1>2
      <4> QED
        BY <4>2, <3>1 DEF b
    <3> QED
      BY <3>2, <3>3, <3>6, <3>7, <3>8, <3>9
  <2>3. i \in one..n
    OBVIOUS
  <2> HIDE DEF one, T
  <2> QED
    BY <2>1, <2>2, <2>3, <1>1, <1>8, IntervalInduction
<1>14. ASSUME NEW i \in 1..n PROVE orderCnt[i] = F(i)
  <2>1. msb[i] = F(i) - lsb(i)
    BY <1>13
  <2> QED
    BY <2>1, <1>2, <1>3, <1>4
<1> QED
  BY <1>14 DEF n, F

-----------------------------------------------------------------------------
(* The decoder: the units of a tile layer. *)

Kinds(type) == {"intra", "raw", "eom", "end"} \union (IF type = "P" THEN {"inter"} ELSE {})

\* The reader takes a unit for what the writer meant.
LEMMA KindKept ==
  ASSUME NEW type \in {"I", "P"}, NEW kind \in Kinds(type), NEW data, NEW u, u = Unit(type, kind, data)
  PROVE  patchType(type, readUvlc(u.mode)) = kind /\ u.data = data
<1> DEFINE m == patchMode(type, kind)
<1>1. u.mode = writeUvlc(m) /\ u.data = data
  BY DEF Unit
<1>2. m \in 0..14
  BY DEF patchMode, Kinds
<1>3. \A k \in Kinds(type) : patchMode(type, k) = m => k = kind
  BY DEF patchMode, Kinds
<1> HIDE DEF m
<1>4. readUvlc(writeUvlc(m)) = m
  <2>1. Pow2[IntBits] \in Nat /\ Pow2[IntBits] >= 16
    BY Powers
  <2>2. m \in Nat /\ m + 1 < Pow2[IntBits]
    BY <1>2, <2>1
  <2> QED
    BY <2>2, UvlcRoundTrip
<1>5. patchType(type, m) = kind
  <2>1. patchMode(type, kind) = m
    BY DEF m
  <2>2. patchType(type, m) = CHOOSE k \in Kinds(type) : patchMode(type, k) = m
    BY DEF patchType, Kinds
  <2>3. PICK j : j = CHOOSE k \in Kinds(type) : patchMode(type, k) = m
    OBVIOUS
  <2>4. j \in Kinds(type) /\ patchMode(type, j) = m
    BY <2>1, <2>3
  <2> QED
    BY <2>2, <2>3, <2>4, <1>3
<1> QED
  BY <1>1, <1>4, <1>5

\* The data of unit k of tile layer i.
DataOf(i, k) ==
  LET ps == patches[i + 1]
  IN IF ps[k].match = Unmatched THEN patchDataUnit(ps[k])
     ELSE interPatchDataUnit(Header(i), ps[k], refPatch(i, ps[k]), predIndex(ps)[k])

\* us is what the reader has of tile layer i: a unit for every patch, then the
\* raw and EOM patches.
IsRead(i, us) ==
  LET n == Len(patches[i + 1])
      o == Len(conf.others)
  IN /\ DOMAIN us = 1..(n + o) /\ Len(us) = n + o
     /\ \A k \in 1..n :
          /\ us[k].kind = IF patches[i + 1][k].match = Unmatched THEN "intra" ELSE "inter"
          /\ us[k].data = DataOf(i, k)
     /\ \A k \in 1..o : us[n + k].kind = conf.others[k]

LEMMA HeaderType ==
  ASSUME EncInv, pc \notin {"adjust", "undefined"}, NEW i \in 0..(Len(patches) - 1)
  PROVE  /\ Header(i).type \in {"I", "P"}
         /\ \A k \in 1..Len(patches[i + 1]) :
              patches[i + 1][k].match # Unmatched =>
                Header(i).type = "P" /\ frameOf(i) \in Nat /\ frameOf(i) > 0
<1>1. Header(i).type = tileType(i)
  BY DEF Header
<1>2. Types /\ References /\ conf \in Confs /\ i \in Nat
  BY DEF EncInv, Types
<1>3. ASSUME NEW k \in 1..Len(patches[i + 1]), NEW p, p = patches[i + 1][k], p.match # Unmatched
      PROVE  tileType(i) = "P" /\ frameOf(i) \in Nat /\ frameOf(i) > 0
  <2>1. IsReference(i, p)
    BY <1>2, <1>3 DEF References, Settled
  <2>2. frameOf(i) \in Nat /\ conf.maxRef \in Nat /\ p.ref \in Nat
    BY <1>2, <1>3, FrameOf, ConfTypes, PatchOf
  <2>3. frameOf(i) > 0
    BY <2>1, <2>2 DEF IsReference, HasFrame, Min2
  <2>4. AnyMatched(patches[i + 1])
    BY <1>3 DEF AnyMatched
  <2> QED
    BY <2>2, <2>3, <2>4 DEF tileType
<1> QED
  BY <1>1, <1>3 DEF tileType

\* Two sequences and an element behind them.
IsTwoAndOne(a, b, e, c) ==
  /\ Len(c) = Len(a) + Len(b) + 1
  /\ \A k \in 1..Len(a) : c[k] = a[k]
  /\ \A k \in 1..Len(b) : c[Len(a) + k] = b[k]
  /\ c[Len(a) + Len(b) + 1] = e

LEMMA TwoAndOne ==
  ASSUME NEW S, NEW a \in Seq(S), NEW b \in Seq(S), NEW e \in S
  PROVE  IsTwoAndOne(a, b, e, a \o b \o <<e>>)
<1>1. PICK c : c = a \o b
  OBVIOUS
<1>2. PICK d : d = <<e>>
  OBVIOUS
<1>3. PICK m \in Nat : m = Len(a)
  OBVIOUS
<1>4. PICK n \in Nat : n = Len(b)
  OBVIOUS
<1>5. d \in Seq(S) /\ Len(d) = 1 /\ d[1] = e
  BY <1>2
<1>6. /\ c \in Seq(S) /\ Len(c) = m + n /\ \A k \in 1..m : c[k] = a[k]
      /\ \A k \in 1..n : c[m + k] = b[k]
  BY <1>1, <1>3, <1>4, ConcatElements
<1>7. /\ Len(c \o d) = Len(c) + Len(d) /\ \A k \in 1..Len(c) : (c \o d)[k] = c[k]
      /\ \A k \in 1..Len(d) : (c \o d)[Len(c) + k] = d[k]
  <2>1. c \in Seq(S) /\ d \in Seq(S)
    BY <1>5, <1>6
  <2> QED
    BY <2>1, ConcatElements
<1>8. /\ Len(c \o d) = m + n + 1 /\ \A k \in 1..(m + n) : (c \o d)[k] = c[k]
      /\ (c \o d)[m + n + 1] = e
  <2>1. 1 \in 1..Len(d)
    BY <1>5
  <2> QED
    BY <2>1, <1>5, <1>6, <1>7
<1>9. (\A k \in 1..m : k \in 1..(m + n)) /\ (\A k \in 1..n : m + k \in 1..(m + n))
  OBVIOUS
<1>10. /\ Len(c \o d) = m + n + 1 /\ (\A k \in 1..m : (c \o d)[k] = a[k])
       /\ (\A k \in 1..n : (c \o d)[m + k] = b[k]) /\ (c \o d)[m + n + 1] = e
  BY <1>6, <1>8, <1>9
<1> QED
  BY <1>1, <1>2, <1>3, <1>4, <1>10 DEF IsTwoAndOne

LEMMA UnitsRead ==
  ASSUME EncInv, pc \notin {"adjust", "undefined"}, NEW i \in 0..(Len(patches) - 1), NEW nalu
  PROVE  IsRead(i, readUnits(Layer(i, nalu)))
<1> DEFINE ps == patches[i + 1]
           n == Len(ps)
           os == conf.others
           o == Len(os)
           h == Header(i)
           type == h.type
           A == [k \in 1..n |-> Unit(type, IF ps[k].match = Unmatched THEN "intra" ELSE "inter", DataOf(i, k))]
           B == [k \in 1..o |-> Unit(type, os[k], k)]
           e == Unit(type, "end", 0)
           units == A \o B \o <<e>>
           kind(u) == patchType(type, readUvlc(u.mode))
           last == n + o + 1
<1>1. /\ Types /\ conf \in Confs /\ n \in Nat /\ os \in Seq({"raw", "eom"}) /\ o \in Nat
      /\ last \in Nat
  <2>1. Types /\ conf \in Confs
    BY DEF EncInv, Types
  <2>2. n \in Nat
    BY <2>1, PatchOf
  <2>3. os \in Seq({"raw", "eom"}) /\ o \in Nat
    BY <2>1, ConfTypes
  <2> HIDE DEF n, o, os
  <2> QED
    BY <2>1, <2>2, <2>3
<1>2. type \in {"I", "P"} /\ \A k \in 1..n : ps[k].match # Unmatched => type = "P"
  BY HeaderType
<1>3. Units(i, h) = units
  <2> DEFINE A2 == [k \in 1..n |->
                      IF ps[k].match = Unmatched
                      THEN Unit(type, "intra", patchDataUnit(ps[k]))
                      ELSE Unit(type, "inter",
                                interPatchDataUnit(h, ps[k], refPatch(i, ps[k]), predIndex(ps)[k]))]
  <2>1. Units(i, h) = A2 \o B \o <<e>>
    BY DEF Units
  <2>2. \A k \in 1..n : A[k] = A2[k]
    BY DEF DataOf
  <2>3. A = A2
    BY <2>2
  <2> HIDE DEF A, A2, B, e
  <2> QED
    BY <2>1, <2>3
<1>4. /\ Layer(i, nalu).header.type = type /\ Layer(i, nalu).units = units
  <2>1. Layer(i, nalu).header = [Header(i) EXCEPT !.nalu = nalu]
    BY DEF Layer
  <2>2. Layer(i, nalu).header.type = Header(i).type
    BY <2>1 DEF Header
  <2> QED
    BY <2>2, <1>3 DEF Layer
<1> HIDE DEF h, type, ps, n, o, os
<1>5. /\ Len(units) = last
      /\ \A k \in 1..n : units[k] = A[k]
      /\ \A k \in 1..o : units[n + k] = B[k]
      /\ units[last] = e
  <2> DEFINE S == {A[k] : k \in 1..n} \union {B[k] : k \in 1..o} \union {e}
  <2>1. A \in Seq(S) /\ Len(A) = n
    <3>1. A \in [1..n -> S]
      OBVIOUS
    <3> HIDE DEF A, S
    <3> QED
      BY <3>1, <1>1
  <2>2. B \in Seq(S) /\ Len(B) = o
    <3>1. B \in [1..o -> S]
      OBVIOUS
    <3> HIDE DEF B, S
    <3> QED
      BY <3>1, <1>1
  <2>3. e \in S
    OBVIOUS
  <2> HIDE DEF A, B, e, S, units
  <2>4. A \in Seq(S) /\ B \in Seq(S)
    BY <2>1, <2>2
  <2>5. IsTwoAndOne(A, B, e, A \o B \o <<e>>)
    BY <2>3, <2>4, TwoAndOne
  <2>6. IsTwoAndOne(A, B, e, units)
    BY <2>5 DEF units
  <2> QED
    BY <2>1, <2>2, <2>6 DEF IsTwoAndOne
<1> HIDE DEF units
<1>6. ASSUME NEW k \in 1..n
      PROVE  /\ kind(units[k]) = IF ps[k].match = Unmatched THEN "intra" ELSE "inter"
             /\ units[k].data = DataOf(i, k) /\ kind(units[k]) # "end"
  <2> DEFINE t == IF ps[k].match = Unmatched THEN "intra" ELSE "inter"
             d == DataOf(i, k)
             u == units[k]
  <2>1. u = Unit(type, t, d)
    BY <1>5
  <2>2. t \in Kinds(type) /\ t # "end"
    BY <1>2 DEF Kinds
  <2> HIDE DEF t, d, u
  <2>3. patchType(type, readUvlc(u.mode)) = t /\ u.data = d
    BY <2>1, <2>2, <1>2, KindKept
  <2> QED
    BY <2>2, <2>3 DEF t, d, u
<1>7. ASSUME NEW k \in 1..o
      PROVE  kind(units[n + k]) = os[k] /\ kind(units[n + k]) # "end"
  <2> DEFINE t == os[k]
             u == units[n + k]
  <2>1. u = Unit(type, t, k)
    BY <1>5
  <2>2. t \in Kinds(type) /\ t # "end"
    <3>1. t \in {"raw", "eom"}
      BY <1>1 DEF o
    <3> QED
      BY <3>1 DEF Kinds
  <2> HIDE DEF t, u
  <2>3. patchType(type, readUvlc(u.mode)) = t
    BY <2>1, <2>2, <1>2, KindKept
  <2> QED
    BY <2>2, <2>3 DEF t, u
<1>8. kind(units[last]) = "end"
  <2> DEFINE t == "end"
             z == 0
             u == units[last]
  <2>1. u = Unit(type, t, z)
    BY <1>5
  <2>2. t \in Kinds(type)
    BY DEF Kinds
  <2> HIDE DEF t, z, u
  <2>3. patchType(type, readUvlc(u.mode)) = t
    BY <2>1, <2>2, <1>2, KindKept
  <2> QED
    BY <2>3 DEF t, u
<1> HIDE DEF kind
<1>9. \A k \in 1..(n + o) : kind(units[k]) # "end"
  <2> SUFFICES ASSUME NEW k \in 1..(n + o) PROVE kind(units[k]) # "end"
    OBVIOUS
  <2>1. CASE k \in 1..n
    BY <2>1, <1>6
  <2>2. CASE k - n \in 1..o
    <3> DEFINE j == k - n
    <3>1. j \in 1..o /\ n + j = k
      BY <2>2, <1>1
    <3> HIDE DEF j
    <3> QED
      BY <3>1, <1>7
  <2> QED
    BY <2>1, <2>2, <1>1
<1>10. PICK l : l = CHOOSE k \in 1..Len(units) :
                      kind(units[k]) = "end" /\ \A j \in 1..(k - 1) : kind(units[j]) # "end"
  OBVIOUS
<1>11. l = last
  <2> DEFINE P(k) == kind(units[k]) = "end" /\ \A j \in 1..(k - 1) : kind(units[j]) # "end"
  <2>1. last \in 1..Len(units) /\ P(last)
    BY <1>1, <1>5, <1>8, <1>9
  <2>2. \A k \in 1..Len(units) : P(k) => k = last
    <3>1. \A k \in 1..Len(units) : k = last \/ k \in 1..(n + o)
      BY <1>1, <1>5
    <3> QED
      BY <3>1, <1>9
  <2>3. l = CHOOSE k \in 1..Len(units) : P(k)
    BY <1>10
  <2> HIDE DEF P, last
  <2>4. l \in 1..Len(units) /\ P(l)
    BY <2>1, <2>3
  <2> QED
    BY <2>2, <2>4
<1>12. PICK us : us = readUnits(Layer(i, nalu))
  OBVIOUS
<1>13. us = [k \in 1..(l - 1) |-> [kind |-> kind(units[k]), data |-> units[k].data]]
  BY <1>4, <1>10, <1>12 DEF readUnits, kind
<1>14. us = [k \in 1..(n + o) |-> [kind |-> kind(units[k]), data |-> units[k].data]]
  <2>1. l - 1 = n + o
    BY <1>1, <1>11
  <2> QED
    BY <2>1, <1>13
<1>15. DOMAIN us = 1..(n + o) /\ Len(us) = n + o
  <2> DEFINE G(k) == [kind |-> kind(units[k]), data |-> units[k].data]
             w == n + o
  <2>1. us = [k \in 1..w |-> G(k)] /\ w \in Nat
    BY <1>1, <1>14
  <2> HIDE DEF G, w
  <2>2. DOMAIN us = 1..w /\ Len(us) = w
    BY <2>1
  <2> QED
    BY <2>2 DEF w
<1>16. ASSUME NEW k \in 1..n
       PROVE  us[k].kind = (IF ps[k].match = Unmatched THEN "intra" ELSE "inter") /\ us[k].data = DataOf(i, k)
  <2>1. k \in 1..(n + o)
    BY <1>1
  <2> QED
    BY <2>1, <1>6, <1>14
<1>17. ASSUME NEW k \in 1..o PROVE us[n + k].kind = os[k]
  <2>1. n + k \in 1..(n + o)
    BY <1>1
  <2> QED
    BY <2>1, <1>7, <1>14
<1> QED
  BY <1>12, <1>15, <1>16, <1>17 DEF IsRead, n, ps, o, os

-----------------------------------------------------------------------------
(* The decoder: the patch a unit refers to. *)

\* What is known of a patch that was coded as a difference.
IsMatched(i, p) ==
  /\ p \in PatchSet /\ HasFrame(i, p) /\ refExists(i, p) /\ IsCoded(i, p)
  /\ refTile(i, p) \in 0..(Len(patches) - 1) /\ refTile(i, p) < i
  /\ refPatch(i, p) \in PatchSet /\ IsPatchOf(refPatch(i, p), segmented[refTile(i, p) + 1])
  /\ p.match \in Nat /\ p.match < conf.maxPatches
  /\ MirroredElsewhere \/ refPatch(i, p).mode = p.mode

LEMMA CodedReference ==
  ASSUME EncInv, pc = "decode", NEW i \in 0..(Len(patches) - 1),
         NEW k \in 1..Len(patches[i + 1]), NEW p, p = patches[i + 1][k], p.match # Unmatched
  PROVE  IsMatched(i, p)
<1>1. /\ Types /\ Geometry /\ References /\ conf \in Confs /\ Len(atlList) = Len(patches)
      /\ Coded
  BY DEF EncInv, Types, Phases
<1>2. p \in PatchSet /\ p.match \in Int /\ i \in Nat
  BY <1>1, PatchOf
<1>3. IsReference(i, p)
  BY <1>1 DEF References, Settled
<1>4. HasFrame(i, p) /\ refExists(i, p) /\ (MirroredElsewhere \/ refPatch(i, p).mode = p.mode)
  <2>1. i < Len(atlList)
    BY <1>1, <1>2 DEF Types
  <2> QED
    BY <2>1, <1>3 DEF IsReference, Mirrored
<1>5. IsCoded(i, p)
  <2>1. PatchesCoded(i)
    BY <1>1 DEF Coded
  <2> QED
    BY <2>1 DEF PatchesCoded
<1> DEFINE t == refTile(i, p)
<1>6. /\ t \in 0..(Len(patches) - 1) /\ t < i
      /\ refPatch(i, p) \in PatchSet /\ IsPatchOf(refPatch(i, p), segmented[t + 1])
  BY <1>1, <1>2, <1>4, ReferenceSizes
<1>7. p.match \in 0..(Len(patches[t + 1]) - 1)
  BY <1>4 DEF refExists
<1> HIDE DEF t
<1>8. Len(patches[t + 1]) \in Nat /\ t + 1 \in 1..Len(patches)
  BY <1>1, <1>6, PatchOf
<1>9. Len(patches[t + 1]) <= conf.maxPatches /\ conf.maxPatches \in Nat
  BY <1>1, <1>8, ConfTypes DEF Geometry
<1>10. p.match \in Nat /\ p.match < conf.maxPatches
  <2> DEFINE m == p.match
             n == Len(patches[t + 1])
             b == conf.maxPatches
  <2>1. m \in 0..(n - 1) /\ n \in Nat /\ n <= b /\ b \in Nat
    BY <1>7, <1>8, <1>9
  <2> HIDE DEF m, n, b
  <2>2. m \in Nat /\ m < b
    BY <2>1
  <2> QED
    BY <2>2 DEF m, b
<1> QED
  BY <1>2, <1>4, <1>5, <1>6, <1>10 DEF IsMatched, t

\* The index of the expected reference patch stays in the range of the code words.
LEMMA PredBounded ==
  ASSUME NEW ps \in Seq(PatchSet), NEW pred, IsPred(ps, pred), NEW b \in Nat,
         \A k \in 1..Len(ps) : ps[k].match # Unmatched => ps[k].match \in Nat /\ ps[k].match < b
  PROVE  \A k \in 1..(Len(ps) + 1) : pred[k] \in 0..b
<1> DEFINE n == Len(ps) + 1
           S == 0..b
           one == 1
<1>1. one \in Nat /\ n \in Nat
  OBVIOUS
<1>2. pred[one] \in S
  BY DEF IsPred
<1>3. \A k \in one..n : k < n /\ pred[k] \in S => pred[k + 1] \in S
  <2> SUFFICES ASSUME NEW k \in one..n, k < n, pred[k] \in S PROVE pred[k + 1] \in S
    OBVIOUS
  <2>1. k \in 1..Len(ps)
    OBVIOUS
  <2>2. pred[k + 1] = IF ps[k].match = Unmatched THEN pred[k] ELSE ps[k].match + 1
    BY <2>1 DEF IsPred
  <2> DEFINE m == ps[k].match
  <2>3. m # Unmatched => m \in Nat /\ m < b
    BY <2>1
  <2> HIDE DEF m
  <2> QED
    BY <2>2, <2>3 DEF m
<1> HIDE DEF one, S, n
<1>4. \A k \in one..n : pred[k] \in S
  BY <1>1, <1>2, <1>3, RecursionInvariant
<1> QED
  BY <1>4 DEF one, S, n

LEMMA MatchesRead ==
  ASSUME EncInv, pc = "decode", NEW i \in 0..(Len(patches) - 1), NEW us, IsRead(i, us)
  PROVE  \A k \in 1..Len(patches[i + 1]) : decodeMatches(us)[k] = patches[i + 1][k].match
<1> DEFINE ps == patches[i + 1]
           n == Len(ps)
           o == Len(conf.others)
           N == Len(us) + 1
           P == predIndex(ps)
           b == conf.maxPatches
           delta(k) == readSvlc(us[k].data.refPatchIndex)
           next(k, x) == IF us[k].kind # "inter" THEN x ELSE x + delta(k) + 1
           D(f) == [k \in 1..N |-> IF k = 1 THEN 0
                                   ELSE IF us[k - 1].kind # "inter" THEN f[k - 1]
                                   ELSE f[k - 1] + delta(k - 1) + 1]
           pred == CHOOSE f : f = D(f)
<1>1. /\ Types /\ conf \in Confs /\ ps \in Seq(PatchSet) /\ n \in Nat /\ o \in Nat
      /\ b \in Nat /\ b < Pow2[IntBits - 1] /\ Pow2[IntBits - 1] \in Nat
      /\ conf.others \in Seq({"raw", "eom"})
  <2>1. Types /\ conf \in Confs
    BY DEF EncInv, Types
  <2>2. ps \in Seq(PatchSet) /\ n \in Nat
    BY <2>1, PatchOf
  <2>3. b \in Nat /\ b < Pow2[IntBits - 1] /\ conf.others \in Seq({"raw", "eom"}) /\ o \in Nat
    BY <2>1, ConfTypes
  <2>4. Pow2[IntBits - 1] \in Nat
    BY Powers
  <2> QED
    BY <2>1, <2>2, <2>3, <2>4
<1>2. /\ Len(us) = n + o
      /\ \A k \in 1..n : /\ us[k].kind = IF ps[k].match = Unmatched THEN "intra" ELSE "inter"
                         /\ us[k].data = DataOf(i, k)
      /\ \A k \in 1..o : us[n + k].kind = conf.others[k]
  BY DEF IsRead
<1>3. \A k \in 1..n : ps[k].match # Unmatched => ps[k].match \in Nat /\ ps[k].match < b
  BY CodedReference DEF IsMatched
<1>4. IsPred(ps, P)
  BY <1>1, PredIndex
<1> HIDE DEF P
<1>5. \A k \in 1..(n + 1) : P[k] \in 0..b
  BY <1>1, <1>3, <1>4, PredBounded
<1>6. ASSUME NEW k \in 1..n, ps[k].match # Unmatched
      PROVE  delta(k) = ps[k].match - P[k]
  <2> DEFINE x == ps[k].match
             y == P[k]
             h == Pow2[IntBits - 1]
             c == x - y
  <2>1. us[k].data.refPatchIndex = writeSvlc(c)
    <3>1. us[k].data = interPatchDataUnit(Header(i), ps[k], refPatch(i, ps[k]), y)
      BY <1>2, <1>6 DEF DataOf, P
    <3> QED
      BY <3>1 DEF interPatchDataUnit
  <2>2. x \in Nat /\ x < b /\ y \in 0..b /\ b \in Nat /\ b < h /\ h \in Nat
    BY <1>1, <1>3, <1>5, <1>6
  <2> HIDE DEF x, y
  <2>3. c \in Int /\ -h < c /\ c < h
    <3> HIDE DEF b, h
    <3> QED
      BY <2>2
  <2> HIDE DEF c
  <2>4. readSvlc(writeSvlc(c)) = c
    BY <2>3, SvlcInRange
  <2> QED
    BY <2>1, <2>4 DEF c, x, y
<1>7. ASSUME NEW k \in 1..o PROVE us[n + k].kind # "inter"
  <2>1. conf.others[k] \in {"raw", "eom"}
    BY <1>1
  <2> QED
    BY <2>1, <1>2
<1> DEFINE F == [k \in 1..N |-> IF k <= n + 1 THEN P[k] ELSE P[n + 1]]
<1>8. N = n + o + 1 /\ N \in Nat
  <2> HIDE DEF n, o
  <2> QED
    BY <1>1, <1>2
<1> HIDE DEF ps, n, o, N, b, delta
<1>9. \A k \in 1..n : next(k, P[k]) = P[k + 1]
  <2> SUFFICES ASSUME NEW k \in 1..n PROVE next(k, P[k]) = P[k + 1]
    OBVIOUS
  <2>1. P[k + 1] = IF ps[k].match = Unmatched THEN P[k] ELSE ps[k].match + 1
    BY <1>4 DEF IsPred, n
  <2> DEFINE x == ps[k].match
             y == P[k]
  <2>2. y \in Int /\ (x # Unmatched => x \in Int)
    BY <1>1, <1>3, <1>5
  <2>3. next(k, P[k]) = IF x = Unmatched THEN y ELSE y + (x - y) + 1
    BY <1>2, <1>6
  <2> HIDE DEF x, y, next
  <2> QED
    BY <2>1, <2>2, <2>3 DEF x, y
<1>10. ASSUME NEW f, NEW k \in 1..N, k # 1
       PROVE  /\ k - 1 \in 1..(N - 1) /\ D(f)[k] = next(k - 1, f[k - 1])
              /\ k <= n + 1 => k - 1 \in 1..n
              /\ k > n + 1 => us[k - 1].kind # "inter"
  <2>1. k - 1 \in 1..(N - 1) /\ (k <= n + 1 => k - 1 \in 1..n)
    BY <1>1, <1>8, <1>10
  <2>2. D(f)[k] = next(k - 1, f[k - 1])
    BY <1>10
  <2>3. ASSUME k > n + 1 PROVE us[k - 1].kind # "inter"
    <3> DEFINE j == (k - 1) - n
    <3>1. j \in 1..o /\ n + j = k - 1
      BY <2>3, <1>1, <1>8
    <3> HIDE DEF j
    <3> QED
      BY <3>1, <1>7
  <2> QED
    BY <2>1, <2>2, <2>3
<1>11. F = D(F)
  <2>1. ASSUME NEW k \in 1..N PROVE F[k] = D(F)[k]
    <3>1. CASE k = 1
      <4>1. F[k] = P[1] /\ D(F)[k] = 0
        BY <3>1, <1>1
      <4> QED
        BY <4>1, <1>4 DEF IsPred
    <3>2. CASE k # 1 /\ k <= n + 1
      <4>1. k - 1 \in 1..n /\ k - 1 \in 1..N /\ (k - 1) + 1 = k /\ k - 1 <= n + 1
        BY <3>2, <1>1, <1>8, <1>10
      <4>2. F[k] = P[k] /\ F[k - 1] = P[k - 1]
        BY <3>2, <4>1
      <4>3. D(F)[k] = next(k - 1, P[k - 1])
        BY <3>2, <4>2, <1>10
      <4> HIDE DEF D, F, next
      <4> QED
        BY <4>1, <4>2, <4>3, <1>9
    <3>3. CASE k # 1 /\ k > n + 1
      <4>1. k - 1 \in 1..N /\ ~(k <= n + 1) /\ (k - 1 <= n + 1 => k - 1 = n + 1)
        BY <3>3, <1>1, <1>8
      <4>2. F[k] = P[n + 1] /\ F[k - 1] = P[n + 1]
        BY <4>1
      <4>3. us[k - 1].kind # "inter" /\ D(F)[k] = next(k - 1, F[k - 1])
        BY <3>3, <1>10
      <4> HIDE DEF D, F
      <4> QED
        BY <4>2, <4>3
    <3> QED
      BY <3>1, <3>2, <3>3, <1>1
  <2> HIDE DEF P
  <2>2. F = [k \in 1..N |-> F[k]] /\ D(F) = [k \in 1..N |-> D(F)[k]]
    OBVIOUS
  <2> HIDE DEF F, D
  <2> QED
    BY <2>1, <2>2
<1>12. pred = D(pred)
  <2> HIDE DEF D, F
  <2> QED
    BY <1>11
<1> HIDE DEF pred, F, next
<1>13. \A k \in 1..(n + 1) : pred[k] = P[k]
  <2> DEFINE T == {k \in 1..(n + 1) : pred[k] = P[k]}
             one == 1
             w == n + 1
  <2>1. one \in Nat /\ w \in Nat /\ one <= w /\ w <= N
    BY <1>1, <1>8
  <2>2. one \in T
    <3>1. 1 \in 1..N /\ 1 \in 1..(n + 1)
      BY <1>1, <1>8
    <3>2. D(pred)[1] = 0
      BY <3>1
    <3> HIDE DEF D
    <3> QED
      BY <3>1, <3>2, <1>4, <1>12 DEF IsPred
  <2>3. ASSUME NEW k \in one..w, k \in T, k < w PROVE k + 1 \in T
    <3>1. k + 1 \in 1..N /\ k + 1 # 1 /\ (k + 1) - 1 = k /\ k \in 1..n /\ k + 1 \in 1..(n + 1)
      <4>1. k \in Int /\ 1 <= k /\ k < n + 1
        BY <2>3, <1>1
      <4> HIDE DEF T, D
      <4> QED
        BY <4>1, <1>1, <1>8
    <3>2. D(pred)[k + 1] = next(k, pred[k])
      <4> HIDE DEF D
      <4> QED
        BY <3>1, <1>10
    <3> HIDE DEF D
    <3> QED
      BY <3>1, <3>2, <2>3, <1>9, <1>12
  <2> HIDE DEF one, T, w
  <2>4. \A k \in one..w : k \in T
    BY <2>1, <2>2, <2>3, IntervalInduction
  <2> QED
    BY <2>4 DEF one, T, w
<1>14. decodeMatches(us) = [k \in 1..Len(us) |->
          IF us[k].kind # "inter" THEN Unmatched ELSE delta(k) + pred[k]]
  BY DEF decodeMatches, pred, delta, N
<1>15. ASSUME NEW k \in 1..n PROVE decodeMatches(us)[k] = ps[k].match
  <2>1. k \in 1..Len(us) /\ k \in 1..(n + 1)
    BY <1>1, <1>2
  <2>2. decodeMatches(us)[k] = IF us[k].kind # "inter" THEN Unmatched ELSE delta(k) + pred[k]
    BY <2>1, <1>14
  <2> DEFINE x == ps[k].match
             y == P[k]
  <2>3. y \in Int /\ (x # Unmatched => x \in Int) /\ pred[k] = y
    BY <2>1, <1>1, <1>3, <1>5, <1>13
  <2>4. decodeMatches(us)[k] = IF x = Unmatched THEN Unmatched ELSE (x - y) + y
    BY <2>2, <2>3, <1>2, <1>6
  <2> HIDE DEF x, y
  <2>5. decodeMatches(us)[k] = x
    BY <2>3, <2>4
  <2> QED
    BY <2>5 DEF x
<1> QED
  BY <1>15 DEF n, ps

\* The reference frame of a patch is read as it was written, or left out when there
\* is only one.
LEMMA RefIndexRead ==
  ASSUME EncInv, pc = "decode", NEW i \in 0..(Len(patches) - 1), NEW us, IsRead(i, us),
         NEW k \in 1..Len(patches[i + 1]), NEW p, p = patches[i + 1][k], p.match # Unmatched
  PROVE  refIndexOf(us[k]) = p.ref
<1> DEFINE f == frameOf(i)
           m == conf.maxRef
           n == Min2(f, m)
           h == Header(i)
           x == p.ref
           u == us[k]
<1>1. Types /\ conf \in Confs /\ i \in Nat
  BY SMTT(30) DEF EncInv, Types
<1>2. f \in Nat /\ m \in Nat /\ m >= 1 /\ m < Pow2[IntBits] /\ Pow2[IntBits] \in Nat
  <2>1. f \in Nat /\ m \in Nat /\ m >= 1 /\ m < Pow2[IntBits]
    BY <1>1, FrameOf, ConfTypes
  <2>2. Pow2[IntBits] \in Nat
    <3>1. Pow2[IntBits] = 2 * Pow2[IntBits - 1] /\ Pow2[IntBits - 1] \in Nat
      BY Powers
    <3> QED
      BY <3>1
  <2> QED
    BY <2>1, <2>2
<1>3. h.type = "P" /\ f > 0
  BY HeaderType
<1>4. IsMatched(i, p)
  BY CodedReference
<1>5. conf.constrainedPack /\ x \in Nat /\ x < n
  BY <1>4 DEF IsMatched, HasFrame, PatchSet
<1>6. u.data.refIndex = IF getNumRefIdxActive(h) > 1 THEN <<writeUvlc(x)>> ELSE <<>>
  <2>1. u.data = interPatchDataUnit(Header(i), p, refPatch(i, p), predIndex(patches[i + 1])[k])
    BY DEF IsRead, DataOf
  <2> HIDE DEF u
  <2> QED
    BY <2>1 DEF interPatchDataUnit
<1>7. tileType(i) = "P" /\ h.override = (m > 1 /\ constructAtghRefListStruct(f))
      /\ (h.override => h.activeMinus1 = numRefIdxActive(f) - 1)
  <2>1. tileType(i) = "P"
    BY <1>3 DEF Header
  <2> QED
    BY <2>1 DEF Header
<1>8. /\ numRefIdxActive(f) = n /\ defaultActiveMinus1 = m - 1 /\ Len(refAfocList(f)) = n
      /\ n \in Nat /\ n >= 1
  <2>1. n \in Nat /\ n >= 1
    BY <1>2, <1>3 DEF Min2
  <2>2. numRefIdxActive(f) = n
    BY <1>5 DEF numRefIdxActive
  <2>3. defaultActiveMinus1 = m - 1
    BY <1>2, <1>5 DEF defaultActiveMinus1, Max2
  <2>4. refAfocList(f) = [j \in 1..n |-> f - j]
    BY DEF refAfocList
  <2> HIDE DEF n, f
  <2>5. Len(refAfocList(f)) = n
    BY <2>1, <2>4
  <2> QED
    BY <2>1, <2>2, <2>3, <2>5
<1>9. constructAtghRefListStruct(f) = (n # m)
  <2> HIDE DEF n, f
  <2>1. constructAtghRefListStruct(f) =
          IF n = 0 THEN FALSE
          ELSE IF n >= m - 1 THEN n # (m - 1) + 1 ELSE n # m
    BY <1>8 DEF constructAtghRefListStruct
  <2> HIDE DEF m
  <2>2. (m - 1) + 1 = m /\ n # 0
    BY <1>2, <1>8
  <2> QED
    BY <2>1, <2>2
<1>10. getNumRefIdxActive(h) = n \/ m = 1
  <2>1. getNumRefIdxActive(h) = IF h.override THEN h.activeMinus1 + 1 ELSE Min2(m, (m - 1) + 1)
    BY <1>3, <1>8 DEF getNumRefIdxActive
  <2>2. CASE m > 1 /\ n # m
    <3>1. h.override /\ h.activeMinus1 = n - 1
      BY <2>2, <1>7, <1>8, <1>9
    <3> HIDE DEF h, n, m
    <3>2. (n - 1) + 1 = n
      BY <1>8
    <3> QED
      BY <2>1, <3>1, <3>2
  <2>3. CASE m > 1 /\ n = m
    <3>1. ~h.override
      BY <2>3, <1>7, <1>9
    <3> HIDE DEF h, n
    <3>2. Min2(m, (m - 1) + 1) = m
      BY <1>2 DEF Min2
    <3> QED
      BY <2>1, <2>3, <3>1, <3>2
  <2> HIDE DEF n, m
  <2> QED
    BY <2>2, <2>3, <1>2
<1>11. n <= m
  BY <1>2 DEF Min2
<1> HIDE DEF h, f, m, n, x, u
<1>12. CASE getNumRefIdxActive(h) > 1
  <2>1. refIndexOf(u) = readUvlc(writeUvlc(x))
    <3>1. u.data.refIndex = <<writeUvlc(x)>>
      BY <1>6, <1>12
    <3>2. u.data.refIndex # <<>> /\ u.data.refIndex[1] = writeUvlc(x)
      BY <3>1
    <3> QED
      BY <3>2 DEF refIndexOf
  <2>2. x \in Nat /\ x + 1 < Pow2[IntBits]
    BY <1>2, <1>5, <1>8, <1>11
  <2>3. readUvlc(writeUvlc(x)) = x
    BY <2>2, UvlcRoundTrip
  <2> QED
    BY <2>1, <2>3 DEF x, u
<1>13. CASE ~(getNumRefIdxActive(h) > 1)
  <2>1. refIndexOf(u) = 0
    BY <1>6, <1>13 DEF refIndexOf
  <2>2. n = 1
    BY <1>2, <1>8, <1>10, <1>11, <1>13
  <2>3. x = 0
    BY <2>2, <1>5
  <2> QED
    BY <2>1, <2>3 DEF x, u
<1> QED
  BY <1>12, <1>13

\* Whatever is read behind the end of refAFOCList_, its first entries are the frames
\* in front of this one.
LEMMA ListRead ==
  ASSUME conf \in Confs, NEW f \in Nat, f > 0, NEW list \in refAfocLists(f)
  PROVE  \A j \in 1..Min2(f, conf.maxRef) : j <= Len(list) /\ list[j] = f - j
<1> DEFINE n == conf.maxRef
           poc(g, k, l) == IF k = 1 THEN f - 1
                           ELSE IF Len(l) >= k - 1 THEN l[k - 1] - 1
                           ELSE g[k] - 1
           next(g, k, l) == IF poc(g, k, l) >= 0 THEN Append(l, poc(g, k, l)) ELSE l
           D(g, h) == [k \in 0..n |-> IF k = 0 THEN <<>> ELSE next(g, k, h[k - 1])]
           pred(g) == CHOOSE h : h = D(g, h)
           S == Seq(Int)
<1>1. n \in Nat /\ n >= 1
  BY ConfTypes
<1>2. PICK g \in [1..n -> Garbage] : list = pred(g)[n]
  BY DEF refAfocLists
<1> HIDE DEF n
<1>3. ASSUME NEW k \in 1..n, NEW l \in S PROVE poc(g, k, l) \in Int /\ next(g, k, l) \in S
  <2>1. g[k] \in Int
    BY <1>2, <1>3, PatchAssumption
  <2>2. Len(l) >= k - 1 /\ k # 1 => l[k - 1] \in Int
    <3> SUFFICES ASSUME Len(l) >= k - 1, k # 1 PROVE l[k - 1] \in Int
      OBVIOUS
    <3>1. k - 1 \in 1..Len(l)
      BY <1>3
    <3> QED
      BY <3>1, <1>3
  <2>3. poc(g, k, l) \in Int
    <3> DEFINE y == l[k - 1]
               z == g[k]
    <3>1. poc(g, k, l) = IF k = 1 THEN f - 1 ELSE IF Len(l) >= k - 1 THEN y - 1 ELSE z - 1
      OBVIOUS
    <3> HIDE DEF y, z, poc
    <3>2. (Len(l) >= k - 1 /\ k # 1 => y \in Int) /\ z \in Int
      BY <2>1, <2>2 DEF y, z
    <3> QED
      BY <3>1, <3>2
  <2> HIDE DEF poc
  <2> QED
    BY <2>3, <1>3
<1> HIDE DEF poc, next
<1> DEFINE step == [k \in 0..n |-> [l \in S |-> IF k = 0 THEN l ELSE next(g, k, l)]]
           zero == 0
           c == <<>>
<1>4. zero \in Nat /\ c \in S /\ step \in [zero..n -> [S -> S]]
  <2>1. \A k \in 0..n : k # 0 => k \in 1..n
    BY <1>1
  <2> QED
    BY <2>1, <1>3
<1>5. PICK h \in [zero..n -> S] : IsRecursive(h, zero, n, c, step)
  <2> HIDE DEF zero, c, S, step
  <2> QED
    BY <1>1, <1>4, RecursiveFunction
<1>6. ASSUME NEW k \in 0..n PROVE h[k] = IF k = 0 THEN <<>> ELSE next(g, k, h[k - 1])
  <2>1. h[k] = IF k = 0 THEN <<>> ELSE step[k][h[k - 1]]
    BY <1>5 DEF IsRecursive
  <2>2. k # 0 => k - 1 \in 0..n
    BY <1>1
  <2>3. k # 0 => h[k - 1] \in S
    <3> HIDE DEF S, step
    <3> QED
      BY <2>2, <1>5
  <2> QED
    BY <2>1, <2>3
<1>7. h = D(g, h)
  <2>1. h = [k \in 0..n |-> h[k]]
    BY <1>5
  <2> QED
    BY <2>1, <1>6
<1> DEFINE P == pred(g)
<1>8. P = D(g, P)
  <2> HIDE DEF D
  <2> QED
    BY <1>7
<1> HIDE DEF P
<1>9. \A k \in 0..n : P[k] = IF k = 0 THEN <<>> ELSE next(g, k, P[k - 1])
  BY <1>8
<1> DEFINE IsList(k, l) ==
             /\ l \in S /\ Len(l) >= Min2(k, f) /\ (k <= f => Len(l) = k)
             /\ \A j \in 1..Min2(k, f) : l[j] = f - j
           T == {k \in 0..n : IsList(k, P[k])}
<1>10. zero \in T
  <2>1. P[0] = <<>> /\ 0 \in 0..n
    BY <1>1, <1>9
  <2>2. Min2(0, f) = 0
    BY DEF Min2
  <2>3. <<>> \in S /\ Len(<<>>) = 0 /\ 1..0 = {}
    OBVIOUS
  <2>4. IsList(0, <<>>)
    BY <2>2, <2>3
  <2> HIDE DEF IsList
  <2> QED
    BY <2>1, <2>4
<1>11. ASSUME NEW k \in zero..n, k \in T, k < n PROVE k + 1 \in T
  <2> DEFINE l == P[k]
             w == k + 1
             a == Min2(k, f)
             b == Min2(w, f)
             x == poc(g, w, l)
  <2>1. w \in 1..n /\ w \in 0..n /\ w # 0 /\ w - 1 = k /\ k \in Nat
    BY <1>1, <1>11
  <2>2. P[w] = next(g, w, l)
    BY <2>1, <1>9
  <2>3. l \in S /\ Len(l) >= a /\ (k <= f => Len(l) = k) /\ \A j \in 1..a : l[j] = f - j
    BY <1>11
  <2>4. x \in Int /\ next(g, w, l) \in S
    BY <2>1, <2>3, <1>3
  <2>5. next(g, w, l) = IF x >= 0 THEN Append(l, x) ELSE l
    BY DEF next
  <2>6. x = IF w = 1 THEN f - 1 ELSE IF Len(l) >= k THEN l[k] - 1 ELSE g[w] - 1
    BY <2>1 DEF poc
  <2> HIDE DEF w, x, l
  <2>7. CASE f <= k
    <3>1. a = f /\ b = f
      BY <2>1, <2>7 DEF a, b, Min2, w
    <3> HIDE DEF a, b
    <3>2. ASSUME NEW j \in 1..f PROVE Append(l, x)[j] = l[j] /\ Len(Append(l, x)) >= f
      <4>1. j \in 1..Len(l)
        BY <2>3, <3>1
      <4> QED
        BY <4>1, <2>3, <2>4, <3>1
    <3>3. Len(P[w]) >= f /\ \A j \in 1..f : P[w][j] = f - j
      <4>1. CASE x >= 0
        <5>1. P[w] = Append(l, x)
          BY <4>1, <2>2, <2>5
        <5>2. f \in 1..f
          OBVIOUS
        <5> QED
          BY <5>1, <5>2, <3>1, <3>2, <2>3
      <4>2. CASE ~(x >= 0)
        BY <4>2, <2>2, <2>3, <2>5, <3>1
      <4> QED
        BY <4>1, <4>2
    <3>4. IsList(w, P[w])
      <4>1. ~(w <= f)
        BY <2>1, <2>7 DEF w
      <4> QED
        BY <4>1, <2>2, <2>4, <3>1, <3>3 DEF b
    <3> HIDE DEF IsList
    <3> QED
      BY <3>4, <2>1 DEF w
  <2>8. CASE k < f
    <3>1. a = k /\ b = w
      BY <2>1, <2>8 DEF a, b, Min2, w
    <3> HIDE DEF a, b
    <3>2. x = f - w /\ x >= 0
      <4>1. CASE w = 1
        BY <4>1, <2>6
      <4>2. CASE w # 1
        <5>1. k \in 1..a /\ Len(l) >= k
          BY <4>2, <2>1, <2>3, <3>1 DEF w
        <5>2. x = l[k] - 1 /\ l[k] = f - k
          BY <4>2, <5>1, <2>3, <2>6
        <5> QED
          BY <5>2, <2>1, <2>8 DEF w
      <4> QED
        BY <4>1, <4>2
    <3>3. P[w] = Append(l, x)
      BY <3>2, <2>2, <2>5
    <3>4. Len(l) = k
      BY <2>1, <2>3, <2>8
    <3>5. Len(P[w]) = w
      BY <3>3, <3>4, <2>1, <2>3, <2>4 DEF w
    <3>6. ASSUME NEW j \in 1..w PROVE P[w][j] = f - j
      <4>1. CASE j <= k
        <5>1. j \in 1..a /\ j \in 1..Len(l)
          BY <4>1, <2>1, <3>1, <3>4
        <5> QED
          BY <5>1, <3>3, <2>3, <2>4
      <4>2. CASE j = w
        <5>1. j = Len(l) + 1
          BY <4>2, <3>4 DEF w
        <5>2. Append(l, x)[Len(l) + 1] = x
          BY <2>3, <2>4
        <5> QED
          BY <4>2, <5>1, <5>2, <3>2, <3>3
      <4> QED
        BY <4>1, <4>2, <2>1 DEF w
    <3>7. IsList(w, P[w])
      <4>1. w \in Nat
        BY <2>1
      <4> QED
        BY <4>1, <2>2, <2>4, <3>1, <3>5, <3>6 DEF b
    <3> HIDE DEF IsList
    <3> QED
      BY <3>7, <2>1 DEF w
  <2> QED
    BY <2>7, <2>8, <2>1
<1>12. \A k \in zero..n : k \in T
  <2> HIDE DEF zero, T
  <2> QED
    BY <1>1, <1>4, <1>10, <1>11, IntervalInduction
<1>13. list \in S /\ Len(list) >= Min2(n, f) /\ \A j \in 1..Min2(n, f) : list[j] = f - j
  <2>1. n \in zero..n
    BY <1>1
  <2>2. n \in T
    BY <2>1, <1>12
  <2> QED
    BY <2>2, <1>2 DEF P
<1>14. Min2(n, f) = Min2(f, n) /\ Min2(f, n) \in Nat
  BY <1>1 DEF Min2
<1> QED
  BY <1>13, <1>14 DEF n

-----------------------------------------------------------------------------
(* The decoder: one tile. *)

\* Sequences of which n behind one another, from a + 1 on, have one element and the
\* others none; d are those elements.
AreSingles(ss, a, n) ==
  /\ a + n <= Len(ss)
  /\ \A k \in 1..Len(ss) : Len(ss[k]) = IF a < k /\ k <= a + n THEN 1 ELSE 0

SinglesOf(ss, a, n, d) == Len(d) = n /\ \A k \in 1..n : d[k] = ss[a + k][1]

LEMMA FlattenSingles ==
  ASSUME NEW S, NEW ss \in Seq(Seq(S)), NEW a \in Nat, NEW n \in Nat, AreSingles(ss, a, n)
  PROVE  FlattenSeq(ss) \in Seq(S) /\ SinglesOf(ss, a, n, FlattenSeq(ss))
<1> USE DEF AreSingles, SinglesOf
<1> DEFINE w == Len(ss)
           d == FlattenSeq(ss)
<1>1. w \in Nat
  OBVIOUS
<1>2. d \in Seq(S)
  BY FlattenType
<1>3. CASE ss = <<>>
  <2>1. d = <<>> /\ w = 0
    BY <1>3 DEF FlattenSeq
  <2>2. n = 0
    BY <2>1
  <2> QED
    BY <2>1, <2>2, <1>2
<1>4. CASE ss # <<>>
  <2>1. PICK e \in [0..w -> Nat] : AreParts(ss, d, e)
    BY <1>4, FlattenParts
  <2> HIDE DEF d
  <2>2. /\ e[0] = 0 /\ \A k \in 1..w : e[k] = e[k - 1] + Len(ss[k])
        /\ Len(d) = e[w]
        /\ \A k \in 1..w : \A j \in 1..Len(ss[k]) : d[e[k - 1] + j] = ss[k][j]
    BY <2>1 DEF AreParts
  <2> DEFINE E(k) == IF k <= a THEN 0 ELSE IF k <= a + n THEN k - a ELSE n
             T == {k \in 0..w : e[k] = E(k)}
             zero == 0
  <2>3. zero \in T
    BY <2>2, <1>1
  <2>4. ASSUME NEW k \in zero..w, k \in T, k < w PROVE k + 1 \in T
    <3>1. k + 1 \in 1..w /\ (k + 1) - 1 = k /\ k \in Nat
      BY <2>4, <1>1
    <3>2. e[k + 1] = e[k] + Len(ss[k + 1])
      BY <3>1, <2>2
    <3>3. Len(ss[k + 1]) = IF a < k + 1 /\ k + 1 <= a + n THEN 1 ELSE 0
      BY <3>1
    <3>4. e[k] = E(k)
      BY <2>4
    <3>5. e[k + 1] = E(k + 1)
      BY <3>1, <3>2, <3>3, <3>4
    <3> QED
      BY <3>1, <3>5
  <2>5. \A k \in zero..w : k \in T
    <3>1. zero \in Nat
      OBVIOUS
    <3> HIDE DEF zero, T, w
    <3> QED
      BY <2>3, <2>4, <3>1, <1>1, IntervalInduction
  <2>6. Len(d) = n
    <3>1. e[w] = E(w)
      BY <2>5, <1>1
    <3>2. E(w) = n
      BY <1>1
    <3> QED
      BY <3>1, <3>2, <2>2
  <2>7. ASSUME NEW k \in 1..n PROVE d[k] = ss[a + k][1]
    <3> DEFINE j == a + k
    <3>1. j \in 1..w /\ j - 1 \in 0..w /\ a < j /\ j <= a + n
      OBVIOUS
    <3>2. Len(ss[j]) = 1
      BY <3>1
    <3>3. e[j - 1] = k - 1
      <4>1. e[j - 1] = E(j - 1)
        BY <3>1, <2>5
      <4>2. E(j - 1) = k - 1
        OBVIOUS
      <4> QED
        BY <4>1, <4>2
    <3> HIDE DEF j, w
    <3>4. 1 \in 1..Len(ss[j])
      BY <3>2
    <3>5. d[e[j - 1] + 1] = ss[j][1]
      BY <3>1, <3>4, <2>2
    <3>6. e[j - 1] + 1 = k
      BY <3>3
    <3> QED
      BY <3>5, <3>6 DEF j
  <2> QED
    BY <2>6, <2>7, <1>2 DEF d
<1> QED
  BY <1>3, <1>4

\* Up to tile i there is a patch with D1 0 against the normal axis.
HasZero(i) == \E j \in 1..(i + 1) : \E k \in 1..Len(segmented[j]) : AtZero(segmented[j][k])

\* q is what the decoder has to have for patch p of tile i.
IsDecoded(i, p, q) ==
  /\ q.match = p.match
  /\ p.match # Unmatched => q.poc = frameOf(i) - (p.ref + 1)
  /\ q.sizeD = p.sizeD
  /\ ~MirroredElsewhere =>
       /\ q.mode = p.mode
       /\ \E v \in {0, 1} : /\ q.d1 = p.d1 + v * Pow2[BitDepth3D]
                            /\ v = 1 => p.mode = 1 /\ HasZero(i)

TileDecoded(i, t) ==
  /\ t.frame = frameOf(i) /\ t.id = i % conf.tiles
  /\ \E S : t.patches \in Seq(S)
  /\ Len(t.patches) = Len(patches[i + 1])
  /\ [k \in 1..Len(t.others) |-> t.others[k].kind] = conf.others
  /\ \A k \in 1..Len(patches[i + 1]) : IsDecoded(i, patches[i + 1][k], t.patches[k])

DecInv == \A i \in 0..(Len(decoded) - 1) : TileDecoded(i, decoded[i + 1])

LEMMA IntraDecoded ==
  ASSUME NEW i \in Nat, NEW p \in PatchSet, p.match = Unmatched,
         IsPatchOf(p, segmented[i + 1]), AsSegmented(p)
  PROVE  IsDecoded(i, p, decodeIntra(patchDataUnit(p)))
<1> DEFINE b == Pow2[BitDepth3D]
           m == minLevel
           g == BitDepth3D - Quantizer
           d == p.d1
           s == p.sizeD
           x == p.sizeDPixel
           q == decodeIntra(patchDataUnit(p))
           a == writeU(IF p.mode = 0 THEN d \div m ELSE (b - d) \div m, g)
<1>1. /\ p.mode \in {0, 1} /\ IsDepth(p.mode, d) /\ x \in Nat /\ x < Pow2[BitDepth2D] /\ x <= b
      /\ s = segmentSizeD(x) /\ d \in Nat
  BY DEF PatchSet, IsPatchOf, AsSegmented
<1>2. q.match = p.match /\ q.mode = p.mode
  BY DEF decodeIntra, patchDataUnit
<1>3. q.sizeD = deltaDD(writeU(IF s = 0 THEN 0 ELSE (s + 1) \div m, geometryDepth - Quantizer))
  BY DEF decodeIntra, patchDataUnit, intraRangeD
<1>4. q.sizeD = s
  <2> HIDE DEF s, x, q
  <2> QED
    BY <1>1, <1>3, SegmentSize
<1>5. q.d1 = IF p.mode = 0 THEN a * m ELSE b - a * m
  BY DEF decodeIntra, patchDataUnit, intraOffsetD
<1>6. b \in Nat
  BY Powers
<1>7. \E v \in {0, 1} : q.d1 = d + v * b /\ (v = 1 => p.mode = 1 /\ d = 0)
  <2>1. CASE p.mode = 0
    <3>1. writeU(d \div m, g) * m = d
      <4>1. IsDepth(0, d)
        BY <2>1, <1>1
      <4> HIDE DEF d
      <4> QED
        BY <4>1, IntraDepth
    <3>2. q.d1 = d
      <4> HIDE DEF q, d, m, g
      <4> QED
        BY <2>1, <3>1, <1>5
    <3>3. d + 0 * b = d
      BY <1>1, <1>6
    <3> HIDE DEF q, d, b
    <3> QED
      BY <3>2, <3>3
  <2>2. CASE p.mode = 1
    <3>1. b - writeU((b - d) \div m, g) * m = IF d = 0 THEN b ELSE d
      <4>1. IsDepth(1, d)
        BY <2>2, <1>1
      <4> HIDE DEF d
      <4> QED
        BY <4>1, IntraDepth
    <3>2. q.d1 = IF d = 0 THEN b ELSE d
      <4> HIDE DEF q, d, m, g, b
      <4> QED
        BY <2>2, <3>1, <1>5
    <3>3. d + 0 * b = d /\ 0 + 1 * b = b
      BY <1>1, <1>6
    <3> HIDE DEF q, d, b
    <3> QED
      BY <2>2, <3>2, <3>3
  <2> QED
    BY <2>1, <2>2, <1>1
<1>8. p.mode = 1 /\ d = 0 => HasZero(i)
  <2> SUFFICES ASSUME p.mode = 1, d = 0 PROVE HasZero(i)
    OBVIOUS
  <2>1. \E k \in 1..Len(segmented[i + 1]) : AtZero(segmented[i + 1][k])
    BY DEF IsPatchOf
  <2>2. i + 1 \in 1..(i + 1)
    OBVIOUS
  <2> QED
    BY <2>1, <2>2 DEF HasZero
<1> HIDE DEF q, d, s, b
<1> QED
  BY <1>2, <1>4, <1>7, <1>8 DEF IsDecoded, q, d, s, b

\* A patch that is coded as a difference, when what it is predicted from was decoded
\* right.
LEMMA InterDecoded ==
  ASSUME EncInv, pc = "decode", NEW i \in 0..(Len(patches) - 1),
         NEW k \in 1..Len(patches[i + 1]), NEW p, p = patches[i + 1][k], p.match # Unmatched,
         NEW r, r = refPatch(i, p), NEW s, IsDecoded(refTile(i, p), r, s),
         NEW h, NEW pred, NEW d, d = interPatchDataUnit(h, p, r, pred),
         NEW poc, poc = frameOf(i) - (p.ref + 1), NEW m, m = p.match
  PROVE  IsDecoded(i, p, decodeInter(d, s, m, poc))
<1> DEFINE q == decodeInter(d, s, m, poc)
           b == Pow2[BitDepth3D]
           t == refTile(i, p)
           o == interOffsetD(p, r)
           g == interRangeD(p, r)
<1>1. Types /\ Geometry /\ IsMatched(i, p) /\ i \in Nat
  <2>1. IsMatched(i, p)
    BY CodedReference
  <2>2. Types /\ Geometry
    BY DEF EncInv
  <2>3. i \in Nat
    BY <2>2, PatchOf
  <2> QED
    BY <2>1, <2>2, <2>3
<1>2. p \in PatchSet /\ i + 1 \in 1..Len(patches)
  BY <1>1, PatchOf
<1>3. IsPatchOf(p, segmented[i + 1])
  BY <1>1, <1>2 DEF Geometry
<1>4. /\ p.mode \in {0, 1} /\ IsDepth(p.mode, p.d1) /\ p.sizeD \in Nat /\ p.sizeD <= b /\ p.d1 \in Nat
  BY <1>2, <1>3 DEF PatchSet, IsPatchOf
<1>5. /\ r \in PatchSet /\ r.mode \in {0, 1} /\ IsDepth(r.mode, r.d1) /\ r.d1 \in Nat
      /\ t \in Nat /\ t < i
      /\ HasFrame(i, p) /\ refExists(i, p) /\ IsCoded(i, p)
  BY <1>1 DEF IsMatched, IsPatchOf, PatchSet
<1>6. b \in Nat /\ Pow2[SizeTBits] \in Nat /\ 2 * b < Pow2[SizeTBits]
  BY Powers, SizeTLarge
<1>7. d.offsetD = writeSvlc(o) /\ d.rangeD = writeSvlc(g)
  BY DEF interPatchDataUnit
<1>8. q.match = p.match /\ q.poc = poc /\ q.mode = s.mode
  BY DEF decodeInter
<1>9. q.sizeD = p.sizeD
  <2>1. q.sizeD = SizeT(s.sizeD + deltaDD(readSvlc(writeSvlc(g))))
    BY <1>7 DEF decodeInter
  <2>2. g \in Int /\ -Pow2[IntBits - 1] < g /\ g < Pow2[IntBits - 1]
    <3>1. PICK z : z = interSizeD(p, r)
      OBVIOUS
    <3> QED
      BY <3>1, <1>1, <1>5, SizeNotBounded
  <2>3. p.sizeD = r.sizeD + deltaDD(g)
    BY <1>5 DEF IsCoded
  <2> HIDE DEF g, q
  <2>4. readSvlc(writeSvlc(g)) = g
    BY <2>2, SvlcInRange
  <2>5. s.sizeD = r.sizeD
    BY DEF IsDecoded
  <2>6. q.sizeD = SizeT(p.sizeD)
    BY <2>1, <2>3, <2>4, <2>5
  <2> DEFINE x == p.sizeD
             z == 0
  <2>7. x \in Int /\ z \in Int /\ 0 <= x /\ x < Pow2[SizeTBits] /\ x = z * Pow2[SizeTBits] + x
    <3> DEFINE y == Pow2[SizeTBits]
    <3>1. x \in Nat /\ x <= b /\ b \in Nat /\ y \in Nat /\ 2 * b < y
      BY <1>4, <1>6
    <3> HIDE DEF x, y, b
    <3>2. x \in Int /\ z \in Int /\ 0 <= x /\ x < y /\ x = z * y + x
      BY <3>1
    <3> QED
      BY <3>2 DEF y
  <2> HIDE DEF x, z
  <2>8. SizeT(x) = x
    BY <2>7, SizeTOf
  <2> QED
    BY <2>6, <2>8 DEF x
<1>10. ASSUME ~MirroredElsewhere
       PROVE  /\ q.mode = p.mode
              /\ \E v \in {0, 1} : /\ q.d1 = p.d1 + v * b
                                   /\ v = 1 => p.mode = 1 /\ HasZero(i)
  <2>1. r.mode = p.mode /\ s.mode = r.mode
    BY <1>1, <1>10 DEF IsMatched, IsDecoded
  <2>2. PICK v \in {0, 1} : s.d1 = r.d1 + v * b /\ (v = 1 => r.mode = 1 /\ HasZero(t))
    BY <1>10 DEF IsDecoded
  <2>3. v = 1 => p.mode = 1 /\ HasZero(i)
    <3> SUFFICES ASSUME v = 1 PROVE p.mode = 1 /\ HasZero(i)
      OBVIOUS
    <3>1. p.mode = 1 /\ HasZero(t)
      BY <2>1, <2>2
    <3>2. PICK j \in 1..(t + 1) : \E l \in 1..Len(segmented[j]) : AtZero(segmented[j][l])
      BY <3>1 DEF HasZero
    <3> HIDE DEF t
    <3>3. j \in 1..(i + 1)
      BY <3>2, <1>1, <1>5
    <3> QED
      BY <3>1, <3>2, <3>3 DEF HasZero
  <2> DEFINE x == p.d1
             y == r.d1
             w == s.d1
  <2>4. CASE p.mode = 0
    <3>1. v = 0 /\ w = y
      <4>1. v = 0
        BY <2>2, <2>3, <2>4
      <4>2. w = y + 0 * b /\ y \in Nat
        BY <4>1, <2>2, <1>5
      <4> HIDE DEF w, y, b
      <4> QED
        BY <4>1, <4>2, <1>6
    <3>2. o = (x \div minLevel) - (y \div minLevel)
      BY <2>4 DEF interOffsetD
    <3>3. q.d1 = SizeT((readSvlc(writeSvlc(o)) + (w \div minLevel)) * minLevel)
      BY <2>1, <2>4, <1>7 DEF decodeInter
    <3>4. IsDepth(0, x) /\ IsDepth(0, y)
      BY <2>1, <2>4, <1>4, <1>5
    <3> HIDE DEF x, y, w, q, o
    <3>5. q.d1 = x
      BY <3>1, <3>2, <3>3, <3>4, InterDepthAlong
    <3>6. x + v * b = x
      <4>1. x \in Nat
        BY <1>4 DEF x
      <4> HIDE DEF b
      <4> QED
        BY <4>1, <3>1, <1>6
    <3>7. q.mode = p.mode
      BY <1>8, <2>1 DEF q
    <3> QED
      BY <3>5, <3>6, <3>7, <2>3 DEF x
  <2>5. CASE p.mode = 1
    <3>1. w = y + v * Pow2[BitDepth3D]
      BY <2>2
    <3>2. o = (SizeT(BitDepth3D - x) \div minLevel) - (SizeT(BitDepth3D - y) \div minLevel)
      BY <2>5 DEF interOffsetD
    <3>3. q.d1 = SizeT(Pow2[BitDepth3D]
                       - (readSvlc(writeSvlc(o)) + (SizeT(Pow2[BitDepth3D] - w) \div minLevel)) * minLevel)
      BY <2>1, <2>5, <1>7 DEF decodeInter
    <3>4. IsDepth(1, x) /\ IsDepth(1, y)
      BY <2>1, <2>5, <1>4, <1>5
    <3> HIDE DEF x, y, w, q, o
    <3>5. q.d1 = x + v * Pow2[BitDepth3D]
      BY <3>1, <3>2, <3>3, <3>4, <2>2, InterDepthAgainst
    <3>6. q.mode = p.mode
      BY <1>8, <2>1 DEF q
    <3> QED
      BY <3>5, <3>6, <2>3 DEF x
  <2> QED
    BY <2>4, <2>5, <1>4
<1> HIDE DEF q, b
<1> QED
  BY <1>8, <1>9, <1>10 DEF IsDecoded, q, b

\* What DecodeTile finds for tile i.
LEMMA LayerRead ==
  ASSUME EncInv, pc = "decode", NEW i \in 0..(Len(patches) - 1)
  PROVE  /\ Len(patches) = numTiles /\ i + 1 \in 1..numTiles
         /\ orderCnt[i + 1] = frameOf(i)
         /\ atlList[i + 1].header.id = i % conf.tiles
         /\ atlList[i + 1].header.type = Header(i).type
         /\ IsRead(i, readUnits(atlList[i + 1]))
<1>1. Types /\ Coded /\ Len(atlList) = numTiles /\ Len(patches) = numTiles /\ numTiles \in Nat
  <2>1. Types /\ Phases /\ Coded
    BY DEF EncInv
  <2>2. numTiles \in Nat
    BY <2>1, ConfTypes DEF Types
  <2> QED
    BY <2>1, <2>2 DEF Types, Phases
<1>2. i + 1 \in 1..numTiles /\ (i + 1) - 1 = i
  BY <1>1
<1>3. orderCnt[i + 1] = frameOf(i)
  BY <1>1, <1>2, OrderCount
<1>4. PICK nalu : atlList[i + 1] = Layer(i, nalu)
  BY <1>1 DEF Coded, LayerCoded
<1>5. atlList[i + 1].header = [Header(i) EXCEPT !.nalu = nalu]
  BY <1>4 DEF Layer
<1>6. atlList[i + 1].header.id = i % conf.tiles /\ atlList[i + 1].header.type = Header(i).type
  BY <1>5 DEF Header
<1>7. IsRead(i, readUnits(atlList[i + 1]))
  BY <1>4, UnitsRead
<1> QED
  BY <1>1, <1>2, <1>3, <1>6, <1>7

\* The patch that DecodeTile predicts a patch from.
IsFound(i, p, u, list, poc) ==
  /\ refIndexOf(u) < Len(list) /\ list[refIndexOf(u) + 1] = poc
  /\ decodedTiles(i + 1, poc) = {refTile(i, p) + 1}
  /\ TileDecoded(refTile(i, p), decoded[refTile(i, p) + 1])

LEMMA ReferenceRead ==
  ASSUME EncInv, DecInv, pc = "decode", NEW i \in 0..(Len(patches) - 1), i = Len(decoded),
         NEW us, IsRead(i, us), NEW list \in listsFor(i + 1),
         NEW k \in 1..Len(patches[i + 1]), NEW p, p = patches[i + 1][k], p.match # Unmatched,
         NEW poc, poc = frameOf(i) - (p.ref + 1)
  PROVE  IsFound(i, p, us[k], list, poc)
<1> DEFINE f == frameOf(i)
           t == refTile(i, p)
           x == p.ref
<1>1. Types /\ conf \in Confs /\ i \in Nat
  BY SMTT(30) DEF EncInv, Types
<1>2. IsMatched(i, p)
  BY CodedReference
<1>3. f \in Nat /\ f > 0 /\ Header(i).type = "P"
  BY HeaderType
<1>4. /\ orderCnt[i + 1] = f /\ atlList[i + 1].header.type = Header(i).type
      /\ atlList[i + 1].header.id = i % conf.tiles
  BY LayerRead
<1>5. list \in refAfocLists(f)
  BY <1>3, <1>4 DEF listsFor
<1>6. refIndexOf(us[k]) = x
  BY RefIndexRead
<1>7. p \in PatchSet /\ x \in Nat /\ HasFrame(i, p) /\ x < Min2(f, conf.maxRef) /\ t \in 0..(Len(patches) - 1) /\ t < i
  BY <1>2 DEF IsMatched, HasFrame, PatchSet
<1>8. Min2(f, conf.maxRef) \in Nat
  BY <1>1, <1>3, ConfTypes DEF Min2
<1>9. \A j \in 1..Min2(f, conf.maxRef) : j <= Len(list) /\ list[j] = f - j
  <2> HIDE DEF f
  <2> QED
    BY <1>1, <1>3, <1>5, ListRead
<1>10. x + 1 <= Len(list) /\ list[x + 1] = poc
  <2>1. x + 1 \in 1..Min2(f, conf.maxRef)
    <3> DEFINE n == Min2(f, conf.maxRef)
    <3> HIDE DEF n, x
    <3>1. x \in Nat /\ n \in Nat /\ x < n
      BY <1>7, <1>8 DEF n, x
    <3>2. x + 1 \in 1..n
      BY <3>1
    <3> QED
      BY <3>2 DEF n, x
  <2> QED
    BY <2>1, <1>9
<1>11. x < Len(list)
  BY <1>7, <1>10
<1>12. /\ poc \in Nat /\ t = tileIn(poc, i) /\ frameOf(t) = poc /\ t % conf.tiles = i % conf.tiles
  BY <1>1, <1>7, Reference
<1>13. /\ t + 1 \in 1..Len(decoded) /\ t \in Nat /\ TileDecoded(t, decoded[t + 1])
  <2> HIDE DEF t
  <2>1. t \in 0..(Len(decoded) - 1) /\ t + 1 \in 1..Len(decoded) /\ t \in Nat
    BY <1>1, <1>7
  <2> QED
    BY <2>1 DEF DecInv
<1>14. decodedTiles(i + 1, poc) =
         {j \in 1..Len(decoded) : decoded[j].frame = poc /\ decoded[j].id = i % conf.tiles}
  BY <1>4 DEF decodedTiles
<1>15. t + 1 \in decodedTiles(i + 1, poc)
  BY <1>12, <1>13, <1>14 DEF TileDecoded
<1>16. ASSUME NEW j \in decodedTiles(i + 1, poc) PROVE j = t + 1
  <2> DEFINE y == j - 1
  <2>1. j \in 1..Len(decoded) /\ decoded[j].frame = poc /\ decoded[j].id = i % conf.tiles
    BY <1>14, <1>16
  <2>2. y \in 0..(Len(decoded) - 1) /\ y \in Nat /\ y + 1 = j
    BY <2>1, <1>1
  <2> HIDE DEF y
  <2>3. frameOf(y) = poc /\ y % conf.tiles = i % conf.tiles
    BY <2>1, <2>2 DEF DecInv, TileDecoded
  <2>4. y = tileIn(poc, i)
    BY <2>2, <2>3, <1>1, TileIs
  <2> QED
    BY <2>2, <2>4, <1>12
<1>17. decodedTiles(i + 1, poc) = {t + 1}
  BY <1>15, <1>16
<1> QED
  BY <1>6, <1>10, <1>11, <1>13, <1>17 DEF IsFound

\* The decoder never leaves its lists.
LEMMA AlwaysReadable ==
  ASSUME EncInv, DecInv, pc = "decode", NEW i \in 0..(Len(patches) - 1), i = Len(decoded),
         NEW us, IsRead(i, us), NEW list \in listsFor(i + 1)
  PROVE  Readable(i + 1, us, list)
<1> DEFINE ps == patches[i + 1]
           n == Len(ps)
           o == Len(conf.others)
           ms == decodeMatches(us)
<1>1. /\ Types /\ conf \in Confs /\ n \in Nat /\ o \in Nat /\ i \in Nat
      /\ conf.others \in Seq({"raw", "eom"})
  <2>1. Types /\ conf \in Confs
    BY DEF EncInv, Types
  <2>2. n \in Nat /\ i \in Nat
    BY <2>1, PatchOf
  <2>3. conf.others \in Seq({"raw", "eom"}) /\ o \in Nat
    BY <2>1, ConfTypes
  <2> QED
    BY <2>1, <2>2, <2>3
<1>2. /\ Len(us) = n + o
      /\ \A k \in 1..n : us[k].kind = IF ps[k].match = Unmatched THEN "intra" ELSE "inter"
      /\ \A k \in 1..o : us[n + k].kind = conf.others[k]
  BY DEF IsRead
<1>3. ASSUME NEW k \in 1..Len(us), us[k].kind = "inter" PROVE k \in 1..n /\ ps[k].match # Unmatched
  <2>1. k \in 1..n
    <3> SUFFICES ASSUME ~(k <= n) PROVE FALSE
      BY <1>1, <1>2
    <3> DEFINE j == k - n
    <3>1. j \in 1..o /\ n + j = k
      <4> HIDE DEF n, o
      <4> QED
        BY <1>1, <1>2
    <3> HIDE DEF j
    <3>2. conf.others[j] \in {"raw", "eom"}
      BY <3>1, <1>1
    <3> QED
      BY <3>1, <3>2, <1>2, <1>3
  <2> QED
    BY <2>1, <1>2, <1>3
<1>4. ASSUME NEW k \in 1..Len(us), us[k].kind = "inter"
      PROVE  /\ refIndexOf(us[k]) < Len(list)
             /\ \E t \in decodedTiles(i + 1, list[refIndexOf(us[k]) + 1]) :
                  ms[k] \in 0..(Len(decoded[t].patches) - 1)
  <2>1. k \in 1..n /\ ps[k].match # Unmatched
    BY <1>3, <1>4
  <2>2. PICK p : p = ps[k]
    OBVIOUS
  <2>3. PICK poc : poc = frameOf(i) - (p.ref + 1)
    OBVIOUS
  <2> DEFINE t == refTile(i, p)
  <2>4. /\ refIndexOf(us[k]) < Len(list) /\ list[refIndexOf(us[k]) + 1] = poc
        /\ decodedTiles(i + 1, poc) = {t + 1}
        /\ TileDecoded(t, decoded[t + 1])
    <3>1. IsFound(i, p, us[k], list, poc)
      <4> HIDE DEF t, ms
      <4> QED
        BY <2>1, <2>2, <2>3, ReferenceRead
    <3> QED
      BY <3>1 DEF IsFound
  <2>5. ms[k] = p.match
    BY <2>1, <2>2, MatchesRead
  <2>6. IsMatched(i, p)
    BY <2>1, <2>2, CodedReference
  <2>7. p.match \in 0..(Len(patches[t + 1]) - 1)
    BY <2>6 DEF IsMatched, refExists
  <2>8. Len(decoded[t + 1].patches) = Len(patches[t + 1])
    BY <2>4 DEF TileDecoded
  <2> HIDE DEF t, ms
  <2> QED
    BY <2>4, <2>5, <2>7, <2>8
<1> QED
  BY <1>4 DEF Readable

LEMMA PatchesRead ==
  ASSUME EncInv, DecInv, pc = "decode", NEW i \in 0..(Len(patches) - 1), i = Len(decoded),
         NEW us, IsRead(i, us), NEW list \in listsFor(i + 1),
         NEW qs, qs = decodePatches(i + 1, us, list)
  PROVE  /\ \E S : qs \in Seq(S)
         /\ Len(qs) = Len(patches[i + 1])
         /\ \A k \in 1..Len(patches[i + 1]) : IsDecoded(i, patches[i + 1][k], qs[k])
<1> DEFINE ps == patches[i + 1]
           n == Len(ps)
           o == Len(conf.others)
           N == Len(us)
           ms == decodeMatches(us)
           poc(u) == list[refIndexOf(u) + 1]
           tile(u) == CHOOSE t \in decodedTiles(i + 1, poc(u)) : TRUE
           inter(u, m) == decodeInter(u.data, decoded[tile(u)].patches[m + 1], m, poc(u))
           part(k) == CASE us[k].kind = "intra" -> <<decodeIntra(us[k].data)>>
                        [] us[k].kind = "inter" -> <<inter(us[k], ms[k])>>
                        [] OTHER -> <<>>
           elem(k) == IF us[k].kind = "intra" THEN decodeIntra(us[k].data) ELSE inter(us[k], ms[k])
           S == {elem(k) : k \in 1..N}
           ss == [k \in 1..N |-> part(k)]
<1>1. /\ Types /\ Geometry /\ conf \in Confs /\ n \in Nat /\ o \in Nat /\ i \in Nat
      /\ i + 1 \in 1..Len(patches)
      /\ conf.others \in Seq({"raw", "eom"})
  <2>1. Types /\ Geometry /\ conf \in Confs
    BY DEF EncInv, Types
  <2>2. n \in Nat /\ i \in Nat /\ i + 1 \in 1..Len(patches)
    BY <2>1, PatchOf
  <2>3. conf.others \in Seq({"raw", "eom"}) /\ o \in Nat
    BY <2>1, ConfTypes
  <2> QED
    BY <2>1, <2>2, <2>3
<1>2. /\ N = n + o
      /\ \A k \in 1..n : /\ us[k].kind = IF ps[k].match = Unmatched THEN "intra" ELSE "inter"
                         /\ us[k].data = DataOf(i, k)
      /\ \A k \in 1..o : us[n + k].kind = conf.others[k]
  BY DEF IsRead
<1>3. qs = FlattenSeq(ss)
  BY DEF decodePatches
<1> HIDE DEF ms, inter, tile, poc
<1>4. \A k \in 1..n : part(k) = <<elem(k)>>
  BY <1>2
<1> HIDE DEF elem
<1>5. \A k \in 1..N : ~(k <= n) => part(k) = <<>>
  <2> SUFFICES ASSUME NEW k \in 1..N, ~(k <= n) PROVE part(k) = <<>>
    OBVIOUS
  <2> DEFINE j == k - n
  <2>1. j \in 1..o /\ n + j = k
    <3> HIDE DEF n, o, N
    <3> QED
      BY <1>1, <1>2
  <2> HIDE DEF j
  <2>2. conf.others[j] \in {"raw", "eom"}
    BY <2>1, <1>1
  <2>3. us[k].kind # "intra" /\ us[k].kind # "inter"
    BY <2>1, <2>2, <1>2
  <2> QED
    BY <2>3
<1> HIDE DEF part, n, o, N
<1>6. N \in Nat /\ n <= N
  BY <1>1, <1>2
<1>7. /\ ss \in Seq(Seq(S)) /\ Len(ss) = N
      /\ \A k \in 1..N : ss[k] = IF k <= n THEN <<elem(k)>> ELSE <<>>
  <2>1. \A k \in 1..N : k <= n => k \in 1..n
    BY <1>1, <1>6
  <2>2. \A k \in 1..N : part(k) = IF k <= n THEN <<elem(k)>> ELSE <<>>
    BY <2>1, <1>4, <1>5
  <2>3. \A k \in 1..N : part(k) \in Seq(S)
    <3> SUFFICES ASSUME NEW k \in 1..N PROVE part(k) \in Seq(S)
      OBVIOUS
    <3>1. elem(k) \in S
      OBVIOUS
    <3> HIDE DEF S
    <3>2. <<elem(k)>> \in Seq(S) /\ <<>> \in Seq(S)
      BY <3>1
    <3> QED
      BY <3>2, <2>2
  <2> HIDE DEF S
  <2>4. ss \in [1..N -> Seq(S)]
    BY <2>3
  <2>5. ss \in Seq(Seq(S)) /\ Len(ss) = N
    <3> HIDE DEF ss
    <3> QED
      BY <2>4, <1>6
  <2> QED
    BY <2>2, <2>5
<1> HIDE DEF ss, S
<1>8. qs \in Seq(S) /\ Len(qs) = n /\ \A k \in 1..n : qs[k] = elem(k)
  <2> DEFINE a == 0
  <2>1. a \in Nat /\ a + n = n /\ \A k \in 1..n : a + k = k /\ k \in 1..N /\ k <= n
    BY <1>1, <1>6
  <2>2. \A x : Len(<<x>>) = 1 /\ <<x>>[1] = x
    OBVIOUS
  <2>3. \A k \in 1..N : a < k
    BY <1>6
  <2> HIDE DEF a
  <2>4. AreSingles(ss, a, n)
    <3>1. ASSUME NEW k \in 1..N PROVE Len(ss[k]) = IF a < k /\ k <= a + n THEN 1 ELSE 0
      <4>1. CASE k <= n
        BY <4>1, <2>1, <2>2, <2>3, <1>7
      <4>2. CASE ~(k <= n)
        <5>1. ss[k] = <<>>
          BY <4>2, <1>7
        <5>2. Len(ss[k]) = 0
          BY <5>1
        <5> QED
          BY <4>2, <5>2, <2>1
      <4> QED
        BY <4>1, <4>2
    <3> QED
      BY <3>1, <2>1, <1>6, <1>7 DEF AreSingles
  <2>5. FlattenSeq(ss) \in Seq(S) /\ SinglesOf(ss, a, n, FlattenSeq(ss))
    BY <2>1, <2>4, <1>1, <1>7, FlattenSingles
  <2>6. ASSUME NEW k \in 1..n PROVE ss[a + k][1] = elem(k)
    BY <2>1, <2>2, <1>7
  <2> QED
    BY <2>5, <2>6, <1>3 DEF SinglesOf
<1>9. ASSUME NEW k \in 1..n PROVE IsDecoded(i, ps[k], qs[k])
  <2>1. PICK p : p = ps[k]
    OBVIOUS
  <2>2. p \in PatchSet /\ IsPatchOf(p, segmented[i + 1])
    BY <2>1, <1>1, PatchOf DEF Geometry, n
  <2>3. k \in 1..Len(patches[i + 1]) /\ p = patches[i + 1][k] /\ us[k].data = DataOf(i, k)
    BY <2>1, <1>2 DEF n
  <2>4. CASE p.match = Unmatched
    <3>1. qs[k] = decodeIntra(us[k].data)
      BY <2>1, <2>4, <1>2, <1>8 DEF elem
    <3>2. us[k].data = patchDataUnit(p)
      BY <2>3, <2>4 DEF DataOf
    <3>3. AsSegmented(p)
      BY <2>3, <2>4, <1>1 DEF Geometry
    <3> QED
      BY <2>1, <2>2, <2>4, <3>1, <3>2, <3>3, <1>1, IntraDecoded
  <2>5. CASE p.match # Unmatched
    <3>1. qs[k] = inter(us[k], ms[k])
      BY <2>1, <2>5, <1>2, <1>8 DEF elem
    <3>2. ms[k] = p.match
      BY <2>3, MatchesRead DEF ms
    <3>3. PICK y : y = frameOf(i) - (p.ref + 1)
      OBVIOUS
    <3> DEFINE t == refTile(i, p)
    <3>4. /\ poc(us[k]) = y /\ decodedTiles(i + 1, y) = {t + 1} /\ TileDecoded(t, decoded[t + 1])
      <4>1. IsFound(i, p, us[k], list, y)
        <5> HIDE DEF t, ps
        <5> QED
          BY <2>3, <2>5, <3>3, ReferenceRead
      <4> QED
        BY <4>1 DEF IsFound, poc
    <3>5. tile(us[k]) = t + 1
      BY <3>4 DEF tile
    <3>6. PICK r : r = refPatch(i, p)
      OBVIOUS
    <3>7. PICK m : m = p.match
      OBVIOUS
    <3>8. PICK s : s = decoded[t + 1].patches[m + 1]
      OBVIOUS
    <3>9. PICK d : d = us[k].data
      OBVIOUS
    <3>10. qs[k] = decodeInter(d, s, m, y)
      BY <3>1, <3>2, <3>4, <3>5, <3>7, <3>8, <3>9 DEF inter
    <3>11. IsMatched(i, p)
      BY <2>3, <2>5, CodedReference
    <3>12. r = patches[t + 1][m + 1] /\ m + 1 \in 1..Len(patches[t + 1])
      <4>1. /\ r = patches[t + 1][m + 1] /\ m \in 0..(Len(patches[t + 1]) - 1)
            /\ t \in 0..(Len(patches) - 1)
        BY <3>6, <3>7, <3>11 DEF refPatch, refExists, IsMatched
      <4> HIDE DEF t
      <4>2. Len(patches[t + 1]) \in Nat
        BY <4>1, <1>1, PatchOf
      <4> QED
        BY <4>1, <4>2
    <3> HIDE DEF t
    <3>13. IsDecoded(t, r, s)
      BY <3>4, <3>8, <3>12 DEF TileDecoded
    <3>14. d = interPatchDataUnit(Header(i), p, r, predIndex(ps)[k])
      BY <2>3, <2>5, <3>6, <3>9 DEF DataOf
    <3>15. PICK h : h = Header(i)
      OBVIOUS
    <3>16. PICK pred : pred = predIndex(ps)[k]
      OBVIOUS
    <3>17. d = interPatchDataUnit(h, p, r, pred) /\ IsDecoded(refTile(i, p), r, s)
      BY <3>13, <3>14, <3>15, <3>16 DEF t
    <3> HIDE DEF ps
    <3>18. IsDecoded(i, p, decodeInter(d, s, m, y))
      BY <2>3, <2>5, <3>3, <3>6, <3>7, <3>17, InterDecoded, ZenonT(30)
    <3> QED
      BY <2>1, <3>10, <3>18
  <2> QED
    BY <2>4, <2>5
<1> QED
  BY <1>8, <1>9 DEF n

LEMMA OthersRead ==
  ASSUME EncInv, NEW i \in 0..(Len(patches) - 1), NEW us, IsRead(i, us),
         NEW os, os = decodeOthers(us)
  PROVE  [k \in 1..Len(os) |-> os[k].kind] = conf.others
<1> DEFINE ps == patches[i + 1]
           n == Len(ps)
           o == Len(conf.others)
           N == Len(us)
           S == {us[k] : k \in 1..N}
           ss == [k \in 1..N |-> IF IsPatch(us[k]) THEN <<>> ELSE <<us[k]>>]
<1>1. n \in Nat /\ o \in Nat /\ conf.others \in Seq({"raw", "eom"})
  <2>1. Types /\ conf \in Confs
    BY DEF EncInv, Types
  <2> QED
    BY <2>1, PatchOf, ConfTypes
<1>2. /\ N = n + o
      /\ \A k \in 1..n : us[k].kind = IF ps[k].match = Unmatched THEN "intra" ELSE "inter"
      /\ \A k \in 1..o : us[n + k].kind = conf.others[k]
  BY DEF IsRead
<1>3. os = FlattenSeq(ss)
  BY DEF decodeOthers
<1>4. \A k \in 1..n : IsPatch(us[k])
  BY <1>2 DEF IsPatch
<1>5. \A k \in 1..o : ~IsPatch(us[n + k])
  <2> SUFFICES ASSUME NEW k \in 1..o PROVE ~IsPatch(us[n + k])
    OBVIOUS
  <2>1. conf.others[k] \in {"raw", "eom"}
    BY <1>1
  <2> QED
    BY <2>1, <1>2 DEF IsPatch
<1> HIDE DEF n, o, N
<1>6. N \in Nat
  BY <1>1, <1>2
<1>7. /\ ss \in Seq(Seq(S)) /\ Len(ss) = N
      /\ \A k \in 1..N : ss[k] = IF IsPatch(us[k]) THEN <<>> ELSE <<us[k]>>
  <2>1. \A k \in 1..N : (IF IsPatch(us[k]) THEN <<>> ELSE <<us[k]>>) \in Seq(S)
    <3> SUFFICES ASSUME NEW k \in 1..N PROVE (IF IsPatch(us[k]) THEN <<>> ELSE <<us[k]>>) \in Seq(S)
      OBVIOUS
    <3>1. us[k] \in S
      OBVIOUS
    <3> HIDE DEF S
    <3>2. <<us[k]>> \in Seq(S) /\ <<>> \in Seq(S)
      BY <3>1
    <3> QED
      BY <3>2
  <2> HIDE DEF S
  <2>2. ss \in [1..N -> Seq(S)]
    BY <2>1
  <2>3. ss \in Seq(Seq(S)) /\ Len(ss) = N
    <3> HIDE DEF ss
    <3> QED
      BY <2>2, <1>6
  <2> QED
    BY <2>3
<1> HIDE DEF ss, S
<1>8. \A x : Len(<<x>>) = 1 /\ <<x>>[1] = x
  OBVIOUS
<1>9. AreSingles(ss, n, o)
  <2>1. ASSUME NEW k \in 1..N PROVE Len(ss[k]) = IF n < k /\ k <= n + o THEN 1 ELSE 0
    <3>1. CASE k <= n
      <4>1. k \in 1..n
        BY <3>1, <1>1
      <4>2. ss[k] = <<>>
        BY <4>1, <1>4, <1>7
      <4>3. Len(ss[k]) = 0 /\ ~(n < k)
        BY <3>1, <4>2, <1>1
      <4> QED
        BY <4>3
    <3>2. CASE ~(k <= n)
      <4> DEFINE j == k - n
      <4>1. j \in 1..o /\ n + j = k /\ n < k /\ k <= n + o
        BY <3>2, <1>1, <1>2
      <4> HIDE DEF j
      <4>2. ss[k] = <<us[k]>>
        BY <4>1, <1>5, <1>7
      <4> QED
        BY <4>1, <4>2, <1>8
    <3> QED
      BY <3>1, <3>2
  <2> QED
    BY <2>1, <1>1, <1>2, <1>7 DEF AreSingles
<1>10. SinglesOf(ss, n, o, os)
  BY <1>1, <1>3, <1>7, <1>9, FlattenSingles
<1>11. ASSUME NEW k \in 1..o PROVE os[k].kind = conf.others[k]
  <2>1. n + k \in 1..N
    BY <1>1, <1>2
  <2>2. ss[n + k] = <<us[n + k]>>
    BY <2>1, <1>5, <1>7
  <2>3. os[k] = us[n + k]
    BY <2>2, <1>8, <1>10 DEF SinglesOf
  <2> QED
    BY <2>3, <1>2
<1>12. Len(os) = o
  BY <1>10 DEF SinglesOf
<1>13. conf.others = [k \in 1..o |-> conf.others[k]]
  BY <1>1 DEF o
<1> QED
  BY <1>11, <1>12, <1>13

-----------------------------------------------------------------------------
(* The inductive invariant of the decoder. *)

LEMMA DecDecodeTile ==
  ASSUME EncInv, DecInv, DecodeTile
  PROVE  DecInv' /\ pc' = "decode"
<1> DEFINE i == index
           us == readUnits(atlList[i + 1])
<1>1. /\ pc = "decode" /\ i < numTiles
      /\ UNCHANGED <<conf, patches, segmented, referred, atlList>>
  BY DEF DecodeTile
<1>2. /\ Types /\ Phases /\ conf \in Confs /\ numTiles \in Nat /\ i \in Nat
      /\ Len(decoded) = i /\ Len(patches) = numTiles
  <2>1. Types /\ Phases /\ conf \in Confs
    BY DEF EncInv, Types
  <2>2. numTiles \in Nat
    BY <2>1, ConfTypes
  <2> QED
    BY <2>1, <2>2, <1>1 DEF Types, Phases
<1>3. i \in 0..(Len(patches) - 1)
  BY <1>1, <1>2
<1>4. PICK list \in listsFor(i + 1) :
        IF Readable(i + 1, us, list)
        THEN /\ decoded' = Append(decoded,
                  [frame |-> orderCnt[i + 1], id |-> atlList[i + 1].header.id,
                   patches |-> decodePatches(i + 1, us, list),
                   others |-> decodeOthers(us)])
             /\ UNCHANGED pc
        ELSE pc' = "undefined"
  BY DEF DecodeTile
<1>5. /\ orderCnt[i + 1] = frameOf(i) /\ atlList[i + 1].header.id = i % conf.tiles
      /\ IsRead(i, us)
  <2> HIDE DEF i
  <2> QED
    BY <1>1, <1>3, LayerRead
<1> DEFINE qs == decodePatches(i + 1, us, list)
           os == decodeOthers(us)
           t == [frame |-> frameOf(i), id |-> i % conf.tiles, patches |-> qs, others |-> os]
<1>6. Readable(i + 1, us, list)
  <2> HIDE DEF i, us
  <2> QED
    BY <1>1, <1>2, <1>3, <1>5, AlwaysReadable
<1>7. decoded' = Append(decoded, t) /\ pc' = "decode"
  BY <1>1, <1>4, <1>5, <1>6
<1>8. /\ \E S : qs \in Seq(S)
      /\ Len(qs) = Len(patches[i + 1])
      /\ \A k \in 1..Len(patches[i + 1]) : IsDecoded(i, patches[i + 1][k], qs[k])
  <2> HIDE DEF i, us, qs
  <2>1. qs = decodePatches(i + 1, us, list)
    BY DEF qs
  <2> QED
    BY <2>1, <1>1, <1>2, <1>3, <1>5, PatchesRead
<1>9. [k \in 1..Len(os) |-> os[k].kind] = conf.others
  <2> HIDE DEF i, us, os
  <2>1. os = decodeOthers(us)
    BY DEF os
  <2> QED
    BY <2>1, <1>3, <1>5, OthersRead
<1>10. TileDecoded(i, t)
  <2> HIDE DEF i, us, qs, os
  <2> QED
    BY <1>8, <1>9 DEF TileDecoded
<1>11. \A j, u : TileDecoded(j, u)' = TileDecoded(j, u)
  BY <1>1 DEF TileDecoded, IsDecoded, frameOf, MirroredElsewhere, Adjusts, HasZero
<1>12. PICK S : decoded \in Seq(S)
  BY <1>2 DEF Types
<1> HIDE DEF t
<1>13. ASSUME NEW j \in 0..(Len(decoded') - 1) PROVE TileDecoded(j, decoded'[j + 1])
  <2>1. decoded \in Seq(S \union {t}) /\ t \in S \union {t}
    BY <1>12
  <2>2. /\ Len(decoded') = i + 1 /\ decoded'[i + 1] = t
        /\ \A k \in 1..i : decoded'[k] = decoded[k]
    BY <2>1, <1>2, <1>7
  <2>3. CASE j = i
    BY <2>2, <2>3, <1>10
  <2>4. CASE j # i
    <3>1. j \in 0..(Len(decoded) - 1) /\ j + 1 \in 1..i
      BY <2>2, <2>4, <1>2, <1>13
    <3> QED
      BY <3>1, <2>2 DEF DecInv
  <2> QED
    BY <2>3, <2>4
<1> QED
  BY <1>7, <1>11, <1>13 DEF DecInv

-----------------------------------------------------------------------------
(* The matches of the segmentation. *)

\* While a tile waits for adjustReferenceAtlasFrame, its matches are patches that the
\* same tile of the frame before had when it was segmented.
SegmentedMatches ==
  /\ pc = "segment" =>
       \A i \in 0..(Len(patches) - 1) : Len(patches[i + 1]) = Len(segmented[i + 1])
  /\ pc = "adjust" =>
       \A i \in 0..(Len(patches) - 1) : \A k \in 1..Len(patches[i + 1]) :
         \A p \in {patches[i + 1][k]} :
           index <= i /\ p.match # Unmatched =>
             p.match \in 0..(Len(segmented[tileIn(frameOf(i) - 1, i) + 1]) - 1)

LEMMA SegmentLengths ==
  ASSUME EncInv, SegmentedMatches, Segment
  PROVE  SegmentedMatches'
<1>1. /\ pc = "segment" /\ pc' = "segment"
      /\ patches \in Seq(Seq(PatchSet)) /\ segmented \in Seq(Seq(Components))
      /\ Len(patches) = Len(segmented)
  BY DEF EncInv, Types, Segment
<1>2. PICK n \in 0..conf.maxPatches :
        \E cs \in [1..n -> Segments] : \E ms :
          /\ patches' = Append(patches, [k \in 1..n |-> Patch(cs[k], ms[k])])
          /\ segmented' = Append(segmented, cs)
  BY ZenonT(30) DEF Segment
<1>3. PICK cs \in [1..n -> Segments] : \E ps :
        ps = [k \in 1..n |-> ps[k]] /\ patches' = Append(patches, ps) /\ segmented' = Append(segmented, cs)
  BY <1>2
<1>9. PICK ps :
        ps = [k \in 1..n |-> ps[k]] /\ patches' = Append(patches, ps) /\ segmented' = Append(segmented, cs)
  BY <1>3
<1>4. n \in Nat
  BY ConfTypes DEF EncInv, Types
<1>5. Len(ps) = n /\ Len(cs) = n
  BY <1>4, <1>9
<1>6. PICK l : l = Len(patches)
  OBVIOUS
<1>7. /\ l \in Nat /\ Len(patches') = l + 1 /\ patches'[l + 1] = ps /\ segmented'[l + 1] = cs
      /\ \A j \in 1..l : patches'[j] = patches[j] /\ segmented'[j] = segmented[j]
  BY <1>1, <1>6, <1>9
<1>8. ASSUME NEW i \in 0..(Len(patches') - 1)
      PROVE  Len(patches'[i + 1]) = Len(segmented'[i + 1])
  <2>1. CASE i = l
    BY <2>1, <1>5, <1>7
  <2>2. CASE i # l
    <3>1. i \in 0..(Len(patches) - 1) /\ i + 1 \in 1..l
      BY <2>2, <1>6, <1>7, <1>8
    <3> QED
      BY <3>1, <1>1, <1>7 DEF SegmentedMatches
  <2> QED
    BY <2>1, <2>2
<1> QED
  BY <1>1, <1>8 DEF SegmentedMatches

LEMMA SegmentedEnd ==
  ASSUME EncInv, SegmentedMatches, EndSegment
  PROVE  SegmentedMatches'
<1>1. /\ pc = "segment" /\ pc' \in {"adjust", "reverse"}
      /\ UNCHANGED <<conf, patches, segmented>>
  BY DEF EndSegment
<1>2. ASSUME NEW i \in 0..(Len(patches) - 1), NEW k \in 1..Len(patches[i + 1]),
             NEW p, p = patches[i + 1][k], p.match # Unmatched
      PROVE  p.match \in 0..(Len(segmented[tileIn(frameOf(i) - 1, i) + 1]) - 1)
  <2>1. conf \in Confs /\ i \in Nat /\ Types
    BY DEF EncInv, Types
  <2>2. IsReference(i, p)
    BY <1>1, <1>2 DEF EncInv, References, Settled
  <2>3. HasFrame(i, p) /\ p.ref = 0 /\ refExists(i, p)
    BY <2>2, <1>1 DEF IsReference, Mirrored
  <2>4. PICK j : j = refTile(i, p)
    OBVIOUS
  <2>5. p.ref \in Nat /\ p.ref + 1 = 1
    BY <2>3
  <2>6. j = tileIn(frameOf(i) - 1, i) /\ j \in Nat /\ j < i
    BY <2>1, <2>3, <2>4, <2>5, Reference
  <2>7. j \in 0..(Len(patches) - 1)
    BY <2>1, <2>6, <1>2
  <2>8. Len(patches[j + 1]) = Len(segmented[j + 1])
    BY <2>7, <1>1 DEF SegmentedMatches
  <2> QED
    BY <2>3, <2>4, <2>6, <2>8 DEF refExists
<1>3. \A i : tileIn(frameOf(i) - 1, i)' = tileIn(frameOf(i) - 1, i)
  BY <1>1 DEF tileIn, frameOf
<1> QED
  BY <1>1, <1>2, <1>3 DEF SegmentedMatches

LEMMA SegmentedAdjust ==
  ASSUME EncInv, SegmentedMatches, adjustReferenceAtlasFrame
  PROVE  SegmentedMatches'
<1>1. /\ pc = "adjust" /\ pc' = "adjust" /\ index' = index + 1
      /\ UNCHANGED <<conf, segmented>> /\ index < numTiles
      /\ \E qs : patches' = [patches EXCEPT ![index + 1] = qs]
  BY DEF adjustReferenceAtlasFrame
<1>2. /\ patches \in Seq(Seq(PatchSet)) /\ Len(patches) = numTiles
      /\ index \in Nat /\ numTiles \in Nat
  <2>1. Types /\ conf \in Confs
    BY DEF EncInv, Types
  <2> QED
    BY <2>1, <1>1, ConfTypes DEF Types
<1>3. PICK qs : patches' = [patches EXCEPT ![index + 1] = qs]
  BY <1>1
<1>4. Len(patches') = Len(patches)
  BY <1>2, <1>3
<1>5. ASSUME NEW i \in 0..(Len(patches) - 1), index + 1 <= i
      PROVE  patches'[i + 1] = patches[i + 1] /\ index <= i
  <2>1. i + 1 \in 1..Len(patches) /\ i + 1 # index + 1 /\ index <= i
    BY <1>2, <1>5
  <2> QED
    BY <2>1, <1>2, <1>3
<1>6. \A i : tileIn(frameOf(i) - 1, i)' = tileIn(frameOf(i) - 1, i)
  BY <1>1 DEF tileIn, frameOf
<1> QED
  BY <1>1, <1>4, <1>5, <1>6 DEF SegmentedMatches

\* A match whose patch is not there any more is in a tile that has lost them all.
LEMMA OutsideOnlyLost ==
  ASSUME EncInv, SegmentedMatches, AdjustOutside
  PROVE  /\ Adjusts /\ atlList = <<>> /\ frameOf(index) > 2
         /\ LostTile(tileIn(frameOf(index) - 1, index))
<1>1. /\ Types /\ Phases /\ Geometry /\ conf \in Confs /\ numTiles \in Nat /\ index \in Nat
      /\ pc = "adjust" /\ index < numTiles /\ Len(patches) = numTiles
      /\ patches \in Seq(Seq(PatchSet))
  <2>1. Types /\ Phases /\ Geometry /\ conf \in Confs /\ pc = "adjust" /\ index < numTiles
    BY DEF EncInv, Types, AdjustOutside
  <2> QED
    BY <2>1, ConfTypes DEF Types
<1>2. Adjusts /\ atlList = <<>> /\ index >= 2 * conf.tiles
  BY <1>1 DEF Phases
<1>3. frameOf(index) \in Nat /\ frameOf(index) >= 2
  <2>1. frameOf(index) \in Nat /\ (index < 2 * conf.tiles <=> frameOf(index) < 2)
    BY <1>1, FrameMonotone, FrameOf
  <2>2. ~(index < 2 * conf.tiles)
    BY <1>1, <1>2, ConfTypes
  <2> QED
    BY <2>1, <2>2
<1>4. PICK j : j = tileIn(frameOf(index) - 1, index)
  OBVIOUS
<1>5. j \in Nat /\ j < index /\ frameOf(j) = frameOf(index) - 1
  <2> DEFINE f == frameOf(index) - 1
  <2>1. f \in Nat /\ f < frameOf(index)
    BY <1>3
  <2> HIDE DEF f
  <2>2. tileIn(f, index) \in Nat /\ tileIn(f, index) < index /\ frameOf(tileIn(f, index)) = f
    BY <2>1, <1>1, TileIn
  <2> QED
    BY <2>2, <1>4 DEF f
<1>6. index \in 0..(Len(patches) - 1) /\ j + 1 \in 1..Len(patches) /\ (j + 1) - 1 = j
  BY <1>1, <1>5
<1>7. PICK k \in 1..Len(patches[index + 1]) :
        \E p \in {patches[index + 1][k]} : p.match # Unmatched /\ p.match >= Len(patches[j + 1])
  BY <1>4 DEF AdjustOutside
<1>8. PICK p : p = patches[index + 1][k]
  OBVIOUS
<1>9. p.match \in 0..(Len(segmented[j + 1]) - 1) /\ p.match >= Len(patches[j + 1])
  BY <1>1, <1>4, <1>6, <1>7, <1>8 DEF SegmentedMatches
<1>10. Len(patches[j + 1]) \in Nat
  <2> DEFINE S == Seq(PatchSet)
  <2>1. patches \in Seq(S)
    BY <1>1
  <2> HIDE DEF S
  <2>2. patches[j + 1] \in S
    BY <2>1, <1>6
  <2> QED
    BY <2>2 DEF S
<1>11. Len(segmented[j + 1]) \in Nat
  <2> DEFINE S == Seq(Components)
  <2>1. segmented \in Seq(S) /\ j + 1 \in 1..Len(segmented)
    BY <1>1, <1>6 DEF Types
  <2> HIDE DEF S
  <2>2. segmented[j + 1] \in S
    BY <2>1
  <2> QED
    BY <2>2 DEF S
<1>12. Len(patches[j + 1]) # Len(segmented[j + 1])
  <2> DEFINE a == Len(patches[j + 1])
             b == Len(segmented[j + 1])
             m == p.match
  <2>1. a \in Nat /\ b \in Nat /\ m \in 0..(b - 1) /\ m >= a
    BY <1>9, <1>10, <1>11
  <2> HIDE DEF a, b, m
  <2>2. a # b
    BY <2>1
  <2> QED
    BY <2>2 DEF a, b
<1>13. frameOf(j) >= 2 /\ patches[j + 1] = <<>>
  BY <1>1, <1>6, <1>12 DEF Geometry
<1>14. segmented[j + 1] # <<>>
  <2>1. Len(<<>>) = 0
    OBVIOUS
  <2> QED
    BY <2>1, <1>12, <1>13
<1> QED
  BY <1>2, <1>3, <1>4, <1>5, <1>13, <1>14 DEF LostTile

-----------------------------------------------------------------------------
(* The inductive invariant of both. *)

Inv ==
  /\ EncInv /\ SegmentedMatches /\ DecInv /\ OutsideOnlyLostOrMirrored
  /\ pc = "undefined" => decoded = <<>>

LEMMA InvInit == Init => Inv
<1> SUFFICES ASSUME Init PROVE Inv
  OBVIOUS
<1>1. EncInv
  BY EncInit
<1>2. DecInv
  BY DEF Init, DecInv
<1>3. OutsideOnlyLostOrMirrored /\ SegmentedMatches
  BY DEF Init, OutsideOnlyLostOrMirrored, SegmentedMatches
<1> QED
  BY <1>1, <1>2, <1>3 DEF Inv, Init

\* A patch is coded with a reference that is not there only when its match was
\* mirrored in the wrong frame.
LEMMA OutsideOnlyMirrored ==
  ASSUME EncInv, EncodeOutside
  PROVE  MirroredElsewhere /\ atlList # <<>> /\ Len(atlList) < numTiles
<1>1. /\ pc = "encode" /\ index < numTiles
      /\ \E k \in Inter(index) : ~refExists(index, patches[index + 1][k])
  BY DEF EncodeOutside
<1>2. PICK k \in 1..Len(patches[index + 1]) :
        patches[index + 1][k].match # Unmatched /\ ~refExists(index, patches[index + 1][k])
  BY <1>1 DEF Inter
<1>3. /\ Types /\ Phases /\ References /\ conf \in Confs /\ numTiles \in Nat /\ index \in Nat
  <2>1. Types /\ Phases /\ References /\ conf \in Confs
    BY DEF EncInv, Types
  <2> QED
    BY <2>1, ConfTypes DEF Types
<1>4. Len(atlList) = index /\ index \in 0..(Len(patches) - 1)
  BY <1>1, <1>3 DEF Types, Phases
<1>5. IsReference(index, patches[index + 1][k])
  BY <1>1, <1>2, <1>3, <1>4 DEF References, Settled
<1>6. index # 0
  <2> SUFFICES ASSUME index = 0 PROVE FALSE
    OBVIOUS
  <2> DEFINE p == patches[index + 1][k]
  <2>1. p.ref \in Nat
    BY <1>3, <1>4, PatchOf
  <2>2. HasFrame(index, p)
    BY <1>5 DEF IsReference
  <2> HIDE DEF p
  <2>3. refTile(index, p) \in Nat /\ refTile(index, p) < index
    BY <2>1, <2>2, <1>3, Reference
  <2> QED
    BY <2>3
<1>7. atlList # <<>>
  <2>1. Len(<<>>) = 0
    OBVIOUS
  <2> QED
    BY <2>1, <1>4, <1>6
<1> QED
  BY <1>1, <1>2, <1>4, <1>5, <1>7 DEF IsReference, Mirrored

LEMMA InvNext == Inv /\ [Next]_vars => Inv'
<1> SUFFICES ASSUME Inv, [Next]_vars PROVE Inv'
  OBVIOUS
<1>1. EncInv /\ SegmentedMatches /\ DecInv /\ OutsideOnlyLostOrMirrored
      /\ (pc = "undefined" => decoded = <<>>)
  BY DEF Inv
<1>2. EncInv'
  BY <1>1, EncStutter, EncSegment, EncEndSegment, EncAdjust, EncAdjustOutside, EncEndAdjust,
     EncReversePatches, EncEncodeTile, EncEncodeOutside, EncUpdateNaluInfo, EncDecodeTile DEF Next
<1>3. CASE UNCHANGED vars
  <2>1. UNCHANGED <<conf, pc, index, patches, segmented, atlList, decoded>>
    BY <1>3 DEF vars
  <2>2. \A j, t : TileDecoded(j, t)' = TileDecoded(j, t)
    BY <2>1 DEF TileDecoded, IsDecoded, frameOf, MirroredElsewhere, Adjusts, HasZero
  <2>3. DecInv'
    BY <1>1, <2>1, <2>2 DEF DecInv
  <2>4. OutsideOnlyLostOrMirrored'
    BY <1>1, <2>1 DEF OutsideOnlyLostOrMirrored, MirroredElsewhere, Adjusts, numTiles, LostTile,
                      tileIn, frameOf
  <2>5. SegmentedMatches'
    BY <1>1, <2>1 DEF SegmentedMatches, tileIn, frameOf
  <2> QED
    BY <1>1, <1>2, <2>1, <2>3, <2>4, <2>5 DEF Inv
<1>4. CASE EncodeOutside \/ AdjustOutside
  <2>1. /\ pc \in {"adjust", "encode"} /\ pc' = "undefined"
        /\ UNCHANGED <<conf, index, patches, segmented, decoded, atlList>>
    BY <1>4 DEF EncodeOutside, AdjustOutside
  <2>2. decoded = <<>>
    BY <1>1, <2>1 DEF EncInv, Phases
  <2>3. DecInv'
    BY <2>1, <2>2 DEF DecInv
  <2>4. \/ /\ Adjusts /\ atlList = <<>> /\ frameOf(index) > 2
           /\ LostTile(tileIn(frameOf(index) - 1, index))
        \/ MirroredElsewhere /\ atlList # <<>> /\ Len(atlList) < numTiles
    BY <1>1, <1>4, OutsideOnlyMirrored, OutsideOnlyLost
  <2>5. OutsideOnlyLostOrMirrored'
    BY <2>1, <2>4 DEF OutsideOnlyLostOrMirrored, MirroredElsewhere, Adjusts, numTiles, LostTile,
                      tileIn, frameOf
  <2>6. SegmentedMatches'
    BY <2>1 DEF SegmentedMatches
  <2> QED
    BY <1>2, <2>1, <2>2, <2>3, <2>5, <2>6 DEF Inv
<1>5. CASE DecodeTile
  <2>1. DecInv' /\ pc' = "decode"
    BY <1>1, <1>5, DecDecodeTile
  <2>2. SegmentedMatches' /\ OutsideOnlyLostOrMirrored'
    BY <2>1 DEF SegmentedMatches, OutsideOnlyLostOrMirrored
  <2> QED
    BY <1>2, <2>1, <2>2 DEF Inv
<1>6. CASE \/ Segment \/ EndSegment \/ adjustReferenceAtlasFrame \/ EndAdjust \/ ReversePatches
           \/ EncodeTile \/ UpdateNaluInfo
  <2>1. pc \in {"segment", "adjust", "reverse", "encode"} /\ pc' # "undefined" /\ decoded' = decoded
    BY <1>6 DEF Segment, EndSegment, adjustReferenceAtlasFrame, EndAdjust, ReversePatches,
                EncodeTile, UpdateNaluInfo
  <2>2. decoded = <<>>
    BY <1>1, <2>1 DEF EncInv, Phases
  <2>3. DecInv'
    BY <2>1, <2>2 DEF DecInv
  <2>4. SegmentedMatches'
    <3>1. CASE Segment \/ EndSegment \/ adjustReferenceAtlasFrame
      BY <3>1, <1>1, SegmentLengths, SegmentedEnd, SegmentedAdjust
    <3>2. CASE EndAdjust \/ ReversePatches \/ EncodeTile \/ UpdateNaluInfo
      <4>1. pc' \in {"reverse", "encode", "decode"}
        BY <3>2 DEF EndAdjust, ReversePatches, EncodeTile, UpdateNaluInfo
      <4> QED
        BY <4>1 DEF SegmentedMatches
    <3> QED
      BY <3>1, <3>2, <1>6
  <2>5. OutsideOnlyLostOrMirrored'
    BY <2>1 DEF OutsideOnlyLostOrMirrored
  <2> QED
    BY <1>2, <2>1, <2>3, <2>4, <2>5 DEF Inv
<1> QED
  BY <1>3, <1>4, <1>5, <1>6 DEF Next

\* The invariant that the theorems on the decoder follow from.
THEOREM Invariant == Spec => []Inv
  BY InvInit, InvNext, PTL DEF Spec

-----------------------------------------------------------------------------
(* What encoder and decoder agree on. *)

LEMMA InvDecoded ==
  ASSUME Inv, NEW i \in 1..Len(decoded)
  PROVE  \E x \in 0..(Len(patches) - 1) :
           /\ x + 1 = i /\ i - 1 = x /\ x \in Nat /\ i \in 1..Len(patches)
           /\ EncInv /\ pc = "decode" /\ Types /\ conf \in Confs /\ TileDecoded(x, decoded[i])
<1> DEFINE x == i - 1
<1>1. EncInv /\ Types /\ Phases /\ DecInv /\ conf \in Confs
  BY DEF Inv, EncInv, Types
<1>2. numTiles \in Nat /\ Len(decoded) \in Nat
  BY <1>1, ConfTypes DEF Types
<1>3. pc = "decode"
  <2>1. decoded # <<>>
    BY <1>2
  <2> QED
    BY <2>1, <1>1 DEF Phases, Inv
<1>4. Len(patches) = numTiles /\ Len(decoded) <= numTiles
  BY <1>1, <1>3 DEF Types, Phases
<1>5. /\ x \in 0..(Len(patches) - 1) /\ x + 1 = i /\ x \in Nat /\ i \in 1..Len(patches)
      /\ x \in 0..(Len(decoded) - 1)
  BY <1>2, <1>4
<1>6. TileDecoded(x, decoded[i])
  <2> HIDE DEF x
  <2> QED
    BY <1>1, <1>5 DEF DecInv
<1> HIDE DEF x
<1> QED
  BY <1>1, <1>3, <1>5, <1>6 DEF x

\* The frame of a decoded patch is the one its reference is in.
LEMMA PocIs ==
  ASSUME EncInv, pc = "decode", NEW i \in 0..(Len(patches) - 1),
         NEW k \in 1..Len(patches[i + 1]), NEW p, p = patches[i + 1][k], p.match # Unmatched,
         NEW q, IsDecoded(i, p, q)
  PROVE  tileIn(q.poc, i) = refTile(i, p) /\ IsMatched(i, p)
<1>1. IsMatched(i, p)
  BY CodedReference
<1>2. conf \in Confs /\ i \in Nat
  BY DEF EncInv, Types
<1>3. p.ref \in Nat /\ HasFrame(i, p)
  BY <1>1 DEF IsMatched, PatchSet
<1>4. refTile(i, p) = tileIn(frameOf(i) - (p.ref + 1), i)
  BY <1>2, <1>3, Reference
<1> QED
  BY <1>1, <1>4 DEF IsDecoded

\* Every decoded tile layer has the frame number and the tile number it was made
\* with, for any number of frames and of bits that calculateAFOCval has to restore.
THEOREM OrderCountIsKept == Spec => []OrderCountKept
<1>1. Inv => OrderCountKept
  <2> SUFFICES ASSUME Inv, NEW i \in 1..Len(decoded)
               PROVE  decoded[i].frame = frameOf(i - 1) /\ decoded[i].id = (i - 1) % conf.tiles
    BY DEF OrderCountKept
  <2> QED
    BY InvDecoded DEF TileDecoded
<1> QED
  BY <1>1, Invariant, PTL

\* The decoder predicts every patch from the patch, in the frame, that the encoder took
\* the differences to, for any number of tiles, patches and reference frames and
\* whatever is read behind the end of refAFOCList_.
THEOREM SameReferences == Spec => []ReferencesAgree
<1>1. Inv => ReferencesAgree
  <2> SUFFICES ASSUME Inv, NEW i \in 1..Len(decoded)
               PROVE  /\ Len(decoded[i].patches) = Len(patches[i])
                      /\ [k \in 1..Len(decoded[i].others) |-> decoded[i].others[k].kind] = conf.others
                      /\ \A k \in 1..Len(patches[i]) :
                           /\ decoded[i].patches[k].mode = patches[i][k].mode \/ MirroredElsewhere
                           /\ decoded[i].patches[k].match = patches[i][k].match
                           /\ patches[i][k].match # Unmatched =>
                                tileIn(decoded[i].patches[k].poc, i - 1) = refTile(i - 1, patches[i][k])
    BY DEF ReferencesAgree
  <2>1. PICK x \in 0..(Len(patches) - 1) :
           /\ x + 1 = i /\ i - 1 = x /\ x \in Nat /\ i \in 1..Len(patches)
           /\ EncInv /\ pc = "decode" /\ Types /\ conf \in Confs /\ TileDecoded(x, decoded[i])
    BY InvDecoded
  <2>2. /\ Len(decoded[i].patches) = Len(patches[i])
        /\ [k \in 1..Len(decoded[i].others) |-> decoded[i].others[k].kind] = conf.others
        /\ \A k \in 1..Len(patches[i]) : IsDecoded(x, patches[i][k], decoded[i].patches[k])
    BY <2>1 DEF TileDecoded
  <2>3. ASSUME NEW k \in 1..Len(patches[i])
        PROVE  /\ decoded[i].patches[k].mode = patches[i][k].mode \/ MirroredElsewhere
               /\ decoded[i].patches[k].match = patches[i][k].match
               /\ patches[i][k].match # Unmatched =>
                    tileIn(decoded[i].patches[k].poc, i - 1) = refTile(i - 1, patches[i][k])
    <3>1. PICK p : p = patches[i][k]
      OBVIOUS
    <3>2. PICK q : q = decoded[i].patches[k]
      OBVIOUS
    <3>3. IsDecoded(x, p, q) /\ p = patches[x + 1][k] /\ k \in 1..Len(patches[x + 1])
      BY <2>1, <2>2, <3>1, <3>2
    <3>4. p.match # Unmatched => tileIn(q.poc, x) = refTile(x, p)
      BY <2>1, <3>3, PocIs
    <3>5. (q.mode = p.mode \/ MirroredElsewhere) /\ q.match = p.match
      BY <3>3 DEF IsDecoded
    <3> QED
      BY <2>1, <3>1, <3>2, <3>4, <3>5
  <2> QED
    BY <2>2, <2>3
<1> QED
  BY <1>1, Invariant, PTL

\* D1 is decoded as it was encoded, for all bit depths and chains of predictions of any
\* length, but for what patchDataUnit cannot write: D1 = 0 against the normal axis.
THEOREM DepthIsKept == Spec => []DepthKept
<1>1. Inv => DepthKept
  <2> DEFINE Kept(i, p, q) ==
               /\ q.d1 = p.d1 \/ (p.mode = 1 /\ q.d1 = p.d1 + Pow2[BitDepth3D])
               /\ (\A j \in 1..i : \A l \in 1..Len(segmented[j]) : ~AtZero(segmented[j][l]))
                    => q.d1 = p.d1
  <2> SUFFICES ASSUME Inv, ~MirroredElsewhere, NEW i \in 1..Len(decoded),
                      NEW k \in 1..Min2(Len(decoded[i].patches), Len(patches[i])),
                      NEW p, p = patches[i][k], NEW q, q = decoded[i].patches[k]
               PROVE  Kept(i, p, q)
    <3>1. DepthKept = (~MirroredElsewhere => \A y \in DecodedPatches :
                         Kept(y[1], patches[y[1]][y[2]], decoded[y[1]].patches[y[2]]))
      BY DEF DepthKept
    <3> HIDE DEF Kept
    <3>2. \A y \in DecodedPatches :
            /\ y[1] \in 1..Len(decoded)
            /\ y[2] \in 1..Min2(Len(decoded[y[1]].patches), Len(patches[y[1]]))
      BY DEF DecodedPatches
    <3> QED
      BY <3>1, <3>2
  <2>1. PICK x \in 0..(Len(patches) - 1) :
           /\ x + 1 = i /\ i - 1 = x /\ x \in Nat /\ i \in 1..Len(patches)
           /\ EncInv /\ pc = "decode" /\ Types /\ conf \in Confs /\ TileDecoded(x, decoded[i])
    BY InvDecoded
  <2>2. k \in 1..Len(patches[i])
    BY <2>1 DEF TileDecoded, Min2
  <2>3. IsDecoded(x, p, q)
    BY <2>1, <2>2 DEF TileDecoded
  <2>4. PICK v \in {0, 1} : /\ q.d1 = p.d1 + v * Pow2[BitDepth3D]
                            /\ v = 1 => p.mode = 1 /\ HasZero(x)
    BY <2>3 DEF IsDecoded
  <2> DEFINE d == p.d1
             b == Pow2[BitDepth3D]
  <2>5. d \in Nat /\ b \in Nat
    <3>1. d \in Nat
      BY <2>1, <2>2, PatchOf
    <3>2. b \in Nat
      BY Powers
    <3> QED
      BY <3>1, <3>2
  <2>6. HasZero(x) => \E j \in 1..i : \E l \in 1..Len(segmented[j]) : AtZero(segmented[j][l])
    BY <2>1 DEF HasZero
  <2> HIDE DEF d, b
  <2>7. d + 0 * b = d /\ d + 1 * b = d + b
    BY <2>5
  <2> QED
    BY <2>4, <2>6, <2>7 DEF d, b
<1> QED
  BY <1>1, Invariant, PTL

\* SizeD is decoded as the encoder assumed it: neither the bounds the encoder applies
\* nor the size_t of the decoder ever make a difference.
THEOREM SizeIsKept == Spec => []SizeKept
<1>1. Inv => SizeKept
  <2> SUFFICES ASSUME Inv, NEW i \in 1..Len(decoded),
                      NEW k \in 1..Min2(Len(decoded[i].patches), Len(patches[i]))
               PROVE  decoded[i].patches[k].sizeD = patches[i][k].sizeD
    BY DEF SizeKept, DecodedPatches
  <2>1. PICK x \in 0..(Len(patches) - 1) :
           /\ x + 1 = i /\ i - 1 = x /\ x \in Nat /\ i \in 1..Len(patches)
           /\ EncInv /\ pc = "decode" /\ Types /\ conf \in Confs /\ TileDecoded(x, decoded[i])
    BY InvDecoded
  <2>2. k \in 1..Len(patches[i])
    BY <2>1 DEF TileDecoded, Min2
  <2> QED
    BY <2>1, <2>2 DEF TileDecoded, IsDecoded
<1> QED
  BY <1>1, Invariant, PTL

\* No patch is predicted from a tile layer that was sent as NAL_TRAIL_N.
THEOREM NonReferencesUnused == Spec => []NonReferenceUnused
<1>1. Inv => NonReferenceUnused
  <2> SUFFICES ASSUME Inv, NEW i \in 1..Len(decoded), NEW k \in 1..Len(decoded[i].patches),
                      NEW q, q = decoded[i].patches[k], q.match # Unmatched
               PROVE  atlList[tileIn(q.poc, i - 1) + 1].header.nalu # 2
    BY DEF NonReferenceUnused
  <2>1. PICK x \in 0..(Len(patches) - 1) :
           /\ x + 1 = i /\ i - 1 = x /\ x \in Nat /\ i \in 1..Len(patches)
           /\ EncInv /\ pc = "decode" /\ Types /\ conf \in Confs /\ TileDecoded(x, decoded[i])
    BY InvDecoded
  <2>2. PICK p : p = patches[x + 1][k]
    OBVIOUS
  <2>3. k \in 1..Len(patches[x + 1]) /\ IsDecoded(x, p, q)
    BY <2>1, <2>2 DEF TileDecoded
  <2>4. p.match # Unmatched
    BY <2>3 DEF IsDecoded
  <2> DEFINE t == refTile(x, p)
  <2>5. tileIn(q.poc, x) = t /\ IsMatched(x, p)
    BY <2>1, <2>2, <2>3, <2>4, PocIs
  <2>6. t \in referred /\ t \in 0..(Len(patches) - 1)
    BY <2>5 DEF IsMatched, IsCoded
  <2> HIDE DEF t
  <2>7. LayerCoded(t)
    BY <2>1, <2>6 DEF EncInv, Types, Phases, Coded
  <2>8. PICK nalu : atlList[t + 1] = Layer(t, nalu) /\ (nalu = 2 => t \notin referred)
    BY <2>7 DEF LayerCoded
  <2>9. atlList[t + 1].header.nalu = nalu
    <3>1. atlList[t + 1].header = [Header(t) EXCEPT !.nalu = nalu]
      BY <2>8 DEF Layer
    <3> QED
      BY <3>1 DEF Header
  <2> QED
    BY <2>1, <2>5, <2>6, <2>8, <2>9
<1> QED
  BY <1>1, Invariant, PTL

\* A tile is decoded with all its patches or, when adjustReferenceAtlasFrames found no
\* reference for any of them, with none.
THEOREM OnlyWholeTilesLost == Spec => []LostOnlyWhole
<1>1. Inv => LostOnlyWhole
  <2> SUFFICES ASSUME Inv, NEW i \in 1..Len(decoded), Len(decoded[i].patches) # Len(segmented[i])
               PROVE  Adjusts /\ frameOf(i - 1) >= 2 /\ decoded[i].patches = <<>>
    BY DEF LostOnlyWhole
  <2>1. PICK x \in 0..(Len(patches) - 1) :
           /\ x + 1 = i /\ i - 1 = x /\ x \in Nat /\ i \in 1..Len(patches)
           /\ EncInv /\ pc = "decode" /\ Types /\ conf \in Confs /\ TileDecoded(x, decoded[i])
    BY InvDecoded
  <2>2. Len(decoded[i].patches) = Len(patches[i]) /\ \E S : decoded[i].patches \in Seq(S)
    BY <2>1 DEF TileDecoded
  <2>3. Adjusts /\ frameOf(i - 1) >= 2 /\ patches[i] = <<>>
    BY <2>1, <2>2 DEF EncInv, Geometry
  <2> QED
    BY <2>2, <2>3
<1> QED
  BY <1>1, Invariant, PTL

\* A patch that does not exist is never read by the decoder, and by the encoder only in
\* a tile that adjustReferenceAtlasFrames has emptied, or when patchPrecedenceOrder has
\* mirrored a match in the wrong one of several reference frames.
THEOREM ReadsOutsideOnlyLostOrMirrored == Spec => []OutsideOnlyLostOrMirrored
<1>1. Inv => OutsideOnlyLostOrMirrored
  BY DEF Inv
<1> QED
  BY <1>1, Invariant, PTL
=============================================================================
