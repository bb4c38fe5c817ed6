------------------------ MODULE VideoBitstreamProofs ------------------------
(***************************************************************************)
(* Proofs about VideoBitstream: for videos of any number of NAL units of   *)
(* any bytes a codec may produce, the way to a byte stream and back loses  *)
(* nothing, whichever start codes the units get.                           *)
(***************************************************************************)
EXTENDS VideoBitstream, InductionLemmas, SequenceTheorems, TLAPS

-----------------------------------------------------------------------------
(* The inductive invariant. *)

\* What a byte stream holds; of the bytes only that they are numbers is needed.
Bytes == Nat

\* The first k NAL units behind their sizes, and behind start codes.
SampleUnits(k) == [i \in 1..k |-> SizeBytes(Len(nalus[i])) \o nalus[i]]
ByteUnits(codes, k) == [i \in 1..k |-> StartCode(codes[i]) \o nalus[i]]

\* AVC, in which a NAL unit may have one byte, has long start codes only.
IsCode(c) == c = 4 \/ (c = 3 /\ codec # "avc")

Types ==
  /\ codec \in {"avc", "hevc", "vvc"}
  /\ nalus \in Seq(Seq(Bytes)) /\ nalus # <<>>
  /\ \A k \in 1..Len(nalus) :
       /\ NalUnitOf(codec, nalus[k])
       /\ Len(nalus[k]) < Pow2[8 * Precision]
  /\ IsCode(sizeStartCode)
  /\ pc \in {"toByte", "toSample", "done"}

\* sampleStreamToByteStream has gone past k units, which ended at e[k].
ToByte(k, codes, e) ==
  /\ \A i \in 1..k : IsCode(codes[i])
  /\ AreParts(SampleUnits(Len(nalus)), data_, e)
  /\ startIndex = e[k]
  /\ data = FlattenSeq(ByteUnits(codes, k))

\* byteStreamToSampleStream has gone past k units, which ended at e[k].
ToSample(k, codes, e) ==
  /\ \A i \in 1..Len(nalus) : IsCode(codes[i])
  /\ AreParts(ByteUnits(codes, Len(nalus)), data_, e)
  /\ startIndex = e[k]
  /\ data = FlattenSeq(SampleUnits(k))

IInv ==
  /\ Types
  /\ data_ \in Seq(Bytes)
  /\ pc = "toByte" =>
       \E k \in 0..(Len(nalus) - 1) : \E codes \in [1..k -> Nat] :
       \E e \in [0..Len(nalus) -> Nat] : ToByte(k, codes, e)
  /\ pc = "toSample" =>
       \E k \in 0..(Len(nalus) - 1) : \E codes \in [1..Len(nalus) -> Nat] :
       \E e \in [0..Len(nalus) -> Nat] : ToSample(k, codes, e)
  /\ RoundTrip

-----------------------------------------------------------------------------
(* Sizes, start codes and units. *)

LEMMA SizeBytesType ==
  ASSUME NEW n \in Nat
  PROVE  SizeBytes(n) \in Seq(Bytes) /\ Len(SizeBytes(n)) = Precision
<1> DEFINE bits == 8
<1>1. Precision \in Nat /\ bits \in Nat
  BY VideoBitstreamAssumption
<1>2. SizeBytes(n) = Digits(n, Precision, bits)
  BY DEF SizeBytes
<1> HIDE DEF bits
<1> QED
  BY <1>1, <1>2, DigitsType DEF Bytes

LEMMA SizeOfSizeBytes ==
  ASSUME NEW n \in Nat, n < Pow2[8 * Precision]
  PROVE  SizeOf(SizeBytes(n)) = n
<1> DEFINE bits == 8
           m == Pow2[bits * Precision]
<1>1. Precision \in Nat /\ bits \in Nat /\ n < m
  BY VideoBitstreamAssumption
<1>2. SizeOf(SizeBytes(n)) = Number(Digits(n, Precision, bits), bits)
  BY DEF SizeBytes, SizeOf
<1>3. m \in Nat
  <2>1. bits * Precision \in Nat
    BY <1>1
  <2> QED
    BY <2>1, Pow2Positive
<1> HIDE DEF bits
<1>4. SizeOf(SizeBytes(n)) = n % m
  BY <1>1, <1>2, NumberOfDigits
<1> HIDE DEF m
<1>5. n % m = n
  BY <1>1, <1>3
<1> QED
  BY <1>4, <1>5

LEMMA StartCodeType ==
  ASSUME NEW c \in Nat
  PROVE  /\ StartCode(c) \in Seq(Bytes) /\ Len(StartCode(c)) = c
         /\ \A i \in 1..c : StartCode(c)[i] = IF i = c THEN 1 ELSE 0
BY DEF StartCode, Bytes

LEMMA NaluType ==
  ASSUME Types, NEW k \in 1..Len(nalus)
  PROVE  nalus[k] \in Seq(Bytes) /\ Len(nalus[k]) \in Nat /\ Len(nalus[k]) >= 1
<1>1. nalus[k] \in Seq(Bytes)
  BY DEF Types
<1>2. NalUnitOf(codec, nalus[k])
  BY DEF Types
<1>3. Len(nalus[k]) \in Nat
  BY <1>1
<1> QED
  BY <1>1, <1>2, <1>3 DEF NalUnitOf

LEMMA ConcatBytes ==
  \A a, b \in Seq(Bytes) :
    /\ a \o b \in Seq(Bytes) /\ Len(a \o b) = Len(a) + Len(b)
    /\ \A i \in 1..Len(a) : (a \o b)[i] = a[i]
    /\ \A i \in 1..Len(b) : (a \o b)[Len(a) + i] = b[i]
BY ConcatElements

LEMMA SampleUnitType ==
  ASSUME Types, NEW n \in 0..Len(nalus)
  PROVE  /\ SampleUnits(n) \in Seq(Seq(Bytes)) /\ Len(SampleUnits(n)) = n
         /\ \A k \in 1..n : LET u == SampleUnits(n)[k] IN
              /\ u = SizeBytes(Len(nalus[k])) \o nalus[k]
              /\ Len(u) = Precision + Len(nalus[k])
              /\ \A i \in 1..Precision : u[i] = SizeBytes(Len(nalus[k]))[i]
              /\ \A i \in 1..Len(nalus[k]) : u[Precision + i] = nalus[k][i]
<1> DEFINE v(k) == SizeBytes(Len(nalus[k])) \o nalus[k]
<1>0. Len(nalus) \in Nat /\ n \in Nat
  BY DEF Types
<1>1. ASSUME NEW k \in 1..n
      PROVE  /\ v(k) \in Seq(Bytes)
             /\ Len(v(k)) = Precision + Len(nalus[k])
             /\ \A i \in 1..Precision : v(k)[i] = SizeBytes(Len(nalus[k]))[i]
             /\ \A i \in 1..Len(nalus[k]) : v(k)[Precision + i] = nalus[k][i]
  <2> DEFINE a == SizeBytes(Len(nalus[k]))
             b == nalus[k]
  <2>1. k \in 1..Len(nalus)
    BY <1>0
  <2>2. b \in Seq(Bytes) /\ Len(b) \in Nat
    BY <2>1, NaluType
  <2>3. a \in Seq(Bytes) /\ Len(a) = Precision
    BY <2>2, SizeBytesType
  <2> HIDE DEF a, b
  <2>4. /\ a \o b \in Seq(Bytes) /\ Len(a \o b) = Len(a) + Len(b)
        /\ \A i \in 1..Len(a) : (a \o b)[i] = a[i]
        /\ \A i \in 1..Len(b) : (a \o b)[Len(a) + i] = b[i]
    BY <2>2, <2>3, ConcatBytes
  <2>5. v(k) = a \o b
    BY DEF a, b
  <2> HIDE DEF v
  <2> QED
    BY <2>3, <2>4, <2>5 DEF a, b
<1>2. SampleUnits(n) = [k \in 1..n |-> v(k)]
  BY DEF SampleUnits
<1>3. \A k \in 1..n : v(k) = SizeBytes(Len(nalus[k])) \o nalus[k]
  OBVIOUS
<1> HIDE DEF v
<1>4. SampleUnits(n) \in Seq(Seq(Bytes)) /\ Len(SampleUnits(n)) = n /\ \A k \in 1..n : SampleUnits(n)[k] = v(k)
  BY <1>0, <1>1, <1>2
<1> QED
  BY <1>1, <1>3, <1>4

\* The bytes v are the NAL unit u behind a start code of c bytes.
IsByteUnit(v, c, u) ==
  /\ v = StartCode(c) \o u
  /\ Len(v) = c + Len(u)
  /\ \A i \in 1..c : v[i] = StartCode(c)[i]
  /\ \A i \in 1..Len(u) : v[c + i] = u[i]

LEMMA ByteUnitType ==
  ASSUME Types, NEW n \in 0..Len(nalus), NEW codes, \A i \in 1..n : codes[i] \in Nat
  PROVE  /\ ByteUnits(codes, n) \in Seq(Seq(Bytes)) /\ Len(ByteUnits(codes, n)) = n
         /\ \A k \in 1..n : IsByteUnit(ByteUnits(codes, n)[k], codes[k], nalus[k])
<1> DEFINE v(k) == StartCode(codes[k]) \o nalus[k]
<1>0. Len(nalus) \in Nat /\ n \in Nat
  BY DEF Types
<1>1. ASSUME NEW k \in 1..n
      PROVE  v(k) \in Seq(Bytes) /\ IsByteUnit(v(k), codes[k], nalus[k])
  <2> DEFINE c == codes[k]
             a == StartCode(c)
             b == nalus[k]
  <2>1. k \in 1..Len(nalus) /\ c \in Nat
    BY <1>0
  <2>2. b \in Seq(Bytes) /\ Len(b) \in Nat
    BY <2>1, NaluType
  <2>5. v(k) = a \o b
    OBVIOUS
  <2> HIDE DEF b, c, v
  <2>3. a \in Seq(Bytes) /\ Len(a) = c
    BY <2>1, StartCodeType
  <2> HIDE DEF a
  <2>4. /\ a \o b \in Seq(Bytes) /\ Len(a \o b) = Len(a) + Len(b)
        /\ \A i \in 1..Len(a) : (a \o b)[i] = a[i]
        /\ \A i \in 1..Len(b) : (a \o b)[Len(a) + i] = b[i]
    BY <2>2, <2>3, ConcatBytes
  <2>6. IsByteUnit(v(k), c, b)
    BY <2>3, <2>4, <2>5 DEF a, IsByteUnit
  <2> QED
    BY <2>4, <2>5, <2>6 DEF b, c
<1>2. ByteUnits(codes, n) = [k \in 1..n |-> v(k)]
  BY DEF ByteUnits
<1> HIDE DEF v
<1>4. ByteUnits(codes, n) \in Seq(Seq(Bytes)) /\ Len(ByteUnits(codes, n)) = n /\ \A k \in 1..n : ByteUnits(codes, n)[k] = v(k)
  BY <1>0, <1>1, <1>2
<1> QED
  BY <1>1, <1>4

LEMMA SampleStreamIsUnits ==
  ASSUME Types
  PROVE  SampleStream(nalus) = FlattenSeq(SampleUnits(Len(nalus)))
<1>1. DOMAIN nalus = 1..Len(nalus)
  BY DEF Types
<1> QED
  BY <1>1 DEF SampleStream, SampleUnits

-----------------------------------------------------------------------------
(* The steps. *)

LEMMA InitIInv == Init => IInv
<1> SUFFICES ASSUME Init PROVE IInv
  OBVIOUS
<1>1. PICK n \in 1..MaxNalus : nalus \in [1..n -> {u \in NalUnits : NalUnitOf(codec, u)}]
  BY DEF Init
<1>2. n \in Nat /\ n >= 1 /\ Precision \in Nat /\ Precision >= 1
  BY VideoBitstreamAssumption
<1>3. ASSUME NEW u \in NalUnits PROVE u \in Seq(Bytes) /\ Len(u) < Pow2[8 * Precision]
  <2>1. u \in Seq(0..255)
    BY VideoBitstreamAssumption
  <2>2. u \in Seq(Bytes) /\ Len(u) \in Nat
    <3> DEFINE S == 0..255
    <3>1. u \in Seq(S) /\ S \subseteq Bytes
      BY <2>1 DEF Bytes
    <3> HIDE DEF S
    <3> QED
      BY <3>1, SeqMonotonic
  <2> DEFINE L == Len(u)
             x == 8 * (Precision - 1)
             b == Pow2[x]
             c == Pow2[8]
             q == L \div b
             r == L % b
  <2>3. x \in Nat /\ 8 \in Nat /\ 8 * Precision = x + 8
    BY <1>2
  <2>4. q < c
    BY SizeAssumption
  <2> HIDE DEF x
  <2>5. Pow2[x + 8] = b * c /\ b \in Nat /\ b > 0 /\ c \in Nat
    <3> DEFINE y == 8
    <3>1. y \in Nat
      OBVIOUS
    <3> HIDE DEF y
    <3>2. Pow2[x + y] = Pow2[x] * Pow2[y] /\ Pow2[x] \in Nat /\ Pow2[x] >= 1 /\ Pow2[y] \in Nat
      BY <3>1, <2>3, Pow2Add, Pow2Positive
    <3> QED
      BY <3>2 DEF y
  <2> HIDE DEF b, c, L
  <2>6. q \in Nat /\ r \in 0..(b - 1) /\ L = (q * b) + r
    BY <2>2, <2>5, Division DEF L
  <2> HIDE DEF q, r
  <2>7. L < b * c
    <3> DEFINE d == (c - q) - 1
    <3>1. d \in Nat /\ c = q + 1 + d
      BY <2>4, <2>5, <2>6
    <3> HIDE DEF d
    <3>2. b * c = q * b + b + b * d /\ b * d \in Nat /\ q * b \in Nat
      BY <3>1, <2>5, <2>6
    <3> DEFINE s == q * b
               t == b * d
               v == b * c
    <3>3. v = s + b + t /\ s \in Nat /\ t \in Nat /\ L = s + r
      BY <3>2, <2>6
    <3> HIDE DEF s, t, v
    <3>4. L < v
      BY <3>3, <2>5, <2>6
    <3> QED
      BY <3>4 DEF v
  <2> QED
    BY <2>2, <2>3, <2>5, <2>7 DEF L
<1>4. nalus \in [1..n -> Seq(Bytes)] /\ \A k \in 1..n : NalUnitOf(codec, nalus[k]) /\ Len(nalus[k]) < Pow2[8 * Precision]
  BY <1>1, <1>3
<1>5. nalus \in Seq(Seq(Bytes)) /\ Len(nalus) = n /\ nalus # <<>>
  <2> DEFINE S == Seq(Bytes)
  <2>1. nalus \in [1..n -> S]
    BY <1>4
  <2> HIDE DEF S
  <2>2. nalus \in Seq(S) /\ Len(nalus) = n
    BY <2>1, <1>2
  <2> QED
    BY <2>2, <1>2 DEF S
<1>6. Types
  BY <1>4, <1>5, VideoBitstreamAssumption DEF Init, Types, IsCode
<1> DEFINE ss == SampleUnits(Len(nalus))
<1>7. ss \in Seq(Seq(Bytes)) /\ Len(ss) = n /\ ss # <<>>
  <2>1. Len(nalus) \in 0..Len(nalus)
    BY <1>2, <1>5
  <2>2. ss \in Seq(Seq(Bytes)) /\ Len(ss) = n
    BY <2>1, <1>5, <1>6, SampleUnitType
  <2> HIDE DEF ss
  <2> QED
    BY <2>2, <1>2
<1>8. data_ = FlattenSeq(ss)
  BY <1>6, SampleStreamIsUnits DEF Init
<1> HIDE DEF ss
<1>9. data_ \in Seq(Bytes)
  BY <1>7, <1>8, FlattenType
<1>10. PICK e \in [0..n -> Nat] : AreParts(ss, data_, e)
  BY <1>7, <1>8, FlattenParts
<1> DEFINE none == <<>>
           zero == 0
<1>11. none \in [1..zero -> Nat] /\ zero \in 0..(Len(nalus) - 1)
  BY <1>2, <1>5
<1>12. FlattenSeq(ByteUnits(none, zero)) = <<>>
  <2>1. ByteUnits(none, zero) = <<>>
    BY DEF ByteUnits
  <2> QED
    BY <2>1 DEF FlattenSeq
<1>13. ToByte(zero, none, e)
  <2>1. startIndex = e[zero]
    BY <1>10 DEF AreParts, Init
  <2>2. data = FlattenSeq(ByteUnits(none, zero))
    BY <1>12 DEF Init
  <2> QED
    BY <2>1, <2>2, <1>10 DEF ToByte, ss
<1> HIDE DEF none, zero
<1>14. pc = "toByte"
  BY DEF Init
<1> QED
  BY <1>5, <1>6, <1>9, <1>11, <1>13, <1>14 DEF IInv, RoundTrip

LEMMA StutterIInv == IInv /\ UNCHANGED vars => IInv'
<1> SUFFICES ASSUME IInv, UNCHANGED vars PROVE IInv'
  OBVIOUS
<1> USE DEF vars
<1>1. Types' /\ (data_ \in Seq(Bytes))' /\ RoundTrip'
  BY DEF IInv, Types, RoundTrip, IsCode
<1>2. \A k, codes, e : ToByte(k, codes, e)' = ToByte(k, codes, e)
  BY DEF ToByte, IsCode, SampleUnits, ByteUnits
<1>3. \A k, codes, e : ToSample(k, codes, e)' = ToSample(k, codes, e)
  BY DEF ToSample, IsCode, SampleUnits, ByteUnits
<1> QED
  BY <1>1, <1>2, <1>3 DEF IInv

\* The sequence u is found in p behind a elements.
Inside(p, a, u) == a + Len(u) <= Len(p) /\ \A i \in 1..Len(u) : p[a + i] = u[i]

\* The sequence u is inside of the part ss[h] of d, and begins behind d[m].
IsSlice(ss, d, e, h, a, u, m) ==
  /\ ss \in Seq(Seq(Bytes)) /\ d \in Seq(Bytes) /\ e \in [0..Len(ss) -> Nat]
  /\ AreParts(ss, d, e)
  /\ h \in 1..Len(ss) /\ a \in Nat /\ u \in Seq(Bytes) /\ Inside(ss[h], a, u)
  /\ m = e[h - 1] + a

\* What lies inside of one of the parts of d is found in d.
LEMMA PartSlice ==
  \A ss, d, e, h, a, u, m : IsSlice(ss, d, e, h, a, u, m) => SubSeq(d, m + 1, m + Len(u)) = u
<1> SUFFICES ASSUME NEW ss, NEW d, NEW e, NEW h, NEW a, NEW u, NEW m, IsSlice(ss, d, e, h, a, u, m)
             PROVE  SubSeq(d, m + 1, m + Len(u)) = u
  OBVIOUS
<1>0. /\ ss \in Seq(Seq(Bytes)) /\ d \in Seq(Bytes) /\ e \in [0..Len(ss) -> Nat]
      /\ AreParts(ss, d, e)
      /\ h \in 1..Len(ss) /\ a \in Nat /\ u \in Seq(Bytes) /\ Inside(ss[h], a, u)
      /\ m = e[h - 1] + a
  BY DEF IsSlice
<1> DEFINE x == e[h - 1]
           y == Len(ss[h])
           n == Len(u)
<1>1. x \in Nat /\ y \in Nat /\ n \in Nat /\ a + n <= y /\ Len(d) \in Nat
  <2>1. h - 1 \in 0..Len(ss)
    BY <1>0
  <2>2. ss[h] \in Seq(Bytes)
    BY <1>0
  <2>3. x \in Nat
    BY <2>1, <1>0
  <2>4. y \in Nat
    BY <2>2
  <2>5. a + n <= y
    BY <1>0 DEF Inside
  <2> QED
    BY <2>3, <2>4, <2>5, <1>0
<1>2. x + y <= Len(d) /\ \A i \in 1..y : d[x + i] = ss[h][i]
  BY <1>0 DEF AreParts
<1>3. m = x + a /\ \A i \in 1..n : ss[h][a + i] = u[i]
  BY <1>0 DEF Inside
<1> HIDE DEF x, y, n
<1>4. m \in Nat /\ m + n <= Len(d)
  <2> DEFINE l == Len(d)
  <2>1. a \in Nat /\ l \in Nat /\ x + y <= l
    BY <1>0, <1>1, <1>2
  <2> HIDE DEF l
  <2>2. m \in Nat /\ m + n <= l
    BY <2>1, <1>1, <1>3
  <2> QED
    BY <2>2 DEF l
<1>5. ASSUME NEW i \in 1..n PROVE d[m + i] = u[i]
  <2>1. a + i \in 1..y /\ x + (a + i) = m + i
    BY <1>0, <1>1, <1>3
  <2> QED
    BY <2>1, <1>2, <1>3
<1> QED
  BY <1>0, <1>4, <1>5, SubSeqElements DEF n

\* Parts that are not empty end before the end, but for the last.
LEMMA PartEnds ==
  ASSUME NEW S, NEW ss \in Seq(Seq(S)), NEW d \in Seq(S), NEW e \in [0..Len(ss) -> Nat],
         AreParts(ss, d, e), \A k \in 1..Len(ss) : Len(ss[k]) >= 1,
         NEW h \in 1..Len(ss)
  PROVE  /\ e[h] < Len(d) <=> h < Len(ss)
         /\ h = Len(ss) => e[h] = Len(d)
         /\ h < Len(ss) => e[h] + Len(ss[h + 1]) <= Len(d)
<1> DEFINE n == Len(ss)
<1>1. n \in Nat /\ Len(d) \in Nat /\ e[n] = Len(d) /\ e[h] \in Nat
  <2>1. n \in Nat /\ Len(d) \in Nat
    OBVIOUS
  <2>2. e[n] = Len(d)
    BY DEF AreParts
  <2>3. h \in 0..Len(ss)
    BY <2>1
  <2> QED
    BY <2>1, <2>2, <2>3
<1>2. CASE h = n
  BY <1>1, <1>2
<1>3. CASE h < n
  <2> DEFINE g == h + 1
             y == Len(ss[g])
  <2>1. g \in 1..n /\ g - 1 = h
    BY <1>1, <1>3
  <2>2. y \in Nat /\ y >= 1
    <3> HIDE DEF g
    <3>1. ss[g] \in Seq(S)
      BY <2>1
    <3> QED
      BY <3>1, <2>1
  <2>3. e[h] + y <= Len(d)
    <3> HIDE DEF g
    <3> QED
      BY <2>1 DEF AreParts
  <2> HIDE DEF y
  <2>4. e[h] < Len(d)
    BY <2>2, <2>3, <1>1
  <2> QED
    BY <2>3, <2>4, <1>1, <1>3 DEF y
<1> QED
  BY <1>1, <1>2, <1>3

\* A unit in front of which sampleStreamToByteStream stands.
LEMMA SampleUnitAt ==
  ASSUME Types, data_ \in Seq(Bytes),
         NEW k \in 0..(Len(nalus) - 1), NEW codes, NEW e \in [0..Len(nalus) -> Nat],
         ToByte(k, codes, e)
  PROVE  /\ startIndex \in Nat
         /\ SizeOf(Slice(startIndex, startIndex + Precision)) = Len(nalus[k + 1])
         /\ Slice(startIndex + Precision, startIndex + Precision + Len(nalus[k + 1])) = nalus[k + 1]
         /\ e[k + 1] = startIndex + Precision + Len(nalus[k + 1])
         /\ e[k + 1] < Len(data_) <=> k + 1 < Len(nalus)
<1> DEFINE n == Len(nalus)
           h == k + 1
           ss == SampleUnits(n)
           u == nalus[h]
           z == SizeBytes(Len(u))
<1>1. n \in Nat /\ n >= 1 /\ n \in 0..n
  BY DEF Types
<1>2. h \in 1..n /\ h - 1 = k
  BY <1>1
<1>3. Precision \in Nat /\ Precision >= 1
  BY VideoBitstreamAssumption
<1>4. AreParts(ss, data_, e) /\ startIndex = e[k]
  BY DEF ToByte
<1>5. /\ ss \in Seq(Seq(Bytes)) /\ Len(ss) = n
      /\ \A j \in 1..n : Len(ss[j]) = Precision + Len(nalus[j])
      /\ \A i \in 1..Precision : ss[h][i] = z[i]
      /\ \A i \in 1..Len(u) : ss[h][Precision + i] = u[i]
  <2> HIDE DEF n, h
  <2> QED
    BY <1>1, <1>2, SampleUnitType DEF n
<1> HIDE DEF ss, h
<1>6. \A j \in 1..n : Len(ss[j]) >= 1
  <2> SUFFICES ASSUME NEW j \in 1..n PROVE Len(ss[j]) >= 1
    OBVIOUS
  <2>1. Len(nalus[j]) \in Nat
    BY NaluType
  <2> QED
    BY <2>1, <1>3, <1>5
<1>7. u \in Seq(Bytes) /\ Len(u) \in Nat /\ Len(u) < Pow2[8 * Precision]
  BY <1>2, NaluType DEF Types
<1>8. z \in Seq(Bytes) /\ Len(z) = Precision /\ SizeOf(z) = Len(u)
  <2> HIDE DEF u
  <2> QED
    BY <1>7, SizeBytesType, SizeOfSizeBytes
<1> HIDE DEF u, z, n
<1>9. e \in [0..Len(ss) -> Nat] /\ h \in 1..Len(ss)
  BY <1>2, <1>5 DEF n
<1>S. ss \in Seq(Seq(Bytes)) /\ data_ \in Seq(Bytes) /\ AreParts(ss, data_, e)
  BY <1>4, <1>5
<1>10. e[k] \in Nat
  BY <1>1 DEF n
<1>11. Slice(e[k], e[k] + Precision) = z
  <2> DEFINE a == 0
             m == e[k]
  <2>1. a \in Nat /\ a + Len(z) <= Len(ss[h]) /\ \A i \in 1..Len(z) : a + i = i
    <3>1. Len(ss[h]) = Precision + Len(u)
      BY <1>2, <1>5 DEF u
    <3> QED
      BY <3>1, <1>3, <1>7, <1>8
  <2>2. Inside(ss[h], a, z)
    BY <2>1, <1>5, <1>8 DEF Inside
  <2>3. m = e[h - 1] + a
    BY <1>2, <1>10
  <2> HIDE DEF a, m
  <2>4. IsSlice(ss, data_, e, h, a, z, m)
    BY <2>1, <2>2, <2>3, <1>S, <1>8, <1>9 DEF IsSlice
  <2>5. SubSeq(data_, m + 1, m + Len(z)) = z
    BY <2>4, PartSlice
  <2> QED
    BY <2>5, <1>8 DEF Slice, m
<1>12. Slice(e[k] + Precision, e[k] + Precision + Len(u)) = u
  <2> DEFINE m == e[k] + Precision
  <2>1. Precision + Len(u) <= Len(ss[h])
    BY <1>2, <1>3, <1>5, <1>7 DEF u
  <2>2. Inside(ss[h], Precision, u)
    BY <2>1, <1>5 DEF Inside
  <2>3. m = e[h - 1] + Precision
    BY <1>2
  <2> HIDE DEF m
  <2>4. IsSlice(ss, data_, e, h, Precision, u, m)
    BY <2>2, <2>3, <1>S, <1>3, <1>7, <1>9 DEF IsSlice
  <2>5. SubSeq(data_, m + 1, m + Len(u)) = u
    BY <2>4, PartSlice
  <2> QED
    BY <2>5 DEF Slice, m
<1>13. e[h] = e[k] + Precision + Len(u)
  <2>1. e[h] = e[h - 1] + Len(ss[h])
    BY <1>4, <1>9 DEF AreParts
  <2>2. Len(ss[h]) = Precision + Len(u)
    BY <1>2, <1>5 DEF u
  <2> QED
    BY <2>1, <2>2, <1>2, <1>3, <1>7, <1>10
<1>14. e[h] < Len(data_) <=> h < n
  BY <1>4, <1>5, <1>6, <1>9, PartEnds
<1> QED
  BY <1>4, <1>8, <1>10, <1>11, <1>12, <1>13, <1>14 DEF h, n, u

LEMMA SameUnits ==
  ASSUME UNCHANGED <<codec, nalus>>
  PROVE  /\ \A k : SampleUnits(k)' = SampleUnits(k)
         /\ \A codes, k : ByteUnits(codes, k)' = ByteUnits(codes, k)
         /\ \A c : IsCode(c)' <=> IsCode(c)
         /\ SampleStream(nalus)' = SampleStream(nalus)
<1>1. \A k : SampleUnits(k)' = SampleUnits(k)
  BY DEF SampleUnits
<1>2. \A codes, k : ByteUnits(codes, k)' = ByteUnits(codes, k)
  BY DEF ByteUnits
<1>3. \A c : IsCode(c)' <=> IsCode(c)
  BY DEF IsCode
<1>4. SampleStream(nalus)' = SampleStream(nalus)
  BY DEF SampleStream
<1> QED
  BY <1>1, <1>2, <1>3, <1>4

\* One more unit, of a and b, behind the others.
IsNext(ss, tt, a, b) ==
  /\ ss \in Seq(Seq(Bytes)) /\ tt \in Seq(Seq(Bytes)) /\ Len(tt) = Len(ss) + 1
  /\ \A i \in 1..Len(ss) : tt[i] = ss[i]
  /\ a \in Seq(Bytes) /\ b \in Seq(Bytes) /\ tt[Len(tt)] = a \o b

LEMMA ConcatBytesAgain == \A a, b, c \in Seq(Bytes) : (a \o b) \o c = a \o (b \o c)
BY ConcatAssociative

LEMMA NextUnit ==
  \A ss, tt, a, b :
    IsNext(ss, tt, a, b) =>
      FlattenSeq(ss) \o a \o b = FlattenSeq(tt) /\ FlattenSeq(tt) \in Seq(Bytes)
<1> SUFFICES ASSUME NEW ss, NEW tt, NEW a, NEW b, IsNext(ss, tt, a, b)
             PROVE  FlattenSeq(ss) \o a \o b = FlattenSeq(tt) /\ FlattenSeq(tt) \in Seq(Bytes)
  OBVIOUS
<1> DEFINE d == FlattenSeq(ss)
<1>0. /\ ss \in Seq(Seq(Bytes)) /\ tt \in Seq(Seq(Bytes)) /\ Len(tt) = Len(ss) + 1
      /\ \A i \in 1..Len(ss) : tt[i] = ss[i]
      /\ a \in Seq(Bytes) /\ b \in Seq(Bytes) /\ tt[Len(tt)] = a \o b
  BY DEF IsNext
<1>1. d \in Seq(Bytes) /\ FlattenSeq(tt) \in Seq(Bytes)
  BY <1>0, FlattenType
<1>2. FlattenSeq(tt) = d \o tt[Len(tt)]
  BY <1>0, FlattenAppend
<1> HIDE DEF d
<1>3. (d \o a) \o b = d \o (a \o b)
  BY <1>0, <1>1, ConcatBytesAgain
<1> QED
  BY <1>0, <1>1, <1>2, <1>3 DEF d

LEMMA ToByteIInv == IInv /\ sampleStreamToByteStream => IInv'
<1> SUFFICES ASSUME IInv, sampleStreamToByteStream PROVE IInv'
  OBVIOUS
<1> DEFINE n == Len(nalus)
<1>1. Types /\ data_ \in Seq(Bytes) /\ pc = "toByte" /\ UNCHANGED <<codec, nalus>>
  BY DEF IInv, sampleStreamToByteStream
<1>2. PICK k \in 0..(n - 1) : \E codes \in [1..k -> Nat] : \E e \in [0..n -> Nat] : ToByte(k, codes, e)
  BY <1>1 DEF IInv
<1>3. PICK codes \in [1..k -> Nat] : \E e \in [0..n -> Nat] : ToByte(k, codes, e)
  BY <1>2
<1>4. PICK e \in [0..n -> Nat] : ToByte(k, codes, e)
  BY <1>3
<1> DEFINE h == k + 1
           u == nalus[h]
           c == sizeStartCode
           endIndex == startIndex + Precision + Len(u)
           out == data \o StartCode(c) \o u
<1>5. n \in Nat /\ k \in Nat /\ h \in 1..n /\ h \in 0..n /\ k \in 0..n
  BY <1>1 DEF Types
<1>6. /\ SizeOf(Slice(startIndex, startIndex + Precision)) = Len(u)
      /\ Slice(startIndex + Precision, endIndex) = u
      /\ e[h] = endIndex
      /\ endIndex < Len(data_) <=> h < n
  BY <1>1, <1>4, SampleUnitAt
<1>7. /\ endIndex < Len(data_) =>
           /\ data' = out /\ startIndex' = endIndex /\ UNCHANGED <<data_, pc>>
           /\ sizeStartCode' = IF endIndex + Precision < Len(data_)
                               THEN IF useLongStartCode(endIndex + Precision) THEN 4 ELSE 3
                               ELSE sizeStartCode
      /\ ~(endIndex < Len(data_)) =>
           /\ data_' = out /\ data' = <<>> /\ startIndex' = 0 /\ pc' = "toSample"
           /\ UNCHANGED sizeStartCode
  BY <1>6 DEF sampleStreamToByteStream
<1>8. c \in Nat /\ IsCode(c)
  BY <1>1 DEF Types, IsCode
<1>9. PICK cs \in [1..h -> Nat] : cs[h] = c /\ \A i \in 1..k : cs[i] = codes[i]
  <2> DEFINE d == [i \in 1..h |-> IF i = h THEN c ELSE codes[i]]
  <2> HIDE DEF c
  <2>1. \A i \in 1..h : i = h \/ i \in 1..k
    BY <1>5
  <2>2. \A i \in 1..k : i \in 1..h /\ i # h
    BY <1>5
  <2>3. h \in 1..h
    BY <1>5
  <2> HIDE DEF h
  <2>4. d \in [1..h -> Nat] /\ d[h] = c /\ \A i \in 1..k : d[i] = codes[i]
    BY <2>1, <2>2, <2>3, <1>8
  <2> HIDE DEF d
  <2> QED
    BY <2>4
<1>10. \A i \in 1..h : IsCode(cs[i])
  <2>1. \A i \in 1..k : IsCode(codes[i])
    BY <1>4 DEF ToByte
  <2>2. \A i \in 1..h : i = h \/ i \in 1..k
    BY <1>5
  <2> HIDE DEF h, c
  <2> QED
    BY <2>1, <2>2, <1>8, <1>9
<1>11. out = FlattenSeq(ByteUnits(cs, h)) /\ out \in Seq(Bytes)
  <2> DEFINE ss == ByteUnits(codes, k)
             tt == ByteUnits(cs, h)
             a == StartCode(c)
  <2>1. ss \in Seq(Seq(Bytes)) /\ Len(ss) = k /\ \A i \in 1..k : ss[i] = StartCode(codes[i]) \o nalus[i]
    <3>1. /\ ss \in Seq(Seq(Bytes)) /\ Len(ss) = k
          /\ \A i \in 1..k : IsByteUnit(ss[i], codes[i], nalus[i])
      BY <1>1, <1>5, ByteUnitType
    <3> HIDE DEF ss
    <3> QED
      BY <3>1 DEF IsByteUnit
  <2>2. tt \in Seq(Seq(Bytes)) /\ Len(tt) = h /\ \A i \in 1..h : tt[i] = StartCode(cs[i]) \o nalus[i]
    <3>1. \A i \in 1..h : cs[i] \in Nat
      BY <1>9
    <3> HIDE DEF h
    <3>2. /\ tt \in Seq(Seq(Bytes)) /\ Len(tt) = h
          /\ \A i \in 1..h : IsByteUnit(tt[i], cs[i], nalus[i])
      BY <3>1, <1>1, <1>5, ByteUnitType
    <3> HIDE DEF tt
    <3> QED
      BY <3>2 DEF IsByteUnit
  <2>3. a \in Seq(Bytes) /\ u \in Seq(Bytes)
    BY <1>1, <1>5, <1>8, StartCodeType, NaluType
  <2>4. tt[h] = a \o u
    <3>1. h \in 1..h
      BY <1>5
    <3> HIDE DEF h, c
    <3> QED
      BY <3>1, <2>2, <1>9
  <2>5. \A i \in 1..k : tt[i] = ss[i]
    <3>1. \A i \in 1..k : i \in 1..h
      BY <1>5
    <3> QED
      BY <3>1, <2>1, <2>2, <1>9
  <2>6. data = FlattenSeq(ss)
    BY <1>4 DEF ToByte
  <2> HIDE DEF ss, tt, a, u
  <2>7. Len(tt) = Len(ss) + 1 /\ tt[Len(tt)] = a \o u /\ \A i \in 1..Len(ss) : tt[i] = ss[i]
    BY <2>1, <2>2, <2>4, <2>5
  <2>8. IsNext(ss, tt, a, u)
    BY <2>1, <2>2, <2>3, <2>7 DEF IsNext
  <2>9. data \o a \o u = FlattenSeq(tt) /\ FlattenSeq(tt) \in Seq(Bytes)
    <3>1. FlattenSeq(ss) \o a \o u = FlattenSeq(tt) /\ FlattenSeq(tt) \in Seq(Bytes)
      BY <2>8, NextUnit
    <3> QED
      BY <3>1, <2>6
  <2> QED
    BY <2>9 DEF a, tt
<1> HIDE DEF out
<1>12. CASE h < n
  <2>1. endIndex < Len(data_)
    BY <1>6, <1>12
  <2>2. data' = out /\ startIndex' = e[h] /\ UNCHANGED <<data_, pc>>
    BY <2>1, <1>6, <1>7
  <2>3. IsCode(sizeStartCode')
    <3>1. codec = "avc" => useLongStartCode(endIndex + Precision)
      BY DEF useLongStartCode
    <3>2. \/ sizeStartCode' = 4 
          \/ sizeStartCode' = 3 /\ ~useLongStartCode(endIndex + Precision)
          \/ sizeStartCode' = sizeStartCode
      BY <2>1, <1>7
    <3> QED
      BY <3>1, <3>2, <1>8 DEF IsCode
  <2>4. Types'
    <3>1. IsCode(sizeStartCode)'
      BY <2>3, <1>1 DEF IsCode
    <3> QED
      BY <3>1, <2>2, <1>1 DEF Types
  <2>5. ToByte(h, cs, e)'
    <3>1. AreParts(SampleUnits(Len(nalus)), data_, e)'
      BY <2>2, <1>1, <1>4, SameUnits DEF ToByte
    <3> QED
      BY <3>1, <2>2, <1>1, <1>10, <1>11, SameUnits DEF ToByte
  <2>6. h \in 0..(Len(nalus') - 1) /\ e \in [0..Len(nalus') -> Nat]
    BY <1>1, <1>5, <1>12
  <2> HIDE DEF h
  <2>7. \E j \in 0..(Len(nalus') - 1) : \E d \in [1..j -> Nat] : \E f \in [0..Len(nalus') -> Nat] : ToByte(j, d, f)'
    BY <2>5, <2>6, <1>9
  <2>8. pc' = "toByte" /\ data_' \in Seq(Bytes)
    BY <2>2, <1>1
  <2> QED
    BY <2>4, <2>7, <2>8 DEF IInv, RoundTrip
<1>13. CASE h = n
  <2>1. ~(endIndex < Len(data_))
    BY <1>5, <1>6, <1>13
  <2>2. data_' = out /\ data' = <<>> /\ startIndex' = 0 /\ pc' = "toSample" /\ UNCHANGED sizeStartCode
    BY <2>1, <1>7
  <2>3. Types'
    BY <2>2, <1>1 DEF Types, IsCode
  <2> DEFINE tt == ByteUnits(cs, n)
  <2>4. tt \in Seq(Seq(Bytes)) /\ Len(tt) = n /\ tt # <<>>
    <3>1. tt \in Seq(Seq(Bytes)) /\ Len(tt) = n
      BY <1>1, <1>5, <1>9, <1>13, ByteUnitType
    <3> HIDE DEF tt
    <3> QED
      BY <3>1, <1>5
  <2>5. data_' = FlattenSeq(tt)
    BY <2>2, <1>11, <1>13
  <2> HIDE DEF tt
  <2>6. PICK f \in [0..n -> Nat] : AreParts(tt, FlattenSeq(tt), f)
    BY <2>4, FlattenParts
  <2>7. FlattenSeq(SampleUnits(0)) = <<>>
    <3>1. SampleUnits(0) = <<>>
      BY DEF SampleUnits
    <3> QED
      BY <3>1 DEF FlattenSeq
  <2>8. ToSample(0, cs, f)'
    <3>1. AreParts(ByteUnits(cs, Len(nalus)), data_, f)'
      BY <2>5, <2>6, <1>1, SameUnits DEF tt
    <3>2. f[0] = 0
      BY <2>6 DEF AreParts
    <3> QED
      BY <3>1, <3>2, <2>2, <2>7, <1>1, <1>10, <1>13, SameUnits DEF ToSample
  <2>9. 0 \in 0..(Len(nalus') - 1) /\ cs \in [1..Len(nalus') -> Nat] /\ f \in [0..Len(nalus') -> Nat]
    BY <2>6, <1>1, <1>5, <1>9, <1>13
  <2>10. \E j \in 0..(Len(nalus') - 1) : \E d \in [1..Len(nalus') -> Nat] :
         \E g \in [0..Len(nalus') -> Nat] : ToSample(j, d, g)'
    BY <2>8, <2>9
  <2>11. data_' \in Seq(Bytes)
    BY <2>2, <1>11
  <2> QED
    BY <2>2, <2>3, <2>10, <2>11 DEF IInv, RoundTrip
<1> QED
  BY <1>5, <1>12, <1>13

\* The NAL unit h is in the byte stream behind the first x bytes, up to y.
StandsAt(h, x, c, y) ==
  /\ x \in Nat /\ c \in {3, 4} /\ (c = 3 => codec # "avc")
  /\ y = x + c + Len(nalus[h])
  /\ y <= Len(data_)
  /\ \A i \in 1..c : data_[x + i] = IF i = c THEN 1 ELSE 0
  /\ \A i \in 1..Len(nalus[h]) : data_[x + c + i] = nalus[h][i]

LEMMA ByteUnitBytes ==
  ASSUME Types, data_ \in Seq(Bytes),
         NEW k, NEW codes \in [1..Len(nalus) -> Nat], NEW e \in [0..Len(nalus) -> Nat],
         ToSample(k, codes, e)
  PROVE  \A h \in 1..Len(nalus) : StandsAt(h, e[h - 1], codes[h], e[h])
<1> DEFINE n == Len(nalus)
           ss == ByteUnits(codes, n)
<1>1. n \in Nat /\ n \in 0..n /\ \A i \in 1..n : codes[i] \in Nat
  BY DEF Types
<1>2. AreParts(ss, data_, e) /\ \A i \in 1..n : IsCode(codes[i])
  BY DEF ToSample
<1>3. /\ ss \in Seq(Seq(Bytes)) /\ Len(ss) = n
      /\ \A j \in 1..n : IsByteUnit(ss[j], codes[j], nalus[j])
  <2>1. n \in 0..Len(nalus) /\ \A i \in 1..n : codes[i] \in Nat
    BY <1>1
  <2> HIDE DEF n
  <2> QED
    BY <2>1, ByteUnitType
<1> SUFFICES ASSUME NEW h \in 1..n PROVE StandsAt(h, e[h - 1], codes[h], e[h])
  OBVIOUS
<1> HIDE DEF ss
<1> DEFINE x == e[h - 1]
           c == codes[h]
           u == nalus[h]
           v == ss[h]
<1>4. x \in Nat
  <2>1. h - 1 \in 0..n
    BY <1>1
  <2> QED
    BY <2>1
<1>5. c \in {3, 4} /\ (c = 3 => codec # "avc")
  BY <1>1, <1>2 DEF IsCode
<1>6. Len(u) \in Nat
  BY NaluType
<1>7. Len(v) = c + Len(u) /\ (\A i \in 1..c : v[i] = StartCode(c)[i]) /\ \A i \in 1..Len(u) : v[c + i] = u[i]
  <2>1. IsByteUnit(v, c, u)
    BY <1>3
  <2> HIDE DEF v, c, u
  <2> QED
    BY <2>1 DEF IsByteUnit
<1>8. e[h] = x + Len(v) /\ e[h] <= Len(data_) /\ \A i \in 1..Len(v) : data_[x + i] = v[i]
  BY <1>2, <1>3 DEF AreParts
<1>U. u = nalus[h]
  OBVIOUS
<1> HIDE DEF x, c, u, v, n
<1>9. e[h] = x + c + Len(u)
  BY <1>4, <1>5, <1>6, <1>7, <1>8
<1>10. ASSUME NEW i \in 1..c PROVE data_[x + i] = IF i = c THEN 1 ELSE 0
  <2>1. i \in 1..Len(v)
    BY <1>5, <1>6, <1>7
  <2>2. data_[x + i] = StartCode(c)[i]
    BY <2>1, <1>7, <1>8
  <2>3. c \in Nat
    BY <1>5
  <2> QED
    BY <2>2, <2>3, StartCodeType
<1>11. ASSUME NEW i \in 1..Len(u) PROVE data_[x + c + i] = u[i]
  <2>1. c + i \in 1..Len(v) /\ x + c + i = x + (c + i)
    BY <1>4, <1>5, <1>6, <1>7
  <2> QED
    BY <2>1, <1>7, <1>8
<1>12. StandsAt(h, x, c, e[h])
  BY <1>4, <1>5, <1>8, <1>9, <1>10, <1>11, <1>U DEF StandsAt
<1> QED
  BY <1>12 DEF x, c

\* There is no start code inside of a unit, nor from its end on into the next.
LEMMA NoStartCodeInside ==
  ASSUME NEW u \in Seq(Bytes), NalUnitOf(codec, u), Len(u) \in Nat,
         NEW i \in Nat, NEW j \in Nat, i <= j, j < i + Len(u),
         \A a \in 1..Len(u) : data_[i + a] = u[a]
  PROVE  ~(/\ At(j) = 0
           /\ At(j + 1) = 0
           /\ At(j + 2) = 1 \/ (At(j + 2) = 0 /\ At(j + 3) = 1))
<1> DEFINE L == Len(u)
           a == (j - i) + 1
<1>1. a \in 1..L /\ i + a = j + 1 /\ L \in Nat
  OBVIOUS
<1>2. u[L] # 0 /\ \A b \in 1..(L - 2) : ~(u[b] = 0 /\ u[b + 1] = 0 /\ u[b + 2] <= 1)
  BY DEF NalUnitOf
<1>3. \A b \in 1..L : data_[i + b] = u[b]
  OBVIOUS
<1> HIDE DEF a, L
<1>4. At(j) = u[a]
  BY <1>1, <1>3 DEF At
<1>5. CASE a = L
  BY <1>2, <1>4, <1>5
<1>6. CASE a = L - 1
  <2>1. a + 1 = L /\ i + (a + 1) = (j + 1) + 1 /\ a + 1 \in 1..L
    BY <1>1, <1>6
  <2>2. At(j + 1) = u[L]
    BY <2>1, <1>3 DEF At
  <2> QED
    BY <2>2, <1>2
<1>7. CASE a <= L - 2
  <2>1. /\ a \in 1..(L - 2) /\ a + 1 \in 1..L /\ a + 2 \in 1..L
        /\ i + (a + 1) = (j + 1) + 1 /\ i + (a + 2) = (j + 2) + 1
    BY <1>1, <1>7
  <2>2. At(j + 1) = u[a + 1] /\ At(j + 2) = u[a + 2]
    BY <2>1, <1>3 DEF At
  <2>3. ~(u[a] = 0 /\ u[a + 1] = 0 /\ u[a + 2] <= 1)
    BY <2>1, <1>2
  <2>4. 0 <= 1 /\ 1 <= 1
    OBVIOUS
  <2> QED
    BY <2>2, <2>3, <2>4, <1>4
<1> QED
  BY <1>1, <1>5, <1>6, <1>7

\* A unit in front of which byteStreamToSampleStream stands.
LEMMA ByteUnitAt ==
  ASSUME Types, data_ \in Seq(Bytes),
         NEW k \in 0..(Len(nalus) - 1), NEW codes \in [1..Len(nalus) -> Nat],
         NEW e \in [0..Len(nalus) -> Nat], ToSample(k, codes, e)
  PROVE  /\ startIndex \in Nat
         /\ (IF At(startIndex + 2) = 0 THEN 4 ELSE 3) = codes[k + 1]
         /\ getEndOfNaluPosition(startIndex + codes[k + 1]) = e[k + 1]
         /\ Slice(startIndex + codes[k + 1], e[k + 1]) = nalus[k + 1]
         /\ e[k + 1] < Len(data_) <=> k + 1 < Len(nalus)
<1> DEFINE n == Len(nalus)
           h == k + 1
           x == e[k]
           c == codes[h]
           u == nalus[h]
           m == x + c
           y == e[h]
           end == Len(data_)
<1>1. n \in Nat /\ n >= 1 /\ h \in 1..n /\ h - 1 = k /\ end \in Nat
  BY DEF Types
<1>2. startIndex = x /\ e[0] = 0 /\ end = e[n]
  <2>1. AreParts(ByteUnits(codes, n), data_, e) /\ startIndex = x
    BY DEF ToSample
  <2>2. \A i \in 1..n : codes[i] \in Nat
    OBVIOUS
  <2>3. n \in 0..Len(nalus)
    BY <1>1
  <2> HIDE DEF n
  <2>4. Len(ByteUnits(codes, n)) = n
    BY <2>2, <2>3, ByteUnitType
  <2> QED
    BY <2>1, <2>4 DEF AreParts
<1>3. /\ x \in Nat /\ c \in {3, 4} /\ y = m + Len(u) /\ y <= end
      /\ \A i \in 1..c : data_[x + i] = IF i = c THEN 1 ELSE 0
      /\ \A i \in 1..Len(u) : data_[m + i] = u[i]
  <2>1. StandsAt(h, e[h - 1], codes[h], e[h])
    <3> HIDE DEF h
    <3> QED
      BY <1>1, ByteUnitBytes
  <2>2. StandsAt(h, x, c, y) /\ u = nalus[h] /\ m = x + c /\ end = Len(data_)
    BY <2>1, <1>1
  <2> HIDE DEF x, c, y, u, m, end, h
  <2> QED
    BY <2>2 DEF StandsAt
<1>4. u \in Seq(Bytes) /\ Len(u) \in Nat /\ Len(u) >= 1 /\ NalUnitOf(codec, u)
  <2> HIDE DEF h
  <2> QED
    BY <1>1, NaluType DEF Types
<1>5. h < n => LET d == codes[h + 1] IN
        /\ d \in {3, 4}
        /\ y + 5 <= end
        /\ \A i \in 1..d : data_[y + i] = IF i = d THEN 1 ELSE 0
  <2> SUFFICES ASSUME h < n
               PROVE  LET d == codes[h + 1] IN
                        /\ d \in {3, 4}
                        /\ y + 5 <= end
                        /\ \A i \in 1..d : data_[y + i] = IF i = d THEN 1 ELSE 0
    OBVIOUS
  <2> DEFINE g == h + 1
             d == codes[g]
             w == nalus[g]
  <2>1. g \in 1..n /\ g - 1 = h
    BY <1>1
  <2> HIDE DEF g, h
  <2>2. /\ y \in Nat /\ d \in {3, 4} /\ (d = 3 => codec # "avc")
        /\ e[g] = y + d + Len(w) /\ e[g] <= end
        /\ \A i \in 1..d : data_[y + i] = IF i = d THEN 1 ELSE 0
    <3>1. StandsAt(g, e[g - 1], codes[g], e[g])
      BY <2>1, ByteUnitBytes
    <3>2. StandsAt(g, y, d, e[g]) /\ w = nalus[g] /\ end = Len(data_)
      BY <3>1, <2>1
    <3> HIDE DEF y, d, w, end
    <3> QED
      BY <3>2 DEF StandsAt
  <2>3. Len(w) \in Nat /\ Len(w) >= 1 /\ (codec # "avc" => Len(w) >= 2)
    <3>1. Len(w) \in Nat /\ Len(w) >= 1
      BY <2>1, NaluType
    <3>2. NalUnitOf(codec, w)
      BY <2>1 DEF Types
    <3> QED
      BY <3>1, <3>2 DEF NalUnitOf
  <2> HIDE DEF y, d, w, end
  <2>4. d + Len(w) >= 5
    BY <2>2, <2>3
  <2>5. y + 5 <= end
    BY <2>2, <2>3, <2>4, <1>1
  <2> QED
    BY <2>2, <2>5 DEF g, d
<1> HIDE DEF n, h, x, c, u, m, y, end
<1>6. m \in Nat /\ y \in Nat /\ y > m
  BY <1>3, <1>4 DEF m
<1>7. (IF At(x + 2) = 0 THEN 4 ELSE 3) = c
  <2>1. 3 \in 1..c /\ (x + 2) + 1 = x + 3
    BY <1>3
  <2>2. At(x + 2) = IF 3 = c THEN 1 ELSE 0
    BY <2>1, <1>3 DEF At
  <2> QED
    BY <2>2, <1>3
<1>8. ASSUME NEW j \in startCodesFrom(m) PROVE j \in Nat /\ j >= y /\ j <= end - 5
  <2>1. /\ j \in m..(end - 5)
        /\ At(j) = 0 /\ At(j + 1) = 0 /\ (At(j + 2) = 1 \/ (At(j + 2) = 0 /\ At(j + 3) = 1))
    BY DEF startCodesFrom, end
  <2>2. j \in Nat /\ j >= m /\ j <= end - 5
    BY <2>1, <1>1, <1>6
  <2>3. CASE j < y
    <3>1. j < m + Len(u)
      BY <2>3, <1>3
    <3> QED
      BY <3>1, <2>1, <2>2, <1>3, <1>4, <1>6, NoStartCodeInside
  <2> QED
    BY <2>2, <2>3, <1>6
<1>9. h < n => y \in startCodesFrom(m)
  <2> SUFFICES ASSUME h < n PROVE y \in startCodesFrom(m)
    OBVIOUS
  <2> DEFINE d == codes[h + 1]
  <2>1. d \in {3, 4} /\ y + 5 <= end /\ \A i \in 1..d : data_[y + i] = IF i = d THEN 1 ELSE 0
    BY <1>5
  <2> HIDE DEF d
  <2>2. y \in m..(end - 5)
    BY <2>1, <1>1, <1>6
  <2>3. 1 \in 1..d /\ 2 \in 1..d /\ 3 \in 1..d /\ (d = 4 => 4 \in 1..d)
    BY <2>1
  <2>4. At(y) = data_[y + 1] /\ At(y + 1) = data_[y + 2] /\ At(y + 2) = data_[y + 3] /\ At(y + 3) = data_[y + 4]
    <3>1. (y + 1) + 1 = y + 2 /\ (y + 2) + 1 = y + 3 /\ (y + 3) + 1 = y + 4
      BY <1>6
    <3> QED
      BY <3>1 DEF At
  <2>5. At(y) = 0 /\ At(y + 1) = 0
    BY <2>1, <2>3, <2>4
  <2>6. At(y + 2) = 1 \/ (At(y + 2) = 0 /\ At(y + 3) = 1)
    BY <2>1, <2>3, <2>4
  <2> QED
    BY <2>2, <2>5, <2>6 DEF startCodesFrom, end
<1>10. h = n => y = end
  BY <1>2 DEF y
<1>11. getEndOfNaluPosition(m) = y
  <2> DEFINE F == startCodesFrom(m)
  <2> HIDE DEF F
  <2>0. getEndOfNaluPosition(m) = IF end < m + 4 \/ F = {} THEN end ELSE Min(F)
    BY DEF getEndOfNaluPosition, end, F
  <2>1. CASE h = n
    <3>1. F = {}
      <4> SUFFICES ASSUME NEW j \in F PROVE FALSE
        OBVIOUS
      <4>1. j \in Nat /\ j >= end /\ j <= end - 5
        BY <2>1, <1>8, <1>10 DEF F
      <4> QED
        BY <4>1, <1>1
    <3> QED
      BY <3>1, <2>0, <2>1, <1>10
  <2>2. CASE h < n
    <3>1. y \in F /\ ~(end < m + 4)
      BY <2>2, <1>1, <1>5, <1>6, <1>9 DEF F
    <3>2. \A j \in F : j \in Nat /\ j >= y
      BY <1>8 DEF F
    <3>3. Min(F) \in F /\ \A j \in F : Min(F) <= j
      <4>1. \E z \in F : \A j \in F : z <= j
        BY <3>1, <3>2, <1>6
      <4> QED
        BY <4>1 DEF Min
    <3>4. Min(F) = y
      <4> DEFINE z == Min(F)
      <4>1. z \in Nat /\ z >= y /\ z <= y
        BY <3>1, <3>2, <3>3
      <4> HIDE DEF z
      <4>2. z = y
        BY <4>1, <1>6
      <4> QED
        BY <4>2 DEF z
    <3> QED
      BY <3>1, <3>4, <2>0
  <2> QED
    BY <2>1, <2>2, <1>1
<1>12. Slice(m, y) = u
  <2>1. SubSeq(data_, m + 1, m + Len(u)) = u
    BY <1>3, <1>4, <1>6, SubSeqElements DEF end
  <2> QED
    BY <2>1, <1>3 DEF Slice
<1>13. y < end <=> h < n
  <2>1. h < n => y < end
    BY <1>1, <1>5, <1>6
  <2> QED
    BY <2>1, <1>1, <1>6, <1>10
<1> QED
  BY <1>2, <1>3, <1>7, <1>11, <1>12, <1>13 DEF h, x, c, u, m, y, end, n

LEMMA ToSampleIInv == IInv /\ byteStreamToSampleStream => IInv'
<1> SUFFICES ASSUME IInv, byteStreamToSampleStream PROVE IInv'
  OBVIOUS
<1> DEFINE n == Len(nalus)
<1>1. /\ Types /\ data_ \in Seq(Bytes) /\ pc = "toSample"
      /\ UNCHANGED <<codec, nalus, sizeStartCode>>
  BY DEF IInv, byteStreamToSampleStream
<1>2. PICK k \in 0..(n - 1) : \E codes \in [1..n -> Nat] : \E e \in [0..n -> Nat] : ToSample(k, codes, e)
  BY <1>1 DEF IInv
<1>3. PICK codes \in [1..n -> Nat] : \E e \in [0..n -> Nat] : ToSample(k, codes, e)
  BY <1>2
<1>4. PICK e \in [0..n -> Nat] : ToSample(k, codes, e)
  BY <1>3
<1> DEFINE h == k + 1
           u == nalus[h]
           c == codes[h]
           a == SizeBytes(Len(u))
           out == data \o a \o u
<1>5. n \in Nat /\ k \in Nat /\ h \in 1..n /\ h \in 0..n /\ k \in 0..n
  BY <1>1 DEF Types
<1>6. /\ (IF At(startIndex + 2) = 0 THEN 4 ELSE 3) = c
      /\ getEndOfNaluPosition(startIndex + c) = e[h]
      /\ Slice(startIndex + c, e[h]) = u
      /\ e[h] < Len(data_) <=> h < n
  BY <1>1, <1>4, ByteUnitAt
<1>7. /\ e[h] < Len(data_) => data' = out /\ startIndex' = e[h] /\ UNCHANGED <<data_, pc>>
      /\ ~(e[h] < Len(data_)) => data_' = out /\ data' = <<>> /\ startIndex' = 0 /\ pc' = "done"
  BY <1>6 DEF byteStreamToSampleStream
<1>8. out = FlattenSeq(SampleUnits(h)) /\ out \in Seq(Bytes)
  <2> DEFINE ss == SampleUnits(k)
             tt == SampleUnits(h)
  <2>1. ss \in Seq(Seq(Bytes)) /\ Len(ss) = k /\ \A i \in 1..k : ss[i] = SizeBytes(Len(nalus[i])) \o nalus[i]
    BY <1>1, <1>5, SampleUnitType
  <2>2. tt \in Seq(Seq(Bytes)) /\ Len(tt) = h /\ \A i \in 1..h : tt[i] = SizeBytes(Len(nalus[i])) \o nalus[i]
    <3> HIDE DEF h
    <3> QED
      BY <1>1, <1>5, SampleUnitType
  <2>3. a \in Seq(Bytes) /\ u \in Seq(Bytes)
    <3> HIDE DEF h
    <3>1. u \in Seq(Bytes) /\ Len(u) \in Nat
      BY <1>1, <1>5, NaluType
    <3> QED
      BY <3>1, SizeBytesType
  <2>4. tt[h] = a \o u
    <3>1. h \in 1..h
      BY <1>5
    <3> HIDE DEF h
    <3> QED
      BY <3>1, <2>2
  <2>5. \A i \in 1..k : tt[i] = ss[i]
    <3>1. \A i \in 1..k : i \in 1..h
      BY <1>5
    <3> HIDE DEF h
    <3> QED
      BY <3>1, <2>1, <2>2
  <2>6. data = FlattenSeq(ss)
    BY <1>4 DEF ToSample
  <2> HIDE DEF ss, tt, a, u
  <2>7. Len(tt) = Len(ss) + 1 /\ tt[Len(tt)] = a \o u /\ \A i \in 1..Len(ss) : tt[i] = ss[i]
    BY <2>1, <2>2, <2>4, <2>5
  <2>8. IsNext(ss, tt, a, u)
    BY <2>1, <2>2, <2>3, <2>7 DEF IsNext
  <2>9. data \o a \o u = FlattenSeq(tt) /\ FlattenSeq(tt) \in Seq(Bytes)
    <3>1. FlattenSeq(ss) \o a \o u = FlattenSeq(tt) /\ FlattenSeq(tt) \in Seq(Bytes)
      BY <2>8, NextUnit
    <3> QED
      BY <3>1, <2>6
  <2> QED
    BY <2>9 DEF tt
<1> HIDE DEF out
<1>9. CASE h < n
  <2>1. data' = out /\ startIndex' = e[h] /\ UNCHANGED <<data_, pc>>
    BY <1>6, <1>7, <1>9
  <2>2. Types'
    BY <2>1, <1>1 DEF Types, IsCode
  <2>3. ToSample(h, codes, e)'
    <3>1. AreParts(ByteUnits(codes, Len(nalus)), data_, e)'
      BY <2>1, <1>1, <1>4, SameUnits DEF ToSample
    <3>2. \A i \in 1..n : IsCode(codes[i])
      BY <1>4 DEF ToSample
    <3> QED
      BY <3>1, <3>2, <2>1, <1>1, <1>8, SameUnits DEF ToSample
  <2>4. h \in 0..(Len(nalus') - 1) /\ codes \in [1..Len(nalus') -> Nat] /\ e \in [0..Len(nalus') -> Nat]
    BY <1>1, <1>5, <1>9
  <2> HIDE DEF h
  <2>5. \E j \in 0..(Len(nalus') - 1) : \E d \in [1..Len(nalus') -> Nat] :
        \E f \in [0..Len(nalus') -> Nat] : ToSample(j, d, f)'
    BY <2>3, <2>4
  <2>6. pc' = "toSample" /\ data_' \in Seq(Bytes)
    BY <2>1, <1>1
  <2> QED
    BY <2>2, <2>5, <2>6 DEF IInv, RoundTrip
<1>10. CASE h = n
  <2>1. data_' = out /\ pc' = "done"
    BY <1>5, <1>6, <1>7, <1>10
  <2>2. Types'
    BY <2>1, <1>1 DEF Types, IsCode
  <2>3. data_' = SampleStream(nalus)'
    <3>1. out = SampleStream(nalus)
      BY <1>1, <1>8, <1>10, SampleStreamIsUnits
    <3> QED
      BY <3>1, <2>1, <1>1, SameUnits
  <2>4. data_' \in Seq(Bytes)
    BY <2>1, <1>8
  <2> QED
    BY <2>1, <2>2, <2>3, <2>4 DEF IInv, RoundTrip
<1> QED
  BY <1>5, <1>9, <1>10

LEMMA IInvInvariant == Spec => []IInv
<1>1. ASSUME IInv, [Next]_vars PROVE IInv'
  BY <1>1, ToByteIInv, ToSampleIInv, StutterIInv DEF Next
<1> QED
  BY <1>1, InitIInv, PTL DEF Spec

-----------------------------------------------------------------------------
(* The theorem. *)

\* A video converted by sampleStreamToByteStream and back by
\* byteStreamToSampleStream is the sample stream it was: getEndOfNaluPosition
\* finds every NAL unit where it ends, whatever the number of the units, their
\* bytes, their sizes and the start codes they got.
THEOREM RoundTripAlways == Spec => []RoundTrip
<1>1. IInv => RoundTrip
  BY DEF IInv
<1> QED
  BY <1>1, IInvInvariant, PTL
=============================================================================
