-------------------------- MODULE BufferDataProofs --------------------------
(***************************************************************************)
(* Proofs about the buffers of transcodeVideo, for videos, requests and    *)
(* outputs of every size.  Some of the properties are about runs in which  *)
(* libav never calls the seek callback: a seek leaves room as it is.       *)
(***************************************************************************)
EXTENDS BufferData, SequenceTheorems, TLAPS

\* What is known until libav seeks: room is the size left, the input is given
\* out from its start, and the vector holds what was written until it grows.
Unseeked ==
  /\ RoomIsSizeLeft
  /\ StreamKept
  /\ demuxed = Bytes(1, in_bd.ptr)
  /\ DeliveredUnlessGrown
  /\ pc # "crash"

\* Whatever seeks libav makes, room is what has not been handed out.
RoomCountsReads == Len(demuxed) + in_bd.room = VideoSize

\* What holds between steps.
IInv ==
  /\ TypeOK
  /\ RoomCountsReads
  /\ in_bd.size = VideoSize
  /\ in_bd.ptr <= in_bd.size
  /\ out_bd.ptr <= out_bd.size
  /\ out_bd.size > 0
  /\ seeks = 0 => Unseeked

\* The first n bytes of a stream, as a sequence.
LEMMA FirstBytes ==
  ASSUME NEW n \in Nat
  PROVE  /\ Bytes(1, n) = [i \in 1..n |-> i]
         /\ Bytes(1, n) \in Seq(Nat)
         /\ Len(Bytes(1, n)) = n
<1>1. n + 1 - 1 = n
  OBVIOUS
<1>2. \A i \in 1..n : 1 + i - 1 = i
  OBVIOUS
<1>3. Bytes(1, n) = [i \in 1..n |-> i]
  BY <1>1, <1>2 DEF Bytes
<1> QED
  BY <1>3

\* The k bytes of a stream behind byte m, as a sequence.
LEMMA NextBytes ==
  ASSUME NEW m \in Nat, NEW k \in Nat
  PROVE  /\ Bytes(m + 1, m + k) \in Seq(Nat)
         /\ Len(Bytes(m + 1, m + k)) = k
         /\ \A i \in 1..k : Bytes(m + 1, m + k)[i] = m + i
<1>1. (m + k) + 1 - (m + 1) = k
  OBVIOUS
<1>2. \A i \in 1..k : m + 1 + i - 1 = m + i /\ m + i \in Nat
  OBVIOUS
<1>3. Bytes(m + 1, m + k) = [i \in 1..k |-> m + i]
  BY <1>1, <1>2 DEF Bytes
<1> QED
  BY <1>2, <1>3

\* Reading on from byte m to byte m + k extends the bytes read so far.
LEMMA BytesExtend ==
  ASSUME NEW m \in Nat, NEW k \in Nat
  PROVE  Bytes(1, m) \o Bytes(m + 1, m + k) = Bytes(1, m + k)
<1> DEFINE s == Bytes(1, m)
           t == Bytes(m + 1, m + k)
           u == Bytes(1, m + k)
<1>1. /\ s \in Seq(Nat) /\ Len(s) = m
      /\ \A i \in 1..m : s[i] = i
  BY FirstBytes
<1>2. /\ u \in Seq(Nat) /\ Len(u) = m + k
      /\ \A i \in 1..(m + k) : u[i] = i
  <2>1. m + k \in Nat
    OBVIOUS
  <2> QED
    BY <2>1, FirstBytes
<1>3. /\ t \in Seq(Nat) /\ Len(t) = k
      /\ \A i \in 1..k : t[i] = m + i
  BY NextBytes
<1> HIDE DEF s, t, u
<1>4. s \o t \in Seq(Nat) /\ Len(s \o t) = m + k
  BY <1>1, <1>3, ConcatProperties
<1>5. \A i \in 1..(m + k) : (s \o t)[i] = i
  <2> SUFFICES ASSUME NEW i \in 1..(m + k) PROVE (s \o t)[i] = i
    OBVIOUS
  <2>1. (s \o t)[i] = IF i <= m THEN s[i] ELSE t[i - m]
    BY <1>1, <1>3, ConcatProperties
  <2>2. CASE i <= m
    BY <2>1, <2>2, <1>1
  <2>3. CASE i > m
    <3>1. i - m \in 1..k /\ m + (i - m) = i
      BY <2>3
    <3> QED
      BY <2>1, <2>3, <3>1, <1>3
  <2>4. i <= m \/ i > m
    OBVIOUS
  <2> QED
    BY <2>2, <2>3, <2>4
<1>6. s \o t = u
  BY <1>2, <1>4, <1>5, SeqEqual
<1> QED
  BY <1>6 DEF s, t, u

\* The buffers as transcodeVideo sets them up satisfy the invariant.
LEMMA InitIInv == Init => IInv
<1> SUFFICES ASSUME Init PROVE IInv
  OBVIOUS
<1> USE BufferAssumption
<1>1. Bytes(1, VideoSize) \in Seq(Nat)
  BY FirstBytes
<1>2. Bytes(1, 0) = <<>>
  BY DEF Bytes
<1>3. TypeOK
  BY <1>1 DEF Init, TypeOK, Lost
<1>4. RoomIsSizeLeft /\ RoomCountsReads
  BY DEF Init, RoomIsSizeLeft, RoomCountsReads
<1> QED
  BY <1>2, <1>3, <1>4 DEF Init, IInv, Unseeked, StreamKept, DeliveredUnlessGrown

\* read_packet keeps the invariant: what it hands out continues the video.
LEMMA ReadIInv ==
  ASSUME IInv, NEW n \in ReadSizes, read_packet(n)
  PROVE  IInv'
<1> USE BufferAssumption
<1>1. PICK k \in Nat :
        /\ k <= in_bd.room
        /\ in_bd.ptr + k <= in_bd.size
        /\ demuxed' = demuxed \o Bytes(in_bd.ptr + 1, in_bd.ptr + k)
        /\ in_bd' = [in_bd EXCEPT !.ptr = @ + k, !.room = @ - k]
  <2> DEFINE k == IF n < in_bd.room THEN n ELSE in_bd.room
  <2>1. k \in Nat /\ k <= in_bd.room
    BY DEF IInv, TypeOK
  <2>2. /\ in_bd.ptr + k <= in_bd.size
        /\ demuxed' = demuxed \o Bytes(in_bd.ptr + 1, in_bd.ptr + k)
        /\ in_bd' = [in_bd EXCEPT !.ptr = @ + k, !.room = @ - k]
    BY DEF read_packet
  <2> HIDE DEF k
  <2> QED
    BY <2>1, <2>2
<1>2. UNCHANGED <<outVars, seeks>>
  BY DEF read_packet
<1>3. in_bd' = [size |-> in_bd.size, ptr |-> in_bd.ptr + k, room |-> in_bd.room - k]
  BY <1>1 DEF IInv, TypeOK
<1>4. in_bd.ptr \in Nat /\ in_bd.ptr + k \in Nat /\ in_bd.room \in Nat /\ in_bd.size \in Nat
  BY DEF IInv, TypeOK
<1>5. demuxed' \in Seq(Nat) /\ Len(demuxed') = Len(demuxed) + k
  <2>1. demuxed \in Seq(Nat)
    BY DEF IInv, TypeOK
  <2> DEFINE t == Bytes(in_bd.ptr + 1, in_bd.ptr + k)
  <2>2. t \in Seq(Nat) /\ Len(t) = k
    BY <1>4, NextBytes
  <2>3. demuxed' = demuxed \o t
    BY <1>1
  <2> HIDE DEF t
  <2> QED
    BY <2>1, <2>2, <2>3, ConcatProperties
<1>6. in_bd' \in [size : Nat, ptr : Nat, room : Nat]
  BY <1>1, <1>3, <1>4
<1>7. TypeOK'
  BY <1>2, <1>5, <1>6 DEF IInv, TypeOK, outVars
<1>8. RoomCountsReads'
  <2>1. Len(demuxed) \in Nat /\ Len(demuxed) + in_bd.room = VideoSize
    BY LenProperties DEF IInv, TypeOK, RoomCountsReads
  <2> QED
    BY <1>1, <1>3, <1>4, <1>5, <2>1 DEF RoomCountsReads
<1>9. in_bd'.size = VideoSize /\ in_bd'.ptr <= in_bd'.size
  BY <1>1, <1>3, <1>4 DEF IInv
<1>10. seeks' = 0 => Unseeked'
  <2> SUFFICES ASSUME seeks = 0 PROVE Unseeked'
    BY <1>2
  <2>1. demuxed = Bytes(1, in_bd.ptr) /\ in_bd'.ptr = in_bd.ptr + k
    BY <1>3 DEF IInv, Unseeked
  <2>2. Bytes(1, in_bd.ptr) \o Bytes(in_bd.ptr + 1, in_bd.ptr + k)
          = Bytes(1, in_bd.ptr + k)
    BY <1>4, BytesExtend
  <2>3. demuxed' = Bytes(1, in_bd'.ptr)
    BY <1>1, <2>1, <2>2
  <2>4. RoomIsSizeLeft'
    BY <1>1, <1>2, <1>3, <1>4 DEF IInv, Unseeked, RoomIsSizeLeft, outVars
  <2> QED
    BY <1>2, <2>3, <2>4
       DEF IInv, Unseeked, StreamKept, DeliveredUnlessGrown, outVars
<1> QED
  BY <1>2, <1>7, <1>8, <1>9, <1>10 DEF IInv, outVars

\* Growing the block keeps the invariant: the bytes before ptr are copied, and
\* room is again what is left behind ptr.
LEMMA GrowIInv ==
  ASSUME IInv, Grow
  PROVE  IInv'
<1> USE BufferAssumption
<1> DEFINE size == 2 * out_bd.size
<1>1. /\ out_bd' = [buf |-> "heap", size |-> size, ptr |-> out_bd.ptr,
                    room |-> size - out_bd.ptr]
      /\ mem' = [i \in 0..(size - 1) |->
                   IF i < out_bd.size THEN mem[i] ELSE Lost]
      /\ inPlace' \in {inPlace, FALSE}
      /\ UNCHANGED <<inVars, pc, buf_size, written, seeks, videoBitstream>>
  BY DEF Grow
<1>2. size \in Nat /\ size > 0 /\ size - out_bd.ptr \in Nat /\ out_bd.ptr <= size
  BY DEF IInv, TypeOK
<1>3. out_bd' \in [buf : {"vector", "heap", "null"}, size : Nat, ptr : Nat, room : Nat]
  BY <1>1, <1>2 DEF IInv, TypeOK
<1>4. mem' \in [0..(out_bd'.size - 1) -> Nat]
  BY <1>1, <1>2 DEF IInv, TypeOK, Lost
<1>5. inPlace' \in BOOLEAN
  BY <1>1 DEF IInv, TypeOK
<1>6. TypeOK'
  BY <1>1, <1>3, <1>4, <1>5 DEF IInv, TypeOK, inVars
<1>7. seeks' = 0 => Unseeked'
  <2> SUFFICES ASSUME seeks = 0 PROVE Unseeked'
    BY <1>1
  <2>0. RoomIsSizeLeft'
    BY SMTT(20), <1>1, <1>2 DEF IInv, TypeOK, Unseeked, RoomIsSizeLeft, inVars
  <2>1. out_bd'.ptr = written' /\ out_bd.ptr = written
    BY <1>1 DEF IInv, Unseeked, StreamKept
  <2>2. written <= out_bd.size
    BY <2>1 DEF IInv
  <2>3. ASSUME NEW i \in 0..(size - 1), i < written PROVE mem'[i] = i + 1
    <3>1. i \in 0..(out_bd.size - 1) /\ i < out_bd.size
      BY <2>2, <2>3 DEF IInv, TypeOK
    <3>2. mem'[i] = mem[i]
      BY <1>1, <3>1
    <3> QED
      BY <2>3, <3>1, <3>2 DEF IInv, Unseeked, StreamKept
  <2>4. StreamKept'
    BY <1>1, <2>1, <2>3 DEF StreamKept
  <2> QED
    BY <1>1, <2>0, <2>4 DEF IInv, Unseeked, DeliveredUnlessGrown, inVars
<1>8. RoomCountsReads'
  BY <1>1 DEF IInv, RoomCountsReads, inVars
<1> QED
  BY <1>1, <1>2, <1>6, <1>7, <1>8 DEF IInv, inVars

\* The memcpy keeps the invariant: it appends the new bytes at ptr.
LEMMA CopyIInv ==
  ASSUME IInv, Copy
  PROVE  IInv'
<1> USE BufferAssumption
<1>1. /\ buf_size <= out_bd.room
      /\ out_bd.ptr + buf_size <= out_bd.size
      /\ mem' = [i \in DOMAIN mem |->
                   IF i \in out_bd.ptr..(out_bd.ptr + buf_size - 1)
                     THEN written + 1 + (i - out_bd.ptr) ELSE mem[i]]
      /\ out_bd' = [out_bd EXCEPT !.ptr = @ + buf_size, !.room = @ - buf_size]
      /\ written' = written + buf_size /\ buf_size' = 0 /\ pc' = "idle"
      /\ UNCHANGED <<inVars, inPlace, seeks, videoBitstream>>
  BY DEF Copy
<1>2. out_bd' = [buf |-> out_bd.buf, size |-> out_bd.size,
                 ptr |-> out_bd.ptr + buf_size, room |-> out_bd.room - buf_size]
  BY <1>1 DEF IInv, TypeOK
<1>3. out_bd' \in [buf : {"vector", "heap", "null"}, size : Nat, ptr : Nat, room : Nat]
  BY SMTT(20), <1>1, <1>2 DEF IInv, TypeOK
<1>4. mem' \in [0..(out_bd'.size - 1) -> Nat]
  <2>1. DOMAIN mem = 0..(out_bd.size - 1) /\ out_bd'.size = out_bd.size
    BY <1>2 DEF IInv, TypeOK
  <2>2. ASSUME NEW i \in 0..(out_bd.size - 1) PROVE mem'[i] \in Nat
    <3>1. CASE i \in out_bd.ptr..(out_bd.ptr + buf_size - 1)
      <4>1. i - out_bd.ptr \in Nat
        BY <3>1 DEF IInv, TypeOK
      <4>2. mem'[i] = written + 1 + (i - out_bd.ptr)
        BY <1>1, <2>1, <3>1
      <4>3. written \in Nat
        BY DEF IInv, TypeOK
      <4> QED
        BY <4>1, <4>2, <4>3
    <3>2. CASE i \notin out_bd.ptr..(out_bd.ptr + buf_size - 1)
      BY <1>1, <2>1, <3>2 DEF IInv, TypeOK
    <3> QED
      BY <3>1, <3>2
  <2>3. mem' = [i \in 0..(out_bd.size - 1) |-> mem'[i]]
    BY <1>1, <2>1
  <2> QED
    BY <2>1, <2>2, <2>3
<1>5. TypeOK'
  BY SMTT(20), <1>1, <1>3, <1>4 DEF IInv, TypeOK, inVars
<1>6. ASSUME seeks = 0 PROVE StreamKept'
  <2>1. out_bd'.ptr = written' /\ out_bd'.size = out_bd.size /\ out_bd.ptr = written
    BY <1>1, <1>2, <1>6 DEF IInv, TypeOK, Unseeked, StreamKept
  <2>2. DOMAIN mem = 0..(out_bd.size - 1)
    BY DEF IInv, TypeOK
  <2>3. written \in Nat /\ buf_size \in Nat
    BY DEF IInv, TypeOK
  <2>4. ASSUME NEW i \in 0..(out_bd.size - 1), i < written + buf_size
        PROVE  mem'[i] = i + 1
    <3>0. i \in Nat
      OBVIOUS
    <3>1. CASE i < written
      <4>1. i \notin out_bd.ptr..(out_bd.ptr + buf_size - 1)
        BY <2>1, <2>3, <3>0, <3>1
      <4> QED
        BY <1>1, <1>6, <2>2, <3>1, <4>1 DEF IInv, Unseeked, StreamKept
    <3>2. CASE i >= written
      <4>1. i \in out_bd.ptr..(out_bd.ptr + buf_size - 1)
        BY <2>1, <2>3, <2>4, <3>0, <3>2
      <4>2. mem'[i] = written + 1 + (i - out_bd.ptr)
        BY <1>1, <2>2, <4>1
      <4> QED
        BY <2>1, <2>3, <3>0, <4>2
    <3> QED
      BY <3>0, <3>1, <3>2, <2>3
  <2> QED
    BY <1>1, <2>1, <2>4 DEF StreamKept
<1>7. seeks' = 0 => Unseeked'
  <2> SUFFICES ASSUME seeks = 0 PROVE Unseeked'
    BY <1>1
  <2>1. RoomIsSizeLeft'
    BY <1>1, <1>2 DEF IInv, TypeOK, Unseeked, RoomIsSizeLeft, inVars
  <2> QED
    BY <1>1, <1>6, <2>1 DEF IInv, Unseeked, DeliveredUnlessGrown, inVars
<1>8. RoomCountsReads'
  BY <1>1 DEF IInv, RoomCountsReads, inVars
<1> QED
  BY <1>1, <1>2, <1>5, <1>7, <1>8 DEF IInv, inVars

\* Setting the bitstream keeps the invariant: the vector that never grew holds
\* the bytes written, and is cut to them.
LEMMA FinishIInv ==
  ASSUME IInv, Finish
  PROVE  IInv'
<1> USE BufferAssumption
<1> DEFINE n == out_bd.size - out_bd.room
<1>1. /\ videoBitstream' = [i \in 1..n |-> outVec(i - 1)]
      /\ pc' = "done"
      /\ UNCHANGED <<inVars, out_bd, mem, inPlace, buf_size, written, seeks>>
  BY DEF Finish
<1>2. n \in Int /\ n <= out_bd.size
  BY DEF IInv, TypeOK
<1>3. \A i \in 1..n : outVec(i - 1) \in Nat
  <2> SUFFICES ASSUME NEW i \in 1..n PROVE outVec(i - 1) \in Nat
    OBVIOUS
  <2>1. i - 1 \in 0..(out_bd.size - 1)
    BY <1>2 DEF IInv, TypeOK
  <2> QED
    BY <2>1 DEF outVec, Lost, IInv, TypeOK
<1>4. videoBitstream' \in Seq(Nat)
  BY <1>1, <1>2, <1>3
<1>5. TypeOK'
  BY <1>1, <1>4 DEF IInv, TypeOK, inVars
<1>6. ASSUME seeks = 0, out_bd.buf = "vector"
      PROVE  videoBitstream' = Bytes(1, written)
  <2>0. n \in Nat /\ n = written
    BY <1>6 DEF IInv, TypeOK, Unseeked, RoomIsSizeLeft, StreamKept
  <2>1. \A i \in 1..n : outVec(i - 1) = i
    <3> SUFFICES ASSUME NEW i \in 1..n PROVE outVec(i - 1) = i
      OBVIOUS
    <3>1. i - 1 \in 0..(out_bd.size - 1) /\ i - 1 < written
      BY <1>2, <2>0 DEF IInv, TypeOK
    <3>2. mem[i - 1] = (i - 1) + 1
      BY <1>6, <3>1 DEF IInv, Unseeked, StreamKept
    <3> QED
      BY <1>6, <3>2, <2>0 DEF outVec
  <2>2. Bytes(1, written) = [i \in 1..n |-> i]
    BY <2>0, FirstBytes
  <2> QED
    BY <1>1, <2>1, <2>2
<1>7. seeks' = 0 => Unseeked'
  <2> SUFFICES ASSUME seeks = 0 PROVE Unseeked'
    BY <1>1
  <2>1. RoomIsSizeLeft' /\ StreamKept'
    BY <1>1 DEF IInv, Unseeked, RoomIsSizeLeft, StreamKept, inVars
  <2>2. DeliveredUnlessGrown'
    BY <1>1, <1>6 DEF DeliveredUnlessGrown
  <2> QED
    BY <1>1, <2>1, <2>2 DEF IInv, Unseeked, inVars
<1>8. RoomCountsReads'
  BY <1>1 DEF IInv, RoomCountsReads, inVars
<1> QED
  BY <1>1, <1>5, <1>7, <1>8 DEF IInv, inVars

\* A seek keeps the invariant: it moves ptr within the buffer, and nothing that
\* is said of runs without seeks has to hold any more.
LEMMA SeekIInv ==
  ASSUME IInv, NEW to, seek(to)
  PROVE  IInv'
<1> USE BufferAssumption
<1>1. /\ seeks' = seeks + 1 /\ seeks < Seeks
      /\ UNCHANGED <<demuxed, mem, inPlace, pc, buf_size, written, videoBitstream>>
  BY DEF seek
<1>2. seeks \in Nat /\ seeks' \in 0..Seeks /\ seeks' # 0
  BY <1>1 DEF IInv, TypeOK
<1>3. CASE to \in 0..in_bd.size /\ in_bd' = [in_bd EXCEPT !.ptr = to] /\ UNCHANGED out_bd
  <2>1. in_bd' = [size |-> in_bd.size, ptr |-> to, room |-> in_bd.room]
    BY <1>3 DEF IInv, TypeOK
  <2>2. to \in Nat /\ to <= in_bd.size
    BY <1>3 DEF IInv, TypeOK
  <2>3. in_bd' \in [size : Nat, ptr : Nat, room : Nat]
    BY <2>1, <2>2 DEF IInv, TypeOK
  <2>4. TypeOK'
    BY <1>1, <1>2, <1>3, <2>3 DEF IInv, TypeOK
  <2>5. RoomCountsReads'
    BY <1>1, <2>1 DEF IInv, RoomCountsReads
  <2> QED
    BY <1>2, <1>3, <2>1, <2>2, <2>4, <2>5 DEF IInv
<1>4. CASE to \in 0..out_bd.size /\ out_bd' = [out_bd EXCEPT !.ptr = to] /\ UNCHANGED in_bd
  <2>1. out_bd' = [buf |-> out_bd.buf, size |-> out_bd.size, ptr |-> to,
                   room |-> out_bd.room]
    BY <1>4 DEF IInv, TypeOK
  <2>2. to \in Nat /\ to <= out_bd.size
    BY <1>4 DEF IInv, TypeOK
  <2>3. out_bd' \in [buf : {"vector", "heap", "null"}, size : Nat, ptr : Nat, room : Nat]
    BY <2>1, <2>2 DEF IInv, TypeOK
  <2>4. TypeOK'
    BY <1>1, <1>2, <1>4, <2>1, <2>3 DEF IInv, TypeOK
  <2>5. RoomCountsReads'
    BY <1>1, <1>4 DEF IInv, RoomCountsReads
  <2> QED
    BY <1>2, <1>4, <2>1, <2>2, <2>4, <2>5 DEF IInv
<1> QED
  BY <1>3, <1>4 DEF seek

\* A copy that leaves its buffer keeps the invariant: there must have been a
\* seek, as room is the size left without one.
LEMMA OverrunIInv ==
  ASSUME IInv, CopyOverruns \/ \E n \in ReadSizes : ReadOverruns(n)
  PROVE  IInv'
<1> USE BufferAssumption
<1>1. /\ pc' = "crash"
      /\ UNCHANGED <<inVars, out_bd, mem, inPlace, buf_size, written, seeks, videoBitstream>>
  BY DEF CopyOverruns, ReadOverruns
<1>2. seeks # 0
  <2>1. CASE CopyOverruns
    BY <2>1 DEF CopyOverruns, IInv, TypeOK, Unseeked, RoomIsSizeLeft
  <2>2. ASSUME NEW n \in ReadSizes, ReadOverruns(n) PROVE seeks # 0
    BY <2>2 DEF ReadOverruns, IInv, TypeOK, Unseeked, RoomIsSizeLeft
  <2> QED
    BY <2>1, <2>2
<1> QED
  BY <1>1, <1>2 DEF IInv, TypeOK, RoomCountsReads, inVars

\* Every step of transcodeVideo keeps the invariant.
LEMMA StepIInv ==
  ASSUME IInv, [Next]_vars
  PROVE  IInv'
<1> USE BufferAssumption
<1>1. ASSUME NEW n \in ReadSizes, read_packet(n) PROVE IInv'
  BY <1>1, ReadIInv
<1>2. ASSUME NEW n \in WriteSizes, write_packet(n) PROVE IInv'
  BY <1>2 DEF write_packet, inVars, IInv, TypeOK, RoomCountsReads, Unseeked,
              RoomIsSizeLeft, StreamKept, DeliveredUnlessGrown
<1>3. CASE Grow
  BY <1>3, GrowIInv
<1>4. CASE GrowFails
  <2>1. out_bd' = [buf |-> "null", size |-> out_bd.size,
                   ptr |-> out_bd.ptr, room |-> out_bd.room]
    BY <1>4 DEF GrowFails, IInv, TypeOK
  <2> QED
    BY <1>4, <2>1 DEF GrowFails, inVars, IInv, TypeOK, RoomCountsReads, Unseeked,
                      RoomIsSizeLeft, StreamKept, DeliveredUnlessGrown
<1>5. CASE Copy
  BY <1>5, CopyIInv
<1>6. ASSUME NEW to \in 0..(MaxOut + VideoSize), seek(to) PROVE IInv'
  BY <1>6, SeekIInv
<1>7. CASE Finish
  BY <1>7, FinishIInv
<1>8. CASE UNCHANGED vars
  BY <1>8 DEF vars, inVars, outVars, IInv, TypeOK, RoomCountsReads, Unseeked,
              RoomIsSizeLeft, StreamKept, DeliveredUnlessGrown
<1>9. CASE CopyOverruns \/ \E n \in ReadSizes : ReadOverruns(n)
  BY <1>9, OverrunIInv
<1> QED
  BY <1>1, <1>2, <1>3, <1>4, <1>5, <1>6, <1>7, <1>8, <1>9 DEF Next

\* The state is well typed, always; until libav seeks, room is the size left in
\* both buffers, no copy leaves its buffer, the input
\* is given out in order, the output buffer holds exactly the bytes written
\* whatever growth happened, and the bitstream receives them if none did.
LEMMA BuffersCorrect ==
  Spec => [](/\ TypeOK
             /\ RoomLeftUnlessSought
             /\ CopyFits
             /\ StreamKept
             /\ ReadsInOrder
             /\ DeliveredUnlessGrown)
<1>1. Init => IInv
  BY InitIInv
<1>2. IInv /\ [Next]_vars => IInv'
  BY StepIInv
<1>3. IInv => TypeOK /\ RoomLeftUnlessSought
  BY DEF IInv, Unseeked, RoomLeftUnlessSought
<1>4. IInv => CopyFits
  BY DEF IInv, TypeOK, Unseeked, CopyFits
<1>5. IInv => StreamKept /\ DeliveredUnlessGrown
  BY DEF IInv, Unseeked, StreamKept, DeliveredUnlessGrown
<1>6. IInv => ReadsInOrder
  <2> SUFFICES ASSUME IInv, seeks = 0 PROVE ReadsInOrder
    BY DEF ReadsInOrder
  <2>1. Len(demuxed) = in_bd.ptr
    BY FirstBytes DEF IInv, TypeOK, Unseeked
  <2> QED
    BY <2>1 DEF IInv, TypeOK, Unseeked, RoomCountsReads, ReadsInOrder
<1> QED
  BY <1>1, <1>2, <1>3, <1>4, <1>5, <1>6, PTL DEF Spec

\* The counters of both buffers stay natural numbers, through every growth of
\* write_packet and every seek: room never wraps below zero.
THEOREM BufferTypes == Spec => []TypeOK
  BY BuffersCorrect, PTL

\* Until libav seeks, room is the size left in both buffers, through reads,
\* writes and growths of every size.
THEOREM RoomInStep == Spec => []RoomLeftUnlessSought
  BY BuffersCorrect, PTL

\* Until libav seeks, the memcpy of read_packet and of write_packet stay in
\* their blocks, for requests of every size.
THEOREM CopiesFit == Spec => []CopyFits
  BY BuffersCorrect, PTL

\* What libav wrote is kept in its place through every number of growths.
THEOREM GrowthKeepsBytes == Spec => []StreamKept
  BY BuffersCorrect, PTL

\* Until libav seeks, read_packet hands out the video in order and whole.
THEOREM InputInOrder == Spec => []ReadsInOrder
  BY BuffersCorrect, PTL

\* out_vec, which transcodeVideo copies to the bitstream, is what libav wrote
\* when write_packet never had to grow it.
THEOREM UngrownDelivered == Spec => []DeliveredUnlessGrown
  BY BuffersCorrect, PTL
=============================================================================
