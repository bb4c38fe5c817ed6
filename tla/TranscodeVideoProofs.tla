------------------------ MODULE TranscodeVideoProofs ------------------------
(***************************************************************************)
(* Proofs about transcodeVideo, for videos of every length, every coded    *)
(* order, every delay of the two codecs and every pattern of failures.     *)
(***************************************************************************)
EXTENDS TranscodeVideo, SequenceTheorems, TLAPS

\* The header is written once, before the first packet.
HeaderOnce ==
  headers = IF nout = 0 THEN 0 ELSE 1

Packet == [frame : Frames, pts : Nat]

\* What the decoder holds: the frames of the packets read so far, without those
\* it has returned, which are the first nout of the video.
DecoderInv ==
  /\ Len(order) \in Nat
  /\ order \in CodedOrders(Len(order))
  /\ \A f \in 1..nout : \E k \in 1..nread : order[k] = f
  /\ dec = {order[k] : k \in 1..nread} \ (1..nout)

\* Where each of the frames the decoder has returned is.
FrameInv ==
  /\ frameIdx = nout
  /\ frame # 0 <=> pc = "send" /\ ~flushing
  /\ frame # 0 => frame = nout /\ frame \notin dropped
  /\ dropped \subseteq 1..nout
  /\ FramesOf(Packets) = (1..nout) \ (dropped \cup {frame})

\* What is known at each place of the loop.
ControlInv ==
  /\ initialized <=> nout > 0
  /\ pc \in {"read", "crash"} => nread <= nout + Delay
  /\ initialized => nout + Delay <= nread
  /\ flushing => nread <= nout + Delay /\ (initialized \/ pc = "crash")
  /\ flushing => nread = Len(order) /\ pc \in {"send", "drain", "trailer", "done", "exit", "crash"}
  /\ pc \in {"trailer", "done"} => enc = <<>> /\ flushing
  /\ pc = "crash" => nout = 0 /\ nread = Len(order)

IInv ==
  /\ TypeOK
  /\ DecoderInv
  /\ FrameInv
  /\ ControlInv
  /\ FramesInOrder
  /\ HeaderOnce

-----------------------------------------------------------------------------
\* Moving the first element of t to the end of s leaves s \o t as it is.
LEMMA MoveHead ==
  ASSUME NEW S, NEW s \in Seq(S), NEW t \in Seq(S), t # <<>>
  PROVE  Append(s, Head(t)) \o Tail(t) = s \o t
<1>1. /\ Head(t) \in S /\ Tail(t) \in Seq(S) /\ Len(Tail(t)) = Len(t) - 1
      /\ Head(t) = t[1] /\ Len(t) \in Nat \ {0}
      /\ \A i \in 1..(Len(t) - 1) : Tail(t)[i] = t[i + 1]
  BY HeadTailProperties, EmptySeq
<1>2. /\ Append(s, Head(t)) \in Seq(S) /\ Len(Append(s, Head(t))) = Len(s) + 1
      /\ \A i \in 1..Len(s) : Append(s, Head(t))[i] = s[i]
      /\ Append(s, Head(t))[Len(s) + 1] = Head(t)
  BY <1>1, AppendProperties
<1> DEFINE a == Append(s, Head(t))
           b == Tail(t)
<1>3. a \in Seq(S) /\ b \in Seq(S)
  BY <1>1, <1>2
<1>4. /\ a \o b \in Seq(S) /\ Len(a \o b) = Len(a) + Len(b)
      /\ \A i \in 1..(Len(a) + Len(b)) :
           (a \o b)[i] = IF i <= Len(a) THEN a[i] ELSE b[i - Len(a)]
  BY <1>3, ConcatProperties
<1>5. /\ s \o t \in Seq(S) /\ Len(s \o t) = Len(s) + Len(t)
      /\ \A i \in 1..(Len(s) + Len(t)) :
           (s \o t)[i] = IF i <= Len(s) THEN s[i] ELSE t[i - Len(s)]
  BY ConcatProperties
<1>6. Len(s) \in Nat /\ Len(a) = Len(s) + 1 /\ Len(b) = Len(t) - 1
  BY <1>1, <1>2, LenProperties
<1> HIDE DEF a, b
<1>7. Len(a \o b) = Len(s \o t)
  BY <1>1, <1>4, <1>5, <1>6
<1>8. \A i \in 1..Len(s \o t) : (a \o b)[i] = (s \o t)[i]
  <2> SUFFICES ASSUME NEW i \in 1..(Len(s) + Len(t))
               PROVE  (a \o b)[i] = (s \o t)[i]
    BY <1>5
  <2>0. i \in 1..(Len(a) + Len(b))
    BY <1>1, <1>6
  <2>1. CASE i <= Len(s)
    <3>1. i \in 1..Len(s)
      BY <2>1, <1>1, <1>6
    <3>2. (a \o b)[i] = a[i]
      BY <2>0, <2>1, <1>4, <1>6
    <3>3. a[i] = s[i]
      BY <3>1, <1>2 DEF a
    <3> QED
      BY <3>2, <3>3, <2>1, <1>5
  <2>2. CASE i = Len(s) + 1
    <3>1. (a \o b)[i] = a[i]
      BY <2>0, <2>2, <1>4, <1>6
    <3>2. a[i] = t[1]
      BY <2>2, <1>1, <1>2 DEF a
    <3>3. (s \o t)[i] = t[i - Len(s)]
      BY <2>2, <1>5, <1>6
    <3>4. i - Len(s) = 1
      BY <2>2, <1>6
    <3> QED
      BY <3>1, <3>2, <3>3, <3>4
  <2>3. CASE i > Len(s) + 1
    <3>1. (a \o b)[i] = b[i - Len(a)]
      BY <2>0, <2>3, <1>4, <1>6
    <3>2. i - Len(a) \in 1..(Len(t) - 1) /\ i - Len(a) + 1 = i - Len(s)
      BY <2>3, <1>1, <1>6
    <3>3. b[i - Len(a)] = t[i - Len(s)]
      BY <3>2, <1>1 DEF b
    <3>4. (s \o t)[i] = t[i - Len(s)]
      BY <2>3, <1>5, <1>6
    <3> QED
      BY <3>1, <3>3, <3>4
  <2>4. i <= Len(s) \/ i = Len(s) + 1 \/ i > Len(s) + 1
    BY <1>1, <1>6
  <2> QED
    BY <2>1, <2>2, <2>3, <2>4
<1> QED
  BY <1>4, <1>5, <1>7, <1>8, SeqEqual DEF a, b

\* The packets after one more frame was sent to the encoder.
LEMMA PacketsAppend ==
  ASSUME NEW S, NEW s \in Seq(S), NEW t \in Seq(S), NEW e \in S
  PROVE  /\ Len(s \o Append(t, e)) = Len(s \o t) + 1
         /\ Len(s \o t) = Len(s) + Len(t)
         /\ \A i \in 1..Len(s \o t) : (s \o Append(t, e))[i] = (s \o t)[i]
         /\ (s \o Append(t, e))[Len(s \o t) + 1] = e
<1> DEFINE u == Append(t, e)
<1>1. /\ u \in Seq(S) /\ Len(u) = Len(t) + 1
      /\ \A i \in 1..Len(t) : u[i] = t[i]
      /\ u[Len(t) + 1] = e
  BY AppendProperties
<1> HIDE DEF u
<1>2. /\ Len(s \o u) = Len(s) + Len(u)
      /\ \A i \in 1..(Len(s) + Len(u)) :
           (s \o u)[i] = IF i <= Len(s) THEN s[i] ELSE u[i - Len(s)]
  BY <1>1, ConcatProperties
<1>3. /\ Len(s \o t) = Len(s) + Len(t)
      /\ \A i \in 1..(Len(s) + Len(t)) :
           (s \o t)[i] = IF i <= Len(s) THEN s[i] ELSE t[i - Len(s)]
  BY ConcatProperties
<1>4. Len(s) \in Nat /\ Len(t) \in Nat
  BY LenProperties
<1>5. \A i \in 1..Len(s \o t) : (s \o u)[i] = (s \o t)[i]
  <2> SUFFICES ASSUME NEW i \in 1..(Len(s) + Len(t))
               PROVE  (s \o u)[i] = (s \o t)[i]
    BY <1>3
  <2>0. i \in 1..(Len(s) + Len(u))
    BY <1>1, <1>4
  <2>1. CASE i <= Len(s)
    BY <2>0, <2>1, <1>2, <1>3
  <2>2. CASE ~(i <= Len(s))
    <3>1. i - Len(s) \in 1..Len(t)
      BY <2>2, <1>4
    <3> QED
      BY <3>1, <2>0, <2>2, <1>1, <1>2, <1>3
  <2> QED
    BY <2>1, <2>2
<1>6. (s \o u)[Len(s \o t) + 1] = e
  <2>1. Len(s \o t) + 1 \in 1..(Len(s) + Len(u)) /\ ~(Len(s \o t) + 1 <= Len(s))
        /\ Len(s \o t) + 1 - Len(s) = Len(t) + 1
    BY <1>1, <1>3, <1>4
  <2> QED
    BY <2>1, <1>1, <1>2
<1>7. Len(s \o u) = Len(s \o t) + 1
  BY <1>1, <1>2, <1>3, <1>4
<1> QED
  BY <1>3, <1>5, <1>6, <1>7 DEF u

\* The facts about order that do not mention its definition.
LEMMA OrderFacts ==
  ASSUME DecoderInv
  PROVE  /\ \A k \in 1..Len(order) : order[k] \in Frames /\ k <= order[k] + Delay
         /\ \A f \in Frames : \E k \in 1..Len(order) : order[k] = f
         /\ \A j, k \in 1..Len(order) : order[j] = order[k] => j = k
BY DEF DecoderInv, CodedOrders, Frames

\* What is known of the decoder stays true while the decoder is left alone.
LEMMA DecoderLeftAlone ==
  ASSUME DecoderInv, UNCHANGED decvars
  PROVE  DecoderInv'
<1>1. order' = order /\ nread' = nread /\ dec' = dec /\ nout' = nout
  BY DEF decvars
<1>2. CodedOrders(Len(order))' = CodedOrders(Len(order))
  BY <1>1 DEF CodedOrders
<1>3. Len(order)' = Len(order) /\ (\A f \in 1..nout : \E k \in 1..nread : order[k] = f)'
  BY <1>1 DEF DecoderInv
<1>4. dec' = ({order[k] : k \in 1..nread} \ (1..nout))'
  BY <1>1 DEF DecoderInv
<1> QED
  BY <1>1, <1>2, <1>3, <1>4 DEF DecoderInv

LEMMA InitIInv == Init => IInv
<1> SUFFICES ASSUME Init PROVE IInv
  OBVIOUS
<1>1. PICK n \in 1..MaxFrames : order \in CodedOrders(n)
  BY DEF Init
<1>2. n \in Nat
  BY VideoAssumption
<1>3. Len(order) = n
  BY <1>1, <1>2 DEF CodedOrders
<1>4. Packets = <<>> /\ DOMAIN Packets = {}
  BY DEF Init, Packets
<1>5. TypeOK
  <2>1. 0 \in 0..Len(order) /\ 0 \in 0..0
    BY <1>2, <1>3
  <2>2. enc \in Seq(Packet) /\ written \in Seq(Packet)
    BY EmptySeq DEF Init
  <2> QED
    BY <2>1, <2>2 DEF Init, TypeOK, Packet
<1>6. DecoderInv
  BY <1>1, <1>2, <1>3 DEF Init, DecoderInv
<1>7. FrameInv
  <2>1. FramesOf(Packets) = {}
    BY <1>4 DEF FramesOf
  <2> QED
    BY <2>1 DEF Init, FrameInv
<1>8. ControlInv
  BY VideoAssumption DEF Init, ControlInv
<1>9. FramesInOrder /\ HeaderOnce
  BY <1>4 DEF Init, FramesInOrder, HeaderOnce
<1> QED
  BY <1>5, <1>6, <1>7, <1>8, <1>9 DEF IInv

LEMMA ReadPacketIInv == IInv /\ ReadPacket => IInv'
<1> SUFFICES ASSUME IInv, ReadPacket PROVE IInv'
  OBVIOUS
<1> USE VideoAssumption
<1>0. /\ order' = order /\ nout' = nout /\ nread' = nread + 1
      /\ nread \in Nat /\ nout \in Nat /\ nread + 1 \in 1..Len(order) /\ Len(order) \in Nat
      /\ nout <= nread
  BY DEF ReadPacket, IInv, TypeOK, DecoderInv
<1>1. order[nread + 1] \in Frames
  BY <1>0, OrderFacts DEF IInv
<1>2. Packets' = Packets /\ Frames' = Frames
  BY DEF ReadPacket, Packets, encvars, Frames
<1>3. TypeOK'
  <2>1. dec' \subseteq Frames'
    BY <1>1, <1>2 DEF ReadPacket, IInv, TypeOK
  <2>2. nread' \in 0..Len(order)' /\ nout' \in 0..nread'
    BY <1>0
  <2> QED
    BY <1>2, <2>1, <2>2 DEF ReadPacket, IInv, TypeOK, encvars
<1>4. DecoderInv'
  <2>1. \A f \in 1..nout : \E k \in 1..(nread + 1) : order[k] = f
    BY <1>0 DEF IInv, DecoderInv
  <2>2. order[nread + 1] \notin 1..nout
    <3> SUFFICES ASSUME order[nread + 1] \in 1..nout PROVE FALSE
      OBVIOUS
    <3>1. PICK k \in 1..nread : order[k] = order[nread + 1]
      BY DEF IInv, DecoderInv
    <3>2. k \in 1..Len(order) /\ k # nread + 1
      BY <1>0
    <3> QED
      BY <1>0, <3>1, <3>2, OrderFacts DEF IInv
  <2>3. {order[k] : k \in 1..(nread + 1)} = {order[k] : k \in 1..nread} \cup {order[nread + 1]}
    <3>1. 1..(nread + 1) = (1..nread) \cup {nread + 1}
      BY <1>0
    <3> QED
      BY <3>1
  <2>4. dec' = {order[k] : k \in 1..(nread + 1)} \ (1..nout)
    BY <2>2, <2>3 DEF ReadPacket, IInv, DecoderInv
  <2>5. CodedOrders(Len(order))' = CodedOrders(Len(order))
    BY <1>0 DEF CodedOrders
  <2> QED
    BY <1>0, <2>1, <2>4, <2>5 DEF IInv, DecoderInv
<1>5. FrameInv'
  BY <1>0, <1>2 DEF ReadPacket, IInv, FrameInv, encvars, FramesOf, ControlInv
<1>6. ControlInv'
  BY <1>0 DEF ReadPacket, IInv, ControlInv, encvars
<1>7. FramesInOrder' /\ HeaderOnce'
  BY <1>0, <1>2 DEF ReadPacket, IInv, FramesInOrder, HeaderOnce, encvars
<1> QED
  BY <1>3, <1>4, <1>5, <1>6, <1>7 DEF IInv

\* The decoder returns the next frame of the video.
LEMMA NextFrame ==
  ASSUME IInv, ReceiveFrame
  PROVE  frame' = nout + 1 /\ dec' = dec \ {nout + 1} /\ nout + 1 \in Frames
         /\ \E k \in 1..nread : order[k] = nout + 1
<1> USE VideoAssumption
<1>1. /\ nread \in Nat /\ nout \in Nat /\ Len(order) \in Nat
      /\ nout + Delay + 1 <= nread /\ nread <= Len(order)
  BY DEF ReceiveFrame, initEncoder, IInv, TypeOK, DecoderInv
<1>2. nout + 1 \in Frames
  BY <1>1 DEF Frames
<1>3. PICK k \in 1..Len(order) : order[k] = nout + 1
  BY <1>2, OrderFacts DEF IInv
<1>4. k <= (nout + 1) + Delay
  BY <1>3, OrderFacts DEF IInv
<1>5. k \in 1..nread
  BY <1>1, <1>4
<1>6. nout + 1 \in dec
  BY <1>1, <1>3, <1>5 DEF IInv, DecoderInv
<1>7. PICK f \in dec : (\A g \in dec : f <= g) /\ frame' = f /\ dec' = dec \ {f}
  BY DEF ReceiveFrame, initEncoder
<1>8. f = nout + 1
  <2>1. f <= nout + 1
    BY <1>6, <1>7
  <2>2. f \in Frames /\ f \notin 1..nout
    BY <1>7 DEF IInv, TypeOK, DecoderInv
  <2> QED
    BY <1>1, <2>1, <2>2 DEF Frames
<1> QED
  BY <1>2, <1>3, <1>5, <1>7, <1>8

LEMMA ReceiveFrameIInv == IInv /\ ReceiveFrame => IInv'
<1> SUFFICES ASSUME IInv, ReceiveFrame PROVE IInv'
  OBVIOUS
<1> USE VideoAssumption
<1>0. /\ frame' = nout + 1 /\ dec' = dec \ {nout + 1} /\ nout + 1 \in Frames
      /\ \E k \in 1..nread : order[k] = nout + 1
  BY NextFrame
<1>1. /\ order' = order /\ nread' = nread /\ nout' = nout + 1
      /\ nread \in Nat /\ nout \in Nat /\ Len(order) \in Nat
      /\ nout + 1 <= nread /\ pc = "receive" /\ pc' = "send" /\ frame = 0
      /\ flushing = FALSE
  BY DEF ReceiveFrame, initEncoder, IInv, TypeOK, DecoderInv, FrameInv, ControlInv
<1>2. Packets' = Packets /\ Frames' = Frames
  BY DEF ReceiveFrame, initEncoder, Packets, Frames
<1>3. TypeOK'
  BY <1>0, <1>1, <1>2 DEF ReceiveFrame, initEncoder, IInv, TypeOK
<1>4. DecoderInv'
  <2>1. 1..(nout + 1) = (1..nout) \cup {nout + 1}
    BY <1>1
  <2>2. dec' = {order[k] : k \in 1..nread} \ (1..(nout + 1))
    BY <1>0, <2>1 DEF IInv, DecoderInv
  <2>3. \A f \in 1..(nout + 1) : \E k \in 1..nread : order[k] = f
    BY <1>0, <2>1 DEF IInv, DecoderInv
  <2>4. CodedOrders(Len(order))' = CodedOrders(Len(order))
    BY <1>1 DEF CodedOrders
  <2> QED
    BY <1>1, <2>2, <2>3, <2>4 DEF IInv, DecoderInv
<1>5. FrameInv'
  <2>1. FramesOf(Packets)' = (1..nout) \ dropped
    BY <1>1, <1>2 DEF IInv, FrameInv, FramesOf
  <2>2. (1..nout) \ dropped = (1..(nout + 1)) \ (dropped \cup {nout + 1})
    BY <1>1
  <2>3. nout + 1 \notin dropped /\ dropped \subseteq 1..(nout + 1) /\ nout + 1 # 0
    BY <1>1 DEF IInv, FrameInv
  <2> QED
    BY <1>0, <1>1, <2>1, <2>2, <2>3 DEF ReceiveFrame, initEncoder, IInv, FrameInv
<1>6. ControlInv'
  BY <1>1 DEF ReceiveFrame, initEncoder, IInv, ControlInv
<1>7. FramesInOrder'
  BY <1>2 DEF IInv, FramesInOrder
<1>8. HeaderOnce'
  BY <1>1 DEF ReceiveFrame, initEncoder, IInv, HeaderOnce, ControlInv
<1> QED
  BY <1>3, <1>4, <1>5, <1>6, <1>7, <1>8 DEF IInv

\* SendFrame puts the frame the decoder returned last behind all the others.
LEMMA SendFrameIInv == IInv /\ SendFrame => IInv'
<1> SUFFICES ASSUME IInv, SendFrame PROVE IInv'
  OBVIOUS
<1> DEFINE e == [frame |-> frame, pts |-> frameIdx - 1]
           m == Len(Packets)
<1>1. /\ pc = "send" /\ pc' = "drain" /\ flushing = FALSE /\ flushing' = FALSE
      /\ frame = nout /\ frameIdx = nout /\ frame # 0 /\ frame \notin dropped /\ frame' = 0
      /\ nout \in Nat \ {0} /\ frame \in Frames
      /\ order' = order /\ nread' = nread /\ dec' = dec /\ nout' = nout
      /\ frameIdx' = frameIdx /\ initialized' = initialized /\ headers' = headers
      /\ written' = written /\ dropped' = dropped
  BY DEF SendFrame, IInv, TypeOK, FrameInv, ControlInv, decvars
<1>2. e \in Packet /\ e.frame = nout /\ e.pts = nout - 1
  BY <1>1 DEF Packet
<1>3. enc \in Seq(Packet) /\ written \in Seq(Packet) /\ enc' = Append(enc, e)
  BY DEF IInv, TypeOK, SendFrame, Packet
<1> HIDE DEF e
<1>4. /\ Packets \in Seq(Packet) /\ m \in Nat /\ DOMAIN Packets = 1..m
      /\ Packets' \in Seq(Packet)
  <2>1. Append(enc, e) \in Seq(Packet)
    BY <1>2, <1>3, AppendProperties
  <2>2. Packets' = written \o Append(enc, e)
    BY <1>1, <1>3 DEF Packets
  <2> QED
    BY <1>3, <2>1, <2>2, ConcatProperties, LenProperties DEF Packets
<1>5. /\ Len(Packets') = m + 1
      /\ \A i \in 1..m : Packets'[i] = Packets[i]
      /\ Packets'[m + 1] = e
  BY <1>1, <1>2, <1>3, PacketsAppend DEF Packets
<1> HIDE DEF m
<1>6. DOMAIN Packets' = 1..(m + 1) /\ 1..(m + 1) = (1..m) \cup {m + 1}
  BY <1>4, <1>5, LenProperties
<1>7. FramesOf(Packets') = FramesOf(Packets) \cup {nout}
  BY <1>2, <1>4, <1>5, <1>6 DEF FramesOf
<1>8. \A k \in 1..m : Packets[k].frame \in Nat /\ Packets[k].frame < nout
  <2> SUFFICES ASSUME NEW k \in 1..m
               PROVE  Packets[k].frame \in Nat /\ Packets[k].frame < nout
    OBVIOUS
  <2>1. Packets[k].frame \in FramesOf(Packets)
    BY <1>4 DEF FramesOf
  <2>2. Packets[k].frame \in (1..nout) \ {nout}
    BY <1>1, <2>1 DEF IInv, FrameInv
  <2> QED
    BY <1>1, <2>2
<1>9. TypeOK'
  <2>1. Append(enc, e) \in Seq(Packet)
    BY <1>2, <1>3, AppendProperties
  <2>2. Frames' = Frames
    BY <1>1 DEF Frames
  <2> QED
    BY <1>1, <1>3, <2>1, <2>2 DEF IInv, TypeOK, Packet
<1>10. DecoderInv'
  BY <1>1, DecoderLeftAlone DEF IInv, decvars
<1>11. FrameInv'
  <2>1. FramesOf(Packets)' = FramesOf(Packets')
    BY DEF FramesOf
  <2>2. FramesOf(Packets') = (1..nout) \ (dropped \cup {0})
    BY <1>1, <1>7 DEF IInv, FrameInv
  <2> QED
    BY <1>1, <2>1, <2>2 DEF IInv, FrameInv
<1>12. ControlInv'
  BY <1>1 DEF IInv, ControlInv
<1>13. FramesInOrder'
  <2>1. ASSUME NEW j \in 1..(m + 1), NEW k \in 1..(m + 1), j < k
        PROVE  Packets'[j].frame < Packets'[k].frame
    <3>1. j \in 1..m
      BY <1>4, <2>1
    <3>2. CASE k \in 1..m
      BY <1>4, <1>5, <2>1, <3>1, <3>2 DEF IInv, FramesInOrder
    <3>3. CASE k = m + 1
      BY <1>2, <1>5, <1>8, <3>1, <3>3
    <3> QED
      BY <1>6, <3>2, <3>3
  <2>2. ASSUME NEW k \in 1..(m + 1)
        PROVE  Packets'[k].pts = Packets'[k].frame - 1
    <3>1. CASE k \in 1..m
      BY <1>4, <1>5, <3>1 DEF IInv, FramesInOrder
    <3>2. CASE k = m + 1
      BY <1>2, <1>5, <3>2
    <3> QED
      BY <1>6, <3>1, <3>2
  <2> QED
    BY <1>6, <2>1, <2>2 DEF FramesInOrder
<1>14. HeaderOnce'
  BY <1>1 DEF IInv, HeaderOnce
<1> QED
  BY <1>9, <1>10, <1>11, <1>12, <1>13, <1>14 DEF IInv

LEMMA SendFrameFailsIInv == IInv /\ SendFrameFails => IInv'
<1> SUFFICES ASSUME IInv, SendFrameFails PROVE IInv'
  OBVIOUS
<1>1. /\ pc = "send" /\ pc' = "receive" /\ flushing = FALSE /\ flushing' = FALSE
      /\ frame = nout /\ frameIdx = nout /\ frame # 0 /\ frame' = 0
      /\ nout \in Nat \ {0} /\ frame \in Frames
      /\ order' = order /\ nread' = nread /\ dec' = dec /\ nout' = nout
      /\ frameIdx' = frameIdx /\ initialized' = initialized /\ headers' = headers
      /\ enc' = enc /\ written' = written /\ dropped' = dropped \cup {nout}
  BY DEF SendFrameFails, IInv, TypeOK, FrameInv, ControlInv, decvars
<1>2. Packets' = Packets /\ Frames' = Frames /\ FramesOf(Packets)' = FramesOf(Packets)
  BY <1>1 DEF Packets, Frames, FramesOf
<1>3. TypeOK'
  BY <1>1, <1>2 DEF IInv, TypeOK
<1>4. DecoderInv'
  BY <1>1, DecoderLeftAlone DEF IInv, decvars
<1>5. FrameInv'
  <2>1. dropped' \subseteq 1..nout
    BY <1>1 DEF IInv, FrameInv
  <2>2. FramesOf(Packets)' = (1..nout) \ (dropped' \cup {0})
    BY <1>1, <1>2 DEF IInv, FrameInv
  <2> QED
    BY <1>1, <2>1, <2>2 DEF IInv, FrameInv
<1>6. ControlInv'
  BY <1>1 DEF IInv, ControlInv
<1>7. FramesInOrder' /\ HeaderOnce'
  BY <1>1, <1>2 DEF IInv, FramesInOrder, HeaderOnce
<1> QED
  BY <1>3, <1>4, <1>5, <1>6, <1>7 DEF IInv

\* Flush and the steps that only move on.
LEMMA ControlIInv ==
  IInv /\ (ReceiveAgain \/ Flush \/ SendFlush \/ DrainEnd \/ WriteTrailer \/ Exit) => IInv'
<1> SUFFICES ASSUME IInv,
                    ReceiveAgain \/ Flush \/ SendFlush \/ DrainEnd \/ WriteTrailer \/ Exit
             PROVE  IInv'
  OBVIOUS
<1> USE VideoAssumption
<1>1. /\ order' = order /\ nread' = nread /\ dec' = dec /\ nout' = nout
      /\ frame' = frame /\ frameIdx' = frameIdx /\ initialized' = initialized
      /\ headers' = headers /\ enc' = enc /\ written' = written /\ dropped' = dropped
  BY DEF ReceiveAgain, Flush, SendFlush, DrainEnd, WriteTrailer, Exit, decvars, encvars
<1>2. Packets' = Packets /\ Frames' = Frames /\ FramesOf(Packets)' = FramesOf(Packets)
  BY <1>1 DEF Packets, Frames, FramesOf
<1>3. TypeOK'
  <2>1. flushing' \in BOOLEAN
    BY DEF IInv, TypeOK, ReceiveAgain, Flush, SendFlush, DrainEnd, WriteTrailer, Exit, encvars
  <2>2. pc' \in {"read", "receive", "send", "drain", "trailer", "done", "exit", "crash"}
    BY DEF ReceiveAgain, Flush, SendFlush, DrainEnd, WriteTrailer, Exit
  <2> QED
    BY <1>1, <1>2, <2>1, <2>2 DEF IInv, TypeOK
<1>4. DecoderInv'
  BY <1>1, DecoderLeftAlone DEF IInv, decvars
<1>5. FrameInv'
  <2>1. frame' # 0 <=> pc' = "send" /\ ~flushing'
    BY <1>1 DEF IInv, TypeOK, FrameInv, ReceiveAgain, Flush, SendFlush, DrainEnd,
                WriteTrailer, Exit, encvars
  <2> QED
    BY <1>1, <1>2, <2>1 DEF IInv, FrameInv
<1>6. ControlInv'
  <2>0. nread \in Nat /\ nout \in Nat /\ enc \in Seq(Packet)
    BY DEF IInv, TypeOK, DecoderInv, Packet
  <2>1. CASE ReceiveAgain
    <3>1. nread <= nout + Delay
      BY <2>0, <2>1 DEF ReceiveAgain, IInv, TypeOK, DecoderInv
    <3> QED
      BY <1>1, <2>1, <3>1 DEF IInv, ControlInv, ReceiveAgain, encvars
  <2>2. CASE Flush
    BY <1>1, <2>0, <2>2 DEF IInv, ControlInv, Flush
  <2>3. CASE SendFlush
    BY <1>1, <2>3 DEF IInv, ControlInv, SendFlush, encvars
  <2>4. CASE DrainEnd
    <3>1. flushing => enc = <<>>
      BY <2>0, <2>4, EmptySeq, LenProperties DEF DrainEnd, PacketReady
    <3> QED
      BY <1>1, <2>4, <3>1 DEF IInv, ControlInv, DrainEnd, encvars
  <2>5. CASE WriteTrailer
    BY <1>1, <2>5 DEF IInv, ControlInv, WriteTrailer, encvars
  <2>6. CASE Exit
    BY <1>1, <2>6 DEF IInv, ControlInv, Exit, encvars
  <2> QED
    BY <2>1, <2>2, <2>3, <2>4, <2>5, <2>6
<1>7. FramesInOrder' /\ HeaderOnce'
  BY <1>1, <1>2 DEF IInv, FramesInOrder, HeaderOnce
<1> QED
  BY <1>3, <1>4, <1>5, <1>6, <1>7 DEF IInv

LEMMA WritePacketIInv == IInv /\ WritePacket => IInv'
<1> SUFFICES ASSUME IInv, WritePacket PROVE IInv'
  OBVIOUS
<1> USE VideoAssumption
<1>1. /\ pc = "drain" /\ pc' = pc /\ flushing' = flushing
      /\ order' = order /\ nread' = nread /\ dec' = dec /\ nout' = nout
      /\ frame' = frame /\ frameIdx' = frameIdx /\ initialized' = initialized
      /\ headers' = headers /\ dropped' = dropped
      /\ written' = Append(written, Head(enc)) /\ enc' = Tail(enc)
  BY DEF WritePacket, decvars
<1>2. enc \in Seq(Packet) /\ written \in Seq(Packet) /\ enc # <<>>
  <2>1. enc \in Seq(Packet) /\ written \in Seq(Packet)
    BY DEF IInv, TypeOK, Packet
  <2>2. Len(enc) > 0
    BY <2>1, LenProperties DEF WritePacket, PacketReady
  <2> QED
    BY <2>1, <2>2
<1>3. Packets' = Packets
  BY <1>1, <1>2, MoveHead DEF Packets
<1>4. written' \in Seq(Packet) /\ enc' \in Seq(Packet)
  BY <1>1, <1>2, HeadTailProperties, AppendProperties
<1>5. Frames' = Frames /\ FramesOf(Packets)' = FramesOf(Packets)
  BY <1>1, <1>3 DEF Frames, FramesOf
<1>6. TypeOK'
  BY <1>1, <1>4, <1>5 DEF IInv, TypeOK, Packet
<1>7. DecoderInv'
  BY <1>1, DecoderLeftAlone DEF IInv, decvars
<1>8. FrameInv'
  BY <1>1, <1>5 DEF IInv, FrameInv
<1>9. ControlInv'
  BY <1>1 DEF IInv, ControlInv
<1>10. FramesInOrder' /\ HeaderOnce'
  BY <1>1, <1>3 DEF IInv, FramesInOrder, HeaderOnce
<1> QED
  BY <1>6, <1>7, <1>8, <1>9, <1>10 DEF IInv

\* A flush that fails takes the packets of the encoder out of the picture.
LEMMA SendFlushFailsIInv == IInv /\ SendFlushFails => IInv'
<1> SUFFICES ASSUME IInv, SendFlushFails PROVE IInv'
  OBVIOUS
<1> DEFINE w == Len(written)
           n == Len(enc)
<1>1. /\ pc = "send" /\ pc' = "trailer" /\ flushing = TRUE /\ flushing' = TRUE
      /\ frame = 0 /\ frame' = 0 /\ nout \in Nat
      /\ order' = order /\ nread' = nread /\ dec' = dec /\ nout' = nout
      /\ frameIdx' = frameIdx /\ initialized' = initialized /\ headers' = headers
      /\ written' = written /\ enc' = <<>> /\ dropped' = dropped \cup FramesOf(enc)
  BY DEF SendFlushFails, IInv, TypeOK, FrameInv, decvars
<1>2. enc \in Seq(Packet) /\ written \in Seq(Packet)
  BY DEF IInv, TypeOK, Packet
<1>3. /\ w \in Nat /\ n \in Nat /\ DOMAIN written = 1..w /\ DOMAIN enc = 1..n
  BY <1>2, LenProperties
<1>4. /\ Packets \in Seq(Packet) /\ DOMAIN Packets = 1..(w + n)
      /\ \A i \in 1..(w + n) : Packets[i] = IF i <= w THEN written[i] ELSE enc[i - w]
  BY <1>2, <1>3, ConcatProperties, LenProperties DEF Packets
<1>5. Packets' = written
  BY <1>1, <1>2, ConcatEmptySeq DEF Packets
<1> HIDE DEF w, n
<1>6. \A i \in 1..w : i \in 1..(w + n) /\ Packets[i] = written[i]
  BY <1>3, <1>4
<1>7. \A i \in 1..n : w + i \in 1..(w + n) /\ Packets[w + i] = enc[i]
  <2> SUFFICES ASSUME NEW i \in 1..n
               PROVE  w + i \in 1..(w + n) /\ Packets[w + i] = enc[i]
    OBVIOUS
  <2>1. w + i \in 1..(w + n) /\ ~(w + i <= w) /\ (w + i) - w = i
    BY <1>3
  <2> QED
    BY <2>1, <1>4
<1>8. FramesOf(Packets) = FramesOf(written) \cup FramesOf(enc)
  <2>1. \A i \in 1..(w + n) : \/ i \in 1..w /\ Packets[i] = written[i]
                              \/ i - w \in 1..n /\ Packets[i] = enc[i - w]
    BY <1>3, <1>4
  <2>2. FramesOf(Packets) \subseteq FramesOf(written) \cup FramesOf(enc)
    BY <1>3, <1>4, <2>1 DEF FramesOf
  <2>3. FramesOf(written) \subseteq FramesOf(Packets)
    BY <1>3, <1>4, <1>6 DEF FramesOf
  <2>4. FramesOf(enc) \subseteq FramesOf(Packets)
    <3> SUFFICES ASSUME NEW i \in 1..n
                 PROVE  enc[i].frame \in FramesOf(Packets)
      BY <1>3 DEF FramesOf
    <3>1. w + i \in DOMAIN Packets /\ Packets[w + i].frame = enc[i].frame
      BY <1>4, <1>7
    <3> QED
      BY <3>1 DEF FramesOf
  <2> QED
    BY <2>2, <2>3, <2>4
<1>9. \A i \in 1..w, j \in 1..n : written[i].frame < enc[j].frame
  <2> SUFFICES ASSUME NEW i \in 1..w, NEW j \in 1..n
               PROVE  written[i].frame < enc[j].frame
    OBVIOUS
  <2>1. i \in DOMAIN Packets /\ w + j \in DOMAIN Packets /\ i < w + j
    BY <1>3, <1>4, <1>6, <1>7
  <2>2. Packets[i].frame < Packets[w + j].frame
    BY <2>1 DEF IInv, FramesInOrder
  <2> QED
    BY <2>2, <1>6, <1>7
<1>10. FramesOf(written) \cap FramesOf(enc) = {}
  <2> SUFFICES ASSUME NEW i \in 1..w, NEW j \in 1..n, written[i].frame = enc[j].frame
               PROVE  FALSE
    BY <1>3 DEF FramesOf
  <2>1. enc[j] \in Packet
    BY <1>2, <1>3, ElementOfSeq DEF n
  <2>2. enc[j].frame \in Frames
    BY <2>1 DEF Packet
  <2>3. enc[j].frame \in Nat
    BY <2>2 DEF Frames
  <2> QED
    BY <1>9, <2>3
<1>11. Frames' = Frames /\ FramesOf(Packets)' = FramesOf(written)
  BY <1>1, <1>5 DEF Frames, FramesOf
<1>12. FramesOf(enc) \subseteq Frames
  <2> SUFFICES ASSUME NEW i \in 1..n PROVE enc[i].frame \in Frames
    BY <1>3 DEF FramesOf
  <2>1. enc[i] \in Packet
    BY <1>2, <1>3, ElementOfSeq DEF n
  <2> QED
    BY <2>1 DEF Packet
<1>13. TypeOK'
  <2>1. enc' \in Seq(Packet)
    BY <1>1, EmptySeq
  <2> QED
    BY <1>1, <1>11, <1>12, <2>1 DEF IInv, TypeOK, Packet
<1>14. DecoderInv'
  BY <1>1, DecoderLeftAlone DEF IInv, decvars
<1>15. FrameInv'
  <2>1. FramesOf(Packets) = (1..nout) \ (dropped \cup {0})
    BY <1>1 DEF IInv, FrameInv
  <2>2. dropped' \subseteq 1..nout
    BY <1>1, <1>8, <2>1 DEF IInv, FrameInv
  <2>3. FramesOf(written) = (1..nout) \ (dropped' \cup {0})
    BY <1>1, <1>8, <1>10, <2>1
  <2> QED
    BY <1>1, <1>11, <2>2, <2>3 DEF IInv, FrameInv
<1>16. ControlInv'
  BY <1>1 DEF IInv, ControlInv
<1>17. FramesInOrder'
  BY <1>3, <1>4, <1>5, <1>6 DEF IInv, FramesInOrder
<1>18. HeaderOnce'
  BY <1>1 DEF IInv, HeaderOnce
<1> QED
  BY <1>13, <1>14, <1>15, <1>16, <1>17, <1>18 DEF IInv

LEMMA StepIInv == IInv /\ [Next]_vars => IInv'
<1> SUFFICES ASSUME IInv, [Next]_vars PROVE IInv'
  OBVIOUS
<1>1. CASE ReadPacket
  BY <1>1, ReadPacketIInv
<1>2. CASE ReceiveFrame
  BY <1>2, ReceiveFrameIInv
<1>3. CASE SendFrame
  BY <1>3, SendFrameIInv
<1>4. CASE SendFrameFails
  BY <1>4, SendFrameFailsIInv
<1>5. CASE SendFlushFails
  BY <1>5, SendFlushFailsIInv
<1>6. CASE WritePacket
  BY <1>6, WritePacketIInv
<1>7. CASE ReceiveAgain \/ Flush \/ SendFlush \/ DrainEnd \/ WriteTrailer \/ Exit
  BY <1>7, ControlIInv
<1>8. CASE UNCHANGED vars
  <2>1. Packets' = Packets /\ Frames' = Frames
    BY <1>8 DEF vars, Packets, Frames
  <2>2. TypeOK' /\ HeaderOnce' /\ ControlInv'
    BY <1>8, <2>1 DEF vars, IInv, TypeOK, HeaderOnce, ControlInv
  <2>3. DecoderInv'
    BY <1>8, DecoderLeftAlone DEF vars, decvars, IInv
  <2>4. FramesOf(Packets)' = FramesOf(Packets)
    BY <2>1 DEF FramesOf
  <2>5. FrameInv'
    BY <1>8, <2>4 DEF vars, IInv, FrameInv
  <2>6. FramesInOrder'
    BY <2>1 DEF IInv, FramesInOrder
  <2> QED
    BY <2>2, <2>3, <2>5, <2>6 DEF IInv
<1> QED
  BY <1>1, <1>2, <1>3, <1>4, <1>5, <1>6, <1>7, <1>8 DEF Next, Works, Fails

\* transcodeVideo keeps the frames in display order with their own pts, writes
\* the header once, misses no frame but the ones the decoder holds back and the
\* encoder refused, and meets the null encoder only if the decoder returned
\* nothing: for every video, coded order, delay and pattern of failures.
LEMMA VideoCorrect ==
  Spec => [](/\ TypeOK
             /\ FramesInOrder
             /\ HeaderOnce
             /\ OnlyHeldBackMissing
             /\ CrashOnlyIfNothingDecoded)
<1>1. Init => IInv
  BY InitIInv
<1>2. IInv /\ [Next]_vars => IInv'
  BY StepIInv
<1>3. IInv => /\ TypeOK
              /\ FramesInOrder
              /\ HeaderOnce
              /\ OnlyHeldBackMissing
              /\ CrashOnlyIfNothingDecoded
  <2> SUFFICES ASSUME IInv
               PROVE  OnlyHeldBackMissing /\ CrashOnlyIfNothingDecoded
    BY DEF IInv
  <2>1. ASSUME pc = "done"
        PROVE  FramesOf(written) = (1..(Len(order) - Delay)) \ dropped
    <3>0. nout = Len(order) - Delay
      <4>1. nread = Len(order) /\ nread <= nout + Delay /\ nout + Delay <= nread
        BY <2>1 DEF IInv, ControlInv
      <4> QED
        BY <4>1, VideoAssumption DEF IInv, TypeOK, DecoderInv
    <3>1. enc = <<>> /\ flushing = TRUE /\ frame = 0 /\ nout \in Nat
      BY <2>1 DEF IInv, TypeOK, FrameInv, ControlInv
    <3>2. Packets = written
      BY <3>1, ConcatEmptySeq DEF Packets, IInv, TypeOK
    <3>3. FramesOf(written) = (1..nout) \ dropped
      BY <3>1, <3>2 DEF IInv, FrameInv
    <3> QED
      BY <3>0, <3>3
  <2>2. ASSUME pc = "crash" PROVE nout = 0 /\ Len(order) <= Delay
    <3>1. nout = 0 /\ nread = Len(order) /\ nread <= nout + Delay
      BY <2>2 DEF IInv, ControlInv
    <3> QED
      BY <3>1, VideoAssumption DEF IInv, DecoderInv
  <2> QED
    BY <2>1, <2>2 DEF OnlyHeldBackMissing, CrashOnlyIfNothingDecoded
<1> QED
  BY <1>1, <1>2, <1>3, PTL DEF Spec

\* The frame at hand, the decoder's and the encoder's frames and the counters of
\* transcodeVideo stay in their types, whatever libav call fails.
THEOREM VideoTypes == Spec => []TypeOK
  BY VideoCorrect, PTL

\* encodeVideo writes the frames in display order, each with its own pts, for
\* every coded order, delay and pattern of failures.
THEOREM VideoInOrder == Spec => []FramesInOrder
  BY VideoCorrect, PTL

\* At the end of transcodeVideo the frames that are missing are the last ones,
\* which the decoder holds back, and those the encoder refused.
THEOREM MissingAreHeldBack == Spec => []OnlyHeldBackMissing
  BY VideoCorrect, PTL

\* encodeVideo is called without an encoder only if nothing was decoded.
THEOREM NullEncoderOnlyEmpty == Spec => []CrashOnlyIfNothingDecoded
  BY VideoCorrect, PTL
=============================================================================
