--------------------------- MODULE TranscodeVideo ---------------------------
(***************************************************************************)
(* PCCTranscoder::transcodeVideo and encodeVideo: the loop that feeds the  *)
(* packets of a coded video to a libav decoder, hands each decoded frame   *)
(* to a libav encoder and writes the encoder's packets to the output.      *)
(*                                                                         *)
(* The codecs are external, modelled by the libav contract the code relies *)
(* on.  The decoder gets the frames in coded order and returns them in     *)
(* display order, holding back Delay of them for reordering (0 for intra   *)
(* and low-delay videos).  The encoder (max_b_frames = 0) returns packets  *)
(* in the order of the frames, EncDelay behind until it is flushed.  A     *)
(* frame is its display index.                                             *)
(***************************************************************************)
EXTENDS Naturals, Sequences

CONSTANTS
  MaxFrames,  \* bound: the frames of the video
  Delay,      \* the frames the decoder holds back
  EncDelay,   \* the frames the encoder holds back
  Faults      \* whether libav calls may fail

ASSUME VideoAssumption ==
  /\ MaxFrames \in Nat
  /\ Delay \in Nat
  /\ EncDelay \in Nat
  /\ Faults \in BOOLEAN

VARIABLES
  order,        \* the display index of each packet, in coded order
  nread,        \* the packets read with av_read_frame
  dec,          \* the frames in the decoder
  nout,         \* the frames the decoder has returned
  frame,        \* input_frame, or 0 for none
  frameIdx,     \* frameIdx
  initialized,  \* encoder->initialized
  headers,      \* how often the header was written
  enc,          \* the frames in the encoder, with their pts
  written,      \* the packets written with av_write_frame
  dropped,      \* the frames the encoder did not take
  flushing,     \* encodeVideo was called without a frame
  pc

vars == <<order, nread, dec, nout, frame, frameIdx, initialized, headers,
          enc, written, dropped, flushing, pc>>
decvars == <<order, nread, dec, nout>>
encvars == <<initialized, headers, enc, written, dropped, flushing>>

\* The coded orders of n frames with which a decoder that holds Delay frames
\* back can return them in display order: no packet is more than Delay late.
CodedOrders(n) ==
  {s \in [1..n -> 1..n] :
     /\ \A f \in 1..n : \E k \in 1..n : s[k] = f
     /\ \A j, k \in 1..n : s[j] = s[k] => j = k
     /\ \A k \in 1..n : k <= s[k] + Delay}

Frames == 1..Len(order)

FramesOf(packets) == {packets[k].frame : k \in DOMAIN packets}

\* What the loop starts with: both contexts zeroed (calloc), frameIdx 0, and in
\* the decoder, which initDecoder has opened, a video that has a frame at least.
\* That initDecoder or an allocation may fail is outside the model.
Init ==
  /\ \E n \in 1..MaxFrames : order \in CodedOrders(n)
  /\ nread = 0
  /\ dec = {}
  /\ nout = 0
  /\ frame = 0
  /\ frameIdx = 0
  /\ initialized = FALSE
  /\ headers = 0
  /\ enc = <<>>
  /\ written = <<>>
  /\ dropped = {}
  /\ flushing = FALSE
  /\ pc = "read"

\* av_read_frame, avcodec_send_packet.
ReadPacket ==
  /\ pc = "read"
  /\ nread < Len(order)
  /\ nread' = nread + 1
  /\ dec' = dec \cup {order[nread + 1]}
  /\ pc' = "receive"
  /\ UNCHANGED <<order, nout, frame, frameIdx, encvars>>

\* Mutants of ReceiveFrame: initEncoder does not set initialized; pts counts
\* the packets instead of the frames.
ReceiveFrame_NotInitialized ==
  /\ pc = "receive"
  /\ nread - nout > Delay
  /\ \E f \in dec :
       /\ \A g \in dec : f <= g
       /\ frame' = f
       /\ dec' = dec \ {f}
  /\ nout' = nout + 1
  /\ frameIdx' = frameIdx + 1
  /\ headers' = IF initialized THEN headers ELSE headers + 1
  /\ pc' = "send"
  /\ UNCHANGED <<order, nread, initialized, enc, written, dropped, flushing>>

ReceiveFrame_PtsOfPacket ==
  /\ pc = "receive"
  /\ nread - nout > Delay
  /\ \E f \in dec :
       /\ \A g \in dec : f <= g
       /\ frame' = f
       /\ dec' = dec \ {f}
  /\ nout' = nout + 1
  /\ frameIdx' = nread
  /\ initialized' = TRUE
  /\ headers' = IF initialized THEN headers ELSE headers + 1
  /\ pc' = "send"
  /\ UNCHANGED <<order, nread, enc, written, dropped, flushing>>

\* Unless the encoder is there: it is set up for the decoded frame's format, and
\* the header is written.
initEncoder ==
  /\ initialized' = TRUE
  /\ headers' = IF initialized THEN headers ELSE headers + 1

\* avcodec_receive_frame returns a frame, the first one for the encoder to be
\* set up; frameIdx++.
ReceiveFrame ==
  /\ pc = "receive"
  /\ nread - nout > Delay
  /\ \E f \in dec :
       /\ \A g \in dec : f <= g
       /\ frame' = f
       /\ dec' = dec \ {f}
  /\ nout' = nout + 1
  /\ frameIdx' = frameIdx + 1
  /\ initEncoder
  /\ pc' = "send"
  /\ UNCHANGED <<order, nread, enc, written, dropped, flushing>>

\* Mutant of ReceiveAgain: the decoder is asked again at once.
ReceiveAgain_Spins ==
  /\ pc = "receive"
  /\ nread - nout <= Delay
  /\ UNCHANGED vars

\* avcodec_receive_frame returns EAGAIN: back to av_read_frame.
ReceiveAgain ==
  /\ pc = "receive"
  /\ nread - nout <= Delay
  /\ pc' = "read"
  /\ UNCHANGED <<decvars, frame, frameIdx, encvars>>

\* Mutant of SendFrame: the frame is released before it is sent.
SendFrame_Unref ==
  /\ pc = "send"
  /\ ~flushing
  /\ enc' = Append(enc, [frame |-> 0, pts |-> frameIdx - 1])
  /\ frame' = 0
  /\ pc' = "drain"
  /\ UNCHANGED <<decvars, frameIdx, initialized, headers, written, dropped, flushing>>

\* encodeVideo: avcodec_send_frame takes the frame.
SendFrame ==
  /\ pc = "send"
  /\ ~flushing
  /\ enc' = Append(enc, [frame |-> frame, pts |-> frameIdx - 1])
  /\ frame' = 0
  /\ pc' = "drain"
  /\ UNCHANGED <<decvars, frameIdx, initialized, headers, written, dropped, flushing>>

\* encodeVideo: avcodec_send_frame fails, which nobody looks at: the frame is
\* dropped, encodeVideo returns 0 and the loop goes on.
SendFrameFails ==
  /\ pc = "send"
  /\ Faults
  /\ ~flushing
  /\ dropped' = dropped \cup {frame}
  /\ frame' = 0
  /\ pc' = "receive"
  /\ UNCHANGED <<decvars, frameIdx, initialized, headers, enc, written, flushing>>

\* Mutant of Flush: the encoder is not flushed.
Flush_Skipped ==
  /\ pc = "read"
  /\ nread = Len(order)
  /\ pc' = IF initialized THEN "trailer" ELSE "crash"
  /\ UNCHANGED <<decvars, frame, frameIdx, encvars>>

\* After the last packet: encodeVideo(NULL).  Without a decoded frame there is
\* no encoder, and avcodec_send_frame dereferences a null pointer.
Flush ==
  /\ pc = "read"
  /\ nread = Len(order)
  /\ flushing' = TRUE
  /\ pc' = IF initialized THEN "send" ELSE "crash"
  /\ UNCHANGED <<decvars, frame, frameIdx, initialized, headers, enc, written, dropped>>

\* encodeVideo(NULL): avcodec_send_frame starts the flush.
SendFlush ==
  /\ pc = "send"
  /\ flushing
  /\ pc' = "drain"
  /\ UNCHANGED <<decvars, frame, frameIdx, encvars>>

\* encodeVideo(NULL): avcodec_send_frame fails, what the encoder holds is lost.
SendFlushFails ==
  /\ pc = "send"
  /\ Faults
  /\ flushing
  /\ dropped' = dropped \cup FramesOf(enc)
  /\ enc' = <<>>
  /\ pc' = "trailer"
  /\ UNCHANGED <<decvars, frame, frameIdx, initialized, headers, written, flushing>>

\* avcodec_receive_packet has a packet for encodeVideo.
PacketReady == Len(enc) > (IF flushing THEN 0 ELSE EncDelay)

\* Mutant of WritePacket: the newest packet first.
WritePacket_Newest ==
  /\ pc = "drain"
  /\ PacketReady
  /\ written' = Append(written, enc[Len(enc)])
  /\ enc' = SubSeq(enc, 1, Len(enc) - 1)
  /\ UNCHANGED <<decvars, frame, frameIdx, initialized, headers, dropped, flushing, pc>>

\* encodeVideo: avcodec_receive_packet, av_write_frame.
WritePacket ==
  /\ pc = "drain"
  /\ PacketReady
  /\ written' = Append(written, Head(enc))
  /\ enc' = Tail(enc)
  /\ UNCHANGED <<decvars, frame, frameIdx, initialized, headers, dropped, flushing, pc>>

\* encodeVideo: EAGAIN, back to avcodec_receive_frame, or EOF after a flush.
DrainEnd ==
  /\ pc = "drain"
  /\ ~PacketReady
  /\ pc' = IF flushing THEN "trailer" ELSE "receive"
  /\ UNCHANGED <<decvars, frame, frameIdx, encvars>>

\* av_write_trailer, and the output is handed over.
WriteTrailer ==
  /\ pc = "trailer"
  /\ pc' = "done"
  /\ UNCHANGED <<decvars, frame, frameIdx, encvars>>

\* The libav errors that are looked at: avcodec_send_packet,
\* avcodec_receive_frame, avcodec_receive_packet, av_write_frame, initEncoder.
Exit ==
  /\ Faults
  /\ \/ pc = "read" /\ nread < Len(order)
     \/ pc = "receive"
     \/ pc = "drain"
  /\ pc' = "exit"
  /\ UNCHANGED <<decvars, frame, frameIdx, encvars>>

\* The steps in which libav does as it is told, and those in which it fails.
Works ==
  \/ ReadPacket \/ ReceiveFrame \/ ReceiveAgain \/ SendFrame
  \/ Flush \/ SendFlush \/ WritePacket \/ DrainEnd \/ WriteTrailer
Fails == SendFrameFails \/ SendFlushFails \/ Exit

Next == Works \/ Fails

Spec == Init /\ [][Next]_vars

\* One thread that goes on until it returns; it does not wait for a failure.
FairSpec == Spec /\ WF_vars(Works)

-----------------------------------------------------------------------------
(* Properties. *)

\* Every variable has its type.
TypeOK ==
  /\ nread \in 0..Len(order)
  /\ nout \in 0..nread
  /\ dec \subseteq Frames
  /\ frame \in {0} \cup Frames
  /\ frameIdx \in Nat
  /\ initialized \in BOOLEAN
  /\ headers \in Nat
  /\ enc \in Seq([frame : Frames, pts : Nat])
  /\ written \in Seq([frame : Frames, pts : Nat])
  /\ dropped \subseteq Frames
  /\ flushing \in BOOLEAN
  /\ pc \in {"read", "receive", "send", "drain", "trailer", "done", "exit", "crash"}

\* The packets written and those still in the encoder.
Packets == written \o enc

\* The packets of the output and of the encoder are in display order, and each
\* has the pts of its place in the video, although the packets of the input
\* come in another order and frames may be dropped in between.
FramesInOrder ==
  /\ \A j, k \in DOMAIN Packets : j < k => Packets[j].frame < Packets[k].frame
  /\ \A k \in DOMAIN Packets : Packets[k].pts = Packets[k].frame - 1

\* When transcodeVideo is through, every frame of the video is in the output
\* but the last Delay ones, and those the encoder refused: none stays in the
\* encoder, and the decoder keeps no more than it has to.
OnlyHeldBackMissing ==
  pc = "done" => FramesOf(written) = (1..(Len(order) - Delay)) \ dropped

\* The null encoder is only reached with a video of at most Delay frames, none
\* of which the decoder returned.
CrashOnlyIfNothingDecoded ==
  pc = "crash" => nout = 0 /\ Len(order) <= Delay

\* transcodeVideo ends: it does not wait for a frame or a packet that never
\* comes.
Terminates == <>(pc \in {"done", "exit", "crash"})

\* "allows to transcode bitstreams, encoded with V-PCC": all the frames of the
\* video are in the output, the ones the encoder refused excepted.
AllFramesWritten ==
  pc = "done" => FramesOf(written) = Frames \ dropped
=============================================================================
