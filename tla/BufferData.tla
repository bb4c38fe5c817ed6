----------------------------- MODULE BufferData -----------------------------
(***************************************************************************)
(* The two in-memory files behind PCCTranscoder::transcodeVideo.  libav    *)
(* reads the coded video through read_packet from in_bd (the memory of the *)
(* PCCVideoBitstream) and writes the transcoded one through write_packet   *)
(* to out_bd (the memory of the local vector out_vec, twice as large).     *)
(* write_packet doubles the output buffer when it is full; at the end      *)
(* out_vec is resized to the bytes written and copied to the bitstream.    *)
(*                                                                         *)
(* A byte is represented by its position, from 1, in the stream it belongs *)
(* to; Lost is a byte that was never written or was freed.  A pointer is   *)
(* its distance from the start of its buffer.                              *)
(***************************************************************************)
EXTENDS Naturals, Sequences

CONSTANTS
  VideoSize,  \* videoBitstream.size(): the bytes of the coded video
  ReadSizes,  \* the buf_size values with which libav calls read_packet
  WriteSizes, \* the buf_size values with which libav calls write_packet
  MaxOut,     \* bound: the bytes the muxer produces
  Seeks       \* bound: how many times libav may call the seek callback

Lost == 0

ASSUME BufferAssumption ==
  /\ VideoSize \in Nat \ {0}
  /\ ReadSizes \subseteq Nat \ {0}
  /\ WriteSizes \subseteq Nat \ {0}
  /\ MaxOut \in Nat
  /\ Seeks \in Nat

VARIABLES
  in_bd,          \* struct buffer_data of the input
  demuxed,        \* history: the bytes read_packet has given to libav
  out_bd,         \* struct buffer_data of the output; buf names the owner
  mem,            \* the memory out_bd.buf points to
  inPlace,        \* has every av_realloc_f grown the block where it stood?
  pc,             \* "idle", inside "write_packet", or how the run ended:
                  \* "done", "exit", or "crash" when a copy left its buffer
  buf_size,       \* the argument of the write_packet call under way
  written,        \* history: how many bytes libav has written
  seeks,          \* the seek calls made so far
  videoBitstream  \* what transcodeVideo leaves in videoBitstream.vector()

inVars  == <<in_bd, demuxed>>
outVars == <<out_bd, mem, inPlace, pc, buf_size, written, videoBitstream>>
vars    == <<inVars, outVars, seeks>>

\* The bytes a..b of a stream, as a sequence.
Bytes(a, b) == [i \in 1..(b + 1 - a) |-> a + i - 1]

-----------------------------------------------------------------------------
Init ==
  /\ in_bd = [size |-> VideoSize, ptr |-> 0, room |-> VideoSize]
  /\ demuxed = <<>>
  /\ out_bd = [buf  |-> "vector", size |-> 2 * VideoSize,
               ptr  |-> 0,        room |-> 2 * VideoSize]
  /\ mem = [i \in 0..(2 * VideoSize - 1) |-> Lost]
  /\ inPlace = TRUE
  /\ pc = "idle"
  /\ buf_size = 0
  /\ written = 0
  /\ seeks = 0
  /\ videoBitstream = Bytes(1, VideoSize)

\* Mutant of read_packet: hands out what was asked for, past the end too.
read_packet_NoMin(n) ==
  /\ pc = "idle"
  /\ in_bd.room > 0
  /\ demuxed' = demuxed \o Bytes(in_bd.ptr + 1, in_bd.ptr + n)
  /\ in_bd' = [in_bd EXCEPT !.ptr = @ + n, !.room = @ - n]
  /\ UNCHANGED <<outVars, seeks>>

\* Mutant of read_packet: room is reduced by the request, not by what was read.
read_packet_RoomByRequest(n) ==
  LET k == IF n < in_bd.room THEN n ELSE in_bd.room IN
  /\ pc = "idle"
  /\ k > 0
  /\ demuxed' = demuxed \o Bytes(in_bd.ptr + 1, in_bd.ptr + k)
  /\ in_bd' = [in_bd EXCEPT !.ptr = @ + k,
                           !.room = IF n < @ THEN @ - n ELSE n - @]
  /\ UNCHANGED <<outVars, seeks>>

\* read_packet: the bytes from ptr on, never more than room.
read_packet(n) ==
  LET k == IF n < in_bd.room THEN n ELSE in_bd.room IN
  /\ pc = "idle"
  /\ k > 0
  /\ in_bd.ptr + k <= in_bd.size
  /\ demuxed' = demuxed \o Bytes(in_bd.ptr + 1, in_bd.ptr + k)
  /\ in_bd' = [in_bd EXCEPT !.ptr = @ + k, !.room = @ - k]
  /\ UNCHANGED <<outVars, seeks>>

\* read_packet copies from behind the end of the video: undefined behaviour.
ReadOverruns(n) ==
  LET k == IF n < in_bd.room THEN n ELSE in_bd.room IN
  /\ pc = "idle"
  /\ in_bd.ptr + k > in_bd.size
  /\ pc' = "crash"
  /\ UNCHANGED <<inVars, out_bd, mem, inPlace, buf_size, written, seeks, videoBitstream>>

\* libav calls write_packet with n bytes.
write_packet(n) ==
  /\ pc = "idle"
  /\ written + n <= MaxOut
  /\ pc' = "write_packet"
  /\ buf_size' = n
  /\ UNCHANGED <<inVars, out_bd, mem, inPlace, written, seeks, videoBitstream>>

\* Mutants of Grow: room is the whole new block; ptr is the new block's start;
\* the new size is not recorded.
Grow_RoomWhole ==
  /\ pc = "write_packet"
  /\ buf_size > out_bd.room
  /\ out_bd' = [buf |-> "heap", size |-> 2 * out_bd.size,
                ptr |-> out_bd.ptr, room |-> 2 * out_bd.size]
  /\ mem' = [i \in 0..(2 * out_bd.size - 1) |->
               IF i < out_bd.size THEN mem[i] ELSE Lost]
  /\ UNCHANGED <<inVars, inPlace, pc, buf_size, written, seeks, videoBitstream>>

Grow_PtrAtStart ==
  /\ pc = "write_packet"
  /\ buf_size > out_bd.room
  /\ out_bd' = [buf |-> "heap", size |-> 2 * out_bd.size,
                ptr |-> 0, room |-> 2 * out_bd.size]
  /\ mem' = [i \in 0..(2 * out_bd.size - 1) |->
               IF i < out_bd.size THEN mem[i] ELSE Lost]
  /\ UNCHANGED <<inVars, inPlace, pc, buf_size, written, seeks, videoBitstream>>

Grow_SizeKept ==
  /\ pc = "write_packet"
  /\ buf_size > out_bd.room
  /\ out_bd' = [out_bd EXCEPT !.buf = "heap", !.room = out_bd.size - out_bd.ptr]
  /\ UNCHANGED <<inVars, mem, inPlace, pc, buf_size, written, seeks,
                 videoBitstream>>

\* One turn of the while loop: av_realloc_f doubles the block, where it stands
\* or elsewhere; ptr and room are recomputed from the offset saved before it.
Grow ==
  /\ pc = "write_packet"
  /\ buf_size > out_bd.room
  /\ LET offset == out_bd.ptr
         size   == 2 * out_bd.size
     IN /\ out_bd' = [buf |-> "heap", size |-> size,
                      ptr |-> offset, room |-> size - offset]
        /\ mem' = [i \in 0..(size - 1) |->
                     IF i < out_bd.size THEN mem[i] ELSE Lost]
  /\ inPlace' \in {inPlace, FALSE}
  /\ UNCHANGED <<inVars, pc, buf_size, written, seeks, videoBitstream>>

\* av_realloc_f fails and has freed the block: write_packet returns
\* AVERROR(ENOMEM), av_write_frame returns it and encodeVideo exits.
GrowFails ==
  /\ pc = "write_packet"
  /\ buf_size > out_bd.room
  /\ out_bd' = [out_bd EXCEPT !.buf = "null"]
  /\ pc' = "exit"
  /\ UNCHANGED <<inVars, mem, inPlace, buf_size, written, seeks, videoBitstream>>

\* The loop ends: memcpy at ptr, and write_packet returns buf_size.
Copy ==
  /\ pc = "write_packet"
  /\ buf_size <= out_bd.room
  /\ out_bd.ptr + buf_size <= out_bd.size
  /\ mem' = [i \in DOMAIN mem |->
               IF i \in out_bd.ptr..(out_bd.ptr + buf_size - 1)
                 THEN written + 1 + (i - out_bd.ptr) ELSE mem[i]]
  /\ out_bd' = [out_bd EXCEPT !.ptr = @ + buf_size, !.room = @ - buf_size]
  /\ written' = written + buf_size
  /\ buf_size' = 0
  /\ pc' = "idle"
  /\ UNCHANGED <<inVars, inPlace, seeks, videoBitstream>>

\* write_packet copies to behind the end of the block: undefined behaviour.
CopyOverruns ==
  /\ pc = "write_packet"
  /\ buf_size <= out_bd.room
  /\ out_bd.ptr + buf_size > out_bd.size
  /\ pc' = "crash"
  /\ UNCHANGED <<inVars, out_bd, mem, inPlace, buf_size, written, seeks, videoBitstream>>

\* The seek callback, for a place in the buffer.  SEEK_SET, SEEK_CUR and SEEK_END differ in what the
\* offset is relative to; each of them sets ptr and nothing else.
seek(to) ==
  /\ pc = "idle"
  /\ seeks < Seeks
  /\ seeks' = seeks + 1
  /\ \/ /\ to \in 0..in_bd.size
        /\ in_bd' = [in_bd EXCEPT !.ptr = to]
        /\ UNCHANGED out_bd
     \/ /\ to \in 0..out_bd.size
        /\ out_bd' = [out_bd EXCEPT !.ptr = to]
        /\ UNCHANGED in_bd
  /\ UNCHANGED <<demuxed, mem, inPlace, pc, buf_size, written, videoBitstream>>

\* What out_vec holds at offset i once it is resized to n bytes.  The vector
\* never learns of a realloc: if the block moved, the vector's own was freed;
\* if it grew in place, the vector still has its old size and resize() fills
\* the rest with zeros.
outVec(i) ==
  IF out_bd.buf = "vector" \/ (inPlace /\ i < 2 * VideoSize)
    THEN mem[i] ELSE Lost

\* Mutant of Finish: out_vec is not cut to the bytes written.
Finish_NoResize ==
  /\ pc = "idle"
  /\ videoBitstream' = [i \in 1..out_bd.size |-> outVec(i - 1)]
  /\ pc' = "done"
  /\ UNCHANGED <<inVars, out_bd, mem, inPlace, buf_size, written, seeks>>

\* After av_write_trailer: resize out_vec and copy it to the bitstream.
Finish ==
  /\ pc = "idle"
  /\ LET out_stream_size == out_bd.size - out_bd.room
     IN videoBitstream' = [i \in 1..out_stream_size |-> outVec(i - 1)]
  /\ pc' = "done"
  /\ UNCHANGED <<inVars, out_bd, mem, inPlace, buf_size, written, seeks>>

Next ==
  \/ \E n \in ReadSizes : read_packet(n)
  \/ \E n \in WriteSizes : write_packet(n)
  \/ \E n \in ReadSizes : ReadOverruns(n)
  \/ Grow
  \/ GrowFails
  \/ Copy
  \/ CopyOverruns
  \/ \E to \in 0..(MaxOut + VideoSize) : seek(to)
  \/ Finish

Spec == Init /\ [][Next]_vars

\* transcodeVideo is one thread: a call it has begun goes on to its end.
FairSpec == Spec /\ WF_vars(Grow \/ Copy \/ CopyOverruns)

-----------------------------------------------------------------------------
TypeOK ==
  /\ in_bd \in [size : Nat, ptr : Nat, room : Nat]
  /\ demuxed \in Seq(Nat)
  /\ out_bd \in [buf : {"vector", "heap", "null"},
                 size : Nat, ptr : Nat, room : Nat]
  /\ mem \in [0..(out_bd.size - 1) -> Nat]
  /\ inPlace \in BOOLEAN
  /\ pc \in {"idle", "write_packet", "exit", "done", "crash"}
  /\ buf_size \in Nat
  /\ written \in Nat
  /\ seeks \in 0..Seeks
  /\ videoBitstream \in Seq(Nat)

\* "Size left in buffer", says PCCTranscoder.h of room: in both buffers it is
\* what lies between ptr and the end of the block.  Not so after a seek, which
\* sets ptr only.
RoomIsSizeLeft ==
  /\ in_bd.ptr + in_bd.room = in_bd.size
  /\ out_bd.ptr + out_bd.room = out_bd.size

\* The seek callback is the only one that breaks it: reading, writing and any
\* number of growths, in any order, leave room and ptr in step in both buffers.
RoomLeftUnlessSought == seeks = 0 => RoomIsSizeLeft

\* Until libav seeks, the memcpy of read_packet and that of write_packet stay in
\* their buffers, however many times the while loop has grown the output.
CopyFits == pc = "crash" => seeks > 0

\* Growing the buffer keeps every byte written before it: until libav seeks, the
\* buffer holds the muxer's output, contiguous from its start, up to ptr.
StreamKept ==
  seeks = 0 =>
    /\ out_bd.ptr = written
    /\ \A i \in 0..(out_bd.size - 1) : i < written => mem[i] = i + 1

\* Until libav seeks, read_packet gives the demuxer the coded video in order,
\* each byte once, and reports the end (room = 0) only when all of it was given.
ReadsInOrder ==
  seeks = 0 =>
    /\ demuxed = Bytes(1, Len(demuxed))
    /\ in_bd.room = 0 => Len(demuxed) = VideoSize

\* If out_bd never had to grow, and libav did not seek, the bitstream that goes
\* on to byteStreamToSampleStream is exactly what libav wrote.
DeliveredUnlessGrown ==
  pc = "done" /\ out_bd.buf = "vector" /\ seeks = 0 =>
    videoBitstream = Bytes(1, written)

\* "Resize output buffer and set to videoBuffer": the bitstream is what libav
\* wrote.  Not so once write_packet has grown the buffer, since out_vec is not
\* the buffer any more.
DeliveredIsWritten ==
  pc = "done" /\ seeks = 0 => videoBitstream = Bytes(1, written)

\* The while loop of write_packet ends: doubling reaches every request.
WriteReturns == pc = "write_packet" ~> pc \in {"idle", "exit", "crash"}
=============================================================================
