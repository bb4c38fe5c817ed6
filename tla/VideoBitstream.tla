--------------------------- MODULE VideoBitstream ---------------------------
(***************************************************************************)
(* PCCVideoBitstream: a coded video is kept in V3C units as a sample       *)
(* stream (every NAL unit behind its size) and handed to the video codecs  *)
(* as a byte stream (every NAL unit behind a start code, 00 00 01 or       *)
(* 00 00 00 01).  sampleStreamToByteStream and byteStreamToSampleStream    *)
(* convert in place, one NAL unit per iteration of their loops.  The       *)
(* transcoder goes from one to the other and back.                         *)
(*                                                                         *)
(* Positions are those of the code, from 0; data_[i] is data_[i + 1] of    *)
(* the sequence here.  emulationPreventionBytes is FALSE in every call.    *)
(***************************************************************************)
EXTENDS Naturals, Sequences, SequencesExt, FiniteSetsExt, Binary

CONSTANTS
  NalUnits,   \* the NAL units, sequences of bytes
  MaxNalus,   \* bound: the NAL units of a video
  Codecs,     \* a subset of {"avc", "hevc", "vvc"}
  Precision   \* the bytes of a size, 4 in every call

ASSUME VideoBitstreamAssumption ==
  /\ NalUnits \subseteq Seq(0..255)
  /\ MaxNalus \in Nat \ {0}
  /\ Codecs \subseteq {"avc", "hevc", "vvc"}
  /\ Precision \in 1..4

\* The size of a NAL unit fits into its bytes.
ASSUME SizeAssumption ==
  \A u \in NalUnits : Len(u) \div Pow2[8 * (Precision - 1)] < Pow2[8]

VARIABLES
  codec,          \* the codec of the video: isAvc, isVvc
  nalus,          \* history: the NAL units of the video
  data_,          \* the stream that is converted
  data,           \* the stream that is built
  startIndex,     \* where the loop is in data_
  sizeStartCode,  \* of the next start code, in sampleStreamToByteStream
  pc              \* "toByte", "toSample" or "done"

vars == <<codec, nalus, data_, data, startIndex, sizeStartCode, pc>>

-----------------------------------------------------------------------------
\* data_[i] of the code.
At(i) == data_[i + 1]

\* The bytes data_[a..b-1].
Slice(a, b) == SubSeq(data_, a + 1, b)

\* The Precision bytes of a size, and back.
SizeBytes(n) == Digits(n, Precision, 8)
SizeOf(bytes) == Number(bytes, 8)

StartCode(n) == [i \in 1..n |-> IF i = n THEN 1 ELSE 0]

\* The sample stream of the video.
SampleStream(units) ==
  FlattenSeq([k \in DOMAIN units |-> SizeBytes(Len(units[k])) \o units[k]])

\* A NAL unit a codec may produce: no start code in it and no zero at the end;
\* the header has one byte in AVC and two in HEVC and VVC.
NalUnitOf(c, u) ==
  /\ Len(u) >= IF c = "avc" THEN 1 ELSE 2
  /\ u[Len(u)] # 0
  /\ \A i \in 1..(Len(u) - 2) : ~(u[i] = 0 /\ u[i + 1] = 0 /\ u[i + 2] <= 1)

Init ==
  /\ codec \in Codecs
  /\ \E n \in 1..MaxNalus : nalus \in [1..n -> {u \in NalUnits : NalUnitOf(codec, u)}]
  /\ data_ = SampleStream(nalus)
  /\ data = <<>>
  /\ startIndex = 0
  /\ sizeStartCode = 4
  /\ pc = "toByte"

\* Does the NAL unit whose first byte is data_[i] get the long start code?
\* (newFrame is always false where it is read.)
useLongStartCode(i) ==
  CASE codec = "avc"  -> TRUE
    [] codec = "vvc"  -> At(i + 1) \div 8 \in 12..19
    [] codec = "hevc" -> (At(i) \div 2) % 64 \in 32..40

\* One iteration of the loop of sampleStreamToByteStream.  After the last one
\* data_ is replaced, and byteStreamToSampleStream starts on it.
sampleStreamToByteStream ==
  /\ pc = "toByte"
  /\ LET naluSize == SizeOf(Slice(startIndex, startIndex + Precision))
         endIndex == startIndex + Precision + naluSize
         out == data \o StartCode(sizeStartCode)
                     \o Slice(startIndex + Precision, endIndex)
     IN IF endIndex < Len(data_)
          THEN /\ data' = out
               /\ startIndex' = endIndex
               /\ sizeStartCode' =
                    IF endIndex + Precision < Len(data_)
                      THEN IF useLongStartCode(endIndex + Precision) THEN 4 ELSE 3
                      ELSE sizeStartCode
               /\ UNCHANGED <<data_, pc>>
          ELSE /\ data_' = out
               /\ data' = <<>>
               /\ startIndex' = 0
               /\ pc' = "toSample"
               /\ UNCHANGED sizeStartCode
  /\ UNCHANGED <<codec, nalus>>

\* The positions at which getEndOfNaluPosition stops.
startCodesFrom(i) ==
  {j \in i..(Len(data_) - 5) :
     /\ At(j) = 0
     /\ At(j + 1) = 0
     /\ At(j + 2) = 1 \/ (At(j + 2) = 0 /\ At(j + 3) = 1)}

\* Mutant of getEndOfNaluPosition: it stops one position earlier at the end of
\* the data.
getEndOfNaluPosition_Short(i) ==
  LET found == startCodesFrom(i) \ {Len(data_) - 5}
  IN IF Len(data_) < i + 4 \/ found = {} THEN Len(data_) ELSE Min(found)

getEndOfNaluPosition(i) ==
  IF Len(data_) < i + 4 \/ startCodesFrom(i) = {}
    THEN Len(data_)
    ELSE Min(startCodesFrom(i))

\* Mutant of byteStreamToSampleStream: startIndex is not moved.
byteStreamToSampleStream_Stuck ==
  /\ pc = "toSample"
  /\ LET codeSize == IF At(startIndex + 2) = 0 THEN 4 ELSE 3
         endIndex == getEndOfNaluPosition(startIndex + codeSize)
         nalu == Slice(startIndex + codeSize, endIndex)
         out == SizeBytes(Len(nalu)) \o nalu
     IN IF endIndex < Len(data_)
          THEN /\ data' = out
               /\ UNCHANGED <<startIndex, data_, pc>>
          ELSE /\ data_' = out
               /\ data' = <<>>
               /\ startIndex' = 0
               /\ pc' = "done"
  /\ UNCHANGED <<codec, nalus, sizeStartCode>>

\* One iteration of the loop of byteStreamToSampleStream.
byteStreamToSampleStream ==
  /\ pc = "toSample"
  /\ LET codeSize == IF At(startIndex + 2) = 0 THEN 4 ELSE 3
         endIndex == getEndOfNaluPosition(startIndex + codeSize)
         nalu == Slice(startIndex + codeSize, endIndex)
         out == data \o SizeBytes(Len(nalu)) \o nalu
     IN IF endIndex < Len(data_)
          THEN /\ data' = out
               /\ startIndex' = endIndex
               /\ UNCHANGED <<data_, pc>>
          ELSE /\ data_' = out
               /\ data' = <<>>
               /\ startIndex' = 0
               /\ pc' = "done"
  /\ UNCHANGED <<codec, nalus, sizeStartCode>>

Next == sampleStreamToByteStream \/ byteStreamToSampleStream

Spec == Init /\ [][Next]_vars

\* The conversions are loops in one thread.
FairSpec == Spec /\ WF_vars(Next)

-----------------------------------------------------------------------------
(* Properties. *)

\* Going to a byte stream and back gives the NAL units the video had: no unit is
\* split or joined with another, whatever the start codes and the bytes next
\* to them, down to the shortest NAL unit at the end of the data.
RoundTrip == pc = "done" => data_ = SampleStream(nalus)

\* Both conversions end.
Converts == <>(pc = "done")
=============================================================================
