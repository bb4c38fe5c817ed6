-------------------------- MODULE MCVideoBitstream --------------------------
(***************************************************************************)
(* Instance of VideoBitstream for TLC: NAL units of up to three bytes, of  *)
(* zeros, ones and two types (64 is an HEVC and, as a second byte, no VVC  *)
(* parameter set; 112 the other way round), and one that needs two bytes   *)
(* for its size.                                                           *)
(***************************************************************************)
EXTENDS VideoBitstream

MCNalUnits ==
  BoundedSeq({0, 1, 64, 112}, 3) \cup {[i \in 1..260 |-> 7]}
=============================================================================
