---------------------------- MODULE MCBufferData ----------------------------
(***************************************************************************)
(* Instances of BufferData for TLC: a video of 2 bytes, so an output       *)
(* vector of 4, and up to 10 bytes of output, so that one write can need   *)
(* two doublings and a second growth can follow a first.                   *)
(***************************************************************************)
EXTENDS BufferData

MCReadSizes == {1, 3}
MCWriteSizes == {1, 2, 3, 7}
=============================================================================
