-------------------------- MODULE MCEncoderFrames ---------------------------
(***************************************************************************)
(* Instances of EncoderFrames for TLC.                                     *)
(***************************************************************************)
EXTENDS EncoderFrames

Conf(seg, raw, rois, single, recon) ==
  [seg |-> seg, raw |-> raw, rois |-> rois, single |-> single, recon |-> recon]

\* No tiles; tiles by region with and without raw patches, and with a single
\* region; tiles by patch size.
MCConfs ==
  {Conf(0, FALSE, 1, TRUE, TRUE), Conf(1, FALSE, 2, FALSE, FALSE),
   Conf(1, TRUE, 2, FALSE, FALSE), Conf(1, TRUE, 1, FALSE, FALSE),
   Conf(2, TRUE, 1, TRUE, FALSE)}

\* Tiles by two regions of interest, with raw patches.
MCRawTiles == {Conf(1, TRUE, 2, FALSE, FALSE)}
=============================================================================
