--------------------------- MODULE MCAtlasPatches ---------------------------
(***************************************************************************)
(* Instances of AtlasPatches for TLC.                                      *)
(***************************************************************************)
EXTENDS AtlasPatches

Conf(frames, tiles, maxPatches, maxRef, constrainedPack, precedence, others, cs) ==
  [frames |-> frames, tiles |-> tiles, maxPatches |-> maxPatches,
   maxRef |-> maxRef, constrainedPack |-> constrainedPack,
   precedence |-> precedence, others |-> others, components |-> cs]

Between(ds) == {c \in Components : c.near \in ds /\ c.far \in ds}
Along(near, far) == [mode |-> 0, near |-> near, far |-> far]
Against(near, far) == [mode |-> 1, near |-> near, far |-> far]

\* Chains of one patch per frame, predicted from the frame before.
MCChains == {Conf(4, 1, 1, 1, TRUE, FALSE, <<>>, Between({0, 3, 7}))}

\* Several patches per tile, reference frames and tiles.
MCLists ==
  {Conf(2, 1, 2, 1, TRUE, FALSE, <<"raw", "eom">>, {Along(2, 5), Against(9, 3)}),
   Conf(3, 1, 2, 3, TRUE, FALSE, <<"raw">>, {Along(2, 5), Along(8, 9)}),
   Conf(3, 1, 2, 3, TRUE, TRUE, <<>>, {Along(2, 5), Against(9, 3)}),
   Conf(4, 1, 1, 3, TRUE, TRUE, <<>>, {Along(2, 5), Along(8, 9)}),
   Conf(3, 2, 1, 2, TRUE, FALSE, <<"eom">>, {Along(2, 5), Against(9, 3)}),
   Conf(3, 1, 2, 1, TRUE, TRUE, <<>>, {Along(2, 5), Along(8, 9)}),
   Conf(2, 1, 1, 2, FALSE, FALSE, <<>>, {Along(2, 5)})}

MCConfs == MCChains \union MCLists
=============================================================================
