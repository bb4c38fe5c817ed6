-------------------------- MODULE MCGofTranscoder ---------------------------
(***************************************************************************)
(* Instances of GofTranscoder for TLC.                                     *)
(***************************************************************************)
EXTENDS GofTranscoder

Shape(id, atlases, multi, attrs, raw, good) ==
  [id |-> id, atlases |-> atlases, multi |-> multi,
   attrs |-> attrs, raw |-> raw, good |-> good]

\* GOFs that are transcoded, with equal and with different parameter set ids,
\* and one of each kind that is not.  The one with two atlases is refused for
\* its toolset as well: what happens to a good one is AtlasCountChecked.
MCShapes ==
  {Shape(id, 1, FALSE, 1, raw, TRUE) : id \in {0, 1}, raw \in BOOLEAN}
  \cup {Shape(0, 1, TRUE, 1, FALSE, TRUE),
        Shape(0, 1, FALSE, 0, FALSE, TRUE),
        Shape(0, 1, FALSE, 1, FALSE, FALSE),
        Shape(1, 2, FALSE, 1, FALSE, FALSE)}

\* One atlas or two.
MCAtlasShapes ==
  {Shape(id, atlases, FALSE, 1, FALSE, good) :
     id \in {0, 1}, atlases \in {1, 2}, good \in BOOLEAN}
=============================================================================
