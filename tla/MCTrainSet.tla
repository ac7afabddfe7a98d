------------------------------ MODULE MCTrainSet ------------------------------
(***************************************************************************)
(* Instances of TrainSet for TLC: an original whose own name changes when it  *)
(* is cropped (a .jpg) and one whose name does not (a .png), each of which can *)
(* be cut into two pieces.                                                     *)
(***************************************************************************)
EXTENDS TrainSet

JustOne   == {{"jpg"}}
OneOfEach == {{"jpg"}, {"png"}}

TwoPieces == {{"c0", "c1"}}
================================================================================
