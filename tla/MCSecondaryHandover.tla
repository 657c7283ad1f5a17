------------------------ MODULE MCSecondaryHandover -------------------------
(***************************************************************************)
(* Instances of SecondaryHandover for TLC.                                 *)
(***************************************************************************)
EXTENDS SecondaryHandover

TwoCells == {1, 2}
ThreeCells == {1, 2, 3}
OneOfTwo == {1}
TwoOfThree == {1, 3}
Levels == {1, 5}
=============================================================================
