------------------------- MODULE MCAbstractHandover -------------------------
(***************************************************************************)
(* Instances of AbstractHandover for TLC.  The levels that can be reported *)
(* separate outage (1), the 2 dB hysteresis (2, 3), and service with a     *)
(* difference at and above HoSinrDifference (4, 5).                        *)
(***************************************************************************)
EXTENDS AbstractHandover

TwoCells == {1, 2}
ThreeCells == {1, 2, 3}
Levels == 1 .. 5
=============================================================================
