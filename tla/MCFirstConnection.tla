-------------------------- MODULE MCFirstConnection -------------------------
(***************************************************************************)
(* Instance of FirstConnection for TLC.                                    *)
(***************************************************************************)
EXTENDS FirstConnection

OneCell == {1}
\* In an outage, and able to serve the UE.
Levels == {1, 5}
=============================================================================
