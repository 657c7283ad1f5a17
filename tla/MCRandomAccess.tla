--------------------------- MODULE MCRandomAccess ----------------------------
(***************************************************************************)
(* Instances of RandomAccess for TLC: two dual-connected UEs and one with  *)
(* mmWave only.                                                            *)
(***************************************************************************)
EXTENDS RandomAccess

ThreeUes == {"u", "v", "w"}
TwoDualUes == {"u", "v"}
=============================================================================
