------------------------------- MODULE MCRlcAm ------------------------------
(***************************************************************************)
(* Bounds on RlcAm for TLC.                                                *)
(***************************************************************************)
EXTENDS RlcAm

\* Where PDUs are never cut their size is of no account, and one byte each
\* gives the most numbers.  Where they are, one PDU of each direction is in
\* flight and two SDUs make up to four PDUs.
Bounds ==
    /\ bigEnough => \A sn \in SN : txed[sn].len <= 1
    /\ Len(status) <= 1
    /\ ~ bigEnough =>
           /\ submitted <= 2 * SduSize
           /\ Len(data) <= 1

MCSpec == Init /\ [][Next /\ Bounds']_vars
MCFairSpec == MCSpec /\ Fairness
=============================================================================
