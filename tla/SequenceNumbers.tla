--------------------------- MODULE SequenceNumbers --------------------------
(***************************************************************************)
(* Arithmetic on the sequence numbers of an RLC entity                     *)
(* (lte-rlc-sequence-number.h): numbers modulo Modulus (1024 in the code)  *)
(* that are compared by their distance from a modulus base, the low end of *)
(* the window of the side that compares.                                   *)
(***************************************************************************)
EXTENDS Integers

CONSTANT Modulus

ASSUME ModulusAssumption == Modulus \in Nat \ {0}

SN == 0 .. Modulus - 1

\* A plausible mistake in the definition that follows it, used nowhere.
PlusMutant(sn, n) == sn + n

\* SequenceNumber10::operator+ for an increment of at most Modulus.
Plus(sn, n) == IF sn + n < Modulus THEN sn + n ELSE sn + n - Modulus

Succ(sn) == Plus(sn, 1)
Pred(sn) == Plus(sn, Modulus - 1)

\* How far sn lies above base; a < b relative to base in the code is
\* Dist(base, a) < Dist(base, b).
Dist(base, sn) == IF sn >= base THEN sn - base ELSE sn - base + Modulus

\* The numbers sn with low <= sn < high.
Interval(low, high) == {sn \in SN : Dist(low, sn) < Dist(low, high)}

\* The first number of the non-empty set S at or above base.
FirstFrom(base, S) ==
    CHOOSE sn \in S : \A other \in S : Dist(base, sn) <= Dist(base, other)
=============================================================================
