----------------------------- MODULE RlcAm_proofs ----------------------------
(***************************************************************************)
(* Proofs about an acknowledged-mode bearer, for every modulus, window and *)
(* SDU size and any number of PDUs in flight: the order of the numbers at  *)
(* both ends of the bearer.                                                *)
(***************************************************************************)
EXTENDS RlcAm, SequenceTheorems, WellFoundedInduction, TLAPS

-----------------------------------------------------------------------------
(* Sequence numbers.                                                       *)

USE ModulusAssumption

\* Distances are numbers below the modulus, and only 0 is that of the base.
LEMMA DistType ==
    ASSUME NEW base \in SN, NEW sn \in SN
    PROVE  /\ Dist(base, sn) \in Nat /\ Dist(base, sn) < Modulus
           /\ Dist(base, sn) = 0 <=> base = sn
  BY DEF SN, Dist

\* A sum is a sequence number, at the distance that was added.
LEMMA PlusType ==
    ASSUME NEW sn \in SN, NEW n \in 0 .. Modulus
    PROVE  /\ Plus(sn, n) \in SN
           /\ n < Modulus => Dist(sn, Plus(sn, n)) = n
  BY DEF SN, Dist, Plus

\* Distances add up as long as no number lies beyond the next.
LEMMA DistAdds ==
    ASSUME NEW base \in SN, NEW a \in SN, NEW b \in SN,
           Dist(base, a) <= Dist(base, b)
    PROVE  Dist(a, b) = Dist(base, b) - Dist(base, a)
  BY DEF SN, Dist

\* A number closer to the base than a lies almost a turn above a.
LEMMA DistWraps ==
    ASSUME NEW base \in SN, NEW a \in SN, NEW b \in SN,
           Dist(base, b) < Dist(base, a)
    PROVE  Dist(a, b) = Modulus + Dist(base, b) - Dist(base, a)
  BY DEF SN, Dist

\* One step up is one further from the base, unless that is a full turn.
LEMMA DistSucc ==
    ASSUME NEW base \in SN, NEW sn \in SN, Dist(base, sn) + 1 < Modulus
    PROVE  Succ(sn) \in SN /\ Dist(base, Succ(sn)) = Dist(base, sn) + 1
  BY DEF SN, Dist, Succ, Plus

\* A number between a base and a limit lies below an end between them or
\* from it on.
LEMMA IntervalSplits ==
    ASSUME NEW base \in SN, NEW low \in SN, NEW high \in SN,
           Dist(base, low) <= Dist(base, high)
    PROVE  Interval(base, high) = Interval(base, low) \cup Interval(low, high)
  BY DEF SN, Dist, Interval

\* A non-empty set of natural numbers has a least element.
LEMMA LeastNatural ==
    ASSUME NEW T, T \subseteq Nat, T # {}
    PROVE  \E x \in T : \A y \in T : x <= y
<1> DEFINE R == OpToRel(<, Nat)
<1>1. IsWellFoundedOn(R, Nat)
  BY NatLessThanWellFounded
<1>2. PICK x \in T : \A y \in T : <<y, x>> \notin R
  <2> HIDE DEF R
  <2> QED BY <1>1, WFMin
<1>3. ASSUME NEW y \in T PROVE x <= y
  <2>1. <<y, x>> \notin R
    BY <1>2
  <2>2. ~ (y < x)
    BY <2>1 DEF OpToRel
  <2> QED BY <2>2
<1> QED BY <1>3

\* FirstFrom finds an element of the set, and none lies closer to the base.
LEMMA FirstFromIsFirst ==
    ASSUME NEW base \in SN, NEW S, S \subseteq SN, S # {}
    PROVE  /\ FirstFrom(base, S) \in S
           /\ \A sn \in S : Dist(base, FirstFrom(base, S)) <= Dist(base, sn)
<1> DEFINE T == {Dist(base, sn) : sn \in S}
<1>1. T \subseteq Nat /\ T # {}
  BY DistType
<1>2. PICK d \in T : \A other \in T : d <= other
  <2> HIDE DEF T
  <2> QED BY <1>1, LeastNatural
<1>3. PICK sn \in S : d = Dist(base, sn)
  OBVIOUS
<1>4. \A other \in S : Dist(base, sn) <= Dist(base, other)
  BY <1>2, <1>3
<1> QED BY <1>4 DEF FirstFrom

-----------------------------------------------------------------------------
(* The receiving side.                                                     *)

\* The types that the order of the receiving side rests on.
ReceiverTypes ==
    /\ vrR \in SN /\ vrMs \in SN /\ vrH \in SN
    /\ reorderingTimer \in SN \union {Off}
    /\ DOMAIN rxon = SN

ReceiverInv == ReceiverTypes /\ ReceiverOrder

\* ReceiverOrder speaks of the receiving side only.
LEMMA ReceiverUnchanged ==
    ASSUME ReceiverInv, UNCHANGED <<vrR, vrMs, vrH, rxon, reorderingTimer>>
    PROVE  ReceiverInv'
  BY DEF ReceiverInv, ReceiverTypes, ReceiverOrder

\* The window is smaller than the modulus, so that a number at most a window
\* away is not the base again.
LEMMA WindowFits ==
    Window \in Nat \ {0} /\ 2 * Window <= Modulus /\ Window < Modulus
  BY RlcAssumption

\* A number outside an interval that holds all entries is incomplete.
LEMMA HighIsIncomplete ==
    ASSUME NEW base \in SN, NEW high \in SN, NEW buffer,
           \A sn \in SN \ Interval(base, high) : buffer[sn] = NoEntry
    PROVE  /\ high \in Incomplete(buffer)
           /\ Incomplete(buffer) \subseteq SN
<1>1. high \notin Interval(base, high)
  BY DistType DEF Interval
<1>2. ~ NoEntry.complete
  BY DEF NoEntry
<1> QED BY <1>1, <1>2 DEF Incomplete

\* VR(MS) never passes VR(H): it stops at an incomplete number.
LEMMA FirstIncompleteInside ==
    ASSUME NEW base \in SN, NEW from \in SN, NEW high \in SN, NEW buffer,
           Dist(base, from) <= Dist(base, high),
           \A sn \in SN \ Interval(base, high) : buffer[sn] = NoEntry
    PROVE  LET first == FirstFrom(from, Incomplete(buffer))
           IN  /\ first \in Incomplete(buffer)
               /\ first \in SN
               /\ Dist(base, from) <= Dist(base, first)
               /\ Dist(base, first) <= Dist(base, high)
<1> DEFINE first == FirstFrom(from, Incomplete(buffer))
<1>1. high \in Incomplete(buffer) /\ Incomplete(buffer) \subseteq SN
  BY HighIsIncomplete
<1>2. first \in Incomplete(buffer) /\ first \in SN
      /\ Dist(from, first) <= Dist(from, high)
  BY <1>1, FirstFromIsFirst
<1> HIDE DEF first
<1>3. Dist(from, high) = Dist(base, high) - Dist(base, from)
  BY DistAdds
<1>4. Dist(base, from) <= Dist(base, first)
  <2>1. SUFFICES ASSUME Dist(base, first) < Dist(base, from) PROVE FALSE
    BY <1>2, DistType
  <2>2. Dist(from, first) = Modulus + Dist(base, first) - Dist(base, from)
    BY <1>2, <2>1, DistWraps
  <2> QED BY <1>2, <1>3, <2>2, DistType
<1>5. Dist(from, first) = Dist(base, first) - Dist(base, from)
  BY <1>2, <1>4, DistAdds
<1>6. Dist(base, first) <= Dist(base, high)
  BY <1>2, <1>3, <1>5, DistType
<1> QED BY <1>2, <1>4, <1>6 DEF first

\* The end of t-Reordering moves VR(MS) up to an incomplete number.
LEMMA ExpireReorderingTimerKeepsReceiver ==
    ASSUME ReceiverInv, ExpireReorderingTimer
    PROVE  ReceiverInv'
<1> DEFINE first == FirstFrom(reorderingTimer, Incomplete(rxon))
<1>1. /\ reorderingTimer # Off
      /\ vrMs' = first
      /\ reorderingTimer' = IF Dist(vrR, vrH) > Dist(vrR, first)
                                THEN vrH ELSE Off
      /\ UNCHANGED <<vrR, vrH, rxon>>
  BY DEF ExpireReorderingTimer
<1>2. ReceiverTypes /\ ReceiverOrder /\ reorderingTimer \in SN
  BY <1>1 DEF ReceiverInv, ReceiverTypes
<1>3. first \in SN /\ Dist(vrR, first) <= Dist(vrR, vrH)
  BY <1>1, <1>2, FirstIncompleteInside DEF ReceiverTypes, ReceiverOrder
<1> HIDE DEF first
<1>4. ReceiverTypes'
  BY <1>1, <1>2, <1>3 DEF ReceiverTypes
<1>5. Dist(vrR, vrH) > Dist(vrR, first) => vrH # vrR
  BY <1>2, <1>3, DistType DEF ReceiverTypes
<1>6. ReceiverOrder'
  <2>1. (Dist(vrR, vrMs) <= Dist(vrR, vrH) /\ Dist(vrR, vrH) <= Window)'
    BY <1>1, <1>2, <1>3 DEF ReceiverOrder
  <2>2. (reorderingTimer # Off =>
           /\ reorderingTimer # vrR
           /\ Dist(vrR, reorderingTimer) <= Dist(vrR, vrH))'
    BY <1>1, <1>2, <1>5, DistType DEF ReceiverTypes
  <2>3. (\A sn \in SN \ Interval(vrR, vrH) : rxon[sn] = NoEntry)'
    BY <1>1, <1>2 DEF ReceiverOrder
  <2> QED BY <2>1, <2>2, <2>3 DEF ReceiverOrder
<1> QED BY <1>4, <1>6 DEF ReceiverInv

\* A data PDU inside the window moves the three numbers up together.
LEMMA PlaceAndDeliverKeepsReceiver ==
    ASSUME ReceiverInv, NEW m, m.sn \in SN, InsideReceivingWindow(m.sn),
           PlaceAndDeliver(m)
    PROVE  ReceiverInv'
<1> DEFINE buffer == [rxon EXCEPT ![m.sn] = Placed(m)]
           high == IF Dist(vrR, m.sn) >= Dist(vrR, vrH) THEN Succ(m.sn) ELSE vrH
           low == IF m.sn = vrR THEN FirstFrom(vrR, Incomplete(buffer)) ELSE vrR
           ms == FirstFrom(vrMs, Incomplete(buffer))
<1>1. /\ vrH' = high /\ vrMs' = ms /\ vrR' = low
      /\ rxon' = [sn \in SN |-> IF sn \in Interval(vrR, low)
                                    THEN NoEntry ELSE buffer[sn]]
      /\ reorderingTimer' = IF ReorderingGoesOn(low) THEN reorderingTimer
                            ELSE IF high # low THEN high ELSE Off
  BY DEF PlaceAndDeliver
<1>2. ReceiverTypes /\ ReceiverOrder
  BY DEF ReceiverInv
<1>3. /\ high \in SN
      /\ Dist(vrR, vrH) <= Dist(vrR, high)
      /\ Dist(vrR, m.sn) < Dist(vrR, high)
      /\ Dist(vrR, high) <= Window
  BY <1>2, WindowFits, DistType, DistSucc
     DEF ReceiverTypes, ReceiverOrder, InsideReceivingWindow
<1>4. \A sn \in SN \ Interval(vrR, high) : buffer[sn] = NoEntry
  <2>1. SUFFICES ASSUME NEW sn \in SN, sn \notin Interval(vrR, high)
                 PROVE  buffer[sn] = NoEntry
    OBVIOUS
  <2>2. sn # m.sn /\ sn \notin Interval(vrR, vrH)
    BY <1>2, <1>3, <2>1, DistType DEF Interval, ReceiverTypes
  <2> QED BY <1>2, <2>2 DEF ReceiverTypes, ReceiverOrder
<1> HIDE DEF high
<1>5. /\ ms \in SN /\ ms \in Incomplete(buffer)
      /\ Dist(vrR, vrMs) <= Dist(vrR, ms)
      /\ Dist(vrR, ms) <= Dist(vrR, high)
  <2>1. Dist(vrR, vrMs) <= Dist(vrR, high)
    BY <1>2, <1>3, DistType DEF ReceiverTypes, ReceiverOrder
  <2> HIDE DEF buffer
  <2> QED BY <1>2, <1>3, <1>4, <2>1, FirstIncompleteInside DEF ReceiverTypes
<1>6. low \in SN /\ Dist(vrR, low) <= Dist(vrR, ms)
  <2> HIDE DEF buffer, ms
  <2>1. CASE m.sn = vrR
    <3>1. Incomplete(buffer) \subseteq SN
      BY DEF Incomplete
    <3> QED BY <1>2, <1>5, <2>1, <3>1, FirstFromIsFirst DEF ReceiverTypes
  <2>2. CASE m.sn # vrR
    BY <1>2, <1>5, <2>2, DistType DEF ReceiverTypes
  <2> QED BY <2>1, <2>2
<1> HIDE DEF low, ms
<1>7. ReceiverTypes'
  BY <1>1, <1>2, <1>3, <1>5, <1>6 DEF ReceiverTypes
<1>8. /\ Dist(low, ms) <= Dist(low, high)
      /\ Dist(low, high) <= Window
      /\ Dist(vrR, low) <= Dist(vrR, high)
  <2>1. /\ Dist(vrR, low) \in Nat /\ Dist(vrR, ms) \in Nat
        /\ Dist(vrR, high) \in Nat /\ Window \in Nat
    BY <1>2, <1>3, <1>5, <1>6, DistType, WindowFits DEF ReceiverTypes
  <2>2. Dist(vrR, low) <= Dist(vrR, high)
    BY <1>5, <1>6, <2>1
  <2>3. Dist(low, ms) = Dist(vrR, ms) - Dist(vrR, low)
    BY <1>2, <1>5, <1>6, DistAdds DEF ReceiverTypes
  <2>4. Dist(low, high) = Dist(vrR, high) - Dist(vrR, low)
    BY <1>2, <1>3, <1>6, <2>2, DistAdds DEF ReceiverTypes
  <2> QED BY <1>3, <1>5, <2>1, <2>2, <2>3, <2>4
<1>9. ASSUME reorderingTimer' # Off
      PROVE  /\ reorderingTimer' # low
             /\ Dist(low, reorderingTimer') <= Dist(low, high)
  <2>1. CASE ReorderingGoesOn(low)
    <3> DEFINE x == reorderingTimer
    <3>1. /\ x \in SN /\ x # low /\ reorderingTimer' = x
          /\ x # vrR /\ Dist(vrR, x) <= Dist(vrR, vrH)
      BY <1>1, <1>2, <2>1 DEF ReorderingGoesOn, ReceiverTypes, ReceiverOrder
    <3>2. Dist(low, x) <= Window
      <4>1. Window \in 0 .. Modulus /\ Window < Modulus
        BY WindowFits
      <4>2. Dist(low, Plus(low, Window)) = Window
        BY <1>6, <4>1, PlusType
      <4>3. Dist(low, x) \in Nat
        BY <1>6, <3>1, DistType
      <4> QED BY <2>1, <4>1, <4>2, <4>3 DEF ReorderingGoesOn
    <3> HIDE DEF x
    <3>3. Dist(vrR, low) <= Dist(vrR, x)
      <4>1. SUFFICES ASSUME Dist(vrR, x) < Dist(vrR, low) PROVE FALSE
        BY <1>2, <1>6, <3>1, DistType DEF ReceiverTypes
      <4>2. Dist(low, x) = Modulus + Dist(vrR, x) - Dist(vrR, low)
        BY <1>2, <1>6, <3>1, <4>1, DistWraps DEF ReceiverTypes
      <4>3. Dist(vrR, x) >= 1 /\ Dist(vrR, low) <= Window
        <5>1. /\ Dist(vrR, x) \in Nat /\ Dist(vrR, x) # 0
              /\ Dist(vrR, low) \in Nat /\ Dist(vrR, high) \in Nat
          BY <1>2, <1>3, <1>6, <3>1, DistType DEF ReceiverTypes
        <5> QED BY <1>3, <1>8, <5>1, WindowFits
      <4> QED BY <1>2, <1>6, <3>1, <3>2, <4>2, <4>3, WindowFits, DistType
              DEF ReceiverTypes
    <3>4. Dist(low, x) = Dist(vrR, x) - Dist(vrR, low)
      BY <1>2, <1>6, <3>1, <3>3, DistAdds DEF ReceiverTypes
    <3>5. Dist(low, high) = Dist(vrR, high) - Dist(vrR, low)
      BY <1>2, <1>3, <1>6, <1>8, DistAdds DEF ReceiverTypes
    <3> QED BY <1>2, <1>3, <1>6, <3>1, <3>4, <3>5, DistType DEF ReceiverTypes
  <2>2. CASE ~ ReorderingGoesOn(low)
    BY <1>1, <1>3, <1>6, <1>9, <2>2, DistType
  <2> QED BY <2>1, <2>2
<1>10. ASSUME NEW sn \in SN, sn \notin Interval(low, high)
       PROVE  rxon'[sn] = NoEntry
  <2>1. sn \in Interval(vrR, low) \/ sn \notin Interval(vrR, high)
    BY <1>2, <1>3, <1>6, <1>8, <1>10, IntervalSplits DEF ReceiverTypes
  <2> QED BY <1>1, <1>4, <2>1
<1>11. ReceiverOrder'
  BY <1>1, <1>8, <1>9, <1>10 DEF ReceiverOrder
<1> QED BY <1>7, <1>11 DEF ReceiverInv

-----------------------------------------------------------------------------
(* The transmitting side and the MAC.                                      *)

\* The types that the window of the transmitting side rests on: numbers in
\* the messages are sequence numbers, whatever else a PDU holds.
AnyPdu == [from : Int, len : Int]
AnyDataPdu == [sn : SN, poll : BOOLEAN, pdu : AnyPdu, segment : BOOLEAN,
               offset : Int, len : Int, last : BOOLEAN, overtaken : Int]

SenderTypes ==
    /\ sent \in Int /\ pollExpired \in BOOLEAN
    /\ vtA \in SN /\ vtS \in SN
    /\ txed \in [SN -> AnyPdu] /\ retx \in [SN -> AnyPdu]
    /\ retxSeg \in [SN -> Int]

MacTypes ==
    /\ data \in Seq(AnyDataPdu)
    /\ status \in Seq(StatusPdu)

SenderInv == SenderTypes /\ SenderWindow

LEMMA SenderUnchanged ==
    ASSUME SenderInv,
           UNCHANGED <<sent, pollExpired, vtA, vtS, txed, retx, retxSeg>>
    PROVE  SenderInv'
  BY DEF SenderInv, SenderTypes, SenderWindow, InFlight, TxWindow

LEMMA MacUnchanged ==
    ASSUME MacTypes, UNCHANGED <<data, status>>
    PROVE  MacTypes'
  BY DEF MacTypes

\* Poll leaves a Boolean behind.
LEMMA PollTypes ==
    ASSUME SenderTypes, NEW requested, NEW last, Poll(requested, last)
    PROVE  pollExpired' \in BOOLEAN
  BY DEF Poll, SenderTypes

\* What is sent joins the channel or is lost.
LEMMA TransmitTypes ==
    ASSUME NEW S, NEW channel \in Seq(S), NEW pdu \in S, NEW kept
    PROVE  Transmit(channel, pdu, kept) \in Seq(S)
  BY DEF Transmit

LEMMA NoPduType == NoPdu \in AnyPdu
  BY DEF NoPdu, AnyPdu

\* A new PDU takes the number VT(S), which is outside the window and free.
LEMMA SendNewPduKeepsSender ==
    ASSUME SenderInv, MacTypes, NEW n \in 1 .. MaxPdu, NEW kept \in BOOLEAN,
           SendNewPdu(n, kept)
    PROVE  SenderInv' /\ MacTypes'
<1> DEFINE pdu == [from |-> sent + 1, len |-> n]
           message == [sn |-> vtS, poll |-> TRUE, pdu |-> pdu,
                       segment |-> FALSE, offset |-> 0, len |-> n,
                       last |-> TRUE, overtaken |-> 0]
<1>1. /\ ~ Stalled
      /\ sent' = sent + n
      /\ vtS' = Succ(vtS)
      /\ txed' = [txed EXCEPT ![vtS] = pdu]
      /\ Poll(TRUE, vtS)
      /\ data' = Transmit(data, message, kept)
      /\ UNCHANGED <<vtA, retx, retxSeg, status>>
  BY DEF SendNewPdu
<1>2. SenderTypes /\ SenderWindow
  BY DEF SenderInv
<1>3. n \in Int
  OBVIOUS
<1>4. pdu \in AnyPdu
  BY <1>2, <1>3 DEF AnyPdu, SenderTypes
<1> HIDE DEF pdu
<1>5. message \in AnyDataPdu
  BY <1>2, <1>3, <1>4 DEF AnyDataPdu, SenderTypes
<1> HIDE DEF message
<1>6. MacTypes'
  BY <1>1, <1>5, TransmitTypes DEF MacTypes
<1>7. /\ vtS' \in SN
      /\ Dist(vtA, vtS') = Dist(vtA, vtS) + 1
      /\ Dist(vtA, vtS) < Window
  <2>1. Dist(vtA, vtS) \in Nat /\ Dist(vtA, vtS) < Window
    BY <1>1, <1>2, DistType, WindowFits DEF Stalled, InFlight, SenderTypes
  <2> QED BY <1>1, <1>2, <2>1, WindowFits, DistSucc DEF SenderTypes
<1>8. SenderTypes'
  <2>1. pollExpired' \in BOOLEAN
    BY <1>1, <1>2, PollTypes
  <2>2. txed' \in [SN -> AnyPdu]
    BY <1>1, <1>2, <1>4 DEF SenderTypes
  <2>3. sent' \in Int
    BY <1>1, <1>2, <1>3 DEF SenderTypes
  <2> QED BY <1>1, <1>2, <1>7, <2>1, <2>2, <2>3 DEF SenderTypes
<1>9. vtS \notin TxWindow
  BY <1>2, DistType DEF TxWindow, Interval, SenderTypes
<1>10. TxWindow' = TxWindow \cup {vtS}
  <2>1. ASSUME NEW sn \in SN
        PROVE  Dist(vtA, sn) < Dist(vtA, vtS') <=>
                   Dist(vtA, sn) < Dist(vtA, vtS) \/ sn = vtS
    <3>1. Dist(vtA, sn) = Dist(vtA, vtS) <=> sn = vtS
      BY <1>2 DEF SN, Dist, SenderTypes
    <3>2. Dist(vtA, sn) \in Nat /\ Dist(vtA, vtS) \in Nat
      BY <1>2, DistType DEF SenderTypes
    <3> QED BY <1>7, <3>1, <3>2
  <2> QED BY <1>1, <1>2, <2>1 DEF TxWindow, Interval, SenderTypes
<1>11. SenderWindow'
  <2>1. InFlight' <= Window
    BY <1>1, <1>2, <1>7, WindowFits, DistType DEF InFlight, SenderTypes
  <2>2. (\A sn \in SN \ TxWindow : txed[sn] = NoPdu /\ retx[sn] = NoPdu)'
    BY <1>1, <1>2, <1>10 DEF SenderTypes, SenderWindow
  <2>3. (\A sn \in SN : txed[sn] = NoPdu \/ retx[sn] = NoPdu)'
    BY <1>1, <1>2, <1>9 DEF SenderTypes, SenderWindow
  <2> QED BY <2>1, <2>2, <2>3 DEF SenderWindow
<1> QED BY <1>6, <1>8, <1>11 DEF SenderInv

\* The first number that waits to be retransmitted is one.
LEMMA FirstRetxWaits ==
    ASSUME SenderTypes, ~ RetxEmpty
    PROVE  FirstRetx \in SN /\ retx[FirstRetx] # NoPdu
<1> DEFINE S == {sn \in SN : retx[sn] # NoPdu}
<1>1. S # {} /\ S \subseteq SN /\ vtA \in SN
  BY DEF RetxEmpty, SenderTypes
<1>2. FirstRetx \in S
  <2> HIDE DEF S
  <2>1. FirstFrom(vtA, S) \in S
    BY <1>1, FirstFromIsFirst
  <2> QED BY <2>1 DEF FirstRetx, S
<1> QED BY <1>2

LEMMA RetxMessageTypes ==
    ASSUME SenderTypes, NEW sn \in SN, NEW len \in Int, NEW last \in BOOLEAN
    PROVE  RetxMessage(sn, len, last) \in AnyDataPdu
<1>1. Offset(sn) \in Int
  BY DEF Offset, SenderTypes, NoSegment
<1>2. PollsOnRetx(sn) \in BOOLEAN
  BY DEF PollsOnRetx, SenderTypes
<1>3. (~ last \/ retxSeg[sn] # NoSegment) \in BOOLEAN
  OBVIOUS
<1>4. retx[sn] \in AnyPdu
  BY DEF SenderTypes
<1> QED BY <1>1, <1>2, <1>3, <1>4 DEF RetxMessage, AnyDataPdu

\* A retransmitted PDU goes back to the other buffer.
LEMMA RetransmitAllKeepsSender ==
    ASSUME SenderInv, MacTypes, NEW kept \in BOOLEAN, RetransmitAll(kept)
    PROVE  SenderInv' /\ MacTypes'
<1> DEFINE sn == FirstRetx
           message == RetxMessage(sn, retx[sn].len - Offset(sn), TRUE)
<1>1. /\ ~ RetxEmpty
      /\ Poll(PollsOnRetx(sn), Pred(vtS))
      /\ data' = Transmit(data, message, kept)
      /\ txed' = [txed EXCEPT ![sn] = retx[sn]]
      /\ retx' = [retx EXCEPT ![sn] = NoPdu]
      /\ retxSeg' = [retxSeg EXCEPT ![sn] = NoSegment]
      /\ UNCHANGED <<sent, vtA, vtS, status>>
  BY DEF RetransmitAll
<1>2. SenderTypes /\ SenderWindow
  BY DEF SenderInv
<1>3. sn \in SN /\ retx[sn] # NoPdu
  BY <1>1, <1>2, FirstRetxWaits
<1> HIDE DEF sn
<1>4. message \in AnyDataPdu
  <2>1. retx[sn].len - Offset(sn) \in Int
    BY <1>2, <1>3 DEF SenderTypes, AnyPdu, Offset, NoSegment
  <2> QED BY <1>2, <1>3, <2>1, RetxMessageTypes
<1> HIDE DEF message
<1>5. MacTypes'
  BY <1>1, <1>4, TransmitTypes DEF MacTypes
<1>6. SenderTypes'
  <2>1. pollExpired' \in BOOLEAN
    BY <1>1, <1>2, PollTypes
  <2>2. /\ txed' \in [SN -> AnyPdu] /\ retx' \in [SN -> AnyPdu]
        /\ retxSeg' \in [SN -> Int]
    BY <1>1, <1>2, <1>3, NoPduType DEF SenderTypes, NoSegment
  <2> QED BY <1>1, <1>2, <2>1, <2>2 DEF SenderTypes
<1>7. TxWindow' = TxWindow /\ InFlight' = InFlight /\ sn \in TxWindow
  BY <1>1, <1>2, <1>3 DEF TxWindow, InFlight, SenderWindow
<1>8. SenderWindow'
  BY <1>1, <1>2, <1>3, <1>7 DEF SenderTypes, SenderWindow
<1> QED BY <1>5, <1>6, <1>8 DEF SenderInv

\* A segment leaves both buffers as they are.
LEMMA RetransmitSegmentKeepsSender ==
    ASSUME SenderInv, MacTypes, NEW len \in 1 .. MaxPdu, NEW kept \in BOOLEAN,
           RetransmitSegment(len, kept)
    PROVE  SenderInv' /\ MacTypes'
<1> DEFINE sn == FirstRetx
           message == RetxMessage(sn, len, FALSE)
<1>1. /\ ~ RetxEmpty
      /\ Poll(PollsOnRetx(sn), Pred(vtS))
      /\ data' = Transmit(data, message, kept)
      /\ retxSeg' = [retxSeg EXCEPT ![sn] = Offset(sn) + len]
      /\ UNCHANGED <<sent, vtA, vtS, txed, retx, status>>
  BY DEF RetransmitSegment
<1>2. SenderTypes /\ SenderWindow
  BY DEF SenderInv
<1>3. sn \in SN /\ len \in Int
  BY <1>1, <1>2, FirstRetxWaits
<1> HIDE DEF sn
<1>4. message \in AnyDataPdu
  BY <1>2, <1>3, RetxMessageTypes
<1> HIDE DEF message
<1>5. MacTypes'
  BY <1>1, <1>4, TransmitTypes DEF MacTypes
<1>6. SenderTypes'
  <2>1. pollExpired' \in BOOLEAN
    BY <1>1, <1>2, PollTypes
  <2>2. retxSeg' \in [SN -> Int]
    BY <1>1, <1>2, <1>3 DEF SenderTypes, Offset, NoSegment
  <2> QED BY <1>1, <1>2, <2>1, <2>2 DEF SenderTypes
<1>7. SenderWindow'
  BY <1>1, <1>2 DEF SenderWindow, TxWindow, InFlight
<1> QED BY <1>5, <1>6, <1>7 DEF SenderInv

\* So does an opportunity that is too small for anything.
LEMMA RetransmitNothingKeepsSender ==
    ASSUME SenderInv, MacTypes, RetransmitNothing
    PROVE  SenderInv' /\ MacTypes'
<1>1. /\ Poll(PollsOnRetx(FirstRetx), Pred(vtS))
      /\ UNCHANGED <<sent, vtA, vtS, txed, retx, retxSeg, data, status>>
  BY DEF RetransmitNothing
<1>2. SenderTypes /\ SenderWindow
  BY DEF SenderInv
<1>3. pollExpired' \in BOOLEAN
  BY <1>1, <1>2, PollTypes
<1>4. SenderTypes'
  BY <1>1, <1>2, <1>3 DEF SenderTypes
<1>5. SenderWindow'
  BY <1>1, <1>2 DEF SenderWindow, TxWindow, InFlight
<1> QED BY <1>1, <1>4, <1>5, MacUnchanged DEF SenderInv

\* The end of t-PollRetransmit moves PDUs from one buffer to the other.
LEMMA ExpirePollRetransmitTimerKeepsSender ==
    ASSUME SenderInv, MacTypes, ExpirePollRetransmitTimer
    PROVE  SenderInv' /\ MacTypes'
<1> DEFINE moved == [sn \in SN |-> IF sn \in TxWindow /\ txed[sn] # NoPdu
                                      THEN txed[sn] ELSE retx[sn]]
           rest == [sn \in SN |-> IF sn \in TxWindow THEN NoPdu ELSE txed[sn]]
<1>1. /\ pollExpired' = TRUE
      /\ \/ retx' = moved /\ txed' = rest
         \/ UNCHANGED <<retx, txed>>
      /\ UNCHANGED <<sent, vtA, vtS, retxSeg, data, status>>
  BY DEF ExpirePollRetransmitTimer
<1>2. SenderTypes /\ SenderWindow
  BY DEF SenderInv
<1>3. moved \in [SN -> AnyPdu] /\ rest \in [SN -> AnyPdu]
  BY <1>2, NoPduType DEF SenderTypes
<1>4. \A sn \in SN :
          /\ sn \notin TxWindow => moved[sn] = NoPdu /\ rest[sn] = NoPdu
          /\ rest[sn] = NoPdu \/ moved[sn] = NoPdu
  BY <1>2 DEF SenderWindow
<1> HIDE DEF moved, rest
<1>5. SenderTypes'
  BY <1>1, <1>2, <1>3 DEF SenderTypes
<1>6. TxWindow' = TxWindow /\ InFlight' = InFlight
  BY <1>1 DEF TxWindow, InFlight
<1>7. SenderWindow'
  BY <1>1, <1>2, <1>4, <1>6 DEF SenderWindow
<1> QED BY <1>1, <1>5, <1>7, MacUnchanged DEF SenderInv

\* VT(A) stays between its old value and VT(S).
LEMMA NewVtAInside ==
    ASSUME SenderTypes, NEW ack \in SN, NEW nacked,
           nacked \subseteq Reported(ack)
    PROVE  LET new == NewVtA(ack, nacked)
           IN  /\ new \in SN
               /\ Dist(vtA, new) <= Dist(vtA, vtS)
               /\ Dist(vtA, new) <= Dist(vtA, ack)
               /\ \A sn \in Interval(vtA, new) : sn \notin nacked
<1> DEFINE new == NewVtA(ack, nacked)
<1>1. /\ Dist(vtA, ack) \in Nat /\ Dist(vtA, vtS) \in Nat
      /\ vtA \in SN /\ vtS \in SN
  BY DistType DEF SenderTypes
<1>2. CASE nacked # {}
  <2>1. nacked \subseteq SN
    BY DEF Reported, Interval
  <2>2. new \in nacked /\ \A sn \in nacked : Dist(vtA, new) <= Dist(vtA, sn)
    BY <1>1, <1>2, <2>1, FirstFromIsFirst DEF NewVtA
  <2> HIDE DEF new
  <2>3. /\ new \in SN /\ Dist(vtA, new) < Dist(vtA, ack)
        /\ Dist(vtA, new) < Dist(vtA, vtS) /\ Dist(vtA, new) \in Nat
    BY <1>1, <2>1, <2>2, DistType DEF Reported, Interval, TxWindow
  <2>4. \A sn \in Interval(vtA, new) : sn \notin nacked
    <3>1. SUFFICES ASSUME NEW sn \in SN, Dist(vtA, sn) < Dist(vtA, new),
                          sn \in nacked
                   PROVE  FALSE
      BY DEF Interval
    <3>2. Dist(vtA, sn) \in Nat
      BY <1>1, DistType
    <3> QED BY <2>2, <2>3, <3>1, <3>2
  <2> QED BY <1>1, <2>3, <2>4 DEF new
<1>3. CASE nacked = {}
  BY <1>1, <1>3 DEF NewVtA, InFlight
<1> QED BY <1>2, <1>3

\* What a STATUS PDU acknowledges leaves both buffers and the window.
LEMMA ReceiveStatusPduKeepsSender ==
    ASSUME SenderInv, MacTypes, ReceiveStatusPdu
    PROVE  SenderInv' /\ MacTypes'
<1> DEFINE pdu == Head(status)
           reported == Reported(pdu.ack)
           nacked == reported \intersect pdu.nacks
           new == NewVtA(pdu.ack, nacked)
<1>1. /\ status # <<>> /\ status' = Tail(status)
      /\ vtA' = new
      /\ retx' = [sn \in SN |->
                     CASE sn \in nacked /\ txed[sn] # NoPdu -> txed[sn]
                       [] sn \in reported \ nacked -> NoPdu
                       [] OTHER -> retx[sn]]
      /\ txed' = [sn \in SN |-> IF sn \in reported THEN NoPdu ELSE txed[sn]]
      /\ retxSeg' = [sn \in SN |-> IF sn \in reported \ nacked
                                      THEN NoSegment ELSE retxSeg[sn]]
      /\ UNCHANGED <<sent, vtS, pollExpired, data>>
  BY DEF ReceiveStatusPdu
<1>2. SenderTypes /\ SenderWindow
  BY DEF SenderInv
<1>3. pdu.ack \in SN /\ MacTypes'
  <2>1. status \in Seq(StatusPdu) /\ data \in Seq(AnyDataPdu)
    BY DEF MacTypes
  <2>2. pdu \in StatusPdu /\ Tail(status) \in Seq(StatusPdu)
    BY <1>1, <2>1, HeadTailProperties
  <2> QED BY <1>1, <2>1, <2>2 DEF MacTypes, StatusPdu
<1> HIDE DEF pdu
<1>4. /\ reported \subseteq TxWindow
      /\ reported = {sn \in SN : Dist(vtA, sn) < Dist(vtA, pdu.ack)
                                   /\ Dist(vtA, sn) < Dist(vtA, vtS)}
  BY DEF Reported, TxWindow, Interval
<1>5. /\ new \in SN
      /\ Dist(vtA, new) <= Dist(vtA, vtS)
      /\ Dist(vtA, new) <= Dist(vtA, pdu.ack)
      /\ \A sn \in Interval(vtA, new) : sn \notin nacked
  <2>1. nacked \subseteq Reported(pdu.ack)
    OBVIOUS
  <2> HIDE DEF nacked
  <2> QED BY <1>2, <1>3, <2>1, NewVtAInside
<1>6. \A sn \in Interval(vtA, new) : sn \in reported \ nacked
  <2>1. ASSUME NEW sn \in Interval(vtA, new) PROVE sn \in reported
    <3>1. sn \in SN /\ Dist(vtA, sn) < Dist(vtA, new)
      BY DEF Interval
    <3>2. /\ Dist(vtA, sn) \in Nat /\ Dist(vtA, new) \in Nat
          /\ Dist(vtA, vtS) \in Nat /\ Dist(vtA, pdu.ack) \in Nat
      BY <1>2, <1>3, <1>5, <3>1, DistType DEF SenderTypes
    <3>3. Dist(vtA, sn) < Dist(vtA, pdu.ack) /\ Dist(vtA, sn) < Dist(vtA, vtS)
      BY <1>5, <3>1, <3>2
    <3> QED BY <1>4, <3>1, <3>3
  <2> QED BY <1>5, <2>1
<1> HIDE DEF new, nacked, reported
<1>7. SenderTypes'
  BY <1>1, <1>2, <1>5, NoPduType DEF SenderTypes, NoSegment
<1>8. /\ Dist(new, vtS) <= Window
      /\ TxWindow = Interval(vtA, new) \cup Interval(new, vtS)
  <2>1. Dist(new, vtS) = Dist(vtA, vtS) - Dist(vtA, new)
    BY <1>2, <1>5, DistAdds DEF SenderTypes
  <2>2. /\ Dist(vtA, new) \in Nat /\ Dist(vtA, vtS) \in Nat
        /\ Dist(vtA, vtS) <= Window
    BY <1>2, <1>5, DistType DEF SenderTypes, SenderWindow, InFlight
  <2>3. TxWindow = Interval(vtA, new) \cup Interval(new, vtS)
    BY <1>2, <1>5, IntervalSplits DEF SenderTypes, TxWindow
  <2> QED BY <2>1, <2>2, <2>3, WindowFits
<1>9. InFlight' = Dist(new, vtS) /\ TxWindow' = Interval(new, vtS)
  BY <1>1 DEF InFlight, TxWindow
<1>10. ASSUME NEW sn \in SN, sn \notin Interval(new, vtS)
       PROVE  txed'[sn] = NoPdu /\ retx'[sn] = NoPdu
  <2>1. CASE sn \in Interval(vtA, new)
    BY <1>1, <1>6, <2>1
  <2>2. CASE sn \notin TxWindow
    BY <1>1, <1>2, <1>4, <2>2 DEF SenderWindow, nacked
  <2> QED BY <1>8, <1>10, <2>1, <2>2
<1>11. ASSUME NEW sn \in SN
       PROVE  txed'[sn] = NoPdu \/ retx'[sn] = NoPdu
  <2>1. CASE sn \in reported
    BY <1>1, <2>1
  <2>2. CASE sn \notin reported
    BY <1>1, <1>2, <2>2 DEF SenderWindow, nacked
  <2> QED BY <2>1, <2>2
<1>12. SenderWindow'
  BY <1>8, <1>9, <1>10, <1>11 DEF SenderWindow
<1> QED BY <1>3, <1>7, <1>12 DEF SenderInv

-----------------------------------------------------------------------------
(* The invariant.                                                          *)

RlcInv == SenderInv /\ MacTypes /\ ReceiverInv

\* The rest of a channel after one of its PDUs has left is made of PDUs.
LEMMA RemoveAtTypes ==
    ASSUME NEW S, NEW s \in Seq(S), NEW i \in 1 .. Len(s)
    PROVE  RemoveAt(s, i) \in Seq(S)
<1>1. SubSeq(s, 1, i - 1) \in Seq(S) /\ SubSeq(s, i + 1, Len(s)) \in Seq(S)
  OBVIOUS
<1> QED BY <1>1 DEF RemoveAt

\* A data PDU leaves the MAC and is placed, or ignored outside the window.
LEMMA ReceiveDataPduKeepsInv ==
    ASSUME RlcInv, NEW i \in 1 .. ChannelBound, ReceiveDataPdu(i)
    PROVE  RlcInv'
<1> DEFINE m == data[i]
           aged == [j \in 1 .. Len(data) |->
                      IF j < i THEN [data[j] EXCEPT !.overtaken = @ + 1]
                               ELSE data[j]]
<1>1. /\ Arrives(i)
      /\ data' = RemoveAt(aged, i)
      /\ IF InsideReceivingWindow(m.sn)
             THEN PlaceAndDeliver(m)
             ELSE UNCHANGED <<vrR, vrMs, vrH, rxon, reorderingTimer, delivered>>
      /\ UNCHANGED <<txVars, status>>
  BY DEF ReceiveDataPdu
<1>2. SenderInv /\ MacTypes /\ ReceiverInv
  BY DEF RlcInv
<1>3. data \in Seq(AnyDataPdu) /\ i \in 1 .. Len(data) /\ Len(data) \in Nat
  BY <1>1, <1>2 DEF Arrives, MacTypes
<1>4. m.sn \in SN
  <2>1. m \in AnyDataPdu
    BY <1>3, ElementOfSeq
  <2> QED BY <2>1 DEF AnyDataPdu
<1>5. aged \in Seq(AnyDataPdu) /\ Len(aged) = Len(data)
  <2>1. ASSUME NEW j \in 1 .. Len(data)
        PROVE  /\ data[j] \in AnyDataPdu
               /\ [data[j] EXCEPT !.overtaken = @ + 1] \in AnyDataPdu
    <3>1. data[j] \in AnyDataPdu
      BY <1>3, ElementOfSeq
    <3> QED BY <3>1 DEF AnyDataPdu
  <2>2. \A j \in 1 .. Len(data) : aged[j] \in AnyDataPdu
    BY <2>1
  <2>3. aged \in [1 .. Len(data) -> AnyDataPdu]
    BY <2>2
  <2> QED BY <1>3, <2>3
<1> HIDE DEF aged
<1>6. MacTypes'
  BY <1>1, <1>2, <1>3, <1>5, RemoveAtTypes DEF MacTypes
<1>7. SenderInv'
  BY <1>1, <1>2, SenderUnchanged DEF txVars
<1>8. ReceiverInv'
  <2>1. CASE InsideReceivingWindow(m.sn)
    <3> HIDE DEF m
    <3> QED BY <1>1, <1>2, <1>4, <2>1, PlaceAndDeliverKeepsReceiver
  <2>2. CASE ~ InsideReceivingWindow(m.sn)
    BY <1>1, <1>2, <2>2, ReceiverUnchanged
  <2> QED BY <2>1, <2>2
<1> QED BY <1>6, <1>7, <1>8 DEF RlcInv

\* What a STATUS PDU says is about sequence numbers.
LEMMA SendStatusPduKeepsInv ==
    ASSUME RlcInv, NEW fit \in 1 .. Window, NEW kept \in BOOLEAN,
           SendStatusPdu(fit, kept)
    PROVE  RlcInv'
<1> DEFINE nacks == Fitting(fit)
           message == [ack |-> AckSn(nacks), nacks |-> nacks]
<1>1. /\ status' = Transmit(status, message, kept)
      /\ UNCHANGED <<vrR, vrMs, vrH, rxon, reorderingTimer>>
      /\ UNCHANGED <<txVars, data>>
  BY DEF SendStatusPdu
<1>2. SenderInv /\ MacTypes /\ ReceiverInv
  BY DEF RlcInv
<1>3. Missing \subseteq SN /\ nacks \subseteq SN
  BY DEF Missing, Fitting, Incomplete
<1> HIDE DEF nacks
<1>4. AckSn(nacks) \in SN
  <2>1. vrR \in SN /\ vrMs \in SN
    BY <1>2 DEF ReceiverInv, ReceiverTypes
  <2>2. ASSUME Missing \ nacks # {}
        PROVE  FirstFrom(vrR, Missing \ nacks) \in SN
    <3> DEFINE S == Missing \ nacks
    <3>1. S \subseteq SN /\ S # {}
      BY <1>3, <2>2
    <3> HIDE DEF S
    <3>2. FirstFrom(vrR, S) \in S
      BY <2>1, <3>1, FirstFromIsFirst
    <3> QED BY <3>1, <3>2 DEF S
  <2> QED BY <2>1, <2>2 DEF AckSn
<1>5. message \in StatusPdu
  BY <1>3, <1>4 DEF StatusPdu
<1> HIDE DEF message
<1>6. MacTypes'
  BY <1>1, <1>2, <1>5, TransmitTypes DEF MacTypes
<1> QED BY <1>1, <1>2, <1>6, SenderUnchanged, ReceiverUnchanged
        DEF RlcInv, txVars

LEMMA InitRlcInv == Init => RlcInv
<1> SUFFICES ASSUME Init PROVE RlcInv
  OBVIOUS
<1>1. 0 \in SN /\ Dist(0, 0) = 0
  BY DEF SN, Dist
<1>2. SenderTypes
  BY <1>1, NoPduType DEF Init, SenderTypes, NoSegment
<1>3. SenderWindow
  BY <1>1, WindowFits DEF Init, SenderWindow, InFlight
<1>4. MacTypes
  BY DEF Init, MacTypes
<1>5. ReceiverTypes /\ ReceiverOrder
  BY <1>1, WindowFits DEF Init, ReceiverTypes, ReceiverOrder
<1> QED BY <1>2, <1>3, <1>4, <1>5 DEF RlcInv, SenderInv, ReceiverInv

LEMMA NextRlcInv == RlcInv /\ [Next]_vars => RlcInv'
<1> SUFFICES ASSUME RlcInv, [Next]_vars PROVE RlcInv'
  OBVIOUS
<1> USE DEF RlcInv
<1>1. CASE TransmitPdcpPdu
  BY <1>1, SenderUnchanged, MacUnchanged, ReceiverUnchanged
     DEF TransmitPdcpPdu, rxVars
<1>2. ASSUME NEW n \in 1 .. MaxPdu, NEW kept \in BOOLEAN, SendNewPdu(n, kept)
      PROVE  RlcInv'
  <2>1. UNCHANGED rxVars
    BY <1>2 DEF SendNewPdu
  <2> QED BY <1>2, <2>1, SendNewPduKeepsSender, ReceiverUnchanged DEF rxVars
<1>3. ASSUME NEW kept \in BOOLEAN, RetransmitAll(kept)
      PROVE  RlcInv'
  <2>1. UNCHANGED rxVars
    BY <1>3 DEF RetransmitAll
  <2> QED BY <1>3, <2>1, RetransmitAllKeepsSender, ReceiverUnchanged DEF rxVars
<1>4. ASSUME NEW len \in 1 .. MaxPdu, NEW kept \in BOOLEAN,
             RetransmitSegment(len, kept)
      PROVE  RlcInv'
  <2>1. UNCHANGED rxVars
    BY <1>4 DEF RetransmitSegment
  <2> QED BY <1>4, <2>1, RetransmitSegmentKeepsSender, ReceiverUnchanged
          DEF rxVars
<1>5. CASE RetransmitNothing
  <2>1. UNCHANGED rxVars
    BY <1>5 DEF RetransmitNothing
  <2> QED BY <1>5, <2>1, RetransmitNothingKeepsSender, ReceiverUnchanged
          DEF rxVars
<1>6. CASE ExpirePollRetransmitTimer
  <2>1. UNCHANGED rxVars
    BY <1>6 DEF ExpirePollRetransmitTimer
  <2> QED BY <1>6, <2>1, ExpirePollRetransmitTimerKeepsSender,
             ReceiverUnchanged DEF rxVars
<1>7. CASE ReceiveStatusPdu
  <2>1. UNCHANGED rxVars
    BY <1>7 DEF ReceiveStatusPdu
  <2> QED BY <1>7, <2>1, ReceiveStatusPduKeepsSender, ReceiverUnchanged
          DEF rxVars
<1>8. ASSUME NEW i \in 1 .. ChannelBound, ReceiveDataPdu(i)
      PROVE  RlcInv'
  BY <1>8, ReceiveDataPduKeepsInv
<1>9. CASE ExpireReorderingTimer
  <2>1. UNCHANGED <<txVars, data, status>>
    BY <1>9 DEF ExpireReorderingTimer
  <2> QED BY <1>9, <2>1, ExpireReorderingTimerKeepsReceiver, SenderUnchanged,
             MacUnchanged DEF txVars
<1>10. ASSUME NEW fit \in 1 .. Window, NEW kept \in BOOLEAN,
              SendStatusPdu(fit, kept)
       PROVE  RlcInv'
  BY <1>10, SendStatusPduKeepsInv
<1>11. CASE ExpireStatusProhibitTimer
  BY <1>11, SenderUnchanged, MacUnchanged, ReceiverUnchanged
     DEF ExpireStatusProhibitTimer, txVars
<1>12. CASE UNCHANGED vars
  BY <1>12, SenderUnchanged, MacUnchanged, ReceiverUnchanged
     DEF vars, txVars, rxVars
<1> QED BY <1>1, <1>2, <1>3, <1>4, <1>5, <1>6, <1>7, <1>8, <1>9, <1>10,
           <1>11, <1>12 DEF Next

THEOREM RlcInvariant == Spec => []RlcInv
  BY InitRlcInv, NextRlcInv, PTL DEF Spec

\* VT(S) never runs into a number that the transmitting side still uses,
\* whatever PDUs and STATUS PDUs are lost, swapped or late.
THEOREM SenderWindowHolds == Spec => []SenderWindow
<1>1. RlcInv => SenderWindow
  BY DEF RlcInv, SenderInv
<1> QED BY <1>1, RlcInvariant, PTL

\* The numbers of the receiving side keep their order, across the wrap of the
\* sequence numbers and every interleaving with t-Reordering.
THEOREM ReceiverOrderHolds == Spec => []ReceiverOrder
<1>1. RlcInv => ReceiverOrder
  BY DEF RlcInv, ReceiverInv
<1> QED BY <1>1, RlcInvariant, PTL
=============================================================================
