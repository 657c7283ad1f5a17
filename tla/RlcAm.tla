-------------------------------- MODULE RlcAm -------------------------------
(***************************************************************************)
(* One direction of an acknowledged-mode RLC bearer (lte-rlc-am.cc): the   *)
(* transmitting side of one LteRlcAm entity, the receiving side of its     *)
(* peer, and the MAC between them, which may lose any PDU and lets a data  *)
(* PDU be overtaken by at most Overtakes later ones (HARQ).  STATUS PDUs,  *)
(* which t-StatusProhibit keeps apart, stay in order.                      *)
(*                                                                         *)
(* The SDUs from PDCP are one stream of bytes, numbered from 1; SduSize    *)
(* bytes make an SDU.  A PDU carries the bytes from .. from + len - 1: its *)
(* framing information and length indicators follow from that.  A PDU     *)
(* with more than one piece of SDU (Concatenated) has a longer header.     *)
(*                                                                         *)
(* A timer may expire whenever it runs.                                    *)
(*                                                                         *)
(* Each operator named ...Mutant is a plausible mistake in the definition  *)
(* that follows it; none is used by the specification.                     *)
(***************************************************************************)
EXTENDS SequenceNumbers, Sequences, FiniteSets, SequencesExt

CONSTANTS
    Window,         \* m_windowSize (512)
    SduSize,        \* bytes of an SDU
    Sdus,           \* bound on the SDUs of a run
    MaxTxBuffer,    \* m_maxTxBufferSize, in SDUs
    MaxPdu,         \* bytes that the largest transmission opportunity takes
    ChannelBound,   \* bound on the PDUs in flight in each direction
    Overtakes       \* how many later PDUs may overtake a data PDU

ASSUME RlcAssumption ==
    /\ {Window, SduSize, Sdus, MaxTxBuffer, MaxPdu, ChannelBound}
           \subseteq Nat \ {0}
    /\ Overtakes \in Nat
    /\ 2 * Window + Overtakes <= Modulus

VARIABLES
    \* the transmitting side
    bigEnough,      \* m_txOpportunityForRetxAlwaysBigEnough
    submitted,      \* bytes accepted from PDCP
    sent,           \* bytes of them that have left m_txonBuffer
    vtA, vtS,       \* m_vtA, m_vtS; m_vtMs is vtA + Window
    txed, retx,     \* m_txedBuffer, m_retxBuffer
    retxSeg,        \* m_retxSegBuffer: offset of the segment still to be sent
    pollTimer,      \* m_pollSn while t-PollRetransmit runs
    pollExpired,    \* m_pollRetransmitTimerJustExpired
    \* the MAC
    data, status,   \* PDUs in flight to and from the receiving side
    \* the receiving side
    vrR, vrMs, vrH, \* m_vrR, m_vrMs, m_vrH; m_vrMr is vrR + Window
    rxon,           \* m_rxonBuffer
    reorderingTimer, \* m_vrX while t-Reordering runs
    statusRequested, prohibitTimer,
    granted,        \* the MAC has been told of a STATUS PDU to send
    delivered       \* bytes passed to ReassembleAndDeliver

txVars == <<bigEnough, submitted, sent, vtA, vtS, txed, retx, retxSeg,
            pollTimer, pollExpired>>
rxVars == <<vrR, vrMs, vrH, rxon, reorderingTimer, statusRequested,
            prohibitTimer, granted, delivered>>
vars == <<txVars, data, status, rxVars>>

Byte == 1 .. Sdus * SduSize
NoPdu == [from |-> 0, len |-> 0]
Pdu == [from : Byte, len : 1 .. MaxPdu]
NoSegment == -1

\* A timer that does not run.  m_pollSn and m_vrX are read only while theirs
\* runs, so that one variable holds both.
Off == -1

Concatenated(pdu) ==
    \E b \in pdu.from .. pdu.from + pdu.len - 2 : b % SduSize = 0

\* What the MAC carries: the len bytes of pdu from offset on, a segment or
\* the whole PDU.
DataPdu == [sn : SN, poll : BOOLEAN, pdu : Pdu, segment : BOOLEAN,
            offset : 0 .. MaxPdu, len : 0 .. MaxPdu, last : BOOLEAN,
            overtaken : 0 .. Overtakes]
StatusPdu == [ack : SN, nacks : SUBSET SN]

\* An entry of m_rxonBuffer: the bytes it holds from the start of its PDU on.
NoEntry == [bytes |-> <<>>, complete |-> FALSE]
Entry == [bytes : Seq(Byte), complete : BOOLEAN]

TypeOK ==
    /\ bigEnough \in BOOLEAN
    /\ submitted \in 0 .. Sdus * SduSize
    /\ sent \in 0 .. submitted
    /\ vtA \in SN /\ vtS \in SN
    /\ txed \in [SN -> Pdu \union {NoPdu}]
    /\ retx \in [SN -> Pdu \union {NoPdu}]
    /\ retxSeg \in [SN -> {NoSegment} \union 0 .. MaxPdu]
    /\ pollTimer \in SN \union {Off} /\ pollExpired \in BOOLEAN
    /\ data \in Seq(DataPdu)
    /\ status \in Seq(StatusPdu)
    /\ vrR \in SN /\ vrMs \in SN /\ vrH \in SN
    /\ rxon \in [SN -> Entry]
    /\ reorderingTimer \in SN \union {Off}
    /\ statusRequested \in BOOLEAN /\ prohibitTimer \in BOOLEAN
    /\ granted \in BOOLEAN
    /\ delivered \in Seq(Byte)

Init ==
    /\ bigEnough \in BOOLEAN
    /\ submitted = 0 /\ sent = 0
    /\ vtA = 0 /\ vtS = 0
    /\ txed = [sn \in SN |-> NoPdu]
    /\ retx = [sn \in SN |-> NoPdu]
    /\ retxSeg = [sn \in SN |-> NoSegment]
    /\ pollTimer = Off /\ pollExpired = FALSE
    /\ data = <<>> /\ status = <<>>
    /\ vrR = 0 /\ vrMs = 0 /\ vrH = 0
    /\ rxon = [sn \in SN |-> NoEntry]
    /\ reorderingTimer = Off
    /\ statusRequested = FALSE /\ prohibitTimer = FALSE
    /\ granted = FALSE
    /\ delivered = <<>>

-----------------------------------------------------------------------------
(* The transmitting side.                                                  *)

InFlight == Dist(vtA, vtS)
TxonEmpty == sent = submitted
RetxEmpty == \A sn \in SN : retx[sn] = NoPdu
Stalled == InFlight >= Window
TxWindow == Interval(vtA, vtS)

\* DoTransmitPdcpPdu; an SDU that does not fit is discarded.
TransmitPdcpPdu ==
    /\ submitted + SduSize <= Sdus * SduSize
    /\ submitted - sent + SduSize <= MaxTxBuffer * SduSize
    /\ submitted' = submitted + SduSize
    /\ UNCHANGED <<bigEnough, sent, vtA, vtS, txed, retx, retxSeg,
                   pollTimer, pollExpired>>
    /\ UNCHANGED <<data, status, rxVars>>

\* Hand a PDU to the MAC, which delivers it later or loses it.
Transmit(channel, pdu, kept) ==
    IF kept THEN Append(channel, pdu) ELSE channel

\* The polling bit restarts t-PollRetransmit for the last number used.
Poll(requested, last) ==
    IF requested
        THEN /\ pollExpired' = FALSE
             /\ pollTimer' = last
        ELSE UNCHANGED <<pollExpired, pollTimer>>

\* A new PDU takes n bytes from m_txonBuffer; m_pollPdu = 1 makes every new
\* PDU poll.
SendNewPdu(n, kept) ==
    LET pdu == [from |-> sent + 1, len |-> n]
    IN  /\ RetxEmpty
        /\ ~ Stalled
        /\ n <= submitted - sent
        /\ kept => Len(data) < ChannelBound
        /\ sent' = sent + n
        /\ vtS' = Succ(vtS)
        /\ txed' = [txed EXCEPT ![vtS] = pdu]
        /\ Poll(TRUE, vtS)
        /\ data' = Transmit(data, [sn |-> vtS, poll |-> TRUE, pdu |-> pdu,
                                   segment |-> FALSE, offset |-> 0, len |-> n,
                                   last |-> TRUE, overtaken |-> 0], kept)
        /\ UNCHANGED <<bigEnough, submitted, vtA, retx, retxSeg,
                       status, rxVars>>

FirstRetx == FirstFrom(vtA, {sn \in SN : retx[sn] # NoPdu})

\* The bytes of a PDU of m_retxBuffer that are still to be sent.
Offset(sn) == IF retxSeg[sn] = NoSegment THEN 0 ELSE retxSeg[sn]

\* The polling conditions of a retransmission.
PollsOnRetx(sn) ==
    \/ /\ TxonEmpty
       /\ \A other \in SN \ {sn} : retx[other] = NoPdu
       /\ Offset(sn) = 0
    \/ Stalled
    \/ pollExpired

RetxMessage(sn, len, last) ==
    [sn |-> sn, poll |-> PollsOnRetx(sn), pdu |-> retx[sn],
     segment |-> ~ last \/ retxSeg[sn] # NoSegment,
     offset |-> Offset(sn), len |-> len, last |-> last, overtaken |-> 0]

\* The opportunity is big enough for the first PDU (or the rest of it) that
\* waits to be retransmitted.
RetransmitAll(kept) ==
    LET sn == FirstRetx
    IN  /\ ~ RetxEmpty
        /\ kept => Len(data) < ChannelBound
        /\ Poll(PollsOnRetx(sn), Pred(vtS))
        /\ data' = Transmit(data, RetxMessage(sn, retx[sn].len - Offset(sn), TRUE),
                            kept)
        /\ txed' = [txed EXCEPT ![sn] = retx[sn]]
        /\ retx' = [retx EXCEPT ![sn] = NoPdu]
        /\ retxSeg' = [retxSeg EXCEPT ![sn] = NoSegment]
        /\ UNCHANGED <<bigEnough, submitted, sent, vtA, vtS,
                       status, rxVars>>

\* The opportunity takes only len bytes of it: they go as a segment, and the
\* rest waits in m_retxSegBuffer.
RetransmitSegment(len, kept) ==
    LET sn == FirstRetx
    IN  /\ ~ bigEnough
        /\ ~ RetxEmpty
        /\ Offset(sn) + len < retx[sn].len
        /\ kept => Len(data) < ChannelBound
        /\ Poll(PollsOnRetx(sn), Pred(vtS))
        /\ data' = Transmit(data, RetxMessage(sn, len, FALSE), kept)
        /\ retxSeg' = [retxSeg EXCEPT ![sn] = Offset(sn) + len]
        /\ UNCHANGED <<bigEnough, submitted, sent, vtA, vtS, txed, retx,
                       status, rxVars>>

\* The opportunity is too small even for the header, whose length indicators
\* a segment repeats: the polling bit is used up and nothing is sent.
RetransmitNothing ==
    /\ ~ bigEnough
    /\ ~ RetxEmpty
    /\ Concatenated(retx[FirstRetx])
    /\ Poll(PollsOnRetx(FirstRetx), Pred(vtS))
    /\ UNCHANGED <<bigEnough, submitted, sent, vtA, vtS, txed, retx, retxSeg,
                   data, status, rxVars>>

ExpirePollRetransmitTimerMutant ==
    /\ pollTimer # Off
    /\ pollTimer' = Off
    /\ pollExpired' = TRUE
    /\ IF TxonEmpty /\ RetxEmpty
           THEN /\ retx' = [sn \in SN |-> IF sn \in TxWindow /\ txed[sn] # NoPdu
                                              THEN txed[sn] ELSE retx[sn]]
                /\ txed' = [sn \in SN |-> IF sn \in TxWindow
                                              THEN NoPdu ELSE txed[sn]]
           ELSE UNCHANGED <<retx, txed>>
    /\ UNCHANGED <<bigEnough, submitted, sent, vtA, vtS, retxSeg,
                   data, status, rxVars>>

ExpirePollRetransmitTimer ==
    /\ pollTimer # Off
    /\ pollTimer' = Off
    /\ pollExpired' = TRUE
    /\ IF (TxonEmpty /\ RetxEmpty) \/ InFlight = Window
           THEN /\ retx' = [sn \in SN |-> IF sn \in TxWindow /\ txed[sn] # NoPdu
                                              THEN txed[sn] ELSE retx[sn]]
                /\ txed' = [sn \in SN |-> IF sn \in TxWindow
                                              THEN NoPdu ELSE txed[sn]]
           ELSE UNCHANGED <<retx, txed>>
    /\ UNCHANGED <<bigEnough, submitted, sent, vtA, vtS, retxSeg,
                   data, status, rxVars>>

\* The numbers that a STATUS PDU reports on: from VT(A) up to ACK_SN or VT(S).
Reported(ack) == Interval(vtA, ack) \intersect TxWindow

NewVtAMutant(ack, nacked) == IF Dist(vtA, ack) < InFlight THEN ack ELSE vtS

\* VT(A) moves to the first number that is not acknowledged.
NewVtA(ack, nacked) ==
    IF nacked # {}
        THEN FirstFrom(vtA, nacked)
        ELSE IF Dist(vtA, ack) < InFlight THEN ack ELSE vtS

StopPollTimerMutant(reported) == pollTimer' = Off

\* A STATUS PDU that reports on POLL_SN stops t-PollRetransmit.
StopPollTimer(reported) ==
    pollTimer' = IF pollTimer \in reported THEN Off ELSE pollTimer

ReceiveStatusPdu ==
    LET pdu == Head(status)
        reported == Reported(pdu.ack)
        nacked == reported \intersect pdu.nacks
    IN  /\ status # <<>>
        /\ status' = Tail(status)
        /\ StopPollTimer(reported)
        /\ vtA' = NewVtA(pdu.ack, nacked)
        /\ retx' = [sn \in SN |->
                        CASE sn \in nacked /\ txed[sn] # NoPdu -> txed[sn]
                          [] sn \in reported \ nacked -> NoPdu
                          [] OTHER -> retx[sn]]
        /\ txed' = [sn \in SN |-> IF sn \in reported THEN NoPdu ELSE txed[sn]]
        /\ retxSeg' = [sn \in SN |-> IF sn \in reported \ nacked
                                         THEN NoSegment ELSE retxSeg[sn]]
        /\ UNCHANGED <<bigEnough, submitted, sent, vtS, pollExpired, data,
                       rxVars>>

-----------------------------------------------------------------------------
(* The receiving side.                                                     *)

InsideReceivingWindow(sn) == Dist(vrR, sn) < Window

Incomplete(buffer) == {sn \in SN : ~ buffer[sn].complete}

BytesOf(m) == [i \in 1 .. m.len |-> m.pdu.from + m.offset + i - 1]

\* A number without an entry takes a PDU, or the first segment of one.
NewEntry(m) ==
    IF m.offset # 0 THEN NoEntry
    ELSE [bytes |-> BytesOf(m), complete |-> ~ m.segment]

\* The segment that comes next in sequence; the last one completes the PDU.
Joined(entry, m) ==
    [bytes |-> entry.bytes \o BytesOf(m), complete |-> entry.complete \/ m.last]

PlacedWithoutOffsetMutant(m) ==
    LET entry == rxon[m.sn]
    IN  CASE entry = NoEntry -> NewEntry(m)
          [] entry # NoEntry /\ (~ m.segment \/ entry.complete) -> entry
          [] OTHER -> Joined(entry, m)

PlacedEraseMutant(m) ==
    LET entry == rxon[m.sn]
    IN  CASE entry = NoEntry -> NewEntry(m)
          [] entry # NoEntry /\ ~ m.segment -> entry
          [] OTHER -> IF m.offset = Len(entry.bytes) THEN Joined(entry, m) ELSE NoEntry

\* The entry of m.sn once m has been received: a whole PDU is a duplicate,
\* and a segment out of sequence removes an incomplete entry.
Placed(m) ==
    LET entry == rxon[m.sn]
    IN  CASE entry = NoEntry -> NewEntry(m)
          [] entry # NoEntry /\ ~ m.segment -> entry
          [] entry # NoEntry /\ m.segment /\ m.offset = Len(entry.bytes) ->
                 Joined(entry, m)
          [] OTHER -> IF entry.complete THEN entry ELSE NoEntry

\* The bytes of the PDUs from low up to high, in order.
BytesBetween(buffer, low, high) ==
    FlattenSeq([i \in 1 .. Dist(low, high) |-> buffer[Plus(low, i - 1)].bytes])

\* t-Reordering runs and still has something to wait for.
ReorderingGoesOn(low) ==
    /\ reorderingTimer \notin {Off, low}
    /\ \/ Dist(low, reorderingTimer) < Window
       \/ reorderingTimer = Plus(low, Window)

PlaceAndDeliverMutant(m) ==
    LET buffer == [rxon EXCEPT ![m.sn] = Placed(m)]
        high == Succ(m.sn)
        low == IF m.sn = vrR THEN FirstFrom(vrR, Incomplete(buffer)) ELSE vrR
    IN  /\ vrH' = high
        /\ vrMs' = FirstFrom(vrMs, Incomplete(buffer))
        /\ vrR' = low
        /\ delivered' = delivered \o BytesBetween(buffer, vrR, low)
        /\ rxon' = [sn \in SN |-> IF sn \in Interval(vrR, low)
                                      THEN NoEntry ELSE buffer[sn]]
        /\ reorderingTimer' = IF ReorderingGoesOn(low) THEN reorderingTimer
                              ELSE IF high # low THEN high ELSE Off

\* DoReceivePdu after the window check: place the PDU, move VR(H) and VR(MS),
\* deliver what has become in sequence, stop and start t-Reordering.
PlaceAndDeliver(m) ==
    LET buffer == [rxon EXCEPT ![m.sn] = Placed(m)]
        high == IF Dist(vrR, m.sn) >= Dist(vrR, vrH) THEN Succ(m.sn) ELSE vrH
        low == IF m.sn = vrR THEN FirstFrom(vrR, Incomplete(buffer)) ELSE vrR
    IN  /\ vrH' = high
        /\ vrMs' = FirstFrom(vrMs, Incomplete(buffer))
        /\ vrR' = low
        /\ delivered' = delivered \o BytesBetween(buffer, vrR, low)
        /\ rxon' = [sn \in SN |-> IF sn \in Interval(vrR, low)
                                      THEN NoEntry ELSE buffer[sn]]
        /\ reorderingTimer' = IF ReorderingGoesOn(low) THEN reorderingTimer
                              ELSE IF high # low THEN high ELSE Off

\* The i-th data PDU in flight arrives: the oldest, or the one after it.
Arrives(i) ==
    /\ i <= Len(data)
    /\ \A j \in 1 .. i - 1 : data[j].overtaken < Overtakes

ReceiveDataPduMutant(i) ==
    LET m == data[i]
    IN  /\ Arrives(i)
        /\ data' = RemoveAt([j \in 1 .. Len(data) |->
                               IF j < i THEN [data[j] EXCEPT !.overtaken = @ + 1]
                                        ELSE data[j]], i)
        /\ IF InsideReceivingWindow(m.sn)
               THEN /\ PlaceAndDeliver(m)
                    /\ statusRequested' = (statusRequested \/ m.poll)
                    /\ granted' = (granted \/ (m.poll /\ ~ prohibitTimer))
               ELSE UNCHANGED <<vrR, vrMs, vrH, rxon, reorderingTimer,
                                delivered, statusRequested, granted>>
        /\ UNCHANGED <<txVars, status, prohibitTimer>>

ReceiveDataPdu(i) ==
    LET m == data[i]
    IN  /\ Arrives(i)
        /\ data' = RemoveAt([j \in 1 .. Len(data) |->
                               IF j < i THEN [data[j] EXCEPT !.overtaken = @ + 1]
                                        ELSE data[j]], i)
        /\ statusRequested' = (statusRequested \/ m.poll)
        /\ granted' = (granted \/ (m.poll /\ ~ prohibitTimer))
        /\ IF InsideReceivingWindow(m.sn)
               THEN PlaceAndDeliver(m)
               ELSE UNCHANGED <<vrR, vrMs, vrH, rxon, reorderingTimer,
                                delivered>>
        /\ UNCHANGED <<txVars, status, prohibitTimer>>

\* VR(MS) moves past the gap; the STATUS PDU that will report it is requested,
\* but the MAC is not told.
ExpireReorderingTimer ==
    LET first == FirstFrom(reorderingTimer, Incomplete(rxon))
    IN  /\ reorderingTimer # Off
        /\ vrMs' = first
        /\ reorderingTimer' = IF Dist(vrR, vrH) > Dist(vrR, first)
                                  THEN vrH ELSE Off
        /\ statusRequested' = TRUE
        /\ UNCHANGED <<vrR, vrH, rxon, prohibitTimer, granted, delivered>>
        /\ UNCHANGED <<txVars, data, status>>

\* The numbers missing between VR(R) and VR(MS), and the first fit of them.
Missing == Interval(vrR, vrMs) \intersect Incomplete(rxon)
Fitting(fit) ==
    {sn \in Missing : Cardinality({other \in Missing :
                                       Dist(vrR, other) < Dist(vrR, sn)}) < fit}

AckSnMutant(nacks) == vrMs

\* ACK_SN is the first number that is missing and not reported.
AckSn(nacks) ==
    IF Missing \ nacks = {} THEN vrMs ELSE FirstFrom(vrR, Missing \ nacks)

\* A transmission opportunity with room for fit NACKs.  The receiving side has
\* no data of its own, and the MAC gives it one only when it has been told.
SendStatusPdu(fit, kept) ==
    /\ granted
    /\ statusRequested
    /\ ~ prohibitTimer
    /\ kept => Len(status) < ChannelBound
    /\ status' = Transmit(status, [ack |-> AckSn(Fitting(fit)),
                                   nacks |-> Fitting(fit)], kept)
    /\ statusRequested' = FALSE
    /\ prohibitTimer' = TRUE
    /\ granted' = FALSE
    /\ UNCHANGED <<vrR, vrMs, vrH, rxon, reorderingTimer, delivered>>
    /\ UNCHANGED <<txVars, data>>

ExpireStatusProhibitTimer ==
    /\ prohibitTimer
    /\ prohibitTimer' = FALSE
    /\ UNCHANGED <<vrR, vrMs, vrH, rxon, reorderingTimer, statusRequested,
                   granted, delivered>>
    /\ UNCHANGED <<txVars, data, status>>

-----------------------------------------------------------------------------
Next ==
    \/ TransmitPdcpPdu
    \/ \E n \in 1 .. MaxPdu, kept \in BOOLEAN : SendNewPdu(n, kept)
    \/ \E kept \in BOOLEAN : RetransmitAll(kept)
    \/ \E len \in 1 .. MaxPdu, kept \in BOOLEAN : RetransmitSegment(len, kept)
    \/ RetransmitNothing
    \/ ExpirePollRetransmitTimer
    \/ ReceiveStatusPdu
    \/ \E i \in 1 .. ChannelBound : ReceiveDataPdu(i)
    \/ ExpireReorderingTimer
    \/ \E fit \in 1 .. Window, kept \in BOOLEAN : SendStatusPdu(fit, kept)
    \/ ExpireStatusProhibitTimer

Spec == Init /\ [][Next]_vars

\* The oldest PDU in flight arrives (ReceiveDataPdu(1), ReceiveStatusPdu).
DataArrives == data # <<>> /\ data' = Tail(data)
StatusArrives == status # <<>> /\ status' = Tail(status)

\* m_rbsTimer tells the MAC again and again of the buffers of the transmitting
\* side, so that opportunities for it keep coming; one for the receiving side
\* follows a poll that has told the MAC of a STATUS PDU.  HARQ does not lose
\* every PDU of a kind.
Fairness ==
    /\ WF_vars(TransmitPdcpPdu)
    /\ SF_vars(\E n \in 1 .. MaxPdu : SendNewPdu(n, TRUE))
    /\ SF_vars(RetransmitAll(TRUE))
    /\ SF_vars(\E fit \in 1 .. Window : SendStatusPdu(fit, TRUE))
    /\ WF_data(DataArrives)
    /\ WF_status(StatusArrives)
    /\ WF_vars(ExpirePollRetransmitTimer)
    /\ WF_vars(ExpireReorderingTimer)
    /\ WF_vars(ExpireStatusProhibitTimer)

FairSpec == Spec /\ Fairness

-----------------------------------------------------------------------------
(* Properties.                                                             *)

\* The receiving side hands up the bytes that PDCP submitted, in order, none
\* twice and none left out, whatever HARQ loses or swaps and however the
\* numbers wrap.
InOrder ==
    \A i \in 1 .. Len(delivered) : delivered[i] = i

\* The bytes of the PDUs in a buffer of the transmitting side.
BytesHeld(buffer) ==
    UNION {buffer[sn].from .. buffer[sn].from + buffer[sn].len - 1 :
              sn \in {s \in SN : buffer[s] # NoPdu}}

\* The transmitting side forgets a PDU only when the peer has all of it: any
\* byte that has left m_txonBuffer is delivered, complete at the receiver or
\* still held for retransmission.
NoByteLost ==
    1 .. sent \subseteq
        BytesHeld(txed) \union BytesHeld(retx)
            \union {delivered[i] : i \in DOMAIN delivered}
            \union UNION {{rxon[sn].bytes[i] : i \in DOMAIN rxon[sn].bytes} :
                             sn \in SN \ Incomplete(rxon)}

\* DoReportBufferStatus dereferences the PDU with number VT(A) in one of the
\* two buffers: it is there while anything is in flight.
HeadIsHeld ==
    vtA # vtS => txed[vtA] # NoPdu \/ retx[vtA] # NoPdu

\* Whatever STATUS PDUs, timers and new PDUs do to them, the two buffers hold
\* PDUs of at most Window numbers from VT(A) on, and none of them twice: VT(S)
\* never runs into a number that is still in use.
SenderWindow ==
    /\ InFlight <= Window
    /\ \A sn \in SN \ TxWindow : txed[sn] = NoPdu /\ retx[sn] = NoPdu
    /\ \A sn \in SN : txed[sn] = NoPdu \/ retx[sn] = NoPdu

\* The assertions of DoReceivePdu on a STATUS PDU: what it reports missing is
\* still held.
NackIsHeld ==
    status # <<>> =>
        \A sn \in Reported(Head(status).ack) \intersect Head(status).nacks :
            txed[sn] # NoPdu \/ retx[sn] # NoPdu

\* VR(R) <= VR(MS) <= VR(H) <= VR(MR), and VR(X) lies above VR(R) while
\* t-Reordering runs: the order that the comparisons of the receiving side and
\* the assertion "first SN not reported as missing" take for granted.
ReceiverOrder ==
    /\ Dist(vrR, vrMs) <= Dist(vrR, vrH)
    /\ Dist(vrR, vrH) <= Window
    /\ reorderingTimer # Off =>
           /\ reorderingTimer # vrR
           /\ Dist(vrR, reorderingTimer) <= Dist(vrR, vrH)
    /\ \A sn \in SN \ Interval(vrR, vrH) : rxon[sn] = NoEntry

\* Where no PDU is cut, a transmitting side that waits for an acknowledgement
\* has something to wake it: t-PollRetransmit runs, a PDU waits to be
\* retransmitted, or the window has room for a new PDU, which will poll, and
\* PDCP has one or t-PollRetransmit has expired and owes a poll.
SenderAwake ==
    bigEnough /\ vtA # vtS =>
        \/ pollTimer # Off
        \/ ~ RetxEmpty
        \/ ~ Stalled /\ (~ TxonEmpty \/ pollExpired)

\* Nothing is in flight, runs or waits: only a new SDU could bring a step.
Quiet ==
    /\ TxonEmpty /\ RetxEmpty /\ data = <<>> /\ status = <<>>
    /\ pollTimer = Off /\ reorderingTimer = Off
    /\ ~ prohibitTimer /\ ~ granted

\* The test suite lte-rlc-am-e2e drops PDUs at random and passes "if at the end
\* of the simulation all SDUs are correctly delivered to the upper layers"
\* (lte-testing.rst:1029): no side stops for good with SDUs left over.
DeliveredAtTheEnd == bigEnough /\ Quiet => Len(delivered) = submitted

\* t-PollRetransmit has expired while a PDU waited to be retransmitted, a
\* STATUS PDU has acknowledged that one since, and nothing is left to carry
\* the poll.
PollOwed ==
    pollExpired /\ pollTimer = Off /\ TxonEmpty /\ RetxEmpty /\ vtA # vtS

\* Where a bearer without cut PDUs has come to rest, all SDUs are delivered or
\* that poll is the one thing missing.
DeliveredOrPollOwed ==
    bigEnough /\ Quiet => Len(delivered) = submitted \/ PollOwed

\* With opportunities big enough for every retransmission, all that PDCP
\* submits is delivered and acknowledged, whatever polls, STATUS PDUs and data
\* are lost, unless a poll is owed for good.
DeliveredUnlessPollOwed ==
    bigEnough ~> \/ Len(delivered) = Sdus * SduSize /\ vtA = vtS
                 \/ []PollOwed

\* DoReceivePdu quotes 5.1.3.2.2 of TS 36.322: a PDU inside the window whose
\* bytes have not all been received is placed in the reception buffer.  A
\* whole PDU that arrives completes its number.
WholePduIsPlaced ==
    [][\A i \in 1 .. ChannelBound :
          ReceiveDataPdu(i) /\ InsideReceivingWindow(data[i].sn)
                            /\ ~ data[i].segment
            => rxon'[data[i].sn].complete \/ vrR' # vrR]_vars
=============================================================================
