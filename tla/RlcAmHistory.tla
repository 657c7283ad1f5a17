---------------------------- MODULE RlcAmHistory ----------------------------
(***************************************************************************)
(* The invariant of an acknowledged-mode bearer.  Sequence numbers wrap;   *)
(* what is true of them is said of the numbers that they stand for, which  *)
(* count on: the history of a bearer.                                      *)
(*                                                                         *)
(*   a, s        the numbers of VT(A), VT(S)                               *)
(*   r, m, w     the numbers of VR(R), VR(MS), VR(H)                       *)
(*   start[k]    the first byte of PDU k; start[s] is the next to be sent  *)
(*   number[i]   the number of the i-th data PDU in flight                 *)
(*   from[i], to[i]  VR(R) when the i-th STATUS PDU in flight was sent,    *)
(*               and the number of its ACK_SN                              *)
(***************************************************************************)
EXTENDS RlcAm

\* The sequence number of number n.
Num(n) == n % Modulus

\* The numbers of both sides, in order: the window of one side covers all
\* that the other expects.
Numbers(a, r, m, w, s) ==
    /\ a <= r /\ r <= m /\ m <= w /\ w <= s /\ s <= a + Window
    /\ vtA = Num(a) /\ vtS = Num(s)
    /\ vrR = Num(r) /\ vrMs = Num(m) /\ vrH = Num(w)

\* The PDUs cut the bytes that were sent without a gap.
Stream(s, start) ==
    /\ start[0] = 1 /\ start[s] = sent + 1
    /\ \A k \in 0 .. s : start[k] \in Nat \ {0}
    /\ \A k \in 0 .. s - 1 : start[k + 1] - start[k] \in 1 .. MaxPdu
    /\ \A k, l \in 0 .. s : k < l => start[k] < start[l]
    /\ submitted \in Nat /\ sent <= submitted /\ submitted <= Sdus * SduSize

PduAt(start, k) == [from |-> start[k], len |-> start[k + 1] - start[k]]

\* A number in the window of the sender is of the PDU that was sent with it.
Buffers(a, s, start) ==
    \A k \in a .. s - 1 :
        /\ txed[Num(k)] \in {NoPdu, PduAt(start, k)}
        /\ retx[Num(k)] \in {NoPdu, PduAt(start, k)}

\* A PDU that was cut waits for the rest of it to be sent.
Segments ==
    /\ \A sn \in SN : retxSeg[sn] # NoSegment =>
           retx[sn] # NoPdu /\ retxSeg[sn] \in 1 .. retx[sn].len - 1
    /\ bigEnough => \A sn \in SN : retxSeg[sn] = NoSegment

Held(k) == txed[Num(k)] # NoPdu \/ retx[Num(k)] # NoPdu

\* The receiver has all of PDU k, and its next STATUS PDU will say so.
Complete(r, m, k) == k < r \/ (k < m /\ rxon[Num(k)].complete)

\* The i-th STATUS PDU acknowledges PDU k.
Acked(from, to, i, k) ==
    k < from[i] \/ (k < to[i] /\ Num(k) \notin status[i].nacks)

\* The i-th STATUS PDU does not need the sender to hold PDU k.
Settled(from, i, k) ==
    IF status[i].nacks = {} THEN k < from[i] ELSE Num(k) \notin status[i].nacks

\* What the sender has forgotten, the receiver has, and no STATUS PDU in
\* flight asks for it.
Forgotten(a, r, m, s, from) ==
    \A k \in a .. s - 1 :
        ~ Held(k) => /\ Complete(r, m, k)
                     /\ \A i \in 1 .. Len(status) : Settled(from, i, k)

\* A data PDU carries a piece of PDU n.
Carries(s, start, pdu, n) ==
    /\ n \in 0 .. s - 1
    /\ pdu.sn = Num(n) /\ pdu.pdu = PduAt(start, n)
    /\ pdu.offset \in Nat /\ pdu.len \in Nat \ {0}
    /\ pdu.offset + pdu.len <= pdu.pdu.len
    /\ pdu.last <=> pdu.offset + pdu.len = pdu.pdu.len
    /\ ~ pdu.segment => pdu.offset = 0 /\ pdu.last

\* The PDUs a window or more above n of which the receiver has got anything.
Late(r, w, n) ==
    {k \in n + Window .. w - 1 : k < r \/ rxon[Num(k)] # NoEntry}

\* They have overtaken the data PDU that carries n: all that was sent before
\* it has a smaller number.
Data(r, w, s, start, number) ==
    \A i \in 1 .. Len(data) :
        /\ Carries(s, start, data[i], number[i])
        /\ data[i].overtaken \in 0 .. Overtakes
        /\ Cardinality(Late(r, w, number[i])) <= data[i].overtaken
        /\ \A j \in 1 .. i - 1 : number[j] < number[i] + Window

\* The receiver holds the first bytes of a PDU, or all of it.
Entries(r, w, start) ==
    \A k \in r .. w - 1 :
        LET entry == rxon[Num(k)]
            len == start[k + 1] - start[k]
        IN  /\ entry.bytes \in Seq(Nat) /\ entry.complete \in BOOLEAN
            /\ \A j \in 1 .. Len(entry.bytes) : entry.bytes[j] = start[k] + j - 1
            /\ Len(entry.bytes) <= len
            /\ entry.complete => Len(entry.bytes) = len

\* It has delivered all that lies below VR(R), and VR(R) is missing.
Delivery(r, start) ==
    /\ delivered = [b \in 1 .. start[r] - 1 |-> b]
    /\ ~ rxon[Num(r)].complete

\* The gap that t-Reordering waits for lies below VR(X).
Reordering(r, m, w) ==
    \A k \in r + 1 .. w : Num(k) = reorderingTimer =>
        \A l \in k .. m - 1 : rxon[Num(l)].complete

\* A STATUS PDU is about the numbers from VR(R) on, of the time it was sent;
\* what it acknowledges, no later one takes back.
Statuses(a, r, m, s, from, to) ==
    \A i \in 1 .. Len(status) :
        /\ from[i] \in a .. r /\ to[i] \in from[i] .. m
        /\ status[i].ack = Num(to[i])
        /\ IF status[i].nacks = {}
               THEN from[i] = to[i]
               ELSE from[i] < to[i] /\ Num(from[i]) \in status[i].nacks
        /\ \A k \in from[i] .. to[i] - 1 :
               Num(k) \notin status[i].nacks => Complete(r, m, k)
        /\ \A j \in i + 1 .. Len(status) :
               /\ from[i] <= from[j]
               /\ \A k \in a .. s - 1 : Acked(from, to, i, k) => Settled(from, j, k)

Tracks(a, r, m, w, s, start, number, from, to) ==
    /\ Numbers(a, r, m, w, s)
    /\ Stream(s, start)
    /\ Buffers(a, s, start)
    /\ Segments
    /\ Forgotten(a, r, m, s, from)
    /\ Data(r, w, s, start, number)
    /\ Entries(r, w, start)
    /\ Delivery(r, start)
    /\ Reordering(r, m, w)
    /\ Statuses(a, r, m, s, from, to)

HistoryInv ==
    \E a, r, m, w, s \in Nat : \E start, number, from, to :
        Tracks(a, r, m, w, s, start, number, from, to)
=============================================================================
