------------------------- MODULE RlcAmHistory_proofs ------------------------
(***************************************************************************)
(* Proofs about an acknowledged-mode bearer, for every modulus, window and *)
(* SDU size and any number of PDUs in flight: its data transfer.           *)
(*                                                                         *)
(* The invariant is HistoryInv of RlcAmHistory: there are numbers, which   *)
(* count on, that the sequence numbers stand for, and what every buffer    *)
(* and every PDU in flight holds is said of them.  One lemma for each      *)
(* action shows that the history moves on with it; the properties of RlcAm *)
(* follow from it at the end.                                              *)
(***************************************************************************)
EXTENDS RlcAmHistory, RlcAm_proofs, FiniteSetTheorems

USE ModulusAssumption

-----------------------------------------------------------------------------
(* Numbers that count on, and their sequence numbers.                      *)

\* The sequence number of a number is one.
LEMMA NumType ==
    ASSUME NEW n \in Nat
    PROVE  Num(n) \in SN
  BY DEF Num, SN

\* The rest of a number with a known quotient.
LEMMA NumOfQuotient ==
    ASSUME NEW q \in Int, NEW rest \in 0 .. Modulus - 1
    PROVE  (q * Modulus + rest) % Modulus = rest
  OBVIOUS

\* A number is some turns and its sequence number.
LEMMA NumQuotient ==
    ASSUME NEW n \in Nat
    PROVE  \E q \in Int : n = q * Modulus + Num(n)
<1>1. n = (n \div Modulus) * Modulus + (n % Modulus) /\ n \div Modulus \in Int
  OBVIOUS
<1> QED BY <1>1 DEF Num

\* Numbers less than a turn apart are as far apart as their sequence numbers.
LEMMA NumDist ==
    ASSUME NEW i \in Nat, NEW j \in Nat, i <= j, j - i < Modulus
    PROVE  Dist(Num(i), Num(j)) = j - i
<1>1. PICK q \in Int : i = q * Modulus + Num(i)
  BY NumQuotient
<1>2. PICK t \in Int : t = q * Modulus
  OBVIOUS
<1>3. (q + 1) * Modulus = t + Modulus
  BY <1>2
<1>4. PICK rest \in SN : rest = Num(i)
  BY NumType
<1>5. i = t + rest /\ rest \in Int /\ 0 <= rest /\ rest < Modulus
  BY <1>1, <1>2, <1>4 DEF SN
<1>6. CASE rest + (j - i) < Modulus
  <2>1. j = t + (rest + (j - i)) /\ rest + (j - i) \in 0 .. Modulus - 1
    BY <1>5, <1>6
  <2>2. j % Modulus = rest + (j - i)
    BY <1>2, <2>1, NumOfQuotient
  <2> QED BY <1>4, <1>5, <2>2 DEF Num, Dist
<1>7. CASE rest + (j - i) >= Modulus
  <2>1. /\ j = t + Modulus + (rest + (j - i) - Modulus)
        /\ rest + (j - i) - Modulus \in 0 .. Modulus - 1 /\ q + 1 \in Int
    BY <1>5, <1>7
  <2>2. j % Modulus = rest + (j - i) - Modulus
    BY <1>3, <2>1, NumOfQuotient
  <2> QED BY <1>4, <1>5, <1>7, <2>2 DEF Num, Dist
<1> QED BY <1>5, <1>6, <1>7

\* The distance back completes the turn.
LEMMA DistBack ==
    ASSUME NEW x \in SN, NEW y \in SN
    PROVE  /\ x # y => Dist(y, x) = Modulus - Dist(x, y)
           /\ \A z \in SN : Dist(x, y) = Dist(x, z) => y = z
  BY DEF SN, Dist

\* Less than a turn apart, the sequence number tells the number.
LEMMA NumSame ==
    ASSUME NEW i \in Nat, NEW j \in Nat, i - j < Modulus, j - i < Modulus,
           Num(i) = Num(j)
    PROVE  i = j
<1>1. Dist(Num(i), Num(j)) = 0 /\ Dist(Num(j), Num(i)) = 0
  BY NumType, DistType
<1>2. CASE i <= j
  BY <1>1, <1>2, NumDist
<1>3. CASE j <= i
  BY <1>1, <1>3, NumDist
<1> QED BY <1>2, <1>3

\* A number stays behind another by what is missing to a turn.
LEMMA NumDistBack ==
    ASSUME NEW i \in Nat, NEW j \in Nat, i < j, j - i < Modulus
    PROVE  Dist(Num(j), Num(i)) = Modulus - (j - i)
<1>1. Num(i) # Num(j)
  BY NumSame
<1> QED BY <1>1, NumType, DistBack, NumDist

\* Each sequence number is that of a number less than a turn above i.
LEMMA NumOf ==
    ASSUME NEW i \in Nat, NEW sn \in SN
    PROVE  /\ Num(i + Dist(Num(i), sn)) = sn
           /\ i + Dist(Num(i), sn) \in Nat
           /\ Dist(Num(i), sn) \in Nat /\ Dist(Num(i), sn) < Modulus
<1>1. PICK d \in Nat : d = Dist(Num(i), sn) /\ d < Modulus
  BY NumType, DistType
<1>2. Dist(Num(i), Num(i + d)) = d
  BY <1>1, NumDist
<1>3. Num(i + d) = sn
  BY <1>1, <1>2, NumType, DistBack
<1> QED BY <1>1, <1>3

\* Adding to the sequence number is adding to the number.
LEMMA NumPlus ==
    ASSUME NEW i \in Nat, NEW n \in Nat, n < Modulus
    PROVE  Plus(Num(i), n) = Num(i + n)
<1>1. Num(i) \in SN /\ Num(i + n) \in SN /\ n \in 0 .. Modulus
  BY NumType
<1>2. Plus(Num(i), n) \in SN /\ Dist(Num(i), Plus(Num(i), n)) = n
  BY <1>1, PlusType
<1>3. Dist(Num(i), Num(i + n)) = n
  BY NumDist
<1> QED BY <1>1, <1>2, <1>3, DistBack

\* The next number has the next sequence number.
LEMMA NumSucc ==
    ASSUME NEW i \in Nat
    PROVE  Succ(Num(i)) = Num(i + 1)
  BY NumPlus, WindowFits DEF Succ

\* The number before has the sequence number before.
LEMMA NumPred ==
    ASSUME NEW i \in Nat, i > 0
    PROVE  Pred(Num(i)) = Num(i - 1)
<1>1. i - 1 \in Nat /\ Num(i) \in SN /\ Num(i - 1) \in SN
  BY NumType
<1>2. Succ(Num(i - 1)) = Num(i)
  BY <1>1, NumSucc
<1> QED BY <1>1, <1>2 DEF Succ, Pred, Plus, SN

\* An interval of sequence numbers stands for an interval of numbers.
LEMMA NumInterval ==
    ASSUME NEW i \in Nat, NEW j \in Nat, i <= j, j - i < Modulus
    PROVE  /\ \A k \in i .. j - 1 : Num(k) \in Interval(Num(i), Num(j))
           /\ \A sn \in Interval(Num(i), Num(j)) :
                  \E k \in i .. j - 1 : sn = Num(k)
           /\ \A k \in i .. i + Modulus - 1 :
                  Num(k) \in Interval(Num(i), Num(j)) => k < j
<1>1. Dist(Num(i), Num(j)) = j - i
  BY NumDist
<1>2. ASSUME NEW k \in i .. i + Modulus - 1
      PROVE  Num(k) \in Interval(Num(i), Num(j)) <=> k < j
  <2>1. k \in Nat /\ i <= k /\ k - i < Modulus
    OBVIOUS
  <2>2. Dist(Num(i), Num(k)) = k - i /\ Num(k) \in SN
    BY <2>1, NumDist, NumType
  <2> QED BY <1>1, <2>1, <2>2 DEF Interval
<1>3. ASSUME NEW sn \in Interval(Num(i), Num(j))
      PROVE  \E k \in i .. j - 1 : sn = Num(k)
  <2>1. sn \in SN /\ Dist(Num(i), sn) < j - i
    BY <1>1, <1>3 DEF Interval
  <2>2. PICK d \in Nat : d = Dist(Num(i), sn)
    BY <2>1, NumOf
  <2>3. Num(i + d) = sn /\ i + d \in i .. j - 1
    BY <2>1, <2>2, NumOf
  <2> QED BY <2>3
<1>4. ASSUME NEW k \in i .. j - 1 PROVE Num(k) \in Interval(Num(i), Num(j))
  BY <1>2
<1> QED BY <1>2, <1>3, <1>4

\* The first sequence number of a set is that of the first number.
LEMMA NumFirst ==
    ASSUME NEW i \in Nat, NEW S, S \subseteq SN, S # {}
    PROVE  \E j \in i .. i + Modulus - 1 :
               /\ FirstFrom(Num(i), S) = Num(j) /\ Num(j) \in S
               /\ \A k \in i .. j - 1 : Num(k) \notin S
<1>1. /\ FirstFrom(Num(i), S) \in S
      /\ \A sn \in S : Dist(Num(i), FirstFrom(Num(i), S)) <= Dist(Num(i), sn)
  BY NumType, FirstFromIsFirst
<1>2. PICK first \in SN : first = FirstFrom(Num(i), S)
  BY <1>1
<1>3. PICK d \in Nat : d = Dist(Num(i), first) /\ d < Modulus
  BY NumOf
<1>4. Num(i + d) = first
  BY <1>3, NumOf
<1>5. ASSUME NEW k \in i .. i + d - 1 PROVE Num(k) \notin S
  <2>1. k \in Nat /\ i <= k /\ k - i < d /\ k - i < Modulus
    BY <1>3
  <2>2. Dist(Num(i), Num(k)) = k - i
    BY <2>1, NumDist
  <2> QED BY <1>1, <1>2, <1>3, <2>1, <2>2
<1>6. i + d \in i .. i + Modulus - 1
  BY <1>3
<1> QED BY <1>1, <1>2, <1>4, <1>5, <1>6

-----------------------------------------------------------------------------
(* The history of a bearer.                                                *)

\* How far the numbers of the two sides are apart.
LEMMA NumbersFit ==
    ASSUME NEW a \in Nat, NEW r \in Nat, NEW m \in Nat, NEW w \in Nat,
           NEW s \in Nat, Numbers(a, r, m, w, s)
    PROVE  /\ Window \in Nat \ {0} /\ Overtakes \in Nat
           /\ 2 * Window + Overtakes <= Modulus /\ Window < Modulus
           /\ a <= r /\ r <= m /\ m <= w /\ w <= s
           /\ s - a <= Window /\ s - r <= Window /\ w - r <= Window
           /\ InFlight = s - a /\ Dist(vtA, vtS) = s - a
           /\ Dist(vrR, vrMs) = m - r /\ Dist(vrR, vrH) = w - r
<1>1. /\ Window \in Nat \ {0} /\ Overtakes \in Nat
      /\ 2 * Window + Overtakes <= Modulus /\ Window < Modulus
  BY WindowFits, RlcAssumption
<1>2. /\ a <= r /\ r <= m /\ m <= w /\ w <= s /\ s <= a + Window
      /\ vtA = Num(a) /\ vtS = Num(s)
      /\ vrR = Num(r) /\ vrMs = Num(m) /\ vrH = Num(w)
  BY DEF Numbers
<1>3. /\ s - a < Modulus /\ m - r < Modulus /\ w - r < Modulus
      /\ a <= s /\ r <= w
  BY <1>1, <1>2
<1>4. /\ Dist(Num(a), Num(s)) = s - a /\ Dist(Num(r), Num(m)) = m - r
      /\ Dist(Num(r), Num(w)) = w - r
  BY <1>2, <1>3, NumDist
<1>5. s - a <= Window /\ s - r <= Window /\ w - r <= Window
  BY <1>1, <1>2
<1> QED BY <1>1, <1>2, <1>4, <1>5 DEF InFlight

\* The window of the sender holds the numbers from a up to s, each once.
LEMMA SenderNumbers ==
    ASSUME NEW a \in Nat, NEW r \in Nat, NEW m \in Nat, NEW w \in Nat,
           NEW s \in Nat, Numbers(a, r, m, w, s)
    PROVE  /\ \A k \in a .. s - 1 : Num(k) \in TxWindow /\ Num(k) \in SN
           /\ \A sn \in TxWindow : \E k \in a .. s - 1 : sn = Num(k)
           /\ \A k, l \in a .. s : Num(k) = Num(l) /\ k < s => k = l
<1>1. a <= s /\ s - a <= Window /\ Window < Modulus /\ Window \in Nat
  BY NumbersFit
<1>2. TxWindow = Interval(Num(a), Num(s))
  BY DEF TxWindow, Numbers
<1>3. s - a < Modulus
  BY <1>1
<1>4. ASSUME NEW k \in a .. s, NEW l \in a .. s, Num(k) = Num(l)
      PROVE  k = l
  <2>1. k \in Nat /\ l \in Nat /\ k - l < Modulus /\ l - k < Modulus
    BY <1>3
  <2> QED BY <1>4, <2>1, NumSame
<1>5. ASSUME NEW k \in a .. s - 1 PROVE Num(k) \in SN
  BY NumType
<1>6. \A k \in a .. s - 1 : Num(k) \in TxWindow
  BY <1>1, <1>2, <1>3, NumInterval
<1>7. \A sn \in TxWindow : \E k \in a .. s - 1 : sn = Num(k)
  BY <1>1, <1>2, <1>3, NumInterval
<1> QED BY <1>4, <1>5, <1>6, <1>7

\* Each clause speaks of some of the variables.
LEMMA NumbersFrame ==
    ASSUME NEW a, NEW r, NEW m, NEW w, NEW s, Numbers(a, r, m, w, s),
           UNCHANGED <<vtA, vtS, vrR, vrMs, vrH>>
    PROVE  Numbers(a, r, m, w, s)'
  BY DEF Numbers

\* Both buffers of the sender.
LEMMA BuffersFrame ==
    ASSUME NEW a, NEW s, NEW start, Buffers(a, s, start), UNCHANGED <<txed, retx>>
    PROVE  Buffers(a, s, start)'
  BY DEF Buffers

\* The segments that wait.
LEMMA SegmentsFrame ==
    ASSUME Segments, UNCHANGED <<retx, retxSeg, bigEnough>>
    PROVE  Segments'
  BY DEF Segments

\* What is held at least as long.
LEMMA ForgottenFrame ==
    ASSUME NEW a, NEW r, NEW m, NEW s, NEW from, Forgotten(a, r, m, s, from),
           \A k \in a .. s - 1 : Held(k) => Held(k)', UNCHANGED <<rxon, status>>
    PROVE  Forgotten(a, r, m, s, from)'
  BY DEF Forgotten, Complete, Settled

\* The data PDUs in flight.
LEMMA DataFrame ==
    ASSUME NEW r, NEW w, NEW s, NEW start, NEW number,
           Data(r, w, s, start, number), UNCHANGED <<data, rxon>>
    PROVE  Data(r, w, s, start, number)'
  BY DEF Data, Late

\* The clauses about the receiver.
LEMMA ReceiverFrame ==
    ASSUME NEW r, NEW m, NEW w, NEW start,
           Entries(r, w, start), Delivery(r, start), Reordering(r, m, w),
           UNCHANGED <<rxon, delivered, reorderingTimer>>
    PROVE  /\ Entries(r, w, start)' /\ Delivery(r, start)'
           /\ Reordering(r, m, w)'
  BY DEF Entries, Delivery, Reordering

\* The STATUS PDUs in flight.
LEMMA StatusesFrame ==
    ASSUME NEW a, NEW r, NEW m, NEW s, NEW from, NEW to,
           Statuses(a, r, m, s, from, to), UNCHANGED <<status, rxon>>
    PROVE  Statuses(a, r, m, s, from, to)'
  BY DEF Statuses, Complete, Acked, Settled

\* Nothing late is in flight behind a PDU from the window of the sender.
LEMMA NothingLate ==
    ASSUME NEW a \in Nat, NEW r \in Nat, NEW m \in Nat, NEW w \in Nat,
           NEW s \in Nat, Numbers(a, r, m, w, s), NEW n \in Nat, a <= n
    PROVE  Late(r, w, n) = {} /\ Cardinality(Late(r, w, n)) = 0
<1>1. w <= s /\ s - a <= Window /\ Window \in Nat
  BY NumbersFit
<1>2. n + Window .. w - 1 = {}
  BY <1>1
<1>3. Late(r, w, n) = {}
  BY <1>2 DEF Late
<1> QED BY <1>3, FS_EmptySet

\* A PDU of the window joins the others in flight, or is lost.
LEMMA TransmitKeepsData ==
    ASSUME RlcInv,
           NEW a \in Nat, NEW r \in Nat, NEW m \in Nat, NEW w \in Nat,
           NEW s \in Nat, NEW z \in Nat, s <= z, z <= a + Window,
           Numbers(a, r, m, w, s),
           NEW start, NEW grown,
           \A k \in 0 .. s : grown[k] = start[k],
           NEW number, Data(r, w, s, start, number),
           NEW n \in Nat, a <= n, NEW pdu, Carries(z, grown, pdu, n),
           pdu.overtaken = 0, NEW kept \in BOOLEAN,
           data' = Transmit(data, pdu, kept), UNCHANGED rxon
    PROVE  \E new : Data(r, w, z, grown, new)'
<1>1. /\ w <= s /\ s - a <= Window /\ Window \in Nat /\ Overtakes \in Nat
      /\ a <= s
  BY NumbersFit
<1>2. data \in Seq(AnyDataPdu) /\ Len(data) \in Nat
  BY DEF RlcInv, MacTypes
<1>3. \A x : Late(r, w, x)' = Late(r, w, x)
  BY DEF Late
<1>4. ASSUME NEW i \in 1 .. Len(data)
      PROVE  /\ Carries(z, grown, data[i], number[i])
             /\ data[i].overtaken \in 0 .. Overtakes
             /\ Cardinality(Late(r, w, number[i])) <= data[i].overtaken
             /\ \A j \in 1 .. i - 1 : number[j] < number[i] + Window
             /\ number[i] \in Nat /\ number[i] < s
  <2>1. /\ Carries(s, start, data[i], number[i])
        /\ data[i].overtaken \in 0 .. Overtakes
        /\ Cardinality(Late(r, w, number[i])) <= data[i].overtaken
        /\ \A j \in 1 .. i - 1 : number[j] < number[i] + Window
    BY DEF Data
  <2>2. number[i] \in Nat /\ number[i] < s
    BY <2>1 DEF Carries
  <2>3. PduAt(grown, number[i]) = PduAt(start, number[i])
    BY <2>2 DEF PduAt
  <2>4. number[i] \in 0 .. z - 1
    BY <2>2
  <2> QED BY <2>1, <2>2, <2>3, <2>4 DEF Carries
<1>5. CASE ~ kept
  <2>1. data' = data
    BY <1>5 DEF Transmit
  <2>2. Data(r, w, z, grown, number)'
    BY <1>3, <1>4, <2>1 DEF Data, Carries
  <2> QED BY <2>2
<1>6. CASE kept
  <2>1. data' = Append(data, pdu)
    BY <1>6 DEF Transmit
  <2>2. /\ Len(data') = Len(data) + 1
        /\ \A i \in 1 .. Len(data) : data'[i] = data[i]
        /\ data'[Len(data) + 1] = pdu
    BY <1>2, <2>1, AppendProperties
  <2>3. PICK new : new = [i \in Nat |-> IF i = Len(data) + 1 THEN n ELSE number[i]]
    OBVIOUS
  <2>4. /\ \A i \in 1 .. Len(data) : new[i] = number[i]
        /\ new[Len(data) + 1] = n
    BY <1>2, <2>3
  <2>5. ASSUME NEW i \in 1 .. Len(data')
        PROVE  /\ Carries(z, grown, data'[i], new[i])
               /\ data'[i].overtaken \in 0 .. Overtakes
               /\ Cardinality(Late(r, w, new[i])) <= data'[i].overtaken
               /\ \A j \in 1 .. i - 1 : new[j] < new[i] + Window
    <3>1. CASE i \in 1 .. Len(data)
      <4>1. \A j \in 1 .. i - 1 : j \in 1 .. Len(data)
        BY <1>2, <3>1
      <4> QED BY <1>4, <2>2, <2>4, <3>1, <4>1
    <3>2. CASE i = Len(data) + 1
      <4>1. Cardinality(Late(r, w, n)) = 0
        BY NothingLate
      <4>2. ASSUME NEW j \in 1 .. i - 1 PROVE new[j] < n + Window
        <5>1. j \in 1 .. Len(data)
          BY <1>2, <3>2
        <5>2. new[j] = number[j] /\ number[j] \in Nat /\ number[j] < s
          BY <1>4, <2>4, <5>1
        <5> QED BY <1>1, <5>1, <5>2
      <4> QED BY <1>1, <2>2, <2>4, <3>2, <4>1, <4>2
    <3> QED BY <1>2, <2>2, <3>1, <3>2
  <2>6. \A i \in 1 .. Len(data') :
            Cardinality(Late(r, w, new[i])') <= data'[i].overtaken
    BY <1>3, <2>5
  <2>7. Data(r, w, z, grown, new)'
    BY <2>5, <2>6 DEF Data, Carries
  <2> QED BY <2>7
<1> QED BY <1>5, <1>6

\* A step of the sender within its window.
LEMMA SenderStep ==
    ASSUME NEW a \in Nat, NEW r \in Nat, NEW m \in Nat, NEW w \in Nat,
           NEW s \in Nat, NEW start, NEW number, NEW from, NEW to,
           Tracks(a, r, m, w, s, start, number, from, to),
           UNCHANGED <<sent, submitted, vtA, vtS, status, rxVars>>,
           Buffers(a, s, start)', Segments',
           \A k \in a .. s - 1 : Held(k) => Held(k)',
           \E new : Data(r, w, s, start, new)'
    PROVE  HistoryInv'
<1>1. UNCHANGED <<vrR, vrMs, vrH, rxon, reorderingTimer, delivered>>
  BY DEF rxVars
<1>2. PICK new : Data(r, w, s, start, new)'
  OBVIOUS
<1>3. Numbers(a, r, m, w, s)'
  BY <1>1, NumbersFrame DEF Tracks
<1>4. Stream(s, start)'
  BY DEF Tracks, Stream
<1>5. Forgotten(a, r, m, s, from)'
  BY <1>1, ForgottenFrame DEF Tracks
<1>6. Entries(r, w, start)' /\ Delivery(r, start)' /\ Reordering(r, m, w)'
  BY <1>1, ReceiverFrame DEF Tracks
<1>7. Statuses(a, r, m, s, from, to)'
  BY <1>1, StatusesFrame DEF Tracks
<1>8. Tracks(a, r, m, w, s, start, new, from, to)'
  BY <1>2, <1>3, <1>4, <1>5, <1>6, <1>7 DEF Tracks
<1> QED BY <1>8 DEF HistoryInv

\* The PDU that is retransmitted next, and the part of it that is left.
LEMMA FirstRetxNumber ==
    ASSUME RlcInv, ~ RetxEmpty,
           NEW a \in Nat, NEW r \in Nat, NEW m \in Nat, NEW w \in Nat,
           NEW s \in Nat, NEW start, Numbers(a, r, m, w, s), Stream(s, start),
           Buffers(a, s, start), Segments
    PROVE  \E k \in a .. s - 1 :
               /\ FirstRetx = Num(k) /\ retx[Num(k)] = PduAt(start, k)
               /\ retx[Num(k)].len \in Nat
               /\ Offset(Num(k)) \in 0 .. retx[Num(k)].len - 1
               /\ retxSeg[Num(k)] = NoSegment <=> Offset(Num(k)) = 0
<1>1. SenderTypes /\ SenderWindow
  BY DEF RlcInv, SenderInv
<1>2. FirstRetx \in SN /\ retx[FirstRetx] # NoPdu
  BY <1>1, FirstRetxWaits
<1>3. FirstRetx \in TxWindow
  BY <1>1, <1>2 DEF SenderWindow
<1>4. PICK k \in a .. s - 1 : FirstRetx = Num(k)
  BY <1>3, SenderNumbers
<1>5. retx[Num(k)] = PduAt(start, k)
  BY <1>2, <1>4 DEF Buffers
<1>6. /\ start[k + 1] - start[k] \in 1 .. MaxPdu
      /\ start[k] \in Nat /\ start[k + 1] \in Nat
  <2>1. k \in 0 .. s - 1 /\ k \in 0 .. s /\ k + 1 \in 0 .. s
    OBVIOUS
  <2> QED BY <2>1 DEF Stream
<1>7. retx[Num(k)].len \in Nat /\ retx[Num(k)].len >= 1
  BY <1>5, <1>6 DEF PduAt
<1>8. /\ Offset(Num(k)) \in 0 .. retx[Num(k)].len - 1
      /\ retxSeg[Num(k)] = NoSegment <=> Offset(Num(k)) = 0
  <2>1. CASE retxSeg[Num(k)] = NoSegment
    BY <1>7, <2>1 DEF Offset
  <2>2. CASE retxSeg[Num(k)] # NoSegment
    <3>1. retxSeg[Num(k)] \in 1 .. retx[Num(k)].len - 1
      BY <1>2, <1>4, <2>2 DEF Segments
    <3> QED BY <1>7, <2>2, <3>1 DEF Offset
  <2> QED BY <2>1, <2>2
<1> QED BY <1>4, <1>5, <1>7, <1>8

\* A retransmission, of all that is left or of a segment, carries its number.
LEMMA RetxMessageCarries ==
    ASSUME NEW s \in Nat, NEW start, NEW k \in 0 .. s - 1,
           retx[Num(k)] = PduAt(start, k), retx[Num(k)].len \in Nat,
           Offset(Num(k)) \in 0 .. retx[Num(k)].len - 1,
           retxSeg[Num(k)] = NoSegment <=> Offset(Num(k)) = 0,
           NEW len \in Nat \ {0}, NEW last \in BOOLEAN,
           Offset(Num(k)) + len <= retx[Num(k)].len,
           last <=> Offset(Num(k)) + len = retx[Num(k)].len
    PROVE  /\ Carries(s, start, RetxMessage(Num(k), len, last), k)
           /\ RetxMessage(Num(k), len, last).overtaken = 0
<1> DEFINE pdu == RetxMessage(Num(k), len, last)
<1>1. /\ pdu.sn = Num(k) /\ pdu.pdu = retx[Num(k)]
      /\ pdu.offset = Offset(Num(k)) /\ pdu.len = len /\ pdu.last = last
      /\ pdu.segment = (~ last \/ retxSeg[Num(k)] # NoSegment)
      /\ pdu.overtaken = 0
  BY DEF RetxMessage
<1> HIDE DEF pdu
<1>2. /\ pdu.offset \in Nat /\ pdu.len \in Nat \ {0}
      /\ pdu.offset + pdu.len <= pdu.pdu.len
  BY <1>1
<1>3. pdu.last <=> pdu.offset + pdu.len = pdu.pdu.len
  BY <1>1
<1>4. ~ pdu.segment => pdu.offset = 0 /\ pdu.last
  BY <1>1
<1>5. Carries(s, start, pdu, k)
  BY <1>1, <1>2, <1>3, <1>4 DEF Carries
<1> QED BY <1>1, <1>5 DEF pdu

\* A retransmitted PDU goes back to m_txedBuffer: it stays held.
LEMMA RetransmitAllKeepsHistory ==
    ASSUME RlcInv,
           NEW a \in Nat, NEW r \in Nat, NEW m \in Nat, NEW w \in Nat,
           NEW s \in Nat, NEW start, NEW number, NEW from, NEW to,
           Tracks(a, r, m, w, s, start, number, from, to),
           NEW kept \in BOOLEAN, RetransmitAll(kept)
    PROVE  HistoryInv'
<1>1. /\ Numbers(a, r, m, w, s) /\ Stream(s, start) /\ Buffers(a, s, start)
      /\ Segments /\ Data(r, w, s, start, number)
  BY DEF Tracks
<1>2. /\ ~ RetxEmpty
      /\ data' = Transmit(data, RetxMessage(FirstRetx,
                              retx[FirstRetx].len - Offset(FirstRetx), TRUE), kept)
      /\ txed' = [txed EXCEPT ![FirstRetx] = retx[FirstRetx]]
      /\ retx' = [retx EXCEPT ![FirstRetx] = NoPdu]
      /\ retxSeg' = [retxSeg EXCEPT ![FirstRetx] = NoSegment]
      /\ UNCHANGED <<bigEnough, submitted, sent, vtA, vtS, status, rxVars>>
      /\ UNCHANGED rxon
  BY DEF RetransmitAll, rxVars
<1>3. PICK k \in a .. s - 1 :
          /\ FirstRetx = Num(k) /\ retx[Num(k)] = PduAt(start, k)
          /\ retx[Num(k)].len \in Nat
          /\ Offset(Num(k)) \in 0 .. retx[Num(k)].len - 1
          /\ retxSeg[Num(k)] = NoSegment <=> Offset(Num(k)) = 0
  BY <1>1, <1>2, FirstRetxNumber
<1>4. /\ DOMAIN txed = SN /\ DOMAIN retx = SN /\ DOMAIN retxSeg = SN
      /\ \A l \in a .. s - 1 : Num(l) \in SN
  BY <1>1, SenderNumbers DEF RlcInv, SenderInv, SenderTypes
<1>5. \E new : Data(r, w, s, start, new)'
  <2> DEFINE pdu == RetxMessage(Num(k), retx[Num(k)].len - Offset(Num(k)), TRUE)
  <2>1. Carries(s, start, pdu, k) /\ pdu.overtaken = 0
    <3>1. /\ retx[Num(k)].len - Offset(Num(k)) \in Nat \ {0}
          /\ Offset(Num(k)) + (retx[Num(k)].len - Offset(Num(k)))
               = retx[Num(k)].len
          /\ k \in 0 .. s - 1
      BY <1>3
    <3>2. Offset(Num(k)) + (retx[Num(k)].len - Offset(Num(k)))
            <= retx[Num(k)].len
      BY <1>3
    <3> QED BY <1>3, <3>1, <3>2, RetxMessageCarries
  <2>2. data' = Transmit(data, pdu, kept)
    BY <1>2, <1>3
  <2> HIDE DEF pdu
  <2>3. k \in Nat /\ a <= k /\ s <= a + Window /\ s <= s
    BY <1>1 DEF Numbers
  <2> QED BY <1>1, <1>2, <2>1, <2>2, <2>3, TransmitKeepsData
<1>6. /\ txed'[Num(k)] = retx[Num(k)] /\ retx'[Num(k)] = NoPdu
      /\ \A l \in a .. s - 1 : Num(l) # Num(k) =>
             txed'[Num(l)] = txed[Num(l)] /\ retx'[Num(l)] = retx[Num(l)]
  BY <1>2, <1>3, <1>4
<1>7. \A l \in a .. s - 1 : Num(l) = Num(k) => l = k
  BY <1>1, SenderNumbers
<1>8. Buffers(a, s, start)'
  BY <1>1, <1>3, <1>6, <1>7 DEF Buffers
<1>9. Segments'
  BY <1>1, <1>2, <1>4 DEF Segments
<1>10. ASSUME NEW l \in a .. s - 1, Held(l) PROVE Held(l)'
  <2>1. ~ RetxEmpty /\ SenderTypes
    BY <1>2 DEF RlcInv, SenderInv
  <2>2. retx[Num(k)] # NoPdu
    BY <1>3, <2>1, FirstRetxWaits
  <2> QED BY <1>6, <1>10, <2>2 DEF Held
<1> QED BY <1>2, <1>5, <1>8, <1>9, <1>10, SenderStep

\* A segment is a piece of the PDU, and the rest of it waits.
LEMMA RetransmitSegmentKeepsHistory ==
    ASSUME RlcInv,
           NEW a \in Nat, NEW r \in Nat, NEW m \in Nat, NEW w \in Nat,
           NEW s \in Nat, NEW start, NEW number, NEW from, NEW to,
           Tracks(a, r, m, w, s, start, number, from, to),
           NEW len \in 1 .. MaxPdu, NEW kept \in BOOLEAN,
           RetransmitSegment(len, kept)
    PROVE  HistoryInv'
<1>1. /\ Numbers(a, r, m, w, s) /\ Stream(s, start) /\ Buffers(a, s, start)
      /\ Segments /\ Data(r, w, s, start, number)
  BY DEF Tracks
<1>2. /\ ~ bigEnough /\ ~ RetxEmpty
      /\ Offset(FirstRetx) + len < retx[FirstRetx].len
      /\ data' = Transmit(data, RetxMessage(FirstRetx, len, FALSE), kept)
      /\ retxSeg' = [retxSeg EXCEPT ![FirstRetx] = Offset(FirstRetx) + len]
      /\ UNCHANGED <<bigEnough, submitted, sent, vtA, vtS, txed, retx, status,
                     rxVars>>
      /\ UNCHANGED rxon
  BY DEF RetransmitSegment, rxVars
<1>3. PICK k \in a .. s - 1 :
          /\ FirstRetx = Num(k) /\ retx[Num(k)] = PduAt(start, k)
          /\ retx[Num(k)].len \in Nat
          /\ Offset(Num(k)) \in 0 .. retx[Num(k)].len - 1
          /\ retxSeg[Num(k)] = NoSegment <=> Offset(Num(k)) = 0
  BY <1>1, <1>2, FirstRetxNumber
<1>4. len \in Nat \ {0}
  BY RlcAssumption
<1>5. Offset(Num(k)) + len \in 1 .. retx[Num(k)].len - 1
  BY <1>2, <1>3, <1>4
<1>6. \E new : Data(r, w, s, start, new)'
  <2> DEFINE pdu == RetxMessage(Num(k), len, FALSE)
  <2>1. Carries(s, start, pdu, k) /\ pdu.overtaken = 0
    <3>1. /\ Offset(Num(k)) + len <= retx[Num(k)].len
          /\ FALSE <=> Offset(Num(k)) + len = retx[Num(k)].len
          /\ k \in 0 .. s - 1
      BY <1>3, <1>5
    <3> QED BY <1>3, <1>4, <3>1, RetxMessageCarries
  <2>2. data' = Transmit(data, pdu, kept)
    BY <1>2, <1>3
  <2> HIDE DEF pdu
  <2>3. k \in Nat /\ a <= k /\ s <= a + Window /\ s <= s
    BY <1>1 DEF Numbers
  <2> QED BY <1>1, <1>2, <2>1, <2>2, <2>3, TransmitKeepsData
<1>7. Buffers(a, s, start)'
  BY <1>1, <1>2, BuffersFrame
<1>8. Segments'
  <2>1. SenderTypes /\ ~ RetxEmpty
    BY <1>2 DEF RlcInv, SenderInv
  <2>2. retx[Num(k)] # NoPdu /\ DOMAIN retxSeg = SN /\ Num(k) \in SN
    BY <1>3, <2>1, FirstRetxWaits DEF SenderTypes
  <2>3. \A sn \in SN : retxSeg'[sn] = IF sn = Num(k) THEN Offset(Num(k)) + len
                                                     ELSE retxSeg[sn]
    BY <1>2, <1>3, <2>2
  <2> QED BY <1>1, <1>2, <1>5, <2>2, <2>3 DEF Segments
<1>9. \A l \in a .. s - 1 : Held(l) => Held(l)'
  BY <1>2 DEF Held
<1> QED BY <1>2, <1>6, <1>7, <1>8, <1>9, SenderStep

\* Nothing is sent, and only the polling bit is used up.
LEMMA RetransmitNothingKeepsHistory ==
    ASSUME NEW a \in Nat, NEW r \in Nat, NEW m \in Nat, NEW w \in Nat,
           NEW s \in Nat, NEW start, NEW number, NEW from, NEW to,
           Tracks(a, r, m, w, s, start, number, from, to), RetransmitNothing
    PROVE  HistoryInv'
<1>1. UNCHANGED <<bigEnough, submitted, sent, vtA, vtS, txed, retx, retxSeg,
                  data, status, rxVars>> /\ UNCHANGED rxon
  BY DEF RetransmitNothing, rxVars
<1>2. Buffers(a, s, start)' /\ Segments' /\ Data(r, w, s, start, number)'
  BY <1>1, BuffersFrame, SegmentsFrame, DataFrame DEF Tracks
<1>3. \A l \in a .. s - 1 : Held(l) => Held(l)'
  BY <1>1 DEF Held
<1> QED BY <1>1, <1>2, <1>3, SenderStep

\* What the end of t-PollRetransmit moves is still held.
LEMMA ExpirePollRetransmitTimerKeepsHistory ==
    ASSUME RlcInv,
           NEW a \in Nat, NEW r \in Nat, NEW m \in Nat, NEW w \in Nat,
           NEW s \in Nat, NEW start, NEW number, NEW from, NEW to,
           Tracks(a, r, m, w, s, start, number, from, to),
           ExpirePollRetransmitTimer
    PROVE  HistoryInv'
<1>1. /\ \/ /\ retx' = [sn \in SN |-> IF sn \in TxWindow /\ txed[sn] # NoPdu
                                          THEN txed[sn] ELSE retx[sn]]
            /\ txed' = [sn \in SN |-> IF sn \in TxWindow THEN NoPdu ELSE txed[sn]]
         \/ UNCHANGED <<retx, txed>>
      /\ UNCHANGED <<bigEnough, submitted, sent, vtA, vtS, retxSeg, data,
                     status, rxVars>>
      /\ UNCHANGED rxon
  BY DEF ExpirePollRetransmitTimer, rxVars
<1>2. /\ Numbers(a, r, m, w, s) /\ Buffers(a, s, start) /\ Segments
      /\ Data(r, w, s, start, number) /\ SenderWindow
  BY DEF Tracks, RlcInv, SenderInv
<1>3. \A k \in a .. s - 1 : Num(k) \in TxWindow /\ Num(k) \in SN
  BY <1>2, SenderNumbers
<1>4. Data(r, w, s, start, number)'
  BY <1>1, <1>2, DataFrame
<1>5. CASE UNCHANGED <<retx, txed>>
  <2>1. Buffers(a, s, start)' /\ Segments'
    BY <1>1, <1>2, <1>5, BuffersFrame, SegmentsFrame
  <2>2. \A l \in a .. s - 1 : Held(l) => Held(l)'
    BY <1>5 DEF Held
  <2> QED BY <1>1, <1>4, <2>1, <2>2, SenderStep
<1>6. CASE ~ UNCHANGED <<retx, txed>>
  <2>1. \A k \in a .. s - 1 :
            /\ retx'[Num(k)] = IF txed[Num(k)] # NoPdu THEN txed[Num(k)]
                                                       ELSE retx[Num(k)]
            /\ txed'[Num(k)] = NoPdu
    BY <1>1, <1>3, <1>6
  <2>2. Buffers(a, s, start)'
    BY <1>2, <2>1 DEF Buffers
  <2>3. \A l \in a .. s - 1 : Held(l) => Held(l)'
    BY <2>1 DEF Held
  <2>4. \A sn \in SN : retx[sn] # NoPdu => retx'[sn] = retx[sn]
    BY <1>1, <1>2, <1>6 DEF SenderWindow
  <2>5. Segments'
    BY <1>1, <1>2, <2>4 DEF Segments
  <2> QED BY <1>1, <1>4, <2>2, <2>3, <2>5, SenderStep
<1> QED BY <1>5, <1>6

\* New bytes from PDCP only make the stream longer.
LEMMA TransmitPdcpPduKeepsHistory ==
    ASSUME RlcInv,
           NEW a \in Nat, NEW r \in Nat, NEW m \in Nat, NEW w \in Nat,
           NEW s \in Nat, NEW start, NEW number, NEW from, NEW to,
           Tracks(a, r, m, w, s, start, number, from, to), TransmitPdcpPdu
    PROVE  HistoryInv'
<1>1. /\ submitted + SduSize <= Sdus * SduSize
      /\ submitted' = submitted + SduSize
      /\ UNCHANGED <<bigEnough, sent, vtA, vtS, txed, retx, retxSeg,
                     data, status>>
      /\ UNCHANGED <<vrR, vrMs, vrH, rxon, reorderingTimer, delivered>>
  BY DEF TransmitPdcpPdu, rxVars
<1>2. Stream(s, start)'
  <2>1. SduSize \in Nat
    BY RlcAssumption
  <2>2. PICK most : most = Sdus * SduSize
    OBVIOUS
  <2>3. /\ submitted \in Nat /\ sent <= submitted /\ submitted + SduSize <= most
        /\ start[s] = sent + 1 /\ start[s] \in Nat \ {0}
    BY <1>1, <2>2 DEF Tracks, Stream
  <2>4. submitted' \in Nat /\ sent <= submitted' /\ submitted' <= most
    <3>1. sent \in Int
      BY DEF RlcInv, SenderInv, SenderTypes
    <3> QED BY <1>1, <2>1, <2>3, <3>1
  <2> QED BY <1>1, <2>2, <2>4 DEF Tracks, Stream
<1>3. /\ Numbers(a, r, m, w, s)' /\ Buffers(a, s, start)' /\ Segments'
      /\ Data(r, w, s, start, number)'
  BY <1>1, NumbersFrame, BuffersFrame, SegmentsFrame, DataFrame DEF Tracks
<1>4. Forgotten(a, r, m, s, from)'
  <2>1. \A l \in a .. s - 1 : Held(l) => Held(l)'
    BY <1>1 DEF Held
  <2> QED BY <1>1, <2>1, ForgottenFrame DEF Tracks
<1>5. /\ Entries(r, w, start)' /\ Delivery(r, start)' /\ Reordering(r, m, w)'
      /\ Statuses(a, r, m, s, from, to)'
  BY <1>1, ReceiverFrame, StatusesFrame DEF Tracks
<1>6. Tracks(a, r, m, w, s, start, number, from, to)'
  BY <1>2, <1>3, <1>4, <1>5 DEF Tracks
<1> QED BY <1>6 DEF HistoryInv

\* A new PDU takes the next number; the bytes it carries follow the others.
LEMMA StreamGrows ==
    ASSUME NEW s \in Nat, NEW start, Stream(s, start), sent \in Int,
           NEW n \in 1 .. MaxPdu, n <= submitted - sent,
           sent' = sent + n, UNCHANGED submitted,
           NEW grown,
           \A k \in 0 .. s : grown[k] = start[k], grown[s + 1] = sent + n + 1
    PROVE  Stream(s + 1, grown)' /\ PduAt(grown, s) = [from |-> sent + 1, len |-> n]
<1>1. n \in Nat \ {0} /\ MaxPdu \in Nat
  BY RlcAssumption
<1>2. s \in 0 .. s /\ 0 \in 0 .. s
  OBVIOUS
<1>3. start[s] = sent + 1 /\ start[0] = 1 /\ submitted \in Nat
      /\ sent <= submitted /\ submitted <= Sdus * SduSize
  BY DEF Stream
<1>4. grown[s] = sent + 1 /\ grown[0] = 1
  BY <1>2, <1>3
<1>5. \A k \in 0 .. s : grown[k] \in Nat \ {0} /\ grown[k] <= sent + 1
  <2>1. \A k \in 0 .. s : start[k] \in Nat \ {0}
                          /\ (k < s => start[k] < start[s])
    BY <1>2 DEF Stream
  <2> QED BY <1>2, <1>3, <2>1
<1>6. \A k \in 0 .. s + 1 : grown[k] \in Nat \ {0}
  <2>1. sent + n + 1 \in Nat \ {0}
    BY <1>1, <1>4, <1>5, <1>2
  <2>2. ASSUME NEW k \in 0 .. s + 1 PROVE k \in 0 .. s \/ k = s + 1
    OBVIOUS
  <2> QED BY <1>5, <2>1, <2>2
<1>7. \A k \in 0 .. s : grown[k + 1] - grown[k] \in 1 .. MaxPdu
  <2>1. ASSUME NEW k \in 0 .. s - 1 PROVE grown[k + 1] - grown[k] \in 1 .. MaxPdu
    <3>1. k \in 0 .. s /\ k + 1 \in 0 .. s
      OBVIOUS
    <3>2. start[k + 1] - start[k] \in 1 .. MaxPdu
      BY DEF Stream
    <3> QED BY <3>1, <3>2
  <2>2. grown[s + 1] - grown[s] \in 1 .. MaxPdu
    BY <1>1, <1>4
  <2>3. ASSUME NEW k \in 0 .. s PROVE k \in 0 .. s - 1 \/ k = s
    OBVIOUS
  <2> QED BY <2>1, <2>2, <2>3
<1>8. ASSUME NEW k \in 0 .. s + 1, NEW l \in 0 .. s + 1, k < l
      PROVE  grown[k] < grown[l]
  <2>1. CASE l \in 0 .. s
    <3>1. k \in 0 .. s
      BY <1>8, <2>1
    <3>2. start[k] < start[l]
      BY <1>8, <2>1, <3>1 DEF Stream
    <3> QED BY <2>1, <3>1, <3>2
  <2>2. CASE l = s + 1
    <3>1. k \in 0 .. s
      BY <1>8, <2>2
    <3>2. grown[k] \in Nat /\ grown[k] <= sent + 1
      BY <1>5, <3>1
    <3> QED BY <1>1, <2>2, <3>2
  <2> QED BY <2>1, <2>2
<1>9. sent' <= submitted'
  BY <1>1, <1>3
<1>10. Stream(s + 1, grown)'
  <2>1. (s + 1) - 1 = s
    OBVIOUS
  <2> QED BY <1>3, <1>4, <1>6, <1>7, <1>8, <1>9, <2>1 DEF Stream
<1>11. PduAt(grown, s) = [from |-> sent + 1, len |-> n]
  BY <1>1, <1>4 DEF PduAt
<1> QED BY <1>10, <1>11

\* A new PDU takes the next number and the next bytes.
LEMMA SendNewPduKeepsHistory ==
    ASSUME RlcInv,
           NEW a \in Nat, NEW r \in Nat, NEW m \in Nat, NEW w \in Nat,
           NEW s \in Nat, NEW start, NEW number, NEW from, NEW to,
           Tracks(a, r, m, w, s, start, number, from, to),
           NEW n \in 1 .. MaxPdu, NEW kept \in BOOLEAN, SendNewPdu(n, kept)
    PROVE  HistoryInv'
<1> DEFINE pdu == [from |-> sent + 1, len |-> n]
           message == [sn |-> vtS, poll |-> TRUE, pdu |-> pdu,
                       segment |-> FALSE, offset |-> 0, len |-> n,
                       last |-> TRUE, overtaken |-> 0]
<1>1. /\ Numbers(a, r, m, w, s) /\ Stream(s, start) /\ Buffers(a, s, start)
      /\ Segments /\ Data(r, w, s, start, number)
      /\ Entries(r, w, start) /\ Delivery(r, start) /\ Reordering(r, m, w)
      /\ Forgotten(a, r, m, s, from) /\ Statuses(a, r, m, s, from, to)
  BY DEF Tracks
<1>2. /\ RetxEmpty /\ ~ Stalled /\ n <= submitted - sent
      /\ sent' = sent + n
      /\ vtS' = Succ(vtS)
      /\ txed' = [txed EXCEPT ![vtS] = pdu]
      /\ data' = Transmit(data, message, kept)
      /\ UNCHANGED <<bigEnough, submitted, vtA, retx, retxSeg, status>>
      /\ UNCHANGED <<vrR, vrMs, vrH, rxon, reorderingTimer, delivered>>
      /\ UNCHANGED rxon
  BY DEF SendNewPdu, rxVars
<1>3. /\ a <= r /\ r <= m /\ m <= w /\ w <= s /\ s < a + Window
      /\ Window \in Nat \ {0} /\ Window < Modulus
      /\ vtS = Num(s) /\ vtS \in SN /\ n \in Nat \ {0}
  <2>1. /\ a <= r /\ r <= m /\ m <= w /\ w <= s /\ s - a <= Window
        /\ Window \in Nat \ {0} /\ Window < Modulus /\ InFlight = s - a
    BY <1>1, NumbersFit
  <2>2. n \in Nat \ {0}
    BY RlcAssumption
  <2> QED BY <1>1, <1>2, <2>1, <2>2, NumType DEF Numbers, Stalled
<1>4. PICK grown : grown = [k \in Nat |-> IF k = s + 1 THEN sent + n + 1
                                                       ELSE start[k]]
  OBVIOUS
<1>5. /\ \A k \in 0 .. s : grown[k] = start[k]
      /\ grown[s + 1] = sent + n + 1
  BY <1>4
<1>6. Stream(s + 1, grown)' /\ PduAt(grown, s) = pdu
  <2>1. sent \in Int
    BY DEF RlcInv, SenderInv, SenderTypes
  <2> QED BY <1>1, <1>2, <1>5, <2>1, StreamGrows
<1>7. Numbers(a, r, m, w, s + 1)'
  <2>1. vtS' = Num(s + 1)
    BY <1>2, <1>3, NumSucc
  <2>2. w <= s + 1 /\ s + 1 <= a + Window
    BY <1>3
  <2> QED BY <1>1, <1>2, <2>1, <2>2 DEF Numbers
<1>8. pdu # NoPdu
  <2>1. sent + 1 \in Nat \ {0}
    <3>1. start[s] = sent + 1 /\ start[s] \in Nat \ {0}
      BY <1>1 DEF Stream
    <3> QED BY <3>1
  <2>2. pdu.from # NoPdu.from
    BY <2>1 DEF NoPdu
  <2> QED BY <2>2
<1>9. /\ txed'[Num(s)] = pdu /\ retx'[Num(s)] = NoPdu
      /\ \A k \in a .. s - 1 : /\ txed'[Num(k)] = txed[Num(k)]
                               /\ retx'[Num(k)] = retx[Num(k)]
  <2>1. /\ txed \in [SN -> AnyPdu]
        /\ \A k \in a .. s - 1 : Num(k) \in SN /\ Num(k) # Num(s)
    <3>1. \A k \in a .. s - 1 : Num(k) \in SN
      BY <1>1, SenderNumbers
    <3>2. ASSUME NEW k \in a .. s - 1, Num(k) = Num(s) PROVE FALSE
      <4>1. k \in a .. s /\ s \in a .. s /\ k < s
        BY <1>3
      <4> QED BY <1>1, <3>2, <4>1, SenderNumbers
    <3> QED BY <3>1, <3>2 DEF RlcInv, SenderInv, SenderTypes
  <2> QED BY <1>2, <1>3, <2>1 DEF RetxEmpty
<1>10. \A k \in a .. s - 1 : PduAt(grown, k) = PduAt(start, k)
  <2>1. ASSUME NEW k \in a .. s - 1 PROVE PduAt(grown, k) = PduAt(start, k)
    <3>1. k \in 0 .. s /\ k + 1 \in 0 .. s
      OBVIOUS
    <3> QED BY <1>5, <3>1 DEF PduAt
  <2> QED BY <2>1
<1>11. \A k \in a .. (s + 1) - 1 : k \in a .. s - 1 \/ k = s
  BY <1>3
<1>12. Buffers(a, s + 1, grown)'
  <2> HIDE DEF pdu
  <2> QED BY <1>1, <1>6, <1>9, <1>10, <1>11 DEF Buffers
<1>13. Segments'
  BY <1>1, <1>2, SegmentsFrame
<1>14. Forgotten(a, r, m, s + 1, from)'
  <2> HIDE DEF pdu
  <2>1. ASSUME NEW k \in a .. s - 1, ~ Held(k)'
        PROVE  /\ Complete(r, m, k)'
               /\ (\A i \in 1 .. Len(status) : Settled(from, i, k))'
    <3>1. ~ Held(k)
      BY <1>9, <2>1 DEF Held
    <3> QED BY <1>1, <1>2, <3>1 DEF Forgotten, Complete, Settled
  <2>2. Held(s)'
    BY <1>8, <1>9 DEF Held
  <2> QED BY <1>11, <2>1, <2>2 DEF Forgotten
<1>15. \E new : Data(r, w, s + 1, grown, new)'
  <2>1. Carries(s + 1, grown, message, s)
    <3>1. /\ message.sn = Num(s) /\ message.pdu = PduAt(grown, s)
          /\ message.offset = 0 /\ message.len = n /\ message.last = TRUE
          /\ message.pdu.len = n
      BY <1>3, <1>6
    <3> HIDE DEF message, pdu
    <3>2. s \in 0 .. (s + 1) - 1
      OBVIOUS
    <3> QED BY <1>3, <3>1, <3>2 DEF Carries
  <2>2. message.overtaken = 0
    OBVIOUS
  <2> HIDE DEF message
  <2>3. s + 1 \in Nat /\ s <= s + 1 /\ s + 1 <= a + Window /\ a <= s
    BY <1>3
  <2> QED BY <1>1, <1>2, <1>5, <2>1, <2>2, <2>3, TransmitKeepsData
<1>16. Entries(r, w, grown)' /\ Delivery(r, grown)' /\ Reordering(r, m, w)'
  <2>1. Entries(r, w, start)' /\ Delivery(r, start)' /\ Reordering(r, m, w)'
    BY <1>1, <1>2, ReceiverFrame
  <2>2. /\ \A k \in r .. w - 1 : grown[k] = start[k] /\ grown[k + 1] = start[k + 1]
        /\ grown[r] = start[r]
    <3>1. /\ \A k \in r .. w - 1 : k \in 0 .. s /\ k + 1 \in 0 .. s
          /\ r \in 0 .. s
      BY <1>3
    <3> QED BY <1>5, <3>1
  <2>3. Entries(r, w, grown)'
    BY <2>1, <2>2 DEF Entries
  <2> QED BY <2>1, <2>2, <2>3 DEF Delivery
<1>17. Statuses(a, r, m, s + 1, from, to)'
  <2>1. Statuses(a, r, m, s, from, to)'
    BY <1>1, <1>2, StatusesFrame
  <2>2. ASSUME NEW i \in 1 .. Len(status') PROVE ~ Acked(from, to, i, s)'
    <3>1. from[i] \in a .. r /\ to[i] \in from[i] .. m
      BY <2>1 DEF Statuses
    <3>2. ~ (s < from[i]) /\ ~ (s < to[i])
      BY <1>3, <3>1
    <3> QED BY <3>2 DEF Acked
  <2> QED BY <1>11, <2>1, <2>2 DEF Statuses
<1> QED
  <2>1. PICK new : Data(r, w, s + 1, grown, new)'
    BY <1>15
  <2>2. Tracks(a, r, m, w, s + 1, grown, new, from, to)'
    BY <1>6, <1>7, <1>12, <1>13, <1>14, <1>16, <1>17, <2>1 DEF Tracks
  <2>3. s + 1 \in Nat
    OBVIOUS
  <2> QED BY <2>2, <2>3 DEF HistoryInv

\* What the oldest STATUS PDU reports on: the numbers up to its ACK_SN.
LEMMA ReportedNumbers ==
    ASSUME NEW a \in Nat, NEW r \in Nat, NEW m \in Nat, NEW w \in Nat,
           NEW s \in Nat, Numbers(a, r, m, w, s), NEW t \in a .. m
    PROVE  /\ \A k \in a .. s - 1 : Num(k) \in Reported(Num(t)) <=> k < t
           /\ \A sn \in Reported(Num(t)) : \E k \in a .. s - 1 : sn = Num(k)
           /\ Reported(Num(t)) \subseteq SN
           /\ Dist(vtA, Num(t)) = t - a /\ InFlight = s - a /\ t <= s
<1>1. /\ a <= s /\ s - a <= Window /\ Window < Modulus /\ Window \in Nat
      /\ t <= s /\ InFlight = s - a /\ vtA = Num(a)
  <2>1. /\ a <= r /\ r <= m /\ m <= w /\ w <= s /\ s - a <= Window
        /\ Window < Modulus /\ Window \in Nat /\ InFlight = s - a
    BY NumbersFit
  <2> QED BY <2>1 DEF Numbers
<1>2. a <= t /\ t - a < Modulus /\ t \in Nat
  BY <1>1
<1>3. Dist(Num(a), Num(t)) = t - a
  BY <1>2, NumDist
<1>4. /\ \A k \in a .. t - 1 : Num(k) \in Interval(vtA, Num(t))
      /\ \A k \in a .. a + Modulus - 1 : Num(k) \in Interval(vtA, Num(t)) => k < t
  BY <1>1, <1>2, NumInterval
<1>5. /\ \A k \in a .. s - 1 : Num(k) \in TxWindow
      /\ \A sn \in TxWindow : \E k \in a .. s - 1 : sn = Num(k)
  BY SenderNumbers
<1>6. ASSUME NEW k \in a .. s - 1 PROVE Num(k) \in Reported(Num(t)) <=> k < t
  <2>1. k \in a .. a + Modulus - 1
    BY <1>1
  <2>2. k < t => k \in a .. t - 1
    BY <1>2
  <2> QED BY <1>4, <1>5, <2>1, <2>2 DEF Reported
<1>7. Reported(Num(t)) \subseteq SN
  BY DEF Reported, Interval
<1> QED BY <1>1, <1>3, <1>5, <1>6, <1>7 DEF Reported

\* VT(A) moves no further than VR(R) was when the STATUS PDU was sent, and
\* stops at a number that it asks for, or that it does not acknowledge.
LEMMA NewVtANumber ==
    ASSUME NEW a \in Nat, NEW r \in Nat, NEW m \in Nat, NEW w \in Nat,
           NEW s \in Nat, Numbers(a, r, m, w, s),
           NEW f \in a .. r, NEW t \in f .. m, NEW nacks,
           IF nacks = {} THEN f = t ELSE f < t /\ Num(f) \in nacks
    PROVE  LET nacked == Reported(Num(t)) \intersect nacks
           IN  \E z \in a .. f :
                   /\ NewVtA(Num(t), nacked) = Num(z)
                   /\ \/ nacks = {} /\ z = t
                      \/ Num(z) \in nacked
<1> DEFINE nacked == Reported(Num(t)) \intersect nacks
<1> HIDE DEF nacked
<1>0. t \in a .. m
  OBVIOUS
<1>1. t \in a .. m /\ f \in Nat /\ a <= f /\ f <= t
  OBVIOUS
<1>2. /\ \A k \in a .. s - 1 : Num(k) \in Reported(Num(t)) <=> k < t
      /\ Reported(Num(t)) \subseteq SN
      /\ Dist(vtA, Num(t)) = t - a /\ InFlight = s - a /\ t <= s
  <2>1. \A k \in a .. s - 1 : Num(k) \in Reported(Num(t)) <=> k < t
    BY <1>0, ReportedNumbers
  <2>2. Reported(Num(t)) \subseteq SN
    BY <1>0, ReportedNumbers
  <2>3. Dist(vtA, Num(t)) = t - a
    BY <1>0, ReportedNumbers
  <2>4. InFlight = s - a
    BY <1>0, ReportedNumbers
  <2>5. t <= s
    BY <1>0, ReportedNumbers
  <2> QED BY <2>1, <2>2, <2>3, <2>4, <2>5
<1> USE DEF nacked
<1>3. vtA = Num(a) /\ vtS = Num(s)
  BY DEF Numbers
<1>4. CASE nacks = {}
  <2>1. nacked = {} /\ f = t
    BY <1>4
  <2>2. NewVtA(Num(t), nacked) = Num(t)
    BY <1>1, <1>2, <1>3, <2>1 DEF NewVtA
  <2> QED BY <1>1, <1>4, <2>1, <2>2
<1>5. CASE nacks # {}
  <2>1. f < t /\ Num(f) \in nacks
    BY <1>5
  <2>2. f \in a .. s - 1
    BY <1>1, <1>2, <2>1
  <2>3. Num(f) \in nacked
    BY <1>2, <2>1, <2>2
  <2>4. nacked # {} /\ nacked \subseteq SN
    BY <1>2, <2>3
  <2> HIDE DEF nacked
  <2>5. PICK z \in a .. a + Modulus - 1 :
            /\ FirstFrom(Num(a), nacked) = Num(z) /\ Num(z) \in nacked
            /\ \A k \in a .. z - 1 : Num(k) \notin nacked
    BY <2>4, NumFirst
  <2>6. z \in a .. f
    <3>1. ~ (f < z)
      BY <1>1, <2>3, <2>5
    <3> QED BY <1>1, <3>1
  <2>7. NewVtA(Num(t), nacked) = Num(z)
    BY <1>3, <2>4, <2>5 DEF NewVtA
  <2> QED BY <2>5, <2>6, <2>7 DEF nacked
<1> QED BY <1>4, <1>5

\* What happens to a PDU of the window when a STATUS PDU reports on it.
LEMMA ReportedBuffers ==
    ASSUME NEW nacks, NEW ack, SenderInv, MacTypes, ReceiveStatusPdu,
           ack = Head(status).ack, nacks = Head(status).nacks
    PROVE  \A sn \in SN :
             /\ sn \notin Reported(ack) =>
                    /\ txed'[sn] = txed[sn] /\ retx'[sn] = retx[sn]
                    /\ retxSeg'[sn] = retxSeg[sn]
             /\ sn \in Reported(ack) /\ sn \in nacks =>
                    /\ txed'[sn] = NoPdu
                    /\ retx'[sn] = IF txed[sn] # NoPdu THEN txed[sn] ELSE retx[sn]
                    /\ retxSeg'[sn] = retxSeg[sn]
             /\ sn \in Reported(ack) /\ sn \notin nacks =>
                    /\ txed'[sn] = NoPdu /\ retx'[sn] = NoPdu
                    /\ retxSeg'[sn] = NoSegment
<1> DEFINE reported == Reported(ack)
           nacked == reported \intersect nacks
<1>1. /\ retx' = [sn \in SN |->
                     CASE sn \in nacked /\ txed[sn] # NoPdu -> txed[sn]
                       [] sn \in reported \ nacked -> NoPdu
                       [] OTHER -> retx[sn]]
      /\ txed' = [sn \in SN |-> IF sn \in reported THEN NoPdu ELSE txed[sn]]
      /\ retxSeg' = [sn \in SN |-> IF sn \in reported \ nacked
                                      THEN NoSegment ELSE retxSeg[sn]]
  BY DEF ReceiveStatusPdu
<1> HIDE DEF reported
<1> SUFFICES ASSUME NEW sn \in SN
             PROVE  /\ sn \notin reported =>
                           /\ txed'[sn] = txed[sn] /\ retx'[sn] = retx[sn]
                           /\ retxSeg'[sn] = retxSeg[sn]
                    /\ sn \in reported /\ sn \in nacks =>
                           /\ txed'[sn] = NoPdu
                           /\ retx'[sn] = IF txed[sn] # NoPdu THEN txed[sn]
                                                              ELSE retx[sn]
                           /\ retxSeg'[sn] = retxSeg[sn]
                    /\ sn \in reported /\ sn \notin nacks =>
                           /\ txed'[sn] = NoPdu /\ retx'[sn] = NoPdu
                           /\ retxSeg'[sn] = NoSegment
  BY DEF reported
<1>2. CASE sn \notin reported
  BY <1>1, <1>2
<1>3. CASE sn \in reported /\ sn \in nacks
  BY <1>1, <1>3
<1>4. CASE sn \in reported /\ sn \notin nacks
  BY <1>1, <1>4
<1> QED BY <1>2, <1>3, <1>4

\* A STATUS PDU lets the sender forget only what the receiver has.
LEMMA ReceiveStatusPduKeepsHistory ==
    ASSUME RlcInv,
           NEW a \in Nat, NEW r \in Nat, NEW m \in Nat, NEW w \in Nat,
           NEW s \in Nat, NEW start, NEW number, NEW from, NEW to,
           Tracks(a, r, m, w, s, start, number, from, to), ReceiveStatusPdu
    PROVE  /\ HistoryInv'
           /\ HeadIsHeld'
<1>1. /\ Numbers(a, r, m, w, s) /\ Stream(s, start) /\ Buffers(a, s, start)
      /\ Segments /\ Data(r, w, s, start, number)
      /\ Entries(r, w, start) /\ Delivery(r, start) /\ Reordering(r, m, w)
      /\ Forgotten(a, r, m, s, from) /\ Statuses(a, r, m, s, from, to)
  BY DEF Tracks
<1>2. SenderInv /\ SenderTypes /\ SenderWindow /\ MacTypes
  BY DEF RlcInv, SenderInv
<1>3. PICK ack, nacks : ack = Head(status).ack /\ nacks = Head(status).nacks
  OBVIOUS
<1>4. /\ status # <<>> /\ status' = Tail(status)
      /\ vtA' = NewVtA(ack, Reported(ack) \intersect nacks)
      /\ UNCHANGED <<bigEnough, submitted, sent, vtS, data>>
      /\ UNCHANGED <<vrR, vrMs, vrH, rxon, reorderingTimer, delivered>>
  BY <1>3 DEF ReceiveStatusPdu, rxVars
<1>5. /\ Len(status) \in Nat \ {0} /\ Len(status') = Len(status) - 1
      /\ \A i \in 1 .. Len(status') :
             i + 1 \in 1 .. Len(status) /\ status'[i] = status[i + 1]
      /\ 1 \in 1 .. Len(status)
      /\ ack = status[1].ack /\ nacks = status[1].nacks
  <2>1. status \in Seq(StatusPdu)
    BY <1>2 DEF MacTypes
  <2>2. /\ Len(status) \in Nat \ {0} /\ Len(Tail(status)) = Len(status) - 1
        /\ \A i \in 1 .. Len(Tail(status)) :
               i + 1 \in 1 .. Len(status) /\ Tail(status)[i] = status[i + 1]
        /\ 1 \in 1 .. Len(status) /\ Head(status) = status[1]
    BY <1>4, <2>1
  <2> QED BY <1>3, <1>4, <2>2
<1>6. /\ from[1] \in a .. r /\ to[1] \in from[1] .. m
      /\ ack = Num(to[1])
      /\ IF nacks = {} THEN from[1] = to[1]
                       ELSE from[1] < to[1] /\ Num(from[1]) \in nacks
      /\ \A k \in from[1] .. to[1] - 1 : Num(k) \notin nacks => Complete(r, m, k)
      /\ \A j \in 2 .. Len(status) :
             /\ from[1] <= from[j]
             /\ \A k \in a .. s - 1 : Acked(from, to, 1, k) => Settled(from, j, k)
  BY <1>1, <1>5 DEF Statuses
<1>7. PICK f \in a .. r : f = from[1]
  BY <1>6
<1>8. PICK t \in f .. m : t = to[1]
  BY <1>6, <1>7
<1>9. a <= f /\ f <= r /\ f <= t /\ t <= m /\ m <= s /\ f \in Nat /\ t \in Nat
  BY <1>1 DEF Numbers
<1>10. PICK z \in a .. f :
           /\ NewVtA(ack, Reported(ack) \intersect nacks) = Num(z)
           /\ \/ nacks = {} /\ z = t
              \/ Num(z) \in Reported(ack) \intersect nacks
  <2>1. IF nacks = {} THEN f = t ELSE f < t /\ Num(f) \in nacks
    BY <1>6, <1>7, <1>8
  <2>2. \E z \in a .. f :
            /\ NewVtA(Num(t), Reported(Num(t)) \intersect nacks) = Num(z)
            /\ \/ nacks = {} /\ z = t
               \/ Num(z) \in Reported(Num(t)) \intersect nacks
    BY <1>1, <2>1, NewVtANumber
  <2> QED BY <1>6, <1>8, <2>2
<1>11. z \in Nat /\ a <= z /\ z <= f /\ vtA' = Num(z)
  BY <1>4, <1>9, <1>10
<1>12. /\ \A k \in a .. s - 1 : Num(k) \in Reported(ack) <=> k < t
       /\ \A k \in z .. s - 1 : k \in a .. s - 1
  <2>1. t \in a .. m
    BY <1>9
  <2>2. \A k \in a .. s - 1 : Num(k) \in Reported(Num(t)) <=> k < t
    BY <1>1, <2>1, ReportedNumbers
  <2> QED BY <1>6, <1>8, <1>11, <2>2
<1>13. \A k \in a .. s - 1 : Num(k) \in SN
  BY <1>1, SenderNumbers
<1>14. \A sn \in SN :
          /\ sn \notin Reported(ack) =>
                 /\ txed'[sn] = txed[sn] /\ retx'[sn] = retx[sn]
                 /\ retxSeg'[sn] = retxSeg[sn]
          /\ sn \in Reported(ack) /\ sn \in nacks =>
                 /\ txed'[sn] = NoPdu
                 /\ retx'[sn] = IF txed[sn] # NoPdu THEN txed[sn] ELSE retx[sn]
                 /\ retxSeg'[sn] = retxSeg[sn]
          /\ sn \in Reported(ack) /\ sn \notin nacks =>
                 /\ txed'[sn] = NoPdu /\ retx'[sn] = NoPdu
                 /\ retxSeg'[sn] = NoSegment
  BY <1>2, <1>3, ReportedBuffers
<1>15. Numbers(z, r, m, w, s)'
  <2>1. z <= r /\ s <= z + Window
    <3>1. s <= a + Window /\ Window \in Nat
      BY <1>1, WindowFits DEF Numbers
    <3> QED BY <1>9, <1>11, <3>1
  <2> QED BY <1>1, <1>4, <1>11, <2>1 DEF Numbers
<1>16. Stream(s, start)'
  BY <1>1, <1>4 DEF Stream
<1>17. Buffers(z, s, start)'
  <2>1. ASSUME NEW k \in z .. s - 1
        PROVE  /\ txed'[Num(k)] \in {NoPdu, PduAt(start, k)}
               /\ retx'[Num(k)] \in {NoPdu, PduAt(start, k)}
    <3>1. /\ Num(k) \in SN
          /\ txed[Num(k)] \in {NoPdu, PduAt(start, k)}
          /\ retx[Num(k)] \in {NoPdu, PduAt(start, k)}
      BY <1>1, <1>12, <1>13 DEF Buffers
    <3> QED BY <1>14, <3>1
  <2> QED BY <2>1 DEF Buffers
<1>18. Segments'
  <2>1. ASSUME NEW sn \in SN, retxSeg'[sn] # NoSegment
        PROVE  retx'[sn] # NoPdu /\ retxSeg'[sn] \in 1 .. retx'[sn].len - 1
    <3>1. retxSeg'[sn] = retxSeg[sn] /\ retxSeg[sn] # NoSegment
      BY <1>14, <2>1
    <3>2. retx[sn] # NoPdu /\ retxSeg[sn] \in 1 .. retx[sn].len - 1
      BY <1>1, <3>1 DEF Segments
    <3>3. txed[sn] = NoPdu
      BY <1>2, <3>2 DEF SenderWindow
    <3>4. retx'[sn] = retx[sn]
      BY <1>14, <2>1, <3>3
    <3> QED BY <3>1, <3>2, <3>4
  <2>2. bigEnough' => \A sn \in SN : retxSeg'[sn] = NoSegment
    BY <1>1, <1>4, <1>14 DEF Segments
  <2> QED BY <2>1, <2>2 DEF Segments
<1>19. PICK f2 : f2 = [i \in Nat |-> from[i + 1]]
  OBVIOUS
<1>20. PICK t2 : t2 = [i \in Nat |-> to[i + 1]]
  OBVIOUS
<1>21. \A i \in 1 .. Len(status') :
           /\ f2[i] = from[i + 1] /\ t2[i] = to[i + 1]
           /\ i + 1 \in 1 .. Len(status)
           /\ status'[i] = status[i + 1]
  <2>1. SUFFICES ASSUME NEW i \in 1 .. Len(status')
                 PROVE  /\ f2[i] = from[i + 1] /\ t2[i] = to[i + 1]
                        /\ i + 1 \in 1 .. Len(status)
                        /\ status'[i] = status[i + 1]
    BY Zenon
  <2>2. i \in Nat
    BY <1>5
  <2>3. f2[i] = from[i + 1]
    BY <1>19, <2>2
  <2>4. t2[i] = to[i + 1]
    BY <1>20, <2>2
  <2> QED BY <1>5, <2>3, <2>4
<1>22. ASSUME NEW i \in 1 .. Len(status'), NEW k
       PROVE  /\ Settled(f2, i, k)' <=> Settled(from, i + 1, k)
              /\ Acked(f2, t2, i, k)' <=> Acked(from, to, i + 1, k)
  <2>1. status'[i] = status[i + 1] /\ f2[i] = from[i + 1] /\ t2[i] = to[i + 1]
    BY <1>21
  <2>2. Settled(f2, i, k)' <=> Settled(from, i + 1, k)
    BY <2>1 DEF Settled
  <2>3. Acked(f2, t2, i, k)' <=> Acked(from, to, i + 1, k)
    BY <2>1 DEF Acked
  <2> QED BY <2>2, <2>3
<1>23. \A k : Complete(r, m, k)' = Complete(r, m, k)
  BY <1>4 DEF Complete
<1>24. Forgotten(z, r, m, s, f2)'
  <2>1. ASSUME NEW k \in z .. s - 1, ~ Held(k)'
        PROVE  /\ Complete(r, m, k)
               /\ \A j \in 2 .. Len(status) : Settled(from, j, k)
    <3>1. k \in a .. s - 1 /\ Num(k) \in SN /\ k \in Nat
      BY <1>12, <1>13
    <3>2. CASE ~ Held(k)
      BY <1>1, <3>1, <3>2 DEF Forgotten
    <3>3. CASE Held(k)
      <4>1. Num(k) \in Reported(ack) /\ Num(k) \notin nacks
        BY <1>14, <2>1, <3>1, <3>3 DEF Held
      <4>2. k < t
        BY <1>12, <3>1, <4>1
      <4>3. Complete(r, m, k)
        <5>1. CASE k < f
          BY <1>9, <3>1, <5>1 DEF Complete
        <5>2. CASE ~ (k < f)
          <6>1. k \in f .. t - 1
            BY <1>9, <3>1, <4>2, <5>2
          <6> QED BY <1>6, <1>7, <1>8, <4>1, <6>1
        <5> QED BY <5>1, <5>2
      <4>4. Acked(from, to, 1, k)
        BY <1>5, <1>8, <4>1, <4>2 DEF Acked
      <4> QED BY <1>6, <3>1, <4>3, <4>4
    <3> QED BY <3>2, <3>3
  <2>2. \A i \in 1 .. Len(status') : i + 1 \in 2 .. Len(status)
    BY <1>5
  <2>3. ASSUME NEW k \in z .. s - 1, ~ Held(k)', NEW i \in 1 .. Len(status')
        PROVE  Settled(f2, i, k)'
    BY <1>22, <2>1, <2>2, <2>3
  <2> QED BY <1>23, <2>1, <2>3 DEF Forgotten
<1>25. Data(r, w, s, start, number)'
  BY <1>1, <1>4, DataFrame
<1>26. Entries(r, w, start)' /\ Delivery(r, start)' /\ Reordering(r, m, w)'
  BY <1>1, <1>4, ReceiverFrame
<1>27. Statuses(z, r, m, s, f2, t2)'
  <2>1. ASSUME NEW i \in 1 .. Len(status')
        PROVE  /\ f2[i] \in z .. r /\ t2[i] \in f2[i] .. m
               /\ status'[i].ack = Num(t2[i])
               /\ IF status'[i].nacks = {}
                      THEN f2[i] = t2[i]
                      ELSE f2[i] < t2[i] /\ Num(f2[i]) \in status'[i].nacks
               /\ \A k \in f2[i] .. t2[i] - 1 :
                      Num(k) \notin status'[i].nacks => Complete(r, m, k)
    <3>1. i + 1 \in 1 .. Len(status) /\ i + 1 \in 2 .. Len(status)
      BY <1>5
    <3>2. /\ from[i + 1] \in a .. r /\ to[i + 1] \in from[i + 1] .. m
          /\ status[i + 1].ack = Num(to[i + 1])
          /\ IF status[i + 1].nacks = {}
                 THEN from[i + 1] = to[i + 1]
                 ELSE from[i + 1] < to[i + 1]
                      /\ Num(from[i + 1]) \in status[i + 1].nacks
          /\ \A k \in from[i + 1] .. to[i + 1] - 1 :
                 Num(k) \notin status[i + 1].nacks => Complete(r, m, k)
      BY <1>1, <3>1 DEF Statuses
    <3>3. from[1] <= from[i + 1]
      BY <1>6, <3>1
    <3>4. from[i + 1] \in z .. r
      BY <1>7, <1>11, <3>2, <3>3
    <3> QED BY <1>21, <3>2, <3>4
  <2>2. ASSUME NEW i \in 1 .. Len(status'), NEW j \in i + 1 .. Len(status')
        PROVE  /\ f2[i] <= f2[j]
               /\ \A k \in z .. s - 1 :
                      Acked(f2, t2, i, k)' => Settled(f2, j, k)'
    <3>1. /\ i + 1 \in 1 .. Len(status) /\ j + 1 \in (i + 1) + 1 .. Len(status)
          /\ j \in 1 .. Len(status')
      BY <1>5
    <3>2. /\ from[i + 1] <= from[j + 1]
          /\ \A k \in a .. s - 1 :
                 Acked(from, to, i + 1, k) => Settled(from, j + 1, k)
      BY <1>1, <3>1 DEF Statuses
    <3> QED BY <1>12, <1>21, <1>22, <3>1, <3>2
  <2> QED BY <1>23, <2>1, <2>2 DEF Statuses
<1>28. HistoryInv'
  <2>1. Tracks(z, r, m, w, s, start, number, f2, t2)'
    BY <1>15, <1>16, <1>17, <1>18, <1>24, <1>25, <1>26, <1>27 DEF Tracks
  <2> QED BY <1>11, <2>1 DEF HistoryInv
<1>29. HeadIsHeld'
  <2>1. SUFFICES ASSUME vtA' # vtS'
                 PROVE  txed'[vtA'] # NoPdu \/ retx'[vtA'] # NoPdu
    BY DEF HeadIsHeld
  <2>2. z \in a .. s - 1 /\ Num(z) \in SN
    <3>1. z # s
      BY <1>1, <1>4, <1>11, <2>1 DEF Numbers
    <3>2. z \in a .. s - 1
      BY <1>9, <1>11, <3>1
    <3> QED BY <1>13, <3>2
  <2>3. CASE nacks = {} /\ z = t
    <3>1. ~ Settled(from, 1, z)
      BY <1>5, <1>7, <1>9, <1>10, <2>3 DEF Settled
    <3>2. Held(z)
      BY <1>1, <1>5, <2>2, <3>1 DEF Forgotten
    <3>3. Num(z) \notin Reported(ack)
      BY <1>9, <1>12, <2>2, <2>3
    <3> QED BY <1>11, <1>14, <2>2, <3>2, <3>3 DEF Held
  <2>4. CASE Num(z) \in Reported(ack) \intersect nacks
    <3>1. ~ Settled(from, 1, z)
      BY <1>5, <2>4 DEF Settled
    <3>2. Held(z)
      BY <1>1, <1>5, <2>2, <3>1 DEF Forgotten
    <3> QED BY <1>11, <1>14, <2>2, <2>4, <3>2 DEF Held
  <2> QED BY <1>10, <2>3, <2>4
<1> QED BY <1>28, <1>29

\* The receiver may complete more PDUs: nothing is asked for again.
LEMMA MoreIsComplete ==
    ASSUME NEW a \in Nat, NEW r \in Nat, NEW m \in Nat, NEW w \in Nat,
           NEW s \in Nat, NEW from, NEW to, Numbers(a, r, m, w, s),
           Forgotten(a, r, m, s, from), Statuses(a, r, m, s, from, to),
           UNCHANGED <<txed, retx, status>>,
           NEW r2 \in Nat, NEW m2 \in Nat, r <= r2, m <= m2,
           \A k \in a .. s - 1 : Complete(r, m, k) => Complete(r2, m2, k)'
    PROVE  Forgotten(a, r2, m2, s, from)' /\ Statuses(a, r2, m2, s, from, to)'
<1>1. \A i, k : /\ Settled(from, i, k)' <=> Settled(from, i, k)
                /\ Acked(from, to, i, k)' <=> Acked(from, to, i, k)
  BY DEF Settled, Acked
<1>2. \A k : Held(k)' <=> Held(k)
  BY DEF Held
<1>3. Forgotten(a, r2, m2, s, from)'
  <2>1. ASSUME NEW k \in a .. s - 1, ~ Held(k)'
        PROVE  /\ Complete(r2, m2, k)'
               /\ \A i \in 1 .. Len(status) : Settled(from, i, k)'
    BY <1>1, <1>2, <2>1 DEF Forgotten
  <2> QED BY <2>1 DEF Forgotten
<1>4. m <= s
  BY DEF Numbers
<1>5. ASSUME NEW i \in 1 .. Len(status)
      PROVE  /\ from[i] \in a .. r2 /\ to[i] \in from[i] .. m2
             /\ \A k \in from[i] .. to[i] - 1 :
                    Num(k) \notin status[i].nacks => Complete(r2, m2, k)'
  <2>1. /\ from[i] \in a .. r /\ to[i] \in from[i] .. m
        /\ \A k \in from[i] .. to[i] - 1 :
               Num(k) \notin status[i].nacks => Complete(r, m, k)
    BY DEF Statuses
  <2>2. \A k \in from[i] .. to[i] - 1 : k \in a .. s - 1
    BY <1>4, <2>1
  <2> QED BY <2>1, <2>2
<1>6. Statuses(a, r2, m2, s, from, to)'
  BY <1>1, <1>5 DEF Statuses
<1> QED BY <1>3, <1>6

\* The numbers below VR(H) that the receiver waits for, and VR(H) itself.
LEMMA HighNumberIsIncomplete ==
    ASSUME ReceiverInv,
           NEW a \in Nat, NEW r \in Nat, NEW m \in Nat, NEW w \in Nat,
           NEW s \in Nat, Numbers(a, r, m, w, s)
    PROVE  Num(w) \in Incomplete(rxon) /\ Incomplete(rxon) \subseteq SN
<1>1. vrR \in SN /\ vrH \in SN /\ vrH = Num(w)
  BY DEF ReceiverInv, ReceiverTypes, Numbers
<1>2. \A sn \in SN \ Interval(vrR, vrH) : rxon[sn] = NoEntry
  BY DEF ReceiverInv, ReceiverOrder
<1> QED BY <1>1, <1>2, HighIsIncomplete

\* While t-Reordering runs, VR(X) is the number of a PDU above VR(R).
LEMMA ReorderingNumber ==
    ASSUME ReceiverInv, reorderingTimer # Off,
           NEW a \in Nat, NEW r \in Nat, NEW m \in Nat, NEW w \in Nat,
           NEW s \in Nat, Numbers(a, r, m, w, s)
    PROVE  \E x \in r + 1 .. w : reorderingTimer = Num(x)
<1>1. /\ vrR \in SN /\ vrH \in SN /\ reorderingTimer \in SN
      /\ reorderingTimer # vrR
      /\ Dist(vrR, reorderingTimer) <= Dist(vrR, vrH)
  BY DEF ReceiverInv, ReceiverTypes, ReceiverOrder
<1>2. Dist(vrR, vrH) = w - r /\ vrR = Num(r)
  BY NumbersFit DEF Numbers
<1>3. PICK d \in Nat : d = Dist(Num(r), reorderingTimer)
  BY <1>1, NumOf
<1>4. Num(r + d) = reorderingTimer
  BY <1>1, <1>3, NumOf
<1>5. d # 0
  BY <1>1, <1>2, <1>3, DistType
<1>6. d <= w - r
  BY <1>1, <1>2, <1>3
<1>7. r + d \in r + 1 .. w
  BY <1>5, <1>6
<1> QED BY <1>4, <1>7

\* VR(MS) moves on over complete numbers; what was acknowledged stays so.
LEMMA ExpireReorderingTimerKeepsHistory ==
    ASSUME RlcInv,
           NEW a \in Nat, NEW r \in Nat, NEW m \in Nat, NEW w \in Nat,
           NEW s \in Nat, NEW start, NEW number, NEW from, NEW to,
           Tracks(a, r, m, w, s, start, number, from, to),
           ExpireReorderingTimer
    PROVE  HistoryInv'
<1>1. /\ Numbers(a, r, m, w, s) /\ Stream(s, start) /\ Buffers(a, s, start)
      /\ Segments /\ Data(r, w, s, start, number)
      /\ Entries(r, w, start) /\ Delivery(r, start) /\ Reordering(r, m, w)
      /\ Forgotten(a, r, m, s, from) /\ Statuses(a, r, m, s, from, to)
      /\ ReceiverInv
  BY DEF Tracks, RlcInv
<1>2. PICK first : first = FirstFrom(reorderingTimer, Incomplete(rxon))
  OBVIOUS
<1>3. /\ reorderingTimer # Off
      /\ vrMs' = first
      /\ reorderingTimer' = IF Dist(vrR, vrH) > Dist(vrR, first)
                                THEN vrH ELSE Off
      /\ UNCHANGED <<vrR, vrH, rxon, delivered>>
      /\ UNCHANGED <<bigEnough, submitted, sent, vtA, vtS, txed, retx, retxSeg>>
      /\ UNCHANGED <<data, status>>
  BY <1>2 DEF ExpireReorderingTimer, txVars
<1>4. PICK x \in r + 1 .. w : reorderingTimer = Num(x)
  BY <1>1, <1>3, ReorderingNumber
<1>5. Num(w) \in Incomplete(rxon) /\ Incomplete(rxon) \subseteq SN
  BY <1>1, HighNumberIsIncomplete
<1>6. PICK j \in x .. x + Modulus - 1 :
          /\ first = Num(j) /\ Num(j) \in Incomplete(rxon)
          /\ \A k \in x .. j - 1 : Num(k) \notin Incomplete(rxon)
  <2>1. x \in Nat /\ Incomplete(rxon) # {}
    BY <1>5
  <2> QED BY <1>2, <1>4, <1>5, <2>1, NumFirst
<1>7. r <= m /\ m <= w /\ j <= w /\ m <= j /\ j \in Nat /\ r <= j
  <2>1. r <= m /\ m <= w
    BY <1>1 DEF Numbers
  <2>2. ~ (w < j)
    <3>1. w < j => w \in x .. j - 1
      OBVIOUS
    <3> QED BY <1>5, <1>6, <3>1
  <2>3. ~ (j < m)
    <3>1. j < m => j \in x .. m - 1
      OBVIOUS
    <3>2. j < m => rxon[Num(j)].complete
      BY <1>1, <1>4, <3>1 DEF Reordering
    <3> QED BY <1>6, <3>2 DEF Incomplete
  <2> QED BY <2>1, <2>2, <2>3
<1>8. Numbers(a, r, j, w, s)'
  BY <1>1, <1>3, <1>6, <1>7 DEF Numbers
<1>9. Stream(s, start)' /\ Buffers(a, s, start)' /\ Segments'
      /\ Data(r, w, s, start, number)'
  BY <1>1, <1>3, BuffersFrame, SegmentsFrame, DataFrame DEF Stream
<1>10. \A k \in a .. s - 1 : Complete(r, m, k) => Complete(r, j, k)'
  BY <1>3, <1>7 DEF Complete
<1>11. Forgotten(a, r, j, s, from)' /\ Statuses(a, r, j, s, from, to)'
  <2>1. r <= r
    OBVIOUS
  <2> QED BY <1>1, <1>3, <1>7, <1>10, <2>1, MoreIsComplete
<1>12. Entries(r, w, start)' /\ Delivery(r, start)'
  BY <1>1, <1>3 DEF Entries, Delivery
<1>13. Reordering(r, j, w)'
  <2>1. ASSUME NEW k \in r + 1 .. w, Num(k) = reorderingTimer',
               NEW l \in k .. j - 1
        PROVE  FALSE
    <3>1. Num(k) # Off
      BY NumType DEF SN, Off
    <3>2. Num(k) = Num(w)
      BY <1>1, <1>3, <2>1, <3>1 DEF Numbers
    <3>3. w - k < Modulus /\ k - w < Modulus /\ k \in Nat
      <4>1. w - r <= Window /\ Window < Modulus /\ Window \in Nat
        BY <1>1, NumbersFit
      <4> QED BY <4>1
    <3>4. k = w
      BY <3>2, <3>3, NumSame
    <3> QED BY <1>7, <3>4
  <2> QED BY <2>1 DEF Reordering
<1>14. Tracks(a, r, j, w, s, start, number, from, to)'
  BY <1>8, <1>9, <1>11, <1>12, <1>13 DEF Tracks
<1> QED BY <1>7, <1>14 DEF HistoryInv

\* What is missing lies between VR(R) and VR(MS).
LEMMA MissingNumbers ==
    ASSUME NEW a \in Nat, NEW r \in Nat, NEW m \in Nat, NEW w \in Nat,
           NEW s \in Nat, Numbers(a, r, m, w, s)
    PROVE  /\ \A k \in r .. m - 1 : Num(k) \in Missing <=> ~ rxon[Num(k)].complete
           /\ \A sn \in Missing : \E k \in r .. m - 1 : sn = Num(k)
           /\ Missing \subseteq SN
<1>1. r <= m /\ m - r < Modulus /\ vrR = Num(r) /\ vrMs = Num(m)
  <2>1. /\ r <= m /\ m <= w /\ w - r <= Window /\ Window < Modulus
        /\ Window \in Nat
    BY NumbersFit
  <2> QED BY <2>1 DEF Numbers
<1>2. /\ \A k \in r .. m - 1 : Num(k) \in Interval(vrR, vrMs)
      /\ \A sn \in Interval(vrR, vrMs) : \E k \in r .. m - 1 : sn = Num(k)
  BY <1>1, NumInterval
<1>3. \A k \in r .. m - 1 : Num(k) \in SN
  BY NumType
<1> QED BY <1>2, <1>3 DEF Missing, Incomplete

\* A STATUS PDU has room for at least the first NACK, which is for VR(R).
LEMMA FirstFits ==
    ASSUME NEW fit \in Nat \ {0}, vrR \in SN, vrR \in Missing
    PROVE  vrR \in Fitting(fit)
<1>1. {other \in Missing : Dist(vrR, other) < Dist(vrR, vrR)} = {}
  <2>1. \A other \in Missing : other \in SN
    BY DEF Missing, Incomplete
  <2>2. Dist(vrR, vrR) = 0
    BY DistType
  <2>3. \A other \in Missing : ~ (Dist(vrR, other) < Dist(vrR, vrR))
    BY <2>1, <2>2, DistType
  <2> QED BY <2>3
<1>2. Cardinality({other \in Missing : Dist(vrR, other) < Dist(vrR, vrR)}) = 0
  BY <1>1, FS_EmptySet
<1> QED BY <1>2 DEF Fitting

\* ACK_SN lies between VR(R) and VR(MS), and what is missing below it is
\* reported.
LEMMA AckSnNumber ==
    ASSUME NEW a \in Nat, NEW r \in Nat, NEW m \in Nat, NEW w \in Nat,
           NEW s \in Nat, Numbers(a, r, m, w, s), ~ rxon[Num(r)].complete,
           NEW fit \in Nat \ {0}, NEW nacks, nacks = Fitting(fit)
    PROVE  \E t \in r .. m :
               /\ AckSn(nacks) = Num(t)
               /\ nacks = {} => r = m
               /\ nacks = {} => r = t
               /\ nacks # {} => r < t /\ Num(r) \in nacks
               /\ \A k \in r .. t - 1 :
                      Num(k) \notin nacks => rxon[Num(k)].complete
<1>1. nacks = Fitting(fit)
  OBVIOUS
<1>2. /\ \A k \in r .. m - 1 : Num(k) \in Missing <=> ~ rxon[Num(k)].complete
      /\ \A sn \in Missing : \E k \in r .. m - 1 : sn = Num(k)
      /\ Missing \subseteq SN
  BY MissingNumbers
<1>3. /\ nacks \subseteq Missing /\ vrR = Num(r) /\ vrMs = Num(m) /\ r <= m
      /\ vrR \in SN
  BY <1>1, NumType DEF Fitting, Numbers
<1>4. r < m => Num(r) \in nacks
  <2>1. SUFFICES ASSUME r < m PROVE Num(r) \in nacks
    OBVIOUS
  <2>2. r \in r .. m - 1
    BY <2>1
  <2>3. vrR \in Missing
    BY <1>2, <1>3, <2>2
  <2> QED BY <1>1, <1>3, <2>3, FirstFits
<1>5. r = m => nacks = {}
  <2>1. r = m => r .. m - 1 = {}
    OBVIOUS
  <2> QED BY <1>2, <1>3, <2>1
<1>6. nacks = {} => r = m
  BY <1>3, <1>4
<1>7. \E t \in r .. m :
          /\ AckSn(nacks) = Num(t)
          /\ \/ Missing \ nacks = {} /\ t = m
             \/ Num(t) \notin nacks
          /\ \A k \in r .. t - 1 : Num(k) \notin nacks => rxon[Num(k)].complete
  <2>1. CASE Missing \ nacks = {}
    <3>1. AckSn(nacks) = Num(m)
      BY <1>3, <2>1 DEF AckSn
    <3>2. \A k \in r .. m - 1 : Num(k) \notin nacks => rxon[Num(k)].complete
      BY <1>2, <2>1
    <3>3. m \in r .. m
      BY <1>3
    <3> QED BY <2>1, <3>1, <3>2, <3>3
  <2>2. CASE Missing \ nacks # {}
    <3> DEFINE S == Missing \ nacks
    <3>1. S # {} /\ S \subseteq SN
      BY <1>2, <2>2
    <3> HIDE DEF S
    <3>2. PICK t \in r .. r + Modulus - 1 :
              /\ FirstFrom(Num(r), S) = Num(t) /\ Num(t) \in S
              /\ \A k \in r .. t - 1 : Num(k) \notin S
      BY <3>1, NumFirst
    <3>3. PICK l \in r .. m - 1 : Num(t) = Num(l)
      BY <1>2, <3>2 DEF S
    <3>4. t = l
      <4>1. m - r <= Window /\ Window < Modulus /\ Window \in Nat
        <5>1. /\ m <= w /\ w - r <= Window /\ Window < Modulus /\ Window \in Nat
          BY NumbersFit
        <5> QED BY <5>1
      <4>2. l \in Nat /\ t \in Nat /\ l - t < Modulus /\ t - l < Modulus
        BY <3>2, <3>3, <4>1
      <4> QED BY <3>3, <4>2, NumSame
    <3>5. AckSn(nacks) = Num(t)
      BY <1>3, <2>2, <3>2 DEF AckSn, S
    <3>6. t \in r .. m /\ \A k \in r .. t - 1 : k \in r .. m - 1
      BY <3>3, <3>4
    <3>7. \A k \in r .. t - 1 : Num(k) \notin nacks => rxon[Num(k)].complete
      BY <1>2, <3>2, <3>6 DEF S
    <3>8. Num(t) \notin nacks
      BY <3>2 DEF S
    <3> QED BY <3>5, <3>6, <3>7, <3>8
  <2> QED BY <2>1, <2>2
<1>8. PICK t \in r .. m :
          /\ AckSn(nacks) = Num(t)
          /\ \/ Missing \ nacks = {} /\ t = m
             \/ Num(t) \notin nacks
          /\ \A k \in r .. t - 1 : Num(k) \notin nacks => rxon[Num(k)].complete
  BY <1>7
<1>9. /\ nacks = {} => r = t
      /\ nacks # {} => r < t /\ Num(r) \in nacks
  <2>1. CASE nacks = {}
    BY <1>6, <2>1
  <2>2. CASE nacks # {}
    <3>1. r < m /\ Num(r) \in nacks
      BY <1>3, <1>4, <1>5, <2>2
    <3>2. t # r
      BY <1>8, <3>1
    <3> QED BY <2>2, <3>1, <3>2
  <2> QED BY <2>1, <2>2
<1> QED BY <1>1, <1>6, <1>8, <1>9

\* A STATUS PDU asks for nothing that is complete.
LEMMA NewStatusIsSettled ==
    ASSUME NEW a \in Nat, NEW r \in Nat, NEW m \in Nat, NEW w \in Nat,
           NEW s \in Nat, Numbers(a, r, m, w, s), NEW nacks \in SUBSET Missing,
           nacks = {} => r = m,
           NEW k \in a .. s - 1, Complete(r, m, k)
    PROVE  IF nacks = {} THEN k < r ELSE Num(k) \notin nacks
<1>1. nacks = {} => k < r
  BY DEF Complete
<1>2. ASSUME Num(k) \in nacks PROVE FALSE
  <2>1. PICK l \in r .. m - 1 : Num(k) = Num(l)
    BY <1>2, MissingNumbers
  <2>2. k = l
    <3>1. a <= r /\ m <= w /\ w <= s
      BY NumbersFit
    <3>2. k \in a .. s /\ l \in a .. s /\ k < s
      BY <3>1
    <3> QED BY <2>1, <3>2, SenderNumbers
  <2>3. rxon[Num(k)].complete
    BY <2>2 DEF Complete
  <2> QED BY <1>2, <2>2, <2>3, MissingNumbers
<1> QED BY <1>1, <1>2

\* A new STATUS PDU is about the numbers as they are now, and contradicts no
\* earlier one.
LEMMA SendStatusPduKeepsHistory ==
    ASSUME RlcInv,
           NEW a \in Nat, NEW r \in Nat, NEW m \in Nat, NEW w \in Nat,
           NEW s \in Nat, NEW start, NEW number, NEW from, NEW to,
           Tracks(a, r, m, w, s, start, number, from, to),
           NEW fit \in 1 .. Window, NEW kept \in BOOLEAN,
           SendStatusPdu(fit, kept)
    PROVE  HistoryInv'
<1>1. /\ Numbers(a, r, m, w, s) /\ Stream(s, start) /\ Buffers(a, s, start)
      /\ Segments /\ Data(r, w, s, start, number)
      /\ Entries(r, w, start) /\ Delivery(r, start) /\ Reordering(r, m, w)
      /\ Forgotten(a, r, m, s, from) /\ Statuses(a, r, m, s, from, to)
      /\ ~ rxon[Num(r)].complete
  BY DEF Tracks, Delivery
<1>2. PICK nacks : nacks = Fitting(fit)
  OBVIOUS
<1>3. PICK ack : ack = AckSn(Fitting(fit))
  OBVIOUS
<1>4. /\ status' = Transmit(status, [ack |-> ack, nacks |-> nacks], kept)
      /\ UNCHANGED <<vrR, vrMs, vrH, rxon, reorderingTimer, delivered>>
      /\ UNCHANGED <<bigEnough, submitted, sent, vtA, vtS, txed, retx, retxSeg>>
      /\ UNCHANGED data
  BY <1>2, <1>3 DEF SendStatusPdu, txVars
<1>5. fit \in Nat \ {0}
  BY WindowFits
<1>7. PICK t \in r .. m :
          /\ ack = Num(t)
          /\ nacks = {} => r = m
          /\ nacks = {} => r = t
          /\ nacks # {} => r < t /\ Num(r) \in nacks
          /\ \A k \in r .. t - 1 : Num(k) \notin nacks => rxon[Num(k)].complete
  <2>1. \E t \in r .. m :
            /\ AckSn(nacks) = Num(t)
            /\ nacks = {} => r = m
            /\ nacks = {} => r = t
            /\ nacks # {} => r < t /\ Num(r) \in nacks
            /\ \A k \in r .. t - 1 :
                   Num(k) \notin nacks => rxon[Num(k)].complete
    <3>1. Numbers(a, r, m, w, s) /\ ~ rxon[Num(r)].complete
      BY <1>1
    <3>2. nacks = Fitting(fit) /\ fit \in Nat \ {0}
      BY <1>2, <1>5
    <3> QED BY ONLY <3>1, <3>2, AckSnNumber, a \in Nat, r \in Nat, m \in Nat,
                   w \in Nat, s \in Nat, SMTT(60)
  <2>2. ack = AckSn(nacks)
    BY <1>2, <1>3
  <2>3. PICK t \in r .. m :
            /\ AckSn(nacks) = Num(t)
            /\ nacks = {} => r = m
            /\ nacks = {} => r = t
            /\ nacks # {} => r < t /\ Num(r) \in nacks
            /\ \A k \in r .. t - 1 :
                   Num(k) \notin nacks => rxon[Num(k)].complete
    BY <2>1
  <2>4. ack = Num(t)
    BY <2>2, <2>3
  <2> QED BY <2>3, <2>4
<1>8. \A k \in a .. s - 1 : Complete(r, m, k) =>
          IF nacks = {} THEN k < r ELSE Num(k) \notin nacks
  <2>1. nacks \in SUBSET Missing
    BY <1>2 DEF Fitting
  <2> QED BY <1>1, <1>7, <2>1, NewStatusIsSettled
<1>9. /\ Numbers(a, r, m, w, s)' /\ Stream(s, start)' /\ Buffers(a, s, start)'
      /\ Segments' /\ Data(r, w, s, start, number)'
      /\ Entries(r, w, start)' /\ Delivery(r, start)' /\ Reordering(r, m, w)'
  <2>1. Numbers(a, r, m, w, s)' /\ Buffers(a, s, start)' /\ Segments'
    BY <1>1, <1>4, NumbersFrame, BuffersFrame, SegmentsFrame
  <2>2. Data(r, w, s, start, number)' /\ Stream(s, start)'
    BY <1>1, <1>4, DataFrame DEF Stream
  <2>3. Entries(r, w, start)' /\ Delivery(r, start)' /\ Reordering(r, m, w)'
    BY <1>1, <1>4, ReceiverFrame
  <2> QED BY <2>1, <2>2, <2>3
<1>10. CASE ~ kept
  <2>1. UNCHANGED status
    BY <1>4, <1>10 DEF Transmit
  <2>2. \A l \in a .. s - 1 : Held(l) => Held(l)'
    BY <1>4 DEF Held
  <2>3. Forgotten(a, r, m, s, from)' /\ Statuses(a, r, m, s, from, to)'
    BY <1>1, <1>4, <2>1, <2>2, ForgottenFrame, StatusesFrame
  <2>4. Tracks(a, r, m, w, s, start, number, from, to)'
    BY <1>9, <2>3 DEF Tracks
  <2> QED BY <2>4 DEF HistoryInv
<1>11. CASE kept
  <2>1. /\ Len(status) \in Nat /\ Len(status') = Len(status) + 1
        /\ \A i \in 1 .. Len(status) : status'[i] = status[i]
        /\ status'[Len(status) + 1].ack = ack
        /\ status'[Len(status) + 1].nacks = nacks
    <3>1. status \in Seq(StatusPdu)
      BY DEF RlcInv, MacTypes
    <3>2. status' = Append(status, [ack |-> ack, nacks |-> nacks])
      BY <1>4, <1>11 DEF Transmit
    <3> QED BY <3>1, <3>2, AppendProperties
  <2>2. PICK last \in Nat \ {0} : last = Len(status) + 1
    BY <2>1
  <2>3. PICK f2 : f2 = [i \in Nat |-> IF i = last THEN r ELSE from[i]]
    OBVIOUS
  <2>4. PICK t2 : t2 = [i \in Nat |-> IF i = last THEN t ELSE to[i]]
    OBVIOUS
  <2>5. /\ \A i \in 1 .. Len(status) : f2[i] = from[i] /\ t2[i] = to[i]
        /\ f2[last] = r /\ t2[last] = t
    BY <2>1, <2>2, <2>3, <2>4
  <2>6. \A i \in 1 .. Len(status') : i \in 1 .. Len(status) \/ i = last
    BY <2>1, <2>2
  <2>7. ASSUME NEW i \in 1 .. Len(status), NEW k
        PROVE  /\ Settled(f2, i, k)' <=> Settled(from, i, k)
               /\ Acked(f2, t2, i, k)' <=> Acked(from, to, i, k)
    <3>1. status'[i] = status[i] /\ f2[i] = from[i] /\ t2[i] = to[i]
      BY <2>1, <2>5
    <3>2. Settled(f2, i, k)' <=> Settled(from, i, k)
      BY <3>1 DEF Settled
    <3>3. Acked(f2, t2, i, k)' <=> Acked(from, to, i, k)
      BY <3>1 DEF Acked
    <3> QED BY <3>2, <3>3
  <2>8. ASSUME NEW k \in a .. s - 1, Complete(r, m, k)
        PROVE  Settled(f2, last, k)'
    BY <1>8, <2>1, <2>2, <2>5, <2>8 DEF Settled
  <2>9. \A k : Complete(r, m, k)' = Complete(r, m, k)
    BY <1>4 DEF Complete
  <2>10. \A k : Held(k)' <=> Held(k)
    BY <1>4 DEF Held
  <2>11. Forgotten(a, r, m, s, f2)'
    <3>1. ASSUME NEW k \in a .. s - 1, ~ Held(k)'
          PROVE  /\ Complete(r, m, k)
                 /\ \A i \in 1 .. Len(status) : Settled(from, i, k)
      BY <1>1, <2>10, <3>1 DEF Forgotten
    <3>2. ASSUME NEW k \in a .. s - 1, ~ Held(k)', NEW i \in 1 .. Len(status')
          PROVE  Settled(f2, i, k)'
      BY <2>6, <2>7, <2>8, <3>1, <3>2
    <3> QED BY <2>9, <3>1, <3>2 DEF Forgotten
  <2>12. ASSUME NEW i \in 1 .. Len(status)
         PROVE  /\ f2[i] \in a .. r /\ t2[i] \in f2[i] .. m
                /\ status'[i].ack = Num(t2[i])
                /\ IF status'[i].nacks = {}
                       THEN f2[i] = t2[i]
                       ELSE f2[i] < t2[i] /\ Num(f2[i]) \in status'[i].nacks
                /\ \A k \in f2[i] .. t2[i] - 1 :
                       Num(k) \notin status'[i].nacks => Complete(r, m, k)
    <3>1. /\ from[i] \in a .. r /\ to[i] \in from[i] .. m
          /\ status[i].ack = Num(to[i])
          /\ IF status[i].nacks = {}
                 THEN from[i] = to[i]
                 ELSE from[i] < to[i] /\ Num(from[i]) \in status[i].nacks
          /\ \A k \in from[i] .. to[i] - 1 :
                 Num(k) \notin status[i].nacks => Complete(r, m, k)
      BY <1>1 DEF Statuses
    <3> QED BY <2>1, <2>5, <3>1
  <2>13. /\ f2[last] \in a .. r /\ t2[last] \in f2[last] .. m
         /\ status'[last].ack = Num(t2[last])
         /\ IF status'[last].nacks = {}
                THEN f2[last] = t2[last]
                ELSE f2[last] < t2[last] /\ Num(f2[last]) \in status'[last].nacks
         /\ \A k \in f2[last] .. t2[last] - 1 :
                Num(k) \notin status'[last].nacks => Complete(r, m, k)
    <3>1. r \in a .. r
      BY <1>1 DEF Numbers
    <3>2. \A k \in r .. t - 1 : Num(k) \notin nacks => Complete(r, m, k)
      <4>1. \A k \in r .. t - 1 : k < m
        OBVIOUS
      <4> QED BY <1>7, <4>1 DEF Complete
    <3>3. status'[last].ack = ack /\ status'[last].nacks = nacks
      BY <2>1, <2>2
    <3> QED BY <1>7, <2>5, <3>1, <3>2, <3>3
  <2>14. ASSUME NEW i \in 1 .. Len(status), NEW k \in a .. s - 1,
                Acked(from, to, i, k)
         PROVE  Complete(r, m, k)
    <3>1. /\ from[i] \in a .. r /\ to[i] \in from[i] .. m
          /\ \A l \in from[i] .. to[i] - 1 :
                 Num(l) \notin status[i].nacks => Complete(r, m, l)
      BY <1>1 DEF Statuses
    <3>2. CASE k < from[i]
      <4>1. k < r
        BY <3>1, <3>2
      <4> QED BY <4>1 DEF Complete
    <3>3. CASE ~ (k < from[i])
      <4>1. k < to[i] /\ Num(k) \notin status[i].nacks
        BY <2>14, <3>3 DEF Acked
      <4>2. k \in from[i] .. to[i] - 1
        BY <3>1, <3>3, <4>1
      <4> QED BY <3>1, <4>1, <4>2
    <3> QED BY <3>2, <3>3
  <2>15. ASSUME NEW i \in 1 .. Len(status'), NEW j \in i + 1 .. Len(status')
         PROVE  /\ f2[i] <= f2[j]
                /\ \A k \in a .. s - 1 :
                       Acked(f2, t2, i, k)' => Settled(f2, j, k)'
    <3>1. i \in 1 .. Len(status)
      BY <2>1
    <3>2. CASE j \in 1 .. Len(status)
      <4>1. j \in i + 1 .. Len(status)
        BY <2>1, <3>2
      <4>2. /\ from[i] <= from[j]
            /\ \A k \in a .. s - 1 : Acked(from, to, i, k) => Settled(from, j, k)
        BY <1>1, <3>1, <4>1 DEF Statuses
      <4> QED BY <2>5, <2>7, <3>1, <3>2, <4>2
    <3>3. CASE j = last
      <4>1. from[i] <= r
        BY <1>1, <3>1 DEF Statuses
      <4> QED BY <2>5, <2>7, <2>8, <2>14, <3>1, <3>3, <4>1
    <3> QED BY <2>1, <2>2, <3>1, <3>2, <3>3
  <2>16. Statuses(a, r, m, s, f2, t2)'
    BY <2>6, <2>9, <2>12, <2>13, <2>15 DEF Statuses
  <2>17. Tracks(a, r, m, w, s, start, number, f2, t2)'
    BY <1>9, <2>11, <2>16 DEF Tracks
  <2> QED BY <2>17 DEF HistoryInv
<1> QED BY <1>10, <1>11

\* What FlattenSeq computes satisfies the equation that defines it.
LEMMA FlattenEquation ==
    ASSUME NEW seqs, Len(seqs) # 0,
           NEW g, g = [i \in 1 .. Len(seqs) |->
                         IF i = 1 THEN seqs[i] ELSE g[i - 1] \o seqs[i]]
    PROVE  \E f : /\ f = [i \in 1 .. Len(seqs) |->
                            IF i = 1 THEN seqs[i] ELSE f[i - 1] \o seqs[i]]
                  /\ FlattenSeq(seqs) = f[Len(seqs)]
<1> DEFINE Eq(f) == f = [i \in 1 .. Len(seqs) |->
                            IF i = 1 THEN seqs[i] ELSE f[i - 1] \o seqs[i]]
<1>1. Eq(CHOOSE f : Eq(f))
  <2>1. Eq(g)
    OBVIOUS
  <2> HIDE DEF Eq
  <2> QED BY <2>1
<1>2. FlattenSeq(seqs) = (CHOOSE f : Eq(f))[Len(seqs)]
  BY DEF FlattenSeq
<1> QED BY <1>1, <1>2

\* The bytes from x up to y.
Run(x, y) == [b \in 1 .. y - x |-> x + b - 1]

\* The bytes from 1 up to x.
LEMMA RunFromOne ==
    ASSUME NEW y \in Nat
    PROVE  Run(1, y) = [b \in 1 .. y - 1 |-> b]
  BY DEF Run

\* Two runs of bytes, one after the other, are one run.
LEMMA RunsJoin ==
    ASSUME NEW x \in Nat, NEW y \in Nat, NEW z \in Nat, x <= y, y <= z
    PROVE  Run(x, y) \o Run(y, z) = Run(x, z)
<1>1. /\ Run(x, y) \in Seq(Int) /\ Len(Run(x, y)) = y - x
      /\ \A b \in 1 .. y - x : Run(x, y)[b] = x + b - 1
  BY DEF Run
<1>2. /\ Run(y, z) \in Seq(Int) /\ Len(Run(y, z)) = z - y
      /\ \A b \in 1 .. z - y : Run(y, z)[b] = y + b - 1
  BY DEF Run
<1>3. /\ Run(x, z) \in Seq(Int) /\ Len(Run(x, z)) = z - x
      /\ \A b \in 1 .. z - x : Run(x, z)[b] = x + b - 1
  BY DEF Run
<1>4. PICK p : p = Run(x, y)
  OBVIOUS
<1>5. PICK q : q = Run(y, z)
  OBVIOUS
<1>6. /\ p \o q \in Seq(Int) /\ Len(p \o q) = z - x
      /\ \A b \in 1 .. z - x : (p \o q)[b] = x + b - 1
  <2>1. /\ p \o q \in Seq(Int) /\ Len(p \o q) = Len(p) + Len(q)
        /\ \A b \in 1 .. Len(p) + Len(q) :
               (p \o q)[b] = IF b <= Len(p) THEN p[b] ELSE q[b - Len(p)]
    BY <1>1, <1>2, <1>4, <1>5, ConcatProperties
  <2>2. /\ Len(p) = y - x /\ Len(q) = z - y
        /\ \A b \in 1 .. y - x : p[b] = x + b - 1
        /\ \A b \in 1 .. z - y : q[b] = y + b - 1
    BY <1>1, <1>2, <1>4, <1>5
  <2>3. ASSUME NEW b \in 1 .. z - x PROVE (p \o q)[b] = x + b - 1
    <3>1. CASE b <= y - x
      BY <2>1, <2>2, <3>1
    <3>2. CASE ~ (b <= y - x)
      <4>1. (p \o q)[b] = q[b - (y - x)]
        BY <2>1, <2>2, <3>2
      <4>2. b - (y - x) \in 1 .. z - y
        BY <3>2
      <4>3. q[b - (y - x)] = y + (b - (y - x)) - 1
        BY <2>2, <4>2
      <4> QED BY <4>1, <4>3
    <3> QED BY <3>1, <3>2
  <2>4. p \o q \in Seq(Int) /\ Len(p \o q) = z - x
    BY <2>1, <2>2
  <2> QED BY <2>3, <2>4
<1>7. p \o q = Run(x, z)
  BY <1>3, <1>6, SeqEqual
<1> QED BY <1>4, <1>5, <1>7

\* Pieces of a stream that follow one another make one piece of it.
LEMMA FlattenStream ==
    ASSUME NEW n \in Nat, NEW cut, NEW seqs, NEW S, seqs \in Seq(S),
           Len(seqs) = n,
           \A i \in 0 .. n : cut[i] \in Nat,
           \A i \in 0 .. n : cut[0] <= cut[i],
           \A i \in 1 .. n : cut[i - 1] <= cut[i],
           \A i \in 1 .. n : seqs[i] = Run(cut[i - 1], cut[i])
    PROVE  FlattenSeq(seqs) = Run(cut[0], cut[n])
<1>1. CASE n = 0
  <2>1. FlattenSeq(seqs) = seqs
    BY <1>1 DEF FlattenSeq
  <2>2. seqs = << >>
    BY <1>1, EmptySeq
  <2>3. PICK x \in Nat : x = cut[0] /\ x = cut[n]
    BY <1>1
  <2>4. Run(x, x) = << >>
    BY DEF Run
  <2> QED BY <2>1, <2>2, <2>3, <2>4
<1>2. CASE n # 0
  <2>1. PICK x : x = cut[0]
    OBVIOUS
  <2>2. PICK g : g = [i \in 1 .. n |-> Run(x, cut[i])]
    OBVIOUS
  <2>3. ASSUME NEW i \in 1 .. n
        PROVE  g[i] = IF i = 1 THEN seqs[i] ELSE g[i - 1] \o seqs[i]
    <3>1. g[i] = Run(x, cut[i])
      BY <2>2
    <3>2. seqs[i] = Run(cut[i - 1], cut[i])
      OBVIOUS
    <3>3. CASE i = 1
      BY <2>1, <3>1, <3>2, <3>3
    <3>4. CASE i # 1
      <4>1. i - 1 \in 1 .. n /\ i - 1 \in 0 .. n /\ i \in 0 .. n /\ 0 \in 0 .. n
        BY <3>4
      <4>2. g[i - 1] = Run(x, cut[i - 1])
        BY <2>2, <4>1
      <4>3. x \in Nat
        BY <2>1, <4>1
      <4>4. PICK y \in Nat : y = cut[i - 1]
        BY <4>1
      <4>5. PICK z \in Nat : z = cut[i]
        BY <4>1
      <4>6. x <= y /\ y <= z
        BY <2>1, <4>1, <4>4, <4>5
      <4>7. Run(x, y) \o Run(y, z) = Run(x, z)
        BY <4>3, <4>6, RunsJoin
      <4> QED BY <3>1, <3>2, <3>4, <4>2, <4>4, <4>5, <4>7
    <3> QED BY <3>3, <3>4
  <2>4. g = [i \in 1 .. Len(seqs) |->
                IF i = 1 THEN seqs[i] ELSE g[i - 1] \o seqs[i]]
    <3>1. g = [i \in 1 .. Len(seqs) |-> g[i]]
      BY <2>2
    <3> QED BY <2>3, <3>1
  <2>5. PICK f : /\ f = [i \in 1 .. Len(seqs) |->
                            IF i = 1 THEN seqs[i] ELSE f[i - 1] \o seqs[i]]
                 /\ FlattenSeq(seqs) = f[Len(seqs)]
    BY <1>2, <2>4, FlattenEquation
  <2>6. ASSUME NEW i \in 1 .. n
        PROVE  f[i] = IF i = 1 THEN seqs[i] ELSE f[i - 1] \o seqs[i]
    BY <2>5
  <2>7. {i \in 1 .. n : f[i] # g[i]} = {}
    <3>1. SUFFICES ASSUME {i \in 1 .. n : f[i] # g[i]} # {} PROVE FALSE
      OBVIOUS
    <3>2. PICK i \in {j \in 1 .. n : f[j] # g[j]} :
              \A k \in {j \in 1 .. n : f[j] # g[j]} : i <= k
      <4>1. {j \in 1 .. n : f[j] # g[j]} \subseteq Nat
        OBVIOUS
      <4> QED BY <3>1, <4>1, LeastNatural
    <3>3. CASE i = 1
      BY <2>3, <2>6, <3>2, <3>3
    <3>4. CASE i # 1
      <4>1. i - 1 \in 1 .. n /\ ~ (i <= i - 1)
        BY <3>4
      <4>2. f[i - 1] = g[i - 1]
        BY <3>2, <4>1
      <4>3. f[i] = f[i - 1] \o seqs[i] /\ g[i] = g[i - 1] \o seqs[i]
        BY <2>3, <2>6, <3>4
      <4> QED BY <3>2, <4>2, <4>3
    <3> QED BY <3>3, <3>4
  <2>8. n \in 1 .. n
    BY <1>2
  <2>9. f[n] = g[n]
    BY <2>7, <2>8
  <2> QED BY <2>1, <2>2, <2>5, <2>8, <2>9
<1> QED BY <1>1, <1>2

\* The i-th data PDU in flight, which carries PDU n, leaves the MAC.
Received(i, number, n) ==
    /\ Arrives(i) /\ n = number[i]
    /\ data' = RemoveAt([j \in 1 .. Len(data) |->
                           IF j < i THEN [data[j] EXCEPT !.overtaken = @ + 1]
                                    ELSE data[j]], i)

\* PDU n is the only one that the receiver gets.
OnlyReceives(r, w, r2, w2, n) ==
    \A x \in Nat : Late(r2, w2, x)' \subseteq Late(r, w, x) \union {n}

\* The PDUs that stay in flight when the i-th arrives: those before it have
\* been overtaken once more, those after it move up.
LEMMA RemainingData ==
    ASSUME data \in Seq(AnyDataPdu), NEW i \in 1 .. Len(data),
           NEW number, NEW k, Received(i, number, k)
    PROVE  /\ Len(data') = Len(data) - 1
           /\ \A j \in 1 .. i - 1 :
                  data'[j] = [data[j] EXCEPT !.overtaken = @ + 1]
           /\ \A j \in i .. Len(data) - 1 : data'[j] = data[j + 1]
<1>1. Len(data) \in Nat
  OBVIOUS
<1>2. PICK aged : aged = [j \in 1 .. Len(data) |->
                            IF j < i THEN [data[j] EXCEPT !.overtaken = @ + 1]
                                     ELSE data[j]]
  OBVIOUS
<1>3. /\ \A j \in 1 .. i - 1 : aged[j] = [data[j] EXCEPT !.overtaken = @ + 1]
      /\ \A j \in i .. Len(data) : aged[j] = data[j]
  BY <1>1, <1>2
<1>4. aged \in Seq(AnyDataPdu) /\ Len(aged) = Len(data)
  <2>1. ASSUME NEW j \in 1 .. Len(data)
        PROVE  /\ data[j] \in AnyDataPdu
               /\ [data[j] EXCEPT !.overtaken = @ + 1] \in AnyDataPdu
    <3>1. data[j] \in AnyDataPdu
      BY ElementOfSeq
    <3>2. PICK pdu \in AnyDataPdu : pdu = data[j]
      BY <3>1
    <3>3. [pdu EXCEPT !.overtaken = @ + 1] \in AnyDataPdu
      BY ONLY pdu \in AnyDataPdu DEF AnyDataPdu
    <3> QED BY <3>2, <3>3
  <2>2. aged \in [1 .. Len(data) -> AnyDataPdu]
    BY <1>2, <2>1
  <2> QED BY <1>1, <2>2
<1>5. PICK n : n = Len(data)
  OBVIOUS
<1>6. n \in Nat /\ i \in 1 .. n /\ Len(aged) = n
  BY <1>1, <1>4, <1>5
<1>7. PICK before : before = SubSeq(aged, 1, i - 1)
  OBVIOUS
<1>8. PICK after : after = SubSeq(aged, i + 1, n)
  OBVIOUS
<1>9. /\ before \in Seq(AnyDataPdu) /\ Len(before) = i - 1
      /\ \A j \in 1 .. i - 1 : before[j] = aged[j]
  BY <1>4, <1>6, <1>7
<1>10. /\ after \in Seq(AnyDataPdu) /\ Len(after) = n - i
       /\ \A j \in 1 .. n - i : after[j] = aged[i + j]
  BY <1>4, <1>6, <1>8
<1>11. data' = before \o after
  BY <1>2, <1>6, <1>7, <1>8 DEF Received, RemoveAt
<1>12. /\ Len(data') = Len(before) + Len(after)
       /\ \A j \in 1 .. Len(before) + Len(after) :
              data'[j] = IF j <= Len(before) THEN before[j]
                                             ELSE after[j - Len(before)]
  <2>1. /\ Len(before \o after) = Len(before) + Len(after)
        /\ \A j \in 1 .. Len(before) + Len(after) :
               (before \o after)[j] = IF j <= Len(before) THEN before[j]
                                             ELSE after[j - Len(before)]
    BY ONLY <1>9, <1>10, ConcatProperties
  <2> QED BY ONLY <1>11, <2>1
<1>13. Len(data') = n - 1
  BY <1>6, <1>9, <1>10, <1>12
<1>14. ASSUME NEW j \in 1 .. i - 1
       PROVE  data'[j] = [data[j] EXCEPT !.overtaken = @ + 1]
  <2>1. j \in 1 .. Len(before) + Len(after) /\ j <= Len(before)
    BY <1>6, <1>9, <1>10
  <2>2. data'[j] = before[j]
    BY <1>12, <2>1
  <2> QED BY <1>3, <1>9, <2>2
<1>15. ASSUME NEW j \in i .. n - 1 PROVE data'[j] = data[j + 1]
  <2>1. /\ j \in 1 .. Len(before) + Len(after) /\ ~ (j <= Len(before))
        /\ j - Len(before) = j - (i - 1)
    BY <1>6, <1>9, <1>10
  <2>2. data'[j] = after[j - (i - 1)]
    BY <1>12, <2>1
  <2>3. j - (i - 1) \in 1 .. n - i /\ i + (j - (i - 1)) = j + 1
    BY <1>6
  <2>4. after[j - (i - 1)] = aged[j + 1]
    BY <1>10, <2>3
  <2>5. j + 1 \in i .. Len(data)
    BY <1>5, <1>6
  <2> QED BY <1>3, <2>2, <2>4, <2>5
<1> QED BY <1>5, <1>13, <1>14, <1>15

\* The numbers that have overtaken a PDU are finitely many.
LEMMA LateIsFinite ==
    ASSUME NEW r, NEW w \in Nat, NEW n \in Nat
    PROVE  /\ IsFiniteSet(Late(r, w, n)) /\ Cardinality(Late(r, w, n)) \in Nat
           /\ IsFiniteSet(Late(r, w, n)') /\ Cardinality(Late(r, w, n)') \in Nat
<1>1. IsFiniteSet(n + Window .. w - 1)
  BY WindowFits, FS_Interval
<1>2. /\ Late(r, w, n) \in SUBSET (n + Window .. w - 1)
      /\ Late(r, w, n)' \in SUBSET (n + Window .. w - 1)
  BY DEF Late
<1>3. IsFiniteSet(Late(r, w, n)) /\ IsFiniteSet(Late(r, w, n)')
  BY <1>1, <1>2, FS_Subset
<1> QED BY <1>3, FS_CardinalityType

\* A data PDU that arrives is inside the receiving window exactly when its
\* number has not been delivered: one from an earlier turn of the numbers
\* would have been overtaken by too many.
LEMMA InsideIsExpected ==
    ASSUME NEW a \in Nat, NEW r \in Nat, NEW m \in Nat, NEW w \in Nat,
           NEW s \in Nat, Numbers(a, r, m, w, s), NEW n \in Nat, n < s,
           Cardinality(Late(r, w, n)) <= Overtakes
    PROVE  /\ n < r + Window
           /\ InsideReceivingWindow(Num(n)) <=> r <= n
<1>1. /\ Window \in Nat \ {0} /\ Overtakes \in Nat
      /\ 2 * Window + Overtakes <= Modulus /\ Window < Modulus
      /\ r <= w /\ s - r <= Window
  <2>1. /\ Window \in Nat \ {0} /\ Overtakes \in Nat
        /\ 2 * Window + Overtakes <= Modulus /\ Window < Modulus
        /\ r <= m /\ m <= w /\ s - r <= Window
    BY NumbersFit
  <2> QED BY <2>1
<1>2. n < r + Window
  BY <1>1
<1>3. vrR = Num(r)
  BY DEF Numbers
<1>4. ASSUME r <= n PROVE InsideReceivingWindow(Num(n))
  <2>1. Dist(Num(r), Num(n)) = n - r
    BY <1>1, <1>4, NumDist
  <2>2. n - r < Window
    BY <1>1
  <2> QED BY <1>3, <2>1, <2>2 DEF InsideReceivingWindow
<1>5. ASSUME n < r PROVE ~ InsideReceivingWindow(Num(n))
  <2>1. r <= n + Window + Overtakes
    <3>1. SUFFICES ASSUME n + Window + Overtakes < r PROVE FALSE
      BY <1>1
    <3>2. PICK x \in Nat : x = n + Window
      BY <1>1
    <3>3. x .. x + Overtakes \in SUBSET Late(r, w, n)
      <4>1. ASSUME NEW k \in x .. x + Overtakes
            PROVE  k \in n + Window .. w - 1 /\ k < r
        BY <1>1, <3>1, <3>2
      <4> QED BY <4>1 DEF Late
    <3>4. Cardinality(x .. x + Overtakes) = Overtakes + 1
      BY <1>1, FS_Interval
    <3>5. IsFiniteSet(Late(r, w, n)) /\ Cardinality(Late(r, w, n)) \in Nat
      BY LateIsFinite
    <3>6. Cardinality(x .. x + Overtakes) <= Cardinality(Late(r, w, n))
      BY <3>3, <3>5, FS_Subset
    <3> QED BY <1>1, <3>4, <3>5, <3>6
  <2>2. r - n < Modulus
    BY <1>1, <2>1
  <2>3. Dist(Num(r), Num(n)) = Modulus - (r - n)
    <3>1. Dist(Num(r), Num(n)) = Modulus - (r - n)
      BY <1>5, <2>2, NumDistBack
    <3> QED BY <3>1
  <2>4. ~ (Modulus - (r - n) < Window)
    BY <1>1, <2>1
  <2> QED BY <1>3, <2>3, <2>4 DEF InsideReceivingWindow
<1>6. r <= n \/ n < r
  OBVIOUS
<1>7. InsideReceivingWindow(Num(n)) <=> r <= n
  BY <1>4, <1>5, <1>6
<1> QED BY <1>2, <1>7

\* A data PDU that arrives has a number from the window of the receiver, or
\* one below it, which the receiver takes for what it is.
LEMMA ArrivedNumber ==
    ASSUME NEW a \in Nat, NEW r \in Nat, NEW m \in Nat, NEW w \in Nat,
           NEW s \in Nat, Numbers(a, r, m, w, s),
           NEW start, NEW number, Data(r, w, s, start, number),
           NEW i \in 1 .. Len(data)
    PROVE  \E n \in Nat :
               /\ n = number[i] /\ n < s /\ n < r + Window
               /\ Carries(s, start, data[i], n) /\ data[i].sn = Num(n)
               /\ InsideReceivingWindow(data[i].sn) <=> r <= n
<1>1. PICK n : n = number[i]
  OBVIOUS
<1>2. /\ Carries(s, start, data[i], n)
      /\ data[i].overtaken \in 0 .. Overtakes
      /\ Cardinality(Late(r, w, n)) <= data[i].overtaken
  BY <1>1 DEF Data
<1>3. n \in 0 .. s - 1 /\ data[i].sn = Num(n)
  BY <1>2 DEF Carries
<1>4. n \in Nat /\ n < s
  BY <1>3
<1>5. Cardinality(Late(r, w, n)) <= Overtakes
  <2>1. Cardinality(Late(r, w, n)) \in Nat
    BY <1>4, LateIsFinite
  <2>2. Overtakes \in Nat
    BY NumbersFit
  <2> QED BY <1>2, <2>1, <2>2
<1>6. n < r + Window
  BY <1>4, <1>5, InsideIsExpected
<1>7. InsideReceivingWindow(Num(n)) <=> r <= n
  BY <1>4, <1>5, InsideIsExpected
<1> QED BY <1>1, <1>2, <1>3, <1>4, <1>6, <1>7

\* The PDUs in flight after number n has been received: it may be late for
\* those sent before it, and for no other.
LEMMA ReceptionKeepsData ==
    ASSUME data \in Seq(AnyDataPdu),
           NEW r \in Nat, NEW w \in Nat, NEW s \in Nat, NEW r2 \in Nat,
           NEW w2 \in Nat, NEW start, NEW number,
           Data(r, w, s, start, number),
           NEW i \in 1 .. Len(data), NEW n \in Nat, Received(i, number, n),
           OnlyReceives(r, w, r2, w2, n)
    PROVE  \E new : Data(r2, w2, s, start, new)'
<1>1. /\ Len(data') = Len(data) - 1
      /\ \A j \in 1 .. i - 1 : data'[j] = [data[j] EXCEPT !.overtaken = @ + 1]
      /\ \A j \in i .. Len(data) - 1 : data'[j] = data[j + 1]
  BY RemainingData
<1>2. Len(data) \in Nat
  OBVIOUS
<1>3. PICK new : new = [j \in Nat |-> IF j < i THEN number[j] ELSE number[j + 1]]
  OBVIOUS
<1>4. /\ \A j \in 1 .. i - 1 : new[j] = number[j]
      /\ \A j \in i .. Len(data) - 1 : new[j] = number[j + 1]
  <2>1. \A j \in Nat : new[j] = IF j < i THEN number[j] ELSE number[j + 1]
    BY <1>3
  <2>2. ASSUME NEW j \in 1 .. i - 1 PROVE new[j] = number[j]
    <3>1. j \in Nat /\ j < i
      BY <1>2
    <3> QED BY <2>1, <3>1
  <2>3. ASSUME NEW j \in i .. Len(data) - 1 PROVE new[j] = number[j + 1]
    <3>1. j \in Nat /\ ~ (j < i)
      BY <1>2
    <3> QED BY <2>1, <3>1
  <2> QED BY <2>2, <2>3
<1>5. ASSUME NEW j \in 1 .. Len(data)
      PROVE  /\ Carries(s, start, data[j], number[j])
             /\ data[j].overtaken \in 0 .. Overtakes
             /\ Cardinality(Late(r, w, number[j])) <= data[j].overtaken
             /\ \A k \in 1 .. j - 1 : number[k] < number[j] + Window
             /\ number[j] \in Nat
  <2>1. /\ Carries(s, start, data[j], number[j])
        /\ data[j].overtaken \in 0 .. Overtakes
        /\ Cardinality(Late(r, w, number[j])) <= data[j].overtaken
        /\ \A k \in 1 .. j - 1 : number[k] < number[j] + Window
    BY DEF Data
  <2>2. number[j] \in Nat
    BY <2>1 DEF Carries
  <2> QED BY <2>1, <2>2
<1>6. ASSUME NEW j \in 1 .. i - 1
      PROVE  /\ Carries(s, start, data'[j], new[j])
             /\ data'[j].overtaken \in 0 .. Overtakes
             /\ Cardinality(Late(r2, w2, new[j])') <= data'[j].overtaken
             /\ \A k \in 1 .. j - 1 : new[k] < new[j] + Window
  <2>1. j \in 1 .. Len(data)
    BY <1>2
  <2>2. data[j] \in AnyDataPdu
    BY <2>1, ElementOfSeq
  <2>3. /\ data'[j].sn = data[j].sn /\ data'[j].pdu = data[j].pdu
        /\ data'[j].offset = data[j].offset /\ data'[j].len = data[j].len
        /\ data'[j].last = data[j].last /\ data'[j].segment = data[j].segment
        /\ data'[j].overtaken = data[j].overtaken + 1
    <3>1. PICK pdu \in AnyDataPdu : pdu = data[j]
      BY <2>2
    <3>2. PICK aged : aged = [pdu EXCEPT !.overtaken = @ + 1]
      OBVIOUS
    <3>3. /\ aged.sn = pdu.sn /\ aged.pdu = pdu.pdu
          /\ aged.offset = pdu.offset /\ aged.len = pdu.len
          /\ aged.last = pdu.last /\ aged.segment = pdu.segment
          /\ aged.overtaken = pdu.overtaken + 1
      BY ONLY pdu \in AnyDataPdu, <3>2 DEF AnyDataPdu
    <3>4. data'[j] = aged
      BY <1>1, <3>1, <3>2
    <3> QED BY <3>1, <3>3, <3>4
  <2>4. PICK x \in Nat : x = number[j]
    BY <1>5, <2>1
  <2>5. new[j] = x
    BY <1>4, <2>4
  <2>6. Carries(s, start, data'[j], x)
    <3>1. Carries(s, start, data[j], x)
      BY <1>5, <2>1, <2>4
    <3> QED BY <2>3, <3>1 DEF Carries
  <2>7. data[j].overtaken \in Nat /\ data[j].overtaken < Overtakes
    <3>1. data[j].overtaken \in 0 .. Overtakes
      BY <1>5, <2>1
    <3> QED BY <3>1 DEF Arrives, Received
  <2>8. data'[j].overtaken \in 0 .. Overtakes
    <3>1. Overtakes \in Nat
      BY RlcAssumption
    <3>2. PICK o : o = data[j].overtaken
      OBVIOUS
    <3>3. o \in Nat /\ o < Overtakes /\ data'[j].overtaken = o + 1
      BY <2>3, <2>7, <3>2
    <3>4. o + 1 \in 0 .. Overtakes
      BY <3>1, <3>3
    <3> QED BY <3>3, <3>4
  <2>9. Cardinality(Late(r2, w2, x)') <= Cardinality(Late(r, w, x)) + 1
    <3>1. IsFiniteSet(Late(r, w, x)) /\ Cardinality(Late(r, w, x)) \in Nat
          /\ Cardinality(Late(r2, w2, x)') \in Nat
      BY LateIsFinite
    <3>2. /\ IsFiniteSet(Late(r, w, x) \union {n})
          /\ Cardinality(Late(r, w, x) \union {n}) <= Cardinality(Late(r, w, x)) + 1
          /\ Cardinality(Late(r, w, x) \union {n}) \in Nat
      <4>1. IsFiniteSet(Late(r, w, x) \union {n})
        BY <3>1, FS_AddElement
      <4>2. \/ Cardinality(Late(r, w, x) \union {n}) = Cardinality(Late(r, w, x))
            \/ Cardinality(Late(r, w, x) \union {n})
                   = Cardinality(Late(r, w, x)) + 1
        BY <3>1, FS_AddElement
      <4> QED BY <3>1, <4>1, <4>2
    <3>3. Late(r2, w2, x)' \in SUBSET (Late(r, w, x) \union {n})
      BY DEF OnlyReceives
    <3>4. Cardinality(Late(r2, w2, x)') <= Cardinality(Late(r, w, x) \union {n})
      BY <3>2, <3>3, FS_Subset
    <3> QED BY <3>1, <3>2, <3>4
  <2>10. Cardinality(Late(r2, w2, x)') <= data'[j].overtaken
    <3>1. Cardinality(Late(r, w, x)) \in Nat /\ Cardinality(Late(r2, w2, x)') \in Nat
      BY LateIsFinite
    <3>2. Cardinality(Late(r, w, x)) <= data[j].overtaken
      BY <1>5, <2>1, <2>4
    <3> QED BY <2>3, <2>7, <2>9, <3>1, <3>2
  <2>11. ASSUME NEW k \in 1 .. j - 1 PROVE new[k] < x + Window
    <3>1. k \in 1 .. i - 1
      OBVIOUS
    <3>2. new[k] = number[k]
      BY <1>4, <3>1
    <3> QED BY <1>5, <2>1, <2>4, <3>2
  <2> QED BY <2>5, <2>6, <2>8, <2>10, <2>11
<1>7. ASSUME NEW j \in i .. Len(data) - 1
      PROVE  /\ Carries(s, start, data'[j], new[j])
             /\ data'[j].overtaken \in 0 .. Overtakes
             /\ Cardinality(Late(r2, w2, new[j])') <= data'[j].overtaken
             /\ \A k \in 1 .. j - 1 : new[k] < new[j] + Window
  <2>1. j + 1 \in 1 .. Len(data) /\ i \in 1 .. (j + 1) - 1
    BY <1>2
  <2>2. PICK x \in Nat : x = number[j + 1]
    BY <1>5, <2>1
  <2>3. new[j] = x /\ data'[j] = data[j + 1]
    BY <1>1, <1>4, <2>2
  <2>4. /\ Carries(s, start, data[j + 1], x)
        /\ data[j + 1].overtaken \in 0 .. Overtakes
        /\ Cardinality(Late(r, w, x)) <= data[j + 1].overtaken
        /\ \A k \in 1 .. (j + 1) - 1 : number[k] < x + Window
    BY <1>5, <2>1, <2>2
  <2>5. Late(r2, w2, x)' \in SUBSET Late(r, w, x)
    <3>1. number[i] = n
      BY DEF Received
    <3>2. n < x + Window
      BY <2>1, <2>4, <3>1
    <3>3. n \notin Late(r2, w2, x)'
      BY <3>2, WindowFits DEF Late
    <3> QED BY <3>3 DEF OnlyReceives
  <2>6. Cardinality(Late(r2, w2, x)') <= data[j + 1].overtaken
    <3>1. IsFiniteSet(Late(r, w, x)) /\ Cardinality(Late(r, w, x)) \in Nat
          /\ Cardinality(Late(r2, w2, x)') \in Nat
      BY LateIsFinite
    <3>2. Cardinality(Late(r2, w2, x)') <= Cardinality(Late(r, w, x))
      BY <2>5, <3>1, FS_Subset
    <3> QED BY <2>4, <3>1, <3>2
  <2>7. ASSUME NEW k \in 1 .. j - 1 PROVE new[k] < x + Window
    <3>1. CASE k < i
      <4>1. k \in 1 .. i - 1 /\ k \in 1 .. (j + 1) - 1
        BY <1>2, <3>1
      <4>2. new[k] = number[k]
        BY <1>4, <4>1
      <4> QED BY <2>4, <4>1, <4>2
    <3>2. CASE ~ (k < i)
      <4>1. k \in i .. Len(data) - 1 /\ k + 1 \in 1 .. (j + 1) - 1
        BY <1>2, <3>2
      <4>2. new[k] = number[k + 1]
        BY <1>4, <4>1
      <4> QED BY <2>4, <4>1, <4>2
    <3> QED BY <3>1, <3>2
  <2> QED BY <2>3, <2>4, <2>6, <2>7
<1>8. \A j \in 1 .. Len(data') : j \in 1 .. i - 1 \/ j \in i .. Len(data) - 1
  <2>1. PICK total \in Nat : total = Len(data)
    BY <1>2
  <2>2. Len(data') = total - 1
    BY <1>1, <2>1
  <2>3. \A j \in 1 .. total - 1 : j \in 1 .. i - 1 \/ j \in i .. total - 1
    BY <2>1
  <2> QED BY <2>1, <2>2, <2>3
<1>9. \A j \in 1 .. Len(data') :
          /\ Carries(s, start, data'[j], new[j])
          /\ data'[j].overtaken \in 0 .. Overtakes
          /\ Cardinality(Late(r2, w2, new[j])') <= data'[j].overtaken
          /\ \A k \in 1 .. j - 1 : new[k] < new[j] + Window
  BY <1>6, <1>7, <1>8
<1>10. Data(r2, w2, s, start, new)'
  BY <1>9 DEF Data, Carries
<1> QED BY <1>10

\* An entry holds the first bytes of a PDU of len bytes from first on, or all
\* of them.
Prefix(entry, first, len) ==
    /\ entry.bytes \in Seq(Nat) /\ entry.complete \in BOOLEAN
    /\ \A j \in 1 .. Len(entry.bytes) : entry.bytes[j] = first + j - 1
    /\ Len(entry.bytes) <= len
    /\ entry.complete => Len(entry.bytes) = len

\* No entry holds the first 0 bytes of a PDU.
LEMMA NoEntryIsPrefix ==
    ASSUME NEW first \in Nat, NEW len \in Nat
    PROVE  Prefix(NoEntry, first, len)
  BY DEF Prefix, NoEntry

\* The bytes of a data PDU.
LEMMA BytesOfType ==
    ASSUME NEW pdu, pdu.len \in Nat, pdu.offset \in Nat, pdu.pdu.from \in Nat \ {0}
    PROVE  /\ BytesOf(pdu) \in Seq(Nat) /\ Len(BytesOf(pdu)) = pdu.len
           /\ \A j \in 1 .. pdu.len :
                  BytesOf(pdu)[j] = pdu.pdu.from + pdu.offset + j - 1
<1>1. PICK len \in Nat : len = pdu.len
  OBVIOUS
<1>2. PICK x \in Nat : x = pdu.pdu.from + pdu.offset - 1
  OBVIOUS
<1>3. \A j \in 1 .. len : pdu.pdu.from + pdu.offset + j - 1 = x + j
  BY <1>2
<1>4. BytesOf(pdu) = [j \in 1 .. len |-> x + j]
  BY <1>1, <1>3 DEF BytesOf
<1>5. PICK q : q = [j \in 1 .. len |-> x + j]
  OBVIOUS
<1>6. q \in [1 .. len -> Nat]
  BY <1>5
<1>7. q \in Seq(Nat) /\ Len(q) = len
  BY <1>6
<1>8. \A j \in 1 .. len : q[j] = x + j
  BY <1>5
<1>9. BytesOf(pdu) = q
  BY <1>4, <1>5
<1>10. \A j \in 1 .. len : q[j] = pdu.pdu.from + pdu.offset + j - 1
  BY <1>3, <1>8
<1> QED BY <1>1, <1>7, <1>9, <1>10

\* What is placed is a prefix of its PDU again, and a complete entry stays as
\* it is.
LEMMA PlacedIsPrefix ==
    ASSUME NEW s \in Nat, NEW start, NEW pdu, NEW n \in Nat,
           Carries(s, start, pdu, n), NEW entry, entry = rxon[pdu.sn],
           NEW first \in Nat \ {0}, first = start[n],
           NEW len \in Nat, len = start[n + 1] - start[n],
           Prefix(entry, first, len)
    PROVE  /\ Prefix(Placed(pdu), first, len)
           /\ entry.complete => Placed(pdu) = entry
<1>1. /\ pdu.pdu.from = first /\ pdu.pdu.len = len
      /\ pdu.offset \in Nat /\ pdu.len \in Nat \ {0}
      /\ pdu.offset + pdu.len <= len
      /\ pdu.last <=> pdu.offset + pdu.len = len
      /\ ~ pdu.segment => pdu.offset = 0 /\ pdu.last
  BY DEF Carries, PduAt
<1>2. /\ BytesOf(pdu) \in Seq(Nat) /\ Len(BytesOf(pdu)) = pdu.len
      /\ \A j \in 1 .. pdu.len :
             BytesOf(pdu)[j] = first + pdu.offset + j - 1
  BY <1>1, BytesOfType
<1>3. /\ entry.bytes \in Seq(Nat) /\ entry.complete \in BOOLEAN
      /\ \A j \in 1 .. Len(entry.bytes) : entry.bytes[j] = first + j - 1
      /\ Len(entry.bytes) <= len /\ Len(entry.bytes) \in Nat
      /\ entry.complete => Len(entry.bytes) = len
  BY DEF Prefix
<1>4. CASE entry = NoEntry
  <2>1. Placed(pdu) = NewEntry(pdu) /\ ~ entry.complete
    BY <1>4 DEF Placed, NoEntry
  <2>2. CASE pdu.offset # 0
    <3>1. NewEntry(pdu) = NoEntry
      BY <2>2 DEF NewEntry
    <3> QED BY <2>1, <3>1, NoEntryIsPrefix
  <2>3. CASE pdu.offset = 0
    <3>1. NewEntry(pdu).bytes = BytesOf(pdu)
          /\ NewEntry(pdu).complete = ~ pdu.segment
      BY <2>3 DEF NewEntry
    <3>2. ~ pdu.segment => pdu.len = len
      BY <1>1, <2>3
    <3>3. pdu.len <= len
      BY <1>1, <2>3
    <3>4. \A j \in 1 .. pdu.len : BytesOf(pdu)[j] = first + j - 1
      BY <1>1, <1>2, <2>3
    <3>5. Prefix(NewEntry(pdu), first, len)
      BY <1>2, <3>1, <3>2, <3>3, <3>4 DEF Prefix
    <3> QED BY <2>1, <3>5
  <2> QED BY <2>2, <2>3
<1>5. CASE entry # NoEntry /\ ~ pdu.segment
  <2>1. Placed(pdu) = entry
    BY <1>5 DEF Placed
  <2> QED BY <2>1
<1>6. CASE entry # NoEntry /\ pdu.segment /\ pdu.offset = Len(entry.bytes)
  <2>1. Placed(pdu) = Joined(entry, pdu)
    BY <1>6 DEF Placed
  <2>2. ~ entry.complete
    BY <1>1, <1>3, <1>6
  <2>3. PICK all : all = entry.bytes \o BytesOf(pdu)
    OBVIOUS
  <2>4. Joined(entry, pdu).bytes = all
        /\ Joined(entry, pdu).complete = (entry.complete \/ pdu.last)
    BY <2>3 DEF Joined
  <2>5. /\ all \in Seq(Nat) /\ Len(all) = Len(entry.bytes) + pdu.len
        /\ \A j \in 1 .. Len(entry.bytes) + pdu.len :
               all[j] = IF j <= Len(entry.bytes) THEN entry.bytes[j]
                        ELSE BytesOf(pdu)[j - Len(entry.bytes)]
    <3>1. PICK p \in Seq(Nat) : p = entry.bytes
      BY <1>3
    <3>2. PICK q \in Seq(Nat) : q = BytesOf(pdu)
      BY <1>2
    <3>3. /\ p \o q \in Seq(Nat) /\ Len(p \o q) = Len(p) + Len(q)
          /\ \A j \in 1 .. Len(p) + Len(q) :
                 (p \o q)[j] = IF j <= Len(p) THEN p[j] ELSE q[j - Len(p)]
      BY ConcatProperties
    <3>4. all = p \o q /\ Len(q) = pdu.len
      BY <1>2, <2>3, <3>1, <3>2
    <3> QED BY ONLY <3>1, <3>2, <3>3, <3>4
  <2>6. PICK o \in Nat : o = pdu.offset
    BY <1>1
  <2>7. PICK l \in Nat : l = pdu.len
    BY <1>1
  <2>8. Len(entry.bytes) = o /\ Len(all) = o + l /\ o + l <= len
    BY <1>1, <1>6, <2>5, <2>6, <2>7
  <2>9. ASSUME NEW j \in 1 .. o + l PROVE all[j] = first + j - 1
    <3>1. CASE j <= o
      <4>1. all[j] = entry.bytes[j]
        BY <2>5, <2>7, <2>8, <3>1
      <4> QED BY <1>3, <2>8, <3>1, <4>1
    <3>2. CASE ~ (j <= o)
      <4>1. all[j] = BytesOf(pdu)[j - o]
        BY <2>5, <2>7, <2>8, <3>2
      <4>2. j - o \in 1 .. l
        BY <3>2
      <4>3. BytesOf(pdu)[j - o] = first + o + (j - o) - 1
        BY <1>2, <2>6, <2>7, <4>2
      <4> QED BY <4>1, <4>3
    <3> QED BY <3>1, <3>2
  <2>10. Joined(entry, pdu).complete => o + l = len
    BY <1>1, <2>2, <2>4, <2>6, <2>7
  <2>11. Joined(entry, pdu).complete \in BOOLEAN
    BY <2>2, <2>4, <1>1, <1>3
  <2>12. Prefix(Joined(entry, pdu), first, len)
    BY <2>4, <2>5, <2>8, <2>9, <2>10, <2>11 DEF Prefix
  <2> QED BY <2>1, <2>2, <2>12
<1>7. CASE entry # NoEntry /\ pdu.segment /\ pdu.offset # Len(entry.bytes)
  <2>1. Placed(pdu) = IF entry.complete THEN entry ELSE NoEntry
    BY <1>7 DEF Placed
  <2>2. Prefix(NoEntry, first, len)
    BY NoEntryIsPrefix
  <2> QED BY <2>1, <2>2
<1> QED BY <1>4, <1>5, <1>6, <1>7

\* The receiver has nothing from VR(H) on.
LEMMA NothingAbove ==
    ASSUME ReceiverInv,
           NEW a \in Nat, NEW r \in Nat, NEW m \in Nat, NEW w \in Nat,
           NEW s \in Nat, Numbers(a, r, m, w, s),
           NEW k \in Nat, w <= k, k < r + Modulus
    PROVE  rxon[Num(k)] = NoEntry
<1>1. r <= w /\ w - r < Modulus
  <2>1. /\ r <= m /\ m <= w /\ w - r <= Window /\ Window < Modulus
        /\ Window \in Nat
    BY NumbersFit
  <2> QED BY <2>1
<1>2. vrR = Num(r) /\ vrH = Num(w) /\ Num(k) \in SN
  BY NumType DEF Numbers
<1>3. \A l \in r .. r + Modulus - 1 : Num(l) \in Interval(Num(r), Num(w)) => l < w
  BY <1>1, NumInterval
<1>4. k \in r .. r + Modulus - 1 /\ ~ (k < w)
  BY <1>1
<1>5. Num(k) \in SN \ Interval(vrR, vrH)
  BY <1>2, <1>3, <1>4
<1> QED BY <1>5 DEF ReceiverInv, ReceiverOrder

\* All entries from VR(R) on are prefixes.
LEMMA EntriesArePrefixes ==
    ASSUME ReceiverInv,
           NEW a \in Nat, NEW r \in Nat, NEW m \in Nat, NEW w \in Nat,
           NEW s \in Nat, Numbers(a, r, m, w, s), NEW start, Stream(s, start),
           Entries(r, w, start), NEW k \in r .. s - 1
    PROVE  /\ Prefix(rxon[Num(k)], start[k], start[k + 1] - start[k])
           /\ start[k] \in Nat \ {0} /\ start[k + 1] - start[k] \in Nat
<1>1. k \in 0 .. s /\ k \in 0 .. s - 1
  OBVIOUS
<1>2. start[k] \in Nat \ {0}
  BY <1>1 DEF Stream
<1>3. start[k + 1] - start[k] \in 1 .. MaxPdu
  BY <1>1 DEF Stream
<1>4. start[k + 1] - start[k] \in Nat
  BY <1>3
<1>5. CASE k < w
  <2>1. k \in r .. w - 1
    BY <1>5
  <2> QED BY <1>2, <1>4, <2>1 DEF Entries, Prefix
<1>6. CASE ~ (k < w)
  <2>1. k < r + Modulus
    <3>1. s - r <= Window /\ Window < Modulus /\ Window \in Nat
      BY NumbersFit
    <3> QED BY <3>1
  <2>2. rxon[Num(k)] = NoEntry
    BY <1>6, <2>1, NothingAbove
  <2> QED BY <1>2, <1>4, <2>2, NoEntryIsPrefix
<1> QED BY <1>5, <1>6

\* The buffer with data PDU number n placed in it.
Buffered(buffer, n) ==
    /\ DOMAIN buffer = SN
    /\ \A sn \in SN : sn # Num(n) => buffer[sn] = rxon[sn]
    /\ rxon[Num(n)].complete => buffer[Num(n)] = rxon[Num(n)]

\* All its entries are prefixes of PDUs.
AllPrefixes(buffer, r, s, start) ==
    \A k \in r .. s - 1 :
        Prefix(buffer[Num(k)], start[k], start[k + 1] - start[k])

\* It is complete from number low up to number high.
CompleteUpTo(buffer, low, high) ==
    \A k \in low .. high - 1 : buffer[Num(k)].complete

\* VR(R), VR(MS) and VR(H) move on from r, m and w to r2, m2 and w2.
MovesOn(buffer, n, r, m, w, s, r2, m2, w2) ==
    /\ w2 = (IF n >= w THEN n + 1 ELSE w)
    /\ r <= r2 /\ r2 <= m2 /\ m <= m2 /\ m2 <= w2 /\ w <= w2 /\ w2 <= s
    /\ (IF Dist(vrR, Num(n)) >= Dist(vrR, vrH)
            THEN Succ(Num(n)) ELSE vrH) = Num(w2)
    /\ FirstFrom(vrMs, Incomplete(buffer)) = Num(m2)
    /\ (IF Num(n) = vrR THEN FirstFrom(vrR, Incomplete(buffer))
                        ELSE vrR) = Num(r2)
    /\ ~ buffer[Num(r2)].complete
    /\ CompleteUpTo(buffer, r, r2) /\ CompleteUpTo(buffer, m, m2)

\* With the data PDU placed, the entries still hold first bytes of their PDUs.
LEMMA PlacedIsBuffered ==
    ASSUME ReceiverInv,
           NEW a \in Nat, NEW r \in Nat, NEW m \in Nat, NEW w \in Nat,
           NEW s \in Nat, Numbers(a, r, m, w, s), NEW start, Stream(s, start),
           Entries(r, w, start), NEW n \in r .. s - 1, NEW pdu,
           Carries(s, start, pdu, n), NEW buffer,
           buffer = [rxon EXCEPT ![pdu.sn] = Placed(pdu)]
    PROVE  /\ Buffered(buffer, n)
           /\ AllPrefixes(buffer, r, s, start)
<1>1. /\ Prefix(rxon[Num(n)], start[n], start[n + 1] - start[n])
      /\ start[n] \in Nat \ {0} /\ start[n + 1] - start[n] \in Nat
  BY EntriesArePrefixes
<1>2. pdu.sn = Num(n) /\ Num(n) \in SN /\ n \in Nat
  BY NumType DEF Carries
<1>3. DOMAIN rxon = SN
  BY DEF ReceiverInv, ReceiverTypes
<1>4. PICK placed : placed = Placed(pdu)
  OBVIOUS
<1>5. PICK first \in Nat \ {0} : first = start[n]
  BY <1>1
<1>6. PICK len \in Nat : len = start[n + 1] - start[n]
  BY <1>1
<1>7. PICK entry : entry = rxon[pdu.sn]
  OBVIOUS
<1>8. Prefix(entry, first, len)
  BY <1>1, <1>2, <1>5, <1>6, <1>7
<1>9. Prefix(placed, first, len) /\ (entry.complete => placed = entry)
  <2>1. Prefix(Placed(pdu), first, len)
    BY <1>2, <1>5, <1>6, <1>7, <1>8, PlacedIsPrefix
  <2>2. entry.complete => Placed(pdu) = entry
    BY <1>2, <1>5, <1>6, <1>7, <1>8, PlacedIsPrefix
  <2> QED BY <1>4, <2>1, <2>2
<1>10. /\ buffer[Num(n)] = placed /\ DOMAIN buffer = SN
       /\ \A sn \in SN : sn # Num(n) => buffer[sn] = rxon[sn]
  BY <1>2, <1>3, <1>4
<1>11. Buffered(buffer, n)
  BY <1>2, <1>7, <1>9, <1>10 DEF Buffered
<1>12. ASSUME NEW k \in r .. s - 1
       PROVE  Prefix(buffer[Num(k)], start[k], start[k + 1] - start[k])
  <2>1. CASE Num(k) = Num(n)
    <3>1. k - n < Modulus /\ n - k < Modulus /\ k \in Nat
      <4>1. s - r <= Window /\ Window < Modulus /\ Window \in Nat
        BY NumbersFit
      <4> QED BY <4>1
    <3>2. k = n
      BY <1>2, <2>1, <3>1, NumSame
    <3> QED BY <1>5, <1>6, <1>9, <1>10, <3>2
  <2>2. CASE Num(k) # Num(n)
    <3>1. Num(k) \in SN
      BY NumType
    <3>2. buffer[Num(k)] = rxon[Num(k)]
      BY <1>10, <2>2, <3>1
    <3> QED BY <3>2, EntriesArePrefixes
  <2> QED BY <2>1, <2>2
<1> QED BY <1>11, <1>12 DEF AllPrefixes

\* VR(H), VR(MS) and VR(R) after data PDU number n has been placed.
LEMMA MovedNumbers ==
    ASSUME ReceiverInv,
           NEW a \in Nat, NEW r \in Nat, NEW m \in Nat, NEW w \in Nat,
           NEW s \in Nat, Numbers(a, r, m, w, s), ~ rxon[Num(r)].complete,
           NEW n \in r .. s - 1, NEW buffer, Buffered(buffer, n)
    PROVE  \E r2, m2, w2 \in Nat : MovesOn(buffer, n, r, m, w, s, r2, m2, w2)
<1>1. /\ r <= m /\ m <= w /\ w <= s /\ s - r <= Window /\ Window < Modulus
      /\ Window \in Nat \ {0} /\ n \in Nat
      /\ Dist(vrR, vrH) = w - r /\ vrR = Num(r) /\ vrMs = Num(m) /\ vrH = Num(w)
  BY NumbersFit DEF Numbers
<1>2. PICK w2 \in Nat : w2 = IF n >= w THEN n + 1 ELSE w
  BY <1>1
<1>3. w <= w2 /\ w2 <= s /\ n < w2
  BY <1>1, <1>2
<1>4. Dist(vrR, Num(n)) = n - r
  <2>1. r <= n /\ n - r < Modulus
    BY <1>1
  <2> QED BY <1>1, <2>1, NumDist
<1>5. (IF Dist(vrR, Num(n)) >= Dist(vrR, vrH)
           THEN Succ(Num(n)) ELSE vrH) = Num(w2)
  <2>1. Succ(Num(n)) = Num(n + 1)
    BY <1>1, NumSucc
  <2>2. CASE n >= w
    <3>1. Dist(vrR, Num(n)) >= Dist(vrR, vrH)
      BY <1>1, <1>4, <2>2
    <3> QED BY <1>2, <2>1, <2>2, <3>1
  <2>3. CASE ~ (n >= w)
    <3>1. ~ (Dist(vrR, Num(n)) >= Dist(vrR, vrH))
      BY <1>1, <1>4, <2>3
    <3> QED BY <1>1, <1>2, <2>3, <3>1
  <2> QED BY <2>2, <2>3
<1>6. PICK S : S = Incomplete(buffer)
  OBVIOUS
<1>7. /\ S \subseteq SN
      /\ \A k \in Nat : Num(k) \in S <=> ~ buffer[Num(k)].complete
  BY <1>6, NumType DEF Incomplete
<1>8. Num(w2) \in S
  <2>1. w2 < r + Modulus
    BY <1>1, <1>3
  <2>2. ~ rxon[Num(w2)].complete
    <3>1. rxon[Num(w2)] = NoEntry
      BY <1>3, <2>1, NothingAbove
    <3> QED BY <3>1 DEF NoEntry
  <2>3. Num(w2) # Num(n)
    <3>1. w2 - n < Modulus /\ n - w2 < Modulus /\ w2 # n
      BY <1>1, <1>3
    <3> QED BY <1>1, <3>1, NumSame
  <2>4. Num(w2) \in SN
    BY NumType
  <2>5. buffer[Num(w2)] = rxon[Num(w2)]
    BY <2>3, <2>4 DEF Buffered
  <2> QED BY <1>7, <2>2, <2>5
<1>9. PICK m2 \in m .. m + Modulus - 1 :
          /\ FirstFrom(Num(m), S) = Num(m2) /\ Num(m2) \in S
          /\ \A k \in m .. m2 - 1 : Num(k) \notin S
  <2>1. S # {}
    BY <1>8
  <2> QED BY <1>7, <2>1, NumFirst
<1>10. m <= m2 /\ m2 <= w2 /\ m2 \in Nat
  <2>1. ~ (w2 < m2)
    <3>1. w2 < m2 => w2 \in m .. m2 - 1
      BY <1>1, <1>3
    <3> QED BY <1>8, <1>9, <3>1
  <2> QED BY <1>9, <2>1
<1>11. PICK r2 \in Nat :
           /\ r <= r2 /\ r2 <= m2 /\ Num(r2) \in S
           /\ (IF Num(n) = vrR THEN FirstFrom(vrR, S) ELSE vrR) = Num(r2)
           /\ \A k \in r .. r2 - 1 : Num(k) \notin S
  <2>1. CASE Num(n) = vrR
    <3>1. PICK j \in r .. r + Modulus - 1 :
              /\ FirstFrom(Num(r), S) = Num(j) /\ Num(j) \in S
              /\ \A k \in r .. j - 1 : Num(k) \notin S
      <4>1. S # {}
        BY <1>8
      <4> QED BY <1>7, <4>1, NumFirst
    <3>2. ~ (m2 < j)
      <4>1. m2 < j => m2 \in r .. j - 1
        BY <1>1, <1>10
      <4> QED BY <1>9, <3>1, <4>1
    <3>3. j \in Nat /\ r <= j /\ j <= m2
      BY <1>10, <3>2
    <3> QED BY <1>1, <2>1, <3>1, <3>3
  <2>2. CASE Num(n) # vrR
    <3>1. Num(r) \in SN
      BY NumType
    <3>2. buffer[Num(r)] = rxon[Num(r)]
      BY <1>1, <2>2, <3>1 DEF Buffered
    <3>3. Num(r) \in S
      BY <1>7, <3>2
    <3>4. r <= r /\ r <= m2
      BY <1>1, <1>10
    <3>5. \A k \in r .. r - 1 : Num(k) \notin S
      OBVIOUS
    <3> QED BY <1>1, <2>2, <3>3, <3>4, <3>5
  <2> QED BY <2>1, <2>2
<1>12. /\ ~ buffer[Num(r2)].complete
       /\ \A k \in r .. r2 - 1 : buffer[Num(k)].complete
       /\ \A k \in m .. m2 - 1 : buffer[Num(k)].complete
  <2>1. \A k \in r .. r2 - 1 : k \in Nat
    OBVIOUS
  <2>2. \A k \in m .. m2 - 1 : k \in Nat
    OBVIOUS
  <2> QED BY <1>7, <1>9, <1>11, <2>1, <2>2
<1>13. FirstFrom(vrMs, Incomplete(buffer)) = Num(m2)
  BY <1>1, <1>6, <1>9
<1>14. (IF Num(n) = vrR THEN FirstFrom(vrR, Incomplete(buffer))
                        ELSE vrR) = Num(r2)
  BY <1>6, <1>11
<1>15. MovesOn(buffer, n, r, m, w, s, r2, m2, w2)
  BY <1>2, <1>3, <1>5, <1>10, <1>11, <1>12, <1>13, <1>14
     DEF MovesOn, CompleteUpTo
<1> QED BY <1>15

\* A complete entry holds the bytes of its PDU.
LEMMA CompletePrefix ==
    ASSUME NEW entry, NEW first \in Nat, NEW len \in Nat,
           Prefix(entry, first, len), entry.complete
    PROVE  entry.bytes = Run(first, first + len)
<1>1. PICK bytes : bytes = entry.bytes
  OBVIOUS
<1>2. /\ bytes \in Seq(Nat) /\ Len(bytes) = len
      /\ \A b \in 1 .. Len(bytes) : bytes[b] = first + b - 1
  BY <1>1 DEF Prefix
<1>3. bytes = [b \in 1 .. len |-> bytes[b]]
  BY <1>2, LenProperties
<1>4. (first + len) - first = len
  OBVIOUS
<1>5. Run(first, first + len) = [b \in 1 .. len |-> first + b - 1]
  BY <1>4 DEF Run
<1> QED BY <1>1, <1>2, <1>3, <1>5

\* What is delivered from VR(R) up to an incomplete number.
LEMMA BytesBetweenNumbers ==
    ASSUME NEW r \in Nat, NEW r2 \in Nat, NEW s \in Nat, r <= r2, r2 <= s,
           r2 - r < Modulus, NEW start, Stream(s, start), NEW buffer,
           AllPrefixes(buffer, r, s, start), CompleteUpTo(buffer, r, r2)
    PROVE  BytesBetween(buffer, Num(r), Num(r2)) = Run(start[r], start[r2])
<1>1. PICK count \in Nat : count = r2 - r
  OBVIOUS
<1>2. PICK cut : cut = [i \in Nat |-> start[r + i]]
  OBVIOUS
<1>3. PICK seqs : seqs = [i \in 1 .. count |-> buffer[Plus(Num(r), i - 1)].bytes]
  OBVIOUS
<1>4. \A i \in 0 .. count : r + i \in 0 .. s /\ i \in Nat
  BY <1>1
<1>5. \A i \in 0 .. count : cut[i] = start[r + i]
  BY <1>2, <1>4
<1>6. ASSUME NEW i \in 0 .. count PROVE cut[i] \in Nat /\ cut[0] <= cut[i]
  <2>1. start[r + i] \in Nat /\ start[r] \in Nat
    <3>1. r + i \in 0 .. s /\ r \in 0 .. s
      BY <1>4
    <3> QED BY <3>1 DEF Stream
  <2>2. cut[i] = start[r + i] /\ cut[0] = start[r + 0] /\ r + 0 = r
    BY <1>5
  <2>3. CASE i = 0
    BY <2>1, <2>2, <2>3
  <2>4. CASE i # 0
    <3>1. r + i \in 0 .. s /\ r \in 0 .. s /\ r < r + i
      BY <1>4, <2>4
    <3>2. start[r] < start[r + i]
      BY <3>1 DEF Stream
    <3> QED BY <2>1, <2>2, <3>2
  <2> QED BY <2>3, <2>4
<1>7. ASSUME NEW i \in 1 .. count
      PROVE  /\ seqs[i] = Run(cut[i - 1], cut[i])
             /\ cut[i - 1] <= cut[i] /\ seqs[i] \in Seq(Nat)
  <2>1. PICK k \in Nat : k = r + i - 1
    OBVIOUS
  <2>2. /\ k \in r .. s - 1 /\ k \in r .. r2 - 1 /\ k \in 0 .. s - 1
        /\ k \in 0 .. s /\ i - 1 \in 0 .. count /\ i \in 0 .. count
        /\ r + (i - 1) = k /\ r + i = k + 1 /\ i - 1 \in Nat /\ i - 1 < Modulus
    BY <1>1, <2>1
  <2>3. cut[i - 1] = start[k] /\ cut[i] = start[k + 1]
    BY <1>5, <2>2
  <2>4. Plus(Num(r), i - 1) = Num(k)
    <3>1. Plus(Num(r), i - 1) = Num(r + (i - 1))
      BY <2>2, NumPlus
    <3> QED BY <2>2, <3>1
  <2>5. seqs[i] = buffer[Num(k)].bytes
    BY <1>3, <2>4
  <2>6. start[k + 1] - start[k] \in 1 .. MaxPdu
    BY <2>2 DEF Stream
  <2>7. PICK first \in Nat : first = start[k]
    BY <2>2 DEF Stream
  <2>8. PICK len \in Nat : len = start[k + 1] - start[k]
    BY <2>6
  <2>9. Prefix(buffer[Num(k)], first, len) /\ buffer[Num(k)].complete
    BY <2>2, <2>7, <2>8 DEF AllPrefixes, CompleteUpTo
  <2>10. buffer[Num(k)].bytes = Run(cut[i - 1], cut[i])
    <3>1. buffer[Num(k)].bytes = Run(first, first + len)
      BY <2>9, CompletePrefix
    <3>2. cut[i - 1] \in Nat /\ cut[i] \in Nat
      BY <1>6, <2>2
    <3>3. first = cut[i - 1] /\ first + len = cut[i]
      BY <2>3, <2>7, <2>8, <3>2
    <3> QED BY <3>1, <3>3
  <2>11. buffer[Num(k)].bytes \in Seq(Nat)
    BY <2>9 DEF Prefix
  <2>12. cut[i - 1] <= cut[i]
    <3>1. cut[i - 1] \in Nat /\ cut[i] \in Nat
      BY <1>6, <2>2
    <3> QED BY <2>3, <2>6, <3>1
  <2> QED BY <2>5, <2>10, <2>11, <2>12
<1>8. seqs \in Seq(Seq(Nat)) /\ Len(seqs) = count
  <2>1. seqs \in [1 .. count -> Seq(Nat)]
    BY <1>3, <1>7
  <2> QED BY <2>1
<1>9. FlattenSeq(seqs) = Run(cut[0], cut[count])
  BY <1>6, <1>7, <1>8, FlattenStream
<1>10. BytesBetween(buffer, Num(r), Num(r2)) = FlattenSeq(seqs)
  <2>1. Dist(Num(r), Num(r2)) = count
    BY <1>1, NumDist
  <2> QED BY <1>3, <2>1 DEF BytesBetween
<1>11. cut[count] = start[r2] /\ cut[0] = start[r]
  <2>1. count \in 0 .. count /\ 0 \in 0 .. count /\ r + count = r2 /\ r + 0 = r
    BY <1>1
  <2> QED BY <1>5, <2>1
<1> QED BY <1>9, <1>10, <1>11

\* What has been delivered grows by the bytes of the next PDUs.
LEMMA DeliveryGrows ==
    ASSUME NEW r \in Nat, NEW r2 \in Nat, NEW s \in Nat, r <= r2, r2 <= s,
           r2 - r < Modulus, NEW start, Stream(s, start), NEW buffer,
           AllPrefixes(buffer, r, s, start), CompleteUpTo(buffer, r, r2),
           delivered = Run(1, start[r])
    PROVE  delivered \o BytesBetween(buffer, Num(r), Num(r2)) = Run(1, start[r2])
<1>1. PICK y \in Nat : y = start[r]
  <2>1. r \in 0 .. s
    OBVIOUS
  <2> QED BY <2>1 DEF Stream
<1>2. PICK z \in Nat : z = start[r2]
  <2>1. r2 \in 0 .. s
    OBVIOUS
  <2> QED BY <2>1 DEF Stream
<1>3. 1 <= y /\ y <= z
  <2>1. r \in 0 .. s /\ r2 \in 0 .. s
    OBVIOUS
  <2>2. start[r] \in Nat \ {0} /\ start[r2] \in Nat \ {0}
    BY <2>1 DEF Stream
  <2>3. r < r2 => start[r] < start[r2]
    BY <2>1 DEF Stream
  <2>4. r = r2 \/ r < r2
    OBVIOUS
  <2> QED BY <1>1, <1>2, <2>2, <2>3, <2>4
<1>4. BytesBetween(buffer, Num(r), Num(r2)) = Run(start[r], start[r2])
  BY BytesBetweenNumbers
<1>5. Run(1, y) \o Run(y, z) = Run(1, z)
  BY <1>3, RunsJoin
<1> QED BY <1>1, <1>2, <1>4, <1>5

\* A data PDU inside the window: what the receiver holds, how far it has come
\* and what it has delivered move on together.
LEMMA PlaceAndDeliverKeepsHistory ==
    ASSUME RlcInv,
           NEW a \in Nat, NEW r \in Nat, NEW m \in Nat, NEW w \in Nat,
           NEW s \in Nat, NEW start, NEW number, NEW from, NEW to,
           Tracks(a, r, m, w, s, start, number, from, to),
           NEW i \in 1 .. Len(data), NEW n \in r .. s - 1,
           Received(i, number, n), NEW pdu, Carries(s, start, pdu, n),
           PlaceAndDeliver(pdu), UNCHANGED <<txVars, status>>
    PROVE  HistoryInv'
<1>1. /\ Numbers(a, r, m, w, s) /\ Stream(s, start) /\ Buffers(a, s, start)
      /\ Segments /\ Data(r, w, s, start, number) /\ data \in Seq(AnyDataPdu)
      /\ Entries(r, w, start) /\ Delivery(r, start) /\ Reordering(r, m, w)
      /\ Forgotten(a, r, m, s, from) /\ Statuses(a, r, m, s, from, to)
      /\ ~ rxon[Num(r)].complete /\ ReceiverInv
      /\ delivered = [b \in 1 .. start[r] - 1 |-> b]
  BY DEF Tracks, Delivery, RlcInv, MacTypes
<1>2. PICK buffer : buffer = [rxon EXCEPT ![pdu.sn] = Placed(pdu)]
  OBVIOUS
<1>3. Buffered(buffer, n) /\ AllPrefixes(buffer, r, s, start)
  <2>1. Buffered(buffer, n)
    BY <1>1, <1>2, PlacedIsBuffered
  <2>2. AllPrefixes(buffer, r, s, start)
    BY <1>1, <1>2, PlacedIsBuffered
  <2> QED BY <2>1, <2>2
<1>4. PICK r2, m2, w2 \in Nat :
          /\ w2 = (IF n >= w THEN n + 1 ELSE w)
          /\ r <= r2 /\ r2 <= m2 /\ m <= m2 /\ m2 <= w2 /\ w <= w2 /\ w2 <= s
          /\ (IF Dist(vrR, Num(n)) >= Dist(vrR, vrH)
                  THEN Succ(Num(n)) ELSE vrH) = Num(w2)
          /\ FirstFrom(vrMs, Incomplete(buffer)) = Num(m2)
          /\ (IF Num(n) = vrR THEN FirstFrom(vrR, Incomplete(buffer))
                              ELSE vrR) = Num(r2)
          /\ ~ buffer[Num(r2)].complete
          /\ CompleteUpTo(buffer, r, r2) /\ CompleteUpTo(buffer, m, m2)
  <2>1. PICK r2, m2, w2 \in Nat : MovesOn(buffer, n, r, m, w, s, r2, m2, w2)
    BY <1>1, <1>3, MovedNumbers
  <2> QED BY <2>1 DEF MovesOn
<1>5. /\ vrH' = Num(w2) /\ vrMs' = Num(m2) /\ vrR' = Num(r2)
      /\ delivered' = delivered \o BytesBetween(buffer, Num(r), Num(r2))
      /\ rxon' = [sn \in SN |-> IF sn \in Interval(Num(r), Num(r2))
                                    THEN NoEntry ELSE buffer[sn]]
      /\ reorderingTimer' = IF ReorderingGoesOn(Num(r2)) THEN reorderingTimer
                            ELSE IF Num(w2) # Num(r2) THEN Num(w2) ELSE Off
  <2>1. pdu.sn = Num(n)
    BY DEF Carries
  <2>2. vrR = Num(r)
    BY <1>1 DEF Numbers
  <2>3. /\ vrH' = (IF Dist(vrR, Num(n)) >= Dist(vrR, vrH)
                      THEN Succ(Num(n)) ELSE vrH)
        /\ vrMs' = FirstFrom(vrMs, Incomplete(buffer))
        /\ vrR' = (IF Num(n) = vrR THEN FirstFrom(vrR, Incomplete(buffer))
                                   ELSE vrR)
    BY <1>2, <2>1 DEF PlaceAndDeliver
  <2>4. vrH' = Num(w2) /\ vrMs' = Num(m2) /\ vrR' = Num(r2)
    BY <1>4, <2>3
  <2>5. /\ delivered' = delivered \o BytesBetween(buffer, vrR, vrR')
        /\ rxon' = [sn \in SN |-> IF sn \in Interval(vrR, vrR')
                                      THEN NoEntry ELSE buffer[sn]]
        /\ reorderingTimer' = IF ReorderingGoesOn(vrR') THEN reorderingTimer
                              ELSE IF vrH' # vrR' THEN vrH' ELSE Off
    BY <1>2 DEF PlaceAndDeliver
  <2> QED BY <2>2, <2>4, <2>5
<1>6. /\ a <= r /\ r <= m /\ m <= w /\ w <= s /\ s - r <= Window
      /\ s - a <= Window /\ Window < Modulus /\ Window \in Nat
      /\ vtA = Num(a) /\ vtS = Num(s) /\ n \in Nat /\ r <= n /\ n < s
      /\ s <= a + Window
  BY <1>1, NumbersFit DEF Numbers
<1>7. ASSUME NEW k \in r .. s - 1
      PROVE  /\ rxon[Num(k)].complete => buffer[Num(k)].complete
             /\ k # n => buffer[Num(k)] = rxon[Num(k)]
  <2>1. Num(k) \in SN
    BY NumType
  <2>2. Num(k) = Num(n) => k = n
    <3>1. k - n < Modulus /\ n - k < Modulus /\ k \in Nat
      BY <1>6
    <3> QED BY <1>6, <3>1, NumSame
  <2> QED BY <1>3, <2>1, <2>2 DEF Buffered
<1>8. ASSUME NEW k \in r2 .. s - 1 PROVE rxon'[Num(k)] = buffer[Num(k)]
  <2>1. r2 - r < Modulus
    BY <1>4, <1>6
  <2>2. \A l \in r .. r + Modulus - 1 :
            Num(l) \in Interval(Num(r), Num(r2)) => l < r2
    BY <1>4, <2>1, NumInterval
  <2>3. k \in r .. r + Modulus - 1 /\ ~ (k < r2) /\ k \in Nat
    BY <1>4, <1>6
  <2>4. Num(k) \notin Interval(Num(r), Num(r2)) /\ Num(k) \in SN
    BY <2>2, <2>3, NumType
  <2> QED BY <1>5, <2>4
<1>9. ASSUME NEW k \in w .. s - 1, k # n
      PROVE  buffer[Num(k)] = NoEntry /\ ~ buffer[Num(k)].complete
  <2>1. k \in r .. s - 1 /\ k \in Nat /\ w <= k /\ k < r + Modulus
    BY <1>6
  <2>2. rxon[Num(k)] = NoEntry
    BY <1>1, <2>1, NothingAbove
  <2>3. buffer[Num(k)] = NoEntry
    BY <1>7, <1>9, <2>1, <2>2
  <2> QED BY <2>3 DEF NoEntry
<1>10. Numbers(a, r2, m2, w2, s)'
  <2>1. vtA' = vtA /\ vtS' = vtS
    BY DEF txVars
  <2>2. a <= r2
    BY <1>4, <1>6
  <2> QED BY <1>4, <1>5, <1>6, <2>1, <2>2 DEF Numbers
<1>11. Entries(r2, w2, start)'
  <2>1. ASSUME NEW k \in r2 .. w2 - 1
        PROVE  Prefix(rxon'[Num(k)], start[k], start[k + 1] - start[k])
    <3>1. k \in r2 .. s - 1 /\ k \in r .. s - 1
      BY <1>4
    <3> QED BY <1>3, <1>8, <3>1 DEF AllPrefixes
  <2> QED BY <2>1 DEF Entries, Prefix
<1>12. Delivery(r2, start)'
  <2>1. r2 <= s /\ r2 - r < Modulus
    BY <1>4, <1>6
  <2>2. delivered \o BytesBetween(buffer, Num(r), Num(r2))
            = [b \in 1 .. start[r2] - 1 |-> b]
    <3>1. start[r] \in Nat /\ start[r2] \in Nat
      <4>1. r \in 0 .. s /\ r2 \in 0 .. s
        BY <1>4, <1>6
      <4> QED BY <1>1, <4>1 DEF Stream
    <3>2. delivered = Run(1, start[r])
      BY <1>1, <3>1, RunFromOne
    <3>3. delivered \o BytesBetween(buffer, Num(r), Num(r2)) = Run(1, start[r2])
      <4>1. /\ CompleteUpTo(buffer, r, r2) /\ AllPrefixes(buffer, r, s, start)
            /\ Stream(s, start) /\ r <= r2
        BY <1>1, <1>3, <1>4
      <4> QED BY <2>1, <3>2, <4>1, DeliveryGrows
    <3> QED BY <3>1, <3>3, RunFromOne
  <2>3. ~ rxon'[Num(r2)].complete
    <3>1. Num(r2) \notin Interval(Num(r), Num(r2)) /\ Num(r2) \in SN
      <4>1. \A l \in r .. r + Modulus - 1 :
                Num(l) \in Interval(Num(r), Num(r2)) => l < r2
        BY <1>4, <2>1, NumInterval
      <4>2. r2 \in r .. r + Modulus - 1
        BY <1>4, <2>1
      <4> QED BY <4>1, <4>2, NumType
    <3>2. rxon'[Num(r2)] = buffer[Num(r2)]
      BY <1>5, <3>1
    <3> QED BY <1>4, <3>2
  <2> QED BY <1>5, <2>2, <2>3 DEF Delivery
<1>13. Reordering(r2, m2, w2)'
  <2>1. ASSUME NEW k \in r2 + 1 .. w2, Num(k) = reorderingTimer',
               NEW l \in k .. m2 - 1
        PROVE  rxon'[Num(l)].complete
    <3>1. k \in Nat /\ Num(k) # Off
      BY NumType DEF SN, Off
    <3>2. l \in r2 .. s - 1 /\ l \in r .. s - 1
      BY <1>4
    <3>3. rxon'[Num(l)] = buffer[Num(l)]
      BY <1>8, <3>2
    <3>4. CASE ReorderingGoesOn(Num(r2))
      <4>1. reorderingTimer = Num(k)
        BY <1>5, <2>1, <3>4
      <4>2. PICK x \in r + 1 .. w : reorderingTimer = Num(x)
        BY <1>1, <3>1, <4>1, ReorderingNumber
      <4>3. k = x
        <5>1. x \in Nat /\ k - x < Modulus /\ x - k < Modulus
          BY <1>4, <1>6
        <5> QED BY <3>1, <4>1, <4>2, <5>1, NumSame
      <4>4. CASE l < m
        <5>1. l \in x .. m - 1
          BY <4>3, <4>4
        <5>2. rxon[Num(l)].complete
          BY <1>1, <4>2, <5>1 DEF Reordering
        <5> QED BY <1>7, <3>2, <3>3, <5>2
      <4>5. CASE ~ (l < m)
        <5>1. l \in m .. m2 - 1
          BY <4>5
        <5> QED BY <1>4, <3>3, <5>1 DEF CompleteUpTo
      <4> QED BY <4>4, <4>5
    <3>5. CASE ~ ReorderingGoesOn(Num(r2))
      <4>1. Num(k) = Num(w2)
        BY <1>5, <2>1, <3>1, <3>5
      <4>2. k - w2 < Modulus /\ w2 - k < Modulus
        BY <1>4, <1>6
      <4>3. k = w2
        BY <3>1, <4>1, <4>2, NumSame
      <4> QED BY <1>4, <4>3
    <3> QED BY <3>4, <3>5
  <2> QED BY <2>1 DEF Reordering
<1>14. ASSUME NEW k \in a .. s - 1, Complete(r, m, k)
       PROVE  Complete(r2, m2, k)'
  <2>1. CASE k < r2
    BY <2>1 DEF Complete
  <2>2. CASE ~ (k < r2)
    <3>1. ~ (k < r) /\ k \in r2 .. s - 1 /\ k \in r .. s - 1
      BY <1>4, <2>2
    <3>2. k < m /\ rxon[Num(k)].complete
      BY <1>14, <3>1 DEF Complete
    <3>3. k < m2
      BY <1>4, <3>2
    <3>4. rxon'[Num(k)].complete
      BY <1>7, <1>8, <3>1, <3>2
    <3> QED BY <3>3, <3>4 DEF Complete
  <2> QED BY <2>1, <2>2
<1>15. Forgotten(a, r2, m2, s, from)' /\ Statuses(a, r2, m2, s, from, to)'
  <2>1. UNCHANGED <<txed, retx, status>>
    BY DEF txVars
  <2> QED BY <1>1, <1>4, <1>14, <2>1, MoreIsComplete
<1>16. ASSUME NEW x \in Nat
       PROVE  Late(r2, w2, x)' \subseteq Late(r, w, x) \union {n}
  <2>1. SUFFICES ASSUME NEW k \in x + Window .. w2 - 1, k # n,
                        k < r2 \/ rxon'[Num(k)] # NoEntry
                 PROVE  k \in x + Window .. w - 1
                        /\ (k < r \/ rxon[Num(k)] # NoEntry)
    BY DEF Late
  <2>2. k \in Nat /\ k < s
    BY <1>4, <1>6
  <2>3. CASE k < r
    <3>1. k < w
      BY <1>6, <2>3
    <3> QED BY <2>2, <2>3, <3>1
  <2>4. CASE ~ (k < r)
    <3>1. k \in r .. s - 1
      BY <2>2, <2>4
    <3>2. buffer[Num(k)] = rxon[Num(k)]
      BY <1>7, <2>1, <3>1
    <3>3. buffer[Num(k)] # NoEntry
      <4>1. CASE k < r2
        <5>1. k \in r .. r2 - 1
          BY <3>1, <4>1
        <5>2. buffer[Num(k)].complete
          BY <1>4, <5>1 DEF CompleteUpTo
        <5> QED BY <5>2 DEF NoEntry
      <4>2. CASE ~ (k < r2)
        <5>1. k \in r2 .. s - 1
          BY <2>2, <4>2
        <5>2. rxon'[Num(k)] = buffer[Num(k)]
          BY <1>8, <5>1
        <5> QED BY <2>1, <4>2, <5>2
      <4> QED BY <4>1, <4>2
    <3>4. k < w
      <4>1. ~ (k < w) => k \in w .. s - 1
        BY <2>2, <1>6
      <4> QED BY <1>9, <2>1, <3>3, <4>1
    <3>5. k \in x + Window .. w - 1
      BY <1>6, <2>2, <3>4
    <3> QED BY <3>2, <3>3, <3>5
  <2> QED BY <2>3, <2>4
<1>17. PICK new : Data(r2, w2, s, start, new)'
  <2>1. OnlyReceives(r, w, r2, w2, n)
    BY <1>16 DEF OnlyReceives
  <2> QED BY <1>1, <1>6, <2>1, ReceptionKeepsData
<1>18. Stream(s, start)' /\ Buffers(a, s, start)' /\ Segments'
  <2>1. UNCHANGED <<bigEnough, submitted, sent, txed, retx, retxSeg>>
    BY DEF txVars
  <2> QED BY <1>1, <2>1, BuffersFrame, SegmentsFrame DEF Stream
<1>19. Tracks(a, r2, m2, w2, s, start, new, from, to)'
  BY <1>10, <1>11, <1>12, <1>13, <1>15, <1>17, <1>18 DEF Tracks
<1> QED BY <1>19 DEF HistoryInv

\* A data PDU that arrives is placed or ignored.
LEMMA ReceiveDataPduKeepsHistory ==
    ASSUME RlcInv,
           NEW a \in Nat, NEW r \in Nat, NEW m \in Nat, NEW w \in Nat,
           NEW s \in Nat, NEW start, NEW number, NEW from, NEW to,
           Tracks(a, r, m, w, s, start, number, from, to),
           NEW i \in 1 .. ChannelBound, ReceiveDataPdu(i)
    PROVE  HistoryInv'
<1>1. /\ Numbers(a, r, m, w, s) /\ Stream(s, start) /\ Buffers(a, s, start)
      /\ Segments /\ Data(r, w, s, start, number)
      /\ Entries(r, w, start) /\ Delivery(r, start) /\ Reordering(r, m, w)
      /\ Forgotten(a, r, m, s, from) /\ Statuses(a, r, m, s, from, to)
      /\ data \in Seq(AnyDataPdu)
  BY DEF Tracks, RlcInv, MacTypes
<1>2. PICK pdu : pdu = data[i]
  OBVIOUS
<1>3. /\ Arrives(i)
      /\ data' = RemoveAt([j \in 1 .. Len(data) |->
                             IF j < i THEN [data[j] EXCEPT !.overtaken = @ + 1]
                                      ELSE data[j]], i)
      /\ IF InsideReceivingWindow(pdu.sn)
             THEN PlaceAndDeliver(pdu)
             ELSE UNCHANGED <<vrR, vrMs, vrH, rxon, reorderingTimer, delivered>>
      /\ UNCHANGED <<txVars, status>>
  BY <1>2 DEF ReceiveDataPdu
<1>4. i \in 1 .. Len(data)
  BY <1>1, <1>3 DEF Arrives
<1>5. PICK n \in Nat :
          /\ n = number[i] /\ n < s /\ n < r + Window
          /\ Carries(s, start, data[i], n) /\ data[i].sn = Num(n)
          /\ InsideReceivingWindow(data[i].sn) <=> r <= n
  BY <1>1, <1>4, ArrivedNumber
<1>6. /\ UNCHANGED <<bigEnough, submitted, sent, vtA, vtS, txed, retx, retxSeg>>
      /\ UNCHANGED status
  BY <1>3 DEF txVars
<1>8. Received(i, number, n)
  BY <1>3, <1>5 DEF Received
<1>7. Stream(s, start)' /\ Buffers(a, s, start)' /\ Segments'
  BY <1>1, <1>6, BuffersFrame, SegmentsFrame DEF Stream
<1>9. CASE r <= n
  <2>1. PlaceAndDeliver(pdu) /\ Carries(s, start, pdu, n)
    BY <1>2, <1>3, <1>5, <1>9
  <2>2. n \in r .. s - 1
    BY <1>5, <1>9
  <2>3. UNCHANGED <<txVars, status>>
    BY <1>3
  <2> QED BY <1>4, <1>8, <2>1, <2>2, <2>3, PlaceAndDeliverKeepsHistory
<1>10. CASE ~ (r <= n)
  <2>1. UNCHANGED <<vrR, vrMs, vrH, rxon, reorderingTimer, delivered>>
    BY <1>2, <1>3, <1>5, <1>10
  <2>2. OnlyReceives(r, w, r, w, n)
    BY <2>1 DEF OnlyReceives, Late
  <2>3. PICK new : Data(r, w, s, start, new)'
    BY <1>1, <1>4, <1>8, <2>2, ReceptionKeepsData
  <2>4. Numbers(a, r, m, w, s)'
    BY <1>1, <1>6, <2>1, NumbersFrame
  <2>5. Entries(r, w, start)' /\ Delivery(r, start)' /\ Reordering(r, m, w)'
    BY <1>1, <2>1, ReceiverFrame
  <2>6. \A k \in a .. s - 1 : Held(k) => Held(k)'
    BY <1>6 DEF Held
  <2>7. Forgotten(a, r, m, s, from)' /\ Statuses(a, r, m, s, from, to)'
    BY <1>1, <1>6, <2>1, <2>6, ForgottenFrame, StatusesFrame
  <2>8. Tracks(a, r, m, w, s, start, new, from, to)'
    BY <1>7, <2>3, <2>4, <2>5, <2>7 DEF Tracks
  <2> QED BY <2>8 DEF HistoryInv
<1> QED BY <1>9, <1>10

\* The history does not speak of the poll, the STATUS PDU that is due, or the
\* timer that keeps STATUS PDUs apart.
LEMMA HistoryFrame ==
    ASSUME NEW a \in Nat, NEW r \in Nat, NEW m \in Nat, NEW w \in Nat,
           NEW s \in Nat, NEW start, NEW number, NEW from, NEW to,
           Tracks(a, r, m, w, s, start, number, from, to),
           UNCHANGED <<bigEnough, submitted, sent, vtA, vtS, txed, retx,
                       retxSeg, data, status, vrR, vrMs, vrH, rxon,
                       reorderingTimer, delivered>>
    PROVE  HistoryInv'
<1>1. /\ Numbers(a, r, m, w, s) /\ Stream(s, start) /\ Buffers(a, s, start)
      /\ Segments /\ Forgotten(a, r, m, s, from)
      /\ Data(r, w, s, start, number) /\ Entries(r, w, start)
      /\ Delivery(r, start) /\ Reordering(r, m, w)
      /\ Statuses(a, r, m, s, from, to)
  BY DEF Tracks
<1>2. Numbers(a, r, m, w, s)' /\ Stream(s, start)' /\ Buffers(a, s, start)'
      /\ Segments'
  BY <1>1, NumbersFrame, BuffersFrame, SegmentsFrame DEF Stream
<1>3. \A k \in a .. s - 1 : Held(k) => Held(k)'
  BY DEF Held
<1>4. Forgotten(a, r, m, s, from)' /\ Data(r, w, s, start, number)'
  BY <1>1, <1>3, ForgottenFrame, DataFrame
<1>5. Entries(r, w, start)' /\ Delivery(r, start)' /\ Reordering(r, m, w)'
  BY <1>1, ReceiverFrame
<1>6. Statuses(a, r, m, s, from, to)'
  BY <1>1, StatusesFrame
<1>7. Tracks(a, r, m, w, s, start, number, from, to)'
  BY <1>2, <1>4, <1>5, <1>6 DEF Tracks
<1> QED BY <1>7 DEF HistoryInv

\* A bearer starts with nothing sent: all numbers are 0.
LEMMA InitHistory == Init => HistoryInv
<1> SUFFICES ASSUME Init PROVE HistoryInv
  OBVIOUS
<1>1. PICK start : start = [k \in Nat |-> 1]
  OBVIOUS
<1>2. start[0] = 1
  BY <1>1
<1> HIDE <1>1
<1>3. Numbers(0, 0, 0, 0, 0)
  BY WindowFits DEF Init, Numbers, Num
<1>4. Stream(0, start)
  BY <1>2, RlcAssumption DEF Init, Stream
<1>5. /\ \A sn \in SN : txed[sn] = NoPdu /\ retx[sn] = NoPdu
      /\ \A sn \in SN : retxSeg[sn] = NoSegment /\ rxon[sn] = NoEntry
      /\ Len(data) = 0 /\ Len(status) = 0 /\ delivered = <<>>
  BY DEF Init
<1>6. Buffers(0, 0, start) /\ Forgotten(0, 0, 0, 0, start)
  BY DEF Buffers, Forgotten
<1>7. Segments
  BY <1>5 DEF Segments
<1>8. Data(0, 0, 0, start, start) /\ Statuses(0, 0, 0, 0, start, start)
  BY <1>5 DEF Data, Statuses
<1>9. Entries(0, 0, start) /\ Reordering(0, 0, 0)
  BY DEF Entries, Reordering
<1>10. Delivery(0, start)
  <2>1. ~ rxon[Num(0)].complete
    BY <1>5, NumType DEF NoEntry
  <2>2. 1 .. start[0] - 1 = {}
    BY <1>2
  <2>3. delivered = [b \in 1 .. start[0] - 1 |-> b]
    BY <1>5, <2>2
  <2> QED BY <2>1, <2>3 DEF Delivery
<1>11. Tracks(0, 0, 0, 0, 0, start, start, start, start)
  BY <1>3, <1>4, <1>6, <1>7, <1>8, <1>9, <1>10 DEF Tracks
<1> QED BY <1>11 DEF HistoryInv

\* Every step moves the history on.
LEMMA NextHistory == RlcInv /\ HistoryInv /\ [Next]_vars => HistoryInv'
<1> SUFFICES ASSUME RlcInv, [Next]_vars,
                    NEW a \in Nat, NEW r \in Nat, NEW m \in Nat, NEW w \in Nat,
                    NEW s \in Nat, NEW start, NEW number, NEW from, NEW to,
                    Tracks(a, r, m, w, s, start, number, from, to)
             PROVE  HistoryInv'
  BY DEF HistoryInv
<1>1. CASE TransmitPdcpPdu
  BY <1>1, TransmitPdcpPduKeepsHistory
<1>2. ASSUME NEW n \in 1 .. MaxPdu, NEW kept \in BOOLEAN, SendNewPdu(n, kept)
      PROVE  HistoryInv'
  BY <1>2, SendNewPduKeepsHistory
<1>3. ASSUME NEW kept \in BOOLEAN, RetransmitAll(kept)
      PROVE  HistoryInv'
  BY <1>3, RetransmitAllKeepsHistory
<1>4. ASSUME NEW len \in 1 .. MaxPdu, NEW kept \in BOOLEAN,
             RetransmitSegment(len, kept)
      PROVE  HistoryInv'
  BY <1>4, RetransmitSegmentKeepsHistory
<1>5. CASE RetransmitNothing
  BY <1>5, RetransmitNothingKeepsHistory
<1>6. CASE ExpirePollRetransmitTimer
  BY <1>6, ExpirePollRetransmitTimerKeepsHistory
<1>7. CASE ReceiveStatusPdu
  BY <1>7, ReceiveStatusPduKeepsHistory
<1>8. ASSUME NEW i \in 1 .. ChannelBound, ReceiveDataPdu(i)
      PROVE  HistoryInv'
  BY <1>8, ReceiveDataPduKeepsHistory
<1>9. CASE ExpireReorderingTimer
  BY <1>9, ExpireReorderingTimerKeepsHistory
<1>10. ASSUME NEW fit \in 1 .. Window, NEW kept \in BOOLEAN,
              SendStatusPdu(fit, kept)
       PROVE  HistoryInv'
  BY <1>10, SendStatusPduKeepsHistory
<1>11. CASE ExpireStatusProhibitTimer
  BY <1>11, HistoryFrame DEF ExpireStatusProhibitTimer, txVars
<1>12. CASE UNCHANGED vars
  BY <1>12, HistoryFrame DEF vars, txVars, rxVars
<1> QED BY <1>1, <1>2, <1>3, <1>4, <1>5, <1>6, <1>7, <1>8, <1>9, <1>10,
           <1>11, <1>12 DEF Next

\* The variables of a bearer always have a history.
THEOREM HistoryInvariant == Spec => []HistoryInv
  BY InitHistory, NextHistory, RlcInvariant, PTL DEF Spec

-----------------------------------------------------------------------------
(* What the history shows.                                                 *)

\* What is delivered are the bytes from 1 on, as far as VR(R) has come.
LEMMA DeliveredBytes ==
    ASSUME NEW a \in Nat, NEW r \in Nat, NEW m \in Nat, NEW w \in Nat,
           NEW s \in Nat, NEW start, NEW number, NEW from, NEW to,
           Tracks(a, r, m, w, s, start, number, from, to)
    PROVE  /\ start[r] \in Nat \ {0}
           /\ Len(delivered) = start[r] - 1
           /\ DOMAIN delivered = 1 .. start[r] - 1
           /\ \A i \in 1 .. start[r] - 1 : delivered[i] = i
<1>1. Numbers(a, r, m, w, s) /\ Stream(s, start) /\ Delivery(r, start)
  BY DEF Tracks
<1>2. r \in 0 .. s
  BY <1>1, NumbersFit
<1>3. start[r] \in Nat \ {0}
  BY <1>1, <1>2 DEF Stream
<1>4. PICK n \in Nat : n = start[r] - 1
  BY <1>3
<1>5. delivered = [b \in 1 .. n |-> b]
  BY <1>1, <1>4 DEF Delivery
<1>6. DOMAIN delivered = 1 .. n /\ \A i \in 1 .. n : delivered[i] = i
  BY <1>5
<1>7. delivered \in Seq(Nat)
  BY <1>5
<1>8. Len(delivered) = n
  BY <1>6, <1>7, LenProperties
<1> QED BY <1>3, <1>4, <1>6, <1>8

\* So they are in order.
LEMMA DeliveredInOrder == HistoryInv => InOrder
<1> SUFFICES ASSUME NEW a \in Nat, NEW r \in Nat, NEW m \in Nat, NEW w \in Nat,
                    NEW s \in Nat, NEW start, NEW number, NEW from, NEW to,
                    Tracks(a, r, m, w, s, start, number, from, to)
             PROVE  InOrder
  BY DEF HistoryInv
<1> QED BY DeliveredBytes DEF InOrder

\* What the next STATUS PDU asks for, the sender holds.
LEMMA NackedIsHeld == RlcInv /\ HistoryInv => NackIsHeld
<1> SUFFICES ASSUME RlcInv,
                    NEW a \in Nat, NEW r \in Nat, NEW m \in Nat, NEW w \in Nat,
                    NEW s \in Nat, NEW start, NEW number, NEW from, NEW to,
                    Tracks(a, r, m, w, s, start, number, from, to),
                    status # <<>>,
                    NEW sn, sn \in TxWindow, sn \in Head(status).nacks
             PROVE  txed[sn] # NoPdu \/ retx[sn] # NoPdu
  BY DEF HistoryInv, NackIsHeld, Reported
<1>1. Numbers(a, r, m, w, s) /\ Forgotten(a, r, m, s, from)
  BY DEF Tracks
<1>2. \A x \in TxWindow : \E k \in a .. s - 1 : x = Num(k)
  BY <1>1, SenderNumbers
<1>3. PICK k \in a .. s - 1 : sn = Num(k)
  BY <1>2
<1>4. Len(status) \in Nat /\ 1 \in 1 .. Len(status) /\ status[1] = Head(status)
  <2>1. status \in Seq(StatusPdu)
    BY DEF RlcInv, MacTypes
  <2> QED BY <2>1
<1>5. ~ Settled(from, 1, k)
  BY <1>3, <1>4 DEF Settled
<1>6. Held(k)
  BY <1>1, <1>4, <1>5 DEF Forgotten
<1> QED BY <1>3, <1>6 DEF Held

\* VT(A) is held when the STATUS PDU that moved it there has been received,
\* and nothing but a STATUS PDU makes the sender forget a PDU.
LEMMA NextHeadIsHeld ==
    RlcInv /\ HistoryInv /\ HeadIsHeld /\ [Next]_vars => HeadIsHeld'
<1> SUFFICES ASSUME RlcInv, HeadIsHeld, [Next]_vars,
                    NEW a \in Nat, NEW r \in Nat, NEW m \in Nat, NEW w \in Nat,
                    NEW s \in Nat, NEW start, NEW number, NEW from, NEW to,
                    Tracks(a, r, m, w, s, start, number, from, to)
             PROVE  HeadIsHeld'
  BY DEF HistoryInv
<1>1. SenderTypes /\ SenderWindow
  BY DEF RlcInv, SenderInv
<1>2. ASSUME UNCHANGED <<vtA, vtS, txed, retx>> PROVE HeadIsHeld'
  BY <1>2 DEF HeadIsHeld
<1>3. ASSUME NEW n \in 1 .. MaxPdu, NEW kept \in BOOLEAN, SendNewPdu(n, kept)
      PROVE  HeadIsHeld'
  <2>1. /\ UNCHANGED <<vtA, retx>>
        /\ txed' = [txed EXCEPT ![vtS] = [from |-> sent + 1, len |-> n]]
    BY <1>3 DEF SendNewPdu
  <2>2. [from |-> sent + 1, len |-> n] # NoPdu
    BY DEF NoPdu
  <2>3. CASE vtA = vtS
    <3>1. txed'[vtA] # NoPdu
      BY <1>1, <2>1, <2>2, <2>3 DEF SenderTypes
    <3> QED BY <2>1, <3>1 DEF HeadIsHeld
  <2>4. CASE vtA # vtS
    <3>1. txed'[vtA] = txed[vtA]
      BY <1>1, <2>1, <2>4 DEF SenderTypes
    <3> QED BY <2>1, <2>4, <3>1 DEF HeadIsHeld
  <2> QED BY <2>3, <2>4
<1>4. ASSUME NEW kept \in BOOLEAN, RetransmitAll(kept)
      PROVE  HeadIsHeld'
  <2> DEFINE sn == FirstRetx
  <2>1. /\ UNCHANGED <<vtA, vtS>> /\ ~ RetxEmpty
        /\ txed' = [txed EXCEPT ![sn] = retx[sn]]
        /\ retx' = [retx EXCEPT ![sn] = NoPdu]
    BY <1>4 DEF RetransmitAll
  <2>2. sn \in SN /\ retx[sn] # NoPdu
    <3> DEFINE S == {x \in SN : retx[x] # NoPdu}
    <3>1. S \subseteq SN /\ S # {}
      BY <2>1 DEF RetxEmpty
    <3>2. vtA \in SN
      BY <1>1 DEF SenderTypes
    <3> HIDE DEF S
    <3>3. FirstFrom(vtA, S) \in S
      BY <3>1, <3>2, FirstFromIsFirst
    <3> QED BY <3>3 DEF S, FirstRetx
  <2> HIDE DEF sn
  <2>3. CASE vtA = sn
    <3>1. txed'[vtA] # NoPdu
      BY <1>1, <2>1, <2>2, <2>3 DEF SenderTypes
    <3> QED BY <2>1, <3>1 DEF HeadIsHeld
  <2>4. CASE vtA # sn
    <3>1. txed'[vtA] = txed[vtA] /\ retx'[vtA] = retx[vtA]
      BY <1>1, <2>1, <2>4 DEF SenderTypes
    <3> QED BY <2>1, <3>1 DEF HeadIsHeld
  <2> QED BY <2>3, <2>4
<1>5. CASE ExpirePollRetransmitTimer
  <2>1. /\ UNCHANGED <<vtA, vtS>>
        /\ \/ UNCHANGED <<txed, retx>>
           \/ retx' = [sn \in SN |-> IF sn \in TxWindow /\ txed[sn] # NoPdu
                                         THEN txed[sn] ELSE retx[sn]]
    BY <1>5 DEF ExpirePollRetransmitTimer
  <2>2. CASE UNCHANGED <<txed, retx>>
    BY <1>2, <2>1, <2>2
  <2>3. CASE retx' = [sn \in SN |-> IF sn \in TxWindow /\ txed[sn] # NoPdu
                                        THEN txed[sn] ELSE retx[sn]]
    <3>1. vtA \in SN /\ vtS \in SN
      BY <1>1 DEF SenderTypes
    <3>2. vtA # vtS => vtA \in TxWindow
      BY <3>1, DistType DEF TxWindow, Interval
    <3>3. vtA # vtS => retx'[vtA] # NoPdu
      BY <2>3, <3>1, <3>2 DEF HeadIsHeld
    <3> QED BY <2>1, <3>3 DEF HeadIsHeld
  <2> QED BY <2>1, <2>2, <2>3
<1>6. CASE ReceiveStatusPdu
  BY <1>6, ReceiveStatusPduKeepsHistory
<1>7. CASE TransmitPdcpPdu
  BY <1>2, <1>7 DEF TransmitPdcpPdu
<1>8. ASSUME NEW len \in 1 .. MaxPdu, NEW kept \in BOOLEAN,
             RetransmitSegment(len, kept)
      PROVE  HeadIsHeld'
  BY <1>2, <1>8 DEF RetransmitSegment
<1>9. CASE RetransmitNothing
  BY <1>2, <1>9 DEF RetransmitNothing
<1>10. ASSUME NEW i \in 1 .. ChannelBound, ReceiveDataPdu(i)
       PROVE  HeadIsHeld'
  BY <1>2, <1>10 DEF ReceiveDataPdu, txVars
<1>11. CASE ExpireReorderingTimer
  BY <1>2, <1>11 DEF ExpireReorderingTimer, txVars
<1>12. ASSUME NEW fit \in 1 .. Window, NEW kept \in BOOLEAN,
              SendStatusPdu(fit, kept)
       PROVE  HeadIsHeld'
  BY <1>2, <1>12 DEF SendStatusPdu, txVars
<1>13. CASE ExpireStatusProhibitTimer
  BY <1>2, <1>13 DEF ExpireStatusProhibitTimer, txVars
<1>14. CASE UNCHANGED vars
  BY <1>2, <1>14 DEF vars, txVars
<1> QED BY <1>3, <1>4, <1>5, <1>6, <1>7, <1>8, <1>9, <1>10, <1>11, <1>12,
           <1>13, <1>14 DEF Next

\* The receiving side hands up the bytes that PDCP submitted, in order, none
\* twice and none left out, for every window and modulus, whatever PDUs HARQ
\* loses and swaps.
THEOREM InOrderHolds == Spec => []InOrder
  BY DeliveredInOrder, HistoryInvariant, PTL

\* What a STATUS PDU reports missing is still held when it arrives, however
\* old it is: the assertions of DoReceivePdu never fail.
THEOREM NackIsHeldHolds == Spec => []NackIsHeld
  BY NackedIsHeld, RlcInvariant, HistoryInvariant, PTL

\* DoReportBufferStatus always finds the PDU with number VT(A) in one of the
\* two buffers.
THEOREM HeadIsHeldHolds == Spec => []HeadIsHeld
<1>1. Init => HeadIsHeld
  BY DEF Init, HeadIsHeld
<1> QED BY <1>1, NextHeadIsHeld, RlcInvariant, HistoryInvariant, PTL DEF Spec

\* Each byte that has been sent lies in one of the PDUs.
LEMMA ByteInPdu ==
    ASSUME NEW s \in Nat, NEW start, Stream(s, start), sent \in Nat,
           NEW x \in 1 .. sent
    PROVE  \E k \in 0 .. s - 1 : start[k] <= x /\ x < start[k + 1]
<1> DEFINE T == {k \in 0 .. s : x < start[k]}
<1>1. start[0] = 1 /\ start[s] = sent + 1 /\ \A k \in 0 .. s : start[k] \in Nat
  BY DEF Stream
<1>2. s \in T /\ T \subseteq Nat
  BY <1>1
<1>3. PICK l \in T : \A y \in T : l <= y
  <2> HIDE DEF T
  <2> QED BY <1>2, LeastNatural
<1>4. l \in 0 .. s /\ x < start[l] /\ l # 0
  BY <1>1, <1>3
<1>5. l - 1 \in 0 .. s - 1 /\ l - 1 \in 0 .. s /\ (l - 1) + 1 = l
  BY <1>4
<1>6. ~ (l <= l - 1)
  BY <1>4
<1>7. l - 1 \notin T
  BY <1>3, <1>6
<1>8. ~ (x < start[l - 1])
  BY <1>5, <1>7
<1>9. start[l - 1] \in Nat
  BY <1>1, <1>5
<1>10. start[l - 1] <= x
  BY <1>8, <1>9
<1> QED BY <1>4, <1>5, <1>10

\* Every byte of a PDU below VR(R) is delivered, one of a PDU above is held or
\* complete at the receiver.
LEMMA NothingIsLost == RlcInv /\ HistoryInv => NoByteLost
<1> SUFFICES ASSUME RlcInv,
                    NEW a \in Nat, NEW r \in Nat, NEW m \in Nat, NEW w \in Nat,
                    NEW s \in Nat, NEW start, NEW number, NEW from, NEW to,
                    Tracks(a, r, m, w, s, start, number, from, to)
             PROVE  NoByteLost
  BY DEF HistoryInv
<1>1. /\ Numbers(a, r, m, w, s) /\ Stream(s, start) /\ Buffers(a, s, start)
      /\ Forgotten(a, r, m, s, from) /\ Entries(r, w, start)
  BY DEF Tracks
<1>2. a <= r /\ r <= m /\ m <= w /\ w <= s
  BY <1>1, NumbersFit
<1>3. sent \in Nat /\ \A k \in 0 .. s : start[k] \in Nat
  <2>1. sent \in Int /\ start[s] \in Nat \ {0} /\ start[s] = sent + 1
    BY <1>1 DEF RlcInv, SenderInv, SenderTypes, Stream
  <2> QED BY <1>1, <2>1 DEF Stream
<1>4. SUFFICES ASSUME NEW x \in 1 .. sent
               PROVE  \/ x \in BytesHeld(txed) \/ x \in BytesHeld(retx)
                      \/ \E i \in DOMAIN delivered : x = delivered[i]
                      \/ \E sn \in SN \ Incomplete(rxon) :
                             \E i \in DOMAIN rxon[sn].bytes : x = rxon[sn].bytes[i]
  BY DEF NoByteLost
<1>5. PICK k \in 0 .. s - 1 : start[k] <= x /\ x < start[k + 1]
  BY <1>1, <1>3, ByteInPdu
<1>6. Num(k) \in SN
  BY NumType
<1>7. PICK p \in Nat : p = start[k]
  BY <1>3
<1>8. PICK q \in Nat : q = start[k + 1]
  <2>1. k + 1 \in 0 .. s
    OBVIOUS
  <2> QED BY <1>3, <2>1
<1>9. CASE k < r
  <2>1. start[r] \in Nat /\ DOMAIN delivered = 1 .. start[r] - 1
        /\ \A i \in 1 .. start[r] - 1 : delivered[i] = i
    BY DeliveredBytes
  <2>2. q <= start[r]
    <3>1. k + 1 \in 0 .. s /\ r \in 0 .. s /\ (k + 1 = r \/ k + 1 < r)
      BY <1>2, <1>9
    <3>2. k + 1 < r => start[k + 1] < start[r]
      BY <1>1, <3>1 DEF Stream
    <3> QED BY <1>8, <2>1, <3>1, <3>2
  <2>3. x \in 1 .. start[r] - 1
    BY <1>5, <1>8, <2>1, <2>2
  <2> QED BY <2>1, <2>3
<1>10. ASSUME NEW buffer, buffer[Num(k)] = PduAt(start, k), PduAt(start, k) # NoPdu
       PROVE  x \in BytesHeld(buffer)
  <2>1. buffer[Num(k)].from = p /\ buffer[Num(k)].len = q - p
    BY <1>7, <1>8, <1>10 DEF PduAt
  <2>2. x \in p .. p + (q - p) - 1
    BY <1>5, <1>7, <1>8
  <2>3. x \in buffer[Num(k)].from .. buffer[Num(k)].from + buffer[Num(k)].len - 1
    BY <2>1, <2>2
  <2>4. Num(k) \in {sn \in SN : buffer[sn] # NoPdu}
    BY <1>6, <1>10
  <2> QED BY <2>3, <2>4 DEF BytesHeld
<1>11. CASE k \in a .. s - 1 /\ Held(k)
  <2>1. /\ txed[Num(k)] \in {NoPdu, PduAt(start, k)}
        /\ retx[Num(k)] \in {NoPdu, PduAt(start, k)}
    BY <1>1, <1>11 DEF Buffers
  <2>2. txed[Num(k)] # NoPdu \/ retx[Num(k)] # NoPdu
    BY <1>11 DEF Held
  <2>3. CASE txed[Num(k)] # NoPdu
    BY <1>10, <2>1, <2>3
  <2>4. CASE retx[Num(k)] # NoPdu
    BY <1>10, <2>1, <2>4
  <2> QED BY <2>2, <2>3, <2>4
<1>12. CASE k \in r .. s - 1 /\ ~ Held(k)
  <2>1. k \in a .. s - 1 /\ ~ (k < r)
    BY <1>2, <1>12
  <2>2. Complete(r, m, k)
    BY <1>1, <1>12, <2>1 DEF Forgotten
  <2>3. k < m /\ rxon[Num(k)].complete
    BY <2>1, <2>2 DEF Complete
  <2>4. k \in r .. w - 1
    BY <1>2, <1>12, <2>3
  <2>5. PICK bytes : bytes = rxon[Num(k)].bytes
    OBVIOUS
  <2>6. /\ bytes \in Seq(Nat)
        /\ \A j \in 1 .. Len(bytes) : bytes[j] = start[k] + j - 1
        /\ Len(bytes) = start[k + 1] - start[k]
    BY <1>1, <2>3, <2>4, <2>5 DEF Entries
  <2>7. PICK j \in 1 .. Len(bytes) : x = p + j - 1
    <3>1. Len(bytes) = q - p /\ p <= x /\ x < q
      BY <1>5, <1>7, <1>8, <2>6
    <3>2. x - p + 1 \in 1 .. q - p /\ x = p + (x - p + 1) - 1
      BY <3>1
    <3> QED BY <3>1, <3>2
  <2>8. j \in DOMAIN bytes /\ x = bytes[j]
    <3>1. bytes[j] = start[k] + j - 1
      BY <2>6
    <3>2. DOMAIN bytes = 1 .. Len(bytes)
      BY <2>6, LenProperties
    <3> QED BY <1>7, <2>7, <3>1, <3>2
  <2>9. Num(k) \in SN \ Incomplete(rxon)
    BY <1>6, <2>3 DEF Incomplete
  <2> QED BY <2>5, <2>8, <2>9
<1>13. \/ k < r \/ (k \in a .. s - 1 /\ Held(k)) \/ (k \in r .. s - 1 /\ ~ Held(k))
  BY <1>2
<1> QED BY <1>9, <1>11, <1>12, <1>13

\* The transmitting side forgets a PDU only when the peer has all of it.
THEOREM NoByteLostHolds == Spec => []NoByteLost
  BY NothingIsLost, RlcInvariant, HistoryInvariant, PTL

-----------------------------------------------------------------------------
(* What wakes the transmitting side.                                       *)

\* t-PollRetransmit runs for the last number sent.  Where it does not run, no
\* PDU is cut and no expiry of the timer is due to bring a poll, the last of
\* the PDUs that the sender holds waits to be retransmitted: no STATUS PDU can
\* acknowledge it and leave one that was sent before it without an answer.
Awake ==
    /\ pollTimer # Off => pollTimer = Pred(vtS)
    /\ bigEnough /\ pollTimer = Off /\ (Stalled \/ (TxonEmpty /\ ~ pollExpired)) =>
           \A sn \in SN : txed[sn] # NoPdu =>
               \E last \in SN : retx[last] # NoPdu /\ Dist(vtA, sn) < Dist(vtA, last)

\* The number before the next is the number itself.
LEMMA PredType ==
    ASSUME NEW sn \in SN
    PROVE  /\ Pred(sn) \in SN /\ Pred(Succ(sn)) = sn
           /\ Off \notin SN
  BY DEF SN, Pred, Succ, Plus, Off

\* Only the timers, the buffers and the numbers of the sender matter.
LEMMA AwakeFrame ==
    ASSUME Awake, UNCHANGED <<bigEnough, submitted, sent, vtA, vtS, txed, retx,
                              pollTimer, pollExpired>>
    PROVE  Awake'
  BY DEF Awake, Stalled, InFlight, TxonEmpty

\* An SDU from PDCP leaves less to ask for.
LEMMA TransmitPdcpPduKeepsAwake ==
    ASSUME RlcInv, HistoryInv, Awake, TransmitPdcpPdu
    PROVE  Awake'
<1>1. /\ submitted' = submitted + SduSize
      /\ UNCHANGED <<bigEnough, sent, vtA, vtS, txed, retx, pollTimer,
                     pollExpired>>
  BY DEF TransmitPdcpPdu
<1>2. sent <= submitted /\ sent \in Int /\ submitted \in Nat
  BY DEF HistoryInv, Tracks, Stream, RlcInv, SenderInv, SenderTypes
<1>3. SduSize \in Nat \ {0}
  BY RlcAssumption
<1>4. ~ TxonEmpty'
  BY <1>1, <1>2, <1>3 DEF TxonEmpty
<1>5. Stalled' = Stalled
  BY <1>1 DEF Stalled, InFlight
<1> QED BY <1>1, <1>4, <1>5 DEF Awake

\* A new PDU polls.
LEMMA SendNewPduKeepsAwake ==
    ASSUME RlcInv, NEW n \in 1 .. MaxPdu, NEW kept \in BOOLEAN,
           SendNewPdu(n, kept)
    PROVE  Awake'
<1>1. vtS' = Succ(vtS) /\ pollTimer' = vtS /\ vtS \in SN
  BY DEF SendNewPdu, Poll, RlcInv, SenderInv, SenderTypes
<1>2. Pred(vtS') = vtS /\ pollTimer' # Off
  BY <1>1, PredType
<1> QED BY <1>1, <1>2 DEF Awake

\* A retransmission that does not poll leaves a later PDU to be retransmitted.
LEMMA RetransmitAllKeepsAwake ==
    ASSUME RlcInv, HistoryInv, Awake, NEW kept \in BOOLEAN, RetransmitAll(kept)
    PROVE  Awake'
<1> DEFINE first == FirstRetx
<1>1. /\ ~ RetxEmpty /\ Poll(PollsOnRetx(first), Pred(vtS))
      /\ txed' = [txed EXCEPT ![first] = retx[first]]
      /\ retx' = [retx EXCEPT ![first] = NoPdu]
      /\ UNCHANGED <<bigEnough, submitted, sent, vtA, vtS>>
  BY DEF RetransmitAll
<1>2. SenderTypes /\ Segments
  BY DEF RlcInv, SenderInv, HistoryInv, Tracks
<1>3. /\ first \in SN /\ retx[first] # NoPdu
      /\ \A sn \in SN : retx[sn] # NoPdu => Dist(vtA, first) <= Dist(vtA, sn)
  <2> DEFINE S == {x \in SN : retx[x] # NoPdu}
  <2>1. S \subseteq SN /\ S # {} /\ vtA \in SN
    BY <1>1, <1>2 DEF RetxEmpty, SenderTypes
  <2>2. first = FirstFrom(vtA, S)
    BY DEF FirstRetx
  <2> HIDE DEF S, first
  <2>3. first \in S /\ \A sn \in S : Dist(vtA, first) <= Dist(vtA, sn)
    BY <2>1, <2>2, FirstFromIsFirst
  <2> QED BY <2>3 DEF S
<1> HIDE DEF first
<1>4. CASE PollsOnRetx(first)
  <2>1. pollTimer' = Pred(vtS) /\ vtS \in SN /\ vtS' = vtS
    BY <1>1, <1>2, <1>4 DEF Poll, SenderTypes
  <2>2. pollTimer' # Off
    BY <2>1, PredType
  <2> QED BY <2>1, <2>2 DEF Awake
<1>5. CASE ~ PollsOnRetx(first)
  <2>1. UNCHANGED <<pollTimer, pollExpired>> /\ ~ Stalled /\ ~ pollExpired
    BY <1>1, <1>5 DEF Poll, PollsOnRetx
  <2>2. ~ Stalled'
    BY <1>1, <2>1 DEF Stalled, InFlight
  <2>3. SUFFICES ASSUME bigEnough, pollTimer = Off, TxonEmpty,
                        NEW sn \in SN, txed'[sn] # NoPdu
                 PROVE  \E last \in SN : /\ retx'[last] # NoPdu
                                         /\ Dist(vtA, sn) < Dist(vtA, last)
    BY <1>1, <2>1, <2>2 DEF Awake, TxonEmpty
  <2>4. Offset(first) = 0
    BY <1>2, <1>3, <2>3 DEF Segments, Offset
  <2>5. PICK other \in SN \ {first} : retx[other] # NoPdu
    BY <1>5, <2>3, <2>4 DEF PollsOnRetx
  <2>6. retx'[other] # NoPdu
    BY <1>1, <1>2, <2>5 DEF SenderTypes
  <2>7. Dist(vtA, first) < Dist(vtA, other)
    <3>1. Dist(vtA, first) <= Dist(vtA, other)
      BY <1>3, <2>5
    <3>2. Dist(vtA, first) # Dist(vtA, other)
      BY <1>2, <1>3, <2>5, DistBack DEF SenderTypes
    <3>3. Dist(vtA, first) \in Nat /\ Dist(vtA, other) \in Nat
      BY <1>2, <1>3, <2>5, DistType DEF SenderTypes
    <3> QED BY <3>1, <3>2, <3>3
  <2>8. CASE sn = first
    BY <2>5, <2>6, <2>7, <2>8
  <2>9. CASE sn # first
    <3>1. txed[sn] # NoPdu
      BY <1>1, <1>2, <2>3, <2>9 DEF SenderTypes
    <3>2. PICK last \in SN : retx[last] # NoPdu /\ Dist(vtA, sn) < Dist(vtA, last)
      BY <2>1, <2>3, <3>1 DEF Awake
    <3>3. CASE last = first
      <4>1. /\ Dist(vtA, first) \in Nat /\ Dist(vtA, other) \in Nat
            /\ Dist(vtA, sn) \in Nat
        BY <1>2, <1>3, <2>5, DistType DEF SenderTypes
      <4>2. Dist(vtA, sn) < Dist(vtA, other)
        BY <2>7, <3>2, <3>3, <4>1
      <4> QED BY <2>5, <2>6, <4>2
    <3>4. CASE last # first
      <4>1. retx'[last] # NoPdu
        BY <1>1, <1>2, <3>2, <3>4 DEF SenderTypes
      <4> QED BY <3>2, <4>1
    <3> QED BY <3>3, <3>4
  <2> QED BY <2>8, <2>9
<1> QED BY <1>4, <1>5

\* Where the window has stalled, the expiry of the timer empties m_txedBuffer.
LEMMA ExpirePollRetransmitTimerKeepsAwake ==
    ASSUME RlcInv, ExpirePollRetransmitTimer
    PROVE  Awake'
<1>1. /\ pollTimer' = Off /\ pollExpired' = TRUE
      /\ InFlight = Window =>
            txed' = [sn \in SN |-> IF sn \in TxWindow THEN NoPdu ELSE txed[sn]]
      /\ UNCHANGED <<bigEnough, submitted, sent, vtA, vtS>>
  BY DEF ExpirePollRetransmitTimer
<1>2. SenderTypes /\ SenderWindow
  BY DEF RlcInv, SenderInv
<1>3. ASSUME Stalled, NEW sn \in SN PROVE txed'[sn] = NoPdu
  <2>1. InFlight \in Nat /\ Window \in Nat
    BY <1>2, DistType, WindowFits DEF InFlight, SenderTypes
  <2>2. InFlight = Window
    BY <1>2, <1>3, <2>1 DEF Stalled, SenderWindow
  <2> QED BY <1>1, <1>2, <1>3, <2>2 DEF SenderWindow
<1>4. Stalled' = Stalled
  BY <1>1 DEF Stalled, InFlight
<1> QED BY <1>1, <1>3, <1>4 DEF Awake

\* A STATUS PDU that stops t-PollRetransmit reports on all that was sent; one
\* that acknowledges a PDU answers for all that were sent before it.
LEMMA ReceiveStatusPduKeepsAwake ==
    ASSUME RlcInv, Awake, ReceiveStatusPdu
    PROVE  Awake'
<1> DEFINE pdu == Head(status)
           reported == Reported(pdu.ack)
           nacked == reported \intersect pdu.nacks
           new == NewVtA(pdu.ack, nacked)
<1>1. /\ status # <<>>
      /\ pollTimer' = IF pollTimer \in reported THEN Off ELSE pollTimer
      /\ vtA' = new
      /\ retx' = [sn \in SN |->
                     CASE sn \in nacked /\ txed[sn] # NoPdu -> txed[sn]
                       [] sn \in reported \ nacked -> NoPdu
                       [] OTHER -> retx[sn]]
      /\ txed' = [sn \in SN |-> IF sn \in reported THEN NoPdu ELSE txed[sn]]
      /\ UNCHANGED <<bigEnough, submitted, sent, vtS, pollExpired>>
  BY DEF ReceiveStatusPdu, StopPollTimer
<1>2. SenderTypes /\ SenderWindow
  BY DEF RlcInv, SenderInv
<1>3. pdu.ack \in SN
  <2>1. status \in Seq(StatusPdu)
    BY DEF RlcInv, MacTypes
  <2>2. pdu \in StatusPdu
    BY <1>1, <2>1, HeadTailProperties
  <2> QED BY <2>2 DEF StatusPdu
<1> HIDE DEF pdu
<1>4. reported = {sn \in SN : Dist(vtA, sn) < Dist(vtA, pdu.ack)
                                /\ Dist(vtA, sn) < Dist(vtA, vtS)}
  BY DEF Reported, TxWindow, Interval
<1>5. new \in SN /\ Dist(vtA, new) <= Dist(vtA, vtS)
  <2>1. nacked \subseteq Reported(pdu.ack)
    OBVIOUS
  <2> HIDE DEF nacked
  <2> QED BY <1>2, <1>3, <2>1, NewVtAInside
<1> HIDE DEF new, nacked, reported
<1>6. vtA \in SN /\ vtS \in SN
  BY <1>2 DEF SenderTypes
<1>7. pollTimer' # Off => pollTimer' = Pred(vtS')
  BY <1>1 DEF Awake
<1>8. SUFFICES ASSUME bigEnough', pollTimer' = Off,
                      Stalled' \/ (TxonEmpty' /\ ~ pollExpired'),
                      NEW sn \in SN, txed'[sn] # NoPdu
               PROVE  \E last \in SN : /\ retx'[last] # NoPdu
                                       /\ Dist(vtA', sn) < Dist(vtA', last)
  BY <1>7 DEF Awake
<1>9. sn \notin reported /\ txed[sn] # NoPdu
  BY <1>1, <1>8
<1>10. sn \in TxWindow /\ Dist(vtA, sn) < Dist(vtA, vtS)
  BY <1>2, <1>9 DEF SenderWindow, TxWindow, Interval
<1>11. Dist(vtA, pdu.ack) <= Dist(vtA, sn)
  BY <1>3, <1>4, <1>6, <1>9, <1>10, DistType
<1>12. pollTimer \notin reported
  <2>1. SUFFICES ASSUME pollTimer \in reported PROVE FALSE
    OBVIOUS
  <2>2. pollTimer = Pred(vtS) /\ pollTimer \in SN
        /\ Dist(vtA, pollTimer) < Dist(vtA, pdu.ack)
    BY <1>4, <2>1, PredType DEF Awake
  <2>3. vtS # vtA
    BY <1>6, <1>10, DistType
  <2>4. Dist(vtA, vtS) = Dist(vtA, Pred(vtS)) + 1
    BY <1>6, <2>3 DEF Dist, Pred, Plus, SN
  <2>5. /\ Dist(vtA, sn) \in Nat /\ Dist(vtA, pollTimer) \in Nat
        /\ Dist(vtA, pdu.ack) \in Nat /\ Dist(vtA, vtS) \in Nat
    BY <1>3, <1>6, <2>2, DistType
  <2> QED BY <1>10, <1>11, <2>2, <2>4, <2>5
<1>13. pollTimer = Off
  BY <1>1, <1>8, <1>12
<1>14. Stalled' => Stalled
  <2>1. Dist(new, vtS) = Dist(vtA, vtS) - Dist(vtA, new)
    BY <1>5, <1>6, DistAdds
  <2>2. Dist(vtA, new) \in Nat /\ Dist(vtA, vtS) \in Nat /\ Window \in Nat
    BY <1>5, <1>6, DistType, WindowFits
  <2> QED BY <1>1, <2>1, <2>2 DEF Stalled, InFlight
<1>15. PICK last \in SN : retx[last] # NoPdu /\ Dist(vtA, sn) < Dist(vtA, last)
  <2>1. bigEnough /\ (Stalled \/ (TxonEmpty /\ ~ pollExpired))
    BY <1>1, <1>8, <1>14 DEF TxonEmpty
  <2> QED BY <1>9, <1>13, <2>1 DEF Awake
<1>16. /\ Dist(vtA, sn) \in Nat /\ Dist(vtA, last) \in Nat
       /\ Dist(vtA, pdu.ack) \in Nat /\ Dist(vtA, new) \in Nat
  BY <1>3, <1>5, <1>6, DistType
<1>17. last \notin reported
  BY <1>4, <1>11, <1>15, <1>16
<1>18. retx'[last] # NoPdu
  BY <1>1, <1>15, <1>17 DEF nacked
<1>19. Dist(vtA, new) <= Dist(vtA, sn)
  <2>1. txed'[sn] # NoPdu => sn \in Interval(new, vtS)
    <3>1. SenderWindow'
      BY ReceiveStatusPduKeepsSender DEF RlcInv, SenderInv
    <3> QED BY <1>1, <3>1 DEF SenderWindow, TxWindow
  <2>2. Dist(new, sn) < Dist(new, vtS)
    BY <1>8, <2>1 DEF Interval
  <2>3. Dist(new, vtS) = Dist(vtA, vtS) - Dist(vtA, new)
    BY <1>5, <1>6, DistAdds
  <2>4. SUFFICES ASSUME Dist(vtA, sn) < Dist(vtA, new) PROVE FALSE
    BY <1>16
  <2>5. Dist(new, sn) = Modulus + Dist(vtA, sn) - Dist(vtA, new)
    BY <1>5, <1>6, <2>4, DistWraps
  <2>6. Dist(vtA, vtS) < Modulus /\ Dist(vtA, vtS) \in Nat
    BY <1>6, DistType
  <2> QED BY <1>16, <2>2, <2>3, <2>5, <2>6
<1>20. /\ Dist(new, sn) = Dist(vtA, sn) - Dist(vtA, new)
       /\ Dist(new, last) = Dist(vtA, last) - Dist(vtA, new)
  <2>1. Dist(vtA, new) <= Dist(vtA, last)
    BY <1>15, <1>16, <1>19
  <2> QED BY <1>5, <1>6, <1>19, <2>1, DistAdds
<1>21. Dist(new, sn) < Dist(new, last)
  BY <1>15, <1>16, <1>20
<1> QED BY <1>1, <1>18, <1>21

\* Every step keeps it.
LEMMA NextAwake == RlcInv /\ HistoryInv /\ Awake /\ [Next]_vars => Awake'
<1> SUFFICES ASSUME RlcInv, HistoryInv, Awake, [Next]_vars PROVE Awake'
  OBVIOUS
<1>1. CASE TransmitPdcpPdu
  BY <1>1, TransmitPdcpPduKeepsAwake
<1>2. ASSUME NEW n \in 1 .. MaxPdu, NEW kept \in BOOLEAN, SendNewPdu(n, kept)
      PROVE  Awake'
  BY <1>2, SendNewPduKeepsAwake
<1>3. ASSUME NEW kept \in BOOLEAN, RetransmitAll(kept)
      PROVE  Awake'
  BY <1>3, RetransmitAllKeepsAwake
<1>4. ASSUME NEW len \in 1 .. MaxPdu, NEW kept \in BOOLEAN,
             RetransmitSegment(len, kept)
      PROVE  Awake'
  <2>1. ~ bigEnough /\ UNCHANGED <<bigEnough, vtS>>
        /\ Poll(PollsOnRetx(FirstRetx), Pred(vtS))
    BY <1>4 DEF RetransmitSegment
  <2> QED BY <2>1 DEF Awake, Poll
<1>5. CASE RetransmitNothing
  <2>1. ~ bigEnough /\ UNCHANGED <<bigEnough, vtS>>
        /\ Poll(PollsOnRetx(FirstRetx), Pred(vtS))
    BY <1>5 DEF RetransmitNothing
  <2> QED BY <2>1 DEF Awake, Poll
<1>6. CASE ExpirePollRetransmitTimer
  BY <1>6, ExpirePollRetransmitTimerKeepsAwake
<1>7. CASE ReceiveStatusPdu
  BY <1>7, ReceiveStatusPduKeepsAwake
<1>8. ASSUME NEW i \in 1 .. ChannelBound, ReceiveDataPdu(i)
      PROVE  Awake'
  BY <1>8, AwakeFrame DEF ReceiveDataPdu, txVars
<1>9. CASE ExpireReorderingTimer
  BY <1>9, AwakeFrame DEF ExpireReorderingTimer, txVars
<1>10. ASSUME NEW fit \in 1 .. Window, NEW kept \in BOOLEAN,
              SendStatusPdu(fit, kept)
       PROVE  Awake'
  BY <1>10, AwakeFrame DEF SendStatusPdu, txVars
<1>11. CASE ExpireStatusProhibitTimer
  BY <1>11, AwakeFrame DEF ExpireStatusProhibitTimer, txVars
<1>12. CASE UNCHANGED vars
  BY <1>12, AwakeFrame DEF vars, txVars
<1> QED BY <1>1, <1>2, <1>3, <1>4, <1>5, <1>6, <1>7, <1>8, <1>9, <1>10,
           <1>11, <1>12 DEF Next

\* It holds of every bearer.
THEOREM AwakeInvariant == Spec => []Awake
<1>1. Init => Awake
  BY DEF Init, Awake
<1> QED BY <1>1, NextAwake, RlcInvariant, HistoryInvariant, PTL DEF Spec

\* A sender that waits for an acknowledgement holds the PDU with number VT(A):
\* if that one is not to be retransmitted, the last one is.
LEMMA HeldIsAwake == RlcInv /\ HeadIsHeld /\ Awake => SenderAwake
<1> SUFFICES ASSUME RlcInv, HeadIsHeld, Awake, bigEnough, vtA # vtS,
                    pollTimer = Off,
                    Stalled \/ (TxonEmpty /\ ~ pollExpired)
             PROVE  ~ RetxEmpty
  BY DEF SenderAwake
<1>1. vtA \in SN
  BY DEF RlcInv, SenderInv, SenderTypes
<1>2. CASE retx[vtA] # NoPdu
  BY <1>1, <1>2 DEF RetxEmpty
<1>3. CASE txed[vtA] # NoPdu
  <2>1. PICK last \in SN : retx[last] # NoPdu
    BY <1>1, <1>3 DEF Awake
  <2> QED BY <2>1 DEF RetxEmpty
<1> QED BY <1>2, <1>3 DEF HeadIsHeld

\* Where no PDU is cut, the transmitting side never waits for an answer that
\* nothing can bring, for every window and whatever is lost.
THEOREM SenderAwakeHolds == Spec => []SenderAwake
  BY HeldIsAwake, RlcInvariant, AwakeInvariant, HeadIsHeldHolds, PTL

\* All that was acknowledged is delivered.
LEMMA RestOrOwed ==
    RlcInv /\ HistoryInv /\ SenderAwake => DeliveredOrPollOwed
<1> SUFFICES ASSUME RlcInv, SenderAwake, bigEnough, Quiet,
                    NEW a \in Nat, NEW r \in Nat, NEW m \in Nat, NEW w \in Nat,
                    NEW s \in Nat, NEW start, NEW number, NEW from, NEW to,
                    Tracks(a, r, m, w, s, start, number, from, to)
             PROVE  Len(delivered) = submitted \/ PollOwed
  BY DEF HistoryInv, DeliveredOrPollOwed
<1>1. TxonEmpty /\ RetxEmpty /\ pollTimer = Off
  BY DEF Quiet
<1>2. CASE vtA # vtS
  BY <1>1, <1>2 DEF SenderAwake, PollOwed
<1>3. CASE vtA = vtS
  <2>1. Numbers(a, r, m, w, s) /\ Stream(s, start)
    BY DEF Tracks
  <2>2. a <= r /\ r <= m /\ m <= w /\ w <= s /\ s - a = Dist(vtA, vtS)
    BY <2>1, NumbersFit
  <2>3. Dist(vtA, vtS) = 0
    BY <1>3, DistType DEF RlcInv, SenderInv, SenderTypes
  <2>4. r = s
    BY <2>2, <2>3
  <2>5. Len(delivered) = start[s] - 1
    BY <2>4, DeliveredBytes
  <2>6. start[s] = sent + 1 /\ sent = submitted /\ sent \in Int
    BY <1>1, <2>1 DEF Stream, TxonEmpty, RlcInv, SenderInv, SenderTypes
  <2> QED BY <2>5, <2>6
<1> QED BY <1>2, <1>3

\* A bearer without cut PDUs that has come to rest has delivered every SDU, or
\* owes a poll that nothing is left to carry: for every window, the finding is
\* the only way to stop early.
THEOREM DeliveredOrPollOwedHolds == Spec => []DeliveredOrPollOwed
  BY RestOrOwed, RlcInvariant, HistoryInvariant, SenderAwakeHolds, PTL

-----------------------------------------------------------------------------
(* Types.                                                                  *)

\* What the history leaves open: the flags and timers, and that m_rxonBuffer
\* is a function to entries.
IsEntry(entry) == entry = [bytes |-> entry.bytes, complete |-> entry.complete]

FlagTypes ==
    /\ bigEnough \in BOOLEAN
    /\ pollTimer \in SN \union {Off}
    /\ statusRequested \in BOOLEAN /\ prohibitTimer \in BOOLEAN
    /\ granted \in BOOLEAN
    /\ rxon = [sn \in SN |-> rxon[sn]]
    /\ \A sn \in SN : IsEntry(rxon[sn])

\* Whatever a data PDU brings, an entry takes the place of an entry.
LEMMA PlacedIsEntry ==
    ASSUME FlagTypes, NEW m, m.sn \in SN
    PROVE  IsEntry(Placed(m)) /\ IsEntry(NoEntry)
<1>1. IsEntry(rxon[m.sn])
  BY DEF FlagTypes
<1>2. IsEntry(NoEntry)
  BY DEF IsEntry, NoEntry
<1>3. IsEntry(NewEntry(m))
  BY <1>2 DEF IsEntry, NewEntry
<1>4. IsEntry(Joined(rxon[m.sn], m))
  BY DEF IsEntry, Joined
<1> HIDE DEF NoEntry
<1> QED BY <1>1, <1>2, <1>3, <1>4 DEF Placed

\* So m_rxonBuffer stays a function to entries.
LEMMA PlaceAndDeliverKeepsEntries ==
    ASSUME FlagTypes, NEW m, m.sn \in SN, PlaceAndDeliver(m)
    PROVE  rxon' = [sn \in SN |-> rxon'[sn]] /\ \A sn \in SN : IsEntry(rxon'[sn])
<1> DEFINE buffer == [rxon EXCEPT ![m.sn] = Placed(m)]
           low == IF m.sn = vrR THEN FirstFrom(vrR, Incomplete(buffer)) ELSE vrR
<1>1. rxon' = [sn \in SN |-> IF sn \in Interval(vrR, low)
                                 THEN NoEntry ELSE buffer[sn]]
  BY DEF PlaceAndDeliver
<1>2. \A sn \in SN : buffer[sn] = IF sn = m.sn THEN Placed(m) ELSE rxon[sn]
  BY DEF FlagTypes
<1>3. IsEntry(Placed(m)) /\ IsEntry(NoEntry) /\ \A sn \in SN : IsEntry(rxon[sn])
  BY PlacedIsEntry DEF FlagTypes
<1> HIDE DEF buffer, low
<1>4. ASSUME NEW sn \in SN PROVE IsEntry(rxon'[sn])
  <2>1. \/ rxon'[sn] = NoEntry \/ rxon'[sn] = Placed(m) \/ rxon'[sn] = rxon[sn]
    BY <1>1, <1>2
  <2> QED BY <1>3, <2>1
<1> QED BY <1>1, <1>4

\* Every step keeps these types.
LEMMA NextFlagTypes == RlcInv /\ FlagTypes /\ [Next]_vars => FlagTypes'
<1> SUFFICES ASSUME RlcInv, FlagTypes, [Next]_vars PROVE FlagTypes'
  OBVIOUS
<1>1. ASSUME UNCHANGED <<bigEnough, rxVars>>, pollTimer' \in SN \union {Off}
      PROVE  FlagTypes'
  BY <1>1 DEF FlagTypes, rxVars
<1>2. pollTimer \in SN \union {Off} /\ vtS \in SN /\ Pred(vtS) \in SN
  BY PredType DEF FlagTypes, RlcInv, SenderInv, SenderTypes
<1>3. CASE TransmitPdcpPdu
  BY <1>1, <1>2, <1>3 DEF TransmitPdcpPdu
<1>4. ASSUME NEW n \in 1 .. MaxPdu, NEW kept \in BOOLEAN, SendNewPdu(n, kept)
      PROVE  FlagTypes'
  BY <1>1, <1>2, <1>4 DEF SendNewPdu, Poll
<1>5. ASSUME NEW kept \in BOOLEAN, RetransmitAll(kept)
      PROVE  FlagTypes'
  BY <1>1, <1>2, <1>5 DEF RetransmitAll, Poll
<1>6. ASSUME NEW len \in 1 .. MaxPdu, NEW kept \in BOOLEAN,
             RetransmitSegment(len, kept)
      PROVE  FlagTypes'
  BY <1>1, <1>2, <1>6 DEF RetransmitSegment, Poll
<1>7. CASE RetransmitNothing
  BY <1>1, <1>2, <1>7 DEF RetransmitNothing, Poll
<1>8. CASE ExpirePollRetransmitTimer
  BY <1>1, <1>2, <1>8 DEF ExpirePollRetransmitTimer
<1>9. CASE ReceiveStatusPdu
  BY <1>1, <1>2, <1>9 DEF ReceiveStatusPdu, StopPollTimer
<1>10. ASSUME NEW i \in 1 .. ChannelBound, ReceiveDataPdu(i)
       PROVE  FlagTypes'
  <2> DEFINE m == data[i]
  <2>1. /\ i <= Len(data)
        /\ statusRequested' = (statusRequested \/ m.poll)
        /\ granted' = (granted \/ (m.poll /\ ~ prohibitTimer))
        /\ PlaceAndDeliver(m) \/ UNCHANGED rxon
        /\ UNCHANGED <<bigEnough, pollTimer, prohibitTimer>>
    BY <1>10 DEF ReceiveDataPdu, Arrives, txVars
  <2>2. m.sn \in SN
    <3>1. data \in Seq(AnyDataPdu)
      BY DEF RlcInv, MacTypes
    <3>2. m \in AnyDataPdu
      BY <2>1, <3>1, ElementOfSeq
    <3> QED BY <3>2 DEF AnyDataPdu
  <2> HIDE DEF m
  <2>3. rxon' = [sn \in SN |-> rxon'[sn]] /\ \A sn \in SN : IsEntry(rxon'[sn])
    <3>1. CASE PlaceAndDeliver(m)
      BY <2>2, <3>1, PlaceAndDeliverKeepsEntries
    <3>2. CASE UNCHANGED rxon
      BY <3>2 DEF FlagTypes
    <3> QED BY <2>1, <3>1, <3>2
  <2>4. statusRequested' \in BOOLEAN /\ granted' \in BOOLEAN
    BY <2>1
  <2> QED BY <2>1, <2>3, <2>4 DEF FlagTypes
<1>11. CASE ExpireReorderingTimer
  BY <1>11 DEF ExpireReorderingTimer, FlagTypes, txVars
<1>12. ASSUME NEW fit \in 1 .. Window, NEW kept \in BOOLEAN,
              SendStatusPdu(fit, kept)
       PROVE  FlagTypes'
  BY <1>12 DEF SendStatusPdu, FlagTypes, txVars
<1>13. CASE ExpireStatusProhibitTimer
  BY <1>13 DEF ExpireStatusProhibitTimer, FlagTypes, txVars
<1>14. CASE UNCHANGED vars
  BY <1>1, <1>2, <1>14 DEF vars, txVars
<1> QED BY <1>3, <1>4, <1>5, <1>6, <1>7, <1>8, <1>9, <1>10, <1>11, <1>12,
           <1>13, <1>14 DEF Next

\* They hold of every bearer.
THEOREM FlagTypesInvariant == Spec => []FlagTypes
<1>1. Init => FlagTypes
  <2> SUFFICES ASSUME Init PROVE FlagTypes
    OBVIOUS
  <2>1. rxon = [sn \in SN |-> NoEntry]
    BY DEF Init
  <2>2. rxon = [sn \in SN |-> rxon[sn]] /\ \A sn \in SN : rxon[sn] = NoEntry
    BY <2>1
  <2>3. IsEntry(NoEntry)
    BY DEF IsEntry, NoEntry
  <2> QED BY <2>2, <2>3 DEF Init, FlagTypes
<1> QED BY <1>1, NextFlagTypes, RlcInvariant, PTL DEF Spec

\* The PDUs of a history lie in the bytes that were submitted.
LEMMA PduTypes ==
    ASSUME RlcInv, NEW s \in Nat, NEW start, Stream(s, start)
    PROVE  /\ submitted \in 0 .. Sdus * SduSize
           /\ sent \in 0 .. submitted
           /\ \A k \in 0 .. s : start[k] \in Nat \ {0} /\ start[k] <= sent + 1
           /\ \A k \in 0 .. s - 1 :
                  /\ PduAt(start, k) \in Pdu
                  /\ start[k + 1] - start[k] \in 1 .. MaxPdu
                  /\ start[k] \in Nat /\ start[k + 1] \in Nat
                  /\ start[k + 1] <= sent + 1
<1>1. sent \in Int
  BY DEF RlcInv, SenderInv, SenderTypes
<1>2. start[s] \in Nat \ {0} /\ start[s] = sent + 1
  BY DEF Stream
<1>3. submitted \in Nat /\ sent <= submitted /\ submitted <= Sdus * SduSize
  BY DEF Stream
<1>4. PICK bytes \in Nat : bytes = Sdus * SduSize
  BY RlcAssumption
<1>5. sent \in 0 .. submitted /\ submitted \in 0 .. bytes
  BY <1>1, <1>2, <1>3, <1>4
<1>6. \A k \in 0 .. s : start[k] \in Nat \ {0} /\ start[k] <= sent + 1
  <2>1. SUFFICES ASSUME NEW k \in 0 .. s
                 PROVE  start[k] \in Nat \ {0} /\ start[k] <= start[s]
    BY <1>2
  <2>2. start[k] \in Nat \ {0} /\ (k < s => start[k] < start[s])
    BY <2>1 DEF Stream
  <2> QED BY <1>2, <2>2
<1>7. ASSUME NEW k \in 0 .. s - 1
      PROVE  /\ PduAt(start, k) \in Pdu
             /\ start[k + 1] - start[k] \in 1 .. MaxPdu
             /\ start[k] \in Nat /\ start[k + 1] \in Nat
             /\ start[k + 1] <= sent + 1
  <2>1. k \in 0 .. s /\ k + 1 \in 0 .. s
    OBVIOUS
  <2>2. PICK p \in Nat \ {0} : p = start[k]
    BY <1>6, <2>1
  <2>3. PICK q \in Nat \ {0} : q = start[k + 1] /\ q <= sent + 1
    BY <1>6, <2>1
  <2>4. start[k + 1] - start[k] \in 1 .. MaxPdu
    BY DEF Stream
  <2>5. q - p \in 1 .. MaxPdu /\ MaxPdu \in Nat
    BY <2>2, <2>3, <2>4, RlcAssumption
  <2>6. p \in 1 .. bytes
    BY <1>5, <2>3, <2>5
  <2>7. PduAt(start, k) = [from |-> p, len |-> q - p]
    BY <2>2, <2>3 DEF PduAt
  <2> QED BY <1>4, <2>2, <2>3, <2>4, <2>5, <2>6, <2>7 DEF Pdu, Byte
<1> QED BY <1>4, <1>5, <1>6, <1>7

\* The buffers of the transmitting side hold PDUs of the window.
LEMMA BufferTypes ==
    ASSUME RlcInv, FlagTypes,
           NEW a \in Nat, NEW r \in Nat, NEW m \in Nat, NEW w \in Nat,
           NEW s \in Nat, NEW start, NEW number, NEW from, NEW to,
           Tracks(a, r, m, w, s, start, number, from, to)
    PROVE  /\ txed \in [SN -> Pdu \union {NoPdu}]
           /\ retx \in [SN -> Pdu \union {NoPdu}]
           /\ retxSeg \in [SN -> {NoSegment} \union 0 .. MaxPdu]
<1>1. /\ Numbers(a, r, m, w, s) /\ Stream(s, start) /\ Buffers(a, s, start)
      /\ Segments
  BY DEF Tracks
<1>2. SenderTypes /\ SenderWindow
  BY DEF RlcInv, SenderInv
<1>3. ASSUME NEW sn \in SN
      PROVE  txed[sn] \in Pdu \union {NoPdu} /\ retx[sn] \in Pdu \union {NoPdu}
  <2>1. CASE sn \notin TxWindow
    BY <1>2, <2>1 DEF SenderWindow
  <2>2. CASE sn \in TxWindow
    <3>1. \A x \in TxWindow : \E k \in a .. s - 1 : x = Num(k)
      BY <1>1, SenderNumbers
    <3>2. PICK k \in a .. s - 1 : sn = Num(k)
      BY <2>2, <3>1
    <3>3. k \in 0 .. s - 1
      OBVIOUS
    <3>4. PduAt(start, k) \in Pdu
      BY <1>1, <3>3, PduTypes
    <3>5. /\ txed[Num(k)] \in {NoPdu, PduAt(start, k)}
          /\ retx[Num(k)] \in {NoPdu, PduAt(start, k)}
      BY <1>1 DEF Buffers
    <3> HIDE DEF NoPdu, Pdu, PduAt
    <3> QED BY <3>2, <3>4, <3>5
  <2> QED BY <2>1, <2>2
<1>4. txed \in [SN -> Pdu \union {NoPdu}] /\ retx \in [SN -> Pdu \union {NoPdu}]
  BY <1>2, <1>3 DEF SenderTypes
<1>5. ASSUME NEW sn \in SN PROVE retxSeg[sn] \in {NoSegment} \union 0 .. MaxPdu
  <2>1. SUFFICES ASSUME retxSeg[sn] # NoSegment
                 PROVE  retxSeg[sn] \in 0 .. MaxPdu
    OBVIOUS
  <2>2. retx[sn] # NoPdu /\ retxSeg[sn] \in 1 .. retx[sn].len - 1
    BY <1>1, <2>1 DEF Segments
  <2>3. retx[sn] \in Pdu
    BY <1>3, <2>2
  <2>4. retx[sn].len \in 1 .. MaxPdu /\ MaxPdu \in Nat
    BY <2>3, RlcAssumption DEF Pdu
  <2> QED BY <2>2, <2>4
<1>6. retxSeg \in [SN -> {NoSegment} \union 0 .. MaxPdu]
  BY <1>2, <1>5 DEF SenderTypes
<1> QED BY <1>4, <1>6

\* What is in flight are pieces of PDUs.
LEMMA DataTypes ==
    ASSUME RlcInv, FlagTypes,
           NEW a \in Nat, NEW r \in Nat, NEW m \in Nat, NEW w \in Nat,
           NEW s \in Nat, NEW start, NEW number, NEW from, NEW to,
           Tracks(a, r, m, w, s, start, number, from, to)
    PROVE  data \in Seq(DataPdu) /\ status \in Seq(StatusPdu)
<1>1. Stream(s, start) /\ Data(r, w, s, start, number)
  BY DEF Tracks
<1>2. data \in Seq(AnyDataPdu) /\ status \in Seq(StatusPdu)
  BY DEF RlcInv, MacTypes
<1>3. ASSUME NEW i \in 1 .. Len(data) PROVE data[i] \in DataPdu
  <2>1. PICK pdu \in AnyDataPdu : pdu = data[i]
    BY <1>2, ElementOfSeq
  <2>2. PICK n \in 0 .. s - 1 : n = number[i]
    BY <1>1 DEF Data, Carries
  <2>3. Carries(s, start, pdu, n) /\ pdu.overtaken \in 0 .. Overtakes
    BY <1>1, <2>1, <2>2 DEF Data
  <2>4. PduAt(start, n) \in Pdu
    BY <1>1, PduTypes
  <2>5. pdu.pdu = PduAt(start, n) /\ pdu.offset \in Nat /\ pdu.len \in Nat \ {0}
        /\ pdu.offset + pdu.len <= pdu.pdu.len
    BY <2>3 DEF Carries
  <2>6. pdu.pdu \in Pdu
    BY <2>4, <2>5
  <2>7. pdu.pdu.len \in 1 .. MaxPdu /\ MaxPdu \in Nat
    BY <2>6, RlcAssumption DEF Pdu
  <2>8. PICK o \in Nat : o = pdu.offset
    BY <2>5
  <2>9. PICK l \in Nat : l = pdu.len
    BY <2>5
  <2>10. o \in 0 .. MaxPdu /\ l \in 0 .. MaxPdu
    <3>1. PICK max \in 1 .. MaxPdu : max = pdu.pdu.len
      BY <2>7
    <3>2. o + l <= max
      BY <2>5, <2>8, <2>9, <3>1
    <3> QED BY <2>7, <3>2
  <2>11. pdu \in DataPdu
    BY <2>1, <2>3, <2>6, <2>8, <2>9, <2>10 DEF AnyDataPdu, DataPdu
  <2> QED BY <2>1, <2>11
<1>4. data = [i \in 1 .. Len(data) |-> data[i]] /\ Len(data) \in Nat
  BY <1>2, LenProperties
<1>5. data \in Seq(DataPdu)
  BY <1>3, <1>4
<1> QED BY <1>2, <1>5

\* The bytes that the receiver holds or has delivered have been submitted.
LEMMA ByteTypes ==
    ASSUME RlcInv, FlagTypes,
           NEW a \in Nat, NEW r \in Nat, NEW m \in Nat, NEW w \in Nat,
           NEW s \in Nat, NEW start, NEW number, NEW from, NEW to,
           Tracks(a, r, m, w, s, start, number, from, to)
    PROVE  rxon \in [SN -> Entry] /\ delivered \in Seq(Byte)
<1>1. /\ Numbers(a, r, m, w, s) /\ Stream(s, start) /\ Entries(r, w, start)
      /\ Delivery(r, start)
  BY DEF Tracks
<1>2. /\ submitted \in 0 .. Sdus * SduSize /\ sent \in 0 .. submitted
      /\ \A k \in 0 .. s : start[k] \in Nat \ {0} /\ start[k] <= sent + 1
      /\ \A k \in 0 .. s - 1 : /\ start[k] \in Nat /\ start[k + 1] \in Nat
                               /\ start[k + 1] <= sent + 1
  BY <1>1, PduTypes
<1>3. a <= r /\ r <= m /\ m <= w /\ w <= s /\ w - r <= Window /\ Window < Modulus
      /\ Window \in Nat
  BY <1>1, NumbersFit
<1>4. ASSUME NEW x \in Int, 0 < x, x <= sent PROVE x \in Byte
  <2>1. PICK bytes \in Nat : bytes = Sdus * SduSize
    BY RlcAssumption
  <2>2. submitted \in 0 .. bytes
    BY <1>2, <2>1
  <2>3. x \in 1 .. bytes
    BY <1>2, <1>4, <2>2
  <2> QED BY <2>1, <2>3 DEF Byte
<1>5. ASSUME NEW sn \in SN PROVE rxon[sn] \in Entry
  <2>1. IsEntry(rxon[sn])
    BY DEF FlagTypes
  <2>2. PICK bytes, complete : bytes = rxon[sn].bytes /\ complete = rxon[sn].complete
    OBVIOUS
  <2>3. rxon[sn] = [bytes |-> bytes, complete |-> complete]
    BY <2>1, <2>2 DEF IsEntry
  <2>4. CASE sn \notin Interval(vrR, vrH)
    <3>1. rxon[sn] = NoEntry
      BY <2>4 DEF RlcInv, ReceiverInv, ReceiverOrder
    <3>2. bytes = <<>> /\ complete = FALSE
      BY <2>2, <3>1 DEF NoEntry
    <3>3. bytes \in Seq(Byte)
      BY <3>2, EmptySeq
    <3>4. complete \in BOOLEAN
      BY <3>2
    <3> QED BY <2>3, <3>3, <3>4 DEF Entry
  <2>5. CASE sn \in Interval(vrR, vrH)
    <3>1. vrR = Num(r) /\ vrH = Num(w)
      BY <1>1 DEF Numbers
    <3>2. \A x \in Interval(Num(r), Num(w)) : \E k \in r .. w - 1 : x = Num(k)
      BY <1>3, NumInterval
    <3>3. PICK k \in r .. w - 1 : sn = Num(k)
      BY <2>5, <3>1, <3>2
    <3>4. /\ bytes \in Seq(Nat) /\ complete \in BOOLEAN
          /\ \A j \in 1 .. Len(bytes) : bytes[j] = start[k] + j - 1
          /\ Len(bytes) <= start[k + 1] - start[k]
      BY <1>1, <2>2, <3>3 DEF Entries
    <3>5. k \in 0 .. s - 1 /\ k \in 0 .. s
      BY <1>3
    <3>6. PICK p \in Nat \ {0} : p = start[k]
      BY <1>2, <3>5
    <3>7. PICK q \in Nat : q = start[k + 1] /\ q <= sent + 1
      BY <1>2, <3>5
    <3>8. ASSUME NEW j \in 1 .. Len(bytes) PROVE bytes[j] \in Byte
      <4>1. bytes[j] = p + j - 1
        BY <3>4, <3>6
      <4>2. Len(bytes) \in Nat /\ Len(bytes) <= q - p
        BY <3>4, <3>6, <3>7
      <4>3. PICK l \in Nat : l = Len(bytes)
        BY <4>2
      <4>4. j \in 1 .. l /\ l <= q - p
        BY <4>2, <4>3
      <4>5. PICK x \in Int : x = p + j - 1
        BY <3>6, <4>4
      <4>6. 0 < x /\ x <= sent
        <5>1. PICK z \in Int : z = sent /\ q <= z + 1
          BY <1>2, <3>7
        <5>2. /\ p \in Nat \ {0} /\ q \in Nat /\ l \in Nat /\ j \in 1 .. l
              /\ x = p + j - 1 /\ l <= q - p /\ q <= z + 1 /\ z \in Int
          BY <3>6, <3>7, <4>3, <4>4, <4>5, <5>1
        <5>3. 0 < x /\ x <= z
          BY ONLY <5>2
        <5> QED BY <5>1, <5>3
      <4> QED BY <1>4, <4>1, <4>5, <4>6
    <3>9. bytes = [j \in 1 .. Len(bytes) |-> bytes[j]] /\ Len(bytes) \in Nat
      BY <3>4, LenProperties
    <3>10. bytes \in Seq(Byte)
      BY <3>8, <3>9
    <3> QED BY <2>3, <3>4, <3>10 DEF Entry
  <2> QED BY <2>4, <2>5
<1>6. rxon \in [SN -> Entry]
  <2>1. rxon = [sn \in SN |-> rxon[sn]]
    BY DEF FlagTypes
  <2> HIDE DEF Entry
  <2> QED BY <1>5, <2>1
<1>7. delivered \in Seq(Byte)
  <2>1. r \in 0 .. s
    BY <1>3
  <2>2. PICK p \in Nat \ {0} : p = start[r] /\ p <= sent + 1
    BY <1>2, <2>1
  <2>3. delivered = [b \in 1 .. p - 1 |-> b]
    BY <1>1, <2>2 DEF Delivery
  <2>4. \A b \in 1 .. p - 1 : b \in Byte
    BY <1>2, <1>4, <2>2
  <2>5. p - 1 \in Nat
    BY <2>2
  <2> QED BY <2>3, <2>4, <2>5
<1> QED BY <1>6, <1>7

\* All types follow from the history and the flags.
LEMMA TypesHold == RlcInv /\ HistoryInv /\ FlagTypes => TypeOK
<1> SUFFICES ASSUME RlcInv, FlagTypes,
                    NEW a \in Nat, NEW r \in Nat, NEW m \in Nat, NEW w \in Nat,
                    NEW s \in Nat, NEW start, NEW number, NEW from, NEW to,
                    Tracks(a, r, m, w, s, start, number, from, to)
             PROVE  TypeOK
  BY DEF HistoryInv
<1>1. submitted \in 0 .. Sdus * SduSize /\ sent \in 0 .. submitted
  BY PduTypes DEF Tracks
<1>2. /\ txed \in [SN -> Pdu \union {NoPdu}]
      /\ retx \in [SN -> Pdu \union {NoPdu}]
      /\ retxSeg \in [SN -> {NoSegment} \union 0 .. MaxPdu]
  BY BufferTypes
<1>3. data \in Seq(DataPdu) /\ status \in Seq(StatusPdu)
  BY DataTypes
<1>4. rxon \in [SN -> Entry] /\ delivered \in Seq(Byte)
  BY ByteTypes
<1>5. vtA \in SN /\ vtS \in SN /\ pollExpired \in BOOLEAN
  BY DEF RlcInv, SenderInv, SenderTypes
<1>6. vrR \in SN /\ vrMs \in SN /\ vrH \in SN
      /\ reorderingTimer \in SN \union {Off}
  BY DEF RlcInv, ReceiverInv, ReceiverTypes
<1> QED BY <1>1, <1>2, <1>3, <1>4, <1>5, <1>6 DEF TypeOK, FlagTypes

\* Every variable keeps its type.
THEOREM TypeCorrect == Spec => []TypeOK
  BY TypesHold, RlcInvariant, HistoryInvariant, FlagTypesInvariant, PTL
=============================================================================
