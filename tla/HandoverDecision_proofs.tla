----------------------- MODULE HandoverDecision_proofs -----------------------
(***************************************************************************)
(* The steps of the handover decision keep the types of its variables, for *)
(* every set of cells, every value of the attributes and every handover    *)
(* mode, whatever system they are part of.  Then the facts that these      *)
(* systems share about natural numbers and about the messages on a FIFO    *)
(* link, whatever the messages are.                                        *)
(***************************************************************************)
EXTENDS HandoverDecision, Sequences, WellFoundedInduction, TLAPS

\* A quotient lies between two bounds of which the dividend is a multiple.
LEMMA QuotientBounds ==
    ASSUME NEW x \in Int, NEW d \in Nat \ {0}, NEW a \in Int, NEW b \in Int,
           a * d <= x, x <= b * d
    PROVE  x \div d \in a .. b
<1> DEFINE q == x \div d
<1>1. q \in Int /\ q * d <= x /\ x < (q + 1) * d
  BY SMT
<1>2. q <= b
  <2>1. SUFFICES ASSUME q >= b + 1 PROVE FALSE
    BY <1>1
  <2>2. q * d >= (b + 1) * d
    BY <2>1, <1>1
  <2>3. (b + 1) * d = b * d + d
    OBVIOUS
  <2> QED BY <1>1, <2>2, <2>3
<1>3. a <= q
  <2>1. SUFFICES ASSUME a >= q + 1 PROVE FALSE
    BY <1>1
  <2>2. a * d >= (q + 1) * d
    BY <2>1, <1>1
  <2> QED BY <1>1, <2>2
<1> QED BY <1>1, <1>2, <1>3

\* What the SINR map yields is a number.
LEMMA SinrIsNat ==
    ASSUME DecisionTypeOK
    PROVE  (\A c \in Cell : sinr[c] \in Nat) /\ CurrentSinr \in Nat
<1>0. \A s \in Level \cup {0} : s \in Nat
  BY SinrAssumption
<1>1. ASSUME NEW c \in Cell PROVE sinr[c] \in Nat
  <2>1. sinr[c] \in Level \cup {0}
    BY DEF DecisionTypeOK
  <2> QED BY <2>1, <1>0
<1>2. CASE lastCell \in Cell
  BY <1>1, <1>2 DEF CurrentSinr
<1>3. CASE lastCell \notin Cell
  <2>1. CurrentSinr = 0
    BY <1>3 DEF CurrentSinr
  <2> QED BY <1>1, <2>1
<1> QED BY <1>1, <1>2, <1>3

\* The time to trigger fits the uint8_t it is truncated to: between the two
\* differences it is an interpolation, outside them one of its ends.
LEMMA ComputeTttFits ==
    ASSUME DecisionTypeOK, NEW max \in Cell, IsMaxSinrCell(max)
    PROVE  ComputeTtt(max) \in 0 .. 255
<1> USE TttAssumption
<1>1. CASE HandoverMode = "FIXED_TTT"
  BY <1>1 DEF ComputeTtt
<1>2. CASE HandoverMode # "FIXED_TTT" /\ DifferenceAbove(max, MaxDiff)
  BY <1>2 DEF ComputeTtt
<1>3. CASE HandoverMode # "FIXED_TTT" /\ ~DifferenceAbove(max, MaxDiff)
  <2> DEFINE diff == sinr[max] - CurrentSinr
             above == diff - MinDiff
             range == MaxDiff - MinDiff
             span == MaxDynTtt - MinDynTtt
  <2>1. diff \in Int /\ diff <= MaxDiff
    BY <1>3, SinrIsNat DEF DifferenceAbove
  <2>2. CASE diff < MinDiff
    BY <1>3, <2>2 DEF ComputeTtt
  <2>3. CASE ~(diff < MinDiff)
    <3>1. /\ above \in Nat /\ range \in Nat \ {0} /\ span \in Nat
          /\ above <= range
      BY <2>1, <2>3
    <3>2. 0 <= span * above /\ span * above <= span * range
      BY <3>1
    <3>3. MaxDynTtt * range = MinDynTtt * range + span * range
      BY <3>1
    <3>4. /\ MinDynTtt * range <= MaxDynTtt * range - span * above
          /\ MaxDynTtt * range - span * above <= MaxDynTtt * range
      BY <3>1, <3>2, <3>3
    <3>5. (MaxDynTtt * range - span * above) \div range \in MinDynTtt .. MaxDynTtt
      <4>1. MaxDynTtt * range - span * above \in Int
        BY <3>1
      <4> HIDE DEF range, span, above
      <4> QED BY <3>1, <3>4, <4>1, QuotientBounds
    <3>6. ComputeTtt(max) = (MaxDynTtt * range - span * above) \div range
      BY <1>3, <2>3 DEF ComputeTtt
    <3> QED BY <3>5, <3>6
  <2> QED BY <2>2, <2>3
<1> QED BY <1>1, <1>2, <1>3

-----------------------------------------------------------------------------
(***************************************************************************)
(* Type correctness.                                                       *)
(***************************************************************************)
LEMMA UpdateEventType ==
    ASSUME DecisionTypeOK, NEW max \in Cell, IsMaxSinrCell(max), UpdateEvent(max)
    PROVE  event' \in Event
<1>1. ComputeTtt(max) \in 0 .. 255
  BY ComputeTttFits
<1>2. ASSUME Schedule(max) PROVE event' \in Event
  BY <1>1, <1>2 DEF Schedule, Event, DecisionTypeOK
<1> QED BY <1>2 DEF UpdateEvent, Event, DecisionTypeOK

\* A command that is sent is a command.
LEMMA SendTypes ==
    ASSUME DecisionTypeOK
    PROVE  /\ SendNothing => sent' \in Command /\ connecting' \in SUBSET Cell
           /\ \A d \in Cell :
                SendMcHandoverRequest(lastCell, d) =>
                    sent' \in Command /\ connecting' \in SUBSET Cell
           /\ \A d \in Cell :
                SendConnectToMmWave(d) => sent' \in Command /\ connecting' \in SUBSET Cell
           /\ \A u \in BOOLEAN :
                SendRrcConnectionSwitch(u) =>
                    /\ sent' \in Command /\ connecting' \in SUBSET Cell
                    /\ usingLte' \in BOOLEAN
<1>1. SendNothing => sent' \in Command /\ connecting' \in SUBSET Cell
  BY DEF SendNothing, DecisionTypeOK, Command
<1>2. ASSUME NEW d \in Cell, SendMcHandoverRequest(lastCell, d)
      PROVE sent' \in Command /\ connecting' \in SUBSET Cell
  BY <1>2 DEF SendMcHandoverRequest, DecisionTypeOK, Command
<1>3. ASSUME NEW d \in Cell, SendConnectToMmWave(d)
      PROVE sent' \in Command /\ connecting' \in SUBSET Cell
  BY <1>3 DEF SendConnectToMmWave, DecisionTypeOK, Command
<1>4. ASSUME NEW u \in BOOLEAN, SendRrcConnectionSwitch(u)
      PROVE /\ sent' \in Command /\ connecting' \in SUBSET Cell
            /\ usingLte' \in BOOLEAN
  BY <1>4 DEF SendRrcConnectionSwitch, DecisionTypeOK, Command
<1> QED BY <1>1, <1>2, <1>3, <1>4

LEMMA TriggerType ==
    ASSUME DecisionTypeOK, TriggerUeAssociationUpdate
    PROVE  DecisionTypeOK'
<1>1. PICK max \in Cell :
         /\ IsMaxSinrCell(max)
         /\ \/ Outage(max)
            \/ /\ bestCell' = max
               /\ \/ ThresholdBasedSecondaryCellHandover(max)
                  \/ TttBasedHandover(max)
               /\ UNCHANGED lastCell
  BY DEF TriggerUeAssociationUpdate
<1>2. UNCHANGED <<ueState, sinr>>
  BY DEF TriggerUeAssociationUpdate
<1>3. UpdateEvent(max) => event' \in Event
  BY <1>1, UpdateEventType
<1>4. NoEvent \in Event
  BY DEF Event
<1>5. StartHandover(max) =>
        sent' \in Command /\ connecting' \in SUBSET Cell /\ setup' = "false"
  BY SendTypes DEF StartHandover
<1>6. CASE Outage(max)
  BY <1>2, <1>4, <1>6, SendTypes DEF Outage, DecisionTypeOK
<1>7. BackToMmWave(max) =>
        /\ sent' \in Command /\ connecting' \in SUBSET Cell
        /\ usingLte' \in BOOLEAN
        /\ setup' \in {"absent", "false", "true"}
  BY <1>5, SendTypes DEF BackToMmWave, DecisionTypeOK
<1>8. CASE bestCell' = max /\ UNCHANGED lastCell /\ TttBasedHandover(max)
  BY <1>2, <1>3, <1>7, <1>8, SendTypes DEF TttBasedHandover, DecisionTypeOK
<1>9. CASE /\ bestCell' = max /\ UNCHANGED lastCell
           /\ ThresholdBasedSecondaryCellHandover(max)
  BY <1>2, <1>5, <1>7, <1>9, SendTypes
  DEF ThresholdBasedSecondaryCellHandover, DecisionTypeOK
<1> QED BY <1>1, <1>6, <1>8, <1>9

LEMMA DecisionInitType == DecisionInit => DecisionTypeOK
<1> SUFFICES ASSUME DecisionInit PROVE DecisionTypeOK
  OBVIOUS
<1>1. sinr \in [Cell -> Level \cup {0}]
  BY DEF DecisionInit
<1>2. event \in Event /\ sent \in Command /\ connecting \in SUBSET Cell
  BY DEF DecisionInit, Event, Command
<1>3. usingLte \in BOOLEAN /\ allInOutage \in BOOLEAN
  BY DEF DecisionInit
<1> QED BY <1>1, <1>2, <1>3 DEF DecisionInit, DecisionTypeOK

LEMMA ReportType ==
    ASSUME DecisionTypeOK, NEW c \in Cell, DoRecvUeSinrUpdate(c)
    PROVE  DecisionTypeOK'
<1>1. sinr' \in [Cell -> Level \cup {0}]
  BY DEF DoRecvUeSinrUpdate, DecisionTypeOK
<1> QED BY <1>1, SendTypes DEF DoRecvUeSinrUpdate, DecisionTypeOK, maps

LEMMA AttachTypes ==
    ASSUME DecisionTypeOK,
           RecvRrcConnectionRequest \/ RecvRrcConnectionSetupCompleted
    PROVE  DecisionTypeOK'
<1>1. CASE RecvRrcConnectionRequest
  BY <1>1, SendTypes DEF RecvRrcConnectionRequest, DecisionTypeOK
<1>2. CASE RecvRrcConnectionSetupCompleted
  BY <1>2, SendTypes DEF RecvRrcConnectionSetupCompleted, DecisionTypeOK
<1> QED BY <1>1, <1>2

LEMMA McSetupType ==
    ASSUME DecisionTypeOK, NEW c \in Cell, McSetupCompleted(c)
    PROVE  DecisionTypeOK'
<1>1. sent' \in Command /\ connecting' \in SUBSET Cell
  BY DEF McSetupCompleted, DecisionTypeOK, Command
<1>2. usingLte' \in BOOLEAN
  BY DEF McSetupCompleted
<1> QED BY <1>1, <1>2 DEF McSetupCompleted, DecisionTypeOK

LEMMA HandoverStepTypes ==
    ASSUME DecisionTypeOK,
           \/ Tick \/ PerformHandover
           \/ \E c \in Cell : RecvSecondaryCellHandoverCompleted(c)
    PROVE  DecisionTypeOK'
<1>1. CASE Tick
  <2>1. event' \in Event
    BY <1>1 DEF Tick, DecisionTypeOK, Event
  <2> QED BY <1>1, <2>1, SendTypes DEF Tick, DecisionTypeOK
<1>2. CASE PerformHandover
  <2>1. event' \in Event
    BY <1>2 DEF PerformHandover, Event
  <2>2. event.target \in Cell
    BY <1>2 DEF PerformHandover, DecisionTypeOK, Event
  <2> QED BY <1>2, <2>1, <2>2, SendTypes DEF PerformHandover, StartHandover, DecisionTypeOK
<1>3. ASSUME NEW c \in Cell, RecvSecondaryCellHandoverCompleted(c)
      PROVE DecisionTypeOK'
  BY <1>3, SendTypes DEF RecvSecondaryCellHandoverCompleted, DecisionTypeOK
<1> QED BY <1>1, <1>2, <1>3

-----------------------------------------------------------------------------
(***************************************************************************)
(* Natural numbers, and the messages on a link.                            *)
(***************************************************************************)
\* A set of natural numbers has a least one.
LEMMA LeastNatural ==
    ASSUME NEW T, T \subseteq Nat, T # {}
    PROVE  \E x \in T : \A y \in T : x <= y
<1> DEFINE R == OpToRel(<, Nat)
<1>1. IsWellFoundedOn(R, Nat)
  BY NatLessThanWellFounded
<1>2. PICK x \in T : \A y \in T : <<y, x>> \notin R
  <2> HIDE DEF R
  <2> QED BY <1>1, WFMin
<1>3. ASSUME NEW y \in T PROVE x <= y
  <2>1. ~ (y < x)
    BY <1>2 DEF OpToRel
  <2> QED BY <2>1
<1> QED BY <1>3

-----------------------------------------------------------------------------
None(s, S) == \A i \in 1 .. Len(s) : s[i] \notin S
Once(s, S) == \A i, j \in 1 .. Len(s) : s[i] \in S /\ s[j] \in S => i = j

\* What is left of a link when its head is consumed.
LEMMA Tails ==
    ASSUME NEW M, NEW s \in Seq(M), s # << >>, NEW S
    PROVE  /\ Tail(s) \in Seq(M) /\ Head(s) \in M
           /\ None(s, S) => None(Tail(s), S) /\ Head(s) \notin S
           /\ Once(s, S) => Once(Tail(s), S)
           /\ Once(s, S) /\ Head(s) \in S => None(Tail(s), S)
<1>1. /\ Tail(s) \in Seq(M) /\ Len(Tail(s)) = Len(s) - 1 /\ Len(s) \in Nat \ {0}
      /\ \A i \in 1 .. Len(Tail(s)) : Tail(s)[i] = s[i + 1] /\ i + 1 \in 1 .. Len(s)
      /\ Head(s) = s[1] /\ 1 \in 1 .. Len(s) /\ Head(s) \in M
  OBVIOUS
<1>2. None(s, S) => None(Tail(s), S) /\ Head(s) \notin S
  BY <1>1 DEF None
<1>3. Once(s, S) => Once(Tail(s), S)
  <2> SUFFICES ASSUME Once(s, S),
                      NEW i \in 1 .. Len(Tail(s)), NEW j \in 1 .. Len(Tail(s)),
                      Tail(s)[i] \in S, Tail(s)[j] \in S
               PROVE  i = j
    BY DEF Once
  <2>1. i + 1 = j + 1
    BY <1>1 DEF Once
  <2> QED BY <2>1
<1>4. Once(s, S) /\ Head(s) \in S => None(Tail(s), S)
  <2> SUFFICES ASSUME Once(s, S), Head(s) \in S,
                      NEW i \in 1 .. Len(Tail(s)), Tail(s)[i] \in S
               PROVE  FALSE
    BY DEF None
  <2>1. 1 = i + 1
    BY <1>1 DEF Once
  <2> QED BY <2>1
<1> QED BY <1>1, <1>2, <1>3, <1>4

\* What a link holds after messages are sent on it.
LEMMA Concats ==
    ASSUME NEW M, NEW s \in Seq(M), NEW r \in Seq(M), NEW S
    PROVE  /\ s \o r \in Seq(M)
           /\ None(s \o r, S) <=> None(s, S) /\ None(r, S)
           /\ Once(s, S) /\ None(r, S) => Once(s \o r, S)
           /\ None(s, S) /\ Once(r, S) => Once(s \o r, S)
<1>1. /\ s \o r \in Seq(M) /\ Len(s \o r) = Len(s) + Len(r)
      /\ Len(s) \in Nat /\ Len(r) \in Nat
      /\ \A i \in 1 .. Len(s) : (s \o r)[i] = s[i] /\ i \in 1 .. Len(s \o r)
      /\ \A i \in 1 .. Len(r) : (s \o r)[Len(s) + i] = r[i]
                                /\ Len(s) + i \in 1 .. Len(s \o r)
      /\ \A i \in 1 .. Len(s \o r) :
           \/ i \in 1 .. Len(s) /\ (s \o r)[i] = s[i]
           \/ i - Len(s) \in 1 .. Len(r) /\ (s \o r)[i] = r[i - Len(s)]
  OBVIOUS
<1>2. None(s \o r, S) <=> None(s, S) /\ None(r, S)
  <2>1. ASSUME None(s \o r, S) PROVE None(s, S) /\ None(r, S)
    BY <1>1, <2>1 DEF None
  <2>2. ASSUME None(s, S), None(r, S) PROVE None(s \o r, S)
    BY <1>1, <2>2 DEF None
  <2> QED BY <2>1, <2>2
<1>3. Once(s, S) /\ None(r, S) => Once(s \o r, S)
  BY <1>1 DEF Once, None
<1>4. None(s, S) /\ Once(r, S) => Once(s \o r, S)
  <2> SUFFICES ASSUME None(s, S), Once(r, S),
                      NEW i \in 1 .. Len(s \o r), NEW j \in 1 .. Len(s \o r),
                      (s \o r)[i] \in S, (s \o r)[j] \in S
               PROVE  i = j
    BY DEF Once
  <2>1. i - Len(s) = j - Len(s)
    BY <1>1 DEF Once, None
  <2> QED BY <1>1, <2>1
<1> QED BY <1>1, <1>2, <1>3, <1>4

LEMMA Singles ==
    ASSUME NEW M, NEW m \in M, NEW S
    PROVE  /\ <<m>> \in Seq(M) /\ Once(<<m>>, S)
           /\ m \notin S => None(<<m>>, S)
  BY DEF Once, None

LEMMA Empties ==
    ASSUME NEW M, NEW S
    PROVE  << >> \in Seq(M) /\ None(<< >>, S) /\ Once(<< >>, S)
  BY DEF None, Once

\* The last message stays the last one when the head is consumed.
LEMMA LastOfTail ==
    ASSUME NEW M, NEW s \in Seq(M), s # << >>
    PROVE  /\ Tail(s) = << >> => Head(s) = s[Len(s)]
           /\ Tail(s) # << >> => Tail(s)[Len(Tail(s))] = s[Len(s)]
<1>1. /\ Len(s) \in Nat \ {0} /\ Len(Tail(s)) = Len(s) - 1 /\ Head(s) = s[1]
      /\ Tail(s) \in Seq(M)
      /\ \A i \in 1 .. Len(Tail(s)) : Tail(s)[i] = s[i + 1]
  OBVIOUS
<1>2. \A t \in Seq(M) : t = << >> <=> Len(t) = 0
  OBVIOUS
<1>3. Len(s) # 1 => Len(s) - 1 \in 1 .. Len(s) - 1 /\ (Len(s) - 1) + 1 = Len(s)
  BY <1>1
<1>4. (Tail(s) = << >> => Len(s) = 1) /\ (Tail(s) # << >> => Len(s) # 1)
  BY <1>1, <1>2
<1> QED BY <1>1, <1>3, <1>4
=============================================================================
