----------------------- MODULE FirstConnection_proofs ------------------------
(***************************************************************************)
(* Proofs about the first connection to the mmWave cell, for every number  *)
(* of bearers, every bound on the messages in flight, every value of the   *)
(* attributes and every handover mode.                                     *)
(***************************************************************************)
EXTENDS FirstConnection, HandoverDecision_proofs, FiniteSetTheorems

-----------------------------------------------------------------------------
(***************************************************************************)
(* The four links, each by a name, and what a handler does to them.        *)
(***************************************************************************)
ToUe == link[<<Lte, Ue>>]
FromUe == link[<<Ue, Lte>>]
Requests == link[<<Lte, MmWave>>]
Setups == link[<<MmWave, Lte>>]

LinkTypes == /\ ToUe \in Seq(Message) /\ FromUe \in Seq(Message)
             /\ Requests \in Seq(Message) /\ Setups \in Seq(Message)

LEMMA MmWaveType == MmWave \in Cell /\ MmWave # 0 /\ Cell = {MmWave}
  BY ConnectionAssumption, CellAssumption DEF MmWave

LEMMA LinksDistinct ==
    /\ <<Lte, Ue>> # <<Ue, Lte>> /\ <<Lte, Ue>> # <<Lte, MmWave>>
    /\ <<Lte, Ue>> # <<MmWave, Lte>> /\ <<Ue, Lte>> # <<Lte, MmWave>>
    /\ <<Ue, Lte>> # <<MmWave, Lte>> /\ <<Lte, MmWave>> # <<MmWave, Lte>>
<1>1. MmWave \in Nat \ {0}
  BY MmWaveType, CellAssumption
<1> QED BY <1>1 DEF Lte, Ue

LEMMA LinkTypesEquiv == LinkTypes <=> \A l \in Links : link[l] \in Seq(Message)
  BY DEF LinkTypes, Links, ToUe, FromUe, Requests, Setups

LEMMA ConcatEmpty == ASSUME NEW s \in Seq(Message) PROVE s \o << >> = s
  OBVIOUS

\* A handler that sends on one link.
LEMMA Sends ==
    ASSUME LinkTypes, NEW ms
    PROVE  /\ Exchange({}, On(<<Lte, Ue>>, ms)) =>
                /\ ToUe' = ToUe \o ms
                /\ FromUe' = FromUe /\ Requests' = Requests /\ Setups' = Setups
           /\ Exchange({}, On(<<Ue, Lte>>, ms)) =>
                /\ FromUe' = FromUe \o ms
                /\ ToUe' = ToUe /\ Requests' = Requests /\ Setups' = Setups
  BY LinksDistinct, ConcatEmpty
  DEF Exchange, On, Links, LinkTypes, ToUe, FromUe, Requests, Setups

\* A handler that only consumes the head of a link.
LEMMA Consumes ==
    ASSUME LinkTypes
    PROVE  /\ ToUe # << >> /\ Exchange({<<Lte, Ue>>}, Nothing) =>
                /\ ToUe' = Tail(ToUe)
                /\ FromUe' = FromUe /\ Requests' = Requests /\ Setups' = Setups
           /\ FromUe # << >> /\ Exchange({<<Ue, Lte>>}, Nothing) =>
                /\ FromUe' = Tail(FromUe)
                /\ ToUe' = ToUe /\ Requests' = Requests /\ Setups' = Setups
<1>1. /\ ToUe # << >> => Tail(ToUe) \in Seq(Message)
      /\ FromUe # << >> => Tail(FromUe) \in Seq(Message)
  BY DEF LinkTypes
<1> QED
  BY <1>1, LinksDistinct, ConcatEmpty
  DEF Exchange, Nothing, Links, LinkTypes, ToUe, FromUe, Requests, Setups

\* A handler that consumes the head of one link and answers on another.
LEMMA Answers ==
    ASSUME LinkTypes, NEW ms
    PROVE  /\ ToUe # << >> /\ Exchange({<<Lte, Ue>>}, On(<<Ue, Lte>>, ms)) =>
                /\ ToUe' = Tail(ToUe) /\ FromUe' = FromUe \o ms
                /\ Requests' = Requests /\ Setups' = Setups
           /\ FromUe # << >> /\ Exchange({<<Ue, Lte>>}, On(<<Lte, Ue>>, ms)) =>
                /\ FromUe' = Tail(FromUe) /\ ToUe' = ToUe \o ms
                /\ Requests' = Requests /\ Setups' = Setups
           /\ FromUe # << >> /\ Exchange({<<Ue, Lte>>}, On(<<Lte, MmWave>>, ms)) =>
                /\ FromUe' = Tail(FromUe) /\ Requests' = Requests \o ms
                /\ ToUe' = ToUe /\ Setups' = Setups
           /\ Requests # << >> /\ Exchange({<<Lte, MmWave>>}, On(<<MmWave, Lte>>, ms)) =>
                /\ Requests' = Tail(Requests) /\ Setups' = Setups \o ms
                /\ ToUe' = ToUe /\ FromUe' = FromUe
           /\ Setups # << >> /\ Exchange({<<MmWave, Lte>>}, On(<<Lte, Ue>>, ms)) =>
                /\ Setups' = Tail(Setups) /\ ToUe' = ToUe \o ms
                /\ FromUe' = FromUe /\ Requests' = Requests
           /\ \A rs : FromUe # << >>
                /\ Exchange({<<Ue, Lte>>},
                            [On(<<Lte, Ue>>, ms) EXCEPT ![<<Lte, MmWave>>] = rs]) =>
                /\ FromUe' = Tail(FromUe) /\ ToUe' = ToUe \o ms
                /\ Requests' = Requests \o rs /\ Setups' = Setups
<1>1. /\ ToUe # << >> => Tail(ToUe) \in Seq(Message)
      /\ FromUe # << >> => Tail(FromUe) \in Seq(Message)
      /\ Requests # << >> => Tail(Requests) \in Seq(Message)
      /\ Setups # << >> => Tail(Setups) \in Seq(Message)
  BY DEF LinkTypes
<1> USE LinksDistinct, ConcatEmpty, <1>1
    DEF Exchange, On, Links, LinkTypes, ToUe, FromUe, Requests, Setups
<1>2. ToUe # << >> /\ Exchange({<<Lte, Ue>>}, On(<<Ue, Lte>>, ms)) =>
        /\ ToUe' = Tail(ToUe) /\ FromUe' = FromUe \o ms
        /\ Requests' = Requests /\ Setups' = Setups
  OBVIOUS
<1>3. FromUe # << >> /\ Exchange({<<Ue, Lte>>}, On(<<Lte, Ue>>, ms)) =>
        /\ FromUe' = Tail(FromUe) /\ ToUe' = ToUe \o ms
        /\ Requests' = Requests /\ Setups' = Setups
  OBVIOUS
<1>4. FromUe # << >> /\ Exchange({<<Ue, Lte>>}, On(<<Lte, MmWave>>, ms)) =>
        /\ FromUe' = Tail(FromUe) /\ Requests' = Requests \o ms
        /\ ToUe' = ToUe /\ Setups' = Setups
  OBVIOUS
<1>5. Requests # << >> /\ Exchange({<<Lte, MmWave>>}, On(<<MmWave, Lte>>, ms)) =>
        /\ Requests' = Tail(Requests) /\ Setups' = Setups \o ms
        /\ ToUe' = ToUe /\ FromUe' = FromUe
  OBVIOUS
<1>6. Setups # << >> /\ Exchange({<<MmWave, Lte>>}, On(<<Lte, Ue>>, ms)) =>
        /\ Setups' = Tail(Setups) /\ ToUe' = ToUe \o ms
        /\ FromUe' = FromUe /\ Requests' = Requests
  OBVIOUS
<1>7. ASSUME NEW rs, FromUe # << >>,
             Exchange({<<Ue, Lte>>},
                      [On(<<Lte, Ue>>, ms) EXCEPT ![<<Lte, MmWave>>] = rs])
      PROVE  /\ FromUe' = Tail(FromUe) /\ ToUe' = ToUe \o ms
             /\ Requests' = Requests \o rs /\ Setups' = Setups
  BY <1>7
<1> QED BY <1>2, <1>3, <1>4, <1>5, <1>6, <1>7

OfType(t) == {m \in Message : m.type = t}

-----------------------------------------------------------------------------
(***************************************************************************)
(* The requests for RLC entities.                                          *)
(***************************************************************************)
LEMMA BearersFinite ==
    \A S \in SUBSET Bearer : IsFiniteSet(S) /\ Cardinality(S) \in Nat
<1>1. MaxBearers \in Int
  BY ConnectionAssumption
<1>2. IsFiniteSet(Bearer)
  BY <1>1, FS_Interval DEF Bearer
<1> QED BY <1>2, FS_Subset, FS_CardinalityType

\* A set of bearers has an element with any smaller number of elements before it.
LEMMA Ranks ==
    ASSUME NEW S, S \subseteq Bearer, NEW k \in Nat, k < Cardinality(S)
    PROVE  \E b \in S : Cardinality({a \in S : a < b}) = k
<1> DEFINE below(n) == {a \in S : a < n}
           T == {n \in Nat : Cardinality(below(n + 1)) > k}
<1>0. MaxBearers \in Nat \ {0} /\ \A b \in S : b \in Nat \ {0} /\ b <= MaxBearers
  BY ConnectionAssumption DEF Bearer
<1>1. \A n : IsFiniteSet(below(n)) /\ Cardinality(below(n)) \in Nat
  BY BearersFinite
<1>2. MaxBearers \in T
  <2>1. below(MaxBearers + 1) = S
    BY <1>0
  <2> QED BY <1>0, <2>1
<1>3. PICK n \in T : \A m \in T : n <= m
  <2> HIDE DEF T
  <2>1. T \subseteq Nat
    BY DEF T
  <2> QED BY <1>2, <2>1, LeastNatural
<1>4. n # 0
  <2>1. below(0 + 1) = {}
    BY <1>0
  <2>2. Cardinality(below(0 + 1)) = 0
    BY <2>1, FS_EmptySet
  <2> QED BY <2>2
<1>5. n - 1 \in Nat /\ n - 1 \notin T
  BY <1>3, <1>4
<1>6. Cardinality(below(n)) <= k
  <2>1. (n - 1) + 1 = n
    BY <1>5
  <2>2. ~(Cardinality(below((n - 1) + 1)) > k)
    BY <1>5
  <2> HIDE DEF below
  <2> QED BY <1>1, <2>1, <2>2
<1>7. below(n + 1) = IF n \in S THEN below(n) \cup {n} ELSE below(n)
  BY <1>0, <1>3
<1>8. n \notin below(n)
  BY <1>3
<1>9. Cardinality(below(n + 1)) > k /\ n \in Nat
  BY <1>3
<1>10. n \in S /\ Cardinality(below(n)) = k
  <2> HIDE DEF below
  <2>1. n \in S
    BY <1>1, <1>6, <1>7, <1>9
  <2>2. Cardinality(below(n + 1)) = Cardinality(below(n)) + 1
    BY <1>1, <1>7, <1>8, <2>1, FS_AddElement
  <2> QED BY <1>1, <1>6, <1>9, <2>1, <2>2
<1> QED BY <1>10

\* Each request is for a bearer that has been set up.
LEMMA RlcSetupRequestsType ==
    ASSUME NEW last, NEW cell
    PROVE  /\ RlcSetupRequests(last, cell) \in Seq(Message)
           /\ Len(RlcSetupRequests(last, cell)) = Cardinality(ToBeSplit(last, cell))
           /\ \A i \in 1 .. Len(RlcSetupRequests(last, cell)) :
                \E b \in Bearer : /\ drb[b] # "absent"
                                 /\ RlcSetupRequests(last, cell)[i] = RlcSetupRequest(b)
<1> DEFINE S == ToBeSplit(last, cell)
           pick(i) == CHOOSE b \in S : Cardinality({a \in S : a < b}) = i - 1
<1>1. S \subseteq Bearer /\ \A b \in S : drb[b] # "absent"
  BY DEF ToBeSplit
<1>2. IsFiniteSet(S) /\ Cardinality(S) \in Nat
  BY <1>1, BearersFinite
<1>3. RlcSetupRequests(last, cell)
        = [i \in 1 .. Cardinality(S) |-> RlcSetupRequest(pick(i))]
  BY DEF RlcSetupRequests
<1> HIDE DEF S
<1>4. ASSUME NEW i \in 1 .. Cardinality(S) PROVE pick(i) \in S
  <2>1. i - 1 \in Nat /\ i - 1 < Cardinality(S)
    BY <1>2
  <2> QED BY <1>1, <2>1, Ranks
<1> HIDE DEF pick
<1>5. \A b \in Bearer : RlcSetupRequest(b) \in Message
  BY DEF RlcSetupRequest, Message
<1>6. \A i \in 1 .. Cardinality(S) : pick(i) \in Bearer /\ drb[pick(i)] # "absent"
  BY <1>1, <1>4
<1>7. [i \in 1 .. Cardinality(S) |-> RlcSetupRequest(pick(i))] \in Seq(Message)
  BY <1>2, <1>5, <1>6
<1>8. Len([i \in 1 .. Cardinality(S) |-> RlcSetupRequest(pick(i))]) = Cardinality(S)
  BY <1>2
<1> QED BY <1>3, <1>6, <1>7, <1>8 DEF S

-----------------------------------------------------------------------------
(***************************************************************************)
(* Type correctness.                                                       *)
(***************************************************************************)
LEMMA Messages ==
    /\ RrcConnectToMmWave \in OfType("RrcConnectToMmWave")
    /\ ReconfigurationCompleted \in OfType("RrcConnectionReconfigurationCompleted")
    /\ NotifySecondaryCellConnected \in OfType("NotifySecondaryCellConnected")
    /\ \A d \in Drb :
         /\ RrcConnectionReconfiguration(d) \in OfType("RrcConnectionReconfiguration")
         /\ RrcConnectionReconfiguration(d).drb = d
    /\ \A bs \in SUBSET Bearer, u \in BOOLEAN :
         RrcConnectionSwitch(bs, u) \in OfType("RrcConnectionSwitch")
    /\ \A b \in Bearer :
         /\ RlcSetupRequest(b) \in OfType("RlcSetupRequest")
         /\ RlcSetupCompleted(b) \in OfType("RlcSetupCompleted")
         /\ RlcSetupRequest(b).drbid = b /\ RlcSetupCompleted(b).drbid = b
  BY DEF OfType, Message, RrcConnectToMmWave, ReconfigurationCompleted,
         NotifySecondaryCellConnected, RrcConnectionReconfiguration,
         RrcConnectionSwitch, RlcSetupRequest, RlcSetupCompleted

LEMMA Contents ==
    ASSUME NEW m \in Message
    PROVE  /\ m.type = "RrcConnectionReconfiguration" => m.drb \in Drb
           /\ m.type = "RrcConnectionSwitch" =>
                m.bearers \in SUBSET Bearer /\ m.useMmWave \in BOOLEAN
           /\ m.type \in {"RlcSetupRequest", "RlcSetupCompleted"} => m.drbid \in Bearer
  BY DEF Message, RrcConnectToMmWave, ReconfigurationCompleted,
         NotifySecondaryCellConnected

\* The head of a link on which a message of some type waits.
LEMMA Heads ==
    ASSUME LinkTypes, NEW t
    PROVE  /\ HeadIs(<<Lte, Ue>>, t) =>
                ToUe # << >> /\ Head(ToUe) \in OfType(t) /\ Tail(ToUe) \in Seq(Message)
           /\ HeadIs(<<Ue, Lte>>, t) =>
                FromUe # << >> /\ Head(FromUe) \in OfType(t) /\ Tail(FromUe) \in Seq(Message)
           /\ HeadIs(<<Lte, MmWave>>, t) =>
                Requests # << >> /\ Head(Requests) \in OfType(t)
                                 /\ Tail(Requests) \in Seq(Message)
           /\ HeadIs(<<MmWave, Lte>>, t) =>
                Setups # << >> /\ Head(Setups) \in OfType(t) /\ Tail(Setups) \in Seq(Message)
  BY Tails DEF HeadIs, OfType, LinkTypes, ToUe, FromUe, Requests, Setups

LEMMA OfTypeMessages ==
    ASSUME NEW t, NEW m \in OfType(t) PROVE m \in Message /\ m.type = t
  BY DEF OfType

\* The types of the variables of this module.
OwnTypes ==
    /\ bearers \in SUBSET Bearer
    /\ caConfigured \in BOOLEAN
    /\ state \in {"INITIAL_RANDOM_ACCESS", "CONNECTION_SETUP", "CONNECTED_NORMALLY",
                  "CONNECTION_RECONFIGURATION", "MC_CONNECTION_RECONFIGURATION"}
    /\ context \in {"none", "requested", "setup"}
    /\ drb \in Drb
    /\ pending \in BOOLEAN /\ available \in BOOLEAN
    /\ mmWaveCell \in Cell \cup {0}
    /\ path \in SUBSET Bearer
    /\ remoteRlc \in [Bearer -> Nat]
    /\ ue \in [access : {"idle", "accessing", "connected"}, drb : SUBSET Bearer,
               rlc : [Bearer -> Nat], path : SUBSET Bearer]

LEMMA TypeParts == TypeOK <=> DecisionTypeOK /\ OwnTypes /\ LinkTypes
  BY LinkTypesEquiv DEF TypeOK, OwnTypes

LEMMA TypePartsNext == DecisionTypeOK' /\ OwnTypes' /\ LinkTypes' => TypeOK'
<1> SUFFICES ASSUME DecisionTypeOK', OwnTypes', LinkTypes' PROVE TypeOK'
  OBVIOUS
<1>1. \A l \in Links : link'[l] \in Seq(Message)
  BY DEF LinkTypes, Links, ToUe, FromUe, Requests, Setups
<1> QED BY <1>1 DEF TypeOK, OwnTypes

LEMMA InitTypes == Init => TypeOK
<1> SUFFICES ASSUME Init PROVE TypeOK
  OBVIOUS
<1>1. DecisionTypeOK
  BY DecisionInitType DEF Init
<1>2. MaxBearers \in Nat /\ \A n \in 1 .. MaxBearers : 1 .. n \subseteq Bearer
  BY ConnectionAssumption DEF Bearer
<1>3. ue \in [access : {"idle", "accessing", "connected"}, drb : SUBSET Bearer,
              rlc : [Bearer -> Nat], path : SUBSET Bearer]
  BY DEF Init
<1>4. drb \in Drb /\ remoteRlc \in [Bearer -> Nat]
  BY DEF Init, Drb
<1>5. OwnTypes
  BY <1>2, <1>3, <1>4 DEF Init, OwnTypes
<1>6. LinkTypes
  BY DEF Init, Links, LinkTypes, ToUe, FromUe, Requests, Setups
<1> QED BY <1>1, <1>5, <1>6, TypeParts

LEMMA SplitType == \A d \in Drb : Split(d) \in SUBSET Bearer
  BY DEF Split

LEMMA SendableTypes ==
    ASSUME OwnTypes, NEW waiting \in BOOLEAN
    PROVE  /\ PendingReconfiguration(waiting) \in Seq(Message)
           /\ ConnectCommand \in Seq(Message)
           /\ ConnectCommand \o PendingReconfiguration(waiting) \in Seq(Message)
<1>1. RrcConnectionReconfiguration(drb) \in Message /\ RrcConnectToMmWave \in Message
  BY Messages, OfTypeMessages DEF OwnTypes
<1>2. PendingReconfiguration(waiting) \in Seq(Message) /\ ConnectCommand \in Seq(Message)
  BY <1>1 DEF PendingReconfiguration, ConnectCommand
<1> QED BY <1>2, Concats

LEMMA RequestTypes == TypeOK /\ Request => TypeOK'
<1> SUFFICES ASSUME TypeOK, Request PROVE TypeOK'
  OBVIOUS
<1> USE TypeParts, TypePartsNext
<1>1. DecisionTypeOK'
  BY AttachTypes DEF Request
<1>2. OwnTypes'
  BY DEF Request, OwnTypes
<1>3. LinkTypes'
  BY DEF Request, LinkTypes, ToUe, FromUe, Requests, Setups
<1> QED BY <1>1, <1>2, <1>3

LEMMA SetupCompletedTypes == TypeOK /\ SetupCompleted => TypeOK'
<1> SUFFICES ASSUME TypeOK, SetupCompleted PROVE TypeOK'
  OBVIOUS
<1> USE TypeParts, TypePartsNext
<1>1. DecisionTypeOK'
  <2>1. CASE RecvRrcConnectionSetupCompleted
    BY <2>1, AttachTypes
  <2>2. CASE UNCHANGED decisionVars
    BY <2>2 DEF decisionVars, DecisionTypeOK
  <2> QED BY <2>1, <2>2 DEF SetupCompleted
<1>2. OwnTypes'
  BY DEF SetupCompleted, BecomeConnected, OwnTypes
<1>3. LinkTypes'
  <2>1. PICK ms \in Seq(Message) : Exchange({}, On(<<Lte, Ue>>, ms))
    BY SendableTypes DEF SetupCompleted, OwnTypes
  <2>2. ToUe \o ms \in Seq(Message)
    BY DEF LinkTypes
  <2>3. /\ ToUe' = ToUe \o ms
        /\ FromUe' = FromUe /\ Requests' = Requests /\ Setups' = Setups
    BY <2>1, Sends
  <2> QED BY <2>2, <2>3 DEF LinkTypes
<1> QED BY <1>1, <1>2, <1>3

LEMMA ContextTypes == TypeOK /\ DoInitialContextSetupRequest => TypeOK'
<1> SUFFICES ASSUME TypeOK, DoInitialContextSetupRequest PROVE TypeOK'
  OBVIOUS
<1> USE TypeParts, TypePartsNext
<1>1. DecisionTypeOK'
  BY DEF DoInitialContextSetupRequest, decisionVars, DecisionTypeOK
<1>2. drb' \in Drb /\ [drb EXCEPT ![1] = "lte"] \in Drb
  BY DEF DoInitialContextSetupRequest, OwnTypes, Drb
<1>3. OwnTypes'
  <2>1. pending' \in BOOLEAN
    <3>1. pending' = TRUE \/ pending' = (Cardinality(bearers) > 1)
      BY DEF DoInitialContextSetupRequest
    <3>2. Cardinality(bearers) \in Nat
      BY BearersFinite DEF OwnTypes
    <3>3. (Cardinality(bearers) > 1) \in BOOLEAN
      BY <3>2
    <3> QED BY <3>1, <3>3, Zenon
  <2>2. state' \in {"CONNECTION_SETUP", "CONNECTION_RECONFIGURATION"}
    BY DEF DoInitialContextSetupRequest
  <2> QED BY <1>2, <2>1, <2>2 DEF DoInitialContextSetupRequest, OwnTypes
<1>4. LinkTypes'
  <2> DEFINE m == RrcConnectionReconfiguration([drb EXCEPT ![1] = "lte"])
  <2>1. m \in Message
    BY <1>2, Messages, OfTypeMessages
  <2> HIDE DEF m
  <2>2. <<m>> \in Seq(Message)
    BY <2>1
  <2>3. CASE UNCHANGED link
    BY <2>3 DEF LinkTypes, ToUe, FromUe, Requests, Setups
  <2>4. CASE Exchange({}, On(<<Lte, Ue>>, <<m>>))
    <3>1. ToUe \o <<m>> \in Seq(Message)
      BY <2>2 DEF LinkTypes
    <3>2. /\ ToUe' = ToUe \o <<m>>
          /\ FromUe' = FromUe /\ Requests' = Requests /\ Setups' = Setups
      BY <2>4, Sends
    <3> QED BY <3>1, <3>2 DEF LinkTypes
  <2> QED BY <2>3, <2>4 DEF DoInitialContextSetupRequest, m
<1> QED BY <1>1, <1>3, <1>4

LEMMA NotifyTypes == TypeOK /\ RecvNotifySecondaryCellConnected => TypeOK'
<1> SUFFICES ASSUME TypeOK, RecvNotifySecondaryCellConnected PROVE TypeOK'
  OBVIOUS
<1> USE TypeParts, TypePartsNext
<1>1. DecisionTypeOK'
  BY DEF RecvNotifySecondaryCellConnected, decisionVars, DecisionTypeOK
<1>2. OwnTypes'
  BY MmWaveType DEF RecvNotifySecondaryCellConnected, AwaitBearers, OwnTypes
<1>3. LinkTypes'
  <2>1. FromUe # << >> /\ Tail(FromUe) \in Seq(Message)
    BY Heads DEF RecvNotifySecondaryCellConnected
  <2>2. CASE Exchange({<<Ue, Lte>>}, Nothing)
    BY <2>1, <2>2, Consumes DEF LinkTypes
  <2>3. CASE Exchange({<<Ue, Lte>>},
                      On(<<Lte, MmWave>>, RlcSetupRequests(lastCell, MmWave)))
    <3> DEFINE rs == RlcSetupRequests(lastCell, MmWave)
    <3>1. rs \in Seq(Message)
      BY RlcSetupRequestsType DEF OwnTypes
    <3> HIDE DEF rs
    <3>2. Requests \o rs \in Seq(Message)
      BY <3>1 DEF LinkTypes
    <3>3. Exchange({<<Ue, Lte>>}, On(<<Lte, MmWave>>, rs))
      BY <2>3 DEF rs
    <3> QED BY <2>1, <3>2, <3>3, Answers DEF LinkTypes
  <2> QED BY <2>2, <2>3 DEF RecvNotifySecondaryCellConnected
<1> QED BY <1>1, <1>2, <1>3

LEMMA RlcSetupTypes == TypeOK /\ (RecvRlcSetupRequest \/ RecvRlcSetupCompleted) => TypeOK'
<1> SUFFICES ASSUME TypeOK, RecvRlcSetupRequest \/ RecvRlcSetupCompleted PROVE TypeOK'
  OBVIOUS
<1> USE TypeParts, TypePartsNext
<1>1. DecisionTypeOK'
  BY DEF RecvRlcSetupRequest, RecvRlcSetupCompleted, decisionVars, DecisionTypeOK
<1>2. CASE RecvRlcSetupRequest
  <2> DEFINE b == Head(Requests).drbid
  <2>1. Requests # << >> /\ b \in Bearer /\ Tail(Requests) \in Seq(Message)
    BY <1>2, Heads, OfTypeMessages, Contents DEF RecvRlcSetupRequest
  <2>2. /\ remoteRlc' = [remoteRlc EXCEPT ![b] = @ + 1]
        /\ Exchange({<<Lte, MmWave>>}, On(<<MmWave, Lte>>, <<RlcSetupCompleted(b)>>))
    BY <1>2 DEF RecvRlcSetupRequest, Requests
  <2> HIDE DEF b
  <2>3. Setups \o <<RlcSetupCompleted(b)>> \in Seq(Message)
    <3>1. RlcSetupCompleted(b) \in Message
      BY <2>1, Messages, OfTypeMessages
    <3>2. <<RlcSetupCompleted(b)>> \in Seq(Message)
      BY <3>1
    <3> QED BY <3>2 DEF LinkTypes
  <2>4. LinkTypes'
    BY <2>1, <2>2, <2>3, Answers DEF LinkTypes
  <2>5. remoteRlc' \in [Bearer -> Nat]
    BY <2>1, <2>2 DEF OwnTypes
  <2>6. OwnTypes'
    BY <1>2, <2>5 DEF RecvRlcSetupRequest, enbVars, OwnTypes
  <2> QED BY <1>1, <2>4, <2>6
<1>3. CASE RecvRlcSetupCompleted
  <2>1. /\ Setups # << >> /\ Head(Setups).drbid \in Bearer
        /\ Tail(Setups) \in Seq(Message)
    BY <1>3, Heads, OfTypeMessages, Contents DEF RecvRlcSetupCompleted
  <2>2. drb' \in Drb
    BY <1>3, <2>1 DEF RecvRlcSetupCompleted, Setups, OwnTypes, Drb
  <2>3. OwnTypes'
    BY <1>3, <2>2 DEF RecvRlcSetupCompleted, OwnTypes
  <2> DEFINE m == RrcConnectionReconfiguration(drb')
  <2>4. m \in Message
    BY <2>2, Messages, OfTypeMessages
  <2>5. Exchange({<<MmWave, Lte>>}, On(<<Lte, Ue>>, <<m>>))
    BY <1>3 DEF RecvRlcSetupCompleted
  <2> HIDE DEF m
  <2>6. ToUe \o <<m>> \in Seq(Message)
    BY <2>4 DEF LinkTypes
  <2>7. LinkTypes'
    BY <2>1, <2>5, <2>6, Answers DEF LinkTypes
  <2> QED BY <1>1, <2>3, <2>7
<1> QED BY <1>2, <1>3

\* What the completion of a reconfiguration does to the links.
LEMMA CompletedLinks ==
    ASSUME TypeOK, HeadIs(<<Ue, Lte>>, "RrcConnectionReconfigurationCompleted"),
           NEW ms, NEW rs
    PROVE  /\ Exchange({<<Ue, Lte>>}, On(<<Lte, Ue>>, ms)) =>
                /\ FromUe' = Tail(FromUe) /\ ToUe' = ToUe \o ms
                /\ Requests' = Requests /\ Setups' = Setups
           /\ Exchange({<<Ue, Lte>>},
                       [On(<<Lte, Ue>>, ms) EXCEPT ![<<Lte, MmWave>>] = rs]) =>
                /\ FromUe' = Tail(FromUe) /\ ToUe' = ToUe \o ms
                /\ Requests' = Requests \o rs /\ Setups' = Setups
           /\ Exchange({<<Ue, Lte>>}, Nothing) =>
                /\ FromUe' = Tail(FromUe) /\ ToUe' = ToUe
                /\ Requests' = Requests /\ Setups' = Setups
<1>1. FromUe # << >> /\ LinkTypes
  BY Heads, TypeParts
<1> QED BY <1>1, Answers, Consumes

LEMMA CompletedTypes == TypeOK /\ RecvReconfigurationCompleted => TypeOK'
<1> SUFFICES ASSUME TypeOK, RecvReconfigurationCompleted PROVE TypeOK'
  OBVIOUS
<1> USE TypeParts, TypePartsNext
<1>0. Switched \in SUBSET Bearer
  BY SplitType DEF Switched, OwnTypes
<1>1. DecisionTypeOK'
  <2>1. CASE RecvRrcConnectionSetupCompleted
    BY <2>1, AttachTypes
  <2>2. CASE SetupOfBearersCompleted
    <3>1. sent' \in Command /\ connecting' \in SUBSET Cell
      BY <2>2 DEF SetupOfBearersCompleted, DecisionTypeOK, Command
    <3>2. usingLte' \in BOOLEAN /\ lastCell' \in Cell \cup {0}
      BY <2>2 DEF SetupOfBearersCompleted, DecisionTypeOK, OwnTypes
    <3> QED BY <2>2, <3>1, <3>2 DEF SetupOfBearersCompleted, DecisionTypeOK
  <2>3. CASE UNCHANGED decisionVars
    BY <2>3 DEF decisionVars, DecisionTypeOK
  <2> QED BY <2>1, <2>2, <2>3 DEF RecvReconfigurationCompleted
<1>2. OwnTypes'
  BY <1>0 DEF RecvReconfigurationCompleted, BecomeConnected, OwnTypes
<1>3. FromUe # << >> /\ Tail(FromUe) \in Seq(Message)
  BY Heads DEF RecvReconfigurationCompleted
<1>4. LinkTypes'
  <2> DEFINE rs == IF available THEN RlcSetupRequests(lastCell', mmWaveCell) ELSE << >>
  <2>1. rs \in Seq(Message) /\ Requests \o rs \in Seq(Message)
    BY RlcSetupRequestsType DEF OwnTypes, LinkTypes
  <2>2. HeadIs(<<Ue, Lte>>, "RrcConnectionReconfigurationCompleted")
    BY DEF RecvReconfigurationCompleted
  <2>3. PICK ms \in Seq(Message) :
          \/ Exchange({<<Ue, Lte>>}, On(<<Lte, Ue>>, ms))
          \/ Exchange({<<Ue, Lte>>},
                      [On(<<Lte, Ue>>, ms) EXCEPT ![<<Lte, MmWave>>] = rs])
          \/ Exchange({<<Ue, Lte>>}, Nothing)
    BY SendableTypes, Empties DEF RecvReconfigurationCompleted, OwnTypes
  <2>4. ToUe \o ms \in Seq(Message)
    BY DEF LinkTypes
  <2> HIDE DEF rs
  <2> QED BY <1>3, <2>1, <2>2, <2>3, <2>4, CompletedLinks DEF LinkTypes
<1> QED BY <1>1, <1>2, <1>4

LEMMA DecideTypes == TypeOK /\ Decide => TypeOK'
<1> SUFFICES ASSUME TypeOK, Decide PROVE TypeOK'
  OBVIOUS
<1> USE TypeParts, TypePartsNext
<1>1. DecisionTypeOK'
  BY TriggerType DEF Decide
<1>2. Split(drb) \in SUBSET Bearer
  BY SplitType DEF OwnTypes
<1>3. path' \in SUBSET Bearer
  BY <1>2 DEF Decide, OwnTypes
<1>4. OwnTypes'
  BY <1>3 DEF Decide, OwnTypes
<1>5. LinkTypes'
  <2>1. CASE UNCHANGED link
    BY <2>1 DEF LinkTypes, ToUe, FromUe, Requests, Setups
  <2>2. ASSUME NEW m \in Message, Exchange({}, On(<<Lte, Ue>>, <<m>>))
        PROVE  LinkTypes'
    <3>1. ToUe \o <<m>> \in Seq(Message)
      BY DEF LinkTypes
    <3> QED BY <2>2, <3>1, Sends DEF LinkTypes
  <2>3. RrcConnectToMmWave \in Message
    BY Messages, OfTypeMessages
  <2>4. ASSUME sent'.type = "ConnectionSwitch"
        PROVE  RrcConnectionSwitch(Split(drb), sent'.useMmWave) \in Message
    <3>1. sent'.useMmWave \in BOOLEAN
      BY <1>1, <2>4 DEF DecisionTypeOK, Command, NoCommand, McHandoverRequest,
                        ConnectToMmWave, ConnectionSwitch
    <3> QED BY <1>2, <3>1, Messages, OfTypeMessages
  <2> QED BY <2>1, <2>2, <2>3, <2>4 DEF Decide
<1> QED BY <1>1, <1>4, <1>5

LEMMA ReportTypes == TypeOK /\ Report => TypeOK'
<1> SUFFICES ASSUME TypeOK, Report PROVE TypeOK'
  OBVIOUS
<1> USE TypeParts, TypePartsNext
<1>1. DecisionTypeOK'
  BY ReportType DEF Report
<1>2. OwnTypes' /\ LinkTypes'
  BY DEF Report, enbVars, OwnTypes, LinkTypes, ToUe, FromUe, Requests, Setups
<1> QED BY <1>1, <1>2

LEMMA UeTypes ==
    /\ TypeOK
    /\ \/ UeRecvRrcConnectToMmWave \/ UeConnectionSuccessful
       \/ UeRecvReconfiguration \/ UeRecvRrcConnectionSwitch
    => TypeOK'
<1> SUFFICES ASSUME TypeOK,
                    \/ UeRecvRrcConnectToMmWave \/ UeConnectionSuccessful
                    \/ UeRecvReconfiguration \/ UeRecvRrcConnectionSwitch
             PROVE  TypeOK'
  OBVIOUS
<1> USE TypeParts, TypePartsNext
<1> DEFINE UeTypeNext ==
      ue' \in [access : {"idle", "accessing", "connected"}, drb : SUBSET Bearer,
               rlc : [Bearer -> Nat], path : SUBSET Bearer]
<1>1. DecisionTypeOK'
  BY DEF UeRecvRrcConnectToMmWave, UeConnectionSuccessful, UeRecvReconfiguration,
         UeRecvRrcConnectionSwitch, decisionVars, DecisionTypeOK
<1>2. UeTypeNext => OwnTypes'
  BY DEF UeRecvRrcConnectToMmWave, UeConnectionSuccessful, UeRecvReconfiguration,
         UeRecvRrcConnectionSwitch, enbVars, OwnTypes
<1>3. CASE UeRecvRrcConnectToMmWave
  <2>1. UeTypeNext
    BY <1>3 DEF UeRecvRrcConnectToMmWave, OwnTypes
  <2>2. LinkTypes'
    BY <1>3, Heads, Consumes DEF UeRecvRrcConnectToMmWave, LinkTypes
  <2> QED BY <1>1, <1>2, <2>1, <2>2
<1>4. CASE UeConnectionSuccessful
  <2>1. UeTypeNext
    BY <1>4 DEF UeConnectionSuccessful, OwnTypes
  <2>2. FromUe \o <<NotifySecondaryCellConnected>> \in Seq(Message)
    <3>1. NotifySecondaryCellConnected \in Message
      BY Messages, OfTypeMessages
    <3> QED BY <3>1 DEF LinkTypes
  <2>3. LinkTypes'
    BY <1>4, <2>2, Sends DEF UeConnectionSuccessful, LinkTypes
  <2> QED BY <1>1, <1>2, <2>1, <2>3
<1>5. CASE UeRecvReconfiguration
  <2>1. /\ ToUe # << >> /\ Tail(ToUe) \in Seq(Message) /\ Head(ToUe).drb \in Drb
    BY <1>5, Heads, OfTypeMessages, Contents DEF UeRecvReconfiguration
  <2> DEFINE d == Head(ToUe).drb
             split == Split(d) \cap ue.drb
  <2>2. ue' = [ue EXCEPT
                 !.drb = @ \cup {b \in Bearer : d[b] # "absent"},
                 !.rlc = [b \in Bearer |-> IF b \in split THEN @[b] + 1 ELSE @[b]],
                 !.path = @ \cup split]
    BY <1>5 DEF UeRecvReconfiguration, ToUe
  <2>3. split \in SUBSET Bearer
    BY DEF Split
  <2> HIDE DEF d, split
  <2>4. UeTypeNext
    <3>1. [b \in Bearer |-> IF b \in split THEN ue.rlc[b] + 1 ELSE ue.rlc[b]]
            \in [Bearer -> Nat]
      BY DEF OwnTypes
    <3> QED BY <2>2, <2>3, <3>1 DEF OwnTypes
  <2>5. FromUe \o <<ReconfigurationCompleted>> \in Seq(Message)
    <3>1. ReconfigurationCompleted \in Message
      BY Messages, OfTypeMessages
    <3> QED BY <3>1 DEF LinkTypes
  <2>6. LinkTypes'
    BY <1>5, <2>1, <2>5, Answers DEF UeRecvReconfiguration, LinkTypes
  <2> QED BY <1>1, <1>2, <2>4, <2>6
<1>6. CASE UeRecvRrcConnectionSwitch
  <2>1. UeTypeNext
    BY <1>6 DEF UeRecvRrcConnectionSwitch, OwnTypes
  <2>2. LinkTypes'
    BY <1>6, Heads, Consumes DEF UeRecvRrcConnectionSwitch, LinkTypes
  <2> QED BY <1>1, <1>2, <2>1, <2>2
<1> QED BY <1>3, <1>4, <1>5, <1>6

LEMMA TypesKept == TypeOK /\ [Next]_vars => TypeOK'
<1> SUFFICES ASSUME TypeOK, [Next]_vars PROVE TypeOK'
  OBVIOUS
<1>1. CASE UNCHANGED vars
  BY <1>1, TypeParts, TypePartsNext
  DEF vars, decisionVars, enbVars, DecisionTypeOK, OwnTypes, LinkTypes,
      ToUe, FromUe, Requests, Setups
<1>2. CASE Next
  BY <1>2, RequestTypes, SetupCompletedTypes, ContextTypes, NotifyTypes,
     RlcSetupTypes, CompletedTypes, DecideTypes, ReportTypes, UeTypes
  DEF Next, Deliver
<1> QED BY <1>1, <1>2

\* The variables keep their types: in particular SwitchToState leaves the LTE
\* UeManager in one of the five states of a first connection, and every message
\* in flight names a bearer that the UE may have.
THEOREM TypeCorrect == Spec => []TypeOK
<1> QED BY InitTypes, TypesKept, PTL DEF Spec

-----------------------------------------------------------------------------
(***************************************************************************)
(* The inductive invariant.  NoUnexpectedMessage speaks of the heads of    *)
(* the links; what may reach a head is said of all the messages on a link. *)
(***************************************************************************)
Connects == OfType("RrcConnectToMmWave")
Notifies == OfType("NotifySecondaryCellConnected")
Completions == OfType("RrcConnectionReconfigurationCompleted")
Reconfigurations == OfType("RrcConnectionReconfiguration")
Foreign == {m \in Message : /\ m.type \in {"RlcSetupRequest", "RlcSetupCompleted"}
                            /\ m.drbid \notin bearers}

NotTold == ue.access = "idle" /\ None(ToUe, Connects)

\* The UE is told to connect once, and reports once: the command, the access
\* and the report follow each other.  An initial outage puts the command off,
\* and the cell is being connected to until it is the UE's last one.
ConnectsOnce ==
    /\ Once(ToUe, Connects)
    /\ ~None(ToUe, Connects) => ue.access = "idle"
    /\ ue.access # "connected" => mmWaveCell = 0 /\ None(FromUe, Notifies)
    /\ Once(FromUe, Notifies)
    /\ ~None(FromUe, Notifies) => mmWaveCell = 0
    /\ ueState # "connected" => NotTold /\ ~allInOutage
    /\ allInOutage => NotTold
    /\ NotTold \/ lastCell # 0 \/ MmWave \in connecting

\* Until the report nothing is known or requested of the mmWave cell.
BeforeReport ==
    mmWaveCell = 0 =>
        /\ Requests = << >> /\ Setups = << >>
        /\ Split(drb) = {}
        /\ setup # "true" /\ lastCell = 0
        /\ ~available

\* RLC entities are requested for the bearers that the MME has set up, and a
\* reconfiguration for split bearers is what makes a mmWave cell the last one.
BearersKnown ==
    /\ None(Requests, Foreign) /\ None(Setups, Foreign)
    /\ \A b \in Bearer : drb[b] # "absent" <=> context = "setup" /\ b \in bearers
    /\ context # "setup" => Requests = << >> /\ Setups = << >>
    /\ Split(drb) # {} => lastCell # 0 \/ state = "MC_CONNECTION_RECONFIGURATION"
    /\ state = "MC_CONNECTION_RECONFIGURATION" => Split(drb) # {}

\* The procedures follow the attach; a reconfiguration follows the setup.
AttachOrder ==
    /\ ueState = "idle" <=> state = "INITIAL_RANDOM_ACCESS"
    /\ ueState = "idle" <=> context = "none"
    /\ ueState = "setup" => state \in {"CONNECTION_SETUP", "CONNECTION_RECONFIGURATION"}
    /\ state = "CONNECTION_SETUP" => ueState = "setup"
    /\ state \in {"INITIAL_RANDOM_ACCESS", "CONNECTION_SETUP"} =>
         None(ToUe, Reconfigurations) /\ None(FromUe, Completions)

ProcedureInv == ConnectsOnce /\ BeforeReport /\ BearersKnown /\ AttachOrder
ConnectionInv == TypeOK /\ ProcedureInv

\* A message of one type leaves those of the other types on its link as they
\* were.
LEMMA Sent ==
    ASSUME NEW s \in Seq(Message), NEW t, NEW m \in OfType(t), NEW u
    PROVE  /\ s \o <<m>> \in Seq(Message)
           /\ u # t => /\ None(s \o <<m>>, OfType(u)) <=> None(s, OfType(u))
                       /\ Once(s, OfType(u)) => Once(s \o <<m>>, OfType(u))
           /\ None(s, OfType(u)) => Once(s \o <<m>>, OfType(u))
<1>1. m \in Message /\ m.type = t
  BY DEF OfType
<1>2. <<m>> \in Seq(Message) /\ Once(<<m>>, OfType(u))
  BY <1>1, Singles
<1>3. u # t => None(<<m>>, OfType(u))
  BY <1>1, Singles DEF OfType
<1> QED BY <1>2, <1>3, Concats

\* The same for a message that is consumed.
LEMMA Taken ==
    ASSUME NEW s \in Seq(Message), s # << >>, NEW t, Head(s) \in OfType(t), NEW u
    PROVE  /\ Tail(s) \in Seq(Message)
           /\ None(s, OfType(u)) => None(Tail(s), OfType(u)) /\ u # t
           /\ Once(s, OfType(u)) => Once(Tail(s), OfType(u))
           /\ Once(s, OfType(u)) /\ u = t => None(Tail(s), OfType(u))
  BY Tails

\* What a handler of the LTE eNB sends to the UE after the setup or after a
\* reconfiguration: the command to connect when the decision gives it, and a
\* reconfiguration when one has waited.
LEMMA Follows ==
    ASSUME OwnTypes, NEW waiting \in BOOLEAN, NEW s \in Seq(Message)
    PROVE  LET r == s \o (ConnectCommand \o PendingReconfiguration(waiting))
               q == s \o PendingReconfiguration(waiting)
           IN  /\ r \in Seq(Message) /\ q \in Seq(Message)
               /\ None(q, Connects) <=> None(s, Connects)
               /\ Once(s, Connects) => Once(q, Connects)
               /\ None(s, Connects) => Once(r, Connects)
               /\ None(s, Connects) /\ sent'.type # "ConnectToMmWave" =>
                    None(r, Connects)
<1>1. RrcConnectionReconfiguration(drb) \in Reconfigurations
      /\ RrcConnectToMmWave \in Connects
  BY Messages DEF OwnTypes, Connects, Reconfigurations
<1> DEFINE p == PendingReconfiguration(waiting)
           c == ConnectCommand
<1>2. p \in Seq(Message) /\ c \in Seq(Message) /\ c \o p \in Seq(Message)
  BY SendableTypes
<1>3. None(p, Connects)
  BY <1>1, Singles, Empties DEF PendingReconfiguration, Connects, Reconfigurations, OfType
<1>4. Once(c, Connects) /\ (sent'.type # "ConnectToMmWave" => None(c, Connects))
  BY <1>1, Singles, Empties, OfTypeMessages DEF ConnectCommand, Connects
<1> HIDE DEF p, c
<1>5. Once(c \o p, Connects) /\ (None(c, Connects) => None(c \o p, Connects))
  BY <1>2, <1>3, <1>4, Concats
<1>6. /\ s \o (c \o p) \in Seq(Message) /\ s \o p \in Seq(Message)
      /\ None(s \o p, Connects) <=> None(s, Connects)
      /\ Once(s, Connects) => Once(s \o p, Connects)
  BY <1>2, <1>3, Concats
<1>7. /\ None(s, Connects) => Once(s \o (c \o p), Connects)
      /\ None(s, Connects) /\ None(c, Connects) => None(s \o (c \o p), Connects)
  BY <1>2, <1>5, Concats
<1> QED BY <1>4, <1>6, <1>7 DEF p, c

\* A decision connects a UE only after an initial outage, which it ends, and
\* completes nothing.
LEMMA DecisionSteps ==
    ASSUME DecisionTypeOK, TriggerUeAssociationUpdate,
           allInOutage => setup # "true"
    PROVE  /\ UNCHANGED <<ueState, lastCell>>
           /\ setup' = "true" => setup = "true"
           /\ allInOutage' => allInOutage
           /\ sent'.type = "ConnectToMmWave" =>
                /\ allInOutage /\ ~allInOutage'
                /\ \E c \in Cell : connecting' = connecting \cup {c}
           /\ sent'.type # "ConnectToMmWave" => UNCHANGED connecting
<1>1. PICK max \in Cell :
         \/ Outage(max) /\ UNCHANGED <<ueState>>
         \/ /\ ThresholdBasedSecondaryCellHandover(max) \/ TttBasedHandover(max)
            /\ UNCHANGED <<ueState, lastCell>>
  BY DEF TriggerUeAssociationUpdate
<1> USE DEF NoCommand, McHandoverRequest, ConnectToMmWave, ConnectionSwitch,
            SendNothing, SendMcHandoverRequest, SendConnectToMmWave,
            SendRrcConnectionSwitch
<1>2. CASE Outage(max) /\ UNCHANGED <<ueState>>
  BY <1>2 DEF Outage
<1>3. BackToMmWave(max) =>
        /\ sent'.type # "ConnectToMmWave" /\ UNCHANGED connecting
        /\ setup' = "true" => setup = "true"
  BY DEF BackToMmWave, StartHandover
<1>4. CASE ThresholdBasedSecondaryCellHandover(max) /\ UNCHANGED <<ueState, lastCell>>
  BY <1>3, <1>4 DEF ThresholdBasedSecondaryCellHandover, StartHandover, onHandover
<1>5. CASE TttBasedHandover(max) /\ UNCHANGED <<ueState, lastCell>>
  BY <1>3, <1>5 DEF TttBasedHandover
<1> QED BY <1>1, <1>2, <1>4, <1>5

\* The decision at the end of the setup connects the UE or finds an outage.
LEMMA SetupDecides ==
    ASSUME DecisionTypeOK, RecvRrcConnectionSetupCompleted, ~allInOutage
    PROVE  /\ ueState = "setup" /\ ueState' = "connected"
           /\ UNCHANGED <<setup, lastCell>>
           /\ allInOutage' => sent'.type # "ConnectToMmWave"
           /\ sent'.type = "ConnectToMmWave" => MmWave \in connecting'
<1>1. bestCell # 0 => bestCell = MmWave
  BY MmWaveType DEF DecisionTypeOK
<1> QED
  BY <1>1
  DEF RecvRrcConnectionSetupCompleted, SendNothing, SendConnectToMmWave, NoCommand,
      ConnectToMmWave

-----------------------------------------------------------------------------
(* Each action preserves the invariant.                                    *)

LEMMA InitProcedures == Init => ProcedureInv
<1> SUFFICES ASSUME Init PROVE ProcedureInv
  OBVIOUS
<1>1. ToUe = << >> /\ FromUe = << >> /\ Requests = << >> /\ Setups = << >>
  BY DEF Init, Links, ToUe, FromUe, Requests, Setups
<1>2. Split(drb) = {} /\ \A b \in Bearer : drb[b] = "absent"
  BY DEF Init, Split
<1>3. Init => /\ ueState = "idle" /\ setup = "absent" /\ lastCell = 0
              /\ allInOutage = FALSE /\ ue.access = "idle"
  BY DEF Init, DecisionInit
<1> QED
  BY <1>1, <1>2, <1>3, Empties
  DEF Init, ProcedureInv, ConnectsOnce, BeforeReport, BearersKnown, AttachOrder, NotTold,
      Connects, Notifies, Completions, Reconfigurations

\* What the links and the bearers are to an action that leaves them alone.
LEMMA LinkUnchanged ==
    /\ UNCHANGED link => UNCHANGED <<ToUe, FromUe, Requests, Setups>>
    /\ UNCHANGED bearers => UNCHANGED Foreign
    /\ UNCHANGED drb => Split(drb)' = Split(drb)
  BY DEF ToUe, FromUe, Requests, Setups, Foreign, Split

LEMMA RequestProcedures == ConnectionInv /\ Request => ProcedureInv'
<1> SUFFICES ASSUME ConnectionInv, Request PROVE ProcedureInv'
  OBVIOUS
<1>1. /\ UNCHANGED <<ToUe, FromUe, Requests, Setups, Foreign, Split(drb)>>
      /\ ueState = "idle" /\ ueState' = "setup" /\ setup' = "false"
      /\ UNCHANGED <<lastCell, allInOutage, connecting>>
  BY LinkUnchanged DEF Request, RecvRrcConnectionRequest, SendNothing
<1> QED
  BY <1>1
  DEF Request, ConnectionInv, ProcedureInv, ConnectsOnce, BeforeReport, BearersKnown,
      AttachOrder, NotTold

LEMMA SetupCompletedProcedures == ConnectionInv /\ SetupCompleted => ProcedureInv'
<1> SUFFICES ASSUME ConnectionInv, SetupCompleted PROVE ProcedureInv'
  OBVIOUS
<1>0. DecisionTypeOK /\ OwnTypes /\ LinkTypes
  BY TypeParts DEF ConnectionInv
<1>1. state = "CONNECTION_SETUP" /\ ueState = "setup" /\ NotTold /\ ~allInOutage
  BY DEF SetupCompleted, ConnectionInv, ProcedureInv, ConnectsOnce, AttachOrder
<1>2. UNCHANGED <<Foreign, Split(drb), bearers, context, drb, available, mmWaveCell, ue>>
  BY LinkUnchanged DEF SetupCompleted
<1>3. state' \in {"CONNECTED_NORMALLY", "CONNECTION_RECONFIGURATION"}
  BY DEF SetupCompleted, BecomeConnected
<1>4. /\ UNCHANGED <<FromUe, Requests, Setups, lastCell, setup>>
      /\ Once(ToUe', Connects)
      /\ \/ /\ ueState' = "connected"
            /\ allInOutage' => None(ToUe', Connects)
            /\ None(ToUe', Connects) \/ MmWave \in connecting'
         \/ /\ UNCHANGED <<ueState, allInOutage>>
            /\ None(ToUe', Connects)
            /\ state' = "CONNECTION_RECONFIGURATION"
  <2>1. CASE /\ RecvRrcConnectionSetupCompleted
             /\ Exchange({}, On(<<Lte, Ue>>,
                  ConnectCommand \o PendingReconfiguration(pending)))
    <3>1. ToUe' = ToUe \o (ConnectCommand \o PendingReconfiguration(pending))
          /\ UNCHANGED <<FromUe, Requests, Setups>>
      BY <1>0, <2>1, Sends
    <3> QED BY <1>0, <1>1, <2>1, <3>1, Follows, SetupDecides
            DEF OwnTypes, LinkTypes, NotTold
  <2>2. CASE /\ UNCHANGED decisionVars /\ ~caConfigured
             /\ Exchange({}, On(<<Lte, Ue>>, PendingReconfiguration(TRUE)))
    <3>1. ToUe' = ToUe \o PendingReconfiguration(TRUE)
          /\ UNCHANGED <<FromUe, Requests, Setups>>
      BY <1>0, <2>2, Sends
    <3>2. Once(ToUe', Connects) /\ None(ToUe', Connects)
      BY <1>0, <1>1, <3>1, Follows
      DEF LinkTypes, NotTold, ConnectionInv, ProcedureInv, ConnectsOnce
    <3>3. state' = "CONNECTION_RECONFIGURATION"
      BY <2>2 DEF SetupCompleted, BecomeConnected
    <3> QED BY <2>2, <3>1, <3>2, <3>3 DEF decisionVars
  <2> QED BY <2>1, <2>2 DEF SetupCompleted
<1> QED
  BY <1>1, <1>2, <1>3, <1>4
  DEF ConnectionInv, ProcedureInv, ConnectsOnce, BeforeReport, BearersKnown, AttachOrder,
      NotTold

LEMMA ContextProcedures == ConnectionInv /\ DoInitialContextSetupRequest => ProcedureInv'
<1> SUFFICES ASSUME ConnectionInv, DoInitialContextSetupRequest PROVE ProcedureInv'
  OBVIOUS
<1>0. OwnTypes /\ LinkTypes
  BY TypeParts DEF ConnectionInv
<1>1. /\ UNCHANGED <<Foreign, bearers, available, mmWaveCell, ue>>
      /\ UNCHANGED <<ueState, setup, lastCell, allInOutage, connecting>>
      /\ context = "requested" /\ context' = "setup"
  BY LinkUnchanged DEF DoInitialContextSetupRequest, decisionVars
<1>2. /\ UNCHANGED <<FromUe, Requests, Setups>>
      /\ None(ToUe, Connects) => None(ToUe', Connects)
      /\ ~None(ToUe', Connects) => ~None(ToUe, Connects)
      /\ Once(ToUe', Connects)
      /\ \/ /\ state = "CONNECTED_NORMALLY" /\ state' = "CONNECTION_RECONFIGURATION"
         \/ /\ UNCHANGED <<state, ToUe>>
            /\ state # "MC_CONNECTION_RECONFIGURATION"
  <2> DEFINE m == RrcConnectionReconfiguration([drb EXCEPT ![1] = "lte"])
  <2>1. CASE UNCHANGED <<state, link>> /\ state # "MC_CONNECTION_RECONFIGURATION"
    BY <2>1, LinkUnchanged DEF ConnectionInv, ProcedureInv, ConnectsOnce
  <2>2. CASE /\ state = "CONNECTED_NORMALLY" /\ state' = "CONNECTION_RECONFIGURATION"
             /\ Exchange({}, On(<<Lte, Ue>>, <<m>>))
    <3>1. m \in Reconfigurations
      <4>1. [drb EXCEPT ![1] = "lte"] \in Drb
        BY <1>0 DEF OwnTypes, Drb
      <4> QED BY <4>1, Messages DEF Reconfigurations
    <3> HIDE DEF m
    <3>2. ToUe' = ToUe \o <<m>> /\ UNCHANGED <<FromUe, Requests, Setups>>
      BY <1>0, <2>2, Sends
    <3>3. /\ None(ToUe', Connects) <=> None(ToUe, Connects)
          /\ Once(ToUe', Connects)
      BY <1>0, <3>1, <3>2, Sent
      DEF Connects, Reconfigurations, LinkTypes, ConnectionInv, ProcedureInv, ConnectsOnce
    <3> QED BY <2>2, <3>2, <3>3
  <2> QED BY <2>1, <2>2 DEF DoInitialContextSetupRequest
<1>3. /\ Split(drb)' = {}
      /\ \A b \in Bearer : drb'[b] # "absent" <=> b \in bearers
  BY DEF DoInitialContextSetupRequest, Split
<1> QED
  BY <1>1, <1>2, <1>3
  DEF ConnectionInv, ProcedureInv, ConnectsOnce, BeforeReport, BearersKnown, AttachOrder,
      NotTold

\* A decision step, a report to the coordinator and a step of the UE leave the
\* bearers and the links of the mmWave cell alone.
LEMMA DecideProcedures == ConnectionInv /\ Decide => ProcedureInv'
<1> SUFFICES ASSUME ConnectionInv, Decide PROVE ProcedureInv'
  OBVIOUS
<1>0. DecisionTypeOK /\ OwnTypes /\ LinkTypes
  BY TypeParts DEF ConnectionInv
<1>1. allInOutage => NotTold /\ mmWaveCell = 0 /\ setup # "true"
                     /\ ueState = "connected"
  BY DEF ConnectionInv, ProcedureInv, ConnectsOnce, BeforeReport, NotTold
<1>2. /\ UNCHANGED <<ueState, lastCell>>
      /\ setup' = "true" => setup = "true"
      /\ allInOutage' => allInOutage
      /\ sent'.type = "ConnectToMmWave" =>
           allInOutage /\ ~allInOutage' /\ MmWave \in connecting'
      /\ sent'.type # "ConnectToMmWave" => UNCHANGED connecting
  BY <1>0, <1>1, DecisionSteps, MmWaveType DEF Decide
<1>3. /\ UNCHANGED <<bearers, context, state, drb, available, mmWaveCell, ue>>
      /\ UNCHANGED <<Foreign, Split(drb)>>
  BY LinkUnchanged DEF Decide
<1>4. /\ UNCHANGED <<FromUe, Requests, Setups>>
      /\ \A u : u # "RrcConnectToMmWave" /\ None(ToUe, OfType(u))
                   /\ u # "RrcConnectionSwitch" => None(ToUe', OfType(u))
      /\ Once(ToUe', Connects)
      /\ sent'.type # "ConnectToMmWave" =>
           (None(ToUe', Connects) <=> None(ToUe, Connects))
  <2>0. allInOutage => None(ToUe, Connects)
    BY <1>1 DEF NotTold
  <2>1. Once(ToUe, Connects)
    BY DEF ConnectionInv, ProcedureInv, ConnectsOnce
  <2>2. CASE sent'.type = "ConnectToMmWave"
    <3>1. ToUe' = ToUe \o <<RrcConnectToMmWave>> /\ UNCHANGED <<FromUe, Requests, Setups>>
      BY <1>0, <2>2, Sends DEF Decide
    <3>2. None(ToUe, Connects)
      BY <1>2, <2>0, <2>2
    <3> QED BY <1>0, <2>2, <3>1, <3>2, Sent, Messages DEF Connects, LinkTypes
  <2>3. CASE sent'.type = "ConnectionSwitch"
    <3> DEFINE m == RrcConnectionSwitch(Split(drb), sent'.useMmWave)
    <3>1. m \in OfType("RrcConnectionSwitch")
      <4>1. sent'.useMmWave \in BOOLEAN
        <5>1. sent' \in Command
          BY <1>0, TriggerType DEF Decide, DecisionTypeOK
        <5> QED BY <2>3, <5>1 DEF Command, NoCommand, McHandoverRequest,
                                  ConnectToMmWave, ConnectionSwitch
      <4> QED BY <1>0, <4>1, SplitType, Messages DEF OwnTypes
    <3>2. Exchange({}, On(<<Lte, Ue>>, <<m>>))
      BY <2>3 DEF Decide
    <3> HIDE DEF m
    <3>3. ToUe' = ToUe \o <<m>> /\ UNCHANGED <<FromUe, Requests, Setups>>
      BY <1>0, <3>2, Sends
    <3> QED BY <1>0, <2>1, <3>1, <3>3, Sent DEF Connects, LinkTypes
  <2>4. CASE sent'.type = "None"
    BY <2>1, <2>4, LinkUnchanged DEF Decide
  <2> QED BY <2>2, <2>3, <2>4 DEF Decide
<1> QED
  BY <1>1, <1>2, <1>3, <1>4
  DEF ConnectionInv, ProcedureInv, ConnectsOnce, BeforeReport, BearersKnown, AttachOrder,
      NotTold, Reconfigurations

LEMMA ReportProcedures == ConnectionInv /\ (Report \/ UNCHANGED vars) => ProcedureInv'
<1> SUFFICES ASSUME ConnectionInv, Report \/ UNCHANGED vars PROVE ProcedureInv'
  OBVIOUS
<1>1. /\ UNCHANGED <<ueState, setup, lastCell, allInOutage, connecting>>
      /\ UNCHANGED <<bearers, context, state, drb, available, mmWaveCell, ue, link>>
  BY DEF Report, DoRecvUeSinrUpdate, SendNothing, maps, enbVars, vars, decisionVars
<1>2. UNCHANGED <<ToUe, FromUe, Requests, Setups, Foreign, Split(drb)>>
  BY <1>1, LinkUnchanged
<1> QED
  BY <1>1, <1>2
  DEF ConnectionInv, ProcedureInv, ConnectsOnce, BeforeReport, BearersKnown, AttachOrder,
      NotTold

LEMMA RequestsForBearers ==
    ASSUME BearersKnown, NEW last, NEW cell
    PROVE  /\ RlcSetupRequests(last, cell) \in Seq(Message)
           /\ None(RlcSetupRequests(last, cell), Foreign)
           /\ context # "setup" => RlcSetupRequests(last, cell) = << >>
<1>1. /\ RlcSetupRequests(last, cell) \in Seq(Message)
      /\ \A i \in 1 .. Len(RlcSetupRequests(last, cell)) :
           \E b \in bearers : RlcSetupRequests(last, cell)[i] = RlcSetupRequest(b)
  BY RlcSetupRequestsType DEF BearersKnown
<1>2. \A b \in bearers : RlcSetupRequest(b) \notin Foreign
  BY DEF RlcSetupRequest, Foreign
<1>3. ASSUME context # "setup" PROVE RlcSetupRequests(last, cell) = << >>
  <2>1. ToBeSplit(last, cell) = {}
    BY <1>3 DEF BearersKnown, ToBeSplit
  <2>2. Cardinality(ToBeSplit(last, cell)) = 0
    BY <2>1, FS_EmptySet
  <2> QED BY <2>2, RlcSetupRequestsType
<1> QED BY <1>1, <1>2, <1>3 DEF None

LEMMA NotifyProcedures ==
    ConnectionInv /\ RecvNotifySecondaryCellConnected => ProcedureInv'
<1> SUFFICES ASSUME ConnectionInv, RecvNotifySecondaryCellConnected PROVE ProcedureInv'
  OBVIOUS
<1>0. OwnTypes /\ LinkTypes
  BY TypeParts DEF ConnectionInv
<1>1. /\ UNCHANGED <<ueState, setup, lastCell, allInOutage, connecting>>
      /\ UNCHANGED <<bearers, context, state, drb, ue, Foreign, Split(drb)>>
      /\ mmWaveCell' = MmWave /\ MmWave # 0
  BY LinkUnchanged, MmWaveType DEF RecvNotifySecondaryCellConnected, decisionVars
<1>2. FromUe # << >> /\ Head(FromUe) \in Notifies
  BY <1>0, Heads DEF RecvNotifySecondaryCellConnected, Notifies
<1>3. ~None(FromUe, Notifies) /\ None(Tail(FromUe), Notifies)
      /\ (None(FromUe, Completions) => None(Tail(FromUe), Completions))
  <2>1. Once(FromUe, Notifies)
    BY DEF ConnectionInv, ProcedureInv, ConnectsOnce
  <2> QED BY <1>0, <1>2, <2>1, Taken DEF LinkTypes, Notifies, Completions
<1>4. mmWaveCell = 0 /\ ue.access = "connected"
  BY <1>3 DEF ConnectionInv, ProcedureInv, ConnectsOnce
<1>5. /\ FromUe' = Tail(FromUe) /\ UNCHANGED <<ToUe, Setups>>
      /\ None(Requests', Foreign)
      /\ context # "setup" => UNCHANGED Requests
  <2>0. None(Requests, Foreign)
    BY DEF ConnectionInv, ProcedureInv, BearersKnown
  <2>1. CASE Exchange({<<Ue, Lte>>}, Nothing)
    BY <1>0, <1>2, <2>0, <2>1, Consumes
  <2>2. CASE /\ Exchange({<<Ue, Lte>>},
                         On(<<Lte, MmWave>>, RlcSetupRequests(lastCell, MmWave)))
             /\ context = "setup"
    <3> DEFINE rs == RlcSetupRequests(lastCell, MmWave)
    <3>1. rs \in Seq(Message) /\ None(rs, Foreign)
      BY RequestsForBearers DEF ConnectionInv, ProcedureInv
    <3>2. Exchange({<<Ue, Lte>>}, On(<<Lte, MmWave>>, rs))
      BY <2>2
    <3> HIDE DEF rs
    <3>3. /\ FromUe' = Tail(FromUe) /\ Requests' = Requests \o rs
          /\ UNCHANGED <<ToUe, Setups>>
      BY <1>0, <1>2, <3>2, Answers
    <3>4. None(Requests', Foreign)
      BY <1>0, <2>0, <3>1, <3>3, Concats DEF LinkTypes
    <3> QED BY <2>2, <3>3, <3>4
  <2> QED BY <2>1, <2>2 DEF RecvNotifySecondaryCellConnected
<1>6. Once(FromUe', Notifies)
  <2>1. Once(FromUe, Notifies)
    BY DEF ConnectionInv, ProcedureInv, ConnectsOnce
  <2> QED BY <1>0, <1>2, <1>5, <2>1, Tails DEF LinkTypes
<1> QED
  BY <1>1, <1>3, <1>4, <1>5, <1>6
  DEF ConnectionInv, ProcedureInv, ConnectsOnce, BeforeReport, BearersKnown, AttachOrder,
      NotTold

LEMMA RlcRequestProcedures == ConnectionInv /\ RecvRlcSetupRequest => ProcedureInv'
<1> SUFFICES ASSUME ConnectionInv, RecvRlcSetupRequest PROVE ProcedureInv'
  OBVIOUS
<1>0. OwnTypes /\ LinkTypes
  BY TypeParts DEF ConnectionInv
<1>1. /\ UNCHANGED <<ueState, setup, lastCell, allInOutage, connecting>>
      /\ UNCHANGED <<bearers, context, state, drb, available, mmWaveCell, ue>>
      /\ UNCHANGED <<Foreign, Split(drb)>>
  BY LinkUnchanged DEF RecvRlcSetupRequest, decisionVars, enbVars
<1> DEFINE b == Head(Requests).drbid
<1>2. /\ Requests # << >> /\ Head(Requests) \in Message
      /\ Head(Requests).type = "RlcSetupRequest"
  BY <1>0, Heads, OfTypeMessages DEF RecvRlcSetupRequest
<1>3. mmWaveCell # 0 /\ context = "setup"
  BY <1>2 DEF ConnectionInv, ProcedureInv, BeforeReport, BearersKnown
<1>4. None(Tail(Requests), Foreign) /\ b \in bearers
  <2>1. None(Requests, Foreign)
    BY DEF ConnectionInv, ProcedureInv, BearersKnown
  <2>2. None(Tail(Requests), Foreign) /\ Head(Requests) \notin Foreign
    BY <1>0, <1>2, <2>1, Tails DEF LinkTypes
  <2> QED BY <1>2, <2>2 DEF Foreign
<1>5. Exchange({<<Lte, MmWave>>}, On(<<MmWave, Lte>>, <<RlcSetupCompleted(b)>>))
  BY DEF RecvRlcSetupRequest, Requests
<1> HIDE DEF b
<1>6. /\ Requests' = Tail(Requests) /\ Setups' = Setups \o <<RlcSetupCompleted(b)>>
      /\ UNCHANGED <<ToUe, FromUe>>
  BY <1>0, <1>2, <1>5, Answers
<1>7. None(Setups', Foreign)
  <2>1. RlcSetupCompleted(b) \in Message
    BY <1>0, <1>4, Messages, OfTypeMessages DEF OwnTypes
  <2>2. RlcSetupCompleted(b) \notin Foreign
    BY <1>4 DEF RlcSetupCompleted, Foreign
  <2>3. <<RlcSetupCompleted(b)>> \in Seq(Message) /\ None(<<RlcSetupCompleted(b)>>, Foreign)
    BY <2>1, <2>2, Singles
  <2>4. None(Setups, Foreign)
    BY DEF ConnectionInv, ProcedureInv, BearersKnown
  <2> QED BY <1>0, <1>6, <2>3, <2>4, Concats DEF LinkTypes
<1> QED
  BY <1>1, <1>3, <1>4, <1>6, <1>7
  DEF ConnectionInv, ProcedureInv, ConnectsOnce, BeforeReport, BearersKnown, AttachOrder,
      NotTold

LEMMA RlcCompletedProcedures == ConnectionInv /\ RecvRlcSetupCompleted => ProcedureInv'
<1> SUFFICES ASSUME ConnectionInv, RecvRlcSetupCompleted PROVE ProcedureInv'
  OBVIOUS
<1>0. OwnTypes /\ LinkTypes /\ TypeOK
  BY TypeParts DEF ConnectionInv
<1>1. /\ UNCHANGED <<ueState, setup, lastCell, allInOutage, connecting>>
      /\ UNCHANGED <<bearers, context, available, mmWaveCell, ue, Foreign>>
      /\ state' = "MC_CONNECTION_RECONFIGURATION"
  BY LinkUnchanged DEF RecvRlcSetupCompleted, decisionVars
<1> DEFINE b == Head(Setups).drbid
<1>2. /\ Setups # << >> /\ Head(Setups) \in Message
      /\ Head(Setups).type = "RlcSetupCompleted"
  BY <1>0, Heads, OfTypeMessages DEF RecvRlcSetupCompleted
<1>3. mmWaveCell # 0 /\ context = "setup" /\ ueState = "connected"
      /\ state \notin {"INITIAL_RANDOM_ACCESS", "CONNECTION_SETUP"}
  BY <1>2 DEF ConnectionInv, ProcedureInv, ConnectsOnce, NotTold, BeforeReport, BearersKnown, AttachOrder,
     TypeOK, DecisionTypeOK
<1>4. None(Tail(Setups), Foreign) /\ b \in bearers /\ b \in Bearer
  <2>1. None(Setups, Foreign)
    BY DEF ConnectionInv, ProcedureInv, BearersKnown
  <2>2. None(Tail(Setups), Foreign) /\ Head(Setups) \notin Foreign
    BY <1>0, <1>2, <2>1, Tails DEF LinkTypes
  <2>3. b \in bearers
    BY <1>2, <2>2 DEF Foreign
  <2> QED BY <1>0, <2>2, <2>3 DEF OwnTypes
<1>5. drb' = [drb EXCEPT ![b] = "mc"]
  BY DEF RecvRlcSetupCompleted, Setups
<1>6. Exchange({<<MmWave, Lte>>}, On(<<Lte, Ue>>, <<RrcConnectionReconfiguration(drb')>>))
  BY DEF RecvRlcSetupCompleted
<1> HIDE DEF b
<1>7. drb' \in Drb /\ b \in Split(drb)'
      /\ \A a \in Bearer : drb'[a] # "absent" <=> drb[a] # "absent" \/ a = b
  BY <1>0, <1>4, <1>5 DEF OwnTypes, Drb, Split
<1> DEFINE m == RrcConnectionReconfiguration(drb')
<1>8. m \in Reconfigurations
  BY <1>7, Messages DEF Reconfigurations
<1> HIDE DEF m
<1>9. /\ Setups' = Tail(Setups) /\ ToUe' = ToUe \o <<m>>
      /\ UNCHANGED <<FromUe, Requests>>
  BY <1>0, <1>2, <1>6, Answers DEF m
<1>10. /\ None(ToUe', Connects) <=> None(ToUe, Connects)
       /\ Once(ToUe', Connects)
  BY <1>0, <1>8, <1>9, Sent
  DEF Connects, Reconfigurations, LinkTypes, ConnectionInv, ProcedureInv, ConnectsOnce
<1> QED
  BY <1>1, <1>3, <1>4, <1>7, <1>9, <1>10
  DEF ConnectionInv, ProcedureInv, ConnectsOnce, BeforeReport, BearersKnown, AttachOrder,
      NotTold

LEMMA CompletedProcedures == ConnectionInv /\ RecvReconfigurationCompleted => ProcedureInv'
<1> SUFFICES ASSUME ConnectionInv, RecvReconfigurationCompleted PROVE ProcedureInv'
  OBVIOUS
<1>0. TypeOK /\ DecisionTypeOK /\ OwnTypes /\ LinkTypes
  BY TypeParts DEF ConnectionInv
<1>1. /\ UNCHANGED <<bearers, context, drb, available, mmWaveCell, ue>>
      /\ UNCHANGED <<Foreign, Split(drb)>>
      /\ HeadIs(<<Ue, Lte>>, "RrcConnectionReconfigurationCompleted")
  BY LinkUnchanged DEF RecvReconfigurationCompleted
<1>2. FromUe # << >> /\ Head(FromUe) \in Completions
  BY <1>0, <1>1, Heads DEF Completions
<1>3. /\ None(FromUe, Notifies) => None(Tail(FromUe), Notifies)
      /\ Once(Tail(FromUe), Notifies)
      /\ ~None(FromUe, Completions)
  BY <1>0, <1>2, Tails
  DEF LinkTypes, ConnectionInv, ProcedureInv, ConnectsOnce
<1>4. state \notin {"INITIAL_RANDOM_ACCESS", "CONNECTION_SETUP"}
  BY <1>3 DEF ConnectionInv, ProcedureInv, AttachOrder
<1>5. CASE /\ state = "CONNECTED_NORMALLY" /\ UNCHANGED <<decisionVars, state>>
           /\ Exchange({<<Ue, Lte>>}, Nothing)
  <2>1. FromUe' = Tail(FromUe) /\ UNCHANGED <<ToUe, Requests, Setups>>
    BY <1>0, <1>1, <1>5, CompletedLinks
  <2>2. UNCHANGED <<ueState, setup, lastCell, allInOutage, state, connecting>>
    BY <1>5 DEF decisionVars
  <2> QED
    BY <1>1, <1>3, <1>4, <2>1, <2>2
    DEF ConnectionInv, ProcedureInv, ConnectsOnce, BeforeReport, BearersKnown, AttachOrder,
        NotTold
<1>6. CASE /\ ueState = "setup" /\ RecvRrcConnectionSetupCompleted
           /\ BecomeConnected(pending)
           /\ Exchange({<<Ue, Lte>>}, On(<<Lte, Ue>>,
                ConnectCommand \o PendingReconfiguration(pending)))
  <2>1. NotTold /\ ~allInOutage /\ state = "CONNECTION_RECONFIGURATION"
        /\ mmWaveCell = 0
    BY <1>4, <1>6 DEF ConnectionInv, ProcedureInv, ConnectsOnce, AttachOrder, NotTold
  <2>2. /\ ToUe' = ToUe \o (ConnectCommand \o PendingReconfiguration(pending))
        /\ FromUe' = Tail(FromUe) /\ UNCHANGED <<Requests, Setups>>
    BY <1>0, <1>1, <1>6, CompletedLinks
  <2>3. /\ ueState' = "connected" /\ UNCHANGED <<setup, lastCell>>
        /\ allInOutage' => sent'.type # "ConnectToMmWave"
        /\ sent'.type = "ConnectToMmWave" => MmWave \in connecting'
    BY <1>0, <1>6, <2>1, SetupDecides
  <2>4. /\ Once(ToUe', Connects)
        /\ allInOutage' => None(ToUe', Connects)
        /\ None(ToUe', Connects) \/ MmWave \in connecting'
    BY <1>0, <2>1, <2>2, <2>3, Follows DEF NotTold, OwnTypes, LinkTypes
  <2>5. state' \in {"CONNECTED_NORMALLY", "CONNECTION_RECONFIGURATION"}
    BY <1>6 DEF BecomeConnected
  <2> QED
    BY <1>1, <1>3, <2>1, <2>2, <2>3, <2>4, <2>5
    DEF ConnectionInv, ProcedureInv, ConnectsOnce, BeforeReport, BearersKnown, AttachOrder,
        NotTold
<1>7. CASE /\ ueState = "connected" /\ SetupOfBearersCompleted
           /\ BecomeConnected(pending)
           /\ Exchange({<<Ue, Lte>>},
                [On(<<Lte, Ue>>, PendingReconfiguration(pending)) EXCEPT
                   ![<<Lte, MmWave>>] =
                      IF available THEN RlcSetupRequests(lastCell', mmWaveCell)
                                   ELSE << >>])
  <2> DEFINE rs == IF available THEN RlcSetupRequests(lastCell', mmWaveCell) ELSE << >>
  <2>1. /\ rs \in Seq(Message) /\ None(rs, Foreign)
        /\ rs # << >> => available /\ context = "setup"
    BY RequestsForBearers, Empties DEF ConnectionInv, ProcedureInv
  <2>2. Exchange({<<Ue, Lte>>},
          [On(<<Lte, Ue>>, PendingReconfiguration(pending)) EXCEPT ![<<Lte, MmWave>>] = rs])
    BY <1>7
  <2> HIDE DEF rs
  <2>3. /\ ToUe' = ToUe \o PendingReconfiguration(pending)
        /\ FromUe' = Tail(FromUe) /\ Requests' = Requests \o rs /\ UNCHANGED Setups
    BY <1>0, <1>1, <2>2, CompletedLinks
  <2>4. /\ None(ToUe', Connects) <=> None(ToUe, Connects)
        /\ Once(ToUe', Connects)
    BY <1>0, <2>3, Follows
    DEF OwnTypes, LinkTypes, ConnectionInv, ProcedureInv, ConnectsOnce
  <2>5. /\ None(Requests', Foreign)
        /\ ~available \/ context # "setup" => UNCHANGED Requests
    BY <1>0, <2>1, <2>3, Concats, ConcatEmpty
    DEF LinkTypes, ConnectionInv, ProcedureInv, BearersKnown
  <2>6. /\ UNCHANGED <<ueState, allInOutage>>
        /\ Switched = {} => UNCHANGED <<setup, lastCell, connecting>>
        /\ Switched # {} => lastCell' = mmWaveCell
        /\ Switched # {} => state = "MC_CONNECTION_RECONFIGURATION" /\ Split(drb) # {}
        /\ state = "MC_CONNECTION_RECONFIGURATION" => Switched = Split(drb)
    BY <1>7 DEF SetupOfBearersCompleted, Switched
  <2>7. state' \in {"CONNECTED_NORMALLY", "CONNECTION_RECONFIGURATION"}
    BY <1>7 DEF BecomeConnected
  <2> QED
    BY <1>1, <1>3, <1>4, <1>7, <2>3, <2>4, <2>5, <2>6, <2>7
    DEF ConnectionInv, ProcedureInv, ConnectsOnce, BeforeReport, BearersKnown, AttachOrder,
        NotTold
<1> QED BY <1>5, <1>6, <1>7 DEF RecvReconfigurationCompleted

LEMMA UeProcedures ==
    /\ ConnectionInv
    /\ \/ UeRecvRrcConnectToMmWave \/ UeConnectionSuccessful
       \/ UeRecvReconfiguration \/ UeRecvRrcConnectionSwitch
    => ProcedureInv'
<1> SUFFICES ASSUME ConnectionInv,
                    \/ UeRecvRrcConnectToMmWave \/ UeConnectionSuccessful
                    \/ UeRecvReconfiguration \/ UeRecvRrcConnectionSwitch
             PROVE  ProcedureInv'
  OBVIOUS
<1>0. TypeOK /\ OwnTypes /\ LinkTypes
  BY TypeParts DEF ConnectionInv
<1>1. /\ UNCHANGED <<ueState, setup, lastCell, allInOutage, connecting>>
      /\ UNCHANGED <<bearers, context, state, drb, available, mmWaveCell>>
      /\ UNCHANGED <<Foreign, Split(drb)>>
  BY LinkUnchanged
  DEF UeRecvRrcConnectToMmWave, UeConnectionSuccessful, UeRecvReconfiguration,
      UeRecvRrcConnectionSwitch, decisionVars, enbVars
<1> USE DEF ConnectionInv, ProcedureInv, ConnectsOnce, BeforeReport, BearersKnown,
            AttachOrder, NotTold
<1>2. CASE UeRecvRrcConnectToMmWave
  <2>1. /\ ToUe # << >> /\ Head(ToUe) \in Connects
        /\ ToUe' = Tail(ToUe) /\ UNCHANGED <<FromUe, Requests, Setups>>
    BY <1>0, <1>2, Heads, Consumes DEF UeRecvRrcConnectToMmWave, Connects
  <2>2. /\ None(Tail(ToUe), Connects) /\ Once(Tail(ToUe), Connects)
        /\ None(ToUe, Reconfigurations) => None(Tail(ToUe), Reconfigurations)
        /\ ~None(ToUe, Connects)
    BY <1>0, <2>1, Taken DEF LinkTypes, Connects, Reconfigurations
  <2>3. ue.access = "idle" /\ ue'.access = "accessing"
    BY <1>0, <1>2 DEF UeRecvRrcConnectToMmWave, OwnTypes
  <2> QED BY <1>1, <2>1, <2>2, <2>3
<1>3. CASE UeConnectionSuccessful
  <2>1. /\ FromUe' = FromUe \o <<NotifySecondaryCellConnected>>
        /\ UNCHANGED <<ToUe, Requests, Setups>>
    BY <1>0, <1>3, Sends DEF UeConnectionSuccessful
  <2>2. ue.access = "accessing" /\ ue'.access = "connected"
    BY <1>0, <1>3 DEF UeConnectionSuccessful, OwnTypes
  <2>3. None(FromUe, Notifies) /\ mmWaveCell = 0 /\ None(ToUe, Connects)
    BY <2>2
  <2>4. /\ Once(FromUe', Notifies)
        /\ None(FromUe, Completions) => None(FromUe', Completions)
    BY <1>0, <2>1, <2>3, Sent, Messages DEF LinkTypes, Notifies, Completions
  <2> QED BY <1>1, <2>1, <2>2, <2>3, <2>4
<1>4. CASE UeRecvReconfiguration
  <2>1. /\ ToUe # << >> /\ Head(ToUe) \in Reconfigurations
        /\ ToUe' = Tail(ToUe) /\ FromUe' = FromUe \o <<ReconfigurationCompleted>>
        /\ UNCHANGED <<Requests, Setups>>
    BY <1>0, <1>4, Heads, Answers DEF UeRecvReconfiguration, Reconfigurations
  <2>2. /\ None(ToUe, Connects) => None(Tail(ToUe), Connects)
        /\ Once(Tail(ToUe), Connects)
        /\ ~None(ToUe, Reconfigurations)
    BY <1>0, <2>1, Taken DEF LinkTypes, Connects, Reconfigurations
  <2>3. /\ None(FromUe', Notifies) <=> None(FromUe, Notifies)
        /\ Once(FromUe', Notifies)
    BY <1>0, <2>1, Sent, Messages DEF LinkTypes, Notifies
  <2>4. ue'.access = ue.access
    BY <1>0, <1>4 DEF UeRecvReconfiguration, OwnTypes
  <2> QED BY <1>1, <2>1, <2>2, <2>3, <2>4
<1>5. CASE UeRecvRrcConnectionSwitch
  <2>1. /\ ToUe # << >> /\ Head(ToUe) \in OfType("RrcConnectionSwitch")
        /\ ToUe' = Tail(ToUe) /\ UNCHANGED <<FromUe, Requests, Setups>>
    BY <1>0, <1>5, Heads, Consumes DEF UeRecvRrcConnectionSwitch
  <2>2. /\ None(ToUe, Connects) => None(Tail(ToUe), Connects)
        /\ Once(Tail(ToUe), Connects)
        /\ None(ToUe, Reconfigurations) => None(Tail(ToUe), Reconfigurations)
    BY <1>0, <2>1, Taken DEF LinkTypes, Connects, Reconfigurations
  <2>3. ue'.access = ue.access
    BY <1>0, <1>5 DEF UeRecvRrcConnectionSwitch, OwnTypes
  <2> QED BY <1>1, <2>1, <2>2, <2>3
<1> QED BY <1>2, <1>3, <1>4, <1>5

\* The invariant holds of the first connection, with the types.
THEOREM Invariance == Spec => []ConnectionInv
<1>1. Init => ConnectionInv
  BY InitTypes, InitProcedures DEF ConnectionInv
<1>2. ConnectionInv /\ [Next]_vars => ConnectionInv'
  <2> SUFFICES ASSUME ConnectionInv, [Next]_vars PROVE ConnectionInv'
    OBVIOUS
  <2>1. TypeOK'
    BY TypesKept DEF ConnectionInv
  <2>2. ProcedureInv'
    BY RequestProcedures, SetupCompletedProcedures, ContextProcedures, DecideProcedures,
       ReportProcedures, NotifyProcedures, RlcRequestProcedures, RlcCompletedProcedures,
       CompletedProcedures, UeProcedures
    DEF Next, Deliver
  <2> QED BY <2>1, <2>2 DEF ConnectionInv
<1> QED BY <1>1, <1>2, PTL DEF Spec

\* No handler meets a message it cannot take, whatever the order in which the
\* MME answers, the UE reports and the reconfigurations are completed, and for
\* any number of bearers: what would stop the simulation in lte-enb-rrc.cc and
\* lte-ue-rrc.cc is not reached.
THEOREM NothingUnexpected == Spec => []NoUnexpectedMessage
<1>1. ConnectionInv => NoUnexpectedMessage
  <2> SUFFICES ASSUME ConnectionInv PROVE NoUnexpectedMessage
    OBVIOUS
  <2>0. DecisionTypeOK /\ OwnTypes /\ LinkTypes
    BY TypeParts DEF ConnectionInv
  <2> USE DEF ConnectionInv, ProcedureInv, ConnectsOnce, BeforeReport, BearersKnown,
              AttachOrder, NotTold
  <2>1. context = "requested" =>
          state \in {"CONNECTION_SETUP", "CONNECTED_NORMALLY", "CONNECTION_RECONFIGURATION"}
    <3>1. SUFFICES ASSUME context = "requested",
                          state = "MC_CONNECTION_RECONFIGURATION"
                   PROVE  FALSE
      BY <2>0 DEF OwnTypes
    <3>2. PICK b \in Bearer : drb[b] = "mc"
      BY <3>1 DEF Split
    <3> QED BY <3>1, <3>2
  <2>2. ASSUME HeadIs(<<Ue, Lte>>, "RrcConnectionReconfigurationCompleted")
        PROVE  /\ state \notin {"INITIAL_RANDOM_ACCESS", "CONNECTION_SETUP"}
               /\ ueState = "setup" => ~available /\ Switched = {}
               /\ available /\ Split(drb) # {} =>
                    lastCell # 0 \/ state # "CONNECTION_RECONFIGURATION"
    <3>1. ~None(FromUe, Completions)
      BY <2>0, <2>2, Heads, Tails DEF LinkTypes, Completions
    <3>2. ueState = "setup" => mmWaveCell = 0
      OBVIOUS
    <3>3. mmWaveCell = 0 => ~available /\ Switched = {}
      BY DEF Switched
    <3> QED BY <3>1, <3>2, <3>3
  <2>3. HeadIs(<<Ue, Lte>>, "NotifySecondaryCellConnected") => Split(drb) = {}
    <3>1. HeadIs(<<Ue, Lte>>, "NotifySecondaryCellConnected") => ~None(FromUe, Notifies)
      BY <2>0, Heads, Tails DEF LinkTypes, Notifies
    <3> QED BY <3>1
  <2>4. ASSUME HeadIs(<<MmWave, Lte>>, "RlcSetupCompleted")
        PROVE  drb[Head(link[<<MmWave, Lte>>]).drbid] # "absent"
    <3>1. /\ Setups # << >> /\ Head(Setups) \in Message
          /\ Head(Setups).type = "RlcSetupCompleted"
      BY <2>0, <2>4, Heads, OfTypeMessages
    <3>2. Head(Setups) \notin Foreign
      BY <2>0, <3>1, Tails DEF LinkTypes
    <3>3. Head(Setups).drbid \in bearers
      BY <3>1, <3>2 DEF Foreign
    <3>4. context = "setup" /\ Head(Setups).drbid \in Bearer
      BY <2>0, <3>1, <3>3 DEF OwnTypes
    <3> QED BY <3>3, <3>4 DEF Setups
  <2>5. HeadIs(<<Lte, Ue>>, "RrcConnectToMmWave") => ue.access = "idle"
    <3>1. HeadIs(<<Lte, Ue>>, "RrcConnectToMmWave") => ~None(ToUe, Connects)
      BY <2>0, Heads, Tails DEF LinkTypes, Connects
    <3> QED BY <3>1
  <2> QED BY <2>1, <2>2, <2>3, <2>4, <2>5 DEF NoUnexpectedMessage
<1> QED BY <1>1, Invariance, PTL

-----------------------------------------------------------------------------
(***************************************************************************)
(* A UE with one bearer: one RLC entity at each end, and the step of       *)
(* AbstractHandover that the messages implement.                           *)
(*                                                                         *)
(* One entity is requested, created and switched to, in this order; the    *)
(* invariant counts where it is.  The request that waits for the bearers   *)
(* and the one of the report exclude each other: the report finds the      *)
(* bearers or leaves the flag, and the flag is read by the only            *)
(* reconfiguration that follows.                                           *)
(***************************************************************************)
Splits == {m \in Reconfigurations : m.drb[1] = "mc"}
SplitCount == IF drb[1] = "mc" THEN 1 ELSE 0

EntityCounted ==
    /\ Len(Requests) + Len(Setups) + SplitCount <= 1
    /\ remoteRlc[1] = Len(Setups) + SplitCount

PeerCounted ==
    /\ drb[1] # "mc" => None(ToUe, Splits) /\ ue.rlc[1] = 0
    /\ Once(ToUe, Splits)
    /\ ue.rlc[1] # 0 => ue.rlc[1] = 1 /\ None(ToUe, Splits)

ReconfigurationsCounted ==
    /\ pending => context = "setup"
    /\ ueState = "connected" => ~pending /\ (context = "setup" \/ state = "CONNECTED_NORMALLY")
    /\ available /\ (Requests # << >> \/ Setups # << >>) => state = "CONNECTED_NORMALLY"
    /\ drb[1] # "mc" => lastCell = 0
    /\ drb[1] = "mc" /\ state = "MC_CONNECTION_RECONFIGURATION" => lastCell = 0
    /\ drb[1] = "mc" /\ state # "MC_CONNECTION_RECONFIGURATION" => lastCell = MmWave

Counted == EntityCounted /\ PeerCounted /\ ReconfigurationsCounted
OneBearerInv == bearers = {1} => Counted

LEMMA Lengths ==
    ASSUME NEW s \in Seq(Message)
    PROVE  /\ Len(s) \in Nat /\ (Len(s) = 0 <=> s = << >>)
           /\ s # << >> => Len(Tail(s)) = Len(s) - 1
           /\ \A r \in Seq(Message) : Len(s \o r) = Len(s) + Len(r)
           /\ \A m \in Message : Len(s \o <<m>>) = Len(s) + 1
           /\ Len(<< >>) = 0
  OBVIOUS

\* With one bearer, what is split, and what there is to be split.
LEMMA OneBearer ==
    ASSUME ConnectionInv, bearers = {1}
    PROVE  /\ 1 \in Bearer
           /\ Split(drb) = (IF drb[1] = "mc" THEN {1} ELSE {})
           /\ context = "setup" <=> drb[1] # "absent"
           /\ \A last, cell :
                Len(RlcSetupRequests(last, cell)) =
                   IF drb[1] = "lte" \/ (drb[1] = "mc" /\ last # cell) THEN 1 ELSE 0
<1>0. OwnTypes
  BY TypeParts DEF ConnectionInv
<1>1. 1 \in Bearer
  BY <1>0 DEF OwnTypes
<1>2. \A b \in Bearer : drb[b] # "absent" <=> context = "setup" /\ b = 1
  BY DEF ConnectionInv, ProcedureInv, BearersKnown
<1>3. Split(drb) = IF drb[1] = "mc" THEN {1} ELSE {}
  BY <1>1, <1>2 DEF Split
<1>4. ASSUME NEW last, NEW cell
      PROVE  Len(RlcSetupRequests(last, cell)) =
               IF drb[1] = "lte" \/ (drb[1] = "mc" /\ last # cell) THEN 1 ELSE 0
  <2>1. ToBeSplit(last, cell) =
          IF drb[1] = "lte" \/ (drb[1] = "mc" /\ last # cell) THEN {1} ELSE {}
    BY <1>1, <1>2 DEF ToBeSplit
  <2>2. Cardinality({1}) = 1 /\ Cardinality({}) = 0
    BY FS_EmptySet, FS_Singleton
  <2>3. Len(RlcSetupRequests(last, cell)) = Cardinality(ToBeSplit(last, cell))
    BY RlcSetupRequestsType
  <2> QED BY <2>1, <2>2, <2>3
<1> QED BY <1>1, <1>2, <1>3, <1>4

\* A message that says of the bearer that it is split.
LEMMA SplitsSent ==
    ASSUME NEW s \in Seq(Message), NEW m \in Message
    PROVE  /\ m \notin Splits => /\ None(s, Splits) <=> None(s \o <<m>>, Splits)
                                 /\ Once(s, Splits) => Once(s \o <<m>>, Splits)
           /\ None(s, Splits) => Once(s \o <<m>>, Splits)
<1>1. /\ <<m>> \in Seq(Message) /\ Once(<<m>>, Splits)
      /\ m \notin Splits => None(<<m>>, Splits)
  BY Singles
<1> QED BY <1>1, Concats

LEMMA NotSplits ==
    /\ \A t : t # "RrcConnectionReconfiguration" => \A m \in OfType(t) : m \notin Splits
    /\ \A d \in Drb : RrcConnectionReconfiguration(d) \in Splits <=> d[1] = "mc"
  BY Messages DEF Splits, Reconfigurations, OfType

LEMMA InitCounted == Init => OneBearerInv
<1> SUFFICES ASSUME Init, bearers = {1} PROVE Counted
  BY DEF OneBearerInv
<1>1. ToUe = << >> /\ FromUe = << >> /\ Requests = << >> /\ Setups = << >>
  BY DEF Init, Links, ToUe, FromUe, Requests, Setups
<1>2. 1 \in Bearer
  BY ConnectionAssumption DEF Bearer
<1>3. drb[1] = "absent" /\ remoteRlc[1] = 0 /\ ue.rlc[1] = 0
  BY <1>2 DEF Init
<1> QED
  BY <1>1, <1>3, Empties
  DEF Init, DecisionInit, Counted, EntityCounted, PeerCounted, ReconfigurationsCounted,
      SplitCount

\* A UE whose setup is not complete has no split bearer, and no message that
\* follows the setup has one.
LEMMA FollowsCounted ==
    ASSUME ConnectionInv, bearers = {1}, Counted, ueState = "setup", NEW waiting \in BOOLEAN
    PROVE  /\ Requests = << >> /\ Setups = << >> /\ drb[1] # "mc" /\ ~available
           /\ None(ToUe \o PendingReconfiguration(waiting), Splits)
           /\ None(ToUe \o (ConnectCommand \o PendingReconfiguration(waiting)), Splits)
<1>0. OwnTypes /\ LinkTypes
  BY TypeParts DEF ConnectionInv
<1>1. Requests = << >> /\ Setups = << >> /\ Split(drb) = {} /\ ~available
  BY DEF ConnectionInv, ProcedureInv, ConnectsOnce, BeforeReport, NotTold
<1>2. drb[1] # "mc"
  BY <1>1, OneBearer
<1>3. None(ToUe, Splits)
  BY <1>2 DEF Counted, PeerCounted
<1> DEFINE p == PendingReconfiguration(waiting)
           c == ConnectCommand
<1>4. p \in Seq(Message) /\ c \in Seq(Message) /\ c \o p \in Seq(Message)
  BY <1>0, SendableTypes
<1>5. None(p, Splits) /\ None(c, Splits)
  <2>1. /\ RrcConnectionReconfiguration(drb) \in Message \ Splits
        /\ RrcConnectToMmWave \in Message \ Splits
    BY <1>0, <1>2, Messages, NotSplits, OfTypeMessages DEF OwnTypes
  <2> QED BY <2>1, Singles, Empties DEF PendingReconfiguration, ConnectCommand
<1> HIDE DEF p, c
<1>6. None(c \o p, Splits)
  BY <1>4, <1>5, Concats
<1>7. None(ToUe \o p, Splits) /\ None(ToUe \o (c \o p), Splits)
  BY <1>0, <1>3, <1>4, <1>5, <1>6, Concats DEF LinkTypes
<1> QED BY <1>1, <1>2, <1>7 DEF p, c

\* Attach, reports, the rest of a step that changes nothing here.
LEMMA AttachCounted ==
    ASSUME ConnectionInv, bearers = {1}, Counted,
           Request \/ Report \/ UNCHANGED vars
    PROVE  Counted'
<1>1. /\ UNCHANGED <<drb, remoteRlc, ue, link, pending, available, lastCell>>
      /\ \/ UNCHANGED <<ueState, state, context>>
         \/ ueState' = "setup" /\ ueState = "idle" /\ state = "INITIAL_RANDOM_ACCESS"
            /\ state' = "CONNECTION_SETUP" /\ context = "none"
  BY DEF Request, RecvRrcConnectionRequest, Report, DoRecvUeSinrUpdate, maps, enbVars,
         vars, decisionVars, ConnectionInv, ProcedureInv, AttachOrder
<1>2. UNCHANGED <<ToUe, FromUe, Requests, Setups>>
  BY <1>1, LinkUnchanged
<1>3. UNCHANGED SplitCount
  BY <1>1 DEF SplitCount
<1>4. context = "none" =>
        drb[1] # "mc" /\ Requests = << >> /\ Setups = << >> /\ ~pending
  BY OneBearer DEF ConnectionInv, ProcedureInv, BearersKnown, Counted, ReconfigurationsCounted
<1> QED
  BY <1>1, <1>2, <1>3, <1>4
  DEF Counted, EntityCounted, PeerCounted, ReconfigurationsCounted

LEMMA SetupCompletedCounted ==
    ASSUME ConnectionInv, bearers = {1}, Counted, SetupCompleted
    PROVE  Counted'
<1>0. DecisionTypeOK /\ OwnTypes /\ LinkTypes
  BY TypeParts DEF ConnectionInv
<1>1. ueState = "setup" /\ ~allInOutage
  BY DEF SetupCompleted, ConnectionInv, ProcedureInv, ConnectsOnce, AttachOrder
<1>2. /\ UNCHANGED <<context, drb, available, remoteRlc, ue, lastCell>>
      /\ ~pending' /\ UNCHANGED SplitCount
  BY <1>0, <1>1, SetupDecides DEF SetupCompleted, BecomeConnected, decisionVars, SplitCount
<1>3. ueState' = "connected" => state' = "CONNECTED_NORMALLY" \/ context = "setup"
  BY <1>1 DEF SetupCompleted, BecomeConnected, decisionVars, Counted, ReconfigurationsCounted
<1>4. /\ None(ToUe', Splits)
      /\ UNCHANGED <<FromUe, Requests, Setups>>
      /\ Requests = << >> /\ Setups = << >> /\ drb[1] # "mc" /\ ~available
  <2>1. pending \in BOOLEAN
    BY <1>0 DEF OwnTypes
  <2>2. PICK ms : /\ Exchange({}, On(<<Lte, Ue>>, ms))
                  /\ \/ ms = ConnectCommand \o PendingReconfiguration(pending)
                     \/ ms = PendingReconfiguration(TRUE)
    BY DEF SetupCompleted
  <2>3. ToUe' = ToUe \o ms /\ UNCHANGED <<FromUe, Requests, Setups>>
    BY <1>0, <2>2, Sends
  <2> QED BY <1>1, <2>1, <2>2, <2>3, FollowsCounted
<1>5. Once(ToUe', Splits)
  BY <1>4 DEF None, Once
<1> QED
  BY <1>2, <1>3, <1>4, <1>5
  DEF Counted, EntityCounted, PeerCounted, ReconfigurationsCounted

LEMMA ContextCounted ==
    ASSUME ConnectionInv, bearers = {1}, Counted, DoInitialContextSetupRequest
    PROVE  Counted'
<1>0. OwnTypes /\ LinkTypes /\ 1 \in Bearer
  BY TypeParts, OneBearer DEF ConnectionInv
<1>1. /\ context = "requested" /\ context' = "setup"
      /\ UNCHANGED <<available, remoteRlc, ue, lastCell, ueState>>
      /\ drb'[1] = "lte"
  BY <1>0 DEF DoInitialContextSetupRequest, decisionVars
<1>2. drb[1] # "mc" /\ Requests = << >> /\ Setups = << >>
  BY <1>1, OneBearer DEF ConnectionInv, ProcedureInv, BearersKnown
<1>3. /\ UNCHANGED <<FromUe, Requests, Setups>>
      /\ None(ToUe', Splits)
      /\ ueState = "connected" => ~pending'
  <2> DEFINE m == RrcConnectionReconfiguration([drb EXCEPT ![1] = "lte"])
  <2>0. None(ToUe, Splits)
    BY <1>2 DEF Counted, PeerCounted
  <2>1. CASE UNCHANGED link /\ state # "CONNECTED_NORMALLY"
    BY <1>1, <2>0, <2>1, LinkUnchanged DEF Counted, ReconfigurationsCounted
  <2>2. CASE /\ Exchange({}, On(<<Lte, Ue>>, <<m>>))
             /\ pending' = (Cardinality(bearers) > 1)
    <3>1. m \in Message /\ m \notin Splits
      <4>1. [drb EXCEPT ![1] = "lte"] \in Drb /\ [drb EXCEPT ![1] = "lte"][1] = "lte"
        BY <1>0 DEF OwnTypes, Drb
      <4> QED BY <4>1, Messages, NotSplits, OfTypeMessages
    <3> HIDE DEF m
    <3>2. ToUe' = ToUe \o <<m>> /\ UNCHANGED <<FromUe, Requests, Setups>>
      BY <1>0, <2>2, Sends
    <3>3. None(ToUe', Splits)
      BY <1>0, <2>0, <3>1, <3>2, SplitsSent DEF LinkTypes
    <3>4. ~(Cardinality(bearers) > 1)
      BY FS_Singleton
    <3> QED BY <2>2, <3>2, <3>3, <3>4
  <2> QED BY <2>1, <2>2 DEF DoInitialContextSetupRequest
<1>4. Once(ToUe', Splits)
  BY <1>3 DEF None, Once
<1>5. SplitCount = 0 /\ SplitCount' = 0
  BY <1>1, <1>2 DEF SplitCount
<1> QED
  BY <1>1, <1>2, <1>3, <1>4, <1>5
  DEF Counted, EntityCounted, PeerCounted, ReconfigurationsCounted

LEMMA DecideCounted ==
    ASSUME ConnectionInv, bearers = {1}, Counted, Decide
    PROVE  Counted'
<1>0. DecisionTypeOK /\ OwnTypes /\ LinkTypes
  BY TypeParts DEF ConnectionInv
<1>1. UNCHANGED <<ueState, lastCell>>
  <2>1. allInOutage => setup # "true"
    BY DEF ConnectionInv, ProcedureInv, ConnectsOnce, BeforeReport, NotTold
  <2> QED BY <1>0, <2>1, DecisionSteps DEF Decide
<1>2. /\ UNCHANGED <<context, state, drb, pending, available, remoteRlc, ue>>
      /\ UNCHANGED SplitCount
  BY DEF Decide, SplitCount
<1>3. /\ UNCHANGED <<FromUe, Requests, Setups>>
      /\ None(ToUe, Splits) => None(ToUe', Splits)
      /\ Once(ToUe', Splits)
  <2>1. Once(ToUe, Splits)
    BY DEF Counted, PeerCounted
  <2>2. CASE UNCHANGED link
    BY <2>1, <2>2, LinkUnchanged
  <2>3. ASSUME NEW m \in Message \ Splits, Exchange({}, On(<<Lte, Ue>>, <<m>>))
        PROVE  /\ UNCHANGED <<FromUe, Requests, Setups>>
               /\ None(ToUe, Splits) => None(ToUe', Splits)
               /\ Once(ToUe', Splits)
    <3>1. ToUe' = ToUe \o <<m>> /\ UNCHANGED <<FromUe, Requests, Setups>>
      BY <1>0, <2>3, Sends
    <3> QED BY <1>0, <2>1, <3>1, SplitsSent DEF LinkTypes
  <2>4. RrcConnectToMmWave \in Message \ Splits
    BY Messages, NotSplits, OfTypeMessages
  <2>5. ASSUME sent'.type = "ConnectionSwitch"
        PROVE  RrcConnectionSwitch(Split(drb), sent'.useMmWave) \in Message \ Splits
    <3>1. sent' \in Command
      BY <1>0, TriggerType DEF Decide, DecisionTypeOK
    <3>2. sent'.useMmWave \in BOOLEAN
      BY <2>5, <3>1 DEF Command, NoCommand, McHandoverRequest, ConnectToMmWave,
                        ConnectionSwitch
    <3> QED BY <1>0, <3>2, SplitType, Messages, NotSplits, OfTypeMessages DEF OwnTypes
  <2> QED BY <2>2, <2>3, <2>4, <2>5 DEF Decide
<1> QED
  BY <1>1, <1>2, <1>3
  DEF Counted, EntityCounted, PeerCounted, ReconfigurationsCounted

LEMMA NotifyCounted ==
    ASSUME ConnectionInv, bearers = {1}, Counted, RecvNotifySecondaryCellConnected
    PROVE  Counted'
<1>0. OwnTypes /\ LinkTypes
  BY TypeParts DEF ConnectionInv
<1>1. /\ UNCHANGED <<ueState, lastCell, context, state, drb, pending, remoteRlc, ue>>
      /\ UNCHANGED SplitCount
  BY DEF RecvNotifySecondaryCellConnected, decisionVars, SplitCount
<1>2. FromUe # << >> /\ Head(FromUe) \in Notifies
  BY <1>0, Heads DEF RecvNotifySecondaryCellConnected, Notifies
<1>3. ~None(FromUe, Notifies)
  BY <1>0, <1>2, Tails DEF LinkTypes
<1>4. /\ mmWaveCell = 0 /\ Requests = << >> /\ Setups = << >> /\ drb[1] # "mc"
      /\ ~available
  BY <1>3, OneBearer DEF ConnectionInv, ProcedureInv, ConnectsOnce, BeforeReport
<1>5. CASE context # "setup" /\ Exchange({<<Ue, Lte>>}, Nothing)
  <2>1. UNCHANGED <<ToUe, Requests, Setups>>
    BY <1>0, <1>2, <1>5, Consumes
  <2> QED
    BY <1>1, <1>4, <2>1
    DEF Counted, EntityCounted, PeerCounted, ReconfigurationsCounted
<1>6. CASE /\ context = "setup" /\ UNCHANGED available
           /\ Exchange({<<Ue, Lte>>},
                       On(<<Lte, MmWave>>, RlcSetupRequests(lastCell, MmWave)))
  <2> DEFINE rs == RlcSetupRequests(lastCell, MmWave)
  <2>1. rs \in Seq(Message) /\ Len(rs) = 1
    <3>1. drb[1] = "lte"
      BY <1>0, <1>4, <1>6, OneBearer DEF OwnTypes, Drb
    <3> QED BY <3>1, OneBearer, RlcSetupRequestsType
  <2>2. Exchange({<<Ue, Lte>>}, On(<<Lte, MmWave>>, rs))
    BY <1>6
  <2> HIDE DEF rs
  <2>3. Requests' = Requests \o rs /\ UNCHANGED <<ToUe, Setups>>
    BY <1>0, <1>2, <2>2, Answers
  <2>4. Len(Requests') = 1 /\ Len(Setups) = 0
    BY <1>0, <1>4, <2>1, <2>3, Lengths DEF LinkTypes
  <2>5. SplitCount = 0
    BY <1>4 DEF SplitCount
  <2>6. EntityCounted'
    BY <1>1, <2>3, <2>4, <2>5 DEF Counted, EntityCounted
  <2>7. PeerCounted'
    BY <1>1, <1>4, <2>3 DEF Counted, PeerCounted
  <2>8. ReconfigurationsCounted'
    BY <1>1, <1>4, <1>6 DEF Counted, ReconfigurationsCounted
  <2> QED BY <2>6, <2>7, <2>8 DEF Counted
<1> QED BY <1>5, <1>6 DEF RecvNotifySecondaryCellConnected

LEMMA RlcRequestCounted ==
    ASSUME ConnectionInv, bearers = {1}, Counted, RecvRlcSetupRequest
    PROVE  Counted'
<1>0. OwnTypes /\ LinkTypes /\ 1 \in Bearer
  BY TypeParts, OneBearer DEF ConnectionInv
<1>1. /\ UNCHANGED <<ueState, lastCell, context, state, drb, pending, available, ue>>
      /\ UNCHANGED SplitCount
  BY DEF RecvRlcSetupRequest, decisionVars, enbVars, SplitCount
<1> DEFINE b == Head(Requests).drbid
<1>2. /\ Requests # << >> /\ Head(Requests) \in Message
      /\ Head(Requests).type = "RlcSetupRequest" /\ Tail(Requests) \in Seq(Message)
  BY <1>0, Heads, OfTypeMessages DEF RecvRlcSetupRequest
<1>3. b = 1
  <2>1. Head(Requests) \notin Foreign
    BY <1>0, <1>2, Tails DEF LinkTypes, ConnectionInv, ProcedureInv, BearersKnown
  <2> QED BY <1>2, <2>1 DEF Foreign
<1>4. /\ remoteRlc' = [remoteRlc EXCEPT ![b] = @ + 1]
      /\ Exchange({<<Lte, MmWave>>}, On(<<MmWave, Lte>>, <<RlcSetupCompleted(b)>>))
  BY DEF RecvRlcSetupRequest, Requests
<1> HIDE DEF b
<1>5. /\ Requests' = Tail(Requests) /\ Setups' = Setups \o <<RlcSetupCompleted(b)>>
      /\ UNCHANGED <<ToUe, FromUe>>
  BY <1>0, <1>2, <1>4, Answers
<1>6. /\ Len(Requests') = Len(Requests) - 1 /\ Len(Setups') = Len(Setups) + 1
      /\ Len(Requests) \in Nat /\ Len(Setups) \in Nat
      /\ remoteRlc'[1] = remoteRlc[1] + 1
  <2>1. RlcSetupCompleted(b) \in Message
    BY <1>0, <1>3, Messages, OfTypeMessages
  <2>2. remoteRlc'[1] = remoteRlc[1] + 1
    BY <1>0, <1>3, <1>4 DEF OwnTypes
  <2> QED BY <1>0, <1>2, <1>5, <2>1, <2>2, Lengths DEF LinkTypes
<1>7. EntityCounted'
  BY <1>1, <1>6 DEF Counted, EntityCounted, SplitCount
<1>8. PeerCounted'
  BY <1>1, <1>5 DEF Counted, PeerCounted
<1>9. ReconfigurationsCounted'
  BY <1>1, <1>2 DEF Counted, ReconfigurationsCounted
<1> QED BY <1>7, <1>8, <1>9 DEF Counted

LEMMA RlcCompletedCounted ==
    ASSUME ConnectionInv, bearers = {1}, Counted, RecvRlcSetupCompleted
    PROVE  Counted'
<1>0. OwnTypes /\ LinkTypes /\ 1 \in Bearer
  BY TypeParts, OneBearer DEF ConnectionInv
<1>1. /\ UNCHANGED <<ueState, lastCell, context, available, remoteRlc, ue>>
      /\ state' = "MC_CONNECTION_RECONFIGURATION" /\ ~pending'
  BY DEF RecvRlcSetupCompleted, decisionVars
<1> DEFINE b == Head(Setups).drbid
<1>2. /\ Setups # << >> /\ Head(Setups) \in Message
      /\ Head(Setups).type = "RlcSetupCompleted" /\ Tail(Setups) \in Seq(Message)
  BY <1>0, Heads, OfTypeMessages DEF RecvRlcSetupCompleted
<1>3. b = 1
  <2>1. Head(Setups) \notin Foreign
    BY <1>0, <1>2, Tails DEF LinkTypes, ConnectionInv, ProcedureInv, BearersKnown
  <2> QED BY <1>2, <2>1 DEF Foreign
<1>4. drb' = [drb EXCEPT ![b] = "mc"]
  BY DEF RecvRlcSetupCompleted, Setups
<1> DEFINE m == RrcConnectionReconfiguration(drb')
<1>5. Exchange({<<MmWave, Lte>>}, On(<<Lte, Ue>>, <<m>>))
  BY DEF RecvRlcSetupCompleted
<1>6. m \in Message /\ drb'[1] = "mc"
  <2>1. drb' \in Drb /\ drb'[1] = "mc"
    BY <1>0, <1>3, <1>4 DEF OwnTypes, Drb
  <2> QED BY <2>1, Messages, OfTypeMessages
<1> HIDE DEF b, m
<1>7. /\ Setups' = Tail(Setups) /\ ToUe' = ToUe \o <<m>>
      /\ UNCHANGED <<FromUe, Requests>>
  BY <1>0, <1>2, <1>5, Answers
<1>8. /\ Len(Setups) \in Nat \ {0} /\ Len(Requests) \in Nat
      /\ Len(Setups') = Len(Setups) - 1
      /\ Len(Requests) = 0 => Requests = << >>
      /\ Len(Setups') = 0 => Setups' = << >>
  <2>1. Len(Setups) \in Nat /\ Len(Requests) \in Nat /\ Len(Setups) # 0
    BY <1>0, <1>2, Lengths DEF LinkTypes
  <2>2. Len(Tail(Setups)) = 0 => Tail(Setups) = << >>
    BY <1>2, Lengths
  <2> QED BY <1>0, <1>2, <1>7, <2>1, <2>2, Lengths DEF LinkTypes
<1>9. /\ SplitCount = 0 /\ SplitCount' = 1 /\ drb[1] # "mc"
      /\ Len(Requests) = 0 /\ Len(Setups) = 1
  BY <1>6, <1>8 DEF Counted, EntityCounted, SplitCount
<1>10. EntityCounted'
  BY <1>1, <1>7, <1>8, <1>9 DEF Counted, EntityCounted
<1>11. PeerCounted'
  <2>1. None(ToUe, Splits) /\ ue.rlc[1] = 0
    BY <1>9 DEF Counted, PeerCounted
  <2>2. Once(ToUe', Splits)
    BY <1>0, <1>6, <1>7, <2>1, SplitsSent DEF LinkTypes
  <2> QED BY <1>1, <1>6, <2>1, <2>2 DEF PeerCounted
<1>12. ReconfigurationsCounted'
  <2>1. context = "setup"
    BY <1>2 DEF ConnectionInv, ProcedureInv, BearersKnown
  <2>2. lastCell = 0
    BY <1>9 DEF Counted, ReconfigurationsCounted
  <2>3. Requests' = << >> /\ Setups' = << >>
    BY <1>7, <1>8, <1>9
  <2> QED BY <1>1, <1>6, <2>1, <2>2, <2>3 DEF ReconfigurationsCounted
<1> QED BY <1>10, <1>11, <1>12 DEF Counted

LEMMA CompletedCounted ==
    ASSUME ConnectionInv, bearers = {1}, Counted, RecvReconfigurationCompleted
    PROVE  Counted'
<1>0. TypeOK /\ OwnTypes /\ LinkTypes
  BY TypeParts DEF ConnectionInv
<1>1. /\ UNCHANGED <<context, drb, available, remoteRlc, ue, SplitCount>>
      /\ HeadIs(<<Ue, Lte>>, "RrcConnectionReconfigurationCompleted")
  BY DEF RecvReconfigurationCompleted, SplitCount
<1>2. CASE /\ UNCHANGED <<decisionVars, state, pending>>
           /\ Exchange({<<Ue, Lte>>}, Nothing)
  <2>1. UNCHANGED <<ToUe, Requests, Setups>>
    BY <1>0, <1>1, <1>2, CompletedLinks
  <2> QED
    BY <1>1, <1>2, <2>1
    DEF decisionVars, Counted, EntityCounted, PeerCounted, ReconfigurationsCounted
<1>3. CASE /\ ueState = "setup" /\ RecvRrcConnectionSetupCompleted
           /\ BecomeConnected(pending)
           /\ Exchange({<<Ue, Lte>>}, On(<<Lte, Ue>>,
                ConnectCommand \o PendingReconfiguration(pending)))
  <2>1. /\ ToUe' = ToUe \o (ConnectCommand \o PendingReconfiguration(pending))
        /\ UNCHANGED <<Requests, Setups>>
    BY <1>0, <1>1, <1>3, CompletedLinks
  <2>2. /\ Requests = << >> /\ Setups = << >> /\ drb[1] # "mc" /\ ~available
        /\ None(ToUe', Splits)
    BY <1>0, <1>3, <2>1, FollowsCounted DEF OwnTypes
  <2>3. Once(ToUe', Splits)
    BY <2>2 DEF None, Once
  <2>4. lastCell' = lastCell
    BY <1>3 DEF RecvRrcConnectionSetupCompleted
  <2>5. ~pending' /\ (context = "setup" \/ state' = "CONNECTED_NORMALLY")
    BY <1>3 DEF BecomeConnected, Counted, ReconfigurationsCounted
  <2> QED
    BY <1>1, <2>1, <2>2, <2>3, <2>4, <2>5
    DEF Counted, EntityCounted, PeerCounted, ReconfigurationsCounted
<1>4. CASE /\ state \in {"CONNECTION_RECONFIGURATION", "MC_CONNECTION_RECONFIGURATION"}
           /\ ueState = "connected" /\ SetupOfBearersCompleted
           /\ BecomeConnected(pending)
           /\ Exchange({<<Ue, Lte>>},
                [On(<<Lte, Ue>>, PendingReconfiguration(pending)) EXCEPT
                   ![<<Lte, MmWave>>] =
                      IF available THEN RlcSetupRequests(lastCell', mmWaveCell)
                                   ELSE << >>])
  <2> DEFINE rs == IF available THEN RlcSetupRequests(lastCell', mmWaveCell) ELSE << >>
  <2>1. ~pending /\ context = "setup"
    BY <1>4 DEF Counted, ReconfigurationsCounted
  <2>2. /\ ~pending' /\ state' = "CONNECTED_NORMALLY" /\ UNCHANGED ueState
    BY <1>4, <2>1 DEF BecomeConnected, SetupOfBearersCompleted
  <2>3. drb[1] = "mc" => mmWaveCell = MmWave
    <3>1. drb[1] = "mc" => mmWaveCell # 0
      BY OneBearer DEF ConnectionInv, ProcedureInv, BeforeReport
    <3> QED BY <1>0, <3>1, MmWaveType DEF OwnTypes
  <2>4. IF drb[1] = "mc" THEN lastCell' = MmWave ELSE lastCell' = 0
    <3>1. CASE drb[1] # "mc"
      <4>1. Switched = {}
        BY <3>1, OneBearer DEF Switched
      <4> QED BY <1>4, <3>1, <4>1
              DEF SetupOfBearersCompleted, Counted, ReconfigurationsCounted
    <3>2. CASE drb[1] = "mc" /\ state = "MC_CONNECTION_RECONFIGURATION"
      <4>1. Switched # {}
        BY <3>2, OneBearer DEF Switched
      <4> QED BY <1>4, <2>3, <3>2, <4>1 DEF SetupOfBearersCompleted
    <3>3. CASE drb[1] = "mc" /\ state # "MC_CONNECTION_RECONFIGURATION"
      <4>1. Switched = {}
        BY <3>3 DEF Switched
      <4> QED BY <1>4, <3>3, <4>1
              DEF SetupOfBearersCompleted, Counted, ReconfigurationsCounted
    <3> QED BY <3>1, <3>2, <3>3
  <2>5. /\ rs \in Seq(Message)
        /\ Len(rs) = IF available /\ drb[1] # "mc" THEN 1 ELSE 0
    <3>1. drb[1] \in {"lte", "mc"}
      BY <1>0, <2>1, OneBearer DEF OwnTypes, Drb
    <3>2. Len(RlcSetupRequests(lastCell', mmWaveCell)) = IF drb[1] = "mc" THEN 0 ELSE 1
      BY <2>3, <2>4, <3>1, OneBearer
    <3> QED BY <3>2, RlcSetupRequestsType, Lengths, Empties
  <2>6. Exchange({<<Ue, Lte>>},
          [On(<<Lte, Ue>>, PendingReconfiguration(pending)) EXCEPT ![<<Lte, MmWave>>] = rs])
    BY <1>4
  <2> HIDE DEF rs
  <2>7. /\ ToUe' = ToUe /\ Requests' = Requests \o rs /\ UNCHANGED Setups
    <3>1. PendingReconfiguration(pending) = << >>
      BY <2>1 DEF PendingReconfiguration
    <3>2. /\ ToUe' = ToUe \o << >> /\ Requests' = Requests \o rs /\ UNCHANGED Setups
      BY <1>0, <1>1, <2>6, <3>1, CompletedLinks
    <3> QED BY <1>0, <3>2, ConcatEmpty DEF LinkTypes
  <2>8. /\ Len(Requests') = Len(Requests) + Len(rs)
        /\ Len(Requests) \in Nat /\ Len(Setups) \in Nat
        /\ available => Len(Requests) = 0 /\ Len(Setups) = 0
    <3>1. available => Requests = << >> /\ Setups = << >>
      BY <1>4 DEF Counted, ReconfigurationsCounted
    <3> QED BY <1>0, <2>5, <2>7, <3>1, Lengths DEF LinkTypes
  <2>9. EntityCounted'
    <3>1. SplitCount \in {0, 1} /\ (SplitCount = 0 <=> drb[1] # "mc")
      BY DEF SplitCount
    <3>2. /\ Len(Requests) + Len(Setups) + SplitCount <= 1
          /\ remoteRlc[1] = Len(Setups) + SplitCount
      BY DEF Counted, EntityCounted
    <3>3. Len(Requests') + Len(Setups) + SplitCount <= 1
      BY <2>5, <2>8, <3>1, <3>2
    <3> QED BY <1>1, <2>7, <3>2, <3>3 DEF EntityCounted
  <2>10. PeerCounted'
    BY <1>1, <2>7 DEF Counted, PeerCounted
  <2>11. ReconfigurationsCounted'
    BY <1>1, <2>1, <2>2, <2>4 DEF ReconfigurationsCounted
  <2> QED BY <2>9, <2>10, <2>11 DEF Counted
<1> QED BY <1>2, <1>3, <1>4 DEF RecvReconfigurationCompleted

LEMMA UeCounted ==
    ASSUME ConnectionInv, bearers = {1}, Counted,
           \/ UeRecvRrcConnectToMmWave \/ UeConnectionSuccessful
           \/ UeRecvReconfiguration \/ UeRecvRrcConnectionSwitch
    PROVE  Counted'
<1>0. OwnTypes /\ LinkTypes /\ 1 \in Bearer
  BY TypeParts, OneBearer DEF ConnectionInv
<1>1. /\ UNCHANGED <<ueState, lastCell, context, state, drb, pending, available, remoteRlc>>
      /\ UNCHANGED SplitCount
  BY DEF UeRecvRrcConnectToMmWave, UeConnectionSuccessful, UeRecvReconfiguration,
         UeRecvRrcConnectionSwitch, decisionVars, enbVars, SplitCount
<1>2. ASSUME UNCHANGED <<Requests, Setups>>, PeerCounted' PROVE Counted'
  BY <1>1, <1>2 DEF Counted, EntityCounted, ReconfigurationsCounted
<1>3. ASSUME NEW t, t # "RrcConnectionReconfiguration", HeadIs(<<Lte, Ue>>, t),
             Exchange({<<Lte, Ue>>}, Nothing), ue'.rlc = ue.rlc
      PROVE  Counted'
  <2>1. /\ ToUe # << >> /\ Head(ToUe) \in OfType(t)
        /\ ToUe' = Tail(ToUe) /\ UNCHANGED <<Requests, Setups>>
    BY <1>0, <1>3, Heads, Consumes
  <2>2. /\ None(ToUe, Splits) => None(ToUe', Splits)
        /\ Once(ToUe, Splits) => Once(ToUe', Splits)
    BY <1>0, <2>1, Tails DEF LinkTypes
  <2>3. PeerCounted'
    BY <1>1, <1>3, <2>2 DEF Counted, PeerCounted
  <2> QED BY <1>2, <2>1, <2>3
<1>4. CASE UeRecvRrcConnectToMmWave
  <2>1. ue'.rlc = ue.rlc
    BY <1>0, <1>4 DEF UeRecvRrcConnectToMmWave, OwnTypes
  <2> QED BY <1>3, <1>4, <2>1 DEF UeRecvRrcConnectToMmWave
<1>5. CASE UeRecvRrcConnectionSwitch
  <2>1. ue'.rlc = ue.rlc
    BY <1>0, <1>5 DEF UeRecvRrcConnectionSwitch, OwnTypes
  <2> QED BY <1>3, <1>5, <2>1 DEF UeRecvRrcConnectionSwitch
<1>6. CASE UeConnectionSuccessful
  <2>1. ue'.rlc = ue.rlc
    BY <1>0, <1>6 DEF UeConnectionSuccessful, OwnTypes
  <2>2. UNCHANGED <<ToUe, Requests, Setups>>
    BY <1>0, <1>6, Sends DEF UeConnectionSuccessful
  <2>3. PeerCounted'
    BY <1>1, <2>1, <2>2 DEF Counted, PeerCounted
  <2> QED BY <1>2, <2>2, <2>3
<1>7. CASE UeRecvReconfiguration
  <2>1. /\ ToUe # << >> /\ Head(ToUe) \in Reconfigurations
        /\ ToUe' = Tail(ToUe) /\ UNCHANGED <<Requests, Setups>>
    BY <1>0, <1>7, Heads, Answers DEF UeRecvReconfiguration, Reconfigurations
  <2> DEFINE split == Split(Head(ToUe).drb) \cap ue.drb
  <2>2. ue'.rlc = [b \in Bearer |-> IF b \in split THEN ue.rlc[b] + 1 ELSE ue.rlc[b]]
    BY <1>0, <1>7 DEF UeRecvReconfiguration, OwnTypes, ToUe
  <2>3. Head(ToUe) \notin Splits => 1 \notin split
    BY <2>1 DEF Splits, Split
  <2> HIDE DEF split
  <2>4. /\ Head(ToUe) \notin Splits => ue'.rlc[1] = ue.rlc[1]
        /\ ue'.rlc[1] = ue.rlc[1] \/ ue'.rlc[1] = ue.rlc[1] + 1
    BY <1>0, <2>2, <2>3
  <2>5. /\ None(ToUe, Splits) => None(ToUe', Splits) /\ Head(ToUe) \notin Splits
        /\ Once(ToUe, Splits) => Once(ToUe', Splits)
        /\ Once(ToUe, Splits) /\ Head(ToUe) \in Splits => None(ToUe', Splits)
    BY <1>0, <2>1, Tails DEF LinkTypes
  <2>6. PeerCounted'
    BY <1>1, <2>4, <2>5 DEF Counted, PeerCounted
  <2> QED BY <1>2, <2>1, <2>6
<1> QED BY <1>4, <1>5, <1>6, <1>7

\* With one bearer there is at most one of: a request on its way to the cell, an
\* answer on its way back, a bearer that is split.  The cell has an entity from
\* the answer on, the UE from the reconfiguration on that says so, and there is
\* at most one such reconfiguration.
THEOREM OneBearerInvariance == Spec => []OneBearerInv
<1>1. Init => OneBearerInv
  BY InitCounted
<1>2. ConnectionInv /\ OneBearerInv /\ [Next]_vars => OneBearerInv'
  <2> SUFFICES ASSUME ConnectionInv, OneBearerInv, [Next]_vars, bearers' = {1}
               PROVE  Counted'
    BY DEF OneBearerInv
  <2>1. bearers' = bearers
    BY DEF Next, Deliver, Request, SetupCompleted, DoInitialContextSetupRequest, Decide,
           Report, UeConnectionSuccessful, RecvNotifySecondaryCellConnected,
           RecvReconfigurationCompleted, RecvRlcSetupRequest, RecvRlcSetupCompleted,
           UeRecvRrcConnectToMmWave, UeRecvReconfiguration, UeRecvRrcConnectionSwitch,
           vars
  <2>2. bearers = {1} /\ Counted
    BY <2>1 DEF OneBearerInv
  <2> QED
    BY <2>2, AttachCounted, SetupCompletedCounted, ContextCounted, DecideCounted,
       NotifyCounted, RlcRequestCounted, RlcCompletedCounted, CompletedCounted, UeCounted
    DEF Next, Deliver
<1> QED BY <1>1, <1>2, Invariance, PTL DEF Spec

\* Whatever the order of the MME's answer, the report and the completions, the
\* mmWave cell creates one RLC entity for the only bearer of a UE, and the UE
\* creates one peer: RecvRlcSetupRequest and ApplyRadioResourceConfigDedicated
\* never replace an entity that is in use.
THEOREM OneEntityPerBearer == Spec => []OneRlcPerBearer
<1>1. ConnectionInv /\ OneBearerInv => OneRlcPerBearer
  <2> SUFFICES ASSUME ConnectionInv, bearers = {1}, Counted
               PROVE  remoteRlc[1] <= 1 /\ ue.rlc[1] <= 1
    BY DEF OneBearerInv, OneRlcPerBearer
  <2>1. OwnTypes /\ LinkTypes /\ 1 \in Bearer
    BY TypeParts, OneBearer DEF ConnectionInv
  <2>2. Len(Requests) \in Nat /\ Len(Setups) \in Nat /\ ue.rlc[1] \in Nat
    BY <2>1, Lengths DEF OwnTypes, LinkTypes
  <2> QED BY <2>2 DEF Counted, EntityCounted, PeerCounted, SplitCount
<1> QED BY <1>1, Invariance, OneBearerInvariance, PTL

-----------------------------------------------------------------------------
(***************************************************************************)
(* When nothing is in flight, every bearer of a connected UE is split:     *)
(* nothing of the three procedures is forgotten, whatever order their      *)
(* messages come in.                                                       *)
(*                                                                         *)
(* The invariant says for each bearer what is still under way for it: the  *)
(* report, the request or the answer for its RLC entity, a reconfiguration *)
(* that makes its peer.  The UE makes a peer only for a bearer that it has *)
(* heard of before, so that the order of the messages to the UE is part of *)
(* it.                                                                     *)
(***************************************************************************)
Naming(b) == {m \in Reconfigurations : m.drb[b] # "absent"}
Splitting(b) == {m \in Reconfigurations : m.drb[b] = "mc"}
For(b) == {m \in Message : /\ m.type \in {"RlcSetupRequest", "RlcSetupCompleted"}
                           /\ m.drbid = b}
Preceded(s, N, S) == \E i, j \in 1 .. Len(s) : j < i /\ s[j] \in N /\ s[i] \in S

\* The UE knows the bearer, or will.
Named(b) == b \in ue.drb \/ ~None(ToUe, Naming(b))

\* The RLC entity of the bearer at the mmWave cell is there or requested.
Asked(b) == drb[b] = "mc" \/ ~None(Requests, For(b)) \/ ~None(Setups, For(b))

\* The UE has a mmWave RLC entity for the bearer, or will.
PeerComes(b) ==
    \/ ue.rlc[b] >= 1
    \/ b \in ue.drb /\ ~None(ToUe, Splitting(b))
    \/ Preceded(ToUe, Naming(b), Splitting(b))

BearerIds == bearers \in {1 .. n : n \in 1 .. MaxBearers}
SetupStays == lastCell # 0 => setup = "true"

\* A reconfiguration that goes on has a message in flight, and one that waits
\* waits for one that goes on.
GoesOn ==
    /\ state \in {"CONNECTION_RECONFIGURATION", "MC_CONNECTION_RECONFIGURATION"} =>
          ~None(ToUe, Reconfigurations) \/ ~None(FromUe, Completions)
    /\ pending => /\ context = "setup"
                  /\ state \in {"CONNECTION_SETUP", "CONNECTION_RECONFIGURATION"}
    /\ context = "requested" /\ state = "CONNECTION_RECONFIGURATION" => ueState = "setup"

ReportComes == ue.access = "connected" => ~None(FromUe, Notifies) \/ mmWaveCell # 0

\* After the report every bearer is asked for, or a completion will do it.
RequestsMade ==
    mmWaveCell # 0 =>
       /\ context # "setup" => available
       /\ context = "setup" =>
            \/ \A b \in bearers : Asked(b)
            \/ /\ available /\ state = "CONNECTION_RECONFIGURATION"
               /\ Requests = << >> /\ Setups = << >>

EntitiesMade ==
    \A b \in Bearer : drb[b] = "mc" \/ ~None(Setups, For(b)) => remoteRlc[b] >= 1

\* Every bearer is named to the UE, or a reconfiguration that waits will name
\* it; until then the first entity to come is that of the one bearer named.
Announced ==
    context = "setup" =>
       \/ \A b \in bearers : Named(b)
       \/ pending /\ state = "CONNECTION_SETUP"
       \/ pending /\ state = "CONNECTION_RECONFIGURATION" /\ ueState = "setup"
       \/ /\ pending /\ state = "CONNECTION_RECONFIGURATION" /\ Named(1)
          /\ Setups # << >> => Head(Setups).drbid = 1
          /\ Setups = << >> /\ Requests # << >> => Head(Requests).drbid = 1

PeersCome == \A b \in Bearer : drb[b] = "mc" => PeerComes(b)

SplitInv == /\ BearerIds /\ SetupStays /\ GoesOn /\ ReportComes /\ RequestsMade
            /\ EntitiesMade /\ Announced /\ PeersCome

-----------------------------------------------------------------------------
\* What a link holds as its head is consumed, and as messages are added.
LEMMA HeadOrTail ==
    ASSUME NEW M, NEW s \in Seq(M), s # << >>, NEW S, NEW N
    PROVE  /\ ~None(s, S) => Head(s) \in S \/ ~None(Tail(s), S)
           /\ Preceded(s, N, S) =>
                Preceded(Tail(s), N, S) \/ (Head(s) \in N /\ ~None(Tail(s), S))
<1>1. /\ Len(Tail(s)) = Len(s) - 1 /\ Len(s) \in Nat \ {0} /\ Head(s) = s[1]
      /\ \A i \in 1 .. Len(s) : i # 1 =>
            i - 1 \in 1 .. Len(Tail(s)) /\ Tail(s)[i - 1] = s[i]
  OBVIOUS
<1>2. ASSUME ~None(s, S) PROVE Head(s) \in S \/ ~None(Tail(s), S)
  <2>1. PICK i \in 1 .. Len(s) : s[i] \in S
    BY <1>2 DEF None
  <2> QED BY <1>1, <2>1 DEF None
<1>3. ASSUME Preceded(s, N, S)
      PROVE  Preceded(Tail(s), N, S) \/ (Head(s) \in N /\ ~None(Tail(s), S))
  <2>1. PICK i \in 1 .. Len(s), j \in 1 .. Len(s) : j < i /\ s[j] \in N /\ s[i] \in S
    BY <1>3 DEF Preceded
  <2>2. i - 1 \in 1 .. Len(Tail(s)) /\ Tail(s)[i - 1] \in S
    BY <1>1, <2>1
  <2>3. CASE j = 1
    BY <1>1, <2>1, <2>2, <2>3 DEF None
  <2>4. CASE j # 1
    <3>1. j - 1 \in 1 .. Len(Tail(s)) /\ Tail(s)[j - 1] \in N /\ j - 1 < i - 1
      BY <1>1, <2>1, <2>4
    <3> QED BY <2>2, <3>1 DEF Preceded
  <2> QED BY <2>3, <2>4
<1> QED BY <1>2, <1>3

LEMMA PrecededConcat ==
    ASSUME NEW M, NEW s \in Seq(M), NEW r \in Seq(M), NEW S, NEW N
    PROVE  /\ Preceded(s, N, S) => Preceded(s \o r, N, S)
           /\ ~None(s, N) /\ ~None(r, S) => Preceded(s \o r, N, S)
<1>1. /\ Len(s) \in Nat /\ Len(r) \in Nat
      /\ \A i \in 1 .. Len(s) : (s \o r)[i] = s[i] /\ i \in 1 .. Len(s \o r)
      /\ \A i \in 1 .. Len(r) : (s \o r)[Len(s) + i] = r[i]
                                /\ Len(s) + i \in 1 .. Len(s \o r)
  OBVIOUS
<1>2. Preceded(s, N, S) => Preceded(s \o r, N, S)
  BY <1>1 DEF Preceded
<1>3. ASSUME ~None(s, N), ~None(r, S) PROVE Preceded(s \o r, N, S)
  <2>1. PICK j \in 1 .. Len(s) : s[j] \in N
    BY <1>3 DEF None
  <2>2. PICK i \in 1 .. Len(r) : r[i] \in S
    BY <1>3 DEF None
  <2>3. j < Len(s) + i
    BY <1>1
  <2> QED BY <1>1, <2>1, <2>2, <2>3 DEF Preceded
<1> QED BY <1>2, <1>3

LEMMA OneMessage == ASSUME NEW m, NEW S PROVE None(<<m>>, S) <=> m \notin S
<1>1. Len(<<m>>) = 1 /\ <<m>>[1] = m
  OBVIOUS
<1> QED BY <1>1 DEF None

\* What becomes of the links to the UE when messages are added or one that is
\* not a reconfiguration is consumed.
LEMMA ToUeKept ==
    ASSUME LinkTypes, ue'.drb = ue.drb, ue'.rlc = ue.rlc,
           \/ ToUe' = ToUe
           \/ \E r \in Seq(Message) : ToUe' = ToUe \o r
           \/ ToUe # << >> /\ Head(ToUe) \notin Reconfigurations /\ ToUe' = Tail(ToUe)
    PROVE  /\ ~None(ToUe, Reconfigurations) => ~None(ToUe', Reconfigurations)
           /\ \A b : (Named(b) => Named(b)') /\ (PeerComes(b) => PeerComes(b)')
<1>1. ASSUME NEW S, S \subseteq Reconfigurations, ~None(ToUe, S) PROVE ~None(ToUe', S)
  <2>1. CASE ToUe' = ToUe
    BY <1>1, <2>1
  <2>2. CASE \E r \in Seq(Message) : ToUe' = ToUe \o r
    BY <1>1, <2>2, Concats DEF LinkTypes
  <2>3. CASE ToUe # << >> /\ Head(ToUe) \notin Reconfigurations /\ ToUe' = Tail(ToUe)
    BY <1>1, <2>3, HeadOrTail DEF LinkTypes
  <2> QED BY <2>1, <2>2, <2>3
<1>2. ASSUME NEW S, NEW N, N \subseteq Reconfigurations, Preceded(ToUe, N, S)
      PROVE  Preceded(ToUe', N, S)
  <2>1. CASE ToUe' = ToUe
    BY <1>2, <2>1
  <2>2. CASE \E r \in Seq(Message) : ToUe' = ToUe \o r
    BY <1>2, <2>2, PrecededConcat DEF LinkTypes
  <2>3. CASE ToUe # << >> /\ Head(ToUe) \notin Reconfigurations /\ ToUe' = Tail(ToUe)
    BY <1>2, <2>3, HeadOrTail DEF LinkTypes
  <2> QED BY <2>1, <2>2, <2>3
<1>3. \A b : Naming(b) \subseteq Reconfigurations /\ Splitting(b) \subseteq Reconfigurations
  BY DEF Naming, Splitting
<1>4. ASSUME NEW b PROVE (Named(b) => Named(b)') /\ (PeerComes(b) => PeerComes(b)')
  <2>1. Named(b) => Named(b)'
    BY <1>1, <1>3 DEF Named
  <2>2. PeerComes(b) => PeerComes(b)'
    BY <1>1, <1>2, <1>3 DEF PeerComes
  <2> QED BY <2>1, <2>2
<1> QED BY <1>1, <1>4

-----------------------------------------------------------------------------
\* The requests have one for each bearer to split, the first bearer's first.
LEMMA RequestOf ==
    ASSUME NEW last, NEW cell, NEW b \in ToBeSplit(last, cell)
    PROVE  LET rs == RlcSetupRequests(last, cell) IN
             /\ ~None(rs, For(b))
             /\ b = 1 => rs # << >> /\ Head(rs).drbid = 1
<1> DEFINE S == ToBeSplit(last, cell)
           below(n) == {a \in S : a < n}
           rank == Cardinality(below(b))
           pick(i) == CHOOSE c \in S : Cardinality({a \in S : a < c}) = i - 1
<1>1. S \subseteq Bearer /\ MaxBearers \in Nat /\ S \subseteq Nat \ {0}
  BY ConnectionAssumption DEF ToBeSplit, Bearer
<1>2. /\ IsFiniteSet(S) /\ Cardinality(S) \in Nat
      /\ \A n : IsFiniteSet(below(n)) /\ Cardinality(below(n)) \in Nat
  BY <1>1, BearersFinite
<1>3. ASSUME NEW c \in S, NEW d \in S, c < d PROVE Cardinality(below(c)) < Cardinality(below(d))
  <2>1. below(c) \cup {c} \subseteq below(d) /\ c \notin below(c)
    BY <1>1, <1>3
  <2>2. Cardinality(below(c) \cup {c}) = Cardinality(below(c)) + 1
    BY <1>2, <2>1, FS_AddElement
  <2>3. Cardinality(below(c) \cup {c}) <= Cardinality(below(d))
    BY <1>2, <2>1, FS_Subset
  <2>4. Cardinality(below(c)) \in Nat /\ Cardinality(below(d)) \in Nat
    BY <1>2
  <2> HIDE DEF below
  <2> QED BY <2>2, <2>3, <2>4
<1>4. rank < Cardinality(S)
  <2>1. below(b) \cup {b} \subseteq S /\ b \notin below(b)
    BY <1>1
  <2>2. Cardinality(below(b) \cup {b}) = rank + 1
    BY <1>2, <2>1, FS_AddElement
  <2>3. Cardinality(below(b) \cup {b}) <= Cardinality(S)
    BY <1>2, <2>1, FS_Subset
  <2> QED BY <1>2, <2>2, <2>3
<1>5. pick(rank + 1) = b
  <2>1. rank = (rank + 1) - 1
    <3>1. rank \in Nat
      BY <1>2
    <3> HIDE DEF rank
    <3> QED BY <3>1
  <2>2. \A c \in S : Cardinality(below(c)) = rank => c = b
    <3> SUFFICES ASSUME NEW c \in S, Cardinality(below(c)) = rank PROVE c = b
      OBVIOUS
    <3>1. c \in Nat /\ b \in Nat
      BY <1>1
    <3>2. ~(c < b) /\ ~(b < c)
      BY <1>2, <1>3
    <3> QED BY <3>1, <3>2
  <2> QED BY <2>1, <2>2
<1>6. RlcSetupRequests(last, cell)
        = [i \in 1 .. Cardinality(S) |-> RlcSetupRequest(pick(i))]
  BY DEF RlcSetupRequests
<1>7. rank + 1 \in 1 .. Cardinality(S)
  BY <1>2, <1>4
<1> DEFINE rs == RlcSetupRequests(last, cell)
<1>8. rs \in Seq(Message) /\ Len(rs) = Cardinality(S)
  BY RlcSetupRequestsType
<1>9. rs[rank + 1] = RlcSetupRequest(b)
  <2> HIDE DEF S, rank, pick, rs
  <2>1. rs[rank + 1] = RlcSetupRequest(pick(rank + 1))
    BY <1>6, <1>7 DEF rs
  <2> QED BY <1>5, <2>1
<1>10. RlcSetupRequest(b) \in For(b)
  <2>1. b \in Bearer
    BY <1>1
  <2> QED BY <2>1, Messages, OfTypeMessages DEF For
<1>11. ~None(rs, For(b))
  BY <1>7, <1>8, <1>9, <1>10 DEF None
<1>12. ASSUME b = 1 PROVE rs # << >> /\ Head(rs).drbid = 1
  <2>1. below(b) = {}
    BY <1>1, <1>12
  <2>2. rank = 0
    BY <2>1, FS_EmptySet
  <2>3. rs[1] = RlcSetupRequest(1) /\ 1 \in 1 .. Len(rs)
    BY <1>7, <1>8, <1>9, <1>12, <2>2
  <2>4. RlcSetupRequest(1).drbid = 1
    BY DEF RlcSetupRequest
  <2> HIDE DEF rs
  <2>5. rs # << >> /\ Head(rs) = rs[1]
    BY <1>8, <2>3
  <2> QED BY <2>3, <2>4, <2>5
<1> QED BY <1>11, <1>12

\* The reconfiguration that has waited goes out and names all bearers.
LEMMA WaitingNames ==
    ASSUME OwnTypes, NEW waiting \in BOOLEAN, NEW s \in Seq(Message)
    PROVE  LET r == s \o (ConnectCommand \o PendingReconfiguration(waiting))
               q == s \o PendingReconfiguration(waiting)
           IN  /\ \E x \in Seq(Message) : r = s \o x
               /\ \E x \in Seq(Message) : q = s \o x
               /\ waiting =>
                    /\ ~None(r, Reconfigurations) /\ ~None(q, Reconfigurations)
                    /\ \A b \in Bearer : drb[b] # "absent" =>
                          ~None(r, Naming(b)) /\ ~None(q, Naming(b))
<1> DEFINE m == RrcConnectionReconfiguration(drb)
           p == PendingReconfiguration(waiting)
           c == ConnectCommand
<1>1. p \in Seq(Message) /\ c \in Seq(Message) /\ c \o p \in Seq(Message)
  BY SendableTypes
<1>2. m \in Reconfigurations /\ m.drb = drb
  BY Messages DEF OwnTypes, Reconfigurations
<1>3. \A b \in Bearer : drb[b] # "absent" => m \in Naming(b)
  BY <1>2 DEF Naming
<1>4. waiting => p = <<m>>
  BY DEF PendingReconfiguration
<1> HIDE DEF p, c, m
<1>5. ASSUME NEW S, ~None(p, S) PROVE ~None(s \o (c \o p), S) /\ ~None(s \o p, S)
  <2>1. ~None(c \o p, S) /\ ~None(s \o p, S)
    BY <1>1, <1>5, Concats
  <2> QED BY <1>1, <2>1, Concats
<1>6. waiting => /\ ~None(p, Reconfigurations)
                 /\ \A b \in Bearer : drb[b] # "absent" => ~None(p, Naming(b))
  BY <1>2, <1>3, <1>4, OneMessage
<1> QED BY <1>1, <1>5, <1>6 DEF p, c

\* Before the UE is connected nothing of the mmWave cell is known.
LEMMA BeforeConnected ==
    ASSUME ConnectionInv, ueState # "connected"
    PROVE  /\ mmWaveCell = 0 /\ lastCell = 0 /\ Requests = << >> /\ Setups = << >>
           /\ Split(drb) = {} /\ ~available /\ ue.access = "idle"
  BY DEF ConnectionInv, ProcedureInv, ConnectsOnce, BeforeReport, NotTold

LEMMA SplitIsMc == Split(drb) = {} <=> \A b \in Bearer : drb[b] # "mc"
  BY DEF Split

\* The decision of a UE that has its mmWave cell starts no handover: there is
\* no other cell.
LEMMA DecisionKeepsSetup ==
    ASSUME DecisionTypeOK, TriggerUeAssociationUpdate, lastCell # 0
    PROVE  UNCHANGED <<setup, lastCell>>
<1>1. PICK max \in Cell :
         \/ Outage(max)
         \/ /\ ThresholdBasedSecondaryCellHandover(max) \/ TttBasedHandover(max)
            /\ UNCHANGED lastCell
  BY DEF TriggerUeAssociationUpdate
<1>2. max = lastCell
  BY MmWaveType DEF DecisionTypeOK
<1> QED BY <1>1, <1>2 DEF Outage, ThresholdBasedSecondaryCellHandover, TttBasedHandover, BackToMmWave

-----------------------------------------------------------------------------
(* Each action preserves the invariant.                                    *)

LEMMA InitSplit == Init => SplitInv
<1> SUFFICES ASSUME Init PROVE SplitInv
  OBVIOUS
<1>1. ToUe = << >> /\ FromUe = << >> /\ Requests = << >> /\ Setups = << >>
  BY DEF Init, Links, ToUe, FromUe, Requests, Setups
<1>2. /\ lastCell = 0 /\ state = "INITIAL_RANDOM_ACCESS" /\ ~pending /\ context = "none"
      /\ ue.access = "idle" /\ mmWaveCell = 0 /\ BearerIds
      /\ \A b \in Bearer : drb[b] = "absent"
  BY DEF Init, DecisionInit, BearerIds
<1> QED
  BY <1>1, <1>2, Empties
  DEF SplitInv, SetupStays, GoesOn, ReportComes, RequestsMade, EntitiesMade, Announced,
      PeersCome

LEMMA RequestSplit == ConnectionInv /\ SplitInv /\ Request => SplitInv'
<1> SUFFICES ASSUME ConnectionInv, SplitInv, Request PROVE SplitInv'
  OBVIOUS
<1>1. /\ UNCHANGED <<ToUe, FromUe, Requests, Setups, lastCell>>
      /\ UNCHANGED <<bearers, drb, pending, available, mmWaveCell, remoteRlc, ue>>
      /\ ueState = "idle" /\ context' = "requested" /\ state' = "CONNECTION_SETUP"
  BY LinkUnchanged DEF Request, RecvRrcConnectionRequest
<1>2. /\ mmWaveCell = 0 /\ lastCell = 0 /\ context = "none"
  BY <1>1, BeforeConnected DEF ConnectionInv, ProcedureInv, AttachOrder
<1>3. ~pending
  BY <1>2 DEF SplitInv, GoesOn
<1>4. PeersCome'
  BY <1>1 DEF SplitInv, PeersCome, PeerComes
<1> QED
  BY <1>1, <1>2, <1>3, <1>4
  DEF SplitInv, BearerIds, SetupStays, GoesOn, ReportComes, RequestsMade, EntitiesMade,
      Announced

\* What an action that leaves the bearers and the mmWave cell's links alone
\* leaves as it was.
LEMMA BearersKept ==
    ASSUME SplitInv, UNCHANGED <<bearers, drb, remoteRlc, mmWaveCell, Requests, Setups>>
    PROVE  /\ BearerIds' /\ EntitiesMade'
           /\ \A b : Asked(b)' = Asked(b)
  BY DEF SplitInv, BearerIds, EntitiesMade, Asked

LEMMA SetupCompletedSplit == ConnectionInv /\ SplitInv /\ SetupCompleted => SplitInv'
<1> SUFFICES ASSUME ConnectionInv, SplitInv, SetupCompleted PROVE SplitInv'
  OBVIOUS
<1>0. DecisionTypeOK /\ OwnTypes /\ LinkTypes
  BY TypeParts DEF ConnectionInv
<1>1. /\ state = "CONNECTION_SETUP" /\ ueState = "setup" /\ pending \in BOOLEAN
      /\ mmWaveCell = 0 /\ lastCell = 0 /\ Requests = << >> /\ Setups = << >>
  BY <1>0, BeforeConnected
  DEF SetupCompleted, ConnectionInv, ProcedureInv, AttachOrder, OwnTypes
<1>2. UNCHANGED <<bearers, context, drb, available, mmWaveCell, remoteRlc, ue>>
  BY DEF SetupCompleted
<1> DEFINE waiting == pending \/ ~caConfigured
<1>3. /\ state' = IF waiting THEN "CONNECTION_RECONFIGURATION" ELSE "CONNECTED_NORMALLY"
      /\ pending' = FALSE
  BY DEF SetupCompleted, BecomeConnected
<1>4. /\ UNCHANGED <<FromUe, Requests, Setups, lastCell>>
      /\ \E x \in Seq(Message) : ToUe' = ToUe \o x
      /\ waiting => /\ ~None(ToUe', Reconfigurations)
                    /\ \A b \in Bearer : drb[b] # "absent" => ~None(ToUe', Naming(b))
      /\ ~caConfigured => UNCHANGED ueState
  <2>1. CASE /\ caConfigured
             /\ RecvRrcConnectionSetupCompleted
             /\ Exchange({}, On(<<Lte, Ue>>,
                  ConnectCommand \o PendingReconfiguration(pending)))
    <3>1. ToUe' = ToUe \o (ConnectCommand \o PendingReconfiguration(pending))
          /\ UNCHANGED <<FromUe, Requests, Setups>>
      BY <1>0, <2>1, Sends
    <3>2. UNCHANGED lastCell
      BY <2>1 DEF RecvRrcConnectionSetupCompleted
    <3> QED BY <1>0, <1>1, <2>1, <3>1, <3>2, WaitingNames DEF LinkTypes
  <2>2. CASE /\ ~caConfigured
             /\ UNCHANGED decisionVars
             /\ Exchange({}, On(<<Lte, Ue>>, PendingReconfiguration(TRUE)))
    <3>1. ToUe' = ToUe \o PendingReconfiguration(TRUE)
          /\ UNCHANGED <<FromUe, Requests, Setups>>
      BY <1>0, <2>2, Sends
    <3> QED BY <1>0, <2>2, <3>1, WaitingNames DEF LinkTypes, decisionVars
  <2> QED BY <2>1, <2>2 DEF SetupCompleted
<1>5. \A b : (Named(b) => Named(b)') /\ (PeerComes(b) => PeerComes(b)')
  BY <1>0, <1>2, <1>4, ToUeKept
<1>6. SetupStays' /\ ReportComes' /\ RequestsMade'
  BY <1>1, <1>2, <1>4 DEF SplitInv, SetupStays, ReportComes, RequestsMade
<1>7. GoesOn'
  <2>1. pending => context = "setup"
    BY DEF SplitInv, GoesOn
  <2> QED BY <1>1, <1>2, <1>3, <1>4, <2>1 DEF GoesOn
<1>8. Announced'
  <2> SUFFICES ASSUME context = "setup" PROVE \A b \in bearers : Named(b)'
    BY <1>2 DEF Announced
  <2>1. CASE \A b \in bearers : Named(b)
    BY <1>5, <2>1
  <2>2. CASE pending
    <3>1. \A b \in bearers : b \in Bearer /\ drb[b] # "absent"
      BY <1>0 DEF ConnectionInv, ProcedureInv, BearersKnown, OwnTypes
    <3> QED BY <1>4, <2>2, <3>1 DEF Named
  <2> QED BY <2>1, <2>2 DEF SplitInv, Announced
<1>9. PeersCome'
  BY <1>2, <1>5 DEF SplitInv, PeersCome
<1> QED BY <1>1, <1>2, <1>4, <1>6, <1>7, <1>8, <1>9, BearersKept DEF SplitInv

LEMMA ContextSplit == ConnectionInv /\ SplitInv /\ DoInitialContextSetupRequest => SplitInv'
<1> SUFFICES ASSUME ConnectionInv, SplitInv, DoInitialContextSetupRequest PROVE SplitInv'
  OBVIOUS
<1>0. OwnTypes /\ LinkTypes
  BY TypeParts DEF ConnectionInv
<1>1. /\ UNCHANGED <<bearers, available, mmWaveCell, remoteRlc, ue>>
      /\ UNCHANGED <<ueState, lastCell, setup>>
      /\ context = "requested" /\ context' = "setup"
      /\ \A b \in Bearer : drb'[b] # "mc"
      /\ Requests = << >> /\ Setups = << >>
  BY DEF DoInitialContextSetupRequest, decisionVars, ConnectionInv, ProcedureInv, BearersKnown
<1> DEFINE d == [drb EXCEPT ![1] = "lte"]
           m == RrcConnectionReconfiguration(d)
<1>2. 1 \in Bearer /\ 1 \in bearers
  <2>1. PICK n \in 1 .. MaxBearers : bearers = 1 .. n
    BY DEF SplitInv, BearerIds
  <2> QED BY <2>1, ConnectionAssumption DEF Bearer
<1>3. m \in Reconfigurations /\ m \in Naming(1)
  <2>1. d \in Drb /\ d[1] = "lte"
    BY <1>0, <1>2 DEF OwnTypes, Drb
  <2> QED BY <2>1, Messages DEF Reconfigurations, Naming
<1> HIDE DEF m
<1>4. /\ UNCHANGED <<FromUe, Requests, Setups>>
      /\ \/ /\ state = "CONNECTED_NORMALLY" /\ state' = "CONNECTION_RECONFIGURATION"
            /\ ToUe' = ToUe \o <<m>>
            /\ pending' = (Cardinality(bearers) > 1)
         \/ /\ UNCHANGED <<state, ToUe>> /\ pending'
            /\ state \in {"CONNECTION_SETUP", "CONNECTION_RECONFIGURATION"}
  <2>1. CASE /\ state \in {"CONNECTION_SETUP", "CONNECTION_RECONFIGURATION"}
             /\ pending' = TRUE
             /\ UNCHANGED <<state, link>>
    BY <2>1, LinkUnchanged
  <2>2. CASE /\ state = "CONNECTED_NORMALLY" /\ state' = "CONNECTION_RECONFIGURATION"
             /\ pending' = (Cardinality(bearers) > 1)
             /\ Exchange({}, On(<<Lte, Ue>>, <<m>>))
    BY <1>0, <2>2, Sends
  <2> QED BY <2>1, <2>2 DEF DoInitialContextSetupRequest, m
<1>5. /\ state' \in {"CONNECTION_SETUP", "CONNECTION_RECONFIGURATION"}
      /\ state = "CONNECTION_RECONFIGURATION" => ueState = "setup"
      /\ state = "CONNECTION_SETUP" => ueState = "setup"
  BY <1>1, <1>4 DEF SplitInv, GoesOn, ConnectionInv, ProcedureInv, AttachOrder
<1>6. state = "CONNECTED_NORMALLY" =>
        ~None(ToUe', Reconfigurations) /\ ~None(ToUe', Naming(1))
  <2>1. <<m>> \in Seq(Message) /\ ~None(<<m>>, Reconfigurations) /\ ~None(<<m>>, Naming(1))
    BY <1>3, Singles, OneMessage, OfTypeMessages DEF Reconfigurations
  <2>2. \A S : ~None(<<m>>, S) => ~None(ToUe \o <<m>>, S)
    BY <1>0, <2>1, Concats DEF LinkTypes
  <2> QED BY <1>4, <2>1, <2>2
<1>7. SetupStays' /\ ReportComes' /\ BearerIds'
  BY <1>1, <1>4 DEF SplitInv, SetupStays, ReportComes, BearerIds
<1>8. GoesOn'
  BY <1>1, <1>4, <1>5, <1>6 DEF SplitInv, GoesOn
<1>9. RequestsMade'
  <2> SUFFICES ASSUME mmWaveCell # 0
               PROVE  available /\ state' = "CONNECTION_RECONFIGURATION"
    BY <1>1, <1>4 DEF RequestsMade
  <2>1. available
    BY <1>1 DEF SplitInv, RequestsMade
  <2>2. ueState = "connected"
    BY BeforeConnected
  <2> QED BY <1>4, <1>5, <2>1, <2>2
<1>10. EntitiesMade'
  BY <1>1, <1>4, Empties DEF EntitiesMade
<1>11. PeersCome'
  BY <1>1 DEF PeersCome
<1>12. Announced'
  <2>1. CASE state # "CONNECTED_NORMALLY"
    BY <1>1, <1>4, <1>5, <2>1 DEF Announced
  <2>2. CASE state = "CONNECTED_NORMALLY"
    <3>1. Named(1)' /\ state' = "CONNECTION_RECONFIGURATION"
      BY <1>4, <1>6, <2>2 DEF Named
    <3>2. CASE pending'
      BY <1>1, <1>4, <3>1, <3>2 DEF Announced
    <3>3. CASE ~pending'
      <4>1. PICK n \in 1 .. MaxBearers : bearers = 1 .. n
        BY DEF SplitInv, BearerIds
      <4>2. Cardinality(bearers) = n /\ n \in Nat \ {0}
        BY <4>1, FS_Interval, ConnectionAssumption
      <4>3. n = 1
        <5>1. ~(Cardinality(bearers) > 1)
          BY <1>4, <2>2, <3>3
        <5> QED BY <4>2, <5>1
      <4>4. bearers = {1}
        BY <4>1, <4>3
      <4> QED BY <1>1, <3>1, <4>4 DEF Announced
    <3> QED BY <3>2, <3>3
  <2> QED BY <2>1, <2>2
<1> QED BY <1>7, <1>8, <1>9, <1>10, <1>11, <1>12 DEF SplitInv

LEMMA DecideSplit == ConnectionInv /\ SplitInv /\ Decide => SplitInv'
<1> SUFFICES ASSUME ConnectionInv, SplitInv, Decide PROVE SplitInv'
  OBVIOUS
<1>0. DecisionTypeOK /\ OwnTypes /\ LinkTypes
  BY TypeParts DEF ConnectionInv
<1>1. /\ UNCHANGED <<bearers, context, state, drb, pending, available, mmWaveCell>>
      /\ UNCHANGED <<remoteRlc, ue, ueState>>
  BY DEF Decide, TriggerUeAssociationUpdate
<1>2. /\ UNCHANGED <<FromUe, Requests, Setups>>
      /\ UNCHANGED ToUe \/ \E x \in Seq(Message) : ToUe' = ToUe \o x
  <2>1. CASE UNCHANGED link
    BY <2>1, LinkUnchanged
  <2>2. CASE \E m \in Message : Exchange({}, On(<<Lte, Ue>>, <<m>>))
    <3>1. PICK m \in Message : Exchange({}, On(<<Lte, Ue>>, <<m>>))
      BY <2>2
    <3>2. <<m>> \in Seq(Message)
      OBVIOUS
    <3>3. ToUe' = ToUe \o <<m>> /\ UNCHANGED <<FromUe, Requests, Setups>>
      BY <1>0, <3>1, Sends
    <3> QED BY <3>2, <3>3
  <2>3. /\ RrcConnectToMmWave \in Message
        /\ \A u \in BOOLEAN : RrcConnectionSwitch(Split(drb), u) \in Message
    BY <1>0, Messages, OfTypeMessages, SplitType DEF OwnTypes
  <2>4. sent'.type = "ConnectionSwitch" => sent'.useMmWave \in BOOLEAN
    <3>1. sent' \in Command
      BY DecideTypes DEF ConnectionInv, TypeOK, DecisionTypeOK
    <3> QED BY <3>1 DEF Command, NoCommand, McHandoverRequest, ConnectToMmWave, ConnectionSwitch
  <2> QED BY <2>1, <2>2, <2>3, <2>4 DEF Decide
<1>3. /\ ~None(ToUe, Reconfigurations) => ~None(ToUe', Reconfigurations)
      /\ \A b : (Named(b) => Named(b)') /\ (PeerComes(b) => PeerComes(b)')
  BY <1>0, <1>1, <1>2, ToUeKept
<1>4. SetupStays'
  <2>1. UNCHANGED lastCell /\ (lastCell # 0 => UNCHANGED setup)
    <3>1. lastCell # 0 => UNCHANGED <<setup, lastCell>>
      BY <1>0, DecisionKeepsSetup DEF Decide
    <3>2. UNCHANGED lastCell
      BY DEF Decide, TriggerUeAssociationUpdate, Outage
    <3> QED BY <3>1, <3>2
  <2> QED BY <2>1 DEF SplitInv, SetupStays
<1>5. GoesOn' /\ ReportComes'
  BY <1>1, <1>2, <1>3 DEF SplitInv, GoesOn, ReportComes
<1>6. BearerIds' /\ EntitiesMade' /\ RequestsMade'
  BY <1>1, <1>2, BearersKept DEF SplitInv, RequestsMade
<1>7. Announced' /\ PeersCome'
  BY <1>1, <1>2, <1>3 DEF SplitInv, Announced, PeersCome
<1> QED BY <1>4, <1>5, <1>6, <1>7 DEF SplitInv

LEMMA ReportSplit == ConnectionInv /\ SplitInv /\ (Report \/ UNCHANGED vars) => SplitInv'
<1> SUFFICES ASSUME ConnectionInv, SplitInv, Report \/ UNCHANGED vars PROVE SplitInv'
  OBVIOUS
<1>0. LinkTypes
  BY TypeParts DEF ConnectionInv
<1>1. /\ UNCHANGED <<bearers, context, state, drb, pending, available, mmWaveCell>>
      /\ UNCHANGED <<remoteRlc, ue, ueState, setup, lastCell>>
      /\ UNCHANGED <<ToUe, FromUe, Requests, Setups>>
  BY LinkUnchanged DEF Report, DoRecvUeSinrUpdate, maps, vars, enbVars, decisionVars
<1>2. \A b : (Named(b) => Named(b)') /\ (PeerComes(b) => PeerComes(b)')
  BY <1>0, <1>1, ToUeKept
<1>3. SetupStays' /\ GoesOn' /\ ReportComes'
  BY <1>1 DEF SplitInv, SetupStays, GoesOn, ReportComes
<1>4. BearerIds' /\ EntitiesMade' /\ RequestsMade'
  BY <1>1, BearersKept DEF SplitInv, RequestsMade
<1>5. Announced' /\ PeersCome'
  BY <1>1, <1>2 DEF SplitInv, Announced, PeersCome
<1> QED BY <1>3, <1>4, <1>5 DEF SplitInv

LEMMA NotifySplit ==
    ConnectionInv /\ SplitInv /\ RecvNotifySecondaryCellConnected => SplitInv'
<1> SUFFICES ASSUME ConnectionInv, SplitInv, RecvNotifySecondaryCellConnected
             PROVE  SplitInv'
  OBVIOUS
<1>0. OwnTypes /\ LinkTypes
  BY TypeParts DEF ConnectionInv
<1>1. /\ UNCHANGED <<ueState, setup, lastCell>>
      /\ UNCHANGED <<bearers, context, state, drb, pending, remoteRlc, ue>>
      /\ mmWaveCell' = MmWave /\ MmWave # 0
  BY MmWaveType DEF RecvNotifySecondaryCellConnected, decisionVars
<1>2. FromUe # << >> /\ Head(FromUe) \in Notifies
  BY <1>0, Heads DEF RecvNotifySecondaryCellConnected, Notifies
<1>3. /\ ~None(FromUe, Notifies)
      /\ ~None(FromUe, Completions) => ~None(Tail(FromUe), Completions)
  <2>1. Head(FromUe) \notin Completions
    BY <1>2 DEF Notifies, Completions, OfType
  <2> QED BY <1>0, <1>2, <2>1, HeadOrTail, Tails DEF LinkTypes
<1>4. /\ mmWaveCell = 0 /\ Requests = << >> /\ Setups = << >>
      /\ \A b \in Bearer : drb[b] # "mc"
  BY <1>3, SplitIsMc DEF ConnectionInv, ProcedureInv, ConnectsOnce, BeforeReport
<1> DEFINE rs == RlcSetupRequests(lastCell, MmWave)
<1>5. /\ FromUe' = Tail(FromUe) /\ UNCHANGED <<ToUe, Setups>>
      /\ context # "setup" => available' = TRUE /\ UNCHANGED Requests
      /\ context = "setup" => Requests' = rs
  <2>1. CASE /\ context # "setup" /\ AwaitBearers /\ Exchange({<<Ue, Lte>>}, Nothing)
    BY <1>0, <1>2, <2>1, Consumes DEF AwaitBearers
  <2>2. CASE context = "setup" /\ Exchange({<<Ue, Lte>>}, On(<<Lte, MmWave>>, rs))
    <3>1. rs \in Seq(Message)
      BY RlcSetupRequestsType
    <3> HIDE DEF rs
    <3>2. /\ FromUe' = Tail(FromUe) /\ Requests' = Requests \o rs
          /\ UNCHANGED <<ToUe, Setups>>
      BY <1>0, <1>2, <2>2, Answers
    <3>3. << >> \o rs = rs
      BY <3>1
    <3> QED BY <1>4, <2>2, <3>2, <3>3
  <2> QED BY <2>1, <2>2 DEF RecvNotifySecondaryCellConnected
<1>6. context = "setup" =>
        \A b \in bearers : ~None(rs, For(b)) /\ (b = 1 => rs # << >> /\ Head(rs).drbid = 1)
  <2> SUFFICES ASSUME context = "setup", NEW b \in bearers
               PROVE  ~None(rs, For(b)) /\ (b = 1 => rs # << >> /\ Head(rs).drbid = 1)
    OBVIOUS
  <2>1. b \in Bearer /\ drb[b] # "absent" /\ drb[b] # "mc"
    BY <1>0, <1>4 DEF OwnTypes, ConnectionInv, ProcedureInv, BearersKnown
  <2>2. b \in ToBeSplit(lastCell, MmWave)
    BY <1>0, <2>1 DEF OwnTypes, Drb, ToBeSplit
  <2> QED BY <2>2, RequestOf
<1> HIDE DEF rs
<1>7. \A b : (Named(b) => Named(b)') /\ (PeerComes(b) => PeerComes(b)')
  BY <1>0, <1>1, <1>5, ToUeKept
<1>8. SetupStays' /\ GoesOn' /\ ReportComes' /\ BearerIds'
  BY <1>1, <1>3, <1>5 DEF SplitInv, SetupStays, GoesOn, ReportComes, BearerIds
<1>9. EntitiesMade'
  BY <1>1, <1>5 DEF SplitInv, EntitiesMade
<1>10. RequestsMade'
  BY <1>1, <1>5, <1>6 DEF RequestsMade, Asked
<1>11. Announced' /\ PeersCome'
  <2>1. 1 \in bearers
    <3>1. PICK n \in 1 .. MaxBearers : bearers = 1 .. n
      BY DEF SplitInv, BearerIds
    <3> QED BY <3>1, ConnectionAssumption
  <2>2. context = "setup" => rs # << >> /\ Head(rs).drbid = 1
    BY <1>6, <2>1
  <2> QED BY <1>1, <1>4, <1>5, <1>7, <2>2 DEF SplitInv, Announced, PeersCome
<1> QED BY <1>8, <1>9, <1>10, <1>11 DEF SplitInv

LEMMA RlcRequestSplit == ConnectionInv /\ SplitInv /\ RecvRlcSetupRequest => SplitInv'
<1> SUFFICES ASSUME ConnectionInv, SplitInv, RecvRlcSetupRequest PROVE SplitInv'
  OBVIOUS
<1>0. OwnTypes /\ LinkTypes
  BY TypeParts DEF ConnectionInv
<1>1. /\ UNCHANGED <<ueState, setup, lastCell>>
      /\ UNCHANGED <<bearers, context, state, drb, pending, available, mmWaveCell, ue>>
  BY DEF RecvRlcSetupRequest, decisionVars, enbVars
<1>2. PICK h, b, m : h = Head(Requests) /\ b = h.drbid /\ m = RlcSetupCompleted(b)
  OBVIOUS
<1>3. Requests # << >> /\ h \in Message /\ h.type = "RlcSetupRequest" /\ b \in Bearer
  <2>1. Requests # << >> /\ h \in Message /\ h.type = "RlcSetupRequest"
    BY <1>0, <1>2, Heads, OfTypeMessages DEF RecvRlcSetupRequest
  <2> QED BY <1>2, <2>1, Contents
<1>4. m \in Message /\ m.type = "RlcSetupCompleted" /\ m.drbid = b
  BY <1>2, <1>3, Messages, OfTypeMessages
<1>5. /\ Exchange({<<Lte, MmWave>>}, On(<<MmWave, Lte>>, <<m>>))
      /\ remoteRlc' = [remoteRlc EXCEPT ![b] = @ + 1]
  BY <1>2 DEF RecvRlcSetupRequest, Requests
<1>6. /\ Requests' = Tail(Requests) /\ Setups' = Setups \o <<m>>
      /\ UNCHANGED <<ToUe, FromUe>>
  BY <1>0, <1>3, <1>5, Answers
<1>7. \A S : /\ ~None(Requests, S) => h \in S \/ ~None(Requests', S)
             /\ ~None(Setups', S) <=> ~None(Setups, S) \/ m \in S
  <2>1. <<m>> \in Seq(Message)
    BY <1>4
  <2>2. \A S : ~None(Requests, S) => h \in S \/ ~None(Requests', S)
    BY <1>0, <1>2, <1>3, <1>6, HeadOrTail DEF LinkTypes
  <2>3. \A S : None(Setups', S) <=> None(Setups, S) /\ None(<<m>>, S)
    BY <1>0, <1>6, <2>1, Concats DEF LinkTypes
  <2> QED BY <2>2, <2>3, OneMessage
<1>8. \A x : (h \in For(x) => m \in For(x)) /\ (m \in For(x) => x = b)
  BY <1>2, <1>3, <1>4 DEF For
<1>9. \A x : Asked(x) => Asked(x)'
  BY <1>1, <1>7, <1>8 DEF Asked
<1>10. \A x : (Named(x) => Named(x)') /\ (PeerComes(x) => PeerComes(x)')
  BY <1>0, <1>1, <1>6, ToUeKept
<1>11. SetupStays' /\ GoesOn' /\ ReportComes' /\ BearerIds'
  BY <1>1, <1>6 DEF SplitInv, SetupStays, GoesOn, ReportComes, BearerIds
<1>12. RequestsMade'
  BY <1>1, <1>3, <1>9 DEF SplitInv, RequestsMade
<1>13. EntitiesMade'
  <2> SUFFICES ASSUME NEW x \in Bearer, drb[x] = "mc" \/ ~None(Setups', For(x))
               PROVE  remoteRlc'[x] >= 1
    BY <1>1 DEF EntitiesMade
  <2>1. remoteRlc'[x] = IF x = b THEN remoteRlc[x] + 1 ELSE remoteRlc[x]
    BY <1>0, <1>5 DEF OwnTypes
  <2>2. remoteRlc[x] \in Nat
    BY <1>0 DEF OwnTypes
  <2>3. x # b => remoteRlc[x] >= 1
    BY <1>7, <1>8 DEF SplitInv, EntitiesMade
  <2> QED BY <2>1, <2>2, <2>3
<1>14. Announced'
  <2>1. /\ Setups' # << >>
        /\ Head(Setups') = IF Setups = << >> THEN m ELSE Head(Setups)
    <3>1. Setups \in Seq(Message) /\ <<m>> \in Seq(Message)
      BY <1>0, <1>4 DEF LinkTypes
    <3> QED BY <1>6, <3>1
  <2> QED BY <1>1, <1>2, <1>3, <1>4, <1>10, <2>1 DEF SplitInv, Announced
<1>15. PeersCome'
  BY <1>1, <1>10 DEF SplitInv, PeersCome
<1> QED BY <1>11, <1>12, <1>13, <1>14, <1>15 DEF SplitInv

\* The answer for a bearer comes when the UE knows the bearer or will.
LEMMA RlcCompletedSplit == ConnectionInv /\ SplitInv /\ RecvRlcSetupCompleted => SplitInv'
<1> SUFFICES ASSUME ConnectionInv, SplitInv, RecvRlcSetupCompleted PROVE SplitInv'
  OBVIOUS
<1>0. OwnTypes /\ LinkTypes
  BY TypeParts DEF ConnectionInv
<1>1. /\ UNCHANGED <<ueState, setup, lastCell>>
      /\ UNCHANGED <<bearers, context, available, mmWaveCell, remoteRlc, ue>>
      /\ state' = "MC_CONNECTION_RECONFIGURATION" /\ pending' = FALSE
  BY DEF RecvRlcSetupCompleted, decisionVars
<1>2. PICK h, b, m : h = Head(Setups) /\ b = h.drbid /\ m = RrcConnectionReconfiguration(drb')
  OBVIOUS
<1>3. Setups # << >> /\ h \in Message /\ h.type = "RlcSetupCompleted"
  BY <1>0, <1>2, Heads, OfTypeMessages DEF RecvRlcSetupCompleted
<1>4. mmWaveCell # 0 /\ context = "setup" /\ ueState = "connected"
      /\ state \notin {"INITIAL_RANDOM_ACCESS", "CONNECTION_SETUP"}
  BY <1>3, BeforeConnected
  DEF ConnectionInv, ProcedureInv, BeforeReport, BearersKnown, AttachOrder
<1>5. b \in bearers /\ b \in Bearer
  <2>1. h \notin Foreign
    BY <1>0, <1>2, <1>3, Tails DEF LinkTypes, ConnectionInv, ProcedureInv, BearersKnown
  <2> QED BY <1>0, <1>2, <1>3, <2>1 DEF Foreign, OwnTypes
<1>6. /\ drb' = [drb EXCEPT ![b] = "mc"]
      /\ Exchange({<<MmWave, Lte>>}, On(<<Lte, Ue>>, <<m>>))
  BY <1>2 DEF RecvRlcSetupCompleted, Setups
<1>7. drb' \in Drb /\ \A x \in Bearer : drb'[x] = IF x = b THEN "mc" ELSE drb[x]
  BY <1>0, <1>5, <1>6 DEF OwnTypes, Drb
<1>8. /\ m \in Reconfigurations /\ m \in Message /\ m \in Splitting(b)
      /\ \A x \in bearers : m \in Naming(x)
  <2>1. m \in Reconfigurations /\ m \in Message /\ m.drb = drb'
    BY <1>2, <1>7, Messages, OfTypeMessages DEF Reconfigurations
  <2>2. \A x \in bearers : x \in Bearer /\ drb[x] # "absent"
    BY <1>0, <1>4 DEF OwnTypes, ConnectionInv, ProcedureInv, BearersKnown
  <2> QED BY <1>5, <1>7, <2>1, <2>2 DEF Naming, Splitting
<1>9. /\ Setups' = Tail(Setups) /\ ToUe' = ToUe \o <<m>> /\ <<m>> \in Seq(Message)
      /\ UNCHANGED <<FromUe, Requests>>
  <2>1. <<m>> \in Seq(Message)
    BY <1>8, Singles
  <2>2. Setups' = Tail(Setups) /\ ToUe' = ToUe \o <<m>> /\ UNCHANGED <<FromUe, Requests>>
    BY <1>0, <1>3, <1>6, Answers
  <2> QED BY <2>1, <2>2
<1>10. /\ ~None(ToUe', Reconfigurations) /\ ~None(ToUe', Splitting(b))
       /\ \A x \in bearers : ~None(ToUe', Naming(x))
       /\ ~None(ToUe, Naming(b)) => Preceded(ToUe', Naming(b), Splitting(b))
  <2>1. \A S : m \in S => ~None(ToUe', S)
    <3>1. \A S : None(ToUe', S) <=> None(ToUe, S) /\ None(<<m>>, S)
      BY <1>0, <1>9, Concats DEF LinkTypes
    <3> QED BY <3>1, OneMessage
  <2>2. ~None(ToUe, Naming(b)) => Preceded(ToUe', Naming(b), Splitting(b))
    <3>1. ~None(<<m>>, Splitting(b))
      BY <1>8, OneMessage
    <3> QED BY <1>0, <1>9, <3>1, PrecededConcat DEF LinkTypes
  <2> QED BY <1>8, <2>1, <2>2
<1>11. /\ \A S : ~None(Setups, S) => h \in S \/ ~None(Setups', S)
       /\ \A S : ~None(Setups', S) => ~None(Setups, S)
       /\ \A S : h \in S => ~None(Setups, S)
  BY <1>0, <1>2, <1>3, <1>9, HeadOrTail, Tails DEF LinkTypes
<1>12. h \in For(b) /\ \A x : h \in For(x) => x = b
  BY <1>2, <1>3 DEF For
<1>13. \A x : (Named(x) => Named(x)') /\ (PeerComes(x) => PeerComes(x)')
  BY <1>0, <1>1, <1>9, ToUeKept
<1>14. SetupStays' /\ GoesOn' /\ ReportComes' /\ BearerIds'
  BY <1>1, <1>9, <1>10 DEF SplitInv, SetupStays, GoesOn, ReportComes, BearerIds
<1>15. RequestsMade'
  <2>1. \A x \in bearers : Asked(x)
    BY <1>3, <1>4 DEF SplitInv, RequestsMade
  <2>2. \A x \in bearers : x \in Bearer
    BY <1>0 DEF OwnTypes
  <2>3. \A x \in bearers : Asked(x)'
    BY <1>7, <1>9, <1>11, <1>12, <2>1, <2>2 DEF Asked
  <2> QED BY <1>1, <1>4, <2>3 DEF RequestsMade
<1>16. EntitiesMade'
  <2> SUFFICES ASSUME NEW x \in Bearer, drb'[x] = "mc" \/ ~None(Setups', For(x))
               PROVE  remoteRlc[x] >= 1
    BY <1>1 DEF EntitiesMade
  <2>1. drb[x] = "mc" \/ ~None(Setups, For(x))
    BY <1>7, <1>11, <1>12
  <2> QED BY <2>1 DEF SplitInv, EntitiesMade
<1>17. Announced'
  BY <1>1, <1>10 DEF Announced, Named
<1>18. PeersCome'
  <2>1. Named(b)
    BY <1>2, <1>3, <1>4, <1>5 DEF SplitInv, Announced
  <2>2. PeerComes(b)'
    BY <1>1, <1>10, <2>1 DEF Named, PeerComes
  <2> QED BY <1>7, <1>13, <2>2 DEF SplitInv, PeersCome
<1> QED BY <1>14, <1>15, <1>16, <1>17, <1>18 DEF SplitInv

LEMMA CompletedSplit ==
    ConnectionInv /\ SplitInv /\ RecvReconfigurationCompleted => SplitInv'
<1> SUFFICES ASSUME ConnectionInv, SplitInv, RecvReconfigurationCompleted PROVE SplitInv'
  OBVIOUS
<1>0. TypeOK /\ DecisionTypeOK /\ OwnTypes /\ LinkTypes
  BY TypeParts DEF ConnectionInv
<1>1. /\ UNCHANGED <<bearers, context, drb, available, mmWaveCell, remoteRlc, ue>>
      /\ HeadIs(<<Ue, Lte>>, "RrcConnectionReconfigurationCompleted")
  BY DEF RecvReconfigurationCompleted
<1>2. FromUe # << >> /\ Head(FromUe) \in Completions
  BY <1>0, <1>1, Heads DEF Completions
<1>3. ~None(FromUe, Notifies) => ~None(Tail(FromUe), Notifies)
  <2>1. Head(FromUe) \notin Notifies
    BY <1>2 DEF Notifies, Completions, OfType
  <2> QED BY <1>0, <1>2, <2>1, HeadOrTail DEF LinkTypes
<1>4. \A b \in bearers : b \in Bearer /\ (context = "setup" => drb[b] # "absent")
  BY <1>0 DEF OwnTypes, ConnectionInv, ProcedureInv, BearersKnown
<1>5. /\ pending \in BOOLEAN
      /\ pending => context = "setup"
                    /\ state \in {"CONNECTION_SETUP", "CONNECTION_RECONFIGURATION"}
  BY <1>0 DEF OwnTypes, SplitInv, GoesOn
<1>6. CASE /\ state = "CONNECTED_NORMALLY" /\ UNCHANGED <<decisionVars, state, pending>>
           /\ Exchange({<<Ue, Lte>>}, Nothing)
  <2>1. FromUe' = Tail(FromUe) /\ UNCHANGED <<ToUe, Requests, Setups>>
    BY <1>0, <1>1, <1>6, CompletedLinks
  <2>2. UNCHANGED <<ueState, setup, lastCell, state>>
    BY <1>6 DEF decisionVars
  <2>3. \A b : (Named(b) => Named(b)') /\ (PeerComes(b) => PeerComes(b)')
    BY <1>0, <1>1, <2>1, ToUeKept
  <2>4. SetupStays' /\ GoesOn' /\ ReportComes'
    BY <1>1, <1>3, <1>5, <1>6, <2>1, <2>2
    DEF SplitInv, SetupStays, GoesOn, ReportComes
  <2>5. BearerIds' /\ EntitiesMade' /\ RequestsMade'
    BY <1>1, <2>1, <2>2, BearersKept DEF SplitInv, RequestsMade
  <2>6. Announced' /\ PeersCome'
    BY <1>1, <1>5, <1>6, <2>1, <2>2, <2>3 DEF SplitInv, Announced, PeersCome
  <2> QED BY <2>4, <2>5, <2>6 DEF SplitInv
\* What is common to the two ways in which a reconfiguration ends.
<1>7. ASSUME BecomeConnected(pending), FromUe' = Tail(FromUe), Setups' = Setups,
             state \in {"CONNECTION_RECONFIGURATION", "MC_CONNECTION_RECONFIGURATION"},
             \E x \in Seq(Message) : ToUe' = ToUe \o x,
             pending => /\ ~None(ToUe', Reconfigurations)
                        /\ \A b \in Bearer : drb[b] # "absent" => ~None(ToUe', Naming(b))
      PROVE  GoesOn' /\ ReportComes' /\ BearerIds' /\ EntitiesMade' /\ Announced' /\ PeersCome'
  <2>1. /\ state' = IF pending THEN "CONNECTION_RECONFIGURATION" ELSE "CONNECTED_NORMALLY"
        /\ pending' = FALSE
    BY <1>7 DEF BecomeConnected
  <2>2. \A b : (Named(b) => Named(b)') /\ (PeerComes(b) => PeerComes(b)')
    BY <1>0, <1>1, <1>7, ToUeKept
  <2>3. GoesOn' /\ ReportComes'
    BY <1>1, <1>3, <1>5, <1>7, <2>1 DEF SplitInv, GoesOn, ReportComes
  <2>4. BearerIds' /\ EntitiesMade'
    BY <1>1, <1>7 DEF SplitInv, BearerIds, EntitiesMade
  <2>5. Announced'
    <3> SUFFICES ASSUME context = "setup" PROVE \A b \in bearers : Named(b)'
      BY <1>1 DEF Announced
    <3>1. CASE \A b \in bearers : Named(b)
      BY <2>2, <3>1
    <3>2. CASE pending
      BY <1>4, <1>7, <3>2 DEF Named
    <3> QED BY <3>1, <3>2 DEF SplitInv, Announced
  <2>6. PeersCome'
    BY <1>1, <2>2 DEF SplitInv, PeersCome
  <2> QED BY <2>3, <2>4, <2>5, <2>6
<1>8. CASE /\ ueState = "setup" /\ RecvRrcConnectionSetupCompleted
           /\ BecomeConnected(pending)
           /\ state \in {"CONNECTION_RECONFIGURATION", "MC_CONNECTION_RECONFIGURATION"}
           /\ Exchange({<<Ue, Lte>>}, On(<<Lte, Ue>>,
                ConnectCommand \o PendingReconfiguration(pending)))
  <2>1. mmWaveCell = 0 /\ lastCell = 0
    BY <1>8, BeforeConnected
  <2>2. /\ ToUe' = ToUe \o (ConnectCommand \o PendingReconfiguration(pending))
        /\ FromUe' = Tail(FromUe) /\ UNCHANGED <<Requests, Setups>>
    BY <1>0, <1>1, <1>8, CompletedLinks
  <2>3. UNCHANGED lastCell
    BY <1>8 DEF RecvRrcConnectionSetupCompleted
  <2>4. /\ \E x \in Seq(Message) : ToUe' = ToUe \o x
        /\ pending => /\ ~None(ToUe', Reconfigurations)
                      /\ \A b \in Bearer : drb[b] # "absent" => ~None(ToUe', Naming(b))
    BY <1>0, <1>5, <2>2, WaitingNames DEF LinkTypes
  <2>5. SetupStays' /\ RequestsMade'
    BY <1>1, <2>1, <2>3 DEF SetupStays, RequestsMade
  <2> QED BY <1>7, <1>8, <2>2, <2>4, <2>5 DEF SplitInv
<1>9. CASE /\ ueState = "connected" /\ SetupOfBearersCompleted
           /\ BecomeConnected(pending)
           /\ state \in {"CONNECTION_RECONFIGURATION", "MC_CONNECTION_RECONFIGURATION"}
           /\ Exchange({<<Ue, Lte>>},
                [On(<<Lte, Ue>>, PendingReconfiguration(pending)) EXCEPT
                   ![<<Lte, MmWave>>] =
                      IF available THEN RlcSetupRequests(lastCell', mmWaveCell)
                                   ELSE << >>])
  <2> DEFINE rs == IF available THEN RlcSetupRequests(lastCell', mmWaveCell) ELSE << >>
  <2>1. rs \in Seq(Message)
    BY RlcSetupRequestsType, Empties
  <2>2. Exchange({<<Ue, Lte>>},
          [On(<<Lte, Ue>>, PendingReconfiguration(pending)) EXCEPT ![<<Lte, MmWave>>] = rs])
    BY <1>9
  <2>3. available => \A b \in Bearer : drb[b] = "lte" => ~None(rs, For(b))
    BY RequestOf DEF ToBeSplit
  <2> HIDE DEF rs
  <2>4. /\ ToUe' = ToUe \o PendingReconfiguration(pending)
        /\ FromUe' = Tail(FromUe) /\ Requests' = Requests \o rs /\ UNCHANGED Setups
    BY <1>0, <1>1, <2>2, CompletedLinks
  <2>5. /\ \E x \in Seq(Message) : ToUe' = ToUe \o x
        /\ pending => /\ ~None(ToUe', Reconfigurations)
                      /\ \A b \in Bearer : drb[b] # "absent" => ~None(ToUe', Naming(b))
    BY <1>0, <1>5, <2>4, WaitingNames DEF LinkTypes
  <2>6. SetupStays'
    BY <1>9 DEF SplitInv, SetupStays, SetupOfBearersCompleted
  <2>7. RequestsMade'
    <3>1. \A S : None(Requests', S) <=> None(Requests, S) /\ None(rs, S)
      BY <1>0, <2>1, <2>4, Concats DEF LinkTypes
    <3>2. \A b : Asked(b) => Asked(b)'
      BY <1>1, <2>4, <3>1 DEF Asked
    <3>3. available => \A b \in Bearer : drb[b] # "absent" => Asked(b)'
      <4> SUFFICES ASSUME available, NEW b \in Bearer, drb[b] # "absent" PROVE Asked(b)'
        OBVIOUS
      <4>1. drb[b] = "lte" \/ drb[b] = "mc"
        BY <1>0 DEF OwnTypes, Drb
      <4> QED BY <1>1, <2>3, <3>1, <4>1 DEF Asked
    <3> QED BY <1>1, <1>4, <3>2, <3>3 DEF SplitInv, RequestsMade
  <2> QED BY <1>7, <1>9, <2>4, <2>5, <2>6, <2>7 DEF SplitInv
<1> QED BY <1>6, <1>8, <1>9 DEF RecvReconfigurationCompleted

\* The UE takes its messages in their order: what names a bearer comes before
\* what splits it.
LEMMA UeSplit ==
    /\ ConnectionInv /\ SplitInv
    /\ \/ UeRecvRrcConnectToMmWave \/ UeConnectionSuccessful
       \/ UeRecvReconfiguration \/ UeRecvRrcConnectionSwitch
    => SplitInv'
<1> SUFFICES ASSUME ConnectionInv, SplitInv,
                    \/ UeRecvRrcConnectToMmWave \/ UeConnectionSuccessful
                    \/ UeRecvReconfiguration \/ UeRecvRrcConnectionSwitch
             PROVE  SplitInv'
  OBVIOUS
<1>0. OwnTypes /\ LinkTypes
  BY TypeParts DEF ConnectionInv
<1>1. /\ UNCHANGED <<ueState, setup, lastCell>>
      /\ UNCHANGED <<bearers, context, state, drb, pending, available, mmWaveCell, remoteRlc>>
  BY DEF UeRecvRrcConnectToMmWave, UeConnectionSuccessful, UeRecvReconfiguration,
         UeRecvRrcConnectionSwitch, decisionVars, enbVars
\* What is left to show when the mmWave cell's links stay as they are.
<1>2. ASSUME UNCHANGED <<Requests, Setups>>,
             ~None(ToUe, Reconfigurations) =>
               ~None(ToUe', Reconfigurations) \/ ~None(FromUe', Completions),
             ~None(FromUe, Completions) => ~None(FromUe', Completions),
             ReportComes',
             \A b \in Bearer : (Named(b) => Named(b)') /\ (PeerComes(b) => PeerComes(b)')
      PROVE  SplitInv'
  <2>1. SetupStays' /\ GoesOn'
    BY <1>1, <1>2 DEF SplitInv, SetupStays, GoesOn
  <2>2. BearerIds' /\ EntitiesMade' /\ RequestsMade'
    BY <1>1, <1>2, BearersKept DEF SplitInv, RequestsMade
  <2>3. PeersCome'
    BY <1>1, <1>2 DEF SplitInv, PeersCome
  <2>4. Announced'
    <3>1. \A b \in bearers : b \in Bearer
      BY <1>0 DEF OwnTypes
    <3>2. 1 \in Bearer
      BY ConnectionAssumption DEF Bearer
    <3> QED BY <1>1, <1>2, <3>1, <3>2 DEF SplitInv, Announced
  <2> QED BY <1>2, <2>1, <2>2, <2>3, <2>4 DEF SplitInv
<1>3. CASE UeRecvRrcConnectToMmWave
  <2>1. /\ ToUe # << >> /\ Head(ToUe) \in Connects
        /\ ToUe' = Tail(ToUe) /\ UNCHANGED <<FromUe, Requests, Setups>>
    BY <1>0, <1>3, Heads, Consumes DEF UeRecvRrcConnectToMmWave, Connects
  <2>2. ue' = [ue EXCEPT !.access = "accessing"]
    BY <1>3 DEF UeRecvRrcConnectToMmWave
  <2>3. ue'.drb = ue.drb /\ ue'.rlc = ue.rlc /\ ue'.access # "connected"
    BY <1>0, <2>2 DEF OwnTypes
  <2>4. Head(ToUe) \notin Reconfigurations
    BY <2>1 DEF Connects, Reconfigurations, OfType
  <2>5. /\ ~None(ToUe, Reconfigurations) => ~None(ToUe', Reconfigurations)
        /\ \A b : (Named(b) => Named(b)') /\ (PeerComes(b) => PeerComes(b)')
    BY <1>0, <2>1, <2>3, <2>4, ToUeKept
  <2>6. ReportComes'
    BY <2>3 DEF ReportComes
  <2> QED BY <1>2, <2>1, <2>5, <2>6
<1>4. CASE UeConnectionSuccessful
  <2> DEFINE m == NotifySecondaryCellConnected
  <2>1. FromUe' = FromUe \o <<m>> /\ UNCHANGED <<ToUe, Requests, Setups>>
    BY <1>0, <1>4, Sends DEF UeConnectionSuccessful
  <2>2. ue'.drb = ue.drb /\ ue'.rlc = ue.rlc
    BY <1>0, <1>4 DEF UeConnectionSuccessful, OwnTypes
  <2>3. m \in Notifies /\ m \in Message
    BY Messages, OfTypeMessages DEF Notifies
  <2>4. <<m>> \in Seq(Message) /\ ~None(<<m>>, Notifies)
    BY <2>3, Singles, OneMessage
  <2>5. \A S : None(FromUe', S) <=> None(FromUe, S) /\ None(<<m>>, S)
    BY <1>0, <2>1, <2>4, Concats DEF LinkTypes
  <2>6. ReportComes'
    BY <2>4, <2>5 DEF ReportComes
  <2>7. \A b : (Named(b) => Named(b)') /\ (PeerComes(b) => PeerComes(b)')
    BY <1>0, <2>1, <2>2, ToUeKept
  <2> QED BY <1>2, <2>1, <2>5, <2>6, <2>7
<1>5. CASE UeRecvReconfiguration
  <2>1. /\ ToUe # << >> /\ Head(ToUe) \in Reconfigurations
        /\ ToUe' = Tail(ToUe) /\ FromUe' = FromUe \o <<ReconfigurationCompleted>>
        /\ UNCHANGED <<Requests, Setups>>
    BY <1>0, <1>5, Heads, Answers DEF UeRecvReconfiguration, Reconfigurations
  <2>2. PICK d : d = Head(ToUe).drb
    OBVIOUS
  <2>3. /\ ue'.access = ue.access
        /\ ue'.drb = ue.drb \cup {b \in Bearer : d[b] # "absent"}
        /\ ue'.rlc = [b \in Bearer |-> IF b \in Split(d) \cap ue.drb THEN ue.rlc[b] + 1
                                                                    ELSE ue.rlc[b]]
    BY <1>0, <1>5, <2>2 DEF UeRecvReconfiguration, OwnTypes, ToUe
  <2>4. <<ReconfigurationCompleted>> \in Seq(Message)
        /\ ~None(<<ReconfigurationCompleted>>, Completions)
    BY Messages, OfTypeMessages, Singles, OneMessage DEF Completions
  <2>5. \A S : None(FromUe', S) <=> None(FromUe, S) /\ None(<<ReconfigurationCompleted>>, S)
    BY <1>0, <2>1, <2>4, Concats DEF LinkTypes
  <2>6. ReportComes'
    BY <1>1, <2>3, <2>5 DEF SplitInv, ReportComes
  <2>7. ASSUME NEW b \in Bearer
        PROVE  (Named(b) => Named(b)') /\ (PeerComes(b) => PeerComes(b)')
    <3>1. /\ ~None(ToUe, Naming(b)) => Head(ToUe) \in Naming(b) \/ ~None(ToUe', Naming(b))
          /\ ~None(ToUe, Splitting(b)) =>
               Head(ToUe) \in Splitting(b) \/ ~None(ToUe', Splitting(b))
          /\ Preceded(ToUe, Naming(b), Splitting(b)) =>
               \/ Preceded(ToUe', Naming(b), Splitting(b))
               \/ Head(ToUe) \in Naming(b) /\ ~None(ToUe', Splitting(b))
      BY <1>0, <2>1, HeadOrTail DEF LinkTypes
    <3>2. Head(ToUe) \in Naming(b) => b \in ue'.drb
      BY <2>2, <2>3 DEF Naming
    <3>3. ue.rlc[b] \in Nat /\ (b \in ue.drb => b \in ue'.drb)
      BY <1>0, <2>3 DEF OwnTypes
    <3>4. /\ ue.rlc[b] >= 1 => ue'.rlc[b] >= 1
          /\ Head(ToUe) \in Splitting(b) /\ b \in ue.drb => ue'.rlc[b] >= 1
      BY <2>2, <2>3, <3>3 DEF Splitting, Split
    <3> QED BY <3>1, <3>2, <3>3, <3>4 DEF Named, PeerComes
  <2> QED BY <1>2, <2>1, <2>4, <2>5, <2>6, <2>7
<1>6. CASE UeRecvRrcConnectionSwitch
  <2>1. /\ ToUe # << >> /\ Head(ToUe) \in OfType("RrcConnectionSwitch")
        /\ ToUe' = Tail(ToUe) /\ UNCHANGED <<FromUe, Requests, Setups>>
    BY <1>0, <1>6, Heads, Consumes DEF UeRecvRrcConnectionSwitch
  <2>2. ue'.drb = ue.drb /\ ue'.rlc = ue.rlc /\ ue'.access = ue.access
    BY <1>0, <1>6 DEF UeRecvRrcConnectionSwitch, OwnTypes
  <2>3. Head(ToUe) \notin Reconfigurations
    BY <2>1 DEF Reconfigurations, OfType
  <2>4. /\ ~None(ToUe, Reconfigurations) => ~None(ToUe', Reconfigurations)
        /\ \A b : (Named(b) => Named(b)') /\ (PeerComes(b) => PeerComes(b)')
    BY <1>0, <2>1, <2>2, <2>3, ToUeKept
  <2>5. ReportComes'
    BY <1>1, <2>1, <2>2 DEF SplitInv, ReportComes
  <2> QED BY <1>2, <2>1, <2>4, <2>5
<1> QED BY <1>3, <1>4, <1>5, <1>6

\* Nothing of the three procedures is forgotten: the report of the UE, the
\* MME's answer, the RLC setup of each bearer and the reconfigurations keep
\* each other going in any order, for any number of bearers.
THEOREM SplitInvariance == Spec => []SplitInv
<1>1. Init => SplitInv
  BY InitSplit
<1>2. ConnectionInv /\ SplitInv /\ [Next]_vars => SplitInv'
  BY RequestSplit, SetupCompletedSplit, ContextSplit, DecideSplit, ReportSplit, NotifySplit,
     RlcRequestSplit, RlcCompletedSplit, CompletedSplit, UeSplit
  DEF Next, Deliver
<1> QED BY <1>1, <1>2, Invariance, PTL DEF Spec

\* Once the messages are delivered, a UE that is connected to the mmWave cell
\* and has its bearers from the MME has each of them split, with an RLC entity
\* at the cell and at the UE, and the LTE eNB has no reconfiguration left over.
THEOREM AllIsSplit == Spec => []SplitWhenQuiet
<1>1. ConnectionInv /\ SplitInv => SplitWhenQuiet
  <2> SUFFICES ASSUME ConnectionInv, SplitInv,
                      \A l \in Links : link[l] = << >>,
                      context = "setup", ue.access = "connected"
               PROVE  /\ setup = "true" /\ lastCell = MmWave
                      /\ state = "CONNECTED_NORMALLY" /\ ~pending
                      /\ \A b \in bearers : /\ drb[b] = "mc"
                                            /\ remoteRlc[b] >= 1 /\ ue.rlc[b] >= 1
    BY DEF SplitWhenQuiet
  <2>0. DecisionTypeOK /\ OwnTypes /\ LinkTypes
    BY TypeParts DEF ConnectionInv
  <2>1. ToUe = << >> /\ FromUe = << >> /\ Requests = << >> /\ Setups = << >>
    BY DEF Links, ToUe, FromUe, Requests, Setups
  <2>2. \A S : None(ToUe, S) /\ None(FromUe, S) /\ None(Requests, S) /\ None(Setups, S)
    BY <2>1, Empties
  <2>3. mmWaveCell # 0
    BY <2>2 DEF SplitInv, ReportComes
  <2>4. ueState = "connected"
    BY <2>3, BeforeConnected
  <2>5. state = "CONNECTED_NORMALLY" /\ ~pending
    <3>1. state \notin {"INITIAL_RANDOM_ACCESS", "CONNECTION_SETUP"}
      BY <2>4 DEF ConnectionInv, ProcedureInv, AttachOrder
    <3>2. state \notin {"CONNECTION_RECONFIGURATION", "MC_CONNECTION_RECONFIGURATION"}
      BY <2>2 DEF SplitInv, GoesOn
    <3>3. ~pending
      BY <3>1, <3>2 DEF SplitInv, GoesOn
    <3> QED BY <2>0, <3>1, <3>2, <3>3 DEF OwnTypes
  <2>6. \A b \in bearers : b \in Bearer /\ drb[b] = "mc" /\ remoteRlc[b] >= 1
    <3>1. \A b \in bearers : Asked(b)
      BY <2>3, <2>5 DEF SplitInv, RequestsMade
    <3>2. \A b \in bearers : b \in Bearer /\ drb[b] = "mc"
      BY <2>0, <2>2, <3>1 DEF OwnTypes, Asked
    <3> QED BY <3>2 DEF SplitInv, EntitiesMade
  <2>7. \A b \in bearers : ue.rlc[b] >= 1
    <3>1. \A N, S : ~Preceded(ToUe, N, S)
      BY <2>1 DEF Preceded
    <3> QED BY <2>2, <2>6, <3>1 DEF SplitInv, PeersCome, PeerComes
  <2>8. lastCell # 0
    <3>1. PICK n \in 1 .. MaxBearers : bearers = 1 .. n
      BY DEF SplitInv, BearerIds
    <3>2. 1 \in bearers
      BY <3>1, ConnectionAssumption
    <3>3. Split(drb) # {}
      BY <2>6, <3>2 DEF Split
    <3> QED BY <2>5, <3>3 DEF ConnectionInv, ProcedureInv, BearersKnown
  <2>9. setup = "true" /\ lastCell = MmWave
    BY <2>0, <2>8, MmWaveType DEF SplitInv, SetupStays, DecisionTypeOK
  <2> QED BY <2>5, <2>6, <2>7, <2>9
<1> QED BY <1>1, Invariance, SplitInvariance, PTL

-----------------------------------------------------------------------------
(***************************************************************************)
(* The refinement.                                                         *)
(***************************************************************************)

\* The decision of AbstractHandover is the one of HandoverDecision.
LEMMA SameDecision ==
    /\ RecvRrcConnectionRequest => Abstract!RecvRrcConnectionRequest
    /\ RecvRrcConnectionSetupCompleted => Abstract!RecvRrcConnectionSetupCompleted
    /\ \A c \in Cell : DoRecvUeSinrUpdate(c) => Abstract!DoRecvUeSinrUpdate(c)
    /\ \A c : McSetupCompleted(c) => Abstract!McSetupCompleted(c)
    /\ TriggerUeAssociationUpdate => Abstract!TriggerUeAssociationUpdate
<1>1. /\ NoCommand = Abstract!NoCommand /\ NoEvent = Abstract!NoEvent
      /\ \A c : ConnectToMmWave(c) = Abstract!ConnectToMmWave(c)
      /\ \A u : ConnectionSwitch(u) = Abstract!ConnectionSwitch(u)
      /\ \A c, d : McHandoverRequest(c, d) = Abstract!McHandoverRequest(c, d)
  BY DEF NoCommand, Abstract!NoCommand, NoEvent, Abstract!NoEvent, ConnectToMmWave,
         Abstract!ConnectToMmWave, ConnectionSwitch, Abstract!ConnectionSwitch,
         McHandoverRequest, Abstract!McHandoverRequest
<1>2. /\ SendNothing <=> Abstract!SendNothing
      /\ \A c : SendConnectToMmWave(c) <=> Abstract!SendConnectToMmWave(c)
      /\ \A u : SendRrcConnectionSwitch(u) <=> Abstract!SendRrcConnectionSwitch(u)
      /\ \A c : StartHandover(c) <=> Abstract!StartHandover(c)
  BY <1>1 DEF SendNothing, Abstract!SendNothing, SendConnectToMmWave,
              Abstract!SendConnectToMmWave, SendRrcConnectionSwitch,
              Abstract!SendRrcConnectionSwitch, StartHandover, Abstract!StartHandover,
              SendMcHandoverRequest, Abstract!SendMcHandoverRequest
<1>3. RecvRrcConnectionRequest => Abstract!RecvRrcConnectionRequest
  BY <1>2 DEF RecvRrcConnectionRequest, Abstract!RecvRrcConnectionRequest
<1>4. RecvRrcConnectionSetupCompleted => Abstract!RecvRrcConnectionSetupCompleted
  BY <1>2 DEF RecvRrcConnectionSetupCompleted, Abstract!RecvRrcConnectionSetupCompleted
<1>5. \A c \in Cell : DoRecvUeSinrUpdate(c) => Abstract!DoRecvUeSinrUpdate(c)
  BY <1>2 DEF DoRecvUeSinrUpdate, Abstract!DoRecvUeSinrUpdate, maps, Abstract!maps
<1>6. \A c : McSetupCompleted(c) => Abstract!McSetupCompleted(c)
  BY <1>1 DEF McSetupCompleted, Abstract!McSetupCompleted
<1>7. TriggerUeAssociationUpdate => Abstract!TriggerUeAssociationUpdate
  <2>1. /\ \A c : IsMaxSinrCell(c) <=> Abstract!IsMaxSinrCell(c)
        /\ CurrentSinr = Abstract!CurrentSinr
        /\ alreadyAssociated <=> Abstract!alreadyAssociated
        /\ onHandover <=> Abstract!onHandover
        /\ \A c : InOutage(c) <=> Abstract!InOutage(c)
    BY DEF IsMaxSinrCell, Abstract!IsMaxSinrCell, CurrentSinr, Abstract!CurrentSinr,
           alreadyAssociated, Abstract!alreadyAssociated, onHandover,
           Abstract!onHandover, InOutage, Abstract!InOutage
  <2>2. \A c, d : DifferenceAbove(c, d) <=> Abstract!DifferenceAbove(c, d)
    BY <2>1 DEF DifferenceAbove, Abstract!DifferenceAbove
  <2>3. \A c : ComputeTtt(c) = Abstract!ComputeTtt(c)
    BY <2>1, <2>2 DEF ComputeTtt, Abstract!ComputeTtt
  <2>4. \A c : Schedule(c) <=> Abstract!Schedule(c)
    BY <2>1, <2>3 DEF Schedule, Abstract!Schedule
  <2>5. \A c : UpdateEvent(c) <=> Abstract!UpdateEvent(c)
    BY <1>1, <2>1, <2>3, <2>4 DEF UpdateEvent, Abstract!UpdateEvent
  <2>6. \A c : Outage(c) <=> Abstract!Outage(c)
    BY <1>1, <1>2, <2>1 DEF Outage, Abstract!Outage
  <2>7. \A c : BackToMmWave(c) <=> Abstract!BackToMmWave(c)
    BY <1>2, <2>1 DEF BackToMmWave, Abstract!BackToMmWave
  <2>8. \A c : TttBasedHandover(c) <=> Abstract!TttBasedHandover(c)
    BY <1>2, <2>1, <2>5, <2>7 DEF TttBasedHandover, Abstract!TttBasedHandover
  <2>9. \A c : ThresholdBasedSecondaryCellHandover(c)
                <=> Abstract!ThresholdBasedSecondaryCellHandover(c)
    BY <1>2, <2>1, <2>2, <2>7
    DEF ThresholdBasedSecondaryCellHandover, Abstract!ThresholdBasedSecondaryCellHandover
  <2> QED
    BY <1>1, <2>1, <2>6, <2>8, <2>9
    DEF TriggerUeAssociationUpdate, Abstract!TriggerUeAssociationUpdate
<1> QED BY <1>3, <1>4, <1>5, <1>6, <1>7

\* The completion that switches the bearer comes while the cell is being
\* connected to.
LEMMA SwitchIsMcSetup ==
    ASSUME ConnectionInv, bearers = {1}, Counted, SetupOfBearersCompleted, Switched # {}
    PROVE  mmWaveCell \in Cell /\ McSetupCompleted(mmWaveCell)
<1>0. OwnTypes
  BY TypeParts DEF ConnectionInv
<1>1. drb[1] = "mc" /\ lastCell = 0
  BY OneBearer DEF Switched, Counted, ReconfigurationsCounted
<1>2. mmWaveCell # 0
  BY <1>1, OneBearer DEF ConnectionInv, ProcedureInv, BeforeReport
<1>3. mmWaveCell = MmWave /\ MmWave \in Cell
  BY <1>0, <1>2, MmWaveType DEF OwnTypes
<1>4. MmWave \in connecting
  BY <1>1, <1>2 DEF ConnectionInv, ProcedureInv, ConnectsOnce, NotTold
<1> QED BY <1>3, <1>4 DEF SetupOfBearersCompleted, McSetupCompleted

LEMMA StepSimulates ==
    ASSUME ConnectionInv, bearers = {1}, Counted, [Next]_vars
    PROVE  Abstract!Next \/ UNCHANGED decisionVars
<1> USE DEF Abstract!Next
<1>1. CASE Request
  BY <1>1, SameDecision DEF Request
<1>2. CASE SetupCompleted
  BY <1>2, SameDecision DEF SetupCompleted
<1>3. CASE Report
  BY <1>3, SameDecision DEF Report
<1>4. CASE Decide
  <2>1. TriggerUeAssociationUpdate /\ sent'.type # "McHandoverRequest"
    BY <1>4 DEF Decide
  <2>2. Abstract!TakeUp
    BY <2>1 DEF Abstract!TakeUp
  <2> QED BY <2>1, <2>2, SameDecision
<1>5. CASE RecvReconfigurationCompleted
  <2>1. CASE RecvRrcConnectionSetupCompleted
    BY <2>1, SameDecision
  <2>2. CASE SetupOfBearersCompleted /\ Switched # {}
    <3>1. mmWaveCell \in Cell /\ McSetupCompleted(mmWaveCell)
      BY <2>2, SwitchIsMcSetup
    <3>2. Abstract!McSetupCompleted(mmWaveCell)
      BY <3>1, SameDecision
    <3> QED BY <3>1, <3>2
  <2>3. CASE SetupOfBearersCompleted /\ Switched = {}
    BY <2>3 DEF SetupOfBearersCompleted, decisionVars
  <2>4. CASE UNCHANGED decisionVars
    BY <2>4
  <2> QED BY <1>5, <2>1, <2>2, <2>3, <2>4 DEF RecvReconfigurationCompleted
<1>6. CASE \/ DoInitialContextSetupRequest \/ UeConnectionSuccessful
           \/ RecvNotifySecondaryCellConnected
           \/ RecvRlcSetupRequest \/ RecvRlcSetupCompleted
           \/ UeRecvRrcConnectToMmWave \/ UeRecvReconfiguration
           \/ UeRecvRrcConnectionSwitch \/ UNCHANGED vars
  BY <1>6
  DEF DoInitialContextSetupRequest, UeConnectionSuccessful,
      RecvNotifySecondaryCellConnected, RecvRlcSetupRequest, RecvRlcSetupCompleted,
      UeRecvRrcConnectToMmWave, UeRecvReconfiguration, UeRecvRrcConnectionSwitch, vars
<1> QED BY <1>1, <1>2, <1>3, <1>4, <1>5, <1>6 DEF Next, Deliver

LEMMA InitSimulates == Init => Abstract!Init
  BY DEF Init, Abstract!Init, DecisionInit, Abstract!DecisionInit, NoEvent,
         Abstract!NoEvent, NoCommand, Abstract!NoCommand

\* For a UE with one bearer the messages of the first connection implement the
\* first connection of AbstractHandover: every step of the exchange is a step
\* of the decision, the one step McSetupCompleted, or none at all.
THEOREM FirstConnectionRefines == Spec => ImplementsFirstConnection
<1>1. ConnectionInv /\ OneBearerInv /\ [Next]_vars
        => [bearers = {1} => Abstract!Next]_decisionVars
  BY StepSimulates DEF OneBearerInv
<1> QED BY <1>1, Invariance, OneBearerInvariance, PTL DEF Spec, ImplementsFirstConnection
=============================================================================
