---------------------- MODULE SecondaryHandover_proofs ----------------------
(***************************************************************************)
(* Proofs about the handover between mmWave cells, for every set of cells, *)
(* every number of RNTIs, any cells that reject, with and without          *)
(* timeouts, every value of the attributes and every handover mode.        *)
(***************************************************************************)
EXTENDS SecondaryHandover, HandoverDecision_proofs

-----------------------------------------------------------------------------
(***************************************************************************)
(* Type correctness.                                                       *)
(***************************************************************************)

\* The RNTI of a cell the coordinator knows, and the one that an arriving UE
\* had at the source, are RNTIs and not the 0 of "none".
RntisKnown ==
    /\ coordinator.cell # 0 => coordinator.rnti # 0
    /\ \A c \in Cell, r \in Rnti :
          context[c][r].state = "HANDOVER_JOINING" => context[c][r].sourceRnti # 0

Typed == TypeOK /\ RntisKnown

OfType(t) == {m \in Message : m.type = t}

\* The fields of the messages.
LEMMA Fields ==
    \A m \in Message :
       /\ m.type = "McHandoverRequest" => m.target \in Cell
       /\ m.type = "HandoverRequest" => m.old \in Rnti /\ m.rlcs \in BOOLEAN
       /\ m.type \in {"HandoverRequestAck", "SecondaryCellHandoverCompleted"} =>
             m.old \in Rnti /\ m.new \in Rnti
       /\ m.type \in {"HandoverPreparationFailure", "UeContextRelease"} => m.old \in Rnti
       /\ m.type = "SnStatusTransfer" => m.new \in Rnti
       /\ m.type = "HandoverCommand" => m.target \in Cell /\ m.new \in Rnti
       /\ m.type \in {"ReconfigurationCompleted", "ConnectionSwitch"} => m.rnti \in Rnti
       /\ m.type = "RrcConnectionSwitch" => m.useMmWave \in BOOLEAN
  BY DEF Message, NotifyCoordinatorHandoverFailed

LEMMA Messages ==
    /\ \A d \in Cell : McHandoverRequestMsg(d) \in OfType("McHandoverRequest")
    /\ \A r \in Rnti, b \in BOOLEAN : HandoverRequest(r, b) \in OfType("HandoverRequest")
    /\ \A r, n \in Rnti :
          /\ HandoverRequestAck(r, n) \in OfType("HandoverRequestAck")
          /\ SecondaryCellHandoverCompleted(n, r) \in OfType("SecondaryCellHandoverCompleted")
    /\ \A r \in Rnti :
          /\ HandoverPreparationFailure(r) \in OfType("HandoverPreparationFailure")
          /\ UeContextRelease(r) \in OfType("UeContextRelease")
          /\ SnStatusTransfer(r) \in OfType("SnStatusTransfer")
          /\ ReconfigurationCompleted(r) \in OfType("ReconfigurationCompleted")
          /\ ConnectionSwitchMsg(r) \in OfType("ConnectionSwitch")
    /\ \A d \in Cell, n \in Rnti : HandoverCommand(d, n) \in OfType("HandoverCommand")
    /\ \A u \in BOOLEAN : RrcConnectionSwitch(u) \in OfType("RrcConnectionSwitch")
    /\ NotifyCoordinatorHandoverFailed \in OfType("NotifyCoordinatorHandoverFailed")
  BY DEF Message, OfType, McHandoverRequestMsg, HandoverRequest, HandoverRequestAck,
         SecondaryCellHandoverCompleted, HandoverPreparationFailure, UeContextRelease,
         SnStatusTransfer, ReconfigurationCompleted, ConnectionSwitchMsg, HandoverCommand,
         RrcConnectionSwitch, NotifyCoordinatorHandoverFailed

\* A message at the head of a link is a message.
LEMMA Heads ==
    ASSUME TypeOK, NEW l \in Links, NEW t, HeadIs(l, t)
    PROVE  /\ link[l] \in Seq(Message) /\ link[l] # << >>
           /\ Head(link[l]) \in OfType(t)
  BY DEF TypeOK, HeadIs, OfType

\* What is sent on the links, and what is consumed, leaves them well typed.
LEMMA ExchangeType ==
    ASSUME TypeOK, NEW consumed, NEW sends \in [Links -> Seq(Message)],
           \A l \in consumed \cap Links : link[l] # << >>, Exchange(consumed, sends)
    PROVE  link' \in [Links -> Seq(Message)]
<1>1. \A l \in Links :
        ((IF l \in consumed THEN Tail(link[l]) ELSE link[l]) \o sends[l]) \in Seq(Message)
  BY DEF TypeOK
<1> QED BY <1>1 DEF Exchange

LEMMA SendOnly ==
    ASSUME TypeOK, NEW sends \in [Links -> Seq(Message)], Exchange({}, sends)
    PROVE  link' \in [Links -> Seq(Message)]
<1>1. \A l \in {} \cap Links : link[l] # << >>
  OBVIOUS
<1> QED BY <1>1, ExchangeType

LEMMA SendTypesOnLinks ==
    /\ Nothing \in [Links -> Seq(Message)]
    /\ \A m \in Message : \A l : On(l, <<m>>) \in [Links -> Seq(Message)]
    /\ \A m, n \in Message : \A l, k : [On(l, <<m>>) EXCEPT ![k] = <<n>>] \in [Links -> Seq(Message)]
<1>1. << >> \in Seq(Message) /\ \A m \in Message : <<m>> \in Seq(Message)
  OBVIOUS
<1>2. \A m \in Message : \A l : On(l, <<m>>) \in [Links -> Seq(Message)]
  BY <1>1 DEF On
<1>3. \A f \in [Links -> Seq(Message)], n \in Message : \A k :
        [f EXCEPT ![k] = <<n>>] \in [Links -> Seq(Message)]
  BY <1>1
<1> QED BY <1>1, <1>2, <1>3 DEF Nothing

\* AddUe finds a free RNTI, if there is one.
LEMMA AddUeFree ==
    ASSUME TypeOK, NEW c \in Cell, FreeRntis(c) # {}
    PROVE  AddUe(c) \in Rnti /\ context[c][AddUe(c)] = NoContext
<1> DEFINE F == FreeRntis(c)
           D == {Distance(c, r) : r \in F}
<1>1. F \subseteq Rnti /\ \A r \in F : context[c][r] = NoContext
  BY DEF FreeRntis
<1>2. D \subseteq Nat
  <2>1. MaxRnti + 1 \in Nat \ {0} /\ lastRnti[c] \in Int /\ \A r \in Rnti : r \in Int
    BY NetworkAssumption DEF TypeOK, Rnti
  <2>2. ASSUME NEW r \in F PROVE Distance(c, r) \in Nat
    BY <1>1, <2>1 DEF Distance
  <2> QED BY <2>2
<1>3. PICK x \in D : \A y \in D : x <= y
  <2> HIDE DEF D
  <2>1. D # {}
    BY DEF D
  <2> QED BY <1>2, <2>1, LeastNatural
<1>4. \E r \in F : \A s \in F : Distance(c, r) <= Distance(c, s)
  BY <1>3
<1> QED BY <1>1, <1>4 DEF AddUe

\* A field of a context is set, or the context is replaced or removed.
LEMMA ContextsType ==
    ASSUME TypeOK, NEW c \in Cell, NEW r \in Rnti, NEW new \in Context \cup {NoContext},
           SetContext(c, r, new)
    PROVE  /\ context' \in [Cell -> [Rnti -> Context \cup {NoContext}]]
           /\ context'[c][r] = new
           /\ \A d \in Cell, q \in Rnti : <<d, q>> # <<c, r>> => context'[d][q] = context[d][q]
  BY DEF TypeOK, SetContext

LEMMA NoContextIsNone == NoContext \notin Context /\ NoContext.state = "none"
  BY DEF NoContext, Context

LEMMA ContextHere ==
    ASSUME TypeOK, NEW c \in Cell, NEW r, HasContext(c, r)
    PROVE  r \in Rnti /\ context[c][r] \in Context
  BY DEF TypeOK, HasContext

LEMMA NewContextType ==
    ASSUME NEW state \in {"CONNECTED_NORMALLY", "HANDOVER_JOINING"},
           NEW source \in Cell \cup {0}, NEW sourceRnti \in 0 .. MaxRnti,
           NEW rlcs \in BOOLEAN
    PROVE  NewContext(state, source, sourceRnti, rlcs) \in Context
  BY DEF NewContext, Context

LEMMA InitTyped == Init => Typed
<1> SUFFICES ASSUME Init PROVE Typed
  OBVIOUS
<1>0. MaxRnti \in Nat
  BY NetworkAssumption
<1>1. coordinator \in [cell : Cell \cup {0}, rnti : 0 .. MaxRnti]
  BY <1>0 DEF Init
<1>2. /\ lastRnti \in [Cell -> 0 .. MaxRnti] /\ imsiRnti \in [Cell -> 0 .. MaxRnti]
      /\ forwarding \in [Cell -> Cell \cup {0}]
  BY <1>0 DEF Init
<1>3. context \in [Cell -> [Rnti -> Context \cup {NoContext}]] /\ RntisKnown
  BY NoContextIsNone DEF Init, RntisKnown
<1>4. ue \in [state : {"CONNECTED_NORMALLY", "CONNECTED_HANDOVER"},
               cell : Cell \cup {0}, rnti : 0 .. MaxRnti, useMmWave : BOOLEAN]
  BY <1>0 DEF Init
<1>5. link \in [Links -> Seq(Message)]
  BY DEF Init
<1>6. DecisionTypeOK /\ commanded \in Cell \cup {0}
  BY DecisionInitType DEF Init
<1> QED BY <1>1, <1>2, <1>3, <1>4, <1>5, <1>6 DEF Typed, TypeOK

\* What the commands of the decision are, and the messages they become.
LEMMA Commands ==
    ASSUME NEW m \in Command
    PROVE  /\ m.type = "McHandoverRequest" =>
                \E c \in Cell \cup {0}, d \in Cell :
                    m = McHandoverRequest(c, d) /\ m.from = c /\ m.to = d
           /\ m.type = "ConnectionSwitch" =>
                \E u \in BOOLEAN : m = ConnectionSwitch(u) /\ m.useMmWave = u
           /\ m.type \in {"None", "ConnectToMmWave", "McHandoverRequest", "ConnectionSwitch"}
  BY DEF Command, NoCommand, McHandoverRequest, ConnectToMmWave, ConnectionSwitch

LEMMA Transmissions ==
    ASSUME Typed, NEW m \in Command
    PROVE  /\ m.type = "McHandoverRequest" =>
                MessagesOf(m) = On(<<Lte, m.from>>, <<McHandoverRequestMsg(m.to)>>)
           /\ m.type = "ConnectionSwitch" /\ coordinator.cell # 0 =>
                MessagesOf(m) = [On(<<Lte, Ue>>, <<RrcConnectionSwitch(m.useMmWave)>>)
                                   EXCEPT ![<<Lte, coordinator.cell>>] =
                                      IF m.useMmWave THEN << >>
                                      ELSE <<ConnectionSwitchMsg(coordinator.rnti)>>]
           /\ m.type # "McHandoverRequest" /\ ~(m.type = "ConnectionSwitch" /\ coordinator.cell # 0)
                => MessagesOf(m) = Nothing
           /\ MessagesOf(m) \in [Links -> Seq(Message)]
<1>1. m.type = "McHandoverRequest" =>
         MessagesOf(m) = On(<<Lte, m.from>>, <<McHandoverRequestMsg(m.to)>>)
  BY DEF MessagesOf
<1>2. m.type = "ConnectionSwitch" /\ coordinator.cell # 0 =>
         MessagesOf(m) = [On(<<Lte, Ue>>, <<RrcConnectionSwitch(m.useMmWave)>>)
                            EXCEPT ![<<Lte, coordinator.cell>>] =
                               IF m.useMmWave THEN << >>
                               ELSE <<ConnectionSwitchMsg(coordinator.rnti)>>]
  BY DEF MessagesOf
<1>3. m.type # "McHandoverRequest" /\ ~(m.type = "ConnectionSwitch" /\ coordinator.cell # 0)
        => MessagesOf(m) = Nothing
  BY DEF MessagesOf
<1>4. CASE m.type = "McHandoverRequest"
  <2>1. McHandoverRequestMsg(m.to) \in Message
    BY <1>4, Commands, Messages DEF OfType
  <2> QED BY <1>1, <1>2, <1>3, <1>4, <2>1, SendTypesOnLinks
<1>5. CASE m.type = "ConnectionSwitch" /\ coordinator.cell # 0
  <2>1. coordinator.rnti \in Rnti
    BY <1>5 DEF Typed, TypeOK, RntisKnown, Rnti
  <2>2. /\ RrcConnectionSwitch(m.useMmWave) \in Message
        /\ ConnectionSwitchMsg(coordinator.rnti) \in Message
    BY <1>5, <2>1, Commands, Messages DEF OfType
  <2>3. On(<<Lte, Ue>>, <<RrcConnectionSwitch(m.useMmWave)>>) \in [Links -> Seq(Message)]
    BY <2>2, SendTypesOnLinks
  <2>4. (IF m.useMmWave THEN << >> ELSE <<ConnectionSwitchMsg(coordinator.rnti)>>) \in Seq(Message)
    BY <2>2
  <2>5. \A f \in [Links -> Seq(Message)], s \in Seq(Message) : \A k :
          [f EXCEPT ![k] = s] \in [Links -> Seq(Message)]
    OBVIOUS
  <2>6. MessagesOf(m) \in [Links -> Seq(Message)]
    BY <1>2, <1>5, <2>3, <2>4, <2>5
  <2> QED BY <1>1, <1>2, <1>3, <2>6
<1> QED BY <1>1, <1>2, <1>3, <1>4, <1>5, SendTypesOnLinks

LEMMA DecideTyped == Typed /\ Decide => Typed'
<1> SUFFICES ASSUME Typed, Decide PROVE Typed'
  OBVIOUS
<1>1. DecisionTypeOK'
  BY TriggerType, HandoverStepTypes DEF Typed, TypeOK, Decide
<1>2. sent' \in Command
  BY <1>1 DEF DecisionTypeOK
<1>3. link' \in [Links -> Seq(Message)]
  BY <1>2, Transmissions, ExchangeType DEF Decide, Transmit, Typed
<1>4. commanded' \in Cell \cup {0}
  BY <1>2, Commands DEF Decide, Transmit, Typed, TypeOK
<1> QED BY <1>1, <1>3, <1>4 DEF Decide, Typed, TypeOK, RntisKnown, cellVars

LEMMA LocalTyped == Typed /\ (Local \/ UNCHANGED vars) => Typed'
<1> SUFFICES ASSUME Typed, Local \/ UNCHANGED vars PROVE Typed'
  OBVIOUS
<1>1. DecisionTypeOK'
  <2>1. CASE Local
    BY <2>1, ReportType, AttachTypes, HandoverStepTypes DEF Typed, TypeOK, Local
  <2>2. CASE UNCHANGED vars
    BY <2>2 DEF Typed, TypeOK, vars, decisionVars, DecisionTypeOK
  <2> QED BY <2>1, <2>2
<1> QED BY <1>1 DEF Local, Typed, TypeOK, RntisKnown, cellVars, vars

LEMMA ConnectTyped ==
    ASSUME Typed, NEW c \in Cell, Connect(c)
    PROVE  Typed'
<1> DEFINE r == AddUe(c)
           new == NewContext("CONNECTED_NORMALLY", 0, 0, TRUE)
<1>1. DecisionTypeOK'
  BY McSetupType DEF Connect, Typed, TypeOK
<1>2. r \in Rnti
  BY AddUeFree DEF Connect, Typed
<1>3. r \in 0 .. MaxRnti /\ r # 0 /\ 0 \in 0 .. MaxRnti
  BY <1>2, NetworkAssumption DEF Rnti
<1>4. new \in Context /\ new.state = "CONNECTED_NORMALLY"
  BY <1>3, NewContextType DEF NewContext
<1>5. SetContext(c, r, new)
  BY DEF Connect
<1> HIDE DEF new
<1>6. /\ context' \in [Cell -> [Rnti -> Context \cup {NoContext}]]
      /\ \A d \in Cell, q \in Rnti :
            context'[d][q].state = "HANDOVER_JOINING" => context'[d][q].sourceRnti # 0
  BY <1>2, <1>4, <1>5, ContextsType DEF Typed, RntisKnown
<1>7. coordinator' = [cell |-> c, rnti |-> r]
  BY DEF Connect
<1> HIDE DEF r
<1>8. /\ lastRnti' \in [Cell -> 0 .. MaxRnti] /\ imsiRnti' \in [Cell -> 0 .. MaxRnti]
  BY <1>3 DEF Connect, RegisterImsiToRnti, Typed, TypeOK, r
<1>9. ue' \in [state : {"CONNECTED_NORMALLY", "CONNECTED_HANDOVER"},
               cell : Cell \cup {0}, rnti : 0 .. MaxRnti, useMmWave : BOOLEAN]
  BY <1>3 DEF Connect, r
<1>10. coordinator' \in [cell : Cell \cup {0}, rnti : 0 .. MaxRnti] /\ RntisKnown'
  BY <1>3, <1>6, <1>7 DEF RntisKnown
<1>11. UNCHANGED <<commanded, forwarding, link>>
  BY DEF Connect
<1> QED BY <1>1, <1>6, <1>8, <1>9, <1>10, <1>11 DEF Typed, TypeOK

\* Which variables the handlers of the cells and of the UE leave alone.
Untouched == UNCHANGED <<decisionVars, coordinator, commanded>>

LEMMA UntouchedTypes ==
    ASSUME Typed, Untouched
    PROVE  /\ DecisionTypeOK'
           /\ coordinator' \in [cell : Cell \cup {0}, rnti : 0 .. MaxRnti]
           /\ commanded' \in Cell \cup {0}
           /\ coordinator'.cell # 0 => coordinator'.rnti # 0
  BY DEF Typed, TypeOK, RntisKnown, Untouched, decisionVars, DecisionTypeOK

\* The set of links of a handler.
LEMMA Ends ==
    /\ <<Lte, Ue>> \in Links
    /\ \A c \in Cell : /\ <<Lte, c>> \in Links /\ <<c, Lte>> \in Links
                       /\ <<c, Ue>> \in Links /\ <<Ue, c>> \in Links
                       /\ \A d \in Cell \ {c} : <<d, c>> \in Links /\ <<c, d>> \in Links
  BY DEF Links

\* A handler that consumes a message, and one that answers it as well.
LEMMA ConsumeType ==
    ASSUME TypeOK, NEW l \in Links, NEW t, HeadIs(l, t), NEW sends \in [Links -> Seq(Message)],
           Exchange({l}, sends)
    PROVE  link' \in [Links -> Seq(Message)] /\ Head(link[l]) \in OfType(t)
  BY Heads, ExchangeType

LEMMA CompleteTyped ==
    ASSUME Typed, NEW c \in Cell, CompleteHandover(c)
    PROVE  Typed'
<1> DEFINE m == Head(link[<<c, Lte>>])
<1>1. m \in OfType("SecondaryCellHandoverCompleted")
  BY Heads, Ends DEF CompleteHandover, Typed
<1>2. m.new \in Rnti /\ m.old \in Rnti
  BY <1>1, Fields DEF OfType
<1>3. UeContextRelease(m.old) \in Message
  BY <1>2, Messages DEF OfType
<1>4. link' \in [Links -> Seq(Message)]
  BY <1>3, SendTypesOnLinks, ConsumeType, Ends DEF CompleteHandover, Typed
<1>5. coordinator' = [cell |-> c, rnti |-> m.new] /\ m.new \in 0 .. MaxRnti /\ m.new # 0
  BY <1>2 DEF CompleteHandover, Rnti
<1>6. DecisionTypeOK'
  BY HandoverStepTypes DEF CompleteHandover, Typed, TypeOK
<1>7. UNCHANGED <<commanded, context, lastRnti, imsiRnti, forwarding, ue>>
  BY DEF CompleteHandover, cellVars
<1>8. RntisKnown'
  BY <1>5, <1>7 DEF Typed, RntisKnown
<1>9. coordinator' \in [cell : Cell \cup {0}, rnti : 0 .. MaxRnti]
  BY <1>5
<1> QED BY <1>4, <1>6, <1>7, <1>8, <1>9 DEF Typed, TypeOK

LEMMA NotifyTyped ==
    ASSUME Typed, NEW c \in Cell, RecvNotifyCoordinatorHandoverFailed(c)
    PROVE  Typed'
<1>1. link' \in [Links -> Seq(Message)]
  BY SendTypesOnLinks, ConsumeType, Ends DEF RecvNotifyCoordinatorHandoverFailed, Typed
<1>2. Untouched
  BY DEF RecvNotifyCoordinatorHandoverFailed, Untouched
<1> QED
  BY <1>1, <1>2, UntouchedTypes
  DEF RecvNotifyCoordinatorHandoverFailed, Typed, TypeOK, RntisKnown, cellVars

\* The contexts after a handler that sets one, and leaves the identity of the
\* source as it was.
LEMMA ContextsTyped ==
    ASSUME Typed, NEW c \in Cell, NEW r \in Rnti, NEW new \in Context \cup {NoContext},
           new.state = "HANDOVER_JOINING" => new.sourceRnti # 0,
           SetContext(c, r, new)
    PROVE  /\ context' \in [Cell -> [Rnti -> Context \cup {NoContext}]]
           /\ \A d \in Cell, q \in Rnti :
                 context'[d][q].state = "HANDOVER_JOINING" => context'[d][q].sourceRnti # 0
  BY ContextsType DEF Typed, RntisKnown

LEMMA McRequestTyped ==
    ASSUME Typed, NEW c \in Cell, RecvMcHandoverRequest(c)
    PROVE  Typed'
<1> DEFINE r == imsiRnti[c]
           d == Head(link[<<Lte, c>>]).target
           new == [context[c][r] EXCEPT !.state = "HANDOVER_PREPARATION", !.target = d,
                                        !.rlcRequests = FALSE]
<1>1. Head(link[<<Lte, c>>]) \in OfType("McHandoverRequest")
  BY Heads, Ends DEF RecvMcHandoverRequest, Typed
<1>2. d \in Cell
  BY <1>1, Fields DEF OfType
<1>3. r \in Rnti /\ context[c][r] \in Context
  BY ContextHere DEF RecvMcHandoverRequest, Typed
<1>4. HandoverRequest(r, context[c][r].rlcRequests) \in Message
  <2>1. context[c][r].rlcRequests \in BOOLEAN
    BY <1>3 DEF Context
  <2> QED BY <1>3, <2>1, Messages DEF OfType
<1>5. new \in Context /\ new.state # "HANDOVER_JOINING"
  BY <1>2, <1>3 DEF Context
<1>6. SetContext(c, r, new) /\ Untouched
  BY DEF RecvMcHandoverRequest, Untouched
<1>7. link' \in [Links -> Seq(Message)]
  BY <1>4, SendTypesOnLinks, ConsumeType, Ends DEF RecvMcHandoverRequest, Typed
<1> HIDE DEF new
<1> QED
  BY <1>3, <1>5, <1>6, <1>7, ContextsTyped, UntouchedTypes
  DEF RecvMcHandoverRequest, Typed, TypeOK, RntisKnown

LEMMA HandoverRequestTyped ==
    ASSUME Typed, NEW c \in Cell, NEW d \in Cell \ {c}, RecvHandoverRequest(d, c)
    PROVE  Typed'
<1> DEFINE m == Head(link[<<d, c>>])
           r == AddUe(c)
           new == NewContext("HANDOVER_JOINING", d, m.old, m.rlcs)
<1>1. m \in OfType("HandoverRequest")
  BY Heads, Ends DEF RecvHandoverRequest, Typed
<1>2. m.old \in Rnti /\ m.old \in 0 .. MaxRnti /\ m.old # 0 /\ m.rlcs \in BOOLEAN
  BY <1>1, Fields DEF OfType, Rnti
<1>3. Untouched /\ UNCHANGED <<forwarding, ue>>
  BY DEF RecvHandoverRequest, Untouched
<1>4. CASE /\ FreeRntis(c) # {}
           /\ SetContext(c, r, new)
           /\ lastRnti' = [lastRnti EXCEPT ![c] = r]
           /\ RegisterImsiToRnti(c, r)
           /\ Exchange({<<d, c>>}, On(<<c, d>>, <<HandoverRequestAck(m.old, r)>>))
  <2>1. r \in Rnti
    BY <1>4, AddUeFree DEF Typed
  <2>2. r \in 0 .. MaxRnti
    BY <2>1 DEF Rnti
  <2>3. new \in Context /\ new.sourceRnti # 0
    BY <1>2, NewContextType DEF NewContext
  <2>4. HandoverRequestAck(m.old, r) \in Message
    BY <1>2, <2>1, Messages DEF OfType
  <2>5. link' \in [Links -> Seq(Message)]
    BY <1>4, <2>4, SendTypesOnLinks, ConsumeType, Ends DEF RecvHandoverRequest, Typed
  <2>6. lastRnti' \in [Cell -> 0 .. MaxRnti] /\ imsiRnti' \in [Cell -> 0 .. MaxRnti]
    BY <1>4, <2>2 DEF RegisterImsiToRnti, Typed, TypeOK
  <2> HIDE DEF new, r
  <2> QED
    BY <1>3, <1>4, <2>1, <2>3, <2>5, <2>6, ContextsTyped, UntouchedTypes
    DEF Typed, TypeOK, RntisKnown
<1>5. CASE /\ Exchange({<<d, c>>}, On(<<c, d>>, <<HandoverPreparationFailure(m.old)>>))
           /\ UNCHANGED <<context, lastRnti, imsiRnti>>
  <2>1. HandoverPreparationFailure(m.old) \in Message
    BY <1>2, Messages DEF OfType
  <2>2. link' \in [Links -> Seq(Message)]
    BY <1>5, <2>1, SendTypesOnLinks, ConsumeType, Ends DEF RecvHandoverRequest, Typed
  <2> QED BY <1>3, <1>5, <2>2, UntouchedTypes DEF Typed, TypeOK, RntisKnown
<1> QED BY <1>4, <1>5 DEF RecvHandoverRequest

LEMMA AckTyped ==
    ASSUME Typed, NEW c \in Cell, NEW d \in Cell \ {c}, RecvHandoverRequestAck(d, c)
    PROVE  Typed'
<1> DEFINE m == Head(link[<<d, c>>])
           new == [context[c][m.old] EXCEPT !.state = "HANDOVER_LEAVING"]
           sends == [On(<<c, Ue>>, <<HandoverCommand(d, m.new)>>)
                       EXCEPT ![<<c, d>>] = <<SnStatusTransfer(m.new)>>]
<1>1. m \in OfType("HandoverRequestAck")
  BY Heads, Ends DEF RecvHandoverRequestAck, Typed
<1>2. m.old \in Rnti /\ m.new \in Rnti
  BY <1>1, Fields DEF OfType
<1>3. Untouched /\ UNCHANGED <<lastRnti, imsiRnti, ue>> /\ SetContext(c, m.old, new)
  BY DEF RecvHandoverRequestAck, Untouched
<1>4. context[c][m.old] \in Context
  BY ContextHere DEF RecvHandoverRequestAck, Typed
<1>5. new \in Context /\ new.state # "HANDOVER_JOINING"
  BY <1>4 DEF Context
<1>6. sends \in [Links -> Seq(Message)]
  <2>1. HandoverCommand(d, m.new) \in Message /\ SnStatusTransfer(m.new) \in Message
    BY <1>2, Messages DEF OfType
  <2> QED BY <2>1, SendTypesOnLinks
<1>7. link' \in [Links -> Seq(Message)]
  BY <1>6, ConsumeType, Ends DEF RecvHandoverRequestAck, Typed
<1>8. forwarding' \in [Cell -> Cell \cup {0}]
  BY DEF RecvHandoverRequestAck, Typed, TypeOK
<1> HIDE DEF new
<1> QED
  BY <1>2, <1>3, <1>5, <1>7, <1>8, ContextsTyped, UntouchedTypes
  DEF Typed, TypeOK, RntisKnown

LEMMA FailureTyped ==
    ASSUME Typed, NEW c \in Cell, NEW d \in Cell \ {c}, RecvHandoverPreparationFailure(d, c)
    PROVE  Typed'
<1> DEFINE r == Head(link[<<d, c>>]).old
           new == [context[c][r] EXCEPT
                     !.state = IF @ = "HANDOVER_PREPARATION" THEN "CONNECTED_NORMALLY" ELSE @]
<1>1. Untouched /\ UNCHANGED <<lastRnti, imsiRnti, forwarding, ue>> /\ SetContext(c, r, new)
  BY DEF RecvHandoverPreparationFailure, Untouched
<1>2. r \in Rnti /\ context[c][r] \in Context
      /\ context[c][r].state \in {"HANDOVER_PREPARATION", "HANDOVER_LEAVING"}
  BY ContextHere DEF RecvHandoverPreparationFailure, Typed
<1>3. new \in Context /\ new.state # "HANDOVER_JOINING"
  BY <1>2 DEF Context
<1>4. link' \in [Links -> Seq(Message)]
  BY SendTypesOnLinks, ConsumeType, Ends DEF RecvHandoverPreparationFailure, Typed
<1> HIDE DEF new
<1> QED
  BY <1>1, <1>2, <1>3, <1>4, ContextsTyped, UntouchedTypes DEF Typed, TypeOK, RntisKnown

LEMMA SnStatusTyped ==
    ASSUME Typed, NEW c \in Cell, NEW d \in Cell \ {c}, RecvSnStatusTransfer(d, c)
    PROVE  Typed'
<1>1. link' \in [Links -> Seq(Message)] /\ Untouched
  BY SendTypesOnLinks, ConsumeType, Ends DEF RecvSnStatusTransfer, Untouched, Typed
<1> QED
  BY <1>1, UntouchedTypes DEF RecvSnStatusTransfer, Typed, TypeOK, RntisKnown, cellVars

LEMMA ArrivalTyped ==
    ASSUME Typed, NEW c \in Cell, RecvReconfigurationCompleted(c)
    PROVE  Typed'
<1> DEFINE r == Head(link[<<Ue, c>>]).rnti
           new == [context[c][r] EXCEPT
                     !.state = "CONNECTED_NORMALLY",
                     !.joining = IF @ = "running" THEN "idle" ELSE @]
<1>1. Untouched /\ UNCHANGED <<lastRnti, imsiRnti, forwarding, ue>>
  BY DEF RecvReconfigurationCompleted, Untouched
<1>2. r \in Rnti /\ context[c][r] \in Context
  BY ContextHere DEF RecvReconfigurationCompleted, Typed
<1>3. CASE /\ context[c][r].state = "HANDOVER_JOINING"
           /\ SetContext(c, r, new)
           /\ Exchange({<<Ue, c>>}, ArrivalReport(c, r))
  <2>1. new \in Context /\ new.state # "HANDOVER_JOINING"
    BY <1>2 DEF Context
  <2>2. context[c][r].sourceRnti \in Rnti
    <3>1. context[c][r].sourceRnti \in 0 .. MaxRnti
      BY <1>2 DEF Context
    <3>2. context[c][r].sourceRnti # 0
      BY <1>2, <1>3 DEF Typed, RntisKnown
    <3> QED BY <3>1, <3>2, NetworkAssumption DEF Rnti
  <2>3. SecondaryCellHandoverCompleted(r, context[c][r].sourceRnti) \in Message
    BY <1>2, <2>2, Messages DEF OfType
  <2>4. link' \in [Links -> Seq(Message)]
    BY <1>3, <2>3, SendTypesOnLinks, ConsumeType, Ends
    DEF RecvReconfigurationCompleted, ArrivalReport, Typed
  <2> HIDE DEF new
  <2> QED
    BY <1>1, <1>2, <1>3, <2>1, <2>4, ContextsTyped, UntouchedTypes DEF Typed, TypeOK, RntisKnown
<1>4. CASE Exchange({<<Ue, c>>}, Nothing) /\ UNCHANGED context
  <2>1. link' \in [Links -> Seq(Message)]
    BY <1>4, SendTypesOnLinks, ConsumeType, Ends DEF RecvReconfigurationCompleted, Typed
  <2> QED BY <1>1, <1>4, <2>1, UntouchedTypes DEF Typed, TypeOK, RntisKnown
<1> QED BY <1>3, <1>4 DEF RecvReconfigurationCompleted

LEMMA ReleaseTyped ==
    ASSUME Typed, NEW c \in Cell, RecvUeContextRelease(c)
    PROVE  Typed'
<1> DEFINE r == Head(link[<<Lte, c>>]).old
<1>1. Untouched /\ UNCHANGED <<lastRnti, imsiRnti, ue>> /\ SetContext(c, r, NoContext)
  BY DEF RecvUeContextRelease, RemoveUe, Untouched
<1>2. r \in Rnti
  BY ContextHere DEF RecvUeContextRelease, Typed
<1>3. forwarding' \in [Cell -> Cell \cup {0}]
  BY DEF RecvUeContextRelease, StopForwarding, Typed, TypeOK
<1>4. link' \in [Links -> Seq(Message)]
  BY SendTypesOnLinks, ConsumeType, Ends DEF RecvUeContextRelease, Typed
<1> QED
  BY <1>1, <1>2, <1>3, <1>4, NoContextIsNone, ContextsTyped, UntouchedTypes
  DEF Typed, TypeOK, RntisKnown

LEMMA SwitchTyped ==
    ASSUME Typed, NEW c \in Cell, RecvConnectionSwitchToMmWave(c)
    PROVE  Typed'
<1> DEFINE r == Head(link[<<Lte, c>>]).rnti
           new == [context[c][r] EXCEPT !.target = Lte]
<1>1. Untouched /\ UNCHANGED <<lastRnti, imsiRnti, forwarding, ue>> /\ SetContext(c, r, new)
  BY DEF RecvConnectionSwitchToMmWave, Untouched
<1>2. r \in Rnti /\ context[c][r] \in Context
  BY ContextHere DEF RecvConnectionSwitchToMmWave, Typed
<1>3. /\ new \in Context
      /\ new.state = "HANDOVER_JOINING" => new.sourceRnti # 0
  BY <1>2 DEF Context, Lte, Typed, RntisKnown
<1>4. link' \in [Links -> Seq(Message)]
  BY SendTypesOnLinks, ConsumeType, Ends DEF RecvConnectionSwitchToMmWave, Typed
<1> HIDE DEF new
<1> QED
  BY <1>1, <1>2, <1>3, <1>4, ContextsTyped, UntouchedTypes DEF Typed, TypeOK, RntisKnown

LEMMA UeTyped ==
    ASSUME Typed,
           \/ \E c \in Cell : UeRecvHandoverCommand(c)
           \/ UeRandomAccessSuccessful
           \/ UeRecvRrcConnectionSwitch
    PROVE  Typed'
<1>1. ASSUME NEW c \in Cell, UeRecvHandoverCommand(c) PROVE Typed'
  <2> DEFINE m == Head(link[<<c, Ue>>])
  <2>0. m \in OfType("HandoverCommand")
    BY <1>1, Heads, Ends DEF UeRecvHandoverCommand, Typed
  <2>1. m.target \in Cell /\ m.new \in 0 .. MaxRnti
    BY <2>0, Fields DEF OfType, Rnti
  <2>2. link' \in [Links -> Seq(Message)]
    BY <1>1, SendTypesOnLinks, ConsumeType, Ends DEF UeRecvHandoverCommand, Typed
  <2>3. Untouched /\ UNCHANGED cellVars
    BY <1>1 DEF UeRecvHandoverCommand, Untouched
  <2>4. ue' \in [state : {"CONNECTED_NORMALLY", "CONNECTED_HANDOVER"},
                 cell : Cell \cup {0}, rnti : 0 .. MaxRnti, useMmWave : BOOLEAN]
    BY <1>1, <2>1 DEF UeRecvHandoverCommand, Typed, TypeOK
  <2> QED BY <2>2, <2>3, <2>4, UntouchedTypes DEF Typed, TypeOK, RntisKnown, cellVars
<1>2. CASE UeRandomAccessSuccessful
  <2>1. ReconfigurationCompleted(ue.rnti) \in Message
    BY <1>2, Messages DEF UeRandomAccessSuccessful, HasContext, OfType
  <2>2. link' \in [Links -> Seq(Message)]
    <3> DEFINE sends == On(<<Ue, ue.cell>>, <<ReconfigurationCompleted(ue.rnti)>>)
    <3>1. sends \in [Links -> Seq(Message)]
      BY <2>1, SendTypesOnLinks
    <3>2. Exchange({}, sends)
      BY <1>2 DEF UeRandomAccessSuccessful
    <3> HIDE DEF sends
    <3> QED BY <3>1, <3>2, SendOnly DEF Typed
  <2>3. Untouched /\ UNCHANGED cellVars
    BY <1>2 DEF UeRandomAccessSuccessful, Untouched
  <2>4. ue' \in [state : {"CONNECTED_NORMALLY", "CONNECTED_HANDOVER"},
                 cell : Cell \cup {0}, rnti : 0 .. MaxRnti, useMmWave : BOOLEAN]
    BY <1>2 DEF UeRandomAccessSuccessful, Typed, TypeOK
  <2> QED BY <2>2, <2>3, <2>4, UntouchedTypes DEF Typed, TypeOK, RntisKnown, cellVars
<1>3. CASE UeRecvRrcConnectionSwitch
  <2>1. Head(link[<<Lte, Ue>>]).useMmWave \in BOOLEAN
    BY <1>3, Heads, Ends, Fields DEF UeRecvRrcConnectionSwitch, Typed, OfType
  <2>2. link' \in [Links -> Seq(Message)]
    BY <1>3, SendTypesOnLinks, ConsumeType, Ends DEF UeRecvRrcConnectionSwitch, Typed
  <2>3. Untouched /\ UNCHANGED cellVars
    BY <1>3 DEF UeRecvRrcConnectionSwitch, Untouched
  <2>4. ue' \in [state : {"CONNECTED_NORMALLY", "CONNECTED_HANDOVER"},
                 cell : Cell \cup {0}, rnti : 0 .. MaxRnti, useMmWave : BOOLEAN]
    BY <1>3, <2>1 DEF UeRecvRrcConnectionSwitch, Typed, TypeOK
  <2> QED BY <2>2, <2>3, <2>4, UntouchedTypes DEF Typed, TypeOK, RntisKnown, cellVars
<1> QED BY <1>1, <1>2, <1>3

LEMMA TimeoutTyped == Typed /\ Timeout => Typed'
<1> SUFFICES ASSUME Typed, NEW c \in Cell, NEW r \in Rnti,
                    \/ HandoverJoiningTimeout(c, r)
                    \/ HandoverLeavingTimeout(c, r)
                    \/ RemoveUeAfterJoiningTimeout(c, r)
             PROVE  Typed'
  BY DEF Timeout
<1> DEFINE new == [context[c][r] EXCEPT !.joining = "expired"]
<1>1. Untouched /\ UNCHANGED <<lastRnti, imsiRnti, forwarding, ue>>
  BY DEF HandoverJoiningTimeout, HandoverLeavingTimeout, RemoveUeAfterJoiningTimeout, Untouched
<1>2. CASE HandoverJoiningTimeout(c, r)
  <2>1. SetContext(c, r, new) /\ context[c][r] \in Context
    BY <1>2, ContextHere DEF HandoverJoiningTimeout, Typed
  <2>2. /\ new \in Context
        /\ new.state = "HANDOVER_JOINING" => new.sourceRnti # 0
    BY <2>1 DEF Context, Typed, RntisKnown
  <2>3. link' \in [Links -> Seq(Message)]
    <3>1. NotifyCoordinatorHandoverFailed \in Message
      BY Messages DEF OfType
    <3>2. On(<<c, Lte>>, <<NotifyCoordinatorHandoverFailed>>) \in [Links -> Seq(Message)]
      BY <3>1, SendTypesOnLinks
    <3> QED BY <1>2, <3>2, SendOnly DEF HandoverJoiningTimeout, Typed
  <2> HIDE DEF new
  <2> QED
    BY <1>1, <2>1, <2>2, <2>3, ContextsTyped, UntouchedTypes DEF Typed, TypeOK, RntisKnown
<1>3. CASE RemoveUe(c, r) /\ LoseRadio(c)
  <2>1. SetContext(c, r, NoContext)
    BY <1>3 DEF RemoveUe
  <2>2. link' \in [Links -> Seq(Message)]
    <3>1. << >> \in Seq(Message) /\ link \in [Links -> Seq(Message)]
      BY DEF Typed, TypeOK
    <3> QED BY <1>3, <3>1 DEF LoseRadio
  <2> QED
    BY <1>1, <2>1, <2>2, NoContextIsNone, ContextsTyped, UntouchedTypes
    DEF Typed, TypeOK, RntisKnown
<1> QED BY <1>2, <1>3 DEF HandoverLeavingTimeout, RemoveUeAfterJoiningTimeout

LEMMA StepTyped == Typed /\ [Next]_vars => Typed'
  BY LocalTyped, DecideTyped, ConnectTyped, CompleteTyped, NotifyTyped, McRequestTyped,
     HandoverRequestTyped, AckTyped, FailureTyped, SnStatusTyped, ArrivalTyped,
     ReleaseTyped, SwitchTyped, UeTyped, TimeoutTyped
  DEF Next, CellNext

\* The variables keep their types.  In particular every RNTI that a message
\* names is an RNTI: AddUe never gives out 0, and no handler sends the RNTI of
\* a UE that it does not have.
THEOREM TypeCorrect == Spec => []TypeOK
<1>1. Spec => []Typed
  BY InitTyped, StepTyped, PTL DEF Spec
<1> QED BY <1>1, PTL DEF Typed
-----------------------------------------------------------------------------
(***************************************************************************)
(* The handover procedures implement AbstractHandover.                     *)
(*                                                                         *)
(* At any time at most one message of all that are in flight carries the   *)
(* handover on: the request of the coordinator, then the request, the      *)
(* answer, the command, the completed reconfiguration and the report.      *)
(* While it is on its way, or the UE accesses the target, the coordinator  *)
(* waits for the cell it commanded, and so it commands no other handover,  *)
(* by the invariant of AbstractHandover.  The message may be lost (a       *)
(* refusal, a timeout), and then none ever takes its place.                *)
(***************************************************************************)
Decision == INSTANCE AbstractHandover_proofs WITH outstanding <- Outstanding

\* The decision here is the one of AbstractHandover.
LEMMA SameSpec == Decision!Spec <=> Abstract!Spec
  BY DEF Decision!NoEvent, Abstract!NoEvent, Decision!NoCommand, Abstract!NoCommand,
         Decision!McHandoverRequest, Abstract!McHandoverRequest,
         Decision!ConnectToMmWave, Abstract!ConnectToMmWave,
         Decision!ConnectionSwitch, Abstract!ConnectionSwitch,
         Decision!alreadyAssociated, Abstract!alreadyAssociated,
         Decision!onHandover, Abstract!onHandover, Decision!IsMaxSinrCell,
         Abstract!IsMaxSinrCell, Decision!CurrentSinr, Abstract!CurrentSinr,
         Decision!DifferenceAbove, Abstract!DifferenceAbove,
         Decision!InOutage, Abstract!InOutage, Decision!ComputeTtt,
         Abstract!ComputeTtt, Decision!SendNothing, Abstract!SendNothing,
         Decision!SendMcHandoverRequest, Abstract!SendMcHandoverRequest,
         Decision!SendConnectToMmWave, Abstract!SendConnectToMmWave,
         Decision!SendRrcConnectionSwitch, Abstract!SendRrcConnectionSwitch,
         Decision!StartHandover, Abstract!StartHandover, Decision!maps,
         Abstract!maps, Decision!DoRecvUeSinrUpdate,
         Abstract!DoRecvUeSinrUpdate, Decision!RecvRrcConnectionRequest,
         Abstract!RecvRrcConnectionRequest,
         Decision!RecvRrcConnectionSetupCompleted,
         Abstract!RecvRrcConnectionSetupCompleted,
         Decision!McSetupCompleted, Abstract!McSetupCompleted,
         Decision!RecvSecondaryCellHandoverCompleted,
         Abstract!RecvSecondaryCellHandoverCompleted, Decision!Outage,
         Abstract!Outage, Decision!Schedule, Abstract!Schedule,
         Decision!UpdateEvent, Abstract!UpdateEvent, Decision!BackToMmWave,
         Abstract!BackToMmWave, Decision!TttBasedHandover,
         Abstract!TttBasedHandover,
         Decision!ThresholdBasedSecondaryCellHandover,
         Abstract!ThresholdBasedSecondaryCellHandover,
         Decision!TriggerUeAssociationUpdate,
         Abstract!TriggerUeAssociationUpdate, Decision!Tick, Abstract!Tick,
         Decision!PerformHandover, Abstract!PerformHandover,
         Decision!TakeUp, Abstract!TakeUp, Decision!HandoverCompleted,
         Abstract!HandoverCompleted, Decision!Next, Abstract!Next,
         Decision!Init, Abstract!Init, Decision!Spec, Abstract!Spec,
         Decision!vars, Abstract!vars, Decision!decisionVars,
         Abstract!decisionVars, Decision!DecisionInit, Abstract!DecisionInit

LEMMA SameSteps ==
    /\ \A c : DoRecvUeSinrUpdate(c) <=> Decision!DoRecvUeSinrUpdate(c)
    /\ RecvRrcConnectionRequest <=> Decision!RecvRrcConnectionRequest
    /\ RecvRrcConnectionSetupCompleted <=> Decision!RecvRrcConnectionSetupCompleted
    /\ \A c : McSetupCompleted(c) <=> Decision!McSetupCompleted(c)
    /\ \A c : RecvSecondaryCellHandoverCompleted(c) <=>
                 Decision!RecvSecondaryCellHandoverCompleted(c)
    /\ Tick <=> Decision!Tick
    /\ TriggerUeAssociationUpdate <=> Decision!TriggerUeAssociationUpdate
    /\ PerformHandover <=> Decision!PerformHandover
    /\ DecisionInit <=> Decision!DecisionInit
  BY DEF NoEvent, Decision!NoEvent, NoCommand, Decision!NoCommand, McHandoverRequest,
         Decision!McHandoverRequest, ConnectToMmWave,
         Decision!ConnectToMmWave, ConnectionSwitch,
         Decision!ConnectionSwitch, alreadyAssociated,
         Decision!alreadyAssociated, onHandover, Decision!onHandover,
         IsMaxSinrCell, Decision!IsMaxSinrCell, CurrentSinr,
         Decision!CurrentSinr, DifferenceAbove, Decision!DifferenceAbove,
         InOutage, Decision!InOutage, ComputeTtt, Decision!ComputeTtt,
         SendNothing, Decision!SendNothing, SendMcHandoverRequest,
         Decision!SendMcHandoverRequest, SendConnectToMmWave,
         Decision!SendConnectToMmWave, SendRrcConnectionSwitch,
         Decision!SendRrcConnectionSwitch, StartHandover,
         Decision!StartHandover, maps, Decision!maps, DoRecvUeSinrUpdate,
         Decision!DoRecvUeSinrUpdate, RecvRrcConnectionRequest,
         Decision!RecvRrcConnectionRequest, RecvRrcConnectionSetupCompleted,
         Decision!RecvRrcConnectionSetupCompleted, McSetupCompleted,
         Decision!McSetupCompleted, RecvSecondaryCellHandoverCompleted,
         Decision!RecvSecondaryCellHandoverCompleted, Outage,
         Decision!Outage, Schedule, Decision!Schedule, UpdateEvent,
         Decision!UpdateEvent, BackToMmWave, Decision!BackToMmWave,
         TttBasedHandover, Decision!TttBasedHandover,
         ThresholdBasedSecondaryCellHandover,
         Decision!ThresholdBasedSecondaryCellHandover,
         TriggerUeAssociationUpdate, Decision!TriggerUeAssociationUpdate,
         Tick, Decision!Tick, PerformHandover, Decision!PerformHandover,
         DecisionInit, Decision!DecisionInit

LEMMA DecisionInvariant ==
    /\ Decision!Init => Decision!IInv
    /\ Decision!IInv /\ [Decision!Next]_(Decision!vars) => Decision!IInv'
  BY Decision!InitInvariant, Decision!StepInvariant, CellAssumption, ModeAssumption,
     SinrAssumption, TttAssumption

\* A handover is outstanding.
Waiting == lastCell # 0 /\ setup = "false"

\* What the invariant of AbstractHandover says here.
LEMMA WaitingFacts ==
    ASSUME Decision!IInv
    PROVE  /\ Waiting => commanded # lastCell
           /\ setup = "true" => lastCell # 0
           /\ lastCell # 0 => connecting = {} /\ ueState = "connected"
           /\ event # NoEvent => setup = "true" /\ event.target # lastCell
<1>1. Waiting => Outstanding = <<[from |-> lastCell, to |-> commanded]>>
  BY DEF Outstanding, Waiting
<1>2. Waiting => commanded # lastCell
  BY <1>1 DEF Decision!IInv, Decision!OneHandoverAtATime
<1> QED
  BY <1>2 DEF Decision!IInv, Decision!FirstConnectionOrder, Decision!OneFirstConnection,
              Decision!EventIsCurrent, Decision!NoEvent, NoEvent

\* A step of the decision starts a handover only when none is outstanding, and
\* remembers it.
LEMMA Starts ==
    ASSUME Decision!IInv, TriggerUeAssociationUpdate \/ PerformHandover
    PROVE  /\ UNCHANGED lastCell
           /\ \/ sent'.type # "McHandoverRequest" /\ UNCHANGED setup
              \/ /\ sent'.type = "McHandoverRequest"
                 /\ sent'.from = lastCell /\ lastCell # 0
                 /\ setup = "true" /\ setup' = "false"
<1>1. CASE TriggerUeAssociationUpdate
  <2>1. /\ Decision!Frame
        /\ \/ Decision!Idle \/ Decision!LeaveMmWave \/ Decision!ConnectFirst
           \/ Decision!ReturnToMmWave \/ Decision!HandOver \/ Decision!ChangeEvent
    BY <1>1, SameSteps, Decision!TriggerCases, CellAssumption, ModeAssumption,
       SinrAssumption, TttAssumption
  <2> QED
    BY <2>1, WaitingFacts
    DEF Decision!Frame, Decision!Idle, Decision!LeaveMmWave, Decision!ConnectFirst,
        Decision!ReturnToMmWave, Decision!HandOver, Decision!ChangeEvent,
        Decision!NoCommand, Decision!ConnectionSwitch, Decision!ConnectToMmWave,
        Decision!McHandoverRequest
<1>2. CASE PerformHandover
  BY <1>2, WaitingFacts
  DEF PerformHandover, onHandover, StartHandover, SendMcHandoverRequest, McHandoverRequest
<1> QED BY <1>1, <1>2
-----------------------------------------------------------------------------
(***************************************************************************)
(* The message that carries the handover on.                               *)
(***************************************************************************)
Carriers == {m \in Message : m.type \in
    {"McHandoverRequest", "HandoverRequest", "HandoverRequestAck",
     "HandoverPreparationFailure", "HandoverCommand", "ReconfigurationCompleted",
     "SecondaryCellHandoverCompleted"}}

\* The cell that the handover leads to, from a message m on link l.
Destination(l, m) ==
    CASE m.type \in {"McHandoverRequest", "HandoverCommand"} -> m.target
      [] m.type \in {"HandoverRequest", "ReconfigurationCompleted"} -> l[2]
      [] OTHER -> l[1]

Astray(l) == {m \in Carriers : Destination(l, m) # commanded}

Free == \A l \in Links : None(link[l], Carriers)
OnlyOn(l) == /\ Once(link[l], Carriers)
             /\ \A k \in Links \ {l} : None(link[k], Carriers)

OnItsWay ==
    /\ \A l \in Links : None(link[l], Astray(l))
    /\ \/ Free
       \/ /\ \E l \in Links : OnlyOn(l)
          /\ ue.state = "CONNECTED_NORMALLY"
          /\ Waiting
    /\ ue.state = "CONNECTED_HANDOVER" => Waiting /\ ue.cell = commanded

\* The links after a handler, for the messages of any set S.
LEMMA Exchanged ==
    ASSUME TypeOK, NEW consumed, NEW sends \in [Links -> Seq(Message)],
           \A l \in consumed \cap Links : link[l] # << >>, Exchange(consumed, sends),
           NEW x \in Links, NEW S
    PROVE  /\ None(link[x], S) /\ None(sends[x], S) => None(link'[x], S)
           /\ Once(link[x], S) /\ None(sends[x], S) => Once(link'[x], S)
           /\ None(link[x], S) /\ Once(sends[x], S) => Once(link'[x], S)
           /\ x \in consumed /\ Once(link[x], S) /\ Head(link[x]) \in S =>
                 /\ None(sends[x], S) => None(link'[x], S)
                 /\ Once(sends[x], S) => Once(link'[x], S)
<1> DEFINE left == IF x \in consumed THEN Tail(link[x]) ELSE link[x]
<1>1. link[x] \in Seq(Message) /\ sends[x] \in Seq(Message)
  BY DEF TypeOK
<1>2. /\ left \in Seq(Message)
      /\ None(link[x], S) => None(left, S)
      /\ Once(link[x], S) => Once(left, S)
      /\ x \in consumed /\ Once(link[x], S) /\ Head(link[x]) \in S => None(left, S)
  <2>1. CASE x \in consumed
    <3>1. link[x] # << >> /\ left = Tail(link[x])
      BY <2>1
    <3> QED BY <1>1, <2>1, <3>1, Tails
  <2>2. CASE x \notin consumed
    BY <1>1, <2>2
  <2> QED BY <2>1, <2>2
<1>3. link'[x] = left \o sends[x]
  BY DEF Exchange
<1> HIDE DEF left
<1> QED BY <1>1, <1>2, <1>3, Concats

\* What is on a link after a message is put on one.
LEMMA Placed ==
    ASSUME NEW l, NEW m \in Message, NEW x \in Links, NEW S
    PROVE  /\ Once(On(l, <<m>>)[x], S)
           /\ x # l \/ m \notin S => None(On(l, <<m>>)[x], S)
           /\ None(Nothing[x], S)
<1>1. On(l, <<m>>)[x] = (IF x = l THEN <<m>> ELSE << >>) /\ Nothing[x] = << >>
  BY DEF On, Nothing
<1> QED BY <1>1, Singles, Empties

\* A handler that consumes the message and sends the next one, with others.
LEMMA Carry ==
    ASSUME TypeOK, OnItsWay, NEW l \in Links, NEW t, HeadIs(l, t),
           Head(link[l]) \in Carriers,
           NEW sends \in [Links -> Seq(Message)], Exchange({l}, sends), NEW k,
           Destination(l, Head(link[l])) = commanded =>
              \A x \in Links : /\ None(sends[x], Astray(x))
                               /\ Once(sends[x], Carriers)
                               /\ x # k => None(sends[x], Carriers),
           UNCHANGED commanded
    PROVE  /\ Waiting /\ ue.state = "CONNECTED_NORMALLY"
           /\ Destination(l, Head(link[l])) = commanded
           /\ \A x \in Links : None(link'[x], Astray(x)')
           /\ k \notin Links => Free'
           /\ k \in Links => OnlyOn(k)'
           /\ (\A x \in Links : None(sends[x], Carriers)) => Free'
<1> USE DEF HeadIs
<1>1. link[l] \in Seq(Message) /\ link[l] # << >>
  BY DEF TypeOK
<1>2. ~Free
  BY <1>1, Tails DEF Free
<1>3. Waiting /\ ue.state = "CONNECTED_NORMALLY"
  BY <1>2 DEF OnItsWay
<1>4. Destination(l, Head(link[l])) = commanded
  <2>1. Head(link[l]) \notin Astray(l)
    BY <1>1, Tails DEF OnItsWay
  <2> QED BY <2>1 DEF Astray
<1>5. OnlyOn(l)
  <2>1. PICK j \in Links : OnlyOn(j)
    BY <1>2 DEF OnItsWay
  <2>2. j = l
    BY <1>1, <2>1, Tails DEF OnlyOn
  <2> QED BY <2>1, <2>2
<1>6. \A x \in Links : None(link'[x], Astray(x))
  BY <1>1, <1>4, Exchanged DEF OnItsWay
<1>7. \A x \in Links : Astray(x)' = Astray(x)
  BY DEF Astray, Carriers, Destination
<1>8. ASSUME NEW x \in Links
      PROVE  /\ Once(link'[x], Carriers)
             /\ x # k => None(link'[x], Carriers)
             /\ None(sends[x], Carriers) => None(link'[x], Carriers)
  <2>1. CASE x = l
    BY <1>1, <1>4, <1>5, <2>1, Exchanged DEF OnlyOn
  <2>2. CASE x # l
    BY <1>1, <1>4, <1>5, <2>2, Exchanged DEF OnlyOn
  <2> QED BY <2>1, <2>2
<1> QED BY <1>3, <1>4, <1>6, <1>7, <1>8 DEF Free, OnlyOn

\* A handler that neither consumes nor sends such a message.
LEMMA Bystander ==
    ASSUME TypeOK, OnItsWay, NEW consumed, NEW sends \in [Links -> Seq(Message)],
           \A l \in consumed \cap Links : link[l] # << >>, Exchange(consumed, sends),
           \A x \in Links : None(sends[x], Carriers),
           UNCHANGED <<commanded, ue.state, ue.cell>>, Waiting => Waiting'
    PROVE  OnItsWay'
<1>1. \A x \in Links : None(sends[x], Astray(x))
  BY DEF Astray, None
<1>2. \A x \in Links : None(link'[x], Astray(x))
  BY <1>1, Exchanged DEF OnItsWay
<1>3. \A x \in Links : Astray(x)' = Astray(x)
  BY DEF Astray, Carriers, Destination
<1>4. Free => Free'
  BY Exchanged DEF Free
<1>5. \A l \in Links : OnlyOn(l) => OnlyOn(l)'
  BY Exchanged DEF OnlyOn
<1> QED BY <1>2, <1>3, <1>4, <1>5 DEF OnItsWay

\* The first message, when there is none.
LEMMA SetOut ==
    ASSUME TypeOK, OnItsWay, Free, NEW sends \in [Links -> Seq(Message)],
           Exchange({}, sends), NEW k \in Links,
           \A x \in Links : /\ None(sends[x], Astray(x)')
                            /\ Once(sends[x], Carriers)
                            /\ x # k => None(sends[x], Carriers),
           ue'.state = "CONNECTED_NORMALLY", Waiting'
    PROVE  OnItsWay'
<1>1. \A x \in Links : None(link[x], Astray(x)')
  BY DEF Free, None, Astray, Carriers
<1>2. \A x \in Links : None(link'[x], Astray(x)')
  BY <1>1, Exchanged
<1>3. OnlyOn(k)'
  BY Exchanged DEF Free, OnlyOn
<1> QED BY <1>2, <1>3 DEF OnItsWay

LEMMA InitOnItsWay == Init => OnItsWay
  BY Empties DEF Init, OnItsWay, Free

\* What the messages are to a link.
LEMMA Kinds ==
    ASSUME NEW m \in Message, NEW l
    PROVE  /\ m.type \in {"McHandoverRequest", "HandoverCommand"} =>
                 m \in Carriers /\ Destination(l, m) = m.target
           /\ m.type \in {"HandoverRequest", "ReconfigurationCompleted"} =>
                 m \in Carriers /\ Destination(l, m) = l[2]
           /\ m.type \in {"HandoverRequestAck", "HandoverPreparationFailure",
                          "SecondaryCellHandoverCompleted"} =>
                 m \in Carriers /\ Destination(l, m) = l[1]
           /\ m.type \in {"SnStatusTransfer", "UeContextRelease", "ConnectionSwitch",
                          "RrcConnectionSwitch", "NotifyCoordinatorHandoverFailed"} =>
                 m \notin Carriers
           /\ Destination(l, m) = commanded => m \notin Astray(l)
  BY DEF Carriers, Destination, Astray

\* A single message that goes on to the commanded cell.
LEMMA Onward ==
    ASSUME NEW k, NEW m \in Message, Destination(k, m) = commanded, NEW x \in Links
    PROVE  /\ None(On(k, <<m>>)[x], Astray(x))
           /\ Once(On(k, <<m>>)[x], Carriers)
           /\ x # k => None(On(k, <<m>>)[x], Carriers)
  BY Placed, Kinds

\* Where the message went, it is still on its way.
LEMMA Arrived ==
    ASSUME NEW k, Waiting', ue'.state = "CONNECTED_NORMALLY",
           \A x \in Links : None(link'[x], Astray(x)'),
           k \notin Links => Free', k \in Links => OnlyOn(k)'
    PROVE  OnItsWay'
  BY DEF OnItsWay

LEMMA McRequestCarries ==
    ASSUME Typed, OnItsWay, NEW c \in Cell, RecvMcHandoverRequest(c)
    PROVE  OnItsWay'
<1> DEFINE h == Head(link[<<Lte, c>>])
           r == imsiRnti[c]
           m == HandoverRequest(r, context[c][r].rlcRequests)
<1>0. PICK k : k = <<c, h.target>>
  OBVIOUS
<1>1. h \in OfType("McHandoverRequest") /\ HeadIs(<<Lte, c>>, "McHandoverRequest")
  BY Heads, Ends DEF RecvMcHandoverRequest, Typed
<1>2. h \in Carriers /\ Destination(<<Lte, c>>, h) = h.target
  BY <1>1, Kinds DEF OfType
<1>3. m \in Message /\ Destination(k, m) = h.target
  <2>1. r \in Rnti /\ context[c][r] \in Context
    BY ContextHere DEF RecvMcHandoverRequest, Typed
  <2>2. context[c][r].rlcRequests \in BOOLEAN
    BY <2>1 DEF Context
  <2>3. m \in Message /\ m.type = "HandoverRequest"
    BY <2>1, <2>2, Messages DEF OfType
  <2>4. Destination(k, m) = k[2]
    BY <2>3, Kinds
  <2> QED BY <1>0, <2>3, <2>4
<1>4. On(k, <<m>>) \in [Links -> Seq(Message)]
  BY <1>3, SendTypesOnLinks
<1>5. Exchange({<<Lte, c>>}, On(k, <<m>>))
  BY <1>0 DEF RecvMcHandoverRequest
<1>7. UNCHANGED <<commanded, ue, lastCell, setup>>
  BY DEF RecvMcHandoverRequest, decisionVars
<1> HIDE DEF h, m
<1>6. /\ Waiting /\ ue.state = "CONNECTED_NORMALLY"
      /\ \A x \in Links : None(link'[x], Astray(x)')
      /\ k \notin Links => Free'
      /\ k \in Links => OnlyOn(k)'
  <2>1. /\ Destination(<<Lte, c>>, Head(link[<<Lte, c>>])) = h.target
        /\ Head(link[<<Lte, c>>]) \in Carriers /\ <<Lte, c>> \in Links /\ TypeOK
    BY <1>2, Ends DEF Typed, h
  <2>2. h.target = commanded =>
          \A x \in Links : /\ None(On(k, <<m>>)[x], Astray(x))
                           /\ Once(On(k, <<m>>)[x], Carriers)
                           /\ x # k => None(On(k, <<m>>)[x], Carriers)
    BY <1>3, Onward
  <2> QED BY <1>1, <1>4, <1>5, <1>7, <2>1, <2>2, Carry
<1> QED BY <1>6, <1>7, Arrived DEF Waiting

LEMMA HandoverRequestCarries ==
    ASSUME Typed, OnItsWay, NEW c \in Cell, NEW d \in Cell \ {c}, RecvHandoverRequest(d, c)
    PROVE  OnItsWay'
<1> DEFINE h == Head(link[<<d, c>>])
           k == <<c, d>>
<1>1. h \in OfType("HandoverRequest") /\ HeadIs(<<d, c>>, "HandoverRequest") /\ h.old \in Rnti
  BY Heads, Ends, Fields DEF RecvHandoverRequest, Typed, OfType
<1>2. h \in Carriers /\ Destination(<<d, c>>, h) = c
  <2>1. Destination(<<d, c>>, h) = <<d, c>>[2] /\ h \in Carriers
    BY <1>1, Kinds DEF OfType
  <2> QED BY <2>1
<1>3. PICK m \in OfType("HandoverRequestAck") \cup OfType("HandoverPreparationFailure") :
         Exchange({<<d, c>>}, On(k, <<m>>))
  <2>1. CASE /\ FreeRntis(c) # {}
             /\ Exchange({<<d, c>>}, On(k, <<HandoverRequestAck(h.old, AddUe(c))>>))
    <3>1. AddUe(c) \in Rnti
      BY <2>1, AddUeFree DEF Typed
    <3> QED BY <1>1, <2>1, <3>1, Messages
  <2>2. CASE Exchange({<<d, c>>}, On(k, <<HandoverPreparationFailure(h.old)>>))
    BY <1>1, <2>2, Messages
  <2> QED BY <2>1, <2>2 DEF RecvHandoverRequest
<1>4. m \in Message /\ Destination(k, m) = c
  <2>1. m \in Message /\ m.type \in {"HandoverRequestAck", "HandoverPreparationFailure"}
    BY <1>3 DEF OfType
  <2>2. Destination(k, m) = k[1]
    BY <2>1, Kinds
  <2> QED BY <2>1, <2>2
<1>5. On(k, <<m>>) \in [Links -> Seq(Message)]
  BY <1>4, SendTypesOnLinks
<1>6. UNCHANGED <<commanded, ue, lastCell, setup>>
  BY DEF RecvHandoverRequest, decisionVars
<1> HIDE DEF h, k
<1>7. /\ Waiting /\ ue.state = "CONNECTED_NORMALLY"
      /\ \A x \in Links : None(link'[x], Astray(x)')
      /\ k \notin Links => Free'
      /\ k \in Links => OnlyOn(k)'
  <2>1. /\ Destination(<<d, c>>, Head(link[<<d, c>>])) = c
        /\ Head(link[<<d, c>>]) \in Carriers /\ <<d, c>> \in Links /\ TypeOK
    BY <1>2, Ends DEF Typed, h
  <2>2. c = commanded =>
          \A x \in Links : /\ None(On(k, <<m>>)[x], Astray(x))
                           /\ Once(On(k, <<m>>)[x], Carriers)
                           /\ x # k => None(On(k, <<m>>)[x], Carriers)
    BY <1>4, Onward
  <2> QED BY <1>1, <1>3, <1>5, <1>6, <2>1, <2>2, Carry
<1> QED BY <1>6, <1>7, Arrived DEF Waiting

LEMMA AckCarries ==
    ASSUME Typed, OnItsWay, NEW c \in Cell, NEW d \in Cell \ {c}, RecvHandoverRequestAck(d, c)
    PROVE  OnItsWay'
<1> DEFINE h == Head(link[<<d, c>>])
           k == <<c, Ue>>
           m == HandoverCommand(d, h.new)
           n == SnStatusTransfer(h.new)
           sends == [On(k, <<m>>) EXCEPT ![<<c, d>>] = <<n>>]
<1>1. h \in OfType("HandoverRequestAck") /\ HeadIs(<<d, c>>, "HandoverRequestAck")
      /\ h.new \in Rnti
  BY Heads, Ends, Fields DEF RecvHandoverRequestAck, Typed, OfType
<1>2. h \in Carriers /\ Destination(<<d, c>>, h) = d
  <2>1. Destination(<<d, c>>, h) = <<d, c>>[1] /\ h \in Carriers
    BY <1>1, Kinds DEF OfType
  <2> QED BY <2>1
<1>3. m \in Message /\ Destination(k, m) = d
  <2>1. m \in Message /\ m.type = "HandoverCommand" /\ m.target = d
    BY <1>1, Messages DEF OfType, HandoverCommand
  <2> QED BY <2>1, Kinds
<1>4. n \in Message /\ n \notin Carriers
  BY <1>1, Messages, Kinds DEF OfType
<1>5. sends \in [Links -> Seq(Message)]
  BY <1>3, <1>4, SendTypesOnLinks
<1>6. \A x \in Links : sends[x] = IF x = <<c, d>> THEN <<n>> ELSE On(k, <<m>>)[x]
  BY DEF On
<1>7. Exchange({<<d, c>>}, sends) /\ UNCHANGED <<commanded, ue, lastCell, setup>>
  BY DEF RecvHandoverRequestAck, decisionVars
<1> HIDE DEF h, k, m, n, sends
<1>8. ASSUME d = commanded, NEW x \in Links
      PROVE  /\ None(sends[x], Astray(x)) /\ Once(sends[x], Carriers)
             /\ x # k => None(sends[x], Carriers)
  <2>1. CASE x = <<c, d>>
    <3>1. None(<<n>>, Carriers) /\ Once(<<n>>, Carriers) /\ None(<<n>>, Astray(x))
      BY <1>4, Singles DEF Astray
    <3> QED BY <1>6, <2>1, <3>1
  <2>2. CASE x # <<c, d>>
    BY <1>3, <1>6, <1>8, <2>2, Onward
  <2> QED BY <2>1, <2>2
<1>9. /\ Waiting /\ ue.state = "CONNECTED_NORMALLY"
      /\ \A x \in Links : None(link'[x], Astray(x)')
      /\ k \notin Links => Free'
      /\ k \in Links => OnlyOn(k)'
  <2>1. /\ Destination(<<d, c>>, Head(link[<<d, c>>])) = d
        /\ Head(link[<<d, c>>]) \in Carriers /\ <<d, c>> \in Links /\ TypeOK
    BY <1>2, Ends DEF Typed, h
  <2>2. d = commanded =>
          \A x \in Links : /\ None(sends[x], Astray(x))
                           /\ Once(sends[x], Carriers)
                           /\ x # k => None(sends[x], Carriers)
    BY <1>8
  <2> QED BY <1>1, <1>5, <1>7, <2>1, <2>2, Carry
<1> QED BY <1>7, <1>9, Arrived DEF Waiting

\* A handler that consumes the message and sends no other one.
LEMMA Consume ==
    ASSUME TypeOK, OnItsWay, NEW l \in Links, NEW t, HeadIs(l, t),
           Head(link[l]) \in Carriers,
           NEW sends \in [Links -> Seq(Message)], Exchange({l}, sends),
           \A x \in Links : None(sends[x], Carriers), UNCHANGED commanded
    PROVE  /\ Waiting /\ ue.state = "CONNECTED_NORMALLY"
           /\ Destination(l, Head(link[l])) = commanded
           /\ \A x \in Links : None(link'[x], Astray(x)')
           /\ Free'
<1>1. \A x \in Links : /\ None(sends[x], Astray(x))
                       /\ Once(sends[x], Carriers)
                       /\ x # l => None(sends[x], Carriers)
  BY DEF Astray, None, Once
<1> QED BY <1>1, Carry

LEMMA NothingSent ==
    /\ Nothing \in [Links -> Seq(Message)]
    /\ \A x \in Links : None(Nothing[x], Carriers)
<1>1. \A x \in Links : Nothing[x] = << >>
  BY DEF Nothing
<1> QED BY <1>1, SendTypesOnLinks DEF None

LEMMA FailureCarries ==
    ASSUME Typed, OnItsWay, NEW c \in Cell, NEW d \in Cell \ {c},
           RecvHandoverPreparationFailure(d, c)
    PROVE  OnItsWay'
<1>1. HeadIs(<<d, c>>, "HandoverPreparationFailure") /\ Exchange({<<d, c>>}, Nothing)
  BY DEF RecvHandoverPreparationFailure
<1>2. Head(link[<<d, c>>]) \in Carriers
  BY <1>1, Heads, Ends, Kinds DEF Typed, OfType
<1>3. UNCHANGED <<commanded, ue, lastCell, setup>>
  BY DEF RecvHandoverPreparationFailure, decisionVars
<1> QED BY <1>1, <1>2, <1>3, Consume, NothingSent, Ends DEF Typed, OnItsWay, Waiting

LEMMA ArrivalCarries ==
    ASSUME Typed, OnItsWay, NEW c \in Cell, RecvReconfigurationCompleted(c)
    PROVE  OnItsWay'
<1> DEFINE h == Head(link[<<Ue, c>>])
           r == h.rnti
           m == SecondaryCellHandoverCompleted(r, context[c][r].sourceRnti)
           k == <<c, Lte>>
<1>1. HeadIs(<<Ue, c>>, "ReconfigurationCompleted") /\ HasContext(c, r)
  BY DEF RecvReconfigurationCompleted
<1>2. h \in Carriers /\ Destination(<<Ue, c>>, h) = c
  <2>1. h \in Message /\ h.type = "ReconfigurationCompleted"
    BY <1>1, Heads, Ends DEF Typed, OfType
  <2>2. Destination(<<Ue, c>>, h) = <<Ue, c>>[2] /\ h \in Carriers
    BY <2>1, Kinds
  <2> QED BY <2>2
<1>3. UNCHANGED <<commanded, ue, lastCell, setup>>
  BY DEF RecvReconfigurationCompleted, decisionVars
<1>4. CASE context[c][r].state = "HANDOVER_JOINING" /\ Exchange({<<Ue, c>>}, ArrivalReport(c, r))
  <2>1. r \in Rnti /\ context[c][r].sourceRnti \in Rnti
    <3>1. r \in Rnti /\ context[c][r] \in Context
      BY <1>1, ContextHere DEF Typed
    <3>2. context[c][r].sourceRnti \in 0 .. MaxRnti
      BY <3>1 DEF Context
    <3>3. context[c][r].sourceRnti # 0
      BY <1>4, <3>1 DEF Typed, RntisKnown
    <3> QED BY <3>1, <3>2, <3>3, NetworkAssumption DEF Rnti
  <2>2. m \in Message /\ m.type = "SecondaryCellHandoverCompleted"
    BY <2>1, Messages DEF OfType
  <2>3. Destination(k, m) = c
    <3>1. Destination(k, m) = k[1]
      BY <2>2, Kinds
    <3> QED BY <3>1
  <2>4. On(k, <<m>>) \in [Links -> Seq(Message)] /\ Exchange({<<Ue, c>>}, On(k, <<m>>))
    BY <1>4, <2>2, SendTypesOnLinks DEF ArrivalReport
  <2>5. /\ Destination(<<Ue, c>>, Head(link[<<Ue, c>>])) = c
        /\ Head(link[<<Ue, c>>]) \in Carriers /\ <<Ue, c>> \in Links /\ TypeOK
    BY <1>2, Ends DEF Typed
  <2> HIDE DEF m, k
  <2>6. c = commanded =>
          \A x \in Links : /\ None(On(k, <<m>>)[x], Astray(x))
                           /\ Once(On(k, <<m>>)[x], Carriers)
                           /\ x # k => None(On(k, <<m>>)[x], Carriers)
    BY <2>2, <2>3, Onward
  <2>7. /\ Waiting /\ ue.state = "CONNECTED_NORMALLY"
        /\ \A x \in Links : None(link'[x], Astray(x)')
        /\ k \notin Links => Free'
        /\ k \in Links => OnlyOn(k)'
    BY <1>1, <1>3, <2>4, <2>5, <2>6, Carry
  <2> QED BY <1>3, <2>7, Arrived DEF Waiting
<1>5. CASE Exchange({<<Ue, c>>}, Nothing)
  BY <1>1, <1>2, <1>3, <1>5, Consume, NothingSent, Ends DEF Typed, OnItsWay, Waiting
<1> QED BY <1>4, <1>5 DEF RecvReconfigurationCompleted

LEMMA CommandCarries ==
    ASSUME Typed, OnItsWay, NEW c \in Cell, UeRecvHandoverCommand(c)
    PROVE  OnItsWay'
<1> DEFINE h == Head(link[<<c, Ue>>])
<1>1. HeadIs(<<c, Ue>>, "HandoverCommand") /\ Exchange({<<c, Ue>>}, Nothing)
  BY DEF UeRecvHandoverCommand
<1>2. h \in Carriers /\ Destination(<<c, Ue>>, h) = h.target
  <2>1. h \in Message /\ h.type = "HandoverCommand"
    BY <1>1, Heads, Ends DEF Typed, OfType
  <2> QED BY <2>1, Kinds
<1>3. UNCHANGED <<commanded, lastCell, setup>>
  BY DEF UeRecvHandoverCommand, decisionVars
<1>4. ue'.cell = h.target
  BY DEF UeRecvHandoverCommand, Typed, TypeOK
<1>5. /\ Waiting /\ h.target = commanded
      /\ \A x \in Links : None(link'[x], Astray(x)')
      /\ Free'
  BY <1>1, <1>2, <1>3, Consume, NothingSent, Ends DEF Typed
<1> QED BY <1>3, <1>4, <1>5 DEF OnItsWay, Waiting

\* The report comes from the commanded cell, and ends the handover.
LEMMA CompleteCarries ==
    ASSUME Typed, OnItsWay, NEW c \in Cell, CompleteHandover(c)
    PROVE  OnItsWay' /\ Waiting /\ c = commanded
<1> DEFINE h == Head(link[<<c, Lte>>])
           m == UeContextRelease(h.old)
           k == <<Lte, OldMmWaveCell(c)>>
<1>1. HeadIs(<<c, Lte>>, "SecondaryCellHandoverCompleted") /\ Exchange({<<c, Lte>>}, On(k, <<m>>))
  BY DEF CompleteHandover
<1>2. h \in Message /\ h.type = "SecondaryCellHandoverCompleted" /\ h.old \in Rnti
  BY <1>1, Heads, Ends, Fields DEF Typed, OfType
<1>3. h \in Carriers /\ Destination(<<c, Lte>>, h) = c
  <2>1. h \in Carriers /\ Destination(<<c, Lte>>, h) = <<c, Lte>>[1]
    BY <1>2, Kinds
  <2> QED BY <2>1
<1>4. m \in Message /\ m \notin Carriers
  BY <1>2, Messages, Kinds DEF OfType
<1>5. /\ On(k, <<m>>) \in [Links -> Seq(Message)]
      /\ \A x \in Links : None(On(k, <<m>>)[x], Carriers)
  BY <1>4, SendTypesOnLinks, Placed
<1>6. UNCHANGED <<commanded, ue>>
  BY DEF CompleteHandover
<1>7. /\ Waiting /\ c = commanded /\ ue.state = "CONNECTED_NORMALLY"
      /\ \A x \in Links : None(link'[x], Astray(x)')
      /\ Free'
  BY <1>1, <1>3, <1>5, <1>6, Consume, Ends DEF Typed
<1> QED BY <1>6, <1>7 DEF OnItsWay

LEMMA AccessCarries ==
    ASSUME Typed, OnItsWay, UeRandomAccessSuccessful
    PROVE  OnItsWay'
<1> DEFINE m == ReconfigurationCompleted(ue.rnti)
<1>1. PICK k : k = <<Ue, ue.cell>>
  OBVIOUS
<1>2. Free /\ Waiting /\ ue.cell = commanded
  BY DEF UeRandomAccessSuccessful, OnItsWay
<1>3. m \in Message /\ m.type = "ReconfigurationCompleted"
  BY Messages DEF UeRandomAccessSuccessful, HasContext, OfType
<1>4. Destination(k, m) = commanded
  <2>1. Destination(k, m) = k[2]
    BY <1>3, Kinds
  <2> QED BY <1>1, <1>2, <2>1
<1>5. Exchange({}, On(k, <<m>>)) /\ On(k, <<m>>) \in [Links -> Seq(Message)]
  BY <1>1, <1>3, SendTypesOnLinks DEF UeRandomAccessSuccessful
<1>6. UNCHANGED <<commanded, lastCell, setup>> /\ ue'.state = "CONNECTED_NORMALLY"
  BY DEF UeRandomAccessSuccessful, decisionVars, Typed, TypeOK
<1>7. \A x \in Links : Astray(x)' = Astray(x)
  BY <1>6 DEF Astray, Carriers, Destination
<1> HIDE DEF m
<1>8. \A x \in Links : /\ None(On(k, <<m>>)[x], Astray(x)')
                       /\ Once(On(k, <<m>>)[x], Carriers)
                       /\ x # k => None(On(k, <<m>>)[x], Carriers)
  BY <1>3, <1>4, <1>7, Onward
<1>9. CASE k \in Links
  BY <1>2, <1>5, <1>6, <1>8, <1>9, SetOut DEF Waiting, Typed
<1>10. CASE k \notin Links
  <2>1. \A x \in Links : None(link'[x], Carriers)
    <3>1. \A x \in Links : None(link[x], Carriers) /\ None(On(k, <<m>>)[x], Carriers)
      BY <1>2, <1>8, <1>10 DEF Free
    <3>2. TypeOK /\ \A l \in {} \cap Links : link[l] # << >>
      BY DEF Typed
    <3> DEFINE sends == On(k, <<m>>)
    <3> HIDE DEF sends
    <3>3. /\ sends \in [Links -> Seq(Message)] /\ Exchange({}, sends)
          /\ \A x \in Links : None(link[x], Carriers) /\ None(sends[x], Carriers)
      BY <1>5, <3>1 DEF sends
    <3> QED BY <3>2, <3>3, Exchanged
  <2>2. \A x \in Links : None(link'[x], Astray(x)')
    BY <2>1 DEF None, Astray, Carriers
  <2> QED BY <1>6, <2>1, <2>2 DEF OnItsWay, Free
<1> QED BY <1>9, <1>10

\* No command but a request for a handover becomes such a message.
LEMMA SwitchesAreNoCarriers ==
    ASSUME Typed, NEW m \in Command, m.type # "McHandoverRequest", NEW x \in Links
    PROVE  None(MessagesOf(m)[x], Carriers)
<1>1. CASE m.type = "ConnectionSwitch" /\ coordinator.cell # 0
  <2> DEFINE a == RrcConnectionSwitch(m.useMmWave)
             b == ConnectionSwitchMsg(coordinator.rnti)
  <2>1. coordinator.rnti \in Rnti /\ m.useMmWave \in BOOLEAN
    BY <1>1, Commands DEF Typed, TypeOK, RntisKnown, Rnti
  <2>2. a \in Message /\ b \in Message /\ a \notin Carriers /\ b \notin Carriers
    BY <2>1, Messages, Kinds DEF OfType
  <2>3. MessagesOf(m)[x] \in {On(<<Lte, Ue>>, <<a>>)[x], << >>, <<b>>}
    BY <1>1, Transmissions DEF On
  <2> HIDE DEF a, b
  <2>4. None(On(<<Lte, Ue>>, <<a>>)[x], Carriers)
    BY <2>2, Placed
  <2>5. None(<< >>, Carriers) /\ None(<<b>>, Carriers)
    BY <2>2, Singles, Empties
  <2> QED BY <2>3, <2>4, <2>5
<1>2. CASE ~(m.type = "ConnectionSwitch" /\ coordinator.cell # 0)
  <2>1. MessagesOf(m) = Nothing
    BY <1>2, Transmissions
  <2> QED BY <2>1, NothingSent
<1> QED BY <1>1, <1>2

LEMMA DecideCarries ==
    ASSUME Typed, OnItsWay, Decision!IInv, Decide
    PROVE  OnItsWay'
<1>1. sent' \in Command
  <2>1. DecisionTypeOK'
    BY TriggerType, HandoverStepTypes DEF Typed, TypeOK, Decide
  <2> QED BY <2>1 DEF DecisionTypeOK
<1>2. /\ Exchange({}, MessagesOf(sent')) /\ MessagesOf(sent') \in [Links -> Seq(Message)]
      /\ UNCHANGED <<lastCell, ue>>
  BY <1>1, Starts, Transmissions DEF Decide, Transmit
<1>3. CASE sent'.type # "McHandoverRequest"
  <2>1. UNCHANGED <<commanded, setup>>
    BY <1>3, Starts DEF Decide, Transmit
  <2> DEFINE sends == MessagesOf(sent')
  <2>2. \A x \in Links : None(sends[x], Carriers)
    BY <1>1, <1>3, SwitchesAreNoCarriers
  <2>3. TypeOK /\ \A l \in {} \cap Links : link[l] # << >>
    BY DEF Typed
  <2>4. Exchange({}, sends) /\ sends \in [Links -> Seq(Message)]
    BY <1>2
  <2> HIDE DEF sends
  <2> QED BY <1>2, <2>1, <2>2, <2>3, <2>4, Bystander DEF Waiting
<1>4. CASE sent'.type = "McHandoverRequest"
  <2>1. PICK d \in Cell, k \in Links : d = sent'.to /\ k = <<Lte, lastCell>>
    <3>1. sent'.to \in Cell
      BY <1>1, <1>4, Commands
    <3>2. <<Lte, lastCell>> \in Links
      BY <1>4, Starts, Ends DEF Decide, Typed, TypeOK, DecisionTypeOK
    <3> QED BY <3>1, <3>2
  <2> DEFINE m == McHandoverRequestMsg(d)
             sends == On(k, <<m>>)
  <2>2. m \in Message /\ m \in Carriers /\ Destination(k, m) = d /\ m.type = "McHandoverRequest"
    <3>1. m \in Message /\ m.type = "McHandoverRequest" /\ m.target = d
      BY Messages DEF OfType, McHandoverRequestMsg
    <3> QED BY <3>1, Kinds
  <2>3. commanded' = d /\ Waiting' /\ ~Waiting
    BY <1>2, <1>4, <2>1, Starts DEF Decide, Transmit, Waiting
  <2>4. Free /\ ue'.state = "CONNECTED_NORMALLY"
    BY <1>2, <2>3 DEF OnItsWay, Typed, TypeOK
  <2>5. MessagesOf(sent') = sends
    BY <1>1, <1>4, <2>1, Starts, Transmissions DEF Decide
  <2>6. Exchange({}, sends) /\ sends \in [Links -> Seq(Message)]
    BY <1>2, <2>5
  <2>7. m \notin Astray(k)'
    BY <2>2, <2>3 DEF Astray, Destination
  <2> HIDE DEF m
  <2>8. \A x \in Links : /\ None(sends[x], Astray(x)')
                         /\ Once(sends[x], Carriers)
                         /\ x # k => None(sends[x], Carriers)
    BY <2>2, <2>7, Placed
  <2> HIDE DEF sends
  <2> QED BY <2>3, <2>4, <2>6, <2>8, SetOut DEF Typed
<1> QED BY <1>3, <1>4

LEMMA ConnectCarries ==
    ASSUME Typed, OnItsWay, Decision!IInv, NEW c \in Cell, Connect(c)
    PROVE  OnItsWay'
<1>1. lastCell = 0
  BY WaitingFacts DEF Connect, McSetupCompleted
<1>2. Free
  BY <1>1 DEF OnItsWay, Waiting
<1>3. UNCHANGED <<link, commanded>> /\ ue'.state = "CONNECTED_NORMALLY"
  BY DEF Connect
<1> QED BY <1>2, <1>3 DEF OnItsWay, Free, Astray, Carriers, Destination

LEMMA LocalCarries ==
    ASSUME Typed, OnItsWay, Decision!IInv, Local \/ UNCHANGED vars
    PROVE  OnItsWay'
<1>1. UNCHANGED <<link, commanded, ue, lastCell>>
  BY DEF Local, vars, decisionVars, DoRecvUeSinrUpdate, maps, RecvRrcConnectionRequest,
         RecvRrcConnectionSetupCompleted, Tick
<1>2. Waiting => Waiting'
  BY <1>1, WaitingFacts
  DEF Waiting, Local, vars, decisionVars, DoRecvUeSinrUpdate, maps, RecvRrcConnectionRequest,
      RecvRrcConnectionSetupCompleted, Tick
<1> QED BY <1>1, <1>2 DEF OnItsWay, Free, OnlyOn, Astray, Carriers, Destination

\* The messages that have no part in the handover itself.
LEMMA OthersCarry ==
    ASSUME Typed, OnItsWay, NEW l \in Links,
           link[l] # << >>, Exchange({l}, Nothing),
           UNCHANGED <<decisionVars, commanded, ue.state, ue.cell>>
    PROVE  OnItsWay'
<1>1. Waiting => Waiting'
  BY DEF Waiting, decisionVars
<1> QED BY <1>1, Bystander, NothingSent DEF Typed

LEMMA SideMessagesCarry ==
    ASSUME Typed, OnItsWay,
           \/ \E c \in Cell : \/ RecvNotifyCoordinatorHandoverFailed(c)
                              \/ RecvUeContextRelease(c)
                              \/ RecvConnectionSwitchToMmWave(c)
                              \/ \E d \in Cell \ {c} : RecvSnStatusTransfer(d, c)
           \/ UeRecvRrcConnectionSwitch
    PROVE  OnItsWay'
<1>1. ASSUME NEW c \in Cell, RecvNotifyCoordinatorHandoverFailed(c) PROVE OnItsWay'
  BY <1>1, OthersCarry, Ends DEF RecvNotifyCoordinatorHandoverFailed, HeadIs
<1>2. ASSUME NEW c \in Cell, RecvUeContextRelease(c) PROVE OnItsWay'
  BY <1>2, OthersCarry, Ends DEF RecvUeContextRelease, HeadIs
<1>3. ASSUME NEW c \in Cell, RecvConnectionSwitchToMmWave(c) PROVE OnItsWay'
  BY <1>3, OthersCarry, Ends DEF RecvConnectionSwitchToMmWave, HeadIs
<1>4. ASSUME NEW c \in Cell, NEW d \in Cell \ {c}, RecvSnStatusTransfer(d, c) PROVE OnItsWay'
  BY <1>4, OthersCarry, Ends DEF RecvSnStatusTransfer, HeadIs
<1>5. CASE UeRecvRrcConnectionSwitch
  <2>1. UNCHANGED <<ue.state, ue.cell>>
    BY <1>5 DEF UeRecvRrcConnectionSwitch, Typed, TypeOK
  <2> QED BY <1>5, <2>1, OthersCarry, Ends DEF UeRecvRrcConnectionSwitch, HeadIs
<1> QED BY <1>1, <1>2, <1>3, <1>4, <1>5

LEMMA TimeoutCarries ==
    ASSUME Typed, OnItsWay, Timeout
    PROVE  OnItsWay'
<1>1. PICK c \in Cell, r \in Rnti :
         \/ HandoverJoiningTimeout(c, r)
         \/ HandoverLeavingTimeout(c, r)
         \/ RemoveUeAfterJoiningTimeout(c, r)
  BY DEF Timeout
<1>2. UNCHANGED <<lastCell, setup, commanded, ue>>
  BY <1>1 DEF HandoverJoiningTimeout, HandoverLeavingTimeout, RemoveUeAfterJoiningTimeout,
              decisionVars
<1>3. CASE HandoverJoiningTimeout(c, r)
  <2> DEFINE m == NotifyCoordinatorHandoverFailed
             sends == On(<<c, Lte>>, <<m>>)
  <2>1. m \in Message /\ m \notin Carriers
    BY Messages, Kinds DEF OfType
  <2>2. /\ sends \in [Links -> Seq(Message)] /\ Exchange({}, sends)
        /\ \A x \in Links : None(sends[x], Carriers)
    BY <1>3, <2>1, SendTypesOnLinks, Placed DEF HandoverJoiningTimeout
  <2>3. TypeOK /\ \A l \in {} \cap Links : link[l] # << >>
    BY DEF Typed
  <2> HIDE DEF sends
  <2> QED BY <1>2, <2>2, <2>3, Bystander DEF Waiting
<1>4. CASE LoseRadio(c)
  <2>1. \A x \in Links : link'[x] \in {link[x], << >>}
    BY <1>4 DEF LoseRadio, Typed, TypeOK
  <2>2. \A x \in Links : \A S : None(link[x], S) => None(link'[x], S)
    BY <2>1 DEF None
  <2>3. \A x \in Links : \A S : Once(link[x], S) => Once(link'[x], S)
    BY <2>1 DEF Once
  <2>4. \A x \in Links : Astray(x)' = Astray(x)
    BY <1>2 DEF Astray, Carriers, Destination
  <2> QED BY <1>2, <2>2, <2>3, <2>4 DEF OnItsWay, Free, OnlyOn, Waiting
<1> QED BY <1>1, <1>3, <1>4 DEF HandoverLeavingTimeout, RemoveUeAfterJoiningTimeout
-----------------------------------------------------------------------------
(***************************************************************************)
(* Every step is a step of AbstractHandover, or none.                      *)
(***************************************************************************)
LEMMA OutstandingIs ==
    /\ Waiting => Outstanding = <<[from |-> lastCell, to |-> commanded]>>
    /\ ~Waiting => Outstanding = << >>
    /\ Waiting' => Outstanding' = <<[from |-> lastCell', to |-> commanded']>>
    /\ ~Waiting' => Outstanding' = << >>
  BY DEF Outstanding, Waiting

LEMMA LocalSimulates ==
    ASSUME Decision!IInv, Local
    PROVE  Decision!Next
<1>1. UNCHANGED <<lastCell, commanded>>
  BY DEF Local, decisionVars, DoRecvUeSinrUpdate, maps, RecvRrcConnectionRequest,
         RecvRrcConnectionSetupCompleted, Tick
<1>2. Waiting' <=> Waiting
  BY <1>1, WaitingFacts
  DEF Waiting, Local, DoRecvUeSinrUpdate, maps, RecvRrcConnectionRequest,
      RecvRrcConnectionSetupCompleted, Tick
<1>3. UNCHANGED Outstanding
  BY <1>1, <1>2, OutstandingIs
<1> QED BY <1>3, SameSteps DEF Local, Decision!Next

LEMMA DecideSimulates ==
    ASSUME Typed, Decision!IInv, Decide
    PROVE  Decision!Next
<1>1. Decision!TakeUp
  <2>1. CASE sent'.type # "McHandoverRequest"
    <3>1. UNCHANGED <<lastCell, setup, commanded>>
      BY <2>1, Starts DEF Decide, Transmit
    <3>2. UNCHANGED Outstanding
      BY <3>1, OutstandingIs DEF Waiting
    <3> QED BY <2>1, <3>2 DEF Decision!TakeUp
  <2>2. CASE sent'.type = "McHandoverRequest"
    <3>1. /\ lastCell' = sent'.from /\ commanded' = sent'.to
          /\ ~Waiting /\ Waiting'
      BY <2>2, Starts DEF Decide, Transmit, Waiting
    <3>2. Outstanding' = Append(Outstanding, [from |-> sent'.from, to |-> sent'.to])
      BY <3>1, OutstandingIs
    <3> QED BY <2>2, <3>2 DEF Decision!TakeUp
  <2> QED BY <2>1, <2>2
<1> QED BY <1>1, SameSteps DEF Decide, Decision!Next

LEMMA ConnectSimulates ==
    ASSUME Decision!IInv, NEW c \in Cell, Connect(c)
    PROVE  Decision!Next
<1>1. ~Waiting /\ ~Waiting'
  BY WaitingFacts DEF Connect, McSetupCompleted, Waiting
<1>2. UNCHANGED Outstanding
  BY <1>1, OutstandingIs
<1> QED BY <1>2, SameSteps DEF Connect, Decision!Next

LEMMA CompleteSimulates ==
    ASSUME Typed, OnItsWay, Decision!IInv, NEW c \in Cell, CompleteHandover(c)
    PROVE  Decision!Next
<1>1. Waiting /\ c = commanded /\ lastCell # c
  BY CompleteCarries, WaitingFacts
<1>2. ~Waiting'
  BY <1>1 DEF CompleteHandover, RecvSecondaryCellHandoverCompleted, Waiting
<1>3. /\ Outstanding # << >> /\ Head(Outstanding).to = c /\ Outstanding' = Tail(Outstanding)
  <2>1. \A h : <<h>> # << >> /\ Head(<<h>>) = h /\ Tail(<<h>>) = << >>
    OBVIOUS
  <2>2. Outstanding = <<[from |-> lastCell, to |-> commanded]>> /\ Outstanding' = << >>
    BY <1>1, <1>2, OutstandingIs
  <2>3. Head(Outstanding) = [from |-> lastCell, to |-> commanded]
    BY <2>1, <2>2
  <2> QED BY <1>1, <2>1, <2>2, <2>3
<1> QED BY <1>3, SameSteps DEF CompleteHandover, Decision!HandoverCompleted, Decision!Next

LEMMA OthersSimulate ==
    ASSUME UNCHANGED <<decisionVars, commanded>>
    PROVE  UNCHANGED Decision!vars
<1>1. UNCHANGED <<lastCell, setup, commanded>>
  BY DEF decisionVars
<1>2. UNCHANGED Outstanding
  BY <1>1, OutstandingIs DEF Waiting
<1> QED BY <1>2 DEF decisionVars, Decision!vars, Decision!decisionVars

LEMMA StepSimulates ==
    ASSUME Typed, OnItsWay, Decision!IInv, [Next]_vars
    PROVE  [Decision!Next]_(Decision!vars)
<1>1. CASE Local \/ Decide
  BY <1>1, LocalSimulates, DecideSimulates
<1>2. ASSUME NEW c \in Cell, Connect(c) \/ CompleteHandover(c) PROVE Decision!Next
  BY <1>2, ConnectSimulates, CompleteSimulates
<1>3. ASSUME NEW c \in Cell,
             \/ RecvMcHandoverRequest(c) \/ RecvReconfigurationCompleted(c)
             \/ RecvUeContextRelease(c) \/ RecvConnectionSwitchToMmWave(c)
             \/ UeRecvHandoverCommand(c) \/ RecvNotifyCoordinatorHandoverFailed(c)
             \/ \E d \in Cell \ {c} :
                   \/ RecvHandoverRequest(d, c) \/ RecvHandoverRequestAck(d, c)
                   \/ RecvHandoverPreparationFailure(d, c) \/ RecvSnStatusTransfer(d, c)
      PROVE  UNCHANGED Decision!vars
  <2>1. UNCHANGED <<decisionVars, commanded>>
    BY <1>3 DEF RecvMcHandoverRequest, RecvReconfigurationCompleted, RecvUeContextRelease,
                RecvConnectionSwitchToMmWave, UeRecvHandoverCommand,
                RecvNotifyCoordinatorHandoverFailed, RecvHandoverRequest,
                RecvHandoverRequestAck, RecvHandoverPreparationFailure, RecvSnStatusTransfer
  <2> QED BY <2>1, OthersSimulate
<1>4. CASE Timeout
  <2>1. UNCHANGED <<decisionVars, commanded>>
    BY <1>4 DEF Timeout, HandoverJoiningTimeout, HandoverLeavingTimeout,
                RemoveUeAfterJoiningTimeout
  <2> QED BY <2>1, OthersSimulate
<1>5. CASE UeRandomAccessSuccessful \/ UeRecvRrcConnectionSwitch \/ UNCHANGED vars
  <2>1. UNCHANGED <<decisionVars, commanded>>
    BY <1>5 DEF UeRandomAccessSuccessful, UeRecvRrcConnectionSwitch, vars
  <2> QED BY <2>1, OthersSimulate
<1> QED BY <1>1, <1>2, <1>3, <1>4, <1>5 DEF Next, CellNext

LEMMA StepOnItsWay ==
    ASSUME Typed, OnItsWay, Decision!IInv, [Next]_vars
    PROVE  OnItsWay'
  BY LocalCarries, DecideCarries, ConnectCarries, CompleteCarries, McRequestCarries,
     HandoverRequestCarries, AckCarries, FailureCarries, ArrivalCarries, CommandCarries,
     AccessCarries, SideMessagesCarry, TimeoutCarries
  DEF Next, CellNext

Inv == Typed /\ OnItsWay /\ Decision!IInv

LEMMA InvInit == Init => Inv /\ Decision!Init
<1>1. Init => Decision!Init
  BY SameSteps DEF Init, Decision!Init, DecisionInit, Outstanding
<1> QED BY <1>1, InitTyped, InitOnItsWay, DecisionInvariant DEF Inv

LEMMA InvStep == Inv /\ [Next]_vars => Inv' /\ [Decision!Next]_(Decision!vars)
  BY StepTyped, StepOnItsWay, StepSimulates, DecisionInvariant DEF Inv

\* The X2 and RRC procedures implement AbstractHandover, with any cells that
\* reject and with or without timeouts: every commanded handover is completed
\* at most once, by the cell it was commanded to and after it was commanded,
\* and the coordinator commands the next one only then.
THEOREM HandoverRefines == Spec => ImplementsAbstractHandover
<1>1. Spec => Decision!Spec
  BY InvInit, InvStep, PTL DEF Spec, Decision!Spec
<1> QED BY <1>1, SameSpec DEF ImplementsAbstractHandover
-----------------------------------------------------------------------------
(***************************************************************************)
(* The switches to the UE.                                                 *)
(***************************************************************************)

\* What the UE will use when all switches have reached it.
PathOfUe ==
    LET s == link[<<Lte, Ue>>] IN IF s = << >> THEN ue.useMmWave ELSE s[Len(s)].useMmWave

SwitchInv ==
    /\ lastCell # 0 => coordinator.cell # 0
    /\ usingLte /\ lastCell # 0 => ~PathOfUe

\* The link from the coordinator to the UE, after a handler for others.
LEMMA ToUeUntouched ==
    ASSUME Typed, NEW consumed, NEW sends, Exchange(consumed, sends),
           <<Lte, Ue>> \notin consumed, sends[<<Lte, Ue>>] = << >>
    PROVE  link'[<<Lte, Ue>>] = link[<<Lte, Ue>>]
<1>1. link'[<<Lte, Ue>>] = link[<<Lte, Ue>>] \o << >>
  BY Ends DEF Exchange
<1>2. link[<<Lte, Ue>>] \in Seq(Message)
  BY Ends DEF Typed, TypeOK
<1>3. \A s \in Seq(Message) : s \o << >> = s
  OBVIOUS
<1> QED BY <1>1, <1>2, <1>3

LEMMA NoneToUe ==
    /\ Nothing[<<Lte, Ue>>] = << >>
    /\ \A c, d, ms, ns : /\ d # Ue => On(<<c, d>>, ms)[<<Lte, Ue>>] = << >>
                         /\ c # Lte => On(<<c, d>>, ms)[<<Lte, Ue>>] = << >>
    /\ \A f, c, d, ms : c # Lte \/ d # Ue =>
            [f EXCEPT ![<<c, d>>] = ms][<<Lte, Ue>>] = f[<<Lte, Ue>>]
  BY Ends DEF Nothing, On

LEMMA CellsAreOthers == \A c \in Cell : c # Lte /\ c # Ue
  BY CellAssumption DEF Lte, Ue

\* Every step but those of the decision and of the UE's switch.
LEMMA OthersSwitchNothing ==
    ASSUME Inv, SwitchInv,
           \/ \E c \in Cell : CellNext(c)
           \/ UeRandomAccessSuccessful
           \/ Timeout
    PROVE  SwitchInv'
<1>1. ASSUME link'[<<Lte, Ue>>] = link[<<Lte, Ue>>],
             UNCHANGED <<decisionVars, coordinator, ue.useMmWave>>
      PROVE  SwitchInv'
  BY <1>1 DEF SwitchInv, PathOfUe, decisionVars
<1>2. ASSUME NEW c \in Cell, Connect(c) PROVE SwitchInv'
  BY <1>2, CellAssumption DEF Connect, McSetupCompleted, SwitchInv
<1>3. ASSUME NEW c \in Cell, CompleteHandover(c) PROVE SwitchInv'
  <2>1. lastCell # c
    BY <1>3, CompleteCarries, WaitingFacts DEF Inv
  <2> QED
    BY <1>3, <2>1, CellAssumption DEF CompleteHandover, RecvSecondaryCellHandoverCompleted, SwitchInv
<1>4. ASSUME NEW c \in Cell,
             \/ RecvMcHandoverRequest(c) \/ RecvReconfigurationCompleted(c)
             \/ RecvUeContextRelease(c) \/ RecvConnectionSwitchToMmWave(c)
             \/ RecvNotifyCoordinatorHandoverFailed(c) \/ UeRecvHandoverCommand(c)
      PROVE  SwitchInv'
  <2>1. UNCHANGED <<decisionVars, coordinator, ue.useMmWave>>
    BY <1>4
    DEF RecvMcHandoverRequest, RecvReconfigurationCompleted, RecvUeContextRelease,
        RecvConnectionSwitchToMmWave, UeRecvHandoverCommand,
        RecvNotifyCoordinatorHandoverFailed, Inv, Typed, TypeOK
  <2>2. \E l \in {<<Lte, c>>, <<Ue, c>>, <<c, Lte>>, <<c, Ue>>} : \E sends :
           Exchange({l}, sends) /\ sends[<<Lte, Ue>>] = << >>
    <3>1. CASE RecvMcHandoverRequest(c)
      <4>1. PICK d, ms : Exchange({<<Lte, c>>}, On(<<c, d>>, ms))
        BY <3>1 DEF RecvMcHandoverRequest
      <4> QED BY <4>1, NoneToUe, CellsAreOthers
    <3>2. CASE RecvReconfigurationCompleted(c)
      <4>1. \/ Exchange({<<Ue, c>>}, Nothing)
            \/ \E ms : Exchange({<<Ue, c>>}, On(<<c, Lte>>, ms))
        BY <3>2 DEF RecvReconfigurationCompleted, ArrivalReport
      <4>2. CASE Exchange({<<Ue, c>>}, Nothing)
        BY <4>2, NoneToUe
      <4>3. ASSUME NEW ms, Exchange({<<Ue, c>>}, On(<<c, Lte>>, ms))
            PROVE  \E l \in {<<Lte, c>>, <<Ue, c>>, <<c, Lte>>, <<c, Ue>>} : \E sends :
                      Exchange({l}, sends) /\ sends[<<Lte, Ue>>] = << >>
        BY <4>3, NoneToUe, CellsAreOthers
      <4> QED BY <4>1, <4>2, <4>3
    <3>3. CASE RecvUeContextRelease(c) \/ RecvConnectionSwitchToMmWave(c)
      <4>1. Exchange({<<Lte, c>>}, Nothing)
        BY <3>3 DEF RecvUeContextRelease, RecvConnectionSwitchToMmWave
      <4> QED BY <4>1, NoneToUe
    <3>4. CASE RecvNotifyCoordinatorHandoverFailed(c)
      <4>1. Exchange({<<c, Lte>>}, Nothing)
        BY <3>4 DEF RecvNotifyCoordinatorHandoverFailed
      <4> QED BY <4>1, NoneToUe
    <3>5. CASE UeRecvHandoverCommand(c)
      <4>1. Exchange({<<c, Ue>>}, Nothing)
        BY <3>5 DEF UeRecvHandoverCommand
      <4> QED BY <4>1, NoneToUe
    <3> QED BY <1>4, <3>1, <3>2, <3>3, <3>4, <3>5
  <2>3. link'[<<Lte, Ue>>] = link[<<Lte, Ue>>]
    <3>1. PICK l \in {<<Lte, c>>, <<Ue, c>>, <<c, Lte>>, <<c, Ue>>} : \E sends :
             Exchange({l}, sends) /\ sends[<<Lte, Ue>>] = << >>
      BY <2>2
    <3>2. PICK sends : Exchange({l}, sends) /\ sends[<<Lte, Ue>>] = << >>
      BY <3>1
    <3>3. <<Lte, Ue>> \notin {l}
      BY CellsAreOthers
    <3> QED BY <3>2, <3>3, ToUeUntouched DEF Inv
  <2> QED BY <1>1, <2>1, <2>3
<1>5. ASSUME NEW c \in Cell, NEW d \in Cell \ {c},
             \/ RecvHandoverRequest(d, c) \/ RecvHandoverRequestAck(d, c)
             \/ RecvHandoverPreparationFailure(d, c) \/ RecvSnStatusTransfer(d, c)
      PROVE  SwitchInv'
  <2>1. UNCHANGED <<decisionVars, coordinator, ue>>
    BY <1>5
    DEF RecvHandoverRequest, RecvHandoverRequestAck, RecvHandoverPreparationFailure,
        RecvSnStatusTransfer
  <2>2. PICK sends : Exchange({<<d, c>>}, sends) /\ sends[<<Lte, Ue>>] = << >>
    <3>1. CASE RecvHandoverRequest(d, c)
      <4>1. \E ms : Exchange({<<d, c>>}, On(<<c, d>>, ms))
        BY <3>1 DEF RecvHandoverRequest
      <4> QED BY <4>1, NoneToUe, CellsAreOthers
    <3>2. CASE RecvHandoverRequestAck(d, c)
      <4>1. PICK ms, ns : Exchange({<<d, c>>}, [On(<<c, Ue>>, ms) EXCEPT ![<<c, d>>] = ns])
        BY <3>2 DEF RecvHandoverRequestAck
      <4> DEFINE sends == [On(<<c, Ue>>, ms) EXCEPT ![<<c, d>>] = ns]
      <4>2. sends[<<Lte, Ue>>] = << >>
        <5>1. On(<<c, Ue>>, ms)[<<Lte, Ue>>] = << >>
          BY NoneToUe, CellsAreOthers
        <5> QED BY <5>1, NoneToUe, CellsAreOthers
      <4>3. Exchange({<<d, c>>}, sends)
        BY <4>1
      <4> HIDE DEF sends
      <4> QED BY <4>2, <4>3
    <3>3. CASE RecvHandoverPreparationFailure(d, c) \/ RecvSnStatusTransfer(d, c)
      <4>1. Exchange({<<d, c>>}, Nothing)
        BY <3>3 DEF RecvHandoverPreparationFailure, RecvSnStatusTransfer
      <4> QED BY <4>1, NoneToUe
    <3> QED BY <1>5, <3>1, <3>2, <3>3
  <2>3. link'[<<Lte, Ue>>] = link[<<Lte, Ue>>]
    BY <2>2, ToUeUntouched, CellsAreOthers DEF Inv
  <2> QED BY <1>1, <2>1, <2>3
<1>6. CASE UeRandomAccessSuccessful
  <2>1. UNCHANGED <<decisionVars, coordinator, ue.useMmWave>>
    BY <1>6 DEF UeRandomAccessSuccessful, Inv, Typed, TypeOK
  <2>2. PICK sends : Exchange({}, sends) /\ sends[<<Lte, Ue>>] = << >>
    BY <1>6, NoneToUe DEF UeRandomAccessSuccessful, Lte, Ue
  <2>3. link'[<<Lte, Ue>>] = link[<<Lte, Ue>>]
    BY <2>2, ToUeUntouched DEF Inv
  <2> QED BY <1>1, <2>1, <2>3
<1>7. CASE Timeout
  <2>1. UNCHANGED <<decisionVars, coordinator, ue>>
    BY <1>7 DEF Timeout, HandoverJoiningTimeout, HandoverLeavingTimeout,
                RemoveUeAfterJoiningTimeout
  <2>2. PICK c \in Cell : \/ Exchange({}, On(<<c, Lte>>, <<NotifyCoordinatorHandoverFailed>>))
                          \/ LoseRadio(c)
    BY <1>7 DEF Timeout, HandoverJoiningTimeout, HandoverLeavingTimeout,
                RemoveUeAfterJoiningTimeout
  <2>3. link'[<<Lte, Ue>>] = link[<<Lte, Ue>>]
    <3>1. CASE Exchange({}, On(<<c, Lte>>, <<NotifyCoordinatorHandoverFailed>>))
      BY <3>1, ToUeUntouched, NoneToUe, CellsAreOthers DEF Inv
    <3>2. CASE LoseRadio(c)
      BY <3>2, CellsAreOthers, Ends DEF LoseRadio, Inv, Typed, TypeOK
    <3> QED BY <2>2, <3>1, <3>2
  <2> QED BY <1>1, <2>1, <2>3
<1> QED BY <1>2, <1>3, <1>4, <1>5, <1>6, <1>7 DEF CellNext

\* The last switch that is on its way to the UE stays the last one, or arrives.
LEMMA SwitchArrives ==
    ASSUME Inv, SwitchInv, UeRecvRrcConnectionSwitch
    PROVE  SwitchInv'
<1> DEFINE s == link[<<Lte, Ue>>]
<1>1. s \in Seq(Message) /\ s # << >>
  BY Heads, Ends DEF UeRecvRrcConnectionSwitch, Inv, Typed
<1>2. link'[<<Lte, Ue>>] = Tail(s)
  <2>1. link'[<<Lte, Ue>>] = Tail(s) \o << >>
    BY Ends DEF UeRecvRrcConnectionSwitch, Exchange, Nothing
  <2>2. Tail(s) \in Seq(Message) /\ \A t \in Seq(Message) : t \o << >> = t
    BY <1>1
  <2> QED BY <2>1, <2>2
<1>3. ue'.useMmWave = Head(s).useMmWave
  BY DEF UeRecvRrcConnectionSwitch, Inv, Typed, TypeOK
<1>4. /\ Tail(s) = << >> => Head(s) = s[Len(s)]
      /\ Tail(s) # << >> => Tail(s)[Len(Tail(s))] = s[Len(s)]
  BY <1>1, LastOfTail
<1>5. PathOfUe' = PathOfUe
  BY <1>1, <1>2, <1>3, <1>4 DEF PathOfUe
<1> QED BY <1>5 DEF SwitchInv, UeRecvRrcConnectionSwitch, decisionVars

\* With the UE on LTE after a step of the decision, it was there before and the
\* step sends no switch, or the step sends the switch.
LEMMA SwitchesSent ==
    ASSUME Decision!IInv, TriggerUeAssociationUpdate \/ PerformHandover,
           usingLte \in BOOLEAN, usingLte'
    PROVE  \/ usingLte /\ sent'.type # "ConnectionSwitch"
           \/ sent' = ConnectionSwitch(FALSE)
<1>1. CASE TriggerUeAssociationUpdate
  <2>1. \/ Decision!Idle \/ Decision!LeaveMmWave \/ Decision!ConnectFirst
        \/ Decision!ReturnToMmWave \/ Decision!HandOver \/ Decision!ChangeEvent
    BY <1>1, SameSteps, Decision!TriggerCases, CellAssumption, ModeAssumption,
       SinrAssumption, TttAssumption
  <2>2. CASE Decision!Idle \/ Decision!ChangeEvent
    <3>1. usingLte' = usingLte
      BY <2>2 DEF Decision!Idle, Decision!ChangeEvent
    <3>2. sent'.type = "None"
      <4>1. sent' = Decision!NoCommand
        BY <2>2 DEF Decision!Idle, Decision!ChangeEvent
      <4> QED BY <4>1 DEF Decision!NoCommand
    <3> QED BY <3>1, <3>2
  <2>3. CASE Decision!LeaveMmWave
    BY <2>3 DEF Decision!LeaveMmWave, Decision!ConnectionSwitch, ConnectionSwitch
  <2>4. CASE Decision!ConnectFirst
    BY <2>4 DEF Decision!ConnectFirst, Decision!ConnectToMmWave
  <2>5. CASE Decision!ReturnToMmWave
    BY <2>5 DEF Decision!ReturnToMmWave
  <2>6. CASE Decision!HandOver
    <3>1. usingLte' = usingLte
      BY <2>6 DEF Decision!HandOver
    <3>2. sent'.type = "McHandoverRequest"
      BY <2>6 DEF Decision!HandOver, Decision!McHandoverRequest
    <3> QED BY <3>1, <3>2
  <2> QED BY <2>1, <2>2, <2>3, <2>4, <2>5, <2>6
<1>2. CASE PerformHandover
  <2>1. usingLte /\ sent'.type \in {"None", "McHandoverRequest"}
    BY <1>2 DEF PerformHandover, StartHandover, SendMcHandoverRequest, McHandoverRequest,
                SendNothing, NoCommand
  <2> QED BY <2>1
<1> QED BY <1>1, <1>2

LEMMA DecisionSwitches ==
    ASSUME Inv, SwitchInv, Decide
    PROVE  SwitchInv'
<1> DEFINE s == link[<<Lte, Ue>>]
<1>1. /\ sent' \in Command /\ UNCHANGED <<lastCell, coordinator, ue>>
      /\ Exchange({}, MessagesOf(sent'))
  <2>1. DecisionTypeOK'
    BY TriggerType, HandoverStepTypes DEF Inv, Typed, TypeOK, Decide
  <2> QED BY <2>1, Starts DEF DecisionTypeOK, Decide, Transmit, Inv
<1>2. coordinator.cell # Ue /\ lastCell # Ue
  BY CellsAreOthers DEF Inv, Typed, TypeOK, DecisionTypeOK, Ue
<1> SUFFICES ASSUME usingLte', lastCell # 0
             PROVE  ~PathOfUe'
  BY <1>1 DEF SwitchInv
<1>3. CASE usingLte /\ sent'.type # "ConnectionSwitch"
  <2>1. MessagesOf(sent')[<<Lte, Ue>>] = << >>
    <3>1. CASE sent'.type = "McHandoverRequest"
      <4>1. MessagesOf(sent') = On(<<Lte, sent'.from>>, <<McHandoverRequestMsg(sent'.to)>>)
        BY <1>1, <3>1, Transmissions DEF Inv
      <4>2. sent'.from # Ue
        BY <1>2, <3>1, Starts DEF Decide, Inv
      <4> QED BY <4>1, <4>2, NoneToUe
    <3>2. CASE sent'.type # "McHandoverRequest"
      <4>1. MessagesOf(sent') = Nothing
        BY <1>1, <1>3, <3>2, Transmissions DEF Inv
      <4> QED BY <4>1, NoneToUe
    <3> QED BY <3>1, <3>2
  <2>2. link'[<<Lte, Ue>>] = s
    <3>1. <<Lte, Ue>> \notin {} /\ Typed
      BY DEF Inv
    <3> QED BY <1>1, <2>1, <3>1, ToUeUntouched
  <2> QED BY <1>1, <1>3, <2>2 DEF SwitchInv, PathOfUe
<1>4. CASE sent' = ConnectionSwitch(FALSE)
  <2> DEFINE m == RrcConnectionSwitch(FALSE)
  <2>1. sent'.type = "ConnectionSwitch" /\ sent'.useMmWave = FALSE
    BY <1>4 DEF ConnectionSwitch
  <2>2. MessagesOf(sent') = [On(<<Lte, Ue>>, <<m>>)
                               EXCEPT ![<<Lte, coordinator.cell>>] =
                                         <<ConnectionSwitchMsg(coordinator.rnti)>>]
    BY <1>1, <2>1, Transmissions DEF Inv, SwitchInv
  <2>3. MessagesOf(sent')[<<Lte, Ue>>] = <<m>>
    <3>1. On(<<Lte, Ue>>, <<m>>)[<<Lte, Ue>>] = <<m>>
      BY Ends DEF On
    <3> DEFINE f == On(<<Lte, Ue>>, <<m>>)
    <3> HIDE DEF f
    <3>2. MessagesOf(sent') = [f EXCEPT ![<<Lte, coordinator.cell>>] =
                                           <<ConnectionSwitchMsg(coordinator.rnti)>>]
      BY <2>2 DEF f
    <3>3. MessagesOf(sent')[<<Lte, Ue>>] = f[<<Lte, Ue>>]
      BY <1>2, <3>2, NoneToUe
    <3> QED BY <3>1, <3>3 DEF f
  <2>4. link'[<<Lte, Ue>>] = s \o <<m>>
    BY <1>1, <2>3, Ends DEF Exchange
  <2>5. s \in Seq(Message) /\ m \in Message /\ m.useMmWave = FALSE
    BY Ends, Messages DEF Inv, Typed, TypeOK, OfType, RrcConnectionSwitch
  <2> HIDE DEF m
  <2>6. s \o <<m>> # << >> /\ (s \o <<m>>)[Len(s \o <<m>>)] = m
    <3>1. \A t \in Seq(Message), n \in Message :
             t \o <<n>> # << >> /\ (t \o <<n>>)[Len(t \o <<n>>)] = n
      OBVIOUS
    <3> QED BY <2>5, <3>1
  <2> QED BY <2>4, <2>5, <2>6 DEF PathOfUe
<1> QED BY <1>3, <1>4, SwitchesSent DEF Decide, Inv, Typed, TypeOK, DecisionTypeOK

LEMMA LocalSwitches ==
    ASSUME Inv, SwitchInv, Local \/ UNCHANGED vars
    PROVE  SwitchInv'
<1>1. UNCHANGED <<link, ue, lastCell, coordinator>> /\ (lastCell # 0 => UNCHANGED usingLte)
  BY WaitingFacts
  DEF Local, vars, decisionVars, DoRecvUeSinrUpdate, maps, RecvRrcConnectionRequest,
      RecvRrcConnectionSetupCompleted, Tick, Inv
<1> QED BY <1>1 DEF SwitchInv, PathOfUe

\* While the coordinator uses LTE the UE does too, or the last switch that is
\* on its way tells it to, whatever handovers were started, refused or lost.
THEOREM OutageReaches == Spec => []OutageReachesUe
<1>1. Init => SwitchInv
  BY DEF Init, DecisionInit, SwitchInv
<1>2. Inv /\ SwitchInv /\ [Next]_vars => SwitchInv'
  BY OthersSwitchNothing, SwitchArrives, DecisionSwitches, LocalSwitches DEF Next
<1>3. SwitchInv => OutageReachesUe
  BY DEF SwitchInv, PathOfUe, OutageReachesUe
<1> QED BY <1>1, <1>2, <1>3, InvInit, InvStep, PTL DEF Spec
=============================================================================
