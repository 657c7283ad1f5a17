----------------------- MODULE AbstractHandover_proofs -----------------------
(***************************************************************************)
(* Proofs about the handover decision of the coordinator, for every set of *)
(* cells, every value of the attributes and every handover mode.           *)
(***************************************************************************)
EXTENDS AbstractHandover, HandoverDecision_proofs

\* Only a request for a handover is taken up.
LEMMA TakeUpType ==
    ASSUME TypeOK, DecisionTypeOK', TakeUp
    PROVE  TypeOK'
<1>1. CASE sent'.type = "McHandoverRequest"
  <2>1. PICK c \in Cell \cup {0}, d \in Cell : sent' = McHandoverRequest(c, d)
    BY <1>1 DEF DecisionTypeOK, Command, NoCommand, ConnectToMmWave, ConnectionSwitch
  <2>2. [from |-> sent'.from, to |-> sent'.to] \in Transition
    BY <2>1 DEF McHandoverRequest, Transition
  <2> QED BY <1>1, <2>2 DEF TakeUp, TypeOK
<1>2. CASE sent'.type # "McHandoverRequest"
  BY <1>2 DEF TakeUp, TypeOK
<1> QED BY <1>1, <1>2

\* Every step keeps the types.
LEMMA StepTypes == TypeOK /\ [Next]_vars => TypeOK'
<1> SUFFICES ASSUME TypeOK, [Next]_vars PROVE TypeOK'
  OBVIOUS
<1>0. DecisionTypeOK
  BY DEF TypeOK
<1>1. ASSUME NEW c \in Cell, DoRecvUeSinrUpdate(c), UNCHANGED outstanding
      PROVE TypeOK'
  BY <1>0, <1>1, ReportType DEF TypeOK
<1>2. CASE RecvRrcConnectionRequest /\ UNCHANGED outstanding
  BY <1>0, <1>2, AttachTypes DEF TypeOK
<1>3. CASE RecvRrcConnectionSetupCompleted /\ UNCHANGED outstanding
  BY <1>0, <1>3, AttachTypes DEF TypeOK
<1>4. ASSUME NEW c \in Cell, McSetupCompleted(c), UNCHANGED outstanding
      PROVE TypeOK'
  BY <1>0, <1>4, McSetupType DEF TypeOK
<1>5. CASE Tick /\ UNCHANGED outstanding
  BY <1>0, <1>5, HandoverStepTypes DEF TypeOK
<1>6. CASE TriggerUeAssociationUpdate /\ TakeUp
  BY <1>0, <1>6, TriggerType, TakeUpType
<1>7. CASE PerformHandover /\ TakeUp
  BY <1>0, <1>7, HandoverStepTypes, TakeUpType
<1>8. CASE HandoverCompleted
  <2>1. Head(outstanding).to \in Cell /\ Tail(outstanding) \in Seq(Transition)
    <3>1. Head(outstanding) \in Transition /\ Tail(outstanding) \in Seq(Transition)
      BY <1>8 DEF HandoverCompleted, TypeOK
    <3> QED BY <3>1 DEF Transition
  <2>2. DecisionTypeOK'
    BY <1>0, <1>8, <2>1, HandoverStepTypes DEF HandoverCompleted
  <2> QED BY <1>8, <2>1, <2>2 DEF HandoverCompleted, TypeOK
<1>9. CASE UNCHANGED vars
  BY <1>9 DEF vars, decisionVars, TypeOK, DecisionTypeOK
<1> QED BY <1>1, <1>2, <1>3, <1>4, <1>5, <1>6, <1>7, <1>8, <1>9 DEF Next

\* The variables keep their types.  The conjunct about event says that the
\* truncated time to trigger is never negative and never wraps.
THEOREM TypeCorrect == Spec => []TypeOK
<1>1. Init => TypeOK
  BY DecisionInitType DEF Init, TypeOK
<1> QED BY <1>1, StepTypes, PTL DEF Spec
-----------------------------------------------------------------------------
(***************************************************************************)
(* The inductive invariant.  EventIsCurrent needs OneHandoverAtATime, and  *)
(* both need FalseOnlyDuringHandover: an event is scheduled, and a         *)
(* handover started, only while the entry of the IMSI is true.  That the   *)
(* true entry stands for a cell is FirstConnectionOrder, which in turn     *)
(* needs OneFirstConnection.  With the threshold rule no event exists, so  *)
(* that a handover which the rule starts leaves none behind.               *)
(***************************************************************************)
ThresholdSchedulesNothing == HandoverMode = "THRESHOLD" => event = NoEvent

IInv ==
    /\ TypeOK
    /\ EventIsCurrent
    /\ OneHandoverAtATime
    /\ FalseOnlyDuringHandover
    /\ OneFirstConnection
    /\ FirstConnectionOrder
    /\ ThresholdSchedulesNothing

\* What a decision step may do, whatever the rule: nothing; leave mmWave;
\* connect the UE for the first time; return to the last cell; start a
\* handover; change the scheduled event.
Frame == UNCHANGED <<ueState, sinr, lastCell>>

Idle ==
    /\ sent' = NoCommand
    /\ UNCHANGED <<connecting, setup, usingLte, allInOutage, event>>
LeaveMmWave ==
    /\ sent' = ConnectionSwitch(FALSE)
    /\ usingLte' = TRUE
    /\ event' = NoEvent
    /\ UNCHANGED <<connecting, setup, allInOutage>>
ConnectFirst ==
    /\ usingLte
    /\ allInOutage
    /\ allInOutage' = FALSE
    /\ \E c \in Cell : sent' = ConnectToMmWave(c) /\ connecting' = connecting \cup {c}
    /\ UNCHANGED <<setup, usingLte, event>>
ReturnToMmWave ==
    /\ usingLte
    /\ setup = "true"
    /\ sent' = ConnectionSwitch(TRUE)
    /\ usingLte' = FALSE
    /\ event = NoEvent
    /\ UNCHANGED <<connecting, setup, allInOutage, event>>
HandOver ==
    /\ setup = "true"
    /\ setup' = "false"
    /\ \E d \in Cell \ {lastCell} : sent' = McHandoverRequest(lastCell, d)
    /\ event' = NoEvent
    /\ UNCHANGED <<connecting, usingLte, allInOutage>>
ChangeEvent ==
    /\ HandoverMode # "THRESHOLD"
    /\ setup = "true"
    /\ ~usingLte
    /\ event' # NoEvent => event'.source = lastCell /\ event'.target # lastCell
    /\ sent' = NoCommand
    /\ UNCHANGED <<connecting, setup, usingLte, allInOutage>>

LEMMA ScheduledEvent ==
    ASSUME NEW max, UpdateEvent(max), EventIsCurrent
    PROVE  event' # NoEvent => event'.source = lastCell /\ event'.target # lastCell
<1>1. ASSUME Schedule(max), max # lastCell
      PROVE event'.source = lastCell /\ event'.target # lastCell
  BY <1>1 DEF Schedule
<1> QED BY <1>1 DEF UpdateEvent, EventIsCurrent

\* An event is scheduled only for a UE that is served over mmWave.
LEMMA OnLteNoEvent == IInv /\ usingLte => event = NoEvent
BY DEF IInv, EventIsCurrent

LEMMA BackToMmWaveCases ==
    ASSUME IInv, usingLte, NEW max \in Cell, BackToMmWave(max),
           UNCHANGED <<allInOutage, event>>
    PROVE  Idle \/ ReturnToMmWave \/ HandOver
<1>1. event = NoEvent
  BY OnLteNoEvent
<1> USE <1>1 DEF onHandover
<1>2. CASE lastCell = max /\ ~onHandover /\ SendRrcConnectionSwitch(TRUE) /\ UNCHANGED setup
  BY <1>2 DEF SendRrcConnectionSwitch, ReturnToMmWave
<1>3. CASE lastCell # max /\ ~onHandover /\ StartHandover(max) /\ UNCHANGED usingLte
  BY <1>3 DEF StartHandover, SendMcHandoverRequest, HandOver
<1>4. CASE onHandover /\ SendNothing /\ UNCHANGED <<setup, usingLte>>
  BY <1>4 DEF SendNothing, Idle
<1> QED BY <1>2, <1>3, <1>4 DEF BackToMmWave

LEMMA TriggerCases ==
    ASSUME IInv, TriggerUeAssociationUpdate
    PROVE  /\ Frame
           /\ \/ Idle \/ LeaveMmWave \/ ConnectFirst
              \/ ReturnToMmWave \/ HandOver \/ ChangeEvent
<1>1. PICK max \in Cell :
         /\ IsMaxSinrCell(max)
         /\ \/ Outage(max)
            \/ /\ \/ HandoverMode = "THRESHOLD" /\ ThresholdBasedSecondaryCellHandover(max)
                  \/ HandoverMode # "THRESHOLD" /\ TttBasedHandover(max)
               /\ UNCHANGED lastCell
  BY DEF TriggerUeAssociationUpdate
<1>2. Frame
  BY <1>1 DEF TriggerUeAssociationUpdate, Frame, Outage
<1> SUFFICES \/ Idle \/ LeaveMmWave \/ ConnectFirst
             \/ ReturnToMmWave \/ HandOver \/ ChangeEvent
  BY <1>2
<1>3. CASE Outage(max)
  BY <1>3 DEF Outage, SendRrcConnectionSwitch, SendNothing, Idle, LeaveMmWave
<1>4. CASE HandoverMode # "THRESHOLD" /\ TttBasedHandover(max)
  <2>1. CASE /\ alreadyAssociated /\ usingLte /\ allInOutage
             /\ SendConnectToMmWave(max)
             /\ allInOutage' = FALSE
             /\ UNCHANGED <<setup, usingLte, event>>
    BY <2>1 DEF SendConnectToMmWave, ConnectFirst
  <2>2. CASE /\ usingLte /\ BackToMmWave(max)
             /\ UNCHANGED <<allInOutage, event>>
    BY <2>2, BackToMmWaveCases
  <2>3. CASE /\ ~usingLte /\ ~onHandover
             /\ UpdateEvent(max)
             /\ SendNothing
             /\ UNCHANGED <<setup, usingLte, allInOutage>>
    BY <1>4, <2>3, ScheduledEvent DEF onHandover, SendNothing, ChangeEvent, IInv
  <2>4. CASE SendNothing /\ UNCHANGED <<setup, usingLte, allInOutage, event>>
    BY <2>4 DEF SendNothing, Idle
  <2> QED BY <1>4, <2>1, <2>2, <2>3, <2>4 DEF TttBasedHandover
<1>5. CASE HandoverMode = "THRESHOLD" /\ ThresholdBasedSecondaryCellHandover(max)
  <2>1. event = NoEvent /\ event' = NoEvent /\ UNCHANGED allInOutage
    BY <1>5 DEF IInv, ThresholdSchedulesNothing, ThresholdBasedSecondaryCellHandover
  <2>2. CASE /\ ~onHandover /\ lastCell # max
             /\ StartHandover(max)
             /\ UNCHANGED usingLte
    BY <2>1, <2>2 DEF onHandover, StartHandover, SendMcHandoverRequest, HandOver
  <2>3. CASE SendNothing /\ UNCHANGED <<setup, usingLte>>
    BY <2>1, <2>3 DEF SendNothing, Idle
  <2>4. ~(usingLte /\ allInOutage /\ ~onHandover)
    BY DEF onHandover, IInv, FirstConnectionOrder
  <2>5. CASE usingLte /\ BackToMmWave(max)
    BY <2>1, <2>5, BackToMmWaveCases
  <2> QED BY <1>5, <2>2, <2>3, <2>4, <2>5 DEF ThresholdBasedSecondaryCellHandover
<1> QED BY <1>1, <1>3, <1>4, <1>5
-----------------------------------------------------------------------------
(***************************************************************************)
(* Each kind of step keeps the invariant.                                  *)
(***************************************************************************)
Untyped ==     \* IInv without the types
    /\ EventIsCurrent
    /\ OneHandoverAtATime
    /\ FalseOnlyDuringHandover
    /\ OneFirstConnection
    /\ FirstConnectionOrder
    /\ ThresholdSchedulesNothing

\* A command that is not a request leaves outstanding alone.
LEMMA NothingTakenUp ==
    ASSUME TakeUp, sent' = NoCommand \/ (\E u : sent' = ConnectionSwitch(u))
                                     \/ (\E c : sent' = ConnectToMmWave(c))
    PROVE  outstanding' = outstanding
BY DEF TakeUp, NoCommand, ConnectionSwitch, ConnectToMmWave

\* While the entry is true nothing is outstanding.
LEMMA TrueEntry ==
    IInv /\ setup = "true" => lastCell # 0 /\ outstanding = << >> /\ connecting = {} /\ ~allInOutage
BY DEF IInv, FirstConnectionOrder, FalseOnlyDuringHandover, OneFirstConnection

\* A started handover is the only one outstanding, and leaves the last cell.
LEMMA HandOverInvariant ==
    ASSUME IInv, Frame, HandOver, TakeUp
    PROVE  Untyped'
<1>1. PICK d \in Cell \ {lastCell} : sent' = McHandoverRequest(lastCell, d)
  BY DEF HandOver
<1>2. outstanding' = << [from |-> lastCell, to |-> d] >>
  BY <1>1, TrueEntry DEF HandOver, TakeUp, McHandoverRequest
<1>3. /\ Len(outstanding') = 1
      /\ outstanding'[1].from = lastCell
      /\ outstanding'[1].to # lastCell
      /\ outstanding' # << >>
  BY <1>1, <1>2
<1>4. lastCell # 0 /\ connecting' = {} /\ ~allInOutage' /\ lastCell' = lastCell
  BY TrueEntry DEF HandOver, Frame
<1>5. OneHandoverAtATime' /\ FalseOnlyDuringHandover'
  BY <1>3, <1>4 DEF HandOver, OneHandoverAtATime, FalseOnlyDuringHandover
<1>6. EventIsCurrent' /\ ThresholdSchedulesNothing'
  BY DEF HandOver, EventIsCurrent, ThresholdSchedulesNothing
<1>7. OneFirstConnection'
  BY <1>4 DEF OneFirstConnection
<1>8. FirstConnectionOrder'
  BY <1>4, TrueEntry DEF HandOver, Frame, FirstConnectionOrder, IInv
<1> QED BY <1>5, <1>6, <1>7, <1>8 DEF Untyped

LEMMA ConnectFirstInvariant ==
    ASSUME IInv, Frame, ConnectFirst, TakeUp
    PROVE  Untyped'
<1>1. lastCell = 0 /\ connecting = {} /\ outstanding = << >> /\ setup # "true" /\ lastCell' = 0
  BY DEF ConnectFirst, IInv, FirstConnectionOrder, Frame
<1>2. PICK c \in Cell : sent' = ConnectToMmWave(c) /\ connecting' = {c}
  BY <1>1 DEF ConnectFirst
<1>3. outstanding' = << >>
  BY <1>1, <1>2, NothingTakenUp
<1>4. event = NoEvent /\ event' = NoEvent
  BY OnLteNoEvent DEF ConnectFirst
<1>5. ueState' = "connected"
  BY DEF ConnectFirst, IInv, FirstConnectionOrder, Frame
<1> QED BY <1>1, <1>2, <1>3, <1>4, <1>5
    DEF ConnectFirst, IInv, Untyped, EventIsCurrent, OneHandoverAtATime, FalseOnlyDuringHandover,
        OneFirstConnection, FirstConnectionOrder, ThresholdSchedulesNothing

LEMMA TriggerInvariant ==
    ASSUME IInv, TriggerUeAssociationUpdate, TakeUp
    PROVE  Untyped'
<1>1. Frame
  BY TriggerCases
<1>2. ASSUME Idle \/ LeaveMmWave \/ ReturnToMmWave \/ ChangeEvent
      PROVE Untyped'
  <2>1. outstanding' = outstanding
    BY <1>2, NothingTakenUp DEF Idle, LeaveMmWave, ReturnToMmWave, ChangeEvent
  <2>2. UNCHANGED <<ueState, lastCell, setup, connecting, allInOutage, outstanding>>
    BY <1>1, <1>2, <2>1 DEF Frame, Idle, LeaveMmWave, ReturnToMmWave, ChangeEvent
  <2>3. EventIsCurrent'
    BY <1>2, <2>2 DEF Idle, LeaveMmWave, ReturnToMmWave, ChangeEvent, IInv, EventIsCurrent
  <2>4. ThresholdSchedulesNothing'
    BY <1>2 DEF Idle, LeaveMmWave, ReturnToMmWave, ChangeEvent, IInv, ThresholdSchedulesNothing
  <2>5. OneHandoverAtATime' /\ FalseOnlyDuringHandover'
    BY <2>2 DEF IInv, OneHandoverAtATime, FalseOnlyDuringHandover
  <2>6. OneFirstConnection' /\ FirstConnectionOrder'
    BY <2>2 DEF IInv, OneFirstConnection, FirstConnectionOrder
  <2> QED BY <2>3, <2>4, <2>5, <2>6 DEF Untyped
<1> QED BY <1>1, <1>2, TriggerCases, HandOverInvariant, ConnectFirstInvariant

LEMMA PerformInvariant ==
    ASSUME IInv, PerformHandover, TakeUp
    PROVE  Untyped'
<1>1. event # NoEvent /\ setup = "true" /\ ~onHandover
  BY DEF PerformHandover, IInv, EventIsCurrent, onHandover
<1>2. event.target \in Cell \ {lastCell}
  BY <1>1 DEF IInv, EventIsCurrent, TypeOK, DecisionTypeOK, Event
<1>3. Frame /\ HandOver
  BY <1>1, <1>2 DEF PerformHandover, StartHandover, SendMcHandoverRequest, Frame, HandOver
<1> QED BY <1>3, HandOverInvariant

LEMMA HandoverCompletedInvariant ==
    ASSUME IInv, HandoverCompleted
    PROVE  Untyped'
<1>1. /\ outstanding \in Seq(Transition) /\ Len(outstanding) = 1
      /\ setup = "false"
      /\ Head(outstanding).to # lastCell
      /\ lastCell # 0
  BY DEF IInv, TypeOK, HandoverCompleted, OneHandoverAtATime, FirstConnectionOrder
<1>2. Head(outstanding).to \in Cell /\ Head(outstanding).to # 0
  <2>1. Head(outstanding) \in Transition
    BY <1>1 DEF HandoverCompleted
  <2> QED BY <2>1, CellAssumption DEF Transition
<1>3. outstanding' = << >>
  BY <1>1 DEF HandoverCompleted
<1>4. /\ lastCell' = Head(outstanding).to
      /\ setup' = "true"
      /\ connecting' = connecting
      /\ UNCHANGED <<ueState, allInOutage, event>>
  BY <1>1 DEF HandoverCompleted, RecvSecondaryCellHandoverCompleted, SendNothing
<1>5. event = NoEvent /\ connecting = {} /\ ~allInOutage /\ ueState = "connected"
  BY <1>1 DEF IInv, EventIsCurrent, OneFirstConnection, FirstConnectionOrder
<1> QED BY <1>2, <1>3, <1>4, <1>5
    DEF Untyped, EventIsCurrent, OneHandoverAtATime, FalseOnlyDuringHandover,
        OneFirstConnection, FirstConnectionOrder, ThresholdSchedulesNothing

LEMMA McSetupInvariant ==
    ASSUME IInv, NEW c \in Cell, McSetupCompleted(c), UNCHANGED outstanding
    PROVE  Untyped'
<1>1. lastCell = 0 /\ outstanding = << >> /\ connecting = {c} /\ c # 0
  BY CellAssumption DEF McSetupCompleted, IInv, OneFirstConnection, FirstConnectionOrder
<1>2. ~allInOutage /\ ueState = "connected" /\ event = NoEvent
  BY <1>1 DEF IInv, FirstConnectionOrder, EventIsCurrent
<1>3. connecting' = {} /\ lastCell' = c /\ setup' = "true" /\ outstanding' = << >>
      /\ UNCHANGED <<ueState, allInOutage, event>>
  BY <1>1 DEF McSetupCompleted
<1> QED BY <1>1, <1>2, <1>3
    DEF Untyped, EventIsCurrent, OneHandoverAtATime, FalseOnlyDuringHandover,
        OneFirstConnection, FirstConnectionOrder, ThresholdSchedulesNothing

LEMMA AttachInvariant ==
    ASSUME IInv, RecvRrcConnectionRequest \/ RecvRrcConnectionSetupCompleted,
           UNCHANGED outstanding
    PROVE  Untyped'
<1>1. lastCell = 0 /\ connecting = {} /\ ~allInOutage /\ setup # "true"
      /\ outstanding = << >> /\ event = NoEvent
  BY DEF RecvRrcConnectionRequest, RecvRrcConnectionSetupCompleted, IInv,
         FirstConnectionOrder, EventIsCurrent
<1>2. lastCell' = 0 /\ outstanding' = << >> /\ event' = NoEvent /\ setup' # "true"
      /\ ueState' # "idle"
  BY <1>1 DEF RecvRrcConnectionRequest, RecvRrcConnectionSetupCompleted
<1>3. setup' # "absent"
  BY DEF RecvRrcConnectionRequest, RecvRrcConnectionSetupCompleted, IInv, FirstConnectionOrder
<1>4. \/ connecting' = {} /\ (ueState' = "connected" \/ ~allInOutage')
      \/ /\ \E c : connecting' = {c}
         /\ ~allInOutage'
         /\ ueState' = "connected"
  BY <1>1 DEF RecvRrcConnectionRequest, RecvRrcConnectionSetupCompleted, SendNothing,
              SendConnectToMmWave
<1> QED BY <1>1, <1>2, <1>3, <1>4
    DEF Untyped, EventIsCurrent, OneHandoverAtATime, FalseOnlyDuringHandover,
        OneFirstConnection, FirstConnectionOrder, ThresholdSchedulesNothing

LEMMA TickInvariant ==
    ASSUME IInv, Tick, UNCHANGED outstanding
    PROVE  Untyped'
<1>1. event.source = lastCell /\ event.target # lastCell /\ setup = "true" /\ ~usingLte
      /\ HandoverMode # "THRESHOLD"
  BY DEF Tick, IInv, EventIsCurrent, ThresholdSchedulesNothing
<1>2. event'.source = event.source /\ event'.target = event.target
  BY DEF Tick, IInv, TypeOK, DecisionTypeOK, Event
<1>3. UNCHANGED <<ueState, setup, lastCell, usingLte, allInOutage, connecting, outstanding>>
  BY DEF Tick, SendNothing
<1> QED BY <1>1, <1>2, <1>3
    DEF IInv, Untyped, EventIsCurrent, OneHandoverAtATime, FalseOnlyDuringHandover,
        OneFirstConnection, FirstConnectionOrder, ThresholdSchedulesNothing
-----------------------------------------------------------------------------
(***************************************************************************)
(* The theorems.                                                           *)
(***************************************************************************)
LEMMA InitInvariant == Init => IInv
<1>1. Init => TypeOK
  BY DecisionInitType DEF Init, TypeOK
<1>2. Init => Untyped
  BY DEF Init, DecisionInit, Untyped, EventIsCurrent, OneHandoverAtATime,
         FalseOnlyDuringHandover, OneFirstConnection, FirstConnectionOrder,
         ThresholdSchedulesNothing
<1> QED BY <1>1, <1>2 DEF IInv, Untyped

LEMMA StepInvariant == IInv /\ [Next]_vars => IInv'
<1> SUFFICES ASSUME IInv, [Next]_vars PROVE Untyped'
  BY StepTypes DEF IInv, Untyped
<1>1. ASSUME NEW c \in Cell, DoRecvUeSinrUpdate(c), UNCHANGED outstanding
      PROVE Untyped'
  <2>1. UNCHANGED <<ueState, setup, lastCell, usingLte, allInOutage, event,
                    connecting, outstanding>>
    BY <1>1 DEF DoRecvUeSinrUpdate, SendNothing, maps
  <2> QED BY <2>1
      DEF IInv, Untyped, EventIsCurrent, OneHandoverAtATime, FalseOnlyDuringHandover,
          OneFirstConnection, FirstConnectionOrder, ThresholdSchedulesNothing
<1>2. CASE UNCHANGED vars
  BY <1>2 DEF vars, decisionVars, IInv, Untyped, EventIsCurrent, OneHandoverAtATime,
      FalseOnlyDuringHandover, OneFirstConnection, FirstConnectionOrder,
      ThresholdSchedulesNothing
<1> QED BY <1>1, <1>2, AttachInvariant, McSetupInvariant, TickInvariant, TriggerInvariant,
        PerformInvariant, HandoverCompletedInvariant DEF Next

\* The decision keeps its inductive invariant, whatever the SINRs, the rule and
\* the time a commanded handover takes: the properties below are its parts.
THEOREM Invariance == Spec => []IInv
BY InitInvariant, StepInvariant, PTL DEF Spec

\* A scheduled handover is never stale: the assertion of PerformHandover holds
\* and the "on handover" branch, a TODO in the code, is never taken.
THEOREM EventStaysCurrent == Spec => []EventIsCurrent
BY Invariance, PTL DEF IInv

\* At most one commanded handover is outstanding, and it starts at the cell
\* the coordinator has recorded.
THEOREM HandoversAreSerial == Spec => []OneHandoverAtATime
BY Invariance, PTL DEF IInv

\* The coordinator does not take a UE for being on handover when it is not.
THEOREM NeverBlocksItself == Spec => []FalseOnlyDuringHandover
BY Invariance, PTL DEF IInv

\* The first connection is commanded to one cell, and only to a UE that has
\* none.
THEOREM ConnectsOnce == Spec => []OneFirstConnection
BY Invariance, PTL DEF IInv

\* The initial-outage flag and the entry of the IMSI mean what the decision
\* takes them to mean.
THEOREM FirstConnectionInOrder == Spec => []FirstConnectionOrder
BY Invariance, PTL DEF IInv

\* Only a periodic update sends the UE back to mmWave, and only from LTE with
\* no handover outstanding.
LEMMA SwitchBackStep ==
    ASSUME IInv, [Next]_vars
    PROVE  [sent' = ConnectionSwitch(TRUE) =>
              usingLte /\ outstanding = << >> /\ lastCell # 0]_vars
<1> SUFFICES ASSUME Next, sent' = ConnectionSwitch(TRUE)
             PROVE  usingLte /\ outstanding = << >> /\ lastCell # 0
  OBVIOUS
<1> USE DEF ConnectionSwitch
<1>1. ~SendNothing
  BY DEF SendNothing, NoCommand
<1>2. \A c \in Cell : ~SendConnectToMmWave(c)
  BY DEF SendConnectToMmWave, ConnectToMmWave
<1>3. \A c, d : ~SendMcHandoverRequest(c, d)
  BY DEF SendMcHandoverRequest, McHandoverRequest
<1>4. ~PerformHandover
  BY <1>1, <1>3 DEF PerformHandover, StartHandover
<1>5. ~RecvRrcConnectionSetupCompleted
  <2>1. RecvRrcConnectionSetupCompleted => bestCell = 0 \/ bestCell \in Cell
    BY DEF IInv, TypeOK, DecisionTypeOK
  <2> QED BY <1>1, <1>2, <2>1 DEF RecvRrcConnectionSetupCompleted
<1>6. \A c \in Cell : ~McSetupCompleted(c)
  BY DEF McSetupCompleted, NoCommand
<1>7. TriggerUeAssociationUpdate
  BY <1>1, <1>4, <1>5, <1>6
  DEF Next, DoRecvUeSinrUpdate, RecvRrcConnectionRequest, Tick, HandoverCompleted,
      RecvSecondaryCellHandoverCompleted
<1>8. ReturnToMmWave
  BY <1>7, TriggerCases
  DEF Idle, LeaveMmWave, ConnectFirst, HandOver, ChangeEvent, NoCommand, ConnectToMmWave,
      McHandoverRequest
<1> QED BY <1>8, TrueEntry DEF ReturnToMmWave

\* The switch back to mmWave never crosses a handover.
THEOREM SwitchesBackAlone == Spec => SwitchBackAlone
<1>1. IInv /\ [Next]_vars => [sent' = ConnectionSwitch(TRUE) =>
                               usingLte /\ outstanding = << >> /\ lastCell # 0]_vars
  BY SwitchBackStep
<1> QED BY <1>1, Invariance, PTL DEF Spec, SwitchBackAlone
=============================================================================
