-------------------------- MODULE HandoverDecision --------------------------
(***************************************************************************)
(* The handover decision of the LTE eNB that coordinates the mmWave cells  *)
(* of one dual-connected UE (one IMSI), from lte-enb-rrc.cc: the reports   *)
(* of the mmWave cells, the periodic TriggerUeAssociationUpdate with its   *)
(* outage test, TttBasedHandover and ThresholdBasedSecondaryCellHandover,  *)
(* the time-to-trigger event and PerformHandover, and the events that feed *)
(* the per-IMSI maps (attach, first mmWave connection, completed handover).*)
(*                                                                         *)
(* What the rest of the network does with a command is left to the modules *)
(* that extend this one: AbstractHandover, where a commanded handover is   *)
(* completed at some later time, and SecondaryHandover, with the messages. *)
(*                                                                         *)
(* Each operator named ...Mutant is a plausible mistake in the definition  *)
(* that follows it; none is used by the specification.                     *)
(*                                                                         *)
(* SINRs are whole dB above an arbitrary floor; 0 stands for "no report",  *)
(* the linear 0 = -infinity dB the code computes with.  Time is counted in *)
(* milliseconds, and only in the delay left before a scheduled handover.   *)
(***************************************************************************)
EXTENDS Integers

CONSTANTS
    Cell,                    \* the mmWave cells, by cell id
    HandoverMode,            \* "FIXED_TTT", "DYNAMIC_TTT" or "THRESHOLD"
    Level,                   \* the SINRs that are reported
    OutageThreshold,         \* attribute OutageThreshold
    SinrThresholdDifference, \* attribute HoSinrDifference
    FixedTtt,                \* attribute FixedTttValue
    MinDynTtt, MaxDynTtt,    \* attributes MinDynTttValue, MaxDynTttValue
    MinDiff, MaxDiff         \* attributes MinDiffValue, MaxDiffValue

ASSUME CellAssumption == Cell \subseteq Nat \ {0}
ASSUME ModeAssumption == HandoverMode \in {"FIXED_TTT", "DYNAMIC_TTT", "THRESHOLD"}
ASSUME SinrAssumption ==
    /\ Level \subseteq Nat \ {0}
    /\ OutageThreshold \in Nat
    /\ SinrThresholdDifference \in Nat
ASSUME TttAssumption ==      \* the attributes are uint8_t
    /\ FixedTtt \in 0 .. 255
    /\ MinDynTtt \in 0 .. 255
    /\ MaxDynTtt \in MinDynTtt .. 255
    /\ MinDiff \in Nat
    /\ MaxDiff \in Nat
    /\ MinDiff < MaxDiff

VARIABLES
    ueState,        \* LTE UeManager: "idle", "setup" (CONNECTION_SETUP), "connected"
    sinr,           \* m_imsiCellSinrMap[imsi]
    setup,          \* m_mmWaveCellSetupCompleted[imsi]: "absent", "false", "true"
    lastCell,       \* m_lastMmWaveCell[imsi], 0 when never set
    usingLte,       \* m_imsiUsingLte[imsi]
    bestCell,       \* m_bestMmWaveCellForImsiMap[imsi], 0 when never set
    allInOutage,    \* m_allMmWaveInOutageAtInitialAccess of the LTE UeManager
    event,          \* m_imsiHandoverEventsMap[imsi], or NoEvent
    sent,           \* the command the last step handed to the X2 or RRC SAP
    connecting      \* cells the UE was told to connect to for the first time

maps == <<setup, lastCell, usingLte, bestCell, allInOutage, event>>
decisionVars == <<ueState, sinr, setup, lastCell, usingLte, bestCell,
                  allInOutage, event, sent, connecting>>

-----------------------------------------------------------------------------
NoEvent == [source |-> 0, target |-> 0, left |-> 0]
NoCommand == [type |-> "None"]
McHandoverRequest(from, to) ==
    [type |-> "McHandoverRequest", from |-> from, to |-> to]
ConnectToMmWave(c) == [type |-> "ConnectToMmWave", to |-> c]
ConnectionSwitch(useMmWave) ==
    [type |-> "ConnectionSwitch", useMmWave |-> useMmWave]

Command ==
    {NoCommand}
      \cup {McHandoverRequest(c, d) : c \in Cell \cup {0}, d \in Cell}
      \cup {ConnectToMmWave(c) : c \in Cell}
      \cup {ConnectionSwitch(u) : u \in BOOLEAN}
Event == {NoEvent} \cup [source : Cell \cup {0}, target : Cell, left : 0 .. 255]

DecisionTypeOK ==
    /\ ueState \in {"idle", "setup", "connected"}
    /\ sinr \in [Cell -> Level \cup {0}]
    /\ setup \in {"absent", "false", "true"}
    /\ lastCell \in Cell \cup {0}
    /\ usingLte \in BOOLEAN
    /\ bestCell \in Cell \cup {0}
    /\ allInOutage \in BOOLEAN
    /\ event \in Event
    /\ sent \in Command
    /\ connecting \in SUBSET Cell

DecisionInit ==
    /\ ueState = "idle"
    /\ sinr = [c \in Cell |-> 0]
    /\ setup = "absent"
    /\ lastCell = 0
    /\ usingLte = FALSE
    /\ bestCell = 0
    /\ allInOutage = FALSE
    /\ event = NoEvent
    /\ sent = NoCommand
    /\ connecting = {}

-----------------------------------------------------------------------------
(***************************************************************************)
(* Reading the SINR map.                                                   *)
(***************************************************************************)
alreadyAssociated == setup # "absent"
onHandover == setup # "true"

\* The scan of TriggerUeAssociationUpdate: strict comparison over a map in
\* cell id order, so that of two equal SINRs the lower cell id wins.
IsMaxSinrCell(c) ==
    /\ sinr[c] > 0
    /\ \A d \in Cell : sinr[d] < sinr[c] \/ (sinr[d] = sinr[c] /\ c <= d)

CurrentSinr == IF lastCell \in Cell THEN sinr[lastCell] ELSE 0

\* The difference to the current cell exceeds d; it is infinite when the
\* current cell has no SINR.
DifferenceAbove(max, d) == CurrentSinr = 0 \/ sinr[max] - CurrentSinr > d

InOutage(max) ==
    \/ sinr[max] < OutageThreshold
    \/ usingLte /\ sinr[max] < OutageThreshold + 2

ComputeTttMutant(max) ==               \* starts at the wrong end
    IF HandoverMode = "FIXED_TTT" THEN FixedTtt
    ELSE IF DifferenceAbove(max, MaxDiff) THEN MinDynTtt
    ELSE IF sinr[max] - CurrentSinr < MinDiff THEN MaxDynTtt
    ELSE (MinDynTtt * (MaxDiff - MinDiff)
            - (MaxDynTtt - MinDynTtt) * (sinr[max] - CurrentSinr - MinDiff))
           \div (MaxDiff - MinDiff)

\* ComputeTtt: the interpolated delay is truncated by the cast to uint8_t.
ComputeTtt(max) ==
    IF HandoverMode = "FIXED_TTT" THEN FixedTtt
    ELSE IF DifferenceAbove(max, MaxDiff) THEN MinDynTtt
    ELSE IF sinr[max] - CurrentSinr < MinDiff THEN MaxDynTtt
    ELSE (MaxDynTtt * (MaxDiff - MinDiff)
            - (MaxDynTtt - MinDynTtt) * (sinr[max] - CurrentSinr - MinDiff))
           \div (MaxDiff - MinDiff)

-----------------------------------------------------------------------------
(***************************************************************************)
(* Commands, each handed to a SAP.                                         *)
(***************************************************************************)
SendNothing == sent' = NoCommand /\ UNCHANGED connecting

SendMcHandoverRequest(from, to) ==
    /\ sent' = McHandoverRequest(from, to)
    /\ UNCHANGED connecting

SendConnectToMmWave(c) ==
    /\ sent' = ConnectToMmWave(c)
    /\ connecting' = connecting \cup {c}

SendRrcConnectionSwitch(useMmWave) ==
    /\ sent' = ConnectionSwitch(useMmWave)
    /\ usingLte' = ~useMmWave
    /\ UNCHANGED connecting

StartHandoverMutant(to) ==             \* does not mark the IMSI
    SendMcHandoverRequest(lastCell, to) /\ UNCHANGED setup

\* A handover leaves the entry of the IMSI false until it is completed.
StartHandover(to) ==
    /\ SendMcHandoverRequest(lastCell, to)
    /\ setup' = "false"

-----------------------------------------------------------------------------
(***************************************************************************)
(* Attach and reports.                                                     *)
(***************************************************************************)
DoRecvUeSinrUpdate(c) ==
    /\ \E s \in Level : sinr' = [sinr EXCEPT ![c] = s]
    /\ SendNothing
    /\ UNCHANGED <<ueState, maps>>

RecvRrcConnectionRequest ==
    /\ ueState = "idle"
    /\ ueState' = "setup"
    /\ setup' = "false"
    /\ SendNothing
    /\ UNCHANGED <<sinr, lastCell, usingLte, bestCell, allInOutage, event>>

RecvRrcConnectionSetupCompletedMutant ==   \* does not leave an outage aside
    /\ ueState = "setup"
    /\ ueState' = "connected"
    /\ IF bestCell # 0 THEN SendConnectToMmWave(bestCell) ELSE SendNothing
    /\ allInOutage' = (bestCell # 0 /\ CurrentSinr < OutageThreshold)
    /\ usingLte' = (usingLte \/ allInOutage')
    /\ UNCHANGED <<sinr, setup, lastCell, bestCell, event>>

\* SwitchToState(CONNECTED_NORMALLY) after the connection setup: connect the
\* UE to the best mmWave cell known so far, unless that one is in outage.
RecvRrcConnectionSetupCompleted ==
    /\ ueState = "setup"
    /\ ueState' = "connected"
    /\ \/ /\ bestCell = 0
          /\ SendNothing
          /\ UNCHANGED <<usingLte, allInOutage>>
       \/ /\ bestCell # 0
          /\ sinr[bestCell] > OutageThreshold
          /\ SendConnectToMmWave(bestCell)
          /\ UNCHANGED <<usingLte, allInOutage>>
       \/ /\ bestCell # 0
          /\ sinr[bestCell] <= OutageThreshold
          /\ allInOutage' = TRUE
          /\ usingLte' = TRUE
          /\ SendNothing
    /\ UNCHANGED <<sinr, setup, lastCell, bestCell, event>>

\* RecvRrcConnectionReconfigurationCompleted in MC_CONNECTION_RECONFIGURATION:
\* the UE has connected to mmWave cell c and its bearers are split.
McSetupCompleted(c) ==
    /\ c \in connecting
    /\ connecting' = connecting \ {c}
    /\ lastCell' = c
    /\ setup' = "true"
    /\ usingLte' = FALSE
    /\ sent' = NoCommand
    /\ UNCHANGED <<ueState, sinr, bestCell, allInOutage, event>>

RecvSecondaryCellHandoverCompletedMutant(c) ==   \* does not mark the IMSI
    /\ lastCell' = c
    /\ usingLte' = FALSE
    /\ SendNothing
    /\ UNCHANGED <<ueState, sinr, setup, bestCell, allInOutage, event>>

\* RecvSecondaryCellHandoverCompleted: a cell reports that the UE arrived.  A
\* report from the cell already recorded changes nothing.
RecvSecondaryCellHandoverCompleted(c) ==
    /\ IF lastCell # c
       THEN /\ lastCell' = c
            /\ setup' = "true"
            /\ usingLte' = FALSE
       ELSE UNCHANGED <<lastCell, setup, usingLte>>
    /\ SendNothing
    /\ UNCHANGED <<ueState, sinr, bestCell, allInOutage, event>>

-----------------------------------------------------------------------------
(***************************************************************************)
(* TriggerUeAssociationUpdate.                                             *)
(***************************************************************************)
OutageMutant(max) ==                   \* does not cancel the event
    /\ alreadyAssociated
    /\ InOutage(max)
    /\ IF usingLte THEN SendNothing /\ UNCHANGED usingLte
       ELSE SendRrcConnectionSwitch(FALSE)
    /\ UNCHANGED <<setup, lastCell, bestCell, allInOutage, event>>

Outage(max) ==
    /\ alreadyAssociated
    /\ InOutage(max)
    /\ \/ /\ ~usingLte
          /\ SendRrcConnectionSwitch(FALSE)
          /\ event' = NoEvent
       \/ /\ usingLte
          /\ SendNothing
          /\ UNCHANGED <<usingLte, event>>
    /\ UNCHANGED <<setup, lastCell, bestCell, allInOutage>>

Schedule(max) ==
    event' = [source |-> lastCell, target |-> max,
              left |-> IF CurrentSinr < OutageThreshold THEN 0
                       ELSE ComputeTtt(max)]

\* The UE is served by a mmWave cell and no handover is in progress: what
\* becomes of the scheduled event, first when it targets the best cell.
UpdateEvent(max) ==
    \/ /\ event = NoEvent
       /\ \/ max # lastCell /\ Schedule(max)
          \/ max = lastCell /\ UNCHANGED event
    \/ /\ event # NoEvent
       /\ event.target = max
       /\ \/ /\ CurrentSinr < OutageThreshold \/ ComputeTtt(max) < event.left
             /\ Schedule(max)
          \/ /\ ~(CurrentSinr < OutageThreshold \/ ComputeTtt(max) < event.left)
             /\ UNCHANGED event
    \/ /\ event # NoEvent
       /\ event.target # max
       /\ \/ /\ max # lastCell
             /\ sinr[max] - sinr[event.target] > SinrThresholdDifference
             /\ Schedule(max)
          \/ /\ max # lastCell
             /\ sinr[max] - sinr[event.target] <= SinrThresholdDifference
             /\ UNCHANGED event
          \/ max = lastCell /\ event' = NoEvent

BackToMmWaveMutant(max) ==             \* ignores a handover in progress
    IF lastCell = max THEN SendRrcConnectionSwitch(TRUE) /\ UNCHANGED setup
    ELSE IF ~onHandover THEN StartHandover(max) /\ UNCHANGED usingLte
    ELSE SendNothing /\ UNCHANGED <<setup, usingLte>>

LastCellOnlyMutant(max) ==             \* waits for the last cell
    /\ IF lastCell = max /\ ~onHandover THEN SendRrcConnectionSwitch(TRUE)
       ELSE SendNothing /\ UNCHANGED usingLte
    /\ UNCHANGED setup

\* The UE is on LTE and mmWave is back: switch to the last cell, or hand over.
BackToMmWave(max) ==
    \/ /\ lastCell = max
       /\ ~onHandover
       /\ SendRrcConnectionSwitch(TRUE)
       /\ UNCHANGED setup
    \/ /\ lastCell # max
       /\ ~onHandover
       /\ StartHandover(max)
       /\ UNCHANGED usingLte
    \/ /\ onHandover
       /\ SendNothing
       /\ UNCHANGED <<setup, usingLte>>

TttBasedHandoverMutant(max) ==         \* tests the entry of the IMSI first
    /\ IF alreadyAssociated /\ usingLte
       THEN /\ IF allInOutage /\ ~onHandover
               THEN SendConnectToMmWave(max) /\ UNCHANGED <<setup, usingLte>>
               ELSE BackToMmWave(max)
            /\ UNCHANGED event
       ELSE /\ IF alreadyAssociated /\ ~onHandover THEN UpdateEvent(max)
               ELSE UNCHANGED event
            /\ SendNothing
            /\ UNCHANGED <<setup, usingLte>>
    /\ UNCHANGED allInOutage

ConnectAgainMutant(max) ==             \* does not reset the flag
    /\ IF alreadyAssociated /\ usingLte
       THEN /\ IF allInOutage
               THEN SendConnectToMmWave(max) /\ UNCHANGED <<setup, usingLte>>
               ELSE BackToMmWave(max)
            /\ UNCHANGED event
       ELSE /\ IF alreadyAssociated /\ ~onHandover THEN UpdateEvent(max)
               ELSE UNCHANGED event
            /\ SendNothing
            /\ UNCHANGED <<setup, usingLte>>
    /\ UNCHANGED allInOutage

TttBasedHandover(max) ==
    \/ /\ alreadyAssociated /\ usingLte
       /\ \/ /\ allInOutage
             /\ SendConnectToMmWave(max)
             /\ allInOutage' = FALSE
             /\ UNCHANGED <<setup, usingLte>>
          \/ /\ ~allInOutage
             /\ BackToMmWave(max)
             /\ UNCHANGED allInOutage
       /\ UNCHANGED event
    \/ /\ alreadyAssociated /\ ~usingLte /\ ~onHandover
       /\ UpdateEvent(max)
       /\ SendNothing
       /\ UNCHANGED <<setup, usingLte, allInOutage>>
    \/ /\ ~alreadyAssociated \/ (~usingLte /\ onHandover)
       /\ SendNothing
       /\ UNCHANGED <<setup, usingLte, allInOutage, event>>

ThresholdBasedSecondaryCellHandoverMutant(max) ==   \* connects at any time
    /\ IF usingLte /\ allInOutage
       THEN SendConnectToMmWave(max) /\ UNCHANGED <<setup, usingLte>>
       ELSE IF usingLte THEN BackToMmWave(max)
       ELSE /\ IF /\ ~onHandover /\ lastCell # max
                  /\ DifferenceAbove(max, SinrThresholdDifference)
               THEN StartHandover(max)
               ELSE SendNothing /\ UNCHANGED setup
            /\ UNCHANGED usingLte
    /\ UNCHANGED <<allInOutage, event>>

\* The caller has just recorded max as the best cell, so that the first branch
\* of the code is the one for every UE that is not on LTE, and its last two
\* branches are never reached.
ThresholdBasedSecondaryCellHandover(max) ==
    /\ \/ /\ ~usingLte
          /\ ~onHandover /\ lastCell # max
          /\ DifferenceAbove(max, SinrThresholdDifference)
          /\ StartHandover(max)
          /\ UNCHANGED usingLte
       \/ /\ ~usingLte
          /\ onHandover \/ lastCell = max \/ ~DifferenceAbove(max, SinrThresholdDifference)
          /\ SendNothing
          /\ UNCHANGED <<setup, usingLte>>
       \/ /\ usingLte /\ allInOutage /\ ~onHandover
          /\ SendConnectToMmWave(max)
          /\ UNCHANGED <<setup, usingLte>>
       \/ /\ usingLte /\ ~(allInOutage /\ ~onHandover)
          /\ BackToMmWave(max)
    /\ UNCHANGED <<allInOutage, event>>

\* An event whose time has come runs before the next periodic update.
TriggerUeAssociationUpdate ==
    /\ event = NoEvent \/ event.left > 0
    /\ \E max \in Cell :
         /\ IsMaxSinrCell(max)
         /\ \/ Outage(max)
            \/ /\ ~(alreadyAssociated /\ InOutage(max))
               /\ bestCell' = max
               /\ \/ HandoverMode = "THRESHOLD" /\ ThresholdBasedSecondaryCellHandover(max)
                  \/ HandoverMode # "THRESHOLD" /\ TttBasedHandover(max)
               /\ UNCHANGED lastCell
    /\ UNCHANGED <<ueState, sinr>>

\* A millisecond passes before the scheduled handover.
Tick ==
    /\ event # NoEvent
    /\ event.left > 0
    /\ event' = [event EXCEPT !.left = @ - 1]
    /\ SendNothing
    /\ UNCHANGED <<ueState, sinr, setup, lastCell, usingLte, bestCell, allInOutage>>

PerformHandover ==
    /\ event # NoEvent
    /\ event.left = 0
    /\ event' = NoEvent
    /\ IF onHandover THEN SendNothing /\ UNCHANGED setup
       ELSE StartHandover(event.target)
    /\ UNCHANGED <<ueState, sinr, lastCell, usingLte, bestCell, allInOutage>>
=============================================================================
