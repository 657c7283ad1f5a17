-------------------------- MODULE AbstractHandover --------------------------
(***************************************************************************)
(* What the coordinator promises: HandoverDecision in an environment that  *)
(* completes every commanded handover at some later time, or never.        *)
(*                                                                         *)
(* outstanding is the sequence of the handovers that are commanded and not *)
(* completed.  SecondaryHandover shows that the X2 and RRC procedures of   *)
(* the mmWave cells implement this module.                                 *)
(***************************************************************************)
EXTENDS HandoverDecision, Sequences

VARIABLE outstanding

vars == <<decisionVars, outstanding>>

Transition == [from : Cell \cup {0}, to : Cell]

TypeOK ==
    /\ DecisionTypeOK
    /\ outstanding \in Seq(Transition)

Init ==
    /\ DecisionInit
    /\ outstanding = << >>

-----------------------------------------------------------------------------
\* The environment takes up the command of a step.
TakeUp ==
    outstanding' = IF sent'.type = "McHandoverRequest"
                   THEN Append(outstanding, [from |-> sent'.from, to |-> sent'.to])
                   ELSE outstanding

\* The oldest outstanding handover is completed: its target reports the UE.
HandoverCompleted ==
    /\ outstanding # << >>
    /\ RecvSecondaryCellHandoverCompleted(Head(outstanding).to)
    /\ outstanding' = Tail(outstanding)

Next ==
    \/ \E c \in Cell : DoRecvUeSinrUpdate(c) /\ UNCHANGED outstanding
    \/ RecvRrcConnectionRequest /\ UNCHANGED outstanding
    \/ RecvRrcConnectionSetupCompleted /\ UNCHANGED outstanding
    \/ \E c \in Cell : McSetupCompleted(c) /\ UNCHANGED outstanding
    \/ Tick /\ UNCHANGED outstanding
    \/ TriggerUeAssociationUpdate /\ TakeUp
    \/ PerformHandover /\ TakeUp
    \/ HandoverCompleted

Spec == Init /\ [][Next]_vars

\* The simulator runs every event that was scheduled: the periodic update, the
\* clock, the handover event; and the network answers every command.
Fairness ==
    /\ WF_vars(TriggerUeAssociationUpdate /\ TakeUp)
    /\ WF_vars(PerformHandover /\ TakeUp)
    /\ WF_vars(Tick /\ UNCHANGED outstanding)
    /\ \A c \in Cell : WF_vars(McSetupCompleted(c) /\ UNCHANGED outstanding)
    /\ WF_vars(HandoverCompleted)

FairSpec == Spec /\ Fairness

-----------------------------------------------------------------------------
(***************************************************************************)
(* Properties.                                                             *)
(***************************************************************************)

\* A scheduled handover event still describes the UE when it fires: the UE is
\* served over mmWave by the source of the event, no handover is in progress,
\* and the target is another cell.  The first half is the second assertion of
\* PerformHandover; the second half says that the event is never dropped.
EventIsCurrent ==
    event # NoEvent =>
        /\ event.source = lastCell
        /\ event.target # lastCell
        /\ setup = "true"
        /\ ~usingLte

\* The coordinator commands one handover at a time, and remembers it: while
\* one is outstanding the entry of the IMSI is false, the handover leaves the
\* cell the coordinator has recorded, and goes to another one.  This is what
\* keeps the arrival of the UE from being taken for "no difference".
OneHandoverAtATime ==
    outstanding # << >> =>
        /\ Len(outstanding) = 1
        /\ setup = "false"
        /\ outstanding[1].from = lastCell
        /\ outstanding[1].to # lastCell

\* Once the UE has had a mmWave cell the entry of the IMSI is false only while
\* a handover is outstanding: the coordinator never blocks itself.
FalseOnlyDuringHandover ==
    lastCell # 0 => (setup = "false" <=> outstanding # << >>)

\* The first connection is commanded once: a UE that has a mmWave cell is not
\* told to connect to one again, and is never told to connect to two.
OneFirstConnection ==
    /\ lastCell # 0 => connecting = {}
    /\ \A c, d \in connecting : c = d

\* What the two flags of a UE without a mmWave cell say about it.  The entry of
\* the IMSI, which most branches read as "on handover", is true only with a
\* cell; a UE that is to be connected when an outage ends has no command to
\* connect on its way, so that the end of the outage sends the first one.
FirstConnectionOrder ==
    /\ setup = "true" => lastCell # 0
    /\ setup = "absent" => ueState = "idle"
    /\ ueState # "connected" => lastCell = 0 /\ connecting = {} /\ ~allInOutage
    /\ allInOutage => lastCell = 0 /\ connecting = {}
    /\ lastCell = 0 => outstanding = << >>

\* A switch back to mmWave is commanded only to a UE that was switched to LTE
\* before, and only while no handover is outstanding, so that the switch and
\* the arrival at the target of a handover cannot cross.
SwitchBackAlone ==
    [][sent' = ConnectionSwitch(TRUE) =>
           usingLte /\ outstanding = << >> /\ lastCell # 0]_vars

RadioSettles == <>[][sinr' = sinr]_vars

\* The UE is where the decision wants it: on LTE in an outage; with the
\* threshold rule, a mmWave cell that no other exceeds by the threshold; with
\* the TTT rules, the best cell.
Settled ==
    \E max \in Cell :
        /\ IsMaxSinrCell(max)
        /\ \/ InOutage(max) /\ usingLte
           \/ /\ ~InOutage(max) /\ ~usingLte
              /\ \/ lastCell = max
                 \/ /\ HandoverMode = "THRESHOLD"
                    /\ ~DifferenceAbove(max, SinrThresholdDifference)

\* When the SINRs stop changing, a UE that has had a mmWave cell ends up for
\* ever where the decision wants it, however many handovers, outages and
\* scheduled events were in progress.
StableRadioSettles == RadioSettles => ([](lastCell = 0) \/ <>[]Settled)

\* A UE that attached while the best mmWave cell was in outage is told to
\* connect when a mmWave cell can serve it, "since for the first time one
\* mmWave eNB is not in outage" (lte-enb-rrc.cc:4076).
ConnectsAfterInitialOutage ==
    ~ <>[](/\ allInOutage
           /\ lastCell = 0
           /\ connecting = {}
           /\ \E c \in Cell : sinr[c] >= OutageThreshold + 2)
=============================================================================
