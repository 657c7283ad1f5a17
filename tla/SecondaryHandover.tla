-------------------------- MODULE SecondaryHandover -------------------------
(***************************************************************************)
(* The handover of one dual-connected UE between mmWave cells: the LTE     *)
(* coordinator (HandoverDecision), the mmWave eNBs, the mmWave RRC of the  *)
(* UE, and the X2 and RRC messages between them (lte-enb-rrc.cc,           *)
(* lte-ue-rrc.cc, epc-x2.cc).                                              *)
(*                                                                         *)
(* The coordinator asks the source cell for a handover (McHandoverRequest);*)
(* source and target prepare it (HandoverRequest, HandoverRequestAck); the *)
(* UE is commanded to the target, accesses it and reports (Reconfiguration-*)
(* Completed); the target tells the coordinator (SecondaryCellHandover-    *)
(* Completed), which has the source drop its context (UeContextRelease).   *)
(* Meanwhile an outage may switch the UE to LTE (ConnectionSwitch to the   *)
(* source cell, RrcConnectionSwitch to the UE).                            *)
(*                                                                         *)
(* Every link is a FIFO of its own with an arbitrary delay (but see        *)
(* RecvMcHandoverRequest).  The UE has one bearer.  The first connection   *)
(* to a mmWave cell is one step.  An assertion of the code is a guard      *)
(* here, and NoUnexpectedMessage says that no message meets a failing one. *)
(*                                                                         *)
(* Each operator named ...Mutant is a plausible mistake in the definition  *)
(* that follows it; none is used by the specification.                     *)
(***************************************************************************)
EXTENDS HandoverDecision, Sequences

CONSTANTS
    MaxRnti,        \* RNTIs are 1 .. MaxRnti (65535 in the code)
    AdmittingCells, \* cells whose attribute AdmitHandoverRequest is true
    Timeouts,       \* whether HANDOVER_JOINING/LEAVING may time out
    MaxInFlight     \* bound on the messages the coordinator has on a link

ASSUME NetworkAssumption ==
    /\ MaxRnti \in Nat \ {0}
    /\ AdmittingCells \subseteq Cell
    /\ Timeouts \in BOOLEAN
    /\ MaxInFlight \in Nat \ {0}

VARIABLES
    coordinator,    \* LTE UeManager: m_mmWaveCellId and m_mmWaveRnti
    commanded,      \* history: target of the last McHandoverRequest
    context,        \* m_ueMap of every mmWave cell
    lastRnti,       \* m_lastAllocatedRnti of every mmWave cell
    imsiRnti,       \* m_imsiRntiMap[imsi] of every mmWave cell, 0 if absent
    forwarding,     \* m_teidToBeForwardedMap[teid] of every mmWave cell, or 0
    ue,             \* the UE: state, cell and RNTI of its mmWave RRC, PDCP path
    link            \* messages in flight, per pair <<sender, receiver>>

cellVars == <<context, lastRnti, imsiRnti, forwarding>>
vars == <<decisionVars, coordinator, commanded, cellVars, ue, link>>

-----------------------------------------------------------------------------
Lte == 0
Ue == -1
Rnti == 1 .. MaxRnti
Links == {<<Lte, Ue>>}
           \cup ({Lte} \X Cell) \cup (Cell \X {Lte})
           \cup (Cell \X {Ue}) \cup ({Ue} \X Cell)
           \cup {l \in Cell \X Cell : l[1] # l[2]}

NoContext == [state |-> "none"]
Context == [state : {"CONNECTED_NORMALLY", "HANDOVER_PREPARATION",
                     "HANDOVER_LEAVING", "HANDOVER_JOINING"},
            source : Cell \cup {0},         \* m_sourceCellId
            sourceRnti : 0 .. MaxRnti,      \* m_sourceX2apId
            target : Cell \cup {0},         \* m_targetCellId
            rlcRequests : BOOLEAN,          \* m_rlcRequestVector is not empty
            rlc : BOOLEAN,                  \* m_rlcMap has the bearer
            joining : {"idle", "running", "expired"}]
                                            \* m_handoverJoiningTimeout

\* The messages.  Cell ids that equal an end of the link are left out.
McHandoverRequestMsg(d) == [type |-> "McHandoverRequest", target |-> d]
HandoverRequest(r, rlcs) == [type |-> "HandoverRequest", old |-> r, rlcs |-> rlcs]
HandoverRequestAck(r, n) == [type |-> "HandoverRequestAck", old |-> r, new |-> n]
HandoverPreparationFailure(r) == [type |-> "HandoverPreparationFailure", old |-> r]
SnStatusTransfer(n) == [type |-> "SnStatusTransfer", new |-> n]
HandoverCommand(d, n) == [type |-> "HandoverCommand", target |-> d, new |-> n]
ReconfigurationCompleted(n) == [type |-> "ReconfigurationCompleted", rnti |-> n]
SecondaryCellHandoverCompleted(n, r) ==
    [type |-> "SecondaryCellHandoverCompleted", new |-> n, old |-> r]
UeContextRelease(r) == [type |-> "UeContextRelease", old |-> r]
ConnectionSwitchMsg(r) == [type |-> "ConnectionSwitch", rnti |-> r]
RrcConnectionSwitch(u) == [type |-> "RrcConnectionSwitch", useMmWave |-> u]
NotifyCoordinatorHandoverFailed == [type |-> "NotifyCoordinatorHandoverFailed"]

Message ==
    {NotifyCoordinatorHandoverFailed}
      \cup [type : {"McHandoverRequest"}, target : Cell]
      \cup [type : {"HandoverRequest"}, old : Rnti, rlcs : BOOLEAN]
      \cup [type : {"HandoverRequestAck", "SecondaryCellHandoverCompleted"},
            old : Rnti, new : Rnti]
      \cup [type : {"HandoverPreparationFailure", "UeContextRelease"}, old : Rnti]
      \cup [type : {"SnStatusTransfer"}, new : Rnti]
      \cup [type : {"HandoverCommand"}, target : Cell, new : Rnti]
      \cup [type : {"ReconfigurationCompleted", "ConnectionSwitch"}, rnti : Rnti]
      \cup [type : {"RrcConnectionSwitch"}, useMmWave : BOOLEAN]

Init ==
    /\ DecisionInit
    /\ coordinator = [cell |-> 0, rnti |-> 0]
    /\ commanded = 0
    /\ context = [c \in Cell |-> [r \in Rnti |-> NoContext]]
    /\ lastRnti = [c \in Cell |-> 0]
    /\ imsiRnti = [c \in Cell |-> 0]
    /\ forwarding = [c \in Cell |-> 0]
    /\ ue = [state |-> "CONNECTED_NORMALLY", cell |-> 0, rnti |-> 0, useMmWave |-> FALSE]
    /\ link = [l \in Links |-> << >>]

TypeOK ==
    /\ DecisionTypeOK
    /\ coordinator \in [cell : Cell \cup {0}, rnti : 0 .. MaxRnti]
    /\ commanded \in Cell \cup {0}
    /\ context \in [Cell -> [Rnti -> Context \cup {NoContext}]]
    /\ lastRnti \in [Cell -> 0 .. MaxRnti]
    /\ imsiRnti \in [Cell -> 0 .. MaxRnti]
    /\ forwarding \in [Cell -> Cell \cup {0}]
    /\ ue \in [state : {"CONNECTED_NORMALLY", "CONNECTED_HANDOVER"},
               cell : Cell \cup {0}, rnti : 0 .. MaxRnti, useMmWave : BOOLEAN]
    /\ link \in [Links -> Seq(Message)]

-----------------------------------------------------------------------------
(***************************************************************************)
(* Links and contexts.                                                     *)
(***************************************************************************)
HeadIs(l, type) == link[l] # << >> /\ Head(link[l]).type = type

\* The links after a handler that consumes the heads of some links and sends
\* the messages sends[l] on each link l.
Exchange(consumed, sends) ==
    link' = [l \in Links |->
               (IF l \in consumed THEN Tail(link[l]) ELSE link[l]) \o sends[l]]
On(l, ms) == [x \in Links |-> IF x = l THEN ms ELSE << >>]
Nothing == [x \in Links |-> << >>]

HasContext(c, r) == r \in Rnti /\ context[c][r] # NoContext

\* AddUe: the first free RNTI after the last allocated one, in cyclic order;
\* the search ends before the predecessor of the last allocated one.
Distance(c, r) == (r - lastRnti[c] - 1) % (MaxRnti + 1)
FreeRntis(c) ==
    {r \in Rnti : /\ context[c][r] = NoContext
                  /\ lastRnti[c] = 0 \/ Distance(c, r) < MaxRnti - 1}
AddUeMutant(c) == (lastRnti[c] + 1) % (MaxRnti + 1)   \* takes RNTI 0
AddUe(c) ==
    CHOOSE r \in FreeRntis(c) : \A s \in FreeRntis(c) : Distance(c, r) <= Distance(c, s)

\* RegisterImsiToRnti.
RegisterImsiToRntiMutant(c, r) ==      \* an entry is not overwritten
    imsiRnti' = [imsiRnti EXCEPT ![c] = IF @ = 0 THEN r ELSE @]
RegisterImsiToRnti(c, r) == imsiRnti' = [imsiRnti EXCEPT ![c] = r]

\* A context whose bearer is set up by RecvRlcSetupRequest, if there is a
\* request: the RLC entity, and the request that a next handover passes on.
NewContextMutant(state, source, sourceRnti, rlcs) ==   \* forgets the request
    [state |-> state, source |-> source, sourceRnti |-> sourceRnti, target |-> 0,
     rlcRequests |-> FALSE, rlc |-> rlcs,
     joining |-> IF state = "HANDOVER_JOINING" THEN "running" ELSE "idle"]
NewContext(state, source, sourceRnti, rlcs) ==
    [state |-> state, source |-> source, sourceRnti |-> sourceRnti, target |-> 0,
     rlcRequests |-> rlcs, rlc |-> rlcs,
     joining |-> IF state = "HANDOVER_JOINING" THEN "running" ELSE "idle"]

SetContext(c, r, new) == context' = [context EXCEPT ![c][r] = new]
RemoveUeMutant(c, r) == UNCHANGED context
RemoveUe(c, r) == SetContext(c, r, NoContext)

-----------------------------------------------------------------------------
(***************************************************************************)
(* The coordinator.                                                        *)
(***************************************************************************)

\* The messages a command of the decision becomes.  A switch concerns the
\* bearers that have a mmWave leg (m_isMc), and there are none before the
\* first connection.
MessagesOfMutant(command) ==           \* the UE is not told of an outage
    CASE command.type = "McHandoverRequest" ->
            On(<<Lte, command.from>>, <<McHandoverRequestMsg(command.to)>>)
      [] command.type = "ConnectionSwitch" /\ coordinator.cell # 0 ->
            IF command.useMmWave THEN On(<<Lte, Ue>>, <<RrcConnectionSwitch(TRUE)>>)
            ELSE On(<<Lte, coordinator.cell>>, <<ConnectionSwitchMsg(coordinator.rnti)>>)
      [] OTHER -> Nothing
MessagesOf(command) ==
    CASE command.type = "McHandoverRequest" ->
            On(<<Lte, command.from>>, <<McHandoverRequestMsg(command.to)>>)
      [] command.type = "ConnectionSwitch" /\ coordinator.cell # 0 ->
            [On(<<Lte, Ue>>, <<RrcConnectionSwitch(command.useMmWave)>>)
               EXCEPT ![<<Lte, coordinator.cell>>] =
                         IF command.useMmWave THEN << >>
                         ELSE <<ConnectionSwitchMsg(coordinator.rnti)>>]
      [] OTHER -> Nothing

Transmit ==
    /\ Exchange({}, MessagesOf(sent'))
    /\ commanded' = IF sent'.type = "McHandoverRequest" THEN sent'.to ELSE commanded

Decide ==
    /\ TriggerUeAssociationUpdate \/ PerformHandover
    /\ Transmit
    /\ \A l \in Links : l[1] = Lte => Len(link'[l]) <= MaxInFlight
    /\ UNCHANGED <<coordinator, cellVars, ue>>

\* The steps of the decision that send nothing.
Local ==
    /\ \/ \E c \in Cell : DoRecvUeSinrUpdate(c)
       \/ RecvRrcConnectionRequest
       \/ RecvRrcConnectionSetupCompleted
       \/ Tick
    /\ UNCHANGED <<coordinator, commanded, cellVars, ue, link>>

\* The UE has connected to its first mmWave cell c, by random access at c and
\* the RLC setup between the coordinator and c.
Connect(c) ==
    /\ McSetupCompleted(c)
    /\ FreeRntis(c) # {}
    /\ LET r == AddUe(c) IN
         /\ SetContext(c, r, NewContext("CONNECTED_NORMALLY", 0, 0, TRUE))
         /\ lastRnti' = [lastRnti EXCEPT ![c] = r]
         /\ RegisterImsiToRnti(c, r)
         /\ coordinator' = [cell |-> c, rnti |-> r]
         /\ ue' = [state |-> "CONNECTED_NORMALLY", cell |-> c, rnti |-> r, useMmWave |-> TRUE]
    /\ UNCHANGED <<commanded, forwarding, link>>

\* RecvSecondaryCellHandoverCompleted saves the cell to release first.
OldMmWaveCellMutant(c) == c
OldMmWaveCell(c) == coordinator.cell

CompleteHandover(c) ==
    /\ HeadIs(<<c, Lte>>, "SecondaryCellHandoverCompleted")
    /\ LET m == Head(link[<<c, Lte>>]) IN
         /\ coordinator' = [cell |-> c, rnti |-> m.new]
         /\ Exchange({<<c, Lte>>}, On(<<Lte, OldMmWaveCell(c)>>, <<UeContextRelease(m.old)>>))
    /\ RecvSecondaryCellHandoverCompleted(c)
    /\ UNCHANGED <<commanded, cellVars, ue>>

\* EpcX2 has no branch for the procedure: the assertion "ProcedureCode NOT
\* SUPPORTED!!!" fails, or, in a build without assertions, nothing happens.
RecvNotifyCoordinatorHandoverFailedMutant(c) ==   \* gives the handover up
    /\ HeadIs(<<c, Lte>>, "NotifyCoordinatorHandoverFailed")
    /\ setup' = "true"
    /\ Exchange({<<c, Lte>>}, Nothing)
    /\ UNCHANGED <<ueState, sinr, lastCell, usingLte, bestCell, allInOutage, event,
                   sent, connecting, coordinator, commanded, cellVars, ue>>
RecvNotifyCoordinatorHandoverFailed(c) ==
    /\ HeadIs(<<c, Lte>>, "NotifyCoordinatorHandoverFailed")
    /\ Exchange({<<c, Lte>>}, Nothing)
    /\ UNCHANGED <<decisionVars, coordinator, commanded, cellVars, ue>>

-----------------------------------------------------------------------------
(***************************************************************************)
(* The mmWave cells.                                                       *)
(***************************************************************************)

\* DoRecvMcHandoverRequest and PrepareHandover: c prepares the handover of
\* the UE it knows for the IMSI.  All X2 links have the delay X2LinkDelay, so
\* that what the previous source sent c before it let the UE go has arrived:
\* since then the UE has come and two X2 messages have been delivered.
RecvMcHandoverRequest(c) ==
    /\ HeadIs(<<Lte, c>>, "McHandoverRequest")
    /\ \A d \in Cell \ {c} : link[<<d, c>>] = << >>
    /\ LET r == imsiRnti[c]
           d == Head(link[<<Lte, c>>]).target
       IN
         /\ HasContext(c, r)
         /\ context[c][r].state = "CONNECTED_NORMALLY"
         /\ SetContext(c, r, [context[c][r] EXCEPT !.state = "HANDOVER_PREPARATION",
                                                  !.target = d,
                                                  !.rlcRequests = FALSE])
         /\ Exchange({<<Lte, c>>},
                     On(<<c, d>>, <<HandoverRequest(r, context[c][r].rlcRequests)>>))
    /\ UNCHANGED <<decisionVars, coordinator, commanded, lastRnti, imsiRnti, forwarding, ue>>

\* DoRecvHandoverRequest at the target c, from the source d.
RecvHandoverRequest(d, c) ==
    /\ HeadIs(<<d, c>>, "HandoverRequest")
    /\ LET m == Head(link[<<d, c>>])
           r == AddUe(c)
       IN
         \/ /\ c \in AdmittingCells
            /\ FreeRntis(c) # {}
            /\ SetContext(c, r, NewContext("HANDOVER_JOINING", d, m.old, m.rlcs))
            /\ lastRnti' = [lastRnti EXCEPT ![c] = r]
            /\ RegisterImsiToRnti(c, r)
            /\ Exchange({<<d, c>>}, On(<<c, d>>, <<HandoverRequestAck(m.old, r)>>))
         \/ /\ c \notin AdmittingCells
            /\ Exchange({<<d, c>>}, On(<<c, d>>, <<HandoverPreparationFailure(m.old)>>))
            /\ UNCHANGED <<context, lastRnti, imsiRnti>>
    /\ UNCHANGED <<decisionVars, coordinator, commanded, forwarding, ue>>

\* RecvHandoverRequestAck at the source c, from the target d: command the UE,
\* and forward what arrives for its bearer from now on.
RecvHandoverRequestAck(d, c) ==
    /\ HeadIs(<<d, c>>, "HandoverRequestAck")
    /\ LET m == Head(link[<<d, c>>]) IN
         /\ HasContext(c, m.old)
         /\ SetContext(c, m.old, [context[c][m.old] EXCEPT !.state = "HANDOVER_LEAVING"])
         /\ IF context[c][m.old].rlc
            THEN /\ forwarding[c] = 0
                 /\ forwarding' = [forwarding EXCEPT ![c] = d]
            ELSE UNCHANGED forwarding
         /\ Exchange({<<d, c>>}, [On(<<c, Ue>>, <<HandoverCommand(d, m.new)>>)
                                    EXCEPT ![<<c, d>>] = <<SnStatusTransfer(m.new)>>])
    /\ UNCHANGED <<decisionVars, coordinator, commanded, lastRnti, imsiRnti, ue>>

RecvHandoverPreparationFailure(d, c) ==
    /\ HeadIs(<<d, c>>, "HandoverPreparationFailure")
    /\ LET r == Head(link[<<d, c>>]).old IN
         /\ HasContext(c, r)
         /\ context[c][r].state \in {"HANDOVER_PREPARATION", "HANDOVER_LEAVING"}
         /\ context[c][r].target = d
         /\ SetContext(c, r, [context[c][r] EXCEPT
                !.state = IF @ = "HANDOVER_PREPARATION" THEN "CONNECTED_NORMALLY" ELSE @])
    /\ Exchange({<<d, c>>}, Nothing)
    /\ UNCHANGED <<decisionVars, coordinator, commanded, lastRnti, imsiRnti, forwarding, ue>>

\* The status sets nothing: the call that would set the PDCP numbers is commented out.
RecvSnStatusTransfer(d, c) ==
    /\ HeadIs(<<d, c>>, "SnStatusTransfer")
    /\ HasContext(c, Head(link[<<d, c>>]).new)
    /\ Exchange({<<d, c>>}, Nothing)
    /\ UNCHANGED <<decisionVars, coordinator, commanded, cellVars, ue>>

ArrivalReportMutant(c, r) ==           \* the report is repeated
    On(<<c, Lte>>, << SecondaryCellHandoverCompleted(r, context[c][r].sourceRnti),
                      SecondaryCellHandoverCompleted(r, context[c][r].sourceRnti) >>)
ArrivalReport(c, r) ==
    On(<<c, Lte>>, <<SecondaryCellHandoverCompleted(r, context[c][r].sourceRnti)>>)

\* RecvRrcConnectionReconfigurationCompleted: the UE has arrived at c.  The
\* timeout is cancelled if it has not fired.
RecvReconfigurationCompleted(c) ==
    /\ HeadIs(<<Ue, c>>, "ReconfigurationCompleted")
    /\ LET r == Head(link[<<Ue, c>>]).rnti IN
         /\ HasContext(c, r)
         /\ context[c][r].state # "HANDOVER_PREPARATION"
         /\ IF context[c][r].state = "HANDOVER_JOINING"
            THEN /\ SetContext(c, r, [context[c][r] EXCEPT
                       !.state = "CONNECTED_NORMALLY",
                       !.joining = IF @ = "running" THEN "idle" ELSE @])
                 /\ Exchange({<<Ue, c>>}, ArrivalReport(c, r))
            ELSE Exchange({<<Ue, c>>}, Nothing) /\ UNCHANGED context
    /\ UNCHANGED <<decisionVars, coordinator, commanded, lastRnti, imsiRnti, forwarding, ue>>

\* RemoveTeidToBeForwarded for the bearer, if the context has it.
StopForwardingMutant(c, r) == UNCHANGED forwarding
StopForwarding(c, r) ==
    IF context[c][r].rlc
    THEN forwarding[c] # 0 /\ forwarding' = [forwarding EXCEPT ![c] = 0]
    ELSE UNCHANGED forwarding

RecvUeContextRelease(c) ==
    /\ HeadIs(<<Lte, c>>, "UeContextRelease")
    /\ LET r == Head(link[<<Lte, c>>]).old IN
         /\ HasContext(c, r)
         /\ context[c][r].state = "HANDOVER_LEAVING"
         /\ StopForwarding(c, r)
         /\ RemoveUe(c, r)
    /\ Exchange({<<Lte, c>>}, Nothing)
    /\ UNCHANGED <<decisionVars, coordinator, commanded, lastRnti, imsiRnti, ue>>

\* RecvConnectionSwitchToMmWave(FALSE): the bearer's buffer goes to the LTE
\* eNB, which becomes m_targetCellId, and the RLC entity is made anew.
RecvConnectionSwitchToMmWave(c) ==
    /\ HeadIs(<<Lte, c>>, "ConnectionSwitch")
    /\ LET r == Head(link[<<Lte, c>>]).rnti IN
         /\ HasContext(c, r)
         /\ context[c][r].rlc
         /\ SetContext(c, r, [context[c][r] EXCEPT !.target = Lte])
    /\ Exchange({<<Lte, c>>}, Nothing)
    /\ UNCHANGED <<decisionVars, coordinator, commanded, lastRnti, imsiRnti, forwarding, ue>>

-----------------------------------------------------------------------------
(***************************************************************************)
(* The UE.                                                                 *)
(***************************************************************************)

\* DoRecvRrcConnectionReconfiguration with mobility control information, and
\* DoNotifySecondaryCellHandover: the UE leaves c for the target.
UeRecvHandoverCommand(c) ==
    /\ HeadIs(<<c, Ue>>, "HandoverCommand")
    /\ ue.state = "CONNECTED_NORMALLY"
    /\ ue.cell = c
    /\ LET m == Head(link[<<c, Ue>>]) IN
         ue' = [ue EXCEPT !.state = "CONNECTED_HANDOVER", !.cell = m.target, !.rnti = m.new]
    /\ Exchange({<<c, Ue>>}, Nothing)
    /\ UNCHANGED <<decisionVars, coordinator, commanded, cellVars>>

\* DoNotifyRandomAccessSuccessful.  An access that does not succeed leaves the
\* UE in CONNECTED_HANDOVER, without a timeout of its own.
UeRandomAccessSuccessful ==
    /\ ue.state = "CONNECTED_HANDOVER"
    /\ HasContext(ue.cell, ue.rnti)
    /\ ue' = [ue EXCEPT !.state = "CONNECTED_NORMALLY"]
    /\ Exchange({}, On(<<Ue, ue.cell>>, <<ReconfigurationCompleted(ue.rnti)>>))
    /\ UNCHANGED <<decisionVars, coordinator, commanded, cellVars>>

UeRecvRrcConnectionSwitch ==
    /\ HeadIs(<<Lte, Ue>>, "RrcConnectionSwitch")
    /\ ue' = [ue EXCEPT !.useMmWave = Head(link[<<Lte, Ue>>]).useMmWave]
    /\ Exchange({<<Lte, Ue>>}, Nothing)
    /\ UNCHANGED <<decisionVars, coordinator, commanded, cellVars>>

-----------------------------------------------------------------------------
(***************************************************************************)
(* Timeouts.  They are 45 s, which no X2 message outlasts; the one of the  *)
(* source is started at least an X2 delay after the one of the target.     *)
(***************************************************************************)
X2Quiet == \A l \in Links : Ue \in {l[1], l[2]} \/ link[l] = << >>

\* What the removed UE context still had to send or to receive is lost.
LoseRadio(c) ==
    link' = [link EXCEPT ![<<c, Ue>>] = << >>, ![<<Ue, c>>] = << >>]

HandoverJoiningTimeout(c, r) ==
    /\ Timeouts /\ X2Quiet
    /\ HasContext(c, r)
    /\ context[c][r].state = "HANDOVER_JOINING"
    /\ context[c][r].joining = "running"
    /\ SetContext(c, r, [context[c][r] EXCEPT !.joining = "expired"])
    /\ Exchange({}, On(<<c, Lte>>, <<NotifyCoordinatorHandoverFailed>>))
    /\ UNCHANGED <<decisionVars, coordinator, commanded, lastRnti, imsiRnti, forwarding, ue>>

HandoverLeavingTimeout(c, r) ==
    /\ Timeouts /\ X2Quiet
    /\ HasContext(c, r)
    /\ context[c][r].state = "HANDOVER_LEAVING"
    /\ \A d \in Cell, s \in Rnti :
          HasContext(d, s) => context[d][s].joining # "running"
    /\ RemoveUe(c, r)
    /\ LoseRadio(c)
    /\ UNCHANGED <<decisionVars, coordinator, commanded, lastRnti, imsiRnti, forwarding, ue>>

\* The removal that HandoverJoiningTimeout scheduled, 300 ms later.  Nothing
\* cancels it.
RemoveUeAfterJoiningTimeout(c, r) ==
    /\ X2Quiet
    /\ HasContext(c, r)
    /\ context[c][r].joining = "expired"
    /\ \A d \in Cell \ {c}, s \in Rnti : context[d][s].state # "HANDOVER_LEAVING"
    /\ RemoveUe(c, r)
    /\ LoseRadio(c)
    /\ UNCHANGED <<decisionVars, coordinator, commanded, lastRnti, imsiRnti, forwarding, ue>>

-----------------------------------------------------------------------------
CellNext(c) ==
    \/ RecvMcHandoverRequest(c)
    \/ RecvReconfigurationCompleted(c)
    \/ RecvUeContextRelease(c)
    \/ RecvConnectionSwitchToMmWave(c)
    \/ UeRecvHandoverCommand(c)
    \/ Connect(c)
    \/ CompleteHandover(c)
    \/ RecvNotifyCoordinatorHandoverFailed(c)
    \/ \E d \in Cell \ {c} :
          \/ RecvHandoverRequest(d, c)
          \/ RecvHandoverRequestAck(d, c)
          \/ RecvHandoverPreparationFailure(d, c)
          \/ RecvSnStatusTransfer(d, c)

Timeout ==
    \E c \in Cell, r \in Rnti :
        \/ HandoverJoiningTimeout(c, r)
        \/ HandoverLeavingTimeout(c, r)
        \/ RemoveUeAfterJoiningTimeout(c, r)

Next ==
    \/ Local
    \/ Decide
    \/ \E c \in Cell : CellNext(c)
    \/ UeRandomAccessSuccessful
    \/ UeRecvRrcConnectionSwitch
    \/ Timeout

Spec == Init /\ [][Next]_vars

\* Scheduled events run, messages arrive, and, unless handovers may time out,
\* the random access of the UE succeeds.
Fairness ==
    /\ WF_vars(Decide)
    /\ WF_vars(Tick /\ Local)
    /\ \A c \in Cell : WF_vars(CellNext(c))
    /\ WF_vars(UeRecvRrcConnectionSwitch)
    /\ ~Timeouts => WF_vars(UeRandomAccessSuccessful)

FairSpec == Spec /\ Fairness

-----------------------------------------------------------------------------
(***************************************************************************)
(* Properties.                                                             *)
(***************************************************************************)

\* The network implements what the coordinator relies on: every commanded
\* handover is reported at most once, by the commanded target, and not before
\* it was commanded.  The handover is outstanding while the entry of the IMSI
\* is false.
Outstanding ==
    IF lastCell # 0 /\ setup = "false"
    THEN << [from |-> lastCell, to |-> commanded] >>
    ELSE << >>
Abstract == INSTANCE AbstractHandover WITH outstanding <- Outstanding
ImplementsAbstractHandover == Abstract!Spec

\* No message meets a failing assertion or an unexpected state at its
\* receiver: the context it is for exists and is in the state of the procedure
\* the message belongs to.
ContextIn(c, r, states) == HasContext(c, r) /\ context[c][r].state \in states

Expected(l, m) ==
    LET c == l[2] IN
    CASE m.type = "McHandoverRequest" ->
            ContextIn(c, imsiRnti[c], {"CONNECTED_NORMALLY"}) /\ m.target # c
      [] m.type = "HandoverRequest" -> FreeRntis(c) # {}
      [] m.type = "HandoverRequestAck" ->
            ContextIn(c, m.old, {"HANDOVER_PREPARATION"}) /\ forwarding[c] = 0
      [] m.type = "HandoverPreparationFailure" ->
            /\ ContextIn(c, m.old, {"HANDOVER_PREPARATION"})
            /\ context[c][m.old].target = l[1]
      [] m.type = "SnStatusTransfer" -> HasContext(c, m.new)
      [] m.type = "ReconfigurationCompleted" -> ContextIn(c, m.rnti, {"HANDOVER_JOINING"})
      [] m.type = "UeContextRelease" ->
            ContextIn(c, m.old, {"HANDOVER_LEAVING"}) /\ forwarding[c] # 0
      [] m.type = "ConnectionSwitch" -> HasContext(c, m.rnti) /\ context[c][m.rnti].rlc
      [] m.type = "HandoverCommand" ->
            ue.state = "CONNECTED_NORMALLY" /\ ue.cell = l[1]
      [] m.type = "SecondaryCellHandoverCompleted" -> setup = "false" /\ lastCell # l[1]
      [] m.type = "NotifyCoordinatorHandoverFailed" -> FALSE
      [] m.type = "RrcConnectionSwitch" -> TRUE

NoUnexpectedMessage ==
    \A l \in Links : link[l] # << >> => Expected(l, Head(link[l]))

\* When nothing is in flight and no handover is outstanding, the coordinator,
\* the cell and the UE agree on where the UE is, and no other cell keeps a
\* context of it or forwards its data.
Quiet == \A l \in Links : link[l] = << >>

AgreementWhenQuiet ==
    Quiet /\ setup = "true" =>
        /\ coordinator.cell = lastCell
        /\ ue.state = "CONNECTED_NORMALLY"
        /\ coordinator = [cell |-> ue.cell, rnti |-> ue.rnti]
        /\ imsiRnti[ue.cell] = ue.rnti
        /\ \A c \in Cell, r \in Rnti :
              context[c][r].state = IF <<c, r>> = <<ue.cell, ue.rnti>>
                                    THEN "CONNECTED_NORMALLY" ELSE "none"
        /\ \A c \in Cell : forwarding[c] = 0

\* A cell forwards the bearer's data while, and only while, it is the source
\* of a handover whose UE it has commanded away: a UE that comes back later is
\* not cut off by a forwarding of before.
ForwardsWhileLeaving ==
    \A c \in Cell :
        forwarding[c] # 0 <=>
            \E r \in Rnti : context[c][r].state = "HANDOVER_LEAVING"

\* The coordinator's downlink data finds an RLC entity: the context that it
\* sends to exists and has the bearer, after any number of handovers.
DownlinkHasRlc ==
    coordinator.cell # 0 =>
        /\ HasContext(coordinator.cell, coordinator.rnti)
        /\ context[coordinator.cell][coordinator.rnti].rlc

\* While the coordinator uses LTE the UE does too, as soon as the command that
\* was sent last has reached it.
OutageReachesUe ==
    usingLte /\ lastCell # 0 =>
        IF link[<<Lte, Ue>>] = << >> THEN ~ue.useMmWave
        ELSE LET s == link[<<Lte, Ue>>] IN ~s[Len(s)].useMmWave

\* Every commanded handover is completed, and the coordinator is free again.
HandoverCompletes == lastCell # 0 /\ setup = "false" ~> setup = "true"

\* A source does not forward for ever: its context is released.
SourceIsReleased ==
    \A c \in Cell : forwarding[c] # 0 ~> forwarding[c] = 0

\* Properties that a comment or an assertion of the code states, and that the
\* code does not have.

\* NS_ASSERT (cellId == m_targetCellId) in RecvHandoverPreparationFailure.
FailureComesFromTarget ==
    \A c \in Cell : \A d \in Cell \ {c} :
        HeadIs(<<d, c>>, "HandoverPreparationFailure") =>
            LET r == Head(link[<<d, c>>]).old IN
              HasContext(c, r) => context[c][r].target = d

\* Coming back from an outage by a handover switches the UE too: both ends of
\* the bearer use mmWave when nothing is in flight.
PathAgreementWhenQuiet ==
    Quiet /\ setup = "true" => ue.useMmWave = ~usingLte

=============================================================================
