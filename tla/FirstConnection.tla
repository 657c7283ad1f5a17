-------------------------- MODULE FirstConnection ---------------------------
(***************************************************************************)
(* The first connection of a UE to a mmWave cell: what SecondaryHandover   *)
(* takes as one step, Connect, with its messages (lte-enb-rrc.cc,          *)
(* lte-ue-rrc.cc, epc-ue-nas.cc, epc-enb-application.cc).                  *)
(*                                                                         *)
(* Three procedures of the LTE UeManager overlap.  The MME answers the     *)
(* attach with the UE's bearers (InitialContextSetupRequest), which are    *)
(* told to the UE by reconfigurations of the connection.  The decision     *)
(* tells the UE to connect to a mmWave cell (RrcConnectToMmWave), and the  *)
(* UE reports that it has (NotifySecondaryCellConnected).  Then, when      *)
(* there are bearers, the cell sets up an RLC entity for each of them      *)
(* (RlcSetupRequest, RlcSetupCompleted), and a further reconfiguration     *)
(* makes the UE do the same.  Its completion ends the connection.          *)
(*                                                                         *)
(* There is one mmWave cell; links are FIFO with arbitrary delays; the     *)
(* random access of the UE succeeds in the end.  With several component    *)
(* carriers in the LTE cell the command to connect waits for a first       *)
(* reconfiguration, which configures them.  What a switch between LTE and  *)
(* mmWave does to the buffers is left to SecondaryHandover.                *)
(*                                                                         *)
(* Each operator named ...Mutant is a plausible mistake in the definition  *)
(* that follows it; none is used by the specification.                     *)
(***************************************************************************)
EXTENDS HandoverDecision, Sequences, FiniteSets

CONSTANTS
    MaxBearers,     \* a UE has 1 .. MaxBearers data radio bearers
    MaxInFlight     \* bound on the messages to the UE when the decision runs

ASSUME ConnectionAssumption ==
    /\ \E c \in Cell : Cell = {c}
    /\ MaxBearers \in Nat \ {0}
    /\ MaxInFlight \in Nat \ {0}

VARIABLES
    bearers,        \* the bearers of the UE, 1 .. n
    caConfigured,   \* m_caSupportConfigured, TRUE with one LTE carrier
    state,          \* m_state of the LTE UeManager
    context,        \* the UE's context at the MME: "none", "requested", "setup"
    drb,            \* m_drbMap: "absent", "lte", or "mc" when m_isMc is set
    pending,        \* m_pendingRrcConnectionReconfiguration
    available,      \* m_mmWaveCellAvailableForMcSetup
    mmWaveCell,     \* m_mmWaveCellId, 0 until the UE has reported
    path,           \* the bearers whose McEnbPdcp uses mmWave
    remoteRlc,      \* RLC entities the mmWave cell has created for each bearer
    ue,             \* the UE: access to mmWave, bearers, mmWave RLC entities
    link            \* messages in flight, per pair <<sender, receiver>>

enbVars == <<caConfigured, state, drb, pending, available, mmWaveCell, path>>
vars == <<decisionVars, bearers, context, enbVars, remoteRlc, ue, link>>

-----------------------------------------------------------------------------
Lte == 0
Ue == -1
MmWave == CHOOSE c \in Cell : TRUE
Links == {<<Lte, Ue>>, <<Ue, Lte>>, <<Lte, MmWave>>, <<MmWave, Lte>>}
Bearer == 1 .. MaxBearers

RrcConnectToMmWave == [type |-> "RrcConnectToMmWave"]
RrcConnectionSwitch(bs, u) ==
    [type |-> "RrcConnectionSwitch", bearers |-> bs, useMmWave |-> u]
RrcConnectionReconfiguration(d) ==
    [type |-> "RrcConnectionReconfiguration", drb |-> d]
ReconfigurationCompleted == [type |-> "RrcConnectionReconfigurationCompleted"]
NotifySecondaryCellConnected == [type |-> "NotifySecondaryCellConnected"]
RlcSetupRequest(b) == [type |-> "RlcSetupRequest", drbid |-> b]
RlcSetupCompleted(b) == [type |-> "RlcSetupCompleted", drbid |-> b]

Drb == [Bearer -> {"absent", "lte", "mc"}]
Message ==
    {RrcConnectToMmWave, ReconfigurationCompleted, NotifySecondaryCellConnected}
      \cup [type : {"RrcConnectionSwitch"}, bearers : SUBSET Bearer, useMmWave : BOOLEAN]
      \cup [type : {"RrcConnectionReconfiguration"}, drb : Drb]
      \cup [type : {"RlcSetupRequest", "RlcSetupCompleted"}, drbid : Bearer]

Init ==
    /\ DecisionInit
    /\ bearers \in {1 .. n : n \in 1 .. MaxBearers}
    /\ caConfigured \in BOOLEAN
    /\ state = "INITIAL_RANDOM_ACCESS"
    /\ context = "none"
    /\ drb = [b \in Bearer |-> "absent"]
    /\ pending = FALSE
    /\ available = FALSE
    /\ mmWaveCell = 0
    /\ path = {}
    /\ remoteRlc = [b \in Bearer |-> 0]
    /\ ue = [access |-> "idle", drb |-> {}, rlc |-> [b \in Bearer |-> 0], path |-> {}]
    /\ link = [l \in Links |-> << >>]

TypeOK ==
    /\ DecisionTypeOK
    /\ bearers \in SUBSET Bearer
    /\ caConfigured \in BOOLEAN
    /\ state \in {"INITIAL_RANDOM_ACCESS", "CONNECTION_SETUP", "CONNECTED_NORMALLY",
                  "CONNECTION_RECONFIGURATION", "MC_CONNECTION_RECONFIGURATION"}
    /\ context \in {"none", "requested", "setup"}
    /\ drb \in Drb
    /\ pending \in BOOLEAN /\ available \in BOOLEAN
    /\ mmWaveCell \in Cell \cup {0}
    /\ path \in SUBSET Bearer
    /\ remoteRlc \in [Bearer -> Nat]
    /\ ue \in [access : {"idle", "accessing", "connected"}, drb : SUBSET Bearer,
               rlc : [Bearer -> Nat], path : SUBSET Bearer]
    /\ \A l \in Links : link[l] \in Seq(Message)

-----------------------------------------------------------------------------
(* Links.                                                                  *)

HeadIs(l, type) == link[l] # << >> /\ Head(link[l]).type = type

\* The links after a handler that consumes the heads of some links and sends
\* the messages sends[l] on each link l.
Exchange(consumed, sends) ==
    link' = [l \in Links |->
               (IF l \in consumed THEN Tail(link[l]) ELSE link[l]) \o sends[l]]
On(l, ms) == [x \in Links |-> IF x = l THEN ms ELSE << >>]
Nothing == [x \in Links |-> << >>]

-----------------------------------------------------------------------------
(* The LTE eNB.                                                            *)

Split(d) == {b \in Bearer : d[b] = "mc"}

ConnectCommand ==
    IF sent'.type = "ConnectToMmWave" THEN <<RrcConnectToMmWave>> ELSE << >>

\* SwitchToState(CONNECTED_NORMALLY): a reconfiguration that has had to wait
\* goes out at once.
BecomeConnected(waiting) ==
    /\ state' = IF waiting THEN "CONNECTION_RECONFIGURATION" ELSE "CONNECTED_NORMALLY"
    /\ pending' = FALSE
PendingReconfiguration(waiting) ==
    IF waiting THEN <<RrcConnectionReconfiguration(drb)>> ELSE << >>

Request ==
    /\ RecvRrcConnectionRequest
    /\ state' = "CONNECTION_SETUP"
    /\ context' = "requested"
    /\ UNCHANGED <<bearers, caConfigured, drb, pending, available, mmWaveCell, path,
                   remoteRlc, ue, link>>

\* The UE has completed the setup of its connection to the LTE cell.
SetupCompleted ==
    /\ state = "CONNECTION_SETUP"
    /\ \/ /\ caConfigured
          /\ RecvRrcConnectionSetupCompleted
          /\ Exchange({}, On(<<Lte, Ue>>,
               ConnectCommand \o PendingReconfiguration(pending)))
       \/ /\ ~caConfigured
          /\ Exchange({}, On(<<Lte, Ue>>, PendingReconfiguration(TRUE)))
          /\ UNCHANGED decisionVars
    /\ caConfigured' = TRUE
    /\ BecomeConnected(pending \/ ~caConfigured)
    /\ UNCHANGED <<bearers, context, drb, available, mmWaveCell, path, remoteRlc, ue>>

\* DoInitialContextSetupRequest calls SetupDataRadioBearer for each bearer of
\* the UE.  The first of the calls may send a reconfiguration, which has that
\* bearer only; the others find it going on.
DoInitialContextSetupRequestMutant ==  \* takes the setup for the end of the call
    /\ context = "requested"
    /\ context' = "setup"
    /\ drb' = [b \in Bearer |-> IF b \in bearers THEN "lte" ELSE "absent"]
    /\ \/ /\ state = "CONNECTED_NORMALLY"
          /\ state' = "CONNECTION_RECONFIGURATION"
          /\ pending' = (Cardinality(bearers) > 1)
          /\ Exchange({}, On(<<Lte, Ue>>,
               <<RrcConnectionReconfiguration([drb EXCEPT ![1] = "lte"])>>))
       \/ /\ state \in {"CONNECTION_SETUP", "CONNECTION_RECONFIGURATION"}
          /\ UNCHANGED <<state, pending, link>>
    /\ UNCHANGED <<decisionVars, bearers, caConfigured, available, mmWaveCell, path,
                   remoteRlc, ue>>
DoInitialContextSetupRequest ==
    /\ context = "requested"
    /\ context' = "setup"
    /\ drb' = [b \in Bearer |-> IF b \in bearers THEN "lte" ELSE "absent"]
    /\ \/ /\ state = "CONNECTED_NORMALLY"
          /\ state' = "CONNECTION_RECONFIGURATION"
          /\ pending' = (Cardinality(bearers) > 1)
          /\ Exchange({}, On(<<Lte, Ue>>,
               <<RrcConnectionReconfiguration([drb EXCEPT ![1] = "lte"])>>))
       \/ /\ state \in {"CONNECTION_SETUP", "CONNECTION_RECONFIGURATION"}
          /\ pending' = TRUE
          /\ UNCHANGED <<state, link>>
    /\ UNCHANGED <<decisionVars, bearers, caConfigured, available, mmWaveCell, path,
                   remoteRlc, ue>>

ToBeSplitMutant(last, cell) == bearers         \* forgets what has been set up
\* The bearers for which RecvRrcSecondaryCellInitialAccessSuccessful requests
\* an RLC entity from cell, last being the cell recorded for the IMSI.
ToBeSplit(last, cell) ==
    {b \in Bearer : drb[b] = "lte" \/ (drb[b] = "mc" /\ last # cell)}

\* The requests, in the order of m_drbMap.
RlcSetupRequests(last, cell) ==
    LET S == ToBeSplit(last, cell)
    IN  [i \in 1 .. Cardinality(S) |->
           RlcSetupRequest(CHOOSE b \in S : Cardinality({a \in S : a < b}) = i - 1)]

AwaitBearersMutant == UNCHANGED available      \* the report is forgotten
AwaitBearers == available' = TRUE

\* RecvRrcSecondaryCellInitialAccessSuccessful.
RecvNotifySecondaryCellConnected ==
    /\ HeadIs(<<Ue, Lte>>, "NotifySecondaryCellConnected")
    /\ mmWaveCell' = MmWave
    /\ \/ /\ context # "setup"
          /\ AwaitBearers
          /\ Exchange({<<Ue, Lte>>}, Nothing)
       \/ /\ context = "setup"
          /\ Exchange({<<Ue, Lte>>},
                      On(<<Lte, MmWave>>, RlcSetupRequests(lastCell, MmWave)))
          /\ UNCHANGED available
    /\ UNCHANGED <<decisionVars, bearers, caConfigured, context, state, drb, pending,
                   path, remoteRlc, ue>>

\* RecvRlcSetupCompleted does not wait for a reconfiguration that is going on.
RecvRlcSetupCompletedMutant ==         \* does not schedule the reconfiguration
    /\ HeadIs(<<MmWave, Lte>>, "RlcSetupCompleted")
    /\ drb' = [drb EXCEPT ![Head(link[<<MmWave, Lte>>]).drbid] = "mc"]
    /\ state' = "PREPARE_MC_CONNECTION_RECONFIGURATION"
    /\ Exchange({<<MmWave, Lte>>}, Nothing)
    /\ UNCHANGED <<decisionVars, bearers, caConfigured, context, pending, available,
                   mmWaveCell, path, remoteRlc, ue>>
RecvRlcSetupCompleted ==
    /\ HeadIs(<<MmWave, Lte>>, "RlcSetupCompleted")
    /\ drb' = [drb EXCEPT ![Head(link[<<MmWave, Lte>>]).drbid] = "mc"]
    /\ state' = "MC_CONNECTION_RECONFIGURATION"
    /\ pending' = FALSE
    /\ Exchange({<<MmWave, Lte>>},
                On(<<Lte, Ue>>, <<RrcConnectionReconfiguration(drb')>>))
    /\ UNCHANGED <<decisionVars, bearers, caConfigured, context, available, mmWaveCell,
                   path, remoteRlc, ue>>

\* In MC_CONNECTION_RECONFIGURATION a completion switches the bearers that are
\* split to mmWave, and the UE has its first mmWave cell.
SwitchedMutant == Split(drb) \cup (IF mmWaveCell # 0 THEN bearers ELSE {})
Switched == IF state = "MC_CONNECTION_RECONFIGURATION" THEN Split(drb) ELSE {}

SetupOfBearersCompleted ==
    /\ \/ /\ Switched = {}
          /\ UNCHANGED <<lastCell, setup, usingLte, sent, connecting>>
       \/ /\ Switched # {}
          /\ sent' = NoCommand
          /\ lastCell' = mmWaveCell
          /\ setup' = "true"
          /\ usingLte' = FALSE
          /\ connecting' = connecting \ {mmWaveCell}
    /\ UNCHANGED <<ueState, sinr, bestCell, allInOutage, event>>

\* RecvRrcConnectionReconfigurationCompleted.  ueState is "setup" while the
\* command to connect waits for the carriers (m_pendingConnectToMmWave).
RecvReconfigurationCompleted ==
    /\ HeadIs(<<Ue, Lte>>, "RrcConnectionReconfigurationCompleted")
    /\ \/ /\ state \in {"CONNECTION_RECONFIGURATION", "MC_CONNECTION_RECONFIGURATION"}
          /\ \/ /\ ueState = "setup"
                /\ RecvRrcConnectionSetupCompleted
                /\ Exchange({<<Ue, Lte>>}, On(<<Lte, Ue>>,
                     ConnectCommand \o PendingReconfiguration(pending)))
             \/ /\ ueState = "connected"
                /\ SetupOfBearersCompleted
                /\ Exchange({<<Ue, Lte>>},
                     [On(<<Lte, Ue>>, PendingReconfiguration(pending)) EXCEPT
                        ![<<Lte, MmWave>>] =
                           IF available THEN RlcSetupRequests(lastCell', mmWaveCell)
                                        ELSE << >>])
          /\ path' = path \cup Switched
          /\ BecomeConnected(pending)
       \/ /\ state = "CONNECTED_NORMALLY"
          /\ Exchange({<<Ue, Lte>>}, Nothing)
          /\ UNCHANGED <<decisionVars, state, pending, path>>
    /\ UNCHANGED <<bearers, caConfigured, context, drb, available, mmWaveCell,
                   remoteRlc, ue>>

\* A command of the decision; a switch goes to the bearers that are split.
Decide ==
    /\ TriggerUeAssociationUpdate
    /\ \/ /\ sent'.type = "ConnectToMmWave"
          /\ Exchange({}, On(<<Lte, Ue>>, <<RrcConnectToMmWave>>))
          /\ UNCHANGED path
       \/ /\ sent'.type = "ConnectionSwitch"
          /\ Exchange({}, On(<<Lte, Ue>>,
               <<RrcConnectionSwitch(Split(drb), sent'.useMmWave)>>))
          /\ path' = IF sent'.useMmWave THEN path \cup Split(drb) ELSE path \ Split(drb)
       \/ /\ sent'.type = "None"
          /\ UNCHANGED <<path, link>>
    /\ Len(link'[<<Lte, Ue>>]) <= MaxInFlight
    /\ UNCHANGED <<bearers, caConfigured, context, state, drb, pending, available,
                   mmWaveCell, remoteRlc, ue>>

Report ==
    /\ \E c \in Cell : DoRecvUeSinrUpdate(c)
    /\ UNCHANGED <<bearers, context, enbVars, remoteRlc, ue, link>>

-----------------------------------------------------------------------------
(* The mmWave cell and the UE.                                             *)

\* RecvRlcSetupRequest creates an RLC entity, even when there is one.
RecvRlcSetupRequest ==
    /\ HeadIs(<<Lte, MmWave>>, "RlcSetupRequest")
    /\ LET b == Head(link[<<Lte, MmWave>>]).drbid IN
         /\ remoteRlc' = [remoteRlc EXCEPT ![b] = @ + 1]
         /\ Exchange({<<Lte, MmWave>>}, On(<<MmWave, Lte>>, <<RlcSetupCompleted(b)>>))
    /\ UNCHANGED <<decisionVars, bearers, context, enbVars, ue>>

UeRecvRrcConnectToMmWave ==
    /\ HeadIs(<<Lte, Ue>>, "RrcConnectToMmWave")
    /\ ue.access = "idle"
    /\ ue' = [ue EXCEPT !.access = "accessing"]
    /\ Exchange({<<Lte, Ue>>}, Nothing)
    /\ UNCHANGED <<decisionVars, bearers, context, enbVars, remoteRlc>>

\* The mmWave RRC of the UE is connected (DoNotifyConnectionSuccessful).
UeConnectionSuccessful ==
    /\ ue.access = "accessing"
    /\ ue' = [ue EXCEPT !.access = "connected"]
    /\ Exchange({}, On(<<Ue, Lte>>, <<NotifySecondaryCellConnected>>))
    /\ UNCHANGED <<decisionVars, bearers, context, enbVars, remoteRlc>>

\* ApplyRadioResourceConfigDedicated: a bearer that is new to the UE gets its
\* LTE RLC entity only; one that it has gets a new mmWave RLC entity whenever
\* the message says that it is split.
UeRecvReconfiguration ==
    /\ HeadIs(<<Lte, Ue>>, "RrcConnectionReconfiguration")
    /\ LET d == Head(link[<<Lte, Ue>>]).drb
           split == Split(d) \cap ue.drb
       IN  ue' = [ue EXCEPT
                    !.drb = @ \cup {b \in Bearer : d[b] # "absent"},
                    !.rlc = [b \in Bearer |-> IF b \in split THEN @[b] + 1 ELSE @[b]],
                    !.path = @ \cup split]
    /\ Exchange({<<Lte, Ue>>}, On(<<Ue, Lte>>, <<ReconfigurationCompleted>>))
    /\ UNCHANGED <<decisionVars, bearers, context, enbVars, remoteRlc>>

UeRecvRrcConnectionSwitch ==
    /\ HeadIs(<<Lte, Ue>>, "RrcConnectionSwitch")
    /\ LET m == Head(link[<<Lte, Ue>>])
           known == m.bearers \cap ue.drb
       IN  ue' = [ue EXCEPT !.path = IF m.useMmWave THEN @ \cup known ELSE @ \ known]
    /\ Exchange({<<Lte, Ue>>}, Nothing)
    /\ UNCHANGED <<decisionVars, bearers, context, enbVars, remoteRlc>>

-----------------------------------------------------------------------------
Deliver ==
    \/ RecvNotifySecondaryCellConnected
    \/ RecvReconfigurationCompleted
    \/ RecvRlcSetupRequest
    \/ RecvRlcSetupCompleted
    \/ UeRecvRrcConnectToMmWave
    \/ UeRecvReconfiguration
    \/ UeRecvRrcConnectionSwitch

Next ==
    \/ Request
    \/ SetupCompleted
    \/ DoInitialContextSetupRequest
    \/ Decide
    \/ Report
    \/ UeConnectionSuccessful
    \/ Deliver

Spec == Init /\ [][Next]_vars

\* Messages arrive, each in its turn on its link; the MME answers; the random
\* access of the UE succeeds.
Fairness ==
    /\ WF_vars(DoInitialContextSetupRequest)
    /\ WF_vars(UeConnectionSuccessful)
    /\ WF_vars(RecvNotifySecondaryCellConnected \/ RecvReconfigurationCompleted)
    /\ WF_vars(RecvRlcSetupRequest)
    /\ WF_vars(RecvRlcSetupCompleted)
    /\ WF_vars(UeRecvRrcConnectToMmWave \/ UeRecvReconfiguration
                 \/ UeRecvRrcConnectionSwitch)

FairSpec == Spec /\ Fairness

-----------------------------------------------------------------------------
(* Properties.                                                             *)

\* No handler meets a failing assertion, the fatal default of a switch over
\* m_state, or a missing entry of a map: the MME's answer comes in a state in
\* which a reconfiguration can be scheduled; m_lastMmWaveCell is known when it
\* is compared for a bearer that is split; a UE that waits for the carriers has
\* neither reported a cell nor a split bearer; a completed setup is for a bearer
\* there is; and the UE is told to connect once.
NoUnexpectedMessage ==
    /\ context = "requested" =>
         state \in {"CONNECTION_SETUP", "CONNECTED_NORMALLY", "CONNECTION_RECONFIGURATION"}
    /\ HeadIs(<<Ue, Lte>>, "RrcConnectionReconfigurationCompleted") =>
         /\ state \notin {"INITIAL_RANDOM_ACCESS", "CONNECTION_SETUP"}
         /\ ueState = "setup" => ~available /\ Switched = {}
         /\ available /\ Split(drb) # {} =>
              lastCell # 0 \/ state # "CONNECTION_RECONFIGURATION"
    /\ HeadIs(<<Ue, Lte>>, "NotifySecondaryCellConnected") => Split(drb) = {}
    /\ HeadIs(<<MmWave, Lte>>, "RlcSetupCompleted") =>
         drb[Head(link[<<MmWave, Lte>>]).drbid] # "absent"
    /\ HeadIs(<<Lte, Ue>>, "RrcConnectToMmWave") => ue.access = "idle"

\* The only bearer of a UE gets one RLC entity at the mmWave cell and one peer
\* at the UE, in whatever order the MME's answer, the report of the UE and the
\* reconfigurations come: an entity that is made anew under one in use would
\* start again from sequence number 0.
OneRlcPerBearer ==
    bearers = {1} => remoteRlc[1] <= 1 /\ ue.rlc[1] <= 1

\* When nothing is in flight and the MME has answered, a UE that has connected
\* to the mmWave cell has all its bearers split, at every node; nothing of the
\* three procedures is forgotten.
SplitWhenQuiet ==
    /\ \A l \in Links : link[l] = << >>
    /\ context = "setup"
    /\ ue.access = "connected"
    => /\ setup = "true" /\ lastCell = MmWave
       /\ state = "CONNECTED_NORMALLY" /\ ~pending
       /\ \A b \in bearers : /\ drb[b] = "mc"
                             /\ remoteRlc[b] >= 1 /\ ue.rlc[b] >= 1

\* A UE that was told to connect to the mmWave cell is connected, and has its
\* bearers there.
ConnectCompletes ==
    connecting # {} ~>
        setup = "true" /\ \A b \in bearers : drb[b] = "mc" /\ ue.rlc[b] >= 1

\* For a UE with one bearer the messages implement the first connection of
\* AbstractHandover: one step, McSetupCompleted, some time after the command.
Abstract == INSTANCE AbstractHandover WITH outstanding <- << >>
ImplementsFirstConnection ==
    [][bearers = {1} => Abstract!Next]_decisionVars
=============================================================================
