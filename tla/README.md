# Verification of dual connectivity with mmWave mobility

The repository is a fork of ns-3 (`src/ns3-mmwave-new-handover`) that adds
5G mmWave cells to the LTE module. A user equipment (UE) is *dual connected*:
its radio bearer has one PDCP in the LTE eNB, the **coordinator**, and its RLC
either in the coordinator or in one mmWave cell. The coordinator collects the
SINR of the UE at every mmWave cell, decides when the UE changes cell or falls
back to LTE, and drives the X2 and RRC procedures that carry the decision out.
That logic is the program's own; it is event-driven, it spans four kinds of
nodes that learn of a handover at different times, and a simulation run
exercises only the few interleavings its channel happens to produce. Under it,
RLC in acknowledged mode carries the bearers over a MAC that loses PDUs. This
directory models both in TLA+, checks them with TLC and proves their core with TLAPS.

Paths below are relative to `src/ns3-mmwave-new-handover/src`.

## 1. Inventory

| Component | State | Operations | What makes it hard, and correct |
|---|---|---|---|
| **Handover decision** (`lte/model/lte-enb-rrc.cc`, coordinator) | per IMSI: SINR map, `m_mmWaveCellSetupCompleted` (the *entry*: absent, false, true), `m_lastMmWaveCell`, `m_imsiUsingLte`, `m_bestMmWaveCellForImsiMap`, the scheduled handover event; the initial-outage flag | `DoRecvUeSinrUpdate`, `TriggerUeAssociationUpdate` (every `CrtPeriod`), `TttBasedHandover`, `ThresholdBasedSecondaryCellHandover`, `ComputeTtt`, `PerformHandover`, attach, first connection, `RecvSecondaryCellHandoverCompleted` | A scheduled event, an outage, a running handover and the first connection overlap. Events must not be stale, handovers must be serial, the entry must not block the UE, the decision must settle |
| **X2 procedures of the secondary-cell handover** (`lte-enb-rrc.cc`, `epc-x2.cc`) | `UeManager` contexts of each mmWave cell, RNTI allocation, IMSI to RNTI map, TEIDs being forwarded, messages in flight | `McHandoverRequest`, `HandoverRequest`, `...Ack`, `...PreparationFailure`, `SnStatusTransfer`, `SecondaryCellHandoverCompleted`, `UeContextRelease`, `SwitchConnection`, joining and leaving timeouts | Messages of consecutive handovers and of an outage overlap; rejection; timeouts; state that outlives a context |
| **UE RRC** (`lte-ue-rrc.cc`) | RRC state, mmWave cell and RNTI, path of the bearer | handover command, random access result, connection switch | Moves while switches are in flight |
| **First connection and RLC setup** (`lte-enb-rrc.cc`, `lte-ue-rrc.cc`, `epc-ue-nas.cc`, `epc-enb-application.cc`) | state of the LTE `UeManager`, `m_drbMap` with `m_isMc`, `m_pendingRrcConnectionReconfiguration`, `m_mmWaveCellAvailableForMcSetup`, RLC entities at the cell and at the UE | `InitialContextSetupRequest`, `RrcConnectionReconfiguration`, `RrcConnectToMmWave`, `NotifySecondaryCellConnected`, `RlcSetupRequest`, `RlcSetupCompleted` | The MME's answer, the UE's report and the reconfigurations overlap. Every bearer must be set up once at both ends, nothing forgotten |
| **PDCP of a dual-connected bearer** (`mc-enb-pdcp.cc`, `mc-ue-pdcp.cc`) | sequence numbers, current path | transmit, receive, switch, forward over X2-U | Path and numbers across handovers |
| **RLC AM** (`lte-rlc-am.cc`) | sequence numbers modulo 1024, windows, transmitted and retransmission buffers, reception buffer, four timers | new PDUs, polling, STATUS PDUs, retransmission whole and in segments, reordering, reassembly | Loss, overtaking, a full window and the wrap of the numbers together; neither side may wait for ever |
| **Buffer forwarding** (`lte-enb-rrc.cc`) | forwarding buffer | `MergeBuffers`, `ForwardRlcBuffers` | Order and completeness of what a handover carries over |
| **mmWave random access** (`mmwave/model`, `lte-ue-rrc.cc`, `lte-enb-rrc.cc`) | common preamble counter, received and reserved preambles, RNTIs, contexts | `SendRaPreamble`, `DoSubframeIndication`, `AllocateNcRaPreamble`, connection request, setup and timeouts | UEs are told apart by preamble only; entries expire; nobody retries a lost response |
| **mmWave HARQ** (`mmwave/model`) | HARQ processes | feedback | Reuse of a process |
| **EPC** (MME, SGW/PGW, eNB application) | bearers, tunnel end points | attach, path switch | Not used by a secondary handover |
| **LTE and inter-RAT handover** | as X2 | `HandoverRequest` with path switch | Planned |
| PHY, channel, propagation, schedulers | floating point | | Its result, the SINR, is an arbitrary input here |
| Helpers, traces, scenario scripts, stock ns-3 | | | No protocol state of this program |

Interaction: mmWave cell -> (X2 `UpdateUeSinr`) -> coordinator; coordinator ->
(X2 `McHandoverRequest`) -> source cell -> (X2 `HandoverRequest` / `Ack`) ->
target cell; source -> (RRC) -> UE -> (random access, RRC) -> target -> (X2
`SecondaryCellHandoverCompleted`) -> coordinator -> (X2 `UeContextRelease`) ->
source. On an outage: coordinator -> (RRC `RrcConnectionSwitch` over LTE) -> UE
and coordinator -> (X2 `SwitchConnection`) -> serving cell.

## 2. Modules

| Module | Models |
|---|---|
| `HandoverDecision` | the state and every step of the coordinator's decision for one IMSI. Actions bear the names of the functions. A command that is handed to a SAP is the variable `sent` |
| `AbstractHandover` | the decision with the most general network: each commanded handover is completed once, at some later time, or never. It states what the decision guarantees, and it is the specification the network must implement |
| `SecondaryHandover` | the decision with the coordinator's X2 side, the mmWave cells, the UE and FIFO links between them; one action per handler |
| `FirstConnection` | the decision with the attach, the MME's answer, the reconfigurations of the LTE connection and the setup of the RLC entities: what `SecondaryHandover` takes as one step |
| `RandomAccess` | several UEs that access one mmWave cell, with or without a reserved preamble: the PHY and MAC of both ends and the RRC procedures that use the RNTI |
| `SequenceNumbers` | arithmetic on RLC sequence numbers and their comparison from a modulus base |
| `RlcAm` | one direction of an acknowledged-mode bearer: transmitting side, MAC with loss and overtaking, receiving side |
| `HandoverDecision_proofs` | lemmas on the types of the decision's steps, and on the messages of a FIFO link, for every module that extends it |
| `RlcAmHistory` | no code: the definitions of the invariant of `RlcAm`, a history that says which PDU each sequence number stands for |
| `AbstractHandover_proofs`, `SecondaryHandover_proofs`, `HandoverContexts_proofs`, `FirstConnection_proofs`, `RandomAccess_proofs`, `RlcAm_proofs`, `RlcAmHistory_proofs` | the theorems, proved with TLAPS |
| `MCAbstractHandover`, `MCHandoverRules`, `MCSecondaryHandover`, `MCFirstConnection`, `MCRandomAccess`, `MCRlcAm` | the instances for TLC |

`SecondaryHandover` and `FirstConnection` both extend `HandoverDecision`, so that
the decision runs inside them, and both are compared with `AbstractHandover`.
`RandomAccess` is what `SecondaryHandover` and `FirstConnection` take as one step, the
access of a UE, for a cell with several UEs; the cells around it are not in it.
`RlcAm` stands by itself: the entities of a bearer are created by
`FirstConnection` and replaced by a handover.

### How state and actions correspond to the code

`HandoverDecision`. `setup` is the entry of the IMSI; the code reads "absent" as
*not associated* and "false" as *on handover*, and so do `alreadyAssociated` and
`onHandover`. `TriggerUeAssociationUpdate` contains the whole call chain: the
scan for the best cell, the outage test, the record of the best cell, the rule
of `HandoverMode`, and the command it sends. An event is a record
`[source, target, left]`, `left` being the milliseconds to go; `Tick` lets one
pass and `PerformHandover` runs at zero, before another periodic update.
SINRs are whole dB above a floor, with 0 for "no report": the code takes the
logarithm of 0 there, minus infinity, and `DifferenceAbove` treats it so. The
absolute value the code takes of the difference is that of the best minus the
current cell, which is never negative. `McSetupCompleted` is the end of the
first connection.

`SecondaryHandover`. `context[c][r]` is the `UeManager` of RNTI `r` in cell `c`;
`ue` is the mmWave RRC of the UE with the path its PDCP uses. An assertion of
the code is a guard of the action, and `NoUnexpectedMessage` states that no
message at the head of a link fails one, so that a blocked message is an error
and not a silent end of a behaviour. The following is abstracted:

- one UE with one bearer, RLC AM, and no S1 signalling;
- the first connection is one step, `Connect`, which `FirstConnection` refines for
  a UE with one bearer (`ImplementsFirstConnection`);
- links are FIFO with arbitrary delay. One guard of `RecvMcHandoverRequest` uses
  that the delay of all X2 links is the same (`X2LinkDelay`, `mmwave-helper.cc`):
  an older message from the previous source to the same cell has arrived;
- the two timeouts are 45 s, longer than any X2 exchange, so that they fire only
  when no X2 message is in flight, the joining one (started first) first;
- random access is one step (`RandomAccess`); its failure is that it never succeeds;
- an `Exchange` replaces marshalling in `epc-x2.cc`: it consumes the head of a
  link and appends the messages of the handler; identifiers that equal an end of
  the link are left out.

`FirstConnection`. `state` is `m_state` of the LTE `UeManager`, `drb` its
`m_drbMap` with `m_isMc`, `pending` and `available` the two flags; `remoteRlc`
and `ue.rlc` count the RLC entities that each end has created for a bearer.
`BecomeConnected` is `SwitchToState (CONNECTED_NORMALLY)`, which sends the
reconfiguration that had to wait; it is part of every action that ends a
reconfiguration. `SetupDataRadioBearer` runs once for each bearer of the MME's
answer, in one event, and the first call may send the reconfiguration before the
others have added theirs. With several LTE carriers (`caConfigured` is `FALSE` at
the start) the command to connect waits for a reconfiguration that configures
them; `ueState` is "setup" until then. A switch goes to the bearers that are split. The
following is abstracted:

- one mmWave cell, so that no handover comes into it;
- the state `PREPARE_MC_CONNECTION_RECONFIGURATION` is left in the call that
  enters it; transaction identifiers are not read by the receiver;
- connection rejects and timeouts, release and re-establishment;
- the buffers that a switch forwards.

`RandomAccess`. `ue` joins the mmWave RRC and MAC of each UE, `reserved` is
`m_allocatedNcRaPreambleMap` with a flag for `expiryTime`, `received` the preambles of
`m_receivedRachPreambleCount`, whose count nothing reads. `SubframeIndication` answers all
of them, in their order, and takes an entry out of `reserved` or a new RNTI for each.
A response is heard by every UE of the cell (`ReceiveRar`), also by one whose RRC
has other plans. What the code compares with a clock is gathered under "Time":
control messages take a few slots, T300 100 ms, `ConnectionSetupTimeout` 150 ms, a
reserved preamble 400 ms, `HandoverJoiningTimeout` 45 s. The following is abstracted:

- the other cells: a UE comes from one (`RecvHandoverRequest` with its command), leaves
  for one (`LeaveCell`) and starts connections there, which advances the common
  counter (`StartConnectionElsewhere`);
- RNTIs are not reused: `MaxRnti` is a bound, and the 16 bits of the code are not
  exhausted (`SecondaryHandover` has the reuse);
- `HandoverJoiningTimeout` removes the context at once, not after its 300 ms;
- `CommandsInTime`: a command arrives before its preamble expires.
  `MaxAccesses <= NumberOfRaPreambles` in the run: the counter has not reached the reserved range.

`RlcAm`. The variables are those of `lte-rlc-am.h`: `txed` and `retx` are
`m_txedBuffer` and `m_retxBuffer` by sequence number, `retxSeg` the offset of a
retransmission that has been cut, `rxon` the reception buffer. A timer and the
number it was started for are one variable, and a timer may expire whenever it
runs. `TransmitPdcpPdu` is the entry from PDCP, `SendNewPdu`, `RetransmitAll`,
`RetransmitSegment`, `RetransmitNothing` and `SendStatusPdu` are the branches of
`DoNotifyTxOpportunity`, `ReceiveStatusPdu` and `ReceiveDataPdu` those of
`DoReceivePdu`, the rest are the timers. `m_txOpportunityForRetxAlwaysBigEnough`
is fixed at the start as in the code. The following is abstracted:

- a PDU is an interval of the stream of bytes; framing information and length
  indicators, which reassembly reads back, follow from it. Segments of no length,
  which the code can send when only the header fits, are left out;
- the peer has no data of its own to send, so that its opportunities are those it
  asks for;
- the MAC loses any PDU; a data PDU is overtaken by at most `Overtakes` others
  (HARQ retransmissions); STATUS PDUs stay in order, which `t-StatusProhibit`
  sees to;
- buffer sizes reported to the MAC, but for whether it has been told of a STATUS
  PDU; dropping in the transmission buffer by CoDel;
- the replacement of the entity at a switch or handover.

## 3. Properties and what they say of the code

Decision (`AbstractHandover`):

- `EventIsCurrent`: a scheduled handover still describes the UE when it fires.
  This is the assertion in `PerformHandover` and more: its "on handover" branch,
  a TODO in the code, is unreachable. It depends on every path that changes the
  cell or leaves mmWave cancelling the event.
- `OneHandoverAtATime`, `FalseOnlyDuringHandover`: the entry of the IMSI is false
  exactly while one handover is outstanding. Three paths clear it, two set it.
- `OneFirstConnection`, `FirstConnectionOrder`: the first connection is commanded
  once, from the attach or from the end of an initial outage, although the
  periodic update runs many times before the UE is connected.
- `SwitchBackAlone`: a switch back to mmWave is not sent while a handover, which
  also sets the path of the bearer, is outstanding.
- `StableRadioSettles`: when the SINRs stop changing, the UE ends up and stays
  where the rule wants it.
- `ConnectsAfterInitialOutage`: a UE that attached in an outage is told to connect
  when a cell can serve it (violated with the threshold rule).

Network (`SecondaryHandover`):

- `ImplementsAbstractHandover`: the messages implement `AbstractHandover`, with
  the outstanding handover read off the coordinator's maps. A completion that
  is repeated, invented or from another cell than the commanded one is a step
  `AbstractHandover` does not have.
- `NoUnexpectedMessage`: no assertion of a handler fails and no message finds a
  context in another state than its procedure needs.
- `AgreementWhenQuiet`: after any number of handovers and outages coordinator,
  cell and UE agree on the cell and the RNTI, and nothing else is left over.
- `ForwardsWhileLeaving`, `SourceIsReleased`: a cell forwards the bearer's data
  exactly while its UE is leaving, and not for ever.
- `DownlinkHasRlc`: the coordinator's data finds an RLC entity, although each
  cell learns from its predecessor how to set it up.
- `OutageReachesUe`: on LTE the coordinator and the UE agree once the last
  command has arrived.
- `HandoverCompletes`: a commanded handover is completed.

First connection (`FirstConnection`):

- `NoUnexpectedMessage`: no assertion, no fatal default of a `switch` over
  `m_state`, no missing map entry, whatever the order of the three procedures.
- `OneRlcPerBearer`: the bearer of a UE with one bearer gets one RLC entity at the
  cell and one at the UE. A second entity would start again at number 0 under a
  peer that does not.
- `SplitWhenQuiet`: when nothing is in flight every bearer of a connected UE is
  split at coordinator, cell and UE, and no flag still waits for something.
- `ConnectCompletes`: a UE that is told to connect gets there with its bearers.
- `ImplementsFirstConnection`: with one bearer the decision sees one step, after
  the command, that sets all its maps; until then the UE counts as on handover.

Random access (`RandomAccess`):

- `RntiIsOwn`: no two UEs of a cell use one RNTI, and the context of an RNTI is that of
  its UE, although the cell tells UEs apart by preambles alone and gives reserved
  preambles to others when they are used or expired.
- `NoUnexpectedMessage`: requests, setups and completions meet a context and a state that
  expects them, with the timeouts of the UE and of the cell in between.
- `AccessIsAnswered`: every preamble is answered, to the UE that sent it; the MAC has no timer.

RLC AM (`RlcAm`):

- `InOrder`: what is delivered is the stream that PDCP submitted, with nothing left
  out, doubled or swapped. `NoByteLost`: the transmitting side drops a PDU only
  when the receiving side has all of it, although a STATUS PDU may have no room
  for all the missing numbers.
- `SenderWindow`, `ReceiverOrder`: the order of the state variables, on which every
  comparison from a modulus base depends, and that a buffer never holds two PDUs
  of one number. `HeadIsHeld`, `NackIsHeld`: the PDUs that the code dereferences or
  asserts to be in a buffer are there.
- `SenderAwake`: where opportunities take a whole retransmission, a transmitting side
  that waits for an acknowledgement has a timer, a retransmission or a new PDU to
  come, or owes the poll of an expired timer. `DeliveredOrPollOwed`: that poll is
  the one thing that can keep a bearer at rest from having delivered all;
  `DeliveredUnlessPollOwed`: all data arrive in the end unless it does.
- `DeliveredAtTheEnd`: a bearer at rest has delivered all (violated, by an owed poll).
- `WholePduIsPlaced`: a whole PDU of the window completes its number (violated).

## 4. Runs

| Run | Instance | Shows |
|---|---|---|
| `decision` | 3 cells, SINR 1..5, dynamic TTT of 1 to 3 ms or the threshold rule, fair | safety and liveness of the decision, for both rules |
| `handover` | 2 cells, 3 RNTIs, 2 messages from the coordinator per link, TTT 0 | handovers back and forth crossed by outages |
| `handover_failures` | 3 cells, of which cell 2 rejects, threshold rule, timeouts, 1 message per link | a target other than the previous source; the decision survives rejected and failed handovers |
| `handover_progress` | 2 cells, fair | handovers complete, sources are released |
| `first_connection` | 1 to 3 bearers, 1 mmWave cell, 3 messages to the UE, fair | the first connection in every order, crossed by outages |
| `random_access` | 3 UEs of which 2 dual-connected, 3 contention and 2 reserved preambles, 2 accesses, 4 RNTIs, fair | RNTIs are not mixed up, whatever is lost, late or expires |
| `rlc_am` | numbers modulo 5, window 2, 3 SDUs of 2 bytes, loss, overtaking by 1, fair | the protocol, whole and cut retransmissions |
| `initial_outage_threshold` | 2 cells, threshold rule, fair | **violation**: the UE is never connected |
| `path_agreement` | 2 cells | **violation**: UE keeps LTE after a handover out of an outage |
| `rejection_in_outage` | 2 cells, of which cell 2 rejects | **violation**: an assertion fails |
| `rlc_poll_owed` | numbers modulo 8, window 4, 3 SDUs of 1 byte, loss, one PDU in flight | **violation**: a bearer stops with an SDU undelivered |
| `rlc_segments` | as `rlc_am`, 2 SDUs | **violation**: a whole retransmission is thrown away |

The two rules of `decision` are `HandoverMode` of the module and an instance of it with
"THRESHOLD" (`MCHandoverRules`), chosen in the initial state: `m_handoverMode` never
changes. `EachRuleSettles` and `TttConnectsAfterOutage` say which property is claimed
of which rule.

Bounds. Levels 1 to 5 with `OutageThreshold = 2`, hysteresis 2 and
`SinrThresholdDifference = 1` put a level below the threshold, in the
hysteresis, and above it with a difference at and above the threshold; a
dynamic TTT of 1 to 3 ms lets an event be scheduled, brought forward, retargeted
and cancelled. In the network runs the levels are outage and service, which is
all the network can tell, and the TTT is 0 because a delay only removes
interleavings; three RNTIs let a cell be used more than once, so that numbers
wrap and are reused. `MaxInFlight` bounds the messages the coordinator has on a
link: with 2, a switch to LTE and the switch back, or a handover request after a
context release, are in flight together. The runs that add timeouts or fairness
use 1. In `first_connection` three bearers let the setup of one end, wait and begin
while reconfigurations for the others are under way, and three messages to the
UE put a switch to LTE and back behind a reconfiguration. In these runs all
counters are bounded by the model itself.

In `random_access` two accesses and four RNTIs let both dual-connected UEs be handed over
to the cell, leave and return while the third connects, times out and retries; two
reserved preambles are enough for one that is reserved, expired, reserved again and
sent. Larger instances (three accesses, five RNTIs, 1.3 million states) show
nothing else. The UEs stop once connected, so deadlock is not checked.

In `rlc_am` the modulus is `2 * Window + Overtakes`, the least the protocol can do
with, and up to six PDUs are sent, so that numbers wrap with the window full, a
STATUS PDU has room for only one of two missing numbers, and a late PDU meets the
window after its own. `Bounds` of `MCRlcAm` keeps the two settings of
`m_txOpportunityForRetxAlwaysBigEnough` apart: one byte for each PDU where none
is cut, one PDU in flight and two SDUs where they are. It is part of the
next-state relation, and liveness is stated for the first setting, in which it
bounds only the size of new PDUs and the STATUS PDUs in flight. The system stops
when all has been delivered, so these runs do not check deadlock. A poll can be
owed only in a window of four or more with three PDUs in it, one acknowledged, one to
be retransmitted and one lost: `rlc_poll_owed` has the least such window. The
invariants of `rlc_am` are proved for every window; the liveness of wide windows is
checked for none, its state graph being out of reach of a liveness check.

Fairness. The periodic update reschedules itself unconditionally, the simulator
runs every scheduled event, and X2 and the ideal RRC lose nothing: weak fairness
of the update, the clock, the event, the delivery of each cell's messages.
Reports are not fair. The random access of the UE is fair only in a
specification without timeouts. `StableRadioSettles` assumes that the SINRs
stop changing; `HandoverCompletes` that no target rejects, since a
rejection is not reported to the coordinator (see below). In `FirstConnection`
each link delivers, the MME answers and random access succeeds. In `RlcAm` the
oldest PDU in flight arrives and timers expire; opportunities keep coming because
`m_rbsTimer` reports the buffers again and again, and since HARQ does not lose
every PDU of a kind, sending one that arrives is strongly fair.

In `random_access` the fairness is that of the slots: preambles and responses are
control messages, which the PHY never loses, and the subframe of a cell comes
again and again. Commands and setups need not arrive.

## 5. What is proved

### The decision

`AbstractHandover_proofs`, for any set of cells, any attributes within their
types, any of the three rules. `CellAssumption`, `SinrAssumption` and
`TttAssumption` are what is assumed; the first says that cell ids are positive,
0 being "never set" in the code's maps.

1. `TypeCorrect`, from the lemmas of `HandoverDecision_proofs`. The hard conjunct
   is the time to trigger: `ComputeTttFits` shows that the interpolation lies between its ends (`QuotientBounds` for the
   division), so that the cast to `uint8_t` does not wrap and the assertion
   "Negative TTT!" holds.
2. `Invariance`: `IInv` is the conjunction of types, `EventIsCurrent`,
   `OneHandoverAtATime`, `FalseOnlyDuringHandover`, `OneFirstConnection`,
   `FirstConnectionOrder` and `ThresholdSchedulesNothing`. None is inductive by itself:
   a completed handover keeps `EventIsCurrent` only because no event exists
   while the entry is false; a started handover is the only one because a true
   entry means that none is outstanding; a true entry belongs to a UE with a
   cell because of the order of the first connection. The proof first shows that
   a periodic update, whatever the rule, is one of six kinds of step
   (`TriggerCases`), then that each kind keeps the invariant. TLC checked every
   part in `decision` before.
3. `EventStaysCurrent`, `HandoversAreSerial`, `NeverBlocksItself`,
   `ConnectsOnce`, `FirstConnectionInOrder` follow; `SwitchesBackAlone` is the
   action property, from the same invariant.

### The handover

`SecondaryHandover_proofs`, for any cells, any number of RNTIs, any set of cells
that reject, any bound on the coordinator's messages in flight, with or without
timeouts. What is assumed is `NetworkAssumption` with the assumptions of the
decision.

1. `TypeCorrect`. `TypeOK` needs `RntisKnown`: the RNTI of the cell the coordinator
   knows, and the one an arriving UE had at the source, are not the 0 of "none".
2. `HandoverRefines`. The hard step is `CompleteHandover`: that the report that
   arrives is that of the handover outstanding. It is one action per link and any
   number of messages away from the command, so the invariant `OnItsWay` speaks of
   all links at once: the seven messages that carry a handover on (`Carriers`) are
   in flight one at a time, every one leads to the cell the coordinator commanded
   (`Destination`), and while there is one, or the UE accesses a cell, the
   coordinator waits (`Waiting`). A refusal or a timeout may take the message away
   and then nothing replaces it, which is why neither disturbs the refinement. That
   no second handover sets out meanwhile is `OneHandoverAtATime`, that is, the
   invariant of `AbstractHandover`; that invariant is preserved because the step
   refines. The two are therefore proved in one induction (`Inv`, `InvStep`), the
   lemmas of `AbstractHandover_proofs` being used through an instance of that module.
   `Carry` and `Bystander` are what every handler does to the links; there is one
   lemma for each handler on top of them, and `StepSimulates` maps each action.
3. `OutageReaches`: with `PathOfUe`, the path the UE will use when the last switch
   on its link has arrived, the property survives any other switch in between
   (`SwitchInv`).

`HandoverContexts_proofs`, about the contexts of the cells where handovers do not time
out. That is a hypothesis because TLC refutes each of the four properties when they may
(section 6 says what is left behind then); the timers are 45 s, and X2 loses nothing. Cells may reject.

1. `InvariantOfContexts`: `Inv /\ ContextInv`. To say that a message finds its receiver as it
   should, one has to say where every context of every cell comes from. `Owned`:
   it is the one the coordinator knows (`Served`), or the one the UE is on its way to
   (`Invited`: by an acknowledgement, by a command, or by having gone there), or one
   that a release in flight will remove (`Released`). `CarriersFit`: the one message that carries a
   handover on, of which `OnItsWay` says that it is alone, agrees with the state of the first two.
   `LinkOrder` is about the link of the coordinator to a cell, where several messages may be in
   flight: one release, after the switches for its context and before the next
   request. Without it a UE that returns to a cell could be asked to leave by a request that
   finds the context of its earlier visit. `ReleasesFit` says that a release
   in flight does not hit the new context of a UE that has come back, although RNTIs are reused.
   There is one lemma for each handler (`...Fits`).
2. `Agreement`, `Forwarding`, `Downlink` follow. `DownlinkHasRlc` is where
   `rlcRequests` comes in: the requests pass from context to context along a chain of handovers.
3. `MessagesAreExpected`: every message but a rejection is expected, where
   `MaxRnti >= 3` (the code has 65535): a cell that is asked for a handover holds at most the
   context it is about to release, and the search of `AddUe` leaves out the RNTI before the last
   allocated one (`TargetHasRnti`). `NoMessageIsUnexpected` is the property of the run, where all cells admit handovers. A rejection
   is left out for a reason: it does meet a failing assertion (section 6, no. 3).

### The first connection

`FirstConnection_proofs`, for any number of bearers, any bound on the messages to the
UE, any attributes of the decision and any rule. What is assumed
is `ConnectionAssumption` with the assumptions of the decision.

1. `TypeCorrect`. The requests of one report are a sequence in the order of the
   bearer map, over an arbitrary set of bearer ids; `RlcSetupRequestsType` shows that it has one
   request for each bearer to split.
2. `Invariance`: `ConnectionInv` joins the types and `ProcedureInv`. The links
   are FIFO with any number of messages, so the invariant is written with "no
   message of this kind" (`None`) and "at most one" (`Once`) over whole links, and
   `Tails` and `Concats` say how these go through a delivery and a transmission. `ConnectsOnce`
   orders the command, the access and the report;
   `BeforeReport` says that nothing of the RLC setup exists before the report;
   `BearersKnown` that every bearer a message names is in the map it is looked up
   in; `AttachOrder` which reconfiguration may be in flight in which state of the UE
   manager. They need each other: the bearer of an answer is in the map because
   its request was made from the map after the report, and there is one report
   because there is one command.
3. `NothingUnexpected` follows: `NoUnexpectedMessage` for every message at the head
   of a link.
4. `OneBearerInvariance`, where the MME sets up one bearer: the
   request, the answer and the split bearer exclude each other
   (`EntityCounted`), so do the reconfiguration that splits the bearer and the
   peer of the UE (`PeerCounted`). `ReconfigurationsCounted` is why no second
   request is made: the flag left by a report is read by one completion.
   `OneEntityPerBearer` follows.
5. `SplitInvariance`, for any number of bearers. `SplitWhenQuiet` speaks only of
   empty links, so it is not inductive; `SplitInv` says for each bearer what is under
   way. `ReportComes` and `GoesOn`: a connected UE has reported or its report is in
   flight, and a reconfiguration that goes on has a message in flight, so that one that
   waits will be sent. `RequestsMade`: after the report every bearer has its request, its
   answer or its RLC entity, or the flag is set and a completion, which reads it, is to
   come. `PeersCome`: the UE makes an entity only for a bearer it knew before the message
   (a new one gets its LTE entity), so the invariant is about the order of the messages
   to the UE (`Preceded`): one that names the bearer goes before one that splits it.
   `Announced` is why there is such a message: the first reconfiguration of the attach
   names the first bearer only, the one that waits names all, and the requests, in the
   order of the map, have the first bearer at their head; the first answer sends all
   bearers. `AllIsSplit` follows.
6. `FirstConnectionRefines`: every step is a step of `AbstractHandover` or
   leaves its variables alone (`StepSimulates`). The only step that is not one of
   the decision's own is a completed reconfiguration with a split bearer; it is
   `McSetupCompleted`, because until then the cell is still being connected to (`SwitchIsMcSetup`).

### Random access

`RandomAccess_proofs`, for any UEs, preambles and bounds (`AccessAssumption`).

1. `TypeCorrect`: the one place where arithmetic matters is `NewRnti`, which counts the
   unreserved preambles up to one (`NewRntis`): distinct numbers, none above the new
   last RNTI. What waits in a PHY must be a preamble (`AirHasPreamble`).
2. `RntiInvariance`, under `Orderly`: commands arrive before their preamble expires, and
   the counter of the connections stays below the reserved preambles. TLC refutes
   `RntiIsOwn` and `NoUnexpectedMessage` when either condition is dropped (see
   section 6). `RntiInv` says who may use an RNTI (`Claims`: a command in flight, the MAC, a request
   in flight), and follows a reserved RNTI from the entry of its preamble (`CommandsReserved`,
   `JoiningReserved` in the air, `ReceivedReserved` at the cell) to the one response
   that takes it over (`ResponsesDiffer`, `ResponsesAwaited`). No clause is inductive
   alone: that one UE takes a response needs `PreamblesDiffer`, which needs that the preamble of
   a command is in no entry, response or PHY but its own (`CommandFirst`).
   Eleven kinds of step concern none of this and are one case (`Aside`).
3. `OwnRnti` follows from `OneClaim`.
4. `NothingUnexpected`: `MessageInv` adds the state of each context while a UE, a message,
   a response or an entry refers to it. The guards of the three timeouts are used here:
   a context that is removed is `Unused`.

### RLC AM

`RlcAm_proofs` and `RlcAmHistory_proofs`, for any modulus, window, SDU size, PDU size,
number of SDUs and of PDUs in flight with `2 * Window + Overtakes <= Modulus`
(`RlcAssumption`). Every invariant that `rlc_am` checks is proved.

1. Lemmas on modular distances (`DistAdds`, `DistWraps`, `IntervalSplits`,
   `FirstFromIsFirst`): the code adds, wraps and searches, the proofs need what
   that does to the distance from a base that moves.
2. `RlcInvariant`: `RlcInv` joins the types of both sides, `SenderWindow`,
   `ReceiverOrder` and the types of what the MAC carries. The third clause is needed
   because a STATUS PDU sets VT(A), the first two because each action of a side
   reads them. The transmitting side needs no fact about the peer: `NewVtA` stays in the
   window for any STATUS PDU (`NewVtAInside`). The receiving side needs that VR(H)
   itself is incomplete (`HighIsIncomplete`), so that the searches for the next
   VR(R) and VR(MS) end inside the window (`FirstIncompleteInside`).
   `SenderWindowHolds` and `ReceiverOrderHolds` follow.
3. `HistoryInvariant`. The properties that relate the two sides cannot be said of
   sequence numbers, which mean something else a turn later. `HistoryInv` says that there are
   numbers that do not wrap, for both windows, for each data PDU in flight and
   for what each STATUS PDU in flight was sent about, and a cut of the submitted bytes into
   PDUs, such that all variables agree with them (`Tracks`). The clauses that took
   thought:
   - `Numbers`: the window of the sender covers all the receiver expects, in the order
     VT(A), VR(R), VR(MS), VR(H), VT(S).
   - `Data`: a data PDU may be older than the window, but not by more than
     `Overtakes` lets it: the PDUs a window above it that have arrived
     (`Late`) have each overtaken it, so that `InsideReceivingWindow` never takes an old
     number for a new one. This is where `2 * Window + Overtakes <= Modulus` is used.
   - `Forgotten`: what the sender has dropped the receiver has completely, and no
     STATUS PDU in flight asks for it (`Settled`). A STATUS PDU with no NACKs counts for
     the numbers below VR(R) when it was sent, because one that is late may find VT(A)
     past its ACK_SN.
   - `Statuses`: what an earlier STATUS PDU acknowledges, no later one in flight asks for
     again. They arrive in order (t-StatusProhibit), and this is what makes
     `NackIsHeld` inductive.
   - `Entries`, `Delivery`: an entry holds the first bytes of its PDU and nothing
     else, whatever segments arrived; what is delivered is the stream up to VR(R).

   One lemma for each action (`...KeepsHistory`) names the new numbers. The hardest are
   `ReceiveStatusPduKeepsHistory` and `PlaceAndDeliverKeepsHistory` (with `DeliveryGrows`: the bytes of
   complete entries from VR(R) on, joined, continue the stream). TLC checked the invariant with
   the numbers as extra variables before it was proved.
4. `InOrderHolds`, `NoByteLostHolds`, `NackIsHeldHolds`, `HeadIsHeldHolds`
   follow from the history; `TypeCorrect` does together with `FlagTypes`.
5. `SenderAwakeHolds`, by `Awake`: where t-PollRetransmit does not run and no poll is
   owed, the last PDU that the sender holds waits to be retransmitted, because a STATUS PDU
   that acknowledges a PDU answers for all before it. The proof attempt is what found the
   owed poll: the property as first stated had no such exception.
   `DeliveredOrPollOwedHolds` follows: if VT(A) = VT(S), so is VR(R).

### Only model-checked

The liveness properties, `DeliveredUnlessPollOwed` among them (TLAPS has no rules for
fairness here). Nothing is proved of the contexts of the cells once a handover may time out:
`ImplementsAbstractHandover` holds then, the other properties do not.

## 6. Disagreements with the code's own comments

1. **Threshold rule, initial outage** (`lte-enb-rrc.cc:4074`). The branch "perform
   initial access to mmWave eNB, since for the first time one mmWave eNB is not in
   outage!" (4076) requires an entry that becomes true only after the access.
2. **Path after an outage** (`lte-enb-rrc.cc:1944`). A handover out of an outage
   switches the PDCP of the coordinator, not that of the UE.
3. **Rejection in an outage** (`lte-enb-rrc.cc:1288`, 2089). An outage during the
   preparation of a handover replaces `m_targetCellId` by the LTE cell, and
   `NS_ASSERT (cellId == m_targetCellId)` fails when the target then rejects.
4. **Whole PDU after a segment** (`lte-rlc-am.cc:1914`). The rule quoted at 1882 to
   1892 places a PDU of the window unless its bytes have been received; the code
   throws a whole retransmission away when the buffer holds the first segment of
   an earlier one, and the bearer may stop for good.
5. **Owed poll** (`lte-rlc-am.cc:2827`). t-PollRetransmit may expire while a PDU waits to be
   retransmitted and a later one, lost, waits for its acknowledgement. Nothing is then
   put back for retransmission; the poll is left to the next PDU. A STATUS PDU that is still on
   its way acknowledges the first, and no next PDU comes: the later one is never
   sent again, although `lte-testing.rst:1029` promises that "all SDUs are correctly
   delivered" at the end. The next SDU would carry the poll.

Also seen, and not a run of its own. In the secondary-cell handover:

- the notice of a handover that timed out ("notify the LTE eNB (coordinator) of the
  failure", `lte-enb-rrc.cc:4536`) ends in "ProcedureCode NOT SUPPORTED!!!"
  (`epc-x2.cc:571`): the model sends it and nothing receives it;
- the same overwritten `m_targetCellId` sends the RLC buffers of an accepted
  handover to the LTE cell (`lte-enb-rrc.cc:896`);
- a rejected handover leaves the coordinator "on handover" for good; the removal that
  `HandoverJoiningTimeout` schedules is not cancelled when the UE arrives late;
  `HandoverLeavingTimeout` leaves the forwarding entry of the TEID.

In the first connection:

- `ScheduleRrcConnectionReconfiguration` lets a second reconfiguration "wait for it to
  be finished" (`lte-enb-rrc.cc:641`), `RecvRlcSetupCompleted` does not (1465). With
  two in flight the completion of the first is taken for that of the second: the
  coordinator uses the mmWave path and may start handovers before the UE has its
  mmWave RLC entity. When both are completed all is well again
  (`SplitWhenQuiet`);
- an outage between `RlcSetupCompleted` and the completion commands the UE to LTE,
  and the completion then switches the coordinator back to mmWave (1605 to 1612):
  the next update finds the outage again, if it lasts;
- `m_mmWaveCellAvailableForMcSetup` is never reset. With several bearers each completed
  reconfiguration asks again for the RLC entities of those not split yet, the cell
  makes second ones (`m_rlcMap[params.drbid] = rlcInfo; //TODO add assert`,
  1438), and its MAC keeps the first; the UE makes a new entity for a split bearer
  at each reconfiguration (`lte-ue-rrc.cc:2255`). `OneRlcPerBearer` and
  `ImplementsFirstConnection` therefore speak of one bearer, which is what the
  scenarios of the repository use.

In random access:

- `NumberOfRaPreambles` is "how many random access preambles are available for the
  contention based RACH process" (`mmwave-enb-mac.cc:344`), but the UE counts on through
  all eight bits (`mmwave-ue-mac.cc:996`). With more than 50 accesses in the simulation
  a UE that connects sends a preamble that a cell may have reserved: `RntiIsOwn` fails
  in the model for `MaxAccesses > NumberOfRaPreambles`;
- it also fails without `CommandsInTime`: nothing stops a UE from using a reserved preamble
  after 400 ms, when it is another's;
- a dual-connected UE whose T300 expires at a mmWave cell is never connected: "immediately
  retry the connection" (`epc-ue-nas.cc:342`) goes to the LTE RRC, which answers "already
  connected" (`lte-ue-rrc.cc:956`);
- `ConnectionSetupTimeout` may remove the context of a UE that is connected, when the
  completion is late; the UE is not told.

In RLC AM:

- the poll of a cut retransmission goes with its first segment: a later one is
  smaller than the retransmission buffer it is compared with
  (`lte-rlc-am.cc:473`). A STATUS PDU that answers before the last segment is
  sent stops t-PollRetransmit, and when that segment is lost nothing wakes the
  transmitting side. The model reaches this after nine steps with one PDU, so
  `SenderAwake` and `DeliveredOrPollOwed` are claimed for whole retransmissions only;
- 1024 is twice the window of 512, so that nothing is left for overtaking when the
  window is full; the model assumes `2 * Window + Overtakes <= Modulus`;
- a STATUS PDU that is older than VT(A) would acknowledge everything in flight;
- the attribute text of `TxOpportunityForRetxAlwaysBigEnough` says that no
  retransmission is done unless it fits (`lte-rlc-am.cc:172`), the code cuts it;
- `ExpireReorderingTimer` asks for a STATUS PDU without telling the MAC, which
  learns of it with the next poll.

## 7. Not modelled, and the plan

Not modelled: see the components marked so in section 1; several UEs outside
`RandomAccess`; several bearers in a handover; the formatting of
messages; the radio.

Order of the remaining work:

1. **McPdcp**: path switch and data path with forwarding, on top of the states
   of `SecondaryHandover`; what is lost or reordered when the entities of `RlcAm`
   are replaced.
2. **BufferForwarding**: `MergeBuffers` and the construction of the forwarding
   buffer as functions, against a sorted merge as reference; `SrsConfiguration`,
   the allocation of indices, likewise.
3. **RLC UM**: its reordering window.
4. **Proofs**: how often the RLC entity of a bearer is made anew when the UE has
   several, of which `OneRlcPerBearer` says nothing.
