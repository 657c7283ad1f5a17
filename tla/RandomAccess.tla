---------------------------- MODULE RandomAccess -----------------------------
(***************************************************************************)
(* Random access of several UEs to one mmWave cell, and what hangs on the  *)
(* RNTI it returns (mmwave-ue-mac.cc, mmwave-enb-mac.cc, lte-ue-rrc.cc,    *)
(* lte-enb-rrc.cc).                                                        *)
(*                                                                         *)
(* A UE without a mmWave cell takes the next preamble of a counter that    *)
(* all UEs of all cells share, is given a temporary RNTI by the cell, and  *)
(* establishes a connection with it.  A UE that is handed over has been    *)
(* given an RNTI and a preamble in the handover command.  The cell         *)
(* remembers for which RNTI it has reserved a preamble, and tells UEs      *)
(* apart by nothing but the preamble: there is no contention resolution.   *)
(*                                                                         *)
(* Control messages are not lost (mmwave-spectrum-phy.cc:806); RRC         *)
(* messages over mmWave are late or lost.  The handover between the cells  *)
(* around this one is in SecondaryHandover.  The guards that compare       *)
(* delays are gathered under "Time".                                       *)
(*                                                                         *)
(* Each operator named ...Mutant is a plausible mistake in the definition  *)
(* that follows it; none is used by the specification.                     *)
(***************************************************************************)
EXTENDS Integers, FiniteSets

CONSTANTS
    UE,
    Nobody,                 \* no UE
    DualUe,                 \* UEs whose NAS belongs to an LTE RRC as well
    NumberOfRaPreambles,    \* preambles from this one on are reserved ones
    PreambleLimit,          \* 64, the number of preambles
    Modulus,                \* 256, g_raPreambleId is a uint8_t
    CommandsInTime,         \* a handover command arrives before its preamble expires
    MaxAccesses,            \* bound: contention-based accesses in all cells
    MaxRnti                 \* bound: RNTIs the cell allocates

ASSUME AccessAssumption ==
    /\ DualUe \subseteq UE /\ Nobody \notin UE
    /\ NumberOfRaPreambles \in Nat \ {0}
    /\ PreambleLimit \in Nat /\ NumberOfRaPreambles <= PreambleLimit
    /\ Modulus \in Nat /\ PreambleLimit <= Modulus
    /\ CommandsInTime \in BOOLEAN
    /\ MaxAccesses \in Nat
    /\ MaxRnti \in Nat

VARIABLES
    accesses,       \* g_raPreambleId, before it is cut to eight bits
    ue,             \* each UE's mmWave RRC and MAC
    air,            \* UEs whose preamble waits in their PHY
    received,       \* m_receivedRachPreambleCount: preambles, without the count
    reserved,       \* m_allocatedNcRaPreambleMap, with rnti 0 for no entry
    rar,            \* random access responses on the air
    context,        \* m_ueMap: the state and the IMSI of each UeManager
    lastRnti,       \* m_lastAllocatedRnti
    messages        \* RRC messages in flight

radio == <<air, received, rar>>
vars == <<accesses, ue, air, received, reserved, rar, context, lastRnti, messages>>

-----------------------------------------------------------------------------
Rnti == 1 .. MaxRnti
Preamble == 0 .. Modulus - 1
ReservedPreamble == NumberOfRaPreambles .. PreambleLimit - 1
NoPreamble == Modulus

ConnectionRequest(u, r) == [type |-> "RrcConnectionRequest", ue |-> u, rnti |-> r]
ConnectionSetup(r) == [type |-> "RrcConnectionSetup", rnti |-> r]
SetupCompleted(r) == [type |-> "RrcConnectionSetupCompleted", rnti |-> r]
ReconfigurationCompleted(r) == [type |-> "ReconfigurationCompleted", rnti |-> r]
HandoverCommand(u, r, p) ==
    [type |-> "HandoverCommand", ue |-> u, rnti |-> r, preamble |-> p]

Downlink == [type : {"RrcConnectionSetup"}, rnti : Rnti]
Uplink == [type : {"RrcConnectionSetupCompleted", "ReconfigurationCompleted"}, rnti : Rnti]
Request == [type : {"RrcConnectionRequest"}, ue : UE, rnti : Rnti]
Command == [type : {"HandoverCommand"}, ue : UE, rnti : Rnti, preamble : ReservedPreamble]

\* A UE whose RRC has not been started, and one that another cell serves.  The
\* MAC waits for a response from its construction on; its preamble, and the
\* PHY's, are not initialised, and are taken to be different from each other.
Fresh == [state |-> "IDLE_START", here |-> FALSE, rnti |-> 0,
          preamble |-> NoPreamble, waiting |-> TRUE]
Elsewhere == [state |-> "CONNECTED_NORMALLY", here |-> FALSE, rnti |-> 0,
              preamble |-> NoPreamble, waiting |-> FALSE]

NoContext == [state |-> "none", imsi |-> Nobody]
NoEntry == [rnti |-> 0, expired |-> FALSE]

TypeOK ==
    /\ accesses \in 0 .. MaxAccesses
    /\ ue \in [UE -> [state : {"IDLE_START", "IDLE_CAMPED_NORMALLY", "IDLE_WAIT_SIB2",
                               "IDLE_RANDOM_ACCESS", "IDLE_CONNECTING",
                               "CONNECTED_HANDOVER", "CONNECTED_NORMALLY"},
                      here : BOOLEAN,       \* m_cellId is this cell
                      rnti : Rnti \cup {0},  \* of the MAC
                      preamble : Preamble \cup {NoPreamble},
                      waiting : BOOLEAN]]   \* m_waitingForRaResponse
    /\ air \in SUBSET UE
    /\ received \in SUBSET Preamble
    /\ reserved \in [ReservedPreamble -> [rnti : Rnti \cup {0}, expired : BOOLEAN]]
    /\ rar \in SUBSET [preamble : Preamble, rnti : Rnti]
    /\ context \in [Rnti -> [state : {"none", "INITIAL_RANDOM_ACCESS", "CONNECTION_SETUP",
                                      "HANDOVER_JOINING", "CONNECTED_NORMALLY"},
                             imsi : UE \cup {Nobody}]]
    /\ lastRnti \in 0 .. MaxRnti
    /\ messages \in SUBSET (Downlink \cup Uplink \cup Request \cup Command)

Init ==
    /\ accesses = 0
    /\ ue \in [UE -> {Fresh, Elsewhere}]
    /\ \A u \in UE \ DualUe : ue[u] = Fresh
    /\ air = {} /\ received = {} /\ rar = {}
    /\ reserved = [p \in ReservedPreamble |-> NoEntry]
    /\ context = [r \in Rnti |-> NoContext]
    /\ lastRnti = 0
    /\ messages = {}

-----------------------------------------------------------------------------
(* Time.                                                                   *)

OnAir(p) ==
    \/ p \in received
    \/ \E u \in air : ue[u].preamble = p
    \/ \E m \in rar : m.preamble = p

Commanded(r) == \E m \in messages : m.type = "HandoverCommand" /\ m.rnti = r

\* 50 * (3 + 5) ms after the reservation.  A preamble that has been sent is
\* received in the next slots.
MayExpire(p) ==
    /\ ~OnAir(p)
    /\ CommandsInTime => ~Commanded(reserved[p].rnti)

\* 100 ms after the request, which itself takes 500 microseconds.
T300MayExpire(u) == ConnectionRequest(u, ue[u].rnti) \notin messages

\* 150 ms after the request: a UE that still waits for the setup has timed out.
SetupMayTimeOut(r) == ~ \E u \in UE : ue[u].state = "IDLE_CONNECTING" /\ ue[u].rnti = r

\* 45 s after the reservation: the command was lost, and the preamble expired.
JoiningMayTimeOut(r) ==
    /\ ~Commanded(r)
    /\ ~ \E u \in UE : ue[u].here /\ ue[u].rnti = r
    /\ \A p \in ReservedPreamble : reserved[p].rnti = r => reserved[p].expired

\* A command goes through X2 and the radio of the source, a response only over
\* the radio: the former response to the preamble has been received.
CommandMayArrive(m) == \A e \in rar : e.preamble # m.preamble

-----------------------------------------------------------------------------
(* The UE.                                                                 *)

\* RrcConnectToMmWave arrives: the NAS makes the mmWave RRC camp on the cell
\* and connect, which waits for the system information.
ConnectToMmWave(u) ==
    /\ ue[u].state = "IDLE_START"
    /\ ue' = [ue EXCEPT ![u].state = "IDLE_WAIT_SIB2", ![u].here = TRUE]
    /\ UNCHANGED <<accesses, radio, reserved, context, lastRnti, messages>>

\* SendRaPreamble with the state that the RRC has gone to.
SendRaPreamble(u, state, rnti, preamble) ==
    /\ ue' = [ue EXCEPT ![u] = [state |-> state, here |-> TRUE, rnti |-> rnti,
                                preamble |-> preamble, waiting |-> TRUE]]
    /\ air' = air \cup {u}

NextPreamble == accesses % Modulus

\* The system information starts the connection.
StartConnection(u) ==
    /\ ue[u].state = "IDLE_WAIT_SIB2"
    /\ accesses < MaxAccesses
    /\ SendRaPreamble(u, "IDLE_RANDOM_ACCESS", ue[u].rnti, NextPreamble)
    /\ accesses' = accesses + 1
    /\ UNCHANGED <<received, reserved, rar, context, lastRnti, messages>>

\* A UE starts its connection to another cell: the counter is static.
StartConnectionElsewhere ==
    /\ accesses < MaxAccesses
    /\ accesses' = accesses + 1
    /\ UNCHANGED <<ue, radio, reserved, context, lastRnti, messages>>

RecvHandoverCommand(m) ==
    /\ m \in messages /\ m.type = "HandoverCommand"
    /\ ue[m.ue] = Elsewhere
    /\ CommandMayArrive(m)
    /\ SendRaPreamble(m.ue, "CONNECTED_HANDOVER", m.rnti, m.preamble)
    /\ messages' = messages \ {m}
    /\ UNCHANGED <<accesses, received, reserved, rar, context, lastRnti>>

\* The PHY and the MAC of a UE pass on a response to their own preamble.
Takes(u, e) == ue[u].here /\ ue[u].waiting /\ ue[u].preamble = e.preamble

\* RecvRaResponse and what DoNotifyRandomAccessSuccessful makes of it.
AfterResponse(v, r) ==
    [v EXCEPT !.waiting = FALSE, !.rnti = r,
              !.state = IF @ = "IDLE_RANDOM_ACCESS" THEN "IDLE_CONNECTING"
                        ELSE "CONNECTED_NORMALLY"]
Answer(u, r) ==
    IF ue[u].state = "IDLE_RANDOM_ACCESS" THEN ConnectionRequest(u, r)
    ELSE ReconfigurationCompleted(r)

\* Every UE of the cell hears a response.
ReceiveRar(e) ==
    /\ e \in rar
    /\ rar' = rar \ {e}
    /\ ue' = [u \in UE |-> IF Takes(u, e) THEN AfterResponse(ue[u], e.rnti) ELSE ue[u]]
    /\ messages' = messages \cup {Answer(u, e.rnti) : u \in {v \in UE : Takes(v, e)}}
    /\ UNCHANGED <<accesses, air, received, reserved, context, lastRnti>>

\* The MAC takes only PDUs for its RNTI, which a timeout has set to 0.
RecvRrcConnectionSetup(u) ==
    /\ ue[u].here /\ ConnectionSetup(ue[u].rnti) \in messages
    /\ ue[u].state = "IDLE_CONNECTING"
    /\ ue' = [ue EXCEPT ![u].state = "CONNECTED_NORMALLY"]
    /\ messages' = (messages \ {ConnectionSetup(ue[u].rnti)})
                     \cup {SetupCompleted(ue[u].rnti)}
    /\ UNCHANGED <<accesses, radio, reserved, context, lastRnti>>

\* The RRC of the UE gives up and the NAS retries: with the LTE RRC, if there
\* is one, which is connected, and else with this one.
ConnectionTimeout(u) ==
    /\ ue[u].state = "IDLE_CONNECTING"
    /\ T300MayExpire(u)
    /\ ue' = [ue EXCEPT ![u].rnti = 0,
                        ![u].state = IF u \in DualUe THEN "IDLE_CAMPED_NORMALLY"
                                     ELSE "IDLE_WAIT_SIB2"]
    /\ UNCHANGED <<accesses, radio, reserved, context, lastRnti, messages>>

-----------------------------------------------------------------------------
(* The cell.                                                               *)

ReceiveRachPreamble(u) ==
    /\ u \in air
    /\ air' = air \ {u}
    /\ received' = received \cup {ue[u].preamble}
    /\ UNCHANGED <<accesses, ue, reserved, rar, context, lastRnti, messages>>

\* The received preambles that no entry reserves, in their order, are given
\* the next RNTIs.
IsReserved(p) == p \in ReservedPreamble /\ reserved[p].rnti # 0
Unreserved == {p \in received : ~IsReserved(p)}
\* Mutant: the preamble itself is not counted.
NewRntiMutant(p) == lastRnti + Cardinality({q \in Unreserved : q < p})
NewRnti(p) == lastRnti + Cardinality({q \in Unreserved : q <= p})

ResponseTo(p) ==
    [preamble |-> p, rnti |-> IF IsReserved(p) THEN reserved[p].rnti ELSE NewRnti(p)]

\* Mutant: the message holds one response.
SubframeIndicationMutant ==
    /\ received # {}
    /\ lastRnti + Cardinality(Unreserved) <= MaxRnti
    /\ received' = {}
    /\ \E p \in received : /\ \A q \in received : p <= q
                           /\ rar' = rar \cup {ResponseTo(p)}
    /\ reserved' = [p \in ReservedPreamble |-> IF p \in received THEN NoEntry ELSE reserved[p]]
    /\ lastRnti' = lastRnti + Cardinality(Unreserved)
    /\ context' = [r \in Rnti |->
                     IF \E p \in Unreserved : NewRnti(p) = r
                     THEN [state |-> "INITIAL_RANDOM_ACCESS", imsi |-> Nobody]
                     ELSE context[r]]
    /\ UNCHANGED <<accesses, ue, air, messages>>

SubframeIndication ==
    /\ received # {}
    /\ lastRnti + Cardinality(Unreserved) <= MaxRnti
    /\ received' = {}
    /\ rar' = rar \cup {ResponseTo(p) : p \in received}
    /\ reserved' = [p \in ReservedPreamble |-> IF p \in received THEN NoEntry ELSE reserved[p]]
    /\ lastRnti' = lastRnti + Cardinality(Unreserved)
    /\ context' = [r \in Rnti |->
                     IF \E p \in Unreserved : NewRnti(p) = r
                     THEN [state |-> "INITIAL_RANDOM_ACCESS", imsi |-> Nobody]
                     ELSE context[r]]
    /\ UNCHANGED <<accesses, ue, air, messages>>

\* Mutant: an entry that is in use counts as free.
AvailableMutant(p) == p = NumberOfRaPreambles

\* The first reserved preamble without an entry, or with one that has expired.
Available(p) ==
    /\ reserved[p].rnti = 0 \/ reserved[p].expired
    /\ \A q \in ReservedPreamble : q < p => reserved[q].rnti # 0 /\ ~reserved[q].expired

\* The handover of a UE is prepared: AddUe and AllocateNcRaPreamble.
RecvHandoverRequest(u, p) ==
    /\ ue[u] = Elsewhere
    /\ ~ \E m \in messages : m.type = "HandoverCommand" /\ m.ue = u
    /\ lastRnti + MaxAccesses < MaxRnti
    /\ Available(p)
    /\ lastRnti' = lastRnti + 1
    /\ context' = [context EXCEPT ![lastRnti + 1] = [state |-> "HANDOVER_JOINING", imsi |-> u]]
    /\ reserved' = [reserved EXCEPT ![p] = [rnti |-> lastRnti + 1, expired |-> FALSE]]
    /\ messages' = messages \cup {HandoverCommand(u, lastRnti + 1, p)}
    /\ UNCHANGED <<accesses, ue, radio>>

ExpirePreamble(p) ==
    /\ reserved[p].rnti # 0 /\ ~reserved[p].expired
    /\ MayExpire(p)
    /\ reserved' = [reserved EXCEPT ![p].expired = TRUE]
    /\ UNCHANGED <<accesses, ue, radio, context, lastRnti, messages>>

RecvRrcConnectionRequest(m) ==
    /\ m \in messages /\ m.type = "RrcConnectionRequest"
    /\ context[m.rnti].state = "INITIAL_RANDOM_ACCESS"
    /\ context' = [context EXCEPT ![m.rnti] = [state |-> "CONNECTION_SETUP", imsi |-> m.ue]]
    /\ messages' = (messages \ {m}) \cup {ConnectionSetup(m.rnti)}
    /\ UNCHANGED <<accesses, ue, radio, reserved, lastRnti>>

RecvRrcConnectionSetupCompleted(m) ==
    /\ m \in messages /\ m.type = "RrcConnectionSetupCompleted"
    /\ context[m.rnti].state = "CONNECTION_SETUP"
    /\ context' = [context EXCEPT ![m.rnti].state = "CONNECTED_NORMALLY"]
    /\ messages' = messages \ {m}
    /\ UNCHANGED <<accesses, ue, radio, reserved, lastRnti>>

RecvReconfigurationCompleted(m) ==
    /\ m \in messages /\ m.type = "ReconfigurationCompleted"
    /\ context[m.rnti].state = "HANDOVER_JOINING"
    /\ context' = [context EXCEPT ![m.rnti].state = "CONNECTED_NORMALLY"]
    /\ messages' = messages \ {m}
    /\ UNCHANGED <<accesses, ue, radio, reserved, lastRnti>>

\* Mutant: what is in flight to the context still arrives.
RemoveUeMutant(r) ==
    /\ context' = [context EXCEPT ![r] = NoContext]
    /\ UNCHANGED <<accesses, received, reserved, rar, lastRnti, messages>>

\* The context goes with its RLC entities, and what they would have received.
RemoveUe(r) ==
    /\ context' = [context EXCEPT ![r] = NoContext]
    /\ messages' = {m \in messages : ~ (m \in Uplink /\ m.rnti = r)}
    /\ UNCHANGED <<accesses, received, reserved, rar, lastRnti>>

ConnectionSetupTimeout(r) ==
    /\ context[r].state = "CONNECTION_SETUP"
    /\ SetupMayTimeOut(r)
    /\ RemoveUe(r)
    /\ UNCHANGED <<ue, air>>

HandoverJoiningTimeout(r) ==
    /\ context[r].state = "HANDOVER_JOINING"
    /\ JoiningMayTimeOut(r)
    /\ RemoveUe(r)
    /\ UNCHANGED <<ue, air>>

\* A UE is handed over to another cell, which resets its MAC and PHY and makes
\* this cell release it.
LeaveCell(u) ==
    /\ u \in DualUe
    /\ ue[u].here /\ ue[u].state = "CONNECTED_NORMALLY"
    /\ context[ue[u].rnti].state = "CONNECTED_NORMALLY"
    /\ RemoveUe(ue[u].rnti)
    /\ ue' = [ue EXCEPT ![u] = Elsewhere]
    /\ air' = air \ {u}

\* A setup or a command that HARQ or RLC gives up, or that meets a reset MAC.
LoseMessage(m) ==
    /\ m \in messages /\ m.type \in {"RrcConnectionSetup", "HandoverCommand"}
    /\ messages' = messages \ {m}
    /\ UNCHANGED <<accesses, ue, radio, reserved, context, lastRnti>>

-----------------------------------------------------------------------------
Next ==
    \/ \E u \in UE : ConnectToMmWave(u)
    \/ \E u \in UE : StartConnection(u)
    \/ StartConnectionElsewhere
    \/ \E m \in messages : RecvHandoverCommand(m)
    \/ \E e \in rar : ReceiveRar(e)
    \/ \E u \in UE : RecvRrcConnectionSetup(u)
    \/ \E u \in UE : ConnectionTimeout(u)
    \/ \E u \in air : ReceiveRachPreamble(u)
    \/ SubframeIndication
    \/ \E u \in DualUe, p \in ReservedPreamble : RecvHandoverRequest(u, p)
    \/ \E p \in ReservedPreamble : ExpirePreamble(p)
    \/ \E m \in messages : RecvRrcConnectionRequest(m)
    \/ \E m \in messages : RecvRrcConnectionSetupCompleted(m)
    \/ \E m \in messages : RecvReconfigurationCompleted(m)
    \/ \E r \in Rnti : ConnectionSetupTimeout(r)
    \/ \E r \in Rnti : HandoverJoiningTimeout(r)
    \/ \E u \in UE : LeaveCell(u)
    \/ \E m \in messages : LoseMessage(m)

Spec == Init /\ [][Next]_vars

\* Each slot carries the preambles and the responses; the simulator runs the
\* subframe of each cell.
Fairness ==
    /\ \A u \in UE : WF_vars(u \in air /\ ReceiveRachPreamble(u))
    /\ WF_vars(SubframeIndication)
    /\ WF_vars(\E e \in rar : ReceiveRar(e))

FairSpec == Spec /\ Fairness

-----------------------------------------------------------------------------
(* Properties.                                                             *)

\* No two UEs use one RNTI of the cell, and the context of a UE's RNTI is the
\* UE's own: no UE takes the response, the temporary RNTI or the reserved RNTI
\* of another, although preambles are the only names they have.
RntiIsOwn ==
    \A u \in UE : ue[u].here /\ ue[u].rnti # 0 =>
        /\ context[ue[u].rnti].imsi \in {u, Nobody}
        /\ \A v \in UE \ {u} : ue[v].here => ue[v].rnti # ue[u].rnti

\* Every message is expected where it arrives: none reaches a branch that ends
\* the simulation with "unexpected event in state" (lte-ue-rrc.cc:823), "method
\* unexpected in state" (lte-enb-rrc.cc:1532) or "UE manager not found"
\* (lte-enb-rrc.cc:3240).
Expected(m) ==
    CASE m.type = "RrcConnectionRequest" -> context[m.rnti].state = "INITIAL_RANDOM_ACCESS"
      [] m.type = "RrcConnectionSetupCompleted" -> context[m.rnti].state = "CONNECTION_SETUP"
      [] m.type = "ReconfigurationCompleted" -> context[m.rnti].state = "HANDOVER_JOINING"
      [] m.type = "RrcConnectionSetup" ->
            \A u \in UE : ue[u].here /\ ue[u].rnti = m.rnti => ue[u].state = "IDLE_CONNECTING"
      [] m.type = "HandoverCommand" -> ue[m.ue].state = "CONNECTED_NORMALLY"

NoUnexpectedMessage ==
    /\ \A m \in messages : Expected(m)
    /\ \A e \in rar, u \in UE :
         Takes(u, e) => ue[u].state \in {"IDLE_RANDOM_ACCESS", "CONNECTED_HANDOVER"}

\* Every random access is answered: the MAC has no timer for the response, so a
\* UE whose preamble were forgotten or answered under another one would stay in
\* its state for ever.
Accessing(u) == ue[u].state \in {"IDLE_RANDOM_ACCESS", "CONNECTED_HANDOVER"}

AccessIsAnswered == \A u \in UE : Accessing(u) ~> ~Accessing(u)
=============================================================================
