------------------------- MODULE RandomAccess_proofs -------------------------
(***************************************************************************)
(* Proofs about random access, for any UEs, any numbers of preambles and   *)
(* any bounds.                                                             *)
(***************************************************************************)
EXTENDS RandomAccess, FiniteSetTheorems, TLAPS

USE AccessAssumption

-----------------------------------------------------------------------------
(* Types.                                                                  *)

\* The new RNTIs are the numbers after the last one, in the order of the
\* preambles.
LEMMA NewRntis ==
    ASSUME TypeOK
    PROVE  /\ IsFiniteSet(Unreserved) /\ Cardinality(Unreserved) \in Nat
           /\ \A p \in Unreserved :
                 /\ NewRnti(p) \in Nat
                 /\ NewRnti(p) > lastRnti
                 /\ NewRnti(p) <= lastRnti + Cardinality(Unreserved)
           /\ \A p, q \in Unreserved : NewRnti(p) = NewRnti(q) => p = q
<1> DEFINE upTo(p) == {q \in Unreserved : q <= p}
<1>1. Unreserved \subseteq 0 .. Modulus - 1 /\ lastRnti \in Nat /\ Modulus \in Nat
  <2>1. received \in SUBSET Preamble /\ lastRnti \in 0 .. MaxRnti
    BY DEF TypeOK
  <2>2. MaxRnti \in Nat /\ Modulus \in Nat
    OBVIOUS
  <2>3. lastRnti \in Nat
    BY <2>1, <2>2
  <2> QED BY <2>1, <2>2, <2>3 DEF Unreserved, Preamble
<1>2. IsFiniteSet(Unreserved) /\ Cardinality(Unreserved) \in Nat
  <2>1. IsFiniteSet(0 .. Modulus - 1)
    BY FS_Interval, <1>1
  <2> QED BY <2>1, <1>1, FS_Subset, FS_CardinalityType
<1>3. ASSUME NEW p \in Unreserved
      PROVE  /\ IsFiniteSet(upTo(p)) /\ Cardinality(upTo(p)) \in Nat
             /\ Cardinality(upTo(p)) > 0
             /\ Cardinality(upTo(p)) <= Cardinality(Unreserved)
  <2>1. upTo(p) \subseteq Unreserved /\ p \in upTo(p)
    BY <1>1
  <2>2. IsFiniteSet(upTo(p)) /\ Cardinality(upTo(p)) <= Cardinality(Unreserved)
    BY <2>1, <1>2, FS_Subset
  <2>3. Cardinality(upTo(p)) \in Nat /\ Cardinality(upTo(p)) # 0
    BY <2>1, <2>2, FS_CardinalityType, FS_EmptySet
  <2> QED BY <2>2, <2>3
<1>4. ASSUME NEW p \in Unreserved, NEW q \in Unreserved, p < q
      PROVE  Cardinality(upTo(p)) < Cardinality(upTo(q))
  <2>1. \A r \in Unreserved : r \in Int
    BY <1>1
  <2>2. upTo(p) \subseteq upTo(q) /\ q \in upTo(q) /\ q \notin upTo(p)
    <3>1. p \in Int /\ q \in Int /\ p < q
      BY <2>1, <1>4
    <3>2. ASSUME NEW r \in upTo(p)
          PROVE  r \in upTo(q)
      <4>1. r \in Unreserved /\ r \in Int /\ r <= p
        BY <2>1
      <4>2. r <= q
        BY <4>1, <3>1
      <4> QED BY <4>1, <4>2
    <3>3. q <= q /\ ~(q <= p)
      BY <3>1
    <3> QED BY <3>2, <3>3
  <2>3. IsFiniteSet(upTo(q)) /\ Cardinality(upTo(q)) \in Nat /\ Cardinality(upTo(p)) \in Nat
    BY <1>3
  <2> HIDE DEF upTo
  <2>4. /\ Cardinality(upTo(p)) <= Cardinality(upTo(q))
        /\ Cardinality(upTo(p)) # Cardinality(upTo(q))
    BY <2>2, <2>3, FS_Subset
  <2> QED BY <2>3, <2>4
<1>5. \A p \in Unreserved : NewRnti(p) = lastRnti + Cardinality(upTo(p))
  BY DEF NewRnti
<1> HIDE DEF upTo
<1>6. ASSUME NEW p \in Unreserved, NEW q \in Unreserved, NewRnti(p) = NewRnti(q)
      PROVE  p = q
  <2>1. p \in Int /\ q \in Int
    BY <1>1
  <2>2. Cardinality(upTo(p)) = Cardinality(upTo(q))
    BY <1>3, <1>5, <1>6, <1>1
  <2> QED BY <2>1, <2>2, <1>3, <1>4
<1> QED BY <1>1, <1>2, <1>3, <1>5, <1>6

\* The records of a UE.
Ues == [state : {"IDLE_START", "IDLE_CAMPED_NORMALLY", "IDLE_WAIT_SIB2",
                 "IDLE_RANDOM_ACCESS", "IDLE_CONNECTING",
                 "CONNECTED_HANDOVER", "CONNECTED_NORMALLY"},
        here : BOOLEAN,
        rnti : Rnti \cup {0},
        preamble : Preamble \cup {NoPreamble},
        waiting : BOOLEAN]

\* What waits in a PHY is a preamble: TypeOK needs it when it is received.
AirHasPreamble == \A u \in air : ue[u].preamble \in Preamble

TypeInv == TypeOK /\ AirHasPreamble

\* Every step keeps the types.
LEMMA TypeInit == Init => TypeInv
<1> SUFFICES ASSUME Init PROVE TypeInv
  OBVIOUS
<1>1. Fresh \in Ues /\ Elsewhere \in Ues
  BY DEF Ues, Fresh, Elsewhere
<1>2. ue \in [UE -> Ues]
  BY <1>1 DEF Init
<1>3. lastRnti \in 0 .. MaxRnti /\ accesses \in 0 .. MaxAccesses
  BY DEF Init
<1> QED BY <1>2, <1>3 DEF Init, TypeInv, AirHasPreamble, TypeOK, Ues, NoContext, NoEntry

LEMMA TypeStep == TypeInv /\ [Next]_vars => TypeOK'
<1> SUFFICES ASSUME TypeOK, AirHasPreamble, [Next]_vars PROVE TypeOK'
  BY DEF TypeInv
<1> USE DEF TypeOK
<1>1. ASSUME NEW u \in UE, ConnectToMmWave(u) PROVE TypeOK'
  <2>1. ue \in [UE -> Ues]
    BY DEF Ues
  <2>2. [ue[u] EXCEPT !.state = "IDLE_WAIT_SIB2", !.here = TRUE] \in Ues
    BY <2>1 DEF Ues
  <2>3. ue' = [ue EXCEPT ![u] = [ue[u] EXCEPT !.state = "IDLE_WAIT_SIB2", !.here = TRUE]]
    BY <1>1, <2>1 DEF ConnectToMmWave, Ues
  <2>4. ue' \in [UE -> Ues]
    BY <2>1, <2>2, <2>3
  <2> QED BY <1>1, <2>4 DEF ConnectToMmWave, radio, Ues
<1>2. ASSUME NEW u \in UE, StartConnection(u) PROVE TypeOK'
  <2>1. NextPreamble \in Preamble
    BY DEF NextPreamble, Preamble
  <2> QED BY <1>2, <2>1 DEF StartConnection, SendRaPreamble
<1>3. CASE StartConnectionElsewhere
  BY <1>3 DEF StartConnectionElsewhere, radio
<1>4. ASSUME NEW m \in messages, RecvHandoverCommand(m) PROVE TypeOK'
  <2>1. m \in Command
    BY <1>4 DEF RecvHandoverCommand, Downlink, Uplink, Request
  <2>2. m.ue \in UE /\ m.rnti \in Rnti /\ m.preamble \in Preamble
    BY <2>1 DEF Command, ReservedPreamble, Preamble
  <2> QED BY <1>4, <2>2 DEF RecvHandoverCommand, SendRaPreamble
<1>5. ASSUME NEW e \in rar, ReceiveRar(e) PROVE TypeOK'
  <2>1. e.rnti \in Rnti /\ e.preamble \in Preamble
    OBVIOUS
  <2>2. \A u \in UE : Answer(u, e.rnti) \in Uplink \cup Request
    BY <2>1 DEF Answer, ConnectionRequest, ReconfigurationCompleted, Uplink, Request
  <2>3. messages' \in SUBSET (Downlink \cup Uplink \cup Request \cup Command)
    BY <1>5, <2>2 DEF ReceiveRar
  <2>4. \A u \in UE : AfterResponse(ue[u], e.rnti) \in Ues
    <3>1. \A u \in UE : ue[u] \in Ues
      BY DEF Ues
    <3> QED BY <2>1, <3>1 DEF AfterResponse, Ues
  <2>5. ue' \in [UE -> Ues]
    BY <1>5, <2>4 DEF ReceiveRar, Ues
  <2> QED BY <1>5, <2>3, <2>5 DEF ReceiveRar, Ues
<1>6. ASSUME NEW u \in UE, RecvRrcConnectionSetup(u) PROVE TypeOK'
  <2>1. ue[u].rnti \in Rnti
    BY <1>6 DEF RecvRrcConnectionSetup, ConnectionSetup, Downlink, Uplink, Request, Command
  <2>2. SetupCompleted(ue[u].rnti) \in Uplink
    BY <2>1 DEF SetupCompleted, Uplink
  <2> QED BY <1>6, <2>2 DEF RecvRrcConnectionSetup, radio
<1>7. ASSUME NEW u \in UE, ConnectionTimeout(u) PROVE TypeOK'
  BY <1>7 DEF ConnectionTimeout, radio
<1>8. ASSUME NEW u \in air, ReceiveRachPreamble(u) PROVE TypeOK'
  BY <1>8 DEF ReceiveRachPreamble, AirHasPreamble
<1>9. CASE SubframeIndication
  <2>1. \A p \in received : ResponseTo(p) \in [preamble : Preamble, rnti : Rnti]
    <3>1. ASSUME NEW p \in received, IsReserved(p) PROVE reserved[p].rnti \in Rnti
      BY <3>1 DEF IsReserved
    <3>2. ASSUME NEW p \in received, ~IsReserved(p) PROVE NewRnti(p) \in Rnti
      <4>1. p \in Unreserved /\ lastRnti \in Nat /\ MaxRnti \in Nat
        BY <3>2 DEF Unreserved
      <4> QED BY <4>1, <1>9, NewRntis DEF SubframeIndication, Rnti
    <3> QED BY <3>1, <3>2 DEF ResponseTo
  <2>2. lastRnti' \in 0 .. MaxRnti
    BY <1>9, NewRntis DEF SubframeIndication
  <2>3. /\ rar' \in SUBSET [preamble : Preamble, rnti : Rnti]
        /\ received' \in SUBSET Preamble
    BY <1>9, <2>1 DEF SubframeIndication
  <2>4. reserved' \in [ReservedPreamble -> [rnti : Rnti \cup {0}, expired : BOOLEAN]]
    BY <1>9 DEF SubframeIndication, NoEntry
  <2>5. context' \in [Rnti -> [state : {"none", "INITIAL_RANDOM_ACCESS", "CONNECTION_SETUP",
                                      "HANDOVER_JOINING", "CONNECTED_NORMALLY"},
                             imsi : UE \cup {Nobody}]]
    BY <1>9 DEF SubframeIndication
  <2> QED BY <1>9, <2>2, <2>3, <2>4, <2>5 DEF SubframeIndication
<1>10. ASSUME NEW u \in DualUe, NEW p \in ReservedPreamble, RecvHandoverRequest(u, p)
       PROVE  TypeOK'
  BY <1>10 DEF RecvHandoverRequest, radio, HandoverCommand, Command, Rnti
<1>11. ASSUME NEW p \in ReservedPreamble, ExpirePreamble(p) PROVE TypeOK'
  BY <1>11 DEF ExpirePreamble, radio
<1>12. ASSUME NEW m \in messages, RecvRrcConnectionRequest(m) PROVE TypeOK'
  <2>1. m.ue \in UE /\ m.rnti \in Rnti
    BY <1>12 DEF RecvRrcConnectionRequest, Request, Downlink, Uplink, Command
  <2>2. ConnectionSetup(m.rnti) \in Downlink
    BY <2>1 DEF ConnectionSetup, Downlink
  <2> QED BY <1>12, <2>1, <2>2 DEF RecvRrcConnectionRequest, radio
<1>13. ASSUME NEW m \in messages, RecvRrcConnectionSetupCompleted(m) PROVE TypeOK'
  BY <1>13 DEF RecvRrcConnectionSetupCompleted, radio
<1>14. ASSUME NEW m \in messages, RecvReconfigurationCompleted(m) PROVE TypeOK'
  BY <1>14 DEF RecvReconfigurationCompleted, radio
<1>15. ASSUME NEW r \in Rnti, ConnectionSetupTimeout(r) PROVE TypeOK'
  BY <1>15 DEF ConnectionSetupTimeout, RemoveUe, NoContext, radio
<1>16. ASSUME NEW r \in Rnti, HandoverJoiningTimeout(r) PROVE TypeOK'
  BY <1>16 DEF HandoverJoiningTimeout, RemoveUe, NoContext, radio
<1>17. ASSUME NEW u \in UE, LeaveCell(u) PROVE TypeOK'
  BY <1>17 DEF LeaveCell, RemoveUe, NoContext, Elsewhere, radio
<1>18. ASSUME NEW m \in messages, LoseMessage(m) PROVE TypeOK'
  BY <1>18 DEF LoseMessage, radio
<1>19. CASE UNCHANGED vars
  BY <1>19 DEF vars
<1> QED
  BY <1>1, <1>2, <1>3, <1>4, <1>5, <1>6, <1>7, <1>8, <1>9, <1>10, <1>11, <1>12, <1>13,
     <1>14, <1>15, <1>16, <1>17, <1>18, <1>19 DEF Next

LEMMA AirStep == TypeInv /\ [Next]_vars => AirHasPreamble'
<1> SUFFICES ASSUME TypeOK, AirHasPreamble, [Next]_vars PROVE AirHasPreamble'
  BY DEF TypeInv
<1> USE DEF AirHasPreamble
<1>0. air \subseteq UE /\ ue \in [UE -> Ues] /\ DOMAIN ue = UE
  BY DEF TypeOK, Ues
<1>1. ASSUME NEW u \in UE, NEW s, NEW r, NEW p \in Preamble, SendRaPreamble(u, s, r, p)
      PROVE  AirHasPreamble'
  BY <1>0, <1>1 DEF SendRaPreamble
<1>2. ASSUME NEW u \in UE, StartConnection(u) PROVE AirHasPreamble'
  <2>1. NextPreamble \in Preamble
    BY DEF TypeOK, NextPreamble, Preamble
  <2> QED BY <1>1, <1>2, <2>1 DEF StartConnection
<1>3. ASSUME NEW m \in messages, RecvHandoverCommand(m) PROVE AirHasPreamble'
  <2>1. m \in Command
    BY <1>3 DEF TypeOK, RecvHandoverCommand, Downlink, Uplink, Request
  <2>2. m.ue \in UE /\ m.preamble \in Preamble
    BY <2>1 DEF Command, ReservedPreamble, Preamble
  <2> QED BY <1>1, <1>3, <2>2 DEF RecvHandoverCommand
<1>4. ASSUME air' \subseteq air, \A u \in air' : ue'[u].preamble = ue[u].preamble
      PROVE  AirHasPreamble'
  BY <1>4
<1>5. ASSUME NEW e \in rar, ReceiveRar(e) PROVE AirHasPreamble'
  <2>1. \A u \in UE : AfterResponse(ue[u], e.rnti).preamble = ue[u].preamble
    BY <1>0 DEF AfterResponse, Ues
  <2> QED BY <1>0, <1>4, <1>5, <2>1 DEF ReceiveRar
<1>6. ASSUME NEW u \in UE, LeaveCell(u) PROVE AirHasPreamble'
  BY <1>0, <1>4, <1>6 DEF LeaveCell
<1>7. ASSUME NEW u \in UE, ConnectToMmWave(u) \/ RecvRrcConnectionSetup(u) \/ ConnectionTimeout(u)
      PROVE  AirHasPreamble'
  <2>1. air' = air /\ \A v \in UE : ue'[v].preamble = ue[v].preamble
    BY <1>0, <1>7 DEF ConnectToMmWave, RecvRrcConnectionSetup, ConnectionTimeout, radio, Ues
  <2> QED BY <1>0, <1>4, <2>1
<1>8. ASSUME UNCHANGED ue, air' \subseteq air PROVE AirHasPreamble'
  BY <1>4, <1>8
<1> QED
  BY <1>2, <1>3, <1>5, <1>6, <1>7, <1>8
     DEF Next, vars, radio, StartConnectionElsewhere, ReceiveRachPreamble, SubframeIndication,
         RecvHandoverRequest, ExpirePreamble, RecvRrcConnectionRequest,
         RecvRrcConnectionSetupCompleted, RecvReconfigurationCompleted, RemoveUe,
         ConnectionSetupTimeout, HandoverJoiningTimeout, LoseMessage

\* Every variable keeps its type, for any UEs and any number of preambles,
\* also when preambles collide: in particular the RNTIs that one subframe
\* allocates are distinct and there are enough of them.
THEOREM TypeCorrect == Spec => []TypeOK
<1>1. TypeInv /\ [Next]_vars => TypeInv'
  BY TypeStep, AirStep DEF TypeInv
<1>2. Spec => []TypeInv
  BY TypeInit, <1>1, PTL DEF Spec
<1>3. TypeInv => TypeOK
  BY DEF TypeInv
<1> QED BY <1>2, <1>3, PTL

-----------------------------------------------------------------------------
(* One RNTI for each UE, when commands arrive in time and the counter does *)
(* not reach the reserved preambles.                                       *)

Orderly == CommandsInTime /\ MaxAccesses <= NumberOfRaPreambles

Commands == {m \in messages : m.type = "HandoverCommand"}

\* A UE has an RNTI, or a message says that it does.
Claims(u, r) ==
    \/ \E m \in Commands : m.ue = u /\ m.rnti = r
    \/ ue[u].here /\ ue[u].rnti = r
    \/ ConnectionRequest(u, r) \in messages

RntisAllocated ==
    /\ \A u \in UE : ue[u].rnti <= lastRnti
    /\ \A p \in ReservedPreamble : reserved[p].rnti <= lastRnti
    /\ \A e \in rar : e.rnti <= lastRnti
    /\ \A m \in messages : m.rnti <= lastRnti

OneClaim ==
    \A r \in Rnti, u \in UE : Claims(u, r) =>
        /\ context[r].imsi \in {u, Nobody}
        /\ \A v \in UE : Claims(v, r) => v = u

Joining(u) == ue[u].state = "CONNECTED_HANDOVER"

MacState ==
    \A u \in UE :
        /\ Joining(u) => ue[u].preamble \in ReservedPreamble /\ ue[u].rnti # 0
        /\ ue[u].state = "IDLE_RANDOM_ACCESS" => ue[u].preamble < accesses
        /\ Accessing(u) => ue[u].here /\ ue[u].waiting
        /\ ue[u].waiting /\ ~Accessing(u) => ue[u].preamble = NoPreamble
        /\ ue[u].state \in {"IDLE_START", "IDLE_CAMPED_NORMALLY", "IDLE_WAIT_SIB2",
                            "IDLE_RANDOM_ACCESS"} => ue[u].rnti = 0

\* Two UEs that access do not use one preamble, and no trace of a preamble is
\* left when it is used.
PreamblesDiffer ==
    \A u, v \in UE : Accessing(u) /\ Accessing(v) /\ ue[u].preamble = ue[v].preamble => u = v

AirIsNew ==
    /\ \A u \in air : /\ Accessing(u) /\ ue[u].preamble \notin received
                      /\ \A e \in rar : e.preamble # ue[u].preamble
    /\ \A p \in received \ ReservedPreamble : p < accesses
    /\ \A e \in rar : e.preamble \notin ReservedPreamble => e.preamble < accesses

\* The entry of a preamble lives as long as a UE may use it.
Reserves(p, r) == reserved[p].rnti = r /\ ~reserved[p].expired

CommandsReserved ==
    \A m \in Commands :
        /\ ue[m.ue] = Elsewhere
        /\ Reserves(m.preamble, m.rnti)
        /\ \A n \in Commands : n.ue = m.ue => n = m

JoiningReserved ==
    \A u \in UE : Joining(u) =>
        \/ /\ u \in air \/ ue[u].preamble \in received
           /\ Reserves(ue[u].preamble, ue[u].rnti)
        \/ [preamble |-> ue[u].preamble, rnti |-> ue[u].rnti] \in rar

ReceivedReserved ==
    \A p \in received \cap ReservedPreamble :
        \E u \in UE : Joining(u) /\ ue[u].preamble = p /\ Reserves(p, ue[u].rnti)

EntriesDiffer ==
    \A p, q \in ReservedPreamble :
        reserved[p].rnti = reserved[q].rnti /\ reserved[p].rnti # 0 => p = q

\* The RNTI of a response is in no other one and in no entry, and its only
\* claimant is the UE for which it was reserved.
ResponsesDiffer ==
    \A e \in rar :
        /\ \A f \in rar : e.rnti = f.rnti => e = f
        /\ \A p \in ReservedPreamble : reserved[p].rnti # e.rnti

ResponsesAwaited ==
    \A e \in rar :
        /\ \A u \in UE : Claims(u, e.rnti) => Joining(u) /\ ue[u].preamble = e.preamble
        /\ \A u \in UE : Joining(u) /\ ue[u].preamble = e.preamble => ue[u].rnti = e.rnti
        /\ e.preamble \notin ReservedPreamble => context[e.rnti].imsi = Nobody

RntiInv ==
    /\ TypeOK /\ RntisAllocated /\ OneClaim /\ MacState /\ PreamblesDiffer /\ AirIsNew
    /\ CommandsReserved /\ JoiningReserved /\ ReceivedReserved /\ EntriesDiffer
    /\ ResponsesDiffer /\ ResponsesAwaited

LEMMA RntiInit == Init => RntiInv
<1> SUFFICES ASSUME Init PROVE RntiInv
  OBVIOUS
<1>1. TypeOK
  BY TypeInit DEF TypeInv
<1>2. /\ air = {} /\ received = {} /\ rar = {} /\ messages = {} /\ Commands = {}
      /\ \A p \in ReservedPreamble : reserved[p].rnti = 0
      /\ lastRnti = 0
  BY DEF Init, NoEntry, Commands
<1>3. \A u \in UE : ue[u] = Fresh \/ ue[u] = Elsewhere
  BY DEF Init
<1>4. \A u \in UE : /\ ue[u].rnti = 0 /\ ~Accessing(u)
                    /\ ue[u].waiting => ue[u].preamble = NoPreamble
  BY <1>3 DEF Fresh, Elsewhere, Accessing
<1>5. \A u \in UE, r \in Rnti : ~Claims(u, r)
  BY <1>2, <1>4 DEF Claims, Rnti
<1>6. RntisAllocated
  BY <1>2, <1>4 DEF RntisAllocated
<1>7. MacState
  BY <1>4 DEF MacState, Accessing, Joining
<1>8. PreamblesDiffer /\ JoiningReserved
  BY <1>4 DEF PreamblesDiffer, JoiningReserved, Accessing, Joining
<1> QED
  BY <1>1, <1>2, <1>5, <1>6, <1>7, <1>8
     DEF RntiInv, OneClaim, AirIsNew, CommandsReserved, ReceivedReserved, EntriesDiffer,
         ResponsesDiffer, ResponsesAwaited

\* The types of a message's fields.
LEMMA MessageTypes ==
    ASSUME TypeOK, NEW m \in messages
    PROVE  /\ m.rnti \in Rnti
           /\ m.type = "HandoverCommand" => m.ue \in UE /\ m.preamble \in ReservedPreamble
           /\ m.type = "RrcConnectionRequest" =>
                 m.ue \in UE /\ m = ConnectionRequest(m.ue, m.rnti)
BY DEF TypeOK, Downlink, Uplink, Request, Command, ConnectionRequest

\* The UEs and the cell may do anything that concerns no preamble and gives no
\* UE an RNTI.
Aside ==
    /\ UNCHANGED <<received, reserved, rar, lastRnti, air>>
    /\ accesses' >= accesses
    /\ \A r \in Rnti : context'[r].imsi \in {context[r].imsi, Nobody}
    /\ \A m \in messages' :
          m \in messages \/ m.type \notin {"HandoverCommand", "RrcConnectionRequest"}
    /\ \A m \in messages' : m.rnti <= lastRnti
    /\ \A u \in UE :
          ue'[u] # ue[u] =>
             /\ ue[u] # Elsewhere /\ ~Accessing(u) /\ ~Accessing(u)'
             /\ ue'[u].rnti <= lastRnti
             /\ ue'[u].here /\ ue'[u].rnti # 0 => ue[u].here /\ ue'[u].rnti = ue[u].rnti
             /\ ue'[u].waiting => ue'[u].preamble = NoPreamble
             /\ ue'[u].state \in {"IDLE_START", "IDLE_CAMPED_NORMALLY", "IDLE_WAIT_SIB2"} =>
                   ue'[u].rnti = 0

LEMMA AsideClaims ==
    ASSUME RntiInv, Aside
    PROVE  /\ Commands' \subseteq Commands
           /\ \A u \in UE, r \in Rnti : Claims(u, r)' => Claims(u, r)
<1>1. Commands' \subseteq Commands
  BY DEF Aside, Commands
<1>2. \A u \in UE, r \in Rnti : Claims(u, r)' => Claims(u, r)
  <2> SUFFICES ASSUME NEW u \in UE, NEW r \in Rnti, Claims(u, r)' PROVE Claims(u, r)
    OBVIOUS
  <2>1. CASE \E m \in Commands' : m.ue = u /\ m.rnti = r
    BY <1>1, <2>1 DEF Claims
  <2>2. CASE ue'[u].here /\ ue'[u].rnti = r
    BY <2>2 DEF Claims, Aside, Rnti
  <2>3. CASE ConnectionRequest(u, r) \in messages'
    BY <2>3 DEF Claims, Aside, ConnectionRequest
  <2> QED BY <2>1, <2>2, <2>3 DEF Claims
<1> QED BY <1>1, <1>2

LEMMA StepAside == RntiInv /\ TypeOK' /\ Aside => RntiInv'
<1> SUFFICES ASSUME RntiInv, TypeOK', Aside PROVE RntiInv'
  OBVIOUS
<1> USE DEF RntiInv
<1>1. \A u \in UE : Accessing(u) \/ Accessing(u)' => ue'[u] = ue[u]
  BY DEF Aside
<1>2. \A u \in UE : /\ Accessing(u)' <=> Accessing(u)
                    /\ Joining(u)' <=> Joining(u)
  BY <1>1 DEF Aside, Accessing, Joining
<1>3. Commands' \subseteq Commands
  BY AsideClaims
<1>4. \A u \in UE, r \in Rnti : Claims(u, r)' => Claims(u, r)
  BY AsideClaims
<1>5. RntisAllocated'
  BY DEF Aside, RntisAllocated
<1>6. OneClaim'
  BY <1>4 DEF OneClaim, Aside
<1>7. MacState'
  <2> SUFFICES ASSUME NEW u \in UE
               PROVE  /\ Joining(u)' => ue'[u].preamble \in ReservedPreamble /\ ue'[u].rnti # 0
                      /\ ue'[u].state = "IDLE_RANDOM_ACCESS" => ue'[u].preamble < accesses'
                      /\ Accessing(u)' => ue'[u].here /\ ue'[u].waiting
                      /\ ue'[u].waiting /\ ~Accessing(u)' => ue'[u].preamble = NoPreamble
                      /\ ue'[u].state \in {"IDLE_START", "IDLE_CAMPED_NORMALLY",
                                           "IDLE_WAIT_SIB2", "IDLE_RANDOM_ACCESS"} =>
                            ue'[u].rnti = 0
    BY DEF MacState
  <2>1. CASE ue'[u] = ue[u]
    <3>1. ue[u].state = "IDLE_RANDOM_ACCESS" => ue[u].preamble < accesses'
      <4>1. ue[u].state = "IDLE_RANDOM_ACCESS" => ue[u].preamble < accesses
        BY DEF MacState
      <4>2. ue[u].preamble \in Int /\ accesses \in Int /\ accesses' \in Int
        BY DEF TypeOK, Preamble, NoPreamble
      <4> QED BY <4>1, <4>2 DEF Aside
    <3> QED BY <1>2, <2>1, <3>1 DEF MacState
  <2>2. CASE ue'[u] # ue[u]
    BY <2>2 DEF Aside, Accessing, Joining
  <2> QED BY <2>1, <2>2
<1>8. PreamblesDiffer'
  BY <1>1, <1>2 DEF PreamblesDiffer
<1>9. AirIsNew'
  <2>1. \A u \in air : u \in UE /\ Accessing(u) /\ ue'[u] = ue[u]
    BY <1>1 DEF AirIsNew, TypeOK
  <2>2. \A p \in received : p \in Int
    BY DEF TypeOK, Preamble
  <2>3. \A e \in rar : e.preamble \in Int
    BY DEF TypeOK, Preamble
  <2>4. accesses \in Int /\ accesses' \in Int
    BY DEF TypeOK
  <2> QED BY <1>2, <2>1, <2>2, <2>3, <2>4 DEF AirIsNew, Aside
<1>10. CommandsReserved'
  <2>1. \A m \in Commands : m.ue \in UE
    BY MessageTypes DEF Commands
  <2>2. \A m \in Commands : ue'[m.ue] = Elsewhere
    BY <2>1 DEF CommandsReserved, Aside
  <2>3. \A m \in Commands : Reserves(m.preamble, m.rnti)'
    BY DEF CommandsReserved, Reserves, Aside
  <2>4. \A m, n \in Commands : n.ue = m.ue => n = m
    BY DEF CommandsReserved
  <2> QED BY <1>3, <2>2, <2>3, <2>4 DEF CommandsReserved
<1>11. JoiningReserved'
  BY <1>1, <1>2 DEF JoiningReserved, Aside, Reserves, Accessing, Joining
<1>12. ReceivedReserved'
  BY <1>1, <1>2 DEF ReceivedReserved, Aside, Reserves, Accessing, Joining
<1>13. EntriesDiffer' /\ ResponsesDiffer'
  BY DEF EntriesDiffer, ResponsesDiffer, Aside
<1>14. ResponsesAwaited'
  <2> SUFFICES ASSUME NEW e \in rar
               PROVE  /\ \A u \in UE : Claims(u, e.rnti)' =>
                            Joining(u)' /\ ue'[u].preamble = e.preamble
                      /\ \A u \in UE : Joining(u)' /\ ue'[u].preamble = e.preamble =>
                            ue'[u].rnti = e.rnti
                      /\ e.preamble \notin ReservedPreamble => context'[e.rnti].imsi = Nobody
    BY DEF ResponsesAwaited, Aside
  <2>1. e.rnti \in Rnti
    BY DEF TypeOK
  <2>2. \A u \in UE : Joining(u) => ue'[u] = ue[u]
    BY <1>1 DEF Accessing, Joining
  <2>3. e.preamble \notin ReservedPreamble => context'[e.rnti].imsi = Nobody
    BY <2>1 DEF ResponsesAwaited, Aside
  <2> QED BY <1>2, <1>4, <2>1, <2>2, <2>3 DEF ResponsesAwaited
<1> QED
  BY <1>5, <1>6, <1>7, <1>8, <1>9, <1>10, <1>11, <1>12, <1>13, <1>14

LEMMA StepsAside ==
    ASSUME RntiInv, TypeOK',
           \/ \E u \in UE : ConnectToMmWave(u)
           \/ StartConnectionElsewhere
           \/ \E u \in UE : RecvRrcConnectionSetup(u)
           \/ \E u \in UE : ConnectionTimeout(u)
           \/ \E m \in messages : RecvRrcConnectionSetupCompleted(m)
           \/ \E m \in messages : RecvReconfigurationCompleted(m)
           \/ \E r \in Rnti : ConnectionSetupTimeout(r)
           \/ \E r \in Rnti : HandoverJoiningTimeout(r)
           \/ \E u \in UE : LeaveCell(u)
           \/ \E m \in messages : LoseMessage(m)
           \/ UNCHANGED vars
    PROVE  Aside
<1> USE DEF RntiInv
<1>0. /\ DOMAIN ue = UE /\ ue \in [UE -> Ues]
      /\ DOMAIN context = Rnti
      /\ \A r \in Rnti : context[r] = [state |-> context[r].state, imsi |-> context[r].imsi]
      /\ accesses \in Nat /\ lastRnti \in Nat
      /\ \A m \in messages : m.rnti <= lastRnti
      /\ \A u \in UE : ue[u].rnti <= lastRnti
      /\ \A u \in UE : ue[u].waiting /\ ~Accessing(u) => ue[u].preamble = NoPreamble
  BY DEF TypeOK, RntisAllocated, MacState, Ues
<1>1. ASSUME NEW u \in UE, ConnectToMmWave(u) PROVE Aside
  <2>1. ue[u].rnti = 0
    BY <1>1 DEF ConnectToMmWave, MacState
  <2> QED BY <1>0, <1>1, <2>1 DEF ConnectToMmWave, Aside, radio, Accessing, Elsewhere, Ues
<1>2. CASE StartConnectionElsewhere
  BY <1>0, <1>2 DEF StartConnectionElsewhere, Aside, radio
<1>3. ASSUME NEW u \in UE, RecvRrcConnectionSetup(u) PROVE Aside
  <2>1. ue[u].rnti <= lastRnti /\ SetupCompleted(ue[u].rnti).type = "RrcConnectionSetupCompleted"
        /\ SetupCompleted(ue[u].rnti).rnti = ue[u].rnti
    BY <1>0 DEF SetupCompleted
  <2> QED BY <1>0, <1>3, <2>1 DEF RecvRrcConnectionSetup, Aside, radio, Accessing, Elsewhere, Ues
<1>4. ASSUME NEW u \in UE, ConnectionTimeout(u) PROVE Aside
  BY <1>0, <1>4 DEF ConnectionTimeout, Aside, radio, Accessing, Elsewhere, Ues
<1>5. ASSUME NEW m \in messages, RecvRrcConnectionSetupCompleted(m) PROVE Aside
  BY <1>0, <1>5, MessageTypes DEF RecvRrcConnectionSetupCompleted, Aside, radio
<1>6. ASSUME NEW m \in messages, RecvReconfigurationCompleted(m) PROVE Aside
  BY <1>0, <1>6, MessageTypes DEF RecvReconfigurationCompleted, Aside, radio
<1>7. ASSUME NEW r \in Rnti, RemoveUe(r), UNCHANGED <<ue, air>> PROVE Aside
  BY <1>0, <1>7 DEF RemoveUe, Aside, NoContext
<1>8. ASSUME NEW u \in UE, LeaveCell(u) PROVE Aside
  <2>1. u \notin air /\ ~Accessing(u) /\ ue[u] # Elsewhere
    BY <1>8 DEF AirIsNew, LeaveCell, Accessing, Elsewhere
  <2>2. air' = air
    BY <2>1, <1>8 DEF LeaveCell
  <2>3. ue' = [ue EXCEPT ![u] = Elsewhere] /\ RemoveUe(ue[u].rnti)
    BY <1>8 DEF LeaveCell
  <2>4. \A r \in Rnti : context'[r].imsi \in {context[r].imsi, Nobody}
    BY <1>0, <2>3 DEF RemoveUe, NoContext
  <2> QED BY <1>0, <2>1, <2>2, <2>3, <2>4 DEF RemoveUe, Aside, Accessing, Elsewhere
<1>9. ASSUME NEW m \in messages, LoseMessage(m) PROVE Aside
  BY <1>0, <1>9 DEF LoseMessage, Aside, radio
<1>10. CASE UNCHANGED vars
  BY <1>0, <1>10 DEF vars, Aside
<1> QED
  BY <1>1, <1>2, <1>3, <1>4, <1>5, <1>6, <1>7, <1>8, <1>9, <1>10
     DEF ConnectionSetupTimeout, HandoverJoiningTimeout

\* A connection uses a preamble that is not reserved.
LEMMA NotReserved ==
    ASSUME RntiInv, Orderly, NEW u \in UE, ue[u].state = "IDLE_RANDOM_ACCESS"
    PROVE  ue[u].preamble \notin ReservedPreamble
<1>1. ue[u].preamble < accesses /\ accesses <= MaxAccesses /\ MaxAccesses <= NumberOfRaPreambles
  BY DEF RntiInv, MacState, TypeOK, Orderly
<1>2. accesses \in Int /\ ue[u].preamble \in Int
  BY DEF RntiInv, TypeOK, Preamble, NoPreamble
<1> QED BY <1>1, <1>2 DEF ReservedPreamble

\* A UE that has been commanded has not sent its preamble, and none else has.
LEMMA CommandFirst ==
    ASSUME RntiInv, NEW m \in Commands
    PROVE  /\ m.ue \in UE /\ m.rnti \in Rnti /\ m.preamble \in ReservedPreamble
           /\ ue[m.ue] = Elsewhere /\ Claims(m.ue, m.rnti)
           /\ m.preamble \notin received
           /\ \A u \in UE : Joining(u) /\ ue[u].preamble = m.preamble =>
                 [preamble |-> m.preamble, rnti |-> ue[u].rnti] \in rar
<1> USE DEF RntiInv
<1>1. m \in messages /\ m.type = "HandoverCommand"
  BY DEF Commands
<1>2. m.ue \in UE /\ m.rnti \in Rnti /\ m.preamble \in ReservedPreamble
  BY <1>1, MessageTypes
<1>3. /\ ue[m.ue] = Elsewhere /\ Claims(m.ue, m.rnti)
      /\ Reserves(m.preamble, m.rnti)
  BY DEF CommandsReserved, Claims
<1>4. ASSUME NEW u \in UE, Joining(u) PROVE ~Reserves(m.preamble, ue[u].rnti)
  <2>1. u # m.ue
    BY <1>3, <1>4 DEF Elsewhere, Joining
  <2>2. ue[u].here
    BY <1>4 DEF MacState, Accessing, Joining
  <2>3. ue[u].rnti = m.rnti => Claims(u, m.rnti)
    BY <2>2 DEF Claims
  <2> QED BY <1>2, <1>3, <2>1, <2>3 DEF OneClaim, Reserves
<1>5. m.preamble \notin received
  BY <1>2, <1>4 DEF ReceivedReserved
<1> QED BY <1>2, <1>3, <1>4, <1>5 DEF JoiningReserved

LEMMA StepStartConnection ==
    ASSUME RntiInv, TypeOK', Orderly, NEW u \in UE, StartConnection(u)
    PROVE  RntiInv'
<1> USE DEF RntiInv
<1> DEFINE new == [state |-> "IDLE_RANDOM_ACCESS", here |-> TRUE, rnti |-> ue[u].rnti,
                   preamble |-> NextPreamble, waiting |-> TRUE]
<1>0. /\ ue' = [ue EXCEPT ![u] = new]
      /\ air' = air \cup {u} /\ accesses' = accesses + 1
      /\ UNCHANGED <<received, reserved, rar, context, lastRnti, messages>>
      /\ ue[u].state = "IDLE_WAIT_SIB2" /\ ue[u].rnti = 0
  BY DEF StartConnection, SendRaPreamble, MacState
<1>1. /\ NextPreamble = accesses /\ accesses \in Nat /\ accesses < NumberOfRaPreambles
      /\ accesses \notin ReservedPreamble
  <2>1. accesses \in Nat /\ accesses < MaxAccesses /\ MaxAccesses <= NumberOfRaPreambles
    BY DEF StartConnection, Orderly, TypeOK
  <2>2. accesses < NumberOfRaPreambles /\ accesses < Modulus /\ Modulus \in Nat
    BY <2>1
  <2>3. accesses % Modulus = accesses
    BY <2>1, <2>2
  <2> QED BY <2>1, <2>2, <2>3 DEF NextPreamble, ReservedPreamble
<1>2. DOMAIN ue = UE /\ new.rnti = 0 /\ new.preamble = accesses
  BY <1>0, <1>1 DEF TypeOK
<1> HIDE DEF new
<1>3. /\ ue'[u] = new
      /\ \A v \in UE : v # u => ue'[v] = ue[v]
      /\ new.state = "IDLE_RANDOM_ACCESS" /\ new.here /\ new.waiting
  BY <1>0, <1>2 DEF new
<1>4. /\ Accessing(u)' /\ ~Joining(u)' /\ ~Accessing(u) /\ ~Joining(u)
      /\ \A v \in UE : v # u => (Accessing(v)' <=> Accessing(v)) /\ (Joining(v)' <=> Joining(v))
  BY <1>0, <1>3 DEF Accessing, Joining
<1>5. Commands' = Commands
  BY <1>0 DEF Commands
<1>6. \A v \in UE, r \in Rnti : Claims(v, r)' <=> Claims(v, r)
  BY <1>0, <1>2, <1>3, <1>5 DEF Claims, Rnti
<1>7. RntisAllocated'
  BY <1>0, <1>2, <1>3 DEF RntisAllocated, TypeOK
<1>8. OneClaim'
  BY <1>0, <1>6 DEF OneClaim
<1>9. \A v \in UE : /\ v # u /\ Accessing(v) => ue[v].preamble # accesses
                    /\ ue[v].state = "IDLE_RANDOM_ACCESS" => ue[v].preamble < accesses'
  <2>1. \A v \in UE : ue[v].preamble \in Int
    BY DEF TypeOK, Preamble, NoPreamble
  <2> QED BY <1>0, <1>1, <2>1 DEF MacState, Accessing, Joining
<1>10. MacState'
  <2>1. accesses < accesses'
    BY <1>0, <1>1
  <2> QED BY <1>0, <1>2, <1>3, <1>4, <1>9, <2>1 DEF MacState, Joining
<1>11. PreamblesDiffer'
  BY <1>2, <1>3, <1>4, <1>9 DEF PreamblesDiffer
<1>12. AirIsNew'
  <2>1. /\ accesses \notin received
        /\ \A e \in rar : e.preamble # accesses
    BY <1>1 DEF AirIsNew
  <2>2. \A p \in received \ ReservedPreamble : p < accesses'
    BY <1>0, <1>1 DEF AirIsNew, TypeOK, Preamble
  <2>3. \A e \in rar : e.preamble \notin ReservedPreamble => e.preamble < accesses'
    BY <1>0, <1>1 DEF AirIsNew, TypeOK, Preamble
  <2>4. air \subseteq UE
    BY DEF TypeOK
  <2> QED BY <1>0, <1>2, <1>3, <1>4, <2>1, <2>2, <2>3, <2>4 DEF AirIsNew
<1>13. CommandsReserved'
  <2>1. \A m \in Commands : m.ue \in UE /\ m.ue # u
    BY <1>0, CommandFirst DEF Elsewhere
  <2> QED BY <1>0, <1>3, <1>5, <2>1 DEF CommandsReserved, Reserves
<1>14. JoiningReserved'
  BY <1>0, <1>3, <1>4 DEF JoiningReserved, Reserves
<1>15. ReceivedReserved'
  BY <1>0, <1>3, <1>4 DEF ReceivedReserved, Reserves
<1>16. EntriesDiffer' /\ ResponsesDiffer'
  BY <1>0 DEF EntriesDiffer, ResponsesDiffer
<1>17. ResponsesAwaited'
  <2>1. \A e \in rar : e.rnti \in Rnti
    BY DEF TypeOK
  <2> QED BY <1>0, <1>3, <1>4, <1>6, <2>1 DEF ResponsesAwaited
<1> QED
  BY <1>7, <1>8, <1>10, <1>11, <1>12, <1>13, <1>14, <1>15, <1>16, <1>17

LEMMA StepRecvHandoverCommand ==
    ASSUME RntiInv, TypeOK', Orderly, NEW m \in messages, RecvHandoverCommand(m)
    PROVE  RntiInv'
<1> USE DEF RntiInv
<1> DEFINE u == m.ue
           new == [state |-> "CONNECTED_HANDOVER", here |-> TRUE, rnti |-> m.rnti,
                   preamble |-> m.preamble, waiting |-> TRUE]
<1>0. /\ ue' = [ue EXCEPT ![u] = new]
      /\ air' = air \cup {u} /\ messages' = messages \ {m}
      /\ UNCHANGED <<accesses, received, reserved, rar, context, lastRnti>>
      /\ m \in Commands
      /\ \A e \in rar : e.preamble # m.preamble
  BY DEF RecvHandoverCommand, SendRaPreamble, Commands, CommandMayArrive
<1>1. /\ u \in UE /\ m.rnti \in Rnti /\ m.preamble \in ReservedPreamble
      /\ ue[u] = Elsewhere /\ Claims(u, m.rnti)
      /\ m.preamble \notin received
      /\ Reserves(m.preamble, m.rnti) /\ m.rnti <= lastRnti
  BY <1>0, CommandFirst DEF CommandsReserved, RntisAllocated
<1>2. DOMAIN ue = UE
  BY DEF TypeOK
<1>3. /\ ue'[u] = new
      /\ \A v \in UE : v # u => ue'[v] = ue[v]
      /\ new.state = "CONNECTED_HANDOVER" /\ new.here /\ new.waiting
      /\ new.rnti = m.rnti /\ new.preamble = m.preamble
  BY <1>0, <1>1, <1>2
<1> HIDE DEF new, u
<1>4. /\ Accessing(u)' /\ Joining(u)' /\ ~Accessing(u) /\ ~Joining(u)
      /\ \A v \in UE : v # u => (Accessing(v)' <=> Accessing(v)) /\ (Joining(v)' <=> Joining(v))
  BY <1>1, <1>3 DEF Accessing, Joining, Elsewhere
<1>5. Commands' = Commands \ {m}
  BY <1>0 DEF Commands
<1>6. \A v \in UE, r \in Rnti : Claims(v, r)' => Claims(v, r)
  <2> SUFFICES ASSUME NEW v \in UE, NEW r \in Rnti, Claims(v, r)' PROVE Claims(v, r)
    OBVIOUS
  <2>1. CASE v = u /\ r = m.rnti
    BY <1>1, <2>1
  <2>2. CASE ~(v = u /\ r = m.rnti)
    BY <1>0, <1>3, <1>5, <2>2 DEF Claims
  <2> QED BY <2>1, <2>2
<1>7. RntisAllocated'
  BY <1>0, <1>1, <1>3 DEF RntisAllocated
<1>8. OneClaim'
  BY <1>0, <1>6 DEF OneClaim
<1>9. \A v \in UE : Accessing(v) => ue[v].preamble # m.preamble
  <2> SUFFICES ASSUME NEW v \in UE, Accessing(v) PROVE ue[v].preamble # m.preamble
    OBVIOUS
  <2>1. CASE Joining(v)
    BY <1>0, <2>1, CommandFirst
  <2>2. CASE ue[v].state = "IDLE_RANDOM_ACCESS"
    BY <1>1, <2>2, NotReserved
  <2> QED BY <2>1, <2>2 DEF Accessing, Joining
<1>10. MacState'
  <2>1. m.rnti # 0
    BY <1>1 DEF Rnti
  <2> QED BY <1>0, <1>1, <1>3, <1>4, <2>1 DEF MacState, Joining
<1>11. PreamblesDiffer'
  BY <1>1, <1>3, <1>4, <1>9 DEF PreamblesDiffer
<1>12. AirIsNew'
  <2>1. air \subseteq UE
    BY DEF TypeOK
  <2> QED BY <1>0, <1>1, <1>3, <1>4, <2>1 DEF AirIsNew
<1>13. CommandsReserved'
  <2>1. \A n \in Commands' : n.ue \in UE /\ n.ue # u
    BY <1>0, <1>5, CommandFirst DEF CommandsReserved, u
  <2> QED BY <1>0, <1>3, <1>5, <2>1 DEF CommandsReserved, Reserves
<1>14. JoiningReserved'
  BY <1>0, <1>1, <1>3, <1>4 DEF JoiningReserved, Reserves
<1>15. ReceivedReserved'
  BY <1>0, <1>3, <1>4 DEF ReceivedReserved, Reserves
<1>16. EntriesDiffer' /\ ResponsesDiffer'
  BY <1>0 DEF EntriesDiffer, ResponsesDiffer
<1>17. ResponsesAwaited'
  <2>1. \A e \in rar : e.rnti \in Rnti
    BY DEF TypeOK
  <2> QED BY <1>0, <1>1, <1>3, <1>4, <1>6, <2>1 DEF ResponsesAwaited
<1> QED
  BY <1>7, <1>8, <1>10, <1>11, <1>12, <1>13, <1>14, <1>15, <1>16, <1>17

LEMMA StepReceiveRachPreamble ==
    ASSUME RntiInv, TypeOK', Orderly, NEW u \in air, ReceiveRachPreamble(u)
    PROVE  RntiInv'
<1> USE DEF RntiInv
<1> DEFINE p == ue[u].preamble
<1>0. /\ air' = air \ {u} /\ received' = received \cup {p}
      /\ UNCHANGED <<accesses, ue, reserved, rar, context, lastRnti, messages>>
  BY DEF ReceiveRachPreamble
<1>1. /\ u \in UE /\ Accessing(u) /\ p \notin received
      /\ \A e \in rar : e.preamble # p
  BY DEF AirIsNew, TypeOK
<1>2. p \in ReservedPreamble => Joining(u) /\ Reserves(p, ue[u].rnti)
  <2>1. p \in ReservedPreamble => Joining(u)
    BY <1>1, NotReserved DEF Accessing, Joining
  <2> QED BY <1>1, <2>1 DEF JoiningReserved
<1>3. p \notin ReservedPreamble => p < accesses
  BY <1>1 DEF MacState, Accessing, Joining
<1>4. \A v \in air : v # u => ue[v].preamble # p
  BY <1>1 DEF PreamblesDiffer, AirIsNew, TypeOK
<1> HIDE DEF p
<1>5. Commands' = Commands /\ \A v \in UE, r \in Rnti : Claims(v, r)' <=> Claims(v, r)
  BY <1>0 DEF Commands, Claims
<1>6. \A v \in UE : (Accessing(v)' <=> Accessing(v)) /\ (Joining(v)' <=> Joining(v))
  BY <1>0 DEF Accessing, Joining
<1>7. RntisAllocated' /\ OneClaim' /\ MacState' /\ PreamblesDiffer'
  BY <1>0, <1>5, <1>6 DEF RntisAllocated, OneClaim, MacState, PreamblesDiffer
<1>8. AirIsNew'
  BY <1>0, <1>1, <1>3, <1>4, <1>6 DEF AirIsNew, TypeOK
<1>9. CommandsReserved' /\ EntriesDiffer' /\ ResponsesDiffer'
  BY <1>0, <1>5 DEF CommandsReserved, EntriesDiffer, ResponsesDiffer, Reserves
<1>10. JoiningReserved'
  <2> SUFFICES ASSUME NEW v \in UE, Joining(v)
               PROVE  \/ /\ v \in air' \/ ue[v].preamble \in received'
                         /\ Reserves(ue[v].preamble, ue[v].rnti)
                      \/ [preamble |-> ue[v].preamble, rnti |-> ue[v].rnti] \in rar
    BY <1>0, <1>6 DEF JoiningReserved, Reserves
  <2>1. CASE v = u
    BY <1>0, <2>1 DEF JoiningReserved, p
  <2>2. CASE v # u
    BY <1>0, <2>2 DEF JoiningReserved
  <2> QED BY <2>1, <2>2
<1>11. ReceivedReserved'
  <2>1. p \in ReservedPreamble =>
           \E v \in UE : Joining(v) /\ ue[v].preamble = p /\ Reserves(p, ue[v].rnti)
    BY <1>1, <1>2 DEF p
  <2> QED BY <1>0, <1>6, <2>1 DEF ReceivedReserved, Reserves
<1>12. ResponsesAwaited'
  <2>1. \A e \in rar : e.rnti \in Rnti
    BY DEF TypeOK
  <2> QED BY <1>0, <1>5, <1>6, <2>1 DEF ResponsesAwaited
<1> QED
  BY <1>7, <1>8, <1>9, <1>10, <1>11, <1>12

\* A response is taken by one UE at most: one that joins has its RNTI, and one
\* that connects is its first claimant.
IsFor(u, e) ==
    /\ Accessing(u) /\ u \notin air
    /\ \A v \in UE : v # u => ~Takes(v, e)
    /\ Joining(u) => ue[u].rnti = e.rnti
    /\ ~Joining(u) => /\ ue[u].rnti = 0 /\ e.preamble \notin ReservedPreamble
                      /\ context[e.rnti].imsi = Nobody
                      /\ \A v \in UE : ~Claims(v, e.rnti)

\* What its RRC does with it.
ActsOn(u, e) ==
    /\ ue'[u].rnti = e.rnti /\ ue'[u].here = ue[u].here /\ ~ue'[u].waiting
    /\ ~Accessing(u)' /\ ~Joining(u)'
    /\ ue'[u].state = IF Joining(u) THEN "CONNECTED_NORMALLY" ELSE "IDLE_CONNECTING"
    /\ Answer(u, e.rnti) = IF Joining(u) THEN ReconfigurationCompleted(e.rnti)
                           ELSE ConnectionRequest(u, e.rnti)

LEMMA Fields ==
    ASSUME NEW u, NEW r
    PROVE  /\ ConnectionRequest(u, r).type = "RrcConnectionRequest"
           /\ ConnectionRequest(u, r).ue = u /\ ConnectionRequest(u, r).rnti = r
           /\ ConnectionSetup(r).type = "RrcConnectionSetup" /\ ConnectionSetup(r).rnti = r
           /\ SetupCompleted(r).type = "RrcConnectionSetupCompleted"
           /\ SetupCompleted(r).rnti = r
           /\ ReconfigurationCompleted(r).type = "ReconfigurationCompleted"
           /\ ReconfigurationCompleted(r).rnti = r
BY DEF ConnectionRequest, ConnectionSetup, SetupCompleted, ReconfigurationCompleted

LEMMA ReceiveRarEffect ==
    ASSUME RntiInv, Orderly, NEW e \in rar, ReceiveRar(e)
    PROVE  /\ \A u \in UE : Takes(u, e) => IsFor(u, e) /\ ActsOn(u, e)
           /\ \A u \in UE : /\ Takes(u, e) \/ ue'[u] = ue[u]
                            /\ Accessing(u)' <=> Accessing(u) /\ ~Takes(u, e)
                            /\ Joining(u)' <=> Joining(u) /\ ~Takes(u, e)
           /\ \A m \in messages' :
                 m \in messages \/ \E u \in UE : Takes(u, e) /\ m = Answer(u, e.rnti)
           /\ \A u \in UE : Takes(u, e) => Answer(u, e.rnti) \in messages'
           /\ messages \subseteq messages' /\ Commands' = Commands
           /\ \A u \in UE, r \in Rnti :
                 Claims(u, r)' => Claims(u, r) \/ (Takes(u, e) /\ ~Joining(u) /\ r = e.rnti)
<1> USE DEF RntiInv
<1>0. /\ ue' = [u \in UE |-> IF Takes(u, e) THEN AfterResponse(ue[u], e.rnti) ELSE ue[u]]
      /\ messages' = messages \cup {Answer(u, e.rnti) : u \in {v \in UE : Takes(v, e)}}
      /\ e.rnti \in Rnti /\ e.preamble \in Preamble
  BY DEF ReceiveRar, TypeOK
<1>1. ASSUME NEW u \in UE, Takes(u, e) PROVE IsFor(u, e)
  <2>1. ASSUME NEW v \in UE, Takes(v, e) PROVE Accessing(v) /\ ue[v].preamble = e.preamble
    BY <1>0, <2>1 DEF Takes, MacState, NoPreamble, Preamble
  <2>2. \A v \in UE : v # u => ~Takes(v, e)
    BY <1>1, <2>1 DEF PreamblesDiffer
  <2>3. u \notin air
    BY <1>1, <2>1 DEF AirIsNew
  <2>4. Joining(u) => ue[u].rnti = e.rnti
    BY <1>1, <2>1 DEF ResponsesAwaited
  <2>5. ASSUME ~Joining(u)
        PROVE  /\ ue[u].rnti = 0 /\ e.preamble \notin ReservedPreamble
               /\ context[e.rnti].imsi = Nobody
               /\ \A v \in UE : ~Claims(v, e.rnti)
    <3>1. ue[u].state = "IDLE_RANDOM_ACCESS"
      BY <1>1, <2>1, <2>5 DEF Accessing, Joining
    <3>2. e.preamble \notin ReservedPreamble
      BY <1>1, <2>1, <3>1, NotReserved
    <3>3. ASSUME NEW v \in UE, Claims(v, e.rnti) PROVE FALSE
      BY <3>2, <3>3 DEF ResponsesAwaited, MacState
    <3> QED BY <3>1, <3>2, <3>3 DEF MacState, ResponsesAwaited
  <2> QED BY <1>1, <2>1, <2>2, <2>3, <2>4, <2>5 DEF IsFor
<1>2. ASSUME NEW u \in UE, Takes(u, e) PROVE ActsOn(u, e)
  <2>1. ue[u] \in Ues
    BY DEF TypeOK, Ues
  <2>2. ue'[u] = AfterResponse(ue[u], e.rnti)
    BY <1>0, <1>2
  <2>3. ue[u].state = "IDLE_RANDOM_ACCESS" <=> ~Joining(u)
    BY <1>1, <1>2 DEF IsFor, Accessing, Joining
  <2>4. Answer(u, e.rnti) = IF Joining(u) THEN ReconfigurationCompleted(e.rnti)
                            ELSE ConnectionRequest(u, e.rnti)
    BY <2>3 DEF Answer
  <2> QED BY <2>1, <2>2, <2>3, <2>4 DEF ActsOn, AfterResponse, Accessing, Joining, Ues
<1>3. \A u \in UE : /\ Takes(u, e) \/ ue'[u] = ue[u]
                    /\ Accessing(u)' <=> Accessing(u) /\ ~Takes(u, e)
                    /\ Joining(u)' <=> Joining(u) /\ ~Takes(u, e)
  BY <1>0, <1>2 DEF ActsOn, Accessing, Joining
<1>4. /\ \A m \in messages' :
            m \in messages \/ \E u \in UE : Takes(u, e) /\ m = Answer(u, e.rnti)
      /\ \A u \in UE : Takes(u, e) => Answer(u, e.rnti) \in messages'
      /\ messages \subseteq messages'
  BY <1>0
<1>5. \A u \in UE : Takes(u, e) =>
         /\ Answer(u, e.rnti).type # "HandoverCommand"
         /\ \A v \in UE, r \in Rnti :
              Answer(u, e.rnti) = ConnectionRequest(v, r) => ~Joining(u) /\ v = u /\ r = e.rnti
  BY <1>2, Fields DEF ActsOn
<1>6. Commands' = Commands
  BY <1>4, <1>5 DEF Commands
<1>7. \A u \in UE, r \in Rnti :
         Claims(u, r)' => Claims(u, r) \/ (Takes(u, e) /\ ~Joining(u) /\ r = e.rnti)
  <2> SUFFICES ASSUME NEW u \in UE, NEW r \in Rnti, Claims(u, r)'
               PROVE  Claims(u, r) \/ (Takes(u, e) /\ ~Joining(u) /\ r = e.rnti)
    OBVIOUS
  <2>1. CASE \E m \in Commands' : m.ue = u /\ m.rnti = r
    BY <1>6, <2>1 DEF Claims
  <2>2. CASE ue'[u].here /\ ue'[u].rnti = r
    <3>1. CASE Takes(u, e)
      BY <1>1, <1>2, <2>2, <3>1 DEF Claims, IsFor, ActsOn
    <3>2. CASE ~Takes(u, e)
      BY <1>3, <2>2, <3>2 DEF Claims
    <3> QED BY <3>1, <3>2
  <2>3. CASE ConnectionRequest(u, r) \in messages'
    BY <1>4, <1>5, <2>3 DEF Claims
  <2> QED BY <2>1, <2>2, <2>3 DEF Claims
<1> QED BY <1>1, <1>2, <1>3, <1>4, <1>6, <1>7

LEMMA StepReceiveRar ==
    ASSUME RntiInv, TypeOK', Orderly, NEW e \in rar, ReceiveRar(e)
    PROVE  RntiInv'
<1> USE DEF RntiInv
<1>0. /\ rar' = rar \ {e}
      /\ UNCHANGED <<accesses, air, received, reserved, context, lastRnti>>
      /\ e.rnti \in Rnti /\ e.preamble \in Preamble
  BY DEF ReceiveRar, TypeOK
<1>1. \A u \in UE : Takes(u, e) => IsFor(u, e)
  BY ReceiveRarEffect
<1>2. \A u \in UE : Takes(u, e) => ActsOn(u, e)
  BY ReceiveRarEffect
<1>3. \A u \in UE : /\ Takes(u, e) \/ ue'[u] = ue[u]
                    /\ Accessing(u)' <=> Accessing(u) /\ ~Takes(u, e)
                    /\ Joining(u)' <=> Joining(u) /\ ~Takes(u, e)
  BY ReceiveRarEffect
<1>4. \A m \in messages' : m \in messages \/ m.rnti = e.rnti
  BY <1>2, ReceiveRarEffect, Fields DEF ActsOn
<1>6. Commands' = Commands
  BY ReceiveRarEffect
<1>7. \A u \in UE, r \in Rnti :
         Claims(u, r)' => Claims(u, r) \/ (Takes(u, e) /\ ~Joining(u) /\ r = e.rnti)
  BY ReceiveRarEffect
<1>8. RntisAllocated'
  BY <1>0, <1>2, <1>3, <1>4 DEF RntisAllocated, ActsOn
<1>9. OneClaim'
  <2> SUFFICES ASSUME NEW r \in Rnti, NEW u \in UE, Claims(u, r)'
               PROVE  /\ context[r].imsi \in {u, Nobody}
                      /\ \A v \in UE : Claims(v, r)' => v = u
    BY <1>0 DEF OneClaim
  <2>1. CASE Claims(u, r)
    BY <1>1, <1>7, <2>1 DEF OneClaim, IsFor
  <2>2. CASE Takes(u, e) /\ ~Joining(u) /\ r = e.rnti
    BY <1>1, <1>7, <2>2 DEF IsFor
  <2> QED BY <1>7, <2>1, <2>2
<1>10. MacState'
  <2> SUFFICES ASSUME NEW u \in UE, Takes(u, e)
               PROVE  /\ Joining(u)' => ue'[u].preamble \in ReservedPreamble /\ ue'[u].rnti # 0
                      /\ ue'[u].state = "IDLE_RANDOM_ACCESS" => ue'[u].preamble < accesses'
                      /\ Accessing(u)' => ue'[u].here /\ ue'[u].waiting
                      /\ ue'[u].waiting /\ ~Accessing(u)' => ue'[u].preamble = NoPreamble
                      /\ ue'[u].state \in {"IDLE_START", "IDLE_CAMPED_NORMALLY",
                                           "IDLE_WAIT_SIB2", "IDLE_RANDOM_ACCESS"} =>
                            ue'[u].rnti = 0
    BY <1>0, <1>3 DEF MacState
  <2> QED BY <1>2 DEF ActsOn
<1>11. PreamblesDiffer'
  BY <1>3 DEF PreamblesDiffer
<1>12. AirIsNew'
  <2>1. \A u \in air : u \in UE /\ ~Takes(u, e)
    BY <1>1 DEF TypeOK, IsFor
  <2> QED BY <1>0, <1>3, <2>1 DEF AirIsNew
<1>13. CommandsReserved'
  <2>1. \A m \in Commands : m.ue \in UE /\ ~Takes(m.ue, e)
    BY CommandFirst DEF Takes, Elsewhere
  <2> QED BY <1>0, <1>3, <1>6, <2>1 DEF CommandsReserved, Reserves
<1>14. JoiningReserved'
  <2> SUFFICES ASSUME NEW u \in UE, Joining(u), ~Takes(u, e)
               PROVE  \/ /\ u \in air \/ ue[u].preamble \in received
                         /\ Reserves(ue[u].preamble, ue[u].rnti)
                      \/ [preamble |-> ue[u].preamble, rnti |-> ue[u].rnti] \in rar'
    BY <1>0, <1>3 DEF JoiningReserved, Reserves
  <2>1. ue[u].preamble # e.preamble
    BY DEF MacState, Takes, Accessing, Joining
  <2> QED BY <1>0, <2>1 DEF JoiningReserved
<1>15. ReceivedReserved'
  <2>1. ASSUME NEW p \in ReservedPreamble, NEW u \in UE, Joining(u), Reserves(p, ue[u].rnti)
        PROVE  ~Takes(u, e)
    BY <1>1, <2>1 DEF Reserves, ResponsesDiffer, IsFor
  <2> QED BY <1>0, <1>3, <2>1 DEF ReceivedReserved, Reserves
<1>16. EntriesDiffer' /\ ResponsesDiffer'
  BY <1>0 DEF EntriesDiffer, ResponsesDiffer
<1>17. ResponsesAwaited'
  <2> SUFFICES ASSUME NEW f \in rar, f # e
               PROVE  /\ \A u \in UE : Claims(u, f.rnti)' =>
                            Joining(u)' /\ ue'[u].preamble = f.preamble
                      /\ \A u \in UE : Joining(u)' /\ ue'[u].preamble = f.preamble =>
                            ue'[u].rnti = f.rnti
                      /\ f.preamble \notin ReservedPreamble => context[f.rnti].imsi = Nobody
    BY <1>0 DEF ResponsesAwaited
  <2>1. f.rnti \in Rnti /\ f.rnti # e.rnti
    BY DEF TypeOK, ResponsesDiffer
  <2>2. ASSUME NEW u \in UE, Claims(u, f.rnti)'
        PROVE  Joining(u)' /\ ue'[u].preamble = f.preamble
    <3>1. Claims(u, f.rnti)
      BY <1>7, <2>1, <2>2
    <3>2. Joining(u) /\ ue[u].preamble = f.preamble /\ ue[u].rnti = f.rnti
      BY <3>1 DEF ResponsesAwaited
    <3>3. ~Takes(u, e)
      BY <1>1, <2>1, <3>2 DEF IsFor
    <3> QED BY <1>3, <3>2, <3>3
  <2>3. \A u \in UE : Joining(u)' /\ ue'[u].preamble = f.preamble => ue'[u].rnti = f.rnti
    BY <1>3 DEF ResponsesAwaited
  <2> QED BY <2>2, <2>3 DEF ResponsesAwaited
<1> QED
  BY <1>8, <1>9, <1>10, <1>11, <1>12, <1>13, <1>14, <1>15, <1>16, <1>17

LEMMA StepSubframeIndication ==
    ASSUME RntiInv, TypeOK', SubframeIndication
    PROVE  RntiInv'
<1> USE DEF RntiInv
<1>0. /\ received' = {}
      /\ rar' = rar \cup {ResponseTo(p) : p \in received}
      /\ reserved' = [p \in ReservedPreamble |-> IF p \in received THEN NoEntry ELSE reserved[p]]
      /\ lastRnti' = lastRnti + Cardinality(Unreserved)
      /\ context' = [r \in Rnti |->
                       IF \E p \in Unreserved : NewRnti(p) = r
                       THEN [state |-> "INITIAL_RANDOM_ACCESS", imsi |-> Nobody]
                       ELSE context[r]]
      /\ UNCHANGED <<accesses, ue, air, messages>>
  BY DEF SubframeIndication
<1>1. /\ Cardinality(Unreserved) \in Nat /\ lastRnti \in Nat
      /\ \A p \in Unreserved : /\ NewRnti(p) \in Nat /\ NewRnti(p) > lastRnti
                               /\ NewRnti(p) <= lastRnti'
      /\ \A p, q \in Unreserved : NewRnti(p) = NewRnti(q) => p = q
  BY <1>0, NewRntis DEF TypeOK
\* A reserved preamble comes from a UE that joins.
<1>2. /\ \A p \in received \cap ReservedPreamble :
            \E u \in UE : /\ Joining(u) /\ ue[u].preamble = p /\ ue[u].rnti = reserved[p].rnti
                          /\ Claims(u, reserved[p].rnti) /\ IsReserved(p)
      /\ Unreserved = received \ ReservedPreamble
  <2>1. \A p \in received \cap ReservedPreamble :
            \E u \in UE : /\ Joining(u) /\ ue[u].preamble = p /\ ue[u].rnti = reserved[p].rnti
                          /\ Claims(u, reserved[p].rnti) /\ IsReserved(p)
    BY DEF ReceivedReserved, Reserves, MacState, Accessing, Joining, Claims, IsReserved
  <2> QED BY <2>1 DEF Unreserved, IsReserved
\* What the new responses are.
<1>3. \A e \in rar' :
         \/ e \in rar
         \/ /\ e.preamble \in received \cap ReservedPreamble
            /\ e.rnti = reserved[e.preamble].rnti
         \/ e.preamble \in Unreserved /\ e.rnti = NewRnti(e.preamble)
  BY <1>0, <1>2 DEF ResponseTo, Unreserved, IsReserved
<1>4. \A e \in rar' : e.rnti \in Rnti /\ e.preamble \in Preamble
  BY DEF TypeOK
<1>5. Commands' = Commands /\ \A v \in UE, r \in Rnti : Claims(v, r)' <=> Claims(v, r)
  BY <1>0 DEF Commands, Claims
<1>6. \A v \in UE : (Accessing(v)' <=> Accessing(v)) /\ (Joining(v)' <=> Joining(v))
  BY <1>0 DEF Accessing, Joining
\* No number above the last RNTI is in use.
<1>7. \A v \in UE, r \in Rnti : Claims(v, r) => r <= lastRnti
  <2> SUFFICES ASSUME NEW v \in UE, NEW r \in Rnti, Claims(v, r) PROVE r <= lastRnti
    OBVIOUS
  <2>1. ConnectionRequest(v, r).rnti = r
    BY DEF ConnectionRequest
  <2> QED BY <2>1 DEF Claims, Commands, RntisAllocated
<1>8. \A r \in Rnti : r <= lastRnti => context'[r] = context[r]
  BY <1>0, <1>1 DEF Rnti
<1>9. RntisAllocated'
  <2>1. lastRnti <= lastRnti'
    BY <1>0, <1>1
  <2>2. \A u \in UE : ue[u].rnti \in Int /\ ue[u].rnti <= lastRnti
    BY DEF TypeOK, RntisAllocated, Rnti
  <2>3. \A p \in ReservedPreamble :
           /\ reserved[p].rnti \in Int /\ reserved[p].rnti <= lastRnti
           /\ reserved'[p].rnti = reserved[p].rnti \/ reserved'[p].rnti = 0
    BY <1>0 DEF TypeOK, RntisAllocated, Rnti, NoEntry
  <2>4. \A m \in messages : m.rnti \in Int /\ m.rnti <= lastRnti
    BY MessageTypes DEF RntisAllocated, Rnti
  <2>5. \A e \in rar' : e.rnti <= lastRnti'
    <3> SUFFICES ASSUME NEW e \in rar' PROVE e.rnti <= lastRnti'
      OBVIOUS
    <3>1. CASE e \in rar
      BY <1>0, <1>1, <2>1, <1>4, <3>1 DEF RntisAllocated, Rnti
    <3>2. CASE e \notin rar
      BY <1>0, <1>1, <1>3, <2>1, <2>3, <3>2
    <3> QED BY <3>1, <3>2
  <2> QED BY <1>0, <1>1, <2>1, <2>2, <2>3, <2>4, <2>5 DEF RntisAllocated
<1>10. OneClaim'
  BY <1>5, <1>7, <1>8 DEF OneClaim
<1>11. MacState' /\ PreamblesDiffer'
  BY <1>0, <1>6 DEF MacState, PreamblesDiffer
<1>12. AirIsNew'
  <2>1. \A e \in rar' : e \in rar \/ e.preamble \in received
    BY <1>3 DEF Unreserved
  <2> QED BY <1>0, <1>6, <2>1 DEF AirIsNew, TypeOK
<1>13. CommandsReserved'
  <2>1. \A m \in Commands : m.preamble \in ReservedPreamble \ received
    BY CommandFirst
  <2> QED BY <1>0, <1>5, <2>1 DEF CommandsReserved, Reserves
<1>14. JoiningReserved'
  <2> SUFFICES ASSUME NEW u \in UE, Joining(u)
               PROVE  \/ u \in air /\ Reserves(ue[u].preamble, ue[u].rnti)'
                      \/ [preamble |-> ue[u].preamble, rnti |-> ue[u].rnti] \in rar'
    BY <1>0, <1>6 DEF JoiningReserved
  <2>1. ue[u].preamble \in ReservedPreamble
    BY DEF MacState
  <2>2. CASE ue[u].preamble \in received /\ Reserves(ue[u].preamble, ue[u].rnti)
    <3>1. ResponseTo(ue[u].preamble) = [preamble |-> ue[u].preamble, rnti |-> ue[u].rnti]
      BY <1>2, <2>1, <2>2 DEF ResponseTo, Reserves
    <3> QED BY <1>0, <2>2, <3>1
  <2>3. CASE ue[u].preamble \notin received /\ u \in air /\ Reserves(ue[u].preamble, ue[u].rnti)
    BY <1>0, <2>1, <2>3 DEF Reserves
  <2> QED BY <1>0, <2>2, <2>3 DEF JoiningReserved
<1>15. ReceivedReserved'
  BY <1>0 DEF ReceivedReserved
<1>16. \A p \in ReservedPreamble :
          /\ p \in received => reserved'[p].rnti = 0
          /\ p \notin received => reserved'[p].rnti = reserved[p].rnti
  BY <1>0 DEF NoEntry
<1>17. EntriesDiffer'
  BY <1>16 DEF EntriesDiffer
<1>18. \A p \in ReservedPreamble : reserved[p].rnti \in Int /\ reserved[p].rnti <= lastRnti
  BY DEF TypeOK, RntisAllocated, Rnti
<1>19. \A e \in rar : e.rnti \in Int /\ e.rnti <= lastRnti
  BY DEF TypeOK, RntisAllocated, Rnti
<1>20. ResponsesDiffer'
  <2> SUFFICES ASSUME NEW e \in rar'
               PROVE  /\ \A f \in rar' : e.rnti = f.rnti => e = f
                      /\ \A p \in ReservedPreamble : reserved'[p].rnti # e.rnti
    BY DEF ResponsesDiffer
  <2>1. e.rnti # 0 /\ e.rnti \in Int
    BY <1>4 DEF Rnti
  <2>2. ASSUME NEW f \in rar', e.rnti = f.rnti PROVE e = f
    <3>1. e.preamble = f.preamble \/ (e \in rar /\ f \in rar)
      <4>1. e \in rar => f \in rar
        BY <1>1, <1>3, <1>19, <2>2 DEF ResponsesDiffer
      <4>2. f \in rar => e \in rar
        BY <1>1, <1>3, <1>19, <2>2 DEF ResponsesDiffer
      <4>3. e \notin rar /\ f \notin rar => e.preamble = f.preamble
        BY <1>1, <1>3, <1>18, <2>1, <2>2 DEF EntriesDiffer
      <4> QED BY <4>1, <4>2, <4>3
    <3>2. e = [preamble |-> e.preamble, rnti |-> e.rnti] /\ f = [preamble |-> f.preamble, rnti |-> f.rnti]
      BY DEF TypeOK
    <3> QED BY <2>2, <3>1, <3>2 DEF ResponsesDiffer
  <2>3. ASSUME NEW p \in ReservedPreamble PROVE reserved'[p].rnti # e.rnti
    <3>1. CASE p \in received
      BY <1>16, <2>1, <3>1
    <3>2. CASE p \notin received
      <4>1. CASE e \in rar
        BY <1>16, <3>2, <4>1 DEF ResponsesDiffer
      <4>2. CASE e.preamble \in received \cap ReservedPreamble /\ e.rnti = reserved[e.preamble].rnti
        BY <1>16, <2>1, <3>2, <4>2 DEF EntriesDiffer
      <4>3. CASE e.preamble \in Unreserved /\ e.rnti = NewRnti(e.preamble)
        BY <1>1, <1>16, <1>18, <3>2, <4>3
      <4> QED BY <1>3, <4>1, <4>2, <4>3
    <3> QED BY <3>1, <3>2
  <2> QED BY <2>2, <2>3
<1>21. ResponsesAwaited'
  <2> SUFFICES ASSUME NEW e \in rar'
               PROVE  /\ \A u \in UE : Claims(u, e.rnti) => Joining(u) /\ ue[u].preamble = e.preamble
                      /\ \A u \in UE : Joining(u) /\ ue[u].preamble = e.preamble =>
                            ue[u].rnti = e.rnti
                      /\ e.preamble \notin ReservedPreamble => context'[e.rnti].imsi = Nobody
    BY <1>0, <1>4, <1>5, <1>6 DEF ResponsesAwaited
  <2>1. CASE e \in rar
    BY <1>4, <1>8, <1>19, <2>1 DEF ResponsesAwaited
  <2>2. CASE e.preamble \in received \cap ReservedPreamble /\ e.rnti = reserved[e.preamble].rnti
    <3>1. PICK w \in UE : /\ Joining(w) /\ ue[w].preamble = e.preamble /\ ue[w].rnti = e.rnti
                          /\ Claims(w, e.rnti)
      BY <1>2, <2>2
    <3>2. \A u \in UE : Claims(u, e.rnti) => u = w
      BY <1>4, <3>1 DEF OneClaim
    <3>3. \A u \in UE : Joining(u) /\ ue[u].preamble = e.preamble => u = w
      BY <3>1 DEF PreamblesDiffer, Accessing, Joining
    <3> QED BY <2>2, <3>1, <3>2, <3>3
  <2>3. CASE e.preamble \in Unreserved /\ e.rnti = NewRnti(e.preamble)
    <3>1. \A u \in UE : ~Claims(u, e.rnti)
      BY <1>1, <1>4, <1>7, <2>3 DEF Rnti
    <3>2. \A u \in UE : Joining(u) => ue[u].preamble # e.preamble
      BY <1>2, <2>3 DEF MacState
    <3>3. context'[e.rnti].imsi = Nobody
      BY <1>0, <1>4, <2>3
    <3> QED BY <3>1, <3>2, <3>3
  <2> QED BY <1>3, <2>1, <2>2, <2>3
<1> QED
  BY <1>9, <1>10, <1>11, <1>12, <1>13, <1>14, <1>15, <1>17, <1>20, <1>21

LEMMA StepRecvHandoverRequest ==
    ASSUME RntiInv, TypeOK', NEW u \in DualUe, NEW p \in ReservedPreamble,
           RecvHandoverRequest(u, p)
    PROVE  RntiInv'
<1> USE DEF RntiInv
<1> DEFINE r == lastRnti + 1
           new == HandoverCommand(u, r, p)
<1>0. /\ lastRnti' = r
      /\ context' = [context EXCEPT ![r] = [state |-> "HANDOVER_JOINING", imsi |-> u]]
      /\ reserved' = [reserved EXCEPT ![p] = [rnti |-> r, expired |-> FALSE]]
      /\ messages' = messages \cup {new}
      /\ UNCHANGED <<accesses, ue, air, received, rar>>
      /\ ue[u] = Elsewhere
      /\ reserved[p].rnti = 0 \/ reserved[p].expired
      /\ \A m \in Commands : m.ue # u
  BY DEF RecvHandoverRequest, radio, Available, Commands
<1>1. /\ u \in UE /\ lastRnti \in Nat /\ r \in Rnti
      /\ new.type = "HandoverCommand" /\ new.ue = u /\ new.rnti = r /\ new.preamble = p
  BY <1>0 DEF TypeOK, Rnti, HandoverCommand
<1>2. /\ \A q \in Rnti : q <= lastRnti => q # r /\ context'[q] = context[q]
      /\ context'[r].imsi = u
  BY <1>0, <1>1 DEF TypeOK
<1>3. /\ \A q \in ReservedPreamble : q # p => reserved'[q] = reserved[q]
      /\ reserved'[p].rnti = r /\ ~reserved'[p].expired
  BY <1>0 DEF TypeOK
<1>4. /\ \A v \in UE : ue[v].rnti \in Int /\ ue[v].rnti <= lastRnti
      /\ \A q \in ReservedPreamble : reserved[q].rnti \in Int /\ reserved[q].rnti <= lastRnti
      /\ \A e \in rar : e.rnti \in Rnti /\ e.rnti <= lastRnti
      /\ \A m \in messages : m.rnti \in Int /\ m.rnti <= lastRnti
  BY MessageTypes DEF TypeOK, RntisAllocated, Rnti
<1>5. \A q \in Rnti : r # 0 /\ r > lastRnti
  BY <1>1
<1>6. Commands' = Commands \cup {new}
  BY <1>0, <1>1 DEF Commands
<1>7. /\ \A v \in UE : (Accessing(v)' <=> Accessing(v)) /\ (Joining(v)' <=> Joining(v))
  BY <1>0 DEF Accessing, Joining
<1>8. \A v \in UE, q \in Rnti : Claims(v, q) => q <= lastRnti /\ q # r
  <2> SUFFICES ASSUME NEW v \in UE, NEW q \in Rnti, Claims(v, q) PROVE q <= lastRnti
    BY <1>2
  <2>1. ConnectionRequest(v, q).rnti = q
    BY DEF ConnectionRequest
  <2> QED BY <2>1 DEF Claims, Commands, RntisAllocated
<1>9. \A v \in UE, q \in Rnti : Claims(v, q)' => Claims(v, q) \/ (v = u /\ q = r)
  <2>1. \A v \in UE, q \in Rnti : ConnectionRequest(v, q).type # "HandoverCommand"
    BY DEF ConnectionRequest
  <2> HIDE DEF new, r
  <2> QED BY <1>0, <1>1, <1>6, <2>1 DEF Claims
<1>10. RntisAllocated'
  <2>1. \A q \in ReservedPreamble : reserved'[q].rnti <= r
    BY <1>1, <1>3, <1>4
  <2>2. \A m \in messages' : m.rnti <= r
    <3>1. \A m \in messages : m.rnti <= r
      BY <1>1, <1>4
    <3> QED BY <1>0, <1>1, <3>1
  <2> QED BY <1>0, <1>1, <1>4, <2>1, <2>2 DEF RntisAllocated, Rnti
<1>11. OneClaim'
  <2> SUFFICES ASSUME NEW q \in Rnti, NEW v \in UE, Claims(v, q)'
               PROVE  /\ context'[q].imsi \in {v, Nobody}
                      /\ \A w \in UE : Claims(w, q)' => w = v
    BY DEF OneClaim
  <2>1. CASE q = r
    <3> HIDE DEF r
    <3>1. \A w \in UE : Claims(w, q)' => w = u
      BY <1>8, <1>9, <2>1
    <3> QED BY <1>2, <2>1, <3>1
  <2>2. CASE q # r
    <3> HIDE DEF r
    <3>1. \A w \in UE : Claims(w, q)' => Claims(w, q)
      BY <1>9, <2>2
    <3>2. context'[q] = context[q]
      BY <1>2, <1>8, <3>1
    <3> QED BY <3>1, <3>2 DEF OneClaim
  <2> QED BY <2>1, <2>2
<1> HIDE DEF r, new
<1>12. MacState' /\ PreamblesDiffer' /\ AirIsNew'
  <2>1. MacState' /\ PreamblesDiffer'
    BY <1>0, <1>7 DEF MacState, PreamblesDiffer
  <2>2. AirIsNew'
    BY <1>0, <1>7 DEF AirIsNew, TypeOK
  <2> QED BY <2>1, <2>2
\* The entry that is overwritten is used by nobody.
<1>13. \A q \in ReservedPreamble, n \in Rnti : Reserves(q, n) => q # p /\ Reserves(q, n)'
  BY <1>0, <1>3 DEF Reserves, Rnti
<1>14. CommandsReserved'
  <2>1. \A m \in Commands : m.preamble \in ReservedPreamble /\ m.rnti \in Rnti
    BY CommandFirst
  <2>2. \A m \in Commands : Reserves(m.preamble, m.rnti)'
    BY <1>13, <2>1 DEF CommandsReserved
  <2>3. \A m \in Commands' : Reserves(m.preamble, m.rnti)'
    <3>1. \A m : m = new => Reserves(m.preamble, m.rnti)'
      BY <1>1, <1>3 DEF Reserves
    <3> QED BY <1>6, <2>2, <3>1
  <2>4. \A m \in Commands' : ue[m.ue] = Elsewhere
    BY <1>0, <1>1, <1>6 DEF CommandsReserved
  <2>5. \A m, n \in Commands' : n.ue = m.ue => n = m
    BY <1>0, <1>1, <1>6 DEF CommandsReserved
  <2> QED BY <1>0, <2>3, <2>4, <2>5 DEF CommandsReserved
<1>15. \A v \in UE : Joining(v) => ue[v].rnti \in Rnti /\ ue[v].preamble \in ReservedPreamble
  BY DEF TypeOK, MacState
<1>16. JoiningReserved'
  BY <1>0, <1>7, <1>13, <1>15 DEF JoiningReserved
<1>17. ReceivedReserved'
  BY <1>0, <1>7, <1>13, <1>15 DEF ReceivedReserved
<1>18. \A q \in ReservedPreamble : q # p => reserved'[q].rnti # r
  BY <1>1, <1>3, <1>4, <1>5
<1>19. EntriesDiffer'
  BY <1>3, <1>18 DEF EntriesDiffer
<1>20. ResponsesDiffer'
  <2>1. \A e \in rar : e.rnti # r
    BY <1>2, <1>4
  <2> QED BY <1>0, <1>3, <2>1 DEF ResponsesDiffer
<1>21. ResponsesAwaited'
  <2>1. \A e \in rar : e.rnti \in Rnti /\ e.rnti # r /\ context'[e.rnti] = context[e.rnti]
    BY <1>2, <1>4
  <2> QED BY <1>0, <1>7, <1>9, <2>1 DEF ResponsesAwaited
<1> QED
  BY <1>10, <1>11, <1>12, <1>14, <1>16, <1>17, <1>19, <1>20, <1>21

LEMMA StepExpirePreamble ==
    ASSUME RntiInv, TypeOK', Orderly, NEW p \in ReservedPreamble, ExpirePreamble(p)
    PROVE  RntiInv'
<1> USE DEF RntiInv
<1>0. /\ reserved' = [reserved EXCEPT ![p].expired = TRUE]
      /\ UNCHANGED <<accesses, ue, air, received, rar, context, lastRnti, messages>>
      /\ ~OnAir(p) /\ ~Commanded(reserved[p].rnti)
  BY DEF ExpirePreamble, radio, MayExpire, Orderly
<1>1. \A q \in ReservedPreamble : /\ reserved'[q].rnti = reserved[q].rnti
                                  /\ q # p => reserved'[q] = reserved[q]
  BY <1>0 DEF TypeOK
<1>2. Commands' = Commands /\ \A v \in UE, r \in Rnti : Claims(v, r)' <=> Claims(v, r)
  BY <1>0 DEF Commands, Claims
<1>3. \A v \in UE : (Accessing(v)' <=> Accessing(v)) /\ (Joining(v)' <=> Joining(v))
  BY <1>0 DEF Accessing, Joining
<1>4. RntisAllocated' /\ OneClaim' /\ MacState' /\ PreamblesDiffer' /\ AirIsNew'
  <2>1. RntisAllocated' /\ OneClaim'
    BY <1>0, <1>1, <1>2 DEF RntisAllocated, OneClaim
  <2>2. MacState' /\ PreamblesDiffer'
    BY <1>0, <1>3 DEF MacState, PreamblesDiffer
  <2>3. AirIsNew'
    BY <1>0, <1>3 DEF AirIsNew, TypeOK
  <2> QED BY <2>1, <2>2, <2>3
<1>5. CommandsReserved'
  <2>1. \A m \in Commands : m.preamble \in ReservedPreamble /\ m.preamble # p
    BY <1>0, CommandFirst DEF CommandsReserved, Reserves, Commanded, Commands
  <2> QED BY <1>0, <1>1, <1>2, <2>1 DEF CommandsReserved, Reserves
<1>6. JoiningReserved'
  <2>1. \A u \in UE : Joining(u) => ue[u].preamble \in ReservedPreamble
    BY DEF MacState
  <2>2. \A u \in UE : u \in air \/ ue[u].preamble \in received => ue[u].preamble # p
    BY <1>0 DEF OnAir
  <2> QED BY <1>0, <1>1, <1>3, <2>1, <2>2 DEF JoiningReserved, Reserves
<1>7. ReceivedReserved'
  <2>1. p \notin received
    BY <1>0 DEF OnAir
  <2> QED BY <1>0, <1>1, <1>3, <2>1 DEF ReceivedReserved, Reserves
<1>8. EntriesDiffer' /\ ResponsesDiffer'
  BY <1>0, <1>1 DEF EntriesDiffer, ResponsesDiffer
<1>9. ResponsesAwaited'
  <2>1. \A e \in rar : e.rnti \in Rnti
    BY DEF TypeOK
  <2> QED BY <1>0, <1>2, <1>3, <2>1 DEF ResponsesAwaited
<1> QED
  BY <1>4, <1>5, <1>6, <1>7, <1>8, <1>9

LEMMA StepRecvRrcConnectionRequest ==
    ASSUME RntiInv, TypeOK', NEW m \in messages, RecvRrcConnectionRequest(m)
    PROVE  RntiInv'
<1> USE DEF RntiInv
<1>0. /\ context' = [context EXCEPT ![m.rnti] = [state |-> "CONNECTION_SETUP", imsi |-> m.ue]]
      /\ messages' = (messages \ {m}) \cup {ConnectionSetup(m.rnti)}
      /\ UNCHANGED <<accesses, ue, air, received, rar, reserved, lastRnti>>
      /\ m.type = "RrcConnectionRequest"
  BY DEF RecvRrcConnectionRequest, radio
<1>1. m.ue \in UE /\ m.rnti \in Rnti /\ m = ConnectionRequest(m.ue, m.rnti) /\ m.rnti <= lastRnti
  BY <1>0, MessageTypes DEF RntisAllocated
<1>2. Claims(m.ue, m.rnti)
  BY <1>1 DEF Claims
<1>3. /\ ConnectionSetup(m.rnti).type = "RrcConnectionSetup"
      /\ ConnectionSetup(m.rnti).rnti = m.rnti
  BY DEF ConnectionSetup
<1>4. Commands' = Commands
  BY <1>0, <1>3 DEF Commands
<1>5. \A v \in UE, r \in Rnti : Claims(v, r)' => Claims(v, r)
  <2>1. \A v \in UE, r \in Rnti : ConnectionRequest(v, r).type = "RrcConnectionRequest"
    BY DEF ConnectionRequest
  <2>2. \A v \in UE, r \in Rnti :
           ConnectionRequest(v, r) \in messages' => ConnectionRequest(v, r) \in messages
    BY <1>0, <1>3, <2>1
  <2> QED BY <1>0, <1>4, <2>2 DEF Claims
<1>6. \A v \in UE : (Accessing(v)' <=> Accessing(v)) /\ (Joining(v)' <=> Joining(v))
  BY <1>0 DEF Accessing, Joining
<1>7. \A r \in Rnti : context'[r].imsi = IF r = m.rnti THEN m.ue ELSE context[r].imsi
  BY <1>0, <1>1 DEF TypeOK
<1>8. RntisAllocated' /\ MacState' /\ PreamblesDiffer' /\ AirIsNew'
  <2>1. RntisAllocated'
    BY <1>0, <1>1, <1>3 DEF RntisAllocated
  <2>2. MacState' /\ PreamblesDiffer'
    BY <1>0, <1>6 DEF MacState, PreamblesDiffer
  <2>3. AirIsNew'
    BY <1>0, <1>6 DEF AirIsNew, TypeOK
  <2> QED BY <2>1, <2>2, <2>3
<1>9. OneClaim'
  BY <1>1, <1>2, <1>5, <1>7 DEF OneClaim
<1>10. CommandsReserved' /\ JoiningReserved' /\ ReceivedReserved' /\ EntriesDiffer'
       /\ ResponsesDiffer'
  BY <1>0, <1>4, <1>6
     DEF CommandsReserved, JoiningReserved, ReceivedReserved, EntriesDiffer, ResponsesDiffer,
         Reserves
<1>11. ResponsesAwaited'
  <2>1. \A e \in rar : e.rnti \in Rnti
    BY DEF TypeOK
  <2>2. \A e \in rar : e.rnti = m.rnti => e.preamble \in ReservedPreamble
    BY <1>1, <1>2 DEF ResponsesAwaited, MacState
  <2> QED BY <1>0, <1>5, <1>6, <1>7, <2>1, <2>2 DEF ResponsesAwaited
<1> QED
  BY <1>8, <1>9, <1>10, <1>11

\* The inductive invariant of the RNTIs.
THEOREM RntiInvariance ==
    ASSUME Orderly
    PROVE  Spec => [](TypeInv /\ RntiInv)
<1>1. Init => TypeInv /\ RntiInv
  BY TypeInit, RntiInit
<1>2. TypeInv /\ RntiInv /\ [Next]_vars => TypeInv' /\ RntiInv'
  <2> SUFFICES ASSUME TypeInv, RntiInv, [Next]_vars PROVE TypeInv' /\ RntiInv'
    OBVIOUS
  <2>1. TypeInv' /\ TypeOK'
    BY TypeStep, AirStep DEF TypeInv
  <2>2. ASSUME Aside PROVE RntiInv'
    BY <2>1, <2>2, StepAside
  <2>3. ASSUME NEW u \in UE, StartConnection(u) PROVE RntiInv'
    BY <2>1, <2>3, StepStartConnection
  <2>4. ASSUME NEW m \in messages, RecvHandoverCommand(m) PROVE RntiInv'
    BY <2>1, <2>4, StepRecvHandoverCommand
  <2>5. ASSUME NEW e \in rar, ReceiveRar(e) PROVE RntiInv'
    BY <2>1, <2>5, StepReceiveRar
  <2>6. ASSUME NEW u \in air, ReceiveRachPreamble(u) PROVE RntiInv'
    BY <2>1, <2>6, StepReceiveRachPreamble
  <2>7. ASSUME SubframeIndication PROVE RntiInv'
    BY <2>1, <2>7, StepSubframeIndication
  <2>8. ASSUME NEW u \in DualUe, NEW p \in ReservedPreamble, RecvHandoverRequest(u, p)
        PROVE  RntiInv'
    BY <2>1, <2>8, StepRecvHandoverRequest
  <2>9. ASSUME NEW p \in ReservedPreamble, ExpirePreamble(p) PROVE RntiInv'
    BY <2>1, <2>9, StepExpirePreamble
  <2>10. ASSUME NEW m \in messages, RecvRrcConnectionRequest(m) PROVE RntiInv'
    BY <2>1, <2>10, StepRecvRrcConnectionRequest
  <2> QED
    BY <2>1, <2>2, <2>3, <2>4, <2>5, <2>6, <2>7, <2>8, <2>9, <2>10, StepsAside DEF Next
<1> QED BY <1>1, <1>2, PTL DEF Spec

\* No two UEs have one RNTI, and the context of a UE's RNTI is its own, for any
\* UEs and any number of handovers, commands lost and preambles expired, as
\* long as commands arrive in time and the counter of the preambles does not
\* reach the reserved ones.
THEOREM OwnRnti ==
    ASSUME Orderly
    PROVE  Spec => []RntiIsOwn
<1>1. TypeInv /\ RntiInv => RntiIsOwn
  <2> SUFFICES ASSUME TypeOK, OneClaim, NEW u \in UE, ue[u].here, ue[u].rnti # 0
               PROVE  /\ context[ue[u].rnti].imsi \in {u, Nobody}
                      /\ \A v \in UE \ {u} : ue[v].here => ue[v].rnti # ue[u].rnti
    BY DEF RntiIsOwn, TypeInv, RntiInv
  <2>1. ue[u].rnti \in Rnti /\ Claims(u, ue[u].rnti)
    BY DEF TypeOK, Claims
  <2> QED BY <2>1 DEF OneClaim, Claims
<1> QED BY <1>1, RntiInvariance, PTL

-----------------------------------------------------------------------------
(* No unexpected message.                                                  *)

Connecting(u) == ue[u].state = "IDLE_CONNECTING"

\* What the state of a context is while a UE or a message refers to it.
ContextOfUe ==
    \A u \in UE :
        /\ Joining(u) => context[ue[u].rnti].state = "HANDOVER_JOINING"
        /\ ue[u].state = "CONNECTED_NORMALLY" /\ ue[u].here => ue[u].rnti # 0
        /\ Connecting(u) =>
              /\ ue[u].here /\ ue[u].rnti # 0
              /\ \/ ConnectionRequest(u, ue[u].rnti) \in messages
                 \/ context[ue[u].rnti].state = "CONNECTION_SETUP"

Fits(m) ==
    /\ m.type = "RrcConnectionRequest" =>
          /\ Connecting(m.ue) /\ ue[m.ue].rnti = m.rnti
          /\ context[m.rnti].state = "INITIAL_RANDOM_ACCESS"
    /\ m.type = "RrcConnectionSetupCompleted" =>
          /\ context[m.rnti].state = "CONNECTION_SETUP"
          /\ \A u \in UE : Claims(u, m.rnti) => ~Connecting(u)
    /\ m.type = "ReconfigurationCompleted" =>
          /\ context[m.rnti].state = "HANDOVER_JOINING"
          /\ \A u \in UE : Claims(u, m.rnti) => ~Joining(u) /\ ue[u] # Elsewhere
    /\ m.type = "HandoverCommand" => context[m.rnti].state = "HANDOVER_JOINING"
    /\ m.type = "RrcConnectionSetup" => context[m.rnti].state # "INITIAL_RANDOM_ACCESS"

ContextOfMessage == \A m \in messages : Fits(m)

ContextOfAccess ==
    /\ \A e \in rar : e.preamble \notin ReservedPreamble =>
          context[e.rnti].state = "INITIAL_RANDOM_ACCESS"
    /\ \A p \in ReservedPreamble : reserved[p].rnti # 0 =>
          context[reserved[p].rnti].state # "INITIAL_RANDOM_ACCESS"

\* Nobody but the UE that waits for it will use the RNTI of a setup.
SetupAwaited ==
    \A m \in messages : m.type = "RrcConnectionSetup" =>
        /\ \A u \in UE : Claims(u, m.rnti) => Connecting(u)
        /\ \A e \in rar : e.rnti # m.rnti
        /\ \A p \in ReservedPreamble : reserved[p].rnti # m.rnti

MessageInv == ContextOfUe /\ ContextOfMessage /\ ContextOfAccess /\ SetupAwaited

LEMMA MessageInit == Init => MessageInv
<1> SUFFICES ASSUME Init PROVE MessageInv
  OBVIOUS
<1>1. /\ rar = {} /\ messages = {} /\ \A p \in ReservedPreamble : reserved[p].rnti = 0
      /\ \A u \in UE : ue[u] = Fresh \/ ue[u] = Elsewhere
  BY DEF Init, NoEntry
<1> QED
  BY <1>1 DEF MessageInv, ContextOfUe, ContextOfMessage, Fits, ContextOfAccess, SetupAwaited, Fresh,
              Elsewhere, Joining, Connecting

\* A context may change its state when nothing refers to it, and a UE that has
\* no RNTI afterwards may do anything.
Unused(r) ==
    /\ context[r].state # "INITIAL_RANDOM_ACCESS"
    /\ context'[r].state # "INITIAL_RANDOM_ACCESS"
    /\ \A u \in UE : (Joining(u) \/ Connecting(u))' => ue'[u].rnti # r
    /\ \A m \in messages' : m.rnti = r => m.type = "RrcConnectionSetup"

Quiet ==
    /\ messages' \subseteq messages
    /\ \A m \in messages : m.type = "RrcConnectionRequest" => m \in messages'
    /\ UNCHANGED rar
    /\ \A p \in ReservedPreamble : reserved'[p].rnti = reserved[p].rnti
    /\ \A r \in Rnti : context'[r].state # context[r].state => Unused(r)
    /\ \A u \in UE : ue'[u] # ue[u] =>
          /\ ~Joining(u)' /\ ~Connecting(u)' /\ \A r \in Rnti : ~Claims(u, r)'
          /\ ue'[u].state = "CONNECTED_NORMALLY" => ~ue'[u].here

LEMMA StepQuiet == RntiInv /\ MessageInv /\ TypeOK' /\ Quiet => MessageInv'
<1> SUFFICES ASSUME RntiInv, MessageInv, TypeOK', Quiet PROVE MessageInv'
  OBVIOUS
<1> USE DEF RntiInv, MessageInv
<1>1. \A u \in UE, r \in Rnti : Claims(u, r)' => Claims(u, r) /\ ue'[u] = ue[u]
  BY DEF Quiet, Claims, Commands
<1>2. /\ \A r \in Rnti : context'[r].state # context[r].state => Unused(r)
      /\ messages' \subseteq messages
      /\ \A m \in messages' : m.rnti \in Rnti
      /\ rar' = rar /\ \A e \in rar : e.rnti \in Rnti
      /\ \A p \in ReservedPreamble : /\ reserved'[p].rnti = reserved[p].rnti
                                     /\ reserved[p].rnti # 0 => reserved[p].rnti \in Rnti
  BY MessageTypes DEF Quiet, TypeOK
<1>3. \A u \in UE : Joining(u)' \/ Connecting(u)' => ue'[u] = ue[u] /\ ue[u].rnti \in Rnti
  <2>1. \A u \in UE : Joining(u)' \/ Connecting(u)' => ue'[u] = ue[u]
    BY DEF Quiet
  <2>2. \A u \in UE : Joining(u) \/ Connecting(u) => ue[u].rnti \in Rnti
    BY DEF MacState, ContextOfUe, TypeOK
  <2> QED BY <2>1, <2>2 DEF Joining, Connecting
<1>4. ContextOfUe'
  <2>1. ASSUME NEW u \in UE, Joining(u)' PROVE context'[ue'[u].rnti].state = "HANDOVER_JOINING"
    BY <1>2, <1>3, <2>1 DEF ContextOfUe, Unused, Joining
  <2>2. ASSUME NEW u \in UE, Connecting(u)'
        PROVE  /\ ue'[u].here /\ ue'[u].rnti # 0
               /\ \/ ConnectionRequest(u, ue'[u].rnti) \in messages'
                  \/ context'[ue'[u].rnti].state = "CONNECTION_SETUP"
    <3>1. Connecting(u) /\ ue'[u] = ue[u] /\ ue[u].rnti \in Rnti
      BY <1>3, <2>2 DEF Connecting
    <3>2. context'[ue[u].rnti].state = context[ue[u].rnti].state
      BY <1>2, <2>2, <3>1 DEF Unused
    <3> QED BY <3>1, <3>2, Fields DEF ContextOfUe, Quiet
  <2>3. \A u \in UE : ue'[u].state = "CONNECTED_NORMALLY" /\ ue'[u].here => ue'[u].rnti # 0
    BY DEF Quiet, ContextOfUe
  <2> QED BY <2>1, <2>2, <2>3 DEF ContextOfUe
<1>5. ContextOfMessage'
  <2>1. \A m \in messages' :
           m.type # "RrcConnectionSetup" => context'[m.rnti].state = context[m.rnti].state
    BY <1>2 DEF Unused
  <2>2. \A m \in messages' :
           m.type = "RrcConnectionSetup" => context'[m.rnti].state # "INITIAL_RANDOM_ACCESS"
    BY <1>2 DEF ContextOfMessage, Fits, Unused
  <2>3. ASSUME NEW m \in messages', m.type = "RrcConnectionRequest"
        PROVE  /\ Connecting(m.ue)' /\ ue'[m.ue].rnti = m.rnti
               /\ context'[m.rnti].state = "INITIAL_RANDOM_ACCESS"
    <3>1. m.ue \in UE /\ m = ConnectionRequest(m.ue, m.rnti)
      BY <1>2, <2>3, MessageTypes
    <3>2. ue'[m.ue] = ue[m.ue]
      BY <1>1, <1>2, <3>1 DEF Claims
    <3> QED BY <1>2, <2>1, <2>3, <3>2 DEF ContextOfMessage, Fits, Connecting
  <2> QED BY <1>1, <1>2, <2>1, <2>2, <2>3 DEF ContextOfMessage, Fits, Connecting, Joining
<1>6. ContextOfAccess'
  BY <1>2 DEF ContextOfAccess, Unused
<1>7. SetupAwaited'
  BY <1>1, <1>2 DEF SetupAwaited, Connecting
<1> QED BY <1>4, <1>5, <1>6, <1>7

LEMMA StepsQuiet ==
    ASSUME RntiInv, MessageInv, TypeOK',
           \/ \E u \in UE : ConnectToMmWave(u)
           \/ \E u \in UE : StartConnection(u)
           \/ StartConnectionElsewhere
           \/ \E u \in UE : ConnectionTimeout(u)
           \/ \E u \in air : ReceiveRachPreamble(u)
           \/ \E p \in ReservedPreamble : ExpirePreamble(p)
           \/ \E m \in messages : RecvRrcConnectionSetupCompleted(m)
           \/ \E m \in messages : RecvReconfigurationCompleted(m)
           \/ \E r \in Rnti : ConnectionSetupTimeout(r)
           \/ \E r \in Rnti : HandoverJoiningTimeout(r)
           \/ \E u \in UE : LeaveCell(u)
           \/ \E m \in messages : LoseMessage(m)
           \/ UNCHANGED vars
    PROVE  Quiet
<1> USE DEF RntiInv, MessageInv
<1>1. DOMAIN ue = UE /\ DOMAIN context = Rnti /\ ue \in [UE -> Ues]
      /\ \A r \in Rnti : context[r] = [state |-> context[r].state, imsi |-> context[r].imsi]
  BY DEF TypeOK, Ues
\* A UE whose state excludes the messages that would give it an RNTI.
<1>2. ASSUME NEW u \in UE, ue[u] # Elsewhere, messages' \subseteq messages,
             \A r \in Rnti : ConnectionRequest(u, r) \notin messages,
             ~ue'[u].here \/ ue'[u].rnti = 0
      PROVE  \A r \in Rnti : ~Claims(u, r)'
  BY <1>2 DEF Claims, Commands, CommandsReserved, Rnti
<1>3. \A u \in UE, r \in Rnti :
         ConnectionRequest(u, r) \in messages =>
            Connecting(u) /\ ue[u].rnti = r /\ context[r].state = "INITIAL_RANDOM_ACCESS"
  BY Fields DEF ContextOfMessage, Fits
<1>4. ASSUME NEW u \in UE, ConnectToMmWave(u) PROVE Quiet
  <2>1. /\ ue[u].state = "IDLE_START" /\ ue[u] # Elsewhere /\ ue[u].rnti = 0
        /\ ue'[u].rnti = 0 /\ ue'[u].state = "IDLE_WAIT_SIB2"
        /\ \A v \in UE : v # u => ue'[v] = ue[v]
        /\ UNCHANGED <<rar, reserved, context, messages>>
    BY <1>1, <1>4 DEF ConnectToMmWave, radio, MacState, Elsewhere, Ues
  <2>2. \A r \in Rnti : ~Claims(u, r)'
    BY <1>2, <1>3, <2>1 DEF Connecting
  <2> QED BY <2>1, <2>2 DEF Quiet, Joining, Connecting
<1>5. ASSUME NEW u \in UE, StartConnection(u) PROVE Quiet
  <2>1. /\ ue[u].state = "IDLE_WAIT_SIB2" /\ ue[u] # Elsewhere /\ ue[u].rnti = 0
        /\ ue'[u].rnti = 0 /\ ue'[u].state = "IDLE_RANDOM_ACCESS"
        /\ \A v \in UE : v # u => ue'[v] = ue[v]
        /\ UNCHANGED <<rar, reserved, context, messages>>
    BY <1>1, <1>5 DEF StartConnection, SendRaPreamble, MacState, Elsewhere
  <2>2. \A r \in Rnti : ~Claims(u, r)'
    BY <1>2, <1>3, <2>1 DEF Connecting
  <2> QED BY <2>1, <2>2 DEF Quiet, Joining, Connecting
<1>6. ASSUME NEW u \in UE, ConnectionTimeout(u) PROVE Quiet
  <2>1. /\ ue[u].state = "IDLE_CONNECTING" /\ ue[u] # Elsewhere
        /\ ue'[u].rnti = 0 /\ ue'[u].state \in {"IDLE_CAMPED_NORMALLY", "IDLE_WAIT_SIB2"}
        /\ \A v \in UE : v # u => ue'[v] = ue[v]
        /\ UNCHANGED <<rar, reserved, context, messages>>
        /\ ConnectionRequest(u, ue[u].rnti) \notin messages
    BY <1>1, <1>6 DEF ConnectionTimeout, T300MayExpire, radio, Elsewhere, Ues
  <2>2. \A r \in Rnti : ~Claims(u, r)'
    BY <1>2, <1>3, <2>1
  <2> QED BY <2>1, <2>2 DEF Quiet, Joining, Connecting
<1>7. CASE StartConnectionElsewhere \/ \E u \in air : ReceiveRachPreamble(u)
  BY <1>7 DEF StartConnectionElsewhere, ReceiveRachPreamble, radio, Quiet
<1>8. ASSUME NEW p \in ReservedPreamble, ExpirePreamble(p) PROVE Quiet
  <2>1. \A q \in ReservedPreamble : reserved'[q].rnti = reserved[q].rnti
    BY <1>8 DEF ExpirePreamble, TypeOK
  <2> QED BY <1>8, <2>1 DEF ExpirePreamble, radio, Quiet
<1>9. ASSUME NEW m \in messages, RecvRrcConnectionSetupCompleted(m) PROVE Quiet
  <2>1. /\ m.type = "RrcConnectionSetupCompleted" /\ m.rnti \in Rnti
        /\ context[m.rnti].state = "CONNECTION_SETUP"
        /\ context'[m.rnti].state = "CONNECTED_NORMALLY"
        /\ \A r \in Rnti : r # m.rnti => context'[r] = context[r]
        /\ messages' = messages \ {m}
        /\ UNCHANGED <<ue, rar, reserved>>
    BY <1>1, <1>9, MessageTypes DEF RecvRrcConnectionSetupCompleted, radio
  <2>2. \A u \in UE : Joining(u) \/ Connecting(u) => ue[u].rnti # m.rnti
    BY <2>1 DEF ContextOfUe, ContextOfMessage, Fits, Claims
  <2>3. ASSUME NEW n \in messages', n.rnti = m.rnti PROVE n.type = "RrcConnectionSetup"
    <3>1. n.type = "RrcConnectionSetupCompleted" \/ n.type = "RrcConnectionSetup"
      BY <2>1, <2>3 DEF ContextOfMessage, Fits, TypeOK, Uplink, Downlink, Request, Command
    <3>2. n.type = "RrcConnectionSetupCompleted" => n = SetupCompleted(m.rnti)
      BY <2>1, <2>3 DEF TypeOK, Uplink, Downlink, Request, Command, SetupCompleted
    <3>3. m = SetupCompleted(m.rnti)
      BY <2>1 DEF TypeOK, Uplink, Downlink, Request, Command, SetupCompleted
    <3> QED BY <2>1, <3>1, <3>2, <3>3
  <2>4. Unused(m.rnti)
    BY <2>1, <2>2, <2>3 DEF Unused, Joining, Connecting
  <2> QED BY <2>1, <2>4 DEF Quiet
<1>10. ASSUME NEW m \in messages, RecvReconfigurationCompleted(m) PROVE Quiet
  <2>1. /\ m.type = "ReconfigurationCompleted" /\ m.rnti \in Rnti
        /\ context[m.rnti].state = "HANDOVER_JOINING"
        /\ context'[m.rnti].state = "CONNECTED_NORMALLY"
        /\ \A r \in Rnti : r # m.rnti => context'[r] = context[r]
        /\ messages' = messages \ {m}
        /\ UNCHANGED <<ue, rar, reserved>>
    BY <1>1, <1>10, MessageTypes DEF RecvReconfigurationCompleted, radio
  <2>2. ASSUME NEW u \in UE, Joining(u) \/ Connecting(u), ue[u].rnti = m.rnti PROVE FALSE
    <3>1. CASE Joining(u)
      BY <2>1, <2>2, <3>1 DEF ContextOfMessage, Fits, Claims, MacState, Accessing, Joining
    <3>2. CASE Connecting(u)
      BY <1>3, <2>1, <2>2, <3>2 DEF ContextOfUe
    <3> QED BY <2>2, <3>1, <3>2
  <2>3. ASSUME NEW n \in messages', n.rnti = m.rnti PROVE n.type = "RrcConnectionSetup"
    <3>1. n.type # "RrcConnectionRequest" /\ n.type # "RrcConnectionSetupCompleted"
      BY <2>1, <2>3 DEF ContextOfMessage, Fits
    <3>2. n.type # "HandoverCommand"
      <4>1. n.type = "HandoverCommand" =>
              n \in Commands /\ n.ue \in UE /\ ue[n.ue] = Elsewhere /\ Claims(n.ue, m.rnti)
        BY <2>1, <2>3, CommandFirst DEF Commands
      <4> QED BY <2>1, <4>1 DEF ContextOfMessage, Fits
    <3>3. n.type = "ReconfigurationCompleted" => n = ReconfigurationCompleted(m.rnti)
      BY <2>1, <2>3 DEF TypeOK, Uplink, Downlink, Request, Command, ReconfigurationCompleted
    <3>4. m = ReconfigurationCompleted(m.rnti)
      BY <2>1 DEF TypeOK, Uplink, Downlink, Request, Command, ReconfigurationCompleted
    <3>5. n \in Downlink \cup Uplink \cup Request \cup Command
      BY <2>1 DEF TypeOK
    <3> QED BY <2>1, <3>1, <3>2, <3>3, <3>4, <3>5 DEF Uplink, Downlink, Request, Command
  <2>4. Unused(m.rnti)
    BY <2>1, <2>2, <2>3 DEF Unused, Joining, Connecting
  <2> QED BY <2>1, <2>4 DEF Quiet
\* A context is removed.
<1>11. ASSUME NEW r \in Rnti, RemoveUe(r),
              context[r].state \in {"CONNECTION_SETUP", "HANDOVER_JOINING", "CONNECTED_NORMALLY"}
       PROVE  /\ UNCHANGED <<rar, reserved>> /\ messages' \subseteq messages
              /\ \A m \in messages : m.type = "RrcConnectionRequest" => m \in messages'
              /\ context'[r].state = "none"
              /\ \A q \in Rnti : q # r => context'[q] = context[q]
              /\ \A m \in messages' : m.rnti = r =>
                    m.type = "RrcConnectionSetup"
                    \/ (m.type = "HandoverCommand" /\ context[r].state = "HANDOVER_JOINING")
  <2>1. /\ UNCHANGED <<rar, reserved>>
        /\ messages' = {m \in messages : ~ (m \in Uplink /\ m.rnti = r)}
        /\ context' = [context EXCEPT ![r] = NoContext]
    BY <1>11 DEF RemoveUe
  <2>2. \A m \in messages : m.type = "RrcConnectionRequest" => m \in messages'
    BY <2>1 DEF Uplink
  <2>3. ASSUME NEW m \in messages', m.rnti = r
        PROVE  m.type = "RrcConnectionSetup"
               \/ (m.type = "HandoverCommand" /\ context[r].state = "HANDOVER_JOINING")
    <3>1. m \in Downlink \cup Request \cup Command
      BY <2>1, <2>3 DEF TypeOK
    <3>2. m.type # "RrcConnectionRequest"
      BY <1>11, <2>1, <2>3 DEF ContextOfMessage, Fits
    <3>3. m.type = "RrcConnectionSetup" \/ m.type = "HandoverCommand"
      BY <3>1, <3>2 DEF Downlink, Request, Command
    <3>4. m.type = "HandoverCommand" => context[r].state = "HANDOVER_JOINING"
      BY <2>1, <2>3 DEF ContextOfMessage, Fits
    <3> QED BY <3>3, <3>4
  <2> QED BY <1>1, <2>1, <2>2, <2>3 DEF NoContext
<1>12. ASSUME NEW r \in Rnti, ConnectionSetupTimeout(r) PROVE Quiet
  <2>1. /\ RemoveUe(r) /\ ue' = ue /\ context[r].state = "CONNECTION_SETUP"
        /\ \A u \in UE : Connecting(u) => ue[u].rnti # r
    BY <1>12 DEF ConnectionSetupTimeout, SetupMayTimeOut, Connecting
  <2>2. \A u \in UE : Joining(u) => ue[u].rnti # r
    BY <2>1 DEF ContextOfUe
  <2>3. Unused(r)
    BY <1>11, <2>1, <2>2 DEF Unused, Joining, Connecting
  <2> QED BY <1>11, <2>1, <2>3 DEF Quiet
<1>13. ASSUME NEW r \in Rnti, HandoverJoiningTimeout(r) PROVE Quiet
  <2>1. /\ RemoveUe(r) /\ ue' = ue /\ context[r].state = "HANDOVER_JOINING"
        /\ ~Commanded(r)
        /\ \A u \in UE : ue[u].here => ue[u].rnti # r
    BY <1>13 DEF HandoverJoiningTimeout, JoiningMayTimeOut
  <2>2. \A u \in UE : Joining(u) \/ Connecting(u) => ue[u].rnti # r
    BY <2>1 DEF ContextOfUe, MacState, Accessing, Joining
  <2>3. \A m \in messages : m.rnti = r => m.type # "HandoverCommand"
    BY <2>1 DEF Commanded
  <2>4. Unused(r)
    BY <1>11, <2>1, <2>2, <2>3 DEF Unused, Joining, Connecting
  <2> QED BY <1>11, <2>1, <2>4 DEF Quiet
<1>14. ASSUME NEW u \in UE, LeaveCell(u) PROVE Quiet
  <2> DEFINE r == ue[u].rnti
  <2>1. /\ RemoveUe(r) /\ ue' = [ue EXCEPT ![u] = Elsewhere]
        /\ context[r].state = "CONNECTED_NORMALLY" /\ ue[u].state = "CONNECTED_NORMALLY"
        /\ ue[u] # Elsewhere
    BY <1>14 DEF LeaveCell, Elsewhere
  <2>2. CASE r \in Rnti
    <3>1. /\ \A v \in UE : v # u => ue'[v] = ue[v]
          /\ ue'[u] = Elsewhere
      BY <1>1, <2>1
    <3>2. \A v \in UE : Joining(v) \/ Connecting(v) => ue[v].rnti # r
      BY <1>3, <2>1, <2>2 DEF ContextOfUe
    <3>3. Unused(ue[u].rnti)
      BY <1>11, <2>1, <2>2, <3>1, <3>2 DEF Unused, Joining, Connecting, Elsewhere
    <3>4. \A q \in Rnti : ~Claims(u, q)'
      BY <1>2, <1>3, <1>11, <2>1, <2>2, <3>1 DEF Connecting, Elsewhere
    <3>5. ~Joining(u)' /\ ~Connecting(u)' /\ ~ue'[u].here
      BY <3>1 DEF Joining, Connecting, Elsewhere
    <3>6. /\ UNCHANGED <<rar, reserved>> /\ messages' \subseteq messages
          /\ \A m \in messages : m.type = "RrcConnectionRequest" => m \in messages'
          /\ \A q \in Rnti : q # ue[u].rnti => context'[q] = context[q]
      BY <1>11, <2>1, <2>2
    <3> QED BY <3>1, <3>3, <3>4, <3>5, <3>6 DEF Quiet
  <2>3. CASE r \notin Rnti
    <3>1. r = 0 /\ ue[u].here
      BY <1>14, <2>3 DEF TypeOK, LeaveCell
    <3> QED BY <3>1, <2>1 DEF ContextOfUe
  <2> QED BY <2>2, <2>3
<1>15. ASSUME NEW m \in messages, LoseMessage(m) PROVE Quiet
  BY <1>15 DEF LoseMessage, radio, Quiet
<1>16. CASE UNCHANGED vars
  BY <1>16 DEF vars, Quiet
<1> QED
  BY <1>4, <1>5, <1>6, <1>7, <1>8, <1>9, <1>10, <1>12, <1>13, <1>14, <1>15, <1>16

\* What the two invariants say of the types of RNTIs.
LEMMA UsedRntis ==
    ASSUME RntiInv, MessageInv
    PROVE  /\ \A u \in UE : Joining(u) \/ Connecting(u) => ue[u].rnti \in Rnti /\ ue[u].here
           /\ \A m \in messages : m.rnti \in Rnti
           /\ \A e \in rar : e.rnti \in Rnti
           /\ \A p \in ReservedPreamble : reserved[p].rnti # 0 => reserved[p].rnti \in Rnti
           /\ \A m \in messages : m.type = "RrcConnectionRequest" =>
                 m.ue \in UE /\ m = ConnectionRequest(m.ue, m.rnti) /\ Claims(m.ue, m.rnti)
           /\ \A m \in messages :
                 m.type \in {"RrcConnectionRequest", "RrcConnectionSetup",
                             "RrcConnectionSetupCompleted", "ReconfigurationCompleted",
                             "HandoverCommand"}
<1>1. \A u \in UE : Joining(u) \/ Connecting(u) => ue[u].rnti \in Rnti /\ ue[u].here
  BY DEF RntiInv, MessageInv, MacState, ContextOfUe, TypeOK, Accessing, Joining, Connecting
<1>2. \A m \in messages : m.type = "RrcConnectionRequest" =>
         m.ue \in UE /\ m = ConnectionRequest(m.ue, m.rnti) /\ Claims(m.ue, m.rnti)
  BY MessageTypes DEF RntiInv, Claims
<1>3. \A m \in messages :
         m.type \in {"RrcConnectionRequest", "RrcConnectionSetup", "RrcConnectionSetupCompleted",
                     "ReconfigurationCompleted", "HandoverCommand"}
  BY DEF RntiInv, TypeOK, Uplink, Downlink, Request, Command
<1> QED BY <1>1, <1>2, <1>3, MessageTypes DEF RntiInv, TypeOK

LEMMA SetupMessages ==
    ASSUME RntiInv, MessageInv, TypeOK', Aside, NEW u \in UE, RecvRrcConnectionSetup(u)
    PROVE  MessageInv'
<1> USE DEF RntiInv, MessageInv
<1>0. PICK r \in Rnti :
         /\ r = ue[u].rnti /\ ue[u].here /\ Connecting(u)
         /\ ConnectionSetup(r) \in messages
         /\ messages' = (messages \ {ConnectionSetup(r)}) \cup {SetupCompleted(r)}
         /\ UNCHANGED <<rar, reserved, context>>
  BY UsedRntis DEF RecvRrcConnectionSetup, Connecting, radio
<1>1. /\ ue'[u].state = "CONNECTED_NORMALLY" /\ ue'[u].rnti = r
      /\ \A v \in UE : v # u => ue'[v] = ue[v]
  BY <1>0 DEF RecvRrcConnectionSetup, TypeOK
<1>2. Claims(u, r)
  BY <1>0 DEF Claims
<1>3. context[r].state = "CONNECTION_SETUP"
  <2>1. context[r].state # "INITIAL_RANDOM_ACCESS"
    BY <1>0, Fields DEF ContextOfMessage, Fits
  <2>2. ConnectionRequest(u, r) \notin messages
    BY <2>1, Fields DEF ContextOfMessage, Fits
  <2> QED BY <1>0, <2>2 DEF ContextOfUe
<1>4. \A v \in UE, q \in Rnti : Claims(v, q)' => Claims(v, q)
  BY AsideClaims
<1>5. \A v \in UE : /\ Joining(v)' => v # u /\ Joining(v)
                    /\ Connecting(v)' <=> v # u /\ Connecting(v)
  BY <1>0, <1>1 DEF Joining, Connecting
<1>6. ContextOfUe'
  <2>1. ASSUME NEW v \in UE, v # u, Connecting(v), ConnectionRequest(v, ue[v].rnti) \in messages
        PROVE  ConnectionRequest(v, ue[v].rnti) \in messages'
    BY <1>0, <2>1, Fields
  <2>2. r # 0 /\ ~Joining(u)' /\ ~Connecting(u)'
    BY <1>5 DEF Rnti
  <2>3. ASSUME NEW v \in UE, v # u
        PROVE  /\ Joining(v) => context'[ue'[v].rnti].state = "HANDOVER_JOINING"
               /\ ue'[v].state = "CONNECTED_NORMALLY" /\ ue'[v].here => ue'[v].rnti # 0
               /\ Connecting(v) =>
                     /\ ue'[v].here /\ ue'[v].rnti # 0
                     /\ \/ ConnectionRequest(v, ue'[v].rnti) \in messages'
                        \/ context'[ue'[v].rnti].state = "CONNECTION_SETUP"
    <3>1. ue'[v] = ue[v] /\ context' = context
      BY <1>0, <1>1, <2>3
    <3> QED BY <2>1, <2>3, <3>1 DEF ContextOfUe
  <2> QED BY <1>1, <1>5, <2>2, <2>3 DEF ContextOfUe
<1>7. ContextOfMessage'
  <2> SUFFICES ASSUME NEW m \in messages'
               PROVE  /\ m.type = "RrcConnectionRequest" =>
                            /\ Connecting(m.ue)' /\ ue'[m.ue].rnti = m.rnti
                            /\ context[m.rnti].state = "INITIAL_RANDOM_ACCESS"
                      /\ m.type = "RrcConnectionSetupCompleted" =>
                            /\ context[m.rnti].state = "CONNECTION_SETUP"
                            /\ \A v \in UE : Claims(v, m.rnti)' => ~Connecting(v)'
                      /\ m.type = "ReconfigurationCompleted" =>
                            /\ context[m.rnti].state = "HANDOVER_JOINING"
                            /\ \A v \in UE : Claims(v, m.rnti)' =>
                                  ~Joining(v)' /\ ue'[v] # Elsewhere
                      /\ m.type = "HandoverCommand" =>
                            context[m.rnti].state = "HANDOVER_JOINING"
                      /\ m.type = "RrcConnectionSetup" =>
                            context[m.rnti].state # "INITIAL_RANDOM_ACCESS"
    BY <1>0 DEF ContextOfMessage, Fits
  <2>1. CASE m = SetupCompleted(r)
    <3>1. \A v \in UE : Claims(v, r)' => v = u
      BY <1>0, <1>2, <1>4 DEF OneClaim
    <3> QED BY <1>3, <1>5, <2>1, <3>1, Fields
  <2>2. CASE m \in messages
    <3>1. m.rnti \in Rnti /\ (m.type = "RrcConnectionRequest" => m.ue \in UE)
      BY <2>2, UsedRntis
    <3>2. m.type = "RrcConnectionRequest" => m.ue # u
      BY <1>0, <1>3, <2>2 DEF ContextOfMessage, Fits
    <3>3. m.type = "ReconfigurationCompleted" => m.rnti # r
      BY <1>3, <2>2 DEF ContextOfMessage, Fits
    <3>4. ASSUME m.type = "RrcConnectionRequest"
          PROVE  /\ Connecting(m.ue)' /\ ue'[m.ue].rnti = m.rnti
                 /\ context[m.rnti].state = "INITIAL_RANDOM_ACCESS"
      BY <1>1, <1>5, <2>2, <3>1, <3>2, <3>4 DEF ContextOfMessage, Fits
    <3>5. ASSUME m.type = "ReconfigurationCompleted", NEW v \in UE, Claims(v, m.rnti)'
          PROVE  ~Joining(v)' /\ ue'[v] # Elsewhere
      <4>1. Claims(v, m.rnti)
        BY <1>4, <3>1, <3>5
      <4>2. ~Joining(v) /\ ue[v] # Elsewhere
        BY <2>2, <3>5, <4>1 DEF ContextOfMessage, Fits
      <4>3. ue'[u] # Elsewhere
        BY <1>1 DEF Elsewhere, Rnti
      <4> QED BY <1>1, <1>5, <4>2, <4>3
    <3>6. ASSUME m.type = "RrcConnectionSetupCompleted", NEW v \in UE, Claims(v, m.rnti)'
          PROVE  ~Connecting(v)'
      BY <1>4, <1>5, <2>2, <3>1, <3>6 DEF ContextOfMessage, Fits
    <3> QED BY <2>2, <3>4, <3>5, <3>6 DEF ContextOfMessage, Fits
  <2> QED BY <1>0, <2>1, <2>2
<1>8. ContextOfAccess'
  BY <1>0 DEF ContextOfAccess
<1>9. SetupAwaited'
  <2> SUFFICES ASSUME NEW m \in messages', m.type = "RrcConnectionSetup"
               PROVE  /\ \A v \in UE : Claims(v, m.rnti)' => Connecting(v)'
                      /\ \A e \in rar : e.rnti # m.rnti
                      /\ \A p \in ReservedPreamble : reserved[p].rnti # m.rnti
    BY <1>0 DEF SetupAwaited
  <2>1. m \in messages /\ m # ConnectionSetup(r) /\ m.rnti \in Rnti
    BY <1>0, UsedRntis, Fields
  <2>2. m = ConnectionSetup(m.rnti)
    BY <2>1 DEF TypeOK, Downlink, Uplink, Request, Command, ConnectionSetup
  <2>3. ~Claims(u, m.rnti)'
    <3>1. ue'[u].rnti # m.rnti
      BY <1>1, <2>1, <2>2
    <3>2. ConnectionRequest(u, m.rnti) \notin messages'
      <4>1. ConnectionRequest(u, m.rnti) \notin messages
        BY <2>1, <2>2, <3>1, <1>1, Fields DEF ContextOfMessage, Fits
      <4> QED BY <1>0, <4>1, Fields
    <3>3. \A n \in Commands' : n.ue # u
      BY <1>0, AsideClaims, CommandFirst DEF Connecting, Elsewhere
    <3> QED BY <3>1, <3>2, <3>3 DEF Claims
  <2> QED BY <1>4, <1>5, <2>1, <2>3 DEF SetupAwaited
<1> QED BY <1>6, <1>7, <1>8, <1>9

LEMMA RequestMessages ==
    ASSUME RntiInv, MessageInv, TypeOK', NEW m \in messages, RecvRrcConnectionRequest(m)
    PROVE  MessageInv'
<1> USE DEF RntiInv, MessageInv
<1>0. PICK r \in Rnti, u \in UE :
         /\ m = ConnectionRequest(u, r) /\ Claims(u, r)
         /\ Connecting(u) /\ ue[u].rnti = r /\ ue[u].here
         /\ context[r].state = "INITIAL_RANDOM_ACCESS"
         /\ context' = [context EXCEPT ![r] = [state |-> "CONNECTION_SETUP", imsi |-> u]]
         /\ messages' = (messages \ {m}) \cup {ConnectionSetup(r)}
         /\ UNCHANGED <<ue, rar, reserved>>
  <2>1. m.ue \in UE /\ m.rnti \in Rnti /\ m = ConnectionRequest(m.ue, m.rnti) /\ Claims(m.ue, m.rnti)
    BY UsedRntis DEF RecvRrcConnectionRequest
  <2>2. Connecting(m.ue) /\ ue[m.ue].rnti = m.rnti /\ ue[m.ue].here
    BY <2>1, UsedRntis DEF RecvRrcConnectionRequest, ContextOfMessage, Fits
  <2> QED BY <2>1, <2>2 DEF RecvRrcConnectionRequest, radio
<1>1. /\ context'[r].state = "CONNECTION_SETUP"
      /\ \A q \in Rnti : q # r => context'[q] = context[q]
  BY <1>0 DEF TypeOK
<1>2. \A v \in UE, q \in Rnti : Claims(v, q)' => Claims(v, q)
  BY <1>0, Fields DEF Claims, Commands
<1>3. \A v \in UE : Claims(v, r) => v = u
  BY <1>0 DEF OneClaim
<1>4. \A v \in UE : (Joining(v)' <=> Joining(v)) /\ (Connecting(v)' <=> Connecting(v))
  BY <1>0 DEF Joining, Connecting
<1>5. ContextOfUe'
  <2>1. ASSUME NEW v \in UE, Joining(v) PROVE context'[ue[v].rnti].state = "HANDOVER_JOINING"
    BY <1>0, <1>1, <2>1, UsedRntis DEF ContextOfUe
  <2>2. ASSUME NEW v \in UE, Connecting(v)
        PROVE  \/ ConnectionRequest(v, ue[v].rnti) \in messages'
               \/ context'[ue[v].rnti].state = "CONNECTION_SETUP"
    <3>1. CASE ue[v].rnti = r
      BY <1>1, <3>1
    <3>2. CASE ue[v].rnti # r
      <4>1. ConnectionRequest(v, ue[v].rnti) # m
        BY <1>0, <3>2, Fields
      <4> QED BY <1>0, <1>1, <2>2, <3>2, <4>1, UsedRntis DEF ContextOfUe
    <3> QED BY <3>1, <3>2
  <2> QED BY <1>0, <1>4, <2>1, <2>2 DEF ContextOfUe
<1>6. ContextOfMessage'
  <2> SUFFICES ASSUME NEW n \in messages' PROVE Fits(n)'
    BY DEF ContextOfMessage
  <2>1. CASE n = ConnectionSetup(r)
    BY <1>1, <2>1, Fields DEF Fits
  <2>2. CASE n \in messages /\ n # m
    <3>1. Fits(n) /\ n.rnti \in Rnti
      BY <2>2, UsedRntis DEF ContextOfMessage
    <3>2. CASE n.rnti # r
      BY <1>0, <1>1, <1>2, <1>4, <3>1, <3>2 DEF Fits, Joining, Connecting
    <3>3. CASE n.rnti = r
      <4>1. n.type # "RrcConnectionRequest"
        BY <1>0, <1>3, <2>2, <3>3, UsedRntis
      <4>2. n.type = "RrcConnectionSetup"
        BY <1>0, <2>2, <3>1, <3>3, <4>1, UsedRntis DEF Fits
      <4> QED BY <1>1, <3>3, <4>2 DEF Fits
    <3> QED BY <3>2, <3>3
  <2> QED BY <1>0, <2>1, <2>2
<1>7. \A e \in rar : e.rnti # r
  BY <1>0 DEF ResponsesAwaited, Joining, Connecting
<1>8. \A p \in ReservedPreamble : reserved[p].rnti # r
  BY <1>0 DEF ContextOfAccess, Rnti
<1>9. ContextOfAccess'
  BY <1>0, <1>1, <1>7, <1>8, UsedRntis DEF ContextOfAccess
<1>10. SetupAwaited'
  <2> SUFFICES ASSUME NEW n \in messages', n.type = "RrcConnectionSetup"
               PROVE  /\ \A v \in UE : Claims(v, n.rnti)' => Connecting(v)
                      /\ \A e \in rar : e.rnti # n.rnti
                      /\ \A p \in ReservedPreamble : reserved[p].rnti # n.rnti
    BY <1>0, <1>4 DEF SetupAwaited
  <2>1. CASE n = ConnectionSetup(r)
    BY <1>0, <1>2, <1>3, <1>7, <1>8, <2>1, Fields
  <2>2. CASE n \in messages
    BY <1>2, <2>2, UsedRntis DEF SetupAwaited
  <2> QED BY <1>0, <2>1, <2>2
<1> QED BY <1>5, <1>6, <1>9, <1>10

LEMMA CommandMessages ==
    ASSUME RntiInv, MessageInv, TypeOK', NEW m \in messages, RecvHandoverCommand(m)
    PROVE  MessageInv'
<1> USE DEF RntiInv, MessageInv
<1>0. PICK u \in UE, r \in Rnti :
         /\ m \in Commands /\ m.ue = u /\ m.rnti = r
         /\ ue[u] = Elsewhere /\ Claims(u, r)
         /\ messages' = messages \ {m}
         /\ UNCHANGED <<context, rar, reserved>>
         /\ \A v \in UE : v # u => ue'[v] = ue[v]
         /\ ue'[u].state = "CONNECTED_HANDOVER" /\ ue'[u].rnti = r
  <2>1. m \in Commands
    BY DEF RecvHandoverCommand, Commands
  <2>2. m.ue \in UE /\ m.rnti \in Rnti /\ ue[m.ue] = Elsewhere /\ Claims(m.ue, m.rnti)
    BY <2>1, CommandFirst
  <2>3. /\ \A v \in UE : v # m.ue => ue'[v] = ue[v]
        /\ ue'[m.ue].state = "CONNECTED_HANDOVER" /\ ue'[m.ue].rnti = m.rnti
    BY <2>2 DEF RecvHandoverCommand, SendRaPreamble, TypeOK
  <2> QED BY <2>1, <2>2, <2>3 DEF RecvHandoverCommand
<1>1. /\ \A v \in UE : v # u => (Joining(v)' <=> Joining(v)) /\ (Connecting(v)' <=> Connecting(v))
      /\ Joining(u)' /\ ~Connecting(u)' /\ ~Joining(u) /\ ~Connecting(u)
  BY <1>0 DEF Joining, Connecting, Elsewhere
<1>2. \A v \in UE, q \in Rnti : Claims(v, q)' => Claims(v, q)
  <2> SUFFICES ASSUME NEW v \in UE, NEW q \in Rnti, Claims(v, q)' PROVE Claims(v, q)
    OBVIOUS
  <2>1. CASE v = u /\ q = r
    BY <1>0, <2>1
  <2>2. CASE ~(v = u /\ q = r)
    BY <1>0, <2>2 DEF Claims, Commands
  <2> QED BY <2>1, <2>2
<1>3. context[r].state = "HANDOVER_JOINING"
  BY <1>0 DEF ContextOfMessage, Fits, Commands
<1>4. ContextOfUe'
  <2>1. ASSUME NEW v \in UE, v # u, ConnectionRequest(v, ue[v].rnti) \in messages
        PROVE  ConnectionRequest(v, ue[v].rnti) \in messages'
    BY <1>0, <2>1, Fields DEF Commands
  <2>2. /\ Joining(u)' => context'[ue'[u].rnti].state = "HANDOVER_JOINING"
        /\ ue'[u].state = "CONNECTED_HANDOVER"
    BY <1>0, <1>3
  <2>3. ASSUME NEW v \in UE, v # u
        PROVE  /\ Joining(v)' => context'[ue'[v].rnti].state = "HANDOVER_JOINING"
               /\ ue'[v].state = "CONNECTED_NORMALLY" /\ ue'[v].here => ue'[v].rnti # 0
               /\ Connecting(v)' =>
                     /\ ue'[v].here /\ ue'[v].rnti # 0
                     /\ \/ ConnectionRequest(v, ue'[v].rnti) \in messages'
                        \/ context'[ue'[v].rnti].state = "CONNECTION_SETUP"
    <3>1. ue'[v] = ue[v] /\ context' = context
      BY <1>0, <2>3
    <3> QED BY <1>1, <2>1, <2>3, <3>1 DEF ContextOfUe
  <2> QED BY <1>1, <2>2, <2>3 DEF ContextOfUe
<1>5. ContextOfMessage'
  <2> SUFFICES ASSUME NEW n \in messages, n # m PROVE Fits(n)'
    BY <1>0 DEF ContextOfMessage
  <2>1. Fits(n) /\ n.rnti \in Rnti
    BY UsedRntis DEF ContextOfMessage
  <2>2. n.type = "RrcConnectionRequest" => n.ue \in UE /\ n.ue # u
    BY <1>1, <2>1, UsedRntis DEF Fits
  <2>3. n.type = "ReconfigurationCompleted" => ~Claims(u, n.rnti)
    BY <1>0, <2>1 DEF Fits
  <2> QED BY <1>0, <1>1, <1>2, <2>1, <2>2, <2>3 DEF Fits
<1>6. ContextOfAccess'
  BY <1>0 DEF ContextOfAccess
<1>7. SetupAwaited'
  <2>1. \A n \in messages : n.type = "RrcConnectionSetup" => ~Claims(u, n.rnti)
    BY <1>1 DEF SetupAwaited
  <2> QED BY <1>0, <1>1, <1>2, <2>1, UsedRntis DEF SetupAwaited
<1> QED BY <1>4, <1>5, <1>6, <1>7

LEMMA HandoverRequestMessages ==
    ASSUME RntiInv, MessageInv, TypeOK', NEW u \in DualUe, NEW p \in ReservedPreamble,
           RecvHandoverRequest(u, p)
    PROVE  MessageInv'
<1> USE DEF RntiInv, MessageInv
<1>0. PICK r \in Rnti, new \in messages' :
         /\ r = lastRnti + 1 /\ new = HandoverCommand(u, r, p)
         /\ context' = [context EXCEPT ![r] = [state |-> "HANDOVER_JOINING", imsi |-> u]]
         /\ reserved' = [reserved EXCEPT ![p] = [rnti |-> r, expired |-> FALSE]]
         /\ messages' = messages \cup {new}
         /\ UNCHANGED <<ue, rar>>
  <2>1. lastRnti + 1 \in Rnti
    BY DEF RecvHandoverRequest, TypeOK, Rnti
  <2> QED BY <2>1 DEF RecvHandoverRequest, radio
<1>1. /\ u \in UE /\ ue[u] = Elsewhere
      /\ new.type = "HandoverCommand" /\ new.ue = u /\ new.rnti = r
      /\ context'[r].state = "HANDOVER_JOINING"
      /\ \A q \in Rnti : q # r => context'[q] = context[q]
      /\ reserved'[p].rnti = r
      /\ \A q \in ReservedPreamble : q # p => reserved'[q] = reserved[q]
  BY <1>0 DEF RecvHandoverRequest, HandoverCommand, TypeOK
\* The RNTI is new.
<1>2. /\ \A v \in UE : ue[v].rnti # r
      /\ \A m \in messages : m.rnti # r
      /\ \A e \in rar : e.rnti # r
      /\ \A q \in ReservedPreamble : reserved[q].rnti # r
  <2>1. ~ (r <= lastRnti)
    BY <1>0 DEF TypeOK
  <2> QED BY <2>1 DEF RntisAllocated
<1>3. \A v \in UE, q \in Rnti : Claims(v, q)' => Claims(v, q) \/ q = r
  BY <1>0, <1>1, Fields DEF Claims, Commands
<1>4. \A v \in UE : (Joining(v)' <=> Joining(v)) /\ (Connecting(v)' <=> Connecting(v))
  BY <1>0 DEF Joining, Connecting
<1>5. ContextOfUe'
  <2>1. \A v \in UE : Joining(v) \/ Connecting(v) => context'[ue[v].rnti] = context[ue[v].rnti]
    BY <1>1, <1>2, UsedRntis
  <2> QED BY <1>0, <1>4, <2>1 DEF ContextOfUe
<1>6. ContextOfMessage'
  <2>1. Fits(new)'
    BY <1>1 DEF Fits
  <2>2. ASSUME NEW m \in messages PROVE Fits(m)'
    <3>1. Fits(m) /\ m.rnti \in Rnti /\ m.rnti # r
      BY <1>2, UsedRntis DEF ContextOfMessage
    <3> QED BY <1>0, <1>1, <1>3, <1>4, <3>1 DEF Fits, Joining, Connecting
  <2> QED BY <1>0, <2>1, <2>2 DEF ContextOfMessage
<1>7. ContextOfAccess'
  <2>1. \A e \in rar : context'[e.rnti] = context[e.rnti]
    BY <1>1, <1>2, UsedRntis
  <2>2. \A q \in ReservedPreamble :
           reserved[q].rnti # 0 => context'[reserved[q].rnti] = context[reserved[q].rnti]
    BY <1>1, <1>2, UsedRntis
  <2>3. \A q \in ReservedPreamble : reserved'[q].rnti # 0 =>
           context'[reserved'[q].rnti].state # "INITIAL_RANDOM_ACCESS"
    BY <1>1, <2>2 DEF ContextOfAccess
  <2> QED BY <1>0, <2>1, <2>3 DEF ContextOfAccess
<1>8. SetupAwaited'
  <2> SUFFICES ASSUME NEW m \in messages, m.type = "RrcConnectionSetup"
               PROVE  /\ \A v \in UE : Claims(v, m.rnti)' => Connecting(v)
                      /\ \A e \in rar : e.rnti # m.rnti
                      /\ \A q \in ReservedPreamble : reserved'[q].rnti # m.rnti
    BY <1>0, <1>1, <1>4 DEF SetupAwaited
  <2>1. m.rnti \in Rnti /\ m.rnti # r
    BY <1>2, UsedRntis
  <2> QED BY <1>1, <1>3, <2>1 DEF SetupAwaited
<1> QED BY <1>5, <1>6, <1>7, <1>8

LEMMA SubframeMessages ==
    ASSUME RntiInv, MessageInv, TypeOK', SubframeIndication
    PROVE  MessageInv'
<1> USE DEF RntiInv, MessageInv
<1>0. /\ rar' = rar \cup {ResponseTo(p) : p \in received}
      /\ reserved' = [p \in ReservedPreamble |-> IF p \in received THEN NoEntry ELSE reserved[p]]
      /\ context' = [r \in Rnti |->
                       IF \E p \in Unreserved : NewRnti(p) = r
                       THEN [state |-> "INITIAL_RANDOM_ACCESS", imsi |-> Nobody]
                       ELSE context[r]]
      /\ UNCHANGED <<ue, messages>>
  BY DEF SubframeIndication
<1>1. \A p \in Unreserved : NewRnti(p) \in Nat /\ NewRnti(p) > lastRnti
  BY NewRntis
<1>2. \A r \in Rnti : r <= lastRnti => context'[r] = context[r] /\ \A p \in Unreserved : NewRnti(p) # r
  BY <1>0, <1>1 DEF TypeOK, Rnti
<1>3. /\ \A v \in UE : ue[v].rnti <= lastRnti
      /\ \A m \in messages : m.rnti <= lastRnti
      /\ \A e \in rar : e.rnti <= lastRnti
      /\ \A p \in ReservedPreamble : reserved[p].rnti <= lastRnti
  BY DEF RntisAllocated
<1>4. \A v \in UE : (Joining(v)' <=> Joining(v)) /\ (Connecting(v)' <=> Connecting(v))
  BY <1>0 DEF Joining, Connecting
<1>5. \A v \in UE, q \in Rnti : Claims(v, q)' <=> Claims(v, q)
  BY <1>0 DEF Claims, Commands
<1>6. \A e \in rar' : e.rnti \in Rnti
  BY DEF TypeOK
<1>7. \A e \in rar' :
         \/ e \in rar
         \/ \E p \in ReservedPreamble : e.preamble = p /\ e.rnti = reserved[p].rnti
         \/ \E p \in Unreserved : e.preamble = p /\ e.rnti = NewRnti(p)
  BY <1>0 DEF ResponseTo, Unreserved, IsReserved
<1>8. \A p \in ReservedPreamble : reserved'[p].rnti = reserved[p].rnti \/ reserved'[p].rnti = 0
  BY <1>0 DEF NoEntry
<1>9. ContextOfUe'
  <2>1. \A v \in UE : Joining(v) \/ Connecting(v) => context'[ue[v].rnti] = context[ue[v].rnti]
    BY <1>2, <1>3, UsedRntis
  <2> QED BY <1>0, <1>4, <2>1 DEF ContextOfUe
<1>10. ContextOfMessage'
  <2> SUFFICES ASSUME NEW m \in messages PROVE Fits(m)'
    BY <1>0 DEF ContextOfMessage
  <2>1. Fits(m) /\ m.rnti \in Rnti /\ context'[m.rnti] = context[m.rnti]
    BY <1>2, <1>3, UsedRntis DEF ContextOfMessage
  <2> QED BY <1>0, <1>4, <1>5, <2>1 DEF Fits, Joining, Connecting
<1>11. ContextOfAccess'
  <2>1. ASSUME NEW e \in rar', e.preamble \notin ReservedPreamble
        PROVE  context'[e.rnti].state = "INITIAL_RANDOM_ACCESS"
    <3>1. CASE e \in rar
      BY <1>2, <1>3, <1>6, <2>1, <3>1 DEF ContextOfAccess
    <3>2. CASE \E p \in Unreserved : e.preamble = p /\ e.rnti = NewRnti(p)
      BY <1>0, <1>6, <3>2
    <3> QED BY <1>7, <2>1, <3>1, <3>2
  <2>2. ASSUME NEW p \in ReservedPreamble, reserved'[p].rnti # 0
        PROVE  context'[reserved'[p].rnti].state # "INITIAL_RANDOM_ACCESS"
    <3>1. reserved'[p].rnti = reserved[p].rnti /\ reserved[p].rnti \in Rnti
      BY <1>8, <2>2, UsedRntis
    <3>2. context'[reserved[p].rnti] = context[reserved[p].rnti]
      BY <1>2, <1>3, <3>1
    <3> QED BY <2>2, <3>1, <3>2 DEF ContextOfAccess
  <2> QED BY <2>1, <2>2 DEF ContextOfAccess
<1>12. SetupAwaited'
  <2> SUFFICES ASSUME NEW m \in messages, m.type = "RrcConnectionSetup"
               PROVE  /\ \A v \in UE : Claims(v, m.rnti) => Connecting(v)
                      /\ \A e \in rar' : e.rnti # m.rnti
                      /\ \A p \in ReservedPreamble : reserved'[p].rnti # m.rnti
    BY <1>0, <1>4, <1>5, UsedRntis DEF SetupAwaited
  <2>1. m.rnti \in Rnti /\ m.rnti # 0 /\ m.rnti <= lastRnti
    BY <1>3, UsedRntis DEF Rnti
  <2> QED BY <1>2, <1>7, <1>8, <2>1 DEF SetupAwaited
<1> QED BY <1>9, <1>10, <1>11, <1>12

LEMMA RarMessages ==
    ASSUME RntiInv, MessageInv, TypeOK', Orderly, NEW e \in rar, ReceiveRar(e)
    PROVE  MessageInv'
<1> USE DEF RntiInv, MessageInv
<1>0. /\ rar' = rar \ {e} /\ e.rnti \in Rnti
      /\ UNCHANGED <<reserved, context>>
  BY DEF ReceiveRar, TypeOK
<1>1. CASE \A u \in UE : ~Takes(u, e)
  <2>1. \A u \in UE : ue'[u] = ue[u] /\ (Joining(u)' <=> Joining(u))
                      /\ (Connecting(u)' <=> Connecting(u))
    BY <1>1, ReceiveRarEffect DEF Joining, Connecting
  <2>2. messages' = messages
    BY <1>1, ReceiveRarEffect
  <2>3. \A u \in UE, r \in Rnti : Claims(u, r)' => Claims(u, r)
    BY <1>1, ReceiveRarEffect
  <2>4. ContextOfUe' /\ ContextOfAccess'
    BY <1>0, <2>1, <2>2 DEF ContextOfUe, ContextOfAccess
  <2>5. ContextOfMessage'
    BY <1>0, <2>1, <2>2, <2>3, UsedRntis DEF ContextOfMessage, Fits
  <2>6. SetupAwaited'
    BY <1>0, <2>1, <2>2, <2>3, UsedRntis DEF SetupAwaited
  <2> QED BY <2>4, <2>5, <2>6
<1>2. ASSUME NEW u \in UE, Takes(u, e) PROVE MessageInv'
  <2>1. IsFor(u, e) /\ ActsOn(u, e)
    BY <1>2, ReceiveRarEffect
  <2>2. /\ \A v \in UE : v # u => ue'[v] = ue[v]
        /\ messages' = messages \cup {Answer(u, e.rnti)}
    BY <2>1, <1>2, ReceiveRarEffect DEF IsFor
  <2>3. \A v \in UE, r \in Rnti : Claims(v, r)' => Claims(v, r) \/ (v = u /\ r = e.rnti)
    BY <2>1, <1>2, ReceiveRarEffect DEF IsFor
  <2>4. /\ \A v \in UE : v # u => (Joining(v)' <=> Joining(v)) /\ (Connecting(v)' <=> Connecting(v))
        /\ ~Joining(u)' /\ ~Connecting(u) /\ ue[u] # Elsewhere /\ ue'[u] # Elsewhere
    BY <2>1, <2>2, <1>0 DEF IsFor, ActsOn, Joining, Connecting, Accessing, Elsewhere, Rnti
  <2>5. \A v \in UE : v # u => ~Claims(v, e.rnti)
    <3>1. Joining(u) => Claims(u, e.rnti)
      BY <1>2, <2>1 DEF IsFor, Claims, Takes
    <3> QED BY <1>0, <2>1, <3>1 DEF IsFor, OneClaim
  <2>6. context[e.rnti].state = IF Joining(u) THEN "HANDOVER_JOINING" ELSE "INITIAL_RANDOM_ACCESS"
    BY <2>1 DEF IsFor, ContextOfUe, ContextOfAccess
  <2>7. ContextOfUe'
    <3>1. ~Joining(u) => ConnectionRequest(u, e.rnti) \in messages'
      BY <2>1, <2>2 DEF ActsOn
    <3>2. /\ ue'[u].here /\ ue'[u].rnti = e.rnti /\ e.rnti # 0
          /\ Connecting(u)' <=> ~Joining(u)
      BY <1>0, <1>2, <2>1 DEF ActsOn, Takes, Connecting, Rnti
    <3>3. ASSUME NEW v \in UE, v # u
          PROVE  /\ Joining(v)' => context'[ue'[v].rnti].state = "HANDOVER_JOINING"
                 /\ ue'[v].state = "CONNECTED_NORMALLY" /\ ue'[v].here => ue'[v].rnti # 0
                 /\ Connecting(v)' =>
                       /\ ue'[v].here /\ ue'[v].rnti # 0
                       /\ \/ ConnectionRequest(v, ue'[v].rnti) \in messages'
                          \/ context'[ue'[v].rnti].state = "CONNECTION_SETUP"
      BY <1>0, <2>2, <2>4, <3>3 DEF ContextOfUe
    <3> QED BY <2>4, <3>1, <3>2, <3>3 DEF ContextOfUe
  <2>8. ContextOfMessage'
    <3> SUFFICES ASSUME NEW m \in messages' PROVE Fits(m)'
      BY DEF ContextOfMessage
    <3>1. CASE m = Answer(u, e.rnti)
      <4>1. CASE Joining(u)
        <5>1. m.type = "ReconfigurationCompleted" /\ m.rnti = e.rnti
          BY <2>1, <3>1, <4>1, Fields DEF ActsOn
        <5> QED BY <1>0, <2>3, <2>4, <2>5, <2>6, <4>1, <5>1 DEF Fits
      <4>2. CASE ~Joining(u)
        <5>1. m.type = "RrcConnectionRequest" /\ m.rnti = e.rnti /\ m.ue = u
          BY <2>1, <3>1, <4>2, Fields DEF ActsOn
        <5> QED BY <1>0, <2>1, <2>6, <4>2, <5>1 DEF Fits, ActsOn, Connecting
      <4> QED BY <4>1, <4>2
    <3>2. CASE m \in messages
      <4>1. Fits(m) /\ m.rnti \in Rnti
        BY <3>2, UsedRntis DEF ContextOfMessage
      <4>2. m.type = "RrcConnectionRequest" => m.ue \in UE /\ m.ue # u
        BY <2>4, <3>2, <4>1, UsedRntis DEF Fits
      <4>3. ASSUME m.type = "RrcConnectionSetupCompleted", NEW v \in UE, Claims(v, m.rnti)'
            PROVE  ~Connecting(v)'
        <5>1. CASE v = u
          <6>1. CASE Joining(u)
            BY <2>1, <5>1, <6>1 DEF ActsOn, Connecting
          <6>2. CASE ~Joining(u)
            <7>1. ~(m.rnti = e.rnti)
              BY <2>6, <4>1, <4>3, <6>2 DEF Fits
            <7>2. Claims(u, m.rnti)
              BY <2>3, <4>1, <4>3, <5>1, <7>1
            <7>3. ue'[u].rnti = e.rnti
              BY <2>1 DEF ActsOn
            <7>4. \A n \in Commands : n.ue # u
              BY <2>4, CommandFirst
            <7>5. ConnectionRequest(u, m.rnti) \notin messages
              BY <2>4, Fields DEF ContextOfMessage, Fits
            <7>6. ue[u].rnti = 0
              BY <2>1, <6>2 DEF IsFor
            <7> QED BY <4>1, <7>2, <7>4, <7>5, <7>6 DEF Claims, Rnti
          <6> QED BY <6>1, <6>2
        <5>2. CASE v # u
          BY <2>3, <2>4, <4>1, <4>3, <5>2 DEF Fits
        <5> QED BY <5>1, <5>2
      <4>4. ASSUME m.type = "ReconfigurationCompleted", NEW v \in UE, Claims(v, m.rnti)'
            PROVE  ~Joining(v)' /\ ue'[v] # Elsewhere
        BY <2>2, <2>3, <2>4, <4>1, <4>4 DEF Fits
      <4>5. m.type = "RrcConnectionRequest" => Connecting(m.ue)' /\ ue'[m.ue].rnti = m.rnti
        BY <2>2, <2>4, <4>1, <4>2 DEF Fits
      <4> QED BY <1>0, <4>1, <4>3, <4>4, <4>5 DEF Fits
    <3> QED BY <2>2, <3>1, <3>2
  <2>9. ContextOfAccess'
    BY <1>0 DEF ContextOfAccess
  <2>10. SetupAwaited'
    <3> SUFFICES ASSUME NEW m \in messages', m.type = "RrcConnectionSetup"
                 PROVE  /\ \A v \in UE : Claims(v, m.rnti)' => Connecting(v)'
                        /\ \A f \in rar' : f.rnti # m.rnti
                        /\ \A p \in ReservedPreamble : reserved[p].rnti # m.rnti
      BY <1>0 DEF SetupAwaited
    <3>1. m \in messages /\ m.rnti \in Rnti
      BY <2>1, <2>2, Fields, UsedRntis DEF ActsOn
    <3>2. m.rnti # e.rnti
      BY <3>1 DEF SetupAwaited
    <3>3. \A v \in UE : Claims(v, m.rnti)' => v # u /\ Connecting(v)
      BY <2>3, <2>4, <3>1, <3>2 DEF SetupAwaited
    <3> QED BY <1>0, <2>4, <3>1, <3>3 DEF SetupAwaited
  <2> QED BY <2>7, <2>8, <2>9, <2>10
<1> QED BY <1>1, <1>2

\* No message arrives in a state that does not expect it, under the conditions
\* of OwnRnti: no handler of the access, of the connection or of the handover
\* into the cell ends the simulation, whatever is lost or times out.
THEOREM NothingUnexpected ==
    ASSUME Orderly
    PROVE  Spec => []NoUnexpectedMessage
<1>1. RntiInv /\ MessageInv /\ RntiInv' /\ [Next]_vars => MessageInv'
  <2> SUFFICES ASSUME RntiInv, MessageInv, RntiInv', [Next]_vars PROVE MessageInv'
    OBVIOUS
  <2>1. TypeOK'
    BY DEF RntiInv
  <2>2. ASSUME Quiet PROVE MessageInv'
    BY <2>1, <2>2, StepQuiet
  <2>3. ASSUME NEW u \in UE, RecvRrcConnectionSetup(u) PROVE MessageInv'
    <3>1. Aside
      BY <2>1, <2>3, StepsAside
    <3> QED BY <2>1, <2>3, <3>1, SetupMessages
  <2>4. ASSUME NEW m \in messages, RecvHandoverCommand(m) PROVE MessageInv'
    BY <2>1, <2>4, CommandMessages
  <2>5. ASSUME NEW e \in rar, ReceiveRar(e) PROVE MessageInv'
    BY <2>1, <2>5, RarMessages
  <2>6. ASSUME SubframeIndication PROVE MessageInv'
    BY <2>1, <2>6, SubframeMessages
  <2>7. ASSUME NEW u \in DualUe, NEW p \in ReservedPreamble, RecvHandoverRequest(u, p)
        PROVE  MessageInv'
    BY <2>1, <2>7, HandoverRequestMessages
  <2>8. ASSUME NEW m \in messages, RecvRrcConnectionRequest(m) PROVE MessageInv'
    BY <2>1, <2>8, RequestMessages
  <2> QED BY <2>1, <2>2, <2>3, <2>4, <2>5, <2>6, <2>7, <2>8, StepsQuiet DEF Next
<1>2. Init => RntiInv /\ MessageInv
  BY RntiInit, MessageInit
<1>3. RntiInv /\ MessageInv => NoUnexpectedMessage
  <2> SUFFICES ASSUME RntiInv, MessageInv PROVE NoUnexpectedMessage
    OBVIOUS
  <2> USE DEF RntiInv, MessageInv
  <2>1. ASSUME NEW m \in messages PROVE Expected(m)
    <3>1. Fits(m)
      BY DEF ContextOfMessage
    <3>2. m.type = "RrcConnectionSetup" =>
             \A u \in UE : ue[u].here /\ ue[u].rnti = m.rnti => ue[u].state = "IDLE_CONNECTING"
      BY DEF SetupAwaited, Claims, Connecting
    <3>3. m.type = "HandoverCommand" => ue[m.ue].state = "CONNECTED_NORMALLY"
      BY DEF CommandsReserved, Commands, Elsewhere
    <3> QED BY <3>1, <3>2, <3>3, UsedRntis DEF Fits, Expected
  <2>2. ASSUME NEW e \in rar, NEW u \in UE, Takes(u, e)
        PROVE  ue[u].state \in {"IDLE_RANDOM_ACCESS", "CONNECTED_HANDOVER"}
    BY <2>2 DEF TypeOK, Takes, MacState, NoPreamble, Preamble, Accessing
  <2> QED BY <2>1, <2>2 DEF NoUnexpectedMessage
<1>4. Spec => []RntiInv
  BY RntiInvariance, PTL
<1> QED BY <1>1, <1>2, <1>3, <1>4, PTL DEF Spec

=============================================================================
