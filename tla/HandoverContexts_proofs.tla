----------------------- MODULE HandoverContexts_proofs -----------------------
(***************************************************************************)
(* Proofs about the contexts of the cells in the handover between mmWave   *)
(* cells, where handovers do not time out: every message finds its         *)
(* receiver in the state of its procedure, and nothing is left behind, for *)
(* every set of cells, any that reject, every value of the attributes and  *)
(* every handover mode.                                                    *)
(***************************************************************************)
EXTENDS SecondaryHandover_proofs

-----------------------------------------------------------------------------
(***************************************************************************)
(* Where handovers do not time out: the contexts that the messages in      *)
(* flight are for.                                                         *)
(*                                                                         *)
(* Every context of a cell is the one that the coordinator knows (Served), *)
(* one that waits for its release (Released), or the one that the UE is on *)
(* its way to (Invited).  What the message that carries the handover on    *)
(* says agrees with the state of the first and the last of them            *)
(* (CarrierFits), and the other messages are for a context that is there   *)
(* (StatusFits, ReleaseFits, LinkOrder).                                   *)
(***************************************************************************)
Each(s) == {s[i] : i \in 1 .. Len(s)}
Flying(l) == Each(link[l])

\* The links that a message may be on: a cell that admits handovers does not
\* reject one.
Proper(l, m) ==
    /\ m.type \in {"McHandoverRequest", "UeContextRelease", "ConnectionSwitch"} =>
          l[1] = Lte /\ l[2] \in Cell
    /\ m.type \in {"HandoverRequest", "HandoverRequestAck", "HandoverPreparationFailure",
                   "SnStatusTransfer"} =>
          l[1] \in Cell /\ l[2] \in Cell /\ l[1] # l[2]
    /\ m.type = "HandoverCommand" => l[1] \in Cell /\ l[2] = Ue
    /\ m.type = "ReconfigurationCompleted" => l[1] = Ue /\ l[2] \in Cell
    /\ m.type = "SecondaryCellHandoverCompleted" => l[1] \in Cell /\ l[2] = Lte
    /\ m.type = "HandoverPreparationFailure" => l[1] \notin AdmittingCells
    /\ m.type # "NotifyCoordinatorHandoverFailed"

\* The context of the UE that the coordinator knows, and its state.
Served(c, r) == c = coordinator.cell /\ r = coordinator.rnti
Serving(state) ==
    /\ coordinator.cell \in Cell /\ coordinator.rnti \in Rnti
    /\ context[coordinator.cell][coordinator.rnti].state = state
Passes == context[coordinator.cell][coordinator.rnti].rlcRequests

\* The context at the target d of a handover.
Joining(d, n, state) ==
    /\ d \in Cell /\ d # coordinator.cell /\ n \in Rnti
    /\ context[d][n].state = state
    /\ context[d][n].sourceRnti = coordinator.rnti
    /\ context[d][n].rlcRequests
    /\ imsiRnti[d] = n

UeAt(c, r) == ue.state = "CONNECTED_NORMALLY" /\ ue.cell = c /\ ue.rnti = r
UeAtSource == UeAt(coordinator.cell, coordinator.rnti)

CarrierFits(l, m) ==
    /\ m.type = "McHandoverRequest" =>
          /\ l[2] = coordinator.cell /\ m.target # coordinator.cell
          /\ UeAtSource /\ Serving("CONNECTED_NORMALLY") /\ Passes
    /\ m.type = "HandoverRequest" =>
          /\ l[1] = coordinator.cell /\ m.old = coordinator.rnti /\ m.rlcs
          /\ UeAtSource /\ Serving("HANDOVER_PREPARATION")
    /\ m.type = "HandoverRequestAck" =>
          /\ l[2] = coordinator.cell /\ m.old = coordinator.rnti
          /\ UeAtSource /\ Serving("HANDOVER_PREPARATION")
          /\ Joining(l[1], m.new, "HANDOVER_JOINING")
    /\ m.type = "HandoverPreparationFailure" =>
          /\ l[2] = coordinator.cell /\ m.old = coordinator.rnti
          /\ UeAtSource /\ Serving("HANDOVER_PREPARATION")
    /\ m.type = "HandoverCommand" =>
          /\ l[1] = coordinator.cell
          /\ UeAtSource /\ Serving("HANDOVER_LEAVING")
          /\ Joining(m.target, m.new, "HANDOVER_JOINING")
    /\ m.type = "ReconfigurationCompleted" =>
          /\ UeAt(l[2], m.rnti) /\ Serving("HANDOVER_LEAVING")
          /\ Joining(l[2], m.rnti, "HANDOVER_JOINING")
    /\ m.type = "SecondaryCellHandoverCompleted" =>
          /\ m.old = coordinator.rnti
          /\ UeAt(l[1], m.new) /\ Serving("HANDOVER_LEAVING")
          /\ Joining(l[1], m.new, "CONNECTED_NORMALLY")

StatusFits(l, m) ==
    m.type = "SnStatusTransfer" =>
        context[l[2]][m.new].state \in {"HANDOVER_JOINING", "CONNECTED_NORMALLY"}

ReleaseFits(l, m) ==
    m.type = "UeContextRelease" =>
        /\ context[l[2]][m.old].state = "HANDOVER_LEAVING"
        /\ ~Served(l[2], m.old)
        /\ l[2] = coordinator.cell => Serving("CONNECTED_NORMALLY")
        /\ imsiRnti[l[2]] # m.old => HasContext(l[2], imsiRnti[l[2]])

AllProper == \A l \in Links : \A m \in Flying(l) : Proper(l, m)
CarriersFit == \A l \in Links : \A m \in Flying(l) : CarrierFits(l, m)
StatusesFit == \A l \in Links : \A m \in Flying(l) : StatusFits(l, m)
ReleasesFit == \A l \in Links : \A m \in Flying(l) : ReleaseFits(l, m)

\* While the UE accesses the target.
AccessFits ==
    ue.state = "CONNECTED_HANDOVER" =>
        Serving("HANDOVER_LEAVING") /\ Joining(ue.cell, ue.rnti, "HANDOVER_JOINING")

\* When nothing of a handover is under way.
RestFits ==
    coordinator.cell # 0 /\ ue.state = "CONNECTED_NORMALLY" /\ Free =>
        UeAtSource /\ Serving("CONNECTED_NORMALLY") /\ (Passes \/ Waiting)

BeforeConnect ==
    coordinator.cell = 0 =>
        /\ \A c \in Cell : /\ forwarding[c] = 0 /\ imsiRnti[c] = 0
                           /\ \A r \in Rnti : context[c][r] = NoContext
        /\ \A l \in Links : link[l] = << >>
        /\ ue.state = "CONNECTED_NORMALLY" /\ ue.cell = 0

Released(c, r) == UeContextRelease(r) \in Flying(<<Lte, c>>)
Invited(c, r) ==
    \/ ue.cell # coordinator.cell /\ c = ue.cell /\ r = ue.rnti
    \/ /\ c # coordinator.cell /\ coordinator.cell # 0
       /\ HandoverRequestAck(coordinator.rnti, r) \in Flying(<<c, coordinator.cell>>)
    \/ /\ coordinator.cell # 0
       /\ HandoverCommand(c, r) \in Flying(<<coordinator.cell, Ue>>)

Owned ==
    \A c \in Cell, r \in Rnti :
        context[c][r] # NoContext =>
            /\ context[c][r].rlc /\ context[c][r].joining # "expired"
            /\ Served(c, r) \/ Released(c, r) \/ Invited(c, r)

ServedKnown ==
    coordinator.cell # 0 =>
        /\ HasContext(coordinator.cell, coordinator.rnti)
        /\ imsiRnti[coordinator.cell] = coordinator.rnti

\* The messages of the coordinator to a cell: one release at most, behind all
\* switches for the context it releases and before a request for a handover.
Releases == OfType("UeContextRelease")
LinkOrder(s, served) ==
    /\ Once(s, Releases)
    /\ \A i, j \in 1 .. Len(s) :
          s[i].type = "McHandoverRequest" /\ s[j] \in Releases => j < i
    /\ \A i \in 1 .. Len(s) :
          s[i].type = "ConnectionSwitch" =>
              \/ s[i].rnti \in served
              \/ \E j \in 1 .. Len(s) : i < j /\ s[j] \in Releases /\ s[j].old = s[i].rnti
ServedAt(c) == IF c = coordinator.cell THEN {coordinator.rnti} ELSE {}
InOrder == \A c \in Cell : LinkOrder(link[<<Lte, c>>], ServedAt(c))

Known ==
    /\ lastCell = coordinator.cell /\ lastRnti = imsiRnti
    /\ BeforeConnect /\ ServedKnown

ContextInv ==
    /\ Known
    /\ AllProper /\ CarriersFit /\ StatusesFit /\ ReleasesFit
    /\ AccessFits /\ RestFits
    /\ Owned /\ InOrder /\ ForwardsWhileLeaving

-----------------------------------------------------------------------------
\* What is on a link.
LEMMA EachOf ==
    ASSUME NEW M
    PROVE  /\ Each(<< >>) = {}
           /\ \A m \in M : Each(<<m>>) = {m}
           /\ \A s \in Seq(M) : Each(s) \subseteq M
           /\ \A s, r \in Seq(M) : Each(s \o r) = Each(s) \cup Each(r)
           /\ \A s \in Seq(M) : s # << >> =>
                 /\ Head(s) \in Each(s)
                 /\ Each(Tail(s)) \subseteq Each(s)
                 /\ \A m \in Each(s) : m # Head(s) => m \in Each(Tail(s))
<1>1. Each(<< >>) = {} /\ (\A m \in M : Each(<<m>>) = {m}) /\ (\A s \in Seq(M) : Each(s) \subseteq M)
  BY DEF Each
<1>2. ASSUME NEW s \in Seq(M), NEW r \in Seq(M) PROVE Each(s \o r) = Each(s) \cup Each(r)
  <2>1. /\ Len(s \o r) = Len(s) + Len(r) /\ Len(s) \in Nat /\ Len(r) \in Nat
        /\ \A i \in 1 .. Len(s) : (s \o r)[i] = s[i] /\ i \in 1 .. Len(s \o r)
        /\ \A i \in 1 .. Len(r) : (s \o r)[Len(s) + i] = r[i] /\ Len(s) + i \in 1 .. Len(s \o r)
        /\ \A i \in 1 .. Len(s \o r) :
             \/ i \in 1 .. Len(s) /\ (s \o r)[i] = s[i]
             \/ i - Len(s) \in 1 .. Len(r) /\ (s \o r)[i] = r[i - Len(s)]
    OBVIOUS
  <2> QED BY <2>1 DEF Each
<1>3. ASSUME NEW s \in Seq(M), s # << >>
      PROVE  /\ Head(s) \in Each(s)
             /\ Each(Tail(s)) \subseteq Each(s)
             /\ \A m \in Each(s) : m # Head(s) => m \in Each(Tail(s))
  <2>1. /\ Len(Tail(s)) = Len(s) - 1 /\ Len(s) \in Nat \ {0}
        /\ \A i \in 1 .. Len(Tail(s)) : Tail(s)[i] = s[i + 1] /\ i + 1 \in 1 .. Len(s)
        /\ Head(s) = s[1] /\ 1 \in 1 .. Len(s)
    BY <1>3
  <2>2. ASSUME NEW i \in 1 .. Len(s), s[i] # Head(s) PROVE s[i] \in Each(Tail(s))
    <3>1. i - 1 \in 1 .. Len(Tail(s)) /\ Tail(s)[i - 1] = s[(i - 1) + 1] /\ (i - 1) + 1 = i
      BY <2>1, <2>2
    <3> QED BY <3>1 DEF Each
  <2> QED BY <2>1, <2>2 DEF Each
<1> QED BY <1>1, <1>2, <1>3

\* What is on a link after a handler.
LEMMA FlyingAfter ==
    ASSUME TypeOK, NEW consumed, NEW sends \in [Links -> Seq(Message)],
           \A l \in consumed \cap Links : link[l] # << >>, Exchange(consumed, sends),
           NEW x \in Links
    PROVE  /\ Flying(x) \subseteq Message
           /\ Flying(x)' \subseteq Flying(x) \cup Each(sends[x])
           /\ Each(sends[x]) \subseteq Flying(x)' /\ Each(sends[x]) \subseteq Message
           /\ x \notin consumed => Flying(x) \subseteq Flying(x)'
           /\ \A m \in Flying(x) : m # Head(link[x]) => m \in Flying(x)'
<1> DEFINE left == IF x \in consumed THEN Tail(link[x]) ELSE link[x]
<1>1. link[x] \in Seq(Message) /\ sends[x] \in Seq(Message)
  BY DEF TypeOK
<1>2. /\ left \in Seq(Message) /\ Each(left) \subseteq Each(link[x])
      /\ x \notin consumed => left = link[x]
      /\ \A m \in Each(link[x]) : m # Head(link[x]) => m \in Each(left)
  <2>1. CASE x \in consumed
    <3>1. link[x] # << >> /\ left = Tail(link[x])
      BY <2>1
    <3>2. Tail(link[x]) \in Seq(Message)
      BY <1>1, <3>1
    <3> QED BY <1>1, <2>1, <3>1, <3>2, EachOf
  <2>2. CASE x \notin consumed
    BY <1>1, <2>2
  <2> QED BY <2>1, <2>2
<1>3. link'[x] = left \o sends[x]
  BY DEF Exchange
<1> HIDE DEF left
<1>4. Each(link'[x]) = Each(left) \cup Each(sends[x]) /\ Each(link[x]) \subseteq Message
      /\ Each(sends[x]) \subseteq Message
  BY <1>1, <1>2, <1>3, EachOf
<1>5. Flying(x) = Each(link[x]) /\ Flying(x)' = Each(link'[x])
  BY DEF Flying
<1> QED BY <1>2, <1>4, <1>5

\* What is on its way is on no other link, and is gone when it is consumed.
LEMMA TheCarrier ==
    ASSUME TypeOK, OnItsWay, NEW l \in Links, NEW t, HeadIs(l, t),
           Head(link[l]) \in Carriers,
           NEW sends \in [Links -> Seq(Message)], Exchange({l}, sends), NEW x \in Links
    PROVE  /\ \A m \in Flying(x) \cap Carriers : x = l /\ m = Head(link[l])
           /\ Flying(x)' \cap Carriers \subseteq Each(sends[x])
           /\ x # l => Flying(x) \cap Carriers = {}
<1>1. link[l] \in Seq(Message) /\ link[l] # << >> /\ link[x] \in Seq(Message)
      /\ sends[x] \in Seq(Message)
  BY DEF TypeOK, HeadIs
<1>2. OnlyOn(l)
  <2>1. ~Free
    BY <1>1, Tails DEF Free
  <2>2. PICK j \in Links : OnlyOn(j)
    BY <2>1 DEF OnItsWay
  <2>3. j = l
    BY <1>1, <2>2, Tails DEF OnlyOn
  <2> QED BY <2>2, <2>3
<1>3. None(Tail(link[l]), Carriers) /\ Tail(link[l]) \in Seq(Message)
  BY <1>1, <1>2, Tails DEF OnlyOn
<1>4. \A s : None(s, Carriers) <=> Each(s) \cap Carriers = {}
  BY DEF None, Each
<1>5. x # l => Each(link[x]) \cap Carriers = {}
  BY <1>2, <1>4 DEF OnlyOn
<1>6. Each(Tail(link[l])) \cap Carriers = {}
  BY <1>3, <1>4
<1>7. \A m \in Each(link[l]) \cap Carriers : m = Head(link[l])
  <2>1. \A m \in Each(link[l]) : m # Head(link[l]) => m \in Each(Tail(link[l]))
    BY <1>1, EachOf
  <2> QED BY <1>6, <2>1
<1>0. \A a, b \in Seq(Message) : Each(a \o b) = Each(a) \cup Each(b)
  BY EachOf
<1>8. Each(link'[x]) \cap Carriers \subseteq Each(sends[x])
  <2>1. CASE x = l
    <3>1. link'[x] = Tail(link[l]) \o sends[x]
      BY <2>1 DEF Exchange
    <3>2. Each(link'[x]) = Each(Tail(link[l])) \cup Each(sends[x])
      BY <1>0, <1>1, <1>3, <3>1
    <3> QED BY <1>6, <3>2
  <2>2. CASE x # l
    <3>1. link'[x] = link[x] \o sends[x]
      BY <2>2 DEF Exchange
    <3>2. Each(link'[x]) = Each(link[x]) \cup Each(sends[x])
      BY <1>0, <1>1, <3>1
    <3> QED BY <1>5, <2>2, <3>2
  <2> QED BY <2>1, <2>2
<1> QED BY <1>5, <1>7, <1>8 DEF Flying

\* While the UE accesses the target, and when nothing is under way.
LEMMA NoCarrier ==
    ASSUME OnItsWay, Free \/ ue.state = "CONNECTED_HANDOVER", NEW x \in Links
    PROVE  Flying(x) \cap Carriers = {} /\ Free
<1>1. Free
  BY DEF OnItsWay
<1> QED BY <1>1 DEF Free, None, Flying, Each

\* The order of the messages to a cell, when one is consumed or sent.
LEMMA OrderOfTail ==
    ASSUME NEW s \in Seq(Message), s # << >>, NEW S, LinkOrder(s, S)
    PROVE  /\ LinkOrder(Tail(s), S)
           /\ Head(s).type = "McHandoverRequest" => Each(s) \cap Releases = {}
           /\ Head(s) \in Releases => Each(Tail(s)) \cap Releases = {}
           /\ Head(s).type = "ConnectionSwitch" =>
                 \/ Head(s).rnti \in S
                 \/ \E m \in Each(s) : m \in Releases /\ m.old = Head(s).rnti
<1>1. /\ Tail(s) \in Seq(Message) /\ Len(Tail(s)) = Len(s) - 1 /\ Len(s) \in Nat \ {0}
      /\ \A i \in 1 .. Len(Tail(s)) : Tail(s)[i] = s[i + 1] /\ i + 1 \in 1 .. Len(s)
      /\ Head(s) = s[1] /\ 1 \in 1 .. Len(s)
  OBVIOUS
<1>2. Once(Tail(s), Releases) /\ (Head(s) \in Releases => None(Tail(s), Releases))
  BY Tails DEF LinkOrder
<1>3. ASSUME NEW i \in 1 .. Len(Tail(s)), NEW j \in 1 .. Len(Tail(s)),
             Tail(s)[i].type = "McHandoverRequest", Tail(s)[j] \in Releases
      PROVE  j < i
  <2>1. j + 1 < i + 1
    BY <1>1, <1>3 DEF LinkOrder
  <2> QED BY <2>1
<1>4. ASSUME NEW i \in 1 .. Len(Tail(s)), Tail(s)[i].type = "ConnectionSwitch",
             Tail(s)[i].rnti \notin S
      PROVE  \E j \in 1 .. Len(Tail(s)) :
                i < j /\ Tail(s)[j] \in Releases /\ Tail(s)[j].old = Tail(s)[i].rnti
  <2>1. s[i + 1] = Tail(s)[i] /\ i + 1 \in 1 .. Len(s)
    BY <1>1
  <2>2. PICK j \in 1 .. Len(s) : i + 1 < j /\ s[j] \in Releases /\ s[j].old = s[i + 1].rnti
    BY <1>4, <2>1 DEF LinkOrder
  <2>3. j - 1 \in 1 .. Len(Tail(s)) /\ i < j - 1 /\ (j - 1) + 1 = j
    BY <1>1, <2>2
  <2>4. Tail(s)[j - 1] = s[j]
    BY <1>1, <2>3
  <2> QED BY <2>1, <2>2, <2>3, <2>4
<1>5. LinkOrder(Tail(s), S)
  BY <1>2, <1>3, <1>4 DEF LinkOrder
<1>6. Head(s).type = "McHandoverRequest" => Each(s) \cap Releases = {}
  <2> SUFFICES ASSUME Head(s).type = "McHandoverRequest", NEW j \in 1 .. Len(s), s[j] \in Releases
               PROVE  FALSE
    BY DEF Each
  <2>1. j < 1
    BY <1>1 DEF LinkOrder
  <2> QED BY <2>1
<1>7. Head(s) \in Releases => Each(Tail(s)) \cap Releases = {}
  BY <1>2 DEF None, Each
<1>8. Head(s).type = "ConnectionSwitch" =>
                 \/ Head(s).rnti \in S
                 \/ \E m \in Each(s) : m \in Releases /\ m.old = Head(s).rnti
  BY <1>1 DEF LinkOrder, Each
<1> QED BY <1>5, <1>6, <1>7, <1>8

LEMMA OrderOfSent ==
    ASSUME NEW s \in Seq(Message), NEW S, LinkOrder(s, S), NEW m \in Message
    PROVE  /\ m.type = "McHandoverRequest" => LinkOrder(s \o <<m>>, S)
           /\ m.type = "ConnectionSwitch" /\ m.rnti \in S => LinkOrder(s \o <<m>>, S)
           /\ /\ m.type = "UeContextRelease" /\ \A r \in S : r = m.old
              /\ Each(s) \cap Releases = {}
              /\ \A n \in Each(s) : n.type # "McHandoverRequest"
              => LinkOrder(s \o <<m>>, {})
<1> DEFINE t == s \o <<m>>
           n == Len(s) + 1
<1>1. /\ t \in Seq(Message) /\ Len(t) = n /\ Len(s) \in Nat
      /\ \A i \in 1 .. Len(s) : t[i] = s[i] /\ i \in 1 .. Len(t)
      /\ t[n] = m /\ n \in 1 .. Len(t)
      /\ \A i \in 1 .. Len(t) : i \in 1 .. Len(s) \/ i = n
  OBVIOUS
<1> HIDE DEF t
<1>2. m \in Releases <=> m.type = "UeContextRelease"
  BY DEF Releases, OfType
<1>3. ASSUME m \notin Releases, m.type = "ConnectionSwitch" => m.rnti \in S
      PROVE  LinkOrder(t, S)
  <2>1. Once(t, Releases)
    BY <1>1, <1>3 DEF LinkOrder, Once
  <2>2. ASSUME NEW i \in 1 .. Len(t), NEW j \in 1 .. Len(t),
               t[i].type = "McHandoverRequest", t[j] \in Releases
        PROVE  j < i
    <3>1. j \in 1 .. Len(s)
      BY <1>1, <1>3, <2>2
    <3>2. CASE i = n
      BY <1>1, <3>1, <3>2
    <3>3. CASE i \in 1 .. Len(s)
      BY <1>1, <2>2, <3>1, <3>3 DEF LinkOrder
    <3> QED BY <1>1, <3>2, <3>3
  <2>3. ASSUME NEW i \in 1 .. Len(t), t[i].type = "ConnectionSwitch", t[i].rnti \notin S
        PROVE  \E j \in 1 .. Len(t) : i < j /\ t[j] \in Releases /\ t[j].old = t[i].rnti
    <3>1. i \in 1 .. Len(s) /\ t[i] = s[i]
      BY <1>1, <1>3, <2>3
    <3>2. PICK j \in 1 .. Len(s) : i < j /\ s[j] \in Releases /\ s[j].old = s[i].rnti
      BY <2>3, <3>1 DEF LinkOrder
    <3> QED BY <1>1, <3>1, <3>2
  <2> QED BY <2>1, <2>2, <2>3 DEF LinkOrder
<1>4. ASSUME m.type = "UeContextRelease", \A r \in S : r = m.old,
             Each(s) \cap Releases = {}, \A k \in Each(s) : k.type # "McHandoverRequest"
      PROVE  LinkOrder(t, {})
  <2>0. \A i \in 1 .. Len(s) : s[i] \notin Releases /\ s[i].type # "McHandoverRequest"
    BY <1>4 DEF Each
  <2>1. Once(t, Releases)
    BY <1>1, <2>0 DEF Once
  <2>2. \A i \in 1 .. Len(t) : t[i].type # "McHandoverRequest"
    BY <1>1, <1>4, <2>0
  <2>3. ASSUME NEW i \in 1 .. Len(t), t[i].type = "ConnectionSwitch"
        PROVE  \E j \in 1 .. Len(t) : i < j /\ t[j] \in Releases /\ t[j].old = t[i].rnti
    <3>1. i \in 1 .. Len(s) /\ t[i] = s[i]
      BY <1>1, <1>4, <2>3
    <3>2. s[i].rnti \in S
      BY <2>0, <2>3, <3>1 DEF LinkOrder
    <3>3. i < n /\ t[n] \in Releases /\ t[n].old = t[i].rnti
      BY <1>1, <1>2, <1>4, <3>1, <3>2
    <3> QED BY <1>1, <3>3
  <2> QED BY <2>1, <2>2, <2>3 DEF LinkOrder
<1>5. m.type = "McHandoverRequest" => LinkOrder(t, S)
  BY <1>2, <1>3
<1>6. m.type = "ConnectionSwitch" /\ m.rnti \in S => LinkOrder(t, S)
  BY <1>2, <1>3
<1> QED BY <1>4, <1>5, <1>6 DEF t

LEMMA OrderWidens ==
    ASSUME NEW s, NEW S, NEW T, S \subseteq T, LinkOrder(s, S)
    PROVE  LinkOrder(s, T)
  BY DEF LinkOrder

-----------------------------------------------------------------------------
\* What ContextInv says of the contexts.
LEMMA LinkEnds == \A l \in Links : l = <<l[1], l[2]>>
  BY DEF Links

LEMMA Flies ==
    ASSUME Typed, Known, NEW x \in Links, NEW m \in Flying(x)
    PROVE  /\ m \in Message /\ link[x] # << >>
           /\ coordinator.cell \in Cell /\ coordinator.rnti \in Rnti
           /\ context[coordinator.cell][coordinator.rnti] \in Context
           /\ imsiRnti[coordinator.cell] = coordinator.rnti
<1>1. link[x] # << >> /\ m \in Message
  BY EachOf DEF Flying, Typed, TypeOK
<1>2. coordinator.cell # 0
  BY <1>1 DEF Known, BeforeConnect
<1>3. HasContext(coordinator.cell, coordinator.rnti) /\ imsiRnti[coordinator.cell] = coordinator.rnti
  BY <1>2 DEF Known, ServedKnown
<1>4. coordinator.cell \in Cell
  BY <1>2 DEF Typed, TypeOK
<1> QED BY <1>1, <1>3, <1>4, ContextHere DEF Typed

LEMMA HeadFlies ==
    ASSUME Typed, NEW l \in Links, NEW t, HeadIs(l, t)
    PROVE  Head(link[l]) \in Flying(l) /\ Head(link[l]) \in OfType(t)
<1>1. link[l] \in Seq(Message) /\ link[l] # << >> /\ Head(link[l]) \in OfType(t)
  BY Heads DEF Typed
<1> QED BY <1>1, EachOf DEF Flying

\* The states of a context, of which NoContext has none.
States == {"CONNECTED_NORMALLY", "HANDOVER_PREPARATION", "HANDOVER_LEAVING", "HANDOVER_JOINING"}

LEMMA StateOf ==
    ASSUME Typed, NEW c \in Cell, NEW r \in Rnti
    PROVE  /\ context[c][r] # NoContext <=> context[c][r].state \in States
           /\ context[c][r].state \in States => context[c][r] \in Context
           /\ HasContext(c, r) <=> context[c][r].state \in States
           /\ context[c][r] \in Context \cup {NoContext}
<1>1. context[c][r] \in Context \cup {NoContext}
  BY DEF Typed, TypeOK
<1>2. \A x \in Context : x.state \in States
  BY DEF Context, States
<1>3. NoContext.state \notin States
  BY DEF NoContext, States
<1> QED BY <1>1, <1>2, <1>3 DEF HasContext

\* The message that is under way, or the UE, names the context at the target.
LEMMA InvitedJoins ==
    ASSUME Typed, OnItsWay, ContextInv, NEW c \in Cell, NEW r \in Rnti, Invited(c, r)
    PROVE  /\ \/ Joining(c, r, "HANDOVER_JOINING") \/ Joining(c, r, "CONNECTED_NORMALLY")
           /\ ~Served(c, r)
<1>1. CASE ue.cell # coordinator.cell /\ c = ue.cell /\ r = ue.rnti
  <2>1. coordinator.cell # 0
    BY <1>1, CellsAreOthers DEF ContextInv, Known, BeforeConnect, Lte
  <2>2. CASE ue.state = "CONNECTED_HANDOVER"
    BY <1>1, <2>2 DEF ContextInv, AccessFits, Joining, Served
  <2>3. CASE ue.state # "CONNECTED_HANDOVER"
    <3>1. ue.state = "CONNECTED_NORMALLY"
      BY <2>3 DEF Typed, TypeOK
    <3>2. ~Free
      BY <1>1, <2>1, <3>1 DEF ContextInv, RestFits, UeAtSource, UeAt
    <3>3. PICK l \in Links : ~None(link[l], Carriers)
      BY <3>2 DEF Free
    <3>4. PICK m \in Flying(l) : m \in Carriers
      BY <3>3 DEF None, Flying, Each
    <3>5. CarrierFits(l, m)
      BY <3>4 DEF ContextInv, CarriersFit
    <3>6. m.type \in {"ReconfigurationCompleted", "SecondaryCellHandoverCompleted"}
      BY <1>1, <3>4, <3>5 DEF Carriers, CarrierFits, UeAtSource, UeAt
    <3> QED BY <1>1, <3>5, <3>6 DEF CarrierFits, UeAt, Joining, Served
  <2> QED BY <2>2, <2>3
<1>2. CASE /\ c # coordinator.cell /\ coordinator.cell # 0
           /\ HandoverRequestAck(coordinator.rnti, r) \in Flying(<<c, coordinator.cell>>)
  <2> DEFINE m == HandoverRequestAck(coordinator.rnti, r)
             l == <<c, coordinator.cell>>
  <2>1. l \in Links
    BY <1>2, Ends DEF Typed, TypeOK
  <2>2. CarrierFits(l, m)
    BY <1>2, <2>1 DEF ContextInv, CarriersFit
  <2>3. m.type = "HandoverRequestAck" /\ m.new = r /\ l[1] = c
    BY DEF HandoverRequestAck
  <2> QED BY <2>2, <2>3 DEF CarrierFits, Joining, Served
<1>3. CASE coordinator.cell # 0 /\ HandoverCommand(c, r) \in Flying(<<coordinator.cell, Ue>>)
  <2> DEFINE m == HandoverCommand(c, r)
             l == <<coordinator.cell, Ue>>
  <2>1. l \in Links
    BY <1>3, Ends DEF Typed, TypeOK
  <2>2. CarrierFits(l, m)
    BY <1>3, <2>1 DEF ContextInv, CarriersFit
  <2>3. m.type = "HandoverCommand" /\ m.new = r /\ m.target = c
    BY DEF HandoverCommand
  <2> QED BY <2>2, <2>3 DEF CarrierFits, Joining, Served
<1> QED BY <1>1, <1>2, <1>3 DEF Invited

\* A context that waits for its release.
LEMMA ReleasedLeaves ==
    ASSUME Typed, ContextInv, NEW c \in Cell, NEW r \in Rnti, Released(c, r)
    PROVE  /\ context[c][r].state = "HANDOVER_LEAVING" /\ ~Served(c, r)
           /\ c = coordinator.cell => Serving("CONNECTED_NORMALLY")
           /\ imsiRnti[c] # r => HasContext(c, imsiRnti[c])
           /\ \A q \in Rnti : Released(c, q) => q = r
<1> DEFINE l == <<Lte, c>>
<1>1. l \in Links /\ l[2] = c
  BY Ends
<1>2. \A q \in Rnti : UeContextRelease(q) \in Releases /\ UeContextRelease(q).old = q
                      /\ UeContextRelease(q).type = "UeContextRelease"
  BY Messages DEF Releases, OfType, UeContextRelease
<1>3. ReleaseFits(l, UeContextRelease(r))
  BY <1>1 DEF ContextInv, ReleasesFit, Released
<1>4. ASSUME NEW q \in Rnti, Released(c, q) PROVE q = r
  <2>1. PICK i \in 1 .. Len(link[l]) : link[l][i] = UeContextRelease(q)
    BY <1>4 DEF Released, Flying, Each
  <2>2. PICK j \in 1 .. Len(link[l]) : link[l][j] = UeContextRelease(r)
    BY DEF Released, Flying, Each
  <2>3. Once(link[l], Releases)
    BY DEF ContextInv, InOrder, LinkOrder
  <2>4. i = j
    BY <1>2, <2>1, <2>2, <2>3 DEF Once
  <2> QED BY <1>2, <2>1, <2>2, <2>4
<1> QED BY <1>1, <1>2, <1>3, <1>4 DEF ReleaseFits

\* Of the contexts of a cell, one at most is left by the UE.
LEMMA LeavingIs ==
    ASSUME Typed, OnItsWay, ContextInv, NEW c \in Cell, NEW r \in Rnti,
           context[c][r].state = "HANDOVER_LEAVING"
    PROVE  /\ Served(c, r) \/ Released(c, r)
           /\ \A q \in Rnti : context[c][q].state = "HANDOVER_LEAVING" => q = r
<1>1. ASSUME NEW q \in Rnti, context[c][q].state = "HANDOVER_LEAVING"
      PROVE  Served(c, q) \/ Released(c, q)
  <2>1. context[c][q] # NoContext
    BY <1>1, StateOf DEF States
  <2>2. ~Invited(c, q)
    BY <1>1, InvitedJoins DEF Joining
  <2> QED BY <2>1, <2>2 DEF ContextInv, Owned
<1>2. ASSUME NEW q \in Rnti, context[c][q].state = "HANDOVER_LEAVING" PROVE q = r
  <2>1. Served(c, q) \/ Released(c, q)
    BY <1>1, <1>2
  <2>2. CASE Served(c, q) /\ Served(c, r)
    BY <2>2 DEF Served
  <2>3. CASE Served(c, q) /\ Released(c, r)
    <3>1. Serving("CONNECTED_NORMALLY")
      BY <2>3, ReleasedLeaves DEF Served
    <3> QED BY <1>2, <2>3, <3>1 DEF Served, Serving
  <2>4. CASE Released(c, q) /\ Served(c, r)
    <3>1. Serving("CONNECTED_NORMALLY")
      BY <2>4, ReleasedLeaves DEF Served
    <3> QED BY <2>4, <3>1 DEF Served, Serving
  <2>5. CASE Released(c, q) /\ Released(c, r)
    BY <2>5, ReleasedLeaves
  <2> QED BY <1>1, <2>1, <2>2, <2>3, <2>4, <2>5
<1> QED BY <1>1, <1>2

-----------------------------------------------------------------------------
LEMMA OthersFit ==
    ASSUME NEW m \in Message, m \notin Carriers, NEW x
    PROVE  CarrierFits(x, m) /\ CarrierFits(x, m)'
  BY DEF Carriers, CarrierFits

LEMMA CarriersAfter ==
    ASSUME Typed, OnItsWay, NEW l \in Links, NEW t, HeadIs(l, t), Head(link[l]) \in Carriers,
           NEW sends \in [Links -> Seq(Message)], Exchange({l}, sends),
           \A x \in Links : \A m \in Each(sends[x]) : CarrierFits(x, m)'
    PROVE  /\ CarriersFit'
           /\ \A x \in Links : x # l => Flying(x) \cap Carriers = {}
<1>0. TypeOK /\ \A k \in {l} \cap Links : link[k] # << >>
  BY DEF Typed, HeadIs
<1>1. ASSUME NEW x \in Links, NEW m \in Flying(x)' PROVE CarrierFits(x, m)'
  <2>1. CASE m \in Carriers
    <3>1. Flying(x)' \cap Carriers \subseteq Each(sends[x])
      BY <1>0, TheCarrier
    <3>2. m \in Each(sends[x])
      BY <1>1, <2>1, <3>1
    <3> QED BY <3>2
  <2>2. CASE m \notin Carriers
    <3>1. m \in Flying(x) \cup Each(sends[x])
      BY <1>0, <1>1, FlyingAfter
    <3>2. m \in Message
      BY <1>0, <3>1, FlyingAfter
    <3> QED BY <2>2, <3>2, OthersFit
  <2> QED BY <2>1, <2>2
<1> QED BY <1>0, <1>1, TheCarrier DEF CarriersFit

LEMMA NotFree ==
    ASSUME NEW k \in Links, NEW m \in Flying(k)', m \in Carriers
    PROVE  ~Free'
  BY DEF Free, None, Flying, Each, Carriers

\* The contexts that the message under way is about are as they were.
Arriving == {"CONNECTED_NORMALLY", "HANDOVER_JOINING"}
Stays ==
    /\ UNCHANGED <<coordinator, ue.state, ue.cell, ue.rnti>>
    /\ \A st \in States : Serving(st) => Serving(st)'
    /\ Passes => Passes'
    /\ \A d, n : \A st \in Arriving : Joining(d, n, st) => Joining(d, n, st)'

LEMMA StaysFit ==
    ASSUME Stays, NEW l, NEW m, CarrierFits(l, m)
    PROVE  CarrierFits(l, m)'
<1>1. UeAtSource => UeAtSource'
  BY DEF Stays, UeAtSource, UeAt
<1>2. \A c, r : UeAt(c, r) => UeAt(c, r)'
  BY DEF Stays, UeAt
<1>3. \A st \in States : Serving(st) => Serving(st)'
  BY DEF Stays
<1>4. \A d, n : \A st \in Arriving : Joining(d, n, st) => Joining(d, n, st)'
  BY DEF Stays
<1>5. UNCHANGED <<coordinator.cell, coordinator.rnti>> /\ (Passes => Passes')
  BY DEF Stays
<1>6. {"CONNECTED_NORMALLY", "HANDOVER_PREPARATION", "HANDOVER_LEAVING", "HANDOVER_JOINING"} \subseteq States
  BY DEF States
<1>7. {"CONNECTED_NORMALLY", "HANDOVER_JOINING"} \subseteq Arriving
  BY DEF Arriving
<1> QED BY <1>1, <1>2, <1>3, <1>4, <1>5, <1>6, <1>7 DEF CarrierFits

LEMMA BystanderFits ==
    ASSUME Typed, OnItsWay, ContextInv, Stays, NEW consumed,
           NEW sends \in [Links -> Seq(Message)],
           \A l \in consumed \cap Links : link[l] # << >> /\ Head(link[l]) \notin Carriers,
           Exchange(consumed, sends),
           \A x \in Links : Each(sends[x]) \cap Carriers = {},
           Waiting => Waiting'
    PROVE  CarriersFit' /\ AccessFits' /\ RestFits'
<1>0. TypeOK /\ \A k \in consumed \cap Links : link[k] # << >>
  BY DEF Typed
<1>1. ASSUME NEW x \in Links, NEW m \in Flying(x)' PROVE CarrierFits(x, m)'
  <2>1. m \in Flying(x) \cup Each(sends[x]) /\ m \in Message
    BY <1>0, <1>1, FlyingAfter
  <2>2. CASE m \in Carriers
    BY <2>1, <2>2, StaysFit DEF ContextInv, CarriersFit
  <2> QED BY <2>1, <2>2, OthersFit
<1>2. Free' => Free
  <2> SUFFICES ASSUME NEW x \in Links, NEW m \in Flying(x), m \in Carriers
               PROVE  ~Free'
    BY DEF Free, None, Flying, Each
  <2>1. m \in Flying(x)'
    <3>1. CASE x \in consumed
      <4>1. m # Head(link[x])
        BY <3>1
      <4> QED BY <1>0, <4>1, FlyingAfter
    <3>2. CASE x \notin consumed
      BY <1>0, <3>2, FlyingAfter
    <3> QED BY <3>1, <3>2
  <2> QED BY <2>1, NotFree
<1>3. /\ UNCHANGED <<coordinator.cell, coordinator.rnti, ue.state, ue.cell, ue.rnti>>
      /\ Passes => Passes'
      /\ Serving("HANDOVER_LEAVING") => Serving("HANDOVER_LEAVING")'
      /\ Serving("CONNECTED_NORMALLY") => Serving("CONNECTED_NORMALLY")'
      /\ Joining(ue.cell, ue.rnti, "HANDOVER_JOINING") => Joining(ue.cell, ue.rnti, "HANDOVER_JOINING")'
  <2>1. {"CONNECTED_NORMALLY", "HANDOVER_LEAVING"} \subseteq States /\ "HANDOVER_JOINING" \in Arriving
    BY DEF States, Arriving
  <2>2. \A d, n : \A st \in Arriving : Joining(d, n, st) => Joining(d, n, st)'
    BY DEF Stays
  <2>3. Joining(ue.cell, ue.rnti, "HANDOVER_JOINING") =>
           Joining(ue.cell, ue.rnti, "HANDOVER_JOINING")'
    <3>1. ASSUME NEW d, NEW n, d = ue.cell, n = ue.rnti, Joining(d, n, "HANDOVER_JOINING")
          PROVE  Joining(ue.cell, ue.rnti, "HANDOVER_JOINING")'
      <4>1. Joining(d, n, "HANDOVER_JOINING")' /\ d = ue'.cell /\ n = ue'.rnti
        BY <2>1, <2>2, <3>1 DEF Stays
      <4> QED BY <4>1 DEF Joining
    <3> QED BY <3>1
  <2> QED BY <2>1, <2>3 DEF Stays
<1>4. AccessFits'
  BY <1>3 DEF ContextInv, AccessFits
<1>5. RestFits'
  BY <1>2, <1>3 DEF ContextInv, RestFits, UeAtSource, UeAt
<1> QED BY <1>1, <1>4, <1>5 DEF CarriersFit

\* The releases, the invitations and the owners.
LEMMA ReleasedStays ==
    ASSUME TypeOK, NEW consumed, NEW sends \in [Links -> Seq(Message)],
           \A l \in consumed \cap Links : link[l] # << >>, Exchange(consumed, sends),
           NEW c \in Cell, NEW r,
           <<Lte, c>> \in consumed => Head(link[<<Lte, c>>]).type # "UeContextRelease",
           Released(c, r)
    PROVE  Released(c, r)'
<1> DEFINE m == UeContextRelease(r)
           l == <<Lte, c>>
<1>1. l \in Links /\ m.type = "UeContextRelease" /\ m \in Flying(l)
  BY Ends DEF UeContextRelease, Released
<1>2. l \notin consumed \/ m # Head(link[l])
  BY <1>1
<1> HIDE DEF m, l
<1>3. m \in Flying(l)'
  BY <1>1, <1>2, FlyingAfter
<1>4. m' = m /\ l' = l
  BY DEF m, l, UeContextRelease, Lte
<1> QED BY <1>3 DEF Released, m, l, UeContextRelease, Lte

LEMMA InvitedStays ==
    ASSUME Typed, NEW consumed, NEW sends \in [Links -> Seq(Message)],
           \A l \in consumed \cap Links :
              /\ link[l] # << >>
              /\ Head(link[l]).type \notin {"HandoverRequestAck", "HandoverCommand"},
           Exchange(consumed, sends), UNCHANGED <<coordinator, ue.cell, ue.rnti>>,
           NEW c \in Cell, NEW r, Invited(c, r)
    PROVE  Invited(c, r)'
<1>0. /\ TypeOK /\ \A l \in consumed \cap Links : link[l] # << >>
      /\ coordinator.cell \in Cell \cup {0}
  BY DEF Typed, TypeOK
<1>1. ASSUME NEW l \in Links, NEW m \in Flying(l),
             m.type \in {"HandoverRequestAck", "HandoverCommand"}
      PROVE  m \in Flying(l)'
  <2>1. l \notin consumed \/ m # Head(link[l])
    BY <1>1
  <2> QED BY <1>0, <2>1, FlyingAfter
<1>2. CASE /\ c # coordinator.cell /\ coordinator.cell # 0
           /\ HandoverRequestAck(coordinator.rnti, r) \in Flying(<<c, coordinator.cell>>)
  <2>1. <<c, coordinator.cell>> \in Links
    BY <1>0, <1>2, Ends
  <2>2. HandoverRequestAck(coordinator.rnti, r) \in Flying(<<c, coordinator.cell>>)'
    <3> DEFINE m == HandoverRequestAck(coordinator.rnti, r)
               l == <<c, coordinator.cell>>
    <3>1. m.type = "HandoverRequestAck"
      BY DEF HandoverRequestAck
    <3>2. m \in Flying(l) /\ l \in Links
      BY <1>2, <2>1
    <3>3. PICK n, k : n = m /\ k = l
      OBVIOUS
    <3>4. n \in Flying(k)'
      BY <1>1, <3>1, <3>2, <3>3
    <3>5. m' = m /\ l' = l
      BY DEF HandoverRequestAck
    <3> QED BY <3>3, <3>4, <3>5 DEF Flying
  <2> QED BY <1>2, <2>2 DEF Invited
<1>3. CASE coordinator.cell # 0 /\ HandoverCommand(c, r) \in Flying(<<coordinator.cell, Ue>>)
  <2>1. <<coordinator.cell, Ue>> \in Links
    BY <1>0, <1>3, Ends
  <2>2. HandoverCommand(c, r) \in Flying(<<coordinator.cell, Ue>>)'
    <3> DEFINE m == HandoverCommand(c, r)
               l == <<coordinator.cell, Ue>>
    <3>1. m.type = "HandoverCommand"
      BY DEF HandoverCommand
    <3>2. m \in Flying(l) /\ l \in Links
      BY <1>3, <2>1
    <3>3. PICK n, k : n = m /\ k = l
      OBVIOUS
    <3>4. n \in Flying(k)'
      BY <1>1, <3>1, <3>2, <3>3
    <3>5. m' = m /\ l' = l
      BY DEF HandoverCommand, Ue
    <3> QED BY <3>3, <3>4, <3>5 DEF Flying
  <2> QED BY <1>3, <2>2 DEF Invited
<1>4. CASE ue.cell # coordinator.cell /\ c = ue.cell /\ r = ue.rnti
  BY <1>4 DEF Invited
<1> QED BY <1>2, <1>3, <1>4 DEF Invited

LEMMA OwnedAfter ==
    ASSUME Typed, ContextInv, UNCHANGED coordinator,
           \A c \in Cell, r \in Rnti : context'[c][r] # NoContext =>
              /\ context'[c][r].rlc /\ context'[c][r].joining # "expired"
              /\ context[c][r] # NoContext \/ Invited(c, r)'
              /\ Released(c, r) => Released(c, r)'
              /\ Invited(c, r) => Invited(c, r)'
    PROVE  Owned'
<1>1. ASSUME NEW c \in Cell, NEW r \in Rnti, context'[c][r] # NoContext
      PROVE  Served(c, r)' \/ Released(c, r)' \/ Invited(c, r)'
  <2>1. Served(c, r) => Served(c, r)'
    BY DEF Served
  <2>2. context[c][r] # NoContext => Served(c, r) \/ Released(c, r) \/ Invited(c, r)
    BY DEF ContextInv, Owned
  <2> QED BY <1>1, <2>1, <2>2
<1>2. NoContext' = NoContext
  BY DEF NoContext
<1> QED BY <1>1, <1>2 DEF Owned

\* The order of the coordinator's messages, when it sends nothing to a cell.
LEMMA OrderStays ==
    ASSUME Typed, ContextInv, NEW consumed, NEW sends \in [Links -> Seq(Message)],
           \A l \in consumed \cap Links : link[l] # << >>, Exchange(consumed, sends),
           UNCHANGED coordinator, \A c \in Cell : sends[<<Lte, c>>] = << >>
    PROVE  InOrder'
<1>1. ASSUME NEW c \in Cell PROVE LinkOrder(link'[<<Lte, c>>], ServedAt(c))
  <2> DEFINE s == link[<<Lte, c>>]
  <2>1. s \in Seq(Message) /\ <<Lte, c>> \in Links /\ LinkOrder(s, ServedAt(c))
    BY Ends DEF Typed, TypeOK, ContextInv, InOrder
  <2>2. \A t \in Seq(Message) : t \o << >> = t
    OBVIOUS
  <2>3. CASE <<Lte, c>> \in consumed
    <3>1. s # << >> /\ link'[<<Lte, c>>] = Tail(s) \o << >>
      BY <2>1, <2>3 DEF Exchange
    <3>2. Tail(s) \in Seq(Message)
      BY <2>1, <3>1
    <3> QED BY <2>1, <2>2, <3>1, <3>2, OrderOfTail
  <2>4. CASE <<Lte, c>> \notin consumed
    <3>1. link'[<<Lte, c>>] = s \o << >>
      BY <2>1, <2>4 DEF Exchange
    <3> QED BY <2>1, <2>2, <3>1
  <2> QED BY <2>3, <2>4
<1>2. \A c : ServedAt(c)' = ServedAt(c)
  BY DEF ServedAt
<1>3. \A s, S : LinkOrder(s, S)' = LinkOrder(s, S)
  BY DEF LinkOrder
<1>4. ASSUME NEW c \in Cell PROVE LinkOrder(link[<<Lte, c>>], ServedAt(c))'
  BY <1>1, <1>2, <1>4 DEF LinkOrder, Lte, Releases, OfType
<1> QED BY <1>4 DEF InOrder

-----------------------------------------------------------------------------
\* A release that is on its way, and what it is for.
LEMMA ReleaseIs ==
    ASSUME Typed, ContextInv, NEW x \in Links, NEW m \in Flying(x), m.type = "UeContextRelease"
    PROVE  /\ x[2] \in Cell /\ x = <<Lte, x[2]>> /\ m.old \in Rnti
           /\ m = UeContextRelease(m.old) /\ Released(x[2], m.old)
           /\ ReleaseFits(x, m)
<1>1. m \in Message /\ m.old \in Rnti
  BY Flies, Fields DEF ContextInv
<1>2. m = UeContextRelease(m.old)
  BY <1>1 DEF Message, UeContextRelease, NotifyCoordinatorHandoverFailed
<1>3. x[1] = Lte /\ x[2] \in Cell
  BY DEF ContextInv, AllProper, Proper
<1>4. x = <<Lte, x[2]>>
  BY <1>3, LinkEnds
<1>5. Released(x[2], m.old)
  <2>1. m \in Flying(<<Lte, x[2]>>)
    BY <1>4
  <2> QED BY <1>2, <2>1 DEF Released
<1> QED BY <1>1, <1>2, <1>3, <1>4, <1>5 DEF ContextInv, ReleasesFit

\* A status that is on its way.
LEMMA StatusIs ==
    ASSUME Typed, ContextInv, NEW x \in Links, NEW m \in Flying(x), m.type = "SnStatusTransfer"
    PROVE  /\ x[1] \in Cell /\ x[2] \in Cell /\ m.new \in Rnti /\ x[1] # x[2]
           /\ context[x[2]][m.new].state \in {"HANDOVER_JOINING", "CONNECTED_NORMALLY"}
<1>1. m \in Message /\ m.new \in Rnti
  BY Flies, Fields DEF ContextInv
<1>2. x[1] \in Cell /\ x[2] \in Cell /\ x[1] # x[2]
  BY DEF ContextInv, AllProper, Proper
<1>3. StatusFits(x, m)
  BY DEF ContextInv, StatusesFit
<1> QED BY <1>1, <1>2, <1>3 DEF StatusFits

\* A handler that leaves alone what the coordinator knows and sends nothing
\* in its name.
LEMMA HandlerKeeps ==
    ASSUME Typed, ContextInv, NEW consumed, NEW sends \in [Links -> Seq(Message)],
           \A l \in consumed \cap Links : link[l] # << >>, Exchange(consumed, sends),
           UNCHANGED <<coordinator, lastCell>>, lastRnti' = imsiRnti', coordinator.cell # 0,
           context'[coordinator.cell][coordinator.rnti] # NoContext,
           imsiRnti'[coordinator.cell] = imsiRnti[coordinator.cell],
           \A x \in Links : \A m \in Each(sends[x]) : Proper(x, m),
           \A c \in Cell : sends[<<Lte, c>>] = << >>
    PROVE  Known' /\ AllProper' /\ InOrder'
<1>1. ServedKnown'
  <2>1. coordinator.rnti \in Rnti /\ imsiRnti[coordinator.cell] = coordinator.rnti
    BY DEF ContextInv, Known, ServedKnown, HasContext
  <2> QED BY <2>1 DEF ServedKnown, HasContext, Rnti, NoContext
<1>2. BeforeConnect'
  BY DEF BeforeConnect
<1>3. InOrder'
  BY OrderStays
<1>4. ASSUME NEW x \in Links, NEW m \in Flying(x)' PROVE Proper(x, m)'
  <2>1. m \in Flying(x) \cup Each(sends[x])
    BY <1>4, FlyingAfter DEF Typed
  <2>2. Proper(x, m)
    BY <2>1 DEF ContextInv, AllProper
  <2> QED BY <2>2 DEF Proper, Lte, Ue
<1>5. AllProper'
  BY <1>4 DEF AllProper
<1>6. lastCell' = coordinator'.cell
  BY DEF ContextInv, Known
<1> QED BY <1>1, <1>2, <1>3, <1>5, <1>6 DEF Known

\* A handler that sets one context.
LEMMA SetFits ==
    ASSUME Typed, ContextInv, NEW consumed, NEW sends \in [Links -> Seq(Message)],
           \A l \in consumed \cap Links : link[l] # << >>, Exchange(consumed, sends),
           UNCHANGED coordinator,
           NEW c \in Cell, NEW r \in Rnti, NEW new \in Context, SetContext(c, r, new),
           imsiRnti' \in {imsiRnti, [imsiRnti EXCEPT ![c] = r]},
           Released(c, r) => new.state = "HANDOVER_LEAVING",
           /\ Served(c, r) /\ context[c][r].state = "CONNECTED_NORMALLY"
           => new.state = "CONNECTED_NORMALLY" \/ \A q \in Rnti : ~Released(c, q),
           \A x \in Links : \A m \in Flying(x) :
              m.type = "SnStatusTransfer" /\ x[2] = c /\ m.new = r => new.state \in Arriving,
           \A x \in Links : \A m \in Each(sends[x]) :
              StatusFits(x, m)' /\ m.type # "UeContextRelease"
    PROVE  StatusesFit' /\ ReleasesFit'
<1>0. /\ context'[c][r] = new /\ new # NoContext
      /\ \A d \in Cell, q \in Rnti : <<d, q>> # <<c, r>> => context'[d][q] = context[d][q]
  BY ContextsType, NoContextIsNone DEF Typed
<1>1. ASSUME NEW x \in Links, NEW m \in Flying(x)' PROVE m \in Flying(x) \cup Each(sends[x])
  BY <1>1, FlyingAfter DEF Typed
<1>2. ASSUME NEW x \in Links, NEW m \in Flying(x), m.type = "SnStatusTransfer"
      PROVE  StatusFits(x, m)'
  <2>1. /\ x[2] \in Cell /\ m.new \in Rnti
        /\ context[x[2]][m.new].state \in {"HANDOVER_JOINING", "CONNECTED_NORMALLY"}
    BY <1>2, StatusIs
  <2>2. context'[x[2]][m.new].state \in {"HANDOVER_JOINING", "CONNECTED_NORMALLY"}
    <3>1. CASE x[2] = c /\ m.new = r
      BY <1>0, <1>2, <3>1 DEF Arriving
    <3>2. CASE ~(x[2] = c /\ m.new = r)
      <4>1. context'[x[2]][m.new] = context[x[2]][m.new]
        BY <1>0, <2>1, <3>2
      <4> QED BY <2>1, <4>1
    <3> QED BY <3>1, <3>2
  <2> QED BY <2>2 DEF StatusFits
<1>3. ASSUME NEW x \in Links, NEW m \in Flying(x)' PROVE StatusFits(x, m)'
  <2>1. CASE m.type = "SnStatusTransfer"
    BY <1>1, <1>2, <1>3, <2>1
  <2>2. CASE m.type # "SnStatusTransfer"
    BY <2>2 DEF StatusFits
  <2> QED BY <2>1, <2>2
<1>4. ASSUME NEW x \in Links, NEW m \in Flying(x), m.type = "UeContextRelease"
      PROVE  ReleaseFits(x, m)'
  <2> DEFINE d == x[2]
  <2>1. d \in Cell /\ m.old \in Rnti /\ Released(d, m.old) /\ ReleaseFits(x, m)
    BY <1>4, ReleaseIs
  <2>2. /\ context[d][m.old].state = "HANDOVER_LEAVING" /\ ~Served(d, m.old)
        /\ d = coordinator.cell => Serving("CONNECTED_NORMALLY")
        /\ imsiRnti[d] # m.old => HasContext(d, imsiRnti[d])
    BY <1>4, <2>1 DEF ReleaseFits
  <2> HIDE DEF d
  <2>3. context'[d][m.old].state = "HANDOVER_LEAVING"
    <3>1. CASE d = c /\ m.old = r
      BY <1>0, <2>1, <3>1
    <3>2. CASE ~(d = c /\ m.old = r)
      <4>1. context'[d][m.old] = context[d][m.old]
        BY <1>0, <2>1, <3>2
      <4> QED BY <2>2, <4>1
    <3> QED BY <3>1, <3>2
  <2>4. ~Served(d, m.old)'
    BY <2>2 DEF Served
  <2>5. ASSUME d = coordinator.cell PROVE Serving("CONNECTED_NORMALLY")'
    <3>1. Serving("CONNECTED_NORMALLY")
      BY <2>2, <2>5
    <3>2. CASE Served(c, r)
      <4>1. new.state = "CONNECTED_NORMALLY"
        BY <2>1, <2>5, <3>1, <3>2 DEF Served, Serving
      <4> QED BY <1>0, <3>1, <3>2, <4>1 DEF Served, Serving
    <3>3. CASE ~Served(c, r)
      <4>1. context'[coordinator.cell][coordinator.rnti] = context[coordinator.cell][coordinator.rnti]
        BY <1>0, <3>1, <3>3 DEF Served, Serving
      <4> QED BY <3>1, <4>1 DEF Serving
    <3> QED BY <3>2, <3>3
  <2>6. ASSUME imsiRnti'[d] # m.old PROVE HasContext(d, imsiRnti[d])'
    <3>1. imsiRnti \in [Cell -> 0 .. MaxRnti]
      BY DEF Typed, TypeOK
    <3>2. imsiRnti'[d] = imsiRnti[d] \/ (d = c /\ imsiRnti'[d] = r)
      BY <2>1, <3>1
    <3>3. CASE imsiRnti'[d] = imsiRnti[d]
      <4>1. imsiRnti[d] \in Rnti /\ context[d][imsiRnti[d]] # NoContext
        BY <2>2, <2>6, <3>3 DEF HasContext
      <4>2. context'[d][imsiRnti[d]] # NoContext
        BY <1>0, <2>1, <4>1
      <4> QED BY <3>3, <4>1, <4>2 DEF HasContext, Rnti, NoContext
    <3>4. CASE d = c /\ imsiRnti'[d] = r
      BY <1>0, <3>4 DEF HasContext, Rnti, NoContext
    <3> QED BY <3>2, <3>3, <3>4
  <2> QED BY <2>3, <2>4, <2>5, <2>6 DEF ReleaseFits, d
<1>5. ASSUME NEW x \in Links, NEW m \in Flying(x)' PROVE ReleaseFits(x, m)'
  <2>1. CASE m.type = "UeContextRelease"
    BY <1>1, <1>4, <1>5, <2>1
  <2>2. CASE m.type # "UeContextRelease"
    BY <2>2 DEF ReleaseFits
  <2> QED BY <2>1, <2>2
<1> QED BY <1>3, <1>5 DEF StatusesFit, ReleasesFit

LEMMA SetForwards ==
    ASSUME Typed, ContextInv, UNCHANGED forwarding,
           NEW c \in Cell, NEW r \in Rnti, NEW new \in Context, SetContext(c, r, new),
           new.state = "HANDOVER_LEAVING" <=> context[c][r].state = "HANDOVER_LEAVING"
    PROVE  ForwardsWhileLeaving'
<1>1. /\ context'[c][r] = new
      /\ \A d \in Cell, q \in Rnti : <<d, q>> # <<c, r>> => context'[d][q] = context[d][q]
  BY ContextsType DEF Typed
<1>2. \A d \in Cell, q \in Rnti :
         context'[d][q].state = "HANDOVER_LEAVING" <=> context[d][q].state = "HANDOVER_LEAVING"
  BY <1>1
<1> QED BY <1>2 DEF ContextInv, ForwardsWhileLeaving, Rnti

LEMMA SetOwned ==
    ASSUME Typed, ContextInv, NEW consumed, NEW sends \in [Links -> Seq(Message)],
           \A l \in consumed \cap Links :
              /\ link[l] # << >>
              /\ Head(link[l]).type \notin
                   {"HandoverRequestAck", "HandoverCommand", "UeContextRelease"},
           Exchange(consumed, sends), UNCHANGED <<coordinator, ue.cell, ue.rnti>>,
           NEW c \in Cell, NEW r \in Rnti, NEW new \in Context, SetContext(c, r, new),
           new.rlc, new.joining # "expired",
           context[c][r] # NoContext \/ Invited(c, r)'
    PROVE  Owned'
<1>1. /\ context'[c][r] = new
      /\ \A d \in Cell, q \in Rnti : <<d, q>> # <<c, r>> => context'[d][q] = context[d][q]
  BY ContextsType DEF Typed
<1>2. ASSUME NEW d \in Cell, NEW q \in Rnti, context'[d][q] # NoContext
      PROVE  /\ context'[d][q].rlc /\ context'[d][q].joining # "expired"
             /\ context[d][q] # NoContext \/ Invited(d, q)'
  <2>1. CASE d = c /\ q = r
    BY <1>1, <2>1
  <2>2. CASE ~(d = c /\ q = r)
    <3>1. context'[d][q] = context[d][q]
      BY <1>1, <2>2
    <3> QED BY <1>2, <3>1 DEF ContextInv, Owned
  <2> QED BY <2>1, <2>2
<1>3. ASSUME NEW d \in Cell, NEW q \in Rnti, Released(d, q) PROVE Released(d, q)'
  BY <1>3, ReleasedStays, Ends DEF Typed
<1>4. ASSUME NEW d \in Cell, NEW q \in Rnti, Invited(d, q) PROVE Invited(d, q)'
  BY <1>4, InvitedStays
<1> QED BY <1>2, <1>3, <1>4, OwnedAfter

-----------------------------------------------------------------------------
\* One message is sent, or none.
LEMMA SentOne ==
    ASSUME NEW k \in Links, NEW m \in Message
    PROVE  /\ On(k, <<m>>) \in [Links -> Seq(Message)]
           /\ \A x \in Links : Each(On(k, <<m>>)[x]) = IF x = k THEN {m} ELSE {}
           /\ \A x \in Links : x # k => On(k, <<m>>)[x] = << >>
           /\ k[1] # Lte => \A c \in Cell : On(k, <<m>>)[<<Lte, c>>] = << >>
<1>1. \A x \in Links : On(k, <<m>>)[x] = IF x = k THEN <<m>> ELSE << >>
  BY DEF On
<1>2. \A c : <<Lte, c>>[1] = Lte
  OBVIOUS
<1>3. k[1] # Lte => \A c \in Cell : <<Lte, c>> # k /\ <<Lte, c>> \in Links
  BY <1>2, Ends
<1> QED BY <1>1, <1>3, SendTypesOnLinks, EachOf

LEMMA SentNone ==
    /\ Nothing \in [Links -> Seq(Message)]
    /\ \A x \in Links : Nothing[x] = << >> /\ Each(Nothing[x]) = {}
<1>1. \A x \in Links : Nothing[x] = << >>
  BY DEF Nothing
<1> QED BY <1>1, SendTypesOnLinks, EachOf

\* The message that is under way, when it arrives.
LEMMA HeadFits ==
    ASSUME Typed, OnItsWay, ContextInv, NEW l \in Links, NEW t, HeadIs(l, t),
           t \in {"McHandoverRequest", "HandoverRequest", "HandoverRequestAck",
                  "HandoverPreparationFailure", "HandoverCommand", "ReconfigurationCompleted",
                  "SecondaryCellHandoverCompleted"}
    PROVE  /\ Head(link[l]) \in Flying(l) /\ Head(link[l]) \in Message
           /\ Head(link[l]).type = t /\ Head(link[l]) \in Carriers
           /\ CarrierFits(l, Head(link[l]))
           /\ link[l] # << >> /\ coordinator.cell # 0
           /\ coordinator.cell \in Cell /\ coordinator.rnti \in Rnti
           /\ context[coordinator.cell][coordinator.rnti] \in Context
           /\ context[coordinator.cell][coordinator.rnti].rlc
           /\ context[coordinator.cell][coordinator.rnti].joining # "expired"
           /\ imsiRnti[coordinator.cell] = coordinator.rnti
<1>1. Head(link[l]) \in Flying(l) /\ Head(link[l]) \in Message /\ Head(link[l]).type = t
  BY HeadFlies DEF OfType
<1>2. CarrierFits(l, Head(link[l])) /\ Head(link[l]) \in Carriers
  BY <1>1 DEF ContextInv, CarriersFit, Carriers
<1>3. /\ link[l] # << >> /\ coordinator.cell \in Cell /\ coordinator.rnti \in Rnti
      /\ context[coordinator.cell][coordinator.rnti] \in Context
      /\ imsiRnti[coordinator.cell] = coordinator.rnti
  BY <1>1, Flies DEF ContextInv
<1>4. context[coordinator.cell][coordinator.rnti] # NoContext
  BY <1>3, NoContextIsNone
<1> QED BY <1>1, <1>2, <1>3, <1>4, CellsAreOthers DEF ContextInv, Owned, Lte

\* The UE does not access a cell while a message is under way.
LEMMA UnderWay ==
    ASSUME NEW k \in Links, NEW m \in Flying(k)', m \in Carriers,
           ue'.state = "CONNECTED_NORMALLY"
    PROVE  AccessFits' /\ RestFits'
<1>1. ~Free'
  BY NotFree
<1> QED BY <1>1 DEF AccessFits, RestFits

\* A handler that sets one context, consumes the message that is under way and
\* sends the next one.
LEMMA CarryOn ==
    ASSUME Typed, OnItsWay, ContextInv,
           NEW l \in Links, NEW t, HeadIs(l, t),
           t \in {"McHandoverRequest", "HandoverRequest", "ReconfigurationCompleted"},
           NEW k \in Links, NEW m \in Message, m \in Carriers, k[1] # Lte,
           Proper(k, m), CarrierFits(k, m)', Exchange({l}, On(k, <<m>>)),
           UNCHANGED <<coordinator, lastCell, forwarding, ue>>, lastRnti' = imsiRnti',
           NEW c \in Cell, NEW r \in Rnti, NEW new \in Context, SetContext(c, r, new),
           imsiRnti' \in {imsiRnti, [imsiRnti EXCEPT ![c] = r]},
           c = coordinator.cell => imsiRnti' = imsiRnti,
           new.rlc, new.joining # "expired",
           context[c][r] # NoContext \/ Invited(c, r)',
           context[c][r].state # "HANDOVER_LEAVING", new.state # "HANDOVER_LEAVING",
           Served(c, r) => \A q \in Rnti : ~Released(c, q),
           \A x \in Links : \A n \in Flying(x) :
              n.type = "SnStatusTransfer" /\ x[2] = c /\ n.new = r => new.state \in Arriving
    PROVE  ContextInv'
<1>1. /\ Head(link[l]).type = t /\ Head(link[l]) \in Carriers
      /\ CarrierFits(l, Head(link[l]))
      /\ link[l] # << >> /\ coordinator.cell # 0
      /\ coordinator.cell \in Cell /\ coordinator.rnti \in Rnti
      /\ context[coordinator.cell][coordinator.rnti] \in Context
  BY HeadFits
<1>2. PICK sends : sends = On(k, <<m>>)
  OBVIOUS
<1>3. /\ sends \in [Links -> Seq(Message)]
      /\ \A x \in Links : Each(sends[x]) = IF x = k THEN {m} ELSE {}
      /\ \A x \in Cell : sends[<<Lte, x>>] = << >>
      /\ Exchange({l}, sends)
  BY <1>2, SentOne
<1>4. m.type \notin {"UeContextRelease", "SnStatusTransfer"}
  BY DEF Carriers
<1>5. /\ \A x \in {l} \cap Links : link[x] # << >>
      /\ \A x \in Links : \A n \in Each(sends[x]) :
            Proper(x, n) /\ CarrierFits(x, n)' /\ StatusFits(x, n)' /\ n.type # "UeContextRelease"
  BY <1>1, <1>3, <1>4 DEF StatusFits
<1>6. /\ context'[c][r] = new /\ new # NoContext
      /\ \A e \in Cell, q \in Rnti : <<e, q>> # <<c, r>> => context'[e][q] = context[e][q]
  BY ContextsType, NoContextIsNone DEF Typed
<1>7. context'[coordinator.cell][coordinator.rnti] # NoContext
  BY <1>1, <1>6, NoContextIsNone
<1>8. imsiRnti'[coordinator.cell] = imsiRnti[coordinator.cell]
  BY <1>1 DEF Typed, TypeOK
<1>9. Known' /\ AllProper' /\ InOrder'
  BY <1>1, <1>3, <1>5, <1>7, <1>8, HandlerKeeps
<1>10. CarriersFit'
  BY <1>1, <1>3, <1>5, CarriersAfter
<1>11. StatusesFit' /\ ReleasesFit'
  <2>1. ~Released(c, r)
    BY ReleasedLeaves
  <2> QED BY <1>3, <1>5, <2>1, SetFits
<1>12. ForwardsWhileLeaving'
  BY SetForwards
<1>13. Owned'
  <2>1. \A x \in {l} \cap Links :
           /\ link[x] # << >>
           /\ Head(link[x]).type \notin
                {"HandoverRequestAck", "HandoverCommand", "UeContextRelease"}
    BY <1>1
  <2> QED BY <1>3, <2>1, SetOwned
<1>14. AccessFits' /\ RestFits'
  <2>1. m \in Flying(k)'
    <3>1. Each(sends[k]) \subseteq Flying(k)'
      BY <1>3, <1>5, FlyingAfter DEF Typed
    <3> QED BY <1>3, <3>1
  <2>2. ue'.state = "CONNECTED_NORMALLY"
    <3>1. ue.state = "CONNECTED_NORMALLY"
      BY <1>1 DEF CarrierFits, UeAtSource, UeAt
    <3> QED BY <3>1
  <2> QED BY <2>1, <2>2, UnderWay
<1> QED BY <1>9, <1>10, <1>11, <1>12, <1>13, <1>14 DEF ContextInv

LEMMA McRequestFits ==
    ASSUME Typed, OnItsWay, ContextInv, NEW c \in Cell, RecvMcHandoverRequest(c)
    PROVE  ContextInv'
<1>0. PICK l, h, r, d : /\ l = <<Lte, c>> /\ h = Head(link[l])
                        /\ r = imsiRnti[c] /\ d = h.target
  OBVIOUS
<1>1. PICK new : new = [context[c][r] EXCEPT !.state = "HANDOVER_PREPARATION", !.target = d,
                                             !.rlcRequests = FALSE]
  OBVIOUS
<1>2. PICK k, m : k = <<c, d>> /\ m = HandoverRequest(r, context[c][r].rlcRequests)
  OBVIOUS
<1>3. /\ HeadIs(l, "McHandoverRequest") /\ l \in Links /\ l[2] = c
      /\ \A e \in Cell \ {c} : link[<<e, c>>] = << >>
      /\ SetContext(c, r, new) /\ Exchange({l}, On(k, <<m>>))
      /\ UNCHANGED <<coordinator, lastCell, lastRnti, imsiRnti, forwarding, ue>>
  BY <1>0, <1>1, <1>2, Ends DEF RecvMcHandoverRequest, decisionVars
<1>4. /\ h \in Flying(l) /\ h \in Message /\ h.type = "McHandoverRequest" /\ h \in Carriers
      /\ CarrierFits(l, h) /\ link[l] # << >> /\ coordinator.cell # 0
      /\ coordinator.cell \in Cell /\ coordinator.rnti \in Rnti
      /\ context[coordinator.cell][coordinator.rnti] \in Context
      /\ context[coordinator.cell][coordinator.rnti].rlc
      /\ context[coordinator.cell][coordinator.rnti].joining # "expired"
      /\ imsiRnti[coordinator.cell] = coordinator.rnti
  BY <1>0, <1>3, HeadFits
<1>5. c = coordinator.cell /\ d # c /\ UeAtSource /\ Serving("CONNECTED_NORMALLY") /\ Passes
  BY <1>0, <1>3, <1>4 DEF CarrierFits
<1>6. /\ r = coordinator.rnti /\ r \in Rnti /\ d \in Cell /\ k \in Links /\ Served(c, r)
      /\ context[c][r].state = "CONNECTED_NORMALLY" /\ context[c][r].rlcRequests
  BY <1>0, <1>2, <1>4, <1>5, Fields, Ends DEF Serving, Served, Passes
<1>7. /\ new \in Context /\ new.state = "HANDOVER_PREPARATION" /\ new.rlc
      /\ new.joining # "expired"
  BY <1>1, <1>4, <1>5, <1>6 DEF Context
<1>8. m \in Message /\ m.type = "HandoverRequest" /\ m.old = r /\ m.rlcs /\ m \in Carriers
  <2>1. context[c][r].rlcRequests \in BOOLEAN
    BY <1>4, <1>5, <1>6 DEF Context
  <2> QED BY <1>2, <1>6, <2>1, Messages DEF OfType, HandoverRequest, Carriers
<1>9. k[1] = c /\ k[2] = d /\ k[1] # Lte
  BY <1>2, CellsAreOthers
<1>10. \A q \in Rnti : ~Released(c, q)
  <2>1. Each(link[l]) \cap Releases = {}
    BY <1>0, <1>3, <1>4, OrderOfTail DEF Typed, TypeOK, ContextInv, InOrder
  <2>2. \A q \in Rnti : UeContextRelease(q) \in Releases
    BY Messages DEF Releases
  <2> QED BY <1>0, <2>1, <2>2 DEF Released, Flying
<1>11. \A x \in Links : \A n \in Flying(x) : ~(n.type = "SnStatusTransfer" /\ x[2] = c)
  <2> SUFFICES ASSUME NEW x \in Links, NEW n \in Flying(x), n.type = "SnStatusTransfer", x[2] = c
               PROVE  FALSE
    OBVIOUS
  <2>1. x[1] \in Cell \ {c}
    BY StatusIs
  <2>2. x = <<x[1], c>>
    BY LinkEnds
  <2>3. link[x] # << >>
    BY Flies DEF ContextInv
  <2> QED BY <1>3, <2>1, <2>2, <2>3
<1>12. context'[c][r] = new
  BY <1>3, <1>6, <1>7, ContextsType DEF Typed
<1>13. Proper(k, m)
  BY <1>5, <1>6, <1>8, <1>9 DEF Proper
<1>14. CarrierFits(k, m)'
  <2>1. UeAtSource' /\ Serving("HANDOVER_PREPARATION")'
    BY <1>3, <1>4, <1>5, <1>6, <1>7, <1>12 DEF UeAtSource, UeAt, Serving, Rnti
  <2> QED BY <1>3, <1>5, <1>6, <1>8, <1>9, <2>1 DEF CarrierFits
<1>15. /\ context[c][r] # NoContext /\ context[c][r].state # "HANDOVER_LEAVING"
       /\ lastRnti' = imsiRnti' /\ UNCHANGED <<coordinator, lastCell, forwarding, ue>>
       /\ imsiRnti' \in {imsiRnti, [imsiRnti EXCEPT ![c] = r]}
       /\ new.state # "HANDOVER_LEAVING"
  BY <1>3, <1>6, <1>7, NoContextIsNone DEF ContextInv, Known
<1> QED
  BY <1>3, <1>6, <1>7, <1>8, <1>9, <1>10, <1>11, <1>13, <1>14, <1>15, CarryOn

LEMMA HandoverRequestFits ==
    ASSUME Typed, OnItsWay, ContextInv, NEW c \in Cell, NEW d \in Cell \ {c},
           RecvHandoverRequest(d, c), c \in AdmittingCells
    PROVE  ContextInv'
<1>0. PICK l, h, k, r : l = <<d, c>> /\ h = Head(link[l]) /\ k = <<c, d>> /\ r = AddUe(c)
  OBVIOUS
<1>1. PICK new, m : /\ new = NewContext("HANDOVER_JOINING", d, h.old, h.rlcs)
                    /\ m = HandoverRequestAck(h.old, r)
  OBVIOUS
<1>2. /\ HeadIs(l, "HandoverRequest") /\ l \in Links /\ l[1] = d /\ l[2] = c
      /\ k \in Links /\ k[1] = c /\ k[2] = d /\ c # Lte /\ c # Ue /\ d # Lte
      /\ FreeRntis(c) # {} /\ SetContext(c, r, new)
      /\ lastRnti' = [lastRnti EXCEPT ![c] = r] /\ imsiRnti' = [imsiRnti EXCEPT ![c] = r]
      /\ Exchange({l}, On(k, <<m>>)) /\ UNCHANGED <<coordinator, lastCell, forwarding, ue>>
  BY <1>0, <1>1, Ends, CellsAreOthers DEF RecvHandoverRequest, RegisterImsiToRnti, decisionVars
<1>3. /\ h \in Flying(l) /\ h \in Message /\ h.type = "HandoverRequest" /\ h \in Carriers
      /\ CarrierFits(l, h) /\ link[l] # << >> /\ coordinator.cell # 0
      /\ coordinator.cell \in Cell /\ coordinator.rnti \in Rnti
      /\ context[coordinator.cell][coordinator.rnti] \in Context
      /\ imsiRnti[coordinator.cell] = coordinator.rnti
  BY <1>0, <1>2, HeadFits
<1>4. /\ d = coordinator.cell /\ h.old = coordinator.rnti /\ h.rlcs
      /\ UeAtSource /\ Serving("HANDOVER_PREPARATION")
  BY <1>2, <1>3 DEF CarrierFits
<1>5. r \in Rnti /\ context[c][r] = NoContext /\ h.rlcs \in BOOLEAN
  BY <1>0, <1>2, <1>3, AddUeFree, Fields DEF Typed
<1>6. /\ new \in Context /\ new.state = "HANDOVER_JOINING" /\ new.sourceRnti = coordinator.rnti
      /\ new.rlcRequests /\ new.rlc /\ new.joining # "expired"
  <2>1. h.old \in 0 .. MaxRnti
    BY <1>3, <1>4 DEF Rnti
  <2> QED BY <1>1, <1>4, <1>5, <2>1, NewContextType DEF NewContext
<1>7. m \in Message /\ m.type = "HandoverRequestAck" /\ m.old = coordinator.rnti /\ m.new = r
      /\ m \in Carriers
  BY <1>1, <1>3, <1>4, <1>5, Messages DEF OfType, HandoverRequestAck, Carriers
<1>8. context'[c][r] = new
      /\ \A e \in Cell, q \in Rnti : <<e, q>> # <<c, r>> => context'[e][q] = context[e][q]
  BY <1>2, <1>5, <1>6, ContextsType DEF Typed
<1>9. Proper(k, m)
  BY <1>2, <1>7 DEF Proper
<1>10. CarrierFits(k, m)'
  <2>1. UeAtSource' /\ Serving("HANDOVER_PREPARATION")'
    BY <1>2, <1>3, <1>4, <1>8 DEF UeAtSource, UeAt, Serving, Rnti
  <2>2. imsiRnti'[c] = r
    BY <1>2 DEF Typed, TypeOK
  <2>3. Joining(c, r, "HANDOVER_JOINING")'
    BY <1>2, <1>4, <1>5, <1>6, <1>8, <2>2 DEF Joining, Rnti
  <2> QED BY <1>2, <1>4, <1>7, <2>1, <2>3 DEF CarrierFits
<1>11. Invited(c, r)'
  <2>1. m \in Flying(k)'
    <3>1. /\ On(k, <<m>>) \in [Links -> Seq(Message)] /\ Each(On(k, <<m>>)[k]) = {m}
          /\ \A x \in {l} \cap Links : link[x] # << >>
      BY <1>2, <1>3, <1>7, SentOne
    <3>2. PICK sends : sends = On(k, <<m>>)
      OBVIOUS
    <3>3. Each(sends[k]) \subseteq Flying(k)'
      BY <1>2, <3>1, <3>2, FlyingAfter DEF Typed
    <3> QED BY <3>1, <3>2, <3>3
  <2>2. k = <<c, coordinator.cell>>' /\ m = HandoverRequestAck(coordinator.rnti, r)'
    BY <1>0, <1>1, <1>2, <1>4 DEF HandoverRequestAck
  <2> QED BY <1>2, <1>3, <1>4, <2>1, <2>2 DEF Invited
<1>12. /\ lastRnti' = imsiRnti' /\ c # coordinator.cell /\ ~Served(c, r)
       /\ context[c][r].state # "HANDOVER_LEAVING" /\ k[1] # Lte
       /\ new.state \in Arriving /\ new.state # "HANDOVER_LEAVING"
  BY <1>2, <1>4, <1>5, <1>6, NoContextIsNone DEF ContextInv, Known, Served, Arriving
<1>13. imsiRnti' \in {imsiRnti, [imsiRnti EXCEPT ![c] = r]}
  BY <1>2
<1> QED
  BY <1>2, <1>5, <1>6, <1>7, <1>9, <1>10, <1>11, <1>12, <1>13, CarryOn

LEMMA ArrivalFits ==
    ASSUME Typed, OnItsWay, ContextInv, NEW c \in Cell, RecvReconfigurationCompleted(c)
    PROVE  ContextInv'
<1>0. PICK l, h, r, k : l = <<Ue, c>> /\ h = Head(link[l]) /\ r = h.rnti /\ k = <<c, Lte>>
  OBVIOUS
<1>1. PICK new, m :
        /\ new = [context[c][r] EXCEPT !.state = "CONNECTED_NORMALLY",
                                       !.joining = IF @ = "running" THEN "idle" ELSE @]
        /\ m = SecondaryCellHandoverCompleted(r, context[c][r].sourceRnti)
  OBVIOUS
<1>2. /\ HeadIs(l, "ReconfigurationCompleted") /\ l \in Links /\ l[2] = c
      /\ k \in Links /\ k[1] = c /\ k[2] = Lte /\ c # Lte
      /\ UNCHANGED <<coordinator, lastCell, lastRnti, imsiRnti, forwarding, ue>>
  BY <1>0, Ends, CellsAreOthers DEF RecvReconfigurationCompleted, decisionVars
<1>3. /\ h \in Flying(l) /\ h \in Message /\ h.type = "ReconfigurationCompleted" /\ h \in Carriers
      /\ CarrierFits(l, h) /\ link[l] # << >> /\ coordinator.cell # 0
      /\ coordinator.cell \in Cell /\ coordinator.rnti \in Rnti
  BY <1>0, <1>2, HeadFits
<1>4. UeAt(c, r) /\ Serving("HANDOVER_LEAVING") /\ Joining(c, r, "HANDOVER_JOINING")
  BY <1>0, <1>2, <1>3 DEF CarrierFits
<1>5. /\ r \in Rnti /\ c # coordinator.cell /\ context[c][r].state = "HANDOVER_JOINING"
      /\ context[c][r].sourceRnti = coordinator.rnti /\ context[c][r].rlcRequests
      /\ imsiRnti[c] = r
  BY <1>4 DEF Joining
<1>6. context[c][r] \in Context /\ context[c][r].rlc /\ context[c][r].joining # "expired"
  <2>1. context[c][r] # NoContext
    BY <1>5, NoContextIsNone
  <2> QED BY <1>5, <2>1 DEF ContextInv, Owned, Typed, TypeOK
<1>7. SetContext(c, r, new) /\ Exchange({l}, On(k, <<m>>))
  BY <1>0, <1>1, <1>5 DEF RecvReconfigurationCompleted, ArrivalReport
<1>8. /\ new \in Context /\ new.state = "CONNECTED_NORMALLY" /\ new.rlc
      /\ new.joining # "expired" /\ new.rlcRequests /\ new.sourceRnti = coordinator.rnti
  BY <1>1, <1>5, <1>6 DEF Context
<1>9. /\ m \in Message /\ m.type = "SecondaryCellHandoverCompleted" /\ m.new = r
      /\ m.old = coordinator.rnti /\ m \in Carriers
  BY <1>1, <1>3, <1>5, Messages DEF OfType, SecondaryCellHandoverCompleted, Carriers
<1>10. context'[c][r] = new
      /\ \A e \in Cell, q \in Rnti : <<e, q>> # <<c, r>> => context'[e][q] = context[e][q]
  BY <1>5, <1>7, <1>8, ContextsType DEF Typed
<1>11. Proper(k, m)
  BY <1>2, <1>9 DEF Proper
<1>12. CarrierFits(k, m)'
  <2>1. UeAt(c, r)' /\ Serving("HANDOVER_LEAVING")'
    BY <1>2, <1>3, <1>4, <1>5, <1>10 DEF UeAt, Serving, Rnti
  <2>2. Joining(c, r, "CONNECTED_NORMALLY")'
    BY <1>2, <1>5, <1>8, <1>10 DEF Joining, Rnti
  <2> QED BY <1>2, <1>9, <2>1, <2>2 DEF CarrierFits
<1>13. /\ lastRnti' = imsiRnti' /\ ~Served(c, r) /\ k[1] # Lte
       /\ context[c][r] # NoContext /\ context[c][r].state # "HANDOVER_LEAVING"
       /\ imsiRnti' \in {imsiRnti, [imsiRnti EXCEPT ![c] = r]}
       /\ new.state \in Arriving /\ new.state # "HANDOVER_LEAVING"
  BY <1>2, <1>5, <1>6, <1>8, NoContextIsNone DEF ContextInv, Known, Served, Arriving
<1> QED
  BY <1>2, <1>5, <1>7, <1>8, <1>9, <1>11, <1>12, <1>13, CarryOn

\* A handler that changes no cell.
LEMMA CellsStay ==
    ASSUME Typed, ContextInv, NEW consumed, NEW sends \in [Links -> Seq(Message)],
           \A l \in consumed \cap Links : link[l] # << >>, Exchange(consumed, sends),
           UNCHANGED <<coordinator, lastCell, cellVars>>, coordinator.cell # 0,
           \A c \in Cell : sends[<<Lte, c>>] = << >>,
           \A x \in Links : \A m \in Each(sends[x]) :
              Proper(x, m) /\ m.type \notin {"UeContextRelease", "SnStatusTransfer"}
    PROVE  /\ Known' /\ AllProper' /\ InOrder'
           /\ StatusesFit' /\ ReleasesFit' /\ ForwardsWhileLeaving'
<1>1. UNCHANGED <<context, lastRnti, imsiRnti, forwarding>>
  BY DEF cellVars
<1>2. Known' /\ AllProper' /\ InOrder'
  <2>1. context'[coordinator.cell][coordinator.rnti] # NoContext /\ lastRnti' = imsiRnti'
    BY <1>1 DEF ContextInv, Known, ServedKnown, HasContext
  <2> QED BY <1>1, <2>1, HandlerKeeps
<1>3. ASSUME NEW x \in Links, NEW m \in Flying(x)' PROVE StatusFits(x, m)' /\ ReleaseFits(x, m)'
  <2>1. m \in Flying(x) \cup Each(sends[x])
    BY <1>3, FlyingAfter DEF Typed
  <2>2. CASE m \in Flying(x)
    <3>1. StatusFits(x, m) /\ ReleaseFits(x, m)
      BY <2>2 DEF ContextInv, StatusesFit, ReleasesFit
    <3> QED BY <1>1, <3>1 DEF StatusFits, ReleaseFits, Served, Serving, HasContext, Rnti, NoContext
  <2>3. CASE m \in Each(sends[x])
    BY <2>3 DEF StatusFits, ReleaseFits
  <2> QED BY <2>1, <2>2, <2>3
<1>4. ForwardsWhileLeaving'
  BY <1>1 DEF ContextInv, ForwardsWhileLeaving, Rnti
<1> QED BY <1>2, <1>3, <1>4 DEF StatusesFit, ReleasesFit

LEMMA CellsStayOwned ==
    ASSUME Typed, ContextInv, NEW consumed, NEW sends \in [Links -> Seq(Message)],
           \A l \in consumed \cap Links :
              link[l] # << >> /\ Head(link[l]).type # "UeContextRelease",
           Exchange(consumed, sends), UNCHANGED <<coordinator, context>>,
           \A c \in Cell, r \in Rnti : Invited(c, r) => Invited(c, r)'
    PROVE  Owned'
<1>1. ASSUME NEW c \in Cell, NEW r \in Rnti, Released(c, r) PROVE Released(c, r)'
  BY <1>1, ReleasedStays, Ends DEF Typed
<1> QED BY <1>1, OwnedAfter DEF ContextInv, Owned

LEMMA RejectFits ==
    ASSUME Typed, OnItsWay, ContextInv, NEW c \in Cell, NEW d \in Cell \ {c},
           RecvHandoverRequest(d, c), c \notin AdmittingCells
    PROVE  ContextInv'
<1>0. PICK l, h, k : l = <<d, c>> /\ h = Head(link[l]) /\ k = <<c, d>>
  OBVIOUS
<1>1. PICK m, sends : m = HandoverPreparationFailure(h.old) /\ sends = On(k, <<m>>)
  OBVIOUS
<1>2. /\ HeadIs(l, "HandoverRequest") /\ l \in Links /\ l[1] = d /\ l[2] = c
      /\ k \in Links /\ k[1] = c /\ k[2] = d /\ c # Lte /\ c # Ue /\ d # Lte
      /\ Exchange({l}, sends) /\ UNCHANGED <<coordinator, lastCell, cellVars, ue>>
  BY <1>0, <1>1, Ends, CellsAreOthers DEF RecvHandoverRequest, decisionVars, cellVars
<1>3. /\ h \in Flying(l) /\ h \in Message /\ h.type = "HandoverRequest" /\ h \in Carriers
      /\ CarrierFits(l, h) /\ link[l] # << >> /\ coordinator.cell # 0
      /\ coordinator.cell \in Cell /\ coordinator.rnti \in Rnti
  BY <1>0, <1>2, HeadFits
<1>4. /\ d = coordinator.cell /\ h.old = coordinator.rnti
      /\ UeAtSource /\ Serving("HANDOVER_PREPARATION")
  BY <1>2, <1>3 DEF CarrierFits
<1>5. /\ m \in Message /\ m.type = "HandoverPreparationFailure" /\ m.old = coordinator.rnti
      /\ m \in Carriers
  BY <1>1, <1>3, <1>4, Messages DEF OfType, HandoverPreparationFailure, Carriers
<1>6. /\ sends \in [Links -> Seq(Message)]
      /\ \A x \in Links : Each(sends[x]) = IF x = k THEN {m} ELSE {}
      /\ \A x \in Cell : sends[<<Lte, x>>] = << >>
  <2>1. /\ On(k, <<m>>) \in [Links -> Seq(Message)]
        /\ \A x \in Links : Each(On(k, <<m>>)[x]) = IF x = k THEN {m} ELSE {}
        /\ \A x \in Cell : On(k, <<m>>)[<<Lte, x>>] = << >>
    BY <1>2, <1>5, SentOne
  <2> QED BY <1>1, <2>1
<1>7. Proper(k, m)
  BY <1>2, <1>5 DEF Proper
<1>8. CarrierFits(k, m)'
  <2>1. UeAtSource' /\ Serving("HANDOVER_PREPARATION")'
    BY <1>2, <1>4 DEF UeAtSource, UeAt, Serving, Rnti, cellVars
  <2> QED BY <1>2, <1>4, <1>5, <2>1 DEF CarrierFits
<1>9. /\ \A x \in {l} \cap Links : link[x] # << >> /\ Head(link[x]).type = "HandoverRequest"
      /\ \A x \in Links : \A n \in Each(sends[x]) :
           /\ Proper(x, n) /\ CarrierFits(x, n)'
           /\ n.type \notin {"UeContextRelease", "SnStatusTransfer"}
  BY <1>0, <1>3, <1>5, <1>6, <1>7, <1>8
<1>10. /\ Known' /\ AllProper' /\ InOrder'
       /\ StatusesFit' /\ ReleasesFit' /\ ForwardsWhileLeaving'
  BY <1>2, <1>3, <1>6, <1>9, CellsStay
<1>11. CarriersFit'
  BY <1>0, <1>2, <1>3, <1>6, <1>9, CarriersAfter
<1>12. Owned'
  <2>1. \A a \in Cell, r \in Rnti : Invited(a, r) => Invited(a, r)'
    <3>1. ASSUME NEW a \in Cell, NEW r \in Rnti, Invited(a, r) PROVE Invited(a, r)'
      BY <1>2, <1>6, <1>9, <3>1, InvitedStays
    <3> QED BY <3>1
  <2>2. UNCHANGED <<coordinator, context>>
    BY <1>2 DEF cellVars
  <2> QED BY <1>2, <1>6, <1>9, <2>1, <2>2, CellsStayOwned
<1>13. AccessFits' /\ RestFits'
  <2>1. m \in Flying(k)'
    <3>1. Each(sends[k]) \subseteq Flying(k)'
      BY <1>2, <1>6, <1>9, FlyingAfter DEF Typed
    <3> QED BY <1>2, <1>6, <3>1
  <2>2. ue'.state = "CONNECTED_NORMALLY"
    BY <1>2, <1>4 DEF UeAtSource, UeAt
  <2> QED BY <1>2, <1>5, <2>1, <2>2, UnderWay
<1> QED BY <1>10, <1>11, <1>12, <1>13 DEF ContextInv

LEMMA FailureFits ==
    ASSUME Typed, OnItsWay, ContextInv, NEW c \in Cell, NEW d \in Cell \ {c},
           RecvHandoverPreparationFailure(d, c)
    PROVE  ContextInv'
<1>0. PICK l, h, r, sends : l = <<d, c>> /\ h = Head(link[l]) /\ r = h.old /\ sends = Nothing
  OBVIOUS
<1>1. PICK new : new = [context[c][r] EXCEPT
                          !.state = IF @ = "HANDOVER_PREPARATION" THEN "CONNECTED_NORMALLY" ELSE @]
  OBVIOUS
<1>2. /\ HeadIs(l, "HandoverPreparationFailure") /\ l \in Links /\ l[1] = d /\ l[2] = c
      /\ Exchange({l}, sends) /\ SetContext(c, r, new)
      /\ UNCHANGED <<coordinator, lastCell, lastRnti, imsiRnti, forwarding, ue, commanded, setup>>
  BY <1>0, <1>1, Ends DEF RecvHandoverPreparationFailure, decisionVars
<1>3. /\ h \in Flying(l) /\ h \in Message /\ h.type = "HandoverPreparationFailure"
      /\ h \in Carriers /\ Head(link[l]) = h
      /\ CarrierFits(l, h) /\ link[l] # << >> /\ coordinator.cell # 0
      /\ coordinator.cell \in Cell /\ coordinator.rnti \in Rnti
      /\ context[coordinator.cell][coordinator.rnti] \in Context
      /\ context[coordinator.cell][coordinator.rnti].rlc
      /\ context[coordinator.cell][coordinator.rnti].joining # "expired"
  BY <1>0, <1>2, HeadFits
<1>4. /\ c = coordinator.cell /\ r = coordinator.rnti
      /\ UeAtSource /\ Serving("HANDOVER_PREPARATION")
  BY <1>0, <1>2, <1>3 DEF CarrierFits
<1>5. context[c][r].state = "HANDOVER_PREPARATION" /\ Served(c, r)
  BY <1>4 DEF Serving, Served
<1>6. /\ new \in Context /\ new.state = "CONNECTED_NORMALLY" /\ new.rlc /\ new.joining # "expired"
  BY <1>1, <1>3, <1>4, <1>5 DEF Context
<1>7. context'[c][r] = new /\ new # NoContext
  BY <1>2, <1>3, <1>4, <1>6, ContextsType, NoContextIsNone DEF Typed
<1>8. /\ sends \in [Links -> Seq(Message)]
      /\ \A x \in Links : Each(sends[x]) = {} /\ sends[x] = << >> /\ None(sends[x], Carriers)
      /\ \A x \in Cell : sends[<<Lte, x>>] = << >>
  BY <1>0, SentNone, NothingSent, Ends
<1>9. /\ \A x \in {l} \cap Links :
            link[x] # << >> /\ Head(link[x]).type = "HandoverPreparationFailure"
      /\ \A x \in Links : \A n \in Each(sends[x]) :
           /\ Proper(x, n) /\ CarrierFits(x, n)' /\ StatusFits(x, n)'
           /\ n.type # "UeContextRelease"
  BY <1>3, <1>8
<1>10. Known' /\ AllProper' /\ InOrder'
  <2>1. lastRnti' = imsiRnti'
    BY <1>2 DEF ContextInv, Known
  <2> QED BY <1>2, <1>3, <1>4, <1>7, <1>8, <1>9, <2>1, HandlerKeeps
<1>11. CarriersFit'
  BY <1>2, <1>3, <1>8, <1>9, CarriersAfter
<1>12. StatusesFit' /\ ReleasesFit'
  <2>1. ~Released(c, r) /\ new.state \in Arriving
    BY <1>3, <1>4, <1>5, <1>6, ReleasedLeaves DEF Arriving
  <2>2. imsiRnti' \in {imsiRnti, [imsiRnti EXCEPT ![c] = r]}
    BY <1>2
  <2> QED BY <1>2, <1>3, <1>4, <1>6, <1>8, <1>9, <2>1, <2>2, SetFits
<1>13. ForwardsWhileLeaving'
  BY <1>2, <1>3, <1>4, <1>5, <1>6, SetForwards
<1>14. Owned'
  <2>1. context[c][r] # NoContext
    BY <1>5, NoContextIsNone
  <2>2. \A x \in {l} \cap Links :
           /\ link[x] # << >>
           /\ Head(link[x]).type \notin
                {"HandoverRequestAck", "HandoverCommand", "UeContextRelease"}
    BY <1>9
  <2> QED BY <1>2, <1>3, <1>4, <1>6, <1>8, <2>1, <2>2, SetOwned
<1>15. Waiting'
  <2>1. Waiting
    BY <1>2, <1>3, <1>8, Consume DEF Typed
  <2> QED BY <1>2, <2>1 DEF Waiting
<1>16. AccessFits' /\ RestFits'
  <2>1. UeAtSource' /\ Serving("CONNECTED_NORMALLY")'
    BY <1>2, <1>3, <1>4, <1>6, <1>7 DEF UeAtSource, UeAt, Serving, Rnti
  <2> QED BY <1>15, <2>1 DEF AccessFits, RestFits, UeAtSource, UeAt
<1> QED BY <1>10, <1>11, <1>12, <1>13, <1>14, <1>16 DEF ContextInv

LEMMA AckFits ==
    ASSUME Typed, OnItsWay, ContextInv, NEW c \in Cell, NEW d \in Cell \ {c},
           RecvHandoverRequestAck(d, c)
    PROVE  ContextInv'
<1>0. PICK l, h, r, k, j : /\ l = <<d, c>> /\ h = Head(link[l]) /\ r = h.old
                           /\ k = <<c, Ue>> /\ j = <<c, d>>
  OBVIOUS
<1>1. PICK new, m, n, sends :
        /\ new = [context[c][r] EXCEPT !.state = "HANDOVER_LEAVING"]
        /\ m = HandoverCommand(d, h.new) /\ n = SnStatusTransfer(h.new)
        /\ sends = [On(k, <<m>>) EXCEPT ![j] = <<n>>]
  OBVIOUS
<1>2. /\ HeadIs(l, "HandoverRequestAck") /\ l \in Links /\ l[1] = d /\ l[2] = c
      /\ k \in Links /\ k[1] = c /\ k[2] = Ue /\ j \in Links /\ j[1] = c /\ j[2] = d /\ j # k
      /\ c # Lte /\ c # Ue /\ d # Lte /\ d # Ue
      /\ Exchange({l}, sends) /\ SetContext(c, r, new)
      /\ UNCHANGED <<coordinator, lastCell, lastRnti, imsiRnti, ue>>
  BY <1>0, <1>1, Ends, CellsAreOthers DEF RecvHandoverRequestAck, decisionVars
<1>3. /\ h \in Flying(l) /\ h \in Message /\ h.type = "HandoverRequestAck"
      /\ h \in Carriers /\ Head(link[l]) = h
      /\ CarrierFits(l, h) /\ link[l] # << >> /\ coordinator.cell # 0
      /\ coordinator.cell \in Cell /\ coordinator.rnti \in Rnti
      /\ context[coordinator.cell][coordinator.rnti] \in Context
      /\ context[coordinator.cell][coordinator.rnti].rlc
      /\ context[coordinator.cell][coordinator.rnti].joining # "expired"
  BY <1>0, <1>2, HeadFits
<1>4. /\ c = coordinator.cell /\ r = coordinator.rnti
      /\ UeAtSource /\ Serving("HANDOVER_PREPARATION")
      /\ Joining(d, h.new, "HANDOVER_JOINING")
  BY <1>0, <1>2, <1>3 DEF CarrierFits
<1>5. /\ context[c][r].state = "HANDOVER_PREPARATION" /\ Served(c, r) /\ h.new \in Rnti
      /\ context[d][h.new].state = "HANDOVER_JOINING"
  BY <1>4 DEF Serving, Served, Joining
<1>6. /\ new \in Context /\ new.state = "HANDOVER_LEAVING" /\ new.rlc /\ new.joining # "expired"
  BY <1>1, <1>3, <1>4, <1>5 DEF Context
<1>7. /\ context'[c][r] = new /\ new # NoContext
      /\ \A e \in Cell, q \in Rnti : <<e, q>> # <<c, r>> => context'[e][q] = context[e][q]
  BY <1>2, <1>3, <1>4, <1>6, ContextsType, NoContextIsNone DEF Typed
<1>8. /\ m \in Message /\ m.type = "HandoverCommand" /\ m.target = d /\ m.new = h.new
      /\ n \in Message /\ n.type = "SnStatusTransfer" /\ n.new = h.new
  BY <1>1, <1>5, Messages DEF OfType, HandoverCommand, SnStatusTransfer
<1>9. /\ sends \in [Links -> Seq(Message)]
      /\ \A x \in Links : Each(sends[x]) = IF x = k THEN {m} ELSE IF x = j THEN {n} ELSE {}
      /\ \A x \in Cell : sends[<<Lte, x>>] = << >>
  <2>1. PICK f : f = On(k, <<m>>)
    OBVIOUS
  <2>2. /\ f \in [Links -> Seq(Message)]
        /\ \A x \in Links : Each(f[x]) = IF x = k THEN {m} ELSE {}
        /\ \A x \in Cell : f[<<Lte, x>>] = << >>
    <3>1. /\ On(k, <<m>>) \in [Links -> Seq(Message)]
          /\ \A x \in Links : Each(On(k, <<m>>)[x]) = IF x = k THEN {m} ELSE {}
          /\ \A x \in Cell : On(k, <<m>>)[<<Lte, x>>] = << >>
      BY <1>2, <1>8, SentOne
    <3> QED BY <2>1, <3>1
  <2>3. sends = [f EXCEPT ![j] = <<n>>] /\ <<n>> \in Seq(Message) /\ Each(<<n>>) = {n}
    BY <1>1, <1>8, <2>1, EachOf
  <2>4. \A x \in Links : sends[x] = IF x = j THEN <<n>> ELSE f[x]
    BY <2>2, <2>3
  <2>5. \A x : <<Lte, x>>[1] = Lte
    OBVIOUS
  <2>6. \A x \in Cell : <<Lte, x>> # j /\ <<Lte, x>> \in Links
    BY <1>2, <2>5, Ends
  <2>7. sends \in [Links -> Seq(Message)]
    BY <2>2, <2>3
  <2> QED BY <1>2, <2>2, <2>3, <2>4, <2>6, <2>7
<1>10. /\ \A x \in {l} \cap Links :
            link[x] # << >> /\ Head(link[x]).type = "HandoverRequestAck"
       /\ \A x \in Links : \A y \in Flying(x) \cap Carriers : x = l /\ y = h
  BY <1>2, <1>3, <1>9, TheCarrier DEF Typed
<1>11. UeAtSource' /\ Serving("HANDOVER_LEAVING")' /\ Joining(d, h.new, "HANDOVER_JOINING")'
  <2>1. UeAtSource' /\ Serving("HANDOVER_LEAVING")'
    BY <1>2, <1>3, <1>4, <1>6, <1>7 DEF UeAtSource, UeAt, Serving, Rnti
  <2>2. context'[d][h.new] = context[d][h.new]
    BY <1>2, <1>5, <1>7
  <2> QED BY <1>2, <1>4, <2>1, <2>2 DEF Joining, Rnti
<1>12. \A x \in Links : \A y \in Each(sends[x]) :
          /\ Proper(x, y) /\ CarrierFits(x, y)' /\ StatusFits(x, y)'
          /\ y.type # "UeContextRelease"
  <2>1. Proper(k, m) /\ Proper(j, n)
    BY <1>2, <1>8 DEF Proper
  <2>2. CarrierFits(k, m)' /\ CarrierFits(j, n)'
    BY <1>2, <1>4, <1>8, <1>11 DEF CarrierFits
  <2>3. context'[d][h.new].state = "HANDOVER_JOINING"
    BY <1>11 DEF Joining
  <2>4. StatusFits(k, m)' /\ StatusFits(j, n)'
    BY <1>2, <1>8, <2>3 DEF StatusFits
  <2> QED BY <1>8, <1>9, <2>1, <2>2, <2>4
<1>13. Known' /\ AllProper' /\ InOrder'
  <2>1. lastRnti' = imsiRnti'
    BY <1>2 DEF ContextInv, Known
  <2> QED BY <1>2, <1>3, <1>4, <1>7, <1>9, <1>10, <1>12, <2>1, HandlerKeeps
<1>14. CarriersFit'
  BY <1>2, <1>3, <1>9, <1>12, CarriersAfter
<1>15. \A q \in Rnti : ~Released(c, q)
  BY <1>3, <1>4, ReleasedLeaves DEF Serving
<1>16. StatusesFit' /\ ReleasesFit'
  <2>1. \A x \in Links : \A y \in Flying(x) : ~(y.type = "SnStatusTransfer" /\ x[2] = c /\ y.new = r)
    BY <1>5, StatusIs
  <2>2. imsiRnti' \in {imsiRnti, [imsiRnti EXCEPT ![c] = r]}
    BY <1>2
  <2>3. /\ r \in Rnti /\ sends \in [Links -> Seq(Message)]
        /\ \A x \in {l} \cap Links : link[x] # << >>
        /\ \A x \in Links : \A y \in Each(sends[x]) :
              StatusFits(x, y)' /\ y.type # "UeContextRelease"
        /\ ~Released(c, r)
        /\ \A x \in Links : \A y \in Flying(x) :
              y.type = "SnStatusTransfer" /\ x[2] = c /\ y.new = r => new.state \in Arriving
    BY <1>3, <1>4, <1>9, <1>10, <1>12, <1>15, <2>1
  <2> QED BY <1>2, <1>6, <1>15, <2>2, <2>3, SetFits
<1>17. ForwardsWhileLeaving'
  <2>1. forwarding' = [forwarding EXCEPT ![c] = d]
    BY <1>0, <1>3, <1>4 DEF RecvHandoverRequestAck
  <2>2. forwarding'[c] = d /\ d # 0
    BY <1>2, <2>1 DEF Typed, TypeOK, Lte
  <2>3. ASSUME NEW e \in Cell
        PROVE  forwarding'[e] # 0 <=> \E q \in Rnti : context'[e][q].state = "HANDOVER_LEAVING"
    <3>1. CASE e = c
      BY <1>3, <1>4, <1>6, <1>7, <2>2, <3>1
    <3>2. CASE e # c
      <4>1. forwarding'[e] = forwarding[e] /\ \A q \in Rnti : context'[e][q] = context[e][q]
        BY <1>7, <2>1, <3>2 DEF Typed, TypeOK
      <4> QED BY <4>1 DEF ContextInv, ForwardsWhileLeaving
    <3> QED BY <3>1, <3>2
  <2> QED BY <2>3 DEF ForwardsWhileLeaving, Rnti
<1>18. Invited(d, h.new)'
  <2>1. m \in Flying(k)'
    <3>1. Each(sends[k]) \subseteq Flying(k)'
      BY <1>2, <1>9, <1>10, FlyingAfter DEF Typed
    <3> QED BY <1>2, <1>9, <3>1
  <2>2. k = <<coordinator.cell, Ue>>' /\ m = HandoverCommand(d, h.new)'
    BY <1>0, <1>1, <1>2, <1>4 DEF HandoverCommand, Ue
  <2> QED BY <1>2, <1>3, <2>1, <2>2 DEF Invited
<1>19. Owned'
  <2>1. ASSUME NEW e \in Cell, NEW q \in Rnti, Invited(e, q) PROVE e = d /\ q = h.new
    <3>1. CASE ue.cell # coordinator.cell
      BY <1>4, <3>1 DEF UeAtSource, UeAt
    <3>2. CASE e # coordinator.cell /\ HandoverRequestAck(coordinator.rnti, q) \in Flying(<<e, c>>)
      <4> DEFINE y == HandoverRequestAck(coordinator.rnti, q)
      <4>1. y \in Carriers /\ y.new = q
        BY <1>3, Messages DEF OfType, Carriers, HandoverRequestAck
      <4>2. <<e, c>> = l /\ y = h
        BY <1>4, <1>10, <3>2, <4>1, Ends
      <4> QED BY <1>0, <4>1, <4>2
    <3>3. CASE HandoverCommand(e, q) \in Flying(<<c, Ue>>)
      <4>1. HandoverCommand(e, q) \in Carriers
        BY Messages DEF OfType, Carriers
      <4>2. k = l
        BY <1>0, <1>2, <1>10, <3>3, <4>1
      <4> QED BY <1>2, <4>2
    <3> QED BY <1>4, <2>1, <3>1, <3>2, <3>3 DEF Invited
  <2>2. ASSUME NEW e \in Cell, NEW q \in Rnti, Released(e, q) PROVE Released(e, q)'
    BY <1>2, <1>9, <1>10, <2>2, ReleasedStays, Ends DEF Typed
  <2>3. ASSUME NEW e \in Cell, NEW q \in Rnti, context'[e][q] # NoContext
        PROVE  /\ context'[e][q].rlc /\ context'[e][q].joining # "expired"
               /\ context[e][q] # NoContext
    <3>1. CASE e = c /\ q = r
      BY <1>3, <1>4, <1>6, <1>7, <3>1, NoContextIsNone
    <3>2. CASE ~(e = c /\ q = r)
      <4>1. context'[e][q] = context[e][q]
        BY <1>7, <3>2
      <4> QED BY <2>3, <4>1 DEF ContextInv, Owned
    <3> QED BY <3>1, <3>2
  <2>4. \A e \in Cell, q \in Rnti : Invited(e, q) => Invited(e, q)'
    BY <1>18, <2>1
  <2> QED BY <1>2, <2>2, <2>3, <2>4, OwnedAfter
<1>20. AccessFits' /\ RestFits'
  <2>1. m \in Flying(k)' /\ m \in Carriers
    <3>1. Each(sends[k]) \subseteq Flying(k)'
      BY <1>2, <1>9, <1>10, FlyingAfter DEF Typed
    <3> QED BY <1>2, <1>8, <1>9, <3>1 DEF Carriers
  <2>2. ue'.state = "CONNECTED_NORMALLY"
    BY <1>2, <1>4 DEF UeAtSource, UeAt
  <2> QED BY <1>2, <2>1, <2>2, UnderWay
<1> QED BY <1>13, <1>14, <1>16, <1>17, <1>19, <1>20 DEF ContextInv

LEMMA CommandFits ==
    ASSUME Typed, OnItsWay, ContextInv, NEW c \in Cell, UeRecvHandoverCommand(c)
    PROVE  ContextInv'
<1>0. PICK l, h, sends : l = <<c, Ue>> /\ h = Head(link[l]) /\ sends = Nothing
  OBVIOUS
<1>1. /\ HeadIs(l, "HandoverCommand") /\ l \in Links /\ l[1] = c /\ Exchange({l}, sends)
      /\ UNCHANGED <<coordinator, lastCell, cellVars>>
      /\ ue' = [ue EXCEPT !.state = "CONNECTED_HANDOVER", !.cell = h.target, !.rnti = h.new]
  BY <1>0, Ends DEF UeRecvHandoverCommand, decisionVars
<1>2. /\ h \in Flying(l) /\ h \in Message /\ h.type = "HandoverCommand"
      /\ h \in Carriers /\ Head(link[l]) = h
      /\ CarrierFits(l, h) /\ link[l] # << >> /\ coordinator.cell # 0
      /\ coordinator.cell \in Cell /\ coordinator.rnti \in Rnti
  BY <1>0, <1>1, HeadFits
<1>3. /\ c = coordinator.cell /\ UeAtSource /\ Serving("HANDOVER_LEAVING")
      /\ Joining(h.target, h.new, "HANDOVER_JOINING")
  BY <1>1, <1>2 DEF CarrierFits
<1>4. ue'.state = "CONNECTED_HANDOVER" /\ ue'.cell = h.target /\ ue'.rnti = h.new
  BY <1>1 DEF Typed, TypeOK
<1>5. /\ sends \in [Links -> Seq(Message)]
      /\ \A x \in Links : Each(sends[x]) = {} /\ sends[x] = << >>
      /\ \A x \in Cell : sends[<<Lte, x>>] = << >>
  BY <1>0, SentNone, Ends
<1>6. /\ \A x \in {l} \cap Links : link[x] # << >> /\ Head(link[x]).type = "HandoverCommand"
      /\ \A x \in Links : \A n \in Each(sends[x]) :
           /\ Proper(x, n) /\ CarrierFits(x, n)'
           /\ n.type \notin {"UeContextRelease", "SnStatusTransfer"}
      /\ \A x \in Links : \A y \in Flying(x) \cap Carriers : x = l /\ y = h
  BY <1>1, <1>2, <1>5, TheCarrier DEF Typed
<1>7. /\ Known' /\ AllProper' /\ InOrder'
      /\ StatusesFit' /\ ReleasesFit' /\ ForwardsWhileLeaving'
  BY <1>1, <1>2, <1>5, <1>6, CellsStay
<1>8. CarriersFit'
  BY <1>1, <1>2, <1>5, <1>6, CarriersAfter
<1>9. AccessFits' /\ RestFits'
  BY <1>1, <1>3, <1>4 DEF AccessFits, RestFits, Serving, Joining, Rnti, cellVars
<1>10. Owned'
  <2>1. ASSUME NEW e \in Cell, NEW q \in Rnti, Invited(e, q) PROVE e = h.target /\ q = h.new
    <3>1. CASE ue.cell # coordinator.cell
      BY <1>3, <3>1 DEF UeAtSource, UeAt
    <3>2. CASE e # coordinator.cell /\ HandoverRequestAck(coordinator.rnti, q) \in Flying(<<e, c>>)
      <4> DEFINE y == HandoverRequestAck(coordinator.rnti, q)
      <4>1. y \in Carriers /\ y.type = "HandoverRequestAck"
        BY <1>2, Messages DEF OfType, Carriers, HandoverRequestAck
      <4>2. y = h
        BY <1>3, <1>6, <3>2, <4>1, Ends
      <4> QED BY <1>2, <4>1, <4>2
    <3>3. CASE HandoverCommand(e, q) \in Flying(l)
      <4> DEFINE y == HandoverCommand(e, q)
      <4>1. y \in Carriers /\ y.target = e /\ y.new = q
        BY Messages DEF OfType, Carriers, HandoverCommand
      <4>2. y = h
        BY <1>1, <1>6, <3>3, <4>1
      <4> QED BY <4>1, <4>2
    <3> QED BY <1>0, <1>3, <2>1, <3>1, <3>2, <3>3 DEF Invited
  <2>2. Invited(h.target, h.new)'
    BY <1>1, <1>3, <1>4 DEF Invited, Joining
  <2>3. \A e \in Cell, q \in Rnti : Invited(e, q) => Invited(e, q)'
    BY <2>1, <2>2
  <2>4. UNCHANGED <<coordinator, context>>
    BY <1>1 DEF cellVars
  <2> QED BY <1>1, <1>5, <1>6, <2>3, <2>4, CellsStayOwned
<1> QED BY <1>7, <1>8, <1>9, <1>10 DEF ContextInv

LEMMA AccessSucceeds ==
    ASSUME Typed, OnItsWay, ContextInv, UeRandomAccessSuccessful
    PROVE  ContextInv'
<1>1. /\ ue.state = "CONNECTED_HANDOVER"
      /\ UNCHANGED <<coordinator, lastCell, cellVars>>
      /\ ue' = [ue EXCEPT !.state = "CONNECTED_NORMALLY"]
  BY DEF UeRandomAccessSuccessful, decisionVars
<1>2. PICK k, m, sends : /\ k = <<Ue, ue.cell>> /\ m = ReconfigurationCompleted(ue.rnti)
                         /\ sends = On(k, <<m>>)
  OBVIOUS
<1>3. Serving("HANDOVER_LEAVING") /\ Joining(ue.cell, ue.rnti, "HANDOVER_JOINING")
  BY <1>1 DEF ContextInv, AccessFits
<1>4. /\ ue.cell \in Cell /\ ue.rnti \in Rnti /\ k \in Links /\ k[1] = Ue /\ k[2] = ue.cell
      /\ Ue # Lte /\ coordinator.cell \in Cell /\ coordinator.cell # 0
  <2>1. ue.cell \in Cell /\ ue.rnti \in Rnti /\ coordinator.cell \in Cell
    BY <1>3 DEF Joining, Serving
  <2>2. k \in Links /\ k[1] = Ue /\ k[2] = ue.cell
    BY <1>2, <2>1, Ends
  <2>3. coordinator.cell # 0 /\ Ue # Lte
    BY <2>1, CellsAreOthers DEF Lte, Ue
  <2> QED BY <2>1, <2>2, <2>3
<1>5. /\ m \in Message /\ m.type = "ReconfigurationCompleted" /\ m.rnti = ue.rnti
      /\ m \in Carriers
  BY <1>2, <1>4, Messages DEF OfType, ReconfigurationCompleted, Carriers
<1>6. /\ sends \in [Links -> Seq(Message)]
      /\ \A x \in Links : Each(sends[x]) = IF x = k THEN {m} ELSE {}
      /\ \A x \in Cell : sends[<<Lte, x>>] = << >>
  <2>1. /\ On(k, <<m>>) \in [Links -> Seq(Message)]
        /\ \A x \in Links : Each(On(k, <<m>>)[x]) = IF x = k THEN {m} ELSE {}
        /\ \A x \in Cell : On(k, <<m>>)[<<Lte, x>>] = << >>
    BY <1>4, <1>5, SentOne
  <2> QED BY <1>2, <2>1
<1>7. Exchange({}, sends)
  BY <1>2 DEF UeRandomAccessSuccessful
<1>8. Proper(k, m)
  BY <1>4, <1>5 DEF Proper
<1>9. ue'.state = "CONNECTED_NORMALLY" /\ ue'.cell = ue.cell /\ ue'.rnti = ue.rnti
  BY <1>1 DEF Typed, TypeOK
<1>10. CarrierFits(k, m)'
  <2>1. UeAt(ue.cell, ue.rnti)'
    BY <1>9 DEF UeAt
  <2>2. Serving("HANDOVER_LEAVING")'
    BY <1>1, <1>3 DEF Serving, Rnti, cellVars
  <2>3. PICK d, q : d = ue.cell /\ q = ue.rnti
    OBVIOUS
  <2>4. Joining(d, q, "HANDOVER_JOINING")'
    BY <1>1, <1>3, <2>3 DEF Joining, Rnti, cellVars
  <2>5. UeAt(d, q)' /\ k[2] = d /\ m.rnti = q
    BY <1>4, <1>5, <2>3, <1>9 DEF UeAt
  <2> QED BY <1>5, <2>2, <2>4, <2>5 DEF CarrierFits
<1>11. /\ \A x \in {} \cap Links : link[x] # << >> /\ Head(link[x]).type # "UeContextRelease"
       /\ \A x \in Links : \A n \in Each(sends[x]) :
            /\ Proper(x, n) /\ CarrierFits(x, n)'
            /\ n.type \notin {"UeContextRelease", "SnStatusTransfer"}
  BY <1>5, <1>6, <1>8, <1>10
<1>12. \A x \in {} \cap Links : link[x] # << >>
  OBVIOUS
<1>13. /\ Known' /\ AllProper' /\ InOrder'
       /\ StatusesFit' /\ ReleasesFit' /\ ForwardsWhileLeaving'
  BY <1>1, <1>4, <1>6, <1>7, <1>11, <1>12, CellsStay
<1>14. CarriersFit'
  <2>1. ASSUME NEW x \in Links, NEW n \in Flying(x)' PROVE CarrierFits(x, n)'
    <3>1. n \in Flying(x) \cup Each(sends[x]) /\ Flying(x) \subseteq Message
      BY <1>6, <1>7, <1>12, <2>1, FlyingAfter DEF Typed
    <3>2. CASE n \in Flying(x)
      <4>1. n \notin Carriers
        BY <1>1, <3>2, NoCarrier
      <4> QED BY <3>1, <3>2, <4>1, OthersFit
    <3>3. CASE n \in Each(sends[x])
      BY <1>11, <3>3
    <3> QED BY <3>1, <3>2, <3>3
  <2> QED BY <2>1 DEF CarriersFit
<1>15. Owned'
  <2>1. ASSUME NEW e \in Cell, NEW q \in Rnti, Invited(e, q) PROVE Invited(e, q)'
    <3>1. \A x \in {} \cap Links :
             /\ link[x] # << >>
             /\ Head(link[x]).type \notin {"HandoverRequestAck", "HandoverCommand"}
      OBVIOUS
    <3>2. UNCHANGED <<coordinator, ue.cell, ue.rnti>>
      BY <1>1, <1>9
    <3> QED BY <1>6, <1>7, <2>1, <3>1, <3>2, InvitedStays
  <2>2. UNCHANGED <<coordinator, context>>
    BY <1>1 DEF cellVars
  <2> QED BY <1>6, <1>7, <1>11, <2>1, <2>2, CellsStayOwned
<1>16. AccessFits' /\ RestFits'
  <2>1. m \in Flying(k)'
    <3>1. Each(sends[k]) \subseteq Flying(k)'
      BY <1>4, <1>6, <1>7, <1>12, FlyingAfter DEF Typed
    <3> QED BY <1>4, <1>6, <3>1
  <2> QED BY <1>4, <1>5, <1>9, <2>1, UnderWay
<1> QED BY <1>13, <1>14, <1>15, <1>16 DEF ContextInv

-----------------------------------------------------------------------------
\* The handlers of the messages that have no part in the handover itself.
LEMMA StaysAlone ==
    ASSUME UNCHANGED <<coordinator, context, imsiRnti, ue.state, ue.cell, ue.rnti>>
    PROVE  Stays
  BY DEF Stays, Serving, Passes, Joining, Rnti

LEMMA BystandersFit ==
    ASSUME Typed, OnItsWay, ContextInv, NEW l \in Links, link[l] # << >>,
           Head(link[l]).type \in {"SnStatusTransfer", "RrcConnectionSwitch"},
           Exchange({l}, Nothing),
           UNCHANGED <<coordinator, lastCell, cellVars, ue.state, ue.cell, ue.rnti>>,
           Waiting => Waiting'
    PROVE  ContextInv'
<1>1. PICK sends : sends = Nothing
  OBVIOUS
<1>2. /\ sends \in [Links -> Seq(Message)]
      /\ \A x \in Links : Each(sends[x]) = {} /\ sends[x] = << >>
      /\ \A x \in Cell : sends[<<Lte, x>>] = << >>
      /\ Exchange({l}, sends)
  BY <1>1, SentNone, Ends
<1>3. coordinator.cell # 0
  BY DEF ContextInv, Known, BeforeConnect
<1>4. /\ \A x \in {l} \cap Links :
            /\ link[x] # << >>
            /\ Head(link[x]).type \in {"SnStatusTransfer", "RrcConnectionSwitch"}
      /\ \A x \in Links : \A n \in Each(sends[x]) :
           Proper(x, n) /\ n.type \notin {"UeContextRelease", "SnStatusTransfer"}
  BY <1>2
<1>5. /\ Known' /\ AllProper' /\ InOrder'
      /\ StatusesFit' /\ ReleasesFit' /\ ForwardsWhileLeaving'
  BY <1>2, <1>3, <1>4, CellsStay
<1>6. Owned'
  <2>1. ASSUME NEW e \in Cell, NEW q \in Rnti, Invited(e, q) PROVE Invited(e, q)'
    <3>1. \A x \in {l} \cap Links :
             /\ link[x] # << >>
             /\ Head(link[x]).type \notin {"HandoverRequestAck", "HandoverCommand"}
      BY <1>4
    <3> QED BY <1>2, <2>1, <3>1, InvitedStays
  <2>2. UNCHANGED <<coordinator, context>>
    BY DEF cellVars
  <2> QED BY <1>2, <1>4, <2>1, <2>2, CellsStayOwned
<1>7. Stays
  BY StaysAlone DEF cellVars
<1>8. CarriersFit' /\ AccessFits' /\ RestFits'
  <2>1. \A x \in {l} \cap Links : link[x] # << >> /\ Head(link[x]) \notin Carriers
    BY <1>4 DEF Carriers
  <2>2. \A x \in Links : Each(sends[x]) \cap Carriers = {}
    BY <1>2
  <2> QED BY <1>2, <1>7, <2>1, <2>2, BystanderFits
<1> QED BY <1>5, <1>6, <1>8 DEF ContextInv

LEMMA SnStatusFits ==
    ASSUME Typed, OnItsWay, ContextInv, NEW c \in Cell, NEW d \in Cell \ {c},
           RecvSnStatusTransfer(d, c)
    PROVE  ContextInv'
<1>0. PICK l, sends : l = <<d, c>> /\ sends = Nothing
  OBVIOUS
<1>1. /\ HeadIs(l, "SnStatusTransfer") /\ l \in Links /\ Exchange({l}, sends)
      /\ UNCHANGED <<coordinator, lastCell, setup, cellVars, ue>>
  BY <1>0, Ends DEF RecvSnStatusTransfer, decisionVars
<1>2. Head(link[l]) \in Flying(l) /\ Head(link[l]).type = "SnStatusTransfer" /\ link[l] # << >>
  BY <1>1, HeadFlies DEF OfType, HeadIs
<1> QED BY <1>0, <1>1, <1>2, BystandersFit DEF Waiting

LEMMA RrcSwitchFits ==
    ASSUME Typed, OnItsWay, ContextInv, UeRecvRrcConnectionSwitch
    PROVE  ContextInv'
<1>0. PICK l, sends : l = <<Lte, Ue>> /\ sends = Nothing
  OBVIOUS
<1>1. /\ HeadIs(l, "RrcConnectionSwitch") /\ l \in Links /\ Exchange({l}, sends)
      /\ UNCHANGED <<coordinator, lastCell, setup, cellVars>>
  BY <1>0, Ends DEF UeRecvRrcConnectionSwitch, decisionVars
<1>2. Head(link[l]) \in Flying(l) /\ Head(link[l]).type = "RrcConnectionSwitch" /\ link[l] # << >>
  BY <1>1, HeadFlies DEF OfType, HeadIs
<1>3. UNCHANGED <<ue.state, ue.cell, ue.rnti>>
  BY DEF UeRecvRrcConnectionSwitch, Typed, TypeOK
<1> QED BY <1>0, <1>1, <1>2, <1>3, BystandersFit DEF Waiting

LEMMA SwitchFits ==
    ASSUME Typed, OnItsWay, ContextInv, NEW c \in Cell, RecvConnectionSwitchToMmWave(c)
    PROVE  ContextInv'
<1>0. PICK l, h, r, sends : l = <<Lte, c>> /\ h = Head(link[l]) /\ r = h.rnti /\ sends = Nothing
  OBVIOUS
<1>1. PICK new : new = [context[c][r] EXCEPT !.target = Lte]
  OBVIOUS
<1>2. /\ HeadIs(l, "ConnectionSwitch") /\ l \in Links /\ Exchange({l}, sends)
      /\ HasContext(c, r) /\ SetContext(c, r, new)
      /\ UNCHANGED <<coordinator, lastCell, lastRnti, imsiRnti, forwarding, ue, setup>>
  BY <1>0, <1>1, Ends DEF RecvConnectionSwitchToMmWave, decisionVars
<1>3. h \in Flying(l) /\ h.type = "ConnectionSwitch" /\ link[l] # << >> /\ Head(link[l]) = h
  BY <1>0, <1>2, HeadFlies DEF OfType, HeadIs
<1>4. r \in Rnti /\ context[c][r] \in Context /\ context[c][r] # NoContext
  BY <1>2, ContextHere, NoContextIsNone DEF Typed
<1>5. /\ new \in Context /\ new.state = context[c][r].state /\ new.rlc = context[c][r].rlc
      /\ new.joining = context[c][r].joining /\ new.rlcRequests = context[c][r].rlcRequests
      /\ new.sourceRnti = context[c][r].sourceRnti
  BY <1>1, <1>4 DEF Context, Lte
<1>6. /\ context'[c][r] = new /\ new # NoContext
      /\ \A e \in Cell, q \in Rnti : <<e, q>> # <<c, r>> => context'[e][q] = context[e][q]
  BY <1>2, <1>4, <1>5, ContextsType, NoContextIsNone DEF Typed
<1>7. \A e \in Cell, q \in Rnti :
         /\ context'[e][q].state = context[e][q].state
         /\ context'[e][q].rlcRequests = context[e][q].rlcRequests
         /\ context'[e][q].sourceRnti = context[e][q].sourceRnti
         /\ context'[e][q] = NoContext <=> context[e][q] = NoContext
  BY <1>4, <1>5, <1>6
<1>8. /\ sends \in [Links -> Seq(Message)]
      /\ \A x \in Links : Each(sends[x]) = {} /\ sends[x] = << >>
      /\ \A x \in Cell : sends[<<Lte, x>>] = << >>
  BY <1>0, SentNone, Ends
<1>9. /\ \A x \in {l} \cap Links : link[x] # << >> /\ Head(link[x]).type = "ConnectionSwitch"
      /\ \A x \in Links : \A n \in Each(sends[x]) :
           Proper(x, n) /\ StatusFits(x, n)' /\ n.type # "UeContextRelease"
  BY <1>3, <1>8
<1>10. coordinator.cell \in Cell /\ coordinator.rnti \in Rnti /\ coordinator.cell # 0
       /\ context[coordinator.cell][coordinator.rnti] # NoContext
  BY <1>2, <1>3, Flies, CellsAreOthers, NoContextIsNone DEF ContextInv, Lte
<1>11. Known' /\ AllProper' /\ InOrder'
  <2>1. lastRnti' = imsiRnti'
    BY <1>2 DEF ContextInv, Known
  <2>2. context'[coordinator.cell][coordinator.rnti] # NoContext
    BY <1>7, <1>10
  <2> QED BY <1>2, <1>8, <1>9, <1>10, <2>1, <2>2, HandlerKeeps
<1>12. StatusesFit' /\ ReleasesFit'
  <2>1. Released(c, r) => new.state = "HANDOVER_LEAVING"
    BY <1>4, <1>5, ReleasedLeaves
  <2>2. \A x \in Links : \A y \in Flying(x) :
           y.type = "SnStatusTransfer" /\ x[2] = c /\ y.new = r => new.state \in Arriving
    BY <1>5, StatusIs DEF Arriving
  <2>3. imsiRnti' \in {imsiRnti, [imsiRnti EXCEPT ![c] = r]}
    BY <1>2
  <2>4. Served(c, r) /\ context[c][r].state = "CONNECTED_NORMALLY"
           => new.state = "CONNECTED_NORMALLY" \/ \A q \in Rnti : ~Released(c, q)
    BY <1>5
  <2> QED BY <1>2, <1>4, <1>5, <1>8, <1>9, <2>1, <2>2, <2>3, <2>4, SetFits
<1>13. ForwardsWhileLeaving'
  BY <1>2, <1>4, <1>5, SetForwards
<1>14. Owned'
  <2>1. new.rlc /\ new.joining # "expired"
    BY <1>4, <1>5 DEF ContextInv, Owned
  <2>2. \A x \in {l} \cap Links :
           /\ link[x] # << >>
           /\ Head(link[x]).type \notin
                {"HandoverRequestAck", "HandoverCommand", "UeContextRelease"}
    BY <1>9
  <2> QED BY <1>2, <1>4, <1>5, <1>8, <2>1, <2>2, SetOwned
<1>15. Stays
  <2>1. \A st : Serving(st) => Serving(st)'
    BY <1>2, <1>7 DEF Serving, Rnti
  <2>2. Passes => Passes'
    BY <1>2, <1>7, <1>10 DEF Passes
  <2>3. \A e, n, st : Joining(e, n, st) => Joining(e, n, st)'
    BY <1>2, <1>7 DEF Joining, Rnti
  <2> QED BY <1>2, <2>1, <2>2, <2>3 DEF Stays
<1>16. CarriersFit' /\ AccessFits' /\ RestFits'
  <2>1. \A x \in {l} \cap Links : link[x] # << >> /\ Head(link[x]) \notin Carriers
    BY <1>9 DEF Carriers
  <2>2. Waiting => Waiting'
    BY <1>2 DEF Waiting
  <2>3. \A x \in Links : Each(sends[x]) \cap Carriers = {}
    BY <1>8
  <2> QED BY <1>2, <1>8, <1>15, <2>1, <2>2, <2>3, BystanderFits
<1> QED BY <1>11, <1>12, <1>13, <1>14, <1>16 DEF ContextInv

-----------------------------------------------------------------------------
\* The release: nothing else was for the context that goes.
LEMMA UeReleaseFits ==
    ASSUME Typed, OnItsWay, ContextInv, NEW c \in Cell, RecvUeContextRelease(c)
    PROVE  ContextInv'
<1>0. PICK l, h, r, sends : l = <<Lte, c>> /\ h = Head(link[l]) /\ r = h.old /\ sends = Nothing
  OBVIOUS
<1>1. /\ HeadIs(l, "UeContextRelease") /\ l \in Links /\ l[2] = c /\ Exchange({l}, sends)
      /\ HasContext(c, r) /\ SetContext(c, r, NoContext) /\ StopForwarding(c, r)
      /\ UNCHANGED <<coordinator, lastCell, lastRnti, imsiRnti, ue, setup>>
  BY <1>0, Ends DEF RecvUeContextRelease, RemoveUe, decisionVars
<1>2. /\ h \in Flying(l) /\ h \in Message /\ h.type = "UeContextRelease"
      /\ link[l] # << >> /\ Head(link[l]) = h
  BY <1>0, <1>1, HeadFlies DEF OfType, HeadIs
<1>3. /\ r \in Rnti /\ Released(c, r) /\ h = UeContextRelease(r) /\ context[c][r] # NoContext
  BY <1>0, <1>1, <1>2, ReleaseIs DEF HasContext
<1>4. /\ context[c][r].state = "HANDOVER_LEAVING" /\ ~Served(c, r)
      /\ \A q \in Rnti : Released(c, q) => q = r
  BY <1>3, ReleasedLeaves
<1>5. /\ context'[c][r] = NoContext
      /\ \A e \in Cell, q \in Rnti : <<e, q>> # <<c, r>> => context'[e][q] = context[e][q]
  BY <1>1, <1>3, ContextsType DEF Typed
<1>6. /\ sends \in [Links -> Seq(Message)]
      /\ \A x \in Links : Each(sends[x]) = {} /\ sends[x] = << >>
      /\ \A x \in Cell : sends[<<Lte, x>>] = << >>
  BY <1>0, SentNone, Ends
<1>7. /\ \A x \in {l} \cap Links : link[x] # << >> /\ Head(link[x]).type = "UeContextRelease"
      /\ \A x \in Links : \A n \in Each(sends[x]) : Proper(x, n)
  BY <1>2, <1>6
<1>8. coordinator.cell \in Cell /\ coordinator.rnti \in Rnti /\ coordinator.cell # 0
      /\ context[coordinator.cell][coordinator.rnti] # NoContext
  BY <1>1, <1>2, Flies, CellsAreOthers, NoContextIsNone DEF ContextInv, Lte
<1>9. context'[coordinator.cell][coordinator.rnti] = context[coordinator.cell][coordinator.rnti]
  BY <1>4, <1>5, <1>8 DEF Served
<1>10. Known' /\ AllProper' /\ InOrder'
  <2>1. lastRnti' = imsiRnti'
    BY <1>1 DEF ContextInv, Known
  <2>2. context'[coordinator.cell][coordinator.rnti] # NoContext
    BY <1>8, <1>9
  <2> QED BY <1>1, <1>6, <1>7, <1>8, <2>1, <2>2, HandlerKeeps
<1>11. ASSUME NEW x \in Links, NEW m \in Flying(x)' PROVE m \in Flying(x)
  BY <1>1, <1>6, <1>7, <1>11, FlyingAfter DEF Typed
<1>12. StatusesFit'
  <2>1. ASSUME NEW x \in Links, NEW m \in Flying(x)', m.type = "SnStatusTransfer"
        PROVE  context'[x[2]][m.new].state \in {"HANDOVER_JOINING", "CONNECTED_NORMALLY"}
    <3>1. /\ x[2] \in Cell /\ m.new \in Rnti
          /\ context[x[2]][m.new].state \in {"HANDOVER_JOINING", "CONNECTED_NORMALLY"}
      BY <1>11, <2>1, StatusIs
    <3>2. context'[x[2]][m.new] = context[x[2]][m.new]
      BY <1>4, <1>5, <3>1
    <3> QED BY <3>1, <3>2
  <2> QED BY <2>1 DEF StatusesFit, StatusFits
<1>13. ReleasesFit'
  <2>1. ASSUME NEW x \in Links, NEW m \in Flying(x)', m.type = "UeContextRelease"
        PROVE  ReleaseFits(x, m)'
    <3>1. m \in Flying(x)
      BY <1>11, <2>1
    <3>2. PICK e, q : e = x[2] /\ q = m.old
      OBVIOUS
    <3>3. /\ e \in Cell /\ x = <<Lte, e>> /\ q \in Rnti /\ m = UeContextRelease(q)
          /\ Released(e, q) /\ ReleaseFits(x, m)
      BY <2>1, <3>1, <3>2, ReleaseIs
    <3>4. e # c
      <4> SUFFICES ASSUME e = c PROVE FALSE
        OBVIOUS
      <4>1. q = r /\ x = l /\ m = h
        BY <1>0, <1>3, <1>4, <3>3
      <4>2. link'[l] = Tail(link[l])
        <5>1. link'[l] = Tail(link[l]) \o << >>
          BY <1>1, <1>6 DEF Exchange
        <5>2. Tail(link[l]) \in Seq(Message) /\ \A t \in Seq(Message) : t \o << >> = t
          BY <1>1, <1>2 DEF Typed, TypeOK
        <5> QED BY <5>1, <5>2
      <4>3. LinkOrder(link[l], ServedAt(c)) /\ h \in Releases
        BY <1>0, <1>2 DEF ContextInv, InOrder, Releases, OfType
      <4>4. Each(Tail(link[l])) \cap Releases = {}
        BY <1>1, <1>2, <4>3, OrderOfTail DEF Typed, TypeOK
      <4> QED BY <2>1, <4>1, <4>2, <4>3, <4>4 DEF Flying
    <3>5. /\ context[e][q].state = "HANDOVER_LEAVING" /\ ~Served(e, q)
          /\ e = coordinator.cell => Serving("CONNECTED_NORMALLY")
          /\ imsiRnti[e] # q => HasContext(e, imsiRnti[e])
      BY <2>1, <3>2, <3>3 DEF ReleaseFits
    <3>6. \A p \in Rnti : context'[e][p] = context[e][p]
      BY <1>5, <3>3, <3>4
    <3>7. context'[e][q].state = "HANDOVER_LEAVING" /\ ~Served(e, q)'
      BY <1>1, <3>3, <3>5, <3>6 DEF Served
    <3>8. e = coordinator.cell => Serving("CONNECTED_NORMALLY")'
      BY <1>1, <1>9, <3>5 DEF Serving, Rnti
    <3>9. imsiRnti[e] # q => HasContext(e, imsiRnti[e])'
      BY <1>1, <3>5, <3>6 DEF HasContext, Rnti, NoContext
    <3> QED BY <1>1, <3>2, <3>7, <3>8, <3>9 DEF ReleaseFits
  <2> QED BY <2>1 DEF ReleasesFit, ReleaseFits
<1>14. ForwardsWhileLeaving'
  <2>1. context[c][r].rlc /\ forwarding \in [Cell -> Cell \cup {0}]
    BY <1>3 DEF ContextInv, Owned, Typed, TypeOK
  <2>2. forwarding' = [forwarding EXCEPT ![c] = 0]
    BY <1>1, <2>1 DEF StopForwarding
  <2>3. \A q \in Rnti : context'[c][q].state # "HANDOVER_LEAVING"
    BY <1>3, <1>4, <1>5, LeavingIs, NoContextIsNone
  <2>4. ASSUME NEW e \in Cell, e # c
        PROVE  /\ forwarding'[e] = forwarding[e]
               /\ \A q \in Rnti : context'[e][q] = context[e][q]
    BY <1>5, <2>1, <2>2, <2>4
  <2>5. forwarding'[c] = 0
    BY <2>1, <2>2
  <2> QED BY <2>3, <2>4, <2>5 DEF ContextInv, ForwardsWhileLeaving, Rnti
<1>15. Owned'
  <2>1. ASSUME NEW e \in Cell, NEW q \in Rnti, context'[e][q] # NoContext
        PROVE  /\ context'[e][q].rlc /\ context'[e][q].joining # "expired"
               /\ context[e][q] # NoContext
    BY <1>5, <2>1 DEF ContextInv, Owned
  <2>2. ASSUME NEW e \in Cell, NEW q \in Rnti, context'[e][q] # NoContext, Released(e, q)
        PROVE  Released(e, q)'
    <3>1. e # c
      BY <1>3, <1>4, <1>5, <2>2
    <3>2. <<Lte, e>> \notin {l}
      BY <1>0, <3>1
    <3> QED BY <1>1, <1>6, <1>7, <2>2, <3>2, ReleasedStays DEF Typed
  <2>3. ASSUME NEW e \in Cell, NEW q \in Rnti, Invited(e, q) PROVE Invited(e, q)'
    BY <1>1, <1>6, <1>7, <2>3, InvitedStays
  <2> QED BY <1>1, <2>1, <2>2, <2>3, OwnedAfter
<1>16. Stays
  <2>1. \A st : Serving(st) => Serving(st)'
    BY <1>1, <1>9 DEF Serving, Rnti
  <2>2. Passes => Passes'
    BY <1>1, <1>9 DEF Passes
  <2>3. ASSUME NEW e, NEW n, NEW st \in Arriving, Joining(e, n, st) PROVE Joining(e, n, st)'
    <3>1. e \in Cell /\ n \in Rnti /\ context[e][n].state # "HANDOVER_LEAVING"
      BY <2>3 DEF Joining, Arriving
    <3>2. context'[e][n] = context[e][n]
      BY <1>4, <1>5, <3>1
    <3> QED BY <1>1, <2>3, <3>2 DEF Joining, Rnti
  <2> QED BY <1>1, <2>1, <2>2, <2>3 DEF Stays
<1>17. CarriersFit' /\ AccessFits' /\ RestFits'
  <2>1. \A x \in {l} \cap Links : link[x] # << >> /\ Head(link[x]) \notin Carriers
    BY <1>7 DEF Carriers
  <2>2. Waiting => Waiting'
    BY <1>1 DEF Waiting
  <2>3. \A x \in Links : Each(sends[x]) \cap Carriers = {}
    BY <1>6
  <2> QED BY <1>1, <1>6, <1>16, <2>1, <2>2, <2>3, BystanderFits
<1> QED BY <1>10, <1>12, <1>13, <1>14, <1>15, <1>17 DEF ContextInv

-----------------------------------------------------------------------------
\* The first connection, before which there is no context.
LEMMA ConnectFits ==
    ASSUME Typed, ContextInv, Decision!IInv, NEW c \in Cell, Connect(c)
    PROVE  ContextInv'
<1>0. PICK r : r = AddUe(c)
  OBVIOUS
<1>1. PICK new : new = NewContext("CONNECTED_NORMALLY", 0, 0, TRUE)
  OBVIOUS
<1>2. /\ c \in connecting /\ lastCell' = c /\ SetContext(c, r, new) /\ FreeRntis(c) # {}
      /\ lastRnti' = [lastRnti EXCEPT ![c] = r] /\ imsiRnti' = [imsiRnti EXCEPT ![c] = r]
      /\ coordinator' = [cell |-> c, rnti |-> r]
      /\ ue' = [state |-> "CONNECTED_NORMALLY", cell |-> c, rnti |-> r, useMmWave |-> TRUE]
      /\ UNCHANGED <<forwarding, link>>
  BY <1>0, <1>1 DEF Connect, McSetupCompleted, RegisterImsiToRnti
<1>3. coordinator.cell = 0
  BY <1>2, WaitingFacts DEF ContextInv, Known
<1>4. /\ \A e \in Cell : /\ forwarding[e] = 0 /\ imsiRnti[e] = 0
                         /\ \A q \in Rnti : context[e][q] = NoContext
      /\ \A l \in Links : link[l] = << >>
  BY <1>3 DEF ContextInv, Known, BeforeConnect
<1>5. r \in Rnti /\ r # 0 /\ c # 0
  BY <1>0, <1>2, AddUeFree, CellsAreOthers DEF Typed, Rnti, Lte
<1>6. /\ new \in Context /\ new.state = "CONNECTED_NORMALLY" /\ new.rlc /\ new.rlcRequests
      /\ new.joining = "idle" /\ new # NoContext
  <2>0. 0 \in 0 .. MaxRnti
    BY NetworkAssumption
  <2>1. new \in Context
    BY <1>1, <2>0, NewContextType
  <2> QED BY <1>1, <2>1, NoContextIsNone DEF NewContext
<1>7. /\ context'[c][r] = new
      /\ \A e \in Cell, q \in Rnti : <<e, q>> # <<c, r>> => context'[e][q] = NoContext
  BY <1>2, <1>4, <1>5, <1>6, ContextsType DEF Typed
<1>8. coordinator'.cell = c /\ coordinator'.rnti = r
  BY <1>2
<1>9. \A l \in Links : Flying(l)' = {} /\ link'[l] = << >>
  BY <1>2, <1>4 DEF Flying, Each
<1>10. AllProper' /\ CarriersFit' /\ StatusesFit' /\ ReleasesFit'
  BY <1>9 DEF AllProper, CarriersFit, StatusesFit, ReleasesFit
<1>11. Known'
  <2>1. lastRnti' = imsiRnti'
    BY <1>2 DEF ContextInv, Known
  <2>2. imsiRnti'[c] = r
    BY <1>2 DEF Typed, TypeOK
  <2>3. ServedKnown'
    BY <1>5, <1>6, <1>7, <1>8, <2>2 DEF ServedKnown, HasContext, Rnti, NoContext
  <2>4. BeforeConnect'
    BY <1>5, <1>8 DEF BeforeConnect
  <2> QED BY <1>2, <1>8, <2>1, <2>3, <2>4 DEF Known
<1>12. AccessFits' /\ RestFits'
  <2>1. ue'.state = "CONNECTED_NORMALLY" /\ ue'.cell = c /\ ue'.rnti = r
    BY <1>2
  <2>2. UeAtSource'
    BY <1>8, <2>1 DEF UeAtSource, UeAt
  <2>3. Serving("CONNECTED_NORMALLY")' /\ Passes'
    BY <1>5, <1>6, <1>7, <1>8 DEF Serving, Passes, Rnti
  <2> QED BY <2>1, <2>2, <2>3 DEF AccessFits, RestFits
<1>13. Owned'
  <2>1. ASSUME NEW e \in Cell, NEW q \in Rnti, context'[e][q] # NoContext
        PROVE  e = c /\ q = r
    BY <1>7, <2>1
  <2>2. Served(c, r)'
    BY <1>8 DEF Served
  <2>3. context'[c][r].rlc /\ context'[c][r].joining # "expired"
    BY <1>6, <1>7
  <2>4. ASSUME NEW e \in Cell, NEW q \in Rnti, context'[e][q] # NoContext
        PROVE  /\ context'[e][q].rlc /\ context'[e][q].joining # "expired"
               /\ Served(e, q)'
    BY <2>1, <2>2, <2>3, <2>4
  <2> QED BY <2>4 DEF Owned, Rnti, NoContext
<1>14. InOrder'
  <2>1. \A S : LinkOrder(<< >>, S)
    <3>1. 1 .. Len(<< >>) = {}
      OBVIOUS
    <3> QED BY <3>1 DEF LinkOrder, Once
  <2>2. \A e \in Cell : link'[<<Lte, e>>] = << >>
    BY <1>9, Ends
  <2>3. \A e \in Cell : \A S : LinkOrder(link'[<<Lte, e>>], S)
    BY <2>1, <2>2
  <2>4. \A e \in Cell : LinkOrder(link'[<<Lte, e>>], ServedAt(e)')
    BY <2>3
  <2>5. ASSUME NEW e \in Cell PROVE LinkOrder(link[<<Lte, e>>], ServedAt(e))'
    BY <2>4, <2>5 DEF LinkOrder, Lte, Releases, OfType
  <2> QED BY <2>5 DEF InOrder
<1>15. ForwardsWhileLeaving'
  <2>1. \A e \in Cell, q \in Rnti : context'[e][q].state # "HANDOVER_LEAVING"
    BY <1>6, <1>7, NoContextIsNone
  <2> QED BY <1>2, <1>4, <2>1 DEF ForwardsWhileLeaving, Rnti
<1> QED BY <1>10, <1>11, <1>12, <1>13, <1>14, <1>15 DEF ContextInv

-----------------------------------------------------------------------------
\* The report of the target: the context of before becomes the one to release.
LEMMA CompleteFits ==
    ASSUME Typed, OnItsWay, ContextInv, NEW c \in Cell, CompleteHandover(c)
    PROVE  ContextInv'
<1>0. PICK l, h, o, p : /\ l = <<c, Lte>> /\ h = Head(link[l])
                        /\ o = coordinator.cell /\ p = coordinator.rnti
  OBVIOUS
<1>1. PICK n, k, m : n = h.new /\ k = <<Lte, o>> /\ m = UeContextRelease(h.old)
  OBVIOUS
<1>2. PICK sends : sends = On(k, <<m>>)
  OBVIOUS
<1>3. /\ HeadIs(l, "SecondaryCellHandoverCompleted") /\ l \in Links /\ l[1] = c
      /\ coordinator' = [cell |-> c, rnti |-> n] /\ Exchange({l}, sends)
      /\ RecvSecondaryCellHandoverCompleted(c)
      /\ UNCHANGED <<cellVars, ue>>
  BY <1>0, <1>1, <1>2, Ends DEF CompleteHandover, OldMmWaveCell
<1>4. /\ h \in Flying(l) /\ h \in Message /\ h.type = "SecondaryCellHandoverCompleted"
      /\ h \in Carriers /\ Head(link[l]) = h
      /\ CarrierFits(l, h) /\ link[l] # << >> /\ o # 0 /\ o \in Cell /\ p \in Rnti
      /\ imsiRnti[o] = p
  BY <1>0, <1>3, HeadFits
<1>5. /\ h.old = p /\ UeAt(c, n) /\ Serving("HANDOVER_LEAVING")
      /\ Joining(c, n, "CONNECTED_NORMALLY")
  BY <1>0, <1>1, <1>3, <1>4 DEF CarrierFits
<1>6. /\ c # o /\ n \in Rnti /\ context[c][n].state = "CONNECTED_NORMALLY"
      /\ context[c][n].rlcRequests /\ imsiRnti[c] = n
      /\ context[o][p].state = "HANDOVER_LEAVING"
  BY <1>0, <1>5 DEF Joining, Serving
<1>7. coordinator'.cell = c /\ coordinator'.rnti = n /\ c # 0
  BY <1>3, CellsAreOthers DEF Lte
<1>8. UNCHANGED <<context, lastRnti, imsiRnti, forwarding>>
  BY <1>3 DEF cellVars
<1>9. lastCell' = c
  BY <1>0, <1>3, <1>6 DEF RecvSecondaryCellHandoverCompleted, ContextInv, Known
<1>10. /\ m \in Message /\ m.type = "UeContextRelease" /\ m.old = p /\ m \notin Carriers
       /\ m = UeContextRelease(p) /\ k \in Links /\ k[1] = Lte /\ k[2] = o
  <2>1. m \in Message /\ m.type = "UeContextRelease" /\ m.old = p
    BY <1>1, <1>4, <1>5, Messages DEF OfType, UeContextRelease
  <2> QED BY <1>1, <1>4, <1>5, <2>1, Ends DEF Carriers
<1>11. /\ sends \in [Links -> Seq(Message)]
       /\ \A x \in Links : Each(sends[x]) = IF x = k THEN {m} ELSE {}
       /\ \A x \in Links : x # k => sends[x] = << >>
       /\ sends[k] = <<m>>
  <2>1. /\ On(k, <<m>>) \in [Links -> Seq(Message)]
        /\ \A x \in Links : Each(On(k, <<m>>)[x]) = IF x = k THEN {m} ELSE {}
        /\ \A x \in Links : x # k => On(k, <<m>>)[x] = << >>
    BY <1>10, SentOne
  <2>2. On(k, <<m>>)[k] = <<m>>
    BY <1>10 DEF On
  <2> QED BY <1>2, <2>1, <2>2
<1>12. TypeOK /\ \A x \in {l} \cap Links : link[x] # << >>
  BY <1>4 DEF Typed
<1>13. \A x \in Links : \A y \in Flying(x) \cap Carriers : x = l /\ y = h
  BY <1>3, <1>4, <1>11, <1>12, TheCarrier
<1>14. \A x \in Links : \A y \in Flying(x)' : y \in Flying(x) \/ (x = k /\ y = m)
  <2>1. ASSUME NEW x \in Links PROVE Flying(x)' \subseteq Flying(x) \cup Each(sends[x])
    BY <1>3, <1>11, <1>12, FlyingAfter
  <2> QED BY <1>11, <2>1
<1>15. m \in Flying(k)'
  <2>1. Each(sends[k]) \subseteq Flying(k)'
    BY <1>3, <1>10, <1>11, <1>12, FlyingAfter
  <2> QED BY <1>10, <1>11, <2>1
<1>16. \A q \in Rnti : ~Released(o, q)
  BY <1>0, <1>4, <1>5, ReleasedLeaves DEF Serving
<1>17. Known'
  <2>1. ServedKnown'
    BY <1>6, <1>7, <1>8, NoContextIsNone DEF ServedKnown, HasContext, Rnti, NoContext
  <2>2. BeforeConnect'
    BY <1>7 DEF BeforeConnect
  <2> QED BY <1>7, <1>8, <1>9, <2>1, <2>2 DEF ContextInv, Known
<1>18. AllProper'
  <2>1. ASSUME NEW x \in Links, NEW y \in Flying(x)' PROVE Proper(x, y)
    <3>1. CASE y \in Flying(x)
      BY <3>1 DEF ContextInv, AllProper
    <3>2. CASE x = k /\ y = m
      BY <1>4, <1>10, <3>2 DEF Proper
    <3> QED BY <1>14, <2>1, <3>1, <3>2
  <2> QED BY <2>1 DEF AllProper, Proper, Lte, Ue
<1>19. CarriersFit'
  <2>1. \A x \in Links : \A y \in Each(sends[x]) : CarrierFits(x, y)'
    <3>1. ASSUME NEW x \in Links PROVE CarrierFits(x, m)'
      BY <1>10, OthersFit
    <3> QED BY <1>11, <3>1
  <2> QED BY <1>3, <1>4, <1>11, <2>1, CarriersAfter
<1>20. StatusesFit'
  <2>1. ASSUME NEW x \in Links, NEW y \in Flying(x)', y.type = "SnStatusTransfer"
        PROVE  context[x[2]][y.new].state \in {"HANDOVER_JOINING", "CONNECTED_NORMALLY"}
    <3>1. y \in Flying(x)
      BY <1>10, <1>14, <2>1
    <3> QED BY <2>1, <3>1, StatusIs
  <2> QED BY <1>8, <2>1 DEF StatusesFit, StatusFits
<1>21. ReleasesFit'
  <2>1. ASSUME NEW x \in Links, NEW y \in Flying(x)', y.type = "UeContextRelease"
        PROVE  /\ context[x[2]][y.old].state = "HANDOVER_LEAVING"
               /\ ~(x[2] = c /\ y.old = n)
               /\ imsiRnti[x[2]] # y.old => HasContext(x[2], imsiRnti[x[2]])
    <3>1. CASE x = k /\ y = m
      BY <1>4, <1>6, <1>10, <3>1
    <3>2. CASE y \in Flying(x)
      <4>1. ReleaseFits(x, y)
        BY <2>1, <3>2, ReleaseIs
      <4>2. /\ context[x[2]][y.old].state = "HANDOVER_LEAVING"
            /\ imsiRnti[x[2]] # y.old => HasContext(x[2], imsiRnti[x[2]])
        BY <2>1, <4>1 DEF ReleaseFits
      <4> QED BY <1>6, <4>2
    <3> QED BY <1>14, <2>1, <3>1, <3>2
  <2>2. Serving("CONNECTED_NORMALLY")'
    BY <1>6, <1>7, <1>8 DEF Serving, Rnti
  <2>3. ASSUME NEW x \in Links, NEW y \in Flying(x)', y.type = "UeContextRelease"
        PROVE  ReleaseFits(x, y)'
    <3>1. ~Served(x[2], y.old)'
      BY <1>7, <2>1, <2>3 DEF Served
    <3>2. imsiRnti[x[2]] # y.old => HasContext(x[2], imsiRnti[x[2]])'
      BY <1>8, <2>1, <2>3 DEF HasContext, Rnti, NoContext
    <3> QED BY <1>8, <2>1, <2>2, <2>3, <3>1, <3>2 DEF ReleaseFits
  <2> QED BY <2>3 DEF ReleasesFit, ReleaseFits
<1>22. AccessFits' /\ RestFits'
  <2>1. UeAtSource' /\ ue'.state = "CONNECTED_NORMALLY"
    BY <1>3, <1>5, <1>7 DEF UeAtSource, UeAt
  <2>2. Serving("CONNECTED_NORMALLY")' /\ Passes'
    BY <1>6, <1>7, <1>8 DEF Serving, Passes, Rnti
  <2> QED BY <2>1, <2>2 DEF AccessFits, RestFits
<1>23. Owned'
  <2>1. ASSUME NEW e \in Cell, NEW q \in Rnti, Invited(e, q) PROVE Served(e, q)'
    <3>1. CASE ue.cell # coordinator.cell /\ e = ue.cell /\ q = ue.rnti
      BY <1>5, <1>7, <3>1 DEF UeAt, Served
    <3>2. CASE e # o /\ HandoverRequestAck(p, q) \in Flying(<<e, o>>)
      <4>1. /\ HandoverRequestAck(p, q) \in Carriers
            /\ HandoverRequestAck(p, q).type = "HandoverRequestAck"
        BY <1>4, Messages DEF OfType, Carriers
      <4>2. HandoverRequestAck(p, q) = h
        BY <1>4, <1>13, <3>2, <4>1, Ends
      <4> QED BY <1>4, <4>1, <4>2
    <3>3. CASE HandoverCommand(e, q) \in Flying(<<o, Ue>>)
      <4>1. HandoverCommand(e, q) \in Carriers /\ HandoverCommand(e, q).type = "HandoverCommand"
        BY Messages DEF OfType, Carriers
      <4>2. HandoverCommand(e, q) = h
        BY <1>4, <1>13, <3>3, <4>1, Ends
      <4> QED BY <1>4, <4>1, <4>2
    <3> QED BY <1>0, <2>1, <3>1, <3>2, <3>3 DEF Invited
  <2>2. ASSUME NEW e \in Cell, NEW q \in Rnti, Served(e, q) PROVE Released(e, q)'
    <3>1. e = o /\ q = p
      BY <1>0, <2>2 DEF Served
    <3>2. UeContextRelease(p) \in Flying(<<Lte, o>>)'
      BY <1>1, <1>10, <1>15 DEF Lte
    <3> QED BY <3>1, <3>2 DEF Released, UeContextRelease, Flying, Lte
  <2>3. ASSUME NEW e \in Cell, NEW q \in Rnti, Released(e, q) PROVE Released(e, q)'
    <3>1. <<Lte, e>> \notin {l}
      BY <1>0, CellsAreOthers
    <3> QED BY <1>3, <1>11, <1>12, <2>3, <3>1, ReleasedStays
  <2>4. ASSUME NEW e \in Cell, NEW q \in Rnti, context[e][q] # NoContext
        PROVE  /\ context[e][q].rlc /\ context[e][q].joining # "expired"
               /\ Served(e, q)' \/ Released(e, q)'
    BY <2>1, <2>2, <2>3, <2>4 DEF ContextInv, Owned
  <2> QED BY <1>8, <2>4 DEF Owned, Rnti, NoContext
<1>24. InOrder'
  <2>1. ASSUME NEW e \in Cell
        PROVE  LinkOrder(link'[<<Lte, e>>], IF e = c THEN {n} ELSE {})
    <3>1. PICK x, s : x = <<Lte, e>> /\ s = link[x]
      OBVIOUS
    <3>2. /\ x \in Links /\ s \in Seq(Message) /\ LinkOrder(s, ServedAt(e)) /\ x # l
          /\ x = k <=> e = o
      <4>1. x \in Links /\ s \in Seq(Message)
        BY <1>12, <3>1, Ends DEF TypeOK
      <4>2. LinkOrder(s, ServedAt(e))
        BY <3>1 DEF ContextInv, InOrder
      <4>3. x[1] = Lte /\ l[1] # Lte /\ x[2] = e
        BY <1>3, <3>1, CellsAreOthers
      <4> QED BY <1>1, <1>10, <3>1, <4>1, <4>2, <4>3
    <3>3. link'[x] = s \o sends[x]
      BY <1>3, <3>1, <3>2 DEF Exchange
    <3>4. CASE e = o
      <4>1. link'[x] = s \o <<m>>
        BY <1>11, <3>2, <3>3, <3>4
      <4>2. \A r \in ServedAt(e) : r = m.old
        BY <1>0, <1>10, <3>4 DEF ServedAt
      <4>3. Each(s) \cap Releases = {}
        <5> SUFFICES ASSUME NEW y \in Flying(x), y \in Releases PROVE FALSE
          BY <3>1 DEF Flying
        <5>1. x[2] = o /\ y.type = "UeContextRelease"
          BY <3>1, <3>4 DEF Releases, OfType
        <5>2. y.old \in Rnti /\ Released(o, y.old)
          BY <3>2, <5>1, ReleaseIs
        <5> QED BY <1>16, <5>2
      <4>4. \A y \in Each(s) : y.type # "McHandoverRequest"
        <5> SUFFICES ASSUME NEW y \in Flying(x), y.type = "McHandoverRequest" PROVE FALSE
          BY <3>1 DEF Flying
        <5>1. y \in Message
          BY <3>2, Flies DEF ContextInv
        <5>2. y \in Carriers
          BY <5>1 DEF Carriers
        <5> QED BY <1>13, <3>2, <5>2
      <4>5. LinkOrder(s \o <<m>>, {})
        BY <1>10, <3>2, <4>2, <4>3, <4>4, OrderOfSent
      <4> QED BY <1>6, <3>1, <3>4, <4>1, <4>5
    <3>5. CASE e # o
      <4>1. link'[x] = s
        <5>1. sends[x] = << >> /\ \A t \in Seq(Message) : t \o << >> = t
          BY <1>11, <3>2, <3>5
        <5> QED BY <3>2, <3>3, <5>1
      <4>2. ServedAt(e) = {}
        BY <1>0, <3>5 DEF ServedAt
      <4>3. LinkOrder(s, IF e = c THEN {n} ELSE {})
        BY <3>2, <4>2, OrderWidens
      <4> QED BY <3>1, <4>1, <4>3
    <3> QED BY <3>4, <3>5
  <2>2. \A e : ServedAt(e)' = IF e = c THEN {n} ELSE {}
    BY <1>7 DEF ServedAt
  <2>3. ASSUME NEW e \in Cell PROVE LinkOrder(link'[<<Lte, e>>], ServedAt(e)')
    BY <2>1, <2>2
  <2>4. ASSUME NEW e \in Cell PROVE LinkOrder(link[<<Lte, e>>], ServedAt(e))'
    BY <2>3, <2>4 DEF LinkOrder, Lte, Releases, OfType
  <2> QED BY <2>4 DEF InOrder
<1>25. ForwardsWhileLeaving'
  BY <1>8 DEF ContextInv, ForwardsWhileLeaving, Rnti
<1> QED BY <1>17, <1>18, <1>19, <1>20, <1>21, <1>22, <1>23, <1>24, <1>25 DEF ContextInv

-----------------------------------------------------------------------------
\* A step that leaves the cells, the links and the UE alone.
LEMMA AloneFits ==
    ASSUME ContextInv, Waiting => Waiting',
           UNCHANGED <<coordinator, context, lastRnti, imsiRnti, forwarding, ue, link, lastCell>>
    PROVE  ContextInv'
<1>1. UNCHANGED <<coordinator, context, lastRnti, imsiRnti, forwarding, ue, link>>
  OBVIOUS
<1>2. UNCHANGED lastCell
  OBVIOUS
<1>3. Waiting => Waiting'
  OBVIOUS
<1>4. \A x : Flying(x)' = Flying(x)
  BY <1>1 DEF Flying, Each
<1>5. Known'
  BY <1>1, <1>2 DEF ContextInv, Known, BeforeConnect, ServedKnown, HasContext, Rnti, NoContext,
                    Links, Lte, Ue
<1>6. /\ \A d, n, st : Joining(d, n, st)' = Joining(d, n, st)
      /\ \A st : Serving(st)' = Serving(st)
      /\ \A d, n : UeAt(d, n)' = UeAt(d, n)
      /\ UeAtSource' = UeAtSource /\ Passes' = Passes
  BY <1>1 DEF Joining, Serving, UeAt, UeAtSource, Passes, Rnti
<1>7. \A x, m : /\ Proper(x, m)' = Proper(x, m) /\ StatusFits(x, m)' = StatusFits(x, m)
                /\ ReleaseFits(x, m)' = ReleaseFits(x, m)
  BY <1>1 DEF Proper, StatusFits, ReleaseFits, Served, Serving, HasContext, Rnti, NoContext, Lte, Ue
<1>8. \A x, m : CarrierFits(x, m) => CarrierFits(x, m)'
  <2> SUFFICES ASSUME NEW x, NEW m, CarrierFits(x, m) PROVE CarrierFits(x, m)'
    OBVIOUS
  <2>1. Stays
    BY <1>1, StaysAlone
  <2> QED BY <2>1, StaysFit
<1>9. AllProper' /\ CarriersFit' /\ StatusesFit' /\ ReleasesFit'
  <2>1. Links' = Links
    BY DEF Links, Lte, Ue
  <2>2. \A x \in Links : \A m \in Flying(x) :
           Proper(x, m) /\ CarrierFits(x, m) /\ StatusFits(x, m) /\ ReleaseFits(x, m)
    BY DEF ContextInv, AllProper, CarriersFit, StatusesFit, ReleasesFit
  <2>3. \A x \in Links : \A m \in Flying(x)' :
           Proper(x, m)' /\ CarrierFits(x, m)' /\ StatusFits(x, m)' /\ ReleaseFits(x, m)'
    BY <1>4, <1>7, <1>8, <2>2
  <2> QED BY <2>1, <2>3 DEF AllProper, CarriersFit, StatusesFit, ReleasesFit
<1>10. AccessFits'
  <2>1. ue.state = "CONNECTED_HANDOVER" =>
           Serving("HANDOVER_LEAVING")' /\ Joining(ue.cell, ue.rnti, "HANDOVER_JOINING")'
    BY <1>1, <1>6 DEF ContextInv, AccessFits, Serving, Joining, Rnti
  <2> QED BY <1>1, <2>1 DEF AccessFits, Serving, Joining, Rnti
<1>11. RestFits'
  <2>1. Free' => Free
    BY <1>1 DEF Free, None, Carriers
  <2> QED BY <1>1, <1>3, <1>6, <2>1 DEF ContextInv, RestFits
<1>12. Owned'
  <2>1. \A c, r : /\ Served(c, r)' = Served(c, r) /\ Released(c, r)' = Released(c, r)
                  /\ Invited(c, r)' = Invited(c, r)
    BY <1>1 DEF Served, Released, Invited, Flying, Each, UeContextRelease,
                HandoverRequestAck, HandoverCommand, Lte, Ue
  <2> QED BY <1>1, <2>1 DEF ContextInv, Owned, Rnti, NoContext
<1>13. InOrder'
  <2>1. \A c \in Cell : LinkOrder(link'[<<Lte, c>>], ServedAt(c)')
    BY <1>1 DEF ContextInv, InOrder, ServedAt
  <2>2. ASSUME NEW c \in Cell PROVE LinkOrder(link[<<Lte, c>>], ServedAt(c))'
    BY <2>1, <2>2 DEF LinkOrder, Lte, Releases, OfType
  <2> QED BY <2>2 DEF InOrder
<1>14. ForwardsWhileLeaving'
  BY <1>1 DEF ContextInv, ForwardsWhileLeaving, Rnti
<1> QED BY <1>5, <1>9, <1>10, <1>11, <1>12, <1>13, <1>14 DEF ContextInv

LEMMA LocalFits ==
    ASSUME ContextInv, Decision!IInv, Local \/ UNCHANGED vars
    PROVE  ContextInv'
<1>1. UNCHANGED <<coordinator, context, lastRnti, imsiRnti, forwarding, ue, link, lastCell>>
  BY DEF Local, vars, cellVars, decisionVars, DoRecvUeSinrUpdate, maps,
         RecvRrcConnectionRequest, RecvRrcConnectionSetupCompleted, Tick
<1>2. Waiting => Waiting'
  BY WaitingFacts
  DEF Waiting, Local, vars, decisionVars, DoRecvUeSinrUpdate, maps, RecvRrcConnectionRequest,
      RecvRrcConnectionSetupCompleted, Tick
<1> QED BY <1>1, <1>2, AloneFits

\* No handover times out, and none is reported to have failed.
LEMMA NotifyNever ==
    ASSUME Typed, ContextInv, NEW c \in Cell
    PROVE  ~RecvNotifyCoordinatorHandoverFailed(c)
<1> SUFFICES ASSUME RecvNotifyCoordinatorHandoverFailed(c) PROVE FALSE
  OBVIOUS
<1>1. PICK l : l = <<c, Lte>>
  OBVIOUS
<1>2. HeadIs(l, "NotifyCoordinatorHandoverFailed") /\ l \in Links
  BY <1>1, Ends DEF RecvNotifyCoordinatorHandoverFailed
<1>3. /\ Head(link[l]) \in Flying(l)
      /\ Head(link[l]).type = "NotifyCoordinatorHandoverFailed"
  BY <1>2, HeadFlies DEF OfType
<1> QED BY <1>2, <1>3 DEF ContextInv, AllProper, Proper

LEMMA TimeoutNever ==
    ASSUME Typed, ContextInv, ~Timeouts
    PROVE  ~Timeout
<1> SUFFICES ASSUME NEW c \in Cell, NEW r \in Rnti, RemoveUeAfterJoiningTimeout(c, r)
             PROVE  FALSE
  BY DEF Timeout, HandoverJoiningTimeout, HandoverLeavingTimeout
<1>1. context[c][r] # NoContext /\ context[c][r].joining = "expired"
  BY DEF RemoveUeAfterJoiningTimeout, HasContext
<1> QED BY <1>1 DEF ContextInv, Owned

-----------------------------------------------------------------------------
\* The decision does not hand over to the cell that it hands over from.
LEMMA StartsElsewhere ==
    ASSUME Decision!IInv, TriggerUeAssociationUpdate \/ PerformHandover,
           sent'.type = "McHandoverRequest"
    PROVE  sent'.to # lastCell
<1>1. CASE TriggerUeAssociationUpdate
  <2>1. \/ Decision!Idle \/ Decision!LeaveMmWave \/ Decision!ConnectFirst
        \/ Decision!ReturnToMmWave \/ Decision!HandOver \/ Decision!ChangeEvent
    BY <1>1, SameSteps, Decision!TriggerCases, CellAssumption, ModeAssumption,
       SinrAssumption, TttAssumption
  <2>2. Decision!HandOver
    BY <2>1
    DEF Decision!Idle, Decision!LeaveMmWave, Decision!ConnectFirst,
        Decision!ReturnToMmWave, Decision!ChangeEvent,
        Decision!NoCommand, Decision!ConnectionSwitch, Decision!ConnectToMmWave
  <2> QED BY <2>2 DEF Decision!HandOver, Decision!McHandoverRequest
<1>2. CASE PerformHandover
  BY <1>2, WaitingFacts
  DEF PerformHandover, onHandover, StartHandover, SendMcHandoverRequest, McHandoverRequest,
      SendNothing, NoCommand
<1> QED BY <1>1, <1>2

\* What the coordinator sends to a cell is in order, if it is a request for a
\* handover or a switch for the context that the coordinator knows.
LEMMA OrderOfCommand ==
    ASSUME Typed, ContextInv, NEW sends \in [Links -> Seq(Message)], Exchange({}, sends),
           UNCHANGED coordinator,
           \A c \in Cell :
              \/ sends[<<Lte, c>>] = << >>
              \/ \E m \in Message :
                    /\ sends[<<Lte, c>>] = <<m>>
                    /\ \/ m.type = "McHandoverRequest"
                       \/ m.type = "ConnectionSwitch" /\ m.rnti \in ServedAt(c)
    PROVE  InOrder'
<1>1. ASSUME NEW c \in Cell PROVE LinkOrder(link'[<<Lte, c>>], ServedAt(c))
  <2>1. PICK s : s = link[<<Lte, c>>]
    OBVIOUS
  <2>2. /\ s \in Seq(Message) /\ LinkOrder(s, ServedAt(c))
        /\ link'[<<Lte, c>>] = s \o sends[<<Lte, c>>]
    BY <2>1, Ends DEF Typed, TypeOK, ContextInv, InOrder, Exchange
  <2>3. CASE sends[<<Lte, c>>] = << >>
    <3>1. \A t \in Seq(Message) : t \o << >> = t
      OBVIOUS
    <3> QED BY <2>2, <2>3, <3>1
  <2>4. ASSUME NEW m \in Message, sends[<<Lte, c>>] = <<m>>,
               \/ m.type = "McHandoverRequest"
               \/ m.type = "ConnectionSwitch" /\ m.rnti \in ServedAt(c)
        PROVE  LinkOrder(link'[<<Lte, c>>], ServedAt(c))
    <3>1. LinkOrder(s \o <<m>>, ServedAt(c))
      BY <2>2, <2>4, OrderOfSent
    <3> QED BY <2>2, <2>4, <3>1
  <2> QED BY <2>3, <2>4
<1>2. \A c : ServedAt(c)' = ServedAt(c)
  BY DEF ServedAt
<1>3. ASSUME NEW c \in Cell PROVE LinkOrder(link[<<Lte, c>>], ServedAt(c))'
  BY <1>1, <1>2, <1>3 DEF LinkOrder, Lte, Releases, OfType
<1> QED BY <1>3 DEF InOrder

\* What a command leaves as it was.
LEMMA CommandKeeps ==
    ASSUME Typed, ContextInv, NEW sends \in [Links -> Seq(Message)], Exchange({}, sends),
           UNCHANGED <<coordinator, lastCell, cellVars, ue>>, coordinator.cell # 0,
           \A x \in Links : \A m \in Each(sends[x]) :
              Proper(x, m) /\ m.type \notin {"UeContextRelease", "SnStatusTransfer"}
    PROVE  /\ Known' /\ AllProper' /\ StatusesFit' /\ ReleasesFit'
           /\ ForwardsWhileLeaving' /\ Owned'
<1>1. UNCHANGED <<context, lastRnti, imsiRnti, forwarding>>
  BY DEF cellVars
<1>2. Known'
  BY <1>1 DEF ContextInv, Known, ServedKnown, BeforeConnect, HasContext, Rnti, NoContext
<1>3. ASSUME NEW x \in Links, NEW m \in Flying(x)' PROVE m \in Flying(x) \cup Each(sends[x])
  BY <1>3, FlyingAfter DEF Typed
<1>4. ASSUME NEW x \in Links, NEW m \in Flying(x)'
      PROVE  Proper(x, m)' /\ StatusFits(x, m)' /\ ReleaseFits(x, m)'
  <2>1. CASE m \in Flying(x)
    <3>1. Proper(x, m) /\ StatusFits(x, m) /\ ReleaseFits(x, m)
      BY <2>1 DEF ContextInv, AllProper, StatusesFit, ReleasesFit
    <3>2. Proper(x, m)'
      BY <3>1 DEF Proper, Lte, Ue
    <3> QED BY <1>1, <3>1, <3>2
            DEF StatusFits, ReleaseFits, Served, Serving, HasContext, Rnti, NoContext
  <2>2. CASE m \in Each(sends[x])
    <3>1. Proper(x, m)'
      BY <2>2 DEF Proper, Lte, Ue
    <3> QED BY <2>2, <3>1 DEF StatusFits, ReleaseFits
  <2> QED BY <1>3, <1>4, <2>1, <2>2
<1>5. ForwardsWhileLeaving'
  BY <1>1 DEF ContextInv, ForwardsWhileLeaving, Rnti
<1>6. Owned'
  <2>1. \A l \in {} \cap Links :
           /\ link[l] # << >>
           /\ Head(link[l]).type \notin {"HandoverRequestAck", "HandoverCommand", "UeContextRelease"}
    OBVIOUS
  <2>2. \A c \in Cell, r \in Rnti : Invited(c, r) => Invited(c, r)'
    <3>1. ASSUME NEW c \in Cell, NEW r \in Rnti, Invited(c, r) PROVE Invited(c, r)'
      BY <2>1, <3>1, InvitedStays
    <3> QED BY <3>1
  <2> QED BY <1>1, <2>1, <2>2, CellsStayOwned
<1> QED BY <1>2, <1>4, <1>5, <1>6 DEF AllProper, StatusesFit, ReleasesFit

LEMMA DecideFits ==
    ASSUME Typed, OnItsWay, ContextInv, Decision!IInv, Decide
    PROVE  ContextInv'
<1>0. PICK o, p, command, sends :
         /\ o = coordinator.cell /\ p = coordinator.rnti
         /\ command = sent' /\ sends = MessagesOf(command)
  OBVIOUS
<1>1. command \in Command
  <2>1. DecisionTypeOK'
    BY TriggerType, HandoverStepTypes DEF Typed, TypeOK, Decide
  <2> QED BY <1>0, <2>1 DEF DecisionTypeOK
<1>2. /\ Exchange({}, sends) /\ sends \in [Links -> Seq(Message)]
      /\ UNCHANGED <<coordinator, lastCell, cellVars, ue>> /\ lastCell = o
  BY <1>0, <1>1, Starts, Transmissions DEF Decide, Transmit, ContextInv, Known
<1>3. UNCHANGED <<context, imsiRnti, lastRnti, forwarding, ue.state, ue.cell, ue.rnti>>
  BY <1>2 DEF cellVars
<1>4. TypeOK /\ \A x \in {} \cap Links : link[x] # << >> /\ Head(link[x]) \notin Carriers
  BY DEF Typed
<1>5. CASE command.type = "McHandoverRequest"
  <2>1. /\ command.from = o /\ o # 0 /\ setup = "true" /\ setup' = "false"
        /\ command.to # o /\ command.to \in Cell
    BY <1>0, <1>1, <1>2, <1>5, Starts, StartsElsewhere, Commands DEF Decide
  <2>2. o \in Cell /\ ~Waiting
    BY <1>0, <2>1 DEF Typed, TypeOK, Waiting
  <2>3. Free /\ ue.state = "CONNECTED_NORMALLY"
    BY <2>2 DEF OnItsWay, Typed, TypeOK
  <2>4. UeAtSource /\ Serving("CONNECTED_NORMALLY") /\ Passes
    BY <1>0, <2>1, <2>2, <2>3 DEF ContextInv, RestFits
  <2>5. PICK d, k, m : d = command.to /\ k = <<Lte, o>> /\ m = McHandoverRequestMsg(d)
    OBVIOUS
  <2>6. sends = On(k, <<m>>)
    BY <1>0, <1>1, <1>5, <2>1, <2>5, Transmissions
  <2>7. /\ m \in Message /\ m.type = "McHandoverRequest" /\ m.target = d /\ m \in Carriers
        /\ k \in Links /\ k[1] = Lte /\ k[2] = o /\ d \in Cell /\ d # o
    <3>1. m \in Message /\ m.type = "McHandoverRequest" /\ m.target = d
      BY <2>1, <2>5, Messages DEF OfType, McHandoverRequestMsg
    <3>2. k \in Links /\ k[1] = Lte /\ k[2] = o
      BY <2>2, <2>5, Ends
    <3> QED BY <2>1, <2>5, <3>1, <3>2 DEF Carriers
  <2>8. /\ \A x \in Links : Each(sends[x]) = IF x = k THEN {m} ELSE {}
        /\ \A x \in Links : x # k => sends[x] = << >>
        /\ sends[k] = <<m>>
    <3>1. /\ \A x \in Links : Each(On(k, <<m>>)[x]) = IF x = k THEN {m} ELSE {}
          /\ \A x \in Links : x # k => On(k, <<m>>)[x] = << >>
      BY <2>7, SentOne
    <3>2. On(k, <<m>>)[k] = <<m>>
      BY <2>7 DEF On
    <3> QED BY <2>6, <3>1, <3>2
  <2>9. \A x \in Links : \A n \in Each(sends[x]) :
           /\ x = k /\ n = m /\ Proper(x, n)
           /\ n.type \notin {"UeContextRelease", "SnStatusTransfer"}
    BY <2>2, <2>7, <2>8 DEF Proper
  <2>10. /\ Known' /\ AllProper' /\ StatusesFit' /\ ReleasesFit'
         /\ ForwardsWhileLeaving' /\ Owned'
    BY <1>0, <1>2, <2>1, <2>9, CommandKeeps
  <2>11. InOrder'
    <3>1. \A c \in Cell :
             \/ sends[<<Lte, c>>] = << >>
             \/ sends[<<Lte, c>>] = <<m>>
      BY <2>8, Ends
    <3> QED BY <1>2, <2>7, <3>1, OrderOfCommand
  <2>12. CarriersFit'
    <3>1. UeAtSource' /\ Serving("CONNECTED_NORMALLY")' /\ Passes'
      BY <1>2, <1>3, <2>4 DEF UeAtSource, UeAt, Serving, Passes, Rnti
    <3>2. CarrierFits(k, m)'
      BY <1>0, <1>2, <2>7, <3>1 DEF CarrierFits
    <3>3. ASSUME NEW x \in Links, NEW n \in Flying(x)' PROVE CarrierFits(x, n)'
      <4>1. n \in Flying(x) \cup Each(sends[x]) /\ Flying(x) \subseteq Message
        BY <1>2, <1>4, <3>3, FlyingAfter
      <4>2. CASE n \in Flying(x)
        <5>1. n \notin Carriers
          BY <2>3, <4>2, NoCarrier
        <5> QED BY <4>1, <4>2, <5>1, OthersFit
      <4>3. CASE n \in Each(sends[x])
        BY <2>9, <3>2, <4>3
      <4> QED BY <4>1, <4>2, <4>3
    <3> QED BY <3>3 DEF CarriersFit
  <2>13. AccessFits' /\ RestFits'
    <3>1. m \in Flying(k)'
      <4>1. Each(sends[k]) \subseteq Flying(k)'
        BY <1>2, <1>4, <2>7, FlyingAfter
      <4> QED BY <2>7, <2>8, <4>1
    <3> QED BY <1>3, <2>3, <2>7, <3>1, UnderWay
  <2> QED BY <2>10, <2>11, <2>12, <2>13 DEF ContextInv
<1>6. CASE command.type = "ConnectionSwitch" /\ o # 0
  <2>1. PICK a, b, k : /\ a = RrcConnectionSwitch(command.useMmWave)
                       /\ b = ConnectionSwitchMsg(p) /\ k = <<Lte, o>>
    OBVIOUS
  <2>2. sends = [On(<<Lte, Ue>>, <<a>>) EXCEPT
                   ![k] = IF command.useMmWave THEN << >> ELSE <<b>>]
    BY <1>0, <1>1, <1>6, <2>1, Transmissions
  <2>3. /\ o \in Cell /\ p \in Rnti
        /\ command.useMmWave \in BOOLEAN
    BY <1>0, <1>1, <1>6, Commands DEF Typed, TypeOK, RntisKnown, Rnti
  <2>4. /\ a \in Message /\ a.type = "RrcConnectionSwitch" /\ a \notin Carriers
        /\ b \in Message /\ b.type = "ConnectionSwitch" /\ b.rnti = p /\ b \notin Carriers
        /\ k \in Links /\ k[1] = Lte /\ k[2] = o /\ k # <<Lte, Ue>>
    <3>1. a \in Message /\ a.type = "RrcConnectionSwitch"
      BY <2>1, <2>3, Messages DEF OfType
    <3>2. b \in Message /\ b.type = "ConnectionSwitch" /\ b.rnti = p
      BY <2>1, <2>3, Messages DEF OfType, ConnectionSwitchMsg
    <3>3. k \in Links /\ k[1] = Lte /\ k[2] = o /\ k # <<Lte, Ue>>
      BY <2>1, <2>3, Ends, CellsAreOthers
    <3> QED BY <3>1, <3>2, <3>3 DEF Carriers
  <2>5. \A x \in Links : sends[x] = IF x = k
                                    THEN IF command.useMmWave THEN << >> ELSE <<b>>
                                    ELSE IF x = <<Lte, Ue>> THEN <<a>> ELSE << >>
    BY <2>2, <2>4 DEF On
  <2>6. Each(<< >>) = {} /\ Each(<<a>>) = {a} /\ Each(<<b>>) = {b}
    BY <2>4, EachOf
  <2>7. \A x \in Links : \A n \in Each(sends[x]) :
           \/ n = b /\ x = k
           \/ n = a
    BY <2>5, <2>6
  <2>8. \A x \in Links : \A n \in Each(sends[x]) :
           /\ Proper(x, n) /\ n \notin Carriers
           /\ n.type \notin {"UeContextRelease", "SnStatusTransfer"}
    BY <2>3, <2>4, <2>7 DEF Proper
  <2>9. /\ Known' /\ AllProper' /\ StatusesFit' /\ ReleasesFit'
        /\ ForwardsWhileLeaving' /\ Owned'
    BY <1>0, <1>2, <1>6, <2>8, CommandKeeps
  <2>10. InOrder'
    <3>1. \A c \in Cell :
             \/ sends[<<Lte, c>>] = << >>
             \/ sends[<<Lte, c>>] = <<b>> /\ c = o
      <4>1. ASSUME NEW c \in Cell PROVE <<Lte, c>> \in Links /\ <<Lte, c>> # <<Lte, Ue>>
                                        /\ (<<Lte, c>> = k => c = o)
        BY <2>1, Ends, CellsAreOthers
      <4> QED BY <2>5, <4>1
    <3>2. b.rnti \in ServedAt(o)
      BY <1>0, <2>4 DEF ServedAt
    <3> QED BY <1>2, <2>4, <3>1, <3>2, OrderOfCommand
  <2>11. CarriersFit' /\ AccessFits' /\ RestFits'
    <3>1. Stays
      BY <1>2, <1>3, StaysAlone
    <3>2. Waiting => Waiting'
      BY <1>0, <1>2, <1>6, Starts DEF Waiting, Decide
    <3>3. \A x \in Links : Each(sends[x]) \cap Carriers = {}
      BY <2>8
    <3> QED BY <1>2, <1>4, <3>1, <3>2, <3>3, BystanderFits
  <2> QED BY <2>9, <2>10, <2>11 DEF ContextInv
<1>7. CASE command.type # "McHandoverRequest" /\ ~(command.type = "ConnectionSwitch" /\ o # 0)
  <2>1. sends = Nothing
    BY <1>0, <1>1, <1>7, Transmissions
  <2>2. \A x \in Links : link'[x] = link[x]
    <3>1. \A x \in Links : link'[x] = link[x] \o << >>
      BY <1>2, <2>1 DEF Exchange, Nothing
    <3>2. \A x \in Links : link[x] \in Seq(Message)
      BY DEF Typed, TypeOK
    <3>3. \A t \in Seq(Message) : t \o << >> = t
      OBVIOUS
    <3> QED BY <3>1, <3>2, <3>3
  <2>3. UNCHANGED link
    <3>1. link' = [x \in Links |-> link'[x]] /\ link = [x \in Links |-> link[x]]
      BY <1>2 DEF Exchange, Typed, TypeOK
    <3> QED BY <2>2, <3>1
  <2>4. Waiting => Waiting'
    BY <1>0, <1>2, <1>7, Starts DEF Waiting, Decide
  <2> QED BY <1>2, <1>3, <2>3, <2>4, AloneFits
<1> QED BY <1>5, <1>6, <1>7

-----------------------------------------------------------------------------
LEMMA InitFits == Init => ContextInv
<1> SUFFICES ASSUME Init PROVE ContextInv
  OBVIOUS
<1>1. /\ coordinator.cell = 0 /\ lastCell = 0 /\ lastRnti = imsiRnti
      /\ ue.state = "CONNECTED_NORMALLY" /\ ue.cell = 0
      /\ \A c \in Cell : /\ forwarding[c] = 0 /\ imsiRnti[c] = 0
                         /\ \A r \in Rnti : context[c][r] = NoContext
      /\ \A l \in Links : link[l] = << >>
  BY DEF Init, DecisionInit
<1>2. \A l \in Links : Flying(l) = {}
  BY <1>1 DEF Flying, Each
<1>3. AllProper /\ CarriersFit /\ StatusesFit /\ ReleasesFit
  BY <1>2 DEF AllProper, CarriersFit, StatusesFit, ReleasesFit
<1>4. Known
  BY <1>1 DEF Known, BeforeConnect, ServedKnown
<1>5. AccessFits /\ RestFits
  BY <1>1 DEF AccessFits, RestFits
<1>6. Owned
  BY <1>1 DEF Owned
<1>7. InOrder
  <2>1. \A S : LinkOrder(<< >>, S)
    <3>1. 1 .. Len(<< >>) = {}
      OBVIOUS
    <3> QED BY <3>1 DEF LinkOrder, Once
  <2> QED BY <1>1, <2>1, Ends DEF InOrder
<1>8. ForwardsWhileLeaving
  BY <1>1, NoContextIsNone DEF ForwardsWhileLeaving
<1> QED BY <1>3, <1>4, <1>5, <1>6, <1>7, <1>8 DEF ContextInv

LEMMA StepFits ==
    ASSUME Inv, ContextInv, ~Timeouts, [Next]_vars
    PROVE  ContextInv'
<1>1. Typed /\ OnItsWay /\ Decision!IInv
  BY DEF Inv
<1>2. CASE Local \/ UNCHANGED vars
  BY <1>1, <1>2, LocalFits
<1>3. CASE Decide
  BY <1>1, <1>3, DecideFits
<1>4. ASSUME NEW c \in Cell, CellNext(c) PROVE ContextInv'
  <2>1. ASSUME NEW d \in Cell \ {c}, RecvHandoverRequest(d, c) PROVE ContextInv'
    BY <1>1, <2>1, HandoverRequestFits, RejectFits
  <2>2. ASSUME NEW d \in Cell \ {c},
               \/ RecvHandoverRequestAck(d, c) \/ RecvHandoverPreparationFailure(d, c)
               \/ RecvSnStatusTransfer(d, c)
        PROVE  ContextInv'
    BY <1>1, <2>2, AckFits, FailureFits, SnStatusFits
  <2>3. ~RecvNotifyCoordinatorHandoverFailed(c)
    BY <1>1, NotifyNever
  <2> QED
    BY <1>1, <1>4, <2>1, <2>2, <2>3, McRequestFits, ArrivalFits, UeReleaseFits, SwitchFits,
       CommandFits, ConnectFits, CompleteFits
    DEF CellNext
<1>5. CASE UeRandomAccessSuccessful \/ UeRecvRrcConnectionSwitch
  BY <1>1, <1>5, AccessSucceeds, RrcSwitchFits
<1>6. CASE Timeout
  BY <1>1, <1>6, TimeoutNever
<1> QED BY <1>2, <1>3, <1>4, <1>5, <1>6 DEF Next

-----------------------------------------------------------------------------
(***************************************************************************)
(* What the messages meet.                                                 *)
(***************************************************************************)

\* A cell that is asked for a handover has at most the context that it is to
\* release, which is for the RNTI it allocated last.
LEMMA TargetHasRnti ==
    ASSUME Typed, OnItsWay, ContextInv, MaxRnti >= 3,
           NEW l \in Links, HeadIs(l, "HandoverRequest")
    PROVE  FreeRntis(l[2]) # {}
<1>0. PICK h, c, i : h = Head(link[l]) /\ c = l[2] /\ i = lastRnti[c]
  OBVIOUS
<1>1. /\ h \in Flying(l) /\ h \in Message /\ h.type = "HandoverRequest" /\ h \in Carriers
      /\ CarrierFits(l, h) /\ coordinator.cell # 0 /\ coordinator.cell \in Cell
      /\ coordinator.rnti \in Rnti
  BY <1>0, HeadFits
<1>2. l[1] = coordinator.cell /\ UeAtSource /\ c \in Cell /\ c # coordinator.cell
  BY <1>0, <1>1 DEF CarrierFits, ContextInv, AllProper, Proper
<1>3. i \in 0 .. MaxRnti /\ imsiRnti[c] = i
  BY <1>0, <1>2 DEF Typed, TypeOK, ContextInv, Known
<1>4. \A q \in Rnti : ~Invited(c, q)
  <2> SUFFICES ASSUME NEW q \in Rnti, Invited(c, q) PROVE FALSE
    OBVIOUS
  <2>1. Joining(c, q, "HANDOVER_JOINING") \/ Joining(c, q, "CONNECTED_NORMALLY")
    BY <1>2, InvitedJoins
  <2>2. \A x \in Links : \A y \in Flying(x) \cap Carriers : x = l /\ y = h
    <3>1. ~Free
      BY <1>1 DEF Free, None, Flying, Each
    <3>2. PICK j \in Links : OnlyOn(j)
      BY <3>1 DEF OnItsWay
    <3>3. \A x \in Links : x # j => Flying(x) \cap Carriers = {}
      BY <3>2 DEF OnlyOn, None, Flying, Each
    <3>4. j = l
      BY <1>1, <3>3
    <3>5. \A y \in Flying(l) \cap Carriers : y = h
      BY <1>1, <3>2, <3>4 DEF OnlyOn, Once, Flying, Each
    <3> QED BY <3>3, <3>4, <3>5
  <2>3. CASE ue.cell # coordinator.cell
    BY <1>2, <2>3 DEF UeAtSource, UeAt
  <2>4. CASE HandoverRequestAck(coordinator.rnti, q) \in Flying(<<c, coordinator.cell>>)
    <3>1. /\ HandoverRequestAck(coordinator.rnti, q) \in Carriers
          /\ HandoverRequestAck(coordinator.rnti, q).type = "HandoverRequestAck"
      BY <1>1, Messages DEF OfType, Carriers
    <3>2. <<c, coordinator.cell>> \in Links
      BY <1>1, <1>2, Ends
    <3>3. HandoverRequestAck(coordinator.rnti, q) = h
      BY <2>2, <2>4, <3>1, <3>2
    <3> QED BY <1>1, <3>1, <3>3
  <2>5. CASE HandoverCommand(c, q) \in Flying(<<coordinator.cell, Ue>>)
    <3>1. HandoverCommand(c, q) \in Carriers /\ HandoverCommand(c, q).type = "HandoverCommand"
      BY <1>2, Messages DEF OfType, Carriers
    <3>2. HandoverCommand(c, q) = h
      BY <1>1, <2>2, <2>5, <3>1, Ends
    <3> QED BY <1>1, <3>1, <3>2
  <2> QED BY <2>3, <2>4, <2>5 DEF Invited
<1>5. \A q \in Rnti : context[c][q] # NoContext => Released(c, q)
  BY <1>2, <1>4 DEF ContextInv, Owned, Served
<1>6. \A q \in Rnti : context[c][q] # NoContext => q = i
  <2> SUFFICES ASSUME NEW q \in Rnti, context[c][q] # NoContext, q # i PROVE FALSE
    OBVIOUS
  <2>1. Released(c, q) /\ HasContext(c, i)
    BY <1>2, <1>3, <1>5, ReleasedLeaves
  <2>2. i \in Rnti /\ Released(c, i)
    BY <1>5, <2>1 DEF HasContext
  <2> QED BY <1>2, <2>1, <2>2, ReleasedLeaves
<1>7. PICK r : r = IF i = MaxRnti THEN 1 ELSE i + 1
  OBVIOUS
<1>8. MaxRnti \in Nat /\ r \in 1 .. MaxRnti /\ r # i
  BY ONLY <1>3, <1>7, NetworkAssumption, MaxRnti >= 3
<1>9. (r - i - 1) % (MaxRnti + 1) < MaxRnti - 1
  <2>1. CASE i = MaxRnti
    <3>1. r - i - 1 = - MaxRnti
      BY <1>7, <1>8, <2>1
    <3>2. (- MaxRnti) % (MaxRnti + 1) = 1
      BY ONLY <1>8, MaxRnti >= 3
    <3> QED BY <1>8, <3>1, <3>2
  <2>2. CASE i # MaxRnti
    <3>1. r - i - 1 = 0
      BY <1>3, <1>7, <1>8, <2>2
    <3>2. 0 % (MaxRnti + 1) = 0
      BY ONLY <1>8, MaxRnti >= 3
    <3> QED BY <1>8, <3>1, <3>2
  <2> QED BY <2>1, <2>2
<1>10. r \in FreeRntis(c)
  BY <1>0, <1>6, <1>8, <1>9 DEF FreeRntis, Distance, Rnti
<1> QED BY <1>0, <1>10

LEMMA HeadExpected ==
    ASSUME Inv, ContextInv, MaxRnti >= 3, NEW l \in Links, link[l] # << >>,
           Head(link[l]).type # "HandoverPreparationFailure"
    PROVE  Expected(l, Head(link[l]))
<1>0. PICK m, c, t : m = Head(link[l]) /\ c = l[2] /\ t = m.type
  OBVIOUS
<1>1. Typed /\ OnItsWay /\ Decision!IInv /\ HeadIs(l, t)
  BY <1>0 DEF Inv, HeadIs
<1>2. m \in Flying(l) /\ m \in Message
  BY <1>0, <1>1, HeadFlies DEF OfType
<1>3. /\ coordinator.cell \in Cell /\ coordinator.rnti \in Rnti
      /\ imsiRnti[coordinator.cell] = coordinator.rnti
      /\ context[coordinator.cell][coordinator.rnti] \in Context
  BY <1>1, <1>2, Flies DEF ContextInv
<1>4. Proper(l, m) /\ CarrierFits(l, m) /\ StatusFits(l, m) /\ ReleaseFits(l, m)
  BY <1>2 DEF ContextInv, AllProper, CarriersFit, StatusesFit, ReleasesFit
<1>5. \A e \in Cell, r \in Rnti : \A st \in States :
         context[e][r].state = st => HasContext(e, r)
  BY <1>1, StateOf
<1>6. {"CONNECTED_NORMALLY", "HANDOVER_PREPARATION", "HANDOVER_LEAVING", "HANDOVER_JOINING"}
         \subseteq States
  BY DEF States
<1>7. CASE t = "McHandoverRequest"
  <2>1. c = coordinator.cell /\ m.target # c /\ Serving("CONNECTED_NORMALLY")
    BY <1>0, <1>4, <1>7 DEF CarrierFits
  <2>2. ContextIn(c, imsiRnti[c], {"CONNECTED_NORMALLY"})
    BY <1>3, <1>5, <1>6, <2>1 DEF ContextIn, Serving
  <2> QED BY <1>0, <1>7, <2>1, <2>2 DEF Expected
<1>8. CASE t = "HandoverRequest"
  <2>1. FreeRntis(c) # {}
    BY <1>0, <1>1, <1>8, TargetHasRnti
  <2> QED BY <1>0, <1>8, <2>1 DEF Expected
<1>9. CASE t = "HandoverRequestAck"
  <2>1. c = coordinator.cell /\ m.old = coordinator.rnti /\ Serving("HANDOVER_PREPARATION")
    BY <1>0, <1>4, <1>9 DEF CarrierFits
  <2>2. ContextIn(c, m.old, {"HANDOVER_PREPARATION"})
    BY <1>3, <1>5, <1>6, <2>1 DEF ContextIn, Serving
  <2>3. forwarding[c] = 0
    <3> SUFFICES ASSUME NEW q \in Rnti, context[c][q].state = "HANDOVER_LEAVING" PROVE FALSE
      BY <1>3, <2>1 DEF ContextInv, ForwardsWhileLeaving
    <3>1. Served(c, q) \/ Released(c, q)
      BY <1>1, <1>3, <2>1, LeavingIs
    <3>2. CASE Served(c, q)
      BY <2>1, <3>2 DEF Served, Serving
    <3>3. CASE Released(c, q)
      <4>1. Serving("CONNECTED_NORMALLY")
        BY <1>1, <1>3, <2>1, <3>3, ReleasedLeaves
      <4> QED BY <2>1, <4>1 DEF Serving
    <3> QED BY <3>1, <3>2, <3>3
  <2> QED BY <1>0, <1>9, <2>2, <2>3 DEF Expected
<1>10. CASE t = "SnStatusTransfer"
  <2>1. /\ c \in Cell /\ m.new \in Rnti
        /\ context[c][m.new].state \in {"HANDOVER_JOINING", "CONNECTED_NORMALLY"}
    BY <1>0, <1>1, <1>2, <1>10, StatusIs
  <2>2. HasContext(c, m.new)
    BY <1>5, <1>6, <2>1
  <2> QED BY <1>0, <1>10, <2>2 DEF Expected
<1>11. CASE t = "ReconfigurationCompleted"
  <2>1. Joining(c, m.rnti, "HANDOVER_JOINING")
    BY <1>0, <1>4, <1>11 DEF CarrierFits
  <2>2. ContextIn(c, m.rnti, {"HANDOVER_JOINING"})
    BY <1>5, <1>6, <2>1 DEF ContextIn, Joining
  <2> QED BY <1>0, <1>11, <2>2 DEF Expected
<1>12. CASE t = "UeContextRelease"
  <2>1. c \in Cell /\ m.old \in Rnti /\ context[c][m.old].state = "HANDOVER_LEAVING"
    BY <1>0, <1>1, <1>2, <1>12, ReleaseIs DEF ReleaseFits
  <2>2. ContextIn(c, m.old, {"HANDOVER_LEAVING"})
    BY <1>5, <1>6, <2>1 DEF ContextIn
  <2>3. forwarding[c] # 0
    BY <2>1 DEF ContextInv, ForwardsWhileLeaving
  <2> QED BY <1>0, <1>12, <2>2, <2>3 DEF Expected
<1>13. CASE t = "ConnectionSwitch"
  <2>1. c \in Cell /\ l[1] = Lte /\ m.rnti \in Rnti
    BY <1>0, <1>2, <1>4, <1>13, Fields DEF Proper
  <2>2. l = <<Lte, c>>
    BY <1>0, <2>1, LinkEnds
  <2>3. LinkOrder(link[l], ServedAt(c)) /\ link[l] \in Seq(Message)
    BY <1>1, <2>1, <2>2 DEF ContextInv, InOrder, Typed, TypeOK
  <2>4. \/ m.rnti \in ServedAt(c)
        \/ \E y \in Flying(l) : y \in Releases /\ y.old = m.rnti
    BY <1>0, <1>13, <2>3, OrderOfTail DEF Flying
  <2>5. HasContext(c, m.rnti)
    <3>1. CASE m.rnti \in ServedAt(c)
      <4>1. c = coordinator.cell /\ m.rnti = coordinator.rnti
        BY <3>1 DEF ServedAt
      <4> QED BY <1>3, <4>1, NoContextIsNone DEF HasContext
    <3>2. CASE \E y \in Flying(l) : y \in Releases /\ y.old = m.rnti
      <4>1. PICK y \in Flying(l) : y.type = "UeContextRelease" /\ y.old = m.rnti
        BY <3>2 DEF Releases, OfType
      <4>2. context[c][m.rnti].state = "HANDOVER_LEAVING"
        BY <1>0, <1>1, <4>1, ReleaseIs DEF ReleaseFits
      <4> QED BY <1>5, <1>6, <2>1, <4>2
    <3> QED BY <2>4, <3>1, <3>2
  <2>6. context[c][m.rnti].rlc
    BY <2>1, <2>5 DEF ContextInv, Owned, HasContext
  <2> QED BY <1>0, <1>13, <2>5, <2>6 DEF Expected
<1>14. CASE t = "HandoverCommand"
  <2>1. l[1] = coordinator.cell /\ UeAtSource
    BY <1>0, <1>4, <1>14 DEF CarrierFits
  <2> QED BY <1>0, <1>14, <2>1 DEF Expected, UeAtSource, UeAt
<1>15. CASE t = "SecondaryCellHandoverCompleted"
  <2>1. Joining(l[1], m.new, "CONNECTED_NORMALLY") /\ m \in Carriers
    BY <1>0, <1>2, <1>4, <1>15 DEF CarrierFits, Carriers
  <2>2. ~Free
    BY <1>2, <2>1 DEF Free, None, Flying, Each
  <2>3. Waiting
    BY <1>1, <2>2 DEF OnItsWay
  <2>4. setup = "false" /\ lastCell # l[1]
    BY <2>1, <2>3 DEF Waiting, Joining, ContextInv, Known
  <2> QED BY <1>0, <1>15, <2>4 DEF Expected
<1>16. CASE t = "RrcConnectionSwitch"
  BY <1>0, <1>16 DEF Expected
<1>17. t # "NotifyCoordinatorHandoverFailed"
  BY <1>0, <1>4 DEF Proper
<1>18. t \in {"McHandoverRequest", "HandoverRequest", "HandoverRequestAck", "SnStatusTransfer",
              "ReconfigurationCompleted", "UeContextRelease", "ConnectionSwitch",
              "HandoverCommand", "SecondaryCellHandoverCompleted", "RrcConnectionSwitch",
              "HandoverPreparationFailure", "NotifyCoordinatorHandoverFailed"}
  BY <1>0, <1>2 DEF Message, NotifyCoordinatorHandoverFailed
<1> QED
  BY <1>0, <1>7, <1>8, <1>9, <1>10, <1>11, <1>12, <1>13, <1>14, <1>15, <1>16, <1>17, <1>18

-----------------------------------------------------------------------------
LEMMA InvariantOfContexts ==
    ASSUME ~Timeouts
    PROVE  Spec => [](Inv /\ ContextInv)
<1>1. Init => Inv /\ ContextInv
  BY InvInit, InitFits
<1>2. Inv /\ ContextInv /\ [Next]_vars => Inv' /\ ContextInv'
  BY InvStep, StepFits
<1> QED BY <1>1, <1>2, PTL DEF Spec

LEMMA QuietAgrees ==
    ASSUME Inv, ContextInv
    PROVE  AgreementWhenQuiet
<1> SUFFICES ASSUME Quiet, setup = "true"
             PROVE  /\ coordinator.cell = lastCell
                    /\ ue.state = "CONNECTED_NORMALLY"
                    /\ coordinator = [cell |-> ue.cell, rnti |-> ue.rnti]
                    /\ imsiRnti[ue.cell] = ue.rnti
                    /\ \A c \in Cell, r \in Rnti :
                          context[c][r].state = IF <<c, r>> = <<ue.cell, ue.rnti>>
                                                THEN "CONNECTED_NORMALLY" ELSE "none"
                    /\ \A c \in Cell : forwarding[c] = 0
  BY DEF AgreementWhenQuiet
<1>1. coordinator.cell = lastCell /\ coordinator.cell # 0 /\ ~Waiting
  BY WaitingFacts DEF Inv, ContextInv, Known, Waiting
<1>2. Free /\ \A l \in Links : Flying(l) = {}
  <2>1. \A l \in Links : link[l] = << >> /\ 1 .. Len(link[l]) = {}
    BY DEF Quiet
  <2> QED BY <2>1 DEF Free, None, Flying, Each
<1>3. ue.state = "CONNECTED_NORMALLY"
  BY <1>1 DEF Inv, OnItsWay, Typed, TypeOK
<1>4. UeAtSource /\ Serving("CONNECTED_NORMALLY")
  BY <1>1, <1>2, <1>3 DEF ContextInv, RestFits
<1>5. ue.cell = coordinator.cell /\ ue.rnti = coordinator.rnti /\ coordinator.cell \in Cell
  BY <1>4 DEF UeAtSource, UeAt, Serving
<1>6. coordinator = [cell |-> ue.cell, rnti |-> ue.rnti]
  BY <1>5 DEF Inv, Typed, TypeOK
<1>7. imsiRnti[ue.cell] = ue.rnti
  BY <1>1, <1>5 DEF ContextInv, Known, ServedKnown
<1>8. ASSUME NEW c \in Cell, NEW r \in Rnti, <<c, r>> # <<ue.cell, ue.rnti>>
      PROVE  context[c][r] = NoContext
  <2> SUFFICES ASSUME context[c][r] # NoContext PROVE FALSE
    OBVIOUS
  <2>1. Released(c, r) \/ Invited(c, r)
    BY <1>5, <1>8 DEF ContextInv, Owned, Served
  <2>2. ~Released(c, r)
    BY <1>2, Ends DEF Released
  <2>3. ~Invited(c, r)
    <3>1. c # coordinator.cell => Flying(<<c, coordinator.cell>>) = {}
      <4>1. c # coordinator.cell => <<c, coordinator.cell>> \in Links
        BY <1>5, Ends
      <4> QED BY <1>2, <4>1
    <3>2. Flying(<<coordinator.cell, Ue>>) = {}
      <4>1. <<coordinator.cell, Ue>> \in Links
        BY <1>5, Ends
      <4> QED BY <1>2, <4>1
    <3> QED BY <1>5, <3>1, <3>2 DEF Invited
  <2> QED BY <2>1, <2>2, <2>3
<1>9. ASSUME NEW c \in Cell, NEW r \in Rnti
      PROVE  context[c][r].state = IF <<c, r>> = <<ue.cell, ue.rnti>>
                                   THEN "CONNECTED_NORMALLY" ELSE "none"
  BY <1>4, <1>5, <1>8, NoContextIsNone DEF Serving
<1>10. \A c \in Cell : forwarding[c] = 0
  <2>1. \A c \in Cell, r \in Rnti : context[c][r].state # "HANDOVER_LEAVING"
    BY <1>9
  <2> QED BY <2>1 DEF ContextInv, ForwardsWhileLeaving
<1> QED BY <1>1, <1>3, <1>6, <1>7, <1>9, <1>10

\* Where handovers do not time out, the coordinator, the cell and the UE agree
\* on where the UE is when nothing is in flight, for any number of cells and
\* any that reject: no other context and no forwarding entry is left behind.
THEOREM Agreement ==
    ASSUME ~Timeouts
    PROVE  Spec => []AgreementWhenQuiet
<1>1. Inv /\ ContextInv => AgreementWhenQuiet
  BY QuietAgrees
<1>2. Spec => [](Inv /\ ContextInv)
  BY InvariantOfContexts
<1> QED BY <1>1, <1>2, PTL

\* Where handovers do not time out, a cell forwards the bearer's data as long
\* as it keeps the context of a UE that it has commanded away, and no longer
\* (m_teidToBeForwardedMap).
THEOREM Forwarding ==
    ASSUME ~Timeouts
    PROVE  Spec => []ForwardsWhileLeaving
<1>1. Inv /\ ContextInv => ForwardsWhileLeaving
  BY DEF ContextInv
<1>2. Spec => [](Inv /\ ContextInv)
  BY InvariantOfContexts
<1> QED BY <1>1, <1>2, PTL

\* Where handovers do not time out, the downlink data of the coordinator finds
\* the context and its RLC entity: no chain of handovers loses the request
\* that sets the bearer up.
THEOREM Downlink ==
    ASSUME ~Timeouts
    PROVE  Spec => []DownlinkHasRlc
<1>1. Inv /\ ContextInv => DownlinkHasRlc
  <2> SUFFICES ASSUME Inv, ContextInv, coordinator.cell # 0
               PROVE  /\ HasContext(coordinator.cell, coordinator.rnti)
                      /\ context[coordinator.cell][coordinator.rnti].rlc
    BY DEF DownlinkHasRlc
  <2>1. HasContext(coordinator.cell, coordinator.rnti)
    BY DEF ContextInv, Known, ServedKnown
  <2>2. coordinator.cell \in Cell
    BY DEF Inv, Typed, TypeOK
  <2> QED BY <2>1, <2>2 DEF ContextInv, Owned, HasContext
<1>2. Spec => [](Inv /\ ContextInv)
  BY InvariantOfContexts
<1> QED BY <1>1, <1>2, PTL

\* The first message of a link is handled as its procedure expects, or is the
\* rejection of a handover by its target.
HandledOrRejected ==
    \A l \in Links :
        link[l] # << >> => \/ Head(link[l]).type = "HandoverPreparationFailure"
                           \/ Expected(l, Head(link[l]))

\* Where handovers do not time out, a message other than a rejection finds its
\* receiver in the state of its procedure, whichever cells reject, and a cell
\* that is asked for a handover has an RNTI left: three are enough of the 65535.
THEOREM MessagesAreExpected ==
    ASSUME ~Timeouts, MaxRnti >= 3
    PROVE  Spec => []HandledOrRejected
<1>1. Inv /\ ContextInv => HandledOrRejected
  BY HeadExpected DEF HandledOrRejected
<1>2. Spec => [](Inv /\ ContextInv)
  BY InvariantOfContexts
<1> QED BY <1>1, <1>2, PTL

\* Where, besides, every cell admits handovers, no message at all meets a
\* failing assertion or an unexpected state.
THEOREM NoMessageIsUnexpected ==
    ASSUME ~Timeouts, MaxRnti >= 3, AdmittingCells = Cell
    PROVE  Spec => []NoUnexpectedMessage
<1>1. Inv /\ ContextInv => NoUnexpectedMessage
  <2> SUFFICES ASSUME Inv, ContextInv,
                      NEW l \in Links, link[l] # << >>
               PROVE  Expected(l, Head(link[l]))
    BY DEF NoUnexpectedMessage
  <2>1. Head(link[l]) \in Flying(l)
    BY EachOf DEF Flying, Inv, Typed, TypeOK
  <2>2. Head(link[l]).type # "HandoverPreparationFailure"
    BY <2>1 DEF ContextInv, AllProper, Proper
  <2> QED BY <2>2, HeadExpected
<1>2. Spec => [](Inv /\ ContextInv)
  BY InvariantOfContexts
<1> QED BY <1>1, <1>2, PTL
=============================================================================
