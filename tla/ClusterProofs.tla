--------------------------- MODULE ClusterProofs ---------------------------
(***************************************************************************)
(* Routing is safe for any number of slots, keys, connections and nodes.   *)
(* The argument does not depend on the nodes map: what matters is that,    *)
(* while the server runs, slots change hands only towards this node, so a  *)
(* lookup that succeeded still holds when the command is executed.         *)
(***************************************************************************)
EXTENDS Cluster, FiniteSetTheorems, SequenceTheorems, TLAPS

\* What a step may assume of the slot map and of the connections.
RouteTypes ==
    /\ owner \in [Slots -> Ids \cup {None}]
    /\ pc \in [Conns -> {"idle", "set", "del"}]
    /\ key \in [Conns -> Keys \cup {None}]
    /\ store \subseteq Keys

\* Before the server runs there is no command and no key; a command past its lookup has a
\* target key whose slot this node still owns.
RouteInv ==
    /\ RouteTypes
    /\ ~serving => store = {} /\ \A c \in Conns : pc[c] = "idle"
    /\ \A c \in Conns : pc[c] # "idle" => key[c] \in Keys /\ OwnsSlot(SlotOf[key[c]])
    /\ StoredKeysOwned

\* add_slots_range for this node keeps the slots it owns, and keeps the map well-formed.
LEMMA OwnerAfterKeeps ==
    ASSUME NEW own \in [Slots -> Ids \cup {None}], NEW id \in Ids, NEW ranges
    PROVE  /\ OwnerAfter(own, id, ranges) \in [Slots -> Ids \cup {None}]
           /\ id = Me => \A s \in Slots : own[s] = Me => OwnerAfter(own, id, ranges)[s] = Me
  BY DEF OwnerAfter

\* The specification's first state satisfies the invariant.
LEMMA RouteInit == Init => RouteInv
<1> SUFFICES ASSUME Init PROVE RouteInv
    OBVIOUS
<1>1. PICK spec \in SlotSpecs :
          owner = OwnerAfter([s \in Slots |-> None], Me, Accepted(spec))
    BY DEF Init
<1> DEFINE empty == [s \in Slots |-> None]
<1>2. empty \in [Slots -> Ids \cup {None}] /\ Me \in Ids
    BY ClusterAssumption
<1>3. owner \in [Slots -> Ids \cup {None}]
    BY <1>1, <1>2, OwnerAfterKeeps
<1>4. QED
    BY <1>3 DEF Init, RouteInv, RouteTypes, StoredKeysOwned

\* A step that changes the slot map only by add_slots_range for this node, or not at all,
\* and leaves commands and keys alone, preserves the invariant.
LEMMA SlotsOnlyGained ==
    ASSUME RouteInv, owner' \in [Slots -> Ids \cup {None}],
           \A s \in Slots : owner[s] = Me => owner'[s] = Me,
           serving' = serving \/ serving' = TRUE, UNCHANGED <<store, pc, key>>
    PROVE  RouteInv'
  BY ClusterAssumption DEF RouteInv, RouteTypes, StoredKeysOwned, OwnsSlot

\* Every step preserves the invariant.
LEMMA RouteStep == RouteInv /\ [Next]_vars => RouteInv'
<1> SUFFICES ASSUME RouteInv, [Next]_vars PROVE RouteInv'
    OBVIOUS
<1> USE DEF RouteInv
<1>1. ASSUME NEW id \in Ids, SetupNode(id) PROVE RouteInv'
    BY <1>1, SlotsOnlyGained DEF SetupNode, RouteTypes
<1>2. ASSUME NEW id \in Ids, NEW a \in Slots, NEW b \in Slots, SetupSlots(id, <<a, b>>)
      PROVE  RouteInv'
  <2>1. owner' \in [Slots -> Ids \cup {None}]
      BY <1>2, OwnerAfterKeeps DEF SetupSlots, RouteTypes
  <2>2. QED
      BY <1>2, <2>1 DEF SetupSlots, RouteTypes, StoredKeysOwned
<1>3. CASE Serve
    BY <1>3, SlotsOnlyGained DEF Serve, RouteTypes
<1>4. ASSUME NEW id \in MeetIds, Meet(id) PROVE RouteInv'
    BY <1>4, SlotsOnlyGained DEF Meet, RouteTypes
<1>5. ASSUME NEW ss \in SlotArgs, AddSlots(ss) PROVE RouteInv'
  <2> DEFINE ranges == Accepted([i \in DOMAIN ss |-> <<ss[i], ss[i]>>])
  <2>1. owner' = OwnerAfter(owner, Me, ranges) /\ UNCHANGED <<serving, store, pc, key>>
      BY <1>5 DEF AddSlots
  <2> HIDE DEF ranges
  <2>2. /\ owner' \in [Slots -> Ids \cup {None}]
        /\ \A s \in Slots : owner[s] = Me => owner'[s] = Me
      BY <2>1, OwnerAfterKeeps, ClusterAssumption DEF RouteTypes
  <2>3. QED
      BY <2>1, <2>2, SlotsOnlyGained
<1>6. ASSUME NEW c \in Conns, NEW k \in Keys, NEW op \in {"set", "del"}, Route(c, k, op)
      PROVE  RouteInv'
    BY <1>6 DEF Route, RouteTypes, StoredKeysOwned, OwnsSlot
<1>7. ASSUME NEW c \in Conns, ExecuteSet(c) PROVE RouteInv'
    BY <1>7 DEF ExecuteSet, RouteTypes, StoredKeysOwned, OwnsSlot
<1>8. ASSUME NEW c \in Conns, NEW others \in SUBSET Keys, ExecuteDel(c, others)
      PROVE  RouteInv'
    BY <1>8 DEF ExecuteDel, RouteTypes, StoredKeysOwned, OwnsSlot
<1>9. CASE UNCHANGED vars
    BY <1>9, SlotsOnlyGained DEF vars, RouteTypes
<1>10. QED
    BY <1>1, <1>2, <1>3, <1>4, <1>5, <1>6, <1>7, <1>8, <1>9 DEF Next

\* The invariant holds throughout.
LEMMA RouteAlways == Spec => []RouteInv
  BY RouteInit, RouteStep, PTL DEF Spec

\* A key is stored only on a node that owns its slot, although the topology lock is released
\* between owns_slot and the execution of the command (Connection::handle).
THEOREM OnlyOwnedKeysStored == Spec => []StoredKeysOwned
<1>1. RouteInv => StoredKeysOwned
    BY DEF RouteInv
<1>2. QED
    BY RouteAlways, <1>1, PTL

\* While the server runs, no CLUSTER command takes away a slot this node owns.
THEOREM ServingKeepsSlots == Spec => OwnedSlotsKept
<1> DEFINE Kept == serving => \A s \in Slots : owner[s] = Me => owner'[s] = Me
<1>1. ASSUME RouteInv, Next, serving, NEW s \in Slots, owner[s] = Me PROVE owner'[s] = Me
  <2>1. ASSUME NEW ss \in SlotArgs, AddSlots(ss) PROVE owner'[s] = Me
      BY <1>1, <2>1 DEF AddSlots, OwnerAfter
  <2>2. CASE UNCHANGED owner
      BY <1>1, <2>2
  <2>3. QED
      BY <1>1, <2>1, <2>2
      DEF Next, SetupNode, SetupSlots, Serve, Meet, Route, ExecuteSet, ExecuteDel
<1>2. RouteInv /\ [Next]_vars => [Kept]_vars
    BY <1>1
<1>3. QED
    BY RouteAlways, <1>2, PTL DEF Spec, OwnedSlotsKept

-----------------------------------------------------------------------------
(* The nodes map *)

LEMMA IntervalSize ==
    ASSUME NEW n \in Nat
    PROVE  IsFiniteSet(1..n) /\ Cardinality(1..n) = n
<1>1. 1 \in Int /\ n \in Int
    OBVIOUS
<1>2. IsFiniteSet(1..n) /\ Cardinality(1..n) = IF 1 > n THEN 0 ELSE n - 1 + 1
    BY <1>1, FS_Interval, Zenon
<1> QED BY <1>2

\* What add_slots_range accepts of a list of ranges is a list of ranges.
LEMMA AcceptedType ==
    ASSUME NEW ranges \in Seq(Range2)
    PROVE  Accepted(ranges) \in Seq(Range2)
<1> DEFINE assigned == {i \in DOMAIN ranges : \A j \in 1..i : ValidRange(ranges[j])}
           n == Cardinality(assigned)
<1>1. DOMAIN ranges = 1..Len(ranges) /\ Len(ranges) \in Nat
    OBVIOUS
<1>2. IsFiniteSet(1..Len(ranges)) /\ Cardinality(1..Len(ranges)) = Len(ranges)
    BY <1>1, IntervalSize, Zenon
<1>3. assigned \subseteq 1..Len(ranges)
    BY <1>1
<1>4. n \in Nat /\ n <= Len(ranges)
  <2> HIDE DEF assigned
  <2>1. IsFiniteSet(assigned) /\ Cardinality(assigned) <= Cardinality(1..Len(ranges))
      BY <1>2, <1>3, FS_Subset
  <2>2. Cardinality(assigned) \in Nat
      BY <2>1, FS_CardinalityType
  <2> QED BY <1>2, <2>1, <2>2
<1> HIDE DEF n
<1>5. \A i \in 1..n : ranges[i] \in Range2
    BY <1>1, <1>4
<1>6. SubSeq(ranges, 1, n) \in Seq(Range2)
    BY <1>4, <1>5, SubSeqProperties
<1> QED BY <1>6 DEF Accepted, n

\* A list with more ranges covers what either part covers.
LEMMA CoversConcat ==
    ASSUME NEW old \in Seq(Range2), NEW ranges \in Seq(Range2), NEW s,
           Covers(old, s) \/ Covers(ranges, s)
    PROVE  Covers(old \o ranges, s)
<1>1. /\ Len(old) \in Nat /\ Len(ranges) \in Nat
      /\ DOMAIN old = 1..Len(old) /\ DOMAIN ranges = 1..Len(ranges)
      /\ DOMAIN (old \o ranges) = 1..(Len(old) + Len(ranges))
    OBVIOUS
<1>2. CASE Covers(old, s)
  <2>1. PICK i \in DOMAIN old : s \in old[i][1]..old[i][2]
      BY <1>2 DEF Covers
  <2>2. (old \o ranges)[i] = old[i] /\ i \in DOMAIN (old \o ranges)
      BY <1>1, <2>1
  <2> QED BY <2>1, <2>2 DEF Covers
<1>3. CASE Covers(ranges, s)
  <2>1. PICK i \in DOMAIN ranges : s \in ranges[i][1]..ranges[i][2]
      BY <1>3 DEF Covers
  <2>2. (old \o ranges)[Len(old) + i] = ranges[i] /\ Len(old) + i \in DOMAIN (old \o ranges)
      BY <1>1, <2>1
  <2> QED BY <2>1, <2>2 DEF Covers
<1> QED BY <1>2, <1>3

\* add_slots_range keeps the nodes map well-formed and all its nodes.
LEMMA NodesAfterType ==
    ASSUME NEW known, \A j \in DOMAIN known : known[j] \in Node,
           NEW id \in DOMAIN known, NEW ranges \in Seq(Range2)
    PROVE  /\ DOMAIN NodesAfter(known, id, ranges) = DOMAIN known
           /\ \A j \in DOMAIN known : NodesAfter(known, id, ranges)[j] \in Node
           /\ NodesAfter(known, id, ranges)[id].slots = known[id].slots \o ranges
           /\ \A j \in DOMAIN known : j # id => NodesAfter(known, id, ranges)[j] = known[j]
<1>1. known[id].slots \o ranges \in Seq(Range2)
    BY DEF Node
<1> QED BY <1>1 DEF NodesAfter, Node

\* This node is always in the map, and a slot's owner always is.
NodesInv ==
    /\ Me \in DOMAIN nodes /\ DOMAIN nodes \subseteq Ids
    /\ \A id \in DOMAIN nodes : nodes[id] \in Node
    /\ serving \in BOOLEAN
    /\ OwnersKnown

\* The arguments of ADDSLOTS are single-slot ranges.
LEMMA SingleSlots ==
    ASSUME NEW ss \in SlotArgs
    PROVE  Accepted([i \in DOMAIN ss |-> <<ss[i], ss[i]>>]) \in Seq(Range2)
<1>1. ss \in Seq(Nat)
    BY ClusterAssumption
<1>2. [i \in DOMAIN ss |-> <<ss[i], ss[i]>>] \in Seq(Range2)
    BY <1>1 DEF Range2
<1> QED BY <1>2, AcceptedType

\* What the two maps become when this node, or another known one, is given ranges.
LEMMA GivenRanges ==
    ASSUME NodesInv, NEW id \in DOMAIN nodes, NEW ranges \in Seq(Range2),
           owner' = OwnerAfter(owner, id, ranges), nodes' = NodesAfter(nodes, id, ranges),
           serving' = serving
    PROVE  NodesInv'
<1>1. /\ DOMAIN nodes' = DOMAIN nodes
      /\ \A j \in DOMAIN nodes : nodes'[j] \in Node
    BY NodesAfterType DEF NodesInv
<1>2. OwnersKnown'
    BY <1>1 DEF NodesInv, OwnersKnown, OwnerAfter
<1> QED BY <1>1, <1>2 DEF NodesInv

LEMMA NodesInit == Init => NodesInv
<1> SUFFICES ASSUME Init PROVE NodesInv
    OBVIOUS
<1>1. PICK spec \in SlotSpecs :
          /\ nodes = NodesAfter([id \in {Me} |-> NewNode(TRUE)], Me, Accepted(spec))
          /\ owner = OwnerAfter([s \in Slots |-> None], Me, Accepted(spec))
    BY DEF Init
<1> DEFINE ranges == Accepted(spec)
           alone == [id \in {Me} |-> NewNode(TRUE)]
<1>2. ranges \in Seq(Range2)
    BY AcceptedType, ClusterAssumption
<1>3. DOMAIN alone = {Me} /\ alone[Me] \in Node
    BY DEF NewNode, Node
<1> HIDE DEF ranges, alone
<1>4. DOMAIN nodes = {Me} /\ nodes[Me] \in Node
    BY <1>1, <1>2, <1>3, NodesAfterType DEF ranges, alone
<1>5. OwnersKnown
    BY <1>1, <1>4 DEF OwnersKnown, OwnerAfter
<1> QED BY <1>4, <1>5, ClusterAssumption DEF NodesInv, Init

\* A node added or replaced by add_node.
LEMMA NodeAdded ==
    ASSUME NodesInv, NEW id \in Ids, UNCHANGED <<owner, serving>>,
           nodes' = AddNode(nodes, id, NewNode(FALSE))
    PROVE  NodesInv'
<1>1. DOMAIN nodes' = DOMAIN nodes \cup {id}
    BY DEF AddNode
<1>2. \A j \in DOMAIN nodes' :
          nodes'[j] = NewNode(FALSE) \/ (j \in DOMAIN nodes /\ nodes'[j] = nodes[j])
    BY DEF AddNode
<1>3. NewNode(FALSE) \in Node
    BY DEF NewNode, Node
<1> QED BY <1>1, <1>2, <1>3 DEF NodesInv, OwnersKnown

\* Every step keeps the map well-formed and the owners known.
LEMMA NodesStep == NodesInv /\ [Next]_vars => NodesInv'
<1> SUFFICES ASSUME NodesInv, [Next]_vars PROVE NodesInv'
    OBVIOUS
<1>1. ASSUME NEW id \in Ids, SetupNode(id) PROVE NodesInv'
    BY <1>1, NodeAdded DEF SetupNode
<1>2. ASSUME NEW id \in Ids, NEW a \in Slots, NEW b \in Slots, SetupSlots(id, <<a, b>>)
      PROVE  NodesInv'
  <2>1. <<<<a, b>>>> \in Seq(Range2)
      BY ClusterAssumption DEF Slots, Range2
  <2> QED BY <1>2, <2>1, GivenRanges DEF SetupSlots
<1>3. ASSUME NEW id \in MeetIds, Meet(id) PROVE NodesInv'
    BY <1>3, NodeAdded, ClusterAssumption DEF Meet
<1>4. ASSUME NEW ss \in SlotArgs, AddSlots(ss) PROVE NodesInv'
    BY <1>4, SingleSlots, GivenRanges DEF AddSlots, NodesInv
<1>5. CASE UNCHANGED <<nodes, owner>> /\ serving' \in BOOLEAN
    BY <1>5 DEF NodesInv, OwnersKnown
<1>6. CASE Serve
    BY <1>5, <1>6 DEF Serve
<1>7. ASSUME NEW c \in Conns, NEW k \in Keys, NEW op \in {"set", "del"}, Route(c, k, op)
      PROVE  NodesInv'
    BY <1>5, <1>7 DEF Route, NodesInv
<1>8. ASSUME NEW c \in Conns, ExecuteSet(c) \/ \E others \in SUBSET Keys : ExecuteDel(c, others)
      PROVE  NodesInv'
    BY <1>5, <1>8 DEF ExecuteSet, ExecuteDel, NodesInv
<1>9. CASE UNCHANGED vars
    BY <1>5, <1>9 DEF vars, NodesInv
<1> QED BY <1>1, <1>2, <1>3, <1>4, <1>6, <1>7, <1>8, <1>9 DEF Next

LEMMA NodesAlways == Spec => []NodesInv
  BY NodesInit, NodesStep, PTL DEF Spec

\* The topology is well-formed at all times, for any slots, nodes and slot lists.
THEOREM TypeCorrect == Spec => []TypeOK
<1>1. RouteInv /\ NodesInv => TypeOK
    BY DEF RouteInv, RouteTypes, NodesInv, TypeOK
<1> QED BY <1>1, RouteAlways, NodesAlways, PTL

\* A slot is only ever assigned to a node that is in the map: add_slots_range refuses an unknown
\* id, and add_node replaces nodes but removes none.
THEOREM OwnersAreKnown == Spec => []OwnersKnown
<1>1. NodesInv => OwnersKnown
    BY DEF NodesInv
<1> QED BY <1>1, NodesAlways, PTL

\* Giving ranges to a node puts every slot it gains into its list and takes none out of it.
LEMMA RangesListed ==
    ASSUME NodesInv, NEW to \in DOMAIN nodes, NEW ranges \in Seq(Range2),
           owner' = OwnerAfter(owner, to, ranges), nodes' = NodesAfter(nodes, to, ranges),
           NEW id \in DOMAIN nodes, NEW s \in Slots,
           owner[s] = id => Covers(nodes[id].slots, s),
           owner'[s] = id
    PROVE  Covers(nodes'[id].slots, s)
<1>1. /\ nodes'[to].slots = nodes[to].slots \o ranges
      /\ id # to => nodes'[id] = nodes[id]
    BY NodesAfterType DEF NodesInv
<1>2. owner'[s] = IF Covers(ranges, s) THEN to ELSE owner[s]
    BY DEF OwnerAfter
<1>3. nodes[to].slots \in Seq(Range2)
    BY DEF NodesInv, Node
<1>4. CASE id = to
  <2>1. Covers(ranges, s) \/ Covers(nodes[to].slots, s)
      BY <1>2, <1>4
  <2> QED BY <1>1, <1>3, <1>4, <2>1, CoversConcat
<1>5. CASE id # to
    BY <1>1, <1>2, <1>5
<1> QED BY <1>4, <1>5

\* The slot lists that CLUSTER NODES prints and slot_to_node, which CLUSTER SLOTS prints, are put
\* out of step only by a MEET that names the owner of a slot.
THEOREM ListsKeptButForMeet == Spec => OnlyMeetForgetsRanges
<1> DEFINE Kept == \A id \in DOMAIN nodes, s \in Slots :
                      /\ owner[s] = id => Covers(nodes[id].slots, s)
                      /\ owner'[s] = id /\ ~Covers(nodes'[id].slots, s)
                      => Meet(id)
<1>1. ASSUME NodesInv, Next, NEW id \in DOMAIN nodes, NEW s \in Slots,
             owner[s] = id => Covers(nodes[id].slots, s),
             owner'[s] = id, ~Covers(nodes'[id].slots, s)
      PROVE  Meet(id)
  <2>1. ASSUME NEW to \in Ids, NEW a \in Slots, NEW b \in Slots, SetupSlots(to, <<a, b>>)
        PROVE  FALSE
    <3>1. <<<<a, b>>>> \in Seq(Range2)
        BY ClusterAssumption DEF Slots, Range2
    <3> QED BY <1>1, <2>1, <3>1, RangesListed DEF SetupSlots
  <2>2. ASSUME NEW ss \in SlotArgs, AddSlots(ss) PROVE FALSE
      BY <1>1, <2>2, SingleSlots, RangesListed DEF AddSlots, NodesInv
  <2>3. ASSUME NEW new \in Ids, SetupNode(new) PROVE FALSE
    <3>1. nodes'[id] = nodes[id] /\ owner' = owner
        BY <1>1, <2>3 DEF SetupNode, AddNode
    <3> QED BY <1>1, <3>1
  <2>4. ASSUME NEW peer \in MeetIds, Meet(peer) PROVE Meet(id)
    <3>1. CASE peer = id
        BY <2>4, <3>1
    <3>2. CASE peer # id
      <4>1. nodes'[id] = nodes[id] /\ owner' = owner
          BY <1>1, <2>4, <3>2 DEF Meet, AddNode
      <4> QED BY <1>1, <4>1
    <3> QED BY <3>1, <3>2
  <2>5. CASE UNCHANGED <<nodes, owner>>
      BY <1>1, <2>5
  <2> QED BY <1>1, <2>1, <2>2, <2>3, <2>4, <2>5 DEF Next, Serve, Route, ExecuteSet, ExecuteDel
<1>2. NodesInv /\ [Next]_vars => [Kept]_vars
    BY <1>1
<1> QED BY NodesAlways, <1>2, PTL DEF Spec, OnlyMeetForgetsRanges

=============================================================================
