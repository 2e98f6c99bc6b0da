------------------------------ MODULE Cluster ------------------------------
(***************************************************************************)
(* One node in cluster mode: ClusterTopology (cluster/topology.rs), how    *)
(* the server fills it (server.rs), the CLUSTER subcommands                *)
(* (commands/mod.rs) and the redirection of key commands (connection.rs).  *)
(* A node id stands for the node's address too: MEET derives the id from   *)
(* the address, and so does the server when none is configured.            *)
(***************************************************************************)
EXTENDS Integers, SequencesExt

CONSTANTS
    HashSlots,  \* HASH_SLOTS, 16384
    Ids,        \* node ids
    Me,         \* myself_id
    MeetIds,    \* ids that MEET can name: Me is one unless an id is configured
    Keys,
    SlotOf,     \* key_slot
    Conns,      \* client connections
    SlotSpecs,  \* values of cluster_slots, parsed: sequences of ranges
    SlotArgs,   \* argument lists of ADDSLOTS
    MaxRanges,  \* bound on the length of a node's slot list
    None

Slots == 0..(HashSlots - 1)
Range2 == Nat \X Nat

ASSUME ClusterAssumption ==
    /\ HashSlots \in Nat \ {0}
    /\ Me \in Ids /\ MeetIds \subseteq Ids /\ None \notin Ids
    /\ SlotOf \in [Keys -> Slots]
    /\ SlotSpecs \subseteq Seq(Range2)
    /\ SlotArgs \subseteq Seq(Nat)
    /\ MaxRanges \in Nat

VARIABLES
    nodes,    \* the nodes known: whether each is flagged myself, and its slot list
    owner,    \* slot_to_node
    serving,  \* the server runs; before, the embedding program may edit the topology
    store,    \* the keys in Db
    pc,       \* where each connection's key command is
    key       \* its target key

vars == <<nodes, owner, serving, store, pc, key>>

Node == [myself : BOOLEAN, slots : Seq(Range2)]

\* Types of the variables; every node kept is one of the ids.
TypeOK ==
    /\ Me \in DOMAIN nodes /\ DOMAIN nodes \subseteq Ids
    /\ \A id \in DOMAIN nodes : nodes[id] \in Node
    /\ owner \in [Slots -> Ids \cup {None}]
    /\ serving \in BOOLEAN /\ store \subseteq Keys
    /\ pc \in [Conns -> {"idle", "set", "del"}]
    /\ key \in [Conns -> Keys \cup {None}]

NewNode(myself) == [myself |-> myself, slots |-> <<>>]

\* add_node: HashMap::insert replaces a node with the same id.
AddNode(known, id, node) ==
    [i \in DOMAIN known \cup {id} |-> IF i = id THEN node ELSE known[i]]

\* add_slots_range refuses a range that is empty or goes past the last slot.
ValidRange(r) == r[1] <= r[2] /\ r[2] < HashSlots

\* A list of ranges is assigned one at a time, up to the first that is refused.
Accepted(ranges) ==
    LET assigned == {i \in DOMAIN ranges : \A j \in 1..i : ValidRange(ranges[j])}
    IN  SubSeq(ranges, 1, Cardinality(assigned))

Covers(ranges, s) == \E i \in DOMAIN ranges : s \in ranges[i][1]..ranges[i][2]

\* Mutant: the new ranges take the place of the node's slot list.
NodesAfterReplaced(known, id, ranges) == [known EXCEPT ![id].slots = ranges]

\* slot_to_node and nodes after add_slots_range for each of the ranges.
OwnerAfter(own, id, ranges) == [s \in Slots |-> IF Covers(ranges, s) THEN id ELSE own[s]]
NodesAfter(known, id, ranges) == [known EXCEPT ![id].slots = @ \o ranges]

\* ClusterTopology::new and the slots of the configuration: what precedes a part that
\* does not parse or is refused stays assigned.
Init ==
    /\ \E spec \in SlotSpecs :
          /\ nodes = NodesAfter([id \in {Me} |-> NewNode(TRUE)], Me, Accepted(spec))
          /\ owner = OwnerAfter([s \in Slots |-> None], Me, Accepted(spec))
    /\ serving = FALSE /\ store = {}
    /\ pc = [c \in Conns |-> "idle"] /\ key = [c \in Conns |-> None]

\* add_node by the program that embeds the server, before it runs.
SetupNode(id) ==
    /\ ~serving /\ id # Me /\ id \notin DOMAIN nodes
    /\ nodes' = AddNode(nodes, id, NewNode(FALSE))
    /\ UNCHANGED <<owner, serving, store, pc, key>>

\* Mutant: the id is not looked up.
SetupSlotsUnknown(id, r) ==
    /\ ~serving /\ ValidRange(r)
    /\ owner' = OwnerAfter(owner, id, <<r>>)
    /\ nodes' = (IF id \in DOMAIN nodes THEN NodesAfter(nodes, id, <<r>>) ELSE nodes)
    /\ UNCHANGED <<serving, store, pc, key>>

\* add_slots_range by that program, for any node known.
SetupSlots(id, r) ==
    /\ ~serving /\ ValidRange(r)
    /\ id \in DOMAIN nodes /\ Len(nodes[id].slots) < MaxRanges
    /\ owner' = OwnerAfter(owner, id, <<r>>)
    /\ nodes' = NodesAfter(nodes, id, <<r>>)
    /\ UNCHANGED <<serving, store, pc, key>>

Serve ==
    /\ ~serving /\ serving' = TRUE
    /\ UNCHANGED <<nodes, owner, store, pc, key>>

-----------------------------------------------------------------------------
\* Mutant: the peer becomes the only node known.
MeetReplaces(id) ==
    /\ serving
    /\ nodes' = [i \in {id} |-> NewNode(FALSE)]
    /\ UNCHANGED <<owner, serving, store, pc, key>>

\* CLUSTER MEET: the peer replaces whatever node had its id.
Meet(id) ==
    /\ serving
    /\ nodes' = AddNode(nodes, id, NewNode(FALSE))
    /\ UNCHANGED <<owner, serving, store, pc, key>>

\* Mutant: when a slot is refused, those before it are unassigned again.
AddSlotsUndone(ss) ==
    LET ranges == Accepted([i \in DOMAIN ss |-> <<ss[i], ss[i]>>])
    IN  /\ serving /\ Len(nodes[Me].slots) + Len(ranges) <= MaxRanges
        /\ owner' = OwnerAfter(owner, IF Len(ranges) = Len(ss) THEN Me ELSE None, ranges)
        /\ nodes' = (IF Len(ranges) = Len(ss) THEN NodesAfter(nodes, Me, ranges) ELSE nodes)
        /\ UNCHANGED <<serving, store, pc, key>>

\* CLUSTER ADDSLOTS: each slot is assigned to this node, whoever had it, up to the first
\* that is refused.
AddSlots(ss) ==
    LET ranges == Accepted([i \in DOMAIN ss |-> <<ss[i], ss[i]>>])
    IN  /\ serving /\ Len(nodes[Me].slots) + Len(ranges) <= MaxRanges
        /\ owner' = OwnerAfter(owner, Me, ranges)
        /\ nodes' = NodesAfter(nodes, Me, ranges)
        /\ UNCHANGED <<serving, store, pc, key>>

\* Mutant: an unassigned slot is served.
OwnsSlotOrUnassigned(s) == owner[s] \in {Me, None}

\* owns_slot.
OwnsSlot(s) == owner[s] = Me

\* A key command: the slot of its target key is looked up under the read lock.  If this
\* node does not own it the reply is MOVED or CLUSTERDOWN and nothing else happens;
\* otherwise the command is executed by a later step, without the lock.
Route(c, k, op) ==
    /\ serving /\ pc[c] = "idle"
    /\ OwnsSlot(SlotOf[k])
    /\ pc' = [pc EXCEPT ![c] = op] /\ key' = [key EXCEPT ![c] = k]
    /\ UNCHANGED <<nodes, owner, serving, store>>

ExecuteSet(c) ==
    /\ pc[c] = "set"
    /\ store' = store \cup {key[c]}
    /\ pc' = [pc EXCEPT ![c] = "idle"] /\ key' = [key EXCEPT ![c] = None]
    /\ UNCHANGED <<nodes, owner, serving>>

\* The further keys of a DEL are not looked up: target_key is the first one.
ExecuteDel(c, others) ==
    /\ pc[c] = "del"
    /\ store' = store \ (others \cup {key[c]})
    /\ pc' = [pc EXCEPT ![c] = "idle"] /\ key' = [key EXCEPT ![c] = None]
    /\ UNCHANGED <<nodes, owner, serving>>

Next ==
    \/ \E id \in Ids : SetupNode(id)
    \/ \E id \in Ids, a, b \in Slots : SetupSlots(id, <<a, b>>)
    \/ Serve
    \/ \E id \in MeetIds : Meet(id)
    \/ \E ss \in SlotArgs : AddSlots(ss)
    \/ \E c \in Conns :
          \/ \E k \in Keys, op \in {"set", "del"} : Route(c, k, op)
          \/ ExecuteSet(c)
          \/ \E others \in SUBSET Keys : ExecuteDel(c, others)

Spec == Init /\ [][Next]_vars

-----------------------------------------------------------------------------
(***************************************************************************)
(* CLUSTER SLOTS: format_cluster_slots scans the slots once, extending the *)
(* range it is in (cur, empty between ranges) or closing it.               *)
(***************************************************************************)

Advance(scan, slot, id) ==
    LET open == <<slot, slot, id>>
    IN  CASE scan.cur # <<>> /\ id # None /\ scan.cur[3] = id ->
                 [scan EXCEPT !.cur[2] = slot]
          [] scan.cur # <<>> /\ id # None /\ scan.cur[3] # id ->
                 [ranges |-> Append(scan.ranges, scan.cur), cur |-> open]
          [] scan.cur # <<>> /\ id = None ->
                 [ranges |-> Append(scan.ranges, scan.cur), cur |-> <<>>]
          [] scan.cur = <<>> /\ id # None -> [scan EXCEPT !.cur = open]
          [] OTHER -> scan

Scan(own) ==
    LET after[n \in 0..HashSlots] ==
            IF n = 0 THEN [ranges |-> <<>>, cur |-> <<>>]
                     ELSE Advance(after[n - 1], n - 1, own[n - 1])
    IN  after[HashSlots]

\* Mutant: the range that reaches the last slot is not reported.
FormatClusterSlotsOpen(own) == Scan(own).ranges

FormatClusterSlots(own) ==
    LET scan == Scan(own)
    IN  IF scan.cur # <<>> THEN Append(scan.ranges, scan.cur) ELSE scan.ranges

-----------------------------------------------------------------------------
(***************************************************************************)
(* Properties.                                                             *)
(***************************************************************************)

\* A slot is assigned only to a node that is known, whatever MEET replaces: add_slots_range
\* refuses an unknown id and nothing removes a node.
OwnersKnown == \A s \in Slots : owner[s] # None => owner[s] \in DOMAIN nodes

\* A key is stored only on a node that owns its slot, although Connection::handle releases
\* the topology lock between owns_slot and the execution of the command.
StoredKeysOwned == \A k \in store : owner[SlotOf[k]] = Me

\* While the server runs, no CLUSTER command takes from this node a slot it owns, an
\* ADDSLOTS that is refused half way included.
OwnedSlotsKept == [][serving => \A s \in Slots : owner[s] = Me => owner'[s] = Me]_vars

\* CLUSTER NODES prints the slot lists of nodes, CLUSTER SLOTS and the routing use slot_to_node.
\* add_slots_range changes both: a slot that is in the list of its owner, or gets an owner, is in
\* that owner's list afterwards.  Only a MEET that names the owner, this node included, puts the
\* two out of step, since add_node replaces the node and its list.
OnlyMeetForgetsRanges ==
    [][\A id \in DOMAIN nodes, s \in Slots :
          /\ owner[s] = id => Covers(nodes[id].slots, s)
          /\ owner'[s] = id /\ ~Covers(nodes'[id].slots, s)
          => Meet(id)]_vars

\* CLUSTER SLOTS lists every assigned slot exactly once, under its owner, and no other slot,
\* in increasing ranges none of which could be joined with the next (format_cluster_slots).
SlotsReportExact ==
    LET rs == FormatClusterSlots(owner)
        At(s) == {i \in DOMAIN rs : s \in rs[i][1]..rs[i][2]}
    IN  /\ \A s \in Slots : IF owner[s] = None THEN At(s) = {}
                            ELSE \E i \in DOMAIN rs : At(s) = {i} /\ rs[i][3] = owner[s]
        /\ \A i \in 1..(Len(rs) - 1) :
              /\ rs[i][2] < rs[i + 1][1]
              /\ rs[i][2] + 1 = rs[i + 1][1] => rs[i][3] # rs[i + 1][3]

=============================================================================
