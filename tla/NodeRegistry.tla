---------------------------- MODULE NodeRegistry ----------------------------
(***************************************************************************)
(* The in-memory directory RoomNodeRegistry (oxidesfu-room,                  *)
(* node_directory/memory.rs).  Every operation holds the write lock, so each *)
(* is one step.  Node ids are numbers in the order of their names; the       *)
(* selector is the default NodeSelectorKind::First.                          *)
(***************************************************************************)
EXTENDS Integers, FiniteSets

CONSTANTS
    Node,           \* node ids, a set of numbers
    Room,
    MaxTime,        \* bound of the heartbeat times
    NoNode

ASSUME NodeAssumption == Node \subseteq Nat /\ NoNode \notin Node /\ MaxTime \in Nat

VARIABLES
    nodes,                  \* registered nodes
    node_draining,          \* node -> BOOLEAN, meaningful for registered nodes
    node_last_heartbeat,    \* node -> time, -1 when absent
    room_nodes,             \* room -> node, or NoNode
    answer                  \* what the last select_or_assign_node_for_room returned

vars == <<nodes, node_draining, node_last_heartbeat, room_nodes, answer>>

Time == 0..MaxTime

Init ==
    /\ nodes = {}
    /\ node_draining = [n \in Node |-> FALSE]
    /\ node_last_heartbeat = [n \in Node |-> -1]
    /\ room_nodes = [r \in Room |-> NoNode]
    /\ answer \in [room : Room, node : {NoNode}]

register_node(n, t) ==
    /\ nodes' = nodes \cup {n}
    /\ node_draining' = [node_draining EXCEPT ![n] = FALSE]
    /\ node_last_heartbeat' = [node_last_heartbeat EXCEPT ![n] = t]
    /\ UNCHANGED <<room_nodes, answer>>

\* Forget that keeps the nodes' flags.
ForgetNodes(gone) ==
    /\ nodes' = nodes \ gone
    /\ room_nodes' = [r \in Room |-> IF room_nodes[r] \in gone THEN NoNode ELSE room_nodes[r]]
    /\ UNCHANGED <<node_draining, node_last_heartbeat, answer>>

\* Nodes go together with their flags and with the rooms mapped to them.
Forget(gone) ==
    /\ nodes' = nodes \ gone
    /\ node_draining' = [n \in Node |-> n \notin gone /\ node_draining[n]]
    /\ node_last_heartbeat' = [n \in Node |-> IF n \in gone THEN -1 ELSE node_last_heartbeat[n]]
    /\ room_nodes' = [r \in Room |-> IF room_nodes[r] \in gone THEN NoNode ELSE room_nodes[r]]
    /\ UNCHANGED answer

unregister_node(n) == Forget({n})

mark_node_heartbeat(n, t) ==
    /\ n \in nodes
    /\ node_last_heartbeat' = [node_last_heartbeat EXCEPT ![n] = t]
    /\ UNCHANGED <<nodes, node_draining, room_nodes, answer>>

expire_nodes(min) == Forget({n \in Node : node_last_heartbeat[n] \in 0..(min - 1)})

set_node_draining(n, b) ==
    /\ n \in nodes
    /\ node_draining' = [node_draining EXCEPT ![n] = b]
    /\ UNCHANGED <<nodes, node_last_heartbeat, room_nodes, answer>>

set_node_for_room(r, n) ==
    /\ room_nodes' = [room_nodes EXCEPT ![r] = n]
    /\ UNCHANGED <<nodes, node_draining, node_last_heartbeat, answer>>

clear_room_state(r) ==
    /\ room_nodes' = [room_nodes EXCEPT ![r] = NoNode]
    /\ UNCHANGED <<nodes, node_draining, node_last_heartbeat, answer>>

Candidates == {n \in nodes : ~node_draining[n]}

First(s) == CHOOSE n \in s : \A m \in s : n <= m

\* select_or_assign_node_for_room without the draining flag.
AssignAny(r) ==
    /\ IF room_nodes[r] \in nodes
       THEN answer' = [room |-> r, node |-> room_nodes[r]] /\ UNCHANGED room_nodes
       ELSE /\ nodes # {}
            /\ answer' = [room |-> r, node |-> First(nodes)]
            /\ room_nodes' = [room_nodes EXCEPT ![r] = First(nodes)]
    /\ UNCHANGED <<nodes, node_draining, node_last_heartbeat>>

select_or_assign_node_for_room(r) ==
    /\ IF room_nodes[r] \in nodes
       THEN answer' = [room |-> r, node |-> room_nodes[r]] /\ UNCHANGED room_nodes
       ELSE IF Candidates = {}
       THEN answer' = [room |-> r, node |-> NoNode] /\ UNCHANGED room_nodes
       ELSE /\ answer' = [room |-> r, node |-> First(Candidates)]
            /\ room_nodes' = [room_nodes EXCEPT ![r] = First(Candidates)]
    /\ UNCHANGED <<nodes, node_draining, node_last_heartbeat>>

Next ==
    \/ \E n \in Node, t \in Time : register_node(n, t) \/ mark_node_heartbeat(n, t)
    \/ \E n \in Node : unregister_node(n) \/ \E b \in BOOLEAN : set_node_draining(n, b)
    \/ \E min \in Time : expire_nodes(min)
    \/ \E r \in Room : \/ select_or_assign_node_for_room(r) \/ clear_room_state(r)
                       \/ \E n \in Node : set_node_for_room(r, n)

Spec == Init /\ [][Next]_vars

-----------------------------------------------------------------------------
(* Properties *)

\* The flags and heartbeats belong to registered nodes: unregistering and expiring
\* leave nothing behind that a later registration would inherit.
TypeOK ==
    /\ nodes \subseteq Node
    /\ node_draining \in [Node -> BOOLEAN]
    /\ node_last_heartbeat \in [Node -> Time \cup {-1}]
    /\ room_nodes \in [Room -> Node \cup {NoNode}]
    /\ answer \in [room : Room, node : Node \cup {NoNode}]
    /\ \A n \in Node \ nodes : ~node_draining[n] /\ node_last_heartbeat[n] = -1

Directory == INSTANCE RoomDirectory WITH draining <- {n \in nodes : node_draining[n]}

\* The registry keeps the promise of the directory interface.
ImplementsDirectory == Directory!Spec
=============================================================================
