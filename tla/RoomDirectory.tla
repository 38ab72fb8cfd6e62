---------------------------- MODULE RoomDirectory ----------------------------
(***************************************************************************)
(* What the trait RoomNodeDirectory promises its callers (oxidesfu-room,     *)
(* node_directory/memory.rs): every operation is atomic; a room keeps its    *)
(* node while that node is registered, draining or not; otherwise it is      *)
(* given a registered node that is not draining.  Which one is the           *)
(* selector's business.  A mapping to a node that is gone may be kept or     *)
(* dropped: nobody can resolve through it.                                   *)
(***************************************************************************)
CONSTANTS Node, Room, NoNode

VARIABLES
    nodes,          \* registered nodes
    draining,       \* the ones marked as draining
    room_nodes,     \* room -> node, or NoNode
    answer          \* what the last resolution returned: [room, node]

vars == <<nodes, draining, room_nodes, answer>>

Init ==
    /\ nodes = {} /\ draining = {}
    /\ room_nodes = [r \in Room |-> NoNode]
    /\ answer \in [room : Room, node : {NoNode}]

RegisterNode(n) ==
    /\ nodes' = nodes \cup {n}
    /\ draining' = draining \ {n}
    /\ UNCHANGED <<room_nodes, answer>>

\* Nodes leave; the rooms they had may be forgotten with them.
RemoveNodes(gone) ==
    /\ nodes' = nodes \ gone
    /\ draining' = draining \ gone
    /\ \E dropped \in SUBSET {r \in Room : room_nodes[r] \in gone} :
         room_nodes' = [r \in Room |-> IF r \in dropped THEN NoNode ELSE room_nodes[r]]
    /\ UNCHANGED answer

SetNodeDraining(n, b) ==
    /\ n \in nodes
    /\ draining' = IF b THEN draining \cup {n} ELSE draining \ {n}
    /\ UNCHANGED <<nodes, room_nodes, answer>>

SetNodeForRoom(r, n) ==
    /\ room_nodes' = [room_nodes EXCEPT ![r] = n]
    /\ UNCHANGED <<nodes, draining, answer>>

ClearRoomState(r) ==
    /\ room_nodes' = [room_nodes EXCEPT ![r] = NoNode]
    /\ UNCHANGED <<nodes, draining, answer>>

Resolve(r) ==
    /\ \/ /\ room_nodes[r] \in nodes
          /\ answer' = [room |-> r, node |-> room_nodes[r]]
          /\ UNCHANGED room_nodes
       \/ /\ room_nodes[r] \notin nodes
          /\ \E n \in nodes \ draining :
               /\ room_nodes' = [room_nodes EXCEPT ![r] = n]
               /\ answer' = [room |-> r, node |-> n]
       \/ /\ room_nodes[r] \notin nodes /\ nodes \subseteq draining
          /\ answer' = [room |-> r, node |-> NoNode]
          /\ UNCHANGED room_nodes
    /\ UNCHANGED <<nodes, draining>>

Next ==
    \/ \E n \in Node : RegisterNode(n) \/ \E b \in BOOLEAN : SetNodeDraining(n, b)
    \/ \E gone \in SUBSET Node : RemoveNodes(gone)
    \/ \E r \in Room : Resolve(r) \/ ClearRoomState(r) \/ \E n \in Node : SetNodeForRoom(r, n)

Spec == Init /\ [][Next]_vars
=============================================================================
