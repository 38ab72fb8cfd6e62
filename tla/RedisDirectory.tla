--------------------------- MODULE RedisDirectory ---------------------------
(***************************************************************************)
(* The Redis directory RedisRoomNodeDirectory (oxidesfu-room,                *)
(* node_directory/redis.rs): three shared hashes, and operations that are    *)
(* sequences of single HSET, HGET, HDEL and HVALS commands issued by several *)
(* processes without a transaction.                                          *)
(***************************************************************************)
EXTENDS Integers, FiniteSets

CONSTANTS
    Node,           \* node ids, numbers in the order of their names
    Room,
    Client,         \* processes that use the directory
    Concurrent,     \* whether their operations overlap
    NoNode

VARIABLES
    nodes,          \* the hash of registered nodes: its fields
    draining,       \* the fields of the draining hash that hold "1"
    room_nodes,     \* the hash room -> node id, NoNode when absent
    client,         \* per process: what it is doing
    answer          \* what the last select_or_assign_node_for_room returned

vars == <<nodes, draining, room_nodes, client, answer>>

Idle == [pc |-> "idle"]
May(c) == client[c] = Idle /\ (Concurrent \/ \A d \in Client : client[d] = Idle)
Goto(c, rec) == client' = [client EXCEPT ![c] = rec]

Init ==
    /\ nodes = {} /\ draining = {}
    /\ room_nodes = [r \in Room |-> NoNode]
    /\ client = [c \in Client |-> Idle]
    /\ answer \in [room : Room, node : {NoNode}]

-----------------------------------------------------------------------------
(* register_node, unregister_node, set_node_draining *)

RegisterNode(c, n) ==
    /\ May(c)
    /\ nodes' = nodes \cup {n}
    /\ Goto(c, [pc |-> "registered", node |-> n])
    /\ UNCHANGED <<draining, room_nodes, answer>>

UnregisterNode(c, n) ==
    /\ May(c)
    /\ nodes' = nodes \ {n}
    /\ Goto(c, [pc |-> "unregistered", node |-> n])
    /\ UNCHANGED <<draining, room_nodes, answer>>

\* The second command of both: the draining field is set to "0" or deleted.
ResetDraining(c) ==
    /\ client[c].pc \in {"registered", "unregistered"}
    /\ draining' = draining \ {client[c].node}
    /\ Goto(c, Idle)
    /\ UNCHANGED <<nodes, room_nodes, answer>>

SetNodeDraining(c, n, b) ==
    /\ May(c)
    /\ n \in nodes
    /\ Goto(c, [pc |-> "drain", node |-> n, flag |-> b])
    /\ UNCHANGED <<nodes, draining, room_nodes, answer>>

WriteDraining(c) ==
    /\ client[c].pc = "drain"
    /\ draining' = IF client[c].flag THEN draining \cup {client[c].node}
                   ELSE draining \ {client[c].node}
    /\ Goto(c, Idle)
    /\ UNCHANGED <<nodes, room_nodes, answer>>

SetNodeForRoom(c, r, n) ==
    /\ May(c)
    /\ room_nodes' = [room_nodes EXCEPT ![r] = n]
    /\ UNCHANGED <<nodes, draining, client, answer>>

ClearRoomState(c, r) ==
    /\ May(c)
    /\ room_nodes' = [room_nodes EXCEPT ![r] = NoNode]
    /\ UNCHANGED <<nodes, draining, client, answer>>

-----------------------------------------------------------------------------
(* select_or_assign_node_for_room *)

Return(c, r, n) == Goto(c, Idle) /\ answer' = [room |-> r, node |-> n]

\* get_node_for_room: the mapping, then the node.
ReadMapping(c, r) ==
    /\ May(c)
    /\ Goto(c, IF room_nodes[r] = NoNode THEN [pc |-> "list", room |-> r]
               ELSE [pc |-> "mapped", room |-> r, node |-> room_nodes[r]])
    /\ UNCHANGED <<nodes, draining, room_nodes, answer>>

ReadNode(c) ==
    /\ client[c].pc = "mapped"
    /\ IF client[c].node \in nodes
       THEN Return(c, client[c].room, client[c].node)
       ELSE Goto(c, [pc |-> "list", room |-> client[c].room]) /\ UNCHANGED answer
    /\ UNCHANGED <<nodes, draining, room_nodes>>

ListNodes(c) ==
    /\ client[c].pc = "list"
    /\ Goto(c, [pc |-> "filter", room |-> client[c].room, node |-> NoNode,
                left |-> nodes, kept |-> {}])
    /\ UNCHANGED <<nodes, draining, room_nodes, answer>>

\* is_node_draining for one candidate after the other: the node, which counts as draining
\* when it is gone, and then its flag.
FilterNode(c) ==
    /\ client[c].pc = "filter" /\ client[c].left # {}
    /\ LET n == CHOOSE n \in client[c].left : \A m \in client[c].left : n <= m
       IN  IF n \in nodes THEN Goto(c, [client[c] EXCEPT !.pc = "flag", !.left = @ \ {n}, !.node = n])
           ELSE Goto(c, [client[c] EXCEPT !.left = @ \ {n}])
    /\ UNCHANGED <<nodes, draining, room_nodes, answer>>

\* ReadFlag that keeps every node.
KeepNode(c) ==
    /\ client[c].pc = "flag"
    /\ Goto(c, [client[c] EXCEPT !.pc = "filter", !.kept = @ \cup {client[c].node}])
    /\ UNCHANGED <<nodes, draining, room_nodes, answer>>

ReadFlag(c) ==
    /\ client[c].pc = "flag"
    /\ Goto(c, [client[c] EXCEPT !.pc = "filter",
                  !.kept = IF client[c].node \in draining THEN @ ELSE @ \cup {client[c].node}])
    /\ UNCHANGED <<nodes, draining, room_nodes, answer>>

Assign(c) ==
    /\ client[c].pc = "filter" /\ client[c].left = {}
    /\ LET r == client[c].room
           kept == client[c].kept
           first == CHOOSE n \in kept : \A m \in kept : n <= m
       IN  IF kept = {} THEN Return(c, r, NoNode) /\ UNCHANGED room_nodes
           ELSE Return(c, r, first) /\ room_nodes' = [room_nodes EXCEPT ![r] = first]
    /\ UNCHANGED <<nodes, draining>>

-----------------------------------------------------------------------------
Step(c) ==
    \/ ResetDraining(c) \/ WriteDraining(c) \/ ReadNode(c) \/ ListNodes(c) \/ FilterNode(c)
    \/ ReadFlag(c) \/ Assign(c)

Begin(c) ==
    \/ \E n \in Node : \/ RegisterNode(c, n) \/ UnregisterNode(c, n)
                       \/ \E b \in BOOLEAN : SetNodeDraining(c, n, b)
    \/ \E r \in Room : \/ ReadMapping(c, r) \/ ClearRoomState(c, r)
                       \/ \E n \in Node : SetNodeForRoom(c, r, n)

Next == \E c \in Client : Step(c) \/ Begin(c)

Spec == Init /\ [][Next]_vars

-----------------------------------------------------------------------------
(* Properties *)

Directory == INSTANCE RoomDirectory WITH draining <- draining \cap nodes

\* As long as operations do not overlap, the Redis directory keeps the promise of the
\* directory interface.
ImplementsDirectory == Directory!Spec

Assigns(c, r) == client[c].pc = "filter" /\ client'[c] = Idle /\ client[c].room = r

\* "if a room is already mapped to a currently registered node, keep it (even while
\* draining)": an assignment does not replace the mapping to a registered node.
AssignmentKeepsMapping ==
    [][\A c \in Client, r \in Room :
         Assigns(c, r) /\ room_nodes[r] \in nodes => room_nodes'[r] = room_nodes[r]]_vars
=============================================================================
