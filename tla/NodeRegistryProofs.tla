------------------------- MODULE NodeRegistryProofs -------------------------
(***************************************************************************)
(* The in-memory registry implements the directory interface, for every set  *)
(* of nodes and rooms.                                                       *)
(***************************************************************************)
EXTENDS NodeRegistry, WellFoundedInduction, TLAPS

\* A non-empty set of nodes has a first one.
LEMMA FirstIsMember == ASSUME NEW s \in SUBSET Node, s # {} PROVE First(s) \in s
<1>1. PICK x \in s : \A y \in s : ~ (<<y, x>> \in OpToRel(<, Nat))
  BY NodeAssumption, NatLessThanWellFounded, WFMin
<1>2. \A m, n \in Nat : m < n => <<m, n>> \in OpToRel(<, Nat)
  BY DEF OpToRel
<1>3. \A y \in s : x <= y
  <2> SUFFICES ASSUME NEW y \in s, ~(x <= y) PROVE FALSE
    OBVIOUS
  <2>1. x \in Nat /\ y \in Nat
    BY NodeAssumption
  <2>2. y < x
    BY <2>1
  <2> HIDE DEF OpToRel
  <2> QED
    BY <1>1, <1>2, <2>1, <2>2
<1> QED
  BY <1>3 DEF First

\* The registry's variables keep their types, and the flags of a node that is not
\* registered are cleared.
THEOREM RegistryTypes == Spec => []TypeOK
<1> USE NodeAssumption
<1>1. Init => TypeOK
  BY DEF Init, TypeOK, Time
<1>2. TypeOK /\ [Next]_vars => TypeOK'
  <2> SUFFICES ASSUME TypeOK, [Next]_vars PROVE TypeOK'
    OBVIOUS
  <2>1. ASSUME NEW n \in Node, NEW t \in Time, register_node(n, t) PROVE TypeOK'
    BY <2>1 DEF TypeOK, register_node, Time
  <2>2. ASSUME NEW n \in Node, NEW t \in Time, mark_node_heartbeat(n, t) PROVE TypeOK'
    BY <2>2 DEF TypeOK, mark_node_heartbeat, Time
  <2>3. ASSUME NEW gone \in SUBSET Node, Forget(gone) PROVE TypeOK'
    BY <2>3 DEF TypeOK, Forget, Time
  <2>4. ASSUME NEW n \in Node, NEW b \in BOOLEAN, set_node_draining(n, b) PROVE TypeOK'
    BY <2>4 DEF TypeOK, set_node_draining, Time
  <2>5. ASSUME NEW r \in Room, NEW n \in Node, set_node_for_room(r, n) PROVE TypeOK'
    BY <2>5 DEF TypeOK, set_node_for_room, Time
  <2>6. ASSUME NEW r \in Room, clear_room_state(r) PROVE TypeOK'
    BY <2>6 DEF TypeOK, clear_room_state, Time
  <2>7. ASSUME NEW r \in Room, select_or_assign_node_for_room(r) PROVE TypeOK'
    <3>0. Candidates \in SUBSET Node
      BY DEF Candidates, TypeOK
    <3>1. Candidates # {} => First(Candidates) \in Node
      BY <3>0, FirstIsMember
    <3> HIDE DEF Candidates, First
    <3> QED
      BY <2>7, <3>1 DEF TypeOK, select_or_assign_node_for_room, Time
  <2>8. CASE UNCHANGED vars
    BY <2>8 DEF TypeOK, vars, Time
  <2> QED
    BY <2>1, <2>2, <2>3, <2>4, <2>5, <2>6, <2>7, <2>8 DEF Next, unregister_node, expire_nodes
<1> QED
  BY <1>1, <1>2, PTL DEF Spec

-----------------------------------------------------------------------------
\* Every operation of the registry, each under its write lock, is a step of the directory
\* interface or changes nothing that it shows: a room keeps a registered node, and otherwise
\* gets one that is not draining.
THEOREM RegistryImplements == Spec => ImplementsDirectory
<1> USE NodeAssumption
<1> DEFINE D == {n \in nodes : node_draining[n]}
<1>1. Init => Directory!Init
  BY DEF Init, Directory!Init
<1>2. TypeOK /\ [Next]_vars => [Directory!Next]_(Directory!vars)
  <2> SUFFICES ASSUME TypeOK, [Next]_vars PROVE [Directory!Next]_(Directory!vars)
    OBVIOUS
  <2>1. ASSUME NEW n \in Node, NEW t \in Time, register_node(n, t) PROVE Directory!RegisterNode(n)
    BY <2>1 DEF TypeOK, register_node, Directory!RegisterNode
  <2>2. ASSUME NEW n \in Node, NEW t \in Time, mark_node_heartbeat(n, t) PROVE UNCHANGED Directory!vars
    BY <2>2 DEF TypeOK, mark_node_heartbeat, Directory!vars
  <2>3. ASSUME NEW gone \in SUBSET Node, Forget(gone) PROVE Directory!RemoveNodes(gone)
    <3>1. D' = D \ gone /\ nodes' = nodes \ gone
      BY <2>3 DEF TypeOK, Forget
    <3>2. {r \in Room : room_nodes[r] \in gone} \in SUBSET {r \in Room : room_nodes[r] \in gone}
      OBVIOUS
    <3>3. room_nodes' = [r \in Room |-> IF r \in {q \in Room : room_nodes[q] \in gone} THEN NoNode
                                       ELSE room_nodes[r]]
      BY <2>3 DEF Forget
    <3> QED
      BY <2>3, <3>1, <3>2, <3>3 DEF Forget, Directory!RemoveNodes
  <2>4. ASSUME NEW n \in Node, NEW b \in BOOLEAN, set_node_draining(n, b)
        PROVE Directory!SetNodeDraining(n, b)
    BY <2>4 DEF TypeOK, set_node_draining, Directory!SetNodeDraining
  <2>5. ASSUME NEW r \in Room, NEW n \in Node, set_node_for_room(r, n)
        PROVE Directory!SetNodeForRoom(r, n)
    BY <2>5 DEF TypeOK, set_node_for_room, Directory!SetNodeForRoom
  <2>6. ASSUME NEW r \in Room, clear_room_state(r) PROVE Directory!ClearRoomState(r)
    BY <2>6 DEF TypeOK, clear_room_state, Directory!ClearRoomState
  <2>7. ASSUME NEW r \in Room, select_or_assign_node_for_room(r) PROVE Directory!Resolve(r)
    <3>0. Candidates \in SUBSET Node /\ Candidates = nodes \ D
      BY DEF Candidates, TypeOK
    <3>1. Candidates # {} => First(Candidates) \in nodes \ D
      BY <3>0, FirstIsMember
    <3>2. Candidates = {} => nodes \subseteq D
      BY DEF Candidates
    <3>3. D' = D /\ nodes' = nodes
      BY <2>7 DEF select_or_assign_node_for_room
    <3> HIDE DEF Candidates, First
    <3> QED
      BY <2>7, <3>1, <3>2, <3>3 DEF select_or_assign_node_for_room, Directory!Resolve
  <2>8. CASE UNCHANGED vars
    BY <2>8 DEF vars, Directory!vars
  <2> QED
    BY <2>1, <2>2, <2>3, <2>4, <2>5, <2>6, <2>7, <2>8
    DEF Next, unregister_node, expire_nodes, Directory!Next
<1> QED
  BY <1>1, <1>2, RegistryTypes, PTL DEF Spec, ImplementsDirectory, Directory!Spec
=============================================================================
