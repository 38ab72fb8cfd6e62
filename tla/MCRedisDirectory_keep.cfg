CONSTANTS
    Node <- TwoNodes
    Room = {r1}
    Client = {c1, c2}
    Concurrent = TRUE
    NoNode = NoNode
SPECIFICATION Spec
PROPERTY AssignmentKeepsMapping
