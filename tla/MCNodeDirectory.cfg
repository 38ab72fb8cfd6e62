CONSTANTS
    Node <- ThreeNodes
    Room = {r1, r2}
    MaxTime = 1
    NoNode = NoNode
    Client = {c1, c2}
SPECIFICATION DirectorySpec
INVARIANT TypeOK
PROPERTIES ImplementsDirectory 
