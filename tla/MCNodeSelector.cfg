CONSTANTS
    Node <- ThreeNodes
    MaxLoad = 2
    Limit = 1
    NoNode = NoNode
SPECIFICATION Spec
INVARIANTS  LowLoadIsPreferred TwoChoiceAvoidsWorst
CHECK_DEADLOCK FALSE
