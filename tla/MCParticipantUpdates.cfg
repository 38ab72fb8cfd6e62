CONSTANTS
    Person = {alice, bob}
    Hideable = {bob}
    Task = {t1, t2, t3}
    MaxVersion = 3
SPECIFICATION Spec
INVARIANTS TypeOK LaterJoinsAreKnown NewestIsDelivered 
SYMMETRY TaskSymmetry
CHECK_DEADLOCK FALSE
