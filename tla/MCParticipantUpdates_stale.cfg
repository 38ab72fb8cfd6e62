CONSTANTS
    Person = {alice, bob}
    Hideable = {}
    Task = {t1, t2}
    MaxVersion = 3
SPECIFICATION Spec
PROPERTY StaleIsSuppressed
CHECK_DEADLOCK FALSE
