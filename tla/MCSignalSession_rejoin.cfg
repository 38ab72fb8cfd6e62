CONSTANTS
    Socket = {s1, s2}
    Service = {x1}
    Grace = 2
    MaxTrack = 1
    NoSocket = NoSocket
SPECIFICATION Spec
CHECK_DEADLOCK FALSE
PROPERTY OldCleanupSparesRejoin
