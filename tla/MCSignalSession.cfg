\* Two connections meet as duplicates, as a reconnect and as a rejoin.
CONSTANTS
    Socket = {s1, s2}
    Service = {x1}
    Grace = 1
    MaxTrack = 1
    NoSocket = NoSocket
SPECIFICATION FairSpec
CHECK_DEADLOCK FALSE
INVARIANTS  LeftIsAnnouncedOnce ServedWithOwnGrants SettledMeansGone
PROPERTY DisconnectedEventuallyGone
