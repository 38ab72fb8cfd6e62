SPECIFICATION Spec
CONSTANTS
    Room = {r1, r2}
    Identity = {a, b}
    Track = {}
    Handle = {}
    Info = {x}
    NoParticipant = NoParticipant
    NoTrack = NoTrack
    Permissions <- HiddenOnly
    RoomConfigs <- OneConfig
    RoomDefaults <- OneAtATime
    DefaultEmptyAge = 1
    MaxRoomId = 2
    MaxSid = 2
    MaxVersion = 3
    MaxRevision = 1
    MaxClock = 1
SYMMETRY MemberSymmetry
INVARIANTS
    TypeOK
    NumParticipantsIsVisible
    EmptySinceIffEmpty
    SidsAreUnique
PROPERTIES
    RejoinIsNewer
    CleanupWaitsForTimeout
