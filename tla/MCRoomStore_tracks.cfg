SPECIFICATION Spec
CONSTANTS
    Room = {r1}
    Identity = {a, b}
    Track = {t}
    Handle = {h}
    Info = {x, y}
    NoParticipant = NoParticipant
    NoTrack = NoTrack
    Permissions <- MutedOnly
    RoomConfigs <- OneConfig
    RoomDefaults <- ZeroDefaults
    DefaultEmptyAge = 1
    MaxRoomId = 1
    MaxSid = 2
    MaxVersion = 2
    MaxRevision = 2
    MaxClock = 0
SYMMETRY MemberSymmetry
PROPERTIES
    SnapshotChangesAreVersioned
    PolicyChangesAreRevised
