----------------------------- MODULE RoomStore -----------------------------
(***************************************************************************)
(* The in-memory room store of one node (crates/oxidesfu-room).  Every     *)
(* public operation takes the single write lock of `RoomStoreInner`, so    *)
(* each operation is one atomic action here.  Interleavings of callers     *)
(* that use several operations are the subject of other modules; here the  *)
(* question is whether the store keeps its own books under every sequence  *)
(* of operations.                                                          *)
(*                                                                         *)
(* An operation that returns an error (room or participant missing, room   *)
(* full, argument too large) changes nothing; those returns are the        *)
(* stuttering steps and the complement of the guards.                      *)
(***************************************************************************)
EXTENDS Integers, FiniteSets, PartialFunctions

CONSTANTS
    Room, Identity, Track, Handle,  \* names, identities, track SIDs, data track handles
    Info,            \* contents a snapshot field may have (metadata, name, kind, MID...)
    Permissions,     \* the explicit permissions callers pass
    RoomConfigs,     \* the create_room requests callers send
    RoomDefaults,    \* the store's defaults
    NoParticipant, NoTrack,  \* no entry in the map
    DefaultEmptyAge, \* cleanup timeout of a room whose own timeouts are zero
    MaxRoomId, MaxSid, MaxVersion, MaxRevision, MaxClock  \* bounds on the counters

\* An optional ParticipantPermission; `some` tells Some from None.
Permission ==
    [some: BOOLEAN, hidden: BOOLEAN, can_publish: BOOLEAN, can_subscribe: BOOLEAN]

\* None, with the values its readers fall back to.
NoPermission ==
    [some |-> FALSE, hidden |-> FALSE, can_publish |-> TRUE, can_subscribe |-> TRUE]

RoomConfig == [empty_timeout: Nat, departure_timeout: Nat, max_participants: Nat]

ASSUME StoreConstants ==
    /\ Permissions \subseteq Permission
    /\ RoomConfigs \subseteq RoomConfig
    /\ RoomDefaults \in RoomConfig
    /\ DefaultEmptyAge \in Nat
    /\ NoTrack \notin Info
    /\ IsFiniteSet(Identity)
    /\ {MaxRoomId, MaxSid, MaxVersion, MaxRevision, MaxClock} \subseteq Nat

NotEmpty == -1          \* empty_since_unix_ms = None
NoVersion == -1         \* no version emitted yet

Participant ==
    [sid: Nat, version: Nat, permission: Permission, info: Info,
     tracks: [Track -> Info \cup {NoTrack}], data_tracks: SUBSET Handle]

RoomRecord ==
    [sid: Nat, empty_timeout: Nat, departure_timeout: Nat, max_participants: Nat,
     num_participants: Nat,
     participants: [Identity -> Participant \cup {NoParticipant}],
     participant_versions: [Identity -> Nat \cup {NoVersion}],
     empty_since: Nat \cup {NotEmpty},
     had_participants: BOOLEAN]

ASSUME NoParticipantIsNone == NoParticipant \notin Participant

VARIABLES
    rooms,                        \* RoomStoreInner.rooms
    next_room_id, next_participant_id,
    media_unsubscribed,           \* <<room, publisher, track, subscriber>>
    media_subscription_revision,
    now,                          \* now_unix_ms()
    disconnected,  \* history: newest version of a disconnected snapshot, per room and identity
    moved_in,      \* history: <<room, identity>> of the moves into the present room record
    occupied_at    \* history: the last instant at which the room had a participant

storeVars == <<rooms, next_room_id, next_participant_id>>
mediaVars == <<media_unsubscribed, media_subscription_revision>>
departureVars == <<disconnected, moved_in>>
vars == <<storeVars, mediaVars, now, departureVars, occupied_at>>

-----------------------------------------------------------------------------
participant_is_hidden(p) == p.permission.hidden

\* The keys of a participants map and of a tracks map.
Members(ps) == {i \in Identity : ps[i] # NoParticipant}
Published(p) == {t \in Track : p.tracks[t] # NoTrack}

Visible(ps) == {i \in Members(ps) : ~participant_is_hidden(ps[i])}

visible_participant_count(ps) == Cardinality(Visible(ps))

\* Variant: hidden participants are counted too.
WithFullCount(rec) == [rec EXCEPT !.num_participants = Cardinality(Members(rec.participants))]

\* num_participants is recomputed from the participants of the record.
WithCount(rec) == [rec EXCEPT !.num_participants = visible_participant_count(rec.participants)]

NoTracks == [t \in Track |-> NoTrack]

NewRoom(id, cfg) ==
    [sid |-> id, empty_timeout |-> cfg.empty_timeout,
     departure_timeout |-> cfg.departure_timeout,
     max_participants |-> cfg.max_participants, num_participants |-> 0,
     participants |-> [i \in Identity |-> NoParticipant],
     participant_versions |-> [i \in Identity |-> NoVersion],
     empty_since |-> now, had_participants |-> FALSE]

\* A zero in the request selects the store's default.
OrDefault(cfg) ==
    [f \in {"empty_timeout", "departure_timeout", "max_participants"} |->
        IF cfg[f] = 0 THEN RoomDefaults[f] ELSE cfg[f]]

Larger(a, b) == IF a < b THEN b ELSE a

\* The history of a new room record starts from nothing.
ForgetDepartures(r) ==
    /\ disconnected' = [disconnected EXCEPT ![r] = [i \in Identity |-> NoVersion]]
    /\ moved_in' = moved_in \ ({r} \X Identity)

-----------------------------------------------------------------------------
(* Rooms *)

CreateRoom(r, cfg) ==
    /\ r \notin DOMAIN rooms
    /\ next_room_id' = next_room_id + 1
    /\ rooms' = Put(rooms, r, NewRoom(next_room_id + 1, OrDefault(cfg)))
    /\ ForgetDepartures(r)
    /\ UNCHANGED <<next_participant_id, mediaVars, now>>

\* Variant: the revision is forgotten.
UnsubscribeSilently(gone) ==
    /\ media_unsubscribed' = media_unsubscribed \ gone
    /\ UNCHANGED media_subscription_revision

\* Drops the tuples of `gone` and advances the revision if there were any.
Unsubscribe(gone) ==
    /\ media_unsubscribed' = media_unsubscribed \ gone
    /\ media_subscription_revision' =
         media_subscription_revision + (IF gone \cap media_unsubscribed # {} THEN 1 ELSE 0)

TuplesOfRoom(r) == {k \in media_unsubscribed : k[1] = r}
TuplesOfParticipant(r, i) == {k \in TuplesOfRoom(r) : k[2] = i \/ k[4] = i}
TuplesOfTrack(r, i, t) == {k \in TuplesOfRoom(r) : k[2] = i /\ k[3] = t}

DeleteRoom(r) ==
    /\ r \in DOMAIN rooms
    /\ rooms' = Drop(rooms, r)
    /\ Unsubscribe(TuplesOfRoom(r))
    /\ UNCHANGED <<next_room_id, next_participant_id, now, departureVars>>

\* The timeout that applies to an empty room.
RoomTimeout(rec) ==
    LET t == IF rec.had_participants /\ rec.departure_timeout > 0
             THEN rec.departure_timeout ELSE rec.empty_timeout
    IN  IF t > 0 THEN t ELSE DefaultEmptyAge

\* Variant: one unit too early.
ExpiredEarly(rec) ==
    /\ rec.empty_since # NotEmpty
    /\ now - rec.empty_since >= RoomTimeout(rec) - 1

Expired(rec) ==
    /\ rec.empty_since # NotEmpty
    /\ now - rec.empty_since >= RoomTimeout(rec)

\* The cleanup worker: one pass over all rooms.
CleanupExpired ==
    /\ rooms' = Keep(rooms, {r \in DOMAIN rooms : ~Expired(rooms[r])})
    /\ UNCHANGED <<next_room_id, next_participant_id, mediaVars, now, departureVars>>

Tick ==
    /\ now' = now + 1
    /\ UNCHANGED <<storeVars, mediaVars, departureVars>>

-----------------------------------------------------------------------------
(* Membership *)

\* The record a join works on: the existing one, or a room created on the fly.
JoinedRoom(r) ==
    IF r \in DOMAIN rooms THEN rooms[r] ELSE NewRoom(next_room_id + 1, RoomDefaults)

RoomIsFull(rec, i) ==
    /\ rec.max_participants > 0
    /\ i \notin Members(rec.participants)
    /\ Cardinality(Members(rec.participants)) >= rec.max_participants

\* Variant: every join starts again from the version kept.
JoinVersionKept(rec, i) == rec.participant_versions[i]

\* A first join has version 0; a rejoin is one newer than the version kept for it.
JoinVersion(rec, i) == rec.participant_versions[i] + 1

JoinParticipant(r, i, perm, info) ==
    LET rec == JoinedRoom(r)
        p == [sid |-> next_participant_id + 1, version |-> JoinVersion(rec, i),
              permission |-> perm, info |-> info,
              tracks |-> NoTracks, data_tracks |-> {}]
    IN  /\ ~RoomIsFull(rec, i)
        /\ next_room_id' = next_room_id + (IF r \in DOMAIN rooms THEN 0 ELSE 1)
        /\ next_participant_id' = next_participant_id + 1
        /\ rooms' = Put(rooms, r, WithCount(
             [rec EXCEPT !.participants[i] = p,
                         !.participant_versions[i] = p.version,
                         !.had_participants = TRUE,
                         !.empty_since = NotEmpty]))
        /\ IF r \in DOMAIN rooms THEN UNCHANGED departureVars ELSE ForgetDepartures(r)
        /\ UNCHANGED <<mediaVars, now>>

\* Variant: the clock of the emptied room is not started.
DepartedWithoutClock(rec, i) == WithCount([rec EXCEPT !.participants[i] = NoParticipant])

\* The record after participant i left it.
Departed(rec, i) ==
    WithCount([rec EXCEPT !.participants[i] = NoParticipant,
                          !.empty_since = IF Members(rec.participants) = {i} THEN now ELSE @])

\* Variant: the version of the disconnected snapshot is not retained.
RemoveWithoutVersion(r, i) ==
    /\ r \in DOMAIN rooms
    /\ i \in Members(rooms[r].participants)
    /\ rooms' = [rooms EXCEPT ![r] = Departed(@, i)]
    /\ disconnected' = [disconnected EXCEPT ![r][i] =
                           Larger(@, rooms[r].participants[i].version + 1)]
    /\ Unsubscribe(TuplesOfParticipant(r, i))
    /\ UNCHANGED <<next_room_id, next_participant_id, now, moved_in>>

RemoveParticipant(r, i) ==
    /\ r \in DOMAIN rooms
    /\ i \in Members(rooms[r].participants)
    /\ LET v == rooms[r].participants[i].version + 1
       IN  /\ rooms' = [rooms EXCEPT ![r] =
                 [Departed(@, i) EXCEPT !.participant_versions[i] = v]]
           /\ disconnected' = [disconnected EXCEPT ![r][i] = Larger(@, v)]
    /\ Unsubscribe(TuplesOfParticipant(r, i))
    /\ UNCHANGED <<next_room_id, next_participant_id, now, moved_in>>

\* Variant: the participant is copied.
MoveKeepsSource(r, i, d) ==
    /\ d \in DOMAIN rooms
    /\ r \in DOMAIN rooms
    /\ i \in Members(rooms[r].participants)
    /\ LET p == [rooms[r].participants[i] EXCEPT !.version = @ + 1]
       IN  rooms' = [rooms EXCEPT ![d] =
             WithCount([@ EXCEPT !.participants[i] = p, !.empty_since = NotEmpty])]
    /\ moved_in' = moved_in \cup {<<d, i>>}
    /\ Unsubscribe(TuplesOfParticipant(r, i))
    /\ UNCHANGED <<next_room_id, next_participant_id, now, disconnected>>

\* Source and destination may be the same room.
MoveParticipant(r, i, d) ==
    /\ d \in DOMAIN rooms
    /\ r \in DOMAIN rooms
    /\ i \in Members(rooms[r].participants)
    /\ LET p == [rooms[r].participants[i] EXCEPT !.version = @ + 1]
           left == [rooms EXCEPT ![r] = Departed(@, i)]
       IN  rooms' = [left EXCEPT ![d] =
             WithCount([@ EXCEPT !.participants[i] = p, !.empty_since = NotEmpty])]
    /\ moved_in' = moved_in \cup {<<d, i>>}
    /\ Unsubscribe(TuplesOfParticipant(r, i))
    /\ UNCHANGED <<next_room_id, next_participant_id, now, disconnected>>

-----------------------------------------------------------------------------
(* Snapshots: changes to one participant that stays in its room *)

\* Variant: the version stays.
BumpWithoutVersion(r, i, p) == rooms' = [rooms EXCEPT ![r].participants[i] = p]

\* Participant i of room r becomes p, one version newer.
Bump(r, i, p) ==
    rooms' = [rooms EXCEPT ![r].participants[i] = [p EXCEPT !.version = @ + 1]]

Present(r, i) == r \in DOMAIN rooms /\ i \in Members(rooms[r].participants)

SetParticipantKind(r, i, info) ==
    /\ Present(r, i)
    /\ Bump(r, i, [rooms[r].participants[i] EXCEPT !.info = info])
    /\ UNCHANGED <<next_room_id, next_participant_id, mediaVars, now, departureVars>>

\* The caller mints the SID of a published track, so it is not in the list yet.
AddParticipantTrack(r, i, t, info) ==
    /\ Present(r, i)
    /\ t \notin Published(rooms[r].participants[i])
    /\ Bump(r, i, [rooms[r].participants[i] EXCEPT !.tracks[t] = info])
    /\ UNCHANGED <<next_room_id, next_participant_id, mediaVars, now, departureVars>>

\* MIME type, MID, SDP CID or muted flag: no new version when the value is unchanged.
SetTrackField(r, i, t, info) ==
    /\ Present(r, i)
    /\ LET p == rooms[r].participants[i]
       IN  /\ t \in Published(p)
           /\ p.tracks[t] # info
           /\ Bump(r, i, [p EXCEPT !.tracks[t] = info])
    /\ UNCHANGED <<next_room_id, next_participant_id, mediaVars, now, departureVars>>

\* Also when the participant has no such track.
RemoveParticipantTrack(r, i, t) ==
    /\ Present(r, i)
    /\ Bump(r, i, [rooms[r].participants[i] EXCEPT !.tracks[t] = NoTrack])
    /\ Unsubscribe(TuplesOfTrack(r, i, t))
    /\ UNCHANGED <<next_room_id, next_participant_id, now, departureVars>>

AddParticipantDataTrack(r, i, h) ==
    /\ Present(r, i)
    /\ Bump(r, i, [rooms[r].participants[i] EXCEPT !.data_tracks = @ \cup {h}])
    /\ UNCHANGED <<next_room_id, next_participant_id, mediaVars, now, departureVars>>

RemoveParticipantDataTrack(r, i, h) ==
    /\ Present(r, i)
    /\ Bump(r, i, [rooms[r].participants[i] EXCEPT !.data_tracks = @ \ {h}])
    /\ UNCHANGED <<next_room_id, next_participant_id, mediaVars, now, departureVars>>

\* The permission part of an update: revoking can_publish clears both track lists.
WithPermission(p, perm) ==
    IF perm.can_publish THEN [p EXCEPT !.permission = perm]
    ELSE [p EXCEPT !.permission = perm, !.tracks = NoTracks, !.data_tracks = {}]

Regrants(p, perm) == perm.some /\ perm # p.permission

\* The entry after an update; a new version if anything changed.
Updated(p, perm, info) ==
    LET q == [(IF Regrants(p, perm) THEN WithPermission(p, perm) ELSE p) EXCEPT !.info = info]
    IN  IF Regrants(p, perm) \/ info # p.info THEN [q EXCEPT !.version = @ + 1] ELSE q

\* `info` stands for metadata, name and attributes together; NoPermission means that
\* the request carries none.
UpdateParticipant(r, i, info, perm) ==
    /\ Present(r, i)
    /\ LET p == rooms[r].participants[i]
           q == Updated(p, perm, info)
           rec == [rooms[r] EXCEPT !.participants[i] = q]
       IN  rooms' = [rooms EXCEPT ![r] =
             IF participant_is_hidden(p) # participant_is_hidden(q) THEN WithCount(rec) ELSE rec]
    /\ media_subscription_revision' = media_subscription_revision
         + (IF Regrants(rooms[r].participants[i], perm) THEN 1 ELSE 0)
    /\ UNCHANGED <<next_room_id, next_participant_id, media_unsubscribed, now, departureVars>>

-----------------------------------------------------------------------------
(* Media subscription preferences *)

SetSubscribed(keys, subscribed) ==
    /\ media_unsubscribed' = IF subscribed THEN media_unsubscribed \ keys
                             ELSE media_unsubscribed \cup keys
    /\ media_subscription_revision' = media_subscription_revision
         + (IF media_unsubscribed' # media_unsubscribed THEN 1 ELSE 0)
    /\ UNCHANGED <<storeVars, now, departureVars>>

PublishersOf(r, t) ==
    {i \in Members(rooms[r].participants) : t \in Published(rooms[r].participants[i])}

SetSubscribedByTrackSid(r, s, t, subscribed) ==
    /\ Present(r, s)
    /\ SetSubscribed({<<r, i, t, s>> : i \in PublishersOf(r, t)}, subscribed)

SetSubscribedByPublisherSid(r, sid, t, s, subscribed) ==
    /\ Present(r, s)
    /\ \E i \in Members(rooms[r].participants) :
         /\ rooms[r].participants[i].sid = sid
         /\ SetSubscribed({<<r, i, t, s>>}, subscribed)

\* Only the room is checked: publisher, track and subscriber may be gone already.
SetMediaTrackSubscribed(r, i, t, s, subscribed) ==
    /\ r \in DOMAIN rooms
    /\ SetSubscribed({<<r, i, t, s>>}, subscribed)

can_subscribe_to_media_track(r, i, t, s) ==
    /\ r \in DOMAIN rooms
    /\ s \in Members(rooms[r].participants) => rooms[r].participants[s].permission.can_subscribe
    /\ <<r, i, t, s>> \notin media_unsubscribed

-----------------------------------------------------------------------------
(* Specification *)

Init ==
    /\ rooms = EmptyFcn
    /\ next_room_id = 0 /\ next_participant_id = 0
    /\ media_unsubscribed = {} /\ media_subscription_revision = 0
    /\ now = 0
    /\ disconnected = [r \in Room |-> [i \in Identity |-> NoVersion]]
    /\ moved_in = {}
    /\ occupied_at = [r \in Room |-> 0]

\* The counters stay within the bounds of the instance.
WithinBounds ==
    /\ next_room_id <= MaxRoomId
    /\ next_participant_id <= MaxSid
    /\ media_subscription_revision <= MaxRevision
    /\ now <= MaxClock
    /\ \A r \in DOMAIN rooms : \A i \in Members(rooms[r].participants) :
         rooms[r].participants[i].version <= MaxVersion

Occupied(r) == r \in DOMAIN rooms /\ Members(rooms[r].participants) # {}

\* History: a room that has a participant is occupied at this instant.
RecordOccupied ==
    occupied_at' = [r \in Room |-> IF Occupied(r)' THEN now' ELSE occupied_at[r]]

RoomOps(r) ==
    \/ \E cfg \in RoomConfigs : CreateRoom(r, cfg)
    \/ DeleteRoom(r)

MemberOps(r, i) ==
    \/ \E perm \in Permissions \cup {NoPermission}, info \in Info : JoinParticipant(r, i, perm, info)
    \/ RemoveParticipant(r, i)
    \/ \E d \in Room : MoveParticipant(r, i, d)
    \/ \E info \in Info : SetParticipantKind(r, i, info)
    \/ \E t \in Track, info \in Info : AddParticipantTrack(r, i, t, info)
    \/ \E t \in Track, info \in Info : SetTrackField(r, i, t, info)
    \/ \E t \in Track : RemoveParticipantTrack(r, i, t)
    \/ \E h \in Handle : AddParticipantDataTrack(r, i, h)
    \/ \E h \in Handle : RemoveParticipantDataTrack(r, i, h)
    \/ \E perm \in Permissions \cup {NoPermission}, info \in Info : UpdateParticipant(r, i, info, perm)

SubscriptionOps(r, s, t, b) ==
    \/ SetSubscribedByTrackSid(r, s, t, b)
    \/ \E sid \in 1..MaxSid : SetSubscribedByPublisherSid(r, sid, t, s, b)
    \/ \E i \in Identity : SetMediaTrackSubscribed(r, i, t, s, b)

Next ==
    /\ \/ \E r \in Room : RoomOps(r)
       \/ \E r \in Room, i \in Identity : MemberOps(r, i)
       \/ \E r \in Room, s \in Identity, t \in Track, b \in BOOLEAN : SubscriptionOps(r, s, t, b)
       \/ CleanupExpired
       \/ Tick
    /\ RecordOccupied
    /\ WithinBounds'

Spec == Init /\ [][Next]_vars

-----------------------------------------------------------------------------
(* Properties *)

\* Every entry of the store's maps is well formed, and so are its counters and the history.
TypeOK ==
    /\ IsMap(rooms, Room, RoomRecord)
    /\ next_room_id \in Nat /\ next_participant_id \in Nat
    /\ media_unsubscribed \subseteq Room \X Identity \X Track \X Identity
    /\ media_subscription_revision \in Nat
    /\ now \in Nat
    /\ disconnected \in [Room -> [Identity -> Nat \cup {NoVersion}]]
    /\ moved_in \subseteq Room \X Identity
    /\ occupied_at \in [Room -> Nat]

\* The participant count that room snapshots and the room service report is the number
\* of visible participants, whatever mix of joins, removals, moves and permission
\* updates (which can hide or reveal a participant) led to the state.
NumParticipantsIsVisible ==
    \A r \in DOMAIN rooms :
        rooms[r].num_participants = visible_participant_count(rooms[r].participants)

\* The clock of the cleanup worker runs for a room exactly while nobody is in it.
EmptySinceIffEmpty ==
    \A r \in DOMAIN rooms :
        rooms[r].empty_since # NotEmpty <=> Members(rooms[r].participants) = {}

\* A participant SID names one session: no two entries of the store, in the same or in
\* different rooms, carry the same SID, also after moves and replacing joins.
SidsAreUnique ==
    \A r, q \in DOMAIN rooms :
        \A i \in Members(rooms[r].participants), j \in Members(rooms[q].participants) :
            rooms[r].participants[i].sid = rooms[q].participants[j].sid => r = q /\ i = j

\* Identity i entered room r with a SID minted by this step.
FreshlyJoined(r, i) ==
    /\ Present(r, i)'
    /\ rooms'[r].participants[i].sid > next_participant_id

\* A rejoin is newer than every disconnected snapshot of the same identity in the same
\* room record, however the earlier sessions came and went, unless one of them was moved
\* into the room by the room service.
RejoinIsNewer ==
    [][\A r \in Room, i \in Identity :
         FreshlyJoined(r, i) /\ <<r, i>> \notin moved_in'
         => rooms'[r].participants[i].version > disconnected'[r][i]]_vars

\* The session of identity i in room r is the same before and after the step.
SameSession(r, i) ==
    /\ Present(r, i) /\ Present(r, i)'
    /\ rooms'[r].participants[i].sid = rooms[r].participants[i].sid

\* Any change to a live participant's snapshot comes with a larger version.  Broadcasts
\* are suppressed when (SID, version) was seen before, so a change without a new version
\* would never reach the other participants.
SnapshotChangesAreVersioned ==
    [][\A r \in Room, i \in Identity :
         SameSession(r, i) /\ rooms'[r].participants[i] # rooms[r].participants[i]
         => rooms'[r].participants[i].version > rooms[r].participants[i].version]_vars

\* While a subscriber's session lasts, whatever changes the answer of
\* can_subscribe_to_media_track for it also advances the revision by which readers of the
\* forwarding decision notice that their cached answer is stale.
PolicyChangesAreRevised ==
    [][\A r \in Room, i, s \in Identity, t \in Track :
         /\ SameSession(r, s)
         /\ can_subscribe_to_media_track(r, i, t, s)' # can_subscribe_to_media_track(r, i, t, s)
         => media_subscription_revision' > media_subscription_revision]_vars

\* The cleanup worker only ever removes a room that has been empty, without interruption,
\* for at least the timeout that applies to it.
CleanupWaitsForTimeout ==
    [][CleanupExpired =>
         \A r \in DOMAIN rooms \ DOMAIN rooms' :
            /\ ~Occupied(r)
            /\ now - occupied_at[r] >= RoomTimeout(rooms[r])]_vars
=============================================================================
