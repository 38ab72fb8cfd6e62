--------------------------- MODULE RoomStoreProofs ---------------------------
EXTENDS RoomStore, FiniteSetTheorems, TLAPS

\* Recounting the visible participants keeps a record well typed.
LEMMA CountType ==
    ASSUME NEW rec \in RoomRecord
    PROVE  WithCount(rec) \in RoomRecord
<1>1. Visible(rec.participants) \subseteq Identity
  BY DEF Visible, Members
<1>2. Cardinality(Visible(rec.participants)) \in Nat
  BY <1>1, StoreConstants, FS_Subset, FS_CardinalityType
<1> QED
  BY <1>2 DEF WithCount, RoomRecord, visible_participant_count

\* A record made by create_room or by an automatic creation is well typed.
LEMMA NewRoomType ==
    ASSUME NEW id \in Nat, NEW cfg \in RoomConfig, now \in Nat
    PROVE  NewRoom(id, cfg) \in RoomRecord
BY DEF NewRoom, RoomRecord, RoomConfig, NotEmpty, NoVersion

\* A request completed with the store's defaults is a room configuration.
LEMMA OrDefaultType ==
    ASSUME NEW cfg \in RoomConfigs
    PROVE  OrDefault(cfg) \in RoomConfig
BY StoreConstants DEF OrDefault, RoomConfig

\* Every permission a caller may pass, None included, is a permission.
LEMMA PermissionType ==
    ASSUME NEW perm \in Permissions \cup {NoPermission}
    PROVE  perm \in Permission
<1>1. NoPermission \in Permission
  BY DEF NoPermission, Permission
<1> QED
  BY <1>1, StoreConstants

\* The record a join works on is well typed, whether it existed or not.
LEMMA JoinedRoomType ==
    ASSUME TypeOK, NEW r \in Room
    PROVE  JoinedRoom(r) \in RoomRecord
<1>1. NewRoom(next_room_id + 1, RoomDefaults) \in RoomRecord
  <2>1. next_room_id + 1 \in Nat /\ now \in Nat
    BY DEF TypeOK
  <2> QED
    BY <2>1, NewRoomType, StoreConstants
<1> QED
  BY <1>1 DEF JoinedRoom, TypeOK, IsMap

(***************************************************************************)
(* Steps that change the snapshot of one participant.                      *)
(***************************************************************************)

\* Participant i of room r is replaced by q; the rest of the store stays.
Replaces(r, i, q) == rooms' = [rooms EXCEPT ![r].participants[i] = q]

\* A present participant has a well-typed entry in a well-typed record.
LEMMA PresentType ==
    ASSUME TypeOK, NEW r \in Room, NEW i \in Identity, Present(r, i)
    PROVE  rooms[r] \in RoomRecord /\ rooms[r].participants[i] \in Participant
<1>1. rooms[r] \in RoomRecord
  BY DEF TypeOK, IsMap, Present
<1>2. rooms[r].participants[i] \in Participant \cup {NoParticipant}
  BY <1>1 DEF RoomRecord
<1> QED
  BY <1>1, <1>2 DEF Present, Members

\* Replacing one entry keeps the map of rooms well typed and all other rooms as they
\* were.
LEMMA ReplacesType ==
    ASSUME TypeOK, NEW r \in Room, NEW i \in Identity, Present(r, i),
           NEW q \in Participant, Replaces(r, i, q)
    PROVE  /\ IsMap(rooms', Room, RoomRecord)
           /\ DOMAIN rooms' = DOMAIN rooms
           /\ \A x \in DOMAIN rooms : x # r => rooms'[x] = rooms[x]
           /\ rooms'[r] = [rooms[r] EXCEPT !.participants[i] = q]
<1>1. rooms[r] \in RoomRecord /\ r \in DOMAIN rooms
  BY PresentType DEF Present
<1>2. [rooms[r] EXCEPT !.participants[i] = q] \in RoomRecord
  BY <1>1 DEF RoomRecord
<1>3. rooms' = [rooms EXCEPT ![r] = [rooms[r] EXCEPT !.participants[i] = q]]
  BY DEF Replaces
<1> QED
  BY <1>1, <1>2, <1>3 DEF TypeOK, IsMap

\* What a step that changes one snapshot leaves alone.
Snapshot(r, i) ==
    /\ Present(r, i)
    /\ \E q \in Participant :
         /\ Replaces(r, i, q)
         /\ q.sid = rooms[r].participants[i].sid
         /\ q.permission = rooms[r].participants[i].permission
         /\ q.version > rooms[r].participants[i].version
    /\ UNCHANGED <<next_room_id, next_participant_id, now, departureVars>>

SnapshotOps(r, i) ==
    \/ \E info \in Info : SetParticipantKind(r, i, info)
    \/ \E t \in Track, info \in Info : AddParticipantTrack(r, i, t, info)
    \/ \E t \in Track, info \in Info : SetTrackField(r, i, t, info)
    \/ \E t \in Track : RemoveParticipantTrack(r, i, t)
    \/ \E h \in Handle : AddParticipantDataTrack(r, i, h)
    \/ \E h \in Handle : RemoveParticipantDataTrack(r, i, h)

\* A version bump of an entry with the same SID and permission is a snapshot change.
LEMMA BumpIsSnapshot ==
    ASSUME TypeOK, NEW r \in Room, NEW i \in Identity, Present(r, i),
           NEW q \in Participant, Bump(r, i, q),
           q.sid = rooms[r].participants[i].sid,
           q.permission = rooms[r].participants[i].permission,
           q.version = rooms[r].participants[i].version,
           UNCHANGED <<next_room_id, next_participant_id, now, departureVars>>
    PROVE  Snapshot(r, i)
<1> DEFINE q1 == [q EXCEPT !.version = @ + 1]
<1>1. /\ q1 \in Participant /\ q1.sid = q.sid /\ q1.permission = q.permission
      /\ q1.version = q.version + 1 /\ q.version \in Nat
  BY DEF Participant
<1>2. Replaces(r, i, q1)
  BY DEF Bump, Replaces
<1> QED
  <2> HIDE DEF q1
  <2> QED BY <1>1, <1>2 DEF Snapshot

\* Each operation on the kind, the tracks or the data tracks of a participant is a
\* snapshot change.
LEMMA SnapshotOpsAreSnapshots ==
    ASSUME TypeOK, NEW r \in Room, NEW i \in Identity, SnapshotOps(r, i)
    PROVE  Snapshot(r, i)
<1> USE DEF mediaVars, departureVars
<1> DEFINE p == rooms[r].participants[i]
<1>1. Present(r, i)
  BY DEF SnapshotOps, SetParticipantKind, AddParticipantTrack, SetTrackField,
         RemoveParticipantTrack, AddParticipantDataTrack, RemoveParticipantDataTrack
<1>2. p \in Participant
  BY <1>1, PresentType
<1> HIDE DEF p
<1>3. ASSUME NEW info \in Info, SetParticipantKind(r, i, info) PROVE Snapshot(r, i)
  <2> DEFINE q == [p EXCEPT !.info = info]
  <2>1. q \in Participant /\ q.sid = p.sid /\ q.permission = p.permission /\ q.version = p.version
    BY <1>2 DEF Participant
  <2>2. Bump(r, i, q) /\ UNCHANGED <<next_room_id, next_participant_id, now, departureVars>>
    BY <1>3 DEF SetParticipantKind, p
  <2> QED BY <1>1, <2>1, <2>2, BumpIsSnapshot DEF p
<1>4. ASSUME NEW t \in Track, NEW info \in Info,
             AddParticipantTrack(r, i, t, info) \/ SetTrackField(r, i, t, info)
      PROVE  Snapshot(r, i)
  <2> DEFINE q == [p EXCEPT !.tracks[t] = info]
  <2>1. q \in Participant /\ q.sid = p.sid /\ q.permission = p.permission /\ q.version = p.version
    BY <1>2 DEF Participant
  <2>2. Bump(r, i, q) /\ UNCHANGED <<next_room_id, next_participant_id, now, departureVars>>
    BY <1>4 DEF AddParticipantTrack, SetTrackField, p
  <2> QED BY <1>1, <2>1, <2>2, BumpIsSnapshot DEF p
<1>5. ASSUME NEW t \in Track, RemoveParticipantTrack(r, i, t) PROVE Snapshot(r, i)
  <2> DEFINE q == [p EXCEPT !.tracks[t] = NoTrack]
  <2>1. q \in Participant /\ q.sid = p.sid /\ q.permission = p.permission /\ q.version = p.version
    BY <1>2 DEF Participant
  <2>2. Bump(r, i, q) /\ UNCHANGED <<next_room_id, next_participant_id, now, departureVars>>
    BY <1>5 DEF RemoveParticipantTrack, p
  <2> QED BY <1>1, <2>1, <2>2, BumpIsSnapshot DEF p
<1>6. ASSUME NEW h \in Handle, NEW D \in SUBSET Handle,
             D \in {p.data_tracks \cup {h}, p.data_tracks \ {h}},
             Bump(r, i, [p EXCEPT !.data_tracks = D]),
             UNCHANGED <<next_room_id, next_participant_id, now, departureVars>>
      PROVE  Snapshot(r, i)
  <2> DEFINE q == [p EXCEPT !.data_tracks = D]
  <2>1. q \in Participant /\ q.sid = p.sid /\ q.permission = p.permission /\ q.version = p.version
    BY <1>2 DEF Participant
  <2> QED BY <1>1, <1>6, <2>1, BumpIsSnapshot DEF p
<1>7. ASSUME NEW h \in Handle,
             AddParticipantDataTrack(r, i, h) \/ RemoveParticipantDataTrack(r, i, h)
      PROVE  Snapshot(r, i)
  <2>1. p.data_tracks \in SUBSET Handle
    BY <1>2 DEF Participant
  <2> QED
    BY <1>6, <1>7, <2>1 DEF AddParticipantDataTrack, RemoveParticipantDataTrack, p
<1> QED
  BY <1>3, <1>4, <1>5, <1>7 DEF SnapshotOps

(***************************************************************************)
(* Room records: type, participant count and clock of the cleanup worker.  *)
(***************************************************************************)

\* A record whose count and empty_since agree with its participants.
Booked(rec) ==
    /\ rec.num_participants = visible_participant_count(rec.participants)
    /\ rec.empty_since # NotEmpty <=> Members(rec.participants) = {}

\* All records of a map of rooms are well typed and booked.
BookedRooms(f) ==
    /\ IsMap(f, Room, RoomRecord)
    /\ \A r \in DOMAIN f : Booked(f[r])

\* After a recount the books of a record agree if its empty_since did before.
LEMMA CountBooked ==
    ASSUME NEW rec \in RoomRecord,
           rec.empty_since # NotEmpty <=> Members(rec.participants) = {}
    PROVE  Booked(WithCount(rec))
<1>1. WithCount(rec) = [rec EXCEPT !.num_participants = visible_participant_count(rec.participants)]
  BY DEF WithCount
<1>2. /\ WithCount(rec).participants = rec.participants
      /\ WithCount(rec).empty_since = rec.empty_since
      /\ WithCount(rec).num_participants = visible_participant_count(rec.participants)
  BY <1>1 DEF RoomRecord
<1> QED
  BY <1>2 DEF Booked

\* The books of a new room agree: nobody in it, and its clock runs from now.
LEMMA NewRoomBooked ==
    ASSUME NEW id \in Nat, NEW cfg \in RoomConfig, now \in Nat
    PROVE  Booked(NewRoom(id, cfg))
<1> DEFINE ps == [i \in Identity |-> NoParticipant]
<1>1. Members(ps) = {} /\ Visible(ps) = {}
  BY DEF Members, Visible
<1>2. visible_participant_count(ps) = 0
  BY <1>1, FS_EmptySet DEF visible_participant_count
<1>3. /\ NewRoom(id, cfg).participants = ps /\ NewRoom(id, cfg).num_participants = 0
      /\ NewRoom(id, cfg).empty_since = now /\ now # NotEmpty
  BY DEF NewRoom, NotEmpty
<1> QED
  BY <1>1, <1>2, <1>3 DEF Booked

\* The record between the removal of i and the recount.
Left(rec, i) ==
    [rec EXCEPT !.participants[i] = NoParticipant,
                !.empty_since = IF Members(rec.participants) = {i} THEN now ELSE @]

\* The books agree after a departure; the clock starts if the last participant left.
LEMMA DepartedBooked ==
    ASSUME NEW rec \in RoomRecord, NEW i \in Identity, Booked(rec), now \in Nat,
           i \in Members(rec.participants)
    PROVE  /\ Departed(rec, i) \in RoomRecord
           /\ Booked(Departed(rec, i))
           /\ Departed(rec, i).participants = [rec.participants EXCEPT ![i] = NoParticipant]
           /\ Departed(rec, i).participant_versions = rec.participant_versions
           /\ Departed(rec, i).empty_since \in {now, NotEmpty}
<1> DEFINE left == Left(rec, i)
<1>1. left \in RoomRecord
  BY DEF Left, RoomRecord
<1>2. /\ left.participants = [rec.participants EXCEPT ![i] = NoParticipant]
      /\ left.participant_versions = rec.participant_versions
      /\ left.empty_since = IF Members(rec.participants) = {i} THEN now ELSE rec.empty_since
  BY DEF Left, RoomRecord
<1>3. Members(left.participants) = Members(rec.participants) \ {i}
  BY <1>2 DEF Members, RoomRecord
<1>4. rec.empty_since = NotEmpty /\ now # NotEmpty
  BY DEF Booked, NotEmpty
<1>5. left.empty_since # NotEmpty <=> Members(left.participants) = {}
  BY <1>2, <1>3, <1>4
<1>6. Departed(rec, i) = WithCount(left)
  BY DEF Departed, Left
<1> HIDE DEF left
<1>7. WithCount(left) \in RoomRecord /\ Booked(WithCount(left))
  BY <1>1, <1>5, CountType, CountBooked
<1>8. /\ WithCount(left).participants = left.participants
      /\ WithCount(left).empty_since = left.empty_since
      /\ WithCount(left).participant_versions = left.participant_versions
  BY <1>1 DEF WithCount, RoomRecord
<1> QED
  BY <1>2, <1>4, <1>6, <1>7, <1>8

\* Inserting a record with correct books keeps all books correct.
LEMMA PutBooked ==
    ASSUME BookedRooms(rooms), NEW r \in Room, NEW rec \in RoomRecord, Booked(rec),
           rooms' = Put(rooms, r, rec)
    PROVE  BookedRooms(rooms')
BY DEF BookedRooms, IsMap, Put

\* create_room keeps the books of all rooms.
LEMMA CreateBooked ==
    ASSUME TypeOK, BookedRooms(rooms), NEW r \in Room, NEW cfg \in RoomConfigs, CreateRoom(r, cfg)
    PROVE  BookedRooms(rooms')
<1>1. next_room_id + 1 \in Nat /\ now \in Nat /\ OrDefault(cfg) \in RoomConfig
  BY OrDefaultType DEF TypeOK
<1>2. /\ NewRoom(next_room_id + 1, OrDefault(cfg)) \in RoomRecord
      /\ Booked(NewRoom(next_room_id + 1, OrDefault(cfg)))
  BY <1>1, NewRoomType, NewRoomBooked
<1> QED
  BY <1>2, PutBooked DEF CreateRoom

\* The participant entry and the record that a join installs.
Joiner(r, i, perm, info) ==
    [sid |-> next_participant_id + 1, version |-> JoinVersion(JoinedRoom(r), i),
     permission |-> perm, info |-> info, tracks |-> NoTracks, data_tracks |-> {}]

Joined(r, i, p) ==
    [JoinedRoom(r) EXCEPT !.participants[i] = p, !.participant_versions[i] = p.version,
                          !.had_participants = TRUE, !.empty_since = NotEmpty]

\* What a join leaves behind.
JoinsAs(r, i, p) ==
    /\ p \in Participant
    /\ DOMAIN rooms' = DOMAIN rooms \cup {r}
    /\ \A x \in DOMAIN rooms : x # r => rooms'[x] = rooms[x]
    /\ rooms'[r].participants = [JoinedRoom(r).participants EXCEPT ![i] = p]
    /\ rooms'[r].participant_versions =
         [JoinedRoom(r).participant_versions EXCEPT ![i] = JoinVersion(JoinedRoom(r), i)]
    /\ rooms'[r].empty_since = NotEmpty

\* A join keeps the books of all rooms and installs exactly the joiner.
LEMMA JoinEffect ==
    ASSUME TypeOK, BookedRooms(rooms), NEW r \in Room, NEW i \in Identity,
           NEW perm \in Permissions \cup {NoPermission}, NEW info \in Info,
           JoinParticipant(r, i, perm, info)
    PROVE  BookedRooms(rooms') /\ JoinsAs(r, i, Joiner(r, i, perm, info))
<1> DEFINE rec == JoinedRoom(r)
           p == Joiner(r, i, perm, info)
           new == Joined(r, i, p)
<1>1. rec \in RoomRecord
  BY JoinedRoomType
<1>2. JoinVersion(rec, i) \in Nat
  BY <1>1 DEF JoinVersion, RoomRecord, NoVersion
<1>3. perm \in Permission
  BY PermissionType
<1>4. p \in Participant /\ p.version = JoinVersion(rec, i)
  BY <1>2, <1>3 DEF Joiner, Participant, TypeOK, NoTracks
<1>5. rooms' = Put(rooms, r, WithCount(new))
  BY DEF JoinParticipant, Joiner, Joined
<1> HIDE DEF rec, p
<1>6. /\ new \in RoomRecord
      /\ new.participants = [rec.participants EXCEPT ![i] = p]
      /\ new.participant_versions = [rec.participant_versions EXCEPT ![i] = p.version]
      /\ new.empty_since = NotEmpty
  <2>1. p.version \in Nat
    BY <1>4 DEF Participant
  <2>2. new = [rec EXCEPT !.participants[i] = p, !.participant_versions[i] = p.version,
                          !.had_participants = TRUE, !.empty_since = NotEmpty]
    BY DEF Joined, rec
  <2> HIDE DEF new
  <2>3. new \in RoomRecord
    BY <1>1, <1>4, <2>1, <2>2 DEF RoomRecord
  <2>4. /\ new.participants = [rec.participants EXCEPT ![i] = p]
        /\ new.participant_versions = [rec.participant_versions EXCEPT ![i] = p.version]
        /\ new.empty_since = NotEmpty
    BY <1>1, <2>2 DEF RoomRecord
  <2> QED
    BY <2>3, <2>4
<1>7. i \in Members(new.participants)
  BY <1>1, <1>4, <1>6, NoParticipantIsNone DEF Members, RoomRecord
<1> HIDE DEF new
<1>8. WithCount(new) \in RoomRecord /\ Booked(WithCount(new))
  BY <1>6, <1>7, CountType, CountBooked
<1>9. /\ WithCount(new).participants = new.participants
      /\ WithCount(new).empty_since = new.empty_since
      /\ WithCount(new).participant_versions = new.participant_versions
  BY <1>6 DEF WithCount, RoomRecord
<1>10. BookedRooms(rooms')
  BY <1>5, <1>8, PutBooked
<1>11. /\ DOMAIN rooms' = DOMAIN rooms \cup {r}
       /\ \A x \in DOMAIN rooms : x # r => rooms'[x] = rooms[x]
       /\ rooms'[r] = WithCount(new)
  BY <1>5 DEF Put
<1>12. JoinsAs(r, i, p)
  BY <1>4, <1>6, <1>9, <1>11 DEF JoinsAs, rec
<1> QED
  BY <1>10, <1>12 DEF p
\* remove_participant keeps the books of all rooms and removes exactly one entry.
LEMMA RemoveEffect ==
    ASSUME TypeOK, BookedRooms(rooms), NEW r \in Room, NEW i \in Identity,
           RemoveParticipant(r, i)
    PROVE  /\ BookedRooms(rooms')
           /\ DOMAIN rooms' = DOMAIN rooms
           /\ \A x \in DOMAIN rooms : x # r => rooms'[x] = rooms[x]
           /\ rooms'[r].participants = [rooms[r].participants EXCEPT ![i] = NoParticipant]
           /\ rooms'[r].participant_versions =
                [rooms[r].participant_versions EXCEPT ![i] = rooms[r].participants[i].version + 1]
           /\ rooms'[r].empty_since \in {now, NotEmpty}
<1> DEFINE rec == rooms[r]
           v == rec.participants[i].version + 1
           dep == Departed(rec, i)
           new == [dep EXCEPT !.participant_versions[i] = v]
<1>1. Present(r, i)
  BY DEF RemoveParticipant, Present
<1>2. rec \in RoomRecord /\ rec.participants[i] \in Participant
  BY <1>1, PresentType
<1>3. v \in Nat
  BY <1>2 DEF Participant
<1>4. /\ dep \in RoomRecord /\ Booked(dep)
      /\ dep.participants = [rec.participants EXCEPT ![i] = NoParticipant]
      /\ dep.participant_versions = rec.participant_versions
      /\ dep.empty_since \in {now, NotEmpty}
  BY <1>1, <1>2, DepartedBooked DEF BookedRooms, Present, TypeOK
<1>5. rooms' = [rooms EXCEPT ![r] = new]
  BY DEF RemoveParticipant
<1> HIDE DEF dep, v, rec
<1>6. /\ new \in RoomRecord
      /\ new.participants = dep.participants
      /\ new.num_participants = dep.num_participants
      /\ new.empty_since = dep.empty_since
      /\ new.participant_versions = [dep.participant_versions EXCEPT ![i] = v]
  BY <1>3, <1>4 DEF RoomRecord
<1> HIDE DEF new
<1>7. Booked(new)
  BY <1>4, <1>6 DEF Booked
<1>8. /\ BookedRooms(rooms') /\ DOMAIN rooms' = DOMAIN rooms /\ rooms'[r] = new
      /\ \A x \in DOMAIN rooms : x # r => rooms'[x] = rooms[x]
  BY <1>1, <1>5, <1>6, <1>7 DEF BookedRooms, IsMap, Present
<1> QED
  BY <1>4, <1>6, <1>8 DEF rec, v

\* The record that receives a moved participant.
Received(rec, i, p) == WithCount([rec EXCEPT !.participants[i] = p, !.empty_since = NotEmpty])

\* The books of the destination of a move agree.
LEMMA ReceivedBooked ==
    ASSUME NEW rec \in RoomRecord, NEW i \in Identity, NEW p \in Participant
    PROVE  /\ Received(rec, i, p) \in RoomRecord
           /\ Booked(Received(rec, i, p))
           /\ Received(rec, i, p).participants = [rec.participants EXCEPT ![i] = p]
           /\ Received(rec, i, p).participant_versions = rec.participant_versions
           /\ Received(rec, i, p).empty_since = NotEmpty
<1> DEFINE new == [rec EXCEPT !.participants[i] = p, !.empty_since = NotEmpty]
<1>1. /\ new \in RoomRecord
      /\ new.participants = [rec.participants EXCEPT ![i] = p]
      /\ new.participant_versions = rec.participant_versions
      /\ new.empty_since = NotEmpty
  BY DEF RoomRecord
<1>2. i \in Members(new.participants)
  BY <1>1, NoParticipantIsNone DEF Members, RoomRecord
<1>3. Received(rec, i, p) = WithCount(new)
  BY DEF Received
<1> HIDE DEF new
<1>4. WithCount(new) \in RoomRecord /\ Booked(WithCount(new))
  BY <1>1, <1>2, CountType, CountBooked
<1>5. /\ WithCount(new).participants = new.participants
      /\ WithCount(new).empty_since = new.empty_since
      /\ WithCount(new).participant_versions = new.participant_versions
  BY <1>1 DEF WithCount, RoomRecord
<1> QED
  BY <1>1, <1>3, <1>4, <1>5

\* The participant as it arrives in the destination room.
Moved(r, i) == [rooms[r].participants[i] EXCEPT !.version = @ + 1]

\* What a move leaves behind.
MovesAs(r, i, d, p) ==
    /\ DOMAIN rooms' = DOMAIN rooms
    /\ p \in Participant
    /\ p.sid = rooms[r].participants[i].sid
    /\ \A x \in DOMAIN rooms :
         /\ rooms'[x].participants =
              IF x = d THEN [rooms[x].participants EXCEPT ![i] = p]
              ELSE IF x = r THEN [rooms[x].participants EXCEPT ![i] = NoParticipant]
              ELSE rooms[x].participants
         /\ rooms'[x].participant_versions = rooms[x].participant_versions
         /\ rooms'[x].empty_since \in {rooms[x].empty_since, now, NotEmpty}

\* move_participant keeps the books of both rooms, also when they are the same room.
LEMMA MoveEffect ==
    ASSUME TypeOK, BookedRooms(rooms), NEW r \in Room, NEW i \in Identity, NEW d \in Room,
           MoveParticipant(r, i, d)
    PROVE  BookedRooms(rooms') /\ MovesAs(r, i, d, Moved(r, i))
<1> DEFINE p == Moved(r, i)
           dep == Departed(rooms[r], i)
           left == [rooms EXCEPT ![r] = dep]
<1>1. Present(r, i) /\ d \in DOMAIN rooms /\ r \in DOMAIN rooms
  BY DEF MoveParticipant, Present
<1>2. rooms[r] \in RoomRecord /\ rooms[r].participants[i] \in Participant
  BY <1>1, PresentType
<1>3. p \in Participant /\ p.sid = rooms[r].participants[i].sid
  BY <1>2 DEF Moved, Participant
<1>4. /\ dep \in RoomRecord /\ Booked(dep)
      /\ dep.participants = [rooms[r].participants EXCEPT ![i] = NoParticipant]
      /\ dep.participant_versions = rooms[r].participant_versions
      /\ dep.empty_since \in {now, NotEmpty}
  BY <1>1, <1>2, DepartedBooked DEF BookedRooms, Present, TypeOK
<1>5. rooms' = [left EXCEPT ![d] = Received(left[d], i, p)]
  <2>1. left = [rooms EXCEPT ![r] = Departed(@, i)]
    OBVIOUS
  <2> QED
    BY <2>1 DEF MoveParticipant, Moved, Received
<1> HIDE DEF p, dep
<1>6. /\ DOMAIN left = DOMAIN rooms /\ left[r] = dep
      /\ \A x \in DOMAIN rooms : x # r => left[x] = rooms[x]
      /\ \A x \in DOMAIN rooms : left[x] \in RoomRecord /\ Booked(left[x])
  BY <1>1, <1>4 DEF BookedRooms, IsMap
<1> HIDE DEF left
<1>7. /\ Received(left[d], i, p) \in RoomRecord /\ Booked(Received(left[d], i, p))
      /\ Received(left[d], i, p).participants = [left[d].participants EXCEPT ![i] = p]
      /\ Received(left[d], i, p).participant_versions = left[d].participant_versions
      /\ Received(left[d], i, p).empty_since = NotEmpty
  BY <1>1, <1>3, <1>6, ReceivedBooked
<1>8. /\ DOMAIN rooms' = DOMAIN rooms
      /\ rooms'[d] = Received(left[d], i, p)
      /\ \A x \in DOMAIN rooms : x # d => rooms'[x] = left[x]
  BY <1>1, <1>5, <1>6
<1>9. BookedRooms(rooms')
  <2>1. \A x \in DOMAIN rooms' : rooms'[x] \in RoomRecord /\ Booked(rooms'[x])
    BY <1>6, <1>7, <1>8
  <2>2. rooms' = [x \in DOMAIN rooms' |-> rooms'[x]]
    BY <1>5, <1>6, <1>8
  <2> QED
    BY <1>8, <2>1, <2>2 DEF BookedRooms, IsMap
<1>10. ASSUME NEW x \in DOMAIN rooms
       PROVE  /\ rooms'[x].participants =
                   IF x = d THEN [rooms[x].participants EXCEPT ![i] = p]
                   ELSE IF x = r THEN [rooms[x].participants EXCEPT ![i] = NoParticipant]
                   ELSE rooms[x].participants
              /\ rooms'[x].participant_versions = rooms[x].participant_versions
              /\ rooms'[x].empty_since \in {rooms[x].empty_since, now, NotEmpty}
  <2>1. CASE x # d
    BY <1>4, <1>6, <1>8, <2>1
  <2>2. CASE x = d /\ x # r
    BY <1>6, <1>7, <1>8, <2>2
  <2>3. CASE x = d /\ x = r
    <3>1. rooms[r].participants \in [Identity -> Participant \cup {NoParticipant}]
      BY <1>2 DEF RoomRecord
    <3>2. [dep.participants EXCEPT ![i] = p] = [rooms[r].participants EXCEPT ![i] = p]
      BY <1>4, <3>1
    <3> QED
      BY <1>4, <1>6, <1>7, <1>8, <2>3, <3>2
  <2> QED
    BY <2>1, <2>2, <2>3
<1>11. MovesAs(r, i, d, p)
  BY <1>3, <1>8, <1>10 DEF MovesAs
<1> QED
  BY <1>9, <1>11 DEF p
\* The step rewrites the entry of i in r within the same session.
Rewrites(r, i) ==
    /\ Present(r, i)
    /\ DOMAIN rooms' = DOMAIN rooms
    /\ \A x \in DOMAIN rooms : x # r => rooms'[x] = rooms[x]
    /\ rooms'[r].participant_versions = rooms[r].participant_versions
    /\ rooms'[r].empty_since = rooms[r].empty_since
    /\ \E q \in Participant :
         /\ rooms'[r].participants = [rooms[r].participants EXCEPT ![i] = q]
         /\ q.sid = rooms[r].participants[i].sid
         /\ q.version >= rooms[r].participants[i].version
         /\ q # rooms[r].participants[i] => q.version > rooms[r].participants[i].version

\* Replacing a present entry by another changes neither the members nor, if both are
\* equally hidden, the visible ones.
LEMMA SameMembers ==
    ASSUME NEW rec \in RoomRecord, NEW i \in Members(rec.participants), NEW q \in Participant
    PROVE  /\ Members([rec.participants EXCEPT ![i] = q]) = Members(rec.participants)
           /\ participant_is_hidden(q) = participant_is_hidden(rec.participants[i])
              => Visible([rec.participants EXCEPT ![i] = q]) = Visible(rec.participants)
<1> DEFINE ps == [rec.participants EXCEPT ![i] = q]
<1>1. /\ \A j \in Identity : ps[j] = IF j = i THEN q ELSE rec.participants[j]
      /\ i \in Identity
  BY DEF RoomRecord, Members
<1> HIDE DEF ps
<1>2. Members(ps) = Members(rec.participants)
  BY <1>1, NoParticipantIsNone DEF Members
<1>3. ASSUME participant_is_hidden(q) = participant_is_hidden(rec.participants[i])
      PROVE  Visible(ps) = Visible(rec.participants)
  BY <1>1, <1>2, <1>3 DEF Visible, Members
<1> QED
  BY <1>2, <1>3 DEF ps

\* A snapshot change keeps the books of all rooms.
LEMMA SnapshotEffect ==
    ASSUME TypeOK, BookedRooms(rooms), NEW r \in Room, NEW i \in Identity, Snapshot(r, i)
    PROVE  BookedRooms(rooms') /\ Rewrites(r, i)
<1>1. PICK q \in Participant :
         /\ Replaces(r, i, q)
         /\ q.sid = rooms[r].participants[i].sid
         /\ q.permission = rooms[r].participants[i].permission
         /\ q.version > rooms[r].participants[i].version
  BY DEF Snapshot
<1>2. Present(r, i) /\ r \in DOMAIN rooms
  BY DEF Snapshot, Present
<1>3. rooms[r] \in RoomRecord /\ rooms[r].participants[i] \in Participant
  BY <1>2, PresentType
<1>4. /\ IsMap(rooms', Room, RoomRecord)
      /\ DOMAIN rooms' = DOMAIN rooms
      /\ \A x \in DOMAIN rooms : x # r => rooms'[x] = rooms[x]
      /\ rooms'[r] = [rooms[r] EXCEPT !.participants[i] = q]
  BY <1>1, <1>2, ReplacesType
<1>5. /\ rooms'[r].participants = [rooms[r].participants EXCEPT ![i] = q]
      /\ rooms'[r].participant_versions = rooms[r].participant_versions
      /\ rooms'[r].empty_since = rooms[r].empty_since
      /\ rooms'[r].num_participants = rooms[r].num_participants
  BY <1>3, <1>4 DEF RoomRecord
<1>6. /\ Members(rooms'[r].participants) = Members(rooms[r].participants)
      /\ Visible(rooms'[r].participants) = Visible(rooms[r].participants)
  BY <1>1, <1>2, <1>3, <1>5, SameMembers DEF participant_is_hidden, Present
<1>7. Booked(rooms'[r])
  BY <1>2, <1>5, <1>6 DEF Booked, BookedRooms, visible_participant_count
<1>8. BookedRooms(rooms')
  BY <1>4, <1>7 DEF BookedRooms
<1>9. q.version >= rooms[r].participants[i].version
  BY <1>1, <1>3 DEF Participant
<1> QED
  BY <1>1, <1>2, <1>4, <1>5, <1>8, <1>9 DEF Rewrites

Granted(p, perm) == IF Regrants(p, perm) THEN WithPermission(p, perm) ELSE p

\* differs.
LEMMA UpdatedType ==
    ASSUME NEW p \in Participant, NEW perm \in Permission, NEW info \in Info
    PROVE  /\ Updated(p, perm, info) \in Participant
           /\ Updated(p, perm, info).sid = p.sid
           /\ Updated(p, perm, info).version >= p.version
           /\ Updated(p, perm, info) # p => Updated(p, perm, info).version > p.version
<1> DEFINE g == Granted(p, perm)
           q == [g EXCEPT !.info = info]
<1>1. g \in Participant /\ g.sid = p.sid /\ g.version = p.version /\ g.info = p.info
  <2>1. NoTracks \in [Track -> Info \cup {NoTrack}] /\ {} \in SUBSET Handle
    BY DEF NoTracks
  <2>2. /\ WithPermission(p, perm) \in Participant /\ WithPermission(p, perm).sid = p.sid
        /\ WithPermission(p, perm).version = p.version /\ WithPermission(p, perm).info = p.info
    BY <2>1 DEF WithPermission, Participant
  <2> QED
    BY <2>2 DEF Granted
<1>2. ~Regrants(p, perm) => g = p
  BY DEF Granted
<1>3. Updated(p, perm, info) =
        IF Regrants(p, perm) \/ info # p.info THEN [q EXCEPT !.version = @ + 1] ELSE q
  BY DEF Updated, Granted
<1> HIDE DEF g
<1>4. /\ q \in Participant /\ q.sid = p.sid /\ q.version = p.version
      /\ g = p /\ info = p.info => q = p
  BY <1>1 DEF Participant
<1> HIDE DEF q
<1>5. /\ [q EXCEPT !.version = @ + 1] \in Participant
      /\ [q EXCEPT !.version = @ + 1].sid = p.sid
      /\ [q EXCEPT !.version = @ + 1].version = p.version + 1
      /\ p.version \in Nat
  BY <1>4 DEF Participant
<1> QED
  <2>1. CASE Regrants(p, perm) \/ info # p.info
    BY <1>3, <1>5, <2>1
  <2>2. CASE ~(Regrants(p, perm) \/ info # p.info)
    BY <1>2, <1>3, <1>4, <1>5, <2>2
  <2> QED
    BY <2>1, <2>2

\* update_participant keeps the books of all rooms, also when it hides or reveals the
\* participant.
LEMMA UpdateEffect ==
    ASSUME TypeOK, BookedRooms(rooms), NEW r \in Room, NEW i \in Identity, NEW info \in Info,
           NEW perm \in Permissions \cup {NoPermission}, UpdateParticipant(r, i, info, perm)
    PROVE  BookedRooms(rooms') /\ Rewrites(r, i)
<1> DEFINE p == rooms[r].participants[i]
           q == Updated(p, perm, info)
           rec == [rooms[r] EXCEPT !.participants[i] = q]
           new == IF participant_is_hidden(p) # participant_is_hidden(q) THEN WithCount(rec) ELSE rec
<1>1. Present(r, i) /\ r \in DOMAIN rooms
  BY DEF UpdateParticipant, Present
<1>2. rooms[r] \in RoomRecord /\ p \in Participant /\ perm \in Permission
  BY <1>1, PresentType, PermissionType
<1>3. /\ q \in Participant /\ q.sid = p.sid /\ q.version >= p.version
      /\ q # p => q.version > p.version
  BY <1>2, UpdatedType
<1>4. rooms' = [rooms EXCEPT ![r] = new]
  BY DEF UpdateParticipant
<1> HIDE DEF p, q
<1>5. /\ rec \in RoomRecord
      /\ rec.participants = [rooms[r].participants EXCEPT ![i] = q]
      /\ rec.participant_versions = rooms[r].participant_versions
      /\ rec.empty_since = rooms[r].empty_since
      /\ rec.num_participants = rooms[r].num_participants
  BY <1>2, <1>3 DEF RoomRecord
<1>6. /\ Members(rec.participants) = Members(rooms[r].participants)
      /\ participant_is_hidden(p) = participant_is_hidden(q)
         => Visible(rec.participants) = Visible(rooms[r].participants)
  BY <1>1, <1>2, <1>3, <1>5, SameMembers DEF Present, p
<1>7. Booked(rooms[r])
  BY <1>1 DEF BookedRooms
<1> HIDE DEF rec
<1>8. /\ WithCount(rec) \in RoomRecord /\ Booked(WithCount(rec))
      /\ WithCount(rec).participants = rec.participants
      /\ WithCount(rec).participant_versions = rec.participant_versions
      /\ WithCount(rec).empty_since = rec.empty_since
  <2>1. rec.empty_since # NotEmpty <=> Members(rec.participants) = {}
    BY <1>5, <1>6, <1>7 DEF Booked
  <2>2. WithCount(rec) \in RoomRecord /\ Booked(WithCount(rec))
    BY <1>5, <2>1, CountType, CountBooked
  <2> QED
    BY <1>5, <2>2 DEF WithCount, RoomRecord
<1>9. /\ new \in RoomRecord /\ Booked(new)
      /\ new.participants = [rooms[r].participants EXCEPT ![i] = q]
      /\ new.participant_versions = rooms[r].participant_versions
      /\ new.empty_since = rooms[r].empty_since
  <2>1. CASE participant_is_hidden(p) # participant_is_hidden(q)
    BY <1>5, <1>8, <2>1
  <2>2. CASE participant_is_hidden(p) = participant_is_hidden(q)
    BY <1>5, <1>6, <1>7, <2>2 DEF Booked, visible_participant_count
  <2> QED
    BY <2>1, <2>2
<1> HIDE DEF new
<1>10. /\ BookedRooms(rooms') /\ DOMAIN rooms' = DOMAIN rooms /\ rooms'[r] = new
       /\ \A x \in DOMAIN rooms : x # r => rooms'[x] = rooms[x]
  BY <1>1, <1>4, <1>9 DEF BookedRooms, IsMap
<1> QED
  BY <1>1, <1>3, <1>9, <1>10 DEF Rewrites, p
(***************************************************************************)
(* What a step does to the rooms, in six shapes.                           *)
(***************************************************************************)

Creates(r) ==
    /\ r \notin DOMAIN rooms /\ DOMAIN rooms' = DOMAIN rooms \cup {r}
    /\ \A x \in DOMAIN rooms : rooms'[x] = rooms[x]
    /\ Members(rooms'[r].participants) = {}
    /\ rooms'[r].empty_since = now
    /\ ForgetDepartures(r)
    /\ UNCHANGED <<next_participant_id, now>>

\* Deletion, cleanup, and the steps that leave the rooms alone.
Restricts ==
    /\ DOMAIN rooms' \subseteq DOMAIN rooms
    /\ \A x \in DOMAIN rooms' : rooms'[x] = rooms[x]
    /\ now' \in {now, now + 1}
    /\ UNCHANGED <<next_participant_id, departureVars>>

Joins(r, i) ==
    \E perm \in Permissions \cup {NoPermission}, info \in Info : JoinParticipant(r, i, perm, info)

RewriteStep(r, i) == Rewrites(r, i) /\ UNCHANGED <<next_participant_id, now, departureVars>>

RoomsStep ==
    \/ \E r \in Room : Creates(r)
    \/ Restricts
    \/ \E r \in Room, i \in Identity :
         \/ Joins(r, i)
         \/ RewriteStep(r, i)
         \/ RemoveParticipant(r, i)
         \/ \E d \in Room : MoveParticipant(r, i, d)

\* create_room has the shape Creates.
LEMMA CreateEffect ==
    ASSUME TypeOK, NEW r \in Room, NEW cfg \in RoomConfigs, CreateRoom(r, cfg)
    PROVE  Creates(r)
<1> DEFINE rec == NewRoom(next_room_id + 1, OrDefault(cfg))
<1>1. rec.empty_since = now /\ rec.participants = [i \in Identity |-> NoParticipant]
  BY DEF NewRoom
<1>2. Members(rec.participants) = {}
  BY <1>1 DEF Members
<1>3. rooms' = Put(rooms, r, rec) /\ r \notin DOMAIN rooms
  BY DEF CreateRoom
<1> HIDE DEF rec
<1> QED
  BY <1>1, <1>2, <1>3 DEF Creates, CreateRoom, Put

\* Deletion, cleanup, time and subscription changes have the shape Restricts.
LEMMA RestrictEffect ==
    ASSUME TypeOK, BookedRooms(rooms),
           \/ \E r \in Room : DeleteRoom(r)
           \/ CleanupExpired
           \/ Tick
           \/ \E r \in Room, s \in Identity, t \in Track, b \in BOOLEAN : SubscriptionOps(r, s, t, b)
    PROVE  BookedRooms(rooms') /\ Restricts
<1> USE DEF storeVars, mediaVars, departureVars
<1>1. CASE \E r \in Room : DeleteRoom(r)
  BY <1>1 DEF DeleteRoom, Drop, Restricts, BookedRooms, IsMap
<1>2. CASE CleanupExpired
  BY <1>2 DEF CleanupExpired, Keep, Restricts, BookedRooms, IsMap
<1>3. CASE Tick
  BY <1>3 DEF Tick, Restricts
<1>4. CASE \E r \in Room, s \in Identity, t \in Track, b \in BOOLEAN : SubscriptionOps(r, s, t, b)
  <2>1. PICK keys, b : SetSubscribed(keys, b)
    BY <1>4 DEF SubscriptionOps, SetSubscribedByTrackSid, SetSubscribedByPublisherSid,
                SetMediaTrackSubscribed
  <2> QED
    BY <2>1 DEF SetSubscribed, Restricts
<1> QED
  BY <1>1, <1>2, <1>3, <1>4

\* Every step keeps the books of all rooms and has one of the six shapes.
LEMMA StepEffect ==
    ASSUME TypeOK, BookedRooms(rooms), Next
    PROVE  BookedRooms(rooms') /\ RoomsStep
<1>1. ASSUME NEW r \in Room, NEW cfg \in RoomConfigs, CreateRoom(r, cfg)
      PROVE  BookedRooms(rooms') /\ RoomsStep
  BY <1>1, CreateBooked, CreateEffect DEF RoomsStep
<1>2. ASSUME \/ \E r \in Room : DeleteRoom(r)
             \/ CleanupExpired
             \/ Tick
             \/ \E r \in Room, s \in Identity, t \in Track, b \in BOOLEAN : SubscriptionOps(r, s, t, b)
      PROVE  BookedRooms(rooms') /\ RoomsStep
  BY <1>2, RestrictEffect DEF RoomsStep
<1>3. ASSUME NEW r \in Room, NEW i \in Identity, MemberOps(r, i)
      PROVE  BookedRooms(rooms') /\ RoomsStep
  <2>1. ASSUME NEW perm \in Permissions \cup {NoPermission}, NEW info \in Info,
               JoinParticipant(r, i, perm, info)
        PROVE  BookedRooms(rooms') /\ RoomsStep
    BY <2>1, JoinEffect DEF RoomsStep, Joins
  <2>2. ASSUME RemoveParticipant(r, i)
        PROVE  BookedRooms(rooms') /\ RoomsStep
    BY <2>2, RemoveEffect DEF RoomsStep
  <2>3. ASSUME NEW d \in Room, MoveParticipant(r, i, d)
        PROVE  BookedRooms(rooms') /\ RoomsStep
    BY <2>3, MoveEffect DEF RoomsStep
  <2>4. ASSUME SnapshotOps(r, i)
        PROVE  BookedRooms(rooms') /\ RoomsStep
    <3>1. Snapshot(r, i)
      BY <2>4, SnapshotOpsAreSnapshots
    <3>2. BookedRooms(rooms') /\ Rewrites(r, i)
      BY <3>1, SnapshotEffect
    <3> QED
      BY <3>1, <3>2 DEF RoomsStep, RewriteStep, Snapshot
  <2>5. ASSUME NEW perm \in Permissions \cup {NoPermission}, NEW info \in Info,
               UpdateParticipant(r, i, info, perm)
        PROVE  BookedRooms(rooms') /\ RoomsStep
    BY <2>5, UpdateEffect DEF RoomsStep, RewriteStep, UpdateParticipant
  <2> QED
    BY <1>3, <2>1, <2>2, <2>3, <2>4, <2>5 DEF MemberOps, SnapshotOps
<1> QED
  BY <1>1, <1>2, <1>3 DEF Next, RoomOps
(***************************************************************************)
(* The type invariant.                                                     *)
(***************************************************************************)

\* The subscription preferences and their revision stay well typed.
LEMMA MediaType ==
    ASSUME TypeOK, Next
    PROVE  /\ media_unsubscribed' \subseteq Room \X Identity \X Track \X Identity
           /\ media_subscription_revision' \in Nat
<1> DEFINE Tuples == Room \X Identity \X Track \X Identity
<1>1. media_unsubscribed \subseteq Tuples /\ media_subscription_revision \in Nat
  BY DEF TypeOK
<1> HIDE DEF Tuples
<1>2. ASSUME NEW gone, Unsubscribe(gone)
      PROVE  media_unsubscribed' \subseteq Tuples /\ media_subscription_revision' \in Nat
  BY <1>1, <1>2 DEF Unsubscribe
<1>3. ASSUME NEW keys \in SUBSET Tuples, NEW b \in BOOLEAN, SetSubscribed(keys, b)
      PROVE  media_unsubscribed' \subseteq Tuples /\ media_subscription_revision' \in Nat
  BY <1>1, <1>3 DEF SetSubscribed
<1>4. ASSUME UNCHANGED mediaVars
      PROVE  media_unsubscribed' \subseteq Tuples /\ media_subscription_revision' \in Nat
  BY <1>1, <1>4 DEF mediaVars
<1>5. ASSUME NEW r \in Room, RoomOps(r)
      PROVE  media_unsubscribed' \subseteq Tuples /\ media_subscription_revision' \in Nat
  BY <1>2, <1>4, <1>5 DEF RoomOps, CreateRoom, DeleteRoom, mediaVars
<1>6. ASSUME NEW r \in Room, NEW i \in Identity, MemberOps(r, i)
      PROVE  media_unsubscribed' \subseteq Tuples /\ media_subscription_revision' \in Nat
  <2>1. ASSUME NEW perm, NEW info, UpdateParticipant(r, i, info, perm)
        PROVE  media_unsubscribed' \subseteq Tuples /\ media_subscription_revision' \in Nat
    BY <1>1, <2>1 DEF UpdateParticipant
  <2> QED
    BY <1>2, <1>4, <1>6, <2>1
    DEF MemberOps, JoinParticipant, RemoveParticipant, MoveParticipant, SetParticipantKind,
        AddParticipantTrack, SetTrackField, RemoveParticipantTrack, AddParticipantDataTrack,
        RemoveParticipantDataTrack, mediaVars
<1>7. ASSUME NEW r \in Room, NEW s \in Identity, NEW t \in Track, NEW b \in BOOLEAN,
             SubscriptionOps(r, s, t, b)
      PROVE  media_unsubscribed' \subseteq Tuples /\ media_subscription_revision' \in Nat
  <2>1. \A i \in Identity : <<r, i, t, s>> \in Tuples
    BY DEF Tuples
  <2>2. ASSUME NEW I \in SUBSET Identity
        PROVE  {<<r, i, t, s>> : i \in I} \in SUBSET Tuples
    BY <2>1
  <2>3. PublishersOf(r, t) \subseteq Identity /\ Members(rooms[r].participants) \subseteq Identity
    BY DEF PublishersOf, Members
  <2>4. CASE SetSubscribedByTrackSid(r, s, t, b)
    BY <1>3, <2>2, <2>3, <2>4 DEF SetSubscribedByTrackSid
  <2>5. CASE \E sid \in 1..MaxSid : SetSubscribedByPublisherSid(r, sid, t, s, b)
    <3>1. PICK i \in Identity : SetSubscribed({<<r, i, t, s>>}, b)
      BY <2>3, <2>5 DEF SetSubscribedByPublisherSid
    <3> QED
      BY <1>3, <2>1, <3>1
  <2>6. CASE \E i \in Identity : SetMediaTrackSubscribed(r, i, t, s, b)
    <3>1. PICK i \in Identity : SetSubscribed({<<r, i, t, s>>}, b)
      BY <2>6 DEF SetMediaTrackSubscribed
    <3> QED
      BY <1>3, <2>1, <3>1
  <2> QED
    BY <1>7, <2>4, <2>5, <2>6 DEF SubscriptionOps
<1>8. CASE CleanupExpired \/ Tick
  <2>1. UNCHANGED mediaVars
    BY <1>8 DEF CleanupExpired, Tick, mediaVars
  <2> QED
    BY <1>4, <2>1 DEF Tuples
<1> QED
  BY <1>5, <1>6, <1>7, <1>8 DEF Next, Tuples

\* The counters and the clock stay natural numbers.
LEMMA CounterType ==
    ASSUME TypeOK, Next
    PROVE  next_room_id' \in Nat /\ next_participant_id' \in Nat /\ now' \in Nat
<1> USE DEF storeVars
<1>0. next_room_id \in Nat /\ next_participant_id \in Nat /\ now \in Nat
  BY DEF TypeOK
<1>1. ASSUME NEW r \in Room, RoomOps(r)
      PROVE  next_room_id' \in Nat /\ next_participant_id' \in Nat /\ now' \in Nat
  BY <1>0, <1>1 DEF RoomOps, CreateRoom, DeleteRoom
<1>2. ASSUME NEW r \in Room, NEW i \in Identity, MemberOps(r, i)
      PROVE  next_room_id' \in Nat /\ next_participant_id' \in Nat /\ now' \in Nat
  <2>1. \/ UNCHANGED <<next_room_id, next_participant_id, now>>
        \/ Joins(r, i)
    BY <1>2 DEF MemberOps, Joins, RemoveParticipant, MoveParticipant, SetParticipantKind,
        AddParticipantTrack, SetTrackField, RemoveParticipantTrack, AddParticipantDataTrack,
        RemoveParticipantDataTrack, UpdateParticipant
  <2>2. CASE Joins(r, i)
    BY <1>0, <2>2 DEF Joins, JoinParticipant
  <2> QED
    BY <1>0, <2>1, <2>2
<1>3. ASSUME NEW r \in Room, NEW s \in Identity, NEW t \in Track, NEW b \in BOOLEAN,
             SubscriptionOps(r, s, t, b)
      PROVE  next_room_id' \in Nat /\ next_participant_id' \in Nat /\ now' \in Nat
  BY <1>0, <1>3 DEF SubscriptionOps, SetSubscribedByTrackSid, SetSubscribedByPublisherSid,
              SetMediaTrackSubscribed, SetSubscribed
<1>4. CASE CleanupExpired \/ Tick
  BY <1>0, <1>4 DEF CleanupExpired, Tick
<1> QED
  BY <1>1, <1>2, <1>3, <1>4 DEF Next

\* The history of departures stays well typed.
LEMMA DepartureType ==
    ASSUME TypeOK, RoomsStep
    PROVE  /\ disconnected' \in [Room -> [Identity -> Nat \cup {NoVersion}]]
           /\ moved_in' \subseteq Room \X Identity
<1>1. /\ disconnected \in [Room -> [Identity -> Nat \cup {NoVersion}]]
      /\ moved_in \subseteq Room \X Identity
  BY DEF TypeOK
<1>2. ASSUME NEW r \in Room, ForgetDepartures(r)
      PROVE  /\ disconnected' \in [Room -> [Identity -> Nat \cup {NoVersion}]]
             /\ moved_in' \subseteq Room \X Identity
  BY <1>1, <1>2 DEF ForgetDepartures
<1>3. ASSUME UNCHANGED departureVars
      PROVE  /\ disconnected' \in [Room -> [Identity -> Nat \cup {NoVersion}]]
             /\ moved_in' \subseteq Room \X Identity
  BY <1>1, <1>3 DEF departureVars
<1>4. ASSUME NEW r \in Room, NEW i \in Identity, RemoveParticipant(r, i)
      PROVE  /\ disconnected' \in [Room -> [Identity -> Nat \cup {NoVersion}]]
             /\ moved_in' \subseteq Room \X Identity
  <2>1. Present(r, i)
    BY <1>4 DEF RemoveParticipant, Present
  <2>2. rooms[r].participants[i].version + 1 \in Nat
    BY <2>1, PresentType DEF Participant
  <2>3. PICK v \in Nat : disconnected' = [disconnected EXCEPT ![r][i] = Larger(@, v)]
    BY <1>4, <2>2 DEF RemoveParticipant
  <2>4. Larger(disconnected[r][i], v) \in Nat \cup {NoVersion}
    BY <1>1 DEF Larger
  <2>5. disconnected' \in [Room -> [Identity -> Nat \cup {NoVersion}]]
    BY <1>1, <2>3, <2>4
  <2> QED
    BY <1>1, <1>4, <2>5 DEF RemoveParticipant
<1>5. ASSUME NEW r \in Room, NEW i \in Identity, NEW d \in Room, MoveParticipant(r, i, d)
      PROVE  /\ disconnected' \in [Room -> [Identity -> Nat \cup {NoVersion}]]
             /\ moved_in' \subseteq Room \X Identity
  BY <1>1, <1>5 DEF MoveParticipant
<1> QED
  BY <1>2, <1>3, <1>4, <1>5
  DEF RoomsStep, Creates, Restricts, Joins, JoinParticipant, RewriteStep, departureVars

\* The history of occupation stays well typed.
LEMMA OccupiedType ==
    ASSUME TypeOK, now' \in Nat, RecordOccupied
    PROVE  occupied_at' \in [Room -> Nat]
BY DEF TypeOK, RecordOccupied
(***************************************************************************)
(* Session identifiers.                                                    *)
(***************************************************************************)

\* SIDs are unique and were all minted already.
SidsKept ==
    /\ SidsAreUnique
    /\ \A r \in DOMAIN rooms : \A i \in Members(rooms[r].participants) :
         rooms[r].participants[i].sid <= next_participant_id

\* Every entry after the step has the SID of an entry before it, of the same identity,
\* and two entries never stem from the same one.
LEMMA SidsStep ==
    ASSUME TypeOK, BookedRooms(rooms), SidsKept, RoomsStep, next_participant_id' \in Nat,
           BookedRooms(rooms')
    PROVE  SidsKept'
<1> DEFINE M(x) == Members(rooms[x].participants)
           M1(x) == Members(rooms'[x].participants)
           sid(x, j) == rooms[x].participants[j].sid
           sid1(x, j) == rooms'[x].participants[j].sid
           Goal == /\ \A x, y \in DOMAIN rooms' : \A j \in M1(x), k \in M1(y) :
                        sid1(x, j) = sid1(y, k) => x = y /\ j = k
                   /\ \A x \in DOMAIN rooms' : \A j \in M1(x) : sid1(x, j) <= next_participant_id'
<1>1. /\ \A x, y \in DOMAIN rooms : \A j \in M(x), k \in M(y) :
           sid(x, j) = sid(y, k) => x = y /\ j = k
      /\ \A x \in DOMAIN rooms : \A j \in M(x) : sid(x, j) <= next_participant_id
      /\ \A x \in DOMAIN rooms : \A j \in M(x) : sid(x, j) \in Nat
      /\ \A x \in DOMAIN rooms : rooms[x].participants \in [Identity -> Participant \cup {NoParticipant}]
      /\ next_participant_id \in Nat
  <2>1. \A x \in DOMAIN rooms : \A j \in M(x) : x \in Room /\ j \in Identity /\ Present(x, j)
    BY DEF Members, TypeOK, IsMap, Present
  <2>2. \A x \in DOMAIN rooms : \A j \in M(x) : sid(x, j) \in Nat
    BY <2>1, PresentType DEF Participant
  <2>3. \A x \in DOMAIN rooms : rooms[x].participants \in [Identity -> Participant \cup {NoParticipant}]
    BY DEF TypeOK, IsMap, RoomRecord
  <2> QED
    BY <2>2, <2>3 DEF SidsKept, SidsAreUnique, TypeOK
<1>2. SUFFICES Goal
  BY DEF SidsKept, SidsAreUnique
<1>3. ASSUME NEW r \in Room, Creates(r) PROVE Goal
  <2>1. /\ \A x \in DOMAIN rooms' : M1(x) # {} => x \in DOMAIN rooms /\ rooms'[x] = rooms[x]
        /\ next_participant_id' = next_participant_id
    BY <1>3 DEF Creates
  <2>2. \A x \in DOMAIN rooms' : \A j \in M1(x) :
            x \in DOMAIN rooms /\ j \in M(x) /\ sid1(x, j) = sid(x, j)
    BY <2>1
  <2> QED
    BY <1>1, <2>1, <2>2
<1>4. ASSUME Restricts PROVE Goal
  BY <1>1, <1>4 DEF Restricts
<1>5. ASSUME NEW r \in Room, NEW i \in Identity, Joins(r, i) PROVE Goal
  <2>1. PICK perm \in Permissions \cup {NoPermission}, info \in Info :
              JoinParticipant(r, i, perm, info)
    BY <1>5 DEF Joins
  <2> DEFINE p == Joiner(r, i, perm, info)
  <2>2. JoinsAs(r, i, p)
    BY <2>1, JoinEffect
  <2>3. p.sid = next_participant_id + 1 /\ next_participant_id' = next_participant_id + 1
    BY <2>1 DEF Joiner, JoinParticipant
  <2>4. /\ JoinedRoom(r).participants \in [Identity -> Participant \cup {NoParticipant}]
        /\ r \in DOMAIN rooms => JoinedRoom(r) = rooms[r]
        /\ r \notin DOMAIN rooms => \A j \in Identity : JoinedRoom(r).participants[j] = NoParticipant
    BY JoinedRoomType DEF JoinedRoom, RoomRecord, NewRoom
  <2> HIDE DEF p
  <2>5. \A x \in DOMAIN rooms' : \A j \in M1(x) :
            \/ x = r /\ j = i /\ sid1(x, j) = next_participant_id + 1
            \/ x \in DOMAIN rooms /\ j \in M(x) /\ sid1(x, j) = sid(x, j)
    BY <2>2, <2>3, <2>4 DEF Members, JoinsAs
  <2> QED
    BY <1>1, <2>3, <2>5
<1>6. ASSUME NEW r \in Room, NEW i \in Identity, RewriteStep(r, i) PROVE Goal
  <2>1. PICK q \in Participant :
              /\ rooms'[r].participants = [rooms[r].participants EXCEPT ![i] = q]
              /\ q.sid = sid(r, i)
    BY <1>6 DEF RewriteStep, Rewrites
  <2>2. /\ DOMAIN rooms' = DOMAIN rooms /\ r \in DOMAIN rooms /\ i \in M(r)
        /\ \A x \in DOMAIN rooms : x # r => rooms'[x] = rooms[x]
        /\ next_participant_id' = next_participant_id
    BY <1>6 DEF RewriteStep, Rewrites, Present
  <2>3. \A x \in DOMAIN rooms' : \A j \in M1(x) : j \in M(x) /\ sid1(x, j) = sid(x, j)
    BY <1>1, <2>1, <2>2 DEF Members
  <2> QED
    BY <1>1, <2>2, <2>3
<1>7. ASSUME NEW r \in Room, NEW i \in Identity, RemoveParticipant(r, i) PROVE Goal
  <2>1. /\ DOMAIN rooms' = DOMAIN rooms /\ r \in DOMAIN rooms
        /\ \A x \in DOMAIN rooms : x # r => rooms'[x] = rooms[x]
        /\ rooms'[r].participants = [rooms[r].participants EXCEPT ![i] = NoParticipant]
        /\ next_participant_id' = next_participant_id
    BY <1>7, RemoveEffect DEF RemoveParticipant
  <2>2. \A x \in DOMAIN rooms' : \A j \in M1(x) : j \in M(x) /\ sid1(x, j) = sid(x, j)
    BY <1>1, <2>1 DEF Members
  <2> QED
    BY <1>1, <2>1, <2>2
<1>8. ASSUME NEW r \in Room, NEW i \in Identity, NEW d \in Room, MoveParticipant(r, i, d) PROVE Goal
  <2> DEFINE p == Moved(r, i)
  <2>1. /\ MovesAs(r, i, d, p)
        /\ r \in DOMAIN rooms /\ d \in DOMAIN rooms /\ i \in M(r)
        /\ next_participant_id' = next_participant_id
    BY <1>8, MoveEffect DEF MoveParticipant
  <2> HIDE DEF p
  <2>2. ASSUME NEW x \in DOMAIN rooms', NEW j \in M1(x)
        PROVE  /\ x \in DOMAIN rooms
               /\ \/ x = d /\ j = i /\ sid1(x, j) = sid(r, i)
                  \/ (x # r \/ j # i) /\ (x # d \/ j # i) /\ j \in M(x) /\ sid1(x, j) = sid(x, j)
    <3>1. x \in DOMAIN rooms /\ j \in Identity /\ rooms'[x].participants[j] # NoParticipant
      BY <2>1 DEF MovesAs, Members
    <3>2. rooms'[x].participants[j] =
             IF x = d /\ j = i THEN p
             ELSE IF x = r /\ j = i THEN NoParticipant
             ELSE rooms[x].participants[j]
      <4>1. /\ rooms'[x].participants =
                 IF x = d THEN [rooms[x].participants EXCEPT ![i] = p]
                 ELSE IF x = r THEN [rooms[x].participants EXCEPT ![i] = NoParticipant]
                 ELSE rooms[x].participants
            /\ DOMAIN rooms[x].participants = Identity
        BY <1>1, <2>1, <3>1 DEF MovesAs
      <4> QED
        BY <3>1, <4>1
    <3> QED
      BY <2>1, <3>1, <3>2 DEF MovesAs, Members
  <2> QED
    BY <1>1, <2>1, <2>2
<1> QED
  BY <1>3, <1>4, <1>5, <1>6, <1>7, <1>8 DEF RoomsStep
(***************************************************************************)
(* Versions across departures.                                             *)
(***************************************************************************)

\* For an identity that was never moved in, the version kept for it and the version of
\* its live entry are at least those of its disconnected snapshots.
VersionsKept ==
    \A r \in DOMAIN rooms, i \in Identity :
        <<r, i>> \notin moved_in =>
            /\ rooms[r].participant_versions[i] >= disconnected[r][i]
            /\ i \in Members(rooms[r].participants)
               => rooms[r].participants[i].version >= disconnected[r][i]

\* What the type invariant says about versions.
LEMMA VersionTypes ==
    ASSUME TypeOK
    PROVE  /\ \A x \in DOMAIN rooms, j \in Identity :
                /\ x \in Room
                /\ rooms[x].participants \in [Identity -> Participant \cup {NoParticipant}]
                /\ rooms[x].participant_versions \in [Identity -> Nat \cup {NoVersion}]
                /\ j \in Members(rooms[x].participants) => rooms[x].participants[j].version \in Nat
           /\ disconnected \in [Room -> [Identity -> Nat \cup {NoVersion}]]
           /\ \A x \in Room, j \in Identity : disconnected[x][j] \in Nat \cup {NoVersion}
<1>1. ASSUME NEW x \in DOMAIN rooms, NEW j \in Identity
      PROVE  /\ x \in Room
             /\ rooms[x].participants \in [Identity -> Participant \cup {NoParticipant}]
             /\ rooms[x].participant_versions \in [Identity -> Nat \cup {NoVersion}]
             /\ j \in Members(rooms[x].participants) => rooms[x].participants[j].version \in Nat
  <2>1. x \in Room /\ rooms[x] \in RoomRecord
    BY DEF TypeOK, IsMap
  <2>2. ASSUME j \in Members(rooms[x].participants) PROVE rooms[x].participants[j].version \in Nat
    BY <2>1, <2>2, PresentType DEF Present, Participant
  <2> QED
    BY <2>1, <2>2 DEF RoomRecord
<1> QED
  BY <1>1 DEF TypeOK

\* Every step keeps the versions retained for departed identities ahead of their
\* disconnected snapshots.
LEMMA VersionsStep ==
    ASSUME TypeOK, BookedRooms(rooms), BookedRooms(rooms'), VersionsKept, RoomsStep
    PROVE  VersionsKept'
<1> DEFINE pv(x, j) == rooms[x].participant_versions[j]
           M(x) == Members(rooms[x].participants)
           ver(x, j) == rooms[x].participants[j].version
           pv1(x, j) == rooms'[x].participant_versions[j]
           M1(x) == Members(rooms'[x].participants)
           ver1(x, j) == rooms'[x].participants[j].version
           Goal == \A x \in DOMAIN rooms', j \in Identity :
                      <<x, j>> \notin moved_in' =>
                          /\ pv1(x, j) >= disconnected'[x][j]
                          /\ j \in M1(x) => ver1(x, j) >= disconnected'[x][j]
<1>1. \A x \in DOMAIN rooms, j \in Identity :
        <<x, j>> \notin moved_in =>
            pv(x, j) >= disconnected[x][j] /\ (j \in M(x) => ver(x, j) >= disconnected[x][j])
  BY DEF VersionsKept
<1>2. SUFFICES Goal
  BY DEF VersionsKept
<1>3. /\ \A x \in DOMAIN rooms, j \in Identity :
           /\ x \in Room
           /\ rooms[x].participants \in [Identity -> Participant \cup {NoParticipant}]
           /\ rooms[x].participant_versions \in [Identity -> Nat \cup {NoVersion}]
           /\ j \in M(x) => ver(x, j) \in Nat
      /\ disconnected \in [Room -> [Identity -> Nat \cup {NoVersion}]]
      /\ \A x \in Room, j \in Identity : disconnected[x][j] \in Nat \cup {NoVersion}
  BY VersionTypes
<1>4. ASSUME NEW r \in Room, ForgetDepartures(r)
      PROVE  /\ \A j \in Identity : disconnected'[r][j] = NoVersion
             /\ \A x \in Room, j \in Identity : x # r =>
                  disconnected'[x][j] = disconnected[x][j] /\ (<<x, j>> \in moved_in' <=> <<x, j>> \in moved_in)
  BY <1>3, <1>4 DEF ForgetDepartures
<1>5. ASSUME NEW r \in Room, Creates(r) PROVE Goal
  <2>1. ForgetDepartures(r)
    BY <1>5 DEF Creates
  <2>2. \A j \in Identity : pv1(r, j) \in Nat \cup {NoVersion} /\ j \notin M1(r)
    <3>1. rooms'[r] \in RoomRecord
      BY <1>5 DEF Creates, BookedRooms, IsMap
    <3> QED
      BY <1>5, <3>1 DEF Creates, RoomRecord
  <2>3. ASSUME NEW x \in DOMAIN rooms', NEW j \in Identity, <<x, j>> \notin moved_in'
        PROVE  pv1(x, j) >= disconnected'[x][j] /\ (j \in M1(x) => ver1(x, j) >= disconnected'[x][j])
    <3>1. CASE x = r
      BY <1>4, <2>1, <2>2, <3>1 DEF NoVersion
    <3>2. CASE x # r
      <4>1. x \in DOMAIN rooms /\ rooms'[x] = rooms[x]
        BY <1>5, <3>2 DEF Creates
      <4> QED
        BY <1>1, <1>3, <1>4, <2>1, <2>3, <3>2, <4>1
    <3> QED
      BY <3>1, <3>2
  <2> QED
    BY <2>3
<1>6. ASSUME Restricts PROVE Goal
  BY <1>1, <1>6 DEF Restricts, departureVars
<1>7. ASSUME NEW r \in Room, NEW i \in Identity, Joins(r, i) PROVE Goal
  <2> DEFINE rec == JoinedRoom(r)
  <2>1. PICK perm \in Permissions \cup {NoPermission}, info \in Info :
              JoinParticipant(r, i, perm, info)
    BY <1>7 DEF Joins
  <2> DEFINE p == Joiner(r, i, perm, info)
             v == JoinVersion(rec, i)
  <2>2. JoinsAs(r, i, p) /\ p.version = v
    BY <2>1, JoinEffect DEF Joiner
  <2>3. /\ IF r \in DOMAIN rooms THEN UNCHANGED departureVars ELSE ForgetDepartures(r)
        /\ r \in DOMAIN rooms => rec = rooms[r]
        /\ r \notin DOMAIN rooms => rec.participants = [j \in Identity |-> NoParticipant]
    BY <2>1 DEF JoinParticipant, JoinedRoom, NewRoom
  <2>4. /\ rec.participants \in [Identity -> Participant \cup {NoParticipant}]
        /\ rec.participant_versions \in [Identity -> Nat \cup {NoVersion}]
        /\ v = rec.participant_versions[i] + 1
    BY JoinedRoomType DEF RoomRecord, JoinVersion
  <2> HIDE DEF rec, p, v
  <2>5. /\ rooms'[r].participants = [rec.participants EXCEPT ![i] = p]
        /\ rooms'[r].participant_versions = [rec.participant_versions EXCEPT ![i] = v]
        /\ DOMAIN rooms' = DOMAIN rooms \cup {r}
        /\ \A x \in DOMAIN rooms : x # r => rooms'[x] = rooms[x]
    BY <2>2 DEF JoinsAs, rec, v
  <2>6. ASSUME NEW x \in DOMAIN rooms', NEW j \in Identity, <<x, j>> \notin moved_in'
        PROVE  pv1(x, j) >= disconnected'[x][j] /\ (j \in M1(x) => ver1(x, j) >= disconnected'[x][j])
    <3>1. CASE x # r
      <4>1. x \in DOMAIN rooms /\ rooms'[x] = rooms[x] /\ x \in Room
        BY <1>3, <2>5, <3>1
      <4>2. disconnected'[x][j] = disconnected[x][j] /\ <<x, j>> \notin moved_in
        BY <1>4, <2>3, <2>6, <3>1, <4>1 DEF departureVars
      <4> QED
        BY <1>1, <4>1, <4>2
    <3>2. CASE x = r /\ r \in DOMAIN rooms
      <4>1. disconnected' = disconnected /\ moved_in' = moved_in /\ rec = rooms[r]
        BY <2>3, <3>2 DEF departureVars
      <4>2. pv(r, j) >= disconnected[r][j] /\ (j \in M(r) => ver(r, j) >= disconnected[r][j])
        BY <1>1, <2>6, <3>2, <4>1
      <4>3. disconnected[r][j] \in Nat \cup {NoVersion} /\ pv(r, j) \in Nat \cup {NoVersion}
        BY <1>3, <3>2
      <4>4. CASE j = i
        <5>1. v >= disconnected[r][j] /\ pv1(r, j) = v /\ rooms'[r].participants[j] = p
          BY <2>4, <2>5, <4>1, <4>2, <4>3, <4>4 DEF NoVersion
        <5> QED
          BY <2>2, <3>2, <4>1, <5>1
      <4>5. CASE j # i
        <5>1. pv1(r, j) = pv(r, j) /\ rooms'[r].participants[j] = rooms[r].participants[j]
          BY <2>4, <2>5, <4>1, <4>5
        <5> QED
          BY <3>2, <4>1, <4>2, <5>1 DEF Members
      <4> QED
        BY <4>4, <4>5
    <3>3. CASE x = r /\ r \notin DOMAIN rooms
      <4>1. disconnected'[r][j] = NoVersion
        BY <1>4, <2>3, <3>3
      <4>2. v \in Nat
        BY <2>4 DEF NoVersion
      <4>3. pv1(r, j) \in Nat \cup {NoVersion} /\ (j \in M1(r) => ver1(r, j) \in Nat)
        <5>1. r \in Room /\ rooms'[r] \in RoomRecord
          BY <2>5 DEF BookedRooms, IsMap
        <5>2. rooms'[r].participants[j] = IF j = i THEN p ELSE NoParticipant
          BY <2>3, <2>4, <2>5, <3>3
        <5> QED
          BY <2>2, <4>2, <5>1, <5>2 DEF RoomRecord, Members
      <4> QED
        BY <3>3, <4>1, <4>3 DEF NoVersion
    <3> QED
      BY <3>1, <3>2, <3>3
  <2> QED
    BY <2>6
<1>8. ASSUME NEW r \in Room, NEW i \in Identity, RewriteStep(r, i) PROVE Goal
  <2>1. PICK q \in Participant :
              /\ rooms'[r].participants = [rooms[r].participants EXCEPT ![i] = q]
              /\ q.version >= ver(r, i)
    BY <1>8 DEF RewriteStep, Rewrites
  <2>2. /\ DOMAIN rooms' = DOMAIN rooms /\ r \in DOMAIN rooms /\ i \in M(r)
        /\ \A x \in DOMAIN rooms : x # r => rooms'[x] = rooms[x]
        /\ rooms'[r].participant_versions = rooms[r].participant_versions
        /\ disconnected' = disconnected /\ moved_in' = moved_in
    BY <1>8 DEF RewriteStep, Rewrites, Present, departureVars
  <2>3. q.version \in Nat
    BY DEF Participant
  <2>4. \A x \in DOMAIN rooms, j \in Identity :
            /\ pv1(x, j) = pv(x, j)
            /\ j \in M1(x) => j \in M(x) /\ ver1(x, j) >= ver(x, j) /\ ver1(x, j) \in Nat
    <3>1. \A x \in DOMAIN rooms, j \in Identity :
              rooms'[x].participants[j] = IF x = r /\ j = i THEN q ELSE rooms[x].participants[j]
      BY <1>3, <2>1, <2>2
    <3> QED
      BY <1>3, <2>1, <2>2, <2>3, <3>1 DEF Members
  <2> QED
    BY <1>1, <1>3, <2>2, <2>4 DEF NoVersion
<1>9. ASSUME NEW r \in Room, NEW i \in Identity, RemoveParticipant(r, i) PROVE Goal
  <2> DEFINE v == ver(r, i) + 1
  <2>1. /\ DOMAIN rooms' = DOMAIN rooms
        /\ \A x \in DOMAIN rooms : x # r => rooms'[x] = rooms[x]
        /\ rooms'[r].participants = [rooms[r].participants EXCEPT ![i] = NoParticipant]
        /\ rooms'[r].participant_versions = [rooms[r].participant_versions EXCEPT ![i] = v]
    BY <1>9, RemoveEffect
  <2>2. /\ r \in DOMAIN rooms /\ i \in M(r) /\ v \in Nat
        /\ disconnected' = [disconnected EXCEPT ![r][i] = Larger(@, v)]
        /\ moved_in' = moved_in
    BY <1>3, <1>9 DEF RemoveParticipant
  <2>3. \A x \in DOMAIN rooms, j \in Identity :
            disconnected'[x][j] = IF x = r /\ j = i THEN Larger(disconnected[r][i], v) ELSE disconnected[x][j]
    BY <1>3, <2>2
  <2>4. \A x \in DOMAIN rooms, j \in Identity :
            /\ pv1(x, j) = IF x = r /\ j = i THEN v ELSE pv(x, j)
            /\ j \in M1(x) => j \in M(x) /\ (x # r \/ j # i) /\ ver1(x, j) = ver(x, j)
    BY <1>3, <2>1, <2>2 DEF Members
  <2>5. <<r, i>> \notin moved_in => v >= Larger(disconnected[r][i], v)
    <3>1. disconnected[r][i] \in Nat \cup {NoVersion} /\ ver(r, i) \in Nat
      BY <1>3, <2>2
    <3>2. <<r, i>> \notin moved_in => ver(r, i) >= disconnected[r][i]
      BY <1>1, <2>2
    <3> QED
      BY <3>1, <3>2 DEF Larger, NoVersion
  <2> HIDE DEF v
  <2> QED
    BY <1>1, <2>1, <2>2, <2>3, <2>4, <2>5
<1>10. ASSUME NEW r \in Room, NEW i \in Identity, NEW d \in Room, MoveParticipant(r, i, d) PROVE Goal
  <2> DEFINE p == Moved(r, i)
  <2>1. /\ MovesAs(r, i, d, p)
        /\ moved_in' = moved_in \cup {<<d, i>>} /\ disconnected' = disconnected
    BY <1>10, MoveEffect DEF MoveParticipant
  <2> HIDE DEF p
  <2>2. ASSUME NEW x \in DOMAIN rooms, NEW j \in Identity, <<x, j>> \notin moved_in'
        PROVE  pv1(x, j) = pv(x, j) /\ (j \in M1(x) => j \in M(x) /\ ver1(x, j) = ver(x, j))
    <3>1. <<x, j>> \notin moved_in /\ ~(x = d /\ j = i)
      BY <2>1, <2>2
    <3>2. /\ rooms'[x].participants =
               IF x = d THEN [rooms[x].participants EXCEPT ![i] = p]
               ELSE IF x = r THEN [rooms[x].participants EXCEPT ![i] = NoParticipant]
               ELSE rooms[x].participants
          /\ DOMAIN rooms[x].participants = Identity
          /\ pv1(x, j) = pv(x, j)
      BY <1>3, <2>1 DEF MovesAs
    <3>3. rooms'[x].participants[j] \in {rooms[x].participants[j], NoParticipant}
      BY <3>1, <3>2
    <3> QED
      BY <3>2, <3>3 DEF Members
  <2>3. DOMAIN rooms' = DOMAIN rooms
    BY <2>1 DEF MovesAs
  <2> QED
    BY <1>1, <2>1, <2>2, <2>3
<1> QED
  BY <1>5, <1>6, <1>7, <1>8, <1>9, <1>10 DEF RoomsStep
(***************************************************************************)
(* The clock of the cleanup worker.                                        *)
(***************************************************************************)

\* No room was occupied after the instant its record calls the start of its emptiness.
ClockKept ==
    \A r \in Room :
        /\ occupied_at[r] <= now
        /\ r \in DOMAIN rooms /\ rooms[r].empty_since # NotEmpty
           => occupied_at[r] <= rooms[r].empty_since

\* A step leaves the clock of a room alone, stops it, or starts it now.
LEMMA EmptySinceStep ==
    ASSUME TypeOK, BookedRooms(rooms), RoomsStep, NEW x \in DOMAIN rooms'
    PROVE  \/ x \in DOMAIN rooms /\ rooms'[x].empty_since = rooms[x].empty_since
           \/ rooms'[x].empty_since \in {now, NotEmpty}
<1> DEFINE Goal == \/ x \in DOMAIN rooms /\ rooms'[x].empty_since = rooms[x].empty_since
                   \/ rooms'[x].empty_since \in {now, NotEmpty}
<1>1. ASSUME NEW r \in Room, Creates(r) PROVE Goal
  BY <1>1 DEF Creates
<1>2. ASSUME Restricts PROVE Goal
  BY <1>2 DEF Restricts
<1>3. ASSUME NEW r \in Room, NEW i \in Identity, Joins(r, i) PROVE Goal
  <2>1. PICK p : JoinsAs(r, i, p)
    BY <1>3, JoinEffect DEF Joins
  <2> QED
    BY <2>1 DEF JoinsAs
<1>4. ASSUME NEW r \in Room, NEW i \in Identity, RewriteStep(r, i) PROVE Goal
  BY <1>4 DEF RewriteStep, Rewrites
<1>5. ASSUME NEW r \in Room, NEW i \in Identity, RemoveParticipant(r, i) PROVE Goal
  <2>1. /\ DOMAIN rooms' = DOMAIN rooms
        /\ \A y \in DOMAIN rooms : y # r => rooms'[y] = rooms[y]
        /\ rooms'[r].empty_since \in {now, NotEmpty}
    BY <1>5, RemoveEffect
  <2> QED
    BY <2>1
<1>6. ASSUME NEW r \in Room, NEW i \in Identity, NEW d \in Room, MoveParticipant(r, i, d) PROVE Goal
  <2>1. MovesAs(r, i, d, Moved(r, i))
    BY <1>6, MoveEffect
  <2> QED
    BY <2>1 DEF MovesAs
<1> QED
  BY <1>1, <1>2, <1>3, <1>4, <1>5, <1>6 DEF RoomsStep

\* Time moves by at most one unit in a step.
LEMMA NowStep ==
    ASSUME RoomsStep
    PROVE  now' \in {now, now + 1}
<1>1. ASSUME NEW r \in Room, NEW i \in Identity, Joins(r, i) PROVE now' = now
  BY <1>1 DEF Joins, JoinParticipant
<1>2. ASSUME NEW r \in Room, NEW i \in Identity, RemoveParticipant(r, i) PROVE now' = now
  BY <1>2 DEF RemoveParticipant
<1>3. ASSUME NEW r \in Room, NEW i \in Identity, NEW d \in Room, MoveParticipant(r, i, d)
      PROVE  now' = now
  BY <1>3 DEF MoveParticipant
<1> QED
  BY <1>1, <1>2, <1>3 DEF RoomsStep, Creates, Restricts, RewriteStep

\* Every step keeps the cleanup clock of a room behind its last occupation.
LEMMA ClockStep ==
    ASSUME TypeOK, BookedRooms(rooms), BookedRooms(rooms'), ClockKept, RoomsStep, RecordOccupied
    PROVE  ClockKept'
<1>1. now \in Nat /\ now' \in {now, now + 1} /\ occupied_at \in [Room -> Nat]
  BY NowStep DEF TypeOK
<1>2. \A r \in Room : occupied_at'[r] = IF Occupied(r)' THEN now' ELSE occupied_at[r]
  BY DEF RecordOccupied
<1>3. \A r \in Room : occupied_at[r] <= now /\ occupied_at[r] \in Nat
  BY <1>1 DEF ClockKept
<1>4. \A r \in Room : occupied_at'[r] <= now'
  BY <1>1, <1>2, <1>3
<1>5. ASSUME NEW r \in Room, r \in DOMAIN rooms', rooms'[r].empty_since # NotEmpty
      PROVE  occupied_at'[r] <= rooms'[r].empty_since
  <2>1. ~Occupied(r)'
    BY <1>5 DEF BookedRooms, Booked, Occupied
  <2>2. occupied_at'[r] = occupied_at[r]
    BY <1>2, <2>1
  <2>3. CASE r \in DOMAIN rooms /\ rooms'[r].empty_since = rooms[r].empty_since
    BY <1>5, <2>2, <2>3 DEF ClockKept
  <2>4. CASE rooms'[r].empty_since \in {now, NotEmpty}
    BY <1>3, <1>5, <2>2, <2>4
  <2> QED
    BY <1>5, <2>3, <2>4, EmptySinceStep
<1> QED
  BY <1>4, <1>5 DEF ClockKept

(***************************************************************************)
(* The inductive invariant and the theorems.                               *)
(***************************************************************************)

\* The inductive invariant of the store.
StoreInv ==
    /\ TypeOK
    /\ BookedRooms(rooms)
    /\ SidsKept
    /\ VersionsKept
    /\ ClockKept

\* The inductive invariant holds initially.
LEMMA InitInv == Init => StoreInv
<1> SUFFICES ASSUME Init PROVE StoreInv
  OBVIOUS
<1>1. DOMAIN rooms = {} /\ rooms = [x \in {} |-> 0]
  BY DEF Init, EmptyFcn
<1>2. IsMap(rooms, Room, RoomRecord)
  BY <1>1 DEF IsMap
<1>3. TypeOK
  <2>1. disconnected \in [Room -> [Identity -> Nat \cup {NoVersion}]]
    BY DEF Init
  <2> QED
    BY <1>2, <2>1 DEF TypeOK, Init
<1>4. BookedRooms(rooms) /\ SidsKept /\ VersionsKept
  BY <1>1, <1>2 DEF BookedRooms, SidsKept, SidsAreUnique, VersionsKept
<1>5. ClockKept
  BY <1>1 DEF ClockKept, Init
<1> QED
  BY <1>3, <1>4, <1>5 DEF StoreInv

\* Every step preserves the inductive invariant.
LEMMA NextInv == StoreInv /\ [Next]_vars => StoreInv'
<1> SUFFICES ASSUME StoreInv, [Next]_vars PROVE StoreInv'
  OBVIOUS
<1>1. CASE Next
  <2>1. TypeOK /\ BookedRooms(rooms) /\ SidsKept /\ VersionsKept /\ ClockKept
    BY DEF StoreInv
  <2>2. BookedRooms(rooms') /\ RoomsStep
    BY <1>1, <2>1, StepEffect
  <2>3. RecordOccupied
    BY <1>1 DEF Next
  <2>4. next_room_id' \in Nat /\ next_participant_id' \in Nat /\ now' \in Nat
    BY <1>1, <2>1, CounterType
  <2>5. TypeOK'
    <3>1. /\ media_unsubscribed' \subseteq Room \X Identity \X Track \X Identity
          /\ media_subscription_revision' \in Nat
      BY <1>1, <2>1, MediaType
    <3>2. /\ disconnected' \in [Room -> [Identity -> Nat \cup {NoVersion}]]
          /\ moved_in' \subseteq Room \X Identity
      BY <2>1, <2>2, DepartureType
    <3>3. occupied_at' \in [Room -> Nat]
      BY <2>1, <2>3, <2>4, OccupiedType
    <3> QED
      BY <2>2, <2>4, <3>1, <3>2, <3>3 DEF TypeOK, BookedRooms
  <2>6. SidsKept'
    BY <2>1, <2>2, <2>4, SidsStep
  <2>7. VersionsKept'
    BY <2>1, <2>2, VersionsStep
  <2>8. ClockKept'
    BY <2>1, <2>2, <2>3, ClockStep
  <2> QED
    BY <2>2, <2>5, <2>6, <2>7, <2>8 DEF StoreInv, BookedRooms
<1>2. CASE UNCHANGED vars
  <2>1. /\ UNCHANGED <<rooms, next_room_id, next_participant_id, now>>
        /\ UNCHANGED <<media_unsubscribed, media_subscription_revision>>
        /\ UNCHANGED <<disconnected, moved_in, occupied_at>>
    BY <1>2 DEF vars, storeVars, mediaVars, departureVars
  <2>2. TypeOK'
    BY <2>1 DEF StoreInv, TypeOK
  <2>3. BookedRooms(rooms)'
    BY <2>1 DEF StoreInv, BookedRooms
  <2>4. SidsKept'
    BY <2>1 DEF StoreInv, SidsKept, SidsAreUnique
  <2>5. VersionsKept'
    BY <2>1 DEF StoreInv, VersionsKept
  <2>6. ClockKept'
    BY <2>1 DEF StoreInv, ClockKept
  <2> QED
    BY <2>2, <2>3, <2>4, <2>5, <2>6 DEF StoreInv
<1> QED
  BY <1>1, <1>2

\* The inductive invariant of the room store holds in every behaviour.
THEOREM StoreInvariant == Spec => []StoreInv
BY InitInv, NextInv, PTL DEF Spec
\* The store stays well typed under every sequence of operations.
THEOREM TypeCorrect == Spec => []TypeOK
<1>1. StoreInv => TypeOK
  BY DEF StoreInv
<1> QED
  BY <1>1, StoreInvariant, PTL

\* The participant count shown to clients is that of the visible participants.
THEOREM CountCorrect == Spec => []NumParticipantsIsVisible
<1>1. StoreInv => NumParticipantsIsVisible
  BY DEF StoreInv, BookedRooms, Booked, NumParticipantsIsVisible
<1> QED
  BY <1>1, StoreInvariant, PTL

\* The clock of the cleanup worker runs for a room exactly while it is empty.
THEOREM EmptyClockCorrect == Spec => []EmptySinceIffEmpty
<1>1. StoreInv => EmptySinceIffEmpty
  BY DEF StoreInv, BookedRooms, Booked, EmptySinceIffEmpty
<1> QED
  BY <1>1, StoreInvariant, PTL

\* No two entries of the store ever carry the same participant SID.
THEOREM SidsCorrect == Spec => []SidsAreUnique
<1>1. StoreInv => SidsAreUnique
  BY DEF StoreInv, SidsKept
<1> QED
  BY <1>1, StoreInvariant, PTL

\* A room that cleanup removes has been unoccupied for its timeout.
LEMMA CleanupStep ==
    ASSUME StoreInv, CleanupExpired, NEW r \in DOMAIN rooms \ DOMAIN rooms'
    PROVE  ~Occupied(r) /\ now - occupied_at[r] >= RoomTimeout(rooms[r])
<1>1. rooms[r].empty_since # NotEmpty /\ now - rooms[r].empty_since >= RoomTimeout(rooms[r])
  BY DEF CleanupExpired, Keep, Expired
<1>2. r \in Room /\ rooms[r] \in RoomRecord
  BY DEF StoreInv, TypeOK, IsMap
<1>3. occupied_at[r] <= rooms[r].empty_since /\ occupied_at[r] \in Nat /\ now \in Nat
  BY <1>1, <1>2 DEF StoreInv, ClockKept, TypeOK
<1>4. rooms[r].empty_since \in Nat /\ RoomTimeout(rooms[r]) \in Nat
  BY <1>1, <1>2, StoreConstants DEF RoomRecord, RoomTimeout
<1>5. ~Occupied(r)
  BY <1>1 DEF StoreInv, BookedRooms, Booked, Occupied
<1> QED
  BY <1>1, <1>3, <1>4, <1>5

\* The cleanup worker removes only rooms that stayed empty for their timeout.
THEOREM CleanupCorrect == Spec => CleanupWaitsForTimeout
<1> DEFINE A == CleanupExpired =>
                  \A r \in DOMAIN rooms \ DOMAIN rooms' :
                     /\ ~Occupied(r)
                     /\ now - occupied_at[r] >= RoomTimeout(rooms[r])
<1>1. StoreInv /\ [Next]_vars => [A]_vars
  BY CleanupStep
<1>2. Spec => [][A]_vars
  <2> HIDE DEF A
  <2> QED
    BY <1>1, StoreInvariant, PTL DEF Spec
<1> QED
  BY <1>2 DEF CleanupWaitsForTimeout

\* Entry j of room x after the step: a new join, the same session before the step, or a
\* session that the step moved here from room r.
SameEntry(x, j) ==
    /\ x \in DOMAIN rooms /\ j \in Members(rooms[x].participants)
    /\ rooms'[x].participants[j].sid = rooms[x].participants[j].sid
    /\ rooms'[x].participants[j] # rooms[x].participants[j]
       => rooms'[x].participants[j].version > rooms[x].participants[j].version

MovedEntry(r, x, j) ==
    /\ r \in DOMAIN rooms /\ j \in Members(rooms[r].participants)
    /\ rooms'[x].participants[j].sid = rooms[r].participants[j].sid
    /\ rooms'[x].participants[j].version > rooms[r].participants[j].version

\* Every entry after a step is a fresh join, the same session, or a moved session.
LEMMA EntryOrigin ==
    ASSUME TypeOK, BookedRooms(rooms), RoomsStep,
           NEW x \in DOMAIN rooms', NEW j \in Members(rooms'[x].participants)
    PROVE  Joins(x, j) \/ SameEntry(x, j) \/ \E r \in Room : MovedEntry(r, x, j)
<1> DEFINE Goal == Joins(x, j) \/ SameEntry(x, j) \/ \E r \in Room : MovedEntry(r, x, j)
           e == rooms'[x].participants[j]
<1>1. j \in Identity /\ e # NoParticipant
  BY DEF Members
<1>2. ASSUME x \in DOMAIN rooms, e = rooms[x].participants[j] PROVE Goal
  BY <1>1, <1>2 DEF SameEntry, Members
<1>3. ASSUME x \in DOMAIN rooms
      PROVE  rooms[x].participants \in [Identity -> Participant \cup {NoParticipant}]
  BY <1>3 DEF TypeOK, IsMap, RoomRecord
<1>4. ASSUME NEW r \in Room, Creates(r) PROVE Goal
  BY <1>2, <1>4 DEF Creates
<1>5. ASSUME Restricts PROVE Goal
  BY <1>2, <1>5 DEF Restricts
<1>6. ASSUME NEW r \in Room, NEW i \in Identity, Joins(r, i) PROVE Goal
  <2>1. CASE x = r /\ j = i
    BY <1>6, <2>1
  <2>2. CASE ~(x = r /\ j = i)
    <3>1. PICK p : JoinsAs(r, i, p)
      BY <1>6, JoinEffect DEF Joins
    <3>2. JoinedRoom(r).participants \in [Identity -> Participant \cup {NoParticipant}]
      BY JoinedRoomType DEF RoomRecord
    <3>3. CASE x # r
      BY <1>2, <3>1, <3>3 DEF JoinsAs
    <3>4. CASE x = r
      <4>1. e = JoinedRoom(r).participants[j]
        BY <1>1, <2>2, <3>1, <3>2, <3>4 DEF JoinsAs
      <4>2. r \in DOMAIN rooms /\ JoinedRoom(r) = rooms[r]
        <5>1. r \notin DOMAIN rooms => JoinedRoom(r).participants[j] = NoParticipant
          BY <1>1 DEF JoinedRoom, NewRoom
        <5> QED
          BY <1>1, <4>1, <5>1 DEF JoinedRoom
      <4> QED
        BY <1>2, <3>4, <4>1, <4>2
    <3> QED
      BY <3>3, <3>4
  <2> QED
    BY <2>1, <2>2
<1>7. ASSUME NEW r \in Room, NEW i \in Identity, RewriteStep(r, i) PROVE Goal
  <2>1. PICK q \in Participant :
              /\ rooms'[r].participants = [rooms[r].participants EXCEPT ![i] = q]
              /\ q.sid = rooms[r].participants[i].sid
              /\ q # rooms[r].participants[i] => q.version > rooms[r].participants[i].version
    BY <1>7 DEF RewriteStep, Rewrites
  <2>2. /\ x \in DOMAIN rooms /\ r \in DOMAIN rooms /\ i \in Members(rooms[r].participants)
        /\ x # r => rooms'[x] = rooms[x]
    BY <1>7 DEF RewriteStep, Rewrites, Present
  <2>3. e = IF x = r /\ j = i THEN q ELSE rooms[x].participants[j]
    BY <1>1, <1>3, <2>1, <2>2
  <2>4. CASE x = r /\ j = i
    BY <2>1, <2>2, <2>3, <2>4 DEF SameEntry
  <2> QED
    BY <1>2, <2>2, <2>3, <2>4
<1>8. ASSUME NEW r \in Room, NEW i \in Identity, RemoveParticipant(r, i) PROVE Goal
  <2>1. /\ DOMAIN rooms' = DOMAIN rooms
        /\ \A y \in DOMAIN rooms : y # r => rooms'[y] = rooms[y]
        /\ rooms'[r].participants = [rooms[r].participants EXCEPT ![i] = NoParticipant]
    BY <1>8, RemoveEffect
  <2>2. e \in {rooms[x].participants[j], NoParticipant}
    BY <1>1, <1>3, <2>1
  <2> QED
    BY <1>1, <1>2, <2>1, <2>2
<1>9. ASSUME NEW r \in Room, NEW i \in Identity, NEW d \in Room, MoveParticipant(r, i, d) PROVE Goal
  <2> DEFINE p == Moved(r, i)
  <2>1. MovesAs(r, i, d, p) /\ Present(r, i)
    BY <1>9, MoveEffect DEF MoveParticipant, Present
  <2>2. p.version > rooms[r].participants[i].version
    BY <2>1, PresentType DEF Moved, Participant
  <2> HIDE DEF p
  <2>3. x \in DOMAIN rooms
    BY <2>1 DEF MovesAs
  <2>4. /\ rooms'[x].participants =
             IF x = d THEN [rooms[x].participants EXCEPT ![i] = p]
             ELSE IF x = r THEN [rooms[x].participants EXCEPT ![i] = NoParticipant]
             ELSE rooms[x].participants
        /\ DOMAIN rooms[x].participants = Identity
    BY <1>3, <2>1, <2>3 DEF MovesAs
  <2>5. CASE x = d /\ j = i
    <3>1. e = p
      BY <1>1, <2>4, <2>5
    <3>2. p.sid = rooms[r].participants[i].sid
      BY <2>1 DEF MovesAs
    <3> QED
      BY <2>1, <2>2, <2>5, <3>1, <3>2 DEF MovedEntry, Present
  <2>6. CASE ~(x = d /\ j = i)
    <3>1. e \in {rooms[x].participants[j], NoParticipant}
      BY <1>1, <2>4, <2>6
    <3> QED
      BY <1>1, <1>2, <2>3, <3>1
  <2> QED
    BY <2>5, <2>6
<1> QED
  BY <1>4, <1>5, <1>6, <1>7, <1>8, <1>9 DEF RoomsStep

\* A step that changes the snapshot of a session gives it a larger version.
LEMMA SnapshotStep ==
    ASSUME StoreInv, Next, NEW r \in Room, NEW i \in Identity, SameSession(r, i),
           rooms'[r].participants[i] # rooms[r].participants[i]
    PROVE  rooms'[r].participants[i].version > rooms[r].participants[i].version
<1>1. TypeOK /\ BookedRooms(rooms) /\ SidsKept
  BY DEF StoreInv
<1>2. RoomsStep
  BY <1>1, StepEffect
<1>3. /\ r \in DOMAIN rooms /\ i \in Members(rooms[r].participants)
      /\ r \in DOMAIN rooms' /\ i \in Members(rooms'[r].participants)
      /\ rooms'[r].participants[i].sid = rooms[r].participants[i].sid
  BY DEF SameSession, Present
<1>4. Joins(r, i) \/ SameEntry(r, i) \/ \E q \in Room : MovedEntry(q, r, i)
  BY <1>1, <1>2, <1>3, EntryOrigin
<1>5. ~Joins(r, i)
  <2> SUFFICES ASSUME Joins(r, i) PROVE FALSE
    OBVIOUS
  <2>1. PICK perm \in Permissions \cup {NoPermission}, info \in Info :
              JoinParticipant(r, i, perm, info)
    BY DEF Joins
  <2> DEFINE p == Joiner(r, i, perm, info)
  <2>2. JoinsAs(r, i, p) /\ p.sid = next_participant_id + 1
    BY <1>1, <2>1, JoinEffect DEF Joiner
  <2>3. JoinedRoom(r).participants \in [Identity -> Participant \cup {NoParticipant}]
    BY <1>1, JoinedRoomType DEF RoomRecord
  <2> HIDE DEF p
  <2>4. rooms'[r].participants[i] = p
    BY <2>2, <2>3 DEF JoinsAs
  <2>5. rooms[r].participants[i].sid <= next_participant_id /\ next_participant_id \in Nat
    BY <1>1, <1>3 DEF SidsKept, TypeOK
  <2> QED
    BY <1>3, <2>2, <2>4, <2>5
<1>6. ASSUME NEW q \in Room, MovedEntry(q, r, i)
      PROVE  rooms'[r].participants[i].version > rooms[r].participants[i].version
  <2>1. q = r
    BY <1>1, <1>3, <1>6 DEF MovedEntry, SidsKept, SidsAreUnique
  <2> QED
    BY <1>6, <2>1 DEF MovedEntry
<1> QED
  BY <1>4, <1>5, <1>6 DEF SameEntry

\* No operation changes a live participant's snapshot without a larger version, so no
\* change is mistaken for one that was already broadcast.
THEOREM VersioningCorrect == Spec => SnapshotChangesAreVersioned
<1> DEFINE A == \A r \in Room, i \in Identity :
                  SameSession(r, i) /\ rooms'[r].participants[i] # rooms[r].participants[i]
                  => rooms'[r].participants[i].version > rooms[r].participants[i].version
<1>1. StoreInv /\ [Next]_vars => [A]_vars
  BY SnapshotStep
<1>2. Spec => [][A]_vars
  <2> HIDE DEF A
  <2> QED
    BY <1>1, StoreInvariant, PTL DEF Spec
<1> QED
  BY <1>2 DEF SnapshotChangesAreVersioned
\* A fresh join of an identity that was never moved in is newer than all its disconnected
\* snapshots.
LEMMA RejoinStep ==
    ASSUME StoreInv, Next, NEW r \in Room, NEW i \in Identity, FreshlyJoined(r, i),
           <<r, i>> \notin moved_in'
    PROVE  rooms'[r].participants[i].version > disconnected'[r][i]
<1>1. TypeOK /\ BookedRooms(rooms) /\ SidsKept /\ VersionsKept
  BY DEF StoreInv
<1>2. RoomsStep
  BY <1>1, StepEffect
<1>3. /\ r \in DOMAIN rooms' /\ i \in Members(rooms'[r].participants)
      /\ rooms'[r].participants[i].sid > next_participant_id
  BY DEF FreshlyJoined, Present
<1>4. \A x \in DOMAIN rooms : \A j \in Members(rooms[x].participants) :
         /\ rooms[x].participants[j].sid <= next_participant_id
         /\ rooms[x].participants[j].sid \in Nat /\ next_participant_id \in Nat
  <2>1. \A x \in DOMAIN rooms : \A j \in Members(rooms[x].participants) :
            x \in Room /\ j \in Identity /\ Present(x, j)
    BY <1>1 DEF Members, TypeOK, IsMap, Present
  <2> QED
    BY <1>1, <2>1, PresentType DEF SidsKept, Participant, TypeOK
<1>5. Joins(r, i)
  <2>1. Joins(r, i) \/ SameEntry(r, i) \/ \E q \in Room : MovedEntry(q, r, i)
    BY <1>1, <1>2, <1>3, EntryOrigin
  <2>2. ~SameEntry(r, i)
    BY <1>3, <1>4 DEF SameEntry
  <2>3. ASSUME NEW q \in Room PROVE ~MovedEntry(q, r, i)
    BY <1>3, <1>4 DEF MovedEntry
  <2> QED
    BY <2>1, <2>2, <2>3
<1>6. PICK perm \in Permissions \cup {NoPermission}, info \in Info :
            JoinParticipant(r, i, perm, info)
  BY <1>5 DEF Joins
<1> DEFINE rec == JoinedRoom(r)
           p == Joiner(r, i, perm, info)
<1>7. JoinsAs(r, i, p) /\ p.version = rec.participant_versions[i] + 1
  BY <1>1, <1>6, JoinEffect DEF Joiner, JoinVersion
<1>8. /\ rec.participants \in [Identity -> Participant \cup {NoParticipant}]
      /\ rec.participant_versions[i] \in Nat \cup {NoVersion}
  BY <1>1, JoinedRoomType DEF RoomRecord
<1> HIDE DEF p
<1>9. rooms'[r].participants[i].version = rec.participant_versions[i] + 1
  BY <1>7, <1>8 DEF JoinsAs
<1>10. CASE r \in DOMAIN rooms
  <2>1. disconnected' = disconnected /\ moved_in' = moved_in /\ rec = rooms[r]
    BY <1>6, <1>10 DEF JoinParticipant, departureVars, JoinedRoom
  <2>2. rec.participant_versions[i] >= disconnected[r][i]
    BY <1>1, <1>10, <2>1 DEF VersionsKept
  <2>3. disconnected[r][i] \in Nat \cup {NoVersion}
    BY <1>1, VersionTypes
  <2> HIDE DEF rec
  <2> QED
    BY <1>8, <1>9, <2>1, <2>2, <2>3 DEF NoVersion
<1>11. CASE r \notin DOMAIN rooms
  <2>1. ForgetDepartures(r)
    BY <1>6, <1>11 DEF JoinParticipant
  <2>2. disconnected'[r][i] = NoVersion
    BY <1>1, <2>1, VersionTypes DEF ForgetDepartures
  <2> HIDE DEF rec
  <2> QED
    BY <1>8, <1>9, <2>2 DEF NoVersion
<1> QED
  BY <1>10, <1>11

\* A rejoin is newer than every disconnected snapshot of the identity in that room
\* record, unless a move interfered.
THEOREM RejoinCorrect == Spec => RejoinIsNewer
<1> DEFINE A == \A r \in Room, i \in Identity :
                  FreshlyJoined(r, i) /\ <<r, i>> \notin moved_in'
                  => rooms'[r].participants[i].version > disconnected'[r][i]
<1>1. StoreInv /\ [Next]_vars => [A]_vars
  BY RejoinStep
<1>2. Spec => [][A]_vars
  <2> HIDE DEF A
  <2> QED
    BY <1>1, StoreInvariant, PTL DEF Spec
<1> QED
  BY <1>2 DEF RejoinIsNewer
=============================================================================
