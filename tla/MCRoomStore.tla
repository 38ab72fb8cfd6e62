---------------------------- MODULE MCRoomStore ----------------------------
(* The room store with few rooms, identities and tracks, for TLC. *)
EXTENDS RoomStore, TLC

Open   == [some |-> TRUE, hidden |-> FALSE, can_publish |-> TRUE, can_subscribe |-> TRUE]
Hidden == [Open EXCEPT !.hidden = TRUE]
Muted  == [Open EXCEPT !.can_publish = FALSE, !.can_subscribe = FALSE]

HiddenOnly == {Hidden}
MutedOnly == {Muted}
OneConfig == {[empty_timeout |-> 0, departure_timeout |-> 1, max_participants |-> 0]}
OneAtATime == [empty_timeout |-> 1, departure_timeout |-> 0, max_participants |-> 1]
ZeroDefaults == [empty_timeout |-> 0, departure_timeout |-> 0, max_participants |-> 0]

MemberSymmetry == Permutations(Room) \cup Permutations(Identity)
=============================================================================
