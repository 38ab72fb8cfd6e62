---------------------------- MODULE SignalSession ----------------------------
(***************************************************************************)
(* The life of the signalling sessions of one identity in one room          *)
(* (oxidesfu-signaling: router.rs run_join_socket, cleanup_if_active_session, *)
(* cleanup_participant_runtime_state; state.rs                               *)
(* disconnect_participant_from_service).  Every websocket, every grace timer *)
(* and every RoomService removal is a task; a task's step is what it does     *)
(* between two awaits.  All of them address the session by (room, identity),  *)
(* so they meet in the same entries of the shared stores.                    *)
(***************************************************************************)
EXTENDS Integers, FiniteSets

CONSTANTS
    Socket,         \* websocket connections of the identity, each used once
    Service,        \* RoomService removals of the identity, each used once
    Grace,          \* reconnect_participant_retention_grace, in clock units
    MaxTrack,       \* bound of the tracks ever published
    NoSocket

NoSid == 0
Sid == 1..Cardinality(Socket)
NoTrack == 0
Track == 1..MaxTrack

Timer == {<<"timer", s>> : s \in Socket}
Task == Socket \cup Service \cup Timer      \* whoever may run a cleanup

VARIABLES
    participant,    \* SID of the room store's entry of the identity, or NoSid
    published,      \* the track that entry publishes, or NoTrack
    next_sid,       \* SIDs handed out
    next_track,     \* tracks published so far
    conn,           \* signal_connections: the socket registered for the identity
    pcs,            \* peer_connections.has_any
    grants,         \* permissions, preferences, auth context: the socket that set them
    sock,           \* per socket: program point and locals
    clean,          \* per task: its run of cleanup_participant_runtime_state
    timer,          \* per socket: the grace timer its disconnect spawned
    left            \* history: participant_left webhooks per SID

storeVars == <<participant, published, next_sid, next_track>>
runtimeVars == <<conn, pcs, grants>>
taskVars == <<sock, clean, timer>>
vars == <<storeVars, runtimeVars, taskVars, left>>

-----------------------------------------------------------------------------
(* Steps of a task *)

Goto(s, p) == sock' = [sock EXCEPT ![s].pc = p]

\* cleanup_participant_runtime_state begins by reading the departing participant; its
\* SID and tracks are used for the forwarding state of others, never as a fence.
BeginCleanup(t) == clean' = [clean EXCEPT ![t] = [phase |-> "stores", sid |-> participant]]

AnnounceLeft(sid) == left' = [left EXCEPT ![sid] = @ + 1]

-----------------------------------------------------------------------------
(* cleanup_participant_runtime_state *)

\* After the awaited forwarding removals and renegotiations.
ClearStores(t) ==
    /\ clean[t].phase = "stores"
    /\ clean' = [clean EXCEPT ![t].phase = "peers"]
    /\ grants' = NoSocket
    /\ UNCHANGED <<storeVars, conn, pcs, sock, timer, left>>

\* peer_connections.remove_all; closing them is awaited.
RemovePeers(t) ==
    /\ clean[t].phase = "peers"
    /\ clean' = [clean EXCEPT ![t].phase = "remove"]
    /\ pcs' = FALSE
    /\ UNCHANGED <<storeVars, conn, grants, sock, timer, left>>

\* RemoveFromRoom announcing the snapshot it took at the start.
RemoveSnapshot(t) ==
    /\ clean[t].phase = "remove"
    /\ clean' = [clean EXCEPT ![t].phase = "done"]
    /\ participant' = NoSid
    /\ published' = NoTrack
    /\ IF clean[t].sid = NoSid THEN UNCHANGED left ELSE AnnounceLeft(clean[t].sid)
    /\ UNCHANGED <<next_sid, next_track, runtimeVars, sock, timer>>

\* rooms.remove_participant takes whatever entry the identity has by now.
RemoveFromRoom(t) ==
    /\ clean[t].phase = "remove"
    /\ clean' = [clean EXCEPT ![t].phase = "done"]
    /\ participant' = NoSid
    /\ published' = NoTrack
    /\ IF participant = NoSid THEN UNCHANGED left ELSE AnnounceLeft(participant)
    /\ UNCHANGED <<next_sid, next_track, runtimeVars, sock, timer>>

CleanupStep(t) == ClearStores(t) \/ RemovePeers(t) \/ RemoveFromRoom(t)
CleanupDone(t) == clean[t].phase = "done"

-----------------------------------------------------------------------------
(* run_join_socket up to the registration of the session *)

StartFresh(s) ==
    /\ sock[s].pc = "idle"
    /\ sock' = [sock EXCEPT ![s].pc = "duplicate"]
    /\ UNCHANGED <<storeVars, conn, pcs, grants, clean, timer, left>>

\* The client resumes the session it was last told about.
StartReconnect(s, sid) ==
    /\ sock[s].pc = "idle"
    /\ sock' = [sock EXCEPT ![s].pc = IF participant = sid /\ pcs THEN "respond" ELSE "closed",
                            ![s].reconnect = TRUE]
    /\ UNCHANGED <<storeVars, runtimeVars, clean, timer, left>>

\* An entry of the identity is disconnected with DuplicateIdentity first.
CheckDuplicate(s) ==
    /\ sock[s].pc = "duplicate"
    /\ IF participant = NoSid
       THEN Goto(s, "join") /\ UNCHANGED clean
       ELSE Goto(s, "evicting") /\ BeginCleanup(s)
    /\ UNCHANGED <<storeVars, runtimeVars, timer, left>>

Evicted(s) ==
    /\ sock[s].pc = "evicting" /\ CleanupDone(s)
    /\ Goto(s, "join")
    /\ UNCHANGED <<storeVars, runtimeVars, clean, timer, left>>

\* The store replaces an entry that another join made in the meantime.
Join(s) ==
    /\ sock[s].pc = "join"
    /\ \/ /\ next_sid' = next_sid + 1
          /\ participant' = next_sid'
          /\ published' = NoTrack
          /\ UNCHANGED next_track
          /\ Goto(s, "respond")
       \/ Goto(s, "closed") /\ UNCHANGED storeVars
    /\ UNCHANGED <<runtimeVars, clean, timer, left>>

\* A response that cannot be sent ends the task and leaves the entry of the join.
Respond(s) ==
    /\ sock[s].pc = "respond"
    /\ \/ Goto(s, "register")
       \/ Goto(s, "aborted")
    /\ UNCHANGED <<storeVars, runtimeVars, clean, timer, left>>

\* Register that leaves a resumed session the grants of its earlier connection.
RegisterKeepingGrants(s) ==
    /\ sock[s].pc = "register"
    /\ IF participant = NoSid /\ ~sock[s].reconnect
       THEN Goto(s, "closed") /\ UNCHANGED <<conn, grants>>
       ELSE Goto(s, "setup") /\ conn' = s /\ grants' = IF sock[s].reconnect THEN grants ELSE s
    /\ UNCHANGED <<storeVars, pcs, clean, timer, left>>

\* Only a fresh join looks its participant up again before it registers.
Register(s) ==
    /\ sock[s].pc = "register"
    /\ IF participant = NoSid /\ ~sock[s].reconnect
       THEN Goto(s, "closed") /\ UNCHANGED <<conn, grants>>
       ELSE Goto(s, "setup") /\ conn' = s /\ grants' = s
    /\ UNCHANGED <<storeVars, pcs, clean, timer, left>>

\* Subscriber offer, requested tracks and publisher offer; the error paths return
\* without cleaning up.
SetUp(s) ==
    /\ sock[s].pc = "setup"
    /\ \/ pcs' \in {pcs, TRUE} /\ Goto(s, "loop")
       \/ Goto(s, "aborted") /\ pcs' \in {pcs, TRUE}
    /\ UNCHANGED <<storeVars, conn, grants, clean, timer, left>>

-----------------------------------------------------------------------------
(* The loop *)

\* A message passes the stale-session check and is handed to its handler.
Receive(s) ==
    /\ sock[s].pc = "loop" /\ conn = s
    /\ Goto(s, "handle")
    /\ UNCHANGED <<storeVars, runtimeVars, clean, timer, left>>

\* Stream end, stream error or failed send; or the ping of a replaced session.
Drop(s) ==
    /\ sock[s].pc = "loop"
    /\ Goto(s, "closing")
    /\ UNCHANGED <<storeVars, runtimeVars, clean, timer, left>>

\* answer_publisher_offer does not look for the participant.
HandleOffer(s) ==
    /\ sock[s].pc = "handle"
    /\ pcs' = TRUE
    /\ Goto(s, "loop")
    /\ UNCHANGED <<storeVars, conn, grants, clean, timer, left>>

HandleAddTrack(s) ==
    /\ sock[s].pc = "handle"
    /\ IF participant = NoSid \/ published # NoTrack THEN UNCHANGED <<published, next_track>>
       ELSE /\ next_track < MaxTrack
            /\ next_track' = next_track + 1
            /\ published' = next_track'
    /\ Goto(s, "loop")
    /\ UNCHANGED <<participant, next_sid, runtimeVars, clean, timer, left>>

\* A Close frame is an explicit leave that changes nothing yet.
HandleClose(s) ==
    /\ sock[s].pc = "handle"
    /\ sock' = [sock EXCEPT ![s].pc = "loop", ![s].leave = TRUE]
    /\ UNCHANGED <<storeVars, runtimeVars, clean, timer, left>>

\* The Leave handler runs the cleanup itself and then ends the loop.
HandleLeave(s) ==
    /\ sock[s].pc = "handle"
    /\ sock' = [sock EXCEPT ![s].pc = "leaving", ![s].leave = TRUE]
    /\ BeginCleanup(s)
    /\ UNCHANGED <<storeVars, runtimeVars, timer, left>>

Left(s) ==
    /\ sock[s].pc = "leaving" /\ CleanupDone(s)
    /\ Goto(s, "closing")
    /\ UNCHANGED <<storeVars, runtimeVars, clean, timer, left>>

-----------------------------------------------------------------------------
(* cleanup_if_active_session *)

Close(s) ==
    /\ sock[s].pc = "closing"
    /\ IF conn # s
       THEN Goto(s, "closed") /\ UNCHANGED <<conn, clean>>
       ELSE /\ conn' = NoSocket
            /\ IF sock[s].leave \/ ~pcs
               THEN Goto(s, "ending") /\ BeginCleanup(s)
               ELSE /\ sock' = [sock EXCEPT ![s].pc = "unpublish", ![s].sid = participant,
                                            ![s].track = published]
                    /\ UNCHANGED clean
    /\ UNCHANGED <<storeVars, pcs, grants, timer, left>>

Ended(s) ==
    /\ sock[s].pc = "ending" /\ CleanupDone(s)
    /\ Goto(s, "closed")
    /\ UNCHANGED <<storeVars, runtimeVars, clean, timer, left>>

\* unpublish_participant_tracks_for_reconnect_grace, past its awaits, and the spawn of
\* the timer.
Unpublish(s) ==
    /\ sock[s].pc = "unpublish"
    /\ Goto(s, "closed")
    /\ published' = IF published = sock[s].track THEN NoTrack ELSE published
    /\ timer' = [timer EXCEPT ![s] = [state |-> "armed", remaining |-> Grace,
                                      sid |-> sock[s].sid]]
    /\ UNCHANGED <<participant, next_sid, next_track, runtimeVars, clean, left>>

\* TimerFires for identities without transports only.
TimerSparesTransports(s) ==
    /\ timer[s].state = "armed" /\ timer[s].remaining = 0
    /\ timer' = [timer EXCEPT ![s].state = "done"]
    /\ IF conn = NoSocket /\ ~pcs /\ participant = timer[s].sid
       THEN BeginCleanup(<<"timer", s>>)
       ELSE UNCHANGED clean
    /\ UNCHANGED <<storeVars, runtimeVars, sock, left>>

\* TimerFires waiting once more as long as there are transports.
TimerWaitsForTransports(s) ==
    /\ timer[s].state = "armed" /\ timer[s].remaining = 0
    /\ IF conn = NoSocket /\ pcs
       THEN timer' = [timer EXCEPT ![s].remaining = Grace] /\ UNCHANGED clean
       ELSE /\ timer' = [timer EXCEPT ![s].state = "done"]
            /\ IF conn = NoSocket /\ timer[s].sid # NoSid /\ participant = timer[s].sid
               THEN BeginCleanup(<<"timer", s>>)
               ELSE UNCHANGED clean
    /\ UNCHANGED <<storeVars, runtimeVars, sock, left>>

\* The timer looks for a registered connection, then compares the SID, and from there
\* on runs the unfenced cleanup.
TimerFires(s) ==
    /\ timer[s].state = "armed" /\ timer[s].remaining = 0
    /\ timer' = [timer EXCEPT ![s].state = "done"]
    /\ IF conn = NoSocket /\ timer[s].sid # NoSid /\ participant = timer[s].sid
       THEN BeginCleanup(<<"timer", s>>)
       ELSE UNCHANGED clean
    /\ UNCHANGED <<storeVars, runtimeVars, sock, left>>

\* disconnect_participant_from_service; the Leave it queues for the socket lets the
\* client drop, which it may do at any time.
ServiceDisconnect(x) ==
    /\ clean[x].phase = "idle" /\ participant # NoSid
    /\ BeginCleanup(x)
    /\ UNCHANGED <<storeVars, runtimeVars, sock, timer, left>>

\* Tick past the end of a sleep.
TickAll ==
    /\ \E s \in Socket : timer[s].state = "armed" /\ timer[s].remaining > 0
    /\ timer' = [s \in Socket |-> [timer[s] EXCEPT !.remaining = @ - 1]]
    /\ UNCHANGED <<storeVars, runtimeVars, sock, clean, left>>

\* A unit of time passes; a timer that is due may still fire late.
Tick ==
    /\ \E s \in Socket : timer[s].state = "armed" /\ timer[s].remaining > 0
    /\ timer' = [s \in Socket |-> IF timer[s].remaining = 0 THEN timer[s]
                                  ELSE [timer[s] EXCEPT !.remaining = @ - 1]]
    /\ UNCHANGED <<storeVars, runtimeVars, sock, clean, left>>

-----------------------------------------------------------------------------
Init ==
    /\ participant = NoSid /\ published = NoTrack /\ next_sid = 0 /\ next_track = 0
    /\ conn = NoSocket /\ pcs = FALSE /\ grants = NoSocket
    /\ sock = [s \in Socket |-> [pc |-> "idle", reconnect |-> FALSE, leave |-> FALSE,
                                 sid |-> NoSid, track |-> NoTrack]]
    /\ clean = [t \in Task |-> [phase |-> "idle", sid |-> NoSid]]
    /\ timer = [s \in Socket |-> [state |-> "off", remaining |-> 0, sid |-> NoSid]]
    /\ left = [i \in Sid |-> 0]

\* Steps a task takes on its own once it has started.
SocketStep(s) ==
    \/ CheckDuplicate(s) \/ Evicted(s) \/ Join(s) \/ Respond(s) \/ Register(s) \/ SetUp(s)
    \/ HandleOffer(s) \/ HandleAddTrack(s) \/ HandleClose(s) \/ HandleLeave(s)
    \/ Left(s) \/ Close(s) \/ Ended(s) \/ Unpublish(s)

\* Steps the client decides on.
ClientStep(s) ==
    \/ StartFresh(s) \/ \E i \in 1..next_sid : StartReconnect(s, i)
    \/ Receive(s)

Next ==
    \/ \E s \in Socket : SocketStep(s) \/ ClientStep(s) \/ Drop(s) \/ TimerFires(s)
    \/ \E t \in Task : CleanupStep(t)
    \/ \E x \in Service : ServiceDisconnect(x)
    \/ Tick

Spec == Init /\ [][Next]_vars

\* The executor runs every ready task and sleeps end.  Nothing is assumed of clients.
Fairness ==
    /\ \A s \in Socket : WF_vars(SocketStep(s)) /\ WF_vars(TimerFires(s))
    /\ \A t \in Task : WF_vars(CleanupStep(t))
    /\ WF_vars(Tick)

FairSpec == Spec /\ Fairness

-----------------------------------------------------------------------------
(* Properties *)

Point == {"idle", "duplicate", "evicting", "join", "respond", "register", "setup", "loop",
          "handle", "leaving", "closing", "ending", "unpublish", "closed", "aborted"}

\* The stores, the program points and the timers stay within their domains: in
\* particular a sleep does not run past zero.
TypeOK ==
    /\ participant \in Sid \cup {NoSid} /\ published \in Track \cup {NoTrack}
    /\ next_sid \in 0..Cardinality(Socket) /\ next_track \in 0..MaxTrack
    /\ conn \in Socket \cup {NoSocket} /\ pcs \in BOOLEAN
    /\ grants \in Socket \cup {NoSocket}
    /\ sock \in [Socket -> [pc : Point, reconnect : BOOLEAN, leave : BOOLEAN,
                            sid : Sid \cup {NoSid}, track : Track \cup {NoTrack}]]
    /\ clean \in [Task -> [phase : {"idle", "stores", "peers", "remove", "done"},
                           sid : Sid \cup {NoSid}]]
    /\ timer \in [Socket -> [state : {"off", "armed", "done"}, remaining : 0..Grace,
                             sid : Sid \cup {NoSid}]]

\* However many cleanups of a session overlap, its participant_left webhook is emitted
\* once, and not before the session is gone from the room.
LeftIsAnnouncedOnce ==
    \A i \in Sid : left[i] <= 1 /\ (left[i] = 1 => participant # i)

NoCleanup == \A t \in Task : clean[t].phase \in {"idle", "done"}

\* However joins, resumptions and cleanups overlapped, once none of them is under way the
\* connection a participant is served on has the permissions, preferences and auth
\* context that it set itself: no cleanup of an earlier session has taken them away.
ServedWithOwnGrants ==
    NoCleanup /\ (\A s \in Socket : sock[s].pc \in {"idle", "loop", "handle", "closed"}) =>
        \A s \in Socket : participant # NoSid /\ conn = s /\ sock[s].pc = "loop" => grants = s

Settled ==
    /\ \A s \in Socket : sock[s].pc \in {"idle", "closed"} /\ timer[s].state # "armed"
    /\ NoCleanup

\* When every connection has ended, every timer has fired and every cleanup has run to
\* its end, nothing of the identity is left in the room or among the connections; the
\* connections that failed before they reached their loop are excepted, as nothing
\* cleans up after them.
SettledMeansGone == Settled => participant = NoSid /\ conn = NoSocket

\* A participant without a connection is resumed, or removed once its grace is over,
\* unless its connection failed before it reached its loop.
DisconnectedEventuallyGone ==
    (participant # NoSid /\ conn = NoSocket)
      ~> (participant = NoSid \/ conn # NoSocket \/ \E s \in Socket : sock[s].pc = "aborted")

Removes(t) ==
    clean[t].phase = "remove" /\ clean'[t].phase = "done" /\ participant # NoSid

\* "old-session cleanup must be ignored after rejoin": what a timer removes is the
\* session it was armed for.
OldCleanupSparesRejoin ==
    [][\A s \in Socket : Removes(<<"timer", s>>) => participant = timer[s].sid]_vars
=============================================================================
