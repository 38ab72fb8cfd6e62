------------------------- MODULE ParticipantUpdates -------------------------
(***************************************************************************)
(* How the participants of a room learn of each other (oxidesfu-signaling,   *)
(* router.rs): the join response carries a snapshot of the room, and the     *)
(* ParticipantUpdateHub sends later snapshots to the registered sockets.     *)
(* A broadcast compares versions under one lock and sends under another; a   *)
(* join takes its snapshot, writes it to the socket, and registers only      *)
(* then.  Every participant has one session.                                 *)
(***************************************************************************)
EXTENDS Integers, FiniteSets

CONSTANTS
    Person,
    Hideable,       \* the ones whose permission may hide them
    Task,           \* handlers that change a participant and broadcast the change
    MaxVersion      \* bound of a participant's version

ASSUME HideableAssumption == Hideable \subseteq Person /\ MaxVersion \in Nat

VARIABLES
    hidden,         \* the participants whose permission hides them
    stage,          \* person -> "out", "joining", "in" or "gone"
    store,          \* person -> [version, present]: the room store's snapshot
    latest,         \* person -> hub.latest_versions, 0 when absent
    task,           \* task -> what it is doing
    view,           \* listener -> person -> the last snapshot its client was sent
    newest,         \* history: the largest version the client was sent
    since           \* history: the versions of the others when the listener registered

vars == <<hidden, stage, store, latest, task, view, newest, since>>

Absent == [version |-> 0, present |-> FALSE]
Idle == [pc |-> "idle"]
senders == {w \in Person : stage[w] = "in"}
Snapshot == [version : 0..MaxVersion, present : BOOLEAN]

Init ==
    /\ hidden \in SUBSET Hideable
    /\ stage = [p \in Person |-> "out"]
    /\ store = [p \in Person |-> Absent]
    /\ latest = [p \in Person |-> 0]
    /\ task = [t \in Task |-> Idle]
    /\ view = [w \in Person |-> [p \in Person |-> Absent]]
    /\ newest = [w \in Person |-> [p \in Person |-> 0]]
    /\ since = [w \in Person |-> [p \in Person |-> 0]]

-----------------------------------------------------------------------------
\* rooms.join_participant_with_permission and the join response built from it: the
\* visible others as they are now.
JoinStore(p) ==
    LET others == [q \in Person |-> IF q # p /\ store[q].present /\ q \notin hidden
                                    THEN store[q] ELSE Absent]
    IN  /\ stage[p] = "out"
        /\ stage' = [stage EXCEPT ![p] = "joining"]
        /\ store' = [store EXCEPT ![p] = [version |-> 1, present |-> TRUE]]
        /\ view' = [view EXCEPT ![p] = others]
        /\ newest' = [newest EXCEPT ![p] = [q \in Person |-> others[q].version]]
        /\ UNCHANGED <<latest, task, since>>

\* Every registered socket is sent p's snapshot s.
Deliver(p, s) ==
    /\ view' = [w \in Person |-> IF w \in senders THEN [view[w] EXCEPT ![p] = s] ELSE view[w]]
    /\ newest' = [w \in Person |->
         IF w \in senders /\ newest[w][p] < s.version
         THEN [newest[w] EXCEPT ![p] = s.version] ELSE newest[w]]

\* Register that also announces hidden participants.
RegisterAndShow(p) ==
    /\ stage[p] = "joining" /\ store[p].present
    /\ stage' = [stage EXCEPT ![p] = "in"]
    /\ since' = [since EXCEPT ![p] = [q \in Person |-> store[q].version]]
    /\ Deliver(p, store[p])
    /\ UNCHANGED <<store, latest, task>>

\* Register without the announcement.
RegisterSilently(p) ==
    /\ stage[p] = "joining" /\ store[p].present
    /\ stage' = [stage EXCEPT ![p] = "in"]
    /\ since' = [since EXCEPT ![p] = [q \in Person |-> store[q].version]]
    /\ UNCHANGED <<store, latest, task, view, newest>>

\* After the join response went out: register_and_broadcast_join, or nothing when the
\* participant was removed meanwhile.
Register(p) ==
    /\ stage[p] = "joining"
    /\ IF store[p].present
       THEN /\ stage' = [stage EXCEPT ![p] = "in"]
            /\ since' = [since EXCEPT ![p] = [q \in Person |-> store[q].version]]
            /\ IF p \in hidden THEN UNCHANGED <<view, newest>> ELSE Deliver(p, store[p])
       ELSE stage' = [stage EXCEPT ![p] = "gone"] /\ UNCHANGED <<since, view, newest>>
    /\ UNCHANGED <<store, latest, task>>

\* Begin whose handler raises the version of its snapshot once more.
BeginAhead(t, p, present) ==
    LET s == [version |-> store[p].version + 1, present |-> present]
    IN  /\ task[t] = Idle /\ store[p].present /\ store[p].version < MaxVersion
        /\ store' = [store EXCEPT ![p] = s]
        /\ task' = [task EXCEPT ![t] = [pc |-> "check", person |-> p,
                                       snapshot |-> [s EXCEPT !.version = @ + 1]]]
        /\ UNCHANGED <<latest, view, newest, since>>

\* A handler changes a participant in the store, which raises its version, and goes on to
\* broadcast_update with the snapshot it got.  Hidden participants are skipped unless they left.
Begin(t, p, present) ==
    LET s == [version |-> store[p].version + 1, present |-> present]
    IN  /\ task[t] = Idle /\ store[p].present /\ store[p].version < MaxVersion
        /\ store' = [store EXCEPT ![p] = s]
        /\ task' = IF p \in hidden /\ present THEN task
                   ELSE [task EXCEPT ![t] = [pc |-> "check", person |-> p, snapshot |-> s]]
        /\ UNCHANGED <<latest, view, newest, since>>

Change(t, p) == Begin(t, p, TRUE) /\ UNCHANGED stage

\* The participant leaves or is removed; its socket's receiver goes with it.
Leave(t, p) ==
    /\ Begin(t, p, FALSE)
    /\ stage' = IF stage[p] = "in" THEN [stage EXCEPT ![p] = "gone"] ELSE stage

\* should_broadcast_update with one version for the whole room.
CheckRoomVersion(t) ==
    LET p == task[t].person
        s == task[t].snapshot
        ok == \A q \in Person : s.version > latest[q]
    IN  /\ task[t].pc = "check"
        /\ latest' = IF ok THEN [latest EXCEPT ![p] = s.version] ELSE latest
        /\ task' = [task EXCEPT ![t] = IF ok THEN [@ EXCEPT !.pc = "send"] ELSE Idle]
        /\ UNCHANGED <<stage, store, view, newest, since>>

\* should_broadcast_update, under the lock of latest_versions.
Check(t) ==
    LET p == task[t].person
        s == task[t].snapshot
        ok == s.version > latest[p]
    IN  /\ task[t].pc = "check"
        /\ latest' = IF ok THEN [latest EXCEPT ![p] = s.version] ELSE latest
        /\ task' = [task EXCEPT ![t] = IF ok THEN [@ EXCEPT !.pc = "send"] ELSE Idle]
        /\ UNCHANGED <<stage, store, view, newest, since>>

\* The rest of broadcast_update, under the lock of rooms.
Send(t) ==
    /\ task[t].pc = "send"
    /\ Deliver(task[t].person, task[t].snapshot)
    /\ task' = [task EXCEPT ![t] = Idle]
    /\ UNCHANGED <<stage, store, latest, since>>

Next ==
    /\ \/ \E p \in Person : JoinStore(p) \/ Register(p)
       \/ \E t \in Task : Check(t) \/ Send(t) \/ \E p \in Person : Change(t, p) \/ Leave(t, p)
    /\ UNCHANGED hidden

Spec == Init /\ [][Next]_vars

-----------------------------------------------------------------------------
(* Properties *)

\* The types; the hub is never ahead of the room store.
TypeOK ==
    /\ hidden \subseteq Person
    /\ stage \in [Person -> {"out", "joining", "in", "gone"}]
    /\ store \in [Person -> Snapshot]
    /\ latest \in [Person -> 0..MaxVersion]
    /\ \A t \in Task : task[t] = Idle \/ task[t] \in [pc : {"check", "send"}, person : Person, snapshot : Snapshot]
    /\ view \in [Person -> [Person -> Snapshot]]
    /\ newest \in [Person -> [Person -> 0..MaxVersion]]
    /\ since \in [Person -> [Person -> 0..MaxVersion]]
    /\ \A p \in Person : latest[p] <= store[p].version

\* No one is about to send anything.
Quiet == \A t \in Task : task[t] = Idle

\* However the broadcasts of a participant's changes interleave, the suppression of stale
\* versions never suppresses the newest one: once all handlers are done, every socket that
\* was registered before the last change has been sent it (a join is announced when the
\* newcomer registers).
NewestIsDelivered ==
    Quiet => \A w \in senders, p \in Person \ hidden :
        stage[p] # "joining" /\ w # p /\ store[p].version > since[w][p] => newest[w][p] = store[p].version

\* Nobody is ever told that a hidden participant is present.
HiddenIsNotShown == \A w \in Person, h \in hidden : ~view[w][h].present

\* Once everything is delivered, a participant knows every visible one that joined after it
\* had registered.  (One that joined between its snapshot and its registration may stay
\* unknown to it.)
LaterJoinsAreKnown ==
    Quiet => \A w \in senders, p \in senders \ hidden :
        w # p /\ since[w][p] = 0 => view[w][p].present

\* broadcast_update_suppresses_stale_out_of_order_participant_version: a socket is not sent
\* an older snapshot of a participant after a newer one.
StaleIsSuppressed ==
    [][\A w \in Person, p \in Person : view'[w][p].version >= view[w][p].version]_vars
=============================================================================
