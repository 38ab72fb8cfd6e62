-------------------------------- MODULE Relay --------------------------------
(***************************************************************************)
(* Joins of one identity at a node that does not own the room: the origin    *)
(* relays them through a Redis mailbox to the worker of the owning node      *)
(* (oxidesfu-signaling relay/mailbox.rs, relay/dispatcher.rs, join.rs,       *)
(* socket.rs, router.rs run_non_local_relay_accepted_socket_loop;            *)
(* oxidesfu-server relay_worker.rs).  Mailbox entries are claimed in the     *)
(* order of their ids, which is the order in which they were stored.         *)
(***************************************************************************)
EXTENDS Integers, Sequences, FiniteSets

CONSTANTS
    Attempt,            \* websocket connections of the identity at the origin
    MaxSid,             \* bound of the sessions the owner creates
    MaxRetry,           \* dispatch_retry_attempts
    Flaky,              \* the connections whose dispatches may meet a Redis error
    MaxOwnerJoins,      \* bound of the joins of the identity at the owner itself
    NoAttempt

NoSid == 0
Sid == 1..MaxSid

VARIABLES
    intents,            \* join intents: sequence of [id, attempt, sid]
    responses,          \* join responses by intent id: set of [id, accepted, sid]
    signals,            \* relayed Leave requests: sequence of attempts
    terminations,       \* termination intents: sequence of SIDs
    next_id,            \* ids handed out for join intents
    participant,        \* the owner's room store: SID of the identity, or NoSid
    next_sid,
    worker,             \* the owner's relay worker
    att,                \* the origin's connections
    conn,               \* the origin's signal_connections entry of the identity
    created_for         \* history: the attempt a session was created for, if it was relayed

mailbox == <<intents, responses, signals, terminations, next_id>>
owner == <<participant, next_sid, created_for>>
vars == <<mailbox, owner, worker, att, conn>>

NoJob == [kind |-> "none"]
Goto(a, p) == att' = [att EXCEPT ![a].pc = p]

-----------------------------------------------------------------------------
(* dispatch_non_local_join at the origin *)

Start(a, sid) ==
    /\ att[a].pc = "idle"
    /\ att' = [att EXCEPT ![a].pc = "dispatch", ![a].requested = sid]
    /\ UNCHANGED <<mailbox, owner, worker, conn>>

Stored(a) == Append(intents, [id |-> next_id + 1, attempt |-> a, sid |-> att[a].requested])

\* The intent is stored and its receipt returned.
Dispatch(a) ==
    /\ att[a].pc = "dispatch"
    /\ next_id' = next_id + 1
    /\ intents' = Stored(a)
    /\ att' = [att EXCEPT ![a].pc = "waiting", ![a].receipt = next_id']
    /\ UNCHANGED <<responses, signals, terminations, owner, worker, conn>>

\* DispatchFails with one retry too many.
DispatchFailsOnceMore(a) ==
    /\ att[a].pc = "dispatch" /\ a \in Flaky
    /\ next_id' = next_id + 1
    /\ intents' \in {intents, Stored(a)}
    /\ att' = [att EXCEPT ![a].tries = @ + 1,
                          ![a].pc = IF att[a].tries <= MaxRetry THEN "dispatch" ELSE "fallback"]
    /\ UNCHANGED <<responses, signals, terminations, owner, worker, conn>>

\* An error, whether or not Redis had stored the entry; every retry uses a new id.
DispatchFails(a) ==
    /\ att[a].pc = "dispatch" /\ a \in Flaky
    /\ next_id' = next_id + 1
    /\ intents' \in {intents, Stored(a)}
    /\ att' = [att EXCEPT ![a].tries = @ + 1,
                          ![a].pc = IF att[a].tries < MaxRetry THEN "dispatch" ELSE "fallback"]
    /\ UNCHANGED <<responses, signals, terminations, owner, worker, conn>>

\* TakeResponse without the correlation id.
TakeAnyResponse(a) ==
    /\ att[a].pc = "waiting"
    /\ \E r \in responses :
         /\ responses' = responses \ {r}
         /\ att' = [att EXCEPT ![a].pc = IF r.accepted THEN "accepted" ELSE "closed",
                               ![a].sid = IF r.accepted THEN r.sid ELSE NoSid]
    /\ UNCHANGED <<intents, signals, terminations, next_id>>
    /\ UNCHANGED <<owner, worker, conn>>

TakeResponse(a) ==
    /\ att[a].pc = "waiting"
    /\ \E r \in responses :
         /\ r.id = att[a].receipt
         /\ responses' = responses \ {r}
         /\ att' = [att EXCEPT ![a].pc = IF r.accepted THEN "accepted" ELSE "closed",
                               ![a].sid = IF r.accepted THEN r.sid ELSE NoSid]
    /\ UNCHANGED <<intents, signals, terminations, next_id>>
    /\ UNCHANGED <<owner, worker, conn>>

\* No response in time: the intent stays in the mailbox.
TimeOut(a) ==
    /\ att[a].pc = "waiting"
    /\ Goto(a, "fallback")
    /\ UNCHANGED <<mailbox, owner, worker, conn>>

\* A failed or unanswered relay ends in a local join, or in a refused reconnect.
FallBack(a) ==
    /\ att[a].pc = "fallback"
    /\ Goto(a, IF att[a].requested = NoSid THEN "local" ELSE "closed")
    /\ UNCHANGED <<mailbox, owner, worker, conn>>

-----------------------------------------------------------------------------
(* run_non_local_relay_accepted_socket_loop *)

Register(a) ==
    /\ att[a].pc = "accepted"
    /\ \/ Goto(a, "loop") /\ conn' = a
       \/ Goto(a, "closed") /\ UNCHANGED conn       \* sending the response fails
    /\ UNCHANGED <<mailbox, owner, worker>>

\* The client's Leave is relayed like any request; the dispatch may fail.
Leave(a) ==
    /\ att[a].pc = "loop"
    /\ \/ /\ signals' = Append(signals, a)
          /\ att' = [att EXCEPT ![a].pc = "leaving", ![a].leave = TRUE]
       \/ /\ att' = [att EXCEPT ![a].pc = "closing", ![a].leave = TRUE]
          /\ UNCHANGED signals
    /\ UNCHANGED <<intents, responses, terminations, next_id>>
    /\ UNCHANGED <<owner, worker, conn>>

\* The answer to the Leave, or its timeout.
LeaveAnswered(a) ==
    /\ att[a].pc = "leaving"
    /\ Goto(a, "closing")
    /\ UNCHANGED <<mailbox, owner, worker, conn>>

Drop(a) ==
    /\ att[a].pc = "loop"
    /\ Goto(a, "closing")
    /\ UNCHANGED <<mailbox, owner, worker, conn>>

Close(a) ==
    /\ att[a].pc = "closing"
    /\ conn' = IF conn = a THEN NoAttempt ELSE conn
    /\ Goto(a, IF conn = a /\ att[a].leave THEN "grace" ELSE "closed")
    /\ UNCHANGED <<mailbox, owner, worker>>

\* Terminate with the test the wrong way round.
TerminateIfConnected(a) ==
    /\ att[a].pc = "grace"
    /\ Goto(a, "closed")
    /\ terminations' = IF conn # NoAttempt THEN Append(terminations, att[a].sid) ELSE terminations
    /\ UNCHANGED <<intents, responses, signals, next_id>>
    /\ UNCHANGED <<owner, worker, conn>>

\* After NON_LOCAL_TERMINATION_GRACE, unless a connection is registered again.
Terminate(a) ==
    /\ att[a].pc = "grace"
    /\ Goto(a, "closed")
    /\ terminations' = IF conn = NoAttempt THEN Append(terminations, att[a].sid) ELSE terminations
    /\ UNCHANGED <<intents, responses, signals, next_id>>
    /\ UNCHANGED <<owner, worker, conn>>

-----------------------------------------------------------------------------
(* The owner's worker: one pass claims all joins, then terminations, then requests. *)

Idle(phase) == worker.phase = phase /\ worker.job = NoJob

ClaimJoin ==
    /\ Idle("joins") /\ intents # <<>>
    /\ worker' = [worker EXCEPT !.job = [kind |-> "join", intent |-> Head(intents)]]
    /\ intents' = Tail(intents)
    /\ UNCHANGED <<responses, signals, terminations, next_id>>
    /\ UNCHANGED <<owner, att, conn>>

Answer(i, ok, sid) ==
    worker' = [worker EXCEPT !.job =
                 [kind |-> "respond", response |-> [id |-> i.id, accepted |-> ok, sid |-> sid]]]

\* A join with a requested SID resumes that session or is rejected.
ExecuteResume ==
    /\ worker.job.kind = "join" /\ worker.job.intent.sid # NoSid
    /\ LET i == worker.job.intent IN Answer(i, participant = i.sid, i.sid)
    /\ UNCHANGED <<mailbox, owner, att, conn>>

\* A fresh join replaces the entry of the identity; the subscriber offer that follows
\* may fail, which rejects the join and leaves the entry.
ExecuteJoin ==
    /\ worker.job.kind = "join" /\ worker.job.intent.sid = NoSid
    /\ next_sid < MaxSid
    /\ next_sid' = next_sid + 1
    /\ participant' = next_sid'
    /\ created_for' = [created_for EXCEPT ![next_sid'] = worker.job.intent.attempt]
    /\ \E ok \in BOOLEAN : Answer(worker.job.intent, ok, next_sid')
    /\ UNCHANGED <<mailbox, att, conn>>

StoreResponse ==
    /\ worker.job.kind = "respond"
    /\ responses' = responses \cup {worker.job.response}
    /\ worker' = [worker EXCEPT !.job = NoJob]
    /\ UNCHANGED <<intents, signals, terminations, next_id>>
    /\ UNCHANGED <<owner, att, conn>>

\* ClaimTermination without the SID comparison.
ClaimAnyTermination ==
    /\ Idle("terminations") /\ terminations # <<>>
    /\ terminations' = Tail(terminations)
    /\ worker' = [worker EXCEPT !.job = [kind |-> "terminate", sid |-> Head(terminations)]]
    /\ UNCHANGED <<intents, responses, signals, next_id>>
    /\ UNCHANGED <<owner, att, conn>>

\* execute_termination reads the entry, compares the SID, and removes in a second call.
ClaimTermination ==
    /\ Idle("terminations") /\ terminations # <<>>
    /\ terminations' = Tail(terminations)
    /\ worker' = [worker EXCEPT !.job = IF participant = Head(terminations)
                                        THEN [kind |-> "terminate", sid |-> Head(terminations)]
                                        ELSE NoJob]
    /\ UNCHANGED <<intents, responses, signals, next_id>>
    /\ UNCHANGED <<owner, att, conn>>

ExecuteTermination ==
    /\ worker.job.kind = "terminate"
    /\ participant' = NoSid
    /\ worker' = [worker EXCEPT !.job = NoJob]
    /\ UNCHANGED <<mailbox, next_sid, created_for, att, conn>>

\* A relayed Leave runs the identity's cleanup, whatever session it has now.
ExecuteLeave ==
    /\ Idle("signals") /\ signals # <<>>
    /\ signals' = Tail(signals)
    /\ participant' = NoSid
    /\ UNCHANGED <<intents, responses, terminations, next_id>>
    /\ UNCHANGED <<next_sid, created_for, worker, att, conn>>

NextLoop ==
    \/ /\ Idle("joins") /\ intents = <<>> /\ worker' = [worker EXCEPT !.phase = "terminations"]
       /\ UNCHANGED <<mailbox, owner, att, conn>>
    \/ /\ Idle("terminations") /\ terminations = <<>>
       /\ worker' = [worker EXCEPT !.phase = "signals"]
       /\ UNCHANGED <<mailbox, owner, att, conn>>
    \/ /\ Idle("signals") /\ signals = <<>> /\ worker' = [worker EXCEPT !.phase = "joins"]
       /\ UNCHANGED <<mailbox, owner, att, conn>>

\* The identity joins at the owner itself, replacing the session it has there.
OwnerClientJoins ==
    /\ Cardinality({i \in 1..next_sid : created_for[i] = NoAttempt}) < MaxOwnerJoins
    /\ next_sid < MaxSid
    /\ next_sid' = next_sid + 1
    /\ participant' = next_sid'
    /\ UNCHANGED <<mailbox, created_for, worker, att, conn>>

-----------------------------------------------------------------------------
Init ==
    /\ intents = <<>> /\ responses = {} /\ signals = <<>> /\ terminations = <<>>
    /\ next_id = 0
    /\ participant = NoSid /\ next_sid = 0
    /\ worker = [phase |-> "joins", job |-> NoJob]
    /\ att = [a \in Attempt |-> [pc |-> "idle", requested |-> NoSid, tries |-> 0, receipt |-> 0,
                                 sid |-> NoSid, leave |-> FALSE]]
    /\ conn = NoAttempt
    /\ created_for = [i \in Sid |-> NoAttempt]

OriginStep(a) ==
    \/ Dispatch(a) \/ DispatchFails(a) \/ TakeResponse(a) \/ TimeOut(a) \/ FallBack(a)
    \/ Register(a) \/ LeaveAnswered(a) \/ Close(a) \/ Terminate(a)

WorkerStep ==
    \/ ClaimJoin \/ ExecuteResume \/ ExecuteJoin \/ StoreResponse
    \/ ClaimTermination \/ ExecuteTermination \/ ExecuteLeave \/ NextLoop

ClientStep(a) ==
    \/ \E sid \in 0..next_sid : Start(a, sid)
    \/ Leave(a) \/ Drop(a)

Next ==
    \/ \E a \in Attempt : OriginStep(a) \/ ClientStep(a)
    \/ WorkerStep \/ OwnerClientJoins

Spec == Init /\ [][Next]_vars

\* Both nodes keep running their tasks: the origin's tasks end their waits, the worker
\* ticks for ever.
Fairness == WF_vars(WorkerStep) /\ \A a \in Attempt : WF_vars(OriginStep(a))

FairSpec == Spec /\ Fairness

-----------------------------------------------------------------------------
(* Properties *)

Point == {"idle", "dispatch", "waiting", "fallback", "local", "accepted", "loop", "leaving",
          "closing", "grace", "closed"}

\* Mailbox entries, worker jobs and connections keep their shape, and an attempt makes
\* no more than its allowed number of dispatches.
TypeOK ==
    /\ intents \in Seq([id : Nat, attempt : Attempt, sid : 0..MaxSid])
    /\ \A r \in responses : r.id \in 1..next_id /\ r.accepted \in BOOLEAN /\ r.sid \in Sid
    /\ signals \in Seq(Attempt) /\ terminations \in Seq(Sid)
    /\ participant \in 0..MaxSid /\ next_sid \in 0..MaxSid
    /\ att \in [Attempt -> [pc : Point, requested : 0..MaxSid, tries : 0..(MaxRetry + 1),
                            receipt : 0..next_id, sid : 0..MaxSid, leave : BOOLEAN]]
    /\ conn \in Attempt \cup {NoAttempt}

\* A client is only given a session that was created for its own join, or the one it
\* asked to resume: responses are matched with the intent they answer, across
\* retries, timeouts and late executions.
AcceptedIsOwn ==
    \A a \in Attempt : att[a].sid # NoSid =>
        created_for[att[a].sid] = a \/ att[a].requested = att[a].sid

\* "The owner uses this to avoid removing a newer rejoin with the same identity": what
\* a termination removes is never a later session that was relayed.  (A session of a
\* client of the owner itself may begin between the comparison and the removal.)
TerminationSparesRejoin ==
    [][worker.job.kind = "terminate" /\ worker'.job = NoJob /\ participant # NoSid
         => participant = worker.job.sid \/ created_for[participant] = NoAttempt]_vars

\* A client that leaves the session it is registered for is out of the room at the owner
\* in the end, even when relaying the Leave failed, unless the identity has a
\* connection again.
LeaveEventuallyGone ==
    \A a \in Attempt :
        att[a].pc \in {"leaving", "grace"}
          ~> (participant # att[a].sid \/ conn \notin {a, NoAttempt})
=============================================================================
