-------------------------- MODULE SubscriberOffers --------------------------
(***************************************************************************)
(* Server offers on a subscriber's peer connection (oxidesfu-signaling,      *)
(* stores/media.rs, router/session.rs and the Answer branch of               *)
(* signal_request.rs).  Tasks that attach tracks ask for an offer; the       *)
(* SubscriberOfferNegotiationStore lets one of them create it and folds the  *)
(* others into a follow-up when the answer has been applied.  Offers are     *)
(* numbered by the SubscriberOfferIdStore.  The peer connection itself is    *)
(* external: it is modelled by its signalling state.                         *)
(***************************************************************************)
EXTENDS Integers, Sequences, FiniteSets

CONSTANTS
    Track,
    Task,           \* tasks that attach tracks
    Handler         \* the subscriber's socket task, which handles answers

ASSUME HandlerAssumption == Handler \notin Task

VARIABLES
    attached,       \* tracks with a sender on the peer connection
    offered,        \* tracks of the last local offer
    negotiated,     \* tracks of the last offer that was answered
    signaling,      \* "stable" or "have-local-offer"
    entry,          \* the negotiation store's entry: [state, id, pending]
    offer_id,       \* the last offer id handed out
    wire,           \* ids of the offers sent and not answered yet
    pc,             \* process -> what it is doing
    expected,       \* the offer id the handler read when the answer arrived
    creation        \* history: "failed" once creating an offer has failed

vars == <<attached, offered, negotiated, signaling, entry, offer_id, wire, pc, expected, creation>>

Process == Task \cup {Handler}
NoEntry == [state |-> "none", id |-> 0, pending |-> FALSE]

\* After create_subscriber_offer: the initial offer is on its way.
Init ==
    /\ attached = {} /\ offered = {} /\ negotiated = {}
    /\ signaling = "have-local-offer"
    /\ entry = [state |-> "InFlight", id |-> 1, pending |-> FALSE]
    /\ offer_id = 1
    /\ wire = <<1>>
    /\ pc = [p \in Process |-> "idle"]
    /\ expected = 0
    /\ creation = "ok"

Goto(p, l) == pc' = [pc EXCEPT ![p] = l]

Attach(t, k) ==
    /\ pc[t] = "idle" /\ k \notin attached
    /\ attached' = attached \cup {k}
    /\ Goto(t, "request")
    /\ UNCHANGED <<offered, negotiated, signaling, entry, offer_id, wire, expected, creation>>

\* request_offer that lets everybody start.
StartAlways(p) ==
    /\ pc[p] = "request"
    /\ entry' = [state |-> "Creating", id |-> 0, pending |-> FALSE]
    /\ Goto(p, "create")
    /\ UNCHANGED <<attached, offered, negotiated, signaling, offer_id, wire, expected, creation>>

\* request_offer that forgets whom it turned away.
CoalesceSilently(p) ==
    /\ pc[p] = "request"
    /\ IF entry.state = "none"
       THEN entry' = [state |-> "Creating", id |-> 0, pending |-> FALSE] /\ Goto(p, "create")
       ELSE UNCHANGED entry /\ Goto(p, "idle")
    /\ UNCHANGED <<attached, offered, negotiated, signaling, offer_id, wire, expected, creation>>

request_offer(p) ==
    /\ pc[p] = "request"
    /\ IF entry.state = "none"
       THEN entry' = [state |-> "Creating", id |-> 0, pending |-> FALSE] /\ Goto(p, "create")
       ELSE entry' = [entry EXCEPT !.pending = TRUE] /\ Goto(p, "idle")
    /\ UNCHANGED <<attached, offered, negotiated, signaling, offer_id, wire, expected, creation>>

\* create_offer also sets the local description: it covers what is attached now.
CreateOffer(p) ==
    /\ pc[p] = "create"
    /\ offered' = attached
    /\ signaling' = "have-local-offer"
    /\ Goto(p, "mark")
    /\ UNCHANGED <<attached, negotiated, entry, offer_id, wire, expected, creation>>

\* abort_offer_creation that leaves the entry behind.
AbortOnly(p) ==
    /\ pc[p] = "create"
    /\ Goto(p, "idle")
    /\ creation' = "failed"
    /\ UNCHANGED <<attached, offered, negotiated, signaling, entry, offer_id, wire, expected>>

abort_offer_creation(p) ==
    /\ pc[p] = "create"
    /\ entry' = IF entry.state = "Creating" THEN NoEntry ELSE entry
    /\ Goto(p, "idle")
    /\ creation' = "failed"
    /\ UNCHANGED <<attached, offered, negotiated, signaling, offer_id, wire, expected>>

\* MarkInFlight that marks the id after the one it sends.
MarkFollowing(p) ==
    /\ pc[p] = "mark"
    /\ offer_id' = offer_id + 1
    /\ entry' = [state |-> "InFlight", id |-> offer_id + 2, pending |-> entry.pending]
    /\ wire' = Append(wire, offer_id + 1)
    /\ Goto(p, "idle")
    /\ UNCHANGED <<attached, offered, negotiated, signaling, expected, creation>>

\* next_offer_id, mark_offer_in_flight and the send.
MarkInFlight(p) ==
    /\ pc[p] = "mark"
    /\ offer_id' = offer_id + 1
    /\ entry' = [state |-> "InFlight", id |-> offer_id + 1, pending |-> entry.pending]
    /\ wire' = Append(wire, offer_id + 1)
    /\ Goto(p, "idle")
    /\ UNCHANGED <<attached, offered, negotiated, signaling, expected, creation>>

\* Answer that takes the id from the client.
AnswerByOwnId(id) ==
    /\ pc[Handler] = "idle" /\ wire # <<>> /\ id \in {0, Head(wire)}
    /\ wire' = Tail(wire)
    /\ expected' = id /\ Goto(Handler, "apply")
    /\ UNCHANGED <<attached, offered, negotiated, signaling, entry, offer_id, creation>>

\* The client's answer to the oldest offer arrives; a client may leave the id out (0).
\* An answer with another id than the current one is ignored.
Answer(id) ==
    /\ pc[Handler] = "idle" /\ wire # <<>> /\ id \in {0, Head(wire)}
    /\ wire' = Tail(wire)
    /\ IF id # 0 /\ id # offer_id THEN UNCHANGED <<pc, expected>>
       ELSE expected' = offer_id /\ Goto(Handler, "apply")
    /\ UNCHANGED <<attached, offered, negotiated, signaling, entry, offer_id, creation>>

\* set_remote_answer; in the stable state the answer is ignored.
ApplyAnswer ==
    /\ pc[Handler] = "apply"
    /\ IF signaling = "stable" THEN Goto(Handler, "idle") /\ UNCHANGED <<negotiated, signaling>>
       ELSE Goto(Handler, "finish") /\ negotiated' = offered /\ signaling' = "stable"
    /\ UNCHANGED <<attached, offered, entry, offer_id, wire, expected, creation>>

finish_answer ==
    /\ pc[Handler] = "finish"
    /\ IF entry.state = "InFlight" /\ entry.id = expected
       THEN entry' = NoEntry /\ Goto(Handler, IF entry.pending THEN "request" ELSE "idle")
       ELSE UNCHANGED entry /\ Goto(Handler, "idle")
    /\ UNCHANGED <<attached, offered, negotiated, signaling, offer_id, wire, expected, creation>>

Step(p) == request_offer(p) \/ CreateOffer(p) \/ abort_offer_creation(p) \/ MarkInFlight(p)
Arrive == \E id \in 0..offer_id : Answer(id)

Next ==
    \/ \E p \in Process : Step(p)
    \/ \E t \in Task, k \in Track : Attach(t, k)
    \/ Arrive \/ ApplyAnswer \/ finish_answer

Spec == Init /\ [][Next]_vars

\* Tasks that started go on, and the client answers the offers it gets.
Fairness ==
    /\ \A p \in Process : WF_vars(Step(p))
    /\ WF_vars(Arrive) /\ WF_vars(ApplyAnswer) /\ WF_vars(finish_answer)

FairSpec == Spec /\ Fairness

-----------------------------------------------------------------------------
(* Properties *)

\* The types; the ids in use have been handed out.
TypeOK ==
    /\ attached \subseteq Track /\ offered \subseteq Track /\ negotiated \subseteq Track
    /\ signaling \in {"stable", "have-local-offer"}
    /\ entry \in [state : {"none", "Creating", "InFlight"}, id : Nat, pending : BOOLEAN]
    /\ offer_id \in Nat \ {0}
    /\ wire \in Seq(Nat)
    /\ pc \in [Process -> {"idle", "request", "create", "mark", "apply", "finish"}]
    /\ \A t \in Task : pc[t] \notin {"apply", "finish"}
    /\ expected \in Nat /\ creation \in {"ok", "failed"}
    /\ entry.id <= offer_id /\ expected <= offer_id

Creators == {p \in Process : pc[p] \in {"create", "mark"}}

\* "a second server offer must be coalesced while [an] offer is outstanding": an offer is
\* only created in the stable state, and by one task at a time.
OneOfferAtATime ==
    /\ \A p \in Process : pc[p] = "create" => signaling = "stable"
    /\ \A p, q \in Creators : p = q

\* "a stale answer must not clear the outstanding offer": what an answer settles is the
\* offer that it answers, so the negotiated tracks are those of an offer the client saw.
AnswersTheOutstanding ==
    pc[Handler] \in {"apply", "finish"} =>
        entry.state = "InFlight" /\ entry.id = expected /\ wire = <<>>

\* As long as creating an offer does not fail, coalescing loses nothing: every track that is
\* attached is negotiated in the end.  (A failure drops the requests folded into the offer.)
AttachedIsNegotiated == \A k \in Track : k \in attached ~> k \in negotiated \/ creation = "failed"

\* What makes the above inductive: the store's entry tells exactly how far the one
\* negotiation under way is.
OfferInv ==
    /\ entry.state = "none" => Creators = {} /\ signaling = "stable" /\ wire = <<>>
    /\ entry.state = "Creating" =>
         /\ Creators # {} /\ wire = <<>>
         /\ \A p \in Creators : (signaling = "stable") <=> (pc[p] = "create")
    /\ entry.state = "InFlight" =>
         /\ Creators = {} /\ entry.id = offer_id
         /\ (signaling = "stable") <=> (pc[Handler] = "finish")
         /\ wire = IF pc[Handler] \in {"apply", "finish"} THEN <<>> ELSE <<offer_id>>
    /\ pc[Handler] \in {"apply", "finish"} => entry.state = "InFlight" /\ expected = offer_id
    /\ OneOfferAtATime
=============================================================================
