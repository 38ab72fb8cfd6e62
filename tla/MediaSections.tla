--------------------------- MODULE MediaSections ---------------------------
(***************************************************************************)
(* The receive sections of one single-PC subscriber.                       *)
(*                                                                         *)
(* A v1 client has one peer connection, and it is the client that offers   *)
(* on it.  To forward a track the server therefore asks the client, with a *)
(* MediaSectionsRequirement, for a number of receive sections; the client  *)
(* adds them and offers, and the server attaches pending tracks to the     *)
(* offered sections while it makes its answer.  The four sets of           *)
(* PendingMediaSectionRequestStore (stores/media.rs), each under a mutex   *)
(* of its own, coordinate the publishers' tasks that make tracks pending,  *)
(* the subscriber's socket that answers its offers, and the tasks that the *)
(* socket spawns after an answer.  One media kind is modelled: the store   *)
(* never mixes the two.  Every track has a publisher of its own, which     *)
(* publishes it once and may disconnect.                                   *)
(***************************************************************************)
EXTENDS Naturals, Sequences, FiniteSets, FiniteSetsExt

CONSTANTS
    Track,         \* the tracks of the other participants
    After,         \* the tasks that may be spawned after an answer
    Socket,        \* the subscriber's socket task
    NoTrack,       \* no track
    MaxSection,    \* bound: sections the client ever adds
    MaxOwn,        \* bound: sections the client turns to its own publishing
    NewestFirst,   \* a client without trickle ICE takes the newest section
    Leavers,       \* bound: the tracks whose publishers may disconnect
    Regimes        \* the regimes that behaviours explore

ASSUME SectionsAssumption ==
    /\ MaxSection \in Nat
    /\ MaxOwn \in Nat
    /\ NewestFirst \in BOOLEAN
    /\ Leavers \subseteq Track
    /\ Regimes \subseteq {"serial", "departures", "takeovers", "any"}
    /\ Socket \notin Track \cup After
    /\ NoTrack \notin Track
    /\ Track \cap After = {}

VARIABLES
    regime,        \* chosen at the start: server tasks run one after the other;
                   \* they overlap, with departures; they overlap, with a client
                   \* that publishes itself; or all of it at once
    published,     \* tracks listed in the room
    keys,          \* the store's keys: tracks waiting for a section
    requested,     \* its requested_keys
    negotiating,   \* the subscriber is in negotiating_subscribers
    coalesced,     \* the subscriber is in coalesced_renegotiations
    marked,        \* media_forwarding
    mid,           \* forward_tracks: the section each track is sent on, 0: none
    task,          \* the publishers', socket's and after-answer tasks
    handler,       \* the socket's progress through answer_publisher_offer
    wire,          \* MediaSectionsRequirements on their way to the client
    client         \* the client's sections and its offer

store == <<keys, requested, negotiating, coalesced>>
media == <<regime, published, marked, mid>>
vars == <<store, media, task, handler, wire, client>>

Section == 1..MaxSection
Proc == Track \cup After \cup {Socket}
Ensuring == {"check", "insert", "begin"}
Signalling == {"snapshot", "mark"}
Leaving == {"drop", "claim", "coalesce", "unlist",
            "orphans", "reclaim", "recoalesce"}
Answering == {"reclaim", "attach", "insert", "ensure",
              "spawn", "test", "clear", "uncoalesce", "unrequest"}

\* Every set, flag, task and message has its type, and nothing is forwarded
\* on a section that the client never added.
TypeOK ==
    /\ regime \in Regimes
    /\ published \subseteq Track
    /\ keys \subseteq Track
    /\ requested \subseteq Track
    /\ negotiating \in BOOLEAN
    /\ coalesced \in BOOLEAN
    /\ marked \subseteq Track
    /\ mid \in [Track -> 0..client.sections]
    /\ task \in [Proc ->
           [pc : {"new", "idle", "gone", "take"} \cup Ensuring \cup Signalling
                     \cup Leaving,
            track : Track \cup {NoTrack}, had : BOOLEAN,
            snap : SUBSET Track]]
    /\ handler \in [pc : {"idle"} \cup Answering, avail : SUBSET Section,
                    own : SUBSET Section, todo : SUBSET Track,
                    track : Track \cup {NoTrack}, section : 0..MaxSection]
    /\ wire \in Seq(0..Cardinality(Track))
    /\ client \in [sections : 0..MaxSection, own : SUBSET Section,
                   wants : BOOLEAN, waiting : BOOLEAN]

Rest(pc) == [pc |-> pc, track |-> NoTrack, had |-> FALSE, snap |-> {}]
HandlerRest == [pc |-> "idle", avail |-> {}, own |-> {}, todo |-> {},
                track |-> NoTrack, section |-> 0]

Init ==
    /\ regime \in Regimes
    /\ published = {}
    /\ keys = {}
    /\ requested = {}
    /\ negotiating = FALSE
    /\ coalesced = FALSE
    /\ marked = {}
    /\ mid = [t \in Track |-> 0]
    /\ task = [p \in Proc |-> Rest(IF p \in Track THEN "new" ELSE "idle")]
    /\ handler = HandlerRest
    /\ wire = <<>>
    /\ client = [sections |-> 0, own |-> {}, wants |-> FALSE, waiting |-> FALSE]

Resting(p) == task[p].pc \in {"new", "idle", "gone"}

\* In the serial regime a task runs to its end before another one starts, and the
\* task an answer spawns runs when the socket has sent that answer.
MayRun(p) ==
    regime = "serial" =>
        IF p = Socket
        THEN \A q \in Proc \ {p} : Resting(q) \/ q \in After
        ELSE (\A q \in Proc \ {p} : Resting(q)) /\ handler.pc = "idle"

GoTo(p, pc) == task' = [task EXCEPT ![p].pc = pc]
Finish(p) == task' = [task EXCEPT ![p] = Rest("idle")]

-----------------------------------------------------------------------------
(* PendingMediaSectionRequestStore::remove.  A removed track that was not  *)
(* itself requested has used a section requested for another one, whose    *)
(* marker is released.  The result is a set of <<keys, requested>>: which  *)
(* marker goes is the hash set's choice.                                   *)

\* mutant: no marker is released for the section another track used
RemovalsKeepMarkers(ks, rq, t) == {<<ks \ {t}, rq \ {t}>>}

Removals(ks, rq, t) ==
    LET left == ks \ {t}
    IN  IF t \in rq \/ t \notin ks \/ rq \cap left = {}
        THEN {<<left, rq \ {t}>>}
        ELSE {<<left, rq \ {r}>> : r \in rq \cap left}

Remove(t) == \E kr \in Removals(keys, requested, t) :
                 keys' = kr[1] /\ requested' = kr[2]

(* A publisher publishes: ensure_subscriber_forwarding_for_track follows.  *)
Publish(t) ==
    /\ task[t].pc = "new"
    /\ MayRun(t)
    /\ published' = published \cup {t}
    /\ task' = [task EXCEPT ![t].pc = "check", ![t].track = t]
    /\ UNCHANGED <<regime, store, marked, mid, handler, wire, client>>

(* ensure_subscriber_forwarding_for_track for the subscriber, one action   *)
(* per store call: is the track forwarded, is anything pending; make it    *)
(* pending; claim the negotiation.                                         *)
CheckPending(p) ==
    /\ task[p].pc = "check" /\ p \notin After
    /\ MayRun(p)
    /\ IF task[p].track \in marked
       THEN Finish(p)
       ELSE task' = [task EXCEPT ![p].pc = "insert", ![p].had = keys # {}]
    /\ UNCHANGED <<store, media, handler, wire, client>>

InsertOnce(p) ==
    /\ task[p].pc = "insert"
    /\ MayRun(p)
    /\ keys' = keys \cup {task[p].track}
    /\ IF task[p].track \notin keys /\ ~task[p].had
       THEN GoTo(p, "begin")
       ELSE Finish(p)
    /\ UNCHANGED <<requested, negotiating, coalesced, media, handler, wire, client>>

BeginNegotiation(p) ==
    /\ task[p].pc = "begin"
    /\ MayRun(p)
    /\ negotiating' = TRUE
    /\ IF negotiating THEN Finish(p) ELSE GoTo(p, "snapshot")
    /\ UNCHANGED <<keys, requested, coalesced, media, handler, wire, client>>

(* signal_pending_media_section_requirement: take_unrequested_counts reads *)
(* the pending tracks under one lock and marks them under another.         *)
Snapshot(p) ==
    /\ task[p].pc = "snapshot"
    /\ MayRun(p)
    /\ task' = [task EXCEPT ![p].pc = "mark", ![p].snap = keys]
    /\ UNCHANGED <<store, media, handler, wire, client>>

MarkRequested(p) ==
    /\ task[p].pc = "mark"
    /\ MayRun(p)
    /\ requested' = requested \cup task[p].snap
    /\ LET new == task[p].snap \ requested
       IN  wire' = IF new = {} THEN wire ELSE Append(wire, Cardinality(new))
    /\ Finish(p)
    /\ UNCHANGED <<keys, negotiating, coalesced, media, handler, client>>

-----------------------------------------------------------------------------
(* unpublish_participant_tracks_for_reconnect_grace: the publisher's       *)
(* socket closed.  The track's forwarding is dropped, the subscriber is    *)
(* asked to renegotiate, the track leaves the room, and what was attached  *)
(* meanwhile is dropped as an orphan.                                      *)

Leave(t) ==
    /\ regime # "takeovers" /\ t \in Leavers
    /\ task[t].pc = "idle"
    /\ MayRun(t)
    /\ GoTo(t, "drop")
    /\ UNCHANGED <<store, media, handler, wire, client>>

DropForwarding(t) ==
    /\ task[t].pc = "drop"
    /\ MayRun(t)
    /\ marked' = marked \ {t}
    /\ mid' = [mid EXCEPT ![t] = 0]
    /\ Remove(t)
    /\ GoTo(t, IF mid[t] = 0 THEN "unlist" ELSE "claim")
    /\ UNCHANGED <<regime, published, negotiating, coalesced, handler, wire, client>>

(* request_renegotiation_if_idle: claim, or release the first lock and     *)
(* record the follow-up under the second.                                  *)
ClaimRemoval(t) ==
    /\ task[t].pc \in {"claim", "reclaim"}
    /\ MayRun(t)
    /\ LET again == task[t].pc = "reclaim" IN
       IF negotiating
       THEN /\ GoTo(t, IF again THEN "recoalesce" ELSE "coalesce")
            /\ UNCHANGED wire
       ELSE /\ GoTo(t, IF again THEN "gone" ELSE "unlist")
            /\ wire' = Append(wire, 0)
    /\ negotiating' = TRUE
    /\ UNCHANGED <<keys, requested, coalesced, media, handler, client>>

CoalesceRemoval(t) ==
    /\ task[t].pc \in {"coalesce", "recoalesce"}
    /\ MayRun(t)
    /\ coalesced' = TRUE
    /\ GoTo(t, IF task[t].pc = "recoalesce" THEN "gone" ELSE "unlist")
    /\ UNCHANGED <<keys, requested, negotiating, media, handler, wire, client>>

Unlist(t) ==
    /\ task[t].pc = "unlist"
    /\ MayRun(t)
    /\ published' = published \ {t}
    /\ GoTo(t, "orphans")
    /\ UNCHANGED <<regime, store, marked, mid, handler, wire, client>>

RemoveOrphans(t) ==
    /\ task[t].pc = "orphans"
    /\ MayRun(t)
    /\ mid' = [mid EXCEPT ![t] = 0]
    /\ marked' = IF mid[t] = 0 THEN marked ELSE marked \ {t}
    /\ GoTo(t, IF mid[t] = 0 THEN "gone" ELSE "reclaim")
    /\ UNCHANGED <<regime, published, store, handler, wire, client>>

-----------------------------------------------------------------------------
(* The client: it adds the sections it is asked for, may turn a section    *)
(* that carries a track to its own publishing, and has one offer           *)
(* outstanding.                                                            *)

ReceiveRequirement ==
    /\ wire # <<>>
    /\ client' = [client EXCEPT !.wants = TRUE,
                      !.sections = Min({@ + Head(wire), MaxSection})]
    /\ wire' = Tail(wire)
    /\ UNCHANGED <<store, media, task, handler>>

PublishOwn(s) ==
    /\ regime # "departures"
    /\ s \in {mid[t] : t \in Track} \ (client.own \cup {0})
    /\ Cardinality(client.own) < MaxOwn
    /\ client' = [client EXCEPT !.wants = TRUE, !.own = @ \cup {s}]
    /\ UNCHANGED <<store, media, task, handler, wire>>

\* mutant: one section more than the client offered
OfferAhead ==
    /\ client.wants /\ ~client.waiting
    /\ handler.pc = "idle"
    /\ client' = [client EXCEPT !.wants = FALSE, !.waiting = TRUE]
    /\ handler' = [HandlerRest EXCEPT !.pc = "reclaim",
                       !.avail = 1..(client.sections + 1) \ client.own,
                       !.own = client.own]
    /\ UNCHANGED <<store, media, task, wire>>

\* mutant: the sections the client publishes on are offered to tracks too
OfferAll ==
    /\ client.wants /\ ~client.waiting
    /\ handler.pc = "idle"
    /\ client' = [client EXCEPT !.wants = FALSE, !.waiting = TRUE]
    /\ handler' = [HandlerRest EXCEPT !.pc = "reclaim",
                       !.avail = {s \in Section : s <= client.sections},
                       !.own = client.own]
    /\ UNCHANGED <<store, media, task, wire>>

(* The offer reaches answer_publisher_offer, which classifies its sections *)
Offer ==
    /\ client.wants /\ ~client.waiting
    /\ handler.pc = "idle"
    /\ regime = "serial" => \A q \in Proc : Resting(q)
    /\ client' = [client EXCEPT !.wants = FALSE, !.waiting = TRUE]
    /\ handler' = [HandlerRest EXCEPT !.pc = "reclaim",
                       !.avail = {s \in Section : s <= client.sections} \ client.own,
                       !.own = client.own]
    /\ UNCHANGED <<store, media, task, wire>>

-----------------------------------------------------------------------------
(* answer_publisher_offer *)

HandlerAt(pc) == handler.pc = pc /\ MayRun(Socket)

\* mutant: the sections the client publishes on are not reclaimed
ReclaimNothing ==
    /\ HandlerAt("reclaim")
    /\ handler' = [handler EXCEPT !.pc = "attach", !.todo = published]
    /\ UNCHANGED <<store, media, task, wire, client>>

(* reclaim_single_pc_forwarding_on_publisher_mids, a track at a time *)
ReclaimOwn ==
    /\ HandlerAt("reclaim")
    /\ \/ /\ \A t \in Track : mid[t] \notin handler.own
          /\ handler' = [handler EXCEPT !.pc = "attach", !.todo = published]
          /\ UNCHANGED <<keys, requested, marked, mid>>
       \/ \E t \in Track : \E kr \in Removals(keys, requested, t) :
          /\ mid[t] \in handler.own
          /\ mid' = [mid EXCEPT ![t] = 0]
          /\ marked' = marked \ {t}
          /\ keys' = kr[1] \cup ({t} \cap published)
          /\ requested' = kr[2]
          /\ UNCHANGED handler
    /\ UNCHANGED <<regime, published, negotiating, coalesced, task, wire, client>>

(* attach_receive_section_forwarding_to_single_pc: the section a track     *)
(* gets, 0 when there is none for it.                                      *)
ChosenSection(t) ==
    IF mid[t] \in handler.avail THEN mid[t]
    ELSE IF handler.avail = {} \/ t \notin keys THEN 0
    ELSE IF NewestFirst THEN Max(handler.avail) ELSE Min(handler.avail)

\* no section, or nothing to attach
SkipTrack(t) ==
    /\ HandlerAt("attach") /\ t \in handler.todo
    /\ ChosenSection(t) = 0
    /\ handler' = [handler EXCEPT !.todo = @ \ {t}]
    /\ UNCHANGED <<store, media, task, wire, client>>

\* remove_subscriber_mid: the tracks forwarded on a section
Occupants(s) == {r \in Track : mid[r] = s}

(* The section is consumed, the track it carried reclaimed and made        *)
(* pending again, and the new track marked before the awaited attachment.  *)
TakeSection(t) ==
    /\ HandlerAt("attach") /\ t \in handler.todo
    /\ LET s == ChosenSection(t)
           olds == Occupants(s)
           again == (olds \ {t}) \cap published
           left == marked \ olds
       IN  /\ s # 0
           /\ \E kr \in IF olds = {} THEN {<<keys, requested>>}
                        ELSE Removals(keys, requested, CHOOSE r \in olds : TRUE) :
              LET ks == kr[1] \cup again IN
              IF t \in left
              THEN /\ handler' = [handler EXCEPT !.todo = @ \ {t}, !.avail = @ \ {s}]
                   /\ marked' = left
                   /\ \E kr2 \in Removals(ks, kr[2], t) :
                          keys' = kr2[1] /\ requested' = kr2[2]
              ELSE /\ handler' = [handler EXCEPT !.pc = "insert", !.track = t,
                             !.section = s, !.todo = @ \ {t}, !.avail = @ \ {s}]
                   /\ marked' = left \cup {t}
                   /\ keys' = ks /\ requested' = kr[2]
           /\ mid' = [r \in Track |-> IF r \in olds THEN 0 ELSE mid[r]]
    /\ UNCHANGED <<regime, published, negotiating, coalesced, task, wire, client>>

\* mutant: the track goes to the oldest section instead of the chosen one
AttachToOldest ==
    /\ HandlerAt("insert")
    /\ mid' = [mid EXCEPT ![handler.track] = 1]
    /\ Remove(handler.track)
    /\ handler' = [handler EXCEPT !.pc = "attach", !.track = NoTrack, !.section = 0]
    /\ UNCHANGED <<regime, published, marked, negotiating, coalesced, task, wire, client>>

AttachTrack ==
    /\ HandlerAt("insert")
    /\ mid' = [mid EXCEPT ![handler.track] = handler.section]
    /\ Remove(handler.track)
    /\ handler' = [handler EXCEPT !.pc = "attach", !.track = NoTrack, !.section = 0]
    /\ UNCHANGED <<regime, published, marked, negotiating, coalesced, task, wire, client>>

EndAttach ==
    /\ HandlerAt("attach") /\ handler.todo = {}
    /\ handler' = [handler EXCEPT !.pc = "ensure", !.todo = published]
    /\ UNCHANGED <<store, media, task, wire, client>>

(* ensure_existing_media_forwarding_for_subscriber *)
EnsureExisting ==
    /\ HandlerAt("ensure") /\ Resting(Socket)
    /\ \/ /\ handler.todo = {}
          /\ handler' = [handler EXCEPT !.pc = "spawn"]
          /\ UNCHANGED task
       \/ \E t \in handler.todo :
          /\ handler' = [handler EXCEPT !.todo = @ \ {t}]
          /\ task' = [task EXCEPT ![Socket].pc = "check", ![Socket].track = t]
    /\ UNCHANGED <<store, media, wire, client>>

(* schedule_pending_media_section_requirement_after_answer *)
SpawnAfter(a) ==
    /\ HandlerAt("spawn") /\ Resting(a)
    /\ task' = [task EXCEPT ![a].pc = "check"]
    /\ handler' = [handler EXCEPT !.pc = "test"]
    /\ UNCHANGED <<store, media, wire, client>>

CheckAfter(a) ==
    /\ task[a].pc = "check"
    /\ MayRun(a)
    /\ task' = [task EXCEPT ![a].pc = "take", ![a].had = keys # {}]
    /\ UNCHANGED <<store, media, handler, wire, client>>

TakeCoalesced(a) ==
    /\ task[a].pc = "take"
    /\ MayRun(a)
    /\ coalesced' = FALSE
    /\ IF task[a].had THEN GoTo(a, "snapshot") ELSE Finish(a)
    /\ wire' = IF coalesced /\ ~task[a].had THEN Append(wire, 0) ELSE wire
    /\ UNCHANGED <<keys, requested, negotiating, media, handler, client>>

(* clear_negotiation_if_no_pending: the test, then a lock for each set;    *)
(* then the answer goes out.                                               *)
Answered ==
    /\ handler' = HandlerRest
    /\ client' = [client EXCEPT !.waiting = FALSE]

TestPending ==
    /\ HandlerAt("test")
    /\ IF keys # {} \/ coalesced
       THEN Answered
       ELSE handler' = [handler EXCEPT !.pc = "clear"] /\ UNCHANGED client
    /\ UNCHANGED <<store, media, task, wire>>

ClearNegotiating ==
    /\ HandlerAt("clear")
    /\ negotiating' = FALSE
    /\ handler' = [handler EXCEPT !.pc = "uncoalesce"]
    /\ UNCHANGED <<keys, requested, coalesced, media, task, wire, client>>

ClearCoalesced ==
    /\ HandlerAt("uncoalesce")
    /\ coalesced' = FALSE
    /\ handler' = [handler EXCEPT !.pc = "unrequest"]
    /\ UNCHANGED <<keys, requested, negotiating, media, task, wire, client>>

ClearRequested ==
    /\ HandlerAt("unrequest")
    /\ requested' = {}
    /\ Answered
    /\ UNCHANGED <<keys, negotiating, coalesced, media, task, wire>>

-----------------------------------------------------------------------------
TaskStep(p) ==
    \/ CheckPending(p) \/ InsertOnce(p) \/ BeginNegotiation(p)
    \/ Snapshot(p) \/ MarkRequested(p)

LeaveStep(t) ==
    \/ DropForwarding(t) \/ ClaimRemoval(t) \/ CoalesceRemoval(t)
    \/ Unlist(t) \/ RemoveOrphans(t)

AttachStep ==
    \/ ReclaimOwn
    \/ \E t \in Track : SkipTrack(t) \/ TakeSection(t)
    \/ AttachTrack \/ EndAttach

AnswerStep ==
    \/ EnsureExisting
    \/ \E a \in After : SpawnAfter(a)
    \/ TestPending \/ ClearNegotiating \/ ClearCoalesced \/ ClearRequested

Next ==
    \/ \E t \in Track : Publish(t) \/ Leave(t) \/ LeaveStep(t)
    \/ \E p \in Proc : TaskStep(p)
    \/ \E a \in After : CheckAfter(a) \/ TakeCoalesced(a)
    \/ ReceiveRequirement
    \/ \E s \in Section : PublishOwn(s)
    \/ Offer
    \/ AttachStep
    \/ AnswerStep

Spec == Init /\ [][Next]_vars

(* Tasks that are runnable run, requirements reach the client, and a       *)
(* client that wants to offer does.                                        *)
Fairness ==
    /\ \A p \in Proc : WF_vars(TaskStep(p))
    /\ \A t \in Track : WF_vars(LeaveStep(t))
    /\ \A a \in After : WF_vars(CheckAfter(a) \/ TakeCoalesced(a))
    /\ WF_vars(ReceiveRequirement)
    /\ SF_vars(Offer)
    /\ WF_vars(AttachStep)
    /\ WF_vars(AnswerStep)

FairSpec == Spec /\ Fairness
-----------------------------------------------------------------------------
\* However offers, reclaims and departures interleave, a section of the
\* subscriber's connection carries at most one forwarded track
\* (remove_subscriber_mid before every attachment).
MidsAreExclusive ==
    \A t, u \in Track : t # u /\ mid[t] # 0 => mid[t] # mid[u]

\* A section the client has turned to its own publishing carries no
\* forwarded track once the offer that says so has been reclaimed for.
OwnIsNotForwarded ==
    \A t \in Track : mid[t] \in client.own =>
        client.wants \/ handler.pc = "reclaim"

\* What makes the two invariants above inductive.  The socket offers tracks
\* only sections the client does not publish on; the section it is about to
\* attach a track to has been emptied; and while it works on an offer, what
\* the client publishes on is what that offer says, or another offer follows.
SectionInv ==
    /\ mid = [t \in Track |-> mid[t]]
    /\ handler = [pc |-> handler.pc, avail |-> handler.avail, own |-> handler.own,
                  todo |-> handler.todo, track |-> handler.track,
                  section |-> handler.section]
    /\ client = [sections |-> client.sections, own |-> client.own,
                 wants |-> client.wants, waiting |-> client.waiting]
    /\ 0 \notin client.own
    /\ handler.avail \subseteq Section
    /\ handler.avail \cap handler.own = {}
    /\ handler.pc # "idle" /\ ~client.wants => client.own \subseteq handler.own
    /\ handler.pc = "insert" =>
           /\ handler.section \in Section \ handler.own
           /\ \A t \in Track : mid[t] # handler.section
    /\ MidsAreExclusive
    /\ OwnIsNotForwarded

\* When server tasks do not overlap, every track that stays published is in
\* the end attached to a section and stays attached, through sections taken
\* by other tracks, reclaimed for the client's own publishing, and departures.
PublishedIsForwarded ==
    \A t \in Track : <>[](regime = "serial" /\ t \in published => mid[t] # 0)
=============================================================================
