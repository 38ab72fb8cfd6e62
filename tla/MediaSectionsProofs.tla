------------------------ MODULE MediaSectionsProofs ------------------------
(***************************************************************************)
(* What the sections of a single-PC subscriber carry, for every number of  *)
(* tracks, sections and tasks.                                             *)
(***************************************************************************)
EXTENDS MediaSections, WellFoundedInduction, TLAPS

\* A non-empty set of natural numbers has a least element.
LEMMA LeastExists ==
    ASSUME NEW S \in SUBSET Nat, S # {} PROVE \E x \in S : \A y \in S : x <= y
<1>1. PICK x \in S : \A y \in S : ~ (<<y, x>> \in OpToRel(<, Nat))
  BY NatLessThanWellFounded, WFMin
<1>2. \A m, n \in Nat : m < n => <<m, n>> \in OpToRel(<, Nat)
  BY DEF OpToRel
<1>3. \A y \in S : x <= y
  <2> SUFFICES ASSUME NEW y \in S, ~(x <= y) PROVE FALSE
    OBVIOUS
  <2>1. x \in Nat /\ y \in Nat /\ y < x
    OBVIOUS
  <2> HIDE DEF OpToRel
  <2> QED
    BY <1>1, <1>2, <2>1
<1> QED
  BY <1>3

\* The oldest and the newest of a non-empty set of sections are in the set.
LEMMA EndsAreMembers ==
    ASSUME NEW S \in SUBSET Section, S # {} PROVE Min(S) \in S /\ Max(S) \in S
<1> USE SectionsAssumption
<1>1. S \in SUBSET Nat
  BY DEF Section
<1>2. PICK low \in S : \A y \in S : low <= y
  BY <1>1, LeastExists
<1>3. Min(S) \in S
  BY <1>2 DEF Min
<1> DEFINE R == {MaxSection - x : x \in S}
<1>4. R \in SUBSET Nat /\ R # {}
  BY DEF Section
<1>5. PICK r \in R : \A y \in R : r <= y
  <2> HIDE DEF R
  <2> QED BY <1>4, LeastExists
<1>6. PICK high \in S : r = MaxSection - high
  BY <1>5
<1>7. \A y \in S : high >= y
  <2> TAKE y \in S
  <2>1. MaxSection - y \in R
    OBVIOUS
  <2>2. MaxSection - high <= MaxSection - y
    BY <1>5, <1>6, <2>1
  <2>3. high \in Nat /\ y \in Nat
    BY <1>1
  <2> QED
    BY <2>2, <2>3
<1>8. Max(S) \in S
  BY <1>7 DEF Max
<1> QED
  BY <1>3, <1>8

\* The section chosen for a track, if any, is one of those still available.
LEMMA ChosenIsAvailable ==
    ASSUME SectionInv, NEW t \in Track, ChosenSection(t) # 0
    PROVE  ChosenSection(t) \in handler.avail
<1>1. handler.avail # {} => Min(handler.avail) \in handler.avail
                            /\ Max(handler.avail) \in handler.avail
  BY EndsAreMembers DEF SectionInv
<1> QED
  BY <1>1 DEF ChosenSection

LEMMA InitSections == Init => SectionInv
BY SectionsAssumption DEF Init, SectionInv, HandlerRest, MidsAreExclusive,
   OwnIsNotForwarded, Section

\* Every action keeps the invariant.
LEMMA StepSections == SectionInv /\ [Next]_vars => SectionInv'
<1> SUFFICES ASSUME SectionInv, [Next]_vars PROVE SectionInv'
  OBVIOUS
<1> USE SectionsAssumption
<1> USE DEF SectionInv, MidsAreExclusive, OwnIsNotForwarded, Section
<1>1. ASSUME UNCHANGED <<mid, handler, client>> PROVE SectionInv'
  BY <1>1
<1>2. CASE UNCHANGED vars
  BY <1>1, <1>2 DEF vars, media
<1>3. ASSUME NEW t \in Track, Publish(t) \/ Leave(t) PROVE SectionInv'
  BY <1>1, <1>3 DEF Publish, Leave, media
<1>4. ASSUME NEW t \in Track, LeaveStep(t) PROVE SectionInv'
  <2>1. CASE DropForwarding(t) \/ RemoveOrphans(t)
    <3>1. /\ mid' = [mid EXCEPT ![t] = 0]
          /\ UNCHANGED <<handler, client>>
      BY <2>1 DEF DropForwarding, RemoveOrphans
    <3> QED
      BY <3>1
  <2>2. CASE ClaimRemoval(t) \/ CoalesceRemoval(t) \/ Unlist(t)
    BY <1>1, <2>2 DEF ClaimRemoval, CoalesceRemoval, Unlist, media
  <2> QED
    BY <1>4, <2>1, <2>2 DEF LeaveStep
<1>5. ASSUME NEW p \in Proc, TaskStep(p) PROVE SectionInv'
  BY <1>1, <1>5 DEF TaskStep, CheckPending, InsertOnce, BeginNegotiation,
     Snapshot, MarkRequested, media
<1>6. ASSUME NEW a \in After, CheckAfter(a) \/ TakeCoalesced(a) PROVE SectionInv'
  BY <1>1, <1>6 DEF CheckAfter, TakeCoalesced, media
<1>7. CASE ReceiveRequirement
  <2>1. /\ client' = [client EXCEPT !.wants = TRUE,
               !.sections = Min({client.sections + Head(wire), MaxSection})]
        /\ UNCHANGED <<mid, handler>>
    BY <1>7 DEF ReceiveRequirement, media
  <2> QED
    BY <2>1
<1>8. ASSUME NEW s \in Section, PublishOwn(s) PROVE SectionInv'
  BY <1>8 DEF PublishOwn, media
<1>9. CASE Offer
  BY <1>9 DEF Offer, media, HandlerRest
<1>10. CASE AttachStep
  <2>1. CASE ReclaimOwn
    <3>1. handler.pc = "reclaim" /\ UNCHANGED client
      BY <2>1 DEF ReclaimOwn, HandlerAt
    <3>2. CASE /\ \A t \in Track : mid[t] \notin handler.own
               /\ handler' = [handler EXCEPT !.pc = "attach", !.todo = published]
               /\ UNCHANGED mid
      BY <3>1, <3>2
    <3>3. CASE \E t \in Track : mid' = [mid EXCEPT ![t] = 0] /\ UNCHANGED handler
      BY <3>1, <3>3
    <3> QED
      BY <2>1, <3>2, <3>3 DEF ReclaimOwn
  <2>2. ASSUME NEW t \in Track, SkipTrack(t) PROVE SectionInv'
    BY <2>2 DEF SkipTrack, HandlerAt, media
  <2>3. ASSUME NEW t \in Track, TakeSection(t) PROVE SectionInv'
    <3> DEFINE s == ChosenSection(t)
    <3>1. s \in handler.avail
      BY <2>3, ChosenIsAvailable DEF TakeSection
    <3>2. /\ mid' = [r \in Track |-> IF mid[r] = s THEN 0 ELSE mid[r]]
          /\ UNCHANGED client
          /\ handler.pc = "attach"
          /\ handler' = [handler EXCEPT !.todo = @ \ {t}, !.avail = @ \ {s}]
             \/ handler' = [handler EXCEPT !.pc = "insert", !.track = t,
                               !.section = s, !.todo = @ \ {t}, !.avail = @ \ {s}]
      BY <2>3 DEF TakeSection, HandlerAt, Occupants
    <3>3. \A r \in Track : mid'[r] = (IF mid[r] = s THEN 0 ELSE mid[r])
      BY <3>2
    <3>4. /\ s \in Section \ handler.own
          /\ \A r \in Track : mid'[r] # s
      BY <3>1, <3>3
    <3> HIDE DEF s
    <3>5. CASE handler' = [handler EXCEPT !.todo = @ \ {t}, !.avail = @ \ {s}]
      BY <3>2, <3>3, <3>5
    <3>6. CASE handler' = [handler EXCEPT !.pc = "insert", !.track = t,
                              !.section = s, !.todo = @ \ {t}, !.avail = @ \ {s}]
      BY <3>2, <3>3, <3>4, <3>6
    <3> QED
      BY <3>2, <3>5, <3>6
  <2>4. CASE AttachTrack
    <3>1. /\ handler.pc = "insert"
          /\ mid' = [mid EXCEPT ![handler.track] = handler.section]
          /\ handler' = [handler EXCEPT !.pc = "attach", !.track = NoTrack, !.section = 0]
          /\ UNCHANGED client
      BY <2>4 DEF AttachTrack, HandlerAt
    <3> QED
      BY <3>1
  <2>5. CASE EndAttach
    BY <2>5 DEF EndAttach, HandlerAt, media
  <2> QED
    BY <1>10, <2>1, <2>2, <2>3, <2>4, <2>5 DEF AttachStep
<1>11. CASE AnswerStep
  <2>1. CASE EnsureExisting
    BY <2>1 DEF EnsureExisting, HandlerAt, media
  <2>2. ASSUME NEW a \in After, SpawnAfter(a) PROVE SectionInv'
    BY <2>2 DEF SpawnAfter, HandlerAt, media
  <2>3. CASE TestPending
    BY <2>3 DEF TestPending, Answered, HandlerRest, HandlerAt, media
  <2>4. CASE ClearNegotiating
    BY <2>4 DEF ClearNegotiating, HandlerAt, media
  <2>5. CASE ClearCoalesced
    BY <2>5 DEF ClearCoalesced, HandlerAt, media
  <2>6. CASE ClearRequested
    BY <2>6 DEF ClearRequested, Answered, HandlerRest, HandlerAt, media
  <2> QED
    BY <1>11, <2>1, <2>2, <2>3, <2>4, <2>5, <2>6 DEF AnswerStep
<1> QED
  BY <1>2, <1>3, <1>4, <1>5, <1>6, <1>7, <1>8, <1>9, <1>10, <1>11 DEF Next

\* The invariant holds in every reachable state.
THEOREM SectionsInvariant == Spec => []SectionInv
BY InitSections, StepSections, PTL DEF Spec

\* For any number of tracks, sections and tasks, and however their store
\* calls interleave, a section carries at most one forwarded track.
THEOREM MidsCorrect == Spec => []MidsAreExclusive
<1>1. SectionInv => MidsAreExclusive
  BY DEF SectionInv
<1> QED
  BY SectionsInvariant, <1>1, PTL

\* A section the client has turned to its own publishing carries no forwarded
\* track once the offer that says so has been reclaimed for.
THEOREM OwnCorrect == Spec => []OwnIsNotForwarded
<1>1. SectionInv => OwnIsNotForwarded
  BY DEF SectionInv
<1> QED
  BY SectionsInvariant, <1>1, PTL
=============================================================================
