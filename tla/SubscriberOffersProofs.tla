----------------------- MODULE SubscriberOffersProofs -----------------------
(***************************************************************************)
(* For any number of tasks and tracks, the negotiation store serialises the  *)
(* offers on a subscriber's peer connection and lets an answer settle only   *)
(* the offer that is outstanding.                                            *)
(***************************************************************************)
EXTENDS SubscriberOffers, SequenceTheorems, TLAPS

\* The two halves of the inductive invariant, of which OneOfferAtATime and
\* AnswersTheOutstanding are consequences.
Inv == TypeOK /\ OfferInv

USE HandlerAssumption DEF Process

LEMMA InitInv == Init => Inv
<1> SUFFICES ASSUME Init PROVE Inv
  OBVIOUS
<1>1. TypeOK
  <2>1. wire \in Seq(Nat)
    BY DEF Init
  <2> QED
    BY <2>1 DEF Init, TypeOK, Process
<1>2. OfferInv
  BY DEF Init, OfferInv, OneOfferAtATime, Creators, Process
<1> QED
  BY <1>1, <1>2 DEF Inv

\* The creator of an offer is the only one.
LEMMA SoleCreator ==
  ASSUME Inv, NEW p \in Process, pc[p] \in {"create", "mark"}
  PROVE  /\ entry.state = "Creating" /\ wire = <<>>
         /\ \A q \in Process : pc[q] \in {"create", "mark"} => q = p
         /\ (signaling = "stable") <=> (pc[p] = "create")
         /\ pc[Handler] \notin {"apply", "finish"}
<1>1. p \in Creators
  BY DEF Creators
<1>2. entry.state = "Creating"
  BY <1>1 DEF Inv, OfferInv, TypeOK
<1> QED
  BY <1>1, <1>2 DEF Inv, OfferInv, OneOfferAtATime, Creators

LEMMA StepInv == Inv /\ [Next]_vars => Inv'
<1> SUFFICES ASSUME Inv, [Next]_vars PROVE Inv'
  OBVIOUS
<1> USE DEF Goto, NoEntry
<1>1. ASSUME NEW t \in Task, NEW k \in Track, Attach(t, k) PROVE Inv'
  BY <1>1 DEF Inv, Attach, TypeOK, OfferInv, OneOfferAtATime, Creators
<1>2. ASSUME NEW p \in Process, request_offer(p) PROVE Inv'
  <2>1. CASE entry.state = "none"
    <3>1. /\ entry' = [state |-> "Creating", id |-> 0, pending |-> FALSE]
          /\ pc' = [pc EXCEPT ![p] = "create"] /\ pc[p] = "request"
          /\ UNCHANGED <<attached, offered, negotiated, signaling, offer_id, wire, expected, creation>>
      BY <1>2, <2>1 DEF request_offer
    <3>2. TypeOK'
      BY <3>1 DEF Inv, TypeOK
    <3>3. Creators = {} /\ signaling = "stable" /\ wire = <<>> /\ pc[Handler] \notin {"apply", "finish"}
      BY <2>1 DEF Inv, OfferInv
    <3>4. Creators' = {p}
      BY <3>1, <3>3 DEF Inv, TypeOK, Creators
    <3>5. pc'[p] = "create" /\ pc'[Handler] \notin {"apply", "finish"}
      BY <3>1, <3>3 DEF Inv, TypeOK
    <3>6. \A q \in Process : pc'[q] = "create" => q \in Creators'
      BY DEF Creators
    <3> QED
      BY <3>1, <3>2, <3>3, <3>4, <3>5, <3>6 DEF Inv, OfferInv, OneOfferAtATime
  <2>2. CASE entry.state # "none"
    <3>1. /\ entry' = [entry EXCEPT !.pending = TRUE]
          /\ pc' = [pc EXCEPT ![p] = "idle"] /\ pc[p] = "request"
          /\ UNCHANGED <<attached, offered, negotiated, signaling, offer_id, wire, expected, creation>>
      BY <1>2, <2>2 DEF request_offer
    <3>2. TypeOK'
      BY <3>1 DEF Inv, TypeOK
    <3>3. entry'.state = entry.state /\ entry'.id = entry.id
      BY <3>1 DEF Inv, TypeOK
    <3>4. \A q \in Process : \A l \in {"create", "mark", "apply", "finish"} : (pc'[q] = l) <=> (pc[q] = l)
      BY <3>1 DEF Inv, TypeOK
    <3>5. Creators' = Creators /\ (\A q \in Creators : q \in Process)
      BY <3>4 DEF Creators
    <3> QED
      BY <3>1, <3>2, <3>3, <3>4, <3>5 DEF Inv, OfferInv, OneOfferAtATime
  <2> QED
    BY <2>1, <2>2
<1>3. ASSUME NEW p \in Process, CreateOffer(p) PROVE Inv'
  BY <1>3, SoleCreator DEF Inv, CreateOffer, TypeOK, OfferInv, OneOfferAtATime, Creators
<1>4. ASSUME NEW p \in Process, abort_offer_creation(p) PROVE Inv'
  BY <1>4, SoleCreator DEF Inv, abort_offer_creation, TypeOK, OfferInv, OneOfferAtATime, Creators
<1>5. ASSUME NEW p \in Process, MarkInFlight(p) PROVE Inv'
  <2>1. wire' = <<offer_id + 1>> /\ offer_id + 1 \in Nat \ {0}
    <3>1. wire = <<>> /\ offer_id + 1 \in Nat \ {0}
      BY <1>5, SoleCreator DEF MarkInFlight, Inv, TypeOK
    <3> QED
      BY <1>5, <3>1 DEF MarkInFlight
  <2>2. /\ entry' = [state |-> "InFlight", id |-> offer_id', pending |-> entry.pending]
        /\ offer_id' = offer_id + 1
        /\ pc' = [pc EXCEPT ![p] = "idle"] /\ pc[p] = "mark"
        /\ UNCHANGED <<attached, offered, negotiated, signaling, expected, creation>>
    BY <1>5 DEF MarkInFlight
  <2>3. TypeOK'
    <3>1. wire' \in Seq(Nat) /\ entry' \in [state : {"none", "Creating", "InFlight"}, id : Nat, pending : BOOLEAN]
      BY <2>1, <2>2 DEF Inv, TypeOK
    <3> QED
      BY <2>1, <2>2, <3>1 DEF Inv, TypeOK
  <2>4. /\ \A q \in Process : pc[q] \in {"create", "mark"} => q = p
        /\ signaling # "stable" /\ pc[Handler] \notin {"apply", "finish"}
    BY <2>2, SoleCreator
  <2>5. Creators' = {} /\ \A q \in Process : pc'[q] # "create"
    BY <2>2, <2>4 DEF Inv, TypeOK, Creators
  <2>6. pc'[Handler] \notin {"apply", "finish"}
    BY <2>2, <2>4 DEF Inv, TypeOK
  <2> QED
    BY <2>1, <2>2, <2>3, <2>4, <2>5, <2>6 DEF Inv, OfferInv, OneOfferAtATime
<1>6. ASSUME NEW id \in 0..offer_id, Answer(id) PROVE Inv'
  <2>1. entry.state = "InFlight" /\ wire = <<offer_id>> /\ pc[Handler] = "idle"
    BY <1>6 DEF Answer, Inv, OfferInv, TypeOK
  <2>2. wire' = <<>> /\ Head(wire) = offer_id
    BY <1>6, <2>1 DEF Answer, Inv, TypeOK
  <2> QED
    BY <1>6, <2>1, <2>2 DEF Inv, Answer, TypeOK, OfferInv, OneOfferAtATime, Creators
<1>7. ASSUME ApplyAnswer PROVE Inv'
  BY <1>7 DEF Inv, ApplyAnswer, TypeOK, OfferInv, OneOfferAtATime, Creators
<1>8. ASSUME finish_answer PROVE Inv'
  <2>1. pc[Handler] = "finish" /\ entry.state = "InFlight" /\ entry.id = expected
    BY <1>8 DEF finish_answer, Inv, OfferInv
  <2>2. PICK l \in {"idle", "request"} :
          /\ pc' = [pc EXCEPT ![Handler] = l] /\ entry' = NoEntry
          /\ UNCHANGED <<attached, offered, negotiated, signaling, offer_id, wire, expected, creation>>
    BY <1>8, <2>1 DEF finish_answer
  <2>3. TypeOK'
    BY <2>2 DEF Inv, TypeOK
  <2>4. Creators = {} /\ signaling = "stable" /\ wire = <<>>
    BY <2>1 DEF Inv, OfferInv
  <2>5. Creators' = {} /\ \A q \in Process : pc'[q] # "create"
    BY <2>2, <2>4 DEF Inv, TypeOK, Creators
  <2>6. pc'[Handler] \notin {"apply", "finish"}
    BY <2>2 DEF Inv, TypeOK
  <2> QED
    BY <2>2, <2>3, <2>4, <2>5, <2>6 DEF Inv, OfferInv, OneOfferAtATime
<1>9. CASE UNCHANGED vars
  BY <1>9 DEF vars, Inv, TypeOK, OfferInv, OneOfferAtATime, Creators
<1> QED
  BY <1>1, <1>2, <1>3, <1>4, <1>5, <1>6, <1>7, <1>8, <1>9 DEF Next, Step, Arrive

\* The store's entry always tells how far the one negotiation under way is.
THEOREM OffersInvariant == Spec => []Inv
BY InitInv, StepInv, PTL DEF Spec

\* The variables keep their types.
THEOREM TypeCorrect == Spec => []TypeOK
<1>1. Inv => TypeOK
  BY DEF Inv
<1> QED
  BY <1>1, OffersInvariant, PTL

\* No offer is created while another is outstanding, however many tasks ask at once.
THEOREM OneOfferCorrect == Spec => []OneOfferAtATime
<1>1. Inv => OneOfferAtATime
  BY DEF Inv, OfferInv
<1> QED
  BY <1>1, OffersInvariant, PTL

\* An answer that is applied is the answer to the outstanding offer.
THEOREM AnswersCorrect == Spec => []AnswersTheOutstanding
<1>1. Inv => AnswersTheOutstanding
  BY DEF Inv, OfferInv, AnswersTheOutstanding
<1> QED
  BY <1>1, OffersInvariant, PTL
=============================================================================
