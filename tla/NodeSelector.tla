---------------------------- MODULE NodeSelector ----------------------------
(***************************************************************************)
(* The node selection policy of the room directories (oxidesfu-room,         *)
(* node_directory/policy.rs).  The candidates come as a sequence, in memory  *)
(* in the arbitrary order of a hash map.  The two room hashes are inputs.    *)
(* Loads stand for the metric that sort_by names; the load-limited selectors *)
(* limit the same metric.                                                    *)
(***************************************************************************)
EXTENDS Integers, FiniteSets, SequencesExt

CONSTANTS
    Node,           \* node ids, numbers in the order of their names
    MaxLoad,        \* loads are 0..MaxLoad
    Limit,          \* cpu_load_limit, system_load_limit
    NoNode

ASSUME NodeAssumption == Node \subseteq Nat /\ NoNode \notin Node

VARIABLES
    input,          \* the arguments and the configuration of one selection
    chosen          \* its result: <<>> before, <<node>> or <<NoNode>> after

vars == <<input, chosen>>

Load == 0..MaxLoad
Hash == 0..(Cardinality(Node) - 1)
UnknownRegion == MaxLoad

\* Every order of every set of candidates.
Orders == UNION {SetToSeqs(s) : s \in SUBSET Node}

LoadInputs ==
    [kind : {"Any", "CpuLoad"}, order : Orders, up : SUBSET Node, load : [Node -> Load],
     algorithm : {"Lowest", "TwoChoice"}, sort_by : {"Random", "Load"}, h1 : Hash, h2 : Hash]

\* For the region-aware selector a node's load is its distance, the largest being a
\* region that is not configured; First looks at neither.
RegionInputs ==
    [kind : {"First", "RegionAware"}, order : Orders, up : {Node}, load : [Node -> Load],
     algorithm : {"Lowest"}, sort_by : {"Random"}, h1 : Hash, h2 : {0}]

-----------------------------------------------------------------------------
Least(s) == CHOOSE n \in s : \A m \in s : n <= m

IdOrder(s) == SetToSortSeq(s, LAMBDA m, n : m < n)

\* The candidate at the room's hash.
HashPick(seq, h) == seq[(h % Len(seq)) + 1]

\* available_nodes that ignores the metrics.
AllCandidates(in) == in.order

available_nodes(in) == SelectSeq(in.order, LAMBDA n : n \in in.up)

\* The closure select_lowest: least metric first, then least id.
select_lowest(in, seq) ==
    IF in.sort_by = "Random" THEN HashPick(seq, in.h1)
    ELSE CHOOSE n \in ToSet(seq) : \A m \in ToSet(seq) :
           in.load[n] < in.load[m] \/ (in.load[n] = in.load[m] /\ n <= m)

\* TwoCandidates that does not look whether the hashes agree.
TwoDraws(in, seq) == <<HashPick(seq, in.h1), HashPick(seq, in.h2)>>

\* The two candidates of TwoChoice; the second moves on when the hashes agree.
TwoCandidates(in, seq) ==
    LET first == in.h1 % Len(seq)
        second == IF in.h2 % Len(seq) = first THEN (first + 1) % Len(seq) ELSE in.h2 % Len(seq)
    IN  <<seq[first + 1], seq[second + 1]>>

select_sorted_node(in, seq) ==
    IF in.algorithm = "Lowest" \/ Len(seq) <= 2 THEN select_lowest(in, seq)
    ELSE select_lowest(in, TwoCandidates(in, seq))

\* LowLoad with the limit included.
AtMostLimit(in, seq) == SelectSeq(seq, LAMBDA n : in.load[n] <= Limit)

LowLoad(in, seq) == SelectSeq(seq, LAMBDA n : in.load[n] < Limit)

\* The nodes at the least distance among those whose region is configured.
Nearest(in) ==
    LET known == {n \in ToSet(in.order) : in.load[n] # UnknownRegion}
        near == {n \in known : \A m \in known : in.load[n] <= in.load[m]}
    IN  IF near = {} THEN ToSet(in.order) ELSE near

select_node_for_assignment(in) ==
    LET up == available_nodes(in)
        low == LowLoad(in, up)
    IN  CASE in.order = <<>> -> NoNode
          [] in.order # <<>> /\ in.kind = "First" -> Least(ToSet(in.order))
          [] in.order # <<>> /\ in.kind = "RegionAware" -> HashPick(IdOrder(Nearest(in)), in.h1)
          [] in.order # <<>> /\ in.kind = "Any" ->
               IF up = <<>> THEN NoNode ELSE select_sorted_node(in, up)
          [] in.order # <<>> /\ in.kind = "CpuLoad" ->
               IF up = <<>> THEN NoNode
               ELSE select_sorted_node(in, IF low = <<>> THEN up ELSE low)

-----------------------------------------------------------------------------
Init == input \in LoadInputs \cup RegionInputs /\ chosen = <<>>

Select == chosen = <<>> /\ chosen' = <<select_node_for_assignment(input)>> /\ UNCHANGED input

Spec == Init /\ [][Select]_vars

-----------------------------------------------------------------------------
(* Properties *)

Picked(n) == chosen = <<n>>
Eligible == ToSet(input.order) \cap input.up

\* A room gets a node exactly when there is an eligible one: no selector comes back
\* empty-handed, or with a node that does not serve or has stale metrics.
SelectionIsEligible ==
    chosen # <<>> => IF Eligible = {} THEN Picked(NoNode) ELSE chosen[1] \in Eligible

\* The load-limited selectors take a node below the limit whenever there is one.
LowLoadIsPreferred ==
    input.kind = "CpuLoad" => \A n \in Eligible :
        Picked(n) /\ input.load[n] >= Limit => \A m \in Eligible : input.load[m] >= Limit

\* "two-choice should never pick the highest-load node when lower choices exist": a node
\* with more load than every other one is only taken when it is the only one.
TwoChoiceAvoidsWorst ==
    input.kind = "Any" /\ input.algorithm = "TwoChoice" /\ input.sort_by = "Load" =>
        \A n \in Eligible : Picked(n) => Eligible = {n} \/ \E m \in Eligible \ {n} : input.load[m] >= input.load[n]
=============================================================================
