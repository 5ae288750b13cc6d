---------------------------- MODULE RoutingReuse ----------------------------
(***************************************************************************)
(* RoutingReuseProfiler: stack distances of the expert request stream,     *)
(* counted with a Fenwick tree over request positions that grows by        *)
(* rebuild, and the offline Belady replay.  Both are compared with what    *)
(* they stand for: an ideal LRU cache and the best eviction policy.        *)
(***************************************************************************)
EXTENDS Integers, Sequences, FiniteSets, FiniteSetsExt, SequencesExt

CONSTANTS
    Models,         \* [total, capacity, learned]: total_experts_, the positions the
                    \* tree covers at reset (max(total, 1024)), and the experts of
                    \* the layers from kFirstLearnedLayer on
    MaxStream       \* bound: requests observed

VARIABLES
    model,          \* what reset was called for
    stream,         \* stream_ids_ with stream_counted_
    lastPos,        \* last_pos_
    fenwick,        \* fenwick_[1 .. fenwick_capacity_]
    hist,           \* distance_hist_
    observed, compulsory

vars == <<model, stream, lastPos, fenwick, hist, observed, compulsory>>

Total == model.total
Learned == model.learned
Expert == 0 .. Total - 1
Clock == Len(stream)

\* Only the learned layers' outcomes are aggregated.
Count(e) == IF e \in Learned THEN 1 ELSE 0

-----------------------------------------------------------------------------
(* The Fenwick tree. *)

\* i & (~i + 1)
LowBit(i) ==
    LET bit[k \in 1 .. i] == IF k % 2 = 1 THEN 1 ELSE 2 * bit[k \div 2] IN bit[i]

\* The nodes that cover position index + 1.
UpChain(index, capacity) ==
    LET chain[i \in 1 .. 2 * capacity] ==
            IF i > capacity THEN {} ELSE {i} \union chain[i + LowBit(i)]
    IN chain[index + 1]

Marked(tree, index, delta) ==
    [i \in DOMAIN tree |-> IF i \in UpChain(index, Len(tree)) THEN tree[i] + delta ELSE tree[i]]

\* grow: doubled until it covers `needed`, refilled with one mark per last_pos_.
Grown(tree, needed) ==
    LET capacity[c \in Len(tree) .. 2 * needed] == IF c < needed THEN capacity[2 * c] ELSE c
        positions == {lastPos[e] : e \in {e \in Expert : lastPos[e] >= 0}}
    IN [i \in 1 .. capacity[Len(tree)] |->
          Cardinality({p \in positions : i \in UpChain(p, capacity[Len(tree)])})]

AddMark(tree, index, delta) ==
    Marked(IF index + 1 > Len(tree) THEN Grown(tree, index + 1) ELSE tree, index, delta)

FenwickSum(tree, index) ==
    LET sum[i \in 0 .. Len(tree)] == IF i = 0 THEN 0 ELSE tree[i] + sum[i - LowBit(i)]
    IN sum[Min({index + 1, Len(tree)})]

-----------------------------------------------------------------------------
Init ==
    /\ model \in Models
    /\ stream = <<>> /\ lastPos = [e \in Expert |-> -1]
    /\ fenwick = [i \in 1 .. model.capacity |-> 0]
    /\ hist = [d \in 0 .. Total |-> 0]
    /\ observed = 0 /\ compulsory = 0

(* Mutant: the old mark is not removed. *)
ForgetsOldMark(e) ==
    /\ Clock < MaxStream /\ lastPos[e] >= 0
    /\ LET distance == FenwickSum(fenwick, Clock - 1) - FenwickSum(fenwick, lastPos[e])
           bucket == Min({Max({distance, 0}), Total})
       IN hist' = [hist EXCEPT ![bucket] = @ + Count(e)]
    /\ fenwick' = AddMark(fenwick, Clock, 1)
    /\ lastPos' = [lastPos EXCEPT ![e] = Clock]
    /\ stream' = Append(stream, [id |-> e, counted |-> e \in Learned])
    /\ observed' = observed + Count(e)
    /\ UNCHANGED <<model, compulsory>>

\* observe_layer, an expert selected before: the marks after its last one.
ObserveAgain(e) ==
    /\ Clock < MaxStream /\ lastPos[e] >= 0
    /\ LET distance == FenwickSum(fenwick, Clock - 1) - FenwickSum(fenwick, lastPos[e])
           bucket == Min({Max({distance, 0}), Total})
       IN hist' = [hist EXCEPT ![bucket] = @ + Count(e)]
    /\ fenwick' = AddMark(AddMark(fenwick, lastPos[e], -1), Clock, 1)
    /\ lastPos' = [lastPos EXCEPT ![e] = Clock]
    /\ stream' = Append(stream, [id |-> e, counted |-> e \in Learned])
    /\ observed' = observed + Count(e)
    /\ UNCHANGED <<model, compulsory>>

\* observe_layer, a first selection.
ObserveFirst(e) ==
    /\ Clock < MaxStream /\ lastPos[e] < 0
    /\ fenwick' = AddMark(fenwick, Clock, 1)
    /\ lastPos' = [lastPos EXCEPT ![e] = Clock]
    /\ stream' = Append(stream, [id |-> e, counted |-> e \in Learned])
    /\ observed' = observed + Count(e)
    /\ compulsory' = compulsory + Count(e)
    /\ UNCHANGED <<model, hist>>

Next == \E e \in Expert : ObserveAgain(e) \/ ObserveFirst(e)

Spec == Init /\ [][Next]_vars

-----------------------------------------------------------------------------
(* What curve() reports for a capacity. *)

IdealLruHits(capacity) ==
    MapThenSumSet(LAMBDA d : hist[d], {d \in 0 .. Total : d < capacity})

\* opt_hit_rate's next_pos: the position of the next request for the same
\* expert, later than any when there is none.
NextPos(i) ==
    LET later == {j \in i + 1 .. Clock : stream[j].id = stream[i].id}
    IN IF later = {} THEN Clock + 1 ELSE Min(later)

\* The resident with the largest (next use, id).
FarthestNextUse(resident, keyOf) ==
    CHOOSE v \in resident : \A r \in resident \ {v} :
        keyOf[v] > keyOf[r] \/ (keyOf[v] = keyOf[r] /\ v > r)

OptHits(capacity) ==
    LET step[i \in 0 .. Clock] ==
        IF i = 0 THEN [resident |-> {}, keyOf |-> [e \in Expert |-> 0], hits |-> 0]
        ELSE LET s == step[i - 1]
                 e == stream[i].id
                 kept == IF e \in s.resident \/ Cardinality(s.resident) < capacity THEN s.resident
                         ELSE s.resident \ {FarthestNextUse(s.resident, s.keyOf)}
             IN [resident |-> kept \union {e},
                 keyOf |-> [s.keyOf EXCEPT ![e] = NextPos(i)],
                 hits |-> s.hits + IF e \in s.resident /\ stream[i].counted THEN 1 ELSE 0]
    IN step[Clock].hits

-----------------------------------------------------------------------------
(* References. *)

\* The counted hits of a cache of this capacity that evicts the expert
\* requested least recently.
LruHits(capacity) ==
    LET Recent(i) == {e \in Expert :
            \E j \in 1 .. i - 1 :
               /\ stream[j].id = e
               /\ Cardinality({stream[k].id : k \in j + 1 .. i - 1} \ {e}) < capacity}
    IN Cardinality({i \in 1 .. Clock : stream[i].counted /\ stream[i].id \in Recent(i)})

\* The most counted hits any eviction choices can give.
BestHits(capacity) ==
    LET best[i \in 1 .. Clock + 1, resident \in SUBSET Expert] ==
        IF i > Clock THEN 0
        ELSE LET e == stream[i].id
             IN IF e \in resident
                THEN best[i + 1, resident] + IF stream[i].counted THEN 1 ELSE 0
                ELSE IF Cardinality(resident) < capacity THEN best[i + 1, resident \union {e}]
                ELSE Max({best[i + 1, (resident \ {v}) \union {e}] : v \in resident})
    IN best[1, {}]

-----------------------------------------------------------------------------
\* Types; a distance never leaves the histogram.
TypeOK ==
    /\ stream \in Seq([id : Expert, counted : BOOLEAN]) /\ Clock <= MaxStream
    /\ lastPos \in [Expert -> -1 .. Clock - 1]
    /\ \A d \in 0 .. Total : hist[d] \in 0 .. observed
    /\ MapThenSumSet(LAMBDA d : hist[d], 0 .. Total) + compulsory = observed

\* Until the tree grows, the cumulative histogram is exactly the hit count of an
\* ideal LRU cache, at every capacity (the stack property the header of
\* routing_reuse.hpp rests on).
CurveIsLru ==
    Len(fenwick) = model.capacity => \A c \in 1 .. Total : IdealLruHits(c) = LruHits(c)

\* Growth never loses a mark, so the curve never has hits an LRU would not have.
NeverOverstated == \A c \in 1 .. Total : IdealLruHits(c) <= LruHits(c)

\* Where every layer counts, the Belady replay's hits are the best any policy of
\* the capacity achieves.
OptIsBest == Learned = Expert => \A c \in 1 .. Total : OptHits(c) = BestHits(c)
=============================================================================
