---------------------------- MODULE LayerOracle ----------------------------
(***************************************************************************)
(* The serial reference for one attention layer: the state the fp64 oracle *)
(* keeps between tokens and the rows each token attends.  Arithmetic is    *)
(* abstracted to provenance: a key row is the token it was projected from, *)
(* a compressed row the set of (window offset, token) pairs it pools.  Two *)
(* computations that combine the same rows at the same places are equal.   *)
(***************************************************************************)
EXTENDS Integers, Sequences, FiniteSets, SequencesExt

CONSTANTS Kinds,          \* attention classes: "sliding", "csa", "hca"
          CsaRatio,       \* 4 in the model
          HcaRatio,       \* 128 in the model
          Window,         \* the sliding window
          IndexTopK,      \* how many compressed rows the indexer selects
          MaxSeq,         \* the configured context
          Generations,    \* how many token sequences a behaviour runs
          Score(_, _)     \* indexer score of a query token against an indexer key

ASSUME ShapeAssumption ==
    /\ Kinds \subseteq {"sliding", "csa", "hca"} /\ Kinds # {}
    /\ {CsaRatio, HcaRatio, Window, IndexTopK, MaxSeq, Generations} \subseteq Nat \ {0}

Compressed(kind) == kind # "sliding"
UsesIndexer(kind) == kind = "csa"
Ratio(kind) == CASE kind = "csa" -> CsaRatio [] kind = "hca" -> HcaRatio [] OTHER -> 0
Coefficient(kind) == CASE kind = "csa" -> 2 [] kind = "hca" -> 1 [] OTHER -> 0

\* The oracle's compressor ring is exactly one window wide.
CompressorCapacity(kind) == Coefficient(kind) * Ratio(kind)
LocalCapacity == IF MaxSeq < Window THEN MaxSeq ELSE Window

Never == [position |-> -1, row |-> <<>>]
Written(p, row) == [position |-> p, row |-> row]

\* SlidingKvRing::gather: the written slots inside the query's window, in slot order.
Gather(local, p) ==
    LET first == IF p < LocalCapacity THEN 0 ELSE p - LocalCapacity + 1
        slots == [i \in 1..LocalCapacity |-> local[i - 1]]
    IN  SelectSeq(slots, LAMBDA s : s.position >= first /\ s.position <= p)

\* compressor_materialize: the populated offsets of the causal window ending at `boundary`.
Pool(ring, kind, boundary) ==
    LET window == CompressorCapacity(kind)
        source(o) == boundary - window + 1 + o
        slot(o) == source(o) % window
    IN  {<<o, ring[slot(o)].row>> :
            o \in {o \in 0..window - 1 : source(o) >= 0 /\ ring[slot(o)].position = source(o)}}

\* topk_indices: descending score, ties to the lower index.
TopKIndices(scores, k) ==
    LET order == SortSeq([i \in 1..Len(scores) |-> i - 1],
                         LAMBDA a, b : \/ scores[a + 1] > scores[b + 1]
                                       \/ scores[a + 1] = scores[b + 1] /\ a < b)
    IN  SubSeq(order, 1, IF k < Len(order) THEN k ELSE Len(order))

\* LayerKvState::reset.
EmptyKv(kind) ==
    LET ring == [s \in 0..CompressorCapacity(kind) - 1 |-> Never]
    IN  [local |-> [s \in 0..LocalCapacity - 1 |-> Never],
         compressor |-> ring,
         indexer |-> IF UsesIndexer(kind) THEN ring ELSE <<>>,
         keys |-> <<>>, indexerKeys |-> <<>>]

\* layer_body's state change: the key goes to the ring, the compressor and the indexer take
\* the token, and a ratio boundary commits one compressed entry.
Advance(kv, kind, token, p) ==
    LET ratio == Ratio(kind)
        slot == p % CompressorCapacity(kind)
        compressor == [kv.compressor EXCEPT ![slot] = Written(p, token)]
        indexer == [kv.indexer EXCEPT ![slot] = Written(p, token)]
        boundary == Compressed(kind) /\ (p + 1) % ratio = 0
    IN  [local |-> [kv.local EXCEPT ![p % LocalCapacity] = Written(p, token)],
         compressor |-> IF Compressed(kind) THEN compressor ELSE kv.compressor,
         indexer |-> IF UsesIndexer(kind) THEN indexer ELSE kv.indexer,
         keys |-> IF boundary
                  THEN Append(kv.keys, Written(p, Pool(compressor, kind, p)))
                  ELSE kv.keys,
         indexerKeys |-> IF boundary /\ UsesIndexer(kind)
                         THEN Append(kv.indexerKeys, Pool(indexer, kind, p))
                         ELSE kv.indexerKeys]

\* layer_body's selection: every candidate in order while they all fit, else the top k.
Selection(kv, token) ==
    LET scores == [i \in 1..Len(kv.indexerKeys) |-> Score(token, kv.indexerKeys[i])]
    IN  IF Len(scores) <= IndexTopK THEN [i \in 1..Len(scores) |-> i - 1]
        ELSE TopKIndices(scores, IndexTopK)

\* layer_body's row-set: the local rows, then the compressed rows the class admits.
Attended(kv, kind, token, p) ==
    [local |-> Gather(kv.local, p),
     compressed |-> CASE kind = "csa" -> [i \in 1..Len(Selection(kv, token)) |->
                                            kv.keys[Selection(kv, token)[i] + 1]]
                      [] kind = "hca" -> kv.keys
                      [] OTHER -> <<>>]

Token(g, p) == <<g, p>>

\* The oracle's state after n tokens of generation g.
OracleKv ==
    [kind \in Kinds, g \in 1..Generations |->
        LET after[n \in 0..MaxSeq] ==
                IF n = 0 THEN EmptyKv(kind)
                ELSE Advance(after[n - 1], kind, Token(g, n - 1), n - 1)
        IN  after]

\* What token p of generation g attends.
OracleReads ==
    [kind \in Kinds, g \in 1..Generations |->
        [p \in 0..MaxSeq - 1 |->
            Attended(OracleKv[kind, g][p + 1], kind, Token(g, p), p)]]
=============================================================================
