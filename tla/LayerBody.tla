----------------------------- MODULE LayerBody -----------------------------
(***************************************************************************)
(* One layer's attention state on the device and the two ways tokens run   *)
(* through it: one at a time (decode) and as a chunk, whose keys stay in a *)
(* side buffer until every query of the chunk has attended.  The layer can *)
(* be reset, snapshot and restored, and a chunk can fail at the expert     *)
(* dispatch after its compressor state has advanced.  Everything is        *)
(* compared with the serial oracle.                                        *)
(***************************************************************************)
EXTENDS LayerOracle

CONSTANTS MaxChunk,       \* the workspace's token count
          Garbage         \* selections a workspace row may hold from earlier chunks

VARIABLES kind, tile,     \* attention class and the attention_tile_enabled() switch
          state,          \* the V4Layer's own buffers and counters
          gen, next,      \* the sequence being run and its next position
          chunk,          \* the chunk under way: phase, first position, length, row
          keys, selected, \* the workspace: chunk keys and per-row top-k selections
          attended,       \* what the queries just run attended, by position
          torn,           \* a failure left the layer between two tokens
          saved           \* a snapshot, or the empty sequence

vars == <<kind, tile, state, gen, next, chunk, keys, selected, attended, torn, saved>>

NoEntry == [position |-> -1, row |-> {}]
CompressedCapacity == IF Compressed(kind) THEN (MaxSeq + Ratio(kind) - 1) \div Ratio(kind) ELSE 0
Rows == 0..MaxChunk - 1
Idle == [phase |-> "idle", start |-> 0, count |-> 0, row |-> 0]
Least(a, b) == IF a < b THEN a ELSE b

\* V4LayerStateLayout::from_spec sizes the buffers; reset_generation_state clears them.
Cleared ==
    [local |-> [s \in 0..LocalCapacity - 1 |-> Never],
     compressor |-> [s \in 0..CompressorCapacity(kind) - 1 |-> Never],
     indexer |-> [s \in 0..(IF UsesIndexer(kind) THEN CompressorCapacity(kind) ELSE 0) - 1 |-> Never],
     entries |-> [i \in 0..CompressedCapacity - 1 |-> NoEntry],
     indexerKeys |-> [i \in 0..(IF UsesIndexer(kind) THEN CompressedCapacity ELSE 0) - 1 |-> {}],
     topk |-> [i \in 1..IndexTopK |-> -1],
     counts |-> [local |-> 0, partial |-> 0, entries |-> 0, candidates |-> 0]]

Init ==
    /\ kind \in Kinds /\ tile \in BOOLEAN
    /\ state = Cleared
    /\ gen = 1 /\ next = 0 /\ chunk = Idle
    /\ keys = [r \in Rows |-> <<>>]
    /\ \E g \in Garbage : selected = [r \in Rows |-> g]
    /\ attended = <<>> /\ torn = FALSE /\ saved = <<>>

(***************************************************************************)
(* The kernels.                                                            *)
(***************************************************************************)

\* v4_save_compressor_state_kernel: one row of a position-addressed ring.
SaveCompressor(ring, p, token) == [ring EXCEPT ![p % CompressorCapacity(kind)] = Written(p, token)]

\* v4_materialize_compressed_entry_kernel: a slot that holds another position is skipped.
Materialize(ring, boundary) ==
    LET window == Coefficient(kind) * Ratio(kind)
        At(o) == boundary - window + 1 + o
        Slot(o) == ring[At(o) % CompressorCapacity(kind)]
    IN  {<<o, Slot(o).row>> : o \in {o \in 0..window - 1 : At(o) >= 0 /\ Slot(o).position = At(o)}}

\* committed_entries_for: compressed entries on or before `p`, whatever the counters say.
CommittedFor(p) ==
    IF Compressed(kind) THEN Least(CompressedCapacity, (p + 1) \div Ratio(kind)) ELSE 0

\* v4_indexer_scores_kernel and its batch form: the entries a row has committed, no more.
IndexerScores(st, token, count) == [i \in 1..count |-> Score(token, st.indexerKeys[i - 1])]

\* v4_indexer_topk_kernel: all candidates padded with -1 when they fit, else IndexTopK rounds of
\* extracting the highest unselected score, the lowest index on a tie.
IndexerTopK(scores) ==
    LET n == Len(scores)
        Best(taken) == CHOOSE i \in (1..n) \ taken :
                          \A j \in (1..n) \ taken : \/ scores[i] > scores[j]
                                                    \/ scores[i] = scores[j] /\ i <= j
        round[k \in 0..IndexTopK] ==
            IF k = 0 THEN <<>> ELSE Append(round[k - 1], Best(ToSet(round[k - 1])))
    IN  IF n <= IndexTopK
        THEN [i \in 1..IndexTopK |-> IF i <= n THEN i - 1 ELSE -1]
        ELSE [k \in 1..IndexTopK |-> round[IndexTopK][k] - 1]

\* select_indexer_topk: with no candidate the buffer keeps what it held.
SelectTopK(buffer, scores) == IF scores = <<>> THEN buffer ELSE IndexerTopK(scores)

\* v4_compose_local_rows_kernel: row r is slot r of the ring the serial path would have had.
ComposeLocal(start, q) ==
    LET first == IF q < LocalCapacity THEN 0 ELSE q - LocalCapacity + 1
        At(r) == first + ((r - first) % LocalCapacity)
    IN  [i \in 1..q - first + 1 |->
            Written(At(i - 1), IF At(i - 1) < start THEN state.local[i - 1].row
                                                    ELSE keys[At(i - 1) - start])]

\* compose_tile_rows: the first position any query of the chunk can see.
UnionFirst(start) == IF start < LocalCapacity THEN 0 ELSE start - LocalCapacity + 1

\* v4_compose_union_rows_kernel: every position the chunk's queries need, in position order.
ComposeUnion(start, count) ==
    LET first == UnionFirst(start)
        At(i) == first + i - 1
    IN  [i \in 1..start + count - first |->
            Written(At(i), IF At(i) < start THEN state.local[At(i) % LocalCapacity].row
                                            ELSE keys[At(i) - start])]

\* Mutant: the window reaches one position too far back.
InWindowWide(row, q, width) ==
    row.position >= q - width /\ row.position >= 0 /\ row.position <= q

InWindow(row, q, width) == row.position >= q - width + 1 /\ row.position >= 0 /\ row.position <= q

\* The compressed rows a launch may read: `rows` of them, all or the ones `indices` names.
Candidates(st, rows, indices) ==
    LET usable == SelectSeq(indices, LAMBDA i : i >= 0 /\ i < rows)
    IN  [i \in 1..Len(usable) |-> st.entries[usable[i]]]

EveryRow(rows) == [i \in 1..rows |-> i - 1]

\* v4_cached_sliding_window_attn_wave32_kernel: the given rows in slot order, masked by position.
SlidingAttention(rows, q) == SelectSeq(rows, LAMBDA r : InWindow(r, q, Len(rows)))

\* v4_cached_compressed_attention_wave32_kernel: those, then the compressed rows on or before q.
CachedAttention(st, rows, q, committed, topk) ==
    [local |-> SlidingAttention(rows, q),
     compressed |-> SelectSeq(Candidates(st, committed,
                                 IF UsesIndexer(kind)
                                 THEN SubSeq(topk, 1, Least(committed, IndexTopK))
                                 ELSE EveryRow(committed)),
                              LAMBDA e : e.position <= q)]

\* run_attention_tile: one launch; every query masks the shared rows into its own window and
\* reads its own selection (CSA) or every committed row up to itself (HCA).
TileAttention(st, rows, q, committed, topk) ==
    [local |-> SelectSeq(rows, LAMBDA r : InWindow(r, q, LocalCapacity)),
     compressed |-> SelectSeq(Candidates(st, committed,
                                 IF UsesIndexer(kind) /\ committed > 0 THEN topk
                                 ELSE EveryRow(committed)),
                              LAMBDA e : e.position >= 0 /\ e.position <= q)]

RingRows(st) == [i \in 1..LocalCapacity |-> st.local[i - 1]]

(***************************************************************************)
(* The pre-attention half of one token.                                    *)
(***************************************************************************)

\* V4Layer::record_position.
RecordPosition(p) ==
    [local |-> Least(LocalCapacity, p + 1),
     partial |-> Least(CompressorCapacity(kind), p + 1),
     entries |-> CommittedFor(p),
     candidates |-> IF UsesIndexer(kind) THEN CommittedFor(p) ELSE 0]

\* The compressed part of run_pre_attention_tail: feed the compressor and the indexer, and on a
\* ratio boundary materialize the entry both produce.
FeedCompressor(st, p, token) ==
    LET compressor == SaveCompressor(st.compressor, p, token)
        indexer == SaveCompressor(st.indexer, p, token)
        index == (p + 1) \div Ratio(kind) - 1
        boundary == (p + 1) % Ratio(kind) = 0
    IN  [st EXCEPT !.compressor = compressor,
                   !.indexer = IF UsesIndexer(kind) THEN indexer ELSE @,
                   !.entries = IF boundary
                               THEN [@ EXCEPT ![index] = Written(p, Materialize(compressor, p))]
                               ELSE @,
                   !.indexerKeys = IF boundary /\ UsesIndexer(kind)
                                   THEN [@ EXCEPT ![index] = Materialize(indexer, p)]
                                   ELSE @]

\* run_pre_attention_tail with every stage deferred: counters and compressor only.
RunTail(st, p, token) ==
    LET recorded == [st EXCEPT !.counts = RecordPosition(p)]
    IN  IF Compressed(kind) THEN FeedCompressor(recorded, p, token) ELSE recorded

WriteKey(st, p, row) == [st EXCEPT !.local[p % LocalCapacity] = Written(p, row)]

\* The undeferred tail also writes the key to the ring and ranks the candidates.
DecodeTail(st, p, token) ==
    LET fed == RunTail(WriteKey(st, p, token), p, token)
    IN  [fed EXCEPT !.topk = IF UsesIndexer(kind)
                             THEN SelectTopK(@, IndexerScores(fed, token, CommittedFor(p)))
                             ELSE @]

(***************************************************************************)
(* Decode.                                                                 *)
(***************************************************************************)

\* run_layer_body_decoding: both halves back to back; the expert dispatch at its end may throw.
Decode ==
    /\ chunk = Idle /\ ~torn /\ next < MaxSeq
    /\ LET st == DecodeTail(state, next, Token(gen, next))
           reads == IF tile
                    THEN TileAttention(st, RingRows(st), next, CommittedFor(next), st.topk)
                    ELSE CachedAttention(st, RingRows(st), next, CommittedFor(next), st.topk)
       IN  state' = st /\ attended' = [p \in {next} |-> reads]
    /\ next' = next + 1
    /\ torn' \in BOOLEAN
    /\ UNCHANGED <<kind, tile, gen, chunk, keys, selected, saved>>

(***************************************************************************)
(* A chunk of tokens.                                                      *)
(***************************************************************************)

\* run_layer_body_chunk begins; the only bound is the workspace.  The workspace is shared by every
\* layer and never cleared: a row's old selection is any of Garbage, and an old key, which must
\* not be read, is the empty row.
BeginChunk ==
    /\ chunk = Idle /\ ~torn
    /\ \E count \in 1..MaxChunk :
          /\ next + count <= MaxSeq
          /\ chunk' = [phase |-> "tail", start |-> next, count |-> count, row |-> 0]
    /\ keys' = [r \in Rows |-> <<>>]
    /\ \E g \in Garbage : selected' = [r \in Rows |-> g]
    /\ attended' = <<>>
    /\ UNCHANGED <<kind, tile, state, gen, next, torn, saved>>

\* Phase 1: every row's tail in position order, its key not yet written anywhere.
ChunkTail ==
    LET p == chunk.start + chunk.row
    IN  /\ chunk.phase = "tail"
        /\ state' = RunTail(state, p, Token(gen, p))
        /\ chunk' = IF chunk.row + 1 < chunk.count THEN [chunk EXCEPT !.row = @ + 1]
                    ELSE [chunk EXCEPT !.phase = "keys", !.row = 0]
        /\ UNCHANGED <<kind, tile, gen, next, keys, selected, attended, torn, saved>>

\* run_chunk_rope_kv_write_batch: one copy of every row's key to the chunk buffer.
ChunkKeys ==
    /\ chunk.phase = "keys"
    /\ keys' = [r \in Rows |-> IF r < chunk.count THEN Token(gen, chunk.start + r) ELSE keys[r]]
    /\ chunk' = [chunk EXCEPT !.phase = "select"]
    /\ UNCHANGED <<kind, tile, state, gen, next, selected, attended, torn, saved>>

\* run_chunk_indexer_select_batch: each row ranks only the entries that predate it.
ChunkSelect ==
    /\ chunk.phase = "select"
    /\ selected' = [r \in Rows |->
          IF UsesIndexer(kind) /\ r < chunk.count
          THEN LET p == chunk.start + r
               IN  SelectTopK(selected[r], IndexerScores(state, Token(gen, p), CommittedFor(p)))
          ELSE selected[r]]
    /\ chunk' = [chunk EXCEPT !.phase = "attend"]
    /\ UNCHANGED <<kind, tile, state, gen, next, keys, attended, torn, saved>>

\* Phase 2a, tiled: one launch, with the last row's committed count.
ChunkAttendTile ==
    LET last == chunk.start + chunk.count - 1
        rows == ComposeUnion(chunk.start, chunk.count)
    IN  /\ chunk.phase = "attend" /\ tile
        /\ attended' = [p \in chunk.start..last |->
              TileAttention(state, rows, p, CommittedFor(last), selected[p - chunk.start])]
        /\ chunk' = [chunk EXCEPT !.phase = "dispatch"]
        /\ UNCHANGED <<kind, tile, state, gen, next, keys, selected, torn, saved>>

\* Phase 2a, per token: each row composes its own row-set.
ChunkAttendRows ==
    /\ chunk.phase = "attend" /\ ~tile
    /\ attended' = [p \in chunk.start..chunk.start + chunk.count - 1 |->
          CachedAttention(state, ComposeLocal(chunk.start, p), p, CommittedFor(p),
                          selected[p - chunk.start])]
    /\ chunk' = [chunk EXCEPT !.phase = "dispatch"]
    /\ UNCHANGED <<kind, tile, state, gen, next, keys, selected, torn, saved>>

\* Phases 2b and 2c: router, dispatch and MoE leave the attention state alone.
ChunkExperts ==
    /\ chunk.phase = "dispatch"
    /\ chunk' = [chunk EXCEPT !.phase = "commit"]
    /\ attended' = <<>>
    /\ UNCHANGED <<kind, tile, state, gen, next, keys, selected, torn, saved>>

\* on_routing_ready_batch or a device call throws: the compressor has advanced, the ring has not.
ChunkFails ==
    /\ chunk.phase \in {"select", "attend", "dispatch"}
    /\ chunk' = Idle /\ torn' = TRUE
    /\ UNCHANGED <<kind, tile, state, gen, next, keys, selected, attended, saved>>

\* Commit: the chunk's keys enter the ring in position order.
ChunkCommit ==
    LET p == chunk.start + chunk.row
    IN  /\ chunk.phase = "commit"
        /\ state' = WriteKey(state, p, keys[chunk.row])
        /\ IF chunk.row + 1 < chunk.count
           THEN chunk' = [chunk EXCEPT !.row = @ + 1] /\ UNCHANGED next
           ELSE chunk' = Idle /\ next' = chunk.start + chunk.count
        /\ UNCHANGED <<kind, tile, gen, keys, selected, attended, torn, saved>>

(***************************************************************************)
(* Reset, snapshot and restore.                                            *)
(***************************************************************************)

\* Mutant: the compressor's ring survives the reset.
ResetKeepsRing ==
    /\ chunk = Idle /\ gen < Generations
    /\ state' = [Cleared EXCEPT !.compressor = state.compressor]
    /\ gen' = gen + 1 /\ next' = 0 /\ attended' = <<>> /\ torn' = FALSE
    /\ UNCHANGED <<kind, tile, chunk, keys, selected, saved>>

\* reset_generation_state: a new sequence starts; the chunk workspace keeps its contents.
Reset ==
    /\ chunk = Idle /\ gen < Generations
    /\ state' = Cleared
    /\ gen' = gen + 1 /\ next' = 0 /\ attended' = <<>> /\ torn' = FALSE
    /\ UNCHANGED <<kind, tile, chunk, keys, selected, saved>>

\* snapshot_state copies every piece and the four counters.
Snapshot ==
    /\ chunk = Idle /\ ~torn /\ saved = <<>>
    /\ saved' = <<[state |-> state, gen |-> gen, next |-> next]>>
    /\ UNCHANGED <<kind, tile, state, gen, next, chunk, keys, selected, attended, torn>>

\* restore_state puts every piece back and the sequence continues from there.
Restore ==
    /\ chunk = Idle /\ saved # <<>>
    /\ state' = saved[1].state /\ gen' = saved[1].gen /\ next' = saved[1].next
    /\ attended' = <<>> /\ torn' = FALSE
    /\ UNCHANGED <<kind, tile, chunk, keys, selected, saved>>

Next ==
    \/ Decode
    \/ BeginChunk \/ ChunkTail \/ ChunkKeys \/ ChunkSelect
    \/ ChunkAttendTile \/ ChunkAttendRows \/ ChunkExperts \/ ChunkFails \/ ChunkCommit
    \/ Reset \/ Snapshot \/ Restore

Spec == Init /\ [][Next]_vars

(***************************************************************************)
(* Properties.                                                             *)
(***************************************************************************)

SameTerms(a, b) == IF tile THEN ToSet(a) = ToSet(b) /\ Len(a) = Len(b) ELSE a = b

\* Whatever mix of decode steps and chunks has run, after whatever resets, failures and restores,
\* a query attends exactly the rows the serial oracle attends (run_layer_body_chunk's "chunk =
\* serial"): with the tile off in the same summation order, with the tile on as the same set,
\* none missing, stale or counted twice.
ReadsMatchOracle ==
    \A p \in DOMAIN attended :
        LET want == OracleReads[kind, gen][p]
        IN  /\ SameTerms(attended[p].local, want.local)
            /\ SameTerms(attended[p].compressed, want.compressed)

\* Between tokens a layer that is not torn holds byte for byte the oracle's state after as many
\* tokens: a chunk longer than either ring, a restore and a reset leave nothing behind
\* (v4_layer_body_batch.hpp: "neither ring bounds the chunk").
StateMatchesOracle ==
    chunk = Idle /\ ~torn =>
        LET want == OracleKv[kind, gen][next]
        IN  /\ state.local = want.local
            /\ state.compressor = want.compressor
            /\ \A s \in DOMAIN state.indexer : state.indexer[s] = want.indexer[s]
            /\ \A i \in DOMAIN state.entries :
                  state.entries[i] = IF i < Len(want.keys) THEN want.keys[i + 1] ELSE NoEntry
            /\ \A i \in DOMAIN state.indexerKeys :
                  state.indexerKeys[i] = IF i < Len(want.indexerKeys)
                                         THEN want.indexerKeys[i + 1] ELSE {}
            /\ state.counts.entries = Len(want.keys)

=============================================================================
