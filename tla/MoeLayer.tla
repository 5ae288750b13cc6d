------------------------------ MODULE MoeLayer ------------------------------
(***************************************************************************)
(* The mixture-of-experts half of one layer for one decode token or one    *)
(* prefill chunk: the router kernel, the shared expert, the routed experts *)
(* (token by token with the GEMV pair, or grouped by expert over the whole *)
(* chunk with the WMMA pair), the slot-ordered reduce and the HC post.     *)
(*                                                                         *)
(* Numbers are symbolic: an activation is the token it belongs to, a       *)
(* routing weight the score and the selection that normalises it, an       *)
(* expert's output the expert, the token and the weight.  A sum is the     *)
(* sequence of its terms in the order the kernel adds them.  The scratch   *)
(* buffers hold Stale, whatever an earlier chunk left, until they are      *)
(* written.  Everything runs on the compute stream, so the steps are the   *)
(* launches in issue order; only the blocks of one launch may interleave.  *)
(***************************************************************************)
EXTENDS Integers, Sequences, SequencesExt, FiniteSets, FiniteSetsExt

CONSTANTS
    E,              \* experts of the layer (n_routed_experts)
    TopK,           \* routed experts of a token (kExperts)
    MaxChunk,       \* rows the grouped scratch is sized for (kMaxChunk)
    PerLaunch,      \* length of a weight-pointer table (kAeonSwizzledMaxExperts)
    Scores          \* choice scores: sqrt-softplus plus the correction bias

VARIABLES
    pc,             \* the next launch
    count,          \* tokens of the chunk; one when decoding
    grouped,        \* accumulate_routed_batch's grouped pair, or the GEMV pair
    hash,           \* is_hash_layer
    input,          \* per token: choice scores, or the row of tid2eid
    ids, weights,   \* d_topk_indices, d_topk_weights: by draw
    supply,         \* the executor's state_: distinct experts and their slots
    offsets,        \* d_perm_offsets
    placed,         \* experts whose scatter block has run
    tokens, draws,  \* d_perm_tokens, d_perm_draws: by position
    permuted,       \* d_perm_weights: by position
    hidden,         \* d_chunk_hidden (d_expert_hidden on the GEMV path)
    contrib,        \* d_chunk_contrib (d_contrib on the GEMV path)
    next,           \* the token or the expert the host loop is at
    accum           \* d_moe_accum: per token, the terms added so far

vars == <<pc, count, grouped, hash, input, ids, weights, supply, offsets,
          placed, tokens, draws, permuted, hidden, contrib, next, accum>>

Stale == [stale |-> TRUE]
Experts == 0 .. E - 1
Tokens == 0 .. count - 1
Draws == 0 .. count * TopK - 1
Positions == 0 .. MaxChunk * TopK - 1

-----------------------------------------------------------------------------
(* The router. *)

\* One scan of s_choice: the first expert of the largest unmasked score.
BestUnmasked(choice, masked) ==
    FoldLeft(LAMBDA best, e : IF e \notin masked /\ (best = -1 \/ choice[e] > choice[best])
                              THEN e ELSE best,
             -1, [i \in 1 .. E |-> i - 1])

\* Mutant: a tie goes to the later expert.
LateTieTopK(choice) ==
    FoldLeft(LAMBDA picked, k : Append(picked,
                 FoldLeft(LAMBDA best, e : IF e \notin Range(picked)
                                              /\ (best = -1 \/ choice[e] >= choice[best])
                                           THEN e ELSE best,
                          -1, [i \in 1 .. E |-> i - 1])),
             <<>>, [k \in 1 .. TopK |-> k])

\* The selection loop of moe_router_kernel, masking each pick.
KernelTopK(choice) ==
    FoldLeft(LAMBDA picked, k : Append(picked, BestUnmasked(choice, Range(picked))),
             <<>>, [k \in 1 .. TopK |-> k])

\* topk_indices of the oracle: descending score, ties to the lower index.
OracleTopK(choice) ==
    SubSeq(SetToSortSeq(Experts, LAMBDA a, b : \/ choice[a] > choice[b]
                                               \/ choice[a] = choice[b] /\ a < b),
           1, TopK)

\* A hash layer takes the table's row in column order.
KernelSelect(h, row) == IF h THEN row ELSE KernelTopK(row)

OracleSelect(h, row) == IF h THEN row ELSE OracleTopK(row)

\* The unbiased score of one pick over the sum of the token's picks.
Weight(token, selection, k) ==
    [token |-> token, expert |-> selection[k], over |-> selection]

RouterKernel ==
    /\ pc = "router"
    /\ ids' = [d \in Draws |-> KernelSelect(hash, input[d \div TopK])[(d % TopK) + 1]]
    /\ weights' = [d \in Draws |->
          Weight(d \div TopK, KernelSelect(hash, input[d \div TopK]), (d % TopK) + 1)]
    /\ pc' = "dispatch"
    /\ UNCHANGED <<count, grouped, hash, input, supply, offsets, placed, tokens,
                   draws, permuted, hidden, contrib, next, accum>>

-----------------------------------------------------------------------------
(* The supply's batch and the shared expert. *)

FirstDraw(e) == Min({d \in Draws : ids[d] = e})

\* The deduplicated union in order of first draw; the slot numbers run the
\* other way, so that a position is never mistaken for a slot.
SupplyBatch ==
    /\ pc = "dispatch"
    /\ LET distinct == SetToSortSeq({ids[d] : d \in Draws},
                                    LAMBDA a, b : FirstDraw(a) < FirstDraw(b))
           n == Len(distinct)
       IN supply' = [experts |-> distinct,
                     slots |-> [i \in 1 .. n |-> n - i],
                     token |-> [d \in Draws |-> CHOOSE i \in 1 .. n : distinct[i] = ids[d]]]
    /\ pc' = "shared"
    /\ UNCHANGED <<count, grouped, hash, input, ids, weights, offsets, placed,
                   tokens, draws, permuted, hidden, contrib, next, accum>>

\* What the VRAM pool holds in a slot.
InSlot(slot) == supply.experts[CHOOSE i \in DOMAIN supply.slots : supply.slots[i] = slot]

\* slot_of: -1 for an expert the batch did not draw.
SlotOf(e) ==
    IF e \in Range(supply.experts)
    THEN supply.slots[CHOOSE i \in DOMAIN supply.experts : supply.experts[i] = e]
    ELSE -1

\* Mutant: the accumulators are not cleared.
SharedExpertAdds ==
    /\ pc = "shared"
    /\ accum' = [t \in Tokens |-> Append(accum[t], [shared |-> t])]
    /\ pc' = IF grouped THEN "offsets" ELSE "token"
    /\ next' = 0
    /\ UNCHANGED <<count, grouped, hash, input, ids, weights, supply, offsets,
                   placed, tokens, draws, permuted, hidden, contrib>>

\* Clears every accumulator tile and runs the dense expert into it.
SharedExpert ==
    /\ pc = "shared"
    /\ accum' = [t \in Tokens |-> <<[shared |-> t]>>]
    /\ pc' = IF grouped THEN "offsets" ELSE "token"
    /\ next' = 0
    /\ UNCHANGED <<count, grouped, hash, input, ids, weights, supply, offsets,
                   placed, tokens, draws, permuted, hidden, contrib>>

-----------------------------------------------------------------------------
(* The kernels both paths share the meaning of. *)

GateUp(expert, token) == [expert |-> expert, token |-> token]

\* The down projection, scaled by the routing weight it is given.
Down(expert, activation, weight) ==
    [by |-> expert, of |-> activation, weight |-> weight]

\* moe_accumulate_fixed_order_kernel: slot order, onto the initial value.
FixedOrder(initial, rows) == initial \o rows

-----------------------------------------------------------------------------
(* The GEMV path: accumulate_routed, one token after another. *)

AccumulateToken ==
    /\ pc = "token"
    /\ LET table == [k \in 0 .. TopK - 1 |->
                        InSlot(supply.slots[supply.token[next * TopK + k]])]
           up == [k \in 0 .. TopK - 1 |-> GateUp(table[k], next)]
           down == [k \in 0 .. TopK - 1 |-> Down(table[k], up[k], weights[next * TopK + k])]
       IN /\ hidden' = [p \in DOMAIN hidden |-> IF p \in DOMAIN up THEN up[p] ELSE hidden[p]]
          /\ contrib' = [p \in DOMAIN contrib |-> IF p \in DOMAIN down THEN down[p] ELSE contrib[p]]
          /\ accum' = [accum EXCEPT ![next] =
                          FixedOrder(@, [k \in 1 .. TopK |-> contrib'[k - 1]])]
    /\ next' = next + 1
    /\ pc' = IF next + 1 < count THEN "token" ELSE "post"
    /\ UNCHANGED <<count, grouped, hash, input, ids, weights, supply, offsets,
                   placed, tokens, draws, permuted>>

-----------------------------------------------------------------------------
(* The grouped path: the permutation, the launches, the reduce. *)

\* Histogram and exclusive prefix sum: where an expert's draws begin.
PermutationOffsets ==
    /\ pc = "offsets"
    /\ offsets' = [e \in 0 .. E |-> Cardinality({d \in Draws : ids[d] < e})]
    /\ placed' = {}
    /\ pc' = "scatter"
    /\ UNCHANGED <<count, grouped, hash, input, ids, weights, supply, tokens,
                   draws, permuted, hidden, contrib, next, accum>>

\* The draws of an expert in index order.
DrawsOf(e) == SetToSortSeq({d \in Draws : ids[d] = e}, <)

\* One block of the scatter kernel; the blocks run in any order.
ScatterBlock(e) ==
    /\ pc = "scatter"
    /\ e \notin placed
    /\ LET mine == DrawsOf(e)
           Owns(p) == offsets[e] <= p /\ p < offsets[e + 1]
       IN /\ draws' = [p \in DOMAIN draws |->
                         IF Owns(p) THEN mine[p - offsets[e] + 1] ELSE draws[p]]
          /\ tokens' = [p \in DOMAIN tokens |->
                         IF Owns(p) THEN mine[p - offsets[e] + 1] \div TopK ELSE tokens[p]]
    /\ placed' = placed \union {e}
    /\ pc' = IF placed' = Experts THEN "gather" ELSE "scatter"
    /\ UNCHANGED <<count, grouped, hash, input, ids, weights, supply, offsets,
                   permuted, hidden, contrib, next, accum>>

\* By draw to by position.
GatherWeights ==
    /\ pc = "gather"
    /\ permuted' = [p \in DOMAIN permuted |->
                      IF p \in Draws THEN weights[draws[p]] ELSE permuted[p]]
    /\ pc' = "launch"
    /\ next' = 0
    /\ UNCHANGED <<count, grouped, hash, input, ids, weights, supply, offsets,
                   placed, tokens, draws, hidden, contrib, accum>>

Count(e) == offsets[e + 1] - offsets[e]

\* The pitch of the intermediate.
Widest == Max({1} \union {Count(e) : e \in Experts})

BatchCount(base) == Min({PerLaunch, E - base})

\* The gate/up rows of one launch: expert j of the batch owns rows from
\* j * Widest, and reads its tokens from the batch's first draw on.
GateUpRows(base) ==
    {[at |-> j * Widest + m, position |-> offsets[base + j] + m, expert |-> base + j] :
        j \in 0 .. BatchCount(base) - 1, m \in 0 .. Widest - 1}

\* Only the rows below the expert's count are stored.
Stored(base) == {r \in GateUpRows(base) : r.position < offsets[r.expert + 1]}

\* One batch of experts: the tables, then the gate/up and the down kernel.
LaunchBatch(base) ==
    LET rows == Stored(base)
        RowAt(p) == CHOOSE r \in rows : r.at = p
        up == [p \in {r.at : r \in rows} |->
                  GateUp(InSlot(SlotOf(RowAt(p).expert)), tokens[RowAt(p).position])]
        RowOf(d) == CHOOSE r \in rows : draws[r.position] = d
    IN /\ hidden' = [p \in DOMAIN hidden |-> IF p \in DOMAIN up THEN up[p] ELSE hidden[p]]
       /\ contrib' = [d \in DOMAIN contrib |->
             IF \E r \in rows : draws[r.position] = d
             THEN Down(InSlot(SlotOf(RowOf(d).expert)), hidden'[RowOf(d).at],
                       permuted[RowOf(d).position])
             ELSE contrib[d]]

\* The host loop over the batches of run_moe_grouped_expert_batch: a chunk
\* wider than the scratch, or a drawn expert without a slot, throws.
GroupedLaunch ==
    /\ pc = "launch"
    /\ IF \/ Widest > MaxChunk
          \/ \E e \in next .. next + BatchCount(next) - 1 : Count(e) > 0 /\ SlotOf(e) < 0
       THEN pc' = "refused" /\ UNCHANGED <<hidden, contrib, next>>
       ELSE /\ IF offsets[next] = offsets[next + BatchCount(next)]
               THEN UNCHANGED <<hidden, contrib>>
               ELSE LaunchBatch(next)
            /\ next' = next + PerLaunch
            /\ pc' = IF next + PerLaunch < E THEN "launch" ELSE "reduce"
    /\ UNCHANGED <<count, grouped, hash, input, ids, weights, supply, offsets,
                   placed, tokens, draws, permuted, accum>>

\* Token t owns the contributions of its own draws, in slot order.
GroupedReduce ==
    /\ pc = "reduce"
    /\ accum' = [t \in Tokens |->
          FixedOrder(accum[t], [k \in 1 .. TopK |-> contrib[t * TopK + k - 1]])]
    /\ pc' = "post"
    /\ UNCHANGED <<count, grouped, hash, input, ids, weights, supply, offsets,
                   placed, tokens, draws, permuted, hidden, contrib, next>>

-----------------------------------------------------------------------------
\* The scratch of a layer that starts a chunk holds what the last one left.
StaleRows == [p \in Positions |-> Stale]

StaleHidden == [p \in 0 .. PerLaunch * MaxChunk - 1 |-> Stale]

Rows == {s \in [1 .. TopK -> Experts] : Cardinality(Range(s)) = TopK}

Init ==
    /\ pc = "idle" /\ count = 0 /\ grouped = FALSE /\ hash = FALSE /\ input = <<>>
    /\ ids = <<>> /\ weights = <<>> /\ supply = <<>> /\ offsets = <<>> /\ placed = {}
    /\ tokens = StaleRows /\ draws = StaleRows /\ permuted = StaleRows
    /\ contrib = StaleRows /\ hidden = StaleHidden
    /\ next = 0 /\ accum = <<>>

\* A decode token takes the GEMV pair; a chunk takes either, by the switch.
BeginChunk(n, g, h) ==
    /\ pc = "idle"
    /\ count' = n /\ grouped' = g /\ hash' = h
    /\ input' \in [0 .. n - 1 -> IF h THEN Rows ELSE [Experts -> Scores]]
    /\ accum' = [t \in 0 .. n - 1 |-> <<Stale>>]
    /\ pc' = "router"
    /\ UNCHANGED <<ids, weights, supply, offsets, placed, tokens, draws,
                   permuted, hidden, contrib, next>>

\* The HC post consumes the accumulators; the next chunk finds the scratch
\* in a state it may not rely on.
Post ==
    /\ pc = "post"
    /\ pc' = "idle" /\ count' = 0 /\ grouped' = FALSE /\ hash' = FALSE /\ input' = <<>>
    /\ ids' = <<>> /\ weights' = <<>> /\ supply' = <<>> /\ offsets' = <<>> /\ placed' = {}
    /\ tokens' = StaleRows /\ draws' = StaleRows /\ permuted' = StaleRows
    /\ contrib' = StaleRows /\ hidden' = StaleHidden
    /\ next' = 0 /\ accum' = <<>>

Next ==
    \/ \E n \in 1 .. MaxChunk, g, h \in BOOLEAN : BeginChunk(n, g, h)
    \/ RouterKernel
    \/ SupplyBatch
    \/ SharedExpert
    \/ AccumulateToken
    \/ PermutationOffsets
    \/ \E e \in Experts : ScatterBlock(e)
    \/ GatherWeights
    \/ GroupedLaunch
    \/ GroupedReduce
    \/ Post

Spec == Init /\ [][Next]_vars

-----------------------------------------------------------------------------
\* The kernel's selection and its weights are the oracle's, ties included: the
\* masked strict scan of moe_router_kernel against topk_indices' ordering.
RoutesMatchOracle ==
    pc = "dispatch" =>
        \A t \in Tokens : LET s == OracleSelect(hash, input[t]) IN
            \A k \in 1 .. TopK : /\ ids[t * TopK + k - 1] = s[k]
                                 /\ weights[t * TopK + k - 1] = Weight(t, s, k)

\* What the oracle adds up for a token: the shared expert and, slot by slot,
\* the weighted output of the routed expert on that token's activation.
OracleTerms(t) ==
    <<[shared |-> t]>> \o
    [k \in 1 .. TopK |-> LET d == t * TopK + k - 1 IN
        Down(ids[d], GateUp(ids[d], t), weights[d])]

\* However the draws are permuted, batched, pitched and scattered, every
\* token's accumulator holds exactly the oracle's terms in slot order, and
\* nothing an earlier chunk left behind: both routed paths agree.
ChunkMatchesOracle ==
    pc = "post" => \A t \in Tokens : accum[t] = OracleTerms(t)

\* A chunk that fits the workspace is never refused by the grouped path: the
\* widest expert fits the scratch and every drawn expert has a slot.
NeverRefused == pc # "refused"

\* The permutation is a bijection from positions to draws that groups them by
\* expert and keeps each group in draw order, whatever order the blocks ran in.
PermutationSound ==
    pc \in {"gather", "launch", "reduce"} =>
        /\ {draws[p] : p \in Draws} = Draws
        /\ \A p \in Draws : tokens[p] = draws[p] \div TopK
        /\ \A p, q \in Draws : p < q =>
              \/ ids[draws[p]] < ids[draws[q]]
              \/ ids[draws[p]] = ids[draws[q]] /\ draws[p] < draws[q]

\* Types of the buffers, and the rows past the chunk that no kernel touches.
TypeOK ==
    /\ pc \in {"idle", "router", "dispatch", "shared", "token", "offsets", "scatter",
               "gather", "launch", "reduce", "post", "refused"}
    /\ count \in 0 .. MaxChunk
    /\ placed \subseteq Experts
    /\ DOMAIN hidden = 0 .. PerLaunch * MaxChunk - 1
    /\ \A p \in Positions \ Draws : draws[p] = Stale /\ permuted[p] = Stale
=============================================================================
