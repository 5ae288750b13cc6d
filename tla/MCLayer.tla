------------------------------ MODULE MCLayer -------------------------------
(***************************************************************************)
(* The device code of a layer against the CPU oracle: the attention half,  *)
(* the mixture-of-experts half, and the weight layout the latter's kernels *)
(* read.  They meet in the hidden state and in the payload bytes, neither  *)
(* of which a kernel's control depends on, so each runs on its own         *)
(* instance while the others stay at an initial state.                     *)
(***************************************************************************)
EXTENDS LayerBody

CONSTANTS
    E, TopK, MoeChunk, PerLaunch, Scores,   \* MoeLayer
    Shapes, Waves                           \* SwizzledWeights

VARIABLES
    part,                                                    \* the part that runs
    pc, count, grouped, hash, input, ids, weights, supply, offsets, placed, tokens, draws,
    permuted, hidden, contrib, draw, accum,                  \* MoeLayer; draw is its next
    launch, shape, iter, offset, acc, output, nBase, kBase, slab \* SwizzledWeights; launch is its pc

Moe == INSTANCE MoeLayer WITH MaxChunk <- MoeChunk, next <- draw
Swizzled == INSTANCE SwizzledWeights WITH pc <- launch

moeVars == <<pc, count, grouped, hash, input, ids, weights, supply, offsets, placed, tokens,
             draws, permuted, hidden, contrib, draw, accum>>
weightVars == <<launch, shape, iter, offset, acc, output, nBase, kBase, slab>>
layerVars == <<part, vars, moeVars, weightVars>>

LayerInit ==
    /\ part \in {"attention", "moe", "weights"}
    /\ Init /\ Moe!Init /\ Swizzled!Init
    /\ \/ part = "attention"
       \/ kind = "sliding" /\ ~tile /\ selected = [r \in Rows |-> CHOOSE g \in Garbage : TRUE]
    /\ part = "weights" \/ shape = CHOOSE s \in Shapes : TRUE

LayerNext ==
    \/ part = "attention" /\ Next /\ UNCHANGED <<part, moeVars, weightVars>>
    \/ part = "moe" /\ Moe!Next /\ UNCHANGED <<part, vars, weightVars>>
    \/ part = "weights" /\ Swizzled!Next /\ UNCHANGED <<part, vars, moeVars>>

LayerSpec == LayerInit /\ [][LayerNext]_layerVars

-----------------------------------------------------------------------------
\* A score that depends on everything the key pools, with ties.
MCScore(token, key) ==
    LET weigh[s \in SUBSET key] ==
            IF s = {} THEN 0
            ELSE LET e == CHOOSE e \in s : TRUE
                 IN  weigh[s \ {e}] + (e[1] + 1) * (e[2][2] + 2 * e[2][1])
    IN  (weigh[key] * (token[2] + token[1])) % 3

MCGarbage == {<<0, 1>>, <<2, -1>>}

\* A wave of eight lanes in both proportions of the engine's two layouts, with
\* a last block that is not full of waves.
MCShapes == {[rpw |-> 2, lpr |-> 4, iters |-> 2, rows |-> 8],
             [rpw |-> 4, lpr |-> 2, iters |-> 3, rows |-> 12]}

\* Between chunks the attention workspace is dead: BeginChunk poisons it.  The
\* logits and the table row are dead once the selection is written.
MCView ==
    <<part, kind, tile, state, gen, next, chunk, attended, torn, saved,
      IF chunk = Idle THEN <<>> ELSE <<keys, selected>>,
      pc, count, grouped, IF pc \in {"router", "dispatch"} THEN <<hash, input>> ELSE <<>>,
      ids, weights, supply, offsets, placed, tokens, draws, permuted, hidden, contrib, draw, accum,
      weightVars>>

-----------------------------------------------------------------------------
\* The router kernel selects and weighs the oracle's experts, ties included
\* (moe_router_kernel).
RoutesMatchOracle == Moe!RoutesMatchOracle

\* On the token path and on the grouped one, every token's accumulator holds the
\* oracle's terms in slot order and nothing of an earlier chunk; on the way the
\* permutation is a bijection grouped by expert, whatever order its blocks run
\* in, no kernel touches rows past the chunk, and a chunk that fits the workspace
\* is not refused (accumulate_routed_batch, expert_permutation.hpp,
\* run_moe_grouped_expert_batch).
ChunkMatchesOracle ==
    Moe!TypeOK /\ Moe!PermutationSound /\ Moe!NeverRefused /\ Moe!ChunkMatchesOracle

\* The converter, the two C++ walks and the oracle's address arithmetic agree
\* where every nibble and scale of a matrix lies (swizzle_w4a16,
\* unswizzle_w4a16, swizzled_address).
LayoutsAgree == part = "weights" => Swizzled!LayoutsAgree

\* A launch stores only rows of its matrix, each as the oracle's product of every
\* element with its own activation and scale, and once finished all of them,
\* those of the last partial block included; a slab holds the transposed weights
\* whatever order the waves fill it in (aeon_w4a16_swizzled_gemv_kernel,
\* aeon_moe_fused_w2.hpp, grouped_dequant_w4a16_slab).
LaunchesMatchOracle ==
    Swizzled!TypeOK /\ Swizzled!RowsMatchOracle /\ Swizzled!EveryRowStored /\ Swizzled!SlabTransposed
=============================================================================
