---------------------------- MODULE MemoryBudget ----------------------------
(***************************************************************************)
(* What a load decides before it allocates: ParallelTopology splits the    *)
(* layers over pipeline stages, MemoryBudgetEngine lays out the one pinned *)
(* host region the stages share and sizes each stage's expert pools on its *)
(* own device.  V4ModelHost::initialize makes the calls in this order and  *)
(* stops at the first refusal.                                             *)
(*                                                                         *)
(* Bytes are small units, stages count from 1, and a uint32_t wraps at     *)
(* Wrap.                                                                   *)
(***************************************************************************)
EXTENDS Integers, Sequences, FiniteSetsExt, Functions

CONSTANTS
    Topologies,         \* requested topologies: [pp, ids, visible]
    Budgets,            \* runtime configurations: [context, window, chunk, sweep, blocks, cap, warm, preload]
    Devices,            \* what hipMemGetInfo may report: [total, free]
    Layers, ExpertsPerLayer, TopK, PayloadBytes,
    MaxPosition,        \* max_position_embeddings
    DenseBytes,         \* dense weights, per layer
    DecodeScratch, BatchScratch, CarryPerToken,
    LocalBytes, RopeBytes,      \* attention state: per layer, and per position
    Utilization,        \* gpu_memory_utilization, in percent
    HostAllowed,        \* max_allowed_host_ram_bytes
    CapFloor,           \* the floor of max_hot_vram_slots, 6
    Wrap                \* 2^32

ASSUME BudgetConstants ==
    /\ {Layers, ExpertsPerLayer, TopK, PayloadBytes, MaxPosition, Wrap} \subseteq Nat \ {0}
    /\ {DenseBytes, DecodeScratch, BatchScratch, CarryPerToken, LocalBytes, HostAllowed} \subseteq Nat
    /\ RopeBytes \in Nat \ {0} /\ Utilization \in 1 .. 100 /\ CapFloor \in Nat

VARIABLES
    topology,           \* the request
    budget,             \* the runtime configuration
    pc,                 \* "resolve", "plan", "evaluate", "loaded" or "refused"
    stages,             \* stages_: the layer ranges
    plan,               \* host_plan: one SharedHostRegion per stage
    reports             \* budgets_: one report per stage evaluated

budgetVars == <<topology, budget, pc, stages, plan, reports>>

Least(a, b) == IF a <= b THEN a ELSE b
Greatest(a, b) == IF a >= b THEN a ELSE b

-----------------------------------------------------------------------------
(* ParallelTopology, one rank per stage.                                   *)

DeviceIds == IF topology.ids = <<>> THEN [i \in 1 .. topology.pp |-> i - 1] ELSE topology.ids

TopologyAccepted ==
    /\ topology.pp \in 1 .. Layers
    /\ Len(DeviceIds) = topology.pp
    /\ Range(DeviceIds) \subseteq 0 .. topology.visible - 1
    /\ IsInjective(DeviceIds)

\* Contiguous ranges, the remainder to the earliest stages.
Ranges(pp) ==
    LET count(s) == (Layers \div pp) + IF s <= Layers % pp THEN 1 ELSE 0
    IN [s \in 1 .. pp |-> [first |-> (s - 1) * (Layers \div pp) + Least(s - 1, Layers % pp),
                           count |-> count(s)]]

StageOf(layer) ==
    Min({s \in DOMAIN stages : s = Len(stages) \/ stages[s].first + stages[s].count > layer})

Resolve ==
    /\ pc = "resolve"
    /\ pc' = IF TopologyAccepted THEN "plan" ELSE "refused"
    /\ stages' = IF TopologyAccepted THEN Ranges(topology.pp) ELSE stages
    /\ UNCHANGED <<topology, budget, plan, reports>>

-----------------------------------------------------------------------------
(* The host region: staging_slot_counts, split_host_budget,                *)
(* plan_shared_host_region.                                                *)

StagingDecode == 2 * TopK
StagingBatch ==
    Greatest(StagingDecode, Least(TopK * Greatest(1, budget.chunk), ExpertsPerLayer))
StagingPrefill ==
    IF budget.sweep
    THEN Greatest(StagingBatch, Greatest(1, budget.blocks) * ExpertsPerLayer)
    ELSE StagingBatch
StagingPeak == Max({StagingDecode, StagingBatch, StagingPrefill})

(* Mutant: each share is floored on its own, so a remainder is dropped. *)
FlooredShare(total, counts, s) ==
    (total * counts[s]) \div SumFunctionOnSet(counts, DOMAIN counts)

\* Cumulative floors.
Share(total, counts, s) ==
    LET all == SumFunctionOnSet(counts, DOMAIN counts)
        before == SumFunctionOnSet(counts, 1 .. s - 1)
    IN ((total * (before + counts[s])) \div all) - ((total * before) \div all)

SharedHostRegion(counts) ==
    LET warm == budget.warm \div PayloadBytes
        slots == IF warm = 0 /\ Len(counts) > 1 THEN StagingPeak ELSE warm
        lanes == IF warm > 0 /\ slots > StagingDecode THEN slots - StagingDecode ELSE 0
        lane == [s \in DOMAIN counts |-> Share(lanes, counts, s)]
    IN [s \in DOMAIN counts |->
          [region |-> slots, base |-> SumFunctionOnSet(lane, 1 .. s - 1), lane |-> lane[s]]]

Counts == [s \in DOMAIN stages |-> stages[s].count]

PlanHostRegion ==
    /\ pc = "plan"
    /\ plan' = SharedHostRegion(Counts) /\ pc' = "evaluate"
    /\ UNCHANGED <<topology, budget, stages, reports>>

\* warm_for: the part of the lane ahead of a corridor of that many slots.
WarmFor(p, staging) == Least(Greatest(0, Greatest(0, p.region - staging) - p.base), p.lane)

-----------------------------------------------------------------------------
(* MemoryBudgetEngine::evaluate for one stage on one device.               *)

\* make_v4_memory_geometry: layer state of the stage, RoPE tables of the context.
AttentionBytes(s, context) == (stages[s].count * LocalBytes) + (context * RopeBytes)

CarryBytes ==
    CarryPerToken * IF budget.window = 0 THEN budget.context ELSE Least(budget.window, budget.context)
ScratchBytes == DecodeScratch + IF budget.sweep THEN BatchScratch + CarryBytes ELSE 0
Dense(s) == stages[s].count * DenseBytes
MinActiveBytes == 2 * TopK * PayloadBytes

UsableVram(device) == (Utilization * device.total) \div 100

ContextFits(s, context, usable) ==
    Dense(s) + ScratchBytes + MinActiveBytes + AttentionBytes(s, context) <= usable


\* The largest context that fits, by bisection.
MaxViableContext(s, usable) ==
    LET f[low \in 0 .. MaxPosition, high \in 0 .. MaxPosition] ==
          IF low >= high THEN low
          ELSE LET mid == low + ((high - low + 1) \div 2)
               IN IF ContextFits(s, mid, usable) THEN f[mid, high] ELSE f[low, mid - 1]
    IN IF usable > Dense(s) + ScratchBytes + MinActiveBytes THEN f[0, MaxPosition] ELSE 0

Baseline(s) ==
    Dense(s) + AttentionBytes(s, budget.context) + ScratchBytes + MinActiveBytes

HotSlots(s, usable) ==
    LET slots == (usable - Dense(s) - AttentionBytes(s, budget.context) - ScratchBytes) \div PayloadBytes
    IN IF budget.cap > 0 THEN Least(slots, Greatest(budget.cap, CapFloor)) ELSE slots

\* The gates in their order; the one that refuses, or "none".
Refusal(s, device, usable) ==
    CASE usable > device.free -> "free"
      [] budget.context = 0 -> "context"
      [] budget.context > MaxPosition -> "context"
      [] Baseline(s) > usable -> "vram"
      [] plan[s].region * PayloadBytes > HostAllowed -> "host"
      [] budget.warm # 0 /\ plan[s].region < StagingPeak -> "corridor"
      [] OTHER -> "none"

Report(s, device) ==
    LET usable == UsableVram(device)
        total == stages[s].count * ExpertsPerLayer
        hot == HotSlots(s, usable)
        warm == Least(Greatest(0, total - hot), plan[s].lane)
    IN [usable |-> usable, maxContext |-> MaxViableContext(s, usable), hot |-> hot, warm |-> warm,
        cold |-> (total - (hot + warm)) % Wrap]

Evaluate(device) ==
    LET s == Len(reports) + 1
    IN /\ pc = "evaluate"
       /\ IF Refusal(s, device, UsableVram(device)) = "none"
          THEN /\ reports' = Append(reports, Report(s, device))
               /\ pc' = IF s = Len(stages) THEN "loaded" ELSE pc
          ELSE pc' = "refused" /\ UNCHANGED reports
       /\ UNCHANGED <<topology, budget, stages, plan>>

-----------------------------------------------------------------------------
BudgetInit ==
    /\ topology \in Topologies /\ budget \in Budgets
    /\ pc = "resolve" /\ stages = <<>> /\ plan = <<>> /\ reports = <<>>

BudgetNext == Resolve \/ PlanHostRegion \/ \E device \in Devices : Evaluate(device)

BudgetSpec == BudgetInit /\ [][BudgetNext]_budgetVars

-----------------------------------------------------------------------------
(* Every count a stage is built from is a uint32_t no larger than what it
   counts: the region, the lane, the stage's experts (SharedHostRegion,
   MemoryBudgetReport). *)
BudgetTypeOK ==
    /\ pc \in {"resolve", "plan", "evaluate", "loaded", "refused"}
    /\ \A s \in DOMAIN plan : plan[s].base + plan[s].lane <= plan[s].region
    /\ \A s \in DOMAIN reports :
         /\ reports[s].maxContext \in 0 .. MaxPosition
         /\ reports[s].hot \in Nat /\ reports[s].warm \in 0 .. plan[s].lane
         /\ reports[s].cold \in 0 .. Wrap - 1

(* Each layer belongs to one stage, the one stage_of names, each stage has a
   device of its own, and no stage is empty or more than one layer longer
   than another (ParallelTopology::resolve). *)
LayersPartitioned ==
    /\ \A layer \in 0 .. Layers - 1, s \in DOMAIN stages :
         layer \in stages[s].first .. stages[s].first + stages[s].count - 1 <=> s = StageOf(layer)
    /\ \A s, t \in DOMAIN stages : stages[s].count >= 1 /\ stages[s].count <= stages[t].count + 1
    /\ stages # <<>> => IsInjective(DeviceIds)

(* A pipeline has as much Warm as one device would, in every phase: the lanes
   split the region without losing a slot, and a larger corridor takes the
   same slots from them as from one lane (memory_budget_engine.hpp: "so total
   Warm is the same as on one device"). *)
WarmAsOnOneDevice ==
    plan # <<>> =>
      LET one == SharedHostRegion(<<Layers>>)[1]
          ofAll(staging) == SumFunctionOnSet([s \in DOMAIN plan |-> WarmFor(plan[s], staging)], DOMAIN plan)
      IN budget.warm >= PayloadBytes =>
           \A staging \in {StagingDecode, StagingBatch, StagingPrefill} :
             ofAll(staging) = WarmFor(one, staging)


(* What a stage allocates on its device: the prefill workspace is allocated
   whether or not the sweep is on (V4StageHost::initialize_experts). *)
Allocated(s) ==
    Dense(s) + AttentionBytes(s, budget.context) + DecodeScratch + BatchScratch + CarryBytes
      + (reports[s].hot * PayloadBytes)

(* With the sweep on a loaded stage stays inside its device's allowance and can
   hold two tokens' routed experts, and the host region inside the host's
   (evaluate sizes the Hot pool from what the rest leaves). *)
WithinAllowance ==
    pc = "loaded" /\ budget.sweep => \A s \in DOMAIN reports :
      /\ Allocated(s) <= reports[s].usable
      /\ budget.cap = 0 => reports[s].hot >= 2 * TopK
      /\ plan[s].region * PayloadBytes <= HostAllowed

(* The plan of a load is sound: its counts are in range, layers and Warm are
   divided without loss, and no device or host is over-committed
   (ParallelTopology::resolve, SharedHostRegion, evaluate). *)
PlanSound == BudgetTypeOK /\ LayersPartitioned /\ WarmAsOnOneDevice /\ WithinAllowance
=============================================================================
