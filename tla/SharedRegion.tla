---------------------------- MODULE SharedRegion ----------------------------
(***************************************************************************)
(* The pinned host region at run time: every stage of a pipeline keeps its *)
(* Warm lane at the region's head and reads through the one corridor at    *)
(* its tail.  HostPartition moves the boundary when V4Graph::forward_window*)
(* opens and closes a window; forward_token and forward_window run the     *)
(* stages one after the other.                                             *)
(*                                                                         *)
(* A slot of the region holds a stage's Warm payload, a payload in transit *)
(* to a stage's VRAM, or nothing that matters.                             *)
(***************************************************************************)
EXTENDS MemoryBudget

VARIABLES
    phase,          \* "load", "rest", "token", "open", "strategy", "close" or "failed"
    at,             \* the stage the driver is at
    long,           \* the window is at least sweep_min_tokens long
    arena,          \* per stage: slot_count() of the staging arena
    usable,         \* per stage: host_capacity_usable of the registry
    current,        \* per stage: current_warm_slots_
    held,           \* per stage: the Warm slots that hold an expert
    transit,        \* per stage: the corridor slots between read and upload
    bytes           \* per region slot: what was written there last

regionVars == <<phase, at, long, arena, usable, current, held, transit, bytes>>
vars == <<budgetVars, regionVars>>

Region == IF plan = <<>> THEN 0 ELSE plan[1].region
Corridor(s) == Region - arena[s] .. Region - 1
Lane(s, warm) == plan[s].base .. plan[s].base + warm - 1
Nothing == <<"none", 0>>
Warm(s) == <<"warm", s>>
Transit(s) == <<"transit", s>>

\* PrefillSweep::is_feasible: the Hot pool can hold a layer.
Feasible(s) == reports[s].hot >= ExpertsPerLayer

\* The lane HostPartition is configured with is the budget's Warm slot count.
OwnLane(s) == [plan[s] EXCEPT !.lane = reports[s].warm]

-----------------------------------------------------------------------------
(* ExpertTierState::initialize, stage after stage.                         *)

\* configure: the sweep's windows are phases, otherwise the resting cut is the chunk's.
Resting == IF budget.sweep THEN StagingDecode ELSE StagingBatch

BuildTier ==
    /\ pc = "loaded" /\ phase = "load"
    /\ LET kept == IF Region > 0 /\ budget.preload THEN Lane(at, reports[at].warm) ELSE {}
       IN /\ arena' = [arena EXCEPT ![at] = IF Region > 0 THEN Resting ELSE StagingPeak]
          /\ usable' = [usable EXCEPT ![at] = reports[at].warm]
          /\ current' = [current EXCEPT ![at] = WarmFor(OwnLane(at), Resting)]
          /\ held' = [held EXCEPT ![at] = kept]
          /\ bytes' = [r \in DOMAIN bytes |-> IF r \in kept THEN Warm(at) ELSE bytes[r]]
    /\ IF at = Len(stages) THEN phase' = "rest" /\ at' = 1 ELSE at' = at + 1 /\ UNCHANGED phase
    /\ UNCHANGED <<budgetVars, long, transit>>

Load ==
    /\ BudgetNext
    /\ UNCHANGED <<phase, at, long>>
    /\ arena' = [s \in DOMAIN stages' |-> 0] /\ usable' = arena' /\ current' = arena'
    /\ held' = [s \in DOMAIN stages' |-> {}] /\ transit' = held'
    /\ bytes' = [r \in 0 .. (IF plan' = <<>> THEN 0 ELSE plan'[1].region) - 1 |-> Nothing]

-----------------------------------------------------------------------------
(* HostPartition::apply on stage s: warm slots for the lane, corridor      *)
(* slots for the arena.                                                    *)

Overlap(s, warm, corridor) ==
    corridor > Region \/ (warm > 0 /\ plan[s].base + warm > Region - corridor)

Apply(s, warm, corridor) ==
    LET kept == held[s] \cap Lane(s, warm)
    IN /\ usable' = [usable EXCEPT ![s] = warm]
       /\ current' = [current EXCEPT ![s] = warm]
       /\ arena' = [arena EXCEPT ![s] = corridor]
       /\ held' = [held EXCEPT ![s] = kept]
       /\ bytes' = [r \in DOMAIN bytes |-> IF r \in held[s] \ kept THEN Nothing ELSE bytes[r]]

\* What a stage at a boundary moves to, unless it is there or cannot.
Move(s, warm, corridor) ==
    IF Region = 0 \/ (current[s] = warm /\ arena[s] = corridor)
    THEN UNCHANGED <<arena, usable, current, held, bytes>>
    ELSE Apply(s, warm, corridor)
Refused(s, warm, corridor) ==
    /\ Region > 0 /\ ~(current[s] = warm /\ arena[s] = corridor)
    /\ transit[s] # {} \/ Overlap(s, warm, corridor)

\* The driver goes to the next stage, or to the next part of the pass.
Advance(next) ==
    IF at = Len(stages) THEN phase' = next /\ at' = 1 ELSE at' = at + 1 /\ UNCHANGED phase

At(s, warm, corridor, next) ==
    IF Refused(s, warm, corridor)
    THEN phase' = "failed" /\ UNCHANGED <<at, arena, usable, current, held, bytes>>
    ELSE Move(s, warm, corridor) /\ Advance(next)

-----------------------------------------------------------------------------
(* A pass.                                                                 *)

BeginToken ==
    /\ phase = "rest"
    /\ phase' = "token"
    /\ UNCHANGED <<budgetVars, at, long, arena, usable, current, held, transit, bytes>>

\* forward_window, prefill_open_window: the length is read by every stage.
BeginWindow(l) ==
    /\ phase = "rest"
    /\ phase' = "open" /\ long' = l
    /\ UNCHANGED <<budgetVars, at, arena, usable, current, held, transit, bytes>>

Sweeps(s) == budget.sweep /\ Feasible(s) /\ long

\* open_window
OpenWindow ==
    /\ phase = "open"
    /\ LET corridor == IF Sweeps(at) THEN StagingPrefill ELSE StagingBatch
       IN At(at, WarmFor(OwnLane(at), corridor), corridor, "strategy")
    /\ UNCHANGED <<budgetVars, long, transit>>

\* close_window
CloseWindow ==
    /\ phase = "close"
    /\ At(at, WarmFor(OwnLane(at), Resting), Resting, "rest")
    /\ UNCHANGED <<budgetVars, long, transit>>

\* A missing expert is read into a corridor slot of the stage's arena...
Read(r) ==
    /\ phase \in {"token", "strategy"}
    /\ Region > 0 /\ r \in Corridor(at) \ transit[at]
    /\ transit' = [transit EXCEPT ![at] = @ \cup {r}]
    /\ bytes' = [bytes EXCEPT ![r] = Transit(at)]
    /\ UNCHANGED <<budgetVars, phase, at, long, arena, usable, current, held>>

\* ... and uploaded from it.
Uploaded(r) ==
    /\ phase \in {"token", "strategy"} /\ r \in transit[at]
    /\ transit' = [transit EXCEPT ![at] = @ \ {r}]
    /\ bytes' = [bytes EXCEPT ![r] = IF @ = Transit(at) THEN Nothing ELSE @]
    /\ UNCHANGED <<budgetVars, phase, at, long, arena, usable, current, held>>

\* An eviction outside the prefill supplies lands in a Warm slot of the stage.
Demote(h) ==
    /\ phase = "token" \/ (phase = "strategy" /\ ~(budget.sweep /\ Feasible(at)))
    /\ Region > 0 /\ h \in Lane(at, usable[at])
    /\ held' = [held EXCEPT ![at] = @ \cup {h}]
    /\ bytes' = [bytes EXCEPT ![h] = Warm(at)]
    /\ UNCHANGED <<budgetVars, phase, at, long, arena, usable, current, transit>>

(* Mutant: the residual is handed over without waiting for the stage. *)
HandoffAtOnce ==
    /\ phase = "token" /\ (at = Len(stages) => transit[at] = {})
    /\ Advance("rest")
    /\ UNCHANGED <<budgetVars, long, arena, usable, current, held, transit, bytes>>

\* handoff_residual, or the logits read back: the stage's stream is at a boundary.
EndTokenStage ==
    /\ phase = "token" /\ transit[at] = {}
    /\ Advance("rest")
    /\ UNCHANGED <<budgetVars, long, arena, usable, current, held, transit, bytes>>

\* end_strategy drains the stage's streams before the next stage begins.
EndStrategy ==
    /\ phase = "strategy" /\ transit[at] = {}
    /\ Advance("close")
    /\ UNCHANGED <<budgetVars, long, arena, usable, current, held, transit, bytes>>

-----------------------------------------------------------------------------
Init ==
    /\ BudgetInit
    /\ phase = "load" /\ at = 1 /\ long = FALSE
    /\ arena = <<>> /\ usable = <<>> /\ current = <<>>
    /\ held = <<>> /\ transit = <<>> /\ bytes = [r \in {} |-> Nothing]

Next ==
    \/ Load \/ BuildTier
    \/ BeginToken \/ EndTokenStage
    \/ \E l \in BOOLEAN : BeginWindow(l)
    \/ OpenWindow \/ EndStrategy \/ CloseWindow
    \/ \E r \in DOMAIN bytes : Read(r) \/ Uploaded(r) \/ Demote(r)

Spec == Init /\ [][Next]_vars

-----------------------------------------------------------------------------
(* The registry's Warm capacity is the partition's and fits the lane
   (HostPartition, warm_partition.hpp). *)
RegionTypeOK ==
    /\ phase \in {"load", "rest", "token", "open", "strategy", "close", "failed"}
    /\ \A s \in DOMAIN plan :
         /\ arena[s] \in 0 .. Greatest(Region, StagingPeak) /\ usable[s] \in 0 .. plan[s].lane
         /\ held[s] \subseteq Lane(s, usable[s]) /\ transit[s] \subseteq Corridor(s)
         /\ phase = "rest" /\ Region > 0 => arena[s] = Resting

(* No corridor read overwrites a Warm payload, of the reading stage or of
   another one: what the registry calls Warm is still there (HostPartition
   keeps the lanes clear of the corridor through every window). *)
WarmIntact == \A s \in DOMAIN held : \A r \in held[s] : bytes[r] = Warm(s)

(* A payload between its read and its upload is not overwritten by another
   stage's read or demotion (forward_window: "two sweeps at once would
   overwrite each other's bytes"). *)
TransitIntact == \A s \in DOMAIN transit : \A r \in transit[s] : bytes[r] = Transit(s)

(* A window's boundary moves are never refused (HostPartition::apply throws
   when the lane and the corridor overlap or a transfer is live). *)
MovesAccepted == phase # "failed"

(* The host region is sound with several stages: the partition and the registry
   agree, neither Warm payloads nor payloads in transit are overwritten, and no
   boundary move is refused (HostPartition::apply, V4Graph::forward_window). *)
RegionSound == RegionTypeOK /\ WarmIntact /\ TransitIntact /\ MovesAccepted
=============================================================================
