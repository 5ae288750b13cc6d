-------------------------- MODULE MCExpertRegistry --------------------------
(* Small instances of ExpertRegistry for TLC. *)
EXTENDS ExpertRegistry

CONSTANTS Layers, ExpertsPerLayer

MCExpert == 0 .. Layers * ExpertsPerLayer - 1
MCLayer == 0 .. Layers - 1
MCLayerOf == [g \in MCExpert |-> g \div ExpertsPerLayer]
(* populate_round_robin: expert-major, layer-minor. *)
MCLoadOrder ==
  [i \in 1 .. Layers * ExpertsPerLayer |->
     ((i - 1) % Layers) * ExpertsPerLayer + ((i - 1) \div Layers)]

(* A finished operation leaves its id behind in the entry, where nothing reads
   it; the view identifies states that differ in such an id only. *)
MCView ==
  <<owner, slotIdx, pendingSlot, operation,
    [e \in Expert |-> IF operation[e] = "NONE" THEN 0 ELSE operationId[e]],
    gpuTransfer, leases, shadowSlot, warmShadow, marked, vramVars, hostVars, lruVars,
    nextOp, demotions, modeVars>>
=============================================================================
