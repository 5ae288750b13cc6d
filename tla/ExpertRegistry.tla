--------------------------- MODULE ExpertRegistry ---------------------------
(***************************************************************************)
(* ExpertRegistry (infrastructure/expert/residency): which tier owns each  *)
(* expert, which physical slot it sits in, and the reservations that carry *)
(* it from one tier to the next while asynchronous copies are in flight.   *)
(*                                                                         *)
(* A catalog entry of the code is one point of the functions below.  Three *)
(* of its fields are not kept: `publication' is UNPUBLISHED exactly while  *)
(* `operation' is not NONE, `slot_state' and the counters are never read   *)
(* by a decision, and `in_lru' is membership in an LRU list.  A call that  *)
(* throws before it changes anything is a disabled action.                 *)
(***************************************************************************)
EXTENDS Lists

CONSTANTS
  Expert,      \* global expert ids
  Layer,       \* layer ids
  LayerOf,     \* catalog[gid].layer_id
  LoadOrder,   \* the order in which init() places experts into the tiers
  VramCap,     \* vram_capacity
  HostCap,     \* host_capacity
  PreloadWarm, \* preload_warm_host
  QueueCap,    \* demotion_queue_capacity of every request
  MaxOps,      \* bound: requests that need a transfer
  MaxLeases    \* bound: leases per expert

ASSUME ExpertAssumption ==
  /\ Expert \subseteq Nat /\ IsFiniteSet(Expert)
  /\ LayerOf \in [Expert -> Layer]
ASSUME LoadOrderAssumption ==
  LoadOrder \in Seq(Expert) /\ IsInjective(LoadOrder)
ASSUME CapacityAssumption ==
  /\ VramCap \in Nat \ {0}
  /\ HostCap \in Nat
  /\ PreloadWarm \in BOOLEAN
  /\ QueueCap \in Nat
ASSUME BoundAssumption == MaxOps \in Nat /\ MaxLeases \in Nat

VARIABLES
  owner,        \* owner: HOT, WARM or COLD
  slotIdx,      \* slot_idx, in VRAM for HOT and in host memory for WARM
  pendingSlot,  \* pending_slot_idx
  operation,    \* operation: NONE, IO, PROMOTION or DEMOTION
  operationId,  \* operation_id
  gpuTransfer,  \* gpu_transfer: NONE, H2D or D2H
  leases,       \* lease_count
  shadowSlot,   \* shadow_vram_slot
  warmShadow,   \* warm_shadow
  marked,       \* resident_at_prefill_begin
  vramSlots,    \* vram_slots
  vramRes,      \* vram_slot_reservations
  freeVram,     \* free_vram_slots, a stack whose top is the last element
  hostSlots,    \* host_slots
  hostRes,      \* host_slot_reservations
  freeHost,     \* free_host_slots
  usable,       \* host_capacity_usable
  hotLru,       \* hot_vram_lru, most recent first
  warmLru,      \* warm_host_lru
  shadowLru,    \* shadow_lru_
  nextOp,       \* next_operation_id
  demotions,    \* pending_demotion_count
  frozen,       \* warm_frozen_
  stream,       \* prefill_stream_
  alloc         \* prefill_alloc_: FreeListOnly or BoundedEvict

entryVars == <<owner, slotIdx, pendingSlot, operation, operationId, gpuTransfer,
               leases, shadowSlot, warmShadow, marked>>
vramVars  == <<vramSlots, vramRes, freeVram>>
hostVars  == <<hostSlots, hostRes, freeHost, usable>>
lruVars   == <<hotLru, warmLru, shadowLru>>
modeVars  == <<frozen, stream, alloc>>
vars == <<entryVars, vramVars, hostVars, lruVars, nextOp, demotions, modeVars>>

VSlot == 0 .. VramCap - 1
HSlot == 0 .. HostCap - 1
NoSlot == -1
NoExpert == -1
Tier == {"HOT", "WARM", "COLD"}
Operation == {"NONE", "IO", "PROMOTION", "DEMOTION"}
GpuTransfer == {"NONE", "H2D", "D2H"}
Alloc == {"FreeListOnly", "BoundedEvict"}

-----------------------------------------------------------------------------
(* Selection from an LRU list.                                             *)

(* The least recently used element of lru that is in S: the reverse scans of
   reserve_vram_destination and reserve_warm_destination.  At most one. *)
Oldest(lru, S) ==
  {lru[i] : i \in {j \in DOMAIN lru :
     lru[j] \in S /\ \A k \in DOMAIN lru : k > j => lru[k] \notin S}}

(* The lists that hold lru's elements outside S in their order: exactly one. *)
Pruned(lru, S) ==
  LET keep == Range(lru) \ S IN
  {q \in Bijection(1 .. Cardinality(keep), keep) :
     \A i, j \in DOMAIN q : i < j =>
        \E m, n \in DOMAIN lru : m < n /\ lru[m] = q[i] /\ lru[n] = q[j]}

(* The one enumeration of a set of numbers in increasing order. *)
Ascending(S) ==
  {q \in Bijection(1 .. Cardinality(S), S) : \A i, j \in DOMAIN q : i < j => q[i] < q[j]}

(* push_lru_front: a no-op for an entry that is already listed. *)
PushFront(lru, e) == IF e \in Range(lru) THEN lru ELSE Cons(e, lru)

Touch(lru, e) == Cons(e, RemoveFirst(lru, e))

IsIncoming(e) == operation[e] \in {"IO", "PROMOTION"}
Incoming(op) == {e \in Expert : operationId[e] = op /\ IsIncoming(e)}
Victims(op) == {e \in Expert : operationId[e] = op /\ operation[e] = "DEMOTION"}

(* Mutant: a leased resident may be evicted. *)
UnusedOrLeased(e) == operation[e] = "NONE" /\ gpuTransfer[e] = "NONE"

Unused(e) == operation[e] = "NONE" /\ gpuTransfer[e] = "NONE" /\ leases[e] = 0

ShadowVictim == Oldest(shadowLru, {c \in Expert :
                  shadowSlot[c] # NoSlot /\ leases[c] = 0 /\ operation[c] = "NONE"})
PrefillVictim(g) == Oldest(hotLru, {c \in Expert : c # g /\ Unused(c) /\ ~marked[c]})
DecodeVictim(g) == Oldest(hotLru, {c \in Expert : c # g /\ Unused(c)})
WarmVictim(g) == Oldest(warmLru, {c \in Expert : c # g /\ Unused(c)})

(* find_reserved_host_slot: an empty slot reserved for op before any other. *)
ReservedHost(op) ==
  LET res == {h \in HSlot : hostRes[h] = op}
      empty == {h \in res : hostSlots[h] = NoExpert}
      from == IF empty # {} THEN empty ELSE res
  IN  {h \in from : \A k \in from : h <= k}

-----------------------------------------------------------------------------
(* init() and populate_round_robin(): the first experts of the load order go
   to VRAM, the next ones to host memory when Warm is preloaded. *)

Hot0 == IF VramCap < Len(LoadOrder) THEN VramCap ELSE Len(LoadOrder)
Warm0 == IF ~PreloadWarm THEN 0
         ELSE IF HostCap < Len(LoadOrder) - Hot0 THEN HostCap ELSE Len(LoadOrder) - Hot0
At(e) == CHOOSE i \in DOMAIN LoadOrder : LoadOrder[i] = e
HotAtInit == {LoadOrder[i] : i \in 1 .. Hot0}
WarmAtInit == {LoadOrder[i] : i \in Hot0 + 1 .. Hot0 + Warm0}

Init ==
  /\ owner = [e \in Expert |-> IF e \in HotAtInit THEN "HOT"
                               ELSE IF e \in WarmAtInit THEN "WARM" ELSE "COLD"]
  /\ slotIdx = [e \in Expert |-> IF e \in HotAtInit THEN At(e) - 1
                                 ELSE IF e \in WarmAtInit THEN At(e) - Hot0 - 1 ELSE NoSlot]
  /\ pendingSlot = [e \in Expert |-> NoSlot]
  /\ operation = [e \in Expert |-> "NONE"]
  /\ operationId = [e \in Expert |-> 0]
  /\ gpuTransfer = [e \in Expert |-> "NONE"]
  /\ leases = [e \in Expert |-> 0]
  /\ shadowSlot = [e \in Expert |-> NoSlot]
  /\ warmShadow = [e \in Expert |-> FALSE]
  /\ marked = [e \in Expert |-> FALSE]
  /\ vramSlots = [s \in VSlot |-> IF s < Hot0 THEN LoadOrder[s + 1] ELSE NoExpert]
  /\ vramRes = [s \in VSlot |-> 0]
  /\ freeVram = [i \in 1 .. VramCap - Hot0 |-> VramCap - i]
  /\ hostSlots = [h \in HSlot |-> IF h < Warm0 THEN LoadOrder[Hot0 + h + 1] ELSE NoExpert]
  /\ hostRes = [h \in HSlot |-> 0]
  /\ freeHost = [i \in 1 .. HostCap - Warm0 |-> HostCap - i]
  /\ usable = HostCap
  /\ hotLru = [i \in 1 .. Hot0 |-> LoadOrder[Hot0 + 1 - i]]
  /\ warmLru = [i \in 1 .. Warm0 |-> LoadOrder[Hot0 + Warm0 + 1 - i]]
  /\ shadowLru = <<>>
  /\ nextOp = 1
  /\ demotions = 0
  /\ frozen = FALSE /\ stream = FALSE /\ alloc = "FreeListOnly"

-----------------------------------------------------------------------------
(* reserve_request: the answers that need no transfer.                     *)

Lease(g) == leases[g] < MaxLeases /\ leases' = [leases EXCEPT ![g] = @ + 1]

(* An entry in flight is joined: the caller gets the operation's id. *)
JoinPending(g) ==
  /\ operation[g] # "NONE"
  /\ Lease(g)
  /\ UNCHANGED <<owner, slotIdx, pendingSlot, operation, operationId, gpuTransfer,
                 shadowSlot, warmShadow, marked, vramVars, hostVars, lruVars,
                 nextOp, demotions, modeVars>>

HotHit(g) ==
  /\ operation[g] = "NONE" /\ owner[g] = "HOT"
  /\ Lease(g)
  /\ hotLru' = Touch(hotLru, g)
  /\ UNCHANGED <<owner, slotIdx, pendingSlot, operation, operationId, gpuTransfer,
                 shadowSlot, warmShadow, marked, vramVars, hostVars, warmLru, shadowLru,
                 nextOp, demotions, modeVars>>

ShadowHit(g) ==
  /\ operation[g] = "NONE" /\ owner[g] = "WARM" /\ frozen /\ shadowSlot[g] # NoSlot
  /\ Lease(g)
  /\ shadowLru' = Touch(shadowLru, g)
  /\ UNCHANGED <<owner, slotIdx, pendingSlot, operation, operationId, gpuTransfer,
                 shadowSlot, warmShadow, marked, vramVars, hostVars, hotLru, warmLru,
                 nextOp, demotions, modeVars>>

-----------------------------------------------------------------------------
(* reserve_request: the answers that need a transfer.                      *)

NeedsTransfer(g) ==
  /\ operation[g] = "NONE" /\ owner[g] # "HOT"
  /\ ~(owner[g] = "WARM" /\ frozen /\ shadowSlot[g] # NoSlot)
  /\ nextOp <= MaxOps

(* Mutant: a stream promotes out of Warm. *)
ShadowingOutsideStream(g) == frozen /\ ~stream /\ owner[g] = "WARM"
Shadowing(g) == frozen /\ owner[g] = "WARM"
Promoting(g) == ~frozen /\ owner[g] = "WARM"

(* The fields of the incoming entry that no victim shares.  A promotion
   reserves its host slot; a shadow copy does not. *)
Launch(g, s) ==
  /\ NeedsTransfer(g)
  /\ Lease(g)
  /\ pendingSlot' = [pendingSlot EXCEPT ![g] = s]
  /\ warmShadow' = [warmShadow EXCEPT ![g] = Shadowing(g)]
  /\ vramRes' = IF s = NoSlot THEN vramRes ELSE [vramRes EXCEPT ![s] = nextOp]
  /\ nextOp' = nextOp + 1

(* The rest of the incoming entry, when no resident is demoted for it. *)
LaunchAlone(g, s) ==
  /\ Launch(g, s)
  /\ operation' = [operation EXCEPT ![g] = IF owner[g] = "WARM" THEN "PROMOTION" ELSE "IO"]
  /\ operationId' = [operationId EXCEPT ![g] = nextOp]
  /\ gpuTransfer' = [gpuTransfer EXCEPT ![g] = "H2D"]
  /\ warmLru' = RemoveFirst(warmLru, g)
  /\ hostRes' = IF Promoting(g) THEN [hostRes EXCEPT ![slotIdx[g]] = nextOp] ELSE hostRes
  /\ UNCHANGED <<hostSlots, freeHost, usable, marked, demotions, modeVars>>

ReserveFree(g) ==
  /\ freeVram # <<>>
  /\ LaunchAlone(g, Last(freeVram))
  /\ freeVram' = Front(freeVram)
  /\ UNCHANGED <<owner, slotIdx, shadowSlot, vramSlots, hotLru, shadowLru>>

MayEvictInPrefill ==
  freeVram = <<>> /\ (stream \/ frozen) /\ ~(stream /\ alloc = "FreeListOnly")

ReserveEvictShadow(g) ==
  /\ MayEvictInPrefill
  /\ \E v \in ShadowVictim :
       /\ LaunchAlone(g, shadowSlot[v])
       /\ vramSlots' = [vramSlots EXCEPT ![shadowSlot[v]] = NoExpert]
       /\ shadowSlot' = [shadowSlot EXCEPT ![v] = NoSlot]
       /\ shadowLru' = RemoveFirst(shadowLru, v)
  /\ UNCHANGED <<owner, slotIdx, freeVram, hotLru>>

(* A prefill eviction is a release: the victim is Cold at once. *)
ReserveEvictHot(g) ==
  /\ MayEvictInPrefill /\ ShadowVictim = {}
  /\ \E v \in PrefillVictim(g) :
       /\ LaunchAlone(g, slotIdx[v])
       /\ vramSlots' = [vramSlots EXCEPT ![slotIdx[v]] = NoExpert]
       /\ owner' = [owner EXCEPT ![v] = "COLD"]
       /\ slotIdx' = [slotIdx EXCEPT ![v] = NoSlot]
       /\ hotLru' = RemoveFirst(hotLru, v)
  /\ UNCHANGED <<shadowSlot, freeVram, shadowLru>>

(* Decode evicts the oldest unused Hot resident.  The victim keeps its slot,
   under the incoming operation's id, until its copy to host memory has landed
   or the incoming request completes. *)
Demote(g, v, gpu) ==
  /\ freeVram = <<>> /\ ~stream /\ ~frozen
  /\ Launch(g, slotIdx[v])
  /\ operation' = [operation EXCEPT ![g] = IF owner[g] = "WARM" THEN "PROMOTION" ELSE "IO",
                                    ![v] = "DEMOTION"]
  /\ operationId' = [operationId EXCEPT ![g] = nextOp, ![v] = nextOp]
  /\ gpuTransfer' = [gpuTransfer EXCEPT ![g] = "H2D", ![v] = gpu]
  /\ hotLru' = RemoveFirst(hotLru, v)
  /\ UNCHANGED <<shadowSlot, marked, vramSlots, freeVram, usable, shadowLru, modeVars>>

SourceHostRes(g) ==
  IF Promoting(g) THEN [hostRes EXCEPT ![slotIdx[g]] = nextOp] ELSE hostRes

WarmUnavailable(g) ==
  HostCap = 0 \/ demotions >= QueueCap \/ (freeHost = <<>> /\ WarmVictim(g) = {})

(* No Warm tier, the demotion queue is full, or Warm has no room: the victim
   is dropped, and becomes Cold when the request completes. *)
ReserveDropVictim(g) ==
  /\ WarmUnavailable(g)
  /\ \E v \in DecodeVictim(g) : Demote(g, v, "NONE")
  /\ hostRes' = SourceHostRes(g)
  /\ warmLru' = RemoveFirst(warmLru, g)
  /\ UNCHANGED <<owner, slotIdx, hostSlots, freeHost, demotions>>

(* Mutant: the demotion is not counted. *)
ReserveDemoteUncounted(g) ==
  /\ ~WarmUnavailable(g) /\ freeHost # <<>>
  /\ \E v \in DecodeVictim(g) : Demote(g, v, "D2H")
  /\ hostRes' = [SourceHostRes(g) EXCEPT ![Last(freeHost)] = nextOp]
  /\ freeHost' = Front(freeHost)
  /\ warmLru' = RemoveFirst(warmLru, g)
  /\ demotions' = demotions
  /\ UNCHANGED <<owner, slotIdx, hostSlots>>

ReserveDemoteToFree(g) ==
  /\ ~WarmUnavailable(g) /\ freeHost # <<>>
  /\ \E v \in DecodeVictim(g) : Demote(g, v, "D2H")
  /\ hostRes' = [SourceHostRes(g) EXCEPT ![Last(freeHost)] = nextOp]
  /\ freeHost' = Front(freeHost)
  /\ warmLru' = RemoveFirst(warmLru, g)
  /\ demotions' = demotions + 1
  /\ UNCHANGED <<owner, slotIdx, hostSlots>>

(* The oldest unused Warm resident gives its host slot up and is Cold. *)
ReserveDemoteOverWarm(g) ==
  /\ ~WarmUnavailable(g) /\ freeHost = <<>>
  /\ \E v \in DecodeVictim(g) : Demote(g, v, "D2H")
  /\ \E w \in WarmVictim(g) :
       /\ hostRes' = [SourceHostRes(g) EXCEPT ![slotIdx[w]] = nextOp]
       /\ hostSlots' = [hostSlots EXCEPT ![slotIdx[w]] = NoExpert]
       /\ owner' = [owner EXCEPT ![w] = "COLD"]
       /\ slotIdx' = [slotIdx EXCEPT ![w] = NoSlot]
       /\ warmLru' = RemoveFirst(RemoveFirst(warmLru, w), g)
  /\ demotions' = demotions + 1
  /\ UNCHANGED freeHost

(* stage_only: the operation starts with no VRAM slot.  Only the prefill
   sweep asks for it, inside a FreeListOnly stream (dispatch_layer_stream). *)
ReserveStaged(g) ==
  /\ stream /\ alloc = "FreeListOnly"
  /\ LaunchAlone(g, NoSlot)
  /\ UNCHANGED <<owner, slotIdx, shadowSlot, vramSlots, freeVram, hotLru, shadowLru>>

(* attach_vram_destination, for an operation that has no slot yet. *)
AttachDestination(g) ==
  /\ IsIncoming(g) /\ pendingSlot[g] = NoSlot
  /\ stream /\ alloc = "FreeListOnly" /\ freeVram # <<>>
  /\ pendingSlot' = [pendingSlot EXCEPT ![g] = Last(freeVram)]
  /\ vramRes' = [vramRes EXCEPT ![Last(freeVram)] = operationId[g]]
  /\ freeVram' = Front(freeVram)
  /\ UNCHANGED <<owner, slotIdx, operation, operationId, gpuTransfer, leases, shadowSlot,
                 warmShadow, marked, vramSlots, hostVars, lruVars, nextOp, demotions, modeVars>>

-----------------------------------------------------------------------------
(* The end of a demotion.                                                  *)

(* Mutant: the demotion is counted off twice. *)
CompleteDemotionTwice(v) ==
  /\ operation[v] = "DEMOTION" /\ gpuTransfer[v] = "D2H"
  /\ \E h \in ReservedHost(operationId[v]) :
       /\ hostSlots' = [hostSlots EXCEPT ![h] = v]
       /\ hostRes' = [hostRes EXCEPT ![h] = 0]
       /\ slotIdx' = [slotIdx EXCEPT ![v] = h]
  /\ owner' = [owner EXCEPT ![v] = "WARM"]
  /\ operation' = [operation EXCEPT ![v] = "NONE"]
  /\ gpuTransfer' = [gpuTransfer EXCEPT ![v] = "NONE"]
  /\ warmLru' = PushFront(warmLru, v)
  /\ vramSlots' = [vramSlots EXCEPT ![slotIdx[v]] = NoExpert]
  /\ demotions' = demotions - 2
  /\ UNCHANGED <<pendingSlot, operationId, leases, shadowSlot, warmShadow, marked, vramRes,
                 freeVram, freeHost, usable, hotLru, shadowLru, nextOp, modeVars>>

CompleteDemotion(v) ==
  /\ operation[v] = "DEMOTION" /\ gpuTransfer[v] = "D2H"
  /\ \E h \in ReservedHost(operationId[v]) :
       /\ hostSlots' = [hostSlots EXCEPT ![h] = v]
       /\ hostRes' = [hostRes EXCEPT ![h] = 0]
       /\ slotIdx' = [slotIdx EXCEPT ![v] = h]
  /\ owner' = [owner EXCEPT ![v] = "WARM"]
  /\ operation' = [operation EXCEPT ![v] = "NONE"]
  /\ gpuTransfer' = [gpuTransfer EXCEPT ![v] = "NONE"]
  /\ warmLru' = PushFront(warmLru, v)
  /\ vramSlots' = [vramSlots EXCEPT ![slotIdx[v]] = NoExpert]
  /\ demotions' = demotions - 1
  /\ UNCHANGED <<pendingSlot, operationId, leases, shadowSlot, warmShadow, marked, vramRes,
                 freeVram, freeHost, usable, hotLru, shadowLru, nextOp, modeVars>>

(* Mutant: the host slot is not given back. *)
FailDemotionLeaksHost(v) ==
  /\ operation[v] = "DEMOTION" /\ gpuTransfer[v] = "D2H"
  /\ \E h \in ReservedHost(operationId[v]) :
       /\ hostSlots' = [hostSlots EXCEPT ![h] = NoExpert]
       /\ hostRes' = [hostRes EXCEPT ![h] = 0]
       /\ freeHost' = freeHost
  /\ owner' = [owner EXCEPT ![v] = "COLD"]
  /\ slotIdx' = [slotIdx EXCEPT ![v] = NoSlot]
  /\ operation' = [operation EXCEPT ![v] = "NONE"]
  /\ gpuTransfer' = [gpuTransfer EXCEPT ![v] = "NONE"]
  /\ vramSlots' = [vramSlots EXCEPT ![slotIdx[v]] = NoExpert]
  /\ demotions' = demotions - 1
  /\ UNCHANGED <<pendingSlot, operationId, leases, shadowSlot, warmShadow, marked, vramRes,
                 freeVram, usable, lruVars, nextOp, modeVars>>

FailDemotion(v) ==
  /\ operation[v] = "DEMOTION" /\ gpuTransfer[v] = "D2H"
  /\ \E h \in ReservedHost(operationId[v]) :
       /\ hostSlots' = [hostSlots EXCEPT ![h] = NoExpert]
       /\ hostRes' = [hostRes EXCEPT ![h] = 0]
       /\ freeHost' = Append(freeHost, h)
  /\ owner' = [owner EXCEPT ![v] = "COLD"]
  /\ slotIdx' = [slotIdx EXCEPT ![v] = NoSlot]
  /\ operation' = [operation EXCEPT ![v] = "NONE"]
  /\ gpuTransfer' = [gpuTransfer EXCEPT ![v] = "NONE"]
  /\ vramSlots' = [vramSlots EXCEPT ![slotIdx[v]] = NoExpert]
  /\ demotions' = demotions - 1
  /\ UNCHANGED <<pendingSlot, operationId, leases, shadowSlot, warmShadow, marked, vramRes,
                 freeVram, usable, lruVars, nextOp, modeVars>>

-----------------------------------------------------------------------------
(* The end of a request.  A victim whose demotion was dropped is still there,
   and becomes Cold with it. *)

Settled(g) == \A v \in Victims(operationId[g]) : gpuTransfer[v] # "D2H"
Retired(g) == {g} \cup Victims(operationId[g])

ClearOperations(g) ==
  /\ operation' = [e \in Expert |-> IF e \in Retired(g) THEN "NONE" ELSE operation[e]]
  /\ gpuTransfer' = [e \in Expert |-> IF e \in Retired(g) THEN "NONE" ELSE gpuTransfer[e]]
  /\ pendingSlot' = [pendingSlot EXCEPT ![g] = NoSlot]

CompleteRequest(g) ==
  LET d == pendingSlot[g]
      dropped == Victims(operationId[g])
      src == slotIdx[g]
  IN
  /\ IsIncoming(g) /\ ~warmShadow[g] /\ gpuTransfer[g] = "H2D"
  /\ d # NoSlot /\ vramRes[d] = operationId[g]
  /\ Settled(g)
  /\ ClearOperations(g)
  /\ owner' = [e \in Expert |-> IF e = g THEN "HOT"
                                ELSE IF e \in dropped THEN "COLD" ELSE owner[e]]
  /\ slotIdx' = [e \in Expert |-> IF e = g THEN d
                                  ELSE IF e \in dropped THEN NoSlot ELSE slotIdx[e]]
  /\ vramSlots' = [s \in VSlot |-> IF s = d THEN g
                                   ELSE IF \E v \in dropped : slotIdx[v] = s THEN NoExpert
                                   ELSE vramSlots[s]]
  /\ vramRes' = [vramRes EXCEPT ![d] = 0]
  /\ IF owner[g] = "WARM"
     THEN /\ hostSlots[src] = g
          /\ hostSlots' = [hostSlots EXCEPT ![src] = NoExpert]
          /\ hostRes' = [hostRes EXCEPT ![src] = 0]
          /\ freeHost' = Append(freeHost, src)
     ELSE UNCHANGED <<hostSlots, hostRes, freeHost>>
  /\ hotLru' = PushFront(hotLru, g)
  /\ UNCHANGED <<operationId, leases, shadowSlot, warmShadow, marked, freeVram, usable,
                 warmLru, shadowLru, nextOp, demotions, modeVars>>

(* A frozen-prefill copy becomes a shadow residency; Warm keeps the expert. *)
CompleteShadow(g) ==
  LET d == pendingSlot[g] IN
  /\ IsIncoming(g) /\ warmShadow[g] /\ gpuTransfer[g] = "H2D"
  /\ d # NoSlot /\ vramRes[d] = operationId[g]
  /\ operation' = [operation EXCEPT ![g] = "NONE"]
  /\ operationId' = [operationId EXCEPT ![g] = 0]
  /\ gpuTransfer' = [gpuTransfer EXCEPT ![g] = "NONE"]
  /\ pendingSlot' = [pendingSlot EXCEPT ![g] = NoSlot]
  /\ warmShadow' = [warmShadow EXCEPT ![g] = FALSE]
  /\ shadowSlot' = [shadowSlot EXCEPT ![g] = d]
  /\ vramSlots' = [vramSlots EXCEPT ![d] = g]
  /\ vramRes' = [vramRes EXCEPT ![d] = 0]
  /\ warmLru' = PushFront(warmLru, g)
  /\ shadowLru' = Touch(shadowLru, g)
  /\ UNCHANGED <<owner, slotIdx, leases, marked, freeVram, hostVars, hotLru, nextOp,
                 demotions, modeVars>>

FailShadow(g) ==
  LET d == pendingSlot[g] IN
  /\ IsIncoming(g) /\ warmShadow[g]
  /\ operation' = [operation EXCEPT ![g] = "NONE"]
  /\ operationId' = [operationId EXCEPT ![g] = 0]
  /\ gpuTransfer' = [gpuTransfer EXCEPT ![g] = "NONE"]
  /\ pendingSlot' = [pendingSlot EXCEPT ![g] = NoSlot]
  /\ warmShadow' = [warmShadow EXCEPT ![g] = FALSE]
  /\ vramRes' = IF d = NoSlot THEN vramRes ELSE [vramRes EXCEPT ![d] = 0]
  /\ freeVram' = IF d # NoSlot /\ vramSlots[d] = NoExpert THEN Append(freeVram, d)
                 ELSE freeVram
  /\ warmLru' = PushFront(warmLru, g)
  /\ UNCHANGED <<owner, slotIdx, leases, shadowSlot, marked, vramSlots, hostVars, hotLru,
                 shadowLru, nextOp, demotions, modeVars>>

(* A failed request: what its victim and its slot go back to differs, what
   happens to its own entry does not. *)
FailIncoming(g) ==
  /\ IsIncoming(g) /\ ~warmShadow[g] /\ Settled(g)
  /\ ClearOperations(g)
  /\ vramRes' = IF pendingSlot[g] = NoSlot THEN vramRes
                ELSE [vramRes EXCEPT ![pendingSlot[g]] = 0]
  /\ IF owner[g] = "WARM"
     THEN /\ hostRes' = [hostRes EXCEPT ![slotIdx[g]] = 0]
          /\ warmLru' = PushFront(warmLru, g)
     ELSE UNCHANGED <<hostRes, warmLru>>
  /\ UNCHANGED <<operationId, leases, shadowSlot, warmShadow, marked, hostSlots, freeHost,
                 usable, hotLru, shadowLru, nextOp, demotions, modeVars>>

FailRequest(g) ==
  /\ FailIncoming(g) /\ Victims(operationId[g]) = {}
  /\ freeVram' = IF pendingSlot[g] # NoSlot /\ vramSlots[pendingSlot[g]] = NoExpert
                 THEN Append(freeVram, pendingSlot[g]) ELSE freeVram
  /\ UNCHANGED <<owner, slotIdx, vramSlots>>

FailRequestWithVictim(g) ==
  \E v \in Victims(operationId[g]) :
    LET d == pendingSlot[g]
        returned == IF d # NoSlot /\ vramSlots[d] = NoExpert THEN Append(freeVram, d)
                    ELSE freeVram
    IN
    /\ FailIncoming(g)
    /\ IF vramSlots[slotIdx[v]] = v
       THEN /\ vramSlots' = [vramSlots EXCEPT ![slotIdx[v]] = NoExpert]
            /\ freeVram' = Append(returned, slotIdx[v])
       ELSE freeVram' = returned /\ UNCHANGED vramSlots
    /\ owner' = [owner EXCEPT ![v] = "COLD"]
    /\ slotIdx' = [slotIdx EXCEPT ![v] = NoSlot]

ReleaseLease(g) ==
  /\ leases[g] > 0
  /\ leases' = [leases EXCEPT ![g] = @ - 1]
  /\ UNCHANGED <<owner, slotIdx, pendingSlot, operation, operationId, gpuTransfer, shadowSlot,
                 warmShadow, marked, vramVars, hostVars, lruVars, nextOp, demotions, modeVars>>

-----------------------------------------------------------------------------
(* Prefill streaming and the frozen Warm tier (prefill_residency.hpp).     *)

Quiet(S) == \A e \in S : leases[e] = 0 /\ operation[e] = "NONE"

(* The worst-LRU residents are drained, the others marked as preserved.  The
   sweep and the routed bank open a stream only at a stream boundary, before
   anything was dispatched under the legacy freeze, so no shadow is resident. *)
BeginPrefillStream(drain, policy) ==
  LET n == Len(hotLru)
      k == IF drain < n THEN drain ELSE n
      drained == {hotLru[i] : i \in n - k + 1 .. n}
  IN
  /\ ~stream /\ Quiet(Expert) /\ shadowLru = <<>>
  /\ marked' = [e \in Expert |-> owner[e] = "HOT" /\ e \notin drained]
  /\ pendingSlot' = [e \in Expert |-> NoSlot]
  /\ warmShadow' = [e \in Expert |-> FALSE]
  /\ shadowSlot' = [e \in Expert |-> NoSlot]
  /\ vramRes' = [s \in VSlot |-> 0]
  /\ hotLru' = SubSeq(hotLru, 1, n - k)
  /\ vramSlots' = [s \in VSlot |-> IF vramSlots[s] \in drained THEN NoExpert ELSE vramSlots[s]]
  /\ freeVram' = freeVram \o [i \in 1 .. k |-> slotIdx[hotLru[n + 1 - i]]]
  /\ owner' = [e \in Expert |-> IF e \in drained THEN "COLD" ELSE owner[e]]
  /\ slotIdx' = [e \in Expert |-> IF e \in drained THEN NoSlot ELSE slotIdx[e]]
  /\ stream' = TRUE /\ frozen' = TRUE /\ alloc' = policy
  /\ UNCHANGED <<operation, operationId, gpuTransfer, leases, hostVars, warmLru, shadowLru,
                 nextOp, demotions>>

(* Mutant: the preserved marks outlive the stream. *)
EndPrefillKeepsMarks ==
  /\ stream /\ Quiet(Expert)
  /\ \A e \in Expert : (owner[e] = "HOT" => marked[e]) /\ shadowSlot[e] = NoSlot
  /\ stream' = FALSE /\ frozen' = FALSE
  /\ marked' = marked
  /\ UNCHANGED <<owner, slotIdx, pendingSlot, operation, operationId, gpuTransfer, leases,
                 shadowSlot, warmShadow, vramVars, hostVars, lruVars, nextOp, demotions, alloc>>

EndPrefillStream ==
  /\ stream /\ Quiet(Expert)
  /\ \A e \in Expert : (owner[e] = "HOT" => marked[e]) /\ shadowSlot[e] = NoSlot
  /\ stream' = FALSE /\ frozen' = FALSE
  /\ marked' = [e \in Expert |-> FALSE]
  /\ UNCHANGED <<owner, slotIdx, pendingSlot, operation, operationId, gpuTransfer, leases,
                 shadowSlot, warmShadow, vramVars, hostVars, lruVars, nextOp, demotions, alloc>>

(* Mutant: the preserved residents of the layer are released too. *)
ReleaseLayerPreserved(l) ==
  LET inLayer == {e \in Expert : LayerOf[e] = l}
      hot == {e \in inLayer : owner[e] = "HOT"}
      shadow == {e \in inLayer : shadowSlot[e] # NoSlot}
  IN
  /\ stream /\ Quiet(inLayer)
  /\ \E q \in Ascending(hot \cup shadow) :
       freeVram' = freeVram \o
         [i \in DOMAIN q |-> IF q[i] \in hot THEN slotIdx[q[i]] ELSE shadowSlot[q[i]]]
  /\ vramSlots' = [s \in VSlot |-> IF vramSlots[s] \in hot \cup shadow THEN NoExpert
                                   ELSE vramSlots[s]]
  /\ owner' = [e \in Expert |-> IF e \in hot THEN "COLD" ELSE owner[e]]
  /\ slotIdx' = [e \in Expert |-> IF e \in hot THEN NoSlot ELSE slotIdx[e]]
  /\ shadowSlot' = [e \in Expert |-> IF e \in shadow THEN NoSlot ELSE shadowSlot[e]]
  /\ hotLru' \in Pruned(hotLru, hot)
  /\ shadowLru' \in Pruned(shadowLru, shadow)
  /\ marked' = [e \in Expert |-> marked[e] /\ e \notin hot]
  /\ UNCHANGED <<pendingSlot, operation, operationId, gpuTransfer, leases, warmShadow,
                 vramRes, hostVars, warmLru, nextOp, demotions, modeVars>>

(* release_layer: a computed layer gives back what the pass admitted. *)
ReleaseLayer(l) ==
  LET inLayer == {e \in Expert : LayerOf[e] = l}
      hot == {e \in inLayer : owner[e] = "HOT" /\ ~marked[e]}
      shadow == {e \in inLayer : shadowSlot[e] # NoSlot}
  IN
  /\ stream /\ Quiet(inLayer)
  /\ \E q \in Ascending(hot \cup shadow) :
       freeVram' = freeVram \o
         [i \in DOMAIN q |-> IF q[i] \in hot THEN slotIdx[q[i]] ELSE shadowSlot[q[i]]]
  /\ vramSlots' = [s \in VSlot |-> IF vramSlots[s] \in hot \cup shadow THEN NoExpert
                                   ELSE vramSlots[s]]
  /\ owner' = [e \in Expert |-> IF e \in hot THEN "COLD" ELSE owner[e]]
  /\ slotIdx' = [e \in Expert |-> IF e \in hot THEN NoSlot ELSE slotIdx[e]]
  /\ shadowSlot' = [e \in Expert |-> IF e \in shadow THEN NoSlot ELSE shadowSlot[e]]
  /\ hotLru' \in Pruned(hotLru, hot)
  /\ shadowLru' \in Pruned(shadowLru, shadow)
  /\ UNCHANGED <<pendingSlot, operation, operationId, gpuTransfer, leases, warmShadow, marked,
                 vramRes, hostVars, warmLru, nextOp, demotions, modeVars>>

(* The legacy per-token prefill freezes Warm without streaming. *)
FreezeWarm ==
  /\ ~stream /\ ~frozen
  /\ frozen' = TRUE
  /\ UNCHANGED <<entryVars, vramVars, hostVars, lruVars, nextOp, demotions, stream, alloc>>

(* Mutant: the shadows' slots are not given back. *)
ThawLeaksSlots ==
  /\ ~stream /\ frozen
  /\ \A e \in Expert : (warmShadow[e] => operation[e] = "NONE")
                        /\ (shadowSlot[e] # NoSlot => Quiet({e}))
  /\ frozen' = FALSE
  /\ freeVram' = freeVram
  /\ vramSlots' = [s \in VSlot |-> IF vramSlots[s] \in Range(shadowLru) THEN NoExpert
                                   ELSE vramSlots[s]]
  /\ shadowSlot' = [e \in Expert |-> IF e \in Range(shadowLru) THEN NoSlot ELSE shadowSlot[e]]
  /\ shadowLru' = <<>>
  /\ UNCHANGED <<owner, slotIdx, pendingSlot, operation, operationId, gpuTransfer, leases,
                 warmShadow, marked, vramRes, hostVars, hotLru, warmLru, nextOp, demotions,
                 stream, alloc>>

(* set_supply_phase drains the streams and reaps before it thaws, so no copy
   is in flight and, at a token boundary, no shadow is leased. *)
ThawWarm ==
  /\ ~stream /\ frozen
  /\ \A e \in Expert : (warmShadow[e] => operation[e] = "NONE")
                        /\ (shadowSlot[e] # NoSlot => Quiet({e}))
  /\ frozen' = FALSE
  /\ freeVram' = freeVram \o [i \in DOMAIN shadowLru |-> shadowSlot[shadowLru[i]]]
  /\ vramSlots' = [s \in VSlot |-> IF vramSlots[s] \in Range(shadowLru) THEN NoExpert
                                   ELSE vramSlots[s]]
  /\ shadowSlot' = [e \in Expert |-> IF e \in Range(shadowLru) THEN NoSlot ELSE shadowSlot[e]]
  /\ shadowLru' = <<>>
  /\ UNCHANGED <<owner, slotIdx, pendingSlot, operation, operationId, gpuTransfer, leases,
                 warmShadow, marked, vramRes, hostVars, hotLru, warmLru, nextOp, demotions,
                 stream, alloc>>

-----------------------------------------------------------------------------
(* The Warm/staging boundary (warm_partition.hpp).  HostPartition::apply    *)
(* always drains the tail and shrinks in one go, at a window boundary.      *)

GrowHost(u) ==
  /\ usable < u /\ u <= HostCap
  /\ \A h \in usable .. u - 1 : hostSlots[h] = NoExpert /\ hostRes[h] = 0
  /\ freeHost' = freeHost \o [i \in 1 .. u - usable |-> usable + i - 1]
  /\ usable' = u
  /\ UNCHANGED <<entryVars, vramVars, hostSlots, hostRes, lruVars, nextOp, demotions, modeVars>>

ShrinkHost(u) ==
  LET gone == {e \in Expert : owner[e] = "WARM" /\ slotIdx[e] >= u}
      room == {h \in HSlot : h < u /\ hostSlots[h] = NoExpert /\ hostRes[h] = 0}
  IN
  /\ u < usable
  /\ Quiet(gone) /\ \A e \in gone : shadowSlot[e] = NoSlot
  /\ \A h \in u .. usable - 1 : hostRes[h] = 0
  /\ owner' = [e \in Expert |-> IF e \in gone THEN "COLD" ELSE owner[e]]
  /\ slotIdx' = [e \in Expert |-> IF e \in gone THEN NoSlot ELSE slotIdx[e]]
  /\ warmLru' \in Pruned(warmLru, gone)
  /\ hostSlots' = [h \in HSlot |-> IF h >= u THEN NoExpert ELSE hostSlots[h]]
  /\ usable' = u
  /\ \E q \in Ascending(room) : freeHost' = Reverse(q)
  /\ UNCHANGED <<pendingSlot, operation, operationId, gpuTransfer, leases, shadowSlot, warmShadow,
                 marked, vramVars, hostRes, hotLru, shadowLru, nextOp, demotions, modeVars>>

-----------------------------------------------------------------------------
Request(g) ==
  \/ JoinPending(g) \/ HotHit(g) \/ ShadowHit(g)
  \/ ReserveFree(g) \/ ReserveEvictShadow(g) \/ ReserveEvictHot(g)
  \/ ReserveDropVictim(g) \/ ReserveDemoteToFree(g) \/ ReserveDemoteOverWarm(g)
  \/ ReserveStaged(g)

Settle(g) ==
  \/ AttachDestination(g) \/ CompleteDemotion(g) \/ FailDemotion(g)
  \/ CompleteRequest(g) \/ CompleteShadow(g)
  \/ FailRequest(g) \/ FailRequestWithVictim(g) \/ FailShadow(g)
  \/ ReleaseLease(g)

Phase ==
  \/ \E k \in 0 .. VramCap, p \in Alloc : BeginPrefillStream(k, p)
  \/ EndPrefillStream
  \/ \E l \in Layer : ReleaseLayer(l)
  \/ FreezeWarm \/ ThawWarm
  \/ \E u \in 0 .. HostCap : GrowHost(u) \/ ShrinkHost(u)

Next == (\E g \in Expert : Request(g) \/ Settle(g)) \/ Phase

Spec == Init /\ [][Next]_vars

-----------------------------------------------------------------------------
(* Properties.                                                             *)

(* Every variable has the type its field has in the code. *)
TypeOK ==
  /\ owner \in [Expert -> Tier]
  /\ slotIdx \in [Expert -> Nat \cup {NoSlot}]
  /\ pendingSlot \in [Expert -> VSlot \cup {NoSlot}]
  /\ operation \in [Expert -> Operation]
  /\ operationId \in [Expert -> Nat]
  /\ gpuTransfer \in [Expert -> GpuTransfer]
  /\ leases \in [Expert -> Nat]
  /\ shadowSlot \in [Expert -> VSlot \cup {NoSlot}]
  /\ warmShadow \in [Expert -> BOOLEAN]
  /\ marked \in [Expert -> BOOLEAN]
  /\ vramSlots \in [VSlot -> Expert \cup {NoExpert}]
  /\ vramRes \in [VSlot -> Nat]
  /\ freeVram \in Seq(VSlot)
  /\ hostSlots \in [HSlot -> Expert \cup {NoExpert}]
  /\ hostRes \in [HSlot -> Nat]
  /\ freeHost \in Seq(HSlot)
  /\ usable \in 0 .. HostCap
  /\ hotLru \in Seq(Expert) /\ warmLru \in Seq(Expert) /\ shadowLru \in Seq(Expert)
  /\ nextOp \in Nat \ {0}
  /\ demotions \in Nat
  /\ frozen \in BOOLEAN /\ stream \in BOOLEAN /\ alloc \in Alloc

(* Who holds and who is promised a VRAM slot. *)
Holds(e, s) == (owner[e] = "HOT" /\ slotIdx[e] = s) \/ shadowSlot[e] = s
Claims(e, s) == IsIncoming(e) /\ pendingSlot[e] = s

(* No VRAM slot is lost and none is handed out twice: a slot is on the free
   list exactly when no expert holds or claims it, and then once; it has at
   most one holder and one claimant; a holder under a claim is the claiming
   operation's own victim (reserve_vram_destination, complete_request,
   fail_request and the releases keep this together; the audit does not look
   at the free list). *)
VramAccounted ==
  /\ IsInjective(freeVram)
  /\ \A s \in VSlot :
       /\ s \in Range(freeVram) <=> \A e \in Expert : ~Holds(e, s) /\ ~Claims(e, s)
       /\ \A e, f \in Expert :
            /\ Holds(e, s) /\ Holds(f, s) => e = f
            /\ Claims(e, s) /\ Claims(f, s) => e = f
            /\ Holds(e, s) /\ Claims(f, s) =>
                 operation[e] = "DEMOTION" /\ operationId[e] = operationId[f]

HoldsHost(e, h) == owner[e] = "WARM" /\ slotIdx[e] = h
AwaitsHost(e, h) ==
  /\ operation[e] = "DEMOTION" /\ gpuTransfer[e] = "D2H"
  /\ hostRes[h] = operationId[e] /\ hostSlots[h] = NoExpert

(* The same for the host slots Warm may use now: a slot below the boundary is
   free exactly when no Warm expert holds it and no demotion is landing in it,
   and nothing of Warm is above the boundary (reserve_warm_destination,
   complete_demotion, fail_demotion, complete_request, warm_partition.hpp). *)
HostAccounted ==
  /\ IsInjective(freeHost)
  /\ \A h \in HSlot :
       /\ h \in Range(freeHost) <=>
            h < usable /\ \A e \in Expert : ~HoldsHost(e, h) /\ ~AwaitsHost(e, h)
       /\ \A e, f \in Expert :
            /\ HoldsHost(e, h) => h < usable /\ hostSlots[h] = e
            /\ AwaitsHost(e, h) => h < usable
            /\ (HoldsHost(e, h) \/ AwaitsHost(e, h)) /\ (HoldsHost(f, h) \/ AwaitsHost(f, h))
                 => e = f

(* No transfer can be stranded: an operation has one incoming expert and at
   most one victim; a victim sits in the very slot its incoming is waiting
   for; a D2H in flight has exactly one host slot to land in; and the demotion
   queue counts the D2H copies in flight, within its capacity. *)
OperationsResolvable ==
  /\ \A e, f \in Expert :
       /\ IsIncoming(e) /\ IsIncoming(f) /\ operationId[e] = operationId[f] => e = f
       /\ operation[e] = "DEMOTION" /\ operation[f] = "DEMOTION"
          /\ operationId[e] = operationId[f] => e = f
  /\ \A v \in Expert : operation[v] = "DEMOTION" =>
       \E g \in Incoming(operationId[v]) :
         /\ owner[v] = "HOT" /\ pendingSlot[g] = slotIdx[v] /\ ~warmShadow[g]
         /\ gpuTransfer[v] = "D2H" =>
              \E h \in HSlot : \A k \in HSlot : AwaitsHost(v, k) <=> k = h
  /\ demotions = Cardinality({v \in Expert : gpuTransfer[v] = "D2H"})
  /\ demotions <= QueueCap

(* validate_lru *)
LruMatches(lru, tier) ==
  /\ IsInjective(lru)
  /\ \A e \in Range(lru) : owner[e] = tier /\ operation[e] = "NONE"

(* The registry passes its own audit after every call, not only at the
   boundaries where the code runs validate_invariants. *)
AuditPasses ==
  /\ \A e \in Expert :
       /\ owner[e] = "HOT" => slotIdx[e] \in VSlot /\ vramSlots[slotIdx[e]] = e
       /\ owner[e] = "WARM" => slotIdx[e] \in 0 .. usable - 1 /\ hostSlots[slotIdx[e]] = e
       /\ owner[e] = "COLD" => slotIdx[e] = NoSlot
       /\ operation[e] # "NONE" => operationId[e] # 0
       /\ operation[e] = "NONE" => gpuTransfer[e] = "NONE" /\ ~warmShadow[e]
       /\ operation[e] # "NONE" /\ pendingSlot[e] # NoSlot =>
            vramRes[pendingSlot[e]] = operationId[e]
       /\ (shadowSlot[e] # NoSlot) <=> e \in Range(shadowLru)
       /\ shadowSlot[e] # NoSlot => owner[e] = "WARM" /\ vramSlots[shadowSlot[e]] = e
       /\ marked[e] => stream /\ owner[e] = "HOT"
  /\ \A s \in VSlot :
       /\ vramSlots[s] # NoExpert => Holds(vramSlots[s], s)
       /\ vramRes[s] # 0 /\ vramSlots[s] = NoExpert =>
            \E e \in Expert : operationId[e] = vramRes[s] /\ pendingSlot[e] = s
  /\ \A h \in HSlot :
       /\ hostSlots[h] # NoExpert => HoldsHost(hostSlots[h], h)
       /\ hostRes[h] # 0 =>
            \E e \in Expert : /\ operationId[e] = hostRes[h]
                              /\ slotIdx[e] = h \/ operation[e] = "DEMOTION"
  /\ ~frozen => shadowLru = <<>>
  /\ LruMatches(hotLru, "HOT") /\ LruMatches(warmLru, "WARM")

VramSlotOf(e) == IF owner[e] = "HOT" THEN slotIdx[e] ELSE shadowSlot[e]

(* A lease pins: while an expert is leased and resident in VRAM with no
   transfer of its own, no call moves it out of its VRAM slot or begins to --
   not a later request's eviction, a drain, a layer release or a thaw. *)
LeasePinsResidency ==
  [][\A e \in Expert :
       leases[e] > 0 /\ operation[e] = "NONE" /\ VramSlotOf(e) # NoSlot
       => VramSlotOf(e)' = VramSlotOf(e) /\ operation'[e] = "NONE"]_vars

(* A resident preserved at the start of a prefill is in the same slot, and not
   in transit, at every step until the stream ends. *)
PreservedSurvive ==
  [][\A e \in Expert : marked[e] =>
       /\ owner'[e] = "HOT" /\ slotIdx'[e] = slotIdx[e] /\ operation'[e] = "NONE"
       /\ stream' => marked'[e]]_vars

(* A prefill stream reads Warm without spending it: except for a boundary
   move, no step of the stream changes which experts Warm holds or where. *)
StreamKeepsWarm ==
  [][stream /\ stream' /\ usable' = usable =>
       \A e \in Expert, h \in HSlot : HoldsHost(e, h)' <=> HoldsHost(e, h)]_vars
=============================================================================
