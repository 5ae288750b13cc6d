--------------------------- MODULE ExpertExecutor ---------------------------
(***************************************************************************)
(* V4TieredExpertExecutor: what a layer body does with the routed experts. *)
(* Once the router's ids are known they are dispatched; the batch is then  *)
(* materialized, the kernels are launched behind its uploads, and the      *)
(* staging slots are handed back.  The router is external.                 *)
(***************************************************************************)
EXTENDS ExpertSupply

CONSTANT TopK   \* kExperts, the routed experts per token

ASSUME ExecutorAssumption == TopK \in Nat \ {0}

VARIABLES
  routed,   \* the distinct ids the router picked
  inUse     \* staging_in_use_

executorVars == <<routed, inUse>>
ExecutorInit == SupplyInit /\ routed = <<>> /\ inUse = {}

(* The transport and the devices move while the executor waits. *)
Beside(A) == A /\ UNCHANGED executorVars

(* The lists of distinct experts of layer l that a router may pick. *)
Routes(l, sizes) ==
  UNION {{ids \in [1 .. n -> {e \in Expert : LayerOf[e] = l}] : IsInjective(ids)} : n \in sizes}

(* The layer body reads the ids back, which waits for everything on the
   compute stream; on_routing_ready begins with a reap. *)
OnRouting(from, to, l, sizes) ==
  /\ pc = from /\ gpu["compute"] = <<>>
  /\ routed' \in Routes(l, sizes)
  /\ pc' = "reap" /\ ret' = <<"headroom", to>> /\ cursor' = 1
  /\ UNCHANGED <<Machine, todo, batch, leased, inUse>>

(* Mutant: the guard forgets the leases the dispatch is about to take. *)
HeadroomForgets(incoming) == Len(leased["executor"]) <= VramCap

(* ensure_pool_headroom *)
Headroom(incoming) == stream \/ Len(leased["executor"]) + incoming <= VramCap

HeadroomOk(incoming) ==
  /\ pc = "headroom" /\ Headroom(incoming)
  /\ Goto("order")
  /\ UNCHANGED <<Machine, cursor, todo, batch, leased, executorVars>>

(* Mutant: the drain does not hand the leases back before it looks again. *)
HeadroomSpins(incoming) ==
  /\ pc = "headroom" /\ ~Headroom(incoming) /\ Drained
  /\ pc' = "reap" /\ ret' = <<"headroom">> \o ret /\ cursor' = 1
  /\ UNCHANGED <<Machine, todo, batch, leased, executorVars>>

(* Every stream is drained, finished transfers are retired, and only then are
   the leases handed back. *)
HeadroomDrain(incoming) ==
  /\ pc = "headroom" /\ ~Headroom(incoming) /\ Drained
  /\ pc' = "reap" /\ ret' = <<"release", "order">> \o ret /\ cursor' = 1
  /\ UNCHANGED <<Machine, todo, batch, leased, executorVars>>

(* dispatch_layer_prefetch and dispatch_layer_prefetch_batch: the k-th distinct
   expert is given the staging slot base + k - 1. *)
StartDispatch(base) ==
  /\ pc = "order"
  /\ todo' = RequestOrder([k \in DOMAIN routed |->
               [gid |-> routed[k], stg |-> base + k - 1, stageOnly |-> FALSE]])
  /\ batch' = <<>>
  /\ pc' = "dispatch" /\ ret' = <<"materialize", "launch">> \o ret
  /\ UNCHANGED <<Machine, cursor, leased, executorVars>>

Sent == {batch[i] : i \in {j \in DOMAIN batch : batch[j].state = "sent"}}

(* Mutant: the kernels are not ordered behind the uploads. *)
KernelUnordered ==
  [kind |-> "KERNEL", op |-> 0, to |-> NoSlot, after |-> {},
   from |-> {<<batch[i].slot, batch[i].gid>> : i \in DOMAIN batch}]

(* materialize_batch orders the compute stream behind the upload of every
   expert that has one; the kernels read the batch's slots. *)
Kernel ==
  [kind |-> "KERNEL", op |-> 0, to |-> NoSlot,
   after |-> {<<"H2D", recorded[t.stg]>> : t \in Sent},
   from |-> {<<batch[i].slot, batch[i].gid>> : i \in DOMAIN batch}]

LaunchKernels(next) ==
  /\ pc = "launch"
  /\ gpu' = [gpu EXCEPT !["compute"] = Append(@, Kernel)]
  /\ inUse' = inUse \cup {t.stg : t \in Sent}
  /\ Goto(next)
  /\ UNCHANGED <<vars, staging, pending, ioVars, recorded, dataVars, cursor, todo, batch, leased,
                 routed>>

(* The end of on_routed_consumed: the slots go back while the uploads may still
   be running; release_after_gpu_transfer refuses one that is not COPYING. *)
ReturnStaging ==
  IF \A s \in inUse : staging[s] = "COPYING"
  THEN /\ staging' = [s \in SSlot |-> IF s \in inUse THEN "AVAILABLE" ELSE staging[s]]
       /\ inUse' = {} /\ Return
  ELSE Throw /\ UNCHANGED <<staging, inUse>>

OnConsumed ==
  /\ pc = "consumed"
  /\ ReturnStaging
  /\ UNCHANGED <<vars, pending, ioVars, gpu, recorded, dataVars, cursor, todo, batch, leased,
                 routed>>
=============================================================================
