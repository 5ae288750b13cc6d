---------------------------- MODULE PrefillSweep ----------------------------
(***************************************************************************)
(* PrefillSweep (prefill_sweep.hpp, prefill_lookahead.hpp): a prefill pass *)
(* that loads whole layers in order.  While a layer computes, the reads of *)
(* the layers after it land in other banks of the staging arena; a layer's *)
(* copies take VRAM slots only when they can run.                          *)
(***************************************************************************)
EXTENDS ExpertExecutor

CONSTANT NumLayers   \* the stage's layers, numbered from 0

ASSUME SweepAssumption == NumLayers \in Nat \ {0} /\ Layer = 0 .. NumLayers - 1

VARIABLES
  arena,     \* slot_count() of the staging arena as it is bound now
  active,    \* active_
  layer,     \* active_layer_
  ahead,     \* ahead_: the queued layers and their batches
  resident,  \* resident_state_; its layer is NoLayer when resident_valid_ is false
  plan,      \* the locals of dispatch_ahead: the next layer and the budget
  settling,  \* the layer whose entry materialize_entry is working on
  pumped     \* the transfer pump() looks at next: queue position, index

sweepVars == <<arena, active, layer, ahead, resident, plan, settling, pumped>>

NoLayer == -1
Idle == [layer |-> NoLayer, batch |-> <<>>]

PerLayer == Cardinality({e \in Expert : LayerOf[e] = 0})
InLayer(l) == {e \in Expert : LayerOf[e] = l}

SweepInit(slots) ==
  /\ ExecutorInit
  /\ arena = slots /\ active = FALSE /\ layer = 0
  /\ ahead = <<>> /\ resident = Idle
  /\ plan = [layer |-> 0, budget |-> 0] /\ settling = NoLayer /\ pumped = <<1, 1>>

(* The transport moves and the sweep does not. *)
Under(A) == A /\ UNCHANGED <<executorVars, sweepVars>>

-----------------------------------------------------------------------------
(* What the sweep reads.                                                   *)

Banks == IF arena \div PerLayer > 1 THEN arena \div PerLayer ELSE 1
DeferredDrain == Banks > 1
(* Mutant: every layer is read into the first bank. *)
OneBank(l) == 0

StagingBase(l) == IF Banks = 1 THEN 0 ELSE (l % Banks) * PerLayer

Missing(l) == {e \in InLayer(l) : owner[e] # "HOT" /\ shadowSlot[e] = NoSlot}
FreeStaging == Cardinality({s \in 0 .. arena - 1 : staging[s] = "AVAILABLE"})

Reading(b) == \E i \in DOMAIN b : b[i].state = "reading"
ReadsInFlight == \E i \in DOMAIN ahead : Reading(ahead[i].batch)

(* read_lookahead_capacity *)
Lookahead == Min({FreeStaging \div PerLayer, IF Banks > 1 THEN Banks - 1 ELSE 1})

(* The steps a materialized entry goes through. *)
SettleEntry == <<"reclaim", "materialize", "finish", "release_sweep", "settled">>

-----------------------------------------------------------------------------
(* dispatch_ahead: queue the next layers' reads.                           *)

AheadStart ==
  /\ pc = "ahead"
  /\ IF plan.layer >= NumLayers \/ ReadsInFlight \/ Lookahead <= Len(ahead)
     THEN Return /\ UNCHANGED plan
     ELSE /\ Goto("ahead_next")
          /\ plan' = [layer |-> IF ahead = <<>> THEN plan.layer
                                ELSE Max({plan.layer, Last(ahead).layer + 1}),
                      budget |-> Lookahead - Len(ahead)]
  /\ UNCHANGED <<Machine, cursor, todo, batch, leased, executorVars, arena, active, layer, ahead,
                 resident, settling, pumped>>

(* Layers that are resident already are passed over. *)
AheadNext ==
  LET due == {l \in plan.layer .. NumLayers - 1 : Missing(l) # {}} IN
  /\ pc = "ahead_next"
  /\ IF plan.budget = 0 \/ due = {}
     THEN Return /\ UNCHANGED <<plan, cursor>>
     ELSE /\ plan' = [plan EXCEPT !.layer = Min(due)]
          /\ pc' = "reap" /\ ret' = <<"stream", "queued">> \o ret /\ cursor' = 1
  /\ UNCHANGED <<Machine, todo, batch, leased, executorVars, arena, active, layer, ahead,
                 resident, settling, pumped>>

(* dispatch_layer_into, after its reap: the layer's missing experts, in the
   layer's bank.  An empty batch stands for the result false. *)
StreamLayer ==
  /\ pc = "stream"
  /\ batch' = <<>>
  /\ IF Missing(plan.layer) = {}
     THEN Return /\ UNCHANGED todo
     ELSE /\ \E ids \in Ascending(Missing(plan.layer)) :
               todo' = RequestOrder([k \in DOMAIN ids |->
                 [gid |-> ids[k], stg |-> StagingBase(plan.layer) + k - 1, stageOnly |-> TRUE]])
          /\ Goto("dispatch")
  /\ UNCHANGED <<Machine, cursor, leased, executorVars, sweepVars>>

(* Mutant: the next layer's reads are issued behind this one's. *)
QueuedGoesOn ==
  /\ pc = "queued"
  /\ IF batch = <<>>
     THEN plan' = [plan EXCEPT !.layer = @ + 1] /\ UNCHANGED ahead
     ELSE /\ ahead' = Append(ahead, [layer |-> plan.layer, batch |-> batch])
          /\ plan' = [layer |-> plan.layer + 1, budget |-> plan.budget - 1]
  /\ Goto("ahead_next")
  /\ UNCHANGED <<Machine, cursor, todo, batch, leased, executorVars, arena, active, layer,
                 resident, settling, pumped>>

Queued ==
  /\ pc = "queued"
  /\ IF batch = <<>>
     THEN /\ plan' = [plan EXCEPT !.layer = @ + 1]
          /\ Goto("ahead_next") /\ UNCHANGED ahead
     ELSE /\ ahead' = Append(ahead, [layer |-> plan.layer, batch |-> batch])
          /\ plan' = [layer |-> plan.layer + 1, budget |-> plan.budget - 1]
          /\ IF Reading(batch) THEN Return ELSE Goto("ahead_next")
  /\ UNCHANGED <<Machine, cursor, todo, batch, leased, executorVars, arena, active, layer,
                 resident, settling, pumped>>

-----------------------------------------------------------------------------
(* materialize_entry.                                                      *)

(* release_streamed_staging waits for the uploads of the batch whose slots have
   not come back yet, and returns them. *)
Borrowed(b) ==
  {b[i].stg : i \in {j \in DOMAIN b : b[j].state = "sent" /\ staging[b[j].stg] = "COPYING"}}
FinishStreamed(b) ==
  /\ \A s \in Borrowed(b) : ~InFlight("H2D", recorded[s])
  /\ staging' = [s \in SSlot |-> IF s \in Borrowed(b) THEN "AVAILABLE" ELSE staging[s]]

(* reclaim_resident_staging *)
Reclaim ==
  /\ pc = "reclaim"
  /\ FinishStreamed(resident.batch)
  /\ resident' = Idle
  /\ Return
  /\ UNCHANGED <<vars, pending, ioVars, gpu, recorded, dataVars, cursor, todo, batch, leased,
                 executorVars, arena, active, layer, ahead, plan, settling, pumped>>

(* With one bank the uploads are waited for at once. *)
Finish ==
  /\ pc = "finish"
  /\ IF DeferredDrain THEN UNCHANGED staging ELSE FinishStreamed(batch)
  /\ Return
  /\ UNCHANGED <<vars, pending, ioVars, gpu, recorded, dataVars, cursor, todo, batch, leased,
                 executorVars, sweepVars>>

HoldBank ==
  /\ pc = "settled"
  /\ resident' = IF DeferredDrain THEN [layer |-> settling, batch |-> batch] ELSE resident
  /\ Return
  /\ UNCHANGED <<Machine, cursor, todo, batch, leased, executorVars, arena, active, layer, ahead,
                 plan, settling, pumped>>

-----------------------------------------------------------------------------
(* The layer's own steps.                                                  *)

(* begin(): a sweep left active by a window that failed is not begun again. *)
BeginSweep(next) ==
  /\ IF active THEN Goto(next) /\ UNCHANGED <<vars, active, plan>>
     ELSE IF stream \/ ~Quiet(Expert) \/ shadowLru # <<>>
     THEN Throw /\ UNCHANGED <<vars, active, plan>>
     ELSE /\ BeginPrefillStream(IF VramCap >= 2 * PerLayer THEN 2 * PerLayer ELSE PerLayer,
                                "FreeListOnly")
          /\ active' = TRUE
          /\ plan' = [plan EXCEPT !.layer = 0]
          /\ Call("ahead", next)
  /\ UNCHANGED <<staging, pending, ioVars, gpu, recorded, dataVars, cursor, todo, batch, leased,
                 executorVars, arena, layer, ahead, resident, settling, pumped>>

BeforeLayer(l, next) ==
  /\ layer' = l
  /\ IF ahead # <<>> /\ Head(ahead).layer = l
     THEN /\ ahead' = Tail(ahead) /\ batch' = Head(ahead).batch /\ settling' = l
          /\ pc' = "reap" /\ ret' = SettleEntry \o <<"lookahead", next>> /\ cursor' = 1
          /\ UNCHANGED plan
     ELSE /\ IF Missing(l) = {}
             THEN pc' = "lookahead" /\ ret' = <<next>> /\ UNCHANGED <<plan, cursor>>
             ELSE IF Len(freeVram) < Cardinality(Missing(l))
             THEN Throw /\ UNCHANGED <<plan, cursor>>
             ELSE /\ plan' = [plan EXCEPT !.layer = l]
                  /\ pc' = "reap" /\ ret' = <<"stream", "ensured", next>> /\ cursor' = 1
          /\ UNCHANGED <<ahead, batch, settling>>
  /\ UNCHANGED <<Machine, todo, leased, executorVars, arena, active, resident, pumped>>

(* ensure_layer waits for the reads it has just issued. *)
Ensured ==
  /\ pc = "ensured"
  /\ settling' = layer
  /\ IF batch = <<>> THEN Goto("lookahead") /\ UNCHANGED cursor
     ELSE pc' = "reap" /\ ret' = SettleEntry \o <<"lookahead">> \o ret /\ cursor' = 1
  /\ UNCHANGED <<Machine, todo, batch, leased, executorVars, arena, active, layer, ahead,
                 resident, plan, pumped>>

LookaheadFrom ==
  /\ pc = "lookahead"
  /\ plan' = [plan EXCEPT !.layer = layer + 1]
  /\ Goto("ahead")
  /\ UNCHANGED <<Machine, cursor, todo, batch, leased, executorVars, arena, active, layer, ahead,
                 resident, settling, pumped>>

(* pump(): start the copies of the queued layers whose reads have landed, and
   then the next wave of reads.  A copy that finds no VRAM slot waits. *)
PumpStart(next) ==
  /\ IF active THEN pc' = "pump" /\ ret' = next \o ret /\ pumped' = <<1, 1>>
     ELSE pc' = Head(next) /\ ret' = Tail(next) \o ret /\ UNCHANGED pumped
  /\ UNCHANGED <<Machine, cursor, todo, batch, leased, executorVars, arena, active, layer, ahead,
                 resident, plan, settling>>

Pumping == pc = "pump" /\ pumped[1] <= Len(ahead)
PumpAt == ahead[pumped[1]].batch[pumped[2]]
PumpOn == pumped' = IF pumped[2] < Len(ahead[pumped[1]].batch)
                    THEN <<pumped[1], pumped[2] + 1>> ELSE <<pumped[1] + 1, 1>>

PumpCopy ==
  LET t == PumpAt IN
  /\ Pumping
  /\ t.state = "ready" \/ (t.state = "reading" /\ Landed(t.op, TRUE))
  /\ landed' = landed \ {[op |-> t.op, ok |-> TRUE]}
  /\ IF CanCopy(t) THEN EnqueueCopy(t) ELSE UNCHANGED <<vars, staging, pending, gpu, recorded>>
  /\ ahead' = [ahead EXCEPT ![pumped[1]].batch[pumped[2]] =
                 IF CanCopy(t) THEN Copied(t) ELSE [t EXCEPT !.state = "ready"]]
  /\ PumpOn
  /\ UNCHANGED <<prepared, reads, faults, dataVars, hostThread, executorVars, arena, active,
                 layer, resident, plan, settling>>

PumpPass ==
  LET t == PumpAt IN
  /\ Pumping
  /\ t.state # "ready"
  /\ t.state = "reading" => ~Landed(t.op, TRUE) /\ ~Landed(t.op, FALSE)
  /\ PumpOn
  /\ UNCHANGED <<Machine, hostThread, executorVars, arena, active, layer, ahead, resident, plan,
                 settling>>

PumpReadError ==
  LET t == PumpAt IN
  /\ Pumping /\ t.state = "reading" /\ Landed(t.op, FALSE)
  /\ landed' = landed \ {[op |-> t.op, ok |-> FALSE]}
  /\ MarkFailed(t.op)
  /\ Throw
  /\ UNCHANGED <<vars, prepared, reads, faults, gpu, recorded, dataVars, cursor, todo, batch,
                 leased, executorVars, sweepVars>>

(* advance_reads *)
PumpEnd ==
  /\ pc = "pump" /\ pumped[1] > Len(ahead)
  /\ plan' = [plan EXCEPT !.layer = IF ahead = <<>> THEN layer + 1 ELSE Last(ahead).layer + 1]
  /\ Goto("ahead")
  /\ UNCHANGED <<Machine, cursor, todo, batch, leased, executorVars, arena, active, layer, ahead,
                 resident, settling, pumped>>

(* after_layer: a bank still held belongs to the layer being retired. *)
AfterLayer(l, next) ==
  /\ IF resident.layer \notin {NoLayer, l} THEN Throw /\ UNCHANGED cursor
     ELSE pc' = "reap" /\ ret' = <<"reclaim", next>> /\ cursor' = 1
  /\ UNCHANGED <<Machine, todo, batch, leased, executorVars, sweepVars>>

(* end(): what is still queued is settled and released. *)
EndSweep ==
  /\ pc = "end_sweep"
  /\ IF ahead # <<>>
     THEN /\ ahead' = Tail(ahead) /\ batch' = Head(ahead).batch
          /\ settling' = Head(ahead).layer
          /\ pc' = "reap" /\ cursor' = 1
          /\ ret' = SettleEntry \o <<"reclaim", "reap_again", "drop_layer", "end_sweep">> \o ret
     ELSE Call("reclaim", "end_stream") /\ UNCHANGED <<ahead, batch, settling, cursor>>
  /\ UNCHANGED <<Machine, todo, leased, executorVars, arena, active, layer, resident, plan,
                 pumped>>

ReapAgain ==
  /\ pc = "reap_again"
  /\ pc' = "reap" /\ cursor' = 1
  /\ UNCHANGED <<Machine, ret, todo, batch, leased, executorVars, sweepVars>>

(* release_layer refuses a layer with a lease or a transfer on it. *)
Release(l) == IF stream /\ Quiet(InLayer(l)) THEN ReleaseLayer(l) /\ Return
              ELSE Throw /\ UNCHANGED vars

DropLayer ==
  /\ pc = "drop_layer"
  /\ Release(settling)
  /\ UNCHANGED <<staging, pending, ioVars, gpu, recorded, dataVars, cursor, todo, batch, leased,
                 executorVars, sweepVars>>

(* end_prefill_stream refuses to leave a transfer, a lease or an expert the
   pass admitted behind. *)
EndStream ==
  /\ pc = "end_stream"
  /\ active' = FALSE
  /\ leased' = [leased EXCEPT !["sweep"] = <<>>]
  /\ IF stream /\ Quiet(Expert)
        /\ \A e \in Expert : (owner[e] = "HOT" => marked[e]) /\ shadowSlot[e] = NoSlot
     THEN EndPrefillStream /\ Return ELSE Throw /\ UNCHANGED vars
  /\ UNCHANGED <<staging, pending, ioVars, gpu, recorded, dataVars, cursor, todo, batch,
                 executorVars, arena, layer, ahead, resident, plan, settling, pumped>>

Sweeping ==
  \/ AheadStart \/ AheadNext \/ StreamLayer \/ Queued
  \/ Reclaim \/ Finish \/ HoldBank \/ Ensured \/ LookaheadFrom
  \/ PumpCopy \/ PumpPass \/ PumpReadError \/ PumpEnd
  \/ EndSweep \/ ReapAgain \/ DropLayer \/ EndStream
=============================================================================
