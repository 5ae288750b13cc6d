---------------------------- MODULE ExpertSupply ----------------------------
(***************************************************************************)
(* TieredExpertSupply and ExpertTransferPipeline (expert/transport): how   *)
(* the reservations of ExpertRegistry become NVMe reads and GPU copies.    *)
(*                                                                         *)
(* One host thread runs dispatch, materialize and reap; the GPU's streams  *)
(* and the NVMe ring run beside it.  A stream is a queue of commands, each *)
(* waiting for the copies named in its `after' set (hipStreamWaitEvent); a *)
(* command takes effect when it leaves its queue, and an event has fired   *)
(* when the copy it was recorded behind is in no queue.  The bytes of a    *)
(* slot are the expert whose payload they are.                             *)
(*                                                                         *)
(* Modelled as the server runs it: O_DIRECT reads and pinned host memory.  *)
(* HIP errors end the process (CHECK_HIP) and are left out.                *)
(***************************************************************************)
EXTENDS ExpertRegistry

CONSTANTS
  Staging,    \* the number of slots of the staging arena
  MaxFaults   \* bound: NVMe reads that report an error

ASSUME SupplyAssumption == Staging \in Nat /\ MaxFaults \in Nat

VARIABLES
  staging,     \* slot_states of PrefetchStagingArena
  pending,     \* PendingTransferRegistry, in the order of creation
  prepared,    \* reads queued in the ring and not yet submitted
  reads,       \* reads the device is working on
  landed,      \* completions the host has not taken
  faults,      \* reads that have failed
  gpu,         \* the commands of each stream
  recorded,    \* staging_.events: the operation each was last recorded for
  vramData, hostData, stagingData,
  strays,      \* staging slots that were returned with chunks of a failed read in flight
  pc, ret,     \* where the host thread is, and where its calls return to
  cursor,      \* `index' of the loop in reap_registry_transfers
  todo,        \* the requests dispatch() has yet to serve, in request_order
  batch,       \* batch.transfers
  leased       \* the lease lists callers pass to dispatch(): experts still to release

ioVars == <<prepared, reads, landed, faults>>
dataVars == <<vramData, hostData, stagingData, strays>>
hostThread == <<pc, ret, cursor, todo, batch, leased>>
supplyVars == <<staging, pending, ioVars, gpu, recorded, dataVars, hostThread>>

SSlot == 0 .. Staging - 1
Streams == {"compute", "sdma", "sdma_cold", "demotion"}
Holders == {"executor", "sweep"}

SupplyInit ==
  /\ Init
  /\ staging = [s \in SSlot |-> "AVAILABLE"]
  /\ pending = <<>>
  /\ prepared = {} /\ reads = {} /\ landed = {} /\ faults = 0
  /\ gpu = [q \in Streams |-> <<>>]
  /\ recorded = [s \in SSlot |-> 0]
  /\ vramData = vramSlots /\ hostData = hostSlots
  /\ stagingData = [s \in SSlot |-> NoExpert] /\ strays = {}
  /\ pc = "idle" /\ ret = <<>> /\ cursor = 1
  /\ todo = <<>> /\ batch = <<>> /\ leased = [h \in Holders |-> <<>>]

-----------------------------------------------------------------------------
(* The host thread's control.                                              *)

Goto(p) == pc' = p /\ UNCHANGED ret
Call(p, next) == pc' = p /\ ret' = Cons(next, ret)
Return == pc' = Head(ret) /\ ret' = Tail(ret)
Throw == pc' = "failed" /\ ret' = <<>>

-----------------------------------------------------------------------------
(* The GPU and the NVMe device (external).                                 *)

InFlight(kind, op) ==
  \E q \in Streams : \E i \in DOMAIN gpu[q] : gpu[q][i].kind = kind /\ gpu[q][i].op = op

Bytes(place) == IF place[1] = "host" THEN hostData[place[2]] ELSE stagingData[place[2]]

GpuStep(q) ==
  /\ gpu[q] # <<>>
  /\ LET c == Head(gpu[q]) IN
     /\ \A w \in c.after : ~InFlight(w[1], w[2])
     /\ vramData' = IF c.kind = "H2D" THEN [vramData EXCEPT ![c.to] = Bytes(c.from)]
                    ELSE vramData
     /\ hostData' = IF c.kind = "D2H" THEN [hostData EXCEPT ![c.to] = vramData[c.from]]
                    ELSE hostData
  /\ gpu' = [gpu EXCEPT ![q] = Tail(@)]
  /\ UNCHANGED <<vars, staging, pending, ioVars, recorded, stagingData, strays, hostThread>>

ReadLands(r) ==
  /\ reads' = reads \ {r}
  /\ landed' = landed \cup {[op |-> r.op, ok |-> TRUE]}
  /\ stagingData' = [stagingData EXCEPT ![r.stg] = r.gid]
  /\ UNCHANGED <<vars, staging, pending, prepared, faults, gpu, recorded, vramData, hostData,
                 strays, hostThread>>

(* A payload is read in chunks.  When one of them reports an error or comes
   short, the others may still be on their way into the slot, which the host
   returns all the same; they land at any later time. *)
ReadFails(r) ==
  /\ faults < MaxFaults
  /\ faults' = faults + 1
  /\ reads' = reads \ {r}
  /\ landed' = landed \cup {[op |-> r.op, ok |-> FALSE]}
  /\ strays' \in {strays, strays \cup {r.stg}}
  /\ UNCHANGED <<vars, staging, pending, prepared, gpu, recorded, vramData, hostData, stagingData,
                 hostThread>>

StrayLands(s) ==
  /\ stagingData' = [stagingData EXCEPT ![s] = NoExpert]
  /\ UNCHANGED <<vars, staging, pending, ioVars, gpu, recorded, vramData, hostData, strays, hostThread>>

Device ==
  \/ \E q \in Streams : GpuStep(q)
  \/ \E r \in reads : ReadLands(r) \/ ReadFails(r)
  \/ \E s \in strays : StrayLands(s)

-----------------------------------------------------------------------------
(* dispatch(): reserve, then start the transfer.                           *)

(* reservation_priority, over the catalog as it is before the first
   reservation: published Hot residents take their leases first. *)
Priority(g) == IF owner[g] # "HOT" THEN 2 ELSE IF operation[g] = "NONE" THEN 0 ELSE 1

RequestOrder(requests) ==
  LET Of(p) == SelectSeq(requests, LAMBDA r : Priority(r.gid) = p)
  IN  Of(0) \o Of(1) \o Of(2)

(* reserve_request_by_gid, when a transfer is needed. *)
Reserve(r) ==
  \/ r.stageOnly /\ ReserveStaged(r.gid)
  \/ /\ ~r.stageOnly
     /\ \/ ReserveFree(r.gid) \/ ReserveEvictShadow(r.gid) \/ ReserveEvictHot(r.gid)
        \/ ReserveDropVictim(r.gid) \/ ReserveDemoteToFree(r.gid)
        \/ ReserveDemoteOverWarm(r.gid)

(* reserve_vram_destination finds neither a free slot nor a victim. *)
NoDestination(r) ==
  LET g == r.gid IN
  /\ ~r.stageOnly /\ NeedsTransfer(g) /\ freeVram = <<>>
  /\ IF stream \/ frozen
     THEN (stream /\ alloc = "FreeListOnly") \/ (ShadowVictim = {} /\ PrefillVictim(g) = {})
     ELSE DecodeVictim(g) = {}

Transfer(op) == CHOOSE i \in DOMAIN pending : pending[i].op = op
Tracked(op) == \E i \in DOMAIN pending : pending[i].op = op

(* The victim whose copy to host memory goes with the reservation just made,
   and the host slot it lands in. *)
Outgoing == {v \in Expert : operationId'[v] = nextOp /\ operation'[v] = "DEMOTION"
                             /\ gpuTransfer'[v] = "D2H"}
Landing == CHOOSE h \in HSlot : hostRes'[h] = nextOp /\ hostSlots'[h] = NoExpert

(* schedule_demotion: the copy is queued on the demotion stream. *)
Demoting(queues) ==
  IF Outgoing = {} THEN queues
  ELSE [queues EXCEPT !["demotion"] = Append(@,
          [kind |-> "D2H", op |-> nextOp, from |-> slotIdx[CHOOSE v \in Outgoing : TRUE],
           to |-> Landing, after |-> {}])]

(* Mutant: the upload does not wait for the copy out of its slot. *)
UploadAtOnce(queues, q, op, place, slot, demoting) ==
  [queues EXCEPT ![q] = Append(@,
     [kind |-> "H2D", op |-> op, from |-> place, to |-> slot, after |-> {}])]

(* wait_for_demotion_dependency and the upload behind it. *)
Upload(queues, q, op, place, slot, demoting) ==
  [queues EXCEPT ![q] = Append(@,
     [kind |-> "H2D", op |-> op, from |-> place, to |-> slot,
      after |-> IF demoting THEN {<<"D2H", op>>} ELSE {}])]

Track(r, sent, failed) ==
  pending' = Append(pending, [op |-> nextOp, gid |-> r.gid, stg |-> r.stg, sent |-> sent,
                              failed |-> failed, demoting |-> Outgoing # {}])
(* A PayloadTransfer.  `reading' is io_pending, `ready' io_complete and `sent'
   is_prefetched; place is where its upload reads from. *)
Entry(r, op, slot, stg, state, place) ==
  [gid |-> r.gid, op |-> op, slot |-> slot, stg |-> stg, state |-> state, place |-> place]

(* Only the sweep asks for experts ahead of their VRAM slots. *)
TakeLease(r) ==
  leased' = [leased EXCEPT ![IF r.stageOnly THEN "sweep" ELSE "executor"] = Append(@, r.gid)]

Serving == pc = "dispatch" /\ todo # <<>>
NextRequest == todo' = Tail(todo) /\ UNCHANGED <<pc, ret, cursor>>

DispatchHit ==
  LET r == Head(todo) IN
  /\ Serving
  /\ HotHit(r.gid) \/ ShadowHit(r.gid)
  /\ batch' = Append(batch, Entry(r, 0, VramSlotOf(r.gid), r.stg, "resident", <<"staging", r.stg>>))
  /\ TakeLease(r)
  /\ NextRequest
  /\ UNCHANGED <<staging, pending, ioVars, gpu, recorded, dataVars>>

(* A second request for an expert whose upload is queued waits for it too. *)
DispatchJoin ==
  LET r == Head(todo)
      op == operationId[r.gid]
  IN
  /\ Serving /\ IsIncoming(r.gid) /\ Tracked(op) /\ pending[Transfer(op)].sent
  /\ JoinPending(r.gid)
  /\ LET stg == pending[Transfer(op)].stg IN
     batch' = Append(batch, Entry(r, op, pendingSlot[r.gid], stg, "sent", <<"staging", stg>>))
  /\ TakeLease(r)
  /\ NextRequest
  /\ UNCHANGED <<staging, pending, ioVars, gpu, recorded, dataVars>>

(* The lease was taken before the transfer is found missing. *)
JoinThrows ==
  LET r == Head(todo)
      op == operationId[r.gid]
  IN
  /\ Serving /\ IsIncoming(r.gid) /\ (Tracked(op) => ~pending[Transfer(op)].sent)
  /\ JoinPending(r.gid)
  /\ TakeLease(r)
  /\ Throw
  /\ UNCHANGED <<staging, pending, ioVars, gpu, recorded, dataVars, cursor, todo, batch>>

(* The expert is being demoted: its operation is retired if it has finished,
   and the reservation tried again; otherwise the request is refused.  The
   lease taken meanwhile is handed back at once. *)
AwaitDemotion ==
  LET g == Head(todo).gid
      op == operationId[g]
      done == Tracked(op) /\ pending[Transfer(op)].sent /\ ~InFlight("H2D", op)
  IN
  /\ Serving /\ operation[g] = "DEMOTION"
  /\ IF done THEN Call("reap", "dispatch") /\ cursor' = 1 ELSE Throw /\ UNCHANGED cursor
  /\ UNCHANGED <<vars, staging, pending, ioVars, gpu, recorded, dataVars, todo, batch, leased>>

(* A Cold expert is read from NVMe into its staging slot. *)
DispatchCold ==
  LET r == Head(todo) IN
  /\ Serving /\ owner[r.gid] = "COLD" /\ staging[r.stg] = "AVAILABLE"
  /\ Reserve(r)
  /\ staging' = [staging EXCEPT ![r.stg] = "IO_PENDING"]
  /\ prepared' = prepared \cup {[op |-> nextOp, gid |-> r.gid, stg |-> r.stg]}
  /\ Track(r, FALSE, FALSE)
  /\ gpu' = Demoting(gpu)
  /\ batch' = Append(batch, Entry(r, nextOp, pendingSlot'[r.gid], r.stg, "reading",
                                    <<"staging", r.stg>>))
  /\ TakeLease(r)
  /\ NextRequest
  /\ UNCHANGED <<reads, landed, faults, recorded, dataVars>>

(* A Warm expert is uploaded straight from its pinned host slot; the staging
   slot only lends its event. *)
DispatchWarm ==
  LET r == Head(todo) IN
  /\ Serving /\ owner[r.gid] = "WARM" /\ staging[r.stg] = "AVAILABLE" /\ ~r.stageOnly
  /\ Reserve(r)
  /\ staging' = [staging EXCEPT ![r.stg] = "COPYING"]
  /\ Track(r, TRUE, FALSE)
  /\ gpu' = Upload(Demoting(gpu), "sdma", nextOp, <<"host", slotIdx[r.gid]>>,
                   pendingSlot'[r.gid], Outgoing # {})
  /\ recorded' = [recorded EXCEPT ![r.stg] = nextOp]
  /\ batch' = Append(batch, Entry(r, nextOp, pendingSlot'[r.gid], r.stg, "sent",
                                    <<"host", slotIdx[r.gid]>>))
  /\ TakeLease(r)
  /\ NextRequest
  /\ UNCHANGED <<ioVars, dataVars>>

(* A Warm expert asked for ahead of its VRAM slot: the upload can start at any
   time, from its pinned host slot. *)
DispatchWarmStaged ==
  LET r == Head(todo) IN
  /\ Serving /\ owner[r.gid] = "WARM" /\ staging[r.stg] = "AVAILABLE" /\ r.stageOnly
  /\ Reserve(r)
  /\ staging' = [staging EXCEPT ![r.stg] = "IO_COMPLETE"]
  /\ Track(r, FALSE, FALSE)
  /\ batch' = Append(batch, Entry(r, nextOp, NoSlot, r.stg, "ready",
                                    <<"host", slotIdx[r.gid]>>))
  /\ TakeLease(r)
  /\ NextRequest
  /\ UNCHANGED <<ioVars, gpu, recorded, dataVars>>

(* begin_io or begin_direct_transfer refuses a slot that is in use: the
   request fails, its failure hands the slot to the arena, and the exception
   leaves dispatch() after a reap. *)
StagingThrows ==
  LET r == Head(todo) IN
  /\ Serving /\ staging[r.stg] # "AVAILABLE"
  /\ Reserve(r)
  /\ staging' = [staging EXCEPT ![r.stg] = "AVAILABLE"]
  /\ Track(r, FALSE, TRUE)
  /\ gpu' = Demoting(gpu)
  /\ TakeLease(r)
  /\ pc' = "reap" /\ ret' = <<"failed">> /\ cursor' = 1
  /\ UNCHANGED <<ioVars, recorded, dataVars, todo, batch>>

ReserveThrows ==
  /\ Serving /\ NoDestination(Head(todo))
  /\ Throw
  /\ UNCHANGED <<vars, staging, pending, ioVars, gpu, recorded, dataVars, cursor, todo, batch,
                 leased>>

(* submit_pending_reads: one io_uring_enter for the whole batch.  From here on
   the bytes of a slot are no expert's, until its read has landed. *)
Submit ==
  /\ pc = "dispatch" /\ todo = <<>>
  /\ reads' = reads \cup prepared
  /\ prepared' = {}
  /\ stagingData' = [s \in SSlot |->
       IF \E r \in prepared : r.stg = s THEN NoExpert ELSE stagingData[s]]
  /\ Return
  /\ UNCHANGED <<vars, staging, pending, landed, faults, gpu, recorded, vramData, hostData, strays,
                 cursor, todo, batch, leased>>

Dispatch ==
  \/ DispatchHit \/ DispatchJoin \/ JoinThrows \/ AwaitDemotion \/ DispatchCold
  \/ DispatchWarm \/ DispatchWarmStaged \/ StagingThrows \/ ReserveThrows \/ Submit

-----------------------------------------------------------------------------
(* ExpertTransferPipeline.                                                 *)

(* mark_request_failed: the staging slot of an upload not yet queued goes back
   to the arena. *)
MarkFailed(op) ==
  IF ~Tracked(op) THEN UNCHANGED <<pending, staging>>
  ELSE LET i == Transfer(op) IN
       /\ pending' = [pending EXCEPT ![i].failed = TRUE]
       /\ staging' = IF pending[i].sent THEN staging
                     ELSE [staging EXCEPT ![pending[i].stg] = "AVAILABLE"]

(* enqueue_expert_copy, given that the slot is known or a VRAM slot is free. *)
SlotFor(t) == IF t.slot = NoSlot THEN Last(freeVram) ELSE t.slot
CanCopy(t) == t.slot # NoSlot \/ freeVram # <<>>
EnqueueCopy(t) ==
  /\ staging[t.stg] = IF t.state = "ready" /\ t.place[1] = "host"
                      THEN "IO_COMPLETE" ELSE "IO_PENDING"
  /\ IF t.slot = NoSlot THEN AttachDestination(t.gid) ELSE UNCHANGED vars
  /\ staging' = [staging EXCEPT ![t.stg] = "COPYING"]
  /\ gpu' = Upload(gpu, "sdma_cold", t.op, t.place, SlotFor(t), pending[Transfer(t.op)].demoting)
  /\ recorded' = [recorded EXCEPT ![t.stg] = t.op]
  /\ pending' = [pending EXCEPT ![Transfer(t.op)].sent = TRUE]
Copied(t) == [t EXCEPT !.slot = SlotFor(t), !.state = "sent"]

(* materialize: first the copies the pump had to defer, then one read after
   the other in the batch's order, blocking on each. *)
Indices(state) == {i \in DOMAIN batch : batch[i].state = state}
Turn == IF Indices("ready") # {} THEN Min(Indices("ready")) ELSE Min(Indices("reading"))
Landed(op, ok) == [op |-> op, ok |-> ok] \in landed

(* A staged copy that finds no VRAM slot here is refused: the lookahead has
   asked for more copies than there are slots. *)
MaterializeCopy ==
  LET t == batch[Turn] IN
  /\ pc = "materialize" /\ Indices("ready") \cup Indices("reading") # {}
  /\ t.state = "reading" => Landed(t.op, TRUE)
  /\ landed' = landed \ {[op |-> t.op, ok |-> TRUE]}
  /\ IF CanCopy(t)
     THEN /\ EnqueueCopy(t)
          /\ batch' = [batch EXCEPT ![Turn] = Copied(t)]
          /\ UNCHANGED <<pc, ret>>
     ELSE Throw /\ UNCHANGED <<vars, staging, pending, gpu, recorded, batch>>
  /\ UNCHANGED <<prepared, reads, faults, dataVars, cursor, todo, leased>>

MaterializeReadError ==
  LET t == batch[Turn] IN
  /\ pc = "materialize" /\ Indices("ready") = {} /\ Indices("reading") # {}
  /\ Landed(t.op, FALSE)
  /\ landed' = landed \ {[op |-> t.op, ok |-> FALSE]}
  /\ MarkFailed(t.op)
  /\ Throw
  /\ UNCHANGED <<vars, prepared, reads, faults, gpu, recorded, dataVars, cursor, todo, batch,
                 leased>>

MaterializeReturn ==
  /\ pc = "materialize" /\ Indices("ready") \cup Indices("reading") = {}
  /\ Return
  /\ UNCHANGED <<vars, staging, pending, ioVars, gpu, recorded, dataVars, cursor, todo, batch,
                 leased>>

Materialize ==
  MaterializeCopy \/ MaterializeReadError \/ MaterializeReturn

-----------------------------------------------------------------------------
(* reap_registry_transfers: one pass over the pending transfers, retiring    *)
(* what has finished without waiting for anything.                           *)

Reaping == pc = "reap" /\ cursor <= Len(pending)

ReapDemotion ==
  LET t == pending[cursor] IN
  /\ Reaping /\ t.demoting /\ ~InFlight("D2H", t.op)
  /\ \E v \in Victims(t.op) : CompleteDemotion(v)
  /\ pending' = [pending EXCEPT ![cursor].demoting = FALSE]
  /\ UNCHANGED <<staging, ioVars, gpu, recorded, dataVars, hostThread>>

ReapFailed ==
  LET t == pending[cursor] IN
  /\ Reaping /\ t.failed /\ ~t.sent /\ ~t.demoting
  /\ FailRequest(t.gid) \/ FailRequestWithVictim(t.gid) \/ FailShadow(t.gid)
  /\ pending' = RemoveAt(pending, cursor)
  /\ UNCHANGED <<staging, ioVars, gpu, recorded, dataVars, hostThread>>

(* Mutant: a transfer is published without asking for its event. *)
ReapUploadEarly ==
  LET t == pending[cursor] IN
  /\ Reaping /\ t.sent /\ ~t.demoting
  /\ CompleteRequest(t.gid) \/ CompleteShadow(t.gid)
  /\ staging' = IF staging[t.stg] = "COPYING" THEN [staging EXCEPT ![t.stg] = "AVAILABLE"]
                ELSE staging
  /\ pending' = RemoveAt(pending, cursor)
  /\ UNCHANGED <<ioVars, gpu, recorded, dataVars, hostThread>>

ReapUpload ==
  LET t == pending[cursor] IN
  /\ Reaping /\ t.sent /\ ~t.demoting /\ ~InFlight("H2D", t.op)
  /\ CompleteRequest(t.gid) \/ CompleteShadow(t.gid)
  /\ staging' = IF staging[t.stg] = "COPYING" THEN [staging EXCEPT ![t.stg] = "AVAILABLE"]
                ELSE staging
  /\ pending' = RemoveAt(pending, cursor)
  /\ UNCHANGED <<ioVars, gpu, recorded, dataVars, hostThread>>

ReapSkip ==
  LET t == pending[cursor] IN
  /\ Reaping
  /\ IF t.demoting THEN InFlight("D2H", t.op)
     ELSE IF t.sent THEN InFlight("H2D", t.op) ELSE ~t.failed
  /\ cursor' = cursor + 1
  /\ UNCHANGED <<vars, staging, pending, ioVars, gpu, recorded, dataVars, pc, ret, todo, batch,
                 leased>>

ReapReturn ==
  /\ pc = "reap" /\ cursor > Len(pending)
  /\ Return
  /\ UNCHANGED <<vars, staging, pending, ioVars, gpu, recorded, dataVars, cursor, todo, batch,
                 leased>>

Reap == ReapDemotion \/ ReapFailed \/ ReapUpload \/ ReapSkip \/ ReapReturn

(* Handing back every lease a caller holds, one after the other. *)
ReleaseOf(h) == IF h = "executor" THEN "release" ELSE "release_sweep"

ReleaseNext(h) ==
  /\ pc = ReleaseOf(h) /\ leased[h] # <<>>
  /\ ReleaseLease(Head(leased[h]))
  /\ leased' = [leased EXCEPT ![h] = Tail(@)]
  /\ UNCHANGED <<staging, pending, ioVars, gpu, recorded, dataVars, pc, ret, cursor, todo, batch>>

ReleaseReturn(h) ==
  /\ pc = ReleaseOf(h) /\ leased[h] = <<>>
  /\ Return
  /\ UNCHANGED <<vars, staging, pending, ioVars, gpu, recorded, dataVars, cursor, todo, batch,
                 leased>>

ReleaseLeases == \E h \in Holders : ReleaseNext(h) \/ ReleaseReturn(h)

Transport == Dispatch \/ Materialize \/ Reap \/ ReleaseLeases

(* What every step of a caller leaves alone unless it says otherwise. *)
Machine == <<vars, staging, pending, ioVars, gpu, recorded, dataVars>>

(* hipStreamSynchronize on every stream that carries expert traffic. *)
Drained == \A q \in Streams : gpu[q] = <<>>

-----------------------------------------------------------------------------
(* Properties.                                                             *)

(* The transport's state has the types of its fields, every reference from one
   part of it to another is to something that exists, and the lease lists
   account for every lease the registry counts. *)
SupplyTypeOK ==
  /\ TypeOK
  /\ staging \in [SSlot -> {"AVAILABLE", "IO_PENDING", "IO_COMPLETE", "COPYING"}]
  /\ \A i \in DOMAIN pending :
       /\ pending[i].op \in 1 .. nextOp - 1 /\ pending[i].gid \in Expert
       /\ pending[i].stg \in SSlot
  /\ \A r \in prepared \cup reads : r.stg \in SSlot /\ r.gid \in Expert
  /\ vramData \in [VSlot -> Expert \cup {NoExpert}]
  /\ hostData \in [HSlot -> Expert \cup {NoExpert}]
  /\ stagingData \in [SSlot -> Expert \cup {NoExpert}]
  /\ \A g \in Expert : leases[g] =
       Cardinality({<<h, i>> \in Holders \X (1 .. MaxOps) :
                      i \in DOMAIN leased[h] /\ leased[h][i] = g})

(* Unless a failed read has left strays, every VRAM slot a layer's kernels read
   holds the payload of the expert they were launched for when they run: no
   upload is late, and none of the evictions, demotions and releases since has
   touched the slot. *)
KernelsReadTheirExperts ==
  [][strays = {} /\ gpu["compute"] # <<>> /\ gpu'["compute"] = Tail(gpu["compute"]) =>
       \A use \in Head(gpu["compute"]).from : vramData[use[1]] = use[2]]_<<vars, supplyVars>>

(* Unless a failed read has left strays, what the catalog publishes is where the
   bytes are: a Hot, Warm or shadow residency with no operation on it holds its
   own expert's payload, whatever order the copies, demotions and reads completed
   in, a failed read included. *)
PublishedBytes == strays = {} =>
  \A e \in Expert :
    /\ operation[e] = "NONE" /\ owner[e] = "HOT" => vramData[slotIdx[e]] = e
    /\ operation[e] = "NONE" /\ owner[e] = "WARM" => hostData[slotIdx[e]] = e
    /\ shadowSlot[e] # NoSlot => vramData[shadowSlot[e]] = e

(* As long as no read has failed, nothing is on its way into a staging slot that
   the arena may give out. *)
FreeSlotsIdle == faults = 0 =>
  \A s \in SSlot : staging[s] = "AVAILABLE" => \A r \in prepared \cup reads : r.stg # s

(* A pass never fails on its own: as long as no read has reported an error, no
   request meets a staging slot in use, a pool with no slot to give, an expert
   still on its way out, a transfer that was never queued, or a mode change
   under a live transfer. *)
HealthyPassesSucceed == faults = 0 => pc # "failed"
=============================================================================
