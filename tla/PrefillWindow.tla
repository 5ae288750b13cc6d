--------------------------- MODULE PrefillWindow ----------------------------
(***************************************************************************)
(* V4Graph::forward_window with the PrefillController and the              *)
(* HostPartition of its stage: window after window, layer after layer,     *)
(* chunk after chunk.  A window runs the sweep, the routed bank, or, when  *)
(* the pool cannot hold a layer, neither.                                  *)
(***************************************************************************)
EXTENDS PrefillSweep

CONSTANTS
  Rows,        \* prefill_chunk, the tokens of a chunk
  Chunks,      \* chunks in a window
  Drawn,       \* the least number of distinct experts a chunk of a swept window draws
  Blocks,      \* prefill_sweep_staging_blocks
  MaxWindows   \* bound: windows computed, the failed ones included

ASSUME WindowAssumption ==
  {Rows, Chunks, Blocks, Drawn} \subseteq Nat \ {0} /\ MaxWindows \in Nat

VARIABLES
  requested,  \* sweep_requested_, set at load
  windows,    \* windows started so far
  swept,      \* sweep_active_
  at,         \* the layer forward_window is at
  chunk, row, \* the chunk, and the rows of it that have been consumed
  prefilling, \* supply_phase_prefill_
  failures    \* requests that ended in an exception

windowVars == <<requested, windows, swept, at, chunk, row, prefilling, failures>>
allVars == <<vars, supplyVars, executorVars, sweepVars, windowVars>>

-----------------------------------------------------------------------------
(* staging_slot_counts and HostPartition::warm_for: one region holds the Warm *)
(* slots at its head and the staging arena at its tail.                       *)

DecodeSlots == 2 * TopK
BatchSlots == Max({DecodeSlots, Min({TopK * Rows, PerLayer})})
PrefillSlots == Max({BatchSlots, Blocks * PerLayer})
Region == HostCap + DecodeSlots
WarmFor(slots) == Min({Region - slots, HostCap})

Enabled == requested /\ VramCap >= PerLayer   \* PrefillController::enabled()

(* Without the sweep the resting cut is the chunk's; the instances are those
   where that is decode's as well (SharedRegion has the others). *)
ASSUME RegionAssumption ==
  PrefillSlots <= Region /\ Staging = PrefillSlots /\ BatchSlots = DecodeSlots

WindowInit ==
  /\ SweepInit(DecodeSlots)
  /\ requested \in BOOLEAN /\ windows = 0 /\ swept = FALSE /\ at = 0 /\ chunk = 0 /\ row = 0
  /\ prefilling = FALSE /\ failures = 0

(* HostPartition::apply: nothing to do when the cut is the current one, and
   refused while a staging slot or a lease is in use. *)
Cut(slots, next) ==
  /\ IF WarmFor(slots) = usable /\ slots = arena
     THEN Goto(next) /\ UNCHANGED <<vars, arena>>
     ELSE IF FreeStaging < arena \/ leased["executor"] # <<>>
     THEN Throw /\ UNCHANGED <<vars, arena>>
     ELSE /\ Goto(next) /\ arena' = slots
          /\ IF WarmFor(slots) < usable THEN ShrinkHost(WarmFor(slots))
             ELSE IF WarmFor(slots) > usable THEN GrowHost(WarmFor(slots)) ELSE UNCHANGED vars
  /\ UNCHANGED <<staging, pending, ioVars, gpu, recorded, dataVars, cursor, todo, batch, leased,
                 executorVars, active, layer, ahead, resident, plan, settling, pumped, windowVars>>

-----------------------------------------------------------------------------
(* The window.                                                             *)

Still == UNCHANGED <<Machine, todo, batch, leased, executorVars, sweepVars>>
Registry == <<staging, pending, ioVars, gpu, recorded, dataVars, todo, batch, leased,
              executorVars, sweepVars>>

(* The engine enters the prefill phase, which freezes Warm unless a stream is
   on already, and the window opens at a stream boundary. *)
OpenWindow ==
  /\ pc \in {"idle", "served"} /\ windows < MaxWindows /\ Drained
  /\ windows' = windows + 1
  /\ \E long \in BOOLEAN : swept' = (long /\ Enabled)
  /\ IF stream \/ prefilling THEN UNCHANGED <<vars, prefilling>>
     ELSE FreezeWarm /\ prefilling' = TRUE
  /\ pc' = "reap" /\ ret' = <<"release", "open">> /\ cursor' = 1
  /\ UNCHANGED <<Registry, requested, at, chunk, row, failures>>

OpenCut == pc = "open" /\ Cut(IF swept THEN PrefillSlots ELSE BatchSlots, "begin")

(* begin_strategy *)
Begin ==
  /\ pc = "begin"
  /\ IF swept THEN BeginSweep("before")
     ELSE /\ IF ~Enabled THEN Goto("before") /\ UNCHANGED vars
             ELSE IF stream \/ ~Quiet(Expert) \/ shadowLru # <<>> THEN Throw /\ UNCHANGED vars
             ELSE BeginPrefillStream(PerLayer, "BoundedEvict") /\ Goto("before")
          /\ UNCHANGED <<Registry, cursor>>
  /\ at' = 0 /\ chunk' = 0 /\ row' = 0
  /\ UNCHANGED <<requested, windows, swept, prefilling, failures>>

Before ==
  /\ pc = "before"
  /\ IF swept THEN BeforeLayer(at, "body") ELSE Goto("body") /\ Still /\ UNCHANGED cursor
  /\ UNCHANGED windowVars

(* A chunk's draws collapse to a number of distinct experts. *)
ChunkBody ==
  /\ \/ OnRouting("body", "chunk_end", at,
                  (IF swept THEN Drawn ELSE 1) .. Min({TopK * Rows, PerLayer}))
     \/ HeadroomOk(TopK * Rows) \/ HeadroomDrain(TopK * Rows)
     \/ StartDispatch(0)
     \/ LaunchKernels("rows")
     \/ OnConsumed
  /\ UNCHANGED <<sweepVars, windowVars>>

(* Mutant: the rows are not counted. *)
RowNotCounted ==
  /\ pc = "rows"
  /\ IF row < Rows
     THEN row' = row /\ PumpStart(<<"consumed", "rows">>)
     ELSE row' = 0 /\ Return /\ Still /\ UNCHANGED cursor
  /\ UNCHANGED <<requested, windows, swept, at, chunk, prefilling, failures>>

(* on_routed_consumed runs once for every row, and pumps the sweep first. *)
NextRow ==
  /\ pc = "rows"
  /\ IF row < Rows
     THEN row' = row + 1 /\ PumpStart(<<"consumed", "rows">>)
     ELSE row' = 0 /\ Return /\ Still /\ UNCHANGED cursor
  /\ UNCHANGED <<requested, windows, swept, at, chunk, prefilling, failures>>

(* After the last chunk the compute stream is waited for and the layer's
   leases are handed back. *)
EndChunk ==
  /\ pc = "chunk_end"
  /\ IF chunk + 1 < Chunks THEN Goto("body") /\ chunk' = chunk + 1
     ELSE gpu["compute"] = <<>> /\ Call("release", "after") /\ chunk' = 0
  /\ Still
  /\ UNCHANGED <<cursor, requested, windows, swept, at, row, prefilling, failures>>

(* Mutant: the layer is released before its transfers are retired. *)
AfterNoReap ==
  /\ pc = "after"
  /\ IF swept THEN AfterLayer(at, "retire")
     ELSE Goto("retire") /\ Still /\ UNCHANGED cursor
  /\ UNCHANGED windowVars

(* after_layer: the routed bank drains and reaps before it releases. *)
After ==
  /\ pc = "after"
  /\ IF swept THEN AfterLayer(at, "retire")
     ELSE /\ IF Enabled THEN Drained /\ Call("reap", "retire") /\ cursor' = 1
             ELSE Goto("next") /\ UNCHANGED cursor
          /\ Still
  /\ UNCHANGED windowVars

Retire ==
  /\ pc = "retire"
  /\ IF stream /\ Quiet(InLayer(at)) THEN ReleaseLayer(at) /\ Goto("next")
     ELSE Throw /\ UNCHANGED vars
  /\ UNCHANGED <<Registry, cursor, windowVars>>

(* After the last layer the strategy ends at a stream boundary. *)
NextLayer ==
  /\ pc = "next"
  /\ IF at + 1 < NumLayers THEN Goto("before") /\ at' = at + 1 /\ UNCHANGED cursor
     ELSE /\ Drained /\ UNCHANGED at
          /\ pc' = "reap" /\ ret' = <<"release", "end">> /\ cursor' = 1
  /\ Still
  /\ UNCHANGED <<requested, windows, swept, chunk, row, prefilling, failures>>


(* end_strategy *)
End ==
  /\ pc = "end"
  /\ IF ~Enabled \/ swept
     THEN /\ IF swept /\ active THEN Call("end_sweep", "close") ELSE Goto("close")
          /\ UNCHANGED vars
     ELSE IF stream /\ Quiet(Expert)
             /\ \A e \in Expert : (owner[e] = "HOT" => marked[e]) /\ shadowSlot[e] = NoSlot
     THEN EndPrefillStream /\ Goto("close")
     ELSE Throw /\ UNCHANGED vars
  /\ UNCHANGED <<Registry, cursor, windowVars>>

CloseCut == pc = "close" /\ Cut(DecodeSlots, "served")

(* The first decode step leaves the phase, at a stream boundary. *)
LeavePhase ==
  /\ pc = "served" /\ prefilling /\ ~stream /\ Drained
  /\ Call("reap", "thaw") /\ cursor' = 1
  /\ Still /\ UNCHANGED windowVars

Thaw ==
  /\ pc = "thaw"
  /\ IF frozen THEN ThawWarm ELSE UNCHANGED vars
  /\ prefilling' = FALSE
  /\ Goto("served")
  /\ UNCHANGED <<Registry, cursor, requested, windows, swept, at, chunk, row, failures>>

(* The exception ends the request; the window is not closed. *)
RequestFails ==
  /\ pc = "failed"
  /\ failures' = failures + 1
  /\ Goto("idle")
  /\ Still /\ UNCHANGED <<cursor, requested, windows, swept, at, chunk, row, prefilling>>

(* Every window of the bound has been computed. *)
Finished == pc \in {"idle", "served"} /\ windows = MaxWindows /\ UNCHANGED allVars

HostStep ==
  \/ Under(Transport) /\ UNCHANGED windowVars
  \/ Sweeping /\ UNCHANGED windowVars
  \/ OpenWindow \/ OpenCut \/ Begin \/ Before \/ ChunkBody \/ NextRow \/ EndChunk
  \/ After \/ Retire \/ NextLayer \/ End \/ CloseCut \/ LeavePhase \/ Thaw
  \/ RequestFails

DeviceStep == Under(Device) /\ UNCHANGED windowVars

WindowNext == HostStep \/ DeviceStep \/ Finished

WindowSpec == WindowInit /\ [][WindowNext]_allVars

(* The streams and the ring make progress whatever the host does, and the host
   thread runs. *)
FairWindow ==
  /\ WindowSpec
  /\ WF_allVars(HostStep)
  /\ \A q \in Streams : WF_allVars(Under(GpuStep(q)) /\ UNCHANGED windowVars)
  /\ WF_allVars(Under(\E r \in reads : ReadLands(r) \/ ReadFails(r)) /\ UNCHANGED windowVars)

-----------------------------------------------------------------------------
(* Properties.                                                             *)

(* The window's own state has its types, and the parts of the sweep that name
   layers name layers of the stage. *)
WindowTypeOK ==
  /\ SupplyTypeOK
  /\ arena \in 0 .. Staging /\ active \in BOOLEAN /\ layer \in Layer
  /\ \A i \in DOMAIN ahead : ahead[i].layer \in Layer
  /\ resident.layer \in Layer \cup {NoLayer}
  /\ at \in Layer /\ chunk \in 0 .. Chunks /\ row \in 0 .. Rows

(* The Warm slots and the staging arena never share memory of the region, and
   nothing is in a staging slot past the end of the arena: every boundary move
   takes from one exactly what it gives to the other, at a moment when the
   slots that change sides are empty. *)
RegionDisjoint ==
  /\ usable + arena <= Region
  /\ \A s \in SSlot : staging[s] # "AVAILABLE" => s < arena

(* The transport and the region are sound under prefill: they have their types,
   what the catalog publishes is where the bytes are, through every boundary
   move, a free staging slot is idle, and Warm and the arena share no memory. *)
WindowSound == WindowTypeOK /\ PublishedBytes /\ FreeSlotsIdle /\ RegionDisjoint


(* The drive never works on two layers' reads at once (the one wave rule of
   dispatch_ahead). *)
OneWave == faults = 0 => Cardinality({LayerOf[r.gid] : r \in reads \cup prepared}) <= 1

(* What after_layer says of its second reap: the compute stream has been waited
   for, so the layer's copies have landed, and the reap retires them before
   release_layer, which refuses a layer with a transfer in flight. *)
CopiesLanded == pc = "retire" /\ swept /\ faults = 0 => Quiet(InLayer(at))

(* What prefetch_staging.hpp says of the two places that give a staging slot
   back: on_routed_consumed finds a slot the reaper has returned AVAILABLE and
   skips it, so that it never fails. *)
ConsumedSkipsReturned == [][pc = "consumed" => pc' # "failed"]_allVars

(* While no read fails every window that opens ends: the sweep, the reaper and
   the streams never wait for each other in a circle. *)
WindowsEnd == (pc = "open") ~> (pc \in {"idle", "served"} \/ faults > 0)
=============================================================================
