----------------------------- MODULE DecodePass -----------------------------
(***************************************************************************)
(* V4Graph::forward_token: token after token, layer after layer, one layer *)
(* body of the expert executor; the leases are held to the end of the      *)
(* token.                                                                  *)
(***************************************************************************)
EXTENDS ExpertExecutor

CONSTANTS
  Layers,     \* the layers of the stage, in the order of the pass
  MaxTokens   \* bound: tokens computed, the failed ones included

ASSUME DecodeAssumption ==
  /\ Layers \in Seq(Layer) /\ Layers # <<>>
  /\ 2 * TopK <= Staging /\ MaxTokens \in Nat

VARIABLES
  at,        \* index of the current layer
  token,     \* tokens started so far
  failures   \* requests that ended in an exception

decodeVars == <<at, token, failures>>
allVars == <<vars, supplyVars, executorVars, decodeVars>>

DecodeInit == ExecutorInit /\ at = 1 /\ token = 0 /\ failures = 0

StartToken ==
  /\ pc = "idle" /\ token < MaxTokens
  /\ token' = token + 1 /\ at' = 1
  /\ Goto("route")
  /\ UNCHANGED <<Machine, cursor, todo, batch, leased, executorVars, failures>>

(* The two layers in flight use different halves of the arena. *)
LayerBody ==
  /\ \/ OnRouting("route", "next_layer", Layers[at], {TopK})
     \/ HeadroomOk(TopK) \/ HeadroomDrain(TopK)
     \/ StartDispatch((at % 2) * TopK)
     \/ LaunchKernels("consumed")
     \/ OnConsumed
  /\ UNCHANGED decodeVars

(* After the last layer the leases are handed back, while the kernels may
   still be running. *)
NextLayer ==
  /\ pc = "next_layer"
  /\ IF at < Len(Layers) THEN Goto("route") /\ at' = at + 1
     ELSE Call("release", "sample") /\ UNCHANGED at
  /\ UNCHANGED <<Machine, cursor, todo, batch, leased, executorVars, token, failures>>

(* The sampler reads the logits back. *)
Sample ==
  /\ pc = "sample" /\ gpu["compute"] = <<>>
  /\ Goto("idle")
  /\ UNCHANGED <<Machine, cursor, todo, batch, leased, executorVars, decodeVars>>

(* The exception ends the request; the session is dropped and the next
   request starts over.  Nothing below the engine is undone. *)
RequestFails ==
  /\ pc = "failed"
  /\ failures' = failures + 1
  /\ Goto("idle")
  /\ UNCHANGED <<Machine, cursor, todo, batch, leased, executorVars, at, token>>

(* Every token of the bound has been computed. *)
Finished == pc = "idle" /\ token = MaxTokens /\ UNCHANGED allVars

HostStep ==
  \/ Beside(Transport) /\ UNCHANGED decodeVars
  \/ StartToken \/ LayerBody \/ NextLayer \/ Sample \/ RequestFails

DeviceStep == Beside(Device) /\ UNCHANGED decodeVars

DecodeNext == HostStep \/ DeviceStep \/ Finished

DecodeSpec == DecodeInit /\ [][DecodeNext]_allVars

(* The streams and the ring make progress whatever the host does, and the host
   thread runs. *)
FairDecode ==
  /\ DecodeSpec
  /\ WF_allVars(HostStep)
  /\ \A q \in Streams : WF_allVars(Beside(GpuStep(q)) /\ UNCHANGED decodeVars)
  /\ WF_allVars(Beside(\E r \in reads : ReadLands(r) \/ ReadFails(r)) /\ UNCHANGED decodeVars)

-----------------------------------------------------------------------------
(* Properties.                                                             *)

(* The staging arena is empty again between tokens: every slot a layer
   borrowed has come back, though the executor hands slots back before their
   uploads have finished and the reaper frees the ones it finds first. *)
ArenaReturned == faults = 0 /\ pc \in {"idle", "sample"} =>
  \A s \in SSlot : staging[s] = "AVAILABLE"

(* The transport is sound under decode: it has its types, what the catalog
   publishes is where the bytes are, a free staging slot is idle, and the arena
   is whole between tokens. *)
DecodeSound == SupplyTypeOK /\ PublishedBytes /\ FreeSlotsIdle /\ ArenaReturned

(* Every token that starts ends: the host never waits for a read or a copy
   that waits for the host, and no copies wait for each other. *)
TokensEnd == (pc = "route") ~> (pc = "idle")
=============================================================================
