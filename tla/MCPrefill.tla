----------------------------- MODULE MCPrefill ------------------------------
(***************************************************************************)
(* A few layers of a few experts for PrefillWindow.                        *)
(***************************************************************************)
EXTENDS PrefillWindow

CONSTANT Width   \* experts in each layer

MCExperts == 0 .. NumLayers * Width - 1
MCLayers == 0 .. NumLayers - 1
MCLayerOf == [e \in MCExperts |-> e \div Width]
(* populate_round_robin alternates between the layers. *)
MCLoadOrder == [i \in 1 .. NumLayers * Width |->
                  ((i - 1) % NumLayers) * Width + (i - 1) \div NumLayers]
=============================================================================
