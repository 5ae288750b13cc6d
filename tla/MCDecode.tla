------------------------------ MODULE MCDecode ------------------------------
(***************************************************************************)
(* Two layers of a few experts for DecodePass.                             *)
(***************************************************************************)
EXTENDS DecodePass

CONSTANT PerLayer   \* experts in each layer

MCLayers == <<0, 1>>
MCExperts == 0 .. 2 * PerLayer - 1
MCLayerOf == [e \in MCExperts |-> e \div PerLayer]
(* populate_round_robin alternates between the layers. *)
MCLoadOrder == [i \in 1 .. 2 * PerLayer |-> ((i - 1) % 2) * PerLayer + (i - 1) \div 2]
=============================================================================
