-------------------------- MODULE MCDeliveryQueue --------------------------
(* Model-checking instance of DeliveryQueue. *)
EXTENDS DeliveryQueue, TLC
MCDelaysShort == <<1>>
Symmetry == Permutations(Workers)
=============================================================================
