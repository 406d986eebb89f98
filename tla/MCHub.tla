-------------------------------- MODULE MCHub --------------------------------
(* Symmetry for the model-checking runs of Hub.                             *)
EXTENDS Hub, TLC

Symmetry == Permutations(Values) \cup Permutations(Clients)

=============================================================================
