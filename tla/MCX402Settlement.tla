-------------------------- MODULE MCX402Settlement --------------------------
(* TLC instance of X402Settlement. *)
EXTENDS X402Settlement, TLC

Symmetry == Permutations(Handlers)
=============================================================================
