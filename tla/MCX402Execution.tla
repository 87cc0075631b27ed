-------------------------- MODULE MCX402Execution --------------------------
(* TLC instance of X402Execution. *)
EXTENDS X402Execution, TLC

Symmetry == Permutations(Replicas)
=============================================================================
