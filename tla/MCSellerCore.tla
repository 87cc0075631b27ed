---------------------------- MODULE MCSellerCore ----------------------------
(* TLC instance of SellerCore. *)
EXTENDS SellerCore, TLC

Symmetry == Permutations(Contexts)
=============================================================================
