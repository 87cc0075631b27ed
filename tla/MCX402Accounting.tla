-------------------------- MODULE MCX402Accounting --------------------------
(* TLC instance of X402Accounting. *)
EXTENDS X402Accounting
=============================================================================
