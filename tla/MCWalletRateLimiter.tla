------------------------ MODULE MCWalletRateLimiter ------------------------
(* TLC instance of WalletRateLimiter. *)
EXTENDS WalletRateLimiter, TLC

Symmetry == Permutations(Callers) \cup Permutations(Ids)
=============================================================================
