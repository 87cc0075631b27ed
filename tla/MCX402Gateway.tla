-------------------------- MODULE MCX402Gateway --------------------------
(* TLC instance of X402Gateway. *)
EXTENDS X402Gateway, TLC

CONSTANTS p1, v1

\* A sound payment; the other requests fail at each stage or not at all.
MCFlaws ==
    [r \in Requests |-> IF r = p1 THEN {"none"} ELSE {"context", "base", "encoding", "none"}]
=============================================================================
