-------------------------- MODULE MCGatewayUpload --------------------------
(* TLC instance of GatewayUpload: two buyers with gateways and one without. *)
EXTENDS GatewayUpload, TLC

CONSTANTS t1, t2, t3, g1, g2

MCGateway == t1 :> g1 @@ t2 :> g2 @@ t3 :> Default
=============================================================================
