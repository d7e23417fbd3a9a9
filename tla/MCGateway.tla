----------------------------- MODULE MCGateway ------------------------------
(* The gateway for TLC: a JSON call and a streamed one on a route with one   *)
(* permit in each lane.                                                      *)
EXTENDS Gateway, TLC

OneEach == (Discretionary :> 1) @@ (Mandatory :> 1)
OneQueue == (Discretionary :> 1) @@ (Mandatory :> 0)
TokenBurst == (Discretionary :> 2) @@ (Mandatory :> 1)
=============================================================================
