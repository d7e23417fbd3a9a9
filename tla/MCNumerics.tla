----------------------------- MODULE MCNumerics -----------------------------
(* The statistics on every sample a few rows long, a row added at a time, and *)
(* the degraded price in five significant bits.                               *)
EXTENDS Samples, DegradedPrice

NoPrice ==
  benefit = 0 /\ cost = 0 /\ shadow = 0 /\ price = 0 /\ adjusted = 0 /\ pc = "off"

MCBenefits == 0..4096
MCCosts == 256..511
MCPrices == {0, 256, 1024}

MCAlpha == <<3, 4>>
MCDelta == <<1, 2>>
=============================================================================
