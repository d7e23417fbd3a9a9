---------------------------- MODULE MCAdmission -----------------------------
(* Admission for TLC: one route, two permits and two queue places in the     *)
(* discretionary lane, one of each in the mandatory lane.                    *)
EXTENDS Admission, TLC

MCConcurrency == (Discretionary :> 2) @@ (Mandatory :> 1)
MCQueueCapacity == (Discretionary :> 2) @@ (Mandatory :> 1)
MCBurst == (Discretionary :> 4) @@ (Mandatory :> 2)

AnyRequest == Permutations(Request)
=============================================================================
