---------------------------- MODULE MCEvaluation ----------------------------
(* The evaluation for TLC: five rows, 12 minutes apart, on one route with an *)
(* effect and one without.  Beside it the statistics it reports and serves by, *)
(* which share no state with it: a behaviour is one of one of the three parts. *)
EXTENDS EvaluationReport, MCNumerics

CONSTANTS Unsafe, Financial

VARIABLE part

MCInit ==
  /\ Init /\ sample = <<>>
  /\ \/ part \in {"window", "samples"} /\ NoPrice
     \/ part = "prices" /\ PriceInit

MCNext ==
  /\ UNCHANGED part
  /\ \/ part = "window" /\ Next /\ UNCHANGED <<sample, priceVars>>
     \/ part = "samples" /\ AddRow /\ UNCHANGED <<windowVars, priceVars>>
     \/ part = "prices" /\ PriceNext /\ UNCHANGED <<windowVars, sample>>

MCSpec ==
  /\ MCInit /\ [][MCNext]_<<part, windowVars, sample, priceVars>>
  /\ part = "window" => WF_windowVars(RaiseCases) /\ WF_windowVars(Drain)

Harm(x, y) == (Hallucination :> x) @@ (Unsafe :> y)
MCConsequence == Harm(1, 2)
MCCatchRate == (0 :> Harm(15, 25)) @@ (1 :> Harm(68, 78)) @@ (2 :> Harm(88, 91))
MCCost == [k \in 0..2 |-> [e \in Effect \cup {NoEffect} |->
            CASE k = 0 -> 2 [] k = 1 -> 18 [] OTHER -> IF e = Financial THEN 640 ELSE 320]]

MCThreshold == ("kb" :> 40) @@ ("finops" :> 40)
MCSla == ("kb" :> 45) @@ ("finops" :> 20)

Row(route, h, j, regime, e, truth) ==
  [route |-> route, harm |-> h, judged |-> j, regime |-> regime, effect |-> e, truth |-> truth]

MCRows ==
  {Row("kb", Harm(0, 0), Harm(0, 0), "grounded", NoEffect, Harm(0, 0)),
   Row("kb", Harm(36, 0), Harm(36, 0), "unverifiable", NoEffect, Harm(0, 0)),
   Row("kb", Harm(0, 92), Harm(0, 70), "grounded", NoEffect, Harm(0, 100)),
   Row("finops", Harm(60, 20), Harm(95, 20), "estimable", Financial, Harm(100, 0))}

MCRowsExpected == 5
MCDraw == <<3, 1, 5, 2, 4>>
MCCorrect == <<TRUE, FALSE, TRUE, TRUE, FALSE>>
MCAuditDraw == <<2, 30, 60, 3, 50>>
MCCatchDraw == <<10, 95, 60, 93, 30>>
=============================================================================
