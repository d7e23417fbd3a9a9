---------------------------- MODULE MCAssessment ----------------------------
(* Assessment for TLC: two harm axes and an isotonic map that is 0 for low   *)
(* scores, as the fitted maps are.                                           *)
EXTENDS Assessment, TLC

CONSTANTS Unsafe, Read, Financial, Watched

Harm(x, y) == (Hallucination :> x) @@ (Unsafe :> y)

MCConsequence == Harm(5, 7)
MCCatchRate == (0 :> Harm(15, 25)) @@ (1 :> Harm(68, 78)) @@ (2 :> Harm(88, 91))
MCCost ==
  (0 :> [e \in Effect \cup {NoEffect} |-> 2]) @@
  (1 :> [e \in Effect \cup {NoEffect} |-> 18]) @@
  (2 :> [e \in Effect \cup {NoEffect} |-> IF e = Financial THEN 640 ELSE 320])

MCCalibration ==
  [x \in Score |-> IF x < 20 THEN 0 ELSE IF x < 60 THEN x - 18 ELSE x]

Vectors == {Harm(0, 0), Harm(21, 21), Harm(0, 25), Harm(60, 10), Harm(25, 96)}
AllJudgements == {Harm(15, 25), Harm(10, 96)}

\* What tiers 0 and 1 report: the same, or one of them finds nothing.
Reports ==
  {[i \in 1..2 |-> h] : h \in Vectors} \cup
  {[i \in 1..2 |-> IF i = 1 THEN Harm(0, 0) ELSE h] : h \in Vectors}

\* Every kind of call of a session, at three prices.
AllCalls ==
  [session : Session, signals : Reports, regime : Regime,
   effect : Effect \cup {NoEffect}, degraded : BOOLEAN, price : {0, 300, 100000}]

\* Calls of sessions: only how much risk a turn folds in matters.
SessionCalls ==
  [session : Session, signals : {[i \in 1..2 |-> h] : h \in {Harm(0, 0), Harm(0, 92)}},
   regime : {"grounded"}, effect : {NoEffect}, degraded : {FALSE}, price : {100000}]

\* Calls without a session.
Alone == {[c EXCEPT !.session = NoSession] : c \in SessionCalls}

\* The other turns only charge the session.
MCCalls == [t \in Turn |-> IF t = Watched THEN AllCalls \cup Alone ELSE SessionCalls]

Others == Permutations(Turn \ {Watched})

LightCalls == [t \in Turn |-> SessionCalls]
=============================================================================
