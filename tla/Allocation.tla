----------------------------- MODULE Allocation -----------------------------
(***************************************************************************)
(* The decision rules of one assessment, as operators: risk/harm_vector.py,*)
(* economics/allocator.py, effects/effect_gate.py and the degraded price   *)
(* of service.py.                                                          *)
(*                                                                         *)
(* Floats are integers: scores, catch rates and thresholds in hundredths,  *)
(* a shadow price in hundredths, and money in the unit that makes          *)
(* score * consequence * catch rate an integer.  (DegradedPrice models the *)
(* rounding of the one step where it decides something.)                   *)
(***************************************************************************)
EXTENDS Integers, FiniteSets, FiniteSetsExt

CONSTANTS
  Axis, Hallucination,      \* harm axes, and the one the regime can raise
  Effect, NoEffect,         \* effect classes; NoEffect: no tool call
  Consequence,              \* RoutePolicy.consequence_inr
  CatchRate,                \* per tier and axis
  Cost,                     \* verification + delay cost, per tier and effect
  HumanReview               \* RoutePolicy.human_review_required_for

Tier == 0..2
NoTier == -1
Score == 0..100
Regime == {"grounded", "estimable", "unverifiable"}
Vector == [Axis -> Score]

ASSUME AllocationAssumption ==
  /\ IsFiniteSet(Axis) /\ Hallucination \in Axis
  /\ NoEffect \notin Effect /\ HumanReview \subseteq Effect
  /\ Consequence \in [Axis -> Nat]
  /\ CatchRate \in [Tier -> [Axis -> Score]]
  /\ Cost \in [Tier -> [Effect \cup {NoEffect} -> Nat \ {0}]]

-----------------------------------------------------------------------------
\* HarmVector.maximum()
Maximum(h) == Max({h[a] : a \in Axis})

\* Of each axis 0.72 of the strongest signal and 0.28 of the mean.
Blend(signals, a) ==
  LET n == Cardinality(DOMAIN signals)
      strongest == Max({signals[i][a] : i \in DOMAIN signals})
      total == MapThenSumSet(LAMBDA i : signals[i][a], DOMAIN signals)
  IN  (72 * strongest * n + 28 * total) \div (100 * n)

\* combine_signals: at least 0.38 of hallucination when nothing can support
\* the claim.
Combine(signals, regime) ==
  [a \in Axis |-> IF a = Hallucination /\ regime = "unverifiable"
                  THEN Max({38, Blend(signals, a)})
                  ELSE Blend(signals, a)]

-----------------------------------------------------------------------------
\* expected_loss_averted_inr
Benefit(h, k) ==
  MapThenSumSet(LAMBDA a : h[a] * Consequence[a] * CatchRate[k][a], Axis)

\* net_value_inr; a tier is worth it when its benefit exceeds its priced cost.
NetValue(h, e, price, k) == 100 * Benefit(h, k) - (100 + price) * Cost[k][e]

Affordable(h, e, price) == {k \in Tier : NetValue(h, e, price, k) > 0}

\* max() by net value over the affordable tiers: the first one of equals.
Better(h, e, price, best, k) ==
  IF k \in Affordable(h, e, price)
     /\ (best = NoTier \/ NetValue(h, e, price, k) > NetValue(h, e, price, best))
  THEN k ELSE best

Best(h, e, price) ==
  Better(h, e, price,
    Better(h, e, price, Better(h, e, price, NoTier, 0), 1), 2)

\* Faulty variant: the floor overrides only "no tier at all".
SelectTierIfNone(h, e, price, forced) ==
  IF forced /\ Best(h, e, price) = NoTier THEN 1 ELSE Best(h, e, price)

\* _select_tier: the floor buys tier 1 when nothing above tier 0 is bought.
SelectTier(h, e, price, forced) ==
  IF forced /\ Best(h, e, price) \in {NoTier, 0} THEN 1 ELSE Best(h, e, price)

\* _assurance_spend
Spend(k, e) == IF k = NoTier THEN 0 ELSE Cost[k][e]

-----------------------------------------------------------------------------
Ruling(verdict, reason) == [verdict |-> verdict, reason |-> reason]

\* Faulty variant: an effect waits only for the floor, not for a paid check.
VerdictForcedOnly(h, regime, e, forced, k) ==
  LET max == Maximum(h) IN
  IF regime = "unverifiable" /\ max >= 35
  THEN Ruling(IF e # NoEffect THEN "hold" ELSE "abstain", "no evidence")
  ELSE IF max >= 88 THEN Ruling("block", "block boundary")
  ELSE IF e # NoEffect /\ forced THEN Ruling("hold", "effect waits")
  ELSE Ruling("allow", IF k # NoTier THEN "cleared" ELSE "below floor and cut line")

\* _verdict
Verdict(h, regime, e, forced, k) ==
  LET max == Maximum(h)
      checked == k # NoTier
  IN
  IF regime = "unverifiable" /\ max >= 35
  THEN Ruling(IF e # NoEffect THEN "hold" ELSE "abstain", "no evidence")
  ELSE IF max >= 88 THEN Ruling("block", "block boundary")
  ELSE IF e # NoEffect /\ (forced \/ checked) THEN Ruling("hold", "effect waits")
  ELSE IF checked /\ max >= 45 THEN Ruling("annotate", "uncertain")
  ELSE IF checked THEN Ruling("allow", "cleared")
  ELSE Ruling("allow", "below floor and cut line")

\* gate_effects, for the call's effect.
Gate(e, verdict) ==
  IF e = NoEffect THEN "none"
  ELSE IF verdict = "block" THEN "deny"
  ELSE IF verdict \in {"hold", "abstain"} \/ e \in HumanReview THEN "hold"
  ELSE "permit"

-----------------------------------------------------------------------------
\* The least price in hundredths above benefit / cost - 1.
CutLine(h, e, k) ==
  Max({0, (100 * Benefit(h, k) - 100 * Cost[k][e]) \div Cost[k][e] + 1})

\* Faulty variant: only the last tier is priced out.
MandatoryOnlyPriceLast(h, e, price) == Max({price, CutLine(h, e, 2)})

\* _mandatory_only_price
MandatoryOnlyPrice(h, e, price) ==
  Max({price} \cup {CutLine(h, e, k) : k \in Tier})

\* allocate_verification
Allocate(h, regime, e, price, threshold) ==
  LET forced == Maximum(h) >= threshold
      tier == SelectTier(h, e, price, forced)
      ruling == Verdict(h, regime, e, forced, tier)
  IN  [harm |-> h, forced |-> forced, tier |-> tier, spend |-> Spend(tier, e),
       verdict |-> ruling.verdict, reason |-> ruling.reason]
=============================================================================
