--------------------------- MODULE DegradedPrice ----------------------------
(***************************************************************************)
(* _mandatory_only_price() (controlplane/service.py) and the comparison it *)
(* is made for, `benefit > adjusted_cost` in economics/allocator.py, in    *)
(* binary floating point: Bits significant bits, round to nearest, ties to *)
(* even, and gradual underflow to the least positive number.  A number is  *)
(* an integer count of that unit.  Python has 53 bits; the same ties occur *)
(* with any number of them.                                                *)
(***************************************************************************)
EXTENDS Naturals

CONSTANTS
  Bits,           \* significant bits
  One,            \* the number 1, a power of two
  Benefits,       \* expected_loss_averted_inr
  Costs,          \* verification + delay cost
  Prices          \* the shadow price when the request was admitted

\* Powers of two.
Power[i \in Nat] == IF i = 0 THEN 1 ELSE 2 * Power[i - 1]

\* The unit in the last place: the least one, or twice that of half the number.
UlpOf[x \in Nat] == IF x < Power[Bits] THEN 1 ELSE 2 * UlpOf[x \div 2]

Ulp(num, den) == UlpOf[num \div den]

\* The float nearest to num / den.
Round(num, den) ==
  LET q == Ulp(num, den)
      k == num \div (q * den)
      twice == 2 * (num - k * q * den)
  IN  IF twice < q * den \/ (twice = q * den /\ k % 2 = 0) THEN k * q ELSE (k + 1) * q

Float(S) == {x \in S : Round(x, 1) = x}

\* 1 is a number with all its bits, so underflow is far below it.
ASSUME PriceAssumption ==
  /\ Bits \in Nat \ {0} /\ One \in Nat /\ Round(One, 1) = One /\ One >= Power[Bits - 1]
  /\ Benefits \subseteq Nat /\ Costs \subseteq Nat \ {0} /\ Prices \subseteq Nat

\* math.nextafter(x, inf)
NextAfter(x) == x + Ulp(x, 1)

Higher(x, y) == IF x >= y THEN x ELSE y

VARIABLES
  benefit, cost, shadow,   \* the tier with the highest cut line
  price,                   \* effective_price
  adjusted,                \* adjusted_cost_inr
  pc

priceVars == <<benefit, cost, shadow, price, adjusted, pc>>

PriceInit ==
  /\ benefit \in Float(Benefits) /\ cost \in Float(Costs) /\ shadow \in Float(Prices)
  /\ price = 0 /\ adjusted = 0
  /\ pc = "price"

PriceRatio == Round(benefit * One, cost)

\* max(0.0, benefit / direct_cost - 1.0)
TierCutLine == IF PriceRatio > One THEN Round(PriceRatio - One, 1) ELSE 0

\* Faulty variant: the shadow price stays what it is.
PriceAtShadow == shadow

\* max(current_price, math.nextafter(cut_line, math.inf))
EffectivePrice == Higher(shadow, NextAfter(TierCutLine))

PriceOut ==
  /\ pc = "price"
  /\ price' = EffectivePrice
  /\ pc' = "adjust"
  /\ UNCHANGED <<benefit, cost, shadow, adjusted>>

\* (1.0 + shadow_price) * direct_cost
Adjust ==
  /\ pc = "adjust"
  /\ adjusted' = Round(Round(One + price, 1) * cost, One)
  /\ pc' = "done"
  /\ UNCHANGED <<benefit, cost, shadow, price>>

PriceNext == PriceOut \/ Adjust

PriceSpec == PriceInit /\ [][PriceNext]_priceVars

-----------------------------------------------------------------------------
\* _mandatory_only_price: "price out economic choices".  They then cost more than
\* they are worth up to rounding: the adjusted cost falls short of the benefit by
\* at most one unit in its last place, and a choice that slips through is worth
\* next to nothing.
PricedOutUpToRounding ==
  pc = "done" => benefit <= adjusted + Ulp(benefit, 1)
=============================================================================
