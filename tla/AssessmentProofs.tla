-------------------------- MODULE AssessmentProofs --------------------------
(***************************************************************************)
(* Proofs about Assessment: the release floor, the effects and the charge  *)
(* of a trace, for every policy, price, cost, calibration and schedule.    *)
(***************************************************************************)
EXTENDS Assessment, AllocationProofs, SequenceTheorems

\* The floor: a forced decision buys tier 1 or 2 at any price.
LEMMA ForcedBuysACheck ==
  ASSUME NEW h, NEW e, NEW price, NEW forced, forced
  PROVE  SelectTier(h, e, price, forced) \in {1, 2}
BY BestIsATier DEF SelectTier

\* A permitted effect: neither the floor nor the economics asked for a check.
LEMMA PermitMeansNoCheck ==
  ASSUME NEW h, NEW regime, NEW e, NEW price, NEW threshold,
         Gate(e, Allocate(h, regime, e, price, threshold).verdict) = "permit"
  PROVE  /\ ~(Maximum(h) >= threshold)
         /\ Affordable(h, e, price) = {}
<1> DEFINE forced == Maximum(h) >= threshold
           tier == SelectTier(h, e, price, forced)
<1>1. Allocate(h, regime, e, price, threshold).verdict
        = Verdict(h, regime, e, forced, tier).verdict
  BY DEF Allocate
<1>2. e # NoEffect
      /\ Verdict(h, regime, e, forced, tier).verdict \notin {"block", "hold", "abstain"}
  BY <1>1 DEF Gate
<1>3. ~forced /\ tier = NoTier
  BY <1>2 DEF Verdict, Ruling
<1>4. Best(h, e, price) = NoTier
  BY <1>3 DEF SelectTier
<1> QED BY <1>3, <1>4, BestIsATier
-----------------------------------------------------------------------------
(* The inductive invariant.  A trace is explained by the first decision on  *)
(* the turn's call and on the risk it carried; a turn that waits for the    *)
(* judge still holds that decision.                                         *)

Shape ==
  /\ pc = [t \in Turn |-> pc[t]]
  /\ call = [t \in Turn |-> call[t]]
  /\ carried = [t \in Turn |-> carried[t]]
  /\ trace = [t \in Turn |-> trace[t]]

First(t) == FirstDecision(call[t], carried[t])

Escalating(t) ==
  pc[t] = "escalated" => trace[t] = First(t) /\ First(t).tier = 2

Charged(t) ==
  Decided(t) => /\ trace[t].tier = First(t).tier
                /\ trace[t].spend = First(t).spend
                /\ trace[t].forced = First(t).forced

EffectWaits(t) ==
  Decided(t) /\ Gate(call[t].effect, trace[t].verdict) = "permit" =>
    /\ ~(Maximum(trace[t].harm) >= Bar(carried[t]))
    /\ Affordable(trace[t].harm, call[t].effect,
                  EffectivePrice(call[t], FirstHarm(t))) = {}

IInv ==
  /\ Shape
  /\ \A t \in Turn : Escalating(t) /\ Charged(t) /\ EffectWaits(t)

LEMMA InitIInv == Init => IInv
BY DEF Init, IInv, Shape, Escalating, Charged, EffectWaits, Decided

\* A step of one turn leaves the others' part of the invariant alone.
LEMMA OthersKeep ==
  ASSUME NEW t \in Turn, NEW u \in Turn, u # t, IInv,
         pc'[u] = pc[u], call'[u] = call[u], carried'[u] = carried[u],
         trace'[u] = trace[u]
  PROVE  Escalating(u)' /\ Charged(u)' /\ EffectWaits(u)'
BY DEF IInv, Escalating, Charged, EffectWaits, First, Decided, FirstHarm

\* A step that moves a decided turn on, or ends one, and decides nothing.
LEMMA MovesOn ==
  ASSUME NEW t \in Turn, NEW p, IInv, Decided(t) \/ p = "raised",
         p # "idle", p # "escalated", Goto(t, p),
         UNCHANGED <<call, carried, trace>>
  PROVE  IInv'
<1>1. Shape'
  BY DEF IInv, Shape, Goto
<1>2. ASSUME NEW u \in Turn
      PROVE  Escalating(u)' /\ Charged(u)' /\ EffectWaits(u)'
  <2>1. CASE u # t
    <3>1. pc'[u] = pc[u]
      BY <2>1 DEF IInv, Shape, Goto
    <3> QED BY <2>1, <3>1, OthersKeep
  <2>2. CASE u = t
    <3>1. pc'[t] = p
      BY DEF IInv, Shape, Goto
    <3> QED BY <2>2, <3>1 DEF IInv, Escalating, Charged, EffectWaits, First, Decided, FirstHarm
  <2> QED BY <2>1, <2>2
<1> QED BY <1>1, <1>2 DEF IInv

LEMMA BeginIInv ==
  ASSUME IInv, NEW t \in Turn, Begin(t)
  PROVE  IInv'
<1>1. PICK c \in Calls[t] :
        /\ call' = [call EXCEPT ![t] = c]
        /\ carried' = [carried EXCEPT ![t] = CarriedRisk(c.session)]
        /\ trace' = [trace EXCEPT ![t] = FirstDecision(c, CarriedRisk(c.session))]
        /\ Goto(t, IF FirstDecision(c, CarriedRisk(c.session)).tier = 2
                   THEN "escalated" ELSE "decided")
  BY DEF Begin
<1>2. Shape'
  BY <1>1 DEF IInv, Shape, Goto
<1>3. /\ call'[t] = c
      /\ trace'[t] = First(t)'
      /\ pc'[t] = IF First(t)'.tier = 2 THEN "escalated" ELSE "decided"
  BY <1>1 DEF IInv, Shape, Goto, First
<1>4. Escalating(t)' /\ Charged(t)'
  BY <1>3 DEF Escalating, Charged, Decided
<1>5. EffectWaits(t)'
  <2> DEFINE h == CascadeHarm(c)
             price == EffectivePrice(c, h)
  <2>1. First(t)' = Allocate(h, c.regime, c.effect, price, Bar(carried'[t]))
    BY <1>3 DEF First, FirstDecision, Bar, Tightened
  <2>2. trace'[t].harm = h
    BY <1>3, <2>1 DEF Allocate
  <2>3. FirstHarm(t)' = h
    BY <1>3 DEF FirstHarm
  <2>4. ASSUME Gate(c.effect, trace'[t].verdict) = "permit"
        PROVE  ~(Maximum(h) >= Bar(carried'[t])) /\ Affordable(h, c.effect, price) = {}
    BY <1>3, <2>1, <2>4, PermitMeansNoCheck
  <2> QED BY <1>3, <2>2, <2>3, <2>4 DEF EffectWaits, Bar, Tightened
<1>6. ASSUME NEW u \in Turn, u # t
      PROVE  Escalating(u)' /\ Charged(u)' /\ EffectWaits(u)'
  <2>1. pc'[u] = pc[u] /\ call'[u] = call[u] /\ carried'[u] = carried[u] /\ trace'[u] = trace[u]
    BY <1>1, <1>6 DEF IInv, Shape, Goto
  <2> QED BY <1>6, <2>1, OthersKeep
<1> QED BY <1>2, <1>4, <1>5, <1>6 DEF IInv

LEMMA EscalateIInv ==
  ASSUME IInv, NEW t \in Turn, Escalate(t)
  PROVE  IInv'
<1> DEFINE c == call[t]
<1>1. PICK judge \in JudgeReports :
        LET h == Calibrate(Combine(Append(c.signals, judge.scores), c.regime))
            second == Allocate(h, c.regime, c.effect,
                               EffectivePrice(c, trace[t].harm), Bar(carried[t]))
        IN  trace' = [trace EXCEPT ![t] = ReviewedPaid(trace[t], second, judge.ran)]
  BY DEF Escalate
<1> DEFINE h == Calibrate(Combine(Append(c.signals, judge.scores), c.regime))
           price == EffectivePrice(c, trace[t].harm)
           second == Allocate(h, c.regime, c.effect, price, Bar(carried[t]))
<1>2. pc[t] = "escalated" /\ Goto(t, "decided") /\ UNCHANGED <<call, carried>>
  BY DEF Escalate
<1>3. Shape'
  BY <1>1, <1>2 DEF IInv, Shape, Goto
<1>4. trace'[t] = ReviewedPaid(trace[t], second, judge.ran) /\ pc'[t] = "decided"
  BY <1>1, <1>2 DEF IInv, Shape, Goto
<1>5. trace[t] = First(t) /\ First(t).tier = 2
  BY <1>2 DEF IInv, Escalating
<1>6. First(t)' = First(t) /\ FirstHarm(t)' = FirstHarm(t)
  BY <1>2 DEF First, FirstDecision, FirstHarm, Bar, Tightened
<1>7. Escalating(t)' /\ Charged(t)'
  BY <1>4, <1>5, <1>6 DEF Escalating, Charged, ReviewedPaid
<1>8. EffectWaits(t)'
  <2>1. trace[t].harm = FirstHarm(t)
    BY <1>5 DEF First, FirstDecision, Allocate, FirstHarm
  <2>2. trace'[t].harm = h /\ trace'[t].verdict = second.verdict
    BY <1>4 DEF ReviewedPaid, Allocate
  <2>3. ASSUME Gate(c.effect, second.verdict) = "permit"
        PROVE  ~(Maximum(h) >= Bar(carried[t])) /\ Affordable(h, c.effect, price) = {}
    BY <2>3, PermitMeansNoCheck
  <2>4. Bar(carried[t])' = Bar(carried[t])
    BY <1>2 DEF Bar, Tightened
  <2> QED BY <1>2, <1>6, <2>1, <2>2, <2>3, <2>4 DEF EffectWaits
<1>9. ASSUME NEW u \in Turn, u # t
      PROVE  Escalating(u)' /\ Charged(u)' /\ EffectWaits(u)'
  <2>1. pc'[u] = pc[u] /\ trace'[u] = trace[u]
    BY <1>1, <1>2, <1>9 DEF IInv, Shape, Goto
  <2> QED BY <1>2, <1>9, <2>1, OthersKeep
<1> QED BY <1>3, <1>7, <1>8, <1>9 DEF IInv

LEMMA NextIInv == IInv /\ [Next]_vars => IInv'
<1> SUFFICES ASSUME IInv, [Next]_vars PROVE IInv'
  OBVIOUS
<1>1. ASSUME NEW t \in Turn, Begin(t) PROVE IInv'
  BY <1>1, BeginIInv
<1>2. ASSUME NEW t \in Turn, Escalate(t) PROVE IInv'
  BY <1>2, EscalateIInv
<1>3. ASSUME NEW t \in Turn, DetectorRaises(t) PROVE IInv'
  BY <1>3, MovesOn DEF DetectorRaises
<1>4. ASSUME NEW t \in Turn, ObserveReads(t) PROVE IInv'
  <2>1. Decided(t) /\ UNCHANGED <<call, carried, trace>>
    BY <1>4 DEF ObserveReads, Decided
  <2>2. Goto(t, "observed") \/ Goto(t, "observing")
    BY <1>4 DEF ObserveReads
  <2> QED BY <2>1, <2>2, MovesOn
<1>5. ASSUME NEW t \in Turn, ObserveWrites(t) PROVE IInv'
  BY <1>5, MovesOn DEF ObserveWrites, Decided
<1>6. ASSUME NEW t \in Turn, Record(t) PROVE IInv'
  BY <1>6, MovesOn DEF Record, Decided
<1>7. ASSUME NEW t \in Turn, RecordRaises(t) PROVE IInv'
  BY <1>7, MovesOn DEF RecordRaises, Decided
<1>8. CASE UNCHANGED vars
  BY <1>8 DEF vars, IInv, Shape, Escalating, Charged, EffectWaits, First,
              FirstDecision, Decided, FirstHarm, Bar, Tightened
<1> QED BY <1>1, <1>2, <1>3, <1>4, <1>5, <1>6, <1>7, <1>8 DEF Next

THEOREM Explained == Spec => []IInv
BY InitIInv, NextIInv, PTL DEF Spec

-----------------------------------------------------------------------------
\* README: a safety floor that cannot be priced away.  The reason is that a
\* forced decision buys tier 1 or 2 at any price (ForcedBuysACheck), and that
\* the second pass does not revise the purchase.
THEOREM FloorAlwaysChecked == Spec => []FloorIsChecked
<1>1. IInv => FloorIsChecked
  <2> SUFFICES ASSUME IInv, NEW t \in Turn, Decided(t),
                      Maximum(FirstHarm(t)) >= Bar(carried[t])
               PROVE  trace[t].tier \in {1, 2}
    BY DEF FloorIsChecked
  <2> DEFINE c == call[t]
             h == FirstHarm(t)
             price == EffectivePrice(c, h)
             forced == Maximum(h) >= Bar(carried[t])
  <2>1. First(t).tier = SelectTier(h, c.effect, price, forced)
    BY DEF First, FirstDecision, Allocate, FirstHarm
  <2>2. SelectTier(h, c.effect, price, forced) \in {1, 2}
    BY ForcedBuysACheck
  <2> QED BY <2>1, <2>2 DEF IInv, Charged
<1> QED BY <1>1, Explained, PTL

\* The trace charges for the first decision's purchase, whatever the judge says.
THEOREM PurchaseAlwaysFinal == Spec => []PurchaseIsFinal
<1>1. IInv => PurchaseIsFinal
  BY DEF IInv, Charged, First, PurchaseIsFinal
<1> QED BY <1>1, Explained, PTL

\* No effect fires while the floor or the economics ask for a check.
THEOREM EffectsAlwaysWait == Spec => []EffectsWaitForChecks
<1>1. IInv => EffectsWaitForChecks
  BY DEF IInv, EffectWaits, EffectsWaitForChecks
<1> QED BY <1>1, Explained, PTL
-----------------------------------------------------------------------------
(* Degraded work.                                                           *)

\* What tiers 0 and 1 report is calibrated to scores.
LEMMA CascadeHarmIsVector ==
  ASSUME NEW c, IsCall(c) PROVE CascadeHarm(c) \in Vector
<1>1. Combine(c.signals, c.regime) \in Vector
  <2>1. 2 \in Nat \ {0} /\ c.signals \in [1..2 -> Vector]
    BY DEF IsCall
  <2> QED BY <2>1, CombineIsVector
<1> QED BY <1>1, AssessmentAssumption DEF CascadeHarm, Calibrate, Vector

\* A turn is decided on one of the calls it may get.
Called == Shape /\ \A t \in Turn : pc[t] # "idle" => call[t] \in Calls[t]

LEMMA AlwaysCalled == Spec => []Called
<1>1. Init => Called
  BY DEF Init, Called, Shape
<1>2. Called /\ [Next]_vars => Called'
  <2> SUFFICES ASSUME Called, [Next]_vars PROVE Called'
    OBVIOUS
  <2>1. ASSUME NEW t \in Turn, Begin(t) PROVE Called'
    BY <2>1 DEF Begin, Goto, Called, Shape
  <2>2. ASSUME NEW t \in Turn, Escalate(t) PROVE Called'
    BY <2>2 DEF Escalate, Goto, Called, Shape
  <2>3. ASSUME NEW t \in Turn,
               \/ DetectorRaises(t) \/ ObserveReads(t) \/ ObserveWrites(t)
               \/ Record(t) \/ RecordRaises(t)
        PROVE  Called'
    BY <2>3 DEF DetectorRaises, ObserveReads, ObserveWrites, Record, RecordRaises,
                Goto, Called, Shape
  <2>4. CASE UNCHANGED vars
    BY <2>4 DEF vars, Called, Shape
  <2> QED BY <2>1, <2>2, <2>3, <2>4 DEF Next
<1> QED BY <1>1, <1>2, PTL DEF Spec

\* RUNTIME_PREREGISTRATION.md criterion 5: degraded work pays for the floor's
\* tier 1 or for nothing, whatever the economics, the session and the judge say.
THEOREM DegradedAlwaysFloorOnly == Spec => []DegradedBuysFloorOnly
<1>1. IInv /\ Called => DegradedBuysFloorOnly
  <2> SUFFICES ASSUME IInv, Called, NEW t \in Turn, Decided(t), call[t].degraded
               PROVE  trace[t].tier = (IF trace[t].forced THEN 1 ELSE NoTier)
    BY DEF DegradedBuysFloorOnly
  <2> DEFINE c == call[t]
             h == CascadeHarm(c)
             price == EffectivePrice(c, h)
             forced == Maximum(h) >= Bar(carried[t])
  <2>1. c \in Calls[t]
    BY DEF Called, Decided
  <2>2. c.effect \in Effect \cup {NoEffect} /\ c.price \in Int
    BY <2>1, AssessmentAssumption DEF IsCall
  <2>3. \A k \in Tier : Benefit(h, k) \in Int
    <3>1. CascadeHarm(c) \in Vector
      BY <2>1, CascadeHarmIsVector, AssessmentAssumption
    <3>2. \A k \in Tier : Benefit(CascadeHarm(c), k) \in Nat
      BY <3>1, BenefitIsNat
    <3> HIDE DEF c
    <3> QED BY <3>2
  <2>4. price = MandatoryOnlyPrice(h, c.effect, c.price)
    BY DEF EffectivePrice
  <2>5. Affordable(h, c.effect, price) = {}
    BY <2>2, <2>3, <2>4, NothingAffordable
  <2>6. Best(h, c.effect, price) = NoTier
    BY <2>5 DEF Best, Better
  <2>7. First(t).tier = (IF forced THEN 1 ELSE NoTier) /\ First(t).forced = forced
    BY <2>6 DEF First, FirstDecision, Allocate, SelectTier
  <2> QED BY <2>7 DEF IInv, Charged
<1> QED BY <1>1, Explained, AlwaysCalled, PTL
-----------------------------------------------------------------------------
(* Session risk.  Nothing is said here of turns that overlap.               *)

\* What is left of x after each of n turns.
Left(f, x, n) == f = [k \in 0..n |-> IF k = 0 THEN x ELSE Decay(f[k - 1])]

LEMMA LeftExists ==
  ASSUME NEW x, NEW n \in Nat PROVE \E f : Left(f, x, n)
<1> DEFINE P == {k \in Nat : \E f : Left(f, x, k)}
<1>1. 0 \in P
  <2> DEFINE f == [k \in 0..0 |-> x]
  <2>1. f = [k \in 0..0 |-> IF k = 0 THEN x ELSE Decay(f[k - 1])]
    OBVIOUS
  <2>2. Left(f, x, 0)
    BY <2>1 DEF Left
  <2> QED BY <2>2
<1>2. ASSUME NEW k \in Nat, k \in P PROVE k + 1 \in P
  <2>1. PICK f : Left(f, x, k)
    BY <1>2
  <2> DEFINE g == [j \in 0..(k + 1) |-> IF j = k + 1 THEN Decay(f[k]) ELSE f[j]]
  <2>2. ASSUME NEW j \in 0..(k + 1)
        PROVE  g[j] = IF j = 0 THEN x ELSE Decay(g[j - 1])
    <3>1. CASE j = k + 1
      <4>1. g[j] = Decay(f[k]) /\ g[j - 1] = f[k] /\ j # 0
        BY <3>1
      <4> QED BY <4>1
    <3>2. CASE j # k + 1
      <4>1. j \in 0..k /\ g[j] = f[j] /\ (j # 0 => g[j - 1] = f[j - 1])
        BY <3>2
      <4>2. f[j] = IF j = 0 THEN x ELSE Decay(f[j - 1])
        BY <2>1, <4>1 DEF Left
      <4> HIDE DEF g
      <4> QED BY <4>1, <4>2
    <3> QED BY <3>1, <3>2
  <2>3. g = [j \in 0..(k + 1) |-> g[j]]
    OBVIOUS
  <2> HIDE DEF g
  <2>4. Left(g, x, k + 1)
    BY <2>2, <2>3 DEF Left
  <2> QED BY <2>4
<1>3. Nat \subseteq P
  <2> HIDE DEF P
  <2> QED BY <1>1, <1>2, UpwardInduction
<1> QED BY <1>3

LEMMA LeftAgrees ==
  ASSUME NEW x, NEW n \in Nat, NEW m \in Nat, n <= m,
         NEW f, Left(f, x, n), NEW g, Left(g, x, m)
  PROVE  f[n] = g[n]
<1>1. \A k \in 0..n : f[k] = IF k = 0 THEN x ELSE Decay(f[k - 1])
  BY DEF Left
<1>2. \A k \in 0..m : g[k] = IF k = 0 THEN x ELSE Decay(g[k - 1])
  BY DEF Left
<1> DEFINE P == {k \in Nat : k <= n => f[k] = g[k]}
<1>3. 0 \in P
  BY <1>1, <1>2
<1>4. ASSUME NEW k \in Nat, k \in P PROVE k + 1 \in P
  <2> SUFFICES ASSUME k + 1 <= n PROVE f[k + 1] = g[k + 1]
    OBVIOUS
  <2>1. f[k] = g[k] /\ k + 1 \in 0..n /\ k + 1 \in 0..m /\ (k + 1) - 1 = k /\ k + 1 # 0
    BY <1>4
  <2>2. f[k + 1] = Decay(f[(k + 1) - 1]) /\ g[k + 1] = Decay(g[(k + 1) - 1])
    BY <1>1, <1>2, <2>1
  <2> QED BY <2>1, <2>2
<1>5. Nat \subseteq P
  <2> HIDE DEF P
  <2> QED BY <1>3, <1>4, UpwardInduction
<1> QED BY <1>5

\* Decay keeps the order and leaves at most what there was.
LEMMA DecayFacts ==
  ASSUME NEW a \in Nat PROVE /\ Decay(a) \in Nat /\ Decay(a) <= a
                             /\ \A b \in Nat : a <= b => Decay(a) <= Decay(b)
<1>1. (75 * a) \div 100 \in Nat /\ (75 * a) \div 100 <= a
  BY Z3
<1>2. ASSUME NEW b \in Nat, a <= b PROVE (75 * a) \div 100 <= (75 * b) \div 100
  BY <1>2, Z3
<1> QED BY <1>1, <1>2 DEF Decay

\* One more turn decays what is left.
LEMMA RemainsNext ==
  ASSUME NEW x, NEW n \in Nat
  PROVE  Remains(x, 0) = x /\ Remains(x, n + 1) = Decay(Remains(x, n))
<1> DEFINE e(k) == CHOOSE f : Left(f, x, k)
<1>1. ASSUME NEW k \in Nat PROVE Left(e(k), x, k) /\ Remains(x, k) = e(k)[k]
  <2>1. Left(e(k), x, k)
    BY LeftExists
  <2>2. Remains(x, k) = e(k)[k]
    BY DEF Remains, Left
  <2> QED BY <2>1, <2>2
<1> HIDE DEF e
<1>2. \A k \in Nat : \A j \in 0..k : e(k)[j] = IF j = 0 THEN x ELSE Decay(e(k)[j - 1])
  BY <1>1 DEF Left
<1>3. Remains(x, 0) = x
  <2>1. 0 \in Nat /\ 0 \in 0..0
    OBVIOUS
  <2> QED BY <1>1, <1>2, <2>1
<1>4. n + 1 \in Nat /\ n + 1 \in 0..(n + 1) /\ n + 1 # 0 /\ (n + 1) - 1 = n /\ n <= n + 1
  OBVIOUS
<1>5. e(n + 1)[n + 1] = Decay(e(n + 1)[n])
  BY <1>2, <1>4
<1>6. e(n)[n] = e(n + 1)[n]
  BY <1>1, <1>4, LeftAgrees
<1> QED BY <1>1, <1>3, <1>4, <1>5, <1>6

\* The more turns, the less is left.
LEMMA RemainsShrinks ==
  ASSUME NEW x \in Nat, NEW n \in Nat, NEW m \in Nat, n <= m
  PROVE  Remains(x, n) \in Nat /\ Remains(x, m) \in Nat /\ Remains(x, m) <= Remains(x, n)
<1> DEFINE T == {k \in Nat : Remains(x, k) \in Nat}
           P == {k \in Nat : Remains(x, n + k) <= Remains(x, n)}
<1>1. Nat \subseteq T
  <2>1. 0 \in T
    BY RemainsNext
  <2>2. ASSUME NEW k \in Nat, k \in T PROVE k + 1 \in T
    BY <2>2, RemainsNext, DecayFacts
  <2> HIDE DEF T
  <2> QED BY <2>1, <2>2, UpwardInduction
<1>2. Nat \subseteq P
  <2>1. 0 \in P
    <3>1. n + 0 = n /\ Remains(x, n) \in Nat
      BY <1>1
    <3> QED BY <3>1
  <2>2. ASSUME NEW k \in Nat, k \in P PROVE k + 1 \in P
    <3>1. n + k \in Nat /\ n + (k + 1) = (n + k) + 1
      OBVIOUS
    <3>2. Remains(x, n + k) \in Nat /\ Remains(x, n) \in Nat /\ Remains(x, n + (k + 1)) \in Nat
      BY <1>1, <3>1
    <3>3. Remains(x, n + (k + 1)) = Decay(Remains(x, n + k))
      BY <3>1, RemainsNext
    <3>4. Decay(Remains(x, n + k)) <= Remains(x, n + k)
      BY <3>2, DecayFacts
    <3>5. Remains(x, n + k) <= Remains(x, n)
      BY <2>2
    <3> DEFINE a == Remains(x, n + (k + 1))
               b == Remains(x, n + k)
               c == Remains(x, n)
    <3> HIDE DEF a, b, c
    <3>6. a <= c
      BY <3>2, <3>3, <3>4, <3>5 DEF a, b, c
    <3> QED BY <3>6 DEF a, c
  <2> HIDE DEF P
  <2> QED BY <2>1, <2>2, UpwardInduction
<1>3. m - n \in Nat /\ n + (m - n) = m
  OBVIOUS
<1>4. Remains(x, n + (m - n)) <= Remains(x, n)
  BY <1>2, <1>3
<1> QED BY <1>1, <1>3, <1>4

-----------------------------------------------------------------------------
\* A turn's own part of what a session keeps is a share of one probability.
LEMMA ShareIsNat ==
  ASSUME NEW h \in Vector PROVE Share(h) \in 0..(100 * RiskUnit)
<1> DEFINE S == {h[a] : a \in Axis}
<1>1. S \subseteq 0..100 /\ S # {}
  BY AllocationAssumption DEF Vector, Score
<1>2. IsFiniteSet(S) /\ S \in SUBSET Int
  <2>1. 0 \in Int /\ 100 \in Int /\ 0..100 \subseteq Int
    OBVIOUS
  <2>2. IsFiniteSet(0..100)
    BY <2>1, FS_Interval
  <2> HIDE DEF S
  <2>3. IsFiniteSet(S)
    BY <1>1, <2>2, FS_Subset
  <2> QED BY <1>1, <2>1, <2>3
<1>3. Maximum(h) \in 0..100
  <2> HIDE DEF S
  <2>1. Max(S) \in S
    BY <1>1, <1>2, MaxOfFinite
  <2> QED BY <1>1, <2>1 DEF Maximum, S
<1> DEFINE m == Maximum(h)
           w == m * RiskUnit
<1>4. w \in Nat /\ w <= 100 * RiskUnit
  <2> HIDE DEF m
  <2>1. m \in Nat /\ 100 - m \in Nat /\ RiskUnit \in Nat
    BY <1>3, AssessmentAssumption DEF m
  <2>2. w \in Nat /\ (100 - m) * RiskUnit \in Nat
    BY <2>1, ProductIsNat
  <2>3. (100 - m) * RiskUnit = 100 * RiskUnit - w
    BY <2>1
  <2> QED BY <2>1, <2>2, <2>3
<1>5. 25 * Maximum(h) * RiskUnit = 25 * w
  BY <1>3, AssessmentAssumption
<1> HIDE DEF w
<1> DEFINE c == 100 * RiskUnit
<1>6. c \in Nat
  BY AssessmentAssumption
<1> HIDE DEF c
<1>7. (25 * w) \div 100 \in 0..c
  <2>1. w \in Nat /\ w <= c
    BY <1>4 DEF c
  <2> QED BY <1>6, <2>1, Z3
<1> QED BY <1>5, <1>7 DEF Share, c

\* What a turn folds in decays what was there, adds its share and stays a
\* probability.
LEMMA FoldFacts ==
  ASSUME NEW r \in 0..(100 * RiskUnit), NEW h \in Vector
  PROVE  /\ Fold(r, h) \in 0..(100 * RiskUnit)
         /\ Fold(r, h) >= Decay(r) /\ Fold(r, h) >= Share(h)
<1> DEFINE c == 100 * RiskUnit
           d == Decay(r)
           x == Share(h)
           S == {c, d + x}
<1>1. c \in Nat /\ d \in Nat /\ d <= r /\ r \in Nat /\ r <= c /\ x \in 0..c
  <2>1. c \in Nat /\ r \in Nat /\ r <= c
    BY AssessmentAssumption
  <2> QED BY <2>1, DecayFacts, ShareIsNat
<1> HIDE DEF c, d, x
<1>2. S \in SUBSET Int /\ S # {} /\ IsFiniteSet(S)
  <2>1. S \in SUBSET Int /\ S # {}
    BY <1>1
  <2>2. IsFiniteSet({c})
    BY FS_Singleton
  <2>3. IsFiniteSet({c} \cup {d + x})
    BY <2>2, FS_AddElement
  <2>4. S = {c} \cup {d + x}
    OBVIOUS
  <2> QED BY <2>1, <2>3, <2>4
<1>3. Min(S) \in S /\ \A y \in S : Min(S) <= y
  <2> HIDE DEF S
  <2> QED BY <1>2, MinOfFinite
<1>4. Min(S) \in 0..c /\ Min(S) >= d /\ Min(S) >= x
  BY <1>1, <1>3
<1>5. Fold(r, h) = Min(S)
  BY DEF Fold, c, d, x
<1> QED BY <1>4, <1>5 DEF c, d, x

LEMMA AllocateHarm ==
  ASSUME NEW h, NEW regime, NEW e, NEW price, NEW threshold
  PROVE  Allocate(h, regime, e, price, threshold).harm = h
BY DEF Allocate

\* What the judge reports is a third signal.
LEMMA OneTwo ==
  ASSUME NEW V, NEW s \in [1..2 -> V] PROVE s \in Seq(V) /\ Len(s) = 2
<1>1. DOMAIN s = 1..2 /\ 2 \in Nat
  OBVIOUS
<1>2. Len(s) = 2
  BY <1>1
<1>3. s \in Seq(V)
  <2>1. Seq(V) = UNION {[1..n -> V] : n \in Nat}
    BY SeqDef, Zenon
  <2> QED BY <1>1, <2>1, Zenon
<1> QED BY <1>2, <1>3

LEMMA OneMore ==
  ASSUME NEW V, NEW s \in Seq(V), Len(s) = 2, NEW x \in V
  PROVE  Append(s, x) \in [1..3 -> V]
<1>1. Append(s, x) \in Seq(V) /\ Len(Append(s, x)) = Len(s) + 1
  BY AppendProperties, Zenon
<1>2. Append(s, x) \in [1..Len(Append(s, x)) -> V]
  BY <1>1, LenProperties, Zenon
<1> QED BY <1>1, <1>2

LEMMA InitTypes == Init => TypeOK /\ Called
<1> SUFFICES ASSUME Init PROVE TypeOK /\ Called
  OBVIOUS
<1>1. 0 \in 0..(100 * RiskUnit)
  BY AssessmentAssumption
<1> QED BY <1>1 DEF Init, TypeOK, Called, Shape

\* Types of the parts a step may change.
LEMMA TypesStep ==
  TypeOK /\ Called /\ [Next]_vars => TypeOK'
<1> SUFFICES ASSUME TypeOK, Called, [Next]_vars PROVE TypeOK'
  OBVIOUS
<1> DEFINE R == 0..(100 * RiskUnit)
<1>0. 0 \in R
  BY AssessmentAssumption
<1>1. ASSUME NEW t \in Turn, Begin(t) PROVE TypeOK'
  <2>1. PICK c \in Calls[t] :
          /\ call' = [call EXCEPT ![t] = c]
          /\ carried' = [carried EXCEPT ![t] = CarriedRisk(c.session)]
          /\ trace' = [trace EXCEPT ![t] = FirstDecision(c, CarriedRisk(c.session))]
          /\ earlier' = [earlier EXCEPT ![t] = {u \in Turn : pc[u] = "returned"}]
          /\ Goto(t, IF FirstDecision(c, CarriedRisk(c.session)).tier = 2
                     THEN "escalated" ELSE "decided")
    BY <1>1 DEF Begin
  <2>2. UNCHANGED <<loaded, risk, ledger>>
    BY <1>1 DEF Begin
  <2>3. c.session \in Session \cup {NoSession} /\ IsCall(c)
    BY AssessmentAssumption DEF IsCall
  <2>4. CarriedRisk(c.session) \in R
    BY <1>0, <2>3 DEF CarriedRisk, TypeOK
  <2>5. FirstDecision(c, CarriedRisk(c.session)).harm \in Vector
    BY <2>3, CascadeHarmIsVector, AllocateHarm DEF FirstDecision
  <2>6. \A u \in Turn : pc'[u] # "idle" => trace'[u].harm \in Vector
    BY <2>1, <2>5 DEF TypeOK, Goto, Called, Shape
  <2>7. pc' \in [Turn -> {"idle", "escalated", "decided", "observing", "observed",
                          "returned", "raised"}]
    BY <2>1 DEF TypeOK, Goto
  <2>8. DOMAIN call' = Turn /\ \A u \in Turn : call'[u] \in Calls[u] \cup {NoCall}
    BY <2>1 DEF TypeOK
  <2>9. carried' \in [Turn -> R] /\ earlier' \in [Turn -> SUBSET Turn]
    BY <2>1, <2>4 DEF TypeOK
  <2> HIDE DEF R
  <2> QED BY <2>2, <2>6, <2>7, <2>8, <2>9 DEF TypeOK, R
<1>2. ASSUME NEW t \in Turn, Escalate(t) PROVE TypeOK'
  <2>1. PICK judge \in JudgeReports :
          /\ pc[t] = "escalated"
          /\ trace' = [trace EXCEPT ![t] = ReviewedPaid(trace[t],
               Allocate(Calibrate(Combine(Append(call[t].signals, judge.scores), call[t].regime)),
                        call[t].regime, call[t].effect, EffectivePrice(call[t], trace[t].harm),
                        Bar(carried[t])), judge.ran)]
    BY <1>2 DEF Escalate
  <2>2. Goto(t, "decided") /\ UNCHANGED <<call, carried, loaded, risk, ledger, earlier>>
    BY <1>2 DEF Escalate
  <2>3. IsCall(call[t])
    BY <2>1, AssessmentAssumption DEF Called
  <2>4. judge.scores \in Vector
    <3>1. ASSUME NEW x \in Score PROVE [a \in Axis |-> x] \in Vector
      BY DEF Vector
    <3>2. UnavailableScore \in Score /\ Judgement \subseteq Vector
      BY AssessmentAssumption
    <3>3. 0 \in Score
      BY DEF Score
    <3>4. CASE judge \in {Report(TRUE, v) : v \in Judgement}
      BY <3>2, <3>4 DEF Report
    <3>5. CASE judge \in {Report(FALSE, [a \in Axis |-> UnavailableScore]),
                          Report(FALSE, [a \in Axis |-> 0])}
      <4>1. judge.scores = [a \in Axis |-> UnavailableScore]
            \/ judge.scores = [a \in Axis |-> 0]
        BY <3>5 DEF Report
      <4> QED BY <3>1, <3>2, <3>3, <4>1
    <3> QED BY <2>1, <3>4, <3>5 DEF JudgeReports
  <2> DEFINE s == call[t].signals
             g == Append(s, judge.scores)
             h == Calibrate(Combine(g, call[t].regime))
  <2>5. g \in [1..3 -> Vector]
    <3>1. s \in [1..2 -> Vector]
      BY <2>3 DEF IsCall
    <3> DEFINE x == judge.scores
    <3> HIDE DEF s, x
    <3>2. s \in Seq(Vector) /\ Len(s) = 2
      BY <3>1, OneTwo
    <3>3. x \in Vector
      BY <2>4 DEF x
    <3>4. Append(s, x) \in [1..3 -> Vector]
      BY <3>2, <3>3, OneMore
    <3> QED BY <3>4 DEF x
  <2> HIDE DEF g
  <2>6. Combine(g, call[t].regime) \in Vector
    <3>1. 3 \in Nat \ {0}
      OBVIOUS
    <3> QED BY <2>5, <3>1, CombineIsVector
  <2>7. h \in Vector
    BY <2>6, AssessmentAssumption DEF Calibrate, Vector
  <2>8. trace'[t].harm \in Vector /\ \A u \in Turn : u # t => trace'[u] = trace[u]
    <3> DEFINE second == Allocate(h, call[t].regime, call[t].effect,
                           EffectivePrice(call[t], trace[t].harm), Bar(carried[t]))
    <3>1. second.harm = h
      BY AllocateHarm
    <3>2. trace' = [trace EXCEPT ![t] = ReviewedPaid(trace[t], second, judge.ran)]
      BY <2>1 DEF g
    <3> HIDE DEF second, h
    <3> QED BY <2>7, <3>1, <3>2 DEF ReviewedPaid, Called, Shape
  <2> HIDE DEF h
  <2>9. \A u \in Turn : pc'[u] # "idle" => trace'[u].harm \in Vector
    BY <2>1, <2>2, <2>8 DEF TypeOK, Goto
  <2>10. pc' \in [Turn -> {"idle", "escalated", "decided", "observing", "observed",
                          "returned", "raised"}]
    BY <2>2 DEF TypeOK, Goto
  <2> QED BY <2>2, <2>9, <2>10 DEF TypeOK
<1>3. ASSUME NEW t \in Turn, ObserveReads(t) PROVE TypeOK'
  <2>1. call[t] \in Calls[t]
    BY <1>3 DEF Called, ObserveReads
  <2>2. call[t].session \in Session \cup {NoSession}
    BY <2>1, AssessmentAssumption DEF IsCall
  <2>3. loaded' \in [Turn -> R]
    BY <1>3, <2>2, SMTT(30), ZenonT(30) DEF ObserveReads, TypeOK
  <2>4. /\ pc' \in [Turn -> {"idle", "escalated", "decided", "observing", "observed",
                             "returned", "raised"}]
        /\ \A u \in Turn : pc'[u] # "idle" => pc[u] # "idle"
        /\ UNCHANGED <<call, carried, trace, risk, ledger, earlier>>
    BY <1>3 DEF ObserveReads, Goto, TypeOK
  <2> HIDE DEF R
  <2> QED BY <2>3, <2>4 DEF TypeOK, R
<1>4. ASSUME NEW t \in Turn, ObserveWrites(t) PROVE TypeOK'
  <2>1. Fold(loaded[t], trace[t].harm) \in R
    BY <1>4, FoldFacts DEF ObserveWrites, TypeOK
  <2>2. risk' \in [Session -> R]
    BY <1>4, <2>1 DEF ObserveWrites, TypeOK
  <2>3. /\ pc' \in [Turn -> {"idle", "escalated", "decided", "observing", "observed",
                             "returned", "raised"}]
        /\ \A u \in Turn : pc'[u] # "idle" => pc[u] # "idle"
        /\ UNCHANGED <<call, carried, trace, loaded, ledger, earlier>>
    BY <1>4 DEF ObserveWrites, Goto, TypeOK
  <2> HIDE DEF R
  <2> QED BY <2>2, <2>3 DEF TypeOK, R
<1>5. ASSUME NEW t \in Turn, DetectorRaises(t) \/ Record(t) \/ RecordRaises(t) PROVE TypeOK'
  <2>1. /\ pc' \in [Turn -> {"idle", "escalated", "decided", "observing", "observed",
                             "returned", "raised"}]
        /\ \A u \in Turn : pc'[u] # "idle" => pc[u] # "idle"
        /\ UNCHANGED <<call, carried, trace, loaded, risk, earlier>>
    BY <1>5 DEF DetectorRaises, Record, RecordRaises, Goto, TypeOK
  <2>2. ledger' = ledger \/ ledger' = Append(ledger, t)
    BY <1>5 DEF DetectorRaises, Record, RecordRaises
  <2>3. ledger' \in Seq(Turn)
    <3>1. ledger \in Seq(Turn)
      BY DEF TypeOK
    <3>2. Append(ledger, t) \in Seq(Turn)
      BY <3>1, AppendProperties, Zenon
    <3> QED BY <2>2, <3>1, <3>2
  <2> HIDE DEF R
  <2> QED BY <2>1, <2>3 DEF TypeOK, R
<1>6. CASE UNCHANGED vars
  BY <1>6 DEF vars, TypeOK
<1> QED BY <1>1, <1>2, <1>3, <1>4, <1>5, <1>6 DEF Next

-----------------------------------------------------------------------------
(* The share of a turn that has been folded in.  Each turn of the session   *)
(* that folds after it decays it once, and turns that do not overlap fold   *)
(* one after the other.                                                     *)

Done(t) == pc[t] \in {"observed", "returned", "raised"}

\* The turns that ended after u's share was folded in, or as good as.
Folded(u) ==
  {v \in Turn \ {u} : call[v].session = call[u].session /\ v \notin earlier[u] /\ Done(v)}

Begun == {t \in Turn : pc[t] # "idle"}

\* The turns of one session are in flight one at a time.
Serial ==
  \A t, u \in Turn :
    InFlight(t) /\ InFlight(u) /\ t # u =>
      call[t].session # call[u].session \/ call[t].session = NoSession

Charges(u) ==
  pc[u] \in {"observed", "returned"} /\ call[u].session # NoSession =>
    risk[call[u].session] >= Remains(Share(trace[u].harm), Cardinality(Folded(u)))

Counts(t) ==
  \A u \in earlier[t] :
    call[t].session # NoSession /\ call[u].session = call[t].session =>
      carried[t] >= Remains(Share(trace[u].harm), Cardinality(Since(u, t)))

Fetched(t) ==
  /\ pc[t] = "idle" => call[t] = NoCall /\ earlier[t] = {}
  /\ pc[t] # "idle" => call[t].session \in Session \cup {NoSession}
  /\ earlier[t] \subseteq {u \in Turn : pc[u] = "returned"}
  /\ pc[t] = "observing" =>
       call[t].session # NoSession /\ loaded[t] = risk[call[t].session]

RiskInv ==
  /\ IsFiniteSet(Begun)
  /\ Serial
  /\ \A t \in Turn : Fetched(t) /\ Charges(t) /\ Counts(t)

\* The turns counted are begun, so there are finitely many.
LEMMA CountedAreBegun ==
  ASSUME RiskInv, NEW u \in Turn
  PROVE  IsFiniteSet(Folded(u)) /\ Cardinality(Folded(u)) \in Nat
<1>1. Folded(u) \subseteq Begun
  BY DEF Folded, Begun, Done
<1>2. IsFiniteSet(Folded(u))
  BY <1>1, FS_Subset DEF RiskInv
<1> QED BY <1>2, FS_CardinalityType

\* More turns, less that remains.
LEMMA MoreTurnsLessRemains ==
  ASSUME NEW x \in Nat, NEW S, IsFiniteSet(S), NEW T \in SUBSET S
  PROVE  /\ Remains(x, Cardinality(S)) <= Remains(x, Cardinality(T))
         /\ Remains(x, Cardinality(S)) \in Nat /\ Remains(x, Cardinality(T)) \in Nat
<1>1. Cardinality(S) \in Nat /\ Cardinality(T) \in Nat /\ Cardinality(T) <= Cardinality(S)
  BY FS_CardinalityType, FS_Subset
<1> QED BY <1>1, RemainsShrinks

\* A step of one turn that neither begins nor folds.
LEMMA ChargesKept ==
  ASSUME TypeOK, TypeOK', RiskInv, IsFiniteSet(Begun'), NEW u \in Turn,
         call'[u] = call[u], earlier'[u] = earlier[u], trace'[u] = trace[u],
         pc'[u] \in {"observed", "returned"} => pc[u] \in {"observed", "returned"},
         call[u].session # NoSession => risk'[call[u].session] = risk[call[u].session],
         \A v \in Folded(u) : v \in Folded(u)'
  PROVE  Charges(u)'
<1> SUFFICES ASSUME pc'[u] \in {"observed", "returned"}, call[u].session # NoSession
             PROVE  risk'[call[u].session]
                      >= Remains(Share(trace[u].harm), Cardinality(Folded(u)'))
  BY DEF Charges
<1> DEFINE x == Share(trace[u].harm)
<1>1. x \in Nat
  <2>1. x \in 0..(100 * RiskUnit)
    BY ShareIsNat DEF TypeOK
  <2> QED BY <2>1, AssessmentAssumption
<1>2. IsFiniteSet(Folded(u)')
  <2>1. Folded(u)' \subseteq Begun'
    BY DEF Folded, Begun, Done
  <2> QED BY <2>1, FS_Subset
<1>3. risk[call[u].session] >= Remains(x, Cardinality(Folded(u)))
  BY DEF RiskInv, Charges
<1>4. call[u].session \in Session
  BY DEF RiskInv, Fetched
<1>5. risk[call[u].session] \in Nat
  BY <1>4, AssessmentAssumption DEF TypeOK
<1> HIDE DEF x
<1>6. /\ Remains(x, Cardinality(Folded(u)')) <= Remains(x, Cardinality(Folded(u)))
      /\ Remains(x, Cardinality(Folded(u)')) \in Nat /\ Remains(x, Cardinality(Folded(u))) \in Nat
  BY <1>1, <1>2, MoreTurnsLessRemains
<1>7. risk[call[u].session] >= Remains(x, Cardinality(Folded(u)'))
  BY <1>3, <1>5, <1>6
<1> QED BY <1>7 DEF x

\* What a turn found when it began stays; only the turns since can grow.
LEMMA CountsKept ==
  ASSUME TypeOK, RiskInv, IsFiniteSet(Begun'), NEW t \in Turn,
         call'[t] = call[t], earlier'[t] = earlier[t], carried'[t] = carried[t],
         \A u \in Turn : pc[u] = "returned" => trace'[u] = trace[u] /\ call'[u] = call[u]
                                               /\ earlier'[u] = earlier[u],
         \A v \in Turn : pc[v] # "idle" => call'[v] = call[v],
         \A v \in Turn : call'[v] # NoCall => v \in Begun'
  PROVE  Counts(t)'
<1> SUFFICES ASSUME NEW u \in earlier[t], call[t].session # NoSession,
                    call'[u].session = call[t].session
             PROVE  carried[t] >= Remains(Share(trace'[u].harm), Cardinality(Since(u, t)'))
  BY DEF Counts
<1>1. pc[u] = "returned" /\ u \in Turn
  BY DEF RiskInv, Fetched
<1>2. trace'[u] = trace[u] /\ call'[u] = call[u] /\ earlier'[u] = earlier[u]
  BY <1>1
<1> DEFINE x == Share(trace[u].harm)
<1>3. x \in Nat
  <2>1. x \in 0..(100 * RiskUnit)
    BY <1>1, ShareIsNat DEF TypeOK
  <2> QED BY <2>1, AssessmentAssumption
<1>4. Since(u, t) \subseteq Since(u, t)'
  <2> SUFFICES ASSUME NEW v \in Since(u, t) PROVE v \in Since(u, t)'
    OBVIOUS
  <2>1. v \in Turn \ {u, t} /\ call[v].session = call[t].session /\ v \notin earlier[u]
    BY DEF Since
  <2>2. pc[v] # "idle"
    BY <2>1 DEF RiskInv, Fetched, NoCall
  <2> QED BY <1>2, <2>1, <2>2 DEF Since
<1>5. IsFiniteSet(Since(u, t)')
  <2>1. Since(u, t)' \subseteq Begun'
    BY DEF Since, NoCall
  <2> QED BY <2>1, FS_Subset
<1>6. carried[t] >= Remains(x, Cardinality(Since(u, t)))
  BY <1>2 DEF RiskInv, Counts
<1> HIDE DEF x
<1>7. /\ Remains(x, Cardinality(Since(u, t)')) <= Remains(x, Cardinality(Since(u, t)))
      /\ Remains(x, Cardinality(Since(u, t)')) \in Nat /\ Remains(x, Cardinality(Since(u, t))) \in Nat
  BY <1>3, <1>4, <1>5, MoreTurnsLessRemains
<1>8. carried[t] \in Nat
  BY AssessmentAssumption DEF TypeOK
<1>9. carried[t] >= Remains(x, Cardinality(Since(u, t)'))
  BY <1>6, <1>7, <1>8
<1> QED BY <1>2, <1>9 DEF x

\* A step that moves a turn on and folds nothing.
LEMMA QuietRisk ==
  ASSUME TypeOK, TypeOK', RiskInv, NEW t \in Turn, NEW p, InFlight(t), Goto(t, p),
         p # "idle", UNCHANGED <<call, carried, risk, earlier>>,
         \A u \in Turn : u # t => trace'[u] = trace[u] /\ loaded'[u] = loaded[u],
         Done(t) => p \in {"observed", "returned", "raised"} /\ trace'[t] = trace[t],
         p \in {"observed", "returned"} => pc[t] = "observed" \/ call[t].session = NoSession,
         p = "observing" =>
           call[t].session # NoSession /\ loaded'[t] = risk[call[t].session]
  PROVE  RiskInv'
<1>1. pc'[t] = p /\ \A u \in Turn : u # t => pc'[u] = pc[u]
  BY DEF Goto, TypeOK
<1>2. pc[t] # "idle" /\ pc[t] # "returned"
  BY DEF InFlight
<1>3. Begun' = Begun
  BY <1>1, <1>2 DEF Begun
<1>4. IsFiniteSet(Begun')
  BY <1>3 DEF RiskInv
<1>5. \A u \in Turn : InFlight(u)' => InFlight(u)
  BY <1>1 DEF InFlight
<1>6. Serial'
  BY <1>5 DEF RiskInv, Serial
<1>7. ASSUME NEW u \in Turn PROVE Fetched(u)'
  <2>1. Fetched(u)
    BY DEF RiskInv
  <2> QED BY <1>1, <1>2, <2>1 DEF Fetched
<1>8. \A v \in Turn : Done(v) => Done(v)'
  BY <1>1 DEF Done
<1>9. \A u \in Turn : \A v \in Folded(u) : v \in Folded(u)'
  BY <1>8 DEF Folded
<1>10. ASSUME NEW u \in Turn PROVE Charges(u)'
  <2>1. CASE u # t \/ pc[t] = "observed"
    <3>1. trace'[u] = trace[u]
          /\ (pc'[u] \in {"observed", "returned"} => pc[u] \in {"observed", "returned"})
      BY <1>1, <2>1 DEF Done, Charges
    <3> QED BY <1>4, <1>9, <3>1, ChargesKept
  <2>2. CASE u = t /\ pc[t] # "observed"
    BY <1>1, <2>2 DEF Charges
  <2> QED BY <2>1, <2>2
<1>11. ASSUME NEW u \in Turn PROVE Counts(u)'
  <2>1. \A v \in Turn : pc[v] = "returned" => trace'[v] = trace[v]
    BY <1>2
  <2>2. \A v \in Turn : call'[v] # NoCall => v \in Begun'
    BY <1>3 DEF RiskInv, Fetched, Begun
  <2> QED BY <1>4, <2>1, <2>2, CountsKept
<1> QED BY <1>4, <1>6, <1>7, <1>10, <1>11 DEF RiskInv

LEMMA FoldRisk ==
  ASSUME TypeOK, TypeOK', RiskInv, NEW t \in Turn, ObserveWrites(t)
  PROVE  RiskInv'
<1> DEFINE s == call[t].session
<1>1. /\ pc[t] = "observing" /\ s \in Session /\ s # NoSession
      /\ risk' = [risk EXCEPT ![s] = Fold(risk[s], trace[t].harm)]
      /\ UNCHANGED <<call, carried, trace, loaded, earlier>>
  <2>1. Fetched(t) /\ pc[t] = "observing"
    BY DEF ObserveWrites, RiskInv
  <2>2. s \in Session /\ s # NoSession /\ loaded[t] = risk[s]
    BY <2>1 DEF Fetched
  <2>3. /\ risk' = [risk EXCEPT ![s] = Fold(loaded[t], trace[t].harm)]
        /\ UNCHANGED <<call, carried, trace, loaded, earlier>>
    BY DEF ObserveWrites
  <2> QED BY <2>1, <2>2, <2>3
<1>2. pc'[t] = "observed" /\ \A u \in Turn : u # t => pc'[u] = pc[u]
  BY DEF Goto, TypeOK, ObserveWrites
<1> HIDE DEF s
<1>3. /\ risk'[s] = Fold(risk[s], trace[t].harm)
      /\ \A z \in Session : z # s => risk'[z] = risk[z]
  BY <1>1 DEF TypeOK
<1>4. Begun' = Begun /\ IsFiniteSet(Begun')
  <2>1. Begun' = Begun
    BY <1>1, <1>2 DEF Begun
  <2> QED BY <2>1 DEF RiskInv
<1>5. Serial'
  <2>1. \A u \in Turn : InFlight(u)' => InFlight(u)
    BY <1>1, <1>2 DEF InFlight
  <2> QED BY <1>1, <2>1 DEF RiskInv, Serial
\* Nobody else of the session is in flight.
<1>6. ASSUME NEW u \in Turn, u # t, call[u].session = s PROVE ~InFlight(u)
  BY <1>1, <1>6 DEF RiskInv, Serial, InFlight, s
<1>7. ASSUME NEW u \in Turn PROVE Fetched(u)'
  <2>1. Fetched(u)
    BY DEF RiskInv
  <2>2. CASE u = t
    BY <1>1, <1>2, <2>1, <2>2 DEF Fetched
  <2>3. CASE u # t
    <3>1. pc[u] = "observing" => risk'[call[u].session] = risk[call[u].session]
      <4>1. ASSUME pc[u] = "observing" PROVE call[u].session # s /\ call[u].session \in Session
        BY <1>6, <2>1, <2>3, <4>1 DEF InFlight, Fetched
      <4> QED BY <1>3, <4>1
    <3> QED BY <1>1, <1>2, <2>1, <2>3, <3>1 DEF Fetched
  <2> QED BY <2>2, <2>3
<1>8. \A u \in Turn : \A v \in Folded(u) : v \in Folded(u)'
  BY <1>1, <1>2 DEF Folded, Done
<1>9. trace[t].harm \in Vector /\ risk[s] \in 0..(100 * RiskUnit)
  BY <1>1 DEF TypeOK
<1>10. Charges(t)'
  <2> DEFINE x == Share(trace[t].harm)
             n == Cardinality(Folded(t)')
  <2>1. x \in Nat /\ risk'[s] >= x
    <3>1. x \in 0..(100 * RiskUnit)
      BY <1>9, ShareIsNat
    <3>2. Fold(risk[s], trace[t].harm) >= x
      BY <1>9, FoldFacts
    <3> QED BY <1>3, <3>1, <3>2, AssessmentAssumption
  <2>2. n \in Nat
    <3>1. Folded(t)' \subseteq Begun'
      BY DEF Folded, Begun, Done
    <3> QED BY <1>4, <3>1, FS_Subset, FS_CardinalityType
  <2> HIDE DEF x, n
  <2>3. Remains(x, n) <= x /\ Remains(x, n) \in Nat
    <3>1. 0 \in Nat /\ 0 <= n
      BY <2>2
    <3> QED BY <2>1, <2>2, <3>1, RemainsShrinks, RemainsNext, SMTT(30), ZenonT(30)
  <2>4. risk'[s] \in Int
    BY <1>1, AssessmentAssumption DEF TypeOK
  <2>5. risk'[s] >= Remains(x, n)
    BY <2>1, <2>3, <2>4
  <2> QED BY <1>1, <2>5 DEF Charges, x, n, s
<1>11. ASSUME NEW u \in Turn, u # t PROVE Charges(u)'
  <2>1. CASE call[u].session # s \/ pc[u] \notin {"observed", "returned"}
    <3>1. CASE pc[u] \notin {"observed", "returned"}
      BY <1>2, <1>11, <3>1 DEF Charges
    <3>2. CASE call[u].session # s
      <4>1. call[u].session # NoSession => risk'[call[u].session] = risk[call[u].session]
        <5>1. call[u].session \in Session \cup {NoSession} \/ pc[u] = "idle"
          BY DEF RiskInv, Fetched
        <5>2. pc[u] = "idle" => call[u].session = NoSession
          BY DEF RiskInv, Fetched, NoCall
        <5> QED BY <1>3, <3>2, <5>1, <5>2
      <4> QED BY <1>1, <1>2, <1>4, <1>8, <1>11, <4>1, ChargesKept
    <3> QED BY <2>1, <3>1, <3>2
  <2>2. CASE call[u].session = s /\ pc[u] \in {"observed", "returned"}
    <3>1. pc[u] = "returned"
      BY <1>6, <1>11, <2>2 DEF InFlight
    <3>2. t \notin earlier[u] /\ t \notin Folded(u)
      <4>1. earlier[u] \subseteq {v \in Turn : pc[v] = "returned"}
        BY DEF RiskInv, Fetched
      <4> QED BY <1>1, <4>1 DEF Folded, Done
    <3>3. Folded(u)' = Folded(u) \cup {t}
      BY <1>1, <1>2, <1>11, <2>2, <3>2 DEF Folded, Done, s
    <3> DEFINE x == Share(trace[u].harm)
               n == Cardinality(Folded(u))
    <3>4. IsFiniteSet(Folded(u)) /\ n \in Nat
      BY <1>1, <2>2, CountedAreBegun
    <3>5. Cardinality(Folded(u)') = n + 1
      BY <3>2, <3>3, <3>4, FS_AddElement
    <3>6. x \in Nat
      <4>1. trace[u].harm \in Vector
        BY <2>2 DEF TypeOK
      <4>2. x \in 0..(100 * RiskUnit)
        BY <4>1, ShareIsNat
      <4> QED BY <4>2, AssessmentAssumption
    <3>7. risk[s] >= Remains(x, n)
      BY <1>1, <2>2 DEF RiskInv, Charges
    <3> HIDE DEF x, n
    <3>8. Remains(x, n) \in Nat /\ Remains(x, n + 1) = Decay(Remains(x, n))
      BY <3>4, <3>6, RemainsShrinks, RemainsNext
    <3>9. risk[s] \in Nat
      BY <1>9, AssessmentAssumption
    <3>10. Decay(Remains(x, n)) <= Decay(risk[s]) /\ Decay(risk[s]) \in Nat
           /\ Decay(Remains(x, n)) \in Nat
      BY <3>7, <3>8, <3>9, DecayFacts
    <3>11. risk'[s] >= Decay(risk[s]) /\ risk'[s] \in Int
      <4>1. Fold(risk[s], trace[t].harm) >= Decay(risk[s])
        BY <1>9, FoldFacts
      <4>2. Fold(risk[s], trace[t].harm) \in 0..(100 * RiskUnit)
        BY <1>9, FoldFacts
      <4> QED BY <1>3, <4>1, <4>2, AssessmentAssumption
    <3>12. risk'[s] >= Remains(x, n + 1)
      BY <3>8, <3>10, <3>11
    <3> QED BY <1>1, <1>2, <1>11, <2>2, <3>5, <3>12 DEF Charges, x
  <2> QED BY <2>1, <2>2
<1>12. ASSUME NEW u \in Turn PROVE Counts(u)'
  <2>1. \A v \in Turn : call'[v] # NoCall => v \in Begun'
    BY <1>1, <1>4 DEF RiskInv, Fetched, Begun
  <2> QED BY <1>1, <1>4, <2>1, CountsKept
<1> QED BY <1>4, <1>5, <1>7, <1>10, <1>11, <1>12 DEF RiskInv

\* A turn that begins finds in its session all that was folded in before.
LEMMA BeginRisk ==
  ASSUME ~Overlapping, TypeOK, TypeOK', Called, RiskInv, NEW t \in Turn, Begin(t)
  PROVE  RiskInv'
<1>1. PICK c \in Calls[t] :
        /\ pc[t] = "idle"
        /\ c.session = NoSession
           \/ \A u \in Turn : InFlight(u) => call[u].session # c.session
        /\ call' = [call EXCEPT ![t] = c]
        /\ carried' = [carried EXCEPT ![t] = CarriedRisk(c.session)]
        /\ trace' = [trace EXCEPT ![t] = FirstDecision(c, CarriedRisk(c.session))]
        /\ earlier' = [earlier EXCEPT ![t] = {u \in Turn : pc[u] = "returned"}]
        /\ \E p \in {"escalated", "decided"} : pc' = [pc EXCEPT ![t] = p]
        /\ UNCHANGED <<loaded, risk, ledger>>
  BY DEF Begin, Goto
<1>2. c.session \in Session \cup {NoSession}
  BY AssessmentAssumption DEF IsCall
<1>3. /\ pc'[t] \in {"escalated", "decided"} /\ call'[t] = c
      /\ carried'[t] = CarriedRisk(c.session)
      /\ earlier'[t] = {u \in Turn : pc[u] = "returned"}
  BY <1>1 DEF TypeOK
<1>4. ASSUME NEW u \in Turn, u # t
      PROVE  /\ pc'[u] = pc[u] /\ call'[u] = call[u] /\ carried'[u] = carried[u]
             /\ trace'[u] = trace[u] /\ earlier'[u] = earlier[u]
  BY <1>1, <1>4 DEF TypeOK, Called, Shape
<1>5. Begun' = Begun \cup {t} /\ t \notin Begun
  BY <1>1, <1>3, <1>4 DEF Begun
<1>6. IsFiniteSet(Begun')
  BY <1>5, FS_AddElement DEF RiskInv
<1>7. Serial'
  <2> SUFFICES ASSUME NEW u \in Turn, NEW v \in Turn, InFlight(u)', InFlight(v)', u # v
               PROVE  call'[u].session # call'[v].session \/ call'[u].session = NoSession
    BY DEF Serial
  <2>1. CASE u # t /\ v # t
    BY <1>4, <2>1 DEF RiskInv, Serial, InFlight
  <2>2. CASE u = t
    BY <1>1, <1>3, <1>4, <2>2 DEF InFlight
  <2>3. CASE v = t
    BY <1>1, <1>3, <1>4, <2>3 DEF InFlight
  <2> QED BY <2>1, <2>2, <2>3
<1>8. ASSUME NEW u \in Turn PROVE Fetched(u)'
  <2>1. \A v \in Turn : pc[v] = "returned" => pc'[v] = "returned"
    BY <1>1, <1>4
  <2>2. CASE u = t
    BY <1>2, <1>3, <2>1, <2>2 DEF Fetched
  <2>3. CASE u # t
    BY <1>1, <1>4, <2>1, <2>3 DEF Fetched, RiskInv
  <2> QED BY <2>2, <2>3
<1>9. ASSUME NEW u \in Turn PROVE Charges(u)'
  <2>1. CASE u = t
    BY <1>3, <2>1 DEF Charges
  <2>2. CASE u # t
    <3>1. \A v \in Folded(u) : v \in Folded(u)'
      BY <1>1, <1>4, <2>2 DEF Folded, Done
    <3> QED BY <1>1, <1>4, <1>6, <2>2, <3>1, ChargesKept
  <2> QED BY <2>1, <2>2
<1>10. ASSUME NEW u \in Turn, u # t PROVE Counts(u)'
  <2>1. \A v \in Turn : pc[v] # "idle" =>
          trace'[v] = trace[v] /\ call'[v] = call[v] /\ earlier'[v] = earlier[v]
    BY <1>1, <1>4
  <2>2. \A v \in Turn : call'[v] # NoCall => v \in Begun'
    BY <1>4, <1>5 DEF RiskInv, Fetched, Begun
  <2> QED BY <1>4, <1>6, <1>10, <2>1, <2>2, CountsKept
<1>11. Counts(t)'
  <2> SUFFICES ASSUME NEW u \in earlier'[t], c.session # NoSession,
                      call'[u].session = c.session
               PROVE  carried'[t] >= Remains(Share(trace'[u].harm), Cardinality(Since(u, t)'))
    BY <1>3 DEF Counts
  <2>1. u \in Turn /\ u # t /\ pc[u] = "returned"
    BY <1>1, <1>3
  <2>2. call'[u] = call[u] /\ trace'[u] = trace[u] /\ earlier'[u] = earlier[u]
    BY <1>4, <2>1
  <2> DEFINE x == Share(trace[u].harm)
  <2>3. x \in Nat
    <3>1. x \in 0..(100 * RiskUnit)
      BY <2>1, ShareIsNat DEF TypeOK
    <3> QED BY <3>1, AssessmentAssumption
  <2>4. Folded(u) \subseteq Since(u, t)'
    <3> SUFFICES ASSUME NEW v \in Folded(u) PROVE v \in Since(u, t)'
      OBVIOUS
    <3>1. v \in Turn \ {u} /\ call[v].session = call[u].session /\ v \notin earlier[u] /\ Done(v)
      BY DEF Folded
    <3>2. v # t
      BY <1>1, <3>1 DEF Done
    <3>3. call'[v].session = call'[t].session
      BY <1>3, <1>4, <2>2, <3>1, <3>2
    <3> QED BY <2>2, <3>1, <3>2, <3>3 DEF Since
  <2>5. IsFiniteSet(Since(u, t)')
    <3>1. Since(u, t)' \subseteq Begun'
      <4> SUFFICES ASSUME NEW v \in Since(u, t)' PROVE v \in Begun'
        OBVIOUS
      <4>1. v \in Turn /\ call'[v].session = c.session
        BY <1>3 DEF Since
      <4>2. Fetched(v)'
        BY <1>8, <4>1
      <4> QED BY <4>1, <4>2 DEF Fetched, Begun, NoCall
    <3> QED BY <1>6, <3>1, FS_Subset
  <2>6. call[u].session = c.session /\ c.session \in Session
    BY <1>2, <2>2
  <2>7. carried'[t] = risk[c.session] /\ carried'[t] \in Nat
    BY <1>3, <2>6, AssessmentAssumption DEF CarriedRisk, TypeOK
  <2>8. risk[c.session] >= Remains(x, Cardinality(Folded(u)))
    BY <2>1, <2>6 DEF RiskInv, Charges
  <2> HIDE DEF x
  <2>9. /\ Remains(x, Cardinality(Since(u, t)')) <= Remains(x, Cardinality(Folded(u)))
        /\ Remains(x, Cardinality(Since(u, t)')) \in Nat /\ Remains(x, Cardinality(Folded(u))) \in Nat
    BY <2>3, <2>4, <2>5, MoreTurnsLessRemains
  <2>10. carried'[t] >= Remains(x, Cardinality(Since(u, t)'))
    BY <2>7, <2>8, <2>9
  <2> QED BY <2>2, <2>10 DEF x
<1> QED BY <1>6, <1>7, <1>8, <1>9, <1>10, <1>11 DEF RiskInv

LEMMA InitRisk == Init => RiskInv
<1> SUFFICES ASSUME Init PROVE RiskInv
  OBVIOUS
<1>1. Begun = {}
  BY DEF Init, Begun
<1>2. IsFiniteSet(Begun)
  BY <1>1, FS_EmptySet
<1>3. \A t \in Turn : pc[t] = "idle" /\ call[t] = NoCall /\ earlier[t] = {}
  BY DEF Init
<1>4. Serial
  BY <1>3 DEF Serial, InFlight
<1>5. \A t \in Turn : Fetched(t)
  BY <1>3 DEF Fetched
<1>6. \A t \in Turn : Charges(t)
  BY <1>3 DEF Charges
<1>7. \A t \in Turn : Counts(t)
  BY <1>3 DEF Counts
<1> QED BY <1>2, <1>4, <1>5, <1>6, <1>7 DEF RiskInv

LEMMA RiskStep ==
  ASSUME ~Overlapping, TypeOK, TypeOK', Called, RiskInv, [Next]_vars
  PROVE  RiskInv'
<1>1. ASSUME NEW t \in Turn, Begin(t) PROVE RiskInv'
  BY <1>1, BeginRisk
<1>2. ASSUME NEW t \in Turn, Escalate(t) PROVE RiskInv'
  <2>1. /\ pc[t] = "escalated" /\ Goto(t, "decided")
        /\ UNCHANGED <<call, carried, risk, earlier, loaded>>
        /\ \A u \in Turn : u # t => trace'[u] = trace[u]
    BY <1>2 DEF Escalate, Called, Shape
  <2>2. InFlight(t) /\ ~Done(t)
    BY <2>1 DEF InFlight, Done
  <2> QED BY <2>1, <2>2, QuietRisk
<1>3. ASSUME NEW t \in Turn, DetectorRaises(t) PROVE RiskInv'
  <2>1. pc[t] = "escalated" /\ Goto(t, "raised")
        /\ UNCHANGED <<call, carried, trace, risk, earlier, loaded>>
    BY <1>3 DEF DetectorRaises
  <2>2. InFlight(t) /\ ~Done(t)
    BY <2>1 DEF InFlight, Done
  <2> QED BY <2>1, <2>2, QuietRisk
<1>4. ASSUME NEW t \in Turn, ObserveReads(t) PROVE RiskInv'
  <2>1. pc[t] = "decided" /\ UNCHANGED <<call, carried, trace, risk, earlier>>
    BY <1>4 DEF ObserveReads
  <2>2. InFlight(t) /\ ~Done(t)
    BY <2>1 DEF InFlight, Done
  <2>3. CASE call[t].session = NoSession
    <3>1. Goto(t, "observed") /\ UNCHANGED loaded
      BY <1>4, <2>3 DEF ObserveReads
    <3> QED BY <2>1, <2>2, <2>3, <3>1, QuietRisk
  <2>4. CASE call[t].session # NoSession
    <3>1. Goto(t, "observing") /\ loaded' = [loaded EXCEPT ![t] = risk[call[t].session]]
      BY <1>4, <2>4 DEF ObserveReads
    <3>2. loaded'[t] = risk[call[t].session] /\ \A u \in Turn : u # t => loaded'[u] = loaded[u]
      BY <3>1 DEF TypeOK
    <3> QED BY <2>1, <2>2, <2>4, <3>1, <3>2, QuietRisk
  <2> QED BY <2>3, <2>4
<1>5. ASSUME NEW t \in Turn, ObserveWrites(t) PROVE RiskInv'
  BY <1>5, FoldRisk
<1>6. ASSUME NEW t \in Turn, Record(t) PROVE RiskInv'
  <2>1. pc[t] = "observed" /\ Goto(t, "returned")
        /\ UNCHANGED <<call, carried, trace, risk, earlier, loaded>>
    BY <1>6 DEF Record
  <2>2. InFlight(t)
    BY <2>1 DEF InFlight
  <2> QED BY <2>1, <2>2, QuietRisk
<1>7. ASSUME NEW t \in Turn, RecordRaises(t) PROVE RiskInv'
  <2>1. pc[t] = "observed" /\ Goto(t, "raised")
        /\ UNCHANGED <<call, carried, trace, risk, earlier, loaded>>
    BY <1>7 DEF RecordRaises
  <2>2. InFlight(t)
    BY <2>1 DEF InFlight
  <2> QED BY <2>1, <2>2, QuietRisk
<1>8. CASE UNCHANGED vars
  <2>1. UNCHANGED <<pc, call, carried, trace, loaded, risk, earlier>>
    BY <1>8 DEF vars
  <2>2. Begun' = Begun /\ (Serial => Serial')
    BY <2>1 DEF Begun, Serial, InFlight
  <2>3. ASSUME NEW t \in Turn, Fetched(t), Charges(t), Counts(t)
        PROVE  Fetched(t)' /\ Charges(t)' /\ Counts(t)'
    <3>1. Fetched(t)'
      BY <2>1, <2>3 DEF Fetched
    <3>2. Folded(t)' = Folded(t) /\ \A u \in Turn : Since(u, t)' = Since(u, t)
      BY <2>1 DEF Folded, Done, Since
    <3>3. Charges(t)'
      BY <2>1, <2>3, <3>2 DEF Charges
    <3>4. Counts(t)'
      BY <2>1, <2>3, <3>2 DEF Counts, Fetched
    <3> QED BY <3>1, <3>3, <3>4
  <2> QED BY <2>2, <2>3 DEF RiskInv
<1> QED BY <1>1, <1>2, <1>3, <1>4, <1>5, <1>6, <1>7, <1>8 DEF Next

\* Every variable of assess() and of the session store keeps its type, however
\* the turns overlap: a session risk stays a probability.
THEOREM AssessmentTypes == Spec => []TypeOK
<1>1. Init => TypeOK
  BY InitTypes
<1>2. TypeOK /\ Called /\ [Next]_vars => TypeOK'
  BY TypesStep
<1> QED BY <1>1, <1>2, AlwaysCalled, PTL DEF Spec

\* feedback/session.py: a questionable turn raises the bar for the turns that
\* follow it.  While the turns of a session are assessed one at a time, none of
\* them is ever lost from what the next one carries.
THEOREM EarlierTurnsAlwaysCount ==
  ASSUME ~Overlapping
  PROVE  Spec => []EarlierTurnsCount
<1>1. Init => RiskInv
  BY InitRisk
<1>2. TypeOK /\ TypeOK' /\ Called /\ RiskInv /\ [Next]_vars => RiskInv'
  BY RiskStep
<1>3. RiskInv => EarlierTurnsCount
  BY DEF RiskInv, Counts, EarlierTurnsCount
<1> QED BY <1>1, <1>2, <1>3, AssessmentTypes, AlwaysCalled, PTL DEF Spec
=============================================================================
