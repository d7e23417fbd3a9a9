----------------------------- MODULE Assessment -----------------------------
(***************************************************************************)
(* AssessmentEngine.assess() (controlplane/service.py) run by several      *)
(* worker threads, and the session risk they share (feedback/session.py,   *)
(* feedback/conversation.py).  A turn is one call of assess().             *)
(*                                                                         *)
(* The GIL may switch threads where ConversationRiskAccumulator.observe    *)
(* calls min(), between the read of self.risk and its assignment.          *)
(***************************************************************************)
EXTENDS Allocation, Sequences

CONSTANTS
  Turn,
  Session, NoSession,
  Calls,            \* per turn, the arguments assess() may get, with what
                    \* tiers 0 and 1 then report: see IsCall
  Judgement,        \* what the tier 2 judge may report: vectors
  JudgeFails,       \* may a call of the judge fail? (tier2.provider: ollama)
  UnavailableScore, \* what one that cannot be reached scores
  Calibration,      \* [Score -> Score]: the route's fitted isotonic map
  Threshold,        \* the route's fitted conformal threshold
  RiskUnit,         \* session risk is in 1/RiskUnit of a hundredth
  Overlapping       \* may two turns of one session be assessed at a time?

IsCall(c) ==
  /\ c.session \in Session \cup {NoSession}
  /\ c.signals \in [1..2 -> Vector]
  /\ c.regime \in Regime
  /\ c.effect \in Effect \cup {NoEffect}
  /\ c.degraded \in BOOLEAN      \* mandatory_only, the lease's lane
  /\ c.price \in Nat             \* shadow_price

ASSUME AssessmentAssumption ==
  /\ NoSession \notin Session
  /\ \A t \in Turn : \A c \in Calls[t] : IsCall(c)
  /\ Judgement \subseteq Vector
  /\ JudgeFails \in BOOLEAN /\ UnavailableScore \in Score
  /\ Calibration \in [Score -> Score]
  /\ \A x, y \in Score : x <= y => Calibration[x] <= Calibration[y]
  /\ Threshold \in Score
  /\ RiskUnit \in Nat \ {0}
  /\ Overlapping \in BOOLEAN

VARIABLES
  pc,           \* per turn: how far assess() is
  call,         \* per turn: its arguments and what tiers 0 and 1 report
  carried,      \* per turn: session_risk as it read it
  trace,        \* per turn: the DecisionTrace so far
  loaded,       \* per turn: the risk its observe() has read
  risk,         \* per session: ConversationRiskAccumulator.risk, 0 if none
  ledger,       \* the turns whose trace ledger.append took, in order
  earlier       \* history: the turns that had returned when a turn began

vars == <<pc, call, carried, trace, loaded, risk, ledger, earlier>>

NoCall == [session |-> NoSession]
NoTrace == [tier |-> NoTier]

Init ==
  /\ pc = [t \in Turn |-> "idle"]
  /\ call = [t \in Turn |-> NoCall]
  /\ carried = [t \in Turn |-> 0]
  /\ trace = [t \in Turn |-> NoTrace]
  /\ loaded = [t \in Turn |-> 0]
  /\ risk = [s \in Session |-> 0]
  /\ ledger = <<>>
  /\ earlier = [t \in Turn |-> {}]

Goto(t, p) == pc' = [pc EXCEPT ![t] = p]

InFlight(t) == pc[t] \notin {"idle", "returned", "raised"}

\* SessionRiskStore.risk
CarriedRisk(s) == IF s = NoSession THEN 0 ELSE risk[s]

\* tightened_threshold; a session risk is a probability, the threshold too.
Tightened(r) == Max({0, Threshold * RiskUnit - r})

\* _calibrate
Calibrate(h) == [a \in Axis |-> Calibration[h[a]]]

\* The shadow price in force, and the threshold in whole hundredths: a score
\* reaches the tightened threshold exactly when it reaches its ceiling.
EffectivePrice(c, h) ==
  IF c.degraded THEN MandatoryOnlyPrice(h, c.effect, c.price) ELSE c.price

Bar(r) == (Tightened(r) + RiskUnit - 1) \div RiskUnit

\* The calibrated vector of tiers 0 and 1, and the decision taken on it.
CascadeHarm(c) == Calibrate(Combine(c.signals, c.regime))

FirstDecision(c, r) ==
  Allocate(CascadeHarm(c), c.regime, c.effect, EffectivePrice(c, CascadeHarm(c)), Bar(r))

Report(ran, scores) == [ran |-> ran, scores |-> scores]

\* GuardedJudge.run around OllamaJudge: what was scored, or the unavailable
\* score on every axis when the call raised, or zeros when the reply was cut
\* short or is not what was asked for (_parse).
JudgeReports ==
  {Report(TRUE, v) : v \in Judgement} \cup
  IF JudgeFails
  THEN {Report(FALSE, [a \in Axis |-> UnavailableScore]), Report(FALSE, [a \in Axis |-> 0])}
  ELSE {}

-----------------------------------------------------------------------------
\* assess() up to the first decision: it reads the session's risk, then tiers
\* 0 and 1 report and the allocator decides.
Begin(t) ==
  \E c \in Calls[t] :
    LET r == CarriedRisk(c.session)
        first == FirstDecision(c, r)
    IN
    /\ pc[t] = "idle"
    /\ \/ Overlapping \/ c.session = NoSession
       \/ \A u \in Turn : InFlight(u) => call[u].session # c.session
    /\ call' = [call EXCEPT ![t] = c]
    /\ carried' = [carried EXCEPT ![t] = r]
    /\ trace' = [trace EXCEPT ![t] = first]
    /\ earlier' = [earlier EXCEPT ![t] = {u \in Turn : pc[u] = "returned"}]
    /\ Goto(t, IF first.tier = 2 THEN "escalated" ELSE "decided")
    /\ UNCHANGED <<loaded, risk, ledger>>

\* Faulty variant: the second pass replaces the trace whole.
Reviewed(first, second, ran) == second

\* trace = reviewed.model_copy(update=...): the check has run and is paid for.
ReviewedPaid(first, second, ran) ==
  [harm |-> second.harm, verdict |-> second.verdict, reason |-> second.reason,
   tier |-> 2, spend |-> first.spend, forced |-> first.forced, judged |-> ran]

\* Tier 2 reports and the allocator decides again, at the first pass's price
\* and threshold.  judged is history: did the judge deliver a verdict?
Escalate(t) ==
  \E judge \in JudgeReports :
    LET c == call[t]
        first == trace[t]
        h == Calibrate(Combine(Append(c.signals, judge.scores), c.regime))
        second == Allocate(h, c.regime, c.effect, EffectivePrice(c, first.harm),
                           Bar(carried[t]))
    IN
    /\ pc[t] = "escalated"
    /\ trace' = [trace EXCEPT ![t] = ReviewedPaid(first, second, judge.ran)]
    /\ Goto(t, "decided")
    /\ UNCHANGED <<call, carried, loaded, risk, ledger, earlier>>

\* A detector or the judge raises: assess() ends with nothing done.
DetectorRaises(t) ==
  /\ pc[t] = "escalated"
  /\ Goto(t, "raised")
  /\ UNCHANGED <<call, carried, trace, loaded, risk, ledger, earlier>>

\* self.sessions.observe: nothing to do without a session id.
ObserveReads(t) ==
  /\ pc[t] = "decided"
  /\ IF call[t].session = NoSession
     THEN Goto(t, "observed") /\ UNCHANGED loaded
     ELSE /\ loaded' = [loaded EXCEPT ![t] = risk[call[t].session]]
          /\ Goto(t, "observing")
  /\ UNCHANGED <<call, carried, trace, risk, ledger, earlier>>

Decay(r) == (75 * r) \div 100

Share(h) == (25 * Maximum(h) * RiskUnit) \div 100

\* Faulty variant: the turn replaces what the session carries.
FoldLast(r, h) == Share(h)

\* ConversationRiskAccumulator.observe
Fold(r, h) == Min({100 * RiskUnit, Decay(r) + Share(h)})

ObserveWrites(t) ==
  /\ pc[t] = "observing"
  /\ risk' = [risk EXCEPT ![call[t].session] = Fold(loaded[t], trace[t].harm)]
  /\ Goto(t, "observed")
  /\ UNCHANGED <<call, carried, trace, loaded, ledger, earlier>>

\* ledger.append, then the trace is returned.
Record(t) ==
  /\ pc[t] = "observed"
  /\ ledger' = Append(ledger, t)
  /\ Goto(t, "returned")
  /\ UNCHANGED <<call, carried, trace, loaded, risk, earlier>>

\* ledger.append raises: the session keeps the turn, the caller gets no trace.
RecordRaises(t) ==
  /\ pc[t] = "observed"
  /\ Goto(t, "raised")
  /\ UNCHANGED <<call, carried, trace, loaded, risk, ledger, earlier>>

Next ==
  \E t \in Turn :
    \/ Begin(t)
    \/ Escalate(t)
    \/ DetectorRaises(t)
    \/ ObserveReads(t)
    \/ ObserveWrites(t)
    \/ Record(t)
    \/ RecordRaises(t)

Spec == Init /\ [][Next]_vars

-----------------------------------------------------------------------------
(* Properties.                                                             *)

\* Every variable has its type; a session risk is a probability.
TypeOK ==
  /\ pc \in [Turn -> {"idle", "escalated", "decided", "observing", "observed",
                      "returned", "raised"}]
  /\ DOMAIN call = Turn /\ \A t \in Turn : call[t] \in Calls[t] \cup {NoCall}
  /\ carried \in [Turn -> 0..(100 * RiskUnit)]
  /\ \A t \in Turn : pc[t] # "idle" => trace[t].harm \in Vector
  /\ loaded \in [Turn -> 0..(100 * RiskUnit)]
  /\ risk \in [Session -> 0..(100 * RiskUnit)]
  /\ ledger \in Seq(Turn)
  /\ earlier \in [Turn -> SUBSET Turn]

Decided(t) == pc[t] \notin {"idle", "escalated", "raised"}

\* The calibrated vector the first decision is taken on.
FirstHarm(t) == CascadeHarm(call[t])

\* README: a safety floor that cannot be priced away.  A turn whose harm
\* reaches the fitted threshold, or the lower bar its session sets, is checked
\* by tier 1 or 2 at every price, in every lane and whatever the judge says.
FloorIsChecked ==
  \A t \in Turn :
    Decided(t) /\ Maximum(FirstHarm(t)) >= Bar(carried[t]) => trace[t].tier \in {1, 2}

\* RUNTIME_PREREGISTRATION.md criterion 5: a degraded request is charged for
\* nothing but the floor's tier 1.
DegradedBuysFloorOnly ==
  \A t \in Turn :
    Decided(t) /\ call[t].degraded =>
      trace[t].tier = (IF trace[t].forced THEN 1 ELSE NoTier)

\* An effect fires only if the last decision found the harm below the floor
\* and no check worth its price: never while a check is being paid for.
EffectsWaitForChecks ==
  \A t \in Turn :
    LET c == call[t] IN
    Decided(t) /\ Gate(c.effect, trace[t].verdict) = "permit" =>
      /\ ~(Maximum(trace[t].harm) >= Bar(carried[t]))
      /\ Affordable(trace[t].harm, c.effect, EffectivePrice(c, FirstHarm(t))) = {}

\* Comment in assess(): tier 2 has already run and been paid for.  The second
\* pass never changes what the trace says was bought, owed and forced.
PurchaseIsFinal ==
  \A t \in Turn :
    LET first == FirstDecision(call[t], carried[t])
    IN  Decided(t) => /\ trace[t].tier = first.tier
                      /\ trace[t].spend = first.spend
                      /\ trace[t].forced = first.forced

\* judge_selection.py: "a judge the allocator paid for and did not receive is
\* not a clean result".  A turn charged for a judge that delivered nothing is
\* not cleared by it.
UnreceivedIsNotClean ==
  \A t \in Turn :
    Decided(t) /\ trace[t].tier = 2 /\ ~trace[t].judged => trace[t].reason # "cleared"

\* What is left of a share of risk after n more turns.
Remains(share, n) ==
  LET left[k \in 0..n] == IF k = 0 THEN share ELSE Decay(left[k - 1])
  IN  left[n]

\* Turns of t's session, other than t, that had not returned when u began.
Since(u, t) ==
  {v \in Turn \ {u, t} : call[v].session = call[t].session /\ v \notin earlier[u]}

\* session.py: a questionable turn raises the bar for the turns that follow it.
\* What a turn carries is at least what the decay leaves of every turn of its
\* session that returned before it began.
EarlierTurnsCount ==
  \A t \in Turn : \A u \in earlier[t] :
    call[t].session # NoSession /\ call[u].session = call[t].session =>
      carried[t] >= Remains(Share(trace[u].harm), Cardinality(Since(u, t)))
=============================================================================
