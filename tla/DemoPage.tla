------------------------------ MODULE DemoPage ------------------------------
(***************************************************************************)
(* The live prototype (console/demo_app.py): browser tabs that share one   *)
(* AssessmentEngine, each with its st.session_state, and the runs of the   *)
(* page script that a tab's events start.                                  *)
(*                                                                         *)
(* Streamlit is external: an event starts a new run of the script, and the *)
(* run it replaces goes on until it next touches st.session_state, which   *)
(* stops it.  Only run_pipeline touches nothing of it, but for the error of *)
(* a live model that fails, so only there does a replaced run go on, and   *)
(* it vanishes with its result.                                            *)
(*                                                                         *)
(* Shadow prices, risks and money are integers; the cards a rail shows are *)
(* their titles; an answer is known by the request it answers.             *)
(***************************************************************************)
EXTENDS Integers, Sequences, FiniteSets, FiniteSetsExt

CONSTANTS
  Tab,
  Patient,             \* tabs whose user waits, and whose requests do not fail
  Linked,              \* tabs opened with ?demo=, and what it asks
  LinkAsks,
  Prompt, Refused,     \* prompts, and those preflight stops
  Peak, Fitted,        \* a prompt's calibrated risk; the route's threshold
  RiskMax,
  JudgePrice,          \* the highest shadow price at which the judge is bought
  Ruling,              \* [Prompt -> [tier -> verdict]]
  Fold(_, _),          \* ConversationRiskAccumulator.observe
  TierCost, FloorCost, \* TIER_COST_INR
  BudgetRate, LearningRate, StartPrice,
  MaxAsks, MaxClears, MaxTouches   \* bounds on a tab's events

NoTier == -1
Reviewed == {"hold", "abstain", "block"}    \* verdicts that raise a case
Released == {"allow", "annotate", "hold"}
NoOutcome == [ask |-> <<>>, verdict |-> "allow"]   \* what {} reads as

ASSUME DemoAssumption ==
  /\ Patient \subseteq Tab /\ Linked \subseteq Tab
  /\ Refused \subseteq Prompt /\ LinkAsks \in Prompt
  /\ Peak \in [Prompt -> Nat] /\ {Fitted, RiskMax, MaxClears} \subseteq Nat
  /\ Ruling \in [Prompt -> [{NoTier, 1, 2} -> Reviewed \cup Released]]
  /\ \A p \in Prompt : \A r \in 0..RiskMax : r <= Fold(r, p) /\ Fold(r, p) <= RiskMax

VARIABLES
  page,      \* per tab: st.session_state
  run,       \* per tab: the run of the script
  replaced,  \* per tab: a replaced run still inside run_pipeline
  enabled,   \* per tab: are the buttons on the screen enabled?
  events,    \* per tab: how many events of each kind, and requests started
  risk,      \* per conversation: session risk in the engine
  ledger     \* demo-audit.db

demoVars == <<page, run, replaced, enabled, events, risk, ledger>>

Conversation == Tab \X (0..MaxClears)
NoRun == [pc |-> "idle"]
NewRun(event) == [pc |-> "render", event |-> event]

\* The defaults render() sets, and the engine and controller it starts with.
\* used: what a checked instance has used up of its bounds.
DemoStart(used) ==
  /\ page = [b \in Tab |->
       [messages |-> <<>>, steps |-> <<>>, cursor |-> 0, outcome |-> NoOutcome,
        spend |-> 0, served |-> 0, lam |-> StartPrice, session |-> 0]]
  /\ run = [b \in Tab |-> NewRun("open")]
  /\ replaced = [b \in Tab |-> NoRun]
  /\ enabled = [b \in Tab |-> FALSE]
  /\ events = used
  /\ risk = [c \in Conversation |-> 0]
  /\ ledger = <<>>

DemoInit == DemoStart([b \in Tab |-> [ask |-> 0, clear |-> 0, touch |-> 0, start |-> 0]])

Busy(b) == page[b].cursor < Len(page[b].steps)

-----------------------------------------------------------------------------
(* Events: Streamlit starts a run for each.                                *)

InPipeline(r) == r.pc \in {"observe", "assess"}

\* At most one replaced run at a time is followed.
StartRun(b, kind, event) ==
  /\ replaced[b] = NoRun
  /\ b \in Patient => run[b] = NoRun
  /\ replaced' = [replaced EXCEPT ![b] = IF InPipeline(run[b]) THEN run[b] ELSE NoRun]
  /\ run' = [run EXCEPT ![b] = NewRun(event)]
  /\ events' = [events EXCEPT ![b][kind] = @ + 1]
  /\ UNCHANGED <<page, enabled, risk, ledger>>

Press(b) ==
  /\ enabled[b] /\ events[b].ask < MaxAsks
  /\ \E p \in Prompt : StartRun(b, "ask", p)

ClearPressed(b) ==
  events[b].clear < MaxClears /\ StartRun(b, "clear", "clear")

\* Any other widget: the pace slider, the model, the key.
Touch(b) ==
  b \notin Patient /\ events[b].touch < MaxTouches /\ StartRun(b, "touch", "touch")

-----------------------------------------------------------------------------
(* A run of the script.                                                    *)

Goto(b, pc) == run' = [run EXCEPT ![b] = [@ EXCEPT !.pc = pc]]

\* A run that has fields of the page left to assign, from new, in that order.
Assigning(b, fields, new) ==
  run' = [run EXCEPT ![b] = [pc |-> "assign", fields |-> fields, new |-> new]]

\* The sidebar, the two columns, then the first thing there is to do: a link's
\* prompt, before any button is drawn, a pressed button or typed prompt, the
\* walkthrough's next step.
Render(b) ==
  LET event == run[b].event
      fresh == [page[b] EXCEPT !.messages = <<>>, !.steps = <<>>, !.outcome = NoOutcome,
                               !.cursor = 0, !.session = events[b].clear]
      linked == b \in Linked /\ page[b].steps = <<>> /\ page[b].messages = <<>>
      ask == IF linked THEN LinkAsks ELSE event
  IN
  /\ run[b].pc = "render"
  /\ IF event = "clear"
     THEN /\ Assigning(b, <<"messages", "steps", "outcome", "cursor", "session">>, fresh)
          /\ UNCHANGED enabled
     ELSE /\ enabled' = IF linked THEN enabled ELSE [enabled EXCEPT ![b] = ~Busy(b)]
          /\ run' = [run EXCEPT ![b] =
                 IF ask \in Prompt THEN [pc |-> "start", asks |-> ask]
                 ELSE IF Busy(b) THEN [pc |-> "tick"]
                 ELSE NoRun]
  /\ UNCHANGED <<page, replaced, events, risk, ledger>>

\* start(): the prompt goes on the screen, then run_pipeline gets its arguments.
Start(b) ==
  LET id == <<b, events[b].start + 1>> IN
  /\ run[b].pc = "start"
  /\ page' = [page EXCEPT ![b].messages =
                Append(@, [who |-> "user", says |-> "prompt", ask |-> id])]
  /\ run' = [run EXCEPT ![b] = [pc |-> "observe", asks |-> run[b].asks, ask |-> id,
                                lam |-> page[b].lam, session |-> <<b, page[b].session>>]]
  /\ events' = [events EXCEPT ![b].start = @ + 1]
  /\ UNCHANGED <<replaced, enabled, risk, ledger>>

\* tightened_threshold, and the tier bought against it.
Tightened(r) == Max({0, Fitted - r})

TierAt(p, lam, threshold) ==
  IF lam <= JudgePrice[p] THEN 2 ELSE IF Peak[p] >= threshold THEN 1 ELSE NoTier

BlockedCards == <<"admitted", "preflight", "blocked", "cost">>

\* The cards run_pipeline returns: the judge's if the first pass bought it, the
\* rest after what assess() decided.
Cards(first, trace) ==
  <<"admitted", "preflight", "answers", "tier 0", "tier 1", "calibrate", "floor", "price">>
    \o (IF first = 2 THEN <<"judge", "recomputed", "again">> ELSE <<>>)
    \o <<"verdict", "gated", "chain">>
    \o (IF trace.verdict \in Reviewed THEN <<"person">> ELSE <<>>)
    \o <<"cost">>

\* cost_step: the one card with a cost.
Cost(tier) == FloorCost + (IF tier = NoTier THEN 0 ELSE TierCost[tier])

\* What start() assigns once run_pipeline has returned: the walkthrough, then
\* the tallies and the price BudgetController.update makes of them.
Updated(lam, spend, served) ==
  Max({0, lam + (LearningRate * (spend - BudgetRate * served)) \div served})

Returned(b, cards, outcome, cost) ==
  LET spend == page[b].spend + cost
      served == page[b].served + 1
  IN  Assigning(b, <<"steps", "outcome", "cursor", "spend", "served", "lam">>,
        [steps |-> cards, outcome |-> outcome, cursor |-> 1, spend |-> spend,
         served |-> served, lam |-> Updated(page[b].lam, spend, served)])

\* The run goes on to assess() with the tier the rail narrates.
Narrates(r, threshold) ==
  [pc |-> "assess", asks |-> r.asks, ask |-> r.ask, lam |-> r.lam,
   session |-> r.session, first |-> TierAt(r.asks, r.lam, threshold)]

\* Faulty variant: the rail is reconstructed against the fitted threshold.
ObservedFitted(r) == Narrates(r, Fitted)

\* observe_and_decide, after preflight let the prompt through and the model
\* answered: the rail's own reading of the session's risk.
Observed(r) == Narrates(r, Tightened(risk[r.session]))

Observe(b) ==
  /\ run[b].pc = "observe"
  /\ IF run[b].asks \in Refused
     THEN Returned(b, BlockedCards, [ask |-> run[b].ask, verdict |-> "refused"],
                   Cost(NoTier))
     ELSE run' = [run EXCEPT ![b] = Observed(run[b])]
  /\ UNCHANGED <<page, replaced, enabled, events, risk, ledger>>

\* A replaced run ends here too if the live model fails: generator() writes
\* llm_error.
ReplacedObserves(b) ==
  /\ replaced[b].pc = "observe"
  /\ \/ /\ replaced[b].asks \notin Refused
        /\ replaced' = [replaced EXCEPT ![b] = Observed(replaced[b])]
     \/ replaced' = [replaced EXCEPT ![b] = NoRun]
  /\ UNCHANGED <<page, run, enabled, events, risk, ledger>>

\* engine.assess: it reads the session's risk again, decides, folds, records.
Trace(r) ==
  LET tier == TierAt(r.asks, r.lam, Tightened(risk[r.session]))
  IN  [ask |-> r.ask, session |-> r.session, tier |-> tier,
       verdict |-> Ruling[r.asks][tier]]

Recorded(r) ==
  /\ risk' = [risk EXCEPT ![r.session] = Fold(@, r.asks)]
  /\ ledger' = Append(ledger, Trace(r))

Assess(b) ==
  LET trace == Trace(run[b]) IN
  /\ run[b].pc = "assess"
  /\ Recorded(run[b])
  /\ Returned(b, Cards(run[b].first, trace),
              [ask |-> trace.ask, verdict |-> trace.verdict],
              Cost(trace.tier))
  /\ UNCHANGED <<page, replaced, enabled, events>>

ReplacedAssesses(b) ==
  /\ replaced[b].pc = "assess"
  /\ Recorded(replaced[b])
  /\ replaced' = [replaced EXCEPT ![b] = NoRun]
  /\ UNCHANGED <<page, run, enabled, events>>

\* assess() raises: Streamlit shows the error and the run is over.
AssessRaises(b) ==
  /\ b \notin Patient /\ run[b].pc = "assess"
  /\ run' = [run EXCEPT ![b] = NoRun]
  /\ UNCHANGED <<page, replaced, enabled, events, risk, ledger>>

\* The next assignment to st.session_state; after the last, st.rerun().
Assign(b) ==
  LET r == run[b]
      f == Head(r.fields)
  IN
  /\ r.pc = "assign"
  /\ page' = [page EXCEPT ![b][f] = r.new[f]]
  /\ run' = [run EXCEPT ![b] =
       IF Len(r.fields) = 1 THEN NewRun("rerun") ELSE [r EXCEPT !.fields = Tail(@)]]
  /\ UNCHANGED <<replaced, enabled, events, risk, ledger>>

\* Faulty variant: the walkthrough ends when the cursor has passed the last card.
AtEndPast(p) == p.cursor > Len(p.steps)

AtEnd(p) == p.cursor >= Len(p.steps)

\* The end of a busy render: one card further, and finish() after the last.
Tick(b) ==
  LET next == [page[b] EXCEPT !.cursor = @ + 1] IN
  /\ run[b].pc = "tick"
  /\ page' = [page EXCEPT ![b] = next]
  /\ run' = [run EXCEPT ![b] = IF AtEnd(next) THEN [pc |-> "finish"] ELSE NewRun("rerun")]
  /\ UNCHANGED <<replaced, enabled, events, risk, ledger>>

\* Faulty variant: abstain is not among the substituted verdicts.
SaysBlockOnly(outcome) ==
  IF outcome.verdict = "refused" THEN "refusal"
  ELSE IF outcome.verdict = "block" THEN "substitute"
  ELSE IF outcome.ask = <<>> THEN "nothing"
  ELSE "answer"

\* finish(): what the customer is shown.  An empty outcome is an allowed answer
\* without a word.
Says(outcome) ==
  IF outcome.verdict = "refused" THEN "refusal"
  ELSE IF outcome.verdict \in {"block", "abstain"} THEN "substitute"
  ELSE IF outcome.ask = <<>> THEN "nothing"
  ELSE "answer"

Finish(b) ==
  LET outcome == page[b].outcome IN
  /\ run[b].pc = "finish"
  /\ page' = [page EXCEPT ![b].messages =
                Append(@, [who |-> "bot", says |-> Says(outcome), ask |-> outcome.ask])]
  /\ Assigning(b, <<"outcome">>, [outcome |-> NoOutcome])
  /\ UNCHANGED <<replaced, enabled, events, risk, ledger>>

ScriptStep(b) ==
  \/ Render(b)
  \/ Start(b)
  \/ Observe(b)
  \/ Assess(b)
  \/ Assign(b)
  \/ Tick(b)
  \/ Finish(b)

DemoNext ==
  \E b \in Tab :
    \/ Press(b)
    \/ ClearPressed(b)
    \/ Touch(b)
    \/ ScriptStep(b)
    \/ ReplacedObserves(b)
    \/ ReplacedAssesses(b)
    \/ AssessRaises(b)

\* A run of the script goes on whether or not anyone looks.
DemoFairness == \A b \in Tab : WF_demoVars(ScriptStep(b))

DemoSpec == DemoInit /\ [][DemoNext]_demoVars /\ DemoFairness

-----------------------------------------------------------------------------
(* Properties.                                                             *)

\* VERDICT_TONE: abstain and block are "withheld".  Whatever runs overlap, stop
\* half way or fail, the model's words on a screen are those of a request the
\* ledger holds with a verdict that releases them.
ShownWasReleased ==
  \A b \in Tab : \A i \in DOMAIN page[b].messages :
    LET m == page[b].messages[i] IN
    m.says = "answer" =>
      \E k \in DOMAIN ledger : ledger[k].ask = m.ask /\ ledger[k].verdict \in Released

\* demo_app.py: the "intermediate cards are recomputed with the same primitives
\* the engine calls".  In a tab whose user waits, the tier the rail is about to
\* narrate is the tier assess() takes, other tabs and earlier turns regardless.
RailMatchesTrace ==
  \A b \in Patient :
    run[b].pc = "assess" => run[b].first = Trace(run[b]).tier

Bubbles(b, who) == {i \in DOMAIN page[b].messages : page[b].messages[i].who = who}
Waiting(b) == Cardinality(Bubbles(b, "user")) # Cardinality(Bubbles(b, "bot"))

\* Every prompt of a user who waits gets its bubble, through the reruns and
\* whatever the other tabs do.
PatientIsAnswered == \A b \in Patient : Waiting(b) ~> ~Waiting(b)
=============================================================================
