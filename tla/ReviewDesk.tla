----------------------------- MODULE ReviewDesk -----------------------------
(***************************************************************************)
(* review/queue.py: the reviewer queue of one traffic window.  drain() is a*)
(* discrete-event simulation; one action here is one pass of its loop.     *)
(* Times are whole minutes; a case's id orders as its interaction_id does. *)
(***************************************************************************)
EXTENDS Integers, Sequences, FiniteSets, FiniteSetsExt

CONSTANTS
  MinutesPerCase, CapacityPerHour, CostPerCase,   \* ReviewEconomics
  Hours,            \* of traffic: the window drain() is given minutes for
  Strategies,       \* what ReviewQueue.strategy may be
  Spacing,          \* round(1 / random_share); 0 when there is no share
  StableUniform     \* per id, its seeded draw

ASSUME DeskAssumption ==
  /\ MinutesPerCase \in Nat \ {0} /\ CapacityPerHour \in Nat /\ CostPerCase \in Nat
  /\ Hours \in Nat
  /\ Strategies \subseteq {"deadline_density", "deadline", "density", "fifo", "random"}
  /\ Spacing \in Nat

VARIABLES
  arrivals,     \* drain(): the cases that have not landed yet
  waiting,      \* drain(): landed, and not taken by a reviewer
  freeAt,       \* per reviewer, when the review in hand ends
  served,       \* the decisions on cases that were reviewed, in order
  shed,         \* the decisions on cases that were not
  desk,         \* "collecting" | "draining" | "drained"
  strategy

deskVars == <<arrivals, waiting, freeAt, served, shed, desk, strategy>>

\* round(): halves go to the even neighbour.
RoundedHours(minutes) ==
  LET q == minutes \div 60
      r == minutes % 60
  IN  IF r > 30 \/ (r = 30 /\ q % 2 = 1) THEN q + 1 ELSE q

Reviewers == Max({1, RoundedHours(Max({60, CapacityPerHour}))})
Reviewer == 1..Reviewers
MinutesAvailable == CapacityPerHour * Hours
Window == MinutesAvailable \div Reviewers

\* case_from_trace for a withheld verdict.
ReviewCase(id, verdict, loss, sla, arrived) ==
  [id |-> id,
   reason |-> IF verdict = "abstain" THEN "unverifiable"
              ELSE IF verdict = "hold" THEN "effect_held" ELSE "blocked",
   loss |-> loss, minutes |-> MinutesPerCase, cost |-> CostPerCase, sla |-> sla,
   arrived |-> arrived]

RaisesCase(verdict) == verdict \in {"abstain", "hold", "block"}

DeskInit ==
  /\ arrivals = {} /\ waiting = {}
  /\ freeAt = [r \in Reviewer |-> 0]
  /\ served = <<>> /\ shed = {}
  /\ desk = "collecting" /\ strategy = "deadline_density"

-----------------------------------------------------------------------------
\* value_density: a loss over the same number of minutes for every case.
Denser(c, d) == c.loss * d.minutes > d.loss * c.minutes

\* _stable_uniform; of equal draws the earlier case, which is the lower id.
Drawn(c, d) ==
  \/ StableUniform[c.id] < StableUniform[d.id]
  \/ StableUniform[c.id] = StableUniform[d.id] /\ c.id < d.id

\* _sort_key, then interaction_id: is c served before d?
Precedes(c, d) ==
  LET urgent == c.sla < d.sla
      sameSla == c.sla = d.sla
      sameDensity == ~Denser(c, d) /\ ~Denser(d, c)
      first == c.id < d.id
  IN
  CASE strategy = "deadline_density" ->
         urgent \/ (sameSla /\ (Denser(c, d) \/ (sameDensity /\ first)))
    [] strategy = "deadline" -> urgent \/ (sameSla /\ first)
    [] strategy = "density" -> Denser(c, d) \/ (sameDensity /\ first)
    [] strategy = "fifo" -> first
    [] OTHER -> Drawn(c, d)

\* _is_random_slot
IsRandomSlot(n) == Spacing > 0 /\ n % Spacing = 0

\* min() over what is waiting, by the draw or by the rule.
Chosen(cases) ==
  CHOOSE c \in cases : \A d \in cases \ {c} :
    IF IsRandomSlot(Len(served)) THEN Drawn(c, d) ELSE Precedes(c, d)

\* min(range(reviewers), key=free_at): the first one of equals.
FirstFree ==
  CHOOSE r \in Reviewer : \A s \in Reviewer :
    freeAt[r] < freeAt[s] \/ (freeAt[r] = freeAt[s] /\ r <= s)

Now == freeAt[FirstFree]

\* Faulty variant: every case of the window is a candidate from minute zero.
LandedAtOnce == waiting \cup arrivals

\* What has landed by the time that reviewer is free.
Landed == waiting \cup {c \in arrivals : c.arrived <= Now}

\* From a case's own arrival to the end of its review.
Waited(c, finished) == finished - c.arrived

Decision(c, finished) ==
  [case |-> c, wait |-> Waited(c, finished), spend |-> c.cost,
   random |-> IsRandomSlot(Len(served)), finished |-> finished,
   outcome |-> IF Waited(c, finished) > c.sla THEN "breached_sla" ELSE "reviewed"]

-----------------------------------------------------------------------------
\* A queue with one of the rules gets every case, and drain() takes them.
OpenDesk(cases) ==
  /\ desk = "collecting"
  /\ arrivals' = cases
  /\ desk' = "draining" /\ strategy' \in Strategies
  /\ UNCHANGED <<waiting, freeAt, served, shed>>

\* Faulty variant: an idle reviewer looks again at the same minute.
IdleUntilNow == Now

\* An idle reviewer waits for the next case.
IdleUntil == Min({c.arrived : c \in arrivals})

Idle ==
  /\ desk = "draining"
  /\ Landed = {} /\ arrivals # {}
  /\ freeAt' = [freeAt EXCEPT ![FirstFree] = IdleUntil]
  /\ UNCHANGED <<arrivals, waiting, served, shed, desk, strategy>>

Finish(c) == Max({Now, c.arrived}) + c.minutes

\* Faulty variant: a review may end after the window.
FitsIfStarted(c) == Now <= Window

FitsWindow(c) == Finish(c) <= Window

ReviewOne ==
  /\ desk = "draining"
  /\ Landed # {}
  /\ LET c == Chosen(Landed) IN
     /\ FitsWindow(c)
     /\ arrivals' = arrivals \ Landed
     /\ waiting' = Landed \ {c}
     /\ freeAt' = [freeAt EXCEPT ![FirstFree] = Finish(c)]
     /\ served' = Append(served, Decision(c, Finish(c)))
  /\ UNCHANGED <<shed, desk, strategy>>

\* _shed: costs nothing, reviews nothing; the verdict taken stands.
Shed(c) == [case |-> c, wait |-> Max({0, Window - c.arrived}), spend |-> 0]

\* Nobody is left, or the case taken does not fit: the rest is shed.
CloseDesk ==
  /\ desk = "draining"
  /\ IF Landed = {} THEN arrivals = {} ELSE ~FitsWindow(Chosen(Landed))
  /\ shed' = {Shed(c) : c \in Landed \cup arrivals}
  /\ arrivals' = {} /\ waiting' = {}
  /\ desk' = "drained"
  /\ UNCHANGED <<freeAt, served, strategy>>

DeskStep == Idle \/ ReviewOne \/ CloseDesk

-----------------------------------------------------------------------------
(* Properties.                                                             *)

Served == {served[i] : i \in DOMAIN served}
Start(d) == d.finished - d.case.minutes

\* "A reviewer cannot start a case before it arrives": no case is worked
\* before it exists or past the window, no more cases are in hand at a time
\* than there are reviewers, and a breach is measured from the case's arrival.
DeskIsStaffed ==
  \A d \in Served :
    /\ Start(d) >= d.case.arrived /\ d.finished <= Window
    /\ Cardinality({e \in Served : Start(e) <= Start(d) /\ Start(d) < e.finished})
         <= Reviewers
    /\ (d.outcome = "breached_sla") <=> (d.finished > d.case.arrived + d.case.sla)

\* When the n-th case of an id-ordered backlog would end if cases were taken
\* as they come.
FifoFinish(cases) ==
  LET n == Cardinality(cases)
      nth[i \in 1..n] ==
        CHOOSE c \in cases : Cardinality({d \in cases : d.id <= c.id}) = i
      finish[i \in 1..n] ==
        Max({nth[i].arrived, IF i > Reviewers THEN finish[i - Reviewers] ELSE 0})
          + nth[i].minutes
  IN  finish

\* attention.py compares serving rules "at identical capacity on identical
\* raised cases": how many cases are reviewed does not depend on the rule.
RuleServesAsMany ==
  desk = "drained" =>
    LET finish == FifoFinish({d.case : d \in Served \cup shed})
    IN  Len(served) = Cardinality({i \in DOMAIN finish : finish[i] <= Window})
=============================================================================
