----------------------------- MODULE Admission ------------------------------
(***************************************************************************)
(* controlplane/runtime/admission.py for one route (routes share nothing): *)
(* a discretionary and a mandatory lane, each a token bucket in front of a *)
(* bounded asyncio lane, and the leases they hand out.  Requests are tasks *)
(* of one event loop, so an action is what a task does between two awaits. *)
(*                                                                         *)
(* asyncio itself is external.  wait_for runs Semaphore.acquire in a task  *)
(* of its own (Python 3.11, the version the project requires at least):    *)
(* a queued request is "starting" until that task runs, "waiting" while    *)
(* its future is in the semaphore's deque, "acquired" when it is done but  *)
(* admit() has not resumed, and "abandoning"/"abandoned" once wait_for     *)
(* cancelled it.                                                           *)
(***************************************************************************)
EXTENDS Naturals, Sequences, FiniteSets

CONSTANTS
  Request,
  Discretionary, Mandatory, NoLane,
  Concurrency, QueueCapacity, Burst    \* LaneLimits, per lane

Lane == {Discretionary, Mandatory}

ASSUME AdmissionAssumption ==
  /\ Discretionary # Mandatory /\ NoLane \notin Lane
  /\ IsFiniteSet(Request)
  /\ Concurrency \in [Lane -> Nat \ {0}]
  /\ QueueCapacity \in [Lane -> Nat]
  /\ Burst \in [Lane -> Nat \ {0}]

VARIABLES
  stage, lane,          \* per request: where admit() is, the lane it tries
  doomed,               \* requests whose task was cancelled while they queue
  fut,                  \* per request: its future in the semaphore's deque
  value, waiters,       \* asyncio.Semaphore._value, ._waiters, per lane
  active, queued,       \* _BoundedLane counters
  maxActive, maxQueued,
  tokens,               \* _TokenBucket._tokens, whole tokens
  counts                \* _RouteState.normal, .degraded, .rejected

admissionVars == <<stage, lane, doomed, fut, value, waiters, active, queued,
                   maxActive, maxQueued, tokens, counts>>

semVars == <<fut, value, waiters>>
countVars == <<active, maxActive, counts>>
queueVars == <<queued, maxQueued>>

Max2(a, b) == IF a >= b THEN a ELSE b

-----------------------------------------------------------------------------
(* asyncio.Semaphore.                                                      *)

Waiting(l) == {waiters[l][i] : i \in DOMAIN waiters[l]}

\* A waiter whose future is done but whose task has not run still counts.
Locked(l) == value[l] = 0 \/ \E r \in Waiting(l) : fut[r] # "cancelled"

\* Position of the first waiter whose future is not done.
FirstPending(l) ==
  {i \in DOMAIN waiters[l] :
     /\ fut[waiters[l][i]] = "pending"
     /\ \A j \in 1..(i - 1) : fut[waiters[l][j]] # "pending"}

\* _wake_up_next() with v permits: the first pending waiter, other than the
\* ones in gone, gets one.
WakeNext(l, v, f) ==
  IF FirstPending(l) = {}
  THEN /\ value' = [value EXCEPT ![l] = v]
       /\ fut' = f
  ELSE \E i \in FirstPending(l) :
         /\ value' = [value EXCEPT ![l] = v - 1]
         /\ fut' = [f EXCEPT ![waiters[l][i]] = "granted"]

\* self._waiters.remove(fut)
Without(s, r) ==
  LET i == CHOOSE k \in DOMAIN s : s[k] = r
  IN  [j \in 1..(Len(s) - 1) |-> IF j < i THEN s[j] ELSE s[j + 1]]

LeaveDeque(r) ==
  waiters' = [waiters EXCEPT ![lane[r]] = Without(@, r)]

-----------------------------------------------------------------------------
Init ==
  /\ stage = [r \in Request |-> "new"]
  /\ lane = [r \in Request |-> NoLane]
  /\ doomed = {}
  /\ fut = [r \in Request |-> "none"]
  /\ value = Concurrency
  /\ waiters = [l \in Lane |-> <<>>]
  /\ active = [l \in Lane |-> 0]
  /\ queued = [l \in Lane |-> 0]
  /\ maxActive = [l \in Lane |-> 0]
  /\ maxQueued = [l \in Lane |-> 0]
  /\ tokens = Burst
  /\ counts = [normal |-> 0, degraded |-> 0, rejected |-> 0]

\* _mark_active(), the new AdmissionLease and the counter in admit().
Hold(r, l) ==
  /\ active' = [active EXCEPT ![l] = @ + 1]
  /\ maxActive' = [maxActive EXCEPT ![l] = Max2(@, active[l] + 1)]
  /\ counts' = IF l = Discretionary
               THEN [counts EXCEPT !.normal = @ + 1]
               ELSE [counts EXCEPT !.degraded = @ + 1]

Full(l) == Locked(l) /\ queued[l] >= QueueCapacity[l]

Refuses(l) == tokens[l] = 0 \/ Full(l)

\* bucket.consume() for each lane tried: the token is gone even if the lane
\* then refuses.
Charge(tried) ==
  tokens' = [l \in Lane |-> IF l \in tried /\ tokens[l] > 0
                            THEN tokens[l] - 1 ELSE tokens[l]]

\* The loop of admit() from here: the lanes in passed refuse at once, lane l
\* takes the request on its free permit or into its queue.  left is the lane
\* whose queue the request leaves in the same step, if any.
Enter(r, passed, l, left) ==
  /\ \A k \in passed : Refuses(k)
  /\ ~Refuses(l)
  /\ Charge(passed \cup {l})
  /\ lane' = [lane EXCEPT ![r] = l]
  /\ IF Locked(l)
     THEN /\ stage' = [stage EXCEPT ![r] = "starting"]
          /\ queued' = [k \in Lane |-> IF k = left THEN queued[k] - 1
                                       ELSE IF k = l THEN queued[k] + 1
                                       ELSE queued[k]]
          /\ maxQueued' = [maxQueued EXCEPT ![l] = Max2(@, queued[l] + 1)]
          /\ UNCHANGED <<semVars, countVars>>
     ELSE /\ stage' = [stage EXCEPT ![r] = "held"]
          /\ value' = [value EXCEPT ![l] = @ - 1]
          /\ Hold(r, l)
          /\ queued' = [k \in Lane |-> IF k = left THEN queued[k] - 1 ELSE queued[k]]
          /\ UNCHANGED <<fut, waiters, maxQueued>>
  /\ UNCHANGED doomed

\* raise AdmissionRejected: every lane still to be tried refuses.
Reject(r, passed, left) ==
  /\ \A k \in passed : Refuses(k)
  /\ Charge(passed)
  /\ stage' = [stage EXCEPT ![r] = "rejected"]
  /\ lane' = [lane EXCEPT ![r] = NoLane]
  /\ queued' = [k \in Lane |-> IF k = left THEN queued[k] - 1 ELSE queued[k]]
  /\ counts' = [counts EXCEPT !.rejected = @ + 1]
  /\ UNCHANGED <<semVars, active, maxActive, maxQueued, doomed>>

Arrive(r) ==
  /\ stage[r] = "new"
  /\ \/ Enter(r, {}, Discretionary, NoLane)
     \/ Enter(r, {Discretionary}, Mandatory, NoLane)
     \/ Reject(r, Lane, NoLane)

\* The task wait_for created runs: Semaphore.acquire up to its await.
StartWait(r) ==
  LET l == lane[r] IN
  /\ stage[r] = "starting"
  /\ IF Locked(l)
     THEN /\ waiters' = [waiters EXCEPT ![l] = Append(@, r)]
          /\ fut' = [fut EXCEPT ![r] = "pending"]
          /\ stage' = [stage EXCEPT ![r] = "waiting"]
          /\ UNCHANGED value
     ELSE /\ value' = [value EXCEPT ![l] = @ - 1]
          /\ stage' = [stage EXCEPT ![r] = "acquired"]
          /\ UNCHANGED <<fut, waiters>>
  /\ UNCHANGED <<lane, doomed, countVars, queueVars, tokens>>

\* Faulty variant: the woken task does not pass a spare permit on.
WakeAlone(r) ==
  /\ stage[r] = "waiting" /\ fut[r] = "granted"
  /\ LeaveDeque(r)
  /\ fut' = [fut EXCEPT ![r] = "none"]
  /\ stage' = [stage EXCEPT ![r] = "acquired"]
  /\ UNCHANGED <<lane, doomed, value, countVars, queueVars, tokens>>

\* Its future has a result: it leaves the deque and passes a spare permit on.
Wake(r) ==
  LET l == lane[r]
      f == [fut EXCEPT ![r] = "none"] IN
  /\ stage[r] = "waiting" /\ fut[r] = "granted"
  /\ LeaveDeque(r)
  /\ IF value[l] > 0 THEN WakeNext(l, value[l], f)
                     ELSE fut' = f /\ UNCHANGED value
  /\ stage' = [stage EXCEPT ![r] = "acquired"]
  /\ UNCHANGED <<lane, doomed, countVars, queueVars, tokens>>

\* wait_for returns: queued -= 1, then _mark_active and the lease.
Resume(r) ==
  LET l == lane[r] IN
  /\ stage[r] = "acquired"
  /\ stage' = [stage EXCEPT ![r] = "held"]
  /\ queued' = [queued EXCEPT ![l] = @ - 1]
  /\ Hold(r, l)
  /\ UNCHANGED <<lane, doomed, semVars, maxQueued, tokens>>

\* wait_for cancels the acquire task: at the queue timeout, or because the
\* request's own task is cancelled.  A pending future is cancelled at once, a
\* granted one keeps its result until the task sees the cancellation.  (Once
\* the acquire task is done wait_for returns its result in both cases.)
GiveUp(r, cancelled) ==
  /\ stage[r] \in {"starting", "waiting"}
  /\ stage' = [stage EXCEPT ![r] = "abandoning"]
  /\ fut' = IF fut[r] = "pending" THEN [fut EXCEPT ![r] = "cancelled"] ELSE fut
  /\ doomed' = IF cancelled THEN doomed \cup {r} ELSE doomed
  /\ UNCHANGED <<lane, value, waiters, countVars, queueVars, tokens>>

\* Faulty variant: Semaphore.acquire is awaited without a timeout.
NoTimeout(r) == FALSE

Timeout(r) == GiveUp(r, FALSE)

\* A cancellation may also find wait_for waiting for the acquire task to end.
CancelQueued(r) ==
  \/ GiveUp(r, TRUE)
  \/ /\ stage[r] \in {"abandoning", "abandoned"} /\ r \notin doomed
     /\ doomed' = doomed \cup {r}
     /\ UNCHANGED <<stage, lane, semVars, countVars, queueVars, tokens>>

\* Faulty variant: a permit granted to a waiter that gave up is not returned.
AbandonKeeping(r) ==
  /\ stage[r] = "abandoning"
  /\ IF fut[r] = "none" THEN UNCHANGED waiters ELSE LeaveDeque(r)
  /\ fut' = [fut EXCEPT ![r] = "none"]
  /\ stage' = [stage EXCEPT ![r] = "abandoned"]
  /\ UNCHANGED <<lane, doomed, value, countVars, queueVars, tokens>>

\* The acquire task sees CancelledError: a granted permit is given back.
Abandon(r) ==
  LET l == lane[r]
      f == [fut EXCEPT ![r] = "none"] IN
  /\ stage[r] = "abandoning"
  /\ IF fut[r] = "none" THEN UNCHANGED waiters ELSE LeaveDeque(r)
  /\ IF fut[r] = "granted" THEN WakeNext(l, value[l] + 1, f)
                           ELSE fut' = f /\ UNCHANGED value
  /\ stage' = [stage EXCEPT ![r] = "abandoned"]
  /\ UNCHANGED <<lane, doomed, countVars, queueVars, tokens>>

\* except TimeoutError: return None; admit() tries the next lane or rejects.
ResumeRefused(r) ==
  /\ stage[r] = "abandoned" /\ r \notin doomed
  /\ \/ /\ lane[r] = Discretionary
        /\ \/ Enter(r, {}, Mandatory, Discretionary)
           \/ Reject(r, {Mandatory}, Discretionary)
     \/ /\ lane[r] = Mandatory
        /\ Reject(r, {}, Mandatory)

\* CancelledError: only the finally clause runs.
ResumeCancelled(r) ==
  /\ stage[r] = "abandoned" /\ r \in doomed
  /\ stage' = [stage EXCEPT ![r] = "cancelled"]
  /\ queued' = [queued EXCEPT ![lane[r]] = @ - 1]
  /\ UNCHANGED <<lane, doomed, semVars, countVars, maxQueued, tokens>>

\* AdmissionLease.release() of a lease not released yet.
Release(r) ==
  LET l == lane[r] IN
  /\ stage[r] = "held"
  /\ active' = [active EXCEPT ![l] = @ - 1]
  /\ WakeNext(l, value[l] + 1, fut)
  /\ stage' = [stage EXCEPT ![r] = "released"]
  /\ UNCHANGED <<lane, doomed, waiters, maxActive, counts, queueVars, tokens>>

\* One token's worth of time passes for a bucket that is not full.
Refill(l) ==
  /\ tokens[l] < Burst[l]
  /\ tokens' = [tokens EXCEPT ![l] = @ + 1]
  /\ UNCHANGED <<stage, lane, doomed, semVars, countVars, queueVars>>

\* What the event loop runs for a queued request, the timer included.
QueueStep(r) ==
  \/ StartWait(r)
  \/ Wake(r)
  \/ Resume(r)
  \/ Timeout(r)
  \/ Abandon(r)
  \/ ResumeRefused(r)
  \/ ResumeCancelled(r)

AdmissionStep ==
  \/ \E r \in Request : Arrive(r) \/ CancelQueued(r) \/ QueueStep(r)
  \/ \E l \in Lane : Refill(l)

Next == AdmissionStep \/ \E r \in Request : Release(r)

Spec == Init /\ [][Next]_admissionVars

\* The event loop runs every ready callback and fires every timer.
FairSpec == Spec /\ \A r \in Request : WF_admissionVars(QueueStep(r))

-----------------------------------------------------------------------------
(* Properties.                                                             *)

QueueStages == {"starting", "waiting", "acquired", "abandoning", "abandoned"}

On(l, S) == {r \in Request : lane[r] = l /\ stage[r] \in S}

Granted(l) == {r \in Request : lane[r] = l /\ fut[r] = "granted"}

\* No permit is lost or made up by a grant that races a timeout or a
\* cancellation: free permits, leases and grants on their way add up.
PermitsConserved(l) ==
  value[l] + Cardinality(On(l, {"acquired", "held"})) + Cardinality(Granted(l))
    = Concurrency[l]

\* Every exit path takes a request out of the counter it is in: active counts the
\* outstanding leases, so release() never finds it at 0 and raises, and queued the
\* requests that wait.
CountersAreTrue(l) ==
  /\ active[l] = Cardinality(On(l, {"held"})) /\ maxActive[l] <= Concurrency[l]
  /\ queued[l] = Cardinality(On(l, QueueStages)) /\ maxQueued[l] <= QueueCapacity[l]

\* RUNTIME_PREREGISTRATION.md criterion 1, active and queued work within their
\* bounds, and what it takes on every path a request can leave by: permits are
\* conserved and both counters mean what release() and acquire() read in them.
LaneAccounts == \A l \in Lane : PermitsConserved(l) /\ CountersAreTrue(l)

\* A free permit and a pending waiter coexist only while a granted waiter that
\* has still to run will pass the permit on: no wake-up is lost.
NoLostWakeup ==
  \A l \in Lane : value[l] > 0 /\ FirstPending(l) # {} => Granted(l) # {}

\* A queued request is admitted, degraded, rejected or cancelled in the end,
\* whether or not anyone ever releases a lease.
QueuedIsDecided ==
  \A r \in Request : stage[r] \in QueueStages ~> stage[r] \notin QueueStages
=============================================================================
