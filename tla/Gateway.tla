------------------------------ MODULE Gateway -------------------------------
(***************************************************************************)
(* controlplane/gateway/app.py over the admission of one route: what a     *)
(* call does with its lease.  A call is a task of the event loop, its      *)
(* preflight and its assessment run in worker threads (asyncio.to_thread), *)
(* and a streamed call goes on in the generator of its StreamingResponse   *)
(* and in the assessment task that generator creates.                      *)
(*                                                                         *)
(* A call that holds a lease while step is "none" is in its preflight.     *)
(***************************************************************************)
EXTENDS Admission

CONSTANTS
  Streaming,     \* the calls that ask for a stream
  Disruptions    \* which of "cancel" (the server cancels handlers when it
                 \* shuts down), "gone_before_body" and "gone_mid_body" (the
                 \* client closes the connection) may happen

ASSUME GatewayAssumption ==
  /\ Streaming \subseteq Request
  /\ Disruptions \subseteq {"cancel", "gone_before_body", "gone_mid_body"}

VARIABLES
  step,          \* per call: how far chat_completions() or its stream is
  worker,        \* per call: its engine.assess in the thread pool
  recorded       \* calls whose spend _SpendWindow.record() has folded in

callVars == <<step, worker, recorded>>

gatewayVars == <<admissionVars, callVars>>

GatewayInit ==
  /\ Init
  /\ step = [r \in Request |-> "none"]
  /\ worker = [r \in Request |-> "none"]
  /\ recorded = {}

Become(r, s) == step' = [step EXCEPT ![r] = s]

\* lease.release(): a second call does nothing.
ReleaseOnce(r) ==
  IF stage[r] = "held" THEN Release(r) ELSE UNCHANGED admissionVars

-----------------------------------------------------------------------------
InPreflight(r) == stage[r] = "held" /\ step[r] = "none"

\* The prompt is blocked, or preflight, generate() or Interaction() raises.
PreflightEnds(r) ==
  /\ InPreflight(r)
  /\ ReleaseOnce(r)
  /\ Become(r, "refused")
  /\ UNCHANGED <<worker, recorded>>

\* A stream is handed to the server; otherwise the assessment is submitted.
PreflightAllows(r) ==
  /\ InPreflight(r)
  /\ IF r \in Streaming
     THEN Become(r, "handed") /\ UNCHANGED worker
     ELSE /\ Become(r, "assessing")
          /\ worker' = [worker EXCEPT ![r] = "submitted"]
  /\ UNCHANGED <<admissionVars, recorded>>

-----------------------------------------------------------------------------
(* engine.assess in a worker thread.                                       *)

WorkerStarts(r) ==
  /\ worker[r] = "submitted"
  /\ worker' = [worker EXCEPT ![r] = "running"]
  /\ UNCHANGED <<admissionVars, step, recorded>>

WorkerEnds(r) ==
  /\ worker[r] = "running"
  /\ \E w \in {"done", "failed"} : worker' = [worker EXCEPT ![r] = w]
  /\ UNCHANGED <<admissionVars, step, recorded>>

Ended(r) == worker[r] \in {"done", "failed"}

-----------------------------------------------------------------------------
(* A JSON call.                                                            *)

\* Faulty variant: the lease is released on the way out of the happy path only.
AssessedNoFinally(r) ==
  /\ step[r] = "assessing" /\ Ended(r)
  /\ IF worker[r] = "done"
     THEN ReleaseOnce(r) /\ Become(r, "answered") /\ recorded' = recorded \cup {r}
     ELSE Become(r, "failed") /\ UNCHANGED <<admissionVars, recorded>>
  /\ UNCHANGED worker

\* finally: lease.release(); then the spend is recorded and the call answered,
\* or what assess raised goes up.
Assessed(r) ==
  /\ step[r] = "assessing" /\ Ended(r)
  /\ ReleaseOnce(r)
  /\ IF worker[r] = "done"
     THEN Become(r, "answered") /\ recorded' = recorded \cup {r}
     ELSE Become(r, "failed") /\ UNCHANGED recorded
  /\ UNCHANGED worker

\* CancelledError in chat_completions(): the lease goes back.  An assessment
\* that has not started is dropped from the pool, one that has runs on.
CancelCall(r) ==
  /\ "cancel" \in Disruptions
  /\ InPreflight(r) \/ step[r] = "assessing"
  /\ ReleaseOnce(r)
  /\ Become(r, "cancelled")
  /\ worker' = [worker EXCEPT ![r] = IF @ = "submitted" THEN "none" ELSE @]
  /\ UNCHANGED recorded

-----------------------------------------------------------------------------
(* A streamed call.                                                        *)

\* The server asks for the first chunk: the generator creates the assessment.
StartBody(r) ==
  /\ step[r] = "handed"
  /\ Become(r, "streaming")
  /\ worker' = [worker EXCEPT ![r] = "submitted"]
  /\ UNCHANGED <<admissionVars, recorded>>

\* The connection is gone before the first chunk: the generator never runs.
DropBody(r) ==
  /\ "gone_before_body" \in Disruptions
  /\ step[r] = "handed"
  /\ Become(r, "unserved")
  /\ UNCHANGED <<admissionVars, worker, recorded>>

\* The tokens are sent; await asyncio.shield(assessment).
LastToken(r) ==
  /\ step[r] = "streaming"
  /\ Become(r, "tail")
  /\ UNCHANGED <<admissionVars, worker, recorded>>

\* Faulty variant: the generator's cleanup releases the lease.
DropStreamReleasing(r) ==
  /\ "gone_mid_body" \in Disruptions
  /\ step[r] \in {"streaming", "tail"}
  /\ ReleaseOnce(r)
  /\ Become(r, "dropped")
  /\ UNCHANGED <<worker, recorded>>

\* The client goes: the generator is closed, its assessment is not.
DropStream(r) ==
  /\ "gone_mid_body" \in Disruptions
  /\ step[r] \in {"streaming", "tail"}
  /\ Become(r, "dropped")
  /\ UNCHANGED <<admissionVars, worker, recorded>>

\* Done callback of the assessment task.
ReleaseAfterAssessment(r) ==
  /\ r \in Streaming /\ Ended(r) /\ stage[r] = "held"
  /\ Release(r)
  /\ UNCHANGED callVars

\* Faulty variant: only JSON calls record their spend.
EndStreamUnrecorded(r) ==
  /\ step[r] = "tail" /\ Ended(r)
  /\ Become(r, IF worker[r] = "done" THEN "answered" ELSE "failed")
  /\ UNCHANGED <<admissionVars, worker, recorded>>

\* The assessment's result reaches the generator (before or after the
\* callback): the spend is recorded and the decision sent, or the stream breaks.
EndStream(r) ==
  /\ step[r] = "tail" /\ Ended(r)
  /\ IF worker[r] = "done"
     THEN Become(r, "answered") /\ recorded' = recorded \cup {r}
     ELSE Become(r, "failed") /\ UNCHANGED recorded
  /\ UNCHANGED <<admissionVars, worker>>

-----------------------------------------------------------------------------
CancelAdmit(r) ==
  "cancel" \in Disruptions /\ CancelQueued(r) /\ UNCHANGED callVars

RefillBucket(l) == Refill(l) /\ UNCHANGED callVars

\* What the event loop and the thread pool do for a call by themselves.
ServerStep(r) ==
  \/ QueueStep(r) /\ UNCHANGED callVars
  \/ PreflightEnds(r)
  \/ PreflightAllows(r)
  \/ WorkerStarts(r)
  \/ WorkerEnds(r)
  \/ Assessed(r)
  \/ StartBody(r)
  \/ ReleaseAfterAssessment(r)
  \/ EndStream(r)

GatewayNext ==
  \/ \E r \in Request :
       \/ Arrive(r) /\ UNCHANGED callVars
       \/ ServerStep(r)
       \/ LastToken(r)
       \/ CancelAdmit(r)
       \/ CancelCall(r)
       \/ DropBody(r)
       \/ DropStream(r)
  \/ \E l \in Lane : RefillBucket(l)

GatewaySpec == GatewayInit /\ [][GatewayNext]_gatewayVars

\* Every ready task and thread runs and every assessment ends (detectors are
\* bounded computations; a judge call has a timeout).  Clients owe nothing.
FairGateway ==
  GatewaySpec /\ \A r \in Request : WF_gatewayVars(ServerStep(r))

-----------------------------------------------------------------------------
(* Properties.                                                             *)

\* README, admission control: bounded lanes.  A lane never has more assessments
\* in the thread pool than its concurrency, whatever clients do to their
\* connections.  (The assessment of a JSON call that is cancelled while it runs
\* goes on without a lease.)
LaneBoundsAssessments ==
  \A l \in Lane :
    Cardinality({r \in Request : /\ lane[r] = l /\ step[r] # "cancelled"
                               /\ worker[r] \in {"submitted", "running"}})
      <= Concurrency[l]

\* Every lease the gateway is given goes back to its lane.
EveryLeaseReturns ==
  \A r \in Request : stage[r] = "held" ~> stage[r] = "released"

\* What holds: whatever raises, is cancelled, stalls or disconnects, a lease goes
\* back, except that of a stream nobody began to read.
ServedLeaseReturns ==
  \A r \in Request :
    stage[r] = "held" ~> stage[r] = "released" \/ step[r] = "unserved"

\* _SpendWindow: realised spend is fed back to the shadow price, for every
\* assessment that was decided and paid for, unless the client
\* reads no further or is gone, or the handler was cancelled.
AttendedSpendReachesController ==
  \A r \in Request :
    worker[r] = "done" /\ step[r] \notin {"streaming", "dropped", "cancelled"}
      ~> r \in recorded \/ step[r] \in {"dropped", "cancelled"}
=============================================================================
