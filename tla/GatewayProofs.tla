--------------------------- MODULE GatewayProofs ----------------------------
(***************************************************************************)
(* Proofs about Admission and about Gateway, which uses it.  The permits   *)
(* and the counters of both lanes balance for any number of requests, any  *)
(* bounds, and every race of a grant with a timeout, a cancellation or a   *)
(* release.  A call does to the admission of its route only what Admission *)
(* allows, so the accounts hold for every call the gateway serves, and the *)
(* assessments in the thread pool stay within the concurrency of their     *)
(* lane.                                                                   *)
(***************************************************************************)
EXTENDS Gateway, DegradedPrice, Arithmetic

Stages == QueueStages \cup {"new", "held", "rejected", "cancelled", "released"}
Futures == {"none", "pending", "granted", "cancelled"}

Typed ==
  /\ stage \in [Request -> Stages]
  /\ lane \in [Request -> Lane \cup {NoLane}]
  /\ fut \in [Request -> Futures]
  /\ value \in [Lane -> Nat]
  /\ waiters \in [Lane -> Seq(Request)]
  /\ active \in [Lane -> Int] /\ maxActive \in [Lane -> Int]
  /\ queued \in [Lane -> Int] /\ maxQueued \in [Lane -> Int]

\* Whoever queues or holds a permit does so in a lane, and only those that
\* wait for a future, or have to drop one, have one.
Placed ==
  \A r \in Request :
    /\ stage[r] \in QueueStages \cup {"held"} => lane[r] \in Lane
    /\ fut[r] # "none" => stage[r] \in {"waiting", "abandoning"}
    /\ stage[r] = "abandoning" => fut[r] # "pending"

\* The deque of a lane holds the futures of its requests, each once.
Deques ==
  /\ \A l \in Lane : \A i \in 1..Len(waiters[l]) :
       /\ fut[waiters[l][i]] # "none" /\ lane[waiters[l][i]] = l
       /\ \A j \in 1..Len(waiters[l]) : waiters[l][i] = waiters[l][j] => i = j
  /\ \A r \in Request : fut[r] # "none" =>
       \E i \in 1..Len(waiters[lane[r]]) : waiters[lane[r]][i] = r

AInv == Typed /\ Placed /\ Deques /\ LaneAccounts

-----------------------------------------------------------------------------
(* Counting.  A step of one request moves one element of each set that is   *)
(* counted, or none.                                                        *)

Ind(b) == IF b THEN 1 ELSE 0

LEMMA OneMoves ==
  ASSUME NEW S, IsFiniteSet(S), NEW T, NEW r, S \ {r} = T \ {r}
  PROVE  /\ IsFiniteSet(T) /\ Cardinality(S) \in Nat /\ Cardinality(T) \in Nat
         /\ Cardinality(T) = Cardinality(S) - Ind(r \in S) + Ind(r \in T)
<1> DEFINE U == S \ {r}
<1>1. IsFiniteSet(U) /\ Cardinality(S) \in Nat
      /\ Cardinality(U) = Cardinality(S) - Ind(r \in S)
  BY FS_RemoveElement, FS_CardinalityType DEF Ind
<1>2. Cardinality(U) \in Nat
  BY <1>1, FS_CardinalityType
<1>3. CASE r \in T
  <2>1. T = U \cup {r} /\ r \notin U
    BY <1>3
  <2>2. IsFiniteSet(T) /\ Cardinality(T) = Cardinality(U) + 1
    BY <1>1, <2>1, FS_AddElement
  <2> QED BY <1>1, <1>2, <1>3, <2>2 DEF Ind
<1>4. CASE r \notin T
  <2>1. T = U
    BY <1>4
  <2> QED BY <1>1, <1>2, <1>4, <2>1 DEF Ind
<1> QED BY <1>3, <1>4

LEMMA SomeRequests ==
  ASSUME NEW S \in SUBSET Request
  PROVE  IsFiniteSet(S) /\ Cardinality(S) \in Nat
BY AdmissionAssumption, FS_Subset, FS_CardinalityType

\* The requests of lane l in one of the stages S, after a step of request r.
LEMMA StageMoves ==
  ASSUME NEW r \in Request, NEW l, NEW S,
         \A q \in Request : q # r => stage'[q] = stage[q] /\ lane'[q] = lane[q]
  PROVE  Cardinality(On(l, S)') =
           Cardinality(On(l, S)) - Ind(lane[r] = l /\ stage[r] \in S)
             + Ind(lane'[r] = l /\ stage'[r] \in S)
<1> DEFINE A == On(l, S)
           B == On(l, S)'
<1>1. A \in SUBSET Request
  BY DEF On
<1>2. A \ {r} = B \ {r}
  BY DEF On
<1>3. IsFiniteSet(A)
  BY <1>1, SomeRequests
<1>4. Cardinality(B) = Cardinality(A) - Ind(r \in A) + Ind(r \in B)
  <2> HIDE DEF A, B
  <2> QED BY <1>2, <1>3, OneMoves
<1>5. (r \in A <=> lane[r] = l /\ stage[r] \in S)
      /\ (r \in B <=> lane'[r] = l /\ stage'[r] \in S)
  BY DEF On
<1> QED BY <1>4, <1>5 DEF Ind

\* The requests of lane l that hold a grant under futures f.
GrantedUnder(f, l) == {q \in Request : lane[q] = l /\ f[q] = "granted"}

LEMMA GrantMoves ==
  ASSUME NEW r \in Request, NEW l, NEW f, NEW g,
         \A q \in Request : q # r => g[q] = f[q]
  PROVE  /\ Cardinality(GrantedUnder(f, l)) \in Nat
         /\ Cardinality(GrantedUnder(g, l)) =
              Cardinality(GrantedUnder(f, l)) - Ind(lane[r] = l /\ f[r] = "granted")
                + Ind(lane[r] = l /\ g[r] = "granted")
<1> DEFINE A == GrantedUnder(f, l)
           B == GrantedUnder(g, l)
<1>1. A \in SUBSET Request
  BY DEF GrantedUnder
<1>2. A \ {r} = B \ {r}
  BY DEF GrantedUnder
<1>3. IsFiniteSet(A) /\ Cardinality(A) \in Nat
  BY <1>1, SomeRequests
<1>4. Cardinality(B) = Cardinality(A) - Ind(r \in A) + Ind(r \in B)
  <2> HIDE DEF A, B
  <2> QED BY <1>2, <1>3, OneMoves
<1>5. (r \in A <=> lane[r] = l /\ f[r] = "granted")
      /\ (r \in B <=> lane[r] = l /\ g[r] = "granted")
  BY DEF GrantedUnder
<1> QED BY <1>3, <1>4, <1>5 DEF Ind

-----------------------------------------------------------------------------
(* The deque.                                                               *)

Once(s) == \A i, j \in 1..Len(s) : s[i] = s[j] => i = j

\* w is what is left of s when r leaves.
LeftOf(w, s, r) ==
  /\ w \in Seq(Request) /\ Once(w)
  /\ \A j \in 1..Len(w) : \E i \in 1..Len(s) : w[j] = s[i] /\ s[i] # r
  /\ \A i \in 1..Len(s) : s[i] # r => \E j \in 1..Len(w) : w[j] = s[i]

LEMMA WithoutFacts ==
  ASSUME NEW s \in Seq(Request), NEW r \in Request, NEW k \in 1..Len(s), s[k] = r,
         Once(s)
  PROVE  LeftOf(Without(s, r), s, r)
<1> DEFINE n == Len(s)
           w == [j \in 1..(n - 1) |-> IF j < k THEN s[j] ELSE s[j + 1]]
<1>1. n \in Nat /\ DOMAIN s = 1..n /\ \A i \in 1..n : s[i] \in Request
  OBVIOUS
<1>2. (CHOOSE i \in DOMAIN s : s[i] = r) = k
  BY <1>1 DEF Once
<1>3. Without(s, r) = w
  BY <1>2 DEF Without
<1>4. \A j \in 1..(n - 1) : w[j] \in Request
  BY <1>1
<1>5. w \in Seq(Request) /\ Len(w) = n - 1
  BY <1>1, <1>4
<1>6. \A j \in 1..(n - 1) : \E i \in 1..n : w[j] = s[i] /\ s[i] # r
  <2> TAKE j \in 1..(n - 1)
  <2>1. CASE j < k
    <3>1. j \in 1..n /\ j # k /\ w[j] = s[j]
      BY <1>1, <2>1
    <3>2. s[j] # r
      BY <1>1, <3>1 DEF Once
    <3> QED BY <3>1, <3>2
  <2>2. CASE ~(j < k)
    <3>1. j + 1 \in 1..n /\ j + 1 # k /\ w[j] = s[j + 1]
      BY <1>1, <2>2
    <3>2. s[j + 1] # r
      BY <1>1, <3>1 DEF Once
    <3> QED BY <3>1, <3>2
  <2> QED BY <2>1, <2>2
<1>7. \A i, j \in 1..(n - 1) : w[i] = w[j] => i = j
  BY <1>1 DEF Once
<1>8. \A i \in 1..n : s[i] # r => \E j \in 1..(n - 1) : w[j] = s[i]
  <2> SUFFICES ASSUME NEW i \in 1..n, s[i] # r
               PROVE  \E j \in 1..(n - 1) : w[j] = s[i]
    OBVIOUS
  <2>1. CASE i < k
    <3>1. i \in 1..(n - 1) /\ w[i] = s[i]
      BY <1>1, <2>1
    <3> QED BY <3>1
  <2>2. CASE i > k
    <3>1. i - 1 \in 1..(n - 1) /\ ~(i - 1 < k) /\ (i - 1) + 1 = i
      BY <1>1, <2>2
    <3>2. w[i - 1] = s[i]
      BY <3>1
    <3> QED BY <3>1, <3>2
  <2> QED BY <1>1, <2>1, <2>2
<1> HIDE DEF w
<1>9. Once(w)
  BY <1>5, <1>7 DEF Once
<1> QED BY <1>3, <1>5, <1>6, <1>8, <1>9 DEF LeftOf

\* A request that has a future drops it.
LEMMA DequeLeaves ==
  ASSUME Typed, Deques, NEW r \in Request, fut[r] # "none", lane[r] \in Lane,
         LeaveDeque(r), lane' = lane, fut'[r] = "none",
         \A q \in Request : q # r => (fut'[q] = "none" <=> fut[q] = "none")
  PROVE  Deques' /\ waiters' \in [Lane -> Seq(Request)]
<1> DEFINE k == lane[r]
           s == waiters[k]
           w == Without(s, r)
<1>1. s \in Seq(Request) /\ waiters' = [waiters EXCEPT ![k] = w]
  BY DEF Typed, LeaveDeque
<1>2. PICK p \in 1..Len(s) : s[p] = r
  BY DEF Deques
<1>3. Once(s)
  BY DEF Deques, Once
<1>4. LeftOf(w, s, r)
  <2> HIDE DEF s
  <2> QED BY <1>1, <1>2, <1>3, WithoutFacts
<1>5. \A i \in 1..Len(s) : s[i] \in Request /\ fut[s[i]] # "none" /\ lane[s[i]] = k
  <2>1. \A i \in 1..Len(s) : fut[s[i]] # "none" /\ lane[s[i]] = k
    BY DEF Deques
  <2>2. \A i \in 1..Len(s) : s[i] \in Request
    <3> HIDE DEF s
    <3> QED BY <1>1
  <2> QED BY <2>1, <2>2
<1>6. waiters'[k] = w /\ \A l \in Lane : l # k => waiters'[l] = waiters[l]
  BY <1>1 DEF Typed
<1> HIDE DEF w, s
<1>7. waiters' \in [Lane -> Seq(Request)]
  BY <1>1, <1>4 DEF Typed, LeftOf
<1>8. ASSUME NEW l \in Lane, NEW i \in 1..Len(waiters'[l])
      PROVE  /\ fut'[waiters'[l][i]] # "none" /\ lane'[waiters'[l][i]] = l
             /\ \A j \in 1..Len(waiters'[l]) : waiters'[l][i] = waiters'[l][j] => i = j
  <2>1. CASE l = k
    <3>1. i \in 1..Len(w) /\ waiters'[l] = w
      BY <1>6, <1>8, <2>1
    <3>2. PICK m \in 1..Len(s) : w[i] = s[m] /\ s[m] # r
      BY <1>4, <3>1 DEF LeftOf
    <3>3. fut'[w[i]] # "none" /\ lane'[w[i]] = l
      BY <1>5, <2>1, <3>2
    <3>4. \A j \in 1..Len(w) : w[i] = w[j] => i = j
      BY <1>4, <3>1 DEF LeftOf, Once
    <3> QED BY <3>1, <3>3, <3>4
  <2>2. CASE l # k
    <3>1. waiters'[l] = waiters[l] /\ waiters[l] \in Seq(Request)
      BY <1>6, <2>2 DEF Typed
    <3>2. waiters[l][i] \in Request
      BY <1>8, <3>1
    <3>3. waiters[l][i] # r /\ fut[waiters[l][i]] # "none" /\ lane[waiters[l][i]] = l
      BY <1>8, <2>2, <3>1 DEF Deques
    <3>4. \A j \in 1..Len(waiters[l]) : waiters[l][i] = waiters[l][j] => i = j
      BY <1>8, <3>1 DEF Deques
    <3> QED BY <3>1, <3>2, <3>3, <3>4
  <2> QED BY <2>1, <2>2
<1>9. ASSUME NEW q \in Request, fut'[q] # "none"
      PROVE  \E i \in 1..Len(waiters'[lane'[q]]) : waiters'[lane'[q]][i] = q
  <2>1. q # r /\ fut[q] # "none"
    BY <1>9
  <2>2. PICK i \in 1..Len(waiters[lane[q]]) : waiters[lane[q]][i] = q
    BY <2>1 DEF Deques
  <2>3. CASE lane[q] = k
    <3>1. i \in 1..Len(s) /\ s[i] = q
      BY <2>2, <2>3 DEF s
    <3>2. PICK j \in 1..Len(w) : w[j] = q
      BY <1>4, <2>1, <3>1 DEF LeftOf
    <3>3. waiters'[lane'[q]] = w
      BY <1>6, <2>3
    <3> QED BY <3>2, <3>3
  <2>4. CASE lane[q] # k
    <3>1. waiters'[lane[q]] = waiters[lane[q]]
      <4>1. CASE lane[q] \in Lane
        BY <1>6, <2>4, <4>1
      <4>2. CASE lane[q] \notin Lane
        BY <1>1, <2>4, <4>2 DEF Typed
      <4> QED BY <4>1, <4>2
    <3> QED BY <2>2, <3>1
  <2> QED BY <2>3, <2>4
<1> QED BY <1>7, <1>8, <1>9 DEF Deques

\* Nobody drops or gets a future, and nobody who has one changes lanes.
LEMMA DequeStays ==
  ASSUME Typed, Deques, waiters' = waiters,
         \A q \in Request : /\ fut'[q] = "none" <=> fut[q] = "none"
                            /\ fut[q] # "none" => lane'[q] = lane[q]
  PROVE  Deques'
<1>1. \A l \in Lane : \A i \in 1..Len(waiters[l]) : waiters[l][i] \in Request
  BY DEF Typed
<1> QED BY <1>1 DEF Deques

\* _wake_up_next hands a permit on or puts it back: value and grants add up.
LEMMA WakeNextCounts ==
  ASSUME Typed, Deques, NEW k \in Lane, NEW v \in Nat, v > 0,
         NEW f \in [Request -> Futures],
         \A q \in Request : fut[q] = "pending" => f[q] = "pending",
         WakeNext(k, v, f)
  PROVE  /\ value' \in [Lane -> Nat] /\ fut' \in [Request -> Futures]
         /\ \A q \in Request : /\ fut'[q] = "none" <=> f[q] = "none"
                               /\ fut'[q] = "pending" => f[q] = "pending"
         /\ \A l \in Lane :
              value'[l] + Cardinality(GrantedUnder(fut', l)) =
                (IF l = k THEN v ELSE value[l]) + Cardinality(GrantedUnder(f, l))
<1>1. CASE FirstPending(k) = {}
  BY <1>1 DEF WakeNext, Typed
<1>2. CASE FirstPending(k) # {}
  <2>1. PICK i \in FirstPending(k) :
          /\ value' = [value EXCEPT ![k] = v - 1]
          /\ fut' = [f EXCEPT ![waiters[k][i]] = "granted"]
    BY <1>2 DEF WakeNext
  <2> DEFINE p == waiters[k][i]
  <2>2. p \in Request /\ fut[p] = "pending" /\ lane[p] = k
    <3>1. i \in 1..Len(waiters[k]) /\ fut[p] = "pending"
      BY DEF FirstPending, Typed
    <3> QED BY <3>1 DEF Typed, Deques
  <2>3. f[p] = "pending" /\ fut'[p] = "granted"
    BY <2>1, <2>2
  <2> HIDE DEF p
  <2>4. \A q \in Request : q # p => fut'[q] = f[q]
    BY <2>1 DEF p
  <2>5. fut' \in [Request -> Futures] /\ value' \in [Lane -> Nat]
    BY <2>1, <2>2 DEF Typed, Futures, p
  <2>6. ASSUME NEW l \in Lane
        PROVE  value'[l] + Cardinality(GrantedUnder(fut', l)) =
                (IF l = k THEN v ELSE value[l]) + Cardinality(GrantedUnder(f, l))
    <3>1. /\ Cardinality(GrantedUnder(f, l)) \in Nat
          /\ Cardinality(GrantedUnder(fut', l)) =
               Cardinality(GrantedUnder(f, l)) - Ind(lane[p] = l /\ f[p] = "granted")
                 + Ind(lane[p] = l /\ fut'[p] = "granted")
      BY <2>2, <2>4, GrantMoves
    <3>2. Cardinality(GrantedUnder(fut', l)) =
            Cardinality(GrantedUnder(f, l)) + Ind(l = k)
      BY <2>2, <2>3, <3>1 DEF Ind
    <3>3. value'[l] = IF l = k THEN v - 1 ELSE value[l]
      BY <2>1 DEF Typed
    <3>4. value[l] \in Nat
      BY DEF Typed
    <3> QED BY <3>1, <3>2, <3>3, <3>4 DEF Ind
  <2> QED BY <2>2, <2>3, <2>4, <2>5, <2>6
<1> QED BY <1>1, <1>2

-----------------------------------------------------------------------------
(* A step of one request.                                                   *)

Others(r) == \A q \in Request : q # r => stage'[q] = stage[q] /\ lane'[q] = lane[q]

Permits == {"acquired", "held"}

\* The books balance after a step of r if, in each lane, every number moves
\* by as much as the set it counts.
LEMMA BooksBalance ==
  ASSUME AInv, Typed', NEW r \in Request, Others(r),
         \A l \in Lane :
           /\ value'[l] + Cardinality(Granted(l)')
                + Ind(lane'[r] = l /\ stage'[r] \in Permits) =
              value[l] + Cardinality(Granted(l)) + Ind(lane[r] = l /\ stage[r] \in Permits)
           /\ active'[l] - Ind(lane'[r] = l /\ stage'[r] \in {"held"}) =
              active[l] - Ind(lane[r] = l /\ stage[r] \in {"held"})
           /\ queued'[l] - Ind(lane'[r] = l /\ stage'[r] \in QueueStages) =
              queued[l] - Ind(lane[r] = l /\ stage[r] \in QueueStages)
           /\ maxActive'[l] = maxActive[l] \/ maxActive'[l] = active'[l]
           /\ maxQueued'[l] <= QueueCapacity[l]
  PROVE  LaneAccounts'
<1> SUFFICES ASSUME NEW l \in Lane
             PROVE  PermitsConserved(l)' /\ CountersAreTrue(l)'
  BY DEF LaneAccounts
<1> DEFINE both == Cardinality(On(l, Permits))
           bothNext == Cardinality(On(l, Permits)')
           held == Cardinality(On(l, {"held"}))
           heldNext == Cardinality(On(l, {"held"})')
           wait == Cardinality(On(l, QueueStages))
           waitNext == Cardinality(On(l, QueueStages)')
           due == Cardinality(Granted(l))
           dueNext == Cardinality(Granted(l)')
<1>1. /\ bothNext = both - Ind(lane[r] = l /\ stage[r] \in Permits)
                         + Ind(lane'[r] = l /\ stage'[r] \in Permits)
      /\ heldNext = held - Ind(lane[r] = l /\ stage[r] \in {"held"})
                         + Ind(lane'[r] = l /\ stage'[r] \in {"held"})
      /\ waitNext = wait - Ind(lane[r] = l /\ stage[r] \in QueueStages)
                         + Ind(lane'[r] = l /\ stage'[r] \in QueueStages)
  BY StageMoves DEF Others
<1>2. /\ both \in Nat /\ held \in Nat /\ wait \in Nat /\ due \in Nat
      /\ bothNext \in Nat /\ heldNext \in Nat /\ waitNext \in Nat /\ dueNext \in Nat
  <2>1. /\ On(l, Permits) \in SUBSET Request /\ On(l, {"held"}) \in SUBSET Request
        /\ On(l, QueueStages) \in SUBSET Request /\ Granted(l) \in SUBSET Request
        /\ On(l, Permits)' \in SUBSET Request /\ On(l, {"held"})' \in SUBSET Request
        /\ On(l, QueueStages)' \in SUBSET Request /\ Granted(l)' \in SUBSET Request
    BY DEF On, Granted
  <2> QED BY <2>1, SomeRequests
<1>3. heldNext <= bothNext
  <2>1. On(l, {"held"})' \subseteq On(l, Permits)' /\ On(l, Permits)' \in SUBSET Request
    BY DEF On, Permits
  <2>2. IsFiniteSet(On(l, Permits)')
    BY <2>1, SomeRequests
  <2> QED BY <2>1, <2>2, FS_Subset
<1>4. /\ value[l] + both + due = Concurrency[l] /\ active[l] = held /\ queued[l] = wait
      /\ maxActive[l] <= Concurrency[l]
  BY DEF AInv, LaneAccounts, PermitsConserved, CountersAreTrue, Permits
<1>5. /\ value[l] \in Nat /\ value'[l] \in Nat /\ active'[l] \in Int /\ queued'[l] \in Int
      /\ active[l] \in Int /\ queued[l] \in Int
      /\ maxActive[l] \in Int /\ maxQueued[l] \in Int /\ Concurrency[l] \in Nat
      /\ QueueCapacity[l] \in Nat
  BY AdmissionAssumption DEF AInv, Typed
<1>6. /\ value'[l] + dueNext + Ind(lane'[r] = l /\ stage'[r] \in Permits) =
           value[l] + due + Ind(lane[r] = l /\ stage[r] \in Permits)
      /\ active'[l] - Ind(lane'[r] = l /\ stage'[r] \in {"held"}) =
           active[l] - Ind(lane[r] = l /\ stage[r] \in {"held"})
      /\ queued'[l] - Ind(lane'[r] = l /\ stage'[r] \in QueueStages) =
           queued[l] - Ind(lane[r] = l /\ stage[r] \in QueueStages)
      /\ maxActive'[l] = maxActive[l] \/ maxActive'[l] = active'[l]
      /\ maxQueued'[l] <= QueueCapacity[l]
  OBVIOUS
<1> HIDE DEF both, bothNext, held, heldNext, wait, waitNext, due, dueNext
<1>7. value'[l] + bothNext + dueNext = Concurrency[l]
  BY <1>1, <1>2, <1>4, <1>5, <1>6 DEF Ind
<1>8. active'[l] = heldNext /\ queued'[l] = waitNext
  BY <1>1, <1>2, <1>4, <1>5, <1>6 DEF Ind
<1>9. maxActive'[l] <= Concurrency[l]
  BY <1>2, <1>3, <1>4, <1>5, <1>6, <1>7, <1>8
<1> QED BY <1>6, <1>7, <1>8, <1>9
        DEF PermitsConserved, CountersAreTrue, Permits, bothNext, heldNext, waitNext, dueNext

\* A grant is a grant whatever lane the others are in.
LEMMA SameGrants ==
  ASSUME NEW r \in Request, Others(r), fut' = fut, fut[r] # "granted", NEW l
  PROVE  Granted(l)' = Granted(l)
BY DEF Granted, Others

\* The counts of a lane are those of the requests it holds.
LEMMA QueueWithin ==
  ASSUME AInv, NEW l \in Lane
  PROVE  /\ queued[l] \in Int /\ maxQueued[l] \in Int /\ QueueCapacity[l] \in Nat
         /\ maxQueued[l] <= QueueCapacity[l]
BY AdmissionAssumption DEF AInv, Typed, LaneAccounts, CountersAreTrue

-----------------------------------------------------------------------------
(* Requests that take a lane, or none.                                      *)

\* Where admit() tries a lane from: on arrival, or out of the queue of left.
Tries(r, left) ==
  \/ stage[r] = "new" /\ left = NoLane
  \/ stage[r] = "abandoned" /\ left = lane[r] /\ left \in Lane

LEMMA NoFuture ==
  ASSUME AInv, NEW r \in Request, stage[r] \notin {"waiting", "abandoning"}
  PROVE  fut[r] = "none"
BY DEF AInv, Placed

LEMMA EnterKeeps ==
  ASSUME AInv, NEW r \in Request, NEW passed, NEW l \in Lane, NEW left, l # left,
         Tries(r, left), Enter(r, passed, l, left)
  PROVE  AInv'
<1>1. fut[r] = "none"
  BY NoFuture DEF Tries
<1>2. fut' = fut /\ waiters' = waiters
  BY DEF Enter, semVars
<1>3. \/ /\ Locked(l) /\ queued[l] < QueueCapacity[l]
         /\ stage' = [stage EXCEPT ![r] = "starting"]
         /\ queued' = [k \in Lane |-> IF k = left THEN queued[k] - 1
                                       ELSE IF k = l THEN queued[k] + 1
                                       ELSE queued[k]]
         /\ maxQueued' = [maxQueued EXCEPT ![l] = Max2(@, queued[l] + 1)]
         /\ UNCHANGED <<value, active, maxActive>>
      \/ /\ value[l] # 0
         /\ stage' = [stage EXCEPT ![r] = "held"]
         /\ value' = [value EXCEPT ![l] = @ - 1]
         /\ active' = [active EXCEPT ![l] = @ + 1]
         /\ maxActive' = [maxActive EXCEPT ![l] = Max2(@, active[l] + 1)]
         /\ queued' = [k \in Lane |-> IF k = left THEN queued[k] - 1 ELSE queued[k]]
         /\ maxQueued' = maxQueued
  <2>1. CASE Locked(l)
    <3>1. ~(queued[l] >= QueueCapacity[l])
      BY <2>1 DEF Enter, Refuses, Full
    <3>2. queued[l] < QueueCapacity[l]
      BY <3>1, QueueWithin
    <3> QED BY <2>1, <3>2 DEF Enter, semVars, countVars
  <2>2. CASE ~Locked(l)
    BY <2>2 DEF Enter, Locked, Hold
  <2> QED BY <2>1, <2>2
<1>4. lane' = [lane EXCEPT ![r] = l]
  BY DEF Enter
<1>5. Typed'
  <2>1. lane' \in [Request -> Lane \cup {NoLane}] /\ fut' \in [Request -> Futures]
        /\ waiters' \in [Lane -> Seq(Request)]
    BY <1>2, <1>4 DEF AInv, Typed
  <2>2. stage' \in [Request -> Stages]
    BY <1>3 DEF AInv, Typed, Stages, QueueStages
  <2>3. /\ value \in [Lane -> Nat] /\ active \in [Lane -> Int] /\ queued \in [Lane -> Int]
        /\ maxActive \in [Lane -> Int] /\ maxQueued \in [Lane -> Int]
    BY DEF AInv, Typed
  <2>4. value' \in [Lane -> Nat] /\ active' \in [Lane -> Int] /\ queued' \in [Lane -> Int]
    BY <1>3, <2>3
  <2>5. maxActive' \in [Lane -> Int] /\ maxQueued' \in [Lane -> Int]
    BY <1>3, <2>3 DEF Max2
  <2> QED BY <2>1, <2>2, <2>4, <2>5 DEF Typed
<1>6. Placed'
  BY <1>1, <1>2, <1>3, <1>4 DEF AInv, Typed, Placed
<1>7. Deques'
  <2>1. \A q \in Request : fut[q] # "none" => lane'[q] = lane[q]
    BY <1>1, <1>4 DEF AInv, Typed
  <2> QED BY <1>2, <2>1, DequeStays DEF AInv
<1>8. Others(r) /\ \A k \in Lane : Granted(k)' = Granted(k)
  <2>1. Others(r)
    BY <1>3, <1>4 DEF AInv, Typed, Others
  <2> QED BY <1>1, <1>2, <2>1, SameGrants
<1>9. ASSUME NEW k \in Lane
      PROVE  /\ value'[k] + Ind(lane'[r] = k /\ stage'[r] \in Permits) =
                value[k] + Ind(lane[r] = k /\ stage[r] \in Permits)
             /\ active'[k] - Ind(lane'[r] = k /\ stage'[r] \in {"held"}) =
                active[k] - Ind(lane[r] = k /\ stage[r] \in {"held"})
             /\ queued'[k] - Ind(lane'[r] = k /\ stage'[r] \in QueueStages) =
                queued[k] - Ind(lane[r] = k /\ stage[r] \in QueueStages)
             /\ maxActive'[k] = maxActive[k] \/ maxActive'[k] = active'[k]
             /\ maxQueued'[k] <= QueueCapacity[k]
  <2>1. /\ lane'[r] = l /\ value[k] \in Nat /\ active[k] \in Int /\ maxActive[k] \in Int
        /\ queued[k] \in Int /\ maxQueued[k] \in Int /\ QueueCapacity[k] \in Nat
        /\ maxQueued[k] <= QueueCapacity[k]
    BY <1>4, QueueWithin DEF AInv, Typed
  <2>2. /\ stage[r] \notin Permits /\ stage[r] # "held"
        /\ left = k <=> (lane[r] = k /\ stage[r] \in QueueStages)
    BY AdmissionAssumption DEF Tries, Permits, QueueStages
  <2>3. CASE Locked(l) /\ stage' = [stage EXCEPT ![r] = "starting"]
             /\ queued[l] < QueueCapacity[l]
             /\ queued' = [j \in Lane |-> IF j = left THEN queued[j] - 1
                                       ELSE IF j = l THEN queued[j] + 1
                                       ELSE queued[j]]
             /\ maxQueued' = [maxQueued EXCEPT ![l] = Max2(@, queued[l] + 1)]
             /\ UNCHANGED <<value, active, maxActive>>
    <3>1. stage'[r] = "starting" /\ maxQueued \in [Lane -> Int]
      BY <2>3 DEF AInv, Typed
    <3>2. maxQueued'[k] <= QueueCapacity[k]
      BY <2>1, <2>3, <3>1, QueueWithin DEF Max2
    <3>3. queued'[k] - Ind(l = k) = queued[k] - Ind(left = k)
      BY <2>1, <2>3 DEF Ind
    <3> QED BY <2>1, <2>2, <2>3, <3>1, <3>2, <3>3 DEF Ind, Permits, QueueStages
  <2>4. CASE value[l] # 0
         /\ stage' = [stage EXCEPT ![r] = "held"]
         /\ value' = [value EXCEPT ![l] = @ - 1]
         /\ active' = [active EXCEPT ![l] = @ + 1]
         /\ maxActive' = [maxActive EXCEPT ![l] = Max2(@, active[l] + 1)]
         /\ queued' = [j \in Lane |-> IF j = left THEN queued[j] - 1 ELSE queued[j]]
         /\ maxQueued' = maxQueued
    <3>1. stage'[r] = "held" /\ maxActive \in [Lane -> Int] /\ active \in [Lane -> Int]
          /\ value \in [Lane -> Nat]
      BY <2>4 DEF AInv, Typed
    <3>2. maxActive'[k] = maxActive[k] \/ maxActive'[k] = active'[k]
      BY <2>1, <2>4, <3>1 DEF Max2
    <3>3. queued'[k] = queued[k] - Ind(left = k)
      BY <2>1, <2>4 DEF Ind
    <3>4. value'[k] = value[k] - Ind(l = k) /\ active'[k] = active[k] + Ind(l = k)
      BY <2>1, <2>4, <3>1 DEF Ind
    <3> QED BY <2>1, <2>2, <2>4, <3>1, <3>2, <3>3, <3>4 DEF Ind, Permits, QueueStages
  <2> QED BY <1>3, <2>3, <2>4
<1>10. LaneAccounts'
  <2>1. \A k \in Lane : value[k] \in Nat /\ value'[k] \in Nat
    BY <1>5 DEF AInv, Typed
  <2>2. \A k \in Lane : Cardinality(Granted(k)) \in Nat
    <3>1. \A k \in Lane : Granted(k) \in SUBSET Request
      BY DEF Granted
    <3> QED BY <3>1, SomeRequests
  <2>3. \A k \in Lane :
          value'[k] + Cardinality(Granted(k)') + Ind(lane'[r] = k /\ stage'[r] \in Permits) =
          value[k] + Cardinality(Granted(k)) + Ind(lane[r] = k /\ stage[r] \in Permits)
    BY <1>8, <1>9, <2>1, <2>2 DEF Ind
  <2> QED BY <1>5, <1>8, <1>9, <2>3, BooksBalance
<1> QED BY <1>5, <1>6, <1>7, <1>10 DEF AInv

LEMMA RejectKeeps ==
  ASSUME AInv, NEW r \in Request, NEW passed, NEW left, Tries(r, left),
         Reject(r, passed, left)
  PROVE  AInv'
<1>1. fut[r] = "none"
  BY NoFuture DEF Tries
<1>2. /\ UNCHANGED <<fut, waiters, value, active, maxActive, maxQueued>>
      /\ stage' = [stage EXCEPT ![r] = "rejected"]
      /\ lane' = [lane EXCEPT ![r] = NoLane]
      /\ queued' = [k \in Lane |-> IF k = left THEN queued[k] - 1 ELSE queued[k]]
  BY DEF Reject, semVars
<1>3. Typed'
  BY <1>2 DEF AInv, Typed, Stages
<1>4. Placed'
  BY <1>1, <1>2 DEF AInv, Typed, Placed, QueueStages
<1>5. Deques'
  <2>1. \A q \in Request : fut[q] # "none" => lane'[q] = lane[q]
    BY <1>1, <1>2 DEF AInv, Typed
  <2> QED BY <1>2, <2>1, DequeStays DEF AInv
<1>6. Others(r) /\ \A k \in Lane : Granted(k)' = Granted(k)
  <2>1. Others(r)
    BY <1>2 DEF AInv, Typed, Others
  <2> QED BY <1>1, <1>2, <2>1, SameGrants
<1>7. ASSUME NEW k \in Lane
      PROVE  /\ value'[k] + Cardinality(Granted(k)')
                  + Ind(lane'[r] = k /\ stage'[r] \in Permits) =
                value[k] + Cardinality(Granted(k)) + Ind(lane[r] = k /\ stage[r] \in Permits)
             /\ active'[k] - Ind(lane'[r] = k /\ stage'[r] \in {"held"}) =
                active[k] - Ind(lane[r] = k /\ stage[r] \in {"held"})
             /\ queued'[k] - Ind(lane'[r] = k /\ stage'[r] \in QueueStages) =
                queued[k] - Ind(lane[r] = k /\ stage[r] \in QueueStages)
             /\ maxQueued'[k] <= QueueCapacity[k]
  <2>1. stage[r] \notin Permits /\ stage[r] # "held" /\ stage'[r] = "rejected"
    BY <1>2 DEF AInv, Typed, Tries, Permits
  <2>3. left = k <=> (lane[r] = k /\ stage[r] \in QueueStages)
    BY AdmissionAssumption DEF Tries, QueueStages
  <2>2. queued'[k] = queued[k] - Ind(left = k) /\ queued[k] \in Int
    BY <1>2, QueueWithin DEF Ind
  <2> QED BY <1>2, <1>6, <2>1, <2>2, <2>3, QueueWithin DEF Ind, Permits, QueueStages
<1>8. LaneAccounts'
  BY <1>2, <1>3, <1>6, <1>7, BooksBalance
<1> QED BY <1>3, <1>4, <1>5, <1>8 DEF AInv

-----------------------------------------------------------------------------
(* What the event loop does for a queued request.                           *)

LEMMA CountIsNat ==
  ASSUME NEW l PROVE Cardinality(Granted(l)) \in Nat
<1>1. Granted(l) \in SUBSET Request
  BY DEF Granted
<1> QED BY <1>1, SomeRequests

\* r drops its future while its lane has v permits to hand on.
LEMMA DropsFuture ==
  ASSUME AInv, NEW r \in Request, lane[r] \in Lane, lane' = lane, NEW v \in Nat,
         fut[r] # "pending",
         \/ v > 0 /\ WakeNext(lane[r], v, [fut EXCEPT ![r] = "none"])
         \/ fut' = [fut EXCEPT ![r] = "none"] /\ value' = [value EXCEPT ![lane[r]] = v]
  PROVE  /\ value' \in [Lane -> Nat] /\ fut' \in [Request -> Futures]
         /\ fut'[r] = "none"
         /\ \A q \in Request : /\ q # r => (fut'[q] = "none" <=> fut[q] = "none")
                               /\ fut'[q] = "pending" => fut[q] = "pending"
         /\ \A k \in Lane :
              value'[k] + Cardinality(Granted(k)') =
                (IF k = lane[r] THEN v ELSE value[k]) + Cardinality(Granted(k))
                  - Ind(k = lane[r] /\ fut[r] = "granted")
<1> DEFINE f == [fut EXCEPT ![r] = "none"]
<1>1. /\ Typed /\ Deques /\ fut \in [Request -> Futures] /\ value \in [Lane -> Nat]
  BY DEF AInv, Typed
<1>2. /\ f \in [Request -> Futures] /\ f[r] = "none"
      /\ \A q \in Request : q # r => f[q] = fut[q]
  BY <1>1 DEF Futures
<1>3. \A q \in Request : fut[q] = "pending" => f[q] = "pending"
  BY <1>2
<1> HIDE DEF f
<1>4. /\ value' \in [Lane -> Nat] /\ fut' \in [Request -> Futures]
      /\ \A q \in Request : /\ fut'[q] = "none" <=> f[q] = "none"
                            /\ fut'[q] = "pending" => f[q] = "pending"
      /\ \A k \in Lane :
           value'[k] + Cardinality(GrantedUnder(fut', k)) =
             (IF k = lane[r] THEN v ELSE value[k]) + Cardinality(GrantedUnder(f, k))
  <2>1. CASE v > 0 /\ WakeNext(lane[r], v, f)
    BY <1>1, <1>2, <1>3, <2>1, WakeNextCounts
  <2>2. CASE fut' = f /\ value' = [value EXCEPT ![lane[r]] = v]
    BY <1>1, <1>2, <2>2
  <2> QED BY <2>1, <2>2 DEF f
<1>5. ASSUME NEW k \in Lane
      PROVE  value'[k] + Cardinality(Granted(k)') =
                (IF k = lane[r] THEN v ELSE value[k]) + Cardinality(Granted(k))
                  - Ind(k = lane[r] /\ fut[r] = "granted")
  <2>1. /\ Cardinality(GrantedUnder(fut, k)) \in Nat
        /\ Cardinality(GrantedUnder(f, k)) =
             Cardinality(GrantedUnder(fut, k)) - Ind(lane[r] = k /\ fut[r] = "granted")
               + Ind(lane[r] = k /\ f[r] = "granted")
    BY <1>2, GrantMoves
  <2>2. Granted(k) = GrantedUnder(fut, k) /\ Granted(k)' = GrantedUnder(fut', k)
    BY DEF Granted, GrantedUnder
  <2>3. value'[k] \in Nat /\ value[k] \in Nat
    BY <1>1, <1>4
  <2> QED BY <1>2, <1>4, <2>1, <2>2, <2>3 DEF Ind
<1> QED BY <1>2, <1>4, <1>5

LEMMA StartWaitKeeps ==
  ASSUME AInv, NEW r \in Request, StartWait(r) PROVE AInv'
<1> DEFINE l == lane[r]
<1>1. /\ fut[r] = "none" /\ l \in Lane /\ stage[r] = "starting"
  BY NoFuture DEF StartWait, AInv, Placed, QueueStages
<1>2. UNCHANGED <<lane, active, maxActive, queued, maxQueued>>
  BY DEF StartWait, countVars, queueVars
<1>3. CASE Locked(l)
  <2>1. /\ waiters' = [waiters EXCEPT ![l] = Append(@, r)]
        /\ fut' = [fut EXCEPT ![r] = "pending"]
        /\ stage' = [stage EXCEPT ![r] = "waiting"]
        /\ value' = value
    BY <1>3 DEF StartWait
  <2>2. Typed'
    BY <1>1, <1>2, <2>1 DEF AInv, Typed, Stages, QueueStages, Futures
  <2>3. Placed'
    BY <1>1, <1>2, <2>1 DEF AInv, Typed, Placed, QueueStages
  <2>4. /\ \A k \in Lane : waiters[k] \in Seq(Request)
        /\ waiters'[l] = Append(waiters[l], r)
        /\ \A k \in Lane : k # l => waiters'[k] = waiters[k]
        /\ fut'[r] = "pending" /\ \A q \in Request : q # r => fut'[q] = fut[q]
    BY <1>1, <2>1 DEF AInv, Typed
  <2>5. \A k \in Lane : \A i \in 1..Len(waiters[k]) :
           waiters[k][i] \in Request /\ waiters[k][i] # r
    BY <1>1, <2>4 DEF AInv, Deques
  <2>6. ASSUME NEW k \in Lane, NEW i \in 1..Len(waiters'[k])
        PROVE  /\ fut'[waiters'[k][i]] # "none" /\ lane'[waiters'[k][i]] = k
               /\ \A j \in 1..Len(waiters'[k]) : waiters'[k][i] = waiters'[k][j] => i = j
    <3>1. \A j \in 1..Len(waiters[k]) :
            /\ fut'[waiters[k][j]] # "none" /\ lane'[waiters[k][j]] = k
            /\ \A m \in 1..Len(waiters[k]) : waiters[k][j] = waiters[k][m] => j = m
      BY <1>2, <2>4, <2>5 DEF AInv, Deques
    <3>2. CASE k # l
      BY <2>4, <2>6, <3>1, <3>2
    <3>3. CASE k = l
      <4>1. /\ Len(waiters'[k]) = Len(waiters[k]) + 1 /\ waiters'[k][Len(waiters[k]) + 1] = r
            /\ \A j \in 1..Len(waiters[k]) : waiters'[k][j] = waiters[k][j]
            /\ Len(waiters[k]) \in Nat
        BY <2>4, <3>3
      <4>2. fut'[r] # "none" /\ lane'[r] = k
        BY <1>2, <2>4, <3>3
      <4>3. CASE i = Len(waiters[k]) + 1
        <5>1. waiters'[k][i] = r
          BY <4>1, <4>3
        <5>2. ASSUME NEW j \in 1..Len(waiters'[k]), waiters'[k][j] = r
              PROVE  j = i
          <6>1. j \in 1..Len(waiters[k]) \/ j = i
            BY <4>1, <4>3
          <6>2. j \notin 1..Len(waiters[k])
            BY <2>5, <4>1, <5>2
          <6> QED BY <6>1, <6>2
        <5> QED BY <4>2, <5>1, <5>2
      <4>4. CASE i \in 1..Len(waiters[k])
        <5>1. waiters'[k][i] = waiters[k][i] /\ waiters[k][i] # r
          BY <2>5, <4>1, <4>4
        <5>2. fut'[waiters'[k][i]] # "none" /\ lane'[waiters'[k][i]] = k
          BY <3>1, <4>4, <5>1
        <5>3. ASSUME NEW j \in 1..Len(waiters'[k]), waiters'[k][i] = waiters'[k][j]
              PROVE  i = j
          <6>1. j # Len(waiters[k]) + 1
            BY <4>1, <5>1, <5>3
          <6>2. j \in 1..Len(waiters[k])
            BY <4>1, <6>1
          <6>3. waiters[k][i] = waiters[k][j]
            BY <4>1, <5>1, <5>3, <6>2
          <6> QED BY <3>1, <4>4, <6>2, <6>3
        <5> QED BY <5>2, <5>3
      <4>5. i = Len(waiters[k]) + 1 \/ i \in 1..Len(waiters[k])
        BY <2>6, <4>1
      <4> QED BY <4>3, <4>4, <4>5
    <3> QED BY <3>2, <3>3
  <2>7. ASSUME NEW q \in Request, fut'[q] # "none"
        PROVE  \E i \in 1..Len(waiters'[lane'[q]]) : waiters'[lane'[q]][i] = q
    <3>1. CASE q = r
      <4>1. /\ Len(waiters'[l]) = Len(waiters[l]) + 1 /\ waiters'[l][Len(waiters[l]) + 1] = r
            /\ Len(waiters[l]) \in Nat
        BY <1>1, <2>4
      <4> QED BY <1>2, <3>1, <4>1
    <3>2. CASE q # r
      <4>1. PICK i \in 1..Len(waiters[lane[q]]) : waiters[lane[q]][i] = q
        BY <2>4, <2>7, <3>2 DEF AInv, Deques
      <4>2. lane[q] \in Lane
        BY <2>4, <2>7, <3>2 DEF AInv, Placed, QueueStages
      <4>3. i \in 1..Len(waiters'[lane[q]]) /\ waiters'[lane[q]][i] = q
        BY <1>1, <2>4, <4>1, <4>2
      <4> QED BY <1>2, <4>3
    <3> QED BY <3>1, <3>2
  <2>8. Deques'
    BY <2>6, <2>7 DEF Deques
  <2>9. Others(r) /\ \A k \in Lane : Granted(k)' = Granted(k)
    BY <1>1, <1>2, <2>1, <2>4 DEF AInv, Typed, Others, Granted
  <2>10. stage'[r] = "waiting"
    BY <2>1 DEF AInv, Typed
  <2>11. LaneAccounts'
    BY <1>1, <1>2, <2>1, <2>2, <2>9, <2>10, QueueWithin, BooksBalance
       DEF Ind, Permits, QueueStages
  <2> QED BY <2>2, <2>3, <2>8, <2>11 DEF AInv
<1>4. CASE ~Locked(l)
  <2>1. /\ value' = [value EXCEPT ![l] = @ - 1] /\ value[l] # 0
        /\ stage' = [stage EXCEPT ![r] = "acquired"]
        /\ UNCHANGED <<fut, waiters>>
    BY <1>4 DEF StartWait, Locked
  <2>2. value' \in [Lane -> Nat]
    BY <1>1, <2>1 DEF AInv, Typed
  <2>3. Typed'
    BY <1>1, <1>2, <2>1, <2>2 DEF AInv, Typed, Stages, QueueStages
  <2>4. Placed'
    BY <1>1, <1>2, <2>1 DEF AInv, Typed, Placed, QueueStages
  <2>5. Deques'
    BY <1>2, <2>1, DequeStays DEF AInv
  <2>6. Others(r) /\ \A k \in Lane : Granted(k)' = Granted(k)
    BY <1>1, <1>2, <2>1 DEF AInv, Typed, Others, Granted
  <2>7. stage'[r] = "acquired" /\ \A k \in Lane : value[k] \in Nat
        /\ value'[k] = value[k] - Ind(k = l)
    BY <1>1, <2>1 DEF AInv, Typed, Ind
  <2>8. ASSUME NEW k \in Lane
        PROVE  value'[k] + Cardinality(Granted(k)')
                  + Ind(lane'[r] = k /\ stage'[r] \in Permits) =
               value[k] + Cardinality(Granted(k)) + Ind(lane[r] = k /\ stage[r] \in Permits)
    BY <1>1, <1>2, <2>6, <2>7, CountIsNat DEF Ind, Permits
  <2>9. LaneAccounts'
    BY <1>1, <1>2, <2>3, <2>6, <2>7, <2>8, QueueWithin, BooksBalance
       DEF Ind, QueueStages
  <2> QED BY <2>3, <2>4, <2>5, <2>9 DEF AInv
<1> QED BY <1>3, <1>4

\* Wake and Abandon: r leaves the deque with v permits to hand on, of which it
\* takes one along if it goes to "acquired".
LEMMA LeavingKeeps ==
  ASSUME AInv, NEW r \in Request, NEW s, NEW v \in Nat,
         \/ s = "acquired" /\ stage[r] = "waiting" /\ fut[r] = "granted" /\ v = value[lane[r]]
         \/ /\ s = "abandoned" /\ stage[r] = "abandoning" /\ fut[r] # "pending"
            /\ v = value[lane[r]] + Ind(fut[r] = "granted"),
         stage' = [stage EXCEPT ![r] = s],
         UNCHANGED <<lane, active, maxActive, queued, maxQueued>>,
         IF fut[r] = "none" THEN waiters' = waiters ELSE LeaveDeque(r),
         \/ v > 0 /\ WakeNext(lane[r], v, [fut EXCEPT ![r] = "none"])
         \/ fut' = [fut EXCEPT ![r] = "none"] /\ value' = [value EXCEPT ![lane[r]] = v]
  PROVE  AInv'
<1>1. lane[r] \in Lane /\ fut[r] # "pending" /\ lane' = lane
  BY DEF AInv, Placed, QueueStages
<1>2. /\ value' \in [Lane -> Nat] /\ fut' \in [Request -> Futures]
      /\ fut'[r] = "none"
      /\ \A q \in Request : /\ q # r => (fut'[q] = "none" <=> fut[q] = "none")
                            /\ fut'[q] = "pending" => fut[q] = "pending"
      /\ \A k \in Lane :
           value'[k] + Cardinality(Granted(k)') =
             (IF k = lane[r] THEN v ELSE value[k]) + Cardinality(Granted(k))
               - Ind(k = lane[r] /\ fut[r] = "granted")
  BY <1>1, DropsFuture
<1>3. Deques' /\ waiters' \in [Lane -> Seq(Request)]
  <2>1. Typed /\ Deques
    BY DEF AInv
  <2>2. CASE fut[r] = "none"
    BY <1>1, <1>2, <2>1, <2>2, DequeStays DEF Typed
  <2>3. CASE fut[r] # "none"
    BY <1>1, <1>2, <2>1, <2>3, DequeLeaves
  <2> QED BY <2>2, <2>3
<1>4. Typed'
  BY <1>1, <1>2, <1>3 DEF AInv, Typed, Stages, QueueStages
<1>5. Placed'
  BY <1>1, <1>2 DEF AInv, Typed, Placed, QueueStages
<1>6. Others(r) /\ stage'[r] = s
  BY <1>1 DEF AInv, Typed, Others
<1>7. ASSUME NEW k \in Lane
      PROVE  value'[k] + Cardinality(Granted(k)') + Ind(lane'[r] = k /\ stage'[r] \in Permits) =
             value[k] + Cardinality(Granted(k)) + Ind(lane[r] = k /\ stage[r] \in Permits)
  <2>1. value[k] \in Nat /\ value'[k] \in Nat /\ value[lane[r]] \in Nat
    BY <1>1, <1>2 DEF AInv, Typed
  <2>2. Cardinality(Granted(k)) \in Nat /\ Cardinality(Granted(k)') \in Nat
    <3>1. Granted(k)' \in SUBSET Request
      BY DEF Granted
    <3> QED BY <3>1, SomeRequests, CountIsNat
  <2>3. value'[k] + Cardinality(Granted(k)') =
             (IF k = lane[r] THEN v ELSE value[k]) + Cardinality(Granted(k))
               - Ind(k = lane[r] /\ fut[r] = "granted")
    BY <1>2
  <2> QED BY <1>1, <1>6, <2>1, <2>2, <2>3 DEF Ind, Permits
<1>8. LaneAccounts'
  BY <1>1, <1>4, <1>6, <1>7, QueueWithin, BooksBalance DEF Ind, QueueStages
<1> QED BY <1>3, <1>4, <1>5, <1>8 DEF AInv

LEMMA WakeKeeps ==
  ASSUME AInv, NEW r \in Request, Wake(r) PROVE AInv'
<1>1. /\ lane[r] \in Lane /\ stage[r] = "waiting" /\ fut[r] = "granted"
      /\ value[lane[r]] \in Nat /\ value = [value EXCEPT ![lane[r]] = value[lane[r]]]
  BY DEF Wake, AInv, Placed, Typed, QueueStages
<1>2. \/ value[lane[r]] > 0 /\ WakeNext(lane[r], value[lane[r]], [fut EXCEPT ![r] = "none"])
      \/ /\ fut' = [fut EXCEPT ![r] = "none"]
         /\ value' = [value EXCEPT ![lane[r]] = value[lane[r]]]
  BY <1>1 DEF Wake
<1> QED BY <1>1, <1>2, LeavingKeeps DEF Wake, countVars, queueVars

LEMMA AbandonKeeps ==
  ASSUME AInv, NEW r \in Request, Abandon(r) PROVE AInv'
<1>1. /\ lane[r] \in Lane /\ stage[r] = "abandoning" /\ fut[r] # "pending"
      /\ value[lane[r]] \in Nat /\ value = [value EXCEPT ![lane[r]] = value[lane[r]]]
  BY DEF Abandon, AInv, Placed, Typed, QueueStages
<1> DEFINE v == value[lane[r]] + Ind(fut[r] = "granted")
<1>2. /\ v \in Nat
      /\ \/ v > 0 /\ WakeNext(lane[r], v, [fut EXCEPT ![r] = "none"])
         \/ fut' = [fut EXCEPT ![r] = "none"] /\ value' = [value EXCEPT ![lane[r]] = v]
  BY <1>1 DEF Abandon, Ind
<1>3. /\ stage' = [stage EXCEPT ![r] = "abandoned"]
      /\ UNCHANGED <<lane, active, maxActive, queued, maxQueued>>
      /\ IF fut[r] = "none" THEN waiters' = waiters ELSE LeaveDeque(r)
  BY DEF Abandon, countVars, queueVars
<1> QED BY <1>1, <1>2, <1>3, LeavingKeeps

LEMMA ResumeKeeps ==
  ASSUME AInv, NEW r \in Request, Resume(r) PROVE AInv'
<1> DEFINE l == lane[r]
<1>1. l \in Lane /\ fut[r] = "none" /\ stage[r] = "acquired"
  BY NoFuture DEF Resume, AInv, Placed, QueueStages
<1>2. /\ UNCHANGED <<lane, fut, waiters, value, maxQueued>>
      /\ stage' = [stage EXCEPT ![r] = "held"]
      /\ queued' = [queued EXCEPT ![l] = @ - 1]
      /\ active' = [active EXCEPT ![l] = @ + 1]
      /\ maxActive' = [maxActive EXCEPT ![l] = Max2(@, active[l] + 1)]
  BY DEF Resume, Hold, semVars
<1>3. Typed'
  BY <1>1, <1>2 DEF AInv, Typed, Stages, Max2
<1>4. Placed'
  BY <1>1, <1>2 DEF AInv, Typed, Placed, QueueStages
<1>5. Deques'
  BY <1>2, DequeStays DEF AInv
<1>6. Others(r) /\ stage'[r] = "held" /\ \A k \in Lane : Granted(k)' = Granted(k)
  BY <1>2 DEF AInv, Typed, Others, Granted
<1>7. /\ \A k \in Lane : /\ queued'[k] = queued[k] - Ind(k = l)
                         /\ active'[k] = active[k] + Ind(k = l)
                         /\ maxActive'[k] = maxActive[k] \/ maxActive'[k] = active'[k]
                         /\ value[k] \in Nat /\ active[k] \in Int
  BY <1>1, <1>2 DEF AInv, Typed, Ind, Max2
<1>8. LaneAccounts'
  BY <1>1, <1>2, <1>3, <1>6, <1>7, QueueWithin, CountIsNat, BooksBalance
     DEF Ind, Permits, QueueStages
<1> QED BY <1>3, <1>4, <1>5, <1>8 DEF AInv

LEMMA GiveUpKeeps ==
  ASSUME AInv, NEW r \in Request, NEW c, GiveUp(r, c) PROVE AInv'
<1>1. /\ UNCHANGED <<lane, waiters, value, active, maxActive, queued, maxQueued>>
      /\ stage[r] \in {"starting", "waiting"} /\ lane[r] \in Lane
      /\ stage' = [stage EXCEPT ![r] = "abandoning"]
      /\ fut' = IF fut[r] = "pending" THEN [fut EXCEPT ![r] = "cancelled"] ELSE fut
  BY DEF GiveUp, countVars, queueVars, AInv, Placed, QueueStages
<1>2. \A q \in Request : /\ fut'[q] = "none" <=> fut[q] = "none"
                         /\ fut'[q] = "granted" <=> fut[q] = "granted"
  BY <1>1 DEF AInv, Typed
<1>3. Typed'
  BY <1>1 DEF AInv, Typed, Stages, QueueStages, Futures
<1>4. Placed'
  BY <1>1, <1>2 DEF AInv, Typed, Placed, QueueStages
<1>5. Deques'
  BY <1>1, <1>2, DequeStays DEF AInv
<1>6. Others(r) /\ stage'[r] = "abandoning" /\ \A k \in Lane : Granted(k)' = Granted(k)
  BY <1>1, <1>2 DEF AInv, Typed, Others, Granted
<1>7. LaneAccounts'
  BY <1>1, <1>3, <1>6, QueueWithin, BooksBalance DEF Ind, Permits, QueueStages
<1> QED BY <1>3, <1>4, <1>5, <1>7 DEF AInv

LEMMA ResumeCancelledKeeps ==
  ASSUME AInv, NEW r \in Request, ResumeCancelled(r) PROVE AInv'
<1> DEFINE l == lane[r]
<1>1. l \in Lane /\ fut[r] = "none" /\ stage[r] = "abandoned"
  BY NoFuture DEF ResumeCancelled, AInv, Placed, QueueStages
<1>2. /\ UNCHANGED <<lane, fut, waiters, value, active, maxActive, maxQueued>>
      /\ stage' = [stage EXCEPT ![r] = "cancelled"]
      /\ queued' = [queued EXCEPT ![l] = @ - 1]
  BY DEF ResumeCancelled, semVars, countVars
<1>3. Typed'
  BY <1>1, <1>2 DEF AInv, Typed, Stages
<1>4. Placed'
  BY <1>1, <1>2 DEF AInv, Typed, Placed, QueueStages
<1>5. Deques'
  BY <1>2, DequeStays DEF AInv
<1>6. Others(r) /\ stage'[r] = "cancelled" /\ \A k \in Lane : Granted(k)' = Granted(k)
  BY <1>2 DEF AInv, Typed, Others, Granted
<1>7. \A k \in Lane : queued'[k] = queued[k] - Ind(k = l)
  BY <1>1, <1>2, QueueWithin DEF AInv, Typed, Ind
<1>8. LaneAccounts'
  BY <1>1, <1>2, <1>3, <1>6, <1>7, QueueWithin, BooksBalance
     DEF Ind, Permits, QueueStages
<1> QED BY <1>3, <1>4, <1>5, <1>8 DEF AInv

LEMMA ReleaseKeeps ==
  ASSUME AInv, NEW r \in Request, Release(r) PROVE AInv'
<1> DEFINE l == lane[r]
<1>1. l \in Lane /\ fut[r] = "none" /\ stage[r] = "held" /\ value[l] \in Nat
  BY NoFuture DEF Release, AInv, Placed, Typed
<1>2. /\ UNCHANGED <<lane, waiters, maxActive, queued, maxQueued>>
      /\ stage' = [stage EXCEPT ![r] = "released"]
      /\ active' = [active EXCEPT ![l] = @ - 1]
      /\ fut \in [Request -> Futures] /\ fut = [fut EXCEPT ![r] = "none"]
  BY <1>1 DEF Release, queueVars, AInv, Typed
<1>3. WakeNext(l, value[l] + 1, [fut EXCEPT ![r] = "none"])
  BY <1>2 DEF Release
<1>4. /\ value' \in [Lane -> Nat] /\ fut' \in [Request -> Futures]
      /\ fut'[r] = "none"
      /\ \A q \in Request : /\ q # r => (fut'[q] = "none" <=> fut[q] = "none")
                            /\ fut'[q] = "pending" => fut[q] = "pending"
      /\ \A k \in Lane :
           value'[k] + Cardinality(Granted(k)') =
             (IF k = l THEN value[l] + 1 ELSE value[k]) + Cardinality(Granted(k))
               - Ind(k = l /\ fut[r] = "granted")
  <2> DEFINE v == value[l] + 1
  <2>1. v \in Nat /\ v > 0 /\ fut[r] # "pending" /\ lane' = lane
    BY <1>1, <1>2
  <2>2. v > 0 /\ WakeNext(lane[r], v, [fut EXCEPT ![r] = "none"])
    BY <1>3, <2>1
  <2> HIDE DEF v
  <2>3. /\ value' \in [Lane -> Nat] /\ fut' \in [Request -> Futures]
        /\ fut'[r] = "none"
        /\ \A q \in Request : /\ q # r => (fut'[q] = "none" <=> fut[q] = "none")
                              /\ fut'[q] = "pending" => fut[q] = "pending"
        /\ \A k \in Lane :
             value'[k] + Cardinality(Granted(k)') =
               (IF k = lane[r] THEN v ELSE value[k]) + Cardinality(Granted(k))
                 - Ind(k = lane[r] /\ fut[r] = "granted")
    BY <1>1, <2>1, <2>2, DropsFuture
  <2> QED BY <2>3 DEF v
<1>5. Typed'
  <2>1. value' \in [Lane -> Nat] /\ fut' \in [Request -> Futures]
    BY <1>4
  <2>2. /\ UNCHANGED <<lane, waiters, maxActive, queued, maxQueued>>
        /\ stage' = [stage EXCEPT ![r] = "released"]
        /\ active' = [active EXCEPT ![l] = @ - 1]
    BY <1>2
  <2> QED BY <1>1, <2>1, <2>2 DEF AInv, Typed, Stages
<1>6. Placed'
  BY <1>1, <1>2, <1>4 DEF AInv, Typed, Placed, QueueStages
<1>7. Deques'
  BY <1>1, <1>2, <1>4, DequeStays DEF AInv
<1>8. Others(r) /\ stage'[r] = "released"
  BY <1>2 DEF AInv, Typed, Others
<1>9. ASSUME NEW k \in Lane
      PROVE  value'[k] + Cardinality(Granted(k)') + Ind(lane'[r] = k /\ stage'[r] \in Permits) =
             value[k] + Cardinality(Granted(k)) + Ind(lane[r] = k /\ stage[r] \in Permits)
  <2>1. value[k] \in Nat /\ Cardinality(Granted(k)) \in Nat
    BY CountIsNat DEF AInv, Typed
  <2> QED BY <1>1, <1>2, <1>4, <1>8, <2>1 DEF Ind, Permits
<1>10. \A k \in Lane : active'[k] = active[k] - Ind(k = l) /\ active[k] \in Int
  BY <1>1, <1>2 DEF AInv, Typed, Ind
<1>11. LaneAccounts'
  BY <1>1, <1>2, <1>5, <1>8, <1>9, <1>10, QueueWithin, BooksBalance
     DEF Ind, QueueStages
<1> QED BY <1>5, <1>6, <1>7, <1>11 DEF AInv

\* Refill, a second cancellation and stuttering touch nothing of the above.
LEMMA RestKeeps ==
  ASSUME AInv, UNCHANGED <<stage, lane, semVars, countVars, queueVars>>
  PROVE  AInv'
<1>1. UNCHANGED <<stage, lane, fut, value, waiters, active, maxActive, queued, maxQueued>>
  BY DEF semVars, countVars, queueVars
<1>2. Typed' /\ Placed'
  BY <1>1 DEF AInv, Typed, Placed
<1>3. Deques'
  BY <1>1 DEF AInv, Deques
<1>4. LaneAccounts'
  <2>1. \A l \in Lane : /\ On(l, {"held"})' = On(l, {"held"})
                       /\ On(l, {"acquired", "held"})' = On(l, {"acquired", "held"})
                       /\ On(l, QueueStages)' = On(l, QueueStages)
                       /\ Granted(l)' = Granted(l)
    BY <1>1 DEF On, Granted
  <2>2. LaneAccounts
    BY DEF AInv
  <2> QED BY <1>1, <2>1, <2>2 DEF LaneAccounts, PermitsConserved, CountersAreTrue
<1> QED BY <1>2, <1>3, <1>4 DEF AInv

-----------------------------------------------------------------------------
LEMMA ArriveKeeps ==
  ASSUME AInv, NEW r \in Request, Arrive(r) PROVE AInv'
<1>1. Tries(r, NoLane) /\ NoLane \notin Lane
  BY AdmissionAssumption DEF Arrive, Tries
<1>2. CASE Enter(r, {}, Discretionary, NoLane)
  BY <1>1, <1>2, EnterKeeps DEF Lane
<1>3. CASE Enter(r, {Discretionary}, Mandatory, NoLane)
  BY <1>1, <1>3, EnterKeeps DEF Lane
<1>4. CASE Reject(r, Lane, NoLane)
  BY <1>1, <1>4, RejectKeeps
<1> QED BY <1>2, <1>3, <1>4 DEF Arrive

LEMMA ResumeRefusedKeeps ==
  ASSUME AInv, NEW r \in Request, ResumeRefused(r) PROVE AInv'
<1>1. stage[r] = "abandoned" /\ Discretionary # Mandatory
      /\ Discretionary \in Lane /\ Mandatory \in Lane
  BY AdmissionAssumption DEF ResumeRefused, Lane
<1>2. CASE lane[r] = Discretionary /\ Enter(r, {}, Mandatory, Discretionary)
  BY <1>1, <1>2, EnterKeeps DEF Tries
<1>3. CASE lane[r] = Discretionary /\ Reject(r, {Mandatory}, Discretionary)
  BY <1>1, <1>3, RejectKeeps DEF Tries
<1>4. CASE lane[r] = Mandatory /\ Reject(r, {}, Mandatory)
  BY <1>1, <1>4, RejectKeeps DEF Tries
<1> QED BY <1>2, <1>3, <1>4 DEF ResumeRefused

LEMMA CancelKeeps ==
  ASSUME AInv, NEW r \in Request, CancelQueued(r) PROVE AInv'
<1>1. CASE GiveUp(r, TRUE)
  BY <1>1, GiveUpKeeps
<1>2. CASE UNCHANGED <<stage, lane, semVars, countVars, queueVars, tokens>>
  BY <1>2, RestKeeps
<1> QED BY <1>1, <1>2 DEF CancelQueued

LEMMA InitHolds == Init => AInv
<1> SUFFICES ASSUME Init PROVE AInv
  OBVIOUS
<1>1. Typed /\ Placed
  <2>1. Concurrency \in [Lane -> Nat] /\ <<>> \in Seq(Request)
    BY AdmissionAssumption
  <2> QED BY <2>1 DEF Init, Typed, Placed, Stages, QueueStages, Futures
<1>2. Deques
  BY DEF Init, Deques
<1>3. ASSUME NEW l \in Lane, NEW S, "new" \notin S PROVE On(l, S) = {}
  BY <1>3 DEF On, Init
<1>4. \A l \in Lane : Granted(l) = {}
  BY DEF Granted, Init
<1>5. Cardinality({}) = 0
  BY FS_EmptySet
<1>6. \A l \in Lane : /\ On(l, {"held"}) = {} /\ On(l, {"acquired", "held"}) = {}
                      /\ On(l, QueueStages) = {}
  BY <1>3 DEF QueueStages
<1>7. LaneAccounts
  <2> SUFFICES ASSUME NEW l \in Lane PROVE PermitsConserved(l) /\ CountersAreTrue(l)
    BY DEF LaneAccounts
  <2>1. /\ value[l] = Concurrency[l] /\ active[l] = 0 /\ maxActive[l] = 0
        /\ queued[l] = 0 /\ maxQueued[l] = 0
    BY DEF Init
  <2>2. Concurrency[l] \in Nat /\ QueueCapacity[l] \in Nat
    BY AdmissionAssumption
  <2>3. /\ Cardinality(On(l, {"held"})) = 0
        /\ Cardinality(On(l, {"acquired", "held"})) = 0
        /\ Cardinality(On(l, QueueStages)) = 0 /\ Cardinality(Granted(l)) = 0
    BY <1>4, <1>5, <1>6
  <2> QED BY <2>1, <2>2, <2>3 DEF PermitsConserved, CountersAreTrue
<1> QED BY <1>1, <1>2, <1>7 DEF AInv

LEMMA StepKeeps == AInv /\ [Next]_admissionVars => AInv'
<1> SUFFICES ASSUME AInv, [Next]_admissionVars PROVE AInv'
  OBVIOUS
<1>1. ASSUME NEW r \in Request, Arrive(r) PROVE AInv'
  BY <1>1, ArriveKeeps
<1>2. ASSUME NEW r \in Request, CancelQueued(r) PROVE AInv'
  BY <1>2, CancelKeeps
<1>3. ASSUME NEW r \in Request, QueueStep(r) PROVE AInv'
  <2>1. CASE StartWait(r)
    BY <2>1, StartWaitKeeps
  <2>2. CASE Wake(r)
    BY <2>2, WakeKeeps
  <2>3. CASE Resume(r)
    BY <2>3, ResumeKeeps
  <2>4. CASE Timeout(r)
    BY <2>4, GiveUpKeeps DEF Timeout
  <2>5. CASE Abandon(r)
    BY <2>5, AbandonKeeps
  <2>6. CASE ResumeRefused(r)
    BY <2>6, ResumeRefusedKeeps
  <2>7. CASE ResumeCancelled(r)
    BY <2>7, ResumeCancelledKeeps
  <2> QED BY <1>3, <2>1, <2>2, <2>3, <2>4, <2>5, <2>6, <2>7 DEF QueueStep
<1>4. ASSUME NEW r \in Request, Release(r) PROVE AInv'
  BY <1>4, ReleaseKeeps
<1>5. ASSUME NEW l \in Lane, Refill(l) PROVE AInv'
  BY <1>5, RestKeeps DEF Refill
<1>6. CASE UNCHANGED admissionVars
  BY <1>6, RestKeeps DEF admissionVars, semVars, countVars, queueVars
<1> QED BY <1>1, <1>2, <1>3, <1>4, <1>5, <1>6 DEF Next, AdmissionStep

\* Whatever races a grant, a timeout, a cancellation and a release run, no permit
\* of a lane is lost or made up, and active and queued count what release() and
\* acquire() take them for, within their bounds.
THEOREM LaneAlwaysAccounts == Spec => []LaneAccounts
<1>1. AInv => LaneAccounts
  BY DEF AInv
<1> QED BY <1>1, InitHolds, StepKeeps, PTL DEF Spec

-----------------------------------------------------------------------------
(* No wake-up is lost.                                                      *)

\* Every nonempty set of naturals has a least element.
LEMMA LeastNat ==
  ASSUME NEW S \in SUBSET Nat, S # {}
  PROVE  \E m \in S : \A n \in S : m <= n
<1> DEFINE R == StrictSubsetOrdering(Nat)
           T == {0..n : n \in S}
<1>1. IsWellFoundedOn(R, FiniteSubsetsOf(Nat))
  BY FS_StrictSubsetOrderingWellFounded
<1>2. T \subseteq FiniteSubsetsOf(Nat) /\ T # {}
  <2>1. ASSUME NEW n \in S PROVE 0..n \in FiniteSubsetsOf(Nat)
    <3>1. n \in Int /\ 0 \in Int
      OBVIOUS
    <3>2. IsFiniteSet(0..n)
      BY <3>1, FS_Interval
    <3> QED BY <3>2 DEF FiniteSubsetsOf
  <2> QED BY <2>1
<1>3. PICK x \in T : \A y \in T : ~(<<y, x>> \in R)
  <2> HIDE DEF R, T
  <2> QED BY <1>1, <1>2, WFMin
<1>4. PICK m \in S : x = 0..m
  OBVIOUS
<1>5. ASSUME NEW n \in S, n < m PROVE FALSE
  <2>1. 0..n \in T /\ 0..n \subseteq 0..m /\ m \in 0..m /\ m \notin 0..n
    BY <1>5
  <2>2. <<0..n, x>> \in R
    BY <2>1, <1>4 DEF StrictSubsetOrdering
  <2> QED BY <1>3, <2>1, <2>2
<1> QED BY <1>5

Pending(l) == {r \in Request : lane[r] = l /\ fut[r] = "pending"}

\* A lane that has a permit to spare and a request that waits for it has also
\* granted one, to a request that has still to run and will pass the spare on.
Hands(l) == value[l] > 0 /\ Pending(l) # {} => Granted(l) # {}

HandsOn == \A l \in Lane : Hands(l)

\* _wake_up_next() finds a waiter whenever there is one.
LEMMA SomeoneIsFirst ==
  ASSUME AInv, NEW l \in Lane, Pending(l) # {}
  PROVE  FirstPending(l) # {}
<1>1. PICK r \in Request : lane[r] = l /\ fut[r] = "pending"
  BY DEF Pending
<1>2. PICK i \in 1..Len(waiters[l]) : waiters[l][i] = r
  BY <1>1 DEF AInv, Deques
<1>3. waiters[l] \in Seq(Request) /\ DOMAIN waiters[l] = 1..Len(waiters[l])
  BY DEF AInv, Typed
<1> DEFINE P == {j \in 1..Len(waiters[l]) : fut[waiters[l][j]] = "pending"}
<1>4. P \in SUBSET Nat /\ P # {}
  BY <1>1, <1>2
<1>5. PICK m \in P : \A j \in P : m <= j
  <2> HIDE DEF P
  <2> QED BY <1>4, LeastNat
<1>6. \A j \in 1..(m - 1) : fut[waiters[l][j]] # "pending"
  BY <1>3, <1>5
<1> QED BY <1>3, <1>5, <1>6 DEF FirstPending

LEMMA FirstIsPending ==
  ASSUME AInv, NEW l \in Lane, NEW i \in FirstPending(l)
  PROVE  waiters[l][i] \in Pending(l)
<1>1. i \in 1..Len(waiters[l]) /\ fut[waiters[l][i]] = "pending" /\ waiters[l] \in Seq(Request)
  BY DEF FirstPending, AInv, Typed
<1>2. lane[waiters[l][i]] = l
  BY <1>1 DEF AInv, Deques
<1>3. waiters[l][i] \in Request
  BY <1>1
<1> QED BY <1>1, <1>2, <1>3 DEF Pending

\* A step that frees no permit of a lane, queues nobody in it and leaves its
\* grants alone.
LEMMA StillHands ==
  ASSUME NEW l \in Lane, Hands(l), value'[l] > 0 => value[l] > 0,
         Pending(l)' \subseteq Pending(l), Granted(l) \subseteq Granted(l)'
  PROVE  Hands(l)'
BY DEF Hands

\* _wake_up_next() once r has dropped its future, if it had one.
LEMMA WakeNextHands ==
  ASSUME AInv, HandsOn, NEW r \in Request, lane[r] \in Lane, lane' = lane,
         fut[r] # "pending", NEW v, WakeNext(lane[r], v, [fut EXCEPT ![r] = "none"])
  PROVE  HandsOn'
<1> DEFINE k == lane[r]
           f == [fut EXCEPT ![r] = "none"]
<1>1. /\ fut \in [Request -> Futures] /\ value \in [Lane -> Nat]
      /\ f[r] = "none" /\ \A q \in Request : q # r => f[q] = fut[q]
  BY DEF AInv, Typed
<1>2. CASE FirstPending(k) = {}
  <2>1. Pending(k) = {} /\ fut' = f /\ value' = [value EXCEPT ![k] = v]
    BY <1>2, SomeoneIsFirst DEF WakeNext
  <2> HIDE DEF f
  <2>2. Pending(k)' = {}
    BY <1>1, <2>1 DEF Pending
  <2>3. ASSUME NEW l \in Lane, l # k PROVE Hands(l)'
    <3>1. value'[l] = value[l]
      BY <1>1, <2>1, <2>3
    <3>2. Pending(l)' \subseteq Pending(l) /\ Granted(l) \subseteq Granted(l)'
      BY <1>1, <2>1, <2>3 DEF Pending, Granted
    <3> QED BY <3>1, <3>2, StillHands DEF HandsOn
  <2> QED BY <2>2, <2>3 DEF HandsOn, Hands
<1>3. CASE FirstPending(k) # {}
  <2>1. PICK i \in FirstPending(k) :
          /\ value' = [value EXCEPT ![k] = v - 1]
          /\ fut' = [f EXCEPT ![waiters[k][i]] = "granted"]
    BY <1>3 DEF WakeNext
  <2> DEFINE p == waiters[k][i]
  <2>2. p \in Request /\ lane[p] = k /\ fut[p] = "pending"
    BY FirstIsPending DEF Pending
  <2> HIDE DEF f, p
  <2>3. fut'[p] = "granted" /\ \A q \in Request : q # p => fut'[q] = f[q]
    BY <1>1, <2>1, <2>2 DEF f, p
  <2>4. p \in Granted(k)'
    BY <2>2, <2>3 DEF Granted
  <2>5. ASSUME NEW l \in Lane, l # k PROVE Hands(l)'
    <3>1. value'[l] = value[l]
      BY <1>1, <2>1, <2>5
    <3>2. Pending(l)' \subseteq Pending(l) /\ Granted(l) \subseteq Granted(l)'
      BY <1>1, <2>2, <2>3, <2>5 DEF Pending, Granted
    <3> QED BY <3>1, <3>2, StillHands DEF HandsOn
  <2> QED BY <2>4, <2>5 DEF HandsOn, Hands
<1> QED BY <1>2, <1>3

\* A request without a future comes, goes or changes lanes.
LEMMA OutsideHands ==
  ASSUME HandsOn, NEW r \in Request, fut[r] = "none", fut' = fut,
         \A q \in Request : q # r => lane'[q] = lane[q],
         \A l \in Lane : value'[l] > 0 => value[l] > 0
  PROVE  HandsOn'
<1> SUFFICES ASSUME NEW l \in Lane PROVE Hands(l)'
  BY DEF HandsOn
<1>1. Pending(l)' \subseteq Pending(l) /\ Granted(l) \subseteq Granted(l)'
  BY DEF Pending, Granted
<1> QED BY <1>1, StillHands DEF HandsOn

LEMMA EnterHands ==
  ASSUME AInv, HandsOn, NEW r \in Request, fut[r] = "none",
         NEW passed, NEW l \in Lane, NEW left, Enter(r, passed, l, left)
  PROVE  HandsOn'
<1>1. /\ fut' = fut /\ lane' = [lane EXCEPT ![r] = l]
      /\ value' = value \/ value' = [value EXCEPT ![l] = @ - 1]
  BY DEF Enter, semVars
<1>2. ASSUME NEW k \in Lane, value'[k] > 0 PROVE value[k] > 0
  <2>1. value \in [Lane -> Nat]
    BY DEF AInv, Typed
  <2> QED BY <1>1, <1>2, <2>1
<1>3. \A q \in Request : q # r => lane'[q] = lane[q]
  BY <1>1 DEF AInv, Typed
<1> QED BY <1>1, <1>2, <1>3, OutsideHands

LEMMA RejectHands ==
  ASSUME AInv, HandsOn, NEW r \in Request, fut[r] = "none",
         NEW passed, NEW left, Reject(r, passed, left)
  PROVE  HandsOn'
<1>1. fut' = fut /\ lane' = [lane EXCEPT ![r] = NoLane] /\ value' = value
  BY DEF Reject, semVars
<1>2. \A q \in Request : q # r => lane'[q] = lane[q]
  BY <1>1 DEF AInv, Typed
<1> QED BY <1>1, <1>2, OutsideHands

LEMMA StartWaitHands ==
  ASSUME AInv, HandsOn, NEW r \in Request, StartWait(r)
  PROVE  HandsOn'
<1>1. fut[r] = "none" /\ lane[r] \in Lane /\ lane' = lane
  BY NoFuture DEF StartWait, AInv, Placed, QueueStages
<1> PICK k \in Lane : k = lane[r]
  BY <1>1
<1>2. CASE ~Locked(k)
  <2>1. /\ fut' = fut /\ value' = [value EXCEPT ![k] = @ - 1]
        /\ value \in [Lane -> Nat]
    BY <1>2 DEF StartWait, AInv, Typed
  <2>2. \A l \in Lane : value'[l] > 0 => value[l] > 0
    BY <2>1
  <2> QED BY <1>1, <2>1, <2>2, OutsideHands
<1>3. CASE Locked(k)
  <2>1. /\ value' = value /\ fut' = [fut EXCEPT ![r] = "pending"]
        /\ fut \in [Request -> Futures]
    BY <1>3 DEF StartWait, AInv, Typed
  <2>2. \A q \in Request : q # r => fut'[q] = fut[q]
    BY <2>1
  <2>3. \A l \in Lane : Granted(l) \subseteq Granted(l)'
    BY <1>1, <2>1, <2>2 DEF Granted
  <2>4. \A l \in Lane : l # k => Pending(l)' \subseteq Pending(l)
    BY <1>1, <2>1, <2>2 DEF Pending
  <2>5. ASSUME NEW l \in Lane, l # k PROVE Hands(l)'
    BY <2>1, <2>3, <2>4, <2>5, StillHands DEF HandsOn
  <2>6. ASSUME value[k] > 0 PROVE Granted(k) # {}
    <3>1. PICK q \in Waiting(k) : fut[q] # "cancelled"
      BY <1>3, <2>6 DEF Locked
    <3> DEFINE s == waiters[k]
    <3>0. s \in Seq(Request)
      BY DEF AInv, Typed
    <3>2. PICK i \in 1..Len(s) : q = s[i]
      BY <3>0 DEF Waiting
    <3>3. q \in Request /\ lane[q] = k /\ fut[q] # "none"
      BY <3>0, <3>2 DEF AInv, Deques
    <3>4. fut[q] = "granted" \/ fut[q] = "pending"
      BY <2>1, <3>1, <3>3 DEF Futures
    <3> QED BY <1>1, <2>6, <3>3, <3>4 DEF HandsOn, Hands, Granted, Pending
  <2>7. Hands(k)'
    BY <1>1, <2>1, <2>3, <2>6 DEF Hands
  <2> QED BY <2>5, <2>7 DEF HandsOn
<1> QED BY <1>2, <1>3

LEMMA WakeHands ==
  ASSUME AInv, HandsOn, NEW r \in Request, Wake(r)
  PROVE  HandsOn'
<1>1. fut[r] = "granted" /\ lane[r] \in Lane /\ lane' = lane
  BY DEF Wake, AInv, Placed, QueueStages
<1> PICK k \in Lane : k = lane[r]
  BY <1>1
<1>2. CASE value[k] > 0
  BY <1>1, <1>2, WakeNextHands DEF Wake
<1>3. CASE ~(value[k] > 0)
  <2>1. /\ value' = value /\ fut' = [fut EXCEPT ![r] = "none"]
        /\ fut \in [Request -> Futures]
    BY <1>3 DEF Wake, AInv, Typed
  <2>2. \A q \in Request : q # r => fut'[q] = fut[q]
    BY <2>1
  <2>3. ASSUME NEW l \in Lane, l # k PROVE Hands(l)'
    <3>1. Pending(l)' \subseteq Pending(l) /\ Granted(l) \subseteq Granted(l)'
      BY <1>1, <2>1, <2>2, <2>3 DEF Pending, Granted
    <3> QED BY <2>1, <3>1, StillHands DEF HandsOn
  <2>4. Hands(k)'
    BY <1>3, <2>1 DEF Hands
  <2> QED BY <2>3, <2>4 DEF HandsOn
<1> QED BY <1>2, <1>3

LEMMA AbandonHands ==
  ASSUME AInv, HandsOn, NEW r \in Request, Abandon(r)
  PROVE  HandsOn'
<1>1. fut[r] # "pending" /\ lane[r] \in Lane /\ lane' = lane
  BY DEF Abandon, AInv, Placed, QueueStages
<1> PICK k \in Lane : k = lane[r]
  BY <1>1
<1>2. CASE fut[r] = "granted"
  BY <1>1, <1>2, WakeNextHands DEF Abandon
<1>3. CASE fut[r] # "granted"
  <2>1. /\ value' = value /\ fut' = [fut EXCEPT ![r] = "none"]
        /\ fut \in [Request -> Futures]
    BY <1>3 DEF Abandon, AInv, Typed
  <2>2. \A q \in Request : q # r => fut'[q] = fut[q]
    BY <2>1
  <2>3. ASSUME NEW l \in Lane
        PROVE  Pending(l)' \subseteq Pending(l) /\ Granted(l) \subseteq Granted(l)'
    BY <1>1, <1>3, <2>1, <2>2 DEF Pending, Granted
  <2> QED BY <2>1, <2>3, StillHands DEF HandsOn
<1> QED BY <1>2, <1>3

LEMMA GiveUpHands ==
  ASSUME AInv, HandsOn, NEW r \in Request, NEW c, GiveUp(r, c)
  PROVE  HandsOn'
<1>1. /\ value' = value /\ lane' = lane /\ fut \in [Request -> Futures]
      /\ fut' = IF fut[r] = "pending" THEN [fut EXCEPT ![r] = "cancelled"] ELSE fut
  BY DEF GiveUp, AInv, Typed
<1>2. ASSUME NEW l \in Lane
      PROVE  Pending(l)' \subseteq Pending(l) /\ Granted(l) \subseteq Granted(l)'
  BY <1>1 DEF Pending, Granted
<1> QED BY <1>1, <1>2, StillHands DEF HandsOn

LEMMA ReleaseHands ==
  ASSUME AInv, HandsOn, NEW r \in Request, Release(r)
  PROVE  HandsOn'
<1>1. fut[r] = "none" /\ lane[r] \in Lane /\ lane' = lane
  BY NoFuture DEF Release, AInv, Placed
<1>2. fut = [fut EXCEPT ![r] = "none"]
  BY <1>1 DEF AInv, Typed
<1>3. WakeNext(lane[r], value[lane[r]] + 1, [fut EXCEPT ![r] = "none"])
  BY <1>2 DEF Release
<1> QED BY <1>1, <1>3, WakeNextHands

LEMMA SameHands ==
  ASSUME HandsOn, UNCHANGED <<lane, fut, value>>
  PROVE  HandsOn'
BY DEF HandsOn, Hands, Pending, Granted

LEMMA ArriveHands ==
  ASSUME AInv, HandsOn, NEW r \in Request, Arrive(r)
  PROVE  HandsOn'
<1>1. fut[r] = "none"
  BY NoFuture DEF Arrive
<1> QED BY <1>1, EnterHands, RejectHands DEF Arrive, Lane

LEMMA ResumeRefusedHands ==
  ASSUME AInv, HandsOn, NEW r \in Request, ResumeRefused(r)
  PROVE  HandsOn'
<1>1. fut[r] = "none"
  BY NoFuture DEF ResumeRefused
<1> QED BY <1>1, EnterHands, RejectHands DEF ResumeRefused, Lane

LEMMA StepHands == AInv /\ HandsOn /\ [Next]_admissionVars => HandsOn'
<1> SUFFICES ASSUME AInv, HandsOn, [Next]_admissionVars PROVE HandsOn'
  OBVIOUS
<1>1. ASSUME NEW r \in Request, Arrive(r) PROVE HandsOn'
  BY <1>1, ArriveHands
<1>2. ASSUME NEW r \in Request, CancelQueued(r) PROVE HandsOn'
  <2>1. CASE GiveUp(r, TRUE)
    BY <2>1, GiveUpHands
  <2>2. CASE UNCHANGED <<lane, fut, value>>
    BY <2>2, SameHands
  <2> QED BY <1>2, <2>1, <2>2 DEF CancelQueued, semVars
<1>3. ASSUME NEW r \in Request, QueueStep(r) PROVE HandsOn'
  <2>1. CASE StartWait(r)
    BY <2>1, StartWaitHands
  <2>2. CASE Wake(r)
    BY <2>2, WakeHands
  <2>3. CASE Resume(r) \/ ResumeCancelled(r)
    BY <2>3, SameHands DEF Resume, ResumeCancelled, semVars
  <2>4. CASE Timeout(r)
    BY <2>4, GiveUpHands DEF Timeout
  <2>5. CASE Abandon(r)
    BY <2>5, AbandonHands
  <2>6. CASE ResumeRefused(r)
    BY <2>6, ResumeRefusedHands
  <2> QED BY <1>3, <2>1, <2>2, <2>3, <2>4, <2>5, <2>6 DEF QueueStep
<1>4. ASSUME NEW r \in Request, Release(r) PROVE HandsOn'
  BY <1>4, ReleaseHands
<1>5. ASSUME NEW l \in Lane, Refill(l) PROVE HandsOn'
  BY <1>5, SameHands DEF Refill, semVars
<1>6. CASE UNCHANGED admissionVars
  BY <1>6, SameHands DEF admissionVars
<1> QED BY <1>1, <1>2, <1>3, <1>4, <1>5, <1>6 DEF Next, AdmissionStep

\* No wake-up is lost: a permit that races a timeout, a cancellation or another
\* release is never left lying beside a request that waits for it, unless a
\* woken request has still to run and pass it on.
THEOREM WakeUpsAreNeverLost == Spec => []NoLostWakeup
<1>1. Init => HandsOn
  BY DEF Init, HandsOn, Hands, Pending
<1>2. AInv /\ HandsOn => NoLostWakeup
  <2> SUFFICES ASSUME AInv, HandsOn, NEW l \in Lane, value[l] > 0, NEW i \in FirstPending(l)
               PROVE  Granted(l) # {}
    BY DEF NoLostWakeup
  <2>1. Pending(l) # {}
    BY FirstIsPending
  <2> QED BY <2>1 DEF HandsOn, Hands
<1> QED BY <1>1, <1>2, InitHolds, StepKeeps, StepHands, PTL DEF Spec

-----------------------------------------------------------------------------
(* Every step of the gateway is a step of the admission, or none.           *)

LEMMA ReleaseOnceIsAdmission ==
  ASSUME NEW r \in Request, ReleaseOnce(r)
  PROVE  [Next]_admissionVars
BY DEF ReleaseOnce, Next

LEMMA QueueStepIsAdmission ==
  ASSUME NEW r \in Request, QueueStep(r) \/ Arrive(r) \/ CancelQueued(r)
  PROVE  Next
BY DEF Next, AdmissionStep

LEMMA StepIsAdmission ==
  ASSUME [GatewayNext]_gatewayVars PROVE [Next]_admissionVars
<1>1. ASSUME NEW r \in Request, ServerStep(r) PROVE [Next]_admissionVars
  <2>1. CASE QueueStep(r)
    BY <2>1, QueueStepIsAdmission
  <2>2. CASE PreflightEnds(r) \/ Assessed(r)
    BY <2>2, ReleaseOnceIsAdmission DEF PreflightEnds, Assessed
  <2>3. CASE PreflightAllows(r) \/ WorkerStarts(r) \/ WorkerEnds(r) \/ StartBody(r)
             \/ EndStream(r)
    BY <2>3 DEF PreflightAllows, WorkerStarts, WorkerEnds, StartBody, EndStream
  <2>4. CASE ReleaseAfterAssessment(r)
    BY <2>4 DEF ReleaseAfterAssessment, Next
  <2> QED BY <1>1, <2>1, <2>2, <2>3, <2>4 DEF ServerStep
<1>2. ASSUME NEW r \in Request, Arrive(r) \/ CancelAdmit(r) PROVE [Next]_admissionVars
  BY <1>2, QueueStepIsAdmission DEF CancelAdmit
<1>3. ASSUME NEW r \in Request, CancelCall(r) PROVE [Next]_admissionVars
  BY <1>3, ReleaseOnceIsAdmission DEF CancelCall
<1>4. ASSUME NEW r \in Request, LastToken(r) \/ DropBody(r) \/ DropStream(r)
      PROVE  [Next]_admissionVars
  BY <1>4 DEF LastToken, DropBody, DropStream
<1>5. ASSUME NEW l \in Lane, RefillBucket(l) PROVE [Next]_admissionVars
  BY <1>5 DEF RefillBucket, Next, AdmissionStep
<1>6. CASE UNCHANGED gatewayVars
  BY <1>6 DEF gatewayVars
<1> QED BY <1>1, <1>2, <1>3, <1>4, <1>5, <1>6 DEF GatewayNext

\* Whatever its calls and their clients do, the gateway uses the admission of a
\* route as Admission describes it: it releases a lease it holds, once.
THEOREM GatewayUsesAdmission == GatewaySpec => Spec
<1>1. GatewayInit => Init
  BY DEF GatewayInit
<1>2. [GatewayNext]_gatewayVars => [Next]_admissionVars
  BY StepIsAdmission
<1> QED BY <1>1, <1>2, PTL DEF GatewaySpec, Spec

-----------------------------------------------------------------------------
(* The thread pool.                                                         *)

Steps == {"none", "refused", "handed", "assessing", "answered", "failed",
          "cancelled", "streaming", "tail", "unserved", "dropped"}

\* Nobody works for a call that is in its preflight or whose body has not been
\* asked for, and the second still has its lease.  An assessment runs under the
\* lease of its call unless that call was cancelled.
UnderLease(r) ==
  /\ step[r] \in {"none", "handed"} => worker[r] = "none"
  /\ step[r] = "handed" => stage[r] = "held"
  /\ worker[r] \in {"submitted", "running"} /\ step[r] # "cancelled" => stage[r] = "held"

GInv ==
  /\ step \in [Request -> Steps]
  /\ worker \in [Request -> {"none", "submitted", "running", "done", "failed"}]
  /\ \A r \in Request : UnderLease(r)

\* Only release() takes a lease away.
LEMMA LeaseStays ==
  ASSUME AInv, AdmissionStep, NEW q \in Request, stage[q] = "held"
  PROVE  stage'[q] = "held"
<1>1. stage \in [Request -> Stages]
  BY DEF AInv, Typed
<1>2. ASSUME NEW r \in Request, Arrive(r) PROVE stage'[q] = "held"
  BY <1>1, <1>2 DEF Arrive, Enter, Reject
<1>3. ASSUME NEW r \in Request, CancelQueued(r) PROVE stage'[q] = "held"
  BY <1>1, <1>3 DEF CancelQueued, GiveUp
<1>4. ASSUME NEW r \in Request, QueueStep(r) PROVE stage'[q] = "held"
  <2>1. CASE StartWait(r) \/ Wake(r)
    BY <1>1, <2>1 DEF StartWait, Wake
  <2>2. CASE Resume(r) \/ Timeout(r) \/ Abandon(r)
    BY <1>1, <2>2 DEF Resume, Timeout, GiveUp, Abandon
  <2>3. CASE ResumeRefused(r) \/ ResumeCancelled(r)
    BY <1>1, <2>3 DEF ResumeRefused, Enter, Reject, ResumeCancelled
  <2> QED BY <1>4, <2>1, <2>2, <2>3 DEF QueueStep
<1>5. ASSUME NEW l \in Lane, Refill(l) PROVE stage'[q] = "held"
  BY <1>5 DEF Refill
<1> QED BY <1>2, <1>3, <1>4, <1>5 DEF AdmissionStep

\* A step of the admission alone.
LEMMA AdmissionStepKeepsLease ==
  ASSUME AInv, GInv, AdmissionStep, UNCHANGED callVars
  PROVE  GInv'
BY LeaseStays DEF GInv, UnderLease, callVars

\* What a call does to itself leaves the others alone.
LEMMA CallKeepsLease ==
  ASSUME GInv, NEW r \in Request, NEW s \in Steps,
         NEW w \in {"none", "submitted", "running", "done", "failed"},
         step' = [step EXCEPT ![r] = s], worker' = [worker EXCEPT ![r] = w],
         \A q \in Request : q # r => stage'[q] = stage[q],
         s \in {"none", "handed"} => w = "none",
         s = "handed" => stage'[r] = "held",
         w \in {"submitted", "running"} /\ s # "cancelled" => stage'[r] = "held"
  PROVE  GInv'
<1>1. /\ step' \in [Request -> Steps]
      /\ worker' \in [Request -> {"none", "submitted", "running", "done", "failed"}]
      /\ step'[r] = s /\ worker'[r] = w
      /\ \A q \in Request : q # r => step'[q] = step[q] /\ worker'[q] = worker[q]
  BY DEF GInv
<1>2. ASSUME NEW q \in Request PROVE UnderLease(q)'
  <2>1. CASE q = r
    BY <1>1, <2>1 DEF UnderLease
  <2>2. CASE q # r
    BY <1>1, <2>2 DEF GInv, UnderLease
  <2> QED BY <2>1, <2>2
<1> QED BY <1>1, <1>2 DEF GInv

LEMMA ReleaseOnceStage ==
  ASSUME AInv, NEW r \in Request, ReleaseOnce(r)
  PROVE  \A q \in Request : q # r => stage'[q] = stage[q]
BY DEF ReleaseOnce, Release, admissionVars, AInv, Typed

LEMMA ServerStepKeepsLease ==
  ASSUME AInv, GInv, NEW r \in Request, ServerStep(r)
  PROVE  GInv'
<1>1. /\ step[r] \in Steps /\ step = [step EXCEPT ![r] = step[r]]
      /\ worker = [worker EXCEPT ![r] = worker[r]] /\ UnderLease(r)
      /\ worker[r] \in {"none", "submitted", "running", "done", "failed"}
  BY DEF GInv
<1>2. CASE QueueStep(r) /\ UNCHANGED callVars
  BY <1>2, AdmissionStepKeepsLease DEF AdmissionStep
<1>3. CASE PreflightEnds(r)
  BY <1>1, <1>3, CallKeepsLease, ReleaseOnceStage
     DEF PreflightEnds, InPreflight, Become, UnderLease, Steps
<1>4. CASE PreflightAllows(r)
  <2>1. stage' = stage /\ stage[r] = "held" /\ step[r] = "none" /\ worker[r] = "none"
    BY <1>1, <1>4 DEF PreflightAllows, InPreflight, admissionVars, UnderLease
  <2>2. CASE r \in Streaming
    BY <1>1, <1>4, <2>1, <2>2, CallKeepsLease DEF PreflightAllows, Become, Steps
  <2>3. CASE r \notin Streaming
    BY <1>1, <1>4, <2>1, <2>3, CallKeepsLease DEF PreflightAllows, Become, Steps
  <2> QED BY <2>2, <2>3
<1>5. CASE WorkerStarts(r)
  BY <1>1, <1>5, CallKeepsLease DEF WorkerStarts, admissionVars, UnderLease
<1>6. CASE WorkerEnds(r)
  <2>1. PICK w \in {"done", "failed"} : worker' = [worker EXCEPT ![r] = w]
    BY <1>6 DEF WorkerEnds
  <2>2. stage' = stage /\ step' = step /\ step[r] \notin {"none", "handed"}
    BY <1>1, <1>6 DEF WorkerEnds, admissionVars, UnderLease
  <2> QED BY <1>1, <2>1, <2>2, CallKeepsLease
<1>7. CASE Assessed(r)
  <2>1. /\ \A q \in Request : q # r => stage'[q] = stage[q]
        /\ worker' = worker /\ worker[r] \in {"done", "failed"}
        /\ \E s \in {"answered", "failed"} : step' = [step EXCEPT ![r] = s]
    BY <1>7, ReleaseOnceStage DEF Assessed, Become, Ended
  <2> QED BY <1>1, <2>1, CallKeepsLease DEF Steps
<1>8. CASE StartBody(r)
  BY <1>1, <1>8, CallKeepsLease DEF StartBody, Become, admissionVars, UnderLease, Steps
<1>9. CASE ReleaseAfterAssessment(r)
  <2>1. /\ \A q \in Request : q # r => stage'[q] = stage[q]
        /\ step' = step /\ worker' = worker /\ worker[r] \in {"done", "failed"}
    BY <1>9 DEF ReleaseAfterAssessment, Release, callVars, Ended, AInv, Typed
  <2> QED BY <1>1, <2>1, CallKeepsLease DEF UnderLease
<1>10. CASE EndStream(r)
  <2>1. /\ stage' = stage /\ worker' = worker /\ worker[r] \in {"done", "failed"}
        /\ \E s \in {"answered", "failed"} : step' = [step EXCEPT ![r] = s]
    BY <1>10 DEF EndStream, Become, Ended, admissionVars
  <2> QED BY <1>1, <2>1, CallKeepsLease DEF Steps
<1> QED BY <1>2, <1>3, <1>4, <1>5, <1>6, <1>7, <1>8, <1>9, <1>10
        DEF ServerStep, PreflightEnds

LEMMA ClientStepKeepsLease ==
  ASSUME AInv, GInv, NEW r \in Request,
         CancelCall(r) \/ LastToken(r) \/ DropBody(r) \/ DropStream(r)
  PROVE  GInv'
<1>1. /\ step[r] \in Steps /\ worker = [worker EXCEPT ![r] = worker[r]] /\ UnderLease(r)
      /\ worker[r] \in {"none", "submitted", "running", "done", "failed"}
  BY DEF GInv
<1>2. CASE CancelCall(r)
  <2> DEFINE w == IF worker[r] = "submitted" THEN "none" ELSE worker[r]
  <2>1. /\ \A q \in Request : q # r => stage'[q] = stage[q]
        /\ worker' = [worker EXCEPT ![r] = w]
        /\ step' = [step EXCEPT ![r] = "cancelled"]
        /\ w \in {"none", "submitted", "running", "done", "failed"}
    BY <1>1, <1>2, ReleaseOnceStage DEF CancelCall, Become
  <2> HIDE DEF w
  <2> QED BY <2>1, CallKeepsLease DEF Steps
<1>3. CASE LastToken(r) \/ DropBody(r) \/ DropStream(r)
  <2>1. /\ stage' = stage /\ worker' = worker
        /\ step[r] \in {"handed", "streaming", "tail"}
        /\ \E s \in {"tail", "unserved", "dropped"} : step' = [step EXCEPT ![r] = s]
    BY <1>3 DEF LastToken, DropBody, DropStream, Become, admissionVars
  <2> QED BY <1>1, <2>1, CallKeepsLease DEF Steps, UnderLease
<1> QED BY <1>2, <1>3

LEMMA StepKeepsLease ==
  ASSUME AInv, GInv, [GatewayNext]_gatewayVars PROVE GInv'
<1>1. ASSUME NEW r \in Request, (Arrive(r) /\ UNCHANGED callVars) \/ CancelAdmit(r)
      PROVE  GInv'
  BY <1>1, AdmissionStepKeepsLease DEF CancelAdmit, AdmissionStep
<1>2. ASSUME NEW l \in Lane, RefillBucket(l) PROVE GInv'
  BY <1>2, AdmissionStepKeepsLease DEF RefillBucket, AdmissionStep
<1>3. CASE UNCHANGED gatewayVars
  BY <1>3 DEF gatewayVars, admissionVars, callVars, GInv, UnderLease
<1> QED BY <1>1, <1>2, <1>3, ServerStepKeepsLease, ClientStepKeepsLease DEF GatewayNext

\* The requests of a lane that hold a lease are at most as many as its permits.
LEMMA LeasesWithinConcurrency ==
  ASSUME AInv, NEW l \in Lane, NEW S, S \subseteq On(l, {"held"})
  PROVE  Cardinality(S) <= Concurrency[l]
<1> DEFINE H == On(l, {"acquired", "held"})
<1>1. H \in SUBSET Request /\ S \in SUBSET H
  BY DEF On
<1>2. IsFiniteSet(H) /\ Cardinality(H) \in Nat
  BY <1>1, SomeRequests
<1>3. Cardinality(S) <= Cardinality(H) /\ Cardinality(S) \in Nat
  <2> HIDE DEF H
  <2> QED BY <1>1, <1>2, FS_Subset, FS_CardinalityType
<1>4. value[l] \in Nat /\ Cardinality(Granted(l)) \in Nat /\ Concurrency[l] \in Nat
  BY CountIsNat, AdmissionAssumption DEF AInv, Typed
<1>5. value[l] + Cardinality(H) + Cardinality(Granted(l)) = Concurrency[l]
  BY DEF AInv, LaneAccounts, PermitsConserved
<1> HIDE DEF H
<1> QED BY <1>2, <1>3, <1>4, <1>5

\* A lane never has more assessments in the thread pool than its concurrency,
\* whatever clients do to their connections: an assessment that the pool has
\* taken or will take runs under the lease of its call, except that of a JSON
\* call that was cancelled.
THEOREM AssessmentsStayInTheLane == GatewaySpec => []LaneBoundsAssessments
<1>1. GatewayInit => AInv /\ GInv
  <2>1. GatewayInit => AInv
    BY InitHolds DEF GatewayInit
  <2>2. GatewayInit => GInv
    BY DEF GatewayInit, Init, GInv, UnderLease, Steps
  <2> QED BY <2>1, <2>2
<1>2. AInv /\ GInv /\ [GatewayNext]_gatewayVars => AInv' /\ GInv'
  BY StepIsAdmission, StepKeeps, StepKeepsLease
<1>3. AInv /\ GInv => LaneBoundsAssessments
  <2> SUFFICES ASSUME AInv, GInv, NEW l \in Lane
               PROVE  Cardinality({r \in Request : /\ lane[r] = l /\ step[r] # "cancelled"
                                     /\ worker[r] \in {"submitted", "running"}})
                        <= Concurrency[l]
    BY DEF LaneBoundsAssessments
  <2> DEFINE S == {r \in Request : /\ lane[r] = l /\ step[r] # "cancelled"
                                   /\ worker[r] \in {"submitted", "running"}}
  <2>1. S \subseteq On(l, {"held"})
    BY DEF GInv, UnderLease, On
  <2> HIDE DEF S
  <2>2. Cardinality(S) <= Concurrency[l]
    BY <2>1, LeasesWithinConcurrency
  <2> QED BY <2>2 DEF S
<1> QED BY <1>1, <1>2, <1>3, PTL DEF GatewaySpec

\* Under the gateway too no permit is lost or made up, and no wake-up is lost.
THEOREM GatewayKeepsAccounts == GatewaySpec => [](LaneAccounts /\ NoLostWakeup)
BY GatewayUsesAdmission, LaneAlwaysAccounts, WakeUpsAreNeverLost, PTL

-----------------------------------------------------------------------------
(* DegradedPrice: rounding.                                                 *)

LEMMA PowerIs ==
  /\ Power \in [Nat -> Nat \ {0}] /\ Power[0] = 1
  /\ \A i \in Nat \ {0} : Power[i] = 2 * Power[i - 1]
<1> DEFINE V == Nat \ {0}
           h == [p \in Nat \X V |-> 2 * p[2]]
<1>1. h \in [Nat \X V -> V] /\ 1 \in V
  OBVIOUS
<1>2. \A i \in Nat, x \in V : h[<<i, x>>] = 2 * x
  OBVIOUS
<1> HIDE DEF h, V
<1>3. PICK f \in [Nat -> V] : StepsUp(f, 1, h)
  BY <1>1, RecursionExists
<1>4. f = [i \in Nat |-> IF i = 0 THEN 1 ELSE h[<<i, f[i - 1]>>]]
  BY <1>3 DEF StepsUp
<1>5. \A i \in Nat : (IF i = 0 THEN 1 ELSE h[<<i, f[i - 1]>>])
                       = (IF i = 0 THEN 1 ELSE 2 * f[i - 1])
  BY <1>2, <1>3
<1>6. f = [i \in Nat |-> IF i = 0 THEN 1 ELSE 2 * f[i - 1]]
  BY <1>4, <1>5, Zenon
<1>7. Power = [i \in Nat |-> IF i = 0 THEN 1 ELSE 2 * Power[i - 1]]
  BY <1>6 DEF Power
<1>8. \A i \in Nat : Power[i] = IF i = 0 THEN 1 ELSE 2 * Power[i - 1]
  BY <1>7
<1>9. \A i \in Nat : Power[i] \in V
  <2> DEFINE P == {i \in Nat : Power[i] \in V}
  <2>1. 0 \in P
    BY <1>8 DEF V
  <2>2. ASSUME NEW i \in Nat, i \in P PROVE i + 1 \in P
    BY <1>8, <2>2 DEF V
  <2>3. Nat \subseteq P
    <3> HIDE DEF P
    <3> QED BY <2>1, <2>2, UpwardInduction
  <2> QED BY <2>3
<1>10. Power = [i \in Nat |-> Power[i]]
  BY <1>7
<1>11. Power \in [Nat -> V]
  BY <1>9, <1>10
<1> QED BY <1>8, <1>11 DEF V

\* Of two powers of two the greater is a multiple of the less, and twice it at least.
LEMMA PowersDivide ==
  \A i, j \in Nat : i < j =>
    /\ Power[j] >= 2 * Power[i]
    /\ \E m \in Nat : Power[j] = m * Power[i]
<1> TAKE i \in Nat
<1> DEFINE P == {n \in Nat : /\ Power[i + n] >= Power[i]
                             /\ \E m \in Nat : Power[i + n] = m * Power[i]}
<1>1. 0 \in P
  <2>1. Power[i + 0] = 1 * Power[i] /\ Power[i] \in Nat
    BY PowerIs
  <2> QED BY <2>1
<1>2. ASSUME NEW n \in Nat, n \in P PROVE n + 1 \in P
  <2>1. PICK m \in Nat : Power[i + n] = m * Power[i]
    BY <1>2
  <2>2. Power[i] \in Nat /\ Power[i + n] \in Nat /\ Power[i + (n + 1)] = 2 * Power[i + n]
    BY PowerIs
  <2>3. Power[i + (n + 1)] = (2 * m) * Power[i]
    BY <2>1, <2>2
  <2>4. Power[i + (n + 1)] >= Power[i] /\ 2 * m \in Nat
    BY <1>2, <2>2
  <2> QED BY <2>3, <2>4
<1>3. Nat \subseteq P
  <2> HIDE DEF P
  <2> QED BY <1>1, <1>2, UpwardInduction
<1> TAKE j \in Nat
<1> HAVE i < j
<1>4. j - i - 1 \in Nat /\ j - i \in Nat /\ i + (j - i - 1) = j - 1 /\ i + (j - i) = j
  OBVIOUS
<1>5. Power[j - 1] >= Power[i] /\ \E m \in Nat : Power[j] = m * Power[i]
  <2> DEFINE n == j - i - 1
             k == j - i
  <2>1. n \in P /\ k \in P /\ i + n = j - 1 /\ i + k = j
    BY <1>3, <1>4
  <2> HIDE DEF n, k
  <2> QED BY <2>1
<1>6. Power[j] = 2 * Power[j - 1] /\ Power[j] \in Nat /\ Power[j - 1] \in Nat /\ Power[i] \in Nat
  BY PowerIs
<1> QED BY <1>5, <1>6

\* q is the unit in the last place of x: x has Bits bits over it, or it is the least.
Units == {Power[i] : i \in Nat}
IsUlp(q, x) ==
  /\ q \in Units /\ x < Power[Bits] * q
  /\ q = 1 \/ x >= Power[Bits - 1] * q

LEMMA UnitsAre ==
  /\ 1 \in Units /\ Units \subseteq Nat \ {0}
  /\ \A q \in Units : 2 * q \in Units
  /\ \A q, u \in Units : q < u => u >= 2 * q /\ \E m \in Nat : u = m * q
<1>1. 1 \in Units /\ Units \subseteq Nat \ {0}
  BY PowerIs DEF Units
<1>2. ASSUME NEW q \in Units PROVE 2 * q \in Units
  <2>1. PICK i \in Nat : q = Power[i]
    BY DEF Units
  <2>2. 2 * q = Power[i + 1]
    BY <2>1, PowerIs
  <2> QED BY <2>2 DEF Units
<1>3. ASSUME NEW q \in Units, NEW u \in Units, q < u
      PROVE  u >= 2 * q /\ \E m \in Nat : u = m * q
  <2>1. PICK i \in Nat, j \in Nat : q = Power[i] /\ u = Power[j]
    BY DEF Units
  <2>2. CASE i < j
    BY <2>1, <2>2, PowersDivide
  <2>3. CASE j < i
    <3>1. q \in Nat /\ u \in Nat /\ q >= 2 * u
      BY <1>1, <2>1, <2>3, PowersDivide
    <3> QED BY <1>3, <3>1
  <2>4. CASE i = j
    BY <1>1, <1>3, <2>1, <2>4
  <2> QED BY <2>2, <2>3, <2>4
<1> QED BY <1>1, <1>2, <1>3

LEMMA FullIs ==
  /\ Power[Bits] \in Nat \ {0} /\ Power[Bits - 1] \in Nat \ {0}
  /\ Power[Bits] = 2 * Power[Bits - 1]
BY PriceAssumption, PowerIs

LEMMA UlpIsOne ==
  ASSUME NEW x \in Nat, NEW q, NEW u, IsUlp(q, x), IsUlp(u, x)
  PROVE  q = u
<1>1. ASSUME NEW a, NEW b, IsUlp(a, x), IsUlp(b, x), a < b PROVE FALSE
  <2>1. a \in Nat \ {0} /\ b \in Nat \ {0} /\ b >= 2 * a /\ b # 1
    BY <1>1, UnitsAre DEF IsUlp
  <2> DEFINE H == Power[Bits - 1]
             F == Power[Bits]
  <2>2. x >= H * b /\ x < F * a /\ H \in Nat /\ F = 2 * H
    BY <1>1, <2>1, FullIs DEF IsUlp
  <2> HIDE DEF H, F
  <2>3. \A h, c, d \in Nat : d >= 2 * c => h * d >= (2 * h) * c
    <3>1. \A h, c, e \in Nat : h * (2 * c + e) = (2 * h) * c + h * e /\ h * e \in Nat
      BY Z3
    <3> TAKE h \in Nat, c \in Nat, d \in Nat
    <3> HAVE d >= 2 * c
    <3>2. d - 2 * c \in Nat /\ d = 2 * c + (d - 2 * c)
      OBVIOUS
    <3>3. h * d = (2 * h) * c + h * (d - 2 * c) /\ h * (d - 2 * c) \in Nat
      BY <3>1, <3>2
    <3> QED BY <3>3
  <2>4. H * b >= F * a
    BY <2>1, <2>2, <2>3
  <2> QED BY <2>1, <2>2, <2>4
<1>2. q \in Nat /\ u \in Nat
  BY UnitsAre DEF IsUlp
<1>3. ~(q < u) /\ ~(u < q)
  BY <1>1
<1> QED BY <1>2, <1>3

\* A number less than Full has the least unit; another has twice that of its half.
LEMMA UlpOfHalf ==
  ASSUME NEW x \in Nat
  PROVE  /\ x < Power[Bits] => IsUlp(1, x)
         /\ x >= Power[Bits] => x \div 2 \in Nat /\ x \div 2 < x
         /\ x >= Power[Bits] => \A q : IsUlp(q, x \div 2) => IsUlp(2 * q, x)
<1>1. x < Power[Bits] => IsUlp(1, x)
  BY UnitsAre, FullIs DEF IsUlp
<1>2. ASSUME x >= Power[Bits]
      PROVE  /\ x \div 2 \in Nat /\ x \div 2 < x
             /\ \A q : IsUlp(q, x \div 2) => IsUlp(2 * q, x)
  <2> DEFINE y == x \div 2
             H == Power[Bits - 1]
             F == Power[Bits]
  <2>1. H \in Nat \ {0} /\ F = 2 * H /\ x >= F
    BY <1>2, FullIs
  <2>2. y \in Nat /\ 2 * y <= x /\ x <= 2 * y + 1
    OBVIOUS
  <2> HIDE DEF y, H, F
  <2>3. y < x
    BY <2>1, <2>2
  <2>4. ASSUME NEW q, IsUlp(q, y) PROVE IsUlp(2 * q, x)
    <3>1. q \in Nat \ {0} /\ 2 * q \in Units /\ q \in Units
      BY <2>4, UnitsAre DEF IsUlp
    <3>2. y < F * q /\ (q = 1 \/ y >= H * q)
      BY <2>4 DEF IsUlp, F, H
    <3>3. \A n, m \in Nat : n * (2 * m) = 2 * (n * m) /\ n * m \in Nat
      BY Z3
    <3>4. F * (2 * q) = 2 * (F * q) /\ F * q \in Nat /\ H * (2 * q) = 2 * (H * q) /\ H * q \in Nat
      BY <2>1, <3>1, <3>3
    <3>5. x < F * (2 * q)
      BY <2>2, <3>2, <3>4
    <3>6. x >= H * (2 * q)
      <4>1. CASE q = 1
        BY <2>1, <4>1
      <4>2. CASE q # 1
        BY <2>2, <3>2, <3>4, <4>2
      <4> QED BY <4>1, <4>2
    <3> QED BY <3>1, <3>5, <3>6 DEF IsUlp, F, H
  <2> QED BY <2>2, <2>3, <2>4 DEF y
<1> QED BY <1>1, <1>2

LEMMA UlpExists == \A x \in Nat : \E q : IsUlp(q, x)
<1> DEFINE P == {x \in Nat : \E q : IsUlp(q, x)}
<1>1. ASSUME NEW x \in Nat, \A y \in Nat : y < x => y \in P PROVE x \in P
  <2>1. CASE x < Power[Bits]
    BY <2>1, UlpOfHalf
  <2>2. CASE ~(x < Power[Bits])
    <3>1. x >= Power[Bits]
      BY <2>2, FullIs
    <3>2. x \div 2 \in P
      BY <1>1, <3>1, UlpOfHalf
    <3>3. PICK q : IsUlp(q, x \div 2)
      BY <3>2
    <3> QED BY <3>1, <3>3, UlpOfHalf
  <2> QED BY <2>1, <2>2
<1>2. Nat \subseteq P
  <2> HIDE DEF P
  <2> QED BY <1>1, StrongInduction
<1> QED BY <1>2

LEMMA UlpIs == \A x \in Nat : IsUlp(UlpOf[x], x)
<1> DEFINE f == [x \in Nat |-> CHOOSE q : IsUlp(q, x)]
<1>1. \A x \in Nat : IsUlp(f[x], x)
  BY UlpExists
<1>2. ASSUME NEW x \in Nat PROVE f[x] = IF x < Power[Bits] THEN 1 ELSE 2 * f[x \div 2]
  <2> HIDE DEF f
  <2>1. CASE x < Power[Bits]
    BY <1>1, <2>1, UlpOfHalf, UlpIsOne
  <2>2. CASE ~(x < Power[Bits])
    <3>1. x >= Power[Bits]
      BY <2>2, FullIs
    <3>2. IsUlp(2 * f[x \div 2], x)
      BY <1>1, <3>1, UlpOfHalf
    <3>3. f[x] = 2 * f[x \div 2]
      BY <1>1, <3>2, UlpIsOne
    <3> QED BY <2>2, <3>3
  <2> QED BY <2>1, <2>2
<1>3. f = [x \in Nat |-> IF x < Power[Bits] THEN 1 ELSE 2 * f[x \div 2]]
  <2>1. f = [x \in Nat |-> f[x]]
    OBVIOUS
  <2> HIDE DEF f
  <2> QED BY <1>2, <2>1, Zenon
<1> HIDE DEF f
<1>4. UlpOf = [x \in Nat |-> IF x < Power[Bits] THEN 1 ELSE 2 * UlpOf[x \div 2]]
  BY <1>3 DEF UlpOf
<1>5. \A x \in Nat : UlpOf[x] = IF x < Power[Bits] THEN 1 ELSE 2 * UlpOf[x \div 2]
  BY <1>4
<1> DEFINE P == {x \in Nat : IsUlp(UlpOf[x], x)}
<1>6. ASSUME NEW x \in Nat, \A y \in Nat : y < x => y \in P PROVE x \in P
  <2>1. CASE x < Power[Bits]
    <3>1. UlpOf[x] = 1
      BY <1>5, <2>1
    <3> QED BY <2>1, <3>1, UlpOfHalf
  <2>2. CASE ~(x < Power[Bits])
    <3>1. x >= Power[Bits] /\ UlpOf[x] = 2 * UlpOf[x \div 2]
      BY <1>5, <2>2, FullIs
    <3>2. IsUlp(UlpOf[x \div 2], x \div 2)
      BY <1>6, <3>1, UlpOfHalf
    <3> QED BY <3>1, <3>2, UlpOfHalf
  <2> QED BY <2>1, <2>2
<1>7. Nat \subseteq P
  <2> HIDE DEF P
  <2> QED BY <1>6, StrongInduction
<1> QED BY <1>7

\* A number that is m units, of at most Full of them.
IsFloat(f) == \E q \in Units : \E m \in Nat : f = m * q /\ m <= Power[Bits]

\* Rounding: to a multiple of the unit, a unit off at most, and down to a multiple if ever.
LEMMA RoundIs ==
  ASSUME NEW n \in Nat, NEW d \in Nat \ {0}
  PROVE  LET q == Ulp(n, d) IN
         /\ IsUlp(q, n \div d)
         /\ \E k \in Nat : /\ k * (q * d) <= n /\ n < k * (q * d) + q * d /\ k < Power[Bits]
                           /\ \/ /\ Round(n, d) = k * q
                                 /\ 2 * n <= 2 * (k * (q * d)) + q * d
                              \/ /\ Round(n, d) = (k + 1) * q
                                 /\ 2 * n >= 2 * (k * (q * d)) + q * d
<1> DEFINE q == Ulp(n, d)
           x == n \div d
           e == q * d
           k == n \div e
           twice == 2 * (n - k * q * d)
           F == Power[Bits]
<1>1. x \in Nat /\ x * d <= n /\ n < x * d + d
  <2>1. \A a \in Nat, b \in Nat \ {0} :
          a \div b \in Nat /\ (a \div b) * b <= a /\ a < (a \div b) * b + b
    BY Z3
  <2> QED BY <2>1
<1>2. IsUlp(q, x)
  BY <1>1, UlpIs DEF Ulp
<1>3. q \in Nat \ {0} /\ x < F * q
  BY <1>2, UnitsAre DEF IsUlp
<1>4. Round(n, d) = IF twice < e \/ (twice = e /\ k % 2 = 0) THEN k * q ELSE (k + 1) * q
  BY DEF Round
<1> HIDE DEF q, x
<1>5. e \in Nat \ {0}
  <2>1. \A a, b \in Nat \ {0} : a * b \in Nat \ {0}
    BY Z3
  <2> QED BY <1>3, <2>1
<1>6. k * q * d = k * e
  <2>1. k \in Int
    BY <1>5
  <2>2. \A a, b, c \in Int : a * b * c = a * (b * c)
    BY Z3
  <2> HIDE DEF k
  <2> QED BY <1>3, <2>1, <2>2
<1>7. k \in Nat /\ k * e <= n /\ n < k * e + e
  <2>1. \A a \in Nat, b \in Nat \ {0} :
          a \div b \in Nat /\ (a \div b) * b <= a /\ a < (a \div b) * b + b
    BY Z3
  <2> HIDE DEF e
  <2> QED BY <1>5, <2>1
<1>8. k < F
  <2> SUFFICES ASSUME k >= F PROVE FALSE
    BY <1>7, FullIs
  <2>1. F \in Nat
    BY FullIs
  <2> HIDE DEF k, F
  <2>2. \A a, b, c, y, z \in Nat : a >= b /\ y + 1 <= b * c => a * (c * z) >= (y + 1) * z
    <3>1. \A a, b, c, z \in Nat : a >= b => a * (c * z) >= b * (c * z)
      <4>1. \A b, r, w \in Nat : (b + r) * w = b * w + r * w /\ r * w \in Nat
        BY Z3
      <4>2. \A a, b, w \in Nat : a >= b => a * w >= b * w
        <5> TAKE a \in Nat, b \in Nat, w \in Nat
        <5> HAVE a >= b
        <5>1. a - b \in Nat /\ a = b + (a - b)
          OBVIOUS
        <5>2. a * w = b * w + (a - b) * w /\ (a - b) * w \in Nat
          BY <4>1, <5>1
        <5> QED BY <5>2
      <4> QED BY <4>2, ProductIsNat
    <3>2. \A b, c, y, z \in Nat : y + 1 <= b * c => b * (c * z) >= (y + 1) * z
      <4>1. \A b, c, z \in Nat : b * (c * z) = (b * c) * z /\ b * c \in Nat
        BY Z3
      <4>2. \A t, r, w \in Nat : (t + r) * w = t * w + r * w /\ r * w \in Nat /\ t * w \in Nat
        BY Z3
      <4>3. \A a, b, w \in Nat : a >= b => a * w >= b * w
        <5> TAKE a \in Nat, b \in Nat, w \in Nat
        <5> HAVE a >= b
        <5>1. a - b \in Nat /\ a = b + (a - b)
          OBVIOUS
        <5>2. a * w = b * w + (a - b) * w /\ (a - b) * w \in Nat
          BY <4>2, <5>1
        <5> QED BY <4>2, <5>2
      <4> TAKE b \in Nat, c \in Nat, y \in Nat, z \in Nat
      <4> HAVE y + 1 <= b * c
      <4>4. (b * c) * z >= (y + 1) * z
        BY <4>1, <4>3
      <4> QED BY <4>1, <4>4
    <3>3. \A a, b, c, y, z \in Nat : /\ a * (c * z) \in Nat /\ b * (c * z) \in Nat
                                     /\ (y + 1) * z \in Nat
      BY Z3
    <3> TAKE a \in Nat, b \in Nat, c \in Nat, y \in Nat, z \in Nat
    <3> HAVE a >= b /\ y + 1 <= b * c
    <3> HIDE DEF F
    <3>4. a * (c * z) >= b * (c * z) /\ b * (c * z) >= (y + 1) * z
      BY <3>1, <3>2
    <3> QED BY <3>3, <3>4
  <2>3. x + 1 <= F * q
    <3>1. F * q \in Nat
      BY <1>3, <2>1, ProductIsNat
    <3> QED BY <1>1, <1>3, <3>1
  <2>4. k * e >= (x + 1) * d
    BY <1>1, <1>3, <1>7, <2>1, <2>2, <2>3 DEF k
  <2>5. (x + 1) * d = x * d + d /\ x * d \in Nat /\ k * e \in Nat
    BY <1>1, <1>5, <1>7, Z3
  <2> HIDE DEF e
  <2> QED BY <1>1, <1>7, <2>4, <2>5
<1>9. 2 * (n - k * e) = 2 * n - 2 * (k * e) /\ k * e \in Nat
  <2> HIDE DEF k, e
  <2> QED BY <1>5, <1>7, ProductIsNat
<1>10. twice = 2 * n - 2 * (k * e)
  BY <1>6, <1>9
<1> HIDE DEF k, twice, e
<1>11. \/ Round(n, d) = k * q /\ 2 * n <= 2 * (k * e) + e
       \/ Round(n, d) = (k + 1) * q /\ 2 * n >= 2 * (k * e) + e
  <2>1. CASE twice < e \/ (twice = e /\ k % 2 = 0)
    BY <1>4, <1>5, <1>9, <1>10, <2>1
  <2>2. CASE ~(twice < e \/ (twice = e /\ k % 2 = 0))
    <3>1. twice >= e
      BY <1>5, <1>9, <1>10, <2>2
    <3>2. Round(n, d) = (k + 1) * q
      BY <1>4, <2>2
    <3> QED BY <1>5, <1>9, <1>10, <3>1, <3>2
  <2> QED BY <2>1, <2>2
<1> QED BY <1>2, <1>7, <1>8, <1>11 DEF e, q, x, F

LEMMA RoundIsFloat ==
  ASSUME NEW n \in Nat, NEW d \in Nat \ {0}
  PROVE  Round(n, d) \in Nat /\ IsFloat(Round(n, d))
<1> DEFINE q == Ulp(n, d)
<1>1. q \in Units /\ q \in Nat
  BY RoundIs, UnitsAre DEF IsUlp
<1>2. PICK k \in Nat : k < Power[Bits] /\ (Round(n, d) = k * q \/ Round(n, d) = (k + 1) * q)
  BY RoundIs
<1> HIDE DEF q
<1>3. k * q \in Nat /\ (k + 1) * q \in Nat /\ k + 1 \in Nat /\ k + 1 <= Power[Bits]
  BY <1>1, <1>2, ProductIsNat, FullIs
<1>4. Round(n, d) \in Nat
  BY <1>2, <1>3
<1>5. \E m \in Nat : Round(n, d) = m * q /\ m <= Power[Bits]
  BY <1>2, <1>3, FullIs
<1> QED BY <1>1, <1>4, <1>5 DEF IsFloat

\* Rounding never crosses a float.
LEMMA RoundIsMonotone ==
  ASSUME NEW n \in Nat, NEW d \in Nat \ {0}, NEW f \in Nat, IsFloat(f), f * d <= n
  PROVE  f <= Round(n, d)
<1> DEFINE q == Ulp(n, d)
           e == q * d
           F == Power[Bits]
           H == Power[Bits - 1]
<1>1. IsUlp(q, n \div d)
  BY RoundIs
<1>2. PICK k \in Nat : /\ k * e <= n /\ n < k * e + e /\ k < F
                       /\ Round(n, d) = k * q \/ Round(n, d) = (k + 1) * q
  BY RoundIs
<1>3. PICK u \in Units, m \in Nat : f = m * u /\ m <= F
  BY DEF IsFloat
<1>4. q \in Units /\ q \in Nat \ {0} /\ u \in Nat \ {0} /\ H \in Nat \ {0} /\ F = 2 * H
  BY <1>1, <1>3, UnitsAre, FullIs DEF IsUlp
<1>5. q = 1 \/ n \div d >= H * q
  BY <1>1 DEF IsUlp
<1> HIDE DEF q, H, F
<1>6. e \in Nat \ {0} /\ k * e \in Nat
  <2>1. \A a, b \in Nat \ {0} : a * b \in Nat \ {0}
    BY Z3
  <2>2. e \in Nat \ {0}
    BY <1>4, <2>1
  <2> HIDE DEF e
  <2> QED BY <2>2, ProductIsNat
<1>7. k * q \in Nat /\ (k + 1) * q = k * q + q
  <2>1. \A a, b \in Nat : a * b \in Nat /\ (a + 1) * b = a * b + b
    BY Z3
  <2> QED BY <1>4, <2>1
<1>8. SUFFICES f <= k * q
  BY <1>2, <1>4, <1>7
<1>9. CASE u < q
  <2>1. q >= 2 * u /\ q # 1
    BY <1>3, <1>4, <1>9, UnitsAre
  <2>2. H * q >= F * u
    <3>1. \A a, b, c \in Nat : a * (2 * b + c) = (2 * a) * b + a * c /\ a * c \in Nat
      BY Z3
    <3>2. q - 2 * u \in Nat /\ q = 2 * u + (q - 2 * u)
      BY <1>4, <2>1
    <3>3. H * q = (2 * H) * u + H * (q - 2 * u) /\ H * (q - 2 * u) \in Nat
      BY <1>4, <3>1, <3>2
    <3>4. (2 * H) * u \in Nat
      BY <1>4, ProductIsNat
    <3> QED BY <1>4, <3>3, <3>4
  <2>3. F * u >= f /\ F * u \in Nat
    <3>1. F \in Nat /\ F >= m
      BY <1>3, <1>4
    <3>2. F * u >= m * u /\ F * u \in Nat
      BY <1>4, <3>1, TimesOrdered, ProductIsNat
    <3> QED BY <1>3, <3>2
  <2>4. k >= H
    <3> SUFFICES ASSUME k + 1 <= H PROVE FALSE
      BY <1>4
    <3>1. n >= (H * q) * d
      <4>1. \A a \in Nat, b \in Nat \ {0} : a \div b \in Nat /\ (a \div b) * b <= a
        BY Z3
      <4>2. n \div d \in Nat /\ (n \div d) * d <= n
        BY <4>1
      <4>3. H * q \in Nat
        BY <1>4, ProductIsNat
      <4>4. (n \div d) * d >= (H * q) * d
        BY <1>5, <2>1, <4>2, <4>3, TimesOrdered
      <4>5. (n \div d) * d \in Nat /\ (H * q) * d \in Nat
        BY <4>2, <4>3, ProductIsNat
      <4> QED BY <4>2, <4>4, <4>5
    <3>2. (H * q) * d = H * e /\ H * e \in Nat
      <4>1. \A a, b, c \in Nat : (a * b) * c = a * (b * c) /\ a * (b * c) \in Nat
        BY Z3
      <4> QED BY <1>4, <4>1
    <3>3. H * e >= (k + 1) * e
      BY <1>4, <1>6, TimesOrdered
    <3>4. (k + 1) * e = k * e + e
      <4>1. \A a, b \in Nat : (a + 1) * b = a * b + b
        BY Z3
      <4> QED BY <1>6, <4>1
    <3> HIDE DEF e
    <3> QED BY <1>2, <1>6, <3>1, <3>2, <3>3, <3>4
  <2>5. k * q >= H * q /\ H * q \in Nat
    BY <1>4, <2>4, TimesOrdered, ProductIsNat
  <2> QED BY <1>7, <2>2, <2>3, <2>5
<1>10. CASE ~(u < q)
  <2>1. \E j \in Nat : u = j * q
    <3>1. CASE u = q
      <4>1. u = 1 * q
        BY <1>4, <3>1
      <4> QED BY <4>1
    <3>2. CASE u # q
      <4>1. q < u
        BY <1>4, <1>10, <3>2
      <4> QED BY <1>3, <1>4, <4>1, UnitsAre
    <3> QED BY <3>1, <3>2
  <2>2. PICK j \in Nat : u = j * q
    BY <2>1
  <2> DEFINE c == m * j
  <2>3. c \in Nat /\ f = c * q
    <3>1. \A x, y, z \in Nat : x * (y * z) = (x * y) * z /\ x * y \in Nat
      BY Z3
    <3> QED BY <1>3, <1>4, <2>2, <3>1
  <2> HIDE DEF c
  <2>4. f * d = c * e
    <3>1. \A x, y, z \in Nat : (x * y) * z = x * (y * z)
      BY Z3
    <3> QED BY <1>4, <2>3, <3>1
  <2>5. c <= k
    <3> SUFFICES ASSUME c >= k + 1 PROVE FALSE
      BY <2>3
    <3>1. c * e >= (k + 1) * e
      BY <1>6, <2>3, TimesOrdered
    <3>2. (k + 1) * e = k * e + e
      <4>1. \A a, b \in Nat : (a + 1) * b = a * b + b
        BY Z3
      <4> QED BY <1>6, <4>1
    <3> HIDE DEF e
    <3>3. c * e \in Nat
      BY <1>6, <2>3, ProductIsNat
    <3> QED BY <1>2, <1>6, <2>4, <3>1, <3>2, <3>3
  <2>6. k * q >= c * q
    BY <1>4, <2>3, <2>5, TimesOrdered
  <2> QED BY <2>3, <2>6
<1> QED BY <1>9, <1>10

-----------------------------------------------------------------------------
(* DegradedPrice: what a degraded request pays.                             *)

LEMMA Whole == ASSUME NEW x \in Nat PROVE x \div 1 = x /\ x * 1 = x
  OBVIOUS

\* The number after the nearest float is no less than what was rounded.
LEMMA NextAfterIsAbove ==
  ASSUME NEW x \in Nat
  PROVE  NextAfter(Round(x, 1)) \in Nat /\ NextAfter(Round(x, 1)) >= x
<1> DEFINE t == Round(x, 1)
           q == Ulp(x, 1)
           F == Power[Bits]
           H == Power[Bits - 1]
<1> SUFFICES NextAfter(t) \in Nat /\ NextAfter(t) >= x
  OBVIOUS
<1>1. t \in Nat
  BY RoundIsFloat
<1>2. IsUlp(q, x)
  BY RoundIs, Whole
<1>3. q \in Nat \ {0} /\ q * 1 = q /\ H \in Nat /\ F \in Nat
  <2>1. q \in Nat \ {0}
    BY <1>2, UnitsAre DEF IsUlp
  <2> HIDE DEF q
  <2> QED BY <2>1, FullIs
<1>4. PICK k \in Nat : /\ k * (q * 1) <= x /\ x < k * (q * 1) + q * 1 /\ k < F
                       /\ t = k * q \/ t = (k + 1) * q
  BY RoundIs, SMTT(30)
<1>5. Ulp(t, 1) = UlpOf[t] /\ IsUlp(UlpOf[t], t)
  BY <1>1, UlpIs, Whole DEF Ulp
<1>6. UlpOf[t] \in Nat
  BY <1>5, UnitsAre DEF IsUlp
<1>7. NextAfter(t) = t + UlpOf[t]
  BY <1>5 DEF NextAfter
<1>8. k * (q * 1) = k * q
  BY <1>3
<1> HIDE DEF q
<1>9. k * q \in Nat /\ (k + 1) * q = k * q + q /\ q # 0
  <2>1. \A a, b \in Nat : a * b \in Nat /\ (a + 1) * b = a * b + b
    BY Z3
  <2> QED BY <1>3, <2>1
<1>10. CASE t = (k + 1) * q
  <2> HIDE DEF t
  <2> QED BY <1>1, <1>3, <1>4, <1>6, <1>7, <1>8, <1>9, <1>10
<1>11. CASE t = k * q
  <2>1. k * q < F * q
    <3> SUFFICES ASSUME k * q >= F * q PROVE FALSE
      BY <1>3, <1>9, ProductIsNat
    <3> HIDE DEF F
    <3>1. k >= F
      BY <1>3, TimesOrdered
    <3> QED BY <1>3, <1>4, <3>1
  <2>2. q = 1 \/ k * q >= H * q
    <3> SUFFICES ASSUME q # 1 PROVE k * q >= H * q
      OBVIOUS
    <3>1. x >= H * q
      BY <1>2 DEF IsUlp
    <3>2. H * q < (k + 1) * q
      <4>1. H * q \in Nat
        BY <1>3, ProductIsNat
      <4> HIDE DEF H
      <4> QED BY <1>3, <1>4, <1>8, <1>9, <3>1, <4>1
    <3>3. H <= k
      <4> SUFFICES ASSUME H >= k + 1 PROVE FALSE
        BY <1>3
      <4> HIDE DEF H
      <4>1. H * q >= (k + 1) * q
        BY <1>3, TimesOrdered
      <4>2. H * q \in Nat
        BY <1>3, ProductIsNat
      <4> QED BY <1>3, <1>9, <3>2, <4>1, <4>2
    <3> HIDE DEF H
    <3> QED BY <1>3, <3>3, TimesOrdered
  <2>3. IsUlp(q, t)
    BY <1>2, <1>11, <2>1, <2>2 DEF IsUlp
  <2>4. UlpOf[t] = q
    BY <1>1, <1>5, <2>3, UlpIsOne
  <2> HIDE DEF t
  <2> QED BY <1>3, <1>4, <1>7, <1>8, <1>9, <1>11, <2>4
<1> QED BY <1>4, <1>10, <1>11

LEMMA PriceCoversRatio ==
  ASSUME benefit \in Nat, cost \in Nat \ {0}, shadow \in Nat
  PROVE  EffectivePrice \in Nat /\ One + EffectivePrice >= PriceRatio /\ PriceRatio \in Nat
<1>1. One \in Nat /\ benefit * One \in Nat
  BY PriceAssumption, ProductIsNat
<1>2. PriceRatio \in Nat
  BY <1>1, RoundIsFloat DEF PriceRatio
<1>3. CASE PriceRatio > One
  <2>1. PriceRatio - One \in Nat /\ TierCutLine = Round(PriceRatio - One, 1)
    BY <1>1, <1>2, <1>3 DEF TierCutLine
  <2>2. NextAfter(TierCutLine) \in Nat /\ NextAfter(TierCutLine) >= PriceRatio - One
    BY <2>1, NextAfterIsAbove
  <2> QED BY <1>1, <1>2, <2>1, <2>2 DEF EffectivePrice, Higher
<1>4. CASE ~(PriceRatio > One)
  <2>1. TierCutLine = 0
    BY <1>4 DEF TierCutLine
  <2>2. UlpOf[0] \in Nat /\ Ulp(0, 1) = UlpOf[0]
    BY UlpIs, UnitsAre, Whole DEF IsUlp, Ulp
  <2>3. NextAfter(TierCutLine) \in Nat
    BY <2>1, <2>2 DEF NextAfter
  <2> QED BY <1>1, <1>2, <1>4, <2>3 DEF EffectivePrice, Higher
<1> QED BY <1>3, <1>4

\* The cost at a price of the ratio or more falls a unit short of the benefit at most.
LEMMA AdjustedCovers ==
  ASSUME NEW b \in Nat, Round(b, 1) = b, NEW c \in Nat \ {0}, NEW p \in Nat,
         One + p >= Round(b * One, c)
  PROVE  b <= Round(Round(One + p, 1) * c, One) + Ulp(b, 1)
<1> DEFINE n == b * One
           r == Round(n, c)
           R == Round(One + p, 1)
           u == Ulp(b, 1)
           q == Ulp(n, c)
           e == q * c
           F == Power[Bits]
           H == Power[Bits - 1]
           A == Round(R * c, One)
<1> SUFFICES b <= A + u
  OBVIOUS
<1>1. /\ One \in Nat \ {0} /\ One >= H /\ H \in Nat \ {0} /\ F = 2 * H /\ n \in Nat
  BY PriceAssumption, FullIs, ProductIsNat
<1>2. r \in Nat /\ IsFloat(r) /\ R \in Nat /\ One + p \in Nat
  BY <1>1, RoundIsFloat
<1>3. R >= r
  <2>1. One + p >= r
    OBVIOUS
  <2> HIDE DEF r
  <2>2. r * 1 <= One + p
    BY <1>2, <2>1
  <2> QED BY <1>2, <2>2, RoundIsMonotone
<1>4. R >= One
  <2>1. IsFloat(One) /\ One * 1 = One /\ One * 1 <= One + p
    BY <1>1, RoundIsFloat, PriceAssumption
  <2> QED BY <1>1, <1>2, <2>1, RoundIsMonotone
<1>5. R * c \in Nat
  BY <1>2, ProductIsNat
<1>6. A \in Nat
  BY <1>1, <1>5, RoundIsFloat
<1>7. IsUlp(u, b) /\ u \in Nat \ {0} /\ b < F * u /\ F * u \in Nat
  <2>1. IsUlp(u, b)
    BY RoundIs, Whole
  <2>2. u \in Nat \ {0} /\ b < F * u
    BY <2>1, UnitsAre DEF IsUlp
  <2>3. F \in Nat
    BY FullIs
  <2> HIDE DEF u, F
  <2> QED BY <2>1, <2>2, <2>3, ProductIsNat
<1>8. IsUlp(q, n \div c) /\ q \in Nat \ {0}
  <2>1. IsUlp(q, n \div c)
    BY <1>1, RoundIs
  <2> QED BY <2>1, UnitsAre DEF IsUlp
<1>9. PICK k \in Nat : /\ k * (q * c) <= n /\ n < k * (q * c) + q * c /\ k < Power[Bits]
                       /\ \/ /\ Round(n, c) = k * q
                             /\ 2 * n <= 2 * (k * (q * c)) + q * c
                          \/ /\ Round(n, c) = (k + 1) * q
                             /\ 2 * n >= 2 * (k * (q * c)) + q * c
  <2> HIDE DEF n
  <2> QED BY <1>1, RoundIs
<1>10. e \in Nat /\ k * e \in Nat
  BY <1>8, ProductIsNat
<1>11. 2 * n <= 2 * (r * c) + e
  <2>1. \A x, y, z \in Nat : (x * y) * z = x * (y * z) /\ ((x + 1) * y) * z = x * (y * z) + y * z
    BY Z3
  <2>2. CASE r = k * q
    <3>1. r * c = k * e
      BY <1>8, <2>1, <2>2
    <3>2. 2 * n <= 2 * (k * e) + e
      <4>1. CASE Round(n, c) = (k + 1) * q
        <5>1. (k + 1) * q = k * q + q
          <6>1. \A x, y \in Nat : (x + 1) * y = x * y + y
            BY Z3
          <6> QED BY <1>8, <6>1
        <5>2. k * q \in Nat
          BY <1>8, ProductIsNat
        <5> QED BY <1>8, <2>2, <4>1, <5>1, <5>2
      <4> QED BY <1>9, <4>1
    <3> QED BY <3>1, <3>2
  <2>3. CASE r = (k + 1) * q
    <3>1. r * c = k * e + e
      BY <1>8, <2>1, <2>3
    <3>2. n <= k * e + e
      BY <1>1, <1>9, <1>10
    <3> HIDE DEF n, e, r
    <3> QED BY <1>1, <1>10, <3>1, <3>2
  <2> QED BY <1>9, <2>2, <2>3
<1>12. r * c <= R * c /\ One * c <= R * c /\ r * c \in Nat /\ One * c \in Nat
  <2> HIDE DEF r, R
  <2> QED BY <1>1, <1>2, <1>3, <1>4, TimesOrdered, ProductIsNat
<1>13. CASE b <= u
  <2> HIDE DEF A, u
  <2> QED BY <1>6, <1>7, <1>13
<1>14. CASE ~(b <= u)
  <2> DEFINE f == b - u
  <2>1. f \in Nat
    BY <1>7, <1>14
  <2>2. f * One \in Nat /\ u * One \in Nat /\ n = f * One + u * One
    <3>1. \A x, y, z \in Nat : (x + y) * z = x * z + y * z /\ x * z \in Nat /\ y * z \in Nat
      BY Z3
    <3>2. b = f + u
      BY <1>7
    <3> HIDE DEF f, u
    <3> QED BY <1>1, <1>7, <2>1, <3>1, <3>2
  <2>3. IsFloat(f)
    <3>1. PICK j \in Nat : j < F /\ (b = j * u \/ b = (j + 1) * u)
      BY RoundIs
    <3>2. u \in Units
      BY <1>7 DEF IsUlp
    <3>3. \A x, y \in Nat : (x + 1) * y = x * y + y /\ x * y \in Nat /\ 0 * y = 0
      BY Z3
    <3>4. CASE b = (j + 1) * u
      <4>1. f = j * u /\ j <= F
        BY <1>1, <1>7, <3>1, <3>3, <3>4
      <4> QED BY <3>2, <4>1 DEF IsFloat
    <3>5. CASE b = j * u
      <4>1. j # 0
        BY <1>7, <1>14, <3>3, <3>5
      <4>2. j - 1 \in Nat /\ (j - 1) + 1 = j
        BY <4>1
      <4>3. j * u = (j - 1) * u + u /\ (j - 1) * u \in Nat
        BY <1>7, <3>3, <4>2
      <4>4. f = (j - 1) * u /\ j - 1 <= F
        BY <1>1, <1>7, <3>1, <3>5, <4>3
      <4> QED BY <3>2, <4>2, <4>4 DEF IsFloat
    <3> QED BY <3>1, <3>4, <3>5
  <2>4. f * One <= R * c
    <3>1. CASE n \div c < H
      <4>1. \A x \in Nat, y \in Nat \ {0} :
              x \div y \in Nat /\ x < (x \div y) * y + y /\ (x \div y) * y \in Nat
        BY Z3
      <4> DEFINE w == n \div c
      <4>2. w \in Nat /\ n < w * c + c /\ w * c \in Nat
        BY <1>1, <4>1
      <4> HIDE DEF w, H
      <4>3. One >= w + 1
        BY <1>1, <3>1, <4>2 DEF w
      <4>4. One * c >= (w + 1) * c
        BY <1>1, <4>2, <4>3, TimesOrdered
      <4>5. (w + 1) * c = w * c + c
        <5>1. \A x, y \in Nat : (x + 1) * y = x * y + y
          BY Z3
        <5> QED BY <4>2, <5>1
      <4> HIDE DEF n, f, R, u
      <4> QED BY <1>1, <1>5, <1>12, <2>2, <4>2, <4>4, <4>5
    <3>2. CASE n \div c >= H * q
      <4>1. \A x \in Nat, y \in Nat \ {0} : x \div y \in Nat /\ (x \div y) * y <= x
        BY Z3
      <4> DEFINE w == n \div c
      <4>2. w \in Nat /\ w * c <= n /\ w * c \in Nat
        BY <1>1, <4>1, ProductIsNat
      <4>3. H * q \in Nat
        BY <1>1, <1>8, ProductIsNat
      <4> HIDE DEF w
      <4>4. w * c >= (H * q) * c
        BY <3>2, <4>2, <4>3, TimesOrdered DEF w
      <4>5. (H * q) * c = H * e /\ H * e \in Nat
        <5>1. \A x, y, z \in Nat : (x * y) * z = x * (y * z)
          BY Z3
        <5> QED BY <1>1, <1>8, <1>10, <5>1, ProductIsNat
      <4>6. H * e <= n
        <5> HIDE DEF n, e, H
        <5> QED BY <1>1, <4>2, <4>4, <4>5
      <4>7. n <= (F * u) * One
        <5>1. F * u >= b
          BY <1>7
        <5> HIDE DEF F, u
        <5> QED BY <1>1, <1>7, <5>1, TimesOrdered
      <4>8. (F * u) * One = (2 * (u * One)) * H /\ H * e = e * H /\ 2 * (u * One) \in Nat
        <5>1. \A x, y, z \in Nat : ((2 * x) * y) * z = (2 * (y * z)) * x
          BY Z3
        <5>2. \A x, y \in Nat : x * y = y * x
          BY Z3
        <5> HIDE DEF u, e
        <5> QED BY <1>1, <1>7, <1>10, <2>2, <5>1, <5>2
      <4>9. (2 * (u * One)) * H >= e * H
        <5>1. (2 * (u * One)) * H \in Nat
          BY <1>1, <4>8, ProductIsNat
        <5> HIDE DEF n, u, e, F, H
        <5> QED BY <1>1, <4>5, <4>6, <4>7, <4>8, <5>1
      <4>10. 2 * (u * One) >= e
        <5> HIDE DEF u, e, H
        <5> QED BY <1>1, <1>10, <4>8, <4>9, TimesOrdered
      <4> HIDE DEF n, u, e, f, R, r
      <4> QED BY <1>1, <1>5, <1>10, <1>11, <1>12, <2>2, <4>10
    <3>3. n \div c < H \/ n \div c >= H * q
      <4>1. n \div c \in Nat
        <5>1. \A x \in Nat, y \in Nat \ {0} : x \div y \in Nat
          BY Z3
        <5> QED BY <1>1, <5>1
      <4>2. q = 1 \/ n \div c >= H * q
        BY <1>8 DEF IsUlp
      <4>3. H * 1 = H
        BY <1>1
      <4> QED BY <1>1, <4>1, <4>2, <4>3
    <3> QED BY <3>1, <3>2, <3>3
  <2>5. f <= A
    <3> HIDE DEF f, R
    <3> QED BY <1>1, <1>5, <2>1, <2>3, <2>4, RoundIsMonotone
  <2> HIDE DEF A, u
  <2> QED BY <1>6, <1>7, <2>5
<1> QED BY <1>13, <1>14

PricedRight ==
  /\ benefit \in Nat /\ Round(benefit, 1) = benefit
  /\ cost \in Nat \ {0} /\ shadow \in Nat
  /\ pc \in {"price", "adjust", "done"}
  /\ pc # "price" => price = EffectivePrice
  /\ pc = "done" => adjusted = Round(Round(One + EffectivePrice, 1) * cost, One)

\* For any number of significant bits, and whatever the benefit, the cost and the
\* shadow price: the adjusted cost at a degraded request's price falls short of
\* the benefit by at most a unit in its last place, so `benefit > adjusted_cost`
\* lets nothing through but rounding.
THEOREM PricedOutAlways == PriceSpec => []PricedOutUpToRounding
<1>1. PriceInit => PricedRight
  BY PriceAssumption DEF PriceInit, PricedRight, Float
<1>2. PricedRight /\ [PriceNext]_priceVars => PricedRight'
  <2> SUFFICES ASSUME PricedRight, [PriceNext]_priceVars PROVE PricedRight'
    OBVIOUS
  <2>1. CASE PriceOut
    <3>1. EffectivePrice' = EffectivePrice
      BY <2>1 DEF PriceOut, EffectivePrice, TierCutLine, PriceRatio
    <3> QED BY <2>1, <3>1 DEF PriceOut, PricedRight
  <2>2. CASE Adjust
    <3>1. EffectivePrice' = EffectivePrice
      BY <2>2 DEF Adjust, EffectivePrice, TierCutLine, PriceRatio
    <3> QED BY <2>2, <3>1 DEF Adjust, PricedRight
  <2>3. CASE UNCHANGED priceVars
    <3>1. EffectivePrice' = EffectivePrice
      BY <2>3 DEF priceVars, EffectivePrice, TierCutLine, PriceRatio
    <3> QED BY <2>3, <3>1 DEF priceVars, PricedRight
  <2> QED BY <2>1, <2>2, <2>3 DEF PriceNext
<1>3. PricedRight => PricedOutUpToRounding
  <2> SUFFICES ASSUME PricedRight, pc = "done" PROVE benefit <= adjusted + Ulp(benefit, 1)
    BY DEF PricedOutUpToRounding
  <2>1. /\ EffectivePrice \in Nat /\ One + EffectivePrice >= Round(benefit * One, cost)
        /\ benefit \in Nat /\ Round(benefit, 1) = benefit /\ cost \in Nat \ {0}
        /\ adjusted = Round(Round(One + EffectivePrice, 1) * cost, One)
    BY PriceCoversRatio DEF PricedRight, PriceRatio
  <2> QED BY <2>1, AdjustedCovers
<1> QED BY <1>1, <1>2, <1>3, PTL DEF PriceSpec
=============================================================================
