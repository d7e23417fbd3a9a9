------------------------- MODULE LedgerStoreProofs --------------------------
(***************************************************************************)
(* Theorems about LedgerStore for any number of processes and threads, any *)
(* set of records, any hash function and any combination of faults: the    *)
(* chain and its transactions first, then what becomes of each record.     *)
(***************************************************************************)
EXTENDS LedgerStore, TLAPS

Writing == {"select", "insert", "delete", "commit"}

(***************************************************************************)
(* ChainIntact is not inductive: that Insert extends the chain depends on  *)
(* the hash the same thread selected two statements earlier, and on no     *)
(* other thread of the process having written to the connection since.     *)
(* Sections states that a thread between BEGIN and COMMIT holds its        *)
(* process's lock, has the transaction open, and selected the last hash.   *)
(***************************************************************************)
Sections ==
  \A t \in Thread :
    /\ pc[t] \in Writing \cup {"begin"} => lock[Owner[t]] = t
    /\ pc[t] \in Writing => inTxn[Owner[t]]
    /\ pc[t] \in {"select", "insert"} => rec[t] # NoRecord
    /\ pc[t] = "insert" => prev[t] = LastHash(view[Owner[t]])

Chains ==
  /\ Chained(rows)
  /\ \A p \in Process : Chained(view[p])
  /\ \A s \in recoverable : Chained(s)

IInv == TypeOK /\ Sections /\ Chains

-----------------------------------------------------------------------------
(* The hash chain.                                                         *)

\* An empty table is a chain.
LEMMA EmptyChained == <<>> \in Seq(Row) /\ Chained(<<>>)
  BY DEF Chained, Broken

\* The hash selected as the predecessor is a digest, or GENESIS_HASH.
LEMMA LastHashType == ASSUME NEW s \in Seq(Row) PROVE LastHash(s) \in Digest
<1>1. CASE s = <<>>
  BY <1>1, ConstantsAssumption DEF LastHash
<1>2. CASE s # <<>>
  <2>1. Len(s) \in 1..Len(s) /\ s[Len(s)] \in Row
    BY <1>2
  <2>2. QED
    BY <1>2, <2>1 DEF LastHash, Row
<1>3. QED
  BY <1>1, <1>2

\* A row built on the last hash extends a chain: what _append inserts.
LEMMA AppendChained ==
  ASSUME NEW s \in Seq(Row), Chained(s), NEW r \in Record
  PROVE  /\ Append(s, NewRow(r, LastHash(s))) \in Seq(Row)
         /\ Chained(Append(s, NewRow(r, LastHash(s))))
<1> DEFINE p == LastHash(s)
           n == NewRow(r, p)
           u == Append(s, n)
<1>1. p \in Digest
  BY LastHashType
<1>2. n \in Row
  BY <1>1, ConstantsAssumption DEF NewRow, Row
<1>3. u \in Seq(Row) /\ Len(u) = Len(s) + 1 /\ DOMAIN u = 1..(Len(s) + 1)
  BY <1>2
<1>4. ASSUME NEW i \in DOMAIN u
      PROVE  u[i].previous = PreviousOf(u, i) /\ u[i].digest = Hash(u[i].previous, u[i].record)
  <2>1. CASE i = Len(s) + 1
    <3>1. u[i] = n
      BY <2>1, <1>2
    <3>2. PreviousOf(u, i) = p
      <4>1. CASE s = <<>>
        BY <4>1, <2>1 DEF PreviousOf, LastHash
      <4>2. CASE s # <<>>
        <5>1. i # 1 /\ i - 1 = Len(s) /\ Len(s) \in 1..Len(s)
          BY <4>2, <2>1
        <5>2. u[i - 1] = s[Len(s)]
          BY <5>1, <1>2
        <5>3. QED
          BY <4>2, <5>1, <5>2 DEF PreviousOf, LastHash
      <4>3. QED
        BY <4>1, <4>2
    <3>3. QED
      BY <3>1, <3>2 DEF NewRow
  <2>2. CASE i \in 1..Len(s)
    <3>1. u[i] = s[i] /\ i \in DOMAIN s
      BY <2>2, <1>2
    <3>2. i # 1 => u[i - 1] = s[i - 1]
      BY <2>2, <1>2
    <3>3. i \notin Broken(s)
      BY DEF Chained
    <3>4. QED
      BY <3>1, <3>2, <3>3 DEF Broken, PreviousOf
  <2>3. QED
    BY <2>1, <2>2, <1>3
<1>5. QED
  BY <1>3, <1>4 DEF Chained, Broken

\* verify() accepts exactly the chains.
LEMMA VerifyAcceptsChains == ASSUME NEW s PROVE Verify(s).ok <=> Chained(s)
  BY DEF Verify

-----------------------------------------------------------------------------
LEMMA InitIInv == Init => IInv
<1> SUFFICES ASSUME Init PROVE IInv
  OBVIOUS
<1>1. TypeOK
  BY EmptyChained, ConstantsAssumption DEF Init, TypeOK
<1>2. Sections
  BY DEF Init, Sections, Writing
<1>3. Chains
  BY EmptyChained DEF Init, Chains
<1>4. QED
  BY <1>1, <1>2, <1>3 DEF IInv

-----------------------------------------------------------------------------
(* One lemma per action.  Most steps leave every table alone; then Chains is *)
(* kept because the tables are kept, and TypeOK and Sections by inspection.  *)

LEMMA CallStep ==
  ASSUME IInv, NEW t \in Thread, CallAppend(t) \/ CallReset(t)
  PROVE  IInv'
<1>1. TypeOK'
  BY DEF IInv, TypeOK, CallAppend, CallReset
<1>2. Sections'
  BY DEF IInv, TypeOK, Sections, Writing, CallAppend, CallReset
<1>3. Chains'
  BY DEF IInv, Chains, CallAppend, CallReset
<1>4. QED
  BY <1>1, <1>2, <1>3 DEF IInv

\* A thread inside the with block disturbs no other one: two threads of one
\* process are never both inside, and two processes share neither lock nor view.
LEMMA SameProcess ==
  ASSUME IInv, NEW t \in Thread, pc[t] \in Writing \cup {"begin"},
         NEW u \in Thread, pc[u] \in Writing \cup {"begin"}, Owner[u] = Owner[t]
  PROVE  u = t
  BY DEF IInv, Sections

LEMMA AcquireStep ==
  ASSUME IInv, NEW t \in Thread, Acquire(t)
  PROVE  IInv'
<1>1. TypeOK'
  BY ConstantsAssumption DEF IInv, TypeOK, Acquire
<1>2. Sections'
  <2> SUFFICES ASSUME NEW u \in Thread PROVE Sections!(u)'
    BY DEF Sections
  <2>1. CASE u = t
    BY <2>1, ConstantsAssumption DEF IInv, TypeOK, Sections, Writing, Acquire
  <2>2. CASE u # t
    BY <2>2, ConstantsAssumption DEF IInv, TypeOK, Sections, Writing, Acquire
  <2>3. QED
    BY <2>1, <2>2
<1>3. Chains'
  BY DEF IInv, Chains, Acquire
<1>4. QED
  BY <1>1, <1>2, <1>3 DEF IInv

LEMMA BeginStep ==
  ASSUME IInv, NEW t \in Thread, Begin(t)
  PROVE  IInv'
<1>1. TypeOK'
  BY ConstantsAssumption DEF IInv, TypeOK, Begin, BeginTxn
<1>2. Sections'
  BY ConstantsAssumption DEF IInv, TypeOK, Sections, Writing, Begin, BeginTxn, WriterFree
<1>3. Chains'
  BY ConstantsAssumption DEF IInv, TypeOK, Chains, Begin, BeginTxn
<1>4. QED
  BY <1>1, <1>2, <1>3 DEF IInv

\* Raise leaves the with block: the thread's own sections end, and a thread
\* of another process, or one waiting for the lock, keeps its own.
LEMMA RaiseStep ==
  ASSUME IInv, NEW t \in Thread, Raise(t), pc[t] \in Writing \cup {"begin"},
         UNCHANGED <<rows, fresh, acked, recoverable>>,
         \/ EndTxn(t)
         \/ inTxn' = inTxn /\ view' \in {view, [view EXCEPT ![Owner[t]] = <<>>]}
  PROVE  IInv'
<1>1. TypeOK'
  <2>1. inTxn' \in [Process -> BOOLEAN]
    BY DEF IInv, TypeOK, EndTxn
  <2>5. view' \in [Process -> Seq(Row)]
    BY EmptyChained DEF IInv, TypeOK, EndTxn
  <2>2. raised' \subseteq Record
    <3>1. {rec[t]} \ {NoRecord} \subseteq Record
      BY DEF IInv, TypeOK
    <3>2. QED
      BY <3>1 DEF IInv, TypeOK, Raise
  <2>3. /\ lock' \in [Process -> Thread \cup {NoThread}]
        /\ rec' \in [Thread -> Record \cup {NoRecord}]
        /\ prev' \in [Thread -> Digest]
    BY ConstantsAssumption DEF IInv, TypeOK, Raise, Leave
  <2>4. QED
    BY <2>1, <2>2, <2>3, <2>5 DEF IInv, TypeOK, Raise, Leave
<1>2. Sections'
  <2> SUFFICES ASSUME NEW u \in Thread PROVE Sections!(u)'
    BY DEF Sections
  <2>1. CASE u = t
    BY <2>1 DEF IInv, TypeOK, Writing, Raise, Leave
  <2>2. CASE pc[u] \notin Writing \cup {"begin"}
    BY <2>1, <2>2 DEF IInv, TypeOK, Writing, Raise, Leave
  <2>3. CASE u # t /\ pc[u] \in Writing \cup {"begin"}
    <3>1. Owner[u] # Owner[t]
      BY <2>3, SameProcess
    <3>2. /\ lock'[Owner[u]] = lock[Owner[u]] /\ pc'[u] = pc[u]
          /\ rec'[u] = rec[u] /\ prev'[u] = prev[u]
          /\ inTxn'[Owner[u]] = inTxn[Owner[u]] /\ view'[Owner[u]] = view[Owner[u]]
      BY <2>3, <3>1, ConstantsAssumption DEF IInv, TypeOK, Raise, Leave, EndTxn
    <3>3. QED
      BY <3>2 DEF IInv, Sections
  <2>4. QED
    BY <2>1, <2>2, <2>3
<1>3. Chains'
  BY EmptyChained, ConstantsAssumption DEF IInv, TypeOK, Chains, Raise, Leave, EndTxn
<1>4. QED
  BY <1>1, <1>2, <1>3 DEF IInv

LEMMA SelectPreviousStep ==
  ASSUME IInv, NEW t \in Thread, SelectPrevious(t)
  PROVE  IInv'
<1>1. LastHash(view[Owner[t]]) \in Digest
  BY LastHashType, ConstantsAssumption DEF IInv, TypeOK
<1>2. TypeOK'
  BY <1>1, ConstantsAssumption DEF IInv, TypeOK, SelectPrevious
<1>3. Sections'
  BY ConstantsAssumption DEF IInv, TypeOK, Sections, Writing, SelectPrevious
<1>4. Chains'
  BY DEF IInv, Chains, SelectPrevious
<1>5. QED
  BY <1>2, <1>3, <1>4 DEF IInv

LEMMA InsertStep ==
  ASSUME IInv, NEW t \in Thread, Insert(t)
  PROVE  IInv'
<1> DEFINE p == Owner[t]
           new == Append(view[p], NewRow(rec[t], LastHash(view[p])))
<1>1. /\ p \in Process /\ view[p] \in Seq(Row) /\ Chained(view[p])
      /\ rec[t] \in Record /\ prev[t] = LastHash(view[p])
      /\ pc[t] = "insert" /\ inTxn[p]
  BY ConstantsAssumption DEF IInv, TypeOK, Sections, Chains, Insert, Writing
<1>2. new \in Seq(Row) /\ Chained(new)
  BY <1>1, AppendChained
<1>3. view' = [view EXCEPT ![p] = new]
  BY <1>1 DEF Insert
<1>4. TypeOK'
  BY <1>1, <1>2, <1>3 DEF IInv, TypeOK, Insert
<1>5. Sections'
  BY <1>1, <1>3, SameProcess, ConstantsAssumption
  DEF IInv, TypeOK, Sections, Writing, Insert
<1>6. Chains'
  BY <1>1, <1>2, <1>3 DEF IInv, TypeOK, Chains, Insert
<1>7. QED
  BY <1>4, <1>5, <1>6 DEF IInv

LEMMA DeleteStep ==
  ASSUME IInv, NEW t \in Thread, Delete(t)
  PROVE  IInv'
<1>1. /\ Owner[t] \in Process /\ pc[t] = "delete"
      /\ view' = [view EXCEPT ![Owner[t]] = <<>>]
  BY ConstantsAssumption DEF Delete
<1>2. TypeOK'
  BY <1>1, EmptyChained DEF IInv, TypeOK, Delete
<1>3. Sections'
  BY <1>1, SameProcess, ConstantsAssumption
  DEF IInv, TypeOK, Sections, Writing, Delete
<1>4. Chains'
  BY <1>1, EmptyChained DEF IInv, TypeOK, Chains, Delete
<1>5. QED
  BY <1>2, <1>3, <1>4 DEF IInv

LEMMA CommitStep ==
  ASSUME IInv, NEW t \in Thread, Commit(t)
  PROVE  IInv'
<1>1. /\ Owner[t] \in Process /\ pc[t] = "commit"
      /\ view[Owner[t]] \in Seq(Row) /\ Chained(view[Owner[t]])
  BY ConstantsAssumption DEF IInv, TypeOK, Chains, Commit, EndTxn
<1>2. acked' \subseteq Digest
  BY ConstantsAssumption DEF IInv, TypeOK, Commit
<1>3. TypeOK'
  BY <1>1, <1>2, EmptyChained, ConstantsAssumption
  DEF IInv, TypeOK, Commit, Leave, EndTxn
<1>4. Sections'
  BY <1>1, SameProcess, ConstantsAssumption
  DEF IInv, TypeOK, Sections, Writing, Commit, Leave, EndTxn
<1>5. Chains'
  BY <1>1, EmptyChained DEF IInv, TypeOK, Chains, Commit, EndTxn
<1>6. QED
  BY <1>3, <1>4, <1>5 DEF IInv

\* A crash or a loss of power stops the processes P.
LEMMA StoppedStep ==
  ASSUME IInv, NEW P \in SUBSET Process, Stopped(P),
         rows' \in Seq(Row), Chained(rows'), acked' \subseteq Digest,
         recoverable' \subseteq Seq(Row), \A s \in recoverable' : Chained(s)
  PROVE  IInv'
<1>1. TypeOK'
  BY EmptyChained, ConstantsAssumption DEF IInv, TypeOK, Stopped
<1>2. Sections'
  BY ConstantsAssumption DEF IInv, TypeOK, Sections, Writing, Stopped
<1>3. Chains'
  BY EmptyChained DEF IInv, TypeOK, Chains, Stopped
<1>4. QED
  BY <1>1, <1>2, <1>3 DEF IInv

-----------------------------------------------------------------------------
LEMMA NextIInv == IInv /\ [Next]_vars => IInv'
<1> SUFFICES ASSUME IInv, [Next]_vars PROVE IInv'
  OBVIOUS
<1>1. ASSUME NEW t \in Thread, CallAppend(t) \/ CallReset(t) PROVE IInv'
  BY <1>1, CallStep
<1>2. ASSUME NEW t \in Thread, Step(t) PROVE IInv'
  <2>1. CASE Acquire(t)
    BY <2>1, AcquireStep
  <2>2. CASE Begin(t)
    BY <2>2, BeginStep
  <2>3. CASE BeginRaises(t)
    BY <2>3, RaiseStep DEF BeginRaises
  <2>4. CASE SelectPrevious(t)
    BY <2>4, SelectPreviousStep
  <2>5. CASE Insert(t)
    BY <2>5, InsertStep
  <2>6. CASE StatementRaises(t)
    BY <2>6, RaiseStep DEF StatementRaises, Writing
  <2>7. CASE Delete(t)
    BY <2>7, DeleteStep
  <2>8. CASE DeleteRaises(t)
    <3>1. inTxn' = inTxn /\ view' \in {view, [view EXCEPT ![Owner[t]] = <<>>]}
      BY <2>8 DEF DeleteRaises
    <3> QED BY <2>8, <3>1, RaiseStep DEF DeleteRaises, Writing
  <2>9. CASE Commit(t)
    BY <2>9, CommitStep
  <2>10. CASE CommitRaises(t)
    BY <2>10, RaiseStep DEF CommitRaises, Writing
  <2>11. QED
    BY <1>2, <2>1, <2>2, <2>3, <2>4, <2>5, <2>6, <2>7, <2>8, <2>9, <2>10 DEF Step
<1>3. ASSUME NEW p \in Process, Crash(p) PROVE IInv'
  BY <1>3, StoppedStep DEF Crash, IInv, TypeOK, Chains
<1>4. CASE Checkpoint
  BY <1>4 DEF Checkpoint, IInv, TypeOK, Sections, Chains
<1>5. CASE PowerLoss
  BY <1>5, StoppedStep DEF PowerLoss, IInv, TypeOK, Chains
<1>6. CASE UNCHANGED vars
  BY <1>6 DEF vars, IInv, TypeOK, Sections, Chains
<1>7. QED
  BY <1>1, <1>2, <1>3, <1>4, <1>5, <1>6 DEF Next

\* Every variable keeps its type.
THEOREM TypeCorrect == Spec => []TypeOK
<1>1. IInv => TypeOK
  BY DEF IInv
<1>2. QED
  BY <1>1, InitIInv, NextIInv, PTL DEF Spec

\* verify() holds in every state, for every process that looks and after any
\* crash or loss of power: appends of any number of threads and processes,
\* whatever statements raise, never fork or break the chain.
THEOREM ChainAlwaysIntact == Spec => []ChainIntact
<1>1. IInv => ChainIntact
  BY VerifyAcceptsChains DEF IInv, Chains, ChainIntact, Visible
<1>2. QED
  BY <1>1, InitIInv, NextIInv, PTL DEF Spec

-----------------------------------------------------------------------------
(* Transactions.  Only BEGIN opens one, and only while none is open.         *)

LEMMA OnlyBeginOpens ==
  ASSUME IInv, [Next]_vars, NEW p \in Process, inTxn'[p], ~inTxn[p]
  PROVE  \E t \in Thread : Owner[t] = p /\ Begin(t)
<1>1. CASE \E t \in Thread : Begin(t)
  BY <1>1, ConstantsAssumption DEF IInv, TypeOK, Begin, BeginTxn
<1>2. ASSUME NEW t \in Thread, Step(t), ~Begin(t) PROVE FALSE
  BY <1>2, ConstantsAssumption
  DEF IInv, TypeOK, Step, Acquire, BeginRaises, SelectPrevious, Insert, StatementRaises,
      Delete, DeleteRaises, Commit, CommitRaises, EndTxn
<1>3. CASE \E t \in Thread : CallAppend(t) \/ CallReset(t)
  BY <1>3 DEF CallAppend, CallReset
<1>4. CASE (\E q \in Process : Crash(q)) \/ PowerLoss
  BY <1>4 DEF Crash, PowerLoss, Stopped
<1>5. CASE Checkpoint \/ UNCHANGED vars
  BY <1>5 DEF Checkpoint, vars
<1> QED BY <1>1, <1>2, <1>3, <1>4, <1>5 DEF Next

\* The append transaction is exclusive: two connections never write at once,
\* whatever a process leaves open and whoever crashes.
THEOREM OnlyOneWriter == Spec => []OneWriter
<1>1. Init => OneWriter
  BY DEF Init, OneWriter
<1>2. IInv /\ OneWriter /\ [Next]_vars => OneWriter'
  <2> SUFFICES ASSUME IInv, OneWriter, [Next]_vars,
                      NEW p \in Process, NEW q \in Process, inTxn'[p], inTxn'[q], p # q
               PROVE  FALSE
    BY DEF OneWriter
  <2>1. CASE inTxn[p] /\ inTxn[q]
    BY <2>1 DEF OneWriter
  <2>2. ASSUME NEW o \in Process, inTxn'[o], ~inTxn[o], NEW r \in Process, inTxn'[r], r # o
        PROVE  FALSE
    <3>1. PICK t \in Thread : Owner[t] = o /\ Begin(t)
      BY <2>2, OnlyBeginOpens
    <3>2. ~inTxn'[r]
      BY <2>2, <3>1 DEF IInv, TypeOK, Begin, BeginTxn, WriterFree
    <3> QED BY <2>2, <3>2
  <2> QED BY <2>1, <2>2
<1> QED BY <1>1, <1>2, InitIInv, NextIInv, PTL DEF Spec

\* Where DELETE and commit do not raise, an open transaction belongs to a
\* thread inside the with block.
Attended ==
  \A p \in Process :
    inTxn[p] /\ Faults[p] \cap {"delete", "commit"} = {} =>
      \E t \in Thread : Owner[t] = p /\ pc[t] \in Writing

\* A transaction stays attended when its thread moves on within the block, and
\* the threads of other processes are left alone.
LEMMA AttendedStep ==
  ASSUME IInv, Attended, NEW t \in Thread, Step(t)
  PROVE  Attended'
<1> SUFFICES ASSUME NEW p \in Process, inTxn'[p],
                    Faults[p] \cap {"delete", "commit"} = {}
             PROVE  \E u \in Thread : Owner[u] = p /\ pc'[u] \in Writing
  BY DEF Attended
<1>1. CASE ~inTxn[p]
  <2>1. PICK u \in Thread : Owner[u] = p /\ Begin(u)
    BY <1>1, OnlyBeginOpens DEF Next
  <2>2. pc'[u] \in Writing
    BY <2>1 DEF Begin, BeginTxn, IInv, TypeOK, Writing
  <2> QED BY <2>1, <2>2
<1>2. CASE inTxn[p]
  <2>1. PICK u \in Thread : Owner[u] = p /\ pc[u] \in Writing
    BY <1>2 DEF Attended
  <2>2. CASE u # t
    <3>1. pc'[u] = pc[u]
      BY <2>2 DEF IInv, TypeOK, Step, Acquire, Begin, BeginTxn, BeginRaises, SelectPrevious, Insert,
            StatementRaises, Delete, DeleteRaises, Commit, CommitRaises, Raise, Leave
    <3> QED BY <2>1, <3>1
  <2>3. CASE u = t
    <3>1. pc[t] \in Writing /\ Owner[t] = p
      BY <2>1, <2>3
    <3>2. ~StatementRaises(t) /\ ~Commit(t)
      BY <3>1 DEF IInv, TypeOK, StatementRaises, Commit, EndTxn
    <3>3. ~DeleteRaises(t) /\ ~CommitRaises(t)
      BY <3>1 DEF DeleteRaises, CommitRaises
    <3>4. SelectPrevious(t) \/ Insert(t) \/ Delete(t)
      BY <3>1, <3>2, <3>3 DEF Step, Acquire, Begin, BeginTxn, BeginRaises, Writing
    <3>5. pc'[t] \in Writing
      BY <3>4 DEF SelectPrevious, Insert, Delete, IInv, TypeOK, Writing
    <3> QED BY <3>1, <3>5
  <2> QED BY <2>2, <2>3
<1> QED BY <1>1, <1>2

\* No transaction outlives the with block that began it, in every process where
\* DELETE and commit do not raise.
THEOREM TxnAlwaysEnds == Spec => []TxnEndsWithLock
<1>1. Init => Attended
  BY DEF Init, Attended
<1>2. IInv /\ Attended /\ [Next]_vars => Attended'
  <2> SUFFICES ASSUME IInv, Attended, [Next]_vars PROVE Attended'
    OBVIOUS
  <2>1. ASSUME NEW t \in Thread, CallAppend(t) \/ CallReset(t) PROVE Attended'
    BY <2>1, SMTT(30), ZenonT(30) DEF CallAppend, CallReset, IInv, TypeOK, Attended, Writing
  <2>2. ASSUME NEW t \in Thread, Step(t) PROVE Attended'
    BY <2>2, AttendedStep
  <2>3. CASE (\E q \in Process : Crash(q)) \/ PowerLoss
    <3>1. PICK P \in SUBSET Process : Stopped(P)
      BY <2>3 DEF Crash, PowerLoss
    <3> SUFFICES ASSUME NEW p \in Process, inTxn'[p],
                        Faults[p] \cap {"delete", "commit"} = {}
                 PROVE  \E t \in Thread : Owner[t] = p /\ pc'[t] \in Writing
      BY DEF Attended
    <3>2. p \notin P /\ inTxn[p]
      BY <3>1 DEF Stopped
    <3>3. PICK t \in Thread : Owner[t] = p /\ pc[t] \in Writing
      BY <3>2 DEF Attended
    <3>4. pc'[t] = pc[t]
      BY <3>1, <3>2, <3>3 DEF Stopped
    <3> QED BY <3>3, <3>4
  <2>4. CASE Checkpoint \/ UNCHANGED vars
    BY <2>4 DEF Checkpoint, vars, Attended
  <2> QED BY <2>1, <2>2, <2>3, <2>4 DEF Next
<1>3. IInv /\ Attended => TxnEndsWithLock
  BY ConstantsAssumption DEF IInv, Sections, Attended, TxnEndsWithLock, Writing
<1> QED BY <1>1, <1>2, <1>3, InitIInv, NextIInv, PTL DEF Spec

-----------------------------------------------------------------------------
(* What becomes of the records callers submit.                              *)

RecordSet(s) == {s[i].record : i \in DOMAIN s}

(***************************************************************************)
(* Why neither property is inductive: a commit replaces the whole table by *)
(* the view of one connection.  Views states that the view of the writing  *)
(* thread is the committed table, plus its own row once it is inserted;    *)
(* Placed, that a record is fresh, in flight in one call, raised, or in    *)
(* tables, and only one of these.                                          *)
(***************************************************************************)
ViewOf(t) ==
  LET v == view[Owner[t]] IN
  /\ pc[t] \in {"select", "insert"} => v = rows
  /\ pc[t] = "commit" =>
       v = IF rec[t] = NoRecord THEN <<>> ELSE Append(rows, NewRow(rec[t], prev[t]))
  /\ pc[t] = "delete" => rec[t] = NoRecord

Views == \A t \in Thread : ViewOf(t)

InFlight == {rec[t] : t \in Thread} \ {NoRecord}

Placed ==
  /\ rows \in recoverable
  /\ \A s \in recoverable : RecordSet(s) \cap (fresh \cup raised \cup InFlight) = {}
  /\ fresh \cap raised = {}
  /\ InFlight \cap (fresh \cup raised) = {}
  /\ \A t, u \in Thread : rec[t] = rec[u] /\ rec[t] # NoRecord => t = u

RInv == IInv /\ OneWriter /\ Views /\ Placed

-----------------------------------------------------------------------------
LEMMA RecordsOfAppend ==
  ASSUME NEW s \in Seq(Row), NEW n \in Row
  PROVE  /\ RecordSet(Append(s, n)) = RecordSet(s) \cup {n.record}
         /\ DigestsOf(Append(s, n)) = DigestsOf(s) \cup {n.digest}
<1> DEFINE u == Append(s, n)
<1>1. /\ DOMAIN u = DOMAIN s \cup {Len(s) + 1}
      /\ u[Len(s) + 1] = n
      /\ \A i \in DOMAIN s : u[i] = s[i]
  OBVIOUS
<1> HIDE DEF u
<1>2. RecordSet(u) = RecordSet(s) \cup {n.record}
  BY <1>1 DEF RecordSet
<1>3. DigestsOf(u) = DigestsOf(s) \cup {n.digest}
  BY <1>1 DEF DigestsOf
<1> QED BY <1>2, <1>3 DEF u

\* A thread that is writing keeps its view while another one steps: it is the
\* only writer, so the table and its own connection stay as they are.
LEMMA OthersView ==
  ASSUME IInv, NEW u \in Thread, ViewOf(u),
         pc'[u] = pc[u] \/ pc'[u] = "idle", rec'[u] = rec[u] \/ pc'[u] = "idle",
         prev'[u] = prev[u] \/ pc'[u] = "idle",
         pc'[u] \in Writing => rows' = rows /\ view'[Owner[u]] = view[Owner[u]]
  PROVE  ViewOf(u)'
BY DEF ViewOf, Writing

\* A step that keeps the tables keeps Views, as far as the other threads go.
LEMMA TwoWriters ==
  ASSUME IInv, OneWriter, NEW t \in Thread, NEW u \in Thread, u # t,
         pc[t] \in Writing, pc[u] \in Writing
  PROVE  FALSE
<1>1. inTxn[Owner[t]] /\ inTxn[Owner[u]]
  BY DEF IInv, Sections
<1>2. Owner[t] = Owner[u]
  BY <1>1, ConstantsAssumption DEF OneWriter
<1> QED BY <1>2, SameProcess

-----------------------------------------------------------------------------
LEMMA ViewsStep ==
  ASSUME IInv, OneWriter, Views, NEW t \in Thread, Step(t)
  PROVE  Views'
<1> SUFFICES ASSUME NEW u \in Thread PROVE ViewOf(u)'
  BY DEF Views
<1>1. CASE u # t
  <2>1. pc'[u] = pc[u] /\ rec'[u] = rec[u] /\ prev'[u] = prev[u]
    BY <1>1 DEF IInv, TypeOK, Step, Acquire, Begin, BeginTxn, BeginRaises, SelectPrevious,
          Insert, StatementRaises, Delete, DeleteRaises, Commit, CommitRaises, Raise, Leave
  <2>2. CASE pc[u] \in Writing
    <3>1. pc[t] \notin Writing
      BY <1>1, <2>2, TwoWriters
    <3>2. inTxn[Owner[u]]
      BY <2>2 DEF IInv, Sections
    <3>3. Acquire(t) \/ BeginRaises(t)
      BY <3>1, <3>2, ConstantsAssumption
      DEF Step, Writing, Begin, WriterFree, SelectPrevious,
          Insert, StatementRaises, Delete, DeleteRaises, Commit, CommitRaises
    <3>4. rows' = rows /\ view' = view
      BY <3>3 DEF Acquire, BeginRaises
    <3> QED BY <2>1, <3>4, OthersView DEF Views
  <2>3. CASE pc[u] \notin Writing
    BY <2>1, <2>3, OthersView DEF Views
  <2> QED BY <2>2, <2>3
<1>2. CASE u = t
  <2>1. CASE Begin(t)
    BY <1>2, <2>1, ConstantsAssumption DEF Begin, BeginTxn, IInv, TypeOK, ViewOf
  <2>2. CASE Insert(t)
    <3>1. rec[t] # NoRecord /\ view[Owner[t]] = rows /\ pc'[t] = "commit"
      BY <2>2 DEF Insert, IInv, Sections, Views, ViewOf, TypeOK
    <3>2. view'[Owner[t]] = Append(rows, NewRow(rec[t], prev[t]))
      BY <2>2, <3>1, ConstantsAssumption DEF Insert, IInv, TypeOK
    <3> QED BY <1>2, <2>2, <3>1, <3>2 DEF Insert, ViewOf, NewRow
  <2>3. CASE Delete(t)
    <3>1. rec[t] = NoRecord /\ pc'[t] = "commit" /\ view'[Owner[t]] = <<>>
      BY <2>3, ConstantsAssumption DEF Delete, IInv, TypeOK, Views, ViewOf
    <3> QED BY <1>2, <2>3, <3>1 DEF Delete, ViewOf
  <2>4. CASE SelectPrevious(t)
    <3>1. view[Owner[t]] = rows /\ pc'[t] = "insert"
      BY <2>4 DEF SelectPrevious, IInv, TypeOK, Views, ViewOf
    <3> QED BY <1>2, <2>4, <3>1 DEF SelectPrevious, ViewOf
  <2>5. CASE Acquire(t)
    BY <1>2, <2>5 DEF Acquire, IInv, TypeOK, ViewOf
  <2>6. CASE BeginRaises(t) \/ StatementRaises(t) \/ DeleteRaises(t) \/ Commit(t) \/ CommitRaises(t)
    <3>1. pc'[t] = "idle"
      BY <2>6 DEF BeginRaises, StatementRaises, DeleteRaises, Commit, CommitRaises, Raise, Leave,
                  IInv, TypeOK
    <3> QED BY <1>2, <3>1 DEF ViewOf
  <2> QED BY <2>1, <2>2, <2>3, <2>4, <2>5, <2>6 DEF Step
<1> QED BY <1>1, <1>2

\* A step that adds no table and raises only what was in flight.
LEMMA PlacedKept ==
  ASSUME IInv, Placed, recoverable' \subseteq recoverable, rows' \in recoverable',
         fresh' = fresh, NEW D \in SUBSET Thread,
         \A t \in Thread : rec'[t] = IF t \in D THEN NoRecord ELSE rec[t],
         raised' \subseteq raised \cup ({rec[t] : t \in D} \ {NoRecord})
  PROVE  Placed'
<1>1. InFlight' \subseteq InFlight /\ raised' \subseteq raised \cup InFlight
  BY DEF InFlight
<1>2. \A t \in Thread \ D : \A u \in D : rec[t] # NoRecord => rec[t] # rec[u]
  BY DEF Placed
<1>3. InFlight' \cap raised' = {}
  BY <1>2 DEF Placed, InFlight
<1> QED BY <1>1, <1>3 DEF Placed

LEMMA CommitPlaced ==
  ASSUME IInv, Views, Placed, NEW t \in Thread, Commit(t)
  PROVE  Placed' /\ (rec[t] # NoRecord =>
                       rows' = Append(rows, NewRow(rec[t], prev[t]))
                       /\ rows \in Seq(Row) /\ NewRow(rec[t], prev[t]) \in Row)
<1> DEFINE n == NewRow(rec[t], prev[t])
<1>1. /\ rows' = IF rec[t] = NoRecord THEN <<>> ELSE Append(rows, n)
      /\ recoverable' = recoverable \cup {rows'}
      /\ fresh' = fresh /\ raised' = raised
      /\ rec' = [rec EXCEPT ![t] = NoRecord]
  BY DEF Commit, Leave, Views, ViewOf
<1>2. rows \in Seq(Row) /\ rec \in [Thread -> Record \cup {NoRecord}]
  BY DEF IInv, TypeOK
<1>3. rec[t] # NoRecord => n \in Row /\ n.record = rec[t]
  BY ConstantsAssumption DEF IInv, TypeOK, NewRow, Row
<1>4. InFlight' = InFlight \ {rec[t]}
  BY <1>1, <1>2 DEF InFlight, Placed
<1>5. RecordSet(rows') \subseteq RecordSet(rows) \cup ({rec[t]} \ {NoRecord})
  <2>1. CASE rec[t] = NoRecord
    BY <1>1, <2>1 DEF RecordSet
  <2>2. CASE rec[t] # NoRecord
    BY <1>1, <1>2, <1>3, <2>2, RecordsOfAppend
  <2> QED BY <2>1, <2>2
<1>6. RecordSet(rows') \cap (fresh \cup raised \cup InFlight') = {}
  <2>1. RecordSet(rows) \cap (fresh \cup raised \cup InFlight) = {}
    BY DEF Placed
  <2>2. ({rec[t]} \ {NoRecord}) \cap (fresh \cup raised \cup InFlight') = {}
    BY <1>4 DEF Placed, InFlight
  <2> QED BY <1>4, <1>5, <2>1, <2>2
<1>7. Placed'
  BY <1>1, <1>2, <1>4, <1>6 DEF Placed
<1> QED BY <1>1, <1>2, <1>3, <1>7

LEMMA StepPlaced ==
  ASSUME IInv, Views, Placed, NEW t \in Thread, Step(t)
  PROVE  Placed'
<1>1. CASE Commit(t)
  BY <1>1, CommitPlaced
<1>2. CASE \/ Acquire(t) \/ Begin(t) \/ SelectPrevious(t) \/ Insert(t) \/ Delete(t)
  <2>1. UNCHANGED <<rows, rec, fresh, raised, recoverable>>
    BY <1>2 DEF Acquire, Begin, BeginTxn, SelectPrevious, Insert, Delete
  <2> QED BY <2>1 DEF Placed, InFlight
<1>3. CASE BeginRaises(t) \/ StatementRaises(t) \/ DeleteRaises(t) \/ CommitRaises(t)
  <2>1. Raise(t) /\ UNCHANGED <<rows, fresh, recoverable>>
    BY <1>3 DEF BeginRaises, StatementRaises, DeleteRaises, CommitRaises
  <2>2. \A u \in Thread : rec'[u] = IF u \in {t} THEN NoRecord ELSE rec[u]
    BY <2>1 DEF Raise, Leave, IInv, TypeOK
  <2>3. raised' \subseteq raised \cup ({rec[u] : u \in {t}} \ {NoRecord})
    BY <2>1 DEF Raise
  <2>4. rows' \in recoverable' /\ recoverable' \subseteq recoverable
    BY <2>1 DEF Placed
  <2> QED BY <2>1, <2>2, <2>3, <2>4, PlacedKept
<1> QED BY <1>1, <1>2, <1>3 DEF Step

LEMMA StoppedRInv ==
  ASSUME IInv, Views, Placed, NEW P \in SUBSET Process, Stopped(P),
         (P = Process /\ recoverable' \subseteq recoverable /\ rows' \in recoverable')
           \/ UNCHANGED <<rows, recoverable>>
  PROVE  Views' /\ Placed'
<1> DEFINE D == {t \in Thread : Owner[t] \in P}
<1>1. \A t \in Thread : rec'[t] = IF t \in D THEN NoRecord ELSE rec[t]
  BY DEF Stopped
<1>2. raised' = raised \cup ({rec[t] : t \in D} \ {NoRecord}) /\ fresh' = fresh
  BY DEF Stopped
<1>3. Placed'
  <2>1. rows' \in recoverable' /\ recoverable' \subseteq recoverable
    BY DEF Placed
  <2> HIDE DEF D
  <2>2. D \in SUBSET Thread
    BY DEF D
  <2> QED BY <1>1, <1>2, <2>1, <2>2, PlacedKept
<1>4. ASSUME NEW u \in Thread PROVE ViewOf(u)'
  <2>1. CASE u \in D
    BY <2>1 DEF Stopped, ViewOf
  <2>2. CASE u \notin D
    <3>1. rows' = rows /\ Owner[u] \in Process \ P
      BY <2>2, ConstantsAssumption
    <3>2. pc'[u] = pc[u] /\ rec'[u] = rec[u] /\ prev'[u] = prev[u]
          /\ view'[Owner[u]] = view[Owner[u]]
      BY <2>2, <3>1 DEF Stopped
    <3> QED BY <3>1, <3>2, OthersView DEF Views
  <2> QED BY <2>1, <2>2
<1> QED BY <1>3, <1>4 DEF Views

LEMMA CallRInv ==
  ASSUME IInv, Views, Placed, NEW t \in Thread, CallAppend(t) \/ CallReset(t)
  PROVE  Views' /\ Placed'
<1>1. ASSUME NEW u \in Thread PROVE ViewOf(u)'
  <2>1. rows' = rows /\ view' = view /\ prev' = prev
    BY DEF CallAppend, CallReset
  <2>2. CASE u = t
    <3>1. pc'[u] = "lock"
      BY <2>2 DEF CallAppend, CallReset, IInv, TypeOK
    <3> QED BY <3>1 DEF ViewOf
  <2>3. CASE u # t
    <3>1. pc'[u] = pc[u] /\ rec'[u] = rec[u]
      BY <2>3 DEF CallAppend, CallReset, IInv, TypeOK
    <3> QED BY <2>1, <3>1, OthersView DEF Views
  <2> QED BY <2>2, <2>3
<1>2. CASE CallReset(t)
  BY <1>1, <1>2 DEF CallReset, Placed, InFlight, Views
<1>3. CASE CallAppend(t)
  <2>1. PICK r \in fresh : rec' = [rec EXCEPT ![t] = r] /\ fresh' = fresh \ {r}
    BY <1>3 DEF CallAppend
  <2>2. InFlight' \subseteq InFlight \cup {r} /\ r \notin InFlight
    BY <2>1 DEF InFlight, Placed, IInv, TypeOK
  <2>3. ASSUME NEW u \in Thread, NEW v \in Thread, rec'[u] = rec'[v], rec'[u] # NoRecord
        PROVE  u = v
    <3>1. rec[u] # r /\ rec[v] # r
      BY <2>2, ConstantsAssumption DEF InFlight, IInv, TypeOK
    <3>2. /\ rec'[u] = IF u = t THEN r ELSE rec[u]
          /\ rec'[v] = IF v = t THEN r ELSE rec[v]
      BY <2>1 DEF IInv, TypeOK
    <3> QED BY <2>3, <3>1, <3>2 DEF Placed
  <2>4. UNCHANGED <<rows, raised, recoverable>>
    BY <1>3 DEF CallAppend
  <2>5. Placed'
    BY <2>1, <2>2, <2>3, <2>4 DEF Placed
  <2> QED BY <1>1, <2>5 DEF Views
<1> QED BY <1>2, <1>3

LEMMA InitRInv == Init => Views /\ Placed
BY DEF Init, Views, ViewOf, Placed, InFlight, RecordSet

LEMMA NextRInv == IInv /\ OneWriter /\ Views /\ Placed /\ [Next]_vars => Views' /\ Placed'
<1> SUFFICES ASSUME IInv, OneWriter, Views, Placed, [Next]_vars PROVE Views' /\ Placed'
  OBVIOUS
<1>1. ASSUME NEW t \in Thread, CallAppend(t) \/ CallReset(t) PROVE Views' /\ Placed'
  BY <1>1, CallRInv
<1>2. ASSUME NEW t \in Thread, Step(t) PROVE Views' /\ Placed'
  BY <1>2, ViewsStep, StepPlaced
<1>3. ASSUME NEW p \in Process, Crash(p) PROVE Views' /\ Placed'
  BY <1>3, StoppedRInv DEF Crash
<1>4. CASE PowerLoss
  <2>1. Stopped(Process) /\ recoverable' \subseteq recoverable /\ rows' \in recoverable'
    BY <1>4 DEF PowerLoss
  <2> QED BY <2>1, StoppedRInv
<1>5. CASE Checkpoint
  BY <1>5 DEF Checkpoint, Views, ViewOf, Placed, InFlight
<1>6. CASE UNCHANGED vars
  BY <1>6 DEF vars, Views, ViewOf, Placed, InFlight
<1> QED BY <1>1, <1>2, <1>3, <1>4, <1>5, <1>6 DEF Next

\* The inductive invariant of this module holds in every state: each record is
\* in one place, and the writing connection sees the committed table.
THEOREM RecordsPlaced == Spec => []RInv
<1>1. Spec => []IInv
  BY InitIInv, NextIInv, PTL DEF Spec
<1>2. Spec => [](Views /\ Placed)
  BY <1>1, OnlyOneWriter, InitRInv, NextRInv, PTL DEF Spec
<1> QED BY <1>1, <1>2, OnlyOneWriter, PTL DEF RInv

-----------------------------------------------------------------------------
\* An append that raised, or died with its process before the commit, leaves no
\* row, then or later, through any resets, crashes and losses of power.
THEOREM RaisedNeverAppears == Spec => []RaisedLeavesNoRow
<1>1. RInv => RaisedLeavesNoRow
  BY DEF RInv, Placed, RecordSet, RaisedLeavesNoRow
<1> QED BY <1>1, RecordsPlaced, PTL

\* A digest returned by append() stays in the table until a reset or a loss of
\* power: the table a commit writes is the one it replaces and one more row.
THEOREM AckedAlwaysRecorded == Spec => []AckedIsRecorded
<1>1. Init => AckedIsRecorded
  BY DEF Init, AckedIsRecorded
<1>2. RInv /\ AckedIsRecorded /\ [Next]_vars => AckedIsRecorded'
  <2> SUFFICES ASSUME RInv, AckedIsRecorded, [Next]_vars PROVE AckedIsRecorded'
    OBVIOUS
  <2>1. ASSUME NEW t \in Thread, Commit(t) PROVE AckedIsRecorded'
    <3>1. CASE rec[t] = NoRecord
      BY <2>1, <3>1 DEF Commit, AckedIsRecorded
    <3>2. CASE rec[t] # NoRecord
      <4> DEFINE n == NewRow(rec[t], prev[t])
      <4>1. rows' = Append(rows, n) /\ rows \in Seq(Row) /\ n \in Row
        BY <2>1, <3>2, CommitPlaced DEF RInv
      <4>2. DigestsOf(rows') = DigestsOf(rows) \cup {n.digest}
        BY <4>1, RecordsOfAppend
      <4>3. acked' = acked \cup {n.digest}
        BY <2>1, <3>2 DEF Commit, NewRow
      <4> QED BY <4>2, <4>3 DEF AckedIsRecorded
    <3> QED BY <3>1, <3>2
  <2>2. CASE PowerLoss
    BY <2>2 DEF PowerLoss, AckedIsRecorded
  <2>3. CASE UNCHANGED <<rows, acked>>
    BY <2>3 DEF AckedIsRecorded
  <2>4. ASSUME NEW t \in Thread, Step(t), ~Commit(t) PROVE UNCHANGED <<rows, acked>>
    BY <2>4 DEF Step, Acquire, Begin, BeginTxn, BeginRaises, SelectPrevious,
       Insert, StatementRaises, Delete, DeleteRaises, CommitRaises
  <2> QED BY <2>1, <2>2, <2>3, <2>4 DEF Next, CallAppend, CallReset, Crash, Checkpoint, vars
<1> QED BY <1>1, <1>2, RecordsPlaced, PTL DEF Spec
-----------------------------------------------------------------------------
(***************************************************************************)
(* The refinement.  The mapping finds the acknowledged records by their    *)
(* digests, so a record must have one digest in all the tables there are   *)
(* (OneDigest), and a digest one record (CollisionFree).                   *)
(***************************************************************************)
OneDigest ==
  \A s, u \in recoverable : \A i \in DOMAIN s, j \in DOMAIN u :
    s[i].record = u[j].record => s[i].digest = u[j].digest

AckedRecords(s) == {s[i].record : i \in {j \in DOMAIN s : s[j].digest \in acked}}

LEMMA OneDigestStep ==
  RInv /\ OneDigest /\ [Next]_vars => OneDigest'
<1> SUFFICES ASSUME RInv, OneDigest, [Next]_vars PROVE OneDigest'
  OBVIOUS
<1>1. ASSUME NEW t \in Thread, Commit(t) PROVE OneDigest'
  <2>1. recoverable' = recoverable \cup {rows'}
    BY <1>1 DEF Commit
  <2>2. CASE rec[t] = NoRecord
    <3>1. rows' = <<>>
      BY <1>1, <2>2 DEF Commit, RInv, Views, ViewOf
    <3> QED BY <2>1, <3>1 DEF OneDigest
  <2>3. CASE rec[t] # NoRecord
    <3> DEFINE n == NewRow(rec[t], prev[t])
               u == Append(rows, n)
    <3>1. rows' = u /\ rows \in Seq(Row) /\ n \in Row /\ n.record = rec[t]
      BY <1>1, <2>3, CommitPlaced DEF RInv, NewRow
    <3>2. \A i \in DOMAIN u : u[i] = n \/ (i \in DOMAIN rows /\ u[i] = rows[i])
      BY <3>1
    <3>3. rows \in recoverable /\ \A s \in recoverable : rec[t] \notin RecordSet(s)
      BY <2>3 DEF RInv, Placed, InFlight
    <3>4. \A s \in recoverable : \A i \in DOMAIN s : s[i].record # rec[t]
      BY <3>3 DEF RecordSet
    <3> HIDE DEF n, u
    <3> QED BY <2>1, <3>1, <3>2, <3>3, <3>4 DEF OneDigest
  <2> QED BY <2>2, <2>3
<1>2. CASE recoverable' \subseteq recoverable
  BY <1>2 DEF OneDigest
<1>3. CASE Checkpoint \/ PowerLoss
  BY <1>2, <1>3 DEF Checkpoint, PowerLoss, RInv, Placed
<1>4. ASSUME NEW t \in Thread, Step(t), ~Commit(t) PROVE recoverable' = recoverable
  BY <1>4 DEF Step, Acquire, Begin, BeginTxn, BeginRaises, SelectPrevious,
     Insert, StatementRaises, Delete, DeleteRaises, CommitRaises
<1> QED BY <1>1, <1>2, <1>3, <1>4 DEF Next, CallAppend, CallReset, Crash, vars

LEMMA RecordsInAppend ==
  ASSUME NEW s \in Seq(Row), NEW n \in Row
  PROVE  RecordsIn(Append(s, n)) = Append(RecordsIn(s), n.record)
<1>1. \A i \in DOMAIN s : s[i].record \in Record
  <2>1. \A i \in DOMAIN s : s[i] \in Row
    OBVIOUS
  <2> QED BY <2>1 DEF Row
<1>2. RecordsIn(s) \in Seq(Record) /\ Len(RecordsIn(s)) = Len(s)
  BY <1>1 DEF RecordsIn
<1>3. n.record \in Record
  BY DEF Row
<1> QED BY <1>2, <1>3 DEF RecordsIn

\* Records with acknowledged digests: one more after an append.
LEMMA AckedOfAppend ==
  ASSUME NEW s \in Seq(Row), NEW n \in Row, acked' = acked \cup {n.digest},
         \A i \in DOMAIN s : s[i].digest # n.digest
  PROVE  {Append(s, n)[i].record :
            i \in {j \in DOMAIN Append(s, n) : Append(s, n)[j].digest \in acked'}}
           = AckedRecords(s) \cup {n.record}
<1> DEFINE u == Append(s, n)
<1>1. /\ DOMAIN u = DOMAIN s \cup {Len(s) + 1}
      /\ u[Len(s) + 1] = n
      /\ \A i \in DOMAIN s : u[i] = s[i]
  OBVIOUS
<1> HIDE DEF u
<1>2. {u[i].record : i \in {j \in DOMAIN u : u[j].digest \in acked'}}
        = AckedRecords(s) \cup {n.record}
  BY <1>1 DEF AckedRecords
<1> QED BY <1>2 DEF u

\* The rows of a chain are told apart by their records.
LEMMA DigestTells ==
  ASSUME IInv, NEW s \in Seq(Row), NEW u \in Seq(Row), Chained(s), Chained(u),
         NEW i \in DOMAIN s, NEW j \in DOMAIN u, s[i].digest = u[j].digest
  PROVE  s[i].record = u[j].record
<1>1. s[i] \in Row /\ u[j] \in Row
  OBVIOUS
<1>2. s[i].digest = Hash(s[i].previous, s[i].record) /\ u[j].digest = Hash(u[j].previous, u[j].record)
  BY DEF Chained, Broken
<1> QED BY <1>1, <1>2, CollisionFree DEF Row

-----------------------------------------------------------------------------
\* A commit is an append of the abstract chain, or its reset.
LEMMA CommitIsAppend ==
  ASSUME RInv, NEW t \in Thread, Commit(t), rec[t] # NoRecord
  PROVE  Chain!AAppend(rec[t])
<1> DEFINE n == NewRow(rec[t], prev[t])
<1>1. /\ rows' = Append(rows, n) /\ rows \in Seq(Row) /\ n \in Row
      /\ n.record = rec[t] /\ n.digest = Hash(prev[t], rec[t])
  BY CommitPlaced DEF RInv, NewRow
<1>2. acked' = acked \cup {n.digest} /\ recoverable' = recoverable \cup {rows'}
  BY <1>1 DEF Commit
<1>3. \A i \in DOMAIN rows : rows[i].digest # n.digest
  <2> SUFFICES ASSUME NEW i \in DOMAIN rows, rows[i].digest = n.digest PROVE FALSE
    OBVIOUS
  <2>1. rows[i] \in Row /\ rows[i].digest = Hash(rows[i].previous, rows[i].record)
    BY <1>1 DEF RInv, IInv, Chains, Chained, Broken
  <2>2. rows[i].record = rec[t]
    BY <1>1, <2>1, CollisionFree DEF Row, RInv, IInv, TypeOK
  <2>3. rows[i].record \in RecordSet(rows) /\ rec[t] \in InFlight
    BY DEF RecordSet, InFlight
  <2> QED BY <2>2, <2>3 DEF RInv, Placed
<1>4. RecordsIn(rows') = Append(RecordsIn(rows), rec[t])
  BY <1>1, RecordsInAppend
<1>5. {rows'[i].record : i \in {j \in DOMAIN rows' : rows'[j].digest \in acked'}}
        = AckedRecords(rows) \cup {rec[t]}
  BY <1>1, <1>2, <1>3, AckedOfAppend
<1>6. {RecordsIn(s) : s \in recoverable'} = {RecordsIn(s) : s \in recoverable} \cup {RecordsIn(rows')}
  BY <1>2
<1> QED BY <1>4, <1>5, <1>6 DEF Chain!AAppend, AckedRecords

LEMMA CommitIsReset ==
  ASSUME RInv, NEW t \in Thread, Commit(t), rec[t] = NoRecord
  PROVE  Chain!AReset
<1>1. rows' = <<>> /\ acked' = {} /\ recoverable' = recoverable \cup {rows'}
  BY DEF Commit, RInv, Views, ViewOf
<1>2. RecordsIn(<<>>) = <<>>
  BY DEF RecordsIn
<1>3. {rows'[i].record : i \in {j \in DOMAIN rows' : rows'[j].digest \in acked'}} = {}
  BY <1>1
<1>4. {RecordsIn(s) : s \in recoverable'} = {RecordsIn(s) : s \in recoverable} \cup {RecordsIn(rows')}
  BY <1>1
<1> QED BY <1>1, <1>2, <1>3, <1>4 DEF Chain!AReset

\* What a power loss leaves of the acknowledged digests are the digests of the
\* acknowledged records it leaves.
LEMMA PowerLossIsOne ==
  ASSUME RInv, AckedIsRecorded, OneDigest, PowerLoss
  PROVE  Chain!APowerLoss
<1>1. PICK s \in recoverable :
        rows' = s /\ acked' = acked \cap DigestsOf(s) /\ recoverable' = {s}
  BY DEF PowerLoss
<1>2. /\ s \in Seq(Row) /\ rows \in Seq(Row) /\ Chained(s) /\ Chained(rows)
      /\ rows \in recoverable
  BY DEF RInv, IInv, TypeOK, Chains, Placed
<1>3. ASSUME NEW i \in DOMAIN s, s[i].digest \in acked
      PROVE  s[i].record \in AckedRecords(rows)
  <2>1. PICK j \in DOMAIN rows : rows[j].digest = s[i].digest
    BY <1>3 DEF AckedIsRecorded, DigestsOf
  <2>2. rows[j].record = s[i].record
    BY <1>2, <2>1, DigestTells DEF RInv
  <2> QED BY <1>3, <2>1, <2>2 DEF AckedRecords
<1>4. ASSUME NEW j \in DOMAIN rows, rows[j].digest \in acked, NEW i \in DOMAIN s,
             s[i].record = rows[j].record
      PROVE  s[i].digest \in acked
  BY <1>2, <1>4 DEF OneDigest
<1> DEFINE left == {s[i].record : i \in {j \in DOMAIN s : s[j].digest \in acked \cap DigestsOf(s)}}
<1>5. left = AckedRecords(rows) \cap Chain!RecordsOf(RecordsIn(s))
  <2>1. Chain!RecordsOf(RecordsIn(s)) = {s[i].record : i \in DOMAIN s}
    BY DEF Chain!RecordsOf, RecordsIn
  <2>2. left = {s[i].record : i \in {j \in DOMAIN s : s[j].digest \in acked}}
    BY DEF DigestsOf
  <2>3. left \subseteq AckedRecords(rows) \cap {s[i].record : i \in DOMAIN s}
    BY <1>3, <2>2
  <2>4. AckedRecords(rows) \cap {s[i].record : i \in DOMAIN s} \subseteq left
    BY <1>4, <2>2 DEF AckedRecords
  <2> QED BY <2>1, <2>3, <2>4
<1>6. {rows'[i].record : i \in {j \in DOMAIN rows' : rows'[j].digest \in acked'}} = left
  BY <1>1
<1>7. {RecordsIn(u) : u \in recoverable'} = {RecordsIn(s)}
  BY <1>1
<1> HIDE DEF left
<1> QED BY <1>1, <1>5, <1>6, <1>7 DEF Chain!APowerLoss, AckedRecords

\* A step that commits nothing and loses nothing is a stutter of the chain.
LEMMA StoreStutters ==
  ASSUME UNCHANGED <<rows, acked, recoverable>>
  PROVE  UNCHANGED Chain!avars
BY DEF Chain!avars

\* The store implements the audit chain: appends of any number of threads and
\* processes are indivisible, acknowledged as they are made, and nothing else
\* but a reset, a checkpoint and a loss of power touches the log.
THEOREM StoreImplementsChain == Spec => ImplementsAuditChain
<1>1. Init => Chain!AInit
  <2> SUFFICES ASSUME Init PROVE Chain!AInit
    OBVIOUS
  <2>1. rows = <<>> /\ recoverable = {<<>>}
    BY DEF Init
  <2>2. RecordsIn(<<>>) = <<>>
    BY DEF RecordsIn
  <2>3. {rows[i].record : i \in {j \in DOMAIN rows : rows[j].digest \in acked}} = {}
    BY <2>1
  <2> QED BY <2>1, <2>2, <2>3 DEF Chain!AInit
<1>2. RInv /\ AckedIsRecorded /\ OneDigest /\ [Next]_vars => [Chain!ANext]_(Chain!avars)
  <2> SUFFICES ASSUME RInv, AckedIsRecorded, OneDigest, [Next]_vars
               PROVE  [Chain!ANext]_(Chain!avars)
    OBVIOUS
  <2>1. ASSUME NEW t \in Thread, Commit(t) PROVE Chain!ANext
    <3>1. CASE rec[t] = NoRecord
      <4>1. Chain!AReset
        BY <2>1, <3>1, CommitIsReset
      <4> QED BY <4>1 DEF Chain!ANext
    <3>2. CASE rec[t] # NoRecord
      <4>1. rec[t] \in Record
        BY <3>2 DEF RInv, IInv, TypeOK
      <4>2. Chain!AAppend(rec[t])
        BY <2>1, <3>2, CommitIsAppend
      <4> QED BY <4>1, <4>2 DEF Chain!ANext, Chain!AAppend
    <3> QED BY <3>1, <3>2
  <2>2. CASE Checkpoint
    <3>1. Chain!ASync
      BY <2>2 DEF Checkpoint, Chain!ASync
    <3> QED BY <3>1 DEF Chain!ANext
  <2>3. CASE PowerLoss
    BY <2>3, PowerLossIsOne DEF Chain!ANext
  <2>4. CASE UNCHANGED <<rows, acked, recoverable>>
    BY <2>4, StoreStutters
  <2>5. ASSUME NEW t \in Thread, Step(t), ~Commit(t)
        PROVE  UNCHANGED <<rows, acked, recoverable>>
    BY <2>5 DEF Step, Acquire, Begin, BeginTxn, BeginRaises, SelectPrevious,
       Insert, StatementRaises, Delete, DeleteRaises, CommitRaises
  <2> QED BY <2>1, <2>2, <2>3, <2>4, <2>5 DEF Next, CallAppend, CallReset, Crash, vars
<1>3. Init => OneDigest
  BY DEF Init, OneDigest
<1>4. Spec => []OneDigest
  BY <1>3, OneDigestStep, RecordsPlaced, PTL DEF Spec
<1> QED BY <1>1, <1>2, <1>4, RecordsPlaced, AckedAlwaysRecorded, PTL
        DEF Spec, ImplementsAuditChain, Chain!ASpec
=============================================================================
