---------------------------- MODULE LedgerStore -----------------------------
(***************************************************************************)
(* controlplane/ledger/store.py: decision records chained by hash in one   *)
(* SQLite table.  Every process that opens the database holds one          *)
(* connection and one threading.Lock; the threads of a process share both. *)
(* The steps of _append and reset between two SQL statements are separate  *)
(* actions, because other processes run between them and a statement can   *)
(* raise.                                                                  *)
(***************************************************************************)
EXTENDS Naturals, Sequences

CONSTANTS
  Process,              \* processes that opened the database (gateway, CLI)
  Thread,               \* threads that call the store
  Owner,                \* Owner[t] is the process thread t runs in
  Record,               \* canonical records, each submitted by one call
  NoThread, NoRecord,
  Digest, Genesis,      \* hash values, GENESIS_HASH
  Hash(_, _),           \* record_hash(previous_hash, canonical_record)
  Faults                \* per process, the statements that may raise

FaultPoint == {"begin", "statement", "delete", "commit"}

ASSUME ConstantsAssumption ==
  /\ Owner \in [Thread -> Process]
  /\ NoThread \notin Thread
  /\ NoRecord \notin Record
  /\ Faults \in [Process -> SUBSET FaultPoint]
  /\ Genesis \in Digest
  /\ \A d \in Digest, r \in Record : Hash(d, r) \in Digest

\* SHA-256: what is chained to a predecessor tells the record.  Only the
\* refinement needs it.
ASSUME CollisionFree ==
  \A c, d \in Digest, q, r \in Record : Hash(c, q) = Hash(d, r) => q = r

VARIABLES
  rows,                 \* the committed table decisions, ORDER BY sequence
  inTxn, view,          \* per process: its connection's open transaction, and
                        \* the table as that transaction sees it
  lock,                 \* lock[p]: the thread inside self._lock of process p
  pc, rec, prev,        \* per thread: next statement, its record, local previous
  fresh,                \* records no call has submitted yet
  acked, raised,        \* digests returned; records whose append raised
  recoverable           \* table contents a loss of power may leave (WAL)

vars ==
  <<rows, inTxn, view, lock, pc, rec, prev, fresh, acked, raised, recoverable>>

-----------------------------------------------------------------------------
(* The hash chain.                                                         *)

PreviousOf(s, i) == IF i = 1 THEN Genesis ELSE s[i - 1].digest

\* Faulty variants: the oldest row instead of the newest, the wrong column.
OldestHash(s) == IF s = <<>> THEN Genesis ELSE s[1].digest
\* SELECT record_hash FROM decisions ORDER BY sequence DESC LIMIT 1
LastHash(s) == IF s = <<>> THEN Genesis ELSE s[Len(s)].digest

\* The rows verify() refuses; it reports the first of them.
Broken(s) ==
  {i \in DOMAIN s : \/ s[i].previous # PreviousOf(s, i)
                    \/ s[i].digest # Hash(s[i].previous, s[i].record)}

Chained(s) == Broken(s) = {}

Verify(s) ==
  IF Chained(s)
  THEN [ok |-> TRUE, count |-> Len(s)]
  ELSE [ok |-> FALSE,
        count |-> CHOOSE i \in Broken(s) : \A j \in Broken(s) : i <= j]

NewRow(r, p) == [record |-> r, previous |-> p, digest |-> Hash(p, r)]

-----------------------------------------------------------------------------
(* Connections.  BEGIN IMMEDIATE takes the database's only write lock, so  *)
(* it is free exactly when no connection has a transaction open.           *)

WriterFree == \A p \in Process : ~inTxn[p]

Visible(p) == IF inTxn[p] THEN view[p] ELSE rows

DigestsOf(s) == {s[i].digest : i \in DOMAIN s}

-----------------------------------------------------------------------------
Init ==
  /\ rows = <<>>
  /\ inTxn = [p \in Process |-> FALSE]
  /\ view = [p \in Process |-> <<>>]
  /\ lock = [p \in Process |-> NoThread]
  /\ pc = [t \in Thread |-> "idle"]
  /\ rec = [t \in Thread |-> NoRecord]
  /\ prev = [t \in Thread |-> Genesis]
  /\ fresh = Record
  /\ acked = {}
  /\ raised = {}
  /\ recoverable = {<<>>}

CallAppend(t) ==
  /\ pc[t] = "idle"
  /\ \E r \in fresh : /\ rec' = [rec EXCEPT ![t] = r]
                      /\ fresh' = fresh \ {r}
  /\ pc' = [pc EXCEPT ![t] = "lock"]
  /\ UNCHANGED <<rows, inTxn, view, lock, prev, acked, raised, recoverable>>

CallReset(t) ==
  /\ pc[t] = "idle"
  /\ pc' = [pc EXCEPT ![t] = "lock"]
  /\ UNCHANGED <<rows, inTxn, view, lock, rec, prev, fresh, acked, raised, recoverable>>

\* with self._lock
Acquire(t) ==
  /\ pc[t] = "lock"
  /\ lock[Owner[t]] = NoThread
  /\ lock' = [lock EXCEPT ![Owner[t]] = t]
  /\ pc' = [pc EXCEPT ![t] = "begin"]
  /\ UNCHANGED <<rows, inTxn, view, rec, prev, fresh, acked, raised, recoverable>>

BeginTxn(t, table) ==
  /\ pc[t] = "begin"
  /\ inTxn' = [inTxn EXCEPT ![Owner[t]] = TRUE]
  /\ view' = [view EXCEPT ![Owner[t]] = table]
  /\ pc' = [pc EXCEPT ![t] = IF rec[t] = NoRecord THEN "delete" ELSE "select"]
  /\ UNCHANGED <<rows, lock, rec, prev, fresh, acked, raised, recoverable>>

\* Faulty variants: a deferred BEGIN, which takes no write lock; a BEGIN that
\* is skipped when the connection is still in a transaction.
BeginDeferred(t) == BeginTxn(t, rows)
BeginUnlessOpen(t) ==
  /\ \A p \in Process \ {Owner[t]} : ~inTxn[p]
  /\ BeginTxn(t, Visible(Owner[t]))

\* BEGIN IMMEDIATE: the transaction sees the table as it is committed now.
Begin(t) == WriterFree /\ BeginTxn(t, rows)

\* commit() and rollback() end the transaction of t's connection.
EndTxn(t) ==
  /\ inTxn' = [inTxn EXCEPT ![Owner[t]] = FALSE]
  /\ view' = [view EXCEPT ![Owner[t]] = <<>>]

\* Leaving the with block, by return or by exception.
Leave(t) ==
  /\ lock' = [lock EXCEPT ![Owner[t]] = NoThread]
  /\ pc' = [pc EXCEPT ![t] = "idle"]
  /\ rec' = [rec EXCEPT ![t] = NoRecord]
  /\ prev' = [prev EXCEPT ![t] = Genesis]

Raise(t) ==
  /\ Leave(t)
  /\ raised' = raised \cup ({rec[t]} \ {NoRecord})

\* Faulty variant: the exception leaves the lock held.
BeginRaisesLocked(t) ==
  /\ pc[t] = "begin"
  /\ ~WriterFree \/ "begin" \in Faults[Owner[t]]
  /\ pc' = [pc EXCEPT ![t] = "idle"]
  /\ rec' = [rec EXCEPT ![t] = NoRecord]
  /\ raised' = raised \cup ({rec[t]} \ {NoRecord})
  /\ UNCHANGED <<rows, inTxn, view, lock, prev, fresh, acked, recoverable>>

\* BEGIN IMMEDIATE raises, outside any try: another process keeps the write
\* lock for the busy timeout, or this connection is still in a transaction.
BeginRaises(t) ==
  /\ pc[t] = "begin"
  /\ ~WriterFree \/ "begin" \in Faults[Owner[t]]
  /\ Raise(t)
  /\ UNCHANGED <<rows, inTxn, view, fresh, acked, recoverable>>

SelectPrevious(t) ==
  /\ pc[t] = "select"
  /\ prev' = [prev EXCEPT ![t] = LastHash(view[Owner[t]])]
  /\ pc' = [pc EXCEPT ![t] = "insert"]
  /\ UNCHANGED <<rows, inTxn, view, lock, rec, fresh, acked, raised, recoverable>>

Insert(t) ==
  /\ pc[t] = "insert"
  /\ view' = [view EXCEPT ![Owner[t]] = Append(@, NewRow(rec[t], prev[t]))]
  /\ pc' = [pc EXCEPT ![t] = "commit"]
  /\ UNCHANGED <<rows, inTxn, lock, rec, prev, fresh, acked, raised, recoverable>>

\* Faulty variant: the exception passes without a rollback.
StatementRaisesOpen(t) ==
  /\ pc[t] \in {"select", "insert"}
  /\ "statement" \in Faults[Owner[t]]
  /\ Raise(t)
  /\ UNCHANGED <<rows, inTxn, view, fresh, acked, recoverable>>

\* SELECT or INSERT raises: the except clause rolls back and re-raises.
StatementRaises(t) ==
  /\ pc[t] \in {"select", "insert"}
  /\ "statement" \in Faults[Owner[t]]
  /\ EndTxn(t)
  /\ Raise(t)
  /\ UNCHANGED <<rows, fresh, acked, recoverable>>

Delete(t) ==
  /\ pc[t] = "delete"
  /\ view' = [view EXCEPT ![Owner[t]] = <<>>]
  /\ pc' = [pc EXCEPT ![t] = "commit"]
  /\ UNCHANGED <<rows, inTxn, lock, rec, prev, fresh, acked, raised, recoverable>>

\* reset() has no try: a DELETE that raises leaves the transaction open, before
\* the table is emptied in it or, at the one of sqlite_sequence, after.
DeleteRaises(t) ==
  /\ pc[t] = "delete"
  /\ "delete" \in Faults[Owner[t]]
  /\ \/ UNCHANGED view
     \/ view' = [view EXCEPT ![Owner[t]] = <<>>]
  /\ Raise(t)
  /\ UNCHANGED <<rows, inTxn, fresh, acked, recoverable>>

Commit(t) ==
  /\ pc[t] = "commit"
  /\ rows' = view[Owner[t]]
  /\ EndTxn(t)
  /\ acked' = IF rec[t] = NoRecord THEN {}
                                   ELSE acked \cup {Hash(prev[t], rec[t])}
  /\ recoverable' = recoverable \cup {rows'}
  /\ Leave(t)
  /\ UNCHANGED <<fresh, raised>>

\* commit() is outside the try: SQLite rolls the transaction back itself, or
\* (SQLITE_BUSY, an interrupt before the call) leaves it open.
CommitRaises(t) ==
  /\ pc[t] = "commit"
  /\ "commit" \in Faults[Owner[t]]
  /\ \/ EndTxn(t)
     \/ UNCHANGED <<inTxn, view>>
  /\ Raise(t)
  /\ UNCHANGED <<rows, fresh, acked, recoverable>>

-----------------------------------------------------------------------------
(* The environment.                                                        *)

Stopped(P) ==
  LET dead == {t \in Thread : Owner[t] \in P} IN
  /\ inTxn' = [p \in Process |-> p \notin P /\ inTxn[p]]
  /\ view' = [p \in Process |-> IF p \in P THEN <<>> ELSE view[p]]
  /\ lock' = [p \in Process |-> IF p \in P THEN NoThread ELSE lock[p]]
  /\ pc' = [t \in Thread |-> IF t \in dead THEN "idle" ELSE pc[t]]
  /\ rec' = [t \in Thread |-> IF t \in dead THEN NoRecord ELSE rec[t]]
  /\ prev' = [t \in Thread |-> IF t \in dead THEN Genesis ELSE prev[t]]
  /\ raised' = raised \cup ({rec[t] : t \in dead} \ {NoRecord})
  /\ UNCHANGED fresh

\* A process dies (or closes its store) and is started again: its open
\* transaction is rolled back, the database keeps what was committed.
Crash(p) ==
  /\ Stopped({p})
  /\ UNCHANGED <<rows, acked, recoverable>>

\* PRAGMA synchronous=NORMAL: the WAL reaches stable storage at a checkpoint.
Checkpoint ==
  /\ recoverable' = {rows}
  /\ UNCHANGED <<rows, inTxn, view, lock, pc, rec, prev, fresh, acked, raised>>

\* The machine goes down: commits since the last checkpoint may be lost.
PowerLoss ==
  /\ Stopped(Process)
  /\ \E s \in recoverable : /\ rows' = s
                            /\ acked' = acked \cap DigestsOf(s)
                            /\ recoverable' = {s}

Step(t) ==
  \/ Acquire(t)
  \/ Begin(t)
  \/ BeginRaises(t)
  \/ SelectPrevious(t)
  \/ Insert(t)
  \/ StatementRaises(t)
  \/ Delete(t)
  \/ DeleteRaises(t)
  \/ Commit(t)
  \/ CommitRaises(t)

Next ==
  \/ \E t \in Thread : CallAppend(t) \/ CallReset(t) \/ Step(t)
  \/ \E p \in Process : Crash(p)
  \/ Checkpoint
  \/ PowerLoss

Spec == Init /\ [][Next]_vars

\* A thread inside a call is not descheduled for good, SQLite answers or
\* raises within its busy timeout, and self._lock is granted to some waiter.
FairSpec == Spec /\ \A t \in Thread : WF_vars(Step(t))

-----------------------------------------------------------------------------
(* Properties.                                                             *)

Row == [record : Record, previous : Digest, digest : Digest]

\* Every variable has its type; an open transaction holds a table of rows.
TypeOK ==
  /\ rows \in Seq(Row)
  /\ inTxn \in [Process -> BOOLEAN]
  /\ view \in [Process -> Seq(Row)]
  /\ lock \in [Process -> Thread \cup {NoThread}]
  /\ pc \in [Thread -> {"idle", "lock", "begin", "select", "insert", "delete", "commit"}]
  /\ rec \in [Thread -> Record \cup {NoRecord}]
  /\ prev \in [Thread -> Digest]
  /\ fresh \subseteq Record
  /\ acked \subseteq Digest
  /\ raised \subseteq Record
  /\ recoverable \subseteq Seq(Row)

\* The comment in _append: no two appends read the same predecessor and fork
\* the chain.  verify() accepts whatever it can be shown: the committed table,
\* what any process sees on its connection, and what a power loss leaves.
ChainIntact ==
  /\ Verify(rows).ok
  /\ \A p \in Process : Verify(Visible(p)).ok
  /\ \A s \in recoverable : Verify(s).ok

\* The append transaction is exclusive: two connections never write at once.
OneWriter == \A p, q \in Process : inTxn[p] /\ inTxn[q] => p = q

\* A digest returned by append() stays in the table until a reset or a loss of
\* power: neither a racing append of another process nor a crash removes it.
AckedIsRecorded == acked \subseteq DigestsOf(rows)

\* An append that raised, or died with its process before the commit, leaves no
\* row, then or later: its caller may retry or report the failure.
RaisedLeavesNoRow == \A i \in DOMAIN rows : rows[i].record \notin raised

\* No transaction outlives the with block that began it: otherwise every later
\* append of the process raises at BEGIN and every other process is locked out,
\* and verify() and records(), which take the lock, read uncommitted rows.  It
\* holds where no DELETE and no commit raises: after those two statements the
\* code has no rollback.
TxnEndsWithLock ==
  \A p \in Process :
    inTxn[p] /\ Faults[p] \cap {"delete", "commit"} = {} => lock[p] # NoThread

\* self._lock is always given back: a connection whose transaction stayed open
\* or another process that holds the database makes BEGIN raise, not block.
LockReturned ==
  \A p \in Process : lock[p] # NoThread ~> lock[p] = NoThread

-----------------------------------------------------------------------------
(* The store implements the audit chain.                                   *)

RecordsIn(s) == [i \in DOMAIN s |-> s[i].record]

Chain == INSTANCE AuditChain WITH
  log <- RecordsIn(rows),
  acked <- {rows[i].record : i \in {j \in DOMAIN rows : rows[j].digest \in acked}},
  recoverable <- {RecordsIn(s) : s \in recoverable}

\* Concurrent appends of threads and processes are indivisible additions to
\* one log, acknowledged in the same step; every other step leaves it alone.
ImplementsAuditChain == Chain!ASpec
=============================================================================
