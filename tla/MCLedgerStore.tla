--------------------------- MODULE MCLedgerStore ----------------------------
(* LedgerStore for TLC: a gateway process with two threads and a second      *)
(* process (the CLI or the console) with one, on the same database.          *)
EXTENDS LedgerStore, FiniteSets

CONSTANTS gateway, cli, g1, g2, c1

MCOwner == [t \in {g1, g2, c1} |-> IF t = c1 THEN cli ELSE gateway]

\* A DELETE or a commit raises in the gateway only.
MCFaults ==
  [p \in Process |-> IF p = gateway THEN FaultPoint ELSE {"begin", "statement"}]

\* A hash without collisions: the digest of a row is the list of the records
\* up to it.  No chain is longer than the number of records, since each is
\* submitted once, so the last branch closes Digest and is never taken.
MCGenesis == <<>>

MCDigest == UNION {[1..n -> Record] : n \in 0..Cardinality(Record)}

ChainHash(d, r) == Append(IF Len(d) < Cardinality(Record) THEN d ELSE Tail(d), r)
=============================================================================
