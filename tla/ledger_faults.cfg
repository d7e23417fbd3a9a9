SPECIFICATION FairSpec
CONSTANTS
  gateway = gateway
  cli = cli
  g1 = g1
  g2 = g2
  c1 = c1
  Process = {gateway, cli}
  Thread = {g1, g2, c1}
  Owner <- MCOwner
  Record = {r1, r2, r3}
  NoThread = NoThread
  NoRecord = NoRecord
  Digest <- MCDigest
  Genesis <- MCGenesis
  Hash <- ChainHash
  Faults <- MCFaults
INVARIANT ChainIntact
INVARIANT AckedIsRecorded
INVARIANT RaisedLeavesNoRow
INVARIANT TxnEndsWithLock
PROPERTY LockReturned
PROPERTY ImplementsAuditChain
