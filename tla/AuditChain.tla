----------------------------- MODULE AuditChain -----------------------------
(***************************************************************************)
(* What the decision ledger promises its callers: one append-only sequence *)
(* of canonical records.  An append is a single indivisible step that      *)
(* either adds the record at the end and acknowledges it, or leaves no     *)
(* trace at all.  Two operations take records away and both are explicit:  *)
(* reset(), and the loss of power, which may return the log to a state it  *)
(* has had since it last reached stable storage.                           *)
(***************************************************************************)
EXTENDS Sequences

CONSTANT Record         \* canonical decision and review records

VARIABLES
  log,                  \* the records of the ledger, oldest first
  acked,                \* the records an append has returned a digest for
  recoverable           \* the contents a loss of power may leave behind

avars == <<log, acked, recoverable>>

RecordsOf(l) == {l[i] : i \in DOMAIN l}

AInit ==
  /\ log = <<>>
  /\ acked = {}
  /\ recoverable = {<<>>}

AAppend(r) ==
  /\ log' = Append(log, r)
  /\ acked' = acked \cup {r}
  /\ recoverable' = recoverable \cup {log'}

AReset ==
  /\ log' = <<>>
  /\ acked' = {}
  /\ recoverable' = recoverable \cup {log'}

ASync ==
  /\ recoverable' = {log}
  /\ UNCHANGED <<log, acked>>

APowerLoss ==
  \E l \in recoverable :
    /\ log' = l
    /\ acked' = acked \cap RecordsOf(l)
    /\ recoverable' = {l}

ANext ==
  \/ \E r \in Record : AAppend(r)
  \/ AReset
  \/ ASync
  \/ APowerLoss

ASpec == AInit /\ [][ANext]_avars
=============================================================================
