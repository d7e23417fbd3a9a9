----------------------------- MODULE CorpusCache -----------------------------
(***************************************************************************)
(* The two ways a pinned public corpus gets on disk: ensure_cached_file    *)
(* (corpora/download.py), beside its destination and promoted, and fetch   *)
(* (corpora/fetch.py), in place.  Processes that load a corpus, one after  *)
(* the other, any of which may be killed; upstream may serve other bytes.  *)
(***************************************************************************)
EXTENDS Integers

CONSTANTS Loader, MaxLoads, MaxCrashes

\* What is in a file: nothing, a part, the pinned bytes, or others.
Bytes == {"absent", "torn", "pinned", "other"}
Way == {"staged", "direct"}

VARIABLES
  target,    \* per way: the file at the destination
  partial,   \* the .partial file beside the staged one
  loader,    \* per process: which way it loads, and how far it is
  loads, crashes

cacheVars == <<target, partial, loader, loads, crashes>>

CacheInit ==
  /\ target = [w \in Way |-> "absent"]
  /\ partial = "absent"
  /\ loader = [p \in Loader |-> [way |-> "staged", pc |-> "idle"]]
  /\ loads = 0 /\ crashes = 0

Resting == {"idle", "returned", "raised"}
At(p, way, pc) == loader[p] = [way |-> way, pc |-> pc]
Becomes(p, pc) == loader' = [loader EXCEPT ![p].pc = pc]

\* A command calls one of the two; commands that load do not overlap.
Load(p) ==
  /\ loads < MaxLoads
  /\ \A q \in Loader : loader[q].pc \in Resting
  /\ \E w \in Way : loader' = [q \in Loader |->
        IF q = p THEN [way |-> w, pc |-> "check"] ELSE [loader[q] EXCEPT !.pc = "idle"]]
  /\ loads' = loads + 1
  /\ UNCHANGED <<target, partial, crashes>>

-----------------------------------------------------------------------------
(* ensure_cached_file                                                      *)

\* "Existing mismatches are never silently replaced."
CheckStaged(p) ==
  /\ At(p, "staged", "check")
  /\ Becomes(p, IF target["staged"] = "absent" THEN "download"
                ELSE IF target["staged"] = "pinned" THEN "returned"
                ELSE "raised")
  /\ UNCHANGED <<target, partial, loads, crashes>>

\* staging.open("wb"), after the connection is open; refused, it leaves nothing.
OpenStaging(p) ==
  /\ At(p, "staged", "download")
  /\ \/ partial' = "torn" /\ Becomes(p, "receive")
     \/ partial' = "absent" /\ Becomes(p, "raised")
  /\ UNCHANGED <<target, loads, crashes>>

\* All of it arrives, or the connection breaks and the except removes it.
Receive(p) ==
  /\ At(p, "staged", "receive")
  /\ \/ partial' \in {"pinned", "other"} /\ Becomes(p, "verify")
     \/ partial' = "absent" /\ Becomes(p, "raised")
  /\ UNCHANGED <<target, loads, crashes>>

VerifyStaged(p) ==
  /\ At(p, "staged", "verify")
  /\ IF partial = "pinned"
     THEN UNCHANGED partial /\ Becomes(p, "promote")
     ELSE partial' = "absent" /\ Becomes(p, "raised")
  /\ UNCHANGED <<target, loads, crashes>>

\* staging.replace(path)
Promote(p) ==
  /\ At(p, "staged", "promote")
  /\ target' = [target EXCEPT !["staged"] = partial]
  /\ partial' = "absent"
  /\ Becomes(p, "returned")
  /\ UNCHANGED <<loads, crashes>>

-----------------------------------------------------------------------------
(* fetch                                                                   *)

\* Faulty variant: whatever is cached is taken.
CheckExists(p) ==
  /\ At(p, "direct", "check")
  /\ Becomes(p, IF target["direct"] # "absent" THEN "returned" ELSE "download")
  /\ UNCHANGED <<target, partial, loads, crashes>>

\* A cached file that does not match is "re-downloaded once".
CheckInPlace(p) ==
  /\ At(p, "direct", "check")
  /\ IF target["direct"] = "pinned"
     THEN UNCHANGED target /\ Becomes(p, "returned")
     ELSE target' = [target EXCEPT !["direct"] = "absent"] /\ Becomes(p, "download")
  /\ UNCHANGED <<partial, loads, crashes>>

\* The response is read whole before write_bytes opens the file.
OpenInPlace(p) ==
  /\ At(p, "direct", "download")
  /\ \/ target' = [target EXCEPT !["direct"] = "torn"] /\ Becomes(p, "write")
     \/ UNCHANGED target /\ Becomes(p, "raised")
  /\ UNCHANGED <<partial, loads, crashes>>

Write(p) ==
  /\ At(p, "direct", "write")
  /\ \E bytes \in {"pinned", "other"} :
       target' = [target EXCEPT !["direct"] = bytes]
  /\ Becomes(p, "verify")
  /\ UNCHANGED <<partial, loads, crashes>>

VerifyInPlace(p) ==
  /\ At(p, "direct", "verify")
  /\ IF target["direct"] = "pinned"
     THEN UNCHANGED target /\ Becomes(p, "returned")
     ELSE target' = [target EXCEPT !["direct"] = "absent"] /\ Becomes(p, "raised")
  /\ UNCHANGED <<partial, loads, crashes>>

-----------------------------------------------------------------------------
\* A process is killed: no except block runs.
LoaderKilled(p) ==
  /\ loader[p].pc \notin Resting /\ crashes < MaxCrashes
  /\ Becomes(p, "idle")
  /\ crashes' = crashes + 1
  /\ UNCHANGED <<target, partial, loads>>

\* Between two commands somebody changes a cached file.
Changed ==
  /\ \A p \in Loader : loader[p].pc = "idle"
  /\ \E w \in Way : target[w] = "pinned" /\ target' = [target EXCEPT ![w] = "other"]
  /\ UNCHANGED <<partial, loader, loads, crashes>>

CacheNext ==
  \/ Changed
  \/ \E p \in Loader :
       \/ Load(p)
       \/ CheckStaged(p) \/ OpenStaging(p) \/ Receive(p) \/ VerifyStaged(p) \/ Promote(p)
       \/ CheckInPlace(p) \/ OpenInPlace(p) \/ Write(p) \/ VerifyInPlace(p)
       \/ LoaderKilled(p)

CacheSpec == CacheInit /\ [][CacheNext]_cacheVars

-----------------------------------------------------------------------------
(* Properties.                                                             *)

\* fetch.py: "the downloaded bytes must match a recorded SHA-256 before anything
\* reads them".  A path that is returned holds the pinned bytes, whatever
\* upstream serves, wherever an earlier process was killed, and although a kept
\* file has been changed.
ReturnedIsPinned ==
  \A p \in Loader : loader[p].pc = "returned" => target[loader[p].way] = "pinned"
=============================================================================
