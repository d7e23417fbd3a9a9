----------------------------- MODULE PolicyPacks -----------------------------
(***************************************************************************)
(* PolicyStore (policy/loader.py): worker threads that resolve a route     *)
(* while someone edits the jurisdiction's YAML file under them.  One       *)
(* jurisdiction, for each has a file and a cache entry of its own.         *)
(*                                                                         *)
(* A file's text is a number: the n-th save leaves 2n, and between the     *)
(* editor's truncation and its write it is odd, half a pack.               *)
(***************************************************************************)
EXTENDS Integers

CONSTANTS Worker, MaxSaves, MaxResolves

VARIABLES
  pack,      \* the file: its text and its mtime
  cached,    \* self._cache[jurisdiction]
  worker,    \* per thread: how far resolve() is, and what it holds
  resolves   \* how many resolves there have been

packVars == <<pack, cached, worker, resolves>>

NoEntry == [mtime |-> -1, text |-> -1]
Whole(text) == text % 2 = 0

PacksInit ==
  /\ pack = [text |-> 0, mtime |-> 0]
  /\ cached = NoEntry
  /\ worker = [w \in Worker |-> [pc |-> "idle"]]
  /\ resolves = 0

\* An editor saves in place, in two steps; every step gets an mtime of its own,
\* as it does while saves are further apart than the file system's clock tick.
Edit ==
  /\ pack.text < 2 * MaxSaves
  /\ pack' = [text |-> pack.text + 1, mtime |-> pack.mtime + 1]
  /\ UNCHANGED <<cached, worker, resolves>>

Step(w, state) == worker' = [worker EXCEPT ![w] = state]

\* resolve() is called; asked is what the file held then.
Resolve(w) ==
  /\ worker[w].pc \in {"idle", "returned", "raised"} /\ resolves < MaxResolves
  /\ Step(w, [pc |-> "stat", asked |-> pack.text])
  /\ resolves' = resolves + 1
  /\ UNCHANGED <<pack, cached>>

\* path.stat()
Stat(w) ==
  /\ worker[w].pc = "stat"
  /\ Step(w, [pc |-> "lookup", asked |-> worker[w].asked, mtime |-> pack.mtime])
  /\ UNCHANGED <<pack, cached, resolves>>

\* self._cache.get(): the cached entry, if its mtime is the one just taken.
Lookup(w) ==
  /\ worker[w].pc = "lookup"
  /\ IF cached.mtime = worker[w].mtime
     THEN Step(w, [pc |-> "loaded", asked |-> worker[w].asked, entry |-> cached])
     ELSE Step(w, [worker[w] EXCEPT !.pc = "read"])
  /\ UNCHANGED <<pack, cached, resolves>>

\* Faulty variant: the text is read on entry, and the mtime taken afterwards.
StatLast(w) ==
  /\ worker[w].pc = "read"
  /\ Step(w, [pc |-> "loaded", asked |-> worker[w].asked,
              entry |-> [mtime |-> pack.mtime, text |-> worker[w].asked]])
  /\ UNCHANGED <<pack, cached, resolves>>

\* path.read_bytes() and yaml.safe_load: half a pack is no mapping, or one that
\* lacks what resolve() looks up, or one that does not.
Read(w) ==
  /\ worker[w].pc = "read"
  /\ \/ Step(w, [pc |-> "loaded", asked |-> worker[w].asked,
                 entry |-> [mtime |-> worker[w].mtime, text |-> pack.text]])
     \/ ~Whole(pack.text) /\ Step(w, [pc |-> "raised"])
  /\ UNCHANGED <<pack, cached, resolves>>

\* resolve() stores the entry, a cached one too, and builds the RoutePolicy with
\* the entry's digest; a KeyError for a missing route comes after the store.
Store(w) ==
  LET entry == worker[w].entry IN
  /\ worker[w].pc = "loaded"
  /\ cached' = entry
  /\ \/ Step(w, [pc |-> "returned", asked |-> worker[w].asked, text |-> entry.text])
     \/ ~Whole(entry.text) /\ Step(w, [pc |-> "raised"])
  /\ UNCHANGED <<pack, resolves>>

PacksNext ==
  \/ Edit
  \/ \E w \in Worker : Resolve(w) \/ Stat(w) \/ Lookup(w) \/ Read(w) \/ Store(w)

PacksSpec == PacksInit /\ [][PacksNext]_packVars

-----------------------------------------------------------------------------
(* Properties.                                                             *)

\* PolicyStore: "reload changed YAML files".  Whatever other threads put in the
\* cache meanwhile, a decision is made under a pack no older than the one that
\* was in force when it asked.
NoOlderThanAsked ==
  \A w \in Worker : worker[w].pc = "returned" => worker[w].text >= worker[w].asked
=============================================================================
