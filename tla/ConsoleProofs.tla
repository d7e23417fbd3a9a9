--------------------------- MODULE ConsoleProofs ----------------------------
(***************************************************************************)
(* Proofs about what runs beside the gateway: the policy packs, the cached *)
(* corpora, the console's handle on the ledger file and the prototype page.*)
(***************************************************************************)
EXTENDS DemoPage, PolicyPacks, CorpusCache, Workspace, TLAPS

-----------------------------------------------------------------------------
(* PolicyPacks.                                                             *)

\* A save moves the text and the mtime together, so an entry whose mtime was
\* taken before its text was read is never older than its mtime says.
Fresh(entry) == entry.text \in Int /\ entry.mtime \in Int /\ entry.text >= entry.mtime

\* What a thread in resolve() holds is no older than what it asked for.
Keeps(state) ==
  /\ state.pc = "stat" => state.asked \in Int /\ state.asked <= pack.text
  /\ state.pc \in {"lookup", "read"} =>
       /\ state.asked \in Int /\ state.mtime \in Int
       /\ state.asked <= state.mtime /\ state.mtime <= pack.text
  /\ state.pc = "loaded" =>
       /\ state.asked \in Int /\ Fresh(state.entry)
       /\ state.entry.text >= state.asked
  /\ state.pc = "returned" => state.text >= state.asked

PacksInv ==
  /\ pack \in [text : Int, mtime : Int] /\ pack.mtime = pack.text
  /\ Fresh(cached)
  /\ DOMAIN worker = Worker
  /\ \A w \in Worker : Keeps(worker[w])

\* A step of one thread that leaves the file alone.
LEMMA ThreadKeeps ==
  ASSUME PacksInv, NEW w \in Worker, NEW state, Step(w, state), pack' = pack,
         Keeps(state), Fresh(cached')
  PROVE  PacksInv'
<1>1. DOMAIN worker' = Worker /\ worker'[w] = state
      /\ \A v \in Worker : v # w => worker'[v] = worker[v]
  BY DEF PacksInv, Step
<1>2. ASSUME NEW v \in Worker PROVE Keeps(worker'[v])
  BY <1>1 DEF PacksInv
<1> QED BY <1>1, <1>2 DEF PacksInv, Keeps, Fresh

LEMMA PacksStepKeeps == PacksInv /\ [PacksNext]_packVars => PacksInv'
<1> SUFFICES ASSUME PacksInv, [PacksNext]_packVars PROVE PacksInv'
  OBVIOUS
<1>1. CASE Edit
  <2>1. /\ pack' = [text |-> pack.text + 1, mtime |-> pack.mtime + 1]
        /\ cached' = cached /\ worker' = worker
    BY <1>1 DEF Edit
  <2>2. ASSUME NEW w \in Worker PROVE Keeps(worker[w])'
    BY <2>1 DEF PacksInv, Keeps, Fresh
  <2> QED BY <2>1, <2>2 DEF PacksInv, Fresh
<1>2. ASSUME NEW w \in Worker, Resolve(w) PROVE PacksInv'
  <2>1. Keeps([pc |-> "stat", asked |-> pack.text])
    BY DEF PacksInv, Keeps
  <2> QED BY <1>2, <2>1, ThreadKeeps DEF Resolve, PacksInv
<1>3. ASSUME NEW w \in Worker, Stat(w) PROVE PacksInv'
  <2>1. Keeps([pc |-> "lookup", asked |-> worker[w].asked, mtime |-> pack.mtime])
    BY <1>3 DEF Stat, PacksInv, Keeps
  <2> QED BY <1>3, <2>1, ThreadKeeps DEF Stat, PacksInv
<1>4. ASSUME NEW w \in Worker, Lookup(w) PROVE PacksInv'
  <2> DEFINE held == worker[w]
  <2>1. CASE cached.mtime = held.mtime
    <3>1. Keeps([pc |-> "loaded", asked |-> held.asked, entry |-> cached])
      BY <1>4, <2>1 DEF Lookup, PacksInv, Keeps, Fresh
    <3> QED BY <1>4, <2>1, <3>1, ThreadKeeps DEF Lookup, PacksInv
  <2>2. CASE cached.mtime # held.mtime
    <3>1. Keeps([held EXCEPT !.pc = "read"])
      BY <1>4 DEF Lookup, PacksInv, Keeps
    <3> QED BY <1>4, <2>2, <3>1, ThreadKeeps DEF Lookup, PacksInv
  <2> QED BY <2>1, <2>2
<1>5. ASSUME NEW w \in Worker, Read(w) PROVE PacksInv'
  <2> DEFINE entry == [mtime |-> worker[w].mtime, text |-> pack.text]
             loaded == [pc |-> "loaded", asked |-> worker[w].asked, entry |-> entry]
  <2>1. pack' = pack /\ cached' = cached
    BY <1>5 DEF Read
  <2>2. Keeps(loaded)
    BY <1>5 DEF Read, PacksInv, Keeps, Fresh
  <2>3. Keeps([pc |-> "raised"])
    BY DEF Keeps
  <2>4. Step(w, loaded) \/ Step(w, [pc |-> "raised"])
    BY <1>5 DEF Read
  <2> HIDE DEF loaded
  <2> QED BY <2>1, <2>2, <2>3, <2>4, ThreadKeeps DEF PacksInv
<1>6. ASSUME NEW w \in Worker, Store(w) PROVE PacksInv'
  <2> DEFINE entry == worker[w].entry
             answer == [pc |-> "returned", asked |-> worker[w].asked, text |-> entry.text]
  <2>1. pack' = pack /\ cached' = entry /\ Fresh(entry)
    BY <1>6 DEF Store, PacksInv, Keeps
  <2>2. Keeps(answer)
    BY <1>6 DEF Store, PacksInv, Keeps
  <2>3. Keeps([pc |-> "raised"])
    BY DEF Keeps
  <2>4. Step(w, answer) \/ Step(w, [pc |-> "raised"])
    BY <1>6 DEF Store
  <2>5. Fresh(cached')
    BY <2>1
  <2> HIDE DEF answer, entry
  <2> QED BY <2>1, <2>2, <2>3, <2>4, <2>5, ThreadKeeps
<1>7. CASE UNCHANGED packVars
  BY <1>7 DEF packVars, PacksInv, Keeps, Fresh
<1> QED BY <1>1, <1>2, <1>3, <1>4, <1>5, <1>6, <1>7 DEF PacksNext

\* Whatever other threads put in the cache and whenever the file is saved, a
\* decision is made under a pack no older than the one in force when it asked.
THEOREM PacksAreFresh == PacksSpec => []NoOlderThanAsked
<1>1. PacksInit => PacksInv
  BY DEF PacksInit, PacksInv, NoEntry, Fresh, Keeps
<1>2. PacksInv => NoOlderThanAsked
  BY DEF PacksInv, Keeps, NoOlderThanAsked
<1> QED BY <1>1, <1>2, PacksStepKeeps, PTL DEF PacksSpec

-----------------------------------------------------------------------------
(* CorpusCache.                                                             *)

Places == {"idle", "check", "download", "receive", "verify", "promote", "write",
           "returned", "raised"}

\* One process is at work, the others rest.
Alone ==
  \A p, q \in Loader : p # q /\ loader[p].pc # "idle" => loader[q].pc = "idle"

CacheInv ==
  /\ target \in [Way -> Bytes]
  /\ loader \in [Loader -> [way : Way, pc : Places]]
  /\ Alone
  /\ \A p \in Loader : loader[p].pc = "promote" => loader[p].way = "staged" /\ partial = "pinned"
  /\ ReturnedIsPinned

\* A step of one process.
LEMMA LoaderKeeps ==
  ASSUME CacheInv, NEW p \in Loader, loader[p].pc # "idle", NEW pc \in Places,
         Becomes(p, pc), target' \in [Way -> Bytes],
         pc = "promote" => loader[p].way = "staged" /\ partial' = "pinned",
         pc = "returned" => target'[loader[p].way] = "pinned"
  PROVE  CacheInv'
<1>1. /\ loader' \in [Loader -> [way : Way, pc : Places]]
      /\ loader'[p].pc = pc /\ loader'[p].way = loader[p].way
      /\ \A q \in Loader : q # p => loader'[q] = loader[q]
  BY DEF CacheInv, Becomes
<1>2. \A q \in Loader : q # p => loader'[q].pc = "idle"
  BY <1>1 DEF CacheInv, Alone
<1>3. Alone'
  BY <1>1, <1>2 DEF Alone
<1> QED BY <1>1, <1>2, <1>3 DEF CacheInv, ReturnedIsPinned

LEMMA StagedKeeps ==
  ASSUME CacheInv, NEW p \in Loader,
         CheckStaged(p) \/ OpenStaging(p) \/ Receive(p) \/ VerifyStaged(p) \/ Promote(p)
  PROVE  CacheInv'
<1>1. CASE CheckStaged(p)
  <2>1. /\ target' = target /\ partial' = partial
        /\ loader[p] = [way |-> "staged", pc |-> "check"]
        /\ \/ Becomes(p, "returned") /\ target["staged"] = "pinned"
           \/ Becomes(p, "download") \/ Becomes(p, "raised")
    BY <1>1 DEF CheckStaged, At
  <2> QED BY <2>1, LoaderKeeps DEF CacheInv, Places
<1>2. CASE OpenStaging(p) \/ Receive(p)
  <2>1. /\ target' = target /\ loader[p].pc \in {"download", "receive"}
        /\ \E pc \in {"receive", "raised", "verify"} : Becomes(p, pc)
    BY <1>2 DEF OpenStaging, Receive, At
  <2> QED BY <2>1, LoaderKeeps DEF CacheInv, Places
<1>3. CASE VerifyStaged(p)
  <2>1. /\ target' = target /\ loader[p] = [way |-> "staged", pc |-> "verify"]
        /\ \/ Becomes(p, "promote") /\ partial' = "pinned"
           \/ Becomes(p, "raised")
    BY <1>3 DEF VerifyStaged, At
  <2> QED BY <2>1, LoaderKeeps DEF CacheInv, Places
<1>4. CASE Promote(p)
  <2>1. /\ loader[p] = [way |-> "staged", pc |-> "promote"] /\ partial = "pinned"
        /\ target' = [target EXCEPT !["staged"] = "pinned"] /\ Becomes(p, "returned")
    <3>1. loader[p] = [way |-> "staged", pc |-> "promote"]
      BY <1>4 DEF Promote, At
    <3>2. partial = "pinned"
      BY <3>1 DEF CacheInv
    <3> QED BY <1>4, <3>1, <3>2 DEF Promote
  <2>2. target' \in [Way -> Bytes] /\ target'["staged"] = "pinned"
    BY <2>1 DEF CacheInv, Way, Bytes
  <2> QED BY <2>1, <2>2, LoaderKeeps DEF Places
<1> QED BY <1>1, <1>2, <1>3, <1>4

LEMMA InPlaceKeeps ==
  ASSUME CacheInv, NEW p \in Loader,
         CheckInPlace(p) \/ OpenInPlace(p) \/ Write(p) \/ VerifyInPlace(p)
  PROVE  CacheInv'
<1>1. CASE CheckInPlace(p) \/ VerifyInPlace(p)
  <2>1. /\ loader[p].way = "direct" /\ loader[p].pc \in {"check", "verify"}
        /\ \/ target' = target /\ target["direct"] = "pinned" /\ Becomes(p, "returned")
           \/ /\ target' = [target EXCEPT !["direct"] = "absent"]
              /\ Becomes(p, "download") \/ Becomes(p, "raised")
    <3>1. CASE CheckInPlace(p)
      BY <3>1 DEF CheckInPlace, At
    <3>2. CASE VerifyInPlace(p)
      BY <3>2 DEF VerifyInPlace, At
    <3> QED BY <1>1, <3>1, <3>2
  <2>2. target' \in [Way -> Bytes]
    BY <2>1 DEF CacheInv, Bytes
  <2> QED BY <2>1, <2>2, LoaderKeeps DEF Places
<1>2. CASE OpenInPlace(p) \/ Write(p)
  <2>1. /\ loader[p].pc \in {"download", "write"}
        /\ \E pc \in {"write", "raised", "verify"} : Becomes(p, pc)
        /\ \/ target' = target
           \/ \E bytes \in Bytes : target' = [target EXCEPT !["direct"] = bytes]
    <3>1. CASE OpenInPlace(p)
      BY <3>1 DEF OpenInPlace, At, Bytes
    <3>2. CASE Write(p)
      <4>1. \E bytes \in Bytes : target' = [target EXCEPT !["direct"] = bytes]
        BY <3>2 DEF Write, Bytes
      <4>2. loader[p].pc = "write" /\ Becomes(p, "verify")
        BY <3>2 DEF Write, At
      <4> QED BY <4>1, <4>2
    <3> QED BY <1>2, <3>1, <3>2
  <2>2. target' \in [Way -> Bytes]
    BY <2>1 DEF CacheInv
  <2> QED BY <2>1, <2>2, LoaderKeeps DEF Places
<1> QED BY <1>1, <1>2

LEMMA LoadKeeps ==
  ASSUME CacheInv, NEW p \in Loader, Load(p) PROVE CacheInv'
<1>1. PICK w \in Way : loader' = [q \in Loader |->
        IF q = p THEN [way |-> w, pc |-> "check"] ELSE [loader[q] EXCEPT !.pc = "idle"]]
  BY DEF Load
<1>2. target' = target
  BY DEF Load
<1>3. /\ loader'[p] = [way |-> w, pc |-> "check"]
      /\ \A q \in Loader : q # p => loader'[q].pc = "idle"
  BY <1>1 DEF CacheInv
<1>4. loader' \in [Loader -> [way : Way, pc : Places]]
  BY <1>1 DEF CacheInv, Places
<1> QED BY <1>2, <1>3, <1>4 DEF CacheInv, Alone, ReturnedIsPinned

LEMMA CacheStepKeeps == CacheInv /\ [CacheNext]_cacheVars => CacheInv'
<1> SUFFICES ASSUME CacheInv, [CacheNext]_cacheVars PROVE CacheInv'
  OBVIOUS
<1>1. CASE Changed
  <2>1. /\ \A p \in Loader : loader[p].pc = "idle"
        /\ loader' = loader /\ partial' = partial
        /\ \E w \in Way : target' = [target EXCEPT ![w] = "other"]
    BY <1>1 DEF Changed
  <2>2. target' \in [Way -> Bytes]
    BY <2>1 DEF CacheInv, Bytes
  <2> QED BY <2>1, <2>2 DEF CacheInv, Alone, ReturnedIsPinned
<1>2. ASSUME NEW p \in Loader, LoaderKilled(p) PROVE CacheInv'
  BY <1>2, LoaderKeeps DEF LoaderKilled, CacheInv, Places, Resting
<1>3. CASE UNCHANGED cacheVars
  BY <1>3 DEF cacheVars, CacheInv, Alone, ReturnedIsPinned
<1> QED BY <1>1, <1>2, <1>3, LoadKeeps, StagedKeeps, InPlaceKeeps DEF CacheNext

\* A corpus path that is handed to anyone holds the pinned bytes, however many
\* processes were killed on the way and whatever upstream served.
THEOREM CorpusIsPinned == CacheSpec => []ReturnedIsPinned
<1>1. CacheInit => CacheInv
  <2> SUFFICES ASSUME CacheInit PROVE CacheInv
    OBVIOUS
  <2>1. target \in [Way -> Bytes]
    BY DEF CacheInit, Bytes
  <2>2. /\ loader \in [Loader -> [way : Way, pc : Places]]
        /\ \A p \in Loader : loader[p].pc = "idle"
    BY DEF CacheInit, Way, Places
  <2> QED BY <2>1, <2>2 DEF CacheInv, Alone, ReturnedIsPinned
<1>2. CacheInv => ReturnedIsPinned
  BY DEF CacheInv
<1> QED BY <1>1, <1>2, CacheStepKeeps, PTL DEF CacheSpec

-----------------------------------------------------------------------------
(* Workspace: the engine of the decision lab and the file it holds open.    *)

LabInv ==
  /\ DOMAIN cache = {"frame", "detail", "scenarios", "attention", "engine"}
  /\ LabReachesChain

\* A step that leaves the engine and the file alone.
LEMMA LabSame ==
  ASSUME LabInv, DOMAIN cache' = DOMAIN cache, cache'.engine = cache.engine,
         chain' = chain, cleaned' = cleaned
  PROVE  LabInv'
BY DEF LabInv, LabReachesChain

\* The file is created only where there is none.
LEMMA LabOpens ==
  ASSUME LabInv, OpenChain, cache' = cache, cleaned' = cleaned
  PROVE  LabInv'
BY DEF LabInv, LabReachesChain, OpenChain

LEMMA LabReads ==
  ASSUME LabInv, NEW what, NEW field \in {"frame", "detail", "scenarios", "attention"},
         ReadInto(what, field)
  PROVE  LabInv'
<1>1. chain' = chain /\ cleaned' = cleaned
  BY DEF ReadInto
<1>2. DOMAIN cache' = DOMAIN cache /\ cache'.engine = cache.engine
  <2>1. cache' = cache \/ \E v : cache' = [cache EXCEPT ![field] = v]
    BY DEF ReadInto
  <2> QED BY <2>1 DEF LabInv
<1> QED BY <1>1, <1>2, LabSame

LEMMA LabStepKeeps == LabInv /\ [WorkNext]_workVars => LabInv'
<1> SUFFICES ASSUME LabInv, [WorkNext]_workVars PROVE LabInv'
  OBVIOUS
<1>1. CASE \/ \E name \in {"data", "report", "demo", "attention", "relearn", "clean"} : Command(name)
           \/ Finished \/ Killed \/ EditConfig
  BY <1>1, LabSame DEF Command, Finished, Killed, EditConfig
<1>2. CASE \E a \in Actor : LoadCorpus(a) \/ OpenFile(a) \/ FillFile(a)
  BY <1>2, LabSame DEF LoadCorpus, OpenFile, FillFile
<1>3. CASE Reset \/ ShowLedger
  BY <1>3, LabOpens DEF Reset, ShowLedger, Shows
<1>4. CASE Unlink
  <2>1. cache' = cache /\ (cleaned' = TRUE \/ (chain' = chain /\ cleaned' = cleaned))
    BY <1>4 DEF Unlink
  <2> QED BY <2>1 DEF LabInv, LabReachesChain
<1>5. CASE (\E view \in Views : SelectView(view)) \/ Choose \/ LoadRelearn
  BY <1>5, LabSame DEF SelectView, Choose, LoadRelearn
<1>6. CASE ReadFrame \/ ReadDetail \/ ReadScenarios
  BY <1>6, LabReads DEF ReadFrame, ReadDetail, ReadScenarios
<1>7. CASE LoadAttention
  <2>1. CASE ReadInto("attention", "attention")
    BY <2>1, LabReads
  <2>2. CASE /\ cache' = [cache EXCEPT !.attention = Absent]
             /\ chain' = chain /\ cleaned' = cleaned
    BY <2>2, LabSame DEF LabInv
  <2> QED BY <1>7, <2>1, <2>2 DEF LoadAttention
<1>8. CASE Built \/ RunScenarios
  <2>1. chain' = chain /\ cleaned' = cleaned
    BY <1>8 DEF Built, RunScenarios
  <2>2. DOMAIN cache' = DOMAIN cache /\ cache'.engine = cache.engine
    BY <1>8 DEF Built, RunScenarios, LabInv
  <2> QED BY <2>1, <2>2, LabSame
<1>9. CASE OpenEngine
  <2>1. cache' = [cache EXCEPT !.engine = chain']
    BY <1>9 DEF OpenEngine
  <2> QED BY <2>1 DEF LabInv, LabReachesChain
<1>10. CASE ShowOverview \/ ShowQueue \/ ShowScenarios \/ ShowRelearn \/ ShowLive \/ ShowDecision
  BY <1>10, LabSame
     DEF ShowOverview, ShowQueue, ShowScenarios, ShowRelearn, ShowLive, ShowDecision, Shows
<1>11. CASE RestartServer
  BY <1>11 DEF RestartServer, LabInv, LabReachesChain
<1>12. CASE UNCHANGED workVars
  BY <1>12, LabSame DEF workVars
<1> QED BY <1>1, <1>2, <1>3, <1>4, <1>5, <1>6, <1>7, <1>8, <1>9, <1>10, <1>11, <1>12
        DEF WorkNext

\* The lab's engine appends to the file the ledger view opens for as long as no
\* clean takes the file away, demo runs that empty the chain included.
THEOREM LabStaysOnTheChain == WorkSpec => []LabReachesChain
<1>1. WorkInit => LabInv
  BY DEF WorkInit, WorkStart, LabInv, LabReachesChain
<1>2. LabInv => LabReachesChain
  BY DEF LabInv
<1> QED BY <1>1, <1>2, LabStepKeeps, PTL DEF WorkSpec

-----------------------------------------------------------------------------
(* Workspace: the two files of a report.                                    *)

Held == Nat \cup {Absent, Torn, Short}
Deed == {"load", "write", "reset", "unlink", "choose", "frame", "detail", "built", "scenarios",
         "attention", "relearn", "engine"}
Path == {"interactions.jsonl", "evaluation.csv", "evaluation.json", "attention.json",
         "relearn.json", "scenarios.json", "audit.db"}
Item == [do : Deed, file : Path]
Commands == {"data", "report", "demo", "attention", "relearn", "clean"}
Cut == Commands \cup {"overlap"}
Job ==
  [name : Views \cup Commands \cup {"none"}, todo : Seq(Item), open : BOOLEAN,
   version : Held, mends : SUBSET Cut]

WorkTypes ==
  /\ config \in Nat
  /\ disk \in [File -> Held]
  /\ job \in [Actor -> Job]
  /\ DOMAIN cache = {"frame", "detail", "scenarios", "attention", "engine"}
  /\ cut \subseteq Cut
  /\ disturbed \in BOOLEAN

\* The two files of a report are of one run, or neither is there.
Table == disk["evaluation.csv"]
Detail == disk["evaluation.json"]
Settled == Table = Detail /\ Detail # Torn

\* What is in cut may have left the report in pieces.
Breaks(names) == names \cap {"report", "demo", "clean", "overlap"} # {}

\* The list q of things to do begins with one that does what with file.
Begins(q, what, file) == q \in Seq(Item) /\ q # <<>> /\ Head(q) = Do(what, file)

\* What a command still has to do, told by how much of the report is written.
Afterwards == {Do("reset", "audit.db"), Do("write", "scenarios.json")}
ToDetail(q) == Begins(q, "write", "evaluation.json") /\ Tail(q) \in Seq(Afterwards)
ToTable(q) == Begins(q, "write", "evaluation.csv") /\ ToDetail(Tail(q))
ToCorpus(q) ==
  /\ \E what \in {"load", "write"} : Begins(q, what, "interactions.jsonl")
  /\ ToTable(Tail(q))

Remaining == {Do("unlink", "scenarios.json")}
OffDetail(q) == Begins(q, "unlink", "evaluation.json") /\ Tail(q) \in Seq(Remaining)
OffTable(q) == Begins(q, "unlink", "evaluation.csv") /\ OffDetail(Tail(q))
OffChain(q) == Begins(q, "unlink", "audit.db") /\ OffTable(Tail(q))
OffCorpus(q) == Begins(q, "unlink", "interactions.jsonl") /\ OffChain(Tail(q))

Elsewhere == {Corpus, Do("write", "interactions.jsonl"), Do("write", "attention.json"),
              Do("write", "relearn.json")}

CommandTodo ==
  LET c == job["command"] IN
  /\ c.name \in Commands \cup {"none"}
  /\ c.name = "none" => c = Rest
  /\ c.name \in {"data", "attention", "relearn"} => c.todo \in Seq(Elsewhere) /\ ~Breaks(c.mends)
  /\ c.name \in {"report", "demo"} =>
       /\ ToCorpus(c.todo) \/ ToTable(c.todo) \/ ToDetail(c.todo) \/ c.todo \in Seq(Afterwards)
       /\ c.version \in Nat \cup {Short}
  /\ c.name = "clean" =>
       \/ OffCorpus(c.todo) \/ OffChain(c.todo) \/ OffTable(c.todo) \/ OffDetail(c.todo)
       \/ c.todo \in Seq(Remaining)

\* Where a command has the report by now, if nobody disturbs it.
Undisturbed == ~Active("console") /\ ~Breaks(cut \ job["command"].mends)
Progress ==
  LET c == job["command"] IN
  /\ c.name \in {"data", "attention", "relearn"} => Settled
  /\ c.name \in {"report", "demo"} =>
       /\ ToCorpus(c.todo) /\ ~Breaks(cut) => Settled
       /\ ToDetail(c.todo) => Table = c.version
       /\ c.todo \in Seq(Afterwards) => Settled
  /\ c.name = "clean" =>
       /\ OffDetail(c.todo) => Table = Absent
       /\ c.todo \in Seq(Remaining) => Settled
CommandPair == Active("command") /\ Undisturbed => Progress

\* What the console still has to do before its view; Later is after the artifacts.
Later == {Corpus, Do("write", "interactions.jsonl"), Do("write", "scenarios.json"),
          Do("attention", "attention.json"), Do("relearn", "relearn.json"),
          Do("engine", "audit.db")}
AtScenarios(q) == Begins(q, "scenarios", "scenarios.json") /\ Tail(q) \in Seq(Later)
AtDetail(q) == Begins(q, "detail", "evaluation.json") /\ AtScenarios(Tail(q))
AtTable(q) == Begins(q, "frame", "evaluation.csv") /\ AtDetail(Tail(q))
AtBuilt(q) == Begins(q, "built", "evaluation.json") /\ AtScenarios(Tail(q))
MakesDetail(q) == Begins(q, "write", "evaluation.json") /\ AtBuilt(Tail(q))
MakesTable(q) == Begins(q, "write", "evaluation.csv") /\ MakesDetail(Tail(q))
AtChoice(q) == Begins(q, "choose", "evaluation.json") /\ AtScenarios(Tail(q))
AtCorpus(q) ==
  /\ \E what \in {"load", "write"} : Begins(q, what, "interactions.jsonl")
  /\ AtChoice(Tail(q))
Loads(q) ==
  \/ AtCorpus(q) \/ AtChoice(q) \/ AtTable(q) \/ AtDetail(q) \/ MakesTable(q)
  \/ MakesDetail(q) \/ AtBuilt(q) \/ AtScenarios(q)

ConsoleTodo ==
  LET v == job["console"] IN
  /\ v.name \in Views \cup {"none"}
  /\ v.name = "none" => v = Rest
  /\ v.mends = {}
  /\ IF v.name \in {"none", "Live"} \/ cache.scenarios # NotRead
     THEN v.todo \in Seq(Later)
     ELSE Loads(v.todo) /\ v.version \in Nat \cup {Short}

ConsolePair ==
  LET v == job["console"] IN
  ~Breaks(cut) /\ ~Active("command") =>
    /\ AtCorpus(v.todo) \/ AtChoice(v.todo) \/ v.todo \in Seq(Later) => Settled
    /\ AtTable(v.todo) => Settled /\ Detail # Absent
    /\ AtDetail(v.todo) => Settled /\ Detail # Absent /\ cache.frame = Table
    /\ MakesDetail(v.todo) => Table = v.version
    /\ AtBuilt(v.todo) => Table = v.version /\ Detail = v.version
    /\ AtScenarios(v.todo) => Settled /\ cache.frame = cache.detail

\* Who is at work alone, and what is known if somebody was not.
Overlap ==
  Active("console") =>
    /\ job["command"].mends = {}
    /\ Active("command") => "overlap" \in cut

Vouched ==
  ~disturbed =>
    IF cache.scenarios = NotRead
    THEN Active("console") => ~Active("command") /\ cut = {}
    ELSE cache.frame = cache.detail

OnScreen ==
  screen # <<>> /\ screen[1] = "report" =>
    cache.scenarios # NotRead /\ screen = <<"report", cache.frame, cache.detail>>

WorkInv ==
  /\ WorkTypes /\ CommandTodo /\ CommandPair /\ ConsoleTodo /\ ConsolePair
  /\ Overlap /\ Vouched /\ OnScreen

\* The lists of things to do, written out.
LEMMA Popped ==
  ASSUME NEW S, NEW q \in Seq(S), q # <<>>
  PROVE  Head(q) \in S /\ Tail(q) \in Seq(S)
OBVIOUS

LEMMA Pushed ==
  ASSUME NEW S, NEW x \in S, NEW q \in Seq(S)
  PROVE  /\ <<x>> \o q \in Seq(S) /\ <<x>> \o q # <<>>
         /\ Head(<<x>> \o q) = x /\ Tail(<<x>> \o q) = q
OBVIOUS

LEMMA Regrouped ==
  ASSUME NEW S, NEW s \in Seq(S), NEW t \in Seq(S), NEW u \in Seq(S)
  PROVE  s \o t \in Seq(S) /\ (s \o t) \o u = s \o (t \o u)
OBVIOUS

Three(t, u, v) == (t \o u) \o v
Four(s, t, u, v) == ((s \o t) \o u) \o v

LEMMA ItemsRegrouped ==
  \A s, t, u, v \in Seq(Item) : Four(s, t, u, v) = s \o Three(t, u, v)
<1> SUFFICES ASSUME NEW s \in Seq(Item), NEW t \in Seq(Item), NEW u \in Seq(Item),
                    NEW v \in Seq(Item)
             PROVE  ((s \o t) \o u) \o v = s \o ((t \o u) \o v)
  BY Zenon DEF Four, Three
<1> DEFINE more == t \o u
<1>1. (s \o t) \o u = s \o more /\ more \in Seq(Item)
  BY Regrouped
<1>2. ASSUME more \in Seq(Item) PROVE (s \o more) \o v = s \o (more \o v)
  <2> HIDE DEF more
  <2> QED BY <1>2
<1> QED BY <1>1, <1>2, Zenon

LEMMA PushedTwo ==
  ASSUME NEW S, NEW x \in S, NEW y \in S, NEW q \in Seq(S)
  PROVE  <<x, y>> \o q = <<x>> \o (<<y>> \o q)
<1>1. <<x, y>> = <<x>> \o <<y>>
  <2> DEFINE both == <<x>> \o <<y>>
  <2>1. both \in Seq(S) /\ Len(both) = 2 /\ both[1] = x /\ both[2] = y
    OBVIOUS
  <2> HIDE DEF both
  <2>2. both = <<x, y>>
    BY <2>1
  <2> QED BY <2>2 DEF both
<1>2. <<x>> \in Seq(S) /\ <<y>> \in Seq(S)
  OBVIOUS
<1>3. (<<x>> \o <<y>>) \o q = <<x>> \o (<<y>> \o q)
  BY <1>2, Regrouped
<1> QED BY <1>1, <1>3

LEMMA Joined ==
  ASSUME NEW x \in Item, NEW y \in Item, NEW z \in Item
  PROVE  <<x, y>> \o <<z>> = <<x, y, z>>
<1> DEFINE all == <<x, y>> \o <<z>>
<1>1. /\ all \in Seq(Item) /\ Len(all) = 3
      /\ all[1] = x /\ all[2] = y /\ all[3] = z
  OBVIOUS
<1> HIDE DEF all
<1>2. all = <<x, y, z>>
  BY <1>1
<1> QED BY <1>2 DEF all

LEMMA PushedThree ==
  ASSUME NEW x \in Item, NEW y \in Item, NEW z \in Item, NEW q \in Seq(Item)
  PROVE  <<x, y, z>> \o q = <<x>> \o (<<y>> \o (<<z>> \o q))
<1>1. <<x, y>> \o <<z>> = <<x, y, z>>
  BY Joined
<1>2. <<x, y>> \in Seq(Item) /\ <<z>> \in Seq(Item)
  OBVIOUS
<1>3. (<<x, y>> \o <<z>>) \o q = <<x, y>> \o (<<z>> \o q)
  BY <1>2, Regrouped
<1>4. <<z>> \o q \in Seq(Item)
  BY Pushed
<1>5. \A r \in Seq(Item) : <<x, y>> \o r = <<x>> \o (<<y>> \o r)
  BY PushedTwo
<1> QED BY <1>1, <1>3, <1>4, <1>5

LEMMA PushedNothing == ASSUME NEW S, NEW q \in Seq(S) PROVE <<>> \o q = q
OBVIOUS

LEMMA Larger == ASSUME NEW S, NEW T, S \subseteq T, NEW q \in Seq(S) PROVE q \in Seq(T)
OBVIOUS

LEMMA FilesAre ==
  /\ ToSet(CorpusFiles) = {"interactions.jsonl"}
  /\ File = {"interactions.jsonl", "evaluation.csv", "evaluation.json", "attention.json",
             "relearn.json", "scenarios.json"}
BY DEF File, ToSet, CorpusFiles, ReportFiles, AttentionFiles, RelearnFiles

LEMMA WritesAre ==
  /\ WriteCorpus = <<Do("write", "interactions.jsonl")>>
  /\ BuildReport = <<Do("write", "evaluation.csv"), Do("write", "evaluation.json")>>
  /\ Each("write", AttentionFiles) = <<Do("write", "attention.json")>>
  /\ Each("write", RelearnFiles) = <<Do("write", "relearn.json")>>
BY DEF WriteCorpus, BuildReport, Each, CorpusFiles, ReportFiles, AttentionFiles, RelearnFiles

LEMMA CleanIs ==
  Each("unlink", CleanFiles) =
    <<Do("unlink", "interactions.jsonl"), Do("unlink", "audit.db"),
      Do("unlink", "evaluation.csv"), Do("unlink", "evaluation.json"),
      Do("unlink", "scenarios.json")>>
BY DEF Each, CleanFiles, CorpusFiles, ReportFiles

-----------------------------------------------------------------------------
LEMMA Parts == \A what, file : Do(what, file).do = what /\ Do(what, file).file = file
BY DEF Do

LEMMA Items ==
  /\ \A what \in Deed, file \in Path : Do(what, file) \in Item
  /\ Corpus \in Item
  /\ Afterwards \subseteq Item /\ Remaining \subseteq Item /\ Elsewhere \subseteq Item
  /\ Later \subseteq Item
<1>1. \A what \in Deed, file \in Path : Do(what, file) \in Item
  BY DEF Do, Item
<1>2. Corpus \in Item
  BY <1>1 DEF Corpus, Deed, Path
<1>3. Afterwards \subseteq Item /\ Remaining \subseteq Item /\ Elsewhere \subseteq Item
  BY <1>1, <1>2 DEF Afterwards, Remaining, Elsewhere, Deed, Path
<1>4. Later \subseteq Item
  BY <1>1, <1>2 DEF Later, Deed, Path
<1> QED BY <1>1, <1>2, <1>3, <1>4

LEMMA BeginsWith ==
  ASSUME NEW what \in Deed, NEW file \in Path, NEW q \in Seq(Item)
  PROVE  Begins(<<Do(what, file)>> \o q, what, file) /\ Tail(<<Do(what, file)>> \o q) = q
BY Items, Pushed DEF Begins

\* What a list begins with tells the stage it is in.
LEMMA Marks ==
  ASSUME NEW q
  PROVE  /\ AtCorpus(q) => \/ Head(q) = Corpus
                           \/ Head(q) = Do("write", "interactions.jsonl")
         /\ AtChoice(q) => Head(q) = Do("choose", "evaluation.json")
         /\ AtTable(q) => Head(q) = Do("frame", "evaluation.csv")
         /\ AtDetail(q) => Head(q) = Do("detail", "evaluation.json")
         /\ MakesTable(q) => Head(q) = Do("write", "evaluation.csv")
         /\ MakesDetail(q) => Head(q) = Do("write", "evaluation.json")
         /\ AtBuilt(q) => Head(q) = Do("built", "evaluation.json")
         /\ AtScenarios(q) => Head(q) = Do("scenarios", "scenarios.json")
BY DEF AtScenarios, AtDetail, AtTable, AtBuilt, MakesDetail, MakesTable, AtChoice, AtCorpus,
       Begins, Corpus

LEMMA LaterDoes ==
  \A x \in Later :
    /\ x.do \in {"load", "write", "attention", "relearn", "engine"}
    /\ x.do = "write" => x.file \in {"interactions.jsonl", "scenarios.json"}
    /\ x.do = "load" => x = Corpus
BY Parts DEF Later, Corpus

LEMMA NotLater == ASSUME NEW q, Loads(q) PROVE q # <<>> /\ q \notin Seq(Later)
<1>1. q # <<>>
  BY DEF Loads, AtScenarios, AtDetail, AtTable, AtBuilt, MakesDetail, MakesTable, AtChoice,
         AtCorpus, Begins
<1> SUFFICES ASSUME q \in Seq(Later) PROVE FALSE
  BY <1>1
<1>2. Head(q) \in Later /\ Tail(q) \in Seq(Later)
  BY <1>1
<1>3. CASE AtCorpus(q)
  <2>1. Tail(q) # <<>> /\ Head(Tail(q)) = Do("choose", "evaluation.json")
    BY <1>3 DEF AtCorpus, AtChoice, Begins
  <2>2. Head(Tail(q)) \in Later
    BY <1>2, <2>1
  <2>3. Head(Tail(q)).do # "choose"
    BY <2>2, LaterDoes
  <2> QED BY <2>1, <2>3, Parts
<1>4. /\ Head(q).do \notin {"scenarios", "detail", "frame", "built", "choose"}
      /\ Head(q) # Do("write", "evaluation.csv") /\ Head(q) # Do("write", "evaluation.json")
  BY <1>2, LaterDoes, Parts
<1> QED BY <1>3, <1>4, Parts
     DEF Loads, AtScenarios, AtDetail, AtTable, AtBuilt, MakesDetail, MakesTable, AtChoice,
         Begins

LEMMA OneStage ==
  ASSUME NEW q
  PROVE  /\ AtScenarios(q) => ~(\/ AtCorpus(q) \/ AtChoice(q) \/ AtTable(q) \/ AtDetail(q)
                                \/ MakesDetail(q) \/ AtBuilt(q))
         /\ AtDetail(q) => ~(\/ AtCorpus(q) \/ AtChoice(q) \/ AtTable(q)
                             \/ MakesDetail(q) \/ AtBuilt(q))
         /\ AtTable(q) => ~(AtCorpus(q) \/ AtChoice(q) \/ MakesDetail(q) \/ AtBuilt(q))
         /\ AtBuilt(q) => ~(AtCorpus(q) \/ AtChoice(q) \/ MakesDetail(q))
         /\ MakesDetail(q) => ~(AtCorpus(q) \/ AtChoice(q))
         /\ MakesTable(q) => ~(\/ AtCorpus(q) \/ AtChoice(q) \/ AtTable(q) \/ AtDetail(q)
                               \/ MakesDetail(q) \/ AtBuilt(q) \/ AtScenarios(q))
<1>1. /\ Corpus.do = "load"
      /\ \A what, file, more, other : Do(what, file) = Do(more, other) =>
           what = more /\ file = other
  BY Parts DEF Corpus
<1>2. \A file : Corpus.do = "load" /\ Do("write", file).do = "write"
  BY <1>1, Parts
<1> QED BY <1>1, <1>2, Marks, Parts

LEMMA Stage ==
  ASSUME ConsoleTodo, NEW what, Head1("console", what)
  PROVE  LET q == job["console"].todo IN
         /\ what = "choose" => AtChoice(q)
         /\ what = "frame" => AtTable(q)
         /\ what = "detail" => AtDetail(q)
         /\ what = "built" => AtBuilt(q)
         /\ what = "scenarios" => AtScenarios(q)
         /\ what = "load" =>
              Head(q) = Corpus /\ (AtCorpus(q) \/ q \in Seq(Later))
         /\ what = "write" =>
              \/ AtCorpus(q) /\ Head(q) = Do("write", "interactions.jsonl")
              \/ MakesTable(q) \/ MakesDetail(q)
              \/ q \in Seq(Later) /\ Head(q) \in {Do("write", "interactions.jsonl"),
                                                Do("write", "scenarios.json")}
         /\ what \in {"attention", "relearn", "engine"} => q \in Seq(Later)
<1> DEFINE q == job["console"].todo
<1>1. q # <<>> /\ Head(q).do = what
  BY DEF Head1
<1>2. CASE q \in Seq(Later)
  <2>1. Head(q) \in Later
    BY <1>1, <1>2
  <2> QED BY <1>1, <1>2, <2>1, Parts DEF Later, Corpus
<1>3. CASE Loads(q)
  <2>1. Corpus.do = "load"
    BY Parts DEF Corpus
  <2> QED BY <1>1, <1>3, <2>1, Marks, Parts DEF Loads
<1> QED BY <1>2, <1>3 DEF ConsoleTodo

LEMMA Working ==
  ASSUME NEW a \in Actor, job[a].todo # <<>> PROVE Active(a)
BY DEF Active, Rest

\* A step of one actor that goes on.
Carries(a) ==
  /\ job' \in [Actor -> Job]
  /\ \A b \in Actor : b # a => job'[b] = job[b]
  /\ job'[a].name = job[a].name /\ job'[a].mends = job[a].mends

LEMMA ThenCarries ==
  ASSUME WorkTypes, NEW a \in Actor, NEW more \in Seq(Item), job[a].todo # <<>>,
         Then(a, more)
  PROVE  /\ Carries(a) /\ job'[a].todo = more \o Tail(job[a].todo)
         /\ job'[a].version = job[a].version
<1>1. job[a] \in Job /\ job[a].todo \in Seq(Item) /\ Tail(job[a].todo) \in Seq(Item)
  BY DEF WorkTypes, Job
<1>2. more \o Tail(job[a].todo) \in Seq(Item)
  BY <1>1, Regrouped
<1> QED BY <1>1, <1>2 DEF Then, Carries, WorkTypes, Job

LEMMA PopCarries ==
  ASSUME WorkTypes, NEW a \in Actor, job[a].todo # <<>>, Then(a, <<>>)
  PROVE  /\ Carries(a) /\ job'[a].todo = Tail(job[a].todo)
         /\ job'[a].version = job[a].version
<1>1. <<>> \in Seq(Item) /\ Tail(job[a].todo) \in Seq(Item)
  BY DEF WorkTypes, Job
<1> QED BY <1>1, ThenCarries, PushedNothing

LEMMA RestIsJob == Rest \in Job
<1>1. <<>> \in Seq(Item) /\ 0 \in Held /\ {} \in SUBSET Cut
  BY DEF Held
<1>2. \A todo \in Seq(Item), version \in Held, mends \in SUBSET Cut :
        [name |-> "none", todo |-> todo, open |-> FALSE, version |-> version,
         mends |-> mends] \in Job
  BY DEF Job
<1> QED
  BY <1>1, <1>2 DEF Rest

LEMMA RaisesStops ==
  ASSUME WorkTypes, NEW a \in Actor, Raises(a)
  PROVE  /\ job' \in [Actor -> Job] /\ job'[a] = Rest
         /\ \A b \in Actor : b # a => job'[b] = job[b]
BY RestIsJob DEF Raises, WorkTypes

\* The console at work: the command that is running with it will make nothing good.
LEMMA CommandAside ==
  ASSUME WorkInv, Active("console"), job'["command"] = job["command"], cut' = cut
  PROVE  CommandTodo' /\ CommandPair'
<1>1. CommandTodo'
  BY DEF WorkInv, CommandTodo
<1>2. Active("command")' => Breaks(cut' \ job'["command"].mends)
  BY DEF WorkInv, Overlap, Active, Breaks
<1> QED BY <1>1, <1>2 DEF CommandPair, Undisturbed, Progress

LEMMA LoadStep ==
  ASSUME WorkInv, Loads(job["console"].todo), Carries("console"),
         Loads(job'["console"].todo), job'["console"].version \in Nat \cup {Short},
         disk' \in [File -> Held], UNCHANGED <<config, cut, disturbed, screen>>,
         DOMAIN cache' = DOMAIN cache, cache'.scenarios = cache.scenarios, ConsolePair'
  PROVE  WorkInv'
<1>1. "console" \in Actor /\ "command" \in Actor
  BY DEF Actor
<1>2. job'["command"] = job["command"] /\ Active("console")
  BY <1>1, NotLater, Working DEF Carries
<1>3. CommandTodo' /\ CommandPair'
  BY <1>2, CommandAside
<1>4. WorkTypes'
  BY DEF WorkInv, WorkTypes, Carries
<1>5. /\ cache.scenarios = NotRead
      /\ job["console"].name \in Views \ {"Live"}
      /\ job["console"].mends = {}
  BY NotLater DEF WorkInv, ConsoleTodo
<1>6. ConsoleTodo'
  BY <1>5 DEF ConsoleTodo, Carries, Views
<1>7. Overlap' /\ Vouched' /\ OnScreen'
  BY <1>2, <1>5 DEF WorkInv, Overlap, Vouched, OnScreen, Active
<1> QED BY <1>3, <1>4, <1>6, <1>7 DEF WorkInv

LEMMA LaterStep ==
  ASSUME WorkInv, job["console"].todo \in Seq(Later), job["console"].todo # <<>>,
         Carries("console"), job'["console"].todo \in Seq(Later),
         disk' \in [File -> Held],
         \A f \in {"evaluation.csv", "evaluation.json"} : disk'[f] = disk[f],
         UNCHANGED <<config, cut, disturbed, screen>>, DOMAIN cache' = DOMAIN cache,
         \A f \in {"frame", "detail", "scenarios"} : cache'[f] = cache[f]
  PROVE  WorkInv'
<1>1. "console" \in Actor /\ "command" \in Actor
  BY DEF Actor
<1>2. job'["command"] = job["command"] /\ Active("console")
  BY <1>1, Working DEF Carries
<1>3. CommandTodo' /\ CommandPair'
  BY <1>2, CommandAside
<1>4. WorkTypes'
  BY DEF WorkInv, WorkTypes, Carries
<1>5. job["console"].name # "none"
  BY DEF WorkInv, ConsoleTodo, Rest
<1>6. ConsoleTodo'
  BY <1>5, NotLater DEF WorkInv, ConsoleTodo, Carries
<1>7. ConsolePair'
  <2>1. ~Loads(job'["console"].todo)
    BY NotLater
  <2>2. ~Breaks(cut) /\ ~Active("command") => Settled
    BY DEF WorkInv, ConsolePair
  <2>3. ~Breaks(cut)' /\ ~Active("command")' => Settled'
    BY <1>2, <2>2 DEF Breaks, Active, Settled, Table, Detail
  <2> QED BY <2>1, <2>3 DEF ConsolePair, Loads
<1>8. Overlap' /\ Vouched' /\ OnScreen'
  BY <1>2 DEF WorkInv, Overlap, Vouched, OnScreen, Active
<1> QED BY <1>3, <1>4, <1>6, <1>7, <1>8 DEF WorkInv

\* The console stops where it is, with an error or with a view.
LEMMA ConsoleStops ==
  ASSUME WorkInv, Active("console"), job' \in [Actor -> Job], job'["console"] = Rest,
         job'["command"] = job["command"],
         UNCHANGED <<config, disk, cache, cut, disturbed>>, OnScreen',
         ~Breaks(cut) /\ ~Active("command") => Settled
  PROVE  WorkInv'
<1>1. CommandTodo' /\ CommandPair'
  BY CommandAside
<1>2. WorkTypes'
  BY DEF WorkInv, WorkTypes
<1>3. ConsoleTodo'
  BY DEF ConsoleTodo, Rest
<1>4. <<>> \in Seq(Later) /\ ~Loads(<<>>)
  BY NotLater
<1>5. ConsolePair'
  BY <1>4 DEF ConsolePair, Loads, Rest, Breaks, Active, Settled, Table, Detail
<1>6. Overlap' /\ Vouched'
  BY DEF WorkInv, Overlap, Vouched, Active
<1> QED BY <1>1, <1>2, <1>3, <1>5, <1>6 DEF WorkInv

LEMMA ScenariosStep ==
  ASSUME WorkInv, AtScenarios(job["console"].todo), Carries("console"),
         job'["console"].todo \in Seq(Later),
         UNCHANGED <<config, disk, cut, disturbed, screen>>, NEW read, read # NotRead,
         cache' = [cache EXCEPT !.scenarios = read]
  PROVE  WorkInv'
<1>1. Loads(job["console"].todo)
  BY DEF Loads
<1>2. "console" \in Actor /\ "command" \in Actor
  BY DEF Actor
<1>3. job'["command"] = job["command"] /\ Active("console")
  BY <1>1, <1>2, NotLater, Working DEF Carries
<1>4. CommandTodo' /\ CommandPair'
  BY <1>3, CommandAside
<1>5. /\ cache'.scenarios # NotRead
      /\ cache'.frame = cache.frame /\ cache'.detail = cache.detail
      /\ DOMAIN cache' = DOMAIN cache
  BY DEF WorkInv, WorkTypes
<1>6. WorkTypes'
  BY <1>5 DEF WorkInv, WorkTypes, Carries
<1>7. /\ cache.scenarios = NotRead /\ job["console"].name \in Views
      /\ job["console"].mends = {} /\ job["console"].name # "none"
  BY <1>1, NotLater DEF WorkInv, ConsoleTodo
<1>8. ConsoleTodo'
  BY <1>5, <1>7 DEF ConsoleTodo, Carries
<1>9. ConsolePair'
  <2>1. ~Loads(job'["console"].todo)
    BY NotLater
  <2>2. ~Breaks(cut)' /\ ~Active("command")' => Settled'
    BY <1>3 DEF WorkInv, ConsolePair, Breaks, Active, Settled, Table, Detail
  <2> QED BY <2>1, <2>2 DEF ConsolePair, Loads
<1>10. Vouched'
  <2>1. ~disturbed => ~Active("command") /\ cut = {}
    BY <1>3, <1>7 DEF WorkInv, Vouched
  <2>2. ~disturbed => cache.frame = cache.detail
    BY <2>1 DEF WorkInv, ConsolePair, Breaks
  <2> QED BY <1>5, <2>2 DEF Vouched
<1>11. Overlap' /\ OnScreen'
  BY <1>3, <1>5, <1>7 DEF WorkInv, Overlap, OnScreen, Active
<1> QED BY <1>4, <1>6, <1>8, <1>9, <1>10, <1>11 DEF WorkInv

\* A command at work: what is known of the console stays.
LEMMA ConsoleAside ==
  ASSUME WorkInv, Active("command"), job' \in [Actor -> Job],
         job'["console"] = job["console"], job'["command"].mends \in {job["command"].mends, {}},
         disk' \in [File -> Held], UNCHANGED <<config, cache, screen, cut, disturbed>>,
         CommandTodo', CommandPair',
         Active("command")' \/ Active("console") \/ (~Breaks(cut) => Settled')
  PROVE  WorkInv'
<1>1. WorkTypes'
  BY DEF WorkInv, WorkTypes
<1>2. ConsoleTodo'
  BY DEF WorkInv, ConsoleTodo
<1>3. Active("console")' = Active("console") /\ Breaks(cut)' = Breaks(cut)
  BY DEF Active, Breaks
<1>4. ConsolePair'
  <2>1. CASE Active("console")
    BY <2>1 DEF WorkInv, Overlap, ConsolePair, Breaks
  <2>2. CASE ~Active("console")
    <3>1. job["console"].todo = <<>>
      BY <2>2 DEF Active, Rest
    <3>2. ~Loads(job'["console"].todo)
      BY <3>1, NotLater
    <3> QED BY <1>3, <2>2, <3>2 DEF ConsolePair, Loads
  <2> QED BY <2>1, <2>2
<1>5. Overlap' /\ Vouched' /\ OnScreen'
  BY <1>3 DEF WorkInv, Overlap, Vouched, OnScreen
<1> QED BY <1>1, <1>2, <1>4, <1>5 DEF WorkInv

-----------------------------------------------------------------------------
\* What the commands do.
LEMMA Writes ==
  ASSUME NEW q \in Seq(Afterwards)
  PROVE  /\ ToDetail(<<Do("write", "evaluation.json")>> \o q)
         /\ ToTable(BuildReport \o q) /\ BuildReport \o q \in Seq(Item)
         /\ ToCorpus(<<Corpus>> \o (BuildReport \o q))
         /\ <<Corpus>> \o (BuildReport \o q) \in Seq(Item)
<1>1. q \in Seq(Item)
  BY Items, Larger
<1>2. \A what \in Deed, file \in Path, r \in Seq(Item) :
        /\ Begins(<<Do(what, file)>> \o r, what, file)
        /\ Tail(<<Do(what, file)>> \o r) = r
        /\ <<Do(what, file)>> \o r \in Seq(Item)
  BY BeginsWith DEF Begins
<1> DEFINE d == Do("write", "evaluation.json")
           t == Do("write", "evaluation.csv")
<1>3. ASSUME NEW r \in Seq(Item)
      PROVE  /\ Begins(<<d>> \o r, "write", "evaluation.json")
             /\ Tail(<<d>> \o r) = r /\ <<d>> \o r \in Seq(Item)
             /\ Begins(<<t>> \o r, "write", "evaluation.csv")
             /\ Tail(<<t>> \o r) = r /\ <<t>> \o r \in Seq(Item)
             /\ Begins(<<Corpus>> \o r, "load", "interactions.jsonl")
             /\ Tail(<<Corpus>> \o r) = r /\ <<Corpus>> \o r \in Seq(Item)
  <2>1. /\ "write" \in Deed /\ "load" \in Deed /\ "evaluation.json" \in Path
        /\ "evaluation.csv" \in Path /\ "interactions.jsonl" \in Path
    BY DEF Deed, Path
  <2>2. /\ Begins(<<d>> \o r, "write", "evaluation.json") /\ Tail(<<d>> \o r) = r
        /\ <<d>> \o r \in Seq(Item)
    BY <1>2, <2>1
  <2>3. /\ Begins(<<t>> \o r, "write", "evaluation.csv") /\ Tail(<<t>> \o r) = r
        /\ <<t>> \o r \in Seq(Item)
    BY <1>2, <2>1
  <2>4. /\ Begins(<<Corpus>> \o r, "load", "interactions.jsonl")
        /\ Tail(<<Corpus>> \o r) = r /\ <<Corpus>> \o r \in Seq(Item)
    BY <1>2, <2>1 DEF Corpus
  <2> QED BY <2>2, <2>3, <2>4
<1>4. d \in Item /\ t \in Item /\ BuildReport = <<t, d>>
  BY Items, WritesAre DEF Deed, Path
<1> HIDE DEF d, t
<1>5. BuildReport \o q = <<t>> \o (<<d>> \o q)
  BY <1>1, <1>4, PushedTwo, SMTT(30), ZenonT(30)
<1>6. ToDetail(<<d>> \o q)
  BY <1>1, <1>3 DEF ToDetail
<1>7. ToTable(BuildReport \o q) /\ BuildReport \o q \in Seq(Item)
  BY <1>1, <1>3, <1>5, <1>6 DEF ToTable
<1>8. ToCorpus(<<Corpus>> \o (BuildReport \o q)) /\ <<Corpus>> \o (BuildReport \o q) \in Seq(Item)
  BY <1>3, <1>7 DEF ToCorpus
<1> QED BY <1>6, <1>7, <1>8 DEF d

LEMMA TasksAre ==
  /\ \A name \in {"data", "attention", "relearn"} : Tasks(name) \in Seq(Elsewhere)
  /\ \A name \in {"report", "demo"} : ToCorpus(Tasks(name))
  /\ OffCorpus(Tasks("clean"))
  /\ \A name \in Commands : Tasks(name) \in Seq(Item)
<1>1. ASSUME NEW name \in {"data", "attention", "relearn"} PROVE Tasks(name) \in Seq(Elsewhere)
  <2>1. /\ Corpus \in Elsewhere /\ Do("write", "interactions.jsonl") \in Elsewhere
        /\ Do("write", "attention.json") \in Elsewhere /\ Do("write", "relearn.json") \in Elsewhere
    BY DEF Elsewhere
  <2>2. <<Corpus>> \o <<Do("write", "attention.json")>> \in Seq(Elsewhere)
    BY <2>1
  <2> QED BY <2>1, <2>2, WritesAre DEF Tasks
<1>2. ToCorpus(Tasks("report")) /\ Tasks("report") \in Seq(Item)
  <2>1. BuildReport \in Seq(Item)
    BY WritesAre, Items DEF Deed, Path
  <2>2. BuildReport \o <<>> = BuildReport
    BY <2>1
  <2>3. Tasks("report") = <<Corpus>> \o BuildReport /\ <<>> \in Seq(Afterwards)
    BY DEF Tasks
  <2> QED BY <2>2, <2>3, Writes
<1>3. ToCorpus(Tasks("demo")) /\ Tasks("demo") \in Seq(Item)
  <2> DEFINE r == <<Do("reset", "audit.db"), Do("write", "scenarios.json")>>
  <2>1. r \in Seq(Afterwards) /\ r \in Seq(Item)
    BY Items DEF Afterwards
  <2>2. BuildReport \in Seq(Item) /\ <<Corpus>> \in Seq(Item)
    BY WritesAre, Items DEF Deed, Path
  <2>3. Tasks("demo") = (<<Corpus>> \o BuildReport) \o r
    BY DEF Tasks
  <2>4. Tasks("demo") = <<Corpus>> \o (BuildReport \o r)
    BY <2>1, <2>2, <2>3, Regrouped, SMTT(30), ZenonT(30)
  <2> QED BY <2>1, <2>4, Writes
<1>4. OffCorpus(Tasks("clean")) /\ Tasks("clean") \in Seq(Item)
  <2> DEFINE a == Do("unlink", "interactions.jsonl")
             b == Do("unlink", "audit.db")
             c == Do("unlink", "evaluation.csv")
             d == Do("unlink", "evaluation.json")
             e == Do("unlink", "scenarios.json")
  <2>1. a \in Item /\ b \in Item /\ c \in Item /\ d \in Item /\ e \in Item
    BY Items DEF Deed, Path
  <2>2. Tasks("clean") = <<a, b, c, d, e>>
    BY CleanIs DEF Tasks
  <2> HIDE DEF a, b, c, d, e
  <2>3. /\ <<a, b, c, d, e>> \in Seq(Item) /\ Head(<<a, b, c, d, e>>) = a
        /\ Tail(<<a, b, c, d, e>>) = <<b, c, d, e>>
    BY <2>1
  <2>4. /\ <<b, c, d, e>> \in Seq(Item) /\ Head(<<b, c, d, e>>) = b
        /\ Tail(<<b, c, d, e>>) = <<c, d, e>>
    BY <2>1
  <2>5. /\ <<c, d, e>> \in Seq(Item) /\ Head(<<c, d, e>>) = c
        /\ Tail(<<c, d, e>>) = <<d, e>>
    BY <2>1
  <2>6. <<d, e>> \in Seq(Item) /\ Head(<<d, e>>) = d /\ Tail(<<d, e>>) = <<e>>
    BY <2>1
  <2>7. <<e>> \in Seq(Remaining)
    BY DEF e, Remaining
  <2>8. OffDetail(<<d, e>>)
    BY <2>6, <2>7 DEF OffDetail, Begins, d
  <2>9. OffTable(<<c, d, e>>)
    BY <2>5, <2>8 DEF OffTable, Begins, c
  <2>10. OffChain(<<b, c, d, e>>)
    BY <2>4, <2>9 DEF OffChain, Begins, b
  <2>11. OffCorpus(<<a, b, c, d, e>>)
    <3>1. Begins(<<a, b, c, d, e>>, "unlink", "interactions.jsonl")
      BY <2>3 DEF Begins, a
    <3> QED BY <2>3, <2>10, <3>1 DEF OffCorpus
  <2> QED BY <2>2, <2>3, <2>11
<1>5. \A name \in {"data", "attention", "relearn"} : Tasks(name) \in Seq(Item)
  BY <1>1, Items, Larger
<1> QED BY <1>1, <1>2, <1>3, <1>4, <1>5 DEF Commands

\* The stages of a command exclude one another.
LEMMA ToApart ==
  ASSUME NEW q
  PROVE  /\ ToCorpus(q) => ~ToTable(q) /\ ~ToDetail(q) /\ q \notin Seq(Afterwards)
         /\ ToTable(q) => ~ToDetail(q) /\ q \notin Seq(Afterwards)
         /\ ToDetail(q) => q \notin Seq(Afterwards)
<1>1. /\ ToCorpus(q) => q # <<>> /\ Head(q).file = "interactions.jsonl"
      /\ ToTable(q) => q # <<>> /\ Head(q).file = "evaluation.csv"
      /\ ToDetail(q) => q # <<>> /\ Head(q).file = "evaluation.json"
  BY Parts, SMTT(30), ZenonT(30) DEF ToCorpus, ToTable, ToDetail, Begins
<1>2. \A x \in Afterwards : x.file \in {"audit.db", "scenarios.json"}
  BY Parts DEF Afterwards
<1>3. q \in Seq(Afterwards) /\ q # <<>> => Head(q).file \in {"audit.db", "scenarios.json"}
  BY <1>2
<1> QED BY <1>1, <1>3

LEMMA OffApart ==
  ASSUME NEW q
  PROVE  /\ OffCorpus(q) \/ OffChain(q) \/ OffTable(q) =>
              ~OffDetail(q) /\ q \notin Seq(Remaining)
         /\ OffDetail(q) => q \notin Seq(Remaining)
<1>1. /\ OffCorpus(q) \/ OffChain(q) \/ OffTable(q) =>
           q # <<>> /\ Head(q).file \in {"interactions.jsonl", "audit.db", "evaluation.csv"}
      /\ OffDetail(q) => q # <<>> /\ Head(q).file = "evaluation.json"
  BY Parts DEF OffCorpus, OffChain, OffTable, OffDetail, Begins
<1>2. \A x \in Remaining : x.file = "scenarios.json"
  BY Parts DEF Remaining
<1>3. q \in Seq(Remaining) /\ q # <<>> => Head(q).file = "scenarios.json"
  BY <1>2
<1> QED BY <1>1, <1>3

LEMMA CommandNames ==
  ASSUME CommandTodo, Active("command") PROVE job["command"].name \in Commands
BY DEF CommandTodo, Active

LEMMA CommandKeeps ==
  ASSUME WorkInv, NEW name \in Commands, Command(name)
  PROVE  WorkInv'
<1> DEFINE c == [name |-> name, todo |-> Tasks(name), open |-> FALSE, version |-> config,
                 mends |-> Mends(name)]
<1>1. "console" \in Actor /\ "command" \in Actor /\ DOMAIN job = Actor
  BY DEF Actor, WorkInv, WorkTypes
<1>2. /\ job' = [job EXCEPT !["command"] = c]
      /\ UNCHANGED <<config, disk, cache, screen>> /\ ~Active("command")
      /\ disturbed' = (disturbed \/ Active("console"))
      /\ cut' = IF Active("console") THEN cut \cup {"overlap"} ELSE cut
  BY DEF Command
<1>3. job'["command"] = c /\ job'["console"] = job["console"]
  BY <1>1, <1>2
<1>4. Mends(name) \in SUBSET Cut
  BY DEF Mends, WorkInv, WorkTypes
<1>5. c \in Job
  <2>1. Tasks(name) \in Seq(Item) /\ config \in Held
    BY TasksAre DEF WorkInv, WorkTypes, Held
  <2> QED BY <1>4, <2>1 DEF Job
<1>6. Active("command")' /\ Active("console")' = Active("console")
  <2>1. c # Rest
    <3>1. c.name = name /\ Rest.name = "none"
      BY DEF Rest
    <3> QED BY <3>1 DEF Commands
  <2> QED BY <1>3, <2>1 DEF Active
<1>7. WorkTypes'
  BY <1>2, <1>5 DEF WorkInv, WorkTypes, Cut
<1>8. CommandTodo'
  <2>1. name \in {"data", "attention", "relearn"} => ~Breaks(Mends(name))
    BY DEF Mends, Breaks
  <2>2. config \in Nat
    BY DEF WorkInv, WorkTypes
  <2> QED BY <1>3, <2>1, <2>2, TasksAre DEF CommandTodo, Commands
<1>9. CommandPair'
  <2> SUFFICES ASSUME ~Active("console"), ~Breaks(cut \ Mends(name)) PROVE CommandPair'
    <3>1. CASE Active("console")
      BY <1>6, <3>1 DEF CommandPair, Undisturbed, Progress
    <3>2. CASE ~Active("console")
      <4>1. cut' = cut /\ job'["command"].mends = Mends(name)
        BY <1>2, <1>3, <3>2
      <4> QED BY <3>2, <4>1 DEF CommandPair, Undisturbed, Progress, Breaks
    <3> QED BY <3>1, <3>2
  <2>1. Settled' = Settled /\ cut' = cut
    BY <1>2 DEF Settled, Table, Detail
  <2>2. ~Breaks(cut) => Settled
    <3>1. job["console"].todo = <<>>
      BY DEF Active, Rest
    <3>2. job["console"].todo \in Seq(Later)
      BY <3>1
    <3> QED BY <1>2, <3>2 DEF WorkInv, ConsolePair
  <2>3. name \in {"data", "attention", "relearn"} => ~Breaks(cut)
    BY DEF Mends, Breaks
  <2>4. name \in {"report", "demo"} => ToCorpus(c.todo) /\ ~ToDetail(c.todo)
                                      /\ c.todo \notin Seq(Afterwards)
    <3>1. name \in {"report", "demo"} => ToCorpus(c.todo)
      BY TasksAre
    <3> QED BY <3>1, ToApart
  <2>5. name = "clean" => ~OffDetail(c.todo) /\ c.todo \notin Seq(Remaining)
    BY TasksAre, OffApart
  <2> QED BY <1>3, <2>1, <2>2, <2>3, <2>4, <2>5 DEF CommandPair, Undisturbed, Progress, Commands
<1>10. ConsoleTodo'
  BY <1>2, <1>3 DEF WorkInv, ConsoleTodo
<1>11. ConsolePair'
  BY <1>6 DEF ConsolePair
<1>12. Overlap'
  BY <1>2, <1>3, <1>6 DEF Overlap, Mends
<1>13. Vouched' /\ OnScreen'
  BY <1>2, <1>6 DEF WorkInv, Vouched, OnScreen
<1> QED BY <1>7, <1>8, <1>9, <1>10, <1>11, <1>12, <1>13 DEF WorkInv

LEMMA FinishedKeeps == ASSUME WorkInv, Finished PROVE WorkInv'
<1> DEFINE c == job["command"]
<1>1. "console" \in Actor /\ "command" \in Actor /\ DOMAIN job = Actor
  BY DEF Actor, WorkInv, WorkTypes
<1>2. /\ job' = [job EXCEPT !["command"] = Rest] /\ c.todo = <<>> /\ Active("command")
      /\ UNCHANGED <<config, disk, cache, screen, disturbed>> /\ cut' = cut \ c.mends
  BY DEF Finished
<1>3. /\ job'["command"] = Rest /\ job'["console"] = job["console"]
      /\ ~Active("command")' /\ Active("console")' = Active("console")
  BY <1>1, <1>2 DEF Active
<1>4. WorkTypes'
  BY <1>2, RestIsJob DEF WorkInv, WorkTypes
<1>5. CommandTodo' /\ CommandPair'
  BY <1>3 DEF CommandTodo, CommandPair, Rest
<1>6. ConsoleTodo'
  BY <1>2, <1>3 DEF WorkInv, ConsoleTodo
<1>7. ConsolePair'
  <2> SUFFICES ASSUME ~Breaks(cut \ c.mends) PROVE ConsolePair'
    BY <1>2 DEF ConsolePair, Breaks
  <2>1. ~Active("console")
    BY <1>2 DEF WorkInv, Overlap, Breaks
  <2>2. Settled
    <3>1. \A S : <<>> \in Seq(S)
      OBVIOUS
    <3>2. c.name \in Commands
      BY <1>2, CommandNames DEF WorkInv
    <3> QED BY <1>2, <2>1, <3>1, <3>2 DEF WorkInv, CommandPair, Undisturbed, Progress, Commands
  <2>3. ~Loads(job'["console"].todo)
    BY <1>3, <2>1, NotLater DEF Active, Rest
  <2> QED BY <1>2, <2>2, <2>3 DEF ConsolePair, Loads, Settled, Table, Detail
<1>8. Overlap'
  BY <1>3 DEF Overlap, Rest
<1>9. Vouched' /\ OnScreen'
  BY <1>2, <1>3 DEF WorkInv, Vouched, OnScreen
<1> QED BY <1>4, <1>5, <1>6, <1>7, <1>8, <1>9 DEF WorkInv

LEMMA KilledKeeps == ASSUME WorkInv, Killed PROVE WorkInv'
<1> DEFINE c == job["command"]
<1>1. "console" \in Actor /\ "command" \in Actor /\ DOMAIN job = Actor
  BY DEF Actor, WorkInv, WorkTypes
<1>2. /\ job' = [job EXCEPT !["command"] = Rest] /\ Active("command")
      /\ UNCHANGED <<config, disk, cache, screen, disturbed>> /\ cut' = cut \cup {c.name}
  BY DEF Killed
<1>3. /\ job'["command"] = Rest /\ job'["console"] = job["console"]
      /\ ~Active("command")' /\ Active("console")' = Active("console")
  BY <1>1, <1>2 DEF Active
<1>4. c.name \in Commands
  BY <1>2, CommandNames DEF WorkInv
<1>5. WorkTypes'
  BY <1>2, <1>4, RestIsJob DEF WorkInv, WorkTypes, Cut
<1>6. CommandTodo' /\ CommandPair'
  BY <1>3 DEF CommandTodo, CommandPair, Rest
<1>7. ConsoleTodo'
  BY <1>2, <1>3 DEF WorkInv, ConsoleTodo
<1>8. ConsolePair'
  <2> SUFFICES ASSUME ~Breaks(cut \cup {c.name}) PROVE ConsolePair'
    BY <1>2 DEF ConsolePair, Breaks
  <2>1. ~Active("console")
    BY <1>2 DEF WorkInv, Overlap, Breaks
  <2>2. Settled
    <3>1. ~Breaks(cut) /\ ~Breaks(cut \ c.mends) /\ c.name \in {"data", "attention", "relearn"}
      BY <1>4 DEF Breaks, Commands
    <3> QED BY <1>2, <2>1, <3>1 DEF WorkInv, CommandPair, Undisturbed, Progress
  <2>3. ~Loads(job'["console"].todo)
    BY <1>3, <2>1, NotLater DEF Active, Rest
  <2> QED BY <1>2, <2>2, <2>3 DEF ConsolePair, Loads, Settled, Table, Detail
<1>9. Overlap'
  BY <1>3 DEF Overlap, Rest
<1>10. Vouched' /\ OnScreen'
  BY <1>2, <1>3, <1>4 DEF WorkInv, Vouched, OnScreen
<1> QED BY <1>5, <1>6, <1>7, <1>8, <1>9, <1>10 DEF WorkInv

\* What a command is about to do tells how far it is.
LEMMA CommandStage ==
  ASSUME CommandTodo, NEW what, Head1("command", what)
  PROVE  LET c == job["command"] IN
         /\ c.name \in Commands /\ Active("command")
         /\ c.name \in {"data", "attention", "relearn"} => c.todo \in Seq(Elsewhere)
         /\ what = "load" => c.name # "clean" /\ Head(c.todo) = Corpus
         /\ what = "load" /\ c.name \in {"report", "demo"} => ToCorpus(c.todo)
         /\ what = "reset" => c.name \in {"report", "demo"} /\ c.todo \in Seq(Afterwards)
         /\ what = "unlink" => c.name = "clean"
         /\ what = "write" => c.name # "clean"
<1> DEFINE c == job["command"]
<1>1. c.todo # <<>> /\ Head(c.todo).do = what
  BY DEF Head1
<1>2. Active("command") /\ c.name \in Commands
  <2>1. c # Rest
    BY <1>1 DEF Rest
  <2> QED BY <2>1 DEF CommandTodo, Active
<1>3. c.name \in {"data", "attention", "relearn"} =>
        /\ c.todo \in Seq(Elsewhere) /\ what \in {"load", "write"}
        /\ what = "load" => Head(c.todo) = Corpus
  <2>1. \A x \in Elsewhere : x.do \in {"load", "write"} /\ (x.do = "load" => x = Corpus)
    BY Parts DEF Elsewhere, Corpus
  <2> QED BY <1>1, <2>1 DEF CommandTodo
<1>4. c.name \in {"report", "demo"} =>
        /\ what \in {"load", "write", "reset"}
        /\ what = "load" => ToCorpus(c.todo) /\ Head(c.todo) = Corpus
        /\ what = "reset" => c.todo \in Seq(Afterwards)
  <2>1. \A x \in Afterwards : x.do \in {"reset", "write"}
    BY Parts DEF Afterwards
  <2>2. /\ ToCorpus(c.todo) => \/ Head(c.todo) = Corpus /\ Head(c.todo).do = "load"
                               \/ Head(c.todo).do = "write"
        /\ ToTable(c.todo) \/ ToDetail(c.todo) => Head(c.todo).do = "write"
    BY Parts DEF ToCorpus, ToTable, ToDetail, Begins, Corpus
  <2>3. c.todo \in Seq(Afterwards) => what \in {"reset", "write"}
    BY <1>1, <2>1
  <2> QED BY <1>1, <2>2, <2>3 DEF CommandTodo
<1>5. c.name = "clean" => what = "unlink"
  <2>1. \A x \in Remaining : x.do = "unlink"
    BY Parts DEF Remaining
  <2>2. OffCorpus(c.todo) \/ OffChain(c.todo) \/ OffTable(c.todo) \/ OffDetail(c.todo) =>
          Head(c.todo).do = "unlink"
    BY Parts DEF OffCorpus, OffChain, OffTable, OffDetail, Begins
  <2>3. c.todo \in Seq(Remaining) => what = "unlink"
    BY <1>1, <2>1
  <2> QED BY <1>1, <2>2, <2>3 DEF CommandTodo
<1> QED BY <1>2, <1>3, <1>4, <1>5 DEF Commands

\* A command takes one more thing off its list.
LEMMA CommandGoesOn ==
  ASSUME WorkInv, job["command"].todo # <<>>, Carries("command"), disk' \in [File -> Held],
         UNCHANGED <<config, cache, screen, cut, disturbed>>, CommandTodo',
         Undisturbed /\ Progress => Progress'
  PROVE  WorkInv'
<1>1. "console" \in Actor /\ "command" \in Actor
  BY DEF Actor
<1>2. /\ Active("command") /\ job' \in [Actor -> Job] /\ job'["console"] = job["console"]
      /\ job'["command"].name = job["command"].name
      /\ job'["command"].mends = job["command"].mends
  BY <1>1, Working DEF Carries
<1>3. Active("command")'
  <2>1. job["command"].name \in Commands
    BY <1>2, CommandNames DEF WorkInv
  <2>2. job'["command"].name # Rest.name
    BY <1>2, <2>1 DEF Rest, Commands
  <2> QED BY <2>2 DEF Active
<1>4. Undisturbed' => Undisturbed
  BY <1>2 DEF Undisturbed, Active, Breaks
<1>5. CommandPair'
  BY <1>2, <1>4 DEF WorkInv, CommandPair
<1> QED BY <1>2, <1>3, <1>5, ConsoleAside

LEMMA CommandLoads == ASSUME WorkInv, LoadCorpus("command") PROVE WorkInv'
<1> DEFINE c == job["command"]
<1>1. /\ "command" \in Actor /\ "console" \in Actor /\ Head1("command", "load")
      /\ UNCHANGED <<config, disk, cache, screen, cut, disturbed>>
  BY DEF LoadCorpus, Actor
<1>2. /\ c.todo # <<>> /\ c.todo \in Seq(Item) /\ Tail(c.todo) \in Seq(Item)
      /\ WorkTypes /\ CommandTodo /\ disk \in [File -> Held]
  BY <1>1 DEF WorkInv, WorkTypes, Job, Head1
<1>3. /\ c.name \in Commands /\ c.name # "clean" /\ Active("command")
      /\ c.name \in {"data", "attention", "relearn"} => c.todo \in Seq(Elsewhere)
      /\ c.name \in {"report", "demo"} => ToCorpus(c.todo)
  BY <1>1, <1>2, CommandStage
<1>4. ASSUME Carries("command"),
             job'["command"].todo \in {WriteCorpus \o Tail(c.todo), Tail(c.todo)},
             job'["command"].version \in {c.version, Short}
      PROVE  WorkInv'
  <2> DEFINE d == job'["command"]
  <2>1. c.name \in {"data", "attention", "relearn"} => d.todo \in Seq(Elsewhere)
    <3>1. Do("write", "interactions.jsonl") \in Elsewhere
      BY DEF Elsewhere
    <3>2. c.todo \in Seq(Elsewhere) =>
            /\ Tail(c.todo) \in Seq(Elsewhere)
            /\ <<Do("write", "interactions.jsonl")>> \o Tail(c.todo) \in Seq(Elsewhere)
      BY <1>2, <3>1, Popped, Pushed
    <3> QED BY <1>3, <1>4, <3>2, WritesAre
  <2>2. c.name \in {"report", "demo"} => ToCorpus(d.todo) \/ ToTable(d.todo)
    <3>1. "write" \in Deed /\ "interactions.jsonl" \in Path
      BY DEF Deed, Path
    <3>2. /\ Begins(WriteCorpus \o Tail(c.todo), "write", "interactions.jsonl")
          /\ Tail(WriteCorpus \o Tail(c.todo)) = Tail(c.todo)
      BY <1>2, <3>1, WritesAre, BeginsWith
    <3>3. ToCorpus(c.todo) => ToTable(Tail(c.todo))
      BY DEF ToCorpus
    <3> QED BY <1>3, <1>4, <3>2, <3>3 DEF ToCorpus
  <2>3. CommandTodo'
    BY <1>2, <1>3, <1>4, <2>1, <2>2 DEF CommandTodo, Carries, Commands
  <2>4. Undisturbed /\ Progress => Progress'
    BY <1>1, <1>3, <1>4, <2>2, ToApart
       DEF Progress, Carries, Commands, Settled, Table, Detail, Breaks
  <2> QED BY <1>1, <1>2, <1>4, <2>3, <2>4, CommandGoesOn
<1>5. ASSUME Raises("command") PROVE WorkInv'
  <2>1. /\ job' \in [Actor -> Job] /\ job'["command"] = Rest
        /\ job'["console"] = job["console"]
    BY <1>1, <1>2, <1>5, RaisesStops
  <2>2. ~Active("command")' /\ CommandTodo'
    BY <2>1 DEF Active, CommandTodo, Rest
  <2>3. ~Active("console") /\ ~Breaks(cut) => Settled'
    <3>1. ~Breaks(cut) => ~Breaks(cut \ c.mends)
      BY DEF Breaks
    <3> QED BY <1>1, <1>3, <3>1
         DEF WorkInv, CommandPair, Undisturbed, Progress, Settled, Table, Detail, Commands
  <2>4. CommandPair'
    BY <2>2 DEF CommandPair
  <2>5. job'["command"].mends = {} /\ disk' \in [File -> Held]
    BY <1>1, <1>2, <2>1 DEF Rest
  <2> QED BY <1>1, <1>3, <2>1, <2>2, <2>3, <2>4, <2>5, ConsoleAside
<1>6. ASSUME NEW more \in {WriteCorpus, <<>>}, Then("command", more) PROVE WorkInv'
  <2>1. more \in Seq(Item)
    <3>1. Do("write", "interactions.jsonl") \in Item
      BY Items DEF Deed, Path
    <3>2. WriteCorpus \in Seq(Item) /\ <<>> \in Seq(Item)
      BY <3>1, WritesAre
    <3> QED BY <3>2
  <2> QED BY <1>1, <1>2, <1>4, <1>6, <2>1, ThenCarries, PushedNothing
<1>7. ASSUME job' = [job EXCEPT !["command"].todo = Tail(@), !["command"].version = Short]
      PROVE  WorkInv'
  <2>1. Carries("command") /\ job'["command"].todo = Tail(c.todo)
        /\ job'["command"].version = Short
    BY <1>1, <1>2, <1>7, SMTT(30), ZenonT(30) DEF WorkTypes, Carries, Job, Held
  <2> QED BY <1>4, <2>1
<1> QED BY <1>5, <1>6, <1>7 DEF LoadCorpus

LEMMA CommandWrites ==
  ASSUME WorkInv, OpenFile("command") \/ FillFile("command") PROVE WorkInv'
<1> DEFINE c == job["command"]
           d == job'["command"]
           at == Head(c.todo)
<1>1. /\ "command" \in Actor /\ Head1("command", "write") /\ WorkTypes /\ CommandTodo
      /\ UNCHANGED <<config, cache, screen, cut, disturbed>> /\ Target("command") = at.file
  BY DEF OpenFile, FillFile, Actor, WorkInv, Target
<1>2. /\ c \in Job /\ c.todo # <<>> /\ c.todo \in Seq(Item) /\ Tail(c.todo) \in Seq(Item)
      /\ disk \in [File -> Held]
  BY <1>1 DEF WorkTypes, Job, Head1
<1>3. /\ c.name \in Commands /\ c.name # "clean" /\ Active("command")
      /\ c.name \in {"data", "attention", "relearn"} => c.todo \in Seq(Elsewhere)
  BY <1>1, CommandStage
<1>4. /\ c.todo \in Seq(Elsewhere) => at.file \notin {"evaluation.csv", "evaluation.json"}
      /\ ToCorpus(c.todo) => at.file = "interactions.jsonl" /\ ToTable(Tail(c.todo))
      /\ ToTable(c.todo) => at.file = "evaluation.csv" /\ ToDetail(Tail(c.todo))
      /\ ToDetail(c.todo) => at.file = "evaluation.json" /\ Tail(c.todo) \in Seq(Afterwards)
      /\ c.todo \in Seq(Afterwards) => at.file \notin {"evaluation.csv", "evaluation.json"}
  <2>1. \A x \in Elsewhere \cup Afterwards : x.file \notin {"evaluation.csv", "evaluation.json"}
    BY Parts DEF Elsewhere, Afterwards, Corpus
  <2>2. c.todo \in Seq(Elsewhere) => at \in Elsewhere
    BY <1>2
  <2>3. c.todo \in Seq(Afterwards) => at \in Afterwards
    BY <1>2
  <2>4. /\ ToCorpus(c.todo) => at.file = "interactions.jsonl"
        /\ ToTable(c.todo) => at.file = "evaluation.csv"
        /\ ToDetail(c.todo) => at.file = "evaluation.json"
    <3>1. \A what, file : Begins(c.todo, what, file) => at.file = file
      BY Parts DEF Begins
    <3> QED BY <3>1 DEF ToCorpus, ToTable, ToDetail
  <2> QED BY <2>1, <2>2, <2>3, <2>4 DEF ToCorpus, ToTable, ToDetail
<1>5. \A S : c.todo \in Seq(S) => Tail(c.todo) \in Seq(S)
  BY <1>2
<1>6. /\ "evaluation.csv" \in File /\ "evaluation.json" \in File
      /\ "evaluation.csv" \notin ToSet(CorpusFiles)
      /\ "evaluation.json" \notin ToSet(CorpusFiles)
  BY FilesAre
<1>7. CASE OpenFile("command")
  <2>1. /\ disk' = [disk EXCEPT ![at.file] = Torn]
        /\ job' = [job EXCEPT !["command"].open = TRUE]
    BY <1>1, <1>7 DEF OpenFile
  <2>2. /\ Carries("command") /\ d.todo = c.todo /\ d.version = c.version
        /\ disk' \in [File -> Held]
        /\ \A f \in File : f # at.file => disk'[f] = disk[f]
    BY <1>1, <1>2, <2>1 DEF WorkTypes, Carries, Job, Held
  <2>3. CommandTodo'
    BY <1>1, <1>3, <2>2 DEF CommandTodo, Carries, Commands
  <2>4. Undisturbed /\ Progress => Progress'
    BY <1>1, <1>3, <1>4, <1>6, <2>2, ToApart
       DEF Progress, Carries, Commands, Settled, Table, Detail, Breaks, CommandTodo
  <2> QED BY <1>1, <1>2, <2>2, <2>3, <2>4, CommandGoesOn
<1>8. CASE FillFile("command")
  <2> DEFINE text == IF at.file \in ToSet(CorpusFiles) THEN 0 ELSE c.version
  <2>1. disk' = [disk EXCEPT ![at.file] = text] /\ Then("command", <<>>)
    BY <1>1, <1>8 DEF FillFile
  <2>2. /\ Carries("command") /\ d.todo = Tail(c.todo) /\ d.version = c.version
    BY <1>1, <1>2, <2>1, PopCarries
  <2>3. /\ disk' \in [File -> Held]
        /\ \A f \in File : disk'[f] = IF f = at.file THEN text ELSE disk[f]
    BY <1>2, <2>1 DEF Job, Held
  <2>4. CommandTodo'
    BY <1>1, <1>3, <1>4, <1>5, <2>2 DEF CommandTodo, Carries, Commands
  <2>5. ASSUME c.name \in {"report", "demo"}, Undisturbed, Progress PROVE Progress'
    <3>1. c.version \in Nat \cup {Short} /\ c.version # Torn
      BY <1>1, <2>5 DEF CommandTodo, Torn, Short
    <3>2. CASE ToCorpus(c.todo)
      BY <1>4, <2>2, <2>5, <3>2, ToApart DEF Progress, Carries, Commands
    <3>3. CASE ToTable(c.todo)
      <4>1. Table' = c.version
        BY <1>4, <1>6, <2>3, <3>3 DEF Table
      <4> QED BY <1>4, <2>2, <2>5, <3>3, <4>1, ToApart DEF Progress, Carries
    <3>4. CASE ToDetail(c.todo)
      <4>1. Table = c.version
        BY <2>5, <3>4 DEF Progress
      <4>2. Settled'
        BY <1>4, <1>6, <2>3, <3>1, <3>4, <4>1 DEF Settled, Table, Detail
      <4> QED BY <1>4, <2>2, <2>5, <3>4, <4>2, ToApart DEF Progress, Carries
    <3>5. CASE c.todo \in Seq(Afterwards)
      <4>1. Settled'
        BY <1>4, <1>6, <2>3, <2>5, <3>5 DEF Progress, Settled, Table, Detail
      <4> QED BY <1>5, <2>2, <2>5, <3>5, <4>1, ToApart DEF Progress, Carries
    <3> QED BY <1>1, <2>5, <3>2, <3>3, <3>4, <3>5 DEF CommandTodo
  <2>6. ASSUME c.name \in {"data", "attention", "relearn"}, Progress PROVE Progress'
    BY <1>3, <1>4, <1>6, <2>2, <2>3, <2>6 DEF Progress, Carries, Settled, Table, Detail
  <2> QED BY <1>1, <1>2, <1>3, <2>2, <2>3, <2>4, <2>5, <2>6, CommandGoesOn DEF Commands
<1> QED BY <1>7, <1>8

LEMMA ResetKeeps == ASSUME WorkInv, Reset PROVE WorkInv'
<1> DEFINE c == job["command"]
<1>1. /\ "command" \in Actor /\ Head1("command", "reset") /\ WorkTypes /\ CommandTodo
      /\ UNCHANGED <<config, disk, cache, screen, cut, disturbed>> /\ Then("command", <<>>)
  BY DEF Reset, Actor, WorkInv
<1>2. /\ c \in Job /\ c.todo # <<>> /\ c.todo \in Seq(Item) /\ Tail(c.todo) \in Seq(Item)
      /\ disk \in [File -> Held]
  BY <1>1 DEF WorkTypes, Job, Head1
<1>3. /\ c.name \in {"report", "demo"} /\ c.todo \in Seq(Afterwards)
      /\ Tail(c.todo) \in Seq(Afterwards)
  BY <1>1, <1>2, CommandStage, Popped
<1>4. /\ Carries("command") /\ job'["command"].todo = Tail(c.todo)
      /\ job'["command"].version = c.version
  BY <1>1, <1>2, PopCarries
<1>5. CommandTodo'
  BY <1>1, <1>3, <1>4 DEF CommandTodo, Carries
<1>6. Progress => Progress'
  BY <1>1, <1>3, <1>4, ToApart DEF Progress, Carries, Settled, Table, Detail
<1> QED BY <1>1, <1>2, <1>4, <1>5, <1>6, CommandGoesOn

LEMMA UnlinkKeeps == ASSUME WorkInv, Unlink PROVE WorkInv'
<1> DEFINE c == job["command"]
           at == Head(c.todo)
<1>1. /\ "command" \in Actor /\ Head1("command", "unlink") /\ WorkTypes /\ CommandTodo
      /\ UNCHANGED <<config, cache, screen, cut, disturbed>> /\ Then("command", <<>>)
      /\ disk' \in {disk, [disk EXCEPT ![at.file] = Absent]}
      /\ at.file # "audit.db" => disk' = [disk EXCEPT ![at.file] = Absent]
  BY DEF Unlink, Actor, WorkInv, Target
<1>2. /\ c \in Job /\ c.todo # <<>> /\ c.todo \in Seq(Item) /\ Tail(c.todo) \in Seq(Item)
      /\ disk \in [File -> Held]
  BY <1>1 DEF WorkTypes, Job, Head1
<1>3. c.name = "clean"
  BY <1>1, CommandStage
<1>4. /\ Carries("command") /\ job'["command"].todo = Tail(c.todo)
  BY <1>1, <1>2, PopCarries
<1>5. /\ disk' \in [File -> Held]
      /\ \A f \in File :
           /\ f # at.file => disk'[f] = disk[f]
           /\ at.file # "audit.db" /\ f = at.file => disk'[f] = Absent
  BY <1>1, <1>2 DEF Held
<1>6. /\ OffCorpus(c.todo) => OffChain(Tail(c.todo))
      /\ OffChain(c.todo) => OffTable(Tail(c.todo))
      /\ OffTable(c.todo) => at.file = "evaluation.csv" /\ OffDetail(Tail(c.todo))
      /\ OffDetail(c.todo) => at.file = "evaluation.json" /\ Tail(c.todo) \in Seq(Remaining)
      /\ c.todo \in Seq(Remaining) =>
           at.file = "scenarios.json" /\ Tail(c.todo) \in Seq(Remaining)
  <2>1. \A x \in Remaining : x.file = "scenarios.json"
    BY Parts DEF Remaining
  <2>2. c.todo \in Seq(Remaining) => at \in Remaining /\ Tail(c.todo) \in Seq(Remaining)
    BY <1>2
  <2> QED BY <2>1, <2>2, Parts, SMTT(30), ZenonT(30) DEF OffCorpus, OffChain, OffTable, OffDetail, Begins
<1>7. CommandTodo'
  BY <1>1, <1>3, <1>4, <1>6 DEF CommandTodo, Carries
<1>8. ASSUME Undisturbed, Progress PROVE Progress'
  <2>1. "evaluation.csv" \in File /\ "evaluation.json" \in File
    BY FilesAre
  <2>2. CASE OffCorpus(c.todo) \/ OffChain(c.todo)
    BY <1>3, <1>4, <1>6, <2>2, OffApart DEF Progress, Carries
  <2>3. CASE OffTable(c.todo)
    BY <1>3, <1>4, <1>5, <1>6, <2>1, <2>3, OffApart DEF Progress, Carries, Table
  <2>4. CASE OffDetail(c.todo)
    <3>1. Table = Absent
      BY <1>3, <1>8, <2>4 DEF Progress
    <3>2. Settled'
      BY <1>5, <1>6, <2>1, <2>4, <3>1 DEF Settled, Table, Detail, Absent, Torn
    <3> QED BY <1>3, <1>4, <1>6, <2>4, <3>2, OffApart DEF Progress, Carries
  <2>5. CASE c.todo \in Seq(Remaining)
    <3>1. Settled'
      BY <1>3, <1>5, <1>6, <1>8, <2>1, <2>5 DEF Progress, Settled, Table, Detail
    <3> QED BY <1>3, <1>4, <1>6, <2>5, <3>1, OffApart DEF Progress, Carries
  <2> QED BY <1>1, <1>3, <2>2, <2>3, <2>4, <2>5 DEF CommandTodo
<1> QED BY <1>1, <1>2, <1>4, <1>5, <1>7, <1>8, CommandGoesOn

-----------------------------------------------------------------------------
\* What the console does.
LEMMA AtHand ==
  ASSUME WorkInv, NEW what, Head1("console", what)
  PROVE  LET v == job["console"] IN
         /\ "console" \in Actor /\ Active("console") /\ v \in Job /\ v.todo # <<>>
         /\ v.todo \in Seq(Item) /\ Tail(v.todo) \in Seq(Item)
         /\ v.todo \in Seq(Later) => Tail(v.todo) \in Seq(Later)
         /\ Loads(v.todo) => /\ cache.scenarios = NotRead /\ v.name \in Views
                            /\ v.version \in Nat \cup {Short}
         /\ WorkTypes /\ ConsoleTodo
<1>1. "console" \in Actor /\ job["console"].todo # <<>>
  BY DEF Actor, Head1
<1>2. Active("console")
  BY <1>1, Working
<1>3. WorkTypes /\ ConsoleTodo
  BY DEF WorkInv
<1>4. job["console"] \in Job /\ job["console"].todo \in Seq(Item)
  BY <1>1, <1>3 DEF WorkTypes, Job
<1>5. Tail(job["console"].todo) \in Seq(Item)
  BY <1>1, <1>4
<1>6. job["console"].todo \in Seq(Later) => Tail(job["console"].todo) \in Seq(Later)
  BY <1>1
<1>7. Loads(job["console"].todo) =>
        /\ cache.scenarios = NotRead /\ job["console"].name \in Views
        /\ job["console"].version \in Nat \cup {Short}
  BY <1>3, NotLater DEF ConsoleTodo
<1> QED BY <1>1, <1>2, <1>3, <1>4, <1>5, <1>6, <1>7

\* The console has the files to itself, as far as they go.
Unshared == ~Breaks(cut) /\ ~Active("command")

LEMMA ConsoleLoads == ASSUME WorkInv, LoadCorpus("console") PROVE WorkInv'
<1> DEFINE v == job["console"]
           w == job'["console"]
<1>1. /\ Head1("console", "load")
      /\ UNCHANGED <<config, disk, cache, screen, cut, disturbed>>
  BY DEF LoadCorpus
<1>2. /\ "console" \in Actor /\ Active("console") /\ v \in Job /\ v.todo # <<>>
      /\ Tail(v.todo) \in Seq(Item) /\ WorkTypes /\ ConsoleTodo /\ disk \in [File -> Held]
      /\ Head(v.todo) = Corpus /\ (AtCorpus(v.todo) \/ v.todo \in Seq(Later))
  BY <1>1, AtHand, Stage DEF WorkTypes
<1>3. Unshared => Settled
  BY <1>2 DEF Unshared, WorkInv, ConsolePair
<1>4. ASSUME Carries("console"), w.todo \in {WriteCorpus \o Tail(v.todo), Tail(v.todo)},
             w.version \in {v.version, Short}
      PROVE  WorkInv'
  <2>1. CASE AtCorpus(v.todo)
    <3>1. AtChoice(Tail(v.todo))
      BY <2>1 DEF AtCorpus
    <3>2. AtCorpus(WriteCorpus \o Tail(v.todo))
      <4>1. "write" \in Deed /\ "interactions.jsonl" \in Path
        BY DEF Deed, Path
      <4>2. /\ Begins(WriteCorpus \o Tail(v.todo), "write", "interactions.jsonl")
            /\ Tail(WriteCorpus \o Tail(v.todo)) = Tail(v.todo)
        BY <1>2, <4>1, WritesAre, BeginsWith
      <4> QED BY <3>1, <4>2 DEF AtCorpus
    <3>3. AtCorpus(w.todo) \/ AtChoice(w.todo)
      BY <1>4, <3>1, <3>2
    <3>4. w.version \in Nat \cup {Short} /\ Loads(v.todo) /\ Loads(w.todo)
      BY <1>1, <1>4, <2>1, <3>3, AtHand DEF Loads
    <3>5. ConsolePair'
      <4>1. Unshared' => Settled'
        BY <1>1, <1>2, <1>3, <1>4
           DEF Unshared, Carries, Active, Actor, Settled, Table, Detail, Breaks
      <4> QED BY <3>3, <4>1, OneStage DEF ConsolePair, Unshared
    <3> QED BY <1>1, <1>2, <1>4, <3>4, <3>5, LoadStep
  <2>2. CASE v.todo \in Seq(Later)
    <3>1. Do("write", "interactions.jsonl") \in Later /\ Tail(v.todo) \in Seq(Later)
      BY <1>1, <2>2, AtHand DEF Later
    <3>2. <<Do("write", "interactions.jsonl")>> \o Tail(v.todo) \in Seq(Later)
      BY <3>1, Pushed
    <3>3. w.todo \in Seq(Later)
      BY <1>4, <3>1, <3>2, WritesAre
    <3> QED BY <1>1, <1>2, <1>4, <2>2, <3>3, LaterStep
  <2> QED BY <1>2, <2>1, <2>2
<1>5. ASSUME Raises("console") PROVE WorkInv'
  <2>1. /\ job' \in [Actor -> Job] /\ w = Rest /\ job'["command"] = job["command"]
    BY <1>2, <1>5, RaisesStops DEF Actor
  <2>2. OnScreen'
    BY <1>1 DEF WorkInv, OnScreen
  <2> QED BY <1>1, <1>2, <1>3, <2>1, <2>2, ConsoleStops DEF Unshared
<1>6. ASSUME NEW more \in {WriteCorpus, <<>>}, Then("console", more) PROVE WorkInv'
  <2>1. more \in Seq(Item)
    <3>1. Do("write", "interactions.jsonl") \in Item
      BY Items DEF Deed, Path
    <3>2. WriteCorpus \in Seq(Item) /\ <<>> \in Seq(Item)
      BY <3>1, WritesAre
    <3> QED BY <3>2
  <2> QED BY <1>1, <1>2, <1>4, <1>6, <2>1, ThenCarries, PushedNothing
<1>7. ASSUME job' = [job EXCEPT !["console"].todo = Tail(@), !["console"].version = Short]
      PROVE  WorkInv'
  <2>1. Carries("console") /\ w.todo = Tail(v.todo) /\ w.version = Short
    BY <1>1, <1>2, <1>7 DEF WorkTypes, Carries, Job, Held
  <2> QED BY <1>4, <2>1
<1> QED BY <1>5, <1>6, <1>7 DEF LoadCorpus

LEMMA ConsoleWrites ==
  ASSUME WorkInv, OpenFile("console") \/ FillFile("console") PROVE WorkInv'
<1> DEFINE v == job["console"]
           w == job'["console"]
           at == Head(v.todo)
           text == IF at.file \in ToSet(CorpusFiles) THEN 0 ELSE v.version
<1>1. /\ Head1("console", "write") /\ Target("console") = at.file
      /\ UNCHANGED <<config, cache, screen, cut, disturbed>>
  BY DEF OpenFile, FillFile, Target
<1>2. /\ "console" \in Actor /\ Active("console") /\ v \in Job /\ v.todo # <<>>
      /\ Tail(v.todo) \in Seq(Item) /\ WorkTypes /\ ConsoleTodo /\ disk \in [File -> Held]
      /\ v.todo \in Seq(Later) => Tail(v.todo) \in Seq(Later)
  BY <1>1, AtHand DEF WorkTypes
<1>3. \/ AtCorpus(v.todo) /\ at.file = "interactions.jsonl"
      \/ MakesTable(v.todo) /\ at.file = "evaluation.csv"
      \/ MakesDetail(v.todo) /\ at.file = "evaluation.json"
      \/ v.todo \in Seq(Later) /\ at.file \notin {"evaluation.csv", "evaluation.json"}
  <2>1. \A file : Do("write", file).file = file
    BY Parts
  <2> QED BY <1>1, <1>2, <2>1, Stage, Marks
<1>4. /\ "evaluation.csv" \in File /\ "evaluation.json" \in File
      /\ "evaluation.csv" \notin ToSet(CorpusFiles)
      /\ "evaluation.json" \notin ToSet(CorpusFiles)
  BY FilesAre
<1>5. \/ /\ Carries("console") /\ w.todo = v.todo /\ w.version = v.version
         /\ disk' = [disk EXCEPT ![at.file] = Torn]
      \/ /\ Carries("console") /\ w.todo = Tail(v.todo) /\ w.version = v.version
         /\ disk' = [disk EXCEPT ![at.file] = text]
  <2>1. CASE OpenFile("console")
    BY <1>1, <1>2, <2>1 DEF OpenFile, WorkTypes, Carries, Job
  <2>2. CASE FillFile("console")
    <3>1. Then("console", <<>>) /\ disk' = [disk EXCEPT ![at.file] = text]
      BY <1>1, <2>2 DEF FillFile
    <3> QED BY <1>2, <3>1, PopCarries
  <2> QED BY <2>1, <2>2
<1>6. /\ disk' \in [File -> Held]
      /\ \A f \in File : f # at.file => disk'[f] = disk[f]
      /\ w.todo = v.todo \/ (\A f \in File : f = at.file => disk'[f] = text)
  BY <1>2, <1>5 DEF Job, Held
<1>7. Unshared' => Unshared
  BY <1>1, <1>2, <1>5 DEF Unshared, Carries, Active, Actor, Breaks
<1>8. CASE v.todo \in Seq(Later) /\ at.file \notin {"evaluation.csv", "evaluation.json"}
  BY <1>1, <1>2, <1>4, <1>5, <1>6, <1>8, LaterStep
<1>9. ASSUME Loads(v.todo), Loads(w.todo), ConsolePair' PROVE WorkInv'
  <2>1. w.version \in Nat \cup {Short}
    BY <1>1, <1>5, <1>9, AtHand
  <2> QED BY <1>1, <1>2, <1>5, <1>6, <1>9, <2>1, LoadStep
<1>10. CASE AtCorpus(v.todo) /\ at.file = "interactions.jsonl"
  <2>1. AtCorpus(w.todo) \/ AtChoice(w.todo)
    BY <1>5, <1>10 DEF AtCorpus
  <2>2. Unshared' => Settled'
    BY <1>4, <1>6, <1>7, <1>10 DEF WorkInv, ConsolePair, Unshared, Settled, Table, Detail
  <2>3. ConsolePair'
    BY <2>1, <2>2, OneStage DEF ConsolePair, Unshared
  <2> QED BY <1>9, <1>10, <2>1, <2>3 DEF Loads
<1>11. CASE MakesTable(v.todo) /\ at.file = "evaluation.csv"
  <2>1. CASE w.todo = v.todo
    <3>1. ConsolePair'
      BY <1>11, <2>1, OneStage, NotLater DEF ConsolePair, Loads
    <3> QED BY <1>9, <1>11, <2>1, <3>1 DEF Loads
  <2>2. CASE w.todo # v.todo
    <3>1. MakesDetail(w.todo) /\ Loads(w.todo) /\ w.version = v.version
      BY <1>5, <1>11, <2>2 DEF MakesTable, Loads
    <3>2. Table' = v.version
      BY <1>4, <1>6, <1>11, <2>2 DEF Table
    <3>3. ConsolePair'
      BY <3>1, <3>2, OneStage, NotLater DEF ConsolePair
    <3> QED BY <1>9, <1>11, <3>1, <3>3 DEF Loads
  <2> QED BY <2>1, <2>2
<1>12. CASE MakesDetail(v.todo) /\ at.file = "evaluation.json"
  <2>1. Unshared' => Table' = v.version
    BY <1>4, <1>6, <1>7, <1>12 DEF WorkInv, ConsolePair, Unshared, Table
  <2>2. CASE w.todo = v.todo
    <3>1. ConsolePair'
      BY <1>5, <1>12, <2>1, <2>2, OneStage, NotLater DEF ConsolePair, Loads, Unshared
    <3> QED BY <1>9, <1>12, <2>2, <3>1 DEF Loads
  <2>3. CASE w.todo # v.todo
    <3>1. AtBuilt(w.todo) /\ Loads(w.todo) /\ w.version = v.version
      BY <1>5, <1>12, <2>3 DEF MakesDetail, Loads
    <3>2. Detail' = v.version
      BY <1>4, <1>6, <1>12, <2>3 DEF Detail
    <3>3. ConsolePair'
      BY <2>1, <3>1, <3>2, OneStage, NotLater DEF ConsolePair, Unshared
    <3> QED BY <1>9, <1>12, <3>1, <3>3 DEF Loads
  <2> QED BY <2>2, <2>3
<1> QED BY <1>3, <1>8, <1>10, <1>11, <1>12

LEMMA UnsharedStays ==
  ASSUME Carries("console"), cut' = cut, Unshared' PROVE Unshared
BY DEF Unshared, Carries, Active, Actor, Breaks

\* The lists the console puts before what it still has to do.
LEMMA Puts ==
  ASSUME NEW q
  PROVE  /\ AtScenarios(q) => AtDetail(<<Do("detail", "evaluation.json")>> \o q)
         /\ AtScenarios(q) => AtBuilt(<<Do("built", "evaluation.json")>> \o q)
         /\ AtScenarios(q) => AtChoice(<<Do("choose", "evaluation.json")>> \o q)
         /\ AtDetail(q) => AtTable(<<Do("frame", "evaluation.csv")>> \o q)
         /\ AtBuilt(q) => MakesDetail(<<Do("write", "evaluation.json")>> \o q)
         /\ MakesDetail(q) => MakesTable(<<Do("write", "evaluation.csv")>> \o q)
         /\ AtChoice(q) => AtCorpus(<<Corpus>> \o q)
         /\ q \in Seq(Later) => AtScenarios(<<Do("scenarios", "scenarios.json")>> \o q)
<1>1. /\ "frame" \in Deed /\ "detail" \in Deed /\ "write" \in Deed /\ "built" \in Deed
      /\ "choose" \in Deed /\ "load" \in Deed /\ "scenarios" \in Deed
      /\ "evaluation.csv" \in Path /\ "evaluation.json" \in Path
      /\ "interactions.jsonl" \in Path /\ "scenarios.json" \in Path
  BY DEF Deed, Path
<1>2. q \in Seq(Later) => q \in Seq(Item)
  BY Items, Larger
<1>3. CASE q \in Seq(Item)
  <2> DEFINE Put(what, file) ==
        /\ Begins(<<Do(what, file)>> \o q, what, file)
        /\ Tail(<<Do(what, file)>> \o q) = q
  <2>1. \A what \in Deed, file \in Path : Put(what, file)
    BY <1>3, BeginsWith
  <2> HIDE DEF Put
  <2>2. /\ Put("detail", "evaluation.json") /\ Put("built", "evaluation.json")
        /\ Put("choose", "evaluation.json") /\ Put("frame", "evaluation.csv")
        /\ Put("write", "evaluation.json") /\ Put("write", "evaluation.csv")
        /\ Put("load", "interactions.jsonl") /\ Put("scenarios", "scenarios.json")
    BY <1>1, <2>1
  <2>3. AtScenarios(q) => AtDetail(<<Do("detail", "evaluation.json")>> \o q)
    BY <2>2 DEF Put, AtDetail
  <2>4. AtScenarios(q) => AtBuilt(<<Do("built", "evaluation.json")>> \o q)
    BY <2>2 DEF Put, AtBuilt
  <2>5. AtScenarios(q) => AtChoice(<<Do("choose", "evaluation.json")>> \o q)
    BY <2>2 DEF Put, AtChoice
  <2>6. AtDetail(q) => AtTable(<<Do("frame", "evaluation.csv")>> \o q)
    BY <2>2 DEF Put, AtTable
  <2>7. AtBuilt(q) => MakesDetail(<<Do("write", "evaluation.json")>> \o q)
    BY <2>2 DEF Put, MakesDetail
  <2>8. MakesDetail(q) => MakesTable(<<Do("write", "evaluation.csv")>> \o q)
    BY <2>2 DEF Put, MakesTable
  <2>9. AtChoice(q) => AtCorpus(<<Corpus>> \o q)
    BY <2>2 DEF Put, AtCorpus, Corpus
  <2>10. q \in Seq(Later) => AtScenarios(<<Do("scenarios", "scenarios.json")>> \o q)
    BY <2>2 DEF Put, AtScenarios
  <2> QED BY <2>3, <2>4, <2>5, <2>6, <2>7, <2>8, <2>9, <2>10
<1>4. CASE q \notin Seq(Item)
  BY <1>2, <1>4 DEF AtScenarios, AtDetail, AtBuilt, MakesDetail, AtChoice, Begins
<1> QED BY <1>3, <1>4

LEMMA LoadLists ==
  ASSUME NEW r, AtScenarios(r)
  PROVE  /\ AtTable(<<Do("frame", "evaluation.csv"), Do("detail", "evaluation.json")>> \o r)
         /\ <<Do("frame", "evaluation.csv"), Do("detail", "evaluation.json")>> \in Seq(Item)
         /\ MakesTable((BuildReport \o <<Do("built", "evaluation.json")>>) \o r)
         /\ BuildReport \o <<Do("built", "evaluation.json")>> \in Seq(Item)
<1> DEFINE frame == Do("frame", "evaluation.csv")
           detail == Do("detail", "evaluation.json")
           table == Do("write", "evaluation.csv")
           rest == Do("write", "evaluation.json")
           built == Do("built", "evaluation.json")
<1>1. /\ frame \in Item /\ detail \in Item /\ table \in Item /\ rest \in Item
      /\ built \in Item
  BY Items DEF Deed, Path
<1>2. r \in Seq(Item) /\ BuildReport = <<table, rest>>
  BY WritesAre DEF AtScenarios, Begins
<1>3. AtTable(<<frame>> \o (<<detail>> \o r))
  BY Puts
<1>4. MakesTable(<<table>> \o (<<rest>> \o (<<built>> \o r)))
  BY Puts
<1> HIDE DEF frame, detail, table, rest, built
<1>5. <<frame, detail>> \in Seq(Item) /\ <<table, rest, built>> \in Seq(Item)
  BY <1>1
<1>6. <<frame, detail>> \o r = <<frame>> \o (<<detail>> \o r)
  BY <1>1, <1>2, PushedTwo
<1>7. <<table, rest>> \o <<built>> = <<table, rest, built>>
  BY <1>1, Joined
<1>8. \A q \in Seq(Item) :
        <<table, rest, built>> \o q = <<table>> \o (<<rest>> \o (<<built>> \o q))
  BY <1>1, PushedThree, SMTT(30), ZenonT(30)
<1> QED BY <1>2, <1>3, <1>4, <1>5, <1>6, <1>7, <1>8 DEF frame, detail, table, rest, built

LEMMA ArtifactsList ==
  ASSUME NEW q \in Seq(Later)
  PROVE  LET l == <<Corpus, Do("choose", "evaluation.json"), Do("scenarios", "scenarios.json")>>
         IN  AtCorpus(l \o q) /\ l \in Seq(Item)
<1> DEFINE choice == Do("choose", "evaluation.json")
           scenarios == Do("scenarios", "scenarios.json")
<1>1. Corpus \in Item /\ choice \in Item /\ scenarios \in Item /\ q \in Seq(Item)
  BY Items, Larger DEF Deed, Path
<1>2. AtCorpus(<<Corpus>> \o (<<choice>> \o (<<scenarios>> \o q)))
  BY Puts
<1> HIDE DEF choice, scenarios
<1>3. <<Corpus, choice, scenarios>> \in Seq(Item)
  BY <1>1
<1>4. <<Corpus, choice, scenarios>> \o q = <<Corpus>> \o (<<choice>> \o (<<scenarios>> \o q))
  BY <1>1, PushedThree
<1> QED BY <1>2, <1>3, <1>4 DEF choice, scenarios

LEMMA ChooseKeeps == ASSUME WorkInv, Choose PROVE WorkInv'
<1> DEFINE v == job["console"]
           w == job'["console"]
           read == <<Do("frame", "evaluation.csv"), Do("detail", "evaluation.json")>>
           build == BuildReport \o <<Do("built", "evaluation.json")>>
<1>1. /\ Head1("console", "choose")
      /\ UNCHANGED <<config, disk, cache, screen, cut, disturbed>>
      /\ \/ Detail # Absent /\ Then("console", read)
         \/ Detail = Absent /\ Then("console", build)
  BY DEF Choose, Detail
<1>2. /\ "console" \in Actor /\ v.todo # <<>> /\ WorkTypes /\ disk \in [File -> Held]
      /\ AtChoice(v.todo) /\ AtScenarios(Tail(v.todo)) /\ Loads(v.todo)
      /\ v.version \in Nat \cup {Short}
  BY <1>1, AtHand, Stage DEF AtChoice, WorkTypes, Loads
<1>3. /\ Carries("console") /\ w.version = v.version
      /\ \/ Detail # Absent /\ AtTable(w.todo)
         \/ MakesTable(w.todo)
  BY <1>1, <1>2, LoadLists, ThenCarries
<1>4. Unshared' => Settled'
  BY <1>1, <1>2, <1>3, UnsharedStays
     DEF WorkInv, ConsolePair, Unshared, Settled, Table, Detail
<1>5. ConsolePair'
  BY <1>1, <1>3, <1>4, OneStage, NotLater DEF ConsolePair, Loads, Unshared, Detail
<1> QED BY <1>1, <1>2, <1>3, <1>5, LoadStep DEF Loads

\* Half a file raises, but for the table, and that is not there to be read alone.
LEMMA ReadKeeps ==
  ASSUME WorkInv, NEW what, NEW field, ReadInto(what, field),
         \/ what = "frame" /\ field = "frame"
         \/ what = "detail" /\ field = "detail"
         \/ what = "scenarios" /\ field = "scenarios" /\ disk["scenarios.json"] # Absent
         \/ what = "attention" /\ field = "attention"
  PROVE  WorkInv'
<1> DEFINE v == job["console"]
           w == job'["console"]
           held == disk[Target("console")]
<1>1. /\ Head1("console", what) /\ UNCHANGED <<config, disk, screen, cut, disturbed>>
  BY DEF ReadInto
<1>2. /\ "console" \in Actor /\ Active("console") /\ v.todo # <<>> /\ WorkTypes
      /\ ConsoleTodo /\ disk \in [File -> Held] /\ Target("console") = Head(v.todo).file
      /\ v.todo \in Seq(Later) => Tail(v.todo) \in Seq(Later)
      /\ Loads(v.todo) => v.version \in Nat \cup {Short}
      /\ DOMAIN cache = {"frame", "detail", "scenarios", "attention", "engine"}
  BY <1>1, AtHand DEF WorkTypes, Target
<1>3. \/ AtTable(v.todo) /\ what = "frame" /\ Target("console") = "evaluation.csv"
      \/ AtDetail(v.todo) /\ what = "detail" /\ Target("console") = "evaluation.json"
      \/ AtScenarios(v.todo) /\ what = "scenarios" /\ Target("console") = "scenarios.json"
      \/ v.todo \in Seq(Later) /\ what = "attention"
  <2>1. \/ AtTable(v.todo) /\ what = "frame"
        \/ AtDetail(v.todo) /\ what = "detail"
        \/ AtScenarios(v.todo) /\ what = "scenarios"
        \/ v.todo \in Seq(Later) /\ what = "attention"
    <3>1. /\ what = "frame" => AtTable(v.todo)
          /\ what = "detail" => AtDetail(v.todo)
          /\ what = "scenarios" => AtScenarios(v.todo)
          /\ what = "attention" => v.todo \in Seq(Later)
      BY <1>1, <1>2, Stage
    <3> QED BY <3>1
  <2>2. /\ AtTable(v.todo) => Head(v.todo).file = "evaluation.csv"
        /\ AtDetail(v.todo) => Head(v.todo).file = "evaluation.json"
        /\ AtScenarios(v.todo) => Head(v.todo).file = "scenarios.json"
    BY Marks, Parts
  <2> QED BY <1>2, <2>1, <2>2
<1>4. Unshared => Settled \/ ~(AtTable(v.todo) \/ AtDetail(v.todo) \/ AtScenarios(v.todo)
                               \/ v.todo \in Seq(Later))
  BY DEF WorkInv, ConsolePair, Unshared
<1>5. ASSUME Raises("console"), UNCHANGED cache PROVE WorkInv'
  <2>1. /\ job' \in [Actor -> Job] /\ w = Rest /\ job'["command"] = job["command"]
    BY <1>2, <1>5, RaisesStops DEF Actor
  <2>2. OnScreen'
    BY <1>1, <1>5 DEF WorkInv, OnScreen
  <2> QED BY <1>1, <1>2, <1>3, <1>4, <1>5, <2>1, <2>2, ConsoleStops DEF Unshared
<1>6. ASSUME held # Absent, held = Torn => what = "frame",
             cache' = [cache EXCEPT ![field] = IF held = Torn THEN Short ELSE held],
             Then("console", <<>>)
      PROVE  WorkInv'
  <2>1. Carries("console") /\ w.todo = Tail(v.todo) /\ w.version = v.version
    BY <1>2, <1>6, PopCarries
  <2>2. DOMAIN cache' = DOMAIN cache /\ \A f \in DOMAIN cache : f # field => cache'[f] = cache[f]
    BY <1>6
  <2>3. Unshared' => Unshared
    BY <1>1, <2>1, UnsharedStays
  <2>4. CASE AtTable(v.todo) /\ what = "frame" /\ Target("console") = "evaluation.csv"
    <3>1. AtDetail(w.todo) /\ Loads(v.todo) /\ Loads(w.todo)
      BY <2>1, <2>4 DEF AtTable, Loads
    <3>2. Unshared' => Settled' /\ Detail' # Absent /\ cache'.frame = Table'
      <4>1. Unshared' => Settled /\ Detail # Absent
        BY <2>3, <2>4 DEF WorkInv, ConsolePair, Unshared
      <4> QED BY <1>1, <1>2, <1>6, <2>4, <4>1 DEF Settled, Table, Detail
    <3>3. ConsolePair'
      BY <3>1, <3>2, OneStage, NotLater DEF ConsolePair, Unshared
    <3> QED BY <1>1, <1>2, <2>1, <2>2, <2>4, <3>1, <3>3, LoadStep
  <2>5. CASE AtDetail(v.todo) /\ what = "detail" /\ Target("console") = "evaluation.json"
    <3>1. AtScenarios(w.todo) /\ Loads(v.todo) /\ Loads(w.todo)
      BY <2>1, <2>5 DEF AtDetail, Loads
    <3>2. Unshared' => Settled' /\ cache'.frame = cache'.detail
      <4>1. Unshared' => Settled /\ cache.frame = Table
        BY <2>3, <2>5 DEF WorkInv, ConsolePair, Unshared
      <4> QED BY <1>1, <1>2, <1>6, <2>2, <2>5, <4>1 DEF Settled, Table, Detail
    <3>3. ConsolePair'
      BY <3>1, <3>2, OneStage, NotLater DEF ConsolePair, Unshared
    <3> QED BY <1>1, <1>2, <2>1, <2>2, <2>5, <3>1, <3>3, LoadStep
  <2>6. CASE AtScenarios(v.todo) /\ what = "scenarios" /\ Target("console") = "scenarios.json"
    <3>1. w.todo \in Seq(Later)
      BY <2>1, <2>6 DEF AtScenarios
    <3>2. held # NotRead
      BY <1>2, <2>6, FilesAre DEF Held, Absent, Torn, Short, NotRead
    <3> QED BY <1>1, <1>6, <2>1, <2>6, <3>1, <3>2, ScenariosStep
  <2>7. CASE v.todo \in Seq(Later) /\ what = "attention"
    BY <1>1, <1>2, <2>1, <2>2, <2>7, LaterStep
  <2> QED BY <1>3, <2>4, <2>5, <2>6, <2>7
<1> QED BY <1>5, <1>6 DEF ReadInto

LEMMA BuiltKeeps == ASSUME WorkInv, Built PROVE WorkInv'
<1> DEFINE v == job["console"]
           w == job'["console"]
<1>1. /\ Head1("console", "built") /\ UNCHANGED <<config, disk, screen, cut, disturbed>>
      /\ cache' = [cache EXCEPT !.frame = v.version, !.detail = v.version]
      /\ Then("console", <<>>)
  BY DEF Built
<1>2. /\ "console" \in Actor /\ v.todo # <<>> /\ WorkTypes /\ disk \in [File -> Held]
      /\ AtBuilt(v.todo) /\ Loads(v.todo) /\ v.version \in Nat \cup {Short}
      /\ DOMAIN cache = {"frame", "detail", "scenarios", "attention", "engine"}
  BY <1>1, AtHand, Stage DEF WorkTypes, Loads
<1>3. Carries("console") /\ w.todo = Tail(v.todo) /\ w.version = v.version
  BY <1>1, <1>2, PopCarries
<1>4. AtScenarios(w.todo) /\ Loads(w.todo)
  BY <1>2, <1>3 DEF AtBuilt, Loads
<1>5. /\ DOMAIN cache' = DOMAIN cache /\ cache'.scenarios = cache.scenarios
      /\ cache'.frame = cache'.detail
  BY <1>1, <1>2
<1>6. Unshared' => Settled'
  <2>1. Unshared' => Table = v.version /\ Detail = v.version
    BY <1>1, <1>2, <1>3, UnsharedStays DEF WorkInv, ConsolePair, Unshared
  <2> QED BY <1>1, <1>2, <2>1 DEF Settled, Table, Detail, Torn, Short
<1>7. ConsolePair'
  BY <1>4, <1>5, <1>6, OneStage, NotLater DEF ConsolePair, Unshared
<1> QED BY <1>1, <1>2, <1>3, <1>4, <1>5, <1>7, LoadStep

LEMMA RunScenariosKeeps == ASSUME WorkInv, RunScenarios PROVE WorkInv'
<1> DEFINE v == job["console"]
           w == job'["console"]
           write == Do("write", "scenarios.json")
<1>1. /\ Head1("console", "scenarios") /\ UNCHANGED <<config, disk, screen, cut, disturbed>>
      /\ cache' = [cache EXCEPT !.scenarios = v.version] /\ Then("console", <<write>>)
  BY DEF RunScenarios
<1>2. /\ "console" \in Actor /\ v.todo # <<>> /\ WorkTypes /\ AtScenarios(v.todo)
      /\ Tail(v.todo) \in Seq(Later) /\ v.version \in Nat \cup {Short}
  BY <1>1, AtHand, Stage DEF Loads, AtScenarios
<1>3. write \in Later /\ write \in Item
  BY Items DEF Later
<1>4. <<write>> \in Seq(Item)
  BY <1>3
<1>5. Carries("console") /\ w.todo = <<write>> \o Tail(v.todo)
  BY <1>1, <1>2, <1>4, ThenCarries
<1>6. w.todo \in Seq(Later)
  BY <1>2, <1>3, <1>5, Pushed
<1>7. v.version # NotRead
  BY <1>2 DEF Short, NotRead
<1> QED BY <1>1, <1>2, <1>5, <1>6, <1>7, ScenariosStep

\* What only this view needs: nothing of the report changes.
LEMMA ViewSourceKeeps ==
  ASSUME WorkInv, LoadAttention \/ LoadRelearn \/ OpenEngine PROVE WorkInv'
<1> DEFINE v == job["console"]
           w == job'["console"]
<1>1. CASE LoadAttention /\ ReadInto("attention", "attention")
  BY <1>1, ReadKeeps
<1>2. ASSUME NEW what \in {"attention", "relearn", "engine"}, Head1("console", what),
             UNCHANGED <<config, disk, screen, cut, disturbed>>,
             DOMAIN cache' = DOMAIN cache,
             \A f \in {"frame", "detail", "scenarios"} : cache'[f] = cache[f],
             Carries("console"), w.todo = Tail(v.todo)
      PROVE  WorkInv'
  <2>1. /\ v.todo \in Seq(Later) /\ v.todo # <<>> /\ Tail(v.todo) \in Seq(Later)
        /\ disk \in [File -> Held]
    BY <1>2, AtHand, Stage DEF WorkTypes
  <2> QED BY <1>2, <2>1, LaterStep
<1>3. /\ WorkTypes /\ DOMAIN cache = {"frame", "detail", "scenarios", "attention", "engine"}
  BY DEF WorkInv, WorkTypes
<1>4. CASE /\ Head1("console", "attention") /\ Then("console", <<>>)
           /\ cache' = [cache EXCEPT !.attention = Absent]
           /\ UNCHANGED <<config, disk, screen, cut, disturbed>>
  <2>1. Carries("console") /\ w.todo = Tail(v.todo)
    BY <1>3, <1>4, AtHand, PopCarries
  <2> QED BY <1>2, <1>3, <1>4, <2>1
<1>5. CASE OpenEngine
  <2>1. /\ Head1("console", "engine") /\ Then("console", <<>>)
        /\ cache' = [cache EXCEPT !.engine = chain']
        /\ UNCHANGED <<config, disk, screen, cut, disturbed>>
    BY <1>5 DEF OpenEngine
  <2>2. Carries("console") /\ w.todo = Tail(v.todo)
    BY <1>3, <2>1, AtHand, PopCarries
  <2> QED BY <1>2, <1>3, <2>1, <2>2
<1>6. CASE LoadRelearn
  <2>1. /\ Head1("console", "relearn") /\ UNCHANGED <<config, disk, cache, screen, cut, disturbed>>
    BY <1>6 DEF LoadRelearn
  <2>2. CASE Raises("console")
    <3>1. /\ "console" \in Actor /\ Active("console") /\ v.todo \in Seq(Later)
      BY <2>1, AtHand, Stage
    <3>2. /\ job' \in [Actor -> Job] /\ w = Rest /\ job'["command"] = job["command"]
      BY <1>3, <2>2, <3>1, RaisesStops DEF Actor
    <3>3. OnScreen' /\ (~Breaks(cut) /\ ~Active("command") => Settled)
      BY <2>1, <3>1 DEF WorkInv, OnScreen, ConsolePair
    <3> QED BY <2>1, <3>1, <3>2, <3>3, ConsoleStops
  <2>3. CASE job' = [job EXCEPT !["console"].todo = Tail(@),
                               !["console"].version = disk["relearn.json"]]
    <3>1. disk["relearn.json"] \in Held
      BY <1>3, FilesAre DEF WorkTypes
    <3>2. v \in Job /\ Tail(v.todo) \in Seq(Item) /\ "console" \in Actor
      BY <2>1, AtHand
    <3>3. Carries("console") /\ w.todo = Tail(v.todo)
      BY <1>3, <2>3, <3>1, <3>2 DEF WorkTypes, Carries, Job
    <3> QED BY <1>2, <1>3, <2>1, <3>3
  <2> QED BY <1>6, <2>2, <2>3 DEF LoadRelearn
<1> QED BY <1>1, <1>4, <1>5, <1>6 DEF LoadAttention

LEMMA ShowsKeeps ==
  ASSUME WorkInv, NEW view \in Views, NEW what, Shows(view, what),
         what # <<>> /\ what[1] = "report" =>
           view # "Live" /\ what = <<"report", cache.frame, cache.detail>>
  PROVE  WorkInv'
<1> DEFINE v == job["console"]
<1>1. /\ v.name = view /\ v.todo = <<>> /\ screen' = what
      /\ job' = [job EXCEPT !["console"] = Rest]
      /\ UNCHANGED <<config, disk, cache, cut, disturbed>>
  BY DEF Shows
<1>2. Active("console") /\ v.name # "none"
  BY <1>1 DEF Active, Rest, Views
<1>3. /\ job' \in [Actor -> Job] /\ job'["console"] = Rest
      /\ job'["command"] = job["command"]
  BY <1>1, RestIsJob DEF WorkInv, WorkTypes, Actor
<1>4. v.todo \in Seq(Later) /\ ~Loads(v.todo)
  BY <1>1, NotLater
<1>5. ~Breaks(cut) /\ ~Active("command") => Settled
  BY <1>4 DEF WorkInv, ConsolePair
<1>6. OnScreen'
  <2>1. view # "Live" => cache.scenarios # NotRead
    BY <1>1, <1>2, <1>4 DEF WorkInv, ConsoleTodo
  <2> QED BY <1>1, <2>1 DEF OnScreen
<1> QED BY <1>1, <1>2, <1>3, <1>5, <1>6, ConsoleStops

LEMMA ShowKeeps ==
  ASSUME WorkInv,
         \/ ShowOverview \/ ShowQueue \/ ShowScenarios \/ ShowRelearn \/ ShowLive
         \/ ShowDecision \/ ShowLedger
  PROVE  WorkInv'
<1>1. CASE ShowOverview
  BY <1>1, ShowsKeeps DEF ShowOverview, Views
<1>2. CASE ShowQueue \/ ShowScenarios
  BY <1>2, ShowsKeeps DEF ShowQueue, ShowScenarios, Views
<1>3. CASE ShowRelearn \/ ShowLive
  BY <1>3, ShowsKeeps DEF ShowRelearn, ShowLive, Views
<1>4. CASE ShowDecision \/ ShowLedger
  BY <1>4, ShowsKeeps DEF ShowDecision, ShowLedger, Views
<1> QED BY <1>1, <1>2, <1>3, <1>4

LEMMA EditKeeps == ASSUME WorkInv, EditConfig PROVE WorkInv'
<1>1. /\ config' = config + 1
      /\ UNCHANGED <<disk, job, cache, screen, cut, disturbed>>
  BY DEF EditConfig
<1>2. WorkTypes'
  BY <1>1 DEF WorkInv, WorkTypes
<1>3. CommandTodo' /\ ConsoleTodo'
  BY <1>1 DEF WorkInv, CommandTodo, ConsoleTodo
<1>4. CommandPair'
  BY <1>1 DEF WorkInv, CommandPair, Undisturbed, Progress, Active, Breaks, Settled, Table, Detail
<1>5. ConsolePair'
  BY <1>1 DEF WorkInv, ConsolePair, Active, Breaks, Settled, Table, Detail
<1>6. Overlap' /\ Vouched' /\ OnScreen'
  BY <1>1 DEF WorkInv, Overlap, Vouched, OnScreen, Active
<1> QED BY <1>2, <1>3, <1>4, <1>5, <1>6 DEF WorkInv

LEMMA SelectKeeps == ASSUME WorkInv, NEW view \in Views, SelectView(view) PROVE WorkInv'
<1> DEFINE c == job["command"]
           artifacts == IF view = "Live" THEN <<>> ELSE LoadArtifacts
           attention == IF view = "Queue" /\ cache.attention = NotRead
                        THEN <<Do("attention", "attention.json")>> ELSE <<>>
           relearn == IF view = "Relearn" THEN <<Do("relearn", "relearn.json")>> ELSE <<>>
           engine == IF view = "Lab" /\ cache.engine = 0
                     THEN <<Corpus, Do("engine", "audit.db")>> ELSE <<>>
           v == [name |-> view, open |-> FALSE, version |-> config, mends |-> {},
                 todo |-> ((artifacts \o attention) \o relearn) \o engine]
<1>1. /\ ~Active("console")
      /\ job' = [job EXCEPT !["command"].mends = {}, !["console"] = v]
      /\ UNCHANGED <<config, disk, cache, screen>>
      /\ disturbed' = IF cache.scenarios = NotRead THEN Active("command") \/ cut # {}
                      ELSE disturbed
      /\ cut' = IF Active("command") THEN cut \cup {"overlap"} ELSE cut
  BY DEF SelectView
<1>2. /\ attention \in Seq(Later) /\ relearn \in Seq(Later) /\ engine \in Seq(Later)
  <2>1. /\ Do("attention", "attention.json") \in Later /\ Do("relearn", "relearn.json") \in Later
        /\ Corpus \in Later /\ Do("engine", "audit.db") \in Later
    BY DEF Later
  <2>2. \A x \in Later, y \in Later : /\ <<>> \in Seq(Later) /\ <<x>> \in Seq(Later)
                                     /\ <<x, y>> \in Seq(Later)
    OBVIOUS
  <2> QED BY <2>1, <2>2
<1>3. /\ v.todo \in Seq(Item)
      /\ IF view = "Live" \/ cache.scenarios # NotRead
         THEN v.todo \in Seq(Later) ELSE AtCorpus(v.todo)
  <2> DEFINE more == (attention \o relearn) \o engine
             load == <<Corpus, Do("choose", "evaluation.json"),
                       Do("scenarios", "scenarios.json")>>
  <2> HIDE DEF attention, relearn, engine
  <2>1. more \in Seq(Later)
    BY <1>2, Regrouped
  <2>2. /\ more \in Seq(Item) /\ attention \in Seq(Item) /\ relearn \in Seq(Item)
        /\ engine \in Seq(Item)
    BY <1>2, <2>1, Items, Larger
  <2>3. ASSUME NEW a \in Seq(Item) PROVE ((a \o attention) \o relearn) \o engine = a \o more
    <3>1. Four(a, attention, relearn, engine) = a \o Three(attention, relearn, engine)
      <4>1. a \in Seq(Item) /\ attention \in Seq(Item) /\ relearn \in Seq(Item) /\ engine \in Seq(Item)
        BY <2>2, Zenon
      <4>2. \A q, r \in Seq(Item) : Four(a, attention, q, r) = a \o Three(attention, q, r)
        BY <4>1, ItemsRegrouped, Zenon
      <4> QED BY <4>1, <4>2, Zenon
    <3> QED BY <3>1, Zenon DEF Four, Three, more
  <2>4. artifacts = IF view = "Live" \/ cache.scenarios # NotRead THEN <<>> ELSE load
    BY DEF LoadArtifacts
  <2> HIDE DEF artifacts, more
  <2>5. CASE view = "Live" \/ cache.scenarios # NotRead
    <3>1. artifacts = <<>> /\ <<>> \in Seq(Item)
      BY <2>4, <2>5
    <3>2. v.todo = <<>> \o more
      BY <2>3, <3>1
    <3>3. v.todo = more
      BY <2>2, <3>2, PushedNothing
    <3> QED BY <2>1, <2>2, <2>5, <3>3
  <2>6. CASE ~(view = "Live" \/ cache.scenarios # NotRead)
    <3>1. artifacts = load /\ load \in Seq(Item) /\ AtCorpus(load \o more)
      BY <2>1, <2>4, <2>6, ArtifactsList
    <3>2. v.todo = load \o more
      BY <2>3, <3>1
    <3> QED BY <2>6, <3>1, <3>2 DEF AtCorpus, Begins
  <2> QED BY <2>5, <2>6
<1> HIDE DEF artifacts, attention, relearn, engine
<1>4. /\ c \in Job /\ DOMAIN job = Actor /\ job \in [Actor -> Job]
      /\ "console" \in Actor /\ "command" \in Actor /\ config \in Nat
  BY DEF WorkInv, WorkTypes, Actor
<1>5. v \in Job
  BY <1>3, <1>4 DEF Job, Held
<1>6. job'["console"] = v /\ job'["command"] = [c EXCEPT !.mends = {}]
  BY <1>1, <1>4
<1>7. [c EXCEPT !.mends = {}] \in Job
  BY <1>4 DEF Job
<1>8. WorkTypes'
  <2>1. job' \in [Actor -> Job]
    BY <1>1, <1>4, <1>5, <1>6, <1>7 DEF Actor
  <2>2. disturbed' \in BOOLEAN /\ cut' \subseteq Cut
    BY <1>1 DEF WorkInv, WorkTypes, Cut
  <2> QED BY <1>1, <2>1, <2>2 DEF WorkInv, WorkTypes
<1>9. /\ job'["command"].name = c.name /\ job'["command"].todo = c.todo
      /\ job'["command"].version = c.version /\ job'["command"].mends = {}
      /\ c = Rest => job'["command"] = Rest
  <2>1. \A j \in Job : j.mends = {} => [j EXCEPT !.mends = {}] = j
    BY DEF Job
  <2>2. Rest.mends = {}
    BY DEF Rest
  <2> QED BY <1>4, <1>6, <2>1, <2>2 DEF Job
<1>10. Active("console")' /\ (Active("command")' => Active("command"))
  <2>1. v.name # Rest.name
    BY DEF Rest, Views
  <2>2. v # Rest
    BY <2>1
  <2> QED BY <1>6, <1>9, <2>2 DEF Active
<1>11. CommandTodo'
  BY <1>9 DEF WorkInv, CommandTodo, Breaks
<1>12. CommandPair'
  BY <1>10 DEF CommandPair, Undisturbed
<1>13. ConsoleTodo'
  <2>1. view # "none"
    BY DEF Views
  <2> QED BY <1>1, <1>3, <1>4, <1>6, <2>1 DEF ConsoleTodo, Loads
<1>14. ConsolePair'
  <2>1. job["console"].todo = <<>>
    BY <1>1 DEF Active, Rest
  <2>2. ~Breaks(cut) /\ ~Active("command") => Settled
    BY <2>1 DEF WorkInv, ConsolePair
  <2>3. Active("command") => Active("command")'
    <3>1. Active("command") => c.name # "none"
      BY DEF WorkInv, CommandTodo, Active
    <3>2. Rest.name = "none"
      BY DEF Rest
    <3> QED BY <1>9, <3>1, <3>2 DEF Active
  <2>4. ~Breaks(cut)' /\ ~Active("command")' => Settled'
    BY <1>1, <2>2, <2>3 DEF Settled, Table, Detail, Breaks
  <2>5. AtCorpus(job'["console"].todo) \/ job'["console"].todo \in Seq(Later)
    BY <1>3, <1>6
  <2> QED BY <2>4, <2>5, OneStage, NotLater DEF ConsolePair, Loads
<1>15. Overlap'
  BY <1>1, <1>9, <1>10 DEF Overlap
<1>16. Vouched'
  BY <1>1, <1>10 DEF WorkInv, Vouched
<1>17. OnScreen'
  BY <1>1 DEF WorkInv, OnScreen
<1> QED BY <1>8, <1>11, <1>12, <1>13, <1>14, <1>15, <1>16, <1>17 DEF WorkInv

LEMMA RestartKeeps == ASSUME WorkInv, RestartServer PROVE WorkInv'
<1> DEFINE c == job["command"]
           v == job["console"]
<1>1. /\ job' = [job EXCEPT !["console"] = Rest] /\ screen' = <<>>
      /\ cut' = IF \E i \in DOMAIN v.todo : v.todo[i].do = "write" THEN cut \cup {"report"} ELSE cut
      /\ cache' = [frame |-> NotRead, detail |-> NotRead, scenarios |-> NotRead,
                   attention |-> NotRead, engine |-> 0]
      /\ UNCHANGED <<config, disk, disturbed>>
  BY DEF RestartServer
<1>2. /\ job' \in [Actor -> Job] /\ job'["console"] = Rest /\ job'["command"] = c
      /\ v \in Job /\ v.todo \in Seq(Item)
  BY <1>1, RestIsJob DEF WorkInv, WorkTypes, Actor, Job
<1>3. ~Active("console")' /\ Active("command")' = Active("command")
  BY <1>2 DEF Active
<1>4. WorkTypes'
  <2>1. cut' \subseteq Cut
    BY <1>1 DEF WorkInv, WorkTypes, Cut, Commands
  <2> QED BY <1>1, <1>2, <2>1 DEF WorkInv, WorkTypes
<1>5. CommandTodo'
  BY <1>2 DEF WorkInv, CommandTodo
<1>6. ~Active("console") => job' = job /\ cut' = cut
  <2>1. ~Active("console") => v = Rest /\ v.todo = <<>>
    BY DEF Active, Rest
  <2> QED BY <1>1, <2>1 DEF WorkInv, WorkTypes
<1>7. CommandPair'
  <2>1. CASE Active("console")
    <3>1. Active("command") => "overlap" \in cut' /\ c.mends = {}
      BY <1>1, <2>1 DEF WorkInv, Overlap
    <3> QED BY <1>2, <1>3, <3>1 DEF CommandPair, Undisturbed, Breaks
  <2>2. CASE ~Active("console")
    BY <1>1, <1>6, <2>2
       DEF WorkInv, CommandPair, Undisturbed, Progress, Active, Breaks, Settled, Table, Detail
  <2> QED BY <2>1, <2>2
<1>8. ConsoleTodo'
  <2>1. /\ Rest.name = "none" /\ Rest.mends = {} /\ Rest.todo = <<>>
    BY DEF Rest
  <2> QED BY <1>2, <2>1 DEF ConsoleTodo
<1>9. ConsolePair'
  <2>1. ~Loads(job'["console"].todo)
    BY <1>2, NotLater DEF Rest
  <2>2. MakesTable(v.todo) \/ MakesDetail(v.todo) => Breaks(cut')
    <3>1. MakesTable(v.todo) \/ MakesDetail(v.todo) => v.todo # <<>> /\ Head(v.todo).do = "write"
      BY Parts DEF MakesTable, MakesDetail, Begins
    <3>2. v.todo # <<>> => 1 \in DOMAIN v.todo /\ Head(v.todo) = v.todo[1]
      BY <1>2
    <3>3. MakesTable(v.todo) \/ MakesDetail(v.todo) => "report" \in cut'
      BY <1>1, <3>1, <3>2
    <3> QED BY <3>3 DEF Breaks
  <2>3. ~Breaks(cut') => ~Breaks(cut)
    BY <1>1 DEF Breaks
  <2>4. ASSUME ~Breaks(cut'), ~Active("command") PROVE Settled
    <3>1. AtBuilt(v.todo) => v.version \in Nat \cup {Short}
      BY NotLater DEF WorkInv, ConsoleTodo, Loads
    <3> QED BY <2>2, <2>3, <2>4, <3>1
         DEF WorkInv, ConsolePair, ConsoleTodo, Loads, Settled, Torn, Short
  <2> QED BY <1>1, <1>3, <2>1, <2>4 DEF ConsolePair, Loads, Settled, Table, Detail
<1>10. Overlap' /\ Vouched' /\ OnScreen'
  BY <1>1, <1>3 DEF Overlap, Vouched, OnScreen
<1> QED BY <1>4, <1>5, <1>7, <1>8, <1>9, <1>10 DEF WorkInv

LEMMA WorkStepKeeps == WorkInv /\ [WorkNext]_workVars => WorkInv'
<1> SUFFICES ASSUME WorkInv, [WorkNext]_workVars PROVE WorkInv'
  OBVIOUS
<1>1. CASE \E name \in {"data", "report", "demo", "attention", "relearn", "clean"} : Command(name)
  BY <1>1, CommandKeeps DEF Commands
<1>2. CASE Finished \/ Killed \/ EditConfig
  BY <1>2, FinishedKeeps, KilledKeeps, EditKeeps
<1>3. CASE \E a \in Actor : LoadCorpus(a) \/ OpenFile(a) \/ FillFile(a)
  BY <1>3, CommandLoads, ConsoleLoads, CommandWrites, ConsoleWrites DEF Actor
<1>4. CASE Reset \/ Unlink
  BY <1>4, ResetKeeps, UnlinkKeeps
<1>5. CASE \E view \in Views : SelectView(view)
  BY <1>5, SelectKeeps
<1>6. CASE Choose \/ Built \/ RunScenarios
  BY <1>6, ChooseKeeps, BuiltKeeps, RunScenariosKeeps
<1>7. CASE ReadFrame \/ ReadDetail \/ ReadScenarios
  BY <1>7, ReadKeeps DEF ReadFrame, ReadDetail, ReadScenarios
<1>8. CASE LoadAttention \/ LoadRelearn \/ OpenEngine
  BY <1>8, ViewSourceKeeps
<1>9. CASE \/ ShowOverview \/ ShowQueue \/ ShowScenarios \/ ShowRelearn \/ ShowLive
           \/ ShowDecision \/ ShowLedger
  BY <1>9, ShowKeeps
<1>10. CASE RestartServer
  BY <1>10, RestartKeeps
<1>11. CASE UNCHANGED workVars
  <2>1. UNCHANGED <<config, disk, job, cache, screen, cut, disturbed>>
    BY <1>11 DEF workVars
  <2>2. WorkTypes' /\ CommandTodo' /\ ConsoleTodo'
    BY <2>1 DEF WorkInv, WorkTypes, CommandTodo, ConsoleTodo
  <2>3. CommandPair' /\ ConsolePair'
    BY <2>1 DEF WorkInv, CommandPair, ConsolePair, Undisturbed, Progress, Active, Breaks,
       Settled, Table, Detail
  <2>4. Overlap' /\ Vouched' /\ OnScreen'
    BY <2>1 DEF WorkInv, Overlap, Vouched, OnScreen, Active
  <2> QED BY <2>2, <2>3, <2>4 DEF WorkInv
<1> QED BY <1>1, <1>2, <1>3, <1>4, <1>5, <1>6, <1>7, <1>8, <1>9, <1>10, <1>11 DEF WorkNext

LEMMA WorkInitHolds == WorkInit => WorkInv
<1> SUFFICES ASSUME WorkInit PROVE WorkInv
  OBVIOUS
<1>1. /\ config = 0 /\ disk = [f \in File |-> Absent] /\ job = [a \in Actor |-> Rest]
      /\ cache = [frame |-> NotRead, detail |-> NotRead, scenarios |-> NotRead,
                  attention |-> NotRead, engine |-> 0]
      /\ screen = <<>> /\ cut = {} /\ disturbed = FALSE
  BY DEF WorkInit, WorkStart
<1>2. job["command"] = Rest /\ job["console"] = Rest
  BY <1>1 DEF Actor
<1>3. WorkTypes
  BY <1>1, RestIsJob DEF WorkTypes, Held
<1>4. /\ Rest.name = "none" /\ Rest.todo = <<>> /\ Rest.mends = {}
      /\ <<>> \in Seq(Later) /\ ~Loads(<<>>)
  BY NotLater DEF Rest
<1>5. CommandTodo /\ CommandPair /\ ConsoleTodo
  BY <1>2, <1>4 DEF CommandTodo, CommandPair, ConsoleTodo, Active
<1>6. ConsolePair
  <2>1. Settled
    BY <1>1, FilesAre DEF Settled, Table, Detail, Absent, Torn
  <2> QED BY <1>2, <1>4, <2>1 DEF ConsolePair, Loads
<1>7. Overlap /\ Vouched /\ OnScreen
  BY <1>1, <1>2 DEF Overlap, Vouched, OnScreen, Active
<1> QED BY <1>3, <1>5, <1>6, <1>7 DEF WorkInv

\* Whatever is killed, edited, cleaned or restarted in between, a console that
\* loaded while nothing was being written, and nothing cut was still to be made
\* good, compares the two files of one run of the report.
THEOREM ConsoleIsOfOneRun == WorkSpec => []ConsoleShowsOneRun
<1>1. WorkInv => ConsoleShowsOneRun
  <2> SUFFICES ASSUME WorkInv, ~disturbed
               PROVE  /\ screen # <<>> /\ screen[1] = "report" => screen[2] = screen[3]
                      /\ Head1("console", "frame") \/ Head1("console", "detail") =>
                           disk[Target("console")] \notin {Absent, Torn}
    BY DEF ConsoleShowsOneRun
  <2>1. screen # <<>> /\ screen[1] = "report" => screen[2] = screen[3]
    BY DEF WorkInv, Vouched, OnScreen
  <2>2. ASSUME NEW what \in {"frame", "detail"}, Head1("console", what)
        PROVE  disk[Target("console")] \notin {Absent, Torn}
    <3> DEFINE q == job["console"].todo
    <3>1. (AtTable(q) \/ AtDetail(q)) /\ ConsoleTodo
      BY <2>2, AtHand, Stage
    <3>2. Target("console") \in {"evaluation.csv", "evaluation.json"}
      BY <3>1, Marks, Parts DEF Target
    <3>3. Loads(q)
      BY <3>1 DEF Loads
    <3>4. cache.scenarios = NotRead /\ Active("console")
      BY <2>2, <3>3, AtHand
    <3>5. ~Active("command") /\ ~Breaks(cut)
      BY <3>4 DEF WorkInv, Vouched, Breaks
    <3>6. Settled /\ Detail # Absent
      BY <3>1, <3>5 DEF WorkInv, ConsolePair
    <3> QED BY <3>2, <3>6 DEF Settled, Table, Detail
  <2> QED BY <2>1, <2>2
<1> QED BY <1>1, WorkInitHolds, WorkStepKeeps, PTL DEF WorkSpec

-----------------------------------------------------------------------------
(* DemoPage.  What a run or a page holds is judged against a ledger l.      *)

PageFields == {"messages", "steps", "cursor", "outcome", "spend", "served", "lam", "session"}

AskId == {<<>>} \cup (Tab \X Nat)
Message == [who : {"user", "bot"}, ask : AskId,
            says : {"prompt", "refusal", "substitute", "nothing", "answer"}]
Outcome == [ask : AskId, verdict : Reviewed \cup Released \cup {"refused"}]
Decision == [ask : AskId, session : Conversation, tier : {NoTier, 1, 2},
             verdict : Reviewed \cup Released]

\* The ledger holds request ask with a verdict that releases its answer.
Let(l, ask) == \E k \in 1..Len(l) : l[k].ask = ask /\ l[k].verdict \in Released

\* finish() would show this outcome without showing what was withheld.
Sound(l, outcome) ==
  outcome \in Outcome /\ (Says(outcome) = "answer" => Let(l, outcome.ask))

\* What may be assigned to a field of the page.
SoundField(l, f, new) ==
  /\ f \in PageFields
  /\ f = "messages" => new.messages = <<>>
  /\ f = "outcome" => Sound(l, new.outcome)
  /\ f = "session" => new.session \in 0..MaxClears

SoundRun(l, b, r) ==
  /\ r.pc = "start" => r.asks \in Prompt
  /\ r.pc \in {"observe", "assess"} =>
       /\ r.asks \in Prompt /\ r.ask \in AskId
       /\ r.session \in Conversation /\ r.session[1] = b
  /\ r.pc = "assign" =>
       /\ DOMAIN r = {"pc", "fields", "new"}
       /\ r.fields \in Seq(PageFields) /\ r.fields # <<>>
       /\ \A i \in 1..Len(r.fields) : SoundField(l, r.fields[i], r.new)

SoundPage(l, p) ==
  /\ DOMAIN p = PageFields
  /\ p.messages \in Seq(Message)
  /\ \A i \in 1..Len(p.messages) : p.messages[i].says = "answer" => Let(l, p.messages[i].ask)
  /\ Sound(l, p.outcome)
  /\ p.session \in 0..MaxClears

Counted ==
  events \in [Tab -> [ask : Nat, clear : 0..MaxClears, touch : Nat, start : Nat]]

DemoInv ==
  /\ DOMAIN page = Tab /\ \A b \in Tab : SoundPage(ledger, page[b])
  /\ DOMAIN run = Tab /\ \A b \in Tab : SoundRun(ledger, b, run[b])
  /\ DOMAIN replaced = Tab /\ \A b \in Tab : SoundRun(ledger, b, replaced[b])
  /\ Counted
  /\ ledger \in Seq(Decision)

\* A run that is somewhere in between has nothing to answer for.
LEMMA AtRest ==
  ASSUME NEW l, NEW b, NEW r, r.pc \in {"idle", "render", "tick", "finish"}
  PROVE  SoundRun(l, b, r)
BY DEF SoundRun

LEMMA NoOutcomeIsSound ==
  ASSUME NEW l PROVE Sound(l, NoOutcome)
BY DEF Sound, Outcome, NoOutcome, Says, AskId, Reviewed, Released

\* What was let through stays so when the ledger grows.
LEMMA LetStays ==
  ASSUME NEW l \in Seq(Decision), NEW d \in Decision
  PROVE  /\ Append(l, d) \in Seq(Decision)
         /\ \A ask : Let(l, ask) => Let(Append(l, d), ask)
         /\ d.verdict \in Released => Let(Append(l, d), d.ask)
<1> DEFINE m == Append(l, d)
<1>1. /\ m \in Seq(Decision) /\ Len(m) = Len(l) + 1 /\ Len(l) \in Nat
      /\ \A k \in 1..Len(l) : m[k] = l[k]
      /\ m[Len(l) + 1] = d
  OBVIOUS
<1>2. \A k \in 1..Len(l) : k \in 1..Len(m)
  BY <1>1
<1>3. Len(l) + 1 \in 1..Len(m)
  BY <1>1
<1> HIDE DEF m
<1>4. \A ask : Let(l, ask) => Let(m, ask)
  BY <1>1, <1>2 DEF Let
<1>5. d.verdict \in Released => Let(m, d.ask)
  BY <1>1, <1>3 DEF Let
<1> QED BY <1>1, <1>4, <1>5 DEF m

\* If what was let through still is, so is what rests on it.
LEMMA SoundStays ==
  ASSUME NEW l, NEW m, \A ask : Let(l, ask) => Let(m, ask)
  PROVE  /\ \A p : SoundPage(l, p) => SoundPage(m, p)
         /\ \A b, r : SoundRun(l, b, r) => SoundRun(m, b, r)
         /\ \A o : Sound(l, o) => Sound(m, o)
<1>1. \A o : Sound(l, o) => Sound(m, o)
  BY DEF Sound
<1>2. \A p : SoundPage(l, p) => SoundPage(m, p)
  BY <1>1 DEF SoundPage
<1>3. \A f, new : SoundField(l, f, new) => SoundField(m, f, new)
  BY <1>1 DEF SoundField
<1>4. \A b, r : SoundRun(l, b, r) => SoundRun(m, b, r)
  BY <1>3 DEF SoundRun
<1> QED BY <1>1, <1>2, <1>4

\* A step of a run, or of a replaced one, that leaves the page alone.
LEMMA RunKeeps ==
  ASSUME DemoInv, NEW b \in Tab, NEW r,
         run' = [run EXCEPT ![b] = r], SoundRun(ledger', b, r),
         page' = page, replaced' = replaced, Counted',
         ledger' \in Seq(Decision), \A ask : Let(ledger, ask) => Let(ledger', ask)
  PROVE  DemoInv'
<1>1. /\ DOMAIN run' = Tab /\ run'[b] = r
      /\ \A c \in Tab : c # b => run'[c] = run[c]
  BY DEF DemoInv
<1>2. /\ \A p : SoundPage(ledger, p) => SoundPage(ledger', p)
      /\ \A c, q : SoundRun(ledger, c, q) => SoundRun(ledger', c, q)
  BY SoundStays
<1> QED BY <1>1, <1>2 DEF DemoInv

LEMMA ReplacedKeeps ==
  ASSUME DemoInv, NEW b \in Tab, NEW r,
         replaced' = [replaced EXCEPT ![b] = r], SoundRun(ledger', b, r),
         page' = page, run' = run, Counted',
         ledger' \in Seq(Decision), \A ask : Let(ledger, ask) => Let(ledger', ask)
  PROVE  DemoInv'
<1>1. /\ DOMAIN replaced' = Tab /\ replaced'[b] = r
      /\ \A c \in Tab : c # b => replaced'[c] = replaced[c]
  BY DEF DemoInv
<1>2. /\ \A p : SoundPage(ledger, p) => SoundPage(ledger', p)
      /\ \A c, q : SoundRun(ledger, c, q) => SoundRun(ledger', c, q)
  BY SoundStays
<1> QED BY <1>1, <1>2 DEF DemoInv

\* A step of a run that changes the page of its tab.
LEMMA PageKeeps ==
  ASSUME DemoInv, NEW b \in Tab, NEW r, NEW p,
         run' = [run EXCEPT ![b] = r], SoundRun(ledger, b, r),
         page' = [page EXCEPT ![b] = p], SoundPage(ledger, p),
         replaced' = replaced, Counted', ledger' = ledger
  PROVE  DemoInv'
<1>1. /\ DOMAIN run' = Tab /\ run'[b] = r /\ DOMAIN page' = Tab /\ page'[b] = p
      /\ \A c \in Tab : c # b => run'[c] = run[c] /\ page'[c] = page[c]
  BY DEF DemoInv
<1> QED BY <1>1 DEF DemoInv

LEMMA EventKeeps ==
  ASSUME DemoInv, NEW b \in Tab, NEW kind \in {"ask", "clear", "touch"}, NEW event,
         kind = "clear" => events[b].clear < MaxClears, StartRun(b, kind, event)
  PROVE  DemoInv'
<1>1. /\ UNCHANGED <<page, ledger>>
      /\ run' = [run EXCEPT ![b] = NewRun(event)]
      /\ events' = [events EXCEPT ![b][kind] = @ + 1]
      /\ \/ replaced' = [replaced EXCEPT ![b] = run[b]]
         \/ replaced' = [replaced EXCEPT ![b] = NoRun]
  BY DEF StartRun
<1>2. Counted'
  <2>1. events[b] \in [ask : Nat, clear : 0..MaxClears, touch : Nat, start : Nat]
        /\ MaxClears \in Nat
    BY DemoAssumption DEF DemoInv, Counted
  <2>2. [events[b] EXCEPT ![kind] = @ + 1] \in [ask : Nat, clear : 0..MaxClears, touch : Nat, start : Nat]
    BY <2>1
  <2> QED BY <1>1, <2>2 DEF DemoInv, Counted
<1>3. SoundRun(ledger, b, NewRun(event)) /\ SoundRun(ledger, b, NoRun)
      /\ SoundRun(ledger, b, run[b])
  BY AtRest DEF NewRun, NoRun, DemoInv
<1>4. /\ DOMAIN run' = Tab /\ DOMAIN replaced' = Tab
      /\ SoundRun(ledger, b, run'[b]) /\ SoundRun(ledger, b, replaced'[b])
      /\ \A c \in Tab : c # b => run'[c] = run[c] /\ replaced'[c] = replaced[c]
  BY <1>1, <1>3 DEF DemoInv
<1> QED BY <1>1, <1>2, <1>4 DEF DemoInv

LEMMA RenderKeeps ==
  ASSUME DemoInv, NEW b \in Tab, Render(b) PROVE DemoInv'
<1> DEFINE fresh == [page[b] EXCEPT !.messages = <<>>, !.steps = <<>>, !.outcome = NoOutcome,
                               !.cursor = 0, !.session = events[b].clear]
           fields == <<"messages", "steps", "outcome", "cursor", "session">>
<1>1. UNCHANGED <<page, replaced, events, ledger>> /\ Counted'
  BY DEF Render, DemoInv, Counted
<1>2. \A ask : Let(ledger, ask) => Let(ledger', ask)
  BY <1>1
<1>3. CASE run' = [run EXCEPT ![b] = [pc |-> "assign", fields |-> fields, new |-> fresh]]
  <2>1. /\ fresh.messages = <<>> /\ fresh.outcome = NoOutcome
        /\ fresh.session \in 0..MaxClears
    BY DEF DemoInv, SoundPage, PageFields, Counted
  <2>2. fields \in Seq(PageFields) /\ fields # <<>> /\ Len(fields) = 5
    BY DEF PageFields
  <2> HIDE DEF fresh
  <2>3. \A f \in PageFields : SoundField(ledger, f, fresh)
    BY <2>1, NoOutcomeIsSound DEF SoundField
  <2> HIDE DEF fields
  <2>4. SoundRun(ledger, b, [pc |-> "assign", fields |-> fields, new |-> fresh])
    <3>1. \A i \in 1..Len(fields) : fields[i] \in PageFields
      BY <2>2
    <3> QED BY <2>2, <2>3, <3>1 DEF SoundRun
  <2> QED BY <1>1, <1>2, <1>3, <2>4, RunKeeps DEF DemoInv
<1>4. CASE \E r : /\ run' = [run EXCEPT ![b] = r]
                  /\ \/ r.pc \in {"tick", "idle"}
                     \/ r.pc = "start" /\ r.asks \in Prompt
  <2>1. PICK r : /\ run' = [run EXCEPT ![b] = r]
                 /\ \/ r.pc \in {"tick", "idle"}
                    \/ r.pc = "start" /\ r.asks \in Prompt
    BY <1>4
  <2>2. SoundRun(ledger, b, r)
    BY <2>1 DEF SoundRun
  <2> QED BY <1>1, <1>2, <2>1, <2>2, RunKeeps DEF DemoInv
<1>5. \/ run' = [run EXCEPT ![b] = [pc |-> "assign", fields |-> fields, new |-> fresh]]
      \/ \E ask \in Prompt : run' = [run EXCEPT ![b] = [pc |-> "start", asks |-> ask]]
      \/ run' = [run EXCEPT ![b] = [pc |-> "tick"]]
      \/ run' = [run EXCEPT ![b] = NoRun]
  BY DEF Render, Assigning
<1> HIDE DEF fresh, fields
<1>6. \/ run' = [run EXCEPT ![b] = [pc |-> "assign", fields |-> fields, new |-> fresh]]
      \/ \E r : /\ run' = [run EXCEPT ![b] = r]
                /\ \/ r.pc \in {"tick", "idle"}
                   \/ r.pc = "start" /\ r.asks \in Prompt
  <2>1. ASSUME NEW ask \in Prompt
        PROVE  [pc |-> "start", asks |-> ask].pc = "start"
               /\ [pc |-> "start", asks |-> ask].asks \in Prompt
    OBVIOUS
  <2>2. [pc |-> "tick"].pc = "tick" /\ NoRun.pc = "idle"
    BY DEF NoRun
  <2> QED BY <1>5, <2>1, <2>2
<1> QED BY <1>3, <1>4, <1>6

LEMMA StartKeeps ==
  ASSUME DemoInv, NEW b \in Tab, Start(b) PROVE DemoInv'
<1> DEFINE n == events[b].start + 1
           id == <<b, n>>
           said == [who |-> "user", says |-> "prompt", ask |-> id]
           p == [page[b] EXCEPT !.messages = Append(@, said)]
           r == [pc |-> "observe", asks |-> run[b].asks, ask |-> id,
                 lam |-> page[b].lam, session |-> <<b, page[b].session>>]
<1>1. /\ page' = [page EXCEPT ![b] = p] /\ run' = [run EXCEPT ![b] = r]
      /\ events' = [events EXCEPT ![b] = [@ EXCEPT !.start = n]]
      /\ UNCHANGED <<replaced, ledger>> /\ run[b].asks \in Prompt
  BY DEF Start, DemoInv, SoundRun
<1>2. events[b] \in [ask : Nat, clear : 0..MaxClears, touch : Nat, start : Nat]
      /\ n \in Nat /\ page[b].session \in 0..MaxClears
  BY DEF DemoInv, Counted, SoundPage
<1>3. id \in AskId
  BY <1>2 DEF AskId
<1>4. Counted'
  BY <1>1, <1>2 DEF DemoInv, Counted
<1>5. SoundRun(ledger, b, r)
  <2>1. <<b, page[b].session>> \in Conversation /\ <<b, page[b].session>>[1] = b
    BY <1>2 DEF Conversation
  <2> QED BY <1>1, <1>3, <2>1 DEF SoundRun
<1>6. SoundPage(ledger, p)
  <2> DEFINE old == page[b].messages
  <2>1. said \in Message
    BY <1>3 DEF Message
  <2>2. /\ DOMAIN p = PageFields /\ p.messages = Append(old, said)
        /\ p.outcome = page[b].outcome /\ p.session = page[b].session
        /\ SoundPage(ledger, page[b])
    BY DEF DemoInv, SoundPage, PageFields
  <2>3. old \in Seq(Message)
    BY DEF DemoInv, SoundPage
  <2> HIDE DEF p, said, old
  <2>4. /\ Append(old, said) \in Seq(Message)
        /\ \A i \in 1..Len(Append(old, said)) :
             Append(old, said)[i] = said \/ (i \in 1..Len(old) /\ Append(old, said)[i] = old[i])
    BY <2>1, <2>3
  <2>5. said.says # "answer"
    BY DEF said
  <2> QED BY <2>2, <2>4, <2>5 DEF SoundPage, old
<1> HIDE DEF p, r
<1> QED BY <1>1, <1>4, <1>5, <1>6, PageKeeps

\* What start() has to assign once run_pipeline has returned.
LEMMA ReturnedIsSound ==
  ASSUME NEW l, NEW b, NEW cards, NEW outcome, Sound(l, outcome), NEW cost,
         Returned(b, cards, outcome, cost)
  PROVE  \E r : run' = [run EXCEPT ![b] = r] /\ SoundRun(l, b, r)
<1> DEFINE fields == <<"steps", "outcome", "cursor", "spend", "served", "lam">>
           new == [steps |-> cards, outcome |-> outcome, cursor |-> 1,
                   spend |-> page[b].spend + cost, served |-> page[b].served + 1,
                   lam |-> Updated(page[b].lam, page[b].spend + cost, page[b].served + 1)]
<1>1. /\ run' = [run EXCEPT ![b] = [pc |-> "assign", fields |-> fields, new |-> new]]
      /\ new.outcome = outcome
  BY DEF Returned, Assigning
<1>2. /\ fields \in Seq(PageFields) /\ fields # <<>>
      /\ \A i \in 1..Len(fields) : fields[i] \in PageFields \ {"messages", "session"}
  BY DEF PageFields
<1> HIDE DEF fields, new
<1>3. \A i \in 1..Len(fields) : SoundField(l, fields[i], new)
  BY <1>1, <1>2 DEF SoundField
<1>4. SoundRun(l, b, [pc |-> "assign", fields |-> fields, new |-> new])
  BY <1>2, <1>3 DEF SoundRun
<1> QED BY <1>1, <1>4

\* The run that observed what the session's risk is goes on to assess().
LEMMA ObservedIsSound ==
  ASSUME NEW l, NEW b, NEW r, SoundRun(l, b, r), r.pc = "observe"
  PROVE  SoundRun(l, b, Observed(r)) /\ Observed(r).pc = "assess"
BY DEF SoundRun, Observed, Narrates

LEMMA ObserveKeeps ==
  ASSUME DemoInv, NEW b \in Tab, Observe(b) PROVE DemoInv'
<1>1. /\ UNCHANGED <<page, replaced, events, ledger>> /\ run[b].pc = "observe"
      /\ SoundRun(ledger, b, run[b]) /\ Counted'
  BY DEF Observe, DemoInv, Counted
<1>2. \E r : run' = [run EXCEPT ![b] = r] /\ SoundRun(ledger, b, r)
  <2>1. CASE run' = [run EXCEPT ![b] = Observed(run[b])]
    BY <1>1, <2>1, ObservedIsSound
  <2>2. CASE Returned(b, BlockedCards, [ask |-> run[b].ask, verdict |-> "refused"], Cost(NoTier))
    <3>1. Sound(ledger, [ask |-> run[b].ask, verdict |-> "refused"])
      BY <1>1 DEF SoundRun, Sound, Outcome, Says
    <3> QED BY <2>2, <3>1, ReturnedIsSound
  <2> QED BY <2>1, <2>2 DEF Observe
<1> QED BY <1>1, <1>2, RunKeeps DEF DemoInv

LEMMA ReplacedObservesKeeps ==
  ASSUME DemoInv, NEW b \in Tab, ReplacedObserves(b) PROVE DemoInv'
<1>1. /\ UNCHANGED <<page, run, events, ledger>> /\ replaced[b].pc = "observe"
      /\ SoundRun(ledger, b, replaced[b]) /\ Counted'
      /\ SoundRun(ledger, b, NoRun)
  BY AtRest DEF ReplacedObserves, DemoInv, Counted, NoRun
<1>2. \E r : replaced' = [replaced EXCEPT ![b] = r] /\ SoundRun(ledger, b, r)
  BY <1>1, ObservedIsSound DEF ReplacedObserves
<1> QED BY <1>1, <1>2, ReplacedKeeps DEF DemoInv

\* assess() decides with a verdict of its own, and the ledger has it.
LEMMA TraceIsDecision ==
  ASSUME NEW r, r.asks \in Prompt, r.ask \in AskId, r.session \in Conversation
  PROVE  Trace(r) \in Decision /\ Trace(r).ask = r.ask
<1>1. TierAt(r.asks, r.lam, Tightened(risk[r.session])) \in {NoTier, 1, 2}
  BY DEF TierAt
<1>2. \A t \in {NoTier, 1, 2} : Ruling[r.asks][t] \in Reviewed \cup Released
  BY DemoAssumption
<1> QED BY <1>1, <1>2 DEF Trace, Decision

LEMMA AssessKeeps ==
  ASSUME DemoInv, NEW b \in Tab, Assess(b) PROVE DemoInv'
<1> DEFINE d == Trace(run[b])
           o == [ask |-> d.ask, verdict |-> d.verdict]
<1>1. /\ UNCHANGED <<page, replaced, events>> /\ ledger' = Append(ledger, d)
      /\ Returned(b, Cards(run[b].first, d), o, Cost(d.tier))
      /\ SoundRun(ledger, b, run[b]) /\ run[b].pc = "assess" /\ ledger \in Seq(Decision)
  BY DEF Assess, Recorded, DemoInv
<1>2. d \in Decision
  BY <1>1, TraceIsDecision DEF SoundRun
<1> HIDE DEF d
<1>3. /\ ledger' \in Seq(Decision) /\ \A ask : Let(ledger, ask) => Let(ledger', ask)
      /\ d.verdict \in Released => Let(ledger', d.ask)
  BY <1>1, <1>2, LetStays
<1>4. Sound(ledger', o)
  <2>1. o \in Outcome /\ o.ask = d.ask /\ o.verdict = d.verdict
    BY <1>2 DEF Outcome, Decision
  <2>2. Says(o) = "answer" => d.verdict \in Released
    BY <1>2, <2>1 DEF Says, Decision, Reviewed, Released
  <2> QED BY <1>3, <2>1, <2>2 DEF Sound
<1>5. \E r : run' = [run EXCEPT ![b] = r] /\ SoundRun(ledger', b, r)
  <2> HIDE DEF o
  <2> QED BY <1>1, <1>4, ReturnedIsSound
<1>6. Counted'
  BY <1>1 DEF DemoInv, Counted
<1> QED BY <1>1, <1>3, <1>5, <1>6, RunKeeps

LEMMA ReplacedAssessesKeeps ==
  ASSUME DemoInv, NEW b \in Tab, ReplacedAssesses(b) PROVE DemoInv'
<1> DEFINE d == Trace(replaced[b])
<1>1. /\ UNCHANGED <<page, run, events>> /\ ledger' = Append(ledger, d)
      /\ replaced' = [replaced EXCEPT ![b] = NoRun]
      /\ SoundRun(ledger, b, replaced[b]) /\ replaced[b].pc = "assess"
      /\ ledger \in Seq(Decision)
  BY DEF ReplacedAssesses, Recorded, DemoInv
<1>2. d \in Decision
  BY <1>1, TraceIsDecision DEF SoundRun
<1> HIDE DEF d
<1>3. ledger' \in Seq(Decision) /\ \A ask : Let(ledger, ask) => Let(ledger', ask)
  BY <1>1, <1>2, LetStays
<1>4. Counted' /\ SoundRun(ledger', b, NoRun)
  BY <1>1, AtRest DEF DemoInv, Counted, NoRun
<1> QED BY <1>1, <1>3, <1>4, ReplacedKeeps

LEMMA AssessRaisesKeeps ==
  ASSUME DemoInv, NEW b \in Tab, AssessRaises(b) PROVE DemoInv'
<1>1. /\ UNCHANGED <<page, replaced, events, ledger>> /\ Counted'
      /\ run' = [run EXCEPT ![b] = NoRun] /\ SoundRun(ledger, b, NoRun)
  BY AtRest DEF AssessRaises, DemoInv, Counted, NoRun
<1> QED BY <1>1, RunKeeps DEF DemoInv

LEMMA AssignKeeps ==
  ASSUME DemoInv, NEW b \in Tab, Assign(b) PROVE DemoInv'
<1> DEFINE r == run[b]
           f == Head(r.fields)
           p == [page[b] EXCEPT ![f] = r.new[f]]
<1>1. /\ UNCHANGED <<replaced, events, ledger>> /\ Counted' /\ r.pc = "assign"
      /\ page' = [page EXCEPT ![b] = p]
      /\ \/ run' = [run EXCEPT ![b] = NewRun("rerun")]
         \/ /\ Len(r.fields) # 1
            /\ run' = [run EXCEPT ![b] = [r EXCEPT !.fields = Tail(r.fields)]]
      /\ SoundRun(ledger, b, r) /\ SoundPage(ledger, page[b])
  BY DEF Assign, DemoInv, Counted
<1>2. /\ r.fields \in Seq(PageFields) /\ r.fields # <<>>
      /\ \A i \in 1..Len(r.fields) : SoundField(ledger, r.fields[i], r.new)
  BY <1>1 DEF SoundRun
<1> HIDE DEF r
<1>3. SoundField(ledger, f, r.new)
  <2>1. f = r.fields[1] /\ 1 \in 1..Len(r.fields)
    BY <1>2
  <2> QED BY <1>2, <2>1
<1>4. SoundPage(ledger, p)
  <2>1. /\ DOMAIN p = PageFields
        /\ p[f] = r.new[f] /\ \A g \in PageFields : g # f => p[g] = page[b][g]
    BY <1>1, <1>3 DEF SoundPage, SoundField
  <2>2. /\ <<>> \in Seq(Message) /\ Len(<<>>) = 0
    OBVIOUS
  <2> HIDE DEF p, f
  <2>3. p.messages = page[b].messages \/ p.messages = <<>>
    BY <1>3, <2>1 DEF SoundField, PageFields
  <2>4. Sound(ledger, p.outcome)
    BY <1>1, <1>3, <2>1 DEF SoundField, SoundPage, PageFields
  <2>5. p.session \in 0..MaxClears
    BY <1>1, <1>3, <2>1 DEF SoundField, SoundPage, PageFields
  <2>6. /\ p.messages \in Seq(Message)
        /\ \A i \in 1..Len(p.messages) :
             p.messages[i].says = "answer" => Let(ledger, p.messages[i].ask)
    <3>1. CASE p.messages = page[b].messages
      BY <1>1, <3>1 DEF SoundPage
    <3>2. CASE p.messages = <<>>
      BY <2>2, <3>2
    <3> QED BY <2>3, <3>1, <3>2
  <2> QED BY <2>1, <2>4, <2>5, <2>6 DEF SoundPage
<1>5. CASE run' = [run EXCEPT ![b] = NewRun("rerun")]
  <2>1. SoundRun(ledger, b, NewRun("rerun"))
    BY AtRest DEF NewRun
  <2> HIDE DEF p
  <2> QED BY <1>1, <1>4, <1>5, <2>1, PageKeeps
<1>6. CASE /\ Len(r.fields) # 1
           /\ run' = [run EXCEPT ![b] = [r EXCEPT !.fields = Tail(r.fields)]]
  <2> DEFINE t == Tail(r.fields)
             q == [r EXCEPT !.fields = t]
  <2>1. /\ t \in Seq(PageFields) /\ t # <<>>
        /\ \A i \in 1..Len(t) : i + 1 \in 1..Len(r.fields) /\ t[i] = r.fields[i + 1]
    <3> DEFINE s == r.fields
    <3>1. s \in Seq(PageFields) /\ s # <<>> /\ Len(s) # 1
      BY <1>2, <1>6
    <3> HIDE DEF s
    <3>2. /\ Tail(s) \in Seq(PageFields) /\ Len(Tail(s)) = Len(s) - 1 /\ Len(s) \in Nat
          /\ Len(s) # 0 /\ \A i \in 1..Len(Tail(s)) : Tail(s)[i] = s[i + 1]
      BY <3>1
    <3>3. Tail(s) # <<>>
      <4> DEFINE u == Tail(s)
      <4>1. Len(u) = Len(s) - 1 /\ Len(s) \in Nat /\ Len(s) # 1
        BY <3>1, <3>2
      <4> HIDE DEF u
      <4>2. Len(u) # 0 /\ Len(<<>>) = 0
        BY <4>1
      <4>3. CASE u = <<>>
        BY <4>2, <4>3
      <4> QED BY <4>3 DEF u
    <3> QED BY <3>2, <3>3 DEF s
  <2>2. \A i \in 1..Len(t) : SoundField(ledger, t[i], r.new)
    BY <1>2, <2>1
  <2>3. q.pc = r.pc /\ q.new = r.new /\ q.fields = t /\ DOMAIN q = {"pc", "fields", "new"}
    <3>1. DOMAIN r = {"pc", "fields", "new"}
      BY <1>1 DEF SoundRun
    <3> QED BY <3>1
  <2> HIDE DEF t, q
  <2>4. SoundRun(ledger, b, q)
    BY <1>1, <2>1, <2>2, <2>3 DEF SoundRun
  <2> HIDE DEF p
  <2> QED BY <1>1, <1>4, <1>6, <2>4, PageKeeps DEF q, t
<1> QED BY <1>1, <1>5, <1>6

LEMMA TickKeeps ==
  ASSUME DemoInv, NEW b \in Tab, Tick(b) PROVE DemoInv'
<1> DEFINE p == [page[b] EXCEPT !.cursor = @ + 1]
<1>1. /\ UNCHANGED <<replaced, events, ledger>> /\ Counted'
      /\ page' = [page EXCEPT ![b] = p] /\ SoundPage(ledger, page[b])
      /\ \/ run' = [run EXCEPT ![b] = [pc |-> "finish"]]
         \/ run' = [run EXCEPT ![b] = NewRun("rerun")]
  BY DEF Tick, DemoInv, Counted
<1>2. SoundPage(ledger, p)
  BY <1>1 DEF SoundPage, PageFields
<1>3. SoundRun(ledger, b, [pc |-> "finish"]) /\ SoundRun(ledger, b, NewRun("rerun"))
  BY AtRest DEF NewRun
<1> HIDE DEF p
<1> QED BY <1>1, <1>2, <1>3, PageKeeps

LEMMA FinishKeeps ==
  ASSUME DemoInv, NEW b \in Tab, Finish(b) PROVE DemoInv'
<1> DEFINE o == page[b].outcome
           said == [who |-> "bot", says |-> Says(o), ask |-> o.ask]
           old == page[b].messages
           p == [page[b] EXCEPT !.messages = Append(@, said)]
           r == [pc |-> "assign", fields |-> <<"outcome">>, new |-> [outcome |-> NoOutcome]]
<1>1. /\ UNCHANGED <<replaced, events, ledger>> /\ Counted'
      /\ page' = [page EXCEPT ![b] = p] /\ SoundPage(ledger, page[b])
      /\ run' = [run EXCEPT ![b] = r]
  BY DEF Finish, Assigning, DemoInv, Counted
<1>2. said \in Message /\ (said.says = "answer" => Let(ledger, said.ask))
  <2>1. Sound(ledger, o)
    BY <1>1 DEF SoundPage
  <2>2. Says(o) \in {"refusal", "substitute", "nothing", "answer"}
    BY DEF Says
  <2> HIDE DEF o
  <2> QED BY <2>1, <2>2 DEF Message, Sound, Outcome
<1>3. SoundRun(ledger, b, r)
  <2> DEFINE fields == <<"outcome">>
  <2>1. /\ fields \in Seq(PageFields) /\ fields # <<>>
        /\ \A i \in 1..Len(fields) : fields[i] = "outcome"
    BY DEF PageFields
  <2>2. SoundField(ledger, "outcome", [outcome |-> NoOutcome])
    BY NoOutcomeIsSound DEF SoundField, PageFields
  <2>3. r.fields = fields /\ r.new = [outcome |-> NoOutcome] /\ r.pc = "assign"
        /\ DOMAIN r = {"pc", "fields", "new"}
    OBVIOUS
  <2> HIDE DEF fields, r
  <2> QED BY <2>1, <2>2, <2>3 DEF SoundRun
<1>4. SoundPage(ledger, p)
  <2>1. /\ DOMAIN p = PageFields /\ p.messages = Append(old, said)
        /\ p.outcome = page[b].outcome /\ p.session = page[b].session
        /\ old \in Seq(Message)
    BY <1>1 DEF SoundPage, PageFields
  <2> HIDE DEF p, said, old
  <2>2. /\ Append(old, said) \in Seq(Message)
        /\ \A i \in 1..Len(Append(old, said)) :
             Append(old, said)[i] = said \/ (i \in 1..Len(old) /\ Append(old, said)[i] = old[i])
    BY <1>2, <2>1
  <2> QED BY <1>1, <1>2, <2>1, <2>2 DEF SoundPage, old
<1> HIDE DEF p, r
<1> QED BY <1>1, <1>3, <1>4, PageKeeps

LEMMA DemoStepKeeps == DemoInv /\ [DemoNext]_demoVars => DemoInv'
<1> SUFFICES ASSUME DemoInv, [DemoNext]_demoVars PROVE DemoInv'
  OBVIOUS
<1>1. ASSUME NEW b \in Tab, Press(b) \/ ClearPressed(b) \/ Touch(b) PROVE DemoInv'
  <2>1. \/ \E event : StartRun(b, "ask", event) \/ StartRun(b, "touch", event)
        \/ events[b].clear < MaxClears /\ StartRun(b, "clear", "clear")
    BY <1>1 DEF Press, ClearPressed, Touch
  <2> QED BY <2>1, EventKeeps
<1>2. ASSUME NEW b \in Tab, ScriptStep(b) PROVE DemoInv'
  BY <1>2, RenderKeeps, StartKeeps, ObserveKeeps, AssessKeeps, AssignKeeps, TickKeeps, FinishKeeps
     DEF ScriptStep
<1>3. CASE UNCHANGED demoVars
  BY <1>3 DEF demoVars, DemoInv, Counted
<1> QED BY <1>1, <1>2, <1>3, ReplacedObservesKeeps, ReplacedAssessesKeeps, AssessRaisesKeeps
        DEF DemoNext

LEMMA DemoInitHolds == DemoInit => DemoInv
<1> SUFFICES ASSUME DemoInit PROVE DemoInv
  OBVIOUS
<1>1. MaxClears \in Nat
  BY DemoAssumption
<1>2. Counted
  BY <1>1 DEF DemoInit, DemoStart, Counted
<1>3. /\ ledger = <<>> /\ ledger \in Seq(Decision)
      /\ <<>> \in Seq(Message) /\ Len(<<>>) = 0
  BY DEF DemoInit, DemoStart
<1>4. ASSUME NEW b \in Tab PROVE SoundPage(ledger, page[b])
  <2>1. /\ DOMAIN page[b] = PageFields /\ page[b].messages = <<>>
        /\ page[b].outcome = NoOutcome /\ page[b].session = 0
    BY DEF DemoInit, DemoStart, PageFields
  <2> QED BY <1>1, <1>3, <2>1, NoOutcomeIsSound DEF SoundPage
<1>5. ASSUME NEW b \in Tab
      PROVE  SoundRun(ledger, b, run[b]) /\ SoundRun(ledger, b, replaced[b])
  <2>1. run[b].pc = "render" /\ replaced[b].pc = "idle"
    BY DEF DemoInit, DemoStart, NewRun, NoRun
  <2> QED BY <2>1, AtRest
<1>6. DOMAIN page = Tab /\ DOMAIN run = Tab /\ DOMAIN replaced = Tab
  BY DEF DemoInit, DemoStart
<1> QED BY <1>2, <1>3, <1>4, <1>5, <1>6 DEF DemoInv

\* Whatever runs overlap, are replaced half way or fail, the model's words on a
\* screen are those of a request the ledger holds with a verdict that releases
\* them.
THEOREM NothingWithheldIsShown == DemoSpec => []ShownWasReleased
<1>1. DemoInv => ShownWasReleased
  <2> SUFFICES ASSUME DemoInv, NEW b \in Tab, NEW i \in DOMAIN page[b].messages,
                      page[b].messages[i].says = "answer"
               PROVE  \E k \in DOMAIN ledger : /\ ledger[k].ask = page[b].messages[i].ask
                                               /\ ledger[k].verdict \in Released
    BY DEF ShownWasReleased
  <2>1. page[b].messages \in Seq(Message) /\ ledger \in Seq(Decision)
    BY DEF DemoInv, SoundPage
  <2>2. i \in 1..Len(page[b].messages) /\ DOMAIN ledger = 1..Len(ledger)
    BY <2>1
  <2> QED BY <2>2 DEF DemoInv, SoundPage, Let
<1> QED BY <1>1, DemoInitHolds, DemoStepKeeps, PTL DEF DemoSpec

-----------------------------------------------------------------------------
(* The rail.                                                                *)

\* A tab whose user waits has no run that was replaced.
RailInv ==
  /\ DOMAIN risk = Conversation
  /\ \A b \in Patient : replaced[b] = NoRun
  /\ RailMatchesTrace

\* A step that leaves the runs of the patient tabs where they are, or takes them
\* out of assess(), and the risk of their conversations alone.
LEMMA RailSame ==
  ASSUME RailInv, DOMAIN risk' = DOMAIN risk, \A b \in Patient : replaced'[b] = NoRun,
         \A b \in Patient : run'[b].pc = "assess" =>
            run'[b] = run[b] /\ risk'[run[b].session] = risk[run[b].session]
  PROVE  RailInv'
BY DEF RailInv, RailMatchesTrace, Trace

\* A step of one tab that assesses nothing.
LEMMA RailKeeps ==
  ASSUME DemoInv, RailInv, NEW b \in Tab, NEW r, r.pc # "assess",
         run' = [run EXCEPT ![b] = r], risk' = risk, replaced' = replaced
  PROVE  RailInv'
<1>1. run'[b] = r /\ \A c \in Tab : c # b => run'[c] = run[c]
  BY DEF DemoInv
<1> QED BY <1>1, RailSame, DemoAssumption DEF RailInv

\* assess() folds the turn into its own conversation.
LEMMA OthersRisk ==
  ASSUME DemoInv, RailInv, NEW b \in Tab, NEW r, SoundRun(ledger, b, r), r.pc = "assess",
         Recorded(r)
  PROVE  /\ DOMAIN risk' = DOMAIN risk
         /\ \A c \in Tab : c # b /\ run[c].pc = "assess" =>
              risk'[run[c].session] = risk[run[c].session]
<1>1. risk' = [risk EXCEPT ![r.session] = Fold(@, r.asks)]
  BY DEF Recorded
<1>2. ASSUME NEW c \in Tab, c # b, run[c].pc = "assess"
      PROVE  risk'[run[c].session] = risk[run[c].session]
  <2>1. r.session[1] = b /\ run[c].session[1] = c /\ run[c].session \in Conversation
    BY <1>2 DEF DemoInv, SoundRun
  <2>2. r.session # run[c].session
    BY <1>2, <2>1
  <2> QED BY <1>1, <2>1, <2>2 DEF RailInv
<1> QED BY <1>1, <1>2

LEMMA RailEvent ==
  ASSUME DemoInv, RailInv, NEW b \in Tab, NEW kind, NEW event, StartRun(b, kind, event)
  PROVE  RailInv'
<1>1. /\ risk' = risk /\ run' = [run EXCEPT ![b] = NewRun(event)]
      /\ replaced' = [replaced EXCEPT ![b] = IF InPipeline(run[b]) THEN run[b] ELSE NoRun]
      /\ (b \in Patient => run[b] = NoRun)
  BY DEF StartRun
<1>2. ASSUME NEW c \in Patient PROVE replaced'[c] = NoRun
  <2>1. CASE c = b
    <3>1. ~InPipeline(run[b])
      BY <1>1, <2>1 DEF InPipeline, NoRun
    <3> QED BY <1>1, <2>1, <3>1 DEF DemoInv
  <2>2. CASE c # b
    BY <1>1, <2>2, DemoAssumption DEF RailInv
  <2> QED BY <2>1, <2>2
<1>3. NewRun(event).pc = "render"
  BY DEF NewRun
<1>4. run'[b].pc = "render" /\ \A c \in Tab : c # b => run'[c] = run[c]
  BY <1>1, <1>3 DEF DemoInv
<1> QED BY <1>1, <1>2, <1>4, RailSame, DemoAssumption

\* The rail's reading of the session's risk is the one assess() would take now.
LEMMA RailObserves ==
  ASSUME DemoInv, RailInv, NEW b \in Tab, Observe(b) PROVE RailInv'
<1>1. risk' = risk /\ replaced' = replaced
  BY DEF Observe
<1>2. CASE \E f, n : run' = [run EXCEPT ![b] = [pc |-> "assign", fields |-> f, new |-> n]]
  BY <1>1, <1>2, RailKeeps
<1>3. CASE run' = [run EXCEPT ![b] = Observed(run[b])]
  <2>1. /\ run'[b] = Observed(run[b])
        /\ \A c \in Tab : c # b => run'[c] = run[c]
    BY <1>3 DEF DemoInv
  <2>2. run'[b].first = TierAt(run'[b].asks, run'[b].lam, Tightened(risk'[run'[b].session]))
    BY <1>1, <2>1 DEF Observed, Narrates
  <2>3. ASSUME NEW c \in Patient, run'[c].pc = "assess"
        PROVE  run'[c].first = TierAt(run'[c].asks, run'[c].lam, Tightened(risk'[run'[c].session]))
    <3>1. CASE c = b
      BY <2>2, <3>1
    <3>2. CASE c # b
      BY <1>1, <2>1, <2>3, <3>2, DemoAssumption DEF RailInv, RailMatchesTrace, Trace
    <3> QED BY <3>1, <3>2
  <2> QED BY <1>1, <2>3 DEF RailInv, RailMatchesTrace, Trace
<1> QED BY <1>2, <1>3 DEF Observe, Returned, Assigning

LEMMA RailAssesses ==
  ASSUME DemoInv, RailInv, NEW b \in Tab, Assess(b) PROVE RailInv'
<1>1. /\ SoundRun(ledger, b, run[b]) /\ run[b].pc = "assess" /\ Recorded(run[b])
      /\ replaced' = replaced
      /\ \E f, n : run' = [run EXCEPT ![b] = [pc |-> "assign", fields |-> f, new |-> n]]
  BY DEF Assess, Returned, Assigning, DemoInv
<1>2. run'[b].pc = "assign" /\ \A c \in Tab : c # b => run'[c] = run[c]
  BY <1>1 DEF DemoInv
<1>3. /\ DOMAIN risk' = DOMAIN risk
      /\ \A c \in Tab : c # b /\ run[c].pc = "assess" =>
           risk'[run[c].session] = risk[run[c].session]
  BY <1>1, OthersRisk
<1> QED BY <1>1, <1>2, <1>3, RailSame, DemoAssumption DEF RailInv

\* A run that goes on after it was replaced is no patient tab's, and the
\* conversation it folds into is its own tab's.
LEMMA RailReplaced ==
  ASSUME DemoInv, RailInv, NEW b \in Tab, ReplacedObserves(b) \/ ReplacedAssesses(b)
  PROVE  RailInv'
<1>1. run' = run /\ b \notin Patient
  BY DEF ReplacedObserves, ReplacedAssesses, RailInv, NoRun
<1>2. \A c \in Patient : replaced'[c] = NoRun
  <2>1. \E r : replaced' = [replaced EXCEPT ![b] = r]
    BY DEF ReplacedObserves, ReplacedAssesses
  <2>2. \A c \in Tab : c # b => replaced'[c] = replaced[c]
    BY <2>1 DEF DemoInv
  <2> QED BY <1>1, <2>2, DemoAssumption DEF RailInv
<1>3. CASE ReplacedObserves(b)
  BY <1>1, <1>2, <1>3, RailSame DEF ReplacedObserves
<1>4. CASE ReplacedAssesses(b)
  <2>1. SoundRun(ledger, b, replaced[b]) /\ replaced[b].pc = "assess" /\ Recorded(replaced[b])
    BY <1>4 DEF ReplacedAssesses, DemoInv
  <2>2. /\ DOMAIN risk' = DOMAIN risk
        /\ \A c \in Tab : c # b /\ run[c].pc = "assess" =>
             risk'[run[c].session] = risk[run[c].session]
    BY <2>1, OthersRisk
  <2> QED BY <1>1, <1>2, <2>2, RailSame, DemoAssumption
<1> QED BY <1>3, <1>4

LEMMA RailStep ==
  ASSUME DemoInv, RailInv, NEW b \in Tab, Render(b) \/ Start(b) \/ Assign(b) \/ Tick(b)
         \/ Finish(b) \/ AssessRaises(b)
  PROVE  RailInv'
<1>1. risk' = risk /\ replaced' = replaced
  BY DEF Render, Start, Assign, Tick, Finish, AssessRaises
<1>2. CASE Render(b)
  <2>1. \/ \E f, n : run' = [run EXCEPT ![b] = [pc |-> "assign", fields |-> f, new |-> n]]
        \/ \E ask : run' = [run EXCEPT ![b] = [pc |-> "start", asks |-> ask]]
        \/ run' = [run EXCEPT ![b] = [pc |-> "tick"]]
        \/ run' = [run EXCEPT ![b] = NoRun]
    BY <1>2 DEF Render, Assigning
  <2> QED BY <1>1, <2>1, RailKeeps DEF NoRun
<1>3. CASE Start(b)
  <2>1. \E a, i, l, s : run' = [run EXCEPT ![b] =
                          [pc |-> "observe", asks |-> a, ask |-> i, lam |-> l, session |-> s]]
    BY <1>3 DEF Start
  <2> QED BY <1>1, <2>1, RailKeeps
<1>4. CASE Assign(b)
  <2>1. \/ run' = [run EXCEPT ![b] = NewRun("rerun")]
        \/ run' = [run EXCEPT ![b] = [run[b] EXCEPT !.fields = Tail(@)]]
    BY <1>4 DEF Assign, DemoInv
  <2>2. run[b].pc = "assign" /\ DOMAIN run[b] = {"pc", "fields", "new"}
    BY <1>4 DEF Assign, DemoInv, SoundRun
  <2>3. [run[b] EXCEPT !.fields = Tail(@)].pc # "assess"
    BY <2>2
  <2>4. NewRun("rerun").pc # "assess"
    BY DEF NewRun
  <2> QED BY <1>1, <2>1, <2>3, <2>4, RailKeeps
<1>5. CASE Tick(b)
  <2>1. \/ run' = [run EXCEPT ![b] = NewRun("rerun")]
        \/ run' = [run EXCEPT ![b] = [pc |-> "finish"]]
    BY <1>5 DEF Tick
  <2> QED BY <1>1, <2>1, RailKeeps DEF NewRun
<1>6. CASE Finish(b)
  <2>1. \E f, n : run' = [run EXCEPT ![b] = [pc |-> "assign", fields |-> f, new |-> n]]
    BY <1>6 DEF Finish, Assigning
  <2> QED BY <1>1, <2>1, RailKeeps
<1>7. CASE AssessRaises(b)
  <2>1. run' = [run EXCEPT ![b] = NoRun]
    BY <1>7 DEF AssessRaises
  <2> QED BY <1>1, <2>1, RailKeeps DEF NoRun
<1> QED BY <1>2, <1>3, <1>4, <1>5, <1>6, <1>7

\* In a tab whose user waits, the tier the rail is about to narrate is the tier
\* assess() takes, whatever other tabs assess, and whatever runs go on there
\* after they were replaced.
THEOREM RailTellsTheTruth == DemoSpec => []RailMatchesTrace
<1>1. DemoInit => RailInv
  <2>1. DemoInit => /\ DOMAIN risk = Conversation
                    /\ \A b \in Tab : replaced[b] = NoRun /\ run[b].pc = "render"
    BY DEF DemoInit, DemoStart, NewRun
  <2> QED BY <2>1, DemoAssumption DEF RailInv, RailMatchesTrace
<1>2. DemoInv /\ RailInv /\ [DemoNext]_demoVars => RailInv'
  <2> SUFFICES ASSUME DemoInv, RailInv, [DemoNext]_demoVars PROVE RailInv'
    OBVIOUS
  <2>1. ASSUME NEW b \in Tab, Press(b) \/ ClearPressed(b) \/ Touch(b) PROVE RailInv'
    BY <2>1, RailEvent DEF Press, ClearPressed, Touch
  <2>2. ASSUME NEW b \in Tab, ScriptStep(b) PROVE RailInv'
    BY <2>2, RailStep, RailObserves, RailAssesses DEF ScriptStep
  <2>3. CASE UNCHANGED demoVars
    BY <2>3 DEF demoVars, RailInv, RailMatchesTrace, Trace
  <2> QED BY <2>1, <2>2, <2>3, RailStep, RailReplaced DEF DemoNext
<1>3. RailInv => RailMatchesTrace
  BY DEF RailInv
<1> QED BY <1>1, <1>2, <1>3, DemoInitHolds, DemoStepKeeps, PTL DEF DemoSpec
=============================================================================
