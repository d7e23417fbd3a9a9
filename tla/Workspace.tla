------------------------------ MODULE Workspace ------------------------------
(***************************************************************************)
(* The files the commands of controlplane.cli leave in the repository, and *)
(* the assurance console (console/streamlit_app.py), which reads them once *)
(* and keeps what it read.  A command may be killed between any two steps, *)
(* and a file that is being written is half a file to everyone else.       *)
(*                                                                         *)
(* What a file holds is the version of config/ it was computed from: the   *)
(* corpus is seeded, and all else is a function of the two.  Short is      *)
(* what is computed from half a file that happens to parse.                *)
(***************************************************************************)
EXTENDS Integers, Sequences, SequencesExt

CONSTANTS MaxEdits, MaxCommands, MaxKills, MaxViews

\* Only the files that somebody here reads back: each writer goes on to others,
\* the splits of the corpus, the texts of a report, results.json, attention.md.
CorpusFiles == <<"interactions.jsonl">>
ReportFiles == <<"evaluation.csv", "evaluation.json">>
AttentionFiles == <<"attention.json">>
RelearnFiles == <<"relearn.json">>
\* Faulty variant: clean was not told of evaluation.json.
CleanFilesButDetail ==
  CorpusFiles \o <<"audit.db", "evaluation.csv", "scenarios.json">>

\* _clean_generated_files, in the order of its list
CleanFiles == CorpusFiles \o <<"audit.db">> \o ReportFiles \o <<"scenarios.json">>
File == ToSet(CorpusFiles \o ReportFiles \o AttentionFiles \o RelearnFiles) \cup {"scenarios.json"}
Views == {"Overview", "Queue", "Relearn", "Scenarios", "Lab", "Ledger", "Live"}

Absent == -1
Torn == -2
Short == -3
NotRead == -4      \* not in the console's cache

VARIABLES
  config,    \* version of config/
  disk,      \* per file, what it holds: a version or one of the four below
  chain,     \* the inode data/audit.db names, 0 for none
  inodes,    \* how many it has had
  job,       \* what the running command and the console's script have to do
  cache,     \* what the console keeps for as long as its server runs
  screen,    \* what the console shows
  spent,     \* commands, kills and views so far
  cut,       \* history: commands that were killed, or overlapped the console, and
             \* have not been made good
  disturbed, \* history: was a command writing, or cut, while the console loaded?
  cleaned    \* history: has clean run since the console opened audit.db?

workVars == <<config, disk, chain, inodes, job, cache, screen, spent, cut, disturbed, cleaned>>

Actor == {"command", "console"}
Rest == [name |-> "none", todo |-> <<>>, open |-> FALSE, version |-> 0, mends |-> {}]

\* used: what a checked instance has used up of its bounds.
WorkStart(used) ==
  /\ config = 0
  /\ disk = [f \in File |-> Absent]
  /\ chain = 0 /\ inodes = 0
  /\ job = [a \in Actor |-> Rest]
  /\ cache = [frame |-> NotRead, detail |-> NotRead, scenarios |-> NotRead,
              attention |-> NotRead, engine |-> 0]
  /\ screen = <<>>
  /\ spent = used
  /\ cut = {} /\ disturbed = FALSE /\ cleaned = FALSE

WorkInit == WorkStart([commands |-> 0, kills |-> 0, views |-> 0])

Do(what, file) == [do |-> what, file |-> file]
Each(what, files) == [i \in DOMAIN files |-> Do(what, files[i])]
Corpus == Do("load", "interactions.jsonl")

Active(a) == job[a] # Rest
Head1(a, what) == job[a].todo # <<>> /\ Head(job[a].todo).do = what
Target(a) == Head(job[a].todo).file
Then(a, more) == job' = [job EXCEPT ![a].todo = more \o Tail(@), ![a].open = FALSE]
Raises(a) == job' = [job EXCEPT ![a] = Rest]

-----------------------------------------------------------------------------
(* The commands.                                                           *)

\* write_corpus
WriteCorpus == Each("write", CorpusFiles)

\* build_report: everything is computed first, and then written in this order.
BuildReport == Each("write", ReportFiles)

\* main(): what a command does.  A report resets a ledger of its own, from which
\* a relearn refits (without one it returns at once, as if never run); a demo
\* empties data/audit.db, which run_scenarios then appends to.
Tasks(name) ==
  CASE name = "data" -> WriteCorpus
    [] name = "report" -> <<Corpus>> \o BuildReport
    [] name = "demo" -> <<Corpus>> \o BuildReport
                          \o <<Do("reset", "audit.db"), Do("write", "scenarios.json")>>
    [] name = "attention" -> <<Corpus>> \o Each("write", AttentionFiles)
    [] name = "relearn" -> Each("write", RelearnFiles)
    [] name = "clean" -> Each("unlink", CleanFiles)

\* What a command that runs to its end alone makes good of what was cut before;
\* a view that opens meanwhile takes that from it.
Mends(name) ==
  IF Active("console") THEN {} ELSE
  cut \cap CASE name = "clean" -> {"data", "report", "demo", "clean", "overlap"}
             [] name \in {"report", "demo"} -> {"report", "demo", "clean", "overlap"}
             [] OTHER -> {name}

Command(name) ==
  /\ ~Active("command") /\ spent.commands < MaxCommands
  /\ job' = [job EXCEPT !["command"] =
       [name |-> name, todo |-> Tasks(name), open |-> FALSE, version |-> config,
        mends |-> Mends(name)]]
  /\ spent' = [spent EXCEPT !.commands = @ + 1]
  /\ disturbed' = (disturbed \/ Active("console"))
  /\ cut' = IF Active("console") THEN cut \cup {"overlap"} ELSE cut
  /\ UNCHANGED <<config, disk, chain, inodes, cache, screen, cleaned>>

Finished ==
  /\ Active("command") /\ job["command"].todo = <<>>
  /\ job' = [job EXCEPT !["command"] = Rest]
  /\ cut' = cut \ job["command"].mends
  /\ UNCHANGED <<config, disk, chain, inodes, cache, screen, spent, disturbed, cleaned>>

Killed ==
  /\ Active("command") /\ spent.kills < MaxKills
  /\ job' = [job EXCEPT !["command"] = Rest]
  /\ spent' = [spent EXCEPT !.kills = @ + 1]
  /\ cut' = cut \cup {job["command"].name}
  /\ UNCHANGED <<config, disk, chain, inodes, cache, screen, disturbed, cleaned>>

\* Somebody edits economics.yaml or a policy pack; an edit while something runs
\* is as good as one after it, for a version is read once, at the start.
EditConfig ==
  /\ config < MaxEdits /\ \A a \in Actor : ~Active(a)
  /\ config' = config + 1
  /\ UNCHANGED <<disk, chain, inodes, job, cache, screen, spent, cut, disturbed, cleaned>>

-----------------------------------------------------------------------------
(* What both the commands and the console do.                              *)

\* ensure_corpus: an interactions.jsonl that is there is taken, half of one too,
\* which raises unless what there is of it parses.  One is written if none is.
LoadCorpus(a) ==
  /\ Head1(a, "load")
  /\ LET held == disk["interactions.jsonl"] IN
     \/ held = Absent /\ Then(a, WriteCorpus)
     \/ held = Torn /\ Raises(a)
     \/ held = Torn /\ job' = [job EXCEPT ![a].todo = Tail(@), ![a].version = Short]
     \/ held \notin {Absent, Torn} /\ Then(a, <<>>)
  /\ UNCHANGED <<config, disk, chain, inodes, cache, screen, spent, cut, disturbed, cleaned>>

\* path.write_text: opened, the file is empty.
OpenFile(a) ==
  /\ Head1(a, "write") /\ ~job[a].open
  /\ disk' = [disk EXCEPT ![Target(a)] = Torn]
  /\ job' = [job EXCEPT ![a].open = TRUE]
  /\ UNCHANGED <<config, chain, inodes, cache, screen, spent, cut, disturbed, cleaned>>

FillFile(a) ==
  /\ Head1(a, "write") /\ job[a].open
  /\ disk' = [disk EXCEPT ![Target(a)] =
       IF Target(a) \in ToSet(CorpusFiles) THEN 0 ELSE job[a].version]
  /\ Then(a, <<>>)
  /\ UNCHANGED <<config, chain, inodes, cache, screen, spent, cut, disturbed, cleaned>>

\* LedgerStore(path): sqlite creates the file if there is none.
OpenChain ==
  IF chain = 0 THEN chain' = inodes + 1 /\ inodes' = inodes + 1
  ELSE UNCHANGED <<chain, inodes>>

\* Faulty variant: the chain is emptied by deleting its file.
ResetByDelete ==
  /\ Head1("command", "reset")
  /\ chain' = inodes + 1 /\ inodes' = inodes + 1
  /\ Then("command", <<>>)
  /\ UNCHANGED <<config, disk, cache, screen, spent, cut, disturbed, cleaned>>

\* engine.ledger.reset(): the rows go, the file stays.
Reset ==
  /\ Head1("command", "reset")
  /\ OpenChain
  /\ Then("command", <<>>)
  /\ UNCHANGED <<config, disk, cache, screen, spent, cut, disturbed, cleaned>>

\* _clean_generated_files, one path at a time.
Unlink ==
  /\ Head1("command", "unlink")
  /\ IF Target("command") = "audit.db"
     THEN chain' = 0 /\ cleaned' = TRUE /\ UNCHANGED disk
     ELSE disk' = [disk EXCEPT ![Target("command")] = Absent]
            /\ UNCHANGED <<chain, cleaned>>
  /\ Then("command", <<>>)
  /\ UNCHANGED <<config, inodes, cache, screen, spent, cut, disturbed>>

-----------------------------------------------------------------------------
(* The console.                                                            *)

\* load_artifacts, which st.cache_data runs until it has once not raised.
LoadArtifacts ==
  IF cache.scenarios # NotRead THEN <<>>
  ELSE <<Corpus, Do("choose", "evaluation.json"), Do("scenarios", "scenarios.json")>>

\* Every view but the live one needs the artifacts before its own sources:
\* load_attention and assessment_engine are cached too, load_relearn is not.
SelectView(view) ==
  /\ ~Active("console") /\ spent.views < MaxViews
  /\ job' = [job EXCEPT !["command"].mends = {}, !["console"] =
       [name |-> view, open |-> FALSE, version |-> config, mends |-> {},
        todo |-> (IF view = "Live" THEN <<>> ELSE LoadArtifacts)
                 \o (IF view = "Queue" /\ cache.attention = NotRead
                     THEN <<Do("attention", "attention.json")>> ELSE <<>>)
                 \o (IF view = "Relearn" THEN <<Do("relearn", "relearn.json")>> ELSE <<>>)
                 \o (IF view = "Lab" /\ cache.engine = 0
                     THEN <<Corpus, Do("engine", "audit.db")>> ELSE <<>>)]]
  /\ spent' = [spent EXCEPT !.views = @ + 1]
  /\ disturbed' = IF cache.scenarios = NotRead THEN Active("command") \/ cut # {}
                  ELSE disturbed
  /\ cut' = IF Active("command") THEN cut \cup {"overlap"} ELSE cut
  /\ UNCHANGED <<config, disk, chain, inodes, cache, screen, cleaned>>

\* The two files of a report are read if evaluation.json exists, and built if not.
Choose ==
  /\ Head1("console", "choose")
  /\ Then("console", IF disk["evaluation.json"] # Absent
                     THEN <<Do("frame", "evaluation.csv"), Do("detail", "evaluation.json")>>
                     ELSE BuildReport \o <<Do("built", "evaluation.json")>>)
  /\ UNCHANGED <<config, disk, chain, inodes, cache, screen, spent, cut, disturbed, cleaned>>

\* A file read whole; half of one raises, unless it is a table, which is short.
ReadInto(what, field) ==
  /\ Head1("console", what)
  /\ LET held == disk[Target("console")] IN
     \/ held \in {Absent, Torn} /\ Raises("console") /\ UNCHANGED cache
     \/ /\ held # Absent /\ (held = Torn => what = "frame")
        /\ cache' = [cache EXCEPT ![field] = IF held = Torn THEN Short ELSE held]
        /\ Then("console", <<>>)
  /\ UNCHANGED <<config, disk, chain, inodes, screen, spent, cut, disturbed, cleaned>>

ReadFrame == ReadInto("frame", "frame")
ReadDetail == ReadInto("detail", "detail")

\* frame, detail = build_report(ROOT, interactions)
Built ==
  /\ Head1("console", "built")
  /\ cache' = [cache EXCEPT !.frame = job["console"].version, !.detail = job["console"].version]
  /\ Then("console", <<>>)
  /\ UNCHANGED <<config, disk, chain, inodes, screen, spent, cut, disturbed, cleaned>>

\* The scenarios another command left, or run_scenarios on the frame at hand.
ReadScenarios ==
  /\ disk["scenarios.json"] # Absent
  /\ ReadInto("scenarios", "scenarios")

RunScenarios ==
  /\ Head1("console", "scenarios") /\ disk["scenarios.json"] = Absent
  /\ cache' = [cache EXCEPT !.scenarios = job["console"].version]
  /\ Then("console", <<Do("write", "scenarios.json")>>)
  /\ UNCHANGED <<config, disk, chain, inodes, screen, spent, cut, disturbed, cleaned>>

\* load_attention: no file is remembered as no comparison.
LoadAttention ==
  \/ /\ disk["attention.json"] # Absent
     /\ ReadInto("attention", "attention")
  \/ /\ Head1("console", "attention") /\ disk["attention.json"] = Absent
     /\ cache' = [cache EXCEPT !.attention = Absent]
     /\ Then("console", <<>>)
     /\ UNCHANGED <<config, disk, chain, inodes, screen, spent, cut, disturbed, cleaned>>

\* load_relearn
LoadRelearn ==
  /\ Head1("console", "relearn")
  /\ IF disk["relearn.json"] = Torn THEN Raises("console")
     ELSE job' = [job EXCEPT !["console"].todo = Tail(@),
                             !["console"].version = disk["relearn.json"]]
  /\ UNCHANGED <<config, disk, chain, inodes, cache, screen, spent, cut, disturbed, cleaned>>

\* assessment_engine: it opens data/audit.db and holds it open.
OpenEngine ==
  /\ Head1("console", "engine")
  /\ OpenChain
  /\ cache' = [cache EXCEPT !.engine = chain']
  /\ cleaned' = FALSE
  /\ Then("console", <<>>)
  /\ UNCHANGED <<config, disk, screen, spent, cut, disturbed>>

\* The body of a view, once its sources are there.
Shows(view, what) ==
  /\ job["console"].name = view /\ job["console"].todo = <<>>
  /\ screen' = what
  /\ job' = [job EXCEPT !["console"] = Rest]
  /\ UNCHANGED <<config, disk, cache, spent, cut, disturbed, cleaned>>

ShowOverview ==
  Shows("Overview", <<"report", cache.frame, cache.detail>>) /\ UNCHANGED <<chain, inodes>>
ShowQueue ==
  Shows("Queue", <<"attention", cache.attention>>) /\ UNCHANGED <<chain, inodes>>
ShowScenarios ==
  Shows("Scenarios", <<"scenarios", cache.scenarios>>) /\ UNCHANGED <<chain, inodes>>
ShowRelearn ==
  Shows("Relearn", <<"relearn", job["console"].version>>) /\ UNCHANGED <<chain, inodes>>
ShowLive == Shows("Live", <<"live">>) /\ UNCHANGED <<chain, inodes>>

\* The decision is recorded through the engine's handle.
ShowDecision ==
  Shows("Lab", <<"recorded", cache.engine>>) /\ UNCHANGED <<chain, inodes>>

\* The ledger view opens the path anew.
ShowLedger == OpenChain /\ Shows("Ledger", <<"chain", chain'>>)

\* The server is stopped, in the middle of a report it builds perhaps, and
\* started again.
RestartServer ==
  /\ spent.kills < MaxKills
  /\ spent' = [spent EXCEPT !.kills = @ + 1]
  /\ job' = [job EXCEPT !["console"] = Rest]
  /\ cut' = IF \E i \in DOMAIN job["console"].todo : job["console"].todo[i].do = "write"
            THEN cut \cup {"report"} ELSE cut
  /\ cache' = [frame |-> NotRead, detail |-> NotRead, scenarios |-> NotRead,
               attention |-> NotRead, engine |-> 0]
  /\ screen' = <<>>
  /\ UNCHANGED <<config, disk, chain, inodes, disturbed, cleaned>>

WorkNext ==
  \/ \E name \in {"data", "report", "demo", "attention", "relearn", "clean"} : Command(name)
  \/ Finished \/ Killed \/ EditConfig
  \/ \E a \in Actor : LoadCorpus(a) \/ OpenFile(a) \/ FillFile(a)
  \/ Reset \/ Unlink
  \/ \E view \in Views : SelectView(view)
  \/ Choose \/ ReadFrame \/ ReadDetail \/ Built
  \/ ReadScenarios \/ RunScenarios \/ LoadAttention \/ LoadRelearn \/ OpenEngine
  \/ ShowOverview \/ ShowQueue \/ ShowScenarios \/ ShowRelearn \/ ShowLive
  \/ ShowDecision \/ ShowLedger
  \/ RestartServer

WorkSpec == WorkInit /\ [][WorkNext]_workVars

-----------------------------------------------------------------------------
(* Properties.                                                             *)

\* load_artifacts takes the table of a report and its detail from two files
\* that the first one's existence vouches for.  If no command was writing while
\* it did, and every command that was killed has been made good by a later one,
\* both are there, whole, and of one run: what the overview compares belongs
\* together.
ConsoleShowsOneRun ==
  ~disturbed =>
    /\ screen # <<>> /\ screen[1] = "report" => screen[2] = screen[3]
    /\ Head1("console", "frame") \/ Head1("console", "detail") =>
         disk[Target("console")] \notin {Absent, Torn}

\* The ledger view: "Run a Decision lab check or `make demo` to append audit
\* records".  The lab's engine holds its file open for as long as the server
\* runs, and still appends to the file the ledger view opens, demo runs that
\* empty the chain in between included; only a clean takes the file from it.
LabReachesChain == cache.engine # 0 /\ ~cleaned => cache.engine = chain
=============================================================================
