------------------------------ MODULE MCConsole ------------------------------
(* What a developer runs beside the gateway: the prototype page, the files   *)
(* the commands and the console share, the policy packs, the corpora on disk. *)
(* The four share no state here, so a behaviour is one of one of them; which  *)
(* bounds it has used up when it begins says how much of what it has left.    *)
EXTENDS DemoPage, PolicyPacks, CorpusCache, Workspace, TLC

VARIABLE part

Left(a, c, t) ==
  [ask |-> MaxAsks - a, clear |-> MaxClears - c, touch |-> MaxTouches - t, start |-> 0]

\* The patient tab with two prompts, the hasty one with two or with a touch and a
\* clear about one, and both at once with one.
DemoUsed ==
  {("patient" :> Left(2, 1, 0)) @@ ("hasty" :> Left(0, 0, 0)),
   ("patient" :> Left(0, 0, 0)) @@ ("hasty" :> Left(2, 1, 0)),
   ("patient" :> Left(0, 0, 0)) @@ ("hasty" :> Left(1, 1, 1)),
   ("patient" :> Left(1, 0, 0)) @@ ("hasty" :> Left(1, 0, 0))}

\* Two commands, a kill and a view, or one command and two views.
WorkUsed ==
  {[commands |-> 0, kills |-> 0, views |-> MaxViews - 1],
   [commands |-> MaxCommands - 1, kills |-> MaxKills, views |-> 0]}

NoDemo == [b \in Tab |-> Left(0, 0, 0)]
NoWork == [commands |-> MaxCommands, kills |-> MaxKills, views |-> MaxViews]

\* Nobody looks at the files any more, or what the last look sees is of no account.
Over == spent.views = MaxViews /\ (~Active("console") \/ disturbed)

Init ==
  /\ PacksInit /\ CacheInit
  /\ \/ part = "page" /\ WorkStart(NoWork) /\ \E used \in DemoUsed : DemoStart(used)
     \/ part = "workspace" /\ DemoStart(NoDemo) /\ \E used \in WorkUsed : WorkStart(used)
     \/ part \in {"packs", "corpora"} /\ DemoStart(NoDemo) /\ WorkStart(NoWork)

Next ==
  /\ UNCHANGED part
  /\ \/ part = "page" /\ DemoNext /\ UNCHANGED <<packVars, cacheVars, workVars>>
     \/ part = "packs" /\ PacksNext /\ UNCHANGED <<demoVars, cacheVars, workVars>>
     \/ part = "corpora" /\ CacheNext /\ UNCHANGED <<demoVars, packVars, workVars>>
     \/ /\ part = "workspace" /\ ~Over /\ WorkNext
        /\ UNCHANGED <<demoVars, packVars, cacheVars>>

Spec ==
  /\ Init /\ [][Next]_<<part, demoVars, packVars, cacheVars, workVars>>
  /\ part = "page" => DemoFairness

\* Three prompts: an attack that preflight stops, a question nothing supports,
\* and a leak that only a judge sees.  A turn tightens the threshold by 20.
MCPeak == ("attack" :> 90) @@ ("vague" :> 60) @@ ("leak" :> 35)
MCJudgePrice == ("attack" :> -1) @@ ("vague" :> -1) @@ ("leak" :> 1)
MCRuling ==
  [p \in Prompt |-> [k \in {NoTier, 1, 2} |->
     IF p = "vague" THEN "abstain" ELSE IF k = 2 THEN "block" ELSE "allow"]]
MCFold(r, p) == Min({RiskMax, r + 20})
MCTierCost == (1 :> 1) @@ (2 :> 4)
=============================================================================
