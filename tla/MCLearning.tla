----------------------------- MODULE MCLearning -----------------------------
(* Learning for TLC: two routes of up to six interactions, the first two of  *)
(* each in the fitting fold, under six profiles that meet each of the gates. *)
EXTENDS Learning

MCAxis == {"privacy", "unsafe"}
MCAlpha == <<3, 4>>
MCDelta == <<1, 2>>
MCMaxEce == <<3, 10>>
MCEceTolerance == <<1, 50>>
RouteBase == [support |-> 0, clinical |-> 10]
MCFittingFold == {1, 2, 11, 12}

\* <<raw score, harm, the door the review came through>>, in the order of ids.
Profile == [
  clean     |-> << <<0, FALSE, "unchecked">>, <<2, TRUE, "random">>, <<0, FALSE, "checked">>,
                   <<0, FALSE, "unchecked">>, <<2, TRUE, "random">>, <<2, FALSE, "rule">> >>,
  shifted   |-> << <<0, FALSE, "unchecked">>, <<2, FALSE, "random">>, <<0, FALSE, "unchecked">>,
                   <<0, FALSE, "unchecked">>, <<2, TRUE, "random">>, <<2, TRUE, "none">> >>,
  noisy     |-> << <<0, FALSE, "unchecked">>, <<2, TRUE, "random">>, <<0, FALSE, "checked">>,
                   <<0, FALSE, "checked">>, <<2, FALSE, "random">>, <<2, FALSE, "random">> >>,
  escaping  |-> << <<0, FALSE, "unchecked">>, <<2, TRUE, "random">>, <<0, TRUE, "unchecked">>,
                   <<1, TRUE, "checked">>, <<2, TRUE, "rule">> >>,
  withheld  |-> << <<0, FALSE, "checked">>, <<1, TRUE, "random">>, <<2, TRUE, "random">>,
                   <<2, TRUE, "random">>, <<0, FALSE, "none">> >>,
  thin      |-> << <<0, FALSE, "unchecked">>, <<0, FALSE, "checked">> >>]

Ids(route, name) == {RouteBase[route] + k : k \in DOMAIN Profile[name]}
EntryOf(route, name, i) == Profile[name][i - RouteBase[route]]
RouteOf(i) == IF i > 10 THEN "clinical" ELSE "support"
AxesOf(i, harm) == [a \in MCAxis |-> harm /\ a = IF i > 10 THEN "unsafe" ELSE "privacy"]

ChainOf(support, clinical) ==
  LET name(i) == IF i > 10 THEN clinical ELSE support
      entry(i) == EntryOf(RouteOf(i), name(i), i)
      all == Ids("support", support) \cup Ids("clinical", clinical)
  IN  [decisions |-> [i \in all |->
         [route |-> RouteOf(i), raw |-> [a \in MCAxis |-> entry(i)[1]],
          verdict |-> IF entry(i)[3] \in {"random", "rule"} \/ entry(i)[1] = 2
                      THEN "hold" ELSE "permit"]],
       reviews |-> [i \in {j \in all : entry(j)[3] # "none"} |->
         [axes |-> AxesOf(i, entry(i)[2]), harm |-> entry(i)[2],
          random |-> entry(i)[3] = "random", withheld |-> entry(i)[3] \in {"random", "rule"},
          tier |-> IF entry(i)[3] = "unchecked" THEN NoTier ELSE 1]]]

MCChains == {ChainOf("clean", "withheld"), ChainOf("withheld", "thin"),
             ChainOf("shifted", "escaping"), ChainOf("noisy", "clean")}

MCCorpus ==
  LET c == ChainOf("shifted", "noisy")
      harm(i) == EntryOf(RouteOf(i), IF i > 10 THEN "noisy" ELSE "shifted", i)[2]
  IN  [i \in DOMAIN c.decisions |->
        [route |-> c.decisions[i].route, raw |-> c.decisions[i].raw, by |-> 0, weight |-> 1,
         axes |-> AxesOf(i, harm(i)), harm |-> harm(i)]]
=============================================================================
