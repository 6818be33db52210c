----------------------------- MODULE MCConnectors -----------------------------
(* Instances of Connectors for TLC. *)
EXTENDS Connectors, TLC

CONSTANTS t1, t2

TwoThreads == {t1, t2}
ThreadSymmetry == Permutations(TwoThreads)

Item(id, at) == [id |-> id, at |-> at, noise |-> FALSE]
Noise(id, at) == [id |-> id, at |-> at, noise |-> TRUE]

\* Two pages where the page size is one or two; the releases are not in the order of
\* their publication; the cursor (2) is the time of an item.
Contents ==
    (<<"repos", "org">> :> <<Item("r1", 3)>>) @@
    (<<"pulls", "r1">> :> <<Item("pr1", 3), Item("pr2", 2), Item("pr3", 1)>>) @@
    (<<"issues", "r1">> :> <<Noise("pr1", 3), Item("is1", 3), Item("is2", 2)>>) @@
    (<<"commits", "r1">> :> <<>>) @@
    (<<"releases", "r1">> :> <<Item("re1", 1), Item("re2", 3)>>) @@
    (<<"pulls", "r2">> :> <<Item("pr9", 3)>>) @@ (<<"issues", "r2">> :> <<>>) @@
    (<<"commits", "r2">> :> <<>>) @@ (<<"releases", "r2">> :> <<>>) @@
    (<<"channels", "workspace">> :> <<Noise("c0", 1), Item("c1", 1), Item("c2", 1)>>) @@
    (<<"history", "c1">> :> <<Item("m1", 3), Noise("m2", 2), Item("m3", 2)>>) @@
    (<<"history", "c2">> :> <<Item("m4", 1)>>) @@
    (<<"search", "pages">> :> <<Item("pg1", 3), Item("pg2", 3), Item("pg3", 2)>>) @@
    (<<"events", "primary">> :> <<Item("ev1", 2), Item("ev2", 3)>>) @@
    (<<"incidents", "account">> :> <<Item("in1", 3), Item("in2", 2), Item("in3", 1)>>)

Runs(sources, github, repos, initial) ==
    [sources |-> sources, github |-> github, repos |-> repos, run_initial_sync |-> initial]
Settings == {Runs({"github"}, "oauth", <<"r2">>, FALSE), Runs({"github"}, "oauth", <<>>, TRUE),
             Runs({"github", "calendar"}, "app", <<"r2">>, TRUE),
             Runs({"calendar"}, "static", <<>>, FALSE),
             Runs({"slack", "notion", "pagerduty"}, "static", <<>>, TRUE)}
=============================================================================
