------------------------ MODULE MCFactorySubmitTwice ------------------------
(* One task that is submitted twice, or submitted and previewed, at the    *)
(* same time.  A scene says which clicks are played, what may go wrong and *)
(* which EANs the pool has; the clicks that are not played are over.       *)
EXTENDS FactorySubmit, TLC

\* j1 and j2 are clicks on the task p1 of the JV controller; j3, j4 and the
\* preview j5 are clicks on the task p2 of the XL controller.
CONSTANTS j1, j2, j3, j4, j5, p1, p2

Scenes == {<<{j1, j2}, {"kill"}, {1, 2}>>,
           <<{j1}, {"kill", "error", "uncounted", "presumed"}, {1, 2}>>,
           <<{j3}, {"users"}, {1}>>,
           <<{j3, j4}, {"error"}, {1}>>,
           <<{j3, j4}, {"kill", "uncounted", "presumed"}, {1, 2}>>,
           <<{j3, j5}, {"error"}, {1, 2}>>}

Weathers  == {s[2] : s \in Scenes}
Tasks     == (j1 :> p1) @@ (j2 :> p1) @@ (j3 :> p2) @@ (j4 :> p2) @@ (j5 :> p2)
Variants  == [j \in {j1, j2, j3, j4, j5} |-> IF j = j1 THEN 2 ELSE 1]

SceneInit ==
    /\ NothingYet
    /\ \E s \in Scenes : /\ pc = [j \in Jobs |-> IF j \in s[1] THEN "idle" ELSE "end"]
                         /\ faults = s[2]
                         /\ Available(pool) = s[3]
SceneSpec == SceneInit /\ [][Next]_vars /\ Fairness
=============================================================================
