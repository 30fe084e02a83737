--------------------------- MODULE MCCycleDetect ---------------------------
(* Every graph over three nodes, with every order of every adjacency list. *)
EXTENDS CycleDetect, TLC

\* Adjacency lists as detectCycle builds them: no target twice, any order.
ListsWithoutRepeats(S) ==
    UNION {{s \in [1 .. k -> S] : \A i, j \in 1 .. k : s[i] = s[j] => i = j} :
              k \in 0 .. 3}

AllGraphs == [Node -> ListsWithoutRepeats(Node)]
=============================================================================
