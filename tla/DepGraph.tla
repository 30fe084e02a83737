------------------------------ MODULE DepGraph ------------------------------
(***************************************************************************)
(* Vocabulary for the "depends on" graph.  A graph is a function succ from *)
(* its nodes to sets of nodes.  No definition here is recursive, so that   *)
(* proofs can use them: reachability is membership in every closed set     *)
(* that holds the start, and a cycle is a nonempty set of nodes each of    *)
(* which has a successor inside the set.                                   *)
(***************************************************************************)

\* Every successor of a member of S is a member of S.
Closed(succ, S) == \A n \in S : succ[n] \subseteq S

\* The nodes that can be reached from r, r included.
Reach(succ, r) ==
    {n \in DOMAIN succ :
        \A S \in SUBSET DOMAIN succ : r \in S /\ Closed(succ, S) => n \in S}

\* In a finite graph such a set exists exactly when the graph has a cycle.
Knot(succ, S) == S # {} /\ \A n \in S : succ[n] \cap S # {}

HasCycle(succ, r) == \E S \in SUBSET Reach(succ, r) : Knot(succ, S)

=============================================================================
