---------------------------- MODULE CycleDetect ----------------------------
(***************************************************************************)
(* detectCycle (internal/resolver/cycle.go): a depth-first search with the *)
(* three colours white, gray and black over the union of the dependencies  *)
(* of all versions of every artifact.  The recursion of the closure dfs is *)
(* its path: the frame of path[i] has scanned the first next[path[i]]      *)
(* entries of that node's adjacency list.                                  *)
(***************************************************************************)
EXTENDS Naturals, Sequences, DepGraph

CONSTANTS Node,     \* artifact ids, those in the index and those that only a dependency names
          Graphs    \* the adjacency lists to search: a set of functions Node -> Seq(Node)

ASSUME GraphsAssumption == Graphs \subseteq [Node -> Seq(Node)]

VARIABLES known,    \* ix.byID: the artifacts the index holds
          adj,      \* adj: the adjacency lists, built from the artifacts of the index only
          root,     \* rootID
          color,    \* color
          path,     \* path: the gray nodes, outermost call first
          next,     \* how many successors the active call of each node has looked at
          result,   \* "searching", then "cycle" or "none" (the nil slice)
          cycle     \* the ids behind the names the search returns

vars == <<known, adj, root, color, path, next, result, cycle>>

\* Mutant: the lists come from the dependency rows, not from the index.
InitFromAllRows ==
    /\ known \in SUBSET Node
    /\ adj \in Graphs
    /\ root \in known
    /\ color = [n \in Node |-> IF n = root THEN "gray" ELSE "white"]
    /\ path = <<root>>
    /\ next = [n \in Node |-> 0]
    /\ result = "searching"
    /\ cycle = <<>>

Init ==
    /\ known \in SUBSET Node
    /\ adj \in Graphs
    /\ \A n \in Node \ known : adj[n] = <<>>
    /\ root \in known
    /\ color = [n \in Node |-> IF n = root THEN "gray" ELSE "white"]
    /\ path = <<root>>
    /\ next = [n \in Node |-> 0]
    /\ result = "searching"
    /\ cycle = <<>>

Top == path[Len(path)]
Pop(s) == SubSeq(s, 1, Len(s) - 1)

\* Mutant: start is never moved from 0.
WholePath(n) == 1

\* The first place of n on the path; 1 (the initial start = 0) when it is not there.
FirstOnPath(n) ==
    IF \E i \in 1 .. Len(path) : path[i] = n
    THEN CHOOSE i \in 1 .. Len(path) :
            path[i] = n /\ \A j \in 1 .. Len(path) : path[j] = n => i <= j
    ELSE 1

\* The call for Top looks at its next successor.
Scan == adj[Top][next[Top] + 1]
MoreToScan == result = "searching" /\ next[Top] < Len(adj[Top])

\* A gray successor closes a cycle: its ids are the path from that node, and
\* the node again.  Every call on the stack then returns this value unchanged.
BackEdge ==
    /\ MoreToScan
    /\ color[Scan] = "gray"
    /\ result' = "cycle"
    /\ cycle' = Append(SubSeq(path, FirstOnPath(Scan), Len(path)), Scan)
    /\ path' = <<>>
    /\ UNCHANGED <<known, adj, root, color, next>>

\* Mutant: one visited mark instead of gray and black.
DescendMarksVisited ==
    /\ MoreToScan
    /\ color[Scan] = "white"
    /\ color' = [color EXCEPT ![Scan] = "black"]
    /\ path' = Append(path, Scan)
    /\ next' = [next EXCEPT ![Top] = @ + 1]
    /\ UNCHANGED <<known, adj, root, result, cycle>>

\* A white successor is visited: dfs(n) colours it and appends it to the path.
Descend ==
    /\ MoreToScan
    /\ color[Scan] = "white"
    /\ color' = [color EXCEPT ![Scan] = "gray"]
    /\ path' = Append(path, Scan)
    /\ next' = [next EXCEPT ![Top] = @ + 1]
    /\ UNCHANGED <<known, adj, root, result, cycle>>

\* Mutant: the loop does not advance.
PassOverStays == MoreToScan /\ color[Scan] = "black" /\ UNCHANGED vars

\* A black successor needs no visit.
PassOver ==
    /\ MoreToScan
    /\ color[Scan] = "black"
    /\ next' = [next EXCEPT ![Top] = @ + 1]
    /\ UNCHANGED <<known, adj, root, color, path, result, cycle>>

\* All successors looked at: the node is black and the call returns nil, to the
\* caller's loop or, for the root, out of detectCycle.
Finish ==
    /\ result = "searching"
    /\ next[Top] = Len(adj[Top])
    /\ color' = [color EXCEPT ![Top] = "black"]
    /\ path' = Pop(path)
    /\ result' = IF Len(path) = 1 THEN "none" ELSE "searching"
    /\ UNCHANGED <<known, adj, root, next, cycle>>

Done == result # "searching" /\ UNCHANGED vars

Step == BackEdge \/ Descend \/ PassOver \/ Finish
Next == Step \/ Done

\* The search is one call of a loop without blocking operations: it keeps going.
Spec == Init /\ [][Next]_vars /\ WF_vars(Step)

-----------------------------------------------------------------------------
(* What the search must get right. *)

Succ == [n \in Node |-> {adj[n][i] : i \in 1 .. Len(adj[n])}]

\* The answer has a name for each of these places of the cycle, in their order: those of
\* artifacts of the index.
Named == {i \in 1 .. Len(cycle) : cycle[i] \in known}

TypeOK ==
    /\ known \subseteq Node
    /\ adj \in [Node -> Seq(Node)]
    /\ root \in Node
    /\ color \in [Node -> {"white", "gray", "black"}]
    /\ path \in Seq(Node)
    /\ next \in [Node -> Nat]
    /\ result \in {"searching", "cycle", "none"}
    /\ cycle \in Seq(Node)
    /\ result # "searching" => path = <<>>

\* The gray nodes are the nodes of the path, each once, and consecutive nodes
\* of the path are joined by an edge: the colour map and the recursion agree.
PathIsGray ==
    result = "searching" =>
        /\ Len(path) > 0
        /\ path[1] = root
        /\ \A n \in Node : color[n] = "gray" <=> \E i \in 1 .. Len(path) : path[i] = n
        /\ \A i, j \in 1 .. Len(path) : path[i] = path[j] => i = j
        /\ \A i \in 1 .. Len(path) - 1 : path[i + 1] \in Succ[path[i]]

\* A verdict "cycle" comes with a witness: a closed walk of the graph, of at
\* least one edge, that starts at a node reachable from the root.
CycleIsReal ==
    result = "cycle" =>
        /\ Len(cycle) > 1
        /\ cycle[1] = cycle[Len(cycle)]
        /\ \A i \in 1 .. Len(cycle) - 1 : cycle[i + 1] \in Succ[cycle[i]]
        /\ cycle[1] \in Reach(Succ, root)

\* A verdict "none" is right: no set of reachable nodes keeps a successor of
\* each of its members, however the adjacency lists are ordered.
NoneIsAcyclic == result = "none" => ~HasCycle(Succ, root)

\* The names reported are the whole walk: the nil check on ArtifactByID drops
\* nothing, although dependencies may name artifacts the index does not hold.
NamesAreTheCycle == result = "cycle" => Named = 1 .. Len(cycle)

\* The search ends on every graph, cyclic or not.
Terminates == <>(result # "searching")
=============================================================================
