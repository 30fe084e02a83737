----------------------------- MODULE GraphQuery -----------------------------
(***************************************************************************)
(* DependencyGraph and collectGraph (internal/service/query.go): the walk  *)
(* that lists the dependencies of an artifact down to a depth.  The cycle  *)
(* that the answer also reports is module CycleDetect's.                   *)
(*                                                                         *)
(* An artifact is followed into its highest version only, so a catalogue   *)
(* is here the dependency targets of one version per artifact; one without *)
(* versions has none, and as root is refused before the walk.  A target    *)
(* may be outside the index: LoadGraph reads the artifacts first and the   *)
(* dependencies later.                                                     *)
(***************************************************************************)
EXTENDS Naturals, Sequences, FiniteSets, DepGraph

CONSTANTS Artifact,   \* artifact ids
          Indexes,    \* functions from the artifacts of an index to sets of targets
          Depths      \* the values of ?depth=, 0 when there is none

ASSUME GraphQueryAssumption ==
    /\ Artifact \subseteq Nat \ {0} /\ Depths \subseteq Nat
    /\ IsFiniteSet(Artifact) /\ Cardinality(Artifact) <= 2 ^ 20
    /\ \A d \in Indexes : DOMAIN d \subseteq Artifact /\ \A a \in DOMAIN d : d[a] \subseteq Artifact

VARIABLES deps,      \* the index
          root,      \* the artifact asked for
          asked,     \* depth
          visited,   \* visited
          stack,     \* the calls of collectGraph: the artifact, the last target it listed
          out        \* the list of nodes; from is the artifact that has the dependency

vars == <<deps, root, asked, visited, stack, out>>

Init ==
    /\ deps \in Indexes
    /\ root \in DOMAIN deps
    /\ asked \in Depths
    /\ visited = {root}
    /\ stack = <<[of |-> root, last |-> 0]>>
    /\ out = <<>>

\* Mutant: without a depth only the direct dependencies are listed.
LimitDefaultsToOne == IF asked = 0 THEN 1 ELSE asked

\* depth <= 0 counts as 1 << 20.
Limit == IF asked = 0 THEN 2 ^ 20 ELSE asked

\* Mutant: the depth is the number of artifacts visited.
LevelCountsVisited == Cardinality(visited)

\* level is the number of calls.
Level == Len(stack)

Top == stack[Len(stack)]
Running == stack # <<>>

\* The dependency the innermost call lists next; they come in the order of target ids.
IsNext(t) ==
    /\ t \in deps[Top.of] /\ t > Top.last
    /\ \A u \in deps[Top.of] : u > Top.last => t <= u

Passed(t) == [stack EXCEPT ![Len(stack)].last = t]

Listing(t) ==
    /\ Running /\ Level <= Limit
    /\ IsNext(t)
    /\ out' = Append(out, [from |-> Top.of, to |-> t, depth |-> Level])
    /\ UNCHANGED <<deps, root, asked>>

\* Mutant: the loop does not advance.
PassOverStays(t) ==
    /\ Running /\ Level <= Limit
    /\ IsNext(t)
    /\ t \notin DOMAIN deps \/ t \in visited
    /\ UNCHANGED vars

\* The target is not in the index, or was visited: it is listed and not followed.
PassOver(t) ==
    /\ Listing(t)
    /\ t \notin DOMAIN deps \/ t \in visited
    /\ stack' = Passed(t)
    /\ UNCHANGED visited

\* Mutant: the target is followed and not marked.
FollowUnmarked(t) ==
    /\ Listing(t)
    /\ t \in DOMAIN deps /\ t \notin visited
    /\ visited' = visited
    /\ stack' = Append(Passed(t), [of |-> t, last |-> 0])

\* A target that was not visited yet is followed.
Follow(t) ==
    /\ Listing(t)
    /\ t \in DOMAIN deps /\ t \notin visited
    /\ visited' = visited \cup {t}
    /\ stack' = Append(Passed(t), [of |-> t, last |-> 0])

\* The call is too deep, or has listed all its dependencies.
Leave ==
    /\ Running
    /\ Level > Limit \/ \A t \in deps[Top.of] : t <= Top.last
    /\ stack' = SubSeq(stack, 1, Len(stack) - 1)
    /\ UNCHANGED <<deps, root, asked, visited, out>>

Done == ~Running /\ UNCHANGED vars

Step == Leave \/ \E t \in Artifact : PassOver(t) \/ Follow(t)
Next == Step \/ Done

\* The walk is one call that never waits: it keeps going.
Spec == Init /\ [][Next]_vars /\ WF_vars(Step)

-----------------------------------------------------------------------------
(* What the query must get right. *)

Succ == [a \in Artifact |-> IF a \in DOMAIN deps THEN deps[a] ELSE {}]

Entries == {out[i] : i \in 1 .. Len(out)}

TypeOK ==
    /\ visited \subseteq DOMAIN deps
    /\ \A k \in 1 .. Len(stack) : stack[k].of \in visited /\ stack[k].last \in Artifact \cup {0}
    /\ \A e \in Entries : e.from \in visited /\ e.to \in deps[e.from] /\ e.depth \in 1 .. Limit

\* Without a depth, the list is that of all dependencies of everything that can be
\* reached, although the walk cuts itself off at what it has visited.
UnlimitedIsComplete ==
    ~Running /\ asked = 0 =>
        {<<e.from, e.to>> : e \in Entries}
            = {p \in Artifact \X Artifact : p[1] \in Reach(Succ, root) /\ p[2] \in Succ[p[1]]}

\* No dependency is listed twice, on cyclic graphs and diamonds neither.
ListedOnce ==
    \A i, j \in 1 .. Len(out) : out[i].from = out[j].from /\ out[i].to = out[j].to => i = j

\* The depth of an entry is the length of a path of listed dependencies that leads to it.
DepthIsAPath ==
    \A e \in Entries : IF e.depth = 1 THEN e.from = root
                       ELSE \E f \in Entries : f.to = e.from /\ f.depth = e.depth - 1

\* The query ends on every graph, cyclic or not.
Terminates == <>~Running

-----------------------------------------------------------------------------
(* What the documents say of the program, checked in a run of its own. *)

\* The artifacts at most n dependencies away from the root.
Within[n \in Nat] ==
    IF n = 0 THEN {root} ELSE Within[n - 1] \cup UNION {Succ[a] : a \in Within[n - 1]}

\* PROJECT_SPEC.md:41: the graph has the direct and the transitive dependencies, down to
\* the depth asked for.
DepthIsServed ==
    ~Running /\ asked # 0 => Within[asked] \ {root} \subseteq {e.to : e \in Entries}
=============================================================================
