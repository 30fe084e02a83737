----------------------------- MODULE Catalogue -----------------------------
(***************************************************************************)
(* What the resolver sees of the database: resolver.Index with its         *)
(* artifacts, versions and constraints, and what it means for a selection  *)
(* of versions to satisfy them.                                            *)
(*                                                                         *)
(* A version string is reduced to its rank, its place in semver precedence *)
(* (Compare ignores build metadata, so two versions can share a rank), and *)
(* a constraint to the set of ranks it matches.  A version number is an    *)
(* index into the artifact's list, highest first; 0 is "not selected".     *)
(***************************************************************************)
EXTENDS Integers, FiniteSets, Sequences, DepGraph

CONSTANTS Artifact,     \* artifact ids
          Rank,         \* the places in semver precedence
          MaxVersions   \* bound on the versions of one artifact

ASSUME CatalogueAssumption ==
    Artifact \subseteq Nat \ {0} /\ Rank \subseteq Nat \ {0} /\ MaxVersions \in Nat

\* rootVersion == nil: no version is asked for.
NoRequest == 0

-----------------------------------------------------------------------------
(* The index. *)

\* Of versions in registration order, i precedes j in the sorted list: higher, or
\* of equal precedence and registered first (SliceStable).
Outranks(vs, i, j) ==
    vs[i].rank > vs[j].rank \/ (vs[i].rank = vs[j].rank /\ i < j)

HighestFirst(vs) ==
    [k \in 1 .. Len(vs) |->
        vs[CHOOSE i \in 1 .. Len(vs) :
              Cardinality({j \in 1 .. Len(vs) : Outranks(vs, j, i)}) = k - 1]]

NewIndex(artifacts) == [a \in DOMAIN artifacts |-> HighestFirst(artifacts[a])]

\* A version declares at most one constraint per target (the UNIQUE key of the
\* dependencies table), so deps is a partial function from targets to matched ranks.
IsVersion(v) ==
    /\ v.id \in Nat
    /\ v.rank \in Rank
    /\ DOMAIN v.deps \subseteq Artifact
    /\ \A t \in DOMAIN v.deps : v.deps[t] \subseteq Rank

\* What NewIndex promises.  A target of a dependency need not be in the index.
IsIndex(ix) ==
    /\ DOMAIN ix \subseteq Artifact
    /\ \A a \in DOMAIN ix :
          /\ Len(ix[a]) \in 0 .. MaxVersions
          /\ \A i \in 1 .. Len(ix[a]) : IsVersion(ix[a][i])
          /\ \A i, j \in 1 .. Len(ix[a]) :
                i < j => \/ ix[a][i].rank > ix[a][j].rank
                         \/ ix[a][i].rank = ix[a][j].rank /\ ix[a][i].id < ix[a][j].id

\* adj of detectCycle: the targets of all versions of an artifact.
UnionSucc(ix) ==
    [a \in Artifact |->
        IF a \in DOMAIN ix
        THEN UNION {DOMAIN ix[a][i].deps : i \in 1 .. Len(ix[a])}
        ELSE {}]

-----------------------------------------------------------------------------
(* Selections. *)

Assignment == [Artifact -> 0 .. MaxVersions]

Selected(s) == {a \in Artifact : s[a] # 0}

\* The targets that the selected version of a depends on.
Needs(ix, s, a) ==
    IF a \in DOMAIN ix /\ s[a] # 0 THEN DOMAIN ix[a][s[a]].deps ELSE {}

\* Constraint.Matches for the constraint of a's selected version on t.
Accepts(ix, s, a, t, i) == ix[t][i].rank \in ix[a][s[a]].deps[t]

\* The dependency of a on t is met by the selection.
Met(ix, s, a, t) == t \in DOMAIN ix /\ s[t] # 0 /\ Accepts(ix, s, a, t, s[t])

Consistent(ix, s) == \A a \in Artifact : \A t \in Needs(ix, s, a) : Met(ix, s, a, t)

Legal(ix, s) ==
    \A a \in Artifact : IF a \in DOMAIN ix THEN s[a] <= Len(ix[a]) ELSE s[a] = 0

\* A solution selects one version of root and of what it needs, directly or
\* through others, and nothing else.
Solutions(ix, root, c) ==
    {s \in Assignment :
        /\ s[root] = c
        /\ Legal(ix, s)
        /\ Consistent(ix, s)
        /\ Selected(s) = Reach([a \in Artifact |-> Needs(ix, s, a)], root)}

\* The versions of root that Resolve tries: the first of the rank asked for, and
\* all of them when none is asked for or none has that rank.
RootCandidates(ix, root, req) ==
    LET same == {i \in 1 .. Len(ix[root]) : ix[root][i].rank = req}
    IN  IF same = {} THEN 1 .. Len(ix[root])
        ELSE {i \in same : \A j \in same : i <= j}
=============================================================================
