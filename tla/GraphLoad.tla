----------------------------- MODULE GraphLoad -----------------------------
(***************************************************************************)
(* The requests that read the catalogue while others write to it:          *)
(* LoadGraph (internal/store/graph_store.go) for CheckReadiness, and the   *)
(* direct reads of DiffDependencies and Dependencies.                      *)
(*                                                                         *)
(* Every store call of the reader is one step.  Nothing spans two of them, *)
(* so registrations and PUTs (each one commit, see Registry) run between   *)
(* any two, and what is read need never have been there all at once.  A    *)
(* call may fail.  The resolver is taken by its promise, ResolverSpec,     *)
(* which module Resolver is checked to implement.                          *)
(***************************************************************************)
EXTENDS Catalogue, Functions

CONSTANTS Requests,    \* what may be asked: readiness, diff or direct
          Seeds,       \* what the tables hold when the request arrives
          Choices,     \* the dependencies a PUT may declare
          MaxWrites,   \* bound on the writes while the request runs
          MaxFaults    \* bound on the store calls that fail

\* Dependencies of one version: targets with the ranks their constraints match.
IsDeps(d) == DOMAIN d \subseteq Artifact /\ d \in [DOMAIN d -> SUBSET Rank]

VersionsOf(a, vs) == {v \in vs : v.artifact = a}

\* The tables as the service writes them: AUTOINCREMENT ids, REFERENCES artifacts(id).
ASSUME SeedsAssumption ==
    \A seed \in Seeds :
        /\ seed.artifacts \subseteq Artifact
        /\ IsFiniteSet(seed.versions)
        /\ \A v \in seed.versions : /\ v.id \in 1 .. Cardinality(seed.versions)
                                    /\ v.artifact \in seed.artifacts
                                    /\ v.rank \in Rank
                                    /\ IsDeps(seed.deps[v.id])
        /\ \A v, w \in seed.versions : v.id = w.id => v = w
        /\ \A a \in seed.artifacts : Cardinality(VersionsOf(a, seed.versions)) <= MaxVersions
        /\ DOMAIN seed.deps = {v.id : v \in seed.versions}

\* A diff is of two versions, a direct listing of one; a rank is asked for or not.
ASSUME RequestsAssumption ==
    /\ \A d \in Choices : IsDeps(d)
    /\ \A r \in Requests :
          /\ r.kind \in {"readiness", "diff", "direct"}
          /\ r.rank \in Rank \cup {NoRequest}
          /\ r.asked \in Seq(Nat)
          /\ r.kind = "diff" => Len(r.asked) = 2
          /\ r.kind = "direct" => Len(r.asked) = 1

VARIABLES artifacts,   \* table artifacts: ids
          versions,    \* table artifact_versions: [id, artifact, rank]
          deps,        \* table dependencies: version id -> target -> matched ranks
          request, pc,
          toRead,      \* arts of LoadGraph, those not reached yet
          unread,      \* vers of LoadGraph, those not reached yet
          listed,      \* the artifacts of the graph
          loaded,      \* the versions of the graph, with their dependencies
          maps,        \* depsA and depsB of a diff, deps of a direct listing
          answer,      \* the status code and what the response says
          status, cause, chosen,   \* resolver.Result
          began, ever, \* history: what the tables said at the start, and at any moment since
          puts,        \* history: the versions a PUT changed since
          writes, faults

tables == <<artifacts, versions, deps>>
graph == <<toRead, unread, listed, loaded>>
result == <<status, cause, chosen>>
history == <<began, ever, puts, writes>>
vars == <<tables, request, pc, graph, maps, answer, result, history, faults>>

\* A version with the dependencies its row stands for.
Row(v, d) == [id |-> v.id, artifact |-> v.artifact, rank |-> v.rank, deps |-> d]
Rows == {Row(v, deps[v.id]) : v \in versions}

NoAnswer == [code |-> 0]

Init ==
    /\ \E seed \in Seeds :
          artifacts = seed.artifacts /\ versions = seed.versions /\ deps = seed.deps
    /\ request \in Requests
    /\ pc = "find"
    /\ toRead = {} /\ unread = {} /\ listed = {} /\ loaded = {}
    /\ maps = <<>>
    /\ answer = NoAnswer
    /\ status = "pending" /\ cause = "" /\ chosen = [a \in Artifact |-> 0]
    /\ began = [artifacts |-> artifacts, rows |-> Rows] /\ ever = Rows /\ puts = {}
    /\ writes = 0 /\ faults = 0

-----------------------------------------------------------------------------
(* Other requests write; each is one commit. *)

Written ==
    /\ pc # "answered" /\ writes < MaxWrites
    /\ writes' = writes + 1
    /\ ever' = ever \cup Rows'
    /\ UNCHANGED <<request, pc, graph, maps, answer, result, began, faults>>

RegisterArtifact ==
    /\ \E a \in Artifact \ artifacts :
          /\ \A b \in artifacts : b < a
          /\ artifacts' = artifacts \cup {a}
    /\ UNCHANGED <<versions, deps, puts>>
    /\ Written

RegisterVersion ==
    /\ \E a \in artifacts, r \in Rank :
          LET v == [id |-> Cardinality(versions) + 1, artifact |-> a, rank |-> r]
          IN  /\ Cardinality(VersionsOf(a, versions)) < MaxVersions
              /\ versions' = versions \cup {v}
              /\ deps' = [i \in DOMAIN deps \cup {v.id} |-> IF i = v.id THEN <<>> ELSE deps[i]]
    /\ UNCHANGED <<artifacts, puts>>
    /\ Written

PutDependencies ==
    /\ \E v \in versions, d \in Choices :
          /\ DOMAIN d \subseteq artifacts
          /\ deps' = [deps EXCEPT ![v.id] = d]
          /\ puts' = puts \cup {v.id}
    /\ UNCHANGED <<artifacts, versions>>
    /\ Written

-----------------------------------------------------------------------------
(* Store calls of the reader. *)

Works == UNCHANGED faults
Fails == faults < MaxFaults /\ faults' = faults + 1

Goto(next) == pc' = next /\ UNCHANGED answer
Reply(a) == pc' = "answered" /\ answer' = a

\* An unknown name is an error like any other: 404, and null for a direct listing.
NotFound == Reply(IF request.kind = "direct" THEN [code |-> 200, deps |-> <<>>] ELSE [code |-> 404])

FindArtifact ==
    /\ pc = "find"
    /\ \/ request.artifact \in artifacts /\ Works
          /\ Goto(IF request.kind = "readiness" THEN "list" ELSE "version")
       \/ request.artifact \notin artifacts /\ Works /\ NotFound
       \/ Fails /\ NotFound
    /\ UNCHANGED <<tables, request, graph, maps, result, history>>

Failed == Reply([code |-> 500])

\* Mutant: LoadGraph takes one page of the list as the other callers of ListArtifacts do.
ListPage ==
    /\ pc = "list"
    /\ \/ Works /\ Goto("load") /\ toRead' = {a \in artifacts : a < 3} /\ listed' = toRead'
       \/ Fails /\ Failed /\ UNCHANGED <<toRead, listed>>
    /\ UNCHANGED <<tables, request, unread, loaded, maps, result, history>>

\* LoadGraph asks for 1<<30 artifacts; each becomes an element of the graph.
ListArtifacts ==
    /\ pc = "list"
    /\ \/ Works /\ Goto("load") /\ toRead' = artifacts /\ listed' = artifacts
       \/ Fails /\ Failed /\ UNCHANGED <<toRead, listed>>
    /\ UNCHANGED <<tables, request, unread, loaded, maps, result, history>>

\* In the order of their ids; the next artifact only after the versions of this one.
ListVersions ==
    /\ pc = "load" /\ unread = {}
    /\ \E a \in toRead :
          /\ \A b \in toRead : a <= b
          /\ toRead' = toRead \ {a}
          /\ \/ Works /\ Goto("load") /\ unread' = VersionsOf(a, versions)
             \/ Fails /\ Failed /\ UNCHANGED unread
    /\ UNCHANGED <<tables, request, listed, loaded, maps, result, history>>

\* Mutant: the dependencies are looked up by the id of the artifact.
LoadByArtifact ==
    /\ pc = "load"
    /\ \E v \in unread :
          /\ \A w \in unread : v.id <= w.id
          /\ unread' = unread \ {v}
          /\ \/ /\ Works /\ Goto("load")
                /\ loaded' = loaded \cup
                     {Row(v, IF v.artifact \in DOMAIN deps THEN deps[v.artifact] ELSE <<>>)}
             \/ Fails /\ Failed /\ UNCHANGED loaded
    /\ UNCHANGED <<tables, request, toRead, listed, maps, result, history>>

\* Mutant: an error stands for no dependencies, as in dependencyMap.
LoadSwallows ==
    /\ pc = "load"
    /\ \E v \in unread :
          /\ \A w \in unread : v.id <= w.id
          /\ unread' = unread \ {v}
          /\ Goto("load")
          /\ \/ Works /\ loaded' = loaded \cup {Row(v, deps[v.id])}
             \/ Fails /\ loaded' = loaded \cup {Row(v, <<>>)}
    /\ UNCHANGED <<tables, request, toRead, listed, maps, result, history>>

\* ListDependencies and the name of each target; a name that cannot be read is an error.
LoadDependencies ==
    /\ pc = "load"
    /\ \E v \in unread :
          /\ \A w \in unread : v.id <= w.id
          /\ unread' = unread \ {v}
          /\ \/ Works /\ Goto("load") /\ loaded' = loaded \cup {Row(v, deps[v.id])}
             \/ Fails /\ Failed /\ UNCHANGED loaded
    /\ UNCHANGED <<tables, request, toRead, listed, maps, result, history>>

-----------------------------------------------------------------------------
(* CheckReadiness on the loaded graph. *)

\* Higher, or of equal precedence and registered first.
Before(v, w) == v.rank > w.rank \/ (v.rank = w.rank /\ v.id < w.id)

\* buildResolverArtifacts and NewIndex.
Index(arts, rows) ==
    [a \in arts |->
        LET own == VersionsOf(a, rows)
        IN  [k \in 1 .. Cardinality(own) |->
                CHOOSE v \in own : Cardinality({w \in own : Before(w, v)}) = k - 1]]

ix == Index(listed, loaded)

Loaded == toRead = {} /\ unread = {}

\* Without a version in the request, the highest one.
Wanted ==
    IF request.rank # NoRequest \/ request.artifact \notin DOMAIN ix THEN request.rank
    ELSE IF ix[request.artifact] = <<>> THEN NoRequest
    ELSE ix[request.artifact][1].rank

Resolver == INSTANCE ResolverSpec WITH
    Indexes <- {}, Roots <- Artifact, root <- request.artifact, req <- Wanted

\* An artifact without versions is blocked by the MISSING that Resolve would report too.
CheckReadiness ==
    /\ pc = "load" /\ Loaded
    /\ UNCHANGED <<tables, request, graph, maps, history, faults>>
    /\ Resolver!Answer
    /\ Reply([code |-> 200, ready |-> status' = "succeeded"])

-----------------------------------------------------------------------------
(* The direct reads. *)

\* The version asked for by its place in registration order; a version keeps its id.
Asked(i) ==
    {v \in VersionsOf(request.artifact, versions) :
        Cardinality({w \in VersionsOf(request.artifact, versions) : w.id < v.id}) = i - 1}

\* GetVersion for each version of the request.  Versions are never deleted, so that two
\* calls find or miss what one call at the moment of the last would.
FindVersions ==
    /\ pc = "version"
    /\ \/ (\A k \in DOMAIN request.asked : Asked(request.asked[k]) # {}) /\ Works /\ Goto("direct")
       \/ (\E k \in DOMAIN request.asked : Asked(request.asked[k]) = {}) /\ Works /\ NotFound
       \/ Fails /\ NotFound
    /\ UNCHANGED <<tables, request, graph, maps, result, history>>

\* dependencyMap and Dependencies: an error loses all rows, an unread name loses its row.
ReadDependencies ==
    /\ pc = "direct" /\ Len(maps) < Len(request.asked)
    /\ \E v \in Asked(request.asked[Len(maps) + 1]) :
          LET d == deps[v.id]
          IN  \/ Works /\ maps' = Append(maps, d)
              \/ Fails /\ \E S \in SUBSET DOMAIN d : S # DOMAIN d /\ maps' = Append(maps, Restrict(d, S))
    /\ UNCHANGED <<tables, request, pc, graph, answer, result, history>>

\* Mutant: only the targets are compared.
DifferenceOfTargets(a, b) ==
    [added |-> Restrict(b, DOMAIN b \ DOMAIN a), removed |-> Restrict(a, DOMAIN a \ DOMAIN b),
     changed |-> <<>>]

\* Added and Changed with the new constraint, Removed with the old one.
Difference(a, b) ==
    [added |-> Restrict(b, DOMAIN b \ DOMAIN a),
     removed |-> Restrict(a, DOMAIN a \ DOMAIN b),
     changed |-> Restrict(b, {t \in DOMAIN a \cap DOMAIN b : a[t] # b[t]})]

ReplyDirect ==
    /\ pc = "direct" /\ Len(maps) = Len(request.asked)
    /\ Reply(IF request.kind = "diff"
             THEN [code |-> 200, diff |-> Difference(maps[1], maps[2])]
             ELSE [code |-> 200, deps |-> maps[1]])
    /\ UNCHANGED <<tables, request, graph, maps, result, history, faults>>

-----------------------------------------------------------------------------

Ended == pc = "answered" /\ UNCHANGED vars

Write == RegisterArtifact \/ RegisterVersion \/ PutDependencies
Read == \/ FindArtifact \/ ListArtifacts \/ ListVersions \/ LoadDependencies \/ CheckReadiness
        \/ FindVersions \/ ReadDependencies \/ ReplyDirect

Next == Write \/ Read \/ Ended

Spec == Init /\ [][Next]_vars

-----------------------------------------------------------------------------
(* What a reader may rely on. *)

\* Whatever is in the loaded graph was in the tables at some moment of the request: each
\* version with its whole list of dependencies, as one PUT left it.
ReadsWereTrue == loaded \subseteq ever

\* A loaded graph misses nothing that was there from the start: no artifact, and no version
\* with its dependencies unless a PUT changed them meanwhile.  So a dependency can point
\* outside the graph only at an artifact registered since.
LoadMissesNothing ==
    pc = "load" /\ Loaded =>
        /\ began.artifacts \subseteq listed
        /\ {v \in began.rows : v.id \notin puts} \subseteq loaded

\* What a positive report selected.
Picks == {ix[a][chosen[a]] : a \in {b \in DOMAIN ix : chosen[b] # 0}}

\* The tables as they are now, and the place of a version in them.
Now == Index(artifacts, Rows)

Place(v) == CHOOSE k \in DOMAIN Now[v.artifact] : Now[v.artifact][k].id = v.id

\* What a positive report selected, as a selection in the tables of now.
Picked ==
    [a \in Artifact |-> IF \E v \in Picks : v.artifact = a
                        THEN Place(CHOOSE v \in Picks : v.artifact = a) ELSE 0]

\* A positive report holds at the moment it is given, although the graph was read piecemeal
\* and other versions may have been registered: what it selected solves the constraints of
\* the tables, unless a PUT changed one of the selected versions meanwhile; and it is a
\* version of the rank asked for, when there was one.
ReadyHolds ==
    pc = "answered" /\ status = "succeeded" /\ (\A v \in Picks : v.id \notin puts) =>
        LET root == request.artifact
        IN  /\ Picked \in Solutions(Now, root, Picked[root])
            /\ (\E v \in began.rows : v.artifact = root /\ v.rank = request.rank) =>
                  \E v \in Picks : v.artifact = root /\ v.rank = request.rank

\* The dependencies that a version had at some moment of the request.
Had(i) == {v.deps : v \in {w \in ever : w.id \in {q.id : q \in Asked(request.asked[i])}}}

\* The diff d leads from dependencies a to b.
Leads(d, a, b) ==
    /\ DOMAIN d.added \cap DOMAIN a = {}
    /\ DOMAIN d.removed \cup DOMAIN d.changed \subseteq DOMAIN a
    /\ \A t \in DOMAIN d.removed : a[t] = d.removed[t]
    /\ \A t \in DOMAIN d.changed : a[t] # d.changed[t]
    /\ b = [t \in (DOMAIN a \ DOMAIN d.removed) \cup DOMAIN d.added |->
               IF t \in DOMAIN d.added THEN d.added[t]
               ELSE IF t \in DOMAIN d.changed THEN d.changed[t] ELSE a[t]]

\* A diff leads from dependencies that the first version had to some that the second had,
\* and a direct listing is one the version had, unless a read of the request failed.
DirectReadsAreTrue ==
    pc = "answered" /\ request.kind \in {"diff", "direct"} /\ faults = 0
    /\ (\A i \in DOMAIN request.asked : Asked(request.asked[i]) # {})
    /\ answer.code = 200 =>
        IF request.kind = "direct" THEN answer.deps \in Had(1)
        ELSE \E a \in Had(1), b \in Had(2) : Leads(answer.diff, a, b)
=============================================================================
