--------------------------- MODULE GraphLoadProofs ---------------------------
(***************************************************************************)
(* What a graph that is read piecemeal can be relied on for, whatever is   *)
(* registered and PUT between two of its reads and whichever read fails.   *)
(***************************************************************************)
EXTENDS GraphLoad, FiniteSetTheorems, TLAPS

\* The ids of the versions are 1 .. their number, and each has its dependencies.
IdsAreDense ==
    /\ IsFiniteSet(versions)
    /\ \A v \in versions : v.id \in 1 .. Cardinality(versions) /\ v.id \in DOMAIN deps

\* Rows are read from the tables as they are, and history remembers them all.
ReadsAreRows == unread \subseteq versions /\ Rows \subseteq ever /\ loaded \subseteq ever

\* Registrations and PUTs keep the rows of the start, but for the versions that were PUT.
StartIsKept ==
    /\ began.artifacts \subseteq artifacts
    /\ \A r \in began.rows : r.artifact \in began.artifacts
    /\ \A r \in began.rows : r.id \in puts \/ \E v \in versions : r = Row(v, deps[v.id])

\* Such a row is loaded, or its version is read later, or the one of its artifact is.
Pending(r) == (\E v \in unread : r = Row(v, deps[v.id])) \/ r.artifact \in toRead

NothingSkipped ==
    pc = "load" => /\ began.artifacts \subseteq listed
                   /\ \A r \in began.rows : r.id \in puts \/ r \in loaded \/ Pending(r)

IInv == IdsAreDense /\ ReadsAreRows /\ StartIsKept /\ NothingSkipped

LEMMA RowFields ==
    ASSUME NEW v, NEW d
    PROVE  Row(v, d).id = v.id /\ Row(v, d).artifact = v.artifact /\ Row(v, d).deps = d
  BY DEF Row

LEMMA InitInv == Init => IInv
  <1> SUFFICES ASSUME Init PROVE IInv
    OBVIOUS
  <1>1. PICK seed \in Seeds : artifacts = seed.artifacts /\ versions = seed.versions /\ deps = seed.deps
    BY DEF Init
  <1>2. IdsAreDense
    BY <1>1, SeedsAssumption DEF IdsAreDense
  <1>3. ReadsAreRows
    BY DEF Init, ReadsAreRows
  <1>4. began.artifacts = artifacts /\ began.rows = Rows
    BY DEF Init
  <1>5. ASSUME NEW r \in began.rows
        PROVE  r.artifact \in began.artifacts /\ \E v \in versions : r = Row(v, deps[v.id])
    <2>1. PICK v \in versions : r = Row(v, deps[v.id])
      BY <1>4, <1>5 DEF Rows
    <2>2. v.artifact \in artifacts
      BY <1>1, SeedsAssumption
    <2> QED
      BY <1>4, <2>1, <2>2, RowFields
  <1>6. StartIsKept
    BY <1>4, <1>5 DEF StartIsKept
  <1>7. NothingSkipped
    BY DEF Init, NothingSkipped
  <1> QED
    BY <1>2, <1>3, <1>6, <1>7 DEF IInv

\* A step of the reader leaves the tables and the history alone.
LEMMA Reading ==
    ASSUME IInv, UNCHANGED <<tables, history>>, ReadsAreRows', NothingSkipped'
    PROVE  IInv'
  BY DEF IInv, IdsAreDense, StartIsKept, Row, tables, history

\* A write that keeps every row but those it marks as PUT keeps what the reader relies on.
LEMMA Writing ==
    ASSUME IInv, Written, IdsAreDense',
           artifacts \subseteq artifacts', versions \subseteq versions', puts \subseteq puts',
           \A v \in versions : v.id \in puts' \/ deps'[v.id] = deps[v.id]
    PROVE  IInv'
  <1> USE DEF Written, graph
  <1>1. ReadsAreRows'
    BY DEF IInv, ReadsAreRows
  <1>2. ASSUME NEW r, NEW v \in versions, r = Row(v, deps[v.id])
        PROVE  r.id \in puts' \/ r = Row(v, deps[v.id])'
    BY <1>2, RowFields DEF Row
  <1>3. StartIsKept'
    <2>1. began' = began
      OBVIOUS
    <2>2. ASSUME NEW r \in began.rows PROVE r.id \in puts' \/ \E v \in versions' : r = Row(v, deps'[v.id])
      BY <1>2, <2>2 DEF IInv, StartIsKept, Row
    <2> QED
      BY <2>1, <2>2 DEF IInv, StartIsKept, Row
  <1>4. NothingSkipped'
    <2>1. ASSUME NEW r \in began.rows, pc = "load" PROVE r.id \in puts' \/ r \in loaded \/ Pending(r)'
      <3>1. r.id \in puts \/ r \in loaded \/ Pending(r)
        BY <2>1 DEF IInv, NothingSkipped
      <3>2. CASE Pending(r)
        BY <1>2, <3>2 DEF IInv, ReadsAreRows, Pending, Row
      <3> QED
        BY <3>1, <3>2
    <2> QED
      BY <2>1 DEF IInv, NothingSkipped
  <1> QED
    BY <1>1, <1>3, <1>4 DEF IInv

LEMMA StepInv == IInv /\ [Next]_vars => IInv'
  <1> SUFFICES ASSUME IInv, [Next]_vars PROVE IInv'
    OBVIOUS
  <1>1. CASE UNCHANGED vars
    BY <1>1 DEF vars, tables, graph, history, IInv, IdsAreDense, ReadsAreRows, Rows, Row,
                StartIsKept, NothingSkipped, Pending
  <1>2. CASE RegisterArtifact
    <2>1. IdsAreDense'
      BY <1>2 DEF RegisterArtifact, IInv, IdsAreDense
    <2> QED
      BY <1>2, <2>1, Writing DEF RegisterArtifact
  <1>3. CASE RegisterVersion
    <2>1. PICK a \in artifacts, r \in Rank :
            LET v == [id |-> Cardinality(versions) + 1, artifact |-> a, rank |-> r]
            IN  /\ versions' = versions \cup {v}
                /\ deps' = [i \in DOMAIN deps \cup {v.id} |-> IF i = v.id THEN <<>> ELSE deps[i]]
      BY <1>3 DEF RegisterVersion
    <2> DEFINE new == [id |-> Cardinality(versions) + 1, artifact |-> a, rank |-> r]
    <2>2. IsFiniteSet(versions) /\ Cardinality(versions) \in Nat
      BY FS_CardinalityType DEF IInv, IdsAreDense
    <2>3. \A v \in versions : v.id \in 1 .. Cardinality(versions) /\ v.id # new.id /\ v.id \in DOMAIN deps
      BY <2>2 DEF IInv, IdsAreDense
    <2>4. new \notin versions
      BY <2>3
    <2>5. IsFiniteSet(versions') /\ Cardinality(versions') = Cardinality(versions) + 1
      BY <2>1, <2>2, <2>4, FS_AddElement
    <2>6. IdsAreDense'
      <3>1. DOMAIN deps' = DOMAIN deps \cup {new.id} /\ versions' = versions \cup {new}
        BY <2>1
      <3>2. new.id = Cardinality(versions) + 1
        OBVIOUS
      <3>3. ASSUME NEW v \in versions' PROVE v.id \in 1 .. Cardinality(versions') /\ v.id \in DOMAIN deps'
        <4> HIDE DEF new
        <4>1. CASE v = new
          BY <2>2, <2>5, <3>1, <3>2, <4>1
        <4>2. CASE v \in versions
          BY <2>2, <2>3, <2>5, <3>1, <4>2
        <4> QED
          BY <3>1, <3>3, <4>1, <4>2
      <3> QED
        BY <2>5, <3>3 DEF IdsAreDense
    <2>7. \A v \in versions : deps'[v.id] = deps[v.id]
      BY <2>1, <2>3
    <2> QED
      BY <1>3, <2>1, <2>6, <2>7, Writing DEF RegisterVersion
  <1>4. CASE PutDependencies
    <2>1. PICK v \in versions, d \in Choices :
            deps' = [deps EXCEPT ![v.id] = d] /\ puts' = puts \cup {v.id}
      BY <1>4 DEF PutDependencies
    <2>2. versions' = versions /\ artifacts' = artifacts
      BY <1>4 DEF PutDependencies
    <2>3. IdsAreDense'
      BY <2>1, <2>2 DEF IInv, IdsAreDense
    <2>4. \A w \in versions : w.id \in puts' \/ deps'[w.id] = deps[w.id]
      BY <2>1 DEF IInv, IdsAreDense
    <2> QED
      BY <1>4, <2>1, <2>2, <2>3, <2>4, Writing DEF PutDependencies
  <1>5. CASE FindArtifact
    <2>1. pc' # "load" /\ UNCHANGED <<tables, graph, history>>
      BY <1>5 DEF FindArtifact, Goto, NotFound, Reply
    <2> QED
      BY <2>1, Reading DEF IInv, ReadsAreRows, NothingSkipped, Rows, Row, tables, graph, history
  <1>6. CASE ListArtifacts
    <2>1. UNCHANGED <<tables, unread, loaded, history>>
      BY <1>6 DEF ListArtifacts
    <2>2. ReadsAreRows'
      BY <2>1 DEF IInv, ReadsAreRows, Rows, Row, tables, history
    <2>3. pc' = "load" => toRead' = artifacts /\ listed' = artifacts
      BY <1>6 DEF ListArtifacts, Failed, Reply
    <2>4. NothingSkipped'
      BY <2>1, <2>3 DEF IInv, StartIsKept, NothingSkipped, Pending, tables, history
    <2> QED
      BY <2>1, <2>2, <2>4, Reading
  <1>7. CASE ListVersions
    <2> USE DEF VersionsOf
    <2>1. /\ UNCHANGED <<tables, listed, loaded, history>>
          /\ pc = "load" /\ unread = {}
      BY <1>7 DEF ListVersions
    <2>2. PICK a \in toRead : /\ toRead' = toRead \ {a}
                              /\ \/ unread' = {v \in versions : v.artifact = a}
                                 \/ pc' # "load" /\ unread' = unread
      BY <1>7 DEF ListVersions, Failed, Reply
    <2>3. ReadsAreRows'
      BY <2>1, <2>2 DEF IInv, ReadsAreRows, Rows, Row, tables, history
    <2>4. ASSUME NEW r \in began.rows, pc' = "load"
          PROVE  r.id \in puts \/ r \in loaded \/ Pending(r)'
      <3>1. r.id \in puts \/ r \in loaded \/ r.artifact \in toRead
        BY <2>1, <2>4 DEF IInv, NothingSkipped, Pending
      <3>2. CASE r.artifact \in toRead' 
        BY <3>2 DEF Pending
      <3>3. CASE r.artifact = a /\ r.id \notin puts
        <4>1. PICK v \in versions : r = Row(v, deps[v.id])
          BY <3>3 DEF IInv, StartIsKept
        <4>2. v.artifact = a
          BY <3>3, <4>1, RowFields
        <4>3. a \notin toRead' /\ (unread' = {w \in versions : w.artifact = a} => v \in unread')
          BY <2>2, <4>2
        <4> QED
          BY <2>1, <2>2, <2>4, <4>1, <4>3 DEF Pending, Row, tables
      <3> QED
        BY <2>2, <3>1, <3>2, <3>3
    <2>5. NothingSkipped'
      BY <2>1, <2>4 DEF IInv, NothingSkipped, history
    <2> QED
      BY <2>1, <2>3, <2>5, Reading
  <1>8. CASE LoadDependencies
    <2>1. UNCHANGED <<tables, toRead, listed, history>> /\ pc = "load"
      BY <1>8 DEF LoadDependencies
    <2>2. PICK v \in unread : /\ unread' = unread \ {v}
                              /\ \/ loaded' = loaded \cup {Row(v, deps[v.id])}
                                 \/ pc' # "load" /\ loaded' = loaded
      BY <1>8 DEF LoadDependencies, Failed, Reply
    <2>3. v \in versions /\ Row(v, deps[v.id]) \in ever
      BY DEF IInv, ReadsAreRows, Rows
    <2>4. ReadsAreRows'
      BY <2>1, <2>2, <2>3 DEF IInv, ReadsAreRows, Rows, Row, tables, history
    <2>5. ASSUME NEW r \in began.rows, pc' = "load"
          PROVE  r.id \in puts \/ r \in loaded' \/ Pending(r)'
      BY <2>1, <2>2, <2>5 DEF IInv, NothingSkipped, Pending, Row, tables
    <2>6. NothingSkipped'
      BY <2>1, <2>5 DEF IInv, NothingSkipped, history
    <2> QED
      BY <2>1, <2>4, <2>6, Reading
  <1>9. CASE CheckReadiness \/ FindVersions \/ ReadDependencies \/ ReplyDirect
    <2>1. UNCHANGED <<tables, graph, history>>
      BY <1>9 DEF CheckReadiness, FindVersions, ReadDependencies, ReplyDirect
    <2>2. pc' # "load"
      BY <1>9 DEF CheckReadiness, FindVersions, ReadDependencies, ReplyDirect, Goto, NotFound, Reply
    <2> QED
      BY <2>1, <2>2, Reading DEF IInv, ReadsAreRows, NothingSkipped, Rows, Row, tables, graph, history
  <1> QED
    BY <1>1, <1>2, <1>3, <1>4, <1>5, <1>6, <1>7, <1>8, <1>9 DEF Next, Write, Read, Ended

LEMMA Invariance == Spec => []IInv
  BY InitInv, StepInv, PTL DEF Spec

\* Whatever is in the graph was in the tables at some moment of the request, for any tables,
\* any writes and any failing read.
THEOREM ReadsTrue == Spec => []ReadsWereTrue
  <1>1. IInv => ReadsWereTrue
    BY DEF IInv, ReadsAreRows, ReadsWereTrue
  <1> QED
    BY <1>1, Invariance, PTL

\* A loaded graph has all that was there from the start, but for the versions that were PUT.
THEOREM MissesNothing == Spec => []LoadMissesNothing
  <1>1. IInv => LoadMissesNothing
    BY DEF IInv, NothingSkipped, Pending, Loaded, LoadMissesNothing
  <1> QED
    BY <1>1, Invariance, PTL

-----------------------------------------------------------------------------
(* The tables. *)

\* Two rows of one version.
Same(r, v) == r.id = v.id /\ r.artifact = v.artifact /\ r.rank = v.rank

\* The tables keep their keys, history has only rows with dependencies, and the versions
\* of the start are still there.
Tabled ==
    /\ artifacts \subseteq Artifact
    /\ \A v \in versions : v.artifact \in artifacts /\ v.rank \in Rank /\ IsDeps(deps[v.id])
    /\ \A v, w \in versions : v.id = w.id => v = w
    /\ \A a \in artifacts : Cardinality(VersionsOf(a, versions)) <= MaxVersions
    /\ \A r \in ever : IsDeps(r.deps)
    /\ \A r \in began.rows : \E v \in versions : Same(r, v)
    /\ request \in Requests
    /\ faults \in Nat

TInv == IInv /\ Tabled

LEMMA RowRank == ASSUME NEW v, NEW d PROVE Row(v, d).rank = v.rank
  BY DEF Row

LEMMA InitTabled == Init => Tabled
  <1> SUFFICES ASSUME Init PROVE Tabled
    OBVIOUS
  <1>1. PICK seed \in Seeds : artifacts = seed.artifacts /\ versions = seed.versions /\ deps = seed.deps
    BY DEF Init
  <1>2. /\ artifacts \subseteq Artifact
        /\ \A v \in versions : v.artifact \in artifacts /\ v.rank \in Rank /\ IsDeps(deps[v.id])
        /\ \A v, w \in versions : v.id = w.id => v = w
        /\ \A a \in artifacts : Cardinality(VersionsOf(a, versions)) <= MaxVersions
    BY <1>1, SeedsAssumption
  <1>3. \A r \in Rows : IsDeps(r.deps) /\ \E v \in versions : Same(r, v)
    BY <1>2, RowFields, RowRank DEF Rows, Same
  <1>4. ever = Rows /\ began.rows = Rows /\ request \in Requests /\ faults \in Nat
    BY DEF Init
  <1> QED
    BY <1>2, <1>3, <1>4 DEF Tabled

\* A write that keeps the keys keeps the history too.
LEMMA WrittenTabled ==
    ASSUME TInv, Written, versions \subseteq versions', artifacts' \subseteq Artifact,
           \A v \in versions' : v.artifact \in artifacts' /\ v.rank \in Rank /\ IsDeps(deps'[v.id]),
           \A v, w \in versions' : v.id = w.id => v = w,
           \A a \in artifacts' : Cardinality(VersionsOf(a, versions')) <= MaxVersions
    PROVE  Tabled'
  <1>1. ever' = ever \cup Rows' /\ began' = began /\ request' = request /\ faults' = faults
    BY DEF Written
  <1>2. \A r \in Rows' : IsDeps(r.deps)
    BY RowFields DEF Rows, Row
  <1>3. \A r \in ever' : IsDeps(r.deps)
    BY <1>1, <1>2 DEF TInv, Tabled
  <1>4. \A r \in began'.rows : \E v \in versions' : Same(r, v)
    BY <1>1 DEF TInv, Tabled
  <1> QED
    BY <1>1, <1>3, <1>4 DEF TInv, Tabled

LEMMA RegisterArtifactTabled == TInv /\ RegisterArtifact => Tabled'
  <1> SUFFICES ASSUME TInv, RegisterArtifact PROVE Tabled'
    OBVIOUS
  <1>1. PICK a \in Artifact \ artifacts : artifacts' = artifacts \cup {a}
    BY DEF RegisterArtifact
  <1>2. versions' = versions /\ deps' = deps /\ Written
    BY DEF RegisterArtifact
  <1>3. VersionsOf(a, versions) = {}
    BY <1>1 DEF TInv, Tabled, VersionsOf
  <1>4. Cardinality(VersionsOf(a, versions)) <= MaxVersions
    BY <1>3, FS_EmptySet, CatalogueAssumption
  <1>5. \A b \in artifacts' : Cardinality(VersionsOf(b, versions')) <= MaxVersions
    BY <1>1, <1>2, <1>4 DEF TInv, Tabled
  <1>6. /\ artifacts' \subseteq Artifact
        /\ \A v \in versions' : v.artifact \in artifacts' /\ v.rank \in Rank /\ IsDeps(deps'[v.id])
        /\ \A v, w \in versions' : v.id = w.id => v = w
    BY <1>1, <1>2 DEF TInv, Tabled
  <1> QED
    BY <1>2, <1>5, <1>6, WrittenTabled

\* The id of a new version is greater than all others.
LEMMA NewVersion ==
    ASSUME TInv, NEW a \in artifacts, NEW r \in Rank, NEW v,
           v = [id |-> Cardinality(versions) + 1, artifact |-> a, rank |-> r]
    PROVE  /\ v \notin versions /\ v.id \in Nat
           /\ \A w \in versions : w.id \in Nat /\ w.id < v.id
  <1>1. Cardinality(versions) \in Nat
    BY FS_CardinalityType DEF TInv, IInv, IdsAreDense
  <1>2. \A w \in versions : w.id \in 1 .. Cardinality(versions)
    BY DEF TInv, IInv, IdsAreDense
  <1> QED
    BY <1>1, <1>2

LEMMA RegisterVersionTabled == TInv /\ RegisterVersion => Tabled'
  <1> SUFFICES ASSUME TInv, RegisterVersion PROVE Tabled'
    OBVIOUS
  <1>1. PICK a \in artifacts, r \in Rank :
          LET v == [id |-> Cardinality(versions) + 1, artifact |-> a, rank |-> r]
          IN  /\ Cardinality(VersionsOf(a, versions)) < MaxVersions
              /\ versions' = versions \cup {v}
              /\ deps' = [i \in DOMAIN deps \cup {v.id} |-> IF i = v.id THEN <<>> ELSE deps[i]]
    BY DEF RegisterVersion
  <1>1a. PICK v : v = [id |-> Cardinality(versions) + 1, artifact |-> a, rank |-> r]
    OBVIOUS
  <1>1b. /\ Cardinality(VersionsOf(a, versions)) < MaxVersions
         /\ versions' = versions \cup {v}
         /\ deps' = [i \in DOMAIN deps \cup {v.id} |-> IF i = v.id THEN <<>> ELSE deps[i]]
    BY <1>1, <1>1a
  <1>2. artifacts' = artifacts /\ Written
    BY DEF RegisterVersion
  <1>3. /\ v \notin versions /\ v.id \in Nat
        /\ \A w \in versions : w.id \in Nat /\ w.id < v.id
    BY <1>1a, NewVersion
  <1>4. v.artifact = a /\ v.rank = r
    BY <1>1a
  <1>5. IsDeps(<<>>)
    BY DEF IsDeps
  <1>6. \A w \in versions : w.id \in DOMAIN deps /\ w.id # v.id
    BY <1>3 DEF TInv, IInv, IdsAreDense
  <1>7. ASSUME NEW w \in versions'
        PROVE  w.artifact \in artifacts' /\ w.rank \in Rank /\ IsDeps(deps'[w.id])
    <2>1. CASE w = v
      <3>1. deps'[v.id] = <<>>
        BY <1>1b
      <3> QED
        BY <1>2, <1>4, <1>5, <2>1, <3>1
    <2>2. CASE w \in versions
      <3>1. deps'[w.id] = deps[w.id]
        BY <1>1b, <1>6, <2>2
      <3> QED
        BY <1>2, <2>2, <3>1 DEF TInv, Tabled
    <2> QED
      BY <1>1b, <2>1, <2>2
  <1>8. \A w, x \in versions' : w.id = x.id => w = x
    BY <1>1b, <1>6 DEF TInv, Tabled
  <1>9. ASSUME NEW b \in artifacts'
        PROVE  Cardinality(VersionsOf(b, versions')) <= MaxVersions
    <2>1. CASE b = a
      <3>1. VersionsOf(a, versions') = VersionsOf(a, versions) \cup {v}
        BY <1>1b, <1>4 DEF VersionsOf
      <3>2. IsFiniteSet(VersionsOf(a, versions))
        BY FS_Subset DEF VersionsOf, TInv, IInv, IdsAreDense
      <3>3. v \notin VersionsOf(a, versions)
        BY <1>3 DEF VersionsOf
      <3>4. Cardinality(VersionsOf(a, versions')) = Cardinality(VersionsOf(a, versions)) + 1
        BY <3>1, <3>2, <3>3, FS_AddElement
      <3>5. Cardinality(VersionsOf(a, versions)) \in Nat /\ MaxVersions \in Nat
        BY <3>2, FS_CardinalityType, CatalogueAssumption
      <3> QED
        BY <1>1b, <2>1, <3>4, <3>5
    <2>2. CASE b # a
      <3>1. VersionsOf(b, versions') = VersionsOf(b, versions)
        BY <1>1b, <1>4, <2>2 DEF VersionsOf
      <3> QED
        BY <1>2, <3>1 DEF TInv, Tabled
    <2> QED
      BY <2>1, <2>2
  <1>10. versions \subseteq versions' /\ artifacts' \subseteq Artifact
    BY <1>1b, <1>2 DEF TInv, Tabled
  <1> QED
    BY <1>2, <1>7, <1>8, <1>9, <1>10, WrittenTabled

LEMMA PutDependenciesTabled == TInv /\ PutDependencies => Tabled'
  <1> SUFFICES ASSUME TInv, PutDependencies PROVE Tabled'
    OBVIOUS
  <1>1. PICK v \in versions, d \in Choices : deps' = [deps EXCEPT ![v.id] = d]
    BY DEF PutDependencies
  <1>2. versions' = versions /\ artifacts' = artifacts /\ Written
    BY DEF PutDependencies
  <1>3. IsDeps(d)
    BY RequestsAssumption
  <1>4. \A w \in versions : w.id \in DOMAIN deps
    BY DEF TInv, IInv, IdsAreDense
  <1>5. \A w \in versions : IsDeps(deps'[w.id])
    BY <1>1, <1>3, <1>4 DEF TInv, Tabled
  <1> QED
    BY <1>2, <1>5, WrittenTabled DEF TInv, Tabled

LEMMA ReadTabled == TInv /\ Read => Tabled'
  <1> SUFFICES ASSUME TInv, Read PROVE Tabled'
    OBVIOUS
  <1>1. UNCHANGED <<tables, history, request>>
    BY DEF Read, FindArtifact, ListArtifacts, ListVersions, LoadDependencies, CheckReadiness,
           FindVersions, ReadDependencies, ReplyDirect
  <1>2. faults' \in Nat
    BY DEF TInv, Tabled, Read, FindArtifact, ListArtifacts, ListVersions, LoadDependencies,
           CheckReadiness, FindVersions, ReadDependencies, ReplyDirect, Works, Fails
  <1> QED
    BY <1>1, <1>2 DEF TInv, Tabled, tables, history

LEMMA StepTabled == TInv /\ [Next]_vars => TInv'
  <1> SUFFICES ASSUME TInv, [Next]_vars PROVE TInv'
    OBVIOUS
  <1>1. IInv'
    BY StepInv DEF TInv
  <1>2. CASE UNCHANGED vars
    BY <1>1, <1>2 DEF TInv, Tabled, vars, tables, history
  <1> QED
    BY <1>1, <1>2, RegisterArtifactTabled, RegisterVersionTabled, PutDependenciesTabled, ReadTabled
    DEF TInv, Next, Write, Ended

LEMMA TablesInvariance == Spec => []TInv
  <1>1. Init => TInv
    BY InitInv, InitTabled DEF TInv
  <1> QED
    BY <1>1, StepTabled, PTL DEF Spec
-----------------------------------------------------------------------------
(* The direct reads. *)

AllDeps == UNION {[S -> SUBSET Rank] : S \in SUBSET Artifact}

\* Where a request of each kind is, and, while no read has failed, what it has read is what
\* the version it asked for had.
Direct ==
    /\ pc \in {"find", "version"} => maps = <<>>
    /\ pc \in {"version", "direct"} => request.kind # "readiness"
    /\ pc \in {"list", "load"} => request.kind = "readiness"
    /\ pc = "direct" =>
          /\ maps \in Seq(AllDeps)
          /\ faults = 0 => \A i \in 1 .. Len(maps) : maps[i] \in Had(i)
    /\ DirectReadsAreTrue

LEMMA DepsType == \A d : d \in AllDeps <=> IsDeps(d)
  <1>1. ASSUME NEW d, IsDeps(d) PROVE d \in AllDeps
    BY <1>1 DEF AllDeps, IsDeps
  <1>2. ASSUME NEW d, d \in AllDeps PROVE IsDeps(d)
    BY <1>2 DEF AllDeps, IsDeps
  <1> QED
    BY <1>1, <1>2

\* Whatever two sets of dependencies are compared, the diff leads from one to the other.
LEMMA DifferenceLeads ==
    ASSUME NEW a, NEW b, IsDeps(a), IsDeps(b) PROVE Leads(Difference(a, b), a, b)
  BY DEF IsDeps, Difference, Leads, Restrict

\* A version keeps its place in registration order.
LEMMA AskedIsKept ==
    ASSUME TInv, versions \subseteq versions', request' = request,
           \A v \in versions : v.id \in Nat,
           \A w \in versions' \ versions : w.id \in Nat /\ \A v \in versions : v.id < w.id
    PROVE  \A i : Asked(i) \subseteq Asked(i)'
  <1> SUFFICES ASSUME NEW i, NEW v \in Asked(i) PROVE v \in Asked(i)'
    OBVIOUS
  <1>1. PICK name : name = request.artifact
    OBVIOUS
  <1>2. /\ v \in VersionsOf(name, versions)
        /\ Cardinality({w \in VersionsOf(name, versions) : w.id < v.id}) = i - 1
    BY <1>1 DEF Asked
  <1>3. v \in versions /\ v \in VersionsOf(name, versions')
    BY <1>2 DEF VersionsOf
  <1>4. ASSUME NEW w \in versions', w.id < v.id PROVE w \in versions
    BY <1>3, <1>4
  <1>5. {w \in VersionsOf(name, versions') : w.id < v.id}
          = {w \in VersionsOf(name, versions) : w.id < v.id}
    BY <1>4 DEF VersionsOf
  <1>6. request'.artifact = name
    BY <1>1
  <1> QED
    BY <1>2, <1>3, <1>5, <1>6 DEF Asked

\* What a version had, it has had for the rest of the request.
LEMMA HadIsKept ==
    ASSUME request' = request, \A i : Asked(i) \subseteq Asked(i)', ever \subseteq ever'
    PROVE  \A i : Had(i) \subseteq Had(i)'
  BY DEF Had

LEMMA WriteKeepsAsked ==
    ASSUME TInv, Write
    PROVE  /\ \A i : Asked(i) \subseteq Asked(i)'
           /\ ever \subseteq ever' /\ request' = request /\ faults' = faults
           /\ UNCHANGED <<pc, maps, answer>> /\ pc # "answered"
  <1>1. Written
    BY DEF Write, RegisterArtifact, RegisterVersion, PutDependencies
  <1>2. \A v \in versions : v.id \in Nat
    BY FS_CardinalityType DEF TInv, IInv, IdsAreDense
  <1>3. /\ versions \subseteq versions'
        /\ \A w \in versions' \ versions : w.id \in Nat /\ \A v \in versions : v.id < w.id
    <2>1. CASE RegisterVersion
      <3>1. PICK a \in artifacts, r \in Rank :
              versions' = versions \cup
                {[id |-> Cardinality(versions) + 1, artifact |-> a, rank |-> r]}
        BY <2>1 DEF RegisterVersion
      <3> QED
        BY <3>1, NewVersion
    <2>2. CASE RegisterArtifact \/ PutDependencies
      BY <2>2 DEF RegisterArtifact, PutDependencies
    <2> QED
      BY <2>1, <2>2 DEF Write
  <1> QED
    BY <1>1, <1>2, <1>3, AskedIsKept DEF Written



LEMMA WriteDirect == TInv /\ Direct /\ Write => Direct'
  <1> SUFFICES ASSUME TInv, Direct, Write PROVE Direct'
    OBVIOUS
  <1>1. /\ \A i : Asked(i) \subseteq Asked(i)'
        /\ ever \subseteq ever' /\ request' = request /\ faults' = faults
        /\ pc' = pc /\ maps' = maps /\ answer' = answer /\ pc # "answered"
    BY WriteKeepsAsked
  <1>2. \A i : Had(i) \subseteq Had(i)'
    BY <1>1, HadIsKept
  <1>3. DirectReadsAreTrue'
    BY <1>1 DEF DirectReadsAreTrue
  <1>4. ASSUME pc = "direct", faults = 0, NEW i \in 1 .. Len(maps)
        PROVE  maps[i] \in Had(i)'
    <2>1. maps[i] \in Had(i)
      BY <1>4 DEF Direct
    <2> QED
      BY <1>2, <2>1
  <1> QED
    BY <1>1, <1>3, <1>4 DEF Direct

\* Steps of the reader leave what versions had as it was.
LEMMA ReadKeepsHad ==
    ASSUME UNCHANGED <<tables, history, request>>
    PROVE  \A i : Asked(i)' = Asked(i) /\ Had(i)' = Had(i)
  BY DEF Asked, Had, tables, history

AllFound == \A i \in DOMAIN request.asked : Asked(request.asked[i]) # {}

LEMMA ReadKeepsFound == UNCHANGED <<tables, history, request>> => (AllFound' <=> AllFound)
  BY DEF AllFound, Asked, tables, history

\* A step that does not answer, and reads nothing.
LEMMA PassesOn ==
    ASSUME TInv, Direct, UNCHANGED <<tables, history, request, maps>>, faults' \in Nat,
           pc' \in {"version", "list", "load"} \/ (pc' = "direct" /\ maps = <<>>),
           pc' \in {"version", "direct"} => request.kind # "readiness",
           pc' \in {"list", "load"} => request.kind = "readiness",
           pc' = "version" => maps = <<>>
    PROVE  Direct'
  <1>1. DirectReadsAreTrue'
    BY DEF DirectReadsAreTrue
  <1>2. pc' = "direct" => maps' \in Seq(AllDeps) /\ Len(maps') = 0
    OBVIOUS
  <1> QED
    BY <1>1, <1>2 DEF Direct

\* A name or version that is not there when the request looks for it gives no answer of
\* which DirectReadsAreTrue speaks.
LEMMA FindArtifactDirect == TInv /\ Direct /\ FindArtifact => Direct'
  <1> SUFFICES ASSUME TInv, Direct, FindArtifact PROVE Direct'
    OBVIOUS
  <1>1. UNCHANGED <<tables, history, request, maps>> /\ pc = "find" /\ maps = <<>>
    BY DEF FindArtifact, Direct
  <1>2. faults \in Nat /\ request \in Requests
    BY DEF TInv, Tabled
  <1>3. CASE Goto(IF request.kind = "readiness" THEN "list" ELSE "version") /\ Works
    <2>1. pc' = (IF request.kind = "readiness" THEN "list" ELSE "version") /\ faults' = faults
      BY <1>3 DEF Goto, Works
    <2> QED
      BY <1>1, <1>2, <2>1, PassesOn
  <1>4. CASE NotFound
    <2>1. pc' = "answered" /\ (request.kind = "diff" => answer'.code = 404)
      BY <1>4 DEF NotFound, Reply
    <2>2. CASE request.artifact \notin artifacts
      <3>1. \A i : Asked(i) = {}
        BY <2>2 DEF Asked, VersionsOf, TInv, Tabled
      <3>2. \A i : Asked(i)' = {}
        BY <1>1, <3>1, ReadKeepsHad
      <3>3. request.kind = "direct" => 1 \in DOMAIN request.asked
        BY <1>2, RequestsAssumption
      <3>4. DirectReadsAreTrue'
        BY <1>1, <2>1, <3>2, <3>3 DEF DirectReadsAreTrue
      <3> QED
        BY <2>1, <3>4 DEF Direct
    <2>3. CASE Fails
      <3>1. faults' # 0
        BY <1>2, <2>3 DEF Fails
      <3> QED
        BY <2>1, <3>1 DEF Direct, DirectReadsAreTrue
    <2> QED
      BY <2>2, <2>3, <1>4, <2>1 DEF FindArtifact, Goto
  <1> QED
    BY <1>3, <1>4 DEF FindArtifact

LEMMA FindVersionsDirect == TInv /\ Direct /\ FindVersions => Direct'
  <1> SUFFICES ASSUME TInv, Direct, FindVersions PROVE Direct'
    OBVIOUS
  <1>1. /\ UNCHANGED <<tables, history, request, maps>> /\ pc = "version" /\ maps = <<>>
        /\ request.kind # "readiness"
    BY DEF FindVersions, Direct
  <1>2. faults \in Nat /\ request \in Requests
    BY DEF TInv, Tabled
  <1>3. CASE Goto("direct") /\ Works
    <2>1. pc' = "direct" /\ faults' = faults
      BY <1>3 DEF Goto, Works
    <2> QED
      BY <1>1, <1>2, <2>1, PassesOn
  <1>4. CASE NotFound
    <2>1. pc' = "answered"
      BY <1>4 DEF NotFound, Reply
    <2>2. CASE \E k \in DOMAIN request.asked : Asked(request.asked[k]) = {}
      <3>1. ~AllFound'
        BY <1>1, <2>2, ReadKeepsFound DEF AllFound
      <3>5. DirectReadsAreTrue'
        BY <3>1 DEF DirectReadsAreTrue, AllFound
      <3> QED
        BY <2>1, <3>5 DEF Direct
    <2>3. CASE Fails
      <3>1. faults' # 0
        BY <1>2, <2>3 DEF Fails
      <3> QED
        BY <2>1, <3>1 DEF Direct, DirectReadsAreTrue
    <2> QED
      BY <2>2, <2>3, <1>4, <2>1 DEF FindVersions, Goto
  <1> QED
    BY <1>3, <1>4 DEF FindVersions

LEMMA ReadDependenciesDirect == TInv /\ Direct /\ ReadDependencies => Direct'
  <1> SUFFICES ASSUME TInv, Direct, ReadDependencies PROVE Direct'
    OBVIOUS
  <1>1. UNCHANGED <<tables, history, request>> /\ pc = "direct" /\ pc' = "direct"
        /\ maps \in Seq(AllDeps) /\ request.kind # "readiness"
    BY DEF ReadDependencies, Direct
  <1>2. PICK v \in Asked(request.asked[Len(maps) + 1]) :
          \/ Works /\ maps' = Append(maps, deps[v.id])
          \/ Fails /\ \E S \in SUBSET DOMAIN deps[v.id] :
                maps' = Append(maps, Restrict(deps[v.id], S))
    BY DEF ReadDependencies
  <1>3. v \in versions
    BY DEF Asked, VersionsOf
  <1>4. IsDeps(deps[v.id]) /\ faults \in Nat
    BY <1>3 DEF TInv, Tabled
  <1>5. CASE Works /\ maps' = Append(maps, deps[v.id])
    <2>1. deps[v.id] \in AllDeps
      BY <1>4, DepsType
    <2>2. PICK d : d = deps[v.id]
      OBVIOUS
    <2>3. maps' \in Seq(AllDeps) /\ Len(maps') = Len(maps) + 1 /\ maps'[Len(maps) + 1] = d
          /\ \A i \in 1 .. Len(maps) : maps'[i] = maps[i]
      BY <1>1, <1>5, <2>1, <2>2
    <2>4. d \in Had(Len(maps) + 1)
      <3>1. Row(v, d) \in ever
        BY <1>3, <2>2 DEF TInv, IInv, ReadsAreRows, Rows
      <3>2. Row(v, d).id = v.id /\ Row(v, d).deps = d
        BY RowFields
      <3> QED
        BY <3>1, <3>2 DEF Had
    <2>5. faults' = faults
      BY <1>5 DEF Works
    <2>6. ASSUME faults' = 0, NEW i \in 1 .. Len(maps')
          PROVE  maps'[i] \in Had(i)
      <3>1. CASE i = Len(maps) + 1
        BY <2>3, <2>4, <3>1
      <3>2. CASE i \in 1 .. Len(maps)
        BY <1>1, <2>3, <2>5, <2>6, <3>2 DEF Direct
      <3> QED
        BY <1>1, <2>3, <3>1, <3>2
    <2>7. ASSUME faults' = 0, NEW i \in 1 .. Len(maps')
          PROVE  maps'[i] \in Had(i)'
      BY <1>1, <2>6, <2>7 DEF Had, Asked, tables, history
    <2> QED
      BY <1>1, <2>3, <2>7 DEF Direct, DirectReadsAreTrue
  <1>6. CASE Fails /\ \E S \in SUBSET DOMAIN deps[v.id] : maps' = Append(maps, Restrict(deps[v.id], S))
    <2>1. PICK S \in SUBSET DOMAIN deps[v.id] : maps' = Append(maps, Restrict(deps[v.id], S))
      BY <1>6
    <2>2. IsDeps(Restrict(deps[v.id], S))
      BY <1>4 DEF IsDeps, Restrict
    <2>3. maps' \in Seq(AllDeps)
      BY <1>1, <2>1, <2>2, DepsType
    <2>4. faults' # 0
      BY <1>4, <1>6 DEF Fails
    <2> QED
      BY <1>1, <2>3, <2>4 DEF Direct, DirectReadsAreTrue
  <1> QED
    BY <1>2, <1>5, <1>6

LEMMA ReplyDirectDirect == TInv /\ Direct /\ ReplyDirect => Direct'
  <1> SUFFICES ASSUME TInv, Direct, ReplyDirect PROVE Direct'
    OBVIOUS
  <1>1. /\ UNCHANGED <<tables, history, request, maps, faults>>
        /\ pc = "direct" /\ Len(maps) = Len(request.asked) /\ maps \in Seq(AllDeps)
    BY DEF ReplyDirect, Direct
  <1>2. /\ pc' = "answered"
        /\ answer' = IF request.kind = "diff" THEN [code |-> 200, diff |-> Difference(maps[1], maps[2])]
                     ELSE [code |-> 200, deps |-> maps[1]]
    BY DEF ReplyDirect, Reply
  <1>3. request \in Requests
    BY DEF TInv, Tabled
  <1> SUFFICES ASSUME request.kind \in {"diff", "direct"}, faults = 0
               PROVE  IF request.kind = "direct" THEN answer'.deps \in Had(1)'
                      ELSE \E a \in Had(1)', b \in Had(2)' :
                              Leads(answer'.diff, a, b)
    BY <1>1, <1>2 DEF Direct, DirectReadsAreTrue
  <1>4. \A i \in 1 .. Len(maps) : maps[i] \in Had(i)
    BY <1>1 DEF Direct
  <1>5. CASE request.kind = "direct"
    <2>0. Len(request.asked) = 1
      BY <1>3, <1>5, RequestsAssumption
    <2>1. 1 \in 1 .. Len(maps)
      BY <1>1, <2>0
    <2> QED
      <3>1. maps[1] \in Had(1)'
        BY <1>1, <1>4, <2>1, ReadKeepsHad
      <3>2. answer'.deps = maps[1]
        BY <1>2, <1>5
      <3> QED
        BY <1>5, <3>1, <3>2
  <1>6. CASE request.kind = "diff"
    <2>0. Len(request.asked) = 2
      BY <1>3, <1>6, RequestsAssumption
    <2>1. 1 \in 1 .. Len(maps) /\ 2 \in 1 .. Len(maps)
      BY <1>1, <2>0
    <2>2. IsDeps(maps[1]) /\ IsDeps(maps[2])
      BY <1>1, <2>1, DepsType
    <2>3. Leads(Difference(maps[1], maps[2]), maps[1], maps[2])
      BY <2>2, DifferenceLeads
    <2>4. answer'.diff = Difference(maps[1], maps[2])
      BY <1>2, <1>6
    <2>5. maps[1] \in Had(1)' /\ maps[2] \in Had(2)'
      BY <1>1, <1>4, <2>1, ReadKeepsHad
    <2> QED
      BY <1>6, <2>3, <2>4, <2>5
  <1> QED
    BY <1>5, <1>6

\* The steps of a readiness check.
LEMMA LoadingDirect ==
    TInv /\ Direct /\ (ListArtifacts \/ ListVersions \/ LoadDependencies \/ CheckReadiness)
    => Direct'
  <1> SUFFICES ASSUME TInv, Direct,
                      ListArtifacts \/ ListVersions \/ LoadDependencies \/ CheckReadiness
               PROVE  Direct'
    OBVIOUS
  <1>1. /\ UNCHANGED <<request, maps>> /\ pc \in {"list", "load"}
        /\ pc' = "load" \/ pc' = "answered"
    BY DEF ListArtifacts, ListVersions, LoadDependencies, CheckReadiness, Goto, Failed, Reply
  <1>2. request.kind = "readiness"
    BY <1>1 DEF Direct
  <1> QED
    BY <1>1, <1>2 DEF Direct, DirectReadsAreTrue

LEMMA StepDirect == TInv /\ Direct /\ [Next]_vars => Direct'
  <1> SUFFICES ASSUME TInv, Direct, [Next]_vars PROVE Direct'
    OBVIOUS
  <1>1. CASE UNCHANGED vars
    <2>1. /\ UNCHANGED <<tables, history, request>>
          /\ UNCHANGED <<pc, maps, faults, answer>>
      BY <1>1 DEF vars
    <2>2. (\A i : Had(i)' = Had(i)) /\ (AllFound' <=> AllFound)
      BY <2>1, ReadKeepsHad, ReadKeepsFound
    <2>3. DirectReadsAreTrue'
      BY <2>1, <2>2 DEF Direct, DirectReadsAreTrue, AllFound
    <2> QED
      BY <2>1, <2>2, <2>3 DEF Direct
  <1> QED
    BY <1>1, WriteDirect, FindArtifactDirect, FindVersionsDirect, ReadDependenciesDirect,
       ReplyDirectDirect, LoadingDirect DEF Next, Read, Ended

\* A direct listing is one the version had during the request, and a diff leads from one the
\* first version had to one the second had, whatever is registered and PUT between the reads.
THEOREM DirectReads == Spec => []DirectReadsAreTrue
  <1>1. Init => Direct
    BY DEF Init, Direct, DirectReadsAreTrue
  <1>2. Direct => DirectReadsAreTrue
    BY DEF Direct
  <1> QED
    BY <1>1, <1>2, StepDirect, TablesInvariance, PTL DEF Spec
-----------------------------------------------------------------------------
(* The index that is built from a set of rows. *)

\* Rows that can be put in order: of distinct ids, which are numbers, as the ranks are.
Sortable(S) ==
    /\ IsFiniteSet(S)
    /\ \A v \in S : v.id \in Nat /\ v.rank \in Nat
    /\ \A v, w \in S : v.id = w.id => v = w

Above(S, v) == {w \in S : Before(w, v)}

\* The numbers of rows above tell them apart, and are all those below the number of rows.
LEMMA Positions ==
    ASSUME NEW S, Sortable(S)
    PROVE  /\ Cardinality(S) \in Nat
           /\ \A k \in 1 .. Cardinality(S) : \E v \in S : Cardinality(Above(S, v)) = k - 1
           /\ \A v \in S : /\ Cardinality(Above(S, v)) \in Nat
                          /\ Cardinality(Above(S, v)) + 1 \in 1 .. Cardinality(S)
           /\ \A v, w \in S : Cardinality(Above(S, v)) = Cardinality(Above(S, w)) => v = w
  <1>1. Cardinality(S) \in Nat /\ IsFiniteSet(S)
    BY FS_CardinalityType DEF Sortable
  <1>2. ASSUME NEW v \in S
        PROVE  /\ IsFiniteSet(Above(S, v))
               /\ Cardinality(Above(S, v)) \in Nat /\ Cardinality(Above(S, v)) < Cardinality(S)
    <2>1. v \notin Above(S, v)
      BY DEF Above, Before, Sortable
    <2>2. Above(S, v) \in SUBSET S /\ Above(S, v) # S
      BY <2>1 DEF Above
    <2>3. /\ IsFiniteSet(Above(S, v))
          /\ Cardinality(Above(S, v)) <= Cardinality(S)
          /\ Cardinality(Above(S, v)) # Cardinality(S)
      BY <1>1, <2>2, FS_Subset
    <2>4. Cardinality(Above(S, v)) \in Nat
      BY <2>3, FS_CardinalityType
    <2> QED
      BY <1>1, <2>3, <2>4
  <1>3. ASSUME NEW v \in S, NEW w \in S, Before(v, w)
        PROVE  Cardinality(Above(S, v)) < Cardinality(Above(S, w))
    <2>1. v \in Above(S, w) /\ v \notin Above(S, v)
      BY <1>3 DEF Above, Before, Sortable
    <2>2. ASSUME NEW x \in Above(S, v) PROVE x \in Above(S, w)
      <3>1. x \in S /\ Before(x, v)
        BY DEF Above
      <3>2. Before(x, w)
        BY <1>3, <3>1 DEF Before, Sortable
      <3> QED
        BY <3>1, <3>2 DEF Above
    <2>3. Above(S, v) \in SUBSET Above(S, w) /\ Above(S, v) # Above(S, w)
      BY <2>1, <2>2
    <2>4. /\ Cardinality(Above(S, v)) <= Cardinality(Above(S, w))
          /\ Cardinality(Above(S, v)) # Cardinality(Above(S, w))
      BY <1>2, <2>3, FS_Subset
    <2> QED
      BY <1>2, <2>4
  <1>4. ASSUME NEW v \in S, NEW w \in S, v # w PROVE Before(v, w) \/ Before(w, v)
    BY <1>4 DEF Before, Sortable
  <1>5. \A v, w \in S : Cardinality(Above(S, v)) = Cardinality(Above(S, w)) => v = w
    BY <1>2, <1>3, <1>4
  <1>6. \A v \in S : Cardinality(Above(S, v)) + 1 \in 1 .. Cardinality(S)
    BY <1>1, <1>2
  <1> DEFINE f == [v \in S |-> Cardinality(Above(S, v)) + 1]
             n == Cardinality(S)
  <1>7. f \in [S -> 1 .. n] /\ \A v \in S : f[v] = Cardinality(Above(S, v)) + 1
    BY <1>6
  <1>8. \A v, w \in S : f[v] = f[w] => v = w
    BY <1>2, <1>5
  <1>9. IsFiniteSet(1 .. n) /\ Cardinality(1 .. n) = n
    BY <1>1, FS_Interval
  <1> HIDE DEF f
  <1>10. f \in Injection(S, 1 .. n)
    BY <1>7, <1>8 DEF Injection, IsInjective
  <1>11. f \in Surjection(S, 1 .. n)
    BY <1>9, <1>10, FS_Injection
  <1>12. ASSUME NEW k \in 1 .. n PROVE \E v \in S : Cardinality(Above(S, v)) = k - 1
    <2>1. PICK v \in S : f[v] = k
      BY <1>11 DEF Surjection
    <2> QED
      BY <1>2, <1>7, <2>1
  <1> QED
    BY <1>1, <1>2, <1>5, <1>6, <1>12

\* NewIndex loses none of the versions of an artifact, and has each of them once.
LEMMA Indexed ==
    ASSUME NEW arts, NEW rows, NEW a \in arts, Sortable(VersionsOf(a, rows)),
           NEW list, list = Index(arts, rows)[a]
    PROVE  /\ DOMAIN list = 1 .. Len(list)
           /\ Len(list) = Cardinality(VersionsOf(a, rows))
           /\ Len(list) \in Nat
           /\ \A k \in 1 .. Len(list) : list[k] \in VersionsOf(a, rows)
           /\ \A v \in VersionsOf(a, rows) : \E k \in 1 .. Len(list) : list[k] = v
           /\ \A k, m \in 1 .. Len(list) : list[k] = list[m] => k = m
  <1> DEFINE own == VersionsOf(a, rows)
             n == Cardinality(own)
             At(k) == CHOOSE v \in own : Cardinality(Above(own, v)) = k - 1
  <1>1. /\ n \in Nat
        /\ \A k \in 1 .. n : \E v \in own : Cardinality(Above(own, v)) = k - 1
        /\ \A v \in own : /\ Cardinality(Above(own, v)) \in Nat
                        /\ Cardinality(Above(own, v)) + 1 \in 1 .. n
        /\ \A v, w \in own : Cardinality(Above(own, v)) = Cardinality(Above(own, w)) => v = w
    BY Positions
  <1>2. list = [k \in 1 .. n |-> At(k)]
    BY DEF Index, Above
  <1>3. ASSUME NEW k \in 1 .. n
        PROVE  At(k) \in own /\ Cardinality(Above(own, At(k))) = k - 1
    BY <1>1
  <1> HIDE DEF At, own
  <1>3a. DOMAIN list = 1 .. n /\ \A k \in 1 .. n : list[k] = At(k)
    BY <1>2
  <1>3b. list \in [1 .. n -> own]
    BY <1>2, <1>3
  <1>3c. n \in Nat
    BY <1>1
  <1>4. list \in Seq(own) /\ DOMAIN list = 1 .. n
    <2> HIDE DEF n
    <2> QED
      BY <1>3a, <1>3b, <1>3c
  <1>5. Len(list) = n
    BY <1>1, <1>4
  <1>6. ASSUME NEW v \in own PROVE \E k \in 1 .. n : list[k] = v
    <2>1. PICK k \in 1 .. n : k = Cardinality(Above(own, v)) + 1
      BY <1>1
    <2>2. Cardinality(Above(own, v)) \in Int
      BY <1>1
    <2>3. Cardinality(Above(own, At(k))) = Cardinality(Above(own, v))
      BY <1>3, <2>1, <2>2
    <2> QED
      BY <1>1, <1>2, <1>3, <2>3
  <1>7. ASSUME NEW k \in 1 .. n, NEW m \in 1 .. n, list[k] = list[m] PROVE k = m
    BY <1>2, <1>3, <1>7
  <1> QED
    BY <1>1, <1>4, <1>5, <1>6, <1>7, <1>2, <1>3 DEF own
-----------------------------------------------------------------------------
(* The readiness check. *)

\* The version of a loaded row is registered, and the row is up to date unless it was PUT.
Found(l) == \E v \in versions : Same(l, v) /\ (l.id \in puts \/ l = Row(v, deps[v.id]))

\* Each version is loaded at most once, after its artifact was reached, and none that was
\* there at the start is passed.
Loading ==
    /\ toRead \subseteq listed /\ listed \subseteq artifacts
    /\ IsFiniteSet(loaded)
    /\ \A l \in loaded : l.artifact \in listed \ toRead /\ Found(l)
    /\ \A l, m \in loaded : l.id = m.id => l = m
    /\ \A v \in unread : v.artifact \in listed \ toRead
    /\ \A l \in loaded, v \in unread : l.id # v.id
    /\ \A r \in began.rows : r.artifact \in toRead \/ \E v \in unread \cup loaded : Same(r, v)

\* A selection that the resolver found in the graph, for a version of the root that it tries.
Resolved ==
    /\ Loading /\ Loaded
    /\ request.artifact \in DOMAIN ix
    /\ \E c \in RootCandidates(ix, request.artifact, Wanted) :
          chosen \in Solutions(ix, request.artifact, c)

Piecemeal ==
    /\ pc # "answered" => status = "pending"
    /\ pc \in {"find", "list"} => loaded = {} /\ unread = {}
    /\ pc = "load" => Loading
    /\ status = "succeeded" => Resolved

LEMMA WriteKeeps ==
    ASSUME TInv, Write
    PROVE  /\ artifacts \subseteq artifacts' /\ versions \subseteq versions' /\ puts \subseteq puts'
           /\ \A v \in versions : v.id \in puts' \/ deps'[v.id] = deps[v.id]
           /\ UNCHANGED <<began, pc, graph, status>> /\ pc # "answered"
  <1>1. Written
    BY DEF Write, RegisterArtifact, RegisterVersion, PutDependencies
  <1>2. UNCHANGED <<began, pc, graph, status>> /\ pc # "answered"
    BY <1>1 DEF Written, result
  <1>3. \A v \in versions : v.id \in DOMAIN deps /\ v.id \in Nat
    BY FS_CardinalityType DEF TInv, IInv, IdsAreDense
  <1>4. CASE RegisterArtifact
    BY <1>2, <1>4 DEF RegisterArtifact
  <1>5. CASE RegisterVersion
    <2>1. PICK a \in artifacts, r \in Rank :
            LET v == [id |-> Cardinality(versions) + 1, artifact |-> a, rank |-> r]
            IN  /\ versions' = versions \cup {v}
                /\ deps' = [i \in DOMAIN deps \cup {v.id} |-> IF i = v.id THEN <<>> ELSE deps[i]]
      BY <1>5 DEF RegisterVersion
    <2>2. PICK v : v = [id |-> Cardinality(versions) + 1, artifact |-> a, rank |-> r]
      OBVIOUS
    <2>3. /\ versions' = versions \cup {v}
          /\ deps' = [i \in DOMAIN deps \cup {v.id} |-> IF i = v.id THEN <<>> ELSE deps[i]]
      BY <2>1, <2>2
    <2>4. \A w \in versions : w.id # v.id
      BY <2>2, NewVersion
    <2>5. \A w \in versions : deps'[w.id] = deps[w.id]
      BY <1>3, <2>3, <2>4
    <2>6. artifacts' = artifacts /\ puts' = puts
      BY <1>5 DEF RegisterVersion
    <2> QED
      BY <1>2, <2>3, <2>5, <2>6
  <1>6. CASE PutDependencies
    <2>1. PICK v \in versions, d \in Choices :
            deps' = [deps EXCEPT ![v.id] = d] /\ puts' = puts \cup {v.id}
      BY <1>6 DEF PutDependencies
    <2>2. versions' = versions /\ artifacts' = artifacts
      BY <1>6 DEF PutDependencies
    <2>3. \A w \in versions : w.id \in puts' \/ deps'[w.id] = deps[w.id]
      BY <2>1
    <2> QED
      BY <1>2, <2>1, <2>2, <2>3
  <1> QED
    BY <1>4, <1>5, <1>6 DEF Write

\* What is loaded stays as good as it was, whatever is written.
LEMMA WritePiecemeal == TInv /\ Piecemeal /\ Write => Piecemeal'
  <1> SUFFICES ASSUME TInv, Piecemeal, Write PROVE Piecemeal'
    OBVIOUS
  <1>1. /\ artifacts \subseteq artifacts' /\ versions \subseteq versions' /\ puts \subseteq puts'
        /\ \A v \in versions : v.id \in puts' \/ deps'[v.id] = deps[v.id]
        /\ UNCHANGED <<began, pc, graph, status>> /\ pc # "answered"
    BY WriteKeeps
  <1>2. ASSUME NEW l, Found(l) PROVE Found(l)'
    <2>1. PICK v \in versions : Same(l, v) /\ (l.id \in puts \/ l = Row(v, deps[v.id]))
      BY <1>2 DEF Found
    <2>2. Same(l, v) /\ (l.id \in puts' \/ l = Row(v, deps'[v.id]))
      BY <1>1, <2>1 DEF Same
    <2> QED
      BY <1>1, <2>1, <2>2 DEF Found
  <1>3. Loading => Loading'
    BY <1>1, <1>2 DEF Loading, graph
  <1>4. status' # "succeeded"
    BY <1>1 DEF Piecemeal
  <1> QED
    BY <1>1, <1>3, <1>4 DEF Piecemeal, graph

\* A step of the reader that leaves the call unanswered, or answers it without a check.
LEMMA NotChecked ==
    ASSUME TInv, Piecemeal, pc # "answered", status' = status,
           pc' \in {"find", "list"} => loaded' = {} /\ unread' = {},
           pc' = "load" => Loading'
    PROVE  Piecemeal'
  BY DEF Piecemeal

\* Found looks at the tables only.
LEMMA FoundIsKept ==
    ASSUME UNCHANGED <<tables, history>> PROVE \A l : Found(l)' <=> Found(l)
  BY DEF Found, tables, history

LEMMA ListArtifactsPiecemeal == TInv /\ Piecemeal /\ ListArtifacts => Piecemeal'
  <1> SUFFICES ASSUME TInv, Piecemeal, ListArtifacts PROVE Piecemeal'
    OBVIOUS
  <1>1. /\ pc = "list" /\ status' = status /\ UNCHANGED <<tables, history, unread, loaded>>
        /\ pc' = "load" => toRead' = artifacts /\ listed' = artifacts
        /\ pc' \in {"load", "answered"}
    BY DEF ListArtifacts, Goto, Failed, Reply, result
  <1>2. loaded = {} /\ unread = {}
    BY <1>1 DEF Piecemeal
  <1>3. \A r \in began.rows : r.artifact \in artifacts
    BY DEF TInv, IInv, StartIsKept
  <1>4. pc' = "load" => Loading'
    BY <1>1, <1>2, <1>3, FS_EmptySet DEF Loading, tables, history
  <1> QED
    BY <1>1, <1>4, NotChecked

LEMMA ListVersionsPiecemeal == TInv /\ Piecemeal /\ ListVersions => Piecemeal'
  <1> SUFFICES ASSUME TInv, Piecemeal, ListVersions PROVE Piecemeal'
    OBVIOUS
  <1>1. /\ pc = "load" /\ unread = {} /\ status' = status
        /\ UNCHANGED <<tables, history, listed, loaded>>
        /\ pc' \in {"load", "answered"}
    BY DEF ListVersions, Goto, Failed, Reply, result
  <1>2. PICK a \in toRead : /\ toRead' = toRead \ {a}
                            /\ pc' = "load" => unread' = VersionsOf(a, versions)
    BY DEF ListVersions, Failed, Reply
  <1>3. Loading
    BY <1>1 DEF Piecemeal
  <1> SUFFICES ASSUME pc' = "load" PROVE Loading'
    BY <1>1, NotChecked
  <1>4. \A l \in loaded : l.artifact \in listed \ toRead' /\ Found(l)'
    BY <1>1, <1>2, <1>3, FoundIsKept DEF Loading
  <1>5. \A v \in unread' : v \in versions /\ v.artifact = a
    BY <1>2 DEF VersionsOf
  <1>6. ASSUME NEW l \in loaded, NEW v \in unread' PROVE l.id # v.id
    <2>1. PICK w \in versions : Same(l, w)
      BY <1>3 DEF Loading, Found
    <2>2. l.artifact # a
      BY <1>2, <1>3 DEF Loading
    <2> QED
      BY <1>5, <2>1, <2>2 DEF Same, TInv, Tabled
  <1>7. ASSUME NEW r \in began.rows
        PROVE  r.artifact \in toRead' \/ \E v \in unread' \cup loaded : Same(r, v)
    <2>1. CASE r.artifact = a
      <3>1. PICK v \in versions : Same(r, v)
        BY DEF TInv, Tabled
      <3>2. v \in unread'
        BY <1>2, <2>1, <3>1 DEF VersionsOf, Same
      <3> QED
        BY <3>1, <3>2
    <2>2. CASE r.artifact # a
      BY <1>1, <1>2, <1>3, <2>2 DEF Loading
    <2> QED
      BY <2>1, <2>2
  <1>8. began' = began /\ artifacts' = artifacts
    BY <1>1 DEF tables, history
  <1>9. \A v \in unread' : v.artifact \in listed \ toRead'
    BY <1>2, <1>3, <1>5 DEF Loading
  <1> QED
    BY <1>1, <1>2, <1>3, <1>4, <1>6, <1>7, <1>8, <1>9 DEF Loading

LEMMA LoadDependenciesPiecemeal == TInv /\ Piecemeal /\ LoadDependencies => Piecemeal'
  <1> SUFFICES ASSUME TInv, Piecemeal, LoadDependencies PROVE Piecemeal'
    OBVIOUS
  <1>1. /\ pc = "load" /\ status' = status
        /\ UNCHANGED <<tables, history, toRead, listed>>
        /\ pc' \in {"load", "answered"}
    BY DEF LoadDependencies, Goto, Failed, Reply, result
  <1>2. PICK v \in unread : /\ unread' = unread \ {v}
                            /\ pc' = "load" => loaded' = loaded \cup {Row(v, deps[v.id])}
    BY DEF LoadDependencies, Failed, Reply
  <1>3. Loading
    BY <1>1 DEF Piecemeal
  <1> SUFFICES ASSUME pc' = "load" PROVE Loading'
    BY <1>1, NotChecked
  <1>4. PICK new : new = Row(v, deps[v.id])
    OBVIOUS
  <1>5. v \in versions /\ Same(new, v)
    BY <1>4, RowFields, RowRank DEF TInv, IInv, ReadsAreRows, Same
  <1>6. loaded' = loaded \cup {new} /\ Found(new)
    BY <1>2, <1>4, <1>5 DEF Found
  <1>7. new.artifact \in listed \ toRead
    BY <1>2, <1>3, <1>5 DEF Loading, Same
  <1>8. IsFiniteSet(loaded')
    BY <1>3, <1>6, FS_AddElement DEF Loading
  <1>9. \A l \in loaded' : l.artifact \in listed \ toRead /\ Found(l)'
    BY <1>1, <1>3, <1>6, <1>7, FoundIsKept DEF Loading
  <1>10. \A l \in loaded : l.id # new.id
    BY <1>2, <1>3, <1>5 DEF Loading, Same
  <1>11. \A l, m \in loaded' : l.id = m.id => l = m
    BY <1>3, <1>6, <1>10 DEF Loading
  <1>12. ASSUME NEW l \in loaded', NEW w \in unread' PROVE l.id # w.id
    <2>1. w \in versions /\ w # v /\ w \in unread
      BY <1>2 DEF TInv, IInv, ReadsAreRows
    <2>2. w.id # v.id
      BY <1>5, <2>1 DEF TInv, Tabled
    <2> QED
      BY <1>3, <1>5, <1>6, <2>1, <2>2 DEF Loading, Same
  <1>13. ASSUME NEW r \in began.rows
         PROVE  r.artifact \in toRead \/ \E w \in unread' \cup loaded' : Same(r, w)
    <2>1. CASE Same(r, v)
      BY <1>5, <1>6, <2>1 DEF Same
    <2>2. CASE ~Same(r, v)
      BY <1>2, <1>3, <1>6, <2>2 DEF Loading
    <2> QED
      BY <2>1, <2>2
  <1>14. began' = began /\ artifacts' = artifacts
    BY <1>1 DEF tables, history
  <1>15. \A w \in unread' : w.artifact \in listed \ toRead
    BY <1>2, <1>3 DEF Loading
  <1> QED
    BY <1>1, <1>3, <1>8, <1>9, <1>11, <1>12, <1>13, <1>14, <1>15 DEF Loading

\* Resolver has its own copy of the catalogue, with the same definitions.
LEMMA SpecSolutions ==
    \A c : Resolver!Solutions(ix, request.artifact, c) = Solutions(ix, request.artifact, c)
  BY DEF Resolver!Solutions, Solutions, Resolver!Assignment, Assignment, Resolver!Legal, Legal,
         Resolver!Consistent, Consistent, Resolver!Needs, Needs, Resolver!Met, Met,
         Resolver!Accepts, Accepts, Resolver!Selected, Selected, Resolver!Reach, Reach,
         Resolver!Closed, Closed

LEMMA CheckReadinessPiecemeal == TInv /\ Piecemeal /\ CheckReadiness => Piecemeal'
  <1> SUFFICES ASSUME TInv, Piecemeal, CheckReadiness PROVE Piecemeal'
    OBVIOUS
  <1>1. /\ pc = "load" /\ Loaded /\ Resolver!Answer /\ pc' = "answered"
        /\ UNCHANGED <<tables, request, graph, history>>
    BY DEF CheckReadiness, Reply
  <1>2. Loading
    BY <1>1 DEF Piecemeal
  <1> SUFFICES ASSUME status' = "succeeded" PROVE Resolved'
    BY <1>1 DEF Piecemeal
  <1>3. Resolver!Succeed
    BY <1>1 DEF Resolver!Answer, Resolver!FailMissing, Resolver!FailCycle, Resolver!FailUnsolvable,
                Resolver!Refuse
  <1>4. PICK c \in Resolver!Solvable : chosen' \in Resolver!Solutions(ix, request.artifact, c)
    BY <1>3 DEF Resolver!Succeed
  <1>5. c \in RootCandidates(ix, request.artifact, Wanted)
    BY DEF Resolver!Solvable, Resolver!RootCandidates, RootCandidates
  <1>6. chosen' \in Solutions(ix, request.artifact, c)
    BY <1>4, SpecSolutions
  <1>7. request.artifact \in DOMAIN ix
    BY <1>3 DEF Resolver!Succeed, Resolver!HasVersions
  <1>8. Loading' /\ Loaded'
    BY <1>1, <1>2, FoundIsKept DEF Loading, Loaded, tables, history, graph
  <1>9. ix' = ix /\ Wanted' = Wanted /\ request' = request
    BY <1>1 DEF ix, Wanted, graph
  <1> QED
    BY <1>5, <1>6, <1>7, <1>8, <1>9 DEF Resolved

LEMMA StepPiecemeal == TInv /\ Piecemeal /\ [Next]_vars => Piecemeal'
  <1> SUFFICES ASSUME TInv, Piecemeal, [Next]_vars PROVE Piecemeal'
    OBVIOUS
  <1>1. CASE UNCHANGED vars
    <2>1. /\ UNCHANGED <<tables, history, graph, pc, status, request, chosen>>
      BY <1>1 DEF vars, result
    <2>2. Loading' <=> Loading
      BY <2>1, FoundIsKept DEF Loading, tables, history, graph
    <2>3. ix' = ix /\ Wanted' = Wanted /\ (Loaded' <=> Loaded)
      BY <2>1 DEF ix, Wanted, graph, Loaded
    <2> QED
      BY <2>1, <2>2, <2>3 DEF Piecemeal, Resolved, graph
  <1>2. CASE FindArtifact \/ FindVersions \/ ReadDependencies \/ ReplyDirect
    <2>1. /\ pc \in {"find", "version", "direct"} /\ status' = status /\ UNCHANGED graph
          /\ pc' # "load" /\ pc' # "find"
          /\ pc' = "list" => pc = "find"
      BY <1>2 DEF FindArtifact, FindVersions, ReadDependencies, ReplyDirect, Goto, NotFound, Reply,
                  result
    <2> QED
      BY <2>1, NotChecked DEF Piecemeal, graph
  <1> QED
    BY <1>1, <1>2, WritePiecemeal, ListArtifactsPiecemeal, ListVersionsPiecemeal,
       LoadDependenciesPiecemeal, CheckReadinessPiecemeal DEF Next, Read, Ended

\* What is loaded of one artifact can be put in order.
LEMMA LoadedSortable ==
    ASSUME TInv, Loading, NEW a PROVE Sortable(VersionsOf(a, loaded))
  <1>1. IsFiniteSet(VersionsOf(a, loaded))
    BY FS_Subset DEF Loading, VersionsOf
  <1>2. ASSUME NEW l \in loaded PROVE l.id \in Nat /\ l.rank \in Nat
    <2>1. PICK v \in versions : Same(l, v)
      BY DEF Loading, Found
    <2>2. v.rank \in Rank
      BY DEF TInv, Tabled
    <2>3. v.id \in Nat
      BY FS_CardinalityType DEF TInv, IInv, IdsAreDense
    <2> QED
      BY <2>1, <2>2, <2>3, CatalogueAssumption DEF Same
  <1> QED
    BY <1>1, <1>2 DEF Sortable, VersionsOf, Loading

\* So can the rows of the tables, and there are no more of them than versions.
LEMMA RowsSortable ==
    ASSUME TInv, NEW a \in artifacts
    PROVE  Sortable(VersionsOf(a, Rows)) /\ Cardinality(VersionsOf(a, Rows)) <= MaxVersions
  <1> DEFINE S == VersionsOf(a, versions)
             T == VersionsOf(a, Rows)
             f == [v \in S |-> Row(v, deps[v.id])]
  <1>1. IsFiniteSet(S)
    BY FS_Subset DEF TInv, IInv, IdsAreDense, VersionsOf
  <1>2. ASSUME NEW r \in T PROVE \E v \in S : r = Row(v, deps[v.id])
    <2>1. r \in Rows /\ r.artifact = a
      BY DEF VersionsOf
    <2>2. PICK v \in versions : r = Row(v, deps[v.id])
      BY <2>1 DEF Rows
    <2> QED
      BY <2>1, <2>2, RowFields DEF VersionsOf
  <1>3. ASSUME NEW v \in S PROVE f[v] \in T
    BY RowFields DEF Rows, VersionsOf
  <1>4. f \in Surjection(S, T)
    <2>1. f \in [S -> T]
      BY <1>3
    <2>2. \A r \in T : \E v \in S : f[v] = r
      BY <1>2
    <2> QED
      BY <2>1, <2>2 DEF Surjection
  <1>5. IsFiniteSet(T) /\ Cardinality(T) <= Cardinality(S)
    BY <1>1, <1>4, FS_Surjection
  <1>6. Cardinality(T) <= MaxVersions
    <2>1. Cardinality(S) <= MaxVersions
      BY DEF TInv, Tabled
    <2>2. Cardinality(S) \in Nat /\ Cardinality(T) \in Nat /\ MaxVersions \in Nat
      BY <1>1, <1>5, FS_CardinalityType, CatalogueAssumption
    <2> HIDE DEF S, T
    <2> QED
      BY <1>5, <2>1, <2>2
  <1>7. ASSUME NEW r \in T PROVE r.id \in Nat /\ r.rank \in Nat
    <2>1. PICK v \in S : r = Row(v, deps[v.id])
      BY <1>2
    <2>2. v \in versions
      BY DEF VersionsOf
    <2>3. v.rank \in Rank /\ v.id \in Nat
      BY <2>2, FS_CardinalityType DEF TInv, IInv, IdsAreDense, Tabled
    <2>4. r.id = v.id /\ r.rank = v.rank
      BY <2>1, RowFields, RowRank
    <2>5. v.rank \in Nat
      BY <2>3, CatalogueAssumption
    <2> QED
      BY <2>3, <2>4, <2>5
  <1>8. ASSUME NEW r \in T, NEW q \in T, r.id = q.id PROVE r = q
    <2>1. PICK v \in S : r = Row(v, deps[v.id])
      BY <1>2
    <2>2. PICK w \in S : q = Row(w, deps[w.id])
      BY <1>2
    <2>3. v.id = w.id
      BY <1>8, <2>1, <2>2, RowFields
    <2>4. v = w
      BY <2>3 DEF TInv, Tabled, VersionsOf
    <2> QED
      BY <2>1, <2>2, <2>4
  <1> HIDE DEF S, T, f
  <1>9. IsFiniteSet(T)
    BY <1>5
  <1>10. Sortable(T)
    BY <1>7, <1>8, <1>9 DEF Sortable
  <1> QED
    BY <1>6, <1>10 DEF T

Chosen(a) == a \in DOMAIN ix /\ chosen[a] # 0

\* What a positive report selected of an artifact is in the tables of now, unless it was PUT.
LEMMA PickIsThere ==
    ASSUME TInv, Resolved, \A v \in Picks : v.id \notin puts,
           NEW a, Chosen(a), NEW p, p = ix[a][chosen[a]]
    PROVE  /\ chosen[a] \in 1 .. Len(ix[a]) /\ a \in artifacts
           /\ p \in Picks /\ p \in loaded /\ p.artifact = a
           /\ Place(p) \in 1 .. Len(Now[a]) /\ Len(Now[a]) <= MaxVersions
           /\ Now[a][Place(p)] = p
  <1>1. a \in listed /\ listed \subseteq artifacts
    BY DEF Chosen, ix, Index, Resolved, Loading
  <1>2. PICK c : chosen \in Solutions(ix, request.artifact, c)
    BY DEF Resolved
  <1>3. chosen[a] \in Nat /\ chosen[a] # 0 /\ chosen[a] <= Len(ix[a])
    <2>1. a \in Artifact
      BY <1>1 DEF TInv, Tabled
    <2> QED
      BY <1>2, <2>1, CatalogueAssumption DEF Solutions, Assignment, Legal, Chosen
  <1>4. PICK list : list = ix[a]
    OBVIOUS
  <1>5. /\ Len(list) \in Nat
        /\ \A k \in 1 .. Len(list) : list[k] \in VersionsOf(a, loaded)
    BY <1>1, <1>4, LoadedSortable, Indexed DEF ix, Resolved
  <1>6. chosen[a] \in 1 .. Len(list)
    BY <1>3, <1>4, <1>5
  <1>7. p \in loaded /\ p.artifact = a
    BY <1>4, <1>5, <1>6 DEF VersionsOf
  <1>8. p \in Picks
    BY DEF Picks, Chosen
  <1>9. p \in VersionsOf(a, Rows)
    BY <1>7, <1>8 DEF Resolved, Loading, Found, Rows, VersionsOf
  <1>10. PICK now : now = Now[a]
    OBVIOUS
  <1>11. /\ DOMAIN now = 1 .. Len(now) /\ Len(now) = Cardinality(VersionsOf(a, Rows))
         /\ \A k \in 1 .. Len(now) : now[k] \in VersionsOf(a, Rows)
         /\ \E k \in 1 .. Len(now) : now[k] = p
    BY <1>1, <1>9, <1>10, RowsSortable, Indexed DEF Now
  <1>12. Place(p) = CHOOSE k \in 1 .. Len(now) : now[k].id = p.id
    BY <1>7, <1>10, <1>11 DEF Place
  <1>13. Place(p) \in 1 .. Len(now) /\ now[Place(p)].id = p.id
    BY <1>11, <1>12
  <1>14. now[Place(p)] = p
    BY <1>1, <1>9, <1>11, <1>13, RowsSortable DEF Sortable
  <1>15. Len(now) <= MaxVersions
    BY <1>1, <1>11, RowsSortable
  <1> QED
    BY <1>1, <1>4, <1>6, <1>7, <1>8, <1>10, <1>13, <1>14, <1>15

\* One version is selected of each artifact, and Picked is its place.
LEMMA PickedIsPlace ==
    ASSUME TInv, Resolved, \A v \in Picks : v.id \notin puts, NEW a \in Artifact
    PROVE  /\ Chosen(a) => Picked[a] = Place(ix[a][chosen[a]])
           /\ ~Chosen(a) => Picked[a] = 0
  <1>1. ASSUME NEW v \in Picks, v.artifact = a PROVE Chosen(a) /\ v = ix[a][chosen[a]]
    <2>1. PICK b \in DOMAIN ix : chosen[b] # 0 /\ v = ix[b][chosen[b]]
      BY DEF Picks
    <2>2. v.artifact = b
      BY <2>1, PickIsThere DEF Chosen
    <2> QED
      BY <1>1, <2>1, <2>2 DEF Chosen
  <1>2. CASE Chosen(a)
    <2>1. PICK p : p = ix[a][chosen[a]]
      OBVIOUS
    <2>2. p \in Picks /\ p.artifact = a
      BY <1>2, <2>1, PickIsThere
    <2>3. (CHOOSE v \in Picks : v.artifact = a) = p
      BY <1>1, <2>1, <2>2
    <2> QED
      BY <1>2, <2>1, <2>2, <2>3 DEF Picked
  <1>3. CASE ~Chosen(a)
    BY <1>1, <1>3 DEF Picked
  <1> QED
    BY <1>2, <1>3

\* The selected versions need the same in the graph and in the tables of now.
LEMMA NeedsAreKept ==
    ASSUME TInv, Resolved, \A v \in Picks : v.id \notin puts, NEW a \in Artifact
    PROVE  /\ Needs(Now, Picked, a) = Needs(ix, chosen, a)
           /\ Picked[a] # 0 <=> chosen[a] # 0
           /\ Picked[a] \in 0 .. MaxVersions
           /\ IF a \in DOMAIN Now THEN Picked[a] <= Len(Now[a]) ELSE Picked[a] = 0
           /\ chosen[a] # 0 => /\ a \in DOMAIN ix /\ a \in DOMAIN Now
                              /\ Now[a][Picked[a]] = ix[a][chosen[a]]
  <1>1. DOMAIN Now = artifacts
    BY DEF Now, Index
  <1>2. PICK c : chosen \in Solutions(ix, request.artifact, c)
    BY DEF Resolved
  <1>3. a \notin DOMAIN ix => chosen[a] = 0
    BY <1>2 DEF Solutions, Legal
  <1>4. CASE Chosen(a)
    <2>1. PICK p : p = ix[a][chosen[a]]
      OBVIOUS
    <2>2. PICK k : k = Picked[a]
      OBVIOUS
    <2>3. k = Place(p)
      BY <1>4, <2>1, <2>2, PickedIsPlace
    <2>4. /\ k \in 1 .. Len(Now[a]) /\ Len(Now[a]) <= MaxVersions
          /\ Now[a][k] = p /\ a \in artifacts
      BY <1>4, <2>1, <2>3, PickIsThere
    <2>5. Len(Now[a]) \in Nat
      BY <2>4, RowsSortable, Indexed DEF Now
    <2>6. k # 0 /\ k \in 0 .. MaxVersions /\ k <= Len(Now[a])
      BY <2>4, <2>5, CatalogueAssumption
    <2> QED
      BY <1>1, <1>4, <2>1, <2>2, <2>4, <2>6 DEF Needs, Chosen
  <1>5. CASE ~Chosen(a)
    <2>1. Picked[a] = 0 /\ chosen[a] = 0
      BY <1>3, <1>5, PickedIsPlace DEF Chosen
    <2>2. a \in artifacts => Len(Now[a]) \in Nat
      BY RowsSortable, Indexed DEF Now
    <2> QED
      BY <1>1, <2>1, <2>2, CatalogueAssumption DEF Needs
  <1> QED
    BY <1>4, <1>5

\* So the selection solves the constraints of the tables of now.
LEMMA StillASolution ==
    ASSUME TInv, Resolved, \A v \in Picks : v.id \notin puts
    PROVE  Picked \in Solutions(Now, request.artifact, Picked[request.artifact])
  <1>1. PICK c : chosen \in Solutions(ix, request.artifact, c)
    BY DEF Resolved
  <1>2. Picked \in Assignment
    BY NeedsAreKept DEF Assignment, Picked
  <1>3. Legal(Now, Picked)
    BY NeedsAreKept DEF Legal
  <1>4. ASSUME NEW a \in Artifact, NEW t \in Needs(Now, Picked, a) PROVE Met(Now, Picked, a, t)
    <2>1. t \in Needs(ix, chosen, a)
      BY NeedsAreKept
    <2>2. Met(ix, chosen, a, t)
      BY <1>1, <2>1 DEF Solutions, Consistent
    <2>3. t \in DOMAIN ix /\ chosen[t] # 0 /\ chosen[a] # 0
      BY <2>1, <2>2 DEF Met, Needs
    <2>4. t \in Artifact
      BY <2>3 DEF ix, Index, Resolved, Loading, TInv, Tabled
    <2>5. /\ Now[t][Picked[t]] = ix[t][chosen[t]] /\ t \in DOMAIN Now /\ Picked[t] # 0
          /\ Now[a][Picked[a]] = ix[a][chosen[a]]
      BY <2>3, <2>4, NeedsAreKept
    <2> QED
      BY <2>2, <2>5 DEF Met, Accepts
  <1>5. Consistent(Now, Picked)
    BY <1>4 DEF Consistent
  <1>6. [a \in Artifact |-> Needs(Now, Picked, a)] = [a \in Artifact |-> Needs(ix, chosen, a)]
    BY NeedsAreKept
  <1>7. Selected(Picked) = Selected(chosen)
    BY NeedsAreKept DEF Selected
  <1> QED
    BY <1>1, <1>2, <1>3, <1>5, <1>6, <1>7 DEF Solutions

\* A version of the rank asked for that was there at the start is not passed over.
LEMMA AskedRankIsPicked ==
    ASSUME TInv, Resolved, NEW r \in began.rows,
           r.artifact = request.artifact, r.rank = request.rank
    PROVE  \E v \in Picks : v.artifact = request.artifact /\ v.rank = request.rank
  <1> DEFINE root == request.artifact
  <1>1. PICK l \in loaded : Same(r, l)
    BY DEF Resolved, Loading, Loaded
  <1>2. r.rank \in Rank
    <2>1. PICK v \in versions : Same(r, v)
      BY DEF TInv, Tabled
    <2> QED
      BY <2>1 DEF Same, TInv, Tabled
  <1>3. request.rank # NoRequest
    BY <1>2, CatalogueAssumption DEF NoRequest
  <1>4. Wanted = request.rank
    BY <1>3 DEF Wanted
  <1>5. PICK c \in RootCandidates(ix, root, request.rank) : chosen \in Solutions(ix, root, c)
    BY <1>4 DEF Resolved
  <1>6. root \in listed
    BY DEF Resolved, ix, Index
  <1>7. PICK list : list = ix[root]
    OBVIOUS
  <1>8. l \in VersionsOf(root, loaded) /\ l.rank = request.rank
    BY <1>1 DEF VersionsOf, Same
  <1>9. /\ Len(list) \in Nat
        /\ \A k \in 1 .. Len(list) : list[k] \in VersionsOf(root, loaded)
        /\ \E k \in 1 .. Len(list) : list[k] = l
    BY <1>6, <1>7, <1>8, LoadedSortable, Indexed DEF ix, Resolved
  <1>10. c \in 1 .. Len(list) /\ list[c].rank = request.rank
    BY <1>5, <1>7, <1>8, <1>9 DEF RootCandidates
  <1>11. chosen[root] = c /\ c # 0
    BY <1>5, <1>9, <1>10 DEF Solutions
  <1>12. list[c] \in Picks
    BY <1>7, <1>11 DEF Resolved, Picks
  <1> QED
    BY <1>9, <1>10, <1>12 DEF VersionsOf

\* A positive report holds at the moment it is given, for any tables, any writes between two
\* reads of the graph and any failing read.
THEOREM ReadyIsReady == Spec => []ReadyHolds
  <1>1. Init => Piecemeal
    BY DEF Init, Piecemeal
  <1>2. TInv /\ Piecemeal => ReadyHolds
    <2> SUFFICES ASSUME TInv, Piecemeal, status = "succeeded", \A v \in Picks : v.id \notin puts
                 PROVE  /\ Picked \in Solutions(Now, request.artifact, Picked[request.artifact])
                        /\ \A r \in began.rows :
                              r.artifact = request.artifact /\ r.rank = request.rank =>
                                 \E v \in Picks : /\ v.artifact = request.artifact
                                                 /\ v.rank = request.rank
      BY DEF ReadyHolds
    <2>1. Resolved
      BY DEF Piecemeal
    <2> QED
      BY <2>1, StillASolution, AskedRankIsPicked
  <1> QED
    BY <1>1, <1>2, StepPiecemeal, TablesInvariance, PTL DEF Spec
=============================================================================
