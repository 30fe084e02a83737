--------------------------- MODULE ResolverProofs ---------------------------
(***************************************************************************)
(* What the search of Resolver keeps true for every catalogue, up to the   *)
(* safety part of its abstract specification.  The invariant is built in   *)
(* layers, each needing those before it:                                   *)
(*                                                                         *)
(* IInv  types and soundness.  A call of search that starts sees a copy of *)
(*       the whole order (Fresh), and the order lists every assigned       *)
(*       artifact (Listed), so the innermost call that finds nothing unmet *)
(*       has met every dependency of the selection (Sound); from then on   *)
(*       no call on the stack finds anything unmet, and all return.        *)
(* Walk  where each call is.  Its copy is a prefix of the order, it is at  *)
(*       a dependency of a listed artifact on one it does not list, and    *)
(*       its candidate is next in the order (Frames); so taking back a     *)
(*       candidate removes the last artifact, and the order goes through   *)
(*       the artifacts level by level (Layers).                            *)
(* Complete  what has been ruled out.  No viable selection agrees with     *)
(*       what a call lists and has an earlier candidate of its target;     *)
(*       none agrees with all that a failing call leaves; none has a root  *)
(*       candidate that has failed.                                        *)
(* Reasons, Backed  what the diagnosis and the trace say of a failure.     *)
(***************************************************************************)
EXTENDS Resolver, SequenceTheorems, WellFoundedInduction, TLAPS

Waiting(f) ==
    /\ f.at \in 1 .. Len(f.snap)
    /\ f.dep \in DOMAIN ix
    /\ f.cand \in 1 .. Len(ix[f.dep])

\* The calls below the innermost one, and all of them between two calls, wait for
\* a candidate they have taken; a call that chooses is at a dependency in the index.
Calls ==
    /\ phase \in {"scan", "choose"} => stack # <<>>
    /\ phase = "choose" =>
          /\ Top.at \in 1 .. Len(Top.snap)
          /\ Top.dep \in DOMAIN ix
          /\ Top.cand <= Len(ix[Top.dep])
    /\ \A k \in 1 .. Len(stack) : k < Len(stack) \/ phase = "returned" => Waiting(stack[k])

Searching == phase \in {"roots", "scan", "choose", "returned"} => root \in DOMAIN ix

Distinct == \A i, j \in 1 .. Len(order) : order[i] = order[j] => i = j

Listed == Selected(assigned) = {order[i] : i \in 1 .. Len(order)}

\* As long as no call has succeeded, a call that scans has just begun.
Fresh ==
    phase = "scan" /\ ~found =>
        Top.at = 0 /\ Top.dep = 0 /\ Top.snap = order

Sound ==
    /\ found => Consistent(ix, assigned) /\ phase \in {"scan", "returned", "succeeded"}
    /\ phase = "succeeded" => found

IInv == TypeOK /\ Calls /\ Searching /\ Distinct /\ Listed /\ Fresh /\ Sound

-----------------------------------------------------------------------------
(* Sequences. *)

\* A sequence without its last element.
LEMMA PopFacts ==
    ASSUME NEW S, NEW s \in Seq(S), s # <<>>
    PROVE  /\ Len(s) \in Nat \ {0}
           /\ s[Len(s)] \in S
           /\ Pop(s) \in Seq(S)
           /\ Len(Pop(s)) = Len(s) - 1
           /\ \A k \in 1 .. Len(s) - 1 : Pop(s)[k] = s[k]
  <1>1. Len(s) \in Nat \ {0} /\ s[Len(s)] \in S OBVIOUS
  <1>2. \A k \in 1 .. Len(s) - 1 : s[k] \in S BY <1>1
  <1>3. Pop(s) \in Seq(S) /\ Len(Pop(s)) = Len(s) - 1
    <2> DEFINE m == Len(s) - 1
    <2>1. \A i \in 1 .. m : s[i] \in S BY <1>2
    <2>2. m \in Nat BY <1>1
    <2> HIDE DEF m
    <2>3. m \in Int /\ m - 1 + 1 = m /\ (1 <= m \/ m = 0) BY <2>2
    <2>4. /\ SubSeq(s, 1, m) \in Seq(S)
          /\ Len(SubSeq(s, 1, m)) = IF 1 <= m THEN m - 1 + 1 ELSE 0
          /\ \A i \in 1 .. m - 1 + 1 : SubSeq(s, 1, m)[i] = s[1 + i - 1]
      BY <2>1, <2>3, SubSeqProperties
    <2>5. SubSeq(s, 1, m) \in Seq(S) /\ Len(SubSeq(s, 1, m)) = m BY <2>3, <2>4
    <2> QED BY <2>5 DEF Pop, m
  <1>4. \A k \in 1 .. Len(s) - 1 : Pop(s)[k] = s[k] BY <1>1 DEF Pop
  <1> QED BY <1>1, <1>3, <1>4

\* A sequence with another last element.
LEMMA ReplaceLast ==
    ASSUME NEW S, NEW s \in Seq(S), s # <<>>, NEW f \in S
    PROVE  /\ [s EXCEPT ![Len(s)] = f] \in Seq(S)
           /\ Len([s EXCEPT ![Len(s)] = f]) = Len(s)
           /\ [s EXCEPT ![Len(s)] = f][Len(s)] = f
           /\ \A k \in 1 .. Len(s) - 1 : [s EXCEPT ![Len(s)] = f][k] = s[k]
  OBVIOUS

\* What RemoveFirst does to a sequence without repetitions.
LEMMA RemoveFacts ==
    ASSUME NEW S, NEW s \in Seq(S), NEW e,
           \A i, j \in 1 .. Len(s) : s[i] = s[j] => i = j
    PROVE  /\ RemoveFirst(s, e) \in Seq(S)
           /\ \A i, j \in 1 .. Len(RemoveFirst(s, e)) :
                 RemoveFirst(s, e)[i] = RemoveFirst(s, e)[j] => i = j
           /\ \A i \in 1 .. Len(RemoveFirst(s, e)) :
                 \E j \in 1 .. Len(s) : s[j] = RemoveFirst(s, e)[i] /\ s[j] # e
           /\ \A j \in 1 .. Len(s) :
                 s[j] # e => \E i \in 1 .. Len(RemoveFirst(s, e)) : RemoveFirst(s, e)[i] = s[j]
  <1>1. CASE ~ \E i \in 1 .. Len(s) : s[i] = e
    <2>1. RemoveFirst(s, e) = s BY <1>1 DEF RemoveFirst
    <2> QED BY <1>1, <2>1
  <1>2. CASE \E i \in 1 .. Len(s) : s[i] = e
    <2> DEFINE First(i) == s[i] = e /\ \A j \in 1 .. Len(s) : s[j] = e => i <= j
               k == CHOOSE i \in 1 .. Len(s) : First(i)
               r == RemoveFirst(s, e)
    <2>1. r = [i \in 1 .. Len(s) - 1 |-> IF i < k THEN s[i] ELSE s[i + 1]]
      BY <1>2 DEF RemoveFirst
    <2>2. \E i \in 1 .. Len(s) : First(i) BY <1>2
    <2>3. k \in 1 .. Len(s) /\ First(k) BY <2>2
    <2> HIDE DEF k
    <2>4. Len(s) \in Nat /\ Len(s) - 1 \in Nat BY <2>3
    <2>5. r \in Seq(S) /\ Len(r) = Len(s) - 1 BY <2>1, <2>3, <2>4
    <2>6. \A i \in 1 .. Len(s) - 1 : r[i] = IF i < k THEN s[i] ELSE s[i + 1]
      BY <2>1
    <2> HIDE DEF r
    <2>7. \A i \in 1 .. Len(s) : s[i] = e => i = k BY <2>3
    <2>8. \A i, j \in 1 .. Len(r) : r[i] = r[j] => i = j
      <3> SUFFICES ASSUME NEW i \in 1 .. Len(s) - 1, NEW j \in 1 .. Len(s) - 1, r[i] = r[j]
                   PROVE  i = j
        BY <2>5
      <3> DEFINE At(x) == IF x < k THEN x ELSE x + 1
      <3>1. At(i) \in 1 .. Len(s) /\ At(j) \in 1 .. Len(s) BY <2>3, <2>4
      <3>2. s[At(i)] = s[At(j)] BY <2>6
      <3>3. At(i) = At(j) BY <3>1, <3>2
      <3> QED BY <3>3, <2>3
    <2>9. \A i \in 1 .. Len(r) : \E j \in 1 .. Len(s) : s[j] = r[i] /\ s[j] # e
      <3> SUFFICES ASSUME NEW i \in 1 .. Len(s) - 1
                   PROVE  \E j \in 1 .. Len(s) : s[j] = r[i] /\ s[j] # e
        BY <2>5
      <3>1. CASE i < k BY <3>1, <2>3, <2>4, <2>6, <2>7
      <3>2. CASE ~(i < k) BY <3>2, <2>3, <2>4, <2>6, <2>7
      <3> QED BY <3>1, <3>2
    <2>10. \A j \in 1 .. Len(s) : s[j] # e => \E i \in 1 .. Len(r) : r[i] = s[j]
      <3> SUFFICES ASSUME NEW j \in 1 .. Len(s), s[j] # e
                   PROVE  \E i \in 1 .. Len(s) - 1 : r[i] = s[j]
        BY <2>5
      <3>1. CASE j < k BY <3>1, <2>3, <2>4, <2>6
      <3>2. CASE j > k
        <4>1. j - 1 \in 1 .. Len(s) - 1 /\ ~(j - 1 < k) /\ (j - 1) + 1 = j BY <3>2, <2>3, <2>4
        <4> QED BY <4>1, <2>6
      <3> QED BY <3>1, <3>2, <2>3
    <2> QED BY <2>5, <2>8, <2>9, <2>10 DEF r
  <1> QED BY <1>1, <1>2

-----------------------------------------------------------------------------
(* The parts of the state. *)

LEMMA IndexFacts ==
    ASSUME IsIndex(ix), NEW a \in DOMAIN ix
    PROVE  /\ a \in Artifact
           /\ Len(ix[a]) \in Nat /\ Len(ix[a]) <= MaxVersions
           /\ \A v \in 1 .. Len(ix[a]) : v \in 1 .. MaxVersions
           /\ \A v \in 1 .. Len(ix[a]) : DOMAIN ix[a][v].deps \subseteq Artifact
  <1>1. a \in Artifact /\ Len(ix[a]) \in 0 .. MaxVersions BY DEF IsIndex
  <1>2. \A v \in 1 .. Len(ix[a]) : DOMAIN ix[a][v].deps \subseteq Artifact
    BY DEF IsIndex, IsVersion
  <1> QED BY <1>1, <1>2, CatalogueAssumption

LEMMA TopFacts ==
    ASSUME TypeOK, stack # <<>>
    PROVE  /\ Len(stack) \in Nat \ {0}
           /\ Top \in Frame
           /\ Top.snap \in Seq(Artifact) /\ Top.at \in Nat /\ Top.dep \in Artifact \cup {0}
           /\ Top.cand \in 0 .. MaxVersions
           /\ Pop(stack) \in Seq(Frame)
           /\ Len(Pop(stack)) = Len(stack) - 1
           /\ \A k \in 1 .. Len(stack) - 1 : Pop(stack)[k] = stack[k]
  <1>1. stack \in Seq(Frame) BY DEF TypeOK
  <1>2. Len(stack) \in Nat \ {0} /\ Top \in Frame
        /\ Pop(stack) \in Seq(Frame) /\ Len(Pop(stack)) = Len(stack) - 1
        /\ \A k \in 1 .. Len(stack) - 1 : Pop(stack)[k] = stack[k]
    BY <1>1, PopFacts DEF Top
  <1> QED BY <1>2 DEF Frame

LEMMA AssignKeeps ==
    ASSUME TypeOK, Distinct, Listed, ix' = ix, NEW a \in DOMAIN ix,
           NEW v \in 1 .. Len(ix[a]), NEW d \in Nat, Assign(a, v, d)
    PROVE  /\ assigned' \in Assignment
           /\ Legal(ix', assigned')
           /\ depth' \in [Artifact -> Nat]
           /\ order' \in Seq(Artifact)
           /\ Distinct' /\ Listed'
  <1>1. a \in Artifact /\ v \in 1 .. MaxVersions BY IndexFacts DEF TypeOK
  <1>2. assigned \in [Artifact -> 0 .. MaxVersions] /\ Legal(ix, assigned)
        /\ order \in Seq(Artifact) /\ depth \in [Artifact -> Nat]
    BY DEF TypeOK, Assignment
  <1>3. /\ assigned' = [assigned EXCEPT ![a] = v]
        /\ depth' = [depth EXCEPT ![a] = d]
        /\ order' = IF assigned[a] = 0 THEN Append(order, a) ELSE order
    BY DEF Assign
  <1>4. assigned' \in Assignment BY <1>1, <1>2, <1>3, CatalogueAssumption DEF Assignment
  <1>5. depth' \in [Artifact -> Nat] BY <1>1, <1>2, <1>3
  <1>6. Legal(ix', assigned') BY <1>1, <1>2, <1>3 DEF Legal
  <1>7. Selected(assigned') = Selected(assigned) \cup {a} BY <1>1, <1>2, <1>3 DEF Selected
  <1>8. CASE assigned[a] = 0
    <2>1. order' = Append(order, a) BY <1>3, <1>8
    <2>2. order' \in Seq(Artifact) /\ Len(order') = Len(order) + 1 /\ order'[Len(order')] = a
          /\ \A i \in 1 .. Len(order) : order'[i] = order[i]
      BY <1>1, <1>2, <2>1
    <2>3. \A i \in 1 .. Len(order) : order[i] # a
      BY <1>1, <1>8 DEF Listed, Selected
    <2>4. Len(order) \in Nat BY <1>2
    <2>5. Distinct' BY <2>2, <2>3, <2>4 DEF Distinct
    <2>6. {order'[i] : i \in 1 .. Len(order')} = {order[i] : i \in 1 .. Len(order)} \cup {a}
      <3>1. \A i \in 1 .. Len(order') : i \in 1 .. Len(order) \/ i = Len(order') BY <2>2, <2>4
      <3>2. \A i \in 1 .. Len(order) : i \in 1 .. Len(order') BY <2>2, <2>4
      <3>3. Len(order') \in 1 .. Len(order') BY <2>2, <2>4
      <3> QED BY <2>2, <3>1, <3>2, <3>3
    <2>7. Listed' BY <1>7, <2>6 DEF Listed
    <2> QED BY <1>4, <1>5, <1>6, <2>2, <2>5, <2>7
  <1>9. CASE assigned[a] # 0
    <2>1. order' = order BY <1>3, <1>9
    <2>2. Selected(assigned') = Selected(assigned) BY <1>1, <1>7, <1>9 DEF Selected
    <2> QED BY <1>2, <1>4, <1>5, <1>6, <2>1, <2>2 DEF Distinct, Listed
  <1> QED BY <1>8, <1>9

LEMMA UnassignKeeps ==
    ASSUME TypeOK, Distinct, Listed, ix' = ix, NEW a \in Artifact, Unassign(a)
    PROVE  /\ assigned' \in Assignment
           /\ Legal(ix', assigned')
           /\ depth' \in [Artifact -> Nat]
           /\ order' \in Seq(Artifact)
           /\ Distinct' /\ Listed'
  <1>1. assigned \in [Artifact -> 0 .. MaxVersions] /\ Legal(ix, assigned)
        /\ order \in Seq(Artifact) /\ depth \in [Artifact -> Nat] /\ IsIndex(ix)
    BY DEF TypeOK, Assignment
  <1>2. /\ assigned' = [assigned EXCEPT ![a] = 0]
        /\ depth' = [depth EXCEPT ![a] = 0]
        /\ order' = RemoveFirst(order, a)
    BY DEF Unassign
  <1>3. assigned' \in Assignment BY <1>1, <1>2, CatalogueAssumption DEF Assignment
  <1>4. depth' \in [Artifact -> Nat] BY <1>1, <1>2
  <1>5. Legal(ix', assigned')
    <2>1. \A b \in DOMAIN ix : Len(ix[b]) \in Nat BY <1>1, IndexFacts
    <2> QED BY <1>1, <1>2, <2>1 DEF Legal
  <1>6. Selected(assigned') = Selected(assigned) \ {a} BY <1>1, <1>2 DEF Selected
  <1> DEFINE r == RemoveFirst(order, a)
  <1>7. /\ r \in Seq(Artifact)
        /\ \A i, j \in 1 .. Len(r) : r[i] = r[j] => i = j
        /\ \A i \in 1 .. Len(r) : \E j \in 1 .. Len(order) : order[j] = r[i] /\ order[j] # a
        /\ \A j \in 1 .. Len(order) : order[j] # a => \E i \in 1 .. Len(r) : r[i] = order[j]
    BY <1>1, RemoveFacts DEF Distinct
  <1>8. order' = r BY <1>2
  <1> HIDE DEF r
  <1>9. Distinct' BY <1>7, <1>8 DEF Distinct
  <1>10. {r[i] : i \in 1 .. Len(r)} = {order[i] : i \in 1 .. Len(order)} \ {a}
    BY <1>7
  <1>11. Listed' BY <1>6, <1>8, <1>10 DEF Listed
  <1> QED BY <1>3, <1>4, <1>5, <1>7, <1>8, <1>9, <1>11

\* A call returns: those below it wait.
LEMMA ReturnKeeps ==
    ASSUME TypeOK, Calls, stack # <<>>, ix' = ix, NEW value \in BOOLEAN, Return(value)
    PROVE  /\ stack' \in Seq(Frame) /\ phase' = "returned" /\ found' = value
           /\ Calls'
  <1>1. stack' = Pop(stack) /\ phase' = "returned" /\ found' = value BY DEF Return
  <1>2. stack' \in Seq(Frame) /\ Len(stack') = Len(stack) - 1 /\ Len(stack) \in Nat \ {0}
        /\ \A k \in 1 .. Len(stack) - 1 : stack'[k] = stack[k]
    BY <1>1, TopFacts
  <1>3. \A k \in 1 .. Len(stack') : Waiting(stack[k]) BY <1>2 DEF Calls
  <1>4. \A k \in 1 .. Len(stack') : Waiting(stack[k])' BY <1>2, <1>3 DEF Waiting
  <1>5. Calls' BY <1>1, <1>4 DEF Calls
  <1> QED BY <1>1, <1>2, <1>5

\* Once the selection meets every dependency, no call has anything left to do.
LEMMA NothingUnmet ==
    ASSUME Consistent(ix, assigned), NEW f \in Frame
    PROVE  Unmet(f) = {}
  <1>1. ASSUME NEW p \in Unmet(f) PROVE FALSE
    <2>1. p[1] \in 1 .. Len(f.snap) /\ p[2] \in Needs(ix, assigned, f.snap[p[1]])
          /\ ~Met(ix, assigned, f.snap[p[1]], p[2])
      BY DEF Unmet
    <2>2. f.snap[p[1]] \in Artifact BY <2>1 DEF Frame
    <2> QED BY <2>1, <2>2 DEF Consistent
  <1> QED BY <1>1

\* A call that has just begun and finds nothing unmet has met every dependency.
LEMMA NothingUnmetIsConsistent ==
    ASSUME TypeOK, Listed, Top.at = 0, Top.snap = order, Unmet(Top) = {}
    PROVE  Consistent(ix, assigned)
  <1> SUFFICES ASSUME NEW a \in Artifact, NEW t \in Needs(ix, assigned, a)
               PROVE  Met(ix, assigned, a, t)
    BY DEF Consistent
  <1>1. a \in DOMAIN ix /\ assigned[a] # 0 /\ t \in DOMAIN ix[a][assigned[a]].deps
    BY DEF Needs
  <1>2. assigned[a] \in 1 .. Len(ix[a])
    <2>1. assigned[a] \in Nat /\ assigned[a] <= Len(ix[a]) /\ Len(ix[a]) \in Nat
      BY <1>1, IndexFacts, CatalogueAssumption DEF TypeOK, Assignment, Legal
    <2> QED BY <1>1, <2>1
  <1>3. t \in Artifact BY <1>1, <1>2, IndexFacts DEF TypeOK
  <1>4. PICK i \in 1 .. Len(order) : order[i] = a BY <1>1 DEF Listed, Selected
  <1>5. Ahead(Top, i, t) BY <1>4 DEF Ahead
  <1>6. <<i, t>> \notin Unmet(Top) OBVIOUS
  <1> QED BY <1>3, <1>4, <1>5, <1>6 DEF Unmet

-----------------------------------------------------------------------------
(* Each step keeps the invariant. *)

LEMMA InitIInv == Init => IInv
  <1> SUFFICES ASSUME Init PROVE IInv
    OBVIOUS
  <1> USE CatalogueAssumption, ResolverAssumption
  <1>1. IsIndex(ix) /\ root \in Artifact /\ req \in Rank \cup {NoRequest} /\ phase = "checking"
        /\ tried = 0 /\ order = <<>> /\ stack = <<>> /\ found = FALSE /\ fail = NoDiagnostic
        /\ trace = {} /\ assigned = [a \in Artifact |-> 0] /\ depth = [a \in Artifact |-> 0]
    BY DEF Init
  <1>2. fail \in Diagnoses BY <1>1 DEF NoDiagnostic, Diagnostic, Diagnoses, Messages
  <1>3. assigned \in Assignment BY <1>1 DEF Assignment
  <1>4. Legal(ix, assigned)
    <2>1. \A a \in DOMAIN ix : Len(ix[a]) \in Nat BY <1>1, IndexFacts
    <2> QED BY <1>1, <2>1 DEF Legal
  <1>5. TypeOK
    <2>1. depth \in [Artifact -> Nat] /\ tried \in 0 .. MaxVersions /\ trace \subseteq Remarks
      BY <1>1
    <2>2. order \in Seq(Artifact) /\ stack \in Seq(Frame) /\ found \in BOOLEAN
      BY <1>1, EmptySeq
    <2>3. phase \in Phases BY <1>1 DEF Phases
    <2> QED BY <1>1, <1>2, <1>3, <1>4, <2>1, <2>2, <2>3 DEF TypeOK
  <1>6. Calls BY <1>1 DEF Calls
  <1>7. Distinct BY <1>1 DEF Distinct
  <1>8. Listed BY <1>1 DEF Listed, Selected
  <1> QED BY <1>1, <1>5, <1>6, <1>7, <1>8 DEF IInv, Searching, Fresh, Sound

\* The refusals before the search, and the start of it.
LEMMA CheckIInv ==
    IInv /\ (RootMissing \/ NoVersions \/ CycleFound \/ StartSearch) => IInv'
  <1> SUFFICES ASSUME IInv, RootMissing \/ NoVersions \/ CycleFound \/ StartSearch PROVE IInv'
    OBVIOUS
  <1>1. TypeOK /\ Calls /\ Distinct /\ Listed /\ ~found
    BY DEF IInv, Sound, RootMissing, NoVersions, CycleFound, StartSearch
  <1>2. UNCHANGED <<ix, root, req, tried, assigned, depth, order, stack, found, trace>>
        /\ phase = "checking"
    BY DEF RootMissing, NoVersions, CycleFound, StartSearch, Refused, request
  <1>3. /\ phase' \in {"failed", "roots"}
        /\ phase' = "roots" => root \in DOMAIN ix
    BY DEF RootMissing, NoVersions, CycleFound, StartSearch, Refused
  <1>4. fail' \in Diagnoses
    <2>1. \A type \in {"MISSING", "CYCLE"}, message \in Messages :
             Diagnostic(type, message, root, {}) \in Diagnoses
      BY <1>1 DEF Diagnostic, Diagnoses, TypeOK
    <2> QED BY <1>1, <2>1
            DEF RootMissing, NoVersions, CycleFound, StartSearch, Refused, Messages, TypeOK
  <1>5. TypeOK' BY <1>1, <1>2, <1>3, <1>4 DEF TypeOK, Phases
  <1>6. Calls' BY <1>1, <1>2, <1>3 DEF Calls, Waiting
  <1>7. Distinct' /\ Listed' BY <1>1, <1>2 DEF Distinct, Listed
  <1> QED BY <1>1, <1>2, <1>3, <1>5, <1>6, <1>7 DEF IInv, Searching, Fresh, Sound

LEMMA TryRootIInv == IInv /\ TryRoot => IInv'
  <1> SUFFICES ASSUME IInv, TryRoot PROVE IInv'
    OBVIOUS
  <1>1. TypeOK /\ Distinct /\ Listed /\ root \in DOMAIN ix /\ ~found
    BY DEF IInv, Searching, Sound, TryRoot
  <1>2. /\ UNCHANGED <<ix, root, req, found, fail, trace>>
        /\ phase' = "scan" /\ stack' = <<NewCall(order')>>
    BY DEF TryRoot, request
  <1>3. PICK c \in Untried : tried' = c /\ Assign(root, c, 0) BY DEF TryRoot
  <1>4. c \in 1 .. Len(ix[root]) BY DEF Untried, RootCandidates
  <1>5. c \in 1 .. MaxVersions BY <1>1, <1>4, IndexFacts DEF TypeOK
  <1>6. /\ assigned' \in Assignment /\ Legal(ix', assigned') /\ depth' \in [Artifact -> Nat]
        /\ order' \in Seq(Artifact) /\ Distinct' /\ Listed'
    BY <1>1, <1>2, <1>3, <1>4, AssignKeeps
  <1>7. NewCall(order') \in Frame BY <1>6, CatalogueAssumption DEF NewCall, Call, Frame
  <1>8. stack' \in Seq(Frame) /\ Len(stack') = 1 /\ stack'[1] = NewCall(order') /\ stack' # <<>>
    BY <1>2, <1>7
  <1>9. TypeOK' BY <1>1, <1>2, <1>3, <1>5, <1>6, <1>8 DEF TypeOK, Phases
  <1>10. Calls' BY <1>2, <1>8 DEF Calls
  <1>11. Fresh' BY <1>8 DEF Fresh, Top, NewCall, Call
  <1> QED BY <1>1, <1>2, <1>6, <1>9, <1>10, <1>11 DEF IInv, Searching, Sound

LEMMA RootSucceedsIInv == IInv /\ RootSucceeds => IInv'
  <1> SUFFICES ASSUME IInv, RootSucceeds PROVE IInv'
    OBVIOUS
  <1>1. TypeOK /\ Calls /\ Distinct /\ Listed /\ Sound /\ found BY DEF IInv, RootSucceeds
  <1>2. /\ UNCHANGED <<ix, root, req, tried, assigned, depth, order, stack, found, fail, trace>>
        /\ phase' = "succeeded" /\ phase = "returned"
    BY DEF RootSucceeds, request
  <1>3. TypeOK' BY <1>1, <1>2 DEF TypeOK, Phases
  <1>4. Calls' BY <1>1, <1>2 DEF Calls, Waiting
  <1>5. Distinct' /\ Listed' BY <1>1, <1>2 DEF Distinct, Listed
  <1>6. Sound' BY <1>1, <1>2 DEF Sound
  <1> QED BY <1>2, <1>3, <1>4, <1>5, <1>6 DEF IInv, Searching, Fresh

LEMMA RootFailsIInv == IInv /\ RootFails => IInv'
  <1> SUFFICES ASSUME IInv, RootFails PROVE IInv'
    OBVIOUS
  <1>1. TypeOK /\ Distinct /\ Listed /\ root \in DOMAIN ix /\ root \in Artifact /\ ~found
    BY DEF IInv, Searching, RootFails, TypeOK
  <1>2. /\ UNCHANGED <<ix, root, req, tried, stack, found, fail, trace>>
        /\ phase' = "roots" /\ stack = <<>> /\ Unassign(root)
    BY DEF RootFails, request
  <1>3. /\ assigned' \in Assignment /\ Legal(ix', assigned') /\ depth' \in [Artifact -> Nat]
        /\ order' \in Seq(Artifact) /\ Distinct' /\ Listed'
    BY <1>1, <1>2, UnassignKeeps
  <1>4. TypeOK' BY <1>1, <1>2, <1>3 DEF TypeOK, Phases
  <1>5. Calls' BY <1>2 DEF Calls
  <1> QED BY <1>1, <1>2, <1>3, <1>4, <1>5 DEF IInv, Searching, Fresh, Sound

LEMMA GiveUpIInv == IInv /\ GiveUp => IInv'
  <1> SUFFICES ASSUME IInv, GiveUp PROVE IInv'
    OBVIOUS
  <1>1. TypeOK /\ Calls /\ Distinct /\ Listed /\ ~found BY DEF IInv, Sound, GiveUp
  <1>2. /\ UNCHANGED <<ix, root, req, tried, assigned, depth, order, stack, found, trace>>
        /\ phase' = "failed" /\ phase = "roots"
    BY DEF GiveUp, request
  <1>3. fail' \in Diagnoses
    <2> DEFINE d == IF fail.type = ""
                    THEN Diagnostic("CONFLICT", "no version of root satisfies all constraints", root, {})
                    ELSE fail
    <2>1. d \in Diagnoses BY <1>1 DEF TypeOK, Diagnostic, Diagnoses, Messages
    <2>2. fail' = [d EXCEPT !.candidates = IF d.candidates = {} THEN trace ELSE d.candidates]
      BY DEF GiveUp
    <2> HIDE DEF d
    <2> QED BY <1>1, <2>1, <2>2 DEF TypeOK, Diagnoses
  <1>4. TypeOK' BY <1>1, <1>2, <1>3 DEF TypeOK, Phases
  <1>5. Calls' BY <1>1, <1>2 DEF Calls, Waiting
  <1>6. Distinct' /\ Listed' BY <1>1, <1>2 DEF Distinct, Listed
  <1> QED BY <1>1, <1>2, <1>4, <1>5, <1>6 DEF IInv, Searching, Fresh, Sound

\* The only step after which a call has succeeded: the selection is complete.
LEMMA ScanDoneIInv == IInv /\ ScanDone => IInv'
  <1> SUFFICES ASSUME IInv, ScanDone PROVE IInv'
    OBVIOUS
  <1>1. TypeOK /\ Calls /\ Distinct /\ Listed /\ Searching BY DEF IInv
  <1>2. /\ UNCHANGED <<ix, root, req, tried, assigned, depth, order, fail, trace>>
        /\ phase = "scan" /\ Unmet(Top) = {} /\ Return(TRUE)
    BY DEF ScanDone, request
  <1>3. stack # <<>> BY <1>1, <1>2 DEF Calls
  <1>4. stack' \in Seq(Frame) /\ phase' = "returned" /\ found' = TRUE /\ Calls'
    BY <1>1, <1>2, <1>3, ReturnKeeps
  <1>5. Consistent(ix, assigned)
    <2>1. CASE found BY <2>1 DEF IInv, Sound
    <2>2. CASE ~found
      <3>1. Top.at = 0 /\ Top.snap = order BY <1>2, <2>2 DEF IInv, Fresh
      <3> QED BY <1>1, <1>2, <3>1, NothingUnmetIsConsistent
    <2> QED BY <2>1, <2>2
  <1>6. TypeOK' BY <1>1, <1>2, <1>4 DEF TypeOK, Phases
  <1>7. Distinct' /\ Listed' BY <1>1, <1>2 DEF Distinct, Listed
  <1>8. Sound' BY <1>2, <1>4, <1>5 DEF Sound
  <1> QED BY <1>1, <1>2, <1>4, <1>6, <1>7, <1>8 DEF IInv, Searching, Fresh

\* A call that meets an unmet dependency is one of a search that has not succeeded.
LEMMA NotFound ==
    ASSUME IInv, phase = "scan", NEW i, NEW t, IsNextUnmet(Top, i, t)
    PROVE  /\ ~found /\ stack # <<>>
           /\ i \in 1 .. Len(Top.snap) /\ t \in Artifact
  <1>1. TypeOK /\ Calls /\ Sound BY DEF IInv
  <1>2. stack # <<>> BY <1>1 DEF Calls
  <1>3. Top \in Frame BY <1>1, <1>2, TopFacts
  <1>4. <<i, t>> \in Unmet(Top) BY DEF IsNextUnmet
  <1>5. ~found BY <1>1, <1>3, <1>4, NothingUnmet DEF Sound
  <1>6. i \in 1 .. Len(Top.snap) /\ t \in Artifact BY <1>4 DEF Unmet
  <1> QED BY <1>2, <1>5, <1>6

LEMMA TargetMissingIInv == IInv /\ TargetMissing => IInv'
  <1> SUFFICES ASSUME IInv, TargetMissing PROVE IInv'
    OBVIOUS
  <1>1. TypeOK /\ Calls /\ Distinct /\ Listed /\ Searching BY DEF IInv
  <1>2. /\ UNCHANGED <<ix, root, req, tried, assigned, depth, order, trace>>
        /\ phase = "scan" /\ Return(FALSE)
    BY DEF TargetMissing, request
  <1>3. PICK i \in 1 .. Len(Top.snap), t \in Artifact :
           /\ IsNextUnmet(Top, i, t)
           /\ fail' = Diagnostic("MISSING", "dependency target missing", t, {})
    BY DEF TargetMissing
  <1>4. ~found /\ stack # <<>> BY <1>2, <1>3, NotFound
  <1>5. stack' \in Seq(Frame) /\ phase' = "returned" /\ found' = FALSE /\ Calls'
    BY <1>1, <1>2, <1>4, ReturnKeeps
  <1>6. fail' \in Diagnoses BY <1>3 DEF Diagnostic, Diagnoses, Messages
  <1>7. TypeOK' BY <1>1, <1>2, <1>5, <1>6 DEF TypeOK, Phases
  <1>8. Distinct' /\ Listed' BY <1>1, <1>2 DEF Distinct, Listed
  <1> QED BY <1>1, <1>2, <1>5, <1>7, <1>8 DEF IInv, Searching, Fresh, Sound

LEMMA ConflictIInv == IInv /\ Conflict => IInv'
  <1> SUFFICES ASSUME IInv, Conflict PROVE IInv'
    OBVIOUS
  <1>1. TypeOK /\ Calls /\ Distinct /\ Listed /\ Searching BY DEF IInv
  <1>2. /\ UNCHANGED <<ix, root, req, tried, assigned, depth, order>>
        /\ phase = "scan" /\ Return(FALSE)
    BY DEF Conflict, request
  <1>3. PICK i \in 1 .. Len(Top.snap), t \in Artifact :
           /\ IsNextUnmet(Top, i, t)
           /\ assigned[t] # 0
           /\ trace' = trace \cup {Candidate(t, assigned[t], "violates")}
           /\ fail' = Diagnostic("CONFLICT", "selected version violates constraint", t, {})
    BY DEF Conflict
  <1>4. ~found /\ stack # <<>> BY <1>2, <1>3, NotFound
  <1>5. stack' \in Seq(Frame) /\ phase' = "returned" /\ found' = FALSE /\ Calls'
    BY <1>1, <1>2, <1>4, ReturnKeeps
  <1>6. fail' \in Diagnoses BY <1>3 DEF Diagnostic, Diagnoses, Messages
  <1>7. trace' \subseteq Remarks
    <2> DEFINE v == assigned[t]
    <2>1. v \in 0 .. MaxVersions /\ v # 0 BY <1>1, <1>3 DEF TypeOK, Assignment
    <2> HIDE DEF v
    <2>2. v \in 1 .. MaxVersions BY <2>1, CatalogueAssumption
    <2>3. Candidate(t, v, "violates") \in Remarks BY <2>2 DEF Candidate, Remarks, Verdicts
    <2> QED BY <1>1, <1>3, <2>3 DEF TypeOK, v
  <1>8. TypeOK' BY <1>1, <1>2, <1>5, <1>6, <1>7 DEF TypeOK, Phases
  <1>9. Distinct' /\ Listed' BY <1>1, <1>2 DEF Distinct, Listed
  <1> QED BY <1>1, <1>2, <1>5, <1>8, <1>9 DEF IInv, Searching, Fresh, Sound

LEMMA DemandIInv == IInv /\ Demand => IInv'
  <1> SUFFICES ASSUME IInv, Demand PROVE IInv'
    OBVIOUS
  <1>1. TypeOK /\ Calls /\ Distinct /\ Listed /\ Searching BY DEF IInv
  <1>2. /\ UNCHANGED <<ix, root, req, tried, assigned, depth, order, found, fail, trace>>
        /\ phase = "scan" /\ phase' = "choose"
    BY DEF Demand, request
  <1>3. PICK i \in 1 .. Len(Top.snap), t \in Artifact :
           /\ IsNextUnmet(Top, i, t)
           /\ t \in DOMAIN ix
           /\ Moved(Call(Top.snap, i, t, 0, FALSE))
    BY DEF Demand
  <1>4. ~found /\ stack # <<>> BY <1>2, <1>3, NotFound
  <1> DEFINE f == Call(Top.snap, i, t, 0, FALSE)
  <1>5. f \in Frame /\ f.at \in 1 .. Len(f.snap) /\ f.dep = t /\ f.cand = 0
    BY <1>1, <1>3, <1>4, TopFacts, CatalogueAssumption DEF Call, Frame
  <1>6. stack' = [stack EXCEPT ![Len(stack)] = f] BY <1>3 DEF Moved
  <1> HIDE DEF f
  <1>7. /\ stack' \in Seq(Frame) /\ Len(stack') = Len(stack) /\ stack'[Len(stack)] = f
        /\ \A k \in 1 .. Len(stack) - 1 : stack'[k] = stack[k]
        /\ Len(stack) \in Nat \ {0} /\ stack' # <<>>
    BY <1>1, <1>4, <1>5, <1>6, ReplaceLast, TopFacts DEF TypeOK
  <1>8. Calls'
    <2>1. Top' = f BY <1>7 DEF Top
    <2>2. Len(ix[t]) \in Nat BY <1>1, <1>3, IndexFacts DEF TypeOK
    <2>3. ASSUME NEW k \in 1 .. Len(stack'), k < Len(stack') PROVE Waiting(stack[k])'
      <3>1. k \in 1 .. Len(stack) /\ k < Len(stack) /\ stack'[k] = stack[k] BY <1>7, <2>3
      <3>2. Waiting(stack[k]) BY <1>1, <3>1 DEF Calls
      <3> QED BY <1>2, <3>1, <3>2 DEF Waiting
    <2> QED BY <1>2, <1>3, <1>5, <1>7, <2>1, <2>2, <2>3 DEF Calls
  <1>9. TypeOK' BY <1>1, <1>2, <1>7 DEF TypeOK, Phases
  <1>10. Distinct' /\ Listed' BY <1>1, <1>2 DEF Distinct, Listed
  <1> QED BY <1>1, <1>2, <1>4, <1>8, <1>9, <1>10 DEF IInv, Searching, Fresh, Sound

\* In the loop over the versions of a target.
LEMMA ChooseFacts ==
    ASSUME IInv, phase = "choose"
    PROVE  /\ TypeOK /\ Calls /\ Distinct /\ Listed /\ Searching /\ ~found /\ stack # <<>>
           /\ Len(stack) \in Nat \ {0} /\ Top \in Frame /\ stack[Len(stack)] = Top
           /\ Top.at \in 1 .. Len(Top.snap) /\ Asker \in Artifact
           /\ Top.dep \in DOMAIN ix /\ Top.dep \in Artifact
           /\ Candidates \in 0 .. MaxVersions /\ Top.cand \in 0 .. Candidates
  <1>1. TypeOK /\ Calls /\ Distinct /\ Listed /\ Searching /\ ~found BY DEF IInv, Sound
  <1>2. stack # <<>> /\ Top.at \in 1 .. Len(Top.snap) /\ Top.dep \in DOMAIN ix
        /\ Top.cand <= Len(ix[Top.dep])
    BY <1>1 DEF Calls
  <1>3. /\ Len(stack) \in Nat \ {0} /\ Top \in Frame /\ Top.snap \in Seq(Artifact)
        /\ Top.cand \in 0 .. MaxVersions
    BY <1>1, <1>2, TopFacts
  <1>4. Asker \in Artifact BY <1>2, <1>3 DEF Asker
  <1>5. Top.dep \in Artifact /\ Candidates \in 0 .. MaxVersions /\ Top.cand \in 0 .. Candidates
    BY <1>1, <1>2, <1>3, IndexFacts, CatalogueAssumption DEF TypeOK, Candidates
  <1> QED BY <1>1, <1>2, <1>3, <1>4, <1>5 DEF Top

LEMMA SkipCandidateIInv == IInv /\ SkipCandidate => IInv'
  <1> SUFFICES ASSUME IInv, SkipCandidate PROVE IInv'
    OBVIOUS
  <1>1. /\ UNCHANGED <<ix, root, req, phase, tried, assigned, depth, order, found, fail>>
        /\ phase = "choose" /\ Top.cand < Candidates
        /\ trace' = trace \cup {Candidate(Top.dep, Top.cand + 1, "mismatch")}
        /\ Moved([Top EXCEPT !.cand = @ + 1])
    BY DEF SkipCandidate, request
  <1>2. /\ TypeOK /\ Calls /\ Distinct /\ Listed /\ Searching /\ ~found /\ stack # <<>>
        /\ Len(stack) \in Nat \ {0} /\ Top \in Frame
        /\ Top.at \in 1 .. Len(Top.snap) /\ Top.dep \in DOMAIN ix /\ Top.dep \in Artifact
        /\ Candidates \in 0 .. MaxVersions /\ Top.cand \in 0 .. Candidates
    BY <1>1, ChooseFacts
  <1>3. Top.cand + 1 \in 1 .. MaxVersions /\ Top.cand + 1 <= Len(ix[Top.dep])
    BY <1>1, <1>2, CatalogueAssumption DEF Candidates
  <1> DEFINE f == [Top EXCEPT !.cand = @ + 1]
  <1>4. f \in Frame /\ f.at = Top.at /\ f.snap = Top.snap /\ f.dep = Top.dep
        /\ f.cand = Top.cand + 1
    BY <1>2, <1>3 DEF Frame
  <1>5. stack' = [stack EXCEPT ![Len(stack)] = f] BY <1>1 DEF Moved
  <1> HIDE DEF f
  <1>6. /\ stack' \in Seq(Frame) /\ Len(stack') = Len(stack) /\ stack'[Len(stack)] = f
        /\ \A k \in 1 .. Len(stack) - 1 : stack'[k] = stack[k]
        /\ stack' # <<>>
    BY <1>2, <1>4, <1>5, ReplaceLast DEF TypeOK
  <1>7. Calls'
    <2>1. Top' = f BY <1>6 DEF Top
    <2>2. ASSUME NEW k \in 1 .. Len(stack'), k < Len(stack') PROVE Waiting(stack[k])'
      <3>1. k \in 1 .. Len(stack) /\ k < Len(stack) /\ stack'[k] = stack[k] BY <1>2, <1>6, <2>2
      <3>2. Waiting(stack[k]) BY <1>2, <3>1 DEF Calls
      <3> QED BY <1>1, <3>1, <3>2 DEF Waiting
    <2> QED BY <1>1, <1>2, <1>3, <1>4, <1>6, <2>1, <2>2 DEF Calls
  <1>8. trace' \subseteq Remarks
    <2>1. Candidate(Top.dep, Top.cand + 1, "mismatch") \in Remarks
      BY <1>2, <1>3 DEF Candidate, Remarks, Verdicts
    <2> QED BY <1>1, <1>2, <2>1 DEF TypeOK
  <1>9. TypeOK' BY <1>1, <1>2, <1>6, <1>8 DEF TypeOK
  <1>10. Distinct' /\ Listed' BY <1>1, <1>2 DEF Distinct, Listed
  <1> QED BY <1>1, <1>2, <1>7, <1>9, <1>10 DEF IInv, Searching, Fresh, Sound

LEMMA TakeCandidateIInv == IInv /\ TakeCandidate => IInv'
  <1> SUFFICES ASSUME IInv, TakeCandidate PROVE IInv'
    OBVIOUS
  <1> DEFINE below == [stack EXCEPT ![Len(stack)] = Took]
             new == NewCall(order')
  <1>1. /\ UNCHANGED <<ix, root, req, tried, found, fail, trace>>
        /\ phase = "choose" /\ phase' = "scan" /\ Top.cand < Candidates
        /\ Assign(Top.dep, Top.cand + 1, depth[Asker] + 1)
        /\ stack' = Append(below, new)
    BY DEF TakeCandidate, request
  <1>2. /\ TypeOK /\ Calls /\ Distinct /\ Listed /\ Searching /\ ~found /\ stack # <<>>
        /\ Len(stack) \in Nat \ {0} /\ Top \in Frame /\ Asker \in Artifact
        /\ Top.at \in 1 .. Len(Top.snap) /\ Top.dep \in DOMAIN ix /\ Top.dep \in Artifact
        /\ Candidates \in 0 .. MaxVersions /\ Top.cand \in 0 .. Candidates
    BY <1>1, ChooseFacts
  <1>3. Top.cand + 1 \in 1 .. MaxVersions /\ Top.cand + 1 \in 1 .. Len(ix[Top.dep])
    BY <1>1, <1>2, CatalogueAssumption DEF Candidates
  <1>4. depth[Asker] + 1 \in Nat BY <1>2 DEF TypeOK
  <1>5. /\ assigned' \in Assignment /\ Legal(ix', assigned') /\ depth' \in [Artifact -> Nat]
        /\ order' \in Seq(Artifact) /\ Distinct' /\ Listed'
    BY <1>1, <1>2, <1>3, <1>4, AssignKeeps
  <1>6. Took \in Frame /\ Took.at = Top.at /\ Took.snap = Top.snap /\ Took.dep = Top.dep
        /\ Took.cand = Top.cand + 1
    <2>1. Top.snap \in Seq(Artifact) /\ Top.at \in Nat /\ Top.dep \in Artifact BY <1>2 DEF Frame
    <2> QED BY <1>3, <2>1 DEF Took, Call, Frame
  <1>7. /\ below \in Seq(Frame) /\ Len(below) = Len(stack) /\ below[Len(stack)] = Took
        /\ \A k \in 1 .. Len(stack) - 1 : below[k] = stack[k]
    BY <1>2, <1>6, ReplaceLast DEF TypeOK
  <1> HIDE DEF below
  <1>8. new \in Frame BY <1>5, CatalogueAssumption DEF NewCall, Call, Frame
  <1>9. new.at = 0 /\ new.dep = 0 /\ new.snap = order' BY DEF NewCall, Call
  <1> HIDE DEF new
  <1>10. /\ stack' \in Seq(Frame) /\ Len(stack') = Len(stack) + 1 /\ stack' # <<>>
        /\ stack'[Len(stack')] = new
        /\ \A k \in 1 .. Len(stack) : stack'[k] = below[k]
    BY <1>1, <1>2, <1>7, <1>8, AppendProperties
  <1>11. Calls'
    <2>1. ASSUME NEW k \in 1 .. Len(stack'), k < Len(stack') PROVE Waiting(stack[k])'
      <3>1. CASE k = Len(stack)
        <4>1. stack'[k] = Took BY <1>2, <1>7, <1>10, <3>1
        <4> QED BY <1>1, <1>2, <1>3, <1>6, <4>1 DEF Waiting
      <3>2. CASE k < Len(stack)
        <4>1. k \in 1 .. Len(stack) /\ k \in 1 .. Len(stack) - 1 BY <1>2, <3>2
        <4>2. stack'[k] = stack[k] BY <1>7, <1>10, <4>1
        <4>3. Waiting(stack[k]) BY <1>2, <3>2, <4>1 DEF Calls
        <4> QED BY <1>1, <4>2, <4>3 DEF Waiting
      <3> QED BY <1>2, <1>10, <2>1, <3>1, <3>2
    <2> QED BY <1>1, <1>10, <2>1 DEF Calls
  <1>12. Fresh' BY <1>9, <1>10 DEF Fresh, Top
  <1>13. TypeOK' BY <1>1, <1>2, <1>5, <1>10 DEF TypeOK, Phases
  <1> QED BY <1>1, <1>2, <1>5, <1>11, <1>12, <1>13 DEF IInv, Searching, Sound

LEMMA ExhaustedIInv == IInv /\ Exhausted => IInv'
  <1> SUFFICES ASSUME IInv, Exhausted PROVE IInv'
    OBVIOUS
  <1>1. /\ UNCHANGED <<ix, root, req, tried, assigned, depth, order, trace>>
        /\ phase = "choose" /\ Return(FALSE)
    BY DEF Exhausted, request
  <1>2. TypeOK /\ Calls /\ Distinct /\ Listed /\ Searching /\ stack # <<>> /\ Top.dep \in Artifact
    BY <1>1, ChooseFacts
  <1>3. stack' \in Seq(Frame) /\ phase' = "returned" /\ found' = FALSE /\ Calls'
    BY <1>1, <1>2, ReturnKeeps
  <1>4. fail' \in Diagnoses
    <2> DEFINE message == IF Top.hit THEN "all candidate versions lead to downstream conflict"
                                     ELSE "no version satisfies constraint"
               d == IF fail.type = "" THEN Diagnostic("MISSING", message, Top.dep, {}) ELSE fail
    <2>1. message \in Messages BY DEF Messages
    <2>2. fail' = [d EXCEPT !.candidates = trace] BY DEF Exhausted
    <2> HIDE DEF message
    <2>3. Diagnostic("MISSING", message, Top.dep, {}) \in Diagnoses
      BY <1>2, <2>1 DEF Diagnostic, Diagnoses
    <2>4. d \in Diagnoses BY <1>2, <2>3 DEF TypeOK
    <2> HIDE DEF d
    <2> QED BY <1>2, <2>2, <2>4 DEF TypeOK, Diagnoses
  <1>5. TypeOK' BY <1>1, <1>2, <1>3, <1>4 DEF TypeOK, Phases
  <1>6. Distinct' /\ Listed' BY <1>1, <1>2 DEF Distinct, Listed
  <1> QED BY <1>1, <1>2, <1>3, <1>5, <1>6 DEF IInv, Searching, Fresh, Sound

\* A caller resumes: its candidate is a version of the target.
LEMMA ResumeFacts ==
    ASSUME IInv, phase = "returned", stack # <<>>
    PROVE  /\ TypeOK /\ Calls /\ Distinct /\ Listed /\ Searching
           /\ Top.at \in 1 .. Len(Top.snap)
           /\ Top.dep \in DOMAIN ix /\ Top.dep \in Artifact
           /\ Top.cand \in 1 .. Len(ix[Top.dep]) /\ Top.cand \in 1 .. MaxVersions
  <1>1. TypeOK /\ Calls /\ Distinct /\ Listed /\ Searching BY DEF IInv
  <1>2. Len(stack) \in Nat \ {0} BY <1>1, TopFacts
  <1>3. Waiting(Top) BY <1>1, <1>2 DEF Calls, Top
  <1>4. Top.dep \in Artifact /\ Top.cand \in 1 .. MaxVersions
    BY <1>1, <1>3, IndexFacts DEF Waiting, TypeOK
  <1> QED BY <1>1, <1>3, <1>4 DEF Waiting

LEMMA ResumeTrueIInv == IInv /\ ResumeTrue => IInv'
  <1> SUFFICES ASSUME IInv, ResumeTrue PROVE IInv'
    OBVIOUS
  <1>1. /\ UNCHANGED <<ix, root, req, tried, assigned, depth, order, stack, found, fail>>
        /\ phase = "returned" /\ stack # <<>> /\ found /\ phase' = "scan"
        /\ trace' = trace \cup {Candidate(Top.dep, Top.cand, "accepted")}
    BY DEF ResumeTrue, request
  <1>2. /\ TypeOK /\ Calls /\ Distinct /\ Listed /\ Searching
        /\ Top.dep \in Artifact /\ Top.cand \in 1 .. MaxVersions
    BY <1>1, ResumeFacts
  <1>3. trace' \subseteq Remarks
    <2>1. Candidate(Top.dep, Top.cand, "accepted") \in Remarks
      BY <1>2 DEF Candidate, Remarks, Verdicts
    <2> QED BY <1>1, <1>2, <2>1 DEF TypeOK
  <1>4. TypeOK' BY <1>1, <1>2, <1>3 DEF TypeOK, Phases
  <1>5. Calls' BY <1>1, <1>2 DEF Calls, Waiting
  <1>6. Distinct' /\ Listed' BY <1>1, <1>2 DEF Distinct, Listed
  <1>7. Sound' BY <1>1 DEF IInv, Sound
  <1> QED BY <1>1, <1>2, <1>4, <1>5, <1>6, <1>7 DEF IInv, Searching, Fresh

LEMMA ResumeFalseIInv == IInv /\ ResumeFalse => IInv'
  <1> SUFFICES ASSUME IInv, ResumeFalse PROVE IInv'
    OBVIOUS
  <1>1. /\ UNCHANGED <<ix, root, req, tried, stack, found, fail>>
        /\ phase = "returned" /\ stack # <<>> /\ ~found /\ phase' = "choose"
        /\ Unassign(Top.dep)
        /\ trace' = trace \cup {Candidate(Top.dep, Top.cand, "downstream")}
    BY DEF ResumeFalse, request
  <1>2. /\ TypeOK /\ Calls /\ Distinct /\ Listed /\ Searching
        /\ Top.at \in 1 .. Len(Top.snap) /\ Top.dep \in DOMAIN ix /\ Top.dep \in Artifact
        /\ Top.cand \in 1 .. Len(ix[Top.dep]) /\ Top.cand \in 1 .. MaxVersions
    BY <1>1, ResumeFacts
  <1>3. /\ assigned' \in Assignment /\ Legal(ix', assigned') /\ depth' \in [Artifact -> Nat]
        /\ order' \in Seq(Artifact) /\ Distinct' /\ Listed'
    BY <1>1, <1>2, UnassignKeeps
  <1>4. trace' \subseteq Remarks
    <2>1. Candidate(Top.dep, Top.cand, "downstream") \in Remarks
      BY <1>2 DEF Candidate, Remarks, Verdicts
    <2> QED BY <1>1, <1>2, <2>1 DEF TypeOK
  <1>5. TypeOK' BY <1>1, <1>2, <1>3, <1>4 DEF TypeOK, Phases
  <1>6. Calls'
    <2>1. Top' = Top BY <1>1 DEF Top
    <2>2. Len(ix[Top.dep]) \in Nat BY <1>2, IndexFacts DEF TypeOK
    <2> QED BY <1>1, <1>2, <2>1, <2>2 DEF Calls, Waiting
  <1> QED BY <1>1, <1>2, <1>3, <1>5, <1>6 DEF IInv, Searching, Fresh, Sound

LEMMA NextIInv == IInv /\ [Next]_vars => IInv'
  <1> SUFFICES ASSUME IInv, [Next]_vars PROVE IInv'
    OBVIOUS
  <1>1. CASE RootMissing \/ NoVersions \/ CycleFound \/ StartSearch BY <1>1, CheckIInv
  <1>2. CASE TryRoot BY <1>2, TryRootIInv
  <1>3. CASE RootSucceeds BY <1>3, RootSucceedsIInv
  <1>4. CASE RootFails BY <1>4, RootFailsIInv
  <1>5. CASE GiveUp BY <1>5, GiveUpIInv
  <1>6. CASE ScanDone BY <1>6, ScanDoneIInv
  <1>7. CASE TargetMissing BY <1>7, TargetMissingIInv
  <1>8. CASE Conflict BY <1>8, ConflictIInv
  <1>9. CASE Demand BY <1>9, DemandIInv
  <1>10. CASE SkipCandidate BY <1>10, SkipCandidateIInv
  <1>11. CASE TakeCandidate BY <1>11, TakeCandidateIInv
  <1>12. CASE Exhausted BY <1>12, ExhaustedIInv
  <1>13. CASE ResumeTrue BY <1>13, ResumeTrueIInv
  <1>14. CASE ResumeFalse BY <1>14, ResumeFalseIInv
  <1>15. CASE UNCHANGED vars
    <2>1. UNCHANGED <<ix, root, req, phase, tried, assigned, depth, order, stack, found, fail, trace>>
      BY <1>15 DEF vars
    <2>2. TypeOK' BY <2>1 DEF IInv, TypeOK
    <2>3. Calls' BY <2>1 DEF IInv, Calls, Top, Waiting
    <2>4. Distinct' /\ Listed' BY <2>1 DEF IInv, Distinct, Listed
    <2>5. Searching' /\ Sound' BY <2>1 DEF IInv, Searching, Sound
    <2>6. Fresh' BY <2>1 DEF IInv, Fresh, Top
    <2> QED BY <2>2, <2>3, <2>4, <2>5, <2>6 DEF IInv
  <1> QED BY <1>1, <1>2, <1>3, <1>4, <1>5, <1>6, <1>7, <1>8, <1>9, <1>10, <1>11, <1>12,
             <1>13, <1>14, <1>15 DEF Next, Step, Done

-----------------------------------------------------------------------------
(* What follows for every catalogue. *)

\* The invariant the theorems below rest on.
THEOREM SearchInvariant == Spec => []IInv
  <1> QED BY InitIInv, NextIInv, PTL DEF Spec

\* Every variable keeps its type; a selected version is always one of the index.
THEOREM TypeCorrect == Spec => []TypeOK
  <1>1. IInv => TypeOK BY DEF IInv
  <1> QED BY <1>1, SearchInvariant, PTL

\* The first call of search that returns true settles the answer: from then on nothing
\* is assigned, taken back or refused, though every caller scans on.
THEOREM FoundSettles == Spec => FoundIsFinal
  <1>1. ASSUME IInv, [Next]_vars, found
        PROVE  found' /\ UNCHANGED <<assigned, depth, order>>
    <2>1. phase \in {"scan", "returned", "succeeded"} BY <1>1 DEF IInv, Sound
    <2>2. CASE ScanDone BY <2>2 DEF ScanDone, Return
    <2>3. CASE ResumeTrue BY <2>3, <1>1 DEF ResumeTrue
    <2>4. CASE RootSucceeds BY <2>4, <1>1 DEF RootSucceeds
    <2>5. CASE TargetMissing
      BY <1>1, <2>5, NotFound DEF TargetMissing
    <2>6. CASE Conflict
      BY <1>1, <2>6, NotFound DEF Conflict
    <2>7. CASE Demand
      BY <1>1, <2>7, NotFound DEF Demand
    <2>8. CASE UNCHANGED vars BY <1>1, <2>8 DEF vars
    <2>9. ~(RootMissing \/ NoVersions \/ CycleFound \/ StartSearch \/ TryRoot \/ GiveUp
            \/ SkipCandidate \/ TakeCandidate \/ Exhausted)
      BY <2>1 DEF RootMissing, NoVersions, CycleFound, StartSearch, TryRoot, GiveUp,
                  SkipCandidate, TakeCandidate, Exhausted
    <2>10. ~(RootFails \/ ResumeFalse) BY <1>1 DEF RootFails, ResumeFalse
    <2> QED BY <1>1, <2>2, <2>3, <2>4, <2>5, <2>6, <2>7, <2>8, <2>9, <2>10 DEF Next, Step, Done
  <1>2. IInv /\ [Next]_vars => [found => found' /\ UNCHANGED <<assigned, depth, order>>]_vars
    BY <1>1
  <1> QED BY <1>2, SearchInvariant, PTL DEF Spec, FoundIsFinal

\* The versions an answer selects are in the index and meet every dependency of every
\* selected version.
AnswerIsConsistent ==
    phase = "succeeded" => Legal(ix, assigned) /\ Consistent(ix, assigned)

\* Soundness of Resolve: what it answers as resolved has no unmet dependency.
THEOREM Soundness == Spec => []AnswerIsConsistent
  <1>1. IInv => AnswerIsConsistent BY DEF IInv, Sound, TypeOK, AnswerIsConsistent
  <1> QED BY <1>1, SearchInvariant, PTL

-----------------------------------------------------------------------------
(* The trail of the search and the distances. *)

\* The k-th call has the first k artifacts of the order as its copy.
Copied(k) ==
    /\ k <= Len(order)
    /\ Len(stack[k].snap) = k
    /\ \A i \in 1 .. k : stack[k].snap[i] = order[i]

\* The k-th call is at a dependency of Asker on an artifact it does not list; what the
\* artifacts before Asker need it lists, and it lists nothing deeper than that artifact.
Busy(k) ==
    /\ stack[k].at \in 1 .. k
    /\ stack[k].dep \in Needs(ix, assigned, order[stack[k].at])
    /\ \A i \in 1 .. k : order[i] # stack[k].dep
    /\ \A i \in 1 .. k : i < stack[k].at =>
          \A t \in Needs(ix, assigned, order[i]) : \E j \in 1 .. k : order[j] = t
    /\ \A i \in 1 .. k : depth[order[i]] <= depth[order[stack[k].at]] + 1

\* The k-th call has assigned its candidate, next in the order.
Holding(k) ==
    /\ k < Len(order)
    /\ order[k + 1] = stack[k].dep
    /\ assigned[stack[k].dep] = stack[k].cand
    /\ depth[stack[k].dep] = depth[order[stack[k].at]] + 1

Frames ==
    \A k \in 1 .. Len(stack) :
        /\ Copied(k)
        /\ k < Len(stack) \/ phase \in {"choose", "returned"} => Busy(k)
        /\ k < Len(stack) \/ phase = "returned" => Holding(k)

Lengths ==
    /\ ~found /\ phase \in {"scan", "choose"} => Len(order) = Len(stack)
    /\ ~found /\ phase = "returned" => Len(order) = Len(stack) + 1
    /\ phase \in {"checking", "roots", "failed"} => order = <<>> /\ stack = <<>>
    /\ phase = "succeeded" => stack = <<>>
    /\ phase \in {"scan", "choose", "returned", "succeeded"} =>
          order # <<>> /\ order[1] = root /\ assigned[root] = tried

Grounded == order # <<>> => depth[order[1]] = 0

\* Every artifact but the first is one level below an earlier one that needs it.
Descends ==
    \A j \in 2 .. Len(order) : \E i \in 1 .. Len(order) :
        i < j /\ order[j] \in Needs(ix, assigned, order[i])
        /\ depth[order[j]] = depth[order[i]] + 1

\* It is at most one level below each that needs it.
NoDeeper ==
    \A i, j \in 1 .. Len(order) :
        order[j] \in Needs(ix, assigned, order[i]) => depth[order[j]] <= depth[order[i]] + 1

\* The order is by level.
ByLevel == \A i, j \in 1 .. Len(order) : i <= j => depth[order[i]] <= depth[order[j]]

Layers == Grounded /\ Descends /\ NoDeeper /\ ByLevel

Walk == Frames /\ Lengths /\ Layers


WInv == IInv /\ Walk

-----------------------------------------------------------------------------
(* What a call knows depends on the artifacts it lists only. *)

LEMMA CopiedSame ==
    ASSUME NEW k \in Nat, Copied(k), stack'[k].snap = stack[k].snap,
           k <= Len(order'), \A i \in 1 .. k : order'[i] = order[i]
    PROVE  Copied(k)'
  BY DEF Copied

LEMMA BusySame ==
    ASSUME NEW k \in Nat, Busy(k), ix' = ix,
           stack'[k].at = stack[k].at, stack'[k].dep = stack[k].dep,
           \A i \in 1 .. k : /\ order'[i] = order[i]
                             /\ assigned'[order[i]] = assigned[order[i]]
                             /\ depth'[order[i]] = depth[order[i]]
    PROVE  Busy(k)'
  <1>1. \A i \in 1 .. k : Needs(ix, assigned, order[i])' = Needs(ix, assigned, order[i])
    BY DEF Needs
  <1>2. stack[k].at \in 1 .. k BY DEF Busy
  <1> QED BY <1>1, <1>2 DEF Busy

LEMMA HoldingSame ==
    ASSUME NEW k \in Nat, Holding(k), stack[k].at \in 1 .. k, k < Len(order'),
           stack'[k].at = stack[k].at, stack'[k].dep = stack[k].dep,
           stack'[k].cand = stack[k].cand,
           \A i \in 1 .. k + 1 : /\ order'[i] = order[i]
                                 /\ assigned'[order[i]] = assigned[order[i]]
                                 /\ depth'[order[i]] = depth[order[i]]
    PROVE  Holding(k)'
  <1>1. k + 1 \in 1 .. k + 1 /\ stack[k].at \in 1 .. k + 1 OBVIOUS
  <1> QED BY <1>1 DEF Holding

\* Layers is kept when the order loses artifacts at its end, or none.
LEMMA LayersSame ==
    ASSUME Layers, ix' = ix, Len(order) \in Nat, Len(order') \in Nat, Len(order') <= Len(order),
           order' # <<>> => order # <<>> /\ Len(order') > 0,
           \A i \in 1 .. Len(order') : /\ order'[i] = order[i]
                                       /\ assigned'[order[i]] = assigned[order[i]]
                                       /\ depth'[order[i]] = depth[order[i]]
    PROVE  Layers'
  <1>1. \A i \in 1 .. Len(order') : Needs(ix, assigned, order[i])' = Needs(ix, assigned, order[i])
    BY DEF Needs
  <1>2. \A i \in 1 .. Len(order') : i \in 1 .. Len(order) OBVIOUS
  <1>3. order' # <<>> => depth'[order'[1]] = 0 BY DEF Layers, Grounded
  <1>4. ASSUME NEW j \in 2 .. Len(order')
        PROVE  \E i \in 1 .. Len(order') :
                  i < j /\ order'[j] \in Needs(ix, assigned, order[i])'
                  /\ depth'[order'[j]] = depth'[order'[i]] + 1
    <2>1. j \in 2 .. Len(order) /\ j \in 1 .. Len(order') OBVIOUS
    <2>2. PICK i \in 1 .. Len(order) :
             i < j /\ order[j] \in Needs(ix, assigned, order[i])
             /\ depth[order[j]] = depth[order[i]] + 1
      BY <2>1 DEF Layers, Descends
    <2>3. i \in 1 .. Len(order') BY <2>1, <2>2
    <2> QED BY <2>1, <2>2, <2>3, <1>1
  <1>5. \A i, j \in 1 .. Len(order') :
          order'[j] \in Needs(ix, assigned, order[i])' => depth'[order'[j]] <= depth'[order'[i]] + 1
    BY <1>1, <1>2 DEF Layers, NoDeeper
  <1>6. \A i, j \in 1 .. Len(order') : i <= j => depth'[order'[i]] <= depth'[order'[j]]
    BY <1>2 DEF Layers, ByLevel
  <1> QED BY <1>3, <1>4, <1>5, <1>6 DEF Layers, Grounded, Descends, NoDeeper, ByLevel

\* Taking back the last artifact leaves the order before it.
LEMMA RemoveLast ==
    ASSUME NEW S, NEW s \in Seq(S), s # <<>>,
           \A i, j \in 1 .. Len(s) : s[i] = s[j] => i = j
    PROVE  /\ RemoveFirst(s, s[Len(s)]) \in Seq(S)
           /\ Len(RemoveFirst(s, s[Len(s)])) = Len(s) - 1
           /\ \A i \in 1 .. Len(s) - 1 : RemoveFirst(s, s[Len(s)])[i] = s[i]
  <1> DEFINE n == Len(s)
             First(i) == s[i] = s[n] /\ \A j \in 1 .. n : s[j] = s[n] => i <= j
             k == CHOOSE i \in 1 .. n : First(i)
             r == RemoveFirst(s, s[n])
  <1>1. n \in Nat \ {0} /\ n \in 1 .. n OBVIOUS
  <1>2. First(n) BY <1>1
  <1>3. \E i \in 1 .. n : First(i) BY <1>1, <1>2
  <1>4. k \in 1 .. n /\ First(k) BY <1>3
  <1>5. k = n BY <1>1, <1>4
  <1>6. r = [i \in 1 .. n - 1 |-> IF i < k THEN s[i] ELSE s[i + 1]]
    BY <1>1 DEF RemoveFirst
  <1> HIDE DEF k
  <1>7. r = [i \in 1 .. n - 1 |-> s[i]] BY <1>1, <1>5, <1>6
  <1>8. n - 1 \in Nat /\ \A i \in 1 .. n - 1 : s[i] \in S BY <1>1
  <1> QED BY <1>7, <1>8

\* The effect of assigning an artifact that is not selected.
LEMMA AssignAppends ==
    ASSUME TypeOK, Listed, NEW a \in Artifact, assigned[a] = 0, NEW v, NEW d, Assign(a, v, d)
    PROVE  /\ order' = Append(order, a)
           /\ Len(order') = Len(order) + 1
           /\ order'[Len(order) + 1] = a
           /\ assigned'[a] = v /\ depth'[a] = d
           /\ \A i \in 1 .. Len(order) :
                 /\ order'[i] = order[i] /\ order[i] # a
                 /\ assigned'[order[i]] = assigned[order[i]]
                 /\ depth'[order[i]] = depth[order[i]]
  <1>1. assigned \in [Artifact -> 0 .. MaxVersions] /\ depth \in [Artifact -> Nat]
        /\ order \in Seq(Artifact) /\ Len(order) \in Nat
    BY DEF TypeOK, Assignment
  <1>2. \A i \in 1 .. Len(order) : order[i] \in Artifact /\ order[i] # a
    BY <1>1 DEF Listed, Selected
  <1>3. /\ assigned' = [assigned EXCEPT ![a] = v] /\ depth' = [depth EXCEPT ![a] = d]
        /\ order' = Append(order, a)
    BY DEF Assign
  <1>4. assigned'[a] = v /\ depth'[a] = d BY <1>1, <1>3
  <1>5. \A i \in 1 .. Len(order) : assigned'[order[i]] = assigned[order[i]]
                                   /\ depth'[order[i]] = depth[order[i]]
    BY <1>1, <1>2, <1>3
  <1>6. /\ Len(order') = Len(order) + 1 /\ order'[Len(order) + 1] = a
        /\ \A i \in 1 .. Len(order) : order'[i] = order[i]
    BY <1>1, <1>3
  <1> QED BY <1>2, <1>3, <1>4, <1>5, <1>6

\* The effect of taking back the artifact assigned last.
LEMMA UnassignDrops ==
    ASSUME TypeOK, Distinct, order # <<>>, Unassign(order[Len(order)])
    PROVE  /\ Len(order) \in Nat \ {0} /\ Len(order') = Len(order) - 1
           /\ order' \in Seq(Artifact)
           /\ assigned'[order[Len(order)]] = 0
           /\ \A i \in 1 .. Len(order') :
                 /\ order'[i] = order[i]
                 /\ order[i] # order[Len(order)]
                 /\ assigned'[order[i]] = assigned[order[i]]
                 /\ depth'[order[i]] = depth[order[i]]
  <1> DEFINE a == order[Len(order)]
  <1>1. assigned \in [Artifact -> 0 .. MaxVersions] /\ depth \in [Artifact -> Nat]
        /\ order \in Seq(Artifact) /\ Len(order) \in Nat \ {0} /\ a \in Artifact
    BY DEF TypeOK, Assignment
  <1>2. /\ assigned' = [assigned EXCEPT ![a] = 0] /\ depth' = [depth EXCEPT ![a] = 0]
        /\ order' = RemoveFirst(order, a)
    BY DEF Unassign
  <1>3. /\ order' \in Seq(Artifact) /\ Len(order') = Len(order) - 1
        /\ \A i \in 1 .. Len(order) - 1 : order'[i] = order[i]
    BY <1>1, <1>2, RemoveLast DEF Distinct
  <1>4. \A i \in 1 .. Len(order) - 1 : order[i] # a /\ order[i] \in Artifact
    BY <1>1 DEF Distinct
  <1>5. \A i \in 1 .. Len(order) - 1 : assigned'[order[i]] = assigned[order[i]]
                                       /\ depth'[order[i]] = depth[order[i]]
    BY <1>1, <1>2, <1>4
  <1>6. assigned'[a] = 0 BY <1>1, <1>2
  <1> QED BY <1>1, <1>3, <1>4, <1>5, <1>6

-----------------------------------------------------------------------------
(* Each step keeps the walk. *)

\* Steps that change no call and nothing selected.
LEMMA QuietWalk ==
    ASSUME TypeOK, Walk, UNCHANGED <<ix, root, tried, assigned, depth, order, stack>>,
           phase' \in {"choose", "returned"} => stack = <<>> \/ phase' = phase,
           Lengths'
    PROVE  Walk'
  <1>1. Len(order) \in Nat /\ Len(stack) \in Nat /\ (order # <<>> => Len(order) > 0)
    BY DEF TypeOK
  <1>2. ASSUME NEW k \in 1 .. Len(stack')
        PROVE  /\ Copied(k)'
               /\ k < Len(stack') \/ phase' \in {"choose", "returned"} => Busy(k)'
               /\ k < Len(stack') \/ phase' = "returned" => Holding(k)'
    <2>1. k \in 1 .. Len(stack) /\ stack # <<>> /\ k \in Nat OBVIOUS
    <2>2. /\ Copied(k)
          /\ k < Len(stack) \/ phase \in {"choose", "returned"} => Busy(k)
          /\ k < Len(stack) \/ phase = "returned" => Holding(k)
      BY <2>1 DEF Walk, Frames
    <2>3. Copied(k)' BY <2>2 DEF Copied
    <2>4. ASSUME Busy(k) PROVE Busy(k)' BY <2>1, <2>4, BusySame
    <2>5. ASSUME Holding(k) PROVE Holding(k)' BY <2>5 DEF Holding
    <2> QED BY <2>1, <2>2, <2>3, <2>4, <2>5
  <1>3. Frames' BY <1>2 DEF Frames
  <1>4. Layers' BY <1>1, LayersSame DEF Walk
  <1> QED BY <1>3, <1>4 DEF Walk

\* A call returns; what it leaves behind when it fails is what it found.
LEMMA ReturnWalk ==
    ASSUME TypeOK, Walk, stack # <<>>, phase \in {"scan", "choose"},
           UNCHANGED <<ix, root, tried, assigned, depth, order>>,
           NEW value \in BOOLEAN, value \/ ~found, Return(value)
    PROVE  Walk'
  <1>1. Len(order) \in Nat /\ Len(stack) \in Nat \ {0} /\ (order # <<>> => Len(order) > 0)
    BY DEF TypeOK
  <1>2. /\ phase' = "returned" /\ found' = value /\ Len(stack') = Len(stack) - 1
        /\ \A k \in 1 .. Len(stack) - 1 : stack'[k] = stack[k]
    BY TopFacts DEF Return
  <1>3. ASSUME NEW k \in 1 .. Len(stack') PROVE Copied(k)' /\ Busy(k)' /\ Holding(k)'
    <2>1. k \in 1 .. Len(stack) /\ k < Len(stack) /\ k \in Nat /\ stack'[k] = stack[k]
      BY <1>1, <1>2
    <2>2. Copied(k) /\ Busy(k) /\ Holding(k) BY <2>1 DEF Walk, Frames
    <2>3. Copied(k)' BY <2>1, <2>2 DEF Copied
    <2>4. Busy(k)' BY <2>1, <2>2, BusySame
    <2>5. Holding(k)' BY <2>1, <2>2 DEF Holding
    <2> QED BY <2>3, <2>4, <2>5
  <1>4. Frames' BY <1>3 DEF Frames
  <1>5. Layers' BY <1>1, LayersSame DEF Walk
  <1>6. Lengths' BY <1>1, <1>2 DEF Walk, Lengths
  <1> QED BY <1>4, <1>5, <1>6 DEF Walk

\* The innermost call moves on to a candidate.
LEMMA MovedWalk ==
    ASSUME TypeOK, Walk, stack # <<>>, phase \in {"scan", "choose"}, phase' = "choose",
           UNCHANGED <<ix, root, tried, assigned, depth, order, found>>,
           NEW f \in Frame, Moved(f), f.snap = Top.snap, Busy(Len(stack))'
    PROVE  Walk'
  <1>1. Len(order) \in Nat /\ Len(stack) \in Nat \ {0} /\ stack \in Seq(Frame)
        /\ (order # <<>> => Len(order) > 0)
    BY DEF TypeOK
  <1>2. /\ Len(stack') = Len(stack) /\ stack'[Len(stack)] = f /\ stack' # <<>>
        /\ \A k \in 1 .. Len(stack) - 1 : stack'[k] = stack[k]
    BY <1>1, ReplaceLast DEF Moved
  <1>3. ASSUME NEW k \in 1 .. Len(stack), k < Len(stack)
        PROVE  Copied(k)' /\ Busy(k)' /\ Holding(k)'
    <2>1. stack'[k] = stack[k] /\ k \in Nat BY <1>1, <1>2, <1>3
    <2>2. Copied(k) /\ Busy(k) /\ Holding(k) BY <1>3 DEF Walk, Frames
    <2>3. Copied(k)' BY <2>1, <2>2 DEF Copied
    <2>4. Busy(k)' BY <2>1, <2>2, BusySame
    <2>5. Holding(k)' BY <2>1, <2>2 DEF Holding
    <2> QED BY <2>3, <2>4, <2>5
  <1>4. Copied(Len(stack))'
    <2>1. Copied(Len(stack)) BY <1>1 DEF Walk, Frames
    <2>2. stack'[Len(stack)].snap = stack[Len(stack)].snap BY <1>2 DEF Top
    <2> QED BY <2>1, <2>2, <1>2 DEF Copied
  <1>5. Frames'
    <2> SUFFICES ASSUME NEW k \in 1 .. Len(stack')
                 PROVE  /\ Copied(k)'
                        /\ Busy(k)'
                        /\ k < Len(stack') => Holding(k)'
      BY DEF Frames
    <2>1. CASE k < Len(stack) BY <2>1, <1>2, <1>3
    <2>2. CASE k = Len(stack) BY <2>2, <1>2, <1>4
    <2> QED BY <2>1, <2>2, <1>1, <1>2
  <1>6. Layers' BY <1>1, LayersSame DEF Walk
  <1>7. Lengths' BY <1>2 DEF Walk, Lengths
  <1> QED BY <1>5, <1>6, <1>7 DEF Walk

\* What a selected version needs has an id.
LEMMA NeedsFacts ==
    ASSUME TypeOK, NEW a \in Artifact, NEW t \in Needs(ix, assigned, a)
    PROVE  /\ a \in DOMAIN ix /\ assigned[a] \in 1 .. Len(ix[a])
           /\ t \in Artifact /\ t \in Nat
  <1>1. a \in DOMAIN ix /\ assigned[a] # 0 /\ t \in DOMAIN ix[a][assigned[a]].deps
    BY DEF Needs
  <1> DEFINE v == assigned[a]
  <1>2. v \in Nat /\ v <= Len(ix[a]) /\ Len(ix[a]) \in Nat
    BY <1>1, IndexFacts, CatalogueAssumption DEF TypeOK, Assignment, Legal
  <1> HIDE DEF v
  <1>3. v \in 1 .. Len(ix[a]) BY <1>1, <1>2 DEF v
  <1>4. t \in Artifact BY <1>1, <1>3, IndexFacts DEF TypeOK, v
  <1> QED BY <1>1, <1>3, <1>4, CatalogueAssumption DEF v

LEMMA InitWalk == Init => Walk
  <1> SUFFICES ASSUME Init PROVE Walk
    OBVIOUS
  <1>1. order = <<>> /\ stack = <<>> /\ phase = "checking" BY DEF Init
  <1> QED BY <1>1 DEF Walk, Frames, Lengths, Layers, Grounded, Descends, NoDeeper, ByLevel

LEMMA TryRootWalk == WInv /\ TryRoot => Walk'
  <1> SUFFICES ASSUME WInv, TryRoot PROVE Walk'
    OBVIOUS
  <1>1. TypeOK /\ Listed /\ Walk /\ root \in Artifact /\ ~found /\ phase = "roots"
    BY DEF WInv, IInv, TypeOK, Sound, TryRoot
  <1>2. /\ UNCHANGED <<ix, root, found>> /\ phase' = "scan" /\ stack' = <<NewCall(order')>>
    BY DEF TryRoot, request
  <1>3. PICK c \in Untried : tried' = c /\ Assign(root, c, 0) BY DEF TryRoot
  <1>4. order = <<>> BY <1>1 DEF Walk, Lengths
  <1>5. assigned[root] = 0 BY <1>1, <1>4 DEF Listed, Selected
  <1>6. /\ order' = <<root>> /\ assigned'[root] = c /\ depth'[root] = 0
    BY <1>1, <1>3, <1>4, <1>5, AssignAppends
  <1>7. Len(stack') = 1 /\ stack'[1].snap = <<root>> BY <1>2, <1>6 DEF NewCall, Call
  <1>8. Frames'
    <2>1. Copied(1)' BY <1>6, <1>7 DEF Copied
    <2>2. \A k \in 1 .. Len(stack') : k = 1 /\ ~(k < Len(stack')) BY <1>7
    <2> QED BY <1>2, <2>1, <2>2 DEF Frames
  <1>9. Lengths' BY <1>2, <1>3, <1>6, <1>7 DEF Lengths
  <1>10. Layers' BY <1>6 DEF Layers, Grounded, Descends, NoDeeper, ByLevel
  <1> QED BY <1>8, <1>9, <1>10 DEF Walk

\* The scan of a new call stops at or after the place of its caller.
LEMMA DemandWalk == WInv /\ Demand => Walk'
  <1> SUFFICES ASSUME WInv, Demand PROVE Walk'
    OBVIOUS
  <1>1. TypeOK /\ Calls /\ Distinct /\ Listed /\ Fresh /\ Walk BY DEF WInv, IInv
  <1>2. /\ UNCHANGED <<ix, root, tried, assigned, depth, order, found>>
        /\ phase = "scan" /\ phase' = "choose"
    BY DEF Demand, request
  <1>3. PICK i \in 1 .. Len(Top.snap), t \in Artifact :
           /\ IsNextUnmet(Top, i, t)
           /\ t \in DOMAIN ix /\ assigned[t] = 0
           /\ Moved(Call(Top.snap, i, t, 0, FALSE))
    BY DEF Demand
  <1>4. ~found /\ stack # <<>> BY <1>2, <1>3, NotFound DEF WInv
  <1> DEFINE n == Len(stack)
             f == Call(Top.snap, i, t, 0, FALSE)
  <1>5. /\ Top.at = 0 /\ Top.dep = 0 /\ Top.snap = order /\ n \in Nat \ {0} /\ Len(order) = n
        /\ order \in Seq(Artifact) /\ depth \in [Artifact -> Nat]
    BY <1>1, <1>2, <1>4, TopFacts DEF Fresh, Walk, Lengths, TypeOK
  <1>6. f \in Frame /\ f.snap = Top.snap /\ f.at = i /\ f.dep = t
    BY <1>1, <1>4, <1>5, TopFacts, CatalogueAssumption DEF Call, Frame
  <1>7. stack' = [stack EXCEPT ![n] = f] /\ stack \in Seq(Frame) BY <1>1, <1>3 DEF Moved, TypeOK
  <1> HIDE DEF f
  <1>8. Len(stack') = n /\ stack'[n] = f BY <1>4, <1>6, <1>7, ReplaceLast
  <1>9. /\ i \in 1 .. n /\ t \in Needs(ix, assigned, order[i])
        /\ \A p \in Unmet(Top) : p[1] > i \/ (p[1] = i /\ p[2] >= t)
    BY <1>3, <1>5 DEF IsNextUnmet, Unmet
  <1>10. \A j \in 1 .. n : order[j] # t BY <1>1, <1>3, <1>5 DEF Listed, Selected
  <1>11. ASSUME NEW j \in 1 .. n, j < i, NEW u \in Needs(ix, assigned, order[j])
         PROVE  \E l \in 1 .. n : order[l] = u
    <2>1. order[j] \in Artifact BY <1>5
    <2>2. u \in Artifact /\ u \in Nat BY <1>1, <2>1, NeedsFacts
    <2>3. <<j, u>> \notin Unmet(Top) BY <1>9, <1>11
    <2>4. Ahead(Top, j, u) BY <1>5 DEF Ahead
    <2>5. Met(ix, assigned, order[j], u) BY <1>5, <2>2, <2>3, <2>4 DEF Unmet
    <2>6. u \in Selected(assigned) BY <2>2, <2>5 DEF Met, Selected
    <2> QED BY <1>1, <1>5, <2>6 DEF Listed
  <1>12. \A j \in 1 .. n : depth[order[j]] <= depth[order[i]] + 1
    <2>1. \A j \in 1 .. n : order[j] \in Artifact /\ depth[order[j]] \in Nat BY <1>5
    <2>2. CASE n = 1
      <3>1. \A j \in 1 .. n : j = i BY <1>9, <2>2
      <3> QED BY <2>1, <3>1, <1>9
    <2>3. CASE n > 1
      <3> DEFINE m == n - 1
                 b == stack[m].at
      <3>1. m \in Nat /\ m \in 1 .. n /\ m < n /\ m + 1 = n /\ n \in 1 .. n BY <1>5, <2>3
      <3>2. Busy(m) /\ Holding(m) BY <1>1, <3>1 DEF Walk, Frames
      <3>3. b \in 1 .. m /\ b \in 1 .. n BY <3>1, <3>2 DEF Busy
      <3>4. depth[order[n]] = depth[order[b]] + 1 BY <3>1, <3>2 DEF Holding
      <3>5. ~(i < b)
        <4> SUFFICES ASSUME i < b PROVE FALSE
          OBVIOUS
        <4>1. i \in 1 .. m BY <1>9, <3>3
        <4>2. \E j \in 1 .. m : order[j] = t BY <1>9, <3>2, <4>1 DEF Busy
        <4> QED BY <1>10, <3>1, <4>2
      <3>6. depth[order[b]] <= depth[order[i]]
        <4>1. b <= i BY <1>9, <3>3, <3>5
        <4> QED BY <1>1, <1>5, <1>9, <3>3, <4>1 DEF Walk, Layers, ByLevel
      <3>7. \A j \in 1 .. n : depth[order[j]] <= depth[order[n]]
        BY <1>1, <1>5, <3>1, SMTT(30) DEF Walk, Layers, ByLevel
      <3>8. depth[order[n]] <= depth[order[i]] + 1 BY <2>1, <3>3, <3>4, <3>6, <1>9
      <3>9. depth[order[n]] \in Nat /\ depth[order[i]] \in Nat BY <2>1, <3>1, <1>9
      <3> HIDE DEF m, b
      <3>10. ASSUME NEW j \in 1 .. n PROVE depth[order[j]] <= depth[order[i]] + 1
        <4>1. depth[order[j]] \in Nat /\ depth[order[j]] <= depth[order[n]] BY <2>1, <3>7
        <4> QED BY <4>1, <3>8, <3>9
      <3> QED BY <3>10
    <2> QED BY <1>5, <2>2, <2>3
  <1>13. Busy(n)'
    <2>1. \A j \in 1 .. n : Needs(ix, assigned, order[j])' = Needs(ix, assigned, order[j])
      BY <1>2 DEF Needs
    <2> QED BY <1>2, <1>6, <1>8, <1>9, <1>10, <1>11, <1>12, <2>1 DEF Busy
  <1> QED BY <1>1, <1>2, <1>4, <1>6, <1>7, <1>13, MovedWalk DEF Moved

LEMMA SkipCandidateWalk == WInv /\ SkipCandidate => Walk'
  <1> SUFFICES ASSUME WInv, SkipCandidate PROVE Walk'
    OBVIOUS
  <1> DEFINE f == [Top EXCEPT !.cand = @ + 1]
  <1>1. /\ UNCHANGED <<ix, root, tried, assigned, depth, order, found>>
        /\ phase = "choose" /\ phase' = "choose" /\ Top.cand < Candidates /\ Moved(f)
    BY DEF SkipCandidate, request
  <1>2. /\ TypeOK /\ stack # <<>> /\ Len(stack) \in Nat \ {0} /\ Top \in Frame /\ Walk
        /\ Candidates \in 0 .. MaxVersions /\ Top.cand \in 0 .. Candidates
    BY <1>1, ChooseFacts DEF WInv
  <1>3. Top.cand + 1 \in 0 .. MaxVersions BY <1>1, <1>2, CatalogueAssumption
  <1>4. f \in Frame /\ f.at = Top.at /\ f.snap = Top.snap /\ f.dep = Top.dep
    BY <1>2, <1>3 DEF Frame
  <1> HIDE DEF f
  <1>5. Len(stack') = Len(stack) /\ stack'[Len(stack)] = f
    BY <1>1, <1>2, <1>4, ReplaceLast DEF Moved, TypeOK
  <1>6. Busy(Len(stack)) BY <1>1, <1>2 DEF Walk, Frames
  <1>7. Busy(Len(stack))'
    <2>1. ASSUME NEW k \in Nat, k = Len(stack) PROVE Busy(k)'
      <3>1. Busy(k) /\ stack'[k].at = stack[k].at /\ stack'[k].dep = stack[k].dep
        BY <1>4, <1>5, <1>6, <2>1 DEF Top
      <3>2. \A i \in 1 .. k : /\ order'[i] = order[i]
                              /\ assigned'[order[i]] = assigned[order[i]]
                              /\ depth'[order[i]] = depth[order[i]]
        BY <1>1
      <3> QED BY <1>1, <3>1, <3>2, BusySame
    <2> QED BY <1>2, <1>5, <2>1
  <1> QED BY <1>1, <1>2, <1>4, <1>7, MovedWalk

\* The candidate is one level below Asker: all that is listed is above or beside it.
LEMMA TakeCandidateWalk == WInv /\ TakeCandidate => Walk'
  <1> SUFFICES ASSUME WInv, TakeCandidate PROVE Walk'
    OBVIOUS
  <1> DEFINE below == [stack EXCEPT ![Len(stack)] = Took]
             n == Len(stack)
             a == Top.dep
             v == Top.cand + 1
  <1>1. /\ UNCHANGED <<ix, root, tried, found>>
        /\ phase = "choose" /\ phase' = "scan" /\ Top.cand < Candidates
        /\ Assign(a, v, depth[Asker] + 1)
        /\ stack' = Append(below, NewCall(order'))
    BY DEF TakeCandidate, request
  <1>2. /\ TypeOK /\ Listed /\ Walk /\ ~found /\ stack # <<>> /\ n \in Nat \ {0} /\ Top \in Frame
        /\ a \in DOMAIN ix /\ a \in Artifact /\ stack[n] = Top /\ Asker \in Artifact
        /\ Candidates \in 0 .. MaxVersions /\ Top.cand \in 0 .. Candidates
    BY <1>1, ChooseFacts DEF WInv
  <1>3. Len(order) = n /\ order \in Seq(Artifact) /\ order # <<>> /\ order[1] = root
        /\ assigned[root] = tried /\ depth \in [Artifact -> Nat] /\ root \in Artifact
    BY <1>1, <1>2 DEF Walk, Lengths, TypeOK
  <1>4. Copied(n) /\ Busy(n) BY <1>1, <1>2 DEF Walk, Frames
  <1>5. Top.at \in 1 .. n /\ Asker = order[Top.at] /\ \A i \in 1 .. n : order[i] # a
    BY <1>2, <1>4 DEF Copied, Busy, Asker
  <1>6. assigned[a] = 0 BY <1>2, <1>3, <1>5 DEF Listed, Selected
  <1>7. /\ Len(order') = n + 1 /\ order'[n + 1] = a /\ assigned'[a] = v
        /\ depth'[a] = depth[Asker] + 1
        /\ \A i \in 1 .. n : /\ order'[i] = order[i]
                             /\ assigned'[order[i]] = assigned[order[i]]
                             /\ depth'[order[i]] = depth[order[i]]
    BY <1>1, <1>2, <1>3, <1>6, AssignAppends, SMTT(30)
  <1>8. Took \in Frame /\ Took.at = Top.at /\ Took.snap = Top.snap /\ Took.dep = a
        /\ Took.cand = v
    <2>1. Top.snap \in Seq(Artifact) /\ Top.at \in Nat /\ Top.dep \in Artifact BY <1>2 DEF Frame
    <2>2. v \in 0 .. MaxVersions BY <1>1, <1>2, CatalogueAssumption
    <2> QED BY <2>1, <2>2 DEF Took, Call, Frame
  <1>9. NewCall(order') \in Frame /\ NewCall(order').snap = order'
    <2>1. order' = Append(order, a) BY <1>1, <1>2, <1>6, AssignAppends
    <2>2. order' \in Seq(Artifact) BY <1>2, <1>3, <2>1, AppendProperties
    <2> QED BY <2>2, CatalogueAssumption DEF NewCall, Call, Frame
  <1>10. /\ below \in Seq(Frame) /\ Len(below) = n /\ below[n] = Took
         /\ \A k \in 1 .. n - 1 : below[k] = stack[k]
    BY <1>2, <1>8, ReplaceLast DEF TypeOK
  <1>11. /\ Len(stack') = n + 1 /\ stack'[n + 1].snap = order' /\ stack'[n] = Took
         /\ \A k \in 1 .. n - 1 : stack'[k] = stack[k]
    <2> HIDE DEF below
    <2>1. /\ Len(stack') = n + 1 /\ stack'[n + 1] = NewCall(order')
          /\ \A k \in 1 .. n : stack'[k] = below[k]
      BY <1>1, <1>2, <1>9, <1>10, AppendProperties
    <2> QED BY <1>2, <1>9, <1>10, <2>1
  <1> HIDE DEF below
  <1>12. ASSUME NEW k \in 1 .. n PROVE Copied(k)' /\ Busy(k)' /\ Holding(k)'
    <2>1. stack'[k].at = stack[k].at /\ stack'[k].dep = stack[k].dep
          /\ stack'[k].snap = stack[k].snap /\ k \in Nat
      BY <1>2, <1>8, <1>11
    <2>2. Copied(k) /\ Busy(k) BY <1>1, <1>2, <1>4 DEF Walk, Frames
    <2>3. k <= Len(order') /\ \A i \in 1 .. k : /\ order'[i] = order[i]
                                               /\ assigned'[order[i]] = assigned[order[i]]
                                               /\ depth'[order[i]] = depth[order[i]]
      <3>1. k <= n /\ \A i \in 1 .. k : i \in 1 .. n BY <1>2
      <3>2. k <= n + 1 BY <1>2, <3>1
      <3> QED BY <1>7, <3>1, <3>2
    <2>4. Copied(k)' BY <2>1, <2>2, <2>3, CopiedSame
    <2>5. Busy(k)' BY <1>1, <2>1, <2>2, <2>3, BusySame
    <2>6. Holding(k)'
      <3>1. CASE k = n
        <4>1. n < Len(order') /\ order'[n + 1] = stack'[n].dep /\ assigned'[stack'[n].dep] = stack'[n].cand
          BY <1>2, <1>7, <1>8, <1>11
        <4>2. depth'[stack'[n].dep] = depth'[order'[stack'[n].at]] + 1
          BY <1>5, <1>7, <1>8, <1>11
        <4> QED BY <3>1, <4>1, <4>2 DEF Holding
      <3>2. CASE k < n
        <4>1. Holding(k) /\ stack'[k] = stack[k] BY <1>2, <1>11, <3>2 DEF Walk, Frames
        <4>2. \A i \in 1 .. k + 1 : i \in 1 .. n BY <1>2, <3>2
        <4>3. stack[k].at \in 1 .. k /\ k < Len(order') BY <1>7, <2>2 DEF Busy
        <4> QED BY <1>7, <2>1, <4>1, <4>2, <4>3, HoldingSame
      <3> QED BY <1>2, <3>1, <3>2
    <2> QED BY <2>4, <2>5, <2>6
  <1>13. Frames'
    <2> SUFFICES ASSUME NEW k \in 1 .. n + 1
                 PROVE  /\ Copied(k)'
                        /\ k < n + 1 => Busy(k)' /\ Holding(k)'
      BY <1>1, <1>11 DEF Frames
    <2>1. CASE k = n + 1 BY <2>1, <1>7, <1>11 DEF Copied
    <2>2. CASE k \in 1 .. n BY <2>2, <1>12
    <2> QED BY <1>2, <2>1, <2>2
  <1>14. Lengths'
    BY <1>1, <1>2, <1>3, <1>7, <1>11 DEF Lengths
  <1>15. Layers'
    <2>1. \A i \in 1 .. n : Needs(ix, assigned, order[i])' = Needs(ix, assigned, order[i])
      BY <1>1, <1>7 DEF Needs
    <2>2. \A i \in 1 .. n : order[i] \in Artifact /\ depth[order[i]] \in Nat BY <1>3
    <2> DEFINE d == depth[order[Top.at]]
    <2>3. d \in Nat /\ \A i \in 1 .. n : depth[order[i]] <= d + 1
      BY <1>2, <1>4, <1>5, <2>2 DEF Busy
    <2>4. \A i \in 1 .. n : Top.at <= i => d <= depth[order[i]]
      BY <1>2, <1>3, <1>5 DEF Walk, Layers, ByLevel
    <2>5. depth'[order'[n + 1]] = d + 1 BY <1>5, <1>7
    <2>6. ASSUME NEW i \in 1 .. n, a \in Needs(ix, assigned, order[i]) PROVE Top.at <= i
      <3>1. ~(i < Top.at) BY <1>2, <1>4, <1>5, <2>6 DEF Busy
      <3> QED BY <1>2, <1>5, <3>1
    <2>7. a \in Needs(ix, assigned, order[Top.at]) BY <1>2, <1>4 DEF Busy
    <2> HIDE DEF d
    <2>8. depth'[order'[1]] = 0 BY <1>2, <1>3, <1>7 DEF Walk, Layers, Grounded
    <2>9. ASSUME NEW j \in 2 .. n + 1
          PROVE  \E i \in 1 .. n + 1 :
                    i < j /\ order'[j] \in Needs(ix, assigned, order[i])'
                    /\ depth'[order'[j]] = depth'[order'[i]] + 1
      <3>1. CASE j = n + 1
        <4>1. Top.at \in 1 .. n + 1 /\ Top.at < j BY <1>2, <1>5, <3>1
        <4>2. depth'[order'[Top.at]] = d BY <1>5, <1>7 DEF d
        <4> QED BY <1>5, <1>7, <2>1, <2>5, <2>7, <3>1, <4>1, <4>2
      <3>2. CASE j < n + 1
        <4>1. j \in 2 .. n /\ j \in 1 .. n BY <1>2, <3>2
        <4>2. PICK i \in 1 .. n : i < j /\ order[j] \in Needs(ix, assigned, order[i])
                                  /\ depth[order[j]] = depth[order[i]] + 1
          BY <1>2, <1>3, <4>1 DEF Walk, Layers, Descends
        <4> QED BY <1>2, <1>7, <2>1, <4>1, <4>2
      <3> QED BY <1>2, <3>1, <3>2
    <2>10. ASSUME NEW i \in 1 .. n + 1, NEW j \in 1 .. n + 1,
                  order'[j] \in Needs(ix, assigned, order[i])'
           PROVE  depth'[order'[j]] <= depth'[order'[i]] + 1
      <3>1. CASE i \in 1 .. n /\ j \in 1 .. n
        <4>1. order[j] \in Needs(ix, assigned, order[i]) BY <1>7, <2>1, <2>10, <3>1
        <4>2. depth[order[j]] <= depth[order[i]] + 1
          BY <1>2, <1>3, <3>1, <4>1 DEF Walk, Layers, NoDeeper
        <4> QED BY <1>7, <3>1, <4>2
      <3>2. CASE i \in 1 .. n /\ j = n + 1
        <4>1. Top.at <= i BY <1>7, <2>1, <2>6, <2>10, <3>2
        <4>2. d <= depth[order[i]] BY <2>4, <3>2, <4>1
        <4> QED BY <1>7, <2>2, <2>3, <2>5, <3>2, <4>2
      <3>3. CASE i = n + 1 /\ j \in 1 .. n
        BY <1>7, <2>2, <2>3, <2>5, <3>3
      <3>4. CASE i = n + 1 /\ j = n + 1
        BY <2>3, <2>5, <3>4
      <3> QED BY <1>2, <3>1, <3>2, <3>3, <3>4
    <2>11. ASSUME NEW i \in 1 .. n + 1, NEW j \in 1 .. n + 1, i <= j
           PROVE  depth'[order'[i]] <= depth'[order'[j]]
      <3>1. CASE j \in 1 .. n
        <4>1. i \in 1 .. n BY <2>11, <3>1
        <4> QED BY <1>2, <1>3, <1>7, <2>11, <3>1, <4>1 DEF Walk, Layers, ByLevel
      <3>2. CASE i \in 1 .. n /\ j = n + 1
        BY <1>7, <2>2, <2>3, <2>5, <3>2
      <3>3. CASE i = n + 1 /\ j = n + 1
        BY <2>3, <2>5, <3>3
      <3> QED BY <1>2, <2>11, <3>1, <3>2, <3>3
    <2> QED BY <1>7, <2>8, <2>9, <2>10, <2>11 DEF Layers, Grounded, Descends, NoDeeper, ByLevel
  <1> QED BY <1>13, <1>14, <1>15 DEF Walk

LEMMA ResumeFalseWalk == WInv /\ ResumeFalse => Walk'
  <1> SUFFICES ASSUME WInv, ResumeFalse PROVE Walk'
    OBVIOUS
  <1>1. TypeOK /\ Distinct /\ Walk BY DEF WInv, IInv
  <1>2. /\ UNCHANGED <<ix, root, tried, stack, found>>
        /\ phase = "returned" /\ phase' = "choose" /\ ~found /\ stack # <<>> /\ Unassign(Top.dep)
    BY DEF ResumeFalse, request
  <1>3. PICK n \in Nat \ {0} : n = Len(stack) BY <1>1, <1>2, TopFacts
  <1>4. Len(order) = n + 1 /\ order # <<>> /\ order[1] = root /\ assigned[root] = tried
    BY <1>1, <1>2, <1>3 DEF Walk, Lengths
  <1>5. \A k \in 1 .. n : Copied(k) /\ Busy(k) /\ Holding(k) BY <1>1, <1>2, <1>3 DEF Walk, Frames
  <1>6. order[n + 1] = Top.dep BY <1>3, <1>5 DEF Holding, Top
  <1>7. /\ Len(order') = n /\ order' \in Seq(Artifact)
        /\ \A i \in 1 .. n : /\ order'[i] = order[i]
                             /\ assigned'[order[i]] = assigned[order[i]]
                             /\ depth'[order[i]] = depth[order[i]]
    BY <1>1, <1>2, <1>3, <1>4, <1>6, UnassignDrops
  <1>8. ASSUME NEW k \in 1 .. n PROVE Copied(k)' /\ Busy(k)' /\ (k < n => Holding(k)')
    <2>1. k \in Nat /\ k <= n /\ \A i \in 1 .. k : i \in 1 .. n BY <1>3
    <2>2. k <= Len(order') /\ \A i \in 1 .. k : /\ order'[i] = order[i]
                                               /\ assigned'[order[i]] = assigned[order[i]]
                                               /\ depth'[order[i]] = depth[order[i]]
      BY <1>7, <2>1
    <2>3. Copied(k)' BY <1>2, <1>5, <2>1, <2>2, CopiedSame
    <2>4. Busy(k)' BY <1>2, <1>5, <2>1, <2>2, BusySame
    <2>5. ASSUME k < n PROVE Holding(k)'
      <3>1. \A i \in 1 .. k + 1 : i \in 1 .. n BY <1>3, <2>5
      <3>2. stack[k].at \in 1 .. k /\ k < Len(order') BY <1>5, <1>7, <2>5 DEF Busy
      <3> QED BY <1>2, <1>5, <1>7, <2>1, <3>1, <3>2, HoldingSame
    <2> QED BY <2>3, <2>4, <2>5
  <1>9. Frames' BY <1>2, <1>3, <1>8 DEF Frames
  <1>10. Lengths'
    <2>1. order'[1] = root /\ assigned'[root] = tried BY <1>3, <1>4, <1>7
    <2>2. order' # <<>> BY <1>3, <1>7
    <2> QED BY <1>2, <1>3, <1>7, <2>1, <2>2 DEF Lengths
  <1>11. Layers'
    <2>1. Len(order) \in Nat /\ Len(order') \in Nat /\ Len(order') <= Len(order) /\ Len(order') > 0
      BY <1>3, <1>4, <1>7
    <2> QED BY <1>1, <1>2, <1>4, <1>7, <2>1, LayersSame DEF Walk
  <1> QED BY <1>9, <1>10, <1>11 DEF Walk

LEMMA RootFailsWalk == WInv /\ RootFails => Walk'
  <1> SUFFICES ASSUME WInv, RootFails PROVE Walk'
    OBVIOUS
  <1>1. TypeOK /\ Distinct /\ Walk BY DEF WInv, IInv
  <1>2. /\ UNCHANGED <<ix, root, tried, stack, found>>
        /\ phase = "returned" /\ phase' = "roots" /\ ~found /\ stack = <<>> /\ Unassign(root)
    BY DEF RootFails, request
  <1>3. Len(order) = 1 /\ order # <<>> /\ order[1] = root
    BY <1>1, <1>2 DEF Walk, Lengths
  <1>4. Len(order') = 0 /\ order' \in Seq(Artifact)
    BY <1>1, <1>2, <1>3, UnassignDrops
  <1>5. order' = <<>> BY <1>4
  <1>6. Frames' BY <1>2 DEF Frames
  <1>7. Lengths' BY <1>2, <1>5 DEF Lengths
  <1>8. Layers' BY <1>5 DEF Layers, Grounded, Descends, NoDeeper, ByLevel
  <1> QED BY <1>6, <1>7, <1>8 DEF Walk

\* The steps at which a call returns.
LEMMA ReturnsWalk ==
    WInv /\ (ScanDone \/ TargetMissing \/ Conflict \/ Exhausted) => Walk'
  <1> SUFFICES ASSUME WInv, ScanDone \/ TargetMissing \/ Conflict \/ Exhausted PROVE Walk'
    OBVIOUS
  <1>1. TypeOK /\ Calls /\ Walk BY DEF WInv, IInv
  <1>2. UNCHANGED <<ix, root, tried, assigned, depth, order>> /\ phase \in {"scan", "choose"}
    BY DEF ScanDone, TargetMissing, Conflict, Exhausted, request
  <1>3. stack # <<>> BY <1>1, <1>2 DEF Calls
  <1>4. CASE ScanDone BY <1>1, <1>2, <1>3, <1>4, ReturnWalk DEF ScanDone
  <1>5. CASE TargetMissing
    <2>1. ~found BY <1>5, NotFound DEF TargetMissing, WInv
    <2> QED BY <1>1, <1>2, <1>3, <1>5, <2>1, ReturnWalk DEF TargetMissing
  <1>6. CASE Conflict
    <2>1. ~found BY <1>6, NotFound DEF Conflict, WInv
    <2> QED BY <1>1, <1>2, <1>3, <1>6, <2>1, ReturnWalk DEF Conflict
  <1>7. CASE Exhausted
    <2>1. ~found BY <1>7, ChooseFacts DEF Exhausted, WInv
    <2> QED BY <1>1, <1>2, <1>3, <1>7, <2>1, ReturnWalk DEF Exhausted
  <1> QED BY <1>4, <1>5, <1>6, <1>7

LEMMA NextWalk == WInv /\ [Next]_vars => Walk'
  <1> SUFFICES ASSUME WInv, [Next]_vars PROVE Walk'
    OBVIOUS
  <1>1. TypeOK /\ Walk /\ Sound /\ Lengths BY DEF WInv, IInv, Walk
  <1>2. CASE RootMissing \/ NoVersions \/ CycleFound \/ StartSearch
    <2>1. /\ UNCHANGED <<ix, root, tried, assigned, depth, order, stack, found>>
          /\ phase = "checking" /\ phase' \in {"failed", "roots"}
      BY <1>2 DEF RootMissing, NoVersions, CycleFound, StartSearch, Refused, request
    <2>2. Lengths' BY <1>1, <2>1 DEF Lengths
    <2> QED BY <1>1, <2>1, <2>2, QuietWalk
  <1>3. CASE RootSucceeds
    <2>1. /\ UNCHANGED <<ix, root, tried, assigned, depth, order, stack, found>>
          /\ phase = "returned" /\ phase' = "succeeded" /\ stack = <<>> /\ found
      BY <1>3 DEF RootSucceeds, request
    <2>2. Lengths' BY <1>1, <2>1 DEF Lengths
    <2> QED BY <1>1, <2>1, <2>2, QuietWalk
  <1>4. CASE GiveUp
    <2>1. /\ UNCHANGED <<ix, root, tried, assigned, depth, order, stack, found>>
          /\ phase = "roots" /\ phase' = "failed"
      BY <1>4 DEF GiveUp, request
    <2>2. Lengths' BY <1>1, <2>1 DEF Lengths
    <2> QED BY <1>1, <2>1, <2>2, QuietWalk
  <1>5. CASE ResumeTrue
    <2>1. /\ UNCHANGED <<ix, root, tried, assigned, depth, order, stack, found>>
          /\ phase = "returned" /\ phase' = "scan" /\ found
      BY <1>5 DEF ResumeTrue, request
    <2>2. Lengths' BY <1>1, <2>1 DEF Lengths
    <2> QED BY <1>1, <2>1, <2>2, QuietWalk
  <1>6. CASE UNCHANGED vars
    <2>1. UNCHANGED <<ix, root, tried, assigned, depth, order, stack, found, phase>>
      BY <1>6 DEF vars
    <2>2. Lengths' BY <1>1, <2>1 DEF Lengths
    <2> QED BY <1>1, <2>1, <2>2, QuietWalk
  <1> QED BY <1>2, <1>3, <1>4, <1>5, <1>6, TryRootWalk, RootFailsWalk, ReturnsWalk, DemandWalk,
             SkipCandidateWalk, TakeCandidateWalk, ResumeFalseWalk DEF Next, Step, Done

LEMMA WalkInvariant == Spec => []WInv
  <1>1. Init => WInv BY InitIInv, InitWalk DEF WInv
  <1>2. WInv /\ [Next]_vars => WInv' BY NextIInv, NextWalk DEF WInv
  <1> QED BY <1>1, <1>2, PTL DEF Spec

\* What a failing call leaves behind is what it found: the copies of all calls are
\* prefixes of the order, one artifact apart.
THEOREM TrailExact == Spec => []TrailIsExact
  <1>1. ASSUME WInv PROVE TrailIsExact
    <2>1. TypeOK /\ Distinct /\ Listed /\ Sound /\ Calls /\ Frames /\ Lengths
      BY <1>1 DEF WInv, IInv, Walk
    <2>2. stack \in Seq(Frame) /\ order \in Seq(Artifact) /\ Len(stack) \in Nat BY <2>1 DEF TypeOK
    <2>3. ASSUME NEW k \in 1 .. Len(stack)
          PROVE  Len(stack[k].snap) = k /\ stack[k].snap = SubSeq(order, 1, k)
      <3>1. Copied(k) BY <2>1 DEF Frames
      <3>2. stack[k].snap \in Seq(Artifact)
        <4>1. stack[k] \in Frame BY <2>2
        <4> QED BY <4>1 DEF Frame
      <3>3. k \in Nat /\ k <= Len(order) /\ Len(order) \in Nat BY <2>2, <3>1 DEF Copied
      <3>4. \A i \in 1 .. k : order[i] \in Artifact BY <2>2, <3>3
      <3>5. /\ SubSeq(order, 1, k) \in Seq(Artifact) /\ Len(SubSeq(order, 1, k)) = k
            /\ \A i \in 1 .. k : SubSeq(order, 1, k)[i] = order[i]
        BY <3>3, <3>4, SubSeqProperties
      <3>6. \A i \in 1 .. k : stack[k].snap[i] = SubSeq(order, 1, k)[i] BY <3>1, <3>5 DEF Copied
      <3> QED BY <3>1, <3>2, <3>5, <3>6, SeqEqual DEF Copied
    <2>4. \A k \in 1 .. Len(stack) - 1 :
             order[k + 1] = stack[k].dep /\ assigned[stack[k].dep] = stack[k].cand
      <3> SUFFICES ASSUME NEW k \in 1 .. Len(stack) - 1
                   PROVE  order[k + 1] = stack[k].dep /\ assigned[stack[k].dep] = stack[k].cand
        OBVIOUS
      <3>1. k \in 1 .. Len(stack) /\ k < Len(stack) BY <2>2
      <3>2. Holding(k) BY <2>1, <3>1 DEF Frames
      <3> QED BY <3>2 DEF Holding
    <2>5. ~found => CASE phase \in {"scan", "choose"} -> Len(order) = Len(stack)
                      [] phase = "returned"           -> Len(order) = Len(stack) + 1
                      [] OTHER                        -> order = <<>> /\ stack = <<>>
      BY <2>1 DEF Lengths, Sound, TypeOK, Phases
    <2> QED BY <2>1, <2>3, <2>4, <2>5 DEF TrailIsExact, Distinct, Listed
  <1> QED BY <1>1, WalkInvariant, PTL

\* The recorded depths are distances from the root, although they are set once, by the
\* first asker, while the selection still changes.
THEOREM DepthsAreDistances == Spec => []DepthIsDistance
  <1>1. ASSUME WInv PROVE DepthIsDistance
    <2>1. TypeOK /\ Listed /\ Lengths /\ Layers /\ order \in Seq(Artifact)
      BY <1>1 DEF WInv, IInv, Walk, TypeOK
    <2> SUFFICES ASSUME NEW a \in Selected(assigned) \ {root}
                 PROVE  LET askers == {b \in Selected(assigned) : a \in Needs(ix, assigned, b)}
                        IN  /\ \E b \in askers : depth[a] = depth[b] + 1
                            /\ \A b \in askers : depth[a] <= depth[b] + 1
      BY DEF DepthIsDistance
    <2>2. PICK j \in 1 .. Len(order) : order[j] = a BY <2>1 DEF Listed
    <2>3. order[1] = root
      <3>1. order # <<>> BY <2>1, <2>2
      <3> QED BY <2>1, <3>1 DEF Lengths, TypeOK, Phases
    <2>4. j \in 2 .. Len(order) BY <2>1, <2>2, <2>3
    <2>5. PICK i \in 1 .. Len(order) :
             order[j] \in Needs(ix, assigned, order[i]) /\ depth[order[j]] = depth[order[i]] + 1
      BY <2>1, <2>4 DEF Layers, Descends
    <2>6. order[i] \in Selected(assigned) BY <2>1 DEF Listed
    <2>7. ASSUME NEW b \in Selected(assigned), a \in Needs(ix, assigned, b)
          PROVE  depth[a] <= depth[b] + 1
      <3>1. PICK l \in 1 .. Len(order) : order[l] = b BY <2>1 DEF Listed
      <3> QED BY <2>1, <2>2, <2>7, <3>1 DEF Layers, NoDeeper
    <2> QED BY <2>2, <2>5, <2>6, <2>7
  <1> QED BY <1>1, WalkInvariant, PTL

-----------------------------------------------------------------------------
(* Completeness: what has been ruled out is part of no viable selection. *)

AgreesTo(s, k) == \A i \in 1 .. k : s[order[i]] = assigned[order[i]]

\* No viable selection that agrees with what the k-th call lists has a version of its
\* target before the candidate, or none up to the candidate.
Tried(k) == \A s \in Viable : AgreesTo(s, k) => s[stack[k].dep] >= stack[k].cand
TriedAll(k) == \A s \in Viable : AgreesTo(s, k) => s[stack[k].dep] > stack[k].cand

\* What failed calls and root candidates have ruled out.
CallsPassed ==
    ~found => \A k \in 1 .. Len(stack) :
                 /\ k < Len(stack) \/ phase = "returned" => Tried(k)
                 /\ phase = "choose" /\ k = Len(stack) => TriedAll(k)

DeadEnd ==
    ~found /\ phase = "returned" => \A s \in Viable : ~AgreesTo(s, Len(order))

RootsPassed ==
    tried # 0 => \A s \in Viable, c \in RootCandidates(ix, root, req) :
                    c < tried \/ (c = tried /\ phase \in {"roots", "failed"}) => s[root] # c

\* Every artifact has the highest version it can have after those before it.
Best ==
    \A k \in 1 .. Len(order) : k > 1 =>
        \A s \in Viable : AgreesTo(s, k - 1) => s[order[k]] >= assigned[order[k]]

\* The search runs for a root with versions and without a cycle, on one of its candidates.
Asked ==
    /\ phase \in {"roots", "scan", "choose", "returned", "succeeded"} =>
          root \in DOMAIN ix /\ Len(ix[root]) > 0 /\ ~HasCycle(UnionSucc(ix), root)
    /\ phase = "checking" => tried = 0
    /\ tried # 0 => tried \in RootCandidates(ix, root, req)
    /\ phase \in {"scan", "choose", "returned", "succeeded"} => tried # 0

Complete == CallsPassed /\ DeadEnd /\ RootsPassed /\ Best /\ Asked

CInv == WInv /\ Complete

LEMMA ViableSame == ASSUME ix' = ix PROVE Viable' = Viable
  BY DEF Viable

LEMMA AgreesSame ==
    ASSUME NEW k \in Nat, \A i \in 1 .. k : /\ order'[i] = order[i]
                                            /\ assigned'[order[i]] = assigned[order[i]]
    PROVE  \A s : AgreesTo(s, k)' <=> AgreesTo(s, k)
  BY DEF AgreesTo

LEMMA ViableFacts ==
    ASSUME IsIndex(ix), NEW s \in Viable, NEW a \in Artifact
    PROVE  /\ s[a] \in Nat
           /\ \A t \in Needs(ix, s, a) : Met(ix, s, a, t)
           /\ a \in DOMAIN ix => s[a] <= Len(ix[a])
  <1>1. s \in [Artifact -> 0 .. MaxVersions] /\ Legal(ix, s) /\ Consistent(ix, s)
    BY DEF Viable, Assignment
  <1> QED BY <1>1, CatalogueAssumption DEF Legal, Consistent

\* The target of a call is in every viable selection that agrees with what it lists, in
\* a version that Asker's constraint matches.
LEMMA BusyRules ==
    ASSUME TypeOK, NEW k \in Nat, k <= Len(order), Busy(k), NEW s \in Viable, AgreesTo(s, k)
    PROVE  /\ stack[k].dep \in DOMAIN ix
           /\ s[stack[k].dep] \in 1 .. Len(ix[stack[k].dep])
           /\ Accepts(ix, assigned, order[stack[k].at], stack[k].dep, s[stack[k].dep])
  <1> DEFINE a == order[stack[k].at]
             t == stack[k].dep
  <1>1. stack[k].at \in 1 .. k /\ t \in Needs(ix, assigned, a) BY DEF Busy
  <1>2. stack[k].at \in 1 .. Len(order) /\ order \in Seq(Artifact) /\ IsIndex(ix)
    BY <1>1 DEF TypeOK
  <1>3. a \in Artifact /\ s[a] = assigned[a] BY <1>1, <1>2 DEF AgreesTo
  <1> HIDE DEF a, t
  <1>4. t \in Needs(ix, s, a) BY <1>1, <1>3 DEF Needs
  <1>5. t \in DOMAIN ix /\ s[t] # 0 /\ Accepts(ix, s, a, t, s[t])
    BY <1>2, <1>3, <1>4, ViableFacts DEF Met
  <1>6. t \in Artifact /\ Len(ix[t]) \in Nat BY <1>2, <1>5, IndexFacts
  <1>7. s[t] \in Nat /\ s[t] <= Len(ix[t]) BY <1>2, <1>5, <1>6, ViableFacts
  <1>8. Accepts(ix, assigned, a, t, s[t]) BY <1>3, <1>5 DEF Accepts
  <1>9. s[t] \in 1 .. Len(ix[t]) BY <1>5, <1>6, <1>7
  <1> QED BY <1>5, <1>8, <1>9 DEF a, t

\* A dependency that no version of its target can meet rules out the selection.
LEMMA UnmetRules ==
    ASSUME WInv, phase = "scan", NEW i, NEW t, IsNextUnmet(Top, i, t),
           t \notin DOMAIN ix \/ assigned[t] # 0
    PROVE  \A s \in Viable : ~AgreesTo(s, Len(order))
  <1> SUFFICES ASSUME NEW s \in Viable, AgreesTo(s, Len(order)) PROVE FALSE
    OBVIOUS
  <1>1. TypeOK /\ Listed /\ Fresh /\ ~found BY NotFound DEF WInv, IInv
  <1>2. Top.snap = order /\ order \in Seq(Artifact) /\ IsIndex(ix) BY <1>1 DEF Fresh, TypeOK
  <1>3. <<i, t>> \in Unmet(Top) BY DEF IsNextUnmet
  <1> DEFINE a == order[i]
  <1>4. /\ i \in 1 .. Len(order) /\ t \in Artifact /\ t \in Needs(ix, assigned, a)
        /\ ~Met(ix, assigned, a, t)
    BY <1>2, <1>3 DEF Unmet
  <1>5. a \in Artifact /\ s[a] = assigned[a] BY <1>2, <1>4 DEF AgreesTo
  <1> HIDE DEF a
  <1>6. t \in Needs(ix, s, a) BY <1>4, <1>5 DEF Needs
  <1>7. t \in DOMAIN ix /\ s[t] # 0 /\ Accepts(ix, s, a, t, s[t])
    BY <1>2, <1>5, <1>6, ViableFacts DEF Met
  <1>8. PICK j \in 1 .. Len(order) : order[j] = t BY <1>1, <1>4, <1>7 DEF Listed, Selected
  <1>9. s[t] = assigned[t] BY <1>8 DEF AgreesTo
  <1>10. Accepts(ix, assigned, a, t, assigned[t]) BY <1>5, <1>7, <1>9 DEF Accepts
  <1> QED BY <1>4, <1>7, <1>9, <1>10 DEF Met

LEMMA TriedSame ==
    ASSUME NEW k \in Nat, Tried(k), ix' = ix,
           stack'[k].dep = stack[k].dep, stack'[k].cand = stack[k].cand,
           \A i \in 1 .. k : /\ order'[i] = order[i]
                             /\ assigned'[order[i]] = assigned[order[i]]
    PROVE  Tried(k)'
  BY ViableSame, AgreesSame DEF Tried

\* Best is kept when the order loses artifacts at its end, or none.
LEMMA BestSame ==
    ASSUME Best, ix' = ix, Len(order) \in Nat, Len(order') \in Nat, Len(order') <= Len(order),
           \A i \in 1 .. Len(order') : /\ order'[i] = order[i]
                                       /\ assigned'[order[i]] = assigned[order[i]]
    PROVE  Best'
  <1> SUFFICES ASSUME NEW k \in 1 .. Len(order'), k > 1, NEW s \in Viable', AgreesTo(s, k - 1)'
               PROVE  s[order'[k]] >= assigned'[order'[k]]
    BY DEF Best
  <1>1. s \in Viable BY ViableSame
  <1>2. k - 1 \in Nat /\ \A i \in 1 .. k - 1 : i \in 1 .. Len(order') OBVIOUS
  <1>3. AgreesTo(s, k - 1)
    BY <1>2 DEF AgreesTo
  <1> QED BY <1>1, <1>3 DEF Best

-----------------------------------------------------------------------------
(* Each step keeps what has been ruled out. *)

LEMMA InitComplete == Init => Complete
  <1> SUFFICES ASSUME Init PROVE Complete
    OBVIOUS
  <1>1. order = <<>> /\ stack = <<>> /\ phase = "checking" /\ tried = 0 BY DEF Init
  <1> QED BY <1>1 DEF Complete, CallsPassed, DeadEnd, RootsPassed, Best, Asked

LEMMA CheckComplete ==
    CInv /\ (RootMissing \/ NoVersions \/ CycleFound \/ StartSearch) => Complete'
  <1> SUFFICES ASSUME CInv, RootMissing \/ NoVersions \/ CycleFound \/ StartSearch
               PROVE  Complete'
    OBVIOUS
  <1>1. /\ UNCHANGED <<ix, root, req, tried, assigned, order, stack>>
        /\ phase = "checking" /\ phase' \in {"failed", "roots"}
        /\ phase' = "roots" =>
              root \in DOMAIN ix /\ Len(ix[root]) > 0 /\ ~HasCycle(UnionSucc(ix), root)
    BY DEF RootMissing, NoVersions, CycleFound, StartSearch, Refused, request
  <1>2. order = <<>> /\ stack = <<>> /\ tried = 0
    BY <1>1 DEF CInv, WInv, Walk, Lengths, Complete, Asked
  <1> QED BY <1>1, <1>2 DEF Complete, CallsPassed, DeadEnd, RootsPassed, Best, Asked

LEMMA TryRootComplete == CInv /\ TryRoot => Complete'
  <1> SUFFICES ASSUME CInv, TryRoot PROVE Complete'
    OBVIOUS
  <1>1. /\ UNCHANGED <<ix, root, req, found>> /\ phase = "roots" /\ phase' = "scan"
        /\ stack' = <<NewCall(order')>>
    BY DEF TryRoot, request
  <1>2. /\ TypeOK /\ Listed /\ RootsPassed /\ Asked /\ order = <<>>
        /\ root \in Artifact /\ IsIndex(ix) /\ root \in DOMAIN ix
    BY <1>1 DEF CInv, WInv, IInv, Walk, Lengths, Complete, TypeOK, Asked
  <1>3. PICK c \in Untried : (\A b \in Untried : c <= b) /\ tried' = c /\ Assign(root, c, 0)
    BY DEF TryRoot
  <1>4. assigned[root] = 0 BY <1>2 DEF Listed, Selected
  <1>5. Len(order') = 1
    <2>1. order' = Append(order, root) BY <1>2, <1>3, <1>4, AssignAppends
    <2> QED BY <1>2, <2>1
  <1>6. Best' BY <1>5 DEF Best
  <1>7. CallsPassed' /\ DeadEnd'
    <2>1. Len(stack') = 1 BY <1>1
    <2> QED BY <1>1, <2>1 DEF CallsPassed, DeadEnd
  <1>8. \A b \in RootCandidates(ix, root, req) : b \in Nat \ {0}
    BY <1>2, IndexFacts DEF RootCandidates
  <1>9. c \in RootCandidates(ix, root, req) /\ c \in Nat \ {0} /\ tried \in Nat
    BY <1>2, <1>3, <1>8, CatalogueAssumption DEF Untried, TypeOK
  <1>10. RootsPassed'
    <2> SUFFICES ASSUME NEW s \in Viable, NEW b \in RootCandidates(ix, root, req), b < c
                 PROVE  s[root] # b
      BY <1>1, <1>3, ViableSame DEF RootsPassed
    <2>1. b \in Nat \ {0} BY <1>8
    <2>2. ~(b > tried) BY <1>3, <1>9, <2>1 DEF Untried
    <2>3. tried # 0 /\ (b < tried \/ b = tried) BY <1>9, <2>1, <2>2
    <2> QED BY <1>1, <1>2, <2>3 DEF RootsPassed
  <1>11. Asked' BY <1>1, <1>2, <1>3, <1>9 DEF Asked
  <1> QED BY <1>6, <1>7, <1>10, <1>11 DEF Complete

\* Steps that leave what is selected and the request as they are.
LEMMA RootsPassedSame ==
    ASSUME CInv, UNCHANGED <<ix, root, req, tried>>,
           phase' \in {"roots", "failed"} => phase \in {"roots", "failed"}
    PROVE  RootsPassed'
  <1>1. RootsPassed BY DEF CInv, Complete
  <1> QED BY <1>1, ViableSame DEF RootsPassed

LEMMA OrderFacts ==
    ASSUME CInv
    PROVE  /\ Len(order) \in Nat /\ Len(stack) \in Nat /\ order \in Seq(Artifact)
           /\ (stack # <<>> => Len(stack) > 0)
  BY DEF CInv, WInv, IInv, TypeOK

\* A call returns: TRUE, or FALSE from a dead end.
LEMMA ReturnComplete ==
    ASSUME CInv, stack # <<>>, phase \in {"scan", "choose"},
           UNCHANGED <<ix, root, req, tried, assigned, order>>,
           NEW value \in BOOLEAN, Return(value),
           ~value => ~found /\ \A s \in Viable : ~AgreesTo(s, Len(order))
    PROVE  Complete'
  <1>1. TypeOK /\ CallsPassed /\ Best /\ Asked /\ Len(stack) \in Nat /\ Len(order) \in Nat
    BY OrderFacts DEF CInv, WInv, IInv, Complete
  <1>2. /\ phase' = "returned" /\ found' = value /\ Len(stack') = Len(stack) - 1
        /\ \A k \in 1 .. Len(stack) - 1 : stack'[k] = stack[k]
    BY <1>1, TopFacts DEF Return
  <1>3. CallsPassed'
    <2> SUFFICES ASSUME ~value, NEW k \in 1 .. Len(stack) - 1 PROVE Tried(k)'
      BY <1>2 DEF CallsPassed
    <2>1. k \in 1 .. Len(stack) /\ k < Len(stack) /\ k \in Nat BY <1>1
    <2>2. Tried(k) BY <1>1, <2>1 DEF CallsPassed
    <2> QED BY <1>2, <2>1, <2>2, TriedSame
  <1>4. DeadEnd'
    <2> SUFFICES ASSUME ~value, NEW s \in Viable PROVE ~AgreesTo(s, Len(order))'
      BY <1>2, ViableSame DEF DeadEnd
    <2> QED BY DEF AgreesTo
  <1>5. Best' BY <1>1, BestSame
  <1>6. RootsPassed' BY <1>2, RootsPassedSame
  <1>7. Asked' BY <1>1, <1>2 DEF Asked
  <1> QED BY <1>3, <1>4, <1>5, <1>6, <1>7 DEF Complete

\* The innermost call moves on to a candidate before which nothing is left.
LEMMA MovedComplete ==
    ASSUME CInv, stack # <<>>, phase \in {"scan", "choose"}, phase' = "choose",
           UNCHANGED <<ix, root, req, tried, assigned, order, found>>,
           NEW f \in Frame, Moved(f),
           \A s \in Viable : AgreesTo(s, Len(stack)) => s[f.dep] > f.cand
    PROVE  Complete'
  <1>1. TypeOK /\ CallsPassed /\ Best /\ Asked /\ Len(stack) \in Nat \ {0} /\ Len(order) \in Nat
        /\ stack \in Seq(Frame)
    BY OrderFacts DEF CInv, WInv, IInv, Complete, TypeOK
  <1>2. /\ Len(stack') = Len(stack) /\ stack'[Len(stack)] = f
        /\ \A k \in 1 .. Len(stack) - 1 : stack'[k] = stack[k]
    BY <1>1, ReplaceLast DEF Moved
  <1>3. CallsPassed'
    <2> SUFFICES ASSUME ~found, NEW k \in 1 .. Len(stack)
                 PROVE  /\ k < Len(stack) => Tried(k)'
                        /\ k = Len(stack) => TriedAll(k)'
      BY <1>2 DEF CallsPassed
    <2>1. ASSUME k < Len(stack) PROVE Tried(k)'
      <3>1. k \in 1 .. Len(stack) - 1 /\ k \in Nat /\ Tried(k) BY <1>1, <2>1 DEF CallsPassed
      <3> QED BY <1>2, <3>1, TriedSame
    <2>2. ASSUME k = Len(stack) PROVE TriedAll(k)'
      <3> SUFFICES ASSUME NEW s \in Viable, AgreesTo(s, k)'
                   PROVE  s[stack'[k].dep] > stack'[k].cand
        BY ViableSame DEF TriedAll
      <3>1. AgreesTo(s, k) BY DEF AgreesTo
      <3> QED BY <1>2, <2>2, <3>1
    <2> QED BY <2>1, <2>2
  <1>4. DeadEnd' BY DEF DeadEnd
  <1>5. Best' BY <1>1, BestSame
  <1>6. RootsPassed' BY RootsPassedSame
  <1>7. Asked' BY <1>1 DEF Asked
  <1> QED BY <1>3, <1>4, <1>5, <1>6, <1>7 DEF Complete

LEMMA ReturnsComplete ==
    CInv /\ (ScanDone \/ TargetMissing \/ Conflict \/ Exhausted) => Complete'
  <1> SUFFICES ASSUME CInv, ScanDone \/ TargetMissing \/ Conflict \/ Exhausted PROVE Complete'
    OBVIOUS
  <1>1. WInv /\ IInv /\ TypeOK /\ Calls /\ CallsPassed /\ Walk
    BY DEF CInv, WInv, IInv, Complete
  <1>2. /\ UNCHANGED <<ix, root, req, tried, assigned, order>>
        /\ phase \in {"scan", "choose"}
    BY DEF ScanDone, TargetMissing, Conflict, Exhausted, request
  <1>3. stack # <<>> BY <1>1, <1>2 DEF Calls
  <1>4. CASE ScanDone BY <1>2, <1>3, <1>4, ReturnComplete DEF ScanDone
  <1>5. CASE TargetMissing
    <2>1. PICK i \in 1 .. Len(Top.snap), t \in Artifact :
             IsNextUnmet(Top, i, t) /\ t \notin DOMAIN ix
      BY <1>5 DEF TargetMissing
    <2>2. ~found /\ \A s \in Viable : ~AgreesTo(s, Len(order))
      BY <1>1, <1>5, <2>1, NotFound, UnmetRules DEF TargetMissing
    <2> QED BY <1>2, <1>3, <1>5, <2>2, ReturnComplete DEF TargetMissing
  <1>6. CASE Conflict
    <2>1. PICK i \in 1 .. Len(Top.snap), t \in Artifact :
             IsNextUnmet(Top, i, t) /\ assigned[t] # 0
      BY <1>6 DEF Conflict
    <2>2. ~found /\ \A s \in Viable : ~AgreesTo(s, Len(order))
      BY <1>1, <1>6, <2>1, NotFound, UnmetRules DEF Conflict
    <2> QED BY <1>2, <1>3, <1>6, <2>2, ReturnComplete DEF Conflict
  <1>7. CASE Exhausted
    <2>1. /\ phase = "choose" /\ ~found /\ Len(stack) \in Nat \ {0} /\ stack[Len(stack)] = Top
          /\ Top.cand = Len(ix[Top.dep]) /\ Return(FALSE)
      BY <1>1, <1>7, ChooseFacts DEF Exhausted, Candidates
    <2>2. PICK n \in Nat : n = Len(stack) BY <2>1
    <2>3. Len(order) = n /\ Busy(n) BY <1>1, <2>1, <2>2 DEF Walk, Lengths, Frames
    <2>4. TriedAll(n) BY <1>1, <2>1, <2>2 DEF CallsPassed
    <2>5. ASSUME NEW s \in Viable, AgreesTo(s, Len(order)) PROVE FALSE
      <3>1. s[Top.dep] \in 1 .. Len(ix[Top.dep]) BY <1>1, <2>1, <2>2, <2>3, <2>5, BusyRules
      <3>2. s[Top.dep] > Top.cand BY <2>1, <2>2, <2>3, <2>4, <2>5 DEF TriedAll
      <3> QED BY <2>1, <3>1, <3>2
    <2> QED BY <1>2, <1>3, <2>1, <2>5, ReturnComplete
  <1> QED BY <1>4, <1>5, <1>6, <1>7

\* In the loop over the versions of a target.
LEMMA ChoosingFacts ==
    ASSUME CInv, phase = "choose"
    PROVE  /\ ~found /\ stack # <<>> /\ Len(stack) \in Nat \ {0} /\ Len(order) = Len(stack)
           /\ Top \in Frame /\ stack[Len(stack)] = Top
           /\ Busy(Len(stack)) /\ TriedAll(Len(stack)) /\ Copied(Len(stack))
           /\ Top.cand \in 0 .. Candidates /\ Candidates \in 0 .. MaxVersions
           /\ Asker = order[Top.at]
           /\ \A s \in Viable : AgreesTo(s, Len(stack)) =>
                 /\ s[Top.dep] \in 1 .. Len(ix[Top.dep])
                 /\ s[Top.dep] > Top.cand
                 /\ Matches(Top.dep, s[Top.dep])
  <1>1. TypeOK /\ WInv /\ IInv /\ Walk /\ CallsPassed BY DEF CInv, WInv, IInv, Complete
  <1>2. /\ ~found /\ stack # <<>> /\ Len(stack) \in Nat \ {0} /\ Top \in Frame
        /\ stack[Len(stack)] = Top
        /\ Top.cand \in 0 .. Candidates /\ Candidates \in 0 .. MaxVersions
    BY <1>1, ChooseFacts
  <1>3. Len(order) = Len(stack) BY <1>1, <1>2 DEF Walk, Lengths
  <1>4. Busy(Len(stack)) /\ Copied(Len(stack)) BY <1>1, <1>2 DEF Walk, Frames
  <1>5. TriedAll(Len(stack)) BY <1>1, <1>2 DEF CallsPassed
  <1>6. Asker = order[Top.at] BY <1>2, <1>4 DEF Asker, Copied, Busy
  <1>7. ASSUME NEW s \in Viable, AgreesTo(s, Len(stack))
        PROVE  /\ s[Top.dep] \in 1 .. Len(ix[Top.dep])
               /\ s[Top.dep] > Top.cand
               /\ Matches(Top.dep, s[Top.dep])
    <2>1. PICK n \in Nat : n = Len(stack) BY <1>2
    <2>2. /\ s[Top.dep] \in 1 .. Len(ix[Top.dep])
          /\ Accepts(ix, assigned, order[Top.at], Top.dep, s[Top.dep])
      BY <1>1, <1>2, <1>3, <1>4, <1>7, <2>1, BusyRules
    <2>3. s[Top.dep] > Top.cand BY <1>2, <1>5, <1>7 DEF TriedAll
    <2> QED BY <1>6, <2>2, <2>3 DEF Matches
  <1> QED BY <1>2, <1>3, <1>4, <1>5, <1>6, <1>7

LEMMA DemandComplete == CInv /\ Demand => Complete'
  <1> SUFFICES ASSUME CInv, Demand PROVE Complete'
    OBVIOUS
  <1>1. /\ UNCHANGED <<ix, root, req, tried, assigned, order, depth, found>>
        /\ phase = "scan" /\ phase' = "choose"
    BY DEF Demand, request
  <1>2. IInv /\ WInv /\ TypeOK /\ Calls /\ Walk /\ Fresh BY DEF CInv, WInv, IInv
  <1>3. PICK i \in 1 .. Len(Top.snap), t \in Artifact :
           /\ IsNextUnmet(Top, i, t)
           /\ Moved(Call(Top.snap, i, t, 0, FALSE))
    BY DEF Demand
  <1>4. ~found /\ stack # <<>> BY <1>1, <1>2, <1>3, NotFound
  <1> DEFINE f == Call(Top.snap, i, t, 0, FALSE)
  <1>5. /\ Top.snap = order /\ Len(order) = Len(stack) /\ order \in Seq(Artifact)
        /\ Len(stack) \in Nat \ {0}
    BY <1>1, <1>2, <1>4, TopFacts DEF Fresh, Walk, Lengths, TypeOK
  <1>6. f \in Frame /\ f.dep = t /\ f.cand = 0
    BY <1>2, <1>4, <1>5, TopFacts, CatalogueAssumption DEF Call, Frame
  <1>7. i \in 1 .. Len(order) /\ t \in Needs(ix, assigned, order[i])
    BY <1>3, <1>5 DEF IsNextUnmet, Unmet
  <1> HIDE DEF f
  <1>8. ASSUME NEW s \in Viable, AgreesTo(s, Len(stack)) PROVE s[f.dep] > f.cand
    <2>1. order[i] \in Artifact /\ s[order[i]] = assigned[order[i]]
      BY <1>5, <1>7, <1>8 DEF AgreesTo
    <2>2. t \in Needs(ix, s, order[i]) BY <1>7, <2>1 DEF Needs
    <2>3. s[t] # 0 BY <1>2, <2>1, <2>2, ViableFacts DEF Met, TypeOK
    <2>4. s[t] \in Nat BY <1>2, ViableFacts DEF TypeOK
    <2> QED BY <1>6, <2>3, <2>4
  <1> QED BY <1>1, <1>3, <1>4, <1>6, <1>8, MovedComplete DEF f

LEMMA SkipCandidateComplete == CInv /\ SkipCandidate => Complete'
  <1> SUFFICES ASSUME CInv, SkipCandidate PROVE Complete'
    OBVIOUS
  <1> DEFINE f == [Top EXCEPT !.cand = @ + 1]
  <1>1. /\ UNCHANGED <<ix, root, req, tried, assigned, order, depth, found>>
        /\ phase = "choose" /\ phase' = "choose" /\ Top.cand < Candidates
        /\ ~Matches(Top.dep, Top.cand + 1) /\ Moved(f)
    BY DEF SkipCandidate, request
  <1>2. /\ stack # <<>> /\ Len(stack) \in Nat \ {0} /\ Top \in Frame
        /\ Candidates \in 0 .. MaxVersions /\ Top.cand \in 0 .. Candidates
    BY <1>1, ChoosingFacts
  <1>3. Top.cand + 1 \in 0 .. MaxVersions BY <1>1, <1>2, CatalogueAssumption
  <1>4. f \in Frame /\ f.dep = Top.dep /\ f.cand = Top.cand + 1 BY <1>2, <1>3 DEF Frame
  <1> HIDE DEF f
  <1>5. ASSUME NEW s \in Viable, AgreesTo(s, Len(stack)) PROVE s[f.dep] > f.cand
    <2>1. /\ s[Top.dep] \in 1 .. Candidates /\ s[Top.dep] > Top.cand
          /\ s[Top.dep] # Top.cand + 1
      BY <1>1, <1>5, ChoosingFacts DEF Candidates
    <2> QED BY <1>2, <1>4, <2>1
  <1> QED BY <1>1, <1>2, <1>4, <1>5, MovedComplete

LEMMA TakeCandidateComplete == CInv /\ TakeCandidate => Complete'
  <1> SUFFICES ASSUME CInv, TakeCandidate PROVE Complete'
    OBVIOUS
  <1> DEFINE below == [stack EXCEPT ![Len(stack)] = Took]
             a == Top.dep
             v == Top.cand + 1
  <1>1. /\ UNCHANGED <<ix, root, req, tried, found>>
        /\ phase = "choose" /\ phase' = "scan" /\ Top.cand < Candidates
        /\ Assign(a, v, depth[Asker] + 1)
        /\ stack' = Append(below, NewCall(order'))
    BY DEF TakeCandidate, request
  <1>2. /\ WInv /\ IInv /\ TypeOK /\ Listed /\ CallsPassed /\ RootsPassed /\ Best /\ Asked
        /\ order \in Seq(Artifact)
    BY DEF CInv, WInv, IInv, Complete, TypeOK
  <1>3. PICK n \in Nat \ {0} : n = Len(stack) BY <1>1, ChoosingFacts
  <1>4. /\ ~found /\ stack # <<>> /\ Len(order) = n /\ Top \in Frame /\ stack[n] = Top
        /\ Busy(n) /\ TriedAll(n) /\ Top.cand \in 0 .. Candidates /\ Candidates \in 0 .. MaxVersions
    BY <1>1, <1>3, ChoosingFacts
  <1>5. a \in Artifact /\ \A i \in 1 .. n : order[i] # a
    BY <1>1, <1>2, <1>4, ChooseFacts DEF Busy
  <1>6. assigned[a] = 0 BY <1>2, <1>4, <1>5 DEF Listed, Selected
  <1>7. /\ Len(order') = n + 1 /\ order'[n + 1] = a /\ assigned'[a] = v
        /\ order' = Append(order, a)
        /\ \A i \in 1 .. n : order'[i] = order[i] /\ assigned'[order[i]] = assigned[order[i]]
    BY <1>1, <1>2, <1>4, <1>5, <1>6, AssignAppends
  <1>8. Took \in Frame /\ Took.dep = a /\ Took.cand = v
    <2>1. Top.snap \in Seq(Artifact) /\ Top.at \in Nat /\ Top.dep \in Artifact
      BY <1>4, <1>5 DEF Frame
    <2>2. v \in 0 .. MaxVersions BY <1>1, <1>4, CatalogueAssumption
    <2> QED BY <2>1, <2>2 DEF Took, Call, Frame
  <1>9. NewCall(order') \in Frame
    <2>1. order' \in Seq(Artifact) BY <1>2, <1>5, <1>7, AppendProperties
    <2> QED BY <2>1, CatalogueAssumption DEF NewCall, Call, Frame
  <1>10. /\ below \in Seq(Frame) /\ Len(below) = n /\ below[n] = Took
         /\ \A k \in 1 .. n - 1 : below[k] = stack[k]
    BY <1>2, <1>3, <1>4, <1>8, ReplaceLast DEF TypeOK
  <1> HIDE DEF below
  <1>11. /\ Len(stack') = n + 1
         /\ \A k \in 1 .. n : stack'[k] = below[k]
    BY <1>1, <1>3, <1>9, <1>10, AppendProperties
  <1>12. \A s \in Viable : AgreesTo(s, n) => s[a] >= v
    <2> SUFFICES ASSUME NEW s \in Viable, AgreesTo(s, n) PROVE s[a] >= v
      OBVIOUS
    <2>1. s[a] \in 1 .. Len(ix[a]) /\ s[a] > Top.cand BY <1>1, <1>3, ChoosingFacts
    <2>2. s[a] \in Int /\ Top.cand \in Int BY <1>4, <2>1
    <2> QED BY <2>1, <2>2
  <1>13. ASSUME NEW k \in 1 .. n PROVE Tried(k)'
    <2>1. k \in Nat /\ \A i \in 1 .. k : i \in 1 .. n BY <1>3
    <2>2. CASE k = n
      <3> SUFFICES ASSUME NEW s \in Viable, AgreesTo(s, k)'
                   PROVE  s[stack'[k].dep] >= stack'[k].cand
        BY <1>1, ViableSame DEF Tried
      <3>1. AgreesTo(s, n) BY <1>7, <2>2, AgreesSame
      <3> QED BY <1>8, <1>10, <1>11, <1>12, <2>2, <3>1
    <2>3. CASE k < n
      <3>1. stack'[k] = stack[k] BY <1>3, <1>10, <1>11, <2>3
      <3>2. Tried(k) BY <1>2, <1>3, <1>4, <2>3 DEF CallsPassed
      <3> QED BY <1>1, <1>7, <2>1, <3>1, <3>2, TriedSame
    <2> QED BY <1>3, <2>2, <2>3
  <1>14. CallsPassed'
    <2> SUFFICES ASSUME NEW k \in 1 .. n + 1 PROVE k < n + 1 => Tried(k)'
      BY <1>1, <1>11 DEF CallsPassed
    <2> QED BY <1>3, <1>13
  <1>15. DeadEnd' BY <1>1 DEF DeadEnd
  <1>16. RootsPassed' BY <1>1, RootsPassedSame
  <1>17. Best'
    <2> SUFFICES ASSUME NEW k \in 1 .. n + 1, k > 1, NEW s \in Viable, AgreesTo(s, k - 1)'
                 PROVE  s[order'[k]] >= assigned'[order'[k]]
      BY <1>1, <1>7, ViableSame DEF Best
    <2>1. k - 1 \in Nat /\ \A i \in 1 .. k - 1 : i \in 1 .. n BY <1>3
    <2>2. AgreesTo(s, k - 1) BY <1>7, <2>1 DEF AgreesTo
    <2>3. CASE k = n + 1
      <3>1. AgreesTo(s, n) BY <1>3, <2>2, <2>3
      <3> QED BY <1>7, <1>12, <2>3, <3>1
    <2>4. CASE k \in 1 .. n BY <1>2, <1>4, <1>7, <2>2, <2>4 DEF Best
    <2> QED BY <1>3, <2>3, <2>4
  <1>18. Asked' BY <1>1, <1>2 DEF Asked
  <1> QED BY <1>14, <1>15, <1>16, <1>17, <1>18 DEF Complete

LEMMA ResumeFalseComplete == CInv /\ ResumeFalse => Complete'
  <1> SUFFICES ASSUME CInv, ResumeFalse PROVE Complete'
    OBVIOUS
  <1>1. /\ UNCHANGED <<ix, root, req, tried, stack, found>>
        /\ phase = "returned" /\ phase' = "choose" /\ ~found /\ stack # <<>>
        /\ Unassign(Top.dep)
    BY DEF ResumeFalse, request
  <1>2. /\ TypeOK /\ Distinct /\ Walk /\ CallsPassed /\ DeadEnd /\ Best /\ Asked
    BY DEF CInv, WInv, IInv, Complete
  <1>3. PICK n \in Nat \ {0} : n = Len(stack) BY <1>1, <1>2, TopFacts
  <1>4. Len(order) = n + 1 /\ order # <<>> BY <1>1, <1>2, <1>3 DEF Walk, Lengths
  <1>5. Holding(n) /\ Busy(n) /\ Top = stack[n] BY <1>1, <1>2, <1>3 DEF Walk, Frames, Top
  <1>6. order[n + 1] = Top.dep /\ assigned[Top.dep] = Top.cand BY <1>5 DEF Holding
  <1>7. /\ Len(order') = n
        /\ \A i \in 1 .. n : order'[i] = order[i] /\ assigned'[order[i]] = assigned[order[i]]
    BY <1>1, <1>2, <1>3, <1>4, <1>6, UnassignDrops
  <1>8. ASSUME NEW s \in Viable, AgreesTo(s, n) PROVE s[Top.dep] > Top.cand
    <2>1. s[Top.dep] >= Top.cand BY <1>1, <1>2, <1>3, <1>5, <1>8 DEF CallsPassed, Tried
    <2>2. s[Top.dep] # Top.cand
      <3> SUFFICES ASSUME s[Top.dep] = Top.cand PROVE FALSE
        OBVIOUS
      <3>1. \A i \in 1 .. n + 1 : i \in 1 .. n \/ i = n + 1 BY <1>3
      <3>2. AgreesTo(s, n + 1) BY <1>6, <1>8, <3>1 DEF AgreesTo
      <3> QED BY <1>1, <1>2, <1>4, <3>2 DEF DeadEnd
    <2>3. s[Top.dep] \in Nat
      <3>1. s[Top.dep] \in 1 .. Len(ix[Top.dep])
        BY <1>2, <1>3, <1>4, <1>5, <1>8, BusyRules
      <3> QED BY <3>1
    <2>4. Top.cand \in Nat
      <3>1. Top.cand \in 0 .. MaxVersions BY <1>1, <1>2, TopFacts
      <3> QED BY <3>1
    <2> QED BY <2>1, <2>2, <2>3, <2>4
  <1>9. CallsPassed'
    <2> SUFFICES ASSUME NEW k \in 1 .. n
                 PROVE  /\ k < n => Tried(k)'
                        /\ k = n => TriedAll(k)'
      BY <1>1, <1>3 DEF CallsPassed
    <2>1. k \in Nat /\ \A i \in 1 .. k : i \in 1 .. n BY <1>3
    <2>2. ASSUME k < n PROVE Tried(k)'
      <3>1. Tried(k) BY <1>1, <1>2, <1>3, <2>2 DEF CallsPassed
      <3> QED BY <1>1, <1>7, <2>1, <3>1, TriedSame
    <2>3. ASSUME k = n PROVE TriedAll(k)'
      <3> SUFFICES ASSUME NEW s \in Viable, AgreesTo(s, k)'
                   PROVE  s[stack'[k].dep] > stack'[k].cand
        BY <1>1, ViableSame DEF TriedAll
      <3>1. AgreesTo(s, n) BY <1>7, <2>3, AgreesSame
      <3> QED BY <1>1, <1>5, <1>8, <2>3, <3>1
    <2> QED BY <2>2, <2>3
  <1>10. DeadEnd' BY <1>1 DEF DeadEnd
  <1>11. RootsPassed' BY <1>1, RootsPassedSame
  <1>12. Best' BY <1>1, <1>2, <1>3, <1>4, <1>7, BestSame
  <1>13. Asked' BY <1>1, <1>2 DEF Asked
  <1> QED BY <1>9, <1>10, <1>11, <1>12, <1>13 DEF Complete

LEMMA RootFailsComplete == CInv /\ RootFails => Complete'
  <1> SUFFICES ASSUME CInv, RootFails PROVE Complete'
    OBVIOUS
  <1>1. /\ UNCHANGED <<ix, root, req, tried, stack, found>>
        /\ phase = "returned" /\ phase' = "roots" /\ ~found /\ stack = <<>> /\ Unassign(root)
    BY DEF RootFails, request
  <1>2. /\ TypeOK /\ Distinct /\ Walk /\ DeadEnd /\ RootsPassed /\ Asked
    BY DEF CInv, WInv, IInv, Complete
  <1>3. Len(order) = 1 /\ order # <<>> /\ order[1] = root /\ assigned[root] = tried
    BY <1>1, <1>2 DEF Walk, Lengths
  <1>4. Len(order') = 0 BY <1>1, <1>2, <1>3, UnassignDrops
  <1>5. Best' BY <1>4 DEF Best
  <1>6. CallsPassed' /\ DeadEnd' BY <1>1 DEF CallsPassed, DeadEnd
  <1>7. RootsPassed'
    <2> SUFFICES ASSUME tried # 0, NEW s \in Viable, NEW c \in RootCandidates(ix, root, req),
                        c < tried \/ c = tried
                 PROVE  s[root] # c
      BY <1>1, ViableSame DEF RootsPassed
    <2>1. CASE c < tried BY <1>2, <2>1 DEF RootsPassed
    <2>2. CASE c = tried
      <3>1. ~AgreesTo(s, 1) BY <1>1, <1>2, <1>3 DEF DeadEnd
      <3> QED BY <1>3, <2>2, <3>1 DEF AgreesTo
    <2> QED BY <2>1, <2>2
  <1>8. Asked' BY <1>1, <1>2 DEF Asked
  <1> QED BY <1>5, <1>6, <1>7, <1>8 DEF Complete

\* Steps after which nothing new is ruled out.
LEMMA QuietComplete ==
    CInv /\ (RootSucceeds \/ GiveUp \/ ResumeTrue \/ UNCHANGED vars) => Complete'
  <1> SUFFICES ASSUME CInv, RootSucceeds \/ GiveUp \/ ResumeTrue \/ UNCHANGED vars
               PROVE  Complete'
    OBVIOUS
  <1>1. CallsPassed /\ DeadEnd /\ Best /\ Asked /\ Lengths /\ Len(order) \in Nat /\ Len(stack) \in Nat
    BY OrderFacts DEF CInv, WInv, Walk, Complete
  <1>2. /\ UNCHANGED <<ix, root, req, tried, assigned, order, stack, found>>
        /\ \/ phase = "returned" /\ found /\ phase' \in {"succeeded", "scan"}
           \/ phase = "roots" /\ phase' = "failed"
           \/ phase' = phase
    BY DEF RootSucceeds, GiveUp, ResumeTrue, request, vars
  <1>3. CallsPassed'
    <2>1. CASE found BY <1>2, <2>1 DEF CallsPassed
    <2>2. CASE phase = "roots"
      <3>1. stack = <<>> BY <1>1, <2>2 DEF Lengths
      <3> QED BY <1>2, <3>1 DEF CallsPassed
    <2>3. CASE phase' = phase
      <3> SUFFICES ASSUME ~found, NEW k \in 1 .. Len(stack)
                   PROVE  /\ k < Len(stack) \/ phase = "returned" => Tried(k)'
                          /\ phase = "choose" /\ k = Len(stack) => TriedAll(k)'
        BY <1>2, <2>3 DEF CallsPassed
      <3>1. \A s : AgreesTo(s, k)' <=> AgreesTo(s, k) BY <1>2 DEF AgreesTo
      <3>2. Tried(k)' <=> Tried(k) BY <1>2, <3>1, ViableSame DEF Tried
      <3>3. TriedAll(k)' <=> TriedAll(k) BY <1>2, <3>1, ViableSame DEF TriedAll
      <3> QED BY <1>1, <3>2, <3>3 DEF CallsPassed
    <2> QED BY <1>2, <2>1, <2>2, <2>3
  <1>4. DeadEnd'
    <2>1. \A s : AgreesTo(s, Len(order))' <=> AgreesTo(s, Len(order)) BY <1>2 DEF AgreesTo
    <2> QED BY <1>1, <1>2, <2>1, ViableSame DEF DeadEnd
  <1>5. Best' BY <1>1, <1>2, BestSame
  <1>6. RootsPassed' BY <1>2, RootsPassedSame
  <1>7. Asked' BY <1>1, <1>2 DEF Asked
  <1> QED BY <1>3, <1>4, <1>5, <1>6, <1>7 DEF Complete

LEMMA NextCInv == CInv /\ [Next]_vars => CInv'
  <1> SUFFICES ASSUME CInv, [Next]_vars PROVE Complete'
    BY NextIInv, NextWalk DEF CInv, WInv
  <1> QED BY CheckComplete, TryRootComplete, ReturnsComplete, DemandComplete,
             SkipCandidateComplete, TakeCandidateComplete, ResumeFalseComplete,
             RootFailsComplete, QuietComplete
          DEF Next, Step, Done

LEMMA CompleteInvariant == Spec => []CInv
  <1>1. Init => CInv BY InitIInv, InitWalk, InitComplete DEF CInv, WInv
  <1> QED BY <1>1, NextCInv, PTL DEF Spec

\* Completeness: the search gives up nothing that could still succeed.
THEOREM NothingSkipped == Spec => []NothingViableIsSkipped
  <1>1. ASSUME CInv PROVE NothingViableIsSkipped
    <2>1. /\ TypeOK /\ Listed /\ Fresh /\ CallsPassed /\ DeadEnd /\ RootsPassed /\ Asked
          /\ Lengths /\ Frames /\ Len(stack) \in Nat /\ Len(order) \in Nat
      BY <1>1, OrderFacts DEF CInv, WInv, IInv, Walk, Complete
    <2> SUFFICES ASSUME ~found, phase \in {"roots", "scan", "choose", "returned"},
                        NEW s \in Viable
                 PROVE  /\ \A k \in 1 .. Len(stack) :
                              stack[k].dep # 0 /\ Agrees(s, {order[i] : i \in 1 .. k}) =>
                                 IF k = Len(stack) /\ phase = "choose"
                                 THEN s[stack[k].dep] > stack[k].cand
                                 ELSE s[stack[k].dep] >= stack[k].cand
                        /\ phase = "returned" => ~Agrees(s, Selected(assigned))
                        /\ \A c \in RootCandidates(ix, root, req) :
                              c < tried \/ (c = tried /\ phase = "roots") => s[root] # c
      BY DEF NothingViableIsSkipped
    <2>2. \A k \in Nat : Agrees(s, {order[i] : i \in 1 .. k}) => AgreesTo(s, k)
      BY DEF Agrees, AgreesTo
    <2>3. ASSUME NEW k \in 1 .. Len(stack), stack[k].dep # 0,
                 Agrees(s, {order[i] : i \in 1 .. k})
          PROVE  IF k = Len(stack) /\ phase = "choose"
                 THEN s[stack[k].dep] > stack[k].cand
                 ELSE s[stack[k].dep] >= stack[k].cand
      <3>1. AgreesTo(s, k) BY <2>2, <2>3
      <3>2. ~(k = Len(stack) /\ phase = "scan") BY <2>3 , <2>1 DEF Fresh, Top
      <3>3. phase # "roots" BY <2>1 DEF Lengths
      <3>4. CASE k = Len(stack) /\ phase = "choose"
        BY <2>1, <3>1, <3>4 DEF CallsPassed, TriedAll
      <3>5. CASE k < Len(stack) \/ phase = "returned"
        BY <2>1, <3>1, <3>5 DEF CallsPassed, Tried
      <3> QED BY <2>1, <3>2, <3>3, <3>4, <3>5
    <2>4. phase = "returned" => ~Agrees(s, Selected(assigned))
      BY <2>1, <2>2 DEF DeadEnd, Listed
    <2>5. ASSUME NEW c \in RootCandidates(ix, root, req),
                 c < tried \/ (c = tried /\ phase = "roots")
          PROVE  s[root] # c
      <3>1. root \in DOMAIN ix /\ IsIndex(ix) BY <2>1 DEF Asked, TypeOK
      <3>2. c \in Nat \ {0} BY <3>1, IndexFacts DEF RootCandidates
      <3>3. tried # 0
        <4>1. tried \in Nat BY <2>1, CatalogueAssumption DEF TypeOK
        <4> QED BY <2>5, <3>2, <4>1
      <3> QED BY <2>1, <2>5, <3>3 DEF RootsPassed
    <2> QED BY <2>3, <2>4, <2>5
  <1> QED BY <1>1, CompleteInvariant, PTL

\* No artifact of an answer could have had a higher version, given those before it.
THEOREM HighestWins == Spec => []HighestAvailable
  <1>1. ASSUME CInv PROVE HighestAvailable
    <2> SUFFICES ASSUME NEW k \in 2 .. Len(order), NEW s \in Viable,
                        Agrees(s, {order[i] : i \in 1 .. k - 1})
                 PROVE  s[order[k]] >= assigned[order[k]]
      BY DEF HighestAvailable
    <2>1. Best /\ Len(order) \in Nat BY <1>1, OrderFacts DEF CInv, Complete
    <2>2. AgreesTo(s, k - 1) BY DEF Agrees, AgreesTo
    <2>3. k \in 1 .. Len(order) /\ k > 1 BY <2>1
    <2> QED BY <2>1, <2>2, <2>3 DEF Best
  <1> QED BY <1>1, CompleteInvariant, PTL

-----------------------------------------------------------------------------
(* Diagnoses. *)

General == {"all candidate versions lead to downstream conflict",
            "no version of root satisfies all constraints"}

\* Whatever has failed has said why, and not in general terms.
Reasons ==
    /\ phase = "returned" /\ ~found => fail.type # ""
    /\ phase = "choose" /\ Top.hit => fail.type # ""
    /\ phase = "roots" /\ tried # 0 => fail.type # ""
    /\ fail.message \notin General
    /\ phase # "failed" => fail.type # "CYCLE"

Violated(remarks) == \E r \in remarks : r.artifact = fail.about /\ r.verdict = "violates"

AllTold(remarks) ==
    \A i \in 1 .. Len(ix[fail.about]) : \E r \in remarks :
        r.artifact = fail.about /\ r.version = i /\ r.verdict # "accepted"

\* As long as the search has not succeeded no candidate is marked accepted.
Marks == ~found => \A r \in trace : r.verdict # "accepted"

\* The trace backs what the diagnosis says, and the diagnosis lists it in the end.
Listing ==
    /\ fail.candidates \subseteq trace
    /\ fail.message = "selected version violates constraint" =>
          /\ Violated(trace)
          /\ \/ fail.candidates = {} /\ phase # "failed"
             \/ Violated(fail.candidates)
    /\ fail.message = "no version satisfies constraint" => AllTold(fail.candidates)

\* Without a diagnosis all versions up to the candidate have been recorded as mismatches.
Told ==
    phase = "choose" /\ fail.type = "" =>
        \A i \in 1 .. Top.cand : Candidate(Top.dep, i, "mismatch") \in trace

Backed == Marks /\ Listing /\ Told

DInv == CInv /\ Reasons /\ Backed

LEMMA UpToNext == \A n \in Nat : \A i \in 1 .. n + 1 : i = n + 1 \/ i \in 1 .. n
  OBVIOUS

LEMMA NatLeast ==
    ASSUME NEW S \in SUBSET Nat, S # {}
    PROVE  \E m \in S : \A k \in S : m <= k
  <1>1. IsWellFoundedOn(OpToRel(<, Nat), Nat)
    BY NatLessThanWellFounded
  <1>2. PICK m \in S : \A y \in S : ~(<<y, m>> \in OpToRel(<, Nat))
    BY <1>1, WFMin
  <1>3. \A y \in S : ~(y < m)
    BY <1>2 DEF OpToRel
  <1> QED
    BY <1>3

\* A root with versions has a candidate.
LEMMA SomeCandidate ==
    ASSUME Len(ix[root]) \in Nat \ {0}
    PROVE  RootCandidates(ix, root, req) # {}
  <1> DEFINE same == {i \in 1 .. Len(ix[root]) : ix[root][i].rank = req}
  <1>1. CASE same = {}
    <2>1. 1 \in 1 .. Len(ix[root]) OBVIOUS
    <2> QED BY <1>1, <2>1 DEF RootCandidates
  <1>2. CASE same # {}
    <2>1. same \in SUBSET Nat OBVIOUS
    <2>2. PICK m \in same : \A k \in same : m <= k BY <1>2, <2>1, NatLeast
    <2> QED BY <1>2, <2>2 DEF RootCandidates
  <1> QED BY <1>1, <1>2

\* The search gives up only after a candidate has failed.
LEMMA GiveUpHasReason ==
    ASSUME CInv, Reasons, phase = "roots", Untried = {}
    PROVE  tried # 0 /\ fail.type # ""
  <1>1. root \in DOMAIN ix /\ Len(ix[root]) > 0 /\ IsIndex(ix)
    BY DEF CInv, WInv, IInv, TypeOK, Complete, Asked
  <1>2. Len(ix[root]) \in Nat \ {0} BY <1>1, IndexFacts
  <1>3. PICK c \in RootCandidates(ix, root, req) : TRUE BY <1>2, SomeCandidate
  <1>4. c \in Nat \ {0} BY <1>1, IndexFacts DEF RootCandidates
  <1>5. ~(c > tried) BY <1>3 DEF Untried
  <1>6. tried # 0 BY <1>4, <1>5
  <1> QED BY <1>6 DEF Reasons

LEMMA InitReasons == Init => Reasons /\ Backed
  <1> SUFFICES ASSUME Init PROVE Reasons /\ Backed
    OBVIOUS
  <1>1. phase = "checking" /\ trace = {} /\ fail = NoDiagnostic BY DEF Init
  <1>2. fail.type = "" /\ fail.message = "" /\ fail.candidates = {}
    BY <1>1 DEF NoDiagnostic, Diagnostic
  <1> QED BY <1>1, <1>2 DEF Reasons, Backed, Marks, Listing, Told, General

\* What a set of remarks tells a larger one tells too.
LEMMA MoreRemarks ==
    ASSUME NEW R, NEW T, R \subseteq T
    PROVE  (Violated(R) => Violated(T)) /\ (AllTold(R) => AllTold(T))
  BY DEF Violated, AllTold

\* A step that leaves the diagnosis as it is and only adds to the trace.
LEMMA ListingSame ==
    ASSUME Listing, UNCHANGED <<ix, fail>>, trace \subseteq trace',
           phase' = "failed" => phase = "failed"
    PROVE  Listing'
  <1>1. Violated(trace) => Violated(trace)' BY DEF Violated
  <1>2. /\ Violated(fail.candidates)' <=> Violated(fail.candidates)
        /\ AllTold(fail.candidates)' <=> AllTold(fail.candidates)
    BY DEF Violated, AllTold
  <1> QED BY <1>1, <1>2 DEF Listing

\* Steps that neither diagnose nor record anything, and after which no version is tried.
LEMMA SilentReasons ==
    ASSUME DInv, UNCHANGED <<ix, fail, trace>>, ~found' => ~found,
           phase' \notin {"choose", "failed"}, phase # "failed",
           phase' = "returned" => found',
           phase' = "roots" => tried' = 0 \/ fail.type # ""
    PROVE  Reasons' /\ Backed'
  <1>1. Reasons /\ Marks /\ Listing BY DEF DInv, Backed
  <1>2. Reasons' BY <1>1 DEF Reasons
  <1>3. Marks' BY <1>1 DEF Marks
  <1>4. Listing' BY <1>1, ListingSame
  <1>5. Told' BY DEF Told
  <1> QED BY <1>2, <1>3, <1>4, <1>5 DEF Backed

LEMMA SilentStepsReasons ==
    DInv /\ (StartSearch \/ TryRoot \/ RootSucceeds \/ RootFails \/ ScanDone \/ TakeCandidate)
        => Reasons' /\ Backed'
  <1> SUFFICES ASSUME DInv,
                      StartSearch \/ TryRoot \/ RootSucceeds \/ RootFails \/ ScanDone
                      \/ TakeCandidate
               PROVE  Reasons' /\ Backed'
    OBVIOUS
  <1>1. Reasons /\ Asked BY DEF DInv, CInv, Complete
  <1>2. CASE StartSearch
    BY <1>1, <1>2, SilentReasons DEF StartSearch, request, Asked
  <1>3. CASE TryRoot BY <1>3, SilentReasons DEF TryRoot, request
  <1>4. CASE RootSucceeds BY <1>4, SilentReasons DEF RootSucceeds, request
  <1>5. CASE RootFails
    <2>1. fail.type # "" BY <1>1, <1>5 DEF RootFails, Reasons
    <2> QED BY <1>5, <2>1, SilentReasons DEF RootFails, request
  <1>6. CASE ScanDone BY <1>6, SilentReasons DEF ScanDone, Return, request
  <1>7. CASE TakeCandidate BY <1>7, SilentReasons DEF TakeCandidate, request
  <1> QED BY <1>2, <1>3, <1>4, <1>5, <1>6, <1>7

\* Refusals before the search, and a target that is not in the index.
LEMMA PlainReasons ==
    DInv /\ (RootMissing \/ NoVersions \/ CycleFound \/ TargetMissing) => Reasons' /\ Backed'
  <1> SUFFICES ASSUME DInv, RootMissing \/ NoVersions \/ CycleFound \/ TargetMissing
               PROVE  Reasons' /\ Backed'
    OBVIOUS
  <1>1. Reasons /\ Marks BY DEF DInv, Backed
  <1>2. UNCHANGED <<ix, trace>>
    BY DEF RootMissing, NoVersions, CycleFound, TargetMissing, Refused, request
  <1>3. \/ phase' = "failed" /\ found' = found
        \/ phase' = "returned" /\ found' = FALSE
    BY DEF RootMissing, NoVersions, CycleFound, TargetMissing, Refused, Return
  <1>4. ~found
    BY NotFound DEF RootMissing, NoVersions, CycleFound, TargetMissing, DInv, CInv, WInv,
                    IInv, Sound
  <1>5. PICK m, a, k :
           /\ fail' = Diagnostic(k, m, a, {})
           /\ phase' = "failed" \/ k = "MISSING"
           /\ k # ""
           /\ m \in {"root artifact not found", "no versions for root artifact",
                     "dependency cycle detected", "dependency target missing"}
    <2>1. CASE RootMissing BY <2>1 DEF RootMissing, Refused
    <2>2. CASE NoVersions BY <2>2 DEF NoVersions, Refused
    <2>3. CASE CycleFound BY <2>3 DEF CycleFound, Refused
    <2>4. CASE TargetMissing BY <2>4 DEF TargetMissing
    <2> QED BY <2>1, <2>2, <2>3, <2>4
  <1>6. /\ phase' = "failed" \/ fail'.type = "MISSING"
        /\ fail'.type # "" /\ fail'.candidates = {}
        /\ fail'.message \in {"root artifact not found", "no versions for root artifact",
                              "dependency cycle detected", "dependency target missing"}
    BY <1>5 DEF Diagnostic
  <1>7. Reasons' BY <1>3, <1>6 DEF Reasons, General
  <1>8. Marks' BY <1>1, <1>2, <1>4 DEF Marks
  <1>9. Listing' BY <1>6 DEF Listing
  <1>10. Told' BY <1>3 DEF Told
  <1> QED BY <1>7, <1>8, <1>9, <1>10 DEF Backed

LEMMA ConflictReasons == DInv /\ Conflict => Reasons' /\ Backed'
  <1> SUFFICES ASSUME DInv, Conflict PROVE Reasons' /\ Backed'
    OBVIOUS
  <1>1. Reasons /\ Marks BY DEF DInv, Backed
  <1>2. PICK i \in 1 .. Len(Top.snap), t \in Artifact :
           /\ IsNextUnmet(Top, i, t)
           /\ trace' = trace \cup {Candidate(t, assigned[t], "violates")}
           /\ fail' = Diagnostic("CONFLICT", "selected version violates constraint", t, {})
    BY DEF Conflict
  <1>3. phase' = "returned" /\ ~found
    BY <1>2, NotFound DEF Conflict, Return, DInv, CInv, WInv
  <1>4. /\ fail'.type = "CONFLICT" /\ fail'.candidates = {} /\ fail'.about = t
        /\ fail'.message = "selected version violates constraint"
    BY <1>2 DEF Diagnostic
  <1>5. Reasons' BY <1>3, <1>4 DEF Reasons, General
  <1> DEFINE c == Candidate(t, assigned[t], "violates")
  <1>6. c.verdict = "violates" /\ c.artifact = t BY DEF Candidate
  <1>7. trace' = trace \cup {c} BY <1>2
  <1> HIDE DEF c
  <1>8. Marks' BY <1>1, <1>3, <1>6, <1>7 DEF Marks
  <1>9. \E q \in trace' : q.artifact = fail'.about /\ q.verdict = "violates"
    BY <1>4, <1>6, <1>7
  <1>10. Violated(trace)' BY <1>9 DEF Violated
  <1>11. Listing' BY <1>3, <1>4, <1>10 DEF Listing
  <1>12. Told' BY <1>3 DEF Told
  <1> QED BY <1>5, <1>8, <1>11, <1>12 DEF Backed

LEMMA DemandReasons == DInv /\ Demand => Reasons' /\ Backed'
  <1> SUFFICES ASSUME DInv, Demand PROVE Reasons' /\ Backed'
    OBVIOUS
  <1>1. Reasons /\ Marks /\ Listing /\ TypeOK /\ WInv BY DEF DInv, Backed, CInv, WInv, IInv
  <1>2. UNCHANGED <<ix, found, fail, trace, tried>> /\ phase = "scan" /\ phase' = "choose"
    BY DEF Demand, request
  <1>3. PICK i \in 1 .. Len(Top.snap), t \in Artifact :
           IsNextUnmet(Top, i, t) /\ Moved(Call(Top.snap, i, t, 0, FALSE))
    BY DEF Demand
  <1> DEFINE f == Call(Top.snap, i, t, 0, FALSE)
  <1>4. stack # <<>> /\ stack \in Seq(Frame) BY <1>1, <1>2 DEF DInv, CInv, WInv, IInv, Calls, TypeOK
  <1>5. f \in Frame /\ f.cand = 0 /\ ~f.hit
    BY <1>1, <1>4, TopFacts, CatalogueAssumption DEF Call, Frame
  <1> HIDE DEF f
  <1>6. Len(stack') = Len(stack) /\ stack'[Len(stack)] = f
    <2>1. Moved(f) BY <1>3 DEF f
    <2> QED BY <1>4, <1>5, <2>1, ReplaceLast DEF Moved
  <1>7. Top'.cand = 0 /\ ~Top'.hit BY <1>5, <1>6 DEF Top
  <1>8. Reasons' BY <1>1, <1>2, <1>7 DEF Reasons
  <1>9. Marks' BY <1>1, <1>2 DEF Marks
  <1>10. Listing' BY <1>1, <1>2, ListingSame
  <1>11. Told'
    <2>1. \A j \in 1 .. Top'.cand : FALSE BY <1>7
    <2> QED BY <2>1 DEF Told, Candidate
  <1> QED BY <1>8, <1>9, <1>10, <1>11 DEF Backed

LEMMA SkipCandidateReasons == DInv /\ SkipCandidate => Reasons' /\ Backed'
  <1> SUFFICES ASSUME DInv, SkipCandidate PROVE Reasons' /\ Backed'
    OBVIOUS
  <1>1. Reasons /\ Marks /\ Listing /\ Told /\ TypeOK BY DEF DInv, Backed, CInv, WInv, IInv
  <1> DEFINE f == [Top EXCEPT !.cand = @ + 1]
  <1>2. /\ UNCHANGED <<ix, found, fail, phase, tried>> /\ phase = "choose" /\ Moved(f)
        /\ trace' = trace \cup {Candidate(Top.dep, Top.cand + 1, "mismatch")}
        /\ Top.cand < Candidates
    BY DEF SkipCandidate, request
  <1>3. /\ stack # <<>> /\ stack \in Seq(Frame) /\ Top \in Frame /\ Top.cand \in Nat
        /\ Candidates \in 0 .. MaxVersions /\ Top.cand \in 0 .. Candidates
    BY <1>1, <1>2, ChoosingFacts DEF DInv, TypeOK
  <1>4. Top.cand + 1 \in 0 .. MaxVersions BY <1>2, <1>3, CatalogueAssumption
  <1>5. f \in Frame /\ f.cand = Top.cand + 1 /\ f.hit = Top.hit /\ f.dep = Top.dep
    BY <1>3, <1>4 DEF Frame
  <1> HIDE DEF f
  <1>6. Len(stack') = Len(stack) /\ stack'[Len(stack)] = f
    BY <1>2, <1>3, <1>5, ReplaceLast DEF Moved
  <1>7. Top'.cand = Top.cand + 1 /\ Top'.hit = Top.hit /\ Top'.dep = Top.dep
    BY <1>5, <1>6 DEF Top
  <1>8. Reasons' BY <1>1, <1>2, <1>7 DEF Reasons
  <1>9. Marks' BY <1>1, <1>2 DEF Marks, Candidate
  <1>10. Listing' BY <1>1, <1>2, ListingSame
  <1>11. Told'
    <2> SUFFICES ASSUME fail.type = "", NEW i \in 1 .. Top.cand + 1
                 PROVE  Candidate(Top.dep, i, "mismatch") \in trace'
      BY <1>2, <1>7 DEF Told, Candidate
    <2>1. CASE i = Top.cand + 1 BY <1>2, <2>1
    <2>2. CASE i \in 1 .. Top.cand BY <1>1, <1>2, <2>2 DEF Told
    <2>3. i = Top.cand + 1 \/ i \in 1 .. Top.cand BY <1>3, UpToNext
    <2> QED BY <2>1, <2>2, <2>3
  <1> QED BY <1>8, <1>9, <1>10, <1>11 DEF Backed

LEMMA ExhaustedReasons == DInv /\ Exhausted => Reasons' /\ Backed'
  <1> SUFFICES ASSUME DInv, Exhausted PROVE Reasons' /\ Backed'
    OBVIOUS
  <1>1. Reasons /\ Marks /\ Listing /\ Told BY DEF DInv, Backed
  <1>2. /\ UNCHANGED <<ix, trace>> /\ phase = "choose" /\ phase' = "returned"
        /\ Top.cand = Candidates /\ ~found
    BY ChoosingFacts DEF Exhausted, Return, request, DInv
  <1>3. fail \in Diagnoses BY DEF DInv, CInv, WInv, IInv, TypeOK
  <1>4. CASE fail.type = ""
    <2>1. ~Top.hit BY <1>1, <1>2, <1>4 DEF Reasons
    <2>2. fail' = [Diagnostic("MISSING", "no version satisfies constraint", Top.dep, {})
                      EXCEPT !.candidates = trace]
      BY <1>4, <2>1 DEF Exhausted
    <2>3. /\ fail'.type = "MISSING" /\ fail'.about = Top.dep /\ fail'.candidates = trace
          /\ fail'.message = "no version satisfies constraint"
      BY <2>2 DEF Diagnostic
    <2>4. AllTold(trace)'
      <3> SUFFICES ASSUME NEW i \in 1 .. Len(ix[Top.dep])
                   PROVE  \E q \in trace :
                             q.artifact = Top.dep /\ q.version = i /\ q.verdict # "accepted"
        <4>1. ix' = ix /\ trace' = trace /\ fail'.about = Top.dep BY <1>2, <2>3
        <4> QED BY <4>1 DEF AllTold
      <3> DEFINE c == Candidate(Top.dep, i, "mismatch")
      <3>1. c \in trace BY <1>1, <1>2, <1>4 DEF Told, Candidates
      <3>2. c.artifact = Top.dep /\ c.version = i /\ c.verdict = "mismatch" BY DEF Candidate
      <3> HIDE DEF c
      <3> QED BY <3>1, <3>2
    <2>5. Reasons' BY <1>2, <2>3 DEF Reasons, General
    <2>6. Listing' BY <1>2, <2>3, <2>4 DEF Listing, AllTold
    <2>7. Marks' /\ Told' BY <1>1, <1>2 DEF Marks, Told
    <2> QED BY <2>5, <2>6, <2>7 DEF Backed
  <1>5. CASE fail.type # ""
    <2>1. fail' = [fail EXCEPT !.candidates = trace] BY <1>5 DEF Exhausted
    <2>2. /\ fail'.type = fail.type /\ fail'.about = fail.about
          /\ fail'.message = fail.message /\ fail'.candidates = trace
      BY <1>3, <2>1 DEF Diagnoses
    <2>3. Reasons' BY <1>1, <1>2, <1>5, <2>2 DEF Reasons
    <2>4. Violated(trace)' <=> Violated(trace) BY <1>2, <2>2 DEF Violated
    <2>5. AllTold(trace)' <=> AllTold(trace) BY <1>2, <2>2 DEF AllTold
    <2>6. fail.message = "no version satisfies constraint" => AllTold(trace)
      BY <1>1, MoreRemarks DEF Listing
    <2>7. fail'.message = "no version satisfies constraint" => AllTold(fail.candidates)'
      BY <2>2, <2>5, <2>6, <1>2 DEF AllTold
    <2>8. fail'.message = "selected version violates constraint" =>
             Violated(trace)' /\ Violated(fail.candidates)'
      BY <1>1, <1>2, <2>2, <2>4 DEF Listing, Violated
    <2>9. Listing' BY <1>2, <2>2, <2>7, <2>8 DEF Listing
    <2>10. Marks' /\ Told' BY <1>1, <1>2 DEF Marks, Told
    <2> QED BY <2>3, <2>9, <2>10 DEF Backed
  <1> QED BY <1>4, <1>5

LEMMA ResumeReasons == DInv /\ (ResumeTrue \/ ResumeFalse) => Reasons' /\ Backed'
  <1> SUFFICES ASSUME DInv, ResumeTrue \/ ResumeFalse PROVE Reasons' /\ Backed'
    OBVIOUS
  <1>1. Reasons /\ Marks /\ Listing BY DEF DInv, Backed
  <1>2. UNCHANGED <<ix, fail, found>> /\ phase' \in {"scan", "choose"} /\ trace \subseteq trace'
        /\ phase = "returned"
    BY DEF ResumeTrue, ResumeFalse, request
  <1>3. phase' = "choose" => fail.type # "" BY <1>1 DEF ResumeTrue, ResumeFalse, Reasons
  <1>4. Reasons' BY <1>1, <1>2, <1>3 DEF Reasons
  <1>5. Marks' BY <1>1 DEF Marks, ResumeTrue, ResumeFalse, Candidate
  <1>6. Listing' BY <1>1, <1>2, ListingSame
  <1>7. Told' BY <1>2, <1>3 DEF Told
  <1> QED BY <1>4, <1>5, <1>6, <1>7 DEF Backed

LEMMA GiveUpReasons == DInv /\ GiveUp => Reasons' /\ Backed'
  <1> SUFFICES ASSUME DInv, GiveUp PROVE Reasons' /\ Backed'
    OBVIOUS
  <1>1. Reasons /\ Marks /\ Listing /\ CInv BY DEF DInv, Backed
  <1>2. UNCHANGED <<ix, trace, found>> /\ phase = "roots" /\ phase' = "failed" /\ Untried = {}
    BY DEF GiveUp, request
  <1>3. fail.type # "" BY <1>1, <1>2, GiveUpHasReason
  <1>4. fail' = [fail EXCEPT !.candidates = IF @ = {} THEN trace ELSE @]
    BY <1>3 DEF GiveUp
  <1>5. fail \in Diagnoses BY <1>1 DEF CInv, WInv, IInv, TypeOK
  <1>6. /\ fail'.type = fail.type /\ fail'.about = fail.about /\ fail'.message = fail.message
        /\ fail'.candidates = IF fail.candidates = {} THEN trace ELSE fail.candidates
    BY <1>4, <1>5 DEF Diagnoses
  <1>7. fail.candidates \subseteq fail'.candidates /\ fail'.candidates \subseteq trace
    BY <1>1, <1>6 DEF Listing
  <1>8. Reasons' BY <1>1, <1>2, <1>6 DEF Reasons
  <1>9. fail'.message = "selected version violates constraint" =>
           Violated(trace)' /\ Violated(fail.candidates)'
    BY <1>1, <1>2, <1>6 DEF Listing, Violated
  <1>10. fail'.message = "no version satisfies constraint" => AllTold(fail.candidates)'
    <2> SUFFICES ASSUME fail.message = "no version satisfies constraint"
                 PROVE  AllTold(fail.candidates)'
      BY <1>6
    <2>1. AllTold(fail.candidates) BY <1>1 DEF Listing
    <2>2. PICK a : a = fail.about OBVIOUS
    <2>3. ix' = ix /\ fail'.about = a BY <1>2, <1>6, <2>2
    <2>4. \A i \in 1 .. Len(ix[a]) : \E q \in fail'.candidates :
             q.artifact = a /\ q.version = i /\ q.verdict # "accepted"
      BY <1>7, <2>1, <2>2 DEF AllTold
    <2> QED BY <2>3, <2>4 DEF AllTold
  <1>11. Listing' BY <1>2, <1>7, <1>9, <1>10 DEF Listing
  <1>12. Marks' /\ Told' BY <1>1, <1>2 DEF Marks, Told
  <1> QED BY <1>8, <1>11, <1>12 DEF Backed

LEMMA StutterReasons == DInv /\ UNCHANGED vars => Reasons' /\ Backed'
  <1> SUFFICES ASSUME DInv, UNCHANGED vars PROVE Reasons' /\ Backed'
    OBVIOUS
  <1>1. Reasons /\ Marks /\ Listing /\ Told BY DEF DInv, Backed
  <1>2. UNCHANGED <<ix, fail, found, phase, tried, stack, trace>> BY DEF vars
  <1>3. Reasons' BY <1>1, <1>2 DEF Reasons, Top
  <1>4. Marks' BY <1>1, <1>2 DEF Marks
  <1>5. Listing' BY <1>1, <1>2, ListingSame
  <1>6. Told' BY <1>1, <1>2 DEF Told, Top, Candidate
  <1> QED BY <1>3, <1>4, <1>5, <1>6 DEF Backed

LEMMA DiagnosisInvariant == Spec => []DInv
  <1>1. Init => DInv BY InitIInv, InitWalk, InitComplete, InitReasons DEF DInv, CInv, WInv
  <1>2. DInv /\ [Next]_vars => DInv'
    <2> SUFFICES ASSUME DInv, [Next]_vars PROVE CInv' /\ Reasons' /\ Backed'
      BY DEF DInv
    <2>1. CInv' BY NextCInv DEF DInv
    <2> QED BY <2>1, SilentStepsReasons, PlainReasons, ConflictReasons, DemandReasons,
               SkipCandidateReasons, ExhaustedReasons, ResumeReasons, GiveUpReasons,
               StutterReasons
            DEF Next, Step, Done
  <1> QED BY <1>1, <1>2, PTL DEF Spec

\* A failed call has always diagnosed why, and never in the two general terms.
THEOREM FailuresHaveReasons == Spec => []FailureHasAReason
  <1>1. ASSUME DInv PROVE FailureHasAReason
    BY <1>1 DEF DInv, Reasons, General, FailureHasAReason
  <1> QED BY <1>1, DiagnosisInvariant, PTL

\* The candidates a failure lists back its message, and none is marked accepted.
THEOREM DiagnosesAreBacked == Spec => []DiagnosisIsBacked
  <1>1. ASSUME DInv PROVE DiagnosisIsBacked
    <2>1. Marks /\ Listing /\ Sound BY <1>1 DEF DInv, Backed, CInv, WInv, IInv
    <2> SUFFICES ASSUME phase = "failed"
                 PROVE  /\ fail.message = "selected version violates constraint" =>
                              Violated(fail.candidates)
                        /\ fail.message = "no version satisfies constraint" =>
                              AllTold(fail.candidates)
                        /\ \A r \in fail.candidates : r.verdict # "accepted"
      BY DEF DiagnosisIsBacked, Violated, AllTold
    <2>2. ~found BY <2>1 DEF Sound
    <2> QED BY <2>1, <2>2 DEF Marks, Listing
  <1> QED BY <1>1, DiagnosisInvariant, PTL

-----------------------------------------------------------------------------
(* The answer. *)

\* What the selected versions depend on.
NeedsGraph == [a \in Artifact |-> Needs(ix, assigned, a)]

\* The order lists only what can be reached from the root: the first artifact outside a
\* closed set would have been asked for by one inside.
LEMMA OrderIsReached ==
    ASSUME WInv, phase \in {"scan", "choose", "returned", "succeeded"},
           NEW S \in SUBSET Artifact, root \in S, Closed(NeedsGraph, S)
    PROVE  \A j \in 1 .. Len(order) : order[j] \in S
  <1>1. /\ order \in Seq(Artifact) /\ order[1] = root /\ Len(order) \in Nat /\ Layers
    BY DEF WInv, IInv, TypeOK, Walk, Lengths
  <1> DEFINE out == {j \in 1 .. Len(order) : order[j] \notin S}
  <1> SUFFICES ASSUME out # {} PROVE FALSE
    OBVIOUS
  <1>2. out \in SUBSET Nat OBVIOUS
  <1>3. PICK m \in out : \A j \in out : m <= j BY <1>2, NatLeast
  <1>4. m \in 1 .. Len(order) /\ order[m] \notin S /\ m # 1 BY <1>1
  <1>5. m \in 2 .. Len(order) BY <1>1, <1>4
  <1>6. PICK i \in 1 .. Len(order) : i < m /\ order[m] \in Needs(ix, assigned, order[i])
    BY <1>1, <1>5 DEF Layers, Descends
  <1>7. i \notin out BY <1>3, <1>4, <1>6
  <1>8. order[i] \in S /\ order[i] \in Artifact BY <1>1, <1>7
  <1> QED BY <1>4, <1>6, <1>8 DEF Closed, NeedsGraph

\* An answer selects what its root needs, directly or through others, and nothing else.
LEMMA AnswerIsReach ==
    ASSUME WInv, found, phase = "returned"
    PROVE  Selected(assigned) = Reach(NeedsGraph, root)
  <1>1. /\ TypeOK /\ Listed /\ Consistent(ix, assigned) /\ order # <<>> /\ order[1] = root
        /\ order \in Seq(Artifact) /\ root \in Artifact
    BY DEF WInv, IInv, Sound, TypeOK, Walk, Lengths
  <1>2. DOMAIN NeedsGraph = Artifact BY DEF NeedsGraph
  <1>3. Selected(assigned) \subseteq Reach(NeedsGraph, root)
    <2> SUFFICES ASSUME NEW a \in Selected(assigned), NEW S \in SUBSET Artifact,
                        root \in S, Closed(NeedsGraph, S)
                 PROVE  a \in S
      BY <1>2 DEF Reach, Selected
    <2>1. PICK j \in 1 .. Len(order) : order[j] = a BY <1>1 DEF Listed
    <2> QED BY <2>1, OrderIsReached
  <1>4. root \in Selected(assigned)
    <2>1. 1 \in 1 .. Len(order) BY <1>1
    <2> QED BY <1>1, <2>1 DEF Listed
  <1>5. Closed(NeedsGraph, Selected(assigned))
    <2> SUFFICES ASSUME NEW a \in Selected(assigned), NEW t \in Needs(ix, assigned, a)
                 PROVE  t \in Selected(assigned)
      BY DEF Closed, NeedsGraph, Selected
    <2>1. a \in Artifact BY DEF Selected
    <2>2. assigned[t] # 0 /\ t \in DOMAIN ix BY <1>1, <2>1 DEF Consistent, Met
    <2>3. t \in Artifact BY <1>1, <2>2, IndexFacts DEF TypeOK
    <2> QED BY <2>2, <2>3 DEF Selected
  <1>6. Selected(assigned) \in SUBSET Artifact BY DEF Selected
  <1> QED BY <1>2, <1>3, <1>4, <1>5, <1>6 DEF Reach

LEMMA SolutionsAreViable ==
    \A c : \A s \in Solutions(ix, root, c) : s \in Viable /\ s[root] = c
  BY DEF Solutions, Viable

Solvable == {c \in RootCandidates(ix, root, req) : Solutions(ix, root, c) # {}}

LEMMA CandidateNat ==
    ASSUME CInv, root \in DOMAIN ix
    PROVE  \A c \in RootCandidates(ix, root, req) : c \in Nat \ {0}
  <1>1. IsIndex(ix) BY DEF CInv, WInv, IInv, TypeOK
  <1> QED BY <1>1, IndexFacts DEF RootCandidates

\* The answer is a solution for the first root candidate that has one.
LEMMA AnswerIsBest ==
    ASSUME CInv, found, phase = "returned", stack = <<>>
    PROVE  /\ tried \in Solvable /\ \A b \in Solvable : tried <= b
           /\ assigned \in Solutions(ix, root, tried)
  <1>1. /\ WInv /\ TypeOK /\ RootsPassed /\ Consistent(ix, assigned) /\ Asked
        /\ assigned[root] = tried
    BY DEF CInv, WInv, IInv, Sound, Walk, Lengths, Complete
  <1>2. tried \in RootCandidates(ix, root, req) /\ tried # 0 /\ root \in DOMAIN ix
    BY <1>1 DEF Asked
  <1>3. assigned \in Solutions(ix, root, tried)
    BY <1>1, AnswerIsReach DEF Solutions, TypeOK, NeedsGraph
  <1>4. ASSUME NEW b \in Solvable PROVE tried <= b
    <2>1. b \in RootCandidates(ix, root, req) BY DEF Solvable
    <2>2. b \in Nat /\ tried \in Nat BY <1>2, <2>1, CandidateNat
    <2>3. PICK s \in Solutions(ix, root, b) : TRUE BY DEF Solvable
    <2>4. s \in Viable /\ s[root] = b BY <2>3, SolutionsAreViable
    <2>5. ~(b < tried) BY <1>1, <1>2, <2>1, <2>4 DEF RootsPassed
    <2> QED BY <2>2, <2>5
  <1> QED BY <1>2, <1>3, <1>4 DEF Solvable

\* When the search gives up, no root candidate has a solution.
LEMMA GivesUpRightly ==
    ASSUME CInv, Reasons, phase = "roots", Untried = {}
    PROVE  Solvable = {}
  <1> SUFFICES ASSUME NEW c \in Solvable PROVE FALSE
    OBVIOUS
  <1>1. RootsPassed /\ root \in DOMAIN ix /\ tried # 0
    BY GiveUpHasReason DEF CInv, Complete, Asked
  <1>2. c \in RootCandidates(ix, root, req) BY DEF Solvable
  <1>3. tried \in RootCandidates(ix, root, req) BY <1>1 DEF CInv, Complete, Asked
  <1>4. c \in Nat /\ tried \in Nat BY <1>1, <1>2, <1>3, CandidateNat
  <1>5. ~(c > tried) BY <1>2 DEF Untried
  <1>6. c < tried \/ c = tried BY <1>4, <1>5
  <1>7. PICK s \in Solutions(ix, root, c) : TRUE BY DEF Solvable
  <1>8. s \in Viable /\ s[root] = c BY <1>7, SolutionsAreViable
  <1> QED BY <1>1, <1>2, <1>6, <1>8 DEF RootsPassed

-----------------------------------------------------------------------------
(* Resolve implements its abstract specification, but for its fairness. *)

\* Abstract has its own copy of the catalogue, with the same definitions.
LEMMA SpecSolutions == \A c : Abstract!Solutions(ix, root, c) = Solutions(ix, root, c)
  BY DEF Abstract!Solutions, Solutions, Abstract!Assignment, Assignment, Abstract!Legal, Legal,
         Abstract!Consistent, Consistent, Abstract!Needs, Needs, Abstract!Met, Met,
         Abstract!Accepts, Accepts, Abstract!Selected, Selected, Abstract!Reach, Reach,
         Abstract!Closed, Closed

LEMMA SpecSolvable == Abstract!Solvable = Solvable
  BY SpecSolutions DEF Abstract!Solvable, Solvable, Abstract!RootCandidates, RootCandidates

LEMMA SpecCycle == Abstract!HasCycle(Abstract!UnionSucc(ix), root) <=> HasCycle(UnionSucc(ix), root)
  BY DEF Abstract!HasCycle, HasCycle, Abstract!UnionSucc, UnionSucc, Abstract!Knot, Knot,
         Abstract!Reach, Reach, Abstract!Closed, Closed

Ended(p) == p \in {"succeeded", "failed"}

\* A step that leaves the call unanswered, or its answer as it is, is not seen.
LEMMA Unseen ==
    ASSUME UNCHANGED <<ix, root, req>>,
           \/ ~Ended(phase) /\ ~Ended(phase')
           \/ UNCHANGED <<phase, fail, assigned>>
    PROVE  UNCHANGED (Abstract!specVars)
  BY DEF Abstract!specVars, Ended

\* A failure is a refusal of its kind.
LEMMA Refuses ==
    ASSUME UNCHANGED <<ix, root, req>>, ~Ended(phase), phase' = "failed", NEW kind,
           fail'.type = kind
    PROVE  Abstract!Refuse(kind)
  BY DEF Abstract!Refuse, Ended

LEMMA InitImplements == Init => Abstract!Init
  BY DEF Init, Abstract!Init, Abstract!Nothing, Abstract!NoRequest, NoRequest

LEMMA StepImplements == DInv /\ [Next]_vars => [Abstract!Answer]_(Abstract!specVars)
  <1> SUFFICES ASSUME DInv, [Next]_vars PROVE Abstract!Answer \/ UNCHANGED (Abstract!specVars)
    OBVIOUS
  <1>1. CInv /\ Reasons /\ TypeOK /\ Asked BY DEF DInv, CInv, WInv, IInv, Complete
  <1>2. CASE RootMissing
    <2>1. UNCHANGED <<ix, root, req>> /\ phase = "checking" /\ phase' = "failed"
          /\ fail'.type = "MISSING" /\ root \notin DOMAIN ix
      BY <1>2 DEF RootMissing, Refused, request, Diagnostic
    <2>2. Abstract!Refuse("MISSING") BY <2>1, Refuses DEF Ended
    <2> QED BY <2>1, <2>2 DEF Abstract!Answer, Abstract!FailMissing, Abstract!HasVersions
  <1>3. CASE NoVersions
    <2>1. UNCHANGED <<ix, root, req>> /\ phase = "checking" /\ phase' = "failed"
          /\ fail'.type = "MISSING" /\ Len(ix[root]) = 0
      BY <1>3 DEF NoVersions, Refused, request, Diagnostic
    <2>2. Abstract!Refuse("MISSING") BY <2>1, Refuses DEF Ended
    <2> QED BY <2>1, <2>2 DEF Abstract!Answer, Abstract!FailMissing, Abstract!HasVersions
  <1>4. CASE CycleFound
    <2>1. UNCHANGED <<ix, root, req>> /\ phase = "checking" /\ phase' = "failed"
          /\ fail'.type = "CYCLE" /\ root \in DOMAIN ix /\ Len(ix[root]) > 0
          /\ HasCycle(UnionSucc(ix), root)
      BY <1>4 DEF CycleFound, Refused, request, Diagnostic
    <2>2. Abstract!Refuse("CYCLE") BY <2>1, Refuses DEF Ended
    <2> QED BY <2>1, <2>2, SpecCycle DEF Abstract!Answer, Abstract!FailCycle, Abstract!HasVersions
  <1>5. CASE RootSucceeds
    <2>1. UNCHANGED <<ix, root, req, assigned, fail>> /\ phase = "returned" /\ phase' = "succeeded"
          /\ found /\ stack = <<>>
      BY <1>5 DEF RootSucceeds, request
    <2>2. Abstract!HasVersions /\ ~HasCycle(UnionSucc(ix), root)
      BY <1>1, <2>1 DEF Asked, Abstract!HasVersions
    <2>3. /\ tried \in Abstract!Solvable /\ \A b \in Abstract!Solvable : tried <= b
          /\ assigned' \in Abstract!Solutions(ix, root, tried)
      BY <1>1, <2>1, AnswerIsBest, SpecSolvable, SpecSolutions
    <2> QED BY <2>1, <2>2, <2>3, SpecCycle DEF Abstract!Answer, Abstract!Succeed
  <1>6. CASE GiveUp
    <2>1. UNCHANGED <<ix, root, req>> /\ phase = "roots" /\ phase' = "failed" /\ Untried = {}
      BY <1>6 DEF GiveUp, request
    <2>2. Abstract!HasVersions /\ ~HasCycle(UnionSucc(ix), root)
      BY <1>1, <2>1 DEF Asked, Abstract!HasVersions
    <2>3. Abstract!Solvable = {} BY <1>1, <2>1, GivesUpRightly, SpecSolvable
    <2>4. fail.type # "" /\ fail.type # "CYCLE" /\ fail \in Diagnoses
      BY <1>1, <2>1, GiveUpHasReason DEF Reasons, TypeOK
    <2>5. fail'.type = fail.type BY <1>6, <2>4 DEF GiveUp, Diagnoses
    <2>6. fail.type \in {"MISSING", "CONFLICT"} BY <2>4 DEF Diagnoses
    <2>7. Abstract!Refuse(fail.type) BY <2>1, <2>5, Refuses DEF Ended
    <2> QED BY <2>2, <2>3, <2>6, <2>7, SpecCycle DEF Abstract!Answer, Abstract!FailUnsolvable
  <1>7. CASE UNCHANGED vars
    <2>1. UNCHANGED <<ix, root, req, phase, fail, assigned>> BY <1>7 DEF vars
    <2> QED BY <2>1, Unseen
  <1>8. ASSUME \/ StartSearch \/ TryRoot \/ RootFails \/ ScanDone \/ TargetMissing \/ Conflict
               \/ Demand \/ SkipCandidate \/ TakeCandidate \/ Exhausted \/ ResumeTrue
               \/ ResumeFalse
        PROVE  UNCHANGED (Abstract!specVars)
    <2>1. UNCHANGED <<ix, root, req>>
      BY <1>8 DEF StartSearch, TryRoot, RootFails, ScanDone, TargetMissing, Conflict, Demand,
                  SkipCandidate, TakeCandidate, Exhausted, ResumeTrue, ResumeFalse, request
    <2>2. ~Ended(phase)
      BY <1>8 DEF StartSearch, TryRoot, RootFails, ScanDone, TargetMissing, Conflict, Demand,
                  SkipCandidate, TakeCandidate, Exhausted, ResumeTrue, ResumeFalse, Ended
    <2>3. ~Ended(phase')
      BY <1>8 DEF StartSearch, TryRoot, RootFails, ScanDone, TargetMissing, Conflict, Demand,
                  SkipCandidate, TakeCandidate, Exhausted, ResumeTrue, ResumeFalse, Return, Ended
    <2> QED BY <2>1, <2>2, <2>3, Unseen
  <1> QED BY <1>2, <1>3, <1>4, <1>5, <1>6, <1>7, <1>8 DEF Next, Step, Done

\* Resolve answers as ResolverSpec says it may, and answers once: the safety part of
\* Implements, which is soundness, completeness and the highest root version at once.
THEOREM AnswersAsSpecified == Spec => Abstract!Init /\ [][Abstract!Answer]_(Abstract!specVars)
  <1> QED BY InitImplements, StepImplements, DiagnosisInvariant, PTL DEF Spec
=============================================================================
