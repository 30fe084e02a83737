------------------------------ MODULE Resolver ------------------------------
(***************************************************************************)
(* resolver.Resolve (internal/resolver/resolver.go): the backtracking      *)
(* search for a selection of versions.                                     *)
(*                                                                         *)
(* search() is recursive, and each call walks over a copy of the order in  *)
(* which artifacts were assigned.  A call is a frame of stack: snap is its *)
(* copy of the order, <<at, dep>> the place in its two loops (the artifact *)
(* snap[at] and its dependency on dep), cand the candidate version of dep  *)
(* that it tries, hit whether one has matched (matchedCount > 0).  A step  *)
(* of the walk over dependencies that are already met changes nothing, so  *)
(* a call goes in one step to its next unmet dependency.                   *)
(***************************************************************************)
EXTENDS Catalogue

CONSTANTS Indexes,    \* the indexes a call may be given
          Roots       \* the root artifacts a call may name

ASSUME ResolverAssumption == /\ \A x \in Indexes : IsIndex(x)
                             /\ Roots \subseteq Artifact

VARIABLES ix,         \* the index
          root,       \* rootName
          req,        \* the rank of rootVersion, NoRequest for nil
          phase,      \* where control is, see Phases
          tried,      \* the root candidate the loop of Resolve has reached
          assigned,   \* ctx.assigned, 0 where the map has no key
          depth,      \* ctx.depth, 0 where the map has no key
          order,      \* ctx.order
          stack,      \* the calls of search, the innermost last
          found,      \* what the last call of search returned
          fail,       \* ctx.fail
          trace       \* ctx.trace, as a set: order and repetition are layout

vars == <<ix, root, req, phase, tried, assigned, depth, order, stack, found, fail, trace>>

Phases ==
    {"checking",    \* Resolve before the search
     "roots",       \* Resolve picks the next root candidate
     "scan",        \* the innermost search looks for an unmet dependency
     "choose",      \* the innermost search tries versions of an unassigned target
     "returned",    \* a call of search has returned found
     "succeeded", "failed"}

Verdicts == {"accepted", "violates", "mismatch", "downstream"}

\* The messages a Diagnostic of Resolve can carry.
Messages ==
    {"", "root artifact not found", "no versions for root artifact",
     "dependency cycle detected", "no version of root satisfies all constraints",
     "dependency target missing", "selected version violates constraint",
     "no version satisfies constraint",
     "all candidate versions lead to downstream conflict"}

Diagnostic(type, message, about, candidates) ==
    [type |-> type, message |-> message, about |-> about, candidates |-> candidates]

\* The zero Diagnostic.
NoDiagnostic == Diagnostic("", "", 0, {})

Candidate(a, v, verdict) == [artifact |-> a, version |-> v, verdict |-> verdict]

Init ==
    /\ ix \in Indexes
    /\ root \in Roots
    /\ req \in Rank \cup {NoRequest}
    /\ phase = "checking"
    /\ tried = 0
    /\ assigned = [a \in Artifact |-> 0]
    /\ depth = [a \in Artifact |-> 0]
    /\ order = <<>>
    /\ stack = <<>>
    /\ found = FALSE
    /\ fail = NoDiagnostic
    /\ trace = {}

request == <<ix, root, req>>

-----------------------------------------------------------------------------
(* resolveCtx: assign and unassign, and the stack of calls. *)

RemoveFirst(s, e) ==
    IF \E i \in 1 .. Len(s) : s[i] = e
    THEN LET k == CHOOSE i \in 1 .. Len(s) :
                     s[i] = e /\ \A j \in 1 .. Len(s) : s[j] = e => i <= j
         IN  [i \in 1 .. Len(s) - 1 |-> IF i < k THEN s[i] ELSE s[i + 1]]
    ELSE s

Assign(a, v, d) ==
    /\ assigned' = [assigned EXCEPT ![a] = v]
    /\ depth' = [depth EXCEPT ![a] = d]
    /\ order' = IF assigned[a] = 0 THEN Append(order, a) ELSE order

\* Mutant: the maps are cleaned, the order is not.
UnassignKeepsOrder(a) ==
    /\ assigned' = [assigned EXCEPT ![a] = 0]
    /\ depth' = [depth EXCEPT ![a] = 0]
    /\ order' = order

Unassign(a) ==
    /\ assigned' = [assigned EXCEPT ![a] = 0]
    /\ depth' = [depth EXCEPT ![a] = 0]
    /\ order' = RemoveFirst(order, a)

Call(snap, at, dep, cand, hit) ==
    [snap |-> snap, at |-> at, dep |-> dep, cand |-> cand, hit |-> hit]

NewCall(snap) == Call(snap, 0, 0, 0, FALSE)

Top == stack[Len(stack)]
Pop(s) == SubSeq(s, 1, Len(s) - 1)

Return(value) ==
    /\ stack' = Pop(stack)
    /\ found' = value
    /\ phase' = "returned"

\* The innermost call is at the dependency of Asker on Top.dep.
Asker == Top.snap[Top.at]
Matches(t, i) == Accepts(ix, assigned, Asker, t, i)

Moved(f) == stack' = [stack EXCEPT ![Len(stack)] = f]

-----------------------------------------------------------------------------
(* Resolve before and around the search. *)

Refused(type, message) ==
    /\ phase' = "failed"
    /\ fail' = Diagnostic(type, message, root, {})
    /\ UNCHANGED <<request, tried, assigned, depth, order, stack, found, trace>>

RootMissing ==
    /\ phase = "checking"
    /\ root \notin DOMAIN ix
    /\ Refused("MISSING", "root artifact not found")

NoVersions ==
    /\ phase = "checking"
    /\ root \in DOMAIN ix /\ Len(ix[root]) = 0
    /\ Refused("MISSING", "no versions for root artifact")

\* detectCycle: module CycleDetect shows that it decides HasCycle.
CycleFound ==
    /\ phase = "checking"
    /\ root \in DOMAIN ix /\ Len(ix[root]) > 0
    /\ HasCycle(UnionSucc(ix), root)
    /\ Refused("CYCLE", "dependency cycle detected")

StartSearch ==
    /\ phase = "checking"
    /\ root \in DOMAIN ix /\ Len(ix[root]) > 0
    /\ ~HasCycle(UnionSucc(ix), root)
    /\ phase' = "roots"
    /\ UNCHANGED <<request, tried, assigned, depth, order, stack, found, fail, trace>>

\* Mutant: the loop stops after the first root candidate.
UntriedOnce == {c \in RootCandidates(ix, root, req) : tried = 0}

Untried == {c \in RootCandidates(ix, root, req) : c > tried}

TryRoot ==
    /\ phase = "roots"
    /\ \E c \in Untried :
          /\ \A b \in Untried : c <= b
          /\ tried' = c
          /\ Assign(root, c, 0)
    /\ stack' = <<NewCall(order')>>
    /\ phase' = "scan"
    /\ UNCHANGED <<request, found, fail, trace>>

RootSucceeds ==
    /\ phase = "returned" /\ stack = <<>> /\ found
    /\ phase' = "succeeded"
    /\ UNCHANGED <<request, tried, assigned, depth, order, stack, found, fail, trace>>

RootFails ==
    /\ phase = "returned" /\ stack = <<>> /\ ~found
    /\ Unassign(root)
    /\ phase' = "roots"
    /\ UNCHANGED <<request, tried, stack, found, fail, trace>>

\* All root candidates have failed: the last diagnosis is the answer.
GiveUp ==
    /\ phase = "roots"
    /\ Untried = {}
    /\ LET d == IF fail.type = ""
                THEN Diagnostic("CONFLICT", "no version of root satisfies all constraints", root, {})
                ELSE fail
       IN  fail' = [d EXCEPT !.candidates = IF @ = {} THEN trace ELSE @]
    /\ phase' = "failed"
    /\ UNCHANGED <<request, tried, assigned, depth, order, stack, found, trace>>

-----------------------------------------------------------------------------
(* search: the scan for an unmet dependency. *)

\* The call f has not passed the dependency t of its i-th artifact.
Ahead(f, i, t) == i > f.at \/ (i = f.at /\ t > f.dep)

Unmet(f) ==
    {p \in (1 .. Len(f.snap)) \X Artifact :
        /\ Ahead(f, p[1], p[2])
        /\ p[2] \in Needs(ix, assigned, f.snap[p[1]])
        /\ ~Met(ix, assigned, f.snap[p[1]], p[2])}

\* The first of them: artifacts in the order of the copy, dependencies by target id.
IsNextUnmet(f, i, t) ==
    /\ <<i, t>> \in Unmet(f)
    /\ \A p \in Unmet(f) : p[1] > i \/ (p[1] = i /\ p[2] >= t)

ScanDone ==
    /\ phase = "scan"
    /\ Unmet(Top) = {}
    /\ Return(TRUE)
    /\ UNCHANGED <<request, tried, assigned, depth, order, fail, trace>>

TargetMissing ==
    /\ phase = "scan"
    /\ \E i \in 1 .. Len(Top.snap), t \in Artifact :
          /\ IsNextUnmet(Top, i, t)
          /\ t \notin DOMAIN ix
          /\ fail' = Diagnostic("MISSING", "dependency target missing", t, {})
    /\ Return(FALSE)
    /\ UNCHANGED <<request, tried, assigned, depth, order, trace>>

\* Mutant: the clash is recorded but not diagnosed.
ConflictUndiagnosed ==
    /\ phase = "scan"
    /\ \E i \in 1 .. Len(Top.snap), t \in Artifact :
          /\ IsNextUnmet(Top, i, t)
          /\ t \in DOMAIN ix /\ assigned[t] # 0
          /\ trace' = trace \cup {Candidate(t, assigned[t], "violates")}
    /\ Return(FALSE)
    /\ UNCHANGED <<request, tried, assigned, depth, order, fail>>

\* The target is assigned already, to a version the constraint does not match.
Conflict ==
    /\ phase = "scan"
    /\ \E i \in 1 .. Len(Top.snap), t \in Artifact :
          /\ IsNextUnmet(Top, i, t)
          /\ t \in DOMAIN ix /\ assigned[t] # 0
          /\ trace' = trace \cup {Candidate(t, assigned[t], "violates")}
          /\ fail' = Diagnostic("CONFLICT", "selected version violates constraint", t, {})
    /\ Return(FALSE)
    /\ UNCHANGED <<request, tried, assigned, depth, order>>

\* Mutant: the loop over the versions starts at the second.
DemandSkipsHighest ==
    /\ phase = "scan"
    /\ \E i \in 1 .. Len(Top.snap), t \in Artifact :
          /\ IsNextUnmet(Top, i, t)
          /\ t \in DOMAIN ix /\ assigned[t] = 0
          /\ Moved(Call(Top.snap, i, t, 1, FALSE))
    /\ phase' = "choose"
    /\ UNCHANGED <<request, tried, assigned, depth, order, found, fail, trace>>

\* The target is not assigned: its versions are tried, highest first.
Demand ==
    /\ phase = "scan"
    /\ \E i \in 1 .. Len(Top.snap), t \in Artifact :
          /\ IsNextUnmet(Top, i, t)
          /\ t \in DOMAIN ix /\ assigned[t] = 0
          /\ Moved(Call(Top.snap, i, t, 0, FALSE))
    /\ phase' = "choose"
    /\ UNCHANGED <<request, tried, assigned, depth, order, found, fail, trace>>

-----------------------------------------------------------------------------
(* search: the loop over the versions of an unassigned target. *)

Candidates == Len(ix[Top.dep])

\* Mutant: a version that does not match leaves no record.
SkipCandidateUnrecorded ==
    /\ phase = "choose"
    /\ Top.cand < Candidates
    /\ ~Matches(Top.dep, Top.cand + 1)
    /\ Moved([Top EXCEPT !.cand = @ + 1])
    /\ UNCHANGED <<request, phase, tried, assigned, depth, order, found, fail, trace>>

\* Mutant: the loop does not advance over a version that does not match.
SkipCandidateStays ==
    /\ phase = "choose"
    /\ Top.cand < Candidates
    /\ ~Matches(Top.dep, Top.cand + 1)
    /\ UNCHANGED vars

SkipCandidate ==
    /\ phase = "choose"
    /\ Top.cand < Candidates
    /\ ~Matches(Top.dep, Top.cand + 1)
    /\ trace' = trace \cup {Candidate(Top.dep, Top.cand + 1, "mismatch")}
    /\ Moved([Top EXCEPT !.cand = @ + 1])
    /\ UNCHANGED <<request, phase, tried, assigned, depth, order, found, fail>>

\* The call after it has assigned the next candidate.
Took == Call(Top.snap, Top.at, Top.dep, Top.cand + 1, TRUE)

\* Mutant: the depth is that of the recursion.
TakeCandidateAtCallDepth ==
    /\ phase = "choose"
    /\ Top.cand < Candidates
    /\ Matches(Top.dep, Top.cand + 1)
    /\ Assign(Top.dep, Top.cand + 1, Len(stack))
    /\ stack' = Append([stack EXCEPT ![Len(stack)] = Took], NewCall(order'))
    /\ phase' = "scan"
    /\ UNCHANGED <<request, tried, found, fail, trace>>

TakeCandidate ==
    /\ phase = "choose"
    /\ Top.cand < Candidates
    /\ Matches(Top.dep, Top.cand + 1)
    /\ Assign(Top.dep, Top.cand + 1, depth[Asker] + 1)
    /\ stack' = Append([stack EXCEPT ![Len(stack)] = Took], NewCall(order'))
    /\ phase' = "scan"
    /\ UNCHANGED <<request, tried, found, fail, trace>>

\* No version is left: the call fails, keeping an earlier diagnosis if there is one.
Exhausted ==
    /\ phase = "choose"
    /\ Top.cand = Candidates
    /\ LET message == IF Top.hit THEN "all candidate versions lead to downstream conflict"
                                 ELSE "no version satisfies constraint"
           d == IF fail.type = "" THEN Diagnostic("MISSING", message, Top.dep, {}) ELSE fail
       IN  fail' = [d EXCEPT !.candidates = trace]
    /\ Return(FALSE)
    /\ UNCHANGED <<request, tried, assigned, depth, order, trace>>

\* Mutant: the loop over the candidates is not left after a success.
ResumeTrueGoesOn ==
    /\ phase = "returned" /\ stack # <<>> /\ found
    /\ trace' = trace \cup {Candidate(Top.dep, Top.cand, "accepted")}
    /\ phase' = "choose"
    /\ UNCHANGED <<request, tried, assigned, depth, order, stack, found, fail>>

\* The nested call succeeded: the candidate is accepted and the scan goes on.
ResumeTrue ==
    /\ phase = "returned" /\ stack # <<>> /\ found
    /\ trace' = trace \cup {Candidate(Top.dep, Top.cand, "accepted")}
    /\ phase' = "scan"
    /\ UNCHANGED <<request, tried, assigned, depth, order, stack, found, fail>>

\* Mutant: after a failed candidate no other is tried.
ResumeFalseGivesUp ==
    /\ phase = "returned" /\ stack # <<>> /\ ~found
    /\ Unassign(Top.dep)
    /\ trace' = trace \cup {Candidate(Top.dep, Top.cand, "downstream")}
    /\ phase' = "choose"
    /\ Moved([Top EXCEPT !.cand = Len(ix[Top.dep])])
    /\ UNCHANGED <<request, tried, found, fail>>

\* The nested call failed: the candidate is taken back and the next one tried.
ResumeFalse ==
    /\ phase = "returned" /\ stack # <<>> /\ ~found
    /\ Unassign(Top.dep)
    /\ trace' = trace \cup {Candidate(Top.dep, Top.cand, "downstream")}
    /\ phase' = "choose"
    /\ UNCHANGED <<request, tried, stack, found, fail>>

-----------------------------------------------------------------------------
Done == phase \in {"succeeded", "failed"} /\ UNCHANGED vars

Step ==
    \/ RootMissing \/ NoVersions \/ CycleFound \/ StartSearch
    \/ TryRoot \/ RootSucceeds \/ RootFails \/ GiveUp
    \/ ScanDone \/ TargetMissing \/ Conflict \/ Demand
    \/ SkipCandidate \/ TakeCandidate \/ Exhausted \/ ResumeTrue \/ ResumeFalse

Next == Step \/ Done

\* Resolve is one call that never waits: it keeps going.
Spec == Init /\ [][Next]_vars /\ WF_vars(Step)

-----------------------------------------------------------------------------
(* What the search must get right. *)

Frame == [snap : Seq(Artifact), at : Nat, dep : Artifact \cup {0},
          cand : 0 .. MaxVersions, hit : BOOLEAN]

\* What the trace says of the candidates, and a Diagnostic.
Remarks == [artifact : Artifact, version : 1 .. MaxVersions, verdict : Verdicts]

Diagnoses == [type : {"", "MISSING", "CONFLICT", "CYCLE"}, message : Messages,
              about : Artifact \cup {0}, candidates : SUBSET Remarks]

TypeOK ==
    /\ IsIndex(ix)
    /\ root \in Artifact
    /\ req \in Rank \cup {NoRequest}
    /\ phase \in Phases
    /\ tried \in 0 .. MaxVersions
    /\ assigned \in Assignment
    /\ Legal(ix, assigned)
    /\ depth \in [Artifact -> Nat]
    /\ order \in Seq(Artifact)
    /\ stack \in Seq(Frame)
    /\ found \in BOOLEAN
    /\ fail \in Diagnoses
    /\ trace \subseteq Remarks

\* The order lists exactly the assigned artifacts, each once; until a call
\* returns true, every call's copy of the order is a prefix of it, each copy one
\* artifact longer than its caller's, that artifact being the caller's candidate.
\* So a failing call leaves behind exactly what it found.
TrailIsExact ==
    /\ \A i, j \in 1 .. Len(order) : order[i] = order[j] => i = j
    /\ Selected(assigned) = {order[i] : i \in 1 .. Len(order)}
    /\ \A k \in 1 .. Len(stack) :
          /\ Len(stack[k].snap) = k
          /\ stack[k].snap = SubSeq(order, 1, k)
    /\ \A k \in 1 .. Len(stack) - 1 :
          /\ order[k + 1] = stack[k].dep
          /\ assigned[stack[k].dep] = stack[k].cand
    /\ ~found => CASE phase \in {"scan", "choose"} -> Len(order) = Len(stack)
                   [] phase = "returned"           -> Len(order) = Len(stack) + 1
                   [] OTHER                        -> order = <<>> /\ stack = <<>>

\* Once a search has returned true nothing is assigned, taken back or refused
\* any more: no caller finds a conflict in what the nested call completed.
FoundIsFinal == [][found => found' /\ UNCHANGED <<assigned, depth, order>>]_vars

\* The depth of a selected artifact is its distance from the root in the graph of
\* the selected versions, at every moment of the search.
DepthIsDistance ==
    \A a \in Selected(assigned) \ {root} :
        LET askers == {b \in Selected(assigned) : a \in Needs(ix, assigned, b)}
        IN  /\ \E b \in askers : depth[a] = depth[b] + 1
            /\ \A b \in askers : depth[a] <= depth[b] + 1

\* A selection that meets every dependency of what it selects.
Viable == {s \in Assignment : Legal(ix, s) /\ Consistent(ix, s)}

Agrees(s, artifacts) == \A a \in artifacts : s[a] = assigned[a]

\* The search gives up nothing that could still succeed: what a call has
\* ruled out, and what a failed call or a failed root candidate has ruled out,
\* is part of no viable selection.
NothingViableIsSkipped ==
    ~found /\ phase \in {"roots", "scan", "choose", "returned"} =>
        \A s \in Viable :
            /\ \A k \in 1 .. Len(stack) :
                  stack[k].dep # 0 /\ Agrees(s, {order[i] : i \in 1 .. k}) =>
                     IF k = Len(stack) /\ phase = "choose"
                     THEN s[stack[k].dep] > stack[k].cand
                     ELSE s[stack[k].dep] >= stack[k].cand
            /\ phase = "returned" => ~Agrees(s, Selected(assigned))
            /\ \A c \in RootCandidates(ix, root, req) :
                  c < tried \/ (c = tried /\ phase = "roots") => s[root] # c

\* Every artifact of the answer has the highest version it can have, given the
\* versions of the artifacts that were assigned before it.
HighestAvailable ==
    phase = "succeeded" =>
        \A k \in 2 .. Len(order), s \in Viable :
            Agrees(s, {order[i] : i \in 1 .. k - 1}) => s[order[k]] >= assigned[order[k]]

\* A failure's list of candidates backs its message: the version that violates a
\* constraint is in it, or every version of the artifact nobody could match; and
\* no candidate of a failure is marked accepted.
DiagnosisIsBacked ==
    phase = "failed" =>
        /\ fail.message = "selected version violates constraint" =>
              \E r \in fail.candidates : r.artifact = fail.about /\ r.verdict = "violates"
        /\ fail.message = "no version satisfies constraint" =>
              \A i \in 1 .. Len(ix[fail.about]) :
                 \E r \in fail.candidates :
                    r.artifact = fail.about /\ r.version = i /\ r.verdict # "accepted"
        /\ \A r \in fail.candidates : r.verdict # "accepted"

\* A call that returns false has always said why, so the two general diagnoses,
\* for a target whose matching versions all fail downstream and for a root none
\* of whose versions works, are never the answer: the more specific one is.
FailureHasAReason ==
    /\ phase = "returned" /\ ~found => fail.type # ""
    /\ fail.message \notin {"all candidate versions lead to downstream conflict",
                            "no version of root satisfies all constraints"}

\* Every call of Resolve ends.
Terminates == <>(phase \in {"succeeded", "failed"})

\* Resolve implements its abstract specification: sound, complete, and the
\* highest root version first.
Abstract == INSTANCE ResolverSpec WITH
    status <- IF phase \in {"succeeded", "failed"} THEN phase ELSE "pending",
    cause  <- IF phase = "failed" THEN fail.type ELSE "",
    chosen <- IF phase = "succeeded" THEN assigned ELSE [a \in Artifact |-> 0]

Implements == Abstract!Spec
=============================================================================
