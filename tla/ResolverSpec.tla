---------------------------- MODULE ResolverSpec ----------------------------
(***************************************************************************)
(* What one call of resolver.Resolve promises its caller, without saying   *)
(* how it searches: one answer, either a selection that satisfies every    *)
(* constraint, for the highest root version that has one, or a failure     *)
(* with the kind of its diagnosis.                                         *)
(***************************************************************************)
EXTENDS Catalogue

CONSTANTS Indexes,    \* the indexes a call may be given
          Roots       \* the root artifacts a call may name

VARIABLES ix, root, req,
          status,     \* "pending", then "succeeded" or "failed"
          cause,      \* Diagnostic.Type: "", "MISSING", "CYCLE" or "CONFLICT"
          chosen      \* the selection of a successful call, nothing selected before

specVars == <<ix, root, req, status, cause, chosen>>

Nothing == [a \in Artifact |-> 0]

Init ==
    /\ ix \in Indexes
    /\ root \in Roots
    /\ req \in Rank \cup {NoRequest}
    /\ status = "pending"
    /\ cause = ""
    /\ chosen = Nothing

HasVersions == root \in DOMAIN ix /\ Len(ix[root]) > 0

Solvable == {c \in RootCandidates(ix, root, req) : Solutions(ix, root, c) # {}}

Succeed ==
    /\ status = "pending"
    /\ HasVersions /\ ~HasCycle(UnionSucc(ix), root)
    /\ \E c \in Solvable :
          /\ \A b \in Solvable : c <= b
          /\ chosen' \in Solutions(ix, root, c)
    /\ status' = "succeeded"
    /\ cause' = ""
    /\ UNCHANGED <<ix, root, req>>

Refuse(kind) ==
    /\ status = "pending"
    /\ status' = "failed"
    /\ cause' = kind
    /\ UNCHANGED <<ix, root, req, chosen>>

FailMissing == ~HasVersions /\ Refuse("MISSING")

FailCycle == HasVersions /\ HasCycle(UnionSucc(ix), root) /\ Refuse("CYCLE")

FailUnsolvable ==
    /\ HasVersions /\ ~HasCycle(UnionSucc(ix), root)
    /\ Solvable = {}
    /\ \E kind \in {"MISSING", "CONFLICT"} : Refuse(kind)

Answer == Succeed \/ FailMissing \/ FailCycle \/ FailUnsolvable

Spec == Init /\ [][Answer]_specVars /\ WF_specVars(Answer)
=============================================================================
