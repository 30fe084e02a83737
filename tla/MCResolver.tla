----------------------------- MODULE MCResolver -----------------------------
(***************************************************************************)
(* Catalogues for model-checking Resolver: registration order, small ranks *)
(* and all the shapes that make the search work for its answer.            *)
(***************************************************************************)
EXTENDS Resolver, TLC

NoDeps == <<>>

\* All ways to depend on some of the targets, matching one or more of the ranks.
Depending(targets, matched) == UNION {[T -> matched] : T \in SUBSET targets}

Version(id, rank, deps) == [id |-> id, rank |-> rank, deps |-> deps]

Either == {{1}, {2}, {1, 2}}

\* Artifact 1 depends on 2 and 3, and 2 on 3: every choice of constraints; the
\* lower versions are registered last, so that the sorting matters.
Triangles ==
    {NewIndex((1 :> <<Version(1, 1, d1), Version(2, 2, d2)>>) @@
              (2 :> <<Version(3, 2, e1), Version(4, 1, e2)>>) @@
              (3 :> <<Version(5, 2, NoDeps), Version(6, 1, NoDeps)>>)) :
        d1 \in Depending({2, 3}, {{1}}), d2 \in Depending({2, 3}, Either),
        e1 \in Depending({3}, {{1}, {2}}), e2 \in Depending({3}, {{1}, {2}})}

\* Dependencies back to 1, on itself, or on an artifact outside the index, in one
\* version or the other; a constraint that matches nothing.
Tangles ==
    {NewIndex((1 :> <<Version(1, 2, d1), Version(2, 1, d2)>>) @@
              (2 :> <<Version(3, 2, e1), Version(4, 1, NoDeps)>>)) :
        d1 \in Depending({1, 2, 4}, {{2}}), d2 \in Depending({2}, Either \cup {{}}),
        e1 \in Depending({1, 3, 4}, {{1}})}

\* A diamond over 4 artifacts in which the first choices clash below: 2 and 3 both
\* need 4, and only lower versions of both agree.
Diamonds ==
    {NewIndex((1 :> <<Version(1, 1, (2 :> {1, 2}) @@ (3 :> {1, 2}))>>) @@
              (2 :> <<Version(2, 1, a), Version(3, 2, b)>>) @@
              (3 :> <<Version(4, 1, c), Version(5, 2, d)>>) @@
              (4 :> <<Version(6, 1, NoDeps), Version(7, 2, NoDeps)>>)) :
        a, c \in Depending({4}, {{1}, {2}}), b, d \in Depending({4}, Either)}

\* Two versions that differ in build metadata only, an artifact without versions,
\* and an empty index.
Oddities ==
    {NewIndex((1 :> <<Version(1, 2, 2 :> {1}), Version(2, 2, 2 :> {2})>>) @@
              (2 :> vs)) :
        vs \in {<<>>, <<Version(4, 1, NoDeps)>>, <<Version(4, 2, NoDeps)>>}}
    \cup {NewIndex(1 :> <<>>), NewIndex(2 :> <<>>)}

MCIndexes == Triangles \cup Tangles \cup Diamonds \cup Oddities
=============================================================================
