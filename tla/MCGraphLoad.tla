---------------------------- MODULE MCGraphLoad ----------------------------
(* Three artifacts with up to two versions, two of them or all registered at the start; the
   third can be registered, and depended on, while the request runs. *)
EXTENDS GraphLoad, TLC

Version(i, a, r) == [id |-> i, artifact |-> a, rank |-> r]

\* 1 needs 2, whose later version needs 3 or is the only one 1 accepts; 3 is leaf or absent.
MCSeeds ==
    {[artifacts |-> {1, 2}, versions |-> {Version(1, 1, 1), Version(2, 2, 1), Version(3, 2, 2)},
      deps |-> (1 :> d) @@ (2 :> <<>>) @@ (3 :> <<>>)] : d \in {2 :> {1, 2}, 2 :> {2}}}
    \cup {[artifacts |-> {1, 2, 3},
           versions |-> {Version(1, 3, 1), Version(2, 2, 1), Version(3, 1, 1), Version(4, 1, 2)},
           deps |-> (1 :> <<>>) @@ (2 :> (3 :> {1})) @@ (3 :> (2 :> {1})) @@ (4 :> d)] :
              d \in {3 :> {2}, (2 :> {1}) @@ (3 :> {1})}}

MCChoices == {<<>>, 3 :> {1}, 3 :> {1, 2}, 1 :> {1, 2}, (2 :> {1, 2}) @@ (3 :> {2})}

MCRequests ==
    [kind : {"readiness"}, artifact : {1, 3}, rank : {0, 1, 2}, asked : {<<>>}]
    \cup [kind : {"diff"}, artifact : {1, 2}, rank : {0}, asked : {<<1, 2>>, <<1, 1>>}]
    \cup [kind : {"direct"}, artifact : {1, 3}, rank : {0}, asked : {<<1>>}]
=============================================================================
