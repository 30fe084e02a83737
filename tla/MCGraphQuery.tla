---------------------------- MODULE MCGraphQuery ----------------------------
(* Graphs over 4 artifacts, cyclic ones too; artifact 4 may be outside the index. *)
EXTENDS GraphQuery, TLC

MCIndexes ==
    {(1 :> d1) @@ (2 :> d2) @@ (3 :> d3) @@ d4 :
        d1, d3 \in SUBSET {2, 3, 4}, d2 \in SUBSET {1, 3, 4},
        d4 \in {<<>>, 4 :> {}, 4 :> {2}, 4 :> {1, 3, 4}}}
=============================================================================
