------------------------- MODULE CycleDetectProofs -------------------------
(***************************************************************************)
(* Correctness of detectCycle for every finite or infinite set of nodes,   *)
(* every set of graphs and every order of the adjacency lists: its answers *)
(* are right in both directions.                                           *)
(***************************************************************************)
EXTENDS CycleDetect, SequenceTheorems, TLAPS

\* What the gray and the black nodes look like while the search runs.
GrayPath ==
    /\ Len(path) > 0
    /\ path[1] = root
    /\ \A n \in Node : color[n] = "gray" => \E i \in 1 .. Len(path) : path[i] = n
    /\ \A i \in 1 .. Len(path) : color[path[i]] = "gray"
    /\ \A i, j \in 1 .. Len(path) : path[i] = path[j] => i = j
    /\ \A i \in 1 .. Len(path) - 1 : path[i + 1] \in Succ[path[i]]
    /\ \A i \in 1 .. Len(path) : path[i] \in Reach(Succ, root)

\* What a call has scanned is black, or is the next node of the path.
Scanned ==
    /\ \A n \in Node : next[n] <= Len(adj[n])
    /\ \A n \in Node : color[n] = "white" => next[n] = 0
    /\ \A i \in 1 .. Len(path) : \A k \in 1 .. next[path[i]] :
          \/ color[adj[path[i]][k]] = "black"
          \/ i < Len(path) /\ k = next[path[i]] /\ adj[path[i]][k] = path[i + 1]

\* The black nodes are closed under succession and hold no knot.
Black == {n \in Node : color[n] = "black"}
BlackDone == Closed(Succ, Black) /\ \A S \in SUBSET Black : ~Knot(Succ, S)

\* Only artifacts of the index have a list.
ListsOfKnown == \A n \in Node \ known : adj[n] = <<>>

IInv ==
    /\ TypeOK
    /\ ListsOfKnown
    /\ result = "searching" => GrayPath /\ Scanned /\ BlackDone
    /\ CycleIsReal
    /\ result = "none" => root \in Black /\ BlackDone

-----------------------------------------------------------------------------
\* Successors of reachable nodes are reachable.
LEMMA ReachStep ==
    ASSUME NEW succ, NEW r, \A n \in DOMAIN succ : succ[n] \subseteq DOMAIN succ,
           NEW m \in Reach(succ, r), NEW n \in succ[m]
    PROVE  n \in Reach(succ, r)
  <1>1. m \in DOMAIN succ BY DEF Reach
  <1>2. n \in DOMAIN succ BY <1>1
  <1>3. ASSUME NEW S \in SUBSET DOMAIN succ, r \in S /\ Closed(succ, S)
        PROVE  n \in S
    BY <1>3 DEF Reach, Closed
  <1> QED BY <1>2, <1>3 DEF Reach

\* The start is reachable.
LEMMA ReachStart ==
    ASSUME NEW succ, NEW r \in DOMAIN succ PROVE r \in Reach(succ, r)
  BY DEF Reach

\* A knot that gains no member but one whose successors are all old ones was there before.
LEMMA NoKnotGrows ==
    ASSUME NEW succ, NEW B, NEW x, x \notin B, Closed(succ, B), succ[x] \subseteq B,
           \A S \in SUBSET B : ~Knot(succ, S)
    PROVE  \A S \in SUBSET (B \cup {x}) : ~Knot(succ, S)
  <1> SUFFICES ASSUME NEW S \in SUBSET (B \cup {x}), Knot(succ, S) PROVE FALSE
    OBVIOUS
  <1> DEFINE T == S \ {x}
  <1>1. T \in SUBSET B OBVIOUS
  <1>2. \A n \in S : succ[n] \subseteq B BY DEF Closed
  <1>3. \A n \in S : succ[n] \cap T # {} BY <1>2 DEF Knot
  <1>4. T # {} BY <1>3 DEF Knot
  <1>5. Knot(succ, T) BY <1>3, <1>4 DEF Knot
  <1> QED BY <1>1, <1>5

-----------------------------------------------------------------------------
\* Succ is a function on Node whose values are sets of nodes.
LEMMA SuccType ==
    ASSUME TypeOK
    PROVE  /\ DOMAIN Succ = Node
           /\ \A n \in Node : Succ[n] \subseteq Node
           /\ \A n \in Node : \A k \in 1 .. Len(adj[n]) : adj[n][k] \in Succ[n]
  <1>1. DOMAIN Succ = Node BY DEF Succ
  <1>2. ASSUME NEW n \in Node
        PROVE  /\ Succ[n] \subseteq Node
               /\ \A k \in 1 .. Len(adj[n]) : adj[n][k] \in Succ[n]
    <2>1. Succ[n] = {adj[n][i] : i \in 1 .. Len(adj[n])} BY DEF Succ
    <2>2. adj[n] \in Seq(Node) BY DEF TypeOK
    <2>3. \A k \in 1 .. Len(adj[n]) : adj[n][k] \in Node BY <2>2
    <2> QED BY <2>1, <2>3
  <1> QED BY <1>1, <1>2

LEMMA InitIInv == Init => IInv
  <1> SUFFICES ASSUME Init PROVE IInv
    OBVIOUS
  <1> USE GraphsAssumption
  <1>1. TypeOK BY DEF Init, TypeOK
  <1>2. root \in Reach(Succ, root) BY <1>1, SuccType, ReachStart DEF TypeOK
  <1>3. GrayPath BY <1>2 DEF Init, GrayPath
  <1>4. Scanned BY <1>1 DEF Init, Scanned, TypeOK
  <1>5. BlackDone BY DEF Init, BlackDone, Black, Closed, Knot
  <1>6. CycleIsReal BY DEF Init, CycleIsReal
  <1>7. ListsOfKnown BY DEF Init, ListsOfKnown
  <1> QED BY <1>1, <1>3, <1>4, <1>5, <1>6, <1>7 DEF IInv, Init

\* The call at the end of the path, and the successor it looks at.
LEMMA TopFacts ==
    ASSUME IInv, result = "searching"
    PROVE  /\ Len(path) \in Nat \ {0}
           /\ Top \in Node
           /\ color[Top] = "gray"
           /\ Top \in Reach(Succ, root)
           /\ next[Top] \in Nat
           /\ next[Top] <= Len(adj[Top])
           /\ next[Top] < Len(adj[Top]) =>
                 /\ Scan \in Node
                 /\ Scan \in Succ[Top]
                 /\ Scan \in Reach(Succ, root)
  <1>1. TypeOK /\ GrayPath /\ Scanned BY DEF IInv
  <1>2. Len(path) \in Nat \ {0} /\ Top \in Node BY <1>1 DEF TypeOK, GrayPath, Top
  <1>3. color[Top] = "gray" /\ Top \in Reach(Succ, root) BY <1>1, <1>2 DEF GrayPath, Top
  <1>4. next[Top] \in Nat /\ next[Top] <= Len(adj[Top]) BY <1>1, <1>2 DEF TypeOK, Scanned
  <1>5. ASSUME next[Top] < Len(adj[Top])
        PROVE  Scan \in Node /\ Scan \in Succ[Top] /\ Scan \in Reach(Succ, root)
    <2>1. adj[Top] \in Seq(Node) BY <1>1, <1>2 DEF TypeOK
    <2>2. next[Top] + 1 \in 1 .. Len(adj[Top]) BY <1>4, <1>5, <2>1
    <2>3. Scan \in Succ[Top] BY <1>1, <1>2, <2>2, SuccType DEF Scan
    <2> QED BY <1>1, <1>2, <1>3, <2>3, SuccType, ReachStep
  <1> QED BY <1>2, <1>3, <1>4, <1>5

\* The lists are not touched.
LEMMA KeepsLists == IInv /\ UNCHANGED <<known, adj>> => ListsOfKnown'
  BY DEF IInv, ListsOfKnown

-----------------------------------------------------------------------------
\* A back edge closes a walk along the path from the first place of the gray node.
LEMMA BackEdgeIInv == IInv /\ BackEdge => IInv'
  <1> SUFFICES ASSUME IInv, BackEdge PROVE IInv'
    OBVIOUS
  <1>1. result = "searching" /\ next[Top] < Len(adj[Top]) /\ color[Scan] = "gray"
    BY DEF BackEdge, MoreToScan
  <1>2. TypeOK /\ GrayPath BY <1>1 DEF IInv
  <1>3. Scan \in Node /\ Scan \in Succ[Top] /\ Scan \in Reach(Succ, root)
    BY <1>1, TopFacts
  <1>4. Succ' = Succ /\ root' = root /\ adj' = adj BY DEF BackEdge, Succ
  <1> DEFINE f == FirstOnPath(Scan)
             n == Len(path)
             tail == SubSeq(path, f, n)
  <1>5. n \in Nat \ {0} /\ \A i \in 1 .. n : path[i] \in Node
    BY <1>2 DEF TypeOK, GrayPath
  <1>6. PICK k \in 1 .. n : path[k] = Scan BY <1>1, <1>2, <1>3 DEF GrayPath
  <1>7. k = f
    <2>1. \A j \in 1 .. n : path[j] = Scan => k = j BY <1>2, <1>6 DEF GrayPath
    <2>2. k \in 1 .. n /\ path[k] = Scan /\ \A j \in 1 .. n : path[j] = Scan => k <= j
      BY <1>6, <2>1
    <2> QED BY <1>6, <2>1, <2>2 DEF FirstOnPath
  <1>8. f \in 1 .. n /\ path[f] = Scan BY <1>6, <1>7
  <1>9. /\ tail \in Seq(Node)
        /\ Len(tail) = n - f + 1
        /\ \A i \in 1 .. n - f + 1 : tail[i] = path[f + i - 1]
    <2>1. \A i \in f .. n : path[i] \in Node BY <1>5, <1>8
    <2>2. f \in Int /\ n \in Int /\ f <= n BY <1>5, <1>8
    <2> HIDE DEF f, n
    <2>3. /\ SubSeq(path, f, n) \in Seq(Node)
          /\ Len(SubSeq(path, f, n)) = IF f <= n THEN n - f + 1 ELSE 0
          /\ \A i \in 1 .. n - f + 1 : SubSeq(path, f, n)[i] = path[f + i - 1]
      BY <2>1, <2>2, SubSeqProperties
    <2> QED BY <2>2, <2>3
  <1>10. cycle' = Append(tail, Scan) BY DEF BackEdge
  <1> HIDE DEF tail, f
  <1>11. /\ cycle' \in Seq(Node)
         /\ Len(cycle') = n - f + 2
         /\ \A i \in 1 .. n - f + 1 : cycle'[i] = path[f + i - 1]
         /\ cycle'[n - f + 2] = Scan
    <2>1. /\ Append(tail, Scan) \in Seq(Node)
          /\ Len(Append(tail, Scan)) = Len(tail) + 1
          /\ \A i \in 1 .. Len(tail) : Append(tail, Scan)[i] = tail[i]
          /\ Append(tail, Scan)[Len(tail) + 1] = Scan
      BY <1>3, <1>9, AppendProperties
    <2>2. f \in Nat /\ n \in Nat /\ f <= n BY <1>5, <1>8
    <2> HIDE DEF n
    <2>3. Len(tail) + 1 = n - f + 2 BY <1>9, <2>2
    <2>4. \A i \in 1 .. n - f + 1 : cycle'[i] = path[f + i - 1] BY <1>9, <1>10, <2>1
    <2> QED BY <1>10, <2>1, <2>3, <2>4
  <1>12. cycle'[1] = Scan /\ Len(cycle') > 1
    <2>1. f \in Nat /\ n \in Nat /\ 1 <= f /\ f <= n BY <1>5, <1>8
    <2> HIDE DEF n
    <2>2. 1 \in 1 .. n - f + 1 /\ f + 1 - 1 = f /\ n - f + 2 > 1 BY <2>1
    <2> QED BY <1>8, <1>11, <2>2
  <1>13. ASSUME NEW i \in 1 .. Len(cycle') - 1
         PROVE  cycle'[i + 1] \in Succ[cycle'[i]]
    <2>1. i \in 1 .. n - f + 1 /\ cycle'[i] = path[f + i - 1] BY <1>5, <1>8, <1>11
    <2>2. CASE i = n - f + 1
      <3>1. cycle'[i] = Top /\ cycle'[i + 1] = Scan
        BY <1>5, <1>8, <1>11, <2>1, <2>2 DEF Top
      <3> QED BY <1>3, <3>1
    <2>3. CASE i < n - f + 1
      <3>1. i + 1 \in 1 .. n - f + 1 /\ f + i - 1 \in 1 .. n - 1 BY <1>5, <1>8, <2>1, <2>3
      <3>2. cycle'[i + 1] = path[f + (i + 1) - 1] BY <1>11, <3>1
      <3>3. f + (i + 1) - 1 = (f + i - 1) + 1 BY <1>5, <1>8, <2>1
      <3> QED BY <1>2, <2>1, <3>1, <3>2, <3>3 DEF GrayPath
    <2> QED BY <1>5, <1>8, <2>1, <2>2, <2>3
  <1>14. CycleIsReal' BY <1>3, <1>4, <1>5, <1>8, <1>11, <1>12, <1>13 DEF CycleIsReal
  <1>15. TypeOK'
    <2>1. path' = <<>> /\ path' \in Seq(Node) BY DEF BackEdge
    <2> QED BY <1>2, <1>11, <2>1 DEF TypeOK, BackEdge
  <1>16. ListsOfKnown' BY KeepsLists DEF BackEdge
  <1> QED BY <1>14, <1>15, <1>16 DEF IInv, BackEdge

\* A visit lengthens the path by a node whose call has scanned nothing yet.
LEMMA DescendIInv == IInv /\ Descend => IInv'
  <1> SUFFICES ASSUME IInv, Descend PROVE IInv'
    OBVIOUS
  <1>1. result = "searching" /\ next[Top] < Len(adj[Top]) /\ color[Scan] = "white"
    BY DEF Descend, MoreToScan
  <1>2. TypeOK /\ GrayPath /\ Scanned /\ BlackDone BY <1>1 DEF IInv
  <1>3. Scan \in Node /\ Scan \in Succ[Top] /\ Scan \in Reach(Succ, root) /\ Top \in Node
        /\ next[Top] \in Nat /\ color[Top] = "gray" /\ Len(path) \in Nat \ {0}
    BY <1>1, TopFacts
  <1>4. Succ' = Succ /\ root' = root /\ adj' = adj /\ result' = result
    BY DEF Descend, Succ
  <1>5. \A n \in Node : /\ color'[n] = IF n = Scan THEN "gray" ELSE color[n]
                        /\ next'[n] = IF n = Top THEN next[Top] + 1 ELSE next[n]
                        /\ next[n] \in Nat
    BY <1>2, <1>3 DEF Descend, TypeOK
  <1>5a. path \in Seq(Node) /\ \A i \in 1 .. Len(path) : path[i] \in Node
    BY <1>2 DEF TypeOK
  <1>5b. path' = Append(path, Scan) BY DEF Descend
  <1>6. /\ path' \in Seq(Node)
        /\ Len(path') = Len(path) + 1
        /\ \A i \in 1 .. Len(path) : path'[i] = path[i]
        /\ path'[Len(path) + 1] = Scan
    BY <1>3, <1>5a, <1>5b, AppendProperties
  <1>7. TypeOK'
    <2>1. color' \in [Node -> {"white", "gray", "black"}] BY <1>2 DEF TypeOK, Descend
    <2>2. next' \in [Node -> Nat] BY <1>2, <1>3 DEF TypeOK, Descend
    <2> QED BY <1>1, <1>2, <1>6, <2>1, <2>2 DEF TypeOK, Descend
  <1>8. \A i \in 1 .. Len(path) : path[i] # Scan BY <1>1, <1>2 DEF GrayPath
  <1>9. path[Len(path)] = Top BY DEF Top
  <1>10. GrayPath'
    <2>1. Len(path') > 0 /\ path'[1] = root BY <1>2, <1>3, <1>6 DEF GrayPath
    <2>2. \A n \in Node : color'[n] = "gray" => \E i \in 1 .. Len(path') : path'[i] = n
      <3> SUFFICES ASSUME NEW n \in Node, color'[n] = "gray"
                   PROVE  \E i \in 1 .. Len(path') : path'[i] = n
        OBVIOUS
      <3>1. CASE n = Scan BY <1>3, <1>6, <3>1
      <3>2. CASE n # Scan
        <4>1. PICK i \in 1 .. Len(path) : path[i] = n BY <1>2, <1>5, <3>2 DEF GrayPath
        <4> QED BY <1>3, <1>6, <4>1
      <3> QED BY <3>1, <3>2
    <2>3. \A i \in 1 .. Len(path') : color'[path'[i]] = "gray"
      <3> SUFFICES ASSUME NEW i \in 1 .. Len(path') PROVE color'[path'[i]] = "gray"
        OBVIOUS
      <3>1. CASE i = Len(path) + 1 BY <1>3, <1>5, <1>6, <3>1
      <3>2. CASE i \in 1 .. Len(path) BY <1>2, <1>5, <1>5a, <1>6, <3>2 DEF GrayPath
      <3> QED BY <1>3, <1>6, <3>1, <3>2
    <2>4. \A i, j \in 1 .. Len(path') : path'[i] = path'[j] => i = j
      BY <1>2, <1>3, <1>6, <1>8 DEF GrayPath
    <2>5. \A i \in 1 .. Len(path') - 1 : path'[i + 1] \in Succ[path'[i]]
      <3> SUFFICES ASSUME NEW i \in 1 .. Len(path') - 1
                   PROVE  path'[i + 1] \in Succ[path'[i]]
        OBVIOUS
      <3>1. CASE i = Len(path) BY <1>3, <1>6, <1>9, <3>1
      <3>2. CASE i < Len(path)
        BY <1>2, <1>3, <1>6, <3>2 DEF GrayPath
      <3> QED BY <1>3, <1>6, <3>1, <3>2
    <2>6. \A i \in 1 .. Len(path') : path'[i] \in Reach(Succ, root)
      BY <1>2, <1>3, <1>6 DEF GrayPath
    <2> QED BY <1>4, <2>1, <2>2, <2>3, <2>4, <2>5, <2>6 DEF GrayPath
  <1>11. Scanned'
    <2>1. ASSUME NEW n \in Node PROVE next'[n] <= Len(adj[n])
      <3>1. Len(adj[n]) \in Nat BY <1>2 DEF TypeOK
      <3>2. CASE n = Top BY <1>1, <1>3, <1>5, <3>1, <3>2
      <3>3. CASE n # Top BY <1>2, <1>5, <3>3 DEF Scanned
      <3> QED BY <3>2, <3>3
    <2>2. \A n \in Node : color'[n] = "white" => next'[n] = 0
      BY <1>2, <1>3, <1>5 DEF Scanned, TypeOK
    <2>3. ASSUME NEW i \in 1 .. Len(path'), NEW k \in 1 .. next'[path'[i]]
          PROVE  \/ color'[adj[path'[i]][k]] = "black"
                 \/ /\ i < Len(path') /\ k = next'[path'[i]]
                    /\ adj[path'[i]][k] = path'[i + 1]
      <3>1. CASE i = Len(path) + 1
        <4>1. path'[i] = Scan /\ Scan # Top BY <1>1, <1>3, <1>6, <3>1
        <4>2. next'[Scan] = 0 BY <1>1, <1>2, <1>3, <1>5, <4>1 DEF Scanned, TypeOK
        <4> QED BY <4>1, <4>2
      <3>2. CASE i = Len(path) /\ k = next[Top] + 1
        <4>1. path'[i] = Top /\ path'[i + 1] = Scan BY <1>3, <1>6, <1>9, <3>2
        <4>2. next'[Top] = next[Top] + 1 BY <1>2, <1>3, <1>5 DEF TypeOK
        <4> QED BY <1>3, <1>6, <3>2, <4>1, <4>2 DEF Scan
      <3>3. CASE i \in 1 .. Len(path) /\ ~(i = Len(path) /\ k = next[Top] + 1)
        <4>1. path'[i] = path[i] /\ path[i] \in Node BY <1>5a, <1>6, <3>3
        <4>2. next'[path[i]] = IF path[i] = Top THEN next[Top] + 1 ELSE next[path[i]]
          BY <1>5, <4>1
        <4>3. path[i] = Top <=> i = Len(path) BY <1>2, <1>3, <1>9, <3>3 DEF GrayPath
        <4>4. next[path[i]] \in Nat BY <1>2, <4>1 DEF TypeOK
        <4>5. k \in 1 .. next[path[i]] BY <1>3, <3>3, <4>1, <4>2, <4>3, <4>4
        <4>6. \/ color[adj[path[i]][k]] = "black"
              \/ i < Len(path) /\ k = next[path[i]] /\ adj[path[i]][k] = path[i + 1]
          BY <1>2, <3>3, <4>5 DEF Scanned
        <4>7. CASE color[adj[path[i]][k]] = "black"
          <5>1. adj[path[i]] \in Seq(Node) /\ next[path[i]] <= Len(adj[path[i]])
            BY <1>2, <4>1 DEF TypeOK, Scanned
          <5>2. adj[path[i]][k] \in Node BY <4>4, <4>5, <5>1
          <5>3. adj[path[i]][k] # Scan BY <1>1, <4>7
          <5> QED BY <1>2, <1>5, <4>1, <4>7, <5>2, <5>3 DEF TypeOK
        <4>8. CASE i < Len(path) /\ k = next[path[i]] /\ adj[path[i]][k] = path[i + 1]
          BY <1>3, <1>6, <4>1, <4>2, <4>3, <4>8
        <4> QED BY <4>6, <4>7, <4>8
      <3> QED BY <1>3, <1>6, <3>1, <3>2, <3>3
    <2> QED BY <1>4, <2>1, <2>2, <2>3 DEF Scanned
  <1>12. BlackDone'
    <2>1. Black' = Black BY <1>1, <1>2, <1>3, <1>5 DEF Black, TypeOK
    <2> QED BY <1>2, <1>4, <2>1 DEF BlackDone
  <1>13. CycleIsReal' BY <1>1, <1>4 DEF CycleIsReal
  <1>14. ListsOfKnown' BY KeepsLists DEF Descend
  <1> QED BY <1>1, <1>4, <1>7, <1>10, <1>11, <1>12, <1>13, <1>14 DEF IInv

\* Passing over a black successor only counts it as scanned.
LEMMA PassOverIInv == IInv /\ PassOver => IInv'
  <1> SUFFICES ASSUME IInv, PassOver PROVE IInv'
    OBVIOUS
  <1>1. result = "searching" /\ next[Top] < Len(adj[Top]) /\ color[Scan] = "black"
    BY DEF PassOver, MoreToScan
  <1>2. TypeOK /\ GrayPath /\ Scanned /\ BlackDone BY <1>1 DEF IInv
  <1>3. Top \in Node /\ next[Top] \in Nat /\ color[Top] = "gray" /\ Len(path) \in Nat \ {0}
    BY <1>1, TopFacts
  <1>4. Succ' = Succ /\ root' = root /\ adj' = adj /\ result' = result
        /\ path' = path /\ color' = color
    BY DEF PassOver, Succ
  <1>5. \A n \in Node : /\ next'[n] = IF n = Top THEN next[Top] + 1 ELSE next[n]
                        /\ next[n] \in Nat
    BY <1>2, <1>3 DEF PassOver, TypeOK
  <1>6. TypeOK'
    <2>1. next' \in [Node -> Nat] BY <1>2, <1>3 DEF TypeOK, PassOver
    <2> QED BY <1>1, <1>2, <2>1 DEF TypeOK, PassOver
  <1>7. GrayPath' BY <1>2, <1>4 DEF GrayPath
  <1>8. Scanned'
    <2>1. ASSUME NEW n \in Node PROVE next'[n] <= Len(adj[n])
      <3>1. Len(adj[n]) \in Nat BY <1>2 DEF TypeOK
      <3>2. CASE n = Top BY <1>1, <1>3, <1>5, <3>1, <3>2
      <3>3. CASE n # Top BY <1>2, <1>5, <3>3 DEF Scanned
      <3> QED BY <3>2, <3>3
    <2>2. \A n \in Node : color[n] = "white" => next'[n] = 0
      BY <1>2, <1>3, <1>5 DEF Scanned
    <2>3. ASSUME NEW i \in 1 .. Len(path), NEW k \in 1 .. next'[path[i]]
          PROVE  \/ color[adj[path[i]][k]] = "black"
                 \/ i < Len(path) /\ k = next'[path[i]] /\ adj[path[i]][k] = path[i + 1]
      <3>1. path[i] \in Node BY <1>2 DEF TypeOK
      <3>2. CASE path[i] # Top BY <1>2, <1>5, <3>1, <3>2 DEF Scanned
      <3>3. CASE path[i] = Top /\ k = next[Top] + 1 BY <1>1, <3>3 DEF Scan
      <3>4. CASE path[i] = Top /\ k # next[Top] + 1
        <4>1. k \in 1 .. next[path[i]] BY <1>3, <1>5, <3>4
        <4>2. i = Len(path) BY <1>2, <1>3, <3>4 DEF GrayPath, Top
        <4> QED BY <1>2, <1>3, <4>1, <4>2 DEF Scanned
      <3> QED BY <3>2, <3>3, <3>4
    <2> QED BY <1>4, <2>1, <2>2, <2>3 DEF Scanned
  <1>9. BlackDone' BY <1>2, <1>4 DEF BlackDone, Black
  <1>10. CycleIsReal' BY <1>1, <1>4 DEF CycleIsReal
  <1>11. ListsOfKnown' BY KeepsLists DEF PassOver
  <1> QED BY <1>1, <1>4, <1>6, <1>7, <1>8, <1>9, <1>10, <1>11 DEF IInv

\* When every successor of the top node is scanned they are all black, so the
\* node joins the black set without closing a knot.
LEMMA FinishIInv == IInv /\ Finish => IInv'
  <1> SUFFICES ASSUME IInv, Finish PROVE IInv'
    OBVIOUS
  <1>1. result = "searching" /\ next[Top] = Len(adj[Top]) BY DEF Finish
  <1>2. TypeOK /\ GrayPath /\ Scanned /\ BlackDone BY <1>1 DEF IInv
  <1>3. Top \in Node /\ next[Top] \in Nat /\ color[Top] = "gray" /\ Len(path) \in Nat \ {0}
    BY <1>1, TopFacts
  <1>4. Succ' = Succ /\ root' = root /\ adj' = adj /\ next' = next /\ cycle' = cycle
    BY DEF Finish, Succ
  <1>5. \A n \in Node : color'[n] = IF n = Top THEN "black" ELSE color[n]
    BY <1>2, <1>3 DEF Finish, TypeOK
  <1> DEFINE m == Len(path) - 1
  <1>6. m \in Nat /\ path \in Seq(Node) /\ \A i \in 1 .. Len(path) : path[i] \in Node
    BY <1>2, <1>3 DEF TypeOK
  <1>7. path' \in Seq(Node) /\ Len(path') = m /\ \A i \in 1 .. m : path'[i] = path[i]
    <2>1. path' = SubSeq(path, 1, m) BY DEF Finish, Pop
    <2>2. \A i \in 1 .. m : path[i] \in Node BY <1>3, <1>6
    <2> HIDE DEF m
    <2>3. m \in Int /\ m - 1 + 1 = m /\ (1 <= m \/ m = 0) BY <1>6
    <2>4. /\ SubSeq(path, 1, m) \in Seq(Node)
          /\ Len(SubSeq(path, 1, m)) = IF 1 <= m THEN m - 1 + 1 ELSE 0
          /\ \A i \in 1 .. m - 1 + 1 : SubSeq(path, 1, m)[i] = path[1 + i - 1]
      BY <2>2, <2>3, SubSeqProperties
    <2> QED BY <2>1, <2>3, <2>4
  <1>8. Succ[Top] \subseteq Black
    <2> SUFFICES ASSUME NEW x \in Succ[Top] PROVE x \in Black
      OBVIOUS
    <2>1. adj[Top] \in Seq(Node) BY <1>2, <1>3 DEF TypeOK
    <2>2. PICK k \in 1 .. Len(adj[Top]) : x = adj[Top][k] BY <1>3 DEF Succ
    <2>3. Len(path) \in 1 .. Len(path) /\ path[Len(path)] = Top BY <1>3 DEF Top
    <2>4. color[adj[Top][k]] = "black" BY <1>1, <1>2, <1>3, <2>2, <2>3 DEF Scanned
    <2>5. x \in Node BY <2>1, <2>2
    <2> QED BY <2>2, <2>4, <2>5 DEF Black
  <1>9. Black' = Black \cup {Top} BY <1>3, <1>5 DEF Black
  <1>10. BlackDone'
    <2>1. Top \notin Black BY <1>3 DEF Black
    <2>2. Closed(Succ, Black') BY <1>2, <1>8, <1>9 DEF BlackDone, Closed
    <2>3. \A S \in SUBSET (Black \cup {Top}) : ~Knot(Succ, S)
      BY <1>2, <1>8, <2>1, NoKnotGrows DEF BlackDone
    <2> QED BY <1>4, <1>9, <2>2, <2>3 DEF BlackDone
  <1>11. CycleIsReal' BY <1>1 DEF CycleIsReal, Finish
  <1>11a. ListsOfKnown' BY KeepsLists DEF Finish
  <1>12. CASE Len(path) = 1
    <2>1. root = Top BY <1>2, <1>12 DEF GrayPath, Top
    <2>2. result' = "none" BY <1>12 DEF Finish
    <2>3. path' = <<>> BY <1>7, <1>12, EmptySeq
    <2>4. color' \in [Node -> {"white", "gray", "black"}] BY <1>2 DEF TypeOK, Finish
    <2>5. TypeOK' BY <1>2, <1>7, <2>2, <2>3, <2>4 DEF TypeOK, Finish
    <2> QED BY <1>4, <1>9, <1>10, <1>11, <1>11a, <2>1, <2>2, <2>5 DEF IInv
  <1>13. CASE Len(path) # 1
    <2>0. m > 0
      <3>1. Len(path) \in Nat /\ Len(path) # 0 /\ Len(path) # 1 BY <1>3, <1>13
      <3> QED BY ONLY <3>1
    <2>1. result' = "searching" /\ m > 0 BY <1>13, <2>0 DEF Finish
    <2>2. color' \in [Node -> {"white", "gray", "black"}] BY <1>2 DEF TypeOK, Finish
    <2>3. TypeOK' BY <1>2, <1>7, <2>1, <2>2 DEF TypeOK, Finish
    <2>4. \A i \in 1 .. Len(path) : path[i] = Top <=> i = Len(path)
      BY <1>2, <1>3 DEF GrayPath, Top
    <2>5. GrayPath'
      <3>1. Len(path') > 0 /\ path'[1] = root BY <1>2, <1>6, <1>7, <2>1 DEF GrayPath
      <3>2. ASSUME NEW n \in Node, color'[n] = "gray"
            PROVE  \E i \in 1 .. Len(path') : path'[i] = n
        <4>1. n # Top /\ color[n] = "gray" BY <1>5, <3>2
        <4>2. PICK i \in 1 .. Len(path) : path[i] = n BY <1>2, <4>1 DEF GrayPath
        <4>3. i \in 1 .. m BY <1>3, <2>4, <4>1, <4>2
        <4> QED BY <1>7, <4>2, <4>3
      <3>3. ASSUME NEW i \in 1 .. Len(path') PROVE color'[path'[i]] = "gray"
        <4>1. i \in 1 .. Len(path) /\ i # Len(path) /\ path'[i] = path[i] BY <1>6, <1>7
        <4> QED BY <1>2, <1>5, <1>6, <2>4, <4>1 DEF GrayPath
      <3>4. \A i, j \in 1 .. Len(path') : path'[i] = path'[j] => i = j
        BY <1>2, <1>6, <1>7 DEF GrayPath
      <3>5. ASSUME NEW i \in 1 .. Len(path') - 1 PROVE path'[i + 1] \in Succ[path'[i]]
        <4>1. i \in 1 .. m /\ i + 1 \in 1 .. m /\ i \in 1 .. Len(path) - 1 BY <1>6, <1>7
        <4> QED BY <1>2, <1>7, <4>1 DEF GrayPath
      <3>6. \A i \in 1 .. Len(path') : path'[i] \in Reach(Succ, root)
        BY <1>2, <1>6, <1>7 DEF GrayPath
      <3> QED BY <1>4, <3>1, <3>2, <3>3, <3>4, <3>5, <3>6 DEF GrayPath
    <2>6. Scanned'
      <3>1. \A n \in Node : color'[n] = "white" => next[n] = 0
        BY <1>2, <1>5 DEF Scanned
      <3>2. ASSUME NEW i \in 1 .. Len(path'), NEW k \in 1 .. next[path'[i]]
            PROVE  \/ color'[adj[path'[i]][k]] = "black"
                   \/ /\ i < Len(path') /\ k = next[path'[i]]
                      /\ adj[path'[i]][k] = path'[i + 1]
        <4>1. i \in 1 .. Len(path) /\ i < Len(path) /\ path'[i] = path[i] BY <1>6, <1>7
        <4>2. adj[path[i]] \in Seq(Node) /\ next[path[i]] <= Len(adj[path[i]])
              /\ next[path[i]] \in Nat
          BY <1>2, <1>6, <4>1 DEF TypeOK, Scanned
        <4>3. adj[path[i]][k] \in Node BY <4>1, <4>2
        <4>4. \/ color[adj[path[i]][k]] = "black"
              \/ k = next[path[i]] /\ adj[path[i]][k] = path[i + 1]
          BY <1>2, <4>1 DEF Scanned
        <4>5. CASE color[adj[path[i]][k]] = "black" BY <1>5, <4>1, <4>3, <4>5
        <4>6. CASE k = next[path[i]] /\ adj[path[i]][k] = path[i + 1]
          <5>1. CASE i + 1 = Len(path)
            <6>1. path[i + 1] = Top BY <5>1 DEF Top
            <6> QED BY <1>3, <1>5, <4>1, <4>6, <6>1
          <5>2. CASE i + 1 # Len(path)
            <6>1. i + 1 \in 1 .. m BY <1>6, <4>1, <5>2
            <6> QED BY <1>6, <1>7, <4>1, <4>6, <6>1
          <5> QED BY <5>1, <5>2
        <4> QED BY <4>4, <4>5, <4>6
      <3> QED BY <1>2, <1>4, <3>1, <3>2 DEF Scanned
    <2> QED BY <1>10, <1>11, <1>11a, <2>1, <2>3, <2>5, <2>6 DEF IInv
  <1> QED BY <1>12, <1>13

LEMMA NextIInv == IInv /\ [Next]_vars => IInv'
  <1> SUFFICES ASSUME IInv, [Next]_vars PROVE IInv'
    OBVIOUS
  <1>1. CASE BackEdge BY <1>1, BackEdgeIInv
  <1>2. CASE Descend BY <1>2, DescendIInv
  <1>3. CASE PassOver BY <1>3, PassOverIInv
  <1>4. CASE Finish BY <1>4, FinishIInv
  <1>5. CASE UNCHANGED vars
    <2>1. /\ TypeOK' = TypeOK /\ GrayPath' = GrayPath /\ Scanned' = Scanned
          /\ BlackDone' = BlackDone /\ CycleIsReal' = CycleIsReal
          /\ Black' = Black /\ result' = result /\ root' = root
          /\ ListsOfKnown' = ListsOfKnown
      BY <1>5 DEF vars, ListsOfKnown, TypeOK, GrayPath, Scanned, BlackDone, Black, CycleIsReal, Succ
    <2> QED BY <2>1 DEF IInv
  <1> QED BY <1>1, <1>2, <1>3, <1>4, <1>5 DEF Next, Step, Done

\* The inductive invariant holds in every state of detectCycle.
THEOREM SearchInvariant == Spec => []IInv
  <1> QED BY InitIInv, NextIInv, PTL DEF Spec

\* Every variable keeps its type, and the recursion has unwound when a result is out.
THEOREM TypeCorrect == Spec => []TypeOK
  <1>1. IInv => TypeOK BY DEF IInv
  <1> QED BY <1>1, SearchInvariant, PTL

\* The colours and the recursion agree: gray is exactly "on the path", and the
\* path is a walk from the root.
THEOREM GrayIsThePath == Spec => []PathIsGray
  <1>1. IInv => PathIsGray BY DEF IInv, PathIsGray, GrayPath, TypeOK
  <1> QED BY <1>1, SearchInvariant, PTL

\* A CYCLE verdict always carries a real closed walk reachable from the root.
THEOREM CycleSound == Spec => []CycleIsReal
  <1>1. IInv => CycleIsReal BY DEF IInv
  <1> QED BY <1>1, SearchInvariant, PTL

\* No cycle reachable from the root is ever missed.
THEOREM CycleComplete == Spec => []NoneIsAcyclic
  <1>1. ASSUME IInv, result = "none" PROVE ~HasCycle(Succ, root)
    <2>1. root \in Black /\ BlackDone /\ TypeOK BY <1>1 DEF IInv
    <2>2. Black \in SUBSET DOMAIN Succ BY <2>1, SuccType DEF Black
    <2>3. Reach(Succ, root) \subseteq Black BY <2>1, <2>2 DEF Reach, BlackDone
    <2> QED BY <2>1, <2>3 DEF HasCycle, BlackDone
  <1>2. IInv => NoneIsAcyclic BY <1>1 DEF NoneIsAcyclic
  <1> QED BY <1>2, SearchInvariant, PTL

\* Every place of a reported cycle has a name: its artifacts have dependencies, and only
\* those of the index do.
THEOREM NamesTheCycle == Spec => []NamesAreTheCycle
  <1>1. ASSUME IInv, result = "cycle", NEW i \in 1 .. Len(cycle)
        PROVE  cycle[i] \in known
    <2>1. /\ cycle \in Seq(Node) /\ Len(cycle) > 1 /\ cycle[1] = cycle[Len(cycle)]
          /\ \A k \in 1 .. Len(cycle) - 1 : cycle[k + 1] \in Succ[cycle[k]]
      BY <1>1 DEF IInv, TypeOK, CycleIsReal
    <2>2. PICK k \in 1 .. Len(cycle) - 1 : cycle[k] = cycle[i] BY <1>1, <2>1
    <2>3. cycle[k] \in Node /\ cycle[k + 1] \in Succ[cycle[k]]
      <3>1. Len(cycle) \in Nat BY <2>1
      <3>2. k \in 1 .. Len(cycle) BY <3>1
      <3>3. cycle[k] \in Node BY <2>1, <3>2
      <3> QED BY <2>1, <3>3
    <2>4. PICK m \in 1 .. Len(adj[cycle[k]]) : cycle[k + 1] = adj[cycle[k]][m]
      BY <2>3 DEF Succ
    <2>5. adj[cycle[k]] # <<>> BY <2>4
    <2> QED BY <1>1, <2>2, <2>3, <2>5 DEF IInv, ListsOfKnown
  <1>2. IInv => NamesAreTheCycle BY <1>1 DEF NamesAreTheCycle, Named
  <1> QED BY <1>2, SearchInvariant, PTL

=============================================================================
