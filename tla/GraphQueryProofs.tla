-------------------------- MODULE GraphQueryProofs --------------------------
(***************************************************************************)
(* What collectGraph lists, on every graph of at most 2^20 artifacts,      *)
(* cyclic or not, with and without a depth.                                *)
(***************************************************************************)
EXTENDS GraphQuery, FiniteSetTheorems, SequenceTheorems, TLAPS

Frame == [of : Artifact, last : Artifact \cup {0}]
Entry == [from : Artifact, to : Artifact, depth : Nat \ {0}]

\* The calls are those of different artifacts, all of them visited.
Calls ==
    /\ stack \in Seq(Frame)
    /\ visited \subseteq DOMAIN deps /\ root \in visited
    /\ \A k \in 1 .. Len(stack) : stack[k].of \in visited
    /\ \A k, l \in 1 .. Len(stack) : stack[k].of = stack[l].of => k = l

\* A call has listed nothing beyond the target where it is.
Listed ==
    /\ out \in Seq(Entry)
    /\ \A e \in Entries : e.from \in visited /\ e.to \in deps[e.from] /\ e.depth <= Limit
    /\ \A k \in 1 .. Len(stack), e \in Entries : e.from = stack[k].of => e.to <= stack[k].last

\* A call is that of the root, or of a target its caller has listed.
Called ==
    \A k \in 1 .. Len(stack) :
        IF k = 1 THEN stack[k].of = root
        ELSE \E f \in Entries : f.to = stack[k].of /\ f.depth = k - 1

\* What is not listed yet will be, by a call that is still running.
IsListed(a, t) == \E e \in Entries : e.from = a /\ e.to = t
NothingLost ==
    /\ visited \subseteq Reach(Succ, root)
    /\ \A e \in Entries : e.to \in DOMAIN deps => e.to \in visited
    /\ asked = 0 => \A a \in visited, t \in Artifact :
          t \in deps[a] => \/ IsListed(a, t)
                           \/ \E k \in 1 .. Len(stack) : stack[k].of = a /\ t > stack[k].last

Inputs == deps \in Indexes /\ root \in DOMAIN deps /\ asked \in Depths

IInv == Inputs /\ Calls /\ Listed /\ Called /\ NothingLost /\ ListedOnce /\ DepthIsAPath

-----------------------------------------------------------------------------
(* Lemmas. *)

LEMMA InputTypes ==
    ASSUME Inputs
    PROVE  /\ DOMAIN deps \subseteq Artifact /\ Artifact \subseteq Nat \ {0} /\ root \in Artifact
           /\ \A a \in DOMAIN deps : deps[a] \subseteq Artifact
           /\ DOMAIN Succ = Artifact
           /\ \A a \in Artifact : Succ[a] \subseteq Artifact
           /\ \A a \in DOMAIN deps : Succ[a] = deps[a]
  BY GraphQueryAssumption DEF Inputs, Succ

LEMMA LimitIsNat == ASSUME Inputs PROVE Limit \in Nat /\ (asked = 0 => Cardinality(Artifact) <= Limit)
  <1>1. 2 ^ 20 \in Nat
    OBVIOUS
  <1> QED
    BY <1>1, GraphQueryAssumption DEF Inputs, Limit

\* The root can be reached, and so can the dependencies of what can be reached.
LEMMA ReachGrows ==
    ASSUME Inputs
    PROVE  /\ root \in Reach(Succ, root)
           /\ \A a \in Reach(Succ, root) : Succ[a] \subseteq Reach(Succ, root)
  <1>1. root \in Reach(Succ, root)
    BY InputTypes DEF Reach
  <1>2. ASSUME NEW a \in Reach(Succ, root), NEW t \in Succ[a] PROVE t \in Reach(Succ, root)
    <2>1. a \in DOMAIN Succ /\ t \in DOMAIN Succ
      BY <1>2, InputTypes DEF Reach
    <2> QED
      BY <1>2, <2>1 DEF Reach, Closed
  <1> QED
    BY <1>1, <1>2

\* As each call is that of another artifact, there are no more calls than artifacts.
LEMMA FewCalls == ASSUME Inputs, Calls PROVE Len(stack) \in Nat /\ Len(stack) <= Cardinality(Artifact)
  <1> DEFINE f == [k \in 1 .. Len(stack) |-> stack[k].of]
  <1>1. Len(stack) \in Nat /\ \A k \in 1 .. Len(stack) : stack[k] \in Frame
    BY DEF Calls
  <1>2. f \in Injection(1 .. Len(stack), Artifact)
    BY <1>1 DEF Calls, Frame, Injection, IsInjective
  <1>3. Cardinality(1 .. Len(stack)) <= Cardinality(Artifact)
    <2> HIDE DEF f
    <2> QED
      BY <1>2, FS_Injection, GraphQueryAssumption
  <1>4. Cardinality(1 .. Len(stack)) = Len(stack)
    <2>1. 1 \in Int /\ Len(stack) \in Int /\ Len(stack) >= 0
      BY <1>1
    <2>2. Cardinality(1 .. Len(stack)) = IF 1 > Len(stack) THEN 0 ELSE Len(stack) - 1 + 1
      BY <2>1, FS_Interval
    <2> QED
      BY <1>1, <2>2
  <1> QED
    BY <1>1, <1>3, <1>4

\* One entry more.
LEMMA OneMore ==
    ASSUME out \in Seq(Entry), NEW e \in Entry, out' = Append(out, e)
    PROVE  /\ out' \in Seq(Entry)
           /\ Len(out') = Len(out) + 1 /\ Len(out) \in Nat
           /\ out'[Len(out) + 1] = e
           /\ \A i \in 1 .. Len(out) : out'[i] = out[i]
           /\ Entries' = Entries \cup {e}
  <1>1. /\ out' \in Seq(Entry) /\ Len(out') = Len(out) + 1 /\ Len(out) \in Nat
        /\ out'[Len(out) + 1] = e
        /\ \A i \in 1 .. Len(out) : out'[i] = out[i]
    OBVIOUS
  <1>2. ASSUME NEW i \in 1 .. Len(out') PROVE out'[i] \in Entries \cup {e}
    <2>1. i = Len(out) + 1 \/ i \in 1 .. Len(out)
      BY <1>1
    <2> QED
      BY <1>1, <2>1 DEF Entries
  <1>3. e \in Entries' /\ \A i \in 1 .. Len(out) : out[i] \in Entries'
    BY <1>1 DEF Entries
  <1> QED
    BY <1>1, <1>2, <1>3 DEF Entries

-----------------------------------------------------------------------------

LEMMA InitInv == Init => IInv
  <1> SUFFICES ASSUME Init PROVE IInv
    OBVIOUS
  <1>1. Inputs
    BY DEF Init, Inputs
  <1>2. stack = <<[of |-> root, last |-> 0]>> /\ out = <<>> /\ visited = {root} /\ Entries = {}
    BY DEF Init, Entries
  <1>3. /\ stack \in Seq(Frame) /\ Len(stack) = 1 /\ stack[1].of = root /\ stack[1].last = 0
        /\ out \in Seq(Entry) /\ Len(out) = 0
    BY <1>1, <1>2, InputTypes DEF Frame
  <1>4. Calls /\ Listed /\ Called /\ ListedOnce /\ DepthIsAPath
    BY <1>1, <1>2, <1>3 DEF Calls, Listed, Called, ListedOnce, DepthIsAPath, Inputs
  <1>5. NothingLost
    <2>1. \A t \in Artifact : t > 0
      BY <1>1, InputTypes
    <2> QED
      BY <1>1, <1>2, <1>3, <2>1, ReachGrows DEF NothingLost
  <1> QED
    BY <1>1, <1>4, <1>5 DEF IInv

\* The innermost call lists a target that it had not listed.
LEMMA ListingStep ==
    ASSUME IInv, NEW t \in Artifact, Listing(t)
    PROVE  /\ Len(stack) \in Nat \ {0} /\ Top \in Frame /\ Top.of \in visited /\ t \in deps[Top.of]
           /\ t > Top.last
           /\ \A u \in deps[Top.of] : u > Top.last => t <= u
           /\ Inputs' /\ Succ' = Succ /\ Limit' = Limit
           /\ \E e \in Entry : /\ e = [from |-> Top.of, to |-> t, depth |-> Len(stack)]
                               /\ out' = Append(out, e) /\ Entries' = Entries \cup {e}
           /\ out' \in Seq(Entry) /\ Len(stack) <= Limit
           /\ ListedOnce' /\ DepthIsAPath'
           /\ Passed(t) \in Seq(Frame) /\ Len(Passed(t)) = Len(stack)
           /\ Passed(t)[Len(stack)] = [of |-> Top.of, last |-> t]
           /\ \A k \in 1 .. Len(stack) - 1 : Passed(t)[k] = stack[k]
  <1> DEFINE n == Len(stack)
             e == [from |-> Top.of, to |-> t, depth |-> n]
  <1>1. n \in Nat \ {0} /\ Top \in Frame /\ Top.of \in visited /\ Top = stack[n]
    BY DEF IInv, Calls, Listing, Running, Top
  <1>2. t \in deps[Top.of] /\ t > Top.last /\ \A u \in deps[Top.of] : u > Top.last => t <= u
    BY DEF Listing, IsNext
  <1>3. /\ Inputs' /\ Succ' = Succ /\ Limit' = Limit /\ n <= Limit /\ UNCHANGED <<deps, root, asked>>
    BY DEF IInv, Inputs, Listing, Succ, Limit, Level
  <1>4. e \in Entry /\ out' = Append(out, e)
    BY <1>1, InputTypes DEF IInv, Listing, Level, Entry, Frame
  <1>5. /\ out' \in Seq(Entry) /\ Len(out') = Len(out) + 1 /\ Len(out) \in Nat
        /\ out'[Len(out) + 1] = e
        /\ \A i \in 1 .. Len(out) : out'[i] = out[i]
        /\ Entries' = Entries \cup {e}
    BY <1>4, OneMore DEF IInv, Listed
  <1>6. \A i \in 1 .. Len(out) : ~(out[i].from = e.from /\ out[i].to = e.to)
    <2>1. ASSUME NEW f \in Entries, f.from = Top.of PROVE f.to <= Top.last
      BY <1>1, <2>1 DEF IInv, Listed
    <2>2. ASSUME NEW i \in 1 .. Len(out), out[i].from = e.from, out[i].to = e.to PROVE FALSE
      <3>1. out[i] \in Entries /\ out[i].to <= Top.last
        BY <2>1, <2>2 DEF Entries
      <3>2. t \in Nat /\ Top.last \in Nat
        BY <1>1, InputTypes DEF IInv, Frame
      <3> QED
        BY <1>2, <2>2, <3>1, <3>2
    <2> QED
      BY <2>2
  <1>7. ListedOnce'
    <2>1. ASSUME NEW i \in 1 .. Len(out'), NEW j \in 1 .. Len(out'),
                 out'[i].from = out'[j].from, out'[i].to = out'[j].to
          PROVE  i = j
      <3>1. CASE i \in 1 .. Len(out) /\ j \in 1 .. Len(out)
        BY <1>5, <2>1, <3>1 DEF IInv, ListedOnce
      <3>2. CASE i = Len(out) + 1 /\ j \in 1 .. Len(out)
        BY <1>5, <1>6, <2>1, <3>2
      <3>3. CASE j = Len(out) + 1 /\ i \in 1 .. Len(out)
        BY <1>5, <1>6, <2>1, <3>3
      <3> QED
        BY <1>5, <2>1, <3>1, <3>2, <3>3
    <2> QED
      BY <2>1 DEF ListedOnce
  <1>8. DepthIsAPath'
    <2>1. n \in 1 .. Len(stack) /\ Called /\ e.depth = n /\ e.from = stack[n].of
      BY <1>1 DEF IInv
    <2>2. /\ e.depth = 1 => e.from = root
          /\ e.depth # 1 => \E f \in Entries : f.to = e.from /\ f.depth = e.depth - 1
      <3> HIDE DEF n, e
      <3> QED
        BY <2>1 DEF Called
    <2>3. root' = root
      BY <1>3
    <2> HIDE DEF e
    <2> QED
      BY <1>5, <2>2, <2>3 DEF IInv, DepthIsAPath
  <1>9. /\ Passed(t) \in Seq(Frame) /\ Len(Passed(t)) = n
        /\ Passed(t)[n] = [of |-> Top.of, last |-> t]
        /\ \A k \in 1 .. n - 1 : Passed(t)[k] = stack[k]
    BY <1>1 DEF IInv, Calls, Passed, Frame
  <1> QED
    BY <1>1, <1>2, <1>3, <1>4, <1>5, <1>7, <1>8, <1>9

LEMMA PassOverStep == ASSUME IInv, NEW t \in Artifact, PassOver(t) PROVE IInv'
  <1> DEFINE n == Len(stack)
  <1>1. /\ Listing(t) /\ stack' = Passed(t) /\ visited' = visited /\ UNCHANGED <<deps, root, asked>>
        /\ t \notin DOMAIN deps \/ t \in visited
    BY DEF PassOver, Listing
  <1>2. PICK e \in Entry : e = [from |-> Top.of, to |-> t, depth |-> n] /\ Entries' = Entries \cup {e}
    BY <1>1, ListingStep
  <1>3. /\ n \in Nat \ {0} /\ Top = stack[n] /\ Top.of \in visited /\ t \in deps[Top.of] /\ t > Top.last
        /\ \A u \in deps[Top.of] : u > Top.last => t <= u
        /\ Inputs' /\ Succ' = Succ /\ Limit' = Limit /\ out' \in Seq(Entry) /\ n <= Limit
        /\ ListedOnce' /\ DepthIsAPath'
    BY <1>1, ListingStep DEF Top
  <1>4. /\ stack' \in Seq(Frame) /\ Len(stack') = n
        /\ stack'[n].of = stack[n].of /\ stack'[n].last = t
        /\ \A k \in 1 .. n - 1 : stack'[k] = stack[k]
    <2>1. /\ Passed(t) \in Seq(Frame) /\ Len(Passed(t)) = n
          /\ Passed(t)[n] = [of |-> Top.of, last |-> t]
          /\ \A k \in 1 .. n - 1 : Passed(t)[k] = stack[k]
      BY <1>1, ListingStep
    <2> QED
      BY <1>1, <1>3, <2>1
  <1>5. \A k \in 1 .. n : stack'[k].of = stack[k].of /\ (k # n => stack'[k].last = stack[k].last)
    BY <1>3, <1>4
  <1> HIDE DEF n
  <1>6. Calls'
    BY <1>1, <1>3, <1>4, <1>5 DEF IInv, Calls, n
  <1>7. Listed'
    <2>1. \A f \in Entries' : f.from \in visited' /\ f.to \in deps'[f.from] /\ f.depth <= Limit'
      BY <1>1, <1>2, <1>3 DEF IInv, Listed
    <2>2. ASSUME NEW k \in 1 .. n, NEW f \in Entries', f.from = stack'[k].of PROVE f.to <= stack'[k].last
      <3>1. t \in Nat /\ Top.last \in Nat /\ (f \in Entries => f.to \in Nat)
        <4>1. Top \in Frame
          BY <1>1, ListingStep
        <4>2. f \in Entries => f.from \in DOMAIN deps /\ f.to \in deps[f.from]
          BY DEF IInv, Listed, Calls
        <4> QED
          BY <4>1, <4>2, InputTypes DEF IInv, Frame
      <3>2. CASE k = n
        BY <1>2, <1>3, <1>4, <2>2, <3>1, <3>2 DEF IInv, Listed, n
      <3>3. CASE k # n
        <4>1. f # e
          BY <1>2, <1>3, <1>5, <2>2, <3>3 DEF IInv, Calls, n
        <4> QED
          BY <1>2, <1>5, <2>2, <3>3, <4>1 DEF IInv, Listed, n
      <3> QED
        BY <3>2, <3>3
    <2> QED
      BY <1>3, <1>4, <2>1, <2>2 DEF Listed
  <1>8. Called'
    BY <1>1, <1>2, <1>4, <1>5 DEF IInv, Called, n
  <1>9. NothingLost'
    <2>1. /\ visited' \subseteq Reach(Succ, root)'
          /\ \A f \in Entries' : f.to \in DOMAIN deps' => f.to \in visited'
      BY <1>1, <1>2, <1>3 DEF IInv, NothingLost, Reach
    <2>2. ASSUME asked = 0, NEW a \in visited, NEW u \in Artifact, u \in deps[a]
          PROVE  IsListed(a, u)' \/ \E k \in 1 .. n : stack'[k].of = a /\ u > stack'[k].last
      <3>1. CASE IsListed(a, u)
        BY <1>2, <3>1 DEF IsListed
      <3>2. ASSUME NEW k \in 1 .. n, stack[k].of = a, u > stack[k].last
            PROVE  IsListed(a, u)' \/ (stack'[k].of = a /\ u > stack'[k].last)
        <4>1. CASE k # n
          BY <1>5, <3>2, <4>1
        <4>2. CASE k = n /\ u = t
          BY <1>2, <1>3, <3>2, <4>2 DEF IsListed
        <4>3. CASE k = n /\ u # t
          <5>1. t <= u /\ t \in Nat /\ u \in Nat
            BY <1>3, <2>2, <3>2, <4>3, InputTypes DEF IInv
          <5> QED
            BY <1>4, <3>2, <4>3, <5>1
        <4> QED
          BY <4>1, <4>2, <4>3
      <3> QED
        BY <2>2, <3>1, <3>2 DEF IInv, NothingLost, n
    <2> QED
      BY <1>1, <1>4, <2>1, <2>2 DEF NothingLost
  <1> QED
    BY <1>3, <1>6, <1>7, <1>8, <1>9 DEF IInv

LEMMA FollowStep == ASSUME IInv, NEW t \in Artifact, Follow(t) PROVE IInv'
  <1> DEFINE n == Len(stack)
  <1>1. /\ Listing(t) /\ stack' = Append(Passed(t), [of |-> t, last |-> 0])
        /\ visited' = visited \cup {t} /\ UNCHANGED <<deps, root, asked>>
        /\ t \in DOMAIN deps /\ t \notin visited
    BY DEF Follow, Listing
  <1>2. PICK e \in Entry : e = [from |-> Top.of, to |-> t, depth |-> n] /\ Entries' = Entries \cup {e}
    BY <1>1, ListingStep
  <1>3. /\ n \in Nat \ {0} /\ Top = stack[n] /\ Top.of \in visited /\ t \in deps[Top.of] /\ t > Top.last
        /\ \A u \in deps[Top.of] : u > Top.last => t <= u
        /\ Inputs' /\ Succ' = Succ /\ Limit' = Limit /\ out' \in Seq(Entry) /\ n <= Limit
        /\ ListedOnce' /\ DepthIsAPath'
    BY <1>1, ListingStep DEF Top
  <1>4. /\ stack' \in Seq(Frame) /\ Len(stack') = n + 1
        /\ stack'[n].of = stack[n].of /\ stack'[n].last = t
        /\ stack'[n + 1] = [of |-> t, last |-> 0]
        /\ \A k \in 1 .. n - 1 : stack'[k] = stack[k]
    <2>1. /\ Passed(t) \in Seq(Frame) /\ Len(Passed(t)) = n
          /\ Passed(t)[n] = [of |-> Top.of, last |-> t]
          /\ \A k \in 1 .. n - 1 : Passed(t)[k] = stack[k]
      BY <1>1, ListingStep
    <2>2. [of |-> t, last |-> 0] \in Frame
      BY DEF Frame
    <2>3. /\ stack' \in Seq(Frame) /\ Len(stack') = n + 1 /\ stack'[n + 1] = [of |-> t, last |-> 0]
          /\ \A k \in 1 .. n : stack'[k] = Passed(t)[k]
      BY <1>1, <1>3, <2>1, <2>2
    <2> QED
      BY <1>3, <2>1, <2>3
  <1>5. \A k \in 1 .. n : stack'[k].of = stack[k].of /\ (k # n => stack'[k].last = stack[k].last)
    BY <1>3, <1>4
  <1>6. 1 .. n + 1 = (1 .. n) \cup {n + 1} /\ n + 1 \notin 1 .. n
    BY <1>3
  <1> HIDE DEF n
  <1>7. Calls'
    <2>1. \A k \in 1 .. n : stack[k].of \in visited
      BY DEF IInv, Calls, n
    <2>2. \A k, l \in 1 .. n + 1 : stack'[k].of = stack'[l].of => k = l
      BY <1>1, <1>4, <1>5, <1>6, <2>1 DEF IInv, Calls, n
    <2>3. \A k \in 1 .. n + 1 : stack'[k].of \in visited'
      BY <1>1, <1>4, <1>5, <1>6, <2>1
    <2> QED
      BY <1>1, <1>4, <2>2, <2>3 DEF IInv, Calls
  <1>8. Listed'
    <2>1. \A f \in Entries' : f.from \in visited' /\ f.to \in deps'[f.from] /\ f.depth <= Limit'
      BY <1>1, <1>2, <1>3 DEF IInv, Listed
    <2>2. ASSUME NEW k \in 1 .. n, NEW f \in Entries', f.from = stack'[k].of PROVE f.to <= stack'[k].last
      <3>1. t \in Nat /\ Top.last \in Nat /\ (f \in Entries => f.to \in Nat)
        <4>1. Top \in Frame
          BY <1>1, ListingStep
        <4>2. f \in Entries => f.from \in DOMAIN deps /\ f.to \in deps[f.from]
          BY DEF IInv, Listed, Calls
        <4> QED
          BY <4>1, <4>2, InputTypes DEF IInv, Frame
      <3>2. CASE k = n
        BY <1>2, <1>3, <1>4, <2>2, <3>1, <3>2 DEF IInv, Listed, n
      <3>3. CASE k # n
        <4>1. f # e
          BY <1>2, <1>3, <1>5, <2>2, <3>3 DEF IInv, Calls, n
        <4> QED
          BY <1>2, <1>5, <2>2, <3>3, <4>1 DEF IInv, Listed, n
      <3> QED
        BY <3>2, <3>3
    <2>3. \A f \in Entries' : f.from # stack'[n + 1].of
      BY <1>1, <1>2, <1>3, <1>4 DEF IInv, Listed
    <2> QED
      BY <1>3, <1>4, <1>6, <2>1, <2>2, <2>3 DEF Listed
  <1>9. Called'
    <2>1. ASSUME NEW k \in 1 .. n
          PROVE  IF k = 1 THEN stack'[k].of = root'
                 ELSE \E f \in Entries' : f.to = stack'[k].of /\ f.depth = k - 1
      <3>1. IF k = 1 THEN stack[k].of = root ELSE \E f \in Entries : f.to = stack[k].of /\ f.depth = k - 1
        BY <2>1 DEF IInv, Called, n
      <3>2. stack'[k].of = stack[k].of /\ root' = root /\ Entries \subseteq Entries'
        BY <1>1, <1>2, <1>5, <2>1
      <3> QED
        BY <3>1, <3>2
    <2>2. \E f \in Entries' : f.to = stack'[n + 1].of /\ f.depth = n + 1 - 1
      BY <1>2, <1>3, <1>4
    <2>3. n + 1 # 1
      BY <1>3
    <2>4. ASSUME NEW k \in 1 .. n + 1
          PROVE  IF k = 1 THEN stack'[k].of = root'
                 ELSE \E f \in Entries' : f.to = stack'[k].of /\ f.depth = k - 1
      <3>1. CASE k \in 1 .. n
        BY <2>1, <3>1
      <3>2. CASE k = n + 1
        <4>1. PICK f \in Entries' : f.to = stack'[k].of /\ f.depth = n + 1 - 1
          BY <1>3, <2>2, <3>2
        <4>2. k # 1 /\ f.depth = k - 1
          BY <1>3, <2>3, <3>2, <4>1
        <4> QED
          BY <4>1, <4>2
      <3> QED
        BY <1>6, <2>4, <3>1, <3>2
    <2> QED
      BY <1>4, <2>4 DEF Called
  <1>10. NothingLost'
    <2>1. t \in Reach(Succ, root)
      <3>1. Top.of \in DOMAIN deps /\ Top.of \in Reach(Succ, root)
        BY <1>3 DEF IInv, Calls, NothingLost
      <3> QED
        BY <1>3, <3>1, InputTypes, ReachGrows DEF IInv
    <2>2. /\ visited' \subseteq Reach(Succ, root)'
          /\ \A f \in Entries' : f.to \in DOMAIN deps' => f.to \in visited'
      BY <1>1, <1>2, <1>3, <2>1 DEF IInv, NothingLost, Reach
    <2>3. ASSUME asked = 0, NEW a \in visited, NEW u \in Artifact, u \in deps[a]
          PROVE  IsListed(a, u)' \/ \E k \in 1 .. n : stack'[k].of = a /\ u > stack'[k].last
      <3>1. CASE IsListed(a, u)
        BY <1>2, <3>1 DEF IsListed
      <3>2. ASSUME NEW k \in 1 .. n, stack[k].of = a, u > stack[k].last
            PROVE  IsListed(a, u)' \/ (stack'[k].of = a /\ u > stack'[k].last)
        <4>1. CASE k # n
          BY <1>5, <3>2, <4>1
        <4>2. CASE k = n /\ u = t
          BY <1>2, <1>3, <3>2, <4>2 DEF IsListed
        <4>3. CASE k = n /\ u # t
          <5>1. t <= u /\ t \in Nat /\ u \in Nat
            BY <1>3, <2>3, <3>2, <4>3, InputTypes DEF IInv
          <5> QED
            BY <1>4, <3>2, <4>3, <5>1
        <4> QED
          BY <4>1, <4>2, <4>3
      <3> QED
        BY <2>3, <3>1, <3>2 DEF IInv, NothingLost, n
    <2>4. \A u \in Artifact : u > stack'[n + 1].last /\ stack'[n + 1].of = t
      BY <1>4, InputTypes DEF IInv
    <2>5. ASSUME asked = 0, NEW a \in visited', NEW u \in Artifact, u \in deps[a]
          PROVE  IsListed(a, u)' \/ \E k \in 1 .. n + 1 : stack'[k].of = a /\ u > stack'[k].last
      BY <1>1, <1>6, <2>3, <2>4, <2>5
    <2> QED
      BY <1>1, <1>4, <2>2, <2>5 DEF NothingLost
  <1> QED
    BY <1>3, <1>7, <1>8, <1>9, <1>10 DEF IInv

\* A call that ends has listed all, but at the depth limit, which an unlimited walk never meets.
LEMMA LeaveStep == ASSUME IInv, Leave PROVE IInv'
  <1> DEFINE n == Len(stack)
  <1>1. /\ stack' = SubSeq(stack, 1, n - 1) /\ UNCHANGED <<deps, root, asked, visited, out>>
        /\ n > Limit \/ \A t \in deps[stack[n].of] : t <= stack[n].last
        /\ stack # <<>> /\ stack \in Seq(Frame)
    BY DEF Leave, Level, Running, Top, IInv, Calls
  <1>2. n \in Nat \ {0} /\ stack[n] \in Frame
    BY <1>1
  <1>3. /\ stack' \in Seq(Frame) /\ Len(stack') = n - 1 /\ \A k \in 1 .. n - 1 : stack'[k] = stack[k]
        /\ 1 .. n - 1 \subseteq 1 .. n /\ 1 .. n = (1 .. n - 1) \cup {n}
    <2>1. 1 .. n - 1 \subseteq 1 .. n /\ 1 .. n = (1 .. n - 1) \cup {n} /\ n - 1 \in Nat /\ n - 1 <= n
      BY <1>2
    <2>2. stack \in Seq(Frame) /\ Len(stack) = n
      BY <1>1
    <2>3. /\ SubSeq(stack, 1, n - 1) \in Seq(Frame) /\ Len(SubSeq(stack, 1, n - 1)) = n - 1
          /\ \A k \in 1 .. n - 1 : SubSeq(stack, 1, n - 1)[k] = stack[k]
      <3> HIDE DEF n
      <3>1. \A k \in 1 .. n - 1 : stack[k] \in Frame
        BY <2>1, <2>2
      <3>2. SubSeq(stack, 1, n - 1) = [k \in 1 .. n - 1 |-> stack[k]]
        BY <1>2, <2>1, <2>2
      <3> QED
        BY <2>1, <3>1, <3>2
    <2> QED
      BY <1>1, <2>1, <2>3
  <1>4. Succ' = Succ /\ Limit' = Limit /\ Entries' = Entries
    BY <1>1 DEF Succ, Limit, Entries
  <1>5. Inputs' /\ ListedOnce' /\ DepthIsAPath'
    BY <1>1, <1>4 DEF IInv, Inputs, ListedOnce, DepthIsAPath
  <1> HIDE DEF n
  <1>6. Calls'
    BY <1>1, <1>3 DEF IInv, Calls, n
  <1>7. Listed'
    BY <1>1, <1>3, <1>4 DEF IInv, Listed, n
  <1>8. Called'
    <2>1. ASSUME NEW k \in 1 .. n - 1
          PROVE  IF k = 1 THEN stack'[k].of = root
                 ELSE \E f \in Entries : f.to = stack'[k].of /\ f.depth = k - 1
      BY <1>3, <2>1 DEF IInv, Called, n
    <2> QED
      BY <1>1, <1>3, <1>4, <2>1 DEF Called
  <1>9. NothingLost'
    <2>1. ASSUME asked = 0, NEW a \in visited, NEW t \in Artifact, t \in deps[a]
          PROVE  IsListed(a, t) \/ \E k \in 1 .. n - 1 : stack[k].of = a /\ t > stack[k].last
      <3>1. \A u \in deps[stack[n].of] : u <= stack[n].last
        <4>1. n \in Nat /\ Limit \in Nat /\ Cardinality(Artifact) \in Nat /\ n <= Cardinality(Artifact)
              /\ Cardinality(Artifact) <= Limit
          BY <2>1, FewCalls, LimitIsNat, FS_CardinalityType, GraphQueryAssumption DEF IInv, n
        <4> QED
          BY <1>1, <4>1
      <3>2. ~(stack[n].of = a /\ t > stack[n].last)
        BY <1>2, <2>1, <3>1, InputTypes DEF IInv, Frame
      <3> QED
        BY <1>3, <2>1, <3>2 DEF IInv, NothingLost, n
    <2>2. \A a \in visited, t \in Artifact : IsListed(a, t)' <=> IsListed(a, t)
      BY <1>4 DEF IsListed
    <2> QED
      BY <1>1, <1>3, <1>4, <2>1, <2>2 DEF IInv, NothingLost, Reach
  <1> QED
    BY <1>5, <1>6, <1>7, <1>8, <1>9 DEF IInv

LEMMA StepInv == IInv /\ [Next]_vars => IInv'
  <1> SUFFICES ASSUME IInv, [Next]_vars PROVE IInv'
    OBVIOUS
  <1>1. CASE UNCHANGED vars
    <2>1. Succ' = Succ /\ Limit' = Limit /\ Entries' = Entries /\ UNCHANGED vars
      BY <1>1 DEF vars, Succ, Limit, Entries
    <2>2. Calls' /\ Listed' /\ Called' /\ Inputs'
      BY <2>1 DEF vars, IInv, Inputs, Calls, Listed, Called
    <2>3. NothingLost'
      BY <2>1 DEF vars, IInv, NothingLost, IsListed, Reach
    <2>4. ListedOnce' /\ DepthIsAPath'
      BY <2>1 DEF vars, IInv, ListedOnce, DepthIsAPath
    <2> QED
      BY <2>2, <2>3, <2>4 DEF IInv
  <1> QED
    BY <1>1, PassOverStep, FollowStep, LeaveStep DEF Next, Step, Done

LEMMA Invariance == Spec => []IInv
  BY InitInv, StepInv, PTL DEF Spec

-----------------------------------------------------------------------------
(* The theorems. *)

\* Calls and entries are of artifacts of the index, at depths within the limit.
THEOREM TypeCorrect == Spec => []TypeOK
  <1>1. IInv => TypeOK
    <2> SUFFICES ASSUME IInv PROVE TypeOK
      OBVIOUS
    <2>1. \A k \in 1 .. Len(stack) : stack[k] \in Frame
      BY DEF IInv, Calls
    <2>2. ASSUME NEW e \in Entries PROVE e.depth \in 1 .. Limit
      <3>1. e \in Entry
        BY DEF IInv, Listed, Entries
      <3> QED
        BY <3>1, LimitIsNat DEF IInv, Listed, Entry
    <2> QED
      BY <2>1, <2>2 DEF IInv, Calls, Listed, Frame, TypeOK
  <1> QED
    BY <1>1, Invariance, PTL

\* Nothing is listed twice.
THEOREM NoDuplicates == Spec => []ListedOnce
  <1>1. IInv => ListedOnce
    BY DEF IInv
  <1> QED
    BY <1>1, Invariance, PTL

\* The depth of an entry is the length of a listed path to it.
THEOREM DepthsArePaths == Spec => []DepthIsAPath
  <1>1. IInv => DepthIsAPath
    BY DEF IInv
  <1> QED
    BY <1>1, Invariance, PTL

\* Without a depth, everything that can be reached is listed, and nothing else.
THEOREM Complete == Spec => []UnlimitedIsComplete
  <1>1. IInv => UnlimitedIsComplete
    <2> SUFFICES ASSUME IInv, ~Running, asked = 0
                 PROVE  {<<e.from, e.to>> : e \in Entries}
                          = {p \in Artifact \X Artifact : p[1] \in Reach(Succ, root) /\ p[2] \in Succ[p[1]]}
      BY DEF UnlimitedIsComplete
    <2>1. 1 .. Len(stack) = {}
      BY DEF Running
    <2>2. /\ visited \subseteq DOMAIN deps /\ root \in visited /\ visited \subseteq Reach(Succ, root)
          /\ DOMAIN deps \subseteq Artifact
          /\ \A a \in DOMAIN deps : Succ[a] = deps[a] /\ deps[a] \subseteq Artifact
          /\ \A a \in Artifact \ DOMAIN deps : Succ[a] = {}
      BY InputTypes DEF IInv, Calls, NothingLost, Succ
    <2>3. ASSUME NEW a \in visited, NEW t \in Succ[a] PROVE t \in Artifact /\ IsListed(a, t)
      BY <2>1, <2>2, <2>3 DEF IInv, NothingLost
    <2>4. ASSUME NEW a \in Reach(Succ, root) PROVE a \in visited \/ a \notin DOMAIN deps
      <3> DEFINE S == visited \cup (Artifact \ DOMAIN deps)
      <3>1. S \in SUBSET DOMAIN Succ /\ root \in S
        BY <2>2, InputTypes DEF IInv
      <3>2. ASSUME NEW b \in visited, NEW t \in Succ[b] PROVE t \in S
        BY <2>3, <3>2 DEF IInv, NothingLost, IsListed
      <3>3. Closed(Succ, S)
        BY <2>2, <3>2 DEF Closed
      <3> QED
        BY <2>4, <3>1, <3>3 DEF Reach
    <2>5. ASSUME NEW e \in Entries
          PROVE  e.from \in Reach(Succ, root) /\ e.from \in Artifact /\ e.to \in Artifact /\ e.to \in Succ[e.from]
      BY <2>2 DEF IInv, Listed
    <2>6. ASSUME NEW a \in Reach(Succ, root), NEW t \in Succ[a] PROVE \E e \in Entries : e.from = a /\ e.to = t
      <3>1. a \in Artifact
        BY InputTypes DEF Reach, IInv
      <3>2. a \in visited
        BY <2>2, <2>4, <2>6, <3>1
      <3> QED
        BY <2>3, <2>6, <3>2 DEF IsListed
    <2> QED
      BY <2>5, <2>6
  <1> QED
    BY <1>1, Invariance, PTL
=============================================================================
