-------------------------- MODULE ConstraintProofs --------------------------
(***************************************************************************)
(* Precedence is a total preorder on all versions, whatever the width of   *)
(* an int and however long the prereleases, and what a constraint accepts  *)
(* is an interval of it.  Parse ends on every text, and a text of the      *)
(* documented syntax means what it says, however many clauses it has.      *)
(***************************************************************************)
EXTENDS Constraint, SequenceTheorems, WellFoundedInduction, TLAPS

-----------------------------------------------------------------------------
(* The least of a set of naturals. *)

LEMMA NatLeast ==
    ASSUME NEW S \in SUBSET Nat, S # {}
    PROVE  \E m \in S : \A k \in S : m <= k
  <1>1. IsWellFoundedOn(OpToRel(<, Nat), Nat)
    BY NatLessThanWellFounded
  <1>2. PICK m \in S : \A y \in S : ~(<<y, m>> \in OpToRel(<, Nat))
    BY <1>1, WFMin
  <1>3. \A y \in S : ~(y < m)
    BY <1>2 DEF OpToRel
  <1> QED
    BY <1>3

-----------------------------------------------------------------------------
(* Identifiers: their order is that of a number. *)

\* Alphanumeric identifiers come after all numbers.
Key(x) == IF x.numeric THEN Atoi(x) ELSE MaxInt + 1 + x.value

LEMMA KeyType == \A x \in Identifier : Key(x) \in Nat
  BY SemverAssumption DEF Key, Identifier, Atoi

LEMMA IdentifiersByKey ==
    ASSUME NEW x \in Identifier, NEW y \in Identifier
    PROVE  CompareIdentifier(x, y) = cmpInt(Key(x), Key(y))
  <1>1. /\ x.numeric \in BOOLEAN /\ y.numeric \in BOOLEAN /\ x.value \in Nat /\ y.value \in Nat
        /\ MaxInt \in Nat
    BY SemverAssumption DEF Identifier
  <1>2. CASE x = y
    BY <1>2, KeyType DEF CompareIdentifier, cmpInt
  <1>3. CASE x # y /\ x.numeric /\ ~y.numeric
    BY <1>1, <1>3 DEF CompareIdentifier, cmpInt, Key, Atoi
  <1>4. CASE x # y /\ ~x.numeric /\ y.numeric
    BY <1>1, <1>4 DEF CompareIdentifier, cmpInt, Key, Atoi
  <1>5. CASE x # y /\ x.numeric /\ y.numeric
    BY <1>1, <1>5 DEF CompareIdentifier, cmpInt, Key
  <1>6. CASE x # y /\ ~x.numeric /\ ~y.numeric
    BY <1>1, <1>6 DEF CompareIdentifier, cmpInt, Key
  <1> QED
    BY <1>1, <1>2, <1>3, <1>4, <1>5, <1>6

LEMMA SameByKey ==
    ASSUME NEW x \in Identifier, NEW y \in Identifier
    PROVE  SameIdentifier(x, y) <=> Key(x) = Key(y)
  BY SemverAssumption DEF SameIdentifier, Key, Atoi, Identifier

-----------------------------------------------------------------------------
(* Prereleases: one precedes the other, or they agree as far as both go. *)

Prerelease == Seq(Identifier)

\* At place i the identifiers of both have the same number; the one of a is less.
Agree(a, b, i) == Key(a[i]) = Key(b[i])
Below(a, b, i) ==
    /\ i \in 1 .. Len(a) /\ i \in 1 .. Len(b)
    /\ \A j \in 1 .. i - 1 : Agree(a, b, j)
    /\ Key(a[i]) < Key(b[i])
Agreeing(a, b) == \A i \in 1 .. Len(a) : i <= Len(b) => Agree(a, b, i)

LEMMA Places ==
    ASSUME NEW a \in Prerelease
    PROVE  Len(a) \in Nat /\ \A i \in 1 .. Len(a) : a[i] \in Identifier /\ Key(a[i]) \in Nat
  BY KeyType DEF Prerelease

LEMMA PrecedesAtAPlace ==
    ASSUME NEW a \in Prerelease, NEW b \in Prerelease
    PROVE  Precedes(a, b) <=> \E i \in 1 .. Len(a) : Below(a, b, i)
  <1>1. /\ Len(a) \in Nat /\ Len(b) \in Nat
        /\ \A i \in 1 .. Len(a) : a[i] \in Identifier /\ Key(a[i]) \in Nat
        /\ \A i \in 1 .. Len(b) : b[i] \in Identifier /\ Key(b[i]) \in Nat
    BY Places
  <1>2. ASSUME NEW i \in 1 .. Len(a), i <= Len(b)
        PROVE  /\ CompareIdentifier(a[i], b[i]) = 0 <=> Agree(a, b, i)
               /\ CompareIdentifier(a[i], b[i]) < 0 <=> Key(a[i]) < Key(b[i])
    <2>1. CompareIdentifier(a[i], b[i]) = cmpInt(Key(a[i]), Key(b[i]))
      BY <1>1, <1>2, IdentifiersByKey
    <2>2. Key(a[i]) \in Nat /\ Key(b[i]) \in Nat
      BY <1>1, <1>2
    <2> QED
      BY <2>1, <2>2 DEF cmpInt, Agree
  <1>3. ASSUME NEW i \in 1 .. Len(a)
        PROVE  Below(a, b, i) <=> /\ i <= Len(b)
                                  /\ \A j \in 1 .. i - 1 : CompareIdentifier(a[j], b[j]) = 0
                                  /\ CompareIdentifier(a[i], b[i]) < 0
    <2>1. CASE i <= Len(b)
      <3>1. \A j \in 1 .. i - 1 : CompareIdentifier(a[j], b[j]) = 0 <=> Agree(a, b, j)
        BY <1>1, <1>2, <2>1
      <3>2. i \in 1 .. Len(b) /\ (CompareIdentifier(a[i], b[i]) < 0 <=> Key(a[i]) < Key(b[i]))
        BY <1>1, <1>2, <2>1
      <3> QED
        BY <2>1, <3>1, <3>2 DEF Below
    <2>2. CASE ~(i <= Len(b))
      BY <1>1, <2>2 DEF Below
    <2> QED
      BY <2>1, <2>2
  <1> QED
    BY <1>3 DEF Precedes

LEMMA AgreeingIsSymmetric ==
    ASSUME NEW a \in Prerelease, NEW b \in Prerelease, Agreeing(a, b)
    PROVE  Agreeing(b, a)
  BY Places DEF Agreeing, Agree

\* Exactly one of the three holds.
LEMMA Trichotomy ==
    ASSUME NEW a \in Prerelease, NEW b \in Prerelease
    PROVE  /\ Precedes(a, b) => ~Precedes(b, a) /\ ~Agreeing(a, b)
           /\ ~Precedes(a, b) /\ ~Precedes(b, a) => Agreeing(a, b)
  <1>1. /\ Len(a) \in Nat /\ Len(b) \in Nat
        /\ \A i \in 1 .. Len(a) : Key(a[i]) \in Nat
        /\ \A i \in 1 .. Len(b) : Key(b[i]) \in Nat
    BY Places
  <1>2. ASSUME NEW i \in 1 .. Len(a), Below(a, b, i) PROVE ~Agreeing(a, b)
    BY <1>1, <1>2 DEF Below, Agreeing, Agree
  <1>3. ASSUME NEW i \in 1 .. Len(a), Below(a, b, i), NEW j \in 1 .. Len(b), Below(b, a, j)
        PROVE  FALSE
    <2>1. /\ i \in 1 .. Len(a) /\ i \in 1 .. Len(b) /\ j \in 1 .. Len(a) /\ j \in 1 .. Len(b)
          /\ \A k \in 1 .. i - 1 : Key(a[k]) = Key(b[k])
          /\ \A k \in 1 .. j - 1 : Key(a[k]) = Key(b[k])
          /\ Key(a[i]) < Key(b[i]) /\ Key(b[j]) < Key(a[j])
      BY <1>3 DEF Below, Agree
    <2>2. CASE i < j
      BY <1>1, <2>1, <2>2
    <2>3. CASE j < i
      BY <1>1, <2>1, <2>3
    <2>4. CASE i = j
      BY <1>1, <2>1, <2>4
    <2> QED
      BY <1>1, <2>2, <2>3, <2>4
  <1>4. ASSUME ~Agreeing(a, b)
        PROVE  (\E i \in 1 .. Len(a) : Below(a, b, i)) \/ (\E i \in 1 .. Len(b) : Below(b, a, i))
    <2> DEFINE S == {i \in 1 .. Len(a) : i <= Len(b) /\ ~Agree(a, b, i)}
    <2>1. S \in SUBSET Nat /\ S # {}
      <3>1. PICK i \in 1 .. Len(a) : i <= Len(b) /\ ~Agree(a, b, i)
        BY <1>4 DEF Agreeing
      <3>2. i \in S
        BY <3>1
      <3>3. \A k \in 1 .. Len(a) : k \in Nat
        BY <1>1
      <3> QED
        BY <3>2, <3>3
    <2>2. PICK i \in S : \A k \in S : i <= k
      <3> HIDE DEF S
      <3> QED
        BY <2>1, NatLeast
    <2>3. /\ i \in 1 .. Len(a) /\ i \in 1 .. Len(b) /\ ~Agree(a, b, i)
          /\ \A k \in 1 .. i - 1 : Agree(a, b, k)
      BY <1>1, <2>2
    <2>4. Key(a[i]) \in Nat /\ Key(b[i]) \in Nat /\ Key(a[i]) # Key(b[i])
      BY <1>1, <2>3 DEF Agree
    <2>5. CASE Key(a[i]) < Key(b[i])
      BY <2>3, <2>5 DEF Below
    <2>6. CASE Key(b[i]) < Key(a[i])
      BY <2>3, <2>6 DEF Below, Agree
    <2> QED
      BY <2>4, <2>5, <2>6
  <1> QED
    BY <1>2, <1>3, <1>4, PrecedesAtAPlace

LEMMA PrecedesIsTransitive ==
    ASSUME NEW a \in Prerelease, NEW b \in Prerelease, NEW c \in Prerelease,
           Precedes(a, b), Precedes(b, c)
    PROVE  Precedes(a, c)
  <1>1. /\ Len(a) \in Nat /\ Len(b) \in Nat /\ Len(c) \in Nat
        /\ \A i \in 1 .. Len(a) : Key(a[i]) \in Nat
        /\ \A i \in 1 .. Len(b) : Key(b[i]) \in Nat
        /\ \A i \in 1 .. Len(c) : Key(c[i]) \in Nat
    BY Places
  <1>2. PICK i \in 1 .. Len(a) : Below(a, b, i)
    BY PrecedesAtAPlace
  <1>3. PICK j \in 1 .. Len(b) : Below(b, c, j)
    BY PrecedesAtAPlace
  <1>4. /\ i \in 1 .. Len(b) /\ j \in 1 .. Len(c)
        /\ \A k \in 1 .. i - 1 : Key(a[k]) = Key(b[k])
        /\ \A k \in 1 .. j - 1 : Key(b[k]) = Key(c[k])
        /\ Key(a[i]) < Key(b[i]) /\ Key(b[j]) < Key(c[j])
    BY <1>2, <1>3 DEF Below, Agree
  <1>5. \E m \in 1 .. Len(a) : Below(a, c, m)
    <2>1. CASE i <= j
      <3>1. i \in 1 .. Len(c) /\ \A k \in 1 .. i - 1 : Key(a[k]) = Key(c[k])
        BY <1>1, <1>4, <2>1
      <3>2. Key(b[i]) <= Key(c[i])
        <4>1. CASE i = j
          BY <1>1, <1>4, <3>1, <4>1
        <4>2. CASE i < j
          BY <1>1, <1>4, <3>1, <4>2
        <4> QED
          BY <1>1, <2>1, <4>1, <4>2
      <3>3. Key(a[i]) < Key(c[i])
        BY <1>1, <1>4, <3>1, <3>2
      <3> QED
        BY <3>1, <3>3 DEF Below, Agree
    <2>2. CASE j < i
      <3>1. j \in 1 .. Len(a) /\ \A k \in 1 .. j - 1 : Key(a[k]) = Key(c[k])
        BY <1>1, <1>4, <2>2
      <3>2. Key(a[j]) < Key(c[j])
        BY <1>1, <1>4, <2>2, <3>1
      <3> QED
        BY <1>4, <3>1, <3>2 DEF Below, Agree
    <2> QED
      BY <1>1, <2>1, <2>2
  <1> QED
    BY <1>5, PrecedesAtAPlace

\* What agrees with a prerelease as far as both go, and goes on as long, is on its side.
LEMMA PrecedesAgreeing ==
    ASSUME NEW a \in Prerelease, NEW b \in Prerelease, NEW c \in Prerelease,
           Precedes(a, b), Agreeing(b, c), Len(b) <= Len(c)
    PROVE  Precedes(a, c)
  <1>1. /\ Len(a) \in Nat /\ Len(b) \in Nat /\ Len(c) \in Nat
    BY Places
  <1>2. PICK i \in 1 .. Len(a) : Below(a, b, i)
    BY PrecedesAtAPlace
  <1>3. \A k \in 1 .. Len(b) : k \in 1 .. Len(c) /\ Key(b[k]) = Key(c[k])
    BY <1>1 DEF Agreeing, Agree
  <1>4. \A k \in 1 .. i - 1 : k \in 1 .. Len(b)
    BY <1>1, <1>2 DEF Below
  <1>5. Below(a, c, i)
    BY <1>2, <1>3, <1>4 DEF Below, Agree
  <1> QED
    BY <1>5, PrecedesAtAPlace

LEMMA AgreeingPrecedes ==
    ASSUME NEW a \in Prerelease, NEW b \in Prerelease, NEW c \in Prerelease,
           Agreeing(a, b), Len(a) <= Len(b), Precedes(b, c)
    PROVE  Precedes(a, c) \/ (Agreeing(a, c) /\ Len(a) <= Len(c))
  <1>1. /\ Len(a) \in Nat /\ Len(b) \in Nat /\ Len(c) \in Nat
    BY Places
  <1>2. PICK j \in 1 .. Len(b) : Below(b, c, j)
    BY PrecedesAtAPlace
  <1>3. \A k \in 1 .. Len(a) : Key(a[k]) = Key(b[k])
    BY <1>1 DEF Agreeing, Agree
  <1>4. j \in 1 .. Len(c) /\ \A k \in 1 .. j - 1 : Key(b[k]) = Key(c[k])
    BY <1>2 DEF Below, Agree
  <1>5. CASE j <= Len(a)
    <2>1. j \in 1 .. Len(a) /\ \A k \in 1 .. j - 1 : k \in 1 .. Len(a)
      BY <1>1, <1>5
    <2>2. Below(a, c, j)
      BY <1>2, <1>3, <1>4, <2>1 DEF Below, Agree
    <2> QED
      BY <2>1, <2>2, PrecedesAtAPlace
  <1>6. CASE Len(a) < j
    <2>1. \A k \in 1 .. Len(a) : k \in 1 .. j - 1
      BY <1>1, <1>6
    <2>2. Agreeing(a, c)
      BY <1>3, <1>4, <2>1 DEF Agreeing, Agree
    <2> QED
      BY <1>1, <1>4, <1>6, <2>2
  <1> QED
    BY <1>1, <1>5, <1>6

-----------------------------------------------------------------------------
(* comparePrerelease. *)

\* a is not after b, when neither is empty.
NotAfter(a, b) == Precedes(a, b) \/ (Agreeing(a, b) /\ Len(a) <= Len(b))

LEMMA NotAfterIsTransitive ==
    ASSUME NEW a \in Prerelease, NEW b \in Prerelease, NEW c \in Prerelease,
           NotAfter(a, b), NotAfter(b, c)
    PROVE  NotAfter(a, c)
  <1>1. CASE Precedes(a, b) /\ Precedes(b, c)
    BY <1>1, PrecedesIsTransitive DEF NotAfter
  <1>2. CASE Precedes(a, b) /\ Agreeing(b, c) /\ Len(b) <= Len(c)
    BY <1>2, PrecedesAgreeing DEF NotAfter
  <1>3. CASE Agreeing(a, b) /\ Len(a) <= Len(b) /\ Precedes(b, c)
    BY <1>3, AgreeingPrecedes DEF NotAfter
  <1>4. CASE Agreeing(a, b) /\ Len(a) <= Len(b) /\ Agreeing(b, c) /\ Len(b) <= Len(c)
    BY <1>4, Places DEF NotAfter, Agreeing, Agree
  <1> QED
    BY <1>1, <1>2, <1>3, <1>4 DEF NotAfter

LEMMA PrereleaseOrder ==
    ASSUME NEW a \in Prerelease, NEW b \in Prerelease
    PROVE  /\ comparePrerelease(a, b) \in {-1, 0, 1} /\ comparePrerelease(b, a) \in {-1, 0, 1}
           /\ comparePrerelease(a, b) + comparePrerelease(b, a) = 0
           /\ comparePrerelease(a, b) <= 0
                 <=> (b = <<>> \/ (a # <<>> /\ NotAfter(a, b)))
           /\ comparePrerelease(a, b) = 0 <=> (Len(a) = Len(b) /\ Agreeing(a, b))
  <1>1. /\ Len(a) \in Nat /\ Len(b) \in Nat
        /\ (a = <<>> <=> Len(a) = 0) /\ (b = <<>> <=> Len(b) = 0)
    BY DEF Prerelease
  <1>2. /\ Precedes(a, b) => ~Precedes(b, a) /\ ~Agreeing(a, b)
        /\ Precedes(b, a) => ~Precedes(a, b) /\ ~Agreeing(a, b)
        /\ ~Precedes(a, b) /\ ~Precedes(b, a) => Agreeing(a, b)
    BY Trichotomy, AgreeingIsSymmetric
  <1>3. CASE a = b
    <2>1. Agreeing(a, b)
      BY <1>3 DEF Agreeing, Agree
    <2>2. comparePrerelease(a, b) = 0 /\ comparePrerelease(b, a) = 0
      BY <1>3 DEF comparePrerelease
    <2>3. NotAfter(a, b) /\ Len(a) = Len(b) /\ (b = <<>> \/ a # <<>>)
      BY <1>1, <1>3, <2>1 DEF NotAfter
    <2> QED
      BY <2>1, <2>2, <2>3
  <1>4. CASE a # b /\ a = <<>>
    <2>1. comparePrerelease(a, b) = 1 /\ comparePrerelease(b, a) = -1 /\ b # <<>>
      BY <1>4 DEF comparePrerelease
    <2> QED
      BY <1>1, <1>4, <2>1
  <1>5. CASE a # b /\ a # <<>> /\ b = <<>>
    <2>1. comparePrerelease(a, b) = -1 /\ comparePrerelease(b, a) = 1
      BY <1>5 DEF comparePrerelease
    <2> QED
      BY <1>1, <1>5, <2>1
  <1>6. CASE a # b /\ a # <<>> /\ b # <<>> /\ Precedes(a, b)
    <2>1. comparePrerelease(a, b) = -1 /\ comparePrerelease(b, a) = 1
      BY <1>2, <1>6 DEF comparePrerelease
    <2>2. NotAfter(a, b) /\ ~Agreeing(a, b) /\ a # <<>>
      BY <1>2, <1>6 DEF NotAfter
    <2> QED
      BY <2>1, <2>2
  <1>7. CASE a # b /\ a # <<>> /\ b # <<>> /\ Precedes(b, a)
    <2>1. comparePrerelease(a, b) = 1 /\ comparePrerelease(b, a) = -1
      BY <1>2, <1>7 DEF comparePrerelease
    <2>2. ~NotAfter(a, b) /\ ~Agreeing(a, b) /\ b # <<>>
      BY <1>2, <1>7 DEF NotAfter
    <2> QED
      BY <2>1, <2>2
  <1>8. CASE a # b /\ a # <<>> /\ b # <<>> /\ ~Precedes(a, b) /\ ~Precedes(b, a)
    <2>1. /\ comparePrerelease(a, b) = cmpInt(Len(a), Len(b))
          /\ comparePrerelease(b, a) = cmpInt(Len(b), Len(a))
      BY <1>8 DEF comparePrerelease
    <2>2. Agreeing(a, b) /\ (NotAfter(a, b) <=> Len(a) <= Len(b))
      BY <1>2, <1>8 DEF NotAfter
    <2> QED
      BY <1>1, <1>8, <2>1, <2>2 DEF cmpInt
  <1> QED
    BY <1>3, <1>4, <1>5, <1>6, <1>7, <1>8

LEMMA PrereleaseTransitive ==
    ASSUME NEW a \in Prerelease, NEW b \in Prerelease, NEW c \in Prerelease,
           comparePrerelease(a, b) <= 0, comparePrerelease(b, c) <= 0
    PROVE  comparePrerelease(a, c) <= 0
  <1>1. CASE c = <<>>
    BY <1>1, PrereleaseOrder
  <1>2. CASE c # <<>>
    <2>1. b # <<>> /\ NotAfter(b, c)
      BY <1>2, PrereleaseOrder
    <2>2. a # <<>> /\ NotAfter(a, b)
      BY <2>1, PrereleaseOrder
    <2>3. NotAfter(a, c)
      BY <2>1, <2>2, NotAfterIsTransitive
    <2> QED
      BY <2>2, <2>3, PrereleaseOrder
  <1> QED
    BY <1>1, <1>2

-----------------------------------------------------------------------------
(* Compare: the numbers first, then the prerelease. *)

LEMMA CompareByNumbers ==
    ASSUME NEW u \in Version, NEW v \in Version
    PROVE  /\ u.major \in Int /\ u.minor \in Int /\ u.patch \in Int
           /\ u.pre \in Prerelease
           /\ Compare(u, v) \in {-1, 0, 1}
           /\ Compare(u, v) = -Compare(v, u)
           /\ Compare(u, v) <= 0 <=>
                 \/ u.major < v.major
                 \/ u.major = v.major /\ u.minor < v.minor
                 \/ u.major = v.major /\ u.minor = v.minor /\ u.patch < v.patch
                 \/ /\ u.major = v.major /\ u.minor = v.minor /\ u.patch = v.patch
                    /\ comparePrerelease(u.pre, v.pre) <= 0
           /\ Compare(u, v) = 0 <=>
                 /\ u.major = v.major /\ u.minor = v.minor /\ u.patch = v.patch
                 /\ comparePrerelease(u.pre, v.pre) = 0
  <1>1. /\ u.major \in Int /\ u.minor \in Int /\ u.patch \in Int /\ u.pre \in Prerelease
        /\ v.major \in Int /\ v.minor \in Int /\ v.patch \in Int /\ v.pre \in Prerelease
    BY SemverAssumption DEF Version, MachineInt, MinInt, Prerelease
  <1>2. /\ comparePrerelease(u.pre, v.pre) \in {-1, 0, 1}
        /\ comparePrerelease(v.pre, u.pre) \in {-1, 0, 1}
        /\ comparePrerelease(u.pre, v.pre) + comparePrerelease(v.pre, u.pre) = 0
    BY <1>1, PrereleaseOrder
  <1>3. CASE u.major # v.major
    BY <1>1, <1>3 DEF Compare, cmpInt
  <1>4. CASE u.major = v.major /\ u.minor # v.minor
    BY <1>1, <1>4 DEF Compare, cmpInt
  <1>5. CASE u.major = v.major /\ u.minor = v.minor /\ u.patch # v.patch
    BY <1>1, <1>5 DEF Compare, cmpInt
  <1>6. CASE u.major = v.major /\ u.minor = v.minor /\ u.patch = v.patch
    BY <1>1, <1>2, <1>6 DEF Compare
  <1> QED
    BY <1>1, <1>3, <1>4, <1>5, <1>6

LEMMA CompareIsTransitive ==
    ASSUME NEW u \in Version, NEW v \in Version, NEW w \in Version,
           Compare(u, v) <= 0, Compare(v, w) <= 0
    PROVE  Compare(u, w) <= 0
  <1>1. /\ u.major \in Int /\ u.minor \in Int /\ u.patch \in Int /\ u.pre \in Prerelease
        /\ v.major \in Int /\ v.minor \in Int /\ v.patch \in Int /\ v.pre \in Prerelease
        /\ w.major \in Int /\ w.minor \in Int /\ w.patch \in Int /\ w.pre \in Prerelease
    BY CompareByNumbers
  <1>2. comparePrerelease(u.pre, v.pre) <= 0 /\ comparePrerelease(v.pre, w.pre) <= 0
        => comparePrerelease(u.pre, w.pre) <= 0
    BY <1>1, PrereleaseTransitive
  <1>3. \/ u.major < v.major
        \/ u.major = v.major /\ u.minor < v.minor
        \/ u.major = v.major /\ u.minor = v.minor /\ u.patch < v.patch
        \/ /\ u.major = v.major /\ u.minor = v.minor /\ u.patch = v.patch
           /\ comparePrerelease(u.pre, v.pre) <= 0
    BY CompareByNumbers
  <1>4. \/ v.major < w.major
        \/ v.major = w.major /\ v.minor < w.minor
        \/ v.major = w.major /\ v.minor = w.minor /\ v.patch < w.patch
        \/ /\ v.major = w.major /\ v.minor = w.minor /\ v.patch = w.patch
           /\ comparePrerelease(v.pre, w.pre) <= 0
    BY CompareByNumbers
  <1>5. \/ u.major < w.major
        \/ u.major = w.major /\ u.minor < w.minor
        \/ u.major = w.major /\ u.minor = w.minor /\ u.patch < w.patch
        \/ /\ u.major = w.major /\ u.minor = w.minor /\ u.patch = w.patch
           /\ comparePrerelease(u.pre, w.pre) <= 0
    BY <1>1, <1>2, <1>3, <1>4
  <1> QED
    BY <1>5, CompareByNumbers

LEMMA SameRankByCompare ==
    ASSUME NEW u \in Version, NEW v \in Version
    PROVE  Compare(u, v) = 0 <=> SameRank(u, v)
  <1>1. u.pre \in Prerelease /\ v.pre \in Prerelease
    BY CompareByNumbers
  <1>2. comparePrerelease(u.pre, v.pre) = 0
        <=> Len(u.pre) = Len(v.pre) /\ Agreeing(u.pre, v.pre)
    BY <1>1, PrereleaseOrder
  <1>3. ASSUME Len(u.pre) = Len(v.pre)
        PROVE  Agreeing(u.pre, v.pre)
               <=> \A i \in 1 .. Len(u.pre) : SameIdentifier(u.pre[i], v.pre[i])
    <2>1. \A i \in 1 .. Len(u.pre) : SameIdentifier(u.pre[i], v.pre[i])
                                     <=> Key(u.pre[i]) = Key(v.pre[i])
      BY <1>1, <1>3, Places, SameByKey
    <2>2. Len(u.pre) \in Nat /\ \A i \in 1 .. Len(u.pre) : i <= Len(v.pre)
      BY <1>1, <1>3, Places
    <2> QED
      BY <2>1, <2>2 DEF Agreeing, Agree
  <1>4. Core(u) = Core(v) <=> u.major = v.major /\ u.minor = v.minor /\ u.patch = v.patch
    BY DEF Core
  <1> QED
    BY <1>2, <1>3, <1>4, CompareByNumbers DEF SameRank

LEMMA TotalPreorder == IsTotalPreorder(Version)
  <1>1. ASSUME NEW u \in Version, NEW v \in Version
        PROVE  /\ Compare(u, v) = -Compare(v, u)
               /\ \A w \in Version : Compare(u, v) <= 0 /\ Compare(v, w) <= 0 => Compare(u, w) <= 0
    BY CompareByNumbers, CompareIsTransitive
  <1>2. ASSUME NEW u \in Version PROVE Compare(u, u) = 0
    <2>1. Compare(u, u) \in {-1, 0, 1} /\ Compare(u, u) = -Compare(u, u)
      BY CompareByNumbers
    <2> QED
      BY <2>1
  <1> QED
    BY <1>1, <1>2 DEF IsTotalPreorder

-----------------------------------------------------------------------------
(* What the parser cuts out of a text is a text. *)

LEMMA MinOf ==
    ASSUME NEW S \in SUBSET Nat, S # {}
    PROVE  Min(S) \in S /\ \A k \in S : Min(S) <= k
  BY NatLeast DEF Min

LEMMA MaxOf ==
    ASSUME NEW n \in Nat, NEW S \in SUBSET (0 .. n), S # {}
    PROVE  Max(S) \in S /\ \A k \in S : Max(S) >= k
  <1> DEFINE D == {n - k : k \in S}
  <1>1. D \in SUBSET Nat /\ D # {} /\ \A k \in S : n - k \in D
    <2>1. \A k \in S : n - k \in Nat
      OBVIOUS
    <2> QED
      BY <2>1
  <1>2. PICK d \in D : \A k \in D : d <= k
    <2> HIDE DEF D
    <2> QED
      BY <1>1, NatLeast
  <1>3. PICK m \in S : d = n - m
    BY <1>2
  <1>4. \A k \in S : m >= k
    <2>1. ASSUME NEW k \in S PROVE m >= k
      <3>1. n - k \in D /\ n \in Nat /\ k \in Nat /\ m \in Nat
        BY <1>1
      <3>2. n - m <= n - k
        BY <1>2, <1>3, <3>1
      <3> QED
        BY <3>1, <3>2
    <2> QED
      BY <2>1
  <1> QED
    BY <1>4 DEF Max

Text == Seq(Token)

LEMMA Cut ==
    ASSUME NEW s \in Text, NEW m \in 1 .. Len(s) + 1, NEW n \in m - 1 .. Len(s)
    PROVE  SubSeq(s, m, n) \in Text
  BY SubSeqProperties DEF Text

LEMMA TrimIsText ==
    ASSUME NEW s \in Text
    PROVE  Trim(s) \in Text
  <1> DEFINE ink == {i \in 1 .. Len(s) : s[i].kind # " "}
  <1>1. Len(s) \in Nat /\ <<>> \in Text
    BY DEF Text
  <1>2. CASE ink = {}
    BY <1>1, <1>2 DEF Trim
  <1>3. CASE ink # {}
    <2>1. ink \in SUBSET Nat /\ ink \in SUBSET (0 .. Len(s)) /\ ink \in SUBSET (1 .. Len(s))
      <3>1. ink \in SUBSET (1 .. Len(s))
        OBVIOUS
      <3> HIDE DEF ink
      <3>2. \A i \in ink : i \in Nat /\ i \in 0 .. Len(s)
        BY <1>1, <3>1
      <3> QED
        BY <3>1, <3>2
    <2>2. Min(ink) \in ink /\ Max(ink) \in ink /\ Min(ink) <= Max(ink)
      <3> HIDE DEF ink
      <3> QED
        BY <1>1, <1>3, <2>1, MinOf, MaxOf
    <2>3. Min(ink) \in 1 .. Len(s) + 1 /\ Max(ink) \in Min(ink) - 1 .. Len(s)
      <3> HIDE DEF ink
      <3> QED
        <4>1. Min(ink) \in 1 .. Len(s) /\ Max(ink) \in 1 .. Len(s)
          BY <2>1, <2>2
        <4> QED
          BY <1>1, <2>2, <4>1
    <2>4. Trim(s) = SubSeq(s, Min(ink), Max(ink))
      BY <1>3 DEF Trim
    <2> HIDE DEF ink
    <2> QED
      BY <2>3, <2>4, Cut
  <1> QED
    BY <1>2, <1>3

LEMMA FirstIsAPlace ==
    ASSUME NEW s \in Text, NEW kinds
    PROVE  First(s, kinds) \in 1 .. Len(s) + 1
  <1> DEFINE S == {i \in 1 .. Len(s) : s[i].kind \in kinds} \cup {Len(s) + 1}
  <1>1. Len(s) \in Nat
    BY DEF Text
  <1>2. S \in SUBSET Nat /\ S # {} /\ S \subseteq 1 .. Len(s) + 1
    BY <1>1
  <1>3. First(s, kinds) = Min(S)
    BY DEF First
  <1> HIDE DEF S
  <1> QED
    BY <1>2, <1>3, MinOf

LEMMA SkipCommaIsText ==
    ASSUME NEW s \in Text
    PROVE  SkipComma(s) \in Text
  <1>1. s # <<>> => Tail(s) \in Text
    BY DEF Text
  <1> QED
    BY <1>1, TrimIsText DEF SkipComma

\* Both parts of a text that is cut where the first of some kinds is.
LEMMA CutAtFirst ==
    ASSUME NEW s \in Text, NEW kinds
    PROVE  /\ SubSeq(s, 1, First(s, kinds) - 1) \in Text
           /\ SubSeq(s, First(s, kinds), Len(s)) \in Text
  <1> DEFINE f == First(s, kinds)
  <1>1. Len(s) \in Nat /\ f \in 1 .. Len(s) + 1
    BY FirstIsAPlace DEF Text
  <1>2. 1 \in 1 .. Len(s) + 1 /\ f - 1 \in 1 - 1 .. Len(s) /\ Len(s) \in f - 1 .. Len(s)
    BY <1>1
  <1> HIDE DEF f
  <1>3. SubSeq(s, 1, f - 1) \in Text /\ SubSeq(s, f, Len(s)) \in Text
    BY <1>1, <1>2, Cut
  <1> QED
    BY <1>3 DEF f

-----------------------------------------------------------------------------
(* What is parsed are nodes with versions. *)

NodeType == [op : Operators \cup {"range"}, lower : Version, upper : Version]

LEMMA ParsedIsVersion ==
    ASSUME NEW s \in Text, IsVersionText(s)
    PROVE  Parsed(s) \in Version
  <1>1. Len(s) \in {1, 3} /\ IsCore(s[1]) /\ \A i \in 1 .. Len(s) : s[i] \in Token
    BY DEF IsVersionText, Text
  <1>2. s[1].ids \in Seq(Identifier) /\ (Len(s) = 3 => s[3].ids \in Seq(Identifier))
    <2>1. s[1] \in Token /\ (Len(s) = 3 => s[3] \in Token)
      BY <1>1
    <2> QED
      BY <2>1 DEF Token
  <1>3. \A i \in 1 .. 3 : s[1].ids[i].value \in MachineInt
    <2>1. Len(s[1].ids) = 3 /\ \A i \in 1 .. 3 : s[1].ids[i].value <= MaxInt
      BY <1>1 DEF IsCore
    <2>2. ASSUME NEW i \in 1 .. 3 PROVE s[1].ids[i].value \in MachineInt
      <3>1. s[1].ids[i] \in Identifier
        BY <1>2, <2>1
      <3>2. s[1].ids[i].value \in Nat
        BY <3>1 DEF Identifier
      <3> QED
        BY <2>1, <3>2, SemverAssumption DEF MachineInt, MinInt
    <2> QED
      BY <2>2
  <1>4. (IF Len(s) = 3 THEN s[3].ids ELSE <<>>) \in Seq(Identifier)
    BY <1>2
  <1> QED
    BY <1>3, <1>4 DEF Parsed, Version

LEMMA NodeIsTyped ==
    ASSUME NEW op \in Operators \cup {"range"}, NEW v \in Version, NEW u \in Version
    PROVE  Node(op, v, u) \in NodeType
  <1>1. \A n \in MachineInt : Inc(n) \in MachineInt
    BY SemverAssumption DEF MachineInt, MinInt, Inc
  <1>2. \A a, b, c \in MachineInt : Release(a, b, c) \in Version
    BY DEF Release, Version
  <1>3. 0 \in MachineInt /\ v.major \in MachineInt /\ v.minor \in MachineInt /\ v.patch \in MachineInt
    BY SemverAssumption DEF MachineInt, MinInt, Version
  <1>4. /\ caretLower(v) \in Version /\ caretUpper(v) \in Version
        /\ tildeLower(v) \in Version /\ tildeUpper(v) \in Version
    BY <1>1, <1>2, <1>3 DEF caretLower, caretUpper, tildeLower, tildeUpper
  <1> QED
    BY <1>4 DEF Node, NodeType

IInv == rest \in Text /\ nodes \in Seq(NodeType)

LEMMA InitInv == Init => IInv
  <1> SUFFICES ASSUME Init PROVE IInv
    OBVIOUS
  <1>1. text.tokens \in Text
    BY ConstraintAssumption DEF Init, Text
  <1> QED
    BY <1>1, TrimIsText DEF Init, IInv

LEMMA StepInv == IInv /\ [Next]_vars => IInv'
  <1> SUFFICES ASSUME IInv, [Next]_vars PROVE IInv'
    OBVIOUS
  <1> DEFINE s == Current
  <1>1. s \in Text
    BY SkipCommaIsText DEF IInv, Current
  <1>2. CASE TakeRange
    <2> DEFINE r == Right(s)
               n == Node("range", Parsed(Left(s)), Parsed(Upper(s)))
    <2>1. /\ IsRange(s) /\ nodes' = Append(nodes, n)
          /\ rest' = SkipComma(Trim(SubSeq(r, RightEnd(s), Len(r))))
      BY <1>2 DEF TakeRange
    <2> HIDE DEF s, n
    <2>2. Left(s) \in Text
      BY <1>1, CutAtFirst, TrimIsText DEF Left, Dash
    <2>3. r \in Text
      <3>1. Dash(s) \in 2 .. Len(s) /\ Len(s) \in Nat
        BY <1>1, <2>1 DEF IsRange, Text
      <3>2. Dash(s) + 1 \in 1 .. Len(s) + 1 /\ Len(s) \in Dash(s) + 1 - 1 .. Len(s)
        BY <3>1
      <3>3. SubSeq(s, Dash(s) + 1, Len(s)) \in Text
        BY <1>1, <3>2, Cut
      <3> QED
        BY <3>3, TrimIsText DEF Right
    <2>4. Upper(s) \in Text /\ SubSeq(r, RightEnd(s), Len(r)) \in Text
      BY <2>3, CutAtFirst DEF Upper, RightEnd
    <2>5. Parsed(Left(s)) \in Version /\ Parsed(Upper(s)) \in Version
      BY <2>1, <2>2, <2>4, ParsedIsVersion DEF IsRange
    <2>6. n \in NodeType
      BY <2>5, NodeIsTyped DEF n
    <2>7. rest' \in Text
      BY <2>1, <2>4, TrimIsText, SkipCommaIsText
    <2> QED
      BY <2>1, <2>6, <2>7 DEF IInv
  <1>3. CASE TakeAtom
    <2> DEFINE o == Operand(s)
               v == Parsed(Atom(s))
               n == Node(Op(s), v, v)
    <2>1. /\ s # <<>> /\ IsAtom(s) /\ nodes' = Append(nodes, n)
          /\ rest' = SkipComma(Trim(SubSeq(o, OperandEnd(s), Len(o))))
      BY <1>3 DEF TakeAtom
    <2> HIDE DEF s, n
    <2>2. o \in Text
      <3>1. Tail(s) \in Text
        BY <1>1, <2>1 DEF Text
      <3> QED
        BY <1>1, <3>1, TrimIsText DEF Operand
    <2>3. Atom(s) \in Text /\ SubSeq(o, OperandEnd(s), Len(o)) \in Text
      BY <2>2, CutAtFirst DEF Atom, OperandEnd
    <2>4. v \in Version
      BY <2>1, <2>3, ParsedIsVersion DEF IsAtom
    <2>5. Op(s) \in Operators \cup {"range"}
      BY DEF Op, Operators
    <2>6. n \in NodeType
      BY <2>4, <2>5, NodeIsTyped DEF n
    <2>7. rest' \in Text
      BY <2>1, <2>3, TrimIsText, SkipCommaIsText
    <2> QED
      BY <2>1, <2>6, <2>7 DEF IInv
  <1>4. CASE Reject \/ Finish \/ Returned \/ UNCHANGED vars
    BY <1>4 DEF Reject, Finish, Returned, vars, IInv
  <1> QED
    BY <1>2, <1>3, <1>4 DEF Next

-----------------------------------------------------------------------------
(* What a node matches is an interval. *)

LEMMA AboveWhatIsBelow ==
    ASSUME NEW u \in Version, NEW v \in Version, NEW l \in Version,
           \/ Compare(u, l) >= 0 /\ Compare(v, l) < 0
           \/ Compare(u, l) > 0 /\ Compare(v, l) <= 0
    PROVE  Compare(u, v) > 0
  <1>1. /\ Compare(u, v) \in {-1, 0, 1} /\ Compare(u, l) \in {-1, 0, 1} /\ Compare(v, l) \in {-1, 0, 1}
        /\ Compare(l, u) = -Compare(u, l) /\ Compare(l, v) = -Compare(v, l)
    BY CompareByNumbers
  <1>2. ASSUME Compare(u, v) <= 0 PROVE FALSE
    <2>1. CASE Compare(u, l) >= 0 /\ Compare(v, l) < 0
      <3>1. Compare(l, u) <= 0
        BY <1>1, <2>1
      <3>2. Compare(l, v) <= 0
        BY <1>2, <3>1, CompareIsTransitive
      <3> QED
        BY <1>1, <2>1, <3>2
    <2>2. CASE Compare(u, l) > 0 /\ Compare(v, l) <= 0
      <3>1. Compare(u, l) <= 0
        BY <1>2, <2>2, CompareIsTransitive
      <3> QED
        BY <1>1, <2>2, <3>1
    <2> QED
      BY <2>1, <2>2
  <1> QED
    BY <1>1, <1>2

LEMMA NodeMatchesInterval ==
    ASSUME NEW n \in NodeType, NEW v \in Version, ~match(n, v)
    PROVE  \/ \A u \in Version : match(n, u) => Compare(u, v) > 0
           \/ \A w \in Version : match(n, w) => Compare(v, w) > 0
  <1> DEFINE l == n.lower
             x == n.upper
  <1>1. l \in Version /\ x \in Version /\ n.op \in Operators \cup {"range"}
    BY DEF NodeType
  <1>2. /\ Compare(v, l) \in {-1, 0, 1} /\ Compare(v, x) \in {-1, 0, 1}
        /\ \A u \in Version : Compare(u, l) \in {-1, 0, 1} /\ Compare(u, x) \in {-1, 0, 1}
    BY <1>1, CompareByNumbers
  <1> DEFINE Lower == \/ Compare(v, l) < 0 /\ \A u \in Version : match(n, u) => Compare(u, l) >= 0
                      \/ Compare(v, l) <= 0 /\ \A u \in Version : match(n, u) => Compare(u, l) > 0
             Higher(y) == \/ Compare(v, y) > 0 /\ \A w \in Version : match(n, w) => Compare(w, y) <= 0
                          \/ Compare(v, y) >= 0 /\ \A w \in Version : match(n, w) => Compare(w, y) < 0
  <1>3. Lower \/ Higher(l) \/ Higher(x)
    <2>1. CASE n.op = ">"
      BY <1>2, <2>1 DEF match
    <2>2. CASE n.op = "<"
      BY <1>2, <2>2 DEF match
    <2>3. CASE n.op = ">="
      BY <1>2, <2>3 DEF match
    <2>4. CASE n.op = "<="
      BY <1>2, <2>4 DEF match
    <2>5. CASE n.op = "="
      BY <1>2, <2>5 DEF match
    <2>6. CASE n.op = "range"
      BY <1>2, <2>6 DEF match
    <2>7. CASE n.op \in {"^", "~"}
      <3>1. \A u \in Version : match(n, u) <=> Compare(u, l) >= 0 /\ Compare(u, x) < 0
        BY <2>7 DEF match
      <3>2. Compare(v, l) < 0 \/ Compare(v, x) >= 0
        <4>1. ~(Compare(v, l) >= 0 /\ Compare(v, x) < 0)
          BY <3>1
        <4> HIDE DEF l, x
        <4> QED
          BY <1>2, <4>1
      <3>3. CASE Compare(v, l) < 0
        <4>1. Lower
          BY <3>1, <3>3
        <4> QED
          BY <4>1
      <3>4. CASE Compare(v, x) >= 0
        <4>1. Higher(x)
          BY <3>1, <3>4
        <4> QED
          BY <4>1
      <3> QED
        BY <3>2, <3>3, <3>4
    <2> QED
      BY <1>1, <2>1, <2>2, <2>3, <2>4, <2>5, <2>6, <2>7 DEF Operators
  <1> HIDE DEF l, x
  <1>4. CASE Lower
    BY <1>1, <1>4, AboveWhatIsBelow
  <1>5. ASSUME NEW y \in Version, Higher(y)
        PROVE  \A w \in Version : match(n, w) => Compare(v, w) > 0
    BY <1>5, AboveWhatIsBelow
  <1> QED
    BY <1>1, <1>3, <1>4, <1>5

LEMMA Interval == IInv => AcceptsAnInterval
  <1> SUFFICES ASSUME IInv, NEW v \in Samples \ Accepted
               PROVE  \/ \A u \in Accepted : Compare(u, v) > 0
                      \/ \A w \in Accepted : Compare(v, w) > 0
    BY DEF AcceptsAnInterval
  <1>1. v \in Version /\ Accepted \subseteq Version
    BY ConstraintAssumption DEF Accepted
  <1>2. PICK i \in 1 .. Len(nodes) : ~match(nodes[i], v)
    BY DEF Accepted, Matches
  <1>3. nodes[i] \in NodeType
    BY <1>2 DEF IInv
  <1>4. \A u \in Accepted : match(nodes[i], u)
    BY <1>2 DEF Accepted, Matches
  <1> QED
    BY <1>1, <1>2, <1>3, <1>4, NodeMatchesInterval

-----------------------------------------------------------------------------
(* Theorems. *)

\* Precedence is a total preorder of any versions, on ints of any width, and two versions
\* share a place in it exactly when they differ in what SameRank allows.
THEOREM Total == Spec => []OrderIsTotal
  <1>1. IInv => OrderIsTotal
    <2>1. Accepted \subseteq Version
      BY ConstraintAssumption DEF Accepted
    <2>2. IsTotalPreorder(Accepted)
      BY <2>1, TotalPreorder DEF IsTotalPreorder
    <2> QED
      BY <2>1, <2>2, SameRankByCompare DEF OrderIsTotal
  <1> QED
    BY <1>1, InitInv, StepInv, PTL DEF Spec

\* Whatever text is parsed, the versions its constraint accepts have no gap: a version that
\* is not accepted is before all of them or after all of them.
THEOREM Convex == Spec => []AcceptsAnInterval
  BY Interval, InitInv, StepInv, PTL DEF Spec

-----------------------------------------------------------------------------
(* The parser ends. *)

LEMMA CutLength ==
    ASSUME NEW s \in Text, NEW m \in 1 .. Len(s) + 1, NEW n \in m - 1 .. Len(s)
    PROVE  Len(SubSeq(s, m, n)) = n - m + 1
  <1>1. Len(s) \in Nat
    BY DEF Text
  <1> QED
    BY <1>1, SubSeqProperties DEF Text

\* What is trimmed is no longer than it was.
LEMMA TrimLength ==
    ASSUME NEW s \in Text
    PROVE  Len(Trim(s)) \in Nat /\ Len(Trim(s)) <= Len(s)
  <1> DEFINE ink == {i \in 1 .. Len(s) : s[i].kind # " "}
  <1>1. Len(s) \in Nat /\ Trim(s) \in Text
    BY TrimIsText DEF Text
  <1>2. CASE ink = {}
    <2>1. Trim(s) = <<>>
      BY <1>2 DEF Trim
    <2>2. Len(<<>>) = 0
      OBVIOUS
    <2> QED
      BY <1>1, <2>1, <2>2
  <1>3. CASE ink # {}
    <2>1. Trim(s) = SubSeq(s, Min(ink), Max(ink))
      BY <1>3 DEF Trim
    <2>2. ink \in SUBSET (1 .. Len(s))
      OBVIOUS
    <2> HIDE DEF ink
    <2>3. ink \in SUBSET Nat /\ ink \in SUBSET (0 .. Len(s))
      BY <1>1, <2>2
    <2>4. Min(ink) \in ink /\ Max(ink) \in ink /\ Min(ink) <= Max(ink)
      BY <1>1, <1>3, <2>3, MinOf, MaxOf
    <2>5. Min(ink) \in 1 .. Len(s) /\ Max(ink) \in 1 .. Len(s)
      BY <2>2, <2>4
    <2>6. Min(ink) \in 1 .. Len(s) + 1 /\ Max(ink) \in Min(ink) - 1 .. Len(s)
      BY <1>1, <2>4, <2>5
    <2>7. Len(Trim(s)) = Max(ink) - Min(ink) + 1
      BY <2>1, <2>6, CutLength
    <2> QED
      BY <1>1, <2>5, <2>6, <2>7
  <1> QED
    BY <1>2, <1>3

LEMMA SkipCommaLength ==
    ASSUME NEW s \in Text
    PROVE  Len(SkipComma(s)) \in Nat /\ Len(SkipComma(s)) <= Len(s)
  <1>1. Len(s) \in Nat
    BY DEF Text
  <1>2. s # <<>> => Tail(s) \in Text /\ Len(Tail(s)) = Len(s) - 1
    BY DEF Text
  <1>3. s # <<>> => Len(Trim(Tail(s))) \in Nat /\ Len(Trim(Tail(s))) <= Len(s) - 1
    BY <1>2, TrimLength
  <1>4. CASE s # <<>> /\ s[1].kind = ","
    <2>1. SkipComma(s) = Trim(Tail(s))
      BY <1>4 DEF SkipComma
    <2>2. Len(Trim(Tail(s))) \in Nat /\ Len(Trim(Tail(s))) <= Len(s) - 1
      BY <1>3, <1>4
    <2> QED
      BY <1>1, <2>1, <2>2
  <1>5. CASE ~(s # <<>> /\ s[1].kind = ",")
    <2>1. SkipComma(s) = s
      BY <1>5 DEF SkipComma
    <2> QED
      BY <1>1, <2>1
  <1> QED
    BY <1>4, <1>5

\* What follows a clause: the rest of its last part, trimmed and without a comma.
LEMMA RestLength ==
    ASSUME NEW o \in Text, NEW kinds, NEW f, f = First(o, kinds)
    PROVE  /\ f \in 1 .. Len(o) + 1 /\ Len(o) \in Nat
           /\ Len(SubSeq(o, 1, f - 1)) = f - 1
           /\ Len(SkipComma(Trim(SubSeq(o, f, Len(o))))) \in Nat
           /\ Len(SkipComma(Trim(SubSeq(o, f, Len(o))))) <= Len(o) - f + 1
  <1>1. Len(o) \in Nat /\ f \in 1 .. Len(o) + 1
    BY FirstIsAPlace DEF Text
  <1>2. Len(o) \in f - 1 .. Len(o) /\ 1 \in 1 .. Len(o) + 1 /\ f - 1 \in 1 - 1 .. Len(o)
    BY <1>1
  <1>3. Len(SubSeq(o, 1, f - 1)) = f - 1
    BY <1>1, <1>2, CutLength
  <1>4. PICK x : x = SubSeq(o, f, Len(o))
    OBVIOUS
  <1>5. x \in Text /\ Len(x) = Len(o) - f + 1
    BY <1>1, <1>2, <1>4, Cut, CutLength
  <1>6. Trim(x) \in Text /\ Len(Trim(x)) \in Nat /\ Len(Trim(x)) <= Len(x)
    BY <1>5, TrimIsText, TrimLength
  <1>7. Len(SkipComma(Trim(x))) \in Nat /\ Len(SkipComma(Trim(x))) <= Len(Trim(x))
    BY <1>6, SkipCommaLength
  <1>8. Len(SkipComma(Trim(x))) <= Len(o) - f + 1
    BY <1>1, <1>5, <1>6, <1>7
  <1> QED
    BY <1>1, <1>3, <1>4, <1>7, <1>8

LEMMA StepUsesText ==
    ASSUME IInv, [Next]_vars
    PROVE  Len(rest') < Len(rest) \/ status' # "parsing" \/ UNCHANGED vars
  <1>1. PICK s : s = Current
    OBVIOUS
  <1>2. s \in Text /\ Len(s) \in Nat /\ Len(s) <= Len(rest) /\ Len(rest) \in Nat
    BY <1>1, SkipCommaIsText, SkipCommaLength DEF IInv, Current, Text
  <1>3. CASE TakeRange
    <2>1. PICK r : r = Right(s)
      OBVIOUS
    <2>2. PICK f : f = RightEnd(s)
      OBVIOUS
    <2>3. IsRange(s) /\ rest' = SkipComma(Trim(SubSeq(r, f, Len(r))))
      BY <1>1, <1>3, <2>1, <2>2 DEF TakeRange
    <2>4. PICK d : d = Dash(s)
      OBVIOUS
    <2>5. d \in 2 .. Len(s)
      BY <2>3, <2>4 DEF IsRange
    <2>6. d + 1 \in 1 .. Len(s) + 1 /\ Len(s) \in d + 1 - 1 .. Len(s)
      BY <1>2, <2>5
    <2>7. SubSeq(s, d + 1, Len(s)) \in Text /\ Len(SubSeq(s, d + 1, Len(s))) = Len(s) - (d + 1) + 1
      BY <1>2, <2>6, Cut, CutLength
    <2>8. r \in Text /\ Len(r) \in Nat /\ Len(r) <= Len(SubSeq(s, d + 1, Len(s)))
      BY <2>1, <2>4, <2>7, TrimIsText, TrimLength DEF Right
    <2>9. /\ f \in 1 .. Len(r) + 1
          /\ Len(rest') \in Nat /\ Len(rest') <= Len(r) - f + 1
      BY <2>1, <2>2, <2>3, <2>8, RestLength DEF RightEnd
    <2>10. Len(rest') < Len(s)
      BY <1>2, <2>5, <2>7, <2>8, <2>9
    <2> QED
      BY <1>2, <2>9, <2>10
  <1>4. CASE TakeAtom
    <2>1. PICK o : o = Operand(s)
      OBVIOUS
    <2>2. PICK f : f = OperandEnd(s)
      OBVIOUS
    <2>3. s # <<>> /\ IsAtom(s) /\ rest' = SkipComma(Trim(SubSeq(o, f, Len(o))))
      BY <1>1, <1>4, <2>1, <2>2 DEF TakeAtom
    <2>4. Tail(s) \in Text /\ Len(Tail(s)) = Len(s) - 1
      BY <1>2, <2>3 DEF Text
    <2>5. o \in Text /\ Len(o) \in Nat /\ Len(o) <= Len(s)
      <3>1. o = Trim(Tail(s)) \/ o = s
        BY <2>1 DEF Operand
      <3>2. Trim(Tail(s)) \in Text /\ Len(Trim(Tail(s))) \in Nat /\ Len(Trim(Tail(s))) <= Len(s) - 1
        BY <2>4, TrimIsText, TrimLength
      <3> QED
        BY <1>2, <3>1, <3>2
    <2>6. /\ f \in 1 .. Len(o) + 1 /\ Len(SubSeq(o, 1, f - 1)) = f - 1
          /\ Len(rest') \in Nat /\ Len(rest') <= Len(o) - f + 1
      BY <2>1, <2>2, <2>3, <2>5, RestLength DEF OperandEnd
    <2>7. f - 1 \in {1, 3}
      BY <2>1, <2>2, <2>3, <2>6 DEF IsAtom, IsVersionText, Atom
    <2>8. Len(rest') < Len(s)
      BY <1>2, <2>5, <2>6, <2>7
    <2> QED
      BY <1>2, <2>6, <2>8
  <1>5. CASE Reject \/ Finish \/ Returned \/ UNCHANGED vars
    BY <1>5 DEF Reject, Finish, Returned
  <1> QED
    BY <1>3, <1>4, <1>5 DEF Next

\* Every clause uses up text, whatever the text; so the parser ends.
THEOREM Ends == Spec => UsesUpText
  <1>1. IInv /\ [Next]_vars => [Len(rest') < Len(rest) \/ status' # "parsing"]_vars
    BY StepUsesText
  <1> QED
    BY <1>1, InitInv, StepInv, PTL DEF Spec, UsesUpText

-----------------------------------------------------------------------------
(* What a clause means, on releases. *)

LEMMA CoreOf == \A v : Core(v)[1] = v.major /\ Core(v)[2] = v.minor /\ Core(v)[3] = v.patch
  BY DEF Core

LEMMA AtLeastByNumbers ==
    ASSUME NEW u, NEW v
    PROVE  AtLeast(u, v) <=>
              \/ u.major > v.major
              \/ u.major = v.major /\ u.minor > v.minor
              \/ u.major = v.major /\ u.minor = v.minor /\ u.patch > v.patch
              \/ u.major = v.major /\ u.minor = v.minor /\ u.patch = v.patch
  <1>1. Core(u) = Core(v) <=> u.major = v.major /\ u.minor = v.minor /\ u.patch = v.patch
    BY DEF Core
  <1>2. ASSUME NEW i \in 1 .. 3 PROVE i \in {1, 2, 3}
    OBVIOUS
  <1>3. 1 .. 0 = {} /\ 1 .. 1 = {1} /\ 1 .. 2 = {1, 2} /\ 1 .. 3 = {1, 2, 3}
    OBVIOUS
  <1>4. (\E i \in 1 .. 3 : Core(u)[i] > Core(v)[i] /\ \A j \in 1 .. i - 1 : Core(u)[j] = Core(v)[j])
        <=> \/ u.major > v.major
            \/ u.major = v.major /\ u.minor > v.minor
            \/ u.major = v.major /\ u.minor = v.minor /\ u.patch > v.patch
    <2> DEFINE P(i) == Core(u)[i] > Core(v)[i] /\ \A j \in 1 .. i - 1 : Core(u)[j] = Core(v)[j]
    <2>1. P(1) <=> u.major > v.major
      BY <1>3, CoreOf
    <2>2. P(2) <=> u.major = v.major /\ u.minor > v.minor
      <3>1. 2 - 1 = 1
        OBVIOUS
      <3> QED
        BY <1>3, <3>1, CoreOf
    <2>3. P(3) <=> u.major = v.major /\ u.minor = v.minor /\ u.patch > v.patch
      <3>1. 3 - 1 = 2
        OBVIOUS
      <3> QED
        BY <1>3, <3>1, CoreOf
    <2> HIDE DEF P
    <2>4. (\E i \in 1 .. 3 : P(i)) <=> P(1) \/ P(2) \/ P(3)
      BY <1>3
    <2> QED
      BY <2>1, <2>2, <2>3, <2>4 DEF P
  <1> QED
    BY <1>1, <1>4 DEF AtLeast

\* Compare decides the order of releases.
LEMMA CompareReleases ==
    ASSUME NEW u \in Version, NEW v \in Version, u.pre = <<>>, v.pre = <<>>
    PROVE  /\ Compare(u, v) >= 0 <=> AtLeast(u, v)
           /\ Compare(u, v) < 0 <=> ~AtLeast(u, v)
           /\ Compare(u, v) > 0 <=> ~AtLeast(v, u)
           /\ Compare(u, v) <= 0 <=> AtLeast(v, u)
           /\ Compare(u, v) = 0 <=> Core(u) = Core(v)
  <1>1. /\ u.major \in Int /\ u.minor \in Int /\ u.patch \in Int
        /\ v.major \in Int /\ v.minor \in Int /\ v.patch \in Int
    BY CompareByNumbers
  <1>2. comparePrerelease(u.pre, v.pre) = 0
    BY DEF comparePrerelease
  <1>3. Compare(u, v) <= 0 <=>
           \/ u.major < v.major
           \/ u.major = v.major /\ u.minor < v.minor
           \/ u.major = v.major /\ u.minor = v.minor /\ u.patch < v.patch
           \/ u.major = v.major /\ u.minor = v.minor /\ u.patch = v.patch
    BY <1>2, CompareByNumbers
  <1>4. Compare(u, v) = 0 <=> u.major = v.major /\ u.minor = v.minor /\ u.patch = v.patch
    BY <1>2, CompareByNumbers
  <1>5. Compare(u, v) \in {-1, 0, 1}
    BY CompareByNumbers
  <1>6. Compare(u, v) <= 0 <=> AtLeast(v, u)
    BY <1>1, <1>3, AtLeastByNumbers
  <1>7. Core(u) = Core(v) <=> u.major = v.major /\ u.minor = v.minor /\ u.patch = v.patch
    BY DEF Core
  <1>8. AtLeast(u, v) <=> AtLeast(v, u) => Compare(u, v) = 0
    BY <1>1, <1>4, AtLeastByNumbers
  <1>9. Compare(u, v) = 0 => AtLeast(u, v)
    BY <1>4, AtLeastByNumbers
  <1> QED
    BY <1>4, <1>5, <1>6, <1>7, <1>8, <1>9

\* The numbers that ^ and ~ keep.
LEMMA LastKeptOf ==
    ASSUME NEW v
    PROVE  /\ LastKept("~", v) = 2
           /\ LastKept("^", v) = IF v.major # 0 THEN 1 ELSE IF v.minor # 0 THEN 2 ELSE 3
  <1>1. LastKept("~", v) = 2
    BY DEF LastKept
  <1> DEFINE S == {i \in 1 .. 3 : Core(v)[i] # 0} \cup {3}
  <1>2. /\ 1 \in S <=> v.major # 0
        /\ 2 \in S <=> v.minor # 0
        /\ 3 \in S
        /\ \A i \in S : i \in {1, 2, 3}
    BY CoreOf
  <1>3. LastKept("^", v) = Min(S)
    BY DEF LastKept
  <1> HIDE DEF S
  <1>4. S \in SUBSET Nat /\ S # {}
    BY <1>2
  <1>5. Min(S) \in S /\ \A k \in S : Min(S) <= k
    BY <1>4, MinOf
  <1> QED
    BY <1>1, <1>2, <1>3, <1>5

LEMMA KeepsByNumbers ==
    ASSUME NEW b, NEW v
    PROVE  /\ Keeps("~", b, v) <=> v.major = b.major /\ v.minor = b.minor
           /\ Keeps("^", b, v) <=> /\ v.major = b.major
                                   /\ b.major = 0 => v.minor = b.minor
                                   /\ b.major = 0 /\ b.minor = 0 => v.patch = b.patch
  <1>1. 1 .. 1 = {1} /\ 1 .. 2 = {1, 2} /\ 1 .. 3 = {1, 2, 3}
    OBVIOUS
  <1>2. Keeps("~", b, v) <=> v.major = b.major /\ v.minor = b.minor
    BY <1>1, LastKeptOf, CoreOf DEF Keeps
  <1>3. CASE b.major # 0
    BY <1>1, <1>2, <1>3, LastKeptOf, CoreOf DEF Keeps
  <1>4. CASE b.major = 0 /\ b.minor # 0
    BY <1>1, <1>2, <1>4, LastKeptOf, CoreOf DEF Keeps
  <1>5. CASE b.major = 0 /\ b.minor = 0
    BY <1>1, <1>2, <1>5, LastKeptOf, CoreOf DEF Keeps
  <1> QED
    BY <1>3, <1>4, <1>5

\* A version as it is parsed from a clause.
LEMMA ReleaseFields ==
    ASSUME NEW v \in Releases
    PROVE  /\ v \in Version /\ v.pre = <<>> /\ v.build = 0
           /\ v.major \in 0 .. MaxInt /\ v.minor \in 0 .. MaxInt /\ v.patch \in 0 .. MaxInt
           /\ v = Release(v.major, v.minor, v.patch)
  <1>1. PICK a \in 0 .. MaxInt, b \in 0 .. MaxInt, c \in 0 .. MaxInt : v = Release(a, b, c)
    BY DEF Releases
  <1>2. a \in MachineInt /\ b \in MachineInt /\ c \in MachineInt
    BY SemverAssumption DEF MachineInt, MinInt
  <1> QED
    BY <1>1, <1>2 DEF Release, Version

\* The node that a clause becomes.
NodeOf(c) == Node(c.op, c.from, IF c.op = "range" THEN c.to ELSE c.from)

LEMMA NodeOfClause ==
    ASSUME NEW c \in Clause
    PROVE  /\ c.op \in Operators \cup {"range"} /\ c.from \in Releases /\ c.to \in Releases
           /\ NodeOf(c).op = c.op
           /\ c.op = "^" => NodeOf(c).lower = c.from /\ NodeOf(c).upper = caretUpper(c.from)
           /\ c.op = "~" => NodeOf(c).lower = c.from /\ NodeOf(c).upper = tildeUpper(c.from)
           /\ c.op \notin {"^", "~"} => NodeOf(c).lower = c.from
           /\ c.op = "range" => NodeOf(c).upper = c.to
  <1>1. c.op \in Operators \cup {"range"} /\ c.from \in Releases /\ c.to \in Releases
    BY DEF Clause
  <1>2. c.from = Release(c.from.major, c.from.minor, c.from.patch)
    BY <1>1, ReleaseFields
  <1> QED
    BY <1>1, <1>2 DEF NodeOf, Node, caretLower, tildeLower

\* The upper end of ^ and ~ lets pass what keeps the numbers, and nothing after it.
LEMMA UpperEnd ==
    ASSUME NEW c \in Clause, c.op \in {"^", "~"}, NEW v \in Version, v.pre = <<>>,
           v.major >= 0, v.minor >= 0, v.patch >= 0, AtLeast(v, c.from)
    PROVE  /\ ~AtLeast(v, NodeOf(c).upper) => Keeps(c.op, c.from, v)
           /\ Keeps(c.op, c.from, v) /\ ~AtTheTop(c) => ~AtLeast(v, NodeOf(c).upper)
  <1> DEFINE b == c.from
  <1>1. PICK x, y, z : x = b.major /\ y = b.minor /\ z = b.patch
    OBVIOUS
  <1>2. PICK m, n, p : m = v.major /\ n = v.minor /\ p = v.patch
    OBVIOUS
  <1>3. b \in Releases
    BY NodeOfClause
  <1>4. x \in 0 .. MaxInt /\ y \in 0 .. MaxInt /\ z \in 0 .. MaxInt
    BY <1>1, <1>3, ReleaseFields
  <1>5. m \in Nat /\ n \in Nat /\ p \in Nat
    BY <1>2, CompareByNumbers
  <1>6. \/ m > x
        \/ m = x /\ n > y
        \/ m = x /\ n = y /\ p > z
        \/ m = x /\ n = y /\ p = z
    BY <1>1, <1>2, AtLeastByNumbers
  <1>7. \A i, j, k : AtLeast(v, Release(i, j, k)) <=>
                        \/ m > i
                        \/ m = i /\ n > j
                        \/ m = i /\ n = j /\ p > k
                        \/ m = i /\ n = j /\ p = k
    BY <1>2, AtLeastByNumbers DEF Release
  <1>8. MaxInt \in Nat
    BY SemverAssumption
  <1>9. CASE c.op = "~"
    <2>1. NodeOf(c).upper = Release(x, Inc(y), 0)
      BY <1>1, <1>9, NodeOfClause DEF tildeUpper
    <2>2. Keeps(c.op, b, v) <=> m = x /\ n = y
      BY <1>1, <1>2, <1>9, KeepsByNumbers
    <2>3. AtTheTop(c) <=> y = MaxInt
      BY <1>1, <1>9, LastKeptOf, CoreOf DEF AtTheTop
    <2>4. Inc(y) = IF y = MaxInt THEN -MaxInt - 1 ELSE y + 1
      BY DEF Inc, MinInt
    <2> QED
      BY <1>4, <1>5, <1>6, <1>7, <1>8, <2>1, <2>2, <2>3, <2>4
  <1>10. CASE c.op = "^"
    <2>1. NodeOf(c).upper = IF x > 0 THEN Release(Inc(x), 0, 0)
                            ELSE IF y > 0 THEN Release(0, Inc(y), 0) ELSE Release(0, 0, Inc(z))
      BY <1>1, <1>10, NodeOfClause DEF caretUpper
    <2>2. Keeps(c.op, b, v) <=> /\ m = x
                                /\ x = 0 => n = y
                                /\ x = 0 /\ y = 0 => p = z
      BY <1>1, <1>2, <1>10, KeepsByNumbers
    <2>3. AtTheTop(c) <=> (IF x # 0 THEN x ELSE IF y # 0 THEN y ELSE z) = MaxInt
      BY <1>1, <1>10, LastKeptOf, CoreOf DEF AtTheTop
    <2>4. \A i : Inc(i) = IF i = MaxInt THEN -MaxInt - 1 ELSE i + 1
      BY DEF Inc, MinInt
    <2>5. CASE x > 0
      BY <1>4, <1>5, <1>6, <1>7, <1>8, <2>1, <2>2, <2>3, <2>4, <2>5
    <2>6. CASE x = 0 /\ y > 0
      BY <1>4, <1>5, <1>6, <1>7, <1>8, <2>1, <2>2, <2>3, <2>4, <2>6
    <2>7. CASE x = 0 /\ y = 0
      BY <1>4, <1>5, <1>6, <1>7, <1>8, <2>1, <2>2, <2>3, <2>4, <2>7
    <2> QED
      BY <1>4, <2>5, <2>6, <2>7
  <1> QED
    BY <1>9, <1>10

\* A node matches the releases that its clause means; next to the largest int perhaps fewer.
LEMMA NodeMeansClause ==
    ASSUME NEW c \in Clause, NEW v \in Version, v.pre = <<>>,
           v.major >= 0, v.minor >= 0, v.patch >= 0
    PROVE  /\ match(NodeOf(c), v) => Means(c, v)
           /\ Means(c, v) /\ ~AtTheTop(c) => match(NodeOf(c), v)
  <1> DEFINE n == NodeOf(c)
  <1>1. c.op \in Operators \cup {"range"} /\ c.from \in Releases /\ c.to \in Releases /\ n.op = c.op
    BY NodeOfClause
  <1>2. c.from \in Version /\ c.from.pre = <<>> /\ c.to \in Version /\ c.to.pre = <<>>
    BY <1>1, ReleaseFields
  <1>3. n.lower = c.from
    BY NodeOfClause
  <1> HIDE DEF n
  <1>4. CASE c.op \in {">=", "<=", "=", ">", "<"}
    <2>1. Core(v) = Core(c.from) <=> Compare(v, c.from) = 0
      BY <1>2, CompareReleases
    <2>2. /\ Compare(v, c.from) >= 0 <=> AtLeast(v, c.from)
          /\ Compare(v, c.from) < 0 <=> ~AtLeast(v, c.from)
          /\ Compare(v, c.from) > 0 <=> ~AtLeast(c.from, v)
          /\ Compare(v, c.from) <= 0 <=> AtLeast(c.from, v)
      BY <1>2, CompareReleases
    <2>3. CASE c.op = ">="
      BY <1>1, <1>3, <2>2, <2>3 DEF match, Means, n
    <2>4. CASE c.op = "<="
      BY <1>1, <1>3, <2>2, <2>4 DEF match, Means, n
    <2>5. CASE c.op = "="
      BY <1>1, <1>3, <2>1, <2>5 DEF match, Means, n
    <2>6. CASE c.op = ">"
      BY <1>1, <1>3, <2>2, <2>6 DEF match, Means, n
    <2>7. CASE c.op = "<"
      BY <1>1, <1>3, <2>2, <2>7 DEF match, Means, n
    <2> QED
      BY <1>4, <2>3, <2>4, <2>5, <2>6, <2>7
  <1>5. CASE c.op = "range"
    <2>1. n.upper = c.to
      BY <1>5, NodeOfClause DEF n
    <2>2. /\ Compare(v, c.from) >= 0 <=> AtLeast(v, c.from)
          /\ Compare(v, c.to) <= 0 <=> AtLeast(c.to, v)
      BY <1>2, CompareReleases
    <2>3. match(n, v) <=> Compare(v, n.lower) >= 0 /\ Compare(v, n.upper) <= 0
      BY <1>1, <1>5 DEF match
    <2>4. Means(c, v) <=> AtLeast(v, c.from) /\ AtLeast(c.to, v)
      BY <1>5 DEF Means
    <2> QED
      BY <1>3, <2>1, <2>2, <2>3, <2>4 DEF n
  <1>6. CASE c.op \in {"^", "~"}
    <2>1. n.upper \in Version /\ n.upper.pre = <<>>
      <3>1. PICK b : b = c.from
        OBVIOUS
      <3>2. \A i \in MachineInt : Inc(i) \in MachineInt
        BY SemverAssumption DEF MachineInt, MinInt, Inc
      <3>3. 0 \in MachineInt /\ b.major \in MachineInt /\ b.minor \in MachineInt /\ b.patch \in MachineInt
        <4>1. b \in Version
          BY <1>2, <3>1
        <4>2. 0 \in MachineInt
          BY SemverAssumption DEF MachineInt, MinInt
        <4> QED
          BY <4>1, <4>2 DEF Version
      <3>4. \A i, j, k \in MachineInt : Release(i, j, k) \in Version /\ Release(i, j, k).pre = <<>>
        BY DEF Release, Version
      <3>5. n.upper \in {caretUpper(b), tildeUpper(b)}
        BY <1>6, <3>1, NodeOfClause DEF n
      <3>6. \E i, j, k \in MachineInt : n.upper = Release(i, j, k)
        <4>1. CASE n.upper = tildeUpper(b)
          BY <3>2, <3>3, <4>1 DEF tildeUpper
        <4>2. CASE n.upper = caretUpper(b)
          BY <3>2, <3>3, <4>2 DEF caretUpper
        <4> QED
          BY <3>5, <4>1, <4>2
      <3> QED
        BY <3>4, <3>6
    <2>2. /\ Compare(v, c.from) >= 0 <=> AtLeast(v, c.from)
          /\ Compare(v, n.upper) < 0 <=> ~AtLeast(v, n.upper)
      BY <1>2, <2>1, CompareReleases
    <2>3. match(n, v) <=> AtLeast(v, c.from) /\ ~AtLeast(v, n.upper)
      BY <1>1, <1>3, <1>6, <2>2 DEF match
    <2>4. Means(c, v) <=> AtLeast(v, c.from) /\ Keeps(c.op, c.from, v)
      BY <1>6 DEF Means
    <2>5. AtLeast(v, c.from) =>
             /\ ~AtLeast(v, n.upper) => Keeps(c.op, c.from, v)
             /\ Keeps(c.op, c.from, v) /\ ~AtTheTop(c) => ~AtLeast(v, n.upper)
      BY <1>6, UpperEnd DEF n
    <2> QED
      BY <2>3, <2>4, <2>5 DEF n
  <1> QED
    BY <1>1, <1>4, <1>5, <1>6 DEF Operators

-----------------------------------------------------------------------------
(* Pieces of a text. *)

Suffix(s, p) == SubSeq(s, p, Len(s))

LEMMA Piece ==
    ASSUME NEW s \in Text, NEW m \in 1 .. Len(s) + 1, NEW n \in m - 1 .. Len(s),
           NEW x, x = SubSeq(s, m, n)
    PROVE  /\ x \in Text /\ Len(x) = n - m + 1
           /\ \A i \in 1 .. n - m + 1 : x[i] = s[m + i - 1]
  <1>1. Len(s) \in Nat
    BY DEF Text
  <1>2. m \in Int /\ n \in Int /\ \A i \in m .. n : s[i] \in Token
    BY <1>1 DEF Text
  <1>3. \A i \in 1 .. n - m + 1 : x[i] = s[m + i - 1]
    BY <1>2, SubSeqProperties
  <1> QED
    BY <1>3, Cut, CutLength

LEMMA SuffixOf ==
    ASSUME NEW s \in Text, NEW p \in 1 .. Len(s) + 1, NEW x, x = Suffix(s, p)
    PROVE  /\ x \in Text /\ Len(s) \in Nat /\ Len(x) = Len(s) - p + 1
           /\ \A i \in 1 .. Len(x) : x[i] = s[p + i - 1]
  <1>1. Len(s) \in Nat
    BY DEF Text
  <1>2. Len(s) \in p - 1 .. Len(s)
    BY <1>1
  <1>3. /\ x \in Text /\ Len(x) = Len(s) - p + 1
        /\ \A i \in 1 .. Len(s) - p + 1 : x[i] = s[p + i - 1]
    BY <1>2, Piece DEF Suffix
  <1> QED
    BY <1>1, <1>3

LEMMA SameText ==
    ASSUME NEW x \in Text, NEW y \in Text, Len(x) = Len(y), \A i \in 1 .. Len(x) : x[i] = y[i]
    PROVE  x = y
  BY DEF Text

LEMMA SuffixOfSuffix ==
    ASSUME NEW s \in Text, NEW p \in 1 .. Len(s) + 1, NEW q \in 1 .. Len(s) - p + 2
    PROVE  Suffix(Suffix(s, p), q) = Suffix(s, p + q - 1)
  <1>1. Len(s) \in Nat
    BY DEF Text
  <1>2. PICK x : x = Suffix(s, p)
    OBVIOUS
  <1>3. /\ x \in Text /\ Len(x) = Len(s) - p + 1
        /\ \A i \in 1 .. Len(x) : x[i] = s[p + i - 1]
    BY <1>2, SuffixOf
  <1>4. PICK y : y = Suffix(x, q)
    OBVIOUS
  <1>5. q \in 1 .. Len(x) + 1 /\ p + q - 1 \in 1 .. Len(s) + 1
    BY <1>1, <1>3
  <1>6. /\ y \in Text /\ Len(y) = Len(x) - q + 1
        /\ \A i \in 1 .. Len(y) : y[i] = x[q + i - 1]
    <2>1. x \in Text
      BY <1>3
    <2> QED
      BY <1>4, <1>5, <2>1, SuffixOf
  <1>7. PICK z : z = Suffix(s, p + q - 1)
    OBVIOUS
  <1>8. /\ z \in Text /\ Len(z) = Len(s) - (p + q - 1) + 1
        /\ \A i \in 1 .. Len(z) : z[i] = s[p + q - 1 + i - 1]
    BY <1>5, <1>7, SuffixOf
  <1>9. Len(y) = Len(z)
    BY <1>1, <1>3, <1>5, <1>6, <1>8
  <1>10. ASSUME NEW i \in 1 .. Len(y) PROVE y[i] = z[i]
    <2>1. q + i - 1 \in 1 .. Len(x) /\ p + (q + i - 1) - 1 = p + q - 1 + i - 1
      BY <1>1, <1>3, <1>5, <1>6
    <2> QED
      BY <1>3, <1>6, <1>8, <1>9, <2>1
  <1> QED
    BY <1>2, <1>4, <1>6, <1>7, <1>8, <1>9, <1>10, SameText

LEMMA TailIsSuffix ==
    ASSUME NEW s \in Text, s # <<>>
    PROVE  Tail(s) = Suffix(s, 2)
  <1>1. /\ Tail(s) \in Text /\ Len(Tail(s)) = Len(s) - 1 /\ Len(s) \in Nat \ {0}
        /\ \A i \in 1 .. Len(s) - 1 : Tail(s)[i] = s[i + 1]
    BY DEF Text
  <1>2. 2 \in 1 .. Len(s) + 1
    BY <1>1
  <1>3. PICK x : x = Suffix(s, 2)
    OBVIOUS
  <1>4. /\ x \in Text /\ Len(x) = Len(s) - 2 + 1
        /\ \A i \in 1 .. Len(x) : x[i] = s[2 + i - 1]
    BY <1>2, <1>3, SuffixOf
  <1>5. Len(x) = Len(Tail(s)) /\ \A i \in 1 .. Len(x) : x[i] = Tail(s)[i]
    <2>1. \A i \in 1 .. Len(x) : 2 + i - 1 = i + 1
      OBVIOUS
    <2> QED
      BY <1>1, <1>4, <2>1
  <1> QED
    BY <1>1, <1>3, <1>4, <1>5, SameText

LEMMA LeastIs ==
    ASSUME NEW S \in SUBSET Nat, NEW k \in S, \A i \in S : k <= i
    PROVE  Min(S) = k
  <1>1. Min(S) \in S /\ \A i \in S : Min(S) <= i
    BY MinOf
  <1>2. Min(S) \in Nat /\ k \in Nat /\ Min(S) <= k /\ k <= Min(S)
    BY <1>1
  <1> QED
    BY <1>2

LEMMA FirstIs ==
    ASSUME NEW s \in Text, NEW kinds, NEW k \in 1 .. Len(s) + 1,
           \A i \in 1 .. k - 1 : s[i].kind \notin kinds,
           k = Len(s) + 1 \/ s[k].kind \in kinds
    PROVE  First(s, kinds) = k
  <1> DEFINE S == {i \in 1 .. Len(s) : s[i].kind \in kinds} \cup {Len(s) + 1}
  <1>1. Len(s) \in Nat
    BY DEF Text
  <1>2. S \in SUBSET Nat /\ k \in S
    BY <1>1
  <1>3. ASSUME NEW i \in S PROVE k <= i
    <2>1. i \in 1 .. Len(s) + 1 /\ (i \in 1 .. Len(s) => s[i].kind \in kinds)
      BY <1>1
    <2>2. i \notin 1 .. k - 1
      BY <1>1, <2>1
    <2> HIDE DEF S
    <2> QED
      BY <1>1, <2>1, <2>2
  <1>4. First(s, kinds) = Min(S)
    BY DEF First
  <1> HIDE DEF S
  <1> QED
    BY <1>2, <1>3, <1>4, LeastIs

\* The provers are kept from the characters.
Blank(x) == x.kind = " "
Comma(x) == x.kind = ","
Hyphen(x) == x.kind = "-"
Enders == {" ", ","}
Ink(s) == {i \in 1 .. Len(s) : ~Blank(s[i])}

LEMMA TrimByInk ==
    ASSUME NEW s, Ink(s) # {} PROVE Trim(s) = SubSeq(s, Min(Ink(s)), Max(Ink(s)))
  <1>1. Ink(s) = {i \in 1 .. Len(s) : s[i].kind # " "}
    BY Zenon DEF Ink, Blank
  <1> QED
    BY <1>1, Zenon DEF Trim

\* Of a text that does not end with a blank, Trim takes the blanks at the start.
LEMMA TrimIs ==
    ASSUME NEW s \in Text, NEW n \in Nat, n = Len(s),
           NEW k \in 1 .. n, ~Blank(s[k]), ~Blank(s[n]), \A i \in 1 .. k - 1 : Blank(s[i])
    PROVE  Trim(s) = Suffix(s, k)
  <1> DEFINE ink == Ink(s)
  <1>1. n \in 1 .. n
    OBVIOUS
  <1>2. ink \in SUBSET (1 .. n) /\ k \in ink /\ n \in ink
    BY <1>1 DEF Ink
  <1>3. ASSUME NEW i \in ink PROVE k <= i
    <2>1. i \in 1 .. n /\ ~Blank(s[i])
      BY DEF Ink
    <2>2. i \notin 1 .. k - 1
      BY <2>1
    <2> HIDE DEF ink
    <2> QED
      BY <1>1, <2>1, <2>2
  <1>4. Trim(s) = SubSeq(s, Min(ink), Max(ink))
    BY <1>2, TrimByInk
  <1> HIDE DEF ink
  <1>5. ink \in SUBSET Nat /\ ink \in SUBSET (0 .. n) /\ ink # {}
    <2>1. \A i \in 1 .. n : i \in Nat /\ i \in 0 .. n
      BY <1>1
    <2> QED
      BY <1>2, <2>1
  <1>6. Min(ink) = k
    BY <1>2, <1>3, <1>5, LeastIs
  <1>7. Max(ink) \in ink /\ \A i \in ink : Max(ink) >= i
    BY <1>1, <1>5, MaxOf
  <1>8. Max(ink) = n
    <2>1. Max(ink) >= n /\ Max(ink) \in 1 .. n
      BY <1>2, <1>7
    <2>2. Max(ink) \in Nat /\ Max(ink) <= n
      BY <1>1, <2>1
    <2> QED
      BY <1>1, <2>1, <2>2
  <1> QED
    BY <1>4, <1>6, <1>8 DEF Suffix

\* A suffix that has a token begins with it.
LEMMA SuffixStart ==
    ASSUME NEW s \in Text, NEW p \in 1 .. Len(s), NEW x, x = Suffix(s, p)
    PROVE  /\ x \in Text /\ x # <<>> /\ x[1] = s[p] /\ Len(s) \in Nat
           /\ Len(x) = Len(s) - p + 1 /\ Len(x) \in Nat \ {0}
           /\ \A i \in 1 .. Len(x) : x[i] = s[p + i - 1]
           /\ Tail(x) = Suffix(s, p + 1)
  <1>1. Len(s) \in Nat /\ p \in 1 .. Len(s) + 1
    BY DEF Text
  <1>2. /\ x \in Text /\ Len(x) = Len(s) - p + 1
        /\ \A i \in 1 .. Len(x) : x[i] = s[p + i - 1]
    BY <1>1, SuffixOf
  <1>3. Len(x) \in Nat \ {0} /\ 1 \in 1 .. Len(x) /\ p + 1 - 1 = p /\ p + 2 - 1 = p + 1
    BY <1>1, <1>2
  <1>4. x # <<>>
    <2>1. Len(<<>>) = 0
      OBVIOUS
    <2> QED
      BY <1>3, <2>1
  <1>5. x[1] = s[p]
    BY <1>2, <1>3
  <1>6. Tail(x) = Suffix(s, p + 1)
    <2>1. 2 \in 1 .. Len(s) - p + 2
      BY <1>1
    <2> QED
      BY <1>1, <1>2, <1>3, <1>4, <2>1, TailIsSuffix, SuffixOfSuffix
  <1> QED
    BY <1>1, <1>2, <1>3, <1>4, <1>5, <1>6

LEMMA SuffixOfLength ==
    ASSUME NEW s \in Text, NEW n \in Nat, n = Len(s), NEW p \in 1 .. n, NEW x, x = Suffix(s, p)
    PROVE  x \in Text /\ Len(x) = n - p + 1 /\ \A i \in 1 .. n - p + 1 : x[i] = s[p + i - 1]
  <1>1. p \in 1 .. Len(s)
    OBVIOUS
  <1>2. \A i \in 1 .. Len(x) : x[i] = s[p + i - 1]
    BY <1>1, SuffixStart
  <1>3. x \in Text /\ Len(x) = Len(s) - p + 1
    BY <1>1, SuffixStart
  <1> QED
    BY <1>2, <1>3

LEMMA TrimSuffix ==
    ASSUME NEW s \in Text, NEW n \in Nat, n = Len(s), ~Blank(s[n]),
           NEW p \in 1 .. n, NEW q \in p .. n, ~Blank(s[q]), \A i \in p .. q - 1 : Blank(s[i])
    PROVE  Trim(Suffix(s, p)) = Suffix(s, q)
  <1>1. PICK x : x = Suffix(s, p)
    OBVIOUS
  <1>2. /\ x \in Text /\ Len(x) = n - p + 1
        /\ \A i \in 1 .. n - p + 1 : x[i] = s[p + i - 1]
    <2>1. x \in Text
      BY <1>1, SuffixOfLength
    <2>2. Len(x) = n - p + 1
      BY <1>1, SuffixOfLength
    <2>3. \A j \in 1 .. n - p + 1 : x[j] = s[p + j - 1]
      BY ONLY s \in Text, n \in Nat, n = Len(s), p \in 1 .. n, <1>1, SuffixOfLength, SMTT(30)
    <2> QED
      BY <2>1, <2>2, <2>3
  <1>3. PICK m, k : m = n - p + 1 /\ k = q - p + 1
    OBVIOUS
  <1>4. m \in Nat /\ k \in 1 .. m /\ m \in 1 .. m /\ p + m - 1 = n /\ p + k - 1 = q
    BY <1>3
  <1>5. ~Blank(x[k]) /\ ~Blank(x[m])
    <2>1. x[k] = s[p + k - 1] /\ x[m] = s[p + m - 1]
      BY <1>2, <1>3, <1>4
    <2>2. x[k] = s[q] /\ x[m] = s[n]
      BY <1>4, <2>1
    <2> QED
      BY <2>2
  <1>6. ASSUME NEW i \in 1 .. k - 1 PROVE Blank(x[i])
    <2>1. i \in 1 .. m /\ p + i - 1 \in p .. q - 1
      BY <1>3, <1>4
    <2> QED
      BY <1>2, <1>3, <2>1
  <1>7. Trim(x) = Suffix(x, k)
    BY <1>2, <1>3, <1>4, <1>5, <1>6, TrimIs
  <1>8. Suffix(x, k) = Suffix(s, q)
    <2>1. p \in 1 .. Len(s) + 1 /\ k \in 1 .. Len(s) - p + 2
      BY <1>3
    <2> QED
      BY <1>1, <1>4, <2>1, SuffixOfSuffix
  <1> QED
    BY <1>1, <1>7, <1>8

LEMMA SuffixAtEnd ==
    ASSUME NEW s \in Text
    PROVE  Suffix(s, Len(s) + 1) = <<>> /\ Trim(<<>>) = <<>> /\ SkipComma(<<>>) = <<>>
  <1>1. Len(s) \in Nat
    BY DEF Text
  <1>2. Len(s) + 1 \in Int /\ Len(s) \in Int /\ Len(s) < Len(s) + 1
    BY <1>1
  <1>3. Suffix(s, Len(s) + 1) = <<>>
    BY <1>2, SubSeqEmpty DEF Suffix
  <1>4. 1 .. Len(<<>>) = {}
    OBVIOUS
  <1>5. Trim(<<>>) = <<>>
    BY <1>4, Zenon DEF Trim
  <1> QED
    BY <1>3, <1>5 DEF SkipComma

LEMMA NoCommaToSkip == ASSUME NEW x, x # <<>>, ~Comma(x[1]) PROVE SkipComma(x) = x
  BY Zenon DEF SkipComma, Comma

LEMMA CommaIsSkipped == ASSUME NEW x, x # <<>>, Comma(x[1]) PROVE SkipComma(x) = Trim(Tail(x))
  BY Zenon DEF SkipComma, Comma

\* What separates two clauses.
LEMMA SeparatorShape ==
    ASSUME NEW sep \in Separators
    PROVE  \/ Len(sep) = 1 /\ Blank(sep[1])
           \/ Len(sep) = 1 /\ Comma(sep[1])
           \/ Len(sep) = 2 /\ Comma(sep[1]) /\ Blank(sep[2])
  <1>1. Blank(Sign(" ")) /\ Comma(Sign(","))
    BY Zenon DEF Blank, Comma, Sign
  <1>2. PICK b, m : b = Sign(" ") /\ m = Sign(",")
    OBVIOUS
  <1>3. sep \in {<<b>>, <<m>>, <<m, b>>}
    BY <1>2, Zenon DEF Separators
  <1>4. Blank(b) /\ Comma(m)
    BY <1>1, <1>2, Zenon
  <1> QED
    BY <1>3, <1>4

\* Parse goes on with the next clause, behind the separator.
LEMMA AfterSeparator ==
    ASSUME NEW s \in Text, NEW n \in Nat, n = Len(s), ~Blank(s[n]),
           NEW end \in 1 .. n, NEW sep \in Separators, StandsAt(sep, s, end),
           NEW next \in 1 .. n, next = end + Len(sep), ~Blank(s[next]), ~Comma(s[next])
    PROVE  /\ SkipComma(Trim(Suffix(s, end))) = Suffix(s, next)
           /\ Blank(s[end]) \/ Comma(s[end])
  <1>1. PICK y : y = Suffix(s, next)
    OBVIOUS
  <1>2. SkipComma(y) = y
    <2>1. next \in 1 .. Len(s)
      OBVIOUS
    <2>2. y # <<>> /\ y[1] = s[next]
      BY ONLY s \in Text, <1>1, <2>1, SuffixStart
    <2> QED
      BY <2>2, NoCommaToSkip
  <1>3. \A j \in 1 .. Len(sep) : s[end + j - 1] = sep[j]
    BY DEF StandsAt
  <1>4. CASE Len(sep) = 1 /\ Blank(sep[1])
    <2>1. next = end + 1 /\ Blank(s[end])
      <3>1. end + 1 - 1 = end /\ 1 \in 1 .. 1
        OBVIOUS
      <3> QED
        BY <1>3, <1>4, <3>1
    <2>2. \A i \in end .. next - 1 : Blank(s[i])
      BY <2>1
    <2>3. next \in end .. n
      BY <2>1
    <2>4. Trim(Suffix(s, end)) = y
      BY <1>1, <2>2, <2>3, TrimSuffix
    <2> QED
      BY <1>1, <1>2, <2>1, <2>4
  <1>5. CASE Len(sep) \in {1, 2} /\ Comma(sep[1]) /\ (Len(sep) = 2 => Blank(sep[2]))
    <2>1. Comma(s[end]) /\ (Len(sep) = 2 => Blank(s[end + 1]))
      <3>1. end + 1 - 1 = end /\ end + 2 - 1 = end + 1
        OBVIOUS
      <3> QED
        BY <1>3, <1>5, <3>1
    <2>2. ~Blank(s[end])
      BY <2>1, Zenon DEF Blank, Comma
    <2>3. Trim(Suffix(s, end)) = Suffix(s, end)
      <3>1. end \in end .. n /\ end .. end - 1 = {}
        OBVIOUS
      <3> QED
        BY <2>2, <3>1, TrimSuffix
    <2>4. SkipComma(Suffix(s, end)) = Trim(Suffix(s, end + 1))
      <3>1. PICK x : x = Suffix(s, end)
        OBVIOUS
      <3>2. end \in 1 .. Len(s)
        OBVIOUS
      <3>3. x # <<>> /\ x[1] = s[end] /\ Tail(x) = Suffix(s, end + 1)
        BY ONLY s \in Text, <3>1, <3>2, SuffixStart
      <3> QED
        BY <2>1, <3>1, <3>3, CommaIsSkipped
    <2>5. /\ end + 1 \in 1 .. n /\ next \in end + 1 .. n
          /\ next = end + 1 \/ (next = end + 2 /\ Len(sep) = 2)
      <3>1. next = end + 1 \/ (next = end + 2 /\ Len(sep) = 2)
        <4>1. Len(sep) = 1 \/ Len(sep) = 2
          BY <1>5
        <4>2. next = end + Len(sep)
          OBVIOUS
        <4> QED
          BY <4>1, <4>2
      <3> QED
        BY <3>1
    <2>6. \A i \in end + 1 .. next - 1 : Blank(s[i])
      <3>1. \A i \in end + 1 .. next - 1 : i = end + 1 /\ next = end + 2
        BY <2>5
      <3> QED
        BY <2>1, <2>5, <3>1
    <2>7. Trim(Suffix(s, end + 1)) = y
      BY <1>1, <2>5, <2>6, TrimSuffix
    <2> QED
      BY <1>1, <2>1, <2>3, <2>4, <2>7
  <1> QED
    BY <1>4, <1>5, SeparatorShape

LEMMA TokenShape ==
    /\ \A v : ~Blank(Written(v)) /\ ~Comma(Written(v)) /\ ~Hyphen(Written(v))
    /\ \A op \in Operators : /\ ~Blank(Sign(op)) /\ ~Comma(Sign(op))
                             /\ Sign(op).kind \in Operators /\ Sign(op).kind # "word"
                             /\ Sign(op).kind = op
    /\ \A x : Blank(x) => ~Hyphen(x)
  <1>1. \A v : Written(v).kind = "word"
    BY DEF Written, Word
  <1>2. \A v : ~Blank(Written(v)) /\ ~Comma(Written(v)) /\ ~Hyphen(Written(v))
    BY <1>1, Zenon DEF Blank, Comma, Hyphen
  <1>3. \A op : Sign(op).kind = op
    BY DEF Sign
  <1>4. \A op \in Operators : op # " " /\ op # "," /\ op # "word"
    BY Zenon DEF Operators
  <1>5. \A op \in Operators : /\ ~Blank(Sign(op)) /\ ~Comma(Sign(op))
                              /\ Sign(op).kind \in Operators /\ Sign(op).kind # "word"
                              /\ Sign(op).kind = op
    BY <1>3, <1>4, Zenon DEF Blank, Comma
  <1>6. \A x : Blank(x) => ~Hyphen(x)
    BY Zenon DEF Blank, Hyphen
  <1> QED
    BY <1>2, <1>5, <1>6, Zenon

\* The tokens of a clause, first for a range.
LEMMA RangeShape ==
    ASSUME NEW c, c.op = "range", NEW w, w = ClauseTokens(c)
    PROVE  /\ Len(w) = 5 /\ w[1] = Written(c.from) /\ w[5] = Written(c.to)
           /\ Blank(w[2]) /\ Hyphen(w[3]) /\ Blank(w[4])
  <1>1. PICK b, d, f, l : b = Sign(" ") /\ d = Sign("-") /\ f = Written(c.from) /\ l = Written(c.to)
    OBVIOUS
  <1>2. Blank(b)
    BY <1>1, Zenon DEF Blank, Sign
  <1>3. Hyphen(d)
    BY <1>1, Zenon DEF Hyphen, Sign
  <1>4. w = <<f, b, d, b, l>>
    BY <1>1, Zenon DEF ClauseTokens
  <1>5. Len(w) = 5 /\ w[1] = f /\ w[2] = b /\ w[3] = d /\ w[4] = b /\ w[5] = l
    BY <1>4
  <1> QED
    BY <1>1, <1>2, <1>3, <1>5, Zenon

LEMMA AtomShape ==
    ASSUME NEW c, c.op \in Operators, NEW w, w = ClauseTokens(c)
    PROVE  Len(w) = 2 /\ w[1] = Sign(c.op) /\ w[2] = Written(c.from)
  <1>1. c.op # "range"
    BY Zenon DEF Operators
  <1>2. w = <<Sign(c.op), Written(c.from)>>
    BY <1>1, Zenon DEF ClauseTokens
  <1> QED
    BY <1>2

LEMMA WrittenParsed ==
    ASSUME NEW v \in Releases, NEW x, Len(x) = 1, x[1] = Written(v)
    PROVE  IsVersionText(x) /\ Parsed(x) = v
  <1>1. /\ v.major \in 0 .. MaxInt /\ v.minor \in 0 .. MaxInt /\ v.patch \in 0 .. MaxInt
        /\ v = Release(v.major, v.minor, v.patch)
    BY ReleaseFields
  <1>2. PICK w : w = Written(v)
    OBVIOUS
  <1>3. /\ w.kind = "word" /\ Len(w.ids) = 3
        /\ w.ids[1] = Number(v.major) /\ w.ids[2] = Number(v.minor) /\ w.ids[3] = Number(v.patch)
    BY <1>2 DEF Written, Word
  <1>4. \A k : Number(k).numeric /\ Number(k).value = k /\ Number(k).zeros = 0
    BY DEF Number
  <1>5. IsCore(w)
    <2>1. \A i \in 1 .. 3 : i = 1 \/ i = 2 \/ i = 3
      OBVIOUS
    <2>2. v.major <= MaxInt /\ v.minor <= MaxInt /\ v.patch <= MaxInt
      BY <1>1, SemverAssumption
    <2>3. ASSUME NEW i \in 1 .. 3
          PROVE  w.ids[i].numeric /\ w.ids[i].zeros = 0 /\ w.ids[i].value <= MaxInt
      BY <1>3, <1>4, <2>1, <2>2
    <2> QED
      BY <1>3, <2>3 DEF IsCore
  <1>6. IsVersionText(x)
    BY <1>2, <1>5 DEF IsVersionText
  <1>7. Parsed(x) = [major |-> v.major, minor |-> v.minor, patch |-> v.patch,
                     pre |-> <<>>, build |-> 0]
    BY <1>2, <1>3, <1>4 DEF Parsed
  <1> QED
    BY <1>1, <1>6, <1>7 DEF Release

\* A version that stands before a blank, a comma or the end is read, and nothing else.
LEMMA VersionEnds ==
    ASSUME NEW s \in Text, NEW n \in Nat, n = Len(s), NEW q \in 1 .. n, NEW v \in Releases,
           s[q] = Written(v), q = n \/ Blank(s[q + 1]) \/ Comma(s[q + 1]),
           NEW y, y = Suffix(s, q)
    PROVE  /\ First(y, Enders) = 2
           /\ IsVersionText(SubSeq(y, 1, 1)) /\ Parsed(SubSeq(y, 1, 1)) = v
           /\ SubSeq(y, 2, Len(y)) = Suffix(s, q + 1)
  <1>1. y \in Text /\ Len(y) = n - q + 1 /\ \A j \in 1 .. n - q + 1 : y[j] = s[q + j - 1]
    <2>1. y \in Text
      BY SuffixOfLength
    <2>2. Len(y) = n - q + 1
      BY SuffixOfLength
    <2>3. \A j \in 1 .. n - q + 1 : y[j] = s[q + j - 1]
      BY ONLY s \in Text, n \in Nat, n = Len(s), q \in 1 .. n, y = Suffix(s, q), SuffixOfLength
    <2> QED
      BY <2>1, <2>2, <2>3
  <1>2. y[1] = s[q] /\ (q < n => y[2] = s[q + 1])
    <2>1. 1 \in 1 .. n - q + 1 /\ q + 1 - 1 = q
      OBVIOUS
    <2>2. q < n => 2 \in 1 .. n - q + 1 /\ q + 2 - 1 = q + 1
      OBVIOUS
    <2> QED
      BY <1>1, <2>1, <2>2
  <1>3. PICK kinds : kinds = Enders
    OBVIOUS
  <1>4. \A x : x.kind \in kinds <=> Blank(x) \/ Comma(x)
    BY <1>3, Zenon DEF Enders, Blank, Comma
  <1>5. First(y, kinds) = 2
    <2>1. y[1].kind \notin kinds
      BY <1>2, <1>4, TokenShape
    <2>2. 2 = Len(y) + 1 \/ y[2].kind \in kinds
      BY <1>1, <1>2, <1>4
    <2>3. 2 \in 1 .. Len(y) + 1 /\ \A i \in 1 .. 2 - 1 : i = 1
      BY <1>1
    <2> QED
      BY <1>1, <2>1, <2>2, <2>3, FirstIs
  <1>6. PICK z : z = SubSeq(y, 1, 1)
    OBVIOUS
  <1>7. Len(z) = 1 /\ z[1] = Written(v)
    <2>1. 1 \in 1 .. Len(y) + 1 /\ 1 \in 1 - 1 .. Len(y) /\ 1 - 1 + 1 = 1 /\ 1 \in 1 .. 1 - 1 + 1
      BY <1>1
    <2>2. Len(z) = 1 - 1 + 1 /\ z[1] = y[1 + 1 - 1]
      BY <1>1, <1>6, <2>1, Piece
    <2> QED
      BY <1>2, <2>2
  <1>8. IsVersionText(z) /\ Parsed(z) = v
    BY <1>7, WrittenParsed
  <1>9. SubSeq(y, 2, Len(y)) = Suffix(s, q + 1)
    <2>1. q \in 1 .. Len(s) + 1 /\ 2 \in 1 .. Len(s) - q + 2 /\ q + 2 - 1 = q + 1
      OBVIOUS
    <2>2. Suffix(y, 2) = Suffix(s, q + 2 - 1)
      BY <2>1, SuffixOfSuffix
    <2> QED
      BY <2>1, <2>2 DEF Suffix
  <1>10. First(y, Enders) = 2
    BY <1>3, <1>5, Zenon
  <1> QED
    BY <1>6, <1>8, <1>9, <1>10, Zenon

\* What does not start with a blank keeps its first token.
LEMMA TrimKeepsFirst ==
    ASSUME NEW s \in Text, s # <<>>, ~Blank(s[1]) PROVE Len(Trim(s)) >= 1 /\ Trim(s)[1] = s[1]
  <1>1. PICK n : n = Len(s)
    OBVIOUS
  <1>2. n \in Nat \ {0}
    BY <1>1 DEF Text
  <1> DEFINE ink == Ink(s)
  <1>3. ink \in SUBSET (1 .. n) /\ 1 \in ink
    BY <1>1, <1>2 DEF Ink
  <1>4. Trim(s) = SubSeq(s, Min(ink), Max(ink))
    BY <1>3, TrimByInk
  <1> HIDE DEF ink
  <1>5. ink \in SUBSET Nat /\ ink \in SUBSET (0 .. n) /\ ink # {} /\ \A i \in ink : 1 <= i
    <2>1. \A i \in 1 .. n : i \in Nat /\ i \in 0 .. n /\ 1 <= i
      BY <1>2
    <2> QED
      BY <1>3, <2>1
  <1>6. Min(ink) = 1
    BY <1>3, <1>5, LeastIs
  <1>7. Max(ink) \in 1 .. n /\ Max(ink) >= 1
    BY <1>2, <1>3, <1>5, MaxOf
  <1>8. PICK m, z : m = Max(ink) /\ z = SubSeq(s, 1, m)
    OBVIOUS
  <1>9. 1 \in 1 .. Len(s) + 1 /\ m \in 1 - 1 .. Len(s) /\ 1 \in 1 .. m - 1 + 1 /\ 1 + 1 - 1 = 1
    BY <1>1, <1>2, <1>7, <1>8
  <1>10. Len(z) = m - 1 + 1 /\ z[1] = s[1 + 1 - 1]
    BY <1>8, <1>9, Piece
  <1> QED
    BY <1>4, <1>6, <1>7, <1>8, <1>9, <1>10

\* A range at place p of a text is taken as it was written.
LEMMA RangeIsTaken ==
    ASSUME NEW s \in Text, NEW n \in Nat, n = Len(s), ~Blank(s[n]),
           NEW p \in 1 .. n, NEW c \in Clause, c.op = "range", StandsAt(ClauseTokens(c), s, p),
           p + 4 = n \/ Blank(s[p + 5]) \/ Comma(s[p + 5]),
           NEW x, x = Suffix(s, p)
    PROVE  /\ IsRange(x) /\ Parsed(Left(x)) = c.from /\ Parsed(Upper(x)) = c.to
           /\ SubSeq(Right(x), RightEnd(x), Len(Right(x))) = Suffix(s, p + 5)
  <1>1. c.from \in Releases /\ c.to \in Releases
    BY NodeOfClause
  <1>2. /\ s[p] = Written(c.from) /\ Blank(s[p + 1]) /\ Hyphen(s[p + 2]) /\ Blank(s[p + 3])
        /\ s[p + 4] = Written(c.to) /\ p + 4 <= n
    <2>1. PICK w : w = ClauseTokens(c)
      OBVIOUS
    <2>2. /\ Len(w) = 5 /\ w[1] = Written(c.from) /\ w[5] = Written(c.to)
          /\ Blank(w[2]) /\ Hyphen(w[3]) /\ Blank(w[4])
      BY <2>1, RangeShape
    <2>3. p + 5 - 1 <= n /\ \A j \in 1 .. 5 : s[p + j - 1] = w[j]
      BY <2>1, <2>2 DEF StandsAt
    <2>4. /\ p + 1 - 1 = p /\ p + 2 - 1 = p + 1 /\ p + 3 - 1 = p + 2 /\ p + 4 - 1 = p + 3
          /\ p + 5 - 1 = p + 4
      OBVIOUS
    <2>5. s[p] = w[1] /\ s[p + 1] = w[2] /\ s[p + 2] = w[3] /\ s[p + 3] = w[4] /\ s[p + 4] = w[5]
      BY <2>3, <2>4
    <2> QED
      BY <2>2, <2>3, <2>4, <2>5
  <1>3. x \in Text /\ Len(x) = n - p + 1 /\ x[1] = s[p] /\ x[2] = s[p + 1] /\ x[3] = s[p + 2]
    <2>1. x \in Text
      BY SuffixOfLength
    <2>2. Len(x) = n - p + 1
      BY SuffixOfLength
    <2>3. \A j \in 1 .. n - p + 1 : x[j] = s[p + j - 1]
      BY ONLY s \in Text, n \in Nat, n = Len(s), p \in 1 .. n, x = Suffix(s, p), SuffixOfLength
    <2>4. 1 \in 1 .. n - p + 1 /\ 2 \in 1 .. n - p + 1 /\ 3 \in 1 .. n - p + 1
      BY <1>2
    <2>5. p + 1 - 1 = p /\ p + 2 - 1 = p + 1 /\ p + 3 - 1 = p + 2
      OBVIOUS
    <2> QED
      BY <2>1, <2>2, <2>3, <2>4, <2>5
  <1>4. ~Hyphen(x[1]) /\ ~Blank(x[1]) /\ ~Hyphen(x[2]) /\ Blank(x[2]) /\ Hyphen(x[3])
    BY <1>2, <1>3, TokenShape
  <1>5. Dash(x) = 3
    <2>1. PICK kinds : kinds = {"-"}
      OBVIOUS
    <2>2. \A t : t.kind \in kinds <=> Hyphen(t)
      BY <2>1, Zenon DEF Hyphen
    <2>3. 3 \in 1 .. Len(x) + 1 /\ \A i \in 1 .. 3 - 1 : i = 1 \/ i = 2
      BY <1>2, <1>3
    <2>4. \A i \in 1 .. 3 - 1 : x[i].kind \notin kinds
      BY <1>4, <2>2, <2>3
    <2>5. First(x, kinds) = 3
      BY <1>3, <1>4, <2>2, <2>3, <2>4, FirstIs
    <2> QED
      BY <2>1, <2>5, Zenon DEF Dash
  <1>6. IsVersionText(Left(x)) /\ Parsed(Left(x)) = c.from
    <2>1. PICK y : y = SubSeq(x, 1, 2)
      OBVIOUS
    <2>2. y \in Text /\ Len(y) = 2 /\ y[1] = x[1] /\ y[2] = x[2]
      <3>1. 1 \in 1 .. Len(x) + 1 /\ 2 \in 1 - 1 .. Len(x) /\ 2 - 1 + 1 = 2
        BY <1>2, <1>3
      <3>2. /\ y \in Text /\ Len(y) = 2 - 1 + 1
            /\ \A i \in 1 .. 2 - 1 + 1 : y[i] = x[1 + i - 1]
        BY <1>3, <2>1, <3>1, Piece
      <3>3. 1 \in 1 .. 2 - 1 + 1 /\ 2 \in 1 .. 2 - 1 + 1 /\ 1 + 1 - 1 = 1 /\ 1 + 2 - 1 = 2
        OBVIOUS
      <3> QED
        BY <3>1, <3>2, <3>3
    <2>3. Ink(y) = {1}
      <3>1. 1 .. Len(y) = {1, 2}
        BY <2>2
      <3> QED
        BY <1>4, <2>2, <3>1 DEF Ink
    <2>4. Min({1}) = 1 /\ Max({1}) = 1
      <3>1. 1 \in {1} /\ {1} \in SUBSET Nat /\ {1} # {} /\ {1} \in SUBSET (0 .. 1) /\ 1 \in Nat
        OBVIOUS
      <3>2. Min({1}) \in {1}
        BY <3>1, MinOf
      <3>3. Max({1}) \in {1}
        BY <3>1, MaxOf
      <3> QED
        BY <3>2, <3>3
    <2>5. PICK z : z = SubSeq(y, 1, 1)
      OBVIOUS
    <2>6. Trim(y) = z
      BY <2>3, <2>4, <2>5, TrimByInk
    <2>7. Len(z) = 1 /\ z[1] = Written(c.from)
      <3>1. 1 \in 1 .. Len(y) + 1 /\ 1 \in 1 - 1 .. Len(y) /\ 1 - 1 + 1 = 1
        BY <2>2
      <3>2. Len(z) = 1 - 1 + 1 /\ \A i \in 1 .. 1 - 1 + 1 : z[i] = y[1 + i - 1]
        BY <2>2, <2>5, <3>1, Piece
      <3>3. 1 \in 1 .. 1 - 1 + 1 /\ 1 + 1 - 1 = 1
        OBVIOUS
      <3> QED
        BY <1>2, <1>3, <2>2, <3>1, <3>2, <3>3
    <2>8. Left(x) = z
      <3>1. 3 - 1 = 2
        OBVIOUS
      <3> QED
        BY <1>5, <2>1, <2>6, <3>1 DEF Left
    <2> QED
      BY <1>1, <2>7, <2>8, WrittenParsed
  <1>7. PICK y : y = Suffix(s, p + 4)
    OBVIOUS
  <1>8. Right(x) = y
    <2>1. p \in 1 .. Len(s) + 1 /\ 4 \in 1 .. Len(s) - p + 2 /\ p + 4 - 1 = p + 3 /\ 3 + 1 = 4
      BY <1>2
    <2>2. Suffix(x, 4) = Suffix(s, p + 3)
      BY <2>1, SuffixOfSuffix
    <2>3. p + 3 \in 1 .. n /\ p + 4 \in p + 3 .. n /\ \A i \in p + 3 .. p + 4 - 1 : i = p + 3
      BY <1>2
    <2>4. ~Blank(s[p + 4]) /\ \A i \in p + 3 .. p + 4 - 1 : Blank(s[i])
      BY <1>2, <2>3, TokenShape
    <2>5. Trim(Suffix(s, p + 3)) = y
      BY <1>7, <2>3, <2>4, TrimSuffix
    <2> QED
      BY <1>5, <2>1, <2>2, <2>5 DEF Right, Suffix
  <1>9. PICK q : q = p + 4
    OBVIOUS
  <1>10. /\ First(y, Enders) = 2
         /\ IsVersionText(SubSeq(y, 1, 1)) /\ Parsed(SubSeq(y, 1, 1)) = c.to
         /\ SubSeq(y, 2, Len(y)) = Suffix(s, q + 1)
    <2>1. q \in 1 .. n /\ q + 1 = p + 5
      BY <1>2, <1>9
    <2>2. (q = n \/ Blank(s[q + 1]) \/ Comma(s[q + 1])) /\ s[q] = Written(c.to) /\ y = Suffix(s, q)
      BY <1>2, <1>7, <1>9, <2>1
    <2> QED
      BY ONLY s \in Text, n \in Nat, n = Len(s), <1>1, <2>1, <2>2, VersionEnds
  <1>11. RightEnd(x) = 2 /\ Upper(x) = SubSeq(y, 1, 1)
    <2>1. RightEnd(x) = 2
      BY <1>8, <1>10, Zenon DEF RightEnd, Enders
    <2>2. 2 - 1 = 1
      OBVIOUS
    <2> QED
      BY <1>8, <2>1, <2>2 DEF Upper
  <1>12. Dash(x) \in 2 .. Len(x)
    BY <1>2, <1>3, <1>5
  <1>13. q + 1 = p + 5
    BY <1>9
  <1> QED
    BY <1>6, <1>8, <1>10, <1>11, <1>12, <1>13, Zenon DEF IsRange

\* So is a comparison, ^ or ~.
LEMMA AtomIsTaken ==
    ASSUME NEW s \in Text, NEW n \in Nat, n = Len(s), ~Blank(s[n]),
           NEW p \in 1 .. n, NEW c \in Clause, c.op \in Operators,
           StandsAt(ClauseTokens(c), s, p),
           p + 1 = n \/ Blank(s[p + 2]) \/ Comma(s[p + 2]),
           NEW x, x = Suffix(s, p)
    PROVE  /\ ~IsRange(x) /\ IsAtom(x) /\ Op(x) = c.op /\ Parsed(Atom(x)) = c.from
           /\ SubSeq(Operand(x), OperandEnd(x), Len(Operand(x))) = Suffix(s, p + 2)
  <1>1. c.from \in Releases
    BY NodeOfClause
  <1>2. s[p] = Sign(c.op) /\ s[p + 1] = Written(c.from) /\ p + 1 <= n
    <2>1. PICK w : w = ClauseTokens(c)
      OBVIOUS
    <2>2. Len(w) = 2 /\ w[1] = Sign(c.op) /\ w[2] = Written(c.from)
      BY <2>1, AtomShape
    <2>3. p + 2 - 1 <= n /\ \A j \in 1 .. 2 : s[p + j - 1] = w[j]
      BY <2>1, <2>2 DEF StandsAt
    <2>4. p + 1 - 1 = p /\ p + 2 - 1 = p + 1
      OBVIOUS
    <2> QED
      BY <2>2, <2>3, <2>4
  <1>3. x \in Text /\ x # <<>> /\ x[1] = s[p] /\ Tail(x) = Suffix(s, p + 1)
    <2>1. p \in 1 .. Len(s)
      OBVIOUS
    <2>2. x \in Text
      BY ONLY s \in Text, x = Suffix(s, p), <2>1, SuffixStart
    <2>3. x # <<>> /\ x[1] = s[p] /\ Tail(x) = Suffix(s, p + 1)
      BY ONLY s \in Text, x = Suffix(s, p), <2>1, SuffixStart
    <2> QED
      BY <2>2, <2>3
  <1>4. ~Blank(x[1]) /\ x[1].kind \in Operators /\ x[1].kind = c.op /\ x[1].kind # "word"
    BY <1>2, <1>3, TokenShape
  <1>5. ~IsRange(x)
    <2> SUFFICES ASSUME Dash(x) \in 2 .. Len(x), IsVersionText(Left(x)) PROVE FALSE
      BY DEF IsRange
    <2>1. PICK d, y : d = Dash(x) - 1 /\ y = SubSeq(x, 1, d)
      OBVIOUS
    <2>2. 1 \in 1 .. Len(x) + 1 /\ d \in 1 - 1 .. Len(x) /\ d >= 1 /\ d - 1 + 1 = d /\ d \in Nat
      <3>1. Len(x) \in Nat
        BY <1>3 DEF Text
      <3> QED
        BY <2>1, <3>1
    <2>3. y \in Text /\ Len(y) = d - 1 + 1 /\ \A i \in 1 .. d - 1 + 1 : y[i] = x[1 + i - 1]
      BY ONLY <1>3, <2>1, <2>2, Piece
    <2>4. y # <<>> /\ y[1] = x[1]
      <3>1. 1 \in 1 .. d - 1 + 1 /\ 1 + 1 - 1 = 1 /\ Len(<<>>) = 0
        BY <2>2
      <3> QED
        BY <2>2, <2>3, <3>1
    <2>5. Left(x)[1] = x[1]
      BY <1>4, <2>1, <2>3, <2>4, TrimKeepsFirst DEF Left
    <2> QED
      BY <1>4, <2>5 DEF IsVersionText, IsCore
  <1>6. PICK q, y : q = p + 1 /\ y = Suffix(s, q)
    OBVIOUS
  <1>7. Operand(x) = y
    <2>1. q \in 1 .. n /\ q \in q .. n /\ q .. q - 1 = {} /\ ~Blank(s[q])
      BY <1>2, <1>6, TokenShape
    <2>2. Trim(Suffix(s, q)) = Suffix(s, q)
      BY <2>1, TrimSuffix
    <2>3. Operand(x) = Trim(Tail(x))
      BY <1>4 DEF Operand
    <2> QED
      BY <1>3, <1>6, <2>2, <2>3
  <1>8. /\ First(y, Enders) = 2
        /\ IsVersionText(SubSeq(y, 1, 1)) /\ Parsed(SubSeq(y, 1, 1)) = c.from
        /\ SubSeq(y, 2, Len(y)) = Suffix(s, q + 1)
    <2>1. q \in 1 .. n /\ q + 1 = p + 2
      BY <1>2, <1>6
    <2>2. (q = n \/ Blank(s[q + 1]) \/ Comma(s[q + 1])) /\ s[q] = Written(c.from)
      BY <1>2, <1>6, <2>1
    <2> QED
      BY ONLY s \in Text, n \in Nat, n = Len(s), <1>1, <1>6, <2>1, <2>2, VersionEnds
  <1>9. OperandEnd(x) = 2 /\ Atom(x) = SubSeq(y, 1, 1)
    <2>1. OperandEnd(x) = 2
      BY <1>7, <1>8, Zenon DEF OperandEnd, Enders
    <2>2. 2 - 1 = 1
      OBVIOUS
    <2> QED
      BY <1>7, <2>1, <2>2 DEF Atom
  <1>10. q + 1 = p + 2 /\ Op(x) = c.op
    BY <1>4, <1>6 DEF Op
  <1> QED
    BY <1>5, <1>7, <1>8, <1>9, <1>10, Zenon DEF IsAtom

-----------------------------------------------------------------------------
(* A text of the documented syntax is read clause by clause. *)

Positions(t) == [1 .. Len(t.clauses) -> 1 .. Len(t.tokens)]

\* What is left of a text after its first k clauses.
RestAfter(t, at, k) == IF k < Len(t.clauses) THEN Suffix(t.tokens, at[k + 1]) ELSE <<>>

ReadSoFar ==
    text.clauses # <<>> =>
        /\ status # "invalid"
        /\ Len(nodes) <= Len(text.clauses)
        /\ \A i \in 1 .. Len(nodes) : nodes[i] = NodeOf(text.clauses[i])
        /\ status = "done" => Len(nodes) = Len(text.clauses)
        /\ \E at \in Positions(text) : WrittenAt(text, at) /\ rest = RestAfter(text, at, Len(nodes))

LEMMA ClauseLength ==
    ASSUME NEW c \in Clause, NEW w, w = ClauseTokens(c)
    PROVE  /\ Len(w) = IF c.op = "range" THEN 5 ELSE 2
           /\ ~Blank(w[1]) /\ ~Comma(w[1]) /\ ~Blank(w[Len(w)])
  <1>1. c.op \in Operators \cup {"range"}
    BY NodeOfClause
  <1>2. CASE c.op = "range"
    BY <1>2, RangeShape, TokenShape
  <1>3. CASE c.op \in Operators
    <2>1. c.op # "range"
      BY <1>3, Zenon DEF Operators
    <2> QED
      BY <1>3, <2>1, AtomShape, TokenShape
  <1> QED
    BY <1>1, <1>2, <1>3

\* The clause at a place, how it ends, and what Parse goes on with.
LEMMA ClausePlace ==
    ASSUME NEW t, NEW s \in Text, s = t.tokens, t.clauses \in Seq(Clause),
           NEW at \in Positions(t), WrittenAt(t, at), NEW k \in 1 .. Len(t.clauses),
           NEW n \in Nat, n = Len(s), NEW c, c = t.clauses[k],
           NEW end, end = at[k] + Len(ClauseTokens(c))
    PROVE  /\ c \in Clause /\ at[k] \in 1 .. n /\ end \in at[k] + 1 .. n + 1
           /\ StandsAt(ClauseTokens(c), s, at[k])
           /\ ~Blank(s[at[k]]) /\ ~Comma(s[at[k]]) /\ ~Blank(s[end - 1])
           /\ k < Len(t.clauses) => \E sep \in Separators :
                 StandsAt(sep, s, end) /\ at[k + 1] = end + Len(sep)
  <1>1. PICK w : w = ClauseTokens(c)
    OBVIOUS
  <1>2. Len(t.clauses) \in Nat /\ c \in Clause
    OBVIOUS
  <1>3. at[k] \in 1 .. n
    BY DEF Positions
  <1>4. /\ StandsAt(w, s, at[k])
        /\ k # Len(t.clauses) => \E sep \in Separators :
              StandsAt(sep, s, end) /\ at[k + 1] = end + Len(sep)
    BY <1>1 DEF WrittenAt
  <1>5. Len(w) \in {2, 5} /\ ~Blank(w[1]) /\ ~Comma(w[1]) /\ ~Blank(w[Len(w)])
    BY <1>1, <1>2, ClauseLength
  <1>6. PICK p, l : p = at[k] /\ l = Len(w)
    OBVIOUS
  <1>7. p + l - 1 <= n /\ \A j \in 1 .. l : s[p + j - 1] = w[j]
    BY <1>4, <1>6 DEF StandsAt
  <1>8. s[p] = w[1] /\ s[p + l - 1] = w[l]
    <2>1. 1 \in 1 .. l /\ l \in 1 .. l /\ p + 1 - 1 = p
      BY <1>3, <1>5, <1>6
    <2> QED
      BY <1>7, <2>1
  <1>9. p \in 1 .. n /\ l \in {2, 5} /\ end = p + l
    BY <1>1, <1>3, <1>5, <1>6
  <1>10. end - 1 = p + l - 1 /\ end \in p + 1 .. n + 1
    BY <1>7, <1>9
  <1>11. end \in at[k] + 1 .. n + 1
    BY <1>6, <1>10
  <1>12. ~Blank(s[at[k]]) /\ ~Comma(s[at[k]]) /\ ~Blank(s[end - 1])
    BY <1>5, <1>6, <1>8, <1>10
  <1>13. k < Len(t.clauses) => k # Len(t.clauses)
    BY <1>2
  <1> QED
    BY <1>1, <1>2, <1>3, <1>4, <1>11, <1>12, <1>13

LEMMA ClauseStart ==
    ASSUME NEW t, NEW s \in Text, s = t.tokens, t.clauses \in Seq(Clause),
           NEW at \in Positions(t), WrittenAt(t, at), NEW k \in 1 .. Len(t.clauses)
    PROVE  at[k] \in 1 .. Len(s) /\ ~Blank(s[at[k]]) /\ ~Comma(s[at[k]])
  <1>1. PICK n, c, e : n = Len(s) /\ c = t.clauses[k] /\ e = at[k] + Len(ClauseTokens(c))
    OBVIOUS
  <1>2. n \in Nat
    BY <1>1 DEF Text
  <1>3. at[k] \in 1 .. n
    BY <1>1, <1>2, ClausePlace
  <1>4. ~Blank(s[at[k]]) /\ ~Comma(s[at[k]])
    BY <1>1, <1>2, ClausePlace
  <1> QED
    BY <1>1, <1>3, <1>4

LEMMA LastClause ==
    ASSUME NEW t, NEW at, WrittenAt(t, at), NEW k \in 1 .. Len(t.clauses), k = Len(t.clauses)
    PROVE  at[k] + Len(ClauseTokens(t.clauses[k])) = Len(t.tokens) + 1
  BY DEF WrittenAt

\* A written text does not end with a blank.
LEMMA InkAtTheEnd ==
    ASSUME NEW t, NEW s \in Text, s = t.tokens, t.clauses \in Seq(Clause), t.clauses # <<>>,
           NEW at \in Positions(t), WrittenAt(t, at), NEW n \in Nat, n = Len(s)
    PROVE  ~Blank(s[n]) /\ n >= 1
  <1>1. PICK k : k = Len(t.clauses)
    OBVIOUS
  <1>2. k \in 1 .. Len(t.clauses)
    BY <1>1
  <1>3. PICK c : c = t.clauses[k]
    OBVIOUS
  <1>4. PICK end : end = at[k] + Len(ClauseTokens(c))
    OBVIOUS
  <1>5. ~Blank(s[end - 1]) /\ end = n + 1 /\ at[k] \in 1 .. n
    <2>1. ~Blank(s[end - 1])
      BY <1>2, <1>3, <1>4, ClausePlace
    <2>2. end = n + 1
      BY <1>1, <1>2, <1>3, <1>4, LastClause
    <2>3. at[k] \in 1 .. n
      BY <1>2, <1>3, <1>4, ClausePlace
    <2> QED
      BY <2>1, <2>2, <2>3
  <1>6. end - 1 = n /\ n >= 1
    BY <1>1, <1>5
  <1> QED
    BY <1>5, <1>6

LEMMA RestAfterClause ==
    ASSUME NEW t, NEW s \in Text, s = t.tokens, t.clauses \in Seq(Clause),
           NEW at \in Positions(t), WrittenAt(t, at), NEW k \in 1 .. Len(t.clauses),
           NEW n \in Nat, n = Len(s), NEW c, c = t.clauses[k],
           NEW end, end = at[k] + Len(ClauseTokens(c))
    PROVE  /\ SkipComma(Trim(Suffix(s, end))) = RestAfter(t, at, k)
           /\ end = n + 1 \/ Blank(s[end]) \/ Comma(s[end])
  <1>1. Len(t.clauses) \in Nat /\ t.clauses # <<>>
    OBVIOUS
  <1>2. ~Blank(s[n])
    BY <1>1, InkAtTheEnd
  <1>3. /\ at[k] \in 1 .. n /\ end \in at[k] + 1 .. n + 1
        /\ k = Len(t.clauses) => end = n + 1
        /\ k < Len(t.clauses) => \E sep \in Separators :
              StandsAt(sep, s, end) /\ at[k + 1] = end + Len(sep)
    <2>1. at[k] \in 1 .. n /\ end \in at[k] + 1 .. n + 1
      BY ClausePlace
    <2>2. k = Len(t.clauses) => end = n + 1
      BY LastClause
    <2>3. k < Len(t.clauses) => \E sep \in Separators :
             StandsAt(sep, s, end) /\ at[k + 1] = end + Len(sep)
      BY ClausePlace
    <2> QED
      BY <2>1, <2>2, <2>3
  <1>4. CASE k = Len(t.clauses)
    <2>1. end = Len(s) + 1
      BY <1>3, <1>4
    <2>2. SkipComma(Trim(Suffix(s, end))) = <<>>
      BY <2>1, SuffixAtEnd
    <2>3. RestAfter(t, at, k) = <<>>
      BY <1>1, <1>4 DEF RestAfter
    <2> QED
      BY <2>1, <2>2, <2>3
  <1>5. CASE k < Len(t.clauses)
    <2>1. PICK sep \in Separators : StandsAt(sep, s, end) /\ at[k + 1] = end + Len(sep)
      BY <1>3, <1>5
    <2>2. k + 1 \in 1 .. Len(t.clauses)
      BY <1>1, <1>5
    <2>3. PICK next : next = at[k + 1]
      OBVIOUS
    <2>4. next \in 1 .. n /\ ~Blank(s[next]) /\ ~Comma(s[next])
      BY <2>2, <2>3, ClauseStart
    <2>5. Len(sep) \in {1, 2}
      BY SeparatorShape
    <2>6. end \in 1 .. n /\ next = end + Len(sep)
      <3>1. PICK p, l : p = at[k] /\ l = Len(sep)
        OBVIOUS
      <3>2. p \in 1 .. n /\ end \in p + 1 .. n + 1
        BY <1>3, <3>1
      <3>3. next = end + l /\ l \in {1, 2}
        BY <2>1, <2>3, <2>5, <3>1
      <3>4. end \in 1 .. n
        BY ONLY n \in Nat, <2>4, <3>2, <3>3
      <3> QED
        BY <3>1, <3>3, <3>4
    <2>7. /\ SkipComma(Trim(Suffix(s, end))) = Suffix(s, next)
          /\ Blank(s[end]) \/ Comma(s[end])
      BY ONLY s \in Text, n \in Nat, n = Len(s), <1>2, <2>1, <2>4, <2>6, AfterSeparator
    <2>8. RestAfter(t, at, k) = Suffix(s, next)
      BY <1>5, <2>3 DEF RestAfter
    <2> QED
      BY <2>7, <2>8
  <1> QED
    BY <1>1, <1>4, <1>5

\* Init takes the blanks in front, and there are none.
LEMMA StartsReading ==
    ASSUME NEW t, NEW s \in Text, s = t.tokens, t.clauses \in Seq(Clause), t.clauses # <<>>,
           NEW at \in Positions(t), WrittenAt(t, at)
    PROVE  Trim(s) = RestAfter(t, at, 0)
  <1>1. PICK n : n = Len(s)
    OBVIOUS
  <1>2. n \in Nat
    BY <1>1 DEF Text
  <1>3. Len(t.clauses) \in Nat /\ Len(t.clauses) > 0 /\ 1 \in 1 .. Len(t.clauses)
    OBVIOUS
  <1>4. ~Blank(s[n]) /\ n >= 1
    BY <1>1, <1>2, InkAtTheEnd
  <1>5. at[1] = 1
    BY DEF WrittenAt
  <1>6. ~Blank(s[at[1]])
    BY <1>3, ClauseStart
  <1>7. Trim(s) = Suffix(s, 1)
    <2>1. 1 \in 1 .. n /\ 1 .. 1 - 1 = {}
      BY <1>2, <1>4
    <2> QED
      BY <1>1, <1>2, <1>4, <1>5, <1>6, <2>1, TrimIs
  <1>8. RestAfter(t, at, 0) = Suffix(s, at[0 + 1])
    BY <1>3 DEF RestAfter
  <1> QED
    BY <1>5, <1>7, <1>8

\* Between two clauses there is no comma left to drop, and the rest is not empty.
LEMMA RestIsCurrent ==
    ASSUME NEW t, NEW s \in Text, s = t.tokens, t.clauses \in Seq(Clause),
           NEW at \in Positions(t), WrittenAt(t, at), NEW k \in 0 .. Len(t.clauses),
           NEW x, x = RestAfter(t, at, k)
    PROVE  /\ SkipComma(x) = x
           /\ x = <<>> <=> k = Len(t.clauses)
           /\ k < Len(t.clauses) => x = Suffix(s, at[k + 1])
  <1>1. PICK n : n = Len(s)
    OBVIOUS
  <1>2. n \in Nat /\ Len(t.clauses) \in Nat
    BY <1>1 DEF Text
  <1>3. CASE k = Len(t.clauses)
    <2>1. x = <<>>
      BY <1>2, <1>3 DEF RestAfter
    <2> QED
      BY <1>2, <1>3, <2>1, SuffixAtEnd
  <1>4. CASE k < Len(t.clauses)
    <2>1. PICK p : p = at[k + 1]
      OBVIOUS
    <2>2. k + 1 \in 1 .. Len(t.clauses)
      BY <1>2, <1>4
    <2>3. p \in 1 .. n /\ ~Comma(s[p])
      BY <1>1, <2>1, <2>2, ClauseStart
    <2>4. x = Suffix(s, p)
      BY <1>4, <2>1 DEF RestAfter
    <2>5. x # <<>> /\ x[1] = s[p]
      <3>1. p \in 1 .. Len(s)
        BY <1>1, <2>3
      <3> QED
        BY ONLY s \in Text, <2>4, <3>1, SuffixStart
    <2>6. SkipComma(x) = x
      BY <2>3, <2>5, NoCommaToSkip
    <2>7. k # Len(t.clauses)
      BY <1>2, <1>4
    <2> QED
      BY <2>1, <2>4, <2>5, <2>6, <2>7
  <1> QED
    BY <1>2, <1>3, <1>4

\* What one turn of the loop does with the next clause.
LEMMA NextClause ==
    ASSUME NEW t, NEW s \in Text, s = t.tokens, t.clauses \in Seq(Clause),
           NEW at \in Positions(t), WrittenAt(t, at), NEW k \in 1 .. Len(t.clauses),
           NEW c, c = t.clauses[k], NEW x, x = Suffix(s, at[k])
    PROVE  /\ c \in Clause
           /\ IsRange(x) <=> c.op = "range"
           /\ c.op = "range" =>
                 /\ Parsed(Left(x)) = c.from /\ Parsed(Upper(x)) = c.to
                 /\ SkipComma(Trim(SubSeq(Right(x), RightEnd(x), Len(Right(x)))))
                       = RestAfter(t, at, k)
           /\ c.op # "range" =>
                 /\ IsAtom(x) /\ Op(x) = c.op /\ Parsed(Atom(x)) = c.from
                 /\ SkipComma(Trim(SubSeq(Operand(x), OperandEnd(x), Len(Operand(x)))))
                       = RestAfter(t, at, k)
  <1>1. PICK n, p, end : n = Len(s) /\ p = at[k] /\ end = p + Len(ClauseTokens(c))
    OBVIOUS
  <1>len. n = Len(s) /\ end = at[k] + Len(ClauseTokens(c))
    BY <1>1
  <1>2. n \in Nat /\ t.clauses # <<>>
    BY <1>1 DEF Text
  <1>3. ~Blank(s[n])
    BY <1>1, <1>2, InkAtTheEnd
  <1>4. c \in Clause /\ p \in 1 .. n /\ StandsAt(ClauseTokens(c), s, p)
    BY <1>1, <1>2, ClausePlace
  <1>5. /\ SkipComma(Trim(Suffix(s, end))) = RestAfter(t, at, k)
        /\ end = n + 1 \/ Blank(s[end]) \/ Comma(s[end])
    <2>1. SkipComma(Trim(Suffix(s, end))) = RestAfter(t, at, k)
      BY <1>len, <1>2, RestAfterClause
    <2>2. end = n + 1 \/ Blank(s[end]) \/ Comma(s[end])
      BY <1>len, <1>2, RestAfterClause
    <2> QED
      BY <2>1, <2>2
  <1>6. c.op \in Operators \cup {"range"}
    BY <1>4, NodeOfClause
  <1>7. x = Suffix(s, p)
    BY <1>1
  <1>8. CASE c.op = "range"
    <2>1. Len(ClauseTokens(c)) = 5
      BY <1>8, RangeShape
    <2>2. end = p + 5 /\ (p + 4 = n \/ Blank(s[p + 5]) \/ Comma(s[p + 5]))
      BY <1>1, <1>2, <1>4, <1>5, <2>1
    <2>3. /\ IsRange(x) /\ Parsed(Left(x)) = c.from /\ Parsed(Upper(x)) = c.to
          /\ SubSeq(Right(x), RightEnd(x), Len(Right(x))) = Suffix(s, p + 5)
      BY ONLY s \in Text, <1>len, <1>2, <1>3, <1>4, <1>7, <1>8, <2>2, RangeIsTaken
    <2> QED
      BY <1>4, <1>5, <1>8, <2>2, <2>3
  <1>9. CASE c.op \in Operators
    <2>1. Len(ClauseTokens(c)) = 2
      BY <1>9, AtomShape
    <2>2. end = p + 2 /\ (p + 1 = n \/ Blank(s[p + 2]) \/ Comma(s[p + 2]))
      BY <1>1, <1>2, <1>4, <1>5, <2>1
    <2>3. /\ ~IsRange(x) /\ IsAtom(x) /\ Op(x) = c.op /\ Parsed(Atom(x)) = c.from
          /\ SubSeq(Operand(x), OperandEnd(x), Len(Operand(x))) = Suffix(s, p + 2)
      BY ONLY s \in Text, <1>len, <1>2, <1>3, <1>4, <1>7, <1>9, <2>2, AtomIsTaken
    <2>4. c.op # "range"
      BY <1>9, Zenon DEF Operators
    <2> QED
      BY <1>4, <1>5, <2>2, <2>3, <2>4
  <1> QED
    BY <1>6, <1>8, <1>9

GInv == IInv /\ text \in Texts /\ ReadSoFar

LEMMA TextsAreTyped ==
    ASSUME NEW t \in Texts
    PROVE  /\ t.tokens \in Text /\ t.clauses \in Seq(Clause)
           /\ t.clauses # <<>> => \E at \in Positions(t) : WrittenAt(t, at)
  BY ConstraintAssumption DEF Text, Positions

LEMMA StartReads == Init => GInv
  <1> SUFFICES ASSUME Init PROVE GInv
    OBVIOUS
  <1>1. text \in Texts /\ rest = Trim(text.tokens) /\ nodes = <<>> /\ status = "parsing"
    BY DEF Init
  <1>2. ASSUME text.clauses # <<>> PROVE ReadSoFar
    <2>1. PICK at \in Positions(text) : WrittenAt(text, at)
      BY <1>1, <1>2, TextsAreTyped
    <2>2. rest = RestAfter(text, at, 0)
      BY <1>1, <1>2, <2>1, TextsAreTyped, StartsReading
    <2>3. Len(nodes) = 0 /\ Len(text.clauses) \in Nat /\ 1 .. Len(nodes) = {}
      BY <1>1, TextsAreTyped
    <2> QED
      BY <1>1, <2>1, <2>2, <2>3 DEF ReadSoFar
  <1> QED
    BY <1>1, <1>2, InitInv DEF GInv, ReadSoFar

LEMMA StepReads == GInv /\ [Next]_vars => GInv'
  <1> SUFFICES ASSUME GInv, [Next]_vars PROVE GInv'
    OBVIOUS
  <1>1. IInv'
    BY StepInv DEF GInv
  <1>2. text' = text /\ text' \in Texts
    BY DEF GInv, Next, TakeRange, TakeAtom, Reject, Finish, Returned, vars
  <1>3. ASSUME text.clauses # <<>> PROVE ReadSoFar'
    <2>1. PICK T, cs : T = text.tokens /\ cs = text.clauses
      OBVIOUS
    <2>2. T \in Text /\ cs \in Seq(Clause) /\ Len(cs) \in Nat /\ cs # <<>>
      BY <1>3, <2>1, TextsAreTyped DEF GInv
    <2>3. PICK m : m = Len(nodes)
      OBVIOUS
    <2>4. nodes \in Seq(NodeType) /\ m \in 0 .. Len(cs) /\ status # "invalid"
      BY <1>3, <2>1, <2>2, <2>3 DEF GInv, IInv, ReadSoFar
    <2>5. \A i \in 1 .. m : nodes[i] = NodeOf(cs[i])
      BY <1>3, <2>1, <2>3 DEF GInv, ReadSoFar
    <2>6. PICK at \in Positions(text) : WrittenAt(text, at) /\ rest = RestAfter(text, at, m)
      BY <1>3, <2>3 DEF GInv, ReadSoFar
    <2>7. /\ SkipComma(rest) = rest
          /\ rest = <<>> <=> m = Len(cs)
          /\ m < Len(cs) => rest = Suffix(T, at[m + 1])
      BY <2>1, <2>2, <2>4, <2>6, RestIsCurrent
    <2>8. PICK x : x = Current
      OBVIOUS
    <2>9. x = rest
      BY <2>7, <2>8 DEF Current
    <2>10. ASSUME NEW k \in 1 .. Len(cs), k = m + 1,
                  nodes' = Append(nodes, NodeOf(cs[k])), rest' = RestAfter(text, at, k),
                  status' = "parsing"
           PROVE  ReadSoFar'
      <3>1. Len(nodes') = k /\ \A i \in 1 .. k : nodes'[i] = IF i = k THEN NodeOf(cs[k]) ELSE nodes[i]
        BY <2>3, <2>4, <2>10
      <3>2. \A i \in 1 .. k : nodes'[i] = NodeOf(cs[i])
        <4>1. \A i \in 1 .. k : i = k \/ i \in 1 .. m
          BY <2>4, <2>10
        <4> QED
          BY <2>5, <3>1, <4>1
      <3>3. k <= Len(cs)
        BY <2>2
      <3> QED
        BY <1>2, <2>1, <2>6, <2>10, <3>1, <3>2, <3>3 DEF ReadSoFar
    <2>11. ASSUME x # <<>>
           PROVE  \E k \in 1 .. Len(cs) :
                     /\ k = m + 1 /\ x = Suffix(T, at[k]) /\ cs[k] \in Clause
                     /\ IsRange(x) <=> cs[k].op = "range"
                     /\ cs[k].op = "range" =>
                           /\ Parsed(Left(x)) = cs[k].from /\ Parsed(Upper(x)) = cs[k].to
                           /\ SkipComma(Trim(SubSeq(Right(x), RightEnd(x), Len(Right(x)))))
                                 = RestAfter(text, at, k)
                     /\ cs[k].op # "range" =>
                           /\ IsAtom(x) /\ Op(x) = cs[k].op /\ Parsed(Atom(x)) = cs[k].from
                           /\ SkipComma(Trim(SubSeq(Operand(x), OperandEnd(x), Len(Operand(x)))))
                                 = RestAfter(text, at, k)
      <3>1. PICK k : k = m + 1
        OBVIOUS
      <3>2. k \in 1 .. Len(cs) /\ m < Len(cs)
        BY <2>2, <2>4, <2>7, <2>9, <2>11, <3>1
      <3>3. x = Suffix(T, at[k])
        BY <2>7, <2>9, <3>1, <3>2
      <3> QED
        BY <2>1, <2>2, <2>6, <3>1, <3>2, <3>3, NextClause
    <2>12. CASE TakeRange
      <3>1. /\ x # <<>> /\ IsRange(x) /\ status' = "parsing"
            /\ nodes' = Append(nodes, Node("range", Parsed(Left(x)), Parsed(Upper(x))))
            /\ rest' = SkipComma(Trim(SubSeq(Right(x), RightEnd(x), Len(Right(x)))))
        BY <2>8, <2>12 DEF TakeRange
      <3>2. PICK k \in 1 .. Len(cs) :
               /\ k = m + 1 /\ cs[k].op = "range"
               /\ Parsed(Left(x)) = cs[k].from /\ Parsed(Upper(x)) = cs[k].to
               /\ rest' = RestAfter(text, at, k)
        BY <2>11, <3>1
      <3>3. NodeOf(cs[k]) = Node("range", Parsed(Left(x)), Parsed(Upper(x)))
        BY <3>2 DEF NodeOf
      <3> QED
        BY <2>10, <3>1, <3>2, <3>3
    <2>13. CASE TakeAtom
      <3>1. /\ x # <<>> /\ ~IsRange(x) /\ status' = "parsing"
            /\ nodes' = Append(nodes, Node(Op(x), Parsed(Atom(x)), Parsed(Atom(x))))
            /\ rest' = SkipComma(Trim(SubSeq(Operand(x), OperandEnd(x), Len(Operand(x)))))
        BY <2>8, <2>13 DEF TakeAtom
      <3>2. PICK k \in 1 .. Len(cs) :
               /\ k = m + 1 /\ cs[k].op # "range"
               /\ Op(x) = cs[k].op /\ Parsed(Atom(x)) = cs[k].from
               /\ rest' = RestAfter(text, at, k)
        BY <2>11, <3>1
      <3>3. NodeOf(cs[k]) = Node(Op(x), Parsed(Atom(x)), Parsed(Atom(x)))
        BY <3>2 DEF NodeOf
      <3> QED
        BY <2>10, <3>1, <3>2, <3>3
    <2>14. ~Reject
      <3>1. x # <<>> => IsRange(x) \/ IsAtom(x)
        BY <2>11
      <3>2. nodes = <<>> => x # <<>>
        BY <2>2, <2>3, <2>7, <2>9
      <3> QED
        BY <2>8, <3>1, <3>2 DEF Reject
    <2>15. CASE Finish
      <3>1. x = <<>> /\ rest' = rest /\ nodes' = nodes /\ status' = "done"
        BY <2>8, <2>15 DEF Finish
      <3>2. m = Len(cs)
        BY <2>7, <2>9, <3>1
      <3> QED
        BY <1>2, <2>1, <2>2, <2>3, <2>4, <2>5, <2>6, <3>1, <3>2 DEF ReadSoFar
    <2>16. CASE Returned \/ UNCHANGED vars
      <3>1. rest' = rest /\ nodes' = nodes /\ status' = status
        BY <2>16 DEF Returned, vars
      <3> QED
        BY <1>2, <3>1 DEF GInv, ReadSoFar
    <2> QED
      BY <2>12, <2>13, <2>14, <2>15, <2>16 DEF Next
  <1>4. ASSUME text.clauses = <<>> PROVE ReadSoFar'
    <2>1. text'.clauses = <<>>
      BY <1>2, <1>4
    <2> QED
      BY <2>1, Zenon DEF ReadSoFar
  <1> QED
    BY <1>1, <1>2, <1>3, <1>4 DEF GInv

\* What was read is what was meant.
LEMMA ReadingIsMeaning == GInv => GrammarIsUnderstood
  <1> SUFFICES ASSUME GInv, text.clauses # <<>>, status = "done",
                      NEW v \in Samples, v.pre = <<>>
               PROVE  LET clauses == Range(text.clauses)
                          meant == \A c \in clauses : Means(c, v)
                          top == \E c \in clauses : AtTheTop(c)
                      IN  (Matches(nodes, v) => meant) /\ (meant /\ ~top => Matches(nodes, v))
    BY DEF GInv, ReadSoFar, GrammarIsUnderstood
  <1>1. PICK cs : cs = text.clauses
    OBVIOUS
  <1>2. cs \in Seq(Clause)
    BY <1>1, TextsAreTyped DEF GInv
  <1>3. Len(nodes) = Len(cs) /\ \A i \in 1 .. Len(cs) : nodes[i] = NodeOf(cs[i])
    BY <1>1 DEF GInv, ReadSoFar
  <1>4. /\ \A i \in 1 .. Len(cs) : cs[i] \in Clause /\ cs[i] \in Range(cs)
        /\ \A c \in Range(cs) : \E i \in 1 .. Len(cs) : c = cs[i]
    <2>1. DOMAIN cs = 1 .. Len(cs)
      BY <1>2
    <2> QED
      BY <1>2, <2>1 DEF Range
  <1>5. v \in Version /\ v.major >= 0 /\ v.minor >= 0 /\ v.patch >= 0
    BY ConstraintAssumption
  <1>6. \A i \in 1 .. Len(cs) : /\ match(nodes[i], v) => Means(cs[i], v)
                                /\ Means(cs[i], v) /\ ~AtTheTop(cs[i]) => match(nodes[i], v)
    BY <1>3, <1>4, <1>5, NodeMeansClause
  <1>7. Matches(nodes, v) <=> \A i \in 1 .. Len(cs) : match(nodes[i], v)
    BY <1>3 DEF Matches
  <1> QED
    BY <1>1, <1>4, <1>6, <1>7

\* Whatever clauses of the documented syntax are written one after the other, with a blank,
\* a comma or both between them, Parse accepts the text, and what it parsed matches exactly
\* the releases that all the clauses mean; only next to the largest int does it match fewer.
THEOREM GrammarUnderstood == Spec => []GrammarIsUnderstood
  BY StartReads, StepReads, ReadingIsMeaning, PTL DEF Spec
=============================================================================
