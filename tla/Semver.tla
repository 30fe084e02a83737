------------------------------- MODULE Semver -------------------------------
(***************************************************************************)
(* internal/semver: precedence of versions, on machine integers.           *)
(*                                                                         *)
(* A version is its normalised text: Parse drops blanks and a leading "v", *)
(* and String of two versions is equal exactly when all fields are.        *)
(* A prerelease is its sequence of identifiers, empty when there is none.  *)
(* Of an alphanumeric identifier only its place in the byte order of       *)
(* strings matters; a numeric one is the number it writes, which need not  *)
(* fit an int, and its leading zeros, which validIdentifiers lets pass.    *)
(***************************************************************************)
EXTENDS Integers, Sequences

CONSTANT MaxInt   \* the largest int: 2^63 - 1 in the builds of this program

ASSUME SemverAssumption == MaxInt \in Nat

MinInt == -MaxInt - 1
MachineInt == MinInt .. MaxInt

Identifier ==
    {id \in [numeric : BOOLEAN, value : Nat, zeros : Nat] : ~id.numeric => id.zeros = 0}

Version == [major : MachineInt, minor : MachineInt, patch : MachineInt,
            pre : Seq(Identifier), build : Nat]

\* Version{Major: major, Minor: minor, Patch: patch}
Release(major, minor, patch) ==
    [major |-> major, minor |-> minor, patch |-> patch, pre |-> <<>>, build |-> 0]

-----------------------------------------------------------------------------
(* Comparison: negative, zero or positive. *)

\* strconv.Atoi with its error discarded: a number out of range gives the largest int.
Atoi(id) == IF id.value > MaxInt THEN MaxInt ELSE id.value

cmpInt(a, b) == IF a < b THEN -1 ELSE IF a > b THEN 1 ELSE 0

\* Mutant: leading zeros are compared too, after the places of the other kind.
CompareIdentifierByText(x, y) ==
    IF x.numeric /\ y.numeric /\ x.value = y.value THEN cmpInt(x.zeros, y.zeros)
    ELSE IF x.numeric # y.numeric THEN -1
    ELSE cmpInt(x.value, y.value)

\* One turn of the loop of comparePrerelease; 0 stands for going on.
CompareIdentifier(x, y) ==
    CASE x = y -> 0
      [] x # y /\ x.numeric /\ ~y.numeric -> -1
      [] x # y /\ ~x.numeric /\ y.numeric -> 1
      [] x # y /\ x.numeric /\ y.numeric -> cmpInt(Atoi(x), Atoi(y))
      [] x # y /\ ~x.numeric /\ ~y.numeric -> cmpInt(x.value, y.value)

\* The loop returns at the first place that decides, and there for a.
Precedes(a, b) ==
    \E i \in 1 .. Len(a) :
        /\ i <= Len(b)
        /\ \A j \in 1 .. i - 1 : CompareIdentifier(a[j], b[j]) = 0
        /\ CompareIdentifier(a[i], b[i]) < 0

comparePrerelease(a, b) ==
    IF a = b THEN 0
    ELSE IF a = <<>> THEN 1
    ELSE IF b = <<>> THEN -1
    ELSE IF Precedes(a, b) THEN -1
    ELSE IF Precedes(b, a) THEN 1
    ELSE cmpInt(Len(a), Len(b))

Compare(v, o) ==
    IF v.major # o.major THEN cmpInt(v.major, o.major)
    ELSE IF v.minor # o.minor THEN cmpInt(v.minor, o.minor)
    ELSE IF v.patch # o.patch THEN cmpInt(v.patch, o.patch)
    ELSE comparePrerelease(v.pre, o.pre)
=============================================================================
