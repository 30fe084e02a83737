----------------------------- MODULE Constraint -----------------------------
(***************************************************************************)
(* internal/constraint: the parser of dependency constraints, one step per *)
(* clause, and the match of a version.                                     *)
(*                                                                         *)
(* A text is a sequence of tokens: operators, "-", " ", ",", and words,    *)
(* which are identifiers joined by dots.  Build metadata and a leading "v" *)
(* change nothing and are left out.  Bound: no identifier has a "-" inside.*)
(***************************************************************************)
EXTENDS Semver, FiniteSets, FiniteSetsExt, Functions

CONSTANTS Texts,     \* inputs: the tokens, and the clauses they write (none for other texts)
          Samples    \* the versions that are matched

Operators == {">=", "<=", "=", ">", "<", "^", "~"}

Token == [kind : Operators \cup {"-", " ", ",", "word"}, ids : Seq(Identifier)]

Word(ids) == [kind |-> "word", ids |-> ids]
Sign(s) == [kind |-> s, ids |-> <<>>]

-----------------------------------------------------------------------------
(* The documented syntax: clauses, with a blank, a comma or both between two. *)

Releases == {Release(a, b, c) : a, b, c \in 0 .. MaxInt}

Clause == [op : Operators \cup {"range"}, from : Releases, to : Releases]

Number(n) == [numeric |-> TRUE, value |-> n, zeros |-> 0]
Written(v) == Word(<<Number(v.major), Number(v.minor), Number(v.patch)>>)

ClauseTokens(c) ==
    IF c.op = "range"
    THEN <<Written(c.from), Sign(" "), Sign("-"), Sign(" "), Written(c.to)>>
    ELSE <<Sign(c.op), Written(c.from)>>

Separators == {<<Sign(" ")>>, <<Sign(",")>>, <<Sign(","), Sign(" ")>>}

\* The part stands at place p of s.
StandsAt(part, s, p) ==
    /\ p + Len(part) - 1 <= Len(s)
    /\ \A j \in 1 .. Len(part) : s[p + j - 1] = part[j]

\* The text is its clauses, the k-th of them at place at[k].
WrittenAt(t, at) ==
    /\ at[1] = 1
    /\ \A k \in 1 .. Len(t.clauses) :
          LET tokens == ClauseTokens(t.clauses[k])
              end == at[k] + Len(tokens)
          IN  /\ StandsAt(tokens, t.tokens, at[k])
              /\ IF k = Len(t.clauses) THEN end = Len(t.tokens) + 1
                 ELSE \E sep \in Separators :
                         StandsAt(sep, t.tokens, end) /\ at[k + 1] = end + Len(sep)

\* A version is registered or matched after it was parsed, which lets no sign pass.
ASSUME ConstraintAssumption ==
    /\ Samples \subseteq Version
    /\ \A v \in Samples : v.major >= 0 /\ v.minor >= 0 /\ v.patch >= 0
    /\ \A t \in Texts :
          /\ t.tokens \in Seq(Token) /\ t.clauses \in Seq(Clause)
          /\ t.clauses # <<>> =>
                \E at \in [1 .. Len(t.clauses) -> 1 .. Len(t.tokens)] : WrittenAt(t, at)

VARIABLES text,      \* raw, with what it is meant to say
          rest,      \* rest
          nodes,     \* c.nodes
          status     \* "parsing", "done" or "invalid"

vars == <<text, rest, nodes, status>>

-----------------------------------------------------------------------------
(* Tokens. *)

\* strings.TrimSpace
Trim(s) ==
    LET ink == {i \in 1 .. Len(s) : s[i].kind # " "}
    IN  IF ink = {} THEN <<>> ELSE SubSeq(s, Min(ink), Max(ink))

\* strings.Index and IndexAny; one past the end when there is none.
First(s, kinds) == Min({i \in 1 .. Len(s) : s[i].kind \in kinds} \cup {Len(s) + 1})

\* A comma at the start is dropped, with the blanks after it.
SkipComma(s) == IF s # <<>> /\ s[1].kind = "," THEN Trim(Tail(s)) ELSE s

\* major.minor.patch as parseUint takes them: three numbers that fit, no leading zero.
IsCore(word) ==
    /\ word.kind = "word" /\ Len(word.ids) = 3
    /\ \A i \in 1 .. 3 :
          word.ids[i].numeric /\ word.ids[i].zeros = 0 /\ word.ids[i].value <= MaxInt

\* semver.Parse accepts: a core, or a core, a dash and the identifiers of a prerelease.
IsVersionText(s) ==
    /\ Len(s) \in {1, 3}
    /\ IsCore(s[1])
    /\ Len(s) = 3 => s[2].kind = "-" /\ s[3].kind = "word"

Parsed(s) ==
    [major |-> s[1].ids[1].value, minor |-> s[1].ids[2].value, patch |-> s[1].ids[3].value,
     pre |-> IF Len(s) = 3 THEN s[3].ids ELSE <<>>, build |-> 0]

-----------------------------------------------------------------------------
(* Nodes. *)

\* n + 1 on machine integers.
Inc(n) == IF n = MaxInt THEN MinInt ELSE n + 1

caretLower(v) == Release(v.major, v.minor, v.patch)

\* Mutant: the caret keeps the major number only.
caretUpperOfMajor(v) == Release(Inc(v.major), 0, 0)

caretUpper(v) ==
    IF v.major > 0 THEN Release(Inc(v.major), 0, 0)
    ELSE IF v.minor > 0 THEN Release(0, Inc(v.minor), 0)
    ELSE Release(0, 0, Inc(v.patch))

tildeLower(v) == Release(v.major, v.minor, v.patch)
tildeUpper(v) == Release(v.major, Inc(v.minor), 0)

Node(op, v, u) ==
    [op |-> op,
     lower |-> CASE op = "^" -> caretLower(v) [] op = "~" -> tildeLower(v) [] OTHER -> v,
     upper |-> CASE op = "^" -> caretUpper(v) [] op = "~" -> tildeUpper(v) [] OTHER -> u]

\* Mutant: "=" compares the texts.
matchText(n, v) ==
    CASE n.op = ">"  -> Compare(v, n.lower) > 0
      [] n.op = "<"  -> Compare(v, n.lower) < 0
      [] n.op = ">=" -> Compare(v, n.lower) >= 0
      [] n.op = "<=" -> Compare(v, n.lower) <= 0
      [] n.op = "="  -> v = n.lower
      [] n.op = "range"     -> Compare(v, n.lower) >= 0 /\ Compare(v, n.upper) <= 0
      [] n.op \in {"^", "~"} -> Compare(v, n.lower) >= 0 /\ Compare(v, n.upper) < 0

\* The version a comparison names is in lower; the upper end is open for ^ and ~ only.
match(n, v) ==
    CASE n.op = ">"  -> Compare(v, n.lower) > 0
      [] n.op = "<"  -> Compare(v, n.lower) < 0
      [] n.op = ">=" -> Compare(v, n.lower) >= 0
      [] n.op = "<=" -> Compare(v, n.lower) <= 0
      [] n.op = "="  -> Compare(v, n.lower) = 0
      [] n.op = "range"     -> Compare(v, n.lower) >= 0 /\ Compare(v, n.upper) <= 0
      [] n.op \in {"^", "~"} -> Compare(v, n.lower) >= 0 /\ Compare(v, n.upper) < 0

Matches(ns, v) == \A i \in 1 .. Len(ns) : match(ns[i], v)

-----------------------------------------------------------------------------
(* parseSub: one clause at the start of s, and what follows it. *)

\* A hyphen range: the first dash of the whole text stands between two versions.  An
\* operator in front of it is no version, so that the test for one adds nothing.
Dash(s) == First(s, {"-"})
Left(s) == Trim(SubSeq(s, 1, Dash(s) - 1))
Right(s) == Trim(SubSeq(s, Dash(s) + 1, Len(s)))
RightEnd(s) == First(Right(s), {" ", ","})
Upper(s) == SubSeq(Right(s), 1, RightEnd(s) - 1)

IsRange(s) == Dash(s) \in 2 .. Len(s) /\ IsVersionText(Left(s)) /\ IsVersionText(Upper(s))

\* An operator, none meaning "=", and a version up to the next blank or comma.
Op(s) == IF s[1].kind \in Operators THEN s[1].kind ELSE "="
Operand(s) == IF s[1].kind \in Operators THEN Trim(Tail(s)) ELSE s
OperandEnd(s) == First(Operand(s), {" ", ","})
Atom(s) == SubSeq(Operand(s), 1, OperandEnd(s) - 1)

IsAtom(s) == IsVersionText(Atom(s))

-----------------------------------------------------------------------------
(* Parse. *)

Init ==
    /\ text \in Texts
    /\ rest = Trim(text.tokens)
    /\ nodes = <<>>
    /\ status = "parsing"

\* The loop drops a comma before it looks at the rest, the first clause does not.
Current == IF nodes = <<>> THEN rest ELSE SkipComma(rest)

\* Mutant: a range does not use up its text when something follows it.
TakeRangeStays ==
    /\ status = "parsing" /\ Current # <<>> /\ IsRange(Current)
    /\ nodes' = Append(nodes, Node("range", Parsed(Left(Current)), Parsed(Upper(Current))))
    /\ rest' = IF RightEnd(Current) <= Len(Right(Current)) THEN Current ELSE <<>>
    /\ UNCHANGED <<text, status>>

TakeRange ==
    /\ status = "parsing" /\ Current # <<>> /\ IsRange(Current)
    /\ nodes' = Append(nodes, Node("range", Parsed(Left(Current)), Parsed(Upper(Current))))
    /\ rest' = SkipComma(Trim(SubSeq(Right(Current), RightEnd(Current), Len(Right(Current)))))
    /\ UNCHANGED <<text, status>>

TakeAtom ==
    /\ status = "parsing" /\ Current # <<>> /\ ~IsRange(Current) /\ IsAtom(Current)
    /\ LET v == Parsed(Atom(Current))
       IN  nodes' = Append(nodes, Node(Op(Current), v, v))
    /\ rest' = SkipComma(Trim(SubSeq(Operand(Current), OperandEnd(Current),
                                     Len(Operand(Current)))))
    /\ UNCHANGED <<text, status>>

\* An empty text, or a clause that is neither.
Reject ==
    /\ status = "parsing"
    /\ \/ Current = <<>> /\ nodes = <<>>
       \/ Current # <<>> /\ ~IsRange(Current) /\ ~IsAtom(Current)
    /\ status' = "invalid"
    /\ UNCHANGED <<text, rest, nodes>>

Finish ==
    /\ status = "parsing" /\ Current = <<>> /\ nodes # <<>>
    /\ status' = "done"
    /\ UNCHANGED <<text, rest, nodes>>

\* Parse has returned.
Returned == status # "parsing" /\ UNCHANGED vars

Next == TakeRange \/ TakeAtom \/ Reject \/ Finish \/ Returned

Spec == Init /\ [][Next]_vars

-----------------------------------------------------------------------------
(* What the parser must get right. *)

\* What the clauses of README.md mean, said of releases without reference to bounds: ^
\* keeps the leftmost number that is not zero and those before it, ~ keeps major and minor.
Core(v) == <<v.major, v.minor, v.patch>>
LastKept(op, base) ==
    IF op = "~" THEN 2 ELSE Min({i \in 1 .. 3 : Core(base)[i] # 0} \cup {3})
Keeps(op, base, v) == \A i \in 1 .. LastKept(op, base) : Core(v)[i] = Core(base)[i]

\* Precedence of releases.
AtLeast(v, o) ==
    \/ Core(v) = Core(o)
    \/ \E i \in 1 .. 3 : Core(v)[i] > Core(o)[i] /\ \A j \in 1 .. i - 1 : Core(v)[j] = Core(o)[j]

Means(clause, v) ==
    CASE clause.op = ">="    -> AtLeast(v, clause.from)
      [] clause.op = ">"     -> ~AtLeast(clause.from, v)
      [] clause.op = "<="    -> AtLeast(clause.from, v)
      [] clause.op = "<"     -> ~AtLeast(v, clause.from)
      [] clause.op = "="     -> Core(v) = Core(clause.from)
      [] clause.op = "range" -> AtLeast(v, clause.from) /\ AtLeast(clause.to, v)
      [] clause.op \in {"^", "~"} -> AtLeast(v, clause.from) /\ Keeps(clause.op, clause.from, v)

\* The last number that ^ or ~ keeps is the largest int, and the bound after it wraps.
AtTheTop(clause) ==
    clause.op \in {"^", "~"} /\ Core(clause.from)[LastKept(clause.op, clause.from)] = MaxInt

\* A text of the documented syntax is accepted, and matches exactly the releases that all
\* its clauses mean, however they are separated; next to the largest int it can only
\* match fewer.
GrammarIsUnderstood ==
    text.clauses # <<>> =>
        /\ status # "invalid"
        /\ status = "done" =>
              LET clauses == Range(text.clauses)
                  top == \E c \in clauses : AtTheTop(c)
              IN  \A v \in Samples : v.pre = <<>> =>
                     LET meant == \A c \in clauses : Means(c, v)
                     IN  (Matches(nodes, v) => meant) /\ (meant /\ ~top => Matches(nodes, v))

Accepted == {v \in Samples : Matches(nodes, v)}

\* Whatever was parsed accepts an interval of precedence; so it cannot tell versions of
\* equal precedence apart, and a constraint is a set of ranks.
AcceptsAnInterval ==
    status = "done" =>
        \A v \in Samples \ Accepted :
            \/ \A u \in Accepted : Compare(u, v) > 0
            \/ \A w \in Accepted : Compare(v, w) > 0

\* Compare is a total preorder, so that sorting by it is deterministic.
IsTotalPreorder(S) ==
    \A u, v \in S :
        /\ Compare(u, u) = 0
        /\ Compare(u, v) = -Compare(v, u)
        /\ \A w \in S : Compare(u, v) <= 0 /\ Compare(v, w) <= 0 => Compare(u, w) <= 0

\* The numbers of two identifiers are one number to an int.
SameIdentifier(x, y) ==
    /\ x.numeric = y.numeric
    /\ \/ x.value = y.value
       \/ x.numeric /\ x.value >= MaxInt /\ y.value >= MaxInt

\* Versions share a place in the order exactly when they differ in no more than build
\* metadata, leading zeros of prerelease numbers, and prerelease numbers beyond int.
SameRank(u, v) ==
    /\ Core(u) = Core(v) /\ Len(u.pre) = Len(v.pre)
    /\ \A i \in 1 .. Len(u.pre) : SameIdentifier(u.pre[i], v.pre[i])

\* The versions a constraint accepts, which are sorted and looked up by Compare, are in a
\* total preorder, and share a place in it in the cases of SameRank only.
OrderIsTotal ==
    status = "done" =>
        /\ IsTotalPreorder(Accepted)
        /\ \A u, v \in Accepted : Compare(u, v) = 0 <=> SameRank(u, v)

\* Every turn of the loop uses up text or is the last one, so that Parse ends on every text.
UsesUpText == [][Len(rest') < Len(rest) \/ status' # "parsing"]_vars
=============================================================================
