---------------------------- MODULE MCConstraint ----------------------------
(* Machine integers up to 2; texts of the documented syntax with one or two clauses, and
   every sequence of at most 4 tokens of a small alphabet. *)
EXTENDS Constraint, SequencesExt

ZeroNum(n) == [numeric |-> TRUE, value |-> n, zeros |-> 1]
Alpha(n) == [numeric |-> FALSE, value |-> n, zeros |-> 0]

Pre(ids) == [Release(1, 0, 0) EXCEPT !.pre = ids]
MCSamples ==
    Releases
    \cup {Pre(ids) : ids \in {<<Number(0)>>, <<ZeroNum(0)>>, <<Number(1)>>, <<Number(2)>>, <<Number(3)>>,
                              <<Number(4)>>, <<Alpha(1)>>, <<Alpha(2)>>, <<Alpha(1), Number(1)>>,
                              <<Number(3), Alpha(1)>>, <<Number(4), Number(0)>>}}
    \cup {[Release(1, 0, 0) EXCEPT !.build = 1], [Release(2, 0, 0) EXCEPT !.pre = <<Alpha(1)>>]}

Bases == {Release(0, 0, 1), Release(0, 1, 2), Release(1, 0, 2), Release(1, 2, 0), Release(2, 0, 0)}

MCClauses ==
    [op : Operators, from : Bases, to : {Release(0, 0, 0)}]
    \cup [op : {">="}, from : {Release(0, 0, 0)}, to : {Release(0, 0, 0)}]
    \cup [op : {"range"}, from : {Release(0, 1, 2), Release(1, 0, 2)},
          to : {Release(1, 0, 2), Release(2, 0, 0)}]

Documented ==
    {[tokens |-> ClauseTokens(c), clauses |-> <<c>>] : c \in MCClauses}
    \cup {[tokens |-> ClauseTokens(c) \o sep \o ClauseTokens(d), clauses |-> <<c, d>>] :
             c \in {k \in MCClauses : k.op \in {"range", "^", ">="}},
             d \in {k \in MCClauses : k.op \in {"range", "<", "~"}}, sep \in Separators}

Alphabet == {Word(<<Number(1), Number(0), Number(0)>>), Word(<<Alpha(1)>>)}
            \cup {Sign(s) : s \in {"-", " ", ",", ">=", "^"}}

\* Two words are not adjacent, and no identifier has a dash inside.
Possible(s) ==
    /\ \A i \in 1 .. Len(s) - 1 : s[i].kind # "word" \/ s[i + 1].kind # "word"
    /\ \A i, j \in 1 .. Len(s) :
          i < j /\ s[i].kind = "-" /\ s[j].kind = "-"
          => \E k \in i .. j : s[k].kind \in {" ", ","}

Others ==
    {[tokens |-> s, clauses |-> <<>>] : s \in {t \in SeqOf(Alphabet, 4) : Possible(t)}}

MCTexts == Documented \cup Others
=============================================================================
