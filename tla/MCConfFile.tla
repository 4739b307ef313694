---------------------------- MODULE MCConfFile ----------------------------
(* Model-checking instance of ConfFile: every line there is, in some        *)
(* surroundings, and short files of a few plain lines in any order.         *)
EXTENDS ConfFile

CONSTANTS s1, s2, t1, t2

MCTemporary == s1 :> t1 @@ s2 :> t2
Symmetry == {s1 :> s2 @@ s2 :> s1 @@ t1 :> t2 @@ t2 :> t1}
MCWords == {<<"a">>, <<"A">>}
MCBlanks == {<<>>, <<" ">>}

Section(n) == Line("section", n, <<>>, <<"[">> \o n \o <<"]">>)
Pair(n, v) == Line("pair", n, v, n \o <<"=">> \o v)
More(v) == Line("more", <<>>, v, <<" ">> \o v)

PlainLines ==
    {Section(<<"a">>), Section(<<"A">>), Pair(<<"a">>, <<"A">>), Pair(<<"A">>, <<"a">>),
     More(<<"a">>), Line("empty", <<>>, <<>>, <<>>), Line("bad", <<>>, <<>>, <<"a">>)}

AllLines == SectionLines \cup PairLines \cup MoreLines \cup EmptyLines \cup BadLines \cup UnclosedLines

Around(l) ==
    LET s == Section(<<"A">>)
        p == Pair(<<"A">>, <<"a">>)
        m == More(<<"A">>)
    IN {<<l>>, <<l, m>>, <<p, l, m>>, <<s, p, l, p>>, <<p, s, l, m>>}

MCFiles == UNION {Around(l) : l \in AllLines} \cup UNION {[1..n -> PlainLines] : n \in 1..4}

\* Saves and a second parse are explored for a few files only.
MixedFiles == [1..2 -> {Section(<<"a">>), Pair(<<"a">>, <<"A">>), More(<<"a">>)}]

Bound == first \in MixedFiles \/ (saves = 0 /\ parses <= 1)

MCUpdates == {<<Pair(<<"A">>, <<"A">>), More(<<"a">>)>>, <<Line("pair", <<"a">>, <<>>, <<"a", ":">>)>>}

MCContents == {Text(f) : f \in MCUpdates}
=============================================================================
