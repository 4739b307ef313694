------------------------------ MODULE IniFile ------------------------------
(***************************************************************************)
(* What an ini file means, without a parser: a file is a sequence of lines *)
(* of known kinds, and a value belongs to the last section and the last    *)
(* name above it.  The first line that has no meaning ends the file.       *)
(*                                                                         *)
(* A line is a record [kind, name, value, text]; text is one of the ways   *)
(* to write it.                                                            *)
(***************************************************************************)
EXTENDS Naturals, Sequences, SequencesExt

CONSTANTS
    Words,      \* names and values, as sequences of characters
    Blanks      \* what may surround them: sequences of spaces

Line(kind, name, value, text) ==
    [kind |-> kind, name |-> name, value |-> value, text |-> text \o <<"nl">>]

\* A value of one word or none and what may follow it: a comment, more words.
Rests == {v \in (Words \cup {<<>>}) \X {<<>>, <<";", "x">>, <<" ", "x">>} :
             v[1] = <<>> => v[2] # <<" ", "x">>}

SectionLines ==
    {Line("section", n, <<>>, l \o <<"[">> \o l \o n \o r \o <<"]">> \o r) :
        n \in Words, l \in Blanks, r \in Blanks}

\* name = value; after a colon at least one blank is needed.
PairLines ==
    {Line("pair", n, v[1], n \o l \o s \o r \o v[1] \o v[2]) :
        n \in Words, v \in Rests, l \in Blanks, r \in Blanks, s \in {<<"=">>, <<":", " ">>}}

\* Another value for the name above; it may hold any character.
MoreLines ==
    {Line("more", <<>>, v \o e \o w, <<" ">> \o l \o v \o e \o w \o l) :
        v \in Words, w \in Words, e \in {<<" ">>, <<"=">>, <<"#">>, <<" ", ";">>}, l \in Blanks}

EmptyLines ==
    {Line("empty", <<>>, <<>>, l \o t) :
        l \in Blanks, t \in {<<>>, <<"#">>, <<";", "x", "=", "x">>}}

\* No separator; a section that is not closed.
BadLines ==
    {Line("bad", <<>>, <<>>, n \o l) : n \in Words, l \in Blanks}

UnclosedLines ==
    {Line("unclosed", <<>>, <<>>, l \o <<"[">> \o n \o l) : n \in Words, l \in Blanks}

Text(f) == FlattenSeq([i \in DOMAIN f |-> f[i].text])

-----------------------------------------------------------------------------
(* The meaning of the lines f *)

LastBefore(f, i, kinds) == SelectLastInSubSeq(f, 1, i, LAMBDA l : l.kind \in kinds)

SectionAt(f, i) ==
    LET s == LastBefore(f, i, {"section"}) IN IF s = 0 THEN <<>> ELSE f[s].name

\* The name a value in line i belongs to, if there is one.
Named(f, i) == LET n == LastBefore(f, i, {"section", "pair"}) IN n # 0 /\ f[n].kind = "pair"

NameAt(f, i) ==
    IF f[i].kind = "bad" THEN <<>> ELSE f[LastBefore(f, i, {"pair"})].name

Wrong(f, i) ==
    f[i].kind \in {"bad", "unclosed"} \/ (f[i].kind = "more" /\ ~Named(f, i))

\* The number of the first wrong line, 0 if there is none.
FirstWrong(f) == SelectInSeq([i \in DOMAIN f |-> Wrong(f, i)], LAMBDA w : w)

\* The lines that give values: those above the wrong line, and a line without
\* separator itself, which leaves an empty value under the empty name.
HasValue(f, i) ==
    /\ FirstWrong(f) = 0 \/ i <= FirstWrong(f)
    /\ f[i].kind \in {"pair", "bad"} \/ (f[i].kind = "more" /\ Named(f, i))

\* The values of a name in a section; Same compares two names.
ValuesOf(f, sec, name, Same(_, _)) ==
    LET lines == SelectSeq([i \in DOMAIN f |-> i],
                     LAMBDA i : /\ HasValue(f, i)
                                /\ Same(SectionAt(f, i), sec) /\ Same(NameAt(f, i), name))
    IN [j \in DOMAIN lines |-> f[lines[j]].value]

=============================================================================
