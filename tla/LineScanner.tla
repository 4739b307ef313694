---------------------------- MODULE LineScanner ----------------------------
(***************************************************************************)
(* LineScanner (conf.h): a pointer p into a buffer b of characters and a   *)
(* flag err that stops every later scan.  A scanner is a record [p, err];  *)
(* an operation that returns a string returns [ln, str].                   *)
(*                                                                         *)
(* Characters are strings of one character; "nl" is the end of a line,     *)
(* NUL ends a string and " " stands for every other space.                 *)
(***************************************************************************)
EXTENDS Naturals, Sequences, FiniteSetsExt

NUL == "nul"

isspace(c) == c \in {" ", "nl"}

LineStart == [p |-> 1, err |-> FALSE]

\* The first place from p on whose character is not in S.  A scan that leaves
\* the buffer is undefined behaviour; it stops at the buffer's last place.
After(b, p, S) == Min({q \in p..Len(b) : b[q] \notin S} \cup {Len(b)})

\* The first place from p on whose character is in S.
Until(b, p, S) == Min({q \in p..Len(b) : b[q] \in S} \cup {Len(b)})

SkipSpace(b, ln) == IF ln.err THEN ln ELSE [ln EXCEPT !.p = After(b, ln.p, {" ", "nl"})]

\* The text from place s to place e, which is not part of it, without the
\* spaces at its end.
Rstrip(b, s, e) ==
    LET ends == {q \in s..(e - 1) : ~isspace(b[q])}
    IN SubSeq(b, s, IF ends = {} THEN s - 1 ELSE Max(ends))

Skip(ln, i) == [ln EXCEPT !.p = @ + i]

\* match: steps over one character in any case; err is set anew.
Match(b, ln, c) ==
    LET l == SkipSpace(b, ln) IN [p |-> l.p + 1, err |-> b[l.p] # c]

\* consumeTill: with err set the scan stays where it is.
ConsumeTill(b, ln, c) ==
    LET l == SkipSpace(b, ln)
        e == IF l.err THEN l.p ELSE Until(b, l.p, {NUL, c})
    IN IF b[e] # c
         THEN [ln |-> [l EXCEPT !.err = TRUE], str |-> <<>>]
         ELSE [ln |-> [l EXCEPT !.p = e], str |-> Rstrip(b, l.p, e)]

\* consumeTillEnd: one word, which a comment ends too.
ConsumeTillEnd(b, ln) ==
    LET l == SkipSpace(b, ln)
        e == IF l.err THEN l.p ELSE Until(b, l.p, {NUL, "#", ";", " ", "nl"})
    IN [ln |-> [l EXCEPT !.p = e], str |-> Rstrip(b, l.p, e)]

=============================================================================
