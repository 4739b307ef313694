------------------------------- MODULE Conf -------------------------------
(***************************************************************************)
(* Conf (conf.h): parse reads an ini file line by line into m_values, a    *)
(* map from "section.name" to the list of its values; the getters look it  *)
(* up.  parse may be called again, for instance to reload the file; it     *)
(* starts with what m_values holds.                                        *)
(*                                                                         *)
(* buf keeps what fgets of earlier lines has left behind the NUL of a      *)
(* shorter one; some scans get there.                                      *)
(***************************************************************************)
EXTENDS LineScanner, SequencesExt

CONSTANTS
    MAXSIZE,    \* size of buf
    Junk        \* characters that fresh memory may hold

ASSUME ConfAssumption == MAXSIZE \in Nat \ {0, 1}

VARIABLES
    rpc,        \* parse: "out", "parse", "returned"
    offset,     \* characters of the file that fgets has returned
    buf,
    lineno,
    section,    \* the local variables of parse
    key,
    m_values,
    result      \* what the last parse has returned

confVars == <<rpc, offset, buf, lineno, section, key, m_values, result>>

ConfInit ==
    /\ rpc = "out"
    /\ offset = 0 /\ buf = <<>> /\ lineno = 0
    /\ section = <<>> /\ key = <<>>
    /\ m_values = <<>>
    /\ result = 0

ToLower == [c \in {"A", "B"} |-> IF c = "A" THEN "a" ELSE "b"]

Lower(s) == [i \in DOMAIN s |-> IF s[i] \in DOMAIN ToLower THEN ToLower[s[i]] ELSE s[i]]

makeKey(sec, name) == Lower(sec \o <<".">> \o name)

-----------------------------------------------------------------------------
(* The getters *)

getStrings(sec, name) ==
    LET k == makeKey(sec, name) IN IF k \in DOMAIN m_values THEN m_values[k] ELSE <<>>

get(sec, name, default) ==
    LET k == makeKey(sec, name) IN IF k \in DOMAIN m_values THEN Last(m_values[k]) ELSE default

-----------------------------------------------------------------------------
(* parse of a file with the characters text *)

PushBack(sec, name, value) ==
    LET k == makeKey(sec, name)
    IN m_values' = [j \in DOMAIN m_values \cup {k} |->
                       IF j = k THEN getStrings(sec, name) \o <<value>> ELSE m_values[j]]

\* fopen fails: -1.
NoFileToParse ==
    /\ rpc # "parse"
    /\ rpc' = "returned" /\ result' = -1
    /\ UNCHANGED <<offset, buf, lineno, section, key, m_values>>

\* fopen succeeds; buf is new memory.
StartParse ==
    /\ rpc # "parse"
    /\ rpc' = "parse"
    /\ offset' = 0 /\ lineno' = 0
    /\ \E c \in Junk : buf' = [i \in 1..MAXSIZE |-> c]
    /\ section' = <<>> /\ key' = <<>>
    /\ UNCHANGED <<m_values, result>>

\* The characters the next fgets takes: up to the end of a line, of the file
\* or of buf.
NextLine(text) ==
    LET rest == SubSeq(text, offset + 1, Len(text))
        n == Min({i \in DOMAIN rest : rest[i] = "nl"} \cup {Len(rest), MAXSIZE - 1})
    IN SubSeq(rest, 1, n)

\* The end of one round of the loop, which an error leaves.
Ends(err) ==
    IF err THEN rpc' = "returned" /\ result' = lineno'
           ELSE UNCHANGED <<rpc, result>>

\* Mutant: the key of the section before is kept.
SectionLineKeepsKey(b, ln) ==
    LET name == ConsumeTill(b, Skip(ln, 1), "]")
    IN /\ section' = name.str
       /\ Ends(Match(b, name.ln, "]").err)
       /\ UNCHANGED <<key, m_values>>

\* [section]
SectionLine(b, ln) ==
    LET name == ConsumeTill(b, Skip(ln, 1), "]")
    IN /\ section' = name.str
       /\ key' = <<>>
       /\ Ends(Match(b, name.ln, "]").err)
       /\ UNCHANGED m_values

\* A line that begins with a space: another value of the same key.
MoreLine(b, ln) ==
    /\ IF key = <<>> THEN UNCHANGED m_values
                     ELSE PushBack(section, key, ConsumeTill(b, ln, NUL).str)
    /\ Ends(key = <<>>)
    /\ UNCHANGED <<section, key>>

\* key = value, or key: value.  The value is stored before an error is seen;
\* skip(1) steps over "=", but in the other case over the character behind ":".
PairLine(b, ln) ==
    LET eq == ConsumeTill(b, ln, "=")
        colon == ConsumeTill(b, ln, ":")
        found == b[SkipSpace(b, eq.ln).p] = "="
        name == IF found THEN eq ELSE colon
        at == IF found THEN eq.ln ELSE Match(b, colon.ln, ":")
    IN /\ key' = name.str
       /\ PushBack(section, name.str, ConsumeTillEnd(b, Skip(at, 1)).str)
       /\ Ends(at.err)
       /\ UNCHANGED section

\* One round of the loop.
ParseLine(text) ==
    LET line == NextLine(text)
        b == line \o <<NUL>> \o SubSeq(buf, Len(line) + 2, Len(buf))
        ln == SkipSpace(b, LineStart)
        c == b[ln.p]
    IN /\ rpc = "parse" /\ offset < Len(text)
       /\ offset' = offset + Len(line)
       /\ buf' = b
       /\ lineno' = lineno + 1
       /\ \/ c \in {";", "#", NUL} /\ UNCHANGED <<rpc, section, key, m_values, result>>
          \/ c = "[" /\ SectionLine(b, ln)
          \/ c \notin {";", "#", NUL, "["} /\ isspace(b[1]) /\ MoreLine(b, ln)
          \/ c \notin {";", "#", NUL, "["} /\ ~isspace(b[1]) /\ PairLine(b, ln)

\* fgets finds the end of the file: 0.
EndParse(text) ==
    /\ rpc = "parse" /\ offset >= Len(text)
    /\ rpc' = "returned" /\ result' = 0
    /\ UNCHANGED <<offset, buf, lineno, section, key, m_values>>

=============================================================================
