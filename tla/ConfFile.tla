----------------------------- MODULE ConfFile -----------------------------
(***************************************************************************)
(* A configuration file that some processes replace with File::renameSave  *)
(* while another reads it with Conf::parse, now and again into the same    *)
(* Conf.  IniFile says what the files mean.                                *)
(***************************************************************************)
EXTENDS File, Conf, IniFile

CONSTANTS
    Files,      \* what the file may be at first: sequences of lines
    Updates,    \* what is saved, likewise
    MaxParses   \* bound: calls of parse

ASSUME ConfFileAssumption ==
    /\ Contents = {Text(f) : f \in Updates}
    /\ {Text(f) : f \in Files} \subseteq Seq(STRING) \ {<<>>}
    /\ MaxParses \in Nat

VARIABLES
    fp,         \* the file parse has open, or NoFile
    parses,
    before,     \* history: m_values when parse was called
    first       \* history: the lines of the file at first

vars == <<fileVars, confVars, fp, parses, before, first>>

TypeOK ==
    /\ dir \in [Names -> Nat \cup {NoFile}] /\ fd \in [Savers -> Nat \cup {NoFile}]
    /\ InUse({fp}) \subseteq DOMAIN data
    /\ spc \in [Savers -> {"out", "write", "unlink", "rename"}]
    /\ \A s \in Savers : fd[s] # NoFile <=> spc[s] = "write"
    /\ saves \in 0..MaxSaves /\ faults \in 0..MaxFaults /\ parses \in 0..MaxParses
    /\ rpc \in {"out", "parse", "returned"}
    /\ fp # NoFile <=> rpc = "parse"
    /\ lineno \in Nat /\ result \in Nat \cup {-1}

Init ==
    /\ first \in Files
    /\ FileInit(Text(first)) /\ ConfInit
    /\ fp = NoFile /\ parses = 0 /\ before = m_values

\* parse opens the file, if there is one.
ParseCall ==
    /\ parses < MaxParses /\ parses' = parses + 1
    /\ before' = m_values
    /\ fp' = dir[Target]
    /\ IF dir[Target] = NoFile THEN NoFileToParse ELSE StartParse
    /\ UNCHANGED <<fileVars, first>>

\* parse reads the file it has opened, and closes it at the end.
Parse ==
    /\ rpc = "parse"
    /\ ParseLine(data[fp]) \/ EndParse(data[fp])
    /\ fp' = IF rpc' = "returned" THEN NoFile ELSE fp
    /\ UNCHANGED <<fileVars, parses, before, first>>

Next ==
    \/ \E s \in Savers : Save(s, {fp}) /\ UNCHANGED <<confVars, fp, parses, before, first>>
    \/ ParseCall \/ Parse

Spec == Init /\ [][Next]_vars

-----------------------------------------------------------------------------
(* Correctness *)

Same(a, b) == Lower(a) = Lower(b)

\* The Conf after a parse of the lines f: the values of f stand behind those
\* it had before, and get returns the last one.
MeaningRead(f) ==
    LET names == Words \cup {<<>>}
        old(k) == IF k \in DOMAIN before THEN before[k] ELSE <<>>
    IN /\ result = FirstWrong(f)
       /\ DOMAIN m_values \subseteq {makeKey(sec, n) : sec \in names, n \in names}
       /\ \A sec \in names, n \in names :
              LET all == old(makeKey(sec, n)) \o ValuesOf(f, sec, n, Same)
              IN /\ getStrings(sec, n) = all
                 /\ get(sec, n, "default") = IF all = <<>> THEN "default" ELSE Last(all)

\* However saves, failures and crashes interleave with it, parse returns the
\* meaning of one version of the file, the values above a wrong line and that
\* line's number included; unless a write was short.
ParsesAsWritten ==
    rpc = "returned" /\ result # -1 /\ ~torn =>
        \E f \in Updates \cup {first} : MeaningRead(f)

\* Without a fault, a reader misses the file only while a save is between
\* unlink and rename, however many save at a time.
GoneOnlyInSave ==
    dir[Target] = NoFile => faults > 0 \/ \E s \in Savers : spc[s] = "rename"

\* One crash, failed write or failed rename does not cost the configuration:
\* there is a complete version under one of the names, or a saver is about to
\* write one (over the temporary file that an earlier crash has left).
OneFaultLosesNothing ==
    faults <= 1 /\ ~torn =>
        \/ \E n \in Names : Whole(n, Text(first))
        \/ \E s \in Savers : spc[s] = "write"

=============================================================================
