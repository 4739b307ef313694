------------------------------- MODULE File -------------------------------
(***************************************************************************)
(* File::renameSave (file.h) on a directory: a saver writes the new        *)
(* content under a name of its own, removes the target and renames its     *)
(* file to it.  Each system call is a step; a write may fail or take only  *)
(* a part, rename may fail, and a saver may crash between any two calls    *)
(* and start again.                                                        *)
(*                                                                         *)
(* The system goes on: what was written stays written.  A loss of power,   *)
(* against which the code does nothing, is outside the model.              *)
(***************************************************************************)
EXTENDS Integers, Sequences, SequencesExt

CONSTANTS
    Savers,     \* processes that call renameSave
    Target,     \* newName
    Temporary,  \* oldName of each saver
    Contents,   \* what they save: sequences of characters
    NoFile,     \* "there is no such file" and "not open"
    MaxSaves, MaxFaults   \* bounds: calls of renameSave, faults

ASSUME FileAssumption ==
    /\ NoFile \notin Nat
    /\ DOMAIN Temporary = Savers
    /\ Target \notin Range(Temporary)
    /\ Contents \subseteq Seq(STRING) \ {<<>>}
    /\ MaxSaves \in Nat /\ MaxFaults \in Nat

VARIABLES
    dir,        \* the file each name stands for, or NoFile
    data,       \* the content of each file
    spc,        \* where each saver is: "out", "write", "unlink", "rename"
    fd,         \* the file each saver has open, or NoFile
    saves, faults,
    torn        \* history: a write took only a part and counts as success

fileVars == <<dir, data, spc, fd, saves, faults, torn>>

Names == {Target} \cup Range(Temporary)

\* Files in use: with a name, or open in a saver or in another process.
InUse(others) == (Range(dir) \cup Range(fd) \cup others) \ {NoFile}

\* The target with the content c is the only file.
FileInit(c) ==
    /\ dir = [n \in Names |-> IF n = Target THEN 1 ELSE NoFile]
    /\ data = <<c>>
    /\ spc = [s \in Savers |-> "out"]
    /\ fd = [s \in Savers |-> NoFile]
    /\ saves = 0 /\ faults = 0 /\ torn = FALSE

-----------------------------------------------------------------------------
(* writeContent(oldName) *)

\* open(O_CREAT|O_WRONLY|O_TRUNC): a file under that name is emptied.
Open(s, others) ==
    LET new == CHOOSE f \in 1..Len(data) + 1 : f \notin InUse(others)
        f == IF dir[Temporary[s]] = NoFile THEN new ELSE dir[Temporary[s]]
    IN /\ spc[s] = "out" /\ saves < MaxSaves
       /\ saves' = saves + 1
       /\ dir' = [dir EXCEPT ![Temporary[s]] = f]
       /\ data' = [i \in DOMAIN data \cup {f} |-> IF i = f THEN <<>> ELSE data[i]]
       /\ fd' = [fd EXCEPT ![s] = f]
       /\ spc' = [spc EXCEPT ![s] = "write"]
       /\ UNCHANGED <<faults, torn>>

Fault == faults < MaxFaults /\ faults' = faults + 1

\* write and close: c, or a part of it, over what the file holds.
Write(s, c) ==
    /\ spc[s] = "write"
    /\ \E n \in 1..Len(c) :
           /\ data' = [data EXCEPT ![fd[s]] = SubSeq(c, 1, n) \o SubSeq(@, n + 1, Len(@))]
           /\ IF n = Len(c) THEN UNCHANGED <<faults, torn>> ELSE Fault /\ torn' = TRUE
    /\ fd' = [fd EXCEPT ![s] = NoFile]
    /\ spc' = [spc EXCEPT ![s] = "unlink"]
    /\ UNCHANGED <<dir, saves>>

\* Mutant: renameSave does not look at what writeContent returns.
WriteFailsUnchecked(s) ==
    /\ spc[s] = "write" /\ Fault
    /\ fd' = [fd EXCEPT ![s] = NoFile]
    /\ spc' = [spc EXCEPT ![s] = "unlink"]
    /\ UNCHANGED <<dir, data, saves, torn>>

WriteFails(s) ==
    /\ spc[s] = "write" /\ Fault
    /\ fd' = [fd EXCEPT ![s] = NoFile]
    /\ spc' = [spc EXCEPT ![s] = "out"]
    /\ UNCHANGED <<dir, data, saves, torn>>

-----------------------------------------------------------------------------
(* renameSave goes on *)

\* unlink(newName), whose result is ignored.
Unlink(s) ==
    /\ spc[s] = "unlink"
    /\ dir' = [dir EXCEPT ![Target] = NoFile]
    /\ spc' = [spc EXCEPT ![s] = "rename"]
    /\ UNCHANGED <<data, fd, saves, faults, torn>>

\* Mutant: the two names are confused, and there is no file newName.
RenameSwapped(s) ==
    /\ spc[s] = "rename"
    /\ spc' = [spc EXCEPT ![s] = "out"]
    /\ UNCHANGED <<dir, data, fd, saves, faults, torn>>

\* renameFile(oldName, newName) replaces the target, should there be one.
Rename(s) ==
    /\ spc[s] = "rename"
    /\ dir' = IF dir[Temporary[s]] = NoFile THEN dir
              ELSE [dir EXCEPT ![Target] = dir[Temporary[s]], ![Temporary[s]] = NoFile]
    /\ spc' = [spc EXCEPT ![s] = "out"]
    /\ UNCHANGED <<data, fd, saves, faults, torn>>

RenameFails(s) ==
    /\ spc[s] = "rename" /\ Fault
    /\ spc' = [spc EXCEPT ![s] = "out"]
    /\ UNCHANGED <<dir, data, fd, saves, torn>>

\* The process ends, and is ready to save again.
Crash(s) ==
    /\ spc[s] # "out" /\ Fault
    /\ fd' = [fd EXCEPT ![s] = NoFile]
    /\ spc' = [spc EXCEPT ![s] = "out"]
    /\ UNCHANGED <<dir, data, saves, torn>>

Save(s, others) ==
    \/ Open(s, others) \/ WriteFails(s) \/ Unlink(s) \/ Rename(s) \/ RenameFails(s) \/ Crash(s)
    \/ \E c \in Contents : Write(s, c)

-----------------------------------------------------------------------------

\* The file under name n holds something that was saved, or stood there first.
Whole(n, first) == dir[n] # NoFile /\ data[dir[n]] \in Contents \cup {first}

=============================================================================
