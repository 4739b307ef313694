------------------------------- MODULE Logger -------------------------------
(***************************************************************************)
(* The log file of Logger (logging.cc): logv, called by any thread, first  *)
(* lets maybeRotate rename the file when a new period has begun and open   *)
(* another one, and then writes its line to m_fd.  There is no mutex: the  *)
(* threads share m_lastRotate, a plain variable (an aligned long, so that  *)
(* its loads and stores are whole), and the atomic m_realRotate, whose     *)
(* exchange is to let one thread only rotate.                              *)
(*                                                                         *)
(* The clock and the periods are in seconds, counted from a local midnight *)
(* (now - timezone).  A rotated file is named after the minute in which    *)
(* its thread read the clock; rename puts it in the place of a file that   *)
(* has this name already.                                                  *)
(***************************************************************************)
EXTENDS Naturals, Sequences

CONSTANTS
    Threads,        \* the threads that log
    Interval,       \* m_rotateInterval, in seconds
    MinuteLength,   \* seconds in a minute
    MaxTime,        \* bound: the clock stops here
    None

ASSUME LoggerAssumption ==
    /\ Interval \in Nat \ {0}
    /\ MinuteLength \in Nat \ {0}
    /\ MaxTime \in Nat
    /\ None \notin Nat

VARIABLES
    clock,
    m_lastRotate, m_realRotate,
    m_fd,      \* the file (a number) the descriptor m_fd refers to
    current,   \* the file called m_filename, or None
    rotated,   \* minute -> the file named after it
    written,   \* files that have lines
    files,     \* number of files created
    rotations, \* history: the time of each rename, as its thread had read it
    overtaken, \* history: what threads were at when another one stored a later period
    pc, now, old, opened   \* each thread: where it is in logv, local variables

sharedVars == <<m_lastRotate, m_realRotate>>
fileVars == <<m_fd, current, rotated, written, files>>
historyVars == <<rotations, overtaken>>
vars == <<clock, sharedVars, fileVars, historyVars, pc, now, old, opened>>

(* maybeRotate, before and after it is decided who rotates.                *)
Deciding == {"test", "store", "swap", "compare"}
Renaming == {"rename", "open", "dup"}
Rotating == Deciding \cup Renaming

TypeOK ==
    /\ clock \in 0..MaxTime
    /\ m_lastRotate \in 0..clock /\ m_realRotate \in 0..clock
    /\ m_fd \in 1..files
    /\ current \in 1..files \cup {None}
    /\ DOMAIN rotated \subseteq 0..MaxTime
    /\ \A m \in DOMAIN rotated : rotated[m] \in 1..files
    /\ written \subseteq 1..files
    /\ rotations \in Seq(0..MaxTime)
    /\ overtaken \subseteq {"deciding", "renaming"}
    /\ pc \in [Threads -> Rotating \cup {"out", "write"}]
    /\ now \in [Threads -> 0..clock] /\ old \in [Threads -> 0..clock]
    /\ opened \in [Threads -> 1..files \cup {None}]

\* setFileName has opened the file, before the other threads log.
Init ==
    /\ clock = 0
    /\ m_lastRotate = 0 /\ m_realRotate = 0
    /\ m_fd = 1 /\ current = 1 /\ files = 1
    /\ rotated = <<>>
    /\ written = {}
    /\ rotations = <<>> /\ overtaken = {}
    /\ pc = [t \in Threads |-> "out"]
    /\ now = [t \in Threads |-> 0]
    /\ old = [t \in Threads |-> 0]
    /\ opened = [t \in Threads |-> None]

Period(time) == time \div Interval

Minute(time) == time \div MinuteLength

At(t, l) == pc[t] = l
Goto(t, l) == pc' = [pc EXCEPT ![t] = l]

-----------------------------------------------------------------------------
(* maybeRotate *)

Enter(t) ==
    /\ At(t, "out")
    /\ now' = [now EXCEPT ![t] = clock]
    /\ Goto(t, "test")
    /\ UNCHANGED <<clock, sharedVars, fileVars, historyVars, old, opened>>

Test(t) ==
    /\ At(t, "test")
    /\ Goto(t, IF Period(now[t]) = Period(m_lastRotate) THEN "write" ELSE "store")
    /\ UNCHANGED <<clock, sharedVars, fileVars, historyVars, now, old, opened>>

\* Threads still in maybeRotate that have read the clock in an earlier period.
Behind(t) == {u \in Threads \ {t} : pc[u] \in Rotating /\ Period(now[u]) < Period(now[t])}

Store(t) ==
    /\ At(t, "store")
    /\ m_lastRotate' = now[t]
    /\ overtaken' = overtaken \cup
           {IF pc[u] \in Deciding THEN "deciding" ELSE "renaming" : u \in Behind(t)}
    /\ Goto(t, "swap")
    /\ UNCHANGED <<clock, m_realRotate, fileVars, rotations, now, old, opened>>

\* Mutant: a load instead of the exchange.
SwapLoads(t) ==
    /\ At(t, "swap")
    /\ old' = [old EXCEPT ![t] = m_realRotate]
    /\ Goto(t, "compare")
    /\ UNCHANGED <<clock, sharedVars, fileVars, historyVars, now, opened>>

\* m_realRotate.exchange(now)
Swap(t) ==
    /\ At(t, "swap")
    /\ old' = [old EXCEPT ![t] = m_realRotate]
    /\ m_realRotate' = now[t]
    /\ Goto(t, "compare")
    /\ UNCHANGED <<clock, m_lastRotate, fileVars, historyVars, now, opened>>

\* Mutant: whoever swaps rotates.
CompareNothing(t) ==
    /\ At(t, "compare")
    /\ Goto(t, "rename")
    /\ UNCHANGED <<clock, sharedVars, fileVars, historyVars, now, old, opened>>

\* Reads m_lastRotate again, which another thread may have changed.
Compare(t) ==
    /\ At(t, "compare")
    /\ Goto(t, IF Period(old[t]) = Period(m_lastRotate) THEN "write" ELSE "rename")
    /\ UNCHANGED <<clock, sharedVars, fileVars, historyVars, now, old, opened>>

\* rename may fail, and does when there is no such file.
Rename(t) ==
    /\ At(t, "rename")
    /\ \/ /\ current # None
          /\ rotated' = [m \in DOMAIN rotated \cup {Minute(now[t])} |->
                            IF m = Minute(now[t]) THEN current ELSE rotated[m]]
          /\ current' = None
          /\ rotations' = Append(rotations, now[t])
          /\ Goto(t, "open")
       \/ /\ Goto(t, "write")
          /\ UNCHANGED <<current, rotated, rotations>>
    /\ UNCHANGED <<clock, sharedVars, m_fd, written, files, overtaken, now, old, opened>>

\* open with O_CREAT; it may fail.
Open(t) ==
    /\ At(t, "open")
    /\ \/ /\ files' = IF current = None THEN files + 1 ELSE files
          /\ current' = IF current = None THEN files + 1 ELSE current
          /\ opened' = [opened EXCEPT ![t] = current']
          /\ Goto(t, "dup")
       \/ /\ Goto(t, "write")
          /\ UNCHANGED <<files, current, opened>>
    /\ UNCHANGED <<clock, sharedVars, m_fd, rotated, written, historyVars, now, old>>

\* Mutant: the new file is opened and closed, but m_fd stays as it is.
DupNothing(t) ==
    /\ At(t, "dup")
    /\ opened' = [opened EXCEPT ![t] = None]
    /\ Goto(t, "write")
    /\ UNCHANGED <<clock, sharedVars, fileVars, historyVars, now, old>>

\* dup2(fd, m_fd); close(fd)
Dup(t) ==
    /\ At(t, "dup")
    /\ m_fd' = opened[t]
    /\ opened' = [opened EXCEPT ![t] = None]
    /\ Goto(t, "write")
    /\ UNCHANGED <<clock, sharedVars, current, rotated, written, files, historyVars, now, old>>

-----------------------------------------------------------------------------
(* The rest of logv: one line goes to the file. *)

Write(t) ==
    /\ At(t, "write")
    /\ written' = written \cup {m_fd}
    /\ Goto(t, "out")
    /\ now' = [now EXCEPT ![t] = 0] /\ old' = [old EXCEPT ![t] = 0]
    /\ UNCHANGED <<clock, sharedVars, m_fd, current, rotated, files, historyVars, opened>>

Tick ==
    /\ clock < MaxTime
    /\ clock' = clock + 1
    /\ UNCHANGED <<sharedVars, fileVars, historyVars, pc, now, old, opened>>

Next ==
    \/ Tick
    \/ \E t \in Threads :
        \/ Enter(t) \/ Test(t) \/ Store(t) \/ Swap(t) \/ Compare(t)
        \/ Rename(t) \/ Open(t) \/ Dup(t) \/ Write(t)

Spec == Init /\ [][Next]_vars

-----------------------------------------------------------------------------
(* Correctness.  maybeRotate relies on its threads being quicker than its  *)
(* periods; overtaken says exactly where that has failed.  A thread that   *)
(* goes on deciding with the time of an earlier period sets m_lastRotate   *)
(* or m_realRotate back, or takes a later m_lastRotate for its own.        *)

\* No minute has seconds of two periods, as when Interval is a number of whole
\* minutes.
MinutesApart ==
    \A a, b \in 0..MaxTime : Minute(a) = Minute(b) => Period(a) = Period(b)

\* No line is lost: a file that has lines has a name, also when a rotation is
\* still renaming or opening while the next one goes on.  A second rotation in
\* the same minute would rename the new file over the one just rotated.
NoLineLost ==
    MinutesApart /\ "deciding" \notin overtaken =>
        \A f \in written : f = current \/ \E m \in DOMAIN rotated : rotated[m] = f

\* A period has at most one rotation, however many threads see it begin and
\* read m_lastRotate, write it and exchange m_realRotate at the same time.
OneRotationPerPeriod ==
    "deciding" \notin overtaken =>
        \A i, j \in DOMAIN rotations : Period(rotations[i]) = Period(rotations[j]) => i = j

\* Between rotations lines go to the file that has the log's name, if there
\* is one: the descriptors of a rotation do not overtake each other, unless
\* one takes until another period's rotation.
FdIsCurrent ==
    overtaken = {} /\ (\A t \in Threads : pc[t] \notin Rotating) => current \in {m_fd, None}

=============================================================================
