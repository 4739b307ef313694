------------------------------- MODULE Daemon -------------------------------
(***************************************************************************)
(* Daemon (daemon.h): the commands start, stop and restart of a program    *)
(* that runs as a daemon, with its process number in a pid file.  Commands *)
(* are processes of their own; they see each other and the daemon through  *)
(* the pid file and signals only, and process numbers are used again.      *)
(*                                                                         *)
(* Opening the pid file truncates it before lockf is called, the result of *)
(* lockf is only logged, and closing the file drops the lock: the lock     *)
(* decides nothing, so the model has none.                                 *)
(***************************************************************************)
EXTENDS Naturals, FiniteSets

CONSTANTS
    Pids,      \* the process numbers
    Commands,  \* the commands in use, of "start", "stop", "restart"
    Serial,    \* nobody issues a start or restart while another is under way
    Polls,     \* how often daemonStop looks after the daemon (300)
    NoPid

ASSUME DaemonAssumption ==
    /\ NoPid \notin Pids /\ {"absent", "empty"} \cap Pids = {}
    /\ Commands \subseteq {"start", "stop", "restart"}
    /\ Serial \in BOOLEAN
    /\ Polls \in Nat \ {0}

VARIABLES
    file,    \* the pid file: "absent", "empty", or the number in it
    writers, \* processes whose open pid file is the one under that name
    proc     \* each process: what it is doing (pc), the command it was issued
             \* for (cmd), the number a stop or restart has read from the pid
             \* file (target), and the rounds of daemonStop's loop (polls)

daemonVars == <<file, writers, proc>>

(* pc: "free" no such process.  A command: "start", "fork" in daemonStart, *)
(* "stop", "kill", "poll" in daemonStop, "gaveup" at its end, "restart",   *)
(* "probe" in daemonRestart.  The forked child: "open", "write", "null"    *)
(* until daemonStart returns; "up" daemonStart has returned; "daemon" the  *)
(* program handles SIGQUIT by exit(); "exiting" exit() runs destructors;   *)
(* "ended" they have run, the process is not gone yet.                     *)
CommandStates == {"start", "fork", "stop", "kill", "poll", "gaveup", "restart", "probe"}
ChildStates == {"open", "write", "null"}
PcStates == CommandStates \cup ChildStates \cup {"free", "up", "daemon", "exiting", "ended"}

DaemonTypeOK ==
    /\ file \in Pids \cup {"absent", "empty"}
    /\ writers \subseteq {p \in Pids : proc[p].pc = "write"}
    /\ proc \in [Pids -> [pc : PcStates, cmd : {"start", "stop", "restart"},
                          target : Pids \cup {NoPid}, polls : 0..Polls]]

Idle == [pc |-> "free", cmd |-> "start", target |-> NoPid, polls |-> 0]

DaemonInit ==
    /\ file = "absent"
    /\ writers = {}
    /\ proc = [p \in Pids |-> Idle]

Alive(p) == proc[p].pc # "free"

At(p, l) == proc[p].pc = l

\* Process p when it goes on at l; nothing is kept of one that is gone.
Going(p, l) == IF l = "free" THEN Idle ELSE [proc[p] EXCEPT !.pc = l]

Goto(p, l) == proc' = [proc EXCEPT ![p] = Going(p, l)]

Starting == {p \in Pids : proc[p].pc \in CommandStates \cup ChildStates /\ proc[p].cmd # "stop"}

-----------------------------------------------------------------------------
(* daemonProcess *)

Issue(p, c) ==
    /\ ~Alive(p)
    /\ Serial /\ c # "stop" => Starting = {}
    /\ proc' = [proc EXCEPT ![p] = [Idle EXCEPT !.pc = c, !.cmd = c]]
    /\ UNCHANGED <<file, writers>>

-----------------------------------------------------------------------------
(* daemonStart *)

\* Mutant: no look at the pid file.
StartUnchecked(p) ==
    /\ At(p, "start")
    /\ Goto(p, "fork")
    /\ UNCHANGED <<file, writers>>

\* Any number in the pid file ends the command, whether that process exists
\* or not.
StartReads(p) ==
    /\ At(p, "start")
    /\ Goto(p, IF file \in Pids THEN "free" ELSE "fork")
    /\ UNCHANGED <<file, writers>>

\* The child goes on, the parent exits.  The command fails when its own
\* parent has gone (getppid() == 1) or fork does.
Fork(p) ==
    /\ At(p, "fork")
    /\ \/ Goto(p, "free")
       \/ \E c \in Pids :
              /\ ~Alive(c)
              /\ proc' = [proc EXCEPT ![p] = Idle, ![c] = [Idle EXCEPT !.pc = "open"]]
    /\ UNCHANGED <<file, writers>>

\* WritePidtoFile: open with O_CREAT and O_TRUNC.  Without a descriptor the
\* write fails and the child exits.
OpenPidFile(c) ==
    /\ At(c, "open")
    /\ \/ /\ Goto(c, "write")
          /\ file' = "empty"
          /\ writers' = writers \cup {c}
       \/ /\ Goto(c, "free")
          /\ UNCHANGED <<file, writers>>

\* The number goes to the opened file, even if its name is gone.
WritePid(c) ==
    /\ At(c, "write")
    /\ writers' = writers \ {c}
    /\ \/ /\ Goto(c, "null")
          /\ file' = IF c \in writers THEN c ELSE file
       \/ /\ Goto(c, "free")
          /\ UNCHANGED file

\* /dev/null, and the static object that unlinks the pid file at exit.
Null(c) ==
    /\ At(c, "null")
    /\ Goto(c, "up") \/ Goto(c, "free")
    /\ UNCHANGED <<file, writers>>

-----------------------------------------------------------------------------
(* The daemon's life: Signal::signal(SIGQUIT, quitfunc), exit(), death.    *)

Handles(d) ==
    /\ At(d, "up")
    /\ Goto(d, "daemon")
    /\ UNCHANGED <<file, writers>>

Exits(d) ==
    /\ At(d, "up") \/ At(d, "daemon")
    /\ Goto(d, "exiting")
    /\ UNCHANGED <<file, writers>>

\* Mutant: the pid file is unlinked again when the process has ended.
UnlinkTwice(d) ==
    /\ At(d, "exiting") \/ At(d, "ended")
    /\ file' = "absent"
    /\ writers' = {}
    /\ Goto(d, "ended")

\* The static ExitCaller of daemonStart.
UnlinkPidFile(d) ==
    /\ At(d, "exiting")
    /\ file' = "absent"
    /\ writers' = {}
    /\ Goto(d, "ended")

Vanishes(d) ==
    /\ At(d, "ended")
    /\ Goto(d, "free")
    /\ UNCHANGED <<file, writers>>

\* A process is killed: no destructor of its own runs.
Crashes(p) ==
    /\ Alive(p)
    /\ Goto(p, "free")
    /\ writers' = writers \ {p}
    /\ UNCHANGED file

-----------------------------------------------------------------------------
(* daemonStop and daemonRestart *)

\* Where SIGQUIT makes q go: exit() if it is handled, else death.
Quit(q) ==
    IF At(q, "daemon") THEN "exiting"
    ELSE IF At(q, "exiting") \/ At(q, "ended") THEN proc[q].pc ELSE "free"

\* p sends SIGQUIT to its target and becomes next, unless it hit itself.
SendQuit(p, next) ==
    LET q == proc[p].target
    IN /\ proc' = IF p = q THEN [proc EXCEPT ![p] = Idle]
                  ELSE [proc EXCEPT ![p] = next, ![q] = Going(q, Quit(q))]
       /\ writers' = IF Quit(q) = "free" THEN writers \ {q} ELSE writers

\* The number in the pid file becomes the target.
Reads(p, l) ==
    proc' = [proc EXCEPT ![p] = [@ EXCEPT !.pc = l, !.target = file]]

StopReads(p) ==
    /\ At(p, "stop")
    /\ IF file \in Pids THEN Reads(p, "kill") ELSE Goto(p, "free")
    /\ UNCHANGED <<file, writers>>

Kill(p) ==
    /\ At(p, "kill")
    /\ IF Alive(proc[p].target)
         THEN SendQuit(p, Going(p, "poll"))
         ELSE Goto(p, "free") /\ UNCHANGED writers
    /\ UNCHANGED file

\* daemonStop has seen the process gone: stop is done, restart goes on.
Stopped(p) ==
    /\ proc' = [proc EXCEPT ![p] = IF proc[p].cmd = "stop" THEN Idle
                                   ELSE [Idle EXCEPT !.pc = "start", !.cmd = "restart"]]
    /\ UNCHANGED writers

\* Mutant: the rounds are not counted.
PollForever(p) ==
    /\ At(p, "poll")
    /\ IF Alive(proc[p].target) THEN SendQuit(p, proc[p]) ELSE Stopped(p)
    /\ UNCHANGED file

\* usleep, and SIGQUIT again: it fails when the process has gone.
Poll(p) ==
    LET n == proc[p].polls + 1
    IN /\ At(p, "poll")
       /\ IF Alive(proc[p].target)
            THEN SendQuit(p, [proc[p] EXCEPT !.polls = n,
                                             !.pc = IF n = Polls THEN "gaveup" ELSE "poll"])
            ELSE Stopped(p)
       /\ UNCHANGED file

GivesUp(p) ==
    /\ At(p, "gaveup")
    /\ Goto(p, "free")
    /\ UNCHANGED <<file, writers>>

RestartReads(p) ==
    /\ At(p, "restart")
    /\ IF file \in Pids THEN Reads(p, "probe") ELSE Goto(p, "start")
    /\ UNCHANGED <<file, writers>>

\* kill(pid, 0)
Probe(p) ==
    /\ At(p, "probe")
    /\ IF Alive(proc[p].target) THEN Goto(p, "stop") ELSE Goto(p, "start")
    /\ UNCHANGED <<file, writers>>

-----------------------------------------------------------------------------

CommandStep(p) ==
    \/ StartReads(p) \/ Fork(p)
    \/ StopReads(p) \/ Kill(p) \/ Poll(p) \/ GivesUp(p)
    \/ RestartReads(p) \/ Probe(p)

DaemonNext ==
    \E p \in Pids :
        \/ \E c \in Commands : Issue(p, c)
        \/ CommandStep(p)
        \/ OpenPidFile(p) \/ WritePid(p) \/ Null(p)
        \/ Handles(p) \/ Exits(p) \/ UnlinkPidFile(p) \/ Vanishes(p)
        \/ Crashes(p)

DaemonSafeSpec == DaemonInit /\ [][DaemonNext]_daemonVars

\* The commands run; nothing says that the daemon reacts to SIGQUIT in time.
DaemonSpec == DaemonSafeSpec /\ \A p \in Pids : WF_daemonVars(CommandStep(p))

-----------------------------------------------------------------------------
(* Correctness, when starts are serial *)

\* At most one process is the daemon or on the way to it, whatever crashes,
\* stops in the middle of a start and reused process numbers do.
AtMostOneDaemon ==
    Cardinality({p \in Pids : proc[p].pc \in ChildStates \cup {"up", "daemon"}}) <= 1

\* The pid file names the daemon as long as it runs, so that stop and restart
\* reach it: no other process's exit or start takes the file away.
FileNamesDaemon ==
    \A d \in Pids : proc[d].pc \in {"null", "up", "daemon", "exiting"} => file = d

\* Every command ends, also when the daemon ignores SIGQUIT or the pid file
\* names a process that has nothing to do with it.
CommandsEnd ==
    \A p \in Pids : proc[p].pc \in CommandStates ~> proc[p].pc \notin CommandStates

-----------------------------------------------------------------------------
(* What messages in the code say *)

\* "daemon exists,use restart": start is refused because of a number in the
\* pid file only if that process exists.
RefusedOnlyIfExists ==
    [][\A p \in Pids : StartReads(p) /\ file \in Pids => Alive(file)]_daemonVars

=============================================================================
