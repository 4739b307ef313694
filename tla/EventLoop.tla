----------------------------- MODULE EventLoop -----------------------------
(***************************************************************************)
(* The task side of EventBase (eventbase.cc): threads hand tasks to the    *)
(* loop thread with safeCall, which queues the task and writes one byte to *)
(* the wakeup pipe; the loop thread polls, reads the pipe and runs what is *)
(* queued.  exit() sets m_exit and writes a byte; loop() then makes one    *)
(* last pass and returns.                                                  *)
(*                                                                         *)
(* push and pop_wait(.., 0) never sleep and are critical sections of       *)
(* SafeQueue, so each is one step here.  Timers have a module of their     *)
(* own; their callbacks, like those of other channels, appear here as user *)
(* code that runs in the loop thread before or after the wakeup channel.   *)
(***************************************************************************)
EXTENDS Integers, Sequences, SequencesExt, FiniteSets

CONSTANTS
    Self,       \* the thread that runs loop()
    Posters,    \* the other threads that call safeCall and exit
    Tasks,      \* the tasks, each posted at most once
    Capacity,   \* taskCapacity of m_tasks, 0 for unlimited
    PipeCap,    \* bytes the wakeup pipe can hold
    ReadMax,    \* bytes one read of the wakeup channel takes at most
    MaxExits,   \* bound: calls of exit()
    NoTask

ASSUME LoopAssumption ==
    /\ Self \notin Posters
    /\ NoTask \notin Tasks
    /\ Capacity \in Nat
    /\ PipeCap \in Nat \ {0} /\ ReadMax \in Nat \ {0}
    /\ MaxExits \in Nat

VARIABLES
    m_tasks,    \* the queued tasks
    m_exit,     \* the exit flag
    pipe,       \* bytes in the wakeup pipe
    lpc,        \* where the loop thread is
    final,      \* loop() is in the pass after its while loop
    task,       \* the task the loop thread executes, or NoTask
    pc,         \* where each thread is in safeCall and exit
    posting,    \* the accepted task whose safeCall is not finished, or NoTask
    exits,      \* calls of exit() so far
    issued,     \* history: the tasks handed to safeCall
    ran,        \* history: the tasks that have been executed
    settled     \* history: accepted tasks whose safeCall ended before exit()

vars == <<m_tasks, m_exit, pipe, lpc, final, task, pc, posting, exits, issued, ran, settled>>

Threads == Posters \cup {Self}

(* lpc: "check" the test of while(!m_exit); "poll" epoll_wait; "before"    *)
(* callbacks of channels handled before the wakeup channel; "read" its     *)
(* read; "drain" pop_wait(&task, 0); "task" runs the task; "after" later   *)
(* channels and handleTimeout; "returned" loop() has returned.             *)
LoopStates == {"check", "poll", "before", "read", "drain", "task", "after", "returned"}

TypeOK ==
    /\ m_tasks \in Seq(Tasks)
    /\ m_exit \in BOOLEAN
    /\ pipe \in 0..PipeCap
    /\ lpc \in LoopStates
    /\ final \in BOOLEAN
    /\ task \in Tasks \cup {NoTask}
    /\ pc \in [Threads -> {"out", "wake"}]
    /\ posting \in [Threads -> Tasks \cup {NoTask}]
    /\ exits \in 0..MaxExits
    /\ issued \subseteq Tasks /\ ran \subseteq Tasks /\ settled \subseteq Tasks

Init ==
    /\ m_tasks = <<>>
    /\ m_exit = FALSE
    /\ pipe = 0
    /\ lpc = "check"
    /\ final = FALSE
    /\ task = NoTask
    /\ pc = [t \in Threads |-> "out"]
    /\ posting = [t \in Threads |-> NoTask]
    /\ exits = 0
    /\ issued = {} /\ ran = {} /\ settled = {}

-----------------------------------------------------------------------------
(* safeCall, exit and wakeup, by any thread *)

\* A thread may call into the loop: another thread always, the loop thread
\* from a callback or a task.
CanCall(t) ==
    /\ pc[t] = "out"
    /\ t = Self => lpc \in {"before", "task", "after"}

Accepts == Capacity = 0 \/ Len(m_tasks) < Capacity

\* safeCall: push, whose result is ignored, and then wakeup.
SafeCall(t, v) ==
    /\ CanCall(t)
    /\ v \notin issued
    /\ issued' = issued \cup {v}
    /\ m_tasks' = IF Accepts THEN Append(m_tasks, v) ELSE m_tasks
    /\ posting' = [posting EXCEPT ![t] = IF Accepts THEN v ELSE NoTask]
    /\ pc' = [pc EXCEPT ![t] = "wake"]
    /\ UNCHANGED <<m_exit, pipe, lpc, final, task, exits, ran, settled>>

\* exit: m_exit.store(true), and then wakeup.
Exit(t) ==
    /\ CanCall(t)
    /\ exits < MaxExits
    /\ exits' = exits + 1
    /\ m_exit' = TRUE
    /\ pc' = [pc EXCEPT ![t] = "wake"]
    /\ UNCHANGED <<m_tasks, pipe, lpc, final, task, posting, issued, ran, settled>>

\* wakeup: the blocking write of one byte waits while the pipe is full.
Wakeup(t) ==
    /\ pc[t] = "wake"
    /\ pipe < PipeCap
    /\ pipe' = pipe + 1
    /\ pc' = [pc EXCEPT ![t] = "out"]
    /\ posting' = [posting EXCEPT ![t] = NoTask]
    /\ settled' = IF m_exit \/ posting[t] = NoTask THEN settled ELSE settled \cup {posting[t]}
    /\ UNCHANGED <<m_tasks, m_exit, lpc, final, task, exits, issued, ran>>

-----------------------------------------------------------------------------
(* The loop thread.  It goes on only when it is not inside wakeup itself.  *)

At(l) == lpc = l /\ pc[Self] = "out"

loopRest == <<m_exit, pc, posting, exits, issued, settled>>

\* Mutant: loop() returns without the last pass.
CheckReturns ==
    /\ At("check")
    /\ lpc' = IF m_exit THEN "returned" ELSE "poll"
    /\ UNCHANGED <<m_tasks, pipe, final, task, ran, loopRest>>

\* Mutant: loop() does not look at m_exit.
CheckNothing ==
    /\ At("check")
    /\ lpc' = "poll"
    /\ UNCHANGED <<m_tasks, pipe, final, task, ran, loopRest>>

\* while(!m_exit) loop_once(1000); then loop_once(0).
Check ==
    /\ At("check")
    /\ final' = m_exit
    /\ lpc' = "poll"
    /\ UNCHANGED <<m_tasks, pipe, task, ran, loopRest>>

\* epoll_wait reports the wakeup channel exactly when there is a byte; it
\* returns without it for another channel or when its time is up.
Poll ==
    /\ At("poll")
    /\ lpc' = IF pipe > 0 THEN "before" ELSE "after"
    /\ UNCHANGED <<m_tasks, pipe, final, task, ran, loopRest>>

HandleWakeup ==
    /\ At("before")
    /\ lpc' = "read"
    /\ UNCHANGED <<m_tasks, pipe, final, task, ran, loopRest>>

\* ::read(fd, buf, sizeof(buf))
Read ==
    /\ At("read")
    /\ pipe' = IF pipe > ReadMax THEN pipe - ReadMax ELSE 0
    /\ lpc' = "drain"
    /\ UNCHANGED <<m_tasks, final, task, ran, loopRest>>

\* Mutant: the newest task first.
DrainNewest ==
    /\ At("drain")
    /\ IF m_tasks = <<>>
         THEN lpc' = "after" /\ UNCHANGED <<m_tasks, task>>
         ELSE /\ task' = m_tasks[Len(m_tasks)]
              /\ m_tasks' = SubSeq(m_tasks, 1, Len(m_tasks) - 1)
              /\ lpc' = "task"
    /\ UNCHANGED <<pipe, final, ran, loopRest>>

\* while(m_tasks.pop_wait(&task, 0)) task();
Drain ==
    /\ At("drain")
    /\ IF m_tasks = <<>>
         THEN lpc' = "after" /\ UNCHANGED <<m_tasks, task>>
         ELSE /\ task' = Head(m_tasks)
              /\ m_tasks' = Tail(m_tasks)
              /\ lpc' = "task"
    /\ UNCHANGED <<pipe, final, ran, loopRest>>

\* Mutant: one task per byte read, "if" instead of "while".
TaskReturnsToPoll ==
    /\ At("task")
    /\ ran' = ran \cup {task}
    /\ task' = NoTask
    /\ lpc' = "after"
    /\ UNCHANGED <<m_tasks, pipe, final, loopRest>>

TaskReturns ==
    /\ At("task")
    /\ ran' = ran \cup {task}
    /\ task' = NoTask
    /\ lpc' = "drain"
    /\ UNCHANGED <<m_tasks, pipe, final, loopRest>>

\* The end of loop_once.
PassEnds ==
    /\ At("after")
    /\ lpc' = IF final THEN "returned" ELSE "check"
    /\ UNCHANGED <<m_tasks, pipe, final, task, ran, loopRest>>

LoopStep ==
    Check \/ Poll \/ HandleWakeup \/ Read \/ Drain \/ TaskReturns \/ PassEnds

-----------------------------------------------------------------------------

Next ==
    \/ LoopStep
    \/ \E t \in Threads : \/ \E v \in Tasks : SafeCall(t, v)
                          \/ Exit(t)
                          \/ Wakeup(t)

SafeSpec == Init /\ [][Next]_vars

\* The loop thread and the writes go on; callbacks and tasks return.  Nobody
\* has to call exit.
Spec == /\ SafeSpec
        /\ WF_vars(LoopStep)
        /\ \A t \in Threads : WF_vars(Wakeup(t))

-----------------------------------------------------------------------------
(* Correctness *)

\* A queued task always has a wakeup to come: a byte in the pipe, a thread
\* about to write one, or the loop thread still emptying the queue.  The one
\* read may swallow the bytes of many tasks, some of them not yet visible in
\* the queue when it drains.
NoStrandedTask ==
    m_tasks # <<>> =>
        \/ pipe > 0
        \/ \E t \in Threads : pc[t] = "wake"
        \/ lpc \in {"drain", "task"}

\* exit() does not cost tasks: whatever was accepted by a safeCall that ended
\* before exit() was called has been run when loop() returns.
ExitKeepsPosted == lpc = "returned" => settled \subseteq ran

\* The loop is an executor with one worker that is never closed: one task at
\* a time, in order of acceptance, each once.
E == INSTANCE Executor WITH
         Workers <- {Self}, queue <- m_tasks, running <- [w \in {Self} |-> task],
         finished <- ran, seen <- issued, closed <- FALSE, last <- {}

ImplementsExecutor == E!Spec

\* The loop thread waits in its own wakeup for room in the pipe, which it
\* alone could make: nothing happens any more.
LoopWaitsForItself == pc[Self] = "wake" /\ pipe = PipeCap

\* Every accepted task is run, unless the loop ends or blocks itself.  Other
\* threads may fill the pipe as often as they like.
PostedIsRun ==
    \A v \in Tasks :
        v \in ToSet(m_tasks) ~> v \in ran \/ lpc = "returned" \/ LoopWaitsForItself

\* exit() ends the loop, with the same exception.
ExitEndsLoop == m_exit ~> lpc = "returned" \/ LoopWaitsForItself

=============================================================================
