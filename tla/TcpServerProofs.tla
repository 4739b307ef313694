-------------------------- MODULE TcpServerProofs --------------------------
(***************************************************************************)
(* Proofs about EventLoop and about TcpServer, which runs on it, for any   *)
(* threads, tasks, capacities and connections.                             *)
(***************************************************************************)
EXTENDS TcpServer, SequenceTheorems, FiniteSetTheorems, TLAPS

-----------------------------------------------------------------------------
(* The elements of a sequence *)

\* push_back adds one element.
LEMMA ToSetAppend ==
    ASSUME NEW S, NEW s \in Seq(S), NEW v
    PROVE  ToSet(Append(s, v)) = ToSet(s) \cup {v}
<1>1. DOMAIN s = 1..Len(s) /\ Len(s) \in Nat
  OBVIOUS
<1>2. DOMAIN Append(s, v) = 1..(Len(s) + 1)
  OBVIOUS
<1>3. \A i \in 1..Len(s) : Append(s, v)[i] = s[i]
  OBVIOUS
<1>4. Append(s, v)[Len(s) + 1] = v
  OBVIOUS
<1> QED
  BY <1>1, <1>2, <1>3, <1>4 DEF ToSet

\* The front of a list and the rest of it.
LEMMA ToSetHeadTail ==
    ASSUME NEW S, NEW s \in Seq(S), s # <<>>
    PROVE  ToSet(s) = {Head(s)} \cup ToSet(Tail(s))
<1>1. DOMAIN s = 1..Len(s) /\ Len(s) \in Nat \ {0}
  OBVIOUS
<1>2. DOMAIN Tail(s) = 1..(Len(s) - 1)
  OBVIOUS
<1>3. \A i \in 1..(Len(s) - 1) : Tail(s)[i] = s[i + 1]
  OBVIOUS
<1>4. Head(s) = s[1]
  OBVIOUS
<1>5. \A x : x \in ToSet(s) => x = Head(s) \/ x \in ToSet(Tail(s))
  <2> SUFFICES ASSUME NEW i \in 1..Len(s), i # 1 PROVE s[i] \in ToSet(Tail(s))
    BY <1>1, <1>4 DEF ToSet
  <2>1. i - 1 \in 1..(Len(s) - 1) /\ Tail(s)[i - 1] = s[i]
    BY <1>1, <1>3
  <2> QED
    BY <1>2, <2>1 DEF ToSet
<1>6. \A x : x = Head(s) \/ x \in ToSet(Tail(s)) => x \in ToSet(s)
  BY <1>1, <1>2, <1>3, <1>4 DEF ToSet
<1> QED
  BY <1>5, <1>6

\* The empty sequence has none.
LEMMA ToSetEmpty == ToSet(<<>>) = {}
BY DEF ToSet

-----------------------------------------------------------------------------
(* EventLoop: types *)

\* Strengthening: the loop thread holds a task exactly while it runs it.
TaskRuns == task # NoTask <=> lpc = "task"

\* Every step of the loop and of the posters keeps the types.
LEMMA LoopTypeStep == TypeOK /\ TaskRuns /\ [Next]_vars => TypeOK'
<1> SUFFICES ASSUME TypeOK, TaskRuns, [Next]_vars PROVE TypeOK'
  OBVIOUS
<1> USE LoopAssumption DEF LoopAssumption, TypeOK, Threads, LoopStates, loopRest
<1>1. CASE Check
  <2>1. final' \in BOOLEAN
    BY <1>1, Zenon DEF Check
  <2> QED
    BY <1>1, <2>1 DEF Check, At
<1>2. CASE Poll
  BY <1>2 DEF Poll, At
<1>3. CASE HandleWakeup
  BY <1>3 DEF HandleWakeup, At
<1>4. CASE Read
  BY <1>4 DEF Read, At
<1>5. CASE Drain
  BY <1>5 DEF Drain, At
<1>6. CASE TaskReturns
  BY <1>6 DEF TaskReturns, At, TaskRuns
<1>7. CASE PassEnds
  BY <1>7 DEF PassEnds, At
<1>8. ASSUME NEW t \in Threads, NEW v \in Tasks, SafeCall(t, v) PROVE TypeOK'
  <2>1. m_tasks' \in Seq(Tasks)
    BY <1>8 DEF SafeCall
  <2>2. posting' \in [Threads -> Tasks \cup {NoTask}]
    BY <1>8 DEF SafeCall
  <2> QED
    BY <1>8, <2>1, <2>2 DEF SafeCall
<1>9. ASSUME NEW t \in Threads, Exit(t) PROVE TypeOK'
  <2>1. m_exit' \in BOOLEAN
    BY <1>9, Zenon DEF Exit
  <2> QED
    BY <1>9, <2>1 DEF Exit
<1>10. ASSUME NEW t \in Threads, Wakeup(t) PROVE TypeOK'
  <2>1. settled' \subseteq Tasks
    BY <1>10 DEF Wakeup
  <2> QED
    BY <1>10, <2>1 DEF Wakeup
<1>11. CASE UNCHANGED vars
  BY <1>11 DEF vars
<1> QED
  BY <1>1, <1>2, <1>3, <1>4, <1>5, <1>6, <1>7, <1>8, <1>9, <1>10, <1>11 DEF Next, LoopStep

\* The loop begins with an empty queue and an empty pipe.
LEMMA LoopTypeInit == Init => TypeOK
<1> SUFFICES ASSUME Init PROVE TypeOK
  OBVIOUS
<1>1. m_exit \in BOOLEAN /\ final \in BOOLEAN
  BY Zenon DEF Init
<1> QED
  BY <1>1, LoopAssumption DEF LoopAssumption, Init, TypeOK, LoopStates, Threads

\* The loop thread takes a task from Drain to TaskReturns only.
LEMMA TaskRunsStep == TypeOK /\ TaskRuns /\ [Next]_vars => TaskRuns'
<1> SUFFICES ASSUME TypeOK, TaskRuns, [Next]_vars PROVE TaskRuns'
  OBVIOUS
<1> USE LoopAssumption DEF LoopAssumption, TypeOK, TaskRuns, loopRest
<1>1. CASE LoopStep
  <2>1. m_tasks # <<>> => Head(m_tasks) \in Tasks
    OBVIOUS
  <2> QED
    BY <1>1, <2>1 DEF LoopStep, Check, Poll, HandleWakeup, Read, Drain, TaskReturns, PassEnds, At
<1>2. ASSUME NEW t \in Threads, NEW v \in Tasks, SafeCall(t, v) PROVE TaskRuns'
  BY <1>2 DEF SafeCall
<1>3. ASSUME NEW t \in Threads, Exit(t) PROVE TaskRuns'
  BY <1>3 DEF Exit
<1>4. ASSUME NEW t \in Threads, Wakeup(t) PROVE TaskRuns'
  BY <1>4 DEF Wakeup
<1>5. CASE UNCHANGED vars
  BY <1>5 DEF vars
<1> QED
  BY <1>1, <1>2, <1>3, <1>4, <1>5 DEF Next

-----------------------------------------------------------------------------
(* EventLoop: no stranded task *)

\* A queued task keeps its wakeup through every step.
LEMMA StrandedStep == TypeOK /\ NoStrandedTask /\ [Next]_vars => NoStrandedTask'
<1> SUFFICES ASSUME TypeOK, NoStrandedTask, [Next]_vars PROVE NoStrandedTask'
  OBVIOUS
<1> USE LoopAssumption DEF LoopAssumption, TypeOK, Threads, NoStrandedTask, loopRest
<1>1. CASE Check
  BY <1>1 DEF Check, At
<1>2. CASE Poll
  BY <1>2 DEF Poll, At
<1>3. CASE HandleWakeup
  BY <1>3 DEF HandleWakeup, At
<1>4. CASE Read
  BY <1>4 DEF Read, At
<1>5. CASE Drain
  BY <1>5 DEF Drain, At
<1>6. CASE TaskReturns
  BY <1>6 DEF TaskReturns, At
<1>7. CASE PassEnds
  BY <1>7 DEF PassEnds, At
<1>8. ASSUME NEW t \in Threads, NEW v \in Tasks, SafeCall(t, v) PROVE NoStrandedTask'
  BY <1>8 DEF SafeCall
<1>9. ASSUME NEW t \in Threads, Exit(t) PROVE NoStrandedTask'
  BY <1>9 DEF Exit
<1>10. ASSUME NEW t \in Threads, Wakeup(t) PROVE NoStrandedTask'
  BY <1>10 DEF Wakeup
<1>11. CASE UNCHANGED vars
  BY <1>11 DEF vars
<1> QED
  BY <1>1, <1>2, <1>3, <1>4, <1>5, <1>6, <1>7, <1>8, <1>9, <1>10, <1>11 DEF Next, LoopStep

-----------------------------------------------------------------------------
(* EventLoop: exit() keeps what was posted *)

\* The tasks that have been accepted and not dropped: run, being run, queued.
Kept == ran \cup {task} \cup ToSet(m_tasks)

\* Strengthening: nothing accepted disappears, and what is queued was issued.
NothingDropped ==
    /\ settled \subseteq Kept
    /\ \A t \in Threads : posting[t] # NoTask => posting[t] \in Kept
    /\ settled \cup ToSet(m_tasks) \subseteq issued
    /\ \A t \in Threads : posting[t] # NoTask => posting[t] \in issued

\* Strengthening: once a safeCall has ended, its task has a byte in the pipe
\* or the loop thread is on the way to it, and not only a thread's promise.
SettledWoken ==
    settled \cap ToSet(m_tasks) # {} => pipe > 0 \/ lpc \in {"drain", "task"}

\* Strengthening: the last pass comes after exit(), and no settled task is
\* left in the queue at its end.
LastPass ==
    /\ final => m_exit /\ (lpc \in {"after", "returned"} => settled \cap ToSet(m_tasks) = {})
    /\ lpc = "returned" => final

\* What is inductive together about the tasks of the loop.
LoopInv == TypeOK /\ TaskRuns /\ NoStrandedTask /\ NothingDropped /\ SettledWoken /\ LastPass

\* The elements of the queue after push_back and pop_front.
LEMMA QueueElements ==
    ASSUME TypeOK
    PROVE  /\ \A v : ToSet(Append(m_tasks, v)) = ToSet(m_tasks) \cup {v}
           /\ m_tasks # <<>> => ToSet(m_tasks) = {Head(m_tasks)} \cup ToSet(Tail(m_tasks))
           /\ m_tasks = <<>> => ToSet(m_tasks) = {}
<1>1. m_tasks \in Seq(Tasks)
  BY DEF TypeOK
<1> QED
  BY <1>1, ToSetAppend, ToSetHeadTail, ToSetEmpty

\* Every step keeps what was accepted.
LEMMA ExitStep == LoopInv /\ [Next]_vars => NothingDropped' /\ SettledWoken' /\ LastPass'
<1> DEFINE Goal == NothingDropped' /\ SettledWoken' /\ LastPass'
<1> SUFFICES ASSUME LoopInv, [Next]_vars PROVE Goal
  OBVIOUS
<1>0. TypeOK
  BY DEF LoopInv
<1> USE LoopAssumption DEF LoopAssumption, LoopInv, TaskRuns, NothingDropped, Kept,
        SettledWoken, LastPass, loopRest
<1>1. CASE Check
  BY <1>1 DEF Check, At
<1>2. CASE Poll
  BY <1>2, <1>0 DEF Poll, At, TypeOK
<1>3. CASE HandleWakeup
  BY <1>3 DEF HandleWakeup, At
<1>4. CASE Read
  BY <1>4 DEF Read, At
<1>5. CASE Drain
  <2>1. CASE m_tasks = <<>>
    BY <1>5, <1>0, <2>1, QueueElements DEF Drain, At
  <2>2. CASE m_tasks # <<>>
    <3>1. task = NoTask
      BY <1>5 DEF Drain, At
    <3>2. Kept \subseteq Kept' \cup {NoTask}
      BY <1>5, <1>0, <2>2, <3>1, QueueElements DEF Drain, At
    <3>3. NoTask \notin settled
      BY <1>0 DEF TypeOK
    <3> QED
      BY <1>5, <1>0, <2>2, <3>2, <3>3, QueueElements DEF Drain, At
  <2> QED
    BY <2>1, <2>2
<1>6. CASE TaskReturns
  BY <1>6 DEF TaskReturns, At
<1>7. CASE PassEnds
  BY <1>7 DEF PassEnds, At
<1>8. ASSUME NEW t \in Threads, NEW v \in Tasks, SafeCall(t, v) PROVE Goal
  <2>1. \A s \in Threads : posting'[s] = posting[s] \/ (s = t /\ posting'[s] \in {v, NoTask})
    BY <1>8, <1>0 DEF SafeCall, TypeOK
  <2>2. CASE Accepts
    <3>1. ToSet(m_tasks') = ToSet(m_tasks) \cup {v}
      BY <1>8, <1>0, <2>2, QueueElements DEF SafeCall
    <3> QED
      BY <1>8, <2>1, <3>1 DEF SafeCall
  <2>3. CASE ~Accepts
    <3>1. \A s \in Threads : posting'[s] = posting[s] \/ posting'[s] = NoTask
      BY <1>8, <1>0, <2>3 DEF SafeCall, TypeOK
    <3> QED
      BY <1>8, <2>3, <3>1 DEF SafeCall
  <2> QED
    BY <2>2, <2>3
<1>9. ASSUME NEW t \in Threads, Exit(t) PROVE Goal
  BY <1>9 DEF Exit
<1>10. ASSUME NEW t \in Threads, Wakeup(t) PROVE Goal
  <2>1. \A s \in Threads : posting'[s] = posting[s] \/ posting'[s] = NoTask
    BY <1>10, <1>0 DEF Wakeup, TypeOK
  <2>2. pipe' > 0
    BY <1>10, <1>0 DEF Wakeup, TypeOK
  <2> QED
    BY <1>10, <2>1, <2>2 DEF Wakeup
<1>11. CASE UNCHANGED vars
  BY <1>11 DEF vars
<1> QED
  BY <1>1, <1>2, <1>3, <1>4, <1>5, <1>6, <1>7, <1>8, <1>9, <1>10, <1>11 DEF Next, LoopStep

\* LoopInv holds at the start, and every step keeps it.
LEMMA LoopInvInit == Init => LoopInv
<1> SUFFICES ASSUME Init PROVE LoopInv
  OBVIOUS
<1>1. TypeOK
  BY LoopTypeInit
<1>2. SettledWoken /\ LastPass /\ TaskRuns /\ NoStrandedTask /\ NothingDropped
  BY ToSetEmpty DEF Init, SettledWoken, LastPass, TaskRuns, NoStrandedTask, NothingDropped, Kept
<1> QED
  BY <1>1, <1>2 DEF LoopInv

\* The steps of the parts together.
LEMMA LoopInvStep == LoopInv /\ [Next]_vars => LoopInv'
BY LoopTypeStep, TaskRunsStep, StrandedStep, ExitStep DEF LoopInv

\* A task that is queued has a wakeup to come, however posts, exits and reads
\* of the pipe interleave.
THEOREM NoneStranded == Spec => []NoStrandedTask
<1>1. LoopInv => NoStrandedTask
  BY DEF LoopInv
<1> QED
  BY <1>1, LoopInvInit, LoopInvStep, PTL DEF Spec, SafeSpec

\* exit() costs no task: all that was posted before it has been run when
\* loop() returns.
THEOREM PostedKept == Spec => []ExitKeepsPosted
<1>1. LoopInv => ExitKeepsPosted
  <2> SUFFICES ASSUME LoopInv, lpc = "returned" PROVE settled \subseteq ran
    BY DEF ExitKeepsPosted
  <2>1. task = NoTask /\ settled \cap ToSet(m_tasks) = {}
    BY DEF LoopInv, TaskRuns, LastPass
  <2>2. NoTask \notin settled
    BY LoopAssumption DEF LoopAssumption, LoopInv, TypeOK
  <2> QED
    BY <2>1, <2>2 DEF LoopInv, NothingDropped, Kept
<1> QED
  BY <1>1, LoopInvInit, LoopInvStep, PTL DEF Spec, SafeSpec

-----------------------------------------------------------------------------
(* EventLoop implements Executor *)

\* The loop thread as a worker: no task in its hands means idle.
LEMMA ExecutorInit == Init => E!Init
BY DEF Init, E!Init

\* Every step of the loop and of the posters is a step of the executor, or
\* changes nothing of it.
LEMMA ExecutorStep == LoopInv /\ [Next]_vars => [E!Next]_E!execVars
<1> SUFFICES ASSUME LoopInv, [Next]_vars PROVE [E!Next]_E!execVars
  OBVIOUS
<1> USE DEF LoopInv, TaskRuns, loopRest
<1>1. CASE Check
  BY <1>1 DEF Check, E!execVars
<1>2. CASE Poll
  BY <1>2 DEF Poll, E!execVars
<1>3. CASE HandleWakeup
  BY <1>3 DEF HandleWakeup, E!execVars
<1>4. CASE Read
  BY <1>4 DEF Read, E!execVars
<1>5. CASE Drain
  <2>1. CASE m_tasks = <<>>
    BY <1>5, <2>1 DEF Drain, E!execVars
  <2>2. CASE m_tasks # <<>>
    <3>1. task = NoTask
      BY <1>5 DEF Drain, At
    <3>2. E!Begin(Self)
      BY <1>5, <2>2, <3>1 DEF Drain, E!Begin
    <3> QED
      BY <3>2 DEF E!Next
  <2> QED
    BY <2>1, <2>2
<1>6. CASE TaskReturns
  <2>1. task # NoTask
    BY <1>6 DEF TaskReturns, At
  <2>2. E!Finish(Self)
    BY <1>6, <2>1 DEF TaskReturns, E!Finish
  <2> QED
    BY <2>2 DEF E!Next
<1>7. CASE PassEnds
  BY <1>7 DEF PassEnds, E!execVars
<1>8. ASSUME NEW t \in Threads, NEW v \in Tasks, SafeCall(t, v) PROVE E!Next
  <2>1. E!Submit(v)
    BY <1>8 DEF SafeCall, Accepts, E!Submit
  <2> QED
    BY <2>1 DEF E!Next
<1>9. ASSUME NEW t \in Threads, Exit(t) PROVE UNCHANGED E!execVars
  BY <1>9 DEF Exit, E!execVars
<1>10. ASSUME NEW t \in Threads, Wakeup(t) PROVE UNCHANGED E!execVars
  BY <1>10 DEF Wakeup, E!execVars
<1>11. CASE UNCHANGED vars
  BY <1>11 DEF vars, E!execVars
<1> QED
  BY <1>1, <1>2, <1>3, <1>4, <1>5, <1>6, <1>7, <1>8, <1>9, <1>10, <1>11 DEF Next, LoopStep

\* The loop is an executor with one worker: tasks are run one at a time, in
\* the order of acceptance, each once.
THEOREM LoopIsExecutor == Spec => ImplementsExecutor
BY ExecutorInit, ExecutorStep, LoopInvInit, LoopInvStep, PTL
   DEF Spec, SafeSpec, ImplementsExecutor, E!Spec

-----------------------------------------------------------------------------
(* A task is in one place *)

\* A new element at the end of a sequence without repetitions.
LEMMA InjectiveAppend ==
    ASSUME NEW S, NEW s \in Seq(S), NEW v, IsInjective(s), v \notin ToSet(s)
    PROVE  IsInjective(Append(s, v))
<1>1. DOMAIN s = 1..Len(s) /\ Len(s) \in Nat /\ DOMAIN Append(s, v) = 1..(Len(s) + 1)
  OBVIOUS
<1>2. \A i \in 1..Len(s) : Append(s, v)[i] = s[i] /\ s[i] # v
  BY <1>1 DEF ToSet
<1>3. Append(s, v)[Len(s) + 1] = v
  OBVIOUS
<1>4. \A i \in 1..(Len(s) + 1) : i \in 1..Len(s) \/ i = Len(s) + 1
  BY <1>1
<1> QED
  BY <1>1, <1>2, <1>3, <1>4 DEF IsInjective

\* The rest of such a sequence, and its front.
LEMMA InjectiveTail ==
    ASSUME NEW S, NEW s \in Seq(S), s # <<>>, IsInjective(s)
    PROVE  IsInjective(Tail(s)) /\ Head(s) \notin ToSet(Tail(s))
<1>1. /\ DOMAIN s = 1..Len(s) /\ Len(s) \in Nat \ {0} /\ DOMAIN Tail(s) = 1..(Len(s) - 1)
      /\ Head(s) = s[1]
  OBVIOUS
<1>2. \A i \in 1..(Len(s) - 1) : Tail(s)[i] = s[i + 1] /\ i + 1 \in DOMAIN s /\ i + 1 # 1
  OBVIOUS
<1>3. \A i, j \in 1..(Len(s) - 1) : i + 1 = j + 1 => i = j
  OBVIOUS
<1>4. IsInjective(Tail(s))
  BY <1>1, <1>2, <1>3 DEF IsInjective
<1>5. 1 \in DOMAIN s
  BY <1>1
<1> QED
  BY <1>1, <1>2, <1>4, <1>5 DEF IsInjective, ToSet

\* A task is queued once, being run, or done, and in one of these places only.
TaskInOnePlace ==
    /\ IsInjective(m_tasks)
    /\ ToSet(m_tasks) \cap (ran \cup {task}) = {}
    /\ task \notin ran

\* Strengthening: whatever is in one of the places was handed to safeCall.
OnlyIssued == ToSet(m_tasks) \cup ran \cup ({task} \ {NoTask}) \subseteq issued

PlaceInv == TaskInOnePlace /\ OnlyIssued

\* Before the first safeCall no task is anywhere.
LEMMA PlaceInit == Init => PlaceInv
<1> SUFFICES ASSUME Init PROVE PlaceInv
  OBVIOUS
<1>1. m_tasks = <<>> /\ task = NoTask /\ ran = {}
  BY DEF Init
<1>2. IsInjective(<<>>) /\ ToSet(<<>>) = {}
  BY ToSetEmpty DEF IsInjective
<1> QED
  BY <1>1, <1>2 DEF PlaceInv, TaskInOnePlace, OnlyIssued

\* safeCall queues what was never posted before.
LEMMA PlaceCall ==
    ASSUME LoopInv, PlaceInv, NEW t \in Threads, NEW v \in Tasks, SafeCall(t, v)
    PROVE  PlaceInv'
<1>1. /\ v \notin issued /\ issued' = issued \cup {v} /\ task' = task /\ ran' = ran
      /\ m_tasks' = IF Accepts THEN Append(m_tasks, v) ELSE m_tasks
  BY DEF SafeCall
<1>2. m_tasks \in Seq(Tasks) /\ v # NoTask
  BY LoopAssumption DEF LoopAssumption, LoopInv, TypeOK
<1>3. v \notin ToSet(m_tasks) /\ v \notin ran /\ v # task
  BY <1>1, <1>2 DEF PlaceInv, OnlyIssued
<1>4. IsInjective(Append(m_tasks, v)) /\ ToSet(Append(m_tasks, v)) = ToSet(m_tasks) \cup {v}
  BY <1>2, <1>3, InjectiveAppend, ToSetAppend DEF PlaceInv, TaskInOnePlace
<1>5. CASE Accepts
  <2>1. m_tasks' = Append(m_tasks, v)
    BY <1>1, <1>5
  <2> QED
    BY <1>1, <1>3, <1>4, <2>1 DEF PlaceInv, TaskInOnePlace, OnlyIssued
<1>6. CASE ~Accepts
  BY <1>1, <1>6 DEF PlaceInv, TaskInOnePlace, OnlyIssued
<1> QED
  BY <1>5, <1>6

\* Every step of the loop and of the posters keeps each task in one place.
LEMMA PlaceStep == LoopInv /\ PlaceInv /\ [Next]_vars => PlaceInv'
<1> SUFFICES ASSUME LoopInv, PlaceInv, [Next]_vars PROVE PlaceInv'
  OBVIOUS
<1>1. ASSUME UNCHANGED <<m_tasks, task, ran, issued>>
      PROVE  PlaceInv'
  BY <1>1 DEF PlaceInv, TaskInOnePlace, OnlyIssued
<1>2. CASE Check \/ Poll \/ HandleWakeup \/ Read \/ PassEnds \/ UNCHANGED vars
  BY <1>1, <1>2 DEF Check, Poll, HandleWakeup, Read, PassEnds, loopRest, vars
<1>3. CASE Drain
  <2>1. CASE m_tasks = <<>>
    BY <1>1, <1>3, <2>1 DEF Drain, loopRest
  <2>2. CASE m_tasks # <<>>
    <3>1. /\ task' = Head(m_tasks) /\ m_tasks' = Tail(m_tasks) /\ ran' = ran
          /\ issued' = issued
      BY <1>3, <2>2 DEF Drain, loopRest
    <3>2. m_tasks \in Seq(Tasks)
      BY DEF LoopInv, TypeOK
    <3>3. /\ IsInjective(Tail(m_tasks)) /\ Head(m_tasks) \notin ToSet(Tail(m_tasks))
          /\ ToSet(m_tasks) = {Head(m_tasks)} \cup ToSet(Tail(m_tasks))
      BY <2>2, <3>2, InjectiveTail, ToSetHeadTail DEF PlaceInv, TaskInOnePlace
    <3> QED
      BY <3>1, <3>3 DEF PlaceInv, TaskInOnePlace, OnlyIssued
  <2> QED
    BY <2>1, <2>2
<1>4. CASE TaskReturns
  <2>1. /\ ran' = ran \cup {task} /\ task' = NoTask /\ m_tasks' = m_tasks /\ issued' = issued
        /\ task # NoTask
    BY <1>4 DEF TaskReturns, At, loopRest, LoopInv, TaskRuns
  <2>2. NoTask \notin issued /\ NoTask \notin ToSet(m_tasks)
    BY LoopAssumption DEF LoopAssumption, LoopInv, TypeOK, NothingDropped
  <2> QED
    BY <2>1, <2>2 DEF PlaceInv, TaskInOnePlace, OnlyIssued
<1>5. ASSUME NEW t \in Threads, NEW v \in Tasks, SafeCall(t, v) PROVE PlaceInv'
  BY <1>5, PlaceCall
<1>6. ASSUME NEW t \in Threads, Exit(t) \/ Wakeup(t) PROVE PlaceInv'
  BY <1>1, <1>6 DEF Exit, Wakeup
<1> QED
  BY <1>2, <1>3, <1>4, <1>5, <1>6 DEF Next, LoopStep

\* The loop thread runs no task twice and nothing that was not posted, though
\* posters, reads of the pipe and the last pass interleave.
THEOREM LoopTaskOnce == Spec => []TaskInOnePlace
<1>1. PlaceInv => TaskInOnePlace
  BY DEF PlaceInv
<1> QED
  BY <1>1, LoopInvInit, LoopInvStep, PlaceInit, PlaceStep, PTL DEF Spec, SafeSpec

-----------------------------------------------------------------------------
(* TcpServer runs on EventLoop *)

allVars == <<vars, serverVars>>

\* Strengthening: what the server's sequences hold.
LineTypes ==
    /\ backlog \in Seq(Conns) /\ attached \in Seq(Conns)
    /\ arrived \in 0..Len(Arrivals)
    /\ lost \subseteq Conns

\* The connections are tasks.
LEMMA ConnsAreTasks == Conns \subseteq Tasks /\ NoTask \notin Conns
<1>1. Arrivals \in Seq(Tasks)
  BY ServerAssumption DEF ServerAssumption
<1>2. \A i \in DOMAIN Arrivals : Arrivals[i] \in Tasks
  BY <1>1
<1> QED
  BY <1>2, LoopAssumption DEF LoopAssumption, Conns, ToSet

\* A step of the server is a step of its event loop, or none of it.
LEMMA ServerStepIsLoopStep == LineTypes /\ [ServerNext]_allVars => [Next]_vars
<1> SUFFICES ASSUME LineTypes, [ServerNext]_allVars PROVE [Next]_vars
  OBVIOUS
<1>1. CASE ServerStep
  <2>1. Self \in Threads
    BY DEF Threads
  <2>2. CASE Accept
    <3>1. Head(backlog) \in Tasks
      <4>1. backlog \in Seq(Conns) /\ backlog # <<>>
        BY <2>2 DEF Accept, CanAccept, LineTypes
      <4>2. Head(backlog) \in Conns
        BY <4>1
      <4> QED
        BY <4>2, ConnsAreTasks
    <3> QED
      BY <2>1, <2>2, <3>1 DEF Accept, Next
  <2> QED
    BY <1>1, <2>2 DEF ServerStep, HandleAccept, AcceptEnds, ServerPoll, RunTask, Pass, Next, LoopStep
<1>2. ASSUME NEW t \in Threads, Calls(t) PROVE [Next]_vars
  BY <1>2 DEF Calls, Next
<1>3. CASE Destroy \/ \E cb \in {NoCallback, calls + 1} : OnConnRead(cb)
  BY <1>3 DEF OnConnRead, Destroy
<1>4. ASSUME NEW c \in Conns, Connect(c) \/ Reset(c) PROVE [Next]_vars
  BY <1>4 DEF Connect, Reset
<1>5. CASE UNCHANGED allVars
  BY <1>5 DEF allVars
<1> QED
  BY <1>1, <1>2, <1>3, <1>4, <1>5 DEF ServerNext

\* The sequences keep their elements' kind.
LEMMA LineTypesStep == LineTypes /\ [ServerNext]_allVars => LineTypes'
<1> SUFFICES ASSUME LineTypes, [ServerNext]_allVars PROVE LineTypes'
  OBVIOUS
<1> USE DEF LineTypes, connVars, kernelVars
<1>1. CASE Accept
  <2>1. backlog # <<>>
    BY <1>1 DEF Accept, CanAccept
  <2>2. Head(backlog) \in Conns /\ Tail(backlog) \in Seq(Conns)
    BY <2>1
  <2> QED
    BY <1>1, <2>2 DEF Accept
<1>2. CASE RunTask
  <2>1. UNCHANGED <<backlog, arrived, lost>>
    BY <1>2 DEF RunTask
  <2>2. attached' = attached \/ (task \in Conns /\ attached' = Append(attached, task))
    BY <1>2 DEF RunTask
  <2>3. attached' \in Seq(Conns)
    BY <2>2
  <2> QED
    BY <2>1, <2>3
<1>3. CASE HandleAccept \/ AcceptEnds \/ ServerPoll
  BY <1>3 DEF HandleAccept, AcceptEnds, ServerPoll
<1>4. CASE UNCHANGED serverVars
  BY <1>4 DEF serverVars
<1>5. ASSUME NEW cb \in {NoCallback, calls + 1}, OnConnRead(cb) PROVE LineTypes'
  BY <1>5 DEF OnConnRead
<1>6. CASE Destroy
  <2>1. \A i \in 1..Len(backlog) : backlog[i] \in Conns
    OBVIOUS
  <2>2. ToSet(backlog) \subseteq Conns
    BY <2>1 DEF ToSet
  <2>3. backlog' = <<>> /\ arrived' = arrived /\ attached' = attached /\ lost' = lost \cup ToSet(backlog)
    BY <1>6 DEF Destroy
  <2> QED
    BY <2>2, <2>3
<1>7. ASSUME NEW c \in Conns, Connect(c) PROVE LineTypes'
  <2>1. Len(Arrivals) \in Nat
    BY ServerAssumption DEF ServerAssumption
  <2> QED
    BY <1>7, <2>1 DEF Connect
<1>8. ASSUME NEW c \in Conns, Reset(c) PROVE LineTypes'
  BY <1>8 DEF Reset
<1>9. CASE UNCHANGED allVars
  BY <1>9 DEF allVars, serverVars
<1> QED
  BY <1>1, <1>2, <1>3, <1>4, <1>5, <1>6, <1>7, <1>8, <1>9 DEF ServerNext, ServerStep, Calls

\* What is inductive together about the server's tasks.
ServerLoopInv == LoopInv /\ LineTypes

\* The server starts on a fresh loop.
LEMMA ServerLoopInit == ServerInit => Init /\ ServerLoopInv
<1> SUFFICES ASSUME ServerInit PROVE Init /\ ServerLoopInv
  OBVIOUS
<1>1. Init /\ LoopInv
  BY LoopInvInit DEF ServerInit
<1>2. LineTypes
  <2>1. Len(Arrivals) \in Nat
    BY ServerAssumption DEF ServerAssumption
  <2> QED
    BY <2>1 DEF ServerInit, LineTypes
<1> QED
  BY <1>1, <1>2 DEF ServerLoopInv

\* A step of the server is a step of its loop, and keeps the loop invariant.
LEMMA ServerLoopStep == ServerLoopInv /\ [ServerNext]_allVars => ServerLoopInv' /\ [Next]_vars
BY ServerStepIsLoopStep, LineTypesStep, LoopInvStep DEF ServerLoopInv

\* With the server's steps among those of the loop, no task is stranded.
THEOREM ServerNoneStranded == ServerSpec => []NoStrandedTask
<1>1. ServerLoopInv => NoStrandedTask
  BY DEF ServerLoopInv, LoopInv
<1> QED
  BY <1>1, ServerLoopInit, ServerLoopStep, PTL DEF ServerSpec, ServerSafeSpec, allVars

\* The loop under the server is still an executor with one worker.
THEOREM ServerLoopIsExecutor == ServerSpec => ImplementsExecutor
<1>1. ServerInit => E!Init
  BY ServerLoopInit, ExecutorInit
<1>2. ServerLoopInv /\ [ServerNext]_allVars => [E!Next]_E!execVars
  BY ServerLoopStep, ExecutorStep DEF ServerLoopInv
<1> QED
  BY <1>1, <1>2, ServerLoopInit, ServerLoopStep, PTL
     DEF ServerSpec, ServerSafeSpec, allVars, ImplementsExecutor, E!Spec

\* The same of the tasks that attach connections, among those of others.
THEOREM ServerTaskOnce == ServerSpec => []TaskInOnePlace
<1>1. PlaceInv => TaskInOnePlace
  BY DEF PlaceInv
<1>2. ServerLoopInv /\ PlaceInv /\ [ServerNext]_allVars => PlaceInv'
  BY ServerLoopStep, PlaceStep DEF ServerLoopInv
<1> QED
  BY <1>1, <1>2, ServerLoopInit, ServerLoopStep, PlaceInit, PTL
     DEF ServerSpec, ServerSafeSpec, allVars

-----------------------------------------------------------------------------
(* The order of connections *)

\* The connections of a sequence are in order of arrival, each once.
Ordered(s) ==
    \A i, j \in DOMAIN s : i < j /\ {s[i], s[j]} \subseteq Conns => Earlier(s[i], s[j])

\* The connections of X arrived before those of Y.
Ahead(X, Y) == \A x \in X \cap Conns, y \in Y \cap Conns : Earlier(x, y)

\* A connection arrives once.
LEMMA NotBeforeItself == \A c : ~Earlier(c, c)
<1>1. DOMAIN Arrivals \subseteq Nat
  BY ServerAssumption DEF ServerAssumption
<1> QED
  BY <1>1, ServerAssumption DEF ServerAssumption, IsInjective, Earlier

\* A connection put at the end of those that came before it.
LEMMA OrderedAppend ==
    ASSUME NEW S, NEW s \in Seq(S), NEW v, Ordered(s), Ahead(ToSet(s), {v})
    PROVE  Ordered(Append(s, v))
<1>1. DOMAIN s = 1..Len(s) /\ Len(s) \in Nat
  OBVIOUS
<1>2. DOMAIN Append(s, v) = 1..(Len(s) + 1)
  OBVIOUS
<1>3. \A i \in 1..Len(s) : Append(s, v)[i] = s[i] /\ s[i] \in ToSet(s)
  BY DEF ToSet
<1>4. Append(s, v)[Len(s) + 1] = v
  OBVIOUS
<1> SUFFICES ASSUME NEW i \in 1..(Len(s) + 1), NEW j \in 1..(Len(s) + 1), i < j,
                    {Append(s, v)[i], Append(s, v)[j]} \subseteq Conns
             PROVE  Earlier(Append(s, v)[i], Append(s, v)[j])
  BY <1>2 DEF Ordered
<1>5. CASE j = Len(s) + 1
  <2>1. i \in 1..Len(s)
    BY <1>1, <1>5
  <2> QED
    BY <1>3, <1>4, <1>5, <2>1 DEF Ahead
<1>6. CASE j \in 1..Len(s)
  <2>1. i \in 1..Len(s)
    BY <1>1, <1>6
  <2> QED
    BY <1>1, <1>3, <1>6, <2>1 DEF Ordered
<1> QED
  BY <1>1, <1>5, <1>6

\* The front of an ordered sequence is ahead of the rest.
LEMMA OrderedTail ==
    ASSUME NEW S, NEW s \in Seq(S), s # <<>>, Ordered(s)
    PROVE  Ordered(Tail(s)) /\ Ahead({Head(s)}, ToSet(Tail(s)))
<1>1. DOMAIN s = 1..Len(s) /\ Len(s) \in Nat \ {0}
  OBVIOUS
<1>2. DOMAIN Tail(s) = 1..(Len(s) - 1)
  OBVIOUS
<1>3. \A i \in 1..(Len(s) - 1) : Tail(s)[i] = s[i + 1] /\ i + 1 \in DOMAIN s
  OBVIOUS
<1>4. Head(s) = s[1]
  OBVIOUS
<1>5. Ordered(Tail(s))
  <2> SUFFICES ASSUME NEW i \in 1..(Len(s) - 1), NEW j \in 1..(Len(s) - 1), i < j,
                      {Tail(s)[i], Tail(s)[j]} \subseteq Conns
               PROVE  Earlier(Tail(s)[i], Tail(s)[j])
    BY <1>2 DEF Ordered
  <2>1. i + 1 < j + 1
    OBVIOUS
  <2> QED
    BY <1>3, <2>1 DEF Ordered
<1>6. Ahead({Head(s)}, ToSet(Tail(s)))
  <2> SUFFICES ASSUME s[1] \in Conns, NEW j \in 1..(Len(s) - 1), Tail(s)[j] \in Conns
               PROVE  Earlier(s[1], Tail(s)[j])
    BY <1>2, <1>4 DEF Ahead, ToSet
  <2>1. 1 < j + 1 /\ 1 \in DOMAIN s
    BY <1>1
  <2> QED
    BY <1>3, <2>1 DEF Ordered
<1> QED
  BY <1>5, <1>6

\* One sequence after another; a name for \o that the provers do not unfold.
Joined(s, t) == s \o t

\* Two ordered lines of which the first is ahead make an ordered one.
LEMMA OrderedJoined ==
    ASSUME NEW S, NEW s \in Seq(S), NEW t \in Seq(S),
           Ordered(s), Ordered(t), Ahead(ToSet(s), ToSet(t))
    PROVE  /\ Joined(s, t) \in Seq(S)
           /\ Ordered(Joined(s, t))
           /\ ToSet(Joined(s, t)) = ToSet(s) \cup ToSet(t)
<1>0. s \o t \in Seq(S)
  OBVIOUS
<1>1. DOMAIN s = 1..Len(s) /\ Len(s) \in Nat /\ DOMAIN t = 1..Len(t) /\ Len(t) \in Nat
  OBVIOUS
<1>2. DOMAIN (s \o t) = 1..(Len(s) + Len(t))
  OBVIOUS
<1>3. \A i \in 1..Len(s) : (s \o t)[i] = s[i] /\ i \in DOMAIN s
  OBVIOUS
<1>4. \A i \in (Len(s) + 1)..(Len(s) + Len(t)) :
          (s \o t)[i] = t[i - Len(s)] /\ i - Len(s) \in DOMAIN t
  OBVIOUS
<1>5. \A i \in DOMAIN (s \o t) : i \in 1..Len(s) \/ i \in (Len(s) + 1)..(Len(s) + Len(t))
  BY <1>1, <1>2
<1>6. ToSet(s \o t) = ToSet(s) \cup ToSet(t)
  <2>1. ToSet(s \o t) \subseteq ToSet(s) \cup ToSet(t)
    BY <1>3, <1>4, <1>5 DEF ToSet
  <2>2. ToSet(s) \subseteq ToSet(s \o t)
    <3>1. \A i \in DOMAIN s : i \in DOMAIN (s \o t)
      BY <1>1, <1>2
    <3> QED
      BY <1>1, <1>3, <3>1 DEF ToSet
  <2>3. ToSet(t) \subseteq ToSet(s \o t)
    <3> SUFFICES ASSUME NEW i \in DOMAIN t PROVE t[i] \in ToSet(s \o t)
      BY DEF ToSet
    <3>1. Len(s) + i \in (Len(s) + 1)..(Len(s) + Len(t)) /\ (Len(s) + i) - Len(s) = i
      BY <1>1
    <3>2. Len(s) + i \in DOMAIN (s \o t) /\ (s \o t)[Len(s) + i] = t[i]
      BY <1>1, <1>2, <1>4, <3>1
    <3> QED
      BY <3>2 DEF ToSet
  <2> QED
    BY <2>1, <2>2, <2>3
<1>7. Ordered(s \o t)
  <2> SUFFICES ASSUME NEW i \in DOMAIN (s \o t), NEW j \in DOMAIN (s \o t), i < j,
                      {(s \o t)[i], (s \o t)[j]} \subseteq Conns
               PROVE  Earlier((s \o t)[i], (s \o t)[j])
    BY DEF Ordered
  <2>1. CASE j \in 1..Len(s)
    <3>1. i \in 1..Len(s)
      BY <1>1, <1>2, <2>1
    <3> QED
      BY <1>3, <2>1, <3>1 DEF Ordered
  <2>2. CASE i \in 1..Len(s) /\ j \in (Len(s) + 1)..(Len(s) + Len(t))
    <3>1. s[i] \in ToSet(s) /\ t[j - Len(s)] \in ToSet(t)
      BY <1>3, <1>4, <2>2 DEF ToSet
    <3> QED
      BY <1>3, <1>4, <2>2, <3>1 DEF Ahead
  <2>3. CASE /\ i \in (Len(s) + 1)..(Len(s) + Len(t))
             /\ j \in (Len(s) + 1)..(Len(s) + Len(t))
    <3>1. i - Len(s) < j - Len(s)
      BY <1>1, <2>3
    <3> QED
      BY <1>4, <2>3, <3>1 DEF Ordered
  <2>4. i \in (Len(s) + 1)..(Len(s) + Len(t)) /\ j \in 1..Len(s) => FALSE
    BY <1>1
  <2> QED
    BY <1>5, <2>1, <2>2, <2>3, <2>4
<1> QED
  BY <1>0, <1>6, <1>7 DEF Joined

\* Where the connections on their way are.
Way == Conns \cap (ToSet(attached) \cup {task} \cup ToSet(m_tasks) \cup ToSet(backlog))

\* Strengthening of ConnsInOrder, for the line taken apart: each part in order
\* and ahead of the parts behind it.
PartsInOrder ==
    /\ Ordered(attached) /\ Ordered(m_tasks) /\ Ordered(backlog)
    /\ Ahead(ToSet(attached), {task} \cup ToSet(m_tasks) \cup ToSet(backlog))
    /\ Ahead({task}, ToSet(m_tasks) \cup ToSet(backlog))
    /\ Ahead(ToSet(m_tasks), ToSet(backlog))

\* Strengthening: what is on its way or lost has arrived.
OnlyArrived == Way \cup lost \subseteq {Arrivals[i] : i \in 1..arrived}

\* What has arrived is on its way or lost, not both.
OnTheWayOrLost == \A i \in 1..arrived : Arrivals[i] \in Way <=> Arrivals[i] \notin lost

LineInv == PartsInOrder /\ OnlyArrived /\ OnTheWayOrLost

\* What a step of the loop does to the tasks: nothing; one is put at the end
\* of the queue; the first is taken; the one being run is done.
LEMMA TaskMoves ==
    ASSUME LoopInv, [Next]_vars
    PROVE  \/ UNCHANGED <<m_tasks, task>>
           \/ \E t \in Threads, v \in Tasks :
                  SafeCall(t, v) /\ m_tasks' = Append(m_tasks, v) /\ task' = task
           \/ /\ m_tasks # <<>> /\ task = NoTask
              /\ task' = Head(m_tasks) /\ m_tasks' = Tail(m_tasks)
           \/ TaskReturns /\ task' = NoTask /\ m_tasks' = m_tasks
BY DEF LoopInv, TaskRuns, Next, LoopStep, Check, Poll, HandleWakeup, Read, Drain, TaskReturns,
       PassEnds, SafeCall, Exit, Wakeup, At, vars

\* The loop takes the first task: the order of the line does not change.
LEMMA LineTake ==
    ASSUME LoopInv, LineTypes, LineInv, m_tasks # <<>>, task = NoTask,
           task' = Head(m_tasks), m_tasks' = Tail(m_tasks),
           UNCHANGED <<attached, backlog, lost, arrived>>
    PROVE  LineInv'
<1>1. m_tasks \in Seq(Tasks)
  BY DEF LoopInv, TypeOK
<1>2. ToSet(m_tasks) = {Head(m_tasks)} \cup ToSet(Tail(m_tasks))
  BY <1>1, ToSetHeadTail
<1>3. Ordered(Tail(m_tasks)) /\ Ahead({Head(m_tasks)}, ToSet(Tail(m_tasks)))
  BY <1>1, OrderedTail DEF LineInv, PartsInOrder
<1>4. PartsInOrder'
  BY <1>2, <1>3 DEF LineInv, PartsInOrder, Ahead
<1>5. Way' = Way
  BY <1>2, ConnsAreTasks DEF Way
<1> QED
  BY <1>4, <1>5 DEF LineInv, OnlyArrived, OnTheWayOrLost

\* A task of somebody else is queued: the line does not change.
LEMMA LineOther ==
    ASSUME LoopInv, LineTypes, LineInv, NEW v \in Tasks \ Conns,
           m_tasks' = Append(m_tasks, v) \/ m_tasks' = m_tasks, task' = task,
           UNCHANGED <<attached, backlog, lost, arrived>>
    PROVE  LineInv'
<1>1. m_tasks \in Seq(Tasks)
  BY DEF LoopInv, TypeOK
<1>2. ToSet(Append(m_tasks, v)) = ToSet(m_tasks) \cup {v}
  BY <1>1, ToSetAppend
<1>3. Ordered(Append(m_tasks, v))
  BY <1>1, OrderedAppend DEF LineInv, PartsInOrder, Ahead
<1>4. CASE m_tasks' = Append(m_tasks, v)
  <2>1. ToSet(m_tasks') = ToSet(m_tasks) \cup {v} /\ Ordered(m_tasks')
    BY <1>2, <1>3, <1>4
  <2>2. PartsInOrder'
    BY <2>1 DEF LineInv, PartsInOrder, Ahead
  <2>3. Way' = Way
    BY <2>1 DEF Way
  <2> QED
    BY <2>2, <2>3 DEF LineInv, OnlyArrived, OnTheWayOrLost
<1>5. CASE m_tasks' = m_tasks
  BY <1>5 DEF LineInv, PartsInOrder, OnlyArrived, OnTheWayOrLost, Way
<1> QED
  BY <1>4, <1>5

\* Nothing of the line changes.
LEMMA LineSame ==
    ASSUME LineInv, UNCHANGED <<m_tasks, task, attached, backlog, lost, arrived>>
    PROVE  LineInv'
BY DEF LineInv, PartsInOrder, OnlyArrived, OnTheWayOrLost, Way

\* addcon moves the connection of its task behind those attached before.
LEMMA LineRun == LoopInv /\ LineTypes /\ LineInv /\ RunTask => LineInv'
<1> SUFFICES ASSUME LoopInv, LineTypes, LineInv, RunTask PROVE LineInv'
  OBVIOUS
<1>1. m_tasks' = m_tasks /\ task' = NoTask /\ UNCHANGED <<backlog, lost, arrived>>
  BY DEF RunTask, TaskReturns, kernelVars
<1>2. CASE task \in Conns
  <2>1. attached' = Append(attached, task) /\ attached \in Seq(Conns)
    BY <1>2 DEF RunTask, LineTypes
  <2>2. ToSet(attached') = ToSet(attached) \cup {task}
    BY <2>1, ToSetAppend
  <2>3. Ordered(attached')
    BY <2>1, OrderedAppend DEF LineInv, PartsInOrder, Ahead
  <2>4. PartsInOrder'
    BY <1>1, <2>2, <2>3, ConnsAreTasks DEF LineInv, PartsInOrder, Ahead
  <2>5. Way' = Way
    BY <1>1, <2>2, ConnsAreTasks DEF Way
  <2> QED
    BY <1>1, <2>4, <2>5 DEF LineInv, OnlyArrived, OnTheWayOrLost
<1>3. CASE task \notin Conns
  <2>1. attached' = attached
    BY <1>3 DEF RunTask
  <2>2. PartsInOrder'
    BY <1>1, <2>1, ConnsAreTasks DEF LineInv, PartsInOrder, Ahead
  <2>3. Way' = Way
    BY <1>1, <1>3, <2>1, ConnsAreTasks DEF Way
  <2> QED
    BY <1>1, <2>2, <2>3 DEF LineInv, OnlyArrived, OnTheWayOrLost
<1> QED
  BY <1>2, <1>3

\* accept moves the first connection of the backlog behind the tasks, or
\* loses it.
LEMMA LineAccept == LoopInv /\ LineTypes /\ LineInv /\ Accept => LineInv'
<1> SUFFICES ASSUME LoopInv, LineTypes, LineInv, Accept PROVE LineInv'
  OBVIOUS
<1> DEFINE c == Head(backlog)
<1>1. backlog \in Seq(Conns) /\ backlog # <<>> /\ m_tasks \in Seq(Tasks)
  BY DEF Accept, CanAccept, LineTypes, LoopInv, TypeOK
<1>2. c \in Conns /\ ToSet(backlog) = {c} \cup ToSet(Tail(backlog))
  BY <1>1, ToSetHeadTail
<1>3. Ordered(Tail(backlog)) /\ Ahead({c}, ToSet(Tail(backlog)))
  BY <1>1, OrderedTail DEF LineInv, PartsInOrder
<1>4. backlog' = Tail(backlog) /\ task' = task /\ UNCHANGED <<attached, arrived>>
  BY DEF Accept, SafeCall, vars
<1>5. CASE c \notin gone /\ Accepts
  <2>1. m_tasks' = Append(m_tasks, c) /\ lost' = lost
    BY <1>5 DEF Accept, SafeCall
  <2>2. ToSet(m_tasks') = ToSet(m_tasks) \cup {c}
    BY <1>1, <2>1, ToSetAppend
  <2>3. Ordered(m_tasks')
    BY <1>1, <1>2, <2>1, OrderedAppend DEF LineInv, PartsInOrder, Ahead
  <2>4. PartsInOrder'
    BY <1>2, <1>3, <1>4, <2>2, <2>3 DEF LineInv, PartsInOrder, Ahead
  <2>5. Way' = Way
    BY <1>2, <1>4, <2>2 DEF Way
  <2> QED
    BY <1>4, <2>1, <2>4, <2>5 DEF LineInv, OnlyArrived, OnTheWayOrLost
<1>6. CASE c \in gone \/ ~Accepts
  <2>1. m_tasks' = m_tasks /\ lost' = lost \cup {c}
    BY <1>6 DEF Accept, SafeCall, vars
  <2>2. PartsInOrder'
    BY <1>2, <1>3, <1>4, <2>1 DEF LineInv, PartsInOrder, Ahead
  <2>3. Way' = Way \ {c}
    BY <1>2, <1>3, <1>4, <2>1, NotBeforeItself DEF Way, LineInv, PartsInOrder, Ahead
  <2>4. c \in Way
    BY <1>2 DEF Way
  <2> QED
    BY <1>4, <2>1, <2>2, <2>3, <2>4 DEF LineInv, OnlyArrived, OnTheWayOrLost
<1> QED
  BY <1>5, <1>6

\* The destructor loses what the kernel still held; no task is pending then.
LEMMA LineDestroy == LoopInv /\ LineTypes /\ LineInv /\ Destroy => LineInv'
<1> SUFFICES ASSUME LoopInv, LineTypes, LineInv, Destroy PROVE LineInv'
  OBVIOUS
<1>1. /\ backlog' = <<>> /\ lost' = lost \cup ToSet(backlog)
      /\ UNCHANGED <<m_tasks, task, attached, arrived>>
  BY DEF Destroy, vars
<1>2. ToSet(backlog') = {} /\ Ordered(backlog')
  BY <1>1, ToSetEmpty DEF Ordered
<1>3. PartsInOrder'
  BY <1>1, <1>2 DEF LineInv, PartsInOrder, Ahead
<1>4. ToSet(backlog) \subseteq Conns
  <2>1. backlog \in Seq(Conns)
    BY DEF LineTypes
  <2>2. \A i \in DOMAIN backlog : backlog[i] \in Conns
    BY <2>1
  <2> QED
    BY <2>2 DEF ToSet
<1>5. Way' = Way \ ToSet(backlog)
  BY <1>1, <1>2, NotBeforeItself DEF Way, LineInv, PartsInOrder, Ahead
<1>6. ToSet(backlog) \subseteq Way
  BY <1>4 DEF Way
<1> QED
  BY <1>1, <1>3, <1>5, <1>6 DEF LineInv, OnlyArrived, OnTheWayOrLost

\* A peer's connection goes to the end of the line.
LEMMA LineConnect ==
    ASSUME LoopInv, LineTypes, LineInv, NEW c \in Conns, Connect(c)
    PROVE  LineInv'
<1>1. /\ arrived < Len(Arrivals) /\ c = Arrivals[arrived + 1]
      /\ backlog' = Append(backlog, c) /\ arrived' = arrived + 1
      /\ UNCHANGED <<m_tasks, task, attached, lost>>
  BY DEF Connect, vars, connVars
<1>2. DOMAIN Arrivals = 1..Len(Arrivals) /\ Len(Arrivals) \in Nat /\ arrived \in Nat
  BY ServerAssumption DEF ServerAssumption, LineTypes
<1>3. 1..arrived' = 1..arrived \cup {arrived + 1} /\ arrived + 1 \in DOMAIN Arrivals
  BY <1>1, <1>2
<1>4. ToSet(backlog') = ToSet(backlog) \cup {c}
  BY <1>1, ToSetAppend DEF LineTypes
<1>5. \A w \in Way \cup lost : Earlier(w, c)
  <2> SUFFICES ASSUME NEW i \in 1..arrived PROVE Earlier(Arrivals[i], c)
    BY DEF LineInv, OnlyArrived
  <2>1. i < arrived + 1 /\ i \in DOMAIN Arrivals
    BY <1>1, <1>2
  <2> QED
    BY <1>1, <1>3, <2>1 DEF Earlier
<1>6. c \notin Way /\ c \notin lost
  BY <1>5, NotBeforeItself
<1>7. Ordered(backlog')
  <2>1. Ahead(ToSet(backlog), {c})
    BY <1>5 DEF Ahead, Way
  <2> QED
    BY <1>1, <2>1, OrderedAppend DEF LineInv, PartsInOrder, LineTypes
<1>8. PartsInOrder'
  BY <1>1, <1>4, <1>5, <1>7 DEF LineInv, PartsInOrder, Ahead, Way
<1>9. Way' = Way \cup {c}
  BY <1>1, <1>4 DEF Way
<1>10. OnlyArrived'
  BY <1>1, <1>3, <1>9 DEF LineInv, OnlyArrived
<1>11. OnTheWayOrLost'
  <2> SUFFICES ASSUME NEW i \in 1..arrived' PROVE Arrivals[i] \in Way' <=> Arrivals[i] \notin lost'
    BY DEF OnTheWayOrLost
  <2>1. CASE i \in 1..arrived
    <3>1. Arrivals[i] # c
      BY <1>2, <1>3, <1>1, <2>1, ServerAssumption DEF ServerAssumption, IsInjective
    <3> QED
      BY <1>1, <1>9, <2>1, <3>1 DEF LineInv, OnTheWayOrLost
  <2>2. CASE i = arrived + 1
    BY <1>1, <1>6, <1>9, <2>2
  <2> QED
    BY <1>3, <2>1, <2>2
<1> QED
  BY <1>8, <1>10, <1>11 DEF LineInv

\* Before anyone connects the line is empty.
LEMMA LineInit == ServerInit => LineInv
<1> SUFFICES ASSUME ServerInit PROVE LineInv
  OBVIOUS
<1>1. /\ m_tasks = <<>> /\ backlog = <<>> /\ attached = <<>>
      /\ task = NoTask /\ lost = {} /\ arrived = 0
  BY DEF ServerInit, Init
<1>2. ToSet(<<>>) = {} /\ Ordered(<<>>)
  BY ToSetEmpty DEF Ordered
<1>3. PartsInOrder
  BY <1>1, <1>2 DEF PartsInOrder, Ahead
<1>4. Way = {}
  BY <1>1, <1>2, ConnsAreTasks DEF Way
<1>5. 1..arrived = {}
  BY <1>1
<1> QED
  BY <1>1, <1>3, <1>4, <1>5 DEF LineInv, OnlyArrived, OnTheWayOrLost

\* Every step keeps the line in order.
LEMMA LineStep == ServerLoopInv /\ LineInv /\ [ServerNext]_allVars => LineInv'
<1> SUFFICES ASSUME LoopInv, LineTypes, LineInv, [ServerNext]_allVars PROVE LineInv'
  BY DEF ServerLoopInv
<1>1. CASE Accept
  BY <1>1, LineAccept
<1>2. CASE RunTask
  BY <1>2, LineRun
<1>3. CASE Destroy
  BY <1>3, LineDestroy
<1>4. ASSUME NEW c \in Conns, Connect(c) PROVE LineInv'
  BY <1>4, LineConnect
<1>5. CASE \/ HandleAccept \/ AcceptEnds \/ ServerPoll \/ UNCHANGED allVars
           \/ \E cb \in {NoCallback, calls + 1} : OnConnRead(cb)
           \/ \E c \in Conns : Reset(c)
  <2>1. UNCHANGED <<m_tasks, task, attached, backlog, lost, arrived>>
    BY <1>5 DEF HandleAccept, AcceptEnds, ServerPoll, Poll, OnConnRead, Reset, allVars, vars,
                serverVars, kernelVars, connVars, loopRest
  <2> QED
    BY <2>1, LineSame
<1>6. CASE Pass /\ UNCHANGED serverVars
  <2>1. UNCHANGED <<attached, backlog, lost, arrived>>
    BY <1>6 DEF serverVars, kernelVars, connVars
  <2>2. CASE UNCHANGED <<m_tasks, task>>
    BY <2>1, <2>2, LineSame
  <2>3. CASE /\ m_tasks # <<>> /\ task = NoTask
             /\ task' = Head(m_tasks) /\ m_tasks' = Tail(m_tasks)
    BY <2>1, <2>3, LineTake
  <2> QED
    BY <1>6, <2>2, <2>3
    DEF Pass, Check, HandleWakeup, Read, Drain, PassEnds, At, LoopInv, TaskRuns
<1>7. ASSUME NEW t \in Threads, Calls(t) PROVE LineInv'
  <2>1. UNCHANGED <<attached, backlog, lost, arrived>>
    BY <1>7 DEF Calls, serverVars, kernelVars, connVars
  <2>2. CASE Exit(t) \/ Wakeup(t)
    BY <2>1, <2>2, LineSame DEF Exit, Wakeup
  <2>3. ASSUME NEW v \in Tasks \ Conns, SafeCall(t, v) PROVE LineInv'
    <3>1. (m_tasks' = Append(m_tasks, v) \/ m_tasks' = m_tasks) /\ task' = task
      BY <2>3 DEF SafeCall
    <3> QED
      BY <2>1, <3>1, LineOther
  <2> QED
    BY <1>7, <2>2, <2>3 DEF Calls
<1> QED
  BY <1>1, <1>2, <1>3, <1>4, <1>5, <1>6, <1>7 DEF ServerNext, ServerStep

\* Four sequences one after another.
LEMMA OrderedLine ==
    ASSUME NEW S, NEW a \in Seq(S), NEW b \in Seq(S), NEW c \in Seq(S), NEW d \in Seq(S),
           Ordered(a), Ordered(b), Ordered(c), Ordered(d),
           Ahead(ToSet(a), ToSet(b) \cup ToSet(c) \cup ToSet(d)),
           Ahead(ToSet(b), ToSet(c) \cup ToSet(d)), Ahead(ToSet(c), ToSet(d)),
           NEW ab, ab = Joined(a, b), NEW abc, abc = Joined(ab, c),
           NEW all, all = Joined(abc, d)
    PROVE  Ordered(all) /\ ToSet(all) = ToSet(a) \cup ToSet(b) \cup ToSet(c) \cup ToSet(d)
<1>1. Ahead(ToSet(a), ToSet(b))
  BY DEF Ahead
<1>2. ab \in Seq(S) /\ Ordered(ab)
  BY <1>1, OrderedJoined
<1>3. ToSet(ab) = ToSet(a) \cup ToSet(b)
  BY <1>1, OrderedJoined
<1>4. Ahead(ToSet(ab), ToSet(c))
  BY <1>3 DEF Ahead
<1>5. abc \in Seq(S) /\ Ordered(abc)
  BY <1>2, <1>4, OrderedJoined
<1>6. ToSet(abc) = ToSet(ab) \cup ToSet(c)
  BY <1>2, <1>4, OrderedJoined
<1>7. Ahead(ToSet(abc), ToSet(d))
  BY <1>3, <1>6 DEF Ahead
<1>8. Ordered(all) /\ ToSet(all) = ToSet(abc) \cup ToSet(d)
  BY <1>5, <1>7, OrderedJoined
<1> QED
  BY <1>3, <1>6, <1>8

\* The parts in order make a line in order.
LEMMA PartsMakeTheLine == ServerLoopInv /\ LineInv => ConnsInOrder
<1> SUFFICES ASSUME LoopInv, LineTypes, LineInv PROVE ConnsInOrder
  BY DEF ServerLoopInv
<1> DEFINE S == Tasks \cup {task}
<1>1. /\ attached \in Seq(S) /\ backlog \in Seq(S) /\ m_tasks \in Seq(S)
      /\ <<task>> \in Seq(S)
  BY ConnsAreTasks DEF LineTypes, LoopInv, TypeOK
<1>2. PICK middle : middle = <<task>>
  OBVIOUS
<1>3. ToSet(middle) = {task} /\ Ordered(middle)
  BY <1>2 DEF ToSet, Ordered
<1>4. middle \in Seq(S)
  BY <1>1, <1>2
<1> HIDE DEF S
<1>5. /\ Ahead(ToSet(attached), ToSet(middle) \cup ToSet(m_tasks) \cup ToSet(backlog))
      /\ Ahead(ToSet(middle), ToSet(m_tasks) \cup ToSet(backlog))
      /\ Ahead(ToSet(m_tasks), ToSet(backlog))
      /\ Ordered(attached) /\ Ordered(middle) /\ Ordered(m_tasks) /\ Ordered(backlog)
  BY <1>3 DEF LineInv, PartsInOrder
<1>6. /\ Ordered(Line)
      /\ ToSet(Line) = ToSet(attached) \cup {task} \cup ToSet(m_tasks) \cup ToSet(backlog)
  <2>1. PICK ab : ab = Joined(attached, middle)
    OBVIOUS
  <2>2. PICK abc : abc = Joined(ab, m_tasks)
    OBVIOUS
  <2>3. PICK all : all = Joined(abc, backlog)
    OBVIOUS
  <2>4. all = Line
    BY <1>2, <2>1, <2>2, <2>3, Zenon DEF Line, Joined
  <2>5. /\ Ordered(all)
        /\ ToSet(all) = ToSet(attached) \cup ToSet(middle) \cup ToSet(m_tasks) \cup ToSet(backlog)
    BY <1>1, <1>4, <1>5, <2>1, <2>2, <2>3, OrderedLine
  <2> QED
    BY <1>3, <2>4, <2>5
<1>7. \A i \in 1..arrived : Arrivals[i] \in Conns
  <2>1. 1..arrived \subseteq DOMAIN Arrivals
    BY ServerAssumption DEF ServerAssumption, LineTypes
  <2> QED
    BY <2>1 DEF Conns, ToSet
<1>8. \A i \in 1..arrived : Arrivals[i] \in ToSet(Line) <=> Arrivals[i] \notin lost
  BY <1>6, <1>7 DEF LineInv, OnTheWayOrLost, Way
<1> QED
  BY <1>6, <1>8 DEF ConnsInOrder, Ordered

\* Connections keep their order from the kernel to the loop: every one that has
\* arrived is on its way or lost, and none overtakes another.
THEOREM ConnsKeepOrder == ServerSpec => []ConnsInOrder
BY ServerLoopInit, ServerLoopStep, LineInit, LineStep, PartsMakeTheLine, PTL
   DEF ServerSpec, ServerSafeSpec, allVars

-----------------------------------------------------------------------------
(* The callback *)

\* Strengthening: the server has the callback it was last given; a connection has
\* one that was given, not an empty one, and none before it is attached.
CallTypes ==
    /\ calls \in 0..MaxCalls /\ cleared \subseteq 1..calls
    /\ readcb_ = Newest
    /\ called \in [Conns -> 0..calls]
    /\ \A c \in Conns : called[c] \notin cleared
    /\ \A c \in Conns \ ToSet(attached) : called[c] = NoCallback
    /\ before \subseteq ToSet(attached)

CallInv == CallTypes /\ CallbacksInOrder

\* Of two connections one arrived before the other.
LEMMA EarlierOneWay == \A c, d : Earlier(c, d) => ~Earlier(d, c)
<1> SUFFICES ASSUME NEW c, NEW d, Earlier(c, d), Earlier(d, c) PROVE FALSE
  OBVIOUS
<1>1. DOMAIN Arrivals \subseteq Nat
  BY ServerAssumption DEF ServerAssumption
<1>2. PICK i \in DOMAIN Arrivals, j \in DOMAIN Arrivals :
          i < j /\ Arrivals[i] = c /\ Arrivals[j] = d
  BY DEF Earlier
<1>3. PICK k \in DOMAIN Arrivals, l \in DOMAIN Arrivals :
          k < l /\ Arrivals[k] = d /\ Arrivals[l] = c
  BY DEF Earlier
<1>4. i = l /\ j = k
  BY <1>2, <1>3, ServerAssumption DEF ServerAssumption, IsInjective
<1> QED
  BY <1>1, <1>2, <1>3, <1>4

\* addcon gives the callback of the last onConnRead, to a connection behind those
\* that are attached.
LEMMA CallRun == LineTypes /\ LineInv /\ CallInv /\ RunTask => CallInv'
<1> SUFFICES ASSUME LineTypes, LineInv, CallInv, RunTask PROVE CallInv'
  OBVIOUS
<1>1. UNCHANGED callVars
  BY DEF RunTask
<1>2. Newest' = Newest
  BY <1>1 DEF callVars, Newest
<1>3. CASE task \in Conns
  <2>1. attached' = Append(attached, task) /\ attached \in Seq(Conns)
    BY <1>3 DEF RunTask, LineTypes
  <2>2. ToSet(attached') = ToSet(attached) \cup {task}
    BY <2>1, ToSetAppend
  <2>3. ToSet(attached) \subseteq Conns
    <3>1. \A i \in DOMAIN attached : attached[i] \in Conns
      BY <2>1
    <3> QED
      BY <3>1 DEF ToSet
  <2>4. \A c \in ToSet(attached) : Earlier(c, task)
    BY <1>3, <2>3 DEF LineInv, PartsInOrder, Ahead
  <2>5. task \notin ToSet(attached)
    BY <2>4, NotBeforeItself
  <2>6. called[task] = NoCallback
    BY <1>3, <2>5 DEF CallInv, CallTypes
  <2>7. called' \in [Conns -> 0..calls] /\ called'[task] = readcb_
    BY <1>3, <2>6 DEF RunTask, CallInv, CallTypes, Newest, NoCallback
  <2>8. \A c \in Conns : c # task => called'[c] = called[c]
    BY <1>3 DEF RunTask, CallInv, CallTypes
  <2>9. CallTypes'
    <3>1. /\ calls' \in 0..MaxCalls /\ cleared' \subseteq 1..calls' /\ readcb_' = Newest'
          /\ called' \in [Conns -> 0..calls']
      BY <1>1, <1>2, <2>7 DEF CallInv, CallTypes, callVars
    <3>2. \A c \in Conns : called'[c] \notin cleared'
      <4>1. readcb_ \notin cleared
        BY DEF CallInv, CallTypes, Newest, NoCallback
      <4> QED
        BY <1>1, <2>7, <2>8, <4>1 DEF CallInv, CallTypes, callVars
    <3>3. \A c \in Conns \ ToSet(attached') : called'[c] = NoCallback
      BY <2>2, <2>8 DEF CallInv, CallTypes
    <3>4. before' \subseteq ToSet(attached')
      BY <1>1, <2>2 DEF CallInv, CallTypes, callVars
    <3> QED
      BY <3>1, <3>2, <3>3, <3>4 DEF CallTypes
  <2>10. CallbacksInOrder'
    <3>1. \A c \in ToSet(attached') \ before' : called'[c] = Newest'
      BY <1>1, <1>2, <2>2, <2>3, <2>5, <2>7, <2>8
         DEF CallInv, CallTypes, CallbacksInOrder, callVars
    <3> SUFFICES ASSUME NEW c \in ToSet(attached'), NEW d \in ToSet(attached'),
                        Earlier(c, d), called'[c] # NoCallback
                 PROVE  \/ called'[d] >= called'[c]
                        \/ /\ called'[d] = NoCallback
                           /\ \E k \in cleared' : k > called'[c]
      BY <3>1 DEF CallbacksInOrder
    <3>2. c \in ToSet(attached)
      BY <2>2, <2>4, EarlierOneWay, NotBeforeItself
    <3>3. called'[c] = called[c] /\ called[c] \in 1..calls /\ called[c] \notin cleared
      BY <2>3, <2>5, <2>8, <3>2 DEF CallInv, CallTypes, NoCallback
    <3>4. CASE d = task
      <4>1. calls \in Nat
        BY DEF CallInv, CallTypes
      <4>2. CASE calls \in cleared
        <5>1. called'[d] = NoCallback
          BY <2>7, <3>4, <4>2 DEF CallInv, CallTypes, Newest
        <5>2. calls > called[c]
          BY <3>3, <4>1, <4>2
        <5> QED
          BY <1>1, <3>3, <4>2, <5>1, <5>2 DEF callVars
      <4>3. CASE calls \notin cleared
        <5>1. called'[d] = calls
          BY <2>7, <3>4, <4>3 DEF CallInv, CallTypes, Newest
        <5> QED
          BY <3>3, <4>1, <5>1
      <4> QED
        BY <4>2, <4>3
    <3>5. CASE d \in ToSet(attached)
      <4>1. called'[d] = called[d]
        BY <2>3, <2>5, <2>8, <3>5
      <4>2. \/ called[d] >= called[c]
            \/ called[d] = NoCallback /\ \E k \in cleared : k > called[c]
        BY <3>2, <3>3, <3>5 DEF CallInv, CallbacksInOrder
      <4> QED
        BY <1>1, <3>3, <4>1, <4>2 DEF callVars
    <3> QED
      BY <2>2, <3>4, <3>5
  <2> QED
    BY <2>9, <2>10 DEF CallInv
<1>4. CASE task \notin Conns
  <2>1. UNCHANGED <<attached, called>>
    BY <1>4 DEF RunTask
  <2> QED
    BY <1>1, <1>2, <2>1 DEF callVars, CallInv, CallTypes, CallbacksInOrder
<1> QED
  BY <1>3, <1>4

\* onConnRead: those attached keep what they have, and the new callback is newer.
LEMMA CallReplace ==
    ASSUME CallInv, ToSet(attached) \subseteq Conns, NEW cb \in {NoCallback, calls + 1},
           OnConnRead(cb)
    PROVE  CallInv'
<1>1. /\ readcb_' = cb /\ calls' = calls + 1 /\ before' = ToSet(attached)
      /\ cleared' = (IF cb = NoCallback THEN cleared \cup {calls + 1} ELSE cleared)
      /\ attached' = attached /\ called' = called
  BY DEF OnConnRead, connVars
<1>2. calls < MaxCalls /\ MaxCalls \in Nat /\ calls \in Nat
  BY ServerAssumption DEF ServerAssumption, OnConnRead, CallInv, CallTypes
<1>3. calls' \in 0..MaxCalls /\ cleared' \subseteq 1..calls'
  BY <1>1, <1>2 DEF CallInv, CallTypes
<1>4. readcb_' = Newest'
  <2>1. calls + 1 \notin cleared /\ calls + 1 # NoCallback
    BY <1>2 DEF CallInv, CallTypes, NoCallback
  <2>2. CASE cb = NoCallback
    BY <1>1, <2>2 DEF Newest
  <2>3. CASE cb = calls + 1
    BY <1>1, <2>1, <2>3 DEF Newest
  <2> QED
    BY <2>2, <2>3
<1>5. called' \in [Conns -> 0..calls']
  <2>1. called \in [Conns -> 0..calls]
    BY DEF CallInv, CallTypes
  <2>2. 0..calls \subseteq 0..calls'
    BY <1>1, <1>2
  <2> QED
    BY <1>1, <2>1, <2>2
<1>6. \A c \in Conns : called'[c] \notin cleared'
  <2>1. \A c \in Conns : called[c] \in 0..calls /\ called[c] \notin cleared
    BY DEF CallInv, CallTypes
  <2>2. \A n \in 0..calls : n # calls + 1
    BY <1>2
  <2> QED
    BY <1>1, <2>1, <2>2
<1>7. CallTypes'
  BY <1>1, <1>3, <1>4, <1>5, <1>6 DEF CallInv, CallTypes
<1>8. CallbacksInOrder'
  BY <1>1 DEF CallInv, CallbacksInOrder
<1> QED
  BY <1>7, <1>8 DEF CallInv

\* No other step attaches a connection, gives one the callback or replaces it.
LEMMA CallStep == LineTypes /\ LineInv /\ CallInv /\ [ServerNext]_allVars => CallInv'
<1> SUFFICES ASSUME LineTypes, LineInv, CallInv, [ServerNext]_allVars PROVE CallInv'
  OBVIOUS
<1>1. CASE RunTask
  BY <1>1, CallRun
<1>2. ASSUME NEW cb \in {NoCallback, calls + 1}, OnConnRead(cb) PROVE CallInv'
  <2>1. attached \in Seq(Conns)
    BY DEF LineTypes
  <2>2. \A i \in DOMAIN attached : attached[i] \in Conns
    BY <2>1
  <2>3. ToSet(attached) \subseteq Conns
    BY <2>2 DEF ToSet
  <2> QED
    BY <1>2, <2>3, CallReplace
<1>3. CASE UNCHANGED <<attached, called, callVars>>
  <2>1. UNCHANGED <<attached, called, readcb_, calls, cleared, before>>
    BY <1>3 DEF callVars
  <2> QED
    BY <2>1 DEF CallInv, CallTypes, CallbacksInOrder, Newest
<1> QED
  BY <1>1, <1>2, <1>3 DEF ServerNext, ServerStep, HandleAccept, Accept, AcceptEnds, ServerPoll,
     Calls, Destroy, Connect, Reset, allVars, serverVars, kernelVars, connVars

\* Before onConnRead nobody has a callback.
LEMMA CallInit == ServerInit => CallInv
<1> SUFFICES ASSUME ServerInit PROVE CallInv
  OBVIOUS
<1>1. /\ attached = <<>> /\ called = [c \in Conns |-> NoCallback]
      /\ readcb_ = NoCallback /\ calls = 0 /\ cleared = {} /\ before = {}
  BY DEF ServerInit
<1>2. ToSet(attached) = {}
  BY <1>1, ToSetEmpty
<1>3. CallTypes
  BY <1>1, ServerAssumption DEF ServerAssumption, CallTypes, Newest, NoCallback
<1>4. CallbacksInOrder
  BY <1>2 DEF CallbacksInOrder
<1> QED
  BY <1>3, <1>4 DEF CallInv

\* Whatever is accepted, queued and attached between the calls of onConnRead, no
\* connection gets a callback that was replaced or cleared before it was attached,
\* and none has an older one than a connection that arrived before it.
THEOREM CallbacksKeepOrder == ServerSpec => []CallbacksInOrder
<1>1. ServerLoopInv /\ LineInv /\ CallInv /\ [ServerNext]_allVars => CallInv'
  BY CallStep DEF ServerLoopInv
<1>2. CallInv => CallbacksInOrder
  BY DEF CallInv
<1> QED
  BY <1>1, <1>2, CallInit, ServerLoopInit, ServerLoopStep, LineInit, LineStep, PTL
     DEF ServerSpec, ServerSafeSpec, allVars
-----------------------------------------------------------------------------
(* The descriptors *)

\* Every connection that has arrived waits in the kernel or has a descriptor that
\* nobody closes, or it was the kernel's when the server ended: none counts twice.
HeldCounted == Held + Len(backlog) = arrived

\* Descriptors are never exceeded, lost ones included.
HeldLimited == open => Held <= FdLimit

\* After its destructor nothing of the server is left in the loop: no task with
\* its pointer, no event of its channel, no handleAccept.
DestroyedQuiet == ~open => backlog = <<>> /\ Pending = {} /\ ~ready /\ ~accepting

\* Strengthening: handleAccept runs between the parts of a pass.
AcceptingInPass == accepting => lpc \in {"before", "after"}

HeldInv == IsFiniteSet(lost) /\ HeldCounted /\ HeldLimited /\ DestroyedQuiet /\ AcceptingInPass

\* A sequence has finitely many elements; without repetitions, as many as its
\* length.
LEMMA ElementsCounted ==
    ASSUME NEW S, NEW s \in Seq(S)
    PROVE  /\ IsFiniteSet(ToSet(s))
           /\ IsInjective(s) => Cardinality(ToSet(s)) = Len(s)
<1>1. DOMAIN s = 1..Len(s) /\ Len(s) \in Nat /\ s \in [1..Len(s) -> S]
  OBVIOUS
<1>2. s \in [1..Len(s) -> ToSet(s)]
  BY <1>1 DEF ToSet
<1>3. s \in Surjection(1..Len(s), ToSet(s))
  BY <1>1, <1>2 DEF Surjection, ToSet
<1>4. IsFiniteSet(ToSet(s))
  BY <1>1, <1>3, FS_NatSurjection DEF ExistsSurjection
<1>5. ASSUME IsInjective(s) PROVE Cardinality(ToSet(s)) = Len(s)
  <2>1. s \in Bijection(1..Len(s), ToSet(s))
    BY <1>2, <1>3, <1>5 DEF Bijection, Injection
  <2> QED
    BY <1>1, <2>1, FS_CountingElements DEF ExistsBijection
<1> QED
  BY <1>4, <1>5

\* Few tasks are pending at a time, and the backlog holds nothing twice.
LEMMA HeldTypes ==
    ASSUME LoopInv, LineTypes, LineInv, HeldInv
    PROVE  /\ IsFiniteSet(Pending) /\ Cardinality(Pending) \in Nat
           /\ IsFiniteSet(lost) /\ Cardinality(lost) \in Nat
           /\ Len(attached) \in Nat /\ Len(backlog) \in Nat /\ arrived \in Nat
           /\ FdLimit \in Nat
           /\ Cardinality(ToSet(backlog)) = Len(backlog) /\ IsFiniteSet(ToSet(backlog))
<1>1. m_tasks \in Seq(Tasks) /\ backlog \in Seq(Conns) /\ attached \in Seq(Conns)
  BY DEF LoopInv, TypeOK, LineTypes
<1>2. IsFiniteSet(ToSet(m_tasks) \cup {task})
  BY <1>1, ElementsCounted, FS_AddElement
<1>3. IsFiniteSet(Pending)
  <2>1. Pending \in SUBSET (ToSet(m_tasks) \cup {task})
    BY DEF Pending
  <2> QED
    BY <1>2, <2>1, FS_Subset
<1>4. IsInjective(backlog)
  <2>1. DOMAIN backlog = 1..Len(backlog) /\ Len(backlog) \in Nat
    BY <1>1
  <2>2. \A i \in 1..Len(backlog) : backlog[i] \in Conns
    BY <1>1
  <2> SUFFICES ASSUME NEW i \in 1..Len(backlog), NEW j \in 1..Len(backlog),
                      backlog[i] = backlog[j], i # j
               PROVE  FALSE
    BY <2>1 DEF IsInjective
  <2>3. i < j \/ j < i
    BY <2>1
  <2>4. Earlier(backlog[i], backlog[j]) \/ Earlier(backlog[j], backlog[i])
    BY <2>1, <2>2, <2>3 DEF LineInv, PartsInOrder, Ordered
  <2> QED
    BY <2>4, NotBeforeItself
<1>5. Len(Arrivals) \in Nat /\ FdLimit \in Nat
  BY ServerAssumption DEF ServerAssumption
<1>6. arrived \in Nat
  BY <1>5 DEF LineTypes
<1> QED
  BY <1>1, <1>3, <1>4, <1>5, <1>6, ElementsCounted, FS_CardinalityType DEF HeldInv

\* Nothing changes in what is counted.
LEMMA HeldSame ==
    ASSUME HeldInv, Pending' = Pending, UNCHANGED <<attached, lost, backlog, arrived, open>>
    PROVE  IsFiniteSet(lost)' /\ HeldCounted' /\ HeldLimited'
BY DEF HeldInv, HeldCounted, HeldLimited, Held

\* accept gives one connection of the backlog a descriptor, if there is one left.
LEMMA HeldAccept ==
    ASSUME LoopInv, LineTypes, LineInv, HeldInv, Accept
    PROVE  IsFiniteSet(lost)' /\ HeldCounted' /\ HeldLimited'
<1> DEFINE c == Head(backlog)
<1>1. backlog \in Seq(Conns) /\ backlog # <<>> /\ m_tasks \in Seq(Tasks) /\ Held < FdLimit
  BY DEF Accept, CanAccept, LineTypes, LoopInv, TypeOK
<1>2. c \in Conns /\ c \in ToSet(backlog)
  BY <1>1, ToSetHeadTail
<1>3. backlog' = Tail(backlog) /\ task' = task /\ UNCHANGED <<attached, arrived, open>>
  BY DEF Accept, SafeCall, vars
<1>4. Len(backlog') = Len(backlog) - 1
  BY <1>1, <1>3
<1>5. c \notin Pending
  BY <1>2, NotBeforeItself DEF LineInv, PartsInOrder, Ahead, Pending
<1>6. c \notin lost
  <2>1. c \in Way
    BY <1>2 DEF Way
  <2> QED
    BY <2>1 DEF LineInv, OnlyArrived, OnTheWayOrLost
<1>7. /\ Cardinality(Pending \cup {c}) = Cardinality(Pending) + 1
      /\ Cardinality(lost \cup {c}) = Cardinality(lost) + 1 /\ IsFiniteSet(lost \cup {c})
  BY <1>5, <1>6, HeldTypes, FS_AddElement
<1>8. \/ Pending' = Pending \cup {c} /\ lost' = lost
      \/ Pending' = Pending /\ lost' = lost \cup {c}
  <2>1. CASE c \notin gone /\ Accepts
    <3>1. m_tasks' = Append(m_tasks, c) /\ lost' = lost
      BY <2>1 DEF Accept, SafeCall
    <3>2. ToSet(m_tasks') = ToSet(m_tasks) \cup {c}
      BY <1>1, <3>1, ToSetAppend
    <3> QED
      BY <1>2, <1>3, <3>1, <3>2 DEF Pending
  <2>2. CASE c \in gone \/ ~Accepts
    <3>1. m_tasks' = m_tasks /\ lost' = lost \cup {c}
      BY <2>2 DEF Accept, SafeCall, vars
    <3> QED
      BY <1>3, <3>1 DEF Pending
  <2> QED
    BY <2>1, <2>2
<1> HIDE DEF c
<1>9. IsFiniteSet(lost)'
  BY <1>7, <1>8 DEF HeldInv
<1>10. Held' = Held + 1 /\ Held \in Nat
  <2>1. Cardinality(Pending) \in Nat /\ Cardinality(lost) \in Nat /\ Len(attached) \in Nat
    BY HeldTypes
  <2>2. Len(attached') = Len(attached)
    BY <1>3
  <2>3. Cardinality(Pending') + Cardinality(lost') = Cardinality(Pending) + Cardinality(lost) + 1
    <3>1. CASE Pending' = Pending \cup {c} /\ lost' = lost
      BY <1>7, <2>1, <3>1
    <3>2. CASE Pending' = Pending /\ lost' = lost \cup {c}
      BY <1>7, <2>1, <3>2
    <3> QED
      BY <1>8, <3>1, <3>2
  <2>4. Cardinality(Pending') \in Nat /\ Cardinality(lost') \in Nat
    <3>1. CASE Pending' = Pending \cup {c} /\ lost' = lost
      BY <1>7, <2>1, <3>1
    <3>2. CASE Pending' = Pending /\ lost' = lost \cup {c}
      BY <1>7, <2>1, <3>2
    <3> QED
      BY <1>8, <3>1, <3>2
  <2> QED
    BY <2>1, <2>2, <2>3, <2>4 DEF Held
<1>11. HeldCounted'
  <2>1. Held + Len(backlog) = arrived
    BY DEF HeldInv, HeldCounted
  <2>2. Len(backlog) \in Nat /\ arrived \in Nat /\ Held \in Nat
    BY <1>10, HeldTypes
  <2>3. Held' = Held + 1 /\ Len(backlog') = Len(backlog) - 1 /\ arrived' = arrived
    BY <1>3, <1>4, <1>10
  <2>4. (Held + 1) + (Len(backlog) - 1) = arrived
    BY <2>1, <2>2
  <2> QED
    BY <2>3, <2>4 DEF HeldCounted
<1>12. HeldLimited'
  BY <1>1, <1>10, HeldTypes DEF HeldLimited
<1> QED
  BY <1>9, <1>11, <1>12

\* addcon: a pending connection becomes an attached one.
LEMMA HeldRun ==
    ASSUME LoopInv, LineTypes, LineInv, HeldInv, RunTask
    PROVE  IsFiniteSet(lost)' /\ HeldCounted' /\ HeldLimited'
<1>1. m_tasks' = m_tasks /\ task' = NoTask /\ UNCHANGED <<backlog, lost, arrived, open>>
  BY DEF RunTask, TaskReturns, kernelVars
<1>2. CASE task \in Conns
  <2>1. attached' = Append(attached, task) /\ attached \in Seq(Conns)
    BY <1>2 DEF RunTask, LineTypes
  <2>2. Len(attached') = Len(attached) + 1
    BY <2>1
  <2>3. task \notin ToSet(m_tasks)
    BY <1>2, NotBeforeItself DEF LineInv, PartsInOrder, Ahead
  <2>4. Pending' = Pending \ {task} /\ task \in Pending
    BY <1>1, <1>2, <2>3, ConnsAreTasks DEF Pending
  <2>5. Cardinality(Pending \ {task}) = Cardinality(Pending) - 1
    BY <2>4, HeldTypes, FS_RemoveElement
  <2>6. Held' = Held
    BY <1>1, <2>2, <2>4, <2>5, HeldTypes DEF Held
  <2> QED
    BY <1>1, <2>6 DEF HeldInv, HeldCounted, HeldLimited
<1>3. CASE task \notin Conns
  <2>1. attached' = attached /\ Pending' = Pending
    BY <1>1, <1>3, ConnsAreTasks DEF RunTask, Pending
  <2> QED
    BY <1>1, <2>1, HeldSame
<1> QED
  BY <1>2, <1>3

\* The destructor leaves the backlog to the kernel.
LEMMA HeldDestroy ==
    ASSUME LoopInv, LineTypes, LineInv, HeldInv, Destroy
    PROVE  IsFiniteSet(lost)' /\ HeldCounted' /\ HeldLimited'
<1>1. /\ backlog' = <<>> /\ lost' = lost \cup ToSet(backlog) /\ open' = FALSE
      /\ UNCHANGED <<m_tasks, task, attached, arrived>>
  BY DEF Destroy, vars
<1>2. lost \cap ToSet(backlog) = {}
  <2>1. ToSet(backlog) \subseteq Conns
    <3>1. backlog \in Seq(Conns)
      BY DEF LineTypes
    <3>2. \A i \in DOMAIN backlog : backlog[i] \in Conns
      BY <3>1
    <3> QED
      BY <3>2 DEF ToSet
  <2>2. ToSet(backlog) \subseteq Way
    BY <2>1 DEF Way
  <2> QED
    BY <2>2 DEF LineInv, OnlyArrived, OnTheWayOrLost
<1>3. /\ IsFiniteSet(lost')
      /\ Cardinality(lost') = Cardinality(lost) + Len(backlog)
  <2>1. Cardinality(lost \cap ToSet(backlog)) = 0
    BY <1>2, FS_EmptySet
  <2>2. /\ IsFiniteSet(lost) /\ IsFiniteSet(ToSet(backlog))
        /\ Cardinality(lost) \in Nat /\ Cardinality(ToSet(backlog)) = Len(backlog)
        /\ Len(backlog) \in Nat
    BY HeldTypes
  <2>3. /\ IsFiniteSet(lost \cup ToSet(backlog))
        /\ Cardinality(lost \cup ToSet(backlog)) =
              Cardinality(lost) + Cardinality(ToSet(backlog))
                                - Cardinality(lost \cap ToSet(backlog))
    BY <2>2, FS_Union
  <2> QED
    BY <1>1, <2>1, <2>2, <2>3
<1>4. Len(backlog') = 0 /\ Pending' = Pending
  BY <1>1 DEF Pending
<1>5. Held' = Held + Len(backlog)
  BY <1>1, <1>3, <1>4, HeldTypes DEF Held
<1>6. HeldCounted'
  BY <1>1, <1>4, <1>5, HeldTypes DEF HeldInv, HeldCounted, Held
<1> QED
  BY <1>1, <1>3, <1>6 DEF HeldLimited

\* A connection waits in the kernel first.
LEMMA HeldConnect ==
    ASSUME LoopInv, LineTypes, LineInv, HeldInv, NEW c \in Conns, Connect(c)
    PROVE  IsFiniteSet(lost)' /\ HeldCounted' /\ HeldLimited'
<1>1. /\ backlog' = Append(backlog, c) /\ arrived' = arrived + 1
      /\ UNCHANGED <<m_tasks, task, attached, lost, open>>
  BY DEF Connect, vars, connVars
<1>2. Len(backlog') = Len(backlog) + 1
  BY <1>1 DEF LineTypes
<1>3. Held' = Held
  BY <1>1 DEF Held, Pending
<1> QED
  BY <1>1, <1>2, <1>3, HeldTypes DEF HeldInv, HeldCounted, HeldLimited, Held

\* The steps of the loop and the posts of others change nothing in what is
\* pending.
LEMMA PendingKept ==
    ASSUME LoopInv, Pass \/ \E t \in Threads : Calls(t)
    PROVE  Pending' = Pending
<1>1. m_tasks \in Seq(Tasks)
  BY DEF LoopInv, TypeOK
<1>2. ASSUME UNCHANGED <<m_tasks, task>> PROVE Pending' = Pending
  BY <1>2 DEF Pending
<1>3. CASE Pass
  <2>1. CASE Drain /\ m_tasks # <<>>
    <3>1. task = NoTask /\ task' = Head(m_tasks) /\ m_tasks' = Tail(m_tasks)
      BY <2>1 DEF Drain, At, LoopInv, TaskRuns
    <3>2. ToSet(m_tasks) = {Head(m_tasks)} \cup ToSet(Tail(m_tasks))
      BY <1>1, <2>1, ToSetHeadTail
    <3> QED
      BY <3>1, <3>2, ConnsAreTasks DEF Pending
  <2>2. CASE ~(Drain /\ m_tasks # <<>>)
    BY <1>2, <1>3, <2>2 DEF Pass, Check, HandleWakeup, Read, Drain, PassEnds
  <2> QED
    BY <2>1, <2>2
<1>4. ASSUME NEW t \in Threads, Exit(t) \/ Wakeup(t) PROVE Pending' = Pending
  BY <1>2, <1>4 DEF Exit, Wakeup
<1>5. ASSUME NEW t \in Threads, NEW v \in Tasks \ Conns, SafeCall(t, v)
      PROVE  Pending' = Pending
  <2>1. (m_tasks' = Append(m_tasks, v) \/ m_tasks' = m_tasks) /\ task' = task
    BY <1>5 DEF SafeCall
  <2>2. ToSet(Append(m_tasks, v)) = ToSet(m_tasks) \cup {v}
    BY <1>1, ToSetAppend
  <2>3. CASE m_tasks' = Append(m_tasks, v)
    <3>1. ToSet(m_tasks') = ToSet(m_tasks) \cup {v} /\ v \notin Conns
      BY <2>2, <2>3
    <3> QED
      BY <2>1, <3>1 DEF Pending
  <2>4. CASE m_tasks' = m_tasks
    BY <1>2, <2>1, <2>4
  <2> QED
    BY <2>1, <2>3, <2>4
<1> QED
  BY <1>3, <1>4, <1>5 DEF Calls

\* After the destructor nothing comes back, and handleAccept stays in its pass.
LEMMA QuietStep ==
    ASSUME LoopInv, LineTypes, HeldInv, [ServerNext]_allVars
    PROVE  DestroyedQuiet' /\ AcceptingInPass'
<1>0. DestroyedQuiet /\ AcceptingInPass /\ [Next]_vars
  BY ServerStepIsLoopStep DEF HeldInv
<1>1. CASE HandleAccept \/ AcceptEnds
  BY <1>0, <1>1 DEF HandleAccept, AcceptEnds, At, vars, kernelVars, DestroyedQuiet,
     AcceptingInPass, Pending
<1>2. CASE Accept
  <2>1. open /\ accepting /\ lpc' = lpc /\ UNCHANGED <<open, ready, accepting>>
    BY <1>0, <1>2 DEF Accept, SafeCall, vars, DestroyedQuiet
  <2> QED
    BY <1>0, <2>1 DEF DestroyedQuiet, AcceptingInPass
<1>3. CASE ServerPoll
  <2>1. lpc = "poll" /\ UNCHANGED <<m_tasks, task>> /\ ready' = (open /\ backlog # <<>>)
        /\ UNCHANGED <<backlog, open, accepting>>
    BY <1>3 DEF ServerPoll, Poll, At, kernelVars
  <2>2. ~accepting
    BY <1>0, <2>1 DEF AcceptingInPass
  <2> QED
    BY <1>0, <2>1, <2>2 DEF DestroyedQuiet, AcceptingInPass, Pending
<1>4. CASE RunTask
  <2>1. lpc = "task" /\ m_tasks' = m_tasks /\ task' = NoTask
        /\ UNCHANGED <<backlog, open, ready, accepting>>
    BY <1>4 DEF RunTask, TaskReturns, At, kernelVars
  <2>2. Pending' \subseteq Pending
    BY <2>1, ConnsAreTasks DEF Pending
  <2> QED
    BY <1>0, <2>1, <2>2 DEF DestroyedQuiet, AcceptingInPass
<1>5. CASE Pass /\ ~accepting /\ UNCHANGED serverVars
  <2>1. Pending' = Pending
    BY <1>5, PendingKept
  <2> QED
    BY <1>0, <1>5, <2>1 DEF serverVars, kernelVars, DestroyedQuiet, AcceptingInPass
<1>6. ASSUME NEW t \in Threads, Calls(t) PROVE DestroyedQuiet' /\ AcceptingInPass'
  <2>1. lpc' = lpc /\ UNCHANGED <<backlog, open, ready, accepting>>
    BY <1>6 DEF Calls, Exit, SafeCall, Wakeup, serverVars, kernelVars
  <2>2. Pending' = Pending
    BY <1>6, PendingKept
  <2> QED
    BY <1>0, <2>1, <2>2 DEF DestroyedQuiet, AcceptingInPass
<1>7. CASE \E cb \in {NoCallback, calls + 1} : OnConnRead(cb)
  BY <1>0, <1>7 DEF OnConnRead, vars, kernelVars, DestroyedQuiet, AcceptingInPass, Pending
<1>8. CASE Destroy
  <2>1. /\ open' = FALSE /\ ready' = FALSE /\ backlog' = <<>> /\ Pending = {}
        /\ accepting' = accepting /\ UNCHANGED <<m_tasks, task, lpc>>
        /\ UserCode \/ lpc = "returned"
    BY <1>8 DEF Destroy, vars
  <2>2. ~accepting
    BY <1>0, <2>1 DEF UserCode, AcceptingInPass
  <2> QED
    BY <2>1, <2>2 DEF DestroyedQuiet, AcceptingInPass, Pending
<1>9. ASSUME NEW c \in Conns, Connect(c) \/ Reset(c) PROVE DestroyedQuiet' /\ AcceptingInPass'
  BY <1>0, <1>9 DEF Connect, Reset, vars, DestroyedQuiet, AcceptingInPass, Pending
<1>10. CASE UNCHANGED allVars
  BY <1>0, <1>10 DEF allVars, vars, serverVars, kernelVars, DestroyedQuiet, AcceptingInPass,
     Pending
<1> QED
  BY <1>1, <1>2, <1>3, <1>4, <1>5, <1>6, <1>7, <1>8, <1>9, <1>10 DEF ServerNext, ServerStep

\* Every step keeps the account of the descriptors.
LEMMA HeldStep == ServerLoopInv /\ LineInv /\ HeldInv /\ [ServerNext]_allVars => HeldInv'
<1> DEFINE Goal == IsFiniteSet(lost)' /\ HeldCounted' /\ HeldLimited'
<1> SUFFICES ASSUME LoopInv, LineTypes, LineInv, HeldInv, [ServerNext]_allVars PROVE Goal
  BY QuietStep DEF ServerLoopInv, HeldInv
<1>1. CASE Accept
  BY <1>1, HeldAccept
<1>2. CASE RunTask
  BY <1>2, HeldRun
<1>3. CASE Destroy
  BY <1>3, HeldDestroy
<1>4. ASSUME NEW c \in Conns, Connect(c) PROVE Goal
  BY <1>4, HeldConnect
<1>5. CASE \/ HandleAccept \/ AcceptEnds \/ ServerPoll \/ UNCHANGED allVars
           \/ \E cb \in {NoCallback, calls + 1} : OnConnRead(cb)
           \/ \E c \in Conns : Reset(c)
  <2>1. UNCHANGED <<m_tasks, task, attached, backlog, lost, arrived, open>>
    BY <1>5 DEF HandleAccept, AcceptEnds, ServerPoll, Poll, OnConnRead, Reset, allVars, vars,
                serverVars, kernelVars, connVars, loopRest
  <2> QED
    BY <2>1, HeldSame DEF Pending
<1>6. CASE (Pass /\ UNCHANGED serverVars) \/ \E t \in Threads : Calls(t)
  <2>1. UNCHANGED <<attached, backlog, lost, arrived, open>>
    BY <1>6 DEF Calls, serverVars, kernelVars, connVars
  <2> QED
    BY <1>6, <2>1, PendingKept, HeldSame
<1> QED
  BY <1>1, <1>2, <1>3, <1>4, <1>5, <1>6 DEF ServerNext, ServerStep

\* Before anyone connects nothing is held.
LEMMA HeldInit == ServerInit => HeldInv
<1> SUFFICES ASSUME ServerInit PROVE HeldInv
  OBVIOUS
<1>1. /\ m_tasks = <<>> /\ backlog = <<>> /\ attached = <<>> /\ open = TRUE
      /\ task = NoTask /\ lost = {} /\ arrived = 0 /\ accepting = FALSE
  BY DEF ServerInit, Init
<1>2. Pending = {}
  BY <1>1, ToSetEmpty, ConnsAreTasks DEF Pending
<1>3. Cardinality(Pending) = 0 /\ Cardinality(lost) = 0 /\ IsFiniteSet(lost)
  BY <1>1, <1>2, FS_EmptySet
<1>4. Len(attached) = 0 /\ Len(backlog) = 0
  BY <1>1
<1>5. Held = 0 /\ 0 <= FdLimit
  BY <1>3, <1>4, ServerAssumption DEF ServerAssumption, Held
<1> QED
  BY <1>1, <1>3, <1>4, <1>5 DEF HeldInv, HeldCounted, HeldLimited, DestroyedQuiet,
     AcceptingInPass

\* The account of the descriptors holds in every behaviour.
LEMMA HeldAlways == ServerSpec => []HeldInv
BY ServerLoopInit, ServerLoopStep, LineInit, LineStep, HeldInit, HeldStep, PTL
   DEF ServerSpec, ServerSafeSpec, allVars

\* Every connection that has arrived waits in the kernel, or holds a descriptor
\* (its task is queued, it is attached, or it was forgotten), or was the kernel's
\* when the server ended; none is counted twice, and a running server never has
\* more descriptors than the limit.
THEOREM DescriptorsCounted ==
    ServerSpec => [](HeldCounted /\ HeldLimited)
<1>1. HeldInv => HeldCounted /\ HeldLimited
  BY DEF HeldInv
<1> QED
  BY <1>1, HeldAlways, PTL

\* A server destroyed while none of its tasks is queued is never called again:
\* its channel has left the batch of events that is being handled.
THEOREM DestroyedStaysQuiet == ServerSpec => []DestroyedQuiet
<1>1. HeldInv => DestroyedQuiet
  BY DEF HeldInv
<1> QED
  BY <1>1, HeldAlways, PTL

-----------------------------------------------------------------------------
(* Types of the server *)

\* Strengthening: only waiting connections are reset before they are accepted.
GoneWait == gone \subseteq ToSet(backlog)

SwitchTypes == {open, ready, accepting} \subseteq BOOLEAN

\* accept takes the connection out of both, and Destroy empties both.
LEMMA GoneStep == LineTypes /\ GoneWait /\ [ServerNext]_allVars => GoneWait'
<1> SUFFICES ASSUME LineTypes, GoneWait, [ServerNext]_allVars PROVE GoneWait'
  OBVIOUS
<1> USE DEF GoneWait
<1>0. backlog \in Seq(Conns)
  BY DEF LineTypes
<1>1. CASE Accept
  <2>1. backlog # <<>> /\ backlog' = Tail(backlog) /\ gone' = gone \ {Head(backlog)}
    BY <1>1 DEF Accept, CanAccept
  <2>2. ToSet(backlog) = {Head(backlog)} \cup ToSet(Tail(backlog))
    BY <1>0, <2>1, ToSetHeadTail
  <2> QED
    BY <2>1, <2>2
<1>2. CASE Destroy
  BY <1>2 DEF Destroy
<1>3. ASSUME NEW c \in Conns, Connect(c) PROVE GoneWait'
  <2>1. backlog' = Append(backlog, c) /\ gone' = gone
    BY <1>3 DEF Connect
  <2>2. ToSet(backlog') = ToSet(backlog) \cup {c}
    BY <1>0, <2>1, ToSetAppend
  <2> QED
    BY <2>1, <2>2
<1>4. ASSUME NEW c \in Conns, Reset(c) PROVE GoneWait'
  BY <1>4 DEF Reset
<1>5. CASE UNCHANGED <<backlog, gone>>
  BY <1>5
<1> QED
  BY <1>1, <1>2, <1>3, <1>4, <1>5 DEF ServerNext, ServerStep, HandleAccept, AcceptEnds, ServerPoll,
     RunTask, Calls, OnConnRead, allVars, serverVars, kernelVars, connVars

\* The switches are thrown to TRUE or FALSE.
LEMMA SwitchStep == SwitchTypes /\ [ServerNext]_allVars => SwitchTypes'
<1> SUFFICES ASSUME SwitchTypes, [ServerNext]_allVars PROVE SwitchTypes'
  OBVIOUS
<1>1. /\ open' = open \/ open' = FALSE
      /\ ready' = ready \/ ready' = FALSE \/ ready' = (open /\ backlog # <<>>)
      /\ accepting' = accepting \/ accepting' = TRUE \/ accepting' = FALSE
  BY DEF ServerNext, ServerStep, HandleAccept, Accept, AcceptEnds, ServerPoll, RunTask, Calls,
     OnConnRead, Destroy, Connect, Reset, allVars, serverVars, kernelVars, connVars
<1>2. (open /\ backlog # <<>>) \in BOOLEAN
  BY Zenon
<1> QED
  BY <1>1, <1>2, Zenon DEF SwitchTypes

\* The loop's state has the types of TypeOK: the pipe never holds more bytes
\* than it takes, and a thread writes at most one.
THEOREM LoopTypeCorrect == Spec => []TypeOK
<1>1. LoopInv => TypeOK
  BY DEF LoopInv
<1> QED
  BY <1>1, LoopInvInit, LoopInvStep, PTL DEF Spec, SafeSpec

\* The server's state has the types of ServerTypeOK; only connections that
\* wait are ever known to be reset, and only attached ones have the callback.
THEOREM ServerTypeCorrect == ServerSpec => [](TypeOK /\ ServerTypeOK)
<1>1. ServerInit => GoneWait /\ SwitchTypes
  <2> SUFFICES ASSUME ServerInit PROVE GoneWait /\ SwitchTypes
    OBVIOUS
  <2>1. GoneWait
    BY DEF ServerInit, GoneWait
  <2>2. SwitchTypes
    BY Zenon DEF ServerInit, SwitchTypes
  <2> QED
    BY <2>1, <2>2
<1>2. ServerLoopInv /\ LineInv /\ GoneWait /\ SwitchTypes /\ CallInv /\ [ServerNext]_allVars
      => GoneWait' /\ SwitchTypes' /\ CallInv'
  BY GoneStep, SwitchStep, CallStep DEF ServerLoopInv
<1>3. ServerLoopInv /\ GoneWait /\ SwitchTypes /\ CallInv => TypeOK /\ ServerTypeOK
  <2> SUFFICES ASSUME ServerLoopInv, GoneWait, SwitchTypes, CallInv PROVE TypeOK /\ ServerTypeOK
    OBVIOUS
  <2>1. TypeOK
    BY DEF ServerLoopInv, LoopInv
  <2>2. readcb_ \in 0..calls
    BY DEF CallInv, CallTypes, Newest, NoCallback
  <2>3. ServerTypeOK
    BY <2>2, Zenon
       DEF ServerLoopInv, LineTypes, GoneWait, SwitchTypes, CallInv, CallTypes, ServerTypeOK
  <2> QED
    BY <2>1, <2>3
<1> QED
  BY <1>1, <1>2, <1>3, CallInit, ServerLoopInit, ServerLoopStep, LineInit, LineStep, PTL
     DEF ServerSpec, ServerSafeSpec, allVars
=============================================================================
