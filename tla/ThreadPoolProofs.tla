-------------------------- MODULE ThreadPoolProofs --------------------------
(***************************************************************************)
(* Proofs about ThreadPool, for any number of workers, any tasks and any   *)
(* capacity.  What SafeQueueProofs shows of the queue's steps is used for  *)
(* the steps that the pool makes of them.                                  *)
(***************************************************************************)
EXTENDS ThreadPool, TLAPS

QP == INSTANCE SafeQueueProofs WITH Threads <- Users, WaitModes <- {"infinite"}

-----------------------------------------------------------------------------
(* The queue inside the pool *)

\* The constants of the pool are proper constants of its queue.
LEMMA QueueAssumption ==
    /\ QP!IsFiniteSet(Users)
    /\ NoThread \notin Users /\ NoTask \notin Tasks
    /\ Capacity \in Nat /\ MaxSpurious \in Nat
<1>1. PICK s \in Seq(Workers) : \A w \in Workers : \E n \in 1..Len(s) : s[n] = w
  BY PoolAssumption DEF PoolAssumption, IsFiniteSet
<1> DEFINE users == Append(s, Owner)
<1>2. users \in Seq(Users) /\ Len(users) = Len(s) + 1 /\ Len(s) \in Nat
  BY DEF Users
<1>3. \A u \in Users : \E n \in 1..Len(users) : users[n] = u
  <2>1. users[Len(s) + 1] = Owner /\ \A n \in 1..Len(s) : users[n] = s[n]
    OBVIOUS
  <2>2. \A w \in Workers : \E n \in 1..Len(users) : users[n] = w
    BY <1>1, <1>2, <2>1
  <2> QED
    BY <1>2, <2>1, <2>2 DEF Users
<1> HIDE DEF users
<1>4. QP!IsFiniteSet(Users)
  BY <1>2, <1>3 DEF QP!IsFiniteSet
<1> QED
  BY <1>4, PoolAssumption DEF PoolAssumption, Users

\* Every step of the pool is a step of its queue, or none of it.
LEMMA PoolStepIsQueueStep == [Next]_vars => [QP!Next]_QP!vars
<1> DEFINE Goal == [QP!Next]_QP!vars
<1> SUFFICES ASSUME [Next]_vars PROVE Goal
  OBVIOUS
<1> USE DEF Users
<1>1. CASE OwnerStep
  BY <1>1 DEF OwnerStep, StartCall, StartReturns, JoinCall, JoinReturns, Destroy, queueVars, QP!vars
<1>2. ASSUME NEW w \in Workers, Spawn(w) \/ TaskReturns(w) PROVE Goal
  BY <1>2 DEF Spawn, TaskReturns, queueVars, QP!vars
<1>3. ASSUME NEW w \in Workers, Loop(w) PROVE Goal
  BY <1>3 DEF Loop, queueVars, QP!vars, Q!PopCall, QP!PopCall, QP!Next
<1>4. ASSUME NEW w \in Workers, Wait(w) PROVE Goal
  <2>1. QP!Acquire(w) \/ QP!Block(w) \/ QP!Resume(w)
    BY <1>4 DEF Wait, Q!Acquire, Q!Block, Q!Resume, Q!Ready, Q!KeepWaiting,
                QP!Acquire, QP!Block, QP!Resume, QP!Ready, QP!KeepWaiting
  <2> QED
    BY <2>1 DEF QP!Next
<1>5. ASSUME NEW w \in Workers, Pop(w) PROVE Goal
  BY <1>5 DEF Pop, Q!Take, QP!Take, QP!Next
<1>6. ASSUME NEW w \in Workers, Spurious(w) PROVE Goal
  BY <1>6 DEF Spurious, Q!SpuriousWakeup, QP!SpuriousWakeup, QP!Next
<1>7. ASSUME NEW t \in Users, NEW v \in Tasks, AddTask(t, v) PROVE Goal
  <2>1. QP!Push(t, v)
    BY <1>7 DEF AddTask, Q!Push, QP!Push, Q!Accepts, QP!Accepts, Q!NotifyOne, QP!NotifyOne
  <2> QED
    BY <2>1 DEF QP!Next
<1>8. ASSUME NEW t \in Users, Exit(t) \/ ExitReturns(t) PROVE Goal
  BY <1>8 DEF Exit, ExitReturns, Q!ExitStore, QP!ExitStore, Q!ExitNotify, QP!ExitNotify, QP!Next
<1>9. CASE UNCHANGED vars
  BY <1>9 DEF vars, queueVars, QP!vars
<1> QED
  BY <1>1, <1>2, <1>3, <1>4, <1>5, <1>6, <1>7, <1>8, <1>9 DEF Next

\* What SafeQueueProofs knows of the queue holds in the pool, and stays so.
QueueInv == QP!IInv

\* The pool starts with the invariant of its queue.
LEMMA QueueInit == Init => QueueInv
<1>1. Init => QP!Init
  BY DEF Init, Q!Init, QP!Init
<1>2. QP!Init => QP!IInv
  BY QueueAssumption, QP!IInvInit
<1> QED
  BY <1>1, <1>2 DEF QueueInv

\* Every step of the pool keeps the invariant of its queue.
LEMMA QueueStep == QueueInv /\ [Next]_vars => QueueInv'
<1>1. QP!IInv /\ [QP!Next]_QP!vars => QP!IInv'
  BY QueueAssumption, QP!IInvStep
<1> QED
  BY <1>1, PoolStepIsQueueStep DEF QueueInv

-----------------------------------------------------------------------------
(* The threads of the pool *)

\* What the pool adds to the queue has its type.
PoolTypes ==
    /\ stage \in [Workers -> Stages]
    /\ owner \in OwnerStates

\* Strengthening: a worker is inside the queue exactly when its lambda is in
\* pop_wait, or in the exit() that its task has called; the owner never pops.
PcOfStage ==
    /\ \A w \in Workers :
           /\ stage[w] \in {"none", "while", "done"} => pc[w] = "out"
           /\ stage[w] = "pop" => pc[w] \in {"acquire", "block", "sleep", "take"}
           /\ stage[w] = "run" => pc[w] \in {"out", "notify"}
    /\ pc[Owner] \in {"out", "notify"}

\* Strengthening: a worker ends only after exit(), and join() waits for all.
EndOfWorkers ==
    /\ \A w \in Workers : stage[w] = "done" => m_exit
    /\ owner \in {"joined", "gone"} => \A w \in Workers : stage[w] = "done"

\* What is inductive together about the threads.
PoolInv == QueueInv /\ PoolTypes /\ PcOfStage /\ EndOfWorkers

\* The fresh pool has no thread yet.
LEMMA PoolInit == Init => PoolInv
BY QueueInit DEF Init, Q!Init, PoolInv, PoolTypes, PcOfStage, EndOfWorkers, Stages, OwnerStates, Users

\* Every step keeps the threads where PoolInv has them.
LEMMA PoolStep == PoolInv /\ [Next]_vars => PoolInv'
<1> DEFINE Goal == PoolTypes' /\ PcOfStage' /\ EndOfWorkers'
<1> SUFFICES ASSUME PoolInv, [Next]_vars PROVE Goal
  BY QueueStep DEF PoolInv
<1> USE PoolAssumption DEF PoolAssumption, PoolInv, PoolTypes, PcOfStage, EndOfWorkers, Stages,
        OwnerStates, Users, queueVars
<1>0. pc \in [Users -> QP!PcStates]
  BY DEF QueueInv, QP!IInv, QP!TypeOK
<1>1. CASE OwnerStep
  BY <1>1 DEF OwnerStep, StartCall, StartReturns, JoinCall, JoinReturns, Destroy
<1>2. ASSUME NEW w \in Workers, Spawn(w) PROVE Goal
  BY <1>2 DEF Spawn
<1>3. ASSUME NEW w \in Workers, Loop(w) PROVE Goal
  BY <1>0, <1>3 DEF Loop, Q!PopCall
<1>4. ASSUME NEW w \in Workers, Wait(w) PROVE Goal
  <2>1. pc[w] \in {"acquire", "block", "sleep"} /\ UNCHANGED <<stage, owner, m_exit>>
    BY <1>4 DEF Wait, Q!Acquire, Q!Block, Q!Resume
  <2>2. \E p \in {"block", "sleep", "take"} : pc' = [pc EXCEPT ![w] = p]
    BY <1>4 DEF Wait, Q!Acquire, Q!Block, Q!Resume
  <2> QED
    BY <1>0, <2>1, <2>2
<1>5. ASSUME NEW w \in Workers, Pop(w) PROVE Goal
  BY <1>0, <1>5 DEF Pop, Q!Take
<1>6. ASSUME NEW w \in Workers, TaskReturns(w) PROVE Goal
  BY <1>6 DEF TaskReturns
<1>7. ASSUME NEW w \in Workers, Spurious(w) PROVE Goal
  BY <1>7 DEF Spurious, Q!SpuriousWakeup
<1>8. ASSUME NEW t \in Users, NEW v \in Tasks, AddTask(t, v) PROVE Goal
  BY <1>8 DEF AddTask, Q!Push
<1>9. ASSUME NEW t \in Users, Exit(t) PROVE Goal
  BY <1>0, <1>9 DEF Exit, CanCall, Q!ExitStore
<1>10. ASSUME NEW t \in Users, ExitReturns(t) PROVE Goal
  BY <1>0, <1>10 DEF ExitReturns, Q!ExitNotify
<1>11. CASE UNCHANGED vars
  BY <1>11 DEF vars
<1> QED
  BY <1>1, <1>2, <1>3, <1>4, <1>5, <1>6, <1>7, <1>8, <1>9, <1>10, <1>11 DEF Next

\* When join() has returned nobody is left inside the queue, so destroying
\* the pool is safe, and exit() has been called, as the destructor asserts.
THEOREM JoinedQuiet == Spec => []JoinedMeansQuiet
<1>1. PoolInv => JoinedMeansQuiet
  <2> SUFFICES ASSUME PoolInv, owner \in {"joined", "gone"}
               PROVE  /\ m_exit /\ m_ready = {}
                      /\ \A w \in Workers : pc[w] = "out" /\ mutex # w
    BY DEF JoinedMeansQuiet
  <2>1. \A w \in Workers : stage[w] = "done" /\ pc[w] = "out"
    BY DEF PoolInv, EndOfWorkers, PcOfStage
  <2>2. m_exit
    BY <2>1, PoolAssumption DEF PoolAssumption, PoolInv, EndOfWorkers
  <2>3. /\ \A t \in Users : pc[t] \in {"block", "take"} <=> mutex = t
        /\ \A t \in m_ready : pc[t] = "sleep"
        /\ m_ready \subseteq Users
    BY DEF PoolInv, QueueInv, QP!IInv, QP!MutexInv, QP!TypeOK
  <2> QED
    BY <2>1, <2>2, <2>3 DEF Users, PoolInv, PcOfStage
<1> QED
  BY <1>1, PoolInit, PoolStep, PTL DEF Spec, SafeSpec

-----------------------------------------------------------------------------
(* The pool implements Executor *)

\* Strengthening: a worker that runs has a task.
RunsATask == \A w \in Workers : stage[w] = "run" => got[w] \in Tasks

\* Strengthening: a worker that has popped a task after exit() does not come
\* back into the queue.
LastOnes == \A w \in last : w \in Workers /\ m_exit /\ stage[w] \in {"run", "while", "done"}

ExecInv == PoolInv /\ RunsATask /\ LastOnes

\* What the queue's TypeOK says of the variables that the tasks pass through.
LEMMA QueueTypes ==
    ASSUME PoolInv
    PROVE  /\ m_items \in Seq(Tasks)
           /\ pc \in [Users -> QP!PcStates]
           /\ got \in [Users -> Tasks \cup {NoTask}]
           /\ stage \in [Workers -> Stages]
BY DEF PoolInv, QueueInv, QP!IInv, QP!TypeOK, PoolTypes

\* At first nothing has been run and no worker is at it.
LEMMA ExecInit == Init => ExecInv
BY PoolInit DEF Init, Q!Init, ExecInv, RunsATask, LastOnes

\* Every step keeps what the refinement needs.
LEMMA ExecStep == ExecInv /\ [Next]_vars => ExecInv'
<1> DEFINE Goal == RunsATask' /\ LastOnes'
<1> SUFFICES ASSUME ExecInv, [Next]_vars PROVE Goal
  BY PoolStep DEF ExecInv
<1>0. PoolInv
  BY DEF ExecInv
<1> USE QueueTypes DEF ExecInv, RunsATask, LastOnes, Stages, Users, queueVars
<1>1. CASE OwnerStep
  BY <1>1 DEF OwnerStep, StartCall, StartReturns, JoinCall, JoinReturns, Destroy
<1>2. ASSUME NEW w \in Workers, Spawn(w) PROVE Goal
  BY <1>0, <1>2 DEF Spawn
<1>3. ASSUME NEW w \in Workers, Loop(w) PROVE Goal
  BY <1>0, <1>3 DEF Loop, Q!PopCall
<1>4. ASSUME NEW w \in Workers, Wait(w) PROVE Goal
  BY <1>4 DEF Wait, Q!Acquire, Q!Block, Q!Resume
<1>5. ASSUME NEW w \in Workers, Pop(w) PROVE Goal
  <2>1. CASE m_items = <<>>
    BY <1>0, <1>5, <2>1 DEF Pop, Q!Take
  <2>2. CASE m_items # <<>>
    <3>1. Head(m_items) \in Tasks
      BY <1>0, <2>2
    <3> QED
      BY <1>0, <1>5, <2>2, <3>1 DEF Pop, Q!Take
  <2> QED
    BY <2>1, <2>2
<1>6. ASSUME NEW w \in Workers, TaskReturns(w) PROVE Goal
  BY <1>0, <1>6 DEF TaskReturns
<1>7. ASSUME NEW w \in Workers, Spurious(w) PROVE Goal
  BY <1>7 DEF Spurious, Q!SpuriousWakeup
<1>8. ASSUME NEW t \in Users, NEW v \in Tasks, AddTask(t, v) PROVE Goal
  BY <1>8 DEF AddTask, Q!Push
<1>9. ASSUME NEW t \in Users, Exit(t) PROVE Goal
  BY <1>9 DEF Exit, Q!ExitStore
<1>10. ASSUME NEW t \in Users, ExitReturns(t) PROVE Goal
  BY <1>10 DEF ExitReturns, Q!ExitNotify
<1>11. CASE UNCHANGED vars
  BY <1>11 DEF vars
<1> QED
  BY <1>1, <1>2, <1>3, <1>4, <1>5, <1>6, <1>7, <1>8, <1>9, <1>10, <1>11 DEF Next

\* The end of pop_wait with a task is Begin: the worker is idle, has not taken
\* a task after exit(), and gets the first one.
LEMMA PopIsBegin ==
    ASSUME ExecInv, NEW w \in Workers, Pop(w), m_items # <<>>
    PROVE  E!Begin(w)
<1>0. PoolInv
  BY DEF ExecInv
<1>1. stage[w] = "pop"
  <2>1. pc[w] = "take" /\ stage[w] \in Stages
    BY <1>0, QueueTypes DEF Pop, Q!Take
  <2> QED
    BY <1>0, <2>1 DEF PoolInv, PcOfStage, Stages
<1>2. Running[w] = NoTask /\ w \notin last
  BY <1>1 DEF Running, ExecInv, LastOnes
<1>3. Running' = [Running EXCEPT ![w] = Head(m_items)]
  BY <1>0, QueueTypes DEF Pop, Q!Take, Running, Users
<1> QED
  BY <1>2, <1>3 DEF Pop, Q!Take, E!Begin

\* The end of a task is Finish.
LEMMA ReturnIsFinish ==
    ASSUME ExecInv, NEW w \in Workers, TaskReturns(w)
    PROVE  E!Finish(w)
<1>0. PoolInv
  BY DEF ExecInv
<1>1. Running[w] = got[w] /\ got[w] # NoTask
  BY PoolAssumption DEF PoolAssumption, TaskReturns, Running, ExecInv, RunsATask
<1>2. Running' = [Running EXCEPT ![w] = NoTask]
  BY <1>0, QueueTypes DEF TaskReturns, Running, queueVars
<1> QED
  BY <1>1, <1>2 DEF TaskReturns, E!Finish, queueVars

\* The steps that leave the executor alone.
LEMMA RunningKept ==
    ASSUME PoolInv, NEW w \in Workers, got' = got,
           NEW s, stage' = [stage EXCEPT ![w] = s], stage[w] # "run", s # "run"
    PROVE  Running' = Running
BY QueueTypes DEF Running

\* Every step of the pool is a step of the executor, or changes nothing of it.
LEMMA ExecutorStep == ExecInv /\ [Next]_vars => [E!Next]_E!execVars
<1> DEFINE Goal == [E!Next]_E!execVars
<1> SUFFICES ASSUME ExecInv, [Next]_vars PROVE Goal
  OBVIOUS
<1>0. PoolInv
  BY DEF ExecInv
<1> USE DEF queueVars
<1>1. CASE OwnerStep
  BY <1>1 DEF OwnerStep, StartCall, StartReturns, JoinCall, JoinReturns, Destroy, Running, E!execVars
<1>2. ASSUME NEW w \in Workers, Spawn(w) PROVE Goal
  <2>1. Running' = Running
    BY <1>0, <1>2, RunningKept DEF Spawn
  <2> QED
    BY <1>2, <2>1 DEF Spawn, E!execVars
<1>3. ASSUME NEW w \in Workers, Loop(w) PROVE Goal
  <2>1. got' = got
    BY <1>3 DEF Loop, Q!PopCall
  <2>2. Running' = Running
    BY <1>0, <1>3, <2>1, RunningKept DEF Loop
  <2> QED
    BY <1>3, <2>2 DEF Loop, Q!PopCall, E!execVars
<1>4. ASSUME NEW w \in Workers, Wait(w) PROVE Goal
  BY <1>4 DEF Wait, Q!Acquire, Q!Block, Q!Resume, Running, E!execVars
<1>5. ASSUME NEW w \in Workers, Pop(w) PROVE Goal
  <2>1. CASE m_items = <<>>
    <3>1. pc[w] = "take" /\ stage[w] # "run"
      BY <1>0, <1>5 DEF Pop, Q!Take, PoolInv, PcOfStage
    <3>2. Running' = Running
      BY <1>0, <1>5, <2>1, <3>1, QueueTypes DEF Pop, Q!Take, Running, Users
    <3> QED
      BY <1>5, <2>1, <3>2 DEF Pop, Q!Take, E!execVars
  <2>2. CASE m_items # <<>>
    BY <1>5, <2>2, PopIsBegin DEF E!Next
  <2> QED
    BY <2>1, <2>2
<1>6. ASSUME NEW w \in Workers, TaskReturns(w) PROVE Goal
  BY <1>6, ReturnIsFinish DEF E!Next
<1>7. ASSUME NEW w \in Workers, Spurious(w) PROVE Goal
  BY <1>7 DEF Spurious, Q!SpuriousWakeup, Running, E!execVars
<1>8. ASSUME NEW t \in Users, NEW v \in Tasks, AddTask(t, v) PROVE Goal
  <2>1. Running' = Running
    BY <1>8 DEF AddTask, Q!Push, Running
  <2>2. E!Submit(v)
    BY <1>8, <2>1 DEF AddTask, Q!Push, Q!Accepts, E!Submit
  <2> QED
    BY <2>2 DEF E!Next
<1>9. ASSUME NEW t \in Users, Exit(t) PROVE Goal
  <2>1. E!Close
    BY <1>9 DEF Exit, Q!ExitStore, Running, E!Close
  <2> QED
    BY <2>1 DEF E!Next
<1>10. ASSUME NEW t \in Users, ExitReturns(t) PROVE Goal
  BY <1>10 DEF ExitReturns, Q!ExitNotify, Running, E!execVars
<1>11. CASE UNCHANGED vars
  BY <1>11 DEF vars, Running, E!execVars
<1> QED
  BY <1>1, <1>2, <1>3, <1>4, <1>5, <1>6, <1>7, <1>8, <1>9, <1>10, <1>11 DEF Next

\* The fresh pool is a fresh executor.
LEMMA ExecutorInit == Init => E!Init
BY DEF Init, Q!Init, Running, E!Init

\* Workers that share nothing but the queue make an executor: tasks start in
\* order of acceptance, and after exit() each worker starts at most one more.
THEOREM PoolIsExecutor == Spec => ImplementsExecutor
BY ExecutorInit, ExecutorStep, ExecInit, ExecStep, PTL
   DEF Spec, SafeSpec, ImplementsExecutor, E!Spec

-----------------------------------------------------------------------------
(* A task is in one place *)

\* Strengthening: whatever is queued, being run or finished was added.
OnlyIssued ==
    /\ \A i \in DOMAIN m_items : m_items[i] \in issued
    /\ \A w \in Workers : stage[w] = "run" => got[w] \in issued
    /\ finished \subseteq issued

PlaceInv == ExecInv /\ OnlyIssued /\ TaskInOnePlace

\* At first no task is anywhere.
LEMMA PlaceInit == Init => PlaceInv
BY ExecInit DEF Init, Q!Init, PlaceInv, OnlyIssued, TaskInOnePlace

\* A step that moves no task moves none out of its place.
LEMMA PlaceSame ==
    ASSUME PlaceInv, UNCHANGED <<m_items, got, finished, issued>>,
           \A w \in Workers : stage'[w] = "run" <=> stage[w] = "run"
    PROVE  OnlyIssued' /\ TaskInOnePlace'
BY DEF PlaceInv, OnlyIssued, TaskInOnePlace, Running

\* addTask queues what was never added before.
LEMMA PlacePush ==
    ASSUME PlaceInv, NEW t \in Users, NEW v \in Tasks, AddTask(t, v)
    PROVE  OnlyIssued' /\ TaskInOnePlace'
<1>0. PoolInv /\ m_items \in Seq(Tasks)
  BY QueueTypes DEF PlaceInv, ExecInv
<1>1. /\ v \notin issued /\ issued' = issued \cup {v}
      /\ m_items' = Append(m_items, v) \/ m_items' = m_items
      /\ UNCHANGED <<got, stage, finished>>
  BY DEF AddTask, Q!Push
<1>2. CASE m_items' = m_items
  BY <1>1, <1>2 DEF PlaceInv, OnlyIssued, TaskInOnePlace, Running
<1>3. CASE m_items' = Append(m_items, v)
  <2>1. DOMAIN m_items = 1..Len(m_items) /\ Len(m_items) \in Nat
        /\ DOMAIN m_items' = 1..(Len(m_items) + 1)
    BY <1>0, <1>3
  <2>2. /\ \A i \in 1..Len(m_items) : m_items'[i] = m_items[i]
        /\ m_items'[Len(m_items) + 1] = v
    BY <1>0, <1>3
  <2>3. \A i \in DOMAIN m_items' : i \in DOMAIN m_items \/ i = Len(m_items) + 1
    BY <2>1
  <2>4. OnlyIssued'
    BY <1>1, <2>1, <2>2, <2>3 DEF PlaceInv, OnlyIssued
  <2>5. /\ v \notin finished
        /\ \A w \in Workers : stage[w] = "run" => got[w] # v
        /\ \A i \in DOMAIN m_items : m_items[i] # v
    BY <1>1 DEF PlaceInv, OnlyIssued
  <2>6. \A w \in Workers : Running[w] # v
    BY <2>5, PoolAssumption DEF PoolAssumption, Running
  <2>7. Running' = Running
    BY <1>1 DEF Running
  <2> QED
    BY <1>1, <2>1, <2>2, <2>3, <2>4, <2>5, <2>6, <2>7 DEF PlaceInv, TaskInOnePlace
<1> QED
  BY <1>1, <1>2, <1>3

\* pop_wait takes the first task out of the queue for one worker.
LEMMA PlacePop ==
    ASSUME PlaceInv, NEW w \in Workers, Pop(w), m_items # <<>>
    PROVE  OnlyIssued' /\ TaskInOnePlace'
<1>0. /\ ExecInv /\ PoolInv /\ m_items \in Seq(Tasks)
      /\ got \in [Users -> Tasks \cup {NoTask}] /\ stage \in [Workers -> Stages]
  BY QueueTypes DEF PlaceInv, ExecInv
<1>1. /\ m_items' = Tail(m_items) /\ got' = [got EXCEPT ![w] = Head(m_items)]
      /\ stage' = [stage EXCEPT ![w] = "run"] /\ UNCHANGED <<finished, issued>>
  BY DEF Pop, Q!Take
<1>2. DOMAIN m_items = 1..Len(m_items) /\ Len(m_items) \in Nat \ {0}
      /\ DOMAIN m_items' = 1..(Len(m_items) - 1)
  BY <1>0, <1>1
<1>3. Head(m_items) = m_items[1] /\ 1 \in DOMAIN m_items
  BY <1>0, <1>2
<1>4. \A i \in DOMAIN m_items' : m_items'[i] = m_items[i + 1] /\ i + 1 \in DOMAIN m_items /\ i + 1 # 1
  BY <1>0, <1>1, <1>2
<1>5. /\ got'[w] = m_items[1] /\ stage'[w] = "run"
      /\ \A u \in Workers : u # w => got'[u] = got[u] /\ stage'[u] = stage[u]
  BY <1>0, <1>1, <1>3 DEF Users
<1>6. /\ Running'[w] = m_items[1]
      /\ \A u \in Workers : u # w => Running'[u] = Running[u]
  BY <1>5 DEF Running
<1>7. OnlyIssued'
  BY <1>1, <1>3, <1>4, <1>5 DEF PlaceInv, OnlyIssued
<1>8. \A i, j \in DOMAIN m_items' : m_items'[i] = m_items'[j] => i = j
  <2> SUFFICES ASSUME NEW i \in DOMAIN m_items', NEW j \in DOMAIN m_items',
                      m_items'[i] = m_items'[j]
               PROVE  i = j
    OBVIOUS
  <2>1. i + 1 = j + 1
    BY <1>4 DEF PlaceInv, TaskInOnePlace
  <2> QED
    BY <1>2, <2>1
<1>9. \A i \in DOMAIN m_items' :
          m_items'[i] \notin finished' /\ \A u \in Workers : Running'[u] # m_items'[i]
  BY <1>1, <1>3, <1>4, <1>6 DEF PlaceInv, TaskInOnePlace
<1>10. \A x \in Workers : stage'[x] = "run" =>
           got'[x] \notin finished' /\ \A u \in Workers : Running'[u] = Running'[x] => u = x
  <2>1. \A u \in Workers : Running[u] # m_items[1]
    BY <1>3 DEF PlaceInv, TaskInOnePlace
  <2>2. m_items[1] \notin finished
    BY <1>3 DEF PlaceInv, TaskInOnePlace
  <2> QED
    BY <1>1, <1>5, <1>6, <2>1, <2>2 DEF PlaceInv, TaskInOnePlace
<1> QED
  BY <1>7, <1>8, <1>9, <1>10 DEF TaskInOnePlace

\* A task that returns is finished and nowhere else.
LEMMA PlaceReturn ==
    ASSUME PlaceInv, NEW w \in Workers, TaskReturns(w)
    PROVE  OnlyIssued' /\ TaskInOnePlace'
<1>0. /\ PoolInv /\ got[w] \in Tasks /\ stage \in [Workers -> Stages]
  BY QueueTypes DEF PlaceInv, ExecInv, RunsATask, TaskReturns
<1>1. /\ stage[w] = "run" /\ stage' = [stage EXCEPT ![w] = "while"]
      /\ finished' = finished \cup {got[w]} /\ UNCHANGED <<m_items, got, issued>>
  BY DEF TaskReturns, queueVars
<1>2. /\ Running[w] = got[w] /\ Running'[w] = NoTask
      /\ \A u \in Workers : u # w => Running'[u] = Running[u] /\ stage'[u] = stage[u]
  BY <1>0, <1>1 DEF Running
<1>3. OnlyIssued'
  BY <1>1, <1>2, <1>0 DEF PlaceInv, OnlyIssued
<1>4. \A i \in DOMAIN m_items : m_items[i] # got[w] /\ m_items[i] # NoTask
  <2>1. \A i \in DOMAIN m_items : m_items[i] \in Tasks
    BY <1>0, QueueTypes
  <2> QED
    BY <1>2, <2>1, PoolAssumption DEF PoolAssumption, PlaceInv, TaskInOnePlace
<1>5. \A u \in Workers : u # w /\ stage[u] = "run" => got[u] # got[w]
  BY <1>1, <1>2 DEF PlaceInv, TaskInOnePlace, Running
<1>6. \A u \in Workers : stage[u] = "run" => got[u] # NoTask /\ Running[u] = got[u]
  BY PoolAssumption DEF PoolAssumption, PlaceInv, ExecInv, RunsATask, Running
<1>7. \A x \in Workers : stage'[x] = "run" => x # w
  BY <1>0, <1>1
<1>8. \A i \in DOMAIN m_items' :
          m_items'[i] \notin finished' /\ \A u \in Workers : Running'[u] # m_items'[i]
  BY <1>1, <1>2, <1>4 DEF PlaceInv, TaskInOnePlace
<1>9. \A x \in Workers : stage'[x] = "run" =>
          got'[x] \notin finished' /\ \A u \in Workers : Running'[u] = Running'[x] => u = x
  BY <1>1, <1>2, <1>5, <1>6, <1>7 DEF PlaceInv, TaskInOnePlace
<1> QED
  BY <1>1, <1>3, <1>8, <1>9 DEF PlaceInv, TaskInOnePlace

\* Every step keeps each task in one place.
LEMMA PlaceStep == PlaceInv /\ [Next]_vars => PlaceInv'
<1> DEFINE Goal == OnlyIssued' /\ TaskInOnePlace'
<1> SUFFICES ASSUME PlaceInv, [Next]_vars PROVE Goal
  BY ExecStep DEF PlaceInv
<1>0. PoolInv /\ stage \in [Workers -> Stages]
  BY QueueTypes DEF PlaceInv, ExecInv
<1> USE DEF queueVars
<1>1. CASE OwnerStep
  BY <1>1, PlaceSame DEF OwnerStep, StartCall, StartReturns, JoinCall, JoinReturns, Destroy
<1>2. ASSUME NEW w \in Workers, Spawn(w) PROVE Goal
  BY <1>0, <1>2, PlaceSame DEF Spawn
<1>3. ASSUME NEW w \in Workers, Loop(w) PROVE Goal
  BY <1>0, <1>3, PlaceSame DEF Loop, Q!PopCall
<1>4. ASSUME NEW w \in Workers, Wait(w) PROVE Goal
  BY <1>4, PlaceSame DEF Wait, Q!Acquire, Q!Block, Q!Resume
<1>5. ASSUME NEW w \in Workers, Pop(w) PROVE Goal
  <2>1. CASE m_items = <<>>
    <3>1. stage[w] # "run" /\ \A u \in Workers : stage'[u] = "run" <=> stage[u] = "run"
      BY <1>0, <1>5, <2>1 DEF Pop, Q!Take, PoolInv, PcOfStage
    <3>2. /\ got' = [got EXCEPT ![w] = NoTask] /\ UNCHANGED <<m_items, finished, issued>>
          /\ got \in [Users -> Tasks \cup {NoTask}]
      BY <1>0, <1>5, <2>1, QueueTypes DEF Pop, Q!Take
    <3>3. \A u \in Workers : stage[u] = "run" => got'[u] = got[u]
      BY <3>1, <3>2 DEF Users
    <3>4. Running' = Running
      BY <3>1, <3>3 DEF Running
    <3> QED
      BY <3>1, <3>2, <3>3, <3>4 DEF PlaceInv, OnlyIssued, TaskInOnePlace
  <2>2. CASE m_items # <<>>
    BY <1>5, <2>2, PlacePop
  <2> QED
    BY <2>1, <2>2
<1>6. ASSUME NEW w \in Workers, TaskReturns(w) PROVE Goal
  BY <1>6, PlaceReturn
<1>7. ASSUME NEW w \in Workers, Spurious(w) PROVE Goal
  BY <1>7, PlaceSame DEF Spurious, Q!SpuriousWakeup
<1>8. ASSUME NEW t \in Users, NEW v \in Tasks, AddTask(t, v) PROVE Goal
  BY <1>8, PlacePush
<1>9. ASSUME NEW t \in Users, Exit(t) \/ ExitReturns(t) PROVE Goal
  BY <1>9, PlaceSame DEF Exit, ExitReturns, Q!ExitStore, Q!ExitNotify
<1>10. CASE UNCHANGED vars
  BY <1>10, PlaceSame DEF vars
<1> QED
  BY <1>1, <1>2, <1>3, <1>4, <1>5, <1>6, <1>7, <1>8, <1>9, <1>10 DEF Next

\* No task is run by two workers, run again or queued twice, although pop and
\* run are separate steps of threads that share nothing but the queue.
THEOREM TaskOnce == Spec => []TaskInOnePlace
<1>1. PlaceInv => TaskInOnePlace
  BY DEF PlaceInv
<1> QED
  BY <1>1, PlaceInit, PlaceStep, PTL DEF Spec, SafeSpec

-----------------------------------------------------------------------------
(* The types, and what join() leaves behind *)

\* What the finished tasks and the last workers are; the queue's own variables
\* have their types from SafeQueueProofs.
LEMMA PlaceTypes == PlaceInv => TypeOK
<1> SUFFICES ASSUME PlaceInv PROVE TypeOK
  OBVIOUS
<1>1. QP!TypeOK
  BY DEF PlaceInv, ExecInv, PoolInv, QueueInv, QP!IInv
<1>2. Q!TypeOK
  BY <1>1 DEF QP!TypeOK, Q!TypeOK, QP!PcStates, Q!PcStates
<1>3. stage \in [Workers -> Stages] /\ owner \in OwnerStates
  BY DEF PlaceInv, ExecInv, PoolInv, PoolTypes
<1>4. finished \subseteq Tasks
  BY <1>1 DEF PlaceInv, OnlyIssued, QP!TypeOK
<1>5. last \subseteq Workers
  BY DEF PlaceInv, ExecInv, LastOnes
<1> QED
  BY <1>2, <1>3, <1>4, <1>5 DEF TypeOK

\* The state of the pool and of its queue has the types of TypeOK; with them,
\* the pool's queue never holds more tasks than its capacity.
THEOREM PoolTypeCorrect == Spec => []TypeOK
BY PlaceInit, PlaceStep, PlaceTypes, PTL DEF Spec, SafeSpec

\* join() has returned; what was left queued is q, and what was run is S.
Joined(q, S) == owner \in {"joined", "gone"} /\ m_items = q /\ finished = S

\* When all workers have ended and exit() was called, no step takes a task from
\* the queue, adds one to it or finishes one.
LEMMA JoinedStep ==
    ASSUME NEW q, NEW S, PlaceInv, Joined(q, S), [Next]_vars
    PROVE  Joined(q, S)'
<1> USE DEF Joined, queueVars
<1>1. m_exit /\ \A w \in Workers : stage[w] = "done" /\ pc[w] = "out"
  <2>1. PcOfStage /\ EndOfWorkers
    BY DEF PlaceInv, ExecInv, PoolInv
  <2>2. \A w \in Workers : stage[w] = "done"
    BY <2>1 DEF EndOfWorkers
  <2>3. \E w \in Workers : TRUE
    BY PoolAssumption DEF PoolAssumption
  <2>4. m_exit
    BY <2>1, <2>2, <2>3 DEF EndOfWorkers
  <2> QED
    BY <2>1, <2>2, <2>4 DEF PcOfStage
<1>2. CASE OwnerStep
  BY <1>2 DEF OwnerStep, StartCall, StartReturns, JoinCall, JoinReturns, Destroy
<1>3. ASSUME NEW w \in Workers,
             Spawn(w) \/ Loop(w) \/ Wait(w) \/ Pop(w) \/ TaskReturns(w) \/ Spurious(w)
      PROVE  Joined(q, S)'
  BY <1>1, <1>3 DEF Spawn, Loop, Wait, Pop, TaskReturns, Spurious, Q!Acquire, Q!Block,
     Q!Resume, Q!Take, Q!SpuriousWakeup
<1>4. ASSUME NEW t \in Users, NEW v \in Tasks, AddTask(t, v) PROVE Joined(q, S)'
  BY <1>1, <1>4 DEF AddTask, Q!Push, Q!Accepts
<1>5. ASSUME NEW t \in Users, Exit(t) \/ ExitReturns(t) PROVE Joined(q, S)'
  BY <1>5 DEF Exit, ExitReturns, Q!ExitStore, Q!ExitNotify
<1>6. CASE UNCHANGED vars
  BY <1>6 DEF vars
<1> QED
  BY <1>2, <1>3, <1>4, <1>5, <1>6 DEF Next

\* When join() has returned, no task runs any more: none finishes later, and
\* the tasks that are then still queued are never taken, nor is one added to
\* them, although addTask may be called until the pool is destroyed.
THEOREM JoinIsFinal ==
    ASSUME NEW q, NEW S
    PROVE  Spec => [](Joined(q, S) => []Joined(q, S))
<1>1. PlaceInv /\ Joined(q, S) /\ [Next]_vars => Joined(q, S)'
  BY JoinedStep
<1>2. Spec => []PlaceInv
  BY PlaceInit, PlaceStep, PTL DEF Spec, SafeSpec
<1>3. Spec => [][Next]_vars
  BY PTL DEF Spec, SafeSpec
<1> QED
  BY <1>1, <1>2, <1>3, PTL

=============================================================================
