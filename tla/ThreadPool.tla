----------------------------- MODULE ThreadPool -----------------------------
(***************************************************************************)
(* ThreadPool of thread.h and thread.cc: worker threads that share one     *)
(* SafeQueue.  The owner constructs the pool, starts it, adds tasks, calls *)
(* exit() and join() and destroys it; a running task may itself add tasks  *)
(* and call exit().  Every access to the queue is a step of SafeQueue.     *)
(***************************************************************************)
EXTENDS Naturals, Sequences, FiniteSets

CONSTANTS
    Workers,      \* the threads of m_threads
    Owner,        \* the thread that owns the pool
    Tasks,        \* the tasks, each added at most once
    Capacity,     \* taskCapacity
    MaxSpurious,  \* bound: spurious wakeups of the queue's condition variable
    NoThread, NoTask

ASSUME PoolAssumption ==
    /\ IsFiniteSet(Workers) /\ Workers # {}
    /\ Owner \notin Workers
    /\ NoThread \notin Workers \cup {Owner}
    /\ NoTask \notin Tasks
    /\ Capacity \in Nat
    /\ MaxSpurious \in Nat

VARIABLES
    m_items, m_exit, mutex, m_ready, pc, waitMs, late, got, issued, spurious,
    stage,     \* where each worker is in the lambda that start() runs
    owner,     \* where the owner is in the life of the pool
    finished,  \* history: the tasks whose call has returned
    last       \* history: the workers that popped a task after exit()

Users == Workers \cup {Owner}

Q == INSTANCE SafeQueue WITH Threads <- Users, WaitModes <- {"infinite"}

queueVars == <<m_items, m_exit, mutex, m_ready, pc, waitMs, late, got, issued, spurious>>

vars == <<queueVars, stage, owner, finished, last>>

(* stage: "none" no thread yet; "while" tests exited(); "pop" inside       *)
(* pop_wait; "run" executes the popped task; "done" the thread has ended.  *)
Stages == {"none", "while", "pop", "run", "done"}

(* owner: "idle" constructed, not started; "start" inside start(); "up"    *)
(* start() has returned; "join" inside join(); "joined"; "gone" destroyed. *)
OwnerStates == {"idle", "start", "up", "join", "joined", "gone"}

TypeOK ==
    /\ Q!TypeOK
    /\ stage \in [Workers -> Stages]
    /\ owner \in OwnerStates
    /\ finished \subseteq Tasks
    /\ last \subseteq Workers

\* ThreadPool(threads, taskCapacity, start): start() runs at once or later.
Init ==
    /\ Q!Init
    /\ stage = [w \in Workers |-> "none"]
    /\ owner \in {"idle", "start"}
    /\ finished = {}
    /\ last = {}

-----------------------------------------------------------------------------
(* The threads that may call addTask and exit: the owner while the pool    *)
(* exists and it is not waiting in join(), and a worker inside a task.     *)

CanCall(t) ==
    \/ t = Owner /\ owner \in {"idle", "up", "joined"}
    \/ t \in Workers /\ stage[t] = "run"

AddTask(t, v) ==
    /\ CanCall(t)
    /\ Q!Push(t, v)
    /\ UNCHANGED <<stage, owner, finished, last>>

Exit(t) ==
    /\ CanCall(t)
    /\ Q!ExitStore(t)
    /\ UNCHANGED <<stage, owner, finished, last>>

ExitReturns(t) ==
    /\ Q!ExitNotify(t)
    /\ UNCHANGED <<stage, owner, finished, last>>

-----------------------------------------------------------------------------
(* The owner *)

StartCall ==
    /\ owner = "idle"
    /\ pc[Owner] = "out"
    /\ owner' = "start"
    /\ UNCHANGED <<queueVars, stage, finished, last>>

\* One round of the loop in start(): thread t(...); th.swap(t).
Spawn(w) ==
    /\ owner = "start"
    /\ stage[w] = "none"
    /\ stage' = [stage EXCEPT ![w] = "while"]
    /\ UNCHANGED <<queueVars, owner, finished, last>>

StartReturns ==
    /\ owner = "start"
    /\ \A w \in Workers : stage[w] # "none"
    /\ owner' = "up"
    /\ UNCHANGED <<queueVars, stage, finished, last>>

JoinCall ==
    /\ owner = "up"
    /\ pc[Owner] = "out"
    /\ owner' = "join"
    /\ UNCHANGED <<queueVars, stage, finished, last>>

\* Mutant: join() waits for one of the threads only.
JoinsOne ==
    /\ owner = "join"
    /\ \E w \in Workers : stage[w] = "done"
    /\ owner' = "joined"
    /\ UNCHANGED <<queueVars, stage, finished, last>>

JoinReturns ==
    /\ owner = "join"
    /\ \A w \in Workers : stage[w] = "done"
    /\ owner' = "joined"
    /\ UNCHANGED <<queueVars, stage, finished, last>>

Destroy ==
    /\ owner = "joined"
    /\ pc[Owner] = "out"
    /\ owner' = "gone"
    /\ UNCHANGED <<queueVars, stage, finished, last>>

-----------------------------------------------------------------------------
(* A worker: while(!exited()){ Task task; if(pop_wait(&task)) task(); }    *)

\* Mutant: while(true), so that a worker goes on popping after exit().
LoopForever(w) ==
    /\ stage[w] = "while"
    /\ Q!PopCall(w, "infinite")
    /\ stage' = [stage EXCEPT ![w] = "pop"]
    /\ UNCHANGED <<owner, finished, last>>

Loop(w) ==
    /\ stage[w] = "while"
    /\ \/ /\ m_exit
          /\ stage' = [stage EXCEPT ![w] = "done"]
          /\ UNCHANGED queueVars
       \/ /\ ~m_exit
          /\ Q!PopCall(w, "infinite")
          /\ stage' = [stage EXCEPT ![w] = "pop"]
    /\ UNCHANGED <<owner, finished, last>>

\* wait_ready inside pop_wait.
Wait(w) ==
    /\ Q!Acquire(w) \/ Q!Block(w) \/ Q!Resume(w)
    /\ UNCHANGED <<stage, owner, finished, last>>

Spurious(w) ==
    /\ Q!SpuriousWakeup(w)
    /\ UNCHANGED <<stage, owner, finished, last>>

\* The end of pop_wait: a task to run, or back to the loop's test.
Pop(w) ==
    /\ Q!Take(w)
    /\ IF m_items # <<>>
         THEN /\ stage' = [stage EXCEPT ![w] = "run"]
              /\ last' = IF m_exit THEN last \cup {w} ELSE last
         ELSE /\ stage' = [stage EXCEPT ![w] = "while"]
              /\ UNCHANGED last
    /\ UNCHANGED <<owner, finished>>

\* task() returns; pc says that it is not in the middle of exit().
TaskReturns(w) ==
    /\ stage[w] = "run"
    /\ pc[w] = "out"
    /\ stage' = [stage EXCEPT ![w] = "while"]
    /\ finished' = finished \cup {got[w]}
    /\ UNCHANGED <<queueVars, owner, last>>

-----------------------------------------------------------------------------

OwnerStep == StartCall \/ StartReturns \/ JoinCall \/ JoinReturns \/ Destroy

Next ==
    \/ OwnerStep
    \/ \E w \in Workers : \/ Spawn(w) \/ Loop(w) \/ Wait(w) \/ Pop(w) \/ TaskReturns(w)
                          \/ Spurious(w)
    \/ \E t \in Users : \/ \E v \in Tasks : AddTask(t, v)
                        \/ Exit(t)
                        \/ ExitReturns(t)

SafeSpec == Init /\ [][Next]_vars

\* Threads that can run do, mutexes are handed out, and every task returns
\* after finitely many calls (strong fairness: a task may call exit() again
\* and again, but not for ever).  Nothing says that the owner ever starts,
\* exits, joins or destroys the pool.
Fairness ==
    /\ \A w \in Workers : /\ WF_vars(Spawn(w))
                          /\ WF_vars(Loop(w) \/ Wait(w) \/ Pop(w))
                          /\ SF_vars(TaskReturns(w))
    /\ \A t \in Users : WF_vars(ExitReturns(t))
    /\ WF_vars(StartReturns)
    /\ WF_vars(JoinReturns)

Spec == SafeSpec /\ Fairness

-----------------------------------------------------------------------------
(* Correctness *)

Range(s) == {s[i] : i \in DOMAIN s}

Running == [w \in Workers |-> IF stage[w] = "run" THEN got[w] ELSE NoTask]

\* Every task is in one place only: no task is run by two workers, run
\* again after it has returned, or queued twice, although pop and run are
\* separate steps of threads that share nothing but the queue.
TaskInOnePlace ==
    /\ \A i, j \in DOMAIN m_items : m_items[i] = m_items[j] => i = j
    /\ \A i \in DOMAIN m_items :
           m_items[i] \notin finished /\ \A w \in Workers : Running[w] # m_items[i]
    /\ \A w \in Workers : stage[w] = "run" =>
           /\ got[w] \notin finished
           /\ \A u \in Workers : Running[u] = Running[w] => u = w

\* When join() has returned, exit() has been called (what the destructor
\* asserts) and no worker is inside the queue that is about to be destroyed.
JoinedMeansQuiet ==
    owner \in {"joined", "gone"} =>
        /\ m_exit
        /\ m_ready = {}
        /\ \A w \in Workers : pc[w] = "out" /\ mutex # w

\* The pool implements Executor: tasks start in order of acceptance, and
\* after exit() a worker starts at most one more.
E == INSTANCE Executor WITH queue <- m_items, running <- Running, seen <- issued, closed <- m_exit

ImplementsExecutor == E!Spec

\* A task that was accepted by a started pool is run unless somebody calls
\* exit(): no wakeup is lost and no worker sleeps next to a queued task.
AcceptedIsRun ==
    \A v \in Tasks : v \in Range(m_items) /\ owner # "idle" ~> v \in finished \/ m_exit

\* exit() ends the pool: a join() that finds it called returns, although the
\* flag is set without the mutex while workers may be about to sleep.
ExitEndsJoin == owner = "join" /\ m_exit ~> owner \in {"joined", "gone"}

=============================================================================
