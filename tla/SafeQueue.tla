----------------------------- MODULE SafeQueue -----------------------------
(***************************************************************************)
(* SafeQueue<T> of thread.h and thread.cc: a list guarded by the mutex the *)
(* queue derives from, a condition variable m_ready, an optional capacity  *)
(* and an atomic exit flag that exit() stores before it takes the mutex.   *)
(*                                                                         *)
(* Threads call push, pop_wait and exit in any order.  A critical section  *)
(* in which nobody else can observe or change the queue is one step; the   *)
(* flag m_exit is written outside the mutex, so a thread that has tested   *)
(* it and is about to sleep is a state of its own ("block").               *)
(***************************************************************************)
EXTENDS Naturals, Sequences, FiniteSets

CONSTANTS
    Threads,      \* the threads that use the queue
    Tasks,        \* the values that are pushed, each at most once
    Capacity,     \* m_capacity: 0 means unlimited
    WaitModes,    \* the waitMs arguments in use, by kind
    MaxSpurious,  \* bound: spurious wakeups of the condition variable
    NoThread,     \* "the mutex is free"
    NoTask        \* "pop_wait returned false"

ASSUME SafeQueueAssumption ==
    /\ IsFiniteSet(Threads)
    /\ NoThread \notin Threads
    /\ NoTask \notin Tasks
    /\ Capacity \in Nat
    /\ WaitModes \subseteq {"infinite", "timed", "zero"}
    /\ MaxSpurious \in Nat

VARIABLES
    m_items,      \* the list of queued tasks
    m_exit,       \* the atomic exit flag
    mutex,        \* the thread that owns the mutex, or NoThread
    m_ready,      \* the threads asleep on the condition variable
    pc,           \* where each thread is inside the queue's operations
    waitMs,       \* the argument of each thread's current pop_wait
    late,         \* the threads whose wait_until deadline has passed
    got,          \* the result of each thread's last pop_wait
    issued,       \* history: the tasks that were handed to push
    spurious      \* number of spurious wakeups so far

vars == <<m_items, m_exit, mutex, m_ready, pc, waitMs, late, got, issued, spurious>>

(* "out"     not inside pop_wait or exit                                   *)
(* "acquire" pop_wait called, waiting to lock the mutex                    *)
(* "block"   owns the mutex, found nothing, about to sleep on m_ready      *)
(* "sleep"   in m_ready, or woken and waiting to lock the mutex again      *)
(* "take"    owns the mutex, wait_ready has returned                       *)
(* "notify"  exit() stored m_exit and waits to lock the mutex              *)
PcStates == {"out", "acquire", "block", "sleep", "take", "notify"}

TypeOK ==
    /\ m_items \in Seq(Tasks)
    /\ Capacity # 0 => Len(m_items) <= Capacity
    /\ m_exit \in BOOLEAN
    /\ mutex \in Threads \cup {NoThread}
    /\ m_ready \subseteq Threads
    /\ pc \in [Threads -> PcStates]
    /\ waitMs \in [Threads -> {"infinite", "timed", "zero"}]
    /\ late \subseteq Threads
    /\ got \in [Threads -> Tasks \cup {NoTask}]
    /\ issued \subseteq Tasks
    /\ spurious \in 0..MaxSpurious

Init ==
    /\ m_items = <<>>
    /\ m_exit = FALSE
    /\ mutex = NoThread
    /\ m_ready = {}
    /\ pc = [t \in Threads |-> "out"]
    /\ waitMs = [t \in Threads |-> "infinite"]
    /\ late = {}
    /\ got = [t \in Threads |-> NoTask]
    /\ issued = {}
    /\ spurious = 0

-----------------------------------------------------------------------------
(* push *)

\* Mutant: the capacity test lets one task too many in.
AcceptsOneTooMany == ~m_exit /\ (Capacity = 0 \/ Len(m_items) <= Capacity)

\* push keeps the value: not exiting, and below the capacity if there is one.
Accepts == ~m_exit /\ (Capacity = 0 \/ Len(m_items) < Capacity)

\* Mutant: notify only when the list goes from empty to non-empty.
NotifyIfEmpty ==
    IF m_ready = {} \/ m_items # <<>>
      THEN UNCHANGED m_ready
      ELSE \E s \in m_ready : m_ready' = m_ready \ {s}

\* Mutant: push does not notify.
NotifyNobody == UNCHANGED m_ready

\* m_ready.notify_one(): one sleeper, if any, is taken off the wait set.
NotifyOne ==
    IF m_ready = {} THEN UNCHANGED m_ready
                    ELSE \E s \in m_ready : m_ready' = m_ready \ {s}

Push(t, v) ==
    /\ pc[t] = "out"
    /\ v \notin issued
    /\ mutex = NoThread
    /\ issued' = issued \cup {v}
    /\ IF Accepts THEN m_items' = Append(m_items, v) /\ NotifyOne
                  ELSE UNCHANGED <<m_items, m_ready>>
    /\ UNCHANGED <<m_exit, mutex, pc, waitMs, late, got, spurious>>

-----------------------------------------------------------------------------
(* pop_wait and wait_ready *)

\* The condition wait_ready tests: m_exit || !m_items.empty().
Ready == m_exit \/ m_items # <<>>

PopCall(t, w) ==
    /\ pc[t] = "out"
    /\ pc' = [pc EXCEPT ![t] = "acquire"]
    /\ waitMs' = [waitMs EXCEPT ![t] = w]
    /\ late' = late \ {t}
    /\ UNCHANGED <<m_items, m_exit, mutex, m_ready, got, issued, spurious>>

\* unique_lock, then the early return of wait_ready or the choice to wait.
Acquire(t) ==
    /\ pc[t] = "acquire"
    /\ mutex = NoThread
    /\ mutex' = t
    /\ pc' = [pc EXCEPT ![t] = IF Ready \/ waitMs[t] = "zero" THEN "take" ELSE "block"]
    /\ UNCHANGED <<m_items, m_exit, m_ready, waitMs, late, got, issued, spurious>>

\* wait/wait_until: release the mutex and sleep, in one step.  A wait_until
\* whose deadline has passed gives the mutex up without sleeping.
Block(t) ==
    /\ pc[t] = "block"
    /\ mutex' = NoThread
    /\ m_ready' = IF t \in late THEN m_ready ELSE m_ready \cup {t}
    /\ pc' = [pc EXCEPT ![t] = "sleep"]
    /\ UNCHANGED <<m_items, m_exit, waitMs, late, got, issued, spurious>>

\* Mutant: the infinite wait sleeps once instead of until Ready.
WaitOnce(t) == ~Ready /\ waitMs[t] # "infinite" /\ t \in late

\* The loop conditions of the two waits: the infinite one waits until Ready;
\* the timed one goes round again exactly when wait_until reported a timeout
\* and the queue is still empty and not exiting.
KeepWaiting(t) == ~Ready /\ (waitMs[t] = "infinite" \/ t \in late)

Resume(t) ==
    /\ pc[t] = "sleep"
    /\ t \notin m_ready
    /\ mutex = NoThread
    /\ mutex' = t
    /\ pc' = [pc EXCEPT ![t] = IF KeepWaiting(t) THEN "block" ELSE "take"]
    /\ UNCHANGED <<m_items, m_exit, m_ready, waitMs, late, got, issued, spurious>>

\* A condition variable may wake a sleeper nobody notified.
SpuriousWakeup(t) ==
    /\ t \in m_ready
    /\ spurious < MaxSpurious
    /\ spurious' = spurious + 1
    /\ m_ready' = m_ready \ {t}
    /\ UNCHANGED <<m_items, m_exit, mutex, pc, waitMs, late, got, issued>>

\* The clock reaches the deadline of a timed wait.
Deadline(t) ==
    /\ pc[t] \in {"block", "sleep"}
    /\ waitMs[t] = "timed"
    /\ t \notin late
    /\ late' = late \cup {t}
    /\ m_ready' = m_ready \ {t}
    /\ UNCHANGED <<m_items, m_exit, mutex, pc, waitMs, got, issued, spurious>>

Take(t) ==
    /\ pc[t] = "take"
    /\ mutex' = NoThread
    /\ pc' = [pc EXCEPT ![t] = "out"]
    /\ IF m_items = <<>>
         THEN /\ got' = [got EXCEPT ![t] = NoTask]
              /\ UNCHANGED m_items
         ELSE /\ got' = [got EXCEPT ![t] = Head(m_items)]
              /\ m_items' = Tail(m_items)
    /\ UNCHANGED <<m_exit, m_ready, waitMs, late, issued, spurious>>

-----------------------------------------------------------------------------
(* exit: the store to the flag, then the mutex and notify_all *)

ExitStore(t) ==
    /\ pc[t] = "out"
    /\ m_exit' = TRUE
    /\ pc' = [pc EXCEPT ![t] = "notify"]
    /\ UNCHANGED <<m_items, mutex, m_ready, waitMs, late, got, issued, spurious>>

\* Mutant: notify_all without taking the mutex.
ExitNotifyUnlocked(t) ==
    /\ pc[t] = "notify"
    /\ m_ready' = {}
    /\ pc' = [pc EXCEPT ![t] = "out"]
    /\ UNCHANGED <<m_items, m_exit, mutex, waitMs, late, got, issued, spurious>>

ExitNotify(t) ==
    /\ pc[t] = "notify"
    /\ mutex = NoThread
    /\ m_ready' = {}
    /\ pc' = [pc EXCEPT ![t] = "out"]
    /\ UNCHANGED <<m_items, m_exit, mutex, waitMs, late, got, issued, spurious>>

-----------------------------------------------------------------------------

Next ==
    \E t \in Threads :
        \/ \E v \in Tasks : Push(t, v)
        \/ \E w \in WaitModes : PopCall(t, w)
        \/ Acquire(t)
        \/ Block(t)
        \/ Resume(t)
        \/ SpuriousWakeup(t)
        \/ Deadline(t)
        \/ Take(t)
        \/ ExitStore(t)
        \/ ExitNotify(t)

Spec == Init /\ [][Next]_vars

-----------------------------------------------------------------------------
(* Correctness *)

\* The mutex is owned exactly by the thread that is between locking and
\* unlocking it, and only threads inside pop_wait sleep on m_ready.
MutexInv ==
    /\ \A t \in Threads : pc[t] \in {"block", "take"} <=> mutex = t
    /\ \A t \in m_ready : pc[t] = "sleep"

\* The threads that will look at the list without another notification:
\* woken sleepers, and the owner of the mutex that is about to pop.
Awake == {t \in Threads : pc[t] = "take" \/ (pc[t] = "sleep" /\ t \notin m_ready)}

\* No wakeup is lost between push and pop_wait: as long as a thread sleeps on
\* m_ready, every queued task has an awake thread coming for it.
NoLostWakeup == m_ready # {} => Len(m_items) <= Cardinality(Awake)

\* exit() stores m_exit without the mutex, yet once it has returned nobody
\* sleeps on m_ready or is about to: the mutex between the store and
\* notify_all closes the window in wait_ready.
ExitReleasesAll ==
    m_exit /\ (\A t \in Threads : pc[t] # "notify")
        => /\ m_ready = {}
           /\ \A t \in Threads : pc[t] # "block"

\* A pop_wait without time limit comes back empty-handed only after exit():
\* neither a spurious wakeup nor a task stolen by another thread ends it.
EmptyHandedOnlyAfterExit ==
    \A t \in Threads : pc[t] = "take" /\ waitMs[t] = "infinite" => Ready

=============================================================================
