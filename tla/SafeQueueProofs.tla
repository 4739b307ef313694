-------------------------- MODULE SafeQueueProofs --------------------------
(***************************************************************************)
(* Proofs about SafeQueue, for any finite set of threads, any set of       *)
(* tasks, any capacity and any mix of wait modes.                          *)
(***************************************************************************)
EXTENDS SafeQueue, FiniteSetTheorems, TLAPS

-----------------------------------------------------------------------------
(* Types *)

\* Every operation of the queue keeps the variables within their types.
LEMMA TypeStep == TypeOK /\ [Next]_vars => TypeOK'
<1> SUFFICES ASSUME TypeOK, [Next]_vars PROVE TypeOK'
  OBVIOUS
<1> USE SafeQueueAssumption DEF SafeQueueAssumption, TypeOK, PcStates
<1>1. ASSUME NEW t \in Threads, NEW v \in Tasks, Push(t, v) PROVE TypeOK'
  <2>1. m_ready' \subseteq Threads
    BY <1>1 DEF Push, NotifyOne
  <2>2. m_items' \in Seq(Tasks) /\ (Capacity # 0 => Len(m_items') <= Capacity)
    <3>1. CASE Accepts
      <4>1. Capacity = 0 \/ Len(m_items) < Capacity
        BY <3>1 DEF Accepts
      <4>2. m_items' = Append(m_items, v)
        BY <1>1, <3>1 DEF Push
      <4>3. Len(m_items') = Len(m_items) + 1 /\ Len(m_items) \in Nat
        BY <4>2
      <4> QED
        BY <4>1, <4>2, <4>3
    <3>2. CASE ~Accepts
      BY <1>1, <3>2 DEF Push
    <3> QED
      BY <3>1, <3>2
  <2> QED
    BY <1>1, <2>1, <2>2 DEF Push
<1>2. ASSUME NEW t \in Threads, NEW w \in WaitModes, PopCall(t, w) PROVE TypeOK'
  BY <1>2 DEF PopCall
<1>3. ASSUME NEW t \in Threads, Acquire(t) PROVE TypeOK'
  BY <1>3 DEF Acquire
<1>4. ASSUME NEW t \in Threads, Block(t) PROVE TypeOK'
  BY <1>4 DEF Block
<1>5. ASSUME NEW t \in Threads, Resume(t) PROVE TypeOK'
  BY <1>5 DEF Resume
<1>6. ASSUME NEW t \in Threads, SpuriousWakeup(t) PROVE TypeOK'
  BY <1>6 DEF SpuriousWakeup
<1>7. ASSUME NEW t \in Threads, Deadline(t) PROVE TypeOK'
  BY <1>7 DEF Deadline
<1>8. ASSUME NEW t \in Threads, Take(t) PROVE TypeOK'
  BY <1>8 DEF Take
<1>9. ASSUME NEW t \in Threads, ExitStore(t) PROVE TypeOK'
  <2>1. m_exit' \in BOOLEAN
    BY <1>9, Zenon DEF ExitStore
  <2> QED
    BY <1>9, <2>1 DEF ExitStore
<1>10. ASSUME NEW t \in Threads, ExitNotify(t) PROVE TypeOK'
  BY <1>10 DEF ExitNotify
<1>11. CASE UNCHANGED vars
  BY <1>11 DEF vars
<1> QED
  BY <1>1, <1>2, <1>3, <1>4, <1>5, <1>6, <1>7, <1>8, <1>9, <1>10, <1>11 DEF Next

\* The initial queue is empty, open and unlocked.
LEMMA TypeInit == Init => TypeOK
<1> SUFFICES ASSUME Init PROVE TypeOK
  OBVIOUS
<1>1. m_exit \in BOOLEAN
  BY Zenon DEF Init
<1> QED
  BY <1>1, SafeQueueAssumption DEF SafeQueueAssumption, Init, TypeOK, PcStates

\* TypeOK is an invariant of the queue.
THEOREM TypeCorrect == Spec => []TypeOK
BY TypeInit, TypeStep, PTL DEF Spec

-----------------------------------------------------------------------------
(* The inductive invariant *)

\* Strengthening: a thread is about to sleep only on an empty list, because
\* nobody else changes the list while the thread owns the mutex.
BlockEmpty == \A t \in Threads : pc[t] = "block" => m_items = <<>>

\* What is inductive together; none of the last three is without MutexInv.
IInv == TypeOK /\ MutexInv /\ BlockEmpty /\ ExitReleasesAll /\ EmptyHandedOnlyAfterExit

\* The mutex discipline of the critical sections of push, pop_wait and exit.
LEMMA MutexStep == TypeOK /\ MutexInv /\ [Next]_vars => MutexInv'
<1> SUFFICES ASSUME TypeOK, MutexInv, [Next]_vars PROVE MutexInv'
  OBVIOUS
<1> USE SafeQueueAssumption DEF SafeQueueAssumption, TypeOK, PcStates, MutexInv
<1>1. ASSUME NEW t \in Threads, NEW v \in Tasks, Push(t, v) PROVE MutexInv'
  <2>1. m_ready' \subseteq m_ready
    BY <1>1 DEF Push, NotifyOne
  <2> QED
    BY <1>1, <2>1 DEF Push
<1>2. ASSUME NEW t \in Threads, NEW w \in WaitModes, PopCall(t, w) PROVE MutexInv'
  BY <1>2 DEF PopCall
<1>3. ASSUME NEW t \in Threads, Acquire(t) PROVE MutexInv'
  BY <1>3 DEF Acquire
<1>4. ASSUME NEW t \in Threads, Block(t) PROVE MutexInv'
  BY <1>4 DEF Block
<1>5. ASSUME NEW t \in Threads, Resume(t) PROVE MutexInv'
  BY <1>5 DEF Resume
<1>6. ASSUME NEW t \in Threads, SpuriousWakeup(t) PROVE MutexInv'
  BY <1>6 DEF SpuriousWakeup
<1>7. ASSUME NEW t \in Threads, Deadline(t) PROVE MutexInv'
  BY <1>7 DEF Deadline
<1>8. ASSUME NEW t \in Threads, Take(t) PROVE MutexInv'
  BY <1>8 DEF Take
<1>9. ASSUME NEW t \in Threads, ExitStore(t) PROVE MutexInv'
  BY <1>9 DEF ExitStore
<1>10. ASSUME NEW t \in Threads, ExitNotify(t) PROVE MutexInv'
  BY <1>10 DEF ExitNotify
<1>11. CASE UNCHANGED vars
  BY <1>11 DEF vars
<1> QED
  BY <1>1, <1>2, <1>3, <1>4, <1>5, <1>6, <1>7, <1>8, <1>9, <1>10, <1>11 DEF Next

\* The three facts that rest on the mutex, preserved by every operation.
LEMMA ExitStep ==
    IInv /\ [Next]_vars => BlockEmpty' /\ ExitReleasesAll' /\ EmptyHandedOnlyAfterExit'
<1> DEFINE Goal == BlockEmpty' /\ ExitReleasesAll' /\ EmptyHandedOnlyAfterExit'
<1> SUFFICES ASSUME IInv, [Next]_vars PROVE Goal
  OBVIOUS
<1> USE SafeQueueAssumption DEF SafeQueueAssumption, IInv, TypeOK, PcStates, MutexInv, BlockEmpty,
        ExitReleasesAll, EmptyHandedOnlyAfterExit, Ready
<1>1. ASSUME NEW t \in Threads, NEW v \in Tasks, Push(t, v) PROVE Goal
  <2>1. m_ready' \subseteq m_ready
    BY <1>1 DEF Push, NotifyOne
  <2>2. \A s \in Threads : pc[s] \notin {"block", "take"}
    BY <1>1 DEF Push
  <2> QED
    BY <1>1, <2>1, <2>2 DEF Push
<1>2. ASSUME NEW t \in Threads, NEW w \in WaitModes, PopCall(t, w) PROVE Goal
  BY <1>2 DEF PopCall
<1>3. ASSUME NEW t \in Threads, Acquire(t) PROVE Goal
  BY <1>3 DEF Acquire
<1>4. ASSUME NEW t \in Threads, Block(t) PROVE Goal
  BY <1>4 DEF Block
<1>5. ASSUME NEW t \in Threads, Resume(t) PROVE Goal
  BY <1>5 DEF Resume, KeepWaiting
<1>6. ASSUME NEW t \in Threads, SpuriousWakeup(t) PROVE Goal
  BY <1>6 DEF SpuriousWakeup
<1>7. ASSUME NEW t \in Threads, Deadline(t) PROVE Goal
  BY <1>7 DEF Deadline
<1>8. ASSUME NEW t \in Threads, Take(t) PROVE Goal
  <2>1. \A s \in Threads : s # t => pc[s] \notin {"block", "take"}
    BY <1>8 DEF Take
  <2> QED
    BY <1>8, <2>1 DEF Take
<1>9. ASSUME NEW t \in Threads, ExitStore(t) PROVE Goal
  BY <1>9 DEF ExitStore
<1>10. ASSUME NEW t \in Threads, ExitNotify(t) PROVE Goal
  BY <1>10 DEF ExitNotify
<1>11. CASE UNCHANGED vars
  BY <1>11 DEF vars
<1> QED
  BY <1>1, <1>2, <1>3, <1>4, <1>5, <1>6, <1>7, <1>8, <1>9, <1>10, <1>11 DEF Next

\* The inductive invariant holds at first, and every operation keeps it.
LEMMA IInvInit == Init => IInv
BY TypeInit, SafeQueueAssumption DEF SafeQueueAssumption, Init, IInv, MutexInv, BlockEmpty,
   ExitReleasesAll, EmptyHandedOnlyAfterExit

\* The strengthened invariant is inductive.
LEMMA IInvStep == IInv /\ [Next]_vars => IInv'
BY TypeStep, MutexStep, ExitStep DEF IInv

\* So it holds in every reachable state.
LEMMA Invariance == Spec => []IInv
BY IInvInit, IInvStep, PTL DEF Spec

\* Once exit() has returned no thread sleeps on m_ready or is about to.
THEOREM ExitReleases == Spec => []ExitReleasesAll
BY Invariance, PTL DEF IInv

\* An unlimited pop_wait gives up only after exit().
THEOREM EmptyHanded == Spec => []EmptyHandedOnlyAfterExit
BY Invariance, PTL DEF IInv

-----------------------------------------------------------------------------
(* No lost wakeup *)

\* The awake threads are finitely many, so counting them makes sense.
LEMMA AwakeFinite == IsFiniteSet(Awake) /\ Cardinality(Awake) \in Nat
BY SafeQueueAssumption, FS_Subset, FS_CardinalityType DEF SafeQueueAssumption, Awake

\* Same, in the next state.
LEMMA AwakeFiniteNext == IsFiniteSet(Awake') /\ Cardinality(Awake') \in Nat
BY SafeQueueAssumption, FS_Subset, FS_CardinalityType DEF SafeQueueAssumption, Awake

\* If the queue does not grow, threads may only join Awake, and nobody falls
\* asleep while everyone was awake, then no wakeup is lost.
LEMMA AwakeGrows ==
    ASSUME TypeOK, NoLostWakeup, m_items' = m_items, Awake \subseteq Awake',
           m_ready' # {} => m_ready # {}
    PROVE  NoLostWakeup'
<1>1. Cardinality(Awake) <= Cardinality(Awake')
  BY AwakeFiniteNext, FS_Subset
<1>2. Len(m_items) \in Nat
  BY DEF TypeOK
<1> QED
  BY <1>1, <1>2, AwakeFinite, AwakeFiniteNext DEF NoLostWakeup

\* An empty queue needs no awake thread.
LEMMA NothingQueued == ASSUME m_items' = <<>> PROVE NoLostWakeup'
BY AwakeFiniteNext DEF NoLostWakeup

\* push, pop_wait and exit never leave a queued task to sleepers only.
LEMMA WakeStep == IInv /\ NoLostWakeup /\ [Next]_vars => NoLostWakeup'
<1> SUFFICES ASSUME IInv, NoLostWakeup, [Next]_vars PROVE NoLostWakeup'
  OBVIOUS
<1> USE DEF IInv, TypeOK, PcStates
<1>1. ASSUME NEW t \in Threads, NEW v \in Tasks, Push(t, v) PROVE NoLostWakeup'
  <2>1. CASE ~Accepts
    BY <1>1, <2>1, AwakeGrows DEF Push, Awake
  <2>2. CASE m_ready = {}
    BY <1>1, <2>2 DEF Push, NotifyOne, NoLostWakeup
  <2>3. CASE Accepts /\ m_ready # {}
    <3>1. PICK s \in m_ready : m_ready' = m_ready \ {s}
      BY <1>1, <2>3 DEF Push, NotifyOne
    <3>2. s \notin Awake /\ Awake' = Awake \cup {s}
      BY <1>1, <3>1 DEF Push, Awake, MutexInv
    <3>3. Cardinality(Awake') = Cardinality(Awake) + 1
      BY <3>2, AwakeFinite, FS_AddElement
    <3>4. Len(m_items') = Len(m_items) + 1 /\ Len(m_items) \in Nat
      BY <1>1, <2>3 DEF Push
    <3> QED
      BY <2>3, <3>3, <3>4, AwakeFinite DEF NoLostWakeup
  <2> QED
    BY <2>1, <2>2, <2>3
<1>2. ASSUME NEW t \in Threads, NEW w \in WaitModes, PopCall(t, w) PROVE NoLostWakeup'
  BY <1>2, AwakeGrows DEF PopCall, Awake
<1>3. ASSUME NEW t \in Threads, Acquire(t) PROVE NoLostWakeup'
  BY <1>3, AwakeGrows DEF Acquire, Awake
<1>4. ASSUME NEW t \in Threads, Block(t) PROVE NoLostWakeup'
  BY <1>4, NothingQueued DEF Block, BlockEmpty
<1>5. ASSUME NEW t \in Threads, Resume(t) PROVE NoLostWakeup'
  <2>1. CASE KeepWaiting(t)
    BY <1>5, <2>1, NothingQueued DEF Resume, KeepWaiting, Ready
  <2>2. CASE ~KeepWaiting(t)
    BY <1>5, <2>2, AwakeGrows DEF Resume, Awake
  <2> QED
    BY <2>1, <2>2
<1>6. ASSUME NEW t \in Threads, SpuriousWakeup(t) PROVE NoLostWakeup'
  BY <1>6, AwakeGrows DEF SpuriousWakeup, Awake
<1>7. ASSUME NEW t \in Threads, Deadline(t) PROVE NoLostWakeup'
  BY <1>7, AwakeGrows DEF Deadline, Awake
<1>8. ASSUME NEW t \in Threads, Take(t) PROVE NoLostWakeup'
  <2>1. CASE m_items = <<>>
    BY <1>8, <2>1, NothingQueued DEF Take
  <2>2. CASE m_items # <<>>
    <3>1. t \in Awake /\ Awake' = Awake \ {t}
      BY <1>8 DEF Take, Awake, MutexInv
    <3>2. Cardinality(Awake') = Cardinality(Awake) - 1
      BY <3>1, AwakeFinite, FS_RemoveElement
    <3>3. Len(m_items') = Len(m_items) - 1 /\ Len(m_items) \in Nat
      BY <1>8, <2>2 DEF Take
    <3>4. m_ready' = m_ready
      BY <1>8 DEF Take
    <3> QED
      BY <3>2, <3>3, <3>4, AwakeFinite DEF NoLostWakeup
  <2> QED
    BY <2>1, <2>2
<1>9. ASSUME NEW t \in Threads, ExitStore(t) PROVE NoLostWakeup'
  BY <1>9, AwakeGrows DEF ExitStore, Awake
<1>10. ASSUME NEW t \in Threads, ExitNotify(t) PROVE NoLostWakeup'
  BY <1>10 DEF ExitNotify, NoLostWakeup
<1>11. CASE UNCHANGED vars
  BY <1>11, AwakeGrows DEF vars, Awake
<1> QED
  BY <1>1, <1>2, <1>3, <1>4, <1>5, <1>6, <1>7, <1>8, <1>9, <1>10, <1>11 DEF Next

\* As long as a thread sleeps on m_ready, an awake thread comes for every
\* queued task: a push is never forgotten, whatever the interleaving.
THEOREM WakeupsKept == Spec => []NoLostWakeup
<1>1. Init => NoLostWakeup
  BY DEF Init, NoLostWakeup
<1> QED
  BY <1>1, Invariance, WakeStep, PTL DEF Spec
=============================================================================
