---------------------------- MODULE TimersProofs ----------------------------
(***************************************************************************)
(* Proofs about Timers, for any times, periods, bounds and width of int.   *)
(***************************************************************************)
EXTENDS Timers, FiniteSetTheorems, TLAPS

-----------------------------------------------------------------------------
(* The ordered map *)

\* Every set of natural numbers has a least element, because the intervals
\* that end in it are well-founded.
LEMMA LeastNat ==
    ASSUME NEW T, T \subseteq Nat, T # {}
    PROVE  \E x \in T : \A y \in T : x <= y
<1> DEFINE Below == {0..n : n \in T}
<1>1. Below \subseteq FiniteSubsetsOf(Nat) /\ Below # {}
  <2>1. \A n \in T : 0..n \in SUBSET Nat /\ IsFiniteSet(0..n)
    BY FS_Interval
  <2> QED
    BY <2>1 DEF FiniteSubsetsOf
<1>2. PICK b \in Below : \A c \in Below : <<c, b>> \notin StrictSubsetOrdering(Nat)
  BY <1>1, FS_StrictSubsetOrderingWellFounded, WFMin
<1>3. PICK x \in T : b = 0..x
  OBVIOUS
<1>4. \A y \in T : ~(y < x)
  <2> SUFFICES ASSUME NEW y \in T, y < x PROVE FALSE
    OBVIOUS
  <2>1. 0..y \subseteq b /\ 0..y # b /\ 0..y \in SUBSET Nat /\ b \in SUBSET Nat
    BY <1>3
  <2>2. <<0..y, b>> \in StrictSubsetOrdering(Nat)
    BY <2>1 DEF StrictSubsetOrdering
  <2> QED
    BY <1>2, <2>2
<1> QED
  BY <1>4

\* begin() of a map with entries: the first in the order of the ids.
LEMMA FirstIsLeast ==
    ASSUME NEW m, DOMAIN m \subseteq TimerIds, DOMAIN m # {}
    PROVE  /\ First(m) \in DOMAIN m
           /\ \A id \in DOMAIN m : First(m)[1] <= id[1]
<1>1. PICK t \in {id[1] : id \in DOMAIN m} : \A u \in {id[1] : id \in DOMAIN m} : t <= u
  <2>1. {id[1] : id \in DOMAIN m} \subseteq Nat /\ {id[1] : id \in DOMAIN m} # {}
    BY DEF TimerIds
  <2> QED
    BY <2>1, LeastNat
<1> DEFINE Nums == {id[2] : id \in {i \in DOMAIN m : i[1] = t}}
<1>2. PICK n \in Nums : \A k \in Nums : n <= k
  <2>1. Nums \subseteq Nat /\ Nums # {}
    BY <1>1 DEF TimerIds
  <2> QED
    BY <2>1, LeastNat
<1>3. PICK first \in DOMAIN m : first[1] = t /\ first[2] = n
  BY <1>2
<1>4. \A o \in DOMAIN m \ {first} : Earlier(first, o)
  <2> SUFFICES ASSUME NEW o \in DOMAIN m, o # first PROVE Earlier(first, o)
    OBVIOUS
  <2>1. t <= o[1] /\ o[1] \in Nat /\ o[2] \in Nat /\ t \in Nat /\ n \in Nat
    BY <1>1, <1>3 DEF TimerIds
  <2>2. CASE t < o[1]
    BY <1>3, <2>2 DEF Earlier
  <2>3. CASE t = o[1]
    <3>1. o[2] \in Nums
      BY <2>3
    <3>2. n <= o[2]
      BY <1>2, <3>1
    <3>3. o[2] # n
      BY <1>3, <2>3 DEF TimerIds
    <3> QED
      BY <1>3, <2>1, <2>3, <3>2, <3>3 DEF Earlier
  <2> QED
    BY <2>1, <2>2, <2>3
<1>5. /\ First(m) \in DOMAIN m
      /\ \A o \in DOMAIN m \ {First(m)} : Earlier(First(m), o)
  BY <1>4 DEF First
<1>6. \A id \in DOMAIN m : id[1] \in Nat
  BY DEF TimerIds
<1> QED
  BY <1>5, <1>6 DEF Earlier

\* insert and erase keep the kind of the entries.
LEMMA MapTypes ==
    ASSUME NEW m, NEW V, m \in [DOMAIN m -> V], NEW id, NEW x \in V
    PROVE  /\ Put(m, id, x) \in [DOMAIN Put(m, id, x) -> V]
           /\ Erase(m, id) \in [DOMAIN Erase(m, id) -> V]
BY DEF Put, Erase, Restrict

\* The empty map.
LEMMA EmptyMap ==
    /\ DOMAIN <<>> = {}
    /\ \A m, V : m \in [DOMAIN m -> V] => (m = <<>> <=> DOMAIN m = {})
    /\ \A V : <<>> \in [DOMAIN <<>> -> V]
OBVIOUS

-----------------------------------------------------------------------------
(* The two maps *)

Repeats == [interval : Nat \ {0}, tid : TimerIds]

\* What the maps hold.
MapsOK ==
    /\ DOMAIN m_timers \subseteq TimerIds
    /\ m_timers \in [DOMAIN m_timers -> RepeatIds \cup {Once}]
    /\ DOMAIN m_timerRepeats \subseteq RepeatIds
    /\ m_timerRepeats \in [DOMAIN m_timerRepeats -> Repeats]
    /\ m_timerNum \in Nat

\* Strengthening: ids are numbered from the counter, so a new one is new.
NumsUsed ==
    /\ \A id \in DOMAIN m_timers : id[2] <= m_timerNum
    /\ \A id \in DOMAIN m_timerRepeats : id[2] <= m_timerNum

MapsInv == MapsOK /\ NumsUsed /\ RepeatsArmedOnce

\* The ids of the two kinds differ, and neither is that of no periodic timer.
LEMMA KindsDiffer == Once \notin RepeatIds /\ Once \notin TimerIds /\ TimerIds \cap RepeatIds = {}
BY DEF Once, RepeatIds, TimerIds

\* runAt gives a new one-shot timer an entry of its own.
LEMMA MapsRunOnce ==
    ASSUME MapsInv, NEW at \in Ats, RunOnce(at)
    PROVE  MapsInv'
<1> DEFINE id == <<at, m_timerNum + 1>>
<1>1. /\ m_timers' = Put(m_timers, id, Once) /\ m_timerRepeats' = m_timerRepeats
      /\ m_timerNum' = m_timerNum + 1 /\ m_timerNum \in Nat
  BY DEF RunOnce, MapsInv, MapsOK
<1>2. id \in TimerIds /\ id[2] = m_timerNum + 1
  BY <1>1, TimersAssumption DEF TimersAssumption, TimerIds
<1>3. id \notin DOMAIN m_timers
  BY <1>1, <1>2 DEF MapsInv, NumsUsed
<1> HIDE DEF id
<1>4. /\ DOMAIN m_timers' = DOMAIN m_timers \cup {id} /\ m_timers'[id] = Once
      /\ \A i \in DOMAIN m_timers : m_timers'[i] = m_timers[i]
  BY <1>1, <1>3 DEF Put
<1>5. MapsOK'
  <2>1. m_timers' \in [DOMAIN m_timers' -> RepeatIds \cup {Once}]
    BY <1>1, MapTypes DEF MapsInv, MapsOK
  <2> QED
    BY <1>1, <1>2, <1>4, <2>1 DEF MapsInv, MapsOK
<1>6. NumsUsed'
  <2>1. \A i \in DOMAIN m_timers \cup DOMAIN m_timerRepeats : i[2] \in Nat
    BY DEF MapsInv, MapsOK, TimerIds, RepeatIds
  <2> QED
    BY <1>1, <1>2, <1>4, <2>1 DEF MapsInv, NumsUsed
<1>7. RepeatsArmedOnce'
  BY <1>1, <1>4 DEF MapsInv, RepeatsArmedOnce
<1> QED
  BY <1>5, <1>6, <1>7 DEF MapsInv

\* runAt gives a new periodic timer one entry in each map.
LEMMA MapsRunRepeat ==
    ASSUME MapsInv, NEW at \in Ats, NEW interval \in Intervals \ {0}, RunRepeat(at, interval)
    PROVE  MapsInv'
<1> DEFINE id == <<-at, m_timerNum + 1>>
           tid == <<at, m_timerNum + 2>>
           r == [interval |-> interval, tid |-> tid]
<1>1. /\ m_timers' = Put(m_timers, tid, id) /\ m_timerRepeats' = Put(m_timerRepeats, id, r)
      /\ m_timerNum' = m_timerNum + 2 /\ m_timerNum \in Nat
  BY DEF RunRepeat, MapsInv, MapsOK
<1>2. /\ tid \in TimerIds /\ tid[2] = m_timerNum + 2
      /\ id \in RepeatIds /\ id[2] = m_timerNum + 1
      /\ r \in Repeats /\ r.tid = tid
  BY <1>1, TimersAssumption DEF TimersAssumption, TimerIds, RepeatIds, Repeats
<1>3. tid \notin DOMAIN m_timers /\ id \notin DOMAIN m_timerRepeats
  BY <1>1, <1>2 DEF MapsInv, NumsUsed
<1> HIDE DEF id, tid, r
<1>4. /\ DOMAIN m_timers' = DOMAIN m_timers \cup {tid} /\ m_timers'[tid] = id
      /\ \A i \in DOMAIN m_timers : m_timers'[i] = m_timers[i]
  BY <1>1, <1>3 DEF Put
<1>5. /\ DOMAIN m_timerRepeats' = DOMAIN m_timerRepeats \cup {id} /\ m_timerRepeats'[id] = r
      /\ \A i \in DOMAIN m_timerRepeats : m_timerRepeats'[i] = m_timerRepeats[i]
  BY <1>1, <1>3 DEF Put
<1>6. MapsOK'
  <2>1. m_timers' \in [DOMAIN m_timers' -> RepeatIds \cup {Once}]
    BY <1>1, <1>2, MapTypes DEF MapsInv, MapsOK
  <2>2. m_timerRepeats' \in [DOMAIN m_timerRepeats' -> Repeats]
    BY <1>1, <1>2, MapTypes DEF MapsInv, MapsOK
  <2> QED
    BY <1>1, <1>2, <1>4, <1>5, <2>1, <2>2 DEF MapsInv, MapsOK
<1>7. NumsUsed'
  <2>1. \A i \in DOMAIN m_timers \cup DOMAIN m_timerRepeats : i[2] \in Nat
    BY DEF MapsInv, MapsOK, TimerIds, RepeatIds
  <2> QED
    BY <1>1, <1>2, <1>4, <1>5, <2>1 DEF MapsInv, NumsUsed
<1>8. RepeatsArmedOnce'
  <2>1. \A i \in DOMAIN m_timerRepeats' :
            m_timerRepeats'[i].tid \in DOMAIN m_timers' /\ m_timers'[m_timerRepeats'[i].tid] = i
    BY <1>2, <1>4, <1>5 DEF MapsInv, RepeatsArmedOnce
  <2>2. \A i \in DOMAIN m_timers' : m_timers'[i] # Once =>
            m_timers'[i] \in DOMAIN m_timerRepeats' /\ m_timerRepeats'[m_timers'[i]].tid = i
    BY <1>2, <1>4, <1>5 DEF MapsInv, RepeatsArmedOnce
  <2> QED
    BY <2>1, <2>2 DEF RepeatsArmedOnce
<1> QED
  BY <1>6, <1>7, <1>8 DEF MapsInv

\* A one-shot timer leaves the map, cancelled or fired.
LEMMA MapsEraseOnce ==
    ASSUME MapsInv, NEW id \in DOMAIN m_timers, m_timers[id] = Once,
           m_timers' = Erase(m_timers, id), UNCHANGED <<m_timerRepeats, m_timerNum>>
    PROVE  MapsInv'
<1>1. /\ DOMAIN m_timers' = DOMAIN m_timers \ {id}
      /\ \A i \in DOMAIN m_timers \ {id} : m_timers'[i] = m_timers[i]
  BY DEF Erase, Restrict
<1>2. MapsOK'
  <2>1. m_timers' \in [DOMAIN m_timers' -> RepeatIds \cup {Once}]
    BY MapTypes DEF MapsInv, MapsOK
  <2> QED
    BY <1>1, <2>1 DEF MapsInv, MapsOK
<1>3. NumsUsed'
  BY <1>1 DEF MapsInv, NumsUsed
<1>4. RepeatsArmedOnce'
  <2>1. \A i \in DOMAIN m_timerRepeats : m_timerRepeats[i].tid # id
    BY KindsDiffer DEF MapsInv, MapsOK, RepeatsArmedOnce
  <2> QED
    BY <1>1, <2>1 DEF MapsInv, RepeatsArmedOnce
<1> QED
  BY <1>2, <1>3, <1>4 DEF MapsInv

\* A cancelled periodic timer leaves both maps.
LEMMA MapsEraseRepeat ==
    ASSUME MapsInv, NEW id \in DOMAIN m_timerRepeats,
           m_timers' = Erase(m_timers, m_timerRepeats[id].tid),
           m_timerRepeats' = Erase(m_timerRepeats, id), m_timerNum' = m_timerNum
    PROVE  MapsInv'
<1> DEFINE tid == m_timerRepeats[id].tid
<1>1. /\ DOMAIN m_timers' = DOMAIN m_timers \ {tid}
      /\ \A i \in DOMAIN m_timers \ {tid} : m_timers'[i] = m_timers[i]
  BY DEF Erase, Restrict
<1>2. /\ DOMAIN m_timerRepeats' = DOMAIN m_timerRepeats \ {id}
      /\ \A i \in DOMAIN m_timerRepeats \ {id} : m_timerRepeats'[i] = m_timerRepeats[i]
  BY DEF Erase, Restrict
<1>3. MapsOK'
  <2>1. m_timers' \in [DOMAIN m_timers' -> RepeatIds \cup {Once}]
    BY MapTypes DEF MapsInv, MapsOK
  <2>2. m_timerRepeats[id] \in Repeats
    BY DEF MapsInv, MapsOK
  <2>3. m_timerRepeats' \in [DOMAIN m_timerRepeats' -> Repeats]
    BY <2>2, MapTypes DEF MapsInv, MapsOK
  <2> QED
    BY <1>1, <1>2, <2>1, <2>3 DEF MapsInv, MapsOK
<1>4. NumsUsed'
  BY <1>1, <1>2 DEF MapsInv, NumsUsed
<1>5. RepeatsArmedOnce'
  <2>1. \A i \in DOMAIN m_timerRepeats \ {id} : m_timerRepeats[i].tid # tid
    BY DEF MapsInv, RepeatsArmedOnce
  <2>2. \A i \in DOMAIN m_timers \ {tid} : m_timers[i] # id
    BY KindsDiffer DEF MapsInv, MapsOK, RepeatsArmedOnce
  <2>3. \A i \in DOMAIN m_timerRepeats' :
            m_timerRepeats'[i].tid \in DOMAIN m_timers' /\ m_timers'[m_timerRepeats'[i].tid] = i
    BY <1>1, <1>2, <2>1 DEF MapsInv, RepeatsArmedOnce
  <2>4. \A i \in DOMAIN m_timers' : m_timers'[i] # Once =>
            m_timers'[i] \in DOMAIN m_timerRepeats' /\ m_timerRepeats'[m_timers'[i]].tid = i
    BY <1>1, <1>2, <2>2 DEF MapsInv, RepeatsArmedOnce
  <2> QED
    BY <2>3, <2>4 DEF RepeatsArmedOnce
<1> QED
  BY <1>3, <1>4, <1>5 DEF MapsInv

\* repeatableTimeout moves the entry and the record that points at it.
LEMMA MapsMove ==
    ASSUME MapsInv, NEW tid \in DOMAIN m_timers, m_timers[tid] # Once,
           NEW id, id = m_timers[tid],
           NEW next, next = NextRun(tid, m_timerRepeats[id].interval),
           m_timerRepeats' = [m_timerRepeats EXCEPT ![id].tid = next],
           m_timers' = Put(Erase(m_timers, tid), next, id), m_timerNum' = m_timerNum + 1
    PROVE  MapsInv' /\ next # tid
<1>1. /\ id \in DOMAIN m_timerRepeats /\ m_timerRepeats[id].tid = tid
      /\ m_timerRepeats[id] \in Repeats /\ id \in RepeatIds
  BY DEF MapsInv, MapsOK, RepeatsArmedOnce
<1>2. m_timerNum \in Nat /\ tid \in TimerIds
  BY DEF MapsInv, MapsOK
<1>3. next \in TimerIds /\ next[2] = m_timerNum + 1
  BY <1>1, <1>2 DEF NextRun, Repeats, TimerIds
<1>4. next \notin DOMAIN m_timers
  BY <1>2, <1>3 DEF MapsInv, NumsUsed
<1>5. /\ DOMAIN m_timers' = (DOMAIN m_timers \ {tid}) \cup {next} /\ m_timers'[next] = id
      /\ \A i \in DOMAIN m_timers \ {tid} : m_timers'[i] = m_timers[i]
  BY <1>4 DEF Put, Erase, Restrict
<1>6. /\ DOMAIN m_timerRepeats' = DOMAIN m_timerRepeats
      /\ m_timerRepeats'[id].tid = next /\ m_timerRepeats'[id] \in Repeats
      /\ \A i \in DOMAIN m_timerRepeats \ {id} : m_timerRepeats'[i] = m_timerRepeats[i]
  BY <1>1, <1>3 DEF MapsInv, MapsOK, Repeats
<1>7. MapsOK'
  <2>1. Erase(m_timers, tid) \in [DOMAIN Erase(m_timers, tid) -> RepeatIds \cup {Once}]
    BY <1>1, MapTypes DEF MapsInv, MapsOK
  <2>2. m_timers' \in [DOMAIN m_timers' -> RepeatIds \cup {Once}]
    BY <1>1, <2>1, MapTypes
  <2>3. m_timerRepeats' \in [DOMAIN m_timerRepeats' -> Repeats]
    BY <1>6 DEF MapsInv, MapsOK
  <2> QED
    BY <1>2, <1>3, <1>5, <1>6, <2>2, <2>3 DEF MapsInv, MapsOK
<1>8. NumsUsed'
  <2>1. \A i \in DOMAIN m_timers \cup DOMAIN m_timerRepeats : i[2] \in Nat
    BY DEF MapsInv, MapsOK, TimerIds, RepeatIds
  <2> QED
    BY <1>2, <1>3, <1>5, <1>6, <2>1 DEF MapsInv, NumsUsed
<1>9. RepeatsArmedOnce'
  <2>1. \A i \in DOMAIN m_timerRepeats \ {id} : m_timerRepeats[i].tid # tid
    BY <1>1 DEF MapsInv, RepeatsArmedOnce
  <2>2. \A i \in DOMAIN m_timers \ {tid} : m_timers[i] # id
    BY <1>1, KindsDiffer DEF MapsInv, RepeatsArmedOnce
  <2>3. \A i \in DOMAIN m_timerRepeats' :
            m_timerRepeats'[i].tid \in DOMAIN m_timers' /\ m_timers'[m_timerRepeats'[i].tid] = i
    BY <1>5, <1>6, <2>1 DEF MapsInv, RepeatsArmedOnce
  <2>4. \A i \in DOMAIN m_timers' : m_timers'[i] # Once =>
            m_timers'[i] \in DOMAIN m_timerRepeats' /\ m_timerRepeats'[m_timers'[i]].tid = i
    BY <1>1, <1>5, <1>6, <2>2 DEF MapsInv, RepeatsArmedOnce
  <2> QED
    BY <2>3, <2>4 DEF RepeatsArmedOnce
<1> QED
  BY <1>4, <1>7, <1>8, <1>9 DEF MapsInv

\* Every step of user code and of the loop keeps the two maps in step.
LEMMA MapsStep ==
    ASSUME MapsInv, [Next]_vars
    PROVE  MapsInv'
<1>1. ASSUME UNCHANGED <<m_timers, m_timerRepeats, m_timerNum>> PROVE MapsInv'
  BY <1>1 DEF MapsInv, MapsOK, NumsUsed, RepeatsArmedOnce
<1>2. CASE UNCHANGED vars
  BY <1>1, <1>2 DEF vars, timerVars
<1>3. CASE \/ EnterPoll \/ PollTimesOut \/ HandleTimeout \/ TaskReturns \/ TimeoutEnds
           \/ PollEvent \/ Tick \/ Exit
  BY <1>1, <1>3 DEF EnterPoll, PollTimesOut, HandleTimeout, TaskReturns, TimeoutEnds,
                    PollEvent, Tick, Exit, timerVars
<1>4. CASE EnterFinalPoll
  <2>1. m_timers' = <<>> /\ m_timerRepeats' = <<>> /\ m_timerNum' = m_timerNum
    BY <1>4 DEF EnterFinalPoll
  <2>2. DOMAIN m_timers' = {} /\ DOMAIN m_timerRepeats' = {}
    BY <2>1, EmptyMap
  <2>3. /\ m_timers' \in [DOMAIN m_timers' -> RepeatIds \cup {Once}]
        /\ m_timerRepeats' \in [DOMAIN m_timerRepeats' -> Repeats]
    BY <2>1, EmptyMap
  <2> QED
    BY <2>1, <2>2, <2>3 DEF MapsInv, MapsOK, NumsUsed, RepeatsArmedOnce
<1>5. CASE FireOnce
  <2>1. DOMAIN m_timers # {} /\ DOMAIN m_timers \subseteq TimerIds
    BY <1>5, EmptyMap DEF FireOnce, Due, MapsInv, MapsOK
  <2>2. First(m_timers) \in DOMAIN m_timers
    BY <2>1, FirstIsLeast
  <2> QED
    BY <1>5, <2>2, MapsEraseOnce DEF FireOnce
<1>6. CASE FireRepeat
  <2>1. DOMAIN m_timers # {} /\ DOMAIN m_timers \subseteq TimerIds
    BY <1>6, EmptyMap DEF FireRepeat, Due, MapsInv, MapsOK
  <2>2. First(m_timers) \in DOMAIN m_timers
    BY <2>1, FirstIsLeast
  <2> QED
    BY <1>6, <2>2, MapsMove DEF FireRepeat
<1>7. ASSUME NEW at \in Ats, RunOnce(at) PROVE MapsInv'
  BY <1>7, MapsRunOnce
<1>8. ASSUME NEW at \in Ats, NEW interval \in Intervals \ {0}, RunRepeat(at, interval)
      PROVE  MapsInv'
  BY <1>8, MapsRunRepeat
<1>9. ASSUME NEW id \in DOMAIN m_timers, CancelOnce(id) PROVE MapsInv'
  BY <1>9, MapsEraseOnce DEF CancelOnce
<1>10. ASSUME NEW id \in DOMAIN m_timerRepeats, CancelRepeat(id) PROVE MapsInv'
  BY <1>10, MapsEraseRepeat DEF CancelRepeat
<1> QED
  BY <1>2, <1>3, <1>4, <1>5, <1>6, <1>7, <1>8, <1>9, <1>10 DEF Next, LoopStep

\* The maps are empty at first.
LEMMA MapsInit == Init => MapsInv
<1> SUFFICES ASSUME Init PROVE MapsInv
  OBVIOUS
<1>1. m_timers = <<>> /\ m_timerRepeats = <<>> /\ m_timerNum = 0
  BY DEF Init
<1>2. DOMAIN m_timers = {} /\ DOMAIN m_timerRepeats = {}
  BY <1>1, EmptyMap
<1>3. /\ m_timers \in [DOMAIN m_timers -> RepeatIds \cup {Once}]
      /\ m_timerRepeats \in [DOMAIN m_timerRepeats -> Repeats]
  BY <1>1, EmptyMap
<1> QED
  BY <1>1, <1>2, <1>3 DEF MapsInv, MapsOK, NumsUsed, RepeatsArmedOnce

\* The maps agree with each other in every behaviour.
LEMMA MapsAlways == Spec => []MapsInv
<1>1. MapsInv /\ [Next]_vars => MapsInv'
  BY MapsStep
<1> QED
  BY <1>1, MapsInit, PTL DEF Spec, SafeSpec

\* The two maps of runAt, cancel and repeatableTimeout agree: a periodic timer
\* is never forgotten, armed twice or reached through a dangling pointer.
THEOREM ArmedOnce == Spec => []RepeatsArmedOnce
<1>1. MapsInv => RepeatsArmedOnce
  BY DEF MapsInv
<1> QED
  BY <1>1, MapsAlways, PTL

-----------------------------------------------------------------------------
(* The passes of the loop *)

\* Strengthening: the maps are dropped after m_exit is set, and then runAt
\* does nothing.
FinalInv == final => m_exit /\ m_timers = <<>> /\ m_timerRepeats = <<>>

\* Both maps are empty from the final poll on.
LEMMA FinalStep ==
    ASSUME FinalInv, [Next]_vars
    PROVE  FinalInv'
<1>1. CASE UNCHANGED vars
  BY <1>1 DEF vars, timerVars, loopVars, FinalInv
<1>2. CASE \/ EnterPoll \/ PollTimesOut \/ HandleTimeout \/ TaskReturns \/ TimeoutEnds
           \/ PollEvent \/ Tick \/ Exit
  BY <1>2 DEF EnterPoll, PollTimesOut, HandleTimeout, TaskReturns, TimeoutEnds,
              PollEvent, Tick, Exit, timerVars, loopVars, FinalInv
<1>3. CASE EnterFinalPoll
  BY <1>3 DEF EnterFinalPoll, FinalInv
<1>4. CASE FireOnce \/ FireRepeat
  BY <1>4 DEF FireOnce, FireRepeat, Due, FinalInv
<1>5. CASE \/ \E at \in Ats : RunOnce(at)
           \/ \E at \in Ats, interval \in Intervals \ {0} : RunRepeat(at, interval)
  BY <1>5 DEF RunOnce, RunRepeat, MayRun, FinalInv
<1>6. ASSUME NEW id \in DOMAIN m_timers, CancelOnce(id) PROVE FinalInv'
  BY <1>6, EmptyMap DEF CancelOnce, loopVars, FinalInv
<1>7. ASSUME NEW id \in DOMAIN m_timerRepeats, CancelRepeat(id) PROVE FinalInv'
  BY <1>7, EmptyMap DEF CancelRepeat, loopVars, FinalInv
<1> QED
  BY <1>1, <1>2, <1>3, <1>4, <1>5, <1>6, <1>7 DEF Next, LoopStep

\* The pass that loop() makes after its while loop runs no timer and leaves
\* none behind, whatever callbacks call in it.
THEOREM NoneAfterLoop == Spec => []NoTimerAfterLoop
<1>1. Init => FinalInv
  BY DEF Init, FinalInv
<1>2. FinalInv /\ [Next]_vars => FinalInv'
  BY FinalStep
<1>3. FinalInv => NoTimerAfterLoop
  BY DEF FinalInv, NoTimerAfterLoop
<1> QED
  BY <1>1, <1>2, <1>3, PTL DEF Spec, SafeSpec

-----------------------------------------------------------------------------
(* The times *)

TimesOK ==
    /\ clock \in Nat /\ now \in Nat /\ ready \in Nat /\ left \in Nat /\ m_nextTimeout \in Nat
    /\ now <= clock /\ clock <= MaxTime

\* The conversion to int keeps what fits, and never makes a lateness that
\* fits larger.
LEMMA ToIntBelow ==
    ASSUME NEW x \in Int
    PROVE  /\ ToInt(x) \in Int
           /\ x >= -(IntMod \div 2) => ToInt(x) <= x
<1>1. IntMod \in Nat \ {0} /\ IntMod \div 2 \in Nat
  BY TimersAssumption DEF TimersAssumption
<1>2. \A a \in Int, m \in Nat \ {0} : a % m \in 0..(m - 1)
  OBVIOUS
<1>3. \A a \in Nat, m \in Nat \ {0} : a % m <= a
  OBVIOUS
<1> DEFINE h == IntMod \div 2
           r == (x + h) % IntMod
<1>4. h \in Nat /\ ToInt(x) = r - h
  BY <1>1 DEF ToInt
<1>5. r \in Int
  BY <1>1, <1>2, <1>4
<1>6. x + h >= 0 => r <= x + h
  BY <1>1, <1>3, <1>4
<1> HIDE DEF h, r
<1>7. ToInt(x) \in Int /\ (x >= -h => ToInt(x) <= x)
  BY <1>4, <1>5, <1>6
<1> QED
  BY <1>7 DEF h

\* What refreshNearest computes reaches no further than the first timer, if
\* that is not so late that the difference no longer fits an int.
LEMMA Refreshed ==
    ASSUME NEW m, DOMAIN m \subseteq TimerIds, m = <<>> <=> DOMAIN m = {},
           clock \in Nat, RefreshNearest(m)
    PROVE  /\ m_nextTimeout' \in Nat
           /\ (\A id \in DOMAIN m : clock - id[1] <= IntMod \div 2) =>
                 m_nextTimeout' = 0 \/ \A id \in DOMAIN m : m_nextTimeout' <= id[1] - clock
<1>1. Never \in Nat
  BY TimersAssumption DEF TimersAssumption, Never
<1>2. CASE m = <<>>
  BY <1>1, <1>2 DEF RefreshNearest
<1>3. CASE m # <<>>
  <2> DEFINE f == First(m)[1]
             d == ToInt(f - clock)
  <2>1. First(m) \in DOMAIN m /\ \A id \in DOMAIN m : f <= id[1]
    BY <1>3, FirstIsLeast
  <2>2. f \in Nat /\ \A id \in DOMAIN m : id[1] \in Nat
    BY <2>1 DEF TimerIds
  <2>3. m_nextTimeout' = IF d < 0 THEN 0 ELSE d
    BY <1>3 DEF RefreshNearest
  <2>4. f - clock \in Int /\ IntMod \div 2 \in Nat
    BY <2>2, TimersAssumption DEF TimersAssumption
  <2>5. d \in Int /\ (f - clock >= -(IntMod \div 2) => d <= f - clock)
    BY <2>4, ToIntBelow
  <2> HIDE DEF f, d
  <2>6. m_nextTimeout' \in Nat
    BY <2>3, <2>5
  <2>7. ASSUME \A id \in DOMAIN m : clock - id[1] <= IntMod \div 2
        PROVE  m_nextTimeout' = 0 \/ \A id \in DOMAIN m : m_nextTimeout' <= id[1] - clock
    <3>1. clock - f <= IntMod \div 2
      BY <2>1, <2>7 DEF f
    <3>2. d <= f - clock
      BY <2>2, <2>4, <2>5, <3>1
    <3> QED
      BY <2>1, <2>2, <2>3, <2>5, <3>2
  <2> QED
    BY <2>6, <2>7
<1> QED
  BY <1>2, <1>3

\* Whoever refreshes m_nextTimeout leaves a number of milliseconds to sleep.
LEMMA TimeoutIsNat ==
    ASSUME MapsInv, MapsInv', TimesOK, [Next]_vars
    PROVE  m_nextTimeout' \in Nat
<1>1. /\ DOMAIN m_timers \subseteq TimerIds /\ (m_timers = <<>> <=> DOMAIN m_timers = {})
      /\ DOMAIN m_timers' \subseteq TimerIds /\ (m_timers' = <<>> <=> DOMAIN m_timers' = {})
  BY EmptyMap DEF MapsInv, MapsOK
<1>2. clock \in Nat /\ m_nextTimeout \in Nat
  BY DEF TimesOK
<1>3. CASE RefreshNearest(m_timers) \/ RefreshNearest(m_timers')
  BY <1>1, <1>2, <1>3, Refreshed
<1>4. CASE UNCHANGED m_nextTimeout
  BY <1>2, <1>4
<1> QED
  BY <1>3, <1>4 DEF Next, LoopStep, vars, timerVars, EnterPoll, EnterFinalPoll, PollTimesOut,
     HandleTimeout, FireOnce, FireRepeat, TaskReturns, TimeoutEnds, PollEvent, Tick, Exit,
     RunOnce, RunRepeat, CancelOnce, CancelRepeat

\* Every step keeps the times what they are: numbers up to the bound.
LEMMA TimesStep ==
    ASSUME MapsInv, MapsInv', TimesOK, [Next]_vars
    PROVE  TimesOK'
<1>1. m_nextTimeout' \in Nat
  BY TimeoutIsNat
<1>2. MaxWait \in Nat /\ MaxTime \in Nat
  BY TimersAssumption DEF TimersAssumption
<1>3. CASE EnterPoll
  BY <1>1, <1>2, <1>3 DEF EnterPoll, TimesOK, Lesser
<1>4. CASE EnterFinalPoll
  BY <1>1, <1>4 DEF EnterFinalPoll, TimesOK, Lesser
<1>5. CASE Tick
  BY <1>1, <1>2, <1>5 DEF Tick, TimesOK, Lesser
<1>6. CASE HandleTimeout \/ TimeoutEnds \/ PollEvent
  BY <1>1, <1>6 DEF HandleTimeout, TimeoutEnds, PollEvent, TimesOK
<1>7. CASE PollTimesOut \/ FireOnce \/ FireRepeat \/ TaskReturns \/ Exit \/ UNCHANGED vars
  BY <1>1, <1>7 DEF PollTimesOut, FireOnce, FireRepeat, TaskReturns, Exit, vars, loopVars, TimesOK
<1>8. CASE \/ \E at \in Ats : RunOnce(at)
           \/ \E at \in Ats, interval \in Intervals \ {0} : RunRepeat(at, interval)
  BY <1>1, <1>8 DEF RunOnce, RunRepeat, SetReady, TimesOK
<1>9. CASE \/ \E id \in DOMAIN m_timers : CancelOnce(id)
           \/ \E id \in DOMAIN m_timerRepeats : CancelRepeat(id)
  BY <1>1, <1>9 DEF CancelOnce, CancelRepeat, loopVars, TimesOK
<1> QED
  BY <1>3, <1>4, <1>5, <1>6, <1>7, <1>8, <1>9 DEF Next, LoopStep

\* The times at first.
LEMMA TimesInit == Init => TimesOK
<1>1. Never \in Nat /\ MaxTime \in Nat
  BY TimersAssumption DEF TimersAssumption, Never
<1> QED
  BY <1>1 DEF Init, TimesOK

\* The times are numbers in every behaviour.
LEMMA TimesAlways == Spec => [](MapsInv /\ TimesOK)
<1>1. MapsInv /\ TimesOK /\ [Next]_vars => MapsInv' /\ TimesOK'
  BY MapsStep, TimesStep
<1> QED
  BY <1>1, MapsInit, TimesInit, PTL DEF Spec, SafeSpec

\* handleTimeout ends only when begin() is not due, and begin() is the least.
LEMMA DueStep ==
    ASSUME MapsInv, TimesOK, AllDueFired, [Next]_vars
    PROVE  AllDueFired'
<1> USE DEF AllDueFired
<1>1. CASE TimeoutEnds
  <2>1. m_timers' = m_timers /\ now' = now
    BY <1>1 DEF TimeoutEnds
  <2>2. ASSUME NEW id \in DOMAIN m_timers PROVE id[1] > now
    <3>1. m_timers # <<>> /\ DOMAIN m_timers \subseteq TimerIds
      BY <2>2, EmptyMap DEF MapsInv, MapsOK
    <3>2. First(m_timers) \in DOMAIN m_timers /\ First(m_timers)[1] <= id[1]
      BY <2>2, <3>1, FirstIsLeast
    <3>3. ~(First(m_timers)[1] <= now)
      BY <1>1, <3>1 DEF TimeoutEnds, Due
    <3>4. First(m_timers)[1] \in Nat /\ id[1] \in Nat /\ now \in Nat
      BY <2>2, <3>1, <3>2 DEF TimerIds, TimesOK
    <3> QED
      BY <3>2, <3>3, <3>4
  <2> QED
    BY <2>1, <2>2
<1>2. CASE Tick \/ Exit \/ UNCHANGED vars
  BY <1>2 DEF Tick, Exit, vars, timerVars, loopVars
<1>3. CASE \/ EnterPoll \/ EnterFinalPoll \/ PollTimesOut \/ HandleTimeout \/ FireOnce
           \/ FireRepeat \/ TaskReturns \/ PollEvent
  BY <1>3 DEF EnterPoll, EnterFinalPoll, PollTimesOut, HandleTimeout, FireOnce, FireRepeat,
              TaskReturns, PollEvent
<1>4. CASE \/ \E at \in Ats : RunOnce(at)
           \/ \E at \in Ats, interval \in Intervals \ {0} : RunRepeat(at, interval)
  BY <1>4 DEF RunOnce, RunRepeat, MayRun, UserCode
<1>5. CASE \/ \E id \in DOMAIN m_timers : CancelOnce(id)
           \/ \E id \in DOMAIN m_timerRepeats : CancelRepeat(id)
  BY <1>5 DEF CancelOnce, CancelRepeat, UserCode, loopVars
<1> QED
  BY <1>1, <1>2, <1>3, <1>4, <1>5 DEF Next, LoopStep

\* handleTimeout leaves nothing behind that was due when it read the clock,
\* also not what the tasks it ran have set or moved on.
THEOREM NoneLeftDue == Spec => []AllDueFired
<1>1. Init => AllDueFired
  BY DEF Init, AllDueFired
<1>2. MapsInv /\ TimesOK /\ AllDueFired /\ [Next]_vars => AllDueFired'
  BY DueStep
<1> QED
  BY <1>1, <1>2, TimesAlways, PTL DEF Spec, SafeSpec

-----------------------------------------------------------------------------
(* The sleep *)

\* No timer is so late that its difference to the clock does not fit an int:
\* 2^31 milliseconds are 24 days.
FitsInt == \A id \in DOMAIN m_timers : clock - id[1] <= IntMod \div 2

\* Strengthening: in the loop's test m_nextTimeout is fresh, and epoll_wait
\* starts from it.
SleepInv ==
    /\ phase \in {"setup", "check"} =>
          m_nextTimeout = 0 \/ \A id \in DOMAIN m_timers : m_nextTimeout <= id[1] - ready
    /\ phase = "poll" =>
          left = 0 \/ \A id \in DOMAIN m_timers : left <= id[1] - ready

\* Every step keeps the sleep no longer than the first timer allows.
LEMMA SleepStep ==
    ASSUME MapsInv, MapsInv', TimesOK, FitsInt, FitsInt', SleepInv, [Next]_vars
    PROVE  SleepInv'
<1> USE DEF SleepInv
<1>0. /\ DOMAIN m_timers \subseteq TimerIds /\ (m_timers = <<>> <=> DOMAIN m_timers = {})
      /\ DOMAIN m_timers' \subseteq TimerIds /\ (m_timers' = <<>> <=> DOMAIN m_timers' = {})
  BY EmptyMap DEF MapsInv, MapsOK
<1>1. /\ clock \in Nat /\ ready \in Nat /\ left \in Nat /\ m_nextTimeout \in Nat /\ MaxWait \in Nat
      /\ \A id \in DOMAIN m_timers : id[1] \in Nat
  BY <1>0, TimersAssumption DEF TimesOK, TimerIds, TimersAssumption
<1>2. CASE EnterPoll
  BY <1>1, <1>2 DEF EnterPoll, Lesser, timerVars
<1>3. CASE EnterFinalPoll
  BY <1>0, <1>3 DEF EnterFinalPoll
<1>4. CASE TimeoutEnds
  <2>1. m_nextTimeout' = 0 \/ \A id \in DOMAIN m_timers : m_nextTimeout' <= id[1] - clock
    BY <1>0, <1>1, <1>4, Refreshed DEF TimeoutEnds, FitsInt
  <2> QED
    BY <1>4, <2>1 DEF TimeoutEnds
<1>5. CASE Tick
  BY <1>1, <1>5 DEF Tick, timerVars
<1>6. CASE Exit \/ UNCHANGED vars
  BY <1>6 DEF Exit, vars, timerVars, loopVars
<1>7. CASE \/ PollTimesOut \/ HandleTimeout \/ FireOnce \/ FireRepeat \/ TaskReturns \/ PollEvent
  BY <1>7 DEF PollTimesOut, HandleTimeout, FireOnce, FireRepeat, TaskReturns, PollEvent
<1>8. CASE \/ \E at \in Ats : RunOnce(at)
           \/ \E at \in Ats, interval \in Intervals \ {0} : RunRepeat(at, interval)
  <2>1. /\ RefreshNearest(m_timers') /\ SetReady /\ clock' = clock /\ phase' = phase
        /\ phase \in {"setup", "callback", "running"}
    BY <1>8 DEF RunOnce, RunRepeat, MayRun, UserCode
  <2>2. m_nextTimeout' = 0 \/ \A id \in DOMAIN m_timers' : m_nextTimeout' <= id[1] - clock
    <3>1. \A id \in DOMAIN m_timers' : clock - id[1] <= IntMod \div 2
      BY <2>1 DEF FitsInt
    <3> QED
      BY <1>0, <1>1, <2>1, <3>1, Refreshed
  <2> QED
    BY <2>1, <2>2 DEF SetReady
<1>9. CASE \/ \E id \in DOMAIN m_timers : CancelOnce(id)
           \/ \E id \in DOMAIN m_timerRepeats : CancelRepeat(id)
  <2>1. /\ phase \in {"setup", "callback", "running"} /\ phase' = phase
        /\ m_nextTimeout' = m_nextTimeout /\ ready' = ready
    BY <1>9 DEF CancelOnce, CancelRepeat, UserCode, loopVars
  <2>2. DOMAIN m_timers' \subseteq DOMAIN m_timers
    BY <1>9 DEF CancelOnce, CancelRepeat, Erase, Restrict
  <2> QED
    BY <2>1, <2>2
<1> QED
  BY <1>2, <1>3, <1>4, <1>5, <1>6, <1>7, <1>8, <1>9 DEF Next, LoopStep

\* The stored m_nextTimeout never makes epoll_wait sleep past the first timer,
\* counted from the time it was computed, as long as no timer is late by more
\* than an int of milliseconds holds; of a timer later than that the
\* conversion in refreshNearest can make a time ahead.
THEOREM NoOversleep == Spec /\ []FitsInt => []SleepsNoLonger
<1>1. Init => SleepInv
  BY EmptyMap DEF Init, SleepInv
<1>2. MapsInv /\ MapsInv' /\ TimesOK /\ FitsInt /\ FitsInt' /\ SleepInv /\ [Next]_vars
      => SleepInv'
  BY SleepStep
<1>3. MapsInv /\ SleepInv => SleepsNoLonger
  <2> SUFFICES ASSUME MapsInv, SleepInv, phase = "poll", m_timers # <<>>
               PROVE  left = 0 \/ left <= First(m_timers)[1] - ready
    BY DEF SleepsNoLonger
  <2>1. DOMAIN m_timers # {} /\ DOMAIN m_timers \subseteq TimerIds
    BY EmptyMap DEF MapsInv, MapsOK
  <2>2. First(m_timers) \in DOMAIN m_timers
    BY <2>1, FirstIsLeast
  <2> QED
    BY <2>2 DEF SleepInv
<1> QED
  BY <1>1, <1>2, <1>3, TimesAlways, PTL DEF Spec, SafeSpec

-----------------------------------------------------------------------------
(* Calls and cancels *)

\* Strengthening: a task is called in its phase only, and the ids cancelled
\* have been given out.
CallInv ==
    /\ running \subseteq TimerIds \cup RepeatIds /\ cancelled \subseteq TimerIds \cup RepeatIds
    /\ phase # "running" => running = {}
    /\ \A id \in cancelled : id[2] <= m_timerNum

\* Ids have numbers.
LEMMA IdNumbers == \A id \in TimerIds \cup RepeatIds : id[2] \in Nat
BY DEF TimerIds, RepeatIds

\* No step gives back a number.
LEMMA NumsGrow ==
    ASSUME MapsInv, [Next]_vars
    PROVE  m_timerNum \in Nat /\ m_timerNum' \in Nat /\ m_timerNum <= m_timerNum'
<1>1. m_timerNum \in Nat
  BY DEF MapsInv, MapsOK
<1>2. m_timerNum' \in {m_timerNum, m_timerNum + 1, m_timerNum + 2}
  BY DEF Next, LoopStep, vars, timerVars, EnterPoll, EnterFinalPoll, PollTimesOut,
     HandleTimeout, FireOnce, FireRepeat, TaskReturns, TimeoutEnds, PollEvent, Tick, Exit,
     RunOnce, RunRepeat, CancelOnce, CancelRepeat
<1> QED
  BY <1>1, <1>2

\* handleTimeout calls a task at a time, and a cancelled id is a used one.
LEMMA CallStep ==
    ASSUME MapsInv, CallInv, [Next]_vars
    PROVE  CallInv'
<1> DEFINE Ids == TimerIds \cup RepeatIds
<1>0. m_timerNum \in Nat /\ m_timerNum' \in Nat /\ m_timerNum <= m_timerNum'
  BY NumsGrow
<1>1. /\ \A id \in DOMAIN m_timers : id \in Ids /\ id[2] <= m_timerNum
      /\ \A id \in DOMAIN m_timerRepeats : id \in Ids /\ id[2] <= m_timerNum
  BY DEF MapsInv, MapsOK, NumsUsed
<1>2. ASSUME cancelled' \subseteq cancelled \cup DOMAIN m_timers \cup DOMAIN m_timerRepeats
      PROVE  cancelled' \subseteq Ids /\ \A id \in cancelled' : id[2] <= m_timerNum'
  <2>1. \A id \in cancelled' : id \in Ids /\ id[2] <= m_timerNum
    BY <1>1, <1>2 DEF CallInv
  <2>2. \A id \in cancelled' : id[2] \in Nat
    BY <2>1, IdNumbers
  <2> HIDE DEF Ids
  <2> QED
    BY <1>0, <2>1, <2>2
<1>3. CASE UNCHANGED <<phase, running>> \/ (running' = running /\ phase # "running")
  <2>1. cancelled' \subseteq cancelled \cup DOMAIN m_timers \cup DOMAIN m_timerRepeats
    BY <1>3 DEF Next, LoopStep, vars, callVars, EnterPoll, EnterFinalPoll, PollTimesOut,
       HandleTimeout, FireOnce, FireRepeat, TaskReturns, TimeoutEnds, PollEvent, Tick, Exit,
       RunOnce, RunRepeat, CancelOnce, CancelRepeat
  <2> QED
    BY <1>2, <1>3, <2>1 DEF CallInv
<1>4. CASE TaskReturns
  BY <1>2, <1>4 DEF TaskReturns, CallInv
<1>5. CASE FireOnce
  <2>1. First(m_timers) \in DOMAIN m_timers
    BY <1>5, EmptyMap, FirstIsLeast DEF FireOnce, Due, MapsInv, MapsOK
  <2>2. running' = {First(m_timers)} /\ phase' = "running" /\ cancelled' = cancelled
    BY <1>5 DEF FireOnce
  <2> QED
    BY <1>1, <1>2, <2>1, <2>2 DEF CallInv
<1>6. CASE FireRepeat
  <2>1. First(m_timers) \in DOMAIN m_timers
    BY <1>6, EmptyMap, FirstIsLeast DEF FireRepeat, Due, MapsInv, MapsOK
  <2>2. /\ running' = {m_timers[First(m_timers)]} /\ phase' = "running" /\ cancelled' = cancelled
        /\ m_timers[First(m_timers)] # Once
    BY <1>6 DEF FireRepeat
  <2>3. m_timers[First(m_timers)] \in DOMAIN m_timerRepeats
    BY <2>1, <2>2 DEF MapsInv, RepeatsArmedOnce
  <2> QED
    BY <1>1, <1>2, <2>2, <2>3 DEF CallInv
<1>7. UNCHANGED <<phase, running>> \/ (running' = running /\ phase # "running")
      \/ TaskReturns \/ FireOnce \/ FireRepeat
  BY DEF Next, LoopStep, vars, loopVars, callVars, EnterPoll, EnterFinalPoll, PollTimesOut,
     HandleTimeout, TimeoutEnds, PollEvent, Tick, Exit, RunOnce, RunRepeat, CancelOnce,
     CancelRepeat
<1> QED
  BY <1>3, <1>4, <1>5, <1>6, <1>7

LEMMA CallAlways == Spec => [](MapsInv /\ TimesOK /\ CallInv)
<1>1. Init => CallInv
  BY DEF Init, CallInv
<1>2. MapsInv /\ TimesOK /\ CallInv /\ [Next]_vars => CallInv'
  BY CallStep
<1> QED
  BY <1>1, <1>2, TimesAlways, PTL DEF Spec, SafeSpec

-----------------------------------------------------------------------------
(* The refinement of TimerService *)

OnceRec(id) == [id |-> id, due |-> id[1], every |-> 0]
RepeatRec(id, r) == [id |-> id, due |-> r.tid[1], every |-> r.interval]

\* The two kinds of armed timers, as sets.
OnceArmed == {OnceRec(id) : id \in {i \in DOMAIN m_timers : m_timers[i] = Once}}
RepeatsArmed == {RepeatRec(id, m_timerRepeats[id]) : id \in DOMAIN m_timerRepeats}

\* What is armed: the timers that fire once and those that repeat.
LEMMA ArmedParts ==
    /\ Armed = OnceArmed \cup RepeatsArmed
    /\ Armed' = OnceArmed' \cup RepeatsArmed'
BY DEF Armed, OnceArmed, RepeatsArmed, OnceRec, RepeatRec

\* The ids and periods of the two kinds tell them apart.
LEMMA PartsApart ==
    ASSUME MapsInv
    PROVE  /\ \A s \in OnceArmed : s.id \in DOMAIN m_timers /\ s.id \in TimerIds /\ s.every = 0
                                   /\ s.due = s.id[1]
           /\ \A s \in RepeatsArmed : /\ s.id \in DOMAIN m_timerRepeats /\ s.id \in RepeatIds
                                      /\ s.every \in Nat \ {0}
                                      /\ s.due = m_timerRepeats[s.id].tid[1]
<1>1. \A id \in DOMAIN m_timers : id \in TimerIds
  BY DEF MapsInv, MapsOK
<1>2. \A id \in DOMAIN m_timerRepeats : id \in RepeatIds /\ m_timerRepeats[id] \in Repeats
  BY DEF MapsInv, MapsOK
<1>3. \A s \in OnceArmed : s.id \in DOMAIN m_timers /\ s.every = 0 /\ s.due = s.id[1]
  BY DEF OnceArmed, OnceRec
<1>4. \A s \in RepeatsArmed : /\ s.id \in DOMAIN m_timerRepeats
                              /\ s.every = m_timerRepeats[s.id].interval
                              /\ s.due = m_timerRepeats[s.id].tid[1]
  BY DEF RepeatsArmed, RepeatRec
<1> QED
  BY <1>1, <1>2, <1>3, <1>4 DEF Repeats

\* No armed timer is due before begin().
LEMMA FirstDue ==
    ASSUME MapsInv, DOMAIN m_timers # {}
    PROVE  \A s \in Armed : First(m_timers)[1] <= s.due
<1>1. \A id \in DOMAIN m_timers : First(m_timers)[1] <= id[1]
  BY FirstIsLeast DEF MapsInv, MapsOK
<1>2. \A id \in DOMAIN m_timerRepeats : m_timerRepeats[id].tid \in DOMAIN m_timers
  BY DEF MapsInv, RepeatsArmedOnce
<1> QED
  BY <1>1, <1>2, ArmedParts, PartsApart

\* runAt arms one timer with an id of its own.
LEMMA ArmsOnce ==
    ASSUME MapsInv, CallInv, NEW at \in Ats, RunOnce(at)
    PROVE  \E r \in Armed' : S!Arm(r)
<1> DEFINE id == <<at, m_timerNum + 1>>
           r == OnceRec(id)
<1>1. /\ m_timers' = Put(m_timers, id, Once)
      /\ UNCHANGED <<m_timerRepeats, clock, m_exit, running, cancelled>>
      /\ ~m_exit /\ m_timerNum \in Nat
  BY DEF RunOnce, MayRun, callVars, MapsInv, MapsOK
<1>2. id \in TimerIds /\ id \notin DOMAIN m_timers
  BY <1>1, TimersAssumption DEF TimersAssumption, TimerIds, MapsInv, NumsUsed
<1>3. id \notin cancelled
  BY <1>1 DEF CallInv
<1> HIDE DEF id
<1>4. /\ DOMAIN m_timers' = DOMAIN m_timers \cup {id} /\ m_timers'[id] = Once
      /\ \A i \in DOMAIN m_timers : m_timers'[i] = m_timers[i]
  BY <1>1, <1>2 DEF Put
<1>5. OnceArmed' = OnceArmed \cup {r} /\ RepeatsArmed' = RepeatsArmed
  BY <1>1, <1>4 DEF OnceArmed, RepeatsArmed
<1>6. \A s \in Armed : s.id # r.id
  <2>1. r.id = id
    BY DEF OnceRec
  <2> QED
    BY <1>2, <2>1, ArmedParts, PartsApart, KindsDiffer
<1>7. Armed' = Armed \cup {r}
  BY <1>5, ArmedParts
<1>8. r.id \notin cancelled
  BY <1>3 DEF OnceRec
<1> QED
  BY <1>1, <1>6, <1>7, <1>8 DEF S!Arm

\* runAt with an interval arms one repeated timer of the service.
LEMMA ArmsRepeat ==
    ASSUME MapsInv, CallInv, NEW at \in Ats, NEW interval \in Intervals \ {0},
           RunRepeat(at, interval)
    PROVE  \E r \in Armed' : S!Arm(r)
<1> DEFINE id == <<-at, m_timerNum + 1>>
           tid == <<at, m_timerNum + 2>>
           rec == [interval |-> interval, tid |-> tid]
           r == RepeatRec(id, rec)
<1>1. /\ m_timers' = Put(m_timers, tid, id) /\ m_timerRepeats' = Put(m_timerRepeats, id, rec)
      /\ UNCHANGED <<clock, m_exit, running, cancelled>> /\ ~m_exit /\ m_timerNum \in Nat
  BY DEF RunRepeat, MayRun, callVars, MapsInv, MapsOK
<1>2. /\ id \in RepeatIds /\ id \notin DOMAIN m_timerRepeats
      /\ tid \in TimerIds /\ tid \notin DOMAIN m_timers
  BY <1>1, TimersAssumption DEF TimersAssumption, TimerIds, RepeatIds, MapsInv, NumsUsed
<1>3. id \notin cancelled
  BY <1>1 DEF CallInv
<1> HIDE DEF id, tid, rec
<1>4. /\ DOMAIN m_timers' = DOMAIN m_timers \cup {tid} /\ m_timers'[tid] = id
      /\ \A i \in DOMAIN m_timers : m_timers'[i] = m_timers[i]
  BY <1>1, <1>2 DEF Put
<1>5. /\ DOMAIN m_timerRepeats' = DOMAIN m_timerRepeats \cup {id} /\ m_timerRepeats'[id] = rec
      /\ \A i \in DOMAIN m_timerRepeats : m_timerRepeats'[i] = m_timerRepeats[i]
  BY <1>1, <1>2 DEF Put
<1>6. OnceArmed' = OnceArmed
  BY <1>2, <1>4, KindsDiffer DEF OnceArmed
<1>7. RepeatsArmed' = RepeatsArmed \cup {r}
  BY <1>5 DEF RepeatsArmed
<1>8. \A s \in Armed : s.id # r.id
  <2>1. r.id = id
    BY DEF RepeatRec
  <2> QED
    BY <1>2, <2>1, ArmedParts, PartsApart, KindsDiffer
<1>9. Armed' = Armed \cup {r}
  BY <1>6, <1>7, ArmedParts
<1>10. r.id \notin cancelled
  BY <1>3 DEF RepeatRec
<1> QED
  BY <1>1, <1>8, <1>9, <1>10 DEF S!Arm

\* A one-shot timer that leaves the map leaves the set.
LEMMA DisarmsOnce ==
    ASSUME MapsInv, NEW id \in DOMAIN m_timers, m_timers[id] = Once,
           m_timers' = Erase(m_timers, id), m_timerRepeats' = m_timerRepeats
    PROVE  OnceRec(id) \in Armed /\ Armed' = Armed \ {OnceRec(id)}
<1>1. /\ DOMAIN m_timers' = DOMAIN m_timers \ {id}
      /\ \A i \in DOMAIN m_timers \ {id} : m_timers'[i] = m_timers[i]
  BY DEF Erase, Restrict
<1>2. \A i : OnceRec(i).id = i
  BY DEF OnceRec
<1>3. OnceArmed' = OnceArmed \ {OnceRec(id)}
  BY <1>1, <1>2 DEF OnceArmed
<1>4. OnceRec(id) \in OnceArmed /\ RepeatsArmed' = RepeatsArmed
  BY DEF OnceArmed, RepeatsArmed
<1>5. OnceRec(id) \notin RepeatsArmed
  BY <1>4, PartsApart
<1> QED
  BY <1>3, <1>4, <1>5, ArmedParts

\* A cancelled periodic timer leaves the set.
LEMMA DisarmsRepeat ==
    ASSUME MapsInv, NEW id \in DOMAIN m_timerRepeats, CancelRepeat(id)
    PROVE  \E r \in Armed : S!Cancel(r)
<1> DEFINE tid == m_timerRepeats[id].tid
           r == RepeatRec(id, m_timerRepeats[id])
<1>1. /\ m_timers' = Erase(m_timers, tid) /\ m_timerRepeats' = Erase(m_timerRepeats, id)
      /\ cancelled' = cancelled \cup {id} /\ UNCHANGED <<clock, m_exit, running>>
  BY DEF CancelRepeat
<1>2. tid \in DOMAIN m_timers /\ m_timers[tid] = id /\ id # Once
  BY KindsDiffer DEF MapsInv, MapsOK, RepeatsArmedOnce
<1>3. OnceArmed' = OnceArmed
  <2>1. /\ DOMAIN m_timers' = DOMAIN m_timers \ {tid}
        /\ \A i \in DOMAIN m_timers \ {tid} : m_timers'[i] = m_timers[i]
    BY <1>1 DEF Erase, Restrict
  <2> QED
    BY <1>2, <2>1 DEF OnceArmed
<1>4. RepeatsArmed' = RepeatsArmed \ {r}
  <2>1. /\ DOMAIN m_timerRepeats' = DOMAIN m_timerRepeats \ {id}
        /\ \A i \in DOMAIN m_timerRepeats \ {id} : m_timerRepeats'[i] = m_timerRepeats[i]
    BY <1>1 DEF Erase, Restrict
  <2>2. \A i, x : RepeatRec(i, x).id = i
    BY DEF RepeatRec
  <2> QED
    BY <2>1, <2>2 DEF RepeatsArmed
<1>5. r \in RepeatsArmed /\ r \notin OnceArmed
  <2>1. r \in RepeatsArmed
    BY DEF RepeatsArmed
  <2> QED
    BY <2>1, PartsApart
<1>6. Armed' = Armed \ {r} /\ r \in Armed
  BY <1>3, <1>4, <1>5, ArmedParts
<1>7. r.id = id
  BY DEF RepeatRec
<1> QED
  BY <1>1, <1>6, <1>7 DEF S!Cancel

\* A periodic timer that fires is due one period later.
LEMMA FiresRepeat ==
    ASSUME MapsInv, TimesOK, CallInv, FireRepeat
    PROVE  \E r \in Armed : S!Fire(r)
<1> DEFINE tid == First(m_timers)
           id == m_timers[tid]
           rec == m_timerRepeats[id]
           next == NextRun(tid, rec.interval)
           r == RepeatRec(id, rec)
           s == RepeatRec(id, [rec EXCEPT !.tid = next])
<1>1. /\ Due /\ id # Once /\ UNCHANGED <<clock, m_exit, cancelled>>
      /\ running = {} /\ running' = {id}
      /\ m_timers' = Put(Erase(m_timers, tid), next, id)
      /\ m_timerRepeats' = [m_timerRepeats EXCEPT ![id].tid = next]
  BY DEF FireRepeat, CallInv
<1>2. DOMAIN m_timers # {} /\ tid \in DOMAIN m_timers
  BY <1>1, EmptyMap, FirstIsLeast DEF Due, MapsInv, MapsOK
<1>3. /\ id \in DOMAIN m_timerRepeats /\ rec.tid = tid /\ rec \in Repeats
      /\ tid \in TimerIds /\ m_timerNum \in Nat
  BY <1>1, <1>2 DEF MapsInv, MapsOK, RepeatsArmedOnce
<1>4. next \notin DOMAIN m_timers /\ next[1] = tid[1] + rec.interval
  <2>1. next[2] = m_timerNum + 1
    BY DEF NextRun
  <2> QED
    BY <1>3, <2>1 DEF NextRun, MapsInv, NumsUsed
<1>5. r.due <= clock /\ \A a \in Armed : r.due <= a.due
  <2>1. r.due = First(m_timers)[1]
    BY <1>3 DEF RepeatRec
  <2>2. First(m_timers)[1] <= clock
    <3>1. tid[1] <= now /\ tid[1] \in Nat
      BY <1>1, <1>3 DEF Due, TimerIds
    <3> QED
      BY <3>1 DEF TimesOK
  <2> QED
    BY <1>2, <2>1, <2>2, FirstDue
<1>6. s = [r EXCEPT !.due = @ + r.every] /\ r.every # 0
  BY <1>3, <1>4 DEF RepeatRec, Repeats
<1> HIDE DEF next
<1>7. OnceArmed' = OnceArmed
  <2>1. /\ DOMAIN m_timers' = (DOMAIN m_timers \ {tid}) \cup {next} /\ m_timers'[next] = id
        /\ \A i \in DOMAIN m_timers \ {tid} : m_timers'[i] = m_timers[i]
    BY <1>1, <1>4 DEF Put, Erase, Restrict
  <2> QED
    BY <1>1, <1>4, <2>1 DEF OnceArmed
<1>8. RepeatsArmed' = (RepeatsArmed \ {r}) \cup {s}
  <2>1. /\ DOMAIN m_timerRepeats' = DOMAIN m_timerRepeats
        /\ m_timerRepeats'[id] = [rec EXCEPT !.tid = next]
        /\ \A i \in DOMAIN m_timerRepeats \ {id} : m_timerRepeats'[i] = m_timerRepeats[i]
    BY <1>1, <1>3 DEF MapsInv, MapsOK
  <2>2. \A i, x : RepeatRec(i, x).id = i
    BY DEF RepeatRec
  <2> QED
    BY <1>3, <2>1, <2>2 DEF RepeatsArmed
<1>9. r \in RepeatsArmed /\ r \notin OnceArmed
  <2>1. r \in RepeatsArmed
    BY <1>3 DEF RepeatsArmed
  <2> QED
    BY <2>1, PartsApart
<1>10. Armed' = (Armed \ {r}) \cup {s} /\ r \in Armed
  BY <1>7, <1>8, <1>9, ArmedParts
<1>11. r.id = id
  BY DEF RepeatRec
<1> HIDE DEF r, s, id
<1> QED
  BY <1>1, <1>5, <1>6, <1>10, <1>11 DEF S!Fire

\* Every step of the two maps is a step of the one set, or leaves it alone.
LEMMA ServiceStep ==
    ASSUME MapsInv, TimesOK, CallInv, [Next]_vars
    PROVE  [S!Next]_(S!serviceVars)
<1>1. ASSUME UNCHANGED <<m_timers, m_timerRepeats>> PROVE Armed' = Armed
  BY <1>1 DEF Armed
<1>2. CASE \/ UNCHANGED vars \/ EnterPoll \/ PollTimesOut \/ HandleTimeout
           \/ TimeoutEnds \/ PollEvent
  <2>1. UNCHANGED <<m_timers, m_timerRepeats, clock, m_exit, running, cancelled>>
    BY <1>2 DEF vars, timerVars, callVars, EnterPoll, PollTimesOut, HandleTimeout,
                TimeoutEnds, PollEvent
  <2> QED
    BY <1>1, <2>1 DEF S!serviceVars
<1>3. CASE TaskReturns
  <2>1. UNCHANGED <<m_timers, m_timerRepeats, clock, m_exit, cancelled>> /\ running' = {}
    BY <1>3 DEF TaskReturns, timerVars
  <2> QED
    BY <1>1, <2>1 DEF S!Next, S!Return
<1>4. CASE Tick
  <2>1. /\ UNCHANGED <<m_timers, m_timerRepeats, m_exit, running, cancelled>>
        /\ clock' = Lesser(clock + 1, MaxTime)
    BY <1>4 DEF Tick, timerVars, callVars
  <2>2. clock' > clock \/ clock' = clock
    BY <2>1, TimersAssumption DEF Lesser, TimesOK, TimersAssumption
  <2> QED
    BY <1>1, <2>1, <2>2 DEF S!serviceVars, S!Next, S!Tick
<1>5. CASE Exit
  <2>1. UNCHANGED <<m_timers, m_timerRepeats, clock, running, cancelled>> /\ m_exit' = TRUE
    BY <1>5 DEF Exit, timerVars, callVars
  <2> QED
    BY <1>1, <2>1 DEF S!Next, S!Close
<1>6. CASE EnterFinalPoll
  <2>1. /\ m_exit /\ m_timers' = <<>> /\ m_timerRepeats' = <<>> /\ running = {}
        /\ UNCHANGED <<clock, m_exit, running, cancelled>>
    BY <1>6 DEF EnterFinalPoll, callVars, CallInv
  <2>2. DOMAIN m_timers' = {} /\ DOMAIN m_timerRepeats' = {}
    BY <2>1, EmptyMap
  <2>3. Armed' = {}
    BY <2>2 DEF Armed
  <2> QED
    BY <2>1, <2>3 DEF S!Next, S!Drop
<1>7. CASE FireOnce
  <2> DEFINE id == First(m_timers)
  <2>1. /\ Due /\ m_timers[id] = Once /\ m_timers' = Erase(m_timers, id)
        /\ UNCHANGED <<m_timerRepeats, clock, m_exit, cancelled>>
        /\ running = {} /\ running' = {id}
    BY <1>7 DEF FireOnce, CallInv
  <2>2. DOMAIN m_timers # {} /\ id \in DOMAIN m_timers /\ id \in TimerIds
    BY <2>1, EmptyMap, FirstIsLeast DEF Due, MapsInv, MapsOK
  <2>3. OnceRec(id) \in Armed /\ Armed' = Armed \ {OnceRec(id)}
    BY <2>1, <2>2, DisarmsOnce
  <2>4. id[1] <= clock
    BY <2>1, <2>2 DEF Due, TimerIds, TimesOK
  <2>5. OnceRec(id).due = id[1] /\ OnceRec(id).every = 0 /\ OnceRec(id).id = id
    BY DEF OnceRec
  <2>6. \A s \in Armed : id[1] <= s.due
    BY <2>2, FirstDue
  <2>7. S!Fire(OnceRec(id))
    BY <2>1, <2>3, <2>4, <2>5, <2>6 DEF S!Fire
  <2> QED
    BY <2>3, <2>7 DEF S!Next
<1>8. CASE FireRepeat
  BY <1>8, FiresRepeat DEF S!Next
<1>9. ASSUME NEW at \in Ats, RunOnce(at) PROVE [S!Next]_(S!serviceVars)
  BY <1>9, ArmsOnce DEF S!Next
<1>10. ASSUME NEW at \in Ats, NEW interval \in Intervals \ {0}, RunRepeat(at, interval)
      PROVE  [S!Next]_(S!serviceVars)
  BY <1>10, ArmsRepeat DEF S!Next
<1>11. ASSUME NEW id \in DOMAIN m_timers, CancelOnce(id) PROVE [S!Next]_(S!serviceVars)
  <2>1. /\ OnceRec(id) \in Armed /\ Armed' = Armed \ {OnceRec(id)}
        /\ cancelled' = cancelled \cup {id} /\ UNCHANGED <<clock, m_exit, running>>
    BY <1>11, DisarmsOnce DEF CancelOnce
  <2>2. OnceRec(id).id = id
    BY DEF OnceRec
  <2> QED
    BY <2>1, <2>2 DEF S!Next, S!Cancel
<1>12. ASSUME NEW id \in DOMAIN m_timerRepeats, CancelRepeat(id) PROVE [S!Next]_(S!serviceVars)
  BY <1>12, DisarmsRepeat DEF S!Next
<1> QED
  BY <1>2, <1>4, <1>5, <1>6, <1>7, <1>8, <1>9, <1>10, <1>11, <1>12, <1>3 DEF Next, LoopStep

\* The maps of runAt, cancel, handleTimeout and repeatableTimeout behave as
\* one set of timers.  A task is called only when its timer is armed and due
\* and no other is due before it, whether it fires once or repeats; an armed
\* timer is never dropped without a call, a cancel or the loop's end; a
\* cancelled one is never called again, and none is set after exit.
THEOREM MapsAreService == Spec => ImplementsTimerService
<1>1. Init => S!Init
  <2> SUFFICES ASSUME Init PROVE S!Init
    OBVIOUS
  <2>1. DOMAIN m_timers = {} /\ DOMAIN m_timerRepeats = {}
    BY EmptyMap DEF Init
  <2>2. Armed = {}
    BY <2>1 DEF Armed
  <2> QED
    BY <2>2 DEF Init, S!Init
<1>2. MapsInv /\ TimesOK /\ CallInv /\ [Next]_vars => [S!Next]_(S!serviceVars)
  BY ServiceStep
<1> QED
  BY <1>1, <1>2, CallAlways, PTL DEF Spec, SafeSpec, ImplementsTimerService, S!Spec

-----------------------------------------------------------------------------
(* What a TimerId stands for *)

\* A TimerId names one armed timer.
OnePerId == \A a, b \in Armed : a.id = b.id => a = b

\* Between two looks at an armed timer its period is the same, and it is due
\* when it was, or one period later because it has been due.
KeepsBeat ==
    [][\A a \in Armed, b \in Armed' : a.id = b.id =>
           /\ b.every = a.every
           /\ b.due = a.due \/ (a.every # 0 /\ a.due <= clock /\ b.due = a.due + a.every)]_vars

\* No timer is armed under an id whose number has been given out.
Gone(id) == id[2] <= m_timerNum /\ \A a \in Armed : a.id # id

\* The two kinds of ids differ, and each map has an id once.
LEMMA MapsApart == MapsInv => OnePerId
<1> SUFFICES ASSUME MapsInv, NEW a \in Armed, NEW b \in Armed, a.id = b.id PROVE a = b
  BY DEF OnePerId
<1>1. \A id : OnceRec(id).id = id /\ RepeatRec(id, m_timerRepeats[id]).id = id
  BY DEF OnceRec, RepeatRec
<1>2. CASE a \in OnceArmed /\ b \in OnceArmed
  BY <1>1, <1>2 DEF OnceArmed
<1>3. CASE a \in RepeatsArmed /\ b \in RepeatsArmed
  BY <1>1, <1>3 DEF RepeatsArmed
<1>4. ~(a \in OnceArmed /\ b \in RepeatsArmed) /\ ~(a \in RepeatsArmed /\ b \in OnceArmed)
  BY PartsApart, KindsDiffer
<1> QED
  BY <1>2, <1>3, <1>4, ArmedParts

\* No operation of the service changes what an armed timer's id stands for,
\* but by one period when it fires.
LEMMA BeatStep ==
    ASSUME OnePerId, [S!Next]_(S!serviceVars), NEW a \in Armed, NEW b \in Armed', a.id = b.id
    PROVE  /\ b.every = a.every
           /\ b.due = a.due \/ (a.every # 0 /\ a.due <= clock /\ b.due = a.due + a.every)
<1>1. ASSUME b \in Armed PROVE b = a
  BY <1>1 DEF OnePerId
<1>2. ASSUME NEW r \in Armed', S!Arm(r) PROVE b = a
  BY <1>1, <1>2 DEF S!Arm
<1>3. ASSUME NEW r \in Armed, S!Cancel(r) PROVE b = a
  BY <1>1, <1>3 DEF S!Cancel
<1>4. ASSUME NEW r \in Armed, S!Fire(r)
      PROVE  b = a \/ (/\ b.every = a.every /\ a.every # 0 /\ a.due <= clock
                       /\ b.due = a.due + a.every)
  <2>1. CASE b \in Armed
    BY <1>1, <2>1
  <2>2. CASE b \notin Armed
    <3>1. r.every # 0 /\ b = [r EXCEPT !.due = @ + r.every] /\ r.due <= clock
      BY <1>4, <2>2 DEF S!Fire
    <3>2. r = OnceRec(r.id) \/ \E id : r = RepeatRec(id, m_timerRepeats[id])
      BY ArmedParts DEF OnceArmed, RepeatsArmed, OnceRec
    <3>3. b.id = r.id /\ b.every = r.every /\ b.due = r.due + r.every
      BY <3>1, <3>2 DEF OnceRec, RepeatRec
    <3>4. r = a
      BY <3>3 DEF OnePerId
    <3> QED
      BY <3>1, <3>3, <3>4
  <2> QED
    BY <2>1, <2>2
<1>5. CASE S!Return \/ S!Drop \/ S!Tick \/ S!Close \/ UNCHANGED S!serviceVars
  <2>1. b \in Armed
    BY <1>5 DEF S!Return, S!Drop, S!Tick, S!Close, S!serviceVars
  <2> QED
    BY <1>1, <2>1
<1> QED
  BY <1>2, <1>3, <1>4, <1>5 DEF S!Next

\* Two armed timers never have the same TimerId, one-shot or periodic.
THEOREM IdsApart == Spec => []OnePerId
<1> QED
  BY MapsApart, MapsAlways, PTL

\* A periodic timer keeps its beat: whatever tasks run, cancel or set, and
\* however late handleTimeout is, it moves only by whole periods, only when it
\* is due, and its period never changes; a one-shot timer never moves.
THEOREM BeatKept == Spec => KeepsBeat
<1>1. MapsInv /\ TimesOK /\ CallInv /\ [Next]_vars =>
          [\A a \in Armed, b \in Armed' : a.id = b.id =>
              /\ b.every = a.every
              /\ b.due = a.due \/ (a.every # 0 /\ a.due <= clock /\ b.due = a.due + a.every)]_vars
  BY MapsApart, ServiceStep, BeatStep
<1> QED
  BY <1>1, CallAlways, PTL DEF Spec, SafeSpec, KeepsBeat

\* The counter only goes up, and an id that is new is above it.
LEMMA GoneStep ==
    ASSUME MapsInv, NEW id \in Int \X Int, Gone(id), [Next]_vars
    PROVE  Gone(id)'
<1>0. m_timerNum \in Nat /\ id[2] \in Int /\ id[2] <= m_timerNum
  BY DEF MapsInv, MapsOK, Gone
<1>1. /\ id \in DOMAIN m_timers => m_timers[id] # Once
      /\ id \notin DOMAIN m_timerRepeats
  <2>1. OnceRec(id).id = id /\ RepeatRec(id, m_timerRepeats[id]).id = id
    BY DEF OnceRec, RepeatRec
  <2>2. OnceRec(id) \notin OnceArmed /\ RepeatRec(id, m_timerRepeats[id]) \notin RepeatsArmed
    BY <2>1, ArmedParts DEF Gone
  <2> QED
    BY <2>2 DEF OnceArmed, RepeatsArmed
<1>2. SUFFICES /\ id[2] <= m_timerNum'
               /\ id \in DOMAIN m_timers' => m_timers'[id] # Once
               /\ id \notin DOMAIN m_timerRepeats'
  BY ArmedParts DEF Gone, OnceArmed, RepeatsArmed, OnceRec, RepeatRec
<1>3. CASE UNCHANGED <<m_timers, m_timerRepeats, m_timerNum>>
  BY <1>0, <1>1, <1>3
<1>4. CASE \/ UNCHANGED vars \/ EnterPoll \/ PollTimesOut \/ HandleTimeout \/ TaskReturns
           \/ TimeoutEnds \/ PollEvent \/ Tick \/ Exit
  BY <1>3, <1>4 DEF vars, timerVars, EnterPoll, PollTimesOut, HandleTimeout, TaskReturns,
                    TimeoutEnds, PollEvent, Tick, Exit
<1>5. CASE EnterFinalPoll
  <2>1. DOMAIN m_timers' = {} /\ DOMAIN m_timerRepeats' = {} /\ m_timerNum' = m_timerNum
    BY <1>5, EmptyMap DEF EnterFinalPoll
  <2> QED
    BY <1>0, <2>1
<1>6. CASE FireOnce \/ \E i \in DOMAIN m_timers : CancelOnce(i)
  <2>1. PICK i : m_timers' = Erase(m_timers, i)
    BY <1>6 DEF FireOnce, CancelOnce
  <2>2. m_timerRepeats' = m_timerRepeats /\ m_timerNum' = m_timerNum
    BY <1>6 DEF FireOnce, CancelOnce
  <2>3. \A j \in DOMAIN m_timers' : j \in DOMAIN m_timers /\ m_timers'[j] = m_timers[j]
    BY <2>1 DEF Erase, Restrict
  <2> QED
    BY <1>0, <1>1, <2>2, <2>3
<1>7. CASE \E i \in DOMAIN m_timerRepeats : CancelRepeat(i)
  <2>1. PICK i \in DOMAIN m_timerRepeats : CancelRepeat(i)
    BY <1>7
  <2>2. /\ \A j \in DOMAIN m_timers' : j \in DOMAIN m_timers /\ m_timers'[j] = m_timers[j]
        /\ DOMAIN m_timerRepeats' \subseteq DOMAIN m_timerRepeats
        /\ m_timerNum' = m_timerNum
    BY <2>1 DEF CancelRepeat, Erase, Restrict
  <2> QED
    BY <1>0, <1>1, <2>2
<1>8. CASE FireRepeat
  <2> DEFINE tid == First(m_timers)
             next == NextRun(tid, m_timerRepeats[m_timers[tid]].interval)
  <2>1. /\ m_timers[tid] # Once /\ m_timerNum' = m_timerNum + 1
        /\ m_timers' = Put(Erase(m_timers, tid), next, m_timers[tid])
        /\ DOMAIN m_timerRepeats' = DOMAIN m_timerRepeats
    BY <1>8 DEF FireRepeat
  <2> HIDE DEF next, tid
  <2>2. \A j \in DOMAIN m_timers' :
            \/ j = next /\ m_timers'[j] = m_timers[tid]
            \/ j \in DOMAIN m_timers /\ m_timers'[j] = m_timers[j]
    BY <2>1 DEF Put, Erase, Restrict
  <2> QED
    BY <1>0, <1>1, <2>1, <2>2
<1>9. ASSUME NEW at \in Ats, RunOnce(at)
      PROVE  /\ id[2] <= m_timerNum'
             /\ id \in DOMAIN m_timers' => m_timers'[id] # Once
             /\ id \notin DOMAIN m_timerRepeats'
  <2> DEFINE new == <<at, m_timerNum + 1>>
  <2>1. /\ m_timers' = Put(m_timers, new, Once) /\ m_timerRepeats' = m_timerRepeats
        /\ m_timerNum' = m_timerNum + 1 /\ new[2] = m_timerNum + 1
    BY <1>9 DEF RunOnce
  <2> HIDE DEF new
  <2>2. id # new
    BY <1>0, <2>1
  <2>3. id \in DOMAIN m_timers' => id \in DOMAIN m_timers /\ m_timers'[id] = m_timers[id]
    BY <2>1, <2>2 DEF Put
  <2> QED
    BY <1>0, <1>1, <2>1, <2>3
<1>10. ASSUME NEW at \in Ats, NEW interval \in Intervals \ {0}, RunRepeat(at, interval)
       PROVE  /\ id[2] <= m_timerNum'
              /\ id \in DOMAIN m_timers' => m_timers'[id] # Once
              /\ id \notin DOMAIN m_timerRepeats'
  <2> DEFINE new == <<-at, m_timerNum + 1>>
             tid == <<at, m_timerNum + 2>>
  <2>1. /\ m_timers' = Put(m_timers, tid, new)
        /\ DOMAIN m_timerRepeats' = DOMAIN m_timerRepeats \cup {new}
        /\ m_timerNum' = m_timerNum + 2
        /\ tid[2] = m_timerNum + 2 /\ new[2] = m_timerNum + 1
    BY <1>10 DEF RunRepeat, Put
  <2> HIDE DEF new, tid
  <2>2. id # new /\ id # tid
    BY <1>0, <2>1
  <2>3. id \in DOMAIN m_timers' => id \in DOMAIN m_timers /\ m_timers'[id] = m_timers[id]
    BY <2>1, <2>2 DEF Put
  <2> QED
    BY <1>0, <1>1, <2>1, <2>2, <2>3
<1> QED
  BY <1>4, <1>5, <1>6, <1>7, <1>8, <1>9, <1>10 DEF Next, LoopStep

\* A TimerId is never given out again: one that has fired or was cancelled
\* stays without a timer, and a late cancel of it cannot hit another one.
THEOREM IdsNotReused ==
    ASSUME NEW id \in Int \X Int
    PROVE  Spec => [](Gone(id) => []Gone(id))
<1>1. MapsInv /\ Gone(id) /\ [Next]_vars => Gone(id)'
  BY GoneStep
<1> QED
  BY <1>1, MapsAlways, PTL DEF Spec, SafeSpec

-----------------------------------------------------------------------------
(* Types *)

\* Strengthening: what the thread's phase and the numbers of milliseconds are.
SleepTypes ==
    /\ m_nextTimeout \in 0..(IntMod \div 2 - 1)
    /\ left \in 0..MaxWait
    /\ ready \in 0..MaxTime
    /\ phase \in Phases

FlagTypes == m_exit \in BOOLEAN /\ final \in BOOLEAN

\* What refreshNearest computes fits an int and is not negative, so that
\* epoll_wait never waits for ever.
LEMMA RefreshedFits ==
    ASSUME NEW m, DOMAIN m \subseteq TimerIds, m = <<>> <=> DOMAIN m = {},
           clock \in Nat, RefreshNearest(m)
    PROVE  m_nextTimeout' \in 0..(IntMod \div 2 - 1)
<1> DEFINE h == IntMod \div 2
<1>1. h \in Nat /\ IntMod = 2 * h /\ IntMod \in Nat \ {0} /\ Never \in 0..(h - 1)
  BY TimersAssumption DEF TimersAssumption, Never
<1>2. CASE m = <<>>
  BY <1>1, <1>2 DEF RefreshNearest
<1>3. CASE m # <<>>
  <2> DEFINE f == First(m)[1]
             r == ((f - clock) + h) % IntMod
  <2>1. f \in Nat
    <3>1. DOMAIN m # {}
      BY <1>3
    <3>2. First(m) \in TimerIds
      BY <3>1, FirstIsLeast
    <3> QED
      BY <3>2 DEF TimerIds
  <2>2. \A a \in Int, k \in Nat \ {0} : a % k \in 0..(k - 1)
    OBVIOUS
  <2>3. (f - clock) + h \in Int
    BY <1>1, <2>1
  <2>4. r \in 0..(IntMod - 1)
    BY <1>1, <2>2, <2>3
  <2>5. m_nextTimeout' = IF r - h < 0 THEN 0 ELSE r - h
    BY <1>3 DEF RefreshNearest, ToInt
  <2> HIDE DEF r, h
  <2>6. m_nextTimeout' \in 0..(h - 1)
    BY <1>1, <2>4, <2>5
  <2> QED
    BY <2>6 DEF h
<1> QED
  BY <1>2, <1>3

\* Every step keeps the phases, the flags and the numbers of milliseconds.
LEMMA SleepTypesStep ==
    ASSUME MapsInv, MapsInv', TimesOK, SleepTypes, [Next]_vars
    PROVE  SleepTypes'
<1>1. m_nextTimeout' \in 0..(IntMod \div 2 - 1)
  <2>1. /\ DOMAIN m_timers \subseteq TimerIds /\ (m_timers = <<>> <=> DOMAIN m_timers = {})
        /\ DOMAIN m_timers' \subseteq TimerIds /\ (m_timers' = <<>> <=> DOMAIN m_timers' = {})
    BY EmptyMap DEF MapsInv, MapsOK
  <2>2. CASE RefreshNearest(m_timers) \/ RefreshNearest(m_timers')
    BY <2>1, <2>2, RefreshedFits DEF TimesOK
  <2>3. CASE UNCHANGED m_nextTimeout
    BY <2>3 DEF SleepTypes
  <2> QED
    BY <2>2, <2>3 DEF Next, LoopStep, vars, timerVars, EnterPoll, EnterFinalPoll, PollTimesOut,
       HandleTimeout, FireOnce, FireRepeat, TaskReturns, TimeoutEnds, PollEvent, Tick, Exit,
       RunOnce, RunRepeat, CancelOnce, CancelRepeat
<1>2. ready' \in 0..MaxTime
  <2>1. ready' = ready \/ ready' = clock
    BY DEF Next, LoopStep, vars, loopVars, EnterPoll, EnterFinalPoll, PollTimesOut, SetReady,
       HandleTimeout, FireOnce, FireRepeat, TaskReturns, TimeoutEnds, PollEvent, Tick, Exit,
       RunOnce, RunRepeat, CancelOnce, CancelRepeat
  <2>2. MaxTime \in Nat
    BY TimersAssumption DEF TimersAssumption
  <2> QED
    BY <2>1, <2>2 DEF SleepTypes, TimesOK
<1>3. phase' \in Phases
  BY DEF SleepTypes, Phases, Next, LoopStep, vars, loopVars, EnterPoll, EnterFinalPoll,
     PollTimesOut, HandleTimeout, FireOnce, FireRepeat, TaskReturns, TimeoutEnds, PollEvent,
     Tick, Exit, RunOnce, RunRepeat, CancelOnce, CancelRepeat
<1>4. left' \in 0..MaxWait
  <2>1. /\ MaxWait \in Nat /\ left \in 0..MaxWait /\ m_nextTimeout \in Nat
    BY TimersAssumption DEF TimersAssumption, SleepTypes, TimesOK
  <2>2. CASE EnterPoll
    BY <2>1, <2>2 DEF EnterPoll, Lesser
  <2>3. CASE EnterFinalPoll
    BY <2>1, <2>3 DEF EnterFinalPoll, Lesser
  <2>4. CASE Tick \/ PollEvent
    BY <2>1, <2>4 DEF Tick, PollEvent
  <2>5. CASE UNCHANGED left
    BY <2>1, <2>5
  <2> QED
    BY <2>2, <2>3, <2>4, <2>5 DEF Next, LoopStep, vars, loopVars, PollTimesOut, HandleTimeout,
       FireOnce, FireRepeat, TaskReturns, TimeoutEnds, Exit, RunOnce, RunRepeat, CancelOnce,
       CancelRepeat
<1> QED
  BY <1>1, <1>2, <1>3, <1>4 DEF SleepTypes

\* The flags are only set.
LEMMA FlagsStep ==
    ASSUME FlagTypes, [Next]_vars
    PROVE  FlagTypes'
<1>1. m_exit' = m_exit \/ m_exit' = TRUE
  BY DEF Next, LoopStep, vars, EnterPoll, EnterFinalPoll, PollTimesOut, HandleTimeout, FireOnce,
     FireRepeat, TaskReturns, TimeoutEnds, PollEvent, Tick, Exit, RunOnce, RunRepeat,
     CancelOnce, CancelRepeat
<1>2. final' = final \/ final' = TRUE
  BY DEF Next, LoopStep, vars, loopVars, EnterPoll, EnterFinalPoll, PollTimesOut, HandleTimeout,
     FireOnce, FireRepeat, TaskReturns, TimeoutEnds, PollEvent, Tick, Exit, RunOnce, RunRepeat,
     CancelOnce, CancelRepeat
<1> QED
  BY <1>1, <1>2, Zenon DEF FlagTypes

\* The state of the timers has the types that TypeOK gives.  In particular
\* m_nextTimeout is never negative and no epoll_wait lasts longer than the
\* argument of loop_once, however late a timer is and however the conversion
\* of the difference to int goes.
THEOREM TimersTypeCorrect == Spec => []TypeOK
<1>1. Init => SleepTypes /\ FlagTypes
  <2>1. MaxWait \in Nat /\ MaxTime \in Nat /\ Never \in 0..(IntMod \div 2 - 1)
    BY TimersAssumption DEF TimersAssumption, Never
  <2>2. Init => SleepTypes
    BY <2>1 DEF Init, SleepTypes, Phases
  <2>3. Init => FlagTypes
    BY Zenon DEF Init, FlagTypes
  <2> QED
    BY <2>2, <2>3
<1>2. MapsInv /\ MapsInv' /\ TimesOK /\ SleepTypes /\ FlagTypes /\ [Next]_vars
      => SleepTypes' /\ FlagTypes'
  BY SleepTypesStep, FlagsStep
<1>3. MapsInv /\ TimesOK /\ CallInv /\ SleepTypes /\ FlagTypes => TypeOK
  <2> SUFFICES ASSUME MapsInv, TimesOK, CallInv, SleepTypes, FlagTypes PROVE TypeOK
    OBVIOUS
  <2>1. clock \in 0..MaxTime /\ now \in 0..MaxTime
    BY TimersAssumption DEF TimersAssumption, TimesOK
  <2>2. \A id \in DOMAIN m_timers : m_timers[id] \in RepeatIds \cup {Once}
    BY DEF MapsInv, MapsOK
  <2>3. \A id \in DOMAIN m_timerRepeats : /\ m_timerRepeats[id].interval \in Nat \ {0}
                                          /\ m_timerRepeats[id].tid \in TimerIds
    BY DEF MapsInv, MapsOK, Repeats
  <2> QED
    BY <2>1, <2>2, <2>3, Zenon DEF TypeOK, MapsInv, MapsOK, CallInv, SleepTypes, FlagTypes
<1> QED
  BY <1>1, <1>2, <1>3, CallAlways, PTL DEF Spec, SafeSpec

=============================================================================
