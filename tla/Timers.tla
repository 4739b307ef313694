------------------------------- MODULE Timers -------------------------------
(***************************************************************************)
(* The timers of EventBase (eventbase.cc): runAt and cancel, called by     *)
(* user code in the loop thread, and handleTimeout, which the loop runs    *)
(* after every poll.  m_timers is the ordered map of what is due when;     *)
(* m_timerRepeats holds the periodic timers, and the closure of a periodic *)
(* timer's entry in m_timers keeps a raw pointer to it.                    *)
(*                                                                         *)
(* A TimerId is a pair <<time, number>>.  That of a periodic timer has the *)
(* negated time of its first run; it stays the same while the entry in     *)
(* m_timers moves on to ever later times.                                  *)
(***************************************************************************)
EXTENDS Integers, FiniteSets, Functions

CONSTANTS
    Ats,        \* the absolute times passed to runAt, in milliseconds
    Intervals,  \* the periods passed to runAt; 0 fires once
    MaxWait,    \* the argument of loop_once in loop() (1000)
    IntMod,     \* an int holds IntMod values (2^32)
    MaxTime,    \* bound: the clock stops here
    MaxNum      \* bound: runAt is called only while m_timerNum is below

\* Times are after 1970 and periods go forward: with a time of 0 or less the
\* sign of the id would no longer tell the two kinds of timer apart.
ASSUME TimersAssumption ==
    /\ Ats \subseteq Nat \ {0}
    /\ Intervals \subseteq Nat
    /\ MaxWait \in Nat /\ MaxTime \in Nat /\ MaxNum \in Nat
    /\ IntMod \in Nat /\ IntMod % 4 = 0 /\ IntMod > 4 * MaxWait

VARIABLES
    clock,           \* util::timeMilli()
    m_timers,        \* TimerId -> the periodic timer it belongs to, or Once
    m_timerRepeats,  \* id of a periodic timer -> its interval and current tid
    m_timerNum,
    m_nextTimeout,   \* milliseconds to sleep, computed when a timer was set
    m_exit,
    phase,           \* where the loop thread is
    final,           \* loop() is in the pass after its while loop
    left,            \* milliseconds left of the current epoll_wait; -1 is for ever
    now,             \* handleTimeout's local variable
    running,         \* the id of the timer whose task handleTimeout calls, in a set
    cancelled,       \* history: the ids of the timers that cancel has removed
    ready            \* history: when handleTimeout ended or the first timers were set

timerVars == <<m_timers, m_timerRepeats, m_timerNum, m_nextTimeout>>
loopVars == <<phase, final, left, now, ready>>
callVars == <<running, cancelled>>
vars == <<clock, m_exit, timerVars, loopVars, callVars>>

Once == <<0, 0>>

(* phase: "setup" before loop(); "check" the test of while(!m_exit);       *)
(* "poll" in epoll_wait; "callback" channels' callbacks and tasks;         *)
(* "timeout" in handleTimeout; "running" a timer's task; "returned".       *)
Phases == {"setup", "check", "poll", "callback", "timeout", "running", "returned"}

TimerIds == (Nat \ {0}) \X Nat
RepeatIds == {id \in Int \X Nat : id[1] < 0}

TypeOK ==
    /\ clock \in 0..MaxTime
    /\ DOMAIN m_timers \subseteq TimerIds
    /\ \A id \in DOMAIN m_timers : m_timers[id] \in RepeatIds \cup {Once}
    /\ DOMAIN m_timerRepeats \subseteq RepeatIds
    /\ \A id \in DOMAIN m_timerRepeats :
           /\ m_timerRepeats[id].interval \in Nat \ {0}
           /\ m_timerRepeats[id].tid \in TimerIds
    /\ m_timerNum \in Nat
    /\ m_nextTimeout \in 0..(IntMod \div 2 - 1)
    /\ m_exit \in BOOLEAN
    /\ phase \in Phases
    /\ final \in BOOLEAN
    /\ left \in 0..MaxWait
    /\ now \in 0..MaxTime
    /\ running \subseteq TimerIds \cup RepeatIds
    /\ cancelled \subseteq TimerIds \cup RepeatIds
    /\ ready \in 0..MaxTime

Never == IntMod \div 4     \* 1 << 30

Init ==
    /\ clock = 0
    /\ m_timers = <<>>
    /\ m_timerRepeats = <<>>
    /\ m_timerNum = 0
    /\ m_nextTimeout = Never
    /\ m_exit = FALSE
    /\ phase = "setup"
    /\ final = FALSE
    /\ left = 0
    /\ now = 0
    /\ running = {} /\ cancelled = {}
    /\ ready = 0

-----------------------------------------------------------------------------
(* The ordered map *)

Earlier(a, b) == a[1] < b[1] \/ (a[1] = b[1] /\ a[2] < b[2])

\* begin()->first
First(timers) ==
    CHOOSE id \in DOMAIN timers : \A o \in DOMAIN timers \ {id} : Earlier(id, o)

\* m[id] = x
Put(m, id, x) == [i \in DOMAIN m \cup {id} |-> IF i = id THEN x ELSE m[i]]

\* erase(id)
Erase(m, id) == Restrict(m, DOMAIN m \ {id})

\* The conversion of a 64-bit difference to int.
ToInt(x) == ((x + IntMod \div 2) % IntMod) - IntMod \div 2

\* Mutant: no clamp at 0, so that a late timer makes epoll_wait sleep for ever.
RefreshUnclamped(timers) ==
    m_nextTimeout' = IF timers = <<>> THEN Never
                     ELSE LET d == ToInt(First(timers)[1] - clock) IN IF d < 0 THEN -1 ELSE d

\* refreshNearest, with the map as its caller leaves it.
RefreshNearest(timers) ==
    m_nextTimeout' = IF timers = <<>> THEN Never
                     ELSE LET d == ToInt(First(timers)[1] - clock) IN IF d < 0 THEN 0 ELSE d

-----------------------------------------------------------------------------
(* User code: before loop(), in a callback, or in a timer's task *)

UserCode == phase \in {"setup", "callback", "running"}

\* Mutant: runAt arms timers although the loop is exiting.
MayRunExiting == UserCode /\ m_timerNum < MaxNum

\* runAt does nothing once m_exit is set.
MayRun == UserCode /\ ~m_exit /\ m_timerNum < MaxNum

\* The map is complete at this time when it is set up before the loop.
SetReady == ready' = IF phase = "setup" THEN clock ELSE ready

\* runAt without interval.
RunOnce(at) ==
    /\ MayRun
    /\ m_timerNum' = m_timerNum + 1
    /\ m_timers' = Put(m_timers, <<at, m_timerNum + 1>>, Once)
    /\ RefreshNearest(m_timers')
    /\ SetReady
    /\ UNCHANGED <<clock, m_exit, m_timerRepeats, phase, final, left, now, callVars>>

\* runAt with an interval.
RunRepeat(at, interval) ==
    LET id == <<-at, m_timerNum + 1>>
        tid == <<at, m_timerNum + 2>>
    IN /\ MayRun
       /\ m_timerNum' = m_timerNum + 2
       /\ m_timerRepeats' = Put(m_timerRepeats, id, [interval |-> interval, tid |-> tid])
       /\ m_timers' = Put(m_timers, tid, id)
       /\ RefreshNearest(m_timers')
       /\ SetReady
       /\ UNCHANGED <<clock, m_exit, phase, final, left, now, callVars>>

\* cancel of a one-shot timer; of one that has fired it does nothing.
CancelOnce(id) ==
    /\ UserCode
    /\ m_timers[id] = Once
    /\ m_timers' = Erase(m_timers, id)
    /\ cancelled' = cancelled \cup {id}
    /\ UNCHANGED <<clock, m_exit, m_timerRepeats, m_timerNum, m_nextTimeout, loopVars, running>>

\* Mutant: cancel forgets the entry in m_timers.
CancelRepeatOnly(id) ==
    /\ UserCode
    /\ m_timerRepeats' = Erase(m_timerRepeats, id)
    /\ cancelled' = cancelled \cup {id}
    /\ UNCHANGED <<clock, m_exit, m_timers, m_timerNum, m_nextTimeout, loopVars, running>>

\* cancel of a periodic timer that has not been cancelled before.
CancelRepeat(id) ==
    /\ UserCode
    /\ m_timers' = Erase(m_timers, m_timerRepeats[id].tid)
    /\ m_timerRepeats' = Erase(m_timerRepeats, id)
    /\ cancelled' = cancelled \cup {id}
    /\ UNCHANGED <<clock, m_exit, m_timerNum, m_nextTimeout, loopVars, running>>

\* exit(), from any thread; the byte it writes ends a poll.
Exit ==
    /\ m_exit' = TRUE
    /\ UNCHANGED <<clock, timerVars, loopVars, callVars>>

-----------------------------------------------------------------------------
(* The loop *)

Lesser(a, b) == IF a < b THEN a ELSE b

\* while(!m_exit) loop_once(1000), up to the call of epoll_wait.
EnterPoll ==
    /\ phase \in {"setup", "check"} /\ ~m_exit
    /\ phase' = "poll"
    /\ left' = Lesser(MaxWait, m_nextTimeout)
    /\ UNCHANGED <<clock, m_exit, timerVars, final, now, ready, callVars>>

\* loop() drops all timers and makes a last pass with loop_once(0).
EnterFinalPoll ==
    /\ phase \in {"setup", "check"} /\ m_exit
    /\ phase' = "poll"
    /\ final' = TRUE
    /\ m_timers' = <<>> /\ m_timerRepeats' = <<>>
    /\ left' = Lesser(0, m_nextTimeout)
    /\ UNCHANGED <<clock, m_exit, m_timerNum, m_nextTimeout, now, ready, callVars>>

\* epoll_wait returns with events, at any time.
PollEvent ==
    /\ phase = "poll"
    /\ phase' = "callback"
    /\ left' = 0
    /\ UNCHANGED <<clock, m_exit, timerVars, final, now, ready, callVars>>

\* epoll_wait returns because its time is up.
PollTimesOut ==
    /\ phase = "poll" /\ left = 0
    /\ phase' = "callback"
    /\ UNCHANGED <<clock, m_exit, timerVars, final, left, now, ready, callVars>>

\* handleTimeout reads the clock once.
HandleTimeout ==
    /\ phase = "callback"
    /\ phase' = "timeout"
    /\ now' = clock
    /\ UNCHANGED <<clock, m_exit, timerVars, final, left, ready, callVars>>

\* Mutant: a timer that is due in this very millisecond waits.
DueBefore == m_timers # <<>> /\ First(m_timers)[1] < now

\* begin()->first < TimerId{now, 1L << 62}
Due == m_timers # <<>> /\ First(m_timers)[1] <= now

\* Mutant: a one-shot timer may fire a millisecond early.
FireOnceEarly ==
    LET id == First(m_timers)
    IN /\ phase = "timeout" /\ m_timers # <<>> /\ id[1] <= now + 1
       /\ m_timers[id] = Once
       /\ m_timers' = Erase(m_timers, id)
       /\ running' = {id}
       /\ phase' = "running"
       /\ UNCHANGED <<clock, m_exit, m_timerRepeats, m_timerNum, m_nextTimeout,
                      final, left, now, ready, cancelled>>

\* A one-shot timer is moved out of the map and called.
FireOnce ==
    LET id == First(m_timers)
    IN /\ phase = "timeout" /\ Due
       /\ m_timers[id] = Once
       /\ m_timers' = Erase(m_timers, id)
       /\ running' = {id}
       /\ phase' = "running"
       /\ UNCHANGED <<clock, m_exit, m_timerRepeats, m_timerNum, m_nextTimeout,
                      final, left, now, ready, cancelled>>

\* The tid of a periodic timer's next run.
NextRun(tid, interval) == <<tid[1] + interval, m_timerNum + 1>>

\* A periodic timer: repeatableTimeout sets it for its next time, then calls
\* its task.
FireRepeat ==
    LET tid == First(m_timers)
        id == m_timers[tid]
        next == NextRun(tid, m_timerRepeats[id].interval)
    IN /\ phase = "timeout" /\ Due
       /\ id # Once
       /\ m_timerNum' = m_timerNum + 1
       /\ m_timerRepeats' = [m_timerRepeats EXCEPT ![id].tid = next]
       /\ m_timers' = Put(Erase(m_timers, tid), next, id)
       /\ RefreshNearest(m_timers')
       /\ running' = {id}
       /\ phase' = "running"
       /\ UNCHANGED <<clock, m_exit, final, left, now, ready, cancelled>>

TaskReturns ==
    /\ phase = "running"
    /\ phase' = "timeout"
    /\ running' = {}
    /\ UNCHANGED <<clock, m_exit, timerVars, final, left, now, ready, cancelled>>

\* Mutant: handleTimeout ends without refreshNearest.
TimeoutEndsStale ==
    /\ phase = "timeout" /\ ~Due
    /\ ready' = clock
    /\ phase' = IF final THEN "returned" ELSE "check"
    /\ UNCHANGED <<clock, m_exit, timerVars, final, left, now, callVars>>

\* No timer is due: refreshNearest, and back to loop().
TimeoutEnds ==
    /\ phase = "timeout" /\ ~Due
    /\ RefreshNearest(m_timers)
    /\ ready' = clock
    /\ phase' = IF final THEN "returned" ELSE "check"
    /\ UNCHANGED <<clock, m_exit, m_timers, m_timerRepeats, m_timerNum, final, left, now, callVars>>

LoopStep ==
    \/ EnterPoll \/ EnterFinalPoll \/ PollTimesOut \/ HandleTimeout
    \/ FireOnce \/ FireRepeat \/ TaskReturns \/ TimeoutEnds

\* A millisecond passes, also for epoll_wait.  At the bound the clock stands
\* still, but epoll_wait still ends.
Tick ==
    /\ clock < MaxTime \/ left > 0
    /\ clock' = Lesser(clock + 1, MaxTime)
    /\ left' = IF phase = "poll" /\ left > 0 THEN left - 1 ELSE left
    /\ UNCHANGED <<m_exit, timerVars, phase, final, now, ready, callVars>>

-----------------------------------------------------------------------------

Next ==
    \/ LoopStep
    \/ PollEvent
    \/ Tick
    \/ Exit
    \/ \E at \in Ats : RunOnce(at)
    \/ \E at \in Ats, interval \in Intervals \ {0} : RunRepeat(at, interval)
    \/ \E id \in DOMAIN m_timers : CancelOnce(id)
    \/ \E id \in DOMAIN m_timerRepeats : CancelRepeat(id)

SafeSpec == Init /\ [][Next]_vars

\* Time passes and the loop thread goes on; tasks and callbacks return.  A
\* poll ends by itself only when its time is up.
Spec == SafeSpec /\ WF_vars(LoopStep) /\ WF_vars(Tick)

-----------------------------------------------------------------------------
(* Correctness *)

\* The two maps agree: every periodic timer has exactly one entry in m_timers,
\* at its current tid, and the pointer in that entry is not dangling.  So it
\* is neither forgotten nor armed twice, also when it is cancelled by a task
\* that runs in the middle of handleTimeout.
RepeatsArmedOnce ==
    /\ \A id \in DOMAIN m_timerRepeats :
           /\ m_timerRepeats[id].tid \in DOMAIN m_timers
           /\ m_timers[m_timerRepeats[id].tid] = id
    /\ \A tid \in DOMAIN m_timers : m_timers[tid] # Once =>
           /\ m_timers[tid] \in DOMAIN m_timerRepeats
           /\ m_timerRepeats[m_timers[tid]].tid = tid

\* The last pass of loop() runs no timer, and leaves none behind.
NoTimerAfterLoop == final => m_timers = <<>> /\ m_timerRepeats = <<>>

\* handleTimeout leaves no timer that was due when it began, also not one set
\* or moved on by a task it ran.
AllDueFired ==
    phase = "check" => \A id \in DOMAIN m_timers : id[1] > now

\* The stored m_nextTimeout is fresh enough: epoll_wait never sleeps past the
\* first timer by more than the time that passed between the end of
\* handleTimeout (or setting the timer, before the first pass) and the poll,
\* although callbacks and tasks change the map after it was computed.
SleepsNoLonger ==
    phase = "poll" /\ m_timers # <<>> =>
        left = 0 \/ left <= First(m_timers)[1] - ready

Armed ==
    {[id |-> id, due |-> id[1], every |-> 0] :
        id \in {i \in DOMAIN m_timers : m_timers[i] = Once}}
    \cup
    {[id |-> id, due |-> m_timerRepeats[id].tid[1], every |-> m_timerRepeats[id].interval] :
        id \in DOMAIN m_timerRepeats}

\* The two maps implement the one set of TimerService.  A task is called only
\* when its timer is armed and due and no other is due before it, one-shot or
\* periodic; no timer disappears uncalled, unless it was cancelled or the loop
\* has ended; a cancelled one is not called again; periods do not drift.
S == INSTANCE TimerService WITH armed <- Armed, closed <- m_exit

ImplementsTimerService == S!Spec

\* What is due leaves the map in the end, whatever its number: a timer due by
\* time t fires, is cancelled or dropped when the loop ends, and a periodic one
\* moves on beyond t.  (runAt is called finitely often: a task that goes on
\* setting timers for times that have passed keeps handleTimeout busy.)
DueFires ==
    \A t \in 1..MaxTime :
        (\E id \in DOMAIN m_timers : id[1] <= t) /\ phase # "setup"
            ~> \A id \in DOMAIN m_timers : id[1] > t

=============================================================================
