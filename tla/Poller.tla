------------------------------- MODULE Poller -------------------------------
(***************************************************************************)
(* PollerEpoll (poller.cc) and Channel (channel.cc).  A channel owns a     *)
(* file descriptor and is registered with epoll by its raw address.  One   *)
(* epoll_wait fetches a batch of events, and the callbacks of the first    *)
(* ones may close, destroy and create channels while the later ones still  *)
(* wait in m_activeEvents.  close() calls the read callback once more, so  *)
(* callbacks nest; the addresses of destroyed channels and the numbers of  *)
(* closed descriptors are used again.                                      *)
(*                                                                         *)
(* The kernel's epoll object is modelled from its use: an interest list    *)
(* that a descriptor leaves when it is closed (poller.cc never deletes).   *)
(***************************************************************************)
EXTENDS Integers, Sequences, SequencesExt, FiniteSets

CONSTANTS
    Addrs,      \* the addresses of Channel objects
    Fds,        \* the descriptors (all positive)
    MaxEvent,   \* length of m_activeEvents (2000)
    MaxDepth,   \* bound: nesting of callbacks and destructors
    None        \* null pointer, no descriptor

ASSUME PollerAssumption ==
    /\ None \notin Addrs \cup Fds
    /\ MaxEvent \in Nat \ {0} /\ MaxDepth \in Nat \ {0}

VARIABLES
    alive,            \* the channels that have been constructed and not freed
    m_fd,             \* descriptor of each channel, None once closed (-1)
    m_events,         \* ReadEvent and WriteEvent, as enabled
    interest,         \* the kernel's interest list: descriptor -> data.ptr
    m_liveChannels,
    m_activeEvents,   \* index -> [ptr, ev]
    m_lastActive,
    phase,            \* "idle", "dispatch" (loop_once), "destroy", "gone"
    stack,            \* running callbacks ("read", "write") and destructors
    fresh,            \* history: channels constructed since the last epoll_wait
    eofs              \* history: calls of each channel's callback by close()

channelVars == <<alive, m_fd, m_events, interest, m_liveChannels, fresh, eofs>>
dispatchVars == <<m_activeEvents, m_lastActive, phase>>
vars == <<channelVars, dispatchVars, stack>>

Masks == SUBSET {"read", "write"}

\* What a reported event makes loop_once call: "in" stands for EPOLLIN, with
\* or without EPOLLOUT, "err" for EPOLLERR, "out" for EPOLLOUT alone.
Kinds == {"in", "err", "out"}

Frames == [kind : {"read", "write", "dtor"}, ch : Addrs]

TypeOK ==
    /\ alive \subseteq Addrs
    /\ m_fd \in [Addrs -> Fds \cup {None}]
    /\ m_events \in [Addrs -> Masks]
    /\ interest \in [Fds -> Addrs \cup {None}]
    /\ m_liveChannels \subseteq alive
    /\ m_activeEvents \in [0..MaxEvent - 1 -> [ptr : Addrs \cup {None}, ev : Kinds]]
    /\ m_lastActive \in -1..MaxEvent
    /\ phase \in {"idle", "dispatch", "destroy", "gone"}
    /\ stack \in Seq(Frames) /\ Len(stack) <= MaxDepth
    /\ fresh \subseteq Addrs
    /\ eofs \in [Addrs -> Nat]

Init ==
    /\ alive = {}
    /\ m_fd = [a \in Addrs |-> None]
    /\ m_events = [a \in Addrs |-> {}]
    /\ interest = [f \in Fds |-> None]
    /\ m_liveChannels = {}
    /\ m_activeEvents = [i \in 0..MaxEvent - 1 |-> [ptr |-> None, ev |-> "in"]]
    /\ m_lastActive = -1
    /\ phase = "idle"
    /\ stack = <<>>
    /\ fresh = {}
    /\ eofs = [a \in Addrs |-> 0]

-----------------------------------------------------------------------------
(* The poller's part of adding and removing a channel *)

\* Mutant: the scan ends one entry early.
ForgetEventsEarly(a) ==
    m_activeEvents' =
        [i \in DOMAIN m_activeEvents |->
            IF i <= m_lastActive /\ i > 0 /\ m_activeEvents[i].ptr = a
              THEN [m_activeEvents[i] EXCEPT !.ptr = None] ELSE m_activeEvents[i]]

\* removeChannel: the entry for the channel among those from m_lastActive down
\* to 0 loses its pointer; an address occurs there at most once.
ForgetEvents(a) ==
    m_activeEvents' =
        [i \in DOMAIN m_activeEvents |->
            IF i <= m_lastActive /\ m_activeEvents[i].ptr = a
              THEN [m_activeEvents[i] EXCEPT !.ptr = None] ELSE m_activeEvents[i]]

-----------------------------------------------------------------------------
(* What user code does: outside loop_once, or in the innermost callback.   *)

UserCode ==
    \/ stack = <<>> /\ phase = "idle"
    \/ stack # <<>> /\ Last(stack).kind # "dtor"

\* Channel(base, fd, events) and addChannel.  malloc may return any free
\* address, and the descriptor is one that is not open.
New(a, f, events) ==
    /\ UserCode
    /\ a \notin alive
    /\ f \notin {m_fd[b] : b \in alive}
    /\ alive' = alive \cup {a}
    /\ m_fd' = [m_fd EXCEPT ![a] = f]
    /\ m_events' = [m_events EXCEPT ![a] = events]
    /\ interest' = [interest EXCEPT ![f] = a]
    /\ m_liveChannels' = m_liveChannels \cup {a}
    /\ fresh' = fresh \cup {a}
    /\ eofs' = [eofs EXCEPT ![a] = 0]
    /\ UNCHANGED <<dispatchVars, stack>>

\* enableRead, enableWrite, enableReadWrite: updateChannel on a channel that
\* has been closed fails and is only logged.
Enable(a, events) ==
    /\ UserCode
    /\ a \in alive
    /\ m_events' = [m_events EXCEPT ![a] = events]
    /\ UNCHANGED <<alive, m_fd, interest, m_liveChannels, fresh, eofs, dispatchVars, stack>>

\* Mutant: close() does not reset m_fd before the callback.
ShutKeepsFd(a) ==
    /\ m_fd[a] # None
    /\ m_liveChannels' = m_liveChannels \ {a}
    /\ ForgetEvents(a)
    /\ interest' = [interest EXCEPT ![m_fd[a]] = None]
    /\ UNCHANGED m_fd
    /\ eofs' = [eofs EXCEPT ![a] = @ + 1]

\* Mutant: removeChannel without ::close, so that the registration stays.
ShutLeavesInterest(a) ==
    /\ m_fd[a] # None
    /\ m_liveChannels' = m_liveChannels \ {a}
    /\ ForgetEvents(a)
    /\ m_fd' = [m_fd EXCEPT ![a] = None]
    /\ eofs' = [eofs EXCEPT ![a] = @ + 1]
    /\ UNCHANGED interest

\* Channel::close up to the call of handleRead: removeChannel, ::close(m_fd),
\* which ends the registration, and m_fd = -1.
Shut(a) ==
    /\ m_fd[a] # None
    /\ m_liveChannels' = m_liveChannels \ {a}
    /\ ForgetEvents(a)
    /\ interest' = [interest EXCEPT ![m_fd[a]] = None]
    /\ m_fd' = [m_fd EXCEPT ![a] = None]
    /\ eofs' = [eofs EXCEPT ![a] = @ + 1]

\* close() calls handleRead; on a closed channel it does nothing.
Close(a) ==
    /\ UserCode
    /\ a \in alive
    /\ Len(stack) < MaxDepth
    /\ Shut(a)
    /\ stack' = Append(stack, [kind |-> "read", ch |-> a])
    /\ UNCHANGED <<alive, m_events, fresh, m_lastActive, phase>>

\* No destructor of this channel is running already.
Deletable(a) == a \in alive /\ [kind |-> "dtor", ch |-> a] \notin ToSet(stack)

\* delete of an open channel: the destructor calls close().
Delete(a) ==
    /\ UserCode
    /\ Deletable(a)
    /\ Len(stack) + 1 < MaxDepth
    /\ Shut(a)
    /\ stack' = stack \o <<[kind |-> "dtor", ch |-> a], [kind |-> "read", ch |-> a]>>
    /\ UNCHANGED <<alive, m_events, fresh, m_lastActive, phase>>

\* delete of a closed channel, as the wakeup channel does in its own callback.
DeleteClosed(a) ==
    /\ UserCode
    /\ Deletable(a)
    /\ m_fd[a] = None
    /\ alive' = alive \ {a}
    /\ m_events' = [m_events EXCEPT ![a] = {}]
    /\ UNCHANGED <<m_fd, interest, m_liveChannels, fresh, eofs, dispatchVars, stack>>

\* A callback returns to close(), to loop_once or to the poller's destructor;
\* none of them looks at the channel again.
CallbackReturns ==
    /\ stack # <<>> /\ Last(stack).kind # "dtor"
    /\ stack' = Front(stack)
    /\ UNCHANGED <<channelVars, dispatchVars>>

\* A destructor returns and the memory is freed.
DestructorReturns ==
    /\ stack # <<>> /\ Last(stack).kind = "dtor"
    /\ alive' = alive \ {Last(stack).ch}
    /\ m_events' = [m_events EXCEPT ![Last(stack).ch] = {}]
    /\ stack' = Front(stack)
    /\ UNCHANGED <<m_fd, interest, m_liveChannels, fresh, eofs, dispatchVars>>

-----------------------------------------------------------------------------
(* loop_once *)

\* The kernel may report an enabled event, or an error at any time.
Reportable(e) ==
    /\ e.ptr \in {interest[f] : f \in Fds} \ {None}
    /\ e.ev = "in" => "read" \in m_events[e.ptr]
    /\ e.ev = "out" => "write" \in m_events[e.ptr]

\* epoll_wait: a batch of at most MaxEvent descriptors, in any order.
EpollWait(n, batch) ==
    /\ phase = "idle" /\ stack = <<>>
    /\ \A i \in 0..n - 1 : Reportable(batch[i])
    /\ \A i, j \in 0..n - 1 : batch[i].ptr = batch[j].ptr => i = j
    /\ m_activeEvents' = [i \in DOMAIN m_activeEvents |->
                              IF i < n THEN batch[i] ELSE m_activeEvents[i]]
    /\ m_lastActive' = n
    /\ phase' = "dispatch"
    /\ fresh' = {}
    /\ UNCHANGED <<alive, m_fd, m_events, interest, m_liveChannels, eofs, stack>>

\* One round of while(--m_lastActive >= 0): the read callback on EPOLLIN or
\* EPOLLERR, else the write callback.
Dispatch ==
    LET e == m_activeEvents[m_lastActive - 1]
    IN /\ phase = "dispatch" /\ stack = <<>>
       /\ m_lastActive > 0
       /\ m_lastActive' = m_lastActive - 1
       /\ stack' = IF e.ptr = None THEN <<>>
                   ELSE <<[kind |-> IF e.ev = "out" THEN "write" ELSE "read", ch |-> e.ptr]>>
       /\ UNCHANGED <<channelVars, m_activeEvents, phase>>

DispatchEnds ==
    /\ phase = "dispatch" /\ stack = <<>>
    /\ m_lastActive = 0
    /\ m_lastActive' = -1
    /\ phase' = "idle"
    /\ UNCHANGED <<channelVars, m_activeEvents, stack>>

-----------------------------------------------------------------------------
(* ~PollerEpoll *)

DestroyCall ==
    /\ phase = "idle" /\ stack = <<>>
    /\ phase' = "destroy"
    /\ UNCHANGED <<channelVars, m_activeEvents, m_lastActive, stack>>

\* while(m_liveChannels.size()) (*m_liveChannels.begin())->close();
DestroyCloses(a) ==
    /\ phase = "destroy" /\ stack = <<>>
    /\ a \in m_liveChannels
    /\ Shut(a)
    /\ stack' = <<[kind |-> "read", ch |-> a]>>
    /\ UNCHANGED <<alive, m_events, fresh, m_lastActive, phase>>

\* Mutant: the destructor leaves after a pass without looking again.
DestroyReturnsEarly ==
    /\ phase = "destroy" /\ stack = <<>>
    /\ phase' = "gone"
    /\ UNCHANGED <<channelVars, m_activeEvents, m_lastActive, stack>>

DestroyReturns ==
    /\ phase = "destroy" /\ stack = <<>>
    /\ m_liveChannels = {}
    /\ phase' = "gone"
    /\ UNCHANGED <<channelVars, m_activeEvents, m_lastActive, stack>>

-----------------------------------------------------------------------------

Events == [ptr : Addrs, ev : Kinds]

Next ==
    \/ \E a \in Addrs :
        \/ \E f \in Fds, events \in Masks : New(a, f, events)
        \/ \E events \in Masks : Enable(a, events)
        \/ Close(a)
        \/ Delete(a)
        \/ DeleteClosed(a)
        \/ DestroyCloses(a)
    \/ CallbackReturns
    \/ DestructorReturns
    \/ \E n \in 0..MaxEvent : \E batch \in [0..n - 1 -> Events] : EpollWait(n, batch)
    \/ Dispatch
    \/ DispatchEnds
    \/ DestroyCall
    \/ DestroyReturns

Spec == Init /\ [][Next]_vars

-----------------------------------------------------------------------------
(* Correctness *)

\* No event reaches a channel it was not meant for: what still waits in
\* m_activeEvents points to a registered channel that was already registered
\* when the batch was fetched, not to a freed one, nor to a new one that got
\* the address of a freed one.
NoStaleEvent ==
    phase = "dispatch" =>
        \A i \in 0..m_lastActive - 1 :
            LET a == m_activeEvents[i].ptr IN a # None => a \in m_liveChannels \ fresh

\* The kernel holds the address of a channel exactly while the channel is
\* live and owns the descriptor: epoll never reports a freed address.
InterestIsLive ==
    /\ \A f \in Fds : interest[f] # None =>
           interest[f] \in m_liveChannels /\ m_fd[interest[f]] = f
    /\ \A a \in m_liveChannels : m_fd[a] # None /\ interest[m_fd[a]] = a

\* A channel's end of file is announced once, whichever of close(), the
\* destructor, the poller's destructor or a nested callback comes first.
EofOnce == \A a \in alive : eofs[a] = IF m_fd[a] = None THEN 1 ELSE 0

\* When the poller is gone no descriptor of a channel is left open and the
\* channels that outlive it do not touch it any more.
NothingAfterDestroy ==
    phase = "gone" => m_liveChannels = {} /\ \A a \in alive : m_fd[a] = None

=============================================================================
