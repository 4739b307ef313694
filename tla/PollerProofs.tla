---------------------------- MODULE PollerProofs ----------------------------
(***************************************************************************)
(* Proofs about Poller, for any addresses, descriptors, length of the      *)
(* batch and depth of nesting.                                             *)
(***************************************************************************)
EXTENDS Poller, SequenceTheorems, TLAPS

ChannelTypes ==
    /\ alive \subseteq Addrs
    /\ m_fd \in [Addrs -> Fds \cup {None}]
    /\ interest \in [Fds -> Addrs \cup {None}]
    /\ DOMAIN eofs = Addrs

\* Strengthening: m_liveChannels holds the channels with an open descriptor.
LiveIsOpen == m_liveChannels = {a \in alive : m_fd[a] # None}

ChannelInv == ChannelTypes /\ LiveIsOpen /\ InterestIsLive /\ EofOnce

BatchTypes ==
    /\ m_activeEvents \in [0..MaxEvent - 1 -> [ptr : Addrs \cup {None}, ev : Kinds]]
    /\ m_lastActive \in Int /\ m_lastActive <= MaxEvent

BatchInv == BatchTypes /\ NoStaleEvent

\* Strengthening: a channel whose destructor runs has been shut and is not
\* freed yet, and no second destructor of it runs.
Dtors == {i \in 1..Len(stack) : stack[i].kind = "dtor"}
DtorsShut ==
    /\ \A i \in Dtors : stack[i].ch \in alive /\ m_fd[stack[i].ch] = None
    /\ \A i, j \in Dtors : stack[i].ch = stack[j].ch => i = j

\* Strengthening: nothing runs in the poller's place once it is gone.
GoneIsQuiet == phase = "gone" => stack = <<>> /\ m_liveChannels = {}

StackInv == stack \in Seq(Frames) /\ DtorsShut /\ GoneIsQuiet

PollerInv == ChannelInv /\ BatchInv /\ StackInv

-----------------------------------------------------------------------------
(* The channels *)

\* No address and no descriptor is None.
LEMMA NoneIsNone == None \notin Addrs /\ None \notin Fds
BY PollerAssumption DEF PollerAssumption

\* A new channel takes a descriptor and an address that nobody has.
LEMMA ChannelsNew ==
    ASSUME ChannelInv, NEW a \in Addrs, NEW f \in Fds, NEW events \in Masks, New(a, f, events)
    PROVE  ChannelInv'
<1>1. /\ a \notin alive /\ f \notin {m_fd[b] : b \in alive}
      /\ alive' = alive \cup {a} /\ m_fd' = [m_fd EXCEPT ![a] = f]
      /\ interest' = [interest EXCEPT ![f] = a] /\ m_liveChannels' = m_liveChannels \cup {a}
      /\ eofs' = [eofs EXCEPT ![a] = 0]
  BY DEF New
<1>2. ChannelTypes'
  BY <1>1 DEF ChannelInv, ChannelTypes
<1>3. /\ m_fd'[a] = f /\ f # None
      /\ \A b \in Addrs \ {a} : m_fd'[b] = m_fd[b]
  BY <1>1, NoneIsNone DEF ChannelInv, ChannelTypes
<1>4. LiveIsOpen'
  BY <1>1, <1>3 DEF ChannelInv, ChannelTypes, LiveIsOpen
<1>5. InterestIsLive'
  <2>1. interest'[f] = a /\ \A g \in Fds \ {f} : interest'[g] = interest[g]
    BY <1>1 DEF ChannelInv, ChannelTypes
  <2>2. \A b \in m_liveChannels : b \in alive /\ b \in Addrs /\ m_fd[b] # f
    BY <1>1 DEF ChannelInv, ChannelTypes, LiveIsOpen
  <2>3. \A g \in Fds \ {f} : interest'[g] # None =>
            interest'[g] \in m_liveChannels' /\ m_fd'[interest'[g]] = g
    BY <1>1, <1>3, <2>1, <2>2 DEF ChannelInv, InterestIsLive
  <2>4. \A b \in m_liveChannels : m_fd'[b] # None /\ interest'[m_fd'[b]] = b
    BY <1>1, <1>3, <2>1, <2>2 DEF ChannelInv, ChannelTypes, InterestIsLive
  <2> QED
    BY <1>1, <1>3, <2>1, <2>3, <2>4 DEF InterestIsLive
<1>6. EofOnce'
  BY <1>1, <1>3 DEF ChannelInv, ChannelTypes, EofOnce
<1> QED
  BY <1>2, <1>4, <1>5, <1>6 DEF ChannelInv

\* close() takes the channel out of the three tables at once.
LEMMA ChannelsShut ==
    ASSUME ChannelInv, NEW a \in alive, Shut(a), alive' = alive
    PROVE  /\ ChannelInv'
           /\ m_liveChannels' = m_liveChannels \ {a}
           /\ \A b \in alive : m_fd[b] = None => m_fd'[b] = None
           /\ m_fd'[a] = None
<1>1. /\ m_fd[a] # None /\ m_liveChannels' = m_liveChannels \ {a}
      /\ interest' = [interest EXCEPT ![m_fd[a]] = None]
      /\ m_fd' = [m_fd EXCEPT ![a] = None]
      /\ eofs' = [eofs EXCEPT ![a] = @ + 1]
  BY DEF Shut
<1>2. ChannelTypes'
  BY <1>1 DEF ChannelInv, ChannelTypes
<1>3. /\ a \in Addrs /\ m_fd'[a] = None /\ m_fd[a] \in Fds
      /\ \A b \in Addrs \ {a} : m_fd'[b] = m_fd[b]
  BY <1>1 DEF ChannelInv, ChannelTypes
<1>4. LiveIsOpen'
  BY <1>1, <1>3 DEF ChannelInv, ChannelTypes, LiveIsOpen
<1>5. InterestIsLive'
  <2>1. interest'[m_fd[a]] = None /\ \A g \in Fds \ {m_fd[a]} : interest'[g] = interest[g]
    BY <1>1, <1>3 DEF ChannelInv, ChannelTypes
  <2>2. \A b \in m_liveChannels : b \in Addrs /\ m_fd[b] \in Fds
    BY DEF ChannelInv, ChannelTypes, LiveIsOpen
  <2>3. \A b \in m_liveChannels \ {a} : m_fd[b] # m_fd[a]
    <3>1. a \in m_liveChannels
      BY <1>1 DEF ChannelInv, LiveIsOpen
    <3> QED
      BY <3>1 DEF ChannelInv, InterestIsLive
  <2>4. \A g \in Fds \ {m_fd[a]} : interest[g] # None => interest[g] \in m_liveChannels \ {a}
    BY DEF ChannelInv, InterestIsLive
  <2>5. \A g \in Fds : interest'[g] # None =>
            interest'[g] \in m_liveChannels' /\ m_fd'[interest'[g]] = g
    BY <1>1, <1>3, <2>1, <2>2, <2>4 DEF ChannelInv, InterestIsLive
  <2>6. \A b \in m_liveChannels' : m_fd'[b] # None /\ interest'[m_fd'[b]] = b
    BY <1>1, <1>3, <2>1, <2>2, <2>3 DEF ChannelInv, InterestIsLive
  <2> QED
    BY <2>5, <2>6 DEF InterestIsLive
<1>6. EofOnce'
  BY <1>1, <1>3 DEF ChannelInv, ChannelTypes, EofOnce
<1> QED
  BY <1>1, <1>2, <1>3, <1>4, <1>5, <1>6 DEF ChannelInv, ChannelTypes

\* Memory is freed only of a channel that has been shut.
LEMMA ChannelsFreed ==
    ASSUME ChannelInv, NEW a \in alive, m_fd[a] = None, alive' = alive \ {a},
           UNCHANGED <<m_fd, interest, m_liveChannels, eofs>>
    PROVE  ChannelInv'
BY DEF ChannelInv, ChannelTypes, LiveIsOpen, InterestIsLive, EofOnce

-----------------------------------------------------------------------------
(* The batch *)

\* An event of a channel that is shut in the middle of a batch is forgotten.
LEMMA BatchShut ==
    ASSUME BatchInv, NEW a \in Addrs, Shut(a), UNCHANGED <<m_lastActive, phase, fresh>>
    PROVE  BatchInv'
<1>1. /\ m_liveChannels' = m_liveChannels \ {a}
      /\ m_activeEvents' = [i \in DOMAIN m_activeEvents |->
            IF i <= m_lastActive /\ m_activeEvents[i].ptr = a
              THEN [m_activeEvents[i] EXCEPT !.ptr = None] ELSE m_activeEvents[i]]
  BY DEF Shut, ForgetEvents
<1>2. BatchTypes'
  BY <1>1 DEF BatchInv, BatchTypes
<1>3. ASSUME NEW i \in 0..MaxEvent - 1, i <= m_lastActive, m_activeEvents'[i].ptr # None
      PROVE  m_activeEvents'[i].ptr = m_activeEvents[i].ptr /\ m_activeEvents[i].ptr # a
  BY <1>1, <1>3 DEF BatchInv, BatchTypes
<1>4. \A i \in 0..m_lastActive - 1 : i \in 0..MaxEvent - 1 /\ i <= m_lastActive
  BY PollerAssumption DEF PollerAssumption, BatchInv, BatchTypes
<1>5. NoStaleEvent'
  BY <1>1, <1>3, <1>4 DEF BatchInv, NoStaleEvent
<1> QED
  BY <1>2, <1>5 DEF BatchInv

\* A new channel has an address that no waiting event points to.
LEMMA BatchNew ==
    ASSUME BatchInv, ChannelInv, NEW a \in Addrs, NEW f \in Fds, NEW events \in Masks,
           New(a, f, events)
    PROVE  BatchInv'
<1>1. /\ a \notin alive /\ m_liveChannels' = m_liveChannels \cup {a} /\ fresh' = fresh \cup {a}
      /\ UNCHANGED <<m_activeEvents, m_lastActive, phase>>
  BY DEF New, dispatchVars
<1>2. a \notin m_liveChannels
  BY <1>1 DEF ChannelInv, LiveIsOpen
<1> QED
  BY <1>1, <1>2 DEF BatchInv, BatchTypes, NoStaleEvent

\* epoll_wait reports what the interest list holds.
LEMMA BatchFetched ==
    ASSUME BatchInv, ChannelInv, NEW n \in 0..MaxEvent, NEW batch \in [0..n - 1 -> Events],
           EpollWait(n, batch)
    PROVE  BatchInv'
<1>1. /\ m_activeEvents' = [i \in DOMAIN m_activeEvents |->
                                IF i < n THEN batch[i] ELSE m_activeEvents[i]]
      /\ m_lastActive' = n /\ fresh' = {} /\ m_liveChannels' = m_liveChannels
      /\ \A i \in 0..n - 1 : Reportable(batch[i])
  BY DEF EpollWait
<1>2. n \in Nat /\ n <= MaxEvent /\ MaxEvent \in Nat
  BY PollerAssumption DEF PollerAssumption
<1>3. \A i \in 0..n - 1 : batch[i] \in [ptr : Addrs \cup {None}, ev : Kinds]
  BY DEF Events
<1>4. BatchTypes'
  BY <1>1, <1>2, <1>3 DEF BatchInv, BatchTypes
<1>5. \A i \in 0..n - 1 : m_activeEvents'[i] = batch[i]
  BY <1>1, <1>2 DEF BatchInv, BatchTypes
<1>6. \A i \in 0..n - 1 : batch[i].ptr \in m_liveChannels
  BY <1>1 DEF Reportable, ChannelInv, InterestIsLive
<1>7. NoStaleEvent'
  BY <1>1, <1>5, <1>6 DEF NoStaleEvent
<1> QED
  BY <1>4, <1>7 DEF BatchInv

-----------------------------------------------------------------------------
(* The stack of callbacks and destructors *)

\* A callback begins, in a close(), a destructor or loop_once.
LEMMA StackPush ==
    ASSUME StackInv, NEW e \in Frames, e.kind # "dtor", stack' = Append(stack, e),
           phase # "gone", phase' = phase, alive' = alive,
           \A b \in alive : m_fd[b] = None => m_fd'[b] = None
    PROVE  StackInv'
<1>1. stack' \in Seq(Frames) /\ Len(stack') = Len(stack) + 1 /\ stack'[Len(stack) + 1] = e
      /\ \A i \in 1..Len(stack) : stack'[i] = stack[i]
  BY DEF StackInv
<1>2. Dtors' = Dtors /\ \A i \in Dtors : stack'[i] = stack[i]
  BY <1>1 DEF Dtors, StackInv
<1>3. \A i \in Dtors : stack'[i].ch \in alive' /\ m_fd'[stack'[i].ch] = None
  BY <1>2 DEF StackInv, DtorsShut
<1>4. ASSUME NEW i \in Dtors, NEW j \in Dtors, stack'[i].ch = stack'[j].ch PROVE i = j
  <2>1. stack[i].ch = stack[j].ch
    BY <1>2, <1>4
  <2>2. DtorsShut
    BY DEF StackInv
  <2> QED
    BY <2>1, <2>2 DEF DtorsShut
<1>5. DtorsShut'
  BY <1>2, <1>3, <1>4 DEF DtorsShut
<1> QED
  BY <1>1, <1>5 DEF StackInv, GoneIsQuiet

\* A destructor begins and has the last read callback run.
LEMMA StackDelete ==
    ASSUME StackInv, NEW a \in alive, Deletable(a), alive \subseteq Addrs,
           stack' = stack \o <<[kind |-> "dtor", ch |-> a], [kind |-> "read", ch |-> a]>>,
           phase # "gone", phase' = phase, alive' = alive,
           \A b \in alive : m_fd[b] = None => m_fd'[b] = None, m_fd'[a] = None
    PROVE  StackInv'
<1> DEFINE d == [kind |-> "dtor", ch |-> a]
           r == [kind |-> "read", ch |-> a]
           n == Len(stack)
<1>1. d \in Frames /\ r \in Frames
  BY DEF Frames
<1>2. /\ stack' \in Seq(Frames) /\ Len(stack') = n + 2 /\ n \in Nat
      /\ stack'[n + 1] = d /\ stack'[n + 2] = r
      /\ \A i \in 1..n : stack'[i] = stack[i]
  BY <1>1 DEF StackInv
<1>3. Dtors' = Dtors \cup {n + 1}
  BY <1>2 DEF Dtors
<1>4. \A i \in Dtors : i \in 1..n /\ stack[i] # d
  <2>1. d \notin {stack[i] : i \in DOMAIN stack}
    BY DEF Deletable, ToSet
  <2> QED
    BY <2>1 DEF Dtors, StackInv
<1>5. \A i \in Dtors : stack[i].ch # a
  <2>1. \A i \in Dtors : stack[i] \in Frames /\ stack[i].kind = "dtor"
    BY DEF Dtors, StackInv
  <2> QED
    BY <1>4, <2>1 DEF Frames
<1>6. \A i \in Dtors : stack'[i].ch \in alive /\ stack'[i].ch # a /\ m_fd'[stack'[i].ch] = None
  BY <1>2, <1>4, <1>5 DEF StackInv, DtorsShut
<1>7. DtorsShut'
  <2>1. stack'[n + 1].ch = a
    BY <1>2
  <2>2. \A i, j \in Dtors : stack'[i].ch = stack'[j].ch => i = j
    BY <1>2, <1>4 DEF StackInv, DtorsShut
  <2> QED
    <3>1. \A i \in Dtors' : stack'[i].ch \in alive' /\ m_fd'[stack'[i].ch] = None
      BY <1>3, <1>6, <2>1
    <3>2. \A i, j \in Dtors' : stack'[i].ch = stack'[j].ch => i = j
      <4> SUFFICES ASSUME NEW i \in Dtors', NEW j \in Dtors', stack'[i].ch = stack'[j].ch
                   PROVE  i = j
        OBVIOUS
      <4>1. CASE i = n + 1 \/ j = n + 1
        BY <1>3, <1>6, <2>1, <4>1
      <4>2. CASE i \in Dtors /\ j \in Dtors
        BY <2>2, <4>2
      <4> QED
        BY <1>3, <4>1, <4>2
    <3> QED
      BY <3>1, <3>2 DEF DtorsShut
<1> QED
  BY <1>2, <1>7 DEF StackInv, GoneIsQuiet

\* A sequence without its last member.
LEMMA FrontOf ==
    ASSUME NEW S, NEW s \in Seq(S), s # <<>>
    PROVE  /\ Front(s) \in Seq(S) /\ Len(Front(s)) = Len(s) - 1
           /\ \A i \in 1..Len(s) - 1 : Front(s)[i] = s[i]
<1>1. Len(s) \in Nat \ {0} /\ \A i \in 1..Len(s) : s[i] \in S
  OBVIOUS
<1>2. \A i \in 1..Len(s) - 1 : s[i] \in S
  BY <1>1
<1> DEFINE n == Len(s) - 1
<1>3. n \in Nat /\ (1 <= n \/ n = 0)
  <2>1. \A k \in Nat \ {0} : k - 1 \in Nat /\ (1 <= k - 1 \/ k - 1 = 0)
    OBVIOUS
  <2> QED
    BY <1>1, <2>1
<1>4. /\ SubSeq(s, 1, n) \in Seq(S)
      /\ Len(SubSeq(s, 1, n)) = IF 1 <= n THEN n - 1 + 1 ELSE 0
      /\ \A i \in 1..n - 1 + 1 : SubSeq(s, 1, n)[i] = s[1 + i - 1]
  BY <1>2, <1>3, SubSeqProperties
<1> QED
  BY <1>1, <1>3, <1>4 DEF Front

\* The innermost call returns.
LEMMA StackPop ==
    ASSUME StackInv, stack # <<>>, stack' = Front(stack), m_fd' = m_fd,
           UNCHANGED <<phase, m_liveChannels>>,
           \/ Last(stack).kind # "dtor" /\ alive' = alive
           \/ Last(stack).kind = "dtor" /\ alive' = alive \ {Last(stack).ch}
    PROVE  StackInv'
<1> DEFINE n == Len(stack)
<1>1. n \in Nat \ {0} /\ stack \in Seq(Frames)
  BY DEF StackInv
<1>2. /\ stack' \in Seq(Frames) /\ Len(stack') = n - 1
      /\ \A i \in 1..n - 1 : stack'[i] = stack[i]
  BY <1>1, FrontOf
<1>3. Dtors' = Dtors \ {n} /\ \A i \in Dtors' : i \in 1..n - 1
  BY <1>1, <1>2 DEF Dtors
<1>4. Last(stack).kind = "dtor" => n \in Dtors
  BY <1>1 DEF Last, Dtors
<1>5. DtorsShut'
  BY <1>2, <1>3, <1>4 DEF StackInv, DtorsShut, Last
<1>6. GoneIsQuiet'
  BY DEF StackInv, GoneIsQuiet
<1> QED
  BY <1>2, <1>5, <1>6 DEF StackInv

-----------------------------------------------------------------------------
(* The inductive invariant *)

\* A step that calls nobody and frees no channel that is being destroyed.
LEMMA StackKept ==
    ASSUME StackInv, UNCHANGED stack, phase' = phase \/ phase' # "gone",
           phase = "gone" => m_liveChannels' = m_liveChannels,
           \A b \in alive : m_fd[b] = None /\ (\E i \in Dtors : stack[i].ch = b) =>
               b \in alive' /\ m_fd'[b] = None
    PROVE  StackInv'
<1>1. Dtors' = Dtors
  BY DEF Dtors
<1>2. DtorsShut'
  BY <1>1 DEF StackInv, DtorsShut
<1> QED
  BY <1>2 DEF StackInv, GoneIsQuiet

\* A new channel is registered under its own descriptor.
LEMMA InvNew ==
    ASSUME PollerInv, NEW a \in Addrs, NEW f \in Fds, NEW events \in Masks, New(a, f, events)
    PROVE  PollerInv'
<1>1. ChannelInv' /\ BatchInv'
  BY ChannelsNew, BatchNew DEF PollerInv
<1>2. /\ a \notin alive /\ alive' = alive \cup {a} /\ m_fd' = [m_fd EXCEPT ![a] = f]
      /\ stack' = stack /\ phase' = phase /\ UserCode
  BY DEF New, dispatchVars
<1>3. phase # "gone"
  BY <1>2 DEF UserCode, PollerInv, StackInv, GoneIsQuiet
<1>4. \A b \in alive : b \in alive' /\ m_fd'[b] = m_fd[b]
  BY <1>2 DEF PollerInv, ChannelInv, ChannelTypes
<1>5. StackInv'
  BY <1>2, <1>3, <1>4, StackKept DEF PollerInv
<1> QED
  BY <1>1, <1>5 DEF PollerInv

\* close(), called by user code or by the poller's destructor.
LEMMA InvClose ==
    ASSUME PollerInv, NEW a \in alive, Shut(a), phase # "gone",
           stack' = Append(stack, [kind |-> "read", ch |-> a]),
           UNCHANGED <<alive, m_events, fresh, m_lastActive, phase>>
    PROVE  PollerInv'
<1>1. a \in Addrs
  BY DEF PollerInv, ChannelInv, ChannelTypes
<1>2. ChannelInv' /\ \A b \in alive : m_fd[b] = None => m_fd'[b] = None
  BY ChannelsShut DEF PollerInv
<1>3. BatchInv'
  BY <1>1, BatchShut DEF PollerInv
<1>4. [kind |-> "read", ch |-> a] \in Frames /\ [kind |-> "read", ch |-> a].kind # "dtor"
  BY <1>1 DEF Frames
<1>5. StackInv'
  BY <1>2, <1>4, StackPush DEF PollerInv
<1> QED
  BY <1>2, <1>3, <1>5 DEF PollerInv

\* delete of an open channel closes it and calls its read callback.
LEMMA InvDelete ==
    ASSUME PollerInv, NEW a \in Addrs, Delete(a)
    PROVE  PollerInv'
<1>1. /\ a \in alive /\ Deletable(a) /\ Shut(a) /\ UserCode
      /\ stack' = stack \o <<[kind |-> "dtor", ch |-> a], [kind |-> "read", ch |-> a]>>
      /\ UNCHANGED <<alive, m_events, fresh, m_lastActive, phase>>
  BY DEF Delete, Deletable
<1>2. /\ ChannelInv' /\ \A b \in alive : m_fd[b] = None => m_fd'[b] = None
      /\ m_fd'[a] = None
  BY <1>1, ChannelsShut DEF PollerInv
<1>3. BatchInv'
  BY <1>1, BatchShut DEF PollerInv
<1>4. phase # "gone" /\ alive \subseteq Addrs
  BY <1>1 DEF UserCode, PollerInv, StackInv, GoneIsQuiet, ChannelInv, ChannelTypes
<1>5. StackInv'
  BY <1>1, <1>2, <1>4, StackDelete DEF PollerInv
<1> QED
  BY <1>2, <1>3, <1>5 DEF PollerInv

\* delete of a closed channel only frees it.
LEMMA InvDeleteClosed ==
    ASSUME PollerInv, NEW a \in Addrs, DeleteClosed(a)
    PROVE  PollerInv'
<1>1. /\ a \in alive /\ Deletable(a) /\ m_fd[a] = None /\ alive' = alive \ {a}
      /\ UNCHANGED <<m_fd, interest, m_liveChannels, fresh, eofs, m_activeEvents, m_lastActive>>
      /\ stack' = stack /\ phase' = phase
  BY DEF DeleteClosed, Deletable, dispatchVars
<1>2. ChannelInv'
  BY <1>1, ChannelsFreed DEF PollerInv
<1>3. BatchInv'
  BY <1>1 DEF PollerInv, BatchInv, BatchTypes, NoStaleEvent
<1>4. \A i \in Dtors : stack[i].ch # a
  <2>1. \A i \in Dtors : stack[i] \in Frames /\ stack[i].kind = "dtor"
    BY DEF Dtors, PollerInv, StackInv
  <2>2. [kind |-> "dtor", ch |-> a] \notin {stack[i] : i \in DOMAIN stack}
    BY <1>1 DEF Deletable, ToSet
  <2>3. \A i \in Dtors : i \in DOMAIN stack
    BY DEF Dtors, PollerInv, StackInv
  <2> QED
    BY <2>1, <2>2, <2>3 DEF Frames
<1>5. StackInv'
  BY <1>1, <1>4, StackKept DEF PollerInv
<1> QED
  BY <1>2, <1>3, <1>5 DEF PollerInv

\* A callback returns; a destructor that returns frees its channel.
LEMMA InvReturns ==
    ASSUME PollerInv, CallbackReturns \/ DestructorReturns
    PROVE  PollerInv'
<1>1. /\ stack # <<>> /\ stack' = Front(stack) /\ m_fd' = m_fd
      /\ UNCHANGED <<interest, m_liveChannels, fresh, eofs, m_activeEvents, m_lastActive, phase>>
      /\ \/ Last(stack).kind # "dtor" /\ alive' = alive
         \/ Last(stack).kind = "dtor" /\ alive' = alive \ {Last(stack).ch}
  BY DEF CallbackReturns, DestructorReturns, channelVars, dispatchVars
<1>2. StackInv'
  BY <1>1, StackPop DEF PollerInv
<1>3. BatchInv'
  BY <1>1 DEF PollerInv, BatchInv, BatchTypes, NoStaleEvent
<1>4. ChannelInv'
  <2>1. CASE alive' = alive
    BY <1>1, <2>1 DEF PollerInv, ChannelInv, ChannelTypes, LiveIsOpen, InterestIsLive, EofOnce
  <2>2. CASE Last(stack).kind = "dtor" /\ alive' = alive \ {Last(stack).ch}
    <3>1. Len(stack) \in Dtors
      BY <1>1, <2>2 DEF Last, Dtors, PollerInv, StackInv
    <3>2. Last(stack).ch \in alive /\ m_fd[Last(stack).ch] = None
      BY <3>1 DEF Last, PollerInv, StackInv, DtorsShut
    <3> QED
      BY <1>1, <2>2, <3>2, ChannelsFreed DEF PollerInv
  <2> QED
    BY <1>1, <2>1, <2>2
<1> QED
  BY <1>2, <1>3, <1>4 DEF PollerInv

\* epoll_wait fetches events of live channels.
LEMMA InvEpollWait ==
    ASSUME PollerInv, NEW n \in 0..MaxEvent, NEW batch \in [0..n - 1 -> Events],
           EpollWait(n, batch)
    PROVE  PollerInv'
<1>1. /\ UNCHANGED <<alive, m_fd, m_events, interest, m_liveChannels, eofs, stack>>
      /\ phase = "idle" /\ phase' = "dispatch"
  BY DEF EpollWait
<1>2. BatchInv'
  BY BatchFetched DEF PollerInv
<1>3. ChannelInv'
  BY <1>1 DEF PollerInv, ChannelInv, ChannelTypes, LiveIsOpen, InterestIsLive, EofOnce
<1>4. StackInv'
  BY <1>1, StackKept DEF PollerInv
<1> QED
  BY <1>2, <1>3, <1>4 DEF PollerInv

\* The loop takes the next event, unless its channel has been removed.
LEMMA InvDispatch ==
    ASSUME PollerInv, Dispatch
    PROVE  PollerInv'
<1> DEFINE e == m_activeEvents[m_lastActive - 1]
           f == [kind |-> IF e.ev = "out" THEN "write" ELSE "read", ch |-> e.ptr]
<1>1. /\ phase = "dispatch" /\ stack = <<>> /\ m_lastActive > 0
      /\ m_lastActive' = m_lastActive - 1
      /\ stack' = IF e.ptr = None THEN <<>> ELSE <<f>>
      /\ UNCHANGED <<alive, m_fd, interest, m_liveChannels, fresh, eofs, m_activeEvents, phase>>
  BY DEF Dispatch, channelVars
<1>2. ChannelInv'
  BY <1>1 DEF PollerInv, ChannelInv, ChannelTypes, LiveIsOpen, InterestIsLive, EofOnce
<1>3. BatchInv'
  <2>1. /\ m_lastActive' = m_lastActive - 1 /\ phase = "dispatch"
        /\ UNCHANGED <<m_activeEvents, m_liveChannels, fresh>>
    BY <1>1
  <2>2. BatchTypes /\ NoStaleEvent
    BY DEF PollerInv, BatchInv
  <2>3. BatchTypes' /\ \A i \in 0..m_lastActive' - 1 : i \in 0..m_lastActive - 1
    BY <2>1, <2>2, PollerAssumption DEF PollerAssumption, BatchTypes
  <2> QED
    BY <2>1, <2>2, <2>3 DEF BatchInv, NoStaleEvent
<1>4. StackInv'
  <2>1. CASE e.ptr = None
    <3>1. stack' = stack
      BY <1>1, <2>1
    <3> QED
      BY <1>1, <3>1, StackKept DEF PollerInv
  <2>2. CASE e.ptr # None
    <3>1. e \in [ptr : Addrs \cup {None}, ev : Kinds]
      BY <1>1, PollerAssumption DEF PollerAssumption, PollerInv, BatchInv, BatchTypes
    <3>2. f \in Frames /\ f.kind # "dtor"
      BY <2>2, <3>1 DEF Frames
    <3>3. stack' = Append(stack, f)
      BY <1>1, <2>2
    <3> HIDE DEF f
    <3> QED
      BY <1>1, <3>2, <3>3, StackPush DEF PollerInv
  <2> QED
    BY <2>1, <2>2
<1> QED
  BY <1>2, <1>3, <1>4 DEF PollerInv

\* The steps that leave the channels and the stack alone.
LEMMA InvOthers ==
    ASSUME PollerInv,
           \/ UNCHANGED vars
           \/ \E a \in Addrs, events \in Masks : Enable(a, events)
           \/ DispatchEnds \/ DestroyCall \/ DestroyReturns
    PROVE  PollerInv'
<1>1. /\ UNCHANGED <<alive, m_fd, interest, m_liveChannels, fresh, eofs, m_activeEvents, stack>>
      /\ \/ UNCHANGED <<phase, m_lastActive>>
         \/ phase' = "idle" /\ m_lastActive' = -1
         \/ phase' = "destroy" /\ m_lastActive' = m_lastActive
         \/ phase' = "gone" /\ m_lastActive' = m_lastActive /\ stack = <<>> /\ m_liveChannels = {}
  BY DEF vars, channelVars, dispatchVars, Enable, DispatchEnds, DestroyCall, DestroyReturns
<1>2. ChannelInv'
  BY <1>1 DEF PollerInv, ChannelInv, ChannelTypes, LiveIsOpen, InterestIsLive, EofOnce
<1>3. BatchInv'
  BY <1>1, PollerAssumption DEF PollerAssumption, PollerInv, BatchInv, BatchTypes, NoStaleEvent
<1>4. DtorsShut'
  BY <1>1 DEF PollerInv, StackInv, DtorsShut, Dtors
<1>5. GoneIsQuiet' /\ stack' \in Seq(Frames)
  BY <1>1 DEF PollerInv, StackInv, GoneIsQuiet
<1> QED
  BY <1>2, <1>3, <1>4, <1>5 DEF PollerInv, StackInv

\* The invariant is inductive.
LEMMA InvStep ==
    ASSUME PollerInv, [Next]_vars
    PROVE  PollerInv'
<1>1. ASSUME NEW a \in Addrs, NEW f \in Fds, NEW events \in Masks, New(a, f, events)
      PROVE  PollerInv'
  BY <1>1, InvNew
<1>2. ASSUME NEW a \in Addrs, Close(a) PROVE PollerInv'
  <2>1. phase # "gone"
    BY <1>2 DEF Close, UserCode, PollerInv, StackInv, GoneIsQuiet
  <2> QED
    BY <1>2, <2>1, InvClose DEF Close
<1>3. ASSUME NEW a \in Addrs, DestroyCloses(a) PROVE PollerInv'
  <2>1. a \in alive
    BY <1>3 DEF DestroyCloses, PollerInv, ChannelInv, LiveIsOpen
  <2>2. stack' = Append(stack, [kind |-> "read", ch |-> a]) /\ phase # "gone"
    BY <1>3 DEF DestroyCloses
  <2> QED
    BY <1>3, <2>1, <2>2, InvClose DEF DestroyCloses
<1>4. ASSUME NEW a \in Addrs, Delete(a) PROVE PollerInv'
  BY <1>4, InvDelete
<1>5. ASSUME NEW a \in Addrs, DeleteClosed(a) PROVE PollerInv'
  BY <1>5, InvDeleteClosed
<1>6. ASSUME NEW n \in 0..MaxEvent, NEW batch \in [0..n - 1 -> Events], EpollWait(n, batch)
      PROVE  PollerInv'
  BY <1>6, InvEpollWait
<1> QED
  BY <1>1, <1>2, <1>3, <1>4, <1>5, <1>6, InvReturns, InvDispatch, InvOthers DEF Next

\* At first there is no channel and no event.
LEMMA InvInit == Init => PollerInv
<1> SUFFICES ASSUME Init PROVE PollerInv
  OBVIOUS
<1>1. ChannelInv
  BY DEF Init, ChannelInv, ChannelTypes, LiveIsOpen, InterestIsLive, EofOnce
<1>2. BatchInv
  BY PollerAssumption DEF PollerAssumption, Init, BatchInv, BatchTypes, NoStaleEvent, Kinds
<1>3. StackInv
  BY DEF Init, StackInv, DtorsShut, Dtors, GoneIsQuiet
<1> QED
  BY <1>1, <1>2, <1>3 DEF PollerInv

\* The inductive invariant holds in every behaviour.
LEMMA InvAlways == Spec => []PollerInv
<1>1. PollerInv /\ [Next]_vars => PollerInv'
  BY InvStep
<1> QED
  BY <1>1, InvInit, PTL DEF Spec

-----------------------------------------------------------------------------
(* The theorems *)

\* However callbacks nest, close, destroy and create channels while a batch
\* is being dispatched, no event of it reaches a freed channel or one that
\* got a freed one's address.
THEOREM EventsAreFresh == Spec => []NoStaleEvent
<1>1. PollerInv => NoStaleEvent
  BY DEF PollerInv, BatchInv
<1> QED
  BY <1>1, InvAlways, PTL

\* The kernel holds the addresses of the live channels and no others, although
\* poller.cc never removes a registration itself.
THEOREM InterestMatches == Spec => []InterestIsLive
<1>1. PollerInv => InterestIsLive
  BY DEF PollerInv, ChannelInv
<1> QED
  BY <1>1, InvAlways, PTL

\* close(), the destructor, the poller's destructor and nested callbacks
\* announce a channel's end of file once between them.
THEOREM EofAnnouncedOnce == Spec => []EofOnce
<1>1. PollerInv => EofOnce
  BY DEF PollerInv, ChannelInv
<1> QED
  BY <1>1, InvAlways, PTL

\* The poller's destructor leaves no channel open behind it.
THEOREM DestroyedClean == Spec => []NothingAfterDestroy
<1>1. PollerInv => NothingAfterDestroy
  BY DEF PollerInv, StackInv, GoneIsQuiet, ChannelInv, LiveIsOpen, NothingAfterDestroy
<1> QED
  BY <1>1, InvAlways, PTL

\* m_liveChannels, which the poller's destructor works through, is the set of
\* the channels that have a descriptor, through every nested close and delete.
THEOREM LiveAreOpen == Spec => []LiveIsOpen
<1>1. PollerInv => LiveIsOpen
  BY DEF PollerInv, ChannelInv
<1> QED
  BY <1>1, InvAlways, PTL

-----------------------------------------------------------------------------
(* Types *)

\* Strengthening: what else the channels and the batch hold, and how deep
\* callbacks nest.
MaskTypes ==
    /\ m_events \in [Addrs -> Masks]
    /\ eofs \in [Addrs -> Nat]
    /\ fresh \subseteq Addrs

DepthTypes ==
    /\ m_lastActive \in -1..MaxEvent
    /\ phase \in {"idle", "dispatch", "destroy", "gone"}
    /\ Len(stack) <= MaxDepth

\* Every step keeps the masks and the histories.
LEMMA MaskTypesStep ==
    ASSUME PollerInv, MaskTypes, [Next]_vars
    PROVE  MaskTypes'
<1>0. alive \subseteq Addrs /\ {} \in Masks
  BY DEF PollerInv, ChannelInv, ChannelTypes, Masks
<1>1. ASSUME NEW a \in Addrs, NEW f \in Fds, NEW events \in Masks, New(a, f, events)
      PROVE  MaskTypes'
  BY <1>1 DEF New, MaskTypes
<1>2. ASSUME NEW a \in Addrs, NEW events \in Masks, Enable(a, events) PROVE MaskTypes'
  BY <1>2 DEF Enable, MaskTypes
<1>3. ASSUME NEW a \in Addrs, Close(a) \/ Delete(a) \/ DestroyCloses(a) PROVE MaskTypes'
  <2>1. /\ m_events' = m_events /\ fresh' = fresh /\ eofs' = [eofs EXCEPT ![a] = @ + 1]
    BY <1>3 DEF Close, Delete, DestroyCloses, Shut
  <2> QED
    BY <2>1 DEF MaskTypes
<1>4. ASSUME NEW a \in Addrs, DeleteClosed(a) PROVE MaskTypes'
  BY <1>0, <1>4 DEF DeleteClosed, MaskTypes
<1>5. CASE DestructorReturns
  BY <1>0, <1>5 DEF DestructorReturns, MaskTypes
<1>6. CASE \E n \in 0..MaxEvent : \E batch \in [0..n - 1 -> Events] : EpollWait(n, batch)
  BY <1>6 DEF EpollWait, MaskTypes
<1>7. CASE \/ CallbackReturns \/ Dispatch \/ DispatchEnds \/ DestroyCall \/ DestroyReturns
           \/ UNCHANGED vars
  BY <1>7 DEF CallbackReturns, Dispatch, DispatchEnds, DestroyCall, DestroyReturns, vars,
              channelVars, MaskTypes
<1> QED
  BY <1>1, <1>2, <1>3, <1>4, <1>5, <1>6, <1>7 DEF Next

\* Every step keeps the index into the batch and the depth of the calls.
LEMMA DepthTypesStep ==
    ASSUME PollerInv, DepthTypes, [Next]_vars
    PROVE  DepthTypes'
<1>0. /\ MaxEvent \in Nat \ {0} /\ MaxDepth \in Nat \ {0}
      /\ stack \in Seq(Frames) /\ Len(stack) \in Nat /\ m_lastActive \in -1..MaxEvent
      /\ Len(stack) <= MaxDepth
  BY PollerAssumption DEF PollerAssumption, PollerInv, StackInv, DepthTypes
<1>1. ASSUME NEW a \in Addrs,
             \/ \E f \in Fds, events \in Masks : New(a, f, events)
             \/ \E events \in Masks : Enable(a, events)
             \/ DeleteClosed(a)
      PROVE  DepthTypes'
  BY <1>1 DEF New, Enable, DeleteClosed, dispatchVars, DepthTypes
<1>2. ASSUME NEW a \in Addrs, Close(a) PROVE DepthTypes'
  <2>1. /\ stack' = Append(stack, [kind |-> "read", ch |-> a]) /\ Len(stack) < MaxDepth
        /\ UNCHANGED <<m_lastActive, phase>>
    BY <1>2 DEF Close
  <2>2. Len(stack') = Len(stack) + 1
    BY <1>0, <2>1
  <2>3. Len(stack') <= MaxDepth
    BY <1>0, <2>1, <2>2
  <2> QED
    BY <2>1, <2>3 DEF DepthTypes
<1>3. ASSUME NEW a \in Addrs, Delete(a) PROVE DepthTypes'
  <2> DEFINE two == <<[kind |-> "dtor", ch |-> a], [kind |-> "read", ch |-> a]>>
  <2>1. /\ stack' = stack \o two /\ Len(stack) + 1 < MaxDepth
        /\ UNCHANGED <<m_lastActive, phase>>
    BY <1>3 DEF Delete
  <2>2. two \in Seq(Frames) /\ Len(two) = 2
    BY DEF Frames
  <2> HIDE DEF two
  <2>3. Len(stack') = Len(stack) + 2
    <3>1. Len(stack \o two) = Len(stack) + Len(two)
      BY <1>0, <2>2, ConcatProperties
    <3> QED
      BY <2>1, <2>2, <3>1
  <2>4. Len(stack') <= MaxDepth
    BY <1>0, <2>1, <2>3
  <2> QED
    BY <2>1, <2>4 DEF DepthTypes
<1>4. ASSUME NEW a \in Addrs, DestroyCloses(a) PROVE DepthTypes'
  <2>1. Len(stack') = 1 /\ UNCHANGED <<m_lastActive, phase>>
    BY <1>4 DEF DestroyCloses
  <2> QED
    BY <1>0, <2>1 DEF DepthTypes
<1>5. CASE CallbackReturns \/ DestructorReturns
  <2>1. stack # <<>> /\ stack' = Front(stack) /\ UNCHANGED <<m_lastActive, phase>>
    BY <1>5 DEF CallbackReturns, DestructorReturns, dispatchVars
  <2>2. Len(stack') = Len(stack) - 1
    BY <1>0, <2>1, FrontOf
  <2>3. Len(stack') <= MaxDepth
    BY <1>0, <2>2
  <2> QED
    BY <2>1, <2>3 DEF DepthTypes
<1>6. ASSUME NEW n \in 0..MaxEvent, NEW batch \in [0..n - 1 -> Events], EpollWait(n, batch)
      PROVE  DepthTypes'
  <2>1. m_lastActive' = n /\ phase' = "dispatch" /\ stack' = stack
    BY <1>6 DEF EpollWait
  <2>2. n \in -1..MaxEvent
    BY <1>0
  <2> QED
    BY <1>0, <2>1, <2>2 DEF DepthTypes
<1>7. CASE Dispatch
  <2>1. /\ m_lastActive > 0 /\ m_lastActive' = m_lastActive - 1 /\ phase' = phase
        /\ stack' = <<>> \/ \E e : stack' = <<e>>
    BY <1>7 DEF Dispatch
  <2>2. Len(stack') <= MaxDepth
    <3>1. \A e : Len(<<e>>) = 1
      OBVIOUS
    <3>2. Len(stack') = 0 \/ Len(stack') = 1
      BY <2>1, <3>1
    <3>3. \A d \in Nat \ {0} : 0 <= d /\ 1 <= d
      OBVIOUS
    <3>4. 0 <= MaxDepth /\ 1 <= MaxDepth
      BY <1>0, <3>3
    <3>5. CASE Len(stack') = 0
      BY <3>4, <3>5
    <3>6. CASE Len(stack') = 1
      BY <3>4, <3>6
    <3> QED
      BY <3>2, <3>5, <3>6
  <2>3. m_lastActive' \in -1..MaxEvent
    BY <1>0, <2>1
  <2> QED
    BY <2>1, <2>2, <2>3 DEF DepthTypes
<1>8. CASE DispatchEnds \/ DestroyCall \/ DestroyReturns \/ UNCHANGED vars
  <2>1. /\ stack' = stack
        /\ m_lastActive' = m_lastActive \/ m_lastActive' = -1
        /\ phase' = phase \/ phase' \in {"idle", "destroy", "gone"}
    BY <1>8 DEF DispatchEnds, DestroyCall, DestroyReturns, vars, dispatchVars
  <2>2. m_lastActive' \in -1..MaxEvent
    BY <1>0, <2>1
  <2> QED
    BY <2>1, <2>2 DEF DepthTypes
<1> QED
  BY <1>1, <1>2, <1>3, <1>4, <1>5, <1>6, <1>7, <1>8 DEF Next

\* The state of the poller has the types of TypeOK: in particular the index
\* that loop_once counts down, and that removeChannel scans from, never leaves
\* m_activeEvents, and what lies there are addresses of channels or none.
THEOREM PollerTypeCorrect == Spec => []TypeOK
<1>1. Init => MaskTypes /\ DepthTypes
  BY PollerAssumption DEF PollerAssumption, Init, MaskTypes, DepthTypes, Masks
<1>2. PollerInv /\ MaskTypes /\ DepthTypes /\ [Next]_vars => MaskTypes' /\ DepthTypes'
  BY MaskTypesStep, DepthTypesStep
<1>3. PollerInv /\ MaskTypes /\ DepthTypes => TypeOK
  <2> SUFFICES ASSUME PollerInv, MaskTypes, DepthTypes PROVE TypeOK
    OBVIOUS
  <2>1. m_liveChannels \subseteq alive
    BY DEF PollerInv, ChannelInv, LiveIsOpen
  <2> QED
    BY <2>1 DEF TypeOK, PollerInv, ChannelInv, ChannelTypes, BatchInv, BatchTypes, StackInv,
                MaskTypes, DepthTypes
<1> QED
  BY <1>1, <1>2, <1>3, InvAlways, PTL DEF Spec
=============================================================================
