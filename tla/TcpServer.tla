----------------------------- MODULE TcpServer -----------------------------
(***************************************************************************)
(* TcpServer (tcpServer.cpp) on its EventBase: the listening channel's     *)
(* read callback, handleAccept, accepts connections until the kernel has   *)
(* no more and posts a task for each with safeCall; the task attaches a    *)
(* TcpConn to the loop and gives it the callback that onConnRead has left  *)
(* in the server.                                                          *)
(*                                                                         *)
(* The module extends EventLoop: every step of the server is made by the   *)
(* loop thread between or inside that module's steps, while other threads  *)
(* post tasks and call exit().  The server outlives its tasks, which hold  *)
(* a plain pointer to it.                                                  *)
(***************************************************************************)
EXTENDS EventLoop

CONSTANTS
    Arrivals,  \* the connections peers make, named in order of arrival
    FdLimit,   \* descriptors the process may have for connections
    MaxCalls   \* bound: calls of onConnRead

\* A connection also stands for the task that attaches it.
Conns == ToSet(Arrivals)

ASSUME ServerAssumption ==
    /\ Arrivals \in Seq(Tasks) /\ IsInjective(Arrivals)
    /\ FdLimit \in Nat /\ MaxCalls \in Nat

\* A callback is named by the number of the onConnRead call that gives it; an
\* empty one, as the constructors of the server and of TcpConn leave it, is 0.
NoCallback == 0

VARIABLES
    backlog,    \* established connections that have not been accepted
    gone,       \* those of them the peer has reset
    arrived,    \* history: how many of Arrivals have arrived
    open,       \* listenChannel_ is open
    readcb_,    \* the callback for connections to come
    ready,      \* the listening channel is in the batch of events being handled
    accepting,  \* the loop thread is in handleAccept
    attached,   \* the connections that have been attached, in this order
    called,     \* the callback each connection has
    lost,       \* connections nobody will attach: accepted and forgotten, or left
                \* to the kernel by the destructor
    calls,      \* history: calls of onConnRead
    cleared,    \* history: those that gave an empty callback
    before      \* history: the connections attached before the last one

kernelVars == <<backlog, gone, arrived>>
connVars == <<attached, called, lost>>
callVars == <<readcb_, calls, cleared, before>>
serverVars == <<kernelVars, open, ready, accepting, connVars, callVars>>

ServerTypeOK ==
    /\ backlog \in Seq(Conns) /\ arrived \in 0..Len(Arrivals) /\ attached \in Seq(Conns)
    /\ gone \subseteq ToSet(backlog)
    /\ {open, ready, accepting} \subseteq BOOLEAN
    /\ calls \in 0..MaxCalls /\ cleared \subseteq 1..calls /\ readcb_ \in 0..calls
    /\ called \in [Conns -> 0..calls]
    /\ \A c \in Conns \ ToSet(attached) : called[c] = NoCallback
    /\ before \subseteq ToSet(attached)
    /\ lost \subseteq Conns

\* startServer: bind and listen have succeeded.
ServerInit ==
    /\ Init
    /\ backlog = <<>> /\ gone = {} /\ arrived = 0
    /\ open = TRUE /\ ready = FALSE /\ accepting = FALSE
    /\ attached = <<>> /\ called = [c \in Conns |-> NoCallback] /\ lost = {}
    /\ readcb_ = NoCallback /\ calls = 0 /\ cleared = {} /\ before = {}

-----------------------------------------------------------------------------
(* The kernel and the peers *)

Connect(c) ==
    /\ open
    /\ arrived < Len(Arrivals) /\ c = Arrivals[arrived + 1]
    /\ backlog' = Append(backlog, c)
    /\ arrived' = arrived + 1
    /\ UNCHANGED <<vars, gone, open, ready, accepting, connVars, callVars>>

Reset(c) ==
    /\ c \in ToSet(backlog) \ gone
    /\ gone' = gone \cup {c}
    /\ UNCHANGED <<vars, backlog, arrived, open, ready, accepting, connVars, callVars>>

\* The connections whose tasks are queued or being run.
Pending == Conns \cap ({task} \cup ToSet(m_tasks))

\* Descriptors of connections that are open: nothing closes one.
Held == Cardinality(Pending) + Len(attached) + Cardinality(lost)

-----------------------------------------------------------------------------
(* Other code that uses the server, in the loop thread                     *)

UserCode == CanCall(Self) /\ ~accepting

\* onConnRead replaces the callback, by another or by an empty one (an empty one
\* in the place of an empty one is no change).  A call before loop() is one made
\* before the first batch's other callbacks.
OnConnRead(cb) ==
    /\ open /\ UserCode /\ calls < MaxCalls /\ cb # readcb_
    /\ readcb_' = cb
    /\ calls' = calls + 1
    /\ cleared' = IF cb = NoCallback THEN cleared \cup {calls'} ELSE cleared
    /\ before' = ToSet(attached)
    /\ UNCHANGED <<vars, kernelVars, open, ready, accepting, connVars>>

\* ~TcpServer closes the channel, which leaves the batch of events and calls
\* handleAccept; with the closed descriptor it does nothing.  Connections not
\* accepted are the kernel's.
Destroy ==
    /\ open /\ (UserCode \/ lpc = "returned")
    /\ Pending = {}
    /\ open' = FALSE /\ ready' = FALSE
    /\ backlog' = <<>> /\ gone' = {}
    /\ lost' = lost \cup ToSet(backlog)
    /\ UNCHANGED <<vars, arrived, accepting, attached, called, callVars>>

-----------------------------------------------------------------------------
(* handleAccept *)

\* The listening channel's turn comes before or after the wakeup channel's.
HandleAccept ==
    /\ ready /\ ~accepting
    /\ At("before") \/ At("after")
    /\ ready' = FALSE /\ accepting' = TRUE
    /\ UNCHANGED <<vars, kernelVars, open, connVars, callVars>>

CanAccept == backlog # <<>> /\ Held < FdLimit

\* Mutant: the connection that found the queue full is tried again later,
\* behind those that came after it.
AcceptRetries ==
    LET c == Head(backlog)
    IN /\ accepting /\ pc[Self] = "out" /\ CanAccept
       /\ IF c \notin gone /\ Accepts
            THEN SafeCall(Self, c) /\ backlog' = Tail(backlog)
            ELSE UNCHANGED vars /\ backlog' = Append(Tail(backlog), c)
       /\ gone' = gone \ {c}
       /\ UNCHANGED <<arrived, open, ready, accepting, connVars, callVars>>

\* Mutant: handleAccept gives the connection the callback before it posts the task.
AcceptCalls ==
    LET c == Head(backlog)
    IN /\ accepting /\ pc[Self] = "out" /\ CanAccept
       /\ backlog' = Tail(backlog) /\ gone' = gone \ {c}
       /\ IF c \in gone THEN UNCHANGED vars ELSE SafeCall(Self, c)
       /\ lost' = IF c \in gone \/ ~Accepts THEN lost \cup {c} ELSE lost
       /\ called' = [called EXCEPT ![c] = readcb_]
       /\ UNCHANGED <<arrived, open, ready, accepting, attached, callVars>>

\* accept.  If the peer has gone, getpeername fails and the descriptor is left
\* behind; so it is when the queue does not take the task, a result that
\* safeCall ignores.
Accept ==
    LET c == Head(backlog)
    IN /\ accepting /\ pc[Self] = "out" /\ CanAccept
       /\ backlog' = Tail(backlog) /\ gone' = gone \ {c}
       /\ IF c \in gone THEN UNCHANGED vars ELSE SafeCall(Self, c)
       /\ lost' = IF c \in gone \/ ~Accepts THEN lost \cup {c} ELSE lost
       /\ UNCHANGED <<arrived, open, ready, accepting, attached, called, callVars>>

\* Mutant: handleAccept tries again whatever accept has failed with, as long as a
\* connection waits.
AcceptSpins ==
    /\ accepting /\ pc[Self] = "out" /\ backlog = <<>>
    /\ accepting' = FALSE
    /\ UNCHANGED <<vars, kernelVars, open, ready, connVars, callVars>>

\* accept fails: no connection waits, or no descriptor is left.
AcceptEnds ==
    /\ accepting /\ pc[Self] = "out" /\ ~CanAccept
    /\ accepting' = FALSE
    /\ UNCHANGED <<vars, kernelVars, open, ready, connVars, callVars>>

-----------------------------------------------------------------------------
(* The steps of EventLoop                                                  *)

\* epoll_wait reports the listening channel while a connection waits.
ServerPoll ==
    /\ Poll
    /\ ready' = (open /\ backlog # <<>>)
    /\ UNCHANGED <<kernelVars, open, accepting, connVars, callVars>>

\* addcon: attach, and the callback if there is one; or somebody else's task.
RunTask ==
    /\ TaskReturns
    /\ attached' = IF task \in Conns THEN Append(attached, task) ELSE attached
    /\ called' = IF task \in Conns /\ readcb_ # NoCallback
                   THEN [called EXCEPT ![task] = readcb_] ELSE called
    /\ UNCHANGED <<kernelVars, open, ready, accepting, lost, callVars>>

\* The pass ends when every channel of the batch has been handled.
Pass == Check \/ HandleWakeup \/ Read \/ Drain \/ (PassEnds /\ ~ready)

ServerStep ==
    \/ HandleAccept \/ Accept \/ AcceptEnds \/ ServerPoll \/ RunTask
    \/ (Pass /\ ~accepting /\ UNCHANGED serverVars)

\* Posts of other tasks and exit(), and the write that ends each safeCall.
Calls(t) ==
    /\ \/ /\ t = Self => ~accepting
          /\ Exit(t) \/ \E v \in Tasks \ Conns : SafeCall(t, v)
       \/ Wakeup(t)
    /\ UNCHANGED serverVars

ServerNext ==
    \/ ServerStep
    \/ \E t \in Threads : Calls(t)
    \/ \E cb \in {NoCallback, calls + 1} : OnConnRead(cb)
    \/ Destroy
    \/ \E c \in Conns : Connect(c) \/ Reset(c)

ServerSafeSpec == ServerInit /\ [][ServerNext]_<<vars, serverVars>>

\* The loop thread and the writes go on, as in EventLoop.
ServerSpec ==
    /\ ServerSafeSpec
    /\ WF_<<vars, serverVars>>(ServerStep)
    /\ \A t \in Threads : WF_<<vars, serverVars>>(Wakeup(t) /\ UNCHANGED serverVars)

-----------------------------------------------------------------------------
(* Correctness *)

\* The way of a connection, from its end: attached, being attached, queued
\* among the tasks of others, waiting to be accepted.
Line == attached \o <<task>> \o m_tasks \o backlog

Earlier(c, d) ==
    \E i, j \in DOMAIN Arrivals : i < j /\ Arrivals[i] = c /\ Arrivals[j] = d

\* Every connection that has arrived is on its way or lost, not both, and none
\* overtakes another or is on the way twice.
ConnsInOrder ==
    /\ \A i \in 1..arrived : Arrivals[i] \in ToSet(Line) <=> Arrivals[i] \notin lost
    /\ \A i, j \in DOMAIN Line :
           i < j /\ {Line[i], Line[j]} \subseteq Conns => Earlier(Line[i], Line[j])

\* The callback that onConnRead was last given.
Newest == IF calls \in cleared THEN NoCallback ELSE calls

\* However accepting, queueing, attaching and onConnRead interleave: a connection
\* not attached by the time of an onConnRead call does not get a callback from
\* before it, though it was accepted or queued earlier, nor does it keep one that
\* the call clears; and of two connections the one that arrived later has no
\* older callback, and none only if onConnRead cleared it in between.
CallbacksInOrder ==
    /\ \A c \in ToSet(attached) \ before : called[c] = Newest
    /\ \A c, d \in ToSet(attached) : Earlier(c, d) /\ called[c] # NoCallback =>
           \/ called[d] >= called[c]
           \/ called[d] = NoCallback /\ \E k \in cleared : k > called[c]

\* A connection that waits is attached in the end, unless its descriptor is
\* lost, it still waits and no descriptor is left, the server is destroyed, or
\* the loop ends or blocks itself with the posts of handleAccept among others.
Served ==
    \A c \in Conns :
        c \in ToSet(backlog) ~>
            \/ c \in ToSet(attached) \cup lost
            \/ c \in ToSet(backlog) /\ Held >= FdLimit
            \/ ~open \/ lpc = "returned" \/ LoopWaitsForItself

=============================================================================
