------------------------------ MODULE TcpConn ------------------------------
(***************************************************************************)
(* One accepted connection, TcpConn (tcpConn.cpp), with the callback of    *)
(* the echo server in main.cpp: con->send(con->getInput()).  The loop      *)
(* thread runs handleRead and handleWrite; between two of its system calls *)
(* the peer and the kernel may do anything.  The socket's queues and the   *)
(* peer are modelled from how the code uses read, write and poll.          *)
(*                                                                         *)
(* The peer sends the bytes 1, 2, 3, ... so that order, loss and           *)
(* repetition show.  The process ignores SIGPIPE.                          *)
(***************************************************************************)
EXTENDS Naturals, Sequences, SequencesExt

CONSTANTS
    SndBuf,     \* bytes that fit into the socket's send queue
    MaxBytes    \* bound: bytes the peer sends

ASSUME ConnAssumption == SndBuf \in Nat \ {0} /\ MaxBytes \in Nat

VARIABLES
    state_,     \* Status of the connection
    events,     \* what the channel is enabled for
    input_, output_,
    pc,         \* where the loop thread is
    sended,     \* isend's local variable
    then,       \* what handleRead does after the callback
    open,       \* the channel's descriptor is open
    sockIn,     \* bytes in the socket that handleRead has not read
    sockOut,    \* bytes written that the peer has not received
    sent,       \* bytes the peer has sent
    peerGot,    \* bytes the peer has received
    fin,        \* the peer sends nothing any more
    reset       \* the peer has reset the connection

connVars == <<state_, events, input_, output_, pc, sended, then, open>>
peerVars == <<sent, peerGot, fin, reset>>
allVars == <<connVars, sockIn, sockOut, peerVars>>

(* pc: "idle" not in a handler; "read" before readImp; "send" before       *)
(* send(); "write" before writeImp in isend; "cleanup" after the callback  *)
(* in cleanup.                                                             *)
ConnTypeOK ==
    /\ state_ \in {"Handshaking", "Connected", "Closed", "Failed"}
    /\ events \subseteq {"read", "write"}
    /\ input_ \in Seq(1..MaxBytes) /\ output_ \in Seq(1..MaxBytes)
    /\ pc \in {"idle", "read", "send", "write", "cleanup"}
    /\ sended \in 0..Len(input_)
    /\ then \in {"idle", "cleanup"}
    /\ open \in BOOLEAN
    /\ sockIn \in Seq(1..MaxBytes)
    /\ sockOut \in Seq(1..MaxBytes) /\ Len(sockOut) <= SndBuf
    /\ sent \in 0..MaxBytes
    /\ peerGot \in Seq(1..MaxBytes)
    /\ fin \in BOOLEAN /\ reset \in BOOLEAN

\* attach has registered the channel for both events.
ConnInit ==
    /\ state_ = "Handshaking"
    /\ events = {"read", "write"}
    /\ input_ = <<>> /\ output_ = <<>>
    /\ pc = "idle" /\ sended = 0 /\ then = "idle"
    /\ open = TRUE
    /\ sockIn = <<>> /\ sockOut = <<>>
    /\ sent = 0 /\ peerGot = <<>> /\ fin = FALSE /\ reset = FALSE

-----------------------------------------------------------------------------
(* What the poller reports (level-triggered) and which handler it calls.   *)

Readable == open /\ (reset \/ ("read" \in events /\ (sockIn # <<>> \/ fin)))
Writable == open /\ "write" \in events /\ Len(sockOut) < SndBuf

\* handleHandshake succeeds: poll reports POLLOUT and nothing else.
ShakeOk == open /\ ~reset /\ Len(sockOut) < SndBuf

\* handleHandshake: the channel is left with the read event, or cleanup.
Handshake ==
    IF ShakeOk THEN state_' = "Connected" /\ events' = {"read"}
               ELSE state_' = "Failed" /\ UNCHANGED events

\* handleRead up to its loop.
HandleRead ==
    /\ pc = "idle" /\ Readable
    /\ \/ /\ state_ = "Handshaking"
          /\ Handshake
          /\ pc' = IF ShakeOk THEN "read" ELSE "idle"
       \/ /\ state_ = "Connected"
          /\ pc' = "read"
          /\ UNCHANGED <<state_, events>>
    /\ UNCHANGED <<input_, output_, sended, then, open, sockIn, sockOut, peerVars>>

\* handleWrite does nothing once the connection is established.
HandleWrite ==
    /\ pc = "idle" /\ ~Readable /\ Writable
    /\ state_ = "Handshaking"
    /\ Handshake
    /\ UNCHANGED <<input_, output_, pc, sended, then, open, sockIn, sockOut, peerVars>>

-----------------------------------------------------------------------------
(* The loop of handleRead *)

\* readImp returns some of the waiting bytes, as many as fit.
ReadSome ==
    /\ pc = "read" /\ open /\ ~reset
    /\ \E k \in 1..Len(sockIn) :
           /\ input_' = input_ \o SubSeq(sockIn, 1, k)
           /\ sockIn' = SubSeq(sockIn, k + 1, Len(sockIn))
    /\ UNCHANGED <<state_, events, output_, pc, sended, then, open, sockOut, peerVars>>

\* Mutant: the callback waits for the end of file.
ReadAgainQuiet ==
    /\ pc = "read" /\ open /\ ~reset
    /\ sockIn = <<>> /\ ~fin
    /\ pc' = "idle"
    /\ then' = "idle"
    /\ UNCHANGED <<state_, events, input_, output_, sended, open, sockIn, sockOut, peerVars>>

\* EAGAIN: the callback, if there is input, and out of the loop.
ReadAgain ==
    /\ pc = "read" /\ open /\ ~reset
    /\ sockIn = <<>> /\ ~fin
    /\ pc' = IF input_ # <<>> THEN "send" ELSE "idle"
    /\ then' = "idle"
    /\ UNCHANGED <<state_, events, input_, output_, sended, open, sockIn, sockOut, peerVars>>

\* End of file, an error, or a closed descriptor: cleanup, which calls the
\* callback once more if there is input.
AtEnd == ~open \/ reset \/ (sockIn = <<>> /\ fin)

\* Mutant: cleanup without the last callback.
ReadEndDrops ==
    /\ pc = "read" /\ AtEnd
    /\ pc' = "cleanup"
    /\ then' = "cleanup"
    /\ UNCHANGED <<state_, events, input_, output_, sended, open, sockIn, sockOut, peerVars>>

ReadEnd ==
    /\ pc = "read" /\ AtEnd
    /\ pc' = IF input_ # <<>> THEN "send" ELSE "cleanup"
    /\ then' = "cleanup"
    /\ UNCHANGED <<state_, events, input_, output_, sended, open, sockIn, sockOut, peerVars>>

\* The rest of cleanup: the channel stays registered and enabled.
Cleanup ==
    /\ pc = "cleanup"
    /\ state_' = "Closed"
    /\ pc' = "idle"
    /\ UNCHANGED <<events, input_, output_, sended, then, open, sockIn, sockOut, peerVars>>

-----------------------------------------------------------------------------
(* send(input_) and isend *)

\* While the write event is enabled the bytes go to output_, "just full".
SendAbsorbs ==
    /\ pc = "send" /\ "write" \in events
    /\ output_' = output_ \o input_
    /\ input_' = <<>>
    /\ pc' = then
    /\ UNCHANGED <<state_, events, sended, then, open, sockIn, sockOut, peerVars>>

SendWrites ==
    /\ pc = "send" /\ "write" \notin events
    /\ pc' = "write"
    /\ sended' = 0
    /\ UNCHANGED <<state_, events, input_, output_, then, open, sockIn, sockOut, peerVars>>

\* Mutant: each round of isend starts at the front of the buffer again.
WriteSomeAgain ==
    /\ pc = "write" /\ sended < Len(input_) /\ open /\ ~reset
    /\ \E k \in 1..(Len(input_) - sended) :
           /\ Len(sockOut) + k <= SndBuf
           /\ sockOut' = sockOut \o SubSeq(input_, 1, k)
           /\ sended' = sended + k
    /\ UNCHANGED <<state_, events, input_, output_, pc, then, open, sockIn, peerVars>>

\* writeImp takes as many bytes as there is room for, or fewer.
WriteSome ==
    /\ pc = "write" /\ sended < Len(input_) /\ open /\ ~reset
    /\ \E k \in 1..(Len(input_) - sended) :
           /\ Len(sockOut) + k <= SndBuf
           /\ sockOut' = sockOut \o SubSeq(input_, sended + 1, sended + k)
           /\ sended' = sended + k
    /\ UNCHANGED <<state_, events, input_, output_, pc, then, open, sockIn, peerVars>>

\* EAGAIN enables the write event, and isend tries again at once.
WriteAgain ==
    /\ pc = "write" /\ sended < Len(input_) /\ open /\ ~reset
    /\ Len(sockOut) = SndBuf
    /\ events' = events \cup {"write"}
    /\ UNCHANGED <<state_, input_, output_, pc, sended, then, open, sockIn, sockOut, peerVars>>

\* isend is done or has met an error; send consumes what was sent.
WriteEnds ==
    /\ pc = "write"
    /\ sended = Len(input_) \/ ~open \/ reset
    /\ input_' = SubSeq(input_, sended + 1, Len(input_))
    /\ sended' = 0
    /\ pc' = then
    /\ UNCHANGED <<state_, events, output_, then, open, sockIn, sockOut, peerVars>>

-----------------------------------------------------------------------------
(* The poller's destructor closes the channel, which calls handleRead.     *)

PollerCloses ==
    /\ pc = "idle" /\ open
    /\ open' = FALSE
    /\ state_' = IF state_ = "Handshaking" THEN "Failed" ELSE state_
    /\ pc' = IF state_ = "Connected" THEN "read" ELSE "idle"
    /\ UNCHANGED <<events, input_, output_, sended, then, sockIn, sockOut, peerVars>>

-----------------------------------------------------------------------------
(* The peer *)

PeerSends ==
    /\ ~fin /\ ~reset /\ sent < MaxBytes
    /\ sent' = sent + 1
    /\ sockIn' = Append(sockIn, sent + 1)
    /\ UNCHANGED <<connVars, sockOut, peerGot, fin, reset>>

PeerReceives ==
    /\ ~reset /\ sockOut # <<>>
    /\ peerGot' = Append(peerGot, Head(sockOut))
    /\ sockOut' = Tail(sockOut)
    /\ UNCHANGED <<connVars, sockIn, sent, fin, reset>>

PeerEnds ==
    /\ fin' = TRUE
    /\ UNCHANGED <<connVars, sockIn, sockOut, sent, peerGot, reset>>

PeerResets ==
    /\ reset' = TRUE
    /\ sockIn' = <<>> /\ sockOut' = <<>>
    /\ UNCHANGED <<connVars, sent, peerGot, fin>>

-----------------------------------------------------------------------------

Handler ==
    \/ HandleRead \/ HandleWrite
    \/ ReadSome \/ ReadAgain \/ ReadEnd \/ Cleanup
    \/ SendAbsorbs \/ SendWrites \/ WriteSome \/ WriteAgain \/ WriteEnds

ConnNext ==
    \/ Handler
    \/ PollerCloses
    \/ PeerSends \/ PeerReceives \/ PeerEnds \/ PeerResets

ConnSafeSpec == ConnInit /\ [][ConnNext]_allVars

\* The loop thread runs, and the peer receives what arrives.
ConnSpec == ConnSafeSpec /\ WF_allVars(Handler) /\ WF_allVars(PeerReceives)

-----------------------------------------------------------------------------
(* Correctness *)

\* Echo: unless the peer resets, every byte it has sent is in one place only
\* and in order - received back, in the socket, in output_, in the unsent
\* part of input_, or not read yet - however reads and writes are cut.
EchoInOrder ==
    reset \/ peerGot \o sockOut \o output_ \o SubSeq(input_, sended + 1, Len(input_)) \o sockIn
                 = [i \in 1..sent |-> i]

\* A connection that closes by itself has seen the end of the peer's data and
\* given all of it to the callback.
ClosedAfterAllData ==
    state_ = "Closed" /\ open /\ ~reset => fin /\ sockIn = <<>> /\ input_ = <<>>

\* The comment in send(): the write event is enabled because the socket is
\* "just full".
JustFull == pc = "send" /\ "write" \in events => Len(sockOut) = SndBuf \/ reset \/ ~open

\* As long as the connection lasts, every byte comes back unless it goes to
\* output_, from where nothing is ever sent: a full send queue delays bytes,
\* and end of file does not cut the last ones off.
EveryByteComesBack ==
    \A n \in 1..MaxBytes :
        sent >= n ~> Len(peerGot) >= n \/ output_ # <<>> \/ reset \/ ~open

=============================================================================
