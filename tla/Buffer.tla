------------------------------- MODULE Buffer -------------------------------
(***************************************************************************)
(* Buffer (buffer.h and buffer.cpp): a block of cap_ bytes of which        *)
(* those from b_ to e_ - 1 are the content.  Making room moves the content *)
(* to the front of the block or into a larger one.                         *)
(***************************************************************************)
EXTENDS Integers, Sequences

CONSTANTS
    Buffers,   \* the buffers in use
    Chunks,    \* the byte sequences that are appended or read at once
    SuggestSize,  \* exp_, 512 unless set
    Junk,      \* the value of memory outside the content; no code reads it
    MaxSize,   \* bound: content of a buffer
    MaxCap     \* bound: a block longer than this is not read into any more

ASSUME BufferAssumption ==
    /\ SuggestSize \in Nat \ {0}
    /\ MaxSize \in Nat /\ MaxCap \in Nat
    /\ \A c \in Chunks : /\ c \in Seq({c[i] : i \in DOMAIN c})
                          /\ Junk \notin {c[i] : i \in DOMAIN c}

\* buf is the block, as a function of the offset; cap_ is its length.
VARIABLES buf, b_, e_, cap_

vars == <<buf, b_, e_, cap_>>

Bytes == UNION {{c[i] : i \in DOMAIN c} : c \in Chunks}

TypeOK ==
    /\ b_ \in [Buffers -> Nat] /\ e_ \in [Buffers -> Nat] /\ cap_ \in [Buffers -> Nat]
    /\ \A i \in Buffers :
           /\ b_[i] <= e_[i] /\ e_[i] <= cap_[i]
           /\ buf[i] \in [0..cap_[i] - 1 -> Bytes \cup {Junk}]

Init ==
    /\ buf = [i \in Buffers |-> [k \in 0..-1 |-> Junk]]
    /\ b_ = [i \in Buffers |-> 0]
    /\ e_ = [i \in Buffers |-> 0]
    /\ cap_ = [i \in Buffers |-> 0]

-----------------------------------------------------------------------------
(* A buffer as a record, and what the members of Buffer make of it.        *)

Get(i) == [buf |-> buf[i], b |-> b_[i], e |-> e_[i], cap |-> cap_[i]]

Set(i, x) ==
    /\ buf' = [buf EXCEPT ![i] = x.buf]
    /\ b_' = [b_ EXCEPT ![i] = x.b]
    /\ e_' = [e_ EXCEPT ![i] = x.e]
    /\ cap_' = [cap_ EXCEPT ![i] = x.cap]

Size(x) == x.e - x.b
Space(x) == x.cap - x.e
Larger(m, n) == IF m > n THEN m ELSE n

Cleared == [buf |-> [k \in 0..-1 |-> Junk], b |-> 0, e |-> 0, cap |-> 0]

\* Mutant: the new block is sized for the content alone.
ExpandToSize(x, len) ==
    LET ncap == Larger(x.cap, Size(x) + len)
    IN [buf |-> [k \in 0..ncap - 1 |-> IF k < Size(x) THEN x.buf[x.b + k] ELSE Junk],
        b |-> 0, e |-> Size(x), cap |-> ncap]

\* expand: the content goes to the front of a new block of
\* max(exp_, 2*cap_, size()+len) bytes.
Expand(x, len) ==
    LET ncap == Larger(SuggestSize, Larger(2 * x.cap, Size(x) + len))
    IN [buf |-> [k \in 0..ncap - 1 |-> IF k < Size(x) THEN x.buf[x.b + k] ELSE Junk],
        b |-> 0, e |-> Size(x), cap |-> ncap]

\* Mutant: the offsets move but the bytes stay where they are.
MoveHeadCopiesNothing(x) == [buf |-> x.buf, b |-> 0, e |-> Size(x), cap |-> x.cap]

MoveHead(x) ==
    [buf |-> [k \in DOMAIN x.buf |-> IF k < Size(x) THEN x.buf[x.b + k] ELSE Junk],
     b |-> 0, e |-> Size(x), cap |-> x.cap]

\* makeRoom(len), for an append of len bytes.
MakeRoom(x, len) ==
    IF x.e + len <= x.cap THEN x
    ELSE IF Size(x) + len < x.cap \div 2 THEN MoveHead(x) ELSE Expand(x, len)

\* makeRoom(), for a read of unknown length.
MakeReadRoom(x) == IF Space(x) < SuggestSize THEN Expand(x, 0) ELSE x

\* Bytes written at end(), and addSize.
Write(x, data) ==
    [buf |-> [k \in DOMAIN x.buf |->
                  IF k \in x.e..x.e + Len(data) - 1 THEN data[k - x.e + 1] ELSE x.buf[k]],
     b |-> x.b, e |-> x.e + Len(data), cap |-> x.cap]

\* The bytes from begin() to end().
Content(x) == [k \in 1..Size(x) |-> x.buf[x.b + k - 1]]

-----------------------------------------------------------------------------
(* The operations *)

\* append(p, len)
Append_(i, data) ==
    /\ Size(Get(i)) + Len(data) <= MaxSize
    /\ Set(i, Write(MakeRoom(Get(i), Len(data)), data))

\* As TcpConn::handleRead does: makeRoom(), a read of at most space() bytes
\* to end(), addSize.
ReadInto(i, data) ==
    LET x == MakeReadRoom(Get(i))
    IN /\ Size(x) + Len(data) <= MaxSize
       /\ Len(data) <= Space(x)
       /\ x.cap <= MaxCap
       /\ Set(i, Write(x, data))

\* consume(len) frees the block when nothing is left.
Consume(i, n) ==
    LET x == Get(i)
        rest == [buf |-> [k \in DOMAIN x.buf |-> IF k < x.b + n THEN Junk ELSE x.buf[k]],
                 b |-> x.b + n, e |-> x.e, cap |-> x.cap]
    IN /\ n <= Size(x)
       /\ Set(i, IF Size(rest) = 0 THEN Cleared ELSE rest)

\* absorb: an empty buffer swaps its block with the other one's, otherwise
\* the other one's content is appended and the other one cleared.
Absorb(i, j) ==
    /\ i # j
    /\ Size(Get(i)) + Size(Get(j)) <= MaxSize
    /\ LET x == Get(i)
           y == Get(j)
           xNew == IF Size(x) = 0 THEN y ELSE Write(MakeRoom(x, Size(y)), Content(y))
           yNew == IF Size(x) = 0 THEN x ELSE Cleared
       IN /\ buf' = [buf EXCEPT ![i] = xNew.buf, ![j] = yNew.buf]
          /\ b_' = [b_ EXCEPT ![i] = xNew.b, ![j] = yNew.b]
          /\ e_' = [e_ EXCEPT ![i] = xNew.e, ![j] = yNew.e]
          /\ cap_' = [cap_ EXCEPT ![i] = xNew.cap, ![j] = yNew.cap]

\* Copying from another buffer: a block of the same length, with the content
\* at the same place and the rest of it uninitialized.
CopyFrom(i, j) ==
    LET y == Get(j)
    IN /\ i # j
       /\ Set(i, [buf |-> [k \in DOMAIN y.buf |-> IF k \in y.b..y.e - 1 THEN y.buf[k] ELSE Junk],
                  b |-> y.b, e |-> y.e, cap |-> y.cap])

Next ==
    \E i \in Buffers :
        \/ \E data \in Chunks : Append_(i, data) \/ ReadInto(i, data)
        \/ \E n \in 1..MaxSize : Consume(i, n)
        \/ \E j \in Buffers : Absorb(i, j) \/ CopyFrom(i, j)

Spec == Init /\ [][Next]_vars

-----------------------------------------------------------------------------
(* Correctness *)

\* A Buffer is a byte queue: no operation loses, repeats, reorders or makes
\* up a byte, whatever moving and reallocating it takes.
Q == INSTANCE ByteQueue WITH content <- [i \in Buffers |-> Content(Get(i))]

ImplementsByteQueue == Q!Spec

\* After makeRoom() there is room for at least one byte, so that read is never
\* called with length 0, whose result handleRead would take for end of file.
ReadHasRoom == \A i \in Buffers : Space(MakeReadRoom(Get(i))) > 0

=============================================================================
