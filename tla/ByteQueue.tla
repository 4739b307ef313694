----------------------------- MODULE ByteQueue -----------------------------
(***************************************************************************)
(* What a Buffer is to its users: a queue of bytes.  Bytes go in at the    *)
(* end and out at the front; a buffer can take over or copy the content of *)
(* another.  Room, capacity and copying inside the memory do not show.     *)
(***************************************************************************)
EXTENDS Naturals, Sequences

CONSTANTS
    Buffers,   \* the buffers
    Chunks     \* the byte sequences that are put in at once

VARIABLE content

Init == content = [i \in Buffers |-> <<>>]

PutIn(i, data) == content' = [content EXCEPT ![i] = @ \o data]

TakeOut(i, n) == content' = [content EXCEPT ![i] = SubSeq(@, n + 1, Len(@))]

\* All of j goes to the end of i.
TakeOver(i, j) ==
    /\ i # j
    /\ content' = [content EXCEPT ![i] = @ \o content[j], ![j] = <<>>]

Copy(i, j) == content' = [content EXCEPT ![i] = content[j]]

Next ==
    \E i \in Buffers :
        \/ \E data \in Chunks : PutIn(i, data)
        \/ \E n \in 1..Len(content[i]) : TakeOut(i, n)
        \/ \E j \in Buffers : TakeOver(i, j) \/ Copy(i, j)

Spec == Init /\ [][Next]_content
=============================================================================
