--------------------------- MODULE BytePathProofs ---------------------------
(***************************************************************************)
(* Proofs about the way of the bytes through the library: Buffer, for any  *)
(* buffers, chunks and suggested size, and TcpConn, for any size of the    *)
(* send queue and any number of bytes.                                     *)
(***************************************************************************)
EXTENDS Buffer, TcpConn, SequenceTheorems, TLAPS

-----------------------------------------------------------------------------
(* Buffer: one block *)

\* The constants of Buffer, as the proofs use them.
LEMMA BufferConstants == SuggestSize \in Nat \ {0} /\ Chunks \subseteq Seq(Bytes)
<1>1. SuggestSize \in Nat \ {0}
  BY BufferAssumption DEF BufferAssumption
<1>2. ASSUME NEW c \in Chunks PROVE c \in Seq(Bytes)
  <2>1. c \in Seq({c[i] : i \in DOMAIN c})
    BY BufferAssumption DEF BufferAssumption
  <2>2. {c[i] : i \in DOMAIN c} \subseteq Bytes
    BY DEF Bytes
  <2> QED
    BY <2>1, <2>2
<1> QED
  BY <1>1, <1>2

\* What a byte of memory may hold.
Cell == Bytes \cup {Junk}

\* A block and its content in bounds.
Block(x) ==
    /\ x = [buf |-> x.buf, b |-> x.b, e |-> x.e, cap |-> x.cap]
    /\ x.b \in Nat /\ x.e \in Nat /\ x.cap \in Nat
    /\ x.b <= x.e /\ x.e <= x.cap
    /\ x.buf \in [0..x.cap - 1 -> Cell]

\* The inductive invariant: every buffer is such a block.
BlocksInv ==
    /\ DOMAIN buf = Buffers /\ buf = [i \in Buffers |-> buf[i]]
    /\ b_ \in [Buffers -> Nat] /\ e_ \in [Buffers -> Nat] /\ cap_ \in [Buffers -> Nat]
    /\ \A i \in Buffers : Block(Get(i))

\* The content is a sequence as long as size() says.
LEMMA ContentOf ==
    ASSUME NEW x, Block(x)
    PROVE  /\ Size(x) \in Nat /\ Size(x) <= x.cap
           /\ Content(x) \in Seq(Cell) /\ Len(Content(x)) = Size(x)
           /\ \A k \in 1..Size(x) : Content(x)[k] = x.buf[x.b + k - 1]
<1>1. x.b \in Nat /\ x.e \in Nat /\ x.cap \in Nat /\ x.b <= x.e /\ x.e <= x.cap
  BY DEF Block
<1>2. Size(x) \in Nat /\ Size(x) <= x.cap /\ x.b + Size(x) <= x.cap
  BY <1>1 DEF Size
<1>3. \A k \in 1..Size(x) : x.b + k - 1 \in 0..x.cap - 1
  BY <1>1, <1>2
<1>4. \A k \in 1..Size(x) : x.buf[x.b + k - 1] \in Cell
  BY <1>3 DEF Block
<1> DEFINE c == Content(x)
<1>5. c = [k \in 1..Size(x) |-> x.buf[x.b + k - 1]]
  BY DEF Content
<1> HIDE DEF c
<1>6. c \in [1..Size(x) -> Cell]
  BY <1>4, <1>5
<1>7. c \in Seq(Cell) /\ Len(c) = Size(x)
  BY <1>2, <1>6
<1> QED
  BY <1>2, <1>5, <1>7 DEF c

\* Two blocks with the same bytes between begin() and end().
LEMMA SameContent ==
    ASSUME NEW x, NEW y, Block(x), Block(y), Size(x) = Size(y),
           \A k \in 1..Size(x) : y.buf[y.b + k - 1] = x.buf[x.b + k - 1]
    PROVE  Content(y) = Content(x)
BY DEF Content

\* moveHead keeps the content and the block's length.
LEMMA Moved ==
    ASSUME NEW x, Block(x)
    PROVE  /\ Block(MoveHead(x)) /\ Content(MoveHead(x)) = Content(x)
           /\ MoveHead(x).e = Size(x) /\ MoveHead(x).cap = x.cap
           /\ Size(MoveHead(x)) = Size(x)
<1> DEFINE y == MoveHead(x)
           f == [k \in DOMAIN x.buf |-> IF k < Size(x) THEN x.buf[x.b + k] ELSE Junk]
<1>1. /\ x.b \in Nat /\ x.e \in Nat /\ x.cap \in Nat /\ x.b <= x.e /\ x.e <= x.cap
      /\ x = [buf |-> x.buf, b |-> x.b, e |-> x.e, cap |-> x.cap]
      /\ x.buf \in [0..x.cap - 1 -> Cell]
  BY DEF Block
<1>2. Size(x) \in Nat /\ Size(x) <= x.cap /\ x.b + Size(x) <= x.cap
  BY <1>1 DEF Size
<1>3. y = [buf |-> f, b |-> 0, e |-> Size(x), cap |-> x.cap]
  BY DEF MoveHead
<1>4. \A k \in 0..x.cap - 1 : k < Size(x) => x.b + k \in 0..x.cap - 1
  BY <1>1, <1>2
<1>5. f \in [0..x.cap - 1 -> Cell]
  BY <1>1, <1>4 DEF Cell
<1>6. \A k \in 1..Size(x) : /\ 0 + k - 1 \in 0..x.cap - 1 /\ 0 + k - 1 < Size(x)
                            /\ x.b + (0 + k - 1) = x.b + k - 1
  BY <1>1, <1>2
<1>7. \A k \in 1..Size(x) : f[0 + k - 1] = x.buf[x.b + k - 1]
  BY <1>1, <1>6
<1> HIDE DEF y, f
<1>8. y.buf = f /\ y.b = 0 /\ y.e = Size(x) /\ y.cap = x.cap
  BY <1>3
<1>9. Block(y)
  BY <1>1, <1>2, <1>3, <1>5, <1>8 DEF Block
<1>10. Size(y) = Size(x)
  BY <1>2, <1>8 DEF Size
<1>11. Content(y) = Content(x)
  BY <1>7, <1>8, <1>9, <1>10, SameContent
<1> QED
  BY <1>8, <1>9, <1>10, <1>11 DEF y

\* expand keeps the content, in a block that is long enough.
LEMMA Expanded ==
    ASSUME NEW x, Block(x), NEW len \in Nat
    PROVE  /\ Block(Expand(x, len)) /\ Content(Expand(x, len)) = Content(x)
           /\ Size(Expand(x, len)) = Size(x) /\ Expand(x, len).e = Size(x)
           /\ Expand(x, len).cap >= SuggestSize /\ Expand(x, len).cap >= 2 * x.cap
           /\ Expand(x, len).cap >= Size(x) + len
<1> DEFINE n == Larger(SuggestSize, Larger(2 * x.cap, Size(x) + len))
           y == Expand(x, len)
           f == [k \in 0..n - 1 |-> IF k < Size(x) THEN x.buf[x.b + k] ELSE Junk]
<1>1. /\ x.b \in Nat /\ x.e \in Nat /\ x.cap \in Nat /\ x.b <= x.e /\ x.e <= x.cap
      /\ x.buf \in [0..x.cap - 1 -> Cell]
  BY DEF Block
<1>2. Size(x) \in Nat /\ Size(x) <= x.cap /\ x.b + Size(x) <= x.cap
  BY <1>1 DEF Size
<1>3. n \in Nat /\ n >= SuggestSize /\ n >= 2 * x.cap /\ n >= Size(x) + len
  BY <1>1, <1>2, BufferConstants DEF Larger
<1>4. y = [buf |-> f, b |-> 0, e |-> Size(x), cap |-> n]
  BY DEF Expand
<1> HIDE DEF n
<1>5. \A k \in 0..n - 1 : k < Size(x) => x.b + k \in 0..x.cap - 1
  <2>1. ASSUME NEW k \in 0..n - 1, k < Size(x) PROVE x.b + k \in 0..x.cap - 1
    <3>1. k \in Nat
      BY <1>3
    <3>2. x.b + k \in Nat /\ x.b + k < x.cap
      BY <1>1, <1>2, <2>1, <3>1
    <3> QED
      BY <1>1, <3>2
  <2> QED
    BY <2>1
<1>6. f \in [0..n - 1 -> Cell]
  BY <1>1, <1>5 DEF Cell
<1>7. \A k \in 1..Size(x) : /\ 0 + k - 1 \in 0..n - 1 /\ 0 + k - 1 < Size(x)
                            /\ x.b + (0 + k - 1) = x.b + k - 1
  BY <1>1, <1>2, <1>3
<1>8. \A k \in 1..Size(x) : f[0 + k - 1] = x.buf[x.b + k - 1]
  BY <1>7
<1> HIDE DEF y, f
<1>9. y.buf = f /\ y.b = 0 /\ y.e = Size(x) /\ y.cap = n
  BY <1>4
<1>10. Size(x) <= n
  BY <1>1, <1>2, <1>3
<1>11. Block(y)
  BY <1>2, <1>3, <1>4, <1>6, <1>9, <1>10 DEF Block
<1>12. Size(y) = Size(x)
  BY <1>2, <1>9 DEF Size
<1>13. Content(y) = Content(x)
  BY <1>8, <1>9, <1>11, <1>12, SameContent
<1> QED
  BY <1>3, <1>9, <1>11, <1>12, <1>13 DEF y

\* makeRoom(len) makes room and keeps the content.
\* Where the bytes of a write and those of a consumed buffer lie.
LEMMA Reach ==
    ASSUME NEW b \in Nat, NEW n \in Nat, NEW e \in Nat, NEW l \in Nat, NEW cap \in Nat,
           NEW k \in 1..l,
           e = b + n, e + l <= cap
    PROVE  /\ b + (n + k) - 1 \in 0..cap - 1 /\ b + (n + k) - 1 \in e..e + l - 1
           /\ b + (n + k) - 1 - e + 1 = k
OBVIOUS

\* Where the rest of a block is after its first n places are consumed.
LEMMA Rest ==
    ASSUME NEW b \in Nat, NEW n \in Nat, NEW e \in Nat, NEW cap \in Nat, NEW s \in Nat,
           NEW k \in 1..s - n,
           e = b + s, e <= cap
    PROVE  /\ (b + n) + k - 1 \in 0..cap - 1 /\ ~((b + n) + k - 1 < b + n)
           /\ (b + n) + k - 1 = b + (n + k) - 1 /\ n + k \in 1..s
OBVIOUS

\* makeRoom keeps the content, and makes the room it was asked for.
LEMMA RoomMade ==
    ASSUME NEW x, Block(x), NEW len \in Nat
    PROVE  /\ Block(MakeRoom(x, len)) /\ Content(MakeRoom(x, len)) = Content(x)
           /\ Size(MakeRoom(x, len)) = Size(x)
           /\ MakeRoom(x, len).e + len <= MakeRoom(x, len).cap
<1>1. Size(x) \in Nat /\ x.cap \in Nat /\ x.e \in Nat /\ Size(x) <= x.cap
  BY ContentOf DEF Block
<1>2. CASE x.e + len <= x.cap
  BY <1>2 DEF MakeRoom
<1>3. CASE ~(x.e + len <= x.cap) /\ Size(x) + len < x.cap \div 2
  <2>1. MakeRoom(x, len) = MoveHead(x)
    BY <1>3 DEF MakeRoom
  <2>2. x.cap \div 2 <= x.cap
    BY <1>1
  <2>3. Size(x) + len <= x.cap
    BY <1>1, <1>3, <2>2
  <2> QED
    BY <2>1, <2>3, Moved
<1>4. CASE ~(x.e + len <= x.cap) /\ ~(Size(x) + len < x.cap \div 2)
  <2>1. MakeRoom(x, len) = Expand(x, len)
    BY <1>4 DEF MakeRoom
  <2>2. /\ Block(Expand(x, len)) /\ Content(Expand(x, len)) = Content(x)
        /\ Size(Expand(x, len)) = Size(x) /\ Expand(x, len).e = Size(x)
        /\ Expand(x, len).cap >= Size(x) + len
    BY Expanded
  <2>3. Expand(x, len).cap \in Nat
    BY <2>2 DEF Block
  <2>4. Expand(x, len).e + len <= Expand(x, len).cap
    BY <1>1, <2>2, <2>3
  <2> QED
    BY <2>1, <2>2, <2>4
<1> QED
  BY <1>2, <1>3, <1>4

\* makeRoom() makes room for a byte at least and keeps the content.
LEMMA ReadRoomMade ==
    ASSUME NEW x, Block(x)
    PROVE  /\ Block(MakeReadRoom(x)) /\ Content(MakeReadRoom(x)) = Content(x)
           /\ Size(MakeReadRoom(x)) = Size(x)
           /\ Space(MakeReadRoom(x)) > 0
<1>1. /\ Size(x) \in Nat /\ x.cap \in Nat /\ x.e \in Nat /\ x.e <= x.cap /\ Size(x) <= x.cap
      /\ SuggestSize \in Nat /\ SuggestSize > 0
  BY ContentOf, BufferConstants DEF Block
<1>2. CASE Space(x) < SuggestSize
  <2>1. MakeReadRoom(x) = Expand(x, 0)
    BY <1>2 DEF MakeReadRoom
  <2>2. /\ Block(Expand(x, 0)) /\ Content(Expand(x, 0)) = Content(x)
        /\ Size(Expand(x, 0)) = Size(x) /\ Expand(x, 0).e = Size(x)
        /\ Expand(x, 0).cap >= SuggestSize /\ Expand(x, 0).cap >= 2 * x.cap
    BY Expanded
  <2>3. Expand(x, 0).cap \in Nat
    BY <2>2 DEF Block
  <2>4. Expand(x, 0).cap - Size(x) > 0
    BY <1>1, <2>2, <2>3
  <2> QED
    BY <2>1, <2>2, <2>4 DEF Space
<1>3. CASE ~(Space(x) < SuggestSize)
  <2>1. MakeReadRoom(x) = x
    BY <1>3 DEF MakeReadRoom
  <2>2. Space(x) > 0
    BY <1>1, <1>3 DEF Space
  <2> QED
    BY <2>1, <2>2
<1> QED
  BY <1>2, <1>3

\* Bytes that fit go to the end of the content.
LEMMA Written ==
    ASSUME NEW x, Block(x), NEW data \in Seq(Cell), x.e + Len(data) <= x.cap
    PROVE  /\ Block(Write(x, data)) /\ Content(Write(x, data)) = Content(x) \o data
<1> DEFINE y == Write(x, data)
           l == Len(data)
           f == [k \in DOMAIN x.buf |-> IF k \in x.e..x.e + Len(data) - 1 THEN data[k - x.e + 1]
                                                                         ELSE x.buf[k]]
<1>1. /\ x.b \in Nat /\ x.e \in Nat /\ x.cap \in Nat /\ x.b <= x.e /\ x.e <= x.cap
      /\ x = [buf |-> x.buf, b |-> x.b, e |-> x.e, cap |-> x.cap]
      /\ x.buf \in [0..x.cap - 1 -> Cell]
  BY DEF Block
<1>2. l \in Nat /\ \A k \in 1..l : data[k] \in Cell
  OBVIOUS
<1>3. y = [buf |-> f, b |-> x.b, e |-> x.e + l, cap |-> x.cap]
  BY DEF Write
<1>4. \A k \in x.e..x.e + l - 1 : k - x.e + 1 \in 1..l
  BY <1>1, <1>2
<1>5. f \in [0..x.cap - 1 -> Cell]
  BY <1>1, <1>2, <1>4 DEF Cell
<1> DEFINE n == x.e - x.b
<1>6. n \in Nat /\ Size(x) = n /\ x.e = x.b + n
  BY <1>1 DEF Size
<1>7. \A k \in 1..n : /\ x.b + k - 1 \in 0..x.cap - 1 /\ x.b + k - 1 \notin x.e..x.e + l - 1
  BY <1>1, <1>2, <1>6
<1>8. \A k \in 1..n : f[x.b + k - 1] = x.buf[x.b + k - 1]
  BY <1>1, <1>7
<1> HIDE DEF n
<1>10. \A k \in 1..l : f[x.b + (n + k) - 1] = data[k]
  <2>1. \A j \in 0..x.cap - 1 : j \in x.e..x.e + l - 1 => f[j] = data[j - x.e + 1]
    BY <1>1
  <2> HIDE DEF f
  <2> SUFFICES ASSUME NEW k \in 1..l PROVE f[x.b + (n + k) - 1] = data[k]
    OBVIOUS
  <2> DEFINE j == x.b + (n + k) - 1
  <2>2. j \in 0..x.cap - 1 /\ j \in x.e..x.e + l - 1 /\ j - x.e + 1 = k
    <3> DEFINE e == x.e
               cap == x.cap
    <3>1. e \in Nat /\ cap \in Nat /\ l \in Nat /\ k \in Nat /\ 1 <= k /\ k <= l
      BY <1>1, <1>2
    <3>2. e + l <= cap
      OBVIOUS
    <3>3. j = e + k - 1
      BY <1>1, <1>6
    <3> HIDE DEF l, j, e, cap
    <3>4. j \in Int /\ j - e + 1 = k
      BY <3>1, <3>3
    <3>5. e <= j /\ j <= e + l - 1
      BY <3>1, <3>3
    <3>6. 0 <= j /\ j <= cap - 1
      BY <3>1, <3>2, <3>4, <3>5
    <3>7. j \in 0..cap - 1 /\ j \in e..e + l - 1
      BY <3>1, <3>4, <3>5, <3>6
    <3> QED
      BY <3>4, <3>7 DEF e, cap
  <2> HIDE DEF j
  <2>3. f[j] = data[k]
    BY <2>1, <2>2
  <2> QED
    BY <2>3 DEF j
<1> HIDE DEF y, f
<1>11. y.buf = f /\ y.b = x.b /\ y.e = x.e + l /\ y.cap = x.cap
  BY <1>3
<1>12. Block(y)
  BY <1>1, <1>2, <1>3, <1>5, <1>11 DEF Block
<1>13. Size(y) = n + l
  BY <1>1, <1>2, <1>6, <1>11 DEF Size
<1> DEFINE c == Content(x)
           d == Content(y)
<1>14. /\ c \in Seq(Cell) /\ Len(c) = n /\ \A k \in 1..n : c[k] = x.buf[x.b + k - 1]
  BY <1>6, ContentOf
<1>15. /\ d \in Seq(Cell) /\ Len(d) = n + l /\ \A k \in 1..n + l : d[k] = f[x.b + k - 1]
  BY <1>11, <1>12, <1>13, ContentOf
<1> HIDE DEF c, d
<1>17. \A k \in 1..n : d[k] = c[k]
  <2>1. \A k \in 1..n : k \in 1..n + l
    BY <1>2, <1>6
  <2> QED
    BY <1>8, <1>14, <1>15, <2>1
<1>18. \A k \in 1..l : d[n + k] = data[k]
  <2>1. \A k \in 1..l : n + k \in 1..n + l
    BY <1>2, <1>6
  <2> QED
    BY <1>10, <1>15, <2>1
<1>19. d = c \o data
  <2>1. /\ c \o data \in Seq(Cell) /\ Len(c \o data) = n + l
        /\ \A k \in 1..n + l : (c \o data)[k] = IF k <= n THEN c[k] ELSE data[k - n]
    BY <1>14, ConcatProperties
  <2>2. \A k \in 1..n + l : (k <= n => k \in 1..n) /\ (~(k <= n) => k - n \in 1..l /\ n + (k - n) = k)
    BY <1>2, <1>6
  <2>3. \A k \in 1..n + l : d[k] = (c \o data)[k]
    BY <1>17, <1>18, <2>1, <2>2
  <2> QED
    BY <1>15, <2>1, <2>3, SeqEqual
<1> QED
  BY <1>12, <1>19 DEF c, d, y

\* The refinement mapping.
contents == [i \in Buffers |-> Content(Get(i))]

\* Replacing one block replaces one content.
LEMMA SetKeeps ==
    ASSUME BlocksInv, NEW i \in Buffers, NEW x, Block(x), Set(i, x)
    PROVE  BlocksInv' /\ contents' = [contents EXCEPT ![i] = Content(x)]
<1>1. /\ DOMAIN buf' = Buffers /\ buf' = [j \in Buffers |-> buf'[j]]
      /\ buf'[i] = x.buf /\ \A j \in Buffers : j # i => buf'[j] = buf[j]
  BY DEF BlocksInv, Set
<1>2. b_' \in [Buffers -> Nat] /\ b_'[i] = x.b /\ \A j \in Buffers : j # i => b_'[j] = b_[j]
  BY DEF BlocksInv, Set, Block
<1>3. e_' \in [Buffers -> Nat] /\ e_'[i] = x.e /\ \A j \in Buffers : j # i => e_'[j] = e_[j]
  BY DEF BlocksInv, Set, Block
<1>4. cap_' \in [Buffers -> Nat] /\ cap_'[i] = x.cap /\ \A j \in Buffers : j # i => cap_'[j] = cap_[j]
  BY DEF BlocksInv, Set, Block
<1>5. Get(i)' = x
  BY <1>1, <1>2, <1>3, <1>4 DEF Get, Block
<1>6. \A j \in Buffers : j # i => Get(j)' = Get(j)
  BY <1>1, <1>2, <1>3, <1>4 DEF Get
<1>7. \A j \in Buffers : Block(Get(j)')
  BY <1>5, <1>6 DEF BlocksInv
<1>8. BlocksInv'
  BY <1>1, <1>2, <1>3, <1>4, <1>7 DEF BlocksInv, Block
<1>9. contents' = [j \in Buffers |-> Content(Get(j)')]
  BY DEF contents, Content, Size
<1>10. \A j \in Buffers : Content(Get(j)') = IF j = i THEN Content(x) ELSE contents[j]
  BY <1>5, <1>6 DEF contents
<1>11. contents' = [j \in Buffers |-> IF j = i THEN Content(x) ELSE contents[j]]
  BY <1>9, <1>10
<1>12. DOMAIN contents = Buffers
  BY DEF contents
<1> QED
  BY <1>8, <1>11, <1>12

\* As Set, for two buffers at once.
SetBoth(i, x, j, y) ==
    /\ buf' = [buf EXCEPT ![i] = x.buf, ![j] = y.buf]
    /\ b_' = [b_ EXCEPT ![i] = x.b, ![j] = y.b]
    /\ e_' = [e_ EXCEPT ![i] = x.e, ![j] = y.e]
    /\ cap_' = [cap_ EXCEPT ![i] = x.cap, ![j] = y.cap]

\* Two buffers set at once: each holds its new content, the others theirs.
LEMMA PairKeeps ==
    ASSUME BlocksInv, NEW i \in Buffers, NEW j \in Buffers, i # j,
           NEW x, Block(x), NEW y, Block(y), SetBoth(i, x, j, y)
    PROVE  BlocksInv' /\ contents' = [contents EXCEPT ![i] = Content(x), ![j] = Content(y)]
<1>1. /\ DOMAIN buf' = Buffers /\ buf' = [k \in Buffers |-> buf'[k]]
      /\ buf'[i] = x.buf /\ buf'[j] = y.buf
      /\ \A k \in Buffers : k # i /\ k # j => buf'[k] = buf[k]
  BY DEF BlocksInv, SetBoth
<1>2. /\ b_' \in [Buffers -> Nat] /\ b_'[i] = x.b /\ b_'[j] = y.b
      /\ \A k \in Buffers : k # i /\ k # j => b_'[k] = b_[k]
  BY DEF BlocksInv, SetBoth, Block
<1>3. /\ e_' \in [Buffers -> Nat] /\ e_'[i] = x.e /\ e_'[j] = y.e
      /\ \A k \in Buffers : k # i /\ k # j => e_'[k] = e_[k]
  BY DEF BlocksInv, SetBoth, Block
<1>4. /\ cap_' \in [Buffers -> Nat] /\ cap_'[i] = x.cap /\ cap_'[j] = y.cap
      /\ \A k \in Buffers : k # i /\ k # j => cap_'[k] = cap_[k]
  BY DEF BlocksInv, SetBoth, Block
<1>5. Get(i)' = x /\ Get(j)' = y
  BY <1>1, <1>2, <1>3, <1>4 DEF Get, Block
<1>6. \A k \in Buffers : k # i /\ k # j => Get(k)' = Get(k)
  BY <1>1, <1>2, <1>3, <1>4 DEF Get
<1>7. \A k \in Buffers : Block(Get(k)')
  BY <1>5, <1>6 DEF BlocksInv
<1>8. BlocksInv'
  BY <1>1, <1>2, <1>3, <1>4, <1>7 DEF BlocksInv, Block
<1>9. contents' = [k \in Buffers |-> Content(Get(k)')]
  BY DEF contents, Content, Size
<1>10. \A k \in Buffers :
           Content(Get(k)') = IF k = i THEN Content(x) ELSE IF k = j THEN Content(y) ELSE contents[k]
  BY <1>5, <1>6 DEF contents
<1>11. contents' = [k \in Buffers |-> IF k = i THEN Content(x) ELSE IF k = j THEN Content(y)
                                                                            ELSE contents[k]]
  BY <1>9, <1>10
<1>12. DOMAIN contents = Buffers
  BY DEF contents
<1> QED
  BY <1>8, <1>11, <1>12

\* Fresh buffers are blocks, and hold what the empty queues hold.
LEMMA BuffersInit == Init => BlocksInv /\ Q!Init
<1> SUFFICES ASSUME Init PROVE BlocksInv /\ Q!Init
  OBVIOUS
<1>1. \A i \in Buffers : Get(i) = [buf |-> [k \in 0..-1 |-> Junk], b |-> 0, e |-> 0, cap |-> 0]
  BY DEF Init, Get
<1> DEFINE r == [buf |-> [k \in 0..-1 |-> Junk], b |-> 0, e |-> 0, cap |-> 0]
<1>2. Block(r) /\ Content(r) = <<>>
  <2>1. r.buf = [k \in 0..-1 |-> Junk] /\ r.b = 0 /\ r.e = 0 /\ r.cap = 0
    OBVIOUS
  <2>2. [k \in 0..-1 |-> Junk] \in [0..0 - 1 -> Cell]
    BY DEF Cell
  <2> QED
    BY <2>1, <2>2 DEF Block, Content, Size
<1> HIDE DEF r
<1>3. BlocksInv
  BY <1>1, <1>2 DEF Init, BlocksInv, r
<1> QED
  BY <1>1, <1>2, <1>3 DEF Q!Init, r

\* append(p, len), wherever makeRoom puts the content.
LEMMA AppendStep ==
    ASSUME BlocksInv, NEW i \in Buffers, NEW data \in Chunks, Append_(i, data)
    PROVE  BlocksInv' /\ contents' = [contents EXCEPT ![i] = @ \o data]
<1> DEFINE x == Get(i)
           y == MakeRoom(x, Len(data))
<1>1. data \in Seq(Cell) /\ Len(data) \in Nat /\ Block(x)
  BY BufferConstants DEF BlocksInv, Cell
<1> HIDE DEF x
<1>2. Block(y) /\ Content(y) = Content(x) /\ y.e + Len(data) <= y.cap
  BY <1>1, RoomMade
<1>3. Set(i, Write(y, data))
  BY DEF Append_, x
<1> HIDE DEF y
<1>4. Block(Write(y, data)) /\ Content(Write(y, data)) = Content(x) \o data
  BY <1>1, <1>2, Written
<1>5. BlocksInv' /\ contents' = [contents EXCEPT ![i] = Content(Write(y, data))]
  BY <1>3, <1>4, SetKeeps
<1> QED
  BY <1>4, <1>5 DEF contents, x

\* A read to end(), likewise.
LEMMA ReadStep ==
    ASSUME BlocksInv, NEW i \in Buffers, NEW data \in Chunks, ReadInto(i, data)
    PROVE  BlocksInv' /\ contents' = [contents EXCEPT ![i] = @ \o data]
<1> DEFINE x == Get(i)
           y == MakeReadRoom(x)
<1>1. data \in Seq(Cell) /\ Len(data) \in Nat /\ Block(x)
  BY BufferConstants DEF BlocksInv, Cell
<1> HIDE DEF x
<1>2. Block(y) /\ Content(y) = Content(x)
  BY <1>1, ReadRoomMade
<1>3. Set(i, Write(y, data)) /\ Len(data) <= Space(y)
  BY DEF ReadInto, x
<1> HIDE DEF y
<1>4. y.e + Len(data) <= y.cap
  BY <1>1, <1>2, <1>3 DEF Space, Block
<1>5. Block(Write(y, data)) /\ Content(Write(y, data)) = Content(x) \o data
  BY <1>1, <1>2, <1>4, Written
<1>6. BlocksInv' /\ contents' = [contents EXCEPT ![i] = Content(Write(y, data))]
  BY <1>3, <1>5, SetKeeps
<1> QED
  BY <1>5, <1>6 DEF contents, x

\* consume(len) takes bytes from the front, whether or not it frees the block.
LEMMA ConsumeStep ==
    ASSUME BlocksInv, NEW i \in Buffers, NEW n \in Nat \ {0}, Consume(i, n)
    PROVE  /\ BlocksInv'
           /\ n \in 1..Len(contents[i])
           /\ contents' = [contents EXCEPT ![i] = SubSeq(@, n + 1, Len(@))]
<1> DEFINE x == Get(i)
           f == [k \in DOMAIN x.buf |-> IF k < x.b + n THEN Junk ELSE x.buf[k]]
           rest == [buf |-> f, b |-> x.b + n, e |-> x.e, cap |-> x.cap]
           y == IF Size(rest) = 0 THEN Cleared ELSE rest
           c == Content(x)
<1>1. Block(x) /\ n <= Size(x) /\ Set(i, y)
  BY DEF BlocksInv, Consume
<1> HIDE DEF x
<1>2. /\ x.b \in Nat /\ x.e \in Nat /\ x.cap \in Nat /\ x.b <= x.e /\ x.e <= x.cap
      /\ x.buf \in [0..x.cap - 1 -> Cell]
  BY <1>1 DEF Block
<1>3. x.e = x.b + Size(x) /\ x.b + n <= x.e /\ Size(x) \in Nat
  BY <1>1, <1>2 DEF Size
<1>4. f \in [0..x.cap - 1 -> Cell]
  BY <1>2 DEF Cell
<1>5. Block(rest) /\ Size(rest) = Size(x) - n
  BY <1>2, <1>3, <1>4 DEF Block, Size
<1>6. Block(Cleared) /\ Size(Cleared) = 0
  BY DEF Block, Cleared, Cell, Size
<1>7. /\ c \in Seq(Cell) /\ Len(c) = Size(x)
      /\ \A k \in 1..Size(x) : c[k] = x.buf[x.b + k - 1]
  BY <1>1, ContentOf
<1> DEFINE tail == SubSeq(c, n + 1, Len(c))
<1>8. /\ tail \in Seq(Cell) /\ Len(tail) = Size(x) - n
      /\ \A k \in 1..Size(x) - n : tail[k] = c[n + k]
  <2> DEFINE a == n + 1
             b == Size(x)
  <2> HIDE DEF c
  <2>1. a \in Nat /\ b \in Nat /\ (~(a <= b) => b - n = 0) /\ b - a + 1 = b - n
    BY <1>1, <1>3
  <2>2. \A k \in a..b : c[k] \in Cell
    <3>1. \A k \in a..b : k \in 1..Len(c)
      BY <1>3, <1>7
    <3> QED
      BY <1>7, <3>1
  <2>3. /\ SubSeq(c, a, b) \in Seq(Cell)
        /\ Len(SubSeq(c, a, b)) = IF a <= b THEN b - a + 1 ELSE 0
        /\ \A k \in 1..b - a + 1 : SubSeq(c, a, b)[k] = c[a + k - 1]
    BY <2>1, <2>2, SubSeqProperties
  <2>4. \A k \in 1..b - n : a + k - 1 = n + k
    BY <1>3
  <2> QED
    BY <1>7, <2>1, <2>3, <2>4
<1> HIDE DEF c, tail
<1>9. Block(y) /\ Size(y) = Size(x) - n
  BY <1>3, <1>5, <1>6
<1>10. \A k \in 1..Size(x) - n : Content(y)[k] = tail[k]
  <2> SUFFICES ASSUME NEW k \in 1..Size(x) - n PROVE Content(y)[k] = tail[k]
    OBVIOUS
  <2>1. y = rest
    BY <1>3, <1>5
  <2>2. Content(rest)[k] = f[(x.b + n) + k - 1]
    BY <1>5, ContentOf
  <2> DEFINE j == (x.b + n) + k - 1
  <2>3. j \in 0..x.cap - 1 /\ ~(j < x.b + n) /\ j = x.b + (n + k) - 1 /\ n + k \in 1..Size(x)
    <3>1. x.b \in Nat /\ x.e \in Nat /\ x.cap \in Nat /\ n \in Nat /\ Size(x) \in Nat
      BY <1>2, <1>3
    <3>2. x.e = x.b + Size(x) /\ x.e <= x.cap
      BY <1>2, <1>3
    <3> QED
      BY <3>1, <3>2, Rest
  <2> HIDE DEF j
  <2>4. f[j] = x.buf[j]
    BY <1>2, <2>3
  <2>5. c[n + k] = x.buf[j]
    BY <1>7, <2>3
  <2> QED
    BY <1>8, <2>1, <2>2, <2>4, <2>5 DEF j
<1> HIDE DEF y
<1>11. Content(y) \in Seq(Cell) /\ Len(Content(y)) = Size(x) - n
  BY <1>9, ContentOf
<1>12. Content(y) = tail
  BY <1>8, <1>10, <1>11, SeqEqual
<1>13. BlocksInv' /\ contents' = [contents EXCEPT ![i] = Content(y)]
  BY <1>1, <1>9, SetKeeps
<1>14. contents[i] = c
  BY DEF contents, c, x
<1>15. n \in 1..Len(contents[i])
  BY <1>1, <1>3, <1>7, <1>14
<1>16. tail = SubSeq(contents[i], n + 1, Len(contents[i]))
  BY <1>14 DEF tail
<1> QED
  BY <1>12, <1>13, <1>15, <1>16

\* absorb gives all of the other buffer's bytes to the first one, by a swap or
\* by appending them.
LEMMA AbsorbStep ==
    ASSUME BlocksInv, NEW i \in Buffers, NEW j \in Buffers, Absorb(i, j)
    PROVE  /\ BlocksInv' /\ i # j
           /\ contents' = [contents EXCEPT ![i] = @ \o contents[j], ![j] = <<>>]
<1> DEFINE x == Get(i)
           y == Get(j)
           z == MakeRoom(x, Size(y))
           xNew == IF Size(x) = 0 THEN y ELSE Write(z, Content(y))
           yNew == IF Size(x) = 0 THEN x ELSE Cleared
<1>1. Block(x) /\ Block(y) /\ i # j
  BY DEF BlocksInv, Absorb
<1>2. SetBoth(i, xNew, j, yNew)
  BY DEF Absorb, SetBoth
<1>3. contents[i] = Content(x) /\ contents[j] = Content(y)
  BY DEF contents
<1> HIDE DEF x, y
<1>4. /\ Size(x) \in Nat /\ Content(x) \in Seq(Cell) /\ Len(Content(x)) = Size(x)
      /\ Size(y) \in Nat /\ Content(y) \in Seq(Cell) /\ Len(Content(y)) = Size(y)
  BY <1>1, ContentOf
<1>5. Block(Cleared) /\ Content(Cleared) = <<>>
  BY DEF Block, Cleared, Cell, Size, Content
<1>6. /\ Block(xNew) /\ Content(xNew) = Content(x) \o Content(y)
      /\ Block(yNew) /\ Content(yNew) = <<>>
  <2>1. CASE Size(x) = 0
    <3>1. Content(x) = <<>> /\ <<>> \o Content(y) = Content(y)
      BY <1>4, <2>1, ConcatEmptySeq
    <3> QED
      BY <1>1, <2>1, <3>1
  <2>2. CASE Size(x) # 0
    <3>1. Block(z) /\ Content(z) = Content(x) /\ z.e + Len(Content(y)) <= z.cap
      BY <1>1, <1>4, RoomMade
    <3> HIDE DEF z
    <3>2. /\ Block(Write(z, Content(y)))
          /\ Content(Write(z, Content(y))) = Content(x) \o Content(y)
      BY <1>4, <3>1, Written
    <3> QED
      BY <1>5, <2>2, <3>2
  <2> QED
    BY <2>1, <2>2
<1> HIDE DEF xNew, yNew
<1>7. /\ BlocksInv'
      /\ contents' = [contents EXCEPT ![i] = Content(xNew), ![j] = Content(yNew)]
  BY <1>1, <1>2, <1>6, PairKeeps
<1> QED
  BY <1>1, <1>3, <1>6, <1>7

\* A copy has the bytes of the original.
LEMMA CopyStep ==
    ASSUME BlocksInv, NEW i \in Buffers, NEW j \in Buffers, CopyFrom(i, j)
    PROVE  BlocksInv' /\ contents' = [contents EXCEPT ![i] = contents[j]]
<1> DEFINE y == Get(j)
           f == [k \in DOMAIN y.buf |-> IF k \in y.b..y.e - 1 THEN y.buf[k] ELSE Junk]
           x == [buf |-> f, b |-> y.b, e |-> y.e, cap |-> y.cap]
<1>1. Block(y) /\ Set(i, x)
  BY DEF BlocksInv, CopyFrom
<1>2. contents[j] = Content(y)
  BY DEF contents
<1> HIDE DEF y
<1>3. /\ y.b \in Nat /\ y.e \in Nat /\ y.cap \in Nat /\ y.b <= y.e /\ y.e <= y.cap
      /\ y.buf \in [0..y.cap - 1 -> Cell]
  BY <1>1 DEF Block
<1>4. f \in [0..y.cap - 1 -> Cell]
  BY <1>3 DEF Cell
<1>5. Block(x)
  BY <1>3, <1>4 DEF Block
<1>6. Size(x) = Size(y) /\ Size(y) = y.e - y.b
  BY DEF Size
<1>7. \A k \in 1..Size(y) : y.b + k - 1 \in y.b..y.e - 1 /\ y.b + k - 1 \in 0..y.cap - 1
  BY <1>3, <1>6
<1>8. \A k \in y.b..y.e - 1 : k \in 0..y.cap - 1 => f[k] = y.buf[k]
  BY <1>3
<1> HIDE DEF f
<1>9. \A k \in 1..Size(y) : x.buf[x.b + k - 1] = y.buf[y.b + k - 1]
  BY <1>7, <1>8
<1> HIDE DEF x
<1>10. Content(x) = Content(y)
  BY <1>1, <1>5, <1>6, <1>9, SameContent
<1>11. BlocksInv' /\ contents' = [contents EXCEPT ![i] = Content(x)]
  BY <1>1, <1>5, SetKeeps
<1> QED
  BY <1>2, <1>10, <1>11

\* Every step is a step of the byte queue.
LEMMA BufferStep == BlocksInv /\ [Next]_vars => BlocksInv' /\ [Q!Next]_contents
<1> DEFINE Goal == BlocksInv' /\ [Q!Next]_contents
<1> SUFFICES ASSUME BlocksInv, [Next]_vars PROVE Goal
  OBVIOUS
<1>1. ASSUME NEW i \in Buffers, NEW data \in Chunks, Append_(i, data) \/ ReadInto(i, data)
      PROVE  Goal
  <2>1. BlocksInv' /\ contents' = [contents EXCEPT ![i] = @ \o data]
    BY <1>1, AppendStep, ReadStep
  <2>2. Q!PutIn(i, data)
    BY <2>1 DEF Q!PutIn, contents
  <2> QED
    BY <2>1, <2>2 DEF Q!Next
<1>2. ASSUME NEW i \in Buffers, NEW n \in 1..MaxSize, Consume(i, n)
      PROVE  Goal
  <2>1. n \in Nat \ {0}
    BY BufferAssumption DEF BufferAssumption
  <2>2. /\ BlocksInv' /\ n \in 1..Len(contents[i])
        /\ contents' = [contents EXCEPT ![i] = SubSeq(@, n + 1, Len(@))]
    BY <1>2, <2>1, ConsumeStep
  <2>3. Q!TakeOut(i, n) /\ n \in 1..Len([k \in Buffers |-> Content(Get(k))][i])
    BY <2>2 DEF Q!TakeOut, contents
  <2> QED
    BY <2>2, <2>3 DEF Q!Next
<1>3. ASSUME NEW i \in Buffers, NEW j \in Buffers, Absorb(i, j)
      PROVE  Goal
  <2>1. /\ BlocksInv' /\ i # j
        /\ contents' = [contents EXCEPT ![i] = @ \o contents[j], ![j] = <<>>]
    BY <1>3, AbsorbStep
  <2>2. Q!TakeOver(i, j)
    BY <2>1 DEF Q!TakeOver, contents
  <2> QED
    BY <2>1, <2>2 DEF Q!Next
<1>4. ASSUME NEW i \in Buffers, NEW j \in Buffers, CopyFrom(i, j)
      PROVE  Goal
  <2>1. BlocksInv' /\ contents' = [contents EXCEPT ![i] = contents[j]]
    BY <1>4, CopyStep
  <2>2. Q!Copy(i, j)
    BY <2>1 DEF Q!Copy, contents
  <2> QED
    BY <2>1, <2>2 DEF Q!Next
<1>5. CASE UNCHANGED vars
  <2>1. \A i \in Buffers : Get(i)' = Get(i)
    BY <1>5 DEF vars, Get
  <2>2. BlocksInv'
    BY <1>5, <2>1 DEF BlocksInv, vars, Block
  <2>3. contents' = contents
    BY <1>5 DEF vars, contents, Content, Get, Size
  <2> QED
    BY <2>2, <2>3
<1> QED
  BY <1>1, <1>2, <1>3, <1>4, <1>5 DEF Next

\* Every buffer is a block in every behaviour.
LEMMA BlocksAlways == Spec => []BlocksInv
<1>1. BlocksInv /\ [Next]_vars => BlocksInv'
  BY BufferStep
<1> QED
  BY BuffersInit, <1>1, PTL DEF Spec

\* However makeRoom, expand, consume, absorb and copies move the limits of a
\* buffer, they stay within its block and in order: no byte is read or written
\* outside of it.
THEOREM BufferTypeCorrect == Spec => []TypeOK
<1>1. BlocksInv => TypeOK
  <2> SUFFICES ASSUME BlocksInv PROVE TypeOK
    OBVIOUS
  <2>1. \A i \in Buffers : b_[i] <= e_[i] /\ e_[i] <= cap_[i]
                           /\ buf[i] \in [0..cap_[i] - 1 -> Bytes \cup {Junk}]
    BY DEF BlocksInv, Block, Get, Cell
  <2> QED
    BY <2>1 DEF BlocksInv, TypeOK
<1> QED
  BY <1>1, BlocksAlways, PTL

\* makeRoom() leaves room for a byte at least, in every buffer that the
\* operations can produce: handleRead's read never has length 0.
THEOREM RoomForRead == Spec => []ReadHasRoom
<1>1. BlocksInv => ReadHasRoom
  BY ReadRoomMade DEF BlocksInv, ReadHasRoom
<1> QED
  BY <1>1, BlocksAlways, PTL

\* However append, consume, absorb and copying move, reallocate and swap the
\* blocks, what a buffer holds is what went in and has not come out, in order.
THEOREM IsByteQueue == Spec => ImplementsByteQueue
<1>1. BlocksInv /\ [Next]_vars => [Q!Next]_contents
  BY BufferStep
<1> QED
  BY BuffersInit, <1>1, BlocksAlways, PTL DEF Spec, ImplementsByteQueue, Q!Spec, contents

-----------------------------------------------------------------------------
(* TcpConn *)

\* s holds the numbers that follow n.
Run(s, n) == \A i \in 1..Len(s) : s[i] = n + i

\* Where the numbers of each queue begin.
AfterGot == Len(peerGot)
AfterOut == AfterGot + Len(sockOut)
AfterHeld == AfterOut + Len(output_)
AfterInput == AfterHeld + (Len(input_) - sended)

ConnTypes ==
    /\ input_ \in Seq(Nat) /\ output_ \in Seq(Nat) /\ sockIn \in Seq(Nat)
    /\ sockOut \in Seq(Nat) /\ peerGot \in Seq(Nat)
    /\ sent \in Nat
    /\ sended \in Nat /\ sended <= Len(input_)
    /\ then \in {"idle", "cleanup"}

\* Strengthening: isend counts only while it runs, and it runs only as long
\* as nothing has gone to output_.
SendOrder ==
    /\ pc # "write" => sended = 0
    /\ pc = "write" \/ "write" \notin events => output_ = <<>>
    /\ state_ = "Handshaking" => output_ = <<>> /\ pc = "idle"

\* EchoInOrder, queue by queue.
Numbered ==
    reset \/ /\ Run(peerGot, 0)
             /\ Run(sockOut, AfterGot)
             /\ Run(output_, AfterOut)
             /\ \A i \in sended + 1..Len(input_) : input_[i] = AfterHeld + (i - sended)
             /\ Run(sockIn, AfterInput)
             /\ AfterInput + Len(sockIn) = sent

\* Strengthening: once handleRead goes to cleanup there is nothing more to
\* read, and it gets there with an empty input_.
Ending == state_ = "Closed" \/ pc = "cleanup" \/ (pc \in {"send", "write"} /\ then = "cleanup")
EndsEmpty ==
    /\ Ending /\ open /\ ~reset => fin /\ sockIn = <<>>
    /\ (state_ = "Closed" \/ pc = "cleanup") /\ open /\ ~reset => input_ = <<>>
    /\ state_ = "Closed" => pc = "idle"

ConnInv == ConnTypes /\ SendOrder /\ Numbered /\ EndsEmpty
-----------------------------------------------------------------------------
(* Sequences of numbers *)

\* A part of a sequence of numbers.
LEMMA Part ==
    ASSUME NEW s \in Seq(Nat), NEW a \in Nat, NEW b \in Nat,
           1 <= a, a <= b + 1, b <= Len(s)
    PROVE  /\ SubSeq(s, a, b) \in Seq(Nat)
           /\ Len(SubSeq(s, a, b)) = b - a + 1
           /\ \A i \in 1..b - a + 1 : SubSeq(s, a, b)[i] = s[a + i - 1]
<1>1. Len(s) \in Nat /\ \A i \in 1..Len(s) : s[i] \in Nat
  OBVIOUS
<1>2. \A i \in a..b : i \in 1..Len(s)
  BY <1>1
<1>3. \A i \in a..b : s[i] \in Nat
  BY <1>1, <1>2
<1>4. ~(a <= b) => b - a + 1 = 0
  OBVIOUS
<1>5. /\ SubSeq(s, a, b) \in Seq(Nat)
      /\ Len(SubSeq(s, a, b)) = IF a <= b THEN b - a + 1 ELSE 0
      /\ \A i \in 1..b - a + 1 : SubSeq(s, a, b)[i] = s[a + i - 1]
  BY <1>3, SubSeqProperties
<1> QED
  BY <1>4, <1>5

\* Two sequences of numbers put together.
LEMMA Joined ==
    ASSUME NEW s \in Seq(Nat), NEW t \in Seq(Nat)
    PROVE  /\ s \o t \in Seq(Nat)
           /\ Len(s \o t) = Len(s) + Len(t)
           /\ \A i \in 1..Len(s) : (s \o t)[i] = s[i]
           /\ \A i \in 1..Len(t) : (s \o t)[Len(s) + i] = t[i]
OBVIOUS

\* A run continued by the run that follows it is a run.
LEMMA JoinedRun ==
    ASSUME NEW s \in Seq(Nat), NEW t \in Seq(Nat), NEW n \in Nat,
           Run(s, n), Run(t, n + Len(s))
    PROVE  Run(s \o t, n)
<1>1. Len(s) \in Nat /\ Len(t) \in Nat
  OBVIOUS
<1> SUFFICES ASSUME NEW i \in 1..Len(s \o t) PROVE (s \o t)[i] = n + i
  BY DEF Run
<1>2. i \in 1..Len(s) \/ (i - Len(s) \in 1..Len(t) /\ i = Len(s) + (i - Len(s)))
  BY <1>1, Joined
<1>3. CASE i \in 1..Len(s)
  BY <1>3, Joined DEF Run
<1>4. CASE i - Len(s) \in 1..Len(t) /\ i = Len(s) + (i - Len(s))
  <2> DEFINE j == i - Len(s)
  <2>1. (s \o t)[Len(s) + j] = t[j] /\ t[j] = (n + Len(s)) + j
    BY <1>4, Joined DEF Run
  <2>2. (n + Len(s)) + j = n + i
    BY <1>1, <1>4
  <2> QED
    BY <1>4, <2>1, <2>2
<1> QED
  BY <1>2, <1>3, <1>4

\* A run cut in two.
LEMMA CutRun ==
    ASSUME NEW s \in Seq(Nat), NEW n \in Nat, NEW k \in Nat, k <= Len(s), Run(s, n)
    PROVE  /\ Run(SubSeq(s, 1, k), n) /\ Len(SubSeq(s, 1, k)) = k
           /\ SubSeq(s, 1, k) \in Seq(Nat)
           /\ Run(SubSeq(s, k + 1, Len(s)), n + k)
           /\ Len(SubSeq(s, k + 1, Len(s))) = Len(s) - k
           /\ SubSeq(s, k + 1, Len(s)) \in Seq(Nat)
<1> DEFINE l == Len(s)
<1>1. l \in Nat
  OBVIOUS
<1>2. /\ SubSeq(s, 1, k) \in Seq(Nat) /\ Len(SubSeq(s, 1, k)) = k - 1 + 1
      /\ \A i \in 1..k - 1 + 1 : SubSeq(s, 1, k)[i] = s[1 + i - 1]
  BY <1>1, Part
<1>3. k - 1 + 1 = k /\ \A i \in 1..k : 1 + i - 1 = i /\ i \in 1..l
  BY <1>1
<1>4. Run(SubSeq(s, 1, k), n)
  BY <1>2, <1>3 DEF Run
<1>5. /\ SubSeq(s, k + 1, l) \in Seq(Nat) /\ Len(SubSeq(s, k + 1, l)) = l - (k + 1) + 1
      /\ \A i \in 1..l - (k + 1) + 1 : SubSeq(s, k + 1, l)[i] = s[k + 1 + i - 1]
  BY <1>1, Part
<1>6. /\ l - (k + 1) + 1 = l - k
      /\ \A i \in 1..l - k : k + 1 + i - 1 = k + i /\ k + i \in 1..l /\ n + (k + i) = (n + k) + i
  BY <1>1
<1>7. Run(SubSeq(s, k + 1, l), n + k)
  <2> DEFINE t == SubSeq(s, k + 1, l)
  <2>1. \A i \in 1..l : s[i] = n + i
    BY DEF Run
  <2>2. \A i \in 1..l - k : s[k + 1 + i - 1] = (n + k) + i
    BY <1>6, <2>1
  <2>3. Len(t) = l - k /\ \A i \in 1..l - k : t[i] = (n + k) + i
    BY <1>5, <1>6, <2>2
  <2> HIDE DEF t
  <2>4. Run(t, n + k)
    BY <2>3 DEF Run
  <2> QED
    BY <2>4 DEF t
<1> QED
  BY <1>2, <1>3, <1>4, <1>5, <1>6, <1>7

-----------------------------------------------------------------------------
(* The steps that leave the queues alone *)

\* A step that moves no byte leaves the queues as they were.
LEMMA QueuesStill ==
    ASSUME ConnInv, sended' = sended, then' \in {"idle", "cleanup"},
           UNCHANGED <<input_, output_, sockIn, sockOut, peerGot, sent, reset>>
    PROVE  ConnTypes' /\ Numbered'
<1>1. ConnTypes'
  BY DEF ConnInv, ConnTypes
<1>2. Numbered'
  BY DEF ConnInv, Numbered, Run, AfterGot, AfterOut, AfterHeld, AfterInput
<1> QED
  BY <1>1, <1>2

\* A new connection has nothing under way.
LEMMA InitKeeps == ConnInit => ConnInv
<1> SUFFICES ASSUME ConnInit PROVE ConnInv
  OBVIOUS
<1>1. ConnTypes
  BY DEF ConnInit, ConnTypes
<1>2. SendOrder /\ EndsEmpty
  BY DEF ConnInit, SendOrder, EndsEmpty, Ending
<1>3. Numbered
  BY DEF ConnInit, Numbered, Run, AfterGot, AfterOut, AfterHeld, AfterInput
<1> QED
  BY <1>1, <1>2, <1>3 DEF ConnInv

\* handleRead shakes hands, or goes on to read: no byte has moved yet.
LEMMA HandleReadKeeps == ConnInv /\ HandleRead => ConnInv'
<1> SUFFICES ASSUME ConnInv, HandleRead PROVE ConnInv'
  OBVIOUS
<1>1. ConnTypes' /\ Numbered'
  BY QueuesStill DEF ConnInv, ConnTypes, HandleRead, peerVars
<1>2. SendOrder'
  BY DEF ConnInv, SendOrder, HandleRead, Handshake
<1>3. EndsEmpty'
  BY DEF ConnInv, EndsEmpty, Ending, HandleRead, Handshake, peerVars
<1> QED
  BY <1>1, <1>2, <1>3 DEF ConnInv

\* handleWrite shakes hands.
LEMMA HandleWriteKeeps == ConnInv /\ HandleWrite => ConnInv'
<1> SUFFICES ASSUME ConnInv, HandleWrite PROVE ConnInv'
  OBVIOUS
<1>1. ConnTypes' /\ Numbered'
  BY QueuesStill DEF ConnInv, ConnTypes, HandleWrite, peerVars
<1>2. SendOrder'
  BY DEF ConnInv, SendOrder, HandleWrite, Handshake
<1>3. EndsEmpty'
  BY DEF ConnInv, EndsEmpty, Ending, HandleWrite, Handshake, peerVars
<1> QED
  BY <1>1, <1>2, <1>3 DEF ConnInv

\* EAGAIN: handleRead leaves its loop with the input it has.
LEMMA ReadAgainKeeps == ConnInv /\ ReadAgain => ConnInv'
<1> SUFFICES ASSUME ConnInv, ReadAgain PROVE ConnInv'
  OBVIOUS
<1>1. ConnTypes' /\ Numbered'
  BY QueuesStill DEF ReadAgain, peerVars
<1>2. SendOrder'
  BY DEF ConnInv, SendOrder, ReadAgain
<1>3. EndsEmpty'
  BY DEF ConnInv, EndsEmpty, Ending, ReadAgain, peerVars
<1> QED
  BY <1>1, <1>2, <1>3 DEF ConnInv

\* End of file or an error: on to cleanup, with the input it has.
LEMMA ReadEndKeeps == ConnInv /\ ReadEnd => ConnInv'
<1> SUFFICES ASSUME ConnInv, ReadEnd PROVE ConnInv'
  OBVIOUS
<1>1. ConnTypes' /\ Numbered'
  BY QueuesStill DEF ReadEnd, peerVars
<1>2. SendOrder'
  BY DEF ConnInv, SendOrder, ReadEnd
<1>3. EndsEmpty'
  BY DEF ConnInv, EndsEmpty, Ending, ReadEnd, AtEnd, peerVars
<1> QED
  BY <1>1, <1>2, <1>3 DEF ConnInv

\* The rest of cleanup: the connection is closed by the end of its data.
LEMMA CleanupKeeps == ConnInv /\ Cleanup => ConnInv'
<1> SUFFICES ASSUME ConnInv, Cleanup PROVE ConnInv'
  OBVIOUS
<1>1. ConnTypes' /\ Numbered'
  BY QueuesStill DEF ConnInv, ConnTypes, Cleanup, peerVars
<1>2. SendOrder'
  BY DEF ConnInv, SendOrder, Cleanup
<1>3. EndsEmpty'
  BY DEF ConnInv, EndsEmpty, Ending, Cleanup, peerVars
<1> QED
  BY <1>1, <1>2, <1>3 DEF ConnInv

\* send begins to write the input from its front.
LEMMA SendWritesKeeps == ConnInv /\ SendWrites => ConnInv'
<1> SUFFICES ASSUME ConnInv, SendWrites PROVE ConnInv'
  OBVIOUS
<1>1. sended' = sended
  BY DEF ConnInv, SendOrder, SendWrites
<1>2. ConnTypes' /\ Numbered'
  BY <1>1, QueuesStill DEF ConnInv, ConnTypes, SendWrites, peerVars
<1>3. SendOrder'
  BY DEF ConnInv, SendOrder, SendWrites
<1>4. EndsEmpty'
  BY DEF ConnInv, EndsEmpty, Ending, SendWrites, peerVars
<1> QED
  BY <1>2, <1>3, <1>4 DEF ConnInv

\* EAGAIN: isend enables the write event, and no byte moves.
LEMMA WriteAgainKeeps == ConnInv /\ WriteAgain => ConnInv'
<1> SUFFICES ASSUME ConnInv, WriteAgain PROVE ConnInv'
  OBVIOUS
<1>1. ConnTypes' /\ Numbered'
  BY QueuesStill DEF ConnInv, ConnTypes, WriteAgain, peerVars
<1>2. SendOrder'
  BY DEF ConnInv, SendOrder, WriteAgain
<1>3. EndsEmpty'
  BY DEF ConnInv, EndsEmpty, Ending, WriteAgain, peerVars
<1> QED
  BY <1>1, <1>2, <1>3 DEF ConnInv

\* The poller closes the channel.
LEMMA PollerClosesKeeps == ConnInv /\ PollerCloses => ConnInv'
<1> SUFFICES ASSUME ConnInv, PollerCloses PROVE ConnInv'
  OBVIOUS
<1>1. ConnTypes' /\ Numbered'
  BY QueuesStill DEF ConnInv, ConnTypes, PollerCloses, peerVars
<1>2. SendOrder'
  BY DEF ConnInv, SendOrder, PollerCloses
<1>3. EndsEmpty'
  BY DEF ConnInv, EndsEmpty, Ending, PollerCloses, peerVars
<1> QED
  BY <1>1, <1>2, <1>3 DEF ConnInv

\* The peer ends its sending.
LEMMA PeerEndsKeeps == ConnInv /\ PeerEnds => ConnInv'
<1> SUFFICES ASSUME ConnInv, PeerEnds PROVE ConnInv'
  OBVIOUS
<1>1. ConnTypes' /\ Numbered'
  BY QueuesStill DEF ConnInv, ConnTypes, PeerEnds, connVars
<1>2. SendOrder'
  BY DEF ConnInv, SendOrder, PeerEnds, connVars
<1>3. EndsEmpty'
  BY DEF ConnInv, EndsEmpty, Ending, PeerEnds, connVars
<1> QED
  BY <1>1, <1>2, <1>3 DEF ConnInv

\* The peer resets the connection.
LEMMA PeerResetsKeeps == ConnInv /\ PeerResets => ConnInv'
<1> SUFFICES ASSUME ConnInv, PeerResets PROVE ConnInv'
  OBVIOUS
<1>1. ConnTypes'
  BY DEF ConnInv, ConnTypes, PeerResets, connVars
<1>2. SendOrder'
  BY DEF ConnInv, SendOrder, PeerResets, connVars
<1>3. EndsEmpty' /\ Numbered'
  BY DEF ConnInv, EndsEmpty, Numbered, PeerResets, connVars
<1> QED
  BY <1>1, <1>2, <1>3 DEF ConnInv

\* Nothing changes.
LEMMA StutterKeeps == ConnInv /\ UNCHANGED allVars => ConnInv'
<1> SUFFICES ASSUME ConnInv, UNCHANGED allVars PROVE ConnInv'
  OBVIOUS
<1>1. ConnTypes' /\ Numbered'
  BY QueuesStill DEF ConnInv, ConnTypes, allVars, connVars, peerVars
<1>2. SendOrder' /\ EndsEmpty'
  BY DEF ConnInv, SendOrder, EndsEmpty, Ending, allVars, connVars, peerVars
<1> QED
  BY <1>1, <1>2 DEF ConnInv

-----------------------------------------------------------------------------
(* The steps that move bytes *)

\* Bytes from the socket follow the ones in input_.
LEMMA ReadSomeKeeps == ConnInv /\ ReadSome => ConnInv'
<1> SUFFICES ASSUME ConnInv, ReadSome PROVE ConnInv'
  OBVIOUS
<1>1. PICK k \in 1..Len(sockIn) :
          /\ input_' = input_ \o SubSeq(sockIn, 1, k)
          /\ sockIn' = SubSeq(sockIn, k + 1, Len(sockIn))
  BY DEF ReadSome
<1> DEFINE front == SubSeq(sockIn, 1, k)
<1>2. /\ pc = "read" /\ sended = 0 /\ ~reset
      /\ UNCHANGED <<state_, events, output_, pc, sended, then, open, sockOut>>
      /\ UNCHANGED <<sent, peerGot, fin, reset>>
  BY DEF ConnInv, SendOrder, ReadSome, peerVars
<1>3. /\ input_ \in Seq(Nat) /\ sockIn \in Seq(Nat) /\ Len(input_) \in Nat
      /\ Len(sockIn) \in Nat /\ k \in Nat /\ 1 <= k /\ k <= Len(sockIn)
  BY DEF ConnInv, ConnTypes
<1>4. AfterHeld \in Nat /\ AfterInput = AfterHeld + Len(input_)
  BY <1>2, <1>3 DEF ConnInv, ConnTypes, AfterInput, AfterHeld, AfterOut, AfterGot
<1>5. Numbered /\ Run(sockIn, AfterInput)
  BY <1>2 DEF ConnInv, Numbered
<1>6. AfterInput \in Nat
  BY <1>3, <1>4
<1>7. /\ Run(front, AfterInput) /\ Len(front) = k /\ front \in Seq(Nat)
      /\ Run(sockIn', AfterInput + k) /\ Len(sockIn') = Len(sockIn) - k
      /\ sockIn' \in Seq(Nat)
  BY <1>1, <1>3, <1>5, <1>6, CutRun
<1>8. input_' \in Seq(Nat) /\ Len(input_') = Len(input_) + k
  BY <1>1, <1>3, <1>7, Joined
<1>9. ConnTypes'
  BY <1>2, <1>7, <1>8 DEF ConnInv, ConnTypes
<1>10. Run(input_, AfterHeld)
  <2>1. \A i \in 1..Len(input_) : i \in sended + 1..Len(input_) /\ i - sended = i
    BY <1>2, <1>3
  <2> QED
    BY <1>2, <1>5, <2>1 DEF Numbered, Run
<1>11. Run(input_', AfterHeld)
  BY <1>1, <1>3, <1>4, <1>7, <1>10, JoinedRun
<1>12. /\ AfterGot' = AfterGot /\ AfterOut' = AfterOut /\ AfterHeld' = AfterHeld
  BY <1>2 DEF AfterGot, AfterOut, AfterHeld
<1>13. AfterInput' = AfterInput + k
  BY <1>2, <1>3, <1>4, <1>8, <1>12 DEF AfterInput
<1>14. Numbered'
  <2>1. \A i \in sended' + 1..Len(input_') : input_'[i] = AfterHeld' + (i - sended')
    <3>1. \A i \in 1..Len(input_') : i - 0 = i /\ 0 + 1 = 1
      BY <1>3, <1>8
    <3> QED
      BY <1>2, <1>11, <1>12, <3>1 DEF Run
  <2>2. AfterInput' + Len(sockIn') = sent'
    BY <1>2, <1>3, <1>5, <1>6, <1>7, <1>13 DEF Numbered
  <2>3. Run(peerGot', 0) /\ Run(sockOut', AfterGot') /\ Run(output_', AfterOut')
    BY <1>2, <1>5, <1>12 DEF Numbered
  <2> QED
    BY <1>7, <1>13, <2>1, <2>2, <2>3 DEF Numbered
<1>15. SendOrder'
  BY <1>2 DEF ConnInv, SendOrder
<1>16. EndsEmpty'
  BY <1>2 DEF ConnInv, EndsEmpty, Ending
<1> QED
  BY <1>9, <1>14, <1>15, <1>16 DEF ConnInv

\* The whole of input_ follows what output_ holds.
LEMMA SendAbsorbsKeeps == ConnInv /\ SendAbsorbs => ConnInv'
<1> SUFFICES ASSUME ConnInv, SendAbsorbs PROVE ConnInv'
  OBVIOUS
<1>1. /\ pc = "send" /\ "write" \in events /\ sended = 0
      /\ output_' = output_ \o input_ /\ input_' = <<>> /\ pc' = then
      /\ UNCHANGED <<state_, events, sended, then, open, sockIn, sockOut>>
      /\ UNCHANGED <<sent, peerGot, fin, reset>>
  BY DEF ConnInv, SendOrder, SendAbsorbs, peerVars
<1>2. /\ input_ \in Seq(Nat) /\ output_ \in Seq(Nat) /\ then \in {"idle", "cleanup"}
      /\ Len(input_) \in Nat /\ Len(output_) \in Nat /\ Len(input_') = 0
  BY <1>1 DEF ConnInv, ConnTypes
<1>3. output_' \in Seq(Nat) /\ Len(output_') = Len(output_) + Len(input_)
  BY <1>1, <1>2, Joined
<1>4. ConnTypes'
  BY <1>1, <1>2, <1>3 DEF ConnInv, ConnTypes
<1>5. AfterOut \in Nat /\ AfterHeld = AfterOut + Len(output_)
  BY DEF ConnInv, ConnTypes, AfterHeld, AfterOut, AfterGot
<1>6. AfterGot' = AfterGot /\ AfterOut' = AfterOut
  BY <1>1 DEF AfterGot, AfterOut
<1>7. AfterHeld' = AfterHeld + Len(input_) /\ AfterInput' = AfterInput
  BY <1>1, <1>2, <1>3, <1>5, <1>6 DEF AfterHeld, AfterInput
<1>8. ASSUME ~reset
      PROVE  Run(output_', AfterOut)
  <2>1. Run(output_, AfterOut)
    BY <1>8 DEF ConnInv, Numbered
  <2>2. \A i \in 1..Len(input_) : i \in sended + 1..Len(input_) /\ i - sended = i
    BY <1>1, <1>2
  <2>3. Run(input_, AfterOut + Len(output_))
    BY <1>5, <1>8, <2>2 DEF ConnInv, Numbered, Run
  <2> QED
    BY <1>1, <1>2, <1>5, <2>1, <2>3, JoinedRun
<1>9. Numbered'
  <2>1. \A i \in sended' + 1..Len(input_') : FALSE
    BY <1>1, <1>2
  <2>2. ASSUME ~reset
        PROVE  /\ Run(peerGot', 0) /\ Run(sockOut', AfterGot') /\ Run(sockIn', AfterInput')
               /\ AfterInput' + Len(sockIn') = sent'
    BY <1>1, <1>6, <1>7, <2>2 DEF ConnInv, Numbered
  <2> QED
    BY <1>1, <1>6, <1>8, <2>1, <2>2 DEF Numbered
<1>10. SendOrder'
  BY <1>1, <1>2 DEF ConnInv, SendOrder
<1>11. EndsEmpty'
  BY <1>1, <1>2 DEF ConnInv, EndsEmpty, Ending
<1> QED
  BY <1>4, <1>9, <1>10, <1>11 DEF ConnInv

\* The next part of input_ follows what the socket holds, as output_ is empty.
LEMMA WriteSomeKeeps == ConnInv /\ WriteSome => ConnInv'
<1> SUFFICES ASSUME ConnInv, WriteSome PROVE ConnInv'
  OBVIOUS
<1>1. PICK k \in 1..(Len(input_) - sended) :
          /\ sockOut' = sockOut \o SubSeq(input_, sended + 1, sended + k)
          /\ sended' = sended + k
  BY DEF WriteSome
<1> DEFINE next == SubSeq(input_, sended + 1, sended + k)
<1>2. /\ pc = "write" /\ output_ = <<>> /\ ~reset
      /\ UNCHANGED <<state_, events, input_, output_, pc, then, open, sockIn>>
      /\ UNCHANGED <<sent, peerGot, fin, reset>>
  BY DEF ConnInv, SendOrder, WriteSome, peerVars
<1>3. /\ input_ \in Seq(Nat) /\ sockOut \in Seq(Nat) /\ Len(input_) \in Nat
      /\ Len(sockOut) \in Nat /\ sended \in Nat /\ k \in Nat /\ 1 <= k
      /\ sended + k <= Len(input_) /\ Len(output_) = 0
  BY <1>2 DEF ConnInv, ConnTypes
<1>4. AfterGot \in Nat /\ AfterHeld = AfterGot + Len(sockOut)
  BY <1>3 DEF ConnInv, ConnTypes, AfterHeld, AfterOut, AfterGot
<1>5. Numbered /\ Run(sockOut, AfterGot)
  BY <1>2 DEF ConnInv, Numbered
<1>6. /\ next \in Seq(Nat) /\ Len(next) = k
      /\ \A i \in 1..k : next[i] = input_[sended + i]
  <2> DEFINE a == sended + 1
             b == sended + k
  <2>1. a \in Nat /\ b \in Nat /\ 1 <= a /\ a <= b + 1 /\ b <= Len(input_)
    BY <1>3
  <2>2. b - a + 1 = k /\ \A i \in 1..k : a + i - 1 = sended + i
    BY <1>3
  <2>3. /\ SubSeq(input_, a, b) \in Seq(Nat) /\ Len(SubSeq(input_, a, b)) = b - a + 1
        /\ \A i \in 1..b - a + 1 : SubSeq(input_, a, b)[i] = input_[a + i - 1]
    BY <1>3, <2>1, Part
  <2> QED
    BY <2>2, <2>3
<1>7. Run(next, AfterGot + Len(sockOut))
  <2>1. \A i \in 1..k : sended + i \in sended + 1..Len(input_) /\ (sended + i) - sended = i
    BY <1>3
  <2>2. \A i \in sended + 1..Len(input_) : input_[i] = AfterHeld + (i - sended)
    BY <1>2, <1>5 DEF Numbered
  <2>3. \A i \in 1..k : input_[sended + i] = AfterHeld + i
    BY <2>1, <2>2
  <2> HIDE DEF next
  <2> QED
    BY <1>4, <1>6, <2>3 DEF Run
<1>8. Run(sockOut', AfterGot)
  BY <1>1, <1>3, <1>4, <1>5, <1>6, <1>7, JoinedRun
<1>9. sockOut' \in Seq(Nat) /\ Len(sockOut') = Len(sockOut) + k
  BY <1>1, <1>3, <1>6, Joined
<1>10. ConnTypes'
  BY <1>1, <1>2, <1>3, <1>9 DEF ConnInv, ConnTypes
<1>11. /\ AfterGot' = AfterGot /\ AfterOut' = AfterHeld + k /\ AfterHeld' = AfterHeld + k
       /\ AfterInput' = AfterInput
  BY <1>1, <1>2, <1>3, <1>4, <1>9 DEF AfterGot, AfterOut, AfterHeld, AfterInput
<1>12. Numbered'
  <2>1. AfterHeld \in Nat
    BY <1>3, <1>4
  <2>2. \A i \in sended' + 1..Len(input_') :
            /\ i \in sended + 1..Len(input_)
            /\ AfterHeld' + (i - sended') = AfterHeld + (i - sended)
    BY <1>1, <1>2, <1>3, <1>11, <2>1
  <2>3. \A i \in sended' + 1..Len(input_') : input_'[i] = AfterHeld' + (i - sended')
    BY <1>2, <1>5, <2>2 DEF Numbered
  <2>4. \A n : Run(output_', n)
    BY <1>2, <1>3 DEF Run
  <2> QED
    BY <1>2, <1>5, <1>8, <1>11, <2>3, <2>4 DEF Numbered
<1>13. SendOrder' /\ EndsEmpty'
  BY <1>2 DEF ConnInv, SendOrder, EndsEmpty, Ending
<1> QED
  BY <1>10, <1>12, <1>13 DEF ConnInv

\* What isend has not sent is what input_ keeps.
LEMMA WriteEndsKeeps == ConnInv /\ WriteEnds => ConnInv'
<1> SUFFICES ASSUME ConnInv, WriteEnds PROVE ConnInv'
  OBVIOUS
<1>1. /\ pc = "write" /\ output_ = <<>> /\ state_ # "Handshaking" /\ pc' = then
      /\ input_' = SubSeq(input_, sended + 1, Len(input_)) /\ sended' = 0
      /\ UNCHANGED <<state_, events, output_, then, open, sockIn, sockOut>>
      /\ UNCHANGED <<sent, peerGot, fin, reset>>
  BY DEF ConnInv, SendOrder, WriteEnds, peerVars
<1>2. sended = Len(input_) \/ ~open \/ reset
  BY DEF WriteEnds
<1>3. /\ input_ \in Seq(Nat) /\ Len(input_) \in Nat /\ sended \in Nat
      /\ sended <= Len(input_) /\ then \in {"idle", "cleanup"}
  BY DEF ConnInv, ConnTypes
<1>4. /\ input_' \in Seq(Nat) /\ Len(input_') = Len(input_) - sended
      /\ \A i \in 1..Len(input_') : input_'[i] = input_[sended + i]
  <2> DEFINE a == sended + 1
             b == Len(input_)
  <2>1. a \in Nat /\ b \in Nat /\ 1 <= a /\ a <= b + 1 /\ b <= Len(input_)
    BY <1>3
  <2>2. b - a + 1 = b - sended /\ \A i \in 1..b - sended : a + i - 1 = sended + i
    BY <1>3
  <2>3. /\ SubSeq(input_, a, b) \in Seq(Nat) /\ Len(SubSeq(input_, a, b)) = b - a + 1
        /\ \A i \in 1..b - a + 1 : SubSeq(input_, a, b)[i] = input_[a + i - 1]
    BY <1>3, <2>1, Part
  <2> QED
    BY <1>1, <2>2, <2>3
<1>5. ConnTypes'
  BY <1>1, <1>3, <1>4 DEF ConnInv, ConnTypes
<1>6. /\ AfterGot' = AfterGot /\ AfterOut' = AfterOut /\ AfterHeld' = AfterHeld
  BY <1>1 DEF AfterGot, AfterOut, AfterHeld
<1>7. AfterHeld \in Nat /\ AfterInput' = AfterInput
  <2>1. AfterHeld \in Nat
    BY DEF ConnInv, ConnTypes, AfterHeld, AfterOut, AfterGot
  <2> QED
    BY <1>1, <1>3, <1>4, <1>6, <2>1 DEF AfterInput
<1>8. Numbered'
  <2> SUFFICES ASSUME ~reset PROVE Numbered'
    BY <1>1 DEF Numbered
  <2>1. Numbered
    BY DEF ConnInv
  <2>2. \A i \in sended' + 1..Len(input_') :
            /\ i \in 1..Len(input_') /\ sended + i \in sended + 1..Len(input_)
            /\ i - sended' = (sended + i) - sended
    BY <1>1, <1>3, <1>4
  <2>3. \A i \in sended' + 1..Len(input_') : input_'[i] = AfterHeld' + (i - sended')
    BY <1>4, <1>6, <2>1, <2>2 DEF Numbered
  <2> QED
    BY <1>1, <1>6, <1>7, <2>1, <2>3 DEF Numbered
<1>9. SendOrder'
  BY <1>1 DEF ConnInv, SendOrder
<1>10. open /\ ~reset => input_' = <<>>
  BY <1>2, <1>3, <1>4
<1>11. EndsEmpty'
  BY <1>1, <1>3, <1>10 DEF ConnInv, EndsEmpty, Ending
<1> QED
  BY <1>5, <1>8, <1>9, <1>11 DEF ConnInv

\* The next number goes to the end of the socket's queue.
LEMMA PeerSendsKeeps == ConnInv /\ PeerSends => ConnInv'
<1> SUFFICES ASSUME ConnInv, PeerSends PROVE ConnInv'
  OBVIOUS
<1>1. /\ ~fin /\ ~reset /\ sent' = sent + 1 /\ sockIn' = Append(sockIn, sent + 1)
      /\ UNCHANGED <<state_, events, input_, output_, pc, sended, then, open>>
      /\ UNCHANGED <<sockOut, peerGot, fin, reset>>
  BY DEF PeerSends, connVars
<1>2. sockIn \in Seq(Nat) /\ Len(sockIn) \in Nat /\ sent \in Nat
  BY DEF ConnInv, ConnTypes
<1>3. /\ sockIn' \in Seq(Nat) /\ Len(sockIn') = Len(sockIn) + 1
      /\ \A i \in 1..Len(sockIn) : sockIn'[i] = sockIn[i]
      /\ sockIn'[Len(sockIn) + 1] = sent + 1
  BY <1>1, <1>2
<1>4. ConnTypes'
  BY <1>1, <1>2, <1>3 DEF ConnInv, ConnTypes
<1>5. /\ AfterGot' = AfterGot /\ AfterOut' = AfterOut /\ AfterHeld' = AfterHeld
      /\ AfterInput' = AfterInput
  BY <1>1 DEF AfterGot, AfterOut, AfterHeld, AfterInput
<1>6. Numbered
  BY DEF ConnInv
<1>7. AfterInput \in Nat /\ AfterInput + Len(sockIn) = sent
  <2>1. AfterInput \in Nat
    BY DEF ConnInv, ConnTypes, AfterInput, AfterHeld, AfterOut, AfterGot
  <2> QED
    BY <1>1, <1>6, <2>1 DEF Numbered
<1>8. Run(sockIn', AfterInput)
  <2>1. \A i \in 1..Len(sockIn') :
            i \in 1..Len(sockIn) \/ (i = Len(sockIn) + 1 /\ AfterInput + i = sent + 1)
    BY <1>2, <1>3, <1>7
  <2> QED
    BY <1>1, <1>3, <1>6, <2>1 DEF Numbered, Run
<1>9. AfterInput' + Len(sockIn') = sent'
  BY <1>1, <1>2, <1>3, <1>5, <1>7
<1>10. Numbered'
  BY <1>1, <1>5, <1>6, <1>8, <1>9 DEF Numbered
<1>11. SendOrder' /\ EndsEmpty'
  BY <1>1 DEF ConnInv, SendOrder, EndsEmpty, Ending
<1> QED
  BY <1>4, <1>10, <1>11 DEF ConnInv

\* The first byte of the send queue is the one after what the peer has.
LEMMA PeerReceivesKeeps == ConnInv /\ PeerReceives => ConnInv'
<1> SUFFICES ASSUME ConnInv, PeerReceives PROVE ConnInv'
  OBVIOUS
<1>1. /\ ~reset /\ sockOut # <<>>
      /\ peerGot' = Append(peerGot, Head(sockOut)) /\ sockOut' = Tail(sockOut)
      /\ UNCHANGED <<state_, events, input_, output_, pc, sended, then, open>>
      /\ UNCHANGED <<sockIn, sent, fin, reset>>
  BY DEF PeerReceives, connVars
<1>2. /\ peerGot \in Seq(Nat) /\ Len(peerGot) \in Nat
      /\ sockOut \in Seq(Nat) /\ Len(sockOut) \in Nat /\ 1 <= Len(sockOut)
  BY <1>1 DEF ConnInv, ConnTypes
<1>3. /\ sockOut' \in Seq(Nat) /\ Len(sockOut') = Len(sockOut) - 1
      /\ \A i \in 1..Len(sockOut') : sockOut'[i] = sockOut[i + 1]
      /\ Head(sockOut) = sockOut[1] /\ sockOut[1] \in Nat
  BY <1>1, <1>2
<1>4. /\ peerGot' \in Seq(Nat) /\ Len(peerGot') = Len(peerGot) + 1
      /\ \A i \in 1..Len(peerGot) : peerGot'[i] = peerGot[i]
      /\ peerGot'[Len(peerGot) + 1] = sockOut[1]
  BY <1>1, <1>2, <1>3
<1>5. ConnTypes'
  BY <1>1, <1>3, <1>4 DEF ConnInv, ConnTypes
<1>6. /\ AfterGot \in Nat /\ AfterGot' = AfterGot + 1 /\ AfterOut' = AfterOut
      /\ AfterHeld' = AfterHeld /\ AfterInput' = AfterInput
  BY <1>1, <1>2, <1>3, <1>4 DEF AfterGot, AfterOut, AfterHeld, AfterInput
<1>7. Numbered
  BY DEF ConnInv
<1>8. \A i \in 1..Len(sockOut) : sockOut[i] = AfterGot + i
  BY <1>1, <1>7 DEF Numbered, Run
<1>9. Run(sockOut', AfterGot')
  <2>1. \A i \in 1..Len(sockOut') :
            i + 1 \in 1..Len(sockOut) /\ AfterGot + (i + 1) = AfterGot' + i
    BY <1>2, <1>3, <1>6
  <2> QED
    BY <1>3, <1>8, <2>1 DEF Run
<1>10. Run(peerGot', 0)
  <2>1. sockOut[1] = 0 + (Len(peerGot) + 1)
    BY <1>2, <1>8 DEF AfterGot
  <2>2. \A i \in 1..Len(peerGot') : i \in 1..Len(peerGot) \/ i = Len(peerGot) + 1
    BY <1>2, <1>4
  <2> QED
    BY <1>1, <1>4, <1>7, <2>1, <2>2 DEF Numbered, Run
<1>11. Numbered'
  BY <1>1, <1>6, <1>7, <1>9, <1>10 DEF Numbered
<1>12. SendOrder' /\ EndsEmpty'
  BY <1>1 DEF ConnInv, SendOrder, EndsEmpty, Ending
<1> QED
  BY <1>5, <1>11, <1>12 DEF ConnInv

-----------------------------------------------------------------------------
(* The theorems *)

\* The inductive invariant holds in every behaviour.
LEMMA InvAlways == ConnSpec => []ConnInv
<1>1. ConnInv /\ [ConnNext]_allVars => ConnInv'
  <2> SUFFICES ASSUME ConnInv, [ConnNext]_allVars PROVE ConnInv'
    OBVIOUS
  <2>1. CASE Handler
    BY <2>1, HandleReadKeeps, HandleWriteKeeps, ReadSomeKeeps, ReadAgainKeeps, ReadEndKeeps,
       CleanupKeeps, SendAbsorbsKeeps, SendWritesKeeps, WriteSomeKeeps, WriteAgainKeeps,
       WriteEndsKeeps DEF Handler
  <2>2. CASE PollerCloses
    BY <2>2, PollerClosesKeeps
  <2>3. CASE PeerSends \/ PeerReceives \/ PeerEnds \/ PeerResets
    BY <2>3, PeerSendsKeeps, PeerReceivesKeeps, PeerEndsKeeps, PeerResetsKeeps
  <2>4. CASE UNCHANGED allVars
    BY <2>4, StutterKeeps
  <2> QED
    BY <2>1, <2>2, <2>3, <2>4 DEF ConnNext
<1> QED
  BY InitKeeps, <1>1, PTL DEF ConnSpec, ConnSafeSpec

\* The queues one behind the other hold the numbers from 1 to sent.
LEMMA InvInOrder == ConnInv => EchoInOrder
<1> SUFFICES ASSUME ConnInv, ~reset PROVE EchoInOrder
  BY DEF EchoInOrder
<1> DEFINE unsent == SubSeq(input_, sended + 1, Len(input_))
<1>1. /\ peerGot \in Seq(Nat) /\ sockOut \in Seq(Nat) /\ output_ \in Seq(Nat)
      /\ input_ \in Seq(Nat) /\ sockIn \in Seq(Nat) /\ sent \in Nat
      /\ sended \in Nat /\ sended <= Len(input_)
  BY DEF ConnInv, ConnTypes
<1>2. /\ Run(peerGot, 0) /\ Run(sockOut, AfterGot) /\ Run(output_, AfterOut)
      /\ \A i \in sended + 1..Len(input_) : input_[i] = AfterHeld + (i - sended)
      /\ Run(sockIn, AfterInput) /\ AfterInput + Len(sockIn) = sent
  BY DEF ConnInv, Numbered
<1>3. /\ Len(peerGot) \in Nat /\ Len(sockOut) \in Nat /\ Len(output_) \in Nat
      /\ Len(input_) \in Nat /\ Len(sockIn) \in Nat
  BY <1>1
<1>4. /\ unsent \in Seq(Nat) /\ Len(unsent) = Len(input_) - sended
      /\ Run(unsent, AfterHeld)
  <2> DEFINE a == sended + 1
             b == Len(input_)
  <2>1. a \in Nat /\ b \in Nat /\ 1 <= a /\ a <= b + 1 /\ b <= Len(input_)
    BY <1>1, <1>3
  <2>2. /\ b - a + 1 = b - sended
        /\ \A i \in 1..b - sended :
               a + i - 1 = sended + i /\ sended + i \in sended + 1..b /\ (sended + i) - sended = i
    BY <1>1, <1>3
  <2>3. /\ SubSeq(input_, a, b) \in Seq(Nat) /\ Len(SubSeq(input_, a, b)) = b - a + 1
        /\ \A i \in 1..b - a + 1 : SubSeq(input_, a, b)[i] = input_[a + i - 1]
    BY <1>1, <2>1, Part
  <2>4. \A i \in 1..b - sended : unsent[i] = AfterHeld + i
    BY <1>2, <2>2, <2>3
  <2> QED
    BY <2>2, <2>3, <2>4 DEF Run
<1> HIDE DEF unsent
<1> DEFINE s1 == peerGot \o sockOut
<1>5. s1 \in Seq(Nat) /\ Len(s1) = AfterOut /\ Run(s1, 0)
  BY <1>1, <1>2, <1>3, Joined, JoinedRun DEF AfterGot, AfterOut
<1> HIDE DEF s1
<1> DEFINE s2 == s1 \o output_
<1>6. s2 \in Seq(Nat) /\ Len(s2) = AfterHeld /\ Run(s2, 0)
  <2>1. 0 + Len(s1) = AfterOut
    BY <1>5
  <2>2. s2 \in Seq(Nat) /\ Len(s2) = Len(s1) + Len(output_)
    BY <1>1, <1>5, Joined
  <2>3. Run(s2, 0)
    BY <1>1, <1>2, <1>5, <2>1, JoinedRun
  <2> QED
    BY <1>2, <1>5, <2>2, <2>3 DEF AfterHeld
<1> HIDE DEF s2
<1> DEFINE s3 == s2 \o unsent
<1>7. s3 \in Seq(Nat) /\ Len(s3) = AfterInput /\ Run(s3, 0)
  <2>1. 0 + Len(s2) = AfterHeld
    BY <1>6
  <2>2. s3 \in Seq(Nat) /\ Len(s3) = Len(s2) + Len(unsent)
    BY <1>1, <1>4, <1>6, Joined
  <2>3. Run(s3, 0)
    BY <1>1, <1>2, <1>4, <1>6, <2>1, JoinedRun
  <2> QED
    BY <1>2, <1>4, <1>6, <2>2, <2>3 DEF AfterInput
<1> HIDE DEF s3
<1> DEFINE s4 == s3 \o sockIn
<1>8. s4 \in Seq(Nat) /\ Len(s4) = sent /\ Run(s4, 0)
  <2>1. 0 + Len(s3) = AfterInput
    BY <1>7
  <2>2. s4 \in Seq(Nat) /\ Len(s4) = Len(s3) + Len(sockIn)
    BY <1>1, <1>7, Joined
  <2>3. Run(s4, 0)
    BY <1>1, <1>2, <1>7, <2>1, JoinedRun
  <2> QED
    BY <1>2, <1>7, <2>2, <2>3
<1>9. s4 = peerGot \o sockOut \o output_ \o unsent \o sockIn
  BY DEF s1, s2, s3
<1> HIDE DEF s4
<1>10. s4 = [i \in 1..sent |-> i]
  <2>1. \A i \in 1..sent : s4[i] = i
    <3>1. \A i \in 1..sent : 0 + i = i
      BY <1>1
    <3> QED
      BY <1>8, <3>1 DEF Run
  <2>2. s4 = [i \in 1..Len(s4) |-> s4[i]]
    BY <1>8
  <2> QED
    BY <1>8, <2>1, <2>2
<1> QED
  BY <1>9, <1>10 DEF EchoInOrder, unsent

\* handleRead, send and isend return every byte once and in order, however
\* reads and writes are cut.
THEOREM EchoOrdered == ConnSpec => []EchoInOrder
  BY InvAlways, InvInOrder, PTL

\* A connection that cleanup has closed by itself has read up to the end of
\* the peer's data, and the callback has had all of it.
THEOREM ClosedComplete == ConnSpec => []ClosedAfterAllData
<1>1. ConnInv => ClosedAfterAllData
  BY DEF ConnInv, EndsEmpty, Ending, ClosedAfterAllData
<1> QED
  BY <1>1, InvAlways, PTL

\* The peer has received the first bytes it sent.
GotWhatWasSent == Len(peerGot) <= sent /\ Run(peerGot, 0)

\* Bytes lie in output_, and at most n bytes have ever gone to the socket.
StuckAt(n) == output_ # <<>> /\ Len(peerGot) + Len(sockOut) <= n

\* Only the peer's own receiving lengthens what it has; as long as there is no
\* reset it is the front of the queues.
LEMMA GotStep ==
    ASSUME ConnInv, ConnInv', GotWhatWasSent, [ConnNext]_allVars
    PROVE  GotWhatWasSent'
<1>1. CASE ~reset'
  <2>1. Run(peerGot, 0)' /\ (AfterInput + Len(sockIn) = sent)'
    BY <1>1 DEF ConnInv, Numbered
  <2>2. /\ Len(peerGot') \in Nat /\ Len(sockOut') \in Nat /\ Len(output_') \in Nat
        /\ Len(input_') \in Nat /\ Len(sockIn') \in Nat /\ sended' \in Nat /\ sent' \in Nat
        /\ sended' <= Len(input_')
    BY DEF ConnInv, ConnTypes
  <2>3. Len(peerGot') + Len(sockOut') + Len(output_') + (Len(input_') - sended') + Len(sockIn')
            = sent'
    BY <2>1 DEF AfterInput, AfterHeld, AfterOut, AfterGot
  <2>4. Len(peerGot') <= sent'
    BY <2>2, <2>3
  <2> QED
    BY <2>1, <2>4 DEF GotWhatWasSent
<1>2. CASE reset'
  <2>1. peerGot' = peerGot /\ sent' = sent
    BY <1>2 DEF ConnNext, Handler, HandleRead, HandleWrite, ReadSome, ReadAgain, ReadEnd, Cleanup,
       SendAbsorbs, SendWrites, WriteSome, WriteAgain, WriteEnds, PollerCloses, PeerSends,
       PeerReceives, PeerEnds, PeerResets, peerVars, allVars
  <2> QED
    BY <2>1 DEF GotWhatWasSent, Run
<1> QED
  BY <1>1, <1>2

\* Once output_ holds a byte nothing takes it out and nothing writes any more.
LEMMA StuckStep ==
    ASSUME ConnInv, NEW n \in Nat, StuckAt(n), [ConnNext]_allVars
    PROVE  StuckAt(n)'
<1>1. /\ output_ \in Seq(Nat) /\ input_ \in Seq(Nat) /\ peerGot \in Seq(Nat)
      /\ sockOut \in Seq(Nat) /\ output_ # <<>>
  BY DEF ConnInv, ConnTypes, StuckAt
<1>2. pc # "write"
  BY <1>1 DEF ConnInv, SendOrder
<1>3. output_' # <<>>
  <2>1. CASE SendAbsorbs
    <3>1. output_' = output_ \o input_
      BY <2>1 DEF SendAbsorbs
    <3>2. Len(output_ \o input_) = Len(output_) + Len(input_) /\ Len(output_) # 0
      BY <1>1
    <3>3. Len(output_) \in Nat /\ Len(input_) \in Nat
      BY <1>1
    <3>4. Len(output_ \o input_) # 0
      BY <3>2, <3>3
    <3> QED
      BY <3>1, <3>4
  <2>2. CASE output_' = output_
    BY <1>1, <2>2
  <2> QED
    BY <2>1, <2>2 DEF ConnNext, Handler, HandleRead, HandleWrite, ReadSome, ReadAgain, ReadEnd,
       Cleanup, SendWrites, WriteSome, WriteAgain, WriteEnds, PollerCloses, PeerSends,
       PeerReceives, PeerEnds, PeerResets, connVars, allVars
<1>4. Len(peerGot') + Len(sockOut') <= n
  <2>1. Len(peerGot) + Len(sockOut) <= n /\ Len(peerGot) \in Nat /\ Len(sockOut) \in Nat
    BY <1>1 DEF StuckAt
  <2>2. CASE PeerReceives
    <3>1. peerGot' = Append(peerGot, Head(sockOut)) /\ sockOut' = Tail(sockOut)
          /\ sockOut # <<>>
      BY <2>2 DEF PeerReceives
    <3>2. Len(peerGot') = Len(peerGot) + 1 /\ Len(sockOut') = Len(sockOut) - 1
      BY <1>1, <3>1
    <3> QED
      BY <2>1, <3>2
  <2>3. CASE PeerResets
    <3>1. peerGot' = peerGot /\ Len(sockOut') = 0
      BY <2>3 DEF PeerResets
    <3> QED
      BY <2>1, <3>1
  <2>4. CASE UNCHANGED <<peerGot, sockOut>>
    BY <2>1, <2>4
  <2> QED
    BY <1>2, <2>2, <2>3, <2>4 DEF ConnNext, Handler, HandleRead, HandleWrite, ReadSome, ReadAgain,
       ReadEnd, Cleanup, SendAbsorbs, SendWrites, WriteSome, WriteAgain, WriteEnds, PollerCloses,
       PeerSends, PeerEnds, connVars, peerVars, allVars
<1> QED
  BY <1>3, <1>4 DEF StuckAt

\* A reset loses bytes, but what the peer has is always the front of what it
\* sent: nothing is skipped, repeated or changed before the loss.
THEOREM GotInOrder == ConnSpec => []GotWhatWasSent
<1>1. ConnInit => GotWhatWasSent
  <2> SUFFICES ASSUME ConnInit PROVE GotWhatWasSent
    OBVIOUS
  <2>1. Len(peerGot) = 0 /\ sent = 0
    BY DEF ConnInit
  <2> QED
    BY <2>1 DEF GotWhatWasSent, Run
<1>2. ConnInv /\ ConnInv' /\ GotWhatWasSent /\ [ConnNext]_allVars => GotWhatWasSent'
  BY GotStep
<1> QED
  BY <1>1, <1>2, InvAlways, PTL DEF ConnSpec, ConnSafeSpec

\* What send() leaves in output_ because the socket is "just full" stays there
\* for good: from then on nothing more is written, and the peer receives no
\* byte beyond those that were in the send queue.
THEOREM OutputStuck ==
    ASSUME NEW n \in Nat
    PROVE  ConnSpec => [](StuckAt(n) => [](StuckAt(n) /\ Len(peerGot) <= n))
<1>1. ConnInv /\ StuckAt(n) /\ [ConnNext]_allVars => StuckAt(n)'
  BY StuckStep
<1>2. ConnInv /\ StuckAt(n) => Len(peerGot) <= n
  <2> SUFFICES ASSUME ConnInv, StuckAt(n) PROVE Len(peerGot) <= n
    OBVIOUS
  <2>1. Len(peerGot) \in Nat /\ Len(sockOut) \in Nat
    BY DEF ConnInv, ConnTypes
  <2> QED
    BY <2>1 DEF StuckAt
<1> QED
  BY <1>1, <1>2, InvAlways, PTL DEF ConnSpec, ConnSafeSpec

-----------------------------------------------------------------------------
(* Types of the connection *)

\* Strengthening: what each queue of bytes holds, and how much fits.
QueueTypes ==
    /\ input_ \in Seq(1..MaxBytes) /\ output_ \in Seq(1..MaxBytes)
    /\ sockIn \in Seq(1..MaxBytes) /\ sockOut \in Seq(1..MaxBytes)
    /\ peerGot \in Seq(1..MaxBytes)
    /\ Len(sockOut) <= SndBuf
    /\ sent \in 0..MaxBytes

ModeTypes ==
    /\ state_ \in {"Handshaking", "Connected", "Closed", "Failed"}
    /\ events \subseteq {"read", "write"}
    /\ pc \in {"idle", "read", "send", "write", "cleanup"}
    /\ then \in {"idle", "cleanup"}

SwitchTypes == open \in BOOLEAN /\ fin \in BOOLEAN /\ reset \in BOOLEAN

\* Parts of a sequence, and two sequences together, have the same elements.
LEMMA SameElements ==
    ASSUME NEW S, NEW s \in Seq(S), NEW t \in Seq(S)
    PROVE  /\ s \o t \in Seq(S)
           /\ \A a \in 1..Len(s) + 1, b \in 0..Len(s) : SubSeq(s, a, b) \in Seq(S)
<1>1. s \o t \in Seq(S)
  OBVIOUS
<1>2. ASSUME NEW a \in 1..Len(s) + 1, NEW b \in 0..Len(s) PROVE SubSeq(s, a, b) \in Seq(S)
  <2>1. a \in Int /\ b \in Int /\ \A i \in a..b : s[i] \in S
    OBVIOUS
  <2> QED
    BY <2>1, SubSeqProperties
<1> QED
  BY <1>1, <1>2

\* Every step keeps the queues within their types.
LEMMA QueueTypesStep ==
    ASSUME ConnInv, QueueTypes, [ConnNext]_allVars
    PROVE  QueueTypes'
<1> DEFINE B == 1..MaxBytes
<1>1. /\ input_ \in Seq(B) /\ output_ \in Seq(B) /\ sockIn \in Seq(B) /\ sockOut \in Seq(B)
      /\ peerGot \in Seq(B) /\ Len(sockOut) <= SndBuf /\ sent \in 0..MaxBytes
      /\ SndBuf \in Nat /\ MaxBytes \in Nat
  BY ConnAssumption DEF QueueTypes, ConnAssumption
<1>2. /\ Len(input_) \in Nat /\ Len(sockIn) \in Nat /\ Len(sockOut) \in Nat
      /\ sended \in Nat /\ sended <= Len(input_)
  BY <1>1 DEF ConnInv, ConnTypes
<1>3. SUFFICES /\ input_' \in Seq(B) /\ output_' \in Seq(B) /\ sockIn' \in Seq(B)
               /\ sockOut' \in Seq(B) /\ peerGot' \in Seq(B) /\ Len(sockOut') <= SndBuf
               /\ sent' \in 0..MaxBytes
  BY DEF QueueTypes
<1>4. CASE ReadSome
  <2>1. PICK k \in 1..Len(sockIn) :
            /\ input_' = input_ \o SubSeq(sockIn, 1, k)
            /\ sockIn' = SubSeq(sockIn, k + 1, Len(sockIn))
    BY <1>4 DEF ReadSome
  <2>2. /\ 1 \in 1..Len(sockIn) + 1 /\ k \in 0..Len(sockIn)
        /\ k + 1 \in 1..Len(sockIn) + 1 /\ Len(sockIn) \in 0..Len(sockIn)
    BY <1>2
  <2> HIDE DEF B
  <2>3. SubSeq(sockIn, 1, k) \in Seq(B) /\ SubSeq(sockIn, k + 1, Len(sockIn)) \in Seq(B)
    BY <1>1, <2>2, SameElements
  <2>4. input_' \in Seq(B)
    BY <1>1, <2>1, <2>3, SameElements
  <2> QED
    BY <1>1, <1>4, <2>1, <2>3, <2>4 DEF ReadSome, peerVars
<1>5. CASE SendAbsorbs
  <2> HIDE DEF B
  <2>1. output_ \o input_ \in Seq(B) /\ <<>> \in Seq(B)
    BY <1>1, SameElements
  <2> QED
    BY <1>1, <1>5, <2>1 DEF SendAbsorbs, peerVars
<1>6. CASE WriteSome
  <2>1. PICK k \in 1..(Len(input_) - sended) :
            /\ Len(sockOut) + k <= SndBuf
            /\ sockOut' = sockOut \o SubSeq(input_, sended + 1, sended + k)
    BY <1>6 DEF WriteSome
  <2>2. sended + 1 \in 1..Len(input_) + 1 /\ sended + k \in 0..Len(input_)
    BY <1>2
  <2> HIDE DEF B
  <2>3. SubSeq(input_, sended + 1, sended + k) \in Seq(B)
    BY <1>1, <2>2, SameElements
  <2>4. sockOut' \in Seq(B)
    BY <1>1, <2>1, <2>3, SameElements
  <2>5. Len(sockOut') <= SndBuf
    <3>1. /\ Len(SubSeq(input_, sended + 1, sended + k)) = k
          /\ SubSeq(input_, sended + 1, sended + k) \in Seq(Nat) /\ sockOut \in Seq(Nat)
      <4>1. /\ sended + 1 \in Nat /\ sended + k \in Nat /\ 1 <= sended + 1
            /\ sended + 1 <= (sended + k) + 1 /\ sended + k <= Len(input_)
            /\ (sended + k) - (sended + 1) + 1 = k
        BY <1>2
      <4>2. input_ \in Seq(Nat) /\ sockOut \in Seq(Nat)
        BY DEF ConnInv, ConnTypes
      <4> QED
        BY <4>1, <4>2, Part
    <3>2. Len(sockOut') = Len(sockOut) + k
      BY <2>1, <3>1, Joined
    <3> QED
      BY <2>1, <3>2
  <2> QED
    BY <1>1, <1>6, <2>4, <2>5 DEF WriteSome, peerVars
<1>7. CASE WriteEnds
  <2>1. sended + 1 \in 1..Len(input_) + 1 /\ Len(input_) \in 0..Len(input_)
    BY <1>2
  <2> HIDE DEF B
  <2>2. SubSeq(input_, sended + 1, Len(input_)) \in Seq(B)
    BY <1>1, <2>1, SameElements
  <2> QED
    BY <1>1, <1>7, <2>2 DEF WriteEnds, peerVars
<1>8. CASE PeerSends
  <2>1. sent + 1 \in B /\ sent' = sent + 1 /\ sockIn' = Append(sockIn, sent + 1)
    BY <1>1, <1>8 DEF PeerSends
  <2>2. sent' \in 0..MaxBytes
    BY <1>1, <2>1
  <2> HIDE DEF B
  <2>3. sockIn' \in Seq(B)
    BY <1>1, <2>1
  <2> QED
    BY <1>1, <1>8, <2>2, <2>3 DEF PeerSends, connVars
<1>9. CASE PeerReceives
  <2> HIDE DEF B
  <2>1. /\ peerGot' = Append(peerGot, Head(sockOut)) /\ sockOut' = Tail(sockOut)
        /\ sockOut # <<>>
    BY <1>9 DEF PeerReceives
  <2>2. Head(sockOut) \in B /\ sockOut' \in Seq(B) /\ Len(sockOut') = Len(sockOut) - 1
    BY <1>1, <2>1
  <2>3. peerGot' \in Seq(B) /\ Len(sockOut') <= SndBuf
    BY <1>1, <1>2, <2>1, <2>2
  <2> QED
    BY <1>1, <1>9, <2>2, <2>3 DEF PeerReceives, connVars
<1>10. CASE PeerResets
  <2> HIDE DEF B
  <2>1. <<>> \in Seq(B) /\ Len(<<>>) <= SndBuf
    BY <1>1
  <2> QED
    BY <1>1, <1>10, <2>1 DEF PeerResets, connVars
<1>11. CASE UNCHANGED <<input_, output_, sockIn, sockOut, peerGot, sent>>
  BY <1>1, <1>11
<1> QED
  BY <1>4, <1>5, <1>6, <1>7, <1>8, <1>9, <1>10, <1>11 DEF ConnNext, Handler, HandleRead,
     HandleWrite, ReadAgain, ReadEnd, Cleanup, SendWrites, WriteAgain, PollerCloses, PeerEnds,
     connVars, peerVars, allVars

\* Every step keeps the handlers' places and the events within their types.
LEMMA ModeTypesStep ==
    ASSUME ModeTypes, [ConnNext]_allVars
    PROVE  ModeTypes'
BY DEF ModeTypes, ConnNext, Handler, HandleRead, HandleWrite, Handshake, ReadSome, ReadAgain,
   ReadEnd, Cleanup, SendAbsorbs, SendWrites, WriteSome, WriteAgain, WriteEnds, PollerCloses,
   PeerSends, PeerReceives, PeerEnds, PeerResets, connVars, peerVars, allVars

\* The switches are only thrown.
LEMMA SwitchTypesStep ==
    ASSUME SwitchTypes, [ConnNext]_allVars
    PROVE  SwitchTypes'
<1>1. /\ open' = open \/ open' = FALSE
      /\ fin' = fin \/ fin' = TRUE
      /\ reset' = reset \/ reset' = TRUE
  BY DEF ConnNext, Handler, HandleRead, HandleWrite, ReadSome, ReadAgain,
     ReadEnd, Cleanup, SendAbsorbs, SendWrites, WriteSome, WriteAgain, WriteEnds, PollerCloses,
     PeerSends, PeerReceives, PeerEnds, PeerResets, connVars, peerVars, allVars
<1> QED
  BY <1>1, Zenon DEF SwitchTypes

\* The state of a connection has the types of ConnTypeOK; in particular isend
\* never writes more than the send queue has room for, and never counts past
\* the end of its buffer.
THEOREM ConnTypeCorrect == ConnSpec => []ConnTypeOK
<1>1. ConnInit => QueueTypes /\ ModeTypes /\ SwitchTypes
  <2>1. ConnInit => QueueTypes /\ ModeTypes
    BY ConnAssumption DEF ConnInit, QueueTypes, ModeTypes, ConnAssumption
  <2>2. ConnInit => SwitchTypes
    BY Zenon DEF ConnInit, SwitchTypes
  <2> QED
    BY <2>1, <2>2
<1>2. ConnInv /\ QueueTypes /\ ModeTypes /\ SwitchTypes /\ [ConnNext]_allVars
      => QueueTypes' /\ ModeTypes' /\ SwitchTypes'
  BY QueueTypesStep, ModeTypesStep, SwitchTypesStep
<1>3. ConnInv /\ QueueTypes /\ ModeTypes /\ SwitchTypes => ConnTypeOK
  <2> SUFFICES ASSUME ConnInv, QueueTypes, ModeTypes, SwitchTypes PROVE ConnTypeOK
    OBVIOUS
  <2>1. sended \in 0..Len(input_)
    BY DEF ConnInv, ConnTypes
  <2> QED
    BY <2>1, Zenon DEF ConnTypeOK, QueueTypes, ModeTypes, SwitchTypes
<1> QED
  BY <1>1, <1>2, <1>3, InvAlways, PTL DEF ConnSpec, ConnSafeSpec

=============================================================================
