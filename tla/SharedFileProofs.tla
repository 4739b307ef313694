-------------------------- MODULE SharedFileProofs --------------------------
(***************************************************************************)
(* Proofs about the two files that processes share through the file        *)
(* system: the configuration file that renameSave replaces (ConfFile), for *)
(* any savers, names and contents, and the pid file of the daemon (Daemon),*)
(* for any process numbers and commands.                                   *)
(***************************************************************************)
EXTENDS ConfFile, Daemon, SequenceTheorems, FiniteSetTheorems,
    WellFoundedInduction, TLAPS

-----------------------------------------------------------------------------
(* The configuration file.  Several savers may be in renameSave at once.   *)

\* Each saver writes to a temporary file of its own.
OwnNames ==
    \A s, t \in Savers : s # t => Temporary[s] # Temporary[t]

\* What the file was at first.
Orig == Text(first)

\* The files are numbered from 1 on; a name and a descriptor stand for one.
Numbers == 1..Len(data)
FileTypes ==
    /\ Len(data) \in Nat /\ DOMAIN data = Numbers
    /\ dir \in [Names -> Numbers \cup {NoFile}]
    /\ fd \in [Savers -> Numbers \cup {NoFile}]
    /\ fp \in Numbers \cup {NoFile}
    /\ spc \in [Savers -> {"out", "write", "unlink", "rename"}]
    /\ faults \in Nat

\* No file has two names.
NamesApart == \A m, n \in Names : dir[m] = dir[n] /\ dir[m] # NoFile => m = n

\* Inside renameSave a saver's temporary file exists, and before the write it
\* is the open one and empty.
TemporaryThere ==
    \A s \in Savers :
        /\ spc[s] # "out" => dir[Temporary[s]] # NoFile
        /\ spc[s] = "write" => fd[s] = dir[Temporary[s]] /\ data[fd[s]] = <<>>

\* The target is complete when it is there, and so is what will replace it.
CompleteOrTorn ==
    torn \/ /\ dir[Target] # NoFile => Whole(Target, Orig)
            /\ \A s \in Savers : spc[s] \in {"unlink", "rename"} => Whole(Temporary[s], Orig)

SaveInv ==
    /\ FileTypes /\ NamesApart /\ TemporaryThere /\ CompleteOrTorn
    /\ GoneOnlyInSave /\ OneFaultLosesNothing

\* A function on 1..m is a sequence of length m.
LEMMA LengthOf ==
    ASSUME NEW m \in Nat, NEW g, g = [i \in 1..m |-> g[i]]
    PROVE  Len(g) = m
<1> DEFINE V == {g[i] : i \in 1..m}
<1>1. g \in [1..m -> V]
  OBVIOUS
<1> HIDE DEF V
<1>2. g \in Seq(V)
  BY <1>1
<1> QED
  BY <1>1, <1>2

\* The names: the target's, and one of each saver's.
LEMMA NamesOf ==
    /\ Target \in Names /\ NoFile \notin Nat
    /\ \A s \in Savers : Temporary[s] \in Names /\ Temporary[s] # Target
BY FileAssumption DEF FileAssumption, Names, Range

\* A name that stands for the same file keeps what is in it.
LEMMA WholeKept ==
    ASSUME NEW n, Whole(n, Orig), dir'[n] = dir[n], data'[dir[n]] = data[dir[n]], first' = first
    PROVE  Whole(n, Orig)'
BY DEF Whole, Orig

\* At first the target is complete and nobody is inside renameSave.
LEMMA SaveInit == Init => SaveInv
<1> SUFFICES ASSUME Init PROVE SaveInv
  OBVIOUS
<1>1. /\ dir = [n \in Names |-> IF n = Target THEN 1 ELSE NoFile] /\ data = <<Orig>>
      /\ spc = [s \in Savers |-> "out"] /\ fd = [s \in Savers |-> NoFile]
      /\ faults = 0 /\ fp = NoFile
  BY DEF Init, FileInit, Orig
<1>2. Len(data) = 1 /\ DOMAIN data = 1..1 /\ data[1] = Orig
  BY <1>1
<1>3. FileTypes
  BY <1>1, <1>2 DEF FileTypes, Numbers
<1>4. NamesApart
  BY <1>1 DEF NamesApart
<1>5. TemporaryThere
  BY <1>1 DEF TemporaryThere
<1>6. dir[Target] = 1 /\ 1 # NoFile
  BY <1>1, NamesOf
<1>7. Whole(Target, Orig)
  BY <1>2, <1>6 DEF Whole
<1>8. CompleteOrTorn
  BY <1>1, <1>7 DEF CompleteOrTorn
<1>9. GoneOnlyInSave
  BY <1>6 DEF GoneOnlyInSave
<1>10. OneFaultLosesNothing
  BY <1>7, NamesOf DEF OneFaultLosesNothing, Orig
<1> QED
  BY <1>3, <1>4, <1>5, <1>8, <1>9, <1>10 DEF SaveInv

\* open: the temporary file is new or emptied, and nobody else's.
LEMMA OpenKeeps ==
    ASSUME OwnNames, SaveInv, NEW s \in Savers, Open(s, {fp}), fp' = fp, first' = first
    PROVE  SaveInv'
<1> DEFINE new == CHOOSE f \in 1..Len(data) + 1 : f \notin InUse({fp})
           f == IF dir[Temporary[s]] = NoFile THEN new ELSE dir[Temporary[s]]
           m == Len(data)
<1>1. /\ spc[s] = "out"
      /\ dir' = [dir EXCEPT ![Temporary[s]] = f]
      /\ data' = [i \in DOMAIN data \cup {f} |-> IF i = f THEN <<>> ELSE data[i]]
      /\ fd' = [fd EXCEPT ![s] = f] /\ spc' = [spc EXCEPT ![s] = "write"]
      /\ faults' = faults /\ torn' = torn
  BY DEF Open
<1>2. /\ m \in Nat /\ DOMAIN data = 1..m /\ fp \in 1..m \cup {NoFile}
      /\ dir \in [Names -> 1..m \cup {NoFile}] /\ fd \in [Savers -> 1..m \cup {NoFile}]
      /\ spc \in [Savers -> {"out", "write", "unlink", "rename"}] /\ faults \in Nat
  BY DEF SaveInv, FileTypes, Numbers
<1>3. /\ Target \in Names /\ NoFile \notin Nat /\ Temporary[s] \in Names /\ Temporary[s] # Target
      /\ \A t \in Savers : Temporary[t] \in Names
  BY NamesOf
<1>4. InUse({fp}) \subseteq 1..m /\ \A n \in Names : dir[n] # NoFile => dir[n] \in InUse({fp})
  BY <1>2 DEF InUse, Range
<1>5. new \in 1..m + 1 /\ new \notin InUse({fp})
  <2>1. m + 1 \in 1..m + 1 /\ m + 1 \notin 1..m
    BY <1>2
  <2>2. m + 1 \notin InUse({fp})
    BY <1>4, <2>1
  <2>3. \E i \in 1..m + 1 : i \notin InUse({fp})
    BY <2>1, <2>2
  <2> QED
    BY <2>3
<1> HIDE DEF new
<1>6. /\ f \in 1..m + 1 /\ f # NoFile
      /\ \A n \in Names : n # Temporary[s] => dir[n] # f
  <2>1. CASE dir[Temporary[s]] = NoFile
    <3>1. f = new
      BY <2>1
    <3>2. new # NoFile
      BY <1>2, <1>3, <1>5
    <3> HIDE DEF f
    <3>3. \A n \in Names : dir[n] # new
      BY <1>4, <1>5, <3>2
    <3> QED
      BY <1>5, <3>1, <3>2, <3>3
  <2>2. CASE dir[Temporary[s]] # NoFile
    <3>1. f = dir[Temporary[s]]
      BY <2>2
    <3>2. f \in 1..m
      BY <1>2, <1>3, <2>2, <3>1
    <3>3. f \in 1..m + 1
      BY <1>2, <3>2
    <3> HIDE DEF f
    <3> QED
      BY <1>3, <2>2, <3>1, <3>3 DEF SaveInv, NamesApart
  <2> QED
    BY <2>1, <2>2
<1> HIDE DEF f
<1> DEFINE k == IF f = m + 1 THEN m + 1 ELSE m
<1>7. k \in Nat /\ 1..m \cup {f} = 1..k /\ 1..m \subseteq 1..k /\ f \in 1..k
  BY <1>2, <1>6
<1> HIDE DEF k
<1>8. data' = [i \in 1..k |-> data'[i]] /\ DOMAIN data' = 1..k
  BY <1>1, <1>2, <1>7
<1>9. Len(data') = k
  BY <1>7, <1>8, LengthOf
<1>10. /\ data'[f] = <<>>
       /\ \A i \in 1..m : i # f => data'[i] = data[i]
  BY <1>1, <1>2, <1>7
<1>11. /\ dir'[Temporary[s]] = f
       /\ \A n \in Names : n # Temporary[s] => dir'[n] = dir[n]
  BY <1>1, <1>2, <1>3
<1>12. FileTypes'
  BY <1>1, <1>2, <1>7, <1>8, <1>9 DEF FileTypes, Numbers
<1>13. NamesApart'
  BY <1>6, <1>11 DEF SaveInv, NamesApart
<1>14. TemporaryThere'
  <2> SUFFICES ASSUME NEW t \in Savers
               PROVE  /\ spc'[t] # "out" => dir'[Temporary[t]] # NoFile
                      /\ spc'[t] = "write" => fd'[t] = dir'[Temporary[t]] /\ data'[fd'[t]] = <<>>
    BY DEF TemporaryThere
  <2>1. CASE t = s
    BY <1>1, <1>2, <1>6, <1>10, <1>11, <2>1
  <2>2. CASE t # s
    <3>1. /\ Temporary[t] # Temporary[s] /\ dir'[Temporary[t]] = dir[Temporary[t]]
          /\ dir[Temporary[t]] # f
      BY <1>3, <1>6, <1>11, <2>2 DEF OwnNames
    <3>2. spc'[t] = spc[t] /\ fd'[t] = fd[t]
      BY <1>1, <1>2, <2>2
    <3>3. fd[t] \in 1..m /\ fd[t] # f => data'[fd[t]] = data[fd[t]]
      BY <1>10
    <3>4. dir[Temporary[t]] # NoFile => dir[Temporary[t]] \in 1..m
      BY <1>2, <1>3
    <3> QED
      BY <3>1, <3>2, <3>3, <3>4 DEF SaveInv, TemporaryThere
  <2> QED
    BY <2>1, <2>2
<1>15. ASSUME NEW n \in Names, n # Temporary[s], Whole(n, Orig)
       PROVE  Whole(n, Orig)'
  <2>1. dir[n] \in 1..m /\ dir[n] # f
    BY <1>2, <1>6, <1>15 DEF Whole
  <2> QED
    BY <1>10, <1>11, <1>15, <2>1, WholeKept
<1>16. CompleteOrTorn'
  <2> SUFFICES ASSUME ~torn PROVE CompleteOrTorn'
    BY <1>1 DEF CompleteOrTorn
  <2>1. dir'[Target] # NoFile => Whole(Target, Orig)'
    BY <1>3, <1>11, <1>15 DEF SaveInv, CompleteOrTorn
  <2>2. ASSUME NEW t \in Savers, spc'[t] \in {"unlink", "rename"}
        PROVE  Whole(Temporary[t], Orig)'
    <3>1. t # s /\ spc[t] = spc'[t]
      BY <1>1, <1>2, <2>2
    <3>2. Temporary[t] # Temporary[s] /\ Whole(Temporary[t], Orig)
      BY <2>2, <3>1 DEF OwnNames, SaveInv, CompleteOrTorn
    <3> QED
      BY <1>3, <1>15, <3>2
  <2> QED
    BY <2>1, <2>2 DEF CompleteOrTorn
<1>17. GoneOnlyInSave'
  <2>1. \A t \in Savers : spc[t] = "rename" => spc'[t] = "rename"
    BY <1>1, <1>2
  <2> QED
    BY <1>1, <1>3, <1>11, <2>1 DEF SaveInv, GoneOnlyInSave
<1>18. OneFaultLosesNothing'
  BY <1>1, <1>2 DEF OneFaultLosesNothing
<1> QED
  BY <1>12, <1>13, <1>14, <1>16, <1>17, <1>18 DEF SaveInv

\* write: the temporary file becomes complete, or the write is torn.
LEMMA WriteKeeps ==
    ASSUME OwnNames, SaveInv, NEW s \in Savers, NEW c \in Contents, Write(s, c),
           fp' = fp, first' = first
    PROVE  SaveInv'
<1> DEFINE f == fd[s]
           m == Len(data)
<1>1. PICK n \in 1..Len(c) :
          /\ data' = [data EXCEPT ![fd[s]] = SubSeq(c, 1, n) \o SubSeq(@, n + 1, Len(@))]
          /\ IF n = Len(c) THEN UNCHANGED <<faults, torn>> ELSE Fault /\ torn' = TRUE
  BY DEF Write
<1>2. /\ spc[s] = "write" /\ dir' = dir /\ fd' = [fd EXCEPT ![s] = NoFile]
      /\ spc' = [spc EXCEPT ![s] = "unlink"]
  BY DEF Write
<1>3. /\ m \in Nat /\ DOMAIN data = 1..m /\ fp \in 1..m \cup {NoFile}
      /\ dir \in [Names -> 1..m \cup {NoFile}] /\ fd \in [Savers -> 1..m \cup {NoFile}]
      /\ spc \in [Savers -> {"out", "write", "unlink", "rename"}] /\ faults \in Nat
  BY DEF SaveInv, FileTypes, Numbers
<1>4. /\ Target \in Names /\ NoFile \notin Nat /\ Temporary[s] \in Names /\ Temporary[s] # Target
      /\ \A t \in Savers : Temporary[t] \in Names
  BY NamesOf
<1>5. f = dir[Temporary[s]] /\ f # NoFile /\ data[f] = <<>>
  BY <1>2 DEF SaveInv, TemporaryThere
<1>6. f \in 1..m
  BY <1>3, <1>5
<1> HIDE DEF m, f
<1>7. /\ DOMAIN data' = 1..m /\ data' = [i \in 1..m |-> data'[i]]
      /\ \A i \in 1..m : i # f => data'[i] = data[i]
  BY <1>1, <1>3 DEF f
<1>8. Len(data') = m
  BY <1>3, <1>7, LengthOf
<1>9. FileTypes'
  <2>1. faults' \in Nat
    BY <1>1, <1>3 DEF Fault
  <2>2. fd' \in [Savers -> 1..m \cup {NoFile}]
    BY <1>2, <1>3
  <2>3. spc' \in [Savers -> {"out", "write", "unlink", "rename"}]
    BY <1>2, <1>3
  <2> QED
    BY <1>2, <1>3, <1>7, <1>8, <2>1, <2>2, <2>3 DEF FileTypes, Numbers
<1>10. NamesApart'
  BY <1>2 DEF SaveInv, NamesApart
<1>11. \A t \in Savers : t # s => /\ spc'[t] = spc[t] /\ fd'[t] = fd[t]
                                 /\ Temporary[t] # Temporary[s]
  BY <1>2, <1>3 DEF OwnNames
<1>12. \A n2 \in Names : n2 # Temporary[s] /\ dir[n2] # NoFile => dir[n2] \in 1..m /\ dir[n2] # f
  BY <1>3, <1>4, <1>5 DEF SaveInv, NamesApart
<1>13. TemporaryThere'
  <2> SUFFICES ASSUME NEW t \in Savers
               PROVE  /\ spc'[t] # "out" => dir'[Temporary[t]] # NoFile
                      /\ spc'[t] = "write" => fd'[t] = dir'[Temporary[t]] /\ data'[fd'[t]] = <<>>
    BY DEF TemporaryThere
  <2>1. CASE t = s
    BY <1>2, <1>3, <1>5, <2>1
  <2>2. CASE t # s
    BY <1>2, <1>4, <1>7, <1>11, <1>12, <2>2 DEF SaveInv, TemporaryThere
  <2> QED
    BY <2>1, <2>2
<1>14. ASSUME NEW n2 \in Names, n2 # Temporary[s], Whole(n2, Orig)
       PROVE  Whole(n2, Orig)'
  <2>1. dir[n2] \in 1..m /\ dir[n2] # f
    BY <1>12, <1>14 DEF Whole
  <2> QED
    BY <1>2, <1>7, <1>14, <2>1, WholeKept
<1>15. ASSUME ~torn'
       PROVE  /\ ~torn /\ faults' = faults /\ Whole(Temporary[s], Orig)'
  <2>1. n = Len(c) /\ torn' = torn /\ faults' = faults
    BY <1>1, <1>15
  <2>2. c \in Seq(STRING)
    BY FileAssumption DEF FileAssumption
  <2>3. data'[f] = SubSeq(c, 1, n) \o SubSeq(<<>>, n + 1, Len(<<>>))
    BY <1>1, <1>3, <1>5, <1>6 DEF f
  <2>4. SubSeq(c, 1, n) = c
    <3>1. Len(c) \in Nat /\ \A i \in 1..Len(c) : c[i] \in STRING
      BY <2>2
    <3>2. 1 <= n
      BY <1>1, <3>1
    <3>3. /\ SubSeq(c, 1, n) \in Seq(STRING)
          /\ Len(SubSeq(c, 1, n)) = IF 1 <= n THEN n - 1 + 1 ELSE 0
          /\ \A i \in 1..n - 1 + 1 : SubSeq(c, 1, n)[i] = c[1 + i - 1]
      BY <2>1, <3>1, SubSeqProperties
    <3>4. n - 1 + 1 = Len(c) /\ \A i \in 1..Len(c) : 1 + i - 1 = i
      BY <2>1, <3>1
    <3>5. Len(SubSeq(c, 1, n)) = Len(c) /\ \A i \in 1..Len(c) : SubSeq(c, 1, n)[i] = c[i]
      BY <3>2, <3>3, <3>4
    <3> QED
      BY <2>2, <3>3, <3>5, SeqEqual
  <2>5. SubSeq(<<>>, n + 1, Len(<<>>)) = <<>>
    <3>1. n \in Nat /\ ~(n + 1 <= Len(<<>>))
      BY <1>1, <2>2
    <3> QED
      BY <3>1
  <2>6. c \o <<>> = c
    BY <2>2, ConcatEmptySeq
  <2>7. data'[f] = c
    BY <2>3, <2>4, <2>5, <2>6
  <2>8. Whole(Temporary[s], Orig)'
    BY <1>2, <1>5, <2>7 DEF Whole
  <2> QED
    BY <1>15, <2>1, <2>8
<1>16. CompleteOrTorn'
  <2> SUFFICES ASSUME ~torn' PROVE CompleteOrTorn'
    BY DEF CompleteOrTorn
  <2>1. ~torn /\ Whole(Temporary[s], Orig)'
    BY <1>15
  <2>2. dir'[Target] # NoFile => Whole(Target, Orig)'
    BY <1>2, <1>4, <1>14, <2>1 DEF SaveInv, CompleteOrTorn
  <2>3. ASSUME NEW t \in Savers, spc'[t] \in {"unlink", "rename"}, t # s
        PROVE  Whole(Temporary[t], Orig)'
    BY <1>4, <1>11, <1>14, <2>1, <2>3 DEF SaveInv, CompleteOrTorn
  <2> QED
    BY <2>1, <2>2, <2>3 DEF CompleteOrTorn
<1>17. GoneOnlyInSave'
  <2>1. \A t \in Savers : spc[t] = "rename" => spc'[t] = "rename"
    BY <1>2, <1>3
  <2>2. faults > 0 => faults' > 0
    BY <1>1, <1>3 DEF Fault
  <2> QED
    BY <1>2, <2>1, <2>2 DEF SaveInv, GoneOnlyInSave
<1>18. OneFaultLosesNothing'
  BY <1>4, <1>15 DEF OneFaultLosesNothing, Orig
<1> QED
  BY <1>9, <1>10, <1>13, <1>16, <1>17, <1>18 DEF SaveInv

\* A failed write or rename, or a crash: what there was is still there.
LEMMA GiveUpKeeps ==
    ASSUME SaveInv, NEW s \in Savers, spc[s] # "out",
           spc' = [spc EXCEPT ![s] = "out"], fd' = fd \/ fd' = [fd EXCEPT ![s] = NoFile],
           faults' = faults + 1, UNCHANGED <<dir, data, torn, fp, first>>
    PROVE  SaveInv'
<1>1. FileTypes'
  <2>1. fd' \in [Savers -> Numbers \cup {NoFile}]
    BY DEF SaveInv, FileTypes
  <2>2. spc' \in [Savers -> {"out", "write", "unlink", "rename"}]
    BY DEF SaveInv, FileTypes
  <2> QED
    BY <2>1, <2>2 DEF SaveInv, FileTypes, Numbers
<1>2. /\ \A t \in Savers : t # s => spc'[t] = spc[t] /\ fd'[t] = fd[t]
      /\ spc'[s] = "out"
  BY DEF SaveInv, FileTypes
<1>3. NamesApart'
  BY DEF SaveInv, NamesApart
<1>4. TemporaryThere'
  BY <1>2 DEF SaveInv, TemporaryThere
<1>5. ASSUME NEW n, Whole(n, Orig)
      PROVE  Whole(n, Orig)'
  BY <1>5 DEF Whole, Orig
<1>6. CompleteOrTorn'
  <2> SUFFICES ASSUME ~torn PROVE CompleteOrTorn'
    BY DEF CompleteOrTorn
  <2> QED
    BY <1>2, <1>5 DEF SaveInv, CompleteOrTorn
<1>7. faults \in Nat
  BY DEF SaveInv, FileTypes
<1>8. GoneOnlyInSave'
  BY <1>7 DEF GoneOnlyInSave
<1>9. OneFaultLosesNothing'
  <2> SUFFICES ASSUME faults' <= 1, ~torn
               PROVE  \E n \in Names : Whole(n, Orig)'
    BY DEF OneFaultLosesNothing, Orig
  <2>1. faults = 0
    BY <1>7
  <2>2. CASE dir[Target] # NoFile
    BY <1>5, <2>2, NamesOf DEF SaveInv, CompleteOrTorn
  <2>3. CASE dir[Target] = NoFile
    <3>1. PICK t \in Savers : spc[t] = "rename"
      BY <2>1, <2>3 DEF SaveInv, GoneOnlyInSave
    <3>2. Whole(Temporary[t], Orig)
      BY <3>1 DEF SaveInv, CompleteOrTorn
    <3> QED
      BY <1>5, <3>2, NamesOf
  <2> QED
    BY <2>2, <2>3
<1> QED
  BY <1>1, <1>3, <1>4, <1>6, <1>8, <1>9 DEF SaveInv

\* unlink: the target goes, and the saver's own file is complete.
LEMMA UnlinkKeeps ==
    ASSUME SaveInv, NEW s \in Savers, Unlink(s), fp' = fp, first' = first
    PROVE  SaveInv'
<1>1. /\ spc[s] = "unlink" /\ dir' = [dir EXCEPT ![Target] = NoFile]
      /\ spc' = [spc EXCEPT ![s] = "rename"] /\ data' = data /\ fd' = fd
      /\ faults' = faults /\ torn' = torn
  BY DEF Unlink
<1>2. /\ Target \in Names /\ \A t \in Savers : Temporary[t] \in Names /\ Temporary[t] # Target
  BY NamesOf
<1>3. /\ dir'[Target] = NoFile /\ \A n \in Names : n # Target => dir'[n] = dir[n]
      /\ spc'[s] = "rename" /\ \A t \in Savers : t # s => spc'[t] = spc[t]
  BY <1>1, <1>2 DEF SaveInv, FileTypes
<1>4. FileTypes'
  BY <1>1 DEF SaveInv, FileTypes, Numbers
<1>5. NamesApart'
  BY <1>3 DEF SaveInv, NamesApart
<1>6. TemporaryThere'
  BY <1>1, <1>2, <1>3 DEF SaveInv, TemporaryThere
<1>7. ASSUME NEW t \in Savers, Whole(Temporary[t], Orig)
      PROVE  Whole(Temporary[t], Orig)'
  BY <1>1, <1>2, <1>3, <1>7, WholeKept
<1>8. CompleteOrTorn'
  <2> SUFFICES ASSUME ~torn PROVE CompleteOrTorn'
    BY <1>1 DEF CompleteOrTorn
  <2> QED
    BY <1>1, <1>3, <1>7 DEF SaveInv, CompleteOrTorn
<1>9. GoneOnlyInSave'
  BY <1>3 DEF GoneOnlyInSave
<1>10. OneFaultLosesNothing'
  <2> SUFFICES ASSUME ~torn PROVE \E n \in Names : Whole(n, Orig)'
    BY <1>1 DEF OneFaultLosesNothing, Orig
  <2> QED
    BY <1>1, <1>2, <1>7 DEF SaveInv, CompleteOrTorn
<1> QED
  BY <1>4, <1>5, <1>6, <1>8, <1>9, <1>10 DEF SaveInv

\* rename: the complete file takes the target's name.
LEMMA RenameKeeps ==
    ASSUME OwnNames, SaveInv, NEW s \in Savers, Rename(s), fp' = fp, first' = first
    PROVE  SaveInv'
<1>1. /\ spc[s] = "rename" /\ spc' = [spc EXCEPT ![s] = "out"] /\ data' = data /\ fd' = fd
      /\ faults' = faults /\ torn' = torn
  BY DEF Rename
<1>2. dir[Temporary[s]] # NoFile
  BY <1>1 DEF SaveInv, TemporaryThere
<1>3. dir' = [dir EXCEPT ![Target] = dir[Temporary[s]], ![Temporary[s]] = NoFile]
  BY <1>2 DEF Rename
<1>4. /\ Target \in Names /\ \A t \in Savers : Temporary[t] \in Names /\ Temporary[t] # Target
  BY NamesOf
<1>5. DOMAIN dir = Names
  BY DEF SaveInv, FileTypes
<1>6. /\ dir'[Target] = dir[Temporary[s]] /\ dir'[Temporary[s]] = NoFile
      /\ \A n \in Names : n # Target /\ n # Temporary[s] => dir'[n] = dir[n]
  BY <1>3, <1>4, <1>5
<1>7. /\ spc'[s] = "out"
      /\ \A t \in Savers : t # s => spc'[t] = spc[t] /\ Temporary[t] # Temporary[s]
  BY <1>1 DEF SaveInv, FileTypes, OwnNames
<1>8. FileTypes'
  <2>1. dir' \in [Names -> Numbers \cup {NoFile}]
    BY <1>3, <1>4 DEF SaveInv, FileTypes
  <2> QED
    BY <1>1, <2>1 DEF SaveInv, FileTypes, Numbers
<1>9. NamesApart'
  BY <1>4, <1>6 DEF SaveInv, NamesApart
<1>10. TemporaryThere'
  BY <1>1, <1>4, <1>6, <1>7 DEF SaveInv, TemporaryThere
<1>11. ASSUME ~torn PROVE Whole(Target, Orig)'
  <2>1. Whole(Temporary[s], Orig)
    BY <1>1, <1>11 DEF SaveInv, CompleteOrTorn
  <2> QED
    BY <1>1, <1>6, <2>1 DEF Whole, Orig
<1>12. CompleteOrTorn'
  <2> SUFFICES ASSUME ~torn PROVE CompleteOrTorn'
    BY <1>1 DEF CompleteOrTorn
  <2>1. ASSUME NEW t \in Savers, spc'[t] \in {"unlink", "rename"}
        PROVE  Whole(Temporary[t], Orig)'
    <3>1. t # s /\ spc[t] \in {"unlink", "rename"}
      BY <1>7, <2>1
    <3>2. Whole(Temporary[t], Orig) /\ dir'[Temporary[t]] = dir[Temporary[t]]
      BY <1>4, <1>6, <1>7, <3>1 DEF SaveInv, CompleteOrTorn
    <3> QED
      BY <1>1, <3>2, WholeKept
  <2> QED
    BY <1>11, <2>1 DEF CompleteOrTorn
<1>13. GoneOnlyInSave'
  BY <1>2, <1>6 DEF GoneOnlyInSave
<1>14. OneFaultLosesNothing'
  BY <1>1, <1>4, <1>11 DEF OneFaultLosesNothing, Orig
<1> QED
  BY <1>8, <1>9, <1>10, <1>12, <1>13, <1>14 DEF SaveInv

\* The reader changes no file.
LEMMA ReaderKeeps ==
    ASSUME SaveInv, UNCHANGED <<fileVars, first>>, fp' \in Numbers \cup {NoFile}
    PROVE  SaveInv'
<1>1. /\ dir' = dir /\ data' = data /\ spc' = spc /\ fd' = fd /\ faults' = faults /\ torn' = torn
      /\ first' = first
  BY DEF fileVars
<1>2. FileTypes'
  BY <1>1 DEF SaveInv, FileTypes, Numbers
<1>3. NamesApart' /\ TemporaryThere' /\ GoneOnlyInSave'
  BY <1>1 DEF SaveInv, NamesApart, TemporaryThere, GoneOnlyInSave
<1>4. \A n : Whole(n, Orig)' <=> Whole(n, Orig)
  BY <1>1 DEF Whole, Orig
<1>5. CompleteOrTorn'
  BY <1>1, <1>4 DEF SaveInv, CompleteOrTorn
<1>6. OneFaultLosesNothing'
  <2>1. OneFaultLosesNothing
    BY DEF SaveInv
  <2> QED
    BY <1>1, <1>4, <2>1 DEF OneFaultLosesNothing, Orig
<1> QED
  BY <1>2, <1>3, <1>5, <1>6 DEF SaveInv

\* The inductive invariant holds in every behaviour.
LEMMA SaveAlways ==
    ASSUME OwnNames
    PROVE  Spec => []SaveInv
<1>1. SaveInv /\ [Next]_vars => SaveInv'
  <2> SUFFICES ASSUME SaveInv, [Next]_vars PROVE SaveInv'
    OBVIOUS
  <2>1. ASSUME NEW s \in Savers, Save(s, {fp}), UNCHANGED <<confVars, fp, parses, before, first>>
        PROVE  SaveInv'
    <3>1. fp' = fp /\ first' = first
      BY <2>1
    <3>2. ASSUME WriteFails(s) \/ RenameFails(s) \/ Crash(s) PROVE SaveInv'
      BY <3>1, <3>2, GiveUpKeeps DEF WriteFails, RenameFails, Crash, Fault
    <3> QED
      BY <2>1, <3>1, <3>2, OpenKeeps, WriteKeeps, UnlinkKeeps, RenameKeeps DEF Save
  <2>2. CASE ParseCall
    <3>1. fp' = dir[Target] /\ UNCHANGED <<fileVars, first>>
      BY <2>2 DEF ParseCall
    <3>2. dir[Target] \in Numbers \cup {NoFile}
      BY NamesOf DEF SaveInv, FileTypes
    <3> QED
      BY <3>1, <3>2, ReaderKeeps
  <2>3. CASE Parse
    <3>1. (fp' = NoFile \/ fp' = fp) /\ UNCHANGED <<fileVars, first>>
      BY <2>3 DEF Parse
    <3>2. fp \in Numbers \cup {NoFile}
      BY DEF SaveInv, FileTypes
    <3> QED
      BY <3>1, <3>2, ReaderKeeps
  <2>4. CASE UNCHANGED vars
    <3>1. fp' = fp /\ UNCHANGED <<fileVars, first>>
      BY <2>4 DEF vars
    <3>2. fp \in Numbers \cup {NoFile}
      BY DEF SaveInv, FileTypes
    <3> QED
      BY <3>1, <3>2, ReaderKeeps
  <2> QED
    BY <2>1, <2>2, <2>3, <2>4 DEF Next
<1> QED
  BY SaveInit, <1>1, PTL DEF Spec

\* The name of the configuration file is gone only between unlink and rename of
\* a renameSave, or after one has failed or crashed there.
THEOREM FileGone ==
    ASSUME OwnNames
    PROVE  Spec => []GoneOnlyInSave
<1>1. SaveInv => GoneOnlyInSave
  BY DEF SaveInv
<1> QED
  BY <1>1, SaveAlways, PTL

\* One crash, failed write or failed rename leaves a complete version, or a
\* renameSave that is about to write one.
THEOREM FileKept ==
    ASSUME OwnNames
    PROVE  Spec => []OneFaultLosesNothing
<1>1. SaveInv => OneFaultLosesNothing
  BY DEF SaveInv
<1> QED
  BY <1>1, SaveAlways, PTL

-----------------------------------------------------------------------------
(* The reader: what it has open, and what one call of parse does with it.  *)

\* The files hold characters.
TextTypes == \A i \in Numbers : data[i] \in Seq(STRING)

\* No saver's name stands for the file that parse has open.
ReaderApart == fp # NoFile => \A s \in Savers : dir[Temporary[s]] # fp

\* The file that parse has open is a complete version: one of those that were
\* saved, or the first one; unless a write was short.
ReadsOneVersion ==
    fp # NoFile /\ ~torn => \E f \in Updates \cup {first} : data[fp] = Text(f)

\* The place of the parser in its text, and the number of the line there.
ParseInside ==
    /\ lineno \in Nat
    /\ rpc = "parse" <=> fp # NoFile
    /\ rpc = "parse" => offset \in 0..Len(data[fp]) /\ lineno \in 0..offset

\* What a parse has returned is -1, 0 or the number of the line it has read last.
ResultIsLine == rpc = "returned" => result \in {-1, 0, lineno}

\* A key of m_values has a value; get looks at the last one without a test.
KeysHaveValues ==
    \A k \in DOMAIN m_values :
        /\ Len(m_values[k]) \in Nat \ {0}
        /\ m_values[k] = [i \in 1..Len(m_values[k]) |-> m_values[k][i]]

\* Another parse into the same Conf keeps the values there were, in front.
ValuesKept ==
    \A k \in DOMAIN before :
        /\ k \in DOMAIN m_values
        /\ Len(before[k]) \in 1..Len(m_values[k])
        /\ \A i \in 1..Len(before[k]) : m_values[k][i] = before[k][i]

ReadInv ==
    /\ TextTypes /\ ReaderApart /\ ReadsOneVersion
    /\ ParseInside /\ ResultIsLine /\ KeysHaveValues /\ ValuesKept

\* The open file stays as it is to the end of the parse.
OpenFileStays == [][fp # NoFile /\ fp' # NoFile => fp' = fp /\ data'[fp] = data[fp]]_vars

\* Each round of the loop takes a character at least, and none behind the end;
\* what it takes and a NUL fit into buf.
RoundsAdvance ==
    [][lineno' > lineno => /\ offset < offset' /\ offset' <= Len(data[fp])
                           /\ offset' - offset < MAXSIZE]_vars

\* A nonempty set of natural numbers has a least one.
LEMMA MinOf ==
    ASSUME NEW S \in SUBSET Nat, S # {}
    PROVE  Min(S) \in S /\ \A y \in S : Min(S) <= y
<1>1. \E x \in S : \A y \in S : ~(<<y, x>> \in OpToRel(<, Nat))
  BY NatLessThanWellFounded, WFMin
<1>2. PICK x \in S : \A y \in S : ~(<<y, x>> \in OpToRel(<, Nat))
  BY <1>1
<1>3. \A y \in S : x <= y
  <2> SUFFICES ASSUME NEW y \in S PROVE x <= y
    OBVIOUS
  <2>1. x \in Nat /\ y \in Nat /\ ~(y < x)
    BY <1>2 DEF OpToRel
  <2> QED
    BY <2>1
<1> QED
  BY <1>3 DEF Min

\* What fgets takes: one character at least, none behind the end of the file,
\* and fewer than buf has room for.
LEMMA NextLineTakes ==
    ASSUME NEW text \in Seq(STRING), offset \in 0..Len(text), offset < Len(text)
    PROVE  Len(NextLine(text)) \in 1..Len(text) - offset /\ Len(NextLine(text)) < MAXSIZE
<1> DEFINE rest == SubSeq(text, offset + 1, Len(text))
           ends == {i \in DOMAIN rest : rest[i] = "nl"} \cup {Len(rest), MAXSIZE - 1}
           n == Min(ends)
<1>1. /\ Len(text) \in Nat /\ offset \in Nat /\ MAXSIZE \in Nat
      /\ MAXSIZE - 1 \in Nat \ {0}
  BY ConfAssumption DEF ConfAssumption
<1>2. rest \in Seq(STRING) /\ Len(rest) = Len(text) - offset
  <2>1. \A i \in offset + 1..Len(text) : text[i] \in STRING
    BY <1>1
  <2>2. /\ rest \in Seq(STRING)
        /\ Len(rest) = IF offset + 1 <= Len(text) THEN Len(text) - (offset + 1) + 1 ELSE 0
    BY <1>1, <2>1, SubSeqProperties
  <2> QED
    BY <1>1, <2>2
<1>3. DOMAIN rest = 1..Len(rest) /\ Len(rest) \in Nat \ {0}
  BY <1>1, <1>2
<1> HIDE DEF rest
<1>4. ends \subseteq Nat \ {0} /\ Len(rest) \in ends /\ MAXSIZE - 1 \in ends
  <2>1. {i \in DOMAIN rest : rest[i] = "nl"} \subseteq Nat \ {0}
    BY <1>3
  <2>2. {Len(rest), MAXSIZE - 1} \subseteq Nat \ {0}
    BY <1>1, <1>3
  <2> QED
    BY <2>1, <2>2
<1> HIDE DEF ends
<1>5. n \in ends /\ n <= Len(rest) /\ n <= MAXSIZE - 1
  <2>1. ends \in SUBSET Nat /\ ends # {}
    BY <1>4
  <2> QED
    BY <1>4, <2>1, MinOf
<1> HIDE DEF n
<1>6. n \in 1..Len(rest)
  <2>1. n \in Nat \ {0}
    BY <1>4, <1>5
  <2> QED
    BY <1>3, <1>5, <2>1
<1>7. Len(SubSeq(rest, 1, n)) = n
  <2>1. \A i \in 1..n : rest[i] \in STRING
    BY <1>2, <1>3, <1>6
  <2>2. Len(SubSeq(rest, 1, n)) = IF 1 <= n THEN n - 1 + 1 ELSE 0
    BY <1>6, <2>1, SubSeqProperties
  <2> QED
    BY <1>6, <2>2
<1>8. NextLine(text) = SubSeq(rest, 1, n)
  BY DEF NextLine, rest, ends, n
<1>9. n \in 1..Len(text) - offset /\ n < MAXSIZE
  BY <1>1, <1>2, <1>5, <1>6
<1> QED
  BY <1>7, <1>8, <1>9

\* push_back: the list of one key gets one more value.
LEMMA PushBackKeeps ==
    ASSUME KeysHaveValues, ValuesKept, before' = before,
           NEW sec, NEW name, NEW value, PushBack(sec, name, value)
    PROVE  KeysHaveValues' /\ ValuesKept'
<1> DEFINE k == makeKey(sec, name)
           old == getStrings(sec, name)
           V == {old[i] : i \in 1..Len(old)} \cup {value}
<1>1. m_values' = [j \in DOMAIN m_values \cup {k} |->
                      IF j = k THEN old \o <<value>> ELSE m_values[j]]
  BY DEF PushBack
<1>2. old = IF k \in DOMAIN m_values THEN m_values[k] ELSE <<>>
  BY DEF getStrings
<1> HIDE DEF k
<1>3. Len(old) \in Nat /\ old = [i \in 1..Len(old) |-> old[i]]
  BY <1>2 DEF KeysHaveValues
<1> HIDE DEF old
<1>4. old \in Seq(V) /\ <<value>> \in Seq(V)
  <2>1. old \in [1..Len(old) -> V]
    BY <1>3
  <2> HIDE DEF V
  <2>2. value \in V
    BY DEF V
  <2> QED
    BY <1>3, <2>1, <2>2
<1> HIDE DEF V
<1>5. /\ old \o <<value>> \in Seq(V) /\ Len(old \o <<value>>) = Len(old) + 1
      /\ \A i \in 1..Len(old) : (old \o <<value>>)[i] = old[i]
  BY <1>3, <1>4
<1> DEFINE new == old \o <<value>>
<1>6. Len(new) \in Nat \ {0} /\ new = [i \in 1..Len(new) |-> new[i]]
  BY <1>3, <1>5
<1> HIDE DEF new
<1>7. Len(new) = Len(old) + 1 /\ \A i \in 1..Len(old) : new[i] = old[i]
  BY <1>5 DEF new
<1>8. KeysHaveValues'
  <2> SUFFICES ASSUME NEW j \in DOMAIN m_values'
               PROVE  /\ Len(m_values'[j]) \in Nat \ {0}
                      /\ m_values'[j] = [i \in 1..Len(m_values'[j]) |-> m_values'[j][i]]
    BY DEF KeysHaveValues
  <2>1. CASE j = k
    <3>1. m_values'[j] = new
      BY <1>1, <2>1 DEF new
    <3> QED
      BY <1>6, <3>1
  <2>2. CASE j # k
    <3>1. j \in DOMAIN m_values /\ m_values'[j] = m_values[j]
      BY <1>1, <2>2
    <3>2. /\ Len(m_values[j]) \in Nat \ {0}
          /\ m_values[j] = [i \in 1..Len(m_values[j]) |-> m_values[j][i]]
      BY <3>1 DEF KeysHaveValues
    <3> QED
      BY <3>1, <3>2
  <2> QED
    BY <2>1, <2>2
<1>9. ValuesKept'
  <2> SUFFICES ASSUME NEW j \in DOMAIN before
               PROVE  /\ j \in DOMAIN m_values'
                      /\ Len(before[j]) \in 1..Len(m_values'[j])
                      /\ \A i \in 1..Len(before[j]) : m_values'[j][i] = before[j][i]
    BY DEF ValuesKept
  <2>1. /\ j \in DOMAIN m_values /\ Len(before[j]) \in 1..Len(m_values[j])
        /\ \A i \in 1..Len(before[j]) : m_values[j][i] = before[j][i]
    BY DEF ValuesKept
  <2>2. CASE j = k
    <3>1. m_values[j] = old /\ m_values'[j] = new
      BY <1>1, <1>2, <2>1, <2>2 DEF new
    <3>2. Len(before[j]) \in 1..Len(new) /\ \A i \in 1..Len(before[j]) : i \in 1..Len(old)
      BY <1>3, <1>7, <2>1, <3>1
    <3> QED
      BY <1>1, <1>7, <2>1, <3>1, <3>2
  <2>3. CASE j # k
    BY <1>1, <2>1, <2>3
  <2> QED
    BY <2>2, <2>3
<1> QED
  BY <1>8, <1>9

\* A saver leaves the open file alone: its names stand for others.
LEMMA SaverApart ==
    ASSUME OwnNames, SaveInv, TextTypes, ReaderApart, NEW s \in Savers, Save(s, {fp}), fp' = fp
    PROVE  /\ TextTypes' /\ ReaderApart'
           /\ fp # NoFile => data'[fp] = data[fp]
<1> DEFINE m == Len(data)
<1>1. /\ m \in Nat /\ DOMAIN data = 1..m /\ fp \in 1..m \cup {NoFile}
      /\ dir \in [Names -> 1..m \cup {NoFile}] /\ fd \in [Savers -> 1..m \cup {NoFile}]
  BY DEF SaveInv, FileTypes, Numbers
<1>2. /\ Target \in Names /\ NoFile \notin Nat
      /\ \A t \in Savers : Temporary[t] \in Names /\ Temporary[t] # Target
  BY NamesOf
<1>3. \A i \in 1..m : data[i] \in Seq(STRING)
  BY DEF TextTypes, Numbers
<1> HIDE DEF m
<1>4. CASE Open(s, {fp})
  <2> DEFINE new == CHOOSE f \in 1..Len(data) + 1 : f \notin InUse({fp})
             f == IF dir[Temporary[s]] = NoFile THEN new ELSE dir[Temporary[s]]
  <2>1. /\ dir' = [dir EXCEPT ![Temporary[s]] = f]
        /\ data' = [i \in DOMAIN data \cup {f} |-> IF i = f THEN <<>> ELSE data[i]]
    BY <1>4 DEF Open
  <2>2. InUse({fp}) \subseteq 1..m /\ (fp # NoFile => fp \in InUse({fp}))
    BY <1>1 DEF InUse, Range
  <2>3. new \in 1..m + 1 /\ new \notin InUse({fp})
    <3>1. m + 1 \in 1..m + 1 /\ m + 1 \notin 1..m
      BY <1>1
    <3>2. \E i \in 1..m + 1 : i \notin InUse({fp})
      BY <2>2, <3>1
    <3> QED
      BY <3>2 DEF m
  <2> HIDE DEF new
  <2>4. f \in 1..m + 1 /\ (fp # NoFile => f # fp)
    <3>1. CASE dir[Temporary[s]] = NoFile
      BY <2>2, <2>3, <3>1
    <3>2. CASE dir[Temporary[s]] # NoFile
      <4>1. f = dir[Temporary[s]] /\ f \in 1..m
        BY <1>1, <1>2, <3>2
      <4>2. f \in 1..m + 1
        BY <1>1, <4>1
      <4> HIDE DEF f
      <4> QED
        BY <4>1, <4>2 DEF ReaderApart
    <3> QED
      BY <3>1, <3>2
  <2> HIDE DEF f
  <2>5. ReaderApart'
    BY <1>1, <1>2, <1>4, <2>1, <2>4 DEF ReaderApart
  <2>6. fp # NoFile => data'[fp] = data[fp]
    BY <1>1, <2>1, <2>4
  <2>7. TextTypes'
    <3> DEFINE k == IF f = m + 1 THEN m + 1 ELSE m
    <3>1. k \in Nat /\ 1..m \cup {f} = 1..k
      BY <1>1, <2>4
    <3> HIDE DEF k
    <3>2. data' = [i \in 1..k |-> data'[i]]
      BY <1>1, <2>1, <3>1
    <3>3. Len(data') = k
      BY <3>1, <3>2, LengthOf
    <3>4. ASSUME NEW i \in 1..k PROVE data'[i] \in Seq(STRING)
      <4>1. CASE i = f
        <5>1. data'[i] = <<>>
          BY <2>1, <4>1
        <5> QED
          BY <5>1
      <4>2. CASE i # f
        <5>1. i \in 1..m /\ data'[i] = data[i]
          BY <1>1, <2>1, <3>1, <3>4, <4>2
        <5> QED
          BY <1>3, <5>1
      <4> QED
        BY <4>1, <4>2
    <3> QED
      BY <3>3, <3>4 DEF TextTypes, Numbers
  <2> QED
    BY <2>5, <2>6, <2>7
<1>5. ASSUME NEW c \in Contents, Write(s, c)
      PROVE  TextTypes' /\ ReaderApart' /\ (fp # NoFile => data'[fp] = data[fp])
  <2>1. PICK n \in 1..Len(c) :
            data' = [data EXCEPT ![fd[s]] = SubSeq(c, 1, n) \o SubSeq(@, n + 1, Len(@))]
    BY <1>5 DEF Write
  <2>2. dir' = dir /\ fd[s] = dir[Temporary[s]] /\ fd[s] # NoFile /\ data[fd[s]] = <<>>
    BY <1>5 DEF Write, SaveInv, TemporaryThere
  <2>3. fd[s] \in 1..m
    BY <1>1, <2>2
  <2>4. ReaderApart'
    BY <1>4, <2>2 DEF ReaderApart
  <2>5. fp # NoFile => data'[fp] = data[fp]
    BY <1>1, <2>1, <2>2 DEF ReaderApart
  <2>6. SubSeq(c, 1, n) \o SubSeq(<<>>, n + 1, Len(<<>>)) \in Seq(STRING)
    <3>1. c \in Seq(STRING) /\ Len(c) \in Nat
      BY FileAssumption DEF FileAssumption
    <3>2. n \in 1..Len(c) /\ n \in Nat /\ n <= Len(c)
      BY <3>1
    <3>3. \A i \in 1..n : c[i] \in STRING
      BY <3>1, <3>2
    <3>4. SubSeq(c, 1, n) \in Seq(STRING)
      BY <3>2, <3>3, SubSeqProperties
    <3>5. SubSeq(<<>>, n + 1, Len(<<>>)) = <<>>
      <4>1. ~(n + 1 <= Len(<<>>))
        BY <3>2
      <4> QED
        BY <3>2, <4>1
    <3> QED
      BY <3>4, <3>5, ConcatEmptySeq
  <2>7. data' = [i \in 1..m |-> data'[i]] /\ \A i \in 1..m : data'[i] \in Seq(STRING)
    BY <1>1, <1>3, <2>1, <2>2, <2>3, <2>6
  <2>8. Len(data') = m
    BY <1>1, <2>7, LengthOf
  <2>9. TextTypes'
    BY <2>7, <2>8 DEF TextTypes, Numbers
  <2> QED
    BY <2>4, <2>5, <2>9
<1>6. CASE Unlink(s)
  <2>1. dir' = [dir EXCEPT ![Target] = NoFile] /\ data' = data
    BY <1>6 DEF Unlink
  <2> QED
    BY <1>1, <1>2, <2>1 DEF ReaderApart, TextTypes, Numbers
<1>7. CASE Rename(s)
  <2>1. /\ data' = data
        /\ dir' = IF dir[Temporary[s]] = NoFile THEN dir
                  ELSE [dir EXCEPT ![Target] = dir[Temporary[s]], ![Temporary[s]] = NoFile]
    BY <1>7 DEF Rename
  <2>2. \A t \in Savers : dir'[Temporary[t]] \in {dir[Temporary[t]], NoFile}
    BY <1>1, <1>2, <2>1
  <2> QED
    BY <2>1, <2>2 DEF ReaderApart, TextTypes, Numbers
<1>8. CASE WriteFails(s) \/ RenameFails(s) \/ Crash(s)
  <2>1. dir' = dir /\ data' = data
    BY <1>8 DEF WriteFails, RenameFails, Crash
  <2> QED
    BY <2>1 DEF ReaderApart, TextTypes, Numbers
<1> QED
  BY <1>4, <1>5, <1>6, <1>7, <1>8 DEF Save

\* The initial state.
LEMMA ReadInit == Init => ReadInv
<1> SUFFICES ASSUME Init PROVE ReadInv
  OBVIOUS
<1>1. /\ first \in Files /\ data = <<Orig>> /\ fp = NoFile /\ rpc = "out"
      /\ m_values = <<>> /\ before = <<>>
  BY DEF Init, FileInit, ConfInit, Orig
<1>2. TextTypes
  <2>1. Orig \in Seq(STRING)
    BY <1>1, ConfFileAssumption DEF ConfFileAssumption, Orig
  <2>2. Len(data) = 1 /\ data[1] = Orig
    BY <1>1
  <2>3. Numbers = {1}
    BY <2>2 DEF Numbers
  <2> QED
    BY <2>1, <2>2, <2>3 DEF TextTypes
<1>4. lineno = 0
  BY DEF Init, ConfInit
<1>3. DOMAIN m_values = {} /\ DOMAIN before = {}
  BY <1>1
<1> QED
  BY <1>1, <1>2, <1>3, <1>4 DEF ReadInv, ReaderApart, ReadsOneVersion, ParseInside, ResultIsLine,
     KeysHaveValues, ValuesKept

\* A step of a saver.
LEMMA SaverStep ==
    ASSUME OwnNames, SaveInv, ReadInv, NEW s \in Savers, Save(s, {fp}),
           UNCHANGED <<confVars, fp, parses, before, first>>
    PROVE  ReadInv' /\ (fp # NoFile => data'[fp] = data[fp])
<1>1. /\ fp' = fp /\ first' = first /\ before' = before /\ rpc' = rpc /\ offset' = offset
      /\ lineno' = lineno /\ result' = result /\ m_values' = m_values
  BY DEF confVars
<1>2. TextTypes' /\ ReaderApart' /\ (fp # NoFile => data'[fp] = data[fp])
  BY <1>1, SaverApart DEF ReadInv
<1>3. ~torn' => ~torn
  BY DEF Save, Open, Write, WriteFails, Unlink, Rename, RenameFails, Crash
<1>4. ReadsOneVersion'
  BY <1>1, <1>2, <1>3 DEF ReadInv, ReadsOneVersion
<1>5. ParseInside'
  BY <1>1, <1>2 DEF ReadInv, ParseInside
<1> QED
  BY <1>1, <1>2, <1>4, <1>5 DEF ReadInv, ResultIsLine, KeysHaveValues, ValuesKept

\* parse opens the target: a complete version, and no saver's own file.
LEMMA ParseCallStep ==
    ASSUME OwnNames, SaveInv, ReadInv, ParseCall
    PROVE  ReadInv' /\ ~(lineno' > lineno)
<1>1. /\ before' = m_values /\ fp' = dir[Target] /\ first' = first
      /\ data' = data /\ dir' = dir /\ torn' = torn
      /\ IF dir[Target] = NoFile THEN NoFileToParse ELSE StartParse
  BY DEF ParseCall, fileVars
<1>2. m_values' = m_values /\ rpc # "parse"
  BY <1>1 DEF NoFileToParse, StartParse
<1>3. /\ Target \in Names /\ NoFile \notin Nat
      /\ \A t \in Savers : Temporary[t] \in Names /\ Temporary[t] # Target
  BY NamesOf
<1>4. TextTypes'
  BY <1>1 DEF ReadInv, TextTypes, Numbers
<1>5. ReaderApart'
  BY <1>1, <1>3 DEF SaveInv, NamesApart, ReaderApart
<1>6. ReadsOneVersion'
  <2> SUFFICES ASSUME dir[Target] # NoFile, ~torn
               PROVE  \E f \in Updates \cup {first} : data[dir[Target]] = Text(f)
    BY <1>1 DEF ReadsOneVersion
  <2>1. data[dir[Target]] \in Contents \cup {Orig}
    BY DEF SaveInv, CompleteOrTorn, Whole
  <2> QED
    BY <2>1, ConfFileAssumption DEF ConfFileAssumption, Orig
<1>7. KeysHaveValues' /\ ValuesKept'
  <2>1. KeysHaveValues'
    BY <1>2 DEF ReadInv, KeysHaveValues
  <2>2. ASSUME NEW k \in DOMAIN m_values
        PROVE  Len(m_values[k]) \in 1..Len(m_values[k])
    BY DEF ReadInv, KeysHaveValues
  <2> QED
    BY <1>1, <1>2, <2>1, <2>2 DEF ValuesKept
<1>8. CASE dir[Target] = NoFile
  <2>1. /\ rpc' = "returned" /\ result' = -1 /\ lineno' = lineno /\ fp' = NoFile
    BY <1>1, <1>8 DEF NoFileToParse
  <2>2. ParseInside' /\ ResultIsLine'
    BY <2>1 DEF ReadInv, ParseInside, ResultIsLine
  <2>3. ~(lineno' > lineno)
    BY <2>1 DEF ReadInv, ParseInside
  <2> QED
    BY <1>4, <1>5, <1>6, <1>7, <2>2, <2>3 DEF ReadInv
<1>9. CASE dir[Target] # NoFile
  <2>1. /\ rpc' = "parse" /\ offset' = 0 /\ lineno' = 0 /\ fp' # NoFile
    BY <1>1, <1>9 DEF StartParse
  <2>2. Len(data[dir[Target]]) \in Nat
    <3>1. dir[Target] \in Numbers
      BY <1>3, <1>9 DEF SaveInv, FileTypes
    <3>2. data[dir[Target]] \in Seq(STRING)
      BY <3>1 DEF ReadInv, TextTypes
    <3> QED
      BY <3>2
  <2>3. ParseInside' /\ ResultIsLine'
    BY <1>1, <2>1, <2>2 DEF ParseInside, ResultIsLine
  <2>4. ~(lineno' > lineno)
    BY <2>1 DEF ReadInv, ParseInside
  <2> QED
    BY <1>4, <1>5, <1>6, <1>7, <2>3, <2>4 DEF ReadInv
<1> QED
  BY <1>8, <1>9

\* One round of the loop: a line is taken, the values of m_values stay or one
\* list gets one more, and an error ends the loop with the line's number.
LEMMA RoundOf ==
    ASSUME NEW text, ParseLine(text)
    PROVE  /\ rpc = "parse" /\ offset < Len(text) /\ offset' = offset + Len(NextLine(text))
           /\ lineno' = lineno + 1
           /\ UNCHANGED <<rpc, result>> \/ (rpc' = "returned" /\ result' = lineno')
           /\ m_values' = m_values \/ \E sec, name, value : PushBack(sec, name, value)
<1> DEFINE line == NextLine(text)
           b == line \o <<NUL>> \o SubSeq(buf, Len(line) + 2, Len(buf))
           ln == SkipSpace(b, LineStart)
<1>1. /\ rpc = "parse" /\ offset < Len(text) /\ offset' = offset + Len(line)
      /\ lineno' = lineno + 1
      /\ \/ UNCHANGED <<rpc, section, key, m_values, result>>
         \/ SectionLine(b, ln) \/ MoreLine(b, ln) \/ PairLine(b, ln)
  BY DEF ParseLine
<1> HIDE DEF b, ln
<1>2. ASSUME NEW err, Ends(err)
      PROVE  UNCHANGED <<rpc, result>> \/ (rpc' = "returned" /\ result' = lineno')
  BY <1>2 DEF Ends
<1>3. CASE UNCHANGED <<rpc, section, key, m_values, result>>
  BY <1>1, <1>3
<1>4. CASE SectionLine(b, ln)
  <2>1. m_values' = m_values
    BY <1>4 DEF SectionLine
  <2>2. \E err : Ends(err)
    BY <1>4 DEF SectionLine
  <2> QED
    BY <1>1, <1>2, <2>1, <2>2
<1>5. CASE MoreLine(b, ln)
  <2>1. m_values' = m_values \/ \E sec, name, value : PushBack(sec, name, value)
    BY <1>5 DEF MoreLine
  <2>2. \E err : Ends(err)
    BY <1>5 DEF MoreLine
  <2> QED
    BY <1>1, <1>2, <2>1, <2>2
<1>6. CASE PairLine(b, ln)
  <2>1. \E sec, name, value : PushBack(sec, name, value)
    BY <1>6 DEF PairLine
  <2>2. \E err : Ends(err)
    BY <1>6 DEF PairLine
  <2> QED
    BY <1>1, <1>2, <2>1, <2>2
<1> QED
  BY <1>1, <1>3, <1>4, <1>5, <1>6

\* A round of the loop, or its end.
LEMMA ParseStep ==
    ASSUME SaveInv, ReadInv, Parse
    PROVE  /\ ReadInv' /\ data' = data /\ (fp' # NoFile => fp' = fp)
           /\ lineno' > lineno => /\ offset < offset' /\ offset' <= Len(data[fp])
                                  /\ offset' - offset < MAXSIZE
<1> DEFINE text == data[fp]
<1>1. /\ rpc = "parse" /\ (ParseLine(text) \/ EndParse(text))
      /\ fp' = IF rpc' = "returned" THEN NoFile ELSE fp
      /\ data' = data /\ dir' = dir /\ torn' = torn /\ before' = before /\ first' = first
  BY DEF Parse, fileVars
<1>2. fp # NoFile /\ offset \in 0..Len(text) /\ lineno \in 0..offset /\ lineno \in Nat
  BY <1>1 DEF ReadInv, ParseInside
<1>3. text \in Seq(STRING) /\ Len(text) \in Nat
  <2>1. fp \in Numbers
    BY <1>2 DEF SaveInv, FileTypes
  <2> QED
    BY <2>1 DEF ReadInv, TextTypes
<1>4. TextTypes'
  BY <1>1 DEF ReadInv, TextTypes, Numbers
<1>5. ReaderApart' /\ ReadsOneVersion'
  BY <1>1 DEF ReadInv, ReaderApart, ReadsOneVersion
<1>6. CASE ParseLine(text)
  <2> DEFINE n == Len(NextLine(text))
  <2>1. /\ offset < Len(text) /\ offset' = offset + n /\ lineno' = lineno + 1
        /\ UNCHANGED <<rpc, result>> \/ (rpc' = "returned" /\ result' = lineno')
        /\ m_values' = m_values \/ \E sec, name, value : PushBack(sec, name, value)
    BY <1>6, RoundOf
  <2>2. n \in 1..Len(text) - offset /\ n < MAXSIZE
    BY <1>2, <1>3, <2>1, NextLineTakes
  <2> HIDE DEF n, text
  <2>3. /\ offset' \in 0..Len(text) /\ lineno' \in 0..offset' /\ lineno' \in Nat
        /\ offset < offset' /\ offset' <= Len(text) /\ offset' - offset < MAXSIZE
    <3>1. MAXSIZE \in Nat
      BY ConfAssumption DEF ConfAssumption
    <3> QED
      BY <1>2, <1>3, <2>1, <2>2, <3>1
  <2>4. ParseInside'
    <3>1. rpc' = "parse" => fp' = fp /\ fp' # NoFile
      BY <1>1, <1>2
    <3>2. rpc' # "parse" => fp' = NoFile
      BY <1>1, <2>1
    <3> QED
      BY <1>1, <2>3, <3>1, <3>2 DEF ParseInside, text
  <2>5. ResultIsLine'
    BY <1>1, <2>1 DEF ResultIsLine
  <2>6. KeysHaveValues' /\ ValuesKept'
    <3>1. CASE m_values' = m_values
      BY <1>1, <3>1 DEF ReadInv, KeysHaveValues, ValuesKept
    <3>2. CASE \E sec, name, value : PushBack(sec, name, value)
      BY <1>1, <3>2, PushBackKeeps DEF ReadInv
    <3> QED
      BY <2>1, <3>1, <3>2
  <2> QED
    BY <1>1, <1>4, <1>5, <2>3, <2>4, <2>5, <2>6 DEF ReadInv, text
<1>7. CASE EndParse(text)
  <2>1. /\ rpc' = "returned" /\ result' = 0 /\ m_values' = m_values /\ lineno' = lineno
        /\ fp' = NoFile
    BY <1>1, <1>7 DEF EndParse
  <2>2. ParseInside' /\ ResultIsLine'
    BY <1>2, <2>1 DEF ParseInside, ResultIsLine
  <2>3. KeysHaveValues' /\ ValuesKept'
    BY <1>1, <2>1 DEF ReadInv, KeysHaveValues, ValuesKept
  <2>4. ~(lineno' > lineno)
    BY <1>2, <2>1
  <2> QED
    BY <1>1, <1>4, <1>5, <2>1, <2>2, <2>3, <2>4 DEF ReadInv
<1> QED
  BY <1>1, <1>6, <1>7

\* Every step keeps the invariant, the open file, and the way of the loop.
LEMMA ReadStep ==
    ASSUME OwnNames, SaveInv, ReadInv, [Next]_vars
    PROVE  /\ ReadInv'
           /\ fp # NoFile /\ fp' # NoFile => fp' = fp /\ data'[fp] = data[fp]
           /\ lineno' > lineno => /\ offset < offset' /\ offset' <= Len(data[fp])
                                  /\ offset' - offset < MAXSIZE
<1>1. lineno \in Nat /\ (fp # NoFile => rpc = "parse")
  BY DEF ReadInv, ParseInside
<1>2. ASSUME NEW s \in Savers, Save(s, {fp}), UNCHANGED <<confVars, fp, parses, before, first>>
      PROVE  /\ ReadInv' /\ fp' = fp /\ (fp # NoFile => data'[fp] = data[fp])
             /\ lineno' = lineno
  BY <1>2, SaverStep DEF confVars
<1>3. CASE ParseCall
  <2>1. rpc # "parse"
    BY <1>3 DEF ParseCall, NoFileToParse, StartParse
  <2> QED
    BY <1>1, <1>3, <2>1, ParseCallStep
<1>4. CASE Parse
  BY <1>4, ParseStep
<1>5. CASE UNCHANGED vars
  <2>1. /\ data' = data /\ dir' = dir /\ torn' = torn /\ fp' = fp /\ first' = first
        /\ before' = before /\ rpc' = rpc /\ offset' = offset /\ lineno' = lineno
        /\ result' = result /\ m_values' = m_values
    BY <1>5 DEF vars, fileVars, confVars
  <2>2. ReadInv'
    BY <2>1 DEF ReadInv, TextTypes, Numbers, ReaderApart, ReadsOneVersion, ParseInside,
       ResultIsLine, KeysHaveValues, ValuesKept
  <2> QED
    BY <1>1, <2>1, <2>2
<1>6. lineno' = lineno => ~(lineno' > lineno)
  BY <1>1
<1> QED
  BY <1>2, <1>3, <1>4, <1>5, <1>6 DEF Next

\* The invariant of the reader holds in every behaviour.
LEMMA ReadAlways ==
    ASSUME OwnNames
    PROVE  Spec => []ReadInv
BY ReadInit, SaveAlways, ReadStep, PTL DEF Spec

\* While parse has the file open, what it reads is one complete version, though
\* savers replace the file, fail and crash meanwhile.
THEOREM OneVersionRead ==
    ASSUME OwnNames
    PROVE  Spec => []ReadsOneVersion
<1>1. ReadInv => ReadsOneVersion
  BY DEF ReadInv
<1> QED
  BY <1>1, ReadAlways, PTL

\* No step of any saver changes the file that parse has open, and the numbers
\* of unlinked files are not given out again while it is.
THEOREM OpenFileKept ==
    ASSUME OwnNames
    PROVE  Spec => OpenFileStays
<1>1. SaveInv /\ ReadInv /\ [Next]_vars =>
          [fp # NoFile /\ fp' # NoFile => fp' = fp /\ data'[fp] = data[fp]]_vars
  BY ReadStep
<1> QED
  BY <1>1, SaveAlways, ReadAlways, PTL DEF Spec, OpenFileStays

\* parse cannot go round for ever: each round of its loop takes at least one
\* character of the open file and none behind its end, and what it takes fits
\* into buf with its NUL.
THEOREM ParseAdvances ==
    ASSUME OwnNames
    PROVE  Spec => RoundsAdvance
<1>1. SaveInv /\ ReadInv /\ [Next]_vars =>
          [lineno' > lineno => /\ offset < offset' /\ offset' <= Len(data[fp])
                               /\ offset' - offset < MAXSIZE]_vars
  BY ReadStep
<1> QED
  BY <1>1, SaveAlways, ReadAlways, PTL DEF Spec, RoundsAdvance

\* parse returns -1, 0 or the number of the line where it stopped.
THEOREM ParseResult ==
    ASSUME OwnNames
    PROVE  Spec => []ResultIsLine
<1>1. ReadInv => ResultIsLine
  BY DEF ReadInv
<1> QED
  BY <1>1, ReadAlways, PTL

\* A parse into a Conf that has values already loses and moves none of them, and
\* no key is without a value, so that get never takes the last of an empty list.
THEOREM ValuesStay ==
    ASSUME OwnNames
    PROVE  Spec => [](KeysHaveValues /\ ValuesKept)
<1>1. ReadInv => KeysHaveValues /\ ValuesKept
  BY DEF ReadInv
<1> QED
  BY <1>1, ReadAlways, PTL

-----------------------------------------------------------------------------
(* The types of the configuration file, its savers and its reader, whatever*)
(* the temporary names are.                                                *)

\* The types of the bounds, of the reader, and what is open when.
OpenTypes ==
    /\ \A s \in Savers : fd[s] # NoFile <=> spc[s] = "write"
    /\ saves \in 0..MaxSaves /\ faults \in 0..MaxFaults /\ parses \in 0..MaxParses
    /\ rpc \in {"out", "parse", "returned"}
    /\ fp # NoFile <=> rpc = "parse"
    /\ lineno \in Nat /\ result \in Nat \cup {-1}

FileInv == FileTypes /\ OpenTypes

\* A file has a number that data has: no name and no descriptor stands for
\* a file that is not there.
LEMMA FileInvTypes == FileInv => TypeOK
<1> SUFFICES ASSUME FileInv PROVE TypeOK
  OBVIOUS
<1>1. InUse({fp}) \subseteq DOMAIN data
  BY DEF FileInv, FileTypes, InUse, Range
<1>2. Numbers \subseteq Nat
  BY DEF Numbers
<1>3. dir \in [Names -> Nat \cup {NoFile}] /\ fd \in [Savers -> Nat \cup {NoFile}]
  BY <1>2 DEF FileInv, FileTypes
<1> QED
  BY <1>1, <1>3 DEF FileInv, FileTypes, OpenTypes, TypeOK

\* At first there is one file, and nobody has it open.
LEMMA FileInvInit == Init => FileInv
<1> SUFFICES ASSUME Init PROVE FileInv
  OBVIOUS
<1>1. FileTypes
  BY SaveInit DEF SaveInv
<1>2. MaxSaves \in Nat /\ MaxFaults \in Nat /\ MaxParses \in Nat
  BY FileAssumption, ConfFileAssumption DEF FileAssumption, ConfFileAssumption
<1> QED
  BY <1>1, <1>2 DEF Init, FileInit, ConfInit, FileInv, OpenTypes

\* open: the file has a number already, or the next free one.
LEMMA OpenTyped ==
    ASSUME FileInv, NEW s \in Savers, Open(s, {fp}), fp' = fp
    PROVE  FileTypes' /\ fd'[s] # NoFile
<1> DEFINE new == CHOOSE f \in 1..Len(data) + 1 : f \notin InUse({fp})
           f == IF dir[Temporary[s]] = NoFile THEN new ELSE dir[Temporary[s]]
           m == Len(data)
<1>1. /\ dir' = [dir EXCEPT ![Temporary[s]] = f]
      /\ data' = [i \in DOMAIN data \cup {f} |-> IF i = f THEN <<>> ELSE data[i]]
      /\ fd' = [fd EXCEPT ![s] = f] /\ spc' = [spc EXCEPT ![s] = "write"]
      /\ faults' = faults
  BY DEF Open
<1>2. /\ m \in Nat /\ DOMAIN data = 1..m /\ fp \in 1..m \cup {NoFile}
      /\ dir \in [Names -> 1..m \cup {NoFile}] /\ fd \in [Savers -> 1..m \cup {NoFile}]
      /\ spc \in [Savers -> {"out", "write", "unlink", "rename"}] /\ faults \in Nat
  BY DEF FileInv, FileTypes, Numbers
<1>3. InUse({fp}) \subseteq 1..m /\ Temporary[s] \in Names
  BY <1>2, NamesOf DEF InUse, Range
<1>4. new \in 1..m + 1
  <2>1. m + 1 \in 1..m + 1 /\ m + 1 \notin 1..m
    BY <1>2
  <2>2. \E i \in 1..m + 1 : i \notin InUse({fp})
    BY <1>3, <2>1
  <2> QED
    BY <2>2
<1> HIDE DEF new
<1>5. f \in 1..m + 1
  <2>1. dir[Temporary[s]] # NoFile => dir[Temporary[s]] \in 1..m + 1
    BY <1>2, <1>3
  <2> QED
    BY <1>4, <2>1
<1> HIDE DEF f
<1> DEFINE k == IF f = m + 1 THEN m + 1 ELSE m
<1>6. k \in Nat /\ 1..m \cup {f} = 1..k /\ 1..m \subseteq 1..k /\ f \in 1..k
  BY <1>2, <1>5
<1> HIDE DEF k
<1>7. data' = [i \in 1..k |-> data'[i]] /\ DOMAIN data' = 1..k
  BY <1>1, <1>2, <1>6
<1>8. Len(data') = k
  BY <1>6, <1>7, LengthOf
<1>9. FileTypes'
  BY <1>1, <1>2, <1>6, <1>7, <1>8 DEF FileTypes, Numbers
<1>10. fd'[s] = f /\ f # NoFile
  BY <1>1, <1>2, <1>5, NamesOf
<1> QED
  BY <1>9, <1>10

\* The other system calls leave the numbers as they are.
LEMMA CallTyped ==
    ASSUME FileInv, NEW s \in Savers, fp' = fp,
           \/ WriteFails(s) \/ Unlink(s) \/ Rename(s) \/ RenameFails(s) \/ Crash(s)
           \/ \E c \in Contents : Write(s, c)
    PROVE  FileTypes'
<1>1. /\ Len(data) \in Nat /\ DOMAIN data = 1..Len(data)
      /\ dir \in [Names -> Numbers \cup {NoFile}] /\ fd \in [Savers -> Numbers \cup {NoFile}]
      /\ fp \in Numbers \cup {NoFile}
      /\ spc \in [Savers -> {"out", "write", "unlink", "rename"}] /\ faults \in Nat
  BY DEF FileInv, FileTypes, Numbers
<1>2. DOMAIN data' = 1..Len(data) /\ Len(data') = Len(data)
  <2>1. CASE data' = data
    BY <1>1, <2>1
  <2>2. CASE \E c \in Contents : Write(s, c)
    <3>1. PICK v : data' = [data EXCEPT ![fd[s]] = v]
      BY <2>2 DEF Write
    <3>2. data' = [i \in 1..Len(data) |-> data'[i]] /\ DOMAIN data' = 1..Len(data)
      BY <1>1, <3>1
    <3> QED
      BY <1>1, <3>2, LengthOf
  <2> QED
    BY <2>1, <2>2 DEF WriteFails, Unlink, Rename, RenameFails, Crash
<1>3. Numbers' = Numbers
  BY <1>2 DEF Numbers
<1>4. dir' \in [Names -> Numbers \cup {NoFile}]
  <2>1. dir[Temporary[s]] \in Numbers \cup {NoFile}
    BY <1>1, NamesOf
  <2> QED
    BY <1>1, <2>1 DEF WriteFails, Unlink, Rename, RenameFails, Crash, Write
<1>5. /\ fd' \in [Savers -> Numbers \cup {NoFile}]
      /\ spc' \in [Savers -> {"out", "write", "unlink", "rename"}]
  BY <1>1 DEF WriteFails, Unlink, Rename, RenameFails, Crash, Write
<1>6. faults' \in Nat
  BY <1>1 DEF WriteFails, Unlink, Rename, RenameFails, Crash, Write, Fault
<1> QED
  BY <1>1, <1>2, <1>3, <1>4, <1>5, <1>6 DEF FileTypes, Numbers

\* A saver has its file open from open to the end of the write.
LEMMA SaverTyped ==
    ASSUME FileInv, NEW s \in Savers, Save(s, {fp}),
           UNCHANGED <<confVars, fp, parses, before, first>>
    PROVE  FileInv'
<1>1. FileTypes'
  BY OpenTyped, CallTyped DEF Save
<1>2. /\ saves \in 0..MaxSaves /\ faults \in 0..MaxFaults
      /\ fd \in [Savers -> Numbers \cup {NoFile}]
      /\ spc \in [Savers -> {"out", "write", "unlink", "rename"}]
      /\ \A t \in Savers : fd[t] # NoFile <=> spc[t] = "write"
      /\ MaxSaves \in Nat /\ MaxFaults \in Nat
  BY FileAssumption DEF FileAssumption, FileInv, FileTypes, OpenTypes
<1>3. saves' \in 0..MaxSaves
  BY <1>2 DEF Save, Open, WriteFails, Unlink, Rename, RenameFails, Crash, Write
<1>4. faults' \in 0..MaxFaults
  BY <1>2 DEF Save, Open, WriteFails, Unlink, Rename, RenameFails, Crash, Write, Fault
<1>5. \A t \in Savers : fd'[t] # NoFile <=> spc'[t] = "write"
  <2>1. CASE Open(s, {fp})
    <3>1. PICK f : fd' = [fd EXCEPT ![s] = f] /\ spc' = [spc EXCEPT ![s] = "write"]
      BY <2>1 DEF Open
    <3>2. fd'[s] # NoFile
      BY <2>1, OpenTyped
    <3> QED
      BY <1>2, <3>1, <3>2
  <2>2. CASE ~Open(s, {fp})
    <3>1. \/ /\ fd' = fd /\ spc[s] # "write"
             /\ \E p \in {"out", "rename"} : spc' = [spc EXCEPT ![s] = p]
          \/ fd' = [fd EXCEPT ![s] = NoFile]
             /\ \E p \in {"out", "unlink"} : spc' = [spc EXCEPT ![s] = p]
      BY <2>2 DEF Save, WriteFails, Unlink, Rename, RenameFails, Crash, Write
    <3> QED
      BY <1>2, <3>1
  <2> QED
    BY <2>1, <2>2
<1> QED
  BY <1>1, <1>3, <1>4, <1>5 DEF FileInv, OpenTypes, confVars

\* parse has the file open exactly while it reads.
LEMMA ReaderTyped ==
    ASSUME FileInv, ParseCall \/ Parse
    PROVE  FileInv'
<1>1. /\ dir' = dir /\ data' = data /\ spc' = spc /\ fd' = fd /\ faults' = faults
      /\ saves' = saves
  BY DEF ParseCall, Parse, fileVars
<1>2. /\ fp \in Numbers \cup {NoFile} /\ dir[Target] \in Numbers \cup {NoFile}
      /\ lineno \in Nat /\ result \in Nat \cup {-1}
      /\ parses \in 0..MaxParses /\ MaxParses \in Nat
      /\ rpc \in {"out", "parse", "returned"} /\ (fp # NoFile <=> rpc = "parse")
  BY NamesOf, ConfFileAssumption DEF ConfFileAssumption, FileInv, FileTypes, OpenTypes
<1>3. fp' \in Numbers \cup {NoFile}
  BY <1>2 DEF ParseCall, Parse
<1>4. FileTypes'
  BY <1>1, <1>3 DEF FileInv, FileTypes, Numbers
<1>5. parses' \in 0..MaxParses
  BY <1>2 DEF ParseCall, Parse
<1>6. CASE ParseCall
  BY <1>1, <1>2, <1>4, <1>5, <1>6 DEF ParseCall, NoFileToParse, StartParse, FileInv, OpenTypes
<1>7. CASE Parse
  <2>1. \/ /\ lineno' = lineno + 1
           /\ UNCHANGED <<rpc, result>> \/ (rpc' = "returned" /\ result' = lineno')
        \/ rpc' = "returned" /\ result' = 0 /\ lineno' = lineno
    BY <1>7, RoundOf DEF Parse, EndParse
  <2>2. lineno' \in Nat /\ result' \in Nat \cup {-1}
    BY <1>2, <2>1
  <2>3. rpc = "parse" /\ fp' = IF rpc' = "returned" THEN NoFile ELSE fp
    BY <1>7 DEF Parse
  <2>4. rpc' \in {"out", "parse", "returned"} /\ (fp' # NoFile <=> rpc' = "parse")
    BY <1>2, <2>1, <2>3
  <2> QED
    BY <1>1, <1>4, <1>5, <2>2, <2>4 DEF FileInv, OpenTypes
<1> QED
  BY <1>6, <1>7

\* Types of the directory, the savers and the reader: each name and each
\* descriptor stands for a file, a saver has one open exactly before its write
\* and parse exactly while it reads, also when savers share a temporary name.
THEOREM ConfFileTypeCorrect == Spec => []TypeOK
<1>1. FileInv /\ [Next]_vars => FileInv'
  <2> SUFFICES ASSUME FileInv, [Next]_vars PROVE FileInv'
    OBVIOUS
  <2>1. CASE UNCHANGED vars
    BY <2>1 DEF vars, fileVars, confVars, FileInv, FileTypes, Numbers, OpenTypes
  <2> QED
    BY <2>1, SaverTyped, ReaderTyped DEF Next
<1> QED
  BY <1>1, FileInvInit, FileInvTypes, PTL DEF Spec

-----------------------------------------------------------------------------
(* The pid file, when nobody issues a start or restart while another is    *)
(* under way.                                                              *)

DaemonTypes ==
    /\ file \in Pids \cup {"absent", "empty"}
    /\ proc \in [Pids -> [pc : PcStates, cmd : {"start", "stop", "restart"},
                          target : Pids \cup {NoPid}, polls : Nat]]

\* Where a process is that has its number in the pid file.
NumberInFile == {"null", "up", "daemon", "exiting"}

\* Where a start is that has found no number in the pid file.
NoNumberYet == {"fork", "open", "write"}

\* Strengthening: only a start or restart comes where a daemon is started.
StartersStart ==
    \A p \in Pids : proc[p].pc \in ChildStates \cup {"start", "fork", "restart", "probe"} =>
        proc[p].cmd # "stop"

\* Strengthening: one start or restart at a time.
OneStarter == \A p, q \in Starting : p = q

\* Strengthening: a start that goes on to fork has found the pid file without
\* a number, and that stays so until it writes its own.
StartsAlone ==
    \A p, d \in Pids : proc[p].pc \in NoNumberYet => proc[d].pc \notin NumberInFile

\* Strengthening: nobody takes the file away that a start has open.
WritersKeepFile == \A p \in Pids : proc[p].pc = "write" => p \in writers

DaemonInv ==
    /\ DaemonTypes
    /\ StartersStart
    /\ OneStarter
    /\ StartsAlone
    /\ WritersKeepFile
    /\ FileNamesDaemon

-----------------------------------------------------------------------------

\* A step that sends nobody on towards a daemon, and leaves the file.
LEMMA CalmStep ==
    ASSUME DaemonInv, DaemonTypes', file' = file,
           \A p \in Pids : proc'[p].pc \in ChildStates \cup {"start", "fork", "restart", "probe"} =>
               proc'[p].cmd # "stop",
           \A p \in Pids : p \in Starting' => p \in Starting,
           \A p \in Pids : proc'[p].pc \in NumberInFile => proc[p].pc \in NumberInFile,
           \A p \in Pids : proc'[p].pc \in NoNumberYet => proc[p].pc \in NoNumberYet,
           \A p \in Pids : proc'[p].pc = "write" => p \in writers'
    PROVE  DaemonInv'
<1>1. StartersStart'
  BY DEF StartersStart
<1>2. OneStarter'
  <2>1. \A p \in Starting' : p \in Pids
    BY DEF Starting
  <2> QED
    BY <2>1 DEF DaemonInv, OneStarter
<1>3. StartsAlone'
  BY DEF DaemonInv, StartsAlone
<1>4. WritersKeepFile'
  BY DEF WritersKeepFile
<1>5. FileNamesDaemon'
  BY DEF DaemonInv, FileNamesDaemon, NumberInFile
<1> QED
  BY <1>1, <1>2, <1>3, <1>4, <1>5 DEF DaemonInv

\* A step of one process that leaves the file: what it may become.
LEMMA CalmOne ==
    ASSUME DaemonInv, NEW p \in Pids, NEW r, proc' = [proc EXCEPT ![p] = r],
           r \in [pc : PcStates, cmd : {"start", "stop", "restart"},
                  target : Pids \cup {NoPid}, polls : Nat],
           file' = file, \A x \in Pids \ {p} : x \in writers => x \in writers',
           r.pc \in ChildStates \cup {"start", "fork", "restart", "probe"} => r.cmd # "stop",
           r.pc \in CommandStates \cup ChildStates /\ r.cmd # "stop" => p \in Starting,
           r.pc \in NumberInFile => proc[p].pc \in NumberInFile,
           r.pc \notin NoNumberYet
    PROVE  DaemonInv'
<1>1. DaemonTypes'
  BY DEF DaemonInv, DaemonTypes
<1>2. proc'[p] = r /\ \A x \in Pids \ {p} : proc'[x] = proc[x]
  BY DEF DaemonInv, DaemonTypes
<1>3. \A x \in Pids : proc'[x].pc \in ChildStates \cup {"start", "fork", "restart", "probe"} =>
          proc'[x].cmd # "stop"
  BY <1>2 DEF DaemonInv, StartersStart
<1>4. \A x \in Pids : x \in Starting' => x \in Starting
  BY <1>2 DEF Starting
<1>5. \A x \in Pids : /\ proc'[x].pc \in NumberInFile => proc[x].pc \in NumberInFile
                      /\ proc'[x].pc \in NoNumberYet => proc[x].pc \in NoNumberYet
  BY <1>2
<1>6. \A x \in Pids : proc'[x].pc = "write" => x \in writers'
  BY <1>2 DEF DaemonInv, WritersKeepFile, NoNumberYet
<1> QED
  BY <1>1, <1>3, <1>4, <1>5, <1>6, CalmStep

Recs ==
    [pc : PcStates, cmd : {"start", "stop", "restart"}, target : Pids \cup {NoPid}, polls : Nat]

\* A process that is not there keeps nothing.
LEMMA IdleRec == Idle \in Recs /\ Idle.pc = "free" /\ Idle.cmd = "start"
BY DEF Idle, Recs, PcStates

\* Each process is a record of that kind.
LEMMA RecOf == ASSUME DaemonInv, NEW p \in Pids PROVE proc[p] \in Recs
BY DEF DaemonInv, DaemonTypes, Recs

\* Going keeps the command a process was issued for.
LEMMA GoingRec ==
    ASSUME DaemonInv, NEW p \in Pids, NEW l \in PcStates
    PROVE  /\ Going(p, l) \in Recs /\ Going(p, l).pc = l
           /\ l # "free" => Going(p, l).cmd = proc[p].cmd
BY RecOf, IdleRec DEF Going, Recs

\* A process that dies or goes on to a place that is none of a start.
LEMMA CalmGoto ==
    ASSUME DaemonInv, NEW p \in Pids, NEW l \in PcStates, Goto(p, l),
           file' = file, \A x \in Pids \ {p} : x \in writers => x \in writers',
           l \in ChildStates \cup {"start", "fork", "restart", "probe"} => proc[p].cmd # "stop",
           l \in CommandStates \cup ChildStates => p \in Starting \/ proc[p].cmd = "stop",
           l \in NumberInFile => proc[p].pc \in NumberInFile,
           l \notin NoNumberYet
    PROVE  DaemonInv'
<1>1. /\ Going(p, l) \in Recs /\ Going(p, l).pc = l
      /\ l # "free" => Going(p, l).cmd = proc[p].cmd
  BY GoingRec
<1>2. "free" \notin ChildStates \cup CommandStates \cup {"start", "fork", "restart", "probe"}
  BY DEF ChildStates, CommandStates
<1> QED
  BY <1>1, <1>2, CalmOne DEF Goto, Recs

\* SIGQUIT: its target exits or dies, and the sender waits for it.
LEMMA CalmQuit ==
    ASSUME DaemonInv, NEW p \in Pids, proc[p].pc \in {"kill", "poll"}, NEW next \in Recs,
           next.pc \in {"poll", "gaveup"}, next.cmd = proc[p].cmd,
           SendQuit(p, next), file' = file
    PROVE  DaemonInv'
<1> DEFINE q == proc[p].target
           r == Going(q, Quit(q))
<1>1. /\ proc' = IF p = q THEN [proc EXCEPT ![p] = Idle]
                 ELSE [proc EXCEPT ![p] = next, ![q] = r]
      /\ writers' = IF Quit(q) = "free" THEN writers \ {q} ELSE writers
  BY DEF SendQuit
<1>2. CASE p = q
  <2>1. \A x \in Pids \ {p} : x \in writers => x \in writers'
    BY <1>1, <1>2
  <2>2. proc' = [proc EXCEPT ![p] = Idle]
    BY <1>1, <1>2
  <2>3. Idle.pc \notin ChildStates \cup CommandStates \cup NoNumberYet \cup NumberInFile
                       \cup {"start", "fork", "restart", "probe"}
    BY DEF Idle, ChildStates, CommandStates, NoNumberYet, NumberInFile
  <2> HIDE DEF q
  <2> QED
    BY <2>1, <2>2, <2>3, IdleRec, CalmOne DEF Recs
<1>3. CASE p # q /\ q \notin Pids
  <2>1. proc' = [proc EXCEPT ![p] = next]
    BY <1>1, <1>3 DEF DaemonInv, DaemonTypes
  <2>2. \A x \in Pids \ {p} : x \in writers => x \in writers'
    BY <1>1, <1>3
  <2>3. p \in Starting \/ proc[p].cmd = "stop"
    BY DEF Starting, CommandStates
  <2> QED
    BY <2>1, <2>2, <2>3, CalmOne DEF Recs, NumberInFile, NoNumberYet, ChildStates
<1>4. CASE p # q /\ q \in Pids
  <2>1. Quit(q) \in {"exiting", "ended", "free"}
    BY DEF Quit, At
  <2>2. Quit(q) = "exiting" => proc[q].pc \in {"daemon", "exiting"}
    BY DEF Quit, At
  <2>3. r \in Recs /\ r.pc = Quit(q)
    BY <1>4, <2>1, GoingRec DEF PcStates
  <2> HIDE DEF q, r
  <2>4. /\ proc'[p] = next /\ proc'[q] = r
        /\ \A x \in Pids \ {p, q} : proc'[x] = proc[x]
    BY <1>1, <1>4 DEF DaemonInv, DaemonTypes
  <2>5. DaemonTypes'
    BY <1>1, <1>4, <2>3 DEF DaemonInv, DaemonTypes, Recs
  <2>6. /\ r.pc \notin ChildStates \cup CommandStates \cup NoNumberYet
                       \cup {"start", "fork", "restart", "probe", "write"}
        /\ next.pc \notin NumberInFile \cup NoNumberYet
                       \cup {"start", "fork", "restart", "probe", "write"}
                       \cup ChildStates
        /\ r.pc \in NumberInFile => proc[q].pc \in NumberInFile
    BY <2>1, <2>2, <2>3 DEF ChildStates, CommandStates, NoNumberYet, NumberInFile
  <2>7. \A x \in Pids : proc'[x].pc \in ChildStates \cup {"start", "fork", "restart", "probe"} =>
            proc'[x].cmd # "stop"
    BY <2>4, <2>6 DEF DaemonInv, StartersStart
  <2>8. \A x \in Pids : x \in Starting' => x \in Starting
    <3>1. p \in Starting' => p \in Starting
      BY <2>4 DEF Starting, CommandStates
    <3>2. q \notin Starting'
      BY <2>4, <2>6 DEF Starting
    <3> QED
      BY <2>4, <3>1, <3>2 DEF Starting
  <2>9. \A x \in Pids : /\ proc'[x].pc \in NumberInFile => proc[x].pc \in NumberInFile
                        /\ proc'[x].pc \in NoNumberYet => proc[x].pc \in NoNumberYet
    BY <2>4, <2>6
  <2>10. \A x \in Pids : proc'[x].pc = "write" => x \in writers'
    BY <1>1, <2>4, <2>6 DEF DaemonInv, WritersKeepFile
  <2> QED
    BY <2>5, <2>7, <2>8, <2>9, <2>10, CalmStep
<1> QED
  BY <1>2, <1>3, <1>4

-----------------------------------------------------------------------------
(* The steps *)

\* A start or restart is issued only while there is no other; a stop is harmless.
LEMMA InvIssue ==
    ASSUME DaemonInv, Serial, NEW p \in Pids, NEW c \in Commands, Issue(p, c)
    PROVE  DaemonInv'
<1> DEFINE r == [Idle EXCEPT !.pc = c, !.cmd = c]
<1>1. c \in {"start", "stop", "restart"}
  BY DaemonAssumption DEF DaemonAssumption
<1>2. r \in Recs /\ r.pc = c /\ r.cmd = c
  BY <1>1 DEF Idle, Recs, PcStates, CommandStates
<1>3. /\ proc' = [proc EXCEPT ![p] = r] /\ file' = file /\ writers' = writers
      /\ c # "stop" => Starting = {}
  BY DEF Issue
<1> HIDE DEF r
<1>4. CASE c = "stop"
  BY <1>2, <1>3, <1>4, CalmOne DEF Recs, ChildStates, NumberInFile, NoNumberYet
<1>5. CASE c # "stop"
  <2>1. proc'[p] = r /\ \A x \in Pids \ {p} : proc'[x] = proc[x]
    BY <1>3 DEF DaemonInv, DaemonTypes
  <2>2. DaemonTypes'
    BY <1>2, <1>3 DEF DaemonInv, DaemonTypes, Recs
  <2>3. StartersStart'
    BY <1>2, <1>5, <2>1 DEF DaemonInv, StartersStart
  <2>4. OneStarter'
    BY <1>3, <1>5, <2>1 DEF OneStarter, Starting
  <2>5. c \notin NumberInFile \cup NoNumberYet \cup {"write"}
    BY <1>1 DEF NumberInFile, NoNumberYet
  <2>6. StartsAlone'
    BY <1>2, <2>1, <2>5 DEF DaemonInv, StartsAlone
  <2>7. WritersKeepFile'
    BY <1>2, <1>3, <2>1, <2>5 DEF DaemonInv, WritersKeepFile
  <2>8. FileNamesDaemon'
    BY <1>2, <1>3, <2>1, <2>5 DEF DaemonInv, FileNamesDaemon, NumberInFile
  <2> QED
    BY <2>2, <2>3, <2>4, <2>6, <2>7, <2>8 DEF DaemonInv
<1> QED
  BY <1>4, <1>5

\* A start that goes on to fork has found no number, so that no daemon runs.
LEMMA InvStartReads ==
    ASSUME DaemonInv, NEW p \in Pids, StartReads(p)
    PROVE  DaemonInv'
<1>1. /\ proc[p].pc = "start" /\ file' = file /\ writers' = writers
      /\ Goto(p, IF file \in Pids THEN "free" ELSE "fork")
  BY DEF StartReads, At
<1>2. proc[p].cmd # "stop"
  BY <1>1 DEF DaemonInv, StartersStart
<1>3. CASE file \in Pids
  BY <1>1, <1>3, CalmGoto DEF PcStates, ChildStates, CommandStates, NumberInFile, NoNumberYet
<1>4. CASE file \notin Pids
  <2> DEFINE r == Going(p, "fork")
  <2>1. r \in Recs /\ r.pc = "fork" /\ r.cmd = proc[p].cmd
    BY GoingRec DEF PcStates, CommandStates
  <2>2. proc' = [proc EXCEPT ![p] = r]
    BY <1>1, <1>4 DEF Goto
  <2> HIDE DEF r
  <2>3. proc'[p] = r /\ \A x \in Pids \ {p} : proc'[x] = proc[x]
    BY <2>2 DEF DaemonInv, DaemonTypes
  <2>4. DaemonTypes'
    BY <1>1, <2>1, <2>2 DEF DaemonInv, DaemonTypes, Recs
  <2>5. StartersStart'
    BY <1>2, <2>1, <2>3 DEF DaemonInv, StartersStart
  <2>6. \A x \in Pids : x \in Starting' => x \in Starting
    BY <1>1, <1>2, <2>3 DEF Starting, CommandStates
  <2>7. OneStarter'
    BY <2>6 DEF DaemonInv, OneStarter, Starting
  <2>8. \A d \in Pids : proc[d].pc \notin NumberInFile
    BY <1>4 DEF DaemonInv, FileNamesDaemon, NumberInFile
  <2>9. \A d \in Pids : proc'[d].pc \notin NumberInFile
    BY <2>1, <2>3, <2>8 DEF NumberInFile
  <2>10. StartsAlone' /\ FileNamesDaemon'
    BY <2>9 DEF StartsAlone, FileNamesDaemon, NumberInFile
  <2>11. WritersKeepFile'
    BY <1>1, <2>1, <2>3 DEF DaemonInv, WritersKeepFile
  <2> QED
    BY <2>4, <2>5, <2>7, <2>10, <2>11 DEF DaemonInv
<1> QED
  BY <1>3, <1>4

\* The child takes its parent's place.
LEMMA InvFork ==
    ASSUME DaemonInv, NEW p \in Pids, Fork(p)
    PROVE  DaemonInv'
<1>1. proc[p].pc = "fork" /\ file' = file /\ writers' = writers
  BY DEF Fork, At
<1>2. proc[p].cmd # "stop"
  BY <1>1 DEF DaemonInv, StartersStart
<1>3. CASE Goto(p, "free")
  BY <1>1, <1>3, CalmGoto DEF PcStates, ChildStates, CommandStates, NumberInFile, NoNumberYet
<1>4. ASSUME NEW c \in Pids, ~Alive(c),
             proc' = [proc EXCEPT ![p] = Idle, ![c] = [Idle EXCEPT !.pc = "open"]]
      PROVE  DaemonInv'
  <2> DEFINE r == [Idle EXCEPT !.pc = "open"]
  <2>1. r \in Recs /\ r.pc = "open" /\ r.cmd = "start"
    BY DEF Idle, Recs, PcStates, ChildStates
  <2> HIDE DEF r
  <2>2. proc[c].pc = "free" /\ c # p
    BY <1>1, <1>4 DEF Alive
  <2>3. /\ proc'[p] = Idle /\ proc'[c] = r
        /\ \A x \in Pids \ {p, c} : proc'[x] = proc[x]
    BY <1>4, <2>2 DEF DaemonInv, DaemonTypes, r
  <2>4. DaemonTypes'
    BY <1>1, <1>4, <2>1, IdleRec DEF DaemonInv, DaemonTypes, Recs, r
  <2>5. StartersStart'
    BY <2>1, <2>3, IdleRec DEF DaemonInv, StartersStart
  <2>6. Starting = {p}
    BY <1>1, <1>2 DEF DaemonInv, OneStarter, Starting, CommandStates
  <2>7. \A x \in Pids : x \in Starting' => x = c
    BY <2>3, <2>6, IdleRec DEF Starting, CommandStates, ChildStates
  <2>8. OneStarter'
    BY <2>7 DEF OneStarter, Starting
  <2>9. \A d \in Pids : proc[d].pc \notin NumberInFile
    BY <1>1 DEF DaemonInv, StartsAlone, NoNumberYet
  <2>10. \A d \in Pids : proc'[d].pc \notin NumberInFile
    BY <2>1, <2>3, <2>9, IdleRec DEF NumberInFile
  <2>11. StartsAlone' /\ FileNamesDaemon'
    BY <2>10 DEF StartsAlone, FileNamesDaemon, NumberInFile
  <2>12. WritersKeepFile'
    BY <1>1, <2>1, <2>3, IdleRec DEF DaemonInv, WritersKeepFile
  <2> QED
    BY <2>4, <2>5, <2>8, <2>11, <2>12 DEF DaemonInv
<1> QED
  BY <1>3, <1>4 DEF Fork

\* The child opens the file; there is no daemon whose number it could take away.
LEMMA InvOpen ==
    ASSUME DaemonInv, NEW p \in Pids, OpenPidFile(p)
    PROVE  DaemonInv'
<1>1. proc[p].pc = "open"
  BY DEF OpenPidFile, At
<1>2. CASE Goto(p, "free") /\ UNCHANGED <<file, writers>>
  BY <1>2, CalmGoto DEF PcStates, ChildStates, CommandStates, NumberInFile, NoNumberYet
<1>3. CASE Goto(p, "write") /\ file' = "empty" /\ writers' = writers \cup {p}
  <2> DEFINE r == Going(p, "write")
  <2>1. r \in Recs /\ r.pc = "write" /\ r.cmd = proc[p].cmd
    BY GoingRec DEF PcStates, ChildStates
  <2>2. proc' = [proc EXCEPT ![p] = r]
    BY <1>3 DEF Goto
  <2> HIDE DEF r
  <2>3. proc'[p] = r /\ \A x \in Pids \ {p} : proc'[x] = proc[x]
    BY <2>2 DEF DaemonInv, DaemonTypes
  <2>4. DaemonTypes'
    BY <1>3, <2>1, <2>2 DEF DaemonInv, DaemonTypes, Recs
  <2>5. StartersStart'
    BY <1>1, <2>1, <2>3 DEF DaemonInv, StartersStart, ChildStates
  <2>6. OneStarter'
    BY <1>1, <2>1, <2>3 DEF DaemonInv, OneStarter, Starting, ChildStates
  <2>7. \A d \in Pids : proc[d].pc \notin NumberInFile
    BY <1>1 DEF DaemonInv, StartsAlone, NoNumberYet
  <2>8. \A d \in Pids : proc'[d].pc \notin NumberInFile
    BY <2>1, <2>3, <2>7 DEF NumberInFile
  <2>9. StartsAlone' /\ FileNamesDaemon'
    BY <2>8 DEF StartsAlone, FileNamesDaemon, NumberInFile
  <2>10. WritersKeepFile'
    BY <1>3, <2>1, <2>3 DEF DaemonInv, WritersKeepFile
  <2> QED
    BY <2>4, <2>5, <2>6, <2>9, <2>10 DEF DaemonInv
<1> QED
  BY <1>2, <1>3 DEF OpenPidFile

\* The child's number is in the file that has the name, and no other start
\* is there to overwrite it.
LEMMA InvWrite ==
    ASSUME DaemonInv, NEW p \in Pids, WritePid(p)
    PROVE  DaemonInv'
<1>1. proc[p].pc = "write" /\ p \in writers /\ writers' = writers \ {p}
  BY DEF WritePid, At, DaemonInv, WritersKeepFile
<1>2. CASE Goto(p, "free") /\ UNCHANGED file
  BY <1>1, <1>2, CalmGoto DEF PcStates, ChildStates, CommandStates, NumberInFile, NoNumberYet
<1>3. CASE Goto(p, "null") /\ file' = p
  <2> DEFINE r == Going(p, "null")
  <2>1. r \in Recs /\ r.pc = "null" /\ r.cmd = proc[p].cmd
    BY GoingRec DEF PcStates, ChildStates
  <2>2. proc' = [proc EXCEPT ![p] = r]
    BY <1>3 DEF Goto
  <2> HIDE DEF r
  <2>3. proc'[p] = r /\ \A x \in Pids \ {p} : proc'[x] = proc[x]
    BY <2>2 DEF DaemonInv, DaemonTypes
  <2>4. DaemonTypes'
    BY <1>3, <2>1, <2>2 DEF DaemonInv, DaemonTypes, Recs
  <2>5. StartersStart'
    BY <1>1, <2>1, <2>3 DEF DaemonInv, StartersStart, ChildStates
  <2>6. OneStarter'
    BY <1>1, <2>1, <2>3 DEF DaemonInv, OneStarter, Starting, ChildStates
  <2>7. \A d \in Pids : proc[d].pc \notin NumberInFile
    BY <1>1 DEF DaemonInv, StartsAlone, NoNumberYet
  <2>8. \A d \in Pids \ {p} : proc'[d].pc \notin NumberInFile
    BY <2>3, <2>7
  <2>9. FileNamesDaemon'
    BY <1>3, <2>8 DEF FileNamesDaemon, NumberInFile
  <2>10. StartsAlone'
    <3>1. \A x \in Pids \ {p} : proc[x].pc \notin NoNumberYet
      <4> SUFFICES ASSUME NEW x \in Pids \ {p}, proc[x].pc \in NoNumberYet PROVE FALSE
        OBVIOUS
      <4>1. proc[x].pc \in CommandStates \cup ChildStates /\ proc[x].cmd # "stop"
        BY DEF DaemonInv, StartersStart, NoNumberYet, CommandStates, ChildStates
      <4>2. proc[p].pc \in ChildStates /\ proc[p].cmd # "stop"
        BY <1>1 DEF DaemonInv, StartersStart, ChildStates
      <4> QED
        BY <4>1, <4>2 DEF DaemonInv, OneStarter, Starting
    <3>2. \A x \in Pids : proc'[x].pc \notin NoNumberYet
      BY <2>1, <2>3, <3>1 DEF NoNumberYet
    <3> QED
      BY <3>2 DEF StartsAlone
  <2>11. WritersKeepFile'
    BY <1>1, <2>1, <2>3 DEF DaemonInv, WritersKeepFile
  <2> QED
    BY <2>4, <2>5, <2>6, <2>9, <2>10, <2>11 DEF DaemonInv
<1> QED
  BY <1>1, <1>2, <1>3 DEF WritePid

\* The pid file goes with the daemon it names, while no start has it open.
LEMMA InvUnlink ==
    ASSUME DaemonInv, NEW p \in Pids, UnlinkPidFile(p)
    PROVE  DaemonInv'
<1> DEFINE r == Going(p, "ended")
<1>1. /\ proc[p].pc = "exiting" /\ file' = "absent" /\ proc' = [proc EXCEPT ![p] = r]
  BY DEF UnlinkPidFile, At, Goto
<1>2. r \in Recs /\ r.pc = "ended"
  BY GoingRec DEF PcStates
<1> HIDE DEF r
<1>3. proc'[p] = r /\ \A x \in Pids \ {p} : proc'[x] = proc[x]
  BY <1>1 DEF DaemonInv, DaemonTypes
<1>4. DaemonTypes'
  BY <1>1, <1>2 DEF DaemonInv, DaemonTypes, Recs
<1>5. StartersStart'
  BY <1>2, <1>3 DEF DaemonInv, StartersStart, ChildStates
<1>6. OneStarter'
  BY <1>2, <1>3 DEF DaemonInv, OneStarter, Starting, ChildStates, CommandStates
<1>7. \A x \in Pids : proc[x].pc \notin NoNumberYet
  BY <1>1 DEF DaemonInv, StartsAlone, NumberInFile
<1>8. \A x \in Pids : proc'[x].pc \notin NoNumberYet
  BY <1>2, <1>3, <1>7 DEF NoNumberYet
<1>9. StartsAlone' /\ WritersKeepFile'
  BY <1>8 DEF StartsAlone, WritersKeepFile, NoNumberYet
<1>10. \A x \in Pids \ {p} : proc[x].pc \notin NumberInFile
  BY <1>1 DEF DaemonInv, FileNamesDaemon, NumberInFile
<1>11. FileNamesDaemon'
  BY <1>2, <1>3, <1>10 DEF FileNamesDaemon, NumberInFile
<1> QED
  BY <1>4, <1>5, <1>6, <1>9, <1>11 DEF DaemonInv

\* The daemon's other steps, and the death of any process.
LEMMA InvLife ==
    ASSUME DaemonInv, NEW p \in Pids,
           Null(p) \/ Handles(p) \/ Exits(p) \/ Vanishes(p) \/ Crashes(p)
    PROVE  DaemonInv'
<1> USE DEF PcStates, ChildStates, CommandStates, NumberInFile, NoNumberYet
<1>1. CASE Null(p)
  BY <1>1, CalmGoto DEF Null, At
<1>2. CASE Handles(p)
  BY <1>2, CalmGoto DEF Handles, At
<1>3. CASE Exits(p)
  BY <1>3, CalmGoto DEF Exits, At
<1>4. CASE Vanishes(p)
  BY <1>4, CalmGoto DEF Vanishes, At
<1>5. CASE Crashes(p)
  BY <1>5, CalmGoto DEF Crashes
<1> QED
  BY <1>1, <1>2, <1>3, <1>4, <1>5

\* The number that stop or restart reads changes nothing for the others.
LEMMA CalmReads ==
    ASSUME DaemonInv, NEW p \in Pids, proc[p].pc \in {"stop", "restart"}, file \in Pids,
           NEW l \in {"kill", "probe"}, l = "probe" => proc[p].pc = "restart",
           Reads(p, l), UNCHANGED <<file, writers>>
    PROVE  DaemonInv'
<1> DEFINE r == [proc[p] EXCEPT !.pc = l, !.target = file]
<1>1. r \in Recs /\ r.pc = l /\ r.cmd = proc[p].cmd
  BY RecOf DEF Recs, PcStates, CommandStates
<1>2. proc' = [proc EXCEPT ![p] = r]
  BY DEF Reads, DaemonInv, DaemonTypes
<1>3. l = "probe" => proc[p].cmd # "stop"
  BY DEF DaemonInv, StartersStart
<1>4. proc[p].cmd # "stop" => p \in Starting
  BY DEF Starting, CommandStates
<1> HIDE DEF r
<1> QED
  BY <1>1, <1>2, <1>3, <1>4, CalmOne DEF Recs, ChildStates, NumberInFile, NoNumberYet

\* The steps of daemonStop and daemonRestart.
LEMMA InvStop ==
    ASSUME DaemonInv, NEW p \in Pids,
           StopReads(p) \/ Kill(p) \/ Poll(p) \/ GivesUp(p) \/ RestartReads(p) \/ Probe(p)
    PROVE  DaemonInv'
<1>1. CASE StopReads(p)
  <2>1. proc[p].pc = "stop" /\ UNCHANGED <<file, writers>>
    BY <1>1 DEF StopReads, At
  <2>2. CASE file \in Pids
    BY <1>1, <2>1, <2>2, CalmReads DEF StopReads
  <2>3. CASE file \notin Pids
    BY <1>1, <2>1, <2>3, CalmGoto
       DEF StopReads, PcStates, ChildStates, CommandStates, NumberInFile, NoNumberYet
  <2> QED
    BY <2>2, <2>3
<1>2. CASE Kill(p)
  <2>1. proc[p].pc = "kill" /\ file' = file
    BY <1>2 DEF Kill, At
  <2>2. CASE Alive(proc[p].target)
    <3>1. SendQuit(p, Going(p, "poll"))
      BY <1>2, <2>2 DEF Kill
    <3>2. Going(p, "poll") \in Recs /\ Going(p, "poll").pc = "poll"
          /\ Going(p, "poll").cmd = proc[p].cmd
      BY GoingRec DEF PcStates, CommandStates
    <3> QED
      BY <2>1, <3>1, <3>2, CalmQuit
  <2>3. CASE ~Alive(proc[p].target)
    BY <1>2, <2>1, <2>3, CalmGoto
       DEF Kill, PcStates, ChildStates, CommandStates, NumberInFile, NoNumberYet
  <2> QED
    BY <2>2, <2>3
<1>3. CASE Poll(p)
  <2> DEFINE n == proc[p].polls + 1
             next == [proc[p] EXCEPT !.polls = n, !.pc = IF n = Polls THEN "gaveup" ELSE "poll"]
  <2>1. proc[p].pc = "poll" /\ file' = file
    BY <1>3 DEF Poll, At
  <2>2. CASE Alive(proc[p].target)
    <3>1. SendQuit(p, next)
      BY <1>3, <2>2 DEF Poll
    <3>2. next \in Recs /\ next.pc \in {"poll", "gaveup"} /\ next.cmd = proc[p].cmd
      <4> DEFINE l == IF n = Polls THEN "gaveup" ELSE "poll"
      <4>1. l \in {"poll", "gaveup"} /\ proc[p] \in Recs
        BY RecOf
      <4>2. n \in Nat
        BY <4>1 DEF Recs
      <4>3. next = [proc[p] EXCEPT !.polls = n, !.pc = l]
        OBVIOUS
      <4> HIDE DEF l, n, next
      <4>4. l \in PcStates
        BY <4>1 DEF PcStates, CommandStates
      <4> QED
        BY <4>1, <4>2, <4>3, <4>4 DEF Recs
    <3> HIDE DEF next
    <3> QED
      BY <2>1, <3>1, <3>2, CalmQuit
  <2>3. CASE ~Alive(proc[p].target)
    <3> DEFINE r == IF proc[p].cmd = "stop" THEN Idle
                    ELSE [Idle EXCEPT !.pc = "start", !.cmd = "restart"]
    <3>1. proc' = [proc EXCEPT ![p] = r] /\ writers' = writers
      BY <1>3, <2>3 DEF Poll, Stopped
    <3>2. /\ r \in Recs
          /\ \/ r.pc = "free"
             \/ r.pc = "start" /\ r.cmd = "restart" /\ proc[p].cmd # "stop"
      BY IdleRec DEF Idle, Recs, PcStates, CommandStates
    <3>3. proc[p].cmd # "stop" => p \in Starting
      BY <2>1 DEF Starting, CommandStates
    <3> HIDE DEF r
    <3> QED
      BY <2>1, <3>1, <3>2, <3>3, CalmOne
         DEF Recs, ChildStates, CommandStates, NumberInFile, NoNumberYet
  <2> QED
    BY <2>2, <2>3
<1>4. CASE GivesUp(p)
  BY <1>4, CalmGoto
     DEF GivesUp, PcStates, ChildStates, CommandStates, NumberInFile, NoNumberYet
<1>5. CASE RestartReads(p)
  <2>1. proc[p].pc = "restart" /\ UNCHANGED <<file, writers>>
    BY <1>5 DEF RestartReads, At
  <2>2. CASE file \in Pids
    BY <1>5, <2>1, <2>2, CalmReads DEF RestartReads
  <2>3. CASE file \notin Pids
    <3>1. proc[p].cmd # "stop" /\ p \in Starting
      BY <2>1 DEF DaemonInv, StartersStart, Starting, CommandStates
    <3> QED
      BY <1>5, <2>1, <2>3, <3>1, CalmGoto
         DEF RestartReads, PcStates, ChildStates, CommandStates, NumberInFile, NoNumberYet
  <2> QED
    BY <2>2, <2>3
<1>6. CASE Probe(p)
  <2>1. proc[p].pc = "probe" /\ UNCHANGED <<file, writers>>
    BY <1>6 DEF Probe, At
  <2>2. proc[p].cmd # "stop" /\ p \in Starting
    BY <2>1 DEF DaemonInv, StartersStart, Starting, CommandStates
  <2> QED
    BY <1>6, <2>1, <2>2, CalmGoto
       DEF Probe, PcStates, ChildStates, CommandStates, NumberInFile, NoNumberYet
<1> QED
  BY <1>1, <1>2, <1>3, <1>4, <1>5, <1>6

\* The invariant is inductive when starts are serial.
LEMMA InvStep ==
    ASSUME DaemonInv, Serial, [DaemonNext]_daemonVars
    PROVE  DaemonInv'
<1>1. CASE UNCHANGED daemonVars
  BY <1>1 DEF daemonVars, DaemonInv, DaemonTypes, StartersStart, OneStarter, Starting, StartsAlone,
              WritersKeepFile, FileNamesDaemon
<1>2. ASSUME NEW p \in Pids, NEW c \in Commands, Issue(p, c) PROVE DaemonInv'
  BY <1>2, InvIssue
<1> QED
  BY <1>1, <1>2, InvStartReads, InvFork, InvOpen, InvWrite, InvUnlink, InvLife, InvStop
     DEF DaemonNext, CommandStep

\* At first there is no process and no pid file.
LEMMA InvInit == DaemonInit => DaemonInv
<1> SUFFICES ASSUME DaemonInit PROVE DaemonInv
  OBVIOUS
<1>1. \A p \in Pids : proc[p].pc = "free"
  BY DEF DaemonInit, Idle
<1>2. DaemonTypes
  BY IdleRec DEF DaemonInit, DaemonTypes, Recs
<1> QED
  BY <1>1, <1>2 DEF DaemonInv, StartersStart, OneStarter, Starting, StartsAlone, WritersKeepFile,
                    FileNamesDaemon, ChildStates, CommandStates, NoNumberYet, NumberInFile

\* The inductive invariant holds in every behaviour with serial starts.
LEMMA InvAlways ==
    ASSUME Serial
    PROVE  DaemonSpec => []DaemonInv
<1>1. DaemonInv /\ [DaemonNext]_daemonVars => DaemonInv'
  BY InvStep
<1> QED
  BY <1>1, InvInit, PTL DEF DaemonSpec, DaemonSafeSpec

-----------------------------------------------------------------------------
(* The theorems *)

\* The pid file names the running daemon from the moment its number is written
\* to the unlink of its own exit, whatever crashes and whoever is stopped.
THEOREM FileNames ==
    ASSUME Serial
    PROVE  DaemonSpec => []FileNamesDaemon
<1>1. DaemonInv => FileNamesDaemon
  BY DEF DaemonInv
<1> QED
  BY <1>1, InvAlways, PTL

\* Two processes on the way to a daemon, or daemons, are one.
LEMMA OneOnTheWay ==
    ASSUME DaemonInv, NEW p \in Pids, NEW q \in Pids,
           {proc[p].pc, proc[q].pc} \subseteq ChildStates \cup {"up", "daemon"}
    PROVE  p = q
<1>1. CASE proc[p].pc \in ChildStates /\ proc[q].pc \in ChildStates
  BY <1>1 DEF DaemonInv, StartersStart, OneStarter, Starting
<1>2. CASE proc[p].pc \in {"null", "up", "daemon"} /\ proc[q].pc \in {"null", "up", "daemon"}
  BY <1>2 DEF DaemonInv, FileNamesDaemon
<1>3. CASE proc[p].pc \in {"open", "write"} /\ proc[q].pc \in {"up", "daemon"}
  BY <1>3 DEF DaemonInv, StartsAlone, NumberInFile, NoNumberYet
<1>4. CASE proc[q].pc \in {"open", "write"} /\ proc[p].pc \in {"up", "daemon"}
  BY <1>4 DEF DaemonInv, StartsAlone, NumberInFile, NoNumberYet
<1> QED
  BY <1>1, <1>2, <1>3, <1>4 DEF ChildStates

\* There is at most one daemon or child on the way to it, also when process
\* numbers are used again and a start dies half way.
THEOREM OneDaemon ==
    ASSUME Serial
    PROVE  DaemonSpec => []AtMostOneDaemon
<1>1. DaemonInv => AtMostOneDaemon
  <2> SUFFICES ASSUME DaemonInv PROVE AtMostOneDaemon
    OBVIOUS
  <2> DEFINE S == {p \in Pids : proc[p].pc \in ChildStates \cup {"up", "daemon"}}
  <2>1. \A p, q \in S : p = q
    BY OneOnTheWay
  <2>2. CASE S = {}
    BY <2>2, FS_EmptySet DEF AtMostOneDaemon
  <2>3. CASE S # {}
    <3>1. PICK p : S = {p}
      BY <2>1, <2>3
    <3>2. Cardinality(S) = 1
      BY <3>1, FS_Singleton
    <3> QED
      BY <3>2 DEF AtMostOneDaemon
  <2> QED
    BY <2>2, <2>3
<1> QED
  BY <1>1, InvAlways, PTL

-----------------------------------------------------------------------------
(* The types, and what the commands rely on, also when starts are issued   *)
(* side by side.                                                           *)

\* A record of a process: the loop of daemonStop has not made more rounds than
\* it may, and who sends a signal has a process number to send it to.
Sane(r) ==
    /\ r \in Recs /\ r.polls <= Polls
    /\ r.pc \notin {"poll", "gaveup"} => r.polls = 0
    /\ r.pc = "poll" => r.polls < Polls
    /\ r.pc \in {"kill", "poll", "probe"} => r.target \in Pids

\* Inductive: the types, with the above of every process.
CommandInv ==
    /\ file \in Pids \cup {"absent", "empty"}
    /\ writers \subseteq {p \in Pids : proc[p].pc = "write"}
    /\ proc \in [Pids -> Recs] /\ \A p \in Pids : Sane(proc[p])

\* Signals have receivers, and daemonStop's loop has an end.
SignalsHaveTargets ==
    \A p \in Pids : /\ At(p, "kill") \/ At(p, "poll") \/ At(p, "probe") => proc[p].target \in Pids
                    /\ At(p, "poll") => proc[p].polls < Polls

\* The record of a process that is not there.
LEMMA IdleSane == Sane(Idle)
BY IdleRec, DaemonAssumption DEF Sane, Idle, Recs, DaemonAssumption

\* A step of one process that leaves the file, or puts something in it.
LEMMA SaneOne ==
    ASSUME CommandInv, NEW p \in Pids, NEW r, Sane(r), proc' = [proc EXCEPT ![p] = r],
           file' \in Pids \cup {"absent", "empty"},
           \A x \in writers' : x \in writers \cup {p} /\ (x = p => r.pc = "write")
    PROVE  CommandInv'
<1>1. proc'[p] = r /\ \A x \in Pids \ {p} : proc'[x] = proc[x]
  BY DEF CommandInv
<1>2. proc' \in [Pids -> Recs]
  BY DEF CommandInv, Sane
<1>3. \A x \in Pids : Sane(proc'[x])
  BY <1>1 DEF CommandInv
<1>4. writers' \subseteq {x \in Pids : proc'[x].pc = "write"}
  BY <1>1 DEF CommandInv
<1> QED
  BY <1>2, <1>3, <1>4 DEF CommandInv, Sane

\* Going on to a place where no number is needed.
LEMMA SaneGoing ==
    ASSUME CommandInv, NEW p \in Pids, NEW l \in PcStates,
           l \notin {"kill", "poll", "gaveup", "probe"},
           l = "free" \/ proc[p].pc \notin {"poll", "gaveup"}
    PROVE  Sane(Going(p, l)) /\ Going(p, l).pc = l
<1>1. CASE l = "free"
  BY <1>1, IdleSane, IdleRec DEF Going
<1>2. CASE l # "free"
  <2>1. Going(p, l) = [proc[p] EXCEPT !.pc = l]
    BY <1>2 DEF Going
  <2>2. Sane(proc[p]) /\ proc[p] \in Recs
    BY DEF CommandInv
  <2>3. [proc[p] EXCEPT !.pc = l] \in Recs
    BY <2>2 DEF Recs
  <2>4. [proc[p] EXCEPT !.pc = l].pc = l /\ [proc[p] EXCEPT !.pc = l].polls = proc[p].polls
    BY <2>2 DEF Recs
  <2> HIDE DEF Recs
  <2>5. proc[p].polls = 0 /\ proc[p].polls <= Polls
    BY <1>2, <2>2 DEF Sane
  <2> QED
    BY <2>1, <2>3, <2>4, <2>5 DEF Sane
<1> QED
  BY <1>1, <1>2

\* The same as a step.
LEMMA SaneGoto ==
    ASSUME CommandInv, NEW p \in Pids, NEW l \in PcStates, Goto(p, l),
           l \notin {"kill", "poll", "gaveup", "probe"},
           l = "free" \/ proc[p].pc \notin {"poll", "gaveup"},
           file' \in Pids \cup {"absent", "empty"},
           \A x \in writers' : x \in writers \cup {p} /\ (x = p => l = "write")
    PROVE  CommandInv'
BY SaneGoing, SaneOne DEF Goto

\* The number that stop or restart has read is a process number.
LEMMA SaneReads ==
    ASSUME CommandInv, NEW p \in Pids, proc[p].pc \in {"stop", "restart"}, file \in Pids,
           NEW l \in {"kill", "probe"}, Reads(p, l), UNCHANGED <<file, writers>>
    PROVE  CommandInv'
<1> DEFINE r == [proc[p] EXCEPT !.pc = l, !.target = file]
<1>1. proc[p] \in Recs /\ Sane(proc[p])
  BY DEF CommandInv
<1>2. r \in Recs /\ r.pc = l /\ r.target = file /\ r.polls = proc[p].polls
  BY <1>1 DEF Recs, PcStates, CommandStates
<1>3. proc' = [proc EXCEPT ![p] = r]
  BY DEF Reads, CommandInv
<1>4. \A x \in writers : x # p
  BY DEF CommandInv
<1> HIDE DEF r
<1>5. proc[p].polls = 0 /\ 0 <= Polls
  BY <1>1, DaemonAssumption DEF Sane, DaemonAssumption
<1>6. Sane(r)
  BY <1>2, <1>5 DEF Sane
<1> QED
  BY <1>3, <1>4, <1>6, SaneOne DEF CommandInv

\* SIGQUIT keeps both records, the sender's and the receiver's.
LEMMA SaneQuit ==
    ASSUME CommandInv, NEW p \in Pids, proc[p].pc \in {"kill", "poll"}, NEW next, Sane(next),
           SendQuit(p, next), file' = file
    PROVE  CommandInv'
<1> DEFINE q == proc[p].target
           r == Going(q, Quit(q))
<1>1. /\ proc' = IF p = q THEN [proc EXCEPT ![p] = Idle]
                 ELSE [proc EXCEPT ![p] = next, ![q] = r]
      /\ writers' = IF Quit(q) = "free" THEN writers \ {q} ELSE writers
  BY DEF SendQuit
<1>2. q \in Pids /\ p \notin writers
  BY DEF CommandInv, Sane
<1>3. CASE p = q
  <2>1. proc' = [proc EXCEPT ![p] = Idle] /\ \A x \in writers' : x \in writers /\ x # p
    BY <1>1, <1>2, <1>3
  <2> HIDE DEF q
  <2> QED
    BY <2>1, IdleSane, SaneOne DEF CommandInv
<1>4. CASE p # q
  <2>1. /\ Quit(q) \in {"exiting", "ended", "free"}
        /\ Quit(q) # "free" => proc[q].pc \in {"daemon", "exiting", "ended"}
    BY DEF Quit, At
  <2>2. Sane(r) /\ r.pc = Quit(q)
    BY <1>2, <2>1, SaneGoing DEF PcStates
  <2> HIDE DEF q, r
  <2>3. /\ proc'[p] = next /\ proc'[q] = r
        /\ \A x \in Pids \ {p, q} : proc'[x] = proc[x]
    BY <1>1, <1>2, <1>4 DEF CommandInv
  <2>4. proc' \in [Pids -> Recs]
    BY <1>1, <1>2, <1>4, <2>2 DEF CommandInv, Sane
  <2>5. \A x \in Pids : Sane(proc'[x])
    BY <2>2, <2>3 DEF CommandInv
  <2>6. \A x \in writers' : x # p /\ x # q /\ x \in writers
    BY <1>1, <1>2, <2>1 DEF CommandInv
  <2>7. writers' \subseteq {x \in Pids : proc'[x].pc = "write"}
    BY <2>3, <2>6 DEF CommandInv
  <2> QED
    BY <2>4, <2>5, <2>7 DEF CommandInv
<1> QED
  BY <1>3, <1>4

\* The steps of a start and of the daemon.
LEMMA SaneLife ==
    ASSUME CommandInv, NEW p \in Pids,
           \/ StartReads(p) \/ OpenPidFile(p) \/ WritePid(p) \/ Null(p) \/ Handles(p)
           \/ Exits(p) \/ UnlinkPidFile(p) \/ Vanishes(p) \/ Crashes(p)
    PROVE  CommandInv'
<1> USE DEF PcStates, ChildStates, CommandStates, At
<1>0. /\ file \in Pids \cup {"absent", "empty"}
      /\ \A x \in writers : x \in Pids /\ proc[x].pc = "write"
  BY DEF CommandInv
<1>1. CASE StartReads(p)
  BY <1>0, <1>1, SaneGoto DEF StartReads
<1>2. CASE OpenPidFile(p)
  BY <1>0, <1>2, SaneGoto DEF OpenPidFile
<1>3. CASE WritePid(p)
  BY <1>0, <1>3, SaneGoto DEF WritePid
<1>4. CASE Null(p)
  BY <1>0, <1>4, SaneGoto DEF Null
<1>5. CASE Handles(p)
  BY <1>0, <1>5, SaneGoto DEF Handles
<1>6. CASE Exits(p)
  BY <1>0, <1>6, SaneGoto DEF Exits
<1>7. CASE UnlinkPidFile(p)
  BY <1>0, <1>7, SaneGoto DEF UnlinkPidFile
<1>8. CASE Vanishes(p)
  BY <1>0, <1>8, SaneGoto DEF Vanishes
<1>9. CASE Crashes(p)
  BY <1>0, <1>9, SaneGoto DEF Crashes
<1> QED
  BY <1>1, <1>2, <1>3, <1>4, <1>5, <1>6, <1>7, <1>8, <1>9

\* A command that is issued, and a child that is forked.
LEMMA SaneNew ==
    ASSUME CommandInv, NEW p \in Pids, Fork(p) \/ \E c \in Commands : Issue(p, c)
    PROVE  CommandInv'
<1>0. /\ file \in Pids \cup {"absent", "empty"}
      /\ \A x \in writers : x \in Pids /\ proc[x].pc = "write"
  BY DEF CommandInv
<1>1. ASSUME NEW c \in Commands, Issue(p, c) PROVE CommandInv'
  <2> DEFINE r == [Idle EXCEPT !.pc = c, !.cmd = c]
  <2>1. c \in {"start", "stop", "restart"}
    BY DaemonAssumption DEF DaemonAssumption
  <2>2. Idle.polls = 0
    BY DEF Idle
  <2>3. r \in Recs /\ r.pc = c /\ r.polls = 0
    BY <2>1, <2>2, IdleRec DEF Recs, PcStates, CommandStates
  <2>4. proc' = [proc EXCEPT ![p] = r] /\ UNCHANGED <<file, writers>> /\ proc[p].pc = "free"
    BY <1>1 DEF Issue, Alive
  <2> HIDE DEF r
  <2>5. Sane(r)
    BY <2>1, <2>3, DaemonAssumption DEF Sane, DaemonAssumption
  <2> QED
    BY <1>0, <2>4, <2>5, SaneOne
<1>2. CASE Fork(p)
  <2>1. proc[p].pc = "fork" /\ UNCHANGED <<file, writers>>
    BY <1>2 DEF Fork, At
  <2>2. CASE Goto(p, "free")
    BY <1>0, <2>1, <2>2, SaneGoto DEF PcStates
  <2>3. ASSUME NEW c \in Pids, ~Alive(c),
               proc' = [proc EXCEPT ![p] = Idle, ![c] = [Idle EXCEPT !.pc = "open"]]
        PROVE  CommandInv'
    <3> DEFINE r == [Idle EXCEPT !.pc = "open"]
    <3>1. r = [pc |-> "open", cmd |-> "start", target |-> NoPid, polls |-> 0]
      BY DEF Idle
    <3>2. r \in Recs /\ r.pc = "open" /\ r.polls = 0
      BY <3>1 DEF Recs, PcStates, ChildStates
    <3> HIDE DEF r
    <3>3. Sane(r)
      BY <3>2, DaemonAssumption DEF Sane, DaemonAssumption
    <3>4. proc[c].pc = "free" /\ c # p
      BY <2>1, <2>3 DEF Alive
    <3>5. /\ proc'[p] = Idle /\ proc'[c] = r
          /\ \A x \in Pids \ {p, c} : proc'[x] = proc[x]
      BY <2>3, <3>4 DEF CommandInv, r
    <3>6. proc' \in [Pids -> Recs]
      BY <2>3, <3>2, IdleRec DEF CommandInv, r
    <3>7. \A x \in Pids : Sane(proc'[x])
      BY <3>3, <3>5, IdleSane DEF CommandInv
    <3>8. writers' \subseteq {x \in Pids : proc'[x].pc = "write"}
      BY <1>0, <2>1, <3>4, <3>5
    <3> QED
      BY <2>1, <3>6, <3>7, <3>8 DEF CommandInv
  <2> QED
    BY <1>2, <2>2, <2>3 DEF Fork
<1> QED
  BY <1>1, <1>2

\* The steps of daemonStop and daemonRestart.
LEMMA SaneStop ==
    ASSUME CommandInv, NEW p \in Pids,
           StopReads(p) \/ Kill(p) \/ Poll(p) \/ GivesUp(p) \/ RestartReads(p) \/ Probe(p)
    PROVE  CommandInv'
<1>0. /\ file \in Pids \cup {"absent", "empty"} /\ proc[p] \in Recs /\ Sane(proc[p])
      /\ \A x \in writers : x \in Pids /\ proc[x].pc = "write"
  BY DEF CommandInv
<1>1. CASE StopReads(p)
  <2>1. proc[p].pc = "stop" /\ UNCHANGED <<file, writers>>
    BY <1>1 DEF StopReads, At
  <2>2. CASE file \in Pids
    BY <1>1, <2>1, <2>2, SaneReads DEF StopReads
  <2>3. CASE file \notin Pids
    BY <1>0, <1>1, <2>1, <2>3, SaneGoto DEF StopReads, PcStates
  <2> QED
    BY <2>2, <2>3
<1>2. CASE Kill(p)
  <2>1. proc[p].pc = "kill" /\ file' = file /\ proc[p].polls = 0 /\ proc[p].target \in Pids
    BY <1>0, <1>2 DEF Kill, At, Sane
  <2>2. CASE Alive(proc[p].target)
    <3> DEFINE r == [proc[p] EXCEPT !.pc = "poll"]
    <3>1. SendQuit(p, r)
      BY <1>2, <2>2 DEF Kill, Going
    <3>2. r \in Recs /\ r.pc = "poll" /\ r.target = proc[p].target /\ r.polls = proc[p].polls
      BY <1>0 DEF Recs, PcStates, CommandStates
    <3>3. Polls \in Nat /\ 0 < Polls
      BY DaemonAssumption DEF DaemonAssumption
    <3> HIDE DEF r
    <3>4. Sane(r)
      BY <2>1, <3>2, <3>3 DEF Sane
    <3> QED
      BY <2>1, <3>1, <3>4, SaneQuit
  <2>3. CASE ~Alive(proc[p].target)
    BY <1>0, <1>2, <2>1, <2>3, SaneGoto DEF Kill, PcStates
  <2> QED
    BY <2>2, <2>3
<1>3. CASE Poll(p)
  <2> DEFINE n == proc[p].polls + 1
             l == IF n = Polls THEN "gaveup" ELSE "poll"
             r == [proc[p] EXCEPT !.polls = n, !.pc = l]
  <2>1. /\ proc[p].pc = "poll" /\ file' = file /\ proc[p].target \in Pids
        /\ proc[p].polls < Polls
    BY <1>0, <1>3 DEF Poll, At, Sane
  <2>2. CASE Alive(proc[p].target)
    <3>1. SendQuit(p, r)
      BY <1>3, <2>2 DEF Poll
    <3>2. /\ l \in {"poll", "gaveup"} /\ n \in Nat
          /\ n <= Polls /\ (l = "poll" => n < Polls)
      <4>1. proc[p].polls \in Nat /\ Polls \in Nat
        BY <1>0, DaemonAssumption DEF Recs, DaemonAssumption
      <4> QED
        BY <2>1, <4>1
    <3> HIDE DEF l, n
    <3>3. r \in Recs /\ r.pc = l /\ r.polls = n /\ r.target = proc[p].target
      BY <1>0, <3>2 DEF Recs, PcStates, CommandStates
    <3> HIDE DEF r
    <3>4. Sane(r)
      BY <2>1, <3>2, <3>3 DEF Sane
    <3> QED
      BY <2>1, <3>1, <3>4, SaneQuit
  <2>3. CASE ~Alive(proc[p].target)
    <3> DEFINE s == [Idle EXCEPT !.pc = "start", !.cmd = "restart"]
    <3>1. proc' = [proc EXCEPT ![p] = IF proc[p].cmd = "stop" THEN Idle ELSE s]
          /\ writers' = writers
      BY <1>3, <2>3 DEF Poll, Stopped
    <3>2. Idle.polls = 0
      BY DEF Idle
    <3>3. s \in Recs /\ s.pc = "start" /\ s.polls = 0
      BY <3>2, IdleRec DEF Recs, PcStates, CommandStates
    <3> HIDE DEF s
    <3>4. Sane(s)
      BY <3>3, DaemonAssumption DEF Sane, DaemonAssumption
    <3>5. Sane(IF proc[p].cmd = "stop" THEN Idle ELSE s)
      BY <3>4, IdleSane
    <3> QED
      BY <1>0, <2>1, <3>1, <3>5, SaneOne
  <2> QED
    BY <2>2, <2>3
<1>4. CASE GivesUp(p)
  BY <1>0, <1>4, SaneGoto DEF GivesUp, At, PcStates
<1>5. CASE RestartReads(p)
  <2>1. proc[p].pc = "restart" /\ UNCHANGED <<file, writers>>
    BY <1>5 DEF RestartReads, At
  <2>2. CASE file \in Pids
    BY <1>5, <2>1, <2>2, SaneReads DEF RestartReads
  <2>3. CASE file \notin Pids
    BY <1>0, <1>5, <2>1, <2>3, SaneGoto DEF RestartReads, PcStates, CommandStates
  <2> QED
    BY <2>2, <2>3
<1>6. CASE Probe(p)
  BY <1>0, <1>6, SaneGoto DEF Probe, At, PcStates, CommandStates
<1> QED
  BY <1>1, <1>2, <1>3, <1>4, <1>5, <1>6

\* The commands' invariant holds in every behaviour, whatever Serial is.
LEMMA SaneAlways == DaemonSpec => []CommandInv
<1>1. DaemonInit => CommandInv
  BY IdleSane, IdleRec DEF DaemonInit, CommandInv
<1>2. CommandInv /\ [DaemonNext]_daemonVars => CommandInv'
  <2> SUFFICES ASSUME CommandInv, [DaemonNext]_daemonVars PROVE CommandInv'
    OBVIOUS
  <2>1. CASE UNCHANGED daemonVars
    BY <2>1 DEF daemonVars, CommandInv
  <2> QED
    BY <2>1, SaneLife, SaneNew, SaneStop DEF DaemonNext, CommandStep
<1> QED
  BY <1>1, <1>2, PTL DEF DaemonSpec, DaemonSafeSpec

\* Types of pid file and processes, for starts issued side by side as well: no
\* loop of daemonStop makes more rounds than it may.
THEOREM DaemonTypeCorrect == DaemonSpec => []DaemonTypeOK
<1>1. CommandInv => DaemonTypeOK
  <2> SUFFICES ASSUME CommandInv PROVE DaemonTypeOK
    OBVIOUS
  <2>1. Polls \in Nat
    BY DaemonAssumption DEF DaemonAssumption
  <2>2. ASSUME NEW p \in Pids
        PROVE  proc[p] \in [pc : PcStates, cmd : {"start", "stop", "restart"},
                            target : Pids \cup {NoPid}, polls : 0..Polls]
    <3>1. proc[p] \in Recs /\ proc[p].polls \in 0..Polls
      BY <2>1 DEF CommandInv, Sane, Recs
    <3> QED
      BY <3>1 DEF Recs
  <2> QED
    BY <2>2 DEF CommandInv, DaemonTypeOK
<1> QED
  BY <1>1, SaneAlways, PTL

\* stop and restart never send a signal without a process number to send it
\* to, whatever becomes of the pid file after they have read it, and the loop
\* of daemonStop begins no round after the last.
THEOREM SignalsAimed == DaemonSpec => []SignalsHaveTargets
<1>1. CommandInv => SignalsHaveTargets
  BY DEF CommandInv, SignalsHaveTargets, Sane, At
<1> QED
  BY <1>1, SaneAlways, PTL

=============================================================================
