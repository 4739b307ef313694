---------------------------- MODULE LoggerProofs ----------------------------
(***************************************************************************)
(* Proofs about Logger, for any threads, period, length of a minute and    *)
(* number of seconds: first the types and the names of files, which hold   *)
(* whatever threads do, then the properties, which speak of the time until *)
(* a thread is overtaken.                                                  *)
(***************************************************************************)
EXTENDS Logger, TLAPS

-----------------------------------------------------------------------------
(* Types and names *)

\* Strengthening: dup2 has the descriptor that open returned.
DupHasFile == \A t \in Threads : pc[t] = "dup" => opened[t] # None

\* A file is never under two names, rotated or current.
OneName ==
    /\ \A m, n \in DOMAIN rotated : rotated[m] = rotated[n] => m = n
    /\ \A m \in DOMAIN rotated : rotated[m] # current

\* A number in a range.
LEMMA Ranges ==
    ASSUME NEW f \in Nat
    PROVE  /\ 1..f \subseteq 1..f + 1 /\ f + 1 \in 1..f + 1 /\ f + 1 \notin 1..f
           /\ 0..f \subseteq 0..f + 1 /\ f \in 0..f /\ 0 \in 0..f
           /\ None \notin 1..f
BY LoggerAssumption DEF LoggerAssumption

\* What a sequence holds after one more element.
LEMMA Appended ==
    ASSUME NEW S, NEW s \in Seq(S), NEW e \in S
    PROVE  /\ Append(s, e) \in Seq(S)
           /\ \A i \in DOMAIN Append(s, e) :
                  \/ i \in DOMAIN s /\ Append(s, e)[i] = s[i]
                  \/ i = Len(s) + 1 /\ Append(s, e)[i] = e
           /\ \A i \in DOMAIN s : s[i] \in S
OBVIOUS

\* A minute is no later number than its seconds.
LEMMA MinuteSmaller ==
    ASSUME NEW x \in 0..MaxTime
    PROVE  Minute(x) \in 0..MaxTime
<1>1. MinuteLength \in Nat \ {0} /\ MaxTime \in Nat /\ x \in Nat /\ x <= MaxTime
  BY LoggerAssumption DEF LoggerAssumption
<1> DEFINE q == Minute(x)
<1>2. q \in Nat /\ MinuteLength * q <= x
  BY <1>1 DEF Minute
<1> HIDE DEF q
<1>3. \A m \in Nat \ {0}, y \in Nat : m * y \in Nat /\ y <= m * y
  OBVIOUS
<1>4. MinuteLength * q \in Nat /\ q <= MinuteLength * q
  BY <1>1, <1>2, <1>3
<1>5. q <= MaxTime
  BY <1>1, <1>2, <1>4
<1> QED
  BY <1>1, <1>2, <1>5 DEF q

\* Every step keeps the type of each variable.
LEMMA TypeStep ==
    ASSUME TypeOK, files \in Nat, DupHasFile, [Next]_vars
    PROVE  TypeOK' /\ files' \in Nat /\ DupHasFile'
<1> DEFINE Goal == TypeOK' /\ files' \in Nat /\ DupHasFile'
<1>0. clock \in Nat /\ MaxTime \in Nat
  BY LoggerAssumption DEF LoggerAssumption, TypeOK
<1> USE DEF TypeOK, DupHasFile, sharedVars, fileVars, historyVars, Rotating, Deciding, Renaming
<1>1. CASE UNCHANGED vars
  BY <1>1 DEF vars
<1>2. CASE Tick
  <2>1. clock' = clock + 1 /\ clock' \in 0..MaxTime /\ 0..clock \subseteq 0..clock'
    BY <1>0, <1>2, Ranges DEF Tick
  <2> QED
    BY <1>2, <2>1 DEF Tick
<1>3. ASSUME NEW t \in Threads, Enter(t) PROVE Goal
  BY <1>0, <1>3, Ranges DEF Enter, Goto
<1>4. ASSUME NEW t \in Threads, Test(t) PROVE Goal
  BY <1>4 DEF Test, Goto
<1>5. ASSUME NEW t \in Threads, Store(t) PROVE Goal
  BY <1>5 DEF Store, Goto
<1>6. ASSUME NEW t \in Threads, Swap(t) PROVE Goal
  BY <1>6 DEF Swap, Goto
<1>7. ASSUME NEW t \in Threads, Compare(t) PROVE Goal
  BY <1>7 DEF Compare, Goto
<1>8. ASSUME NEW t \in Threads, Rename(t) PROVE Goal
  <2>1. CASE /\ current # None
             /\ rotated' = [m \in DOMAIN rotated \cup {Minute(now[t])} |->
                               IF m = Minute(now[t]) THEN current ELSE rotated[m]]
             /\ current' = None
             /\ Goto(t, "open")
    <3>1. now[t] \in 0..MaxTime
      BY <1>0
    <3>2. DOMAIN rotated' = DOMAIN rotated \cup {Minute(now[t])} /\ Minute(now[t]) \in 0..MaxTime
      BY <2>1, <3>1, MinuteSmaller
    <3>3. \A m \in DOMAIN rotated' : rotated'[m] \in 1..files
      BY <2>1
    <3>4. rotations' = Append(rotations, now[t]) \/ rotations' = rotations
      BY <1>8 DEF Rename
    <3>5. rotations \in Seq(0..MaxTime)
      OBVIOUS
    <3>6. Append(rotations, now[t]) \in Seq(0..MaxTime)
      BY ONLY <3>1, <3>5, Appended
    <3>7. rotations' \in Seq(0..MaxTime)
      BY ONLY <3>4, <3>5, <3>6
    <3> QED
      BY <1>8, <2>1, <3>2, <3>3, <3>7 DEF Rename, Goto
  <2>2. CASE Goto(t, "write") /\ UNCHANGED <<current, rotated>>
    BY <1>8, <2>2 DEF Rename, Goto
  <2> QED
    BY <1>8, <2>1, <2>2 DEF Rename
<1>9. ASSUME NEW t \in Threads, Open(t) PROVE Goal
  <2>1. CASE opened' = [opened EXCEPT ![t] = current'] /\ current # None
    BY <1>9, <2>1 DEF Open, Goto
  <2>2. CASE opened' = [opened EXCEPT ![t] = current'] /\ current = None
    <3>1. \/ files' = files + 1 /\ current' = files + 1
          \/ UNCHANGED <<files, current, opened>>
      BY <1>9, <2>2 DEF Open
    <3>2. CASE files' = files + 1 /\ current' = files + 1
      <4>1. /\ 1..files \subseteq 1..files' /\ current' \in 1..files' /\ current' # None
            /\ files' \in Nat
        BY <3>2, Ranges
      <4>2. pc' = [pc EXCEPT ![t] = "dup"] \/ pc' = [pc EXCEPT ![t] = "write"]
        BY <1>9 DEF Open, Goto
      <4>3. pc' \in [Threads -> Rotating \cup {"out", "write"}]
        BY <4>2
      <4>4. opened' \in [Threads -> 1..files' \cup {None}]
        BY <2>2, <4>1
      <4>5. DupHasFile'
        BY <2>2, <4>1, <4>2
      <4> QED
        BY <1>9, <4>1, <4>3, <4>4, <4>5 DEF Open
    <3>3. CASE UNCHANGED <<files, current, opened>>
      BY <1>9, <2>2, <3>3, Ranges DEF Open, Goto
    <3> QED
      BY <3>1, <3>2, <3>3
  <2>3. CASE Goto(t, "write") /\ UNCHANGED <<files, current, opened>>
    BY <1>9, <2>3 DEF Open, Goto
  <2> QED
    BY <1>9, <2>1, <2>2, <2>3 DEF Open
<1>10. ASSUME NEW t \in Threads, Dup(t) PROVE Goal
  BY <1>10 DEF Dup, At, Goto
<1>11. ASSUME NEW t \in Threads, Write(t) PROVE Goal
  BY <1>0, <1>11, Ranges DEF Write, Goto
<1> QED
  BY <1>1, <1>2, <1>3, <1>4, <1>5, <1>6, <1>7, <1>8, <1>9, <1>10, <1>11 DEF Next

\* A file is moved to another name or is new: it never gets a second one.
LEMMA NameStep ==
    ASSUME TypeOK, files \in Nat, OneName, [Next]_vars
    PROVE  OneName'
<1> USE DEF OneName
<1>0. None \notin 1..files /\ files + 1 \notin 1..files
  BY Ranges
<1>1. CASE UNCHANGED <<rotated, current>>
  BY <1>1
<1>2. ASSUME NEW t \in Threads, Rename(t) PROVE OneName'
  <2>1. CASE /\ current # None
             /\ rotated' = [m \in DOMAIN rotated \cup {Minute(now[t])} |->
                               IF m = Minute(now[t]) THEN current ELSE rotated[m]]
             /\ current' = None
    BY <1>0, <2>1 DEF TypeOK
  <2> QED
    BY <1>1, <1>2, <2>1 DEF Rename
<1>3. ASSUME NEW t \in Threads, Open(t) PROVE OneName'
  <2>1. rotated' = rotated /\ (current' = current \/ current' = files + 1)
    BY <1>3 DEF Open
  <2> QED
    BY <1>0, <2>1 DEF TypeOK
<1> QED
  BY <1>1, <1>2, <1>3 DEF Next, Tick, Enter, Test, Store, Swap, Compare, Dup, Write,
     sharedVars, fileVars, vars

\* The types, with the two facts they need, hold in every behaviour.
TypeInv == TypeOK /\ files \in Nat /\ DupHasFile

LEMMA TypeAlways == Spec => []TypeInv
<1>1. Init => TypeInv
  <2> SUFFICES ASSUME Init PROVE TypeInv
    OBVIOUS
  <2>1. MaxTime \in Nat /\ DOMAIN rotated = {}
    BY LoggerAssumption DEF LoggerAssumption, Init
  <2> QED
    BY <2>1 DEF Init, TypeOK, DupHasFile, Rotating, TypeInv
<1>2. TypeInv /\ [Next]_vars => TypeInv'
  BY TypeStep DEF TypeInv
<1> QED
  BY <1>1, <1>2, PTL DEF Spec

\* The state of the logger has the types of TypeOK, also when threads stay in
\* maybeRotate for periods: m_fd refers to a file in every state, the minutes
\* stored and swapped are past ones, and dup2 never gets a descriptor that
\* open has not returned.
THEOREM LoggerTypeCorrect == Spec => [](TypeOK /\ DupHasFile)
<1>1. TypeInv => TypeOK /\ DupHasFile
  BY DEF TypeInv
<1> QED
  BY <1>1, TypeAlways, PTL

\* However late threads go on with a rotation, no file has two names: a
\* rotation that comes twice may take a name away, but it never makes two
\* files of one or leaves the current one among the rotated.
THEOREM NamesAreOne == Spec => []OneName
<1>1. Init => OneName
  <2> SUFFICES ASSUME Init PROVE OneName
    OBVIOUS
  <2>1. DOMAIN rotated = {}
    BY DEF Init
  <2> QED
    BY <2>1 DEF OneName
<1>2. TypeInv /\ OneName /\ [Next]_vars => OneName'
  BY NameStep DEF TypeInv
<1> QED
  BY <1>1, <1>2, TypeAlways, PTL DEF Spec

-----------------------------------------------------------------------------
(* Periods *)

\* Periods follow each other.
LEMMA PeriodGrows ==
    ASSUME NEW a \in Nat, NEW b \in Nat, a <= b
    PROVE  Period(a) \in Nat /\ Period(b) \in Nat /\ Period(a) <= Period(b)
<1>1. Interval \in Nat \ {0}
  BY LoggerAssumption DEF LoggerAssumption
<1>2. Period(a) \in Nat /\ Period(b) \in Nat
  BY <1>1 DEF Period
<1> DEFINE q == Period(a)
           r == Period(b)
<1>3. Interval * q <= a /\ b < Interval * r + Interval
  BY <1>1 DEF Period
<1>4. ~(r + 1 <= q)
  <2> SUFFICES ASSUME r + 1 <= q PROVE FALSE
    OBVIOUS
  <2> HIDE DEF q, r
  <2>1. \A i, x, y \in Nat : x + 1 <= y => i * x + i <= i * y
    OBVIOUS
  <2>2. Interval * r + Interval <= Interval * q
    BY <1>1, <1>2, <2>1 DEF q, r
  <2>3. Interval * r \in Nat /\ Interval * q \in Nat
    BY <1>1, <1>2 DEF q, r
  <2> QED
    BY <1>1, <1>3, <2>2, <2>3
<1> QED
  BY <1>2, <1>4

\* The types once more, in the form that the steps below use.
LogTypes ==
    /\ clock \in Nat /\ m_lastRotate \in Nat /\ m_realRotate \in Nat
    /\ m_lastRotate <= clock
    /\ pc \in [Threads -> Rotating \cup {"out", "write"}]
    /\ now \in [Threads -> Nat] /\ old \in [Threads -> Nat]
    /\ opened \in [Threads -> Nat \cup {None}]
    /\ files \in Nat
    /\ rotations \in Seq(Nat)

\* They follow from the types proved above.
LEMMA Types == TypeInv => LogTypes
<1> SUFFICES ASSUME TypeInv PROVE LogTypes
  OBVIOUS
<1>1. TypeOK /\ files \in Nat /\ clock \in Nat /\ MaxTime \in Nat
  BY LoggerAssumption DEF TypeInv, TypeOK, LoggerAssumption
<1>2. /\ pc \in [Threads -> Rotating \cup {"out", "write"}]
      /\ now \in [Threads -> Nat] /\ old \in [Threads -> Nat]
      /\ opened \in [Threads -> Nat \cup {None}]
  BY <1>1 DEF TypeOK
<1>3. m_lastRotate \in Nat /\ m_realRotate \in Nat /\ m_lastRotate <= clock
  BY <1>1 DEF TypeOK
<1>4. rotations \in Seq(Nat)
  BY <1>1 DEF TypeOK
<1> QED
  BY <1>1, <1>2, <1>3, <1>4 DEF LogTypes

-----------------------------------------------------------------------------
(* Who rotates *)

\* The thread that the exchange has chosen to rotate.
Chosen(t) ==
    \/ pc[t] \in Renaming
    \/ pc[t] = "compare" /\ Period(old[t]) # Period(now[t])

\* Strengthening: m_lastRotate is not ahead of a thread that is deciding, and
\* of the period of one that has stored it; m_realRotate is not ahead either.
TimesInStep ==
    /\ \A t \in Threads : pc[t] \in Deciding => Period(m_lastRotate) <= Period(now[t])
    /\ \A t \in Threads : pc[t] \in {"swap", "compare"} => Period(now[t]) = Period(m_lastRotate)
    /\ Period(m_realRotate) <= Period(m_lastRotate)

\* Strengthening: each period has one chosen thread at most, which comes before
\* the period's rotation and after the exchange that puts it into m_realRotate.
OneChosen ==
    /\ \A t, u \in Threads : Chosen(t) /\ Chosen(u) /\ Period(now[t]) = Period(now[u]) => t = u
    /\ \A t \in Threads : Chosen(t) => Period(now[t]) <= Period(m_realRotate)
    /\ \A t \in Threads : Chosen(t) /\ pc[t] \in {"compare", "rename"} =>
           \A i \in DOMAIN rotations : Period(rotations[i]) # Period(now[t])

\* Strengthening: the rotations so far.
RotationsApart ==
    /\ \A i \in DOMAIN rotations : Period(rotations[i]) <= Period(m_realRotate)
    /\ \A i, j \in DOMAIN rotations : Period(rotations[i]) = Period(rotations[j]) => i = j

Decisions == TimesInStep /\ OneChosen /\ RotationsApart

\* As long as no deciding thread has been overtaken.
DecisionInv == "deciding" \notin overtaken => Decisions

\* Periods are numbers.
LEMMA PeriodIsNat == \A x \in Nat : Period(x) \in Nat
BY LoggerAssumption DEF LoggerAssumption, Period

\* What one thread has overtaken stays so.
LEMMA OvertakenStays == [Next]_vars => overtaken \subseteq overtaken'
BY DEF Next, Tick, Enter, Test, Store, Swap, Compare, Rename, Open, Dup, Write, historyVars, vars

\* A step that neither stores, exchanges nor renames: threads may begin, go on
\* to compare and rename if they are chosen, or leave.
LEMMA QuietStep ==
    ASSUME Decisions, UNCHANGED <<m_lastRotate, m_realRotate, rotations>>,
           \A u \in Threads : pc'[u] \in Deciding =>
               Period(m_lastRotate) <= Period(now'[u]),
           \A u \in Threads : pc'[u] \in {"swap", "compare"} =>
               pc[u] \in {"swap", "compare"} /\ now'[u] = now[u],
           \A u \in Threads : Chosen(u)' =>
               /\ Chosen(u) /\ now'[u] = now[u]
               /\ pc'[u] \in {"compare", "rename"} => pc[u] \in {"compare", "rename"}
    PROVE  Decisions'
<1>1. /\ Period(m_lastRotate') = Period(m_lastRotate)
      /\ Period(m_realRotate') = Period(m_realRotate)
      /\ rotations' = rotations
  OBVIOUS
<1>2. TimesInStep'
  <2>1. \A u \in Threads : pc'[u] \in {"swap", "compare"} => Period(now'[u]) = Period(m_lastRotate')
    BY <1>1 DEF Decisions, TimesInStep
  <2>2. Period(m_realRotate') <= Period(m_lastRotate')
    BY <1>1 DEF Decisions, TimesInStep
  <2> QED
    BY <1>1, <2>1, <2>2 DEF TimesInStep
<1>3. OneChosen'
  <2>1. \A t, u \in Threads : Chosen(t)' /\ Chosen(u)' /\ Period(now'[t]) = Period(now'[u]) => t = u
    BY DEF Decisions, OneChosen
  <2>2. \A t \in Threads : Chosen(t)' => Period(now'[t]) <= Period(m_realRotate')
    BY <1>1 DEF Decisions, OneChosen
  <2>3. \A t \in Threads : Chosen(t)' /\ pc'[t] \in {"compare", "rename"} =>
            \A i \in DOMAIN rotations' : Period(rotations'[i]) # Period(now'[t])
    BY <1>1 DEF Decisions, OneChosen
  <2> QED
    BY <2>1, <2>2, <2>3 DEF OneChosen
<1>4. RotationsApart'
  BY <1>1 DEF Decisions, RotationsApart
<1> QED
  BY <1>2, <1>3, <1>4 DEF Decisions

\* A thread that stores its time overtakes all that would be behind.
LEMMA StoreStep ==
    ASSUME LogTypes, Decisions, NEW t \in Threads, Store(t), "deciding" \notin overtaken'
    PROVE  Decisions'
<1>1. /\ pc[t] = "store" /\ pc' = [pc EXCEPT ![t] = "swap"] /\ m_lastRotate' = now[t]
      /\ UNCHANGED <<m_realRotate, rotations, now, old>>
  BY DEF Store, At, Goto
<1>2. pc'[t] = "swap" /\ \A u \in Threads \ {t} : pc'[u] = pc[u]
  BY <1>1 DEF LogTypes
<1>3. /\ \A u \in Threads : Period(now[u]) \in Nat
      /\ Period(m_lastRotate) \in Nat /\ Period(m_realRotate) \in Nat
  BY PeriodIsNat DEF LogTypes
<1>4. Period(m_lastRotate) <= Period(now[t])
  BY <1>1 DEF Decisions, TimesInStep, Deciding
<1>5. \A u \in Threads \ {t} : pc[u] \in Deciding => Period(now[t]) <= Period(now[u])
  <2> SUFFICES ASSUME NEW u \in Threads \ {t}, pc[u] \in Deciding,
                      ~(Period(now[t]) <= Period(now[u]))
               PROVE  FALSE
    OBVIOUS
  <2>1. Period(now[u]) < Period(now[t])
    BY <1>3
  <2>2. u \in Behind(t)
    BY <2>1 DEF Behind, Rotating
  <2>3. "deciding" \in {IF pc[v] \in Deciding THEN "deciding" ELSE "renaming" : v \in Behind(t)}
    BY <2>2
  <2> QED
    BY <2>3 DEF Store
<1>6. TimesInStep'
  <2>1. \A u \in Threads : pc'[u] \in Deciding => Period(m_lastRotate') <= Period(now'[u])
    BY <1>1, <1>2, <1>3, <1>5
  <2>2. ASSUME NEW u \in Threads, pc'[u] \in {"swap", "compare"}
        PROVE  Period(now'[u]) = Period(m_lastRotate')
    <3>1. CASE u = t
      BY <1>1, <3>1
    <3>2. CASE u # t
      <4>1. pc[u] \in {"swap", "compare"} /\ pc[u] \in Deciding
        BY <1>2, <2>2, <3>2 DEF Deciding
      <4>2. Period(now[u]) = Period(m_lastRotate)
        BY <4>1 DEF Decisions, TimesInStep
      <4>3. Period(now[t]) <= Period(now[u])
        BY <1>5, <3>2, <4>1
      <4>4. Period(now[u]) = Period(now[t])
        BY <1>3, <1>4, <4>2, <4>3
      <4> QED
        BY <1>1, <4>4
    <3> QED
      BY <3>1, <3>2
  <2>3. Period(m_realRotate) <= Period(m_lastRotate)
    BY DEF Decisions, TimesInStep
  <2>4. Period(m_realRotate) <= Period(now[t])
    BY <1>3, <1>4, <2>3
  <2>5. Period(m_realRotate') <= Period(m_lastRotate')
    BY <1>1, <2>4
  <2> QED
    BY <2>1, <2>2, <2>5 DEF TimesInStep
<1>7. ~Chosen(t)' /\ \A u \in Threads \ {t} : Chosen(u)' = Chosen(u)
  BY <1>1, <1>2 DEF Chosen, Renaming
<1>8. OneChosen'
  <2>1. \A v, u \in Threads : Chosen(v)' /\ Chosen(u)' /\ Period(now'[v]) = Period(now'[u]) => v = u
    BY <1>1, <1>7 DEF Decisions, OneChosen
  <2>2. \A u \in Threads : Chosen(u)' => Period(now'[u]) <= Period(m_realRotate')
    BY <1>1, <1>7 DEF Decisions, OneChosen
  <2>3. \A u \in Threads : Chosen(u)' /\ pc'[u] \in {"compare", "rename"} =>
            \A i \in DOMAIN rotations' : Period(rotations'[i]) # Period(now'[u])
    BY <1>1, <1>2, <1>7 DEF Decisions, OneChosen
  <2> QED
    BY <2>1, <2>2, <2>3 DEF OneChosen
<1>9. RotationsApart'
  BY <1>1 DEF Decisions, RotationsApart
<1> QED
  BY <1>6, <1>8, <1>9 DEF Decisions

\* The exchange chooses the first thread of a period, and no other.
LEMMA SwapStep ==
    ASSUME LogTypes, Decisions, NEW t \in Threads, Swap(t)
    PROVE  Decisions'
<1>1. /\ pc[t] = "swap" /\ pc' = [pc EXCEPT ![t] = "compare"]
      /\ old' = [old EXCEPT ![t] = m_realRotate] /\ m_realRotate' = now[t]
      /\ UNCHANGED <<m_lastRotate, rotations, now>>
  BY DEF Swap, At, Goto, historyVars
<1>2. /\ pc'[t] = "compare" /\ old'[t] = m_realRotate
      /\ \A u \in Threads \ {t} : pc'[u] = pc[u] /\ old'[u] = old[u]
  BY <1>1 DEF LogTypes
<1>3. /\ \A u \in Threads : Period(now[u]) \in Nat
      /\ Period(m_lastRotate) \in Nat /\ Period(m_realRotate) \in Nat
      /\ \A i \in DOMAIN rotations : Period(rotations[i]) \in Nat
  <2>1. \A i \in DOMAIN rotations : rotations[i] \in Nat
    BY DEF LogTypes
  <2> QED
    BY <2>1, PeriodIsNat DEF LogTypes
<1>4. /\ Period(now[t]) = Period(m_lastRotate)
      /\ Period(m_realRotate) <= Period(m_lastRotate)
  BY <1>1 DEF Decisions, TimesInStep
<1>5. Period(m_realRotate) <= Period(m_realRotate')
  BY <1>1, <1>4
<1>6. /\ Chosen(t)' <=> Period(m_realRotate) # Period(now[t])
      /\ \A u \in Threads \ {t} : Chosen(u)' = Chosen(u)
  BY <1>1, <1>2 DEF Chosen, Renaming
<1>7. Period(m_realRotate) # Period(now[t]) =>
          /\ \A u \in Threads : Chosen(u) => Period(now[u]) # Period(now[t])
          /\ \A i \in DOMAIN rotations : Period(rotations[i]) # Period(now[t])
  <2> SUFFICES ASSUME Period(m_realRotate) # Period(now[t])
               PROVE  /\ \A u \in Threads : Chosen(u) => Period(now[u]) # Period(now[t])
                      /\ \A i \in DOMAIN rotations : Period(rotations[i]) # Period(now[t])
    OBVIOUS
  <2>1. Period(m_realRotate) < Period(now[t])
    BY <1>3, <1>4
  <2>2. \A u \in Threads : Chosen(u) => Period(now[u]) # Period(now[t])
    BY <1>3, <2>1 DEF Decisions, OneChosen
  <2>3. \A i \in DOMAIN rotations : Period(rotations[i]) # Period(now[t])
    BY <1>3, <2>1 DEF Decisions, RotationsApart
  <2> QED
    BY <2>2, <2>3
<1>8. TimesInStep'
  <2>1. \A u \in Threads : pc'[u] \in Deciding => Period(m_lastRotate') <= Period(now'[u])
    BY <1>1, <1>2 DEF Decisions, TimesInStep, Deciding
  <2>2. \A u \in Threads : pc'[u] \in {"swap", "compare"} => Period(now'[u]) = Period(m_lastRotate')
    BY <1>1, <1>2 DEF Decisions, TimesInStep
  <2>3. Period(m_realRotate') <= Period(m_lastRotate')
    BY <1>1, <1>3, <1>4
  <2> QED
    BY <2>1, <2>2, <2>3 DEF TimesInStep
<1>9. OneChosen'
  <2>1. \A v, u \in Threads : Chosen(v)' /\ Chosen(u)' /\ Period(now'[v]) = Period(now'[u]) => v = u
    BY <1>1, <1>6, <1>7 DEF Decisions, OneChosen
  <2>2. ASSUME NEW u \in Threads, Chosen(u)' PROVE Period(now'[u]) <= Period(m_realRotate')
    <3>1. CASE u = t
      BY <1>1, <1>3, <3>1
    <3>2. CASE u # t
      <4>1. Period(now[u]) <= Period(m_realRotate)
        BY <1>6, <2>2, <3>2 DEF Decisions, OneChosen
      <4>2. Period(now[u]) <= Period(now[t])
        BY <1>1, <1>3, <1>4, <4>1
      <4> QED
        BY <1>1, <4>2
    <3> QED
      BY <3>1, <3>2
  <2>3. \A u \in Threads : Chosen(u)' /\ pc'[u] \in {"compare", "rename"} =>
            \A i \in DOMAIN rotations' : Period(rotations'[i]) # Period(now'[u])
    BY <1>1, <1>2, <1>6, <1>7 DEF Decisions, OneChosen
  <2> QED
    BY <2>1, <2>2, <2>3 DEF OneChosen
<1>10. RotationsApart'
  <2>1. ASSUME NEW i \in DOMAIN rotations PROVE Period(rotations[i]) <= Period(now[t])
    <3>1. Period(rotations[i]) <= Period(m_realRotate)
      BY DEF Decisions, RotationsApart
    <3> QED
      BY <1>3, <1>4, <3>1
  <2> QED
    BY <1>1, <2>1 DEF Decisions, RotationsApart
<1> QED
  BY <1>8, <1>9, <1>10 DEF Decisions

\* The chosen thread renames: its period had no rotation before, and no other
\* thread is chosen for it.
LEMMA RenameStep ==
    ASSUME LogTypes, Decisions, NEW t \in Threads, pc[t] = "rename", Goto(t, "open"),
           rotations' = Append(rotations, now[t]),
           UNCHANGED <<m_lastRotate, m_realRotate, now, old>>
    PROVE  Decisions'
<1>1. pc'[t] = "open" /\ \A u \in Threads \ {t} : pc'[u] = pc[u]
  BY DEF Goto, LogTypes
<1>2. Chosen(t) /\ \A u \in Threads : Chosen(u)' = Chosen(u)
  BY <1>1 DEF Chosen, Renaming
<1>3. \A i \in DOMAIN rotations' :
          \/ i \in DOMAIN rotations /\ rotations'[i] = rotations[i]
          \/ i = Len(rotations) + 1 /\ rotations'[i] = now[t]
  <2>1. rotations \in Seq(Nat) /\ now[t] \in Nat
    BY DEF LogTypes
  <2> QED
    BY <2>1, Appended
<1>4. /\ Period(now[t]) <= Period(m_realRotate)
      /\ \A i \in DOMAIN rotations : Period(rotations[i]) # Period(now[t])
  BY <1>2 DEF Decisions, OneChosen
<1>5. TimesInStep'
  <2>1. \A u \in Threads : pc'[u] \in Deciding => Period(m_lastRotate') <= Period(now'[u])
    BY <1>1 DEF Decisions, TimesInStep, Deciding
  <2>2. \A u \in Threads : pc'[u] \in {"swap", "compare"} => Period(now'[u]) = Period(m_lastRotate')
    BY <1>1 DEF Decisions, TimesInStep
  <2>3. Period(m_realRotate') <= Period(m_lastRotate')
    BY DEF Decisions, TimesInStep
  <2> QED
    BY <2>1, <2>2, <2>3 DEF TimesInStep
<1>6. OneChosen'
  <2>1. \A v, u \in Threads : Chosen(v)' /\ Chosen(u)' /\ Period(now'[v]) = Period(now'[u]) => v = u
    BY <1>2 DEF Decisions, OneChosen
  <2>2. \A u \in Threads : Chosen(u)' => Period(now'[u]) <= Period(m_realRotate')
    BY <1>2 DEF Decisions, OneChosen
  <2>3. ASSUME NEW u \in Threads, Chosen(u)', pc'[u] \in {"compare", "rename"},
               NEW i \in DOMAIN rotations'
        PROVE  Period(rotations'[i]) # Period(now'[u])
    <3>1. u # t /\ pc[u] \in {"compare", "rename"} /\ Chosen(u)
      BY <1>1, <1>2, <2>3
    <3>2. Period(now[u]) # Period(now[t])
      BY <1>2, <3>1 DEF Decisions, OneChosen
    <3>3. \A j \in DOMAIN rotations : Period(rotations[j]) # Period(now[u])
      BY <3>1 DEF Decisions, OneChosen
    <3> QED
      BY <1>3, <3>2, <3>3
  <2> QED
    BY <2>1, <2>2, <2>3 DEF OneChosen
<1>7. RotationsApart'
  <2>1. \A i \in DOMAIN rotations' : Period(rotations'[i]) <= Period(m_realRotate')
    BY <1>3, <1>4 DEF Decisions, RotationsApart
  <2>2. \A i, j \in DOMAIN rotations' : Period(rotations'[i]) = Period(rotations'[j]) => i = j
    BY <1>3, <1>4 DEF Decisions, RotationsApart
  <2> QED
    BY <2>1, <2>2 DEF RotationsApart
<1> QED
  BY <1>5, <1>6, <1>7 DEF Decisions

\* Every step keeps what has been decided, until a deciding thread is overtaken.
LEMMA DecisionStep ==
    ASSUME LogTypes, Decisions, [Next]_vars, "deciding" \notin overtaken'
    PROVE  Decisions'
<1>0. \A u \in Threads : pc[u] \in Deciding => Period(m_lastRotate) <= Period(now[u])
  BY DEF Decisions, TimesInStep
<1>1. CASE UNCHANGED <<m_lastRotate, m_realRotate, rotations, pc, now, old>>
  <2>1. \A u \in Threads : Chosen(u)' = Chosen(u)
    BY <1>1 DEF Chosen
  <2> QED
    BY <1>0, <1>1, <2>1, QuietStep
<1>2. ASSUME NEW t \in Threads, Enter(t) PROVE Decisions'
  <2>1. /\ pc' = [pc EXCEPT ![t] = "test"] /\ now' = [now EXCEPT ![t] = clock]
        /\ UNCHANGED <<m_lastRotate, m_realRotate, rotations, old>>
    BY <1>2 DEF Enter, Goto, sharedVars, historyVars
  <2>2. /\ pc'[t] = "test" /\ now'[t] = clock
        /\ \A u \in Threads \ {t} : pc'[u] = pc[u] /\ now'[u] = now[u]
    BY <2>1 DEF LogTypes
  <2>3. Period(m_lastRotate) <= Period(clock)
    BY PeriodGrows DEF LogTypes
  <2>4. ~Chosen(t)' /\ \A u \in Threads \ {t} : Chosen(u)' = Chosen(u)
    BY <2>1, <2>2 DEF Chosen, Renaming
  <2>5. \A u \in Threads : pc'[u] \in Deciding => Period(m_lastRotate) <= Period(now'[u])
    BY <1>0, <2>2, <2>3
  <2> QED
    BY <2>1, <2>2, <2>4, <2>5, QuietStep
<1>3. ASSUME NEW t \in Threads, Test(t) PROVE Decisions'
  <2>1. /\ pc[t] = "test"
        /\ pc' = [pc EXCEPT ![t] = "write"] \/ pc' = [pc EXCEPT ![t] = "store"]
        /\ UNCHANGED <<m_lastRotate, m_realRotate, rotations, now, old>>
    BY <1>3 DEF Test, At, Goto, sharedVars, historyVars
  <2>2. pc'[t] \in {"write", "store"} /\ \A u \in Threads \ {t} : pc'[u] = pc[u]
    BY <2>1 DEF LogTypes
  <2>3. ~Chosen(t)' /\ \A u \in Threads \ {t} : Chosen(u)' = Chosen(u)
    BY <2>1, <2>2 DEF Chosen, Renaming
  <2>4. \A u \in Threads : pc'[u] \in Deciding => pc[u] \in Deciding
    BY <2>1, <2>2 DEF Deciding
  <2> QED
    BY <1>0, <2>1, <2>2, <2>3, <2>4, QuietStep
<1>4. ASSUME NEW t \in Threads, Store(t) PROVE Decisions'
  BY <1>4, StoreStep
<1>5. ASSUME NEW t \in Threads, Swap(t) PROVE Decisions'
  BY <1>5, SwapStep
<1>6. ASSUME NEW t \in Threads, Compare(t) PROVE Decisions'
  <2>1. /\ pc[t] = "compare"
        /\ \/ pc' = [pc EXCEPT ![t] = "write"]
           \/ /\ pc' = [pc EXCEPT ![t] = "rename"]
              /\ Period(old[t]) # Period(m_lastRotate)
        /\ UNCHANGED <<m_lastRotate, m_realRotate, rotations, now, old>>
    BY <1>6 DEF Compare, At, Goto, sharedVars, historyVars
  <2>2. /\ pc'[t] = "write" \/ (pc'[t] = "rename" /\ Period(old[t]) # Period(m_lastRotate))
        /\ \A u \in Threads \ {t} : pc'[u] = pc[u]
    BY <2>1 DEF LogTypes
  <2>3. Period(now[t]) = Period(m_lastRotate)
    BY <2>1 DEF Decisions, TimesInStep
  <2>4. \A u \in Threads : Chosen(u)' => Chosen(u)
    BY <2>1, <2>2, <2>3 DEF Chosen, Renaming
  <2>5. \A u \in Threads : pc'[u] \in Deciding => pc[u] \in Deciding
    BY <2>2 DEF Deciding
  <2> QED
    BY <1>0, <2>1, <2>2, <2>4, <2>5, QuietStep
<1>7. ASSUME NEW t \in Threads, NEW l \in {"dup", "write", "out"}, Goto(t, l),
             l = "dup" => pc[t] = "open",
             \A u \in Threads \ {t} : now'[u] = now[u] /\ old'[u] = old[u],
             l = "dup" => now'[t] = now[t],
             UNCHANGED <<m_lastRotate, m_realRotate, rotations>>
      PROVE  Decisions'
  <2>1. pc'[t] = l /\ \A u \in Threads \ {t} : pc'[u] = pc[u]
    BY <1>7 DEF Goto, LogTypes
  <2>2. /\ Chosen(t)' => l = "dup" /\ Chosen(t)
        /\ \A u \in Threads \ {t} : Chosen(u)' = Chosen(u)
    BY <1>7, <2>1 DEF Chosen, Renaming
  <2>3. pc'[t] \notin Deciding
    BY <2>1 DEF Deciding
  <2>4. \A u \in Threads : pc'[u] \in Deciding => pc[u] \in Deciding /\ now'[u] = now[u]
    BY <1>7, <2>1, <2>3
  <2>5. pc'[t] \notin {"swap", "compare", "rename"}
    BY <2>1
  <2> QED
    BY <1>0, <1>7, <2>1, <2>2, <2>4, <2>5, QuietStep
<1>8. ASSUME NEW t \in Threads, Rename(t) PROVE Decisions'
  <2>1. pc[t] = "rename" /\ UNCHANGED <<m_lastRotate, m_realRotate, now, old>>
    BY <1>8 DEF Rename, At, sharedVars
  <2>2. \/ Goto(t, "open") /\ rotations' = Append(rotations, now[t])
        \/ Goto(t, "write") /\ rotations' = rotations
    BY <1>8 DEF Rename
  <2> QED
    BY <1>7, <2>1, <2>2, RenameStep
<1>9. ASSUME NEW t \in Threads, Open(t) PROVE Decisions'
  <2>1. /\ pc[t] = "open" /\ (Goto(t, "dup") \/ Goto(t, "write"))
        /\ UNCHANGED <<m_lastRotate, m_realRotate, rotations, now, old>>
    BY <1>9 DEF Open, At, sharedVars, historyVars
  <2> QED
    BY <1>7, <2>1
<1>10. ASSUME NEW t \in Threads, Dup(t) PROVE Decisions'
  <2>1. /\ Goto(t, "write") /\ UNCHANGED <<m_lastRotate, m_realRotate, rotations, now, old>>
    BY <1>10 DEF Dup, sharedVars, historyVars
  <2> QED
    BY <1>7, <2>1
<1>11. ASSUME NEW t \in Threads, Write(t) PROVE Decisions'
  <2>1. /\ Goto(t, "out") /\ UNCHANGED <<m_lastRotate, m_realRotate, rotations>>
        /\ \A u \in Threads \ {t} : now'[u] = now[u] /\ old'[u] = old[u]
    BY <1>11 DEF Write, sharedVars, historyVars, LogTypes
  <2> QED
    BY <1>7, <2>1
<1> QED
  BY <1>1, <1>2, <1>3, <1>4, <1>5, <1>6, <1>8, <1>9, <1>10, <1>11 DEF Next, Tick,
     sharedVars, historyVars, vars

LEMMA DecisionAlways == Spec => []DecisionInv
<1>1. Init => DecisionInv
  <2> SUFFICES ASSUME Init PROVE Decisions
    BY DEF DecisionInv
  <2>1. /\ m_lastRotate = 0 /\ m_realRotate = 0 /\ DOMAIN rotations = {}
        /\ \A t \in Threads : pc[t] = "out"
    BY DEF Init
  <2>2. Period(0) \in Nat
    BY PeriodIsNat
  <2>3. TimesInStep
    BY <2>1, <2>2 DEF TimesInStep, Deciding
  <2>4. OneChosen /\ RotationsApart
    BY <2>1 DEF OneChosen, RotationsApart, Chosen, Renaming
  <2> QED
    BY <2>3, <2>4 DEF Decisions
<1>2. TypeInv /\ DecisionInv /\ [Next]_vars => DecisionInv'
  BY Types, OvertakenStays, DecisionStep DEF DecisionInv
<1> QED
  BY <1>1, <1>2, TypeAlways, PTL DEF Spec

\* A period has at most one rotation, however many threads see it begin and
\* read m_lastRotate, write it and exchange m_realRotate at the same time, as
\* long as none of them goes on deciding after another one has stored the time
\* of a later period.
THEOREM RotatedOnce == Spec => []OneRotationPerPeriod
<1>1. DecisionInv => OneRotationPerPeriod
  BY DEF DecisionInv, Decisions, RotationsApart, OneRotationPerPeriod
<1> QED
  BY <1>1, DecisionAlways, PTL

-----------------------------------------------------------------------------
(* No line is lost *)

HasName(f) == f = current \/ \E m \in DOMAIN rotated : rotated[m] = f

\* Strengthening: names come from rotations.
RotatedNames == \A m \in DOMAIN rotated : \E i \in DOMAIN rotations : m = Minute(rotations[i])

\* Strengthening: what threads can write to has a name, before it has lines.
FilesNamed ==
    /\ HasName(m_fd)
    /\ \A f \in written : HasName(f)
    /\ \A t \in Threads : pc[t] = "dup" => HasName(opened[t])

NameInv ==
    /\ RotatedNames
    /\ MinutesApart /\ "deciding" \notin overtaken => FilesNamed

\* A rename adds the minute of its rotation.
LEMMA RotatedNamesStep ==
    ASSUME LogTypes, RotatedNames, [Next]_vars
    PROVE  RotatedNames'
<1>1. CASE UNCHANGED <<rotated, rotations>>
  BY <1>1 DEF RotatedNames
<1>2. ASSUME NEW t \in Threads, Rename(t) PROVE RotatedNames'
  <2>1. CASE /\ DOMAIN rotated' = DOMAIN rotated \cup {Minute(now[t])}
             /\ rotations' = Append(rotations, now[t])
    <3>1. rotations \in Seq(Nat) /\ now[t] \in Nat
      BY DEF LogTypes
    <3>2. /\ \A i \in DOMAIN rotations : i \in DOMAIN rotations' /\ rotations'[i] = rotations[i]
          /\ Len(rotations) + 1 \in DOMAIN rotations'
          /\ rotations'[Len(rotations) + 1] = now[t]
      BY <2>1, <3>1
    <3>3. ASSUME NEW m \in DOMAIN rotated'
          PROVE  \E i \in DOMAIN rotations' : m = Minute(rotations'[i])
      <4>1. CASE m = Minute(now[t])
        BY <3>2, <4>1
      <4>2. CASE m \in DOMAIN rotated
        BY <3>2, <4>2 DEF RotatedNames
      <4> QED
        BY <2>1, <3>3, <4>1, <4>2
    <3> QED
      BY <3>3 DEF RotatedNames
  <2> QED
    BY <1>1, <1>2, <2>1 DEF Rename
<1> QED
  BY <1>1, <1>2 DEF Next, Tick, Enter, Test, Store, Swap, Compare, Open, Dup, Write,
     fileVars, historyVars, vars

\* A step that keeps every file's name.
LEMMA NamedStep ==
    ASSUME FilesNamed, \A f \in Nat : HasName(f) => HasName(f)',
           TypeInv, m_fd' = m_fd, written' \subseteq written \cup {m_fd},
           \A u \in Threads : pc'[u] = "dup" =>
               \/ pc[u] = "dup" /\ opened'[u] = opened[u]
               \/ HasName(opened[u])'
    PROVE  FilesNamed'
<1>1. /\ m_fd \in Nat /\ written \subseteq Nat
      /\ \A u \in Threads : pc[u] = "dup" => opened[u] \in Nat
  BY DEF TypeInv, TypeOK, DupHasFile
<1> QED
  BY <1>1 DEF FilesNamed

\* The file gets the name of its minute, which no rotation has used.
LEMMA RenameFresh ==
    ASSUME TypeInv, Decisions, RotatedNames, MinutesApart, NEW t \in Threads, pc[t] = "rename"
    PROVE  Minute(now[t]) \notin DOMAIN rotated
<1> SUFFICES ASSUME Minute(now[t]) \in DOMAIN rotated PROVE FALSE
  OBVIOUS
<1>1. PICK i \in DOMAIN rotations : Minute(now[t]) = Minute(rotations[i])
  BY DEF RotatedNames
<1>2. now[t] \in 0..MaxTime
  <2>1. clock \in 0..MaxTime /\ now[t] \in 0..clock /\ MaxTime \in Nat
    BY LoggerAssumption DEF TypeInv, TypeOK, LoggerAssumption
  <2> QED
    BY <2>1
<1>3. rotations[i] \in 0..MaxTime
  <2>1. rotations \in Seq(0..MaxTime)
    BY DEF TypeInv, TypeOK
  <2> QED
    BY <1>2, <2>1, Appended
<1>4. Period(rotations[i]) = Period(now[t])
  BY <1>1, <1>2, <1>3 DEF MinutesApart
<1>5. Chosen(t)
  BY DEF Chosen, Renaming
<1> QED
  BY <1>4, <1>5 DEF Decisions, OneChosen

\* No step takes the name of a file that a thread has written to, or may write to.
LEMMA FilesNamedStep ==
    ASSUME TypeInv, TypeInv', Decisions, RotatedNames, MinutesApart, FilesNamed, [Next]_vars
    PROVE  FilesNamed'
<1>0. TypeOK /\ None \notin Nat
  BY LoggerAssumption DEF TypeInv, LoggerAssumption
<1>1. ASSUME UNCHANGED <<current, rotated, m_fd>>, written' \subseteq written \cup {m_fd},
             \A u \in Threads : pc'[u] = "dup" => pc[u] = "dup" /\ opened'[u] = opened[u]
      PROVE  FilesNamed'
  <2>1. \A f : HasName(f) => HasName(f)'
    BY <1>1 DEF HasName
  <2> QED
    BY <1>1, <2>1, NamedStep
<1>2. ASSUME NEW t \in Threads, NEW l \in Rotating \cup {"out", "write"}, l # "dup", Goto(t, l),
             UNCHANGED <<current, rotated, m_fd, opened>>, written' \subseteq written \cup {m_fd}
      PROVE  FilesNamed'
  <2>1. \A u \in Threads : pc'[u] = "dup" => pc[u] = "dup"
    BY <1>0, <1>2 DEF Goto, TypeOK
  <2> QED
    BY <1>1, <1>2, <2>1
<1>3. ASSUME NEW t \in Threads, Rename(t) PROVE FilesNamed'
  <2>1. CASE Goto(t, "write") /\ UNCHANGED <<current, rotated>>
    BY <1>2, <1>3, <2>1 DEF Rename
  <2>2. CASE /\ Goto(t, "open")
             /\ rotated' = [m \in DOMAIN rotated \cup {Minute(now[t])} |->
                               IF m = Minute(now[t]) THEN current ELSE rotated[m]]
    <3>1. Minute(now[t]) \notin DOMAIN rotated
      BY <1>3, RenameFresh DEF Rename, At
    <3>2. /\ DOMAIN rotated' = DOMAIN rotated \cup {Minute(now[t])}
          /\ rotated'[Minute(now[t])] = current
          /\ \A m \in DOMAIN rotated : rotated'[m] = rotated[m]
      BY <2>2, <3>1
    <3>3. \A f : HasName(f) => HasName(f)'
      BY <3>2 DEF HasName
    <3>4. \A u \in Threads : pc'[u] = "dup" => pc[u] = "dup"
      BY <1>0, <2>2 DEF Goto, TypeOK
    <3>5. UNCHANGED <<m_fd, written, opened>>
      BY <1>3 DEF Rename
    <3> QED
      BY <3>3, <3>4, <3>5, NamedStep
  <2> QED
    BY <1>3, <2>1, <2>2 DEF Rename
<1>4. ASSUME NEW t \in Threads, Open(t) PROVE FilesNamed'
  <2>1. UNCHANGED <<m_fd, rotated, written>>
    BY <1>4 DEF Open
  <2>2. \A f \in Nat : HasName(f) => HasName(f)'
    <3>1. current' = current \/ current = None
      BY <1>4 DEF Open
    <3> QED
      BY <1>0, <2>1, <3>1 DEF HasName
  <2>3. \A u \in Threads : pc'[u] = "dup" =>
            (pc[u] = "dup" /\ opened'[u] = opened[u]) \/ opened'[u] = current'
    <3>1. CASE Goto(t, "dup") /\ opened' = [opened EXCEPT ![t] = current']
      BY <1>0, <3>1 DEF Goto, TypeOK
    <3>2. CASE Goto(t, "write") /\ opened' = opened
      BY <1>0, <3>2 DEF Goto, TypeOK
    <3> QED
      BY <1>4, <3>1, <3>2 DEF Open
  <2>4. \A u \in Threads : opened'[u] = current' => HasName(opened[u])'
    BY DEF HasName
  <2> QED
    BY <2>1, <2>2, <2>3, <2>4, NamedStep
<1>5. ASSUME NEW t \in Threads, Dup(t) PROVE FilesNamed'
  <2>1. /\ pc[t] = "dup" /\ m_fd' = opened[t] /\ pc' = [pc EXCEPT ![t] = "write"]
        /\ opened' = [opened EXCEPT ![t] = None]
        /\ UNCHANGED <<current, rotated, written>>
    BY <1>5 DEF Dup, At, Goto
  <2>2. \A f : HasName(f) => HasName(f)'
    BY <2>1 DEF HasName
  <2>3. \A u \in Threads : pc'[u] = "dup" => pc[u] = "dup" /\ opened'[u] = opened[u]
    BY <1>0, <2>1 DEF TypeOK
  <2> QED
    BY <2>1, <2>2, <2>3 DEF FilesNamed
<1>6. ASSUME NEW t \in Threads, Write(t) PROVE FilesNamed'
  BY <1>2, <1>6 DEF Write, Rotating
<1>7. ASSUME NEW t \in Threads, Enter(t) \/ Test(t) \/ Store(t) \/ Swap(t) \/ Compare(t)
      PROVE  FilesNamed'
  <2>1. PICK l \in {"test", "store", "swap", "compare", "rename", "write"} : Goto(t, l)
    BY <1>7 DEF Enter, Test, Store, Swap, Compare
  <2>2. l \in Rotating \cup {"out", "write"} /\ l # "dup"
    BY DEF Rotating, Deciding, Renaming
  <2>3. UNCHANGED <<current, rotated, m_fd, opened, written>>
    BY <1>7 DEF Enter, Test, Store, Swap, Compare, fileVars
  <2> QED
    BY <1>2, <2>1, <2>2, <2>3
<1>8. CASE UNCHANGED <<current, rotated, m_fd, written, pc, opened>>
  BY <1>1, <1>8
<1> QED
  BY <1>3, <1>4, <1>5, <1>6, <1>7, <1>8 DEF Next, Tick, fileVars, vars

\* No line is lost to a rotation when no minute has seconds of two periods and
\* no thread goes on deciding with the time of an earlier period than one that
\* has stored its own: every file that has lines has a name, also while one
\* thread renames and opens and the next period's rotation goes on.
THEOREM LinesKept == Spec => []NoLineLost
<1>1. Init => NameInv
  <2> SUFFICES ASSUME Init PROVE NameInv
    OBVIOUS
  <2>1. DOMAIN rotated = {} /\ m_fd = current /\ written = {} /\ \A t \in Threads : pc[t] = "out"
    BY DEF Init
  <2> QED
    BY <2>1 DEF NameInv, RotatedNames, FilesNamed, HasName
<1>2. TypeInv /\ TypeInv' /\ DecisionInv /\ NameInv /\ [Next]_vars => NameInv'
  <2> SUFFICES ASSUME TypeInv, TypeInv', DecisionInv, NameInv, [Next]_vars PROVE NameInv'
    OBVIOUS
  <2>1. RotatedNames'
    BY Types, RotatedNamesStep DEF NameInv
  <2>2. ASSUME MinutesApart, "deciding" \notin overtaken' PROVE FilesNamed'
    <3>1. Decisions /\ RotatedNames /\ FilesNamed
      BY <2>2, OvertakenStays DEF NameInv, DecisionInv
    <3> QED
      BY <2>2, <3>1, FilesNamedStep
  <2>3. MinutesApart' = MinutesApart
    BY DEF MinutesApart
  <2> QED
    BY <2>1, <2>2, <2>3 DEF NameInv
<1>3. NameInv => NoLineLost
  BY DEF NameInv, FilesNamed, HasName, NoLineLost
<1> QED
  BY <1>1, <1>2, <1>3, TypeAlways, DecisionAlways, PTL DEF Spec

-----------------------------------------------------------------------------
(* The descriptor *)

\* Strengthening, while nobody has been overtaken: a thread renames and opens
\* in the period of m_lastRotate, so that there is one at most.
RenamesNow == \A t \in Threads : pc[t] \in Renaming => Period(now[t]) = Period(m_lastRotate)

\* Strengthening: m_fd and the descriptor just opened follow the current file.
FilesMatch ==
    /\ (\A t \in Threads : pc[t] \notin {"open", "dup"}) => current \in {m_fd, None}
    /\ \A t \in Threads : pc[t] = "open" => current = None
    /\ \A t \in Threads : pc[t] = "dup" => opened[t] = current

CalmInv == overtaken = {} => RenamesNow /\ FilesMatch

\* One thread at a time renames, opens and turns m_fd.
LEMMA OneRenaming ==
    ASSUME Decisions, RenamesNow, NEW t \in Threads, NEW u \in Threads,
           pc[t] \in Renaming, pc[u] \in Renaming
    PROVE  t = u
BY DEF Decisions, OneChosen, RenamesNow, Chosen

\* Who stores a later time overtakes the threads that are renaming.
LEMMA RenamesNowStep ==
    ASSUME LogTypes, Decisions, RenamesNow, [Next]_vars, overtaken' = {}
    PROVE  RenamesNow'
<1>1. ASSUME m_lastRotate' = m_lastRotate,
             \A u \in Threads : pc'[u] \in Renaming =>
                 /\ now'[u] = now[u]
                 /\ pc[u] \in Renaming \/ pc[u] = "compare"
      PROVE  RenamesNow'
  BY <1>1 DEF RenamesNow, Decisions, TimesInStep
<1>2. ASSUME NEW t \in Threads, Store(t) PROVE RenamesNow'
  <2>1. /\ pc[t] = "store" /\ pc' = [pc EXCEPT ![t] = "swap"]
        /\ m_lastRotate' = now[t] /\ now' = now
    BY <1>2 DEF Store, At, Goto
  <2>2. \A u \in Threads : pc'[u] \in Renaming => u # t /\ pc[u] \in Renaming
    BY <2>1 DEF LogTypes, Renaming
  <2>3. \A u \in Threads : Period(now[u]) \in Nat
    BY PeriodIsNat DEF LogTypes
  <2>4. ASSUME NEW u \in Threads, u # t, pc[u] \in Renaming
        PROVE  Period(now[u]) = Period(now[t])
    <3>1. Period(now[u]) <= Period(now[t])
      BY <2>1, <2>4 DEF RenamesNow, Decisions, TimesInStep, Deciding
    <3>2. ~(Period(now[u]) < Period(now[t]))
      <4> SUFFICES ASSUME Period(now[u]) < Period(now[t]) PROVE FALSE
        OBVIOUS
      <4>1. u \in Behind(t)
        BY <2>4 DEF Behind, Rotating
      <4>2. overtaken' # {}
        BY <1>2, <4>1 DEF Store
      <4> QED
        BY <4>2
    <3> QED
      BY <2>3, <3>1, <3>2
  <2> QED
    BY <2>1, <2>2, <2>4 DEF RenamesNow
<1>3. ASSUME NEW t \in Threads, Enter(t) \/ Write(t) PROVE RenamesNow'
  <2>1. /\ pc' = [pc EXCEPT ![t] = "test"] \/ pc' = [pc EXCEPT ![t] = "out"]
        /\ now' = [now EXCEPT ![t] = clock] \/ now' = [now EXCEPT ![t] = 0]
        /\ m_lastRotate' = m_lastRotate
    BY <1>3 DEF Enter, Write, Goto, sharedVars
  <2> QED
    BY <1>1, <2>1 DEF LogTypes, Renaming
<1>4. ASSUME NEW t \in Threads, Test(t) \/ Swap(t) PROVE RenamesNow'
  <2>1. /\ \/ pc' = [pc EXCEPT ![t] = "write"]
           \/ pc' = [pc EXCEPT ![t] = "store"]
           \/ pc' = [pc EXCEPT ![t] = "compare"]
        /\ UNCHANGED <<m_lastRotate, now>>
    BY <1>4 DEF Test, Swap, Goto, sharedVars
  <2> QED
    BY <1>1, <2>1 DEF LogTypes, Renaming
<1>5. ASSUME NEW t \in Threads, Compare(t) \/ Rename(t) \/ Open(t) \/ Dup(t) PROVE RenamesNow'
  <2>1. /\ pc[t] \in Renaming \/ pc[t] = "compare"
        /\ UNCHANGED <<m_lastRotate, now>>
        /\ \E l \in {"rename", "open", "dup", "write"} : pc' = [pc EXCEPT ![t] = l]
    BY <1>5 DEF Compare, Rename, Open, Dup, At, Goto, sharedVars, Renaming
  <2> QED
    BY <1>1, <2>1 DEF LogTypes
<1>6. CASE UNCHANGED <<m_lastRotate, pc, now>>
  BY <1>1, <1>6
<1> QED
  BY <1>2, <1>3, <1>4, <1>5, <1>6 DEF Next, Tick, sharedVars, vars

\* The rotation is the work of one thread, which ends with dup2.
LEMMA FilesMatchStep ==
    ASSUME TypeInv, Decisions, RenamesNow, FilesMatch, [Next]_vars
    PROVE  FilesMatch'
<1>0. /\ pc \in [Threads -> Rotating \cup {"out", "write"}]
      /\ opened \in [Threads -> 1..files \cup {None}]
  BY DEF TypeInv, TypeOK
<1>1. ASSUME UNCHANGED <<m_fd, current, opened>>,
             \A u \in Threads : pc[u] \in {"open", "dup"} \/ pc'[u] \in {"open", "dup"} =>
                 pc'[u] = pc[u]
      PROVE  FilesMatch'
  BY <1>1 DEF FilesMatch
<1>2. ASSUME NEW t \in Threads, pc[t] \in Renaming,
             NEW l \in Rotating \cup {"out", "write"}, pc' = [pc EXCEPT ![t] = l]
      PROVE  pc'[t] = l /\ \A u \in Threads \ {t} : pc'[u] \notin {"open", "dup"}
  <2>1. pc'[t] = l /\ \A u \in Threads \ {t} : pc'[u] = pc[u]
    BY <1>0, <1>2
  <2>2. \A u \in Threads \ {t} : pc[u] \notin Renaming
    BY <1>2, OneRenaming
  <2> QED
    BY <2>1, <2>2 DEF Renaming
<1>3. ASSUME NEW t \in Threads, Rename(t) PROVE FilesMatch'
  <2>1. CASE Goto(t, "open") /\ current' = None
    <3>1. pc'[t] = "open" /\ \A u \in Threads \ {t} : pc'[u] \notin {"open", "dup"}
      BY <1>2, <1>3, <2>1 DEF Rename, At, Goto, Renaming, Rotating
    <3> QED
      BY <2>1, <3>1 DEF FilesMatch
  <2>2. CASE Goto(t, "write") /\ current' = current
    <3>1. pc[t] = "rename" /\ UNCHANGED <<m_fd, opened>>
      BY <1>3 DEF Rename, At
    <3> QED
      BY <1>0, <1>1, <2>2, <3>1 DEF Goto
  <2> QED
    BY <1>3, <2>1, <2>2 DEF Rename
<1>4. ASSUME NEW t \in Threads, Open(t) PROVE FilesMatch'
  <2>1. pc[t] = "open" /\ current = None /\ pc[t] \in Renaming
    BY <1>4 DEF Open, At, FilesMatch, Renaming
  <2>2. CASE Goto(t, "dup") /\ opened' = [opened EXCEPT ![t] = current']
    <3>1. pc'[t] = "dup" /\ \A u \in Threads \ {t} : pc'[u] \notin {"open", "dup"}
      BY <1>2, <2>1, <2>2 DEF Goto, Renaming, Rotating
    <3>2. opened'[t] = current'
      BY <1>0, <2>2
    <3> QED
      BY <3>1, <3>2 DEF FilesMatch
  <2>3. CASE Goto(t, "write") /\ UNCHANGED current
    <3>1. pc'[t] = "write" /\ \A u \in Threads \ {t} : pc'[u] \notin {"open", "dup"}
      BY <1>2, <2>1, <2>3 DEF Goto, Renaming, Rotating
    <3> QED
      BY <2>1, <2>3, <3>1 DEF FilesMatch
  <2> QED
    BY <1>4, <2>2, <2>3 DEF Open
<1>5. ASSUME NEW t \in Threads, Dup(t) PROVE FilesMatch'
  <2>1. /\ pc[t] = "dup" /\ m_fd' = current /\ current' = current /\ pc[t] \in Renaming
        /\ pc' = [pc EXCEPT ![t] = "write"]
    BY <1>5 DEF Dup, At, Goto, FilesMatch, Renaming
  <2>2. pc'[t] = "write" /\ \A u \in Threads \ {t} : pc'[u] \notin {"open", "dup"}
    BY <1>2, <2>1
  <2> QED
    BY <2>1, <2>2 DEF FilesMatch
<1>6. ASSUME NEW t \in Threads,
             Enter(t) \/ Test(t) \/ Store(t) \/ Swap(t) \/ Compare(t) \/ Write(t)
      PROVE  FilesMatch'
  <2>1. /\ pc[t] \notin {"open", "dup"} /\ UNCHANGED <<m_fd, current, opened>>
        /\ \E l \in Rotating \cup {"out", "write"} :
               l \notin {"open", "dup"} /\ pc' = [pc EXCEPT ![t] = l]
    BY <1>6 DEF Enter, Test, Store, Swap, Compare, Write, At, Goto, fileVars, Rotating,
       Deciding, Renaming
  <2> QED
    BY <1>0, <1>1, <2>1
<1>7. CASE UNCHANGED <<m_fd, current, pc, opened>>
  BY <1>1, <1>7
<1> QED
  BY <1>3, <1>4, <1>5, <1>6, <1>7 DEF Next, Tick, fileVars, vars

\* Between rotations lines go to the file with the log's name, if there is one,
\* unless a thread has taken until another period's rotation, deciding or with
\* the files: then two threads may rename, open and turn m_fd at a time, and
\* the one that turns it last need not have opened the newest file.
THEOREM FdFollows == Spec => []FdIsCurrent
<1>1. Init => CalmInv
  <2> SUFFICES ASSUME Init PROVE CalmInv
    OBVIOUS
  <2>1. m_fd = current /\ \A t \in Threads : pc[t] = "out"
    BY DEF Init
  <2> QED
    BY <2>1 DEF CalmInv, RenamesNow, FilesMatch, Renaming
<1>2. TypeInv /\ DecisionInv /\ CalmInv /\ [Next]_vars => CalmInv'
  <2> SUFFICES ASSUME TypeInv, DecisionInv, CalmInv, [Next]_vars, overtaken' = {}
               PROVE  RenamesNow' /\ FilesMatch'
    BY DEF CalmInv
  <2>1. LogTypes /\ Decisions /\ RenamesNow /\ FilesMatch
    BY Types, OvertakenStays DEF CalmInv, DecisionInv
  <2> QED
    BY <2>1, RenamesNowStep, FilesMatchStep
<1>3. CalmInv => FdIsCurrent
  BY DEF CalmInv, FilesMatch, FdIsCurrent, Rotating, Renaming
<1> QED
  BY <1>1, <1>2, <1>3, TypeAlways, DecisionAlways, PTL DEF Spec

=============================================================================
