---------------------------- MODULE TimerService ----------------------------
(***************************************************************************)
(* What the timers of EventBase promise: one set of armed timers, each     *)
(* with an id, the time it is due and a period (0: it fires once).  A      *)
(* timer fires, that is, its task is called, when it is due and no other   *)
(* is due before it; a periodic one is then due one period later.  An      *)
(* armed timer goes only by firing, by being cancelled, or when the loop   *)
(* ends; a cancelled one never fires again.  Once closed (exit()) nothing  *)
(* is armed any more.                                                      *)
(***************************************************************************)
EXTENDS Integers

VARIABLES
    armed,      \* the armed timers: records with fields id, due and every
    running,    \* the id of the timer whose task is being called, in a set; or {}
    cancelled,  \* history: the ids that cancel has removed
    clock,      \* milliseconds
    closed      \* exit() has been called

serviceVars == <<armed, running, cancelled, clock, closed>>

Init == armed = {} /\ running = {} /\ cancelled = {} /\ clock \in Nat /\ closed = FALSE

\* A new id, so that a late cancel cannot hit another timer.
Arm(r) ==
    /\ ~closed
    /\ r.id \notin cancelled /\ \A s \in armed : s.id # r.id
    /\ armed' = armed \cup {r}
    /\ UNCHANGED <<running, cancelled, clock, closed>>

\* A task that is being called goes on, also if it was its timer's.
Cancel(r) ==
    /\ armed' = armed \ {r}
    /\ cancelled' = cancelled \cup {r.id}
    /\ UNCHANGED <<running, clock, closed>>

Fire(r) ==
    /\ running = {}
    /\ r.due <= clock
    /\ \A s \in armed : r.due <= s.due
    /\ running' = {r.id}
    /\ armed' = (armed \ {r}) \cup (IF r.every = 0 THEN {}
                                    ELSE {[r EXCEPT !.due = @ + r.every]})
    /\ UNCHANGED <<cancelled, clock, closed>>

Return == running' = {} /\ UNCHANGED <<armed, cancelled, clock, closed>>

Drop ==
    /\ closed /\ running = {}
    /\ armed' = {}
    /\ UNCHANGED <<running, cancelled, clock, closed>>

Tick == clock' > clock /\ UNCHANGED <<armed, running, cancelled, closed>>

Close == closed' = TRUE /\ UNCHANGED <<armed, running, cancelled, clock>>

Next ==
    \/ \E r \in armed' : Arm(r)
    \/ \E r \in armed : Cancel(r) \/ Fire(r)
    \/ Return
    \/ Drop
    \/ Tick
    \/ Close

Spec == Init /\ [][Next]_serviceVars
=============================================================================
