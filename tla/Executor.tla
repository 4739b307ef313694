------------------------------ MODULE Executor ------------------------------
(***************************************************************************)
(* What ThreadPool promises its users: accepted tasks are started in the   *)
(* order of acceptance, each on one worker, at most one per worker at a    *)
(* time.  After close (exit()) nothing is accepted any more and a worker   *)
(* starts at most one more task; what is left in the queue is dropped.     *)
(***************************************************************************)
EXTENDS Naturals, Sequences

CONSTANTS
    Workers,   \* the workers of the executor
    Tasks,     \* the tasks that may be submitted
    Capacity,  \* most tasks waiting at a time, 0 for no limit
    NoTask     \* "this worker is idle"

VARIABLES
    queue,     \* accepted tasks that no worker has started
    running,   \* the task each worker executes, or NoTask
    finished,  \* the tasks that have been executed
    seen,      \* the tasks that were ever submitted
    closed,    \* the executor accepts nothing any more
    last       \* the workers that have started a task after close

execVars == <<queue, running, finished, seen, closed, last>>

Init ==
    /\ queue = <<>>
    /\ running = [w \in Workers |-> NoTask]
    /\ finished = {}
    /\ seen = {}
    /\ closed = FALSE
    /\ last = {}

\* A task is submitted at most once; it is refused when the executor is
\* closed or the queue is full.
Submit(v) ==
    /\ v \notin seen
    /\ seen' = seen \cup {v}
    /\ queue' = IF ~closed /\ (Capacity = 0 \/ Len(queue) < Capacity)
                  THEN Append(queue, v) ELSE queue
    /\ UNCHANGED <<running, finished, closed, last>>

Begin(w) ==
    /\ running[w] = NoTask
    /\ w \notin last
    /\ queue # <<>>
    /\ running' = [running EXCEPT ![w] = Head(queue)]
    /\ queue' = Tail(queue)
    /\ last' = IF closed THEN last \cup {w} ELSE last
    /\ UNCHANGED <<finished, seen, closed>>

Finish(w) ==
    /\ running[w] # NoTask
    /\ finished' = finished \cup {running[w]}
    /\ running' = [running EXCEPT ![w] = NoTask]
    /\ UNCHANGED <<queue, seen, closed, last>>

Close ==
    /\ closed' = TRUE
    /\ UNCHANGED <<queue, running, finished, seen, last>>

Next ==
    \/ \E v \in Tasks : Submit(v)
    \/ \E w \in Workers : Begin(w) \/ Finish(w)
    \/ Close

Spec == Init /\ [][Next]_execVars
=============================================================================
