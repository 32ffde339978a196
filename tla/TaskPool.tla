------------------------------ MODULE TaskPool ------------------------------
(***************************************************************************)
(* What the worker pool promises to its callers, without threads, mutex or *)
(* condition variable: tasks are accepted into a FIFO, started in order,   *)
(* each started once and then finished, and the pool stops only when every *)
(* task accepted before it was closed has finished.  A task may still be   *)
(* accepted after the close, by a caller that was already inside enqueue;  *)
(* nothing is promised for it.                                             *)
(***************************************************************************)
EXTENDS Sequences, Functions

CONSTANT Tasks

VARIABLES queue, running, finished, open, due, stopped

poolVars == <<queue, running, finished, open, due, stopped>>

Init ==
    /\ queue = <<>>
    /\ running = {}
    /\ finished = {}
    /\ open = TRUE
    /\ due = {}
    /\ stopped = FALSE

Accept(t) ==
    /\ queue' = Append(queue, t)
    /\ UNCHANGED <<running, finished, open, due, stopped>>

Start ==
    /\ queue # <<>> /\ ~stopped
    /\ queue' = Tail(queue)
    /\ running' = running \cup {Head(queue)}
    /\ UNCHANGED <<finished, open, due, stopped>>

Finish(t) ==
    /\ t \in running
    /\ running' = running \ {t}
    /\ finished' = finished \cup {t}
    /\ UNCHANGED <<queue, open, due, stopped>>

Close ==
    /\ open
    /\ open' = FALSE
    /\ due' = Range(queue) \cup running \cup finished
    /\ UNCHANGED <<queue, running, finished, stopped>>

Stop ==
    /\ ~open
    /\ running = {} /\ due \subseteq finished
    /\ stopped' = TRUE
    /\ UNCHANGED <<queue, running, finished, open, due>>

Next ==
    \/ \E t \in Tasks : Accept(t) \/ Finish(t)
    \/ Start
    \/ Close
    \/ Stop

Spec == Init /\ [][Next]_poolVars
=============================================================================
