------------------------------ MODULE JobQueue ------------------------------
(* What the native pool promises of its jobs: they are started in the order    *)
(* they were accepted in, each once, and none is accepted after the shut-down.  *)
EXTENDS Integers, Sequences

CONSTANT Jobs

VARIABLES
    waiting,   \* accepted, not started: in order
    running,   \* being read
    finished,  \* their latch has been called
    open       \* the pool accepts jobs

vars == <<waiting, running, finished, open>>

Init == waiting = <<>> /\ running = {} /\ finished = {} /\ open = TRUE

Accept(j) ==
    /\ open /\ j \notin running \cup finished \cup {waiting[i] : i \in DOMAIN waiting}
    /\ waiting' = Append(waiting, j)
    /\ UNCHANGED <<running, finished, open>>

Start ==
    /\ waiting # <<>>
    /\ running' = running \cup {Head(waiting)}
    /\ waiting' = Tail(waiting)
    /\ UNCHANGED <<finished, open>>

Finish(j) ==
    /\ j \in running
    /\ running' = running \ {j}
    /\ finished' = finished \cup {j}
    /\ UNCHANGED <<waiting, open>>

Close == open' = FALSE /\ UNCHANGED <<waiting, running, finished>>

Next == (\E j \in Jobs : Accept(j) \/ Finish(j)) \/ Start \/ Close

Spec == Init /\ [][Next]_vars
=============================================================================
