----------------------------- MODULE BossWorker -----------------------------
(***************************************************************************)
(* What a boss/worker pool promises, for the server and for the client     *)
(* (Readme, Part 2): the boss submits tasks in some order, free workers    *)
(* take them in that order, each task is worked on by one worker and is    *)
(* finished once, and the pool closes only when nothing is left to do.     *)
(***************************************************************************)
EXTENDS Naturals, Sequences

CONSTANTS Worker, Task, None

VARIABLES
    pending,    \* submitted tasks no worker has taken, in order
    hand,       \* the task of each worker, or None
    finished,   \* the tasks some worker is done with
    closed      \* the boss has told the workers to stop

vars == <<pending, hand, finished, closed>>

Waiting == {pending[k] : k \in DOMAIN pending}
InHand  == {hand[w] : w \in Worker} \ {None}

Init ==
    /\ pending = << >>
    /\ hand = [w \in Worker |-> None]
    /\ finished = {}
    /\ closed = FALSE

Submit(t) ==
    /\ ~closed
    /\ t \notin Waiting \union InHand \union finished
    /\ pending' = Append(pending, t)
    /\ UNCHANGED <<hand, finished, closed>>

Take(w) ==
    /\ hand[w] = None /\ pending # << >>
    /\ hand' = [hand EXCEPT ![w] = Head(pending)]
    /\ pending' = Tail(pending)
    /\ UNCHANGED <<finished, closed>>

Finish(w) ==
    /\ hand[w] # None
    /\ finished' = finished \union {hand[w]}
    /\ hand' = [hand EXCEPT ![w] = None]
    /\ UNCHANGED <<pending, closed>>

Close ==
    /\ ~closed
    /\ finished = Task /\ pending = << >> /\ InHand = {}
    /\ closed' = TRUE
    /\ UNCHANGED <<pending, hand, finished>>

Next ==
    \/ \E t \in Task : Submit(t)
    \/ \E w \in Worker : Take(w) \/ Finish(w)
    \/ Close

Spec == Init /\ [][Next]_vars
=============================================================================
