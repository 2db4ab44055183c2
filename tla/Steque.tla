------------------------------- MODULE Steque -------------------------------
(***************************************************************************)
(* The steque (mtgf/steque.c): a singly linked list with pointers to its   *)
(* first and its last node.  The heap is the set of nodes malloc can       *)
(* return; a pointer is a node or NULL.  Calls are made one at a time: the *)
(* users hold a mutex around each of them.                                 *)
(***************************************************************************)
EXTENDS Integers, Sequences, FiniteSets

CONSTANTS
    Item,     \* what the users store
    Node,     \* the nodes the heap has room for: malloc is not modelled to fail
    NULL

ASSUME StequeAssumption ==
    /\ NULL \notin Node /\ NULL \notin Item
    /\ IsFiniteSet(Node)

VARIABLES
    front, back, N,   \* the fields of steque_t
    item, next,       \* the fields of the nodes
    allocated,        \* the nodes between malloc and free
    answer,           \* what the last steque_pop or steque_front returned
    exited            \* a call on an empty steque has ended the process

vars == <<front, back, N, item, next, allocated, answer, exited>>

(* steque_init.                                                            *)
Init ==
    /\ front = NULL /\ back = NULL /\ N = 0
    /\ item = [n \in Node |-> NULL]
    /\ next = [n \in Node |-> NULL]
    /\ allocated = {}
    /\ answer = NULL
    /\ exited = FALSE

IsEmpty == N = 0

(* A node malloc may return, with its item field set.                      *)
NewNode(n, x) ==
    /\ n \in Node \ allocated
    /\ allocated' = allocated \union {n}
    /\ item' = [item EXCEPT ![n] = x]

(* steque_enqueue: add at the back.                                        *)
Enqueue(x) ==
    \E n \in Node :
        /\ ~exited
        /\ NewNode(n, x)
        /\ IF back = NULL
           THEN front' = n /\ next' = [next EXCEPT ![n] = NULL]
           ELSE /\ next' = [next EXCEPT ![n] = NULL, ![back] = n]
                /\ UNCHANGED front
        /\ back' = n
        /\ N' = N + 1
        /\ UNCHANGED <<answer, exited>>

(* steque_push: add at the front.                                          *)
Push(x) ==
    \E n \in Node :
        /\ ~exited
        /\ NewNode(n, x)
        /\ next' = [next EXCEPT ![n] = front]
        /\ back' = IF back = NULL THEN n ELSE back
        /\ front' = n
        /\ N' = N + 1
        /\ UNCHANGED <<answer, exited>>

(* Mutant: back is left pointing to the freed node.                        *)
PopLeavingBack ==
    /\ ~exited /\ front # NULL
    /\ answer' = item[front]
    /\ front' = next[front]
    /\ allocated' = allocated \ {front}
    /\ N' = N - 1
    /\ UNCHANGED <<back, item, next, exited>>

(* steque_pop: remove the node at the front and free it.                   *)
Pop ==
    /\ ~exited /\ front # NULL
    /\ answer' = item[front]
    /\ front' = next[front]
    /\ back' = IF next[front] = NULL THEN NULL ELSE back
    /\ allocated' = allocated \ {front}
    /\ N' = N - 1
    /\ UNCHANGED <<item, next, exited>>

(* Mutant: the answer is read at the wrong end.                            *)
FrontReadingBack ==
    /\ ~exited /\ back # NULL
    /\ answer' = item[back]
    /\ UNCHANGED <<front, back, N, item, next, allocated, exited>>

(* steque_front.                                                           *)
Front ==
    /\ ~exited /\ front # NULL
    /\ answer' = item[front]
    /\ UNCHANGED <<front, back, N, item, next, allocated, exited>>

(* steque_pop or steque_front of an empty steque: underflow.               *)
Underflow ==
    /\ ~exited /\ front = NULL
    /\ exited' = TRUE
    /\ UNCHANGED <<front, back, N, item, next, allocated, answer>>

(* steque_cycle: the front node becomes the last one, by four assignments  *)
(* that also work when it is the only one.                                 *)
Cycle ==
    /\ ~exited
    /\ \/ back = NULL /\ UNCHANGED <<front, back, next>>
       \/ LET linked == [next EXCEPT ![back] = front]
          IN  /\ back # NULL
              /\ back' = front
              /\ front' = linked[front]
              /\ next' = [linked EXCEPT ![front] = NULL]
    /\ UNCHANGED <<N, item, allocated, answer, exited>>

(* steque_destroy: pop until empty, dropping the answers.  Every node of   *)
(* the list is freed and the fields end as after the last pop.             *)
Destroy ==
    /\ ~exited /\ ~IsEmpty
    /\ front' = NULL /\ back' = NULL /\ N' = 0
    /\ allocated' = {}
    /\ UNCHANGED <<item, next, answer, exited>>

Ended == exited /\ UNCHANGED vars

Next ==
    \/ \E x \in Item : Enqueue(x) \/ Push(x)
    \/ Pop \/ Front \/ Underflow \/ Cycle \/ Destroy \/ Ended

Spec == Init /\ [][Next]_vars

-----------------------------------------------------------------------------
(* The k-th pointer of the list, counting front as the 0th.                *)
Pointer[k \in 0 .. Cardinality(Node)] ==
    IF k = 0 THEN front
    ELSE IF Pointer[k - 1] = NULL THEN NULL ELSE next[Pointer[k - 1]]

Contents == [k \in 1 .. N |-> item[Pointer[k - 1]]]

(* Every variable stays in its type.                                       *)
TypeOK ==
    /\ front \in Node \union {NULL} /\ back \in Node \union {NULL}
    /\ N \in 0 .. Cardinality(Node)
    /\ item \in [Node -> Item \union {NULL}]
    /\ next \in [Node -> Node \union {NULL}]
    /\ allocated \subseteq Node
    /\ answer \in Item \union {NULL}
    /\ exited \in BOOLEAN

(* The list from front has N nodes, all different, ends with NULL at the   *)
(* node back points to, and consists of exactly the nodes not yet freed:   *)
(* no node is lost and no pointer dangles, after any sequence of calls.    *)
WellFormed ==
    /\ TypeOK
    /\ Pointer[N] = NULL
    /\ {Pointer[k] : k \in 0 .. N - 1} = allocated
    /\ Cardinality(allocated) = N
    /\ back = IF N = 0 THEN NULL ELSE Pointer[N - 1]

(* The linked list behaves as the sequence steque.h describes: every call  *)
(* changes the contents and answers as on a sequence, and an underflow     *)
(* changes nothing.                                                        *)
Sequence == INSTANCE Deque WITH contents <- Contents
SequenceSpec == Sequence!Spec
=============================================================================
