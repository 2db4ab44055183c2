------------------------------- MODULE Deque -------------------------------
(***************************************************************************)
(* What steque.h promises: a sequence of items that can be added to at     *)
(* either end, read and removed from at the front, and rotated.            *)
(***************************************************************************)
EXTENDS Naturals, Sequences

CONSTANTS Item, NULL

VARIABLES
    contents,
    answer     \* the item last read or removed

Init == contents = << >> /\ answer = NULL

Enqueue == \E x \in Item : contents' = Append(contents, x)
Push    == \E x \in Item : contents' = <<x>> \o contents
Cycle   == contents # << >> /\ contents' = Append(Tail(contents), Head(contents))
Clear   == contents' = << >>
Pop     == contents # << >> /\ contents' = Tail(contents) /\ answer' = Head(contents)
Front   == contents # << >> /\ answer' = Head(contents) /\ UNCHANGED contents

Next ==
    \/ (Enqueue \/ Push \/ Cycle \/ Clear) /\ UNCHANGED answer
    \/ Pop
    \/ Front

Spec == Init /\ [][Next]_<<contents, answer>>
=============================================================================
