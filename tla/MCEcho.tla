------------------------------- MODULE MCEcho -------------------------------
(* Messages that are empty, shorter than the buffer, as long and longer.   *)
EXTENDS Echo

CONSTANTS c1, c2
BothClients == {c1, c2}
Lengths == {0, 1, 2, 3}
=============================================================================
