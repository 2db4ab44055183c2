------------------------------ MODULE MCSteque ------------------------------
(* A heap of three nodes and two items: the list can be empty, have one    *)
(* node (where steque_cycle links it to itself), two, and three.           *)
EXTENDS Steque

CONSTANTS a, b, n1, n2, n3
=============================================================================
