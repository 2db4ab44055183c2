----------------------------- MODULE MCTransfer -----------------------------
(* A file of two buffers, whose last fread returns nothing, and three      *)
(* clients, one more than the server has descriptors for.                  *)
EXTENDS Transfer

CONSTANTS c1, c2, c3
=============================================================================
