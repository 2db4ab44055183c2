----------------------------- MODULE MCSession -----------------------------
(* Three requests, of which the second crosses the server's limit; a file  *)
(* of two bytes, which does not fit in a connection of three bytes with    *)
(* its header, an empty one, which only a path gone wrong may name, and a  *)
(* path the server does not have.                                          *)
EXTENDS Session

CONSTANTS a, b, c

MCFileLength == [p \in {a, c} |-> IF p = a THEN 2 ELSE 0]
MCResponse ==
    {Reply("OK", 2, n) : n \in 0 .. 2} \union {Reply("OK", 0, 0)}
    \union {Reply(form, 0, 0) : form \in {"FILE_NOT_FOUND", "INVALID"}}
MCWorkload == {<<a, b>>}
=============================================================================
