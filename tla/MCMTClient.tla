----------------------------- MODULE MCMTClient -----------------------------
(* Small instances of the multithreaded client.                            *)
EXTENDS MTClient

CONSTANTS w1, w2, w3, p1, p2, p3

(* What gfc_perform can leave (gfclient.h, mtgf/gfclient.o).               *)
Ok         == [rc |-> 0,  status |-> "OK"]
NotFound   == [rc |-> 0,  status |-> "FILE_NOT_FOUND"]
Truncated  == [rc |-> -1, status |-> "OK"]
Invalid    == [rc |-> -1, status |-> "INVALID"]

AllOutcomes  == {Ok, NotFound, Truncated, Invalid}

AllPaths == {p1, p2, p3}
TwoPaths == <<p1, p2>>
PathTwice == <<p1, p2, p2>>
=============================================================================
