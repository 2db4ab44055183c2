----------------------------- MODULE MCMTServer -----------------------------
(* Small instances of the multithreaded server.                            *)
EXTENDS MTServer, TLC

CONSTANTS w1, w2

(* A path that is not there, an empty file and one that takes two rounds   *)
(* of work: one request more than there are workers.                       *)
ThreeConns == <<-1, 0, 2>>
=============================================================================
