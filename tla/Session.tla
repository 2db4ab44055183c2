------------------------------ MODULE Session ------------------------------
(***************************************************************************)
(* The sequential download client and the sequential file server of gflib  *)
(* against each other: Download, with the server of GfServer in place of   *)
(* an arbitrary one.  The server is that of gflib/gfserver_main.c, with    *)
(* the prebuilt handler of gflib/handler.o, which answers with             *)
(* gfs_sendheader and gfs_send.                                            *)
(*                                                                         *)
(* The client's k-th connection is its k-th request.  Connections wait     *)
(* until the server accepts them, in order.  `connections' is the number   *)
(* of the one it serves.                                                   *)
(***************************************************************************)
EXTENDS Download

CONSTANTS
    FileLength,      \* the server's files: lengths by path
    HeaderMax, PrefixLen, MarkerLen,
    SocketBuffer     \* bytes a connection holds that the client has not taken

ASSUME ServerAssumption ==
    /\ HeaderMax \in Nat /\ PrefixLen \in Nat /\ MarkerLen \in Nat
    /\ PrefixLen + MarkerLen < RequestLen
    /\ DOMAIN FileLength \subseteq Path
    /\ {"none", "truncated", "relative", "garbage"} \intersect Path = {}

VARIABLES
    spc, ctx, total_received, request, received, path, outcome, connections,
    answer,          \* what the server sends on the connection it serves
    closed,          \* whether it has closed that connection
    overwritten,     \* the connections whose handler got an overwritten path
    left,            \* what the client did on the connections it has left
    faulty           \* whether calls may fail in this behaviour

ServerRequest ==
    [form : {"valid"}, path : Path, size : {RequestLen}, sent : {RequestLen}]

S == INSTANCE GfServer WITH
        pc <- spc, Request <- ServerRequest, MaxConnections <- nrequests,
        Fault <- {"accept", "recv", "send", "handler"}, FrameKept <- BOOLEAN

serverVars == <<spc, ctx, total_received, request, received, path, outcome, connections>>
wire == <<answer, closed, overwritten>>
sessionVars == <<allVars, serverVars, wire, left, faulty>>

(* gfserver_main.c starts one process, gfclient_download.c the other.      *)
SessionInit ==
    /\ DownloadInit /\ S!Init
    /\ answer = NoResponse /\ closed = FALSE /\ overwritten = {} /\ left = << >>
    /\ faulty \in BOOLEAN

-----------------------------------------------------------------------------
(* The connections the client has made, and its end of the k-th.  When the *)
(* process has ended none is open.                                         *)
Made == IF main = "perform" /\ sockfd # "none" THEN Current ELSE Len(results)

End(k) ==
    IF k <= Len(left) THEN left[k]
    ELSE [sent |-> bytes_sent, taken |-> taken, open |-> sockfd = "open"]
Open(k) == ~Ended /\ End(k).open

ServerDown == spc \in {"crashed", "exited"}
Listening == ~ServerDown /\ spc # "listen"

(* The server process is gone, or it has closed the connection the client  *)
(* is at: that is the end of it, once all bytes have been taken - or at    *)
(* once, when bytes of the request were unread, and the answer is lost.    *)
AtEnd == ServerDown \/ (closed /\ connections = Current)
Broken == AtEnd /\ (ServerDown \/ received < RequestLen)

(* What the handler sends for a path: gfs_sendheader, and the file with    *)
(* gfs_send, or the beginning of it when the handler fails.  A path that   *)
(* was cut or overwritten may name any file, or none.                      *)
Reply(form, length, body) ==
    [form |-> form, length |-> length, body |-> body, blanks |-> 0, zero |-> 0]

(* The client reckons with each of them.                                   *)
ASSUME ReplyAssumption ==
    /\ {Reply("FILE_NOT_FOUND", 0, 0), Reply("INVALID", 0, 0)} \subseteq Response
    /\ \A p \in DOMAIN FileLength :
           /\ FileLength[p] \in Nat
           /\ \A n \in 0 .. FileLength[p] : Reply("OK", FileLength[p], n) \in Response

FileReplies(p) ==
    {Reply("OK", FileLength[p], n) :
         n \in (IF faulty THEN 0 .. FileLength[p] ELSE {FileLength[p]})}

Replies(p) ==
    (IF p \in DOMAIN FileLength THEN {} ELSE {Reply("FILE_NOT_FOUND", 0, 0)})
    \union UNION {FileReplies(q) : q \in {q \in DOMAIN FileLength : q = p \/ p \notin Path}}

Waiting ==
    /\ main = "perform" /\ pc \in {"send", "header"}
    /\ connections = Current /\ response = NoResponse

(* Mutant: an answer goes to the newest connection.                        *)
SendToNewest(r) ==
    /\ answer' = r
    /\ IF main = "perform" /\ pc \in {"send", "header"}
       THEN /\ response' = r
            /\ UNCHANGED <<sockfd, bytes_sent, taken, fields, callbacks, pc,
                           received_filelen, with_header, returned, downloadVars>>
       ELSE UNCHANGED allVars
    /\ UNCHANGED <<left, faulty>>

(* An answer goes to the client's request at hand, if that is the one the  *)
(* server serves, or to a connection the client has left.                  *)
Send(r) ==
    /\ answer' = r
    /\ IF Waiting THEN Answer(r) /\ UNCHANGED downloadVars ELSE UNCHANGED allVars
    /\ UNCHANGED <<left, faulty>>

(* Where calls fail the handler may also have sent nothing at all.         *)
SendNothing ==
    /\ faulty
    /\ answer' = NoResponse
    /\ UNCHANGED <<allVars, left, faulty>>

-----------------------------------------------------------------------------
(* The server.  accept waits for a connection, recv for bytes on it.       *)
ServerAccept ==
    /\ connections < Made
    /\ \/ S!Accept /\ request'.path = WorkloadPath(connections') /\ closed' = FALSE
       \/ S!AcceptCrashes /\ closed' = closed
    /\ UNCHANGED <<allVars, answer, overwritten, left, faulty>>

ServerReceive ==
    /\ S!Receive /\ received' <= End(connections).sent
    /\ UNCHANGED <<allVars, wire, left, faulty>>

ServerRefuse ==
    /\ S!ParseInvalid /\ Send(Reply("INVALID", 0, 0))
    /\ closed' = TRUE /\ overwritten' = overwritten

ServerHandle ==
    /\ S!CallHandler
    /\ SendNothing \/ \E r \in Replies(outcome'.path) : Send(r)
    /\ overwritten' = overwritten \union
                          (IF outcome'.path = "garbage" THEN {connections} ELSE {})
    /\ closed' = closed

(* A handler whose client does not read any more waits in gfs_send, unless *)
(* the rest fits in the connection.                                        *)
Unread ==
    IF answer = NoResponse THEN 0 ELSE HeaderLen + answer.body - End(connections).taken

(* gfserver_serve closes nothing: a handler may, with gfs_abort.           *)
ServerHandled ==
    /\ S!HandlerReturns
    /\ Open(connections) => Unread <= SocketBuffer
    /\ faulty \/ ctx' = ctx
    /\ closed' = (ctx' = "NULL")
    /\ UNCHANGED <<allVars, answer, overwritten, left, faulty>>

ServerStep ==
    \/ (S!Listen \/ S!ParseValid \/ S!ParseCrashes) /\ UNCHANGED <<allVars, wire, left, faulty>>
    \/ ServerAccept \/ ServerReceive
    \/ ServerRefuse \/ ServerHandle \/ ServerHandled

ServerFault ==
    /\ faulty
    /\ S!Failure
    /\ UNCHANGED <<allVars, wire, left, faulty>>

(* The client.                                                             *)
ClientMain ==
    /\ MainStep
    /\ left' = IF main = "perform" THEN Append(left, End(Current)) ELSE left
    /\ UNCHANGED <<serverVars, wire, faulty>>

ClientProgress ==
    /\ pc = "connect" => Listening
    /\ PerformProgress
    /\ UNCHANGED <<serverVars, wire, left, faulty>>

(* It finds the server gone, no descriptor, or the connection at its end.  *)
ClientEnds ==
    /\ PerformFailure
    /\ CASE pc = "connect" -> ~Listening \/ ~HasDescriptor
         [] pc = "send"    -> Broken
         [] OTHER          -> Broken \/ (AtEnd /\ Available = 0)
    /\ UNCHANGED <<serverVars, wire, left, faulty>>

ClientFault ==
    /\ faulty
    /\ LoadFails \/ (PerformFailure /\ pc # "connect")
    /\ UNCHANGED <<serverVars, wire, left, faulty>>

ClientCrash ==
    /\ PerformCrash
    /\ UNCHANGED <<serverVars, wire, left, faulty>>

-----------------------------------------------------------------------------
(* The server waits on a connection which the client has left and not      *)
(* closed: for the rest of a request, or for its answer to be read.        *)
ServerHeld ==
    /\ connections \in 1 .. Len(left) /\ Open(connections)
    /\ \/ spc = "receive" /\ received = End(connections).sent
       \/ spc = "handling" /\ Unread > SocketBuffer

(* The client waits for bytes on a connection which the server has left    *)
(* and not closed.                                                         *)
ClientHeld ==
    /\ main = "perform" /\ connections = Current /\ spc = "accept" /\ ~closed
    /\ pc = "header" \/ (pc = "body" /\ BodyIncomplete)
    /\ Available = 0

SessionNext ==
    \/ ServerStep \/ ServerFault
    \/ ClientMain \/ ClientProgress \/ ClientEnds \/ ClientFault \/ ClientCrash

(* Both processes run.  Failures are not due, but a client notices a       *)
(* server that is gone.                                                    *)
SessionSpec ==
    /\ SessionInit /\ [][SessionNext]_sessionVars
    /\ WF_sessionVars(ServerStep)
    /\ WF_sessionVars(ClientMain \/ ClientProgress \/ ClientEnds)

-----------------------------------------------------------------------------
(* The answer to a request for p that a working pair of programs gives.    *)
NotFound == [returned |-> 0, status |-> "FILE_NOT_FOUND", filelen |-> 0]
RightResult(p) ==
    IF p \in DOMAIN FileLength
    THEN [returned |-> 0, status |-> "OK", filelen |-> FileLength[p]]
    ELSE NotFound
AnyResult == {RightResult(p) : p \in Path} \union {NotFound}

Seen(result) ==
    [returned |-> result.returned, status |-> result.status, filelen |-> result.filelen]

(* The requests made up to the k-th are as long together as the limit      *)
(* meant for one header.                                                   *)
Late(k) == k * RequestLen >= HeaderMax

(* From end to end: the client comes to the right result for the path of   *)
(* each request, with these exceptions.  Where calls fail, and beyond the  *)
(* limit for one header, it may come to an error.  And beyond that limit,  *)
(* where paths are cut, and when the path has been overwritten before the  *)
(* handler read it, the file may be denied, or be another one - but then   *)
(* all of that one.                                                        *)
ResultExplained ==
    \A k \in 1 .. Len(results) :
        \/ Seen(results[k]) = RightResult(WorkloadPath(k))
        \/ results[k].returned = -1 /\ (faulty \/ Late(k))
        \/ Seen(results[k]) \in AnyResult /\ (k \in overwritten \/ Late(k))

(* The pair is a case of each component's own specification: what is shown *)
(* of Download for any server, and of GfServer for any clients, holds.     *)
ComponentSpecs == DownloadSpec /\ S!Spec

(* The client comes to an end, also when its server is lost - unless, once *)
(* a call has failed, the server is held by a socket the client has left   *)
(* open, or the client by one the server has left open.                    *)
SessionEnds == <>(Ended \/ (faulty /\ (ServerHeld \/ ClientHeld)))
=============================================================================
