------------------------------ MODULE GfServer ------------------------------
(***************************************************************************)
(* The Getfile server library (gflib/gfserver.c): gfserver_serve accepts   *)
(* one connection after the other, receives a request header, parses it    *)
(* and calls the handler.  One thread does everything.                     *)
(*                                                                         *)
(* A request is counted in bytes: PrefixLen bytes up to the path, the path *)
(* and MarkerLen bytes of end marker.  The client sends the first `sent'   *)
(* of its `size' bytes; if that is not all of them it closes the           *)
(* connection, else it waits for the response.                             *)
(***************************************************************************)
EXTENDS Integers

CONSTANTS
    Request,         \* the requests clients may make
    Path,            \* the paths they may ask for
    HeaderMax,       \* HEADER_MAX_LEN
    PrefixLen, MarkerLen,
    MaxConnections,  \* bound: connections made in a behaviour
    Fault,           \* the calls that may fail: "accept", "recv", "send", "handler"
    FrameKept        \* what can have become of a local array after its
                     \* function has returned: TRUE if it was left alone

Form == {"valid", "bad_path", "bad_scheme"}

ASSUME RequestAssumption ==
    /\ Request \subseteq [form : Form, path : Path, size : Nat, sent : Nat]
    /\ \A r \in Request : r.sent <= r.size /\ PrefixLen + MarkerLen < r.size
ASSUME BoundAssumption ==
    /\ {HeaderMax, PrefixLen, MarkerLen, MaxConnections} \subseteq Nat \ {0}
    /\ Fault \subseteq {"accept", "recv", "send", "handler"}
    /\ FrameKept \subseteq BOOLEAN
ASSUME PathAssumption == {"none", "truncated", "relative", "garbage"} \intersect Path = {}

VARIABLES
    pc,              \* where gfserver_serve is
    ctx,             \* "allocated" or "NULL"
    total_received,  \* the bytes received so far
    request,         \* the request of the current connection
    received,        \* the bytes of it in request_buffer
    path,            \* what the array in parseRequestHeader holds
    outcome,         \* what became of the current request
    connections      \* how many have been accepted

vars == <<pc, ctx, total_received, request, received, path, outcome, connections>>

Unanswered == [kind |-> "none", path |-> "none"]

Init ==
    /\ pc = "listen" /\ ctx = "allocated"
    /\ total_received = 0 /\ received = 0
    /\ request \in Request
    /\ path = "none"
    /\ outcome = Unanswered
    /\ connections = 0

-----------------------------------------------------------------------------
(* gfs_create_socket.                                                      *)
Listen ==
    /\ pc = "listen" /\ pc' = "accept"
    /\ UNCHANGED <<ctx, total_received, request, received, path, outcome, connections>>

ListenFails ==
    /\ pc = "listen" /\ pc' = "exited"
    /\ UNCHANGED <<ctx, total_received, request, received, path, outcome, connections>>

MarkerReceived == received = request.size

(* Mutant: one recv is taken to return the whole header.                   *)
ReceiveMoreOnce == received = 0 /\ total_received < HeaderMax

(* Mutant: || for &&.                                                      *)
ReceiveMoreEither == ~MarkerReceived \/ total_received < HeaderMax

(* Mutant: no limit.                                                       *)
ReceiveMoreUnlimited == ~MarkerReceived

(* The condition of the loop that receives a header.                       *)
ReceiveMore == ~MarkerReceived /\ total_received < HeaderMax

(* Where the thread goes when the loop is entered or has turned.           *)
LoopTest == pc' = IF ReceiveMore' THEN "receive" ELSE "parse"

(* accept returns a connection, and the buffers are cleared.               *)
Accept ==
    /\ pc = "accept" /\ connections < MaxConnections /\ ctx = "allocated"
    /\ request' \in Request
    /\ connections' = connections + 1
    /\ outcome' = Unanswered
    /\ received' = 0
    /\ UNCHANGED <<ctx, total_received, path>>
    /\ LoopTest

(* The result of accept is stored through a context that is not there.     *)
AcceptCrashes ==
    /\ pc = "accept" /\ connections < MaxConnections /\ ctx = "NULL"
    /\ pc' = "crashed"
    /\ UNCHANGED <<ctx, total_received, request, received, path, outcome, connections>>

(* accept fails: the context is freed and the loop goes on without one.    *)
AcceptFails ==
    /\ pc = "accept" /\ ctx = "allocated" /\ "accept" \in Fault
    /\ ctx' = "NULL"
    /\ UNCHANGED <<pc, total_received, request, received, path, outcome, connections>>

Smaller(m, n) == IF m < n THEN m ELSE n

(* One turn of the loop: recv returns some of the bytes on their way.      *)
Receive ==
    /\ pc = "receive"
    /\ \E n \in 1 .. Smaller(request.sent - received, HeaderMax) :
           /\ received' = received + n
           /\ total_received' = total_received + n
    /\ UNCHANGED <<ctx, request, path, outcome, connections>>
    /\ LoopTest

(* The client has closed the connection: recv returns 0, nothing changes   *)
(* and the loop calls it again.                                            *)
ReceiveNothing ==
    /\ pc = "receive" /\ received = request.sent
    /\ UNCHANGED vars

(* recv fails: the context is freed, `continue' goes back to the condition *)
(* of the inner loop, and recv reads the descriptor of no context.         *)
ReceiveFails ==
    /\ pc = "receive" /\ "recv" \in Fault
    /\ ctx' = "NULL"
    /\ pc' = "crashed"
    /\ UNCHANGED <<total_received, request, received, path, outcome, connections>>

-----------------------------------------------------------------------------
(* parseRequestHeader: sscanf meets the end of the buffer before a path,   *)
(* and returns a negative number.                                          *)
EndBeforePath ==
    received = 0 \/ (request.form # "bad_scheme" /\ received <= PrefixLen)

PathFound == request.form # "bad_scheme" /\ ~EndBeforePath

PathRead ==
    IF request.form = "bad_path" THEN "relative"
    ELSE IF received < request.size - MarkerLen THEN "truncated" ELSE request.path

(* What the array may hold when sscanf has returned: the path read; or, if *)
(* it did not get that far, what it held before, or what other calls have  *)
(* left there.                                                             *)
PathAfterScan == IF PathFound THEN {PathRead} ELSE {path, "garbage"}

(* The first character is a slash; that of garbage may be one or not.      *)
MayBeginWithSlash(p) == p \in Path \union {"truncated", "garbage"}
MustBeginWithSlash(p) == p \in Path \union {"truncated"}

(* A path as long as the array: %s has no width, and sscanf writes beyond  *)
(* it.                                                                     *)
Overrun ==
    PathFound /\ Smaller(received, request.size - MarkerLen) - PrefixLen >= HeaderMax

ParseCrashes ==
    /\ pc = "parse" /\ Overrun
    /\ pc' = "crashed"
    /\ UNCHANGED <<ctx, total_received, request, received, path, outcome, connections>>

(* The overrun may also do no harm.  The header is not valid: INVALID is   *)
(* sent, and gfs_abort closes the connection and frees the context.        *)
NotValid(p) == EndBeforePath \/ ~MustBeginWithSlash(p)

ParseInvalid ==
    /\ pc = "parse"
    /\ path' \in PathAfterScan
    /\ NotValid(path')
    /\ outcome' = [kind |-> "refused", path |-> "none"]
    /\ ctx' = "NULL"
    /\ pc' = "accept"
    /\ UNCHANGED <<total_received, request, received, connections>>

ParseValid ==
    /\ pc = "parse" /\ ~EndBeforePath
    /\ path' \in PathAfterScan
    /\ MayBeginWithSlash(path')
    /\ pc' = "handle"
    /\ UNCHANGED <<ctx, total_received, request, received, outcome, connections>>

(* The handler is called with a pointer to the array of a function that    *)
(* has returned, and reads what is there by then.                          *)
CallHandler ==
    /\ pc = "handle"
    /\ \E kept \in FrameKept :
           outcome' = [kind |-> "handled", path |-> IF kept THEN path ELSE "garbage"]
    /\ pc' = "handling"
    /\ UNCHANGED <<ctx, total_received, request, received, path, connections>>

(* It has sent its response.  It may end by gfs_abort.                     *)
HandlerReturns ==
    /\ pc = "handling"
    /\ ctx' \in {"allocated"} \union (IF "handler" \in Fault THEN {"NULL"} ELSE {})
    /\ pc' = "accept"
    /\ UNCHANGED <<total_received, request, received, path, outcome, connections>>

(* The client has gone when the answer is sent: the signal SIGPIPE, which  *)
(* gfserver_main.c does not ignore, ends the process.                      *)
SendKills ==
    /\ "send" \in Fault
    /\ pc = "handling" \/ (pc = "parse" /\ \E p \in PathAfterScan : NotValid(p))
    /\ pc' = "crashed"
    /\ UNCHANGED <<ctx, total_received, request, received, path, outcome, connections>>

(* No further client comes.                                                *)
Idle == pc = "accept" /\ connections = MaxConnections /\ UNCHANGED vars

Ended == pc \in {"crashed", "exited"} /\ UNCHANGED vars

Step ==
    \/ Listen \/ Accept \/ AcceptCrashes
    \/ Receive \/ ReceiveNothing
    \/ ParseInvalid \/ ParseValid \/ ParseCrashes \/ CallHandler \/ HandlerReturns

Failure == ListenFails \/ AcceptFails \/ ReceiveFails \/ SendKills

Next == Step \/ Failure \/ Idle \/ Ended

Spec == Init /\ [][Next]_vars

(* The thread runs, and what clients send arrives; no call need ever fail. *)
FairSpec == Spec /\ WF_vars(Step)

-----------------------------------------------------------------------------
(* Every variable stays in its type; no more is received than was sent,    *)
(* and what is put into request_buffer are two recv of HEADER_MAX_LEN at   *)
(* most (their sum is far below its size), however long a request is and   *)
(* however it is cut up.                                                   *)
TypeOK ==
    /\ pc \in {"listen", "accept", "receive", "parse", "handle", "handling",
               "crashed", "exited"}
    /\ ctx \in {"allocated", "NULL"}
    /\ total_received \in Nat
    /\ request \in Request
    /\ received \in 0 .. request.sent /\ received < 2 * HeaderMax
    /\ path \in Path \union {"none", "truncated", "relative", "garbage"}
    /\ outcome.kind \in {"none", "handled", "refused"}
    /\ outcome.path \in Path \union {"none", "truncated", "relative", "garbage"}
    /\ connections \in 0 .. MaxConnections

(* A well-formed request is refused only when the bytes received since the *)
(* server started have reached the limit meant for one header.             *)
RefusalExplained ==
    outcome.kind = "refused" /\ request.form = "valid" => total_received >= HeaderMax

(* Below that limit the handler gets the path that was asked for, from a   *)
(* request that arrived in any number of pieces - or what has overwritten  *)
(* it - but never a part of it, nor the path of an earlier request.        *)
WholePathBelowLimit ==
    outcome.kind = "handled" /\ request.form = "valid" /\ total_received < HeaderMax
        => outcome.path \in {request.path, "garbage"}

(* gfserver.h: gfserver_serve does not return; in particular it survives   *)
(* every request it refuses.                                               *)
NeverCrashes == pc # "crashed"

(* The client has closed the connection before the end of its header, and  *)
(* gfserver_serve has received all there is.                               *)
HungUp == received = request.sent /\ request.sent < request.size

(* Every connection that is accepted is answered, by the handler or with   *)
(* INVALID, so that the next one is accepted - unless recv fails, a path   *)
(* runs over its array or the refused client has gone, each of which ends  *)
(* the process, or the client has hung up before the end of its header:    *)
(* then gfserver_serve calls recv for ever.                                *)
EveryRequestIsAnswered ==
    pc = "receive" ~> \/ outcome.kind # "none"
                      \/ pc = "crashed"
                      \/ pc = "receive" /\ HungUp
=============================================================================
