------------------------------ MODULE Download ------------------------------
(***************************************************************************)
(* The sequential download client (gflib/gfclient_download.c): main loads  *)
(* the workload (gflib/workload.c) and makes nrequests requests, one after *)
(* the other, each a gfc_perform of the client library whose writefunc     *)
(* appends to a new local file.  GfClient has the steps of gfc_perform;    *)
(* its variables are those of the request at hand.                         *)
(***************************************************************************)
EXTENDS GfClient, Functions, FiniteSets

CONSTANTS
    nrequests,
    Path,            \* the paths that occur in workloads
    Workload,        \* the workload files: sequences of paths
    TooLong,         \* the paths of more than 256 characters
    Creatable,       \* the paths for which openFile succeeds
    Descriptors      \* how many the process can open

ASSUME WorkloadAssumption ==
    /\ nrequests \in Nat
    /\ \A w \in Workload : w \in Seq(Path) /\ Len(w) <= 100
ASSUME DescriptorsAssumption == Descriptors \in Nat \ {0}

VARIABLES
    main,                \* where main is
    gWorkloadPathArray,  \* the paths workload_init has read
    results,             \* per request made: what gfc_perform returned and left
    disk,                \* the local files there are, and their sizes
    leaked               \* sockets that no request closed

downloadVars == <<main, gWorkloadPathArray, results, disk, leaked>>
allVars == <<vars, downloadVars>>

DownloadInit ==
    /\ Init
    /\ main = "load" /\ gWorkloadPathArray = << >>
    /\ results = << >> /\ disk = << >> /\ leaked = 0

(* workload_get_path, for the k-th request: the paths are used in turn.    *)
WorkloadPath(k) ==
    gWorkloadPathArray[((k - 1) % Len(gWorkloadPathArray)) + 1]

(* localPath: the path with the value of a counter.                        *)
LocalPath(k) == <<WorkloadPath(k), k - 1>>

Current == Len(results) + 1

-----------------------------------------------------------------------------
(* workload_init.                                                          *)
LoadWorkload ==
    /\ main = "load"
    /\ gWorkloadPathArray' \in Workload
    /\ main' = "next"
    /\ UNCHANGED <<vars, results, disk, leaked>>

(* The workload file cannot be opened.                                     *)
LoadFails ==
    /\ main = "load"
    /\ main' = "exited"
    /\ UNCHANGED <<vars, gWorkloadPathArray, results, disk, leaked>>

(* An empty workload: workload_get_path divides by zero.                   *)
DivideByZero ==
    /\ main = "next" /\ Len(results) < nrequests /\ gWorkloadPathArray = << >>
    /\ main' = "crashed"
    /\ UNCHANGED <<vars, gWorkloadPathArray, results, disk, leaked>>

Requestable ==
    /\ WorkloadPath(Current) \in Creatable \ TooLong
    /\ leaked < Descriptors

(* One turn of the loop up to gfc_perform: a path, a local file and a new  *)
(* request.                                                                *)
MakeRequest ==
    /\ main = "next" /\ Len(results) < nrequests /\ gWorkloadPathArray # << >>
    /\ Requestable
    /\ disk' = [f \in DOMAIN disk \union {LocalPath(Current)} |->
                    IF f = LocalPath(Current) THEN 0 ELSE disk[f]]
    /\ main' = "perform"
    /\ response' = NoResponse
    /\ pc' = "connect" /\ sockfd' = "none" /\ bytes_sent' = 0 /\ taken' = 0
    /\ total_bytes' = 0 /\ total_file_bytes' = 0 /\ file_len' = 0 /\ ret_status' = "OK"
    /\ received_filelen' = 0 /\ with_header' = 0
    /\ headers' = 0 /\ delivered' = << >>
    /\ returned' = 0
    /\ UNCHANGED <<gWorkloadPathArray, results, leaked>>

(* The path is too long, or openFile fails, for want of a descriptor too.  *)
MakeRequestFails ==
    /\ main = "next" /\ Len(results) < nrequests /\ gWorkloadPathArray # << >>
    /\ ~Requestable
    /\ main' = "exited"
    /\ UNCHANGED <<vars, gWorkloadPathArray, results, disk, leaked>>

(* gfc_perform goes on; the local file has the one descriptor, and the     *)
(* socket needs another.                                                   *)
HasDescriptor == leaked + 1 < Descriptors

PerformProgress ==
    /\ main = "perform"
    /\ Progress
    /\ pc = "connect" => HasDescriptor
    /\ UNCHANGED downloadVars

PerformFailure == main = "perform" /\ Failure /\ UNCHANGED downloadVars

PerformCrash == main = "perform" /\ Crash /\ UNCHANGED downloadVars

(* What the request at hand has come to, and, to compare a success with,   *)
(* the response it was.                                                    *)
Result ==
    [returned |-> returned, status |-> ret_status, filelen |-> received_filelen,
     response |-> IF returned = 0 /\ ret_status = "OK" THEN response ELSE NoResponse]

(* Mutant: what tells whether the file stays is the status alone.          *)
SettleByStatus ==
    /\ main = "perform" /\ pc = "returned"
    /\ disk' = IF ret_status # "OK"
               THEN Restrict(disk, DOMAIN disk \ {LocalPath(Current)})
               ELSE [disk EXCEPT ![LocalPath(Current)] = Len(delivered)]
    /\ leaked' = leaked + (IF sockfd = "open" THEN 1 ELSE 0)
    /\ results' = Append(results, Result)
    /\ main' = "next"
    /\ UNCHANGED <<vars, gWorkloadPathArray>>

(* gfc_perform has returned: fclose, and unlink after a negative return    *)
(* value, and once more, without effect, for a status other than GF_OK.    *)
(* The request is freed; a socket it left open stays open.                 *)
Settle ==
    /\ main = "perform" /\ pc = "returned"
    /\ disk' = IF returned < 0 \/ ret_status # "OK"
               THEN Restrict(disk, DOMAIN disk \ {LocalPath(Current)})
               ELSE [disk EXCEPT ![LocalPath(Current)] = Len(delivered)]
    /\ leaked' = leaked + (IF sockfd = "open" THEN 1 ELSE 0)
    /\ results' = Append(results, Result)
    /\ main' = "next"
    /\ UNCHANGED <<vars, gWorkloadPathArray>>

AllMade ==
    /\ main = "next" /\ Len(results) = nrequests
    /\ main' = "done"
    /\ UNCHANGED <<vars, gWorkloadPathArray, results, disk, leaked>>

MainStep == LoadWorkload \/ DivideByZero \/ MakeRequest \/ MakeRequestFails \/ Settle \/ AllMade

Ended == main \in {"done", "exited", "crashed"} \/ pc \in {"exited", "crashed"}

Stop == Ended /\ UNCHANGED allVars

ServerAnswers ==
    /\ main = "perform"
    /\ \E r \in Response : Answer(r)
    /\ UNCHANGED downloadVars

DownloadNext ==
    \/ MainStep \/ LoadFails
    \/ PerformProgress \/ PerformFailure \/ PerformCrash
    \/ ServerAnswers \/ Stop

(* gfc_perform finds no descriptor left, or the connection at its end.     *)
PerformEnds ==
    /\ main = "perform"
    /\ \/ ConnectFails /\ ~HasDescriptor
       \/ BodyCut /\ AllTaken
    /\ UNCHANGED downloadVars

DownloadSpec == DownloadInit /\ [][DownloadNext]_allVars

(* The process runs, and the server answers: no failure is ever due.       *)
FairDownloadSpec ==
    /\ DownloadSpec
    /\ WF_allVars(MainStep \/ PerformProgress \/ PerformEnds)
    /\ WF_allVars(ServerAnswers)

-----------------------------------------------------------------------------
(* Every variable of main stays in its type.                               *)
DownloadTypeOK ==
    /\ TypeOK
    /\ main \in {"load", "next", "perform", "done", "exited", "crashed"}
    /\ gWorkloadPathArray \in Seq(Path)
    /\ Len(results) <= nrequests
    /\ DOMAIN disk \subseteq Path \X (0 .. nrequests - 1)
    /\ leaked \in 0 .. Descriptors - 1

Succeeded(result) == result.returned = 0 /\ result.status = "OK"

(* What the code counts as body beyond it, when the header says 0: the     *)
(* length field itself.                                                    *)
Excess(filelen) == IF filelen = 0 THEN LengthLen ELSE 0

(* A request that has been made has a local file if and only if it         *)
(* succeeded, and then, if the header was of the standard layout, the file *)
(* has all the bytes announced and no more than the server has sent.  (The *)
(* other headers that are taken for a success leave a file of any size.)   *)
(* Any other file is that of the request at hand; it stays behind, without *)
(* a byte of the response, when the library ends the process.              *)
DiskHoldsTheSuccesses ==
    /\ \A k \in 1 .. Len(results) :
           LET r == results[k] IN
           /\ LocalPath(k) \in DOMAIN disk <=> Succeeded(r)
           /\ Succeeded(r) /\ r.response.form \in Announced =>
                  /\ r.filelen = r.response.length
                  /\ disk[LocalPath(k)] - Excess(r.filelen) \in r.filelen .. r.response.body
    /\ DOMAIN disk \ {LocalPath(k) : k \in 1 .. Len(results)}
           \subseteq (IF main = "perform" THEN {LocalPath(Current)} ELSE {})
    /\ pc \in {"exited", "crashed"} => disk[LocalPath(Current)] = 0 /\ delivered = << >>

(* The sockets left open are those of the requests that failed before      *)
(* gfc_perform had the header of a success, one for each; and main never   *)
(* uses more than it has.                                                  *)
SocketsExplained ==
    /\ DownloadTypeOK
    /\ leaked = Cardinality({k \in 1 .. Len(results) :
                    results[k].returned = -1 /\ results[k].status # "OK"})

(* The client comes to an end, whatever its requests come to.              *)
Ends == <>Ended
=============================================================================
