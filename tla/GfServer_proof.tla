--------------------------- MODULE GfServer_proof ---------------------------
(***************************************************************************)
(* What holds of the Getfile server library for every set of requests, of  *)
(* any length and cut off anywhere, and for every limit of a header.       *)
(***************************************************************************)
EXTENDS GfServer, TLAPS

-----------------------------------------------------------------------------
(* The inductive invariant, in parts.                                      *)

(* What has been received for this request has also been counted in the    *)
(* sum over all requests; the loop goes on exactly while that sum is below *)
(* the limit and the marker has not arrived.                               *)
ReceiveInv ==
    /\ received <= total_received
    /\ pc = "receive" => ReceiveMore
    /\ pc = "parse" => ~ReceiveMore

(* Below the limit sscanf has seen the whole of a well-formed request.     *)
ParsedInv ==
    pc = "handle" /\ request.form = "valid" /\ total_received < HeaderMax
        => path = request.path

IInv == TypeOK /\ ReceiveInv /\ ParsedInv /\ RefusalExplained /\ WholePathBelowLimit

-----------------------------------------------------------------------------
(* The constants and the current request.                                  *)
LEMMA ConstantFacts ==
    /\ HeaderMax \in Nat /\ HeaderMax > 0
    /\ PrefixLen \in Nat /\ PrefixLen > 0 /\ MarkerLen \in Nat /\ MarkerLen > 0
    /\ MaxConnections \in Nat
    /\ \A r \in Request : /\ r.form \in Form /\ r.path \in Path /\ r.size \in Nat
                          /\ r.sent \in Nat /\ r.sent <= r.size
                          /\ PrefixLen + MarkerLen < r.size
<1>1. {HeaderMax, PrefixLen, MarkerLen, MaxConnections} \subseteq Nat \ {0}
  BY BoundAssumption
<1>2. Request \subseteq [form : Form, path : Path, size : Nat, sent : Nat]
  BY RequestAssumption
<1>. QED
  BY <1>1, <1>2, RequestAssumption

LEMMA InitIInv == Init => IInv
<1>. SUFFICES ASSUME Init PROVE IInv
  OBVIOUS
<1>1. /\ received \in 0 .. request.sent /\ received < 2 * HeaderMax
      /\ total_received \in Nat /\ connections \in 0 .. MaxConnections
  BY ConstantFacts DEF Init
<1>2. TypeOK
  BY <1>1 DEF Init, TypeOK, Unanswered
<1>3. ReceiveInv /\ ParsedInv /\ RefusalExplained /\ WholePathBelowLimit
  BY DEF Init, Unanswered, ReceiveInv, ParsedInv, RefusalExplained, WholePathBelowLimit
<1>. QED  BY <1>2, <1>3 DEF IInv

(* A well-formed request whose marker has arrived is read to its path.     *)
LEMMA WholeRequest ==
    ASSUME TypeOK, request.form = "valid", MarkerReceived
    PROVE  /\ ~EndBeforePath
           /\ PathAfterScan = {request.path} /\ request.path \in Path
<1>1. /\ received = request.size /\ request.size \in Nat /\ request.path \in Path
      /\ PrefixLen + MarkerLen < request.size
      /\ PrefixLen \in Nat /\ MarkerLen \in Nat /\ MarkerLen > 0
  BY ConstantFacts DEF TypeOK, MarkerReceived
<1>2. ~EndBeforePath
  BY <1>1 DEF EndBeforePath
<1>3. PathFound /\ PathRead = request.path
  BY <1>1, <1>2 DEF PathFound, PathRead
<1>. QED
  BY <1>1, <1>2, <1>3 DEF PathAfterScan

(* sscanf leaves a path, a part of one, or what it found.                  *)
LEMMA ScanType ==
    ASSUME TypeOK, NEW p \in PathAfterScan
    PROVE  p \in Path \union {"none", "truncated", "relative", "garbage"}
BY ConstantFacts DEF TypeOK, PathAfterScan, PathRead

-----------------------------------------------------------------------------
(* Every step keeps the invariant.                                         *)
LEMMA NextInv == IInv /\ [Next]_vars => IInv'
<1>. SUFFICES ASSUME IInv, [Next]_vars PROVE IInv'
  OBVIOUS
<1>1. TypeOK /\ ReceiveInv /\ ParsedInv /\ RefusalExplained /\ WholePathBelowLimit
  BY DEF IInv
<1>2. CASE \/ Listen \/ ListenFails \/ AcceptCrashes \/ AcceptFails \/ ReceiveFails
           \/ ParseCrashes \/ SendKills \/ HandlerReturns
  <2>1. /\ pc' \in {"accept", "exited", "crashed"} /\ ctx' \in {"allocated", "NULL"}
        /\ UNCHANGED <<total_received, request, received, path, outcome, connections>>
    BY <1>1, <1>2 DEF Listen, ListenFails, AcceptCrashes, AcceptFails, ReceiveFails,
                      ParseCrashes, SendKills, HandlerReturns, TypeOK
  <2>2. TypeOK'
    BY <1>1, <2>1 DEF TypeOK
  <2>. QED  BY <1>1, <2>1, <2>2 DEF IInv, ReceiveInv, ParsedInv, RefusalExplained,
                                    WholePathBelowLimit
<1>3. CASE Accept
  <2>1. /\ request' \in Request /\ connections' = connections + 1
        /\ connections < MaxConnections /\ outcome' = Unanswered /\ received' = 0
        /\ UNCHANGED <<ctx, total_received, path>>
        /\ pc' = IF ReceiveMore' THEN "receive" ELSE "parse"
    BY <1>3 DEF Accept, LoopTest
  <2>2. received' \in 0 .. request'.sent /\ received' < 2 * HeaderMax
    BY <2>1, ConstantFacts
  <2>3. connections' \in 0 .. MaxConnections
    BY <1>1, <2>1, ConstantFacts DEF TypeOK
  <2>4. TypeOK'
    BY <1>1, <2>1, <2>2, <2>3 DEF TypeOK, Unanswered
  <2>5. received' <= total_received'
    BY <1>1, <2>1 DEF TypeOK
  <2>. QED  BY <2>1, <2>4, <2>5 DEF IInv, ReceiveInv, ParsedInv, RefusalExplained,
                                    WholePathBelowLimit, Unanswered
<1>4. CASE Receive
  <2>1. PICK n \in 1 .. Smaller(request.sent - received, HeaderMax) :
            received' = received + n /\ total_received' = total_received + n
    BY <1>4 DEF Receive
  <2>2. /\ UNCHANGED <<ctx, request, path, outcome, connections>>
        /\ pc = "receive" /\ pc' = IF ReceiveMore' THEN "receive" ELSE "parse"
    BY <1>4 DEF Receive, LoopTest
  <2>3. /\ received \in Nat /\ request.sent \in Nat /\ total_received \in Nat
        /\ received <= total_received /\ total_received < HeaderMax
    BY <1>1, <2>2, ConstantFacts DEF TypeOK, ReceiveInv, ReceiveMore
  <2>4. n \in Nat /\ n > 0 /\ n <= request.sent - received /\ n <= HeaderMax
    BY <2>3, ConstantFacts DEF Smaller
  <2>5. /\ received' \in 0 .. request.sent /\ received' < 2 * HeaderMax
        /\ total_received' \in Nat /\ received' <= total_received'
        /\ total_received' > total_received
    BY <2>1, <2>3, <2>4, ConstantFacts
  <2>6. TypeOK'
    BY <1>1, <2>2, <2>5 DEF TypeOK
  <2>7. ReceiveInv' /\ ParsedInv'
    BY <2>2, <2>5 DEF ReceiveInv, ParsedInv
  <2>8. RefusalExplained' /\ WholePathBelowLimit'
    BY <1>1, <2>2, <2>3, <2>5, ConstantFacts DEF RefusalExplained, WholePathBelowLimit
  <2>. QED  BY <2>6, <2>7, <2>8 DEF IInv
<1>5. CASE ParseInvalid
  <2>1. /\ pc = "parse" /\ path' \in PathAfterScan
        /\ EndBeforePath \/ ~MustBeginWithSlash(path')
        /\ outcome' = [kind |-> "refused", path |-> "none"]
        /\ ctx' = "NULL" /\ pc' = "accept"
        /\ UNCHANGED <<total_received, request, received, connections>>
    BY <1>5 DEF ParseInvalid, NotValid
  <2>2. TypeOK'
    BY <1>1, <2>1, ScanType DEF TypeOK
  <2>3. request.form = "valid" => ~MarkerReceived
    BY <1>1, <2>1, WholeRequest DEF MustBeginWithSlash
  <2>4. request.form = "valid" => total_received >= HeaderMax
    BY <1>1, <2>1, <2>3, ConstantFacts DEF ReceiveInv, ReceiveMore, TypeOK
  <2>. QED  BY <1>1, <2>1, <2>2, <2>4 DEF IInv, ReceiveInv, ParsedInv, RefusalExplained,
                                          WholePathBelowLimit
<1>6. CASE ParseValid
  <2>1. /\ pc = "parse" /\ path' \in PathAfterScan /\ pc' = "handle"
        /\ UNCHANGED <<ctx, total_received, request, received, outcome, connections>>
    BY <1>6 DEF ParseValid
  <2>2. TypeOK'
    BY <1>1, <2>1, ScanType DEF TypeOK
  <2>3. request.form = "valid" /\ total_received < HeaderMax => path' = request.path
    BY <1>1, <2>1, WholeRequest DEF ReceiveInv, ReceiveMore
  <2>. QED  BY <1>1, <2>1, <2>2, <2>3 DEF IInv, ReceiveInv, ParsedInv, RefusalExplained,
                                          WholePathBelowLimit
<1>7. CASE CallHandler
  <2>1. PICK kept \in FrameKept :
            outcome' = [kind |-> "handled", path |-> IF kept THEN path ELSE "garbage"]
    BY <1>7 DEF CallHandler
  <2>2. /\ pc = "handle" /\ pc' = "handling"
        /\ UNCHANGED <<ctx, total_received, request, received, path, connections>>
    BY <1>7 DEF CallHandler
  <2>3. outcome'.kind = "handled" /\ outcome'.path \in {path, "garbage"}
    BY <2>1
  <2>4. TypeOK'
    BY <1>1, <2>2, <2>3 DEF TypeOK
  <2>. QED  BY <1>1, <2>2, <2>3, <2>4 DEF IInv, ReceiveInv, ParsedInv, RefusalExplained,
                                          WholePathBelowLimit
<1>8. CASE ReceiveNothing \/ Idle \/ Ended \/ UNCHANGED vars
  <2>1. UNCHANGED <<pc, ctx, total_received, request, received, path, outcome, connections>>
    BY <1>8 DEF ReceiveNothing, Idle, Ended, vars
  <2>. QED  BY <1>1, <2>1 DEF IInv, TypeOK, ReceiveInv, ReceiveMore, MarkerReceived,
                              ParsedInv, RefusalExplained, WholePathBelowLimit
<1>. QED
  BY <1>2, <1>3, <1>4, <1>5, <1>6, <1>7, <1>8 DEF Next, Step, Failure

LEMMA Invariance == Spec => []IInv
BY InitIInv, NextInv, PTL DEF Spec

(* What is put into request_buffer is never more than two recv of          *)
(* HEADER_MAX_LEN, however long a request is and however it is cut up.     *)
THEOREM BufferBound == Spec => []TypeOK
<1>1. IInv => TypeOK
  BY DEF IInv
<1>. QED  BY <1>1, Invariance, PTL

(* gfserver_serve refuses a well-formed request only once the bytes it has *)
(* received since its start have reached the limit meant for one header.   *)
THEOREM Refusal == Spec => []RefusalExplained
<1>1. IInv => RefusalExplained
  BY DEF IInv
<1>. QED  BY <1>1, Invariance, PTL

(* Below that limit the handler gets the whole path of this request, or    *)
(* what has overwritten the array it is in.                                *)
THEOREM WholePath == Spec => []WholePathBelowLimit
<1>1. IInv => WholePathBelowLimit
  BY DEF IInv
<1>. QED  BY <1>1, Invariance, PTL
=============================================================================
