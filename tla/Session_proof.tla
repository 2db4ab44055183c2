---------------------------- MODULE Session_proof ----------------------------
(***************************************************************************)
(* What holds of gfc_perform for every set of responses and all sizes; of  *)
(* the sequential download client for every workload, number of requests   *)
(* and of descriptors, against any server; and of that client against the  *)
(* sequential server for every set of files and every limit of a header.   *)
(*                                                                         *)
(* The first two parts rest on the assumptions of GfClient and Download    *)
(* alone.  The third adds what the server does with each connection.       *)
(***************************************************************************)
EXTENDS Session, FiniteSetTheorems, SequenceTheorems, TLAPS

-----------------------------------------------------------------------------
(* The inductive invariant of gfc_perform, in parts.                       *)

(* Until the marker has been received nothing has been handed on, and the  *)
(* fields of the request are as gfc_create has left them.                  *)
Fresh == /\ delivered = << >> /\ total_file_bytes = 0 /\ file_len = 0
         /\ ret_status = "OK" /\ returned = 0

(* How far the response has been received, at each point of gfc_perform.   *)
HeaderInv ==
    /\ total_bytes = taken
    /\ pc \in {"connect", "send", "header", "parse"} => Fresh
    /\ pc \in {"connect", "send"} => taken = 0
    /\ pc = "header" => taken < HeaderLen
    /\ pc = "parse" => /\ response \in Response
                       /\ taken = HeaderLen + with_header
    /\ pc \in {"exited", "crashed"} => delivered = << >>

(* In the loop that receives the body: what this loop has received has     *)
(* been handed on.  After a header of the standard layout, what is counted *)
(* as body is what has been received behind the header, with the length    *)
(* field if that says 0.                                                   *)
BodyInv ==
    pc = "body" =>
        /\ response \in Response /\ response.form \in Announced \union {"loose", "garbage"}
        /\ ret_status = "OK" /\ returned = 0 /\ file_len = received_filelen
        /\ taken >= HeaderLen + with_header
        /\ Len(delivered) >= taken - (HeaderLen + with_header)
        /\ response.form \in Announced =>
              /\ file_len = response.length
              /\ total_file_bytes = (taken - HeaderLen) + Excess(file_len)

(* The socket is open from connect to the end of gfc_perform, and stays    *)
(* open when gfc_perform fails without the header of a success.            *)
SocketInv ==
    /\ pc = "connect" => sockfd = "none"
    /\ pc \in {"send", "header", "parse", "body"} => sockfd = "open"
    /\ pc = "returned" =>
           (sockfd = "open" <=> returned = -1 /\ ret_status # "OK")

(* A success has handed on all bytes that were announced, and no more than *)
(* there were.                                                             *)
SuccessInv ==
    pc = "returned" /\ returned = 0 /\ ret_status = "OK" /\ response.form \in Announced =>
        /\ received_filelen = response.length
        /\ Len(delivered) - Excess(received_filelen) \in received_filelen .. response.body

PerformInv == TypeOK /\ HeaderInv /\ BodyInv /\ SocketInv /\ SuccessInv
                     /\ ReturnContract /\ BytesHandedOn

-----------------------------------------------------------------------------
(* The inductive invariant of the client.                                  *)

Outcome == [returned : {0, -1}, status : Status, filelen : Nat,
            response : Response \union {NoResponse}]

(* Where main is tells what it has loaded and made, and which file it has  *)
(* open; the library ends the process only while main is in gfc_perform.   *)
MainInv ==
    /\ results \in Seq(Outcome)
    /\ disk \in [DOMAIN disk -> Nat]
    /\ main = "load" => results = << >> /\ DOMAIN disk = {}
    /\ main = "perform" \/ results # << >> => gWorkloadPathArray # << >>
    /\ main = "perform" => /\ Len(results) < nrequests
                           /\ LocalPath(Current) \in DOMAIN disk
                           /\ disk[LocalPath(Current)] = 0
                           /\ sockfd = "open" => leaked + 1 < Descriptors
    /\ pc \in {"exited", "crashed"} => main = "perform"

IInv == PerformInv /\ MainInv /\ DiskHoldsTheSuccesses /\ SocketsExplained

-----------------------------------------------------------------------------
(* The constants, and the responses there can be.                          *)
LEMMA SizeFacts ==
    /\ RequestLen \in Nat /\ HeaderLen \in Nat /\ LengthLen \in Nat /\ Skip \in Nat
    /\ Buffer \in Nat /\ Buffer > 1 /\ LengthLen < HeaderLen
    /\ \A r \in Response \union {NoResponse} :
           r.length \in Nat /\ r.body \in Nat /\ r.blanks \in Nat /\ r.zero \in Nat
    /\ \A r \in Response : r.form \in Form
    /\ NoResponse \notin Response
<1>1. \A r \in Response : r \in [form : Form, length : Nat, body : Nat, blanks : Nat, zero : Nat]
  BY ResponseAssumption
<1>2. ASSUME NEW r \in Response
      PROVE  /\ r.form \in Form /\ r.length \in Nat /\ r.body \in Nat
             /\ r.blanks \in Nat /\ r.zero \in Nat
  BY <1>1
<1>3. NoResponse.form \notin Form
  BY DEF NoResponse, Form
<1>. QED
  BY <1>2, <1>3, SizeAssumption DEF NoResponse

(* A function on 1 .. n is a sequence of n elements.                       *)
LEMMA CountedSeq ==
    ASSUME NEW n \in Nat, NEW f \in [1 .. n -> Nat]
    PROVE  f \in Seq(Nat) /\ Len(f) = n
<1>1. f \in Seq(Nat)
  BY SeqDef
<1>2. Len(f) \in Nat /\ 1 .. Len(f) = 1 .. n
  BY <1>1, LenProperties
<1>. QED  BY <1>1, <1>2

(* What a recv hands on continues what was handed on before.               *)
LEMMA Continue ==
    ASSUME NEW d \in Seq(Nat), NEW n \in Nat, NEW f \in [1 .. n -> Nat]
    PROVE  /\ d \o f \in Seq(Nat) /\ Len(d \o f) = Len(d) + n
           /\ \A i \in 1 .. Len(d) : (d \o f)[i] = d[i]
           /\ \A i \in Len(d) + 1 .. Len(d) + n : (d \o f)[i] = f[i - Len(d)]
<1>1. f \in Seq(Nat) /\ Len(f) = n /\ Len(d) \in Nat
  BY CountedSeq
<1>2. /\ d \o f \in Seq(Nat)
      /\ Len(d \o f) = Len(d) + Len(f)
      /\ \A i \in 1 .. Len(d) + Len(f) :
            (d \o f)[i] = IF i <= Len(d) THEN d[i] ELSE f[i - Len(d)]
  BY ONLY d \in Seq(Nat), <1>1, ConcatProperties
<1>3. Len(d \o f) = Len(d) + n
  BY <1>1, <1>2, Zenon
<1>4. \A i \in 1 .. Len(d) : i \in 1 .. Len(d) + Len(f) /\ i <= Len(d)
  BY <1>1
<1>5. \A i \in Len(d) + 1 .. Len(d) + n : i \in 1 .. Len(d) + Len(f) /\ ~ i <= Len(d)
  BY <1>1
<1>. QED  BY <1>2, <1>3, <1>4, <1>5, Zenon

-----------------------------------------------------------------------------
(* gfc_perform.                                                            *)
LEMMA InitPerform == Init => PerformInv
<1>. SUFFICES ASSUME Init PROVE PerformInv
  OBVIOUS
<1>1. delivered \in Seq(Nat) /\ Len(delivered) = 0
  BY EmptySeq DEF Init
<1>2. bytes_sent \in 0 .. RequestLen /\ taken \in 0 .. HeaderLen + response.body
  BY SizeFacts DEF Init
<1>3. TypeOK
  BY <1>1, <1>2 DEF Init, TypeOK, Status
<1>4. HeaderInv /\ BodyInv /\ SocketInv /\ SuccessInv
  BY DEF Init, HeaderInv, Fresh, BodyInv, SocketInv, SuccessInv
<1>5. ReturnContract /\ BytesHandedOn
  <2>1. with_header + 1 .. taken - HeaderLen = {}
    BY SizeFacts DEF Init
  <2>. QED  BY <1>1, <2>1 DEF Init, ReturnContract, BytesHandedOn
<1>. QED  BY <1>3, <1>4, <1>5 DEF PerformInv

(* What the parser finds: a whole header, and what came with its end.      *)
LEMMA ParseFacts ==
    ASSUME PerformInv, pc = "parse"
    PROVE  /\ response \in Response /\ response.form \in Form
           /\ response.length \in Nat /\ LengthRead \subseteq Nat
           /\ response.form \in Announced => LengthRead = {response.length}
           /\ total_bytes = taken /\ taken \in Nat
           /\ taken = HeaderLen + with_header /\ with_header \in Nat
           /\ Fresh /\ sockfd = "open"
<1>1. /\ response \in Response /\ taken = HeaderLen + with_header /\ Fresh
      /\ total_bytes = taken /\ with_header \in Nat /\ sockfd = "open"
  BY DEF PerformInv, TypeOK, HeaderInv, SocketInv
<1>2. response.length \in Nat /\ response.form \in Form /\ taken \in Nat
  BY <1>1, SizeFacts
<1>. QED  BY <1>1, <1>2 DEF LengthRead

(* The header of a success: what has come with it is counted and handed    *)
(* on, and there may be less of it than nothing.                           *)
LEMMA ParseOkFacts ==
    ASSUME PerformInv, ParseOk
    PROVE  /\ delivered' \in Seq(Nat) /\ total_file_bytes' \in Int
           /\ Len(delivered') = IF total_file_bytes' < 0 THEN 0 ELSE total_file_bytes'
           /\ response.form \in Announced =>
                 total_file_bytes' = with_header + Excess(file_len')
<1>. DEFINE announced == response.form \in Announced
            leftOut == Skip + Smaller(response.blanks, with_header)
            kept == IF response.zero \in 1 .. with_header
                    THEN response.zero ELSE with_header
<1>1. /\ response \in Response /\ response.length \in Nat
      /\ announced => LengthRead = {response.length}
      /\ total_bytes \in Nat /\ total_bytes = HeaderLen + with_header /\ with_header \in Nat
      /\ file_len' \in LengthRead
  BY ParseFacts DEF ParseOk
<1>2. PICK printed \in PrintedLen : /\ total_file_bytes' = total_bytes - printed
                                   /\ delivered' = FirstChunk(total_bytes - printed)
  BY DEF ParseOk
<1>3. /\ printed \in Nat
      /\ announced => total_bytes - printed = with_header + Excess(file_len')
  <2>1. CASE announced
    <3>1. file_len' = response.length
      BY <1>1, <2>1
    <3>2. printed = IF response.length = 0 THEN HeaderLen - LengthLen ELSE HeaderLen
      BY <1>2, <2>1 DEF PrintedLen
    <3>. QED  BY <1>1, <3>1, <3>2, SizeFacts DEF Excess
  <2>2. CASE ~announced
    BY <1>2, <2>2, SizeAssumption DEF PrintedLen
  <2>. QED  BY <2>1, <2>2
<1>. DEFINE file_byte == total_bytes - printed
            n == IF file_byte < 0 THEN 0 ELSE file_byte
<1>4. file_byte \in Int /\ n \in Nat /\ 1 .. file_byte = 1 .. n
  BY <1>1, <1>3
<1>5. leftOut \in Nat
  BY <1>1, SizeFacts DEF Smaller
<1>6. delivered' = [i \in 1 .. file_byte |->
                        IF announced /\ i + leftOut <= kept THEN i + leftOut ELSE 0]
  BY <1>2 DEF FirstChunk
<1>7. total_file_bytes' = file_byte
  BY <1>2
<1>. HIDE DEF file_byte, n, leftOut, kept, announced
<1>8. delivered' = [i \in 1 .. n |-> IF announced /\ i + leftOut <= kept THEN i + leftOut ELSE 0]
  BY <1>4, <1>6, Zenon
<1>9. delivered' \in [1 .. n -> Nat]
  BY <1>4, <1>5, <1>8
<1>10. delivered' \in Seq(Nat) /\ Len(delivered') = n
  BY <1>4, <1>9, CountedSeq
<1>. QED  BY <1>3, <1>4, <1>7, <1>10 DEF file_byte, n, announced

(* A recv of body bytes: they follow those counted before, and come last.  *)
LEMMA RecvBodyFacts ==
    ASSUME PerformInv, RecvBody
    PROVE  \E n \in Nat :
               /\ taken' = taken + n /\ taken' \in 0 .. HeaderLen + response.body
               /\ total_bytes' = total_bytes + n
               /\ total_file_bytes' = total_file_bytes + n
               /\ total_file_bytes \in Nat /\ file_len # 0
               /\ delivered' \in Seq(Nat) /\ Len(delivered') = total_file_bytes'
               /\ Len(delivered') >= taken' - (HeaderLen + with_header)
               /\ \A i \in with_header + 1 .. taken' - HeaderLen :
                     delivered'[Len(delivered') - (taken' - HeaderLen) + i] = i
<1>. DEFINE d == Len(delivered)
            m == taken - HeaderLen
<1>1. /\ pc = "body" /\ 0 <= total_file_bytes /\ total_file_bytes < file_len
      /\ total_file_bytes \in Int /\ file_len \in Nat
      /\ response \in Response /\ taken >= HeaderLen + with_header
      /\ taken \in 0 .. HeaderLen + response.body
      /\ delivered \in Seq(Nat) /\ d = IF total_file_bytes < 0 THEN 0 ELSE total_file_bytes
      /\ d >= taken - (HeaderLen + with_header)
      /\ \A i \in with_header + 1 .. m : delivered[d - m + i] = i
      /\ with_header \in Nat
  BY DEF RecvBody, BodyIncomplete, PerformInv, BodyInv, TypeOK, BytesHandedOn
<1>2. response.body \in Nat /\ taken \in Nat /\ m \in Nat /\ m = taken - HeaderLen
  BY <1>1, SizeFacts
<1>3. d \in Nat /\ d = total_file_bytes /\ d >= m - with_header
  BY <1>1, <1>2, SizeFacts
<1>4. Available = HeaderLen + response.body - taken
  BY <1>1, SizeFacts DEF Available
<1>5. PICK n \in 1 .. Smaller(Available, Buffer) :
          /\ taken' = taken + n /\ total_bytes' = total_bytes + n
          /\ total_file_bytes' = total_file_bytes + n
          /\ delivered' = delivered \o [i \in 1 .. n |-> taken - HeaderLen + i]
  BY DEF RecvBody, Received
<1>6. n \in Nat /\ taken + n \in 0 .. HeaderLen + response.body
  BY <1>1, <1>2, <1>4, SizeFacts DEF Smaller
<1>. DEFINE f == [i \in 1 .. n |-> taken - HeaderLen + i]
<1>7. f \in [1 .. n -> Nat] /\ \A i \in 1 .. n : f[i] = m + i
  BY <1>2, <1>6, SizeFacts
<1>. HIDE DEF f
<1>8. /\ delivered \o f \in Seq(Nat) /\ Len(delivered \o f) = d + n
      /\ \A i \in 1 .. d : (delivered \o f)[i] = delivered[i]
      /\ \A i \in d + 1 .. d + n : (delivered \o f)[i] = f[i - d]
  BY ONLY <1>1, <1>6, <1>7, Continue
<1>9. delivered' = delivered \o f
  BY <1>5 DEF f
<1>10. /\ delivered' \in Seq(Nat) /\ Len(delivered') = d + n
       /\ \A i \in 1 .. d : delivered'[i] = delivered[i]
       /\ \A i \in d + 1 .. d + n : delivered'[i] = f[i - d]
  BY <1>8, <1>9, Zenon
<1>11. taken' - HeaderLen = m + n
  BY <1>2, <1>5, <1>6, SizeFacts
<1>. HIDE DEF d, m
<1>12. ASSUME NEW i \in with_header + 1 .. m + n
       PROVE  delivered'[(d + n) - (m + n) + i] = i
  <2>1. (d + n) - (m + n) + i = d - m + i
    BY <1>1, <1>2, <1>3, <1>6
  <2>2. CASE i <= m
    <3>1. d - m + i \in 1 .. d /\ i \in with_header + 1 .. m
      BY <1>1, <1>2, <1>3, <1>6, <2>2
    <3>. QED  BY <1>1, <1>10, <2>1, <3>1
  <2>3. CASE ~ i <= m
    <3>1. i \in Int /\ i <= m + n /\ i > m
      BY <1>1, <1>2, <1>6, <2>3
    <3>2. /\ d - m + i \in d + 1 .. d + n
          /\ (d - m + i) - d = i - m /\ i - m \in 1 .. n /\ m + (i - m) = i
      BY <1>2, <1>3, <1>6, <3>1
    <3>3. delivered'[d - m + i] = f[i - m]
      BY <1>10, <3>2
    <3>. QED  BY <1>7, <2>1, <3>2, <3>3
  <2>. QED  BY <2>2, <2>3
<1>13. /\ Len(delivered') = total_file_bytes' /\ total_file_bytes \in Nat /\ file_len # 0
       /\ Len(delivered') >= taken' - (HeaderLen + with_header)
  <2>1. d + n >= (taken + n) - (HeaderLen + with_header)
    BY <1>1, <1>2, <1>3, <1>6, SizeFacts
  <2>. QED  BY <1>1, <1>3, <1>5, <1>10, <2>1
<1>14. \A i \in with_header + 1 .. taken' - HeaderLen :
           delivered'[Len(delivered') - (taken' - HeaderLen) + i] = i
  BY <1>10, <1>11, <1>12
<1>. QED
  BY <1>5, <1>6, <1>10, <1>13, <1>14

(* Every step of gfc_perform keeps its invariant.                          *)
LEMMA PerformStep == PerformInv /\ [Next]_vars => PerformInv'
<1>. SUFFICES ASSUME PerformInv, [Next]_vars PROVE PerformInv'
  OBVIOUS
<1>. USE DEF connection, fields, callbacks, Return
<1>1. TypeOK /\ HeaderInv /\ BodyInv /\ SocketInv /\ SuccessInv /\ ReturnContract /\ BytesHandedOn
  BY DEF PerformInv
<1>2. CASE Connect \/ ConnectFails \/ SendKills \/ HeaderOverrun \/ ParseCrashes
  <2>1. /\ pc \in {"connect", "send", "header", "parse"}
        /\ \/ pc = "connect" /\ pc' = "send" /\ sockfd' = "open"
           \/ pc' \in {"exited", "crashed"} /\ sockfd' = sockfd
        /\ UNCHANGED <<response, bytes_sent, taken, fields, callbacks,
                       received_filelen, with_header, returned>>
    BY <1>2 DEF Connect, ConnectFails, SendKills, HeaderOverrun, ParseCrashes
  <2>2. TypeOK'
    BY <1>1, <2>1 DEF TypeOK
  <2>3. HeaderInv' /\ BodyInv' /\ SocketInv' /\ SuccessInv'
    BY <1>1, <2>1 DEF HeaderInv, Fresh, BodyInv, SocketInv, SuccessInv
  <2>4. ReturnContract' /\ BytesHandedOn'
    BY <1>1, <2>1 DEF ReturnContract, BytesHandedOn
  <2>. QED  BY <2>2, <2>3, <2>4 DEF PerformInv
<1>3. CASE SendRequest
  <2>1. /\ pc = "send" /\ pc' \in {"send", "header"}
        /\ bytes_sent' \in bytes_sent + 1 .. RequestLen
        /\ UNCHANGED <<response, sockfd, taken, fields, callbacks,
                       received_filelen, with_header, returned>>
    BY <1>3 DEF SendRequest, SendUpTo
  <2>2. bytes_sent' \in 0 .. RequestLen
    BY <1>1, <2>1, SizeFacts DEF TypeOK
  <2>3. TypeOK'
    BY <1>1, <2>1, <2>2 DEF TypeOK
  <2>4. HeaderInv' /\ BodyInv' /\ SocketInv' /\ SuccessInv'
    BY <1>1, <2>1, SizeFacts DEF HeaderInv, Fresh, BodyInv, SocketInv, SuccessInv
  <2>5. ReturnContract' /\ BytesHandedOn'
    BY <1>1, <2>1 DEF ReturnContract, BytesHandedOn
  <2>. QED  BY <2>3, <2>4, <2>5 DEF PerformInv
<1>4. CASE SendFails \/ HeaderCut
  <2>1. /\ pc \in {"send", "header"} /\ pc' = "returned" /\ returned' = -1
        /\ ret_status' \in {"ERROR", "INVALID"}
        /\ UNCHANGED <<connection, total_bytes, total_file_bytes, file_len, callbacks,
                       received_filelen, with_header>>
    BY <1>4 DEF SendFails, HeaderCut
  <2>2. TypeOK'
    BY <1>1, <2>1 DEF TypeOK, Status
  <2>3. taken < HeaderLen /\ taken \in Nat
    <3>1. response \in Response \union {NoResponse} /\ response.body \in Nat
      BY <1>1, SizeFacts DEF TypeOK
    <3>. QED  BY <1>1, <2>1, <3>1, SizeFacts DEF HeaderInv, TypeOK
  <2>4. HeaderInv' /\ BodyInv' /\ SocketInv' /\ SuccessInv'
    BY <1>1, <2>1 DEF HeaderInv, Fresh, BodyInv, SocketInv, SuccessInv
  <2>5. ReturnContract'
    <3>1. response \in Response \union {NoResponse} /\ response.length \in Nat
      BY <1>1, SizeFacts DEF TypeOK
    <3>2. ~ taken >= HeaderLen /\ ~ taken >= HeaderLen + response.length
      BY <2>3, <3>1, SizeFacts
    <3>. QED  BY <2>1, <3>2 DEF ReturnContract
  <2>6. BytesHandedOn'
    BY <1>1, <2>1 DEF BytesHandedOn
  <2>. QED  BY <2>2, <2>4, <2>5, <2>6 DEF PerformInv
<1>5. ASSUME NEW r \in Response, Answer(r) PROVE PerformInv'
  <2>1. /\ pc \in {"send", "header"} /\ response = NoResponse /\ response' = r
        /\ UNCHANGED <<sockfd, bytes_sent, taken, fields, callbacks, pc,
                       received_filelen, with_header, returned>>
    BY <1>5 DEF Answer
  <2>2. taken' \in 0 .. HeaderLen + response'.body
    <3>1. NoResponse.body = 0 /\ r.body \in Nat
      BY SizeFacts DEF NoResponse
    <3>. QED  BY <1>1, <2>1, <3>1, SizeFacts DEF TypeOK
  <2>3. TypeOK'
    BY <1>1, <2>1, <2>2 DEF TypeOK
  <2>4. HeaderInv' /\ BodyInv' /\ SocketInv' /\ SuccessInv'
    BY <1>1, <2>1 DEF HeaderInv, Fresh, BodyInv, SocketInv, SuccessInv
  <2>5. ReturnContract'
    BY <2>1 DEF ReturnContract
  <2>6. BytesHandedOn'
    <3>1. total_file_bytes = 0 /\ file_len = 0
      BY <1>1, <2>1 DEF HeaderInv, Fresh
    <3>. QED  BY <1>1, <2>1, <3>1 DEF BytesHandedOn
  <2>. QED  BY <2>3, <2>4, <2>5, <2>6 DEF PerformInv
<1>6. CASE RecvHeader
  <2>1. PICK count \in Received(Buffer - 1) :
            taken' = taken + count /\ total_bytes' = total_bytes + count
    BY <1>6 DEF RecvHeader
  <2>2. /\ pc = "header"
        /\ with_header' = IF taken' < HeaderLen THEN 0 ELSE taken' - HeaderLen
        /\ pc' = IF taken' < HeaderLen THEN "header" ELSE "parse"
        /\ UNCHANGED <<response, sockfd, bytes_sent, total_file_bytes, file_len, ret_status,
                       callbacks, received_filelen, returned>>
    BY <1>6 DEF RecvHeader
  <2>3. /\ response \in Response \union {NoResponse} /\ response.body \in Nat
        /\ taken \in 0 .. HeaderLen + response.body /\ total_bytes = taken
    BY <1>1, SizeFacts DEF TypeOK, HeaderInv
  <2>4. /\ Available \in Nat /\ count \in 1 .. Available
        /\ response # NoResponse /\ taken + count <= HeaderLen + response.body
    <3>1. Available = IF response = NoResponse THEN 0 ELSE HeaderLen + response.body - taken
      BY DEF Available
    <3>2. Available \in Nat
      BY <2>3, <3>1, SizeFacts
    <3>3. count \in 1 .. Available
      BY <2>1, <3>2, SizeFacts DEF Received, Smaller
    <3>. QED  BY <2>3, <3>1, <3>2, <3>3, SizeFacts
  <2>5. /\ taken' \in 0 .. HeaderLen + response.body /\ total_bytes' = taken'
        /\ total_bytes' \in Nat /\ with_header' \in Nat
    BY <2>1, <2>2, <2>3, <2>4, SizeFacts
  <2>6. TypeOK'
    BY <1>1, <2>2, <2>5 DEF TypeOK
  <2>7. pc' = "parse" => taken' = HeaderLen + with_header'
    <3>. DEFINE all == taken'
                rest == with_header'
    <3>1. HeaderLen \in Int /\ response.body \in Int /\ all \in 0 .. HeaderLen + response.body
      BY <2>3, <2>5, SizeFacts
    <3>2. pc' = "parse" => rest = all - HeaderLen
      BY <2>2
    <3>. HIDE DEF all, rest
    <3>3. all \in Int
      BY <3>1
    <3>4. pc' = "parse" => all = HeaderLen + rest
      BY <3>1, <3>2, <3>3
    <3>. QED  BY <3>4 DEF all, rest
  <2>8. HeaderInv' /\ BodyInv' /\ SocketInv' /\ SuccessInv'
    BY <1>1, <2>2, <2>3, <2>4, <2>5, <2>7
    DEF HeaderInv, Fresh, BodyInv, SocketInv, SuccessInv
  <2>9. ReturnContract'
    BY <2>2 DEF ReturnContract
  <2>10. BytesHandedOn'
    <3>1. delivered' = << >> /\ total_file_bytes' = 0 /\ file_len' = 0 /\ Len(<< >>) = 0
      BY <1>1, <2>2, EmptySeq DEF HeaderInv, Fresh
    <3>2. with_header' + 1 .. taken' - HeaderLen = {}
      <4>. DEFINE all == taken'
                  rest == with_header'
      <4>1. all \in Int /\ rest = (IF all < HeaderLen THEN 0 ELSE all - HeaderLen)
        BY <2>2, <2>3, <2>5, SizeFacts
      <4>. HIDE DEF all, rest
      <4>2. rest + 1 .. all - HeaderLen = {}
        BY <4>1, SizeFacts
      <4>. QED  BY <4>2 DEF all, rest
    <3>. QED  BY <3>1, <3>2 DEF BytesHandedOn
  <2>. QED  BY <2>6, <2>8, <2>9, <2>10 DEF PerformInv
<1>7. CASE ParseInvalid
  <2>1. /\ pc = "parse" /\ pc' = "returned" /\ returned' = -1
        /\ ret_status' = "INVALID" /\ received_filelen' \in LengthRead
        /\ "INVALID" \in StatusRead
        /\ UNCHANGED <<connection, total_bytes, total_file_bytes, file_len, callbacks,
                       with_header>>
    BY <1>7 DEF ParseInvalid
  <2>2. /\ response \in Response /\ response.form \in Form /\ Fresh /\ sockfd = "open"
        /\ received_filelen' \in Nat
    BY <2>1, ParseFacts
  <2>3. TypeOK'
    BY <1>1, <2>1, <2>2 DEF TypeOK, Status
  <2>4. HeaderInv' /\ BodyInv' /\ SocketInv' /\ SuccessInv'
    BY <1>1, <2>1, <2>2 DEF HeaderInv, Fresh, BodyInv, SocketInv, SuccessInv
  <2>5. response.form \in {"INVALID", "garbage"}
    BY <2>1, <2>2 DEF StatusRead, Form
  <2>6. ReturnContract'
    BY <2>1, <2>5 DEF ReturnContract, Announced
  <2>7. BytesHandedOn'
    BY <1>1, <2>1 DEF BytesHandedOn
  <2>. QED  BY <2>3, <2>4, <2>6, <2>7 DEF PerformInv
<1>8. CASE ParseRefusal
  <2>1. /\ pc = "parse" /\ pc' = "returned" /\ returned' = 0 /\ sockfd' = "closed"
        /\ ret_status' \in StatusRead \ {"OK", "INVALID"}
        /\ received_filelen' \in LengthRead /\ file_len' = received_filelen'
        /\ headers' = headers + 1
        /\ UNCHANGED <<response, bytes_sent, taken, total_bytes, total_file_bytes,
                       delivered, with_header>>
    BY <1>8 DEF ParseRefusal
  <2>2. /\ response \in Response /\ response.form \in Form /\ Fresh
        /\ taken = HeaderLen + with_header /\ with_header \in Nat
        /\ received_filelen' \in Nat
    BY <2>1, ParseFacts
  <2>3. /\ response.form \in {"FILE_NOT_FOUND", "ERROR", "ERRORS", "garbage"}
        /\ ret_status' \in {"FILE_NOT_FOUND", "ERROR"}
        /\ response.form # "garbage" => StatusRead = {ret_status'}
    BY <2>1, <2>2 DEF StatusRead, Form, Status
  <2>4. taken >= HeaderLen
    BY <2>2, SizeFacts
  <2>5. TypeOK'
    BY <1>1, <2>1, <2>2, <2>3 DEF TypeOK, Status
  <2>6. HeaderInv' /\ BodyInv' /\ SocketInv' /\ SuccessInv'
    BY <1>1, <2>1, <2>3 DEF HeaderInv, Fresh, BodyInv, SocketInv, SuccessInv
  <2>7. ReturnContract'
    <3>1. StatusRead' = StatusRead
      BY <2>1 DEF StatusRead
    <3>. QED  BY <2>1, <2>3, <2>4, <3>1 DEF ReturnContract
  <2>8. BytesHandedOn'
    BY <1>1, <2>1, <2>3 DEF BytesHandedOn, Announced
  <2>. QED  BY <2>5, <2>6, <2>7, <2>8 DEF PerformInv
<1>9. CASE ParseOk
  <2>1. /\ pc = "parse" /\ pc' = "body" /\ ret_status' = "OK"
        /\ received_filelen' \in LengthRead /\ file_len' = received_filelen'
        /\ headers' = headers + 1
        /\ "OK" \in StatusRead
        /\ UNCHANGED <<connection, total_bytes, with_header, returned>>
    BY <1>9 DEF ParseOk
  <2>2. /\ response \in Response /\ response.form \in Form /\ Fresh
        /\ taken = HeaderLen + with_header /\ with_header \in Nat /\ taken \in Nat
        /\ received_filelen' \in Nat
        /\ response.form \in Announced => file_len' = response.length
    BY <2>1, ParseFacts
  <2>3. response.form \in Announced \union {"loose", "garbage"}
    BY <2>1, <2>2 DEF StatusRead, Form, Announced
  <2>4. /\ delivered' \in Seq(Nat) /\ total_file_bytes' \in Int
        /\ Len(delivered') = IF total_file_bytes' < 0 THEN 0 ELSE total_file_bytes'
        /\ response.form \in Announced => total_file_bytes' = with_header + Excess(file_len')
    BY <1>9, ParseOkFacts
  <2>5. TypeOK'
    BY <1>1, <2>1, <2>2, <2>4 DEF TypeOK, Status
  <2>6. HeaderInv' /\ SocketInv' /\ SuccessInv'
    BY <1>1, <2>1 DEF HeaderInv, SocketInv, SuccessInv
  <2>7. taken - HeaderLen = with_header /\ taken - (HeaderLen + with_header) = 0
    BY <2>2, SizeFacts
  <2>8. BodyInv'
    <3>1. Len(delivered') >= 0 /\ taken >= HeaderLen + with_header
      BY <2>2, <2>4, SizeFacts
    <3>2. Excess(file_len)' = Excess(file_len')
      BY DEF Excess
    <3>. QED  BY <2>1, <2>2, <2>3, <2>4, <2>7, <3>1, <3>2 DEF BodyInv, Fresh
  <2>9. ReturnContract'
    BY <2>1 DEF ReturnContract
  <2>10. BytesHandedOn'
    <3>1. with_header + 1 .. with_header = {}
      BY <2>2
    <3>2. file_len' # 0 => Excess(file_len') = 0
      BY DEF Excess
    <3>. QED  BY <2>1, <2>2, <2>4, <2>7, <3>1, <3>2 DEF BytesHandedOn
  <2>. QED  BY <2>5, <2>6, <2>8, <2>9, <2>10 DEF PerformInv
<1>10. CASE RecvBody
  <2>1. PICK n \in Nat :
            /\ taken' = taken + n /\ taken' \in 0 .. HeaderLen + response.body
            /\ total_bytes' = total_bytes + n
            /\ total_file_bytes' = total_file_bytes + n
            /\ total_file_bytes \in Nat /\ file_len # 0
            /\ delivered' \in Seq(Nat) /\ Len(delivered') = total_file_bytes'
            /\ Len(delivered') >= taken' - (HeaderLen + with_header)
            /\ \A i \in with_header + 1 .. taken' - HeaderLen :
                  delivered'[Len(delivered') - (taken' - HeaderLen) + i] = i
    BY <1>10, RecvBodyFacts
  <2>2. /\ pc = "body"
        /\ UNCHANGED <<response, sockfd, bytes_sent, file_len, ret_status, headers,
                       pc, received_filelen, with_header, returned>>
    BY <1>10 DEF RecvBody
  <2>3. /\ total_bytes' \in Nat /\ total_file_bytes' \in Nat /\ total_bytes' = taken'
        /\ taken' >= HeaderLen + with_header
        /\ response.form \in Announced => total_file_bytes' = taken' - HeaderLen
    <3>1. /\ response \in Response /\ total_bytes = taken /\ with_header \in Nat
          /\ taken >= HeaderLen + with_header /\ taken \in 0 .. HeaderLen + response.body
          /\ response.form \in Announced =>
                total_file_bytes = (taken - HeaderLen) + Excess(file_len)
      BY <1>1, <2>2 DEF BodyInv, HeaderInv, TypeOK
    <3>2. taken \in Nat /\ Excess(file_len) = 0
      BY <2>1, <3>1, SizeFacts DEF Excess
    <3>. QED  BY <2>1, <3>1, <3>2, SizeFacts
  <2>4. TypeOK'
    BY <1>1, <2>1, <2>2, <2>3 DEF TypeOK
  <2>5. HeaderInv' /\ SocketInv' /\ SuccessInv'
    BY <1>1, <2>2, <2>3 DEF HeaderInv, SocketInv, SuccessInv
  <2>6. BodyInv'
    <3>1. (taken' - HeaderLen) + 0 = taken' - HeaderLen
      BY <2>3, SizeFacts
    <3>2. Excess(file_len)' = 0
      BY <2>1, <2>2 DEF Excess
    <3>. QED  BY <1>1, <2>1, <2>2, <2>3, <3>1, <3>2 DEF BodyInv
  <2>7. ReturnContract'
    BY <2>2 DEF ReturnContract
  <2>8. BytesHandedOn'
    BY <2>1, <2>2, <2>3 DEF BytesHandedOn
  <2>. QED  BY <2>4, <2>5, <2>6, <2>7, <2>8 DEF PerformInv
<1>11. CASE BodyCut \/ Finish
  <2>1. /\ pc = "body" /\ pc' = "returned" /\ sockfd' = "closed"
        /\ \/ returned' = -1 /\ total_file_bytes < file_len
           \/ returned' = 0 /\ ~BodyIncomplete
        /\ UNCHANGED <<response, bytes_sent, taken, fields, callbacks,
                       received_filelen, with_header>>
    BY <1>11 DEF BodyCut, Finish, BodyIncomplete
  <2>2. /\ response \in Response
        /\ response.form \in Announced \union {"loose", "garbage"}
        /\ ret_status = "OK"
        /\ file_len = received_filelen /\ file_len \in Nat /\ total_file_bytes \in Int
        /\ taken >= HeaderLen + with_header /\ taken \in 0 .. HeaderLen + response.body
        /\ with_header \in Nat
        /\ response.form \in Announced =>
              /\ file_len = response.length
              /\ total_file_bytes = (taken - HeaderLen) + Excess(file_len)
        /\ Len(delivered) = IF total_file_bytes < 0 THEN 0 ELSE total_file_bytes
    BY <1>1, <2>1 DEF BodyInv, TypeOK, BytesHandedOn
  <2>3. response.body \in Nat /\ response.length \in Nat
    BY <2>2, SizeFacts
  <2>4. response.form \in Announced =>
            /\ returned' = 0 => taken - HeaderLen \in response.length .. response.body
            /\ returned' = -1 => ~ taken >= HeaderLen + response.length
    <3>1. Excess(file_len) \in Nat /\ file_len # 0 => Excess(file_len) = 0
      BY SizeFacts DEF Excess
    <3>2. CASE file_len = 0
      BY <2>1, <2>2, <2>3, <3>2, SizeFacts DEF Excess
    <3>3. CASE file_len # 0
      BY <2>1, <2>2, <2>3, <3>3, SizeFacts DEF BodyIncomplete, Excess
    <3>. QED  BY <3>2, <3>3
  <2>5. returned' = 0 /\ response.form \in Announced =>
            /\ received_filelen = response.length
            /\ Len(delivered) - Excess(received_filelen) \in received_filelen .. response.body
    <3>1. Excess(file_len) \in Nat
      BY SizeFacts DEF Excess
    <3>. QED  BY <2>2, <2>3, <2>4, <3>1, SizeFacts
  <2>6. TypeOK'
    BY <1>1, <2>1 DEF TypeOK
  <2>7. HeaderInv' /\ BodyInv' /\ SocketInv'
    BY <1>1, <2>1, <2>2 DEF HeaderInv, BodyInv, SocketInv
  <2>8. SuccessInv'
    <3>1. Excess(received_filelen)' = Excess(received_filelen)
      BY <2>1 DEF Excess
    <3>. QED  BY <2>1, <2>5, <3>1 DEF SuccessInv
  <2>9. ReturnContract'
    <3>1. returned' = 0 /\ response.form \in Announced =>
              taken >= HeaderLen + response.length
      BY <2>2, <2>3, <2>4, SizeFacts
    <3>. QED  BY <2>1, <2>2, <2>4, <3>1 DEF ReturnContract, Announced
  <2>10. BytesHandedOn'
    BY <1>1, <2>1 DEF BytesHandedOn
  <2>. QED  BY <2>6, <2>7, <2>8, <2>9, <2>10 DEF PerformInv
<1>12. CASE Done \/ UNCHANGED vars
  BY <1>1, <1>12 DEF Done, vars, PerformInv, TypeOK, HeaderInv, Fresh, BodyInv, SocketInv,
       SuccessInv, ReturnContract, BytesHandedOn, StatusRead
<1>. QED
  BY <1>2, <1>3, <1>4, <1>5, <1>6, <1>7, <1>8, <1>9, <1>10, <1>11, <1>12
  DEF Next, Progress, Failure, Crash

(* The invariant holds, of a single request.                               *)
LEMMA PerformInvariance == Spec => []PerformInv
BY InitPerform, PerformStep, PTL DEF Spec

(* gfc_perform returns 0 exactly after a transfer of all that was announced*)
(* or a refusal, for every set of responses, over-long bodies and statuses *)
(* that only begin like one included, cut off anywhere, and however recv   *)
(* cuts them up; the one exception are headers of another layout.          *)
THEOREM Contract == Spec => []ReturnContract
<1>1. PerformInv => ReturnContract
  BY DEF PerformInv
<1>. QED  BY <1>1, PerformInvariance, PTL

(* Of every response, of whatever layout, as many bytes are counted as are *)
(* handed on, and those that arrive after the header come last, once and   *)
(* in order; of a body that was announced, these are as many as arrived.   *)
THEOREM HandedOn == Spec => []BytesHandedOn
<1>1. PerformInv => BytesHandedOn
  BY DEF PerformInv
<1>. QED  BY <1>1, PerformInvariance, PTL

-----------------------------------------------------------------------------
(* The files and the counts of main.                                       *)

(* A request has a path of the workload, and a file of its own.            *)
LEMMA Names ==
    ASSUME gWorkloadPathArray \in Seq(Path), gWorkloadPathArray # << >>, NEW k \in Nat \ {0}
    PROVE  LocalPath(k) \in Path \X {k - 1}
<1>. DEFINE n == Len(gWorkloadPathArray)
            i == ((k - 1) % n) + 1
<1>1. n \in Nat \ {0} /\ gWorkloadPathArray \in [1 .. n -> Path]
  BY LenProperties, EmptySeq
<1>. HIDE DEF n
<1>2. (k - 1) % n \in 0 .. n - 1
  BY <1>1
<1>3. i \in 1 .. n
  BY <1>1, <1>2
<1>. HIDE DEF i
<1>4. gWorkloadPathArray[i] \in Path
  BY <1>1, <1>3
<1>. QED  BY <1>4 DEF LocalPath, WorkloadPath, i, n

(* Two requests have two local files, for their numbers differ.            *)
LEMMA Distinct ==
    ASSUME NEW j \in Int, NEW k \in Int, LocalPath(j) = LocalPath(k)
    PROVE  j = k
BY DEF LocalPath

(* The size of the file of a success.                                      *)
Whole(r, size) ==
    Succeeded(r) /\ r.response.form \in Announced =>
        /\ r.filelen = r.response.length
        /\ size - Excess(r.filelen) \in r.filelen .. r.response.body

LEMMA DiskInParts ==
    DiskHoldsTheSuccesses <=>
        /\ \A k \in 1 .. Len(results) :
               /\ LocalPath(k) \in DOMAIN disk <=> Succeeded(results[k])
               /\ Whole(results[k], disk[LocalPath(k)])
        /\ DOMAIN disk \ {LocalPath(k) : k \in 1 .. Len(results)}
               \subseteq (IF main = "perform" THEN {LocalPath(Current)} ELSE {})
        /\ pc \in {"exited", "crashed"} => disk[LocalPath(Current)] = 0 /\ delivered = << >>
BY DEF DiskHoldsTheSuccesses, Whole

(* The requests that leave a socket open.                                  *)
Leaks(rs) == {k \in 1 .. Len(rs) : rs[k].returned = -1 /\ rs[k].status # "OK"}

(* A request that is settled adds at most one socket to those.             *)
LEMMA LeaksCounted ==
    ASSUME NEW rs \in Seq(Outcome), NEW r \in Outcome
    PROVE  /\ Cardinality(Leaks(rs)) \in Nat
           /\ Cardinality(Leaks(Append(rs, r))) =
                  Cardinality(Leaks(rs)) +
                  (IF r.returned = -1 /\ r.status # "OK" THEN 1 ELSE 0)
<1>. DEFINE n == Len(rs)
            more == Append(rs, r)
<1>1. /\ n \in Nat /\ Len(more) = n + 1
      /\ \A i \in 1 .. n : more[i] = rs[i]
      /\ more[n + 1] = r
  BY AppendProperties, LenProperties
<1>2. Leaks(rs) = {k \in 1 .. n : rs[k].returned = -1 /\ rs[k].status # "OK"}
  BY DEF Leaks
<1>3. Leaks(more) = {k \in 1 .. n + 1 : more[k].returned = -1 /\ more[k].status # "OK"}
  BY <1>1, Zenon DEF Leaks
<1>. HIDE DEF n, more
<1>4. IsFiniteSet(Leaks(rs)) /\ n + 1 \notin Leaks(rs)
  <2>1. IsFiniteSet(1 .. n)
    BY <1>1, FS_Interval
  <2>2. Leaks(rs) \in SUBSET (1 .. n) /\ n + 1 \notin 1 .. n
    BY <1>1, <1>2
  <2>. QED  BY <2>1, <2>2, FS_Subset
<1>5. Leaks(more) = IF r.returned = -1 /\ r.status # "OK"
                    THEN Leaks(rs) \union {n + 1} ELSE Leaks(rs)
  BY <1>1, <1>2, <1>3
<1>6. Cardinality(Leaks(rs)) \in Nat
  BY <1>4, FS_CardinalityType
<1>7. Cardinality(Leaks(rs) \union {n + 1}) = Cardinality(Leaks(rs)) + 1
  BY <1>4, FS_AddElement
<1>8. Cardinality(Leaks(more)) =
          Cardinality(Leaks(rs)) + (IF r.returned = -1 /\ r.status # "OK" THEN 1 ELSE 0)
  BY <1>5, <1>6, <1>7
<1>. QED  BY <1>6, <1>8 DEF more

LEMMA SocketsCounted ==
    SocketsExplained <=> DownloadTypeOK /\ leaked = Cardinality(Leaks(results))
BY DEF SocketsExplained, Leaks

-----------------------------------------------------------------------------
(* The steps of the client.                                                *)
LEMMA InitClient == DownloadInit => IInv
<1>. SUFFICES ASSUME DownloadInit PROVE IInv
  OBVIOUS
<1>1. PerformInv /\ pc = "connect" /\ sockfd = "none"
  BY InitPerform DEF DownloadInit, Init
<1>2. /\ main = "load" /\ results = << >> /\ disk = << >> /\ leaked = 0
      /\ gWorkloadPathArray = << >>
  BY DEF DownloadInit
<1>3. /\ results \in Seq(Outcome) /\ Len(results) = 0
      /\ gWorkloadPathArray \in Seq(Path)
      /\ DOMAIN disk = {} /\ disk \in [DOMAIN disk -> Nat]
  BY <1>2, EmptySeq
<1>4. MainInv
  BY <1>1, <1>2, <1>3 DEF MainInv
<1>5. DiskHoldsTheSuccesses
  BY <1>1, <1>3 DEF DiskHoldsTheSuccesses
<1>6. DownloadTypeOK
  BY <1>1, <1>2, <1>3, WorkloadAssumption, DescriptorsAssumption
  DEF DownloadTypeOK, PerformInv
<1>7. Leaks(results) = {}
  BY <1>3 DEF Leaks
<1>8. SocketsExplained
  BY <1>2, <1>6, <1>7, FS_EmptySet, SocketsCounted
<1>. QED  BY <1>1, <1>4, <1>5, <1>8 DEF IInv

(* A step that leaves the workload, the results and the files alone.       *)
LEMMA QuietStep ==
    ASSUME IInv, PerformInv', UNCHANGED <<gWorkloadPathArray, results, disk, leaked>>,
           main' = main \/ /\ main # "perform" /\ UNCHANGED pc
                           /\ main' \in {"next", "done", "exited", "crashed"},
           pc' \in {"exited", "crashed"} => main' = "perform",
           main' = "perform" => (sockfd' = "open" => leaked + 1 < Descriptors)
    PROVE  IInv'
<1>1. MainInv /\ DiskHoldsTheSuccesses /\ DownloadTypeOK
  BY DEF IInv, SocketsExplained
<1>2. \A k \in Int : LocalPath(k)' = LocalPath(k)
  BY DEF LocalPath, WorkloadPath
<1>3. Current' = Current /\ LocalPath(Current)' = LocalPath(Current)
  BY DEF Current, LocalPath, WorkloadPath
<1>4. main' = "perform" => main = "perform"
  OBVIOUS
<1>5. main' = "load" => main = "load"
  OBVIOUS
<1>6. MainInv'
  BY <1>1, <1>3, <1>4, <1>5 DEF MainInv
<1>7. DiskHoldsTheSuccesses'
  <2>1. \A k \in 1 .. Len(results) :
            /\ LocalPath(k)' \in DOMAIN disk <=> Succeeded(results[k])
            /\ Whole(results[k], disk[LocalPath(k)'])
    BY <1>1, <1>2, DiskInParts
  <2>2. DOMAIN disk \ {LocalPath(k)' : k \in 1 .. Len(results)}
            \subseteq (IF main' = "perform" THEN {LocalPath(Current)'} ELSE {})
    BY <1>1, <1>2, <1>3, <1>4 DEF DiskHoldsTheSuccesses
  <2>3. pc' \in {"exited", "crashed"} => disk[LocalPath(Current)'] = 0 /\ delivered' = << >>
    BY <1>1, <1>3, <1>4 DEF MainInv, PerformInv, HeaderInv
  <2>. QED  BY <2>1, <2>2, <2>3 DEF DiskHoldsTheSuccesses, Whole
<1>8. SocketsExplained'
  BY <1>1 DEF IInv, SocketsExplained, DownloadTypeOK, PerformInv
<1>. QED  BY <1>6, <1>7, <1>8 DEF IInv

LEMMA LoadStep == IInv /\ LoadWorkload => IInv'
<1>. SUFFICES ASSUME IInv, LoadWorkload PROVE IInv'
  OBVIOUS
<1>1. MainInv /\ DiskHoldsTheSuccesses /\ SocketsExplained /\ PerformInv
  BY DEF IInv
<1>2. /\ main = "load" /\ main' = "next" /\ gWorkloadPathArray' \in Workload
      /\ UNCHANGED <<vars, results, disk, leaked>>
  BY DEF LoadWorkload
<1>3. results = << >> /\ Len(results) = 0 /\ DOMAIN disk = {} /\ pc \notin {"exited", "crashed"}
  BY <1>1, <1>2, EmptySeq DEF MainInv
<1>4. PerformInv' /\ pc' \notin {"exited", "crashed"}
  BY <1>1, <1>2, <1>3, PerformStep DEF vars
<1>5. MainInv'
  BY <1>1, <1>2, <1>3, <1>4 DEF MainInv
<1>6. DiskHoldsTheSuccesses'
  BY <1>2, <1>3, <1>4 DEF DiskHoldsTheSuccesses
<1>7. SocketsExplained'
  BY <1>1, <1>2, <1>4, WorkloadAssumption
  DEF SocketsExplained, DownloadTypeOK, PerformInv
<1>. QED  BY <1>4, <1>5, <1>6, <1>7 DEF IInv

LEMMA RequestStep == IInv /\ MakeRequest => IInv'
<1>. SUFFICES ASSUME IInv, MakeRequest PROVE IInv'
  OBVIOUS
<1>. DEFINE n == Len(results)
            file == LocalPath(Current)
<1>1. MainInv /\ DiskHoldsTheSuccesses /\ SocketsExplained
  BY DEF IInv
<1>2. /\ main = "next" /\ main' = "perform" /\ n < nrequests /\ gWorkloadPathArray # << >>
      /\ disk' = [f \in DOMAIN disk \union {file} |-> IF f = file THEN 0 ELSE disk[f]]
      /\ UNCHANGED <<gWorkloadPathArray, results, leaked>>
  BY DEF MakeRequest
<1>3. PerformInv' /\ pc' = "connect" /\ sockfd' = "none"
  <2>1. Init'
    BY DEF MakeRequest, Init
  <2>2. Init' => PerformInv'
    BY InitPerform, PTL
  <2>. QED  BY <2>1, <2>2 DEF Init
<1>4. n \in Nat /\ nrequests \in Nat /\ Current = n + 1
  BY <1>1, LenProperties, WorkloadAssumption DEF MainInv, Current
<1>5. /\ \A k \in Int : LocalPath(k)' = LocalPath(k)
      /\ LocalPath(Current)' = file
  BY <1>2 DEF LocalPath, WorkloadPath, Current
<1>6. \A k \in 1 .. n : LocalPath(k) # file
  BY <1>4, Distinct
<1>7. file \in Path \X (0 .. nrequests - 1)
  <2>1. gWorkloadPathArray \in Seq(Path)
    BY <1>1 DEF SocketsExplained, DownloadTypeOK
  <2>2. file \in Path \X {n + 1 - 1}
    BY <1>2, <1>4, <2>1, Names
  <2>3. n + 1 - 1 \in 0 .. nrequests - 1
    BY <1>2, <1>4
  <2>. QED  BY <2>2, <2>3
<1>8. /\ DOMAIN disk' = DOMAIN disk \union {file} /\ disk'[file] = 0
      /\ \A f \in DOMAIN disk : f # file => disk'[f] = disk[f]
  BY <1>2
<1>9. disk' \in [DOMAIN disk' -> Nat]
  BY <1>1, <1>2 DEF MainInv
<1>. HIDE DEF n, file
<1>10. MainInv'
  BY <1>1, <1>2, <1>3, <1>5, <1>8, <1>9 DEF MainInv, n
<1>11. DiskHoldsTheSuccesses'
  <2>1. ASSUME NEW k \in 1 .. n
        PROVE  /\ LocalPath(k)' \in DOMAIN disk' <=> Succeeded(results[k])
               /\ Whole(results[k], disk'[LocalPath(k)'])
    <3>1. LocalPath(k)' = LocalPath(k) /\ LocalPath(k) # file
      BY <1>4, <1>5, <1>6
    <3>2. /\ LocalPath(k) \in DOMAIN disk <=> Succeeded(results[k])
          /\ Whole(results[k], disk[LocalPath(k)])
      BY <1>1, DiskInParts DEF n
    <3>3. LocalPath(k) \in DOMAIN disk => disk'[LocalPath(k)] = disk[LocalPath(k)]
      BY <1>8, <3>1
    <3>. QED  BY <1>8, <3>1, <3>2, <3>3 DEF Whole
  <2>2. DOMAIN disk' \ {LocalPath(k)' : k \in 1 .. n} \subseteq {file}
    <3>1. DOMAIN disk \ {LocalPath(k) : k \in 1 .. n} \subseteq {}
      BY <1>1, <1>2 DEF DiskHoldsTheSuccesses, n
    <3>. QED  BY <1>4, <1>5, <1>8, <3>1
  <2>. QED  BY <1>2, <1>3, <1>5, <2>1, <2>2 DEF DiskHoldsTheSuccesses, Whole, n
<1>12. SocketsExplained'
  BY <1>1, <1>2, <1>3, <1>7, <1>8 DEF SocketsExplained, DownloadTypeOK, PerformInv
<1>. QED  BY <1>3, <1>10, <1>11, <1>12 DEF IInv

LEMMA SettleStep == IInv /\ Settle => IInv'
<1>. SUFFICES ASSUME IInv, Settle PROVE IInv'
  OBVIOUS
<1>. DEFINE n == Len(results)
            file == LocalPath(Current)
            fails == returned < 0 \/ ret_status # "OK"
            size == Len(delivered)
<1>1. MainInv /\ DiskHoldsTheSuccesses /\ SocketsExplained /\ PerformInv
  BY DEF IInv
<1>2. /\ main = "perform" /\ main' = "next" /\ pc = "returned"
      /\ disk' = IF fails THEN Restrict(disk, DOMAIN disk \ {file})
                          ELSE [disk EXCEPT ![file] = size]
      /\ leaked' = leaked + (IF sockfd = "open" THEN 1 ELSE 0)
      /\ results' = Append(results, Result)
      /\ UNCHANGED <<vars, gWorkloadPathArray>>
  BY DEF Settle
<1>3. PerformInv' /\ pc' = "returned"
  BY <1>1, <1>2, PerformStep DEF vars
<1>4. /\ n \in Nat /\ nrequests \in Nat /\ Current = n + 1 /\ n < nrequests
      /\ file \in DOMAIN disk
  BY <1>1, <1>2, LenProperties, WorkloadAssumption DEF MainInv, Current
<1>5. /\ Result \in Outcome /\ Result.returned \in {0, -1}
      /\ Succeeded(Result) <=> ~fails
      /\ Result.returned = returned /\ Result.status = ret_status
      /\ Result.filelen = received_filelen
  BY <1>1 DEF PerformInv, TypeOK, Result, Outcome, Succeeded
<1>6. /\ results' \in Seq(Outcome) /\ Len(results') = n + 1 /\ results' # << >>
      /\ \A k \in 1 .. n : results'[k] = results[k]
      /\ results'[n + 1] = Result
  <2>1. results \in Seq(Outcome)
    BY <1>1 DEF MainInv
  <2>. QED  BY <1>2, <1>5, <2>1, AppendProperties
<1>7. \A k \in Int : LocalPath(k)' = LocalPath(k)
  BY <1>2 DEF LocalPath, WorkloadPath
<1>8. \A k \in 1 .. n : LocalPath(k) # file
  BY <1>4, Distinct
<1>9. size \in Nat /\ Whole(Result, size)
  <2>1. delivered \in Seq(Nat) /\ returned \in {0, -1}
    BY <1>1 DEF PerformInv, TypeOK
  <2>2. Succeeded(Result) => Result.response = response
    BY DEF Result, Succeeded
  <2>3. Whole(Result, size)
    BY <1>1, <1>2, <1>5, <2>1, <2>2 DEF PerformInv, SuccessInv, Whole, Succeeded
  <2>. QED  BY <2>1, <2>3, LenProperties
<1>. HIDE DEF n, file, fails, size
<1>10. /\ DOMAIN disk' = IF fails THEN DOMAIN disk \ {file} ELSE DOMAIN disk
       /\ ~fails => disk'[file] = size
       /\ \A f \in DOMAIN disk : f # file => disk'[f] = disk[f]
       /\ disk' \in [DOMAIN disk' -> Nat]
  <2>1. disk \in [DOMAIN disk -> Nat]
    BY <1>1 DEF MainInv
  <2>2. CASE fails
    BY <1>2, <2>1, <2>2 DEF Restrict
  <2>3. CASE ~fails
    BY <1>2, <1>4, <1>9, <2>1, <2>3
  <2>. QED  BY <2>2, <2>3
<1>11. MainInv'
  BY <1>1, <1>2, <1>3, <1>6, <1>10 DEF MainInv
<1>12. DiskHoldsTheSuccesses'
  <2>1. ASSUME NEW k \in 1 .. n + 1
        PROVE  /\ LocalPath(k)' \in DOMAIN disk' <=> Succeeded(results'[k])
               /\ Whole(results'[k], disk'[LocalPath(k)'])
    <3>1. LocalPath(k)' = LocalPath(k)
      BY <1>4, <1>7
    <3>2. CASE k \in 1 .. n
      <4>1. LocalPath(k) # file /\ results'[k] = results[k]
        BY <1>6, <1>8, <3>2
      <4>2. /\ LocalPath(k) \in DOMAIN disk <=> Succeeded(results[k])
            /\ Whole(results[k], disk[LocalPath(k)])
        BY <1>1, <3>2, DiskInParts DEF n
      <4>3. LocalPath(k) \in DOMAIN disk => disk'[LocalPath(k)] = disk[LocalPath(k)]
        BY <1>10, <4>1
      <4>. QED  BY <1>10, <3>1, <4>1, <4>2, <4>3 DEF Whole
    <3>3. CASE k = n + 1
      <4>1. LocalPath(k)' = file /\ results'[k] = Result
        BY <1>4, <1>6, <3>1, <3>3 DEF file
      <4>. QED  BY <1>4, <1>5, <1>9, <1>10, <4>1 DEF Whole
    <3>. QED  BY <1>4, <3>2, <3>3
  <2>2. DOMAIN disk' \ {LocalPath(k)' : k \in 1 .. n + 1} \subseteq {}
    <3>1. DOMAIN disk \ {LocalPath(k) : k \in 1 .. n} \subseteq {file}
      BY <1>1, <1>2 DEF DiskHoldsTheSuccesses, n, file
    <3>2. file = LocalPath(n + 1) /\ n + 1 \in 1 .. n + 1
      BY <1>4 DEF file
    <3>3. DOMAIN disk' \subseteq DOMAIN disk
      BY <1>10
    <3>. QED  BY <1>4, <1>7, <3>1, <3>2, <3>3
  <2>3. \A k \in 1 .. Len(results') :
            /\ LocalPath(k)' \in DOMAIN disk' <=> Succeeded(results'[k])
            /\ Whole(results'[k], disk'[LocalPath(k)'])
    BY <1>6, <2>1, Zenon
  <2>4. DOMAIN disk' \ {LocalPath(k)' : k \in 1 .. Len(results')} \subseteq {}
    BY <1>6, <2>2, Zenon
  <2>. QED  BY <1>2, <1>3, <2>3, <2>4 DEF DiskHoldsTheSuccesses, Whole
<1>13. SocketsExplained'
  <2>1. sockfd = "open" <=> returned = -1 /\ ret_status # "OK"
    BY <1>1, <1>2 DEF PerformInv, SocketInv
  <2>2. /\ leaked \in 0 .. Descriptors - 1 /\ leaked = Cardinality(Leaks(results))
        /\ gWorkloadPathArray \in Seq(Path)
        /\ DOMAIN disk \subseteq Path \X (0 .. nrequests - 1)
        /\ sockfd = "open" => leaked + 1 < Descriptors
    BY <1>1, <1>2, SocketsCounted DEF DownloadTypeOK, MainInv
  <2>3. leaked' = Cardinality(Leaks(results'))
    BY <1>1, <1>2, <1>5, <2>1, <2>2, LeaksCounted DEF MainInv
  <2>4. leaked' \in 0 .. Descriptors - 1
    BY <1>2, <2>2, DescriptorsAssumption
  <2>5. DOMAIN disk' \subseteq Path \X (0 .. nrequests - 1)
    BY <1>10, <2>2
  <2>6. Len(results') <= nrequests
    BY <1>4, <1>6
  <2>7. DownloadTypeOK'
    BY <1>2, <1>3, <2>2, <2>4, <2>5, <2>6 DEF DownloadTypeOK, PerformInv
  <2>8. SocketsExplained' <=>
            DownloadTypeOK' /\ leaked' = Cardinality(Leaks(results'))
    BY DEF SocketsExplained, Leaks
  <2>. QED  BY <2>3, <2>7, <2>8
<1>. QED  BY <1>3, <1>11, <1>12, <1>13 DEF IInv

(* A step of gfc_perform opens the socket only by connecting.              *)
LEMMA SocketStep ==
    ASSUME Next, pc # "connect", sockfd' = "open"
    PROVE  sockfd = "open"
<1>. USE DEF connection, vars
<1>1. CASE SendRequest \/ RecvHeader \/ ParseInvalid \/ ParseOk \/ RecvBody
  BY <1>1 DEF SendRequest, SendUpTo, RecvHeader, ParseInvalid, ParseOk, RecvBody
<1>2. CASE ParseRefusal \/ Finish \/ BodyCut
  BY <1>2 DEF ParseRefusal, Finish, BodyCut
<1>3. CASE SendFails \/ HeaderCut \/ Done \/ \E r \in Response : Answer(r)
  BY <1>3 DEF SendFails, HeaderCut, Done, Answer
<1>4. CASE SendKills \/ Crash
  BY <1>4 DEF SendKills, Crash, HeaderOverrun, ParseCrashes
<1>. QED
  BY <1>1, <1>2, <1>3, <1>4 DEF Next, Progress, Failure, Connect, ConnectFails

(* A step of gfc_perform within the client.                                *)
LEMMA WithinPerform ==
    ASSUME IInv, main = "perform", Next, UNCHANGED downloadVars,
           pc = "connect" => HasDescriptor \/ sockfd' = sockfd
    PROVE  IInv'
<1>1. PerformInv /\ MainInv
  BY DEF IInv
<1>2. PerformInv'
  BY <1>1, PerformStep
<1>3. sockfd' = "open" => leaked + 1 < Descriptors
  <2>1. CASE pc = "connect"
    BY <1>1, <2>1 DEF HasDescriptor, PerformInv, SocketInv
  <2>2. CASE pc # "connect"
    BY <1>1, <2>2, SocketStep DEF MainInv
  <2>. QED  BY <2>1, <2>2
<1>. QED  BY <1>2, <1>3, QuietStep DEF downloadVars

(* Every step of the client keeps its invariant.                           *)
LEMMA DownloadStep == IInv /\ [DownloadNext]_allVars => IInv'
<1>. SUFFICES ASSUME IInv, [DownloadNext]_allVars PROVE IInv'
  OBVIOUS
<1>1. PerformInv /\ MainInv
  BY DEF IInv
<1>2. CASE LoadFails \/ DivideByZero \/ MakeRequestFails \/ AllMade
  <2>1. /\ main \in {"load", "next"} /\ main' \in {"done", "exited", "crashed"}
        /\ UNCHANGED <<vars, gWorkloadPathArray, results, disk, leaked>>
    BY <1>2 DEF LoadFails, DivideByZero, MakeRequestFails, AllMade
  <2>2. PerformInv' /\ pc' = pc /\ pc \notin {"exited", "crashed"}
    BY <1>1, <2>1, PerformStep DEF vars, MainInv
  <2>. QED  BY <2>1, <2>2, QuietStep
<1>3. CASE PerformProgress
  <2>1. Next
    BY <1>3 DEF PerformProgress, Next
  <2>. QED  BY <1>3, <2>1, WithinPerform DEF PerformProgress
<1>4. CASE PerformFailure
  <2>1. Next
    BY <1>4 DEF PerformFailure, Next
  <2>2. pc = "connect" => sockfd' = sockfd
    BY <1>4 DEF PerformFailure, Failure, ConnectFails, SendFails, SendKills, HeaderCut,
               BodyCut, connection
  <2>. QED  BY <1>4, <2>1, <2>2, WithinPerform DEF PerformFailure
<1>7. CASE PerformCrash
  <2>1. Next
    BY <1>7 DEF PerformCrash, Next
  <2>2. pc # "connect"
    BY <1>7 DEF PerformCrash, Crash, HeaderOverrun, ParseCrashes
  <2>. QED  BY <1>7, <2>1, <2>2, WithinPerform DEF PerformCrash
<1>5. CASE ServerAnswers
  <2>1. Next
    BY <1>5 DEF ServerAnswers, Next
  <2>2. pc # "connect"
    BY <1>5 DEF ServerAnswers, Answer
  <2>. QED  BY <1>5, <2>1, <2>2, WithinPerform DEF ServerAnswers
<1>6. CASE Stop \/ UNCHANGED allVars
  <2>1. UNCHANGED vars /\ UNCHANGED downloadVars
    BY <1>6 DEF Stop, allVars
  <2>2. PerformInv' /\ pc' = pc /\ sockfd' = sockfd
    BY <1>1, <2>1, PerformStep DEF vars, connection
  <2>. QED  BY <1>1, <2>1, <2>2, QuietStep DEF downloadVars, MainInv
<1>. QED
  BY <1>2, <1>3, <1>4, <1>5, <1>6, <1>7, LoadStep, RequestStep, SettleStep
  DEF DownloadNext, MainStep

LEMMA DownloadInvariance == DownloadSpec => []IInv
BY InitClient, DownloadStep, PTL DEF DownloadSpec

(* Both contracts of gfc_perform hold of every request the client makes,   *)
(* one after the other.                                                    *)
THEOREM EveryRequest == DownloadSpec => []ReturnContract /\ []BytesHandedOn
<1>1. IInv => ReturnContract /\ BytesHandedOn
  BY DEF IInv, PerformInv
<1>. QED  BY <1>1, DownloadInvariance, PTL

(* The local files are those of the requests that succeeded and that of the*)
(* request at hand; so no transfer that was cut leaves a file behind, and  *)
(* what was announced in the standard layout is there in full, whatever    *)
(* workload is repeated however often.                                     *)
THEOREM LocalFiles == DownloadSpec => []DiskHoldsTheSuccesses
<1>1. IInv => DiskHoldsTheSuccesses
  BY DEF IInv
<1>. QED  BY <1>1, DownloadInvariance, PTL

(* Each socket left open is that of a request that failed before the       *)
(* header of a success, one for one, and main stays within its descriptors.*)
THEOREM Sockets == DownloadSpec => []SocketsExplained
<1>1. IInv => SocketsExplained
  BY DEF IInv
<1>. QED  BY <1>1, DownloadInvariance, PTL

-----------------------------------------------------------------------------
(* The client against the sequential server: the invariant of Session.     *)

(* The server has received at most the requests of the connections it has  *)
(* accepted, which the client has made; from accept to the answer it deals *)
(* with the path of that connection; and but for failing calls it refuses, *)
(* cuts a path, closes a connection or is lost only above the limit.       *)
ServerInv ==
    /\ connections \in Nat /\ received \in Nat /\ total_received \in Nat
    /\ request \in ServerRequest /\ received <= RequestLen /\ received <= total_received
    /\ IF connections = 0 THEN total_received = 0 /\ received = 0
       ELSE total_received <= (connections - 1) * RequestLen + received
    /\ connections <= Made
    /\ spc \in {"receive", "parse", "handle", "handling"} =>
           connections > 0 /\ request.path = WorkloadPath(connections)
    /\ spc = "parse" => received = RequestLen \/ total_received >= HeaderMax
    /\ spc = "handle" => \/ path = request.path
                         \/ path = "truncated" /\ total_received >= HeaderMax
    /\ ~faulty => /\ ctx = "NULL" \/ closed \/ spc = "crashed" => total_received >= HeaderMax
                  /\ spc # "exited"

(* The answer to the request at hand is one to its path; or one to any     *)
(* path, when the limit has been reached or the path was overwritten; or a *)
(* refusal, when the limit has been reached.                               *)
Strayed(k) == Late(k) \/ k \in overwritten

AnswerInv ==
    main = "perform" /\ response # NoResponse =>
        \/ response \in Replies(WorkloadPath(Current))
        \/ Strayed(Current) /\ response \in Replies("garbage")
        \/ Late(Current) /\ response = Reply("INVALID", 0, 0)

(* What gfc_perform has come to.                                           *)
PendingInv ==
    main = "perform" /\ pc = "returned" =>
        /\ returned = 0 => received_filelen = response.length
        /\ returned = -1 => faulty \/ Late(Current)

SessionInv == IInv /\ ServerInv /\ AnswerInv /\ PendingInv /\ ResultExplained

-----------------------------------------------------------------------------
(* The composition is a case of either component's specification.          *)

(* What the server sends is a response the client reckons with: the file   *)
(* of a path, or that there is none.                                       *)
LEMMA RepliesFacts ==
    ASSUME NEW p, NEW r \in Replies(p)
    PROVE  /\ r \in Response
           /\ \/ /\ r = Reply("FILE_NOT_FOUND", 0, 0)
                 /\ p \notin DOMAIN FileLength
              \/ \E q \in DOMAIN FileLength :
                    /\ p \in Path => q = p
                    /\ \E n \in Nat : r = Reply("OK", FileLength[q], n)
<1>1. CASE r = Reply("FILE_NOT_FOUND", 0, 0) /\ p \notin DOMAIN FileLength
  BY <1>1, ReplyAssumption
<1>2. CASE \E q \in DOMAIN FileLength : (q = p \/ p \notin Path) /\ r \in FileReplies(q)
  <2>1. PICK q \in DOMAIN FileLength : (q = p \/ p \notin Path) /\ r \in FileReplies(q)
    BY <1>2
  <2>2. FileLength[q] \in Nat
        /\ \A n \in 0 .. FileLength[q] : Reply("OK", FileLength[q], n) \in Response
    BY ReplyAssumption
  <2>3. PICK n \in 0 .. FileLength[q] : r = Reply("OK", FileLength[q], n)
    BY <2>1, <2>2 DEF FileReplies
  <2>. QED  BY <2>1, <2>2, <2>3
<1>. QED  BY <1>1, <1>2 DEF Replies

(* Two paths that are no longer what was asked for are answered alike.     *)
LEMMA RepliesToStrays == Replies("truncated") = Replies("garbage")
<1>1. /\ "truncated" \notin Path /\ "garbage" \notin Path
      /\ DOMAIN FileLength \subseteq Path
  BY ServerAssumption
<1>. QED  BY <1>1 DEF Replies

(* To the client an answer of this server is one of an arbitrary server.   *)
LEMMA SendAnswers ==
    ASSUME NEW r \in Response, Send(r)
    PROVE  [DownloadNext]_allVars
BY DEF Send, Waiting, DownloadNext, ServerAnswers

(* Every step is one of the client and its server, or nothing to them.     *)
LEMMA ClientSteps == SessionNext => [DownloadNext]_allVars
<1>. SUFFICES ASSUME SessionNext PROVE [DownloadNext]_allVars
  OBVIOUS
<1>1. CASE ServerStep \/ ServerFault
  <2>1. CASE ServerRefuse
    BY <2>1, ReplyAssumption, SendAnswers DEF ServerRefuse
  <2>2. CASE ServerHandle
    <3>1. CASE SendNothing
      BY <3>1 DEF SendNothing
    <3>2. CASE \E r \in Replies(outcome'.path) : Send(r)
      BY <3>2, RepliesFacts, SendAnswers
    <3>. QED  BY <2>2, <3>1, <3>2 DEF ServerHandle
  <2>. QED  BY <1>1, <2>1, <2>2 DEF ServerStep, ServerFault, ServerAccept, ServerReceive,
                                    ServerHandled
<1>2. CASE ClientMain \/ ClientFault
  BY <1>2 DEF ClientMain, ClientFault, DownloadNext
<1>3. CASE ClientProgress
  <2>1. PerformProgress
    BY <1>3 DEF ClientProgress
  <2>. QED  BY <2>1 DEF DownloadNext
<1>4. CASE ClientEnds
  BY <1>4 DEF ClientEnds, DownloadNext
<1>5. CASE ClientCrash
  BY <1>5 DEF ClientCrash, DownloadNext
<1>. QED  BY <1>1, <1>2, <1>3, <1>4, <1>5 DEF SessionNext

(* Every step is one of the server and its clients, or nothing to them.    *)
LEMMA ServerSteps == SessionNext => [S!Next]_serverVars
<1>. SUFFICES ASSUME SessionNext PROVE [S!Next]_serverVars
  OBVIOUS
<1>1. CASE ServerStep
  <2>1. \/ S!Listen \/ S!ParseValid \/ S!ParseCrashes \/ S!Accept \/ S!AcceptCrashes
        \/ S!Receive \/ S!ParseInvalid \/ S!CallHandler \/ S!HandlerReturns
    BY <1>1 DEF ServerStep, ServerAccept, ServerReceive, ServerRefuse, ServerHandle,
                ServerHandled
  <2>. QED  BY <2>1 DEF S!Next, S!Step
<1>2. CASE ServerFault
  BY <1>2 DEF ServerFault, S!Next
<1>3. CASE ClientMain \/ ClientProgress \/ ClientEnds \/ ClientFault \/ ClientCrash
  BY <1>3 DEF ClientMain, ClientProgress, ClientEnds, ClientFault, ClientCrash
<1>. QED  BY <1>1, <1>2, <1>3 DEF SessionNext

(* What is proved of the client for any server, and what is proved of the  *)
(* server for any clients, holds of the two together.                      *)
THEOREM Composition == SessionSpec => ComponentSpecs
<1>1. SessionInit => DownloadInit /\ S!Init
  BY DEF SessionInit
<1>2. [SessionNext]_sessionVars => [DownloadNext]_allVars /\ [S!Next]_serverVars
  BY ClientSteps, ServerSteps DEF sessionVars
<1>3. [S!Next]_serverVars => [S!Next]_(S!vars)
  BY DEF serverVars, S!vars
<1>. QED  BY <1>1, <1>2, <1>3, PTL DEF SessionSpec, ComponentSpecs, DownloadSpec, S!Spec
-----------------------------------------------------------------------------
(* The server's steps.                                                     *)

(* The constants, and the requests this client makes.                      *)
LEMMA LengthFacts ==
    /\ RequestLen \in Nat /\ HeaderMax \in Nat /\ PrefixLen \in Nat /\ MarkerLen \in Nat
    /\ PrefixLen + MarkerLen < RequestLen /\ nrequests \in Nat
    /\ \A p \in DOMAIN FileLength : p \in Path
    /\ "none" \notin Path /\ "truncated" \notin Path /\ "garbage" \notin Path
BY ServerAssumption, SizeAssumption, WorkloadAssumption

LEMMA RequestFacts ==
    ASSUME NEW r \in ServerRequest
    PROVE  r.form = "valid" /\ r.path \in Path /\ r.size = RequestLen /\ r.sent = RequestLen
BY DEF ServerRequest

(* The sum of the first j requests is no more than that of the first k.    *)
LEMMA Times ==
    ASSUME NEW R \in Nat, NEW j \in Nat, NEW k \in Nat, j <= k
    PROVE  /\ j * R \in Nat /\ k * R \in Nat /\ j * R <= k * R
           /\ (k - 1) * R + R = k * R
<1>1. (k - 1) * R + R = k * R
  OBVIOUS
<1>2. k * R = j * R + (k - j) * R
  OBVIOUS
<1>3. (k - j) * R \in Nat /\ j * R \in Nat /\ k * R \in Nat
  OBVIOUS
<1>. QED  BY <1>1, <1>2, <1>3

(* What has been received are requests of connections made so far.         *)
LEMMA ReceivedSoFar ==
    ASSUME ServerInv, NEW k \in Nat, connections <= k
    PROVE  total_received <= k * RequestLen
<1>1. connections \in Nat /\ total_received \in Nat /\ received \in Nat
      /\ received <= RequestLen /\ RequestLen \in Nat
  BY LengthFacts DEF ServerInv
<1>2. connections * RequestLen <= k * RequestLen /\ k * RequestLen \in Nat
      /\ (connections - 1) * RequestLen + RequestLen = connections * RequestLen
      /\ connections * RequestLen \in Nat
  BY <1>1, Times
<1>3. CASE connections = 0
  BY <1>2, <1>3 DEF ServerInv
<1>4. CASE connections # 0
  <2>. DEFINE m == (connections - 1) * RequestLen
              n == connections * RequestLen
              l == k * RequestLen
  <2>1. total_received <= m + received
    BY <1>4 DEF ServerInv
  <2>2. m \in Int
    BY <1>1
  <2>3. n \in Nat /\ l \in Nat /\ n <= l /\ m + RequestLen = n
    BY <1>2
  <2>. HIDE DEF m, n, l
  <2>4. total_received <= l
    BY <1>1, <2>1, <2>2, <2>3
  <2>. QED  BY <2>4 DEF l
<1>. QED  BY <1>3, <1>4

(* While gfc_perform runs the server has accepted no connection after the  *)
(* one at hand.                                                            *)
LEMMA NoneAfterCurrent ==
    ASSUME IInv, ServerInv
    PROVE  /\ Len(results) \in Nat /\ Current \in Nat /\ Made \in Nat
           /\ Made <= Current /\ connections <= Current
           /\ total_received >= HeaderMax => Late(Current)
<1>1. Len(results) \in Nat
  BY DEF IInv, MainInv
<1>2. Current \in Nat /\ Made \in Nat /\ Made <= Current
  BY <1>1 DEF Made, Current
<1>3. connections <= Current
  BY <1>2 DEF ServerInv
<1>4. total_received <= Current * RequestLen /\ Current * RequestLen \in Nat
  BY <1>2, <1>3, LengthFacts, ReceivedSoFar, Times
<1>5. total_received \in Nat /\ HeaderMax \in Nat
  BY LengthFacts DEF ServerInv
<1>6. total_received >= HeaderMax => Late(Current)
  BY <1>4, <1>5 DEF Late
<1>. QED  BY <1>1, <1>2, <1>3, <1>6

(* The server goes on by itself.                                           *)
LEMMA ServerAlone ==
    ASSUME SessionInv, ServerInv', UNCHANGED <<allVars, faulty>>,
           overwritten \subseteq overwritten'
    PROVE  SessionInv'
<1>1. IInv'
  BY DownloadStep DEF SessionInv
<1>2. UNCHANGED <<main, response, results, gWorkloadPathArray, pc, returned,
                  received_filelen, faulty>>
  BY DEF allVars, vars, downloadVars, connection
<1>3. AnswerInv'
  BY <1>2 DEF SessionInv, AnswerInv, Strayed, Late, Replies, FileReplies, Current, WorkloadPath
<1>4. PendingInv'
  BY <1>2 DEF SessionInv, PendingInv, Late, Current
<1>5. ResultExplained'
  <2>1. AnyResult' = AnyResult /\ \A k : Late(k)' = Late(k)
    BY DEF AnyResult, RightResult, NotFound, Late
  <2>2. \A k : RightResult(WorkloadPath(k))' = RightResult(WorkloadPath(k))
    BY <1>2 DEF RightResult, NotFound, WorkloadPath
  <2>. QED  BY <1>2, <2>1, <2>2 DEF SessionInv, ResultExplained, Seen
<1>. QED  BY <1>1, <1>3, <1>4, <1>5 DEF SessionInv

(* Where the loop that receives goes leaves it with a whole request, or at *)
(* the limit.                                                              *)
LEMMA LoopEnds ==
    ASSUME S!LoopTest, request' \in ServerRequest, received' \in Nat, total_received' \in Nat
    PROVE  /\ spc' \in {"receive", "parse"}
           /\ spc' = "parse" => received' = RequestLen \/ total_received' >= HeaderMax
<1>1. request'.size = RequestLen
  BY RequestFacts
<1>2. spc' = IF received' # request'.size /\ total_received' < HeaderMax
             THEN "receive" ELSE "parse"
  BY DEF S!LoopTest, S!ReceiveMore, S!MarkerReceived
<1>. QED  BY <1>1, <1>2, LengthFacts

(* A connection is accepted, and is the next of those the client has made. *)
LEMMA AcceptStep == ASSUME SessionInv, ServerAccept PROVE SessionInv'
<1>1. IInv /\ ServerInv /\ UNCHANGED <<allVars, overwritten, faulty>>
  BY DEF SessionInv, ServerAccept
<1>2. /\ Made' = Made /\ \A k : WorkloadPath(k)' = WorkloadPath(k)
      /\ connections < Made /\ Made \in Nat
  BY <1>1, NoneAfterCurrent
  DEF ServerAccept, Made, Current, WorkloadPath, allVars, vars, connection, downloadVars
<1>3. /\ connections \in Nat /\ received \in Nat /\ total_received \in Nat
      /\ received <= RequestLen
  BY <1>1 DEF ServerInv
<1>4. CASE S!Accept /\ request'.path = WorkloadPath(connections') /\ closed' = FALSE
  <2>1. /\ request' \in ServerRequest /\ connections' = connections + 1 /\ closed' = FALSE
        /\ received' = 0 /\ UNCHANGED <<ctx, total_received, path>> /\ S!LoopTest
        /\ spc = "accept" /\ request'.path = WorkloadPath(connections')
    BY <1>4 DEF S!Accept
  <2>2. /\ spc' \in {"receive", "parse"}
        /\ spc' = "parse" => received' = RequestLen \/ total_received' >= HeaderMax
    BY <2>1, <1>3, LoopEnds
  <2>3. connections' <= Made' /\ connections' # 0 /\ connections' > 0 /\ connections' \in Nat
    BY <1>2, <1>3, <2>1
  <2>4. total_received' <= (connections' - 1) * RequestLen + received'
    <3>1. total_received <= connections * RequestLen /\ connections * RequestLen \in Nat
      BY <1>1, <1>3, LengthFacts, ReceivedSoFar, Times
    <3>2. connections' - 1 = connections
      BY <1>3, <2>1
    <3>. QED  BY <3>1, <3>2, <2>1, <1>3
  <2>5. request'.path = WorkloadPath(connections)'
    BY <2>1, <1>1 DEF WorkloadPath, allVars, downloadVars
  <2>6. ServerInv'
    BY <1>1, <1>3, <2>1, <2>2, <2>3, <2>4, <2>5, LengthFacts DEF ServerInv
  <2>. QED  BY <1>1, <2>6, ServerAlone
<1>5. CASE S!AcceptCrashes /\ closed' = closed
  <2>1. /\ ctx = "NULL" /\ spc' = "crashed" /\ spc = "accept"
        /\ UNCHANGED <<ctx, total_received, request, received, path, connections, closed>>
    BY <1>5 DEF S!AcceptCrashes
  <2>2. ServerInv'
    BY <1>1, <1>2, <2>1 DEF ServerInv
  <2>. QED  BY <1>1, <2>2, ServerAlone
<1>. QED  BY <1>4, <1>5 DEF ServerAccept

(* What recv returns is part of the request of that connection.            *)
LEMMA ReceiveStep == ASSUME SessionInv, ServerReceive PROVE SessionInv'
<1>1. IInv /\ ServerInv /\ UNCHANGED <<allVars, wire, faulty>>
  BY DEF SessionInv, ServerReceive
<1>2. Made' = Made /\ WorkloadPath(connections)' = WorkloadPath(connections')
  BY <1>1 DEF Made, Current, WorkloadPath, allVars, vars, connection, downloadVars
<1>3. PICK n \in 1 .. S!Smaller(request.sent - received, HeaderMax) :
          received' = received + n /\ total_received' = total_received + n
  BY DEF ServerReceive, S!Receive
<1>4. /\ spc = "receive" /\ S!LoopTest /\ UNCHANGED <<ctx, request, path, connections>>
  BY DEF ServerReceive, S!Receive
<1>5. /\ connections \in Nat /\ received \in Nat /\ total_received \in Nat
      /\ received <= RequestLen /\ received <= total_received
      /\ request.sent = RequestLen /\ request \in ServerRequest
      /\ connections > 0
      /\ total_received <= (connections - 1) * RequestLen + received
      /\ request.path = WorkloadPath(connections)
  BY <1>1, <1>4, RequestFacts DEF ServerInv
<1>6. n \in Nat /\ n <= RequestLen - received
  BY <1>3, <1>5, LengthFacts DEF S!Smaller
<1>7. received' \in Nat /\ received' <= RequestLen /\ total_received' \in Nat
      /\ total_received' >= total_received /\ received' <= total_received'
  BY <1>3, <1>5, <1>6, LengthFacts
<1>8. total_received' <= (connections - 1) * RequestLen + received'
  <2>. DEFINE m == (connections - 1) * RequestLen
  <2>1. m \in Int /\ total_received <= m + received
    BY <1>5, LengthFacts
  <2>. HIDE DEF m
  <2>2. total_received + n <= m + (received + n)
    BY <2>1, <1>5, <1>6
  <2>. QED  BY <2>2, <1>3 DEF m
<1>9. /\ spc' \in {"receive", "parse"}
      /\ spc' = "parse" => received' = RequestLen \/ total_received' >= HeaderMax
  BY <1>4, <1>5, <1>7, LoopEnds
<1>10. ~faulty /\ (ctx = "NULL" \/ closed) => total_received' >= HeaderMax
  BY <1>1, <1>5, <1>7, LengthFacts DEF ServerInv
<1>11. ServerInv'
  BY <1>1, <1>2, <1>4, <1>5, <1>7, <1>8, <1>9, <1>10 DEF ServerInv, wire
<1>. QED  BY <1>1, <1>11, ServerAlone DEF wire

(* A request that has arrived whole is valid, and its path is read whole.  *)
LEMMA ScannedWhole ==
    ASSUME ServerInv, received = RequestLen
    PROVE  \A p \in S!PathAfterScan : p = request.path /\ ~S!NotValid(p)
<1>1. /\ request.form = "valid" /\ request.path \in Path /\ request.size = RequestLen
  BY RequestFacts DEF ServerInv
<1>2. ~S!EndBeforePath
  BY <1>1, LengthFacts DEF S!EndBeforePath
<1>3. S!PathRead = request.path
  BY <1>1, LengthFacts DEF S!PathRead
<1>. QED  BY <1>1, <1>2, <1>3 DEF S!PathAfterScan, S!PathFound, S!NotValid, S!MustBeginWithSlash

(* The request is valid: its path has been read, whole but at the limit.   *)
LEMMA ParseValidStep ==
    ASSUME SessionInv, S!ParseValid, UNCHANGED <<allVars, wire, left, faulty>>
    PROVE  SessionInv'
<1>1. IInv /\ ServerInv /\ UNCHANGED <<allVars, closed, overwritten, faulty>>
  BY DEF SessionInv, wire
<1>2. Made' = Made /\ WorkloadPath(connections)' = WorkloadPath(connections')
  BY DEF Made, Current, WorkloadPath, allVars, vars, connection, downloadVars
<1>3. /\ spc = "parse" /\ spc' = "handle" /\ ~S!EndBeforePath /\ path' \in S!PathAfterScan
      /\ UNCHANGED <<ctx, total_received, request, received, connections>>
  BY DEF S!ParseValid
<1>4. request.form = "valid"
  BY <1>1, RequestFacts DEF ServerInv
<1>5. path' = S!PathRead
  BY <1>3, <1>4 DEF S!PathAfterScan, S!PathFound
<1>6. path' \in {request.path, "truncated"}
  BY <1>4, <1>5 DEF S!PathRead
<1>7. received = RequestLen => path' = request.path
  BY <1>1, <1>3, ScannedWhole
<1>8. received = RequestLen \/ total_received >= HeaderMax
  BY <1>1, <1>3 DEF ServerInv
<1>9. ServerInv'
  BY <1>1, <1>2, <1>3, <1>6, <1>7, <1>8 DEF ServerInv
<1>. QED  BY <1>1, <1>9, ServerAlone

(* The server's other steps of its own: only failures, and paths longer    *)
(* than the limit, lose it.                                                *)
LEMMA ServerMoves ==
    ASSUME SessionInv, UNCHANGED <<allVars, overwritten, faulty>>,
           \/ S!Listen /\ closed' = closed
           \/ S!ParseCrashes /\ closed' = closed
           \/ S!Failure /\ faulty
           \/ S!HandlerReturns /\ (faulty \/ ctx' = ctx) /\ closed' = (ctx' = "NULL")
    PROVE  SessionInv'
<1>1. IInv /\ ServerInv
  BY DEF SessionInv
<1>2. Made' = Made /\ WorkloadPath(connections)' = WorkloadPath(connections')
  BY DEF Made, Current, WorkloadPath, allVars, vars, connection, downloadVars
<1>3. /\ UNCHANGED <<total_received, request, received, path, connections>>
      /\ spc' \in {spc, "accept", "crashed", "exited"} /\ spc # "handle"
      /\ spc' = spc => spc = "accept"
  BY DEF S!Listen, S!ParseCrashes, S!Failure, S!ListenFails, S!AcceptFails, S!ReceiveFails,
         S!SendKills, S!HandlerReturns
<1>4. \/ faulty
      \/ ctx' = ctx /\ spc' = "accept" /\ closed' \in {closed, ctx' = "NULL"}
      \/ S!Overrun /\ spc' = "crashed"
  BY DEF S!Listen, S!ParseCrashes, S!HandlerReturns
<1>5. S!Overrun => total_received >= HeaderMax
  <2>1. /\ received \in Nat /\ total_received \in Nat /\ received <= total_received
        /\ request.size = RequestLen
    BY <1>1, RequestFacts DEF ServerInv
  <2>. QED  BY <2>1, LengthFacts DEF S!Overrun, S!Smaller
<1>6. ~faulty => /\ ctx' = "NULL" \/ closed' \/ spc' = "crashed" => total_received >= HeaderMax
                 /\ spc' # "exited"
  BY <1>1, <1>4, <1>5 DEF ServerInv
<1>7. ServerInv'
  BY <1>1, <1>2, <1>3, <1>6 DEF ServerInv
<1>. QED  BY <1>1, <1>7, ServerAlone

(* The server sends an answer, and the client's request gets it if it is   *)
(* the one that is served.                                                 *)
LEMMA AnswerStep ==
    ASSUME SessionInv, ServerInv', NEW r \in Response, Send(r),
           overwritten \subseteq overwritten',
           \/ r \in Replies(WorkloadPath(connections))
           \/ /\ total_received >= HeaderMax \/ connections \in overwritten'
              /\ r \in Replies("garbage")
           \/ total_received >= HeaderMax /\ r = Reply("INVALID", 0, 0)
    PROVE  SessionInv'
<1>1. IInv /\ ServerInv /\ AnswerInv /\ PendingInv /\ ResultExplained
  BY DEF SessionInv
<1>2. [DownloadNext]_allVars /\ UNCHANGED faulty
  BY SendAnswers DEF Send
<1>3. IInv'
  BY <1>1, <1>2, DownloadStep
<1>4. UNCHANGED <<downloadVars, pc, returned, received_filelen>>
  BY DEF Send, Answer, allVars, vars
<1>5. UNCHANGED <<main, results, gWorkloadPathArray>>
  BY <1>4 DEF downloadVars
<1>6. ResultExplained'
  BY <1>1, <1>2, <1>5 DEF ResultExplained, WorkloadPath, RightResult, AnyResult, Seen, Late
<1>7. CASE Waiting
  <2>1. response' = r /\ pc \in {"send", "header"} /\ main = "perform" /\ connections = Current
    BY <1>7 DEF Send, Answer, Waiting
  <2>2. total_received >= HeaderMax => Late(Current)
    BY <1>1, NoneAfterCurrent
  <2>3. Replies(WorkloadPath(Current))' = Replies(WorkloadPath(Current))
        /\ Replies("garbage")' = Replies("garbage")
    BY <1>2, <1>5 DEF Replies, FileReplies, WorkloadPath, Current
  <2>4. AnswerInv'
    BY <2>1, <2>2, <2>3, <1>5 DEF AnswerInv, Strayed, Late, Current, Reply
  <2>5. PendingInv'
    BY <2>1, <1>4 DEF PendingInv
  <2>. QED  BY <1>3, <1>6, <2>4, <2>5 DEF SessionInv
<1>8. CASE ~Waiting
  <2>1. UNCHANGED response
    BY <1>8 DEF Send, allVars, vars, connection
  <2>2. AnswerInv'
    BY <2>1, <1>1, <1>2, <1>5
    DEF AnswerInv, Strayed, Late, Current, Replies, FileReplies, WorkloadPath
  <2>3. PendingInv'
    BY <2>1, <1>1, <1>2, <1>4, <1>5 DEF PendingInv, Late, Current
  <2>. QED  BY <1>3, <1>6, <2>2, <2>3 DEF SessionInv
<1>. QED  BY <1>7, <1>8

(* Sending changes neither what the client has made nor its workload.      *)
LEMMA SendKeeps ==
    ASSUME NEW r, Send(r)
    PROVE  /\ Made' = Made /\ UNCHANGED faulty
           /\ WorkloadPath(connections)' = WorkloadPath(connections')
<1>1. UNCHANGED <<downloadVars, sockfd, faulty>>
  BY DEF Send, Answer, allVars, vars, connection
<1>. QED  BY <1>1 DEF downloadVars, Made, Current, WorkloadPath

(* INVALID is sent only at the limit, and ends what comes after.           *)
LEMMA RefuseStep == ASSUME SessionInv, ServerRefuse PROVE SessionInv'
<1>1. IInv /\ ServerInv
  BY DEF SessionInv
<1>2. S!ParseInvalid /\ Send(Reply("INVALID", 0, 0)) /\ Reply("INVALID", 0, 0) \in Response
  BY ReplyAssumption DEF ServerRefuse
<1>3. /\ spc = "parse" /\ spc' = "accept" /\ ctx' = "NULL" /\ path' \in S!PathAfterScan
      /\ S!NotValid(path')
      /\ UNCHANGED <<total_received, request, received, connections>>
  BY <1>2 DEF S!ParseInvalid
<1>4. received # RequestLen
  BY <1>1, <1>3, ScannedWhole
<1>5. total_received >= HeaderMax
  BY <1>1, <1>3, <1>4 DEF ServerInv
<1>6. ServerInv'
  BY <1>1, <1>2, <1>3, <1>5, SendKeeps DEF ServerInv
<1>7. overwritten' = overwritten
  BY DEF ServerRefuse
<1>. QED  BY <1>2, <1>5, <1>6, <1>7, AnswerStep

(* The handler answers for the path of the request; or, at the limit, for  *)
(* a part of it; or for what has overwritten it, or not at all.            *)
LEMMA HandleStep == ASSUME SessionInv, ServerHandle PROVE SessionInv'
<1>1. IInv /\ ServerInv
  BY DEF SessionInv
<1>2. /\ spc = "handle" /\ spc' = "handling" /\ outcome'.path \in {path, "garbage"}
      /\ UNCHANGED <<ctx, total_received, request, received, path, connections>>
  BY DEF ServerHandle, S!CallHandler
<1>3. /\ overwritten \subseteq overwritten' /\ closed' = closed
      /\ outcome'.path = "garbage" => connections \in overwritten'
  BY DEF ServerHandle
<1>4. request.path = WorkloadPath(connections)
  BY <1>1, <1>2 DEF ServerInv
<1>5. CASE SendNothing
  <2>1. UNCHANGED <<allVars, faulty>>
    BY <1>5 DEF SendNothing
  <2>2. Made' = Made /\ WorkloadPath(connections)' = WorkloadPath(connections')
    BY <2>1 DEF Made, Current, WorkloadPath, allVars, vars, connection, downloadVars
  <2>3. ServerInv'
    BY <1>1, <1>2, <1>3, <2>1, <2>2 DEF ServerInv
  <2>. QED  BY <1>3, <2>1, <2>3, ServerAlone
<1>6. CASE \E r \in Replies(outcome'.path) : Send(r)
  <2>1. PICK r \in Replies(outcome'.path) : Send(r)
    BY <1>6
  <2>2. r \in Response
    BY <2>1, RepliesFacts
  <2>3. ServerInv'
    BY <1>1, <1>2, <1>3, <2>1, SendKeeps DEF ServerInv
  <2>4. \/ outcome'.path = request.path
        \/ outcome'.path = "truncated" /\ total_received >= HeaderMax
        \/ outcome'.path = "garbage"
    BY <1>1, <1>2 DEF ServerInv
  <2>5. \/ r \in Replies(WorkloadPath(connections))
        \/ /\ total_received >= HeaderMax \/ connections \in overwritten'
           /\ r \in Replies("garbage")
    BY <1>3, <1>4, <2>1, <2>4, RepliesToStrays
  <2>. QED  BY <1>3, <2>1, <2>2, <2>3, <2>5, AnswerStep
<1>. QED  BY <1>5, <1>6 DEF ServerHandle
-----------------------------------------------------------------------------
(* The client's steps.                                                     *)

(* The request at hand is for a path.                                      *)
LEMMA PathAtHand ==
    ASSUME IInv, main = "perform"
    PROVE  WorkloadPath(Current) \in Path
<1>1. LocalPath(Current) \in Path \X (0 .. nrequests - 1)
  BY DEF IInv, MainInv, SocketsExplained, DownloadTypeOK
<1>. QED  BY <1>1 DEF LocalPath

(* The answer at hand is one the server gives.                             *)
LEMMA AnswerFacts ==
    ASSUME IInv, AnswerInv, main = "perform", response # NoResponse
    PROVE  /\ response.form \in {"OK", "FILE_NOT_FOUND", "INVALID"}
           /\ response.form # "OK" => response.length = 0
           /\ response.form = "INVALID" => Late(Current)
           /\ response.form = "OK" =>
                  \E q \in DOMAIN FileLength :
                      /\ response.length = FileLength[q]
                      /\ q = WorkloadPath(Current) \/ Strayed(Current)
           /\ response.form = "FILE_NOT_FOUND" =>
                  WorkloadPath(Current) \notin DOMAIN FileLength \/ Strayed(Current)
<1>. DEFINE p == WorkloadPath(Current)
<1>1. p \in Path
  BY PathAtHand
<1>. HIDE DEF p
<1>2. CASE response \in Replies(p)
  <2>1. \/ response = Reply("FILE_NOT_FOUND", 0, 0) /\ p \notin DOMAIN FileLength
        \/ \E q \in DOMAIN FileLength :
              q = p /\ \E n \in Nat : response = Reply("OK", FileLength[q], n)
    BY <1>1, <1>2, RepliesFacts
  <2>. QED  BY <2>1 DEF Reply, p
<1>3. CASE Strayed(Current) /\ response \in Replies("garbage")
  <2>1. \/ response = Reply("FILE_NOT_FOUND", 0, 0)
        \/ \E q \in DOMAIN FileLength : \E n \in Nat : response = Reply("OK", FileLength[q], n)
    BY <1>3, RepliesFacts
  <2>. QED  BY <1>3, <2>1 DEF Reply
<1>4. CASE Late(Current) /\ response = Reply("INVALID", 0, 0)
  BY <1>4 DEF Reply
<1>. QED  BY <1>2, <1>3, <1>4 DEF AnswerInv, p

(* The server waits while the client goes on, and makes no connection      *)
(* undone.                                                                 *)
LEMMA ServerWaits ==
    ASSUME SessionInv, UNCHANGED <<serverVars, wire, faulty>>,
           Made' >= Made, Made' \in Nat,
           gWorkloadPathArray' = gWorkloadPathArray \/ Made = 0
    PROVE  ServerInv'
<1>1. ServerInv /\ IInv /\ Made \in Nat
  BY NoneAfterCurrent DEF SessionInv
<1>2. UNCHANGED <<spc, ctx, total_received, request, received, path, connections, closed, faulty>>
  BY DEF serverVars, wire
<1>3. connections \in Nat /\ connections <= Made'
  BY <1>1, <1>2 DEF ServerInv
<1>4. connections > 0 => WorkloadPath(connections)' = WorkloadPath(connections)
  BY <1>1, <1>2 DEF ServerInv, WorkloadPath
<1>. QED  BY <1>1, <1>2, <1>3, <1>4 DEF ServerInv

(* A step of gfc_perform leaves the connection made and what is sent on it *)
(* alone; one that succeeds ends gfc_perform with 0, or because it does    *)
(* not know the status.                                                    *)
LEMMA ProgressMoves ==
    ASSUME IInv, Progress,
           response # NoResponse => /\ response.form \in {"OK", "FILE_NOT_FOUND", "INVALID"}
                                    /\ response.form # "OK" => response.length = 0
    PROVE  /\ response' = response /\ pc # "returned"
           /\ sockfd' = "none" => sockfd = "none"
           /\ pc' = "returned" =>
                  /\ returned' = 0 => received_filelen' = response.length
                  /\ returned' = -1 => ParseInvalid
<1>. USE DEF Return, connection
<1>1. CASE Connect \/ SendRequest \/ RecvHeader \/ ParseOk \/ RecvBody
  BY <1>1 DEF Connect, SendRequest, SendUpTo, RecvHeader, ParseOk, RecvBody
<1>2. CASE ParseInvalid
  BY <1>2 DEF ParseInvalid
<1>3. CASE ParseRefusal
  <2>1. /\ pc = "parse" /\ received_filelen' \in LengthRead
        /\ response' = response /\ sockfd' = "closed" /\ returned' = 0
    BY <1>3 DEF ParseRefusal
  <2>2. /\ response \in Response /\ response.length \in Nat
        /\ response.form \in Announced => LengthRead = {response.length}
    BY <2>1, ParseFacts DEF IInv
  <2>3. response # NoResponse
    BY <2>2, SizeFacts
  <2>4. received_filelen' = response.length
    <3>1. CASE response.form = "OK"
      BY <3>1, <2>1, <2>2 DEF Announced
    <3>2. CASE response.form # "OK"
      <4>1. response.length = 0 /\ LengthRead = 0 .. 0
        BY <2>3, <3>2 DEF LengthRead, Announced
      <4>. QED  BY <2>1, <4>1
    <3>. QED  BY <3>1, <3>2
  <2>. QED  BY <2>1, <2>4
<1>4. CASE Finish
  <2>1. /\ pc = "body" /\ returned' = 0 /\ sockfd' = "closed"
        /\ received_filelen' = received_filelen /\ response' = response
    BY <1>4 DEF Finish
  <2>2. /\ response \in Response /\ file_len = received_filelen
        /\ response.form \in Announced \union {"loose", "garbage"}
        /\ response.form \in Announced => file_len = response.length
    BY <2>1 DEF IInv, PerformInv, BodyInv
  <2>3. response # NoResponse
    BY <2>2, SizeFacts
  <2>. QED  BY <2>1, <2>2, <2>3
<1>. QED  BY <1>1, <1>2, <1>3, <1>4 DEF Progress

(* One that fails ends it with an error, or ends the process.              *)
LEMMA FailureMoves ==
    ASSUME Failure \/ Crash
    PROVE  /\ response' = response /\ pc # "returned"
           /\ sockfd' = "none" => sockfd = "none"
           /\ pc' = "returned" => /\ returned' = -1 /\ pc # "connect"
                                  /\ Failure
<1>1. CASE Failure
  BY <1>1 DEF Failure, ConnectFails, SendFails, SendKills, HeaderCut, BodyCut, Return, connection
<1>2. CASE Crash
  BY <1>2 DEF Crash, HeaderOverrun, ParseCrashes, connection
<1>. QED  BY <1>1, <1>2

(* gfc_perform goes on, or ends with a result that can be explained: where *)
(* no call fails of itself, it fails only at the limit.                    *)
LEMMA PerformStepKeeps ==
    ASSUME SessionInv, [DownloadNext]_allVars, UNCHANGED <<serverVars, wire, faulty>>,
           main = "perform", UNCHANGED downloadVars,
           \/ Progress \/ Crash
           \/ Failure /\ (pc = "connect" \/ faulty \/ Late(Current))
    PROVE  SessionInv'
<1>1. IInv /\ ServerInv /\ AnswerInv /\ PendingInv /\ ResultExplained
  BY DEF SessionInv
<1>2. IInv'
  BY <1>1, DownloadStep
<1>3. UNCHANGED <<main, results, gWorkloadPathArray, overwritten, faulty>>
  BY DEF downloadVars, wire
<1>4. /\ response' = response
      /\ sockfd' = "none" => sockfd = "none"
      /\ pc' = "returned" =>
             /\ returned' = 0 => received_filelen' = response.length
             /\ returned' = -1 => ParseInvalid \/ faulty \/ Late(Current)
  <2>1. CASE Progress
    BY <1>1, <2>1, AnswerFacts, ProgressMoves
  <2>2. CASE \/ Crash
             \/ Failure /\ (pc = "connect" \/ faulty \/ Late(Current))
    <3>1. returned' = -1 => ~(returned' = 0)
      OBVIOUS
    <3>2. Crash => pc' # "returned"
      BY DEF Crash, HeaderOverrun, ParseCrashes
    <3>. QED  BY <2>2, <3>1, <3>2, FailureMoves
  <2>. QED  BY <2>1, <2>2
<1>5. Made' >= Made /\ Made' \in Nat
  <2>1. Len(results) \in Nat /\ Current = Len(results) + 1
    BY <1>1, NoneAfterCurrent DEF Current
  <2>. QED  BY <2>1, <1>3, <1>4 DEF Made, Current
<1>6. ServerInv'
  BY <1>3, <1>5, ServerWaits
<1>7. AnswerInv'
  BY <1>1, <1>3, <1>4
  DEF AnswerInv, Strayed, Late, Current, Replies, FileReplies, WorkloadPath
<1>8. ParseInvalid => Late(Current)
  <2>. SUFFICES ASSUME ParseInvalid PROVE Late(Current)
    OBVIOUS
  <2>1. response \in Response /\ "INVALID" \in StatusRead
    BY <1>1 DEF ParseInvalid, IInv, PerformInv, HeaderInv
  <2>2. response # NoResponse
    BY <2>1, SizeFacts
  <2>3. response.form = "INVALID" \/ Late(Current)
    BY <2>1, <2>2, <1>1, AnswerFacts DEF StatusRead
  <2>. QED  BY <2>2, <2>3, <1>1, AnswerFacts
<1>9. PendingInv'
  BY <1>3, <1>4, <1>8 DEF PendingInv, Late, Current
<1>10. ResultExplained'
  BY <1>1, <1>3 DEF ResultExplained, WorkloadPath, RightResult, AnyResult, Seen, Late
<1>. QED  BY <1>2, <1>6, <1>7, <1>9, <1>10 DEF SessionInv

(* When the client finds a connection at its end.                          *)
LEMMA EndsExplained ==
    ASSUME SessionInv, main = "perform", AtEnd
    PROVE  faulty \/ Late(Current)
<1>1. IInv /\ ServerInv
  BY DEF SessionInv
<1>2. faulty \/ total_received >= HeaderMax
  BY <1>1 DEF ServerInv, AtEnd, ServerDown
<1>. QED  BY <1>1, <1>2, NoneAfterCurrent

(* What a request that has returned comes to is its place in the results.  *)
LEMMA SettledResult ==
    ASSUME SessionInv, main = "perform", pc = "returned"
    PROVE  \/ Seen(Result) = RightResult(WorkloadPath(Current))
           \/ Result.returned = -1 /\ (faulty \/ Late(Current))
           \/ Seen(Result) \in AnyResult /\ (Current \in overwritten \/ Late(Current))
<1>1. IInv /\ AnswerInv /\ PendingInv
  BY DEF SessionInv
<1>2. /\ Result.returned = returned
      /\ Seen(Result) = [returned |-> returned, status |-> ret_status,
                         filelen |-> received_filelen]
  BY DEF Result, Seen
<1>3. returned \in {0, -1} /\ ReturnContract
  BY <1>1 DEF IInv, PerformInv, TypeOK
<1>4. CASE returned = -1
  BY <1>1, <1>2, <1>4 DEF PendingInv
<1>5. CASE returned = 0
  <2>1. received_filelen = response.length
    BY <1>1, <1>5 DEF PendingInv
  <2>2. response # NoResponse
    <3>1. NoResponse.form \notin {"OK", "OKAY", "FILE_NOT_FOUND", "ERROR", "ERRORS", "loose", "garbage"}
      BY DEF NoResponse
    <3>. QED  BY <3>1, <1>3, <1>5 DEF ReturnContract, Announced
  <2>3. response.form \in {"OK", "FILE_NOT_FOUND", "INVALID"}
    BY <1>1, <2>2, AnswerFacts
  <2>4. \/ response.form = "OK" /\ ret_status = "OK"
        \/ response.form = "FILE_NOT_FOUND" /\ ret_status = "FILE_NOT_FOUND"
    BY <2>3, <1>3, <1>5 DEF ReturnContract, StatusRead, Announced
  <2>5. CASE response.form = "OK" /\ ret_status = "OK"
    <3>1. PICK q \in DOMAIN FileLength :
              /\ response.length = FileLength[q]
              /\ q = WorkloadPath(Current) \/ Strayed(Current)
      BY <2>2, <2>5, <1>1, AnswerFacts
    <3>2. Seen(Result) = RightResult(q)
      BY <1>2, <1>5, <2>1, <2>5, <3>1 DEF RightResult
    <3>3. q \in Path
      BY LengthFacts
    <3>. QED  BY <3>1, <3>2, <3>3 DEF AnyResult, Strayed
  <2>6. CASE response.form = "FILE_NOT_FOUND" /\ ret_status = "FILE_NOT_FOUND"
    <3>1. /\ response.length = 0
          /\ WorkloadPath(Current) \notin DOMAIN FileLength \/ Strayed(Current)
      BY <2>2, <2>6, <1>1, AnswerFacts
    <3>2. Seen(Result) = NotFound
      BY <1>2, <1>5, <2>1, <2>6, <3>1 DEF NotFound
    <3>. QED  BY <3>1, <3>2 DEF RightResult, AnyResult, Strayed
  <2>. QED  BY <2>4, <2>5, <2>6
<1>. QED  BY <1>3, <1>4, <1>5

(* Between two requests, the results are those of the requests made.       *)
LEMMA MainStepKeeps ==
    ASSUME SessionInv, MainStep \/ LoadFails, UNCHANGED <<serverVars, wire, faulty>>
    PROVE  SessionInv'
<1>1. IInv /\ ServerInv /\ AnswerInv /\ PendingInv /\ ResultExplained
  BY DEF SessionInv
<1>2. IInv'
  BY <1>1, DownloadStep DEF DownloadNext
<1>3. Len(results) \in Nat /\ Current = Len(results) + 1 /\ Made \in Nat
  BY <1>1, NoneAfterCurrent DEF Current
<1>4. CASE LoadWorkload
  <2>1. main = "load" /\ main' = "next" /\ results' = results
    BY <1>4 DEF LoadWorkload
  <2>2. results = << >> /\ Len(results) = 0
    BY <2>1, <1>1 DEF IInv, MainInv
  <2>3. Made = 0 /\ Made' = 0
    BY <2>1, <2>2 DEF Made
  <2>4. ServerInv'
    BY <2>3, ServerWaits
  <2>5. AnswerInv' /\ PendingInv' /\ ResultExplained'
    BY <2>1, <2>2 DEF AnswerInv, PendingInv, ResultExplained
  <2>. QED  BY <1>2, <2>4, <2>5 DEF SessionInv
<1>5. CASE DivideByZero \/ MakeRequestFails \/ AllMade \/ LoadFails
  <2>1. /\ main # "perform" /\ main' \in {"done", "exited", "crashed"}
        /\ UNCHANGED <<results, gWorkloadPathArray>>
    BY <1>5 DEF DivideByZero, MakeRequestFails, AllMade, LoadFails
  <2>2. Made' = Made
    BY <2>1 DEF Made
  <2>3. ServerInv'
    BY <2>1, <2>2, <1>3, ServerWaits
  <2>4. AnswerInv' /\ PendingInv'
    BY <2>1 DEF AnswerInv, PendingInv
  <2>5. ResultExplained'
    BY <2>1, <1>1 DEF ResultExplained, WorkloadPath, RightResult, AnyResult, Seen, Late, wire
  <2>. QED  BY <1>2, <2>3, <2>4, <2>5 DEF SessionInv
<1>6. CASE MakeRequest
  <2>1. /\ main = "next" /\ pc' = "connect" /\ response' = NoResponse /\ sockfd' = "none"
        /\ UNCHANGED <<results, gWorkloadPathArray>>
    BY <1>6 DEF MakeRequest
  <2>2. Made' = Made
    BY <2>1 DEF Made
  <2>3. ServerInv'
    BY <2>1, <2>2, <1>3, ServerWaits
  <2>4. AnswerInv' /\ PendingInv'
    BY <2>1 DEF AnswerInv, PendingInv
  <2>5. ResultExplained'
    BY <2>1, <1>1 DEF ResultExplained, WorkloadPath, RightResult, AnyResult, Seen, Late, wire
  <2>. QED  BY <1>2, <2>3, <2>4, <2>5 DEF SessionInv
<1>7. CASE Settle
  <2>. DEFINE n == Len(results)
  <2>1. /\ main = "perform" /\ pc = "returned" /\ main' = "next"
        /\ results' = Append(results, Result) /\ UNCHANGED gWorkloadPathArray
    BY <1>7 DEF Settle
  <2>2. /\ Len(results') = n + 1 /\ results'[n + 1] = Result
        /\ \A k \in 1 .. n : results'[k] = results[k]
    <3>1. results \in Seq(Outcome) /\ Result \in Outcome
      BY <1>1 DEF IInv, MainInv, PerformInv, TypeOK, Result, Outcome
    <3>. QED  BY <3>1, <2>1, AppendProperties
  <2>3. Made <= Current /\ Made' = Current /\ Current \in Nat
    BY <2>1, <2>2, <1>1, <1>3, NoneAfterCurrent DEF Made
  <2>4. ServerInv'
    BY <2>1, <2>3, <1>3, ServerWaits
  <2>5. AnswerInv' /\ PendingInv'
    BY <2>1 DEF AnswerInv, PendingInv
  <2>6. ResultExplained'
    <3>1. ASSUME NEW k \in 1 .. n + 1
          PROVE  \/ Seen(results'[k]) = RightResult(WorkloadPath(k))
                 \/ results'[k].returned = -1 /\ (faulty \/ Late(k))
                 \/ Seen(results'[k]) \in AnyResult /\ (k \in overwritten \/ Late(k))
      <4>1. CASE k = n + 1
        BY <4>1, <2>1, <2>2, <1>3, SettledResult
      <4>2. CASE k \in 1 .. n
        BY <4>2, <2>2, <1>1 DEF ResultExplained
      <4>. QED  BY <4>1, <4>2, <1>3
    <3>. QED
      BY <3>1, <2>1, <2>2
      DEF ResultExplained, WorkloadPath, RightResult, AnyResult, Seen, Late, wire
  <2>. QED  BY <1>2, <2>4, <2>5, <2>6 DEF SessionInv
<1>. QED  BY <1>4, <1>5, <1>6, <1>7 DEF MainStep

-----------------------------------------------------------------------------
LEMMA InitSession == SessionInit => SessionInv
<1>. SUFFICES ASSUME SessionInit PROVE SessionInv
  OBVIOUS
<1>1. IInv
  BY InitClient DEF SessionInit
<1>2. /\ main = "load" /\ Len(results) = 0 /\ spc = "listen" /\ ctx = "allocated"
      /\ total_received = 0 /\ received = 0 /\ connections = 0 /\ request \in ServerRequest
      /\ closed = FALSE
  BY DEF SessionInit, DownloadInit, S!Init
<1>3. ServerInv
  BY <1>2, LengthFacts DEF ServerInv, Made
<1>4. AnswerInv /\ PendingInv /\ ResultExplained
  BY <1>2 DEF AnswerInv, PendingInv, ResultExplained
<1>. QED  BY <1>1, <1>3, <1>4 DEF SessionInv

LEMMA SessionStep == SessionInv /\ [SessionNext]_sessionVars => SessionInv'
<1>. SUFFICES ASSUME SessionInv, [SessionNext]_sessionVars PROVE SessionInv'
  OBVIOUS
<1>1. CASE UNCHANGED sessionVars
  <2>1. ServerInv /\ UNCHANGED <<allVars, serverVars, closed, overwritten, faulty>>
    BY <1>1 DEF SessionInv, sessionVars, wire
  <2>2. ServerInv'
    BY <2>1 DEF ServerInv, serverVars, allVars, vars, connection, downloadVars, Made, Current,
                WorkloadPath
  <2>. QED  BY <2>1, <2>2, ServerAlone
<1>2. CASE ServerStep
  <2>1. CASE (S!Listen \/ S!ParseValid \/ S!ParseCrashes) /\ UNCHANGED <<allVars, wire, left, faulty>>
    BY <2>1, ServerMoves, ParseValidStep DEF wire
  <2>2. CASE ServerHandled
    BY <2>2, ServerMoves DEF ServerHandled
  <2>. QED  BY <1>2, <2>1, <2>2, AcceptStep, ReceiveStep, RefuseStep, HandleStep DEF ServerStep
<1>3. CASE ServerFault
  BY <1>3, ServerMoves DEF ServerFault, wire
<1>4. CASE ClientMain \/ (ClientFault /\ LoadFails)
  BY <1>4, MainStepKeeps DEF ClientMain, ClientFault
<1>5. CASE \/ ClientProgress \/ ClientEnds \/ ClientCrash
           \/ ClientFault /\ PerformFailure
  <2>1. [DownloadNext]_allVars
    BY <1>5, ClientSteps DEF SessionNext
  <2>2. CASE ClientProgress
    <3>1. /\ main = "perform" /\ UNCHANGED <<downloadVars, serverVars, wire, faulty>> /\ Progress
      BY <2>2 DEF ClientProgress, PerformProgress
    <3>. QED  BY <2>1, <3>1, PerformStepKeeps
  <2>3. CASE ClientEnds
    <3>1. /\ main = "perform" /\ UNCHANGED <<downloadVars, serverVars, wire, faulty>> /\ Failure
      BY <2>3 DEF ClientEnds, PerformFailure
    <3>2. pc # "connect" => AtEnd
      BY <2>3 DEF ClientEnds, Broken
    <3>. QED  BY <2>1, <3>1, <3>2, EndsExplained, PerformStepKeeps
  <2>4. CASE ClientFault /\ PerformFailure
    BY <2>1, <2>4, PerformStepKeeps DEF ClientFault, PerformFailure
  <2>5. CASE ClientCrash
    BY <2>1, <2>5, PerformStepKeeps DEF ClientCrash, PerformCrash
  <2>. QED  BY <1>5, <2>2, <2>3, <2>4, <2>5
<1>. QED  BY <1>1, <1>2, <1>3, <1>4, <1>5 DEF SessionNext, ClientFault

(* From end to end, for every set of files and every limit: a request has  *)
(* the right result, unless a call fails, the limit for one header has     *)
(* been reached or its path was overwritten; and where it then succeeds,   *)
(* it has what the server would rightly answer for some path.              *)
THEOREM Results == SessionSpec => []ResultExplained
<1>1. SessionInv => ResultExplained
  BY DEF SessionInv
<1>. QED  BY <1>1, InitSession, SessionStep, PTL DEF SessionSpec
=============================================================================
