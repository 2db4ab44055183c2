------------------------------ MODULE GfClient ------------------------------
(***************************************************************************)
(* One request of the Getfile client library (gflib/gfclient.c): gfc_create*)
(* and gfc_perform, with parseHeader and storeStatus, against a server     *)
(* that sends a response and closes the connection, or fails.              *)
(*                                                                         *)
(* The bytes of a response are counted, not spelled out: HeaderLen bytes   *)
(* of header, of which the last completes the end marker, then the bytes   *)
(* of the body, numbered from 1.  Any number of them may arrive in one     *)
(* recv.                                                                   *)
(***************************************************************************)
EXTENDS Integers, Sequences

CONSTANTS
    Response,     \* the responses a server may send
    RequestLen,   \* length of the request header
    HeaderLen,    \* length of the response header
    LengthLen,    \* length of " 0", a length field that says 0
    Skip,         \* the 4 added to the pointer to the body
    Buffer,       \* BUFFER_SIZE
    Printed       \* the lengths a header may have that is printed again after
                  \* a response of no standard layout

(* A response: its form, the number that can be read as its length, and    *)
(* how many bytes follow the end marker before the server closes the       *)
(* connection, be they less than announced, as many, or more.  Of what the *)
(* bytes are, two things matter to parseHeader: how many bytes of white    *)
(* space the body begins with, and where its first zero byte is (0 if      *)
(* there is none).                                                         *)
(*                                                                         *)
(* Of headers the code takes for a success, "OK" is the one the protocol   *)
(* means, and "OKAY" has a status that only begins with OK; "loose" are    *)
(* the other layouts: no length (then what begins the body may be read as  *)
(* one), more white space, a sign, zeros, further text.  "ERRORS" is a     *)
(* refusal whose status only begins like one, and "INVALID" has none of    *)
(* the statuses.  "garbage" does not begin with GETFILE, or has a status   *)
(* that is longer than the array for it.                                   *)
Form == {"OK", "OKAY", "loose", "FILE_NOT_FOUND", "ERROR", "ERRORS", "INVALID", "garbage"}
Announced == {"OK", "OKAY"}
Status == {"OK", "FILE_NOT_FOUND", "ERROR", "INVALID"}

ASSUME ResponseAssumption ==
    Response \subseteq [form : Form, length : Nat, body : Nat, blanks : Nat, zero : Nat]

ASSUME SizeAssumption ==
    /\ RequestLen \in Nat /\ LengthLen \in Nat /\ Skip \in Nat
    /\ HeaderLen \in Nat /\ LengthLen < HeaderLen
    /\ Buffer \in Nat /\ Buffer > 1
    /\ Printed \subseteq Nat

VARIABLES
    response,          \* what the server sends, from the moment it has decided
    pc,                \* where gfc_perform is
    sockfd,            \* "none", "open" or "closed"
    bytes_sent,        \* of the request
    taken,             \* bytes of the response recv has returned
    total_bytes, total_file_bytes, file_len, ret_status, \* fields of gfcrequest_t
    received_filelen,  \* the length parseHeader reads
    with_header,       \* bytes of the body in the recv that ended the header
    headers,           \* calls of headerfunc
    delivered,         \* the bytes handed to writefunc; 0 for one that is not of the body
    returned           \* what gfc_perform returned

connection == <<response, sockfd, bytes_sent, taken>>
fields == <<total_bytes, total_file_bytes, file_len, ret_status>>
callbacks == <<headers, delivered>>
vars == <<connection, fields, callbacks, pc, received_filelen, with_header, returned>>

NoResponse == [form |-> "none", length |-> 0, body |-> 0, blanks |-> 0, zero |-> 0]

(* gfc_create has set all fields to 0, which is GF_OK as a status.         *)
Init ==
    /\ response = NoResponse
    /\ pc = "connect" /\ sockfd = "none" /\ bytes_sent = 0 /\ taken = 0
    /\ total_bytes = 0 /\ total_file_bytes = 0 /\ file_len = 0 /\ ret_status = "OK"
    /\ received_filelen = 0 /\ with_header = 0
    /\ headers = 0 /\ delivered = << >>
    /\ returned = 0

Return(value) == pc' = "returned" /\ returned' = value

-----------------------------------------------------------------------------
(* gfc_create_socket.                                                      *)
Connect ==
    /\ pc = "connect"
    /\ pc' = "send" /\ sockfd' = "open"
    /\ UNCHANGED <<response, bytes_sent, taken, fields, callbacks,
                   received_filelen, with_header, returned>>

(* No address can be connected to: gfc_create_socket ends the process.     *)
ConnectFails ==
    /\ pc = "connect"
    /\ pc' = "exited"
    /\ UNCHANGED <<connection, fields, callbacks, received_filelen, with_header, returned>>

(* One turn of the loop that sends the request header, up to one of the    *)
(* given counts of bytes.                                                  *)
SendUpTo(counts) ==
    /\ pc = "send" /\ bytes_sent < RequestLen
    /\ bytes_sent' \in counts
    /\ pc' = IF bytes_sent' < RequestLen THEN "send" ELSE "header"
    /\ UNCHANGED <<response, sockfd, taken, fields, callbacks,
                   received_filelen, with_header, returned>>

(* Mutant: the bytes sent are not summed up.                               *)
SendRequestUnsummed == SendUpTo(1 .. RequestLen)

(* send accepts any part of what is left.                                  *)
SendRequest == SendUpTo(bytes_sent + 1 .. RequestLen)

SendFails ==
    /\ pc = "send"
    /\ ret_status' = "ERROR"
    /\ Return(-1)
    /\ UNCHANGED <<connection, total_bytes, total_file_bytes, file_len, callbacks,
                   received_filelen, with_header>>

(* The connection was reset: the signal SIGPIPE ends the process.          *)
SendKills ==
    /\ pc = "send"
    /\ pc' = "exited"
    /\ UNCHANGED <<connection, fields, callbacks, received_filelen, with_header, returned>>

-----------------------------------------------------------------------------
(* The server decides what to send, as a rule after the whole request.     *)
Answer(r) ==
    /\ pc \in {"send", "header"} /\ response = NoResponse
    /\ response' = r
    /\ UNCHANGED <<sockfd, bytes_sent, taken, fields, callbacks, pc,
                   received_filelen, with_header, returned>>

(* What recv returns: some of the bytes on their way, at most size; 0 once *)
(* all have been taken and the server has closed the connection; or an     *)
(* error, at any time.                                                     *)
Available ==
    IF response = NoResponse THEN 0 ELSE HeaderLen + response.body - taken
Smaller(m, n) == IF m < n THEN m ELSE n
Received(size) == 1 .. Smaller(Available, size)

(* parseHeader, the loop that ends when the end marker has been received.  *)
RecvHeader ==
    /\ pc = "header"
    /\ \E received \in Received(Buffer - 1) :
           /\ taken' = taken + received
           /\ total_bytes' = total_bytes + received
    /\ with_header' = IF taken' < HeaderLen THEN 0 ELSE taken' - HeaderLen
    /\ pc' = IF taken' < HeaderLen THEN "header" ELSE "parse"
    /\ UNCHANGED <<response, sockfd, bytes_sent, total_file_bytes, file_len, ret_status,
                   callbacks, received_filelen, returned>>

(* A recv of Buffer - 1 bytes: the zero byte is written behind the buffer; *)
(* and what does not fit in two buffers is appended nonetheless.  Either   *)
(* may end the process (or do no harm).                                    *)
HeaderOverrun ==
    /\ pc = "header"
    /\ \E received \in Received(Buffer - 1) :
           received = Buffer - 1 \/ total_bytes + received >= 2 * Buffer
    /\ pc' = "crashed"
    /\ UNCHANGED <<connection, fields, callbacks, received_filelen, with_header, returned>>

(* recv fails in that loop, or the server has closed the connection before *)
(* the end of the header.                                                  *)
HeaderCut ==
    /\ pc = "header"
    /\ ret_status' \in {"ERROR", "INVALID"}
    /\ Return(-1)
    /\ UNCHANGED <<connection, total_bytes, total_file_bytes, file_len, callbacks,
                   received_filelen, with_header>>

(* The status storeStatus finds: it compares as many characters as the     *)
(* status it knows has.  Where sscanf has matched nothing, it compares     *)
(* what the bytes of status_str happen to be.                              *)
StatusRead ==
    CASE response.form \in {"OK", "OKAY", "loose"} -> {"OK"}
      [] response.form \in {"ERROR", "ERRORS"} -> {"ERROR"}
      [] response.form = "garbage" -> Status
      [] OTHER -> {response.form}

(* The number sscanf has read, or the 0 that was there.                    *)
LengthRead ==
    IF response.form \in Announced THEN {response.length} ELSE 0 .. response.length

(* storeStatus finds none of the three statuses it knows.                  *)
ParseInvalid ==
    /\ pc = "parse" /\ "INVALID" \in StatusRead
    /\ ret_status' = "INVALID"
    /\ received_filelen' \in LengthRead
    /\ Return(-1)
    /\ UNCHANGED <<connection, total_bytes, total_file_bytes, file_len, callbacks, with_header>>

(* FILE_NOT_FOUND or ERROR: the header goes to headerfunc, and nothing to  *)
(* writefunc; gfc_perform returns 0.                                       *)
ParseRefusal ==
    /\ pc = "parse"
    /\ ret_status' \in StatusRead \ {"OK", "INVALID"}
    /\ received_filelen' \in LengthRead /\ file_len' = received_filelen'
    /\ headers' = headers + 1
    /\ sockfd' = "closed"
    /\ Return(0)
    /\ UNCHANGED <<response, bytes_sent, taken, total_bytes, total_file_bytes,
                   delivered, with_header>>

(* The header is printed again, to know its length: without a length field *)
(* when the length is 0.  That of another layout prints as anything.       *)
PrintedLen ==
    IF response.form \notin Announced THEN Printed
    ELSE IF response.length = 0 THEN {HeaderLen - LengthLen} ELSE {HeaderLen}

(* What goes to writefunc, from file_pointer + 4.  sscanf has moved        *)
(* file_pointer past the end marker, and past white space at the beginning *)
(* of the body; Skip bytes more are left out.  strcat has kept nothing of  *)
(* what was received behind a zero byte.  Where sscanf has not come to the *)
(* end of its format file_pointer is unset, and these are bytes from       *)
(* anywhere (0).                                                           *)
FirstChunk(file_byte) ==
    LET leftOut == Skip + Smaller(response.blanks, with_header)
        kept == IF response.zero \in 1 .. with_header THEN response.zero ELSE with_header
    IN  [i \in 1 .. file_byte |->
             IF response.form \in Announced /\ i + leftOut <= kept THEN i + leftOut ELSE 0]

(* OK: the header goes to headerfunc; what has been received beyond the    *)
(* printed header counts as body, and is handed to writefunc.  After a     *)
(* header of another layout the difference may be any number, also below   *)
(* 0, and then nothing is handed on.                                       *)
ParseOk ==
    /\ pc = "parse" /\ "OK" \in StatusRead
    /\ ret_status' = "OK"
    /\ received_filelen' \in LengthRead /\ file_len' = received_filelen'
    /\ headers' = headers + 1
    /\ \E printed \in PrintedLen :
           /\ total_file_bytes' = total_bytes - printed
           /\ delivered' = FirstChunk(total_bytes - printed)
    /\ pc' = "body"
    /\ UNCHANGED <<connection, total_bytes, with_header, returned>>

(* With file_pointer unset, or a status longer than its array, reading the *)
(* bytes may also end the process.                                         *)
ParseCrashes ==
    /\ pc = "parse" /\ response.form \in {"loose", "garbage"}
    /\ pc' = "crashed"
    /\ UNCHANGED <<connection, fields, callbacks, received_filelen, with_header, returned>>

-----------------------------------------------------------------------------
(* The condition of the loop.  file_len is unsigned, so that a negative    *)
(* total_file_bytes is taken for a large number.                           *)
BodyIncomplete == 0 <= total_file_bytes /\ total_file_bytes < file_len

(* Mutant: the whole buffer is handed on, not only the bytes received.     *)
RecvBodyWholeBuffer ==
    /\ pc = "body" /\ BodyIncomplete
    /\ \E bytes_received \in Received(Buffer) :
           /\ taken' = taken + bytes_received
           /\ total_bytes' = total_bytes + bytes_received
           /\ total_file_bytes' = total_file_bytes + bytes_received
           /\ delivered' = delivered \o
                  [i \in 1 .. Buffer |-> IF i <= bytes_received
                                         THEN taken - HeaderLen + i ELSE 0]
    /\ UNCHANGED <<response, sockfd, bytes_sent, file_len, ret_status, headers,
                   pc, received_filelen, with_header, returned>>

(* The loop that receives the rest of the body.                            *)
RecvBody ==
    /\ pc = "body" /\ BodyIncomplete
    /\ \E bytes_received \in Received(Buffer) :
           /\ taken' = taken + bytes_received
           /\ total_bytes' = total_bytes + bytes_received
           /\ total_file_bytes' = total_file_bytes + bytes_received
           /\ delivered' = delivered \o
                  [i \in 1 .. bytes_received |-> taken - HeaderLen + i]
    /\ UNCHANGED <<response, sockfd, bytes_sent, file_len, ret_status, headers,
                   pc, received_filelen, with_header, returned>>

(* Mutant: the end of the connection ends the loop, and nothing else.      *)
BodyCutUnnoticed ==
    /\ pc = "body" /\ BodyIncomplete
    /\ sockfd' = "closed"
    /\ Return(0)
    /\ UNCHANGED <<response, bytes_sent, taken, fields, callbacks,
                   received_filelen, with_header>>

(* Mutant: that connection is left open.                                   *)
BodyCutUnclosed ==
    /\ pc = "body" /\ BodyIncomplete
    /\ Return(-1)
    /\ UNCHANGED <<connection, fields, callbacks, received_filelen, with_header>>

(* recv fails in that loop, or the server has closed the connection.       *)
BodyCut ==
    /\ pc = "body" /\ BodyIncomplete
    /\ sockfd' = "closed"
    /\ Return(-1)
    /\ UNCHANGED <<response, bytes_sent, taken, fields, callbacks,
                   received_filelen, with_header>>

Finish ==
    /\ pc = "body" /\ ~BodyIncomplete
    /\ sockfd' = "closed"
    /\ Return(0)
    /\ UNCHANGED <<response, bytes_sent, taken, fields, callbacks,
                   received_filelen, with_header>>

Done == pc \in {"returned", "exited", "crashed"} /\ UNCHANGED vars

AllTaken == response # NoResponse /\ Available = 0

Progress ==
    \/ Connect \/ SendRequest \/ RecvHeader
    \/ ParseInvalid \/ ParseRefusal \/ ParseOk
    \/ RecvBody \/ Finish

(* The connection cannot be made, or it breaks.                            *)
Failure == ConnectFails \/ SendFails \/ SendKills \/ HeaderCut \/ BodyCut

(* Memory is overrun.                                                      *)
Crash == HeaderOverrun \/ ParseCrashes

Next == Progress \/ Failure \/ Crash \/ (\E r \in Response : Answer(r)) \/ Done

Spec == Init /\ [][Next]_vars

-----------------------------------------------------------------------------
(* Every variable stays in its type.                                       *)
TypeOK ==
    /\ response \in Response \union {NoResponse}
    /\ pc \in {"connect", "send", "header", "parse", "body", "returned", "exited",
               "crashed"}
    /\ sockfd \in {"none", "open", "closed"}
    /\ bytes_sent \in 0 .. RequestLen
    /\ taken \in 0 .. HeaderLen + response.body
    /\ total_bytes \in Nat /\ total_file_bytes \in Int
    /\ file_len \in Nat /\ received_filelen \in Nat
    /\ ret_status \in Status
    /\ with_header \in Nat
    /\ headers \in Nat
    /\ delivered \in Seq(Nat)
    /\ returned \in {0, -1}

(* gfclient.h on gfc_perform: it returns 0 if the communication was        *)
(* successful, a refusal included, and a negative number if the connection *)
(* was cut before the transfer was complete or the header is not valid.    *)
(* The code keeps to that with these exceptions: a status that only begins *)
(* like one counts as that one; bytes beyond the announced length do not   *)
(* count against the transfer; and for a header that does not begin with   *)
(* GETFILE, or is an OK header of another layout, it may return either.    *)
ReturnContract ==
    pc = "returned" /\ response.form \notin {"loose", "garbage"} =>
        (returned = 0 <=>
            \/ /\ response.form \in Announced /\ ret_status = "OK"
               /\ taken >= HeaderLen + response.length
            \/ /\ response.form \in {"FILE_NOT_FOUND", "ERROR", "ERRORS"}
               /\ StatusRead = {ret_status} /\ taken >= HeaderLen)

(* gfclient.h on gfc_get_bytesreceived and on gfc_set_writefunc.  Of every *)
(* response, the bytes that arrive after the header are handed on last,    *)
(* once and in order, and as many bytes are counted as are handed on - but *)
(* where the printed header is longer than what was received, less than 0  *)
(* are counted.  When a header of the standard layout announces a body,    *)
(* these are as many as have arrived.                                      *)
BytesHandedOn ==
    /\ Len(delivered) = IF total_file_bytes < 0 THEN 0 ELSE total_file_bytes
    /\ response.form \in Announced /\ file_len # 0 => total_file_bytes = taken - HeaderLen
    /\ \A i \in with_header + 1 .. taken - HeaderLen :
           delivered[Len(delivered) - (taken - HeaderLen) + i] = i

(* gfclient.h on gfc_set_writefunc: what it receives is the body.          *)
BodyIntact == \A i \in 1 .. Len(delivered) : delivered[i] = i
=============================================================================
