------------------------------ MODULE Transfer ------------------------------
(***************************************************************************)
(* The transfer programs (transfer_test/transferserver.c and               *)
(* transferclient.c): the server accepts one client after the other, sends *)
(* it the file and closes the connection; the client receives until the    *)
(* connection is closed.                                                   *)
(*                                                                         *)
(* The bytes of the file are its positions 1 .. FileLen.                   *)
(***************************************************************************)
EXTENDS Integers, Sequences, FiniteSets

CONSTANTS
    Client,
    FileLen,      \* length of the file
    Buffer,       \* BUFSIZE of the server
    MaxFiles,     \* how many files a process may have open
    Fault,        \* what may go wrong: "client": a client is killed; "open",
                  \* "read", "send": fopen, fread or send of the server fails,
                  \* whatever the cause; "recv": recv of a client fails
    None          \* no connection

ASSUME TransferAssumption ==
    /\ FileLen \in Nat /\ Buffer \in Nat \ {0} /\ MaxFiles \in Nat
    /\ None \notin Client /\ Fault \subseteq {"client", "open", "read", "send", "recv"}

VARIABLES
    pc,           \* the server: "accept", "open", "read", "send", "close" or "exited"
    new_fd,       \* the client it serves
    files,        \* the files it has open
    at,           \* its position in the file
    eof,          \* feof
    data,         \* what it has read
    sent_total,   \* how much of that is sent
    client,       \* per client: where it is
    stream,       \* per client: all bytes the server has sent to it
    got,          \* per client: how many of them it has written to its file
    socket        \* per client: its connection is "pending", "accepted" or "closed"

serving == <<new_fd, files, at, eof, data, sent_total>>
clients == <<client, got>>
connection == <<stream, socket>>
vars == <<pc, serving, clients, connection>>

Init ==
    /\ pc = "accept" /\ new_fd = None /\ files = 0
    /\ at = 0 /\ eof = FALSE /\ data = << >> /\ sent_total = 0
    /\ client = [c \in Client |-> "start"]
    /\ got = [c \in Client |-> 0]
    /\ stream = [c \in Client |-> << >>]
    /\ socket = [c \in Client |-> "pending"]

-----------------------------------------------------------------------------
(* The server's main: accept.                                              *)
Accept ==
    /\ pc = "accept"
    /\ \E c \in Client :
           /\ client[c] \in {"connected", "killed", "cut"} /\ socket[c] = "pending"
           /\ new_fd' = c
           /\ socket' = [socket EXCEPT ![c] = "accepted"]
    /\ pc' = "open"
    /\ UNCHANGED <<files, at, eof, data, sent_total, clients, stream>>

(* send_file: fopen.  The file is never closed again.                      *)
Open ==
    /\ pc = "open" /\ files < MaxFiles
    /\ files' = files + 1
    /\ at' = 0 /\ eof' = FALSE
    /\ pc' = "read"
    /\ UNCHANGED <<new_fd, data, sent_total, clients, connection>>

(* Mutant: a client whose file cannot be opened is sent nothing.            *)
OpenFailsReturning ==
    /\ pc = "open" /\ (files = MaxFiles \/ "open" \in Fault)
    /\ pc' = "close"
    /\ UNCHANGED <<serving, clients, connection>>

(* fopen fails and the server ends: the process has no descriptor left, or *)
(* the file is missing or cannot be read.                                  *)
OpenFails ==
    /\ pc = "open" /\ (files = MaxFiles \/ "open" \in Fault)
    /\ pc' = "exited"
    /\ UNCHANGED <<serving, clients, connection>>

(* The loop until feof: fread fills the buffer or meets the end.           *)
Read ==
    /\ pc = "read" /\ ~eof
    /\ LET size == IF FileLen - at < Buffer THEN FileLen - at ELSE Buffer
       IN  /\ data' = [i \in 1 .. size |-> at + i]
           /\ at' = at + size
           /\ eof' = (size < Buffer)
    /\ sent_total' = 0
    /\ pc' = "send"
    /\ UNCHANGED <<new_fd, files, clients, connection>>

(* fread fails: it returns 0, but feof is not set, and the loop goes on.   *)
ReadFails ==
    /\ pc = "read" /\ ~eof /\ "read" \in Fault
    /\ UNCHANGED vars

(* Mutant: a short send is taken for a whole one.                          *)
SendOnce ==
    /\ pc = "send" /\ sent_total < Len(data)
    /\ \E sent_now \in 1 .. Len(data) - sent_total :
           /\ sent_total' = Len(data)
           /\ stream' = [stream EXCEPT ![new_fd] =
                  @ \o SubSeq(data, sent_total + 1, sent_total + sent_now)]
    /\ UNCHANGED <<pc, new_fd, files, at, eof, data, clients, socket>>

(* The inner loop: send takes some of the rest of the buffer.              *)
Send ==
    /\ pc = "send" /\ sent_total < Len(data)
    /\ \E sent_now \in 1 .. Len(data) - sent_total :
           /\ sent_total' = sent_total + sent_now
           /\ stream' = [stream EXCEPT ![new_fd] =
                  @ \o SubSeq(data, sent_total + 1, sent_total + sent_now)]
    /\ UNCHANGED <<pc, new_fd, files, at, eof, data, clients, socket>>

(* send fails, and the server ends: because the client is gone (then it    *)
(* may be the signal of the send that ends it), or for any other cause.    *)
SendFails ==
    /\ pc = "send" /\ sent_total < Len(data)
    /\ client[new_fd] \in {"killed", "cut"} \/ "send" \in Fault
    /\ pc' = "exited"
    /\ UNCHANGED <<serving, clients, connection>>

SendDone ==
    /\ pc = "send" /\ sent_total = Len(data)
    /\ pc' = IF eof THEN "close" ELSE "read"
    /\ UNCHANGED <<serving, clients, connection>>

(* Mutant: the connection is forgotten, not closed.                        *)
ForgetConnection ==
    /\ pc = "close"
    /\ new_fd' = None /\ pc' = "accept"
    /\ UNCHANGED <<files, at, eof, data, sent_total, clients, connection>>

Close ==
    /\ pc = "close"
    /\ socket' = [socket EXCEPT ![new_fd] = "closed"]
    /\ new_fd' = None /\ pc' = "accept"
    /\ UNCHANGED <<files, at, eof, data, sent_total, clients, stream>>

-----------------------------------------------------------------------------
(* The client's main: getaddrinfo, socket and connect, any of which may    *)
(* fail; connect does when there is no server any more.                    *)
Connect(c) ==
    /\ client[c] = "start"
    /\ \E s \in {"failed", "connected"} :
           /\ s = "connected" => pc # "exited"
           /\ client' = [client EXCEPT ![c] = s]
    /\ UNCHANGED <<pc, serving, got, connection>>

(* write_file: recv returns some of what has arrived.                      *)
Receive(c) ==
    /\ client[c] = "connected"
    /\ \E n \in 1 .. Len(stream[c]) - got[c] : got' = [got EXCEPT ![c] = @ + n]
    /\ UNCHANGED <<pc, serving, client, connection>>

(* Mutant: the client does not wait for the end of the connection.         *)
FinishEarly(c) ==
    /\ client[c] = "connected" /\ got[c] = Len(stream[c]) /\ got[c] > 0
    /\ client' = [client EXCEPT ![c] = "done"]
    /\ UNCHANGED <<pc, serving, got, connection>>

(* recv returns 0: all has been received, and the connection was closed by *)
(* the server or by its end.                                               *)
Finish(c) ==
    /\ client[c] = "connected" /\ got[c] = Len(stream[c])
    /\ socket[c] = "closed" \/ pc = "exited"
    /\ client' = [client EXCEPT ![c] = "done"]
    /\ UNCHANGED <<pc, serving, got, connection>>

(* recv fails (n < 0): the loop ends as if all had been received.  Only    *)
(* the model tells "cut" from "done"; the program does not.                *)
RecvFails(c) ==
    /\ client[c] = "connected" /\ "recv" \in Fault
    /\ client' = [client EXCEPT ![c] = "cut"]
    /\ UNCHANGED <<pc, serving, got, connection>>

Killed(c) ==
    /\ client[c] = "connected" /\ "client" \in Fault
    /\ client' = [client EXCEPT ![c] = "killed"]
    /\ UNCHANGED <<pc, serving, got, connection>>

(* Nobody connects any more, or the server has ended.                      *)
Idle ==
    /\ pc \in {"accept", "exited"}
    /\ \A c \in Client : client[c] \in {"done", "cut", "failed", "killed"}
    /\ UNCHANGED vars

ServerStep ==
    \/ Accept \/ Open \/ OpenFails \/ Read \/ ReadFails
    \/ Send \/ SendFails \/ SendDone \/ Close
ClientStep(c) == Receive(c) \/ Finish(c)

Next ==
    \/ ServerStep
    \/ \E c \in Client : Connect(c) \/ ClientStep(c) \/ RecvFails(c) \/ Killed(c)
    \/ Idle

Spec == Init /\ [][Next]_vars

(* The server runs, and so does a client once it is started; the kernel    *)
(* delivers what is sent; and fread does not fail for ever (as it would on *)
(* a directory, where feof never becomes true and the server calls fread   *)
(* without end).                                                           *)
FairSpec == Spec /\ WF_vars(ServerStep) /\ \A c \in Client : WF_vars(ClientStep(c))

-----------------------------------------------------------------------------
(* Every variable stays in its type.                                       *)
TypeOK ==
    /\ pc \in {"accept", "open", "read", "send", "close", "exited"}
    /\ new_fd \in Client \union {None}
    /\ files \in 0 .. MaxFiles /\ at \in 0 .. FileLen /\ eof \in BOOLEAN
    /\ data \in Seq(1 .. FileLen) /\ sent_total \in 0 .. Len(data)
    /\ client \in [Client -> {"start", "connected", "done", "cut", "failed", "killed"}]
    /\ got \in [Client -> 0 .. FileLen]
    /\ stream \in [Client -> Seq(1 .. FileLen)]
    /\ socket \in [Client -> {"pending", "accepted", "closed"}]

(* What a client receives is the file from its beginning, whatever send    *)
(* and recv make of the boundaries, and however many came before it; and a *)
(* client whose recv returns 0 has all of it, unless the server ended      *)
(* before it closed the connection.  The client's own comment ("file is    *)
(* fully received") is about every n <= 0, which is more than holds: it    *)
(* also ends, with a beginning of the file, when recv fails ("cut").       *)
EndIsEndOfFile ==
    /\ TypeOK
    /\ \A c \in Client :
           /\ \A i \in 1 .. Len(stream[c]) : stream[c][i] = i
           /\ client[c] = "done" =>
                  got[c] = FileLen \/ (pc = "exited" /\ socket[c] # "closed")

(* Every client that connects is served to the end, however send and recv  *)
(* cut up the file, as long as it is not killed, its recv does not fail    *)
(* and the server runs.                                                    *)
EveryClientIsServed ==
    \A c \in Client :
        client[c] = "connected" ~> client[c] \in {"done", "cut", "killed"} \/ pc = "exited"

(* The server forgets no client half way.  Each one it has closed has had  *)
(* the whole file and has cost it a descriptor for good, so that it closes *)
(* at most MaxFiles of them; and whatever ends it, at whatever moment,     *)
(* only the client it was sending to is left with a part of the file.      *)
ServedInTurn ==
    LET served == {c \in Client : socket[c] = "closed"} IN
    /\ \/ pc \in {"accept", "open", "exited"} /\ files = Cardinality(served)
       \/ pc \in {"read", "send", "close", "exited"} /\ files = Cardinality(served) + 1
    /\ Cardinality(served) <= MaxFiles
    /\ \A c \in Client : Len(stream[c]) \in {0, FileLen} \/ c = new_fd
    /\ \A c \in served : Len(stream[c]) = FileLen

=============================================================================
