-------------------------------- MODULE Echo --------------------------------
(***************************************************************************)
(* The echo programs: a server (echo_both_v4_v6/echoserver.c) that serves  *)
(* one connection after the other with one buffer, and clients             *)
(* (echo_both_v4_v6/echoclient.c) that each send a message and print what  *)
(* comes back.  Each side calls recv once and send once, and looks at the  *)
(* result of neither.                                                      *)
(***************************************************************************)
EXTENDS Integers, Sequences, SequencesExt

CONSTANTS
    Client,
    Length,          \* the lengths messages may have
    BUFSIZE

ASSUME EchoAssumption == Length \subseteq Nat /\ BUFSIZE \in Nat \ {0}

(* A byte of a client's message, the byte zero, and one that was in memory *)
(* nobody has written.                                                     *)
Own(c, i) == [from |-> c, at |-> i]
Zero == [from |-> "zero", at |-> 0]
Junk == [from |-> "junk", at |-> 0]
Byte == {Own(c, i) : c \in Client, i \in 1 .. BUFSIZE} \union {Zero, Junk}

VARIABLES
    spc,        \* where the server is
    buf,        \* its buffer
    served,     \* the clients it has accepted, in order
    length,     \* per client: of its message
    cpc,        \* where the client is
    sent,       \* how much of its message it has sent
    reply,      \* what the server has sent it
    printed,    \* what it has printed
    short       \* whether some call has transferred less than it was given
                \* or had room for, or has failed

server == <<spc, buf, served>>
vars == <<server, length, cpc, sent, reply, printed, short>>

Message(c) == [i \in 1 .. length[c] |-> Own(c, i)]
Smaller(m, n) == IF m < n THEN m ELSE n

Init ==
    /\ spc = "listen" /\ buf = [i \in 1 .. BUFSIZE |-> Junk] /\ served = << >>
    /\ length \in [Client -> Length]
    /\ cpc = [c \in Client |-> "connect"]
    /\ sent = [c \in Client |-> 0]
    /\ reply = [c \in Client |-> << >>]
    /\ printed = [c \in Client |-> << >>]
    /\ short = [c \in Client |-> FALSE]

-----------------------------------------------------------------------------
(* bind, and listen.                                                       *)
Listen ==
    /\ spc = "listen" /\ spc' = "accept"
    /\ UNCHANGED <<buf, served, length, cpc, sent, reply, printed, short>>

(* No address can be bound, or an error before: the process ends, or it    *)
(* calls accept on no socket for ever.  Nobody can connect either way.     *)
ListenFails ==
    /\ spc = "listen" /\ spc' = "deaf"
    /\ UNCHANGED <<buf, served, length, cpc, sent, reply, printed, short>>

current == served[Len(served)]

(* accept; that it may fail and be called again changes nothing.           *)
Accept ==
    /\ spc = "accept" /\ spc' = "recv"
    /\ \E c \in Client \ ToSet(served) :
           cpc[c] \notin {"connect", "exited"} /\ served' = Append(served, c)
    /\ UNCHANGED <<buf, length, cpc, sent, reply, printed, short>>

RecvAtLeast(least) ==
    /\ spc = "recv" /\ spc' = "send"
    /\ \E n \in least .. Smaller(sent[current], BUFSIZE) :
           /\ buf' = [i \in 1 .. BUFSIZE |-> IF i <= n THEN Own(current, i) ELSE buf[i]]
           /\ short' = [short EXCEPT ![current] = @ \/ n < Smaller(length[current], BUFSIZE)]
    /\ UNCHANGED <<served, length, cpc, sent, reply, printed>>

(* Mutant: recv waits for a whole buffer.                                  *)
RecvAll == RecvAtLeast(BUFSIZE)

(* recv puts some of what the client has sent into the buffer.             *)
Recv == RecvAtLeast(1)

(* recv fails, or the client has closed its end without a byte: the buffer *)
(* is sent as it is.                                                       *)
RecvNothing ==
    /\ spc = "recv" /\ spc' = "send"
    /\ short' = [short EXCEPT ![current] = TRUE]
    /\ UNCHANGED <<buf, served, length, cpc, sent, reply, printed>>

(* The whole buffer is sent, however long the message was: send takes n    *)
(* bytes of it, none if it fails.                                          *)
Send(n) ==
    /\ spc = "send" /\ spc' = "clear"
    /\ reply' = [reply EXCEPT ![current] = SubSeq(buf, 1, n)]
    /\ short' = [short EXCEPT ![current] = @ \/ n < BUFSIZE]
    /\ UNCHANGED <<buf, served, length, cpc, sent, printed>>

HasLeft(c) == cpc[c] \in {"done", "killed"}

(* The connection was reset, and the signal SIGPIPE ends the server.       *)
SendKills ==
    /\ spc = "send" /\ HasLeft(current)
    /\ spc' = "deaf"
    /\ UNCHANGED <<buf, served, length, cpc, sent, reply, printed, short>>

(* Mutant: the buffer is not cleared.                                      *)
CloseUncleared ==
    /\ spc = "clear" /\ spc' = "accept"
    /\ UNCHANGED <<buf, served, length, cpc, sent, reply, printed, short>>

(* memset and close.                                                       *)
ClearAndClose ==
    /\ spc = "clear" /\ spc' = "accept"
    /\ buf' = [i \in 1 .. BUFSIZE |-> Zero]
    /\ UNCHANGED <<served, length, cpc, sent, reply, printed, short>>

-----------------------------------------------------------------------------
(* The client.  Connections wait until they are accepted.                  *)
Connect(c) ==
    /\ cpc[c] = "connect" /\ spc \notin {"listen", "deaf"}
    /\ cpc' = [cpc EXCEPT ![c] = "send"]
    /\ UNCHANGED <<server, length, sent, reply, printed, short>>

ConnectFails(c) ==
    /\ cpc[c] = "connect" /\ spc \in {"listen", "deaf"}
    /\ cpc' = [cpc EXCEPT ![c] = "exited"]
    /\ UNCHANGED <<server, length, sent, reply, printed, short>>

(* send takes some of the message, or fails.  An empty message is nothing  *)
(* to send.                                                                *)
SendMessage(c, n) ==
    /\ cpc[c] = "send"
    /\ sent' = [sent EXCEPT ![c] = n]
    /\ short' = [short EXCEPT ![c] = @ \/ n < length[c]]
    /\ cpc' = [cpc EXCEPT ![c] = "recv"]
    /\ UNCHANGED <<server, length, reply, printed>>

(* The connection is closed as far as the client can see.                  *)
Closed(c) == spc = "deaf" \/ (c \in ToSet(served) /\ (c # current \/ spc = "accept"))

(* What printf finds in the client's buffer when n bytes have been         *)
(* received: a string that ends with the first zero byte, or goes on to    *)
(* what was in memory.                                                     *)
StringOf(bytes) ==
    LET zeros == {i \in 1 .. Len(bytes) : bytes[i] = Zero}
    IN  IF zeros = {} THEN Append(bytes, Junk)
        ELSE SubSeq(bytes, 1, (CHOOSE i \in zeros : \A j \in zeros : i <= j) - 1)

PrintReply(c, n) ==
    /\ printed' = [printed EXCEPT ![c] = StringOf(SubSeq(reply[c], 1, n))]
    /\ short' = [short EXCEPT ![c] = @ \/ n = 0 \/ n < Len(reply[c])]
    /\ cpc' = [cpc EXCEPT ![c] = "done"]
    /\ UNCHANGED <<server, length, sent, reply>>

RecvReply(c) ==
    /\ cpc[c] = "recv"
    /\ \E n \in 1 .. Len(reply[c]) : PrintReply(c, n)

(* The connection has ended without a byte, or with a reset because the    *)
(* server has not read all of the message.                                 *)
RecvNoReply(c) == cpc[c] = "recv" /\ Closed(c) /\ PrintReply(c, 0)

(* recv fails.                                                             *)
RecvFails(c) == cpc[c] = "recv" /\ PrintReply(c, 0)

Killed(c) ==
    /\ cpc[c] \in {"send", "recv"}
    /\ cpc' = [cpc EXCEPT ![c] = "killed"]
    /\ UNCHANGED <<server, length, sent, reply, printed, short>>

ServerStep ==
    \/ Listen \/ Accept \/ Recv \/ ClearAndClose
    \/ \E n \in 1 .. BUFSIZE : Send(n)

ClientStep(c) ==
    \/ Connect(c) \/ ConnectFails(c)
    \/ \E n \in Smaller(1, length[c]) .. length[c] : SendMessage(c, n)
    \/ RecvReply(c) \/ RecvNoReply(c)

Failure ==
    \/ ListenFails \/ RecvNothing \/ Send(0) \/ SendKills
    \/ \E c \in Client : SendMessage(c, 0) \/ RecvFails(c) \/ Killed(c)

Next == ServerStep \/ Failure \/ \E c \in Client : ClientStep(c)

Spec ==
    /\ Init /\ [][Next]_vars
    /\ WF_vars(ServerStep \/ (RecvNothing /\ HasLeft(current) /\ sent[current] = 0))
    /\ \A c \in Client : WF_vars(ClientStep(c))

-----------------------------------------------------------------------------
(* No client is sent another client's bytes, although all are served from  *)
(* one buffer, messages are longer or shorter than it, and any call may    *)
(* fail: the buffer is cleared after each.  The first client served may    *)
(* get what was in memory before.                                          *)
OwnBytesOnly ==
    \A c \in Client : \A b \in ToSet(reply[c]) :
        b.from \in {c, "zero"} \/ (b = Junk /\ c = served[1])

(* What a client prints begins with its message, as far as the buffer      *)
(* holds it, unless a call has failed or transferred less than it could:   *)
(* of a message longer than the buffer, the first BUFSIZE bytes.  It       *)
(* prints more, out of its own memory, when no zero byte came back: the    *)
(* message fills the buffer, or it was the first.                          *)
EchoIsMessage ==
    \A c \in Client : cpc[c] = "done" /\ ~short[c] =>
        /\ IsPrefix(SubSeq(Message(c), 1, Smaller(length[c], BUFSIZE)), printed[c])
        /\ length[c] < BUFSIZE /\ c # served[1] => printed[c] = Message(c)

(* Every client comes to its end, also when the server cannot listen or is *)
(* killed, unless the client that is served has sent nothing (its message  *)
(* is empty, or its send has failed) and waits in recv for the server,     *)
(* which waits in recv for it.                                             *)
BothWait == spc = "recv" /\ cpc[current] = "recv" /\ sent[current] = 0
EveryClientEnds ==
    \A c \in Client : <>(cpc[c] \in {"done", "killed", "exited"} \/ BothWait)
=============================================================================
