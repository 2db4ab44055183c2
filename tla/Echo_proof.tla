----------------------------- MODULE Echo_proof -----------------------------
(***************************************************************************)
(* What the echo programs do with the one buffer of the server, for every  *)
(* set of clients, every length of their messages and every BUFSIZE.       *)
(*                                                                         *)
(* The argument: between two connections the buffer holds zeros, or what   *)
(* was in memory if there has been no connection yet (BufferInv); recv     *)
(* puts a beginning of one message over that; and send copies it to the    *)
(* client that message is of (ReplyInv), who is served once (ServedInv).   *)
(***************************************************************************)
EXTENDS Echo, SequenceTheorems, TLAPS

-----------------------------------------------------------------------------
(* The inductive invariant, in parts.                                      *)
TypeOK ==
    /\ spc \in {"listen", "accept", "recv", "send", "clear", "deaf"}
    /\ buf \in [1 .. BUFSIZE -> Byte]
    /\ served \in Seq(Client)
    /\ length \in [Client -> Length]
    /\ cpc \in [Client -> {"connect", "send", "recv", "done", "killed", "exited"}]
    /\ sent \in [Client -> Nat]
    /\ reply \in [Client -> Seq(Byte)]
    /\ printed = [c \in Client |-> printed[c]]
    /\ short \in [Client -> BOOLEAN]

(* A client is served once, and the server that serves has somebody to.    *)
ServedInv ==
    /\ \A i, j \in 1 .. Len(served) : served[i] = served[j] => i = j
    /\ spc = "listen" => Len(served) = 0
    /\ spc \in {"recv", "send", "clear"} => Len(served) > 0

(* A buffer with the first n bytes of c's message, and beyond them what    *)
(* the buffer held when c was accepted.                                    *)
Holds(bytes, c, n) ==
    \A i \in 1 .. BUFSIZE :
        bytes[i] = IF i <= n THEN Own(c, i)
                   ELSE IF c = served[1] THEN Junk ELSE Zero

(* How much of c's message the buffer can hold.                            *)
Held(c) == Smaller(length[c], BUFSIZE)

BufferInv ==
    /\ spc \in {"listen", "accept"} =>
           \A i \in 1 .. BUFSIZE : buf[i] = IF Len(served) = 0 THEN Junk ELSE Zero
    /\ spc = "recv" => Holds(buf, current, 0)
    /\ spc = "send" =>
           \E n \in 0 .. BUFSIZE : /\ n <= length[current]
                                   /\ Holds(buf, current, n)
                                   /\ ~short[current] => n = Held(current)

(* Replies go to clients that have been served; one that is whole, of a    *)
(* message that came whole, is the buffer with that message.               *)
ReplyInv ==
    /\ \A c \in Client :
           /\ Len(reply[c]) > 0 => c \in ToSet(served)
           /\ Len(reply[c]) > 0 /\ ~short[c] =>
                  Len(reply[c]) = BUFSIZE /\ Holds(reply[c], c, Held(c))
    /\ spc \in {"recv", "send"} => Len(reply[current]) = 0

(* A client sends no more than its message, and prints what it was sent.   *)
ClientInv ==
    \A c \in Client :
        /\ sent[c] <= length[c]
        /\ cpc[c] = "done" /\ ~short[c] =>
               Len(reply[c]) > 0 /\ printed[c] = StringOf(reply[c])

IInv == TypeOK /\ ServedInv /\ BufferInv /\ ReplyInv /\ ClientInv /\ OwnBytesOnly

-----------------------------------------------------------------------------
(* Bytes: what a message is of differs from what fills the rest.           *)
LEMMA ByteFacts ==
    /\ \A c : \A i \in Nat : i > 0 => Own(c, i) # Zero /\ Own(c, i).from = c
    /\ Zero # Junk /\ Zero.from = "zero"
    /\ \A c \in Client : \A i \in 1 .. BUFSIZE : Own(c, i) \in Byte
    /\ Zero \in Byte /\ Junk \in Byte
BY DEF Own, Zero, Junk, Byte

(* The constants, and the lengths of messages.                             *)
LEMMA ConstantFacts == Length \subseteq Nat /\ BUFSIZE \in Nat /\ BUFSIZE > 0
BY EchoAssumption

(* The client that is served is one of the clients served.                 *)
LEMMA CurrentServed ==
    ASSUME TypeOK, ServedInv, spc \in {"recv", "send", "clear"}
    PROVE  /\ current \in Client /\ current \in ToSet(served)
           /\ Len(served) \in Nat /\ Len(served) > 0
           /\ current = served[1] <=> Len(served) = 1
<1>1. /\ Len(served) \in Nat /\ Len(served) > 0 /\ DOMAIN served = 1 .. Len(served)
      /\ \A i \in 1 .. Len(served) : served[i] \in Client
  BY DEF TypeOK, ServedInv
<1>2. /\ Len(served) \in 1 .. Len(served) /\ 1 \in 1 .. Len(served)
  BY <1>1
<1>3. current = served[1] <=> Len(served) = 1
  BY <1>1, <1>2 DEF ServedInv, current
<1> QED
  BY <1>1, <1>2, <1>3 DEF current, ToSet

LEMMA InitIInv == Init => IInv
<1>. SUFFICES ASSUME Init PROVE IInv
  OBVIOUS
<1>1. TypeOK
  BY ConstantFacts, ByteFacts, EmptySeq DEF Init, TypeOK
<1>2. Len(served) = 0 /\ \A c \in Client : Len(reply[c]) = 0 /\ reply[c] = << >>
  BY DEF Init
<1>3. ServedInv
  BY <1>2 DEF ServedInv, Init
<1>4. BufferInv
  BY <1>2 DEF BufferInv, Init
<1>5. ReplyInv
  BY <1>2 DEF ReplyInv, Init
<1>6. ClientInv
  <2>1. \A c \in Client : /\ length[c] \in Nat /\ sent[c] = 0
                           /\ cpc[c] = "connect"
    BY ConstantFacts DEF Init
  <2> QED
    BY <2>1 DEF ClientInv
<1>7. OwnBytesOnly
  BY <1>2 DEF OwnBytesOnly, ToSet
<1> QED
  BY <1>1, <1>3, <1>4, <1>5, <1>6, <1>7 DEF IInv

-----------------------------------------------------------------------------
(* The server.                                                             *)

(* A step of the server alone that neither touches the buffer nor begins   *)
(* to serve a client.                                                      *)
LEMMA ServerMoves ==
    ASSUME IInv, UNCHANGED <<buf, served, length, cpc, sent, reply, printed, short>>,
           \/ spc' = "deaf"
           \/ spc = "listen" /\ spc' = "accept"
    PROVE  IInv'
<1>1. /\ TypeOK /\ ServedInv /\ BufferInv /\ ReplyInv /\ ClientInv /\ OwnBytesOnly
      /\ current' = current
  BY DEF IInv, current
<1>2. TypeOK'
  BY <1>1 DEF TypeOK
<1>3. ServedInv'
  BY <1>1 DEF ServedInv
<1>4. BufferInv'
  BY <1>1 DEF BufferInv
<1>5. ReplyInv' /\ ClientInv' /\ OwnBytesOnly'
  BY <1>1 DEF ReplyInv, ClientInv, OwnBytesOnly, Holds, Held
<1> QED
  BY <1>2, <1>3, <1>4, <1>5 DEF IInv

(* accept takes a client that has not been served: its reply is empty, and *)
(* the buffer is as the last connection, or nobody, has left it.           *)
LEMMA AcceptKeeps == ASSUME IInv, Accept PROVE IInv'
<1>1. TypeOK /\ ServedInv /\ BufferInv /\ ReplyInv /\ ClientInv /\ OwnBytesOnly
  BY DEF IInv
<1>2. PICK c \in Client \ ToSet(served) : served' = Append(served, c)
  BY DEF Accept
<1>. DEFINE n == Len(served)
<1>3. n \in Nat /\ DOMAIN served = 1 .. n
  BY <1>1 DEF TypeOK
<1>4. /\ served' \in Seq(Client) /\ Len(served') = n + 1
      /\ \A i \in 1 .. n : served'[i] = served[i]
      /\ served'[n + 1] = c /\ current' = c
  BY <1>1, <1>2, AppendProperties DEF TypeOK, current
<1>5. \A i \in 1 .. n : served[i] # c
  BY <1>2, <1>3 DEF ToSet
<1>6. ToSet(served) \subseteq ToSet(served')
  BY <1>3, <1>4 DEF ToSet
<1>7. \A d \in ToSet(served) : n > 0 /\ served'[1] = served[1]
  BY <1>3, <1>4 DEF ToSet
<1>. HIDE DEF n
<1>8. /\ spc = "accept" /\ spc' = "recv"
      /\ UNCHANGED <<buf, length, cpc, sent, reply, printed, short>>
  BY DEF Accept
<1>9. TypeOK'
  BY <1>1, <1>4, <1>8 DEF TypeOK
<1>10. ServedInv'
  <2>1. \A i, j \in 1 .. n + 1 : served'[i] = served'[j] => i = j
    BY <1>1, <1>3, <1>4, <1>5 DEF ServedInv, n
  <2> QED
    BY <2>1, <1>3, <1>4, <1>8 DEF ServedInv
<1>11. BufferInv'
  <2>1. c = served'[1] <=> n = 0
    BY <1>3, <1>4, <1>5
  <2>2. \A i \in 1 .. BUFSIZE : buf[i] = IF n = 0 THEN Junk ELSE Zero
    BY <1>1, <1>8 DEF BufferInv, n
  <2>3. \A i \in 1 .. BUFSIZE : ~(i <= 0)
    OBVIOUS
  <2> QED
    BY <2>1, <2>2, <2>3, <1>4, <1>8 DEF BufferInv, Holds
<1>12. ReplyInv'
  <2>1. \A d \in Client : Len(reply[d]) > 0 => d \in ToSet(served)
    BY <1>1 DEF ReplyInv
  <2>2. Len(reply[c]) = 0
    BY <2>1, <1>1, <1>2 DEF TypeOK
  <2>3. ASSUME NEW d \in Client, Len(reply[d]) > 0, ~short[d]
        PROVE  /\ Len(reply[d]) = BUFSIZE
               /\ \A i \in 1 .. BUFSIZE :
                      reply[d][i] = IF i <= Held(d) THEN Own(d, i)
                                    ELSE IF d = served'[1] THEN Junk ELSE Zero
    <3>1. served'[1] = served[1]
      BY <2>1, <2>3, <1>7
    <3> QED
      BY <3>1, <2>3, <1>1 DEF ReplyInv, Holds
  <2> QED
    BY <2>1, <2>2, <2>3, <1>4, <1>6, <1>8 DEF ReplyInv, Holds, Held
<1>13. ClientInv'
  BY <1>1, <1>8 DEF ClientInv
<1>14. OwnBytesOnly'
  <2>1. \A d \in Client : ToSet(reply[d]) # {} => Len(reply[d]) > 0
    BY <1>1 DEF ToSet, TypeOK
  <2> QED
    BY <2>1, <1>1, <1>7, <1>8 DEF OwnBytesOnly, ReplyInv
<1> QED
  BY <1>9, <1>10, <1>11, <1>12, <1>13, <1>14 DEF IInv

(* recv, of at least one byte or of none: the buffer holds the beginning   *)
(* of the message of the client that is served, and all of it if nothing   *)
(* was short.                                                              *)
LEMMA RecvKeeps == ASSUME IInv, Recv \/ RecvNothing PROVE IInv'
<1>1. TypeOK /\ ServedInv /\ BufferInv /\ ReplyInv /\ ClientInv /\ OwnBytesOnly
  BY DEF IInv
<1>2. /\ spc = "recv" /\ spc' = "send"
      /\ UNCHANGED <<served, length, cpc, sent, reply, printed>>
  BY DEF Recv, RecvAtLeast, RecvNothing
<1>3. current \in Client /\ current' = current
  BY <1>1, <1>2, CurrentServed DEF current
<1>4. sent[current] \in Nat /\ length[current] \in Nat /\ sent[current] <= length[current]
  BY <1>1, <1>3, ConstantFacts DEF TypeOK, ClientInv
<1>5. /\ buf' \in [1 .. BUFSIZE -> Byte] /\ short' \in [Client -> BOOLEAN]
      /\ \A c \in Client : short[c] => short'[c]
      /\ \E n \in 0 .. BUFSIZE :
             /\ n <= length[current] /\ Holds(buf', current, n)
             /\ ~short'[current] => n = Held(current)
  <2>1. CASE Recv
    <3>1. PICK n \in 1 .. Smaller(sent[current], BUFSIZE) :
              /\ buf' = [i \in 1 .. BUFSIZE |-> IF i <= n THEN Own(current, i) ELSE buf[i]]
              /\ short' = [short EXCEPT ![current] = @ \/ n < Held(current)]
      BY <2>1 DEF Recv, RecvAtLeast, Held
    <3>2. n \in 0 .. BUFSIZE /\ n <= length[current] /\ n <= Held(current)
      BY <3>1, <1>4, ConstantFacts DEF Smaller, Held
    <3>3. buf' \in [1 .. BUFSIZE -> Byte]
      BY <3>1, <1>1, <1>3, ByteFacts DEF TypeOK
    <3>4. short' \in [Client -> BOOLEAN] /\ \A c \in Client : short[c] => short'[c]
      BY <3>1, <1>1 DEF TypeOK
    <3>5. ~short'[current] => ~(n < Held(current))
      BY <3>1, <1>1, <1>3 DEF TypeOK
    <3>6. Holds(buf', current, n)
      BY <3>1, <3>2, <1>1, <1>2 DEF BufferInv, Holds
    <3> QED
      <4>1. Held(current) \in Nat
        BY <1>4, ConstantFacts DEF Smaller, Held
      <4> QED
        BY <4>1, <3>2, <3>3, <3>4, <3>5, <3>6, <1>4
  <2>2. CASE RecvNothing
    BY <2>2, <1>1, <1>2, <1>3, <1>4, ConstantFacts DEF RecvNothing, TypeOK, BufferInv
  <2> QED
    BY <2>1, <2>2
<1>6. TypeOK'
  BY <1>1, <1>2, <1>5 DEF TypeOK
<1>7. ServedInv'
  BY <1>1, <1>2 DEF ServedInv
<1>8. BufferInv'
  BY <1>2, <1>3, <1>5 DEF BufferInv, Holds, Held
<1>9. ReplyInv'
  BY <1>1, <1>2, <1>3, <1>5 DEF ReplyInv, Holds, Held
<1>10. ClientInv' /\ OwnBytesOnly'
  BY <1>1, <1>2, <1>5 DEF ClientInv, OwnBytesOnly
<1> QED
  BY <1>6, <1>7, <1>8, <1>9, <1>10 DEF IInv

(* send copies a part of the buffer to the client that is served, who had  *)
(* no reply before: all of it, or the call was short.                      *)
LEMMA SendKeeps == ASSUME IInv, NEW n \in 0 .. BUFSIZE, Send(n) PROVE IInv'
<1>1. TypeOK /\ ServedInv /\ BufferInv /\ ReplyInv /\ ClientInv /\ OwnBytesOnly
  BY DEF IInv
<1>2. /\ spc = "send" /\ spc' = "clear"
      /\ reply' = [reply EXCEPT ![current] = SubSeq(buf, 1, n)]
      /\ short' = [short EXCEPT ![current] = @ \/ n < BUFSIZE]
      /\ UNCHANGED <<buf, served, length, cpc, sent, printed>>
  BY DEF Send
<1>. DEFINE c == current
            q == SubSeq(buf, 1, n)
<1>3. c \in Client /\ c \in ToSet(served)
  BY <1>1, <1>2, CurrentServed
<1>4. PICK m \in 0 .. BUFSIZE :
          /\ m <= length[c] /\ Holds(buf, c, m)
          /\ ~short[c] => m = Held(c)
  BY <1>1, <1>2 DEF BufferInv
<1>5. n \in Nat /\ n <= BUFSIZE /\ BUFSIZE \in Nat /\ BUFSIZE > 0
  BY ConstantFacts
<1>6. q \in Seq(Byte) /\ Len(q) = n /\ \A i \in 1 .. n : q[i] = buf[i]
  <2>1. \A i \in 1 .. n : buf[i] \in Byte
    BY <1>1, <1>5 DEF TypeOK
  <2> QED
    BY <2>1, <1>5, SubSeqProperties
<1>7. \A i \in 1 .. n :
          q[i] = IF i <= m THEN Own(c, i) ELSE IF c = served[1] THEN Junk ELSE Zero
  BY <1>4, <1>5, <1>6 DEF Holds
<1>8. reply' = [reply EXCEPT ![c] = q] /\ short' = [short EXCEPT ![c] = @ \/ n < BUFSIZE]
  BY <1>2
<1>9. Len(reply[c]) = 0
  BY <1>1, <1>2 DEF ReplyInv
<1>. HIDE DEF c, q
<1>10. /\ \A d \in Client : d # c => reply'[d] = reply[d] /\ short'[d] = short[d]
       /\ reply'[c] = q
       /\ ~short'[c] => ~short[c] /\ ~(n < BUFSIZE)
       /\ reply' \in [Client -> Seq(Byte)] /\ short' \in [Client -> BOOLEAN]
  BY <1>1, <1>3, <1>6, <1>8 DEF TypeOK
<1>11. TypeOK'
  BY <1>1, <1>2, <1>10 DEF TypeOK
<1>12. ServedInv' /\ BufferInv'
  BY <1>1, <1>2 DEF ServedInv, BufferInv
<1>13. ReplyInv'
  <2>1. ASSUME ~short'[c]
        PROVE  Len(q) = BUFSIZE /\ Holds(q, c, Held(c))
    <3>1. n = BUFSIZE /\ m = Held(c)
      BY <2>1, <1>4, <1>5, <1>10
    <3> QED
      BY <3>1, <1>4, <1>6, <1>7 DEF Holds
  <2> QED
    BY <2>1, <1>1, <1>2, <1>3, <1>10 DEF ReplyInv, Holds, Held
<1>14. ClientInv'
  <2>1. ~(Len(reply[c]) > 0)
    BY <1>9
  <2>2. ASSUME NEW d \in Client, cpc[d] = "done", ~short'[d]
        PROVE  Len(reply'[d]) > 0 /\ printed[d] = StringOf(reply'[d])
    BY <2>1, <2>2, <1>1, <1>3, <1>10 DEF ClientInv
  <2> QED
    BY <2>2, <1>1, <1>2 DEF ClientInv
<1>15. OwnBytesOnly'
  <2>1. ASSUME NEW b \in ToSet(q)
        PROVE  b.from \in {c, "zero"} \/ (b = Junk /\ c = served[1])
    <3>1. PICK i \in 1 .. n : b = q[i]
      BY <2>1, <1>6 DEF ToSet
    <3>2. i \in Nat /\ i > 0
      BY <1>5
    <3> QED
      BY <3>1, <3>2, <1>7, ByteFacts
  <2> QED
    BY <2>1, <1>1, <1>2, <1>10 DEF OwnBytesOnly
<1> QED
  BY <1>11, <1>12, <1>13, <1>14, <1>15 DEF IInv

(* memset leaves zeros for the next client, which is not the first.        *)
LEMMA ClearKeeps == ASSUME IInv, ClearAndClose PROVE IInv'
<1>1. TypeOK /\ ServedInv /\ BufferInv /\ ReplyInv /\ ClientInv /\ OwnBytesOnly
  BY DEF IInv
<1>2. /\ spc = "clear" /\ spc' = "accept"
      /\ buf' = [i \in 1 .. BUFSIZE |-> Zero]
      /\ UNCHANGED <<served, length, cpc, sent, reply, printed, short>>
  BY DEF ClearAndClose
<1>3. Len(served) \in Nat /\ Len(served) > 0
  BY <1>1, <1>2, CurrentServed
<1>4. TypeOK'
  BY <1>1, <1>2, ByteFacts DEF TypeOK
<1>5. ServedInv'
  BY <1>1, <1>2 DEF ServedInv
<1>6. BufferInv'
  <2>1. ~(Len(served) = 0)
    BY <1>3
  <2> QED
    BY <2>1, <1>2 DEF BufferInv
<1>7. ReplyInv' /\ ClientInv' /\ OwnBytesOnly'
  BY <1>1, <1>2 DEF ReplyInv, ClientInv, OwnBytesOnly, Holds, Held
<1> QED
  BY <1>4, <1>5, <1>6, <1>7 DEF IInv

-----------------------------------------------------------------------------
(* The client.                                                             *)

(* connect, and a signal, change what the client does next.                *)
LEMMA ClientMoves ==
    ASSUME IInv, NEW c \in Client, Connect(c) \/ ConnectFails(c) \/ Killed(c)
    PROVE  IInv'
<1>1. TypeOK /\ ServedInv /\ BufferInv /\ ReplyInv /\ ClientInv /\ OwnBytesOnly
  BY DEF IInv
<1>2. UNCHANGED <<spc, buf, served, length, sent, reply, printed, short>>
  BY DEF Connect, ConnectFails, Killed, server
<1>3. PICK p \in {"send", "exited", "killed"} : cpc' = [cpc EXCEPT ![c] = p]
  BY DEF Connect, ConnectFails, Killed
<1>4. TypeOK'
  BY <1>1, <1>2, <1>3 DEF TypeOK
<1>5. ServedInv' /\ OwnBytesOnly'
  BY <1>1, <1>2 DEF ServedInv, OwnBytesOnly
<1>6. BufferInv' /\ ReplyInv'
  BY <1>1, <1>2 DEF BufferInv, ReplyInv, Holds, Held, current
<1>7. ClientInv'
  <2>1. \A d \in Client : cpc'[d] = "done" => cpc[d] = "done"
    BY <1>1, <1>3 DEF TypeOK
  <2> QED
    BY <2>1, <1>1, <1>2 DEF ClientInv
<1> QED
  BY <1>4, <1>5, <1>6, <1>7 DEF IInv

(* send of a client takes some of its message.                             *)
LEMMA SendMessageKeeps ==
    ASSUME IInv, NEW c \in Client, NEW n \in 0 .. length[c], SendMessage(c, n)
    PROVE  IInv'
<1>1. TypeOK /\ ServedInv /\ BufferInv /\ ReplyInv /\ ClientInv /\ OwnBytesOnly
  BY DEF IInv
<1>2. /\ sent' = [sent EXCEPT ![c] = n]
      /\ short' = [short EXCEPT ![c] = @ \/ n < length[c]]
      /\ cpc' = [cpc EXCEPT ![c] = "recv"]
      /\ UNCHANGED <<spc, buf, served, length, reply, printed>>
  BY DEF SendMessage, server
<1>3. n \in Nat /\ n <= length[c]
  BY <1>1, ConstantFacts DEF TypeOK
<1>4. \A d \in Client : /\ short[d] => short'[d]
                        /\ cpc'[d] = "done" => cpc[d] = "done"
                        /\ sent'[d] <= length[d]
  BY <1>1, <1>2, <1>3 DEF TypeOK, ClientInv
<1>5. TypeOK'
  BY <1>1, <1>2, <1>3 DEF TypeOK
<1>6. ServedInv' /\ OwnBytesOnly'
  BY <1>1, <1>2 DEF ServedInv, OwnBytesOnly
<1>7. BufferInv'
  <2>1. spc = "send" => current \in Client
    BY <1>1, CurrentServed
  <2> QED
    BY <2>1, <1>1, <1>2, <1>4 DEF BufferInv, Holds, Held, current
<1>8. ReplyInv'
  BY <1>1, <1>2, <1>4 DEF ReplyInv, Holds, Held, current
<1>9. ClientInv'
  BY <1>1, <1>2, <1>4 DEF ClientInv
<1> QED
  BY <1>5, <1>6, <1>7, <1>8, <1>9 DEF IInv

(* recv of a client, of some of its reply or of nothing, and printf.       *)
LEMMA PrintKeeps ==
    ASSUME IInv, NEW c \in Client, NEW n \in 0 .. Len(reply[c]), PrintReply(c, n)
    PROVE  IInv'
<1>1. TypeOK /\ ServedInv /\ BufferInv /\ ReplyInv /\ ClientInv /\ OwnBytesOnly
  BY DEF IInv
<1>. DEFINE l == Len(reply[c])
            said == StringOf(SubSeq(reply[c], 1, n))
<1>2. /\ printed' = [printed EXCEPT ![c] = said]
      /\ short' = [short EXCEPT ![c] = @ \/ n = 0 \/ n < l]
      /\ cpc' = [cpc EXCEPT ![c] = "done"]
      /\ UNCHANGED <<spc, buf, served, length, sent, reply>>
  BY DEF PrintReply, server
<1>3. l \in Nat /\ n \in Nat /\ n <= l /\ reply[c] \in Seq(Byte)
  BY <1>1 DEF TypeOK
<1>4. n = l => said = StringOf(reply[c])
  BY <1>3, SubSeqFull
<1>. HIDE DEF l, said
<1>5. /\ \A d \in Client : short[d] => short'[d]
      /\ \A d \in Client : d # c => cpc'[d] = cpc[d] /\ short'[d] = short[d]
                                    /\ printed'[d] = printed[d]
      /\ short' \in [Client -> BOOLEAN]
      /\ ~short'[c] => n # 0 /\ ~(n < l)
      /\ printed'[c] = said
  BY <1>1, <1>2 DEF TypeOK
<1>6. TypeOK'
  BY <1>1, <1>2, <1>5 DEF TypeOK
<1>7. ServedInv' /\ OwnBytesOnly'
  BY <1>1, <1>2 DEF ServedInv, OwnBytesOnly
<1>8. BufferInv'
  <2>1. spc = "send" => current \in Client
    BY <1>1, CurrentServed
  <2> QED
    BY <2>1, <1>1, <1>2, <1>5 DEF BufferInv, Holds, Held, current
<1>9. ReplyInv'
  BY <1>1, <1>2, <1>5 DEF ReplyInv, Holds, Held, current
<1>10. ClientInv'
  <2>1. ~short'[c] => l > 0 /\ printed'[c] = StringOf(reply[c])
    BY <1>3, <1>4, <1>5
  <2> QED
    BY <2>1, <1>1, <1>2, <1>5 DEF ClientInv, l
<1> QED
  BY <1>6, <1>7, <1>8, <1>9, <1>10 DEF IInv

-----------------------------------------------------------------------------
LEMMA NextIInv == IInv /\ [Next]_vars => IInv'
<1>. SUFFICES ASSUME IInv, [Next]_vars PROVE IInv'
  OBVIOUS
<1>1. \A c \in Client : length[c] \in Nat
  BY ConstantFacts DEF IInv, TypeOK
<1>2. \A c \in Client : Len(reply[c]) \in Nat
  BY DEF IInv, TypeOK
<1>3. 0 \in 0 .. BUFSIZE /\ \A n \in 1 .. BUFSIZE : n \in 0 .. BUFSIZE
  BY ConstantFacts
<1>4. CASE Listen \/ ListenFails \/ SendKills
  BY <1>4, ServerMoves DEF Listen, ListenFails, SendKills
<1>5. CASE Accept
  BY <1>5, AcceptKeeps
<1>6. CASE Recv \/ RecvNothing
  BY <1>6, RecvKeeps
<1>7. CASE ClearAndClose
  BY <1>7, ClearKeeps
<1>8. CASE (\E n \in 1 .. BUFSIZE : Send(n)) \/ Send(0)
  BY <1>3, <1>8, SendKeeps
<1>9. ASSUME NEW c \in Client, Connect(c) \/ ConnectFails(c) \/ Killed(c)
      PROVE  IInv'
  BY <1>9, ClientMoves
<1>10. ASSUME NEW c \in Client,
              \/ \E n \in Smaller(1, length[c]) .. length[c] : SendMessage(c, n)
              \/ SendMessage(c, 0)
       PROVE  IInv'
  <2>1. /\ 0 \in 0 .. length[c]
        /\ \A n \in Smaller(1, length[c]) .. length[c] : n \in 0 .. length[c]
    BY <1>1 DEF Smaller
  <2> QED
    BY <2>1, <1>10, SendMessageKeeps
<1>11. ASSUME NEW c \in Client, RecvReply(c) \/ RecvNoReply(c) \/ RecvFails(c)
       PROVE  IInv'
  <2>1. /\ 0 \in 0 .. Len(reply[c])
        /\ \A n \in 1 .. Len(reply[c]) : n \in 0 .. Len(reply[c])
    BY <1>2
  <2> QED
    BY <2>1, <1>11, PrintKeeps DEF RecvReply, RecvNoReply, RecvFails
<1>12. CASE UNCHANGED vars
  BY <1>12 DEF vars, server, IInv, TypeOK, ServedInv, BufferInv, ReplyInv,
               ClientInv, OwnBytesOnly, Holds, Held, current
<1> QED
  BY <1>4, <1>5, <1>6, <1>7, <1>8, <1>9, <1>10, <1>11, <1>12
  DEF Next, ServerStep, ClientStep, Failure

LEMMA SpecIInv == Spec => []IInv
BY InitIInv, NextIInv, PTL DEF Spec

(* No client is sent another client's bytes, whatever the lengths of the   *)
(* messages and of the buffer and whichever calls fail: the buffer is      *)
(* cleared after each connection (memset in echoserver.c).                 *)
THEOREM OwnBytes == Spec => []OwnBytesOnly
<1>1. IInv => OwnBytesOnly
  BY DEF IInv
<1> QED
  BY <1>1, SpecIInv, PTL

-----------------------------------------------------------------------------
(* printf, of a whole reply.                                               *)

(* The string ends before the first zero byte.                             *)
LEMMA StringEnds ==
    ASSUME NEW bytes, NEW k \in 1 .. Len(bytes), Len(bytes) \in Nat,
           bytes[k] = Zero, \A i \in 1 .. k - 1 : bytes[i] # Zero
    PROVE  StringOf(bytes) = SubSeq(bytes, 1, k - 1)
<1>. DEFINE zeros == {i \in 1 .. Len(bytes) : bytes[i] = Zero}
            first == CHOOSE i \in zeros : \A j \in zeros : i <= j
<1>1. k \in zeros /\ \A j \in zeros : k <= j
  OBVIOUS
<1>2. first \in zeros /\ \A j \in zeros : first <= j
  BY <1>1
<1>3. first = k
  BY <1>1, <1>2
<1> QED
  BY <1>1, <1>3 DEF StringOf

(* Without one it is all of the bytes, and what is beyond them.            *)
LEMMA StringGoesOn ==
    ASSUME NEW bytes, \A i \in 1 .. Len(bytes) : bytes[i] # Zero
    PROVE  StringOf(bytes) = Append(bytes, Junk)
BY DEF StringOf

(* A buffer that holds what it can of a message prints as that, alone if   *)
(* zero bytes follow it.                                                   *)
LEMMA WholeReplyPrints ==
    ASSUME IInv, NEW c \in Client, Len(reply[c]) = BUFSIZE,
           Holds(reply[c], c, Held(c))
    PROVE  /\ IsPrefix(SubSeq(Message(c), 1, Held(c)), StringOf(reply[c]))
           /\ length[c] < BUFSIZE /\ c # served[1] => StringOf(reply[c]) = Message(c)
<1>. DEFINE q == reply[c]
            l == Held(c)
            m == SubSeq(Message(c), 1, l)
<1>1. /\ q \in Seq(Byte) /\ l \in Nat /\ BUFSIZE \in Nat /\ BUFSIZE > 0 /\ l <= BUFSIZE
      /\ length[c] \in Nat /\ l <= length[c] /\ (length[c] < BUFSIZE => l = length[c])
      /\ (l < BUFSIZE => l = length[c])
  BY ConstantFacts DEF IInv, TypeOK, Held, Smaller
<1>2. Len(q) = BUFSIZE
  OBVIOUS
<1>3. \A i \in 1 .. l : q[i] = Own(c, i)
  BY <1>1 DEF Holds
<1>4. \A i \in 1 .. BUFSIZE : i > l => q[i] = IF c = served[1] THEN Junk ELSE Zero
  BY <1>1 DEF Holds
<1>5. m \in Seq(Byte) /\ Len(m) = l /\ \A i \in 1 .. l : m[i] = Own(c, i)
  <2>1. \A i \in 1 .. l : i \in 1 .. length[c] /\ Own(c, i) \in Byte
    BY <1>1, ByteFacts
  <2>2. \A i \in 1 .. length[c] : Message(c)[i] = Own(c, i)
    BY DEF Message
  <2>3. \A i \in 1 .. l : Message(c)[i] = Own(c, i) /\ Message(c)[i] \in Byte
    BY <2>1, <2>2
  <2>4. /\ m \in Seq(Byte) /\ Len(m) = l
        /\ \A i \in 1 .. l : m[i] = Message(c)[i]
    BY <2>3, <1>1, SubSeqProperties
  <2> QED
    BY <2>3, <2>4
<1>6. length[c] < BUFSIZE => m = Message(c)
  <2>1. ASSUME length[c] < BUFSIZE PROVE m = Message(c)
    <3>1. l = length[c]
      BY <1>1, <2>1
    <3>2. Message(c) \in Seq(Byte) /\ Len(Message(c)) = length[c]
      <4>1. \A i \in 1 .. length[c] : Own(c, i) \in Byte
        BY <1>1, <3>1, ByteFacts
      <4> QED
        BY <4>1, <1>1 DEF Message
    <3> QED
      BY <3>1, <3>2, SubSeqFull
  <2> QED
    BY <2>1
<1>7. SubSeq(q, 1, l) = m
  <2>1. \A i \in 1 .. l : q[i] \in Byte
    BY <1>1, <1>3, ByteFacts
  <2>2. /\ SubSeq(q, 1, l) \in Seq(Byte) /\ Len(SubSeq(q, 1, l)) = l
        /\ \A i \in 1 .. l : SubSeq(q, 1, l)[i] = q[i]
    BY <2>1, <1>1, SubSeqProperties
  <2> QED
    BY <2>2, <1>3, <1>5, SeqEqual
<1>8. \A i \in 1 .. l : q[i] # Zero
  BY <1>1, <1>3, ByteFacts
<1>. HIDE DEF q, l, m
<1>9. CASE l < BUFSIZE /\ c # served[1]
  <2>1. /\ l + 1 \in 1 .. Len(q) /\ q[l + 1] = Zero
        /\ \A i \in 1 .. (l + 1) - 1 : q[i] # Zero
    BY <1>1, <1>2, <1>4, <1>8, <1>9
  <2>2. Len(q) \in Nat /\ (l + 1) - 1 = l
    BY <1>1, <1>2
  <2>3. StringOf(q) = SubSeq(q, 1, (l + 1) - 1)
    BY <2>1, <2>2, StringEnds
  <2>4. StringOf(q) = m
    BY <2>2, <2>3, <1>7
  <2>5. IsPrefix(m, m)
    BY <1>5, SubSeqFull, <1>1 DEF IsPrefix
  <2> QED
    BY <2>4, <2>5, <1>6 DEF q, l, m
<1>10. CASE ~(l < BUFSIZE /\ c # served[1])
  <2>1. \A i \in 1 .. Len(q) : q[i] # Zero
    BY <1>1, <1>2, <1>4, <1>8, <1>10, ByteFacts
  <2>2. StringOf(q) = Append(q, Junk)
    BY <2>1, StringGoesOn
  <2>3. /\ Append(q, Junk) \in Seq(Byte) /\ Len(Append(q, Junk)) = BUFSIZE + 1
        /\ \A i \in 1 .. BUFSIZE : Append(q, Junk)[i] = q[i]
    BY <1>1, <1>2, ByteFacts, AppendProperties
  <2>. DEFINE t == Append(q, Junk)
  <2>. HIDE DEF t
  <2>4. t \in Seq(Byte) /\ Len(t) = BUFSIZE + 1 /\ \A i \in 1 .. BUFSIZE : t[i] = q[i]
    BY <2>3 DEF t
  <2>5. \A i \in 1 .. l : t[i] = m[i] /\ t[i] \in Byte
    BY <2>4, <1>1, <1>3, <1>5, ByteFacts
  <2>6. /\ SubSeq(t, 1, l) \in Seq(Byte) /\ Len(SubSeq(t, 1, l)) = l
        /\ \A i \in 1 .. l : SubSeq(t, 1, l)[i] = t[i]
    BY <2>5, <1>1, SubSeqProperties
  <2>7. SubSeq(t, 1, l) = m
    BY <2>5, <2>6, <1>5, SeqEqual
  <2>8. SubSeq(m, 1, l) = m
    BY <1>5, SubSeqFull
  <2>9. IsPrefix(m, t)
    BY <2>4, <2>7, <2>8, <1>1, <1>5 DEF IsPrefix
  <2>10. ~(length[c] < BUFSIZE /\ c # served[1])
    BY <1>1, <1>10
  <2> QED
    BY <2>2, <2>9, <2>10 DEF q, l, m, t
<1> QED
  BY <1>9, <1>10

(* What a client prints is its message, as far as the buffer holds it,     *)
(* also when it is longer, and nothing else where the buffer had room for  *)
(* more, unless a call was short or the client was the first (printf in    *)
(* echoclient.c).                                                          *)
THEOREM EchoComesBack == Spec => []EchoIsMessage
<1>1. IInv => EchoIsMessage
  <2>. SUFFICES ASSUME IInv, NEW c \in Client, cpc[c] = "done", ~short[c]
                PROVE  /\ IsPrefix(SubSeq(Message(c), 1, Smaller(length[c], BUFSIZE)),
                                   printed[c])
                       /\ length[c] < BUFSIZE /\ c # served[1] =>
                              printed[c] = Message(c)
    BY DEF EchoIsMessage
  <2>1. Len(reply[c]) > 0 /\ printed[c] = StringOf(reply[c])
    BY DEF IInv, ClientInv
  <2>2. Len(reply[c]) = BUFSIZE /\ Holds(reply[c], c, Held(c))
    BY <2>1 DEF IInv, ReplyInv
  <2> QED
    BY <2>1, <2>2, WholeReplyPrints DEF Held
<1> QED
  BY <1>1, SpecIInv, PTL
=============================================================================
