--------------------------- MODULE Transfer_proof ---------------------------
(***************************************************************************)
(* What holds of the transfer programs for every set of clients, every     *)
(* length of the file and of the buffer, and every number of descriptors.  *)
(***************************************************************************)
EXTENDS Transfer, SequenceTheorems, FiniteSetTheorems, TLAPS

-----------------------------------------------------------------------------
(* The inductive invariant, in parts.                                      *)

(* The server has a connection from accept to close, or to its end, and    *)
(* only that one is accepted and not closed.                               *)
ServingInv ==
    /\ IF pc = "accept" THEN new_fd = None ELSE new_fd \in Client
    /\ pc \in {"open", "read", "send", "close"} => socket[new_fd] = "accepted"
    /\ \A c \in Client : socket[c] = "accepted" => c = new_fd

(* The files the server has open are those of the connections it has       *)
(* closed, and from fopen to close that of the connection it serves.       *)
Served == {c \in Client : socket[c] = "closed"}
FilesInv ==
    /\ IsFiniteSet(Served)
    /\ \/ pc \in {"accept", "open", "exited"} /\ files = Cardinality(Served)
       \/ pc \in {"read", "send", "close", "exited"} /\ files = Cardinality(Served) + 1

(* The server's position in the file is what the stream of the client it   *)
(* serves holds and what of the buffer is still to be sent.                *)
PositionInv ==
    /\ pc = "open" => Len(stream[new_fd]) = 0
    /\ pc = "read" => Len(stream[new_fd]) = at
    /\ pc = "send" => /\ Len(stream[new_fd]) = at - Len(data) + sent_total
                      /\ \A i \in 1 .. Len(data) : data[i] = at - Len(data) + i
                      /\ eof => at = FileLen
    /\ pc = "close" => Len(stream[new_fd]) = FileLen

(* A stream is a beginning of the file: nothing before the connection is   *)
(* accepted, and everything once the server has closed it.                 *)
StreamInv ==
    \A c \in Client :
        /\ \A i \in 1 .. Len(stream[c]) : stream[c][i] = i
        /\ socket[c] = "pending" => Len(stream[c]) = 0
        /\ socket[c] = "closed" => Len(stream[c]) = FileLen

(* A client has written no more than has been sent, and recv returns 0     *)
(* with the whole file there, or when the server has ended.                *)
ClientInv ==
    \A c \in Client :
        /\ got[c] <= Len(stream[c])
        /\ client[c] = "done" =>
               got[c] = FileLen \/ (pc = "exited" /\ socket[c] # "closed")

IInv == TypeOK /\ ServingInv /\ FilesInv /\ PositionInv /\ StreamInv /\ ClientInv

-----------------------------------------------------------------------------
(* The constants.                                                          *)
LEMMA ConstantFacts ==
    /\ FileLen \in Nat /\ Buffer \in Nat /\ Buffer > 0 /\ MaxFiles \in Nat
    /\ None \notin Client
BY TransferAssumption

LEMMA InitIInv == Init => IInv
<1>. SUFFICES ASSUME Init PROVE IInv
  OBVIOUS
<1>1. TypeOK
  <2>1. << >> \in Seq(1 .. FileLen) /\ Len(<< >>) = 0
    BY EmptySeq
  <2>2. 0 \in 0 .. FileLen /\ 0 \in 0 .. MaxFiles /\ 0 \in 0 .. 0
    BY ConstantFacts
  <2>. QED  BY <2>1, <2>2 DEF Init, TypeOK
<1>2. ServingInv /\ PositionInv /\ StreamInv /\ ClientInv
  BY EmptySeq DEF Init, ServingInv, PositionInv, StreamInv, ClientInv
<1>3. FilesInv
  <2>1. Served = {}
    BY DEF Init, Served
  <2>. QED  BY <2>1, FS_EmptySet DEF Init, FilesInv
<1>. QED  BY <1>1, <1>2, <1>3 DEF IInv

(* The served stay what they are while no connection is closed.            *)
LEMMA SameServed ==
    ASSUME \A c \in Client : socket'[c] = "closed" <=> socket[c] = "closed"
    PROVE  Served' = Served
BY DEF Served

(* fread puts the next bytes of the file into the buffer: a whole buffer,  *)
(* or what is left, and only then does feof hold.                          *)
LEMMA ReadFacts ==
    ASSUME TypeOK, Read
    PROVE  /\ data' \in Seq(1 .. FileLen) /\ Len(data') \in Nat
           /\ at' = at + Len(data') /\ at' \in 0 .. FileLen
           /\ \A i \in 1 .. Len(data') : data'[i] = at' - Len(data') + i
           /\ eof' \in BOOLEAN /\ (eof' => at' = FileLen)
<1>. DEFINE size == IF FileLen - at < Buffer THEN FileLen - at ELSE Buffer
<1>1. at \in 0 .. FileLen
  BY DEF TypeOK
<1>2. size \in Nat /\ at + size \in 0 .. FileLen /\ (size < Buffer => at + size = FileLen)
  BY <1>1, ConstantFacts
<1>3. data' = [i \in 1 .. size |-> at + i] /\ at' = at + size /\ eof' = (size < Buffer)
  BY DEF Read
<1>. HIDE DEF size
<1>4. \A i \in 1 .. size : at + i \in 1 .. FileLen
  BY <1>1, <1>2, ConstantFacts
<1>5. data' \in [1 .. size -> 1 .. FileLen]
  BY <1>3, <1>4
<1>6. data' \in Seq(1 .. FileLen) /\ Len(data') = size
  <2>1. data' \in Seq(1 .. FileLen)
    BY <1>2, <1>5, SeqDef
  <2>2. Len(data') \in Nat /\ 1 .. Len(data') = 1 .. size
    BY <1>5, <2>1, LenProperties
  <2>. QED  BY <1>2, <2>1, <2>2
<1>7. \A i \in 1 .. size : data'[i] = at' - size + i
  BY <1>1, <1>2, <1>3
<1>8. Len(data') \in Nat /\ at' = at + Len(data')
  BY <1>2, <1>3, <1>6
<1>9. \A i \in 1 .. Len(data') : data'[i] = at' - Len(data') + i
  BY <1>6, <1>7, Zenon
<1>10. eof' \in BOOLEAN
  BY <1>3
<1>11. eof' => at' = FileLen
  <2>1. CASE size < Buffer
    BY <1>2, <1>3, <2>1, Zenon
  <2>2. CASE ~ size < Buffer
    BY <1>3, <2>2, Zenon
  <2>. QED  BY <2>1, <2>2
<1>12. at' \in 0 .. FileLen
  BY <1>2, <1>3, Zenon
<1>. QED  BY <1>6, <1>8, <1>9, <1>10, <1>11, <1>12, Zenon

(* What send takes of the buffer continues the stream.                     *)
LEMMA Continue ==
    ASSUME NEW s \in Seq(1 .. FileLen), NEW d \in Seq(1 .. FileLen),
           NEW m \in Nat, NEW n \in Nat, m + n <= Len(d),
           \A i \in 1 .. Len(s) : s[i] = i,
           \A i \in 1 .. Len(d) : d[i] = Len(s) - m + i
    PROVE  LET t == s \o SubSeq(d, m + 1, m + n) IN
           /\ t \in Seq(1 .. FileLen) /\ Len(t) = Len(s) + n
           /\ \A i \in 1 .. Len(t) : t[i] = i
<1>. DEFINE part == SubSeq(d, m + 1, m + n)
<1>1. Len(s) \in Nat /\ Len(d) \in Nat
  OBVIOUS
<1>2. \A i \in m + 1 .. m + n : i \in 1 .. Len(d)
  BY <1>1
<1>3. m + 1 \in Int /\ m + n \in Int /\ \A i \in m + 1 .. m + n : d[i] \in 1 .. FileLen
  <2>1. ASSUME NEW i \in m + 1 .. m + n PROVE d[i] \in 1 .. FileLen
    BY <1>2, ElementOfSeq
  <2>. QED  BY <2>1
<1>4. /\ part \in Seq(1 .. FileLen)
      /\ Len(part) = IF m + 1 <= m + n THEN m + n - (m + 1) + 1 ELSE 0
      /\ \A i \in 1 .. m + n - (m + 1) + 1 : part[i] = d[m + 1 + i - 1]
  BY ONLY <1>3, SubSeqProperties
<1>. HIDE DEF part
<1>5. Len(part) = n
  BY <1>4
<1>6. \A i \in 1 .. n : part[i] = Len(s) + i
  <2>1. ASSUME NEW i \in 1 .. n
        PROVE  /\ i \in 1 .. m + n - (m + 1) + 1 /\ m + 1 + i - 1 = m + i
               /\ m + i \in 1 .. Len(d) /\ Len(s) - m + (m + i) = Len(s) + i
    BY <1>1
  <2>. QED  BY <1>4, <2>1
<1>7. /\ s \o part \in Seq(1 .. FileLen)
      /\ Len(s \o part) = Len(s) + n
      /\ \A i \in 1 .. Len(s) + n :
            (s \o part)[i] = IF i <= Len(s) THEN s[i] ELSE part[i - Len(s)]
  <2>1. /\ s \o part \in Seq(1 .. FileLen)
        /\ Len(s \o part) = Len(s) + Len(part)
        /\ \A i \in 1 .. Len(s) + Len(part) :
              (s \o part)[i] = IF i <= Len(s) THEN s[i] ELSE part[i - Len(s)]
    BY ONLY s \in Seq(1 .. FileLen), <1>4, ConcatProperties
  <2>. QED  BY ONLY <1>5, <2>1, Zenon
<1>8. \A i \in 1 .. Len(s) + n : (s \o part)[i] = i
  <2>1. ASSUME NEW i \in 1 .. Len(s) + n, i <= Len(s) PROVE (s \o part)[i] = i
    BY <1>1, <1>7, <2>1
  <2>2. ASSUME NEW i \in 1 .. Len(s) + n, ~ i <= Len(s) PROVE (s \o part)[i] = i
    <3>1. i - Len(s) \in 1 .. n /\ Len(s) + (i - Len(s)) = i
      BY <1>1, <2>2
    <3>. QED  BY <1>6, <1>7, <2>2, <3>1
  <2>. QED  BY <2>1, <2>2
<1>. QED  BY <1>7, <1>8 DEF part

(* What Send leaves.                                                       *)
LEMMA SendFacts ==
    ASSUME IInv, Send
    PROVE  \E n \in Nat :
               /\ sent_total' = sent_total + n /\ sent_total' \in 0 .. Len(data)
               /\ new_fd \in Client /\ socket[new_fd] = "accepted"
               /\ \A c \in Client : c # new_fd => stream'[c] = stream[c]
               /\ stream' \in [Client -> Seq(1 .. FileLen)]
               /\ Len(stream'[new_fd]) = Len(stream[new_fd]) + n
               /\ \A i \in 1 .. Len(stream'[new_fd]) : stream'[new_fd][i] = i
<1>1. /\ pc = "send" /\ TypeOK /\ new_fd \in Client /\ socket[new_fd] = "accepted"
  BY DEF Send, IInv, ServingInv
<1>2. PICK n \in 1 .. Len(data) - sent_total :
          /\ sent_total' = sent_total + n
          /\ stream' = [stream EXCEPT ![new_fd] =
                 @ \o SubSeq(data, sent_total + 1, sent_total + n)]
  BY DEF Send
<1>. DEFINE s == stream[new_fd]
            t == s \o SubSeq(data, sent_total + 1, sent_total + n)
<1>3. /\ s \in Seq(1 .. FileLen) /\ data \in Seq(1 .. FileLen)
      /\ sent_total \in 0 .. Len(data) /\ at \in Int
      /\ stream \in [Client -> Seq(1 .. FileLen)]
  BY <1>1 DEF TypeOK
<1>4. Len(data) \in Nat /\ Len(s) \in Nat
  BY <1>3
<1>5. n \in Nat /\ sent_total \in Nat /\ sent_total + n <= Len(data)
  BY <1>3, <1>4
<1>6. \A i \in 1 .. Len(s) : s[i] = i
  BY <1>1 DEF IInv, StreamInv
<1>7. \A i \in 1 .. Len(data) : data[i] = Len(s) - sent_total + i
  BY <1>1, <1>3, <1>4 DEF IInv, PositionInv
<1>8. /\ t \in Seq(1 .. FileLen) /\ Len(t) = Len(s) + n
      /\ \A i \in 1 .. Len(t) : t[i] = i
  BY <1>3, <1>5, <1>6, <1>7, Continue
<1>9. stream' = [stream EXCEPT ![new_fd] = t]
  BY <1>2
<1>. HIDE DEF t
<1>10. stream'[new_fd] = t /\ stream' \in [Client -> Seq(1 .. FileLen)]
       /\ \A c \in Client : c # new_fd => stream'[c] = stream[c]
  BY <1>1, <1>3, <1>8, <1>9
<1>11. sent_total' \in 0 .. Len(data)
  BY <1>2, <1>4, <1>5
<1>. QED
  BY <1>1, <1>2, <1>5, <1>8, <1>10, <1>11

(* A beginning of the file is no longer than the file.                     *)
LEMMA StreamLength ==
    ASSUME IInv, NEW c \in Client
    PROVE  Len(stream[c]) \in Nat /\ Len(stream[c]) <= FileLen
<1>1. stream[c] \in Seq(1 .. FileLen) /\ Len(stream[c]) \in Nat
  BY DEF IInv, TypeOK
<1>2. CASE Len(stream[c]) = 0
  BY <1>2, ConstantFacts
<1>3. CASE Len(stream[c]) # 0
  <2>1. Len(stream[c]) \in 1 .. Len(stream[c])
    BY <1>1, <1>3
  <2>2. stream[c][Len(stream[c])] \in 1 .. FileLen
    BY <1>1, <2>1, ElementOfSeq
  <2>3. stream[c][Len(stream[c])] = Len(stream[c])
    BY <2>1 DEF IInv, StreamInv
  <2>4. Len(stream[c]) \in 1 .. FileLen
    BY <2>2, <2>3
  <2>. QED  BY <1>1, <2>4, ConstantFacts
<1>. QED  BY <1>1, <1>2, <1>3

-----------------------------------------------------------------------------
(* Every step of the server keeps the invariant.                           *)
LEMMA ServerStepInv == IInv /\ ServerStep => IInv'
<1>. SUFFICES ASSUME IInv, ServerStep PROVE IInv'
  OBVIOUS
<1>. USE DEF serving, clients, connection
<1>1. TypeOK /\ ServingInv /\ FilesInv /\ PositionInv /\ StreamInv /\ ClientInv
  BY DEF IInv
<1>2. CASE Accept
  <2>1. PICK c \in Client : /\ client[c] \in {"connected", "killed", "cut"} /\ socket[c] = "pending"
                            /\ new_fd' = c /\ socket' = [socket EXCEPT ![c] = "accepted"]
    BY <1>2 DEF Accept
  <2>2. /\ pc = "accept" /\ pc' = "open"
        /\ UNCHANGED <<files, at, eof, data, sent_total, client, got, stream>>
    BY <1>2 DEF Accept
  <2>3. TypeOK'
    BY <1>1, <2>1, <2>2 DEF TypeOK
  <2>4. PositionInv'
    BY <1>1, <2>1, <2>2 DEF PositionInv, StreamInv
  <2>5. \A b \in Client : b # c => socket'[b] = socket[b]
    BY <1>1, <2>1 DEF TypeOK
  <2>6. socket'[c] = "accepted"
    BY <1>1, <2>1 DEF TypeOK
  <2>10. ServingInv'
    <3>1. \A b \in Client : socket[b] # "accepted"
      BY <1>1, <2>2, ConstantFacts DEF ServingInv
    <3>2. \A b \in Client : socket'[b] = "accepted" => b = new_fd'
      BY <2>1, <2>5, <3>1
    <3>. QED  BY <2>1, <2>2, <2>6, <3>2 DEF ServingInv
  <2>7. StreamInv'
    BY <1>1, <2>2, <2>5, <2>6 DEF StreamInv
  <2>8. ClientInv'
    BY <1>1, <2>1, <2>2, <2>5 DEF ClientInv
  <2>9. FilesInv'
    <3>1. Served' = Served
      BY <2>1, <2>5, <2>6, SameServed
    <3>. QED  BY <1>1, <2>2, <3>1 DEF FilesInv
  <2>. QED  BY <2>3, <2>4, <2>7, <2>8, <2>9, <2>10 DEF IInv
<1>3. CASE Open
  <2>1. TypeOK'
    <3>1. files' \in 0 .. MaxFiles
      BY <1>1, <1>3, ConstantFacts DEF Open, TypeOK
    <3>2. at' \in 0 .. FileLen
      BY <1>3, ConstantFacts DEF Open
    <3>. QED  BY <1>1, <1>3, <3>1, <3>2 DEF Open, TypeOK
  <2>2. ServingInv' /\ PositionInv' /\ StreamInv' /\ ClientInv'
    BY <1>1, <1>3 DEF Open, ServingInv, PositionInv, StreamInv, ClientInv
  <2>3. FilesInv'
    <3>1. Served' = Served /\ pc = "open" /\ pc' = "read" /\ files' = files + 1
      BY <1>3 DEF Open, Served
    <3>. QED  BY <1>1, <3>1 DEF FilesInv
  <2>. QED  BY <2>1, <2>2, <2>3 DEF IInv
<1>4. CASE OpenFails \/ SendFails
  <2>1. /\ pc' = "exited" /\ pc \in {"open", "send"}
        /\ UNCHANGED <<new_fd, files, at, eof, data, sent_total, client, got, stream, socket>>
    BY <1>4 DEF OpenFails, SendFails
  <2>2. TypeOK'
    BY <1>1, <2>1 DEF TypeOK
  <2>3. ServingInv' /\ PositionInv' /\ StreamInv' /\ ClientInv'
    BY <1>1, <2>1 DEF ServingInv, PositionInv, StreamInv, ClientInv
  <2>4. FilesInv'
    BY <1>1, <2>1 DEF FilesInv, Served
  <2>. QED  BY <2>2, <2>3, <2>4 DEF IInv
<1>5. CASE Read
  <2>1. /\ pc = "read" /\ pc' = "send" /\ sent_total' = 0
        /\ UNCHANGED <<new_fd, files, client, got, stream, socket>>
    BY <1>5 DEF Read
  <2>2. TypeOK'
    BY <1>1, <1>5, <2>1, ReadFacts DEF TypeOK
  <2>3. Len(stream[new_fd]) = at' - Len(data')
    <3>1. at \in Int /\ Len(data') \in Int /\ at' = at + Len(data')
      BY <1>1, <1>5, ReadFacts DEF TypeOK
    <3>. QED  BY <1>1, <2>1, <3>1 DEF PositionInv
  <2>4. PositionInv'
    <3>1. Len(stream[new_fd]) = at' - Len(data') + 0
      BY <1>1, <1>5, <2>3, ReadFacts DEF TypeOK
    <3>. QED  BY <1>1, <1>5, <2>1, <3>1, ReadFacts DEF PositionInv
  <2>5. ServingInv' /\ StreamInv' /\ ClientInv'
    BY <1>1, <2>1 DEF ServingInv, StreamInv, ClientInv
  <2>6. FilesInv'
    BY <1>1, <2>1 DEF FilesInv, Served
  <2>. QED  BY <2>2, <2>4, <2>5, <2>6 DEF IInv
<1>6. CASE Send
  <2>1. /\ pc = "send" /\ UNCHANGED <<pc, new_fd, files, at, eof, data, client, got, socket>>
    BY <1>6 DEF Send
  <2>2. PICK n \in Nat :
            /\ sent_total' = sent_total + n /\ sent_total' \in 0 .. Len(data)
            /\ new_fd \in Client /\ socket[new_fd] = "accepted"
            /\ \A c \in Client : c # new_fd => stream'[c] = stream[c]
            /\ stream' \in [Client -> Seq(1 .. FileLen)]
            /\ Len(stream'[new_fd]) = Len(stream[new_fd]) + n
            /\ \A i \in 1 .. Len(stream'[new_fd]) : stream'[new_fd][i] = i
    BY <1>6, SendFacts
  <2>3. TypeOK'
    BY <1>1, <2>1, <2>2 DEF TypeOK
  <2>4. PositionInv'
    <3>1. Len(stream[new_fd]) = at - Len(data) + sent_total
      BY <1>1, <2>1 DEF PositionInv
    <3>2. at \in Int /\ Len(data) \in Int /\ sent_total \in Int
      BY <1>1 DEF TypeOK
    <3>3. Len(stream'[new_fd]) = at - Len(data) + sent_total'
      BY <2>2, <3>1, <3>2
    <3>. QED  BY <1>1, <2>1, <3>3 DEF PositionInv
  <2>5. StreamInv'
    BY <1>1, <2>1, <2>2 DEF StreamInv
  <2>6. ClientInv'
    <3>1. ASSUME NEW c \in Client PROVE got[c] <= Len(stream'[c])
      <4>1. got[c] \in Int /\ Len(stream[c]) \in Int /\ got[c] <= Len(stream[c])
        BY <1>1, StreamLength DEF TypeOK, ClientInv
      <4>. QED  BY <2>2, <4>1
    <3>. QED  BY <1>1, <2>1, <2>2, <3>1 DEF ClientInv
  <2>7. ServingInv'
    BY <1>1, <2>1 DEF ServingInv
  <2>8. FilesInv'
    BY <1>1, <2>1 DEF FilesInv, Served
  <2>. QED  BY <2>3, <2>4, <2>5, <2>6, <2>7, <2>8 DEF IInv
<1>7. CASE SendDone
  <2>1. /\ pc = "send" /\ sent_total = Len(data)
        /\ UNCHANGED <<new_fd, files, at, eof, data, sent_total, client, got, stream, socket>>
        /\ (pc' = "close" /\ eof) \/ pc' = "read"
    BY <1>7 DEF SendDone
  <2>2. TypeOK'
    BY <1>1, <2>1 DEF TypeOK
  <2>3. Len(stream[new_fd]) = at
    <3>1. Len(stream[new_fd]) = at - Len(data) + Len(data)
      BY <1>1, <2>1 DEF PositionInv
    <3>2. at \in Int /\ Len(data) \in Int
      BY <1>1 DEF TypeOK
    <3>. QED  BY <3>1, <3>2
  <2>4. PositionInv'
    BY <1>1, <2>1, <2>3 DEF PositionInv
  <2>5. ServingInv' /\ StreamInv' /\ ClientInv'
    BY <1>1, <2>1 DEF ServingInv, StreamInv, ClientInv
  <2>6. FilesInv'
    BY <1>1, <2>1 DEF FilesInv, Served
  <2>. QED  BY <2>2, <2>4, <2>5, <2>6 DEF IInv
<1>8. CASE Close
  <2>1. /\ pc = "close" /\ pc' = "accept" /\ new_fd' = None
        /\ socket' = [socket EXCEPT ![new_fd] = "closed"]
        /\ UNCHANGED <<files, at, eof, data, sent_total, client, got, stream>>
    BY <1>8 DEF Close
  <2>2. new_fd \in Client /\ Len(stream[new_fd]) = FileLen
    BY <1>1, <2>1 DEF ServingInv, PositionInv
  <2>3. TypeOK'
    BY <1>1, <2>1 DEF TypeOK
  <2>4. ServingInv' /\ PositionInv' /\ StreamInv' /\ ClientInv'
    BY <1>1, <2>1, <2>2 DEF TypeOK, ServingInv, PositionInv, StreamInv, ClientInv
  <2>5. FilesInv'
    <3>1. new_fd \notin Served
      BY <1>1, <2>1 DEF ServingInv, Served
    <3>2. Served' = Served \union {new_fd}
      BY <1>1, <2>1, <2>2 DEF TypeOK, Served
    <3>3. IsFiniteSet(Served) /\ Cardinality(Served) \in Nat
      BY <1>1, FS_CardinalityType DEF FilesInv
    <3>4. IsFiniteSet(Served') /\ Cardinality(Served') = Cardinality(Served) + 1
      BY <3>1, <3>2, <3>3, FS_AddElement
    <3>5. files = Cardinality(Served) + 1
      BY <1>1, <2>1 DEF FilesInv
    <3>. QED  BY <2>1, <3>4, <3>5 DEF FilesInv
  <2>. QED  BY <2>3, <2>4, <2>5 DEF IInv
<1>9. CASE ReadFails
  BY <1>1, <1>9 DEF ReadFails, vars, IInv, TypeOK, ServingInv, FilesInv, Served, PositionInv,
                    StreamInv, ClientInv
<1>. QED
  BY <1>2, <1>3, <1>4, <1>5, <1>6, <1>7, <1>8, <1>9 DEF ServerStep

(* Every step of a client keeps the invariant.                             *)
LEMMA ClientStepInv ==
    ASSUME IInv, NEW c \in Client, Connect(c) \/ ClientStep(c) \/ RecvFails(c) \/ Killed(c)
    PROVE  IInv'
<1>. USE DEF serving, connection
<1>1. TypeOK /\ ServingInv /\ FilesInv /\ PositionInv /\ StreamInv /\ ClientInv
  BY DEF IInv
<1>2. UNCHANGED <<pc, new_fd, files, at, eof, data, sent_total, stream, socket>>
  BY DEF Connect, ClientStep, Receive, Finish, RecvFails, Killed
<1>3. PositionInv' /\ StreamInv' /\ FilesInv'
  BY <1>1, <1>2 DEF PositionInv, StreamInv, FilesInv, Served
<1>4. CASE Receive(c)
  <2>1. PICK n \in 1 .. Len(stream[c]) - got[c] : got' = [got EXCEPT ![c] = @ + n]
    BY <1>4 DEF Receive
  <2>2. client[c] = "connected" /\ client' = client
    BY <1>4 DEF Receive
  <2>3. Len(stream[c]) \in Nat /\ Len(stream[c]) <= FileLen /\ got[c] \in 0 .. FileLen
    BY <1>1, StreamLength DEF TypeOK
  <2>4. got[c] + n \in 0 .. FileLen /\ got[c] + n <= Len(stream[c])
    BY <2>3, ConstantFacts
  <2>5. TypeOK'
    BY <1>1, <1>2, <2>1, <2>2, <2>4 DEF TypeOK
  <2>6. ServingInv' /\ ClientInv'
    BY <1>1, <1>2, <2>1, <2>2, <2>4 DEF TypeOK, ServingInv, ClientInv
  <2>. QED  BY <1>3, <2>5, <2>6 DEF IInv
<1>5. CASE Connect(c) \/ Finish(c) \/ RecvFails(c) \/ Killed(c)
  <2>1. PICK s \in {"connected", "failed", "done", "cut", "killed"} :
            /\ client' = [client EXCEPT ![c] = s]
            /\ client[c] \in {"start", "connected"} /\ got' = got
            /\ s = "done" => /\ got[c] = Len(stream[c])
                             /\ socket[c] = "closed" \/ pc = "exited"
    BY <1>5 DEF Connect, Finish, RecvFails, Killed
  <2>2. TypeOK'
    BY <1>1, <1>2, <2>1 DEF TypeOK
  <2>3. ServingInv'
    BY <1>1, <1>2, <2>1 DEF TypeOK, ServingInv
  <2>4. ClientInv'
    <3>1. s = "done" => got[c] = FileLen \/ (pc = "exited" /\ socket[c] # "closed")
      BY <1>1, <2>1 DEF StreamInv
    <3>. QED  BY <1>1, <1>2, <2>1, <3>1 DEF TypeOK, ClientInv
  <2>. QED  BY <1>3, <2>2, <2>3, <2>4 DEF IInv
<1>. QED  BY <1>4, <1>5 DEF ClientStep

(* The invariant is inductive.                                             *)
LEMMA Invariance == Spec => []IInv
<1>1. IInv /\ UNCHANGED vars => IInv'
  BY DEF vars, serving, clients, connection, IInv, TypeOK, ServingInv, FilesInv, Served,
         PositionInv, StreamInv, ClientInv
<1>2. IInv /\ [Next]_vars => IInv'
  BY <1>1, ServerStepInv, ClientStepInv DEF Next, Idle
<1>. QED
  BY InitIInv, <1>2, PTL DEF Spec

(* What a client receives is the file from its beginning, whatever send    *)
(* and recv make of the boundaries; and one that finds the connection at   *)
(* its end (recv returns 0) has all of it, or had no end from the server   *)
(* but the server's own.                                                   *)
THEOREM WholeFile == Spec => []EndIsEndOfFile
<1>1. IInv => EndIsEndOfFile
  BY DEF IInv, StreamInv, ClientInv, EndIsEndOfFile
<1>. QED  BY <1>1, Invariance, PTL

(* However the server ends, every client it has served has the whole file  *)
(* sent and has cost a descriptor, so that there are at most MaxFiles of   *)
(* them, and only the one it was sending to may have a part of it.         *)
THEOREM EachServedWhole == Spec => []ServedInTurn
<1>1. ASSUME IInv PROVE ServedInTurn
  <2>1. Cardinality(Served) <= MaxFiles
    <3>1. files \in 0 .. MaxFiles /\ Cardinality(Served) \in Nat
      BY <1>1, FS_CardinalityType DEF IInv, TypeOK, FilesInv
    <3>. QED  BY <1>1, <3>1, ConstantFacts DEF IInv, FilesInv
  <2>2. ASSUME NEW c \in Client PROVE Len(stream[c]) \in {0, FileLen} \/ c = new_fd
    <3>1. socket[c] \in {"pending", "accepted", "closed"}
      BY <1>1 DEF IInv, TypeOK
    <3>. QED  BY <1>1, <3>1 DEF IInv, ServingInv, StreamInv
  <2>3. \A c \in Served : Len(stream[c]) = FileLen
    BY <1>1 DEF IInv, StreamInv, Served
  <2>. QED
    BY <1>1, <2>1, <2>2, <2>3 DEF IInv, FilesInv, ServedInTurn, Served
<1>. QED  BY <1>1, Invariance, PTL
=============================================================================
