--------------------------- MODULE MTServer_proof ---------------------------
(***************************************************************************)
(* What holds of the multithreaded server for every pool of workers, every *)
(* set of connections and files, and every size of the buffer.             *)
(*                                                                         *)
(* The argument: a connection moves from the boss to the queue to one      *)
(* worker and is freed (Owners), so what a worker knows of the connection  *)
(* it serves nobody else can change (Serving); and what it knows is where  *)
(* in the file the bytes end that the client has been sent.                *)
(***************************************************************************)
EXTENDS MTServer, FiniteSetTheorems, SequenceTheorems, TLAPS

-----------------------------------------------------------------------------
(* The inductive invariant, in parts.                                      *)

Busy == {"get", "read", "send", "drain", "free"}

(* While the process lives, a worker holds a task exactly from the pop to  *)
(* the end of its loop body, and the boss a context exactly from accept to *)
(* the handler's enqueue.                                                  *)
HandsInv ==
    /\ \A w \in Worker :
           IF alive THEN task[w] # None <=> pc[w] \in Busy ELSE pc[w] \notin Busy
    /\ ctx # None <=> bpc \in {"parse", "reject", "lock", "enqueue"}

Waits(c)  == \E k \in 1 .. Len(request_queue) : request_queue[k] = c
Served(c) == \E w \in Worker : task[w] = c

(* A connection is in one place: not accepted yet, with the boss, in the   *)
(* queue once, with one worker, or freed.                                  *)
Owners(c) ==
    /\ \A v, w \in Worker : task[v] = c /\ task[w] = c => v = w
    /\ \A j, k \in 1 .. Len(request_queue) :
           request_queue[j] = c /\ request_queue[k] = c => j = k
    /\ ~ (ctx = c /\ Waits(c)) /\ ~ (ctx = c /\ Served(c)) /\ ~ (Waits(c) /\ Served(c))
    /\ socket[c] = "idle" \/ c \in freed => ctx # c /\ ~ Waits(c) /\ ~ Served(c)
    /\ socket[c] = "idle" => c \notin freed

OwnersInv == \A c \in Conn : Owners(c)

(* Nothing has been sent on a connection that no worker serves yet.        *)
Fresh(c) == header[c] = None /\ delivered[c] = << >>

FreshInv ==
    /\ \A c \in Conn :
           socket[c] = "idle" \/ Waits(c) \/ (ctx = c /\ bpc # "reject") => Fresh(c)
    /\ bpc = "reject" => header[ctx] = "INVALID"

(* Why a connection may be left open.                                      *)
Explained(c) ==
    socket[c] = "open" =>
        \/ c \in truncated \/ c \in failed
        \/ header[c] = "OK" /\ Size[c] = 0

(* The client of c has been sent nothing from beyond position m.           *)
SentUpTo(c, m) == \A k \in 1 .. Len(delivered[c]) : delivered[c][k] <= m

(* What a worker knows of its connection.  Nothing it has not read, or     *)
(* still has in the buffer, has been sent.  Until a gfs_send fails, all    *)
(* the rest has; and work only reads on while something of the file is     *)
(* left.                                                                   *)
Serving(w) ==
    LET c == task[w] IN
    /\ pc[w] \notin {"read", "send", "drain", "free"} => total_read[w] = 0
    /\ pc[w] = "get" => Fresh(c)
    /\ pc[w] \in Busy => header[c] # "INVALID"
    /\ pc[w] \in {"read", "send"} => header[c] = "OK" /\ total_read[w] <= Size[c]
    /\ pc[w] = "read" => SentUpTo(c, total_read[w])
    /\ pc[w] = "read" /\ c \notin failed =>
           /\ Len(delivered[c]) = total_read[w]
           /\ total_read[w] < Size[c] \/ Size[c] = 0
    /\ pc[w] = "send" =>
           unsent[w] \in 1 .. total_read[w] /\ SentUpTo(c, total_read[w] - unsent[w])
    /\ pc[w] = "send" /\ c \notin failed =>
           Len(delivered[c]) = total_read[w] - unsent[w]
    /\ pc[w] = "free" => Explained(c)

ServingInv == \A w \in Worker : Serving(w)

(* What a client has been sent.                                            *)
Sent(c) ==
    /\ SentUpTo(c, Size[c])
    /\ c \notin failed => \A k \in 1 .. Len(delivered[c]) : delivered[c][k] = k
    /\ \A j, k \in 1 .. Len(delivered[c]) : j < k => delivered[c][j] < delivered[c][k]

SentInv == \A c \in Conn : Sent(c)

IInv ==
    /\ TypeOK /\ NoWorkerSleepsThroughWork
    /\ HandsInv /\ OwnersInv /\ FreshInv /\ ServingInv /\ SentInv
    /\ OpenSocketsExplained

-----------------------------------------------------------------------------
(* Facts about the queue and the connections held.                         *)

(* A size is a number; and no connection, and no status, is None.          *)
LEMMA SizeFacts ==
    /\ \A c \in Conn : Size[c] \in Int
    /\ BufferSize \in Nat /\ BufferSize > 0
    /\ None \notin Conn /\ None \notin Status
<1>1. \A i \in Nat \union {-1} : i \in Int
  OBVIOUS
<1>2. \A c \in Conn : Size[c] \in Nat \union {-1}
  BY ServerAssumption
<1>. QED  BY <1>1, <1>2, ServerAssumption

(* The head and the tail of the queue, while it is not empty.              *)
LEMMA QueueFacts ==
    ASSUME TypeOK, request_queue # << >>
    PROVE  /\ Len(request_queue) \in Nat /\ Len(request_queue) > 0
           /\ Head(request_queue) = request_queue[1]
           /\ Head(request_queue) \in Conn
           /\ Tail(request_queue) \in Seq(Conn)
           /\ Len(Tail(request_queue)) = Len(request_queue) - 1
           /\ \A k \in 1 .. Len(request_queue) - 1 :
                 Tail(request_queue)[k] = request_queue[k + 1]
<1>1. request_queue \in Seq(Conn)
  BY DEF TypeOK
<1>2. Len(request_queue) \in Nat /\ Len(request_queue) > 0
  BY <1>1, EmptySeq
<1>3. Head(request_queue) = request_queue[1]
  BY <1>1, <1>2
<1>4. /\ Head(request_queue) \in Conn
      /\ Tail(request_queue) \in Seq(Conn)
      /\ Len(Tail(request_queue)) = Len(request_queue) - 1
      /\ \A k \in 1 .. Len(Tail(request_queue)) :
            Tail(request_queue)[k] = request_queue[k + 1]
  BY <1>1, HeadTailProperties
<1>. QED
  BY <1>2, <1>3, <1>4

(* A worker in the body of its loop has a connection.                      *)
LEMMA TaskFacts ==
    ASSUME IInv, NEW w \in Worker, pc[w] \in Busy
    PROVE  task[w] \in Conn
BY DEF IInv, TypeOK, HandsInv

(* So has the boss between accept and the handler's return.                *)
LEMMA ContextFacts ==
    ASSUME IInv, bpc \in {"parse", "reject", "lock", "enqueue"}
    PROVE  ctx \in Conn
BY DEF IInv, TypeOK, HandsInv

(* A write leaves peer in its type.                                        *)
LEMMA WriteFacts ==
    ASSUME TypeOK, NEW c \in Conn, Write(c)
    PROVE  peer' \in [Conn -> {"up", "stalled", "closed", "broken"}]
BY DEF TypeOK, Write

(* The end of the process moves every thread, and takes the context from   *)
(* the boss; the queue and the connections keep what they had.             *)
LEMMA ExitFacts ==
    ASSUME IInv, Exit
    PROVE  /\ ~ alive' /\ bpc' = "create" /\ lock' = None /\ ctx' = None
           /\ \A w \in Worker : pc'[w] = "new" /\ total_read'[w] = 0 /\ unsent'[w] = 0
           /\ TypeOK'
<1>1. TypeOK /\ 0 \in 0 .. BufferSize
  BY SizeFacts DEF IInv
<1>2. /\ ~ alive' /\ bpc' = "create" /\ lock' = None /\ ctx' = None
      /\ pc' = [w \in Worker |-> "new"]
      /\ total_read' = [w \in Worker |-> 0] /\ unsent' = [w \in Worker |-> 0]
      /\ UNCHANGED <<request_queue, task, freed, truncated, socket, peer, header,
                     delivered, failed>>
  BY DEF Exit, netVars
<1>3. alive' \in BOOLEAN
  BY DEF Exit
<1>4. TypeOK'
  BY <1>1, <1>2, <1>3 DEF TypeOK, WorkerPC, BossPC
<1>. QED
  BY <1>2, <1>4

(* What gfs_send of n bytes does to the bytes a client has been sent.      *)
LEMMA SentFacts ==
    ASSUME NEW s \in Seq(Nat), NEW m \in Nat, NEW n \in Nat, NEW t \in Seq(Nat),
           t = s \o [k \in 1 .. n |-> m + k]
    PROVE  /\ Len(s) \in Nat /\ Len(t) = Len(s) + n
           /\ \A k \in 1 .. Len(s) : t[k] = s[k]
           /\ \A k \in Len(s) + 1 .. Len(s) + n : t[k] = m + k - Len(s)
<1>. DEFINE b == [k \in 1 .. n |-> m + k]
<1>1. b \in Seq(Nat) /\ Len(b) = n
  OBVIOUS
<1>. QED  BY <1>1, ConcatProperties

-----------------------------------------------------------------------------
(* The initial states.                                                     *)
LEMMA InitIInv == Init => IInv
<1>. SUFFICES ASSUME Init PROVE IInv
  OBVIOUS
<1>. USE ServerAssumption DEF Init
<1>1. TypeOK
  BY DEF TypeOK, WorkerPC, BossPC
<1>2. NoWorkerSleepsThroughWork
  BY DEF NoWorkerSleepsThroughWork, LockDiscipline
<1>3. HandsInv /\ SentInv
  BY DEF HandsInv, SentInv, Sent, SentUpTo, Busy
<1>4. OwnersInv /\ FreshInv
  BY DEF OwnersInv, Owners, Waits, Served, FreshInv, Fresh
<1>5. ServingInv /\ OpenSocketsExplained
  BY DEF ServingInv, Serving, OpenSocketsExplained, Busy
<1>. QED
  BY <1>1, <1>2, <1>3, <1>4, <1>5 DEF IInv

(* Every step keeps every variable in its type: a worker's count of unsent *)
(* bytes stays in its buffer.                                              *)
LEMMA TypeStep == IInv /\ [Next]_vars => TypeOK'
<1>. SUFFICES ASSUME IInv, [Next]_vars PROVE TypeOK'
  OBVIOUS
<1>. USE ServerAssumption DEF TypeOK, WorkerPC, BossPC, At, BossAt, Goto, BossGoto,
         poolVars, readVars, netVars, Busy
<1>1. TypeOK
  BY DEF IInv
<1>2. ASSUME NEW w \in Worker, Lock(w) \/ WaitForTask(w) \/ SpuriousWakeup(w)
      PROVE  TypeOK'
  BY <1>1, <1>2 DEF Lock, WaitForTask, SpuriousWakeup
<1>3. ASSUME NEW w \in Worker, TakeTask(w) PROVE TypeOK'
  BY <1>1, <1>3, QueueFacts DEF TakeTask
<1>4. ASSUME NEW w \in Worker, Refuse(w) PROVE TypeOK'
  <2>1. task[w] \in Conn
    BY <1>4, TaskFacts DEF Refuse
  <2>2. peer' \in [Conn -> {"up", "stalled", "closed", "broken"}]
    BY <1>1, <1>4, <2>1, WriteFacts DEF Refuse, SendStatus
  <2>. QED  BY <1>1, <1>4, <2>1, <2>2 DEF Refuse, SendStatus, Status
<1>5. ASSUME NEW w \in Worker, SendOk(w) PROVE TypeOK'
  <2>1. task[w] \in Conn
    BY <1>5, TaskFacts DEF SendOk
  <2>2. peer' \in [Conn -> {"up", "stalled", "closed", "broken"}]
    BY <1>1, <1>5, <2>1, WriteFacts DEF SendOk
  <2>. QED  BY <1>1, <1>5, <2>1, <2>2 DEF SendOk, Status
<1>6. ASSUME NEW w \in Worker, Read(w) PROVE TypeOK'
  <2>1. task[w] \in Conn
    BY <1>6, TaskFacts DEF Read
  <2>. DEFINE left == Size[task[w]] - total_read[w]
  <2>2. left \in Int
    <3>1. Size[task[w]] \in Int
      BY <2>1, SizeFacts
    <3>2. total_read[w] \in Nat
      BY <1>1
    <3>. QED  BY <3>1, <3>2
  <2>3. \A n \in 1 .. (IF left < BufferSize THEN left ELSE BufferSize) :
           n \in 0 .. BufferSize /\ total_read[w] + n \in Nat
    BY <1>1, <2>2
  <2>4. ASSUME NEW n \in 1 .. (IF left < BufferSize THEN left ELSE BufferSize),
               total_read' = [total_read EXCEPT ![w] = @ + n],
               unsent' = [unsent EXCEPT ![w] = n]
        PROVE  total_read' \in [Worker -> Nat] /\ unsent' \in [Worker -> 0 .. BufferSize]
    BY <1>1, <2>3, <2>4
  <2>5. total_read' \in [Worker -> Nat] /\ unsent' \in [Worker -> 0 .. BufferSize]
    BY <1>1, <1>6, <2>4 DEF Read
  <2>6. truncated' \subseteq Conn /\ pc' \in [Worker -> WorkerPC]
    BY <1>1, <1>6, <2>1 DEF Read
  <2>. QED  BY <1>1, <1>6, <2>5, <2>6 DEF Read
<1>7. ASSUME NEW w \in Worker, Send(w) PROVE TypeOK'
  <2>1. task[w] \in Conn
    BY <1>7, TaskFacts DEF Send
  <2>2. peer' \in [Conn -> {"up", "stalled", "closed", "broken"}]
    BY <1>1, <1>7, <2>1, WriteFacts DEF Send
  <2>3. unsent[w] \in 1 .. total_read[w]
    BY <1>7 DEF Send, IInv, ServingInv, Serving
  <2>4. unsent' \in [Worker -> 0 .. BufferSize]
    <3>1. ASSUME NEW n \in 1 .. unsent[w], unsent' = [unsent EXCEPT ![w] = @ - n]
          PROVE  unsent' \in [Worker -> 0 .. BufferSize]
      BY <1>1, <3>1, SizeFacts
    <3>2. ASSUME unsent' = [unsent EXCEPT ![w] = 0]
          PROVE  unsent' \in [Worker -> 0 .. BufferSize]
      BY <1>1, <3>2, SizeFacts
    <3>. QED  BY <1>7, <3>1, <3>2 DEF Send
  <2>5. pc' \in [Worker -> WorkerPC] /\ failed' \subseteq Conn
    <3>1. Goto(w, "drain") \/ Goto(w, "read") \/ Goto(w, "send")
      BY <1>7 DEF Send
    <3>2. failed' \subseteq failed \union {task[w]}
      BY <1>7 DEF Send
    <3>. QED  BY <1>1, <2>1, <3>1, <3>2
  <2>6. delivered' \in [Conn -> Seq(Nat)]
    <3>1. CASE UNCHANGED delivered
      BY <1>1, <3>1
    <3>2. ASSUME NEW n \in 1 .. unsent[w],
                 delivered' = [delivered EXCEPT ![task[w]] =
                     @ \o [k \in 1 .. n |-> total_read[w] - unsent[w] + k]]
          PROVE  delivered' \in [Conn -> Seq(Nat)]
      <4>. DEFINE b == [k \in 1 .. n |-> total_read[w] - unsent[w] + k]
      <4>1. n \in Nat /\ \A k \in 1 .. n : total_read[w] - unsent[w] + k \in Nat
        BY <1>1, <2>3
      <4>2. b \in Seq(Nat)
        BY <4>1
      <4>3. delivered[task[w]] \o b \in Seq(Nat)
        BY <1>1, <2>1, <4>2, ConcatProperties
      <4>. QED  BY <1>1, <3>2, <4>3
    <3>. QED  BY <1>7, <3>1, <3>2 DEF Send
  <2>. QED  BY <1>1, <1>7, <2>2, <2>4, <2>5, <2>6 DEF Send
<1>8. ASSUME NEW w \in Worker, Drain(w) \/ FreeTask(w) PROVE TypeOK'
  <2>1. task[w] \in Conn
    BY <1>8, TaskFacts DEF Drain, FreeTask
  <2>2. 0 \in Nat /\ 0 \in 0 .. BufferSize
    BY SizeFacts
  <2>3. CASE Drain(w)
    BY <1>1, <2>1, <2>3 DEF Drain
  <2>4. CASE FreeTask(w)
    <3>1. total_read' \in [Worker -> Nat] /\ unsent' \in [Worker -> 0 .. BufferSize]
      BY <1>1, <2>2, <2>4 DEF FreeTask
    <3>. QED  BY <1>1, <2>1, <2>4, <3>1 DEF FreeTask
  <2>. QED  BY <1>8, <2>3, <2>4
<1>9. ASSUME NEW w \in Worker, CreateThread(w) PROVE TypeOK'
  BY <1>1, <1>9 DEF CreateThread
<1>10. ASSUME NEW c \in Conn, Accept(c) \/ PeerDone(c) \/ PeerGone(c) \/ PeerStalls(c) PROVE TypeOK'
  BY <1>1, <1>10 DEF Accept, PeerDone, PeerGone, PeerStalls, Connected
<1>11. CASE ParseInvalid
  <2>1. ctx \in Conn
    BY <1>11, ContextFacts DEF ParseInvalid
  <2>2. peer' \in [Conn -> {"up", "stalled", "closed", "broken"}]
    BY <1>1, <1>11, <2>1, WriteFacts DEF ParseInvalid, SendStatus
  <2>. QED  BY <1>1, <1>11, <2>1, <2>2 DEF ParseInvalid, SendStatus, Status
<1>12. CASE BossDrain \/ Return
  BY <1>1, <1>12 DEF BossDrain, Return, IInv, HandsInv
<1>13. CASE Enqueue
  <2>1. Append(request_queue, ctx) \in Seq(Conn)
    BY <1>1, <1>13, ContextFacts, AppendProperties DEF Enqueue
  <2>. QED  BY <1>1, <1>13, <2>1 DEF Enqueue
<1>14. CASE ParseValid \/ HandlerLock \/ Quiescent \/ UNCHANGED vars
  BY <1>1, <1>14 DEF ParseValid, HandlerLock, Quiescent, vars
<1>15. CASE Broadcast
  BY <1>1, <1>15 DEF Broadcast
<1>16. CASE Exit
  BY <1>16, ExitFacts
<1>. QED
  BY <1>2, <1>3, <1>4, <1>5, <1>6, <1>7, <1>8, <1>9, <1>10, <1>11, <1>12, <1>13,
     <1>14, <1>15, <1>16 DEF Next, WorkerStep, BossStep, BrokenPipe, CreateFails, Signal

(* Every step keeps the mutex in the hands the program counters say.       *)
LEMMA LockStep == IInv /\ [Next]_vars => LockDiscipline'
<1>. SUFFICES ASSUME IInv, [Next]_vars PROVE LockDiscipline'
  OBVIOUS
<1>. USE ServerAssumption
     DEF TypeOK, LockDiscipline, At, BossAt, Goto, BossGoto, poolVars, readVars, netVars
<1>1. TypeOK /\ LockDiscipline
  BY DEF IInv, NoWorkerSleepsThroughWork
<1>2. ASSUME NEW w \in Worker, Lock(w) PROVE LockDiscipline'
  BY <1>1, <1>2 DEF Lock
<1>3. ASSUME NEW w \in Worker, WaitForTask(w) \/ TakeTask(w) PROVE LockDiscipline'
  <2>1. lock = w /\ lock' = None /\ bpc' = bpc
    BY <1>1, <1>3 DEF WaitForTask, TakeTask
  <2>2. pc'[w] # "check" /\ \A v \in Worker \ {w} : pc'[v] = pc[v]
    BY <1>1, <1>3 DEF WaitForTask, TakeTask
  <2>. QED  BY <1>1, <2>1, <2>2
<1>4. ASSUME NEW w \in Worker, Refuse(w) \/ SendOk(w) \/ Read(w) PROVE LockDiscipline'
  <2>1. UNCHANGED <<bpc, lock>>
    BY <1>4 DEF Refuse, SendOk, Read
  <2>2. Goto(w, "drain") \/ Goto(w, "read") \/ Goto(w, "free") \/ Goto(w, "send")
    BY <1>4 DEF Refuse, SendOk, Read
  <2>3. pc[w] # "check"
    BY <1>4 DEF Refuse, SendOk, Read
  <2>. QED  BY <1>1, <2>1, <2>2, <2>3
<1>5. ASSUME NEW w \in Worker, Send(w) PROVE LockDiscipline'
  <2>1. UNCHANGED <<bpc, lock>> /\ pc[w] = "send"
    BY <1>5 DEF Send
  <2>2. Goto(w, "drain") \/ Goto(w, "read") \/ Goto(w, "send")
    BY <1>5 DEF Send
  <2>. QED  BY <1>1, <2>1, <2>2
<1>6. ASSUME NEW w \in Worker,
             Drain(w) \/ FreeTask(w) \/ SpuriousWakeup(w) \/ CreateThread(w)
      PROVE  LockDiscipline'
  BY <1>1, <1>6 DEF Drain, FreeTask, SpuriousWakeup, CreateThread
<1>7. ASSUME NEW c \in Conn, Accept(c) \/ PeerDone(c) \/ PeerGone(c) \/ PeerStalls(c) PROVE LockDiscipline'
  BY <1>1, <1>7 DEF Accept, PeerDone, PeerGone, PeerStalls, Connected
<1>8. CASE ParseValid \/ ParseInvalid \/ BossDrain \/ Return
  BY <1>1, <1>8 DEF ParseValid, ParseInvalid, BossDrain, Return
<1>9. CASE Enqueue \/ HandlerLock
  BY <1>1, <1>9 DEF Enqueue, HandlerLock
<1>10. CASE Broadcast
  BY <1>1, <1>10 DEF Broadcast
<1>11. CASE Quiescent \/ UNCHANGED vars
  BY <1>1, <1>11 DEF Quiescent, vars
<1>12. CASE Exit
  BY <1>12, ExitFacts
<1>. QED
  BY <1>2, <1>3, <1>4, <1>5, <1>6, <1>7, <1>8, <1>9, <1>10, <1>11, <1>12
  DEF Next, WorkerStep, BossStep, BrokenPipe, CreateFails, Signal

(* Every step keeps the promise that no wakeup of a worker is lost.        *)
LEMMA WakeupStep == IInv /\ [Next]_vars => NoWorkerSleepsThroughWork'
<1>. SUFFICES ASSUME IInv, [Next]_vars, NEW v \in Worker,
                     pc'[v] = "wait", request_queue' # << >>
              PROVE  bpc' = "broadcast"
  BY LockStep DEF NoWorkerSleepsThroughWork
<1>. USE DEF TypeOK, At, BossAt, Goto, BossGoto, poolVars, readVars, netVars
<1>1. /\ TypeOK
      /\ pc[v] = "wait" /\ request_queue # << >> => bpc = "broadcast"
  BY DEF IInv, NoWorkerSleepsThroughWork
<1>2. ASSUME NEW w \in Worker, Lock(w) \/ WaitForTask(w) \/ TakeTask(w)
      PROVE  bpc' = "broadcast"
  BY <1>1, <1>2 DEF Lock, WaitForTask, TakeTask
<1>3. ASSUME NEW w \in Worker,
             Refuse(w) \/ SendOk(w) \/ Read(w) \/ Send(w) \/ Drain(w)
      PROVE  bpc' = "broadcast"
  <2>1. UNCHANGED <<bpc, request_queue>> /\ (pc'[v] = "wait" => pc[v] = "wait")
    <3>1. UNCHANGED <<bpc, request_queue>>
      BY <1>3 DEF Refuse, SendOk, Read, Send, Drain
    <3>2. \/ UNCHANGED pc \/ Goto(w, "drain") \/ Goto(w, "read") \/ Goto(w, "free")
          \/ Goto(w, "send")
      BY <1>3 DEF Refuse, SendOk, Read, Send, Drain
    <3>. QED  BY <1>1, <3>1, <3>2
  <2>. QED  BY <1>1, <2>1
<1>4. ASSUME NEW w \in Worker, FreeTask(w) \/ SpuriousWakeup(w) PROVE bpc' = "broadcast"
  BY <1>1, <1>4 DEF FreeTask, SpuriousWakeup
<1>5. ASSUME NEW w \in Worker, CreateThread(w) PROVE bpc' = "broadcast"
  BY <1>1, <1>5 DEF CreateThread
<1>6. ASSUME NEW c \in Conn, Accept(c) \/ PeerDone(c) \/ PeerGone(c) \/ PeerStalls(c)
      PROVE  bpc' = "broadcast"
  BY <1>1, <1>6 DEF Accept, PeerDone, PeerGone, PeerStalls, Connected
<1>7. CASE ParseValid \/ ParseInvalid \/ BossDrain \/ HandlerLock
  BY <1>1, <1>7 DEF ParseValid, ParseInvalid, BossDrain, HandlerLock
<1>8. CASE Enqueue
  BY <1>8 DEF Enqueue
<1>9. CASE Broadcast \/ Return
  BY <1>1, <1>9 DEF Broadcast, Return
<1>10. CASE Quiescent \/ UNCHANGED vars
  BY <1>1, <1>10 DEF Quiescent, vars
<1>11. CASE Exit
  BY <1>11, ExitFacts
<1>. QED
  BY <1>2, <1>3, <1>4, <1>5, <1>6, <1>7, <1>8, <1>9, <1>10, <1>11
  DEF Next, WorkerStep, BossStep, BrokenPipe, CreateFails, Signal

(* Every step keeps the connections in the hands the program counters say. *)
LEMMA HandsStep == IInv /\ [Next]_vars => HandsInv'
<1>. SUFFICES ASSUME IInv, [Next]_vars PROVE HandsInv'
  OBVIOUS
<1>. USE SizeFacts
     DEF TypeOK, HandsInv, Busy, At, BossAt, Goto, BossGoto, poolVars, readVars, netVars
<1>1. TypeOK /\ HandsInv
  BY DEF IInv
<1>2. ASSUME NEW w \in Worker, Lock(w) \/ WaitForTask(w) \/ SpuriousWakeup(w)
      PROVE  HandsInv'
  BY <1>1, <1>2 DEF Lock, WaitForTask, SpuriousWakeup
<1>3. ASSUME NEW w \in Worker, TakeTask(w) PROVE HandsInv'
  BY <1>1, <1>3, QueueFacts DEF TakeTask
<1>4. ASSUME NEW w \in Worker,
             Refuse(w) \/ SendOk(w) \/ Read(w) \/ Send(w) \/ Drain(w)
      PROVE  HandsInv'
  <2>1. UNCHANGED <<bpc, ctx, task, alive>> /\ alive /\ pc[w] \in Busy
    BY <1>4 DEF Refuse, SendOk, Read, Send, Drain
  <2>2. \/ UNCHANGED pc \/ Goto(w, "drain") \/ Goto(w, "read") \/ Goto(w, "free")
        \/ Goto(w, "send")
    BY <1>4 DEF Refuse, SendOk, Read, Send, Drain
  <2>. QED  BY <1>1, <2>1, <2>2
<1>5. ASSUME NEW w \in Worker, FreeTask(w) \/ CreateThread(w) PROVE HandsInv'
  BY <1>1, <1>5 DEF FreeTask, CreateThread
<1>6. ASSUME NEW c \in Conn, Accept(c) \/ PeerDone(c) \/ PeerGone(c) \/ PeerStalls(c) PROVE HandsInv'
  BY <1>1, <1>6 DEF Accept, PeerDone, PeerGone, PeerStalls, Connected
<1>7. CASE ParseValid \/ ParseInvalid \/ BossDrain
  BY <1>1, <1>7 DEF ParseValid, ParseInvalid, BossDrain
<1>8. CASE Enqueue \/ HandlerLock \/ Return
  BY <1>1, <1>8 DEF Enqueue, HandlerLock, Return
<1>9. CASE Broadcast
  BY <1>1, <1>9 DEF Broadcast
<1>10. CASE Quiescent \/ UNCHANGED vars
  BY <1>1, <1>10 DEF Quiescent, vars
<1>11. CASE Exit
  BY <1>11, ExitFacts
<1>. QED
  BY <1>2, <1>3, <1>4, <1>5, <1>6, <1>7, <1>8, <1>9, <1>10, <1>11
  DEF Next, WorkerStep, BossStep, BrokenPipe, CreateFails, Signal

(* Every step keeps each connection in one place.                          *)
LEMMA OwnersStep == IInv /\ [Next]_vars => OwnersInv'
<1>. SUFFICES ASSUME IInv, [Next]_vars, NEW c \in Conn PROVE Owners(c)'
  BY DEF OwnersInv
<1>. USE SizeFacts
     DEF TypeOK, At, BossAt, Goto, BossGoto, poolVars, readVars, netVars
<1>1. TypeOK /\ Owners(c)
  BY DEF IInv, OwnersInv
<1>2. ASSUME UNCHANGED <<request_queue, ctx, task, freed>>,
             socket'[c] = "idle" => socket[c] = "idle"
      PROVE  Owners(c)'
  BY <1>1, <1>2 DEF Owners, Waits, Served
<1>3. ASSUME NEW w \in Worker, TakeTask(w) PROVE Owners(c)'
  <2>. DEFINE q == request_queue
  <2>1. /\ Len(q) \in Nat /\ Len(q) > 0 /\ Len(q') = Len(q) - 1
        /\ \A k \in 1 .. Len(q') : k + 1 \in 1 .. Len(q) /\ q'[k] = q[k + 1]
        /\ UNCHANGED <<ctx, freed, socket>>
    BY <1>1, <1>3, QueueFacts DEF TakeTask
  <2>2. 1 \in 1 .. Len(q)
    BY <2>1
  <2>3. task[w] = None /\ \A v \in Worker : task'[v] = IF v = w THEN q[1] ELSE task[v]
    BY <1>1, <1>3, QueueFacts DEF TakeTask, IInv, HandsInv, Busy
  <2>4. \A j, k \in 1 .. Len(q') : q'[j] = c /\ q'[k] = c => j = k
    <3>1. ASSUME NEW j \in 1 .. Len(q'), NEW k \in 1 .. Len(q'), q'[j] = c, q'[k] = c
          PROVE  j = k
      <4>1. j + 1 = k + 1
        BY <1>1, <2>1, <3>1 DEF Owners
      <4>. QED  BY <2>1, <4>1
    <3>. QED  BY <3>1
  <2>5. CASE c = q[1]
    <3>1. Waits(c) /\ ~ Waits(c)'
      <4>1. \A k \in 1 .. Len(q) : q[k] = c => k = 1
        BY <1>1, <2>2, <2>5 DEF Owners
      <4>2. \A k \in 1 .. Len(q') : k + 1 # 1
        BY <2>1
      <4>. QED  BY <2>1, <2>2, <2>5, <4>1, <4>2 DEF Waits
    <3>2. \A v \in Worker : task'[v] = c => v = w
      BY <1>1, <2>3, <3>1 DEF Owners, Served
    <3>. QED  BY <1>1, <2>1, <2>4, <3>1, <3>2 DEF Owners
  <2>6. CASE c # q[1]
    <3>1. Waits(c)' => Waits(c)
      BY <2>1 DEF Waits
    <3>2. \A v \in Worker : task'[v] = c => task[v] = c
      BY <2>3, <2>6
    <3>. QED  BY <1>1, <2>1, <2>4, <3>1, <3>2 DEF Owners, Served
  <2>. QED  BY <2>5, <2>6
<1>4. ASSUME NEW w \in Worker, FreeTask(w) PROVE Owners(c)'
  <2>1. /\ UNCHANGED <<request_queue, ctx, socket>>
        /\ freed' = freed \union {task[w]}
        /\ \A v \in Worker : task'[v] = IF v = w THEN None ELSE task[v]
    BY <1>1, <1>4 DEF FreeTask
  <2>. QED  BY <1>1, <2>1 DEF Owners, Waits, Served
<1>5. ASSUME NEW d \in Conn, Accept(d) PROVE Owners(c)'
  <2>1. UNCHANGED <<request_queue, task, freed>> /\ ctx' = d /\ socket[d] = "idle"
    BY <1>5 DEF Accept
  <2>2. \A e \in Conn : socket'[e] = IF e = d THEN "open" ELSE socket[e]
    BY <1>1, <1>5 DEF Accept
  <2>. QED  BY <1>1, <2>1, <2>2 DEF Owners, Waits, Served
<1>6. CASE BossDrain
  <2>1. /\ UNCHANGED <<request_queue, task>> /\ ctx \in Conn
        /\ freed' = freed \union {ctx} /\ ctx' = None
    BY <1>6, ContextFacts DEF BossDrain
  <2>2. \A e \in Conn : socket'[e] = IF e = ctx THEN "closed" ELSE socket[e]
    BY <1>1, <1>6 DEF BossDrain
  <2>. QED  BY <1>1, <2>1, <2>2 DEF Owners, Waits, Served
<1>7. CASE Enqueue
  <2>. DEFINE q == request_queue
  <2>1. /\ q' = Append(q, ctx) /\ ctx \in Conn /\ ctx' = None
        /\ UNCHANGED <<task, freed, socket>>
    BY <1>7, ContextFacts DEF Enqueue
  <2>2. /\ Len(q) \in Nat /\ Len(q') = Len(q) + 1 /\ q'[Len(q) + 1] = ctx
        /\ \A k \in 1 .. Len(q) : q'[k] = q[k]
    BY <1>1, <2>1, AppendProperties
  <2>3. \A k \in 1 .. Len(q') : k \in 1 .. Len(q) \/ k = Len(q) + 1
    BY <2>2
  <2>4. CASE c = ctx
    <3>1. ~ Waits(c) /\ ~ Served(c) /\ c \notin freed /\ socket[c] # "idle"
      BY <1>1, <2>4 DEF Owners
    <3>2. \A k \in 1 .. Len(q') : q'[k] = c => k = Len(q) + 1
      BY <2>2, <2>3, <3>1 DEF Waits
    <3>. QED  BY <2>1, <3>1, <3>2 DEF Owners, Served
  <2>5. CASE c # ctx
    <3>1. \A k \in 1 .. Len(q') : q'[k] = c => k \in 1 .. Len(q) /\ q[k] = c
      BY <2>2, <2>3, <2>5
    <3>. QED  BY <1>1, <2>1, <3>1 DEF Owners, Waits, Served
  <2>. QED  BY <2>4, <2>5
<1>8. CASE Return
  <2>1. ctx = None
    BY <1>8 DEF Return, IInv, HandsInv
  <2>. QED  BY <1>2, <1>8, <2>1 DEF Return
<1>9. ASSUME NEW w \in Worker,
             \/ Lock(w) \/ WaitForTask(w) \/ Refuse(w) \/ SendOk(w) \/ Read(w) \/ Send(w)
             \/ SpuriousWakeup(w) \/ CreateThread(w)
      PROVE  Owners(c)'
  BY <1>2, <1>9 DEF Lock, WaitForTask, Refuse, SendStatus, SendOk, Read, Send,
                    SpuriousWakeup, CreateThread
<1>10. ASSUME NEW w \in Worker, Drain(w) PROVE Owners(c)'
  BY <1>1, <1>2, <1>10 DEF Drain
<1>11. ASSUME NEW d \in Conn, PeerDone(d) \/ PeerGone(d) \/ PeerStalls(d) PROVE Owners(c)'
  BY <1>2, <1>11 DEF PeerDone, PeerGone, PeerStalls, Connected
<1>12. CASE \/ ParseValid \/ ParseInvalid \/ HandlerLock \/ Broadcast \/ Quiescent
            \/ UNCHANGED vars
  BY <1>2, <1>12 DEF ParseValid, ParseInvalid, SendStatus, HandlerLock, Broadcast,
                     Quiescent, vars
<1>13. CASE Exit
  <2>1. UNCHANGED <<request_queue, task, freed, socket>> /\ ctx' = None
    BY <1>13 DEF Exit
  <2>. QED  BY <1>1, <2>1 DEF Owners, Waits, Served
<1>. QED
  BY <1>3, <1>4, <1>5, <1>6, <1>7, <1>8, <1>9, <1>10, <1>11, <1>12, <1>13
  DEF Next, WorkerStep, BossStep, BrokenPipe, CreateFails, Signal

(* A connection a worker serves is nowhere else.                           *)
LEMMA ServedFacts ==
    ASSUME IInv, NEW w \in Worker, pc[w] \in Busy
    PROVE  /\ task[w] \in Conn /\ task[w] # ctx
           /\ ~ Waits(task[w]) /\ socket[task[w]] # "idle" /\ task[w] \notin freed
           /\ \A v \in Worker : v # w => task[v] # task[w]
BY TaskFacts DEF IInv, OwnersInv, Owners, Served

(* Nor is the one the boss has.                                            *)
LEMMA BossFacts ==
    ASSUME IInv, bpc \in {"parse", "reject", "lock", "enqueue"}
    PROVE  /\ ctx \in Conn
           /\ ~ Waits(ctx) /\ socket[ctx] # "idle" /\ ctx \notin freed
           /\ \A v \in Worker : task[v] # ctx
BY ContextFacts DEF IInv, OwnersInv, Owners, Served

(* Every step leaves the connections that no worker serves unused.         *)
LEMMA FreshStep == IInv /\ [Next]_vars => FreshInv'
<1>. SUFFICES ASSUME IInv, [Next]_vars PROVE FreshInv'
  OBVIOUS
<1>. USE SizeFacts
     DEF TypeOK, At, BossAt, Goto, BossGoto, poolVars, readVars, netVars
<1>1. TypeOK /\ FreshInv
  BY DEF IInv
<1>2. ASSUME UNCHANGED <<bpc, ctx, header, delivered, socket>>,
             \A c \in Conn : Waits(c)' => Waits(c)
      PROVE  FreshInv'
  BY <1>1, <1>2 DEF FreshInv, Fresh
<1>3. ASSUME UNCHANGED <<bpc, ctx, request_queue, socket>>,
             NEW w \in Worker, pc[w] \in Busy,
             \A c \in Conn \ {task[w]} : header'[c] = header[c] /\ delivered'[c] = delivered[c]
      PROVE  FreshInv'
  <2>1. /\ task[w] \in Conn /\ task[w] # ctx
        /\ ~ Waits(task[w]) /\ socket[task[w]] # "idle"
    BY <1>3, ServedFacts
  <2>2. bpc = "reject" => ctx \in Conn
    BY ContextFacts
  <2>. QED  BY <1>1, <1>3, <2>1, <2>2 DEF FreshInv, Fresh, Waits
<1>4. ASSUME NEW w \in Worker, TakeTask(w) PROVE FreshInv'
  <2>1. \A k \in 1 .. Len(request_queue') :
           k + 1 \in 1 .. Len(request_queue) /\ request_queue'[k] = request_queue[k + 1]
    BY <1>1, <1>4, QueueFacts DEF TakeTask
  <2>. QED  BY <1>2, <1>4, <2>1 DEF TakeTask, Waits
<1>5. ASSUME NEW w \in Worker, Refuse(w) PROVE FreshInv'
  <2>1. pc[w] \in Busy
    BY <1>5 DEF Refuse, Busy
  <2>2. \A c \in Conn \ {task[w]} : header'[c] = header[c]
    BY <1>1, <1>5 DEF Refuse, SendStatus
  <2>. QED  BY <1>3, <1>5, <2>1, <2>2 DEF Refuse, SendStatus
<1>6. ASSUME NEW w \in Worker, SendOk(w) PROVE FreshInv'
  <2>1. pc[w] \in Busy
    BY <1>6 DEF SendOk, Busy
  <2>2. \A c \in Conn \ {task[w]} : header'[c] = header[c]
    BY <1>1, <1>6 DEF SendOk
  <2>. QED  BY <1>3, <1>6, <2>1, <2>2 DEF SendOk
<1>7. ASSUME NEW w \in Worker, Send(w) PROVE FreshInv'
  <2>1. pc[w] \in Busy
    BY <1>7 DEF Send, Busy
  <2>2. \A c \in Conn \ {task[w]} : delivered'[c] = delivered[c]
    BY <1>1, <1>7 DEF Send
  <2>. QED  BY <1>3, <1>7, <2>1, <2>2 DEF Send
<1>8. ASSUME NEW w \in Worker, Drain(w) PROVE FreshInv'
  <2>1. UNCHANGED <<bpc, ctx, request_queue, header, delivered>>
    BY <1>8 DEF Drain
  <2>2. \A c \in Conn : socket'[c] = "idle" => socket[c] = "idle"
    BY <1>1, <1>8 DEF Drain
  <2>. QED  BY <1>1, <2>1, <2>2 DEF FreshInv, Fresh, Waits
<1>9. ASSUME NEW d \in Conn, Accept(d) PROVE FreshInv'
  <2>1. /\ UNCHANGED <<request_queue, header, delivered>>
        /\ ctx' = d /\ bpc' = "parse" /\ socket[d] = "idle"
    BY <1>9 DEF Accept
  <2>2. \A c \in Conn : socket'[c] = "idle" => socket[c] = "idle"
    BY <1>1, <1>9 DEF Accept
  <2>. QED  BY <1>1, <2>1, <2>2 DEF FreshInv, Fresh, Waits
<1>10. CASE ParseInvalid
  <2>1. /\ UNCHANGED <<request_queue, ctx, socket, delivered>> /\ bpc' = "reject"
        /\ ctx \in Conn /\ ~ Waits(ctx) /\ socket[ctx] # "idle"
    BY <1>10, BossFacts DEF ParseInvalid, SendStatus
  <2>2. header'[ctx] = "INVALID" /\ \A c \in Conn \ {ctx} : header'[c] = header[c]
    BY <1>1, <1>10, <2>1 DEF ParseInvalid, SendStatus
  <2>3. bpc # "reject"
    BY <1>10 DEF ParseInvalid
  <2>. QED  BY <1>1, <2>1, <2>2, <2>3 DEF FreshInv, Fresh, Waits
<1>11. CASE BossDrain
  <2>1. UNCHANGED <<request_queue, header, delivered>> /\ ctx' = None /\ bpc' = "accept"
    BY <1>11 DEF BossDrain
  <2>2. \A c \in Conn : socket'[c] = "idle" => socket[c] = "idle"
    BY <1>1, <1>11 DEF BossDrain
  <2>. QED  BY <1>1, <2>1, <2>2 DEF FreshInv, Fresh, Waits
<1>12. CASE Enqueue
  <2>. DEFINE q == request_queue
  <2>1. /\ UNCHANGED <<socket, header, delivered>> /\ bpc = "enqueue"
        /\ ctx' = None /\ bpc' = "broadcast" /\ ctx \in Conn /\ q' = Append(q, ctx)
    BY <1>12, ContextFacts DEF Enqueue
  <2>2. \A c \in Conn : Waits(c)' => Waits(c) \/ c = ctx
    <3>1. \A k \in 1 .. Len(q') : q'[k] = ctx \/ (k \in 1 .. Len(q) /\ q'[k] = q[k])
      BY <1>1, <2>1, AppendProperties
    <3>. QED  BY <3>1 DEF Waits
  <2>. QED  BY <1>1, <2>1, <2>2 DEF FreshInv, Fresh
<1>13. CASE Return
  <2>1. ctx = None
    BY <1>13 DEF Return, IInv, HandsInv
  <2>. QED  BY <1>1, <1>13, <2>1 DEF Return, FreshInv, Fresh, Waits
<1>14. ASSUME NEW w \in Worker,
              \/ Lock(w) \/ WaitForTask(w) \/ Read(w) \/ FreeTask(w)
              \/ SpuriousWakeup(w)
       PROVE  FreshInv'
  BY <1>2, <1>14 DEF Lock, WaitForTask, Read, FreeTask, SpuriousWakeup, Waits
<1>15. ASSUME NEW d \in Conn, PeerDone(d) \/ PeerGone(d) \/ PeerStalls(d) PROVE FreshInv'
  BY <1>2, <1>15 DEF PeerDone, PeerGone, PeerStalls, Connected, Waits
<1>16. CASE Quiescent \/ UNCHANGED vars
  BY <1>2, <1>16 DEF Quiescent, vars, Waits
<1>17. CASE (\E w \in Worker : CreateThread(w)) \/ ParseValid \/ HandlerLock \/ Broadcast
  <2>1. UNCHANGED <<request_queue, ctx, socket, header, delivered>>
    BY <1>17 DEF CreateThread, ParseValid, HandlerLock, Broadcast
  <2>2. bpc # "reject" /\ bpc' # "reject"
    BY <1>17 DEF CreateThread, ParseValid, HandlerLock, Broadcast
  <2>. QED  BY <1>1, <2>1, <2>2 DEF FreshInv, Fresh, Waits
<1>18. CASE Exit
  <2>1. UNCHANGED <<request_queue, socket, header, delivered>>
    BY <1>18 DEF Exit
  <2>. QED  BY <1>1, <1>18, <2>1, ExitFacts DEF FreshInv, Fresh, Waits
<1>. QED
  BY <1>4, <1>5, <1>6, <1>7, <1>8, <1>9, <1>10, <1>11, <1>12, <1>13, <1>14, <1>15,
     <1>16, <1>17, <1>18
  DEF Next, WorkerStep, BossStep, BrokenPipe, CreateFails, Signal

(* The bytes of one gfs_send go to the end of what the client has.         *)
LEMMA SendFacts ==
    ASSUME IInv, NEW w \in Worker, pc[w] = "send", NEW n \in 1 .. unsent[w],
           delivered' = [delivered EXCEPT ![task[w]] =
               @ \o [k \in 1 .. n |-> total_read[w] - unsent[w] + k]]
    PROVE  LET c == task[w]
               s == delivered[c]
           IN  /\ n \in Nat /\ unsent[w] - n \in Nat
               /\ Len(s) \in Nat /\ Len(delivered'[c]) = Len(s) + n
               /\ \A k \in 1 .. Len(s) : delivered'[c][k] = s[k]
               /\ \A k \in Len(s) + 1 .. Len(s) + n :
                     delivered'[c][k] = total_read[w] - unsent[w] + k - Len(s)
               /\ \A d \in Conn \ {c} : delivered'[d] = delivered[d]
<1>. DEFINE c == task[w]
            s == delivered[c]
            m == total_read[w] - unsent[w]
            t == s \o [k \in 1 .. n |-> m + k]
<1>1. c \in Conn
  BY TaskFacts DEF Busy
<1>2. unsent[w] \in 1 .. total_read[w] /\ total_read[w] \in Nat
  BY DEF IInv, ServingInv, Serving, TypeOK
<1>3. n \in Nat /\ unsent[w] - n \in Nat /\ m \in Nat
  BY <1>2
<1>4. s \in Seq(Nat) /\ delivered'[c] = t /\ \A d \in Conn \ {c} : delivered'[d] = delivered[d]
  BY <1>1 DEF IInv, TypeOK
<1>5. t \in Seq(Nat)
  <2>1. [k \in 1 .. n |-> m + k] \in Seq(Nat)
    BY <1>3
  <2>. QED  BY <1>4, <2>1, ConcatProperties
<1>6. /\ Len(s) \in Nat /\ Len(t) = Len(s) + n
      /\ \A k \in 1 .. Len(s) : t[k] = s[k]
      /\ \A k \in Len(s) + 1 .. Len(s) + n : t[k] = m + k - Len(s)
  BY <1>3, <1>4, <1>5, SentFacts
<1>. QED
  BY <1>3, <1>4, <1>6

(* They are the next ones of the buffer: from beyond all that was sent.    *)
LEMMA SentSoFar ==
    ASSUME IInv, NEW w \in Worker, pc[w] = "send", NEW n \in 1 .. unsent[w],
           delivered' = [delivered EXCEPT ![task[w]] =
               @ \o [k \in 1 .. n |-> total_read[w] - unsent[w] + k]]
    PROVE  LET c == task[w]
               m == total_read[w] - unsent[w]
           IN  /\ \A k \in 1 .. Len(delivered[c]) : delivered[c][k] <= m
               /\ \A k \in 1 .. Len(delivered'[c]) : delivered'[c][k] <= m + n
<1>. DEFINE c == task[w]
            s == delivered[c]
            m == total_read[w] - unsent[w]
<1>1. /\ n \in Nat /\ Len(s) \in Nat /\ Len(delivered'[c]) = Len(s) + n
      /\ \A k \in 1 .. Len(s) : delivered'[c][k] = s[k]
      /\ \A k \in Len(s) + 1 .. Len(s) + n : delivered'[c][k] = m + k - Len(s)
  BY SendFacts
<1>2. m \in Int
  BY DEF IInv, TypeOK
<1>3. \A k \in 1 .. Len(s) : s[k] <= m
  BY DEF IInv, ServingInv, Serving, SentUpTo
<1>4. \A k \in 1 .. Len(s) : s[k] \in Nat
  BY TaskFacts DEF IInv, TypeOK, Busy
<1>5. ASSUME NEW k \in 1 .. Len(s) + n PROVE delivered'[c][k] <= m + n
  <2>1. CASE k \in 1 .. Len(s)
    BY <1>1, <1>2, <1>3, <1>4, <2>1
  <2>2. CASE k \in Len(s) + 1 .. Len(s) + n
    <3>1. delivered'[c][k] = m + k - Len(s)
      BY <1>1, <2>2
    <3>. QED  BY <1>1, <1>2, <2>2, <3>1
  <2>. QED  BY <1>1, <2>1, <2>2
<1>. QED
  BY <1>1, <1>3, <1>5

(* Every step keeps what the workers know of their connections.            *)
LEMMA ServingStep == IInv /\ [Next]_vars => ServingInv'
<1>. SUFFICES ASSUME IInv, [Next]_vars, NEW v \in Worker PROVE Serving(v)'
  BY DEF ServingInv
<1>. USE SizeFacts
     DEF TypeOK, At, BossAt, Goto, BossGoto, poolVars, readVars, netVars
<1>1. TypeOK /\ Serving(v)
  BY DEF IInv, ServingInv
<1>2. ASSUME pc'[v] \notin Busy, total_read'[v] = 0 PROVE Serving(v)'
  BY <1>2 DEF Serving, Busy
<1>3. ASSUME pc'[v] = pc[v], task'[v] = task[v], total_read'[v] = total_read[v],
             unsent'[v] = unsent[v],
             pc[v] \in Busy => /\ header'[task[v]] = header[task[v]]
                               /\ delivered'[task[v]] = delivered[task[v]]
                               /\ socket'[task[v]] = "open" => socket[task[v]] = "open",
             failed \subseteq failed', truncated \subseteq truncated'
      PROVE  Serving(v)'
  BY <1>1, <1>3 DEF Serving, Fresh, Explained, SentUpTo, Busy
<1>4. ASSUME NEW w \in Worker, w # v, pc[w] \in Busy,
             \A u \in Worker \ {w} :
                 /\ pc'[u] = pc[u] /\ task'[u] = task[u]
                 /\ total_read'[u] = total_read[u] /\ unsent'[u] = unsent[u],
             \A c \in Conn \ {task[w]} :
                 /\ header'[c] = header[c] /\ delivered'[c] = delivered[c]
                 /\ socket'[c] = socket[c],
             failed \subseteq failed', truncated \subseteq truncated'
      PROVE  Serving(v)'
  <2>1. task[v] # task[w]
    BY <1>4, ServedFacts
  <2>2. pc[v] \in Busy => task[v] \in Conn
    BY TaskFacts
  <2>. QED  BY <1>3, <1>4, <2>1, <2>2
<1>5. ASSUME NEW w \in Worker, TakeTask(w) PROVE Serving(v)'
  <2>1. CASE v = w
    <3>1. Waits(Head(request_queue)) /\ Head(request_queue) \in Conn
      BY <1>1, <1>5, QueueFacts DEF TakeTask, Waits
    <3>2. Fresh(Head(request_queue))
      BY <3>1 DEF IInv, FreshInv
    <3>3. /\ pc'[v] = "get" /\ task'[v] = Head(request_queue) /\ total_read'[v] = 0
          /\ UNCHANGED <<header, delivered>>
      BY <1>1, <1>5, <2>1, <3>1 DEF TakeTask, Serving
    <3>4. Fresh(task[v])' /\ header'[task'[v]] # "INVALID"
      BY <3>2, <3>3 DEF Fresh, Status
    <3>. QED  BY <3>3, <3>4 DEF Serving, Busy
  <2>2. CASE v # w
    BY <1>1, <1>3, <1>5, <2>2, QueueFacts DEF TakeTask
  <2>. QED  BY <2>1, <2>2
<1>6. ASSUME NEW w \in Worker, Refuse(w) PROVE Serving(v)'
  <2>1. /\ task[w] \in Conn /\ pc[w] \in Busy
        /\ UNCHANGED <<task, total_read, unsent, socket, delivered, failed, truncated>>
        /\ \A u \in Worker : pc'[u] = IF u = w THEN "drain" ELSE pc[u]
    BY <1>1, <1>6, TaskFacts DEF Refuse, SendStatus, Busy
  <2>2. /\ header'[task[w]] \in {"FILE_NOT_FOUND", "ERROR"}
        /\ \A c \in Conn \ {task[w]} : header'[c] = header[c]
    BY <1>1, <1>6, <2>1 DEF Refuse, SendStatus
  <2>3. CASE v = w
    BY <2>1, <2>2, <2>3 DEF Serving, Busy
  <2>4. CASE v # w
    BY <1>4, <2>1, <2>2, <2>4
  <2>. QED  BY <2>3, <2>4
<1>7. ASSUME NEW w \in Worker, SendOk(w) PROVE Serving(v)'
  <2>. DEFINE c == task[w]
  <2>1. /\ c \in Conn /\ pc[w] = "get" /\ pc[w] \in Busy /\ Size[c] >= 0
        /\ UNCHANGED <<task, total_read, unsent, socket, delivered, truncated>>
    BY <1>7, TaskFacts DEF SendOk, Busy
  <2>2. \/ /\ header' = [header EXCEPT ![c] = "OK"] /\ Goto(w, "read") /\ UNCHANGED failed
        \/ /\ failed' = failed \union {c} /\ Goto(w, "free") /\ UNCHANGED header
    BY <1>7 DEF SendOk
  <2>3. CASE v = w
    <3>1. Fresh(c) /\ total_read[w] = 0 /\ Len(delivered[c]) = 0
      BY <1>1, <2>1, <2>3 DEF Serving, Fresh
    <3>2. CASE header' = [header EXCEPT ![c] = "OK"] /\ Goto(w, "read") /\ UNCHANGED failed
      <4>1. pc'[v] = "read" /\ header'[c] = "OK"
        BY <1>1, <2>1, <2>3, <3>2
      <4>. QED  BY <2>1, <2>3, <3>1, <4>1 DEF Serving, SentUpTo, Busy
    <3>3. CASE failed' = failed \union {c} /\ Goto(w, "free") /\ UNCHANGED header
      <4>1. pc'[v] = "free" /\ header'[c] # "INVALID" /\ c \in failed'
        BY <1>1, <2>1, <2>3, <3>1, <3>3 DEF Fresh, Status
      <4>. QED  BY <2>1, <2>3, <4>1 DEF Serving, Busy, Explained
    <3>. QED  BY <2>2, <3>2, <3>3
  <2>4. CASE v # w
    <3>1. \A u \in Worker \ {w} : pc'[u] = pc[u]
      BY <1>1, <2>2
    <3>2. \A d \in Conn \ {c} : header'[d] = header[d]
      BY <1>1, <2>2
    <3>. QED  BY <1>4, <2>1, <2>2, <2>4, <3>1, <3>2
  <2>. QED  BY <2>3, <2>4
<1>8. ASSUME NEW w \in Worker, Read(w) PROVE Serving(v)'
  <2>. DEFINE c == task[w]
              left == Size[c] - total_read[w]
  <2>1. /\ c \in Conn /\ pc[w] = "read" /\ pc[w] \in Busy
        /\ UNCHANGED <<task, socket, header, delivered, failed>>
    BY <1>8, TaskFacts DEF Read, Busy
  <2>2. left \in Int /\ total_read[w] \in Nat /\ Size[c] \in Int
    BY <1>1, <2>1
  <2>3. CASE left <= 0 /\ Goto(w, "free") /\ UNCHANGED readVars
    <3>1. CASE v = w
      <4>1. /\ header[c] = "OK" /\ header[c] # "INVALID"
            /\ c \in failed \/ total_read[w] < Size[c] \/ Size[c] = 0
        BY <1>1, <2>1, <3>1 DEF Serving
      <4>2. Explained(c)
        BY <2>2, <2>3, <4>1 DEF Explained
      <4>3. pc'[v] = "free"
        BY <1>1, <2>3, <3>1
      <4>. QED  BY <2>1, <2>3, <3>1, <4>1, <4>2, <4>3 DEF Serving, Busy, Explained
    <3>2. CASE v # w
      BY <1>1, <1>4, <2>1, <2>3, <3>2
    <3>. QED  BY <3>1, <3>2
  <2>4. ASSUME NEW n \in 1 .. (IF left < BufferSize THEN left ELSE BufferSize),
               total_read' = [total_read EXCEPT ![w] = @ + n],
               unsent' = [unsent EXCEPT ![w] = n],
               Goto(w, "send"), UNCHANGED truncated
        PROVE  Serving(v)'
    <3>1. n \in Nat /\ n >= 1 /\ n <= left
      BY <2>2
    <3>2. n \in 0 .. BufferSize
      BY <2>2
    <3>3. CASE v = w
      <4>1. pc'[v] = "send" /\ total_read'[v] = total_read[v] + n /\ unsent'[v] = n
        BY <1>1, <2>4, <3>1, <3>2, <3>3
      <4>2. total_read'[v] <= Size[c] /\ n \in 1 .. total_read'[v]
        BY <2>2, <3>1, <3>3, <4>1
      <4>3. c \notin failed => Len(delivered[c]) = total_read'[v] - unsent'[v]
        BY <1>1, <2>1, <2>2, <3>1, <3>3, <4>1 DEF Serving
      <4>4. header[c] = "OK" /\ SentUpTo(c, total_read[v])
        BY <1>1, <2>1, <3>3 DEF Serving
      <4>5. SentUpTo(c, total_read'[v] - unsent'[v])
        <5>1. total_read'[v] - unsent'[v] = total_read[v]
          BY <2>2, <3>1, <3>3, <4>1
        <5>. QED  BY <4>4, <5>1
      <4>. QED  BY <2>1, <3>3, <4>1, <4>2, <4>3, <4>4, <4>5 DEF Serving, SentUpTo, Busy
    <3>4. CASE v # w
      BY <1>1, <1>4, <2>1, <2>4, <3>4
    <3>. QED  BY <3>3, <3>4
  <2>5. CASE /\ truncated' = truncated \union {c} /\ Goto(w, "free")
             /\ UNCHANGED <<total_read, unsent>>
    <3>1. CASE v = w
      <4>1. pc'[v] = "free" /\ header[c] = "OK"
        BY <1>1, <2>1, <2>5, <3>1 DEF Serving
      <4>. QED  BY <2>1, <2>5, <3>1, <4>1 DEF Serving, Busy, Explained
    <3>2. CASE v # w
      BY <1>1, <1>4, <2>1, <2>5, <3>2
    <3>. QED  BY <3>1, <3>2
  <2>. QED  BY <1>8, <2>3, <2>4, <2>5 DEF Read
<1>9. ASSUME NEW w \in Worker, Send(w) PROVE Serving(v)'
  <2>. DEFINE c == task[w]
  <2>1. /\ c \in Conn /\ pc[w] = "send" /\ pc[w] \in Busy
        /\ UNCHANGED <<task, total_read, truncated, socket, header>>
    BY <1>9, TaskFacts DEF Send, Busy
  <2>2. /\ total_read[w] \in Nat /\ Size[c] \in Int /\ unsent[w] \in 1 .. total_read[w]
        /\ header[c] = "OK" /\ total_read[w] <= Size[c]
        /\ SentUpTo(c, total_read[w] - unsent[w])
        /\ c \notin failed => Len(delivered[c]) = total_read[w] - unsent[w]
    BY <1>1, <2>1 DEF IInv, ServingInv, Serving
  <2>3. ASSUME NEW n \in 1 .. unsent[w],
               delivered' = [delivered EXCEPT ![c] =
                   @ \o [k \in 1 .. n |-> total_read[w] - unsent[w] + k]],
               unsent' = [unsent EXCEPT ![w] = @ - n],
               Goto(w, IF Len(delivered'[c]) >= Size[c] THEN "drain"
                       ELSE IF n = unsent[w] THEN "read" ELSE "send"),
               UNCHANGED failed
        PROVE  Serving(v)'
    <3>1. /\ n \in Nat /\ unsent[w] - n \in Nat
          /\ Len(delivered[c]) \in Nat /\ Len(delivered'[c]) = Len(delivered[c]) + n
          /\ \A d \in Conn \ {c} : delivered'[d] = delivered[d]
      BY <2>1, <2>3, SendFacts
    <3>2. \A k \in 1 .. Len(delivered'[c]) :
             delivered'[c][k] <= total_read[w] - unsent[w] + n
      BY <2>1, <2>2, <2>3, SentSoFar
    <3>3. CASE v = w
      <4>1. unsent'[v] = unsent[v] - n /\ unsent[w] \in Nat
        BY <1>1, <2>3, <3>3
      <4>2. c \notin failed => Len(delivered'[c]) = total_read[v] - unsent'[v]
        <5>1. unsent[w] \in Int /\ (c \notin failed => Len(delivered[c]) = total_read[w] - unsent[w])
          BY <2>2
        <5>. QED  BY <2>2, <3>1, <3>3, <4>1, <5>1
      <4>6. \A k \in 1 .. Len(delivered'[c]) :
               delivered'[c][k] <= total_read[v] - unsent'[v]
        <5>1. total_read[v] - unsent'[v] = total_read[w] - unsent[w] + n
          BY <2>2, <3>1, <3>3, <4>1
        <5>. QED  BY <3>2, <5>1
      <4>3. CASE Len(delivered'[c]) >= Size[c]
        <5>1. pc'[v] = "drain"
          BY <1>1, <2>3, <3>3, <4>3
        <5>. QED  BY <2>1, <2>2, <3>3, <5>1 DEF Serving, Busy
      <4>4. CASE ~ Len(delivered'[c]) >= Size[c] /\ n = unsent[w]
        <5>1. pc'[v] = "read"
          BY <1>1, <2>3, <3>3, <4>4
        <5>2. c \notin failed => Len(delivered'[c]) = total_read[v] /\ total_read[v] < Size[c]
          BY <2>2, <3>3, <4>1, <4>2, <4>4
        <5>3. unsent'[v] = 0 /\ total_read[v] \in Int
          BY <2>2, <3>3, <4>1, <4>4
        <5>4. \A k \in 1 .. Len(delivered'[c]) : delivered'[c][k] <= total_read[v]
          BY <4>6, <5>3
        <5>. QED  BY <2>1, <2>2, <2>3, <3>3, <5>1, <5>2, <5>4 DEF Serving, SentUpTo, Busy
      <4>5. CASE ~ Len(delivered'[c]) >= Size[c] /\ n # unsent[w]
        <5>1. pc'[v] = "send"
          BY <1>1, <2>3, <3>3, <4>5
        <5>2. unsent'[v] \in 1 .. total_read[v]
          BY <2>2, <3>1, <3>3, <4>1, <4>5
        <5>. QED
          BY <2>1, <2>2, <2>3, <3>3, <4>2, <4>6, <5>1, <5>2 DEF Serving, SentUpTo, Busy
      <4>. QED  BY <4>3, <4>4, <4>5
    <3>4. CASE v # w
      <4>1. \A u \in Worker \ {w} : pc'[u] = pc[u] /\ unsent'[u] = unsent[u]
        BY <1>1, <2>3
      <4>. QED  BY <1>4, <2>1, <2>3, <3>1, <3>4, <4>1
    <3>. QED  BY <3>3, <3>4
  <2>4. CASE /\ unsent' = [unsent EXCEPT ![w] = 0] /\ failed' = failed \union {c}
             /\ Goto(w, "read") /\ UNCHANGED delivered
    <3>1. CASE v = w
      <4>1. pc'[v] = "read" /\ c \in failed'
        BY <1>1, <2>4, <3>1
      <4>2. SentUpTo(c, total_read[v])
        BY <1>1, <2>1, <2>2, <3>1 DEF SentUpTo
      <4>. QED  BY <2>1, <2>2, <2>4, <3>1, <4>1, <4>2 DEF Serving, SentUpTo, Busy
    <3>2. CASE v # w
      BY <1>1, <1>4, <2>1, <2>4, <3>2
    <3>. QED  BY <3>1, <3>2
  <2>. QED  BY <1>9, <2>3, <2>4 DEF Send
<1>10. ASSUME NEW w \in Worker, Drain(w) PROVE Serving(v)'
  <2>1. /\ task[w] \in Conn /\ pc[w] = "drain" /\ pc[w] \in Busy
        /\ UNCHANGED <<task, total_read, unsent, header, delivered, failed, truncated>>
        /\ \A u \in Worker : pc'[u] = IF u = w THEN "free" ELSE pc[u]
        /\ socket' = [socket EXCEPT ![task[w]] = "closed"]
    BY <1>1, <1>10, TaskFacts DEF Drain, Busy
  <2>2. CASE v = w
    <3>1. header[task[w]] # "INVALID" /\ socket'[task[w]] = "closed"
      BY <1>1, <2>1, <2>2 DEF Serving
    <3>. QED  BY <2>1, <2>2, <3>1 DEF Serving, Busy, Explained
  <2>3. CASE v # w
    BY <1>1, <1>4, <2>1, <2>3
  <2>. QED  BY <2>2, <2>3
<1>11. ASSUME NEW w \in Worker, FreeTask(w) PROVE Serving(v)'
  <2>1. CASE v = w
    BY <1>1, <1>2, <1>11, <2>1 DEF FreeTask, Busy
  <2>2. CASE v # w
    BY <1>1, <1>3, <1>11, <2>2 DEF FreeTask
  <2>. QED  BY <2>1, <2>2
<1>12. ASSUME NEW w \in Worker,
              Lock(w) \/ WaitForTask(w) \/ SpuriousWakeup(w) \/ CreateThread(w)
       PROVE  Serving(v)'
  <2>1. UNCHANGED <<task, readVars, netVars>>
    BY <1>12 DEF Lock, WaitForTask, SpuriousWakeup, CreateThread
  <2>2. pc'[v] = pc[v] \/ pc'[v] \notin Busy
    BY <1>1, <1>12 DEF Lock, WaitForTask, SpuriousWakeup, CreateThread, Busy
  <2>3. pc'[v] \notin Busy => pc[v] \notin {"read", "send", "drain", "free"}
    BY <1>1, <1>12 DEF Lock, WaitForTask, SpuriousWakeup, CreateThread, Busy
  <2>. QED  BY <1>1, <1>2, <1>3, <2>1, <2>2, <2>3 DEF Serving
<1>13. CASE Broadcast
  <2>1. UNCHANGED <<task, readVars, netVars>>
    BY <1>13 DEF Broadcast
  <2>2. pc'[v] = pc[v] \/ pc'[v] \notin Busy
    BY <1>1, <1>13 DEF Broadcast, Busy
  <2>3. pc'[v] \notin Busy => pc[v] \notin {"read", "send", "drain", "free"}
    BY <1>1, <1>13 DEF Broadcast, Busy
  <2>. QED  BY <1>1, <1>2, <1>3, <2>1, <2>2, <2>3 DEF Serving
<1>14. ASSUME NEW d \in Conn, Accept(d) PROVE Serving(v)'
  <2>1. /\ UNCHANGED <<pc, task, readVars, header, delivered, failed>>
        /\ socket[d] = "idle" /\ socket' = [socket EXCEPT ![d] = "open"]
    BY <1>14 DEF Accept
  <2>2. pc[v] \in Busy => task[v] \in Conn /\ task[v] # d
    BY <2>1, ServedFacts
  <2>. QED  BY <1>1, <1>3, <2>1, <2>2
<1>15. CASE ParseInvalid
  <2>1. /\ UNCHANGED <<pc, task, readVars, socket, delivered, failed>>
        /\ header' = [header EXCEPT ![ctx] = "INVALID"]
    BY <1>15 DEF ParseInvalid, SendStatus
  <2>2. pc[v] \in Busy => task[v] \in Conn /\ task[v] # ctx
    BY ServedFacts
  <2>. QED  BY <1>1, <1>3, <2>1, <2>2
<1>16. CASE BossDrain
  <2>1. /\ UNCHANGED <<pc, task, readVars, header, delivered, failed>>
        /\ socket' = [socket EXCEPT ![ctx] = "closed"]
    BY <1>16 DEF BossDrain
  <2>2. pc[v] \in Busy => task[v] \in Conn
    BY TaskFacts
  <2>. QED  BY <1>1, <1>3, <2>1, <2>2
<1>17. CASE Exit
  BY <1>2, <1>17, ExitFacts DEF Busy
<1>18. ASSUME NEW d \in Conn, PeerDone(d) \/ PeerGone(d) \/ PeerStalls(d) PROVE Serving(v)'
  BY <1>3, <1>18 DEF PeerDone, PeerGone, PeerStalls, Connected
<1>19. CASE \/ ParseValid \/ Enqueue \/ Return \/ HandlerLock \/ Quiescent
            \/ UNCHANGED vars
  BY <1>3, <1>19 DEF ParseValid, Enqueue, Return, HandlerLock, Quiescent, vars
<1>. QED
  BY <1>5, <1>6, <1>7, <1>8, <1>9, <1>10, <1>11, <1>12, <1>13, <1>14, <1>15, <1>16,
     <1>17, <1>18, <1>19
  DEF Next, WorkerStep, BossStep, BrokenPipe, CreateFails, Signal

(* Every step leaves what the clients have been sent in order, and without *)
(* a gap where no gfs_send failed.                                         *)
LEMMA SentStep == IInv /\ [Next]_vars => SentInv'
<1>. SUFFICES ASSUME IInv, [Next]_vars PROVE SentInv'
  OBVIOUS
<1>1. TypeOK /\ SentInv
  BY DEF IInv
<1>2. CASE UNCHANGED delivered /\ failed \subseteq failed'
  BY <1>1, <1>2 DEF SentInv, Sent, SentUpTo
<1>3. ASSUME NEW w \in Worker, Send(w) PROVE SentInv'
  <2>. DEFINE c == task[w]
              s == delivered[c]
              m == total_read[w] - unsent[w]
  <2>1. c \in Conn /\ pc[w] = "send"
    BY <1>3, TaskFacts DEF Send, At, Busy
  <2>2. ASSUME NEW n \in 1 .. unsent[w], UNCHANGED failed,
               delivered' = [delivered EXCEPT ![c] =
                   @ \o [k \in 1 .. n |-> total_read[w] - unsent[w] + k]]
        PROVE  SentInv'
    <3>. DEFINE t == delivered'[c]
    <3>1. /\ n \in Nat /\ Len(s) \in Nat /\ Len(t) = Len(s) + n
          /\ \A k \in 1 .. Len(s) : t[k] = s[k]
          /\ \A k \in Len(s) + 1 .. Len(s) + n : t[k] = m + k - Len(s)
          /\ \A d \in Conn \ {c} : delivered'[d] = delivered[d]
      BY <2>1, <2>2, SendFacts
    <3>2. /\ \A k \in 1 .. Len(s) : s[k] <= m
          /\ \A k \in 1 .. Len(t) : t[k] <= m + n
      BY <2>1, <2>2, SentSoFar
    <3>3. /\ m \in Int /\ total_read[w] \in Int /\ unsent[w] \in Int /\ Size[c] \in Int
          /\ \A k \in 1 .. Len(s) : s[k] \in Int
      BY <1>1, <2>1, SizeFacts DEF TypeOK
    <3>4. /\ total_read[w] <= Size[c]
          /\ c \notin failed => Len(s) = m
      BY <2>1 DEF IInv, ServingInv, Serving
    <3>5. /\ \A j, k \in 1 .. Len(s) : j < k => s[j] < s[k]
          /\ c \notin failed => \A k \in 1 .. Len(s) : s[k] = k
      BY <1>1, <2>1 DEF SentInv, Sent
    <3>6. \A k \in 1 .. Len(t) : k \in 1 .. Len(s) \/ k \in Len(s) + 1 .. Len(s) + n
      BY <3>1
    <3>7. \A k \in 1 .. Len(t) : t[k] \in Int
      <4>. SUFFICES ASSUME NEW k \in 1 .. Len(t) PROVE t[k] \in Int
        OBVIOUS
      <4>1. CASE k \in 1 .. Len(s)
        BY <3>1, <3>3, <4>1
      <4>2. CASE k \in Len(s) + 1 .. Len(s) + n
        <5>1. t[k] = m + k - Len(s) /\ k \in Int
          BY <3>1, <4>2
        <5>. HIDE DEF m
        <5>. QED  BY <3>1, <3>3, <5>1
      <4>. QED  BY <3>6, <4>1, <4>2
    <3>8. \A k \in 1 .. Len(t) : t[k] <= Size[c]
      <4>1. n <= unsent[w]
        BY <3>3
      <4>2. m + n <= Size[c]
        BY <3>1, <3>3, <3>4, <4>1
      <4>. HIDE DEF m
      <4>. QED  BY <3>1, <3>2, <3>3, <3>7, <4>2
    <3>9. c \notin failed => \A k \in 1 .. Len(t) : t[k] = k
      <4>. SUFFICES ASSUME c \notin failed, NEW k \in 1 .. Len(t) PROVE t[k] = k
        OBVIOUS
      <4>1. CASE k \in 1 .. Len(s)
        BY <3>1, <3>5, <4>1
      <4>2. CASE k \in Len(s) + 1 .. Len(s) + n
        <5>1. t[k] = m + k - Len(s) /\ Len(s) = m /\ k \in Int
          BY <3>1, <3>4, <4>2
        <5>. QED  BY <3>1, <5>1
      <4>. QED  BY <3>6, <4>1, <4>2
    <3>10. \A j, k \in 1 .. Len(t) : j < k => t[j] < t[k]
      <4>. SUFFICES ASSUME NEW j \in 1 .. Len(t), NEW k \in 1 .. Len(t), j < k
                    PROVE  t[j] < t[k]
        OBVIOUS
      <4>. HIDE DEF m
      <4>1. CASE k \in 1 .. Len(s)
        <5>1. j \in 1 .. Len(s)
          BY <3>1, <4>1
        <5>. QED  BY <3>1, <3>5, <4>1, <5>1
      <4>2. CASE k \in Len(s) + 1 .. Len(s) + n /\ j \in 1 .. Len(s)
        <5>1. t[k] = m + k - Len(s) /\ t[j] = s[j] /\ s[j] <= m /\ s[j] \in Int
          BY <3>1, <3>2, <3>3, <4>2
        <5>2. Len(s) \in Int /\ n \in Int /\ m \in Int
          BY <3>1, <3>3
        <5>. HIDE DEF t, s
        <5>3. k > Len(s) /\ k \in Int
          BY <4>2, <5>2
        <5>4. m < m + k - Len(s)
          BY <5>2, <5>3
        <5>. QED  BY <5>1, <5>2, <5>3, <5>4
      <4>3. CASE k \in Len(s) + 1 .. Len(s) + n /\ j \in Len(s) + 1 .. Len(s) + n
        <5>1. t[k] = m + k - Len(s) /\ t[j] = m + j - Len(s)
          BY <3>1, <4>3
        <5>2. Len(s) \in Int /\ n \in Int /\ m \in Int
          BY <3>1, <3>3
        <5>. HIDE DEF t, s
        <5>3. j \in Int /\ k \in Int
          BY <4>3, <5>2
        <5>4. m + j - Len(s) < m + k - Len(s)
          BY <5>2, <5>3
        <5>. QED  BY <5>1, <5>4
      <4>. QED  BY <3>6, <4>1, <4>2, <4>3
    <3>11. ASSUME NEW d \in Conn, d = c PROVE Sent(d)'
      BY <2>2, <3>8, <3>9, <3>10, <3>11 DEF Sent, SentUpTo
    <3>12. ASSUME NEW d \in Conn \ {c} PROVE Sent(d)'
      <4>1. delivered'[d] = delivered[d] /\ Sent(d)
        BY <1>1, <3>1 DEF SentInv
      <4>. QED  BY <2>2, <4>1 DEF Sent, SentUpTo
    <3>. QED  BY <3>11, <3>12 DEF SentInv
  <2>. QED  BY <1>2, <1>3, <2>2 DEF Send
<1>4. ASSUME ~ \E w \in Worker : Send(w) PROVE UNCHANGED delivered /\ failed \subseteq failed'
  BY <1>4 DEF Next, WorkerStep, BossStep, Lock, WaitForTask, TakeTask, Refuse, SendStatus,
       SendOk, Read, Drain, FreeTask, SpuriousWakeup, CreateThread, Accept, PeerDone,
       PeerGone, PeerStalls, ParseValid, ParseInvalid, BossDrain, Enqueue, Broadcast,
       Return, HandlerLock, BrokenPipe, CreateFails, Signal, Exit, Quiescent, vars, netVars
<1>. QED
  BY <1>2, <1>3, <1>4

(* Every step frees only connections that are closed, or left open for one *)
(* of the three reasons, and reopens none.                                 *)
LEMMA OpenSocketsStep == IInv /\ [Next]_vars => OpenSocketsExplained'
<1>. SUFFICES ASSUME IInv, [Next]_vars PROVE OpenSocketsExplained'
  OBVIOUS
<1>. SUFFICES ASSUME NEW c \in Conn, c \in freed' PROVE Explained(c)'
  BY TypeStep DEF TypeOK, OpenSocketsExplained, Explained
<1>. USE SizeFacts
     DEF TypeOK, At, BossAt, Goto, BossGoto, poolVars, readVars, netVars
<1>1. TypeOK /\ (c \in freed => Explained(c))
  BY DEF IInv, OpenSocketsExplained, Explained
<1>2. ASSUME Explained(c), UNCHANGED <<truncated, failed, header, socket>>
      PROVE  Explained(c)'
  BY <1>2 DEF Explained
<1>3. ASSUME c \in freed, header'[c] = header[c], socket'[c] = "open" => socket[c] = "open",
             failed \subseteq failed', truncated \subseteq truncated'
      PROVE  Explained(c)'
  BY <1>1, <1>3 DEF Explained
<1>4. ASSUME NEW w \in Worker, FreeTask(w) PROVE Explained(c)'
  <2>1. task[w] \in Conn /\ Explained(task[w])
    BY <1>4, TaskFacts DEF FreeTask, IInv, ServingInv, Serving, Busy
  <2>. QED  BY <1>1, <1>2, <1>4, <2>1 DEF FreeTask
<1>5. CASE BossDrain
  <2>1. ctx \in Conn
    BY <1>5, ContextFacts DEF BossDrain
  <2>2. CASE c = ctx
    BY <1>1, <1>5, <2>1, <2>2 DEF BossDrain, Explained
  <2>3. CASE c # ctx
    BY <1>1, <1>3, <1>5, <2>1, <2>3 DEF BossDrain
  <2>. QED  BY <2>2, <2>3
<1>6. ASSUME NEW w \in Worker,
             Refuse(w) \/ SendOk(w) \/ Read(w) \/ Send(w) \/ Drain(w)
      PROVE  Explained(c)'
  <2>1. pc[w] \in Busy /\ freed' = freed
    BY <1>6 DEF Refuse, SendOk, Read, Send, Drain, Busy
  <2>2. task[w] \in Conn /\ c # task[w]
    BY <2>1, ServedFacts
  <2>3. header'[c] = header[c]
    BY <1>1, <1>6, <2>2 DEF Refuse, SendStatus, SendOk, Read, Send, Drain
  <2>4. socket'[c] = socket[c]
    BY <1>1, <1>6, <2>2 DEF Refuse, SendStatus, SendOk, Read, Send, Drain
  <2>5. failed \subseteq failed' /\ truncated \subseteq truncated'
    BY <1>6 DEF Refuse, SendStatus, SendOk, Read, Send, Drain
  <2>. QED  BY <1>3, <2>1, <2>3, <2>4, <2>5
<1>7. CASE ParseInvalid
  <2>1. ctx \in Conn /\ ctx \notin freed /\ freed' = freed
    BY <1>7, BossFacts DEF ParseInvalid
  <2>. QED  BY <1>1, <1>3, <1>7, <2>1 DEF ParseInvalid, SendStatus
<1>8. ASSUME NEW d \in Conn, Accept(d) PROVE Explained(c)'
  <2>1. freed' = freed /\ c # d
    BY <1>8 DEF Accept, IInv, OwnersInv, Owners
  <2>. QED  BY <1>1, <1>3, <1>8, <2>1 DEF Accept
<1>9. CASE Return
  <2>1. ctx = None
    BY <1>9 DEF Return, IInv, HandsInv
  <2>. QED  BY <1>3, <1>9, <2>1 DEF Return
<1>10. ASSUME NEW w \in Worker,
              \/ Lock(w) \/ WaitForTask(w) \/ TakeTask(w)
              \/ SpuriousWakeup(w) \/ CreateThread(w)
       PROVE  Explained(c)'
  BY <1>3, <1>10 DEF Lock, WaitForTask, TakeTask, SpuriousWakeup, CreateThread
<1>11. ASSUME NEW d \in Conn, PeerDone(d) \/ PeerGone(d) \/ PeerStalls(d) PROVE Explained(c)'
  BY <1>3, <1>11 DEF PeerDone, PeerGone, PeerStalls, Connected
<1>12. CASE \/ ParseValid \/ Enqueue \/ HandlerLock \/ Broadcast \/ Exit \/ Quiescent
            \/ UNCHANGED vars
  BY <1>3, <1>12 DEF ParseValid, Enqueue, HandlerLock, Broadcast, Exit, Quiescent, vars
<1>. QED
  BY <1>4, <1>5, <1>6, <1>7, <1>8, <1>9, <1>10, <1>11, <1>12
  DEF Next, WorkerStep, BossStep, BrokenPipe, CreateFails, Signal

-----------------------------------------------------------------------------
(* The invariant is inductive.                                             *)
LEMMA Invariance == Spec => []IInv
<1>1. IInv /\ [Next]_vars => IInv'
  BY TypeStep, WakeupStep, HandsStep, OwnersStep, FreshStep, ServingStep, SentStep,
     OpenSocketsStep DEF IInv
<1>. QED
  BY InitIInv, <1>1, PTL DEF Spec

(* No wakeup of a worker is lost although gfs_handler broadcasts after it  *)
(* has given the mutex back; and the thread that owns the mutex is the one *)
(* that is between a lock and the matching unlock or wait.                 *)
THEOREM NoLostWakeup == Spec => []NoWorkerSleepsThroughWork
<1>1. IInv => NoWorkerSleepsThroughWork
  BY DEF IInv
<1>. QED  BY <1>1, Invariance, PTL

(* A gfcontext_t belongs to the boss, to one place of the queue or to one  *)
(* worker, and to nobody once it is freed: none is freed twice or used     *)
(* after it was freed.                                                     *)
THEOREM Ownership == Spec => []OneOwnerPerContext
<1>1. IInv => OneOwnerPerContext
  <2>. DEFINE queued(c) == {k \in DOMAIN request_queue : request_queue[k] = c}
              owners(c) == {w \in Worker : task[w] = c}
                              \union (IF ctx = c THEN {Boss} ELSE {})
  <2>. SUFFICES ASSUME IInv, NEW c \in Conn
                PROVE  /\ Cardinality(queued(c)) + Cardinality(owners(c)) <= 1
                       /\ c \in freed => queued(c) = {} /\ owners(c) = {}
    BY DEF OneOwnerPerContext
  <2>1. TypeOK /\ Owners(c) /\ DOMAIN request_queue = 1 .. Len(request_queue)
    BY DEF IInv, OwnersInv, TypeOK
  <2>2. Cardinality({}) = 0 /\ \A x : Cardinality({x}) = 1
    BY FS_EmptySet, FS_Singleton
  <2>3. queued(c) = {} \/ \E k : queued(c) = {k}
    <3>1. \A j, k \in queued(c) : j = k
      BY <2>1 DEF Owners
    <3>. HIDE DEF queued
    <3>. QED  BY <3>1
  <2>4. owners(c) = {} \/ \E x : owners(c) = {x}
    <3>1. CASE ctx = c
      <4>1. owners(c) = {Boss}
        BY <2>1, <3>1 DEF Owners, Served
      <4>. QED  BY <4>1
    <3>2. CASE ctx # c
      <4>1. owners(c) = {w \in Worker : task[w] = c}
        BY <3>2
      <4>2. \A v, w \in owners(c) : v = w
        BY <2>1, <4>1 DEF Owners
      <4>. HIDE DEF owners
      <4>. QED  BY <4>2
    <3>. QED  BY <3>1, <3>2
  <2>5. queued(c) = {} \/ owners(c) = {}
    BY <2>1 DEF Owners, Waits, Served
  <2>6. c \in freed => queued(c) = {} /\ owners(c) = {}
    BY <2>1 DEF Owners, Waits, Served
  <2>. HIDE DEF queued, owners
  <2>7. Cardinality(queued(c)) \in {0, 1} /\ Cardinality(owners(c)) \in {0, 1}
    BY <2>2, <2>3, <2>4
  <2>8. Cardinality(queued(c)) = 0 \/ Cardinality(owners(c)) = 0
    BY <2>2, <2>5
  <2>. QED  BY <2>6, <2>7, <2>8
<1>. QED  BY <1>1, Invariance, PTL

(* What a client receives is a prefix of the file it asked for, whatever   *)
(* counts pread and gfs_send return, as long as no gfs_send to it fails;   *)
(* after a failure it may have gaps, but is still in order, without a      *)
(* repetition and from within the file.  And every variable stays in its   *)
(* type, so no count of a worker leaves its buffer.                        *)
THEOREM Stream == Spec => []StreamIsPrefix
<1>1. IInv => StreamIsPrefix
  <2>. SUFFICES ASSUME IInv PROVE StreamIsPrefix
    OBVIOUS
  <2>1. TypeOK /\ \A c \in Conn : Sent(c)
    BY DEF IInv, SentInv
  <2>2. \A c \in Conn : DOMAIN delivered[c] = 1 .. Len(delivered[c])
    BY <2>1 DEF TypeOK
  <2>. QED  BY <2>1, <2>2 DEF Sent, SentUpTo, StreamIsPrefix
<1>. QED  BY <1>1, Invariance, PTL

(* A connection is left open only when the file was empty or came up       *)
(* short, or sending failed.                                               *)
THEOREM OpenSockets == Spec => []OpenSocketsExplained
<1>1. IInv => OpenSocketsExplained
  BY DEF IInv
<1>. QED  BY <1>1, Invariance, PTL

-----------------------------------------------------------------------------
(* The server implements the boss/worker pool.                             *)

(* The tasks done with, as the pool sees them: a refused request was never *)
(* a task.                                                                 *)
Done == freed \ {c \in Conn : header[c] = "INVALID"}

(* The three lists of the pool, read off an invariant state.               *)
LEMMA PoolFacts ==
    ASSUME IInv, NEW c \in Conn
    PROVE  /\ c \in Pool!Waiting <=> Waits(c)
           /\ c \in Pool!InHand <=> Served(c)
           /\ c \in Done => c \in freed
<1>1. DOMAIN request_queue = 1 .. Len(request_queue) /\ c # None
  BY SizeFacts DEF IInv, TypeOK
<1>2. c \in Pool!Waiting <=> Waits(c)
  BY <1>1 DEF Pool!Waiting, Waits
<1>3. c \in Pool!InHand <=> Served(c)
  BY <1>1 DEF Pool!InHand, Served
<1>. QED  BY <1>2, <1>3 DEF Done

(* A step that frees nothing, and answers nobody who was freed, leaves     *)
(* what is done unchanged.                                                 *)
LEMMA DoneFacts ==
    ASSUME TypeOK, UNCHANGED freed, \A c \in freed : header'[c] = header[c]
    PROVE  Done' = Done
BY DEF Done, TypeOK

(* Enqueue submits a task, TakeTask takes one, FreeTask finishes one, and  *)
(* every other step leaves the pool as it is.                              *)
LEMMA PoolStep == IInv /\ [Next]_vars => [Pool!Next]_(Pool!vars)
<1>. SUFFICES ASSUME IInv, [Next]_vars PROVE [Pool!Next]_(Pool!vars)
  OBVIOUS
<1>. USE SizeFacts
     DEF TypeOK, At, BossAt, Goto, BossGoto, poolVars, readVars, netVars
<1>1. TypeOK
  BY DEF IInv
<1>2. ASSUME UNCHANGED <<request_queue, task>>, Done' = Done
      PROVE  UNCHANGED Pool!vars
  BY <1>2 DEF Pool!vars, Done
<1>3. ASSUME UNCHANGED <<request_queue, task, freed, header>> PROVE UNCHANGED Pool!vars
  BY <1>1, <1>2, <1>3, DoneFacts
<1>4. ASSUME NEW w \in Worker, TakeTask(w) PROVE Pool!Take(w)
  <2>1. task[w] = None /\ request_queue # << >>
    BY <1>4 DEF TakeTask, IInv, HandsInv, Busy
  <2>2. Done' = Done
    BY <1>1, <1>4, DoneFacts DEF TakeTask
  <2>. QED  BY <1>4, <2>1, <2>2 DEF TakeTask, Pool!Take, Done
<1>5. ASSUME NEW w \in Worker, FreeTask(w) PROVE Pool!Finish(w)
  <2>1. task[w] \in Conn /\ header[task[w]] # "INVALID"
    BY <1>5, TaskFacts DEF FreeTask, IInv, ServingInv, Serving, Busy
  <2>2. Done' = Done \union {task[w]}
    BY <1>5, <2>1 DEF FreeTask, Done
  <2>. QED  BY <1>5, <2>1, <2>2 DEF FreeTask, Pool!Finish, Done
<1>6. CASE Enqueue
  <2>1. ctx \in Conn /\ ~ Waits(ctx) /\ ~ Served(ctx) /\ ctx \notin freed
    BY <1>6, BossFacts DEF Enqueue, Served
  <2>2. ctx \notin Pool!Waiting \union Pool!InHand \union Done
    BY <2>1, PoolFacts
  <2>3. Done' = Done
    BY <1>1, <1>6, DoneFacts DEF Enqueue
  <2>4. Pool!Submit(ctx)
    BY <1>6, <2>2, <2>3 DEF Enqueue, Pool!Submit, Done
  <2>. QED  BY <2>1, <2>4 DEF Pool!Next
<1>7. CASE BossDrain
  <2>1. ctx \in Conn /\ header[ctx] = "INVALID"
    BY <1>7, BossFacts DEF BossDrain, IInv, FreshInv
  <2>2. Done' = Done
    BY <1>7, <2>1 DEF BossDrain, Done
  <2>. QED  BY <1>2, <1>7, <2>2 DEF BossDrain
<1>8. CASE Return
  <2>1. ctx = None
    BY <1>8 DEF Return, IInv, HandsInv
  <2>. QED  BY <1>3, <1>8, <2>1 DEF Return
<1>9. ASSUME NEW w \in Worker, Refuse(w) \/ SendOk(w) PROVE UNCHANGED Pool!vars
  <2>1. pc[w] \in Busy
    BY <1>9 DEF Refuse, SendOk, Busy
  <2>2. task[w] \in Conn /\ task[w] \notin freed /\ UNCHANGED <<request_queue, task, freed>>
    BY <1>9, <2>1, ServedFacts DEF Refuse, SendOk
  <2>3. \A c \in freed : header'[c] = header[c]
    BY <1>1, <1>9, <2>2 DEF Refuse, SendStatus, SendOk
  <2>. QED  BY <1>1, <1>2, <2>2, <2>3, DoneFacts
<1>10. CASE ParseInvalid
  <2>1. ctx \in Conn /\ ctx \notin freed /\ UNCHANGED <<request_queue, task, freed>>
    BY <1>10, BossFacts DEF ParseInvalid
  <2>2. \A c \in freed : header'[c] = header[c]
    BY <1>1, <1>10, <2>1 DEF ParseInvalid, SendStatus
  <2>. QED  BY <1>1, <1>2, <2>1, <2>2, DoneFacts
<1>11. ASSUME NEW w \in Worker,
              \/ Lock(w) \/ WaitForTask(w) \/ Read(w) \/ Send(w)
              \/ Drain(w) \/ SpuriousWakeup(w) \/ CreateThread(w)
       PROVE  UNCHANGED Pool!vars
  BY <1>3, <1>11 DEF Lock, WaitForTask, Read, Send, Drain, SpuriousWakeup, CreateThread
<1>12. ASSUME NEW c \in Conn, Accept(c) \/ PeerDone(c) \/ PeerGone(c) \/ PeerStalls(c)
       PROVE  UNCHANGED Pool!vars
  BY <1>3, <1>12 DEF Accept, PeerDone, PeerGone, PeerStalls, Connected
<1>13. CASE \/ ParseValid \/ HandlerLock \/ Broadcast \/ Exit \/ Quiescent
            \/ UNCHANGED vars
  BY <1>3, <1>13 DEF ParseValid, HandlerLock, Broadcast, Exit, Quiescent, vars
<1>. QED
  BY <1>4, <1>5, <1>6, <1>7, <1>8, <1>9, <1>10, <1>11, <1>12, <1>13
  DEF Next, WorkerStep, BossStep, BrokenPipe, CreateFails, Signal, Pool!Next

(* The server is a boss/worker pool: tasks are taken in the order in which *)
(* gfs_handler enqueues them, each by one worker, and each is finished     *)
(* once.                                                                   *)
THEOREM Refinement == Spec => PoolSpec
<1>1. Init => Pool!Init
  BY DEF Init, Pool!Init
<1>. QED
  BY <1>1, PoolStep, Invariance, PTL DEF Spec, PoolSpec, Pool!Spec
=============================================================================
