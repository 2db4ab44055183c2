------------------------------ MODULE MTServer ------------------------------
(***************************************************************************)
(* The multithreaded GETFILE server: main and gfserver_serve accept        *)
(* connections and hand each request to gfs_handler (mtgf/handler.c),      *)
(* which puts it in request_queue; a pool of work threads                  *)
(* (mtgf/gfserver_main.c) pops the requests and sends the files.           *)
(*                                                                         *)
(* The library behind gfserver.h is shipped as an object file only         *)
(* (mtgf/gfserver.o): accept, the request parser, gfs_sendheader and       *)
(* gfs_send are modelled as the code in src/ uses them.  A connection      *)
(* stands for its socket, its gfcontext_t and its server_task, and is      *)
(* named by a number, in the order in which accept returns them.  File     *)
(* contents are positions 1..Size[c], and BufferSize positions fit the     *)
(* buffer of work.                                                         *)
(***************************************************************************)
EXTENDS Integers, Sequences, FiniteSets

CONSTANTS
    Worker,       \* the threads running work
    Conn,         \* the connections clients make: the numbers of some
    Size,         \* of the file each asks for; -1: content_get finds none
    BufferSize,   \* BUFFER_SIZE
    Boss,         \* the thread of main
    None          \* no thread, no connection

(* The statuses of a response header (gfserver.h).                         *)
Status == {"OK", "FILE_NOT_FOUND", "ERROR", "INVALID"}

ASSUME ServerAssumption ==
    /\ Worker # {}                          \* nthreads is at least 1
    /\ Boss \notin Worker /\ None \notin Worker /\ Boss # None
    /\ Conn \subseteq Nat
    /\ None \notin Conn /\ None \notin Status
    /\ Size \in [Conn -> Nat \union {-1}]
    /\ BufferSize \in Nat \ {0}

VARIABLES
    pc,              \* where each work thread stands
    bpc,             \* where the boss stands
    alive,           \* FALSE once the process has exited or was killed
    lock,            \* the owner of the mutex, or None
    request_queue,   \* the tasks waiting, as their connections
    ctx,             \* the boss's gfcontext_t pointer: a connection or None
    task,            \* task->ctx of each worker, or None
    freed,           \* the connections whose gfcontext_t was freed
    total_read,      \* per worker: bytes of the file read so far
    unsent,          \* per worker: bytes of the buffer still to send
    socket,          \* per connection: "idle", "open" or "closed"
    peer,            \* per connection: "up", "stalled", "closed" or "broken"
    header,          \* per connection: the status sent, or None
    delivered,       \* per connection: the file positions sent
    failed,          \* connections on which gfs_send returned an error
    truncated        \* connections whose pread came up short

vars == <<pc, bpc, alive, lock, request_queue, ctx, task, freed, total_read,
          unsent, socket, peer, header, delivered, failed, truncated>>

poolVars == <<lock, request_queue, ctx, task, freed>>
readVars == <<total_read, unsent, truncated>>
netVars  == <<socket, peer, header, delivered, failed>>

WorkerPC == {"new", "lock", "check", "wait", "get", "read", "send", "drain", "free"}
BossPC == {"create", "accept", "parse", "reject", "lock", "enqueue",
           "broadcast", "return"}

Init ==
    /\ pc = [w \in Worker |-> "new"]
    /\ bpc = "create"
    /\ alive = TRUE
    /\ lock = None
    /\ request_queue = << >>
    /\ ctx = None
    /\ task = [w \in Worker |-> None]
    /\ freed = {}
    /\ total_read = [w \in Worker |-> 0]
    /\ unsent = [w \in Worker |-> 0]
    /\ socket = [c \in Conn |-> "idle"]
    /\ peer = [c \in Conn |-> "up"]
    /\ header = [c \in Conn |-> None]
    /\ delivered = [c \in Conn |-> << >>]
    /\ failed = {}
    /\ truncated = {}

-----------------------------------------------------------------------------
(* The socket calls of the library.                                        *)

(* A write that returns, whether it succeeds or fails.  The first one      *)
(* after the client has gone may do either; the answer to it breaks the    *)
(* connection.  One to a client that is there may fail as well, and leaves *)
(* the connection as it was.  One to a client that has stopped reading     *)
(* blocks: it does not return.                                             *)
Write(c) ==
    \/ peer[c] = "up" /\ UNCHANGED peer
    \/ peer[c] = "closed" /\ peer' \in {peer, [peer EXCEPT ![c] = "broken"]}

(* The client has the whole response it waits for.                         *)
Answered(c) ==
    \/ header[c] \in {"INVALID", "FILE_NOT_FOUND", "ERROR"}
    \/ header[c] = "OK" /\ Len(delivered[c]) = Size[c]

(* The server still has a connection, with a client at the other end.      *)
Connected(c) ==
    alive /\ socket[c] = "open" /\ c \notin freed /\ peer[c] = "up"

(* The client closes its end, after the response ...                       *)
PeerDone(c) ==
    /\ Connected(c) /\ Answered(c)
    /\ peer' = [peer EXCEPT ![c] = "closed"]
    /\ UNCHANGED <<pc, bpc, alive, poolVars, readVars, socket, header,
                   delivered, failed>>

(* ... or before, when it crashes, times out or resets the connection ...  *)
PeerGone(c) ==
    /\ Connected(c) /\ ~Answered(c)
    /\ peer' = [peer EXCEPT ![c] = "closed"]
    /\ UNCHANGED <<pc, bpc, alive, poolVars, readVars, socket, header,
                   delivered, failed>>

(* ... or it keeps the connection for ever but reads no more of the        *)
(* response, so that the buffers between the two fill up.  (One that reads *)
(* on, or goes away, after a while is a slow one.)                         *)
PeerStalls(c) ==
    /\ Connected(c) /\ header[c] # None
    /\ peer' = [peer EXCEPT ![c] = "stalled"]
    /\ UNCHANGED <<pc, bpc, alive, poolVars, readVars, socket, header,
                   delivered, failed>>

-----------------------------------------------------------------------------
(* Steps of work.                                                          *)

At(w, label) == alive /\ pc[w] = label
Goto(w, label) == pc' = [pc EXCEPT ![w] = label]

Lock(w) ==
    /\ At(w, "lock") /\ lock = None
    /\ lock' = w
    /\ Goto(w, "check")
    /\ UNCHANGED <<bpc, alive, request_queue, ctx, task, freed, readVars, netVars>>

(* The queue is empty: pthread_cond_wait(&worker, &lock).                  *)
WaitForTask(w) ==
    /\ At(w, "check") /\ request_queue = << >>
    /\ lock' = None
    /\ Goto(w, "wait")
    /\ UNCHANGED <<bpc, alive, request_queue, ctx, task, freed, readVars, netVars>>

SpuriousWakeup(w) ==
    /\ At(w, "wait")
    /\ Goto(w, "lock")
    /\ UNCHANGED <<bpc, alive, poolVars, readVars, netVars>>

(* steque_pop and unlock.  Nobody waits on boss, which is signalled next.  *)
TakeTask(w) ==
    /\ At(w, "check") /\ request_queue # << >>
    /\ task' = [task EXCEPT ![w] = Head(request_queue)]
    /\ request_queue' = Tail(request_queue)
    /\ lock' = None
    /\ Goto(w, "get")
    /\ UNCHANGED <<bpc, alive, ctx, freed, readVars, netVars>>

(* gfs_sendheader with a status other than GF_OK: the header is sent, then *)
(* the library closes the connection, which waits for the client.          *)
SendStatus(c, status) ==
    /\ Write(c)
    /\ header' = [header EXCEPT ![c] = status]
    /\ UNCHANGED <<socket, delivered, failed>>

(* Mutant: the connection of a refused request is not closed.              *)
RefuseWithoutClose(w) ==
    /\ At(w, "get")
    /\ SendStatus(task[w], IF Size[task[w]] < 0 THEN "FILE_NOT_FOUND" ELSE "ERROR")
    /\ Goto(w, "free")
    /\ UNCHANGED <<bpc, alive, poolVars, readVars>>

(* content_get has no such path, or fstat fails on its descriptor.         *)
Refuse(w) ==
    /\ At(w, "get")
    /\ SendStatus(task[w], IF Size[task[w]] < 0 THEN "FILE_NOT_FOUND" ELSE "ERROR")
    /\ Goto(w, "drain")
    /\ UNCHANGED <<bpc, alive, poolVars, readVars>>

(* gfs_sendheader(GF_OK): on failure the task is freed at once.            *)
SendOk(w) ==
    LET c == task[w] IN
    /\ At(w, "get") /\ Size[c] >= 0
    /\ Write(c)
    /\ \/ /\ header' = [header EXCEPT ![c] = "OK"]
          /\ Goto(w, "read")
          /\ UNCHANGED failed
       \/ /\ failed' = failed \union {c}
          /\ Goto(w, "free")
          /\ UNCHANGED header
    /\ UNCHANGED <<bpc, alive, poolVars, readVars, socket, delivered>>

(* The loop test, then one pread at offset total_read: it may be short,    *)
(* and fails or finds nothing when the file shrank.                        *)
Read(w) ==
    LET c == task[w]
        left == Size[c] - total_read[w] IN
    /\ At(w, "read")
    /\ \/ /\ left <= 0
          /\ Goto(w, "free")
          /\ UNCHANGED readVars
       \/ \E n \in 1 .. (IF left < BufferSize THEN left ELSE BufferSize) :
             /\ total_read' = [total_read EXCEPT ![w] = @ + n]
             /\ unsent' = [unsent EXCEPT ![w] = n]
             /\ Goto(w, "send")
             /\ UNCHANGED truncated
       \/ /\ left > 0
          /\ truncated' = truncated \union {c}
          /\ Goto(w, "free")
          /\ UNCHANGED <<total_read, unsent>>
    /\ UNCHANGED <<bpc, alive, poolVars, netVars>>

(* Mutant: after a short gfs_send the buffer is sent again from its start, *)
(* not from buf + total_sent_per_read.                                     *)
SendAgain(w) ==
    LET c == task[w] IN
    /\ At(w, "send")
    /\ Write(c)
    /\ \E n \in 1 .. unsent[w] :
          /\ delivered' = [delivered EXCEPT ![c] =
                 @ \o [k \in 1 .. n |-> total_read[w] - unsent[w] + k]]
          /\ unsent' = [unsent EXCEPT ![w] = IF n = @ THEN 0 ELSE @]
          /\ Goto(w, IF Len(delivered'[c]) >= Size[c] THEN "drain"
                     ELSE IF n = unsent[w] THEN "read" ELSE "send")
    /\ UNCHANGED <<bpc, alive, poolVars, total_read, truncated, socket, header, failed>>

(* gfs_send of the rest of the buffer.  Once it has sent as many bytes as  *)
(* the header announced, the library closes the connection.  An error      *)
(* leaves only the inner loop: work goes on to read and send the next      *)
(* buffer, and if the client is still there the rest of this one is        *)
(* missing from what it gets.                                              *)
Send(w) ==
    LET c == task[w] IN
    /\ At(w, "send")
    /\ Write(c)
    /\ \/ \E n \in 1 .. unsent[w] :
             /\ delivered' = [delivered EXCEPT ![c] =
                    @ \o [k \in 1 .. n |-> total_read[w] - unsent[w] + k]]
             /\ unsent' = [unsent EXCEPT ![w] = @ - n]
             /\ Goto(w, IF Len(delivered'[c]) >= Size[c] THEN "drain"
                        ELSE IF n = unsent[w] THEN "read" ELSE "send")
             /\ UNCHANGED failed
       \/ /\ unsent' = [unsent EXCEPT ![w] = 0]
          /\ failed' = failed \union {c}
          /\ Goto(w, "read")
          /\ UNCHANGED delivered
    /\ UNCHANGED <<bpc, alive, poolVars, total_read, truncated, socket, header>>

(* The process ends, and with it its threads and what they held.           *)
Exit ==
    /\ alive' = FALSE
    /\ pc' = [w \in Worker |-> "new"]
    /\ bpc' = "create"
    /\ lock' = None
    /\ ctx' = None
    /\ total_read' = [w \in Worker |-> 0]
    /\ unsent' = [w \in Worker |-> 0]
    /\ UNCHANGED <<request_queue, task, freed, truncated, netVars>>

(* Writing on a broken connection raises SIGPIPE, which nobody handles.    *)
BrokenPipe(w) ==
    /\ At(w, "send") /\ peer[task[w]] = "broken"
    /\ Exit

(* The close of the library returns once the client has closed its end.    *)
Drain(w) ==
    /\ At(w, "drain") /\ peer[task[w]] \in {"closed", "broken"}
    /\ socket' = [socket EXCEPT ![task[w]] = "closed"]
    /\ Goto(w, "free")
    /\ UNCHANGED <<bpc, alive, poolVars, readVars, peer, header, delivered, failed>>

(* free(task->ctx), free(task) and the next iteration, with new locals.    *)
FreeTask(w) ==
    /\ At(w, "free")
    /\ freed' = freed \union {task[w]}
    /\ task' = [task EXCEPT ![w] = None]
    /\ total_read' = [total_read EXCEPT ![w] = 0]
    /\ unsent' = [unsent EXCEPT ![w] = 0]
    /\ Goto(w, "lock")
    /\ UNCHANGED <<bpc, alive, lock, request_queue, ctx, truncated, netVars>>

-----------------------------------------------------------------------------
(* Steps of the boss.                                                      *)

BossAt(label) == alive /\ bpc = label
BossGoto(label) == bpc' = label

(* pthread_create for one thread ...                                       *)
CreateThread(w) ==
    /\ BossAt("create") /\ pc[w] = "new"
    /\ Goto(w, "lock")
    /\ BossGoto(IF \E v \in Worker \ {w} : pc[v] = "new" THEN "create" ELSE "accept")
    /\ UNCHANGED <<alive, poolVars, readVars, netVars>>

(* ... which may fail: exit(1).                                            *)
CreateFails == BossAt("create") /\ Exit

(* The library accepts a connection and makes a gfcontext_t for it.        *)
Accept(c) ==
    /\ BossAt("accept") /\ socket[c] = "idle"
    /\ \A d \in Conn : d < c => socket[d] # "idle"
    /\ socket' = [socket EXCEPT ![c] = "open"]
    /\ ctx' = c
    /\ BossGoto("parse")
    /\ UNCHANGED <<pc, alive, lock, request_queue, task, freed, readVars, peer,
                   header, delivered, failed>>

(* It receives the request and calls the handler ...                       *)
ParseValid ==
    /\ BossAt("parse")
    /\ BossGoto("lock")
    /\ UNCHANGED <<pc, alive, poolVars, readVars, netVars>>

(* ... or refuses a malformed one, and closes the connection.              *)
ParseInvalid ==
    /\ BossAt("parse")
    /\ SendStatus(ctx, "INVALID")
    /\ BossGoto("reject")
    /\ UNCHANGED <<pc, alive, poolVars, readVars>>

BossDrain ==
    /\ BossAt("reject") /\ peer[ctx] \in {"closed", "broken"}
    /\ socket' = [socket EXCEPT ![ctx] = "closed"]
    /\ freed' = freed \union {ctx}
    /\ ctx' = None
    /\ BossGoto("accept")
    /\ UNCHANGED <<pc, alive, lock, request_queue, task, readVars, peer, header,
                   delivered, failed>>

HandlerLock ==
    /\ BossAt("lock") /\ lock = None
    /\ lock' = Boss
    /\ BossGoto("enqueue")
    /\ UNCHANGED <<pc, alive, request_queue, ctx, task, freed, readVars, netVars>>

(* Mutant: gfs_handler keeps *ctx, so that the library frees it too.       *)
EnqueueWithoutClaim ==
    /\ BossAt("enqueue")
    /\ request_queue' = Append(request_queue, ctx)
    /\ lock' = None
    /\ BossGoto("broadcast")
    /\ UNCHANGED <<pc, alive, ctx, task, freed, readVars, netVars>>

(* Mutant: steque_push instead of steque_enqueue.                          *)
EnqueueAtFront ==
    /\ BossAt("enqueue")
    /\ request_queue' = <<ctx>> \o request_queue
    /\ ctx' = None
    /\ lock' = None
    /\ BossGoto("broadcast")
    /\ UNCHANGED <<pc, alive, task, freed, readVars, netVars>>

(* gfs_handler takes the context over, task->ctx = *ctx; *ctx = NULL, and  *)
(* enqueues the task.                                                      *)
Enqueue ==
    /\ BossAt("enqueue")
    /\ request_queue' = Append(request_queue, ctx)
    /\ ctx' = None
    /\ lock' = None
    /\ BossGoto("broadcast")
    /\ UNCHANGED <<pc, alive, task, freed, readVars, netVars>>

(* Mutant: the handler returns without waking anyone.                      *)
BroadcastToNobody ==
    /\ BossAt("broadcast")
    /\ BossGoto("return")
    /\ UNCHANGED <<pc, alive, poolVars, readVars, netVars>>

(* pthread_cond_broadcast(&worker), after the unlock.                      *)
Broadcast ==
    /\ BossAt("broadcast")
    /\ pc' = [w \in Worker |-> IF pc[w] = "wait" THEN "lock" ELSE pc[w]]
    /\ BossGoto("return")
    /\ UNCHANGED <<alive, poolVars, readVars, netVars>>

(* Back in the library, which frees a context the handler left in place.   *)
Return ==
    /\ BossAt("return")
    /\ freed' = IF ctx = None THEN freed ELSE freed \union {ctx}
    /\ ctx' = None
    /\ BossGoto("accept")
    /\ UNCHANGED <<pc, alive, lock, request_queue, task, readVars, netVars>>

(* SIGINT or SIGTERM: _sig_handler exits.                                  *)
Signal ==
    /\ alive
    /\ Exit

(* No process, or no client left to serve.                                 *)
Quiescent ==
    /\ \/ ~alive
       \/ /\ bpc = "accept" /\ \A c \in Conn : socket[c] # "idle"
          /\ \A w \in Worker : pc[w] = "wait"
    /\ UNCHANGED vars

-----------------------------------------------------------------------------
WorkerStep(w) ==
    \/ WaitForTask(w) \/ TakeTask(w) \/ Refuse(w) \/ SendOk(w) \/ Read(w)
    \/ Send(w) \/ BrokenPipe(w) \/ Drain(w) \/ FreeTask(w)

BossStep ==
    \/ \E w \in Worker : CreateThread(w)
    \/ CreateFails
    \/ ParseValid \/ ParseInvalid \/ BossDrain
    \/ Enqueue \/ Broadcast \/ Return

Next ==
    \/ \E w \in Worker : Lock(w) \/ WorkerStep(w) \/ SpuriousWakeup(w)
    \/ \E c \in Conn : Accept(c) \/ PeerDone(c) \/ PeerGone(c) \/ PeerStalls(c)
    \/ BossStep \/ HandlerLock \/ Signal \/ Quiescent

Spec == Init /\ [][Next]_vars

(* The scheduler runs every thread that can run (one that writes to a      *)
(* client that has stopped reading cannot), a thread that keeps finding    *)
(* the mutex free gets it, and a client closes its end once it has its     *)
(* response (gfc_perform does), unless it has stalled.  Nothing makes a    *)
(* client connect, stop reading, go away early, or the process be          *)
(* signalled.                                                              *)
Fairness ==
    /\ \A w \in Worker : WF_vars(WorkerStep(w)) /\ SF_vars(Lock(w))
    /\ WF_vars(BossStep) /\ SF_vars(HandlerLock)
    /\ \A c \in Conn : WF_vars(PeerDone(c))

FairSpec == Spec /\ Fairness

-----------------------------------------------------------------------------
(* Every variable stays in its type.                                       *)
TypeOK ==
    /\ pc \in [Worker -> WorkerPC]
    /\ bpc \in BossPC
    /\ alive \in BOOLEAN
    /\ lock \in Worker \union {Boss, None}
    /\ request_queue \in Seq(Conn)
    /\ ctx \in Conn \union {None}
    /\ task \in [Worker -> Conn \union {None}]
    /\ freed \subseteq Conn
    /\ total_read \in [Worker -> Nat]
    /\ unsent \in [Worker -> 0 .. BufferSize]
    /\ socket \in [Conn -> {"idle", "open", "closed"}]
    /\ peer \in [Conn -> {"up", "stalled", "closed", "broken"}]
    /\ header \in [Conn -> Status \union {None}]
    /\ delivered \in [Conn -> Seq(Nat)]
    /\ failed \subseteq Conn
    /\ truncated \subseteq Conn

(* The mutex is held exactly where the queue is touched: every path that   *)
(* takes it gives it back.                                                 *)
LockDiscipline ==
    /\ \A w \in Worker : pc[w] = "check" <=> lock = w
    /\ bpc = "enqueue" <=> lock = Boss

(* No wakeup is lost although gfs_handler broadcasts after the unlock: a   *)
(* worker asleep while a task waits will be woken by the broadcast the     *)
(* boss is about to make.  The queue is only touched under the mutex.      *)
NoWorkerSleepsThroughWork ==
    /\ LockDiscipline
    /\ \A w \in Worker :
           pc[w] = "wait" /\ request_queue # << >> => bpc = "broadcast"

(* A gfcontext_t has one owner: the boss, the queue (once) or one worker;  *)
(* and nobody holds one that was freed.  So no context is freed twice,     *)
(* used after it was freed, or served by two threads.                      *)
OneOwnerPerContext ==
    LET queued(c) == {k \in DOMAIN request_queue : request_queue[k] = c}
        owners(c) == {w \in Worker : task[w] = c}
                        \union (IF ctx = c THEN {Boss} ELSE {})
    IN  \A c \in Conn :
            /\ Cardinality(queued(c)) + Cardinality(owners(c)) <= 1
            /\ c \in freed => queued(c) = {} /\ owners(c) = {}

(* The bytes a client receives are a prefix of the file, without a gap,    *)
(* whatever counts pread and gfs_send return, as long as no gfs_send to it *)
(* fails.  After a failure there may be gaps, but still nothing is         *)
(* repeated or out of order, and no byte is from beyond the file; and no   *)
(* count of a worker leaves its buffer.                                    *)
StreamIsPrefix ==
    /\ TypeOK
    /\ \A c \in Conn :
           LET sent == delivered[c] IN
           /\ \A k \in DOMAIN sent :
                  /\ sent[k] <= Size[c]
                  /\ c \notin failed => sent[k] = k
           /\ \A j, k \in DOMAIN sent : j < k => sent[j] < sent[k]

(* A worker that has freed its task left the connection open only when the *)
(* file was empty, came up short, or sending failed: then, and only then,  *)
(* the client waits for a close that never comes.                          *)
OpenSocketsExplained ==
    \A c \in freed : socket[c] = "open" =>
        \/ c \in truncated \/ c \in failed
        \/ header[c] = "OK" /\ Size[c] = 0

(* A worker waits for ever, for a client that has stopped reading.         *)
Blocked(w) == pc[w] \in {"send", "drain"} /\ peer[task[w]] = "stalled"

(* Every task in the queue is some day done with, also one that waits      *)
(* while every worker is busy: a worker is always found for it, and that   *)
(* worker comes to an end.  The exceptions: the process dies, the task's   *)
(* own client stops reading, or a client of each worker does (gfs_send,    *)
(* and the close that waits for the client, have no timeout, so that       *)
(* nthreads such clients end the service).                                 *)
EveryTaskIsFinished ==
    \A c \in Conn :
        (\E k \in DOMAIN request_queue : request_queue[k] = c)
            ~> \/ c \in freed \/ ~alive
               \/ peer[c] = "stalled" \/ \A w \in Worker : Blocked(w)

(* The server is a boss/worker pool that never closes.                     *)
Pool == INSTANCE BossWorker WITH
    Task <- Conn, pending <- request_queue, hand <- task,
    finished <- freed \ {c \in Conn : header[c] = "INVALID"},
    closed <- FALSE

PoolSpec == Pool!Spec
=============================================================================
