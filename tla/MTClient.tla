------------------------------ MODULE MTClient ------------------------------
(***************************************************************************)
(* The multithreaded GETFILE client, mtgf/gfclient_download.c: main (the   *)
(* boss) fills crequest_queue with the workload and one poison pill, a     *)
(* pool of request_work threads pops requests, downloads each into a local *)
(* file and stops at the pill, and main waits until every worker has seen  *)
(* the pill before it joins them.                                          *)
(*                                                                         *)
(* A request is its position in the workload; the pill is position N + 1.  *)
(* One action is one stretch of code between two points where another      *)
(* thread can be observed: acquiring c_lock, the critical section up to    *)
(* its unlock (or its pthread_cond_wait), each signal, each access to the  *)
(* unprotected static counter, and each system call on the local file.     *)
(***************************************************************************)
EXTENDS Integers, Sequences, FiniteSets

CONSTANTS
    Worker,     \* the threads pthread_create starts
    Path,       \* the paths a workload file can hold
    gWorkloadPathArray,  \* what workload_init has read from the file
    nrequests,  \* how many requests main is to make
    Stop,       \* the string of the poison pill, "stop"
    Outcomes,   \* what gfc_perform may leave: [rc |-> ..., status |-> ...]
    Main,       \* the thread of main
    None        \* no thread, no request, no outcome

ASSUME WorkerAssumption ==
    /\ IsFiniteSet(Worker) /\ Worker # {}      \* nthreads is clamped to 1..1024
    /\ Main \notin Worker /\ None \notin Worker /\ Main # None

(* workload_init has read between one path and the hundred its array       *)
(* holds.  The pill is recognised by its text, so no path may be the word  *)
(* "stop": every path of the protocol begins with a slash.                 *)
ASSUME WorkloadAssumption ==
    /\ gWorkloadPathArray \in Seq(Path)
    /\ Len(gWorkloadPathArray) \in 1 .. 100
    /\ nrequests \in Nat
    /\ Stop \notin Path

ASSUME OutcomeAssumption ==
    /\ Outcomes \subseteq [rc : {0, -1}, status : {"OK", "FILE_NOT_FOUND", "ERROR", "INVALID"}]
    /\ None \notin Outcomes /\ None \notin Int

N == nrequests
Request == 1 .. N
nthreads == Cardinality(Worker)

(* workload_get_path for the value its counter had: the entries in turn,   *)
(* from the start again when they are used up.                             *)
WorkloadPath(entry) ==
    gWorkloadPathArray[(entry % Len(gWorkloadPathArray)) + 1]

(* req_path of a queue element: main is the only caller, and its i-th call *)
(* finds i - 1 in the counter; or the pill's text.                         *)
PathOf(i) == IF i \in Request THEN WorkloadPath(i - 1) ELSE Stop

VARIABLES
    pc,               \* where each request_work thread stands
    mpc,              \* where main stands
    alive,            \* FALSE once some thread called exit()
    c_lock,           \* the owner of the mutex, or None
    crequest_queue,   \* the shared queue
    num_eaten_pills,
    sent,             \* how many elements main has enqueued
    counter,          \* the static counter of localPath
    req,              \* req_path of each worker: the request it works on
    stamp,            \* per request: the counter value in its file name, or -1
    result,           \* per request: what gfc_perform left, or None
    disk              \* the local files that exist

vars == <<pc, mpc, alive, c_lock, crequest_queue, num_eaten_pills, sent,
          counter, req, stamp, result, disk>>

queueVars == <<crequest_queue, num_eaten_pills, sent>>
fileVars  == <<counter, stamp, result, disk>>

WorkerPC == {"new", "lock", "check", "wait", "pilltest", "pillsignal", "gone",
             "signal", "broadcast", "stamp", "bump", "open", "perform",
             "unlink", "status", "dead"}
MainPC == {"create", "lock", "put", "broadcast", "bosslock", "bosscheck",
           "bosswait", "join", "done"}

(* local_path of a request: its path and the number localPath gave it.     *)
LocalPath(i) == <<PathOf(i), stamp[i]>>

Init ==
    /\ pc = [w \in Worker |-> "new"]
    /\ mpc = "create"
    /\ alive = TRUE
    /\ c_lock = None
    /\ crequest_queue = << >>
    /\ num_eaten_pills = 0
    /\ sent = 0
    /\ counter = 0
    /\ req = [w \in Worker |-> None]
    /\ stamp = [i \in Request |-> -1]
    /\ result = [i \in Request |-> None]
    /\ disk = {}

-----------------------------------------------------------------------------
(* Steps of request_work.                                                  *)

At(w, label) == alive /\ pc[w] = label
Goto(w, label) == pc' = [pc EXCEPT ![w] = label]

(* pthread_mutex_lock(&c_lock), the first time or on the way out of        *)
(* pthread_cond_wait.                                                      *)
Lock(w) ==
    /\ At(w, "lock") /\ c_lock = None
    /\ c_lock' = w
    /\ Goto(w, "check")
    /\ UNCHANGED <<mpc, alive, req, queueVars, fileVars>>

(* The queue is empty: pthread_cond_wait(&c_worker, &c_lock).              *)
WaitForRequest(w) ==
    /\ At(w, "check") /\ crequest_queue = << >>
    /\ c_lock' = None
    /\ Goto(w, "wait")
    /\ UNCHANGED <<mpc, alive, req, queueVars, fileVars>>

(* pthread_cond_wait may return although nobody signalled.                 *)
SpuriousWakeup(w) ==
    /\ At(w, "wait")
    /\ Goto(w, "lock")
    /\ UNCHANGED <<mpc, alive, c_lock, req, queueVars, fileVars>>

(* Mutant: the worker forgets to break and comes back for the pill.        *)
EatPillAgain(w) ==
    /\ At(w, "check") /\ crequest_queue # << >>
    /\ PathOf(Head(crequest_queue)) = Stop
    /\ num_eaten_pills' = num_eaten_pills + 1
    /\ c_lock' = None
    /\ Goto(w, "lock")
    /\ UNCHANGED <<mpc, alive, crequest_queue, sent, req, fileVars>>

(* Mutant: the pill is popped, so that one worker eats it for all.         *)
EatPillAndPop(w) ==
    /\ At(w, "check") /\ crequest_queue # << >>
    /\ PathOf(Head(crequest_queue)) = Stop
    /\ num_eaten_pills' = num_eaten_pills + 1
    /\ crequest_queue' = Tail(crequest_queue)
    /\ c_lock' = None
    /\ Goto(w, "pilltest")
    /\ UNCHANGED <<mpc, alive, sent, req, fileVars>>

(* The pill is at the front: it is counted, and stays in the queue for the *)
(* other workers.                                                          *)
EatPill(w) ==
    /\ At(w, "check") /\ crequest_queue # << >>
    /\ PathOf(Head(crequest_queue)) = Stop
    /\ num_eaten_pills' = num_eaten_pills + 1
    /\ c_lock' = None
    /\ Goto(w, "pilltest")
    /\ UNCHANGED <<mpc, alive, crequest_queue, sent, req, fileVars>>

(* Mutant: the front element is read but not removed.                      *)
TakeWithoutPop(w) ==
    /\ At(w, "check") /\ crequest_queue # << >>
    /\ PathOf(Head(crequest_queue)) # Stop
    /\ req' = [req EXCEPT ![w] = Head(crequest_queue)]
    /\ c_lock' = None
    /\ Goto(w, "signal")
    /\ UNCHANGED <<mpc, alive, queueVars, fileVars>>

(* Mutant: the unlock after the pop is missing.                            *)
TakeWithoutUnlock(w) ==
    /\ At(w, "check") /\ crequest_queue # << >>
    /\ PathOf(Head(crequest_queue)) # Stop
    /\ req' = [req EXCEPT ![w] = Head(crequest_queue)]
    /\ crequest_queue' = Tail(crequest_queue)
    /\ Goto(w, "signal")
    /\ UNCHANGED <<mpc, alive, c_lock, num_eaten_pills, sent, fileVars>>

(* steque_pop, then unlock.  (The queue is not empty here, as the loop     *)
(* before has ended: the branch that would keep the lock is never taken.)  *)
TakeRequest(w) ==
    /\ At(w, "check") /\ crequest_queue # << >>
    /\ PathOf(Head(crequest_queue)) # Stop
    /\ req' = [req EXCEPT ![w] = Head(crequest_queue)]
    /\ crequest_queue' = Tail(crequest_queue)
    /\ c_lock' = None
    /\ Goto(w, "signal")
    /\ UNCHANGED <<mpc, alive, num_eaten_pills, sent, fileVars>>

(* Mutant: > instead of >=.                                                *)
TestPillsStrictly(w) ==
    /\ At(w, "pilltest")
    /\ Goto(w, IF num_eaten_pills > nthreads THEN "pillsignal" ELSE "gone")
    /\ UNCHANGED <<mpc, alive, c_lock, req, queueVars, fileVars>>

(* num_eaten_pills >= nthreads, read after the unlock.                     *)
TestPills(w) ==
    /\ At(w, "pilltest")
    /\ Goto(w, IF num_eaten_pills >= nthreads THEN "pillsignal" ELSE "gone")
    /\ UNCHANGED <<mpc, alive, c_lock, req, queueVars, fileVars>>

(* pthread_cond_signal(&c_boss): only main ever waits on c_boss.           *)
WakeBoss == mpc' = IF mpc = "bosswait" THEN "bosslock" ELSE mpc

SignalPills(w) ==
    /\ At(w, "pillsignal")
    /\ WakeBoss
    /\ Goto(w, "gone")
    /\ UNCHANGED <<alive, c_lock, req, queueVars, fileVars>>

SignalTaken(w) ==
    /\ At(w, "signal")
    /\ WakeBoss
    /\ Goto(w, "broadcast")
    /\ UNCHANGED <<alive, c_lock, req, queueVars, fileVars>>

(* pthread_cond_broadcast(&c_worker).                                      *)
Awake == [v \in Worker |-> IF pc[v] = "wait" THEN "lock" ELSE pc[v]]

BroadcastTaken(w) ==
    /\ At(w, "broadcast")
    /\ pc' = [Awake EXCEPT ![w] = "stamp"]
    /\ UNCHANGED <<mpc, alive, c_lock, req, queueVars, fileVars>>

(* counter++ in localPath, under no lock: the load that names the file ... *)
ReadCounter(w) ==
    /\ At(w, "stamp")
    /\ stamp' = [stamp EXCEPT ![req[w]] = counter]
    /\ Goto(w, "bump")
    /\ UNCHANGED <<mpc, alive, c_lock, req, queueVars, counter, result, disk>>

(* ... and the store.                                                      *)
WriteCounter(w) ==
    /\ At(w, "bump")
    /\ counter' = stamp[req[w]] + 1
    /\ Goto(w, "open")
    /\ UNCHANGED <<mpc, alive, c_lock, req, queueVars, stamp, result, disk>>

(* openFile: fopen(path, "w") makes the file, or exit(EXIT_FAILURE).       *)
OpenFile(w) ==
    /\ At(w, "open")
    /\ \/ /\ disk' = disk \union {LocalPath(req[w])}
          /\ Goto(w, "perform")
          /\ UNCHANGED alive
       \/ /\ alive' = FALSE
          /\ UNCHANGED <<disk, pc>>
    /\ UNCHANGED <<mpc, c_lock, req, queueVars, counter, stamp, result>>

(* gfc_perform and fclose; a negative return code leads to an unlink.      *)
Perform(w) ==
    /\ At(w, "perform")
    /\ \E o \in Outcomes :
          /\ result' = [result EXCEPT ![req[w]] = o]
          /\ Goto(w, IF o.rc < 0 THEN "unlink" ELSE "status")
    /\ UNCHANGED <<mpc, alive, c_lock, req, queueVars, counter, stamp, disk>>

(* Mutant: a failed gfc_perform does not unlink the partial file.          *)
LeavePartialFile(w) ==
    /\ At(w, "unlink")
    /\ Goto(w, "status")
    /\ UNCHANGED <<mpc, alive, c_lock, req, queueVars, fileVars>>

(* The unlink after a failed gfc_perform; its failure is only reported.    *)
UnlinkFailed(w) ==
    /\ At(w, "unlink")
    /\ disk' = disk \ {LocalPath(req[w])}
    /\ Goto(w, "status")
    /\ UNCHANGED <<mpc, alive, c_lock, req, queueVars, counter, stamp, result>>

(* gfc_cleanup and continue: the worker is ready for its next request.     *)
Keep(w) ==
    /\ At(w, "status") /\ result[req[w]].status = "OK"
    /\ req' = [req EXCEPT ![w] = None]
    /\ Goto(w, "lock")
    /\ UNCHANGED <<mpc, alive, c_lock, queueVars, fileVars>>

(* The status is not GF_OK: the file is unlinked, whether or not it was    *)
(* unlinked before; when that fails the worker leaves its loop for good,   *)
(* without eating a pill.                                                  *)
Discard(w) ==
    /\ At(w, "status") /\ result[req[w]].status # "OK"
    /\ IF LocalPath(req[w]) \in disk
       THEN Goto(w, "lock")
       ELSE Goto(w, "dead")
    /\ disk' = disk \ {LocalPath(req[w])}
    /\ req' = [req EXCEPT ![w] = None]
    /\ UNCHANGED <<mpc, alive, c_lock, queueVars, counter, stamp, result>>

-----------------------------------------------------------------------------
(* Steps of main.                                                          *)

MainAt(label) == alive /\ mpc = label

(* pthread_create for one thread; a failure destroys the still empty queue *)
(* and exits.                                                              *)
CreateThread(w) ==
    /\ MainAt("create") /\ pc[w] = "new"
    /\ \/ /\ Goto(w, "lock")
          /\ mpc' = IF \E v \in Worker \ {w} : pc[v] = "new" THEN "create" ELSE "lock"
          /\ UNCHANGED alive
       \/ /\ alive' = FALSE
          /\ UNCHANGED <<pc, mpc>>
    /\ UNCHANGED <<c_lock, req, queueVars, fileVars>>

(* workload_get_path; a path of more than 1024 characters makes main exit. *)
PathTooLong ==
    /\ MainAt("lock") /\ sent < N
    /\ alive' = FALSE
    /\ UNCHANGED <<pc, mpc, c_lock, req, queueVars, fileVars>>

MainLock ==
    /\ \/ MainAt("lock") /\ mpc' = "put"
       \/ MainAt("bosslock") /\ mpc' = "bosscheck"
    /\ c_lock = None
    /\ c_lock' = Main
    /\ UNCHANGED <<pc, alive, req, queueVars, fileVars>>

(* Mutant: steque_push instead of steque_enqueue.                          *)
EnqueueAtFront ==
    /\ MainAt("put")
    /\ crequest_queue' = <<sent + 1>> \o crequest_queue
    /\ sent' = sent + 1
    /\ c_lock' = None
    /\ mpc' = "broadcast"
    /\ UNCHANGED <<pc, alive, num_eaten_pills, req, fileVars>>

(* steque_enqueue of the next request, or of the pill after the last one.  *)
Enqueue ==
    /\ MainAt("put")
    /\ crequest_queue' = Append(crequest_queue, sent + 1)
    /\ sent' = sent + 1
    /\ c_lock' = None
    /\ mpc' = "broadcast"
    /\ UNCHANGED <<pc, alive, num_eaten_pills, req, fileVars>>

(* Mutant: pthread_cond_signal instead of pthread_cond_broadcast.          *)
MainSignal ==
    /\ MainAt("broadcast")
    /\ LET asleep == {w \in Worker : pc[w] = "wait"}
       IN  \/ asleep = {} /\ UNCHANGED pc
           \/ \E w \in asleep : Goto(w, "lock")
    /\ mpc' = IF sent <= N THEN "lock" ELSE "bosslock"
    /\ UNCHANGED <<alive, c_lock, req, queueVars, fileVars>>

MainBroadcast ==
    /\ MainAt("broadcast")
    /\ pc' = Awake
    /\ mpc' = IF sent <= N THEN "lock" ELSE "bosslock"
    /\ UNCHANGED <<alive, c_lock, req, queueVars, fileVars>>

(* Mutant: main waits for one pill less.                                   *)
CheckPillsOffByOne ==
    /\ MainAt("bosscheck")
    /\ mpc' = IF num_eaten_pills < nthreads - 1 THEN "bosswait" ELSE "join"
    /\ c_lock' = None
    /\ UNCHANGED <<pc, alive, req, queueVars, fileVars>>

(* while (num_eaten_pills < nthreads) pthread_cond_wait(&c_boss, &c_lock). *)
CheckPills ==
    /\ MainAt("bosscheck")
    /\ mpc' = IF num_eaten_pills < nthreads THEN "bosswait" ELSE "join"
    /\ c_lock' = None
    /\ UNCHANGED <<pc, alive, req, queueVars, fileVars>>

MainSpuriousWakeup ==
    /\ MainAt("bosswait")
    /\ mpc' = "bosslock"
    /\ UNCHANGED <<pc, alive, c_lock, req, queueVars, fileVars>>

(* pthread_join of every worker, then steque_destroy and free.             *)
JoinAndDestroy ==
    /\ MainAt("join")
    /\ \A w \in Worker : pc[w] \in {"gone", "dead"}
    /\ crequest_queue' = << >>
    /\ mpc' = "done"
    /\ UNCHANGED <<pc, alive, c_lock, num_eaten_pills, sent, req, fileVars>>

Terminated == (~alive \/ mpc = "done") /\ UNCHANGED vars

-----------------------------------------------------------------------------
WorkerStep(w) ==
    \/ WaitForRequest(w) \/ EatPill(w) \/ TakeRequest(w)
    \/ TestPills(w) \/ SignalPills(w) \/ SignalTaken(w) \/ BroadcastTaken(w)
    \/ ReadCounter(w) \/ WriteCounter(w) \/ OpenFile(w) \/ Perform(w)
    \/ UnlinkFailed(w) \/ Keep(w) \/ Discard(w)

MainStep ==
    \/ \E w \in Worker : CreateThread(w)
    \/ Enqueue \/ MainBroadcast \/ CheckPills \/ JoinAndDestroy

Next ==
    \/ \E w \in Worker : Lock(w) \/ WorkerStep(w) \/ SpuriousWakeup(w)
    \/ MainStep \/ MainLock \/ PathTooLong \/ MainSpuriousWakeup
    \/ Terminated

Spec == Init /\ [][Next]_vars

(* The scheduler runs every thread that can run, gfc_perform returns, and  *)
(* a thread that keeps finding c_lock free eventually gets it.  Nothing    *)
(* makes a spurious wakeup or a failing system call happen.                *)
Fairness ==
    /\ \A w \in Worker : WF_vars(WorkerStep(w)) /\ SF_vars(Lock(w))
    /\ WF_vars(MainStep) /\ SF_vars(MainLock)

FairSpec == Spec /\ Fairness

-----------------------------------------------------------------------------
(* Every variable stays in its type.                                       *)
TypeOK ==
    /\ pc \in [Worker -> WorkerPC]
    /\ mpc \in MainPC
    /\ alive \in BOOLEAN
    /\ c_lock \in Worker \union {Main, None}
    /\ crequest_queue \in Seq(1 .. N + 1)
    /\ num_eaten_pills \in 0 .. nthreads
    /\ sent \in 0 .. N + 1
    /\ counter \in Nat
    /\ req \in [Worker -> Request \union {None}]
    /\ stamp \in [Request -> Nat \union {-1}]
    /\ result \in [Request -> Outcomes \union {None}]
    /\ disk \subseteq Path \X Nat

(* A thread inside a section of code that touches the queue or waits for   *)
(* the pills owns c_lock, and c_lock is never owned by another one: every  *)
(* pthread_mutex_lock is paired with an unlock or a wait on every path.    *)
LockDiscipline ==
    /\ \A w \in Worker : pc[w] = "check" <=> c_lock = w
    /\ mpc \in {"put", "bosscheck"} <=> c_lock = Main

(* No wakeup of a worker is lost although the broadcast comes after the    *)
(* unlock: a worker asleep while the queue holds something will be woken   *)
(* by the broadcast main is about to make.                                 *)
NoWorkerSleepsThroughWork ==
    \A w \in Worker :
        pc[w] = "wait" /\ crequest_queue # << >> => mpc = "broadcast"

(* No wakeup of main is lost although num_eaten_pills is read after the    *)
(* unlock: when main sleeps and every pill is eaten, some worker is still  *)
(* going to find that out and signal c_boss.                               *)
BossWillHearOfLastPill ==
    mpc = "bosswait" /\ num_eaten_pills >= nthreads =>
        \E w \in Worker : pc[w] \in {"pilltest", "pillsignal"}

(* Once main stops waiting for pills, every request of the workload has    *)
(* been performed and nobody is still working on one (Readme, Part 2: the  *)
(* boss confirms that all requests have been completed).                   *)
AllPerformedBeforeJoin ==
    mpc \in {"join", "done"} =>
        /\ \A i \in Request : result[i] # None
        /\ \A w \in Worker : req[w] = None

(* No request is in the hands of two workers, and none that is in a        *)
(* worker's hands is still in the queue.                                   *)
OneWorkerPerRequest ==
    \A w \in Worker : req[w] # None =>
        /\ \A v \in Worker \ {w} : req[v] # req[w]
        /\ \A k \in DOMAIN crequest_queue : crequest_queue[k] # req[w]

(* Two requests for one path can get one file name, because counter++ is   *)
(* not protected: the load and the store of two workers may interleave.    *)
SharesLocalFile(i) ==
    \E j \in Request \ {i} : stamp[j] # -1 /\ LocalPath(j) = LocalPath(i)

(* A finished download is on disk exactly when it succeeded: no request    *)
(* removes the file of another one, and no failed download leaves one,     *)
(* unless another request for the same path has the same number.           *)
DiskHoldsTheSuccesses ==
    \A i \in Request :
        (result[i] # None /\ (\A w \in Worker : req[w] # i) /\ ~SharesLocalFile(i)) =>
            (LocalPath(i) \in disk <=> result[i] = [rc |-> 0, status |-> "OK"])

(* The requests in the queue, without the pill behind them.                *)
Pending == IF sent = N + 1 /\ crequest_queue # << >>
           THEN SubSeq(crequest_queue, 1, Len(crequest_queue) - 1)
           ELSE crequest_queue

(* The client is a boss/worker pool that closes when the workload is done: *)
(* requests are performed in the order of the workload, once each, and     *)
(* main closes the pool (stops waiting for pills) when none is left.       *)
Pool == INSTANCE BossWorker WITH
    Task <- Request, pending <- Pending, hand <- req,
    finished <- {i \in Request : result[i] # None /\ \A w \in Worker : req[w] # i},
    closed <- mpc \in {"join", "done"}

PoolSpec == Pool!Spec

(* The program ends: main returns, or a thread calls exit().               *)
Termination == <>(mpc = "done" \/ ~alive)

(* Only a worker that left its loop without eating a pill can keep the     *)
(* program from ending.                                                    *)
TerminationUnlessWorkerLost ==
    <>(mpc = "done" \/ ~alive \/ \E w \in Worker : pc[w] = "dead")
=============================================================================
