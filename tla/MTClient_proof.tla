--------------------------- MODULE MTClient_proof ---------------------------
(***************************************************************************)
(* What holds of the multithreaded client for every set of workers, every  *)
(* workload and every set of outcomes of gfc_perform.                      *)
(***************************************************************************)
EXTENDS MTClient, FiniteSetTheorems, SequenceTheorems, TLAPS

-----------------------------------------------------------------------------
(* The inductive invariant, in parts.                                      *)

Working == {"signal", "broadcast", "stamp", "bump", "open", "perform",
            "unlink", "status"}

(* A worker holds a request exactly between the pop and the end of its     *)
(* loop body; the file has its number from localPath on, and the outcome   *)
(* is there once gfc_perform has returned.                                 *)
HandsInv ==
    \A w \in Worker :
        /\ req[w] # None <=> pc[w] \in Working
        /\ pc[w] \in {"bump", "open", "perform", "unlink", "status"} => stamp[req[w]] \in Nat
        /\ pc[w] \in {"unlink", "status"} => result[req[w]] # None

(* No worker has a request that main has not enqueued.                     *)
HandsBelowSent == \A w \in Worker : req[w] # None => req[w] <= sent

(* The workers that have eaten a pill, and nobody else, are counted.       *)
Eaters == {w \in Worker : pc[w] \in {"pilltest", "pillsignal", "gone"}}

PillInv == num_eaten_pills = Cardinality(Eaters)

(* Where main stands tells what it has enqueued, and whether it has seen   *)
(* all the pills eaten.                                                    *)
MainInv ==
    /\ mpc = "create" => sent = 0
    /\ mpc \in {"lock", "put"} => sent <= N
    /\ mpc \in {"bosslock", "bosscheck", "bosswait", "join", "done"} => sent = N + 1
    /\ mpc \in {"join", "done"} => num_eaten_pills >= nthreads

(* The queue holds elements enqueued so far, in increasing order; once     *)
(* enqueued the pill stays, and when somebody has eaten it, it is alone.   *)
QueueInv ==
    LET q == crequest_queue IN
    /\ \A k \in 1 .. Len(q) : q[k] <= sent
    /\ \A j, k \in 1 .. Len(q) : j < k => q[j] < q[k]
    /\ sent = N + 1 /\ mpc # "done" => Len(q) > 0 /\ q[Len(q)] = N + 1
    /\ mpc = "done" => Len(q) = 0
    /\ Eaters # {} => sent = N + 1 /\ Len(q) <= 1

(* An enqueued request is in the queue, in a worker's hands, or performed. *)
NothingLost ==
    \A i \in Request : i <= sent =>
        \/ \E k \in 1 .. Len(crequest_queue) : crequest_queue[k] = i
        \/ \E w \in Worker : req[w] = i
        \/ result[i] # None

(* A request is stamped and performed by the worker that holds it: one     *)
(* that is in the queue, or not enqueued yet, has no number and no outcome.*)
StampInv ==
    /\ \A i \in Request :
           /\ i > sent => stamp[i] = -1 /\ result[i] = None
           /\ result[i] # None => stamp[i] # -1
    /\ \A k \in 1 .. Len(crequest_queue) :
           crequest_queue[k] \in Request =>
               stamp[crequest_queue[k]] = -1 /\ result[crequest_queue[k]] = None
    /\ \A w \in Worker :
           pc[w] \in {"signal", "broadcast", "stamp"} => stamp[req[w]] = -1

(* A file on disk was made for some request; and the file of a request     *)
(* that shares it with no other is where its own worker has left it.       *)
HasFile == {"bump", "open", "perform", "unlink", "status"}

OwnFile(w, i) ==
    /\ pc[w] \in {"bump", "open"} => LocalPath(i) \notin disk
    /\ pc[w] = "perform" => LocalPath(i) \in disk
    /\ pc[w] = "unlink" => LocalPath(i) \in disk /\ result[i].rc # 0
    /\ pc[w] = "status" => (LocalPath(i) \in disk <=> result[i].rc = 0)

FileInv ==
    /\ \A f \in disk : \E j \in Request : stamp[j] # -1 /\ LocalPath(j) = f
    /\ \A w \in Worker, i \in Request :
           req[w] = i /\ pc[w] \in HasFile => SharesLocalFile(i) \/ OwnFile(w, i)
    /\ DiskHoldsTheSuccesses

IInv ==
    /\ TypeOK /\ LockDiscipline /\ NoWorkerSleepsThroughWork
    /\ BossWillHearOfLastPill /\ OneWorkerPerRequest
    /\ HandsInv /\ HandsBelowSent /\ PillInv /\ MainInv /\ QueueInv /\ NothingLost
    /\ StampInv /\ FileInv
-----------------------------------------------------------------------------
(* The sets the variables range over.                                      *)
LEMMA SizeFacts ==
    /\ N \in Nat
    /\ nthreads \in Nat /\ nthreads > 0
    /\ \A i \in Request : PathOf(i) \in Path /\ PathOf(i) # Stop
    /\ None \notin Request /\ N + 1 \notin Request /\ PathOf(N + 1) = Stop
    /\ \A i \in 1 .. N + 1 : i \in Request <=> PathOf(i) # Stop
<1>1. N \in Nat
  BY WorkloadAssumption DEF N
<1>2. nthreads \in Nat /\ nthreads > 0
  <2>1. nthreads \in Nat
    BY WorkerAssumption, FS_CardinalityType DEF nthreads
  <2>2. nthreads # 0
    BY WorkerAssumption, FS_EmptySet DEF nthreads
  <2>. QED  BY <2>1, <2>2
<1>3. ASSUME NEW i \in Request PROVE WorkloadPath(i - 1) \in Path
  <2>. DEFINE n == Len(gWorkloadPathArray)
  <2>1. n \in 1 .. 100
    BY WorkloadAssumption, Zenon
  <2>2. i - 1 \in Nat
    BY <1>1 DEF Request
  <2>. HIDE DEF n
  <2>3. (i - 1) % n \in 0 .. n - 1
    BY <2>1, <2>2
  <2>4. ((i - 1) % n) + 1 \in 1 .. n
    BY <2>1, <2>3
  <2>. QED  BY <2>4, WorkloadAssumption, ElementOfSeq DEF n, WorkloadPath
<1>. QED
  BY <1>1, <1>2, <1>3, WorkloadAssumption, OutcomeAssumption DEF Request, PathOf

(* The number of workers that have eaten a pill never exceeds the pool,    *)
(* and equals it only when all of them have.                               *)
LEMMA EatersFacts ==
    /\ IsFiniteSet(Eaters) /\ Cardinality(Eaters) \in Nat
    /\ Cardinality(Eaters) <= nthreads
    /\ Cardinality(Eaters) = nthreads => Eaters = Worker
<1>1. Eaters \subseteq Worker
  BY DEF Eaters
<1>. QED
  BY <1>1, WorkerAssumption, FS_Subset, FS_CardinalityType DEF nthreads

-----------------------------------------------------------------------------
(* The initial states.                                                     *)
LEMMA InitIInv == Init => IInv
<1>. SUFFICES ASSUME Init PROVE IInv
  OBVIOUS
<1>. USE DEF Init
<1>1. TypeOK
  BY SizeFacts DEF TypeOK, WorkerPC, MainPC
<1>2. LockDiscipline /\ NoWorkerSleepsThroughWork /\ BossWillHearOfLastPill
  BY WorkerAssumption DEF LockDiscipline, NoWorkerSleepsThroughWork, BossWillHearOfLastPill
<1>3. OneWorkerPerRequest /\ HandsInv /\ HandsBelowSent
  BY DEF OneWorkerPerRequest, HandsInv, HandsBelowSent, Working
<1>4. Eaters = {}
  BY DEF Eaters
<1>5. PillInv /\ MainInv /\ QueueInv
  BY <1>4, FS_EmptySet, SizeFacts DEF PillInv, MainInv, QueueInv
<1>6. NothingLost
  BY SizeFacts DEF NothingLost, Request
<1>7. StampInv /\ FileInv
  BY DEF StampInv, FileInv, HasFile, DiskHoldsTheSuccesses
<1>. QED
  BY <1>1, <1>2, <1>3, <1>5, <1>6, <1>7 DEF IInv

(* The head and the tail of the queue, while it is not empty.              *)
LEMMA QueueFacts ==
    ASSUME TypeOK, crequest_queue # << >>
    PROVE  /\ Len(crequest_queue) \in Nat /\ Len(crequest_queue) > 0
           /\ Head(crequest_queue) = crequest_queue[1]
           /\ Head(crequest_queue) \in 1 .. N + 1
           /\ Tail(crequest_queue) \in Seq(1 .. N + 1)
           /\ Len(Tail(crequest_queue)) = Len(crequest_queue) - 1
           /\ \A k \in 1 .. Len(crequest_queue) - 1 :
                 Tail(crequest_queue)[k] = crequest_queue[k + 1]
<1>1. crequest_queue \in Seq(1 .. N + 1)
  BY DEF TypeOK
<1>2. Len(crequest_queue) \in Nat /\ Len(crequest_queue) > 0
  BY <1>1, EmptySeq
<1>3. Head(crequest_queue) = crequest_queue[1]
  BY <1>1, <1>2
<1>4. /\ Head(crequest_queue) \in 1 .. N + 1
      /\ Tail(crequest_queue) \in Seq(1 .. N + 1)
      /\ Len(Tail(crequest_queue)) = Len(crequest_queue) - 1
      /\ \A k \in 1 .. Len(Tail(crequest_queue)) :
            Tail(crequest_queue)[k] = crequest_queue[k + 1]
  BY <1>1, HeadTailProperties
<1>. QED
  BY <1>2, <1>3, <1>4

(* Every step keeps every variable in its type.                            *)
LEMMA TypeStep == IInv /\ [Next]_vars => TypeOK'
<1>. SUFFICES ASSUME IInv, [Next]_vars PROVE TypeOK'
  OBVIOUS
<1>. USE SizeFacts DEF TypeOK, WorkerPC, MainPC, At, MainAt, Goto, queueVars, fileVars
<1>1. TypeOK /\ HandsInv /\ PillInv
  BY DEF IInv
<1>2. ASSUME NEW w \in Worker, Lock(w) PROVE TypeOK'
  BY <1>1, <1>2 DEF Lock
<1>3. ASSUME NEW w \in Worker, WaitForRequest(w) PROVE TypeOK'
  BY <1>1, <1>3 DEF WaitForRequest
<1>4. ASSUME NEW w \in Worker, EatPill(w) PROVE TypeOK'
  <2>1. num_eaten_pills' \in 0 .. nthreads
    <3>1. w \notin Eaters /\ Eaters \union {w} \subseteq Worker
      BY <1>4 DEF EatPill, Eaters
    <3>2. Cardinality(Eaters \union {w}) = Cardinality(Eaters) + 1
      BY <3>1, EatersFacts, FS_AddElement
    <3>3. Cardinality(Eaters \union {w}) <= nthreads
      BY <3>1, WorkerAssumption, FS_Subset DEF nthreads
    <3>. QED
      BY <1>1, <1>4, <3>2, <3>3, EatersFacts DEF EatPill, PillInv
  <2>. QED  BY <1>1, <1>4, <2>1 DEF EatPill
<1>5. ASSUME NEW w \in Worker, TakeRequest(w) PROVE TypeOK'
  BY <1>1, <1>5, QueueFacts DEF TakeRequest
<1>6. ASSUME NEW w \in Worker, TestPills(w) PROVE TypeOK'
  BY <1>1, <1>6 DEF TestPills
<1>7. ASSUME NEW w \in Worker, SignalPills(w) PROVE TypeOK'
  BY <1>1, <1>7 DEF SignalPills, WakeBoss
<1>8. ASSUME NEW w \in Worker, SignalTaken(w) PROVE TypeOK'
  BY <1>1, <1>8 DEF SignalTaken, WakeBoss
<1>9. ASSUME NEW w \in Worker, BroadcastTaken(w) PROVE TypeOK'
  BY <1>1, <1>9 DEF BroadcastTaken, Awake
<1>10. ASSUME NEW w \in Worker, ReadCounter(w) PROVE TypeOK'
  BY <1>1, <1>10 DEF ReadCounter
<1>11. ASSUME NEW w \in Worker, WriteCounter(w) PROVE TypeOK'
  BY <1>1, <1>11 DEF WriteCounter, HandsInv
<1>12. ASSUME NEW w \in Worker, OpenFile(w) PROVE TypeOK'
  <2>1. req[w] \in Request /\ stamp[req[w]] \in Nat
    BY <1>1, <1>12 DEF OpenFile, HandsInv, Working
  <2>2. LocalPath(req[w]) \in Path \X Nat
    BY <2>1 DEF LocalPath
  <2>. QED  BY <1>1, <1>12, <2>2 DEF OpenFile
<1>13. ASSUME NEW w \in Worker, Perform(w) PROVE TypeOK'
  <2>1. PICK o \in Outcomes : result' = [result EXCEPT ![req[w]] = o]
    BY <1>13 DEF Perform
  <2>2. result' \in [Request -> Outcomes \union {None}]
    BY <1>1, <2>1
  <2>3. Goto(w, "unlink") \/ Goto(w, "status")
    BY <1>13 DEF Perform
  <2>. QED  BY <1>1, <1>13, <2>2, <2>3 DEF Perform
<1>14. ASSUME NEW w \in Worker, UnlinkFailed(w) \/ Keep(w) \/ Discard(w) PROVE TypeOK'
  BY <1>1, <1>14 DEF UnlinkFailed, Keep, Discard
<1>15. ASSUME NEW w \in Worker, SpuriousWakeup(w) \/ CreateThread(w) PROVE TypeOK'
  BY <1>1, <1>15 DEF SpuriousWakeup, CreateThread
<1>16. CASE Enqueue
  <2>1. sent' \in 0 .. N + 1 /\ sent + 1 \in 1 .. N + 1
    BY <1>1, <1>16 DEF Enqueue, IInv, MainInv
  <2>. QED  BY <1>1, <1>16, <2>1, AppendProperties DEF Enqueue
<1>17. CASE MainBroadcast
  BY <1>1, <1>17 DEF MainBroadcast, Awake
<1>18. CASE JoinAndDestroy
  BY <1>1, <1>18, EmptySeq DEF JoinAndDestroy
<1>19. CASE CheckPills \/ MainLock \/ PathTooLong \/ MainSpuriousWakeup
  BY <1>1, <1>19 DEF CheckPills, MainLock, PathTooLong, MainSpuriousWakeup
<1>20. CASE Terminated \/ UNCHANGED vars
  BY <1>1, <1>20 DEF Terminated, vars
<1>. QED
  BY <1>2, <1>3, <1>4, <1>5, <1>6, <1>7, <1>8, <1>9, <1>10, <1>11, <1>12, <1>13,
     <1>14, <1>15, <1>16, <1>17, <1>18, <1>19, <1>20
  DEF Next, WorkerStep, MainStep

(* Every step keeps the mutex in the hands its program counters say.       *)
LEMMA LockStep == IInv /\ [Next]_vars => LockDiscipline'
<1>. SUFFICES ASSUME IInv, [Next]_vars PROVE LockDiscipline'
  OBVIOUS
<1>. USE WorkerAssumption DEF TypeOK, LockDiscipline, At, MainAt, Goto, queueVars, fileVars
<1>1. TypeOK /\ LockDiscipline
  BY DEF IInv
<1>2. ASSUME NEW w \in Worker, Lock(w) PROVE LockDiscipline'
  BY <1>1, <1>2 DEF Lock
<1>3. ASSUME NEW w \in Worker, WaitForRequest(w) \/ EatPill(w) \/ TakeRequest(w)
      PROVE  LockDiscipline'
  <2>1. c_lock = w /\ c_lock' = None /\ mpc' = mpc
    BY <1>1, <1>3 DEF WaitForRequest, EatPill, TakeRequest
  <2>2. pc'[w] # "check" /\ \A v \in Worker \ {w} : pc'[v] = pc[v]
    BY <1>1, <1>3 DEF WaitForRequest, EatPill, TakeRequest
  <2>. QED  BY <1>1, <2>1, <2>2
<1>4. ASSUME NEW w \in Worker, BroadcastTaken(w) PROVE LockDiscipline'
  BY <1>1, <1>4 DEF BroadcastTaken, Awake
<1>5. ASSUME NEW w \in Worker, SignalPills(w) \/ SignalTaken(w) PROVE LockDiscipline'
  BY <1>1, <1>5 DEF SignalPills, SignalTaken, WakeBoss
<1>6. ASSUME NEW w \in Worker,
             \/ TestPills(w) \/ ReadCounter(w) \/ WriteCounter(w) \/ OpenFile(w)
             \/ UnlinkFailed(w) \/ Keep(w) \/ Discard(w) \/ SpuriousWakeup(w)
      PROVE  LockDiscipline'
  BY <1>1, <1>6 DEF TestPills, ReadCounter, WriteCounter, OpenFile, UnlinkFailed,
                    Keep, Discard, SpuriousWakeup
<1>7. ASSUME NEW w \in Worker, Perform(w) PROVE LockDiscipline'
  <2>1. Goto(w, "unlink") \/ Goto(w, "status")
    BY <1>7 DEF Perform
  <2>. QED  BY <1>1, <1>7, <2>1 DEF Perform
<1>8. ASSUME NEW w \in Worker, CreateThread(w) PROVE LockDiscipline'
  BY <1>1, <1>8 DEF CreateThread
<1>9. CASE Enqueue \/ CheckPills \/ MainLock
  BY <1>1, <1>9 DEF Enqueue, CheckPills, MainLock
<1>10. CASE MainBroadcast
  BY <1>1, <1>10 DEF MainBroadcast, Awake
<1>11. CASE PathTooLong \/ MainSpuriousWakeup \/ JoinAndDestroy \/ Terminated \/ UNCHANGED vars
  BY <1>1, <1>11 DEF PathTooLong, MainSpuriousWakeup, JoinAndDestroy, Terminated, vars
<1>. QED
  BY <1>2, <1>3, <1>4, <1>5, <1>6, <1>7, <1>8, <1>9, <1>10, <1>11
  DEF Next, WorkerStep, MainStep

(* Every step keeps the promise that no wakeup of a worker is lost.        *)
LEMMA WakeupStep == IInv /\ [Next]_vars => NoWorkerSleepsThroughWork'
<1>. SUFFICES ASSUME IInv, [Next]_vars, NEW v \in Worker,
                     pc'[v] = "wait", crequest_queue' # << >>
              PROVE  mpc' = "broadcast"
  BY DEF NoWorkerSleepsThroughWork
<1>. USE DEF At, MainAt, Goto, queueVars, fileVars
<1>1. /\ TypeOK
      /\ pc[v] = "wait" /\ crequest_queue # << >> => mpc = "broadcast"
  BY DEF IInv, NoWorkerSleepsThroughWork
<1>2. ASSUME NEW w \in Worker, WaitForRequest(w) PROVE mpc' = "broadcast"
  BY <1>1, <1>2 DEF WaitForRequest, TypeOK
<1>3. ASSUME NEW w \in Worker, TakeRequest(w) PROVE mpc' = "broadcast"
  BY <1>1, <1>3 DEF TakeRequest, TypeOK
<1>4. ASSUME NEW w \in Worker, EatPill(w) PROVE mpc' = "broadcast"
  BY <1>1, <1>4 DEF EatPill, TypeOK
<1>5. ASSUME NEW w \in Worker, SignalPills(w) \/ SignalTaken(w) PROVE mpc' = "broadcast"
  BY <1>1, <1>5 DEF SignalPills, SignalTaken, WakeBoss, TypeOK
<1>6. ASSUME NEW w \in Worker, BroadcastTaken(w) PROVE mpc' = "broadcast"
  BY <1>1, <1>6 DEF BroadcastTaken, Awake, TypeOK
<1>7. ASSUME NEW w \in Worker,
             \/ Lock(w) \/ TestPills(w) \/ ReadCounter(w) \/ WriteCounter(w)
             \/ OpenFile(w) \/ UnlinkFailed(w) \/ Keep(w) \/ Discard(w)
             \/ SpuriousWakeup(w)
      PROVE  mpc' = "broadcast"
  BY <1>1, <1>7 DEF Lock, TestPills, ReadCounter, WriteCounter, OpenFile,
                    UnlinkFailed, Keep, Discard, SpuriousWakeup, TypeOK
<1>8. ASSUME NEW w \in Worker, Perform(w) PROVE mpc' = "broadcast"
  <2>1. Goto(w, "unlink") \/ Goto(w, "status")
    BY <1>8 DEF Perform
  <2>. QED  BY <1>1, <1>8, <2>1 DEF Perform, TypeOK
<1>9. ASSUME NEW w \in Worker, CreateThread(w) PROVE mpc' = "broadcast"
  <2>1. crequest_queue # << >>
    BY <1>9 DEF CreateThread
  <2>2. pc[v] = "wait"
    BY <1>1, <1>9 DEF CreateThread, TypeOK
  <2>. QED  BY <1>1, <1>9, <2>1, <2>2 DEF CreateThread
<1>10. CASE Enqueue
  BY <1>10 DEF Enqueue
<1>11. CASE MainBroadcast
  BY <1>1, <1>11 DEF MainBroadcast, Awake, TypeOK
<1>12. CASE CheckPills \/ MainLock \/ PathTooLong \/ MainSpuriousWakeup
  BY <1>1, <1>12 DEF CheckPills, MainLock, PathTooLong, MainSpuriousWakeup
<1>13. CASE JoinAndDestroy \/ Terminated \/ UNCHANGED vars
  BY <1>1, <1>13 DEF JoinAndDestroy, Terminated, vars
<1>. QED
  BY <1>2, <1>3, <1>4, <1>5, <1>6, <1>7, <1>8, <1>9, <1>10, <1>11, <1>12, <1>13
  DEF Next, WorkerStep, MainStep

(* Every step keeps somebody on the way to wake main once all the pills    *)
(* are eaten.                                                              *)
LEMMA BossStep == IInv /\ [Next]_vars => BossWillHearOfLastPill'
<1>. DEFINE Teller(w) == pc[w] \in {"pilltest", "pillsignal"}
<1>. SUFFICES ASSUME IInv, [Next]_vars, mpc' = "bosswait", num_eaten_pills' >= nthreads
              PROVE  \E w \in Worker : Teller(w)'
  BY DEF BossWillHearOfLastPill
<1>. USE SizeFacts DEF TypeOK, WorkerPC, MainPC, At, MainAt, Goto, queueVars, fileVars
<1>1. /\ TypeOK
      /\ mpc = "bosswait" /\ num_eaten_pills >= nthreads => \E w \in Worker : Teller(w)
  BY DEF IInv, BossWillHearOfLastPill
<1>2. ASSUME NEW w \in Worker, EatPill(w) PROVE Teller(w)'
  BY <1>1, <1>2 DEF EatPill
<1>3. ASSUME NEW w \in Worker, TestPills(w) PROVE Teller(w)'
  BY <1>1, <1>3 DEF TestPills
<1>4. ASSUME NEW w \in Worker, SignalPills(w) \/ SignalTaken(w) PROVE FALSE
  BY <1>4 DEF SignalPills, SignalTaken, WakeBoss
<1>5. ASSUME mpc = "bosswait", num_eaten_pills >= nthreads,
             \A w \in Worker : Teller(w) => Teller(w)'
      PROVE  \E w \in Worker : Teller(w)'
  BY <1>1, <1>5
<1>6. ASSUME NEW w \in Worker,
             \/ Lock(w) \/ WaitForRequest(w) \/ TakeRequest(w) \/ BroadcastTaken(w)
             \/ ReadCounter(w) \/ WriteCounter(w)
      PROVE  \E u \in Worker : Teller(u)'
  BY <1>1, <1>5, <1>6 DEF Lock, WaitForRequest, TakeRequest, BroadcastTaken, Awake,
                          ReadCounter, WriteCounter
<1>7. ASSUME NEW w \in Worker,
             \/ OpenFile(w) \/ UnlinkFailed(w) \/ Keep(w) \/ Discard(w)
             \/ SpuriousWakeup(w)
      PROVE  \E u \in Worker : Teller(u)'
  BY <1>1, <1>5, <1>7 DEF OpenFile, UnlinkFailed, Keep, Discard, SpuriousWakeup
<1>8. ASSUME NEW w \in Worker, Perform(w) PROVE \E u \in Worker : Teller(u)'
  <2>1. Goto(w, "unlink") \/ Goto(w, "status")
    BY <1>8 DEF Perform
  <2>. QED  BY <1>1, <1>5, <1>8, <2>1 DEF Perform
<1>9. ASSUME NEW w \in Worker, CreateThread(w) PROVE FALSE
  BY <1>9 DEF CreateThread
<1>10. CASE CheckPills
  BY <1>1, <1>10 DEF CheckPills
<1>11. CASE Enqueue \/ MainBroadcast \/ MainLock \/ MainSpuriousWakeup \/ JoinAndDestroy
  BY <1>11 DEF Enqueue, MainBroadcast, MainLock, MainSpuriousWakeup, JoinAndDestroy
<1>12. CASE PathTooLong \/ Terminated \/ UNCHANGED vars
  BY <1>1, <1>12 DEF PathTooLong, Terminated, vars
<1>. QED
  BY <1>2, <1>3, <1>4, <1>6, <1>7, <1>8, <1>9, <1>10, <1>11, <1>12
  DEF Next, WorkerStep, MainStep

(* Every step keeps the requests in the workers' hands consistent with the *)
(* workers' program counters.                                              *)
LEMMA HandsStep == IInv /\ [Next]_vars => HandsInv'
<1>. SUFFICES ASSUME IInv, [Next]_vars PROVE HandsInv'
  OBVIOUS
<1>. USE SizeFacts DEF TypeOK, HandsInv, Working, At, MainAt, Goto, queueVars, fileVars
<1>1. TypeOK /\ HandsInv
  BY DEF IInv
<1>2. ASSUME NEW w \in Worker, TakeRequest(w) PROVE HandsInv'
  <2>1. Head(crequest_queue) \in Request /\ Head(crequest_queue) # None
    BY <1>1, <1>2, QueueFacts DEF TakeRequest
  <2>. QED  BY <1>1, <1>2, <2>1 DEF TakeRequest
<1>3. ASSUME NEW w \in Worker, Lock(w) \/ WaitForRequest(w) \/ EatPill(w) PROVE HandsInv'
  BY <1>1, <1>3 DEF Lock, WaitForRequest, EatPill
<1>4. ASSUME NEW w \in Worker, TestPills(w) \/ SignalPills(w) \/ SignalTaken(w) PROVE HandsInv'
  BY <1>1, <1>4 DEF TestPills, SignalPills, SignalTaken
<1>5. ASSUME NEW w \in Worker, BroadcastTaken(w) PROVE HandsInv'
  BY <1>1, <1>5 DEF BroadcastTaken, Awake
<1>6. ASSUME NEW w \in Worker, ReadCounter(w) PROVE HandsInv'
  BY <1>1, <1>6 DEF ReadCounter
<1>7. ASSUME NEW w \in Worker, WriteCounter(w) \/ OpenFile(w) PROVE HandsInv'
  BY <1>1, <1>7 DEF WriteCounter, OpenFile
<1>8. ASSUME NEW w \in Worker, Perform(w) PROVE HandsInv'
  <2>1. PICK o \in Outcomes : result' = [result EXCEPT ![req[w]] = o]
    BY <1>8 DEF Perform
  <2>2. o # None /\ req[w] \in Request
    BY <1>1, <1>8, OutcomeAssumption DEF Perform
  <2>3. \A i \in Request : result[i] # None => result'[i] # None
    BY <1>1, <2>1, <2>2
  <2>4. result'[req[w]] # None
    BY <1>1, <2>1, <2>2
  <2>5. Goto(w, "unlink") \/ Goto(w, "status")
    BY <1>8 DEF Perform
  <2>. QED  BY <1>1, <1>8, <2>3, <2>4, <2>5 DEF Perform
<1>9. ASSUME NEW w \in Worker, UnlinkFailed(w) \/ Keep(w) PROVE HandsInv'
  BY <1>1, <1>9 DEF UnlinkFailed, Keep
<1>10. ASSUME NEW w \in Worker, Discard(w) PROVE HandsInv'
  BY <1>1, <1>10 DEF Discard
<1>11. ASSUME NEW w \in Worker, SpuriousWakeup(w) \/ CreateThread(w) PROVE HandsInv'
  BY <1>1, <1>11 DEF SpuriousWakeup, CreateThread
<1>12. CASE MainBroadcast
  BY <1>1, <1>12 DEF MainBroadcast, Awake
<1>13. CASE \/ Enqueue \/ CheckPills \/ MainLock \/ PathTooLong \/ MainSpuriousWakeup
            \/ JoinAndDestroy \/ Terminated \/ UNCHANGED vars
  BY <1>1, <1>13 DEF Enqueue, CheckPills, MainLock, PathTooLong, MainSpuriousWakeup,
                     JoinAndDestroy, Terminated, vars
<1>. QED
  BY <1>2, <1>3, <1>4, <1>5, <1>6, <1>7, <1>8, <1>9, <1>10, <1>11, <1>12, <1>13
  DEF Next, WorkerStep, MainStep

(* Every step keeps a request with at most one worker, and out of the      *)
(* queue while a worker has it: the elements still to be enqueued are      *)
(* larger than all those enqueued before.                                  *)
LEMMA OneWorkerStep == IInv /\ [Next]_vars => (OneWorkerPerRequest /\ HandsBelowSent)'
<1>. SUFFICES ASSUME IInv, [Next]_vars
              PROVE  (OneWorkerPerRequest /\ HandsBelowSent)'
  OBVIOUS
<1>. USE SizeFacts DEF TypeOK, OneWorkerPerRequest, HandsBelowSent, At, MainAt, Goto, queueVars, fileVars
<1>1. TypeOK /\ OneWorkerPerRequest /\ QueueInv /\ HandsBelowSent
  BY DEF IInv
<1>2. ASSUME UNCHANGED <<crequest_queue, sent>>,
             \A w \in Worker : req'[w] \in {req[w], None}
      PROVE  (OneWorkerPerRequest /\ HandsBelowSent)'
  BY <1>1, <1>2
<1>3. ASSUME NEW w \in Worker, TakeRequest(w)
      PROVE  (OneWorkerPerRequest /\ HandsBelowSent)'
  <2>. DEFINE h == Head(crequest_queue)
  <2>1. /\ Len(crequest_queue) \in Nat /\ Len(crequest_queue) > 0
        /\ h = crequest_queue[1]
        /\ crequest_queue' = Tail(crequest_queue)
        /\ DOMAIN crequest_queue = 1 .. Len(crequest_queue)
        /\ DOMAIN crequest_queue' = 1 .. Len(crequest_queue) - 1
        /\ \A k \in DOMAIN crequest_queue' : crequest_queue'[k] = crequest_queue[k + 1]
    BY <1>1, <1>3, QueueFacts DEF TakeRequest
  <2>2. h <= sent /\ \A k \in DOMAIN crequest_queue' : crequest_queue'[k] # h
    <3>1. \A k \in 1 .. Len(crequest_queue) : crequest_queue[k] \in Int
      BY <1>1, ElementOfSeq
    <3>2. /\ \A k \in 1 .. Len(crequest_queue) : crequest_queue[k] <= sent
          /\ \A j, k \in 1 .. Len(crequest_queue) : j < k => crequest_queue[j] < crequest_queue[k]
      BY <1>1 DEF QueueInv
    <3>. QED  BY <2>1, <3>1, <3>2
  <2>3. \A v \in Worker : req[v] # None => req[v] # h
    BY <1>1, <2>1
  <2>4. \A v \in Worker : req'[v] = IF v = w THEN h ELSE req[v]
    BY <1>1, <1>3 DEF TakeRequest
  <2>5. \A v \in Worker, k \in DOMAIN crequest_queue' :
           req[v] # None => crequest_queue'[k] # req[v]
    BY <1>1, <2>1
  <2>. QED  BY <1>1, <1>3, <2>2, <2>3, <2>4, <2>5 DEF TakeRequest
<1>4. CASE Enqueue
  <2>1. /\ crequest_queue' = Append(crequest_queue, sent + 1)
        /\ Len(crequest_queue) \in Nat
        /\ sent' = sent + 1 /\ req' = req
        /\ sent + 1 \in 1 .. N + 1
    BY <1>1, <1>4 DEF Enqueue, IInv, MainInv
  <2>2. /\ DOMAIN crequest_queue = 1 .. Len(crequest_queue)
        /\ DOMAIN crequest_queue' = 1 .. Len(crequest_queue) + 1
        /\ \A k \in DOMAIN crequest_queue : crequest_queue'[k] = crequest_queue[k]
        /\ crequest_queue'[Len(crequest_queue) + 1] = sent + 1
    BY <1>1, <2>1, AppendProperties
  <2>3. \A w \in Worker : req[w] # None => req[w] \in Int /\ req[w] <= sent
    BY <1>1 DEF Request
  <2>4. \A w \in Worker : \A k \in DOMAIN crequest_queue' :
           req[w] # None => crequest_queue'[k] # req[w]
    BY <1>1, <2>1, <2>2, <2>3
  <2>. QED  BY <1>1, <2>1, <2>3, <2>4
<1>5. CASE JoinAndDestroy
  BY <1>1, <1>5 DEF JoinAndDestroy
<1>6. ASSUME NEW w \in Worker,
             \/ Lock(w) \/ WaitForRequest(w) \/ EatPill(w) \/ TestPills(w)
             \/ SignalPills(w) \/ SignalTaken(w) \/ BroadcastTaken(w)
             \/ ReadCounter(w) \/ WriteCounter(w) \/ OpenFile(w) \/ Perform(w)
             \/ UnlinkFailed(w) \/ Keep(w) \/ Discard(w) \/ SpuriousWakeup(w)
             \/ CreateThread(w)
      PROVE  (OneWorkerPerRequest /\ HandsBelowSent)'
  <2>1. UNCHANGED <<crequest_queue, sent>>
    BY <1>6 DEF Lock, WaitForRequest, EatPill, TestPills, SignalPills, SignalTaken,
         BroadcastTaken, ReadCounter, WriteCounter, OpenFile, Perform, UnlinkFailed,
         Keep, Discard, SpuriousWakeup, CreateThread
  <2>2. req' = req \/ req' = [req EXCEPT ![w] = None]
    BY <1>6 DEF Lock, WaitForRequest, EatPill, TestPills, SignalPills, SignalTaken,
         BroadcastTaken, ReadCounter, WriteCounter, OpenFile, Perform, UnlinkFailed,
         Keep, Discard, SpuriousWakeup, CreateThread
  <2>. QED  BY <1>1, <1>2, <2>1, <2>2
<1>7. CASE \/ MainBroadcast \/ CheckPills \/ MainLock \/ PathTooLong
           \/ MainSpuriousWakeup \/ Terminated \/ UNCHANGED vars
  BY <1>1, <1>2, <1>7 DEF MainBroadcast, CheckPills, MainLock, PathTooLong,
                          MainSpuriousWakeup, Terminated, vars
<1>. QED
  BY <1>3, <1>4, <1>5, <1>6, <1>7 DEF Next, WorkerStep, MainStep

(* Only eating a pill makes an eater, and nothing unmakes one.             *)
LEMMA EatersStep ==
    ASSUME IInv, [Next]_vars
    PROVE  \/ \E w \in Worker : /\ EatPill(w)
                                /\ w \notin Eaters /\ Eaters' = Eaters \union {w}
           \/ Eaters' = Eaters /\ num_eaten_pills' = num_eaten_pills
<1>. USE DEF TypeOK, Eaters, At, MainAt, Goto, queueVars, fileVars
<1>1. TypeOK
  BY DEF IInv
<1>2. ASSUME NEW w \in Worker, EatPill(w)
      PROVE  w \notin Eaters /\ Eaters' = Eaters \union {w}
  BY <1>1, <1>2 DEF EatPill
<1>3. ASSUME NEW w \in Worker, TestPills(w) \/ SignalPills(w)
      PROVE  Eaters' = Eaters /\ num_eaten_pills' = num_eaten_pills
  BY <1>1, <1>3 DEF TestPills, SignalPills
<1>4. ASSUME NEW w \in Worker,
             \/ Lock(w) \/ WaitForRequest(w) \/ TakeRequest(w) \/ SignalTaken(w)
             \/ ReadCounter(w) \/ WriteCounter(w) \/ OpenFile(w)
      PROVE  Eaters' = Eaters /\ num_eaten_pills' = num_eaten_pills
  BY <1>1, <1>4 DEF Lock, WaitForRequest, TakeRequest, SignalTaken, ReadCounter,
                    WriteCounter, OpenFile
<1>5. ASSUME NEW w \in Worker,
             \/ UnlinkFailed(w) \/ Keep(w) \/ Discard(w)
             \/ SpuriousWakeup(w) \/ CreateThread(w)
      PROVE  Eaters' = Eaters /\ num_eaten_pills' = num_eaten_pills
  BY <1>1, <1>5 DEF UnlinkFailed, Keep, Discard, SpuriousWakeup, CreateThread
<1>6. ASSUME NEW w \in Worker, Perform(w)
      PROVE  Eaters' = Eaters /\ num_eaten_pills' = num_eaten_pills
  <2>1. Goto(w, "unlink") \/ Goto(w, "status")
    BY <1>6 DEF Perform
  <2>. QED  BY <1>1, <1>6, <2>1 DEF Perform
<1>7. ASSUME (\E w \in Worker : BroadcastTaken(w)) \/ MainBroadcast
      PROVE  Eaters' = Eaters /\ num_eaten_pills' = num_eaten_pills
  BY <1>1, <1>7 DEF BroadcastTaken, MainBroadcast, Awake
<1>8. ASSUME \/ Enqueue \/ CheckPills \/ MainLock \/ PathTooLong \/ MainSpuriousWakeup
             \/ JoinAndDestroy \/ Terminated \/ UNCHANGED vars
      PROVE  Eaters' = Eaters /\ num_eaten_pills' = num_eaten_pills
  BY <1>1, <1>8 DEF Enqueue, CheckPills, MainLock, PathTooLong, MainSpuriousWakeup,
                    JoinAndDestroy, Terminated, vars
<1>. QED
  BY <1>2, <1>3, <1>4, <1>5, <1>6, <1>7, <1>8 DEF Next, WorkerStep, MainStep

(* Every step keeps the number of eaten pills equal to that of the eaters. *)
LEMMA PillStep == IInv /\ [Next]_vars => PillInv'
<1>. SUFFICES ASSUME IInv, [Next]_vars PROVE PillInv'
  OBVIOUS
<1>1. TypeOK /\ PillInv
  BY DEF IInv
<1>2. ASSUME NEW w \in Worker, EatPill(w), w \notin Eaters, Eaters' = Eaters \union {w}
      PROVE  PillInv'
  <2>1. Cardinality(Eaters \union {w}) = Cardinality(Eaters) + 1
    BY <1>2, EatersFacts, FS_AddElement
  <2>. QED  BY <1>1, <1>2, <2>1 DEF EatPill, PillInv
<1>3. CASE Eaters' = Eaters /\ num_eaten_pills' = num_eaten_pills
  BY <1>1, <1>3 DEF PillInv
<1>. QED
  BY <1>2, <1>3, EatersStep

(* Once main has stopped waiting, every worker has eaten a pill.           *)
LEMMA AllEaten ==
    ASSUME IInv, mpc \in {"join", "done"}
    PROVE  Eaters = Worker
BY EatersFacts, SizeFacts DEF IInv, MainInv, PillInv, TypeOK

(* Every step keeps what main's position says about the pills.             *)
LEMMA MainStepInv == IInv /\ [Next]_vars => MainInv'
<1>. SUFFICES ASSUME IInv, [Next]_vars PROVE MainInv'
  OBVIOUS
<1>. USE SizeFacts DEF MainInv, TypeOK, At, MainAt, Goto, queueVars, fileVars
<1>1. TypeOK /\ MainInv
  BY DEF IInv
<1>2. num_eaten_pills' \in Int /\ num_eaten_pills' >= num_eaten_pills
  BY <1>1, EatersStep DEF EatPill
<1>3. ASSUME NEW w \in Worker,
             \/ Lock(w) \/ WaitForRequest(w) \/ EatPill(w) \/ TakeRequest(w)
             \/ TestPills(w) \/ BroadcastTaken(w) \/ ReadCounter(w) \/ WriteCounter(w)
             \/ OpenFile(w) \/ Perform(w) \/ UnlinkFailed(w) \/ Keep(w) \/ Discard(w)
             \/ SpuriousWakeup(w)
      PROVE  MainInv'
  <2>1. mpc' = mpc /\ sent' = sent
    BY <1>3 DEF Lock, WaitForRequest, EatPill, TakeRequest, TestPills, BroadcastTaken,
         ReadCounter, WriteCounter, OpenFile, Perform, UnlinkFailed, Keep, Discard,
         SpuriousWakeup
  <2>. QED  BY <1>1, <1>2, <2>1
<1>4. ASSUME NEW w \in Worker, SignalPills(w) \/ SignalTaken(w) PROVE MainInv'
  BY <1>1, <1>2, <1>4 DEF SignalPills, SignalTaken, WakeBoss
<1>5. ASSUME NEW w \in Worker, CreateThread(w) PROVE MainInv'
  <2>1. sent = 0 /\ sent' = 0 /\ mpc' \in {"create", "lock"}
    BY <1>1, <1>5 DEF CreateThread
  <2>. QED  BY <2>1
<1>6. CASE Enqueue \/ MainBroadcast
  BY <1>1, <1>6 DEF Enqueue, MainBroadcast
<1>7. CASE CheckPills \/ MainLock \/ PathTooLong \/ MainSpuriousWakeup
  BY <1>1, <1>7 DEF CheckPills, MainLock, PathTooLong, MainSpuriousWakeup
<1>8. CASE JoinAndDestroy \/ Terminated \/ UNCHANGED vars
  BY <1>1, <1>8 DEF JoinAndDestroy, Terminated, vars
<1>. QED
  BY <1>3, <1>4, <1>5, <1>6, <1>7, <1>8 DEF Next, WorkerStep, MainStep

(* What EatPill finds: the pill, alone in the queue, and no more to come.  *)
LEMMA EatPillFacts ==
    ASSUME IInv, NEW w \in Worker, EatPill(w)
    PROVE  sent = N + 1 /\ Len(crequest_queue) <= 1
<1>1. TypeOK /\ QueueInv /\ crequest_queue # << >> /\ PathOf(Head(crequest_queue)) = Stop
  BY DEF IInv, EatPill
<1>2. crequest_queue[1] = N + 1
  BY <1>1, QueueFacts, SizeFacts DEF Request
<1>3. \A k \in 1 .. Len(crequest_queue) : crequest_queue[k] \in 1 .. N + 1
  BY <1>1, ElementOfSeq DEF TypeOK
<1>4. Len(crequest_queue) \in Nat /\ Len(crequest_queue) > 0
  BY <1>1, QueueFacts
<1>5. Len(crequest_queue) <= 1
  <2>. SUFFICES ASSUME ~ Len(crequest_queue) <= 1 PROVE FALSE
    OBVIOUS
  <2>1. 1 \in 1 .. Len(crequest_queue) /\ 2 \in 1 .. Len(crequest_queue)
    BY <1>4
  <2>2. crequest_queue[1] < crequest_queue[2]
    BY <1>1, <2>1 DEF QueueInv
  <2>3. crequest_queue[2] \in 1 .. N + 1
    BY <1>3, <2>1
  <2>. QED  BY <1>2, <2>2, <2>3, SizeFacts
<1>6. sent \in 0 .. N + 1
  BY <1>1 DEF TypeOK
<1>7. 1 \in 1 .. Len(crequest_queue)
  BY <1>4
<1>8. N + 1 <= sent
  BY <1>1, <1>2, <1>7 DEF QueueInv
<1>9. N \in Nat
  BY SizeFacts
<1>. QED
  BY <1>5, <1>6, <1>8, <1>9

(* What TakeRequest finds at the head: a request, and the pill behind it.  *)
LEMMA TakeRequestFacts ==
    ASSUME IInv, NEW w \in Worker, TakeRequest(w)
    PROVE  /\ mpc # "done" /\ Eaters = {}
           /\ crequest_queue[1] \in Request
           /\ Len(crequest_queue) \in Nat /\ Len(crequest_queue) > 0
           /\ sent = N + 1 => Len(crequest_queue) > 1
           /\ crequest_queue' = Tail(crequest_queue)
           /\ Len(crequest_queue') = Len(crequest_queue) - 1
           /\ \A k \in 1 .. Len(crequest_queue) - 1 : crequest_queue'[k] = crequest_queue[k + 1]
<1>1. /\ TypeOK /\ QueueInv /\ crequest_queue # << >>
      /\ PathOf(Head(crequest_queue)) # Stop /\ pc[w] = "check"
      /\ crequest_queue' = Tail(crequest_queue)
  BY DEF IInv, TakeRequest, At
<1>2. mpc # "done"
  BY <1>1, AllEaten DEF Eaters
<1>3. crequest_queue[1] \in Request /\ crequest_queue[1] # N + 1
  BY <1>1, QueueFacts, SizeFacts
<1>4. sent = N + 1 => Len(crequest_queue) > 1
  BY <1>1, <1>2, <1>3, QueueFacts DEF QueueInv
<1>. QED
  BY <1>1, <1>2, <1>3, <1>4, QueueFacts DEF QueueInv

(* Every step keeps the queue sorted, with the pill at its end.            *)
LEMMA QueueStep == IInv /\ [Next]_vars => QueueInv'
<1>. SUFFICES ASSUME IInv, [Next]_vars PROVE QueueInv'
  OBVIOUS
<1>. USE SizeFacts DEF At, MainAt, queueVars, fileVars
<1>1. TypeOK /\ QueueInv /\ MainInv /\ sent \in 0 .. N + 1
  BY DEF IInv, TypeOK
<1>2. ASSUME NEW w \in Worker, EatPill(w) PROVE QueueInv'
  <2>1. UNCHANGED <<mpc, sent, crequest_queue>>
    BY <1>2 DEF EatPill
  <2>. QED  BY <1>1, <1>2, <2>1, EatPillFacts DEF QueueInv
<1>3. ASSUME ~ \E w \in Worker : EatPill(w) PROVE Eaters' = Eaters
  BY <1>3, EatersStep
<1>4. ASSUME NEW w \in Worker, TakeRequest(w) PROVE QueueInv'
  <2>1. UNCHANGED <<mpc, sent>> /\ ~ \E v \in Worker : EatPill(v)
    BY <1>4 DEF TakeRequest, EatPill
  <2>2. Eaters' = {}
    BY <1>3, <1>4, <2>1, TakeRequestFacts
  <2>. DEFINE q == crequest_queue
  <2>3. /\ Len(q) \in Nat /\ Len(q) > 0 /\ Len(q') = Len(q) - 1
        /\ \A k \in 1 .. Len(q') : k + 1 \in 1 .. Len(q) /\ q'[k] = q[k + 1]
    BY <1>4, TakeRequestFacts
  <2>4. \A k \in 1 .. Len(q') : q'[k] <= sent'
    BY <1>1, <2>1, <2>3 DEF QueueInv
  <2>5. \A j, k \in 1 .. Len(q') : j < k => q'[j] < q'[k]
    BY <1>1, <2>3 DEF QueueInv
  <2>6. sent' = N + 1 /\ mpc' # "done" => Len(q') > 0 /\ q'[Len(q')] = N + 1
    <3>1. ASSUME sent = N + 1 PROVE Len(q') \in 1 .. Len(q') /\ q[Len(q)] = N + 1
      BY <1>1, <1>4, <2>3, <3>1, TakeRequestFacts DEF QueueInv
    <3>. QED  BY <2>1, <2>3, <3>1
  <2>. QED  BY <1>4, <2>1, <2>2, <2>4, <2>5, <2>6, TakeRequestFacts DEF QueueInv
<1>5. CASE Enqueue
  <2>1. /\ sent <= N /\ sent' = sent + 1 /\ mpc' = "broadcast"
        /\ crequest_queue' = Append(crequest_queue, sent + 1)
    BY <1>1, <1>5 DEF Enqueue, MainInv
  <2>2. Eaters' = {}
    <3>1. Eaters = {}
      BY <1>1, <2>1 DEF QueueInv
    <3>2. ~ \E v \in Worker : EatPill(v)
      BY <1>5 DEF Enqueue, EatPill, TypeOK
    <3>. QED  BY <1>3, <3>1, <3>2
  <2>3. /\ Len(crequest_queue) \in Nat
        /\ Len(crequest_queue') = Len(crequest_queue) + 1
        /\ \A k \in 1 .. Len(crequest_queue) : crequest_queue'[k] = crequest_queue[k]
        /\ crequest_queue'[Len(crequest_queue) + 1] = sent + 1
        /\ \A k \in 1 .. Len(crequest_queue) : crequest_queue[k] \in Int
    BY <1>1, <2>1, AppendProperties, ElementOfSeq DEF TypeOK
  <2>. QED  BY <1>1, <2>1, <2>2, <2>3 DEF QueueInv
<1>6. CASE JoinAndDestroy
  <2>1. crequest_queue' = << >> /\ mpc' = "done" /\ sent' = sent /\ sent = N + 1
    BY <1>1, <1>6 DEF JoinAndDestroy, MainInv
  <2>. QED  BY <1>1, <2>1 DEF QueueInv
<1>7. ASSUME UNCHANGED <<crequest_queue, sent>>, mpc' = "done" => mpc = "done",
             mpc = "done" => mpc' = "done", ~ \E w \in Worker : EatPill(w)
      PROVE  QueueInv'
  BY <1>1, <1>3, <1>7 DEF QueueInv
<1>8. CASE /\ ~ \E w \in Worker : EatPill(w) \/ TakeRequest(w)
           /\ ~ Enqueue /\ ~ JoinAndDestroy
  <2>1. UNCHANGED <<crequest_queue, sent>> /\ (mpc' = "done" <=> mpc = "done")
    BY <1>8 DEF Next, WorkerStep, MainStep, Lock, WaitForRequest, TestPills,
         SignalPills, SignalTaken, WakeBoss, BroadcastTaken, ReadCounter, WriteCounter,
         OpenFile, Perform, UnlinkFailed, Keep, Discard, SpuriousWakeup, CreateThread,
         MainBroadcast, CheckPills, MainLock, PathTooLong, MainSpuriousWakeup,
         Terminated, vars
  <2>. QED  BY <1>7, <1>8, <2>1
<1>. QED
  BY <1>2, <1>4, <1>5, <1>6, <1>8

(* Every step keeps each enqueued request in some place.                   *)
LEMMA NothingLostStep == IInv /\ [Next]_vars => NothingLost'
<1>. SUFFICES ASSUME IInv, [Next]_vars, NEW i \in Request, i <= sent'
              PROVE  \/ \E k \in 1 .. Len(crequest_queue') : crequest_queue'[k] = i
                     \/ \E w \in Worker : req'[w] = i
                     \/ result'[i] # None
  BY DEF NothingLost
<1>. DEFINE Somewhere == \/ \E k \in 1 .. Len(crequest_queue) : crequest_queue[k] = i
                         \/ \E w \in Worker : req[w] = i
                         \/ result[i] # None
<1>. USE SizeFacts DEF At, MainAt, Goto, queueVars, fileVars
<1>1. TypeOK /\ HandsInv /\ MainInv /\ (i <= sent => Somewhere)
  BY DEF IInv, NothingLost
<1>2. CASE UNCHANGED <<crequest_queue, sent, req, result>>
  BY <1>1, <1>2
<1>3. ASSUME NEW w \in Worker, TakeRequest(w) PROVE Somewhere'
  <2>1. UNCHANGED <<sent, result>> /\ i <= sent
    BY <1>3 DEF TakeRequest
  <2>2. req' = [req EXCEPT ![w] = crequest_queue[1]]
    BY <1>1, <1>3, QueueFacts DEF TakeRequest
  <2>3. req[w] = None
    BY <1>1, <1>3 DEF TakeRequest, HandsInv, Working
  <2>4. ASSUME NEW v \in Worker, req[v] = i PROVE req'[v] = i
    BY <1>1, <2>2, <2>3, <2>4 DEF TypeOK
  <2>5. ASSUME NEW k \in 1 .. Len(crequest_queue), crequest_queue[k] = i PROVE Somewhere'
    <3>1. CASE k = 1
      BY <1>1, <2>2, <2>5, <3>1 DEF TypeOK
    <3>2. CASE k # 1
      <4>1. /\ k - 1 \in 1 .. Len(crequest_queue')
            /\ crequest_queue'[k - 1] = crequest_queue[(k - 1) + 1]
            /\ (k - 1) + 1 = k
        BY <1>3, <2>5, <3>2, TakeRequestFacts
      <4>. QED  BY <2>5, <4>1
    <3>. QED  BY <3>1, <3>2
  <2>. QED  BY <1>1, <2>1, <2>4, <2>5
<1>4. ASSUME NEW w \in Worker, Keep(w) \/ Discard(w) PROVE Somewhere'
  <2>1. /\ UNCHANGED <<crequest_queue, sent, result>> /\ i <= sent
        /\ req' = [req EXCEPT ![w] = None]
        /\ result[req[w]] # None
    BY <1>1, <1>4 DEF Keep, Discard, HandsInv
  <2>2. ASSUME NEW v \in Worker, req[v] = i PROVE req'[v] = i \/ result[i] # None
    BY <1>1, <2>1, <2>2 DEF TypeOK
  <2>. QED  BY <1>1, <2>1, <2>2
<1>5. ASSUME NEW w \in Worker, Perform(w) PROVE Somewhere'
  <2>1. PICK o \in Outcomes : result' = [result EXCEPT ![req[w]] = o]
    BY <1>5 DEF Perform
  <2>2. UNCHANGED <<crequest_queue, sent, req>>
    BY <1>5 DEF Perform
  <2>3. result[i] # None => result'[i] # None
    BY <1>1, <2>1, OutcomeAssumption DEF TypeOK
  <2>. QED  BY <1>1, <2>2, <2>3
<1>6. CASE Enqueue
  <2>1. /\ crequest_queue' = Append(crequest_queue, sent + 1)
        /\ sent \in 0 .. N + 1 /\ sent + 1 \in 1 .. N + 1 /\ sent' = sent + 1
        /\ UNCHANGED <<req, result>>
    BY <1>1, <1>6 DEF Enqueue, MainInv, TypeOK
  <2>2. /\ Len(crequest_queue) \in Nat
        /\ Len(crequest_queue') = Len(crequest_queue) + 1
        /\ \A k \in 1 .. Len(crequest_queue) : crequest_queue'[k] = crequest_queue[k]
        /\ crequest_queue'[Len(crequest_queue) + 1] = sent + 1
    BY <1>1, <2>1, AppendProperties DEF TypeOK
  <2>3. i \in Int /\ (i <= sent \/ i = sent + 1)
    BY <2>1 DEF Request
  <2>. QED  BY <1>1, <2>1, <2>2, <2>3
<1>7. CASE JoinAndDestroy
  <2>1. /\ UNCHANGED <<sent, req, result>> /\ mpc = "join" /\ sent = N + 1
    BY <1>1, <1>7 DEF JoinAndDestroy, MainInv
  <2>2. Len(crequest_queue) <= 1
    BY <2>1, AllEaten, WorkerAssumption DEF IInv, QueueInv
  <2>3. crequest_queue[Len(crequest_queue)] = N + 1
    BY <2>1 DEF IInv, QueueInv
  <2>4. Len(crequest_queue) \in Nat
    BY <1>1 DEF TypeOK
  <2>5. \A k \in 1 .. Len(crequest_queue) : crequest_queue[k] # i
    BY <2>2, <2>3, <2>4
  <2>. QED  BY <1>1, <2>1, <2>5
<1>8. CASE /\ ~ \E w \in Worker : TakeRequest(w) \/ Keep(w) \/ Discard(w) \/ Perform(w)
           /\ ~ Enqueue /\ ~ JoinAndDestroy
  BY <1>2, <1>8 DEF Next, WorkerStep, MainStep, Lock, WaitForRequest, EatPill, TestPills,
       SignalPills, SignalTaken, BroadcastTaken, ReadCounter, WriteCounter, OpenFile,
       UnlinkFailed, SpuriousWakeup, CreateThread, MainBroadcast, CheckPills, MainLock,
       PathTooLong, MainSpuriousWakeup, Terminated, vars
<1>. QED
  BY <1>3, <1>4, <1>5, <1>6, <1>7, <1>8

-----------------------------------------------------------------------------
(* The local files.                                                        *)

(* The steps that enqueue, take, number and perform requests are the only  *)
(* ones that touch these variables.                                        *)
LEMMA RequestSteps ==
    ASSUME [Next]_vars,
           ~ Enqueue, ~ JoinAndDestroy,
           ~ \E w \in Worker : TakeRequest(w) \/ ReadCounter(w) \/ Perform(w)
    PROVE  UNCHANGED <<crequest_queue, sent, stamp, result>>
BY DEF Next, WorkerStep, MainStep, Lock, WaitForRequest, EatPill, TestPills,
   SignalPills, SignalTaken, BroadcastTaken, WriteCounter, OpenFile, UnlinkFailed, Keep,
   Discard, SpuriousWakeup, CreateThread, MainBroadcast, CheckPills, MainLock,
   PathTooLong, MainSpuriousWakeup, Terminated, vars, queueVars, fileVars

(* A worker on the way to localPath has taken its request or was on that   *)
(* way before.                                                             *)
LEMMA UnstampedSteps ==
    ASSUME IInv, [Next]_vars, NEW v \in Worker,
           pc'[v] \in {"signal", "broadcast", "stamp"}, ~ TakeRequest(v)
    PROVE  pc[v] \in {"signal", "broadcast", "stamp"} /\ req'[v] = req[v]
<1>. USE DEF At, MainAt, Goto, queueVars, fileVars
<1>1. TypeOK
  BY DEF IInv
<1>2. ASSUME NEW w \in Worker,
             \/ Lock(w) \/ WaitForRequest(w) \/ EatPill(w) \/ TestPills(w)
             \/ SignalPills(w) \/ SignalTaken(w) \/ ReadCounter(w) \/ WriteCounter(w)
             \/ OpenFile(w) \/ UnlinkFailed(w) \/ SpuriousWakeup(w) \/ CreateThread(w)
      PROVE  pc[v] \in {"signal", "broadcast", "stamp"} /\ req'[v] = req[v]
  BY <1>1, <1>2 DEF Lock, WaitForRequest, EatPill, TestPills, SignalPills, SignalTaken,
       ReadCounter, WriteCounter, OpenFile, UnlinkFailed, SpuriousWakeup, CreateThread,
       TypeOK
<1>3. ASSUME NEW w \in Worker, Keep(w) \/ Discard(w)
      PROVE  pc[v] \in {"signal", "broadcast", "stamp"} /\ req'[v] = req[v]
  <2>1. Goto(w, "lock") \/ Goto(w, "dead")
    BY <1>3 DEF Keep, Discard
  <2>2. req' = [req EXCEPT ![w] = None]
    BY <1>3 DEF Keep, Discard
  <2>. QED  BY <1>1, <2>1, <2>2 DEF TypeOK
<1>4. ASSUME NEW w \in Worker, Perform(w)
      PROVE  pc[v] \in {"signal", "broadcast", "stamp"} /\ req'[v] = req[v]
  <2>1. Goto(w, "unlink") \/ Goto(w, "status")
    BY <1>4 DEF Perform
  <2>. QED  BY <1>1, <1>4, <2>1 DEF Perform, TypeOK
<1>5. ASSUME NEW w \in Worker, w # v, TakeRequest(w)
      PROVE  pc[v] \in {"signal", "broadcast", "stamp"} /\ req'[v] = req[v]
  BY <1>1, <1>5 DEF TakeRequest, TypeOK
<1>6. ASSUME (\E w \in Worker : BroadcastTaken(w)) \/ MainBroadcast
      PROVE  pc[v] \in {"signal", "broadcast", "stamp"} /\ req'[v] = req[v]
  BY <1>1, <1>6 DEF BroadcastTaken, MainBroadcast, Awake, TypeOK
<1>7. ASSUME \/ Enqueue \/ CheckPills \/ MainLock \/ PathTooLong \/ MainSpuriousWakeup
             \/ JoinAndDestroy \/ Terminated \/ UNCHANGED vars
      PROVE  pc[v] \in {"signal", "broadcast", "stamp"} /\ req'[v] = req[v]
  BY <1>7 DEF Enqueue, CheckPills, MainLock, PathTooLong, MainSpuriousWakeup,
       JoinAndDestroy, Terminated, vars
<1>. QED
  BY <1>2, <1>3, <1>4, <1>5, <1>6, <1>7 DEF Next, WorkerStep, MainStep

(* A request in a worker's hands is enqueued, and is nowhere else.         *)
LEMMA HeldFacts ==
    ASSUME IInv, NEW w \in Worker, pc[w] \in Working
    PROVE  /\ req[w] \in Request /\ req[w] <= sent
           /\ \A v \in Worker : v # w => req[v] # req[w]
           /\ \A k \in 1 .. Len(crequest_queue) : crequest_queue[k] # req[w]
<1>1. req[w] \in Request /\ req[w] # None
  BY SizeFacts DEF IInv, TypeOK, HandsInv
<1>2. DOMAIN crequest_queue = 1 .. Len(crequest_queue)
  BY DEF IInv, TypeOK
<1>. QED  BY <1>1, <1>2 DEF IInv, HandsBelowSent, OneWorkerPerRequest

(* Every step keeps the requests in the queue without number and outcome.  *)
LEMMA StampStep == IInv /\ [Next]_vars => StampInv'
<1>. SUFFICES ASSUME IInv, [Next]_vars PROVE StampInv'
  OBVIOUS
<1>. DEFINE Q == \A k \in 1 .. Len(crequest_queue) :
                    crequest_queue[k] \in Request =>
                        stamp[crequest_queue[k]] = -1 /\ result[crequest_queue[k]] = None
            R == \A i \in Request : /\ i > sent => stamp[i] = -1 /\ result[i] = None
                                    /\ result[i] # None => stamp[i] # -1
            W == \A v \in Worker :
                    pc[v] \in {"signal", "broadcast", "stamp"} => stamp[req[v]] = -1
<1>1. TypeOK /\ Q /\ R /\ W
  BY DEF IInv, StampInv
<1>2. CASE UNCHANGED <<stamp, result>> /\ ~ \E w \in Worker : TakeRequest(w)
  <2>1. W'
    BY <1>1, <1>2, UnstampedSteps
  <2>2. CASE UNCHANGED <<crequest_queue, sent>>
    BY <1>1, <1>2, <2>1, <2>2 DEF StampInv
  <2>3. CASE Enqueue
    <3>1. /\ crequest_queue' = Append(crequest_queue, sent + 1)
          /\ sent \in 0 .. N + 1 /\ sent + 1 \in 1 .. N + 1 /\ sent' = sent + 1
      BY <1>1, <2>3, SizeFacts DEF Enqueue, MainAt, IInv, MainInv, TypeOK
    <3>2. /\ Len(crequest_queue) \in Nat
          /\ Len(crequest_queue') = Len(crequest_queue) + 1
          /\ \A k \in 1 .. Len(crequest_queue) : crequest_queue'[k] = crequest_queue[k]
          /\ crequest_queue'[Len(crequest_queue) + 1] = sent + 1
      BY <1>1, <3>1, AppendProperties DEF TypeOK
    <3>3. \A k \in 1 .. Len(crequest_queue') :
             k \in 1 .. Len(crequest_queue) \/ k = Len(crequest_queue) + 1
      BY <3>2
    <3>4. sent + 1 \in Request => stamp[sent + 1] = -1 /\ result[sent + 1] = None
      BY <1>1, <3>1
    <3>5. Q'
      BY <1>1, <1>2, <3>2, <3>3, <3>4
    <3>6. \A i \in Request : i > sent' => i > sent
      BY <3>1 DEF Request
    <3>. QED  BY <1>1, <1>2, <2>1, <3>5, <3>6 DEF StampInv
  <2>4. CASE JoinAndDestroy
    <3>1. crequest_queue' = << >> /\ sent' = sent
      BY <2>4 DEF JoinAndDestroy
    <3>. QED  BY <1>1, <1>2, <2>1, <3>1 DEF StampInv
  <2>5. CASE ~ Enqueue /\ ~ JoinAndDestroy
    <3>1. CASE UNCHANGED <<crequest_queue, sent>>
      BY <2>2, <3>1
    <3>2. CASE \E w \in Worker : ReadCounter(w) \/ Perform(w)
      BY <2>2, <3>2 DEF ReadCounter, Perform, queueVars
    <3>. QED  BY <1>2, <2>2, <2>5, <3>1, <3>2, RequestSteps
  <2>. QED  BY <2>3, <2>4, <2>5
<1>3. ASSUME NEW w \in Worker, TakeRequest(w) PROVE StampInv'
  <2>1. UNCHANGED <<sent, stamp, result>>
    BY <1>3 DEF TakeRequest, fileVars
  <2>2. /\ crequest_queue[1] \in Request
        /\ Len(crequest_queue) \in Nat /\ Len(crequest_queue) > 0
        /\ Len(crequest_queue') = Len(crequest_queue) - 1
        /\ \A k \in 1 .. Len(crequest_queue) - 1 : crequest_queue'[k] = crequest_queue[k + 1]
    BY <1>3, TakeRequestFacts
  <2>3. \A k \in 1 .. Len(crequest_queue') :
           k + 1 \in 1 .. Len(crequest_queue) /\ crequest_queue'[k] = crequest_queue[k + 1]
    BY <2>2
  <2>4. Q'
    BY <1>1, <2>1, <2>3
  <2>5. 1 \in 1 .. Len(crequest_queue)
    BY <2>2
  <2>6. stamp[crequest_queue[1]] = -1
    BY <1>1, <2>2, <2>5
  <2>7. req' = [req EXCEPT ![w] = crequest_queue[1]] /\ pc' = [pc EXCEPT ![w] = "signal"]
    BY <1>1, <1>3, QueueFacts DEF TakeRequest, Goto
  <2>8. W'
    BY <1>1, <2>1, <2>6, <2>7 DEF TypeOK
  <2>. QED  BY <1>1, <2>1, <2>4, <2>8 DEF StampInv
<1>4. ASSUME NEW w \in Worker, ReadCounter(w) PROVE StampInv'
  <2>1. /\ pc[w] = "stamp" /\ UNCHANGED <<crequest_queue, sent, result, req>>
        /\ stamp' = [stamp EXCEPT ![req[w]] = counter]
        /\ pc' = [pc EXCEPT ![w] = "bump"]
    BY <1>4 DEF ReadCounter, At, Goto, queueVars
  <2>2. /\ req[w] \in Request /\ req[w] <= sent
        /\ \A v \in Worker : v # w => req[v] # req[w]
        /\ \A k \in 1 .. Len(crequest_queue) : crequest_queue[k] # req[w]
    BY <2>1, HeldFacts DEF Working
  <2>3. counter # -1 /\ req[w] \in Int /\ sent \in Int
    BY <1>1, <2>2 DEF TypeOK, Request
  <2>4. \A i \in Request : stamp'[i] = IF i = req[w] THEN counter ELSE stamp[i]
    BY <1>1, <2>1 DEF TypeOK
  <2>5. Q'
    BY <1>1, <2>1, <2>2, <2>4
  <2>6. R'
    BY <1>1, <2>1, <2>2, <2>3, <2>4
  <2>7. ASSUME NEW v \in Worker, pc'[v] \in {"signal", "broadcast", "stamp"}
        PROVE  stamp'[req'[v]] = -1
    <3>1. v # w /\ pc[v] = pc'[v] /\ pc[v] \in Working
      BY <1>1, <2>1, <2>7 DEF TypeOK, Working
    <3>2. req[v] \in Request /\ req[v] # req[w]
      BY <2>2, <3>1, HeldFacts
    <3>. QED  BY <1>1, <2>1, <2>4, <2>7, <3>1, <3>2
  <2>. QED  BY <2>5, <2>6, <2>7 DEF StampInv
<1>5. ASSUME NEW w \in Worker, Perform(w) PROVE StampInv'
  <2>1. pc[w] = "perform" /\ UNCHANGED <<crequest_queue, sent, stamp, req>>
    BY <1>5 DEF Perform, At, queueVars
  <2>2. PICK o \in Outcomes : result' = [result EXCEPT ![req[w]] = o]
    BY <1>5 DEF Perform
  <2>3. /\ req[w] \in Request /\ req[w] <= sent
        /\ \A k \in 1 .. Len(crequest_queue) : crequest_queue[k] # req[w]
    BY <2>1, HeldFacts DEF Working
  <2>4. stamp[req[w]] # -1
    BY <2>1 DEF IInv, HandsInv
  <2>5. \A i \in Request : i # req[w] => result'[i] = result[i]
    BY <1>1, <2>2 DEF TypeOK
  <2>6. Q'
    BY <1>1, <2>1, <2>3, <2>5
  <2>7. req[w] \in Int /\ sent \in Int
    BY <1>1, <2>3 DEF TypeOK, Request
  <2>8. R'
    BY <1>1, <2>1, <2>3, <2>4, <2>5, <2>7
  <2>9. ~ \E v \in Worker : TakeRequest(v)
    BY <1>1, <1>5 DEF Perform, TakeRequest, TypeOK, queueVars, At
  <2>10. W'
    <3>. SUFFICES ASSUME NEW v \in Worker, pc'[v] \in {"signal", "broadcast", "stamp"}
                  PROVE  stamp'[req'[v]] = -1
      OBVIOUS
    <3>1. pc[v] \in {"signal", "broadcast", "stamp"} /\ req'[v] = req[v]
      <4>1. ~ TakeRequest(v)
        BY <2>9
      <4>. QED  BY <4>1, UnstampedSteps
    <3>. QED  BY <1>1, <2>1, <3>1
  <2>. QED  BY <2>6, <2>8, <2>10 DEF StampInv
<1>6. CASE ~ \E w \in Worker : TakeRequest(w) \/ ReadCounter(w) \/ Perform(w)
  <2>1. UNCHANGED <<stamp, result>>
    <3>1. CASE Enqueue \/ JoinAndDestroy
      BY <3>1 DEF Enqueue, JoinAndDestroy, fileVars
    <3>. QED  BY <1>6, <3>1, RequestSteps
  <2>. QED  BY <1>2, <1>6, <2>1
<1>. QED  BY <1>3, <1>4, <1>5, <1>6

(* No other worker's request is performed, and none gets a file of the     *)
(* same name without being seen to share it.                               *)
LEMMA FileFacts ==
    ASSUME IInv, NEW w \in Worker, pc[w] \in HasFile, NEW i, i = req[w]
    PROVE  /\ i \in Request /\ stamp[i] # -1
           /\ \A v \in Worker : v # w => req[v] # i
           /\ \A j \in Request : j # i /\ ~ SharesLocalFile(j) => LocalPath(j) # LocalPath(i)
           /\ SharesLocalFile(i) \/ OwnFile(w, i)
<1>1. pc[w] \in Working
  BY DEF HasFile, Working
<1>2. i \in Request /\ \A v \in Worker : v # w => req[v] # i
  BY <1>1, HeldFacts
<1>3. stamp[i] # -1
  BY DEF IInv, HandsInv, HasFile
<1>4. SharesLocalFile(i) \/ OwnFile(w, i)
  BY <1>2 DEF IInv, FileInv
<1>. QED
  BY <1>2, <1>3, <1>4 DEF SharesLocalFile

(* A worker changes nothing of the files but its own.                      *)
LEMMA OtherFiles ==
    ASSUME IInv, NEW w \in Worker, pc[w] \in HasFile, UNCHANGED stamp, NEW i, i = req[w],
           \A v \in Worker : v # w => pc'[v] = pc[v] /\ req'[v] = req[v],
           \A j \in Request : j # i => result'[j] = result[j],
           \A f : f # LocalPath(i) => (f \in disk' <=> f \in disk),
           \/ /\ req'[w] = i
              /\ SharesLocalFile(i) \/ OwnFile(w, i)'
           \/ /\ pc'[w] \notin HasFile
              /\ \/ SharesLocalFile(i)
                 \/ LocalPath(i) \in disk' <=> result'[i] = [rc |-> 0, status |-> "OK"]
    PROVE  FileInv'
<1>1. /\ i \in Request /\ stamp[i] # -1
      /\ \A v \in Worker : v # w => req[v] # i
      /\ \A j \in Request : j # i /\ ~ SharesLocalFile(j) => LocalPath(j) # LocalPath(i)
  BY FileFacts
<1>2. ASSUME NEW j \in Request
      PROVE  LocalPath(j)' = LocalPath(j) /\ (SharesLocalFile(j)' <=> SharesLocalFile(j))
  BY DEF LocalPath, SharesLocalFile
<1>3. ASSUME NEW f \in disk'
      PROVE  \E j \in Request : stamp'[j] # -1 /\ LocalPath(j)' = f
  <2>1. CASE f = LocalPath(i)
    BY <1>1, <1>2, <2>1
  <2>2. CASE f # LocalPath(i)
    <3>1. PICK j \in Request : stamp[j] # -1 /\ LocalPath(j) = f
      BY <1>3, <2>2 DEF IInv, FileInv
    <3>. QED  BY <1>2, <3>1
  <2>. QED  BY <2>1, <2>2
<1>4. ASSUME NEW v \in Worker, NEW j \in Request, req'[v] = j, pc'[v] \in HasFile
      PROVE  SharesLocalFile(j)' \/ OwnFile(v, j)'
  <2>1. CASE v = w
    BY <1>1, <1>2, <1>4, <2>1
  <2>2. CASE v # w
    <3>1. /\ pc'[v] = pc[v] /\ pc[v] \in HasFile /\ req[v] = j /\ j # i
          /\ SharesLocalFile(j) \/ OwnFile(v, j)
      BY <1>1, <1>4, <2>2, FileFacts
    <3>2. CASE SharesLocalFile(j)
      BY <1>2, <3>2
    <3>3. CASE ~ SharesLocalFile(j)
      <4>1. LocalPath(j) \in disk' <=> LocalPath(j) \in disk
        BY <1>1, <3>1, <3>3
      <4>2. LocalPath(j)' = LocalPath(j) /\ result'[j] = result[j]
        BY <1>2, <3>1
      <4>. QED  BY <3>1, <3>3, <4>1, <4>2 DEF OwnFile
    <3>. QED  BY <3>2, <3>3
  <2>. QED  BY <2>1, <2>2
<1>5. ASSUME NEW j \in Request, result'[j] # None, \A v \in Worker : req'[v] # j,
             ~ SharesLocalFile(j)'
      PROVE  LocalPath(j)' \in disk' <=> result'[j] = [rc |-> 0, status |-> "OK"]
  <2>1. ~ SharesLocalFile(j) /\ LocalPath(j)' = LocalPath(j)
    BY <1>2, <1>5
  <2>2. CASE j = i
    BY <1>5, <2>1, <2>2
  <2>3. CASE j # i
    <3>1. \A v \in Worker : req[v] # j
      BY <1>5, <2>3
    <3>2. result'[j] = result[j] /\ LocalPath(j) # LocalPath(i)
      BY <1>1, <2>1, <2>3
    <3>3. LocalPath(j) \in disk <=> result[j] = [rc |-> 0, status |-> "OK"]
      BY <1>5, <2>1, <3>1, <3>2 DEF IInv, FileInv, DiskHoldsTheSuccesses
    <3>. QED  BY <2>1, <3>2, <3>3
  <2>. QED  BY <2>2, <2>3
<1>6. DiskHoldsTheSuccesses'
  BY <1>5 DEF DiskHoldsTheSuccesses
<1>. QED
  BY <1>3, <1>4, <1>6 DEF FileInv

(* A step that touches no file, number or outcome leaves every file where  *)
(* it belongs, when no request changes hands at a worker that has a file.  *)
LEMMA StillFiles ==
    ASSUME IInv, UNCHANGED <<stamp, result, disk>>,
           \A v \in Worker : pc'[v] \in HasFile =>
               /\ req'[v] = req[v]
               /\ (pc'[v] = pc[v] \/ (pc[v] = "bump" /\ pc'[v] = "open")),
           \A v \in Worker : req'[v] = req[v] \/ req[v] = None
    PROVE  FileInv'
<1>1. ASSUME NEW i \in Request
      PROVE  LocalPath(i)' = LocalPath(i) /\ (SharesLocalFile(i)' <=> SharesLocalFile(i))
  BY DEF LocalPath, SharesLocalFile
<1>2. ASSUME NEW v \in Worker, NEW i \in Request, req'[v] = i, pc'[v] \in HasFile
      PROVE  SharesLocalFile(i)' \/ OwnFile(v, i)'
  <2>1. pc[v] \in HasFile /\ req[v] = i
    BY <1>2 DEF HasFile
  <2>2. SharesLocalFile(i) \/ OwnFile(v, i)
    BY <2>1, FileFacts
  <2>3. LocalPath(i)' = LocalPath(i) /\ (SharesLocalFile(i)' <=> SharesLocalFile(i))
    BY <1>1
  <2>. QED  BY <1>2, <2>1, <2>2, <2>3 DEF OwnFile
<1>3. ASSUME NEW f \in disk'
      PROVE  \E j \in Request : stamp'[j] # -1 /\ LocalPath(j)' = f
  <2>1. PICK j \in Request : stamp[j] # -1 /\ LocalPath(j) = f
    BY <1>3 DEF IInv, FileInv
  <2>. QED  BY <1>1, <2>1
<1>4. \A i \in Request : (\A v \in Worker : req'[v] # i) => \A v \in Worker : req[v] # i
  BY SizeFacts
<1>5. DiskHoldsTheSuccesses'
  BY <1>1, <1>4 DEF IInv, FileInv, DiskHoldsTheSuccesses
<1>. QED  BY <1>2, <1>3, <1>5 DEF FileInv

(* Every step leaves the files of the workers and of finished requests     *)
(* where they belong.                                                      *)
LEMMA FileStep == IInv /\ [Next]_vars => FileInv'
<1>. SUFFICES ASSUME IInv, [Next]_vars PROVE FileInv'
  OBVIOUS
<1>1. TypeOK
  BY DEF IInv
<1>3. ASSUME NEW w \in Worker, NEW i, i = req[w], ReadCounter(w) PROVE FileInv'
  <2>1. /\ pc[w] = "stamp" /\ UNCHANGED <<result, req, disk>>
        /\ stamp' = [stamp EXCEPT ![i] = counter]
        /\ pc' = [pc EXCEPT ![w] = "bump"]
    BY <1>3 DEF ReadCounter, At, Goto
  <2>2. i \in Request /\ \A v \in Worker : v # w => req[v] # i
    BY <1>3, <2>1, HeldFacts DEF Working
  <2>3. stamp[i] = -1
    BY <1>3, <2>1 DEF IInv, StampInv
  <2>4. counter # -1 /\ \A j \in Request : stamp'[j] = IF j = i THEN counter ELSE stamp[j]
    BY <1>1, <2>1 DEF TypeOK
  <2>5. ASSUME NEW j \in Request, j # i PROVE LocalPath(j)' = LocalPath(j)
    BY <2>4, <2>5 DEF LocalPath
  <2>6. ASSUME NEW j \in Request, stamp[j] # -1, SharesLocalFile(j)
        PROVE  SharesLocalFile(j)'
    <3>1. PICK k \in Request \ {j} : stamp[k] # -1 /\ LocalPath(k) = LocalPath(j)
      BY <2>6 DEF SharesLocalFile
    <3>2. stamp'[k] = stamp[k] /\ LocalPath(k)' = LocalPath(k) /\ LocalPath(j)' = LocalPath(j)
      BY <2>3, <2>4, <2>5, <2>6, <3>1
    <3>3. stamp'[k] # -1 /\ LocalPath(k)' = LocalPath(j)'
      BY <3>1, <3>2
    <3>. QED  BY <3>3 DEF SharesLocalFile
  <2>7. ASSUME NEW f \in disk
        PROVE  \E j \in Request : j # i /\ stamp'[j] # -1 /\ LocalPath(j)' = f
    <3>1. PICK j \in Request : stamp[j] # -1 /\ LocalPath(j) = f
      BY DEF IInv, FileInv
    <3>2. j # i /\ stamp'[j] = stamp[j]
      BY <2>3, <2>4, <3>1
    <3>3. LocalPath(j)' = LocalPath(j)
      BY <2>5, <3>2
    <3>. QED  BY <3>1, <3>2, <3>3
  <2>8. ASSUME NEW v \in Worker, NEW j \in Request, req'[v] = j, pc'[v] \in HasFile
        PROVE  SharesLocalFile(j)' \/ OwnFile(v, j)'
    <3>1. CASE v = w
      <4>1. pc'[w] = "bump" /\ j = i
        BY <1>1, <1>3, <2>1, <2>8, <3>1 DEF TypeOK
      <4>2. CASE LocalPath(i)' \in disk
        <5>1. PICK k \in Request : k # i /\ stamp'[k] # -1 /\ LocalPath(k)' = LocalPath(i)'
          BY <2>7, <4>2
        <5>. QED  BY <4>1, <5>1 DEF SharesLocalFile
      <4>3. CASE LocalPath(i)' \notin disk
        BY <2>1, <3>1, <4>1, <4>3 DEF OwnFile
      <4>. QED  BY <4>2, <4>3
    <3>2. CASE v # w
      <4>1. pc'[v] = pc[v] /\ req[v] = j /\ j # i /\ pc[v] \in HasFile
        BY <1>1, <2>1, <2>2, <2>8, <3>2 DEF TypeOK
      <4>2. stamp[j] # -1 /\ (SharesLocalFile(j) \/ OwnFile(v, j))
        BY <4>1, FileFacts
      <4>3. LocalPath(j)' = LocalPath(j)
        BY <2>5, <4>1
      <4>4. CASE SharesLocalFile(j)
        BY <2>6, <4>2, <4>4
      <4>5. CASE OwnFile(v, j)
        BY <2>1, <4>1, <4>3, <4>5 DEF OwnFile
      <4>. QED  BY <4>2, <4>4, <4>5
    <3>. QED  BY <3>1, <3>2
  <2>9. ASSUME NEW j \in Request, result'[j] # None, \A v \in Worker : req'[v] # j,
               ~ SharesLocalFile(j)'
        PROVE  LocalPath(j)' \in disk' <=> result'[j] = [rc |-> 0, status |-> "OK"]
    <3>1. stamp[j] # -1 /\ j # i
      BY <1>3, <2>1, <2>9 DEF IInv, StampInv
    <3>2. ~ SharesLocalFile(j) /\ LocalPath(j)' = LocalPath(j)
      BY <2>5, <2>6, <2>9, <3>1
    <3>. QED  BY <2>1, <2>9, <3>2 DEF IInv, FileInv, DiskHoldsTheSuccesses
  <2>10. DiskHoldsTheSuccesses'
    BY <2>9 DEF DiskHoldsTheSuccesses
  <2>11. \A f \in disk' : \E j \in Request : stamp'[j] # -1 /\ LocalPath(j)' = f
    BY <2>1, <2>7
  <2>. QED  BY <2>8, <2>10, <2>11 DEF FileInv
<1>4. ASSUME NEW w \in Worker, NEW i, i = req[w], OpenFile(w) PROVE FileInv'
  <2>1. pc[w] = "open" /\ UNCHANGED <<req, stamp, result>>
    BY <1>4 DEF OpenFile, At
  <2>2. CASE UNCHANGED <<disk, pc>>
    BY <2>1, <2>2, StillFiles
  <2>3. CASE disk' = disk \union {LocalPath(i)} /\ Goto(w, "perform")
    <3>1. pc'[w] = "perform" /\ \A v \in Worker : v # w => pc'[v] = pc[v]
      BY <1>1, <2>3 DEF Goto, TypeOK
    <3>2. LocalPath(i)' = LocalPath(i)
      BY <2>1 DEF LocalPath
    <3>3. OwnFile(w, i)'
      BY <2>3, <3>1, <3>2 DEF OwnFile
    <3>. QED  BY <1>4, <2>1, <2>3, <3>1, <3>3, OtherFiles DEF HasFile
  <2>. QED  BY <1>4, <2>2, <2>3 DEF OpenFile
<1>5. ASSUME NEW w \in Worker, NEW i, i = req[w], Perform(w) PROVE FileInv'
  <2>1. pc[w] = "perform" /\ UNCHANGED <<req, stamp, disk>>
    BY <1>5 DEF Perform, At
  <2>2. PICK o \in Outcomes : /\ result' = [result EXCEPT ![i] = o]
                              /\ Goto(w, IF o.rc < 0 THEN "unlink" ELSE "status")
    BY <1>5 DEF Perform
  <2>3. o.rc \in {0, -1}
    BY OutcomeAssumption
  <2>4. i \in Request /\ (SharesLocalFile(i) \/ OwnFile(w, i))
    BY <1>5, <2>1, FileFacts DEF HasFile
  <2>5. result'[i] = o /\ \A j \in Request : j # i => result'[j] = result[j]
    BY <1>1, <2>2, <2>4 DEF TypeOK
  <2>6. /\ \A v \in Worker : v # w => pc'[v] = pc[v]
        /\ \/ pc'[w] = "unlink" /\ o.rc # 0
           \/ pc'[w] = "status" /\ o.rc = 0
    BY <1>1, <2>2, <2>3 DEF Goto, TypeOK
  <2>7. LocalPath(i)' = LocalPath(i)
    BY <2>1 DEF LocalPath
  <2>8. SharesLocalFile(i) \/ OwnFile(w, i)'
    BY <2>1, <2>4, <2>5, <2>6, <2>7 DEF OwnFile
  <2>. QED  BY <1>5, <2>1, <2>5, <2>6, <2>8, OtherFiles DEF HasFile
<1>6. ASSUME NEW w \in Worker, NEW i, i = req[w], UnlinkFailed(w) PROVE FileInv'
  <2>1. /\ pc[w] = "unlink" /\ UNCHANGED <<req, stamp, result>>
        /\ disk' = disk \ {LocalPath(i)}
    BY <1>6 DEF UnlinkFailed, At
  <2>2. pc'[w] = "status" /\ \A v \in Worker : v # w => pc'[v] = pc[v]
    BY <1>1, <1>6 DEF UnlinkFailed, Goto, TypeOK
  <2>3. SharesLocalFile(i) \/ OwnFile(w, i)
    BY <1>6, <2>1, FileFacts DEF HasFile
  <2>4. LocalPath(i)' = LocalPath(i)
    BY <2>1 DEF LocalPath
  <2>5. SharesLocalFile(i) \/ OwnFile(w, i)'
    BY <2>1, <2>2, <2>3, <2>4 DEF OwnFile
  <2>. QED  BY <1>6, <2>1, <2>2, <2>5, OtherFiles DEF HasFile
<1>7. ASSUME NEW w \in Worker, NEW i, i = req[w], Keep(w) \/ Discard(w) PROVE FileInv'
  <2>1. /\ pc[w] = "status" /\ UNCHANGED <<stamp, result>>
        /\ Goto(w, "lock") \/ Goto(w, "dead")
        /\ req' = [req EXCEPT ![w] = None]
        /\ \/ result[i].status = "OK" /\ disk' = disk
           \/ result[i].status # "OK" /\ disk' = disk \ {LocalPath(i)}
    BY <1>7 DEF Keep, Discard, At, fileVars
  <2>2. /\ pc'[w] \notin HasFile
        /\ \A v \in Worker : v # w => pc'[v] = pc[v] /\ req'[v] = req[v]
    BY <1>1, <2>1 DEF Goto, TypeOK, HasFile
  <2>3. i \in Request /\ (SharesLocalFile(i) \/ (LocalPath(i) \in disk <=> result[i].rc = 0))
    BY <1>7, <2>1, FileFacts DEF HasFile, OwnFile
  <2>4. result[i] \in [rc : {0, -1}, status : {"OK", "FILE_NOT_FOUND", "ERROR", "INVALID"}]
    <3>1. result[i] # None
      BY <1>7, <2>1 DEF IInv, HandsInv
    <3>. QED  BY <1>1, <2>3, <3>1, OutcomeAssumption DEF TypeOK
  <2>5. result[i] = [rc |-> 0, status |-> "OK"] <=> result[i].rc = 0 /\ result[i].status = "OK"
    BY <2>4
  <2>6. SharesLocalFile(i) \/ (LocalPath(i) \in disk' <=> result'[i] = [rc |-> 0, status |-> "OK"])
    BY <2>1, <2>3, <2>5
  <2>7. \A f : f # LocalPath(i) => (f \in disk' <=> f \in disk)
    BY <2>1
  <2>. QED  BY <1>7, <2>1, <2>2, <2>6, <2>7, OtherFiles DEF HasFile
<1>8. ASSUME NEW w \in Worker, TakeRequest(w) PROVE FileInv'
  <2>1. /\ UNCHANGED <<stamp, result, disk>>
        /\ req' = [req EXCEPT ![w] = Head(crequest_queue)]
        /\ pc' = [pc EXCEPT ![w] = "signal"]
        /\ pc[w] = "check"
    BY <1>8 DEF TakeRequest, At, Goto, fileVars
  <2>2. req[w] = None /\ None \notin Request
    BY <2>1, SizeFacts DEF IInv, HandsInv, Working
  <2>3. \A v \in Worker : pc'[v] \in HasFile => req'[v] = req[v] /\ pc'[v] = pc[v]
    BY <1>1, <2>1 DEF TypeOK, HasFile
  <2>4. \A v \in Worker : req'[v] = req[v] \/ req[v] = None
    BY <1>1, <2>1, <2>2 DEF TypeOK
  <2>. QED  BY <2>1, <2>3, <2>4, StillFiles
<1>9. ASSUME NEW w \in Worker,
             \/ Lock(w) \/ WaitForRequest(w) \/ EatPill(w) \/ TestPills(w)
             \/ SignalPills(w) \/ SignalTaken(w) \/ SpuriousWakeup(w) \/ CreateThread(w)
      PROVE  FileInv'
  <2>1. UNCHANGED <<stamp, result, disk, req>>
    BY <1>9 DEF Lock, WaitForRequest, EatPill, TestPills, SignalPills, SignalTaken,
                SpuriousWakeup, CreateThread, fileVars
  <2>2. \A v \in Worker : pc'[v] \in HasFile => pc'[v] = pc[v]
    BY <1>1, <1>9 DEF Lock, WaitForRequest, EatPill, TestPills, SignalPills, SignalTaken,
                SpuriousWakeup, CreateThread, Goto, TypeOK, HasFile
  <2>. QED  BY <2>1, <2>2, StillFiles
<1>10. ASSUME NEW w \in Worker, WriteCounter(w) PROVE FileInv'
  <2>1. UNCHANGED <<stamp, result, disk, req>> /\ pc[w] = "bump" /\ Goto(w, "open")
    BY <1>10 DEF WriteCounter, At
  <2>2. \A v \in Worker : pc'[v] = pc[v] \/ (pc[v] = "bump" /\ pc'[v] = "open")
    BY <1>1, <2>1 DEF Goto, TypeOK
  <2>. QED  BY <2>1, <2>2, StillFiles
<1>11. CASE (\E w \in Worker : BroadcastTaken(w)) \/ MainBroadcast
  <2>1. UNCHANGED <<stamp, result, disk, req>>
    BY <1>11 DEF BroadcastTaken, MainBroadcast, fileVars
  <2>2. \A v \in Worker : pc'[v] \in HasFile => pc'[v] = pc[v]
    BY <1>1, <1>11 DEF BroadcastTaken, MainBroadcast, Awake, TypeOK, HasFile
  <2>. QED  BY <2>1, <2>2, StillFiles
<1>12. CASE \/ Enqueue \/ CheckPills \/ MainLock \/ PathTooLong \/ MainSpuriousWakeup
            \/ JoinAndDestroy \/ Terminated \/ UNCHANGED vars
  <2>1. UNCHANGED <<stamp, result, disk, req, pc>>
    BY <1>12 DEF Enqueue, CheckPills, MainLock, PathTooLong, MainSpuriousWakeup,
                 JoinAndDestroy, Terminated, vars, fileVars
  <2>. QED  BY <2>1, StillFiles
<1>. QED
  BY <1>3, <1>4, <1>5, <1>6, <1>7, <1>8, <1>9, <1>10, <1>11, <1>12
  DEF Next, WorkerStep, MainStep

-----------------------------------------------------------------------------
(* The invariant is inductive.                                             *)
LEMMA Invariance == Spec => []IInv
<1>1. IInv /\ [Next]_vars => IInv'
  BY TypeStep, LockStep, WakeupStep, BossStep, HandsStep, OneWorkerStep, PillStep,
     MainStepInv, QueueStep, NothingLostStep, StampStep, FileStep DEF IInv
<1>. QED
  BY InitIInv, <1>1, PTL DEF Spec

(* Every variable of the client stays in its type.                         *)
THEOREM Typing == Spec => []TypeOK
<1>1. IInv => TypeOK
  BY DEF IInv
<1>. QED  BY <1>1, Invariance, PTL

(* c_lock is owned by the thread that is between a lock and the matching   *)
(* unlock or wait, and by no other: no two threads are in sections of      *)
(* request_work and main that touch the queue.                             *)
THEOREM MutualExclusion == Spec => []LockDiscipline
<1>1. IInv => LockDiscipline
  BY DEF IInv
<1>. QED  BY <1>1, Invariance, PTL

(* No worker misses the wakeup for an element of the queue, although main  *)
(* broadcasts only after it has given c_lock back.                         *)
THEOREM NoLostWorkerWakeup == Spec => []NoWorkerSleepsThroughWork
<1>1. IInv => NoWorkerSleepsThroughWork
  BY DEF IInv
<1>. QED  BY <1>1, Invariance, PTL

(* Main does not miss the signal for the last pill, although the worker    *)
(* that eats it compares num_eaten_pills after it has given c_lock back.   *)
THEOREM NoLostBossWakeup == Spec => []BossWillHearOfLastPill
<1>1. IInv => BossWillHearOfLastPill
  BY DEF IInv
<1>. QED  BY <1>1, Invariance, PTL

(* No request is performed by two workers.                                 *)
THEOREM ExclusiveRequests == Spec => []OneWorkerPerRequest
<1>1. IInv => OneWorkerPerRequest
  BY DEF IInv
<1>. QED  BY <1>1, Invariance, PTL

(* When main goes on to join the workers, every request of the workload    *)
(* has been performed: all pills are eaten, so no worker holds a request,  *)
(* and the pill is alone in the queue, so none is left there.              *)
THEOREM Completion == Spec => []AllPerformedBeforeJoin
<1>1. IInv => AllPerformedBeforeJoin
  <2>. SUFFICES ASSUME IInv, mpc \in {"join", "done"}
                PROVE  /\ \A i \in Request : result[i] # None
                       /\ \A w \in Worker : req[w] = None
    BY DEF AllPerformedBeforeJoin
  <2>1. TypeOK /\ HandsInv /\ MainInv /\ QueueInv /\ NothingLost
    BY DEF IInv
  <2>2. \A w \in Worker : req[w] = None
    BY <2>1, AllEaten DEF Eaters, HandsInv, Working
  <2>3. sent = N + 1 /\ Eaters # {}
    BY <2>1, AllEaten, WorkerAssumption DEF MainInv
  <2>4. Len(crequest_queue) \in Nat /\ Len(crequest_queue) <= 1
    BY <2>1, <2>3 DEF QueueInv, TypeOK
  <2>5. \A i \in Request : \A k \in 1 .. Len(crequest_queue) : crequest_queue[k] # i
    <3>1. CASE mpc = "done"
      BY <2>1, <2>4, <3>1 DEF QueueInv
    <3>2. CASE mpc # "done"
      BY <2>1, <2>3, <2>4, <3>2, SizeFacts DEF QueueInv
    <3>. QED  BY <3>1, <3>2
  <2>6. \A i \in Request : i <= sent /\ i # None
    BY <2>3, SizeFacts DEF Request
  <2>. QED
    BY <2>1, <2>2, <2>5, <2>6 DEF NothingLost
<1>. QED  BY <1>1, Invariance, PTL

(* A finished download is on disk exactly when it succeeded, unless        *)
(* another request for the same path was given the same number.            *)
THEOREM LocalFiles == Spec => []DiskHoldsTheSuccesses
<1>1. IInv => DiskHoldsTheSuccesses
  BY DEF IInv, FileInv
<1>. QED  BY <1>1, Invariance, PTL

-----------------------------------------------------------------------------
(* The pool that the client implements.                                    *)

Done == {i \in Request : result[i] # None /\ \A w \in Worker : req[w] # i}

(* The pending requests are those of the queue in front of the pill.       *)
Ahead(q, n) == IF n = N + 1 /\ q # << >> THEN Len(q) - 1 ELSE Len(q)
Front(q, n) == IF n = N + 1 /\ q # << >> THEN SubSeq(q, 1, Len(q) - 1) ELSE q

LEMMA FrontFacts ==
    ASSUME NEW q \in Seq(1 .. N + 1), NEW n
    PROVE  /\ Ahead(q, n) \in Nat /\ Ahead(q, n) <= Len(q)
           /\ Front(q, n) \in Seq(1 .. N + 1) /\ Len(Front(q, n)) = Ahead(q, n)
           /\ \A k \in 1 .. Ahead(q, n) : Front(q, n)[k] = q[k]
<1>1. Len(q) \in Nat
  OBVIOUS
<1>2. CASE n = N + 1 /\ q # << >>
  <2>1. Len(q) - 1 \in Nat
    BY <1>1, <1>2, EmptySeq
  <2>2. \A k \in 1 .. Len(q) - 1 : q[k] \in 1 .. N + 1
    <3>1. ASSUME NEW k \in 1 .. Len(q) - 1 PROVE k \in 1 .. Len(q)
      BY <1>1
    <3>. QED  BY <3>1, ElementOfSeq
  <2>3. Front(q, n) = SubSeq(q, 1, Len(q) - 1) /\ Ahead(q, n) = Len(q) - 1
    BY <1>2 DEF Front, Ahead
  <2>4. /\ SubSeq(q, 1, Len(q) - 1) \in Seq(1 .. N + 1)
        /\ Len(SubSeq(q, 1, Len(q) - 1)) = Len(q) - 1
        /\ \A k \in 1 .. (Len(q) - 1) - 1 + 1 : SubSeq(q, 1, Len(q) - 1)[k] = q[1 + k - 1]
    <3>1. 1 \in Int /\ Len(q) - 1 \in Int
      BY <2>1
    <3>2. Len(SubSeq(q, 1, Len(q) - 1)) =
              IF 1 <= Len(q) - 1 THEN (Len(q) - 1) - 1 + 1 ELSE 0
      BY ONLY <3>1, <2>2, SubSeqProperties
    <3>3. /\ SubSeq(q, 1, Len(q) - 1) \in Seq(1 .. N + 1)
          /\ \A k \in 1 .. (Len(q) - 1) - 1 + 1 :
                SubSeq(q, 1, Len(q) - 1)[k] = q[1 + k - 1]
      BY ONLY <3>1, <2>2, SubSeqProperties
    <3>4. Len(SubSeq(q, 1, Len(q) - 1)) = Len(q) - 1
      <4>. DEFINE m == Len(q) - 1
                  l == Len(SubSeq(q, 1, m))
      <4>1. m \in Nat /\ l = IF 1 <= m THEN m - 1 + 1 ELSE 0
        BY <2>1, <3>2, Zenon
      <4>. HIDE DEF m, l
      <4>2. l = m
        BY <4>1
      <4>. QED  BY <4>2, Zenon DEF l, m
    <3>. QED  BY <3>3, <3>4, Zenon
  <2>5. \A k \in 1 .. Len(q) - 1 : k \in 1 .. (Len(q) - 1) - 1 + 1 /\ 1 + k - 1 = k
    BY <2>1
  <2>. QED  BY <1>1, <2>1, <2>3, <2>4, <2>5
<1>3. CASE ~ (n = N + 1 /\ q # << >>)
  <2>1. Front(q, n) = q /\ Ahead(q, n) = Len(q)
    BY <1>3 DEF Front, Ahead
  <2>. QED  BY <1>1, <2>1
<1>. QED  BY <1>2, <1>3

LEMMA PendingIsFront == Pending = Front(crequest_queue, sent)
BY DEF Pending, Front

(* Once every worker has eaten a pill, nothing is left to be done.         *)
LEMMA NothingLeft ==
    ASSUME IInv, Eaters = Worker
    PROVE  /\ Pending = << >> /\ Done = Request /\ Pool!InHand = {}
           /\ \A w \in Worker : req[w] = None
<1>1. /\ TypeOK /\ QueueInv /\ N \in Nat
      /\ sent = N + 1 /\ Len(crequest_queue) <= 1
  BY WorkerAssumption, SizeFacts DEF IInv, QueueInv
<1>2. \A w \in Worker : req[w] = None
  BY DEF IInv, HandsInv, Eaters, Working
<1>3. Pending = << >>
  <2>. DEFINE q == crequest_queue
  <2>1. q \in Seq(1 .. N + 1) /\ Len(q) \in Nat
    BY <1>1 DEF TypeOK
  <2>2. Ahead(q, sent) <= 0
    BY <1>1, <2>1, EmptySeq DEF Ahead
  <2>3. Front(q, sent) \in Seq(1 .. N + 1) /\ Len(Front(q, sent)) = 0
    BY <2>1, <2>2, FrontFacts
  <2>. QED  BY <2>3, PendingIsFront, EmptySeq
<1>4. ASSUME NEW i \in Request PROVE result[i] # None
  <2>1. i <= sent /\ i # N + 1
    BY <1>1 DEF Request
  <2>2. ~ \E k \in 1 .. Len(crequest_queue) : crequest_queue[k] = i
    <3>. SUFFICES ASSUME NEW k \in 1 .. Len(crequest_queue), crequest_queue[k] = i
                  PROVE  FALSE
      OBVIOUS
    <3>0. Len(crequest_queue) \in Nat
      BY <1>1 DEF TypeOK
    <3>1. k = 1 /\ Len(crequest_queue) = 1
      <4>. DEFINE n == Len(crequest_queue)
      <4>1. n \in Nat /\ n <= 1 /\ k \in 1 .. n
        BY <1>1, <3>0
      <4>. HIDE DEF n
      <4>2. k = 1 /\ n = 1
        BY <4>1
      <4>. QED  BY <4>2 DEF n
    <3>2. mpc # "done"
      BY <1>1, <3>1 DEF QueueInv
    <3>3. crequest_queue[1] = N + 1
      BY <1>1, <3>1, <3>2 DEF QueueInv
    <3>. QED  BY <2>1, <3>1, <3>3
  <2>. QED  BY <1>2, <2>1, <2>2, SizeFacts DEF IInv, NothingLost
<1>5. Done = Request
  BY <1>2, <1>4, SizeFacts DEF Done
<1>. QED  BY <1>2, <1>3, <1>5 DEF Pool!InHand

(* Enqueueing a request submits it; enqueueing the pill submits nothing.   *)
LEMMA EnqueueRefines ==
    ASSUME IInv, Enqueue
    PROVE  \/ \E t \in Request : Pool!Submit(t)
           \/ UNCHANGED Pool!vars
<1>1. /\ TypeOK /\ QueueInv /\ N \in Nat /\ sent \in Nat /\ sent <= N
      /\ mpc = "put" /\ mpc' = "broadcast"
      /\ crequest_queue' = Append(crequest_queue, sent + 1) /\ sent' = sent + 1
      /\ UNCHANGED <<req, result>>
  BY SizeFacts DEF Enqueue, MainAt, IInv, MainInv, TypeOK, fileVars
<1>2. Pending = crequest_queue
  BY <1>1 DEF Pending
<1>3. Done' = Done
  BY <1>1 DEF Done
<1>4. crequest_queue \in Seq(1 .. N + 1) /\ sent + 1 \in 1 .. N + 1
  BY <1>1 DEF TypeOK
<1>5. CASE sent = N
  <2>1. /\ Len(crequest_queue) \in Nat
        /\ Len(crequest_queue') = Len(crequest_queue) + 1
        /\ crequest_queue' \in Seq(1 .. N + 1)
        /\ \A k \in 1 .. Len(crequest_queue) : crequest_queue'[k] = crequest_queue[k]
    BY <1>1, <1>4, AppendProperties
  <2>2. crequest_queue' # << >>
    BY <2>1, EmptySeq
  <2>3. Pending' = SubSeq(crequest_queue', 1, Len(crequest_queue))
    BY <1>1, <1>5, <2>1, <2>2 DEF Pending
  <2>4. SubSeq(crequest_queue', 1, Len(crequest_queue)) = crequest_queue
    <3>1. \A k \in 1 .. Len(crequest_queue) : crequest_queue'[k] \in 1 .. N + 1
      BY <2>1, <1>4, ElementOfSeq
    <3>. QED  BY <1>4, <2>1, <3>1, SubSeqProperties, SeqEqual
  <2>. QED  BY <1>1, <1>2, <1>3, <2>3, <2>4 DEF Pool!vars, Done
<1>6. CASE sent < N
  <2>1. Pending' = Append(Pending, sent + 1)
    BY <1>1, <1>2, <1>6 DEF Pending
  <2>2. sent + 1 \in Request
    BY <1>1, <1>6 DEF Request
  <2>3. sent + 1 \notin Pool!Waiting
    <3>1. DOMAIN Pending = 1 .. Len(crequest_queue)
      BY <1>2, <1>4
    <3>2. \A k \in DOMAIN Pending : Pending[k] # sent + 1
      BY <1>1, <1>2, <3>1, <1>4, ElementOfSeq DEF QueueInv
    <3>. QED  BY <3>2 DEF Pool!Waiting
  <2>4. sent + 1 \notin Pool!InHand
    BY <1>1, SizeFacts DEF IInv, HandsBelowSent, Pool!InHand
  <2>5. sent + 1 \notin Done
    BY <1>1, <2>2 DEF IInv, StampInv, Done
  <2>6. Pool!Submit(sent + 1)
    BY <1>1, <1>3, <2>1, <2>3, <2>4, <2>5 DEF Pool!Submit, Done
  <2>. QED  BY <2>2, <2>6
<1>. QED  BY <1>1, <1>5, <1>6

(* Popping the head of the queue takes the first of the pending requests.  *)
LEMMA TakeRefines ==
    ASSUME IInv, NEW w \in Worker, TakeRequest(w)
    PROVE  Pool!Take(w)
<1>1. /\ TypeOK /\ QueueInv /\ N \in Nat /\ pc[w] = "check"
      /\ req' = [req EXCEPT ![w] = Head(crequest_queue)]
      /\ UNCHANGED <<result, mpc, sent>>
  BY SizeFacts DEF IInv, TakeRequest, At, fileVars
<1>2. /\ crequest_queue[1] \in Request
      /\ Len(crequest_queue) \in Nat /\ Len(crequest_queue) > 0
      /\ sent = N + 1 => Len(crequest_queue) > 1
      /\ Len(crequest_queue') = Len(crequest_queue) - 1
      /\ \A k \in 1 .. Len(crequest_queue) - 1 : crequest_queue'[k] = crequest_queue[k + 1]
  BY TakeRequestFacts
<1>3. Head(crequest_queue) = crequest_queue[1]
  BY <1>1, QueueFacts DEF TakeRequest
<1>4. req[w] = None
  BY <1>1 DEF IInv, HandsInv, Working
<1>. DEFINE a  == Ahead(crequest_queue, sent)
            a1 == Ahead(crequest_queue', sent')
<1>5. /\ a \in Nat /\ Pending \in Seq(1 .. N + 1) /\ Len(Pending) = a
      /\ a <= Len(crequest_queue) /\ \A k \in 1 .. a : Pending[k] = crequest_queue[k]
  BY <1>1, FrontFacts, PendingIsFront DEF TypeOK
<1>6. crequest_queue # << >> /\ a > 0
  BY <1>2, <1>1, EmptySeq DEF Ahead
<1>7. Pending # << >> /\ Head(Pending) = crequest_queue[1]
  BY <1>5, <1>6, EmptySeq
<1>8. crequest_queue' \in Seq(1 .. N + 1)
  BY <1>1, <1>6, QueueFacts DEF TakeRequest
<1>9. /\ Pending' \in Seq(1 .. N + 1) /\ Len(Pending') = a1
      /\ \A k \in 1 .. a1 : Pending'[k] = crequest_queue'[k]
  <2>1. Pending' = Front(crequest_queue', sent')
    BY DEF Pending, Front
  <2>. QED  BY <1>8, <2>1, FrontFacts
<1>10. a1 = a - 1
  <2>1. Len(crequest_queue') > 0 => crequest_queue' # << >>
    BY EmptySeq
  <2>. QED  BY <1>1, <1>2, <1>6, <1>8, <2>1, EmptySeq DEF Ahead
<1>. HIDE DEF a, a1
<1>11. Pending' = Tail(Pending)
  <2>1. /\ Tail(Pending) \in Seq(1 .. N + 1) /\ Len(Tail(Pending)) = a - 1
        /\ \A k \in 1 .. a - 1 : Tail(Pending)[k] = Pending[k + 1]
    BY <1>5, <1>7, HeadTailProperties
  <2>2. \A k \in 1 .. a - 1 : Pending'[k] = Tail(Pending)[k]
    <3>. SUFFICES ASSUME NEW k \in 1 .. a - 1 PROVE Pending'[k] = Tail(Pending)[k]
      OBVIOUS
    <3>1. k \in 1 .. a1 /\ k \in 1 .. Len(crequest_queue) - 1 /\ k + 1 \in 1 .. a
      BY <1>2, <1>5, <1>10
    <3>. QED  BY <1>2, <1>5, <1>9, <2>1, <3>1
  <2>. QED  BY <1>9, <1>10, <2>1, <2>2, SeqEqual
<1>12. result[crequest_queue[1]] = None
  BY <1>2 DEF IInv, StampInv
<1>13. Done' = Done
  BY <1>1, <1>3, <1>4, <1>12, SizeFacts DEF Done, TypeOK
<1>. QED
  BY <1>1, <1>3, <1>4, <1>7, <1>11, <1>13 DEF Pool!Take, Done

(* Every step of the client is a step of the pool, or none.                *)
LEMMA PoolStep == IInv /\ [Next]_vars => [Pool!Next]_(Pool!vars)
<1>. SUFFICES ASSUME IInv, [Next]_vars PROVE [Pool!Next]_(Pool!vars)
  OBVIOUS
<1>. USE DEF At, MainAt, Goto, queueVars, fileVars
<1>1. TypeOK
  BY DEF IInv
<1>2. ASSUME UNCHANGED <<crequest_queue, sent, req>>, Done' = Done,
             (mpc \in {"join", "done"})' = (mpc \in {"join", "done"})
      PROVE  UNCHANGED Pool!vars
  BY <1>2 DEF Pool!vars, Pending, Done
<1>3. ASSUME UNCHANGED <<crequest_queue, sent, req, result>>,
             (mpc \in {"join", "done"})' = (mpc \in {"join", "done"})
      PROVE  UNCHANGED Pool!vars
  <2>1. Done' = Done
    BY <1>3 DEF Done
  <2>. QED  BY <1>2, <1>3, <2>1
<1>4. CASE Enqueue
  BY <1>4, EnqueueRefines DEF Pool!Next
<1>5. ASSUME NEW w \in Worker, TakeRequest(w) PROVE Pool!Next
  BY <1>5, TakeRefines DEF Pool!Next
<1>6. ASSUME NEW w \in Worker, Perform(w) PROVE UNCHANGED Pool!vars
  <2>1. /\ pc[w] = "perform" /\ UNCHANGED <<crequest_queue, sent, req, mpc>>
        /\ \E o \in Outcomes : result' = [result EXCEPT ![req[w]] = o]
    BY <1>6 DEF Perform
  <2>2. \A i \in Request : i # req[w] => result'[i] = result[i]
    BY <1>1, <2>1 DEF TypeOK
  <2>3. Done' = Done
    BY <2>1, <2>2 DEF Done
  <2>. QED  BY <1>2, <2>1, <2>3
<1>7. ASSUME NEW w \in Worker, Keep(w) \/ Discard(w) PROVE Pool!Next
  <2>1. /\ pc[w] = "status" /\ UNCHANGED <<crequest_queue, sent, result, mpc>>
        /\ req' = [req EXCEPT ![w] = None]
    BY <1>7 DEF Keep, Discard
  <2>2. req[w] \in Request /\ \A v \in Worker : v # w => req[v] # req[w]
    BY <2>1, HeldFacts DEF Working
  <2>3. req[w] # None /\ result[req[w]] # None
    BY <2>1, <2>2, SizeFacts DEF IInv, HandsInv
  <2>4. \A v \in Worker : req'[v] = IF v = w THEN None ELSE req[v]
    BY <1>1, <2>1 DEF TypeOK
  <2>5. Done' = Done \union {req[w]}
    BY <2>1, <2>2, <2>3, <2>4, SizeFacts DEF Done
  <2>6. Pool!Finish(w)
    BY <2>1, <2>3, <2>5 DEF Pool!Finish, Pending, Done
  <2>. QED  BY <2>6 DEF Pool!Next
<1>8. CASE CheckPills
  <2>1. mpc = "bosscheck" /\ UNCHANGED <<crequest_queue, sent, req, result>>
    BY <1>8 DEF CheckPills
  <2>2. CASE num_eaten_pills < nthreads
    BY <1>3, <1>8, <2>1, <2>2 DEF CheckPills
  <2>3. CASE ~ num_eaten_pills < nthreads
    <3>1. mpc' = "join"
      BY <1>8, <2>3 DEF CheckPills
    <3>2. Eaters = Worker
      BY <1>1, <2>3, EatersFacts, SizeFacts DEF IInv, PillInv
    <3>3. Pending = << >> /\ Done = Request /\ Pool!InHand = {}
      BY <3>2, NothingLeft
    <3>4. Pool!Close
      BY <2>1, <3>1, <3>3 DEF Pool!Close, Pending, Done
    <3>. QED  BY <3>4 DEF Pool!Next
  <2>. QED  BY <2>2, <2>3
<1>9. CASE JoinAndDestroy
  <2>1. /\ mpc = "join" /\ mpc' = "done" /\ UNCHANGED <<sent, req, result>>
        /\ crequest_queue' = << >>
    BY <1>9 DEF JoinAndDestroy
  <2>2. Pending = << >>
    BY <2>1, AllEaten, NothingLeft
  <2>3. Pending' = << >>
    BY <2>1 DEF Pending
  <2>4. Done' = Done
    BY <2>1 DEF Done
  <2>. QED  BY <2>1, <2>2, <2>3, <2>4 DEF Pool!vars, Done
<1>10. ASSUME NEW w \in Worker,
              \/ Lock(w) \/ WaitForRequest(w) \/ EatPill(w) \/ TestPills(w)
              \/ SignalPills(w) \/ SignalTaken(w) \/ BroadcastTaken(w) \/ ReadCounter(w)
              \/ WriteCounter(w) \/ OpenFile(w) \/ UnlinkFailed(w) \/ SpuriousWakeup(w)
              \/ CreateThread(w)
       PROVE  UNCHANGED Pool!vars
  <2>1. UNCHANGED <<crequest_queue, sent, req, result>>
    BY <1>10 DEF Lock, WaitForRequest, EatPill, TestPills, SignalPills, SignalTaken,
                 BroadcastTaken, ReadCounter, WriteCounter, OpenFile, UnlinkFailed,
                 SpuriousWakeup, CreateThread
  <2>2. (mpc \in {"join", "done"})' = (mpc \in {"join", "done"})
    BY <1>10 DEF Lock, WaitForRequest, EatPill, TestPills, SignalPills, SignalTaken,
                 BroadcastTaken, ReadCounter, WriteCounter, OpenFile, UnlinkFailed,
                 SpuriousWakeup, CreateThread, WakeBoss
  <2>. QED  BY <1>3, <2>1, <2>2
<1>11. CASE \/ MainBroadcast \/ MainLock \/ PathTooLong \/ MainSpuriousWakeup
            \/ Terminated \/ UNCHANGED vars
  BY <1>3, <1>11 DEF MainBroadcast, MainLock, PathTooLong, MainSpuriousWakeup, Terminated,
                     vars
<1>. QED
  BY <1>4, <1>5, <1>6, <1>7, <1>8, <1>9, <1>10, <1>11 DEF Next, WorkerStep, MainStep

(* The client is a boss/worker pool that closes when the workload is done: *)
(* requests are taken in the order in which main enqueues them, each is    *)
(* performed by one worker and finished once, and main stops waiting for   *)
(* pills only when none is queued or in a worker's hands.                  *)
THEOREM Refinement == Spec => PoolSpec
<1>1. Init => Pool!Init
  BY SizeFacts DEF Init, Pool!Init, Pending
<1>. QED
  BY <1>1, PoolStep, Invariance, PTL DEF Spec, PoolSpec, Pool!Spec
=============================================================================
