# A TLA+ model of the GETFILE protocol programs

This directory is a verification project for the C programs of this repository:
a small file transfer protocol (GETFILE), its client and server libraries, and
multithreaded programs on top of them. It has TLA+ modules translated from the
source, TLC configurations that check them on small instances, and theorems
about all of them that TLAPS checks for every size of instance: each invariant
and each refinement that a passing run checks is also proved.

`tlc -config X.cfg M` checks a module, `tlapm M_proof.tla` checks a proof.
`PROJECT.json` lists runs, properties, the source lines of every definition, the
mutants that show each property can fail, the disagreements found, and the
hazards the properties are for.

## The system

| part | code | state it keeps | operations |
|---|---|---|---|
| multithreaded download client | `mtgf/gfclient_download.c` | `crequest_queue`, `num_eaten_pills`, mutex `c_lock`, conditions `c_worker`, `c_boss`, the static `counter` of `localPath`, local files | `request_work` (pool of threads), `main` (boss), `localPath`, `openFile` |
| multithreaded file server | `mtgf/gfserver_main.c`, `mtgf/handler.c` | `request_queue`, mutex `lock`, condition `worker`, one `gfcontext_t` per request | `gfs_handler` (boss), `work` (pool), `main`, `_sig_handler` |
| steque | `mtgf/steque.c` | a linked list with `front`, `back`, `N` | enqueue, push, pop, front, cycle, isempty, destroy |
| content library | `mtgf/content.c`, `gflib/content.c` | `items`, `nitems` and the capacity of the array | `content_init`, `content_get`, `content_destroy` |
| workload | `*/workload.c` | the paths, an atomic counter | `workload_init`, `workload_get_path` |
| Getfile client library | `gflib/gfclient.c` | `gfcrequest_t`: counters, status, callbacks | `gfc_create`, `gfc_perform`, setters and getters |
| Getfile server library | `gflib/gfserver.c` | `gfserver_t`, one `gfcontext_t`, buffers and `total_received` local to `gfserver_serve` | `gfserver_serve`, `gfs_sendheader`, `gfs_send`, `gfs_abort` |
| transfer programs | `transfer_test/` | the server's open files and position; the client's file | accept and `send_file`; connect and `write_file` |
| echo programs | `echo_both_v4_v6/` | the server's one buffer; the client's buffer | one `recv` and one `send` on each side |
| sequential download client | `gflib/gfclient_download.c` | the counter of `localPath`, local files, descriptors | a loop of `gfc_perform`, `fclose`, `unlink` |
| sequential file server | `gflib/gfserver_main.c` | none of its own | `content_init`, then `gfserver_serve` |

How they interact. In the multithreaded programs a boss and a pool of workers
share one steque under one mutex; workers sleep on a condition variable, and the
boss *broadcasts after the unlock*. The client ends by a poison pill that is left
in the queue for every worker; each eaten pill is counted, and the last eater
signals the boss, who then joins the workers. The server's boss is the library's
accept loop: it calls `gfs_handler` with a pointer to a context, and the handler
sets that pointer to NULL to show that it has taken the context over. Client and
server exchange one request header and one response (header and body) per
connection; `send` and `recv` may transfer any part of what is asked; the end of
the connection is part of the protocol. `content_get` is called by all workers at
once on an array that no longer changes.

What is hard: wakeups around the unlock; the count of pills read outside the
mutex; who owns a context; partial sends and receives; state carried over from one
connection to the next; the early end of a connection at every byte; binary search
and growing arrays at their boundaries; and a pool that must come to an end, or
must never.

What makes each part correct:

* the pools: no lost wakeup, no deadlock, every task done once and in order, and
  the client ends when (and only when) all is done;
* local files: a file is on disk exactly when its download succeeded;
* the server's contexts: one owner, freed once, and a client is never left waiting
  on a connection nobody serves, but for reasons one can name;
* the libraries: the return value, the counts and the bytes handed on are those of
  the response; each well-formed request reaches the handler with its whole path;
* steque: it behaves as a sequence; content: every lookup finds what the list has;
* transfer: what arrives is the file from its beginning, and an end of the
  connection that the server made means all of it; clients are served in turn;
* the sequential client and server together: the result of each request is right,
  or an error that can be explained, and neither waits for ever without a reason;
* echo: what comes back is the client's own message, and nobody else's bytes.

## Modules

Each module names the code at its actions; `PROJECT.json` "map" gives the lines.

* **`BossWorker`**: the abstract pool. Tasks are submitted in some order, free
  workers take them in that order, each is in one hand and finished once; a pool
  may close only when all tasks are finished. `MTClient` and `MTServer` are
  checked to implement it (`PoolSpec`).
* **`MTClient`**: `request_work` and `main` of the client. A program counter per
  thread; one action per stretch of code between two points where another thread
  can interfere: acquiring `c_lock`, a critical section up to its unlock or wait,
  each signal or broadcast, the *read* and the *write* of `counter++`, `fopen`,
  `gfc_perform`, each `unlink`, thread creation, join. `c_worker` and `c_boss` are
  the sets of threads at a wait label; wakeups may be spurious. The workload is an
  array of paths used in turn (`workload_get_path`), and `gfc_perform` of the
  prebuilt `gfclient.o` may leave any pair of return code and status in `Outcomes`.
* **`MTServer`**: `work`, `gfs_handler`, `main` and the signal handler, with the
  prebuilt `mtgf/gfserver.o` modelled as the code uses it: accept, a request parser
  that calls the handler or refuses, `gfs_sendheader` and `gfs_send` with short
  writes, errors and SIGPIPE. `freed` records freed contexts, `delivered` the
  file positions sent on each connection. `Write` is what a `write` can do: fail or
  succeed, with the client there or gone, or not return when the client has stopped
  reading (`PeerStalls`) and the buffers between the two are full. Connections are
  numbers in the order in which they are accepted, so that runs do not repeat each
  other with names exchanged. `Exit` is the end of the process, by a signal, a broken
  pipe or a thread that cannot be created.
* **`Steque`**, refining **`Deque`**: nodes and pointers, every call, underflow.
* **`Content`**: loading (grow, read a line, open its file), sorting, and the loop
  of `content_get`, one action per turn, with several callers at a time.
* **`GfClient`**: one `gfc_perform`: connect, send the header in pieces, receive the
  response header, `parseHeader`, `storeStatus`, the body loop, every early return.
  Bytes are counted; body bytes are numbered, so that a wrong, missing or repeated
  one shows, and a response says how many bytes of white space its body begins with
  and where its first zero byte is, since `sscanf` and `strcat` depend on both.
  A body may be shorter or longer than announced. `Form` has the headers the code
  takes for what they are and the ones it merely accepts: a status that only begins
  with OK or ERROR (`strncmp`), an OK without a length or of another layout (`sscanf`
  has matched fewer items), and one that does not begin with GETFILE, whose status is
  memory nobody has written. For the last two, `%n` leaves `file_pointer` unset, the
  length and the printed header (`Printed`) may be anything, so that the count of the
  body may even be negative, and reading the bytes may end the process (`ParseCrashes`).
  `HeaderOverrun` is the terminator written behind a full buffer, and a header longer
  than its array. `Progress` holds the steps that succeed, `Failure` those in which a
  call fails (also by SIGPIPE, `SendKills`), `Crash` those in which memory is overrun.
* **`Download`** extends `GfClient` to the program around it: `workload_init`, the
  loop of requests, the local file of each with its size, and the sockets
  `gfc_perform` leaves open, which use up the process's descriptors. The server is
  any that sends one response of `Response` per connection, or breaks it off.
* **`Session`** composes `Download` with `GfServer` (an instance): the server of the
  sequential client is the sequential server. A request of one is what the other
  receives, `Send` is what the handler's `gfs_sendheader` and `gfs_send` put on the
  wire, a connection waits in the backlog until it is accepted, and one that the
  client has left keeps what it had sent. The server closes a connection only where
  the code does, in `gfs_abort` (`closed`): `gfserver_serve` itself goes on to the next
  `accept` and closes nothing, so that a client ends only on a connection the handler
  or a refusal has closed, or when the server's process is gone. The array of the path
  may have been overwritten when the handler reads it (`FrameKept` is either value, and
  `overwritten` records where); the handler then answers for any file, or for none.
  `faulty` chooses between behaviours in
  which calls may fail and those in which none does. `ComponentSpecs` is the
  refinement: the composition implements `Download` with an arbitrary server and
  `GfServer` with arbitrary clients, so what is shown of those two holds here.
* **`GfServer`**: `gfserver_serve` with its header loop and `parseRequestHeader`:
  requests of every form and length arrive in pieces, calls may fail, and the
  context, `total_received` and the array that holds the path live on from one
  connection to the next as they do in the code. What the array holds when `sscanf`
  has not got to a path is what it held before, or garbage, which may begin with a
  slash. A path longer than the array is written beyond it, with or without harm
  (`Overrun`, `ParseCrashes`); an answer to a client that is gone raises SIGPIPE
  (`SendKills`).
* **`Transfer`**: server and clients of `transfer_test`. `fopen`, `fread`, `send` and the
  client's `recv` may fail at any time, for any cause (`Fault`); the model calls a
  client whose `recv` has failed *cut*, which the program does not tell from *done*.
* **`Echo`**: the echo server with its one buffer, and its clients. A byte is the
  i-th of a client's message, zero, or *junk*, which is memory nobody has written.
  `short` records the clients for which some call has failed, or has transferred less
  than it was given or had room for; a message longer than the buffer is not short
  for that.
* **`MC*`** modules and `.cfg` files: the instances. Definitions named in comments
  as *mutants* are plausible mistakes in the action above or below them; no
  specification uses them.
* **`MTClient_proof`**, **`MTServer_proof`**, **`Steque_proof`**, **`Content_proof`**,
  **`GfServer_proof`**, **`Transfer_proof`**, **`Echo_proof`**: theorems about the module
  of that name. **`Session_proof`** has those about `GfClient`, `Download` and `Session`,
  one on top of the other.

## Runs

| run | what it shows | bounds |
|---|---|---|
| `mt_client` | The client's locks, wakeups, pill, files and its refinement of `BossWorker`; it ends unless a worker is lost. | 2 workers, 3 requests, two of them for one path, 4 outcomes of `gfc_perform` |
| `mt_client_lost_worker` | *Violation:* the client need not end. | 2 workers, 2 paths |
| `mt_server` | Queue, contexts, streams, refinement of `BossWorker`, and every task is finished unless a client stops reading. | 2 workers; 3 connections: for no file, an empty one and one of a buffer, which short reads cut in two; 339 thousand states |
| `steque` | The list is well formed and is a sequence. | 3 nodes, 2 items, any number of calls |
| `content` | Loading and searching. | all lists of up to 4 lines over 3 keys, capacity 2, 2 threads |
| `download` | What `gfc_perform` returns, counts and hands on; which files are on disk; which sockets are left open; that the client ends. | 3 requests, 5 workloads (also an empty one, a path that is too long and one that cannot be created), bodies of 6 bytes complete, cut and longer than announced, one with white space and a zero byte, every refusal, each kind of malformed header that is accepted, no header; header of 3, a buffer of 8, every segmentation; 3 descriptors; 966 thousand states |
| `download_body` | *Violation:* body bytes that come with the header are damaged. | one request, one body of 6 bytes |
| `gf_server` | Who is refused, what path the handler gets, buffer size, progress. | 3 connections, limit 14 (which is also the size of the path array), requests of 6 and 30 bytes or cut |
| `gf_server_after_invalid` | *Violation:* the server crashes after it has refused a request. | 2 connections |
| `transfer` | What arrives, who has all of it when the server ends, and that clients are served in turn. | 3 clients, file of exactly 2 buffers, 2 descriptors, every call may fail |
| `session` | The results of requests from end to end; each side behaves as specified for itself; the client ends unless one side waits on a socket the other has left open. | 3 requests, of which the second reaches the server's limit; a file of 2 bytes, an empty one, and a path that is not there; a connection that holds 3 bytes; 941 thousand states |
| `echo` | Whose bytes come back, what is printed, which client may wait for ever. | 2 clients, a buffer of 2, messages of 0 to 3 bytes |

Why the bounds are enough. Two workers are the least that can race for a request, for
the counter and for the last pill, and three requests the least with one waiting while
both workers are busy; so it is with the three connections of `mt_server`, where a
client stops reading and keeps one worker or both. A steque of three nodes has a
first, a last and an inner node; one node is the special case of pop and cycle. Four
lines make an array of two grow twice, and three keys leave room for absent and
repeated ones. A body of six bytes is longer than the four that are skipped, and may
need more than one `recv`. In `GfServer` only sums of lengths against the limit
matter: two requests stay below it and the third crosses it. A file of exactly two
buffers is the case in which `feof` needs one more `fread`. The two requests of
`mt_client` for one path come after another one, so that both workers can be in
`localPath` with them. Three requests of `download` with three descriptors let a
client whose first two requests fail early find none for the third. In `session` the
response is longer than what a connection holds, so that the server can be left in
`gfs_send`; the first request stays below the limit, the second crosses it and the
third comes after. Two echo clients are the least of which the second is served from a
used buffer, and messages of three bytes are longer than it. Three clients of
`transfer` are one more than the server has descriptors for.

Bounds and simplifications everywhere: files are shorter than 2^31 bytes (the
counters of `work` are `int`); `malloc` does not fail; a line of the content list
is shorter than its buffer of 256 bytes; a workload has 1 to 100 paths, none of
which is the word `stop` (an empty one divides by
zero in `workload.c:55`, a longer one overruns the array in `workload.c:30`;
`Download` has the empty one too). In `Session` paths have one length, below that of
the array they are read into, and bodies begin with no white space; a path that was
cut or overwritten may name any file nonetheless (`Replies`). Of a response header
the form is modelled and not its bytes, so that a zero byte inside one and lengths
above 2^64 are left out. `Content` numbers descriptors by the lines of the list, also
where a last line without a newline loses a character of its path and another file of
that name is opened. What memory beyond an array is overwritten is not modelled:
an overrun ends the process or does no harm.
`MaxConnections` bounds the connections of `GfServer`; `MaxFiles` is the limit on
descriptors of `Transfer`, which in reality is a large number; `Fault` says which
calls may fail; `FrameKept` says what can have become of an array whose function
has returned. `CHECK_DEADLOCK FALSE` is used where programs
really may stop or wait for ever: the multithreaded client, `session` and `echo`;
their liveness properties say when.

## Fairness

Every liveness property is checked under weak fairness of each thread or process that
is ready to run: the operating system schedules them. For mutexes strong fairness is
assumed (a thread that keeps finding the mutex free gets it): POSIX does not promise
it, but the critical sections are short and no thread of these programs takes a mutex
over and over without waiting in between. Failing calls, spurious wakeups, new
connections, signals and lost clients are never forced: `GfServer` keeps them out of
its fair `Step`, `Download` and `Session` out of `Progress` and `ServerStep`. What is
due besides the steps that succeed is only what cannot be otherwise: a `recv` on a
connection whose other end is closed returns, a `connect` to no server fails, and so
does a `socket` without a descriptor (`PerformEnds`, `ClientEnds`). In `Download` the
server answers some day; in `Session` that is shown and not assumed. `Session`'s
server answers every request it accepts as long as no call fails: the prebuilt handler
is taken to send its whole response and to return with the connection open; where
calls may fail it may send a part of it or nothing, and close the connection or not.
In `MTServer` fairness means
that a client which has its response closes its end, unless it has stopped reading
before, which no fairness forbids: `gfs_send` has no timeout, so a stalled client
keeps its worker for ever, and `EveryTaskIsFinished` says what follows: a task waits
for ever only if its own client, or one client of every worker, has stopped reading
(TLC finds both to happen). That the request of an accepted connection arrives, so
that the boss gets on, is assumed: the receiving is the prebuilt library's. In
`Transfer` fairness means that `fread` does not fail for ever.

## What is proved

Each proof module states its inductive invariant as a conjunction of named parts,
shows that `Init` implies it and that every action preserves it, one step per
action, and draws the theorems from it. TLC has checked each of these invariants on
the instance of the corresponding run before it was proved.

**`MTClient_proof`**, from `WorkerAssumption` (a finite, non-empty pool),
`WorkloadAssumption` and `OutcomeAssumption`: `Typing`, `MutualExclusion`,
`NoLostWorkerWakeup`, `NoLostBossWakeup`, `ExclusiveRequests`, `Completion`,
`LocalFiles`, and `Refinement` (the client implements `BossWorker`). `IInv` adds to the
checked invariants

* `HandsInv`: a worker holds a request exactly between taking and finishing it;
* `HandsBelowSent`: requests held were enqueued before;
* `PillInv`: `num_eaten_pills` counts the workers that have eaten one;
* `MainInv`: main joins only when the count has reached the pool's size, and has
  sent everything by then;
* `QueueInv`: the queue is sorted by the order of enqueueing, and once the pill is
  in it, it is the last element, alone as soon as somebody has eaten it;
* `NothingLost`: an enqueued request is in the queue, in a hand, or performed;
* `StampInv`: a request has no number for its local file, and no result, before a
  worker has got to it;
* `FileInv`: a file on disk belongs to a request that has its number, and the file of
  a worker between `fopen` and its last `unlink` is as that worker has left it, unless
  two requests share the name.

`Completion` needs most of them: when all pills are eaten no hand is full and only
the pill is left in the queue, so every request has been performed.
`BossWillHearOfLastPill` alone is not inductive, because that a worker is on its
way to signal follows only from `PillInv` and the pill's place in the queue.
For `Refinement` each action is shown to be the `Submit`, `Take`, `Finish` or `Close`
of `BossWorker` it stands for, or to leave the abstract pool alone; `Take` rests on
`QueueInv`, which tells a request at the front from the pill, and `Close` on
`Completion`'s argument.

**`MTServer_proof`**, from `ServerAssumption` (a non-empty pool; it need not be finite, as
nothing is counted): `NoLostWakeup`, `Ownership`, `Stream`, `OpenSockets`, and
`Refinement`. A connection moves from the boss to the queue, to one worker, and is
freed (`HandsInv`, `OwnersInv`), so what a worker knows of the connection it serves
nobody else can change (`ServingInv`): nothing was sent on it before (`FreshInv`), nothing
that is still in the buffer or in the file has been sent, and until a `gfs_send` fails
all the rest has. `SentInv` is `StreamIsPrefix` by positions: after a failure there may be
a gap, but positions still only go up.

**`Steque_proof`**, from `StequeAssumption` (`NULL` is no node and no item; the heap
is finite): `ListIsWellFormed` and `ListIsSequence`, the refinement of `Deque`.
`WellFormed` is its own inductive invariant, but its list is followed by a recursive
function; the proofs use instead that the list *is* a walk through the nodes
(`Linked`), which determines that function (`WellFormedLinked`, `LinkedSuffices`).
Each change of pointers is a lemma on walks (`LinkAtFront`, `LinkAtBack`, `Unlink`,
`Rotate`), and each call a step of `Deque` by one of these. What induction there is,
is in `SetInduction`, which speaks of a set of numbers and so needs no operator
parameter; it rests on the library's theorem that strict inclusion of finite sets is
well founded.

**`Content_proof`**, from the assumptions of `Content`, for every list, first capacity
and set of callers: `Typing` (no search reads outside the array), `RoomToLoad`,
`Window` (the comment in `content_get`'s loop is its invariant) and `Answers`. The
invariant adds what is loaded so far (`Loading`), that the array is sorted and
complete while it serves (`Serving`), and that nobody searches before
(`IdleOutsideServing`). That a permutation which sorts the items exists is not
needed: the sort is any step that leaves the same items sorted, as `qsort` promises.

**`GfServer_proof`**, from the assumptions of `GfServer`: `BufferBound`, `Refusal`,
`WholePath`. `ReceiveInv` has that what has come of this request is also part of
`total_received`, and when the loop goes on; `ParsedInv` that below the limit `sscanf`
has seen the whole path of a well-formed request. `WholePath` allows for a handler
that finds the array overwritten, but not for a part of the path or an earlier one.

**`Session_proof`** has three parts. The first, from the assumptions of `GfClient`
alone, is about one `gfc_perform` with any response, malformed ones included:
`Contract` and `HandedOn`. Its invariant says how far the response has come at each
point (`HeaderInv`, `BodyInv`: in the body loop what this loop has received has been
handed on, and after a header of the standard layout the counters are those of the
bytes taken, less the header), when the socket is open (`SocketInv`), and that such a
success has the bytes announced and no more than were sent (`SuccessInv`). What the
theorems do not say: for an OK header of another layout, or one that does not begin
with GETFILE, whether it counts as a success, and how many bytes are handed on of
those that came with it. The second, with the assumptions of `Download` (at most 100
paths, at least one descriptor), is about the program around it and any server:
`EveryRequest`, `LocalFiles`, `Sockets`, with `MainInv` for what `main` has done at
each turn. The third, with `ServerAssumption` and `ReplyAssumption`, is about client
and server together. `Composition` shows each step of `Session` to be one of the
client with some server, and one of the server with some clients, or to leave either
as it is; so the invariants of the second part hold of `Session` without a second
proof. `Results` then needs three facts about both sides: the server has received no
more than the connections before this one sent, so the limit is crossed only by as
many (`ServerInv`, with `Late`); what has been sent on the current connection answers
the client's current request, or any request at all where paths are cut or overwritten
(`AnswerInv`, with `Strayed`); and what the client has made of it (`PendingInv`). The
two assumptions say that the limit and the lengths are numbers, that a request is
longer than its fixed parts, that files have paths, and that `Response` has every
answer the server can give: the client's set of responses is a constant, and leaving
out one of the server's would only hide what happens.

**`Transfer_proof`**, from the assumptions of `Transfer`: `WholeFile` and
`EachServedWhole`, for every set of calls that may fail. The position in the file is
what the stream holds and what of the buffer is still to be sent (`PositionInv`), so a
stream is a beginning of the file and all of it once the server has closed it
(`StreamInv`); the server's open files are the connections it has closed and the one
it sends to (`FilesInv`); and a `recv` of 0 comes only when the server has closed the
connection or ended (`ClientInv`, `ServingInv`). A client whose `recv` fails ends with
a part of the file, and the theorem does not say otherwise.

**`Echo_proof`**, from `EchoAssumption`: `OwnBytes` and `EchoComesBack`. Between two
connections the buffer holds zeros, or before the first one what was in memory; `recv`
puts a beginning of one message over that, as much as the buffer holds unless it was
short (`BufferInv`), and it goes to the client the message is of (`ReplyInv`), who is
served once (`ServedInv`) and prints what came (`ClientInv`).

Assumptions the proofs rest on and the code grants: the thread count is clamped to
at least one; `Descriptors` is positive (a process with none could not have opened the
workload); a heap is finite; `None` and `NULL` are no values of the program; a path of
the workload is not the pill.

## What is only model-checked

Liveness, all of it: `TerminationUnlessWorkerLost`, `EveryTaskIsFinished`,
`EveryGetReturns`, `Ends`, `EveryRequestIsAnswered`, `EveryClientIsServed`,
`SessionEnds` and `EveryClientEnds` rest on fairness, whose `ENABLED` the prover does
not handle. The refinements are proved as far as they speak of safety, and
`BossWorker` and `Deque` have no fairness. The three violations are counterexamples
and TLC's alone.

## Where code and documentation disagree

Shown by a run (quotations in `PROJECT.json`):

1. **A worker can be lost** (`gfclient_download.c:175`). After a failed
   `gfc_perform` the local file is removed twice; the second `unlink` fails and ends
   the worker without a pill, and main waits for that pill for ever.
2. **Damaged beginning of a body** (`gfclient.c:122`): the four bytes of the end
   marker are skipped twice when body bytes arrive with the header. `download`
   shows that the damage is limited to that chunk (`BytesHandedOn`).
3. **A refused request kills the sequential server** (`gfserver.c:102`, `131`).

Stated in the passing runs as the exact exception to a property:

* `mtgf/gfclient_download.c:49`: `counter++` is not atomic, so that two requests for
  one path may get one local file, and remove or overwrite each other's
  (`DiskHoldsTheSuccesses` speaks of requests that share none;
  `Readme.md:491` asks for no race conditions);
* `gfclient.c:271`, `282`: early returns leave the socket open. Each costs a descriptor
  (`SocketsExplained`), and holds a single-threaded server that waits for the rest of
  a request or for its answer to be read: client and server then wait for each other
  for ever (`SessionEnds`, `ServerHeld`);
* `gfserver.c:136`: the server closes no connection itself; one whose handler has
  returned with a part of the response sent stays open, and the client waits for the
  rest for ever (`SessionEnds`, `ClientHeld`);
* `gfclient.c:76`, `137`: `GETFILE OK` without a length, or of another layout, and a status
  that only begins with OK or ERROR, are taken for valid, although `gfclient.h:89-91`
  promises a negative return value for an invalid header (`ReturnContract`); the size of
  a file saved after such an OK can be anything (`DiskHoldsTheSuccesses`, `BytesHandedOn`);
* `gfclient.c:293`: bytes beyond the announced length that arrive with the last ones
  are written to the file (`DiskHoldsTheSuccesses`);
* `gfclient.c:71-72`: the terminator is written behind a full buffer, and a long header
  behind its array; `gfserver.c:163`: so is a long path. Either may end the process
  (`EveryRequestIsAnswered`; `Ends` counts it as an end);
* `gfclient.c:266`, `gfserver.c:77`: a `send` on a connection that was reset raises
  SIGPIPE and ends the process (`DiskHoldsTheSuccesses`, `EveryRequestIsAnswered`);
* `gfclient.c:238`: when no connection can be made the library ends the process, and
  an empty local file stays behind (`DiskHoldsTheSuccesses`);
* `transferserver.c:36`: a file is opened for every client and never closed; when no
  descriptor is left the server ends (`ServedInTurn`; `Readme.md:177` says that it
  should not stop after a transfer);
* `transferclient.c:48`: the loop ends on every `n <= 0`, so that a client whose `recv`
  failed ends like one that has the whole file (`EndIsEndOfFile`);
* `echoserver.c:146`: the whole buffer is sent, and to the first client bytes nobody
  has written (`OwnBytesOnly`); a message as long as the buffer comes back without a
  zero byte, and more than it is printed (`EchoIsMessage`); an empty message, or a
  failed `send`, leaves both sides in `recv`, and all other clients behind them
  (`EveryClientEnds`);
* `gfserver.c:84`: `total_received` is never reset, so that after some requests a
  well-formed one is refused or its path cut (`RefusalExplained`,
  `WholePathBelowLimit`);
* `gfserver.c:115`: a client that closes before the end of its header keeps the
  server in `recv` for ever (`EveryRequestIsAnswered`);
* `gfserver.c:175`: the path given to the handler lies in the frame of a function
  that has returned, and may have been overwritten (`WholePathBelowLimit`); a client may
  then be given another file than it asked for (`ResultExplained`). A request without a
  path may be served with the path of an earlier one, which no property forbids;
* `gfclient.c:97,117`: for `GETFILE OK 0` two bytes more are counted as body and
  written than were received (`BytesHandedOn` speaks of lengths other than 0);
* `gfclient.c:77`: a header that does not begin with GETFILE is read from memory
  nobody has written, so that either result is possible (`ReturnContract`), and the
  count of the body, less the length of a header printed from it, may be any number
  (`BytesHandedOn`);
* `gfserver_main.c:129`: a failed `gfs_send` leaves only the inner loop and the
  worker goes on to the next buffer; a client that is still there gets a file with a
  gap (`StreamIsPrefix`), or an open connection (`OpenSocketsExplained`);
* `gfserver_main.c:122`: a client that stops reading keeps its worker, and `nthreads` of
  them the whole server (`EveryTaskIsFinished`);
* `transferserver.c:59`: one client that goes away ends the server for all
  (`ServedInTurn`); `transferserver.c:45`: a file that cannot be read is read for
  ever (the fairness of `Transfer`).

## Not modelled

Option parsing, addresses and printed text; `content_destroy` (never called) and
the random mode of the workload (never selected); `Notes.c` and `gfclient_old.c`
(in no build target); the prebuilt object files, which appear as environment; what
workers do to a queue that main destroys when a thread cannot be created, in the
instructions before `exit`; a response header sent in part (`gfserver.c:77`), which
only the prebuilt handler could notice.

## Plan

Done: every component in the inventory but the superseded code; for each one a proof
of all invariants and refinements its passing runs check.

To extend the model: `MTServer` over `Content`, so that a worker's descriptor is the
one of its path. The server's part of it is one call per request on an array that
no longer changes, which is what `Content` checks with two callers.

To prove: what the runs check of safety is proved. Invariants they do not check yet,
such as a bound for the multithreaded server's open descriptors, would come first to
TLC and then to the proofs. Liveness stays with TLC.
