# A TLA+ verification of Golang_SandBox

The repository is a collection of small concurrent programs: a TCP chat server
with its client, a job server with a pool of workers, several forms of producer
and consumer in Go, and a set of C servers after CS:APP. They have no code in
common, so this project treats them as separate systems, each with modules of
its own. Paths below are relative to `src/`.

## 1. Inventory

| Component | Source | State it keeps | Operations | Modules |
|---|---|---|---|---|
| Chat server | `chatserver/server` | listener, `clients` (a slice), `mutex`, a name per client | Listen, Start, accept, serve, remove, Broadcast, Send, Close | `ChatServer`, `ChatServerProofs` |
| Job server | `handleMillionRequest/main.go` | `jobQueue`, `workerPool`, workers | requestHandler, dispatch, start, stop | `WorkerPool`, `JobService`, `WorkerPoolProofs` |
| Producers and consumers, one condition | `produce_consume/model1/main3.go` | two counts, `done`, lock, condition | Produce, Consume, main | `CondBuffer`, `GoProgramsProofs` |
| Task queue with termination | `produce_consume/model1/main2.go` | `buffer`, `terminated`, mutex, condition | Produce, Consume, Terminated, main | `TaskQueue`, `GoProgramsProofs` |
| Iterative, forking and threaded echo servers | `csapp/echo/echo1.c`, `echo2.c`, `echo5.c` | descriptors, children, heap blocks | accept loop, echo, child, thread, sigchld_handler | `EchoServers`, `EchoServersProofs` |
| Select-based echo servers | `csapp/echo/echo3.c`, `echo4.c` | ready sets; the pool of clients | command; init_pool, add_client, check_client | `EchoServers` (echo3), `EchoPool` (echo4), `EchoPoolProofs` |
| Prethreaded echo server | `csapp/echo/echo6_*`, `sbuf.h` | descriptor buffer, byte counter | main, thread, echo_cnt | `PrethreadedEcho`, `ThreadsProofs` |
| Parallel sums | `csapp/echo/psum-*.c` | partial sums or one global sum | main, thread routines | `ParallelSum`, `ThreadsProofs` |
| Tiny web server | `csapp/charpter11/tinyweb.c` | one connection at a time | doit and what it calls | `TinyWeb`, `TinyWebProofs` |
| epoll server and client | `socket_program/linux` | an interest list, a batch of events | the event loop; the client | `EpollServer`, `EpollServerProofs` |
| Chat protocol, client, TUI | `chatserver/protocol`, `client`, `tui` | a buffered stream; a connection and a channel; two views | Read, Write; Start, Send; callbacks | not modelled |
| Channel pipeline, programs with timeouts, print in order | `model1/main1.go`, `produce_consume/timeout`, `leetcode_concurrency` | channels, tickers, contexts | producers, consumers, main | not modelled |

`csapp.h` holds declarations only: the bodies of the csapp wrappers, of the rio
package, of `echo()` and of `sbuf_insert` and `sbuf_remove` are not in the repository. They are modelled, where a server needs
them, from how it uses them, and marked external in `PROJECT.json`. `缓存项目` is an empty folder of the Finder.

How the components interact. Within the chat system the client talks to the
server over one TCP connection, the server starts a goroutine per connection and
one per message, and these share `s.clients`. In the job server request
handlers, dispatcher, per-job goroutines and workers share nothing but channels
and one captured variable. The producer/consumer programs share a buffer under a
mutex with a condition variable. The C servers interact with their
clients through descriptors and with their own threads or children through a
heap block, a bounded buffer, a counter or a signal.

What is hard, and what would make each component correct:

* **Chat server.** `Broadcast` reads the slice without the mutex (tcp_server.go:56)
  while `append` stores array, length and element one after the other and
  `remove` shifts the array in place; it writes to clients one after the other,
  and a write blocks. The registry must stay exact; a broadcast should reach
  everybody registered; whoever leaves must be removed, whoever connects must be served.
* **Job server.** A worker's channel travels through the pool and a goroutine and
  back; a closure captures the loop variable; the dispatcher never waits. Each job
  must be run once, by a worker that is free, and every request answered.
* **One condition for producers and consumers.** `Signal` may wake the wrong side.
  They must never all be asleep, and the program must end.
* **Task queue.** No wake-up may be lost, items leave in order and once,
  termination reaches everybody.
* **Echo servers.** Descriptors travel from accept to a child, a thread, a slot
  of a pool or a buffer, and are given out again; lines come in pieces; clients hang up or
  vanish anywhere. All of them promise the same: what a client sent comes back, in order, and
  its connection is closed after that.
* **Event loops.** A ready set or a batch of events is worked off while the world goes on, and
  while descriptors in it are closed and used again. It must not go stale, and nobody may be forgotten.
* **Parallel sums.** Shares, pointers to a shared array, a shared sum, and arithmetic that wraps.
* **TINY.** Files change between stat, open and write; sizes do not fit; clients vanish; children
  must be waited for.

`PROJECT.json` lists every hazard at its line with the properties that guard it.

## 2. Modules

| Module | Stands on | Checked by |
|---|---|---|
| `ChatServer` | – | `MCChatServer`, `MCGoPrograms`; `ChatServerProofs` |
| `JobService` (abstract), `WorkerPool` | `WorkerPool` implements `JobService` | `MCWorkerPool`, `MCGoPrograms`; `WorkerPoolProofs` |
| `CondBuffer`, `TaskQueue` | – | `MCGoPrograms`; `GoProgramsProofs` |
| `EchoNet` | the kernel's sockets and csapp's wrappers | with the modules below |
| `EchoService` (abstract) | – | as a property of the two below |
| `EchoServers` | `EchoNet`; implements `EchoService` | `MCEchoServers`; `EchoServersProofs` |
| `PrethreadedEcho` | `EchoNet`; implements `EchoService` | `MCThreads`; `ThreadsProofs` |
| `EchoPool` | `EchoNet` | `MCEchoPool`; `EchoPoolProofs` |
| `EpollServer` | – | `MCEchoPool`; `EpollServerProofs`, `EchoPoolProofs` |
| `ParallelSum` | – | `MCThreads`; `ThreadsProofs` |
| `TinyWeb` | – | `MCTinyWeb`; `TinyWebProofs` |

Three of the MC modules check several programs in one run. The programs share nothing; a variable `runs`
says which of them was started, and the variables of the others keep their initial values. So a
behaviour of such a run is a behaviour of one of the programs, under the fairness of its own
specification, and a property of a program says nothing about the behaviours of the others.
The proofs follow the runs: `GoProgramsProofs`, `EchoPoolProofs` and `ThreadsProofs` extend the MC module and prove its
properties of `MCSpec`. Where the theorems are in a module of the program's own (`WorkerPoolProofs`, `ChatServerProofs`,
`EpollServerProofs`), the MC module instantiates that one and assumes what it assumes (`GoAssumption`, `EpollHolds`), which TLC evaluates.

## 3. ChatServer

State. `listener`, `mutex` and `name` are the fields of the program. The slice
`s.clients` is what it is in memory: `heap` holds the backing arrays, oldest
first, `ptr` and `len` are the header (the capacity is the length of the array).
`phase` is the program counter of the goroutine that works for a connection:
`none`, `backlog` (connected, not accepted), `accepted`/`grow`/`len`/`elem`/`joined`
(Start is in `accept`), `serving`, `leaving` (waits for the mutex in `remove`),
`scan`/`shift`/`rescan` (the range loop of `remove`), `closing`, `gone`. `scan` is
the loop's own copy of the header with its index. `bc` has one record per Broadcast
goroutine: its program counter, its copy of the header, the index, the client
loaded. The wire is `peer`, `inbox` (commands sent and not read), `got` and
`unread` (messages written, and of these not read by the peer).

| Action | Code (tcp_server.go) |
|---|---|
| `Listen`, `AcceptOnNil`, `Close` | 34-41; 45 on a nil listener (cmd/main.go ignores the error); 71-73 |
| `Accept`, `AcceptLock`, `AppendPtr`, `AppendLen`, `AppendElem`, `AcceptUnlock` | 44-50, 75-86: lock, the three stores of `append`, unlock, `go s.serve` |
| `ServeCommand`, `ServeError`, `ServeEOF` | 107-128 |
| `RemoveLock`, `RemoveMatch`, `RemoveShift`, `RemoveTrim`, `RemoveDone`, `RemoveClose` | 88-99: lock and copy of the header, a match, the shift slot by slot, the shorter length, end of the range, close and unlock |
| `BroadcastLoad`, `BroadcastFetch`, `BroadcastWrite`, `BroadcastDone` | 55-60: two loads of the header, a load of a slot, a blocking write, end |
| `Dial`, `PeerSends`, `PeerReads`, `PeerLeaves` | the other end; a connection may end cleanly or break, and then unread commands are lost and one read fails before EOF |

Data race. Broadcast's loads are not ordered with the stores of append and
remove. The model takes every interleaving of single-word loads and stores: the
header's two words may be of different ages, the last slot nil or stale. A slot
outside the array or nil is a fault that stops the process. Loads older than
that, which the Go memory model would also allow, are not modelled.

Abstractions. A message is the index of its broadcast; a command is `SEND`, `NAME n`
or `BAD` (whatever the reader rejects or the server ignores). Ghosts: `chosen`,
`asked` (the name a sender had chosen when it sent), `snap` (who was registered
when the broadcast started), `join` and `leave` (an append or a shift overlapped it).

Checked:

* `RegistryExact`: the live slots hold exactly the registered clients, each once,
  at every step of an append and of a shift. "Live" leaves out the slot that is
  about to be overwritten. `remove` goes on ranging over the slots it has just
  shifted, and the invariant shows that it finds no second match.
* `JoinsLoseNothing`: a broadcast overlapped by joins only still reaches everybody
  who was registered and stays connected. It may reach someone twice: after an earlier
  remove the slot behind the end still holds the last client.
* `QuietBroadcastIsExact`: without a join or a leave, once each, and nobody else.
* `FaultNeedsJoin`: the process dies only when Listen had failed or a broadcast
  overlapped an append; the stale slots a remove leaves behind never fault.
* `NameIsSendersChoice`: the name on a message is the one its sender had chosen.
* `LeaversAreRemoved`: even with every broadcast hung (`Window` 0 is a peer that reads nothing), a client whose
  connection ends is unregistered and its connection closed.

Violated: `BroadcastReachesAll`; see Findings.

Bounds. Three clients and one message (`chat_safety`): three are the least for a
remove in front of, and another behind, a broadcast's position, with arrays of
capacity 1, 2 and 4, so that an append both grows and does not. Every leave and join is possible
around the one broadcast. Three commands of one client, through a window of one, for the names
(a name is read and written by the goroutine of its client only), `Window` 0 with two clients
for the stalled peers (in `go_programs`). Counters that grow without end in
the code (connections, commands) are bounded by `Clients` and `MaxCmds`.

Fairness. `FairServer` is weak fairness of the Start goroutine, of each serve goroutine
and of each broadcast: Go's scheduler is preemptive and `sync.Mutex` hands itself to
the longest waiter after a millisecond, and here lock holders never block. Peers
owe nothing.

Not modelled: `TcpChatServer.Send`, which nothing calls; log output.

## 4. WorkerPool and JobService

State. A job is known by its request. `req` is where a request handler is: not yet
called, at `jobQueue <- job`, or returned (`refused` before the send, `submitted`
after it); `status` is the status line already sent. `queue` is `jobQueue`, `pool`
is `workerPool` (a worker stands for its `jobChan`). `disp` and `hand` are the
dispatcher: at `range`, or with a job received and some words of it still to be stored in
the loop variable. `cells` are the loop variables there have been, `gor` the per-job
goroutines (their place, the variable each captured, what each has loaded, the
worker each has taken). `worker` is where each worker is.

| Action | Code (main.go) |
|---|---|
| `Receive`, `Enqueue` | 95-121: the checks in one step, then the send, which may block. A missing name is answered and not returned from (114-116) |
| `DispatchReceive`, `DispatchStore`, `DispatchGo` | 86-93: receive, assign `job` word by word, start the goroutine |
| `Fetch`, `Load`, `Send` | 89, 91: take a worker, load `job` word by word, hand it over on the unbuffered channel |
| `Register`, `Complete` | 37, 39-42 |
| `Stop`, `Quit` | 51-55, 43-45. The program never calls stop; `MaxStops` bounds the calls |

`LoopVar` is the language version: `perLoop` is Go up to 1.21, where `job` is one
variable, `perIteration` is Go from 1.22 on. No go.mod fixes it for this program.

`JobService` is the abstract specification: a job is submitted, started by one
free worker, finished. The refinement mapping takes a job to `done` when a worker has
completed it, to `running` when a busy worker holds it, to `pending` when its handler
has sent it.

Checked, with `perIteration`: `ClaimsExact` (a worker's channel is in the pool
or with one goroutine exactly when the worker waits for a job or has stopped; hence no
job waits behind another one's, and a registration never finds the pool full),
`RunsJobsOnce` (the refinement: each job is run by one worker, once, and none under another's name), `JobsAreRun` (with more jobs than workers), and
`RequestsAreAnswered` (even if no worker ever finishes, and with a queue of size 0:
the backlog is in goroutines, `max_queue_size` does not bound it).

Bounds. Three requests and two workers: two goroutines can compete for the last worker
with a third job in the queue, and a worker can be used twice. One slot in the queue
(none in `go_programs`, with one worker) lets handlers block. One call of stop leaves one channel behind.

Fairness. `FairSpec` is fair to request handlers and dispatcher only: what `RequestsAreAnswered` says
holds whatever the workers do. `JobsAreRun` adds fairness of goroutines and workers as its premise
(`PoolFairness`: the scheduler runs who can run, a `time.Sleep` of 1 to 10 seconds ends).
New requests and calls of stop are never forced.

## 5. CondBuffer

`productCount`, `producedCount` and `done` are the program's variables. They are touched
under `lock` only, so what runs from `lock.Lock` to `Unlock` or into `Wait` is one action;
`pc` tells who waits. A goroutine that was woken competes for the lock and checks the
loop's condition again, which is what a `running` goroutine does anyway. `Signal` wakes any waiter
(sync.Cond promises no order). The sleeps of 100 ms only delay a goroutine.

Checked with the program's own constants (five producers, two consumers, 20 products):
`NotAllAsleep` and `ProgramEnds` (as `CondEnds`). The last one needs weak fairness of the whole
next-state relation only: there are finitely many products to make and each step that is not a
`Wait` uses one up.

The condition serves both sides, so a Signal can be lost on the wrong side. With more than
`2 * PRODUCTS` goroutines all of them can fall asleep (TLC finds this, for instance,
with three producers, one consumer and one product, or with five, two and three). At up to `2 * PRODUCTS`
they cannot: this is proved below. The program, with 7 goroutines and room for 20,
is far inside.

## 6. TaskQueue

`buffer` and `terminated` are the Queue; `pc`, `sleep`, `made` are the goroutines, each critical
section one action as above. A tick is 500 ms. With `Punctual = FALSE` a goroutine may be arbitrarily late,
which is all that time.Sleep promises, and Terminated and the exit of main come at any point;
with `Punctual = TRUE` no tick passes while somebody can run, which is the schedule the program's
author has in mind. Every run takes the former, which has all behaviours of the latter.

Checked with late goroutines: `SleepersAreSurplus` (whenever a consumer waits on the condition the
queue has not been terminated, and there are at most as many items as consumers that neither wait nor sleep the second after an item: neither an item's wake-up
nor the end's is lost, and no item is left to a busy consumer while another one waits). Bounds: two producers of two items and two consumers, so that two items can arrive
while both consumers wait and a third while both are busy.

## 7. The echo servers

`EchoNet` is what they stand on. A line is two halves, since TCP may deliver it in pieces; `sent`
counts the halves a client has written, `taken` those read from its socket, `echoed` is what was written back to it.
A client may hang up (`eof`) or be gone (`reset`) anywhere, in the middle of a line included. `LineResults`
is `Rio_readlineb`: a whole line, or at end of file what is left, and no result as long as it has to wait.
The wrappers end the process when a call fails; no program looks at an error.
Descriptors are numbers that accept gives out, the lowest first (`EchoPool`, `EchoServers`, `PrethreadedEcho` alike), and are used again.

`EchoService` is the abstract specification: a client gets back what it sent, in this order; its
connection is closed after it has hung up and has got everything back, or when it is gone; the server
ends only over a client that is gone, if one process works for all (`shared`), or when as many connections are
open as it can hold (`maxOpen`).

### EchoServers (echo1.c, echo2.c, echo3.c, echo5.c)

`program` says which one was started. `main` is where main is, `flow` holds for every client the
flow that runs `echo` for it: main itself (echo1, echo3), a child (echo2) or a thread (echo5).

| Action | Code |
|---|---|
| `Accept`, `AcceptFails` | echo1.c:18-22, echo2.c:32-33, echo3.c:34-36, echo5.c:26-29; the wrapper ends the process when no descriptor is left |
| `Read`, `Write`, `Close`, `Fails` | `echo(connfd); Close(connfd)` and their errors |
| `Fork`, `ParentCloses`, `ChildCloses`, `ChildExits` | echo2.c:34-40. A connection is open as long as a process has it open |
| `Deliver`, `Reap`, `NoneLeft`, `Return` | sigchld_handler (echo2.c:7-12). The signal is one bit, blocked while the handler runs; main does not run either |
| `Select`, `Command`, `Types` | echo3.c:29-33, 43-48, and the operator. `Fgets` takes a line out of stdin's buffer, which it fills with one line or several |
| `Malloc`, `Create`, `Begin`, `FreeCell` | echo5.c:28-41: the descriptor goes through a heap block, which may be used again as soon as it is freed |

Checked: `EachItsOwnConnection` (a descriptor reaches the thread it was accepted for, whenever the
thread comes to load it), `NoZombieForgotten` (as long as there is a zombie, a signal is pending or the handler has
still to call waitpid), `StdinIsWorkedOff` (what the operator of echo3 types is read by and by, between any number of clients, and once stdin
has ended every line is executed, those too that select does not report as they wait in stdin's buffer, and the server exits; unless a client
holds it up for ever with half a line, or takes it along), `KeepsThePromise` (all four implement `EchoService`; descriptors run
out only when that many connections are open, in echo2 never), `HangUpIsAnswered` (who hangs up, or is
gone, has its connection closed, or else the server has ended).

### EchoPool (echo4.c)

The variables are the fields of `pool`, main's and check_client's locals, and the descriptor table.
check_client is one action per visit of a slot: `CheckReady` then `Read` and `Write` for a
ready one; `CheckOther` for one that is not, which the code closes; `CheckEmpty` for an empty slot, where the
code calls `Close(-1)` and so ends the process. The clients act between any two of these steps. `Read` works on a copy of the
slot's rio buffer, which is dropped with whatever it has read ahead: lines after the first are lost, and
the model loses them too. check_clients/check_client and DF_CLR/FD_CLR are taken for the same, or the program would
not link. `byte_cnt` is only printed and not modelled.

Checked: `PoolIsExact` (occupied slots, bits of `read_set`, open descriptors and high-water marks agree,
whatever was closed and used again, and a slot is free whenever one is needed), `NReadyIsExact` (`nready` counts the ready clients that the loop has still to
visit), `ReadsFindInput` (a ready set does not go stale), `EverybodyHasATurn` (unless half a line holds the
server up for ever, or the server ends: whoever calls is accepted; what a client has sent is read, or the client is closed unread, as `CheckOther` does;
and a client that select has reported is read from first). Violated: `ClosedAtEofOnly`, see Findings.

### PrethreadedEcho (echo6_echoserverpre.c, echo6_echocnt.c, sbuf.h)

Every semaphore operation, the load and the store of `byte_cnt += n`, and every call that may block is a step of its
own. The buffer is what the comments of sbuf.h say: `buf[(front+1)%n]` is the first item,
`buf[rear%n]` the last, `slots` and `items` count, `mutex` protects. `Pthread_once` lets the first thread run
init_echo_cnt while the others wait. `counted` is a ghost: the halves that threads have counted.

Checked and, but for the last, proved: `CountIsExact`, `HandedToOneThread` (every open descriptor is with main, in the
buffer or with one thread), `SemaphoresAreExact`, `KeepsThePromise` (the program implements `EchoService`),
`EveryClientIsServed` (if clients do hang up, the threads get round to all of them).

## 8. The other C programs

### ParallelSum (psum-mutex.c, psum-array.c, psum-local.c)

`prog` says which one was started, `Args` which command lines are tried: numbers of threads from -2 up to one more than the arrays
hold (with more, all is the same up to the overrun), and shifts from minus to plus the width of a long (those below zero or too large are
undefined in C; they take the low bits of the count, as the processors do). A long is between `-(LONG_MAX + 1)` and `LONG_MAX` and wraps (`Wrap`), `/` rounds towards zero, a
division by zero ends the program, the one whose quotient does not fit may, and an overrun array stops the model (`overrun`): nothing can be said
of what the program does from there. `atio`, in two of the programs, is taken for `atoi`.

Checked: `VerdictIsRight` (an accepted command line gets the sum of the elements that were dealt out; an error is
printed exactly where these are not all. psum-mutex.c can leave some out, since it
does not check that the threads divide the range; and all three start no thread for a negative number of them, which the check does not refuse either: `psum-array -2 4` sums
nothing and prints an error). A thread that missed its own id in the array that main
goes on filling, or a store that was lost, would show there. Above the accepted logarithms psum-mutex.c may print an error where the sum
is right in the width it has (`nelems * (nelems-1)` wraps before it is halved); the property claims nothing there.

### TinyWeb (tinyweb.c)

One connection at a time goes through `at`: `line` (the request line), `headers`, `stat`, then
`error`, or `static`, `open`, `map`, `closesrc`, `body`, `unmap`, or `dynamic`, `fork`, `wait`, and `close`. A URI is a sequence of tokens,
so that parse_uri's cuts at `?`, its search for `cgi-bin` and the added home page are modelled by what they do. `sbuf` is what stat
has said of the name and `file` what it would say now: other processes remove, protect or truncate the file at any
time. `sprintf` is undefined where its target is an argument; it either appends, as intended, or starts afresh. `buffered` says
whether the server's log waits in a buffer, which a child that fails to execute its program flushes into the client's
socket.

Checked: `ResponseIsWhole` (an error, or the headers and then the file or the program's output, in
this order; and file, mapping and child are given back before the connection is closed. The exception, `Beheaded`: where `sprintf` starts afresh, a file follows
the last header line alone, without a status line), `LengthIsKept` (as many bytes as declared, and
the size stat has seen unless that is no int), `EndsForAReason` (where the server ends, it is for a reason of that place, `ReasonToEnd`: a read or a
write for a client that is gone, open for a file that is not what stat said or that the server is refused, mmap for a size of zero or beyond an int, the
body for a file that was cut under its mapping). Violated: `HangUpsAreDone`.

Abstractions: texts fit their buffers; the file type is kept (`get_filetype` looks for `.html` anywhere in the name,
and knows `.jpg` before `.jpeg`; its comment, tinyweb.c:176, speaks of suffixes), headers are otherwise
one token; the status line `HTTP1/.0` is taken as it stands.

### EpollServer (server.c, client.c)

The kernel is in the model: TCP delivers the client's message in one piece or two and answers what reaches a
closed socket with a reset; epoll keeps a queue of what is ready (`ready`), level-triggered for the listener, one entry
per edge for connections. `events` is what is left of the last batch. Neither program looks at a result. server.c lacks a few
semicolons and calls its connections non-blocking in a comment (server.c:40) without making them so; they are modelled blocking.

Checked: `EventsAreCurrent` (an event is for the connection that is open under its descriptor when main gets
to it, and that has input: the blocking read never blocks), `NoEdgeIsLost` (an open connection with input is in
epoll's queue, in the batch or in main's hands), `EverybodyIsAnswered` (a client that runs to its end has its answer,
unless its message was split or a client that was reset took the server along).

## 9. Runs

| Run | Asks | Result |
|---|---|---|
| `chat_safety` | registry and broadcasts under joins and leaves | holds |
| `chat_commands` | the name on a message | holds |
| `chat_reach_all` | a message reaches all clients | violated |
| `pool_safety` | workers are claimed once; the pool implements `JobService` | holds |
| `pool_shared_var` | posted jobs are run, one loop variable | violated |
| `go_programs` | how the Go programs come to their ends: wake-ups, termination, answers, leaving with every broadcast hung | holds |
| `echo_servers` | echo1, 2, 3 and 5 implement the echo service; hand-over, children, commands | holds |
| `echo_pool` | the books of echo4; the edges of the epoll server | holds |
| `echo_pool_eof` | echo4 closes at end of file only | violated |
| `threads` | the prethreaded server implements the echo service; the verdicts of the sums | holds |
| `tiny` | responses, lengths, why the server ends | holds |
| `tiny_hangup` | who hangs up is done with | violated |

Bounds of the C programs. `echo_servers`: two clients of one line (two halves) each, with two descriptors or with
one (`Limits`), two commands: enough for a descriptor or a heap block to be used again while the other
client is being served, for two children to die behind one signal, and for a line in stdin's buffer that select does not see. `echo_pool`:
three clients for two descriptors and slots, so that one is closed and used again while the other is in the ready set; two callers
for one or two descriptors at the epoll server. `threads`: two threads and two clients with buffers of one and two, so that the indices wrap
and main waits for a slot; a long of six bits, in which the sums of up to four elements are accepted, eight and sixteen are summed by psum-mutex.c, and 2^5 is negative; three array elements.
`tiny`: an int of three bits with sizes on both sides of its range and one that wraps to a positive number; six URIs, one for each way through parse_uri.
Connections and lines, unbounded in the code, are bounded by `Clients` and `MaxLines`, except in `TinyWeb`, where connections follow one another
for ever.

Fairness of the C programs: weak fairness of main, of each thread or child and of the signal handler, which is the kernel's
scheduler; of epoll's client processes; CGI programs end. Clients and the operator owe nothing: where a property needs that
they hang up or finish a line it says so.

Deadlock is not checked: servers idle when nobody calls, programs stop when they are done,
and that they stop at the right place is what `NotAllAsleep`, `CondEnds`, `SleepersAreSurplus` and the liveness properties say.
Symmetry is used for clients, requests and workers, in runs without liveness properties only.

Every property has a mutant in the module it is about (`Mut...`, next to the definition it
replaces): a plausible bug that the run then finds.

## 10. Findings

* `chat_reach_all`: three clients, and the first one leaves while a message is being broadcast.
  Broadcast has written to slot 1; remove shifts slots 2 and 3 down; Broadcast goes on at slot 2,
  and the client that was there is never sent the message. README.md:19 of the chat server: "to all clients".
* `pool_shared_var`: the dispatcher receives the next job into `job` before the goroutine of the
  one before has loaded it; the next job is handed out twice, the first one never. It can also be
  loaded half old, half new.
* `echo_pool_eof`: two clients in the pool, one of them has sent a line. check_client finds the other one not ready and closes
  it: the else belongs to the outer if. For the same reason a client at end of file stays in the pool, where select
  reports it for ever, and an empty slot ends the process. The comment over the else, echo4.c:103: "EOF detected, remove descriptor from pool".
* `tiny_hangup`: a client that hangs up before the empty line leaves the server in the header loop, since
  Rio_readlineb changes nothing at end of file and its result is not looked at. TINY has one thread.

Seen in the source and in the models, without a run of their own: requestHandler (main.go:114-116)
answers 400 to a job without a name, does not return, and submits the job. Both consumers of main3.go
report the products that are left when `done` is set. main of main2.go exits, after its fixed sleeps, while the consumers are
still at work. serve_static's `sprintf(buf, "%s...", buf)` (tinyweb.c:186-189) is undefined, and may leave the last header line alone where
its comment (tinyweb.c:175-176, in Chinese) says that the response line and the headers are sent. A negative number of threads passes the check of the parallel sums where it divides. A chat peer that stops reading keeps every message, for ever, from the clients
behind it in the slice. The epoll server prints its buffer without regard to the length read.


## 11. Proofs

Assumptions: those named in the modules, each with the constants it is about, and evaluated by TLC in
every run. `ChatAssumption`: the sentinel values are no clients, bounds are
natural numbers. `BufferAssumption`: finite, disjoint, nonempty sets of producers and consumers, PRODUCTS at least 1.
`PoolAssumption` of `WorkerPool`: finitely many workers, natural bounds, one of the two meanings of the loop variable; of `EchoPool`:
LISTENFD is below FD_SETSIZE and connections get the descriptors between them. `NetAssumption`: nobody is no client,
there are finitely many descriptors, which are positive numbers. `PrethreadedAssumption`: at least one thread and at least one slot in a
buffer. `ProgramsAssumption`: finitely many clients, and every limit leaves a descriptor. `TinyAssumption`: sizes and INT_MAX are natural
numbers, and a URI is not empty. `QueueAssumption`: finite, disjoint sets of producers and consumers, neither with main in it, pauses and numbers of items are natural
numbers. `EpollAssumption`: nobody is no client, descriptors are numbers other than the listener's, a batch has room for one event. `SumAssumption`: the
numbers of elements that are accepted, and the products `nelems * (nelems-1)` of these, fit in a long, as 2^31 and 2^31 * (2^31 - 1) do in
one of 64 bits; command lines are pairs of integers, whatever atoi returns.

`ChatServerProofs`, for any number of clients, commands and any window:

* `Invariance`: `Spec => []IInv`. `IInv` is `TypeOK`, `RegistryExact` and what these need:
  `MutexInv` (who is in a critical section holds the mutex, and Start is in accept for one
  connection at a time), `AppendInv` (there is room for the element of an append), `ScanInv` (the
  loop of `remove` looks at the current array; before its match it is over the whole slice, and
  from the match on its client is in no slot it has still to look at), `PointerInv` (a copy of
  the header points to an array that exists). `RegistryExact` alone is not inductive: that the
  loop finds its client once depends on where it is and what it has shifted.
  `NextInv` has a lemma per action; actions that leave slice, mutex, phases and scan alone
  are dealt with together (`QuietSteps`).
* `TypeCorrect` and `RegistryCorrect` follow.
* `BroadcastInvariance`: `Spec => [](IInv /\ BInv)`. `BInv` is about the goroutines that hold no lock. Lemmas say first what each step
  of append, of remove's shift and of a broadcast does, as a broadcast sees it (`AppendPtrDoes` to `BroadcastDoneDoes`); `StepKinds`
  says that there is no other step a broadcast notices. The parts of `BInv` are then:
  `Filled` (no nil slot within the slice, but for the one append has still to fill) and `Sound` (a broadcast that met no append walks
  the current array, over slots that hold clients: `FaultsNeedJoins`);
  `Tracked` (as long as no remove shifts, every client that was registered when a broadcast started stands in one slot, the same in the
  current array and in the one the broadcast walks, and has the message once the loop is past that slot) and `Reached` (what follows for
  a finished broadcast: `JoinsHarmless`);
  `Undisturbed` (without a join or a leave, whoever has the message stands in a slot behind the index, and no slot holds a client
  twice: `QuietExact`);
  `Named` (for every connection there is a `History` of names, from the one the server knows to the one its peer chose last, of which every
  SEND on the wire carries the one of its moment: `NamesCorrect`).

`WorkerPoolProofs`, for any number of requests, workers and calls of stop and any size of the queue:

* `Types` and `Claimed`. `ClaimsExact` counts; the invariant says the same with sets, as no step changes counts of sets directly: the
  pool names a worker once, two goroutines never hold the same one, none is in both places, and it is somewhere exactly when it waits or
  has stopped. Theorems `TypeCorrect` and `ClaimsCorrect`, for either meaning of the loop variable.
* With `LoopVar = "perIteration"`, three more parts: `Captured` (the variable a goroutine captured holds one whole job, and what it has
  loaded is of that job), `Way` (a job that was submitted is in one place: the queue, the dispatcher's hand or
  one goroutine) and `Running` (which worker runs it). Theorem `NoneLost` is what run `pool_shared_var` refutes for the other meaning;
  `ServiceImplemented` is the refinement: `Enqueue`, `Send` and `Complete` are the steps of `JobService`, all others stutter.

`GoProgramsProofs`, `CondBuffer` for any number of goroutines and any PRODUCTS:

* `Ranges`: `TypeOK` and `DoneIsHeard` (nobody waits once production is over), from `CountInv` (`done` exactly when all is made).
* `NobodySleepsForEver`: `NotAllAsleep`, if there are at most `2 * PRODUCTS` goroutines. The invariant
  `SomebodyAwake` is a disjunction over where the stock was last, at zero (`Rising`) or full
  (`Falling`). On the way up no producer falls asleep and each Produce wakes one sleeper, so
  sleepers and stock together stay below the number of goroutines; when the stock is full,
  fewer than `PRODUCTS` are then left asleep, and as the way down wakes `PRODUCTS` again,
  the consumers cannot all sleep through it. The same holds with the sides exchanged.
  The arithmetic is in `ProduceBalances`, `ConsumeBalances` and `WaitBalances`, over numbers; `SleepCount` and
  `SignalCount` tie the numbers to the sets of sleepers.

The other programs of `MCGoPrograms`:

* `SleepersCorrect`: `SleepersAreSurplus` of `TaskQueue`, for any number of producers, consumers and items and any pauses. It is inductive with the
  types and with `WaitersRested` (who waits does not owe a pause, so that it can take an item as soon as it is woken), in `QueueInv`: a Produce adds an item and wakes
  a sleeper if there is one; a consumer that takes an item takes itself off the idle ones with it; one falls asleep only at an empty queue, and Terminated wakes all.
  The counting is in terms of the set of idle consumers (`Idling`, `OneMoreIdle`, `OneLessIdle`).
* `TypesCorrect`: all four programs keep their types. A step of one leaves the variables of the others alone, so a behaviour
  of `MCSpec` is one of each (`FourPrograms`).

`ThreadsProofs`. `PrethreadedEcho`, for any number of clients, lines, threads, descriptors and slots: the invariant is built in layers, each
proved from the ones below:

* `Types`: what the variables hold, without the bounds of the semaphores.
* `Counter`: `CountIsExact` needs that one thread at a time is in init_echo_cnt, and that nobody is past `Pthread_once`
  before it (`Once`), and that the mutex is 0 exactly while one thread is between its P and V (`Exclusion`): the loaded
  value is then still the current one when it is stored. Theorem `CounterExact`.
* `Locked`: the same for the buffer's mutex, between main and the threads.
* `Sems`: `SemaphoresAreExact` with `rear - front` between 0 and `size`. The counts of threads between P and V
  change by one as one thread moves on. Theorem `SemaphoresCorrect`.
* `Handed`: `HandedToOneThread`, with the entries of the buffer distinct (`Distinct`) and the threads that have no
  connection at a place where they need none (`Idleness`). An insert puts the descriptor where no waiting one is,
  since `rear - front < size`; a remove takes the oldest. Theorem `HandedCorrectly`.
* `EchoedTypes`: what is written back was read before (`ReadBefore`), which completes `TypeCorrect`.

For the refinement, `Table` (a descriptor stands for an open connection, and each open
connection has one descriptor) and `Echoes` (what has come back to a client is exactly what was read from it, up to the line its thread is about
to write) are invariants on top of the above. Every step of the program is then a step of `EchoService` or a stutter: accept opens a
connection, a write echoes the next halves of a line, `Close` comes when everything is echoed. The abstract bound `maxOpen` needs
that descriptors and open connections are equally many (`SameCardinality` relates the two modules' notions of
it). Theorem `ServiceImplemented`.

`ParallelSum`, for arrays of any length, a long of any width and any limit on the elements that `SumAssumption` allows. The verdict is about a sum over
threads that run in any order, and no induction over data is available; the invariant `SumInv` has it in a form that a step changes in one place:

* `SumOrder`: the types; `Many`, the number of threads that there will be, which is zero for a negative argument; main creates the threads in order and goes on when they are done; a thread's argument is its own number
  although main goes on filling the array (`ThreadsInOrder`); between P and V is one thread at most, and only in psum-mutex.c (`MutexInOrder`).
* `SumExact`, for accepted numbers of elements: every thread is within its share and has been through it when it is done (`DealtOut`). `Part(t)` is twice the sum
  of the elements thread t is through with, a difference of two products. A cell, or at the end the local variable, holds its thread's part
  (`CellsExact`); twice `gsum` is the last value of a function `F` with `F[t + 1] = F[t] + Part(t)`, and the register of the one thread between load
  and store is `gsum` (`GlobalExact`); `ResultExact` is the same for main's own loop. No sum on the way wraps, since all the elements together fit (`Totals`).
* `Telescope` takes the place of the induction: of two functions of which one grows by less at each step, it stays below the other, as there would be a
  least index where it does not. With `F` and the products themselves this gives the total, once all threads are done.
* Theorem `VerdictCorrect` (`VerdictIsRight`); with `TypeCorrect` above, `TypesCorrect`.

`EchoServersProofs`, for any number of clients, lines and descriptors, all four programs at once:

* `IInv`: the types; `Places` (where main and the flows can be in which program); `Blocks` (a heap block in use
  belongs to main or to one thread; there are more blocks than clients, so
  Malloc finds a free one by the pigeonhole principle); `Table` (every open connection has exactly one descriptor, below the limit;
  the parent of echo2 has only the one at hand); `Owns` (a flow holds its own client's descriptor, and so does the block of
  a thread that has still to load it); `Progress` (what has come back to a client is what was read from it, up to the line its flow is about to write);
  `Children` (a child runs from fork to exit); and `NoZombieForgotten` itself.
* `TypeCorrect`, `HandedOver` and `ChildrenReaped` follow; `ServiceImplemented` maps accept, write and close to
  the steps of `EchoService`. For `maxOpen`, descriptors and open connections are put in bijection.

`EchoPoolProofs`, for any number of clients and any FD_SETSIZE above the listener:

* `Books` is `PoolIsExact` in terms of functions: the occupied slots, the bits of `read_set` and the descriptors in use are in bijection.
  A free slot is there when accept has given out a descriptor, since there are more slots than descriptors. Theorem `PoolCorrect`.
* `Pass`: within a round, `nready` is the number of the ready slots still to visit (`Todo`), one more while the listener is not yet
  dealt with, and every one of them still has something to read: only its own visit takes input away or closes it. A client added in the round is in no ready
  set. Theorems `CountCorrect` and `ReadsCorrect`. Theorem `TypeCorrect` rests on these two: the number that is counted down stays at
  zero or above, and a line read is one that was sent.
* `TypesCorrect`, `EventsCorrect` and `EdgesCorrect` are the properties of the run, that is of both of its programs; those of `EpollServer`
  are proved in the next module.

`EpollServerProofs`, for any number of clients, descriptors and events in a batch:

* `Queues`: no descriptor is twice in epoll's queue, nor in the batch, and only watched ones are there. A queue is a sequence of which the proof
  needs the range and that its elements are distinct; lemmas say what an append, a removal and a cut in two do to both.
* `Table`: descriptors, open connections and the interest list agree, but for the connection main is about to add. `Place`: what main is at is the first
  event of the batch.
* `Current` and `Kept`: a descriptor is in the queue or the batch (`Due`) only if there is something to read, or main has just read it, and it is there whenever there
  is something to read, or main is about to add it. Closing takes a descriptor out of the queue, and it is not in the rest of the batch as its one event is in main's
  hands: so a connection that gets the same descriptor inherits nothing. Theorems `EventsCorrect` and `EdgesCorrect`.

`TinyWebProofs`, for files of any size, any INT_MAX and any URIs. The invariant says what holds at each place of a request: what stat has
said (`FileInv`), what the request line was (`RequestInv`), which descriptors, mapping and child are held
(`HeldInv`), what has been written (`OutInv`), and why the server has ended where it is (`Why`). Theorems `WholeResponses`, `LengthsKept`, `ReasonedEnds`;
with a clause per variable on top, `TypeCorrect`.

All invariants that the runs check and the refinements (`RunsJobsOnce`, and `KeepsThePromise` of both its implementations) are proved. Only
model-checked are the liveness properties (`CondEnds`, `JobsAreRun`, `RequestsAreAnswered`, `LeaversAreRemoved`, `HangUpIsAnswered`, `StdinIsWorkedOff`, `EverybodyHasATurn`,
`EverybodyIsAnswered`, `EveryClientIsServed`): fairness and ENABLED are out of the prover's reach. No module has a
RECURSIVE operator.

A caution for whoever adds to the proofs: once `Len` or `Seq` occurs in an obligation, the SMT encoding of tlapm 1.4.5 takes
`DOMAIN x = 1..Len(x)` to hold of every value, which is true of sequences only. A hypothesis such as `v \in [0..Len(s) -> S]` then proves
anything. No proof here leans on it: every obligation was also discharged with that axiom replaced by the half that is true, that `Len(x) = n` if
`DOMAIN x = 1..n`. A new leaf that has both a sequence and a function on a range of numbers deserves the same.

## 12. Not modelled

* The chat protocol's reader and writer, the client and the TUI. A sequential parser of one stream; a
  goroutine that hands messages to one channel; widgets of a third-party library. `ChatServer` sees whole commands
  and peers that read, stop reading, hang up and break.
* The channel pipeline (main1.go), the programs with timeouts and print in order: exercises on one or two
  channels, with little or no choice left to the scheduler.
* `TcpChatServer.Send`, which nothing calls.
* Log and terminal output, except where it becomes part of something else (the log in a child's buffer of `TinyWeb`,
  `eaten` in `CondBuffer`).
* Text that is longer than the buffers of tinyweb.c, where the program's behaviour is undefined; what a program does after it has overrun an
  array (`ParallelSum`).
* Failures of memory, of fork and of thread creation.
* The bodies of the csapp wrappers, of rio, `echo()` and sbuf, which the repository does not have.
