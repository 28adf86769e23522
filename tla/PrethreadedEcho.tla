-------------------------- MODULE PrethreadedEcho ---------------------------
(***************************************************************************)
(* The prethreaded echo server: csapp/echo/echo6_echoserverpre.c (main and *)
(* its threads), echo6_echocnt.c (echo_cnt) and sbuf.h (the buffer of      *)
(* connected descriptors between them).                                    *)
(*                                                                         *)
(* sbuf.h declares the buffer and says what its fields are for; the bodies *)
(* of sbuf_insert and sbuf_remove are not in the repository and are taken  *)
(* from these comments.  A semaphore is a natural number.                  *)
(***************************************************************************)
EXTENDS EchoNet

CONSTANTS
  NTHREADS,  \* the number of threads
  Sizes,     \* the values that SBUFSIZE may have
  Limits     \* the values that nofile may have

ASSUME PrethreadedAssumption ==
  /\ NTHREADS \in Nat \ {0}
  /\ Sizes \subseteq Nat \ {0} /\ Limits \subseteq Nat

Threads == 1..NTHREADS

VARIABLES
  up,        \* the server has not died of an error
  nofile,    \* its limit of descriptors
  fds,       \* the descriptors of the process
  at, connfd,                               \* main
  size, buf, front, rear,                   \* sbuf; size: its n, SBUFSIZE
  sbufmutex, slots, items,                  \* the semaphores of sbuf
  pc, fd, n, seen,                          \* per thread; seen: byte_cnt as loaded
  once, mutex, byte_cnt,                    \* the static variables of echo_cnt
  counted    \* history: the halves that threads have counted

process == <<up, nofile, fds>>
mainvars == <<at, connfd>>
sbuf == <<size, buf, front, rear, sbufmutex, slots, items>>
counter == <<once, mutex, byte_cnt, counted>>
threads == <<pc, fd, n, seen>>
vars == <<net, process, mainvars, sbuf, threads, counter>>

\* sbuf_init, and the loop that makes the threads.  mutex is in static
\* storage: zero until init_echo_cnt.
Init ==
  /\ NetInit
  /\ up = TRUE /\ nofile \in Limits /\ fds = NoFds
  /\ at = "accept" /\ connfd = 0
  /\ size \in Sizes /\ buf = [k \in 0..(size - 1) |-> 0] /\ front = 0 /\ rear = 0
  /\ sbufmutex = 1 /\ slots = size /\ items = 0
  /\ pc = [t \in Threads |-> "items"] /\ fd = [t \in Threads |-> 0]
  /\ n = [t \in Threads |-> 0] /\ seen = [t \in Threads |-> 0]
  /\ once = "no" /\ mutex = 0 /\ byte_cnt = 0 /\ counted = 0

-----------------------------------------------------------------------------
(* main: accept, and sbuf_insert.                                          *)

Available == {f \in Free(fds) : f < nofile}

Accept(c) ==
  /\ up /\ at = "accept" /\ conn[c] = "backlog"
  /\ \E f \in Available :
       /\ \A g \in Available : f <= g
       /\ fds' = [fds EXCEPT ![f] = c]
       /\ connfd' = f
  /\ conn' = [conn EXCEPT ![c] = "open"]
  /\ at' = "slots"
  /\ UNCHANGED <<sent, end, taken, echoed, up, nofile, sbuf, threads, counter>>

AcceptFails ==
  /\ up /\ at = "accept" /\ Backlog # {} /\ Available = {}
  /\ up' = FALSE
  /\ UNCHANGED <<net, nofile, fds, mainvars, sbuf, threads, counter>>

MutNoSlot == slots >= 0
SlotFree == slots > 0

InsertP ==
  /\ up /\ at = "slots" /\ SlotFree
  /\ slots' = slots - 1
  /\ at' = "lock"
  /\ UNCHANGED <<net, process, connfd, size, buf, front, rear, sbufmutex, items,
                 threads, counter>>

InsertLock ==
  /\ up /\ at = "lock" /\ sbufmutex > 0
  /\ sbufmutex' = sbufmutex - 1
  /\ at' = "put"
  /\ UNCHANGED <<net, process, connfd, size, buf, front, rear, slots, items,
                 threads, counter>>

\* "buf[rear%n] is last item"
Insert ==
  /\ up /\ at = "put"
  /\ rear' = rear + 1
  /\ buf' = [buf EXCEPT ![(rear + 1) % size] = connfd]
  /\ sbufmutex' = sbufmutex + 1
  /\ at' = "items"
  /\ UNCHANGED <<net, process, connfd, size, front, slots, items, threads, counter>>

InsertV ==
  /\ up /\ at = "items"
  /\ items' = items + 1
  /\ at' = "accept" /\ connfd' = 0
  /\ UNCHANGED <<net, process, size, buf, front, rear, sbufmutex, slots, threads,
                 counter>>

-----------------------------------------------------------------------------
(* The threads: sbuf_remove.                                               *)

At(t, p) == up /\ pc[t] = p
Goes(t, p) == pc' = [pc EXCEPT ![t] = p]

RemoveP(t) ==
  /\ At(t, "items") /\ items > 0
  /\ items' = items - 1
  /\ Goes(t, "lock")
  /\ UNCHANGED <<net, process, mainvars, size, buf, front, rear, sbufmutex, slots,
                 fd, n, seen, counter>>

RemoveLock(t) ==
  /\ At(t, "lock") /\ sbufmutex > 0
  /\ sbufmutex' = sbufmutex - 1
  /\ Goes(t, "get")
  /\ UNCHANGED <<net, process, mainvars, size, buf, front, rear, slots, items, fd,
                 n, seen, counter>>

\* "buf[(front+1)%n] is first item"
MutFirst == front % size
First == (front + 1) % size

Remove(t) ==
  /\ At(t, "get")
  /\ front' = front + 1
  /\ fd' = [fd EXCEPT ![t] = buf[First]]
  /\ sbufmutex' = sbufmutex + 1
  /\ Goes(t, "slots")
  /\ UNCHANGED <<net, process, mainvars, size, buf, rear, slots, items, n, seen,
                 counter>>

MutNotGiven == slots
Given == slots + 1

RemoveV(t) ==
  /\ At(t, "slots")
  /\ slots' = Given
  /\ Goes(t, "once")
  /\ UNCHANGED <<net, process, mainvars, size, buf, front, rear, sbufmutex, items,
                 fd, n, seen, counter>>

-----------------------------------------------------------------------------
(* The threads: echo_cnt and Close.                                        *)

\* Pthread_once: the first thread runs init_echo_cnt, and the others wait
\* until it has.
MutAlways == TRUE
NotYet == once = "no"

OnceFirst(t) ==
  /\ At(t, "once") /\ NotYet
  /\ once' = "running"
  /\ Goes(t, "init")
  /\ UNCHANGED <<net, process, mainvars, sbuf, fd, n, seen, mutex, byte_cnt,
                 counted>>

InitEchoCnt(t) ==
  /\ At(t, "init")
  /\ mutex' = 1 /\ byte_cnt' = 0
  /\ once' = "done"
  /\ Goes(t, "read")
  /\ UNCHANGED <<net, process, mainvars, sbuf, fd, n, seen, counted>>

OnceAgain(t) ==
  /\ At(t, "once") /\ once = "done"
  /\ Goes(t, "read")
  /\ UNCHANGED <<net, process, mainvars, sbuf, fd, n, seen, counter>>

Client(t) == IF fd[t] \in Fds THEN fds[fd[t]] ELSE Nobody

Read(t) ==
  /\ At(t, "read") /\ Client(t) # Nobody
  /\ \E k \in LineResults(Client(t)) :
       /\ taken' = [taken EXCEPT ![Client(t)] = @ + k]
       /\ n' = [n EXCEPT ![t] = k]
       /\ Goes(t, IF k = 0 THEN "close" ELSE "P")
  /\ UNCHANGED <<conn, sent, end, echoed, process, mainvars, sbuf, fd, seen,
                 counter>>

Lock(t) ==
  /\ At(t, "P") /\ mutex > 0
  /\ mutex' = mutex - 1
  /\ Goes(t, "load")
  /\ UNCHANGED <<net, process, mainvars, sbuf, fd, n, seen, once, byte_cnt,
                 counted>>

\* byte_cnt += n is a load and a store.
Load(t) ==
  /\ At(t, "load")
  /\ seen' = [seen EXCEPT ![t] = byte_cnt]
  /\ Goes(t, "store")
  /\ UNCHANGED <<net, process, mainvars, sbuf, fd, n, counter>>

Store(t) ==
  /\ At(t, "store")
  /\ byte_cnt' = seen[t] + n[t] /\ counted' = counted + n[t]
  /\ seen' = [seen EXCEPT ![t] = 0]
  /\ Goes(t, "V")
  /\ UNCHANGED <<net, process, mainvars, sbuf, fd, n, once, mutex>>

Unlock(t) ==
  /\ At(t, "V")
  /\ mutex' = mutex + 1
  /\ Goes(t, "write")
  /\ UNCHANGED <<net, process, mainvars, sbuf, fd, n, seen, once, byte_cnt,
                 counted>>

MutRepeat(lo, hi) == Halves(lo, lo + 1)
Echoed(lo, hi) == Halves(lo, hi)

Write(t) ==
  /\ At(t, "write") /\ Client(t) # Nobody
  /\ LET c == Client(t) IN
       echoed' = [echoed EXCEPT ![c] = @ \o Echoed(taken[c] - n[t], taken[c])]
  /\ n' = [n EXCEPT ![t] = 0]
  /\ Goes(t, "read")
  /\ UNCHANGED <<conn, sent, end, taken, process, mainvars, sbuf, fd, seen,
                 counter>>

Close(t) ==
  /\ At(t, "close") /\ Client(t) # Nobody
  /\ conn' = [conn EXCEPT ![Client(t)] = "closed"]
  /\ fds' = [fds EXCEPT ![fd[t]] = Nobody]
  /\ fd' = [fd EXCEPT ![t] = 0]
  /\ Goes(t, "items")
  /\ UNCHANGED <<sent, end, taken, echoed, up, nofile, mainvars, sbuf, n, seen,
                 counter>>

\* Whatever a thread's wrapper fails on ends the process.
Fails(t) ==
  /\ up /\ pc[t] \in {"read", "write", "close"}
  /\ Client(t) # Nobody => pc[t] # "close" /\ Broken(Client(t))
  /\ up' = FALSE
  /\ UNCHANGED <<net, nofile, fds, mainvars, sbuf, threads, counter>>

-----------------------------------------------------------------------------
MainStep ==
  \/ (\E c \in Clients : Accept(c)) \/ AcceptFails
  \/ InsertP \/ InsertLock \/ Insert \/ InsertV

ThreadStep(t) ==
  \/ RemoveP(t) \/ RemoveLock(t) \/ Remove(t) \/ RemoveV(t)
  \/ OnceFirst(t) \/ InitEchoCnt(t) \/ OnceAgain(t)
  \/ Read(t) \/ Lock(t) \/ Load(t) \/ Store(t) \/ Unlock(t) \/ Write(t)
  \/ Close(t) \/ Fails(t)

ClientMoves(c) ==
  /\ up /\ ClientStep(c)
  /\ UNCHANGED <<up, nofile, fds, mainvars, sbuf, threads, counter>>

Next ==
  \/ \E c \in Clients : ClientMoves(c)
  \/ MainStep
  \/ \E t \in Threads : ThreadStep(t)

Spec == Init /\ [][Next]_vars

\* The kernel runs every thread that can run.
FairSpec == Spec /\ WF_vars(MainStep) /\ \A t \in Threads : WF_vars(ThreadStep(t))

-----------------------------------------------------------------------------
\* Types: what the variables hold.
TypeOK ==
  /\ NetTypeOK
  /\ up \in BOOLEAN /\ nofile \in Limits
  /\ fds \in [Fds -> Clients \cup {Nobody}]
  /\ at \in {"accept", "slots", "lock", "put", "items"} /\ connfd \in Fds \cup {0}
  /\ size \in Sizes /\ buf \in [0..(size - 1) -> Fds \cup {0}]
  /\ front \in Nat /\ rear \in Nat
  /\ sbufmutex \in 0..1 /\ slots \in 0..size /\ items \in 0..size
  /\ pc \in [Threads -> {"items", "lock", "get", "slots", "once", "init", "read", "P",
                         "load", "store", "V", "write", "close"}]
  /\ fd \in [Threads -> Fds \cup {0}] /\ n \in [Threads -> 0..2]
  /\ seen \in [Threads -> Nat]
  /\ once \in {"no", "running", "done"} /\ mutex \in 0..1
  /\ byte_cnt \in Nat /\ counted \in Nat

\* The counter loses nothing: every line that a thread has counted is in
\* byte_cnt, although its update is a load and a store, and although the
\* counter and its mutex are set up by whichever thread comes first
\* (init_echo_cnt, echo_cnt).
CountIsExact == byte_cnt = counted

\* The descriptors on the way from accept to a thread.
Waiting == {buf[k % size] : k \in (front + 1)..rear}
InMain == {connfd : k \in {at} \cap {"slots", "lock", "put"}}
InThreads == {fd[t] : t \in Threads} \ {0}

\* Every open connection is in one place: with main, in the buffer or with
\* one thread.  None is lost, overwritten or handed to two threads, whatever
\* the interleaving and however often the indices have wrapped.
HandedToOneThread ==
  /\ Fds \ Free(fds) = Waiting \cup InMain \cup InThreads
  /\ Waiting \cap (InMain \cup InThreads) = {} /\ InMain \cap InThreads = {}
  /\ Cardinality(Waiting) = rear - front
  /\ \A t, u \in Threads : t # u => fd[t] = 0 \/ fd[t] # fd[u]

\* The threads that are past P(&items) and before V(&slots).
Claims(P) == Cardinality({t \in Threads : pc[t] \in P})

\* The semaphores count what the buffer holds: whoever passes one finds an
\* item, or room, and nobody waits while there is some.
SemaphoresAreExact ==
  /\ items + Claims({"lock", "get"}) = rear - front - (IF at = "items" THEN 1 ELSE 0)
  /\ slots + Claims({"slots"}) = size - (rear - front)
                                   - (IF at \in {"lock", "put"} THEN 1 ELSE 0)

\* How many connections the descriptors allow.
MaxOpen == Cardinality({f \in Fds : f < nofile})

\* The program is an echo service in one process: see EchoService.
Service == INSTANCE EchoService WITH shared <- TRUE, maxOpen <- MaxOpen

KeepsThePromise == Service!Spec

\* Provided that clients do hang up, the threads get round to all of them,
\* however many there are: whoever was accepted has its connection closed.
EveryClientIsServed ==
  (\A c \in Clients : (conn[c] = "open") ~> (end[c] # "no" \/ ~up))
    => \A c \in Clients : (conn[c] = "open") ~> (conn[c] = "closed" \/ ~up)
=============================================================================
