------------------------------ MODULE EchoPool ------------------------------
(***************************************************************************)
(* The echo server that multiplexes its clients with select in one thread: *)
(* csapp/echo/echo4.c.                                                     *)
(*                                                                         *)
(* The clients go on while the server works through a ready set, so the    *)
(* set grows old.  main calls check_clients and the function is called     *)
(* check_client, and DF_CLR stands for FD_CLR: they are taken for the same.*)
(***************************************************************************)
EXTENDS EchoNet

CONSTANTS
  FD_SETSIZE,  \* 1024: bits of a descriptor set, and slots of the pool
  LISTENFD     \* listenfd, the first descriptor after those of stdio

\* A process has FD_SETSIZE descriptors unless its limit was raised.
ASSUME PoolAssumption ==
  /\ LISTENFD \in Nat /\ FD_SETSIZE \in Nat /\ LISTENFD < FD_SETSIZE
  /\ Fds = (LISTENFD + 1)..(FD_SETSIZE - 1)

Slots == 0..(FD_SETSIZE - 1)

VARIABLES
  maxfd, read_set, ready_set, nready, maxi, clientfd, clientrio,  \* pool
  fds,     \* the descriptors of the process
  at,      \* "select", "accept", "check", "read", "write", or "exited"
  i,       \* the index of check_client's loop
  line     \* the halves in its buffer, from line[1] + 1 to line[2]

pool == <<maxfd, read_set, ready_set, nready, maxi, clientfd, clientrio>>
vars == <<net, pool, fds, at, i, line>>

\* init_pool.
Init ==
  /\ NetInit
  /\ maxi = -1 /\ maxfd = LISTENFD
  /\ clientfd = [s \in Slots |-> -1] /\ clientrio = [s \in Slots |-> 0]
  /\ read_set = {LISTENFD} /\ ready_set = {} /\ nready = 0
  /\ fds = NoFds
  /\ at = "select" /\ i = 0 /\ line = <<0, 0>>

-----------------------------------------------------------------------------
(* main.                                                                   *)

\* A read would not block: there is input, or an end of file or an error.
Readable(f) ==
  IF f = LISTENFD THEN Backlog # {}
  ELSE fds[f] # Nobody /\ (sent[fds[f]] > taken[fds[f]] \/ end[fds[f]] # "no")

\* select looks at the descriptors below its first argument, maxfd + 1.
MutOffByOne == {f \in read_set : f < maxfd}
Watched == {f \in read_set : f <= maxfd}

Select ==
  /\ at = "select"
  /\ ready_set' = {f \in Watched : Readable(f)}
  /\ ready_set' # {}
  /\ nready' = Cardinality(ready_set')
  /\ at' = IF LISTENFD \in ready_set' THEN "accept" ELSE "check"
  /\ i' = 0
  /\ UNCHANGED <<net, maxfd, read_set, maxi, clientfd, clientrio, fds, line>>

FreeSlots == {s \in Slots : clientfd[s] < 0}

MutMarkMoves(mark, k) == k
Raised(mark, k) == IF k > mark THEN k ELSE mark

\* The listener was one of the ready ones.
MutStillCounted == nready
MutCountedTwice == nready - 2
Uncounted == nready - 1

\* Rio_readinitb.
MutNotBound(s, connfd) == clientrio
Bound(s, connfd) == [clientrio EXCEPT ![s] = connfd]

\* Accept and add_client.
Accept(c) ==
  /\ at = "accept" /\ conn[c] = "backlog" /\ Free(fds) # {}
  /\ LET connfd == Min(Free(fds))
         s == Min(FreeSlots)
     IN /\ fds' = [fds EXCEPT ![connfd] = c]
        /\ clientfd' = [clientfd EXCEPT ![s] = connfd]
        /\ clientrio' = Bound(s, connfd)
        /\ read_set' = read_set \cup {connfd}
        /\ maxfd' = Raised(maxfd, connfd)
        /\ maxi' = Raised(maxi, s)
  /\ conn' = [conn EXCEPT ![c] = "open"]
  /\ nready' = Uncounted
  /\ at' = "check"
  /\ UNCHANGED <<sent, end, taken, echoed, ready_set, i, line>>

\* No descriptor is left: the wrapper ends the process.
AcceptFails ==
  /\ at = "accept" /\ Free(fds) = {}
  /\ at' = "exited"
  /\ UNCHANGED <<net, pool, fds, i, line>>

-----------------------------------------------------------------------------
(* check_client.                                                           *)

InLoop == at = "check" /\ i <= maxi /\ nready > 0
SlotReady == clientfd[i] > 0 /\ clientfd[i] \in ready_set

LoopEnds ==
  /\ at = "check" /\ ~(i <= maxi /\ nready > 0)
  /\ at' = "select"
  /\ UNCHANGED <<net, pool, fds, i, line>>

CheckReady ==
  /\ InLoop /\ SlotReady
  /\ nready' = nready - 1
  /\ at' = "read"
  /\ UNCHANGED <<net, maxfd, read_set, ready_set, maxi, clientfd, clientrio, fds, i, line>>

\* The else belongs to the outer if: it meets every slot that is not ready.
WithoutSlot == read_set \ {clientfd[i]}
Vacated == [clientfd EXCEPT ![i] = -1]

CheckOther ==
  /\ InLoop /\ ~SlotReady /\ clientfd[i] >= 0
  /\ conn' = [conn EXCEPT ![fds[clientfd[i]]] = "closed"]
  /\ fds' = [fds EXCEPT ![clientfd[i]] = Nobody]
  /\ read_set' = WithoutSlot
  /\ clientfd' = Vacated
  /\ i' = i + 1
  /\ UNCHANGED <<sent, end, taken, echoed, maxfd, ready_set, nready, maxi, clientrio,
                 at, line>>

\* In an empty slot that is Close(-1), which ends the process.
CheckEmpty ==
  /\ InLoop /\ clientfd[i] < 0
  /\ at' = "exited"
  /\ UNCHANGED <<net, pool, fds, i, line>>

Client == fds[clientrio[i]]

\* Rio_readlineb on a copy of the slot's buffer.  The copy is empty at first,
\* takes whatever the socket holds, gives up one line, and is dropped with
\* what it has read ahead.  At end of file nothing is done.
AfterRead(n) == IF n = 0 THEN "check" ELSE "write"

Read ==
  /\ at = "read"
  /\ \E n \in LineResults(Client) :
       /\ line' = <<taken[Client], taken[Client] + n>>
       /\ at' = AfterRead(n)
       /\ i' = IF n = 0 THEN i + 1 ELSE i
  /\ taken' = [taken EXCEPT ![Client] = sent[Client]]
  /\ UNCHANGED <<conn, sent, end, echoed, pool, fds>>

Write ==
  /\ at = "write"
  /\ echoed' = [echoed EXCEPT ![Client] = @ \o Halves(line[1], line[2])]
  /\ line' = <<0, 0>>
  /\ at' = "check" /\ i' = i + 1
  /\ UNCHANGED <<conn, sent, end, taken, pool, fds>>

Fails ==
  /\ at \in {"read", "write"} /\ Broken(Client)
  /\ at' = "exited"
  /\ UNCHANGED <<net, pool, fds, i, line>>

-----------------------------------------------------------------------------
ServerStep ==
  \/ Select \/ (\E c \in Clients : Accept(c)) \/ AcceptFails
  \/ LoopEnds \/ CheckReady \/ CheckOther \/ CheckEmpty
  \/ Read \/ Write \/ Fails

Next ==
  \/ \E c \in Clients : at # "exited" /\ ClientStep(c) /\ UNCHANGED <<pool, fds, at, i, line>>
  \/ ServerStep

Spec == Init /\ [][Next]_vars
FairSpec == Spec /\ WF_vars(ServerStep)

-----------------------------------------------------------------------------
\* Types: what the variables hold.
TypeOK ==
  /\ NetTypeOK
  /\ maxfd \in Fds \cup {LISTENFD} /\ maxi \in Slots \cup {-1}
  /\ read_set \in SUBSET (Fds \cup {LISTENFD})
  /\ ready_set \in SUBSET (Fds \cup {LISTENFD})
  /\ nready \in 0..(Cardinality(Fds) + 1)
  /\ clientfd \in [Slots -> Fds \cup {-1}] /\ clientrio \in [Slots -> Fds \cup {0}]
  /\ fds \in [Fds -> Clients \cup {Nobody}]
  /\ at \in {"select", "accept", "check", "read", "write", "exited"}
  /\ i \in 0..FD_SETSIZE
  /\ line \in (0..(2 * MaxLines)) \X (0..(2 * MaxLines))

Occupied == Slots \ FreeSlots

\* The three books on the clients agree, whatever was closed and whichever
\* descriptor and slot came to be used again: the occupied slots, the bits of
\* read_set and the open descriptors; and the high-water marks are above all
\* of them, so that neither select nor the loop leaves one out.  Descriptors
\* run out before slots do (add_client, check_client).
PoolIsExact ==
  /\ \A s, t \in Occupied : clientfd[s] = clientfd[t] => s = t
  /\ {clientfd[s] : s \in Occupied} = read_set \ {LISTENFD}
  /\ {clientfd[s] : s \in Occupied} = Fds \ Free(fds)
  /\ \A s \in Occupied : clientrio[s] = clientfd[s] /\ s <= maxi
  /\ \A f \in read_set : f <= maxfd
  /\ {c \in Clients : conn[c] = "open"} = {fds[f] : f \in Fds \ Free(fds)}
  /\ at = "accept" => FreeSlots # {}

\* nready counts the ready clients that the loop has still to visit, neither
\* more nor less, although slots are emptied in the meantime: the loop leaves
\* none of them out and does not go on when it has had them all.
NReadyIsExact ==
  LET first == IF at = "check" THEN i ELSE i + 1 IN
    at \in {"check", "read", "write"} =>
      nready = Cardinality({s \in Occupied : s >= first /\ clientfd[s] \in ready_set})

\* A ready set does not go stale: the client that is read from has something
\* to read, so only the rest of a line can hold the server up.
ReadsFindInput ==
  at = "read" => clientfd[i] = clientrio[i] /\ Readable(clientfd[i])

\* A client that has called, or has sent something that is not read.
Waits(c) == conn[c] = "backlog" \/ (conn[c] = "open" /\ sent[c] > taken[c])

\* main waits for the rest of a line that its client does not send.
HeldUp == at = "read" /\ LineResults(Client) = {}

\* Select has reported the client, and the round has still to come to its slot.
Selected(c) ==
  /\ at \in {"accept", "check", "read", "write"}
  /\ \E s \in Occupied : /\ s >= IF at = "write" THEN i + 1 ELSE i
                         /\ clientfd[s] \in ready_set /\ fds[clientfd[s]] = c

\* Nobody is left waiting for ever, unless half a line of somebody holds the
\* server up for ever or the server ends (no descriptor, a client that is gone,
\* Close(-1) in an empty slot): whoever calls is accepted; what a client has sent
\* is read, or the client is closed unread, as check_client does with one that
\* was not ready in a round (ClosedAtEofOnly); and a client that select has
\* reported is read from before it is closed.
EverybodyHasATurn ==
  []<>~HeldUp => \A c \in Clients :
    /\ Waits(c) ~> (~Waits(c) \/ at = "exited")
    /\ Selected(c) ~> ((conn[c] = "open" /\ taken[c] = sent[c]) \/ at = "exited")

\* "EOF detected, remove descriptor from pool": a connection is closed by the
\* server when its client has hung up, not before.
ClosedAtEofOnly ==
  [][\A c \in Clients : conn[c] = "open" /\ conn'[c] = "closed" => end[c] # "no"]_vars
=============================================================================
