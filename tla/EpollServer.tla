---------------------------- MODULE EpollServer -----------------------------
(***************************************************************************)
(* The epoll server and its client: socket_program/linux/server.c and      *)
(* client.c.  The server takes new connections from a level-triggered      *)
(* listener and reads each connection once, when its edge-triggered event  *)
(* comes; it answers, and closes.  Neither program looks at a result.      *)
(*                                                                         *)
(* The kernel is external: TCP, which may deliver a message in two pieces, *)
(* and epoll, a queue of what is ready.                                    *)
(***************************************************************************)
EXTENDS Integers, Sequences, FiniteSets, SequencesExt, FiniteSetsExt

CONSTANTS
  Clients,    \* client processes
  Nobody,     \* no client
  Fds,        \* the descriptors left for connections
  Limits,     \* the values that nofile may have
  MAX_EVENTS  \* 10: events that epoll_wait returns at most

server_fd == 0

\* Descriptors of connections are positive: server_fd is none of them.
EpollAssumption ==
  Nobody \notin Clients /\ Fds \subseteq Nat \ {server_fd} /\ MAX_EVENTS \in Nat \ {0}

VARIABLES
  pc,      \* per client process: where it is
  got,     \* the client has read the answer
  conn,    \* per connection: "none", "backlog", "open" or "closed"
  flight,  \* the pieces of its message on the way
  inq,     \* those that have arrived and are not read
  took,    \* those the server has read
  end,     \* "no", "eof" or "reset": what the client's end has done
  answer,  \* the answer has been sent
  rst,     \* the server's end has sent a reset
  up,      \* the server has not been killed by a signal
  at,      \* where the server is
  nofile,  \* its limit of descriptors
  fds,     \* its descriptors
  watched, \* the descriptors in epoll_fd
  ready,   \* epoll's queue
  events,  \* what is left of the last epoll_wait
  client_fd

tcp == <<conn, flight, inq, took, end, answer, rst>>
server == <<up, at, nofile, fds, watched, events, client_fd>>
vars == <<pc, got, tcp, ready, server>>

Init ==
  /\ pc = [c \in Clients |-> "connect"] /\ got = [c \in Clients |-> FALSE]
  /\ conn = [c \in Clients |-> "none"]
  /\ flight = [c \in Clients |-> 0] /\ inq = [c \in Clients |-> 0]
  /\ took = [c \in Clients |-> 0]
  /\ end = [c \in Clients |-> "no"] /\ answer = [c \in Clients |-> FALSE]
  /\ rst = [c \in Clients |-> FALSE]
  /\ up = TRUE /\ at = "wait"
  /\ nofile \in Limits /\ fds = [f \in Fds |-> Nobody]
  /\ watched = {server_fd} /\ ready = <<>> /\ events = <<>> /\ client_fd = -1

-----------------------------------------------------------------------------
(* epoll.                                                                  *)

Backlog == {c \in Clients : conn[c] = "backlog"}
Readable(c) == inq[c] > 0 \/ end[c] # "no"
Free == {f \in Fds : fds[f] = Nobody /\ f < nofile}

\* Nothing is in the queue twice.
Queued(f) == IF f \in Range(ready) THEN ready ELSE Append(ready, f)

\* Something happens on c's connection: an edge, if the server watches it.
Edge(c) ==
  ready' = IF \E f \in Fds : fds[f] = c /\ f \in watched
           THEN Queued(CHOOSE f \in Fds : fds[f] = c) ELSE ready

-----------------------------------------------------------------------------
(* client.c, and the way of its message.                                   *)

\* With no server to listen the connection is refused, and the first send
\* raises SIGPIPE.
Connect(c) ==
  /\ pc[c] = "connect"
  /\ IF up
     THEN /\ pc' = [pc EXCEPT ![c] = "send"]
          /\ conn' = [conn EXCEPT ![c] = "backlog"]
          /\ ready' = Queued(server_fd)
     ELSE /\ pc' = [pc EXCEPT ![c] = "killed"]
          /\ UNCHANGED <<conn, ready>>
  /\ UNCHANGED <<got, flight, inq, took, end, answer, rst, server>>

Send(c) ==
  /\ pc[c] = "send"
  /\ pc' = [pc EXCEPT ![c] = "read"]
  /\ flight' = [flight EXCEPT ![c] = 2]
  /\ UNCHANGED <<got, conn, inq, took, end, answer, rst, ready, server>>

\* A piece that reaches a closed socket is answered with a reset.
Arrive(c) ==
  /\ \E k \in 1..flight[c] :
       /\ flight' = [flight EXCEPT ![c] = @ - k]
       /\ IF up /\ conn[c] # "closed"
          THEN /\ inq' = [inq EXCEPT ![c] = @ + k]
               /\ Edge(c)
               /\ UNCHANGED rst
          ELSE rst' = [rst EXCEPT ![c] = TRUE] /\ UNCHANGED <<inq, ready>>
  /\ UNCHANGED <<pc, got, conn, took, end, answer, server>>

\* read: the answer; or nothing, as there is a reset or the server's end is
\* closed without an answer.
Receive(c) ==
  /\ pc[c] = "read"
  /\ \/ answer[c] /\ got' = [got EXCEPT ![c] = TRUE]
     \/ /\ rst[c] \/ ~up \/ (conn[c] = "closed" /\ ~answer[c])
        /\ UNCHANGED got
  /\ pc' = [pc EXCEPT ![c] = "done"]
  /\ end' = [end EXCEPT ![c] = "eof"]
  /\ Edge(c)
  /\ UNCHANGED <<conn, flight, inq, took, answer, rst, server>>

\* A client may be killed at any time; if it is its machine that has failed
\* the connection ends with a reset.
Killed(c) ==
  /\ pc[c] \in {"send", "read"}
  /\ pc' = [pc EXCEPT ![c] = "killed"]
  /\ \E e \in {"eof", "reset"} : end' = [end EXCEPT ![c] = e]
  /\ flight' = [flight EXCEPT ![c] = 0]
  /\ Edge(c)
  /\ UNCHANGED <<got, conn, inq, took, answer, rst, server>>

-----------------------------------------------------------------------------
(* server.c.                                                               *)

\* What is ready, or a part of it: the listener as long as somebody waits,
\* which then stays in the queue, and connections that have had an edge.
Wait ==
  /\ up /\ at = "wait"
  /\ LET rdy == IF Backlog = {} THEN RemoveFirst(ready, server_fd) ELSE ready
     IN \E k \in 1..Min({Len(rdy), MAX_EVENTS}) :
          LET rest == SubSeq(rdy, k + 1, Len(rdy)) IN
            /\ events' = SubSeq(rdy, 1, k)
            /\ ready' = IF server_fd \in Range(events') THEN Append(rest, server_fd)
                        ELSE rest
  /\ at' = "event"
  /\ UNCHANGED <<pc, got, tcp, up, nofile, fds, watched, client_fd>>

\* Out of descriptors accept returns -1, and epoll_ctl fails with it.
Accept ==
  /\ up /\ at = "event" /\ events # <<>> /\ Head(events) = server_fd
  /\ \/ /\ Free # {}
        /\ \E c \in Backlog :
             /\ conn' = [conn EXCEPT ![c] = "open"]
             /\ fds' = [fds EXCEPT ![Min(Free)] = c]
        /\ client_fd' = Min(Free)
     \/ /\ Free = {}
        /\ client_fd' = -1
        /\ UNCHANGED <<conn, fds>>
  /\ at' = "add"
  /\ UNCHANGED <<pc, got, flight, inq, took, end, answer, rst, ready, up, nofile, watched,
                 events>>

\* The next event of the batch.
MutBreak == <<>>
NextEvents == Tail(events)

\* EPOLL_CTL_ADD sees what has come before it.
MutWritableToo(f) == Queued(f)
AfterAdd(f) == IF Readable(fds[f]) THEN Queued(f) ELSE ready

Add ==
  /\ up /\ at = "add"
  /\ watched' = IF client_fd \in Fds THEN watched \cup {client_fd} ELSE watched
  /\ ready' = IF client_fd \in Fds THEN AfterAdd(client_fd) ELSE ready
  /\ events' = NextEvents
  /\ at' = "event"
  /\ UNCHANGED <<pc, got, tcp, up, nofile, fds, client_fd>>

\* The connection of the event at hand.
Served == fds[Head(events)]

Read ==
  /\ up /\ at = "event" /\ events # <<>> /\ Head(events) # server_fd
  /\ Readable(Served)
  /\ took' = [took EXCEPT ![Served] = inq[Served]]
  /\ inq' = [inq EXCEPT ![Served] = 0]
  /\ at' = "send"
  /\ UNCHANGED <<pc, got, conn, flight, end, answer, rst, ready, up, nofile, fds, watched,
                 events, client_fd>>

\* A send on a connection that was reset raises SIGPIPE.
Reply ==
  /\ up /\ at = "send"
  /\ IF end[Served] = "reset"
     THEN up' = FALSE /\ UNCHANGED <<answer, at>>
     ELSE answer' = [answer EXCEPT ![Served] = TRUE] /\ at' = "close" /\ UNCHANGED up
  /\ UNCHANGED <<pc, got, conn, flight, inq, took, end, rst, ready, nofile, fds, watched,
                 events, client_fd>>

MutLeftOpen == fds
WithoutServed == [fds EXCEPT ![Head(events)] = Nobody]

\* Close takes the descriptor out of epoll.  What was not read is answered
\* with a reset.
Close ==
  /\ up /\ at = "close"
  /\ conn' = [conn EXCEPT ![Served] = "closed"]
  /\ rst' = [rst EXCEPT ![Served] = inq[Served] > 0]
  /\ fds' = WithoutServed
  /\ watched' = watched \ {Head(events)}
  /\ ready' = RemoveFirst(ready, Head(events))
  /\ events' = NextEvents
  /\ at' = "event"
  /\ UNCHANGED <<pc, got, flight, inq, took, end, answer, up, nofile, client_fd>>

Again ==
  /\ up /\ at = "event" /\ events = <<>>
  /\ at' = "wait"
  /\ UNCHANGED <<pc, got, tcp, ready, up, nofile, fds, watched, events, client_fd>>

-----------------------------------------------------------------------------
ServerStep == Wait \/ Accept \/ Add \/ Read \/ Reply \/ Close \/ Again
ClientStep(c) == Connect(c) \/ Send(c) \/ Arrive(c) \/ Receive(c)

Next == ServerStep \/ \E c \in Clients : ClientStep(c) \/ Killed(c)

Spec == Init /\ [][Next]_vars

-----------------------------------------------------------------------------
\* Types: what the variables hold.
TypeOK ==
  /\ pc \in [Clients -> {"connect", "send", "read", "done", "killed"}]
  /\ got \in [Clients -> BOOLEAN]
  /\ conn \in [Clients -> {"none", "backlog", "open", "closed"}]
  /\ flight \in [Clients -> 0..2] /\ inq \in [Clients -> 0..2] /\ took \in [Clients -> 0..2]
  /\ end \in [Clients -> {"no", "eof", "reset"}]
  /\ answer \in [Clients -> BOOLEAN] /\ rst \in [Clients -> BOOLEAN]
  /\ up \in BOOLEAN /\ at \in {"wait", "event", "add", "send", "close"}
  /\ nofile \in Limits /\ fds \in [Fds -> Clients \cup {Nobody}]
  /\ watched \in SUBSET (Fds \cup {server_fd})
  /\ Range(ready) \subseteq watched /\ Range(events) \subseteq watched
  /\ client_fd \in Fds \cup {-1}

\* The events that main has still to look at.
Ahead == IF at \in {"send", "close", "add"} THEN Tail(events) ELSE events

\* An event is for the connection that is open under its descriptor when main
\* gets to it, and that has input: although the batch is worked off one by
\* one, descriptors are closed and accept gives them out again.  So the read
\* of a blocking socket never blocks.
EventsAreCurrent ==
  \A k \in 1..Len(Ahead) :
    LET f == Ahead[k] IN f # server_fd => fds[f] # Nobody /\ Readable(fds[f])

\* With edge-triggered events whatever is missed once is missed for ever: an
\* open connection that has something to read is on its way to being read, in
\* epoll's queue, in the batch or in main's hands.
NoEdgeIsLost ==
  up => \A c \in Clients :
    conn[c] = "open" =>
      \E f \in Fds :
        /\ fds[f] = c
        /\ \/ f \in watched
           \/ at = "add" /\ client_fd = f
        /\ Readable(c) =>
             \/ f \in Range(ready) \cup Range(events)
             \/ at = "add" /\ client_fd = f

\* Every client.c that runs to its end has its answer, even when descriptors
\* have run out for a while; unless its message came in two pieces, of which
\* the server read one, or a client that was reset took the server along.
EverybodyIsAnswered ==
  \A c \in Clients :
    (pc[c] = "read") ~> (got[c] \/ pc[c] = "killed" \/ took[c] = 1 \/ ~up)
=============================================================================
