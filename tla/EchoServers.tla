---------------------------- MODULE EchoServers -----------------------------
(***************************************************************************)
(* The echo servers that run echo() to the end of a connection:            *)
(* csapp/echo/echo1.c (one client at a time), echo2.c (a child process per *)
(* client), echo3.c (one client at a time, and commands from stdin) and    *)
(* echo5.c (a thread per client).  They differ in who calls echo, so       *)
(* `program` says which of them was started.                               *)
(*                                                                         *)
(* A flow is whoever runs echo for a connection: main, a child or a thread.*)
(***************************************************************************)
EXTENDS EchoNet

CONSTANTS
  Programs,  \* a subset of {"echo1", "echo2", "echo3", "echo5"}
  Limits,    \* the values that nofile may have
  MaxTyped   \* how many command lines the operator of echo3 may type (bound)

ASSUME ProgramsAssumption ==
  /\ Programs \subseteq {"echo1", "echo2", "echo3", "echo5"}
  /\ MaxTyped \in Nat /\ IsFiniteSet(Clients)
  /\ Limits \subseteq Nat /\ \A l \in Limits : \E f \in Fds : f < l

Cells == 1..(Cardinality(Clients) + 1)  \* heap blocks

VARIABLES
  program,
  up,       \* the server process has not died of an error
  nofile,   \* its limit of descriptors (RLIMIT_NOFILE)
  main,     \* where main is in its loop
  cur,      \* the client main has accepted last
  fds,      \* the descriptors of the server process
  flow,     \* per client: the flow that was made for it
  kid,      \* echo2, per client: its child, "none", "run", "zombie" or "reaped"
  sig,      \* echo2: SIGCHLD is pending
  handler,  \* echo2: "no", or where sigchld_handler is: "reap", "return"
  cell,     \* echo5: connfdp
  heap,     \* echo5: per block: Unused, 0 (uninitialised) or a descriptor
  ready,    \* echo3: ready_set
  console   \* echo3: lines typed, end of file, lines in stdin's buffer, executed

Unused == -1
NoFlow == [at |-> "none", fd |-> 0, cell |-> 0, n |-> 0]

loop == <<main, cur, cell, ready>>
children == <<kid, sig, handler>>
vars == <<net, program, up, nofile, loop, fds, flow, children, heap, console>>

\* The first statement of the loop.
LoopHead(p) ==
  CASE p = "echo3" -> "select" [] p = "echo5" -> "malloc" [] OTHER -> "accept"

Init ==
  /\ NetInit
  /\ program \in Programs /\ up = TRUE /\ nofile \in Limits
  /\ main = LoopHead(program) /\ cur = Nobody /\ cell = 0 /\ ready = {}
  /\ fds = NoFds
  /\ flow = [c \in Clients |-> NoFlow]
  /\ kid = [c \in Clients |-> "none"] /\ sig = FALSE /\ handler = "no"
  /\ heap = [k \in Cells |-> Unused]
  /\ console = [typed |-> 0, eof |-> FALSE, stdio |-> 0, done |-> 0]

-----------------------------------------------------------------------------
(* main.                                                                   *)

\* The descriptors that the kernel can still give out.
Available == {f \in Free(fds) : f < nofile}

\* While the handler runs, main does not.
MainRuns(at) == up /\ main = at /\ handler = "no"

\* Which free block Malloc takes makes no difference.
MutOneCell == 1
FreshCell == Min({k \in Cells : heap[k] = Unused})

Malloc ==
  /\ MainRuns("malloc")
  /\ cell' = FreshCell /\ heap' = [heap EXCEPT ![FreshCell] = 0]
  /\ main' = "accept"
  /\ UNCHANGED <<net, program, up, nofile, cur, ready, fds, flow, children,
                 console>>

\* echo3 calls Accept after the command, if select had reported the listener.
Accepting ==
  \/ MainRuns("accept")
  \/ MainRuns("dispatch") /\ ready = {"listen"}

Accept(c) ==
  /\ Accepting /\ conn[c] = "backlog" /\ Available # {}
  /\ conn' = [conn EXCEPT ![c] = "open"]
  /\ fds' = [fds EXCEPT ![Min(Available)] = c]
  /\ ready' = {}
  /\ \/ /\ program = "echo2" /\ main' = "fork" /\ cur' = c
        /\ UNCHANGED <<heap, flow>>
     \/ /\ program = "echo5" /\ main' = "create" /\ cur' = c
        /\ heap' = [heap EXCEPT ![cell] = Min(Available)]
        /\ UNCHANGED flow
     \/ /\ program \in {"echo1", "echo3"} /\ main' = "serving"
        /\ flow' = [flow EXCEPT ![c].at = "read", ![c].fd = Min(Available)]
        /\ UNCHANGED <<heap, cur>>
  /\ UNCHANGED <<sent, end, taken, echoed, program, up, nofile, cell, children,
                 console>>

\* No descriptor is left (EMFILE): the wrapper ends the process.
AcceptFails ==
  /\ Accepting /\ Backlog # {} /\ Available = {}
  /\ up' = FALSE
  /\ UNCHANGED <<net, program, nofile, loop, fds, flow, children, heap, console>>

\* Fork: from here on parent and child have the connection open.
Fork ==
  /\ MainRuns("fork")
  /\ kid' = [kid EXCEPT ![cur] = "run"]
  /\ flow' = [flow EXCEPT ![cur] = [NoFlow EXCEPT !.at = "start"]]
  /\ main' = "close"
  /\ UNCHANGED <<net, program, up, nofile, cur, cell, ready, fds, sig, handler,
                 heap, console>>

\* A connection ends when the last process that has it open closes it.
InParent(c) == \E f \in Fds : fds[f] = c
InChild(c) == kid[c] = "run" /\ flow[c].at # "exit"

MutNotClosed == fds
WithoutCur == [f \in Fds |-> IF fds[f] = cur THEN Nobody ELSE fds[f]]

ParentCloses ==
  /\ MainRuns("close")
  /\ fds' = WithoutCur
  /\ conn' = [conn EXCEPT ![cur] = IF InChild(cur) THEN "open" ELSE "closed"]
  /\ main' = LoopHead(program) /\ cur' = Nobody
  /\ UNCHANGED <<sent, end, taken, echoed, program, up, nofile, cell, ready, flow,
                 children, heap, console>>

\* Pthread_create: the new thread gets the block, not the descriptor.  As it
\* detaches itself nobody has to join it.
Create ==
  /\ MainRuns("create")
  /\ flow' = [flow EXCEPT ![cur] = [NoFlow EXCEPT !.at = "start", !.cell = cell]]
  /\ main' = LoopHead(program) /\ cur' = Nobody /\ cell' = 0
  /\ UNCHANGED <<net, program, up, nofile, ready, fds, children, heap, console>>

-----------------------------------------------------------------------------
(* echo3: select, and command().                                           *)

Unread == console.typed - console.done - console.stdio

Select ==
  /\ MainRuns("select")
  /\ ready' = {d \in {"stdin", "listen"} :
                 IF d = "stdin" THEN Unread > 0 \/ console.eof ELSE Backlog # {}}
  /\ ready' # {}
  /\ main' = "dispatch"
  /\ UNCHANGED <<net, program, up, nofile, cur, cell, fds, flow, children,
                 heap, console>>

\* Fgets takes a line of stdin's buffer, and fills the buffer when it is
\* empty, with one line or with several.
Fgets(k) == [console EXCEPT !.stdio = @ + k - 1, !.done = @ + 1]

\* It returns NULL at end of file, when the buffer is empty too.
NothingLeft == console.stdio = 0 /\ Unread = 0

\* command() then exits, and does not go back to the loop.
MutReturnAtEof == IF ready = {"stdin"} THEN "select" ELSE "dispatch"
AfterEof == "exited"

Command ==
  /\ MainRuns("dispatch") /\ "stdin" \in ready
  /\ ready' = ready \ {"stdin"}
  /\ \/ /\ console.stdio > 0
        /\ console' = Fgets(0)
        /\ main' = IF ready' = {} THEN LoopHead(program) ELSE main
     \/ /\ console.stdio = 0
        /\ \E k \in 1..Unread : console' = Fgets(k)
        /\ main' = IF ready' = {} THEN LoopHead(program) ELSE main
     \/ /\ NothingLeft
        /\ main' = AfterEof
        /\ UNCHANGED console
  /\ UNCHANGED <<net, program, up, nofile, cur, cell, fds, flow, children, heap>>

\* The operator.
Types ==
  /\ program = "echo3" /\ main # "exited" /\ ~console.eof
  /\ \/ /\ console.typed < MaxTyped
        /\ console' = [console EXCEPT !.typed = @ + 1]
     \/ console' = [console EXCEPT !.eof = TRUE]
  /\ UNCHANGED <<net, program, up, nofile, loop, fds, flow, children, heap>>

-----------------------------------------------------------------------------
(* echo(), and what a child and a thread do around it.                     *)

\* The connection that a flow's descriptor stands for.
Served(c) == IF program = "echo2" THEN c
             ELSE IF flow[c].fd \in Fds THEN fds[flow[c].fd] ELSE Nobody

At(c, at) == up /\ flow[c].at = at
GoesTo(c, at) == flow' = [flow EXCEPT ![c].at = at]

\* A child closes listenfd; a thread loads its descriptor out of the block.
Begin(c) ==
  /\ At(c, "start")
  /\ flow' = [flow EXCEPT ![c].at = IF program = "echo5" THEN "free" ELSE "read",
                          ![c].fd = IF program = "echo5" THEN heap[flow[c].cell] ELSE 0]
  /\ UNCHANGED <<net, program, up, nofile, loop, fds, children, heap, console>>

FreeCell(c) ==
  /\ At(c, "free")
  /\ heap' = [heap EXCEPT ![flow[c].cell] = Unused]
  /\ flow' = [flow EXCEPT ![c].at = "read", ![c].cell = 0]
  /\ UNCHANGED <<net, program, up, nofile, loop, fds, children, console>>

Read(c) ==
  /\ At(c, "read") /\ Served(c) # Nobody
  /\ \E n \in LineResults(Served(c)) :
       /\ taken' = [taken EXCEPT ![Served(c)] = @ + n]
       /\ flow' = [flow EXCEPT ![c].at = IF n = 0 THEN "close" ELSE "write", ![c].n = n]
  /\ UNCHANGED <<conn, sent, end, echoed, program, up, nofile, loop, fds,
                 children, heap, console>>

Write(c) ==
  /\ At(c, "write") /\ Served(c) # Nobody
  /\ LET d == Served(c) IN
       echoed' = [echoed EXCEPT ![d] = @ \o Halves(taken[d] - flow[c].n, taken[d])]
  /\ flow' = [flow EXCEPT ![c].at = "read", ![c].n = 0]
  /\ UNCHANGED <<conn, sent, end, taken, program, up, nofile, loop, fds,
                 children, heap, console>>

\* Close(connfd).  main goes back to its loop.
Close(c) ==
  /\ At(c, "close") /\ program # "echo2" /\ Served(c) # Nobody
  /\ conn' = [conn EXCEPT ![Served(c)] = "closed"]
  /\ fds' = [fds EXCEPT ![flow[c].fd] = Nobody]
  /\ flow' = [flow EXCEPT ![c].at = "done", ![c].fd = 0]
  /\ main' = IF main = "serving" THEN LoopHead(program) ELSE main
  /\ UNCHANGED <<sent, end, taken, echoed, program, up, nofile, cur, cell,
                 ready, children,
                 heap, console>>

ChildCloses(c) ==
  /\ At(c, "close") /\ program = "echo2"
  /\ conn' = [conn EXCEPT ![c] = IF InParent(c) THEN "open" ELSE "closed"]
  /\ GoesTo(c, "exit")
  /\ UNCHANGED <<sent, end, taken, echoed, program, up, nofile, loop, fds,
                 children, heap, console>>

ChildExits(c) ==
  /\ At(c, "exit")
  /\ kid' = [kid EXCEPT ![c] = "zombie"] /\ sig' = TRUE
  /\ GoesTo(c, "done")
  /\ UNCHANGED <<net, program, up, nofile, loop, fds, handler, heap, console>>

\* A read or write on a connection that is gone, or a descriptor that is not
\* open, ends the process, which is the child in echo2 and the server otherwise.
Fails(c) ==
  /\ flow[c].at \in {"read", "write", "close"} /\ up
  /\ Served(c) # Nobody => flow[c].at # "close" /\ Broken(Served(c))
  /\ \/ /\ program = "echo2"
        /\ conn' = [conn EXCEPT ![c] = IF InParent(c) THEN "open" ELSE "closed"]
        /\ GoesTo(c, "exit")
        /\ UNCHANGED up
     \/ /\ program # "echo2"
        /\ up' = FALSE
        /\ UNCHANGED <<conn, flow>>
  /\ UNCHANGED <<sent, end, taken, echoed, program, nofile, loop, fds,
                 children, heap, console>>

-----------------------------------------------------------------------------
(* sigchld_handler.  SIGCHLD is blocked while it runs, and not queued.     *)

Zombies == {c \in Clients : kid[c] = "zombie"}

Deliver ==
  /\ up /\ sig /\ handler = "no"
  /\ sig' = FALSE /\ handler' = "reap"
  /\ UNCHANGED <<net, program, up, nofile, loop, fds, flow, kid, heap, console>>

MutReapOne == "return"
AfterReaping == "reap"

Reap(c) ==
  /\ handler = "reap" /\ c \in Zombies
  /\ kid' = [kid EXCEPT ![c] = "reaped"]
  /\ handler' = AfterReaping
  /\ UNCHANGED <<net, program, up, nofile, loop, fds, flow, sig, heap, console>>

NoneLeft ==
  /\ handler = "reap" /\ Zombies = {}
  /\ handler' = "return"
  /\ UNCHANGED <<net, program, up, nofile, loop, fds, flow, kid, sig, heap,
                 console>>

Return ==
  /\ handler = "return"
  /\ handler' = "no"
  /\ UNCHANGED <<net, program, up, nofile, loop, fds, flow, kid, sig, heap,
                 console>>

-----------------------------------------------------------------------------
MainStep ==
  \/ Malloc \/ (\E c \in Clients : Accept(c)) \/ AcceptFails
  \/ Fork \/ ParentCloses \/ Create \/ Select \/ Command

FlowStep(c) ==
  \/ Begin(c) \/ FreeCell(c) \/ Read(c) \/ Write(c)
  \/ Close(c) \/ ChildCloses(c) \/ ChildExits(c) \/ Fails(c)

HandlerStep == Deliver \/ (\E c \in Clients : Reap(c)) \/ NoneLeft \/ Return

ClientMoves(c) ==
  /\ up /\ main # "exited"
  /\ ClientStep(c)
  /\ UNCHANGED <<program, up, nofile, loop, fds, flow, children, heap, console>>

Next ==
  \/ \E c \in Clients : ClientMoves(c) \/ FlowStep(c)
  \/ Types
  \/ MainStep
  \/ HandlerStep

Spec == Init /\ [][Next]_vars

\* The kernel runs every process and thread that can run.  Clients and the
\* operator owe nothing.
FairSpec ==
  /\ Spec
  /\ WF_vars(MainStep) /\ WF_vars(HandlerStep)
  /\ \A c \in Clients : WF_vars(FlowStep(c))

-----------------------------------------------------------------------------
Flows ==
  [at : {"none", "start", "free", "read", "write", "close", "exit", "done"},
   fd : Fds \cup {0}, cell : Cells \cup {0}, n : 0..2]

\* Types: what the variables hold; a read returns a line at most.
TypeOK ==
  /\ NetTypeOK
  /\ program \in Programs /\ up \in BOOLEAN /\ nofile \in Limits
  /\ main \in {"accept", "fork", "close", "malloc", "create", "select", "dispatch",
               "serving", "exited"}
  /\ cur \in Clients \cup {Nobody} /\ cell \in Cells \cup {0}
  /\ ready \in SUBSET {"stdin", "listen"}
  /\ fds \in [Fds -> Clients \cup {Nobody}]
  /\ flow \in [Clients -> Flows]
  /\ kid \in [Clients -> {"none", "run", "zombie", "reaped"}]
  /\ sig \in BOOLEAN /\ handler \in {"no", "reap", "return"}
  /\ heap \in [Cells -> Fds \cup {Unused, 0}]
  /\ console \in [typed : 0..MaxTyped, eof : BOOLEAN, stdio : 0..MaxTyped,
                  done : 0..MaxTyped]

\* A descriptor reaches the flow it was accepted for, whatever main accepts
\* before the thread has loaded it, and no two flows share one (echo5.c: a
\* block of its own for every descriptor that accept returns).
EachItsOwnConnection ==
  \A c \in Clients :
    /\ flow[c].at \in {"read", "write", "close"} => Served(c) = c
    /\ program = "echo5" /\ flow[c].at = "start" =>
         heap[flow[c].cell] \in Fds /\ fds[heap[flow[c].cell]] = c

\* A dead child is never forgotten: as long as there is a zombie, a signal is
\* pending or the handler has still to call waitpid, although one signal may
\* stand for several children (sigchld_handler).
NoZombieForgotten == Zombies # {} => sig \/ handler = "reap"

\* How many connections can be open at a time.  Those of echo2 are held by
\* its children.
Capacity == IF program = "echo2" THEN Cardinality(Clients) + 1
            ELSE Cardinality({f \in Fds : f < nofile})

\* What all four programs promise; a client that is gone takes the server
\* along unless a child works for it.  Descriptors run out only when as many
\* connections are open as the limit allows, in echo2 never: whoever has
\* finished with a connection has given its descriptors back.
Service == INSTANCE EchoService WITH
  shared <- program # "echo2", maxOpen <- Capacity

KeepsThePromise == Service!Spec

\* Who hangs up, or is gone, has its connection closed, or else the server
\* has ended; the other clients cannot keep it open.
HangUpIsAnswered ==
  \A c \in Clients : (conn[c] = "open" /\ end[c] # "no") ~> (conn[c] = "closed" \/ ~up)

\* main waits for the rest of a line that its client does not send.
HeldUp ==
  main = "serving" /\ \E c \in Clients : flow[c].at = "read" /\ LineResults(c) = {}

\* What the operator of echo3 types is worked off, with any number of clients
\* served in between, unless one of them holds the server up for ever with
\* half a line, or takes it along: as long as stdin has something that select
\* can see, command comes back for it; and the lines that Fgets has read ahead,
\* which select cannot see, are executed one by one at the latest when stdin
\* ends, and then the server exits (main, command).  Until the end of stdin or
\* the next line they may wait for ever.
StdinIsWorkedOff ==
  []<>~HeldUp =>
    /\ Unread > 0 ~> (Unread = 0 \/ ~up)
    /\ (program = "echo3" /\ console.eof)
         ~> ((main = "exited" /\ console.done = console.typed) \/ ~up)
=============================================================================
