---------------------------- MODULE MCGoPrograms ----------------------------
(* Checks how four of the Go programs come to their ends: the producers and  *)
(* consumers of CondBuffer and of TaskQueue, the job server (WorkerPool)     *)
(* with a rendezvous for a queue, and the chat server (ChatServer) with      *)
(* peers that stop reading.  They have nothing in common, so a behaviour is  *)
(* one of one of them: `runs` says which program was started, and the        *)
(* variables of the others keep their initial values.                        *)
EXTENDS CondBuffer

CONSTANTS
  Hands, Main, Items, ProducePause, ConsumePause, TerminateAfter, ExitAfter, Punctual,
  Requests, Workers, Clients, Nil

VARIABLES
  runs,
  buffer, terminated, qpc, sleep, made,
  req, status, queue, disp, hand, cells, gor, pool, worker, task, stops, runner, finished,
  listener, mutex, heap, ptr, len, phase, scan, name, bc, peer, inbox, chosen, cmds, got,
  unread, fault

queuevars == <<buffer, terminated, qpc, sleep, made>>
poolvars == <<req, status, queue, disp, hand, cells, gor, pool, worker, task, stops, runner,
              finished>>
chatvars == <<listener, mutex, heap, ptr, len, phase, scan, name, bc, peer, inbox, chosen,
              cmds, got, unread, fault>>
all == <<runs, vars, queuevars, poolvars, chatvars>>

Queue == INSTANCE TaskQueue WITH Producers <- Hands, pc <- qpc

\* WorkerPool and ChatServer come with what is proved about them.
Pool == INSTANCE WorkerPoolProofs WITH
  Nobody <- Nil, MaxQueue <- 0, LoopVar <- "perIteration", MaxStops <- 0

Chat == INSTANCE ChatServerProofs WITH Names <- {}, MaxCmds <- 1, Window <- 0

ASSUME GoAssumption ==
  Queue!QueueAssumption /\ Pool!PoolAssumption /\ Chat!ChatAssumption

MCInit ==
  /\ runs \in {"cond", "queue", "pool", "chat"}
  /\ Init /\ Queue!Init /\ Pool!Init /\ Chat!Init

CondRuns(A) == runs = "cond" /\ A /\ UNCHANGED <<runs, queuevars, poolvars, chatvars>>
QueueRuns(A) == runs = "queue" /\ A /\ UNCHANGED <<runs, vars, poolvars, chatvars>>
PoolRuns(A) == runs = "pool" /\ A /\ UNCHANGED <<runs, vars, queuevars, chatvars>>
ChatRuns(A) == runs = "chat" /\ A /\ UNCHANGED <<runs, vars, queuevars, poolvars>>

MCNext ==
  CondRuns(Next) \/ QueueRuns(Queue!Next) \/ PoolRuns(Pool!Next) \/ ChatRuns(Chat!Next)

\* The fairness of each program's own specification.
MCSpec ==
  /\ MCInit /\ [][MCNext]_all
  /\ WF_all(CondRuns(Next))
  /\ \A r \in Requests : WF_all(PoolRuns(Pool!Enqueue(r)))
  /\ WF_all(PoolRuns(Pool!DispatcherStep))
  /\ WF_all(ChatRuns(Chat!StartStep))
  /\ \A c \in Clients : WF_all(ChatRuns(Chat!ServeStep(c)))
  /\ WF_all(ChatRuns(1 \in DOMAIN bc /\ Chat!BroadcastStep(1)))

\* Types: what the variables of the four programs hold, whichever runs.
TypesOK == TypeOK /\ Queue!TypeOK /\ Pool!TypeOK /\ Chat!TypeOK

\* The properties of TaskQueue, WorkerPool and ChatServer (no consumer sleeps
\* beside an item, jobs are run, requests answered, leavers removed), and the
\* one of CondBuffer: the program ends.
SleepersAreSurplus == Queue!SleepersAreSurplus
JobsAreRun == Pool!JobsAreRun
RequestsAreAnswered == Pool!RequestsAreAnswered
LeaversAreRemoved == Chat!LeaversAreRemoved
CondEnds == runs = "cond" => ProgramEnds
=============================================================================
