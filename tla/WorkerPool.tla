----------------------------- MODULE WorkerPool -----------------------------
(***************************************************************************)
(* The job server of handleMillionRequest/main.go.                         *)
(*                                                                         *)
(* A request handler puts a job on the channel jobQueue.  The dispatcher   *)
(* takes jobs off it and starts a goroutine for each, which takes a worker *)
(* (the worker's own unbuffered channel) off the channel workerPool and    *)
(* hands it the job.  A worker puts its channel back when it is idle.      *)
(*                                                                         *)
(* The goroutine is a closure over the loop variable `job` of the          *)
(* dispatcher.  Until Go 1.21 that is one variable for the whole loop,     *)
(* from Go 1.22 on it is a new one in each iteration; no go.mod fixes the  *)
(* language version of this program, so it is a parameter.  The variable   *)
(* is written and read word by word, without a lock.                       *)
(***************************************************************************)
EXTENDS Integers, Sequences, FiniteSets

CONSTANTS
  Requests,  \* the requests a run may see; each submits one job at most
  Workers,   \* the -max_workers workers
  Nobody,    \* no request, no worker
  MaxQueue,  \* -max_queue_size
  LoopVar,   \* "perLoop" or "perIteration"
  MaxStops   \* bound: calls of stop (the program makes none)

ASSUME PoolAssumption ==
  /\ Nobody \notin Requests \cup Workers
  /\ IsFiniteSet(Workers)
  /\ MaxQueue \in Nat /\ MaxStops \in Nat
  /\ LoopVar \in {"perLoop", "perIteration"}

VARIABLES
  req,      \* per request: "none", "enqueue" (at jobQueue <- job), and where
            \* its handler returned: "refused" (early) or "submitted"
  status,   \* per request: the status its response has got, 0 if none yet
  queue,    \* jobQueue
  disp,     \* the dispatcher: "range", or the words of the job it has still
            \* to store, and then the goroutine to start
  hand,     \* the job the dispatcher has received
  cells,    \* the variables `job` there have been
  gor,      \* the goroutines it started: pc, the cell it captured, the words
            \* it has still to load, the job loaded, the worker taken
  pool,     \* workerPool: the workers whose channels are in it
  worker,   \* per worker: "register", "idle" (in select), "busy", "stopped"
  task,     \* per worker: the job it was handed last
  stops,    \* per worker: pending stop goroutines
  runner,   \* per request: the worker its job was last started on (ghost)
  finished  \* the jobs some worker has completed (ghost)

web == <<req, status>>
dispatch == <<disp, hand, cells>>
crew == <<worker, task, stops, runner, finished>>
vars == <<web, queue, dispatch, gor, pool, crew>>

Words == {"name", "used"}  \* of a Job; a job is known by its request
Job(r) == [w \in Words |-> r]
NoJob == Job(Nobody)

Idle == [at |-> "range", todo |-> {}]

Init ==
  /\ req = [r \in Requests |-> "none"] /\ status = [r \in Requests |-> 0]
  /\ queue = <<>> /\ pool = <<>> /\ gor = <<>>
  /\ disp = Idle /\ hand = Nobody
  /\ cells = IF LoopVar = "perLoop" THEN <<NoJob>> ELSE <<>>
  /\ worker = [w \in Workers |-> "register"]
  /\ task = [w \in Workers |-> NoJob] /\ stops = [w \in Workers |-> 0]
  /\ runner = [r \in Requests \cup {Nobody} |-> Nobody] /\ finished = {}

-----------------------------------------------------------------------------
(* The request handlers.                                                   *)

\* The checks of requestHandler, and its answer: the status, and whether it
\* goes on to submit the job.  The check of the name does not return.
Submits(check) == check \in {"ok", "noName"}

Answer(check) == CASE check = "method" -> 405
                   [] check \in {"delay", "noName"} -> 400
                   [] check = "ok" -> 0

Receive(r) ==
  /\ req[r] = "none"
  /\ \E check \in {"method", "delay", "noName", "ok"} :
       /\ status' = [status EXCEPT ![r] = Answer(check)]
       /\ req' = [req EXCEPT ![r] = IF Submits(check) THEN "enqueue" ELSE "refused"]
  /\ UNCHANGED <<queue, dispatch, gor, pool, crew>>

\* A send proceeds when the buffer has room or the receiver waits: with
\* -max_queue_size 0 there is only the receiver.
Room == Len(queue) < MaxQueue \/ (queue = <<>> /\ disp.at = "range")

\* The status written first is the one that is sent.
Enqueue(r) ==
  /\ req[r] = "enqueue" /\ Room
  /\ queue' = Append(queue, r)
  /\ req' = [req EXCEPT ![r] = "submitted"]
  /\ status' = [status EXCEPT ![r] = IF @ = 0 THEN 201 ELSE @]
  /\ UNCHANGED <<dispatch, gor, pool, crew>>

-----------------------------------------------------------------------------
(* The dispatcher, and the goroutine it starts for each job.               *)

\* The variable of this iteration.
MutOneCell == <<NoJob>>
CellsOfIteration == IF LoopVar = "perLoop" THEN cells ELSE Append(cells, NoJob)

\* range waits for a job, and for nothing else.
MutWaitsForWorker == queue # <<>> /\ pool # <<>>
Receivable == queue # <<>>

DispatchReceive ==
  /\ disp.at = "range" /\ Receivable
  /\ hand' = Head(queue) /\ queue' = Tail(queue)
  /\ cells' = CellsOfIteration
  /\ disp' = [at |-> "store", todo |-> Words]
  /\ UNCHANGED <<web, gor, pool, crew>>

DispatchStore ==
  /\ \E w \in disp.todo :
       /\ cells' = [cells EXCEPT ![Len(cells)] = [@ EXCEPT ![w] = hand]]
       /\ disp' = [disp EXCEPT !.todo = @ \ {w}]
  /\ UNCHANGED <<web, queue, hand, gor, pool, crew>>

DispatchGo ==
  /\ disp.at = "store" /\ disp.todo = {}
  /\ gor' = Append(gor, [pc |-> "fetch", cell |-> Len(cells), todo |-> Words,
                         job |-> NoJob, to |-> Nobody])
  /\ disp' = Idle /\ hand' = Nobody
  /\ UNCHANGED <<web, queue, cells, pool, crew>>

Fetch(g) ==
  /\ gor[g].pc = "fetch" /\ pool # <<>>
  /\ gor' = [gor EXCEPT ![g].pc = "load", ![g].to = Head(pool)]
  /\ pool' = Tail(pool)
  /\ UNCHANGED <<web, queue, dispatch, crew>>

\* The operand of the send is evaluated before the send blocks.
Load(g) ==
  /\ gor[g].pc = "load"
  /\ \E w \in gor[g].todo :
       gor' = [gor EXCEPT ![g].job[w] = cells[gor[g].cell][w],
                          ![g].todo = @ \ {w},
                          ![g].pc = IF gor[g].todo = {w} THEN "send" ELSE "load"]
  /\ UNCHANGED <<web, queue, dispatch, pool, crew>>

\* The worker's channel is unbuffered: the worker is in its select.
Send(g) ==
  /\ gor[g].pc = "send" /\ worker[gor[g].to] = "idle"
  /\ LET w == gor[g].to IN
       /\ worker' = [worker EXCEPT ![w] = "busy"]
       /\ task' = [task EXCEPT ![w] = gor[g].job]
       /\ runner' = [runner EXCEPT ![gor[g].job.name] = w]
  /\ gor' = [gor EXCEPT ![g].pc = "done"]
  /\ UNCHANGED <<web, queue, dispatch, pool, stops, finished>>

-----------------------------------------------------------------------------
(* The workers.                                                            *)

Register(w) ==
  /\ worker[w] = "register" /\ Len(pool) < Cardinality(Workers)
  /\ pool' = Append(pool, w)
  /\ worker' = [worker EXCEPT ![w] = "idle"]
  /\ UNCHANGED <<web, queue, dispatch, gor, task, stops, runner, finished>>

\* The delay is over, and the loop begins again.
MutSkipRegister == "idle"
AfterJob == "register"

Complete(w) ==
  /\ worker[w] = "busy"
  /\ worker' = [worker EXCEPT ![w] = AfterJob]
  /\ finished' = finished \cup {task[w].name}
  /\ UNCHANGED <<web, queue, dispatch, gor, pool, task, stops, runner>>

Stop(w) ==
  /\ \A v \in Workers : stops[v] < MaxStops
  /\ stops' = [stops EXCEPT ![w] = @ + 1]
  /\ UNCHANGED <<web, queue, dispatch, gor, pool, worker, task, runner, finished>>

\* The channel of a worker that stops stays where it is, in the pool too.
Quit(w) ==
  /\ worker[w] = "idle" /\ stops[w] > 0
  /\ worker' = [worker EXCEPT ![w] = "stopped"]
  /\ stops' = [stops EXCEPT ![w] = @ - 1]
  /\ UNCHANGED <<web, queue, dispatch, gor, pool, task, runner, finished>>

-----------------------------------------------------------------------------
HandlerStep(r) == Receive(r) \/ Enqueue(r)
DispatcherStep == DispatchReceive \/ DispatchStore \/ DispatchGo
GoroutineStep(g) == Fetch(g) \/ Load(g) \/ Send(g)
WorkerStep(w) == Register(w) \/ Complete(w) \/ Quit(w)

Next ==
  \/ \E r \in Requests : HandlerStep(r)
  \/ DispatcherStep
  \/ \E g \in DOMAIN gor : GoroutineStep(g)
  \/ \E w \in Workers : WorkerStep(w) \/ Stop(w)

Spec == Init /\ [][Next]_vars

\* Go's scheduler runs every goroutine that can run; net/http answers what it
\* has received.  Requests and calls of stop come when they come.
ServerFairness ==
  /\ \A r \in Requests : WF_vars(Enqueue(r))
  /\ WF_vars(DispatcherStep)

\* The sleep of a worker ends.  A request starts one goroutine at most.
PoolFairness ==
  /\ \A g \in 1..Cardinality(Requests) :
       WF_vars(g \in DOMAIN gor /\ GoroutineStep(g))
  /\ \A w \in Workers : WF_vars(WorkerStep(w))

\* Workers may never finish, and the goroutines that look for one never run.
FairSpec == Spec /\ ServerFairness

-----------------------------------------------------------------------------
(* Types: what the variables hold.                                         *)

Jobs == [Words -> Requests \cup {Nobody}]

Goroutines ==
  [pc : {"fetch", "load", "send", "done"}, cell : DOMAIN cells,
   todo : SUBSET Words, job : Jobs, to : Workers \cup {Nobody}]

\* The buffered channels jobQueue and workerPool hold no more than their
\* capacity (a job handed to the waiting dispatcher counts as queued).
TypeOK ==
  /\ req \in [Requests -> {"none", "enqueue", "refused", "submitted"}]
  /\ status \in [Requests -> {0, 201, 400, 405}]
  /\ queue \in Seq(Requests)
  /\ Len(queue) <= MaxQueue \/ Len(queue) = 1
  /\ disp \in [at : {"range", "store"}, todo : SUBSET Words]
  /\ hand \in Requests \cup {Nobody}
  /\ cells \in Seq(Jobs)
  /\ gor \in Seq(Goroutines)
  /\ pool \in Seq(Workers) /\ Len(pool) <= Cardinality(Workers)
  /\ worker \in [Workers -> {"register", "idle", "busy", "stopped"}]
  /\ task \in [Workers -> Jobs]
  /\ stops \in [Workers -> 0..MaxStops]
  /\ runner \in [Requests \cup {Nobody} -> Workers \cup {Nobody}]
  /\ finished \in SUBSET (Requests \cup {Nobody})

-----------------------------------------------------------------------------
(* Safety.                                                                 *)

RunBy(r) == {w \in Workers : worker[w] = "busy" /\ task[w].name = r}

Claims(w) ==
  Cardinality({i \in DOMAIN pool : pool[i] = w})
    + Cardinality({g \in DOMAIN gor : gor[g].pc \in {"load", "send"} /\ gor[g].to = w})

(* The channel of a worker is in the pool or in the hands of one goroutine  *)
(* exactly when the worker waits for a job: no job is ever handed to a      *)
(* worker that has another one to finish, two goroutines never hold the     *)
(* same worker, and registering never blocks on a full pool.  A worker that *)
(* stopped leaves its one claim behind (start, dispatch).                   *)
ClaimsExact ==
  \A w \in Workers : Claims(w) = IF worker[w] \in {"idle", "stopped"} THEN 1 ELSE 0

Quiescent ==
  /\ \A r \in Requests : req[r] \in {"refused", "submitted"}
  /\ queue = <<>> /\ disp = Idle
  /\ \A g \in DOMAIN gor : gor[g].pc = "done"
  /\ \A w \in Workers : worker[w] # "busy"

(* When nothing is left to do, every job that was submitted has been run:   *)
(* jobs that were posted under different names are run under these names    *)
(* (dispatch: the closure over the loop variable).                          *)
NoJobIsLost ==
  Quiescent => \A r \in Requests : req[r] = "submitted" => r \in finished

-----------------------------------------------------------------------------
(* The pool implements the job service: a job is started by one worker,     *)
(* once, a worker that is free, and what it finishes is what it started     *)
(* (dispatch, start).                                                       *)

Phase(r) ==
  IF r \in finished THEN "done"
  ELSE IF RunBy(r) # {} THEN "running"
  ELSE IF req[r] = "submitted" THEN "pending" ELSE "none"

Service == INSTANCE JobService WITH
  Jobs <- Requests, job <- [r \in Requests |-> Phase(r)],
  runner <- [r \in Requests |-> runner[r]]

RunsJobsOnce == Service!Spec

-----------------------------------------------------------------------------
(* Liveness.                                                               *)

(* A job that was submitted is run, also when there are more jobs than      *)
(* workers, if the workers and the goroutines that look for one keep going  *)
(* (and no stop is called): no worker is forgotten.                         *)
JobsAreRun ==
  PoolFairness => \A r \in Requests : (req[r] = "submitted") ~> (r \in finished)

(* Whoever sends a request gets an answer even if no worker ever finishes:  *)
(* the dispatcher takes every job off jobQueue without waiting for a        *)
(* worker, and -max_queue_size holds no one back.                           *)
RequestsAreAnswered ==
  \A r \in Requests : (req[r] # "none") ~> (req[r] \in {"refused", "submitted"})
=============================================================================
