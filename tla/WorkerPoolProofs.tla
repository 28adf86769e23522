-------------------------- MODULE WorkerPoolProofs --------------------------
(***************************************************************************)
(* Theorems about WorkerPool, for any number of requests and workers and   *)
(* any size of the queue: its types; that a worker waiting for a job is    *)
(* claimed once; and, if each iteration of the dispatcher has a variable   *)
(* of its own, that the pool implements JobService and loses no job.       *)
(*                                                                         *)
(* The claims are those of the goroutines that hold a worker, and of the   *)
(* positions of the pool (Claimed).  Where a job is on its way from the    *)
(* queue to a worker is said by Way, what a goroutine finds in the         *)
(* variable it captured by Captured.                                       *)
(***************************************************************************)
EXTENDS WorkerPool, FiniteSetTheorems, TLAPS

Routines ==
  [pc : {"fetch", "load", "send", "done"}, cell : Nat, todo : SUBSET Words,
   job : Jobs, to : Workers \cup {Nobody}]

Holds(g) == gor[g].pc \in {"load", "send"}

WebTypes ==
  /\ req \in [Requests -> {"none", "enqueue", "refused", "submitted"}]
  /\ status \in [Requests -> {0, 201, 400, 405}]
  /\ queue \in Seq(Requests)
  /\ Len(queue) <= MaxQueue \/ Len(queue) = 1

DispatchTypes ==
  /\ disp \in [at : {"range", "store"}, todo : SUBSET Words]
  /\ hand \in Requests \cup {Nobody}
  /\ disp.at = "store" => hand \in Requests
  /\ disp.at = "range" => disp.todo = {}
  /\ cells \in Seq(Jobs)
  /\ disp.at = "store" => cells # <<>>
  /\ LoopVar = "perLoop" => cells # <<>>

\* A captured variable is one that exists.
GoroutineTypes ==
  /\ gor \in Seq(Routines)
  /\ \A g \in DOMAIN gor : gor[g].cell \in DOMAIN cells
  /\ \A g \in DOMAIN gor : Holds(g) => gor[g].to \in Workers

CrewTypes ==
  /\ pool \in Seq(Workers) /\ Len(pool) <= Cardinality(Workers)
  /\ worker \in [Workers -> {"register", "idle", "busy", "stopped"}]
  /\ task \in [Workers -> Jobs]
  /\ stops \in [Workers -> 0..MaxStops]
  /\ runner \in [Requests \cup {Nobody} -> Workers \cup {Nobody}]
  /\ finished \in SUBSET (Requests \cup {Nobody})

Types == WebTypes /\ DispatchTypes /\ GoroutineTypes /\ CrewTypes

\* A worker has at most one claim, and has it while it waits or has stopped.
InPool(w) == \E i \in DOMAIN pool : pool[i] = w
Held(w) == \E g \in DOMAIN gor : Holds(g) /\ gor[g].to = w

Claimed ==
  /\ \A i, j \in DOMAIN pool : pool[i] = pool[j] => i = j
  /\ \A g, h \in DOMAIN gor : (Holds(g) /\ Holds(h) /\ gor[g].to = gor[h].to) => g = h
  /\ \A w \in Workers : ~(InPool(w) /\ Held(w))
  /\ \A w \in Workers : worker[w] \in {"idle", "stopped"} <=> InPool(w) \/ Held(w)

\* The job for which a goroutine was started, and what it has loaded of it.
Of(g) == cells[gor[g].cell].name

Captured ==
  /\ \A g \in DOMAIN gor : disp.at = "store" => gor[g].cell < Len(cells)
  /\ disp.at = "store" => \A w \in Words \ disp.todo : cells[Len(cells)][w] = hand
  /\ \A g \in DOMAIN gor : Of(g) \in Requests
  /\ \A g \in DOMAIN gor : \A w \in Words : cells[gor[g].cell][w] = Of(g)
  /\ \A g \in DOMAIN gor : gor[g].pc = "fetch" => gor[g].todo = Words
  /\ \A g \in DOMAIN gor : gor[g].pc \in {"send", "done"} => gor[g].todo = {}
  /\ \A g \in DOMAIN gor : \A w \in Words \ gor[g].todo : gor[g].job[w] = Of(g)

\* A submitted job is in one place: in the queue, with the dispatcher, or with
\* the one goroutine that was started for it.
Queued(r) == \E i \in DOMAIN queue : queue[i] = r
InHand(r) == disp.at = "store" /\ hand = r
OnItsWay(r) == \E g \in DOMAIN gor : Of(g) = r

Way ==
  /\ \A i, j \in DOMAIN queue : queue[i] = queue[j] => i = j
  /\ \A g, h \in DOMAIN gor : Of(g) = Of(h) => g = h
  /\ \A r \in Requests : ~(Queued(r) /\ InHand(r))
  /\ \A r \in Requests : ~(Queued(r) /\ OnItsWay(r))
  /\ \A r \in Requests : ~(InHand(r) /\ OnItsWay(r))
  /\ \A r \in Requests : req[r] = "submitted" <=> Queued(r) \/ InHand(r) \/ OnItsWay(r)

\* A job that is running or finished is that of a goroutine that is done.
HandedOver(r) == \E g \in DOMAIN gor : Of(g) = r /\ gor[g].pc = "done"
HasOne(w) == \E g \in DOMAIN gor : Of(g) = task[w].name /\ gor[g].pc = "done"

Running ==
  /\ \A w \in Workers : worker[w] = "busy" => HasOne(w)
  /\ \A w \in Workers : worker[w] = "busy" => task[w].name \in Requests
  /\ \A w \in Workers : worker[w] = "busy" => task[w].name \notin finished
  /\ \A w \in Workers : worker[w] = "busy" => runner[task[w].name] = w
  /\ \A r \in finished : r \in Requests /\ HandedOver(r)
  /\ \A g \in DOMAIN gor : gor[g].pc = "done" =>
       Of(g) \in finished \/ \E w \in Workers : worker[w] = "busy" /\ task[w].name = Of(g)

Once == LoopVar = "perIteration"

IInv == Types /\ Claimed /\ (Once => Captured /\ Way /\ Running)

-----------------------------------------------------------------------------
(* Facts about sequences.                                                  *)

LEMMA Elements ==
  ASSUME NEW S, NEW s \in Seq(S)
  PROVE  /\ Len(s) \in Nat /\ DOMAIN s = 1..Len(s)
         /\ \A i \in DOMAIN s : s[i] \in S
         /\ s # <<>> <=> Len(s) > 0
OBVIOUS

LEMMA Appended ==
  ASSUME NEW S, NEW s \in Seq(S), NEW e \in S
  PROVE  /\ Append(s, e) \in Seq(S)
         /\ Len(Append(s, e)) = Len(s) + 1
         /\ DOMAIN Append(s, e) = DOMAIN s \cup {Len(s) + 1}
         /\ Len(s) + 1 \notin DOMAIN s
         /\ \A i \in DOMAIN s : Append(s, e)[i] = s[i]
         /\ Append(s, e)[Len(s) + 1] = e
OBVIOUS

LEMMA Taken ==
  ASSUME NEW S, NEW s \in Seq(S), s # <<>>
  PROVE  /\ Head(s) \in S /\ Head(s) = s[1] /\ 1 \in DOMAIN s
         /\ Tail(s) \in Seq(S) /\ Len(Tail(s)) = Len(s) - 1
         /\ \A i \in DOMAIN Tail(s) : i + 1 \in DOMAIN s /\ Tail(s)[i] = s[i + 1]
         /\ \A i \in DOMAIN s : i # 1 => i - 1 \in DOMAIN Tail(s)
OBVIOUS

LEMMA Replaced ==
  ASSUME NEW S, NEW s \in Seq(S), NEW i \in DOMAIN s, NEW e \in S
  PROVE  /\ [s EXCEPT ![i] = e] \in Seq(S)
         /\ Len([s EXCEPT ![i] = e]) = Len(s)
         /\ DOMAIN [s EXCEPT ![i] = e] = DOMAIN s
         /\ [s EXCEPT ![i] = e][i] = e
         /\ \A j \in DOMAIN s : j # i => [s EXCEPT ![i] = e][j] = s[j]
OBVIOUS

LEMMA JobIsOne ==
  /\ NoJob \in Jobs
  /\ \A r \in Requests : Job(r) \in Jobs /\ \A w \in Words : Job(r)[w] = r
BY DEF Job, NoJob, Jobs, Words

LEMMA InitInv == Init => IInv
<1> SUFFICES ASSUME Init PROVE IInv
  OBVIOUS
<1> USE DEF Init
<1>1. Cardinality(Workers) \in Nat
  BY PoolAssumption, FS_CardinalityType
<1>2. WebTypes
  BY PoolAssumption DEF WebTypes
<1>3. DispatchTypes
  BY PoolAssumption, JobIsOne DEF DispatchTypes, Idle
<1>4. GoroutineTypes
  BY DEF GoroutineTypes
<1>5. CrewTypes
  <2>1. Len(pool) = 0 /\ pool \in Seq(Workers)
    OBVIOUS
  <2>2. task \in [Workers -> Jobs]
    BY JobIsOne
  <2> QED
    BY <1>1, <2>1, <2>2, PoolAssumption DEF CrewTypes
<1>6. Claimed
  BY DEF Claimed, InPool, Held
<1>7. Captured /\ Way /\ Running
  BY DEF Captured, Way, Running, Idle, Queued, InHand, OnItsWay
<1> QED
  BY <1>2, <1>3, <1>4, <1>5, <1>6, <1>7 DEF IInv, Types

-----------------------------------------------------------------------------
(* What the steps do, field by field.                                      *)

\* A goroutine that has moved on: only these fields of it may differ.
LEMMA RoutineMoves ==
  ASSUME NEW r \in Routines, NEW p \in {"fetch", "load", "send", "done"},
         NEW w \in Workers \cup {Nobody}
  PROVE  /\ [r EXCEPT !.pc = p] \in Routines
         /\ [r EXCEPT !.pc = p, !.to = w] \in Routines
BY DEF Routines

LEMMA RoutineLoads ==
  ASSUME NEW r \in Routines, NEW v \in Words, NEW x \in Requests \cup {Nobody},
         NEW p \in {"fetch", "load", "send", "done"}
  PROVE  [r EXCEPT !.job = [r.job EXCEPT ![v] = x], !.todo = r.todo \ {v}, !.pc = p]
           \in Routines
<1>1. [r.job EXCEPT ![v] = x] \in Jobs
  BY DEF Routines, Jobs
<1>2. r.todo \ {v} \in SUBSET Words
  BY DEF Routines
<1> QED
  BY <1>1, <1>2 DEF Routines

LEMMA EnqueueDoes ==
  ASSUME Types, NEW r \in Requests, Enqueue(r)
  PROVE  /\ req[r] = "enqueue" /\ (Len(queue) < MaxQueue \/ Len(queue) = 0)
         /\ queue' \in Seq(Requests) /\ Len(queue') = Len(queue) + 1
         /\ DOMAIN queue' = DOMAIN queue \cup {Len(queue) + 1}
         /\ Len(queue) + 1 \notin DOMAIN queue
         /\ \A i \in DOMAIN queue : queue'[i] = queue[i]
         /\ queue'[Len(queue) + 1] = r
         /\ req' = [req EXCEPT ![r] = "submitted"]
         /\ status' = [status EXCEPT ![r] = IF @ = 0 THEN 201 ELSE @]
         /\ UNCHANGED <<disp, hand, cells, gor, pool, worker, task, stops, runner, finished>>
<1>1. queue' = Append(queue, r)
  BY DEF Enqueue
<1>2. queue \in Seq(Requests)
  BY DEF Types, WebTypes
<1> QED
  BY <1>1, <1>2, Appended DEF Enqueue, Room, dispatch, crew

LEMMA ReceiveDoes ==
  ASSUME Types, NEW r \in Requests, Receive(r)
  PROVE  /\ req[r] = "none" /\ req'[r] \in {"enqueue", "refused"}
         /\ req' \in [Requests -> {"none", "enqueue", "refused", "submitted"}]
         /\ \A q \in Requests : q # r => req'[q] = req[q]
         /\ status' \in [Requests -> {0, 201, 400, 405}]
         /\ UNCHANGED <<queue, disp, hand, cells, gor, pool, worker, task, stops, runner,
                        finished>>
BY DEF Receive, Answer, Submits, Types, WebTypes, dispatch, crew

LEMMA DispatchReceiveDoes ==
  ASSUME Types, DispatchReceive
  PROVE  /\ disp.at = "range" /\ queue # <<>>
         /\ 1 \in DOMAIN queue /\ hand' = queue[1] /\ hand' \in Requests
         /\ queue' \in Seq(Requests) /\ Len(queue') = Len(queue) - 1
         /\ \A i \in DOMAIN queue' : i + 1 \in DOMAIN queue /\ queue'[i] = queue[i + 1]
         /\ \A i \in DOMAIN queue : i # 1 => i - 1 \in DOMAIN queue'
         /\ cells' \in Seq(Jobs) /\ cells' # <<>>
         /\ DOMAIN cells \subseteq DOMAIN cells'
         /\ \A i \in DOMAIN cells : cells'[i] = cells[i]
         /\ Once => Len(cells') = Len(cells) + 1
         /\ disp' = [at |-> "store", todo |-> Words]
         /\ UNCHANGED <<req, status, gor, pool, worker, task, stops, runner, finished>>
<1>1. queue \in Seq(Requests) /\ cells \in Seq(Jobs) /\ queue # <<>>
  BY DEF Types, WebTypes, DispatchTypes, DispatchReceive, Receivable
<1>2. hand' = Head(queue) /\ queue' = Tail(queue)
  BY DEF DispatchReceive
<1>3. /\ cells' \in Seq(Jobs) /\ cells' # <<>>
      /\ DOMAIN cells \subseteq DOMAIN cells'
      /\ \A i \in DOMAIN cells : cells'[i] = cells[i]
      /\ Once => Len(cells') = Len(cells) + 1
  <2>1. CASE LoopVar = "perLoop"
    BY <2>1, <1>1 DEF DispatchReceive, CellsOfIteration, Types, DispatchTypes, Once
  <2>2. CASE LoopVar # "perLoop"
    <3>1. cells' = Append(cells, NoJob)
      BY <2>2 DEF DispatchReceive, CellsOfIteration
    <3> QED
      BY <3>1, <1>1, JobIsOne, Appended, Elements
  <2> QED
    BY <2>1, <2>2
<1> QED
  BY <1>1, <1>2, <1>3, Taken DEF DispatchReceive, web, crew

LEMMA DispatchStoreDoes ==
  ASSUME Types, DispatchStore
  PROVE  /\ disp.at = "store" /\ disp'.at = "store"
         /\ disp' \in [at : {"range", "store"}, todo : SUBSET Words]
         /\ Len(cells) \in DOMAIN cells
         /\ cells' \in Seq(Jobs) /\ Len(cells') = Len(cells) /\ DOMAIN cells' = DOMAIN cells
         /\ \A i \in DOMAIN cells : i # Len(cells) => cells'[i] = cells[i]
         /\ \E w \in disp.todo :
              /\ disp'.todo = disp.todo \ {w}
              /\ cells'[Len(cells)][w] = hand
              /\ \A v \in Words : v # w => cells'[Len(cells)][v] = cells[Len(cells)][v]
         /\ UNCHANGED <<req, status, queue, hand, gor, pool, worker, task, stops, runner,
                        finished>>
<1>1. PICK w \in disp.todo :
        /\ cells' = [cells EXCEPT ![Len(cells)] = [@ EXCEPT ![w] = hand]]
        /\ disp' = [disp EXCEPT !.todo = @ \ {w}]
  BY DEF DispatchStore
<1>2. disp.at = "store" /\ w \in Words
  BY <1>1 DEF Types, DispatchTypes
<1>3. cells \in Seq(Jobs) /\ Len(cells) \in DOMAIN cells
  BY <1>2 DEF Types, DispatchTypes
<1> DEFINE new == [cells[Len(cells)] EXCEPT ![w] = hand]
<1>4. /\ new \in Jobs /\ new[w] = hand
      /\ \A v \in Words : v # w => new[v] = cells[Len(cells)][v]
  BY <1>2, <1>3, Elements DEF Types, DispatchTypes, Jobs
<1>5. cells' = [cells EXCEPT ![Len(cells)] = new]
  BY <1>1
<1> HIDE DEF new
<1>6. /\ cells' \in Seq(Jobs) /\ Len(cells') = Len(cells) /\ DOMAIN cells' = DOMAIN cells
      /\ cells'[Len(cells)] = new
      /\ \A i \in DOMAIN cells : i # Len(cells) => cells'[i] = cells[i]
  BY <1>3, <1>4, <1>5, Replaced
<1>7. disp'.todo = disp.todo \ {w} /\ disp'.at = "store"
  BY <1>1, <1>2 DEF Types, DispatchTypes
<1>8. disp' \in [at : {"range", "store"}, todo : SUBSET Words]
  BY <1>1 DEF Types, DispatchTypes
<1>9. UNCHANGED <<req, status, queue, hand, gor, pool, worker, task, stops, runner, finished>>
  BY DEF DispatchStore, web, crew
<1> QED
  BY <1>2, <1>3, <1>4, <1>6, <1>7, <1>8, <1>9, <1>1

LEMMA DispatchGoDoes ==
  ASSUME Types, DispatchGo
  PROVE  /\ disp.at = "store" /\ disp.todo = {} /\ disp' = Idle /\ hand' = Nobody
         /\ Len(cells) \in DOMAIN cells
         /\ gor' \in Seq(Routines) /\ Len(gor') = Len(gor) + 1
         /\ DOMAIN gor' = DOMAIN gor \cup {Len(gor) + 1}
         /\ Len(gor) + 1 \notin DOMAIN gor
         /\ \A g \in DOMAIN gor : gor'[g] = gor[g]
         /\ gor'[Len(gor) + 1] = [pc |-> "fetch", cell |-> Len(cells), todo |-> Words,
                                  job |-> NoJob, to |-> Nobody]
         /\ UNCHANGED <<req, status, queue, cells, pool, worker, task, stops, runner, finished>>
<1> DEFINE new == [pc |-> "fetch", cell |-> Len(cells), todo |-> Words,
                   job |-> NoJob, to |-> Nobody]
<1>1. gor' = Append(gor, new) /\ gor \in Seq(Routines)
  BY DEF DispatchGo, Types, GoroutineTypes
<1>2. Len(cells) \in DOMAIN cells /\ Len(cells) \in Nat
  BY Elements DEF DispatchGo, Types, DispatchTypes
<1>3. new \in Routines
  BY <1>2, JobIsOne DEF Routines
<1>4. /\ disp.at = "store" /\ disp.todo = {} /\ disp' = Idle /\ hand' = Nobody
      /\ UNCHANGED <<req, status, queue, cells, pool, worker, task, stops, runner, finished>>
  BY DEF DispatchGo, web, crew
<1> HIDE DEF new
<1>5. /\ gor' \in Seq(Routines) /\ Len(gor') = Len(gor) + 1
      /\ DOMAIN gor' = DOMAIN gor \cup {Len(gor) + 1}
      /\ Len(gor) + 1 \notin DOMAIN gor
      /\ \A g \in DOMAIN gor : gor'[g] = gor[g]
      /\ gor'[Len(gor) + 1] = new
  BY <1>1, <1>3, Appended
<1> QED
  BY <1>2, <1>4, <1>5 DEF new

LEMMA FetchDoes ==
  ASSUME Types, NEW g \in DOMAIN gor, Fetch(g)
  PROVE  /\ gor[g].pc = "fetch" /\ pool # <<>> /\ 1 \in DOMAIN pool
         /\ gor' \in Seq(Routines) /\ DOMAIN gor' = DOMAIN gor
         /\ \A h \in DOMAIN gor : h # g => gor'[h] = gor[h]
         /\ gor'[g].pc = "load" /\ gor'[g].to = pool[1] /\ pool[1] \in Workers
         /\ gor'[g].cell = gor[g].cell /\ gor'[g].todo = gor[g].todo
         /\ gor'[g].job = gor[g].job
         /\ pool' \in Seq(Workers) /\ Len(pool') = Len(pool) - 1
         /\ \A i \in DOMAIN pool' : i + 1 \in DOMAIN pool /\ pool'[i] = pool[i + 1]
         /\ \A i \in DOMAIN pool : i # 1 => i - 1 \in DOMAIN pool'
         /\ UNCHANGED <<req, status, queue, disp, hand, cells, worker, task, stops, runner,
                        finished>>
<1> DEFINE new == [gor[g] EXCEPT !.pc = "load", !.to = Head(pool)]
<1>1. /\ gor[g].pc = "fetch" /\ pool # <<>> /\ pool' = Tail(pool)
      /\ UNCHANGED <<req, status, queue, disp, hand, cells, worker, task, stops, runner,
                     finished>>
  BY DEF Fetch, web, dispatch, crew
<1>2. gor \in Seq(Routines) /\ pool \in Seq(Workers) /\ gor[g] \in Routines
  BY Elements DEF Types, GoroutineTypes, CrewTypes
<1>3. /\ Head(pool) \in Workers /\ Head(pool) = pool[1] /\ 1 \in DOMAIN pool
      /\ pool' \in Seq(Workers) /\ Len(pool') = Len(pool) - 1
      /\ \A i \in DOMAIN pool' : i + 1 \in DOMAIN pool /\ pool'[i] = pool[i + 1]
      /\ \A i \in DOMAIN pool : i # 1 => i - 1 \in DOMAIN pool'
  BY <1>1, <1>2, Taken
<1>4. /\ new \in Routines /\ new.pc = "load" /\ new.to = pool[1]
      /\ new.cell = gor[g].cell /\ new.todo = gor[g].todo /\ new.job = gor[g].job
  BY <1>2, <1>3, RoutineMoves DEF Routines
<1>5. gor' = [gor EXCEPT ![g] = new]
  BY DEF Fetch
<1> HIDE DEF new
<1>6. /\ gor' \in Seq(Routines) /\ DOMAIN gor' = DOMAIN gor /\ gor'[g] = new
      /\ \A h \in DOMAIN gor : h # g => gor'[h] = gor[h]
  BY <1>2, <1>4, <1>5, Replaced
<1> QED
  BY <1>1, <1>3, <1>4, <1>6

LEMMA LoadDoes ==
  ASSUME Types, NEW g \in DOMAIN gor, Load(g)
  PROVE  /\ gor[g].pc = "load"
         /\ gor' \in Seq(Routines) /\ DOMAIN gor' = DOMAIN gor
         /\ \A h \in DOMAIN gor : h # g => gor'[h] = gor[h]
         /\ gor'[g].cell = gor[g].cell /\ gor'[g].to = gor[g].to
         /\ \E v \in Words :
              /\ gor'[g].todo = gor[g].todo \ {v}
              /\ gor'[g].job[v] = cells[gor[g].cell][v]
              /\ \A u \in Words : u # v => gor'[g].job[u] = gor[g].job[u]
         /\ gor'[g].pc \in {"load", "send"}
         /\ gor'[g].pc = "send" => gor'[g].todo = {}
         /\ UNCHANGED <<req, status, queue, disp, hand, cells, pool, worker, task, stops,
                        runner, finished>>
<1>1. PICK v \in gor[g].todo :
        gor' = [gor EXCEPT ![g].job[v] = cells[gor[g].cell][v],
                           ![g].todo = @ \ {v},
                           ![g].pc = IF gor[g].todo = {v} THEN "send" ELSE "load"]
  BY DEF Load
<1>2. gor \in Seq(Routines) /\ gor[g] \in Routines
  BY Elements DEF Types, GoroutineTypes
<1>3. v \in Words /\ gor[g].job \in Jobs
  BY <1>1, <1>2 DEF Routines
<1>4. cells[gor[g].cell][v] \in Requests \cup {Nobody}
  BY <1>3, Elements DEF Types, GoroutineTypes, DispatchTypes, Jobs
<1> DEFINE p == IF gor[g].todo = {v} THEN "send" ELSE "load"
           x == cells[gor[g].cell][v]
           new == [gor[g] EXCEPT !.job = [gor[g].job EXCEPT ![v] = x],
                                 !.todo = gor[g].todo \ {v}, !.pc = p]
<1>5. gor' = [gor EXCEPT ![g] = new]
  BY <1>1, <1>2 DEF Routines
<1>6. p \in {"load", "send"} /\ p \in {"fetch", "load", "send", "done"}
  OBVIOUS
<1>7. p = "send" => gor[g].todo = {v}
  OBVIOUS
<1>8. x = cells[gor[g].cell][v]
  OBVIOUS
<1> HIDE DEF p, x
<1>9. /\ new.cell = gor[g].cell /\ new.to = gor[g].to /\ new.pc = p
      /\ new.todo = gor[g].todo \ {v} /\ new.job = [gor[g].job EXCEPT ![v] = x]
  BY <1>2 DEF Routines
<1>10. /\ new.job[v] = x
       /\ \A u \in Words : u # v => new.job[u] = gor[g].job[u]
  BY <1>3, <1>9 DEF Jobs
<1>11. new \in Routines
  BY <1>2, <1>3, <1>4, <1>6, <1>8, RoutineLoads
<1> HIDE DEF new
<1>12. /\ gor' \in Seq(Routines) /\ DOMAIN gor' = DOMAIN gor /\ gor'[g] = new
       /\ \A h \in DOMAIN gor : h # g => gor'[h] = gor[h]
  BY <1>2, <1>5, <1>11, Replaced
<1>13. /\ gor[g].pc = "load"
       /\ UNCHANGED <<req, status, queue, disp, hand, cells, pool, worker, task, stops,
                      runner, finished>>
  BY DEF Load, web, dispatch, crew
<1>14. /\ gor'[g].pc \in {"load", "send"}
       /\ gor'[g].pc = "send" => gor'[g].todo = {}
  BY <1>6, <1>7, <1>9, <1>12
<1>15. \E u \in Words :
         /\ gor'[g].todo = gor[g].todo \ {u}
         /\ gor'[g].job[u] = cells[gor[g].cell][u]
         /\ \A t \in Words : t # u => gor'[g].job[t] = gor[g].job[t]
  BY <1>3, <1>8, <1>9, <1>10, <1>12
<1> QED
  BY <1>9, <1>12, <1>13, <1>14, <1>15

LEMMA SendDoes ==
  ASSUME Types, NEW g \in DOMAIN gor, Send(g)
  PROVE  /\ gor[g].pc = "send" /\ gor[g].to \in Workers /\ gor[g].job \in Jobs
         /\ worker[gor[g].to] = "idle"
         /\ worker' = [worker EXCEPT ![gor[g].to] = "busy"]
         /\ task' = [task EXCEPT ![gor[g].to] = gor[g].job]
         /\ runner' = [runner EXCEPT ![gor[g].job.name] = gor[g].to]
         /\ gor' \in Seq(Routines) /\ DOMAIN gor' = DOMAIN gor
         /\ \A h \in DOMAIN gor : h # g => gor'[h] = gor[h]
         /\ gor'[g].pc = "done"
         /\ gor'[g].cell = gor[g].cell /\ gor'[g].todo = gor[g].todo
         /\ gor'[g].job = gor[g].job /\ gor'[g].to = gor[g].to
         /\ UNCHANGED <<req, status, queue, disp, hand, cells, pool, stops, finished>>
<1> DEFINE new == [gor[g] EXCEPT !.pc = "done"]
<1>1. gor \in Seq(Routines) /\ gor[g] \in Routines /\ gor[g].to \in Workers
  BY Elements DEF Send, Holds, Types, GoroutineTypes
<1>2. /\ new \in Routines /\ new.pc = "done"
      /\ new.cell = gor[g].cell /\ new.todo = gor[g].todo /\ new.job = gor[g].job
      /\ new.to = gor[g].to /\ gor[g].job \in Jobs
  BY <1>1, RoutineMoves DEF Routines
<1>3. gor' = [gor EXCEPT ![g] = new]
  BY DEF Send
<1> HIDE DEF new
<1>4. /\ gor' \in Seq(Routines) /\ DOMAIN gor' = DOMAIN gor /\ gor'[g] = new
      /\ \A h \in DOMAIN gor : h # g => gor'[h] = gor[h]
  BY <1>1, <1>2, <1>3, Replaced
<1> QED
  BY <1>1, <1>2, <1>4 DEF Send, web, dispatch

LEMMA RegisterDoes ==
  ASSUME Types, NEW w \in Workers, Register(w)
  PROVE  /\ worker[w] = "register" /\ Len(pool) < Cardinality(Workers)
         /\ pool' \in Seq(Workers) /\ Len(pool') = Len(pool) + 1
         /\ DOMAIN pool' = DOMAIN pool \cup {Len(pool) + 1}
         /\ Len(pool) + 1 \notin DOMAIN pool
         /\ \A i \in DOMAIN pool : pool'[i] = pool[i]
         /\ pool'[Len(pool) + 1] = w
         /\ worker' = [worker EXCEPT ![w] = "idle"]
         /\ UNCHANGED <<req, status, queue, disp, hand, cells, gor, task, stops, runner,
                        finished>>
<1>1. pool' = Append(pool, w) /\ pool \in Seq(Workers)
  BY DEF Register, Types, CrewTypes
<1> QED
  BY <1>1, Appended DEF Register, web, dispatch

LEMMA CompleteDoes ==
  ASSUME NEW w \in Workers, Complete(w)
  PROVE  /\ worker[w] = "busy"
         /\ worker' = [worker EXCEPT ![w] = "register"]
         /\ finished' = finished \cup {task[w].name}
         /\ UNCHANGED <<req, status, queue, disp, hand, cells, gor, pool, task, stops, runner>>
BY DEF Complete, AfterJob, web, dispatch

LEMMA StopDoes ==
  ASSUME Types, NEW w \in Workers, Stop(w)
  PROVE  /\ stops' \in [Workers -> 0..MaxStops]
         /\ UNCHANGED <<req, status, queue, disp, hand, cells, gor, pool, worker, task,
                        runner, finished>>
BY PoolAssumption DEF Stop, Types, CrewTypes, web, dispatch

LEMMA QuitDoes ==
  ASSUME Types, NEW w \in Workers, Quit(w)
  PROVE  /\ worker[w] = "idle" /\ worker' = [worker EXCEPT ![w] = "stopped"]
         /\ stops' \in [Workers -> 0..MaxStops]
         /\ UNCHANGED <<req, status, queue, disp, hand, cells, gor, pool, task, runner,
                        finished>>
BY PoolAssumption DEF Quit, Types, CrewTypes, web, dispatch

-----------------------------------------------------------------------------
(* Types.                                                                  *)

\* A step other than those below changes none of the variables of a part.
LEMMA WebStep ==
  ASSUME Types, Next
  PROVE  WebTypes'
<1>e. ASSUME NEW r \in Requests, Enqueue(r)
      PROVE  /\ Len(queue) < MaxQueue \/ Len(queue) = 0
             /\ Len(queue') = Len(queue) + 1 /\ queue' \in Seq(Requests)
             /\ req' = [req EXCEPT ![r] = "submitted"]
             /\ status' = [status EXCEPT ![r] = IF @ = 0 THEN 201 ELSE @]
  BY <1>e, EnqueueDoes, Zenon
<1>f. ASSUME NEW r \in Requests, Enqueue(r)
      PROVE  Len(queue') <= MaxQueue \/ Len(queue') = 1
  <2>1. Len(queue) \in Nat
    BY Elements DEF Types, WebTypes
  <2>2. MaxQueue \in Nat
    BY PoolAssumption
  <2>3. (Len(queue) < MaxQueue \/ Len(queue) = 0) /\ Len(queue') = Len(queue) + 1
    BY <1>e, <1>f, Zenon
  <2> QED
    BY <2>1, <2>2, <2>3
<1> USE DEF Types, WebTypes
<1>1. ASSUME NEW r \in Requests, Receive(r) PROVE WebTypes'
  BY <1>1, ReceiveDoes
<1>2. ASSUME NEW r \in Requests, Enqueue(r) PROVE WebTypes'
  <2>2. Len(queue') <= MaxQueue \/ Len(queue') = 1
    BY <1>2, <1>f
  <2>3. /\ req' \in [Requests -> {"none", "enqueue", "refused", "submitted"}]
        /\ status' \in [Requests -> {0, 201, 400, 405}]
    BY <1>2, <1>e
  <2>4. queue' \in Seq(Requests)
    BY <1>2, <1>e
  <2> QED
    BY <2>2, <2>3, <2>4
<1>3. CASE DispatchReceive
  <2>1. Len(queue) \in Nat
    BY Elements
  <2> QED
    BY <1>3, <2>1, DispatchReceiveDoes, PoolAssumption
<1>4. CASE DispatchStore
  BY <1>4, DispatchStoreDoes
<1>5. CASE DispatchGo
  BY <1>5, DispatchGoDoes
<1>6. ASSUME NEW g \in DOMAIN gor, GoroutineStep(g) PROVE WebTypes'
  BY <1>6, FetchDoes, LoadDoes, SendDoes DEF GoroutineStep
<1>7. ASSUME NEW w \in Workers, WorkerStep(w) \/ Stop(w) PROVE WebTypes'
  BY <1>7, RegisterDoes, CompleteDoes, StopDoes, QuitDoes DEF WorkerStep
<1> QED
  BY <1>1, <1>2, <1>3, <1>4, <1>5, <1>6, <1>7 DEF Next, HandlerStep, DispatcherStep

LEMMA DispatchStep ==
  ASSUME Types, Next
  PROVE  DispatchTypes'
<1> USE DEF Types, DispatchTypes
<1>1. ASSUME NEW r \in Requests, HandlerStep(r) PROVE DispatchTypes'
  BY <1>1, ReceiveDoes, EnqueueDoes DEF HandlerStep
<1>2. CASE DispatchReceive
  BY <1>2, DispatchReceiveDoes
<1>3. CASE DispatchStore
  <2>1. cells' # <<>>
    BY <1>3, DispatchStoreDoes, Elements
  <2> QED
    BY <1>3, <2>1, DispatchStoreDoes
<1>4. CASE DispatchGo
  BY <1>4, DispatchGoDoes DEF Idle
<1>5. ASSUME NEW g \in DOMAIN gor, GoroutineStep(g) PROVE DispatchTypes'
  BY <1>5, FetchDoes, LoadDoes, SendDoes DEF GoroutineStep
<1>6. ASSUME NEW w \in Workers, WorkerStep(w) \/ Stop(w) PROVE DispatchTypes'
  BY <1>6, RegisterDoes, CompleteDoes, StopDoes, QuitDoes DEF WorkerStep
<1> QED
  BY <1>1, <1>2, <1>3, <1>4, <1>5, <1>6 DEF Next, DispatcherStep

LEMMA GoroutineTypesStep ==
  ASSUME Types, Next
  PROVE  GoroutineTypes'
<1> USE DEF Types, GoroutineTypes, Holds
<1>1. ASSUME NEW r \in Requests, HandlerStep(r) PROVE GoroutineTypes'
  BY <1>1, ReceiveDoes, EnqueueDoes DEF HandlerStep
<1>2. CASE DispatchReceive
  BY <1>2, DispatchReceiveDoes
<1>3. CASE DispatchStore
  BY <1>3, DispatchStoreDoes
<1>4. CASE DispatchGo
  BY <1>4, DispatchGoDoes
<1>5. ASSUME NEW g \in DOMAIN gor, Fetch(g) PROVE GoroutineTypes'
  BY <1>5, FetchDoes
<1>6. ASSUME NEW g \in DOMAIN gor, Load(g) PROVE GoroutineTypes'
  BY <1>6, LoadDoes
<1>7. ASSUME NEW g \in DOMAIN gor, Send(g) PROVE GoroutineTypes'
  BY <1>7, SendDoes
<1>8. ASSUME NEW w \in Workers, WorkerStep(w) \/ Stop(w) PROVE GoroutineTypes'
  BY <1>8, RegisterDoes, CompleteDoes, StopDoes, QuitDoes DEF WorkerStep
<1> QED
  BY <1>1, <1>2, <1>3, <1>4, <1>5, <1>6, <1>7, <1>8 DEF Next, DispatcherStep, GoroutineStep

LEMMA CrewStep ==
  ASSUME Types, Next
  PROVE  CrewTypes'
<1> USE DEF Types, CrewTypes
<1>a. Cardinality(Workers) \in Nat
  BY PoolAssumption, FS_CardinalityType
<1>b. Len(pool) \in Nat
  BY Elements
<1>1. ASSUME NEW r \in Requests, HandlerStep(r) PROVE CrewTypes'
  BY <1>1, ReceiveDoes, EnqueueDoes DEF HandlerStep
<1>2. CASE DispatcherStep
  BY <1>2, DispatchReceiveDoes, DispatchStoreDoes, DispatchGoDoes DEF DispatcherStep
<1>3. ASSUME NEW g \in DOMAIN gor, Fetch(g) PROVE CrewTypes'
  BY <1>3, <1>a, <1>b, FetchDoes
<1>4. ASSUME NEW g \in DOMAIN gor, Load(g) PROVE CrewTypes'
  BY <1>4, LoadDoes
<1>5. ASSUME NEW g \in DOMAIN gor, Send(g) PROVE CrewTypes'
  <2>1. gor[g].job.name \in Requests \cup {Nobody}
    BY <1>5, SendDoes DEF Jobs, Words
  <2>2. /\ gor[g].to \in Workers /\ gor[g].job \in Jobs
        /\ worker' = [worker EXCEPT ![gor[g].to] = "busy"]
        /\ task' = [task EXCEPT ![gor[g].to] = gor[g].job]
        /\ runner' = [runner EXCEPT ![gor[g].job.name] = gor[g].to]
        /\ UNCHANGED <<pool, stops, finished>>
    BY <1>5, SendDoes
  <2> QED
    BY <2>1, <2>2
<1>6. ASSUME NEW w \in Workers, Register(w) PROVE CrewTypes'
  <2>1. Len(pool') <= Cardinality(Workers)
    BY <1>6, <1>a, <1>b, RegisterDoes
  <2>2. worker' \in [Workers -> {"register", "idle", "busy", "stopped"}]
    BY <1>6, RegisterDoes
  <2> QED
    BY <1>6, <2>1, <2>2, RegisterDoes
<1>7. ASSUME NEW w \in Workers, Complete(w) PROVE CrewTypes'
  <2>1. task[w].name \in Requests \cup {Nobody}
    BY DEF Jobs, Words
  <2> QED
    BY <1>7, <2>1, CompleteDoes
<1>8. ASSUME NEW w \in Workers, Quit(w) \/ Stop(w) PROVE CrewTypes'
  BY <1>8, QuitDoes, StopDoes
<1> QED
  BY <1>1, <1>2, <1>3, <1>4, <1>5, <1>6, <1>7, <1>8 DEF Next, GoroutineStep, WorkerStep

-----------------------------------------------------------------------------
(* Claims.                                                                 *)

\* Steps that leave pool, workers and the holding goroutines alone.
LEMMA ClaimsKept ==
  ASSUME Claimed, UNCHANGED <<pool, worker>>, DOMAIN gor \subseteq DOMAIN gor',
         \A g \in DOMAIN gor' : Holds(g)' => g \in DOMAIN gor /\ Holds(g),
         \A g \in DOMAIN gor : Holds(g) => Holds(g)' /\ gor'[g].to = gor[g].to
  PROVE  Claimed'
<1>1. \A w : Held(w)' <=> Held(w)
  BY DEF Held
<1>2. \A w : InPool(w)' <=> InPool(w)
  BY DEF InPool
<1> QED
  BY <1>1, <1>2 DEF Claimed

LEMMA ClaimedStep ==
  ASSUME Types, Claimed, Next
  PROVE  Claimed'
<1>1. ASSUME NEW r \in Requests, HandlerStep(r) PROVE Claimed'
  BY <1>1, ReceiveDoes, EnqueueDoes, ClaimsKept DEF HandlerStep, Holds
<1>2. CASE DispatchReceive \/ DispatchStore
  BY <1>2, DispatchReceiveDoes, DispatchStoreDoes, ClaimsKept DEF Holds
<1>3. CASE DispatchGo
  <2>a. /\ UNCHANGED <<pool, worker>> /\ DOMAIN gor' = DOMAIN gor \cup {Len(gor) + 1}
        /\ \A g \in DOMAIN gor : gor'[g] = gor[g]
    BY <1>3, DispatchGoDoes
  <2>b. gor'[Len(gor) + 1].pc = "fetch"
    BY <1>3, DispatchGoDoes
  <2>1. /\ UNCHANGED <<pool, worker>> /\ DOMAIN gor \subseteq DOMAIN gor'
        /\ \A g \in DOMAIN gor : gor'[g] = gor[g]
        /\ \A g \in DOMAIN gor' : g \notin DOMAIN gor => gor'[g].pc = "fetch"
    BY <2>a, <2>b
  <2>2. \A g \in DOMAIN gor' : Holds(g)' => g \in DOMAIN gor /\ Holds(g)
    BY <2>1 DEF Holds
  <2>3. \A g \in DOMAIN gor : Holds(g) => Holds(g)' /\ gor'[g].to = gor[g].to
    BY <2>1 DEF Holds
  <2> QED
    BY <2>1, <2>2, <2>3, ClaimsKept
<1>4. ASSUME NEW g \in DOMAIN gor, Fetch(g) PROVE Claimed'
  <2> DEFINE v == pool[1]
  <2>1. /\ Holds(g)' /\ gor'[g].to = v /\ ~Holds(g) /\ 1 \in DOMAIN pool
        /\ \A h \in DOMAIN gor : h # g => (Holds(h)' <=> Holds(h)) /\ gor'[h].to = gor[h].to
        /\ DOMAIN gor' = DOMAIN gor
    BY <1>4, FetchDoes DEF Holds
  <2>2. \A i \in DOMAIN pool : i \in Nat
    BY DEF Types, CrewTypes
  <2>3. \A i, j \in DOMAIN pool' : pool'[i] = pool'[j] => i = j
    BY <1>4, <2>2, FetchDoes DEF Claimed, Types, CrewTypes
  <2>4. \A w : InPool(w)' <=> InPool(w) /\ w # v
    <3>1. \A i \in DOMAIN pool' : i \in Nat /\ i # 0
      BY <1>4, FetchDoes
    <3> SUFFICES ASSUME NEW w PROVE InPool(w)' <=> InPool(w) /\ w # v
      OBVIOUS
    <3>2. ASSUME InPool(w)' PROVE InPool(w) /\ w # v
      <4>1. PICK i \in DOMAIN pool' : pool'[i] = w
        BY <3>2 DEF InPool
      <4>2. i + 1 \in DOMAIN pool /\ pool[i + 1] = w /\ i + 1 # 1
        BY <1>4, <3>1, <4>1, FetchDoes
      <4> QED
        BY <2>1, <4>2 DEF InPool, Claimed
    <3>3. ASSUME InPool(w), w # v PROVE InPool(w)'
      <4>1. PICK i \in DOMAIN pool : pool[i] = w
        BY <3>3 DEF InPool
      <4>2. i - 1 \in DOMAIN pool' /\ (i - 1) + 1 = i
        BY <1>4, <2>2, <3>3, <4>1, FetchDoes
      <4>3. pool'[i - 1] = pool[(i - 1) + 1]
        BY <1>4, <4>2, FetchDoes
      <4>4. pool'[i - 1] = w
        BY <4>1, <4>2, <4>3
      <4> QED
        BY <4>2, <4>4 DEF InPool
    <3> QED
      BY <3>2, <3>3
  <2>5. InPool(v)
    BY <2>1 DEF InPool
  <2>6. \A w : Held(w)' <=> Held(w) \/ w = v
    BY <2>1 DEF Held
  <2>7. UNCHANGED worker
    BY <1>4, FetchDoes
  <2>8. \A h \in DOMAIN gor : Holds(h) => gor[h].to # v
    BY <2>5, <1>4, FetchDoes DEF Claimed, Held
  <2>9. \A f, h \in DOMAIN gor' : (Holds(f)' /\ Holds(h)' /\ gor'[f].to = gor'[h].to) => f = h
    BY <2>1, <2>8 DEF Claimed
  <2>10. \A u \in Workers : ~(InPool(u)' /\ Held(u)')
    BY <2>4, <2>6 DEF Claimed
  <2>11. \A w \in Workers : worker'[w] \in {"idle", "stopped"} <=> InPool(w)' \/ Held(w)'
    BY <2>4, <2>5, <2>6, <2>7 DEF Claimed
  <2> QED
    BY <2>3, <2>9, <2>10, <2>11 DEF Claimed
<1>5. ASSUME NEW g \in DOMAIN gor, Load(g) PROVE Claimed'
  BY <1>5, LoadDoes, ClaimsKept DEF Holds
<1>6. ASSUME NEW g \in DOMAIN gor, Send(g) PROVE Claimed'
  <2>1. PICK v \in Workers : v = gor[g].to
    BY <1>6, SendDoes
  <2>2. /\ Holds(g) /\ ~Holds(g)' /\ DOMAIN gor' = DOMAIN gor
        /\ \A h \in DOMAIN gor : h # g => (Holds(h)' <=> Holds(h)) /\ gor'[h].to = gor[h].to
        /\ UNCHANGED pool /\ worker' = [worker EXCEPT ![v] = "busy"]
    BY <1>6, <2>1, SendDoes DEF Holds
  <2>3. \A w : InPool(w)' <=> InPool(w)
    BY <2>2 DEF InPool
  <2>4. \A w : Held(w)' <=> Held(w) /\ w # v
    BY <2>1, <2>2 DEF Held, Claimed
  <2>5. ~InPool(v)
    BY <2>1, <2>2 DEF Claimed, Held
  <2>6. \A w \in Workers : worker'[w] = IF w = v THEN "busy" ELSE worker[w]
    BY <2>2 DEF Types, CrewTypes
  <2>7. \A w \in Workers : worker'[w] \in {"idle", "stopped"} <=> InPool(w)' \/ Held(w)'
    BY <2>3, <2>4, <2>5, <2>6 DEF Claimed
  <2>8. \A f, h \in DOMAIN gor' : (Holds(f)' /\ Holds(h)' /\ gor'[f].to = gor'[h].to) => f = h
    BY <2>2 DEF Claimed
  <2>9. \A u \in Workers : ~(InPool(u)' /\ Held(u)')
    BY <2>3, <2>4 DEF Claimed
  <2> QED
    BY <2>2, <2>7, <2>8, <2>9 DEF Claimed
<1>7. ASSUME NEW w \in Workers, Register(w) PROVE Claimed'
  <2>1. /\ DOMAIN pool' = DOMAIN pool \cup {Len(pool) + 1} /\ Len(pool) + 1 \notin DOMAIN pool
        /\ \A i \in DOMAIN pool : pool'[i] = pool[i]
        /\ pool'[Len(pool) + 1] = w /\ worker[w] = "register"
        /\ UNCHANGED gor
    BY <1>7, RegisterDoes
  <2>2. ~InPool(w) /\ ~Held(w)
    BY <2>1 DEF Claimed
  <2>3. \A v : InPool(v)' <=> InPool(v) \/ v = w
    BY <2>1 DEF InPool
  <2>4. \A v : Held(v)' <=> Held(v)
    BY <2>1 DEF Held, Holds
  <2>5. \A v \in Workers : worker'[v] = IF v = w THEN "idle" ELSE worker[v]
    BY <1>7, RegisterDoes DEF Types, CrewTypes
  <2>6. \A i, j \in DOMAIN pool' : pool'[i] = pool'[j] => i = j
    BY <2>1, <2>2 DEF Claimed, InPool
  <2>7. \A v \in Workers : worker'[v] \in {"idle", "stopped"} <=> InPool(v)' \/ Held(v)'
    BY <2>3, <2>4, <2>5 DEF Claimed
  <2>8. \A h \in DOMAIN gor : Holds(h) => gor[h].to # w
    BY <2>2 DEF Held
  <2>9. \A u \in Workers : ~(InPool(u)' /\ Held(u)')
    BY <2>2, <2>3, <2>4 DEF Claimed
  <2>10. \A f, h \in DOMAIN gor' : (Holds(f)' /\ Holds(h)' /\ gor'[f].to = gor'[h].to) => f = h
    BY <2>1 DEF Claimed, Holds
  <2> QED
    BY <2>6, <2>7, <2>9, <2>10 DEF Claimed
<1>8. ASSUME NEW w \in Workers, Complete(w) \/ Quit(w) PROVE Claimed'
  <2>1. /\ UNCHANGED <<gor, pool>>
        /\ \A v \in Workers : worker'[v] \in {"idle", "stopped"}
                                <=> worker[v] \in {"idle", "stopped"}
    BY <1>8, CompleteDoes, QuitDoes DEF Types, CrewTypes
  <2>2. \A v : (InPool(v)' <=> InPool(v)) /\ (Held(v)' <=> Held(v))
    BY <2>1 DEF InPool, Held, Holds
  <2> QED
    BY <2>1, <2>2 DEF Claimed, Holds
<1>9. ASSUME NEW w \in Workers, Stop(w) PROVE Claimed'
  BY <1>9, StopDoes, ClaimsKept DEF Holds
<1> QED
  BY <1>1, <1>2, <1>3, <1>4, <1>5, <1>6, <1>7, <1>8, <1>9
     DEF Next, DispatcherStep, GoroutineStep, WorkerStep

-----------------------------------------------------------------------------
(* What a goroutine has captured, if each iteration has its own variable.  *)

LEMMA CellsKept ==
  ASSUME Types, Once, Captured, Next
  PROVE  \A g \in DOMAIN gor :
           /\ g \in DOMAIN gor' /\ gor'[g].cell = gor[g].cell
           /\ cells'[gor[g].cell] = cells[gor[g].cell]
<1> SUFFICES ASSUME NEW g \in DOMAIN gor
             PROVE  /\ g \in DOMAIN gor' /\ gor'[g].cell = gor[g].cell
                    /\ cells'[gor[g].cell] = cells[gor[g].cell]
  OBVIOUS
<1>1. gor[g].cell \in DOMAIN cells
  BY DEF Types, GoroutineTypes
<1>2. ASSUME NEW r \in Requests, HandlerStep(r)
      PROVE  g \in DOMAIN gor' /\ gor'[g].cell = gor[g].cell /\ UNCHANGED cells
  BY <1>2, ReceiveDoes, EnqueueDoes DEF HandlerStep
<1>3. CASE DispatchReceive
  BY <1>1, <1>3, DispatchReceiveDoes
<1>4. CASE DispatchStore
  <2>1. gor[g].cell < Len(cells) /\ gor[g].cell # Len(cells)
    <3>1. gor[g].cell < Len(cells)
      BY <1>4, DispatchStoreDoes DEF Captured
    <3>2. gor[g].cell \in Nat /\ Len(cells) \in Nat
      BY <1>1, Elements DEF Types, DispatchTypes
    <3> QED
      BY <3>1, <3>2
  <2> QED
    BY <1>1, <1>4, <2>1, DispatchStoreDoes
<1>5. CASE DispatchGo
  BY <1>5, DispatchGoDoes
<1>6. ASSUME NEW h \in DOMAIN gor, GoroutineStep(h)
      PROVE  g \in DOMAIN gor' /\ gor'[g].cell = gor[g].cell /\ UNCHANGED cells
  BY <1>6, FetchDoes, LoadDoes, SendDoes DEF GoroutineStep
<1>7. ASSUME NEW w \in Workers, WorkerStep(w) \/ Stop(w)
      PROVE  g \in DOMAIN gor' /\ gor'[g].cell = gor[g].cell /\ UNCHANGED cells
  BY <1>7, RegisterDoes, CompleteDoes, StopDoes, QuitDoes DEF WorkerStep
<1> QED
  BY <1>2, <1>3, <1>4, <1>5, <1>6, <1>7 DEF Next, DispatcherStep

LEMMA OfKept ==
  ASSUME Types, Once, Captured, Next
  PROVE  \A g \in DOMAIN gor : g \in DOMAIN gor' /\ Of(g)' = Of(g)
BY CellsKept DEF Of

\* The only step that adds a goroutine; what it will find is the job in hand.
LEMMA OneMore ==
  ASSUME Types, Once, Captured, Next
  PROVE  \A g \in DOMAIN gor' : g \in DOMAIN gor \/ (DispatchGo /\ g = Len(gor) + 1)
<1>1. ASSUME NEW r \in Requests, HandlerStep(r) PROVE UNCHANGED gor
  BY <1>1, ReceiveDoes, EnqueueDoes DEF HandlerStep
<1>2. CASE DispatchReceive \/ DispatchStore
  BY <1>2, DispatchReceiveDoes, DispatchStoreDoes
<1>3. CASE DispatchGo
  <2>1. DOMAIN gor' = DOMAIN gor \cup {Len(gor) + 1}
    BY <1>3, DispatchGoDoes
  <2> QED
    BY <1>3, <2>1
<1>4. ASSUME NEW g \in DOMAIN gor, GoroutineStep(g) PROVE DOMAIN gor' = DOMAIN gor
  BY <1>4, FetchDoes, LoadDoes, SendDoes DEF GoroutineStep
<1>5. ASSUME NEW w \in Workers, WorkerStep(w) \/ Stop(w) PROVE UNCHANGED gor
  BY <1>5, RegisterDoes, CompleteDoes, StopDoes, QuitDoes DEF WorkerStep
<1> QED
  BY <1>1, <1>2, <1>3, <1>4, <1>5 DEF Next, DispatcherStep

LEMMA NewRoutine ==
  ASSUME Types, Once, Captured, DispatchGo, NEW g, g = Len(gor) + 1
  PROVE  /\ g \in DOMAIN gor' /\ g \notin DOMAIN gor
         /\ Of(g)' = hand /\ hand \in Requests
         /\ \A w \in Words : cells'[gor'[g].cell][w] = hand
         /\ gor'[g].pc = "fetch" /\ gor'[g].todo = Words
<1>1. /\ gor'[g] = [pc |-> "fetch", cell |-> Len(cells), todo |-> Words,
                    job |-> NoJob, to |-> Nobody]
      /\ disp.at = "store" /\ disp.todo = {} /\ UNCHANGED cells
      /\ g \in DOMAIN gor' /\ g \notin DOMAIN gor
  BY DispatchGoDoes
<1>2. \A w \in Words : cells'[gor'[g].cell][w] = hand
  BY <1>1 DEF Captured
<1>3. hand \in Requests
  BY <1>1 DEF Types, DispatchTypes
<1> QED
  BY <1>1, <1>2, <1>3 DEF Of, Words

\* What a goroutine has loaded, and where it is.
HasLoaded(g) ==
  /\ gor[g].pc = "fetch" => gor[g].todo = Words
  /\ gor[g].pc \in {"send", "done"} => gor[g].todo = {}
  /\ \A w \in Words \ gor[g].todo : gor[g].job[w] = Of(g)

LEMMA LoadedKept ==
  ASSUME Types, Once, Captured, Next, NEW g \in DOMAIN gor
  PROVE  HasLoaded(g)'
<1>1. Of(g)' = Of(g)
  BY OfKept
<1>2. HasLoaded(g)
  BY DEF Captured, HasLoaded
<1>3. ASSUME gor'[g] = gor[g] PROVE HasLoaded(g)'
  BY <1>1, <1>2, <1>3 DEF HasLoaded
<1>4. ASSUME NEW r \in Requests, HandlerStep(r) PROVE HasLoaded(g)'
  BY <1>3, <1>4, ReceiveDoes, EnqueueDoes DEF HandlerStep
<1>5. CASE DispatcherStep
  BY <1>3, <1>5, DispatchReceiveDoes, DispatchStoreDoes, DispatchGoDoes DEF DispatcherStep
<1>6. ASSUME NEW h \in DOMAIN gor, Fetch(h) PROVE HasLoaded(g)'
  <2>1. CASE h = g
    BY <1>1, <1>2, <1>6, <2>1, FetchDoes DEF HasLoaded
  <2> QED
    BY <1>3, <1>6, <2>1, FetchDoes
<1>7. ASSUME NEW h \in DOMAIN gor, Load(h) PROVE HasLoaded(g)'
  <2>1. CASE h = g
    <3>1. PICK v \in Words :
            /\ gor'[g].todo = gor[g].todo \ {v}
            /\ gor'[g].job[v] = cells[gor[g].cell][v]
            /\ \A u \in Words : u # v => gor'[g].job[u] = gor[g].job[u]
      BY <1>7, <2>1, LoadDoes
    <3>2. cells[gor[g].cell][v] = Of(g)
      BY DEF Captured
    <3>3. \A u \in Words \ gor'[g].todo : gor'[g].job[u] = Of(g)
      BY <1>2, <3>1, <3>2 DEF HasLoaded
    <3>4. gor'[g].pc \in {"load", "send"} /\ (gor'[g].pc = "send" => gor'[g].todo = {})
      BY <1>7, <2>1, LoadDoes
    <3> QED
      BY <1>1, <3>3, <3>4 DEF HasLoaded
  <2> QED
    BY <1>3, <1>7, <2>1, LoadDoes
<1>8. ASSUME NEW h \in DOMAIN gor, Send(h) PROVE HasLoaded(g)'
  <2>1. CASE h = g
    BY <1>1, <1>2, <1>8, <2>1, SendDoes DEF HasLoaded
  <2> QED
    BY <1>3, <1>8, <2>1, SendDoes
<1>9. ASSUME NEW w \in Workers, WorkerStep(w) \/ Stop(w) PROVE HasLoaded(g)'
  BY <1>3, <1>9, RegisterDoes, CompleteDoes, StopDoes, QuitDoes DEF WorkerStep
<1> QED
  BY <1>4, <1>5, <1>6, <1>7, <1>8, <1>9 DEF Next, GoroutineStep

\* The variable of the current iteration: no goroutine has it yet.
Current ==
  disp.at = "store" =>
    /\ \A g \in DOMAIN gor : gor[g].cell < Len(cells)
    /\ \A w \in Words \ disp.todo : cells[Len(cells)][w] = hand

LEMMA CurrentStep ==
  ASSUME Types, Once, Captured, Next
  PROVE  Current'
<1> SUFFICES ASSUME disp'.at = "store" PROVE Current'
  BY DEF Current
<1>1. CASE DispatchReceive
  <2>1. \A g \in DOMAIN gor : gor[g].cell \in 1..Len(cells)
    BY Elements DEF Types, GoroutineTypes, DispatchTypes
  <2>2. /\ Len(cells') = Len(cells) + 1 /\ disp'.todo = Words /\ UNCHANGED gor
    BY <1>1, DispatchReceiveDoes
  <2>3. Len(cells) \in Nat
    BY Elements DEF Types, DispatchTypes
  <2> QED
    BY <2>1, <2>2, <2>3 DEF Current
<1>2. CASE DispatchStore
  <2>1. PICK w \in disp.todo :
          /\ disp'.todo = disp.todo \ {w}
          /\ cells'[Len(cells)][w] = hand
          /\ \A v \in Words : v # w => cells'[Len(cells)][v] = cells[Len(cells)][v]
    BY <1>2, DispatchStoreDoes
  <2>2. disp.at = "store" /\ Len(cells') = Len(cells) /\ UNCHANGED <<gor, hand>>
    BY <1>2, DispatchStoreDoes
  <2> QED
    BY <2>1, <2>2 DEF Current, Captured
<1>3. CASE DispatchGo
  BY <1>3, DispatchGoDoes DEF Idle
<1>4. Current
  BY DEF Captured, Current
<1>5. ASSUME NEW r \in Requests, HandlerStep(r) PROVE Current'
  BY <1>4, <1>5, ReceiveDoes, EnqueueDoes DEF HandlerStep, Current
<1>6. ASSUME NEW g \in DOMAIN gor, GoroutineStep(g) PROVE Current'
  <2>1. /\ DOMAIN gor' = DOMAIN gor /\ UNCHANGED <<disp, hand, cells>>
    BY <1>6, FetchDoes, LoadDoes, SendDoes DEF GoroutineStep
  <2> QED
    BY <1>4, <2>1, CellsKept DEF Current
<1>7. ASSUME NEW w \in Workers, WorkerStep(w) \/ Stop(w) PROVE Current'
  BY <1>4, <1>7, RegisterDoes, CompleteDoes, StopDoes, QuitDoes DEF WorkerStep, Current
<1> QED
  BY <1>1, <1>2, <1>3, <1>5, <1>6, <1>7 DEF Next, DispatcherStep

LEMMA CapturedStep ==
  ASSUME Types, Once, Captured, Next
  PROVE  Captured'
<1>1. Current'
  BY CurrentStep
<1>2. \A g \in DOMAIN gor' : Of(g)' \in Requests
  <2> SUFFICES ASSUME NEW g \in DOMAIN gor' PROVE Of(g)' \in Requests
    OBVIOUS
  <2> QED
    BY OneMore, OfKept, NewRoutine DEF Captured
<1>3. \A g \in DOMAIN gor' : \A w \in Words : cells'[gor'[g].cell][w] = Of(g)'
  <2> SUFFICES ASSUME NEW g \in DOMAIN gor', NEW w \in Words
               PROVE  cells'[gor'[g].cell][w] = Of(g)'
    OBVIOUS
  <2>1. CASE g \in DOMAIN gor
    BY <2>1, CellsKept, OfKept DEF Captured
  <2>2. CASE g \notin DOMAIN gor
    BY <2>2, OneMore, NewRoutine
  <2> QED
    BY <2>1, <2>2
<1>4. \A g \in DOMAIN gor' : HasLoaded(g)'
  <2> SUFFICES ASSUME NEW g \in DOMAIN gor' PROVE HasLoaded(g)'
    OBVIOUS
  <2>1. CASE g \in DOMAIN gor
    BY <2>1, LoadedKept
  <2>2. CASE g \notin DOMAIN gor
    BY <2>2, OneMore, NewRoutine DEF HasLoaded
  <2> QED
    BY <2>1, <2>2
<1> QED
  BY <1>1, <1>2, <1>3, <1>4 DEF Captured, Current, HasLoaded

-----------------------------------------------------------------------------
(* The way of a job from the queue to its goroutine.                       *)

\* Steps that move no job.
LEMMA WayKept ==
  ASSUME Types, Once, Captured, Way, Next,
         UNCHANGED queue, DOMAIN gor' = DOMAIN gor,
         \A r \in Requests : InHand(r)' <=> InHand(r),
         \A r \in Requests : req'[r] = "submitted" <=> req[r] = "submitted"
  PROVE  Way'
<1>1. \A r : Queued(r)' <=> Queued(r)
  BY DEF Queued
<1>2. \A r : OnItsWay(r)' <=> OnItsWay(r)
  BY OfKept DEF OnItsWay
<1> QED
  BY <1>1, <1>2, OfKept DEF Way

LEMMA WayStep ==
  ASSUME Types, Once, Captured, Way, Next
  PROVE  Way'
<1>1. ASSUME NEW r \in Requests, Receive(r) PROVE Way'
  <2>1. /\ UNCHANGED <<queue, gor, disp, hand>>
        /\ \A q \in Requests : req'[q] = "submitted" <=> req[q] = "submitted"
    BY <1>1, ReceiveDoes
  <2> QED
    BY <2>1, WayKept DEF InHand
<1>2. ASSUME NEW r \in Requests, Enqueue(r) PROVE Way'
  <2>1. /\ DOMAIN queue' = DOMAIN queue \cup {Len(queue) + 1}
        /\ Len(queue) + 1 \notin DOMAIN queue
        /\ \A i \in DOMAIN queue : queue'[i] = queue[i]
        /\ queue'[Len(queue) + 1] = r /\ req[r] = "enqueue"
        /\ UNCHANGED <<disp, hand, gor>>
    BY <1>2, EnqueueDoes
  <2>2. \A q \in Requests : req'[q] = IF q = r THEN "submitted" ELSE req[q]
    BY <1>2, EnqueueDoes DEF Types, WebTypes
  <2>3. ~Queued(r) /\ ~InHand(r) /\ ~OnItsWay(r)
    BY <2>1 DEF Way
  <2>4. \A q : Queued(q)' <=> Queued(q) \/ q = r
    BY <2>1 DEF Queued
  <2>5. \A q : (InHand(q)' <=> InHand(q)) /\ (OnItsWay(q)' <=> OnItsWay(q))
    BY <2>1, OfKept DEF InHand, OnItsWay
  <2>6. \A i, j \in DOMAIN queue' : queue'[i] = queue'[j] => i = j
    BY <2>1, <2>3 DEF Queued, Way
  <2>7. \A g, h \in DOMAIN gor' : Of(g)' = Of(h)' => g = h
    BY <2>1, OfKept DEF Way
  <2> QED
    BY <2>2, <2>3, <2>4, <2>5, <2>6, <2>7 DEF Way
<1>3. CASE DispatchReceive
  <2>1. /\ disp.at = "range" /\ disp'.at = "store" /\ 1 \in DOMAIN queue /\ hand' = queue[1]
        /\ UNCHANGED <<req, gor>>
    BY <1>3, DispatchReceiveDoes
  <2>2. \A i \in DOMAIN queue : i \in Nat
    BY DEF Types, WebTypes
  <2>3. \A i \in DOMAIN queue' : i \in Nat /\ i # 0 /\ i + 1 \in DOMAIN queue
                                   /\ queue'[i] = queue[i + 1]
    BY <1>3, DispatchReceiveDoes
  <2>4. \A i, j \in DOMAIN queue' : queue'[i] = queue'[j] => i = j
    BY <2>3 DEF Way
  <2>5. \A q : Queued(q)' <=> Queued(q) /\ q # hand'
    <3> SUFFICES ASSUME NEW q PROVE Queued(q)' <=> Queued(q) /\ q # hand'
      OBVIOUS
    <3>1. ASSUME Queued(q)' PROVE Queued(q) /\ q # hand'
      <4>1. PICK i \in DOMAIN queue' : queue'[i] = q
        BY <3>1 DEF Queued
      <4>2. i + 1 \in DOMAIN queue /\ queue[i + 1] = q /\ i + 1 # 1
        BY <2>3, <4>1
      <4> QED
        BY <2>1, <4>2 DEF Queued, Way
    <3>2. ASSUME Queued(q), q # hand' PROVE Queued(q)'
      <4>1. PICK i \in DOMAIN queue : queue[i] = q
        BY <3>2 DEF Queued
      <4>2. i - 1 \in DOMAIN queue' /\ (i - 1) + 1 = i
        BY <1>3, <2>1, <2>2, <3>2, <4>1, DispatchReceiveDoes
      <4>3. queue'[i - 1] = queue[(i - 1) + 1]
        BY <2>3, <4>2
      <4>4. queue'[i - 1] = q
        BY <4>1, <4>2, <4>3
      <4> QED
        BY <4>2, <4>4 DEF Queued
    <3> QED
      BY <3>1, <3>2
  <2>6. Queued(hand')
    BY <2>1 DEF Queued
  <2>7. \A q : (InHand(q)' <=> q = hand') /\ ~InHand(q)
    BY <2>1 DEF InHand
  <2>8. \A q : OnItsWay(q)' <=> OnItsWay(q)
    BY <2>1, OfKept DEF OnItsWay
  <2>9. \A g, h \in DOMAIN gor' : Of(g)' = Of(h)' => g = h
    BY <2>1, OfKept DEF Way
  <2>10. hand' \in Requests
    BY <1>3, DispatchReceiveDoes
  <2> DEFINE r == hand'
  <2>11. ~OnItsWay(r)
    BY <2>6, <2>10 DEF Way
  <2>12. \A q \in Requests : req'[q] = "submitted" <=> Queued(q)' \/ InHand(q)' \/ OnItsWay(q)'
    BY <2>1, <2>5, <2>6, <2>7, <2>8 DEF Way
  <2>13. \A q \in Requests : /\ ~(Queued(q)' /\ InHand(q)')
                             /\ ~(Queued(q)' /\ OnItsWay(q)')
                             /\ ~(InHand(q)' /\ OnItsWay(q)')
    BY <2>5, <2>7, <2>8, <2>11 DEF Way
  <2> QED
    BY <2>4, <2>9, <2>12, <2>13 DEF Way
<1>4. CASE DispatchStore
  <2>1. /\ UNCHANGED <<queue, gor, req, hand>> /\ disp.at = "store" /\ disp'.at = "store"
    BY <1>4, DispatchStoreDoes
  <2> QED
    BY <2>1, WayKept DEF InHand
<1>5. CASE DispatchGo
  <2>a. PICK n : n = Len(gor) + 1
    OBVIOUS
  <2>b. disp'.at = "range"
    BY <1>5, DispatchGoDoes DEF Idle
  <2>1. /\ disp.at = "store" /\ disp'.at = "range" /\ UNCHANGED <<queue, req>>
        /\ DOMAIN gor' = DOMAIN gor \cup {n} /\ n \notin DOMAIN gor
    BY <1>5, <2>a, <2>b, DispatchGoDoes
  <2>2. Of(n)' = hand /\ hand \in Requests
    BY <1>5, <2>a, NewRoutine
  <2>3. \A q : (InHand(q) <=> q = hand) /\ ~InHand(q)'
    BY <2>1 DEF InHand
  <2>4. \A q : OnItsWay(q)' <=> OnItsWay(q) \/ q = hand
    BY <2>1, <2>2, OfKept DEF OnItsWay
  <2>5. \A q : Queued(q)' <=> Queued(q)
    BY <2>1 DEF Queued
  <2>6. ~OnItsWay(hand) /\ ~Queued(hand)
    BY <2>2, <2>3 DEF Way
  <2>7. \A g \in DOMAIN gor : Of(g) # hand
    BY <2>6 DEF OnItsWay
  <2>8. \A g, h \in DOMAIN gor' : Of(g)' = Of(h)' => g = h
    BY <2>1, <2>2, <2>7, OfKept DEF Way
  <2>9. \A i, j \in DOMAIN queue' : queue'[i] = queue'[j] => i = j
    BY <2>1 DEF Way
  <2>10. \A q \in Requests : /\ ~(Queued(q)' /\ InHand(q)')
                             /\ ~(Queued(q)' /\ OnItsWay(q)')
                             /\ ~(InHand(q)' /\ OnItsWay(q)')
    BY <2>3, <2>4, <2>5, <2>6 DEF Way
  <2>11. \A q \in Requests : req'[q] = "submitted" <=> Queued(q)' \/ InHand(q)' \/ OnItsWay(q)'
    BY <2>1, <2>3, <2>4, <2>5 DEF Way
  <2> QED
    BY <2>8, <2>9, <2>10, <2>11 DEF Way
<1>6. ASSUME NEW g \in DOMAIN gor, GoroutineStep(g) PROVE Way'
  <2>1. UNCHANGED <<queue, req, disp, hand>> /\ DOMAIN gor' = DOMAIN gor
    BY <1>6, FetchDoes, LoadDoes, SendDoes DEF GoroutineStep
  <2> QED
    BY <2>1, WayKept DEF InHand
<1>7. ASSUME NEW w \in Workers, WorkerStep(w) \/ Stop(w) PROVE Way'
  <2>1. UNCHANGED <<queue, req, disp, hand, gor>>
    BY <1>7, RegisterDoes, CompleteDoes, StopDoes, QuitDoes DEF WorkerStep
  <2> QED
    BY <2>1, WayKept DEF InHand
<1> QED
  BY <1>1, <1>2, <1>3, <1>4, <1>5, <1>6, <1>7 DEF Next, HandlerStep, DispatcherStep

-----------------------------------------------------------------------------
(* Jobs that run or have run.                                              *)

\* A goroutine that is done stays done; only Send adds one.
LEMMA DoneKept ==
  ASSUME Types, Next, NEW g \in DOMAIN gor, gor[g].pc = "done"
  PROVE  g \in DOMAIN gor' /\ gor'[g].pc = "done"
<1>1. ASSUME NEW r \in Requests, HandlerStep(r) PROVE UNCHANGED gor
  BY <1>1, ReceiveDoes, EnqueueDoes DEF HandlerStep
<1>2. CASE DispatcherStep
  BY <1>2, DispatchReceiveDoes, DispatchStoreDoes, DispatchGoDoes DEF DispatcherStep
<1>3. ASSUME NEW h \in DOMAIN gor, GoroutineStep(h)
      PROVE  g \in DOMAIN gor' /\ gor'[g].pc = "done"
  BY <1>3, FetchDoes, LoadDoes, SendDoes DEF GoroutineStep
<1>4. ASSUME NEW w \in Workers, WorkerStep(w) \/ Stop(w) PROVE UNCHANGED gor
  BY <1>4, RegisterDoes, CompleteDoes, StopDoes, QuitDoes DEF WorkerStep
<1> QED
  BY <1>1, <1>2, <1>3, <1>4 DEF Next

LEMMA HandedOverKept ==
  ASSUME Types, Once, Captured, Next
  PROVE  \A r : HandedOver(r) => HandedOver(r)'
BY DoneKept, OfKept DEF HandedOver

\* Steps that hand over no job and finish none.
LEMMA RunningKept ==
  ASSUME Types, Once, Captured, Running, Next, UNCHANGED <<task, runner, finished>>,
         \A w \in Workers : worker'[w] = "busy" <=> worker[w] = "busy",
         \A g \in DOMAIN gor' : gor'[g].pc = "done" => g \in DOMAIN gor /\ gor[g].pc = "done"
  PROVE  Running'
<1>1. \A w \in Workers : worker'[w] = "busy" => HasOne(w)'
  BY DoneKept, OfKept DEF Running, HasOne
<1>2. \A r \in finished' : r \in Requests /\ HandedOver(r)'
  BY HandedOverKept DEF Running
<1>3. \A g \in DOMAIN gor' : gor'[g].pc = "done" =>
        Of(g)' \in finished' \/ \E w \in Workers : worker'[w] = "busy" /\ task'[w].name = Of(g)'
  BY OfKept DEF Running
<1> QED
  BY <1>1, <1>2, <1>3 DEF Running

LEMMA RunningStep ==
  ASSUME Types, Claimed, Once, Captured, Way, Running, Next
  PROVE  Running'
<1>1. ASSUME NEW r \in Requests, HandlerStep(r) PROVE Running'
  BY <1>1, ReceiveDoes, EnqueueDoes, RunningKept DEF HandlerStep
<1>2. CASE DispatchReceive \/ DispatchStore
  BY <1>2, DispatchReceiveDoes, DispatchStoreDoes, RunningKept
<1>3. CASE DispatchGo
  <2>1. UNCHANGED <<task, runner, finished, worker>>
    BY <1>3, DispatchGoDoes
  <2>2. \A g \in DOMAIN gor' : gor'[g].pc = "done" => g \in DOMAIN gor /\ gor[g].pc = "done"
    BY <1>3, OneMore, NewRoutine, DispatchGoDoes
  <2> QED
    BY <2>1, <2>2, RunningKept
<1>4. ASSUME NEW g \in DOMAIN gor, Fetch(g) \/ Load(g) PROVE Running'
  <2>1. UNCHANGED <<task, runner, finished, worker>>
    BY <1>4, FetchDoes, LoadDoes
  <2>2. \A h \in DOMAIN gor' : gor'[h].pc = "done" => h \in DOMAIN gor /\ gor[h].pc = "done"
    BY <1>4, FetchDoes, LoadDoes
  <2> QED
    BY <2>1, <2>2, RunningKept
<1>5. ASSUME NEW g \in DOMAIN gor, Send(g) PROVE Running'
  <2>1. PICK v \in Workers : v = gor[g].to
    BY <1>5, SendDoes
  <2>2. PICK r \in Requests : r = Of(g)
    BY DEF Captured
  <2>3. gor[g].pc = "send" /\ gor[g].job.name = r
    BY <1>5, <2>2, SendDoes DEF Captured, Words
  <2>4. /\ \A w \in Workers : worker'[w] = IF w = v THEN "busy" ELSE worker[w]
        /\ \A w \in Workers : w # v => task'[w] = task[w]
        /\ task'[v].name = r
        /\ \A q \in Requests \cup {Nobody} : runner'[q] = IF q = r THEN v ELSE runner[q]
        /\ worker[v] = "idle" /\ UNCHANGED finished
    BY <1>5, <2>1, <2>3, SendDoes DEF Types, CrewTypes
  <2>5. /\ DOMAIN gor' = DOMAIN gor /\ gor'[g].pc = "done"
        /\ \A h \in DOMAIN gor : h # g => gor'[h] = gor[h]
    BY <1>5, SendDoes
  <2>6. \A h \in DOMAIN gor : Of(h)' = Of(h)
    BY OfKept
  <2>7. ~HandedOver(r)
    BY <2>2, <2>3 DEF HandedOver, Way
  <2>8. r \notin finished
    BY <2>7 DEF Running
  <2>9. \A w \in Workers : worker[w] = "busy" => task[w].name # r
    BY <2>7 DEF Running, HasOne, HandedOver
  <2>10. HasOne(v)'
    BY <2>2, <2>4, <2>5, <2>6 DEF HasOne
  <2>11. \A w \in Workers : w # v /\ HasOne(w) => HasOne(w)'
    BY <2>4, <2>5, <2>6 DEF HasOne
  <2>12. \A q \in finished' : q \in Requests /\ HandedOver(q)'
    BY <2>4, HandedOverKept DEF Running
  <2>13. ASSUME NEW w \in Workers, worker'[w] = "busy"
         PROVE  /\ HasOne(w)' /\ task'[w].name \in Requests
                /\ task'[w].name \notin finished' /\ runner'[task'[w].name] = w
    <3>1. CASE w = v
      BY <2>4, <2>8, <2>10, <3>1
    <3>2. CASE w # v
      <4>1. worker[w] = "busy" /\ task'[w] = task[w]
        BY <2>4, <2>13, <3>2
      <4>2. /\ HasOne(w) /\ task[w].name \in Requests /\ task[w].name \notin finished
            /\ runner[task[w].name] = w /\ task[w].name # r
        BY <2>9, <4>1 DEF Running
      <4> QED
        BY <2>4, <2>11, <3>2, <4>1, <4>2
    <3> QED
      BY <3>1, <3>2
  <2>14. ASSUME NEW h \in DOMAIN gor', gor'[h].pc = "done"
         PROVE  Of(h)' \in finished'
                  \/ \E w \in Workers : worker'[w] = "busy" /\ task'[w].name = Of(h)'
    <3>1. CASE h = g
      BY <2>2, <2>4, <2>6, <3>1
    <3>2. CASE h # g
      <4>1. gor[h].pc = "done" /\ h \in DOMAIN gor
        BY <2>5, <2>14, <3>2
      <4>2. CASE Of(h) \in finished
        BY <2>4, <2>6, <4>1, <4>2
      <4>3. ASSUME NEW w \in Workers, worker[w] = "busy", task[w].name = Of(h)
            PROVE  worker'[w] = "busy" /\ task'[w].name = Of(h)'
        BY <2>4, <2>6, <4>1, <4>3
      <4> QED
        BY <4>1, <4>2, <4>3 DEF Running
    <3> QED
      BY <3>1, <3>2
  <2> QED
    BY <2>12, <2>13, <2>14 DEF Running
<1>6. ASSUME NEW w \in Workers, Complete(w) PROVE Running'
  <2>1. /\ worker[w] = "busy" /\ UNCHANGED <<gor, task, runner, cells>>
        /\ finished' = finished \cup {task[w].name}
        /\ \A v \in Workers : worker'[v] = IF v = w THEN "register" ELSE worker[v]
    BY <1>6, CompleteDoes DEF Types, CrewTypes
  <2>2. PICK r \in Requests : r = task[w].name
    BY <2>1 DEF Running
  <2>3. HandedOver(r) /\ runner[r] = w
    BY <2>1, <2>2 DEF Running, HasOne, HandedOver
  <2>4. \A q \in finished' : q \in Requests /\ HandedOver(q)'
    BY <2>1, <2>2, <2>3, HandedOverKept DEF Running
  <2>5. ASSUME NEW v \in Workers, worker'[v] = "busy"
        PROVE  /\ HasOne(v)' /\ task'[v].name \in Requests
               /\ task'[v].name \notin finished' /\ runner'[task'[v].name] = v
    <3>1. v # w /\ worker[v] = "busy"
      BY <2>1, <2>5
    <3>2. /\ HasOne(v) /\ task[v].name \in Requests /\ task[v].name \notin finished
          /\ runner[task[v].name] = v
      BY <3>1 DEF Running
    <3>3. task[v].name # r
      BY <2>3, <3>1, <3>2
    <3>4. HasOne(v)'
      BY <2>1, <3>2, OfKept DEF HasOne
    <3> QED
      BY <2>1, <2>2, <3>2, <3>3, <3>4
  <2>6. \A g \in DOMAIN gor' : gor'[g].pc = "done" =>
          Of(g)' \in finished' \/ \E v \in Workers : worker'[v] = "busy" /\ task'[v].name = Of(g)'
    BY <2>1, OfKept DEF Running
  <2> QED
    BY <2>4, <2>5, <2>6 DEF Running
<1>7. ASSUME NEW w \in Workers, Register(w) \/ Quit(w) \/ Stop(w) PROVE Running'
  <2>1. /\ UNCHANGED <<task, runner, finished, gor>>
        /\ \A v \in Workers : worker'[v] = "busy" <=> worker[v] = "busy"
    BY <1>7, RegisterDoes, QuitDoes, StopDoes DEF Types, CrewTypes
  <2> QED
    BY <2>1, RunningKept
<1> QED
  BY <1>1, <1>2, <1>3, <1>4, <1>5, <1>6, <1>7
     DEF Next, DispatcherStep, GoroutineStep, WorkerStep

-----------------------------------------------------------------------------
(* The theorems.                                                           *)

(* Every state of the job server is one that IInv describes.               *)
THEOREM Invariance == Spec => []IInv
<1>1. IInv /\ [Next]_vars => IInv'
  <2> SUFFICES ASSUME IInv, [Next]_vars PROVE IInv'
    OBVIOUS
  <2>1. CASE Next
    <3>1. Types' /\ Claimed'
      BY <2>1, WebStep, DispatchStep, GoroutineTypesStep, CrewStep, ClaimedStep
         DEF IInv, Types
    <3>2. ASSUME Once PROVE Captured' /\ Way' /\ Running'
      BY <2>1, <3>2, CapturedStep, WayStep, RunningStep DEF IInv
    <3> QED
      BY <3>1, <3>2 DEF IInv, Once
  <2>2. CASE UNCHANGED vars
    <3>1. UNCHANGED <<req, status, queue, disp, hand, cells, gor, pool, worker, task,
                      stops, runner, finished>>
      BY <2>2 DEF vars, web, dispatch, crew
    <3>2. Types'
      BY <3>1 DEF IInv, Types, WebTypes, DispatchTypes, GoroutineTypes, CrewTypes, Holds
    <3>3. Claimed'
      BY <3>1 DEF IInv, Claimed, InPool, Held, Holds
    <3>4. Captured => Captured'
      BY <3>1 DEF Captured, Of
    <3>5. Way => Way'
      BY <3>1 DEF Way, Of, Queued, InHand, OnItsWay
    <3>6. Running => Running'
      BY <3>1 DEF Running, Of, HandedOver, HasOne
    <3> QED
      BY <3>2, <3>3, <3>4, <3>5, <3>6 DEF IInv, Once
  <2> QED
    BY <2>1, <2>2
<1> QED
  BY InitInv, <1>1, PTL DEF Spec

(* Every variable of the job server holds a value of its kind, and neither *)
(* of its buffered channels holds more than its capacity.                  *)
THEOREM TypeCorrect == Spec => []TypeOK
<1>1. IInv => TypeOK
  <2> SUFFICES ASSUME IInv PROVE TypeOK
    OBVIOUS
  <2>1. gor \in Seq(Goroutines)
    <3>1. gor \in Seq(Routines) /\ \A g \in DOMAIN gor : gor[g].cell \in DOMAIN cells
      BY DEF IInv, Types, GoroutineTypes
    <3>2. \A g \in DOMAIN gor : gor[g] \in Goroutines
      <4> SUFFICES ASSUME NEW g \in DOMAIN gor PROVE gor[g] \in Goroutines
        OBVIOUS
      <4>1. gor[g] \in Routines /\ gor[g].cell \in DOMAIN cells
        BY <3>1, Elements
      <4> QED
        BY <4>1 DEF Routines, Goroutines
    <3> QED
      BY <3>1, <3>2
  <2> QED
    BY <2>1 DEF IInv, Types, WebTypes, DispatchTypes, CrewTypes, TypeOK
<1> QED
  BY Invariance, <1>1, PTL

(* A worker that waits for a job is in the pool or with one goroutine, and *)
(* a worker that has a job is in neither: none is handed two jobs.         *)
THEOREM ClaimsCorrect == Spec => []ClaimsExact
<1>1. IInv => ClaimsExact
  <2> SUFFICES ASSUME IInv, NEW w \in Workers
               PROVE  Claims(w) = IF worker[w] \in {"idle", "stopped"} THEN 1 ELSE 0
    BY DEF ClaimsExact
  <2> DEFINE P == {i \in DOMAIN pool : pool[i] = w}
             G == {g \in DOMAIN gor : gor[g].pc \in {"load", "send"} /\ gor[g].to = w}
  <2>1. Claimed
    BY DEF IInv
  <2>2. P = {} \/ \E i : P = {i}
    BY <2>1 DEF Claimed
  <2>3. G = {} \/ \E g : G = {g}
    <3>1. \A g, h \in DOMAIN gor :
            /\ gor[g].pc \in {"load", "send"} /\ gor[g].to = w
            /\ gor[h].pc \in {"load", "send"} /\ gor[h].to = w
            => g = h
      BY <2>1 DEF Claimed, Holds
    <3>2. \A g, h \in G : g = h
      BY <3>1
    <3> QED
      BY <3>2
  <2>4. (P # {} <=> InPool(w)) /\ (G # {} <=> Held(w))
    BY DEF InPool, Held, Holds
  <2> HIDE DEF P, G
  <2>5. /\ P = {} => Cardinality(P) = 0
        /\ P # {} => Cardinality(P) = 1
        /\ G = {} => Cardinality(G) = 0
        /\ G # {} => Cardinality(G) = 1
    BY <2>2, <2>3, FS_EmptySet, FS_Singleton
  <2>6. ~(InPool(w) /\ Held(w))
    BY <2>1 DEF Claimed
  <2>7. worker[w] \in {"idle", "stopped"} <=> InPool(w) \/ Held(w)
    BY <2>1 DEF Claimed
  <2>8. Claims(w) = Cardinality(P) + Cardinality(G)
    BY DEF Claims, P, G
  <2> QED
    BY <2>4, <2>5, <2>6, <2>7, <2>8
<1> QED
  BY Invariance, <1>1, PTL

(* With a variable for each iteration no job is lost: when nothing is left *)
(* to do, all that were submitted have been run.  This is what run         *)
(* pool_shared_var refutes for the one variable of older Go versions.      *)
THEOREM NoneLost ==
  ASSUME LoopVar = "perIteration"
  PROVE  Spec => []NoJobIsLost
<1>1. IInv => NoJobIsLost
  <2> SUFFICES ASSUME IInv, Quiescent, NEW r \in Requests, req[r] = "submitted"
               PROVE  r \in finished
    BY DEF NoJobIsLost
  <2>1. Way /\ Running /\ Types
    BY DEF IInv, Once
  <2>2. ~Queued(r) /\ ~InHand(r)
    BY DEF Quiescent, Queued, InHand, Idle
  <2>3. PICK g \in DOMAIN gor : Of(g) = r
    BY <2>1, <2>2 DEF Way, OnItsWay
  <2> QED
    BY <2>1, <2>3 DEF Running, Quiescent
<1> QED
  BY Invariance, <1>1, PTL

-----------------------------------------------------------------------------
(* The pool implements the job service.                                    *)

Runs(r) == \E w \in Workers : worker[w] = "busy" /\ task[w].name = r

\* Where a job is, by what happened to it.
LEMMA PhaseOf ==
  ASSUME NEW r \in Requests
  PROVE  /\ r \in finished => Phase(r) = "done"
         /\ r \notin finished /\ Runs(r) => Phase(r) = "running"
         /\ r \notin finished /\ ~Runs(r) /\ req[r] # "submitted" => Phase(r) = "none"
         /\ r \notin finished /\ ~Runs(r) /\ req[r] = "submitted" => Phase(r) = "pending"
<1>1. RunBy(r) # {} <=> Runs(r)
  BY DEF RunBy, Runs
<1> QED
  BY <1>1 DEF Phase

LEMMA PhaseNext ==
  ASSUME NEW r \in Requests
  PROVE  /\ r \in finished' => Phase(r)' = "done"
         /\ r \notin finished' /\ Runs(r)' => Phase(r)' = "running"
         /\ r \notin finished' /\ ~Runs(r)' /\ req'[r] # "submitted" => Phase(r)' = "none"
         /\ r \notin finished' /\ ~Runs(r)' /\ req'[r] = "submitted" => Phase(r)' = "pending"
<1>1. RunBy(r)' # {} <=> Runs(r)'
  BY DEF RunBy, Runs
<1> QED
  BY <1>1 DEF Phase

\* A job that has not been handed over neither runs nor has it been run.
LEMMA NotYet ==
  ASSUME Running, NEW r \in Requests, ~HandedOver(r)
  PROVE  r \notin finished /\ ~Runs(r)
BY DEF Running, Runs, HasOne, HandedOver

\* Steps of which the service sees nothing.
LEMMA Unseen ==
  ASSUME UNCHANGED <<runner, finished>>,
         \A r \in Requests : Runs(r)' <=> Runs(r),
         \A r \in Requests : req'[r] = "submitted" <=> req[r] = "submitted"
  PROVE  /\ \A r \in Requests : Phase(r)' = Phase(r)
         /\ UNCHANGED <<[r \in Requests |-> Phase(r)], [r \in Requests |-> runner[r]]>>
<1>1. \A r \in Requests : Phase(r)' = Phase(r)
  <2> SUFFICES ASSUME NEW r \in Requests PROVE Phase(r)' = Phase(r)
    OBVIOUS
  <2>1. CASE r \in finished
    BY <2>1, PhaseOf, PhaseNext
  <2>2. CASE r \notin finished /\ Runs(r)
    BY <2>2, PhaseOf, PhaseNext
  <2>3. CASE r \notin finished /\ ~Runs(r) /\ req[r] # "submitted"
    BY <2>3, PhaseOf, PhaseNext
  <2>4. CASE r \notin finished /\ ~Runs(r) /\ req[r] = "submitted"
    BY <2>4, PhaseOf, PhaseNext
  <2> QED
    BY <2>1, <2>2, <2>3, <2>4
<1> QED
  BY <1>1

\* The three steps that the service knows, each in terms of its own operation.
LEMMA EnqueueSubmits ==
  ASSUME IInv, Once, NEW r \in Requests, Enqueue(r)
  PROVE  Service!Submit(r)
<1>1. /\ UNCHANGED <<worker, task, runner, finished>> /\ req[r] = "enqueue"
      /\ \A q \in Requests : req'[q] = IF q = r THEN "submitted" ELSE req[q]
  BY EnqueueDoes DEF IInv, Types, WebTypes
<1>2. ~HandedOver(r)
  BY <1>1 DEF IInv, Way, OnItsWay, HandedOver
<1>3. r \notin finished /\ ~Runs(r)
  BY <1>2, NotYet DEF IInv
<1>4. \A q \in Requests : Runs(q)' <=> Runs(q)
  BY <1>1 DEF Runs
<1>5. Phase(r) = "none" /\ Phase(r)' = "pending"
  BY <1>1, <1>3, <1>4, PhaseOf, PhaseNext
<1>6. \A q \in Requests : q # r => Phase(q)' = Phase(q)
  <2> SUFFICES ASSUME NEW q \in Requests, q # r PROVE Phase(q)' = Phase(q)
    OBVIOUS
  <2>1. req'[q] = req[q] /\ (Runs(q)' <=> Runs(q)) /\ (q \in finished' <=> q \in finished)
    BY <1>1, <1>4
  <2> QED
    BY <2>1, PhaseOf, PhaseNext
<1>7. [q \in Requests |-> Phase(q)]' = [[q \in Requests |-> Phase(q)] EXCEPT ![r] = "pending"]
  BY <1>5, <1>6
<1> QED
  BY <1>1, <1>5, <1>7 DEF Service!Submit

LEMMA SendStarts ==
  ASSUME IInv, Once, NEW g \in DOMAIN gor, Send(g)
  PROVE  \E r \in Requests, v \in Workers : Service!Start(r, v)
<1>a. Types /\ Captured /\ Way /\ Running
  BY DEF IInv
<1>1. PICK v \in Workers : v = gor[g].to
  BY <1>a, SendDoes
<1>2. PICK r \in Requests : r = Of(g)
  BY <1>a DEF Captured
<1>3. gor[g].pc = "send" /\ gor[g].job.name = r
  BY <1>a, <1>2, SendDoes DEF Captured, Words
<1>4. /\ \A w \in Workers : worker'[w] = IF w = v THEN "busy" ELSE worker[w]
      /\ \A w \in Workers : w # v => task'[w] = task[w]
      /\ task'[v].name = r
      /\ \A q \in Requests : runner'[q] = IF q = r THEN v ELSE runner[q]
      /\ worker[v] = "idle" /\ UNCHANGED <<finished, req>>
  BY <1>a, <1>1, <1>3, SendDoes DEF Types, CrewTypes
<1>5. ~HandedOver(r) /\ req[r] = "submitted"
  BY <1>a, <1>2, <1>3 DEF HandedOver, Way, OnItsWay
<1>6. r \notin finished /\ ~Runs(r)
  BY <1>a, <1>5, NotYet
<1>7. Runs(r)' /\ \A q \in Requests : q # r => (Runs(q)' <=> Runs(q))
  BY <1>4 DEF Runs
<1>8. Phase(r) = "pending" /\ Phase(r)' = "running"
  BY <1>4, <1>5, <1>6, <1>7, PhaseOf, PhaseNext
<1>9. \A q \in Requests : q # r => Phase(q)' = Phase(q)
  <2> SUFFICES ASSUME NEW q \in Requests, q # r PROVE Phase(q)' = Phase(q)
    OBVIOUS
  <2>1. req'[q] = req[q] /\ (Runs(q)' <=> Runs(q)) /\ (q \in finished' <=> q \in finished)
    BY <1>4, <1>7
  <2> QED
    BY <2>1, PhaseOf, PhaseNext
<1>10. \A q \in Requests : ~(Phase(q) = "running" /\ runner[q] = v)
  <2> SUFFICES ASSUME NEW q \in Requests, Phase(q) = "running", runner[q] = v PROVE FALSE
    OBVIOUS
  <2>1. Runs(q)
    BY PhaseOf
  <2>2. PICK w \in Workers : worker[w] = "busy" /\ task[w].name = q
    BY <2>1 DEF Runs
  <2> QED
    BY <1>a, <1>4, <2>2 DEF Running
<1>11. [q \in Requests |-> Phase(q)]' = [[q \in Requests |-> Phase(q)] EXCEPT ![r] = "running"]
  BY <1>8, <1>9
<1>12. [q \in Requests |-> runner[q]]' = [[q \in Requests |-> runner[q]] EXCEPT ![r] = v]
  BY <1>4
<1> QED
  BY <1>8, <1>10, <1>11, <1>12 DEF Service!Start

LEMMA CompleteFinishes ==
  ASSUME IInv, Once, NEW w \in Workers, Complete(w)
  PROVE  \E r \in Requests : Service!Finish(r)
<1>a. Types /\ Running
  BY DEF IInv
<1>1. /\ worker[w] = "busy" /\ UNCHANGED <<task, runner, req>>
      /\ finished' = finished \cup {task[w].name}
      /\ \A v \in Workers : worker'[v] = IF v = w THEN "register" ELSE worker[v]
  BY <1>a, CompleteDoes DEF Types, CrewTypes
<1>2. PICK r \in Requests : r = task[w].name
  BY <1>a, <1>1 DEF Running
<1>3. r \notin finished /\ Runs(r)
  BY <1>a, <1>1, <1>2 DEF Running, Runs
<1>4. Phase(r) = "running" /\ Phase(r)' = "done"
  BY <1>1, <1>2, <1>3, PhaseOf, PhaseNext
<1>5. \A q \in Requests : q # r => Phase(q)' = Phase(q)
  <2> SUFFICES ASSUME NEW q \in Requests, q # r PROVE Phase(q)' = Phase(q)
    OBVIOUS
  <2>1. req'[q] = req[q] /\ (q \in finished' <=> q \in finished)
    BY <1>1, <1>2
  <2>2. Runs(q)' <=> Runs(q)
    BY <1>1, <1>2 DEF Runs
  <2> QED
    BY <2>1, <2>2, PhaseOf, PhaseNext
<1>6. [q \in Requests |-> Phase(q)]' = [[q \in Requests |-> Phase(q)] EXCEPT ![r] = "done"]
  BY <1>4, <1>5
<1>7. [q \in Requests |-> runner[q]]' = [q \in Requests |-> runner[q]]
  BY <1>1
<1> QED
  BY <1>4, <1>6, <1>7 DEF Service!Finish

LEMMA ServiceStep ==
  ASSUME IInv, Once, Next
  PROVE  \/ Service!Next
         \/ UNCHANGED <<[r \in Requests |-> Phase(r)], [r \in Requests |-> runner[r]]>>
<1>a. Types
  BY DEF IInv
<1>1. ASSUME NEW r \in Requests, Receive(r)
      PROVE UNCHANGED <<[q \in Requests |-> Phase(q)], [q \in Requests |-> runner[q]]>>
  <2>1. /\ UNCHANGED <<worker, task, runner, finished>>
        /\ \A q \in Requests : req'[q] = "submitted" <=> req[q] = "submitted"
    BY <1>a, <1>1, ReceiveDoes
  <2> QED
    BY <2>1, Unseen DEF Runs
<1>2. ASSUME NEW r \in Requests, Enqueue(r) PROVE Service!Next
  BY <1>2, EnqueueSubmits DEF Service!Next
<1>3. CASE DispatcherStep
  <2>1. UNCHANGED <<req, worker, task, runner, finished>>
    BY <1>a, <1>3, DispatchReceiveDoes, DispatchStoreDoes, DispatchGoDoes DEF DispatcherStep
  <2> QED
    BY <2>1, Unseen DEF Runs
<1>4. ASSUME NEW g \in DOMAIN gor, Fetch(g) \/ Load(g)
      PROVE UNCHANGED <<[q \in Requests |-> Phase(q)], [q \in Requests |-> runner[q]]>>
  <2>1. UNCHANGED <<req, worker, task, runner, finished>>
    BY <1>a, <1>4, FetchDoes, LoadDoes
  <2> QED
    BY <2>1, Unseen DEF Runs
<1>5. ASSUME NEW g \in DOMAIN gor, Send(g) PROVE Service!Next
  BY <1>5, SendStarts DEF Service!Next
<1>6. ASSUME NEW w \in Workers, Complete(w) PROVE Service!Next
  BY <1>6, CompleteFinishes DEF Service!Next
<1>7. ASSUME NEW w \in Workers, Register(w) \/ Quit(w) \/ Stop(w)
      PROVE UNCHANGED <<[q \in Requests |-> Phase(q)], [q \in Requests |-> runner[q]]>>
  <2>1. /\ UNCHANGED <<req, task, runner, finished>>
        /\ \A v \in Workers : worker'[v] = "busy" <=> worker[v] = "busy"
    BY <1>a, <1>7, RegisterDoes, QuitDoes, StopDoes DEF Types, CrewTypes
  <2> QED
    BY <2>1, Unseen DEF Runs
<1> QED
  BY <1>1, <1>2, <1>3, <1>4, <1>5, <1>6, <1>7
     DEF Next, HandlerStep, GoroutineStep, WorkerStep

(* The pool implements JobService if each iteration of the dispatcher has  *)
(* a variable of its own: every job that was submitted is started once, by *)
(* a worker that runs no other, and what that worker finishes is this job. *)
THEOREM ServiceImplemented ==
  ASSUME LoopVar = "perIteration"
  PROVE  Spec => RunsJobsOnce
<1>1. Init => Service!Init
  <2> SUFFICES ASSUME Init PROVE Service!Init
    OBVIOUS
  <2>1. finished = {} /\ \A r \in Requests : ~Runs(r) /\ req[r] # "submitted"
    BY DEF Init, Runs
  <2>2. \A r \in Requests : Phase(r) = "none" /\ runner[r] = Nobody
    BY <2>1, PhaseOf DEF Init
  <2> QED
    BY <2>2 DEF Service!Init
<1>2. IInv /\ [Next]_vars =>
        [Service!Next]_<<[r \in Requests |-> Phase(r)], [r \in Requests |-> runner[r]]>>
  <2> SUFFICES ASSUME IInv, [Next]_vars
               PROVE  [Service!Next]_<<[r \in Requests |-> Phase(r)],
                                       [r \in Requests |-> runner[r]]>>
    OBVIOUS
  <2>1. CASE Next
    BY <2>1, ServiceStep DEF Once
  <2>2. CASE UNCHANGED vars
    <3>1. UNCHANGED <<req, worker, task, runner, finished>>
      BY <2>2 DEF vars, web, crew
    <3> QED
      BY <3>1, Unseen DEF Runs
  <2> QED
    BY <2>1, <2>2
<1> QED
  BY Invariance, <1>1, <1>2, PTL DEF Spec, RunsJobsOnce, Service!Spec
=============================================================================
