----------------------------- MODULE TaskQueue ------------------------------
(***************************************************************************)
(* The task queue with a mutex and a condition variable, and its program:  *)
(* produce_consume/model1/main2.go.                                        *)
(*                                                                         *)
(* Produce, Consume and Terminated touch the queue under its mutex only,   *)
(* up to the Wait that gives it back, so a critical section is one action. *)
(* Time passes in ticks of 500 ms; whoever called time.Sleep goes on when  *)
(* its ticks are over, or later.  With Punctual, nobody is late: no tick   *)
(* passes while somebody could run.                                        *)
(***************************************************************************)
EXTENDS Integers, Sequences, FiniteSets

CONSTANTS
  Producers,       \* 3 of them
  Consumers,       \* 2 of them
  Main,            \* the goroutine of main
  Items,           \* 5: what a producer makes
  ProducePause,    \* 1 tick
  ConsumePause,    \* 2 ticks
  TerminateAfter,  \* 12 ticks
  ExitAfter,       \* 2 ticks
  Punctual         \* nobody is late

Goroutines == Producers \cup Consumers \cup {Main}

QueueAssumption ==
  /\ IsFiniteSet(Producers) /\ IsFiniteSet(Consumers)
  /\ Producers \cap Consumers = {} /\ Main \notin Producers \cup Consumers
  /\ {Items, ProducePause, ConsumePause, TerminateAfter, ExitAfter} \subseteq Nat
  /\ Punctual \in BOOLEAN

VARIABLES
  buffer, terminated,  \* the fields of the Queue
  pc,      \* per goroutine: "running", "waiting" (in cond.Wait) or "exited"
  sleep,   \* per goroutine: the ticks it has still to sleep
  made     \* per producer: how many it has produced

vars == <<buffer, terminated, pc, sleep, made>>

Init ==
  /\ buffer = <<>> /\ terminated = FALSE
  /\ pc = [g \in Goroutines |-> "running"]
  /\ sleep = [g \in Goroutines |-> IF g = Main THEN TerminateAfter ELSE 0]
  /\ made = [p \in Producers |-> 0]

\* The process ends when main returns.
Ready(g) == pc[g] = "running" /\ sleep[g] = 0 /\ pc[Main] # "exited"

Waiters == {g \in Consumers : pc[g] = "waiting"}
Signal == IF Waiters = {} THEN {{}} ELSE {{g} : g \in Waiters}
Broadcast == {Waiters}
Woken(W) == [g \in Goroutines |-> IF g \in W THEN "running" ELSE pc[g]]

-----------------------------------------------------------------------------
(* A producer.                                                             *)

MoreToMake(p) == made[p] < Items

\* A signal for each item, also when a consumer that sleeps its second will look
\* at the queue again of itself.
MutSignalUnlessBusy ==
  IF \E c \in Consumers : pc[c] = "running" /\ sleep[c] > 0 THEN {{}} ELSE Signal
AfterProducing == Signal

Produce(p) ==
  /\ Ready(p) /\ MoreToMake(p)
  /\ made' = [made EXCEPT ![p] = @ + 1]
  /\ buffer' = Append(buffer, <<p, made'[p]>>)
  /\ \E W \in AfterProducing : pc' = Woken(W)
  /\ sleep' = [sleep EXCEPT ![p] = ProducePause]
  /\ UNCHANGED terminated

ProducerExits(p) ==
  /\ Ready(p) /\ ~MoreToMake(p)
  /\ pc' = [pc EXCEPT ![p] = "exited"]
  /\ UNCHANGED <<buffer, terminated, sleep, made>>

-----------------------------------------------------------------------------
(* A consumer.                                                             *)

ConsumerWaits(c) ==
  /\ Ready(c) /\ buffer = <<>> /\ ~terminated
  /\ pc' = [pc EXCEPT ![c] = "waiting"]
  /\ UNCHANGED <<buffer, terminated, sleep, made>>

Consume(c) ==
  /\ Ready(c) /\ buffer # <<>>
  /\ buffer' = Tail(buffer)
  /\ sleep' = [sleep EXCEPT ![c] = ConsumePause]
  /\ UNCHANGED <<terminated, pc, made>>

\* The zero Data tells it that the queue is empty and terminated.
ConsumerExits(c) ==
  /\ Ready(c) /\ buffer = <<>> /\ terminated
  /\ pc' = [pc EXCEPT ![c] = "exited"]
  /\ UNCHANGED <<buffer, terminated, sleep, made>>

-----------------------------------------------------------------------------
(* main, and time.                                                         *)

Terminated ==
  /\ Ready(Main) /\ ~terminated
  /\ terminated' = TRUE
  /\ \E W \in Broadcast : pc' = Woken(W)
  /\ sleep' = [sleep EXCEPT ![Main] = ExitAfter]
  /\ UNCHANGED <<buffer, made>>

MainExits ==
  /\ Ready(Main) /\ terminated
  /\ pc' = [pc EXCEPT ![Main] = "exited"]
  /\ UNCHANGED <<buffer, terminated, sleep, made>>

Tick ==
  /\ pc[Main] # "exited"
  /\ Punctual => \A g \in Goroutines : ~Ready(g)
  /\ sleep' = [g \in Goroutines |-> IF sleep[g] = 0 THEN 0 ELSE sleep[g] - 1]
  /\ UNCHANGED <<buffer, terminated, pc, made>>

-----------------------------------------------------------------------------
Next ==
  \/ \E p \in Producers : Produce(p) \/ ProducerExits(p)
  \/ \E c \in Consumers : ConsumerWaits(c) \/ Consume(c) \/ ConsumerExits(c)
  \/ Terminated
  \/ MainExits
  \/ Tick

Spec == Init /\ [][Next]_vars

-----------------------------------------------------------------------------
(* Types: what the variables hold; a producer makes Items items.            *)
TypeOK ==
  /\ buffer \in Seq(Producers \X (1..Items))
  /\ terminated \in BOOLEAN
  /\ pc \in [Goroutines -> {"running", "waiting", "exited"}]
  /\ sleep \in [Goroutines -> Nat]
  /\ made \in [Producers -> 0..Items]

\* Who is awake, and not in the second it sleeps after an item.
Idle == {c \in Consumers : pc[c] = "running" /\ sleep[c] = 0}

(* A consumer waits on the condition only before Terminated, when all of    *)
(* them get to see the end, and only when every item in the queue has a     *)
(* consumer of its own that can take it now, one that neither waits nor     *)
(* sleeps its second: no wake-up is lost, and no item is left to a busy     *)
(* consumer, nor two items to one, while another waits (Signal in Produce,  *)
(* the length checked under the mutex in Consume, Broadcast in Terminated). *)
SleepersAreSurplus ==
  Waiters # {} => ~terminated /\ Len(buffer) <= Cardinality(Idle)
=============================================================================
