----------------------------- MODULE CondBuffer -----------------------------
(***************************************************************************)
(* Producers and consumers that share a counter, one mutex and one         *)
(* condition variable: produce_consume/model1/main3.go.                    *)
(*                                                                         *)
(* The shared variables are only touched between lock.Lock and the Unlock  *)
(* or Wait that ends the critical section, so a section is one action.     *)
(* Wait joins the waiters before it gives the mutex back, and a goroutine  *)
(* that was woken runs the loop's condition again under the mutex, as one  *)
(* that has just locked it does.  The sleep after a section only delays    *)
(* the next one.                                                           *)
(***************************************************************************)
EXTENDS Integers, FiniteSets

CONSTANTS
  Producers,  \* PRODUCERS = 5 of them
  Consumers,  \* CONSUMERS = 2 of them
  PRODUCTS    \* 20: no more products than this are in stock

ASSUME BufferAssumption ==
  /\ IsFiniteSet(Producers) /\ IsFiniteSet(Consumers)
  /\ Producers \cap Consumers = {}
  /\ Producers # {} /\ Consumers # {}
  /\ PRODUCTS \in Nat \ {0}

Goroutines == Producers \cup Consumers
TOTAL_PRODUCTS == Cardinality(Producers) * PRODUCTS

VARIABLES
  productCount, producedCount, done,  \* the program's variables
  pc,     \* per goroutine: "running" (at or before its next lock.Lock),
          \* "waiting" (in condition.Wait) or "exited"
  main,   \* "waiting" (at wg.Wait) or "exited"
  eaten   \* the products reported as consumed (ghost)

vars == <<productCount, producedCount, done, pc, main, eaten>>

Init ==
  /\ productCount = 0 /\ producedCount = 0 /\ done = FALSE
  /\ pc = [g \in Goroutines |-> "running"]
  /\ main = "waiting"
  /\ eaten = 0

Waiters == {g \in Goroutines : pc[g] = "waiting"}

\* condition.Signal wakes one waiter if there is one, condition.Broadcast all.
Signal ==
  IF Waiters = {} THEN {{}} ELSE {{g} : g \in Waiters}
Broadcast == {Waiters}

Woken(W) == [g \in Goroutines |-> IF g \in W THEN "running" ELSE pc[g]]

-----------------------------------------------------------------------------
(* for ... && !done { condition.Wait() }                                   *)

MutFullLate == productCount > PRODUCTS
Full == productCount >= PRODUCTS
Empty == productCount <= 0

ProducerWaits(g) ==
  /\ pc[g] = "running" /\ Full /\ ~done
  /\ pc' = [pc EXCEPT ![g] = "waiting"]
  /\ UNCHANGED <<productCount, producedCount, done, main, eaten>>

ConsumerWaits(g) ==
  /\ pc[g] = "running" /\ Empty /\ ~done
  /\ pc' = [pc EXCEPT ![g] = "waiting"]
  /\ UNCHANGED <<productCount, producedCount, done, main, eaten>>

\* Who is told of a product: everybody when it is the last one.
MutLastIsSignalled == Signal
AfterProducing == IF done' THEN Broadcast ELSE Signal

Produce(g) ==
  /\ pc[g] = "running" /\ ~done /\ ~Full
  /\ productCount' = productCount + 1
  /\ producedCount' = producedCount + 1
  /\ done' = (producedCount' >= TOTAL_PRODUCTS)
  /\ \E W \in AfterProducing : pc' = Woken(W)
  /\ UNCHANGED <<main, eaten>>

MutSilent == {{}}
AfterConsuming == Signal

Consume(g) ==
  /\ pc[g] = "running" /\ ~done /\ ~Empty
  /\ productCount' = productCount - 1
  /\ eaten' = eaten + 1
  /\ \E W \in AfterConsuming : pc' = Woken(W)
  /\ UNCHANGED <<producedCount, done, main>>

ProducerExits(g) ==
  /\ pc[g] = "running" /\ done
  /\ pc' = [pc EXCEPT ![g] = "exited"]
  /\ UNCHANGED <<productCount, producedCount, done, main, eaten>>

\* The last products are reported one by one, and stay in the count.
ConsumerExits(g) ==
  /\ pc[g] = "running" /\ done
  /\ eaten' = eaten + productCount
  /\ pc' = [pc EXCEPT ![g] = "exited"]
  /\ UNCHANGED <<productCount, producedCount, done, main>>

\* wg.Wait returns when every goroutine has called wg.Done.
MainExits ==
  /\ main = "waiting" /\ \A g \in Goroutines : pc[g] = "exited"
  /\ main' = "exited"
  /\ UNCHANGED <<productCount, producedCount, done, pc, eaten>>

-----------------------------------------------------------------------------
ProducerStep(g) == ProducerWaits(g) \/ Produce(g) \/ ProducerExits(g)
ConsumerStep(g) == ConsumerWaits(g) \/ Consume(g) \/ ConsumerExits(g)

Next ==
  \/ \E g \in Producers : ProducerStep(g)
  \/ \E g \in Consumers : ConsumerStep(g)
  \/ MainExits

Spec == Init /\ [][Next]_vars

\* Some goroutine that can run does: no fairness among them is needed, there
\* are only so many products to make.
FairSpec == Spec /\ WF_vars(Next)

-----------------------------------------------------------------------------
(* Types: neither count leaves its range -- the stock is never below zero   *)
(* or above PRODUCTS, and no more than TOTAL_PRODUCTS are made (Produce,    *)
(* Consume).                                                                *)
TypeOK ==
  /\ productCount \in 0..PRODUCTS
  /\ producedCount \in 0..TOTAL_PRODUCTS
  /\ done \in BOOLEAN
  /\ pc \in [Goroutines -> {"running", "waiting", "exited"}]
  /\ main \in {"waiting", "exited"}
  /\ eaten \in Nat

(* A goroutine that waits can count on another one that runs: one condition *)
(* serves producers and consumers, and a Signal meant for the other side    *)
(* may wake one of the own side, yet they never all sleep (the Wait and     *)
(* Signal calls of Produce and Consume).  This holds as long as there are   *)
(* no more than 2 * PRODUCTS goroutines.                                    *)
NotAllAsleep ==
  Waiters # {} => \E g \in Goroutines : pc[g] = "running"

(* Nobody is left waiting once production is over, so that every goroutine  *)
(* can see done (condition.Broadcast at the last product).                  *)
DoneIsHeard == done => Waiters = {}

(* The program ends (wg.Wait), with every product made.                     *)
ProgramEnds == <>(main = "exited" /\ producedCount = TOTAL_PRODUCTS)
=============================================================================
