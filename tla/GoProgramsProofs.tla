-------------------------- MODULE GoProgramsProofs --------------------------
(***************************************************************************)
(* Theorems about the programs of MCGoPrograms: CondBuffer, for any number *)
(* of goroutines, TaskQueue, for any number of goroutines and items, and,  *)
(* from the modules of their own, the types of all four programs.          *)
(*                                                                         *)
(* In CondBuffer, who sleeps at full or empty stock is woken by the steps  *)
(* that lead away from there, one goroutine per step.  So what matters is  *)
(* where the stock was last, full or empty (Falling or Rising below): on   *)
(* the way to the other end PRODUCTS goroutines are woken, and with no     *)
(* more than 2 * PRODUCTS in all there are too few asleep for the next     *)
(* ones to be the last.                                                    *)
(***************************************************************************)
EXTENDS MCGoPrograms, FiniteSetTheorems, SequenceTheorems, TLAPS

K == PRODUCTS
P == Cardinality(Producers)
C == Cardinality(Consumers)

\* The stock was never full, or was empty later: k products, p producers and
\* c consumers that sleep.
Rising(k, p, c) ==
  /\ k < K /\ p < P /\ p < K
  /\ p + c = 0 \/ p + c + k < P + C
  /\ c = C => p = 0 \/ p + k < K

\* The stock was full, and never empty since.
Falling(k, p, c) ==
  /\ k > 0 /\ c < C /\ c < K
  /\ p + c = 0 \/ p + c + K - k < P + C
  /\ p = P => c = 0 \/ c + K - k < K

Balanced(k, p, c) == Rising(k, p, c) \/ Falling(k, p, c)

\* The goroutines of S that sleep when f holds the program counters.
Asleep(f, S) == {g \in S : f[g] = "waiting"}

SomebodyAwake ==
  ~done => /\ \A g \in Goroutines : pc[g] # "exited"
           /\ Balanced(productCount, Cardinality(Asleep(pc, Producers)),
                       Cardinality(Asleep(pc, Consumers)))

CountInv == done <=> producedCount = TOTAL_PRODUCTS

IInv == TypeOK /\ CountInv /\ DoneIsHeard

Room == Cardinality(Goroutines) <= 2 * PRODUCTS

-----------------------------------------------------------------------------
(* Numbers.                                                                *)

(* The sizes are natural numbers, and there is somebody on each side.       *)
LEMMA Sizes ==
  /\ P \in Nat \ {0} /\ C \in Nat \ {0} /\ K \in Nat \ {0}
  /\ TOTAL_PRODUCTS \in Nat \ {0}
  /\ Cardinality(Goroutines) = P + C
<1>1. P \in Nat \ {0} /\ C \in Nat \ {0}
  BY BufferAssumption, FS_CardinalityType, FS_EmptySet DEF P, C
<1>2. K \in Nat \ {0}
  BY BufferAssumption DEF K
<1>3. TOTAL_PRODUCTS = P * K
  BY DEF TOTAL_PRODUCTS, P, K
<1>4. \A m, n \in Nat \ {0} : m * n \in Nat \ {0}
  OBVIOUS
<1>5. TOTAL_PRODUCTS \in Nat \ {0}
  BY <1>1, <1>2, <1>3, <1>4
<1>6. Cardinality(Goroutines) = P + C - Cardinality(Producers \cap Consumers)
  BY BufferAssumption, FS_Union DEF Goroutines, P, C
<1>7. Cardinality(Producers \cap Consumers) = 0
  BY BufferAssumption, FS_EmptySet
<1> QED
  BY <1>1, <1>2, <1>5, <1>6, <1>7

\* Sleepers before and after a Signal: one less on one side, or none at all.
OneWoken(p, c, p2, c2) ==
  \/ p = 0 /\ c = 0 /\ p2 = 0 /\ c2 = 0
  \/ p > 0 /\ p2 = p - 1 /\ c2 = c
  \/ c > 0 /\ p2 = p /\ c2 = c - 1

(* A Produce keeps the balance: the stock rises, and turns at PRODUCTS.     *)
LEMMA ProduceBalances ==
  ASSUME NEW k \in Nat, NEW p \in Nat, NEW c \in Nat,
         NEW p2 \in Nat, NEW c2 \in Nat,
         P + C <= 2 * K, k < K, p < P, c <= C,
         OneWoken(p, c, p2, c2), Balanced(k, p, c)
  PROVE  Balanced(k + 1, p2, c2)
<1> USE Sizes
<1>1. CASE Rising(k, p, c) /\ k + 1 < K
  BY <1>1 DEF OneWoken, Balanced, Rising
<1>2. CASE Rising(k, p, c) /\ k + 1 = K
  BY <1>2 DEF OneWoken, Balanced, Rising, Falling
<1>3. CASE Falling(k, p, c)
  BY <1>3 DEF OneWoken, Balanced, Falling
<1> QED
  BY <1>1, <1>2, <1>3 DEF Balanced, Rising

(* A Consume keeps the balance: the stock falls, and turns at zero.         *)
LEMMA ConsumeBalances ==
  ASSUME NEW k \in Nat, NEW p \in Nat, NEW c \in Nat,
         NEW p2 \in Nat, NEW c2 \in Nat,
         P + C <= 2 * K, k > 0, k <= K, p <= P, c < C,
         OneWoken(p, c, p2, c2), Balanced(k, p, c)
  PROVE  Balanced(k - 1, p2, c2)
<1> USE Sizes
<1>1. CASE Falling(k, p, c) /\ k - 1 > 0
  BY <1>1 DEF OneWoken, Balanced, Falling
<1>2. CASE Falling(k, p, c) /\ k - 1 = 0
  BY <1>2 DEF OneWoken, Balanced, Rising, Falling
<1>3. CASE Rising(k, p, c)
  BY <1>3 DEF OneWoken, Balanced, Rising
<1> QED
  BY <1>1, <1>2, <1>3 DEF Balanced, Falling

(* Nor does it matter that one more producer sleeps at full stock, or one   *)
(* more consumer at empty stock.                                            *)
LEMMA WaitBalances ==
  ASSUME NEW p \in Nat, NEW c \in Nat
  PROVE  /\ Balanced(K, p, c) /\ p < P /\ c <= C => Balanced(K, p + 1, c)
         /\ Balanced(0, p, c) /\ c < C /\ p <= P => Balanced(0, p, c + 1)
BY Sizes DEF Balanced, Rising, Falling

(* In a balanced state somebody is awake.                                   *)
LEMMA BalancedAwake ==
  ASSUME NEW k \in Nat, NEW p \in Nat, NEW c \in Nat, Balanced(k, p, c)
  PROVE  p < P \/ c < C
BY DEF Balanced, Rising, Falling

-----------------------------------------------------------------------------
(* Sets of sleepers.                                                       *)

(* How many sleep: not all of them if one does not.                         *)
LEMMA AsleepCount ==
  ASSUME NEW f, NEW S, IsFiniteSet(S)
  PROVE  /\ IsFiniteSet(Asleep(f, S))
         /\ Cardinality(Asleep(f, S)) \in Nat
         /\ Cardinality(Asleep(f, S)) <= Cardinality(S)
         /\ Cardinality(Asleep(f, S)) < Cardinality(S)
              <=> \E g \in S : f[g] # "waiting"
<1>1. Asleep(f, S) \in SUBSET S
  BY DEF Asleep
<1>2. /\ IsFiniteSet(Asleep(f, S))
      /\ Cardinality(Asleep(f, S)) <= Cardinality(S)
      /\ Cardinality(S) = Cardinality(Asleep(f, S)) => S = Asleep(f, S)
  BY <1>1, FS_Subset
<1>3. Cardinality(S) \in Nat /\ Cardinality(Asleep(f, S)) \in Nat
  BY <1>2, FS_CardinalityType
<1>4. S = Asleep(f, S) <=> \A g \in S : f[g] = "waiting"
  BY DEF Asleep
<1>5. S = Asleep(f, S) => Cardinality(S) = Cardinality(Asleep(f, S))
  OBVIOUS
<1> QED
  BY <1>2, <1>3, <1>4, <1>5

(* One more sleeps.                                                         *)
LEMMA SleepCount ==
  ASSUME NEW S \in SUBSET Goroutines, IsFiniteSet(S),
         NEW g \in Goroutines, TypeOK, pc[g] = "running",
         pc' = [pc EXCEPT ![g] = "waiting"]
  PROVE  Cardinality(Asleep(pc', S)) = IF g \in S
           THEN Cardinality(Asleep(pc, S)) + 1 ELSE Cardinality(Asleep(pc, S))
<1>1. pc \in [Goroutines -> {"running", "waiting", "exited"}]
  BY DEF TypeOK
<1>2. Asleep(pc', S) = IF g \in S THEN Asleep(pc, S) \cup {g} ELSE Asleep(pc, S)
  BY <1>1 DEF Asleep
<1>3. g \notin Asleep(pc, S)
  BY DEF Asleep
<1> QED
  BY <1>2, <1>3, AsleepCount, FS_AddElement

(* The goroutines of W have been woken.                                     *)
LEMMA WokenCount ==
  ASSUME NEW S \in SUBSET Goroutines, NEW W, TypeOK, pc' = Woken(W)
  PROVE  Asleep(pc', S) = Asleep(pc, S) \ W
BY DEF Asleep, Woken, TypeOK

(* A Signal wakes one goroutine on one side, or finds nobody.               *)
LEMMA SignalCount ==
  ASSUME TypeOK, NEW W \in Signal, pc' = Woken(W)
  PROVE  OneWoken(Cardinality(Asleep(pc, Producers)),
                  Cardinality(Asleep(pc, Consumers)),
                  Cardinality(Asleep(pc', Producers)),
                  Cardinality(Asleep(pc', Consumers)))
<1> DEFINE AP == Asleep(pc, Producers)
           AC == Asleep(pc, Consumers)
<1>1. /\ Asleep(pc', Producers) = AP \ W
      /\ Asleep(pc', Consumers) = AC \ W
  BY WokenCount DEF Goroutines
<1>2. IsFiniteSet(AP) /\ IsFiniteSet(AC)
  BY BufferAssumption, AsleepCount
<1>3. Waiters = AP \cup AC /\ AP \cap AC = {}
  BY BufferAssumption DEF Waiters, Asleep, Goroutines
<1>4. CASE Waiters = {}
  <2>1. AP = {} /\ AC = {} /\ AP \ W = {} /\ AC \ W = {}
    BY <1>3, <1>4
  <2> QED
    BY <2>1, <1>1, FS_EmptySet DEF OneWoken
<1>5. CASE Waiters # {}
  <2>1. PICK g \in Waiters : W = {g}
    BY <1>5 DEF Signal
  <2>2. /\ Cardinality(AP \ W) =
             IF g \in AP THEN Cardinality(AP) - 1 ELSE Cardinality(AP)
        /\ Cardinality(AC \ W) =
             IF g \in AC THEN Cardinality(AC) - 1 ELSE Cardinality(AC)
    BY <1>2, <2>1, FS_RemoveElement
  <2>3. Cardinality(AP) \in Nat /\ Cardinality(AC) \in Nat
    BY <1>2, FS_CardinalityType
  <2>4. /\ g \in AP => Cardinality(AP) # 0
        /\ g \in AC => Cardinality(AC) # 0
    BY <1>2, FS_EmptySet
  <2>5. (g \in AP /\ g \notin AC) \/ (g \in AC /\ g \notin AP)
    BY <1>3, <2>1
  <2> QED
    BY <1>1, <2>2, <2>3, <2>4, <2>5 DEF OneWoken
<1> QED
  BY <1>4, <1>5
-----------------------------------------------------------------------------
(* Types, and the end of production.                                       *)

LEMMA InitInv == Init => IInv
<1> SUFFICES ASSUME Init PROVE IInv
  OBVIOUS
<1>1. TypeOK
  <2>1. productCount \in 0..PRODUCTS /\ producedCount \in 0..TOTAL_PRODUCTS
    BY Sizes DEF Init, K
  <2>2. pc \in [Goroutines -> {"running", "waiting", "exited"}]
    BY DEF Init
  <2> QED
    BY <2>1, <2>2 DEF Init, TypeOK
<1>2. CountInv
  BY Sizes DEF Init, CountInv
<1>3. DoneIsHeard
  BY DEF Init, DoneIsHeard
<1> QED
  BY <1>1, <1>2, <1>3 DEF IInv

LEMMA NextInv == IInv /\ [Next]_vars => IInv'
<1> SUFFICES ASSUME IInv, [Next]_vars PROVE IInv'
  OBVIOUS
<1>0. TypeOK /\ CountInv /\ DoneIsHeard
  BY DEF IInv
<1>1. ASSUME NEW g \in Goroutines, ProducerWaits(g) \/ ConsumerWaits(g)
      PROVE  IInv'
  BY <1>0, <1>1 DEF IInv, TypeOK, CountInv, DoneIsHeard, Waiters,
     ProducerWaits, ConsumerWaits
<1>2. ASSUME NEW g \in Goroutines, Produce(g)
      PROVE  IInv'
  <2>1. productCount \in Nat /\ producedCount \in Nat /\ K \in Nat
        /\ productCount <= K /\ TOTAL_PRODUCTS \in Nat
        /\ producedCount <= TOTAL_PRODUCTS /\ producedCount # TOTAL_PRODUCTS
    BY <1>0, <1>2, Sizes DEF TypeOK, CountInv, Produce, K
  <2>2. productCount' \in 0..PRODUCTS
    BY <1>2, <2>1 DEF Produce, Full, K
  <2>3. /\ producedCount' \in 0..TOTAL_PRODUCTS
        /\ done' = (producedCount' = TOTAL_PRODUCTS)
    <3>1. producedCount' = producedCount + 1
      BY <1>2 DEF Produce
    <3>2. (producedCount' >= TOTAL_PRODUCTS) = (producedCount' = TOTAL_PRODUCTS)
      BY <2>1, <3>1
    <3>3. done' = (producedCount' >= TOTAL_PRODUCTS)
      BY <1>2 DEF Produce
    <3> QED
      BY <2>1, <3>1, <3>2, <3>3
  <2>4. PICK W \in AfterProducing : pc' = Woken(W)
    BY <1>2 DEF Produce
  <2>5. pc' \in [Goroutines -> {"running", "waiting", "exited"}]
    BY <1>0, <2>4 DEF Woken, TypeOK
  <2>6. done' => Waiters' = {}
    BY <2>4, <2>5 DEF AfterProducing, Broadcast, Woken, Waiters
  <2> QED
    BY <1>0, <1>2, <2>2, <2>3, <2>5, <2>6
    DEF IInv, TypeOK, CountInv, DoneIsHeard, Produce
<1>3. ASSUME NEW g \in Goroutines, Consume(g)
      PROVE  IInv'
  <2>1. productCount' \in 0..PRODUCTS /\ eaten' \in Nat
    BY <1>0, <1>3, BufferAssumption DEF TypeOK, Consume, Empty
  <2>2. PICK W \in AfterConsuming : pc' = Woken(W)
    BY <1>3 DEF Consume
  <2>3. pc' \in [Goroutines -> {"running", "waiting", "exited"}]
    BY <1>0, <2>2 DEF Woken, TypeOK
  <2> QED
    BY <1>0, <1>3, <2>1, <2>3
    DEF IInv, TypeOK, CountInv, DoneIsHeard, Consume
<1>4. ASSUME NEW g \in Goroutines, ProducerExits(g) \/ ConsumerExits(g)
      PROVE  IInv'
  <2>1. eaten' \in Nat
    BY <1>0, <1>4 DEF TypeOK, ProducerExits, ConsumerExits
  <2>2. pc' \in [Goroutines -> {"running", "waiting", "exited"}]
    BY <1>0, <1>4 DEF TypeOK, ProducerExits, ConsumerExits
  <2>3. Waiters' \subseteq Waiters
    BY <1>0, <1>4 DEF TypeOK, Waiters, ProducerExits, ConsumerExits
  <2> QED
    BY <1>0, <1>4, <2>1, <2>2, <2>3
    DEF IInv, TypeOK, CountInv, DoneIsHeard, ProducerExits, ConsumerExits
<1>5. CASE MainExits
  BY <1>0, <1>5 DEF IInv, TypeOK, CountInv, DoneIsHeard, Waiters, MainExits
<1>6. CASE UNCHANGED vars
  BY <1>0, <1>6 DEF IInv, TypeOK, CountInv, DoneIsHeard, Waiters, vars
<1> QED
  BY <1>1, <1>2, <1>3, <1>4, <1>5, <1>6
  DEF Next, ProducerStep, ConsumerStep, Goroutines

(* Every count stays in its range, and once the last product is made no     *)
(* goroutine waits any more (Produce, Consume), for any PRODUCTS and any    *)
(* number of goroutines.                                                    *)
THEOREM Ranges == Spec => [](TypeOK /\ DoneIsHeard)
<1>1. Spec => []IInv
  BY InitInv, NextInv, PTL DEF Spec
<1>2. IInv => TypeOK /\ DoneIsHeard
  BY DEF IInv
<1> QED
  BY <1>1, <1>2, PTL

-----------------------------------------------------------------------------
(* Nobody sleeps for ever.                                                 *)

LEMMA InitAwake == Init => SomebodyAwake
<1> SUFFICES ASSUME Init PROVE SomebodyAwake
  OBVIOUS
<1>1. Asleep(pc, Producers) = {} /\ Asleep(pc, Consumers) = {}
  BY DEF Init, Asleep, Goroutines
<1>2. Rising(0, 0, 0)
  BY Sizes DEF Rising
<1> QED
  BY <1>1, <1>2, FS_EmptySet DEF Init, SomebodyAwake, Balanced

LEMMA NextAwake ==
  Room /\ IInv /\ SomebodyAwake /\ [Next]_vars => SomebodyAwake'
<1> SUFFICES ASSUME Room, IInv, SomebodyAwake, [Next]_vars, ~done'
             PROVE  SomebodyAwake'
  BY DEF SomebodyAwake
<1> DEFINE p == Cardinality(Asleep(pc, Producers))
           c == Cardinality(Asleep(pc, Consumers))
<1>1. TypeOK /\ P + C <= 2 * K
  BY Sizes DEF IInv, Room, K
<1>2. /\ productCount \in Nat /\ productCount <= K
      /\ done \in BOOLEAN /\ done' \in BOOLEAN
      /\ pc \in [Goroutines -> {"running", "waiting", "exited"}]
  BY <1>1, NextInv, Sizes DEF TypeOK, IInv, K
<1>3. /\ p \in Nat /\ c \in Nat /\ p <= P /\ c <= C
      /\ p' \in Nat /\ c' \in Nat
  BY AsleepCount, BufferAssumption DEF P, C
<1>4. ~done
  BY <1>2 DEF Next, ProducerStep, ConsumerStep, ProducerWaits, ConsumerWaits,
     Produce, Consume, ProducerExits, ConsumerExits, MainExits, vars
<1>5. Balanced(productCount, p, c) /\ \A g \in Goroutines : pc[g] # "exited"
  BY <1>4 DEF SomebodyAwake
<1>6. ASSUME NEW g \in Producers, ProducerWaits(g)
      PROVE  SomebodyAwake'
  <2>1. p < P /\ productCount = K /\ productCount' = K
    BY <1>2, <1>6, AsleepCount, BufferAssumption
    DEF ProducerWaits, Full, K, P
  <2>2. p' = p + 1 /\ c' = c
    BY <1>1, <1>6, SleepCount, BufferAssumption DEF ProducerWaits, Goroutines
  <2>3. Balanced(productCount', p', c')
    BY <1>3, <1>5, <2>1, <2>2, WaitBalances
  <2>4. \A h \in Goroutines : pc'[h] # "exited"
    BY <1>2, <1>5, <1>6 DEF ProducerWaits
  <2> QED
    BY <2>3, <2>4 DEF SomebodyAwake
<1>7. ASSUME NEW g \in Consumers, ConsumerWaits(g)
      PROVE  SomebodyAwake'
  <2>1. c < C /\ productCount = 0 /\ productCount' = 0
    BY <1>2, <1>7, AsleepCount, BufferAssumption
    DEF ConsumerWaits, Empty, C
  <2>2. p' = p /\ c' = c + 1
    BY <1>1, <1>7, SleepCount, BufferAssumption DEF ConsumerWaits, Goroutines
  <2>3. Balanced(productCount', p', c')
    BY <1>3, <1>5, <2>1, <2>2, WaitBalances
  <2>4. \A h \in Goroutines : pc'[h] # "exited"
    BY <1>2, <1>5, <1>7 DEF ConsumerWaits
  <2> QED
    BY <2>3, <2>4 DEF SomebodyAwake
<1>8. ASSUME NEW g \in Producers, Produce(g)
      PROVE  SomebodyAwake'
  <2>1. p < P /\ productCount < K /\ productCount' = productCount + 1
    BY <1>2, <1>8, AsleepCount, BufferAssumption, Sizes
    DEF Produce, Full, K, P
  <2>2. PICK W \in Signal : pc' = Woken(W)
    BY <1>8 DEF Produce, AfterProducing
  <2>3. OneWoken(p, c, p', c')
    BY <1>1, <2>2, SignalCount
  <2>4. Balanced(productCount', p', c')
    BY <1>1, <1>2, <1>3, <1>5, <2>1, <2>3, ProduceBalances
  <2>5. \A h \in Goroutines : pc'[h] # "exited"
    BY <1>2, <1>5, <2>2 DEF Woken
  <2> QED
    BY <2>4, <2>5 DEF SomebodyAwake
<1>9. ASSUME NEW g \in Consumers, Consume(g)
      PROVE  SomebodyAwake'
  <2>1. c < C /\ productCount > 0 /\ productCount' = productCount - 1
    BY <1>2, <1>9, AsleepCount, BufferAssumption
    DEF Consume, Empty, C
  <2>2. PICK W \in Signal : pc' = Woken(W)
    BY <1>9 DEF Consume, AfterConsuming
  <2>3. OneWoken(p, c, p', c')
    BY <1>1, <2>2, SignalCount
  <2>4. Balanced(productCount', p', c')
    BY <1>1, <1>2, <1>3, <1>5, <2>1, <2>3, ConsumeBalances
  <2>5. \A h \in Goroutines : pc'[h] # "exited"
    BY <1>2, <1>5, <2>2 DEF Woken
  <2> QED
    BY <2>4, <2>5 DEF SomebodyAwake
<1>10. CASE UNCHANGED <<productCount, pc>>
  BY <1>5, <1>10 DEF SomebodyAwake, Asleep
<1>11. ASSUME NEW g, ProducerExits(g) \/ ConsumerExits(g)
       PROVE  FALSE
  BY <1>4, <1>11 DEF ProducerExits, ConsumerExits
<1> QED
  BY <1>6, <1>7, <1>8, <1>9, <1>10, <1>11
  DEF Next, ProducerStep, ConsumerStep, MainExits, vars

(* With no more than 2 * PRODUCTS goroutines in all, a goroutine that waits *)
(* on the condition can always count on one that runs (Produce, Consume).   *)
THEOREM NobodySleepsForEver ==
  ASSUME Room
  PROVE  Spec => []NotAllAsleep
<1>1. IInv /\ SomebodyAwake => NotAllAsleep
  <2> SUFFICES ASSUME IInv, SomebodyAwake, Waiters # {}
               PROVE  \E g \in Goroutines : pc[g] = "running"
    BY DEF NotAllAsleep
  <2>1. ~done
    BY DEF IInv, DoneIsHeard
  <2>2. productCount \in Nat
        /\ pc \in [Goroutines -> {"running", "waiting", "exited"}]
    BY DEF IInv, TypeOK
  <2>3. /\ Cardinality(Asleep(pc, Producers)) \in Nat
        /\ Cardinality(Asleep(pc, Consumers)) \in Nat
    BY AsleepCount, BufferAssumption
  <2>4. \/ Cardinality(Asleep(pc, Producers)) < P
        \/ Cardinality(Asleep(pc, Consumers)) < C
    BY <2>1, <2>2, <2>3, BalancedAwake DEF SomebodyAwake
  <2>5. \E g \in Producers \cup Consumers : pc[g] # "waiting"
    BY <2>4, AsleepCount, BufferAssumption DEF P, C
  <2> QED
    BY <2>1, <2>2, <2>5 DEF SomebodyAwake, Goroutines
<1>2. Room /\ Init => IInv /\ SomebodyAwake
  BY InitInv, InitAwake
<1>3. Room /\ IInv /\ SomebodyAwake /\ [Next]_vars => (IInv /\ SomebodyAwake)'
  BY NextInv, NextAwake
<1>4. Room
  OBVIOUS
<1>5. IInv /\ SomebodyAwake /\ [Next]_vars => (IInv /\ SomebodyAwake)'
  BY <1>3, <1>4
<1> QED
  BY <1>1, <1>2, <1>4, <1>5, PTL DEF Spec

-----------------------------------------------------------------------------
(* The queue of TaskQueue: a signal for each item, a broadcast at the end.  *)

\* Who waits on the condition had finished the second it sleeps after an item.
WaitersRested == \A c \in Consumers : qpc[c] = "waiting" => sleep[c] = 0

QueueInv == Queue!TypeOK /\ SleepersAreSurplus /\ WaitersRested

\* The consumers that are idle with the program counters f and the sleeps l.
Idling(f, l) == {c \in Consumers : f[c] = "running" /\ l[c] = 0}

QueueStates == {"running", "waiting", "exited"}

LEMMA QueueFacts ==
  /\ IsFiniteSet(Hands) /\ IsFiniteSet(Consumers)
  /\ Hands \cap Consumers = {} /\ Main \notin Hands \cup Consumers
  /\ Items \in Nat /\ ProducePause \in Nat /\ ConsumePause \in Nat
  /\ TerminateAfter \in Nat /\ ExitAfter \in Nat
<1>1. Queue!IsFiniteSet(Hands) /\ Queue!IsFiniteSet(Consumers)
      /\ {Items, ProducePause, ConsumePause, TerminateAfter, ExitAfter} \subseteq Nat
      /\ Hands \cap Consumers = {} /\ Main \notin Hands \cup Consumers
  BY GoAssumption DEF Queue!QueueAssumption
<1>2. \A S : Queue!IsFiniteSet(S) <=> IsFiniteSet(S)
  BY DEF Queue!IsFiniteSet, IsFiniteSet
<1> QED
  BY <1>1, <1>2

(* The module has a Cardinality of its own, the same one.                   *)
LEMMA SameCardinality ==
  ASSUME NEW S
  PROVE  Queue!Cardinality(S) = Cardinality(S)
BY DEF Queue!Cardinality, Cardinality

(* The number of idle consumers is a natural number, and grows with the set. *)
LEMMA IdleCount ==
  ASSUME NEW f, NEW l
  PROVE  /\ IsFiniteSet(Idling(f, l)) /\ Cardinality(Idling(f, l)) \in Nat
         /\ \A S \in SUBSET Idling(f, l) : Cardinality(S) <= Cardinality(Idling(f, l))
<1>1. Idling(f, l) \in SUBSET Consumers
  BY DEF Idling
<1> QED
  BY <1>1, QueueFacts, FS_Subset, FS_CardinalityType

(* A consumer that waited and is woken is one more that is idle.            *)
LEMMA OneMoreIdle ==
  ASSUME NEW f, NEW l, NEW h, NEW l2,
         NEW c \in Consumers, f[c] = "waiting", l[c] = 0,
         \A d \in Consumers : l2[d] = l[d] /\ h[d] = IF d = c THEN "running" ELSE f[d]
  PROVE  Cardinality(Idling(h, l2)) = Cardinality(Idling(f, l)) + 1
<1>1. Idling(h, l2) = Idling(f, l) \cup {c}
  BY DEF Idling
<1>2. c \notin Idling(f, l)
  BY DEF Idling
<1> QED
  BY <1>1, <1>2, IdleCount, FS_AddElement

(* A consumer that takes an item is at most one less.                       *)
LEMMA OneLessIdle ==
  ASSUME NEW f, NEW l, NEW l2, NEW c \in Consumers,
         \A d \in Consumers \ {c} : l2[d] = l[d]
  PROVE  Cardinality(Idling(f, l)) <= Cardinality(Idling(f, l2)) + 1
<1> DEFINE S == Idling(f, l) \ {c}
<1>1. S \subseteq Idling(f, l2)
  BY DEF Idling
<1>2. Cardinality(S) <= Cardinality(Idling(f, l2))
  BY <1>1, IdleCount
<1>3. Cardinality(S) = IF c \in Idling(f, l)
        THEN Cardinality(Idling(f, l)) - 1 ELSE Cardinality(Idling(f, l))
  BY IdleCount, FS_RemoveElement
<1> QED
  BY <1>2, <1>3, IdleCount

LEMMA QueueInit == Queue!Init => QueueInv
<1> SUFFICES ASSUME Queue!Init PROVE QueueInv
  OBVIOUS
<1> USE QueueFacts
<1>1. buffer = <<>> /\ terminated = FALSE /\ qpc = [g \in Queue!Goroutines |-> "running"]
      /\ sleep = [g \in Queue!Goroutines |-> IF g = Main THEN TerminateAfter ELSE 0]
      /\ made = [p \in Hands |-> 0]
  BY DEF Queue!Init
<1>2. Queue!TypeOK
  <2>1. buffer \in Seq(Hands \X (1..Items))
    BY <1>1
  <2>2. sleep \in [Queue!Goroutines -> Nat]
    BY <1>1
  <2>3. made \in [Hands -> 0..Items]
    BY <1>1
  <2> QED
    BY <1>1, <2>1, <2>2, <2>3 DEF Queue!TypeOK
<1>3. Queue!Waiters = {} /\ WaitersRested
  BY <1>1 DEF Queue!Waiters, Queue!Goroutines, WaitersRested
<1> QED
  BY <1>2, <1>3 DEF QueueInv, SleepersAreSurplus, Queue!SleepersAreSurplus

LEMMA QueueNext == QueueInv /\ [Queue!Next]_queuevars => QueueInv'
<1> SUFFICES ASSUME QueueInv, [Queue!Next]_queuevars PROVE QueueInv'
  OBVIOUS
<1>a. /\ buffer \in Seq(Hands \X (1..Items)) /\ terminated \in BOOLEAN
      /\ qpc \in [Queue!Goroutines -> QueueStates]
      /\ sleep \in [Queue!Goroutines -> Nat] /\ made \in [Hands -> 0..Items]
  BY DEF QueueInv, Queue!TypeOK, QueueStates
<1>b. Len(buffer) \in Nat
  BY <1>a, LenProperties
<1>c. Queue!Waiters # {} => ~terminated /\ Len(buffer) <= Cardinality(Idling(qpc, sleep))
  BY SameCardinality DEF QueueInv, SleepersAreSurplus, Queue!SleepersAreSurplus, Idling, Queue!Idle
<1>e. \A c \in Consumers : qpc[c] = "waiting" => sleep[c] = 0
  BY DEF QueueInv, WaitersRested
<1>d. ASSUME /\ buffer' \in Seq(Hands \X (1..Items)) /\ terminated' \in BOOLEAN,
             qpc' \in [Queue!Goroutines -> QueueStates],
             sleep' \in [Queue!Goroutines -> Nat] /\ made' \in [Hands -> 0..Items],
             \A c \in Consumers : qpc'[c] = "waiting" => sleep'[c] = 0,
             (Queue!Waiters # {})' => ~terminated' /\ Len(buffer') <= Cardinality(Idling(qpc', sleep'))
      PROVE  QueueInv'
  <2>1. Queue!TypeOK'
    BY <1>d DEF Queue!TypeOK, QueueStates
  <2>2. Queue!Cardinality(Idling(qpc', sleep')) = Cardinality(Idling(qpc', sleep'))
    BY SameCardinality
  <2>3. SleepersAreSurplus'
    BY <1>d, <2>2 DEF SleepersAreSurplus, Queue!SleepersAreSurplus, Idling, Queue!Idle
  <2> QED
    BY <1>d, <2>1, <2>3 DEF QueueInv, WaitersRested
<1>1. ASSUME NEW p \in Hands, Queue!Produce(p) PROVE QueueInv'
  <2>1. /\ made[p] < Items /\ made' = [made EXCEPT ![p] = @ + 1]
        /\ buffer' = Append(buffer, <<p, made'[p]>>)
        /\ sleep' = [sleep EXCEPT ![p] = ProducePause] /\ UNCHANGED terminated
    BY <1>1 DEF Queue!Produce, Queue!MoreToMake
  <2>2. PICK W \in Queue!Signal : qpc' = Queue!Woken(W)
    BY <1>1 DEF Queue!Produce, Queue!AfterProducing
  <2>3. made'[p] \in 1..Items /\ made' \in [Hands -> 0..Items]
    BY <1>a, <2>1, QueueFacts
  <2>4. buffer' \in Seq(Hands \X (1..Items)) /\ Len(buffer') = Len(buffer) + 1
    BY <1>a, <2>1, <2>3, AppendProperties
  <2>5. /\ sleep' \in [Queue!Goroutines -> Nat]
        /\ \A c \in Consumers : sleep'[c] = sleep[c]
    <3>1. p \notin Consumers
      BY QueueFacts
    <3>2. \A c \in Consumers : sleep'[c] = sleep[c]
      BY <1>a, <2>1, <3>1 DEF Queue!Goroutines
    <3> QED
      BY <1>a, <2>1, <3>2, QueueFacts
  <2>9. \A c \in Consumers : qpc'[c] = "waiting" => sleep'[c] = 0
    BY <1>e, <2>2, <2>5 DEF Queue!Woken, Queue!Goroutines
  <2>6. qpc' \in [Queue!Goroutines -> QueueStates]
    BY <1>a, <2>2 DEF Queue!Woken, QueueStates
  <2>7. CASE Queue!Waiters = {}
    <3>1. Queue!Waiters' = {}
      BY <1>a, <2>2, <2>7 DEF Queue!Signal, Queue!Woken, Queue!Waiters, Queue!Goroutines
    <3> QED
      BY <1>a, <1>d, <2>1, <2>3, <2>4, <2>5, <2>6, <2>9, <3>1
  <2>8. CASE Queue!Waiters # {}
    <3>1. PICK c \in Consumers : qpc[c] = "waiting" /\ W = {c}
      BY <2>2, <2>8 DEF Queue!Signal, Queue!Waiters
    <3>2. Cardinality(Idling(qpc', sleep')) = Cardinality(Idling(qpc, sleep)) + 1
      <4>1. \A d \in Consumers :
              sleep'[d] = sleep[d] /\ qpc'[d] = IF d = c THEN "running" ELSE qpc[d]
        BY <2>2, <2>5, <3>1 DEF Queue!Woken, Queue!Goroutines
      <4>2. sleep[c] = 0
        BY <1>e, <3>1
      <4> QED
        BY <3>1, <4>1, <4>2, OneMoreIdle
    <3>3. ~terminated' /\ Len(buffer') <= Cardinality(Idling(qpc', sleep'))
      BY <1>b, <1>c, <2>1, <2>4, <2>8, <3>2, IdleCount
    <3> QED
      BY <1>a, <1>d, <2>1, <2>3, <2>4, <2>5, <2>6, <2>9, <3>3
  <2> QED
    BY <2>7, <2>8
<1>2. ASSUME NEW p \in Hands, Queue!ProducerExits(p) PROVE QueueInv'
  <2>1. qpc' = [qpc EXCEPT ![p] = "exited"] /\ UNCHANGED <<buffer, terminated, sleep, made>>
    BY <1>2 DEF Queue!ProducerExits
  <2>2. p \notin Consumers
    BY QueueFacts
  <2>3. qpc' \in [Queue!Goroutines -> QueueStates]
    BY <1>a, <2>1 DEF QueueStates
  <2>4. Queue!Waiters' = Queue!Waiters /\ Idling(qpc', sleep') = Idling(qpc, sleep)
    BY <1>a, <2>1, <2>2 DEF Queue!Waiters, Idling, Queue!Goroutines
  <2>5. \A c \in Consumers : qpc'[c] = "waiting" => sleep'[c] = 0
    BY <1>a, <1>e, <2>1, <2>2 DEF Queue!Goroutines
  <2> QED
    BY <1>a, <1>c, <1>d, <2>1, <2>3, <2>4, <2>5
<1>3. ASSUME NEW c \in Consumers, Queue!ConsumerWaits(c) PROVE QueueInv'
  <2>1. /\ buffer = <<>> /\ ~terminated /\ sleep[c] = 0
        /\ qpc' = [qpc EXCEPT ![c] = "waiting"]
        /\ UNCHANGED <<buffer, terminated, sleep, made>>
    BY <1>3 DEF Queue!ConsumerWaits, Queue!Ready
  <2>2. qpc' \in [Queue!Goroutines -> QueueStates]
    BY <1>a, <2>1 DEF QueueStates
  <2>3. Len(buffer') = 0
    BY <2>1
  <2>4. ~terminated' /\ Len(buffer') <= Cardinality(Idling(qpc', sleep'))
    BY <2>1, <2>3, IdleCount
  <2>5. \A d \in Consumers : qpc'[d] = "waiting" => sleep'[d] = 0
    BY <1>a, <1>e, <2>1
  <2> QED
    BY <1>a, <1>d, <2>1, <2>2, <2>4, <2>5
<1>4. ASSUME NEW c \in Consumers, Queue!Consume(c) PROVE QueueInv'
  <2>1. /\ qpc[c] = "running" /\ buffer # <<>> /\ buffer' = Tail(buffer)
        /\ sleep' = [sleep EXCEPT ![c] = ConsumePause] /\ UNCHANGED <<terminated, qpc, made>>
    BY <1>4 DEF Queue!Consume, Queue!Ready
  <2>2. buffer' \in Seq(Hands \X (1..Items)) /\ Len(buffer') = Len(buffer) - 1
    BY <1>a, <2>1, HeadTailProperties
  <2>3. sleep' \in [Queue!Goroutines -> Nat]
    BY <1>a, <2>1, QueueFacts
  <2>4. Queue!Waiters' = Queue!Waiters
    BY <2>1 DEF Queue!Waiters
  <2>5. \A d \in Consumers \ {c} : sleep'[d] = sleep[d]
    BY <1>a, <2>1, QueueFacts
  <2>6. Cardinality(Idling(qpc, sleep)) <= Cardinality(Idling(qpc', sleep')) + 1
    BY <2>1, <2>5, OneLessIdle
  <2>7. Queue!Waiters # {} => Len(buffer') <= Cardinality(Idling(qpc', sleep'))
    BY <1>b, <1>c, <2>2, <2>6, IdleCount
  <2>8. \A d \in Consumers : qpc'[d] = "waiting" => sleep'[d] = 0
    BY <1>e, <2>1, <2>5
  <2> QED
    BY <1>a, <1>c, <1>d, <2>1, <2>2, <2>3, <2>4, <2>7, <2>8
<1>5. ASSUME NEW c \in Consumers, Queue!ConsumerExits(c) PROVE QueueInv'
  <2>1. /\ terminated /\ qpc' = [qpc EXCEPT ![c] = "exited"]
        /\ UNCHANGED <<buffer, terminated, sleep, made>>
    BY <1>5 DEF Queue!ConsumerExits
  <2>2. qpc' \in [Queue!Goroutines -> QueueStates]
    BY <1>a, <2>1 DEF QueueStates
  <2>3. Queue!Waiters = {}
    BY <1>c, <2>1
  <2>4. Queue!Waiters' = {}
    BY <1>a, <2>1, <2>3 DEF Queue!Waiters, Queue!Goroutines
  <2>5. \A d \in Consumers : qpc'[d] = "waiting" => sleep'[d] = 0
    BY <2>4 DEF Queue!Waiters
  <2> QED
    BY <1>a, <1>d, <2>1, <2>2, <2>4, <2>5
<1>6. CASE Queue!Terminated
  <2>1. /\ terminated' = TRUE /\ qpc' = Queue!Woken(Queue!Waiters)
        /\ sleep' = [sleep EXCEPT ![Main] = ExitAfter] /\ UNCHANGED <<buffer, made>>
    BY <1>6 DEF Queue!Terminated, Queue!Broadcast
  <2>2. qpc' \in [Queue!Goroutines -> QueueStates]
    BY <1>a, <2>1 DEF Queue!Woken, QueueStates
  <2>3. Queue!Waiters' = {}
    BY <1>a, <2>1 DEF Queue!Waiters, Queue!Woken, Queue!Goroutines
  <2>4. sleep' \in [Queue!Goroutines -> Nat]
    BY <1>a, <2>1, QueueFacts
  <2>5. \A d \in Consumers : qpc'[d] = "waiting" => sleep'[d] = 0
    BY <2>3 DEF Queue!Waiters
  <2> QED
    BY <1>a, <1>d, <2>1, <2>2, <2>3, <2>4, <2>5
<1>7. CASE Queue!MainExits
  <2>1. qpc' = [qpc EXCEPT ![Main] = "exited"] /\ UNCHANGED <<buffer, terminated, sleep, made>>
    BY <1>7 DEF Queue!MainExits
  <2>2. Main \notin Consumers
    BY QueueFacts
  <2>3. qpc' \in [Queue!Goroutines -> QueueStates]
    BY <1>a, <2>1 DEF QueueStates
  <2>4. Queue!Waiters' = Queue!Waiters /\ Idling(qpc', sleep') = Idling(qpc, sleep)
    BY <1>a, <2>1, <2>2 DEF Queue!Waiters, Idling, Queue!Goroutines
  <2>5. \A c \in Consumers : qpc'[c] = "waiting" => sleep'[c] = 0
    BY <1>a, <1>e, <2>1, <2>2 DEF Queue!Goroutines
  <2> QED
    BY <1>a, <1>c, <1>d, <2>1, <2>3, <2>4, <2>5
<1>8. CASE Queue!Tick
  <2>1. /\ sleep' = [g \in Queue!Goroutines |-> IF sleep[g] = 0 THEN 0 ELSE sleep[g] - 1]
        /\ UNCHANGED <<buffer, terminated, qpc, made>>
    BY <1>8 DEF Queue!Tick
  <2>2. sleep' \in [Queue!Goroutines -> Nat]
    BY <1>a, <2>1
  <2>3. Queue!Waiters' = Queue!Waiters
    BY <2>1 DEF Queue!Waiters
  <2>4. \A d \in Consumers : sleep[d] = 0 => sleep'[d] = 0
    BY <2>1 DEF Queue!Goroutines
  <2>5. Idling(qpc, sleep) \in SUBSET Idling(qpc', sleep')
    BY <2>1, <2>4 DEF Idling
  <2>6. Cardinality(Idling(qpc, sleep)) <= Cardinality(Idling(qpc', sleep'))
    BY <2>5, IdleCount
  <2>7. Queue!Waiters # {} => Len(buffer') <= Cardinality(Idling(qpc', sleep'))
    BY <1>b, <1>c, <2>1, <2>6, IdleCount
  <2>8. \A d \in Consumers : qpc'[d] = "waiting" => sleep'[d] = 0
    BY <1>e, <2>1, <2>4
  <2> QED
    BY <1>a, <1>c, <1>d, <2>1, <2>2, <2>3, <2>7, <2>8
<1>9. CASE UNCHANGED queuevars
  <2>1. Queue!Waiters' = Queue!Waiters
    BY <1>9 DEF Queue!Waiters, queuevars
  <2> QED
    BY <1>a, <1>c, <1>d, <1>e, <1>9, <2>1 DEF queuevars
<1> QED
  BY <1>1, <1>2, <1>3, <1>4, <1>5, <1>6, <1>7, <1>8, <1>9 DEF Queue!Next

LEMMA QueueSteps == [MCNext]_all => [Queue!Next]_queuevars
BY DEF MCNext, CondRuns, QueueRuns, PoolRuns, ChatRuns, all, queuevars

(* However late anybody is, a consumer waits on the condition only before   *)
(* Terminated, and only when every item in the queue has a consumer of its  *)
(* own that neither waits nor sleeps (Produce, Consume, Terminated), for    *)
(* any number of producers, consumers and items and any pauses.             *)
THEOREM SleepersCorrect == MCSpec => []SleepersAreSurplus
<1>1. MCInit => QueueInv
  BY QueueInit DEF MCInit
<1>3. QueueInv /\ [MCNext]_all => QueueInv'
  BY QueueSteps, QueueNext
<1>4. QueueInv => SleepersAreSurplus
  BY DEF QueueInv
<1> QED
  BY <1>1, <1>3, <1>4, PTL DEF MCSpec

-----------------------------------------------------------------------------
(* Whichever program runs, the others keep their initial states: a behaviour *)
(* of MCSpec is one of each of the four.                                    *)

LEMMA FourPrograms == MCSpec => Spec /\ Pool!Spec /\ Chat!Spec
<1>1. MCInit => Init /\ Pool!Init /\ Chat!Init
  BY DEF MCInit
<1>2. [MCNext]_all => [Next]_vars
  BY DEF MCNext, CondRuns, QueueRuns, PoolRuns, ChatRuns, all
<1>3. [MCNext]_all => [Pool!Next]_(Pool!vars)
  BY DEF MCNext, CondRuns, QueueRuns, PoolRuns, ChatRuns, all, poolvars, Pool!vars,
         Pool!web, Pool!dispatch, Pool!crew
<1>4. [MCNext]_all => [Chat!Next]_(Chat!vars)
  BY DEF MCNext, CondRuns, QueueRuns, PoolRuns, ChatRuns, all, chatvars, Chat!vars,
         Chat!slice, Chat!net
<1> QED
  BY <1>1, <1>2, <1>3, <1>4, PTL DEF MCSpec, Spec, Pool!Spec, Chat!Spec

(* The variables of the four Go programs hold what they are declared to     *)
(* hold, at every step: for any number of goroutines, clients, workers and  *)
(* requests.                                                                *)
THEOREM TypesCorrect == MCSpec => []TypesOK
<1>1. Spec => []TypeOK
  BY Ranges, PTL
<1>2. Pool!Spec => []Pool!TypeOK
  BY GoAssumption, Pool!TypeCorrect
<1>3. Chat!Spec => []Chat!TypeOK
  BY GoAssumption, Chat!TypeCorrect
<1>4. MCInit => QueueInv
  BY QueueInit DEF MCInit
<1>5. QueueInv /\ [MCNext]_all => QueueInv'
  BY QueueSteps, QueueNext
<1>6. QueueInv => Queue!TypeOK
  BY DEF QueueInv
<1>7. TypeOK /\ Queue!TypeOK /\ Pool!TypeOK /\ Chat!TypeOK => TypesOK
  BY DEF TypesOK
<1> QED
  BY <1>1, <1>2, <1>3, <1>4, <1>5, <1>6, <1>7, FourPrograms, PTL DEF MCSpec
=============================================================================
