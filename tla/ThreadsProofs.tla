---------------------------- MODULE ThreadsProofs ----------------------------
(***************************************************************************)
(* Theorems about the programs of MCThreads: PrethreadedEcho, for any      *)
(* number of threads, any size of the buffer and any number of clients and *)
(* descriptors, and, from the section on it down, ParallelSum.             *)
(*                                                                         *)
(* The invariants of PrethreadedEcho come in layers, each proved with the  *)
(* ones before it: Types (what the variables hold, without the bounds that *)
(* rest on the program's order), Counter (echo_cnt), Locked (the mutex of  *)
(* sbuf), SemaphoresAreExact, Handed (where the descriptors are) and       *)
(* EchoedTypes.  Together they give TypeOK; with Table and Echoes, that    *)
(* PrethreadedEcho implements EchoService.                                 *)
(***************************************************************************)
EXTENDS MCThreads, FiniteSetTheorems, WellFoundedInduction, TLAPS

PCs == {"items", "lock", "get", "slots", "once", "init", "read", "P",
        "load", "store", "V", "write", "close"}

NetTypes ==
  /\ conn \in [Clients -> {"none", "backlog", "open", "closed"}]
  /\ sent \in [Clients -> 0..(2 * MaxLines)]
  /\ end \in [Clients -> {"no", "eof", "reset"}]
  /\ taken \in [Clients -> Nat]
  /\ \A c \in Clients : taken[c] <= sent[c]

ProcessTypes ==
  /\ up \in BOOLEAN /\ nofile \in Limits
  /\ fds \in [Fds -> Clients \cup {Nobody}]
  /\ at \in {"accept", "slots", "lock", "put", "items"} /\ connfd \in Fds \cup {0}

SbufTypes ==
  /\ size \in Sizes /\ buf \in [0..(size - 1) -> Fds \cup {0}]
  /\ front \in Nat /\ rear \in Nat
  /\ sbufmutex \in Nat /\ slots \in Nat /\ items \in Nat

ThreadTypes ==
  /\ pc \in [Threads -> PCs]
  /\ fd \in [Threads -> Fds \cup {0}] /\ n \in [Threads -> 0..2]
  /\ seen \in [Threads -> Nat]
  /\ once \in {"no", "running", "done"} /\ mutex \in Nat
  /\ byte_cnt \in Nat /\ counted \in Nat

Types == NetTypes /\ ProcessTypes /\ SbufTypes /\ ThreadTypes

-----------------------------------------------------------------------------
(* Arithmetic.                                                             *)

(* SBUFSIZE is a positive number, and an index modulo it is one of buf.     *)
LEMMA Index ==
  ASSUME NEW s \in Nat \ {0}, NEW k \in Nat
  PROVE  k % s \in 0..(s - 1)
OBVIOUS

(* A line read is one half or two, what is left at end of file at most one. *)
LEMMA LineLength ==
  ASSUME NetTypes, NEW c \in Clients, NEW k \in LineResults(c)
  PROVE  k \in 0..2 /\ taken[c] + k <= sent[c]
<1>1. taken[c] \in Nat /\ sent[c] \in Nat /\ taken[c] <= sent[c]
  BY NetAssumption DEF NetTypes
<1>2. \A m \in Nat : 2 * (m \div 2 + 1) - m \in 1..2
  OBVIOUS
<1>3. LineEnd(c) \in Nat /\ LineEnd(c) - taken[c] \in 1..2
  BY <1>1, <1>2 DEF LineEnd
<1> QED
  BY <1>1, <1>3 DEF LineResults

-----------------------------------------------------------------------------
(* Types.                                                                  *)

LEMMA TypesInit == Init => Types
<1> SUFFICES ASSUME Init PROVE Types
  OBVIOUS
<1>1. size \in Nat \ {0}
  BY PrethreadedAssumption DEF Init
<1>2. 2 * MaxLines \in Nat
  BY NetAssumption
<1>3. NetTypes
  BY <1>2 DEF Init, NetInit, NetTypes
<1>4. ProcessTypes
  BY DEF Init, NoFds, ProcessTypes
<1>5. SbufTypes
  BY <1>1 DEF Init, SbufTypes
<1>6. ThreadTypes
  BY DEF Init, ThreadTypes, PCs
<1> QED
  BY <1>3, <1>4, <1>5, <1>6 DEF Types

(* The clients.                                                             *)
LEMMA ClientTypes ==
  ASSUME Types, NEW c \in Clients, ClientMoves(c)
  PROVE  Types'
<1> USE NetAssumption
<1>1. 2 * MaxLines \in Nat
  OBVIOUS
<1>2. NetTypes'
  BY <1>1 DEF Types, NetTypes, ClientMoves, ClientStep, Dial, Sends, Ends
<1>3. ProcessTypes' /\ SbufTypes' /\ ThreadTypes'
  BY DEF Types, ProcessTypes, SbufTypes, ThreadTypes, ClientMoves, mainvars, sbuf,
         threads, counter
<1> QED
  BY <1>2, <1>3 DEF Types

(* main.                                                                    *)
LEMMA MainTypes ==
  ASSUME Types, MainStep
  PROVE  Types'
<1> USE PrethreadedAssumption, NetAssumption DEF Types
<1>1. ASSUME NEW c \in Clients, Accept(c) PROVE Types'
  <2>1. NetTypes'
    BY <1>1 DEF Accept, NetTypes
  <2>2. ProcessTypes'
    BY <1>1 DEF Accept, ProcessTypes, Available, Free
  <2>3. SbufTypes' /\ ThreadTypes'
    BY <1>1 DEF Accept, SbufTypes, ThreadTypes, sbuf, threads, counter
  <2> QED
    BY <2>1, <2>2, <2>3
<1>2. CASE AcceptFails
  BY <1>2 DEF AcceptFails, NetTypes, ProcessTypes, SbufTypes, ThreadTypes, net, mainvars,
              sbuf, threads, counter
<1>3. CASE InsertP
  BY <1>3 DEF InsertP, SlotFree, NetTypes, ProcessTypes, SbufTypes, ThreadTypes, net,
              process, threads, counter
<1>4. CASE InsertLock
  BY <1>4 DEF InsertLock, NetTypes, ProcessTypes, SbufTypes, ThreadTypes, net, process,
              threads, counter
<1>5. CASE Insert
  <2>1. NetTypes' /\ ProcessTypes' /\ ThreadTypes'
    BY <1>5 DEF Insert, NetTypes, ProcessTypes, ThreadTypes, net, process, threads, counter
  <2>2. SbufTypes'
    BY <1>5 DEF Insert, SbufTypes, ProcessTypes
  <2> QED
    BY <2>1, <2>2
<1>6. CASE InsertV
  BY <1>6 DEF InsertV, NetTypes, ProcessTypes, SbufTypes, ThreadTypes, net, process,
              threads, counter
<1> QED
  BY <1>1, <1>2, <1>3, <1>4, <1>5, <1>6 DEF MainStep

(* The threads.                                                             *)
LEMMA ThreadStepTypes ==
  ASSUME Types, NEW t \in Threads, ThreadStep(t)
  PROVE  Types'
<1> USE PrethreadedAssumption, NetAssumption DEF Types, At, Goes, PCs
<1>1. CASE RemoveP(t)
  BY <1>1 DEF RemoveP, NetTypes, ProcessTypes, SbufTypes, ThreadTypes, net, process,
              mainvars, counter
<1>2. CASE RemoveLock(t)
  BY <1>2 DEF RemoveLock, NetTypes, ProcessTypes, SbufTypes, ThreadTypes, net, process,
              mainvars, counter
<1>3. CASE Remove(t)
  <2>1. NetTypes' /\ ProcessTypes' /\ SbufTypes'
    BY <1>3 DEF Remove, NetTypes, ProcessTypes, SbufTypes, net, process, mainvars
  <2>2. First \in 0..(size - 1)
    <3>1. size \in Nat \ {0} /\ front + 1 \in Nat
      BY DEF SbufTypes
    <3> HIDE DEF Types
    <3> QED
      BY <3>1, Index DEF First
  <2>3. buf[First] \in Fds \cup {0}
    BY <2>2 DEF SbufTypes
  <2>4. ThreadTypes'
    BY <1>3, <2>3 DEF Remove, ThreadTypes, counter
  <2> QED
    BY <2>1, <2>4
<1>4. CASE RemoveV(t)
  BY <1>4 DEF RemoveV, Given, NetTypes, ProcessTypes, SbufTypes, ThreadTypes, net, process,
              mainvars, counter
<1>5. CASE OnceFirst(t)
  BY <1>5 DEF OnceFirst, NetTypes, ProcessTypes, SbufTypes, ThreadTypes, net, process,
              mainvars, sbuf
<1>6. CASE InitEchoCnt(t)
  BY <1>6 DEF InitEchoCnt, NetTypes, ProcessTypes, SbufTypes, ThreadTypes, net, process,
              mainvars, sbuf
<1>7. CASE OnceAgain(t)
  BY <1>7 DEF OnceAgain, NetTypes, ProcessTypes, SbufTypes, ThreadTypes, net, process,
              mainvars, sbuf, counter
<1>8. CASE Read(t)
  <2>1. Client(t) \in Clients
    BY <1>8 DEF Read, Client, ProcessTypes
  <2>2. PICK k \in LineResults(Client(t)) :
          /\ taken' = [taken EXCEPT ![Client(t)] = @ + k]
          /\ n' = [n EXCEPT ![t] = k]
          /\ Goes(t, IF k = 0 THEN "close" ELSE "P")
    BY <1>8 DEF Read
  <2>3. k \in 0..2 /\ taken[Client(t)] + k <= sent[Client(t)]
    BY <2>1, LineLength
  <2>4. NetTypes'
    BY <1>8, <2>1, <2>2, <2>3 DEF Read, NetTypes
  <2>5. ThreadTypes'
    BY <1>8, <2>2, <2>3 DEF Read, ThreadTypes, counter
  <2>6. ProcessTypes' /\ SbufTypes'
    BY <1>8 DEF Read, ProcessTypes, SbufTypes, process, mainvars, sbuf
  <2> QED
    BY <2>4, <2>5, <2>6
<1>9. CASE Lock(t)
  BY <1>9 DEF Lock, NetTypes, ProcessTypes, SbufTypes, ThreadTypes, net, process,
              mainvars, sbuf
<1>10. CASE Load(t)
  BY <1>10 DEF Load, NetTypes, ProcessTypes, SbufTypes, ThreadTypes, net, process,
               mainvars, sbuf, counter
<1>11. CASE Store(t)
  <2>1. seen[t] + n[t] \in Nat /\ counted + n[t] \in Nat
    BY DEF ThreadTypes
  <2> QED
    BY <1>11, <2>1 DEF Store, NetTypes, ProcessTypes, SbufTypes, ThreadTypes, net, process,
                       mainvars, sbuf
<1>12. CASE Unlock(t)
  BY <1>12 DEF Unlock, NetTypes, ProcessTypes, SbufTypes, ThreadTypes, net, process,
               mainvars, sbuf
<1>13. CASE Write(t)
  BY <1>13 DEF Write, NetTypes, ProcessTypes, SbufTypes, ThreadTypes, process, mainvars,
               sbuf, counter
<1>14. CASE Close(t)
  <2>1. NetTypes' /\ SbufTypes' /\ ThreadTypes'
    BY <1>14 DEF Close, NetTypes, SbufTypes, ThreadTypes, mainvars, sbuf, counter
  <2>2. ProcessTypes'
    BY <1>14 DEF Close, ProcessTypes, mainvars
  <2> QED
    BY <2>1, <2>2
<1>15. CASE Fails(t)
  BY <1>15 DEF Fails, NetTypes, ProcessTypes, SbufTypes, ThreadTypes, net, mainvars, sbuf,
               threads, counter
<1> QED
  BY <1>1, <1>2, <1>3, <1>4, <1>5, <1>6, <1>7, <1>8, <1>9, <1>10, <1>11, <1>12, <1>13,
     <1>14, <1>15 DEF ThreadStep

LEMMA TypesStep == Types /\ [Next]_vars => Types'
<1> SUFFICES ASSUME Types, [Next]_vars PROVE Types'
  OBVIOUS
<1>1. CASE UNCHANGED vars
  BY <1>1 DEF vars, net, process, mainvars, sbuf, threads, counter, Types, NetTypes,
              ProcessTypes, SbufTypes, ThreadTypes
<1> QED
  BY <1>1, ClientTypes, MainTypes, ThreadStepTypes DEF Next

LEMMA TypesHold == Spec => []Types
BY TypesInit, TypesStep, PTL DEF Spec

-----------------------------------------------------------------------------
(* The counter.                                                            *)

Counting == {"load", "store", "V"}
AfterOnce == Counting \cup {"read", "P", "write", "close"}

\* Before init_echo_cnt has run nobody is past it, and the counter is zero.
Once ==
  /\ once # "done" => /\ mutex = 0 /\ byte_cnt = 0 /\ counted = 0
                      /\ \A t \in Threads : pc[t] \notin AfterOnce
  /\ \A t \in Threads : pc[t] = "init" => once = "running"
  /\ \A t, u \in Threads : pc[t] = "init" /\ pc[u] = "init" => t = u

\* One thread at a time is between P and V.  What it has loaded is current.
Exclusion ==
  /\ mutex \in 0..1
  /\ \A t \in Threads : pc[t] \in Counting => mutex = 0
  /\ \A t, u \in Threads : pc[t] \in Counting /\ pc[u] \in Counting => t = u
  /\ \A t \in Threads : pc[t] = "store" => seen[t] = byte_cnt

Counter == Once /\ Exclusion /\ CountIsExact

(* Whatever moves one thread to a place outside the critical section, and   *)
(* leaves echo_cnt's variables alone, keeps the invariant.                  *)
LEMMA CounterMoves ==
  ASSUME Types, Counter, NEW t \in Threads, NEW p \in PCs,
         p \notin Counting, p # "init",
         p \in AfterOnce => once = "done",
         pc' = [pc EXCEPT ![t] = p],
         UNCHANGED <<seen, once, mutex, byte_cnt, counted>>
  PROVE  Counter'
<1> USE DEF Types, ThreadTypes
<1>1. Once'
  BY DEF Counter, Once
<1>2. Exclusion'
  BY DEF Counter, Exclusion, Counting
<1>3. CountIsExact'
  BY DEF Counter, CountIsExact
<1> QED
  BY <1>1, <1>2, <1>3 DEF Counter

LEMMA CounterInit == Init => Counter
BY DEF Init, Counter, Once, Exclusion, CountIsExact, Counting, AfterOnce

LEMMA CounterThread ==
  ASSUME Types, Counter, NEW t \in Threads, ThreadStep(t)
  PROVE  Counter'
<1>a. pc[t] \in AfterOnce => once = "done"
  BY DEF Counter, Once
<1> USE DEF At, Goes
<1>1. CASE RemoveP(t)
  BY <1>1, CounterMoves DEF RemoveP, counter, PCs, Counting, AfterOnce
<1>2. CASE RemoveLock(t)
  BY <1>2, CounterMoves DEF RemoveLock, counter, PCs, Counting, AfterOnce
<1>3. CASE Remove(t)
  BY <1>3, CounterMoves DEF Remove, counter, PCs, Counting, AfterOnce
<1>4. CASE RemoveV(t)
  BY <1>4, CounterMoves DEF RemoveV, counter, PCs, Counting, AfterOnce
<1>5. CASE OnceFirst(t)
  BY <1>5 DEF OnceFirst, NotYet, Counter, Once, Exclusion, CountIsExact, Types,
              ThreadTypes, Counting, AfterOnce
<1>6. CASE InitEchoCnt(t)
  <2>1. once = "running" /\ counted = 0
    BY <1>6 DEF InitEchoCnt, Counter, Once
  <2>2. \A u \in Threads : pc[u] \notin AfterOnce
    BY <2>1 DEF Counter, Once
  <2>3. \A u \in Threads : pc'[u] \notin Counting /\ pc'[u] # "init"
    BY <1>6, <2>2 DEF InitEchoCnt, Counter, Once, Types, ThreadTypes, Counting, AfterOnce
  <2> QED
    BY <1>6, <2>1, <2>3 DEF InitEchoCnt, Counter, Once, Exclusion, CountIsExact, Counting
<1>7. CASE OnceAgain(t)
  BY <1>7, CounterMoves DEF OnceAgain, counter, PCs, Counting, AfterOnce
<1>8. CASE Read(t)
  <2>1. PICK p \in {"close", "P"} : pc' = [pc EXCEPT ![t] = p]
    BY <1>8 DEF Read
  <2>2. once = "done"
    BY <1>8, <1>a DEF Read, AfterOnce
  <2> QED
    BY <1>8, <2>1, <2>2, CounterMoves DEF Read, counter, PCs, Counting
<1>9. CASE Lock(t)
  BY <1>9, <1>a DEF Lock, Counter, Once, Exclusion, CountIsExact, Types, ThreadTypes,
                    Counting, AfterOnce
<1>10. CASE Load(t)
  BY <1>10, <1>a DEF Load, Counter, Once, Exclusion, CountIsExact, Types, ThreadTypes,
                     Counting, AfterOnce, counter
<1>11. CASE Store(t)
  <2>1. seen[t] = byte_cnt /\ byte_cnt = counted
    BY <1>11 DEF Store, Counter, Exclusion, CountIsExact
  <2>2. \A u \in Threads : u # t => pc[u] \notin Counting
    BY <1>11 DEF Store, Counter, Exclusion, Counting
  <2>3. Once'
    BY <1>11, <1>a DEF Store, Counter, Once, Types, ThreadTypes, Counting, AfterOnce
  <2>4. Exclusion'
    BY <1>11, <2>2 DEF Store, Counter, Exclusion, Types, ThreadTypes, Counting
  <2>5. CountIsExact'
    BY <1>11, <2>1 DEF Store, CountIsExact
  <2> QED
    BY <2>3, <2>4, <2>5 DEF Counter
<1>12. CASE Unlock(t)
  <2>1. mutex = 0 /\ \A u \in Threads : u # t => pc[u] \notin Counting
    BY <1>12 DEF Unlock, Counter, Exclusion, Counting
  <2> QED
    BY <1>12, <1>a, <2>1 DEF Unlock, Counter, Once, Exclusion, CountIsExact, Types,
                             ThreadTypes, Counting, AfterOnce
<1>13. CASE Write(t)
  BY <1>13, <1>a, CounterMoves DEF Write, counter, PCs, Counting, AfterOnce
<1>14. CASE Close(t)
  BY <1>14, CounterMoves DEF Close, counter, PCs, Counting, AfterOnce
<1>15. CASE Fails(t)
  BY <1>15 DEF Fails, threads, counter, Counter, Once, Exclusion, CountIsExact
<1> QED
  BY <1>1, <1>2, <1>3, <1>4, <1>5, <1>6, <1>7, <1>8, <1>9, <1>10, <1>11, <1>12, <1>13,
     <1>14, <1>15 DEF ThreadStep

LEMMA CounterStep == Types /\ Counter /\ [Next]_vars => Counter'
<1> SUFFICES ASSUME Types, Counter, [Next]_vars PROVE Counter'
  OBVIOUS
<1>1. ASSUME UNCHANGED <<threads, counter>> PROVE Counter'
  BY <1>1 DEF threads, counter, Counter, Once, Exclusion, CountIsExact
<1>2. ASSUME NEW c \in Clients, ClientMoves(c) PROVE Counter'
  BY <1>1, <1>2 DEF ClientMoves
<1>3. CASE MainStep
  BY <1>1, <1>3 DEF MainStep, Accept, AcceptFails, InsertP, InsertLock, Insert, InsertV
<1>4. CASE UNCHANGED vars
  BY <1>1, <1>4 DEF vars
<1> QED
  BY <1>2, <1>3, <1>4, CounterThread DEF Next

LEMMA CounterHolds == Spec => []Counter
BY TypesHold, CounterInit, CounterStep, PTL DEF Spec

(* The counter of echo_cnt is exact, in every run of the server: what every *)
(* thread has counted is in byte_cnt, whoever has called init_echo_cnt.     *)
THEOREM CounterExact == Spec => []CountIsExact
<1>1. Counter => CountIsExact
  BY DEF Counter
<1> QED
  BY <1>1, CounterHolds, PTL

-----------------------------------------------------------------------------
(* The mutex of sbuf.                                                      *)

Locked ==
  /\ sbufmutex \in 0..1
  /\ at = "put" => sbufmutex = 0
  /\ \A t \in Threads : pc[t] = "get" => sbufmutex = 0 /\ at # "put"
  /\ \A t, u \in Threads : pc[t] = "get" /\ pc[u] = "get" => t = u

LEMMA LockedInit == Init => Locked
BY DEF Init, Locked

(* A thread's step that is not about the mutex.                             *)
LEMMA LockedMoves ==
  ASSUME Types, Locked, NEW t \in Threads, NEW p \in PCs \ {"get"},
         pc' = [pc EXCEPT ![t] = p], UNCHANGED <<at, sbufmutex>>
  PROVE  Locked'
BY DEF Locked, Types, ThreadTypes

LEMMA LockedThread ==
  ASSUME Types, Locked, NEW t \in Threads, ThreadStep(t)
  PROVE  Locked'
<1> USE DEF At, Goes, PCs, mainvars
<1>1. CASE RemoveP(t)
  BY <1>1, LockedMoves DEF RemoveP
<1>2. CASE RemoveLock(t)
  BY <1>2 DEF RemoveLock, Locked, Types, ThreadTypes
<1>3. CASE Remove(t)
  BY <1>3 DEF Remove, Locked, Types, ThreadTypes
<1>4. CASE RemoveV(t)
  BY <1>4, LockedMoves DEF RemoveV
<1>5. CASE OnceFirst(t) \/ InitEchoCnt(t) \/ OnceAgain(t)
  BY <1>5, LockedMoves DEF OnceFirst, InitEchoCnt, OnceAgain, sbuf
<1>6. CASE Read(t)
  <2>1. PICK p \in {"close", "P"} : pc' = [pc EXCEPT ![t] = p]
    BY <1>6 DEF Read
  <2> QED
    BY <1>6, <2>1, LockedMoves DEF Read, sbuf
<1>7. CASE Lock(t) \/ Load(t) \/ Store(t) \/ Unlock(t)
  BY <1>7, LockedMoves DEF Lock, Load, Store, Unlock, sbuf
<1>8. CASE Write(t) \/ Close(t)
  BY <1>8, LockedMoves DEF Write, Close, sbuf
<1>9. CASE Fails(t)
  BY <1>9 DEF Fails, Locked, threads, sbuf
<1> QED
  BY <1>1, <1>2, <1>3, <1>4, <1>5, <1>6, <1>7, <1>8, <1>9 DEF ThreadStep

LEMMA LockedStep == Types /\ Locked /\ [Next]_vars => Locked'
<1> SUFFICES ASSUME Types, Locked, [Next]_vars PROVE Locked'
  OBVIOUS
<1>1. ASSUME NEW c \in Clients, ClientMoves(c) PROVE Locked'
  BY <1>1 DEF ClientMoves, Locked, threads, mainvars, sbuf
<1>2. ASSUME NEW c \in Clients, Accept(c) PROVE Locked'
  BY <1>2 DEF Accept, Locked, threads, sbuf
<1>3. CASE AcceptFails
  BY <1>3 DEF AcceptFails, Locked, threads, mainvars, sbuf
<1>4. CASE InsertP
  BY <1>4 DEF InsertP, Locked, threads
<1>5. CASE InsertLock
  BY <1>5 DEF InsertLock, Locked, threads
<1>6. CASE Insert
  BY <1>6 DEF Insert, Locked, threads
<1>7. CASE InsertV
  BY <1>7 DEF InsertV, Locked, threads
<1>8. CASE UNCHANGED vars
  BY <1>8 DEF vars, Locked, threads, mainvars, sbuf
<1> QED
  BY <1>1, <1>2, <1>3, <1>4, <1>5, <1>6, <1>7, <1>8, LockedThread DEF Next, MainStep

LEMMA LockedHolds == Spec => []Locked
BY TypesHold, LockedInit, LockedStep, PTL DEF Spec

-----------------------------------------------------------------------------
(* The semaphores.                                                         *)

\* How many threads are at the places of P when f holds their places.
Among(f, P) == Cardinality({u \in Threads : f[u] \in P})

Removing == Claims({"lock", "get"})
Removed == Claims({"slots"})

Sems ==
  /\ items + Removing = rear - front - (IF at = "items" THEN 1 ELSE 0)
  /\ slots + Removed = size - (rear - front) - (IF at \in {"lock", "put"} THEN 1 ELSE 0)

(* Claims counts the places of pc.                                          *)
LEMMA ClaimsAreAmong ==
  /\ Removed = Among(pc, {"slots"}) /\ Removed' = Among(pc', {"slots"})
  /\ Removing = Among(pc, {"lock", "get"}) /\ Removing' = Among(pc', {"lock", "get"})
BY DEF Removing, Removed, Claims, Among

(* One element more, one less.                                              *)
LEMMA OneMoreOneLess ==
  ASSUME NEW S, IsFiniteSet(S), NEW x
  PROVE  /\ Cardinality(S) \in Nat
         /\ x \in S => Cardinality(S) > 0
         /\ Cardinality(S \cup {x}) = Cardinality(S) + (IF x \in S THEN 0 ELSE 1)
         /\ Cardinality(S \ {x}) = Cardinality(S) - (IF x \in S THEN 1 ELSE 0)
<1>1. Cardinality(S) \in Nat
  BY FS_CardinalityType
<1>2. x \in S => Cardinality(S) # 0
  BY FS_EmptySet
<1>3. Cardinality(S \cup {x}) = IF x \in S THEN Cardinality(S) ELSE Cardinality(S) + 1
  BY FS_AddElement
<1>4. Cardinality(S \ {x}) = IF x \in S THEN Cardinality(S) - 1 ELSE Cardinality(S)
  BY FS_RemoveElement
<1> QED
  BY <1>1, <1>2, <1>3, <1>4

(* A thread's move from one place to another, counted.                      *)
LEMMA ClaimsMove ==
  ASSUME NEW f \in [Threads -> PCs], NEW t \in Threads, NEW p \in PCs, NEW P
  PROVE  Among([f EXCEPT ![t] = p], P) = Among(f, P) + (IF p \in P THEN 1 ELSE 0)
                                                     - (IF f[t] \in P THEN 1 ELSE 0)
<1> DEFINE S == {u \in Threads : f[u] \in P}
           T == {u \in Threads : [f EXCEPT ![t] = p][u] \in P}
<1>1. IsFiniteSet(Threads)
  BY PrethreadedAssumption, FS_Interval DEF Threads
<1>2. IsFiniteSet(S)
  BY <1>1, FS_Subset
<1>3. T = IF p \in P THEN S \cup {t} ELSE S \ {t}
  OBVIOUS
<1>4. t \in S <=> f[t] \in P
  OBVIOUS
<1>5. Among(f, P) = Cardinality(S) /\ Among([f EXCEPT ![t] = p], P) = Cardinality(T)
  BY DEF Among
<1> HIDE DEF S, T
<1>6. /\ Cardinality(S) \in Nat
      /\ Cardinality(S \cup {t}) = Cardinality(S) + (IF t \in S THEN 0 ELSE 1)
      /\ Cardinality(S \ {t}) = Cardinality(S) - (IF t \in S THEN 1 ELSE 0)
  BY <1>2, OneMoreOneLess
<1> QED
  BY <1>3, <1>4, <1>5, <1>6

Shifted(t, p) ==
  /\ Removed' = Removed
       + (IF p = "slots" THEN 1 ELSE 0) - (IF pc[t] = "slots" THEN 1 ELSE 0)
  /\ Removing' = Removing
       + (IF p \in {"lock", "get"} THEN 1 ELSE 0)
       - (IF pc[t] \in {"lock", "get"} THEN 1 ELSE 0)

(* The same for the two sets of places that the semaphores are about.       *)
LEMMA ClaimsMoved ==
  ASSUME Types, NEW t \in Threads, NEW p \in PCs, pc' = [pc EXCEPT ![t] = p]
  PROVE  Shifted(t, p)
<1>1. pc \in [Threads -> PCs]
  BY DEF Types, ThreadTypes
<1> DEFINE A == {"slots"}
           B == {"lock", "get"}
           Moved(P) == Among([pc EXCEPT ![t] = p], P) = Among(pc, P)
             + (IF p \in P THEN 1 ELSE 0) - (IF pc[t] \in P THEN 1 ELSE 0)
<1>2. \A P : Moved(P)
  BY <1>1, ClaimsMove
<1>3. Moved(A) /\ Moved(B)
  <2> HIDE DEF Moved, A, B
  <2> QED
    BY <1>2
<1>4. p \in A <=> p = "slots"
  OBVIOUS
<1>5. pc[t] \in A <=> pc[t] = "slots"
  OBVIOUS
<1> QED
  BY <1>3, <1>4, <1>5, ClaimsAreAmong DEF Shifted

LEMMA ClaimsInit ==
  ASSUME pc \in [Threads -> PCs], NEW P, \A t \in Threads : pc[t] \notin P
  PROVE  Claims(P) = 0
<1>1. {t \in Threads : pc[t] \in P} = {}
  OBVIOUS
<1> QED
  BY <1>1, FS_EmptySet DEF Claims

LEMMA CountsType == Removing \in Nat /\ Removed \in Nat
<1>1. IsFiniteSet(Threads)
  BY PrethreadedAssumption, FS_Interval DEF Threads
<1>2. \A S \in SUBSET Threads : Cardinality(S) \in Nat
  BY <1>1, FS_Subset, FS_CardinalityType
<1> QED
  BY <1>2 DEF Removing, Removed, Claims

(* So much room there is, and so many items.                                *)
LEMMA Bounds ==
  ASSUME Types, Sems
  PROVE  /\ rear - front \in 0..size
         /\ slots <= size /\ items <= size
         /\ at = "put" => rear - front < size
         /\ \A t \in Threads : pc[t] = "get" => rear - front > 0
<1>1. /\ size \in Nat \ {0} /\ front \in Nat /\ rear \in Nat
      /\ slots \in Nat /\ items \in Nat
  BY PrethreadedAssumption DEF Types, SbufTypes
<1>2. Removed \in Nat /\ Removing \in Nat
  BY CountsType
<1>3. ASSUME NEW t \in Threads, pc[t] = "get" PROVE Removing > 0
  <2>1. IsFiniteSet(Threads)
    BY PrethreadedAssumption, FS_Interval DEF Threads
  <2>2. IsFiniteSet({u \in Threads : pc[u] \in {"lock", "get"}})
    BY <2>1, FS_Subset
  <2>3. {u \in Threads : pc[u] \in {"lock", "get"}} # {}
    BY <1>3
  <2> QED
    BY <1>2, <2>2, <2>3, FS_EmptySet DEF Removing, Claims
<1> QED
  BY <1>1, <1>2, <1>3 DEF Sems

LEMMA SemaphoresInit == Init => Sems
<1> SUFFICES ASSUME Init PROVE Sems
  OBVIOUS
<1>1. pc \in [Threads -> PCs] /\ size \in Nat
  BY PrethreadedAssumption DEF Init, PCs
<1>2. Removing = 0 /\ Removed = 0
  BY <1>1, ClaimsInit DEF Init, Removing, Removed
<1> QED
  BY <1>1, <1>2 DEF Init, Sems

(* A thread's step that is not about the buffer.                            *)
LEMMA SemaphoresMoves ==
  ASSUME Types, Sems, NEW t \in Threads, NEW p \in PCs,
         pc[t] \notin {"lock", "get", "slots"}, p \notin {"lock", "get", "slots"},
         pc' = [pc EXCEPT ![t] = p],
         UNCHANGED <<at, size, front, rear, slots, items>>
  PROVE  Sems'
<1>0. Shifted(t, p)
  BY ClaimsMoved
<1>1. Removing' = Removing /\ Removed' = Removed
  BY CountsType, <1>0 DEF Shifted
<1> QED
  BY <1>1 DEF Sems

LEMMA SemaphoresThread ==
  ASSUME Types, Sems, NEW t \in Threads, ThreadStep(t)
  PROVE  Sems'
<1>b. /\ size \in Nat /\ front \in Nat /\ rear \in Nat
      /\ slots \in Nat /\ items \in Nat
  BY PrethreadedAssumption DEF Types, SbufTypes
<1>c. Removed \in Nat /\ Removing \in Nat
  BY CountsType
<1> USE DEF At, Goes, PCs, mainvars, sbuf
<1>1. CASE RemoveP(t)
  <2>1. Shifted(t, "lock")
    BY <1>1, ClaimsMoved DEF RemoveP
  <2> QED
    BY <1>1, <1>b, <1>c, <2>1 DEF RemoveP, Sems, Shifted
<1>2. CASE RemoveLock(t)
  <2>1. Shifted(t, "get")
    BY <1>2, ClaimsMoved DEF RemoveLock
  <2> QED
    BY <1>2, <1>b, <1>c, <2>1 DEF RemoveLock, Sems, Shifted
<1>3. CASE Remove(t)
  <2>1. Shifted(t, "slots")
    BY <1>3, ClaimsMoved DEF Remove
  <2> QED
    BY <1>3, <1>b, <1>c, <2>1 DEF Remove, Sems, Shifted
<1>4. CASE RemoveV(t)
  <2>1. Shifted(t, "once")
    BY <1>4, ClaimsMoved DEF RemoveV
  <2> QED
    BY <1>4, <1>b, <1>c, <2>1 DEF RemoveV, Given, Sems, Shifted
<1>5. CASE OnceFirst(t) \/ InitEchoCnt(t) \/ OnceAgain(t)
  BY <1>5, SemaphoresMoves DEF OnceFirst, InitEchoCnt, OnceAgain
<1>6. CASE Read(t)
  <2>1. PICK p \in {"close", "P"} : pc' = [pc EXCEPT ![t] = p]
    BY <1>6 DEF Read
  <2> QED
    BY <1>6, <2>1, SemaphoresMoves DEF Read
<1>7. CASE Lock(t) \/ Load(t) \/ Store(t) \/ Unlock(t)
  BY <1>7, SemaphoresMoves DEF Lock, Load, Store, Unlock
<1>8. CASE Write(t) \/ Close(t)
  BY <1>8, SemaphoresMoves DEF Write, Close
<1>9. CASE Fails(t)
  BY <1>9 DEF Fails, Sems, Removing, Removed, Claims, threads
<1> QED
  BY <1>1, <1>2, <1>3, <1>4, <1>5, <1>6, <1>7, <1>8, <1>9 DEF ThreadStep

LEMMA SemaphoresStep == Types /\ Sems /\ [Next]_vars => Sems'
<1> SUFFICES ASSUME Types, Sems, [Next]_vars PROVE Sems'
  OBVIOUS
<1>a. /\ size \in Nat /\ front \in Nat /\ rear \in Nat
      /\ slots \in Nat /\ items \in Nat
  BY PrethreadedAssumption DEF Types, SbufTypes
<1>b. Removed \in Nat /\ Removing \in Nat
  BY CountsType
<1>c. ASSUME UNCHANGED pc
      PROVE  /\ Removed' = Removed
             /\ Removing' = Removing
  BY <1>c DEF Removing, Removed, Claims
<1>1. ASSUME NEW c \in Clients, ClientMoves(c) PROVE Sems'
  BY <1>1, <1>c DEF ClientMoves, Sems, threads, mainvars, sbuf
<1>2. ASSUME NEW c \in Clients, Accept(c) PROVE Sems'
  BY <1>2, <1>c DEF Accept, Sems, threads, sbuf
<1>3. CASE AcceptFails
  BY <1>3, <1>c DEF AcceptFails, Sems, threads, mainvars, sbuf
<1>4. CASE InsertP
  BY <1>4, <1>a, <1>b, <1>c DEF InsertP, SlotFree, Sems, threads
<1>5. CASE InsertLock
  BY <1>5, <1>c DEF InsertLock, Sems, threads
<1>6. CASE Insert
  BY <1>6, <1>a, <1>b, <1>c DEF Insert, Sems, threads
<1>7. CASE InsertV
  BY <1>7, <1>a, <1>b, <1>c DEF InsertV, Sems, threads
<1>8. CASE UNCHANGED vars
  BY <1>8, <1>c DEF vars, Sems, threads, mainvars, sbuf
<1> QED
  BY <1>1, <1>2, <1>3, <1>4, <1>5, <1>6, <1>7, <1>8, SemaphoresThread DEF Next, MainStep

(* The semaphores of sbuf count what the buffer holds, at every step of     *)
(* main and the threads: items what can be removed, slots the room left.    *)
THEOREM SemaphoresCorrect == Spec => []SemaphoresAreExact
<1>1. Sems => SemaphoresAreExact
  BY DEF Sems, SemaphoresAreExact, Removing, Removed
<1> QED
  BY <1>1, TypesHold, SemaphoresInit, SemaphoresStep, PTL DEF Spec

-----------------------------------------------------------------------------
(* The descriptors.                                                        *)

Idle == {"items", "lock", "get"}

\* No descriptor is in the buffer twice, and a thread has one except when it
\* waits for the next.
Distinct ==
  \A j, k \in (front + 1)..rear : buf[j % size] = buf[k % size] => j = k
Idleness == \A t \in Threads : fd[t] = 0 <=> pc[t] \in Idle

Handed == HandedToOneThread /\ Distinct /\ Idleness

(* Indices less than the size apart are different places of the buffer.     *)
LEMMA Places ==
  ASSUME NEW s \in Nat \ {0}, NEW j \in Nat, NEW k \in Nat, j < k, k - j < s
  PROVE  j % s # k % s
<1>1. /\ j = s * (j \div s) + (j % s) /\ j \div s \in Int /\ j % s \in Int
      /\ k = s * (k \div s) + (k % s) /\ k \div s \in Int /\ k % s \in Int
  OBVIOUS
<1> DEFINE d == (k \div s) - (j \div s)
<1>2. SUFFICES ASSUME j % s = k % s PROVE FALSE
  OBVIOUS
<1>3. d \in Int /\ k - j = s * d
  BY <1>1, <1>2
<1>4. \A e \in Int : e <= 0 => s * e <= 0
  OBVIOUS
<1>5. \A e \in Int : e >= 1 => s * e >= s
  OBVIOUS
<1> HIDE DEF d
<1> QED
  BY <1>3, <1>4, <1>5

LEMMA HandedInit == Init => Handed
<1> SUFFICES ASSUME Init PROVE Handed
  OBVIOUS
<1>1. front = 0 /\ rear = 0
  BY DEF Init
<1>2. Waiting = {} /\ Distinct
  BY <1>1 DEF Waiting, Distinct
<1>3. InMain = {}
  BY DEF Init, InMain
<1>4. InThreads = {}
  BY DEF Init, InThreads
<1>5. Fds \ Free(fds) = {}
  BY DEF Init, Free, NoFds
<1>6. Idleness
  BY DEF Init, Idleness, Idle
<1>7. Cardinality(Waiting) = rear - front
  BY <1>1, <1>2, FS_EmptySet
<1>8. \A t, u \in Threads : fd[t] = 0
  BY DEF Init
<1> QED
  BY <1>2, <1>3, <1>4, <1>5, <1>6, <1>7, <1>8 DEF Handed, HandedToOneThread

(* Steps that leave every descriptor where it is.                           *)
LEMMA HandedKept ==
  ASSUME Handed, UNCHANGED <<fds, fd, size, buf, front, rear>>, InMain' = InMain,
         \A t \in Threads : pc'[t] \in Idle <=> pc[t] \in Idle
  PROVE  Handed'
<1>1. Waiting' = Waiting /\ InThreads' = InThreads /\ Free(fds)' = Free(fds)
  BY DEF Waiting, InThreads, Free
<1>2. HandedToOneThread'
  BY <1>1 DEF Handed, HandedToOneThread
<1>3. Distinct' /\ Idleness'
  BY DEF Handed, Distinct, Idleness
<1> QED
  BY <1>2, <1>3 DEF Handed

LEMMA HandedMoves ==
  ASSUME Types, Handed, NEW t \in Threads, NEW p \in PCs,
         p \in Idle <=> pc[t] \in Idle,
         pc' = [pc EXCEPT ![t] = p],
         UNCHANGED <<fds, fd, at, connfd, size, buf, front, rear>>
  PROVE  Handed'
<1>1. InMain' = InMain
  BY DEF InMain
<1>2. \A u \in Threads : pc'[u] \in Idle <=> pc[u] \in Idle
  BY DEF Types, ThreadTypes
<1> QED
  BY <1>1, <1>2, HandedKept

(* What is waiting: descriptors of open connections, finitely many.         *)
LEMMA WaitingTypes ==
  ASSUME HandedToOneThread
  PROVE  /\ Waiting \subseteq Fds /\ InMain \subseteq Fds /\ InThreads \subseteq Fds
         /\ IsFiniteSet(Waiting)
<1>1. Waiting \subseteq Fds /\ InMain \subseteq Fds /\ InThreads \subseteq Fds
  BY DEF HandedToOneThread
<1> QED
  BY <1>1, NetAssumption, FS_Subset

(* main accepts a connection: one open descriptor more, and main has it.    *)
LEMMA HandedAccept ==
  ASSUME Types, Handed, NEW c \in Clients, Accept(c)
  PROVE  Handed'
<1>1. PICK f \in Available : fds' = [fds EXCEPT ![f] = c] /\ connfd' = f
  BY DEF Accept
<1>2. f \in Fds /\ f \in Free(fds) /\ c # Nobody
  BY NetAssumption DEF Available, Free
<1>3. Fds \ Free(fds)' = (Fds \ Free(fds)) \cup {f}
  BY <1>1, <1>2 DEF Free, Types, ProcessTypes
<1>4. InMain = {} /\ InMain' = {f}
  BY <1>1 DEF Accept, InMain
<1>5. Waiting' = Waiting /\ InThreads' = InThreads /\ UNCHANGED <<pc, fd>>
  BY DEF Accept, Waiting, InThreads, sbuf, threads
<1>6. HandedToOneThread'
  <2>1. f \notin Waiting \cup InThreads
    BY <1>2 DEF Handed, HandedToOneThread
  <2>2. Cardinality(Waiting)' = rear' - front'
    BY <1>5 DEF Accept, Handed, HandedToOneThread, sbuf
  <2> QED
    BY <1>3, <1>4, <1>5, <2>1, <2>2 DEF Handed, HandedToOneThread
<1>7. Distinct' /\ Idleness'
  BY DEF Accept, sbuf, threads, Handed, Distinct, Idleness
<1> QED
  BY <1>6, <1>7 DEF Handed

(* main puts the descriptor into a place of the buffer that nobody waits at. *)
LEMMA HandedInsert ==
  ASSUME Types, SemaphoresAreExact, Handed, Insert
  PROVE  Handed'
<1>a. /\ size \in Nat \ {0} /\ front \in Nat /\ rear \in Nat
      /\ buf \in [0..(size - 1) -> Fds \cup {0}]
  BY PrethreadedAssumption DEF Types, SbufTypes
<1>b. /\ rear' = rear + 1 /\ buf' = [buf EXCEPT ![(rear + 1) % size] = connfd]
      /\ UNCHANGED <<fds, fd, pc, connfd, size, front>>
  BY DEF Insert, process, threads
<1>c. rear - front \in 0..size /\ rear - front < size
  <2>1. at = "put" /\ Sems
    BY DEF Insert, Sems, SemaphoresAreExact, Removing, Removed
  <2> QED
    BY <2>1, Bounds
<1>1. InMain = {connfd} /\ InMain' = {}
  BY DEF Insert, InMain
<1>2. \A k \in (front + 1)..rear : k \in Nat /\ buf'[k % size] = buf[k % size]
  <2> SUFFICES ASSUME NEW k \in (front + 1)..rear
               PROVE  k \in Nat /\ buf'[k % size] = buf[k % size]
    OBVIOUS
  <2>1. k \in Nat /\ k < rear + 1 /\ rear + 1 - k < size
    BY <1>a, <1>c
  <2>2. k % size # (rear + 1) % size
    <3> DEFINE r == rear + 1
    <3>1. size \in Nat \ {0} /\ r \in Nat /\ k \in Nat /\ k < r /\ r - k < size
      BY <1>a, <2>1
    <3> HIDE DEF r
    <3>2. k % size # r % size
      BY <3>1, Places
    <3> QED
      BY <3>2 DEF r
  <2>3. k % size \in 0..(size - 1)
    BY <1>a, <2>1, Index
  <2> QED
    BY <1>a, <1>b, <2>1, <2>2, <2>3
<1>3. buf'[(rear + 1) % size] = connfd
  <2>1. (rear + 1) % size \in 0..(size - 1)
    BY <1>a, Index
  <2> QED
    BY <1>a, <1>b, <2>1
<1>4. (front + 1)..(rear + 1) = ((front + 1)..rear) \cup {rear + 1}
  BY <1>a, <1>c
<1>5. Waiting' = Waiting \cup {connfd}
  BY <1>b, <1>2, <1>3, <1>4 DEF Waiting
<1>6. connfd \notin Waiting /\ connfd \notin InThreads
  BY <1>1 DEF Handed, HandedToOneThread
<1>7. InThreads' = InThreads /\ Free(fds)' = Free(fds)
  BY <1>b DEF InThreads, Free
<1>8. Cardinality(Waiting') = rear' - front'
  <2>1. IsFiniteSet(Waiting) /\ Cardinality(Waiting) = rear - front
    BY WaitingTypes DEF Handed, HandedToOneThread
  <2>2. Cardinality(Waiting \cup {connfd}) = Cardinality(Waiting) + 1
    BY <1>6, <2>1, FS_AddElement
  <2> QED
    BY <1>a, <1>b, <1>5, <2>1, <2>2
<1>9. HandedToOneThread'
  BY <1>b, <1>1, <1>5, <1>6, <1>7, <1>8 DEF Handed, HandedToOneThread
<1>10. Distinct'
  <2>1. \A k \in (front + 1)..rear : buf[k % size] \in Waiting
    BY DEF Waiting
  <2> QED
    BY <1>b, <1>2, <1>3, <1>4, <1>6, <2>1 DEF Handed, Distinct
<1>11. Idleness'
  BY <1>b DEF Handed, Idleness
<1> QED
  BY <1>9, <1>10, <1>11 DEF Handed

(* A thread takes the first descriptor out of the buffer.                   *)
LEMMA HandedRemove ==
  ASSUME Types, SemaphoresAreExact, Handed, NEW t \in Threads, Remove(t)
  PROVE  Handed'
<1> DEFINE x == buf[First]
<1>a. /\ size \in Nat \ {0} /\ front \in Nat /\ rear \in Nat
      /\ fd \in [Threads -> Fds \cup {0}] /\ pc \in [Threads -> PCs]
  BY PrethreadedAssumption DEF Types, SbufTypes, ThreadTypes
<1>b. /\ front' = front + 1 /\ fd' = [fd EXCEPT ![t] = x]
      /\ pc' = [pc EXCEPT ![t] = "slots"] /\ pc[t] = "get"
      /\ UNCHANGED <<fds, at, connfd, size, buf, rear>>
  BY DEF Remove, At, Goes, process, mainvars
<1>c. rear - front > 0
  <2>1. Sems
    BY DEF Sems, SemaphoresAreExact, Removing, Removed
  <2> QED
    BY <1>b, <2>1, Bounds
<1>1. fd[t] = 0
  BY <1>b DEF Handed, Idleness, Idle
<1>2. (front + 1)..rear = ((front + 2)..rear) \cup {front + 1}
  BY <1>a, <1>c
<1>3. x \in Waiting
  BY <1>2 DEF Waiting, First
<1>4. Waiting' = Waiting \ {x}
  <2>1. Waiting' = {buf[k % size] : k \in (front + 2)..rear}
    BY <1>a, <1>b DEF Waiting
  <2>2. \A k \in (front + 2)..rear : k \in (front + 1)..rear /\ k # front + 1
    BY <1>a
  <2>3. \A k \in (front + 2)..rear : buf[k % size] # x
    BY <1>2, <2>2 DEF Handed, Distinct, First
  <2> QED
    BY <1>2, <2>1, <2>3 DEF Waiting, First
<1>5. x \in Fds /\ x # 0 /\ x \notin InMain /\ x \notin InThreads
  BY <1>3, NetAssumption DEF Handed, HandedToOneThread
<1> HIDE DEF x
<1>6. InThreads' = InThreads \cup {x}
  BY <1>a, <1>b, <1>1, <1>5 DEF InThreads
<1>7. InMain' = InMain /\ Free(fds)' = Free(fds)
  BY <1>b DEF InMain, Free
<1>8. Cardinality(Waiting') = rear' - front'
  <2>1. IsFiniteSet(Waiting) /\ Cardinality(Waiting) = rear - front
    BY WaitingTypes DEF Handed, HandedToOneThread
  <2>2. Cardinality(Waiting \ {x}) = Cardinality(Waiting) - 1
    BY <1>3, <2>1, FS_RemoveElement
  <2> QED
    BY <1>a, <1>b, <1>4, <2>1, <2>2
<1>9. \A u, v \in Threads : u # v => fd'[u] = 0 \/ fd'[u] # fd'[v]
  <2>1. \A u \in Threads : fd[u] # x
    BY <1>5 DEF InThreads
  <2> QED
    BY <1>a, <1>b, <2>1 DEF Handed, HandedToOneThread
<1>10. HandedToOneThread'
  BY <1>3, <1>4, <1>5, <1>6, <1>7, <1>8, <1>9 DEF Handed, HandedToOneThread
<1>11. Distinct'
  <2>1. (front' + 1)..rear' \subseteq (front + 1)..rear
    BY <1>a, <1>b
  <2> QED
    BY <1>b, <2>1 DEF Handed, Distinct
<1>12. Idleness'
  BY <1>a, <1>b, <1>5 DEF Handed, Idleness, Idle
<1> QED
  BY <1>10, <1>11, <1>12 DEF Handed

(* A thread closes its connection.                                          *)
LEMMA HandedClose ==
  ASSUME Types, Handed, NEW t \in Threads, Close(t)
  PROVE  Handed'
<1>a. /\ fd \in [Threads -> Fds \cup {0}] /\ pc \in [Threads -> PCs]
      /\ fds \in [Fds -> Clients \cup {Nobody}]
  BY DEF Types, ProcessTypes, ThreadTypes
<1>b. /\ fds' = [fds EXCEPT ![fd[t]] = Nobody] /\ fd' = [fd EXCEPT ![t] = 0]
      /\ pc' = [pc EXCEPT ![t] = "items"]
      /\ UNCHANGED <<at, connfd, size, buf, front, rear>>
  BY DEF Close, Goes, mainvars, sbuf
<1>1. fd[t] \in Fds /\ fd[t] # 0
  BY NetAssumption DEF Close, Client
<1>2. fd[t] \in InThreads
  BY <1>1 DEF InThreads
<1>3. Waiting' = Waiting /\ InMain' = InMain
  BY <1>b DEF Waiting, InMain
<1>4. \A u \in Threads : u # t => fd[u] # fd[t]
  BY <1>1 DEF Handed, HandedToOneThread
<1>5. InThreads' = InThreads \ {fd[t]}
  BY <1>a, <1>b, <1>1, <1>4 DEF InThreads
<1>6. Fds \ Free(fds)' = (Fds \ Free(fds)) \ {fd[t]}
  BY <1>a, <1>b, <1>1 DEF Free
<1>7. fd[t] \notin Waiting /\ fd[t] \notin InMain
  BY <1>2 DEF Handed, HandedToOneThread
<1>8. \A u, v \in Threads : u # v => fd'[u] = 0 \/ fd'[u] # fd'[v]
  BY <1>a, <1>b DEF Handed, HandedToOneThread
<1>9. HandedToOneThread'
  BY <1>b, <1>3, <1>5, <1>6, <1>7, <1>8 DEF Handed, HandedToOneThread
<1>10. Distinct'
  BY <1>b DEF Handed, Distinct
<1>11. Idleness'
  BY <1>a, <1>b, <1>1 DEF Handed, Idleness, Idle
<1> QED
  BY <1>9, <1>10, <1>11 DEF Handed

LEMMA HandedThread ==
  ASSUME Types, SemaphoresAreExact, Handed, NEW t \in Threads, ThreadStep(t)
  PROVE  Handed'
<1> USE DEF At, Goes, PCs, Idle, mainvars, process
<1>1. CASE RemoveP(t) \/ RemoveLock(t)
  BY <1>1, HandedMoves DEF RemoveP, RemoveLock
<1>2. CASE Remove(t)
  BY <1>2, HandedRemove
<1>3. CASE RemoveV(t)
  BY <1>3, HandedMoves DEF RemoveV
<1>4. CASE OnceFirst(t) \/ InitEchoCnt(t) \/ OnceAgain(t)
  BY <1>4, HandedMoves DEF OnceFirst, InitEchoCnt, OnceAgain, sbuf
<1>5. CASE Read(t)
  <2>1. PICK p \in {"close", "P"} : pc' = [pc EXCEPT ![t] = p]
    BY <1>5 DEF Read
  <2> QED
    BY <1>5, <2>1, HandedMoves DEF Read, sbuf
<1>6. CASE Lock(t) \/ Load(t) \/ Store(t) \/ Unlock(t)
  BY <1>6, HandedMoves DEF Lock, Load, Store, Unlock, sbuf
<1>7. CASE Write(t)
  BY <1>7, HandedMoves DEF Write, sbuf
<1>8. CASE Close(t)
  BY <1>8, HandedClose
<1>9. CASE Fails(t)
  BY <1>9, HandedKept DEF Fails, InMain, threads, sbuf
<1> QED
  BY <1>1, <1>2, <1>3, <1>4, <1>5, <1>6, <1>7, <1>8, <1>9 DEF ThreadStep

LEMMA HandedStep ==
  Types /\ SemaphoresAreExact /\ Handed /\ [Next]_vars => Handed'
<1> SUFFICES ASSUME Types, SemaphoresAreExact, Handed, [Next]_vars PROVE Handed'
  OBVIOUS
<1> USE DEF InMain, threads, mainvars, process
<1>1. ASSUME NEW c \in Clients, ClientMoves(c) PROVE Handed'
  BY <1>1, HandedKept DEF ClientMoves, sbuf
<1>2. ASSUME NEW c \in Clients, Accept(c) PROVE Handed'
  BY <1>2, HandedAccept
<1>3. CASE AcceptFails
  BY <1>3, HandedKept DEF AcceptFails, sbuf
<1>4. CASE InsertP
  BY <1>4, HandedKept DEF InsertP
<1>5. CASE InsertLock
  BY <1>5, HandedKept DEF InsertLock
<1>6. CASE Insert
  BY <1>6, HandedInsert
<1>7. CASE InsertV
  BY <1>7, HandedKept DEF InsertV
<1>8. CASE UNCHANGED vars
  BY <1>8, HandedKept DEF vars, sbuf
<1> QED
  BY <1>1, <1>2, <1>3, <1>4, <1>5, <1>6, <1>7, <1>8, HandedThread DEF Next, MainStep

LEMMA HandedHolds == Spec => []Handed
BY TypesHold, SemaphoresCorrect, HandedInit, HandedStep, PTL DEF Spec

(* Every open connection is with main, in the buffer or with one thread, in *)
(* every run of the server: sbuf loses and doubles none.                    *)
THEOREM HandedCorrectly == Spec => []HandedToOneThread
<1>1. Handed => HandedToOneThread
  BY DEF Handed
<1> QED
  BY <1>1, HandedHolds, PTL

-----------------------------------------------------------------------------
(* What is written back.                                                   *)

Working == {"P", "load", "store", "V", "write"}

\* What a thread has in its hands it has read from its connection.
ReadBefore == \A t \in Threads : pc[t] \in Working => n[t] <= taken[fds[fd[t]]]

EchoedTypes == echoed \in [Clients -> Seq(1..(2 * MaxLines))] /\ ReadBefore

(* A thread that is past sbuf_remove works for a client.                    *)
LEMMA HasClient ==
  ASSUME Types, Handed, NEW t \in Threads, pc[t] \notin Idle
  PROVE  /\ fd[t] \in Fds \ Free(fds)
         /\ Client(t) = fds[fd[t]] /\ Client(t) \in Clients
<1>1. fd[t] # 0 /\ fd[t] \in InThreads
  BY DEF Handed, Idleness, InThreads
<1>2. fd[t] \in Fds \ Free(fds)
  BY <1>1 DEF Handed, HandedToOneThread
<1> QED
  BY <1>2 DEF Client, Free, Types, ProcessTypes

(* Steps that close nothing and read nothing.                               *)
LEMMA ReadBeforeKept ==
  ASSUME Types, Handed, EchoedTypes, UNCHANGED <<taken, fd>>,
         \A f \in Fds \ Free(fds) : fds'[f] = fds[f],
         \A t \in Threads : pc'[t] \in Working => pc[t] \in Working /\ n'[t] = n[t]
  PROVE  ReadBefore'
<1> SUFFICES ASSUME NEW t \in Threads, pc'[t] \in Working
             PROVE  n'[t] <= taken'[fds'[fd'[t]]]
  BY DEF ReadBefore
<1>1. pc[t] \in Working /\ n'[t] = n[t]
  OBVIOUS
<1>2. fd[t] \in Fds \ Free(fds)
  BY <1>1, HasClient DEF Working, Idle
<1>3. fds'[fd'[t]] = fds[fd[t]]
  BY <1>2
<1> QED
  BY <1>1, <1>3 DEF EchoedTypes, ReadBefore

LEMMA EchoedInit == Init => EchoedTypes
BY DEF Init, NetInit, EchoedTypes, ReadBefore, Working

LEMMA EchoedThread ==
  ASSUME Types, Handed, EchoedTypes, NEW t \in Threads, ThreadStep(t)
  PROVE  EchoedTypes'
<1>a. /\ pc \in [Threads -> PCs] /\ n \in [Threads -> 0..2]
      /\ fd \in [Threads -> Fds \cup {0}] /\ fds \in [Fds -> Clients \cup {Nobody}]
  BY DEF Types, ProcessTypes, ThreadTypes
<1>b. /\ taken \in [Clients -> Nat] /\ sent \in [Clients -> 0..(2 * MaxLines)]
      /\ \A c \in Clients : taken[c] <= sent[c]
  BY DEF Types, NetTypes
<1> USE DEF At, Goes
<1>1. ASSUME NEW p \in PCs, p \notin Working \/ pc[t] \in Working,
             pc' = [pc EXCEPT ![t] = p], UNCHANGED <<fds, fd, n, taken, echoed>>
      PROVE  EchoedTypes'
  <2>1. \A u \in Threads : pc'[u] \in Working => pc[u] \in Working
    BY <1>1, <1>a
  <2>2. ReadBefore'
    BY <1>1, <2>1, ReadBeforeKept
  <2> QED
    BY <1>1, <2>2 DEF EchoedTypes
<1>2. CASE RemoveP(t) \/ RemoveLock(t) \/ RemoveV(t)
  BY <1>1, <1>2 DEF RemoveP, RemoveLock, RemoveV, PCs, Working, net, process
<1>3. CASE Remove(t)
  <2>1. /\ pc[t] = "get" /\ pc' = [pc EXCEPT ![t] = "slots"]
        /\ fd' = [fd EXCEPT ![t] = buf[First]]
        /\ UNCHANGED <<fds, n, taken, echoed>>
    BY <1>3 DEF Remove, net, process
  <2>2. \A u \in Threads : pc'[u] \in Working => pc[u] \in Working /\ u # t
    BY <1>a, <2>1 DEF Working
  <2>3. ReadBefore'
    BY <1>a, <2>1, <2>2 DEF EchoedTypes, ReadBefore
  <2> QED
    BY <2>1, <2>3 DEF EchoedTypes
<1>4. CASE OnceFirst(t) \/ InitEchoCnt(t) \/ OnceAgain(t)
  BY <1>1, <1>4 DEF OnceFirst, InitEchoCnt, OnceAgain, PCs, Working, net, process
<1>5. CASE Read(t)
  <2>1. Client(t) = fds[fd[t]] /\ Client(t) \in Clients
    BY <1>5, HasClient DEF Read, Idle
  <2>2. PICK k \in LineResults(Client(t)) :
          /\ taken' = [taken EXCEPT ![Client(t)] = @ + k]
          /\ n' = [n EXCEPT ![t] = k]
    BY <1>5 DEF Read
  <2>3. k \in 0..2
    BY <2>1, LineLength DEF Types
  <2>4. UNCHANGED <<fds, fd, echoed>>
    BY <1>5 DEF Read, process
  <2>5. \A u \in Threads \ {t} : pc'[u] = pc[u] /\ n'[u] = n[u]
    BY <1>5, <1>a, <2>2 DEF Read
  <2>6. \A u \in Threads : pc[u] \in Working => fds[fd[u]] \in Clients
    BY HasClient DEF Working, Idle
  <2>7. \A c \in Clients : taken[c] <= taken'[c]
    BY <1>b, <2>1, <2>2, <2>3
  <2>8. n'[t] <= taken'[fds'[fd'[t]]]
    BY <1>a, <1>b, <2>1, <2>2, <2>3, <2>4
  <2>9. \A u \in Threads \ {t} :
           pc'[u] \in Working => n'[u] <= taken'[fds'[fd'[u]]]
    <3> SUFFICES ASSUME NEW u \in Threads \ {t}, pc[u] \in Working
                 PROVE  n[u] <= taken'[fds[fd[u]]]
      BY <2>4, <2>5
    <3>1. n[u] <= taken[fds[fd[u]]] /\ fds[fd[u]] \in Clients
      BY <2>6 DEF EchoedTypes, ReadBefore
    <3>2. n[u] \in Nat /\ taken[fds[fd[u]]] \in Nat /\ taken'[fds[fd[u]]] \in Nat
      BY <1>a, <1>b, <2>1, <2>2, <2>3, <3>1
    <3> QED
      BY <2>7, <3>1, <3>2
  <2> QED
    BY <2>4, <2>8, <2>9 DEF EchoedTypes, ReadBefore
<1>6. CASE Lock(t) \/ Load(t) \/ Store(t) \/ Unlock(t)
  BY <1>1, <1>6 DEF Lock, Load, Store, Unlock, PCs, Working, net, process
<1>7. CASE Write(t)
  <2> DEFINE c == Client(t)
             h == Halves(taken[c] - n[t], taken[c])
  <2>1. c = fds[fd[t]] /\ c \in Clients
    BY <1>7, HasClient DEF Write, Idle
  <2>2. n[t] <= taken[c]
    BY <1>7, <2>1 DEF Write, EchoedTypes, ReadBefore, Working
  <2>3. /\ echoed' = [echoed EXCEPT ![c] = @ \o h]
        /\ n' = [n EXCEPT ![t] = 0] /\ pc' = [pc EXCEPT ![t] = "read"]
        /\ UNCHANGED <<fds, fd, taken>>
    BY <1>7 DEF Write, Echoed, process
  <2>4. h \in Seq(1..(2 * MaxLines))
    <3>1. /\ taken[c] \in Nat /\ n[t] \in Nat /\ taken[c] <= 2 * MaxLines
          /\ 2 * MaxLines \in Nat
      BY <1>a, <1>b, <2>1, NetAssumption
    <3>2. taken[c] - (taken[c] - n[t]) = n[t]
      BY <3>1
    <3>3. h = [i \in 1..n[t] |-> (taken[c] - n[t]) + i]
      BY <3>2 DEF Halves
    <3>4. \A i \in 1..n[t] : (taken[c] - n[t]) + i \in 1..(2 * MaxLines)
      BY <2>2, <3>1
    <3> HIDE DEF h, c
    <3> QED
      BY <3>1, <3>3, <3>4
  <2> HIDE DEF h, c
  <2>5. echoed' \in [Clients -> Seq(1..(2 * MaxLines))]
    BY <2>1, <2>3, <2>4 DEF EchoedTypes
  <2>6. \A u \in Threads : pc'[u] \in Working => pc[u] \in Working /\ n'[u] = n[u]
    BY <1>a, <2>3 DEF Working
  <2>7. ReadBefore'
    BY <2>3, <2>6, ReadBeforeKept
  <2> QED
    BY <2>5, <2>7 DEF EchoedTypes
<1>8. CASE Close(t)
  <2>1. /\ pc[t] = "close" /\ pc' = [pc EXCEPT ![t] = "items"]
        /\ fd' = [fd EXCEPT ![t] = 0] /\ fds' = [fds EXCEPT ![fd[t]] = Nobody]
        /\ UNCHANGED <<n, taken, echoed>>
    BY <1>8 DEF Close
  <2>2. \A u \in Threads : pc'[u] \in Working => pc[u] \in Working /\ u # t
    BY <1>a, <2>1 DEF Working
  <2>3. fd[t] # 0
    BY <2>1 DEF Handed, Idleness, Idle
  <2>4. \A u \in Threads : u # t => fd[u] # fd[t]
    BY <2>3 DEF Handed, HandedToOneThread
  <2>5. \A u \in Threads : pc'[u] \in Working => fd'[u] = fd[u] /\ fds'[fd'[u]] = fds[fd[u]]
    <3> SUFFICES ASSUME NEW u \in Threads, pc'[u] \in Working
                 PROVE  fd'[u] = fd[u] /\ fds'[fd[u]] = fds[fd[u]]
      BY <1>a, <2>1
    <3>1. u # t /\ fd[u] \in Fds
      BY <2>2, HasClient DEF Working, Idle
    <3> QED
      BY <1>a, <2>1, <2>4, <3>1
  <2>6. ReadBefore'
    BY <2>1, <2>2, <2>5 DEF EchoedTypes, ReadBefore
  <2> QED
    BY <2>1, <2>6 DEF EchoedTypes
<1>9. CASE Fails(t)
  BY <1>9, ReadBeforeKept DEF Fails, EchoedTypes, net, threads
<1> QED
  BY <1>2, <1>3, <1>4, <1>5, <1>6, <1>7, <1>8, <1>9 DEF ThreadStep

LEMMA EchoedStep ==
  Types /\ Handed /\ EchoedTypes /\ [Next]_vars => EchoedTypes'
<1> SUFFICES ASSUME Types, Handed, EchoedTypes, [Next]_vars PROVE EchoedTypes'
  OBVIOUS
<1> USE DEF EchoedTypes, threads
<1>1. ASSUME NEW c \in Clients, ClientMoves(c) PROVE EchoedTypes'
  BY <1>1, ReadBeforeKept DEF ClientMoves, ClientStep, Dial, Sends, Ends
<1>2. ASSUME NEW c \in Clients, Accept(c) PROVE EchoedTypes'
  <2>1. \A f \in Fds \ Free(fds) : fds'[f] = fds[f]
    BY <1>2 DEF Accept, Available, Types, ProcessTypes
  <2> QED
    BY <1>2, <2>1, ReadBeforeKept DEF Accept
<1>3. CASE AcceptFails \/ InsertP \/ InsertLock \/ Insert \/ InsertV
  BY <1>3, ReadBeforeKept DEF AcceptFails, InsertP, InsertLock, Insert, InsertV, net,
                              process
<1>4. CASE UNCHANGED vars
  BY <1>4, ReadBeforeKept DEF vars, net, process
<1> QED
  BY <1>1, <1>2, <1>3, <1>4, EchoedThread DEF Next, MainStep

LEMMA EchoedHolds == Spec => []EchoedTypes
BY TypesHold, HandedHolds, EchoedInit, EchoedStep, PTL DEF Spec

(* Type correctness, with the bounds that rest on the program's order: no   *)
(* semaphore and no mutex is ever given more often than taken, and what is  *)
(* echoed are halves of lines that the client has sent.                     *)
THEOREM TypeCorrect == Spec => []TypeOK
<1>1. Types /\ SemaphoresAreExact /\ Locked /\ Counter /\ EchoedTypes => TypeOK
  <2> SUFFICES ASSUME Types, SemaphoresAreExact, Locked, Counter, EchoedTypes
               PROVE  TypeOK
    OBVIOUS
  <2>1. Sems
    BY DEF Sems, SemaphoresAreExact, Removing, Removed
  <2>2. NetTypeOK
    BY NetAssumption DEF Types, NetTypes, EchoedTypes, NetTypeOK
  <2>3. slots \in 0..size /\ items \in 0..size
    BY <2>1, Bounds, PrethreadedAssumption DEF Types, SbufTypes
  <2>4. sbufmutex \in 0..1 /\ mutex \in 0..1
    BY DEF Locked, Counter, Exclusion
  <2> QED
    BY <2>2, <2>3, <2>4 DEF Types, ProcessTypes, SbufTypes, ThreadTypes, TypeOK, PCs
<1> QED
  BY <1>1, TypesHold, SemaphoresCorrect, LockedHolds, CounterHolds, EchoedHolds, PTL

-----------------------------------------------------------------------------
(* PrethreadedEcho implements EchoService, for any number of threads, any  *)
(* size of the buffer and any number of clients and descriptors: every     *)
(* step of main, of a thread or of a client is a step of the service, or   *)
(* changes nothing that the service knows.                                 *)
(*                                                                         *)
(* Table relates the descriptors to the open connections, Echoes what has  *)
(* been read from a client to what has been written back to it.            *)

Used == Fds \ Free(fds)
Open == {c \in Clients : conn[c] = "open"}

\* One descriptor for each open connection, below the limit.
Table ==
  /\ \A c \in Clients : conn[c] = "open" <=> \E f \in Fds : fds[f] = c
  /\ \A f, g \in Used : fds[f] = fds[g] => f = g
  /\ \A f \in Used : f < nofile
  /\ IsFiniteSet(Open) /\ Cardinality(Open) = Cardinality(Used)

Upto(k) == [i \in 1..k |-> i]

\* What was read has been written back, but for the line that a thread holds.
\* A connection is closed when there is nothing more to read.
Echoes ==
  /\ \A t \in Threads : pc[t] \in Working =>
        /\ n[t] > 0
        /\ echoed[Client(t)] = Upto(taken[Client(t)] - n[t])
  /\ \A c \in Clients :
        (\A t \in Threads : pc[t] \in Working => Client(t) # c)
          => echoed[c] = Upto(taken[c])
  /\ \A t \in Threads : pc[t] = "close" =>
        end[Client(t)] # "no" /\ taken[Client(t)] = sent[Client(t)]

-----------------------------------------------------------------------------
(* The table of descriptors.                                               *)

LEMMA UsedFinite == IsFiniteSet(Used) /\ Used \subseteq Fds
BY NetAssumption, FS_Subset DEF Used, Free

LEMMA TableInit == Init => Table
<1> SUFFICES ASSUME Init PROVE Table
  OBVIOUS
<1>1. Used = {}
  BY DEF Init, NoFds, Used, Free
<1>2. Open = {}
  BY DEF Init, NetInit, Open
<1>3. \A f \in Fds : fds[f] \notin Clients
  BY NetAssumption DEF Init, NoFds
<1>4. \A c \in Clients : conn[c] # "open"
  BY <1>2 DEF Open
<1> QED
  BY <1>1, <1>2, <1>3, <1>4, FS_EmptySet DEF Table

LEMMA TableKept ==
  ASSUME Types, Table, UNCHANGED <<fds, nofile>>,
         \A c \in Clients : conn'[c] = "open" <=> conn[c] = "open"
  PROVE  Table'
<1>1. Used' = Used /\ Open' = Open
  BY DEF Used, Open, Free
<1> QED
  BY <1>1 DEF Table

LEMMA TableAccept ==
  ASSUME Types, Table, NEW c \in Clients, Accept(c)
  PROVE  Table'
<1>a. /\ conn[c] = "backlog" /\ conn' = [conn EXCEPT ![c] = "open"]
      /\ UNCHANGED nofile
  BY DEF Accept
<1>b. /\ fds \in [Fds -> Clients \cup {Nobody}]
      /\ conn \in [Clients -> {"none", "backlog", "open", "closed"}]
  BY DEF Types, NetTypes, ProcessTypes
<1>1. PICK f \in Available : fds' = [fds EXCEPT ![f] = c]
  BY DEF Accept
<1>2. f \in Fds /\ fds[f] = Nobody /\ f < nofile /\ c # Nobody /\ f \notin Used
  BY NetAssumption DEF Available, Free, Used
<1>3. Used' = Used \cup {f}
  BY <1>b, <1>1, <1>2 DEF Used, Free
<1>4. Open' = Open \cup {c} /\ c \notin Open
  BY <1>a, <1>b DEF Open
<1>5. \A g \in Fds : fds[g] # c
  BY <1>a DEF Table
<1>6. IsFiniteSet(Open') /\ Cardinality(Open') = Cardinality(Used')
  <2>1. IsFiniteSet(Open) /\ IsFiniteSet(Used)
    BY UsedFinite DEF Table
  <2>2. /\ Cardinality(Open \cup {c}) = Cardinality(Open) + 1
        /\ IsFiniteSet(Open \cup {c})
        /\ Cardinality(Used \cup {f}) = Cardinality(Used) + 1
    BY <1>2, <1>4, <2>1, FS_AddElement
  <2> QED
    BY <1>3, <1>4, <2>2 DEF Table
<1>7. \A d \in Clients : conn'[d] = "open" <=> \E g \in Fds : fds'[g] = d
  <2>1. conn'[c] = "open" /\ fds'[f] = c
    BY <1>a, <1>b, <1>1, <1>2
  <2>2. \A d \in Clients \ {c} : conn'[d] = conn[d]
    BY <1>a, <1>b
  <2>3. \A d \in Clients \ {c} : \A g \in Fds : fds'[g] = d <=> fds[g] = d
    BY <1>b, <1>1, <1>2, NetAssumption
  <2> QED
    BY <1>2, <2>1, <2>2, <2>3 DEF Table
<1>8. \A g, h \in Used' : fds'[g] = fds'[h] => g = h
  <2>1. \A g \in Used : fds'[g] = fds[g] /\ fds[g] # c
    BY <1>b, <1>1, <1>2, <1>5 DEF Used
  <2>2. fds'[f] = c
    BY <1>b, <1>1, <1>2
  <2> QED
    BY <1>3, <2>1, <2>2 DEF Table
<1>9. \A g \in Used' : g < nofile'
  BY <1>a, <1>2, <1>3 DEF Table
<1> QED
  BY <1>6, <1>7, <1>8, <1>9 DEF Table

LEMMA TableClose ==
  ASSUME Types, Handed, Table, NEW t \in Threads, Close(t)
  PROVE  Table'
<1> DEFINE f == fd[t]
           c == fds[fd[t]]
<1>a. /\ fds \in [Fds -> Clients \cup {Nobody}]
      /\ conn \in [Clients -> {"none", "backlog", "open", "closed"}]
  BY DEF Types, NetTypes, ProcessTypes
<1>1. f \in Fds /\ f \in Used /\ Client(t) = c /\ c \in Clients /\ c # Nobody
  BY HasClient, NetAssumption DEF Close, At, Idle, Used
<1>b. /\ conn' = [conn EXCEPT ![c] = "closed"] /\ fds' = [fds EXCEPT ![f] = Nobody]
      /\ UNCHANGED nofile
  BY <1>1 DEF Close
<1> HIDE DEF f
<1>2. fds[f] = c
  BY DEF f
<1> HIDE DEF c
<1>3. \A g \in Fds : fds[g] = c => g = f
  BY <1>a, <1>1, <1>2 DEF Table, Used, Free
<1>4. Used' = Used \ {f}
  BY <1>a, <1>b, <1>1 DEF Used, Free
<1>5. Open' = Open \ {c}
  BY <1>a, <1>b, <1>1 DEF Open
<1>6. c \in Open
  BY <1>1, <1>2 DEF Open, Table
<1>7. IsFiniteSet(Open') /\ Cardinality(Open') = Cardinality(Used')
  <2>1. IsFiniteSet(Open) /\ IsFiniteSet(Used)
    BY UsedFinite DEF Table
  <2>2. /\ Cardinality(Open \ {c}) = Cardinality(Open) - 1 /\ IsFiniteSet(Open \ {c})
        /\ Cardinality(Used \ {f}) = Cardinality(Used) - 1
    BY <1>1, <1>6, <2>1, FS_RemoveElement
  <2> QED
    BY <1>4, <1>5, <2>2 DEF Table
<1>8. \A d \in Clients : conn'[d] = "open" <=> \E g \in Fds : fds'[g] = d
  <2>1. conn'[c] # "open" /\ \A g \in Fds : fds'[g] # c
    BY <1>a, <1>b, <1>1, <1>3
  <2>2. \A d \in Clients \ {c} : conn'[d] = conn[d]
    BY <1>a, <1>b
  <2>3. \A d \in Clients \ {c} : \A g \in Fds : fds'[g] = d <=> fds[g] = d
    BY <1>a, <1>b, <1>1, <1>2, NetAssumption
  <2> QED
    BY <2>1, <2>2, <2>3 DEF Table
<1>9. \A g \in Used' : g \in Used /\ fds'[g] = fds[g]
  BY <1>a, <1>b, <1>4 DEF Used
<1> QED
  BY <1>b, <1>7, <1>8, <1>9 DEF Table

LEMMA TableStep == Types /\ Handed /\ Table /\ [Next]_vars => Table'
<1> SUFFICES ASSUME Types, Handed, Table, [Next]_vars PROVE Table'
  OBVIOUS
<1> USE DEF net, process
<1>1. ASSUME NEW c \in Clients, ClientMoves(c) PROVE Table'
  BY <1>1, TableKept DEF ClientMoves, ClientStep, Dial, Sends, Ends, Types, NetTypes
<1>2. ASSUME NEW c \in Clients, Accept(c) PROVE Table'
  BY <1>2, TableAccept
<1>3. CASE AcceptFails \/ InsertP \/ InsertLock \/ Insert \/ InsertV
  BY <1>3, TableKept DEF AcceptFails, InsertP, InsertLock, Insert, InsertV
<1>4. ASSUME NEW t \in Threads, ThreadStep(t) PROVE Table'
  <2>1. CASE Close(t)
    BY <2>1, TableClose
  <2>2. CASE RemoveP(t) \/ RemoveLock(t) \/ Remove(t) \/ RemoveV(t)
    BY <2>2, TableKept DEF RemoveP, RemoveLock, Remove, RemoveV
  <2>3. CASE OnceFirst(t) \/ InitEchoCnt(t) \/ OnceAgain(t)
    BY <2>3, TableKept DEF OnceFirst, InitEchoCnt, OnceAgain
  <2>4. CASE Read(t) \/ Write(t)
    BY <2>4, TableKept DEF Read, Write
  <2>5. CASE Lock(t) \/ Load(t) \/ Store(t) \/ Unlock(t) \/ Fails(t)
    BY <2>5, TableKept DEF Lock, Load, Store, Unlock, Fails
  <2> QED
    BY <1>4, <2>1, <2>2, <2>3, <2>4, <2>5 DEF ThreadStep
<1>5. CASE UNCHANGED vars
  BY <1>5, TableKept DEF vars
<1> QED
  BY <1>1, <1>2, <1>3, <1>4, <1>5 DEF Next, MainStep

LEMMA TableHolds == Spec => []Table
BY TypesHold, HandedHolds, TableInit, TableStep, PTL DEF Spec

-----------------------------------------------------------------------------
(* What is read and what is written back.                                  *)

(* Two threads do not work for the same client.                             *)
LEMMA OneThreadEach ==
  ASSUME Types, Handed, Table,
         NEW t \in Threads, NEW u \in Threads, t # u,
         pc[t] \notin Idle, pc[u] \notin Idle
  PROVE  Client(t) # Client(u)
<1>1. /\ fd[t] \in Used /\ Client(t) = fds[fd[t]]
      /\ fd[u] \in Used /\ Client(u) = fds[fd[u]]
  BY HasClient DEF Used
<1>2. fd[t] # fd[u]
  BY NetAssumption, <1>1 DEF Handed, HandedToOneThread, Used
<1> QED
  BY <1>1, <1>2 DEF Table

LEMMA EchoesInit == Init => Echoes
<1> SUFFICES ASSUME Init PROVE Echoes
  OBVIOUS
<1>1. \A c \in Clients : echoed[c] = Upto(taken[c])
  BY DEF Init, NetInit, Upto
<1> QED
  BY <1>1 DEF Init, Echoes, Working

(* Steps that read and write nothing, and after which the threads at work   *)
(* work for whom they did before.                                           *)
LEMMA EchoesKept ==
  ASSUME Echoes, UNCHANGED <<taken, echoed>>,
         \A t \in Threads :
           /\ pc'[t] \in Working <=> pc[t] \in Working
           /\ pc[t] \in Working => n'[t] = n[t] /\ Client(t)' = Client(t)
           /\ pc'[t] = "close" => /\ pc[t] = "close" /\ Client(t)' = Client(t)
                                  /\ end'[Client(t)] # "no"
                                  /\ sent'[Client(t)] = sent[Client(t)]
  PROVE  Echoes'
<1>1. \A t \in Threads : pc'[t] \in Working =>
        n'[t] > 0 /\ echoed'[Client(t)'] = Upto(taken'[Client(t)'] - n'[t])
  BY DEF Echoes
<1>2. \A c \in Clients :
        (\A t \in Threads : pc'[t] \in Working => Client(t)' # c)
          => echoed'[c] = Upto(taken'[c])
  BY DEF Echoes
<1>3. \A t \in Threads : pc'[t] = "close" =>
        end'[Client(t)'] # "no" /\ taken'[Client(t)'] = sent'[Client(t)']
  BY DEF Echoes
<1> QED
  BY <1>1, <1>2, <1>3 DEF Echoes, Upto

(* A thread reads a line, or finds that there is nothing more.              *)
LEMMA EchoesRead ==
  ASSUME Types, Handed, Table, Echoes, NEW t \in Threads, Read(t)
  PROVE  Echoes'
<1> DEFINE c == Client(t)
<1>a. /\ pc \in [Threads -> PCs] /\ n \in [Threads -> 0..2]
      /\ taken \in [Clients -> Nat] /\ sent \in [Clients -> 0..(2 * MaxLines)]
  BY DEF Types, NetTypes, ThreadTypes
<1>b. pc[t] = "read" /\ UNCHANGED <<sent, end, echoed, fds, fd>>
  BY DEF Read, At, process
<1>1. c \in Clients
  BY <1>b, HasClient DEF Idle
<1>2. PICK k \in LineResults(c) :
        /\ taken' = [taken EXCEPT ![c] = @ + k]
        /\ n' = [n EXCEPT ![t] = k]
        /\ pc' = [pc EXCEPT ![t] = IF k = 0 THEN "close" ELSE "P"]
  BY DEF Read, Goes
<1>3. k \in 0..2 /\ taken[c] + k <= sent[c]
  BY <1>1, LineLength DEF Types
<1>4. k = 0 => end[c] # "no" /\ taken[c] = sent[c]
  <2>1. \A m \in Nat : 2 * (m \div 2 + 1) - m \in 1..2
    OBVIOUS
  <2>2. LineEnd(c) - taken[c] \in 1..2
    BY <1>a, <1>1, <2>1 DEF LineEnd
  <2>3. taken[c] \in Nat /\ sent[c] \in Nat
    BY <1>a, <1>1, NetAssumption
  <2> QED
    BY <2>2, <2>3 DEF LineResults
<1>5. \A u \in Threads : Client(u)' = Client(u)
  BY <1>b DEF Client
<1>6. \A u \in Threads \ {t} : pc[u] \notin Idle => Client(u) # c
  BY <1>b, OneThreadEach DEF Idle
<1>7. echoed[c] = Upto(taken[c])
  BY <1>b, <1>1, <1>6 DEF Echoes, Working, Idle
<1>8. taken'[c] = taken[c] + k /\ \A d \in Clients \ {c} : taken'[d] = taken[d]
  BY <1>a, <1>1, <1>2
<1>9. \A u \in Threads \ {t} : pc'[u] = pc[u] /\ n'[u] = n[u]
  BY <1>a, <1>2
<1>10. pc'[t] = (IF k = 0 THEN "close" ELSE "P") /\ n'[t] = k
  BY <1>a, <1>2
<1>11. taken[c] \in Nat /\ taken'[c] - k = taken[c]
  BY <1>a, <1>1, <1>3, <1>8
<1>12. \A u \in Threads \ {t} : pc[u] \notin Idle => Client(u) \in Clients \ {c}
  BY <1>6, HasClient
<1> HIDE DEF c
<1>13. \A u \in Threads : pc'[u] \in Working =>
         n'[u] > 0 /\ echoed[Client(u)] = Upto(taken'[Client(u)] - n'[u])
  <2>1. CASE k = 0
    BY <1>8, <1>9, <1>10, <1>12, <2>1 DEF Echoes, Working, Idle
  <2>2. CASE k # 0
    <3>1. k > 0 /\ pc'[t] = "P"
      BY <1>3, <1>10, <2>2
    <3>2. echoed[Client(t)] = Upto(taken'[Client(t)] - n'[t])
      BY <1>7, <1>10, <1>11 DEF c
    <3> QED
      BY <1>8, <1>9, <1>10, <1>12, <3>1, <3>2 DEF Echoes, Working, Idle
  <2> QED
    BY <2>1, <2>2
<1>14. ASSUME NEW d \in Clients, \A u \in Threads : pc'[u] \in Working => Client(u) # d
       PROVE  echoed[d] = Upto(taken'[d])
  <2>1. CASE d = c
    <3>1. k = 0
      BY <1>10, <1>14, <2>1 DEF Working, c
    <3>2. taken'[c] = taken[c]
      BY <1>11, <3>1, <1>8
    <3> QED
      BY <1>7, <2>1, <3>2
  <2>2. CASE d # c
    <3>1. \A u \in Threads : pc[u] \in Working => Client(u) # d
      BY <1>b, <1>9, <1>14 DEF Working
    <3> QED
      BY <1>8, <2>2, <3>1 DEF Echoes
  <2> QED
    BY <2>1, <2>2
<1>15. \A u \in Threads : pc'[u] = "close" =>
         end[Client(u)] # "no" /\ taken'[Client(u)] = sent[Client(u)]
  <2>1. pc'[t] = "close" => /\ end[Client(t)] # "no"
                            /\ taken'[Client(t)] = sent[Client(t)]
    <3>1. pc'[t] = "close" => k = 0
      BY <1>10
    <3>2. k = 0 => taken'[c] = taken[c]
      BY <1>8, <1>11
    <3> QED
      BY <1>4, <3>1, <3>2 DEF c
  <2> QED
    BY <1>8, <1>9, <1>12, <2>1 DEF Echoes, Idle
<1> QED
  BY <1>b, <1>5, <1>13, <1>14, <1>15 DEF Echoes, Upto

(* A thread writes back the line it has read.                               *)
LEMMA EchoesWrite ==
  ASSUME Types, Handed, Table, EchoedTypes, Echoes, NEW t \in Threads, Write(t)
  PROVE  Echoes' /\ echoed'[Client(t)] = Upto(taken[Client(t)])
<1> DEFINE c == Client(t)
<1>a. /\ pc \in [Threads -> PCs] /\ n \in [Threads -> 0..2]
      /\ taken \in [Clients -> Nat]
      /\ echoed \in [Clients -> Seq(1..(2 * MaxLines))]
  BY DEF Types, NetTypes, ThreadTypes, EchoedTypes
<1>b. /\ pc[t] = "write" /\ UNCHANGED <<sent, end, taken, fds, fd>>
      /\ echoed' = [echoed EXCEPT ![c] = @ \o Halves(taken[c] - n[t], taken[c])]
      /\ pc' = [pc EXCEPT ![t] = "read"] /\ n' = [n EXCEPT ![t] = 0]
  BY DEF Write, At, Goes, Echoed, process
<1>1. c \in Clients /\ c = fds[fd[t]]
  BY <1>b, HasClient DEF Idle
<1>2. n[t] \in Nat /\ taken[c] \in Nat /\ n[t] <= taken[c]
  <2>1. n[t] <= taken[fds[fd[t]]]
    BY <1>b DEF EchoedTypes, ReadBefore, Working
  <2>2. n[t] \in Nat /\ taken[c] \in Nat
    BY <1>a, <1>1
  <2> QED
    BY <1>1, <2>1, <2>2
<1>3. echoed[c] = Upto(taken[c] - n[t])
  BY <1>b DEF Echoes, Working
<1>4. \A a, b \in Nat : b <= a => Upto(a - b) \o Halves(a - b, a) = Upto(a)
  <2> SUFFICES ASSUME NEW a \in Nat, NEW b \in Nat, b <= a
               PROVE  Upto(a - b) \o Halves(a - b, a) = Upto(a)
    OBVIOUS
  <2>1. a - (a - b) = b /\ a - b \in Nat
    OBVIOUS
  <2>2. Halves(a - b, a) = [i \in 1..b |-> (a - b) + i]
    BY <2>1 DEF Halves
  <2>3. /\ Upto(a - b) \in Seq(Nat) /\ Len(Upto(a - b)) = a - b
        /\ Halves(a - b, a) \in Seq(Nat) /\ Len(Halves(a - b, a)) = b
    BY <2>1, <2>2 DEF Upto
  <2>4. Upto(a) \in Seq(Nat) /\ Len(Upto(a)) = a
    BY DEF Upto
  <2> QED
    BY <2>1, <2>2, <2>3, <2>4 DEF Upto
<1>5. echoed'[c] = Upto(taken[c])
  <2>1. echoed'[c] = echoed[c] \o Halves(taken[c] - n[t], taken[c])
    BY <1>a, <1>b, <1>1
  <2> QED
    BY <1>2, <1>3, <1>4, <2>1
<1>6. \A d \in Clients \ {c} : echoed'[d] = echoed[d]
  BY <1>a, <1>b, <1>1
<1>7. \A u \in Threads : Client(u)' = Client(u)
  BY <1>b DEF Client
<1>8. \A u \in Threads \ {t} : pc[u] \notin Idle => Client(u) \in Clients \ {c}
  BY <1>b, OneThreadEach, HasClient DEF Idle
<1>9. /\ \A u \in Threads \ {t} : pc'[u] = pc[u] /\ n'[u] = n[u]
      /\ pc'[t] = "read"
  BY <1>a, <1>b
<1> HIDE DEF c
<1>10. \A u \in Threads : pc'[u] \in Working =>
         n'[u] > 0 /\ echoed'[Client(u)] = Upto(taken[Client(u)] - n'[u])
  BY <1>6, <1>8, <1>9 DEF Echoes, Working, Idle
<1>11. ASSUME NEW d \in Clients, \A u \in Threads : pc'[u] \in Working => Client(u) # d
       PROVE  echoed'[d] = Upto(taken[d])
  <2>1. CASE d = c
    BY <1>5, <2>1
  <2>2. CASE d # c
    <3>1. \A u \in Threads : pc[u] \in Working => Client(u) # d
      BY <1>9, <1>11, <2>2 DEF c
    <3> QED
      BY <1>6, <2>2, <3>1 DEF Echoes
  <2> QED
    BY <2>1, <2>2
<1>12. \A u \in Threads : pc'[u] = "close" =>
         end[Client(u)] # "no" /\ taken[Client(u)] = sent[Client(u)]
  BY <1>9 DEF Echoes
<1>13. Echoes'
  <2>1. \A u \in Threads : pc'[u] \in Working =>
          n'[u] > 0 /\ echoed'[Client(u)'] = Upto(taken'[Client(u)'] - n'[u])
    BY <1>b, <1>7, <1>10
  <2>2. \A d \in Clients :
          (\A u \in Threads : pc'[u] \in Working => Client(u)' # d)
            => echoed'[d] = Upto(taken'[d])
    BY <1>b, <1>7, <1>11
  <2>3. \A u \in Threads : pc'[u] = "close" =>
          end'[Client(u)'] # "no" /\ taken'[Client(u)'] = sent'[Client(u)']
    BY <1>b, <1>7, <1>12
  <2> QED
    BY <2>1, <2>2, <2>3 DEF Echoes, Upto
<1> QED
  BY <1>5, <1>13 DEF c

LEMMA EchoesThread ==
  ASSUME Types, Handed, Table, EchoedTypes, Echoes, NEW t \in Threads, ThreadStep(t)
  PROVE  Echoes'
<1>a. /\ pc \in [Threads -> PCs] /\ fd \in [Threads -> Fds \cup {0}]
      /\ fds \in [Fds -> Clients \cup {Nobody}]
  BY DEF Types, ProcessTypes, ThreadTypes
<1>1. ASSUME NEW p \in PCs \ {"close"}, p \in Working <=> pc[t] \in Working,
             pc' = [pc EXCEPT ![t] = p], UNCHANGED <<net, fds, fd, n>>
      PROVE  Echoes'
  <2>1. \A u \in Threads : Client(u)' = Client(u)
    BY <1>1 DEF Client
  <2>2. \A u \in Threads : /\ pc'[u] \in Working <=> pc[u] \in Working
                           /\ pc'[u] = "close" => pc[u] = "close"
    BY <1>1, <1>a
  <2>3. \A u \in Threads : pc[u] = "close" => end[Client(u)] # "no"
    BY DEF Echoes
  <2> QED
    BY <1>1, <2>1, <2>2, <2>3, EchoesKept DEF net
<1> USE DEF At, Goes, process, PCs, Working
<1>2. CASE RemoveP(t) \/ RemoveLock(t) \/ RemoveV(t)
  BY <1>1, <1>2 DEF RemoveP, RemoveLock, RemoveV
<1>3. CASE Remove(t)
  <2>1. /\ pc[t] = "get" /\ pc' = [pc EXCEPT ![t] = "slots"]
        /\ fd' = [fd EXCEPT ![t] = buf[First]]
        /\ UNCHANGED <<net, fds, n>>
    BY <1>3 DEF Remove
  <2>2. \A u \in Threads \ {t} : pc'[u] = pc[u] /\ Client(u)' = Client(u)
    BY <1>a, <2>1 DEF Client
  <2>3. pc'[t] = "slots"
    BY <1>a, <2>1
  <2>4. \A u \in Threads : pc[u] = "close" => end[Client(u)] # "no"
    BY DEF Echoes
  <2> QED
    BY <2>1, <2>2, <2>3, <2>4, EchoesKept DEF net
<1>4. CASE OnceFirst(t) \/ InitEchoCnt(t) \/ OnceAgain(t)
  BY <1>1, <1>4 DEF OnceFirst, InitEchoCnt, OnceAgain
<1>5. CASE Read(t)
  BY <1>5, EchoesRead
<1>6. CASE Lock(t) \/ Load(t) \/ Store(t) \/ Unlock(t)
  BY <1>1, <1>6 DEF Lock, Load, Store, Unlock
<1>7. CASE Write(t)
  BY <1>7, EchoesWrite
<1>8. CASE Close(t)
  <2>1. /\ pc[t] = "close" /\ pc' = [pc EXCEPT ![t] = "items"]
        /\ fd' = [fd EXCEPT ![t] = 0] /\ fds' = [fds EXCEPT ![fd[t]] = Nobody]
        /\ UNCHANGED <<sent, end, n, taken, echoed>>
    BY <1>8 DEF Close
  <2>2. fd[t] # 0
    BY <2>1 DEF Handed, Idleness, Idle
  <2>3. \A u \in Threads : u # t => fd[u] # fd[t]
    BY <2>2 DEF Handed, HandedToOneThread
  <2>4. \A u \in Threads \ {t} : pc'[u] = pc[u] /\ Client(u)' = Client(u)
    BY <1>a, <2>1, <2>3 DEF Client
  <2>5. pc'[t] = "items"
    BY <1>a, <2>1
  <2>6. \A u \in Threads : pc[u] = "close" => end[Client(u)] # "no"
    BY DEF Echoes
  <2> QED
    BY <2>1, <2>4, <2>5, <2>6, EchoesKept
<1>9. CASE Fails(t)
  <2>1. \A u \in Threads : Client(u)' = Client(u)
    BY <1>9 DEF Fails, Client, threads
  <2>2. \A u \in Threads : pc[u] = "close" => end[Client(u)] # "no"
    BY DEF Echoes
  <2> QED
    BY <1>9, <2>1, <2>2, EchoesKept DEF Fails, net, threads
<1> QED
  BY <1>2, <1>3, <1>4, <1>5, <1>6, <1>7, <1>8, <1>9 DEF ThreadStep

LEMMA EchoesStep ==
  Types /\ Handed /\ Table /\ EchoedTypes /\ Echoes /\ [Next]_vars => Echoes'
<1> SUFFICES ASSUME Types, Handed, Table, EchoedTypes, Echoes, [Next]_vars
             PROVE  Echoes'
  OBVIOUS
<1> USE DEF threads
<1>a. \A t \in Threads : pc[t] = "close" => Client(t) \in Clients /\ end[Client(t)] # "no"
  BY HasClient DEF Echoes, Idle
<1>b. ASSUME UNCHANGED <<fds, fd>> PROVE \A t \in Threads : Client(t)' = Client(t)
  BY <1>b DEF Client
<1>1. ASSUME NEW c \in Clients, ClientMoves(c) PROVE Echoes'
  <2>1. UNCHANGED <<taken, echoed, fds, fd, pc, n>>
    BY <1>1 DEF ClientMoves, ClientStep, Dial, Sends, Ends
  <2>2. \A d \in Clients : end[d] # "no" => end'[d] # "no" /\ sent'[d] = sent[d]
    BY <1>1 DEF ClientMoves, ClientStep, Dial, Sends, Ends, Types, NetTypes
  <2> QED
    BY <1>a, <1>b, <2>1, <2>2, EchoesKept
<1>2. ASSUME NEW c \in Clients, Accept(c) PROVE Echoes'
  <2>1. \A f \in Fds \ Free(fds) : fds'[f] = fds[f]
    BY <1>2 DEF Accept, Available, Types, ProcessTypes
  <2>2. UNCHANGED <<sent, end, taken, echoed, fd, pc, n>>
    BY <1>2 DEF Accept
  <2>3. \A t \in Threads : pc[t] \notin Idle => Client(t)' = Client(t)
    BY <2>1, <2>2, HasClient DEF Client
  <2> QED
    BY <1>a, <2>2, <2>3, EchoesKept DEF Working, Idle
<1>3. CASE AcceptFails \/ InsertP \/ InsertLock \/ Insert \/ InsertV
  <2>1. UNCHANGED <<net, fds, fd, pc, n>>
    BY <1>3 DEF AcceptFails, InsertP, InsertLock, Insert, InsertV, process
  <2> QED
    BY <1>a, <1>b, <2>1, EchoesKept DEF net
<1>4. CASE UNCHANGED vars
  <2>1. UNCHANGED <<net, fds, fd, pc, n>>
    BY <1>4 DEF vars, process
  <2> QED
    BY <1>a, <1>b, <2>1, EchoesKept DEF net
<1> QED
  BY <1>1, <1>2, <1>3, <1>4, EchoesThread DEF Next, MainStep

LEMMA EchoesHold == Spec => []Echoes
BY TypesHold, HandedHolds, TableHolds, EchoedHolds, EchoesInit, EchoesStep, PTL DEF Spec

-----------------------------------------------------------------------------
(* The service.                                                            *)

LEMMA ServiceInit == Init => Service!Init
<1> SUFFICES ASSUME Init PROVE Service!Init
  OBVIOUS
<1>1. IsFiniteSet({f \in Fds : f < nofile})
  BY NetAssumption, FS_Subset
<1>2. MaxOpen \in Nat
  BY <1>1, FS_CardinalityType DEF MaxOpen
<1> QED
  BY <1>2 DEF Init, NetInit, Service!Init

\* What the service knows stays as it is.
Unseen == UNCHANGED <<conn, sent, end, echoed, up, nofile>>

(* The service counts as we do.                                             *)
LEMMA SameCardinality == \A S : Service!Cardinality(S) = Cardinality(S)
BY DEF Service!Cardinality, Cardinality

LEMMA SameLimit == UNCHANGED nofile => UNCHANGED MaxOpen
BY DEF MaxOpen

LEMMA UnseenStutters == Unseen => UNCHANGED Service!vars
BY SameLimit DEF Unseen, Service!vars

LEMMA ServiceClient ==
  ASSUME Types, NEW c \in Clients, ClientMoves(c)
  PROVE  Service!Client(c)
BY SameLimit DEF Types, NetTypes, ClientMoves, ClientStep, Dial, Sends, Ends,
                 Service!Client

(* A descriptor below the limit is free when there is room for one more.    *)
LEMMA RoomLeft ==
  ASSUME Types, Table
  PROVE  /\ Cardinality(Open) \in Nat /\ MaxOpen \in Nat
         /\ Available # {} => Cardinality(Open) < MaxOpen
         /\ Available = {} => Cardinality(Open) >= MaxOpen
<1> DEFINE Below == {f \in Fds : f < nofile}
<1>1. Used \subseteq Below
  BY UsedFinite DEF Table
<1>2. IsFiniteSet(Below) /\ IsFiniteSet(Used) /\ MaxOpen = Cardinality(Below)
  BY UsedFinite, NetAssumption, FS_Subset DEF MaxOpen
<1>3. Available = Below \ Used
  BY DEF Available, Used, Free
<1>4. Cardinality(Open) = Cardinality(Used)
  BY DEF Table
<1> HIDE DEF Below
<1>5. /\ Cardinality(Below) \in Nat /\ Cardinality(Used) \in Nat
      /\ Cardinality(Used) <= Cardinality(Below)
      /\ Cardinality(Used) = Cardinality(Below) => Used = Below
  BY <1>1, <1>2, FS_CardinalityType, FS_Subset
<1>6. Available # {} => Used # Below
  BY <1>3
<1>7. Available = {} => Used = Below
  BY <1>1, <1>3
<1> QED
  BY <1>2, <1>4, <1>5, <1>6, <1>7

LEMMA ServiceMain ==
  ASSUME Types, Table, MainStep
  PROVE  Service!Next \/ UNCHANGED Service!vars
<1>a. Service!Open = Open
  BY DEF Service!Open, Open
<1>1. ASSUME NEW c \in Clients, Accept(c) PROVE Service!Accept(c)
  <2>1. Available # {}
    BY <1>1 DEF Accept
  <2>2. Service!Cardinality(Service!Open) < MaxOpen
    BY <1>a, <2>1, RoomLeft, SameCardinality
  <2> QED
    BY <1>1, <2>2, SameLimit DEF Accept, Service!Accept
<1>2. CASE AcceptFails
  <2>1. Service!Cardinality(Service!Open) >= MaxOpen
    BY <1>2, <1>a, RoomLeft, SameCardinality DEF AcceptFails
  <2>2. Service!Exit
    BY <1>2, <2>1, SameLimit DEF AcceptFails, Service!Exit, net
  <2> QED
    BY <2>2 DEF Service!Next
<1>3. CASE InsertP \/ InsertLock \/ Insert \/ InsertV
  BY <1>3, UnseenStutters DEF InsertP, InsertLock, Insert, InsertV, Unseen, net, process
<1> QED
  BY <1>1, <1>2, <1>3 DEF MainStep, Service!Next

LEMMA ServiceThread ==
  ASSUME Types, Handed, Table, EchoedTypes, Echoes, NEW t \in Threads, ThreadStep(t)
  PROVE  Service!Next \/ UNCHANGED Service!vars
<1> USE DEF net, process, At
<1>1. CASE RemoveP(t) \/ RemoveLock(t) \/ Remove(t) \/ RemoveV(t)
  BY <1>1, UnseenStutters DEF RemoveP, RemoveLock, Remove, RemoveV, Unseen
<1>2. CASE OnceFirst(t) \/ InitEchoCnt(t) \/ OnceAgain(t)
  BY <1>2, UnseenStutters DEF OnceFirst, InitEchoCnt, OnceAgain, Unseen
<1>3. CASE Read(t)
  BY <1>3, UnseenStutters DEF Read, Unseen
<1>4. CASE Lock(t) \/ Load(t) \/ Store(t) \/ Unlock(t)
  BY <1>4, UnseenStutters DEF Lock, Load, Store, Unlock, Unseen
<1>5. CASE Write(t)
  <2> DEFINE c == Client(t)
  <2>1. c \in Clients /\ c = fds[fd[t]]
    BY <1>5, HasClient DEF Write, Idle
  <2>2. up /\ conn[c] = "open"
    <3>1. fd[t] \in Fds
      BY <1>5, HasClient DEF Write, Idle
    <3> QED
      BY <1>5, <2>1, <3>1 DEF Write, Table
  <2>3. /\ taken[c] \in Nat /\ taken[c] <= sent[c] /\ sent[c] \in Nat
        /\ n[t] \in Nat /\ n[t] > 0 /\ n[t] <= taken[c]
    <3>1. n[t] > 0 /\ n[t] <= taken[fds[fd[t]]]
      BY <1>5 DEF Write, Echoes, EchoedTypes, ReadBefore, Working
    <3>2. taken[c] \in Nat /\ taken[c] <= sent[c] /\ sent[c] \in Nat
      BY <2>1, NetAssumption DEF Types, NetTypes
    <3>3. n[t] \in Nat
      BY DEF Types, ThreadTypes
    <3> QED
      BY <2>1, <3>1, <3>2, <3>3
  <2>4. echoed[c] = Upto(taken[c] - n[t])
    BY <1>5 DEF Write, Echoes, Working
  <2>5. Len(echoed[c]) = taken[c] - n[t]
    BY <2>3, <2>4 DEF Upto
  <2>6. taken[c] \in Len(echoed[c])+1..sent[c]
    BY <2>3, <2>5
  <2>7. echoed' = [echoed EXCEPT ![c] = [i \in 1..taken[c] |-> i]]
    <3>1. echoed'[c] = Upto(taken[c])
      BY <1>5, EchoesWrite
    <3>2. PICK s : echoed' = [echoed EXCEPT ![c] = s]
      BY <1>5 DEF Write
    <3>3. s = Upto(taken[c])
      BY <2>1, <3>1, <3>2 DEF EchoedTypes
    <3> QED
      BY <3>2, <3>3 DEF Upto
  <2>8. UNCHANGED <<conn, sent, end, up, nofile>>
    BY <1>5 DEF Write
  <2> HIDE DEF c
  <2>9. Service!Echo(c)
    BY <2>2, <2>6, <2>7, <2>8, SameLimit DEF Service!Echo
  <2> QED
    BY <2>1, <2>9 DEF Service!Next
<1>6. CASE Close(t)
  <2> DEFINE c == Client(t)
  <2>1. /\ c \in Clients /\ c = fds[fd[t]] /\ fd[t] \in Fds
    BY <1>6, HasClient DEF Close, Idle
  <2>2. up /\ conn[c] = "open"
    BY <1>6, <2>1 DEF Close, Table
  <2>3. end[c] # "no" /\ taken[c] = sent[c]
    BY <1>6 DEF Close, Echoes
  <2>4. end[c] \in {"eof", "reset"}
    BY <2>1, <2>3 DEF Types, NetTypes
  <2>5. \A u \in Threads : pc[u] \in Working => Client(u) # c
    BY <1>6, OneThreadEach DEF Close, Working, Idle
  <2>6. echoed[c] = Upto(taken[c])
    BY <2>1, <2>5 DEF Echoes
  <2>7. Len(echoed[c]) = sent[c]
    <3>1. sent[c] \in Nat
      BY <2>1, NetAssumption DEF Types, NetTypes
    <3> QED
      BY <2>3, <2>6, <3>1 DEF Upto
  <2>8. /\ conn' = [conn EXCEPT ![c] = "closed"]
        /\ UNCHANGED <<sent, end, echoed, up, nofile>>
    BY <1>6 DEF Close
  <2> HIDE DEF c
  <2>9. Service!Close(c)
    BY <2>2, <2>4, <2>7, <2>8, SameLimit DEF Service!Close
  <2> QED
    BY <2>1, <2>9 DEF Service!Next
<1>7. CASE Fails(t)
  <2>1. pc[t] \notin Idle
    BY <1>7 DEF Fails, Idle
  <2>2. Client(t) \in Clients /\ conn[Client(t)] = "open"
    BY <2>1, HasClient DEF Table
  <2>3. end[Client(t)] = "reset"
    BY <1>7, <2>2, NetAssumption DEF Fails, Broken
  <2>4. Service!Exit
    BY <1>7, <2>2, <2>3, SameLimit DEF Fails, Service!Exit, Service!Open
  <2> QED
    BY <2>4 DEF Service!Next
<1> QED
  BY <1>1, <1>2, <1>3, <1>4, <1>5, <1>6, <1>7 DEF ThreadStep

(* The prethreaded server is an echo service: a client gets its lines back, *)
(* complete and in order, its connection is closed only when it has hung up *)
(* and has everything back or is gone, and the process ends only on account *)
(* of a client that is gone or for want of descriptors.                     *)
THEOREM ServiceImplemented == Spec => KeepsThePromise
<1>1. Types /\ Handed /\ Table /\ EchoedTypes /\ Echoes /\ [Next]_vars
        => [Service!Next]_Service!vars
  <2> SUFFICES ASSUME Types, Handed, Table, EchoedTypes, Echoes, [Next]_vars
               PROVE  Service!Next \/ UNCHANGED Service!vars
    OBVIOUS
  <2>1. CASE UNCHANGED vars
    BY <2>1, UnseenStutters DEF vars, net, process, Unseen
  <2>2. ASSUME NEW c \in Clients, ClientMoves(c) PROVE Service!Next
    BY <2>2, ServiceClient DEF Service!Next
  <2> QED
    BY <2>1, <2>2, ServiceMain, ServiceThread DEF Next
<1> QED
  BY <1>1, ServiceInit, TypesHold, HandedHolds, TableHolds, EchoedHolds, EchoesHold, PTL
     DEF Spec, KeepsThePromise, Service!Spec

-----------------------------------------------------------------------------
(* ParallelSum: for any number of threads, of elements and of cells.       *)
(*                                                                         *)
(* SumOrder says who is where: what main waits for, whose turn it is, that *)
(* one thread at most is between P and V.  SumExact says, of a command line*)
(* whose number of elements is accepted, what has been added up: Part(t) is*)
(* twice the sum of the elements that thread t is through with, the cells  *)
(* hold the parts and gsum is half of their total, a function F with       *)
(* F[t + 1] = F[t] + Part(t).  Telescope compares such totals.             *)

Ids == Sum!Ids
Longs == Sum!Longs
Share == Sum!nelems_per_thread
Crit == {"load", "store", "V"}
Cells == th \in [Ids -> [pc : {"none", "start", "loop", "load", "store", "V", "done"},
                         at : Longs, stop : Longs, reg : Longs]]

(* The threads there are to be: none, for a negative nthreads.              *)
Many == IF nthreads > 0 THEN nthreads ELSE 0

(* Where main and the threads are: no thread is created before its turn nor *)
(* joined before it is done, a thread's argument is its own number, and one *)
(* thread at most is between P and V.                                       *)
MainInOrder ==
  /\ idx <= Many
  /\ main \in {"create", "join", "sum", "answer"} => nthreads # 0
  /\ main \in {"join", "sum", "answer"} => Many <= MAXTHREADS
  /\ main # "exited" => says = "nothing"
  /\ main \in {"create", "join", "sum", "answer"} /\ prog # "mutex" => ~Sum!Invalid

ThreadsInOrder ==
  /\ \A t \in Ids : th[t].pc # "none" => t < Many /\ myid[t] = t
  /\ main \in {"check", "create"} => \A t \in Ids : t >= idx => th[t].pc = "none"
  /\ main = "join" => \A t \in Ids : t < idx => th[t].pc = "done"
  /\ main \in {"sum", "answer"} => \A t \in Ids : t < Many => th[t].pc = "done"

MutexInOrder ==
  /\ \A t \in Ids : th[t].pc \in Crit =>
       psemaphore = 0 /\ prog = "mutex" /\ th[t].at < th[t].stop
  /\ \A t, u \in Ids : th[t].pc \in Crit /\ th[u].pc \in Crit => t = u

SumOrder == Sum!TypeOK /\ MainInOrder /\ ThreadsInOrder /\ MutexInOrder

LEMMA Wraps == \A x \in Int : Sum!Wrap(x) \in Longs
<1> SUFFICES ASSUME NEW x \in Int
             PROVE  Sum!Wrap(x) \in Longs
  OBVIOUS
<1>1. LONG_MAX \in Nat
  BY SumHolds DEF Sum!SumAssumption
<1> HIDE DEF LONG_MAX
<1> DEFINE M == 2 * (LONG_MAX + 1)
<1>2. M \in Nat \ {0} /\ M = 2 * (LONG_MAX + 1)
  BY <1>1
<1> HIDE DEF M
<1>3. x % M \in 0..(M - 1)
  BY <1>2
<1> DEFINE m == x % M
<1> HIDE DEF m
<1>4. (IF m > LONG_MAX THEN m - M ELSE m) \in (-(LONG_MAX + 1))..LONG_MAX
  BY <1>1, <1>2, <1>3 DEF m
<1>5. Sum!Wrap(x) = IF m > LONG_MAX THEN m - M ELSE m
  BY DEF m, M, Sum!Wrap, Sum!Modulus
<1> QED
  BY <1>4, <1>5 DEF Longs, Sum!Longs

LEMMA Fits == \A x \in 0..LONG_MAX : Sum!Wrap(x) = x
<1>1. LONG_MAX \in Nat
  BY SumHolds DEF Sum!SumAssumption
<1> HIDE DEF LONG_MAX
<1> SUFFICES ASSUME NEW x \in 0..LONG_MAX
             PROVE  Sum!Wrap(x) = x
  OBVIOUS
<1> DEFINE M == 2 * (LONG_MAX + 1)
<1>2. M \in Nat \ {0} /\ x \in 0..(M - 1)
  BY <1>1
<1> HIDE DEF M
<1>3. x % M = x
  BY <1>2
<1> QED
  BY <1>1, <1>3 DEF M, Sum!Wrap, Sum!Modulus

LEMMA LongsAreInts ==
  /\ LONG_MAX \in Nat /\ \A x \in Longs : x \in Int
  /\ MAXTHREADS \in Nat /\ \A t \in Ids : t \in Nat
<1>1. LONG_MAX \in Nat /\ MAXTHREADS \in Nat
  BY SumHolds DEF Sum!SumAssumption
<1> HIDE DEF LONG_MAX
<1> QED
  BY <1>1 DEF Longs, Sum!Longs, Ids, Sum!Ids

(* The share of a thread is a number, whatever the arguments: the shift may *)
(* wrap around, and the / of C rounds towards zero.                         *)
LEMMA DivType == \A a \in Int, b \in Int \ {0} : Sum!Div(a, b) \in Int
<1> SUFFICES ASSUME NEW a \in Int, NEW b \in Int \ {0}
             PROVE  Sum!Div(a, b) \in Int
  OBVIOUS
<1>1. Sum!Abs(a) \in Nat /\ Sum!Abs(b) \in Nat /\ Sum!Abs(b) > 0
  BY DEF Sum!Abs
<1>2. Sum!Abs(a) \div Sum!Abs(b) \in Int
  BY <1>1
<1> QED
  BY <1>2 DEF Sum!Div

LEMMA ShareType ==
  ASSUME nthreads \in Int, nthreads # 0, log_nelems \in Int
  PROVE  Sum!nelems \in Int /\ Share \in Int
<1>1. LONG_BITS \in Nat /\ LONG_BITS > 0
  BY SumHolds DEF Sum!SumAssumption
<1>2. log_nelems % LONG_BITS \in Nat
  BY <1>1
<1>3. 2^(log_nelems % LONG_BITS) \in Int
  BY <1>2
<1>4. Sum!nelems \in Int
  BY <1>3, Wraps, LongsAreInts DEF Sum!nelems
<1> QED
  BY <1>4, DivType DEF Share, Sum!nelems_per_thread

LEMMA ManyType ==
  ASSUME nthreads \in Int
  PROVE  /\ Many \in Nat
         /\ \A k \in Nat : k >= nthreads <=> k >= Many
         /\ \A k \in Nat : k < Many => nthreads > 0 /\ Many = nthreads
BY DEF Many

-----------------------------------------------------------------------------
(* What the steps of a thread do, field by field.                          *)

Quiet == UNCHANGED <<prog, nthreads, log_nelems, main, idx, myid, result, says>>
WideCells == th \in [Ids -> [pc : {"none", "start", "loop", "load", "store", "V", "done"},
                             at : Int, stop : Int, reg : Int]]
Others(t) == \A u \in Ids : u # t => th'[u] = th[u]
Becomes(t, pc0, at0, stop0, reg0) ==
  th'[t].pc = pc0 /\ th'[t].at = at0 /\ th'[t].stop = stop0 /\ th'[t].reg = reg0

Starts(t) ==
  /\ th[t].pc = "start"
  /\ \E start \in Longs :
       /\ start = Sum!Wrap(myid[t] * Share)
       /\ Becomes(t, "loop", start, Sum!Wrap(start + Share), 0)
  /\ UNCHANGED <<gsum, psemaphore, psum>>

AddsToCell(t) ==
  /\ th[t].pc = "loop" /\ prog = "array" /\ th[t].at < th[t].stop
  /\ Becomes(t, "loop", th[t].at + 1, th[t].stop, th[t].reg)
  /\ psum' = [psum EXCEPT ![myid[t]] = Sum!Wrap(@ + th[t].at)]
  /\ UNCHANGED <<gsum, psemaphore>>

AddsToLocal(t) ==
  /\ th[t].pc = "loop" /\ prog = "local" /\ th[t].at < th[t].stop
  /\ Becomes(t, "loop", th[t].at + 1, th[t].stop, Sum!Wrap(th[t].reg + th[t].at))
  /\ UNCHANGED <<gsum, psemaphore, psum>>

Enters(t) ==
  /\ th[t].pc = "loop" /\ prog = "mutex" /\ th[t].at < th[t].stop
  /\ psemaphore > 0 /\ psemaphore' = psemaphore - 1
  /\ Becomes(t, "load", th[t].at, th[t].stop, th[t].reg)
  /\ UNCHANGED <<gsum, psum>>

Loads(t) ==
  /\ th[t].pc = "load"
  /\ Becomes(t, "store", th[t].at, th[t].stop, gsum)
  /\ UNCHANGED <<gsum, psemaphore, psum>>

Stores(t) ==
  /\ th[t].pc = "store"
  /\ gsum' = Sum!Wrap(th[t].reg + th[t].at)
  /\ Becomes(t, "V", th[t].at, th[t].stop, 0)
  /\ UNCHANGED <<psemaphore, psum>>

Leaves(t) ==
  /\ th[t].pc = "V" /\ psemaphore' = psemaphore + 1
  /\ Becomes(t, "loop", th[t].at + 1, th[t].stop, th[t].reg)
  /\ UNCHANGED <<gsum, psum>>

Completes(t) ==
  /\ th[t].pc = "loop" /\ th[t].at >= th[t].stop
  /\ Becomes(t, "done", th[t].at, th[t].stop, th[t].reg)
  /\ psum' = IF prog = "local" THEN [psum EXCEPT ![myid[t]] = th[t].reg] ELSE psum
  /\ UNCHANGED <<gsum, psemaphore>>

LEMMA WideTypes == Cells => WideCells
<1>1. \A x \in Longs : x \in Int
  BY LongsAreInts
<1> QED
  BY <1>1 DEF Cells, WideCells

LEMMA ThreadMoves ==
  ASSUME Cells, NEW t \in Ids, Sum!ThreadStep(t), myid[t] \in Int, Share \in Int, gsum \in Int
  PROVE  /\ Quiet /\ Others(t) /\ WideCells' /\ main \notin {"exited", "died", "overrun"}
         /\ \/ Starts(t) \/ AddsToCell(t) \/ AddsToLocal(t) \/ Enters(t)
            \/ Loads(t) \/ Stores(t) \/ Leaves(t) \/ Completes(t)
<1>a. th \in [Ids -> [pc : {"none", "start", "loop", "load", "store", "V", "done"},
                      at : Int, stop : Int, reg : Int]]
  BY WideTypes DEF WideCells
<1>b. /\ \A x \in Int : Sum!Wrap(x) \in Int
      /\ Sum!Wrap(th[t].reg + th[t].at) \in Int
      /\ \A start \in Longs : start \in Int /\ Sum!Wrap(start + Share) \in Int
  <2>1. th[t].reg \in Int /\ th[t].at \in Int
    BY <1>a
  <2>2. \A x \in Longs : x \in Int
    BY LongsAreInts
  <2>3. th[t].reg + th[t].at \in Int /\ \A start \in Longs : start + Share \in Int
    BY <2>1, <2>2
  <2>4. \A x \in Int : Sum!Wrap(x) \in Int
    BY <2>2, Wraps
  <2> QED
    BY <2>2, <2>3, <2>4
<1>1. CASE Sum!Start(t)
  <2> DEFINE start == Sum!Wrap(myid[t] * Share)
  <2>1. start \in Longs
    BY Wraps
  <2>2. Quiet /\ Sum!At(t, "start") /\ UNCHANGED <<gsum, psemaphore, psum>>
        /\ th' = [th EXCEPT ![t] = [pc |-> "loop", at |-> start, reg |-> 0,
                                    stop |-> Sum!Wrap(start + Share)]]
    BY <1>1 DEF Sum!Start, Quiet, Sum!command, Share
  <2> HIDE DEF start
  <2>3. Others(t) /\ WideCells' /\ Becomes(t, "loop", start, Sum!Wrap(start + Share), 0)
    BY <1>a, <1>b, <2>1, <2>2 DEF Others, Becomes, WideCells
  <2>4. Starts(t)
    BY <2>1, <2>2, <2>3 DEF Starts, Sum!At, start
  <2> QED
    BY <2>2, <2>3, <2>4 DEF Sum!At
<1>2. CASE Sum!AddToCell(t)
  <2>1. /\ Quiet /\ Sum!At(t, "loop") /\ th' = [th EXCEPT ![t].at = @ + 1]
        /\ prog = "array" /\ th[t].at < th[t].stop /\ UNCHANGED <<gsum, psemaphore>>
        /\ psum' = [psum EXCEPT ![myid[t]] = Sum!Wrap(@ + th[t].at)]
    BY <1>2 DEF Sum!AddToCell, Quiet, Sum!command
  <2>2. Others(t) /\ WideCells' /\ Becomes(t, th[t].pc, th[t].at + 1, th[t].stop, th[t].reg)
    BY <1>a, <1>b, <2>1 DEF Others, Becomes, WideCells
  <2> QED
    BY <2>1, <2>2 DEF AddsToCell, Sum!At, Becomes
<1>3. CASE Sum!AddToLocal(t)
  <2>1. /\ Quiet /\ Sum!At(t, "loop")
        /\ th' = [th EXCEPT ![t].at = @ + 1, ![t].reg = Sum!Wrap(@ + th[t].at)]
        /\ prog = "local" /\ th[t].at < th[t].stop /\ UNCHANGED <<gsum, psemaphore, psum>>
    BY <1>3 DEF Sum!AddToLocal, Quiet, Sum!command
  <2>3. Others(t) /\ Becomes(t, th[t].pc, th[t].at + 1, th[t].stop, Sum!Wrap(th[t].reg + th[t].at))
    BY <1>a, <2>1 DEF Others, Becomes
  <2>4. WideCells'
    <3> DEFINE g == [th EXCEPT ![t].at = @ + 1]
    <3>1. g \in [Ids -> [pc : {"none", "start", "loop", "load", "store", "V", "done"},
                        at : Int, stop : Int, reg : Int]]
      BY <1>a
    <3>2. th' = [g EXCEPT ![t].reg = Sum!Wrap(@ + th[t].at)]
      BY <2>1
    <3>3. g[t].reg = th[t].reg
      BY <1>a
    <3> HIDE DEF g
    <3> QED
      BY <1>a, <1>b, <3>1, <3>2, <3>3 DEF WideCells
  <2>2. Others(t) /\ WideCells' /\ Becomes(t, th[t].pc, th[t].at + 1, th[t].stop, Sum!Wrap(th[t].reg + th[t].at))
    BY <2>3, <2>4
  <2> QED
    BY <2>1, <2>2 DEF AddsToLocal, Sum!At, Becomes
<1>4. CASE Sum!P(t)
  <2>1. /\ Quiet /\ Sum!At(t, "loop") /\ th' = [th EXCEPT ![t].pc = "load"]
        /\ prog = "mutex" /\ th[t].at < th[t].stop /\ UNCHANGED <<gsum, psum>>
        /\ psemaphore > 0 /\ psemaphore' = psemaphore - 1
    BY <1>4 DEF Sum!P, Sum!Goes, Quiet, Sum!command
  <2>2. Others(t) /\ WideCells' /\ Becomes(t, "load", th[t].at, th[t].stop, th[t].reg)
    BY <1>a, <1>b, <2>1 DEF Others, Becomes, WideCells
  <2> QED
    BY <2>1, <2>2 DEF Enters, Sum!At
<1>5. CASE Sum!Load(t)
  <2>1. /\ Quiet /\ Sum!At(t, "load") /\ UNCHANGED <<gsum, psemaphore, psum>>
        /\ th' = [th EXCEPT ![t].pc = "store", ![t].reg = gsum]
    BY <1>5 DEF Sum!Load, Quiet, Sum!command
  <2>3. Others(t) /\ Becomes(t, "store", th[t].at, th[t].stop, gsum)
    BY <1>a, <2>1 DEF Others, Becomes
  <2>4. WideCells'
    BY <1>a, <1>b, <2>1 DEF WideCells
  <2>2. Others(t) /\ WideCells' /\ Becomes(t, "store", th[t].at, th[t].stop, gsum)
    BY <2>3, <2>4
  <2> QED
    BY <2>1, <2>2 DEF Loads, Sum!At
<1>6. CASE Sum!Store(t)
  <2>1. /\ Quiet /\ Sum!At(t, "store") /\ UNCHANGED <<psemaphore, psum>>
        /\ gsum' = Sum!Wrap(th[t].reg + th[t].at)
        /\ th' = [th EXCEPT ![t].pc = "V", ![t].reg = 0]
    BY <1>6 DEF Sum!Store, Quiet, Sum!command
  <2>3. Others(t) /\ Becomes(t, "V", th[t].at, th[t].stop, 0)
    BY <1>a, <2>1 DEF Others, Becomes
  <2>4. WideCells'
    <3> DEFINE g == [th EXCEPT ![t].pc = "V"]
    <3>1. g \in [Ids -> [pc : {"none", "start", "loop", "load", "store", "V", "done"},
                        at : Int, stop : Int, reg : Int]]
      BY <1>a
    <3>2. th' = [g EXCEPT ![t].reg = 0]
      BY <2>1
    <3>3. g[t].reg = th[t].reg
      BY <1>a
    <3> HIDE DEF g
    <3> QED
      BY <1>a, <1>b, <3>1, <3>2, <3>3 DEF WideCells
  <2>2. Others(t) /\ WideCells' /\ Becomes(t, "V", th[t].at, th[t].stop, 0)
    BY <2>3, <2>4
  <2> QED
    BY <2>1, <2>2 DEF Stores, Sum!At
<1>7. CASE Sum!V(t)
  <2>1. /\ Quiet /\ Sum!At(t, "V") /\ UNCHANGED <<gsum, psum>>
        /\ psemaphore' = psemaphore + 1
        /\ th' = [th EXCEPT ![t].pc = "loop", ![t].at = @ + 1]
    BY <1>7 DEF Sum!V, Quiet, Sum!command
  <2>2. Others(t) /\ WideCells' /\ Becomes(t, "loop", th[t].at + 1, th[t].stop, th[t].reg)
    BY <1>a, <1>b, <2>1 DEF Others, Becomes, WideCells
  <2> QED
    BY <2>1, <2>2 DEF Leaves, Sum!At
<1>8. CASE Sum!Finish(t)
  <2>1. /\ Quiet /\ Sum!At(t, "loop") /\ UNCHANGED <<gsum, psemaphore>>
        /\ th[t].at >= th[t].stop /\ th' = [th EXCEPT ![t].pc = "done"]
        /\ psum' = IF prog = "local" THEN [psum EXCEPT ![myid[t]] = th[t].reg] ELSE psum
    BY <1>8 DEF Sum!Finish, Sum!Goes, Quiet, Sum!command
  <2>2. Others(t) /\ WideCells' /\ Becomes(t, "done", th[t].at, th[t].stop, th[t].reg)
    BY <1>a, <1>b, <2>1 DEF Others, Becomes, WideCells
  <2> QED
    BY <2>1, <2>2 DEF Completes, Sum!At
<1> QED
  BY <1>1, <1>2, <1>3, <1>4, <1>5, <1>6, <1>7, <1>8 DEF Sum!ThreadStep

-----------------------------------------------------------------------------
(* The order of main and the threads.                                      *)

CommandTypes ==
  /\ <<nthreads, log_nelems>> \in ((-2)..(MAXTHREADS + 1)) \X ((-LONG_BITS)..LONG_BITS)
  /\ prog \in {"mutex", "array", "local"}

PlaceTypes ==
  /\ main \in {"check", "create", "join", "sum", "answer", "exited", "died", "overrun"}
  /\ idx \in 0..MAXTHREADS /\ result \in Longs /\ says \in {"nothing", "invalid", "error"}

SharedTypes ==
  /\ myid \in [Ids -> Ids]
  /\ gsum \in Longs /\ psemaphore \in 0..1 /\ psum \in [Ids -> Longs]

LEMMA SumTypes == Sum!TypeOK <=> CommandTypes /\ PlaceTypes /\ SharedTypes /\ Cells
BY DEF Sum!TypeOK, CommandTypes, PlaceTypes, SharedTypes, Cells, Ids, Longs

LEMMA CommandInts == CommandTypes => nthreads \in Int /\ log_nelems \in Int
<1>1. ((-2)..(MAXTHREADS + 1)) \X ((-LONG_BITS)..LONG_BITS) \subseteq Int \X Int
  BY SumHolds DEF Sum!SumAssumption
<1> QED
  BY <1>1 DEF CommandTypes

LEMMA SumOrderInit == Sum!Init => SumOrder
<1> SUFFICES ASSUME Sum!Init
             PROVE  SumOrder
  OBVIOUS
<1>1. LONG_MAX \in Nat /\ MAXTHREADS \in Nat /\ 0 \in Longs
  BY LongsAreInts DEF Longs, Sum!Longs
<1>2. CommandTypes
  BY DEF Sum!Init, CommandTypes
<1>3. PlaceTypes
  BY <1>1 DEF Sum!Init, PlaceTypes
<1>4. SharedTypes
  BY <1>1, LongsAreInts DEF Sum!Init, SharedTypes, Ids, Sum!Ids
<1>5. Cells /\ \A t \in Ids : th[t].pc = "none"
  BY <1>1 DEF Sum!Init, Cells, Ids, Sum!NoThread
<1>6. MainInOrder
  BY <1>2, CommandInts, ManyType DEF Sum!Init, MainInOrder
<1>7. ThreadsInOrder
  BY <1>5 DEF Sum!Init, ThreadsInOrder
<1>8. MutexInOrder
  BY <1>5 DEF MutexInOrder, Crit
<1> QED
  BY <1>2, <1>3, <1>4, <1>5, <1>6, <1>7, <1>8, SumTypes DEF SumOrder

(* A step of a thread: main and the other threads are where they were.      *)
LEMMA ThreadCells ==
  ASSUME SumOrder, Share \in Int, NEW t \in Ids, Sum!ThreadStep(t)
  PROVE  Cells'
<1>1. /\ Cells /\ SharedTypes /\ ThreadsInOrder /\ MutexInOrder
  BY SumTypes DEF SumOrder
<1>2. myid[t] \in Int
  <2>1. myid[t] \in Ids
    BY <1>1 DEF SharedTypes
  <2> QED
    BY <2>1, LongsAreInts
<1>3. /\ Others(t) /\ WideCells'
      /\ \/ Starts(t) \/ AddsToCell(t) \/ AddsToLocal(t) \/ Enters(t)
         \/ Loads(t) \/ Stores(t) \/ Leaves(t) \/ Completes(t)
  <2>1. gsum \in Int
    BY <1>1, LongsAreInts DEF SharedTypes
  <2> QED
    BY <1>1, <1>2, <2>1, ThreadMoves
<1> DEFINE PCS == {"none", "start", "loop", "load", "store", "V", "done"}
           Record == [pc : PCS, at : Longs, stop : Longs, reg : Longs]
<1>4. th[t].pc \in PCS /\ th[t].at \in Longs /\ th[t].stop \in Longs /\ th[t].reg \in Longs
  BY <1>1 DEF Cells
<1>5. 0 \in Longs /\ gsum \in Longs /\ Share \in Int
  BY <1>1, LongsAreInts DEF SharedTypes, Longs, Sum!Longs
<1>6. th[t].at < th[t].stop => th[t].at + 1 \in Longs
  <2> DEFINE a == th[t].at
             b == th[t].stop
  <2>1. a \in Longs /\ b \in Longs /\ LONG_MAX \in Nat
    BY <1>4, LongsAreInts
  <2> HIDE DEF a, b, LONG_MAX
  <2>2. a < b => a + 1 \in Longs
    BY <2>1 DEF Longs, Sum!Longs
  <2> QED
    BY <2>2 DEF a, b
<1>7. th[t].pc \in Crit => th[t].at < th[t].stop
  BY <1>1 DEF MutexInOrder
<1>8. th'[t].pc \in PCS /\ th'[t].at \in Longs /\ th'[t].stop \in Longs /\ th'[t].reg \in Longs
  <2>1. \A start \in Longs : Sum!Wrap(start + Share) \in Longs
    BY <1>5, Wraps, LongsAreInts
  <2>2. Sum!Wrap(th[t].reg + th[t].at) \in Longs
    <3>1. th[t].reg \in Int /\ th[t].at \in Int
      BY <1>4, LongsAreInts
    <3>2. th[t].reg + th[t].at \in Int
      BY <3>1
    <3> QED
      BY <3>2, Wraps
  <2> QED
    BY <1>3, <1>4, <1>5, <1>6, <1>7, <2>1, <2>2
    DEF Starts, AddsToCell, AddsToLocal, Enters, Loads, Stores, Leaves, Completes, Becomes, Crit
<1>9. \A u \in Ids : th'[u] \in Record
  <2>1. th'[t] \in Record
    BY <1>8, <1>3 DEF WideCells
  <2> QED
    BY <1>1, <1>3, <2>1 DEF Others, Cells
<1> QED
  BY <1>3, <1>9 DEF WideCells, Cells

(* The sum is dealt out the same way while the command line is the same.    *)
LEMMA SameCommand ==
  UNCHANGED <<nthreads, log_nelems>> =>
    /\ UNCHANGED <<Share, Sum!nelems, Many>> /\ Sum!Invalid' = Sum!Invalid
BY DEF Share, Sum!nelems_per_thread, Sum!nelems, Sum!Invalid, Sum!Rem, Many

LEMMA RunningThreads ==
  ASSUME SumOrder, NEW t \in Ids, th[t].pc # "none"
  PROVE  /\ nthreads \in Nat /\ nthreads > 0 /\ t \in Nat /\ t < nthreads
         /\ Many = nthreads
         /\ log_nelems \in Int /\ myid[t] = t /\ Sum!nelems \in Int /\ Share \in Int
<1>1. nthreads \in Int /\ log_nelems \in Int /\ ThreadsInOrder
  BY SumTypes, CommandInts DEF SumOrder
<1>2. t \in Nat /\ t < Many /\ myid[t] = t
  BY <1>1, LongsAreInts DEF ThreadsInOrder
<1>3. nthreads > 0 /\ nthreads \in Nat /\ t < nthreads /\ nthreads # 0
  BY <1>1, <1>2, ManyType
<1>4. Many = nthreads
  BY <1>1, <1>3 DEF Many
<1> QED
  BY <1>1, <1>2, <1>3, <1>4, ShareType

LEMMA ThreadSteps ==
  ASSUME SumOrder, NEW t \in Ids, Sum!ThreadStep(t)
  PROVE  /\ th[t].pc # "none" /\ Quiet /\ Others(t) /\ WideCells'
         /\ main \notin {"exited", "died", "overrun"}
         /\ \/ Starts(t) \/ AddsToCell(t) \/ AddsToLocal(t) \/ Enters(t)
            \/ Loads(t) \/ Stores(t) \/ Leaves(t) \/ Completes(t)
<1>1. th[t].pc # "none"
  BY DEF Sum!ThreadStep, Sum!Start, Sum!AddToCell, Sum!AddToLocal, Sum!P, Sum!Load,
         Sum!Store, Sum!V, Sum!Finish, Sum!At
<1>2. Cells /\ gsum \in Int
  <2>1. Cells /\ gsum \in Longs
    BY SumTypes DEF SumOrder, SharedTypes
  <2> QED
    BY <2>1, LongsAreInts
<1>3. myid[t] \in Int /\ Share \in Int
  BY <1>1, RunningThreads
<1> QED
  BY <1>1, <1>2, <1>3, ThreadMoves

LEMMA ThreadShared ==
  ASSUME SumOrder, NEW t \in Ids, Sum!ThreadStep(t)
  PROVE  SharedTypes'
<1>1. SharedTypes /\ MutexInOrder /\ Cells
  BY SumTypes DEF SumOrder
<1>2. th[t].pc # "none" /\ Quiet
      /\ \/ Starts(t) \/ AddsToCell(t) \/ AddsToLocal(t) \/ Enters(t)
         \/ Loads(t) \/ Stores(t) \/ Leaves(t) \/ Completes(t)
  BY ThreadSteps
<1>3. myid[t] \in Ids /\ th[t].reg \in Longs /\ th[t].at \in Longs /\ psum[myid[t]] \in Longs
  BY <1>1 DEF SharedTypes, Cells
<1>4. Sum!Wrap(psum[myid[t]] + th[t].at) \in Longs /\ Sum!Wrap(th[t].reg + th[t].at) \in Longs
  <2>1. psum[myid[t]] + th[t].at \in Int /\ th[t].reg + th[t].at \in Int
    BY <1>3, LongsAreInts
  <2> QED
    BY <2>1, Wraps
<1>5. psum' \in [Ids -> Longs]
  BY <1>1, <1>2, <1>3, <1>4
  DEF SharedTypes, Starts, AddsToCell, AddsToLocal, Enters, Loads, Stores, Leaves, Completes
<1>6. gsum' \in Longs
  BY <1>1, <1>2, <1>4
  DEF SharedTypes, Starts, AddsToCell, AddsToLocal, Enters, Loads, Stores, Leaves, Completes
<1>7. psemaphore' \in 0..1
  BY <1>1, <1>2
  DEF SharedTypes, MutexInOrder, Crit, Starts, AddsToCell, AddsToLocal, Enters, Loads, Stores,
      Leaves, Completes
<1> QED
  BY <1>1, <1>2, <1>5, <1>6, <1>7 DEF SharedTypes, Quiet

LEMMA ThreadOrder ==
  ASSUME SumOrder, NEW t \in Ids, Sum!ThreadStep(t)
  PROVE  MainInOrder' /\ ThreadsInOrder' /\ MutexInOrder'
<1>1. SharedTypes /\ MainInOrder /\ ThreadsInOrder /\ MutexInOrder /\ Cells
  BY SumTypes DEF SumOrder
<1>2. th[t].pc # "none" /\ Quiet /\ Others(t)
      /\ \/ Starts(t) \/ AddsToCell(t) \/ AddsToLocal(t) \/ Enters(t)
         \/ Loads(t) \/ Stores(t) \/ Leaves(t) \/ Completes(t)
  BY ThreadSteps
<1>a. Many' = Many
  BY <1>2, SameCommand DEF Quiet
<1>3. MainInOrder'
  BY <1>1, <1>2, <1>a, SameCommand DEF MainInOrder, Quiet
<1>4. /\ th'[t].pc # "none" /\ th[t].pc # "done"
  BY <1>2
  DEF Starts, AddsToCell, AddsToLocal, Enters, Loads, Stores, Leaves, Completes, Becomes
<1>5. ThreadsInOrder'
  <2>1. \A u \in Ids : u # t => th'[u] = th[u]
    BY <1>2 DEF Others
  <2> QED
    BY <1>1, <1>2, <1>a, <1>4, <2>1 DEF ThreadsInOrder, Quiet
<1>6. MutexInOrder'
  <2>1. \A u \in Ids : u # t => th'[u] = th[u]
    BY <1>2 DEF Others
  <2>2. \A u \in Ids : u # t /\ th[u].pc \in Crit =>
          psemaphore = 0 /\ prog = "mutex" /\ th[u].at < th[u].stop
    BY <1>1 DEF MutexInOrder
  <2>3. CASE th[t].pc \in Crit
    <3>1. \A u \in Ids : u # t => th'[u].pc \notin Crit
      BY <1>1, <2>1, <2>3 DEF MutexInOrder
    <3>2. th'[t].pc \in Crit => UNCHANGED psemaphore /\ th'[t].at = th[t].at /\ th'[t].stop = th[t].stop
      BY <1>2, <2>3
      DEF Starts, AddsToCell, AddsToLocal, Enters, Loads, Stores, Leaves, Completes, Becomes, Crit
    <3>3. psemaphore = 0 /\ prog = "mutex" /\ th[t].at < th[t].stop
      BY <1>1, <2>3 DEF MutexInOrder
    <3> QED
      BY <1>2, <3>1, <3>2, <3>3 DEF MutexInOrder, Quiet
  <2>4. CASE th[t].pc \notin Crit /\ ~Enters(t)
    <3>1. th'[t].pc \notin Crit /\ UNCHANGED psemaphore
      BY <1>2, <2>4
      DEF Starts, AddsToCell, AddsToLocal, Enters, Loads, Stores, Leaves, Completes, Becomes, Crit
    <3> QED
      BY <1>1, <1>2, <2>1, <3>1 DEF MutexInOrder, Quiet
  <2>5. CASE Enters(t)
    <3>1. /\ psemaphore > 0 /\ psemaphore' = psemaphore - 1 /\ psemaphore \in 0..1
          /\ prog = "mutex" /\ th'[t].at < th'[t].stop
      BY <1>1, <2>5 DEF Enters, Becomes, SharedTypes
    <3>2. psemaphore' = 0 /\ psemaphore # 0
      BY <3>1
    <3>3. \A u \in Ids : u # t => th'[u].pc \notin Crit
      BY <2>1, <2>2, <3>2
    <3> QED
      BY <1>2, <3>1, <3>2, <3>3 DEF MutexInOrder, Quiet
  <2> QED
    BY <2>3, <2>4, <2>5
<1> QED
  BY <1>3, <1>5, <1>6

LEMMA SumOrderThread ==
  ASSUME SumOrder, NEW t \in Ids, Sum!ThreadStep(t)
  PROVE  SumOrder'
<1>1. CommandTypes /\ PlaceTypes /\ Quiet
  BY ThreadSteps, SumTypes DEF SumOrder
<1>2. CommandTypes' /\ PlaceTypes'
  BY <1>1 DEF CommandTypes, PlaceTypes, Quiet
<1>3. Share \in Int
  BY ThreadSteps, RunningThreads
<1>4. Cells'
  BY <1>3, ThreadCells
<1>5. SharedTypes'
  BY ThreadShared
<1>6. Sum!TypeOK'
  BY <1>2, <1>4, <1>5, SumTypes, PTL
<1> QED
  BY <1>6, ThreadOrder DEF SumOrder

(* main.                                                                    *)
LEMMA SumOrderCreate ==
  ASSUME SumOrder, Sum!Create
  PROVE  SumOrder'
<1>1. CommandTypes /\ PlaceTypes /\ SharedTypes /\ Cells /\ MainInOrder /\ ThreadsInOrder /\ MutexInOrder
  BY SumTypes DEF SumOrder
<1>2. /\ main = "create" /\ UNCHANGED <<prog, nthreads, log_nelems, gsum, psemaphore, psum, result, says>>
      /\ \/ idx >= nthreads /\ main' = "join" /\ idx' = 0 /\ UNCHANGED <<myid, th>>
         \/ ~(idx >= nthreads) /\ idx = MAXTHREADS /\ main' = "overrun" /\ UNCHANGED <<idx, myid, th>>
         \/ /\ ~(idx >= nthreads) /\ idx # MAXTHREADS
            /\ myid' = [myid EXCEPT ![idx] = idx] /\ th' = [th EXCEPT ![idx].pc = "start"]
            /\ idx' = idx + 1 /\ UNCHANGED main
  BY DEF Sum!Create, Sum!command
<1>3. /\ Many \in Nat /\ idx \in 0..MAXTHREADS /\ idx \in Nat /\ MAXTHREADS \in Nat /\ idx <= Many
      /\ Ids = 0..(MAXTHREADS - 1) /\ (idx >= nthreads <=> idx >= Many)
      /\ Many' = Many
  <2>1. nthreads \in Int /\ idx \in 0..MAXTHREADS /\ MAXTHREADS \in Nat /\ idx <= Many
        /\ Ids = 0..(MAXTHREADS - 1)
    BY <1>1, CommandInts, LongsAreInts DEF PlaceTypes, MainInOrder, Ids, Sum!Ids
  <2>2. idx \in Nat
    BY <2>1
  <2> QED
    BY <1>2, <2>1, <2>2, ManyType, SameCommand
<1>4. CommandTypes'
  BY <1>1, <1>2 DEF CommandTypes
<1>5. PlaceTypes'
  <2>1. idx' \in 0..MAXTHREADS
    BY <1>2, <1>3
  <2> QED
    BY <1>1, <1>2, <2>1 DEF PlaceTypes
<1>6. idx # MAXTHREADS => idx \in Ids
  BY <1>3
<1>7. SharedTypes'
  <2>1. myid' \in [Ids -> Ids]
    BY <1>1, <1>2, <1>6 DEF SharedTypes
  <2> QED
    BY <1>1, <1>2, <2>1 DEF SharedTypes
<1>8. Cells'
  <2>1. th' \in [Ids -> [pc : {"none", "start", "loop", "load", "store", "V", "done"},
                         at : Longs, stop : Longs, reg : Longs]]
    BY <1>1, <1>2, <1>6 DEF Cells
  <2> QED
    BY <2>1 DEF Cells
<1>9. Sum!TypeOK'
  BY <1>4, <1>5, <1>7, <1>8, SumTypes, PTL
<1>10. MainInOrder'
  <2>1. idx' <= Many /\ nthreads # 0 /\ (main' = "join" => Many <= MAXTHREADS)
    BY <1>1, <1>2, <1>3 DEF MainInOrder
  <2> QED
    BY <1>1, <1>2, <1>3, <2>1, SameCommand DEF MainInOrder
<1>11. CASE UNCHANGED th
  <2>1. MutexInOrder'
    BY <1>1, <1>2, <1>11 DEF MutexInOrder
  <2>2. /\ main' \in {"join", "overrun"} /\ UNCHANGED myid
        /\ main' = "join" => idx' = 0
    BY <1>2, <1>11, <1>3, <1>6, <1>1 DEF Cells, ThreadsInOrder
  <2>3. ThreadsInOrder'
    <3>1. \A u \in Ids : ~(u < 0)
      BY LongsAreInts
    <3> QED
      BY <1>1, <1>2, <1>3, <1>11, <2>2, <3>1 DEF ThreadsInOrder
  <2> QED
    BY <1>9, <1>10, <2>1, <2>3 DEF SumOrder
<1>12. CASE ~UNCHANGED th
  <2>1. /\ idx \in Ids /\ idx' = idx + 1 /\ idx < Many /\ UNCHANGED main
        /\ myid' = [myid EXCEPT ![idx] = idx] /\ th' = [th EXCEPT ![idx].pc = "start"]
    BY <1>2, <1>3, <1>6, <1>12
  <2>2. th'[idx].pc = "start" /\ \A u \in Ids : u # idx => th'[u] = th[u]
    BY <1>1, <2>1 DEF Cells
  <2>3. myid'[idx] = idx /\ \A u \in Ids : u # idx => myid'[u] = myid[u]
    BY <1>1, <2>1 DEF SharedTypes
  <2>4. \A u \in Ids : th[u].pc \in Crit => th[u].pc # "none"
    BY DEF Crit
  <2>5. \A u \in Ids : th'[u].pc \in Crit => u # idx
    BY <2>2 DEF Crit
  <2>6. MutexInOrder'
    BY <1>1, <1>2, <2>2, <2>5 DEF MutexInOrder
  <2>7. \A u \in Ids : u >= idx + 1 => u >= idx /\ u # idx
    BY <1>3
  <2>8. ThreadsInOrder'
    BY <1>1, <1>2, <1>3, <2>1, <2>2, <2>3, <2>7 DEF ThreadsInOrder
  <2> QED
    BY <1>9, <1>10, <2>6, <2>8 DEF SumOrder
<1> QED
  BY <1>11, <1>12

LEMMA SumOrderMain ==
  ASSUME SumOrder, Sum!MainStep
  PROVE  SumOrder'
<1>1. CommandTypes /\ PlaceTypes /\ SharedTypes /\ Cells /\ MainInOrder /\ ThreadsInOrder /\ MutexInOrder
  BY SumTypes DEF SumOrder
<1>2. CASE Sum!Create
  BY <1>2, SumOrderCreate
<1>3. CASE Sum!Check \/ Sum!Join \/ Sum!AddUp \/ Sum!Answer
  <2>1. /\ UNCHANGED <<prog, nthreads, log_nelems, myid, gsum, psemaphore, psum, th>>
        /\ main' \in {"check", "create", "join", "sum", "answer", "exited", "died", "overrun"}
        /\ says' \in {"nothing", "invalid", "error"}
    BY <1>1, <1>3
    DEF Sum!Check, Sum!Join, Sum!AddUp, Sum!Answer, Sum!command, PlaceTypes
  <2>2. /\ Many \in Nat /\ idx \in 0..MAXTHREADS /\ idx \in Nat /\ MAXTHREADS \in Nat /\ idx <= Many
        /\ Ids = 0..(MAXTHREADS - 1) /\ (idx >= nthreads <=> idx >= Many)
        /\ Many' = Many
    <3>1. nthreads \in Int /\ idx \in 0..MAXTHREADS /\ MAXTHREADS \in Nat /\ idx <= Many
          /\ Ids = 0..(MAXTHREADS - 1)
      BY <1>1, CommandInts, LongsAreInts DEF PlaceTypes, MainInOrder, Ids, Sum!Ids
    <3>2. idx \in Nat
      BY <3>1
    <3> QED
      BY <2>1, <3>1, <3>2, ManyType, SameCommand
  <2>3. /\ main \in {"join", "sum", "answer"} => Many <= MAXTHREADS
        /\ idx' \in {0, idx} \/ (idx' = idx + 1 /\ main \in {"join", "sum"} /\ ~(idx >= nthreads))
    BY <1>1, <1>3 DEF Sum!Check, Sum!Join, Sum!AddUp, Sum!Answer, MainInOrder
  <2>4. idx' \in 0..MAXTHREADS /\ idx' <= Many
    BY <2>2, <2>3
  <2>5. result' \in Longs
    <3>1. CASE Sum!AddUp /\ prog # "mutex" /\ ~(idx >= nthreads)
      <4>1. main = "sum" /\ result' = Sum!Wrap(result + psum[idx])
        BY <3>1 DEF Sum!AddUp
      <4>2. idx \in Ids
        BY <2>2, <2>3, <3>1, <4>1
      <4>3. result \in Int /\ psum[idx] \in Int
        BY <1>1, <4>2, LongsAreInts DEF PlaceTypes, SharedTypes
      <4>4. result + psum[idx] \in Int
        BY <4>3
      <4> QED
        BY <4>1, <4>4, Wraps
    <3>2. CASE ~(Sum!AddUp /\ prog # "mutex" /\ ~(idx >= nthreads))
      <4>1. result' \in {result, gsum}
        BY <1>3, <3>2 DEF Sum!Check, Sum!Join, Sum!AddUp, Sum!Answer
      <4> QED
        BY <1>1, <4>1 DEF PlaceTypes, SharedTypes
    <3> QED
      BY <3>1, <3>2
  <2>6. CommandTypes' /\ SharedTypes' /\ Cells'
    BY <1>1, <2>1 DEF CommandTypes, SharedTypes, Cells
  <2>7. PlaceTypes'
    BY <2>1, <2>4, <2>5 DEF PlaceTypes
  <2>8. Sum!TypeOK'
    BY <2>6, <2>7, SumTypes, PTL
  <2>9. MutexInOrder'
    BY <1>1, <2>1 DEF MutexInOrder
  <2>10. MainInOrder'
    <3>1. Sum!Invalid' = Sum!Invalid
      BY <2>1, SameCommand
    <3> QED
      BY <1>1, <1>3, <2>1, <2>2, <2>4, <3>1
      DEF MainInOrder, Sum!Check, Sum!Join, Sum!AddUp, Sum!Answer, Sum!DivisionTraps
  <2>11. ThreadsInOrder'
    <3>1. \A u \in Ids : u \in Int /\ idx \in Int
      BY <2>2
    <3>2. CASE Sum!Join
      <4>1. \A u \in Ids : u < idx => th[u].pc = "done"
        BY <1>1, <3>2 DEF ThreadsInOrder, Sum!Join
      <4>2. \A u \in Ids : u < idx + 1 => u < idx \/ u = idx
        BY <3>1
      <4>3. idx >= nthreads => \A u \in Ids : u < Many => u < idx
        BY <2>2
      <4> QED
        BY <1>1, <2>1, <2>2, <3>2, <4>1, <4>2, <4>3 DEF ThreadsInOrder, Sum!Join, Sum!Joined
    <3>3. CASE Sum!Check \/ Sum!AddUp \/ Sum!Answer
      BY <1>1, <2>1, <2>2, <3>3 DEF ThreadsInOrder, Sum!Check, Sum!AddUp, Sum!Answer
    <3> QED
      BY <1>3, <3>2, <3>3
  <2> QED
    BY <2>8, <2>9, <2>10, <2>11 DEF SumOrder
<1> QED
  BY <1>2, <1>3 DEF Sum!MainStep

LEMMA SumOrderStep == SumOrder /\ [Sum!Next]_(Sum!vars) => SumOrder'
<1> SUFFICES ASSUME SumOrder, [Sum!Next]_(Sum!vars)
             PROVE  SumOrder'
  OBVIOUS
<1>1. CASE Sum!MainStep
  BY <1>1, SumOrderMain
<1>2. ASSUME NEW t \in Sum!Ids, Sum!ThreadStep(t)
      PROVE  SumOrder'
  BY <1>2, SumOrderThread DEF Ids
<1>3. CASE UNCHANGED Sum!vars
  <2>1. CommandTypes /\ PlaceTypes /\ SharedTypes /\ Cells
    BY SumTypes DEF SumOrder
  <2>2. /\ UNCHANGED <<prog, nthreads, log_nelems, main, idx, myid, gsum, psemaphore, psum,
                       th, result, says>>
    BY <1>3 DEF Sum!vars, Sum!command
  <2>3. CommandTypes' /\ PlaceTypes' /\ SharedTypes' /\ Cells'
    BY <2>1, <2>2 DEF CommandTypes, PlaceTypes, SharedTypes, Cells
  <2>4. Sum!TypeOK'
    BY <2>3, SumTypes, PTL
  <2>5. MainInOrder'
    BY <2>2, SameCommand DEF SumOrder, MainInOrder
  <2>6. ThreadsInOrder' /\ MutexInOrder'
    BY <2>2, SameCommand DEF SumOrder, ThreadsInOrder, MutexInOrder
  <2> QED
    BY <2>4, <2>5, <2>6 DEF SumOrder
<1> QED
  BY <1>1, <1>2, <1>3 DEF Sum!Next

LEMMA SumOrderHolds == Sum!Init /\ [][Sum!Next]_(Sum!vars) => []SumOrder
BY SumOrderInit, SumOrderStep, PTL

-----------------------------------------------------------------------------
(* The sums.                                                               *)

(* Twice the sum of the numbers below m.                                    *)
Twice(m) == m * (m - 1)

LEMMA TwiceType == \A m \in Nat : Twice(m) \in Nat
<1> SUFFICES ASSUME NEW m \in Nat
             PROVE  m * (m - 1) \in Nat
  BY DEF Twice
<1>1. CASE m = 0
  BY <1>1
<1>2. CASE m # 0
  <2>1. m \in Nat /\ m - 1 \in Nat
    BY <1>2
  <2>2. \A a, b \in Nat : a * b \in Nat
    OBVIOUS
  <2> QED
    BY <2>1, <2>2
<1> QED
  BY <1>1, <1>2

LEMMA TwiceGrows == \A a, b \in Nat : a <= b => Twice(a) <= Twice(b)
<1>1. \A a, b \in Nat : a <= b => a * (a - 1) <= b * (b - 1)
  OBVIOUS
<1> QED
  BY <1>1 DEF Twice

LEMMA TwiceNext == \A a \in Int : Twice(a + 1) = Twice(a) + 2 * a
<1>1. \A a \in Int : (a + 1) * ((a + 1) - 1) = a * (a - 1) + 2 * a
  OBVIOUS
<1> QED
  BY <1>1 DEF Twice

LEMMA TwiceHalved == \A m \in Nat, x \in Int : 2 * x = Twice(m) => Sum!SumBelow(m) = x
<1>1. \A m \in Nat, x \in Int : 2 * x = m * (m - 1) => (m * (m - 1)) \div 2 = x
  OBVIOUS
<1> QED
  BY <1>1 DEF Twice, Sum!SumBelow

Accepted == log_nelems \in 0..MAX_LOG

(* An accepted number of elements is what 2^log_nelems is, and a thread's   *)
(* share of them is their number divided by that of the threads.            *)
LEMMA SumSizes ==
  ASSUME SumOrder, Accepted, nthreads # 0
  PROVE  /\ Sum!nelems = 2^log_nelems /\ Sum!nelems \in Nat /\ Sum!nelems > 0
         /\ Sum!nelems <= LONG_MAX /\ Twice(Sum!nelems) <= LONG_MAX
         /\ Share \in Int /\ (nthreads > 0 => Share \in Nat)
         /\ Many * Share \in Nat /\ Many * Share <= Sum!nelems
         /\ ~Sum!Invalid /\ nthreads > 0 => Many * Share = Sum!nelems
<1>1. nthreads \in Int /\ log_nelems \in Int
  BY SumTypes, CommandInts DEF SumOrder
<1> DEFINE E == 2^log_nelems
<1>2. /\ LONG_MAX \in Nat /\ MAX_LOG \in Nat /\ LONG_BITS \in Nat /\ MAX_LOG < LONG_BITS
      /\ \A k \in 0..MAX_LOG : 2^k \in 1..LONG_MAX /\ 2^k * (2^k - 1) <= LONG_MAX
  BY SumHolds DEF Sum!SumAssumption
<1>3. log_nelems \in 0..MAX_LOG
  BY DEF Accepted
<1>4. E \in 1..LONG_MAX /\ E * (E - 1) <= LONG_MAX
  BY <1>2, <1>3
<1>a. log_nelems % LONG_BITS = log_nelems
  <2> HIDE DEF LONG_MAX, E
  <2> QED
    BY <1>2, <1>3
<1>b. 2^(log_nelems % LONG_BITS) = E
  BY <1>a
<1> HIDE DEF LONG_MAX, E
<1>5. E \in Nat /\ E > 0 /\ E <= LONG_MAX /\ Twice(E) <= LONG_MAX /\ E \in 0..LONG_MAX
  BY <1>2, <1>4 DEF Twice
<1>6. Sum!nelems = E
  BY <1>b, <1>5, Fits DEF Sum!nelems
<1>c. Share \in Int
  BY <1>1, ShareType
<1>7. CASE nthreads > 0
  <2>1. nthreads \in Nat \ {0} /\ Many = nthreads
    BY <1>1, <1>7 DEF Many
  <2>2. Share = E \div nthreads
    BY <1>5, <1>6, <2>1 DEF Share, Sum!nelems_per_thread, Sum!Div, Sum!Abs
  <2>3. E \div nthreads \in Nat
    BY <1>5, <2>1
  <2>4. nthreads * (E \div nthreads) <= E /\ nthreads * (E \div nthreads) \in Nat
    BY <1>5, <2>1
  <2>5. Share = Sum!Div(Sum!nelems, nthreads)
    BY DEF Share, Sum!nelems_per_thread
  <2>6. ~Sum!Invalid => Sum!nelems - nthreads * Share = 0
    BY <2>5 DEF Sum!Invalid, Sum!Rem
  <2>7. ~Sum!Invalid => nthreads * Share = Sum!nelems
    <3> DEFINE d == nthreads * Share
    <3>1. d \in Int
      BY <2>2, <2>4
    <3> HIDE DEF d
    <3>2. ~Sum!Invalid => Sum!nelems - d = 0
      BY <2>6 DEF d
    <3> QED
      BY <1>5, <1>6, <3>1, <3>2 DEF d
  <2> QED
    BY <1>5, <1>6, <1>c, <2>1, <2>2, <2>3, <2>4, <2>7 DEF E
<1>8. CASE ~(nthreads > 0)
  <2>1. Many * Share = 0
    BY <1>c, <1>8 DEF Many
  <2> QED
    BY <1>5, <1>6, <1>c, <1>8, <2>1 DEF E
<1> QED
  BY <1>7, <1>8

(* What k threads are dealt.                                                *)
LEMMA Dealt ==
  ASSUME SumOrder, Accepted, nthreads # 0, NEW k \in Nat, k <= Many
  PROVE  /\ k * Share \in Nat /\ k * Share <= LONG_MAX
         /\ Twice(k * Share) \in Nat /\ Twice(k * Share) <= LONG_MAX
<1>1. Many \in Nat /\ LONG_MAX \in Nat
  BY SumTypes, CommandInts, ManyType, LongsAreInts DEF SumOrder
<1>2. /\ Sum!nelems \in Nat /\ Sum!nelems <= LONG_MAX /\ Twice(Sum!nelems) <= LONG_MAX
      /\ Share \in Int /\ (nthreads > 0 => Share \in Nat)
      /\ Many * Share \in Nat /\ Many * Share <= Sum!nelems
  BY SumSizes
<1>3. \A a, b, c \in Nat : a <= b => a * c <= b * c /\ a * c \in Nat
  OBVIOUS
<1>4. k * Share <= Many * Share /\ k * Share \in Nat
  <2>1. CASE nthreads > 0
    BY <1>1, <1>2, <1>3, <2>1
  <2>2. CASE ~(nthreads > 0)
    <3>1. k = 0 /\ Many = 0
      BY <2>2 DEF Many
    <3> QED
      BY <1>2, <3>1
  <2> QED
    BY <2>1, <2>2
<1> DEFINE m == k * Share
<1>5. m \in Nat /\ m <= Sum!nelems
  BY <1>2, <1>4
<1> HIDE DEF m, LONG_MAX
<1>6. Twice(m) <= Twice(Sum!nelems) /\ Twice(m) \in Nat /\ Twice(Sum!nelems) \in Nat
  BY <1>2, <1>5, TwiceGrows, TwiceType
<1>7. Twice(m) <= LONG_MAX /\ m <= LONG_MAX
  BY <1>1, <1>2, <1>5, <1>6
<1> QED
  BY <1>5, <1>6, <1>7 DEF m

(* Half of a sum that fits, fits.                                           *)
LEMMA HalfFits == \A x \in Int : 2 * x \in Nat /\ 2 * x <= LONG_MAX => Sum!Wrap(x) = x /\ x \in Nat
<1>1. LONG_MAX \in Nat
  BY LongsAreInts
<1> HIDE DEF LONG_MAX
<1>2. \A x \in Int : 2 * x \in Nat /\ 2 * x <= LONG_MAX => x \in 0..LONG_MAX
  BY <1>1
<1> QED
  BY <1>1, <1>2, Fits

(* One more element in a sum of the elements from b to a.                   *)
LEMMA OneMore ==
  ASSUME NEW x \in Int, NEW a \in Nat, NEW b \in Nat, NEW m \in Nat,
         b <= a, a < m, 2 * x = Twice(a) - Twice(b), Twice(m) <= LONG_MAX
  PROVE  Sum!Wrap(x + a) = x + a /\ 2 * (x + a) = Twice(a + 1) - Twice(b)
<1>1. LONG_MAX \in Nat
  BY LongsAreInts
<1> HIDE DEF LONG_MAX
<1>2. Twice(a + 1) = Twice(a) + 2 * a /\ Twice(b) <= Twice(a + 1) /\ Twice(a + 1) <= Twice(m)
  <2>1. a + 1 \in Nat /\ b <= a + 1 /\ a + 1 <= m
    OBVIOUS
  <2> QED
    BY <2>1, TwiceNext, TwiceGrows
<1>3. Twice(a) \in Nat /\ Twice(b) \in Nat /\ Twice(m) \in Nat
  BY TwiceType
<1>4. 2 * (x + a) = Twice(a + 1) - Twice(b)
  BY <1>2, <1>3
<1>5. 2 * (x + a) \in Nat /\ 2 * (x + a) <= LONG_MAX
  BY <1>1, <1>2, <1>3
<1> QED
  BY <1>4, <1>5, HalfFits

(* A sequence of sums that grows by less at each step stays below another.  *)
LEMMA Telescope ==
  ASSUME NEW N \in Nat, NEW F \in [0..N -> Int], NEW G \in [0..N -> Int], F[0] <= G[0],
         \A t \in 0..(N - 1) : F[t + 1] - F[t] <= G[t + 1] - G[t]
  PROVE  \A k \in 0..N : F[k] <= G[k]
<1> DEFINE S == {k \in 0..N : ~(F[k] <= G[k])}
           R == OpToRel(<, Nat)
<1> SUFFICES ASSUME S # {}
             PROVE  FALSE
  OBVIOUS
<1>1. IsWellFoundedOn(R, Nat)
  BY NatLessThanWellFounded
<1>2. \A x, y \in Nat : y < x => <<y, x>> \in R
  BY DEF OpToRel
<1>3. S \subseteq Nat
  OBVIOUS
<1>4. \A k \in S : k \in 0..N /\ ~(F[k] <= G[k])
  OBVIOUS
<1>5. \A k \in 0..N : k \notin S => F[k] <= G[k]
  OBVIOUS
<1> HIDE DEF R, S
<1>6. PICK m \in S : \A y \in S : ~ (<<y, m>> \in R)
  BY <1>1, <1>3, WFMin
<1>7. m \in 0..N /\ ~(F[m] <= G[m])
  BY <1>4, <1>6
<1>8. m # 0
  BY <1>7
<1> DEFINE t == m - 1
<1>9. t \in 0..(N - 1) /\ t \in 0..N /\ t \in Nat /\ m \in Nat /\ t < m /\ m = t + 1
  BY <1>7, <1>8
<1> HIDE DEF t
<1>10. t \notin S
  BY <1>2, <1>6, <1>9
<1>11. F[t] <= G[t] /\ F[t + 1] - F[t] <= G[t + 1] - G[t]
  BY <1>5, <1>9, <1>10
<1>12. F[t] \in Int /\ G[t] \in Int /\ F[t + 1] \in Int /\ G[t + 1] \in Int
  BY <1>7, <1>9
<1>13. F[t + 1] <= G[t + 1]
  BY <1>11, <1>12
<1> QED
  BY <1>7, <1>9, <1>13

(* Twice what a thread has added so far: from its V on, the element it is   *)
(* at is in.                                                                *)
Part(t) ==
  IF th[t].pc \in {"none", "start"} THEN 0
  ELSE IF th[t].pc = "V" THEN Twice(th[t].at + 1) - Twice(t * Share)
  ELSE Twice(th[t].at) - Twice(t * Share)

(* Each thread is within its share, and has been through it when it is done.*)
DealtOut ==
  \A t \in Ids : th[t].pc \notin {"none", "start"} =>
    /\ th[t].at \in Nat /\ t * Share <= th[t].at /\ th[t].at <= (t + 1) * Share
    /\ th[t].stop = (t + 1) * Share
    /\ th[t].pc = "done" => th[t].at = th[t].stop

(* Nothing is added up twice: a cell holds what its thread added, and gsum  *)
(* the sum of that.                                                         *)
CellsExact ==
  /\ prog = "array" => \A t \in Ids : 2 * psum[t] = Part(t)
  /\ prog = "local" => \A t \in Ids :
       IF th[t].pc = "done" THEN 2 * psum[t] = Part(t)
       ELSE psum[t] = 0 /\ (th[t].pc = "loop" => 2 * th[t].reg = Part(t))

IsTotal(F) ==
  /\ F \in [0..MAXTHREADS -> Int] /\ F[0] = 0
  /\ \A t \in Ids : F[t + 1] = F[t] + Part(t)

GlobalExact ==
  prog = "mutex" =>
    /\ \A t \in Ids : th[t].pc = "store" => th[t].reg = gsum
    /\ \E F : IsTotal(F) /\ F[MAXTHREADS] = 2 * gsum

ResultExact ==
  /\ main \in {"check", "create", "join"} => result = 0
  /\ main = "sum" /\ prog # "mutex" => 2 * result = Twice(idx * Share)
  /\ main = "answer" => 2 * result = Twice(Many * Share)

SumExact == Accepted => DealtOut /\ CellsExact /\ GlobalExact /\ ResultExact

SumInv == SumOrder /\ SumExact /\ Sum!VerdictIsRight

LEMMA SumInvInit == Sum!Init => SumInv
<1> SUFFICES ASSUME Sum!Init
             PROVE  SumInv
  OBVIOUS
<1>1. SumOrder
  BY SumOrderInit
<1>2. /\ \A t \in Ids : th[t].pc = "none" /\ psum[t] = 0
      /\ main = "check" /\ gsum = 0 /\ result = 0
  BY DEF Sum!Init, Ids, Sum!NoThread
<1>3. \A t \in Ids : Part(t) = 0
  BY <1>2 DEF Part
<1>4. GlobalExact
  <2> DEFINE F == [k \in 0..MAXTHREADS |-> 0]
  <2>1. MAXTHREADS \in Nat /\ Ids = 0..(MAXTHREADS - 1)
    BY LongsAreInts DEF Ids, Sum!Ids
  <2>2. \A k \in 0..MAXTHREADS : F[k] = 0
    OBVIOUS
  <2>3. F \in [0..MAXTHREADS -> Int]
    OBVIOUS
  <2> HIDE DEF F
  <2>4. F[0] = 0 /\ F[MAXTHREADS] = 2 * gsum /\ \A t \in Ids : F[t + 1] = F[t] + Part(t)
    BY <1>2, <1>3, <2>1, <2>2
  <2>5. IsTotal(F) /\ F[MAXTHREADS] = 2 * gsum
    BY <2>3, <2>4 DEF IsTotal
  <2> QED
    BY <1>2, <2>5 DEF GlobalExact
<1>5. DealtOut /\ CellsExact /\ ResultExact
  BY <1>2, <1>3 DEF DealtOut, CellsExact, ResultExact
<1>6. Sum!VerdictIsRight
  BY <1>2 DEF Sum!VerdictIsRight
<1> QED
  BY <1>1, <1>4, <1>5, <1>6 DEF SumInv, SumExact

PartsInBounds ==
  \A t \in Ids :
    /\ Part(t) \in Nat
    /\ t < Many => Part(t) <= Twice((t + 1) * Share) - Twice(t * Share)
    /\ ~(t < Many) => Part(t) = 0
    /\ th[t].pc = "done" => Part(t) = Twice((t + 1) * Share) - Twice(t * Share)

LEMMA PartBounds == SumOrder /\ Accepted /\ DealtOut => PartsInBounds
<1> SUFFICES ASSUME SumOrder, Accepted, DealtOut, NEW t \in Ids
             PROVE  /\ Part(t) \in Nat
                    /\ t < Many => Part(t) <= Twice((t + 1) * Share) - Twice(t * Share)
                    /\ ~(t < Many) => Part(t) = 0
                    /\ th[t].pc = "done" => Part(t) = Twice((t + 1) * Share) - Twice(t * Share)
  BY DEF PartsInBounds
<1>1. ThreadsInOrder /\ MutexInOrder /\ t \in Nat /\ Many \in Nat /\ (t < Many => nthreads > 0)
  BY SumTypes, CommandInts, ManyType, LongsAreInts DEF SumOrder
<1>a. nthreads > 0 => nthreads # 0
  OBVIOUS
<1>2. CASE th[t].pc = "none"
  <2>1. Part(t) = 0 /\ th[t].pc # "done"
    BY <1>2 DEF Part
  <2>2. t < Many => 0 <= Twice((t + 1) * Share) - Twice(t * Share)
    <3> SUFFICES ASSUME t < Many
                 PROVE  0 <= Twice((t + 1) * Share) - Twice(t * Share)
      OBVIOUS
    <3>1. nthreads > 0 /\ nthreads # 0 /\ t <= Many /\ t + 1 <= Many /\ t + 1 \in Nat
      BY <1>1, <1>a
    <3>2. t * Share \in Nat /\ (t + 1) * Share \in Nat /\ Share \in Nat
      BY <1>1, <3>1, Dealt, SumSizes
    <3>3. t * Share <= (t + 1) * Share
      BY <1>1, <3>2
    <3>4. Twice(t * Share) <= Twice((t + 1) * Share) /\ Twice(t * Share) \in Nat /\ Twice((t + 1) * Share) \in Nat
      BY <3>2, <3>3, TwiceGrows, TwiceType
    <3> QED
      BY <3>4
  <2> QED
    BY <2>1, <2>2
<1>3. CASE th[t].pc # "none"
  <2>1. t < Many
    BY <1>1, <1>3 DEF ThreadsInOrder
  <2>2. nthreads > 0 /\ nthreads # 0 /\ t <= Many /\ t + 1 <= Many /\ t + 1 \in Nat
    BY <1>1, <1>a, <2>1
  <2>3. t * Share \in Nat /\ (t + 1) * Share \in Nat /\ Share \in Nat
    BY <1>1, <2>2, Dealt, SumSizes
  <2> DEFINE b == t * Share
             m == (t + 1) * Share
  <2>4. b \in Nat /\ m \in Nat /\ b <= m
    BY <1>1, <2>3
  <2>5. th[t].pc \notin {"none", "start"} =>
          /\ th[t].at \in Nat /\ b <= th[t].at /\ th[t].at <= m /\ th[t].stop = m
          /\ th[t].pc = "done" => th[t].at = m
          /\ th[t].pc = "V" => th[t].at < m
    BY <1>1 DEF DealtOut, MutexInOrder, Crit
  <2>6. Part(t) = IF th[t].pc \in {"none", "start"} THEN 0
                  ELSE IF th[t].pc = "V" THEN Twice(th[t].at + 1) - Twice(b)
                  ELSE Twice(th[t].at) - Twice(b)
    BY DEF Part
  <2> HIDE DEF b, m
  <2>7. Twice(b) \in Nat /\ Twice(m) \in Nat /\ Twice(b) <= Twice(m)
    BY <2>4, TwiceGrows, TwiceType
  <2>8. Part(t) \in Nat /\ Part(t) <= Twice(m) - Twice(b) /\ (th[t].pc = "done" => Part(t) = Twice(m) - Twice(b))
    <3>1. CASE th[t].pc \in {"none", "start"}
      BY <2>6, <2>7, <3>1
    <3>2. CASE th[t].pc = "V"
      <4>1. th[t].at + 1 \in Nat /\ b <= th[t].at + 1 /\ th[t].at + 1 <= m
        BY <2>4, <2>5, <3>2
      <4>2. Twice(b) <= Twice(th[t].at + 1) /\ Twice(th[t].at + 1) <= Twice(m)
            /\ Twice(th[t].at + 1) \in Nat
        BY <2>4, <4>1, TwiceGrows, TwiceType
      <4> QED
        BY <2>6, <2>7, <3>2, <4>2
    <3>3. CASE th[t].pc \notin {"none", "start", "V"}
      <4>1. Twice(b) <= Twice(th[t].at) /\ Twice(th[t].at) <= Twice(m) /\ Twice(th[t].at) \in Nat
        BY <2>4, <2>5, <3>3, TwiceGrows, TwiceType
      <4> QED
        BY <2>5, <2>6, <2>7, <3>3, <4>1
    <3> QED
      BY <3>1, <3>2, <3>3
  <2> QED
    BY <2>1, <2>8 DEF b, m
<1> QED
  BY <1>2, <1>3

(* The total of what the threads have added fits in a long, and once they   *)
(* are done it is that of all the elements that were dealt out.             *)
Capped(k) == IF k <= Many THEN k ELSE Many

LEMMA Ceiling ==
  ASSUME SumOrder, Accepted, nthreads # 0
  PROVE  /\ \A k \in Nat : /\ Twice(Capped(k) * Share) \in Nat
                           /\ Twice(Capped(k) * Share) <= LONG_MAX
         /\ Capped(0) * Share = 0
         /\ \A t \in Nat : Capped(t + 1) = IF t < Many THEN t + 1 ELSE Many
         /\ \A t \in Nat : Capped(t) = IF t < Many THEN t ELSE Many
<1>1. Many \in Nat /\ Share \in Int
  BY SumTypes, CommandInts, ManyType, SumSizes DEF SumOrder
<1>2. \A k \in Nat : Capped(k) \in Nat /\ Capped(k) <= Many
  BY <1>1 DEF Capped
<1>3. \A k \in Nat : Twice(Capped(k) * Share) \in Nat /\ Twice(Capped(k) * Share) <= LONG_MAX
  BY <1>1, <1>2, Dealt
<1>4. Capped(0) = 0 /\ \A t \in Nat : Capped(t + 1) = IF t < Many THEN t + 1 ELSE Many
  BY <1>1 DEF Capped
<1>5. \A t \in Nat : Capped(t) = IF t < Many THEN t ELSE Many
  BY <1>1 DEF Capped
<1>6. Capped(0) * Share = 0
  BY <1>1, <1>4
<1> QED
  BY <1>3, <1>4, <1>5, <1>6

TotalsFit ==
  \A F : IsTotal(F) =>
    /\ F[MAXTHREADS] \in Nat /\ F[MAXTHREADS] <= LONG_MAX
    /\ Many <= MAXTHREADS /\ (\A t \in Ids : t < Many => th[t].pc = "done") =>
         F[MAXTHREADS] = Twice(Many * Share)

LEMMA Totals == SumOrder /\ Accepted /\ DealtOut /\ nthreads # 0 => TotalsFit
<1> SUFFICES ASSUME SumOrder, Accepted, DealtOut, nthreads # 0, NEW F, IsTotal(F)
             PROVE  /\ F[MAXTHREADS] \in Nat /\ F[MAXTHREADS] <= LONG_MAX
                    /\ Many <= MAXTHREADS /\ (\A t \in Ids : t < Many => th[t].pc = "done") =>
                         F[MAXTHREADS] = Twice(Many * Share)
  BY DEF TotalsFit
<1>1. PartsInBounds
  BY PartBounds
<1> DEFINE N == MAXTHREADS
           Z == [k \in 0..N |-> 0]
           G == [k \in 0..N |-> Twice(Capped(k) * Share)]
<1>2. Many \in Nat /\ N \in Nat /\ LONG_MAX \in Nat /\ Ids = 0..(N - 1)
  BY SumTypes, CommandInts, ManyType, LongsAreInts DEF SumOrder, Ids, Sum!Ids
<1>3. F \in [0..N -> Int] /\ F[0] = 0 /\ \A t \in 0..(N - 1) : F[t + 1] = F[t] + Part(t)
  BY <1>2 DEF IsTotal
<1>4. Z \in [0..N -> Int] /\ \A k \in 0..N : Z[k] = 0
  OBVIOUS
<1>5. \A k \in 0..N : k \in Nat
  BY <1>2
<1>6. \A k \in 0..N : G[k] = Twice(Capped(k) * Share) /\ Twice(Capped(k) * Share) \in Int
                      /\ Twice(Capped(k) * Share) <= LONG_MAX
  BY <1>5, Ceiling
<1>7. G \in [0..N -> Int]
  BY <1>6
<1> HIDE DEF Z, G, LONG_MAX
<1>8. \A t \in 0..(N - 1) : t \in 0..N /\ t + 1 \in 0..N /\ t \in Nat /\ t + 1 \in Nat
  BY <1>2
<1>9. \A t \in 0..(N - 1) : Part(t) \in Nat /\ F[t] \in Int /\ F[t + 1] = F[t] + Part(t)
  BY <1>1, <1>2, <1>3, <1>8 DEF PartsInBounds
<1>10. \A t \in 0..(N - 1) :
         G[t + 1] - G[t] = IF t < Many THEN Twice((t + 1) * Share) - Twice(t * Share) ELSE 0
  <2> SUFFICES ASSUME NEW t \in 0..(N - 1)
               PROVE  G[t + 1] - G[t] = IF t < Many THEN Twice((t + 1) * Share) - Twice(t * Share) ELSE 0
    OBVIOUS
  <2>1. G[t + 1] = Twice(Capped(t + 1) * Share) /\ G[t] = Twice(Capped(t) * Share)
        /\ Twice(Capped(t) * Share) \in Int
    BY <1>6, <1>8
  <2>2. Capped(t + 1) = (IF t < Many THEN t + 1 ELSE Many) /\ Capped(t) = IF t < Many THEN t ELSE Many
    BY <1>8, Ceiling
  <2>3. CASE t < Many
    BY <2>1, <2>2, <2>3
  <2>4. CASE ~(t < Many)
    <3> DEFINE x == Twice(Many * Share)
    <3>1. G[t + 1] = x /\ G[t] = x /\ x \in Int
      BY <2>1, <2>2, <2>4
    <3> HIDE DEF x
    <3> QED
      BY <2>4, <3>1
  <2> QED
    BY <2>3, <2>4
<1>11. F[0] = 0 /\ Z[0] = 0 /\ G[0] = 0
  <2>1. Twice(0) = 0
    BY DEF Twice
  <2>2. 0 \in 0..N
    BY <1>2
  <2> QED
    BY <1>3, <1>4, <1>6, <2>1, <2>2, Ceiling
<1>12. \A k \in 0..N : Z[k] <= F[k]
  <2>1. \A t \in 0..(N - 1) : Z[t + 1] - Z[t] <= F[t + 1] - F[t]
    BY <1>4, <1>8, <1>9
  <2>2. Z[0] <= F[0]
    BY <1>11
  <2> QED
    BY <1>2, <1>3, <1>4, <2>1, <2>2, Telescope
<1>13. \A t \in 0..(N - 1) : F[t + 1] - F[t] = Part(t) /\ Part(t) <= G[t + 1] - G[t]
  BY <1>1, <1>2, <1>9, <1>10 DEF PartsInBounds
<1>14. \A k \in 0..N : F[k] <= G[k]
  <2>1. \A t \in 0..(N - 1) : F[t + 1] - F[t] <= G[t + 1] - G[t]
    BY <1>13
  <2>2. F[0] <= G[0]
    BY <1>11
  <2> QED
    BY <1>2, <1>3, <1>7, <2>1, <2>2, Telescope
<1>15. N \in 0..N
  BY <1>2
<1>16. F[N] \in Nat /\ F[N] <= LONG_MAX
  <2>1. F[N] \in Int /\ 0 <= F[N] /\ F[N] <= G[N] /\ G[N] \in Int /\ G[N] <= LONG_MAX
    BY <1>3, <1>4, <1>6, <1>7, <1>12, <1>14, <1>15
  <2> QED
    BY <1>2, <2>1
<1>17. ASSUME Many <= N, \A t \in Ids : t < Many => th[t].pc = "done"
       PROVE  F[N] = Twice(Many * Share)
  <2>1. \A t \in 0..(N - 1) : Part(t) = G[t + 1] - G[t]
    BY <1>1, <1>2, <1>10, <1>17 DEF PartsInBounds
  <2>2. \A t \in 0..(N - 1) : G[t + 1] - G[t] <= F[t + 1] - F[t]
    BY <1>9, <1>13, <2>1
  <2>3. G[0] <= F[0]
    BY <1>11
  <2>4. \A k \in 0..N : G[k] <= F[k]
    BY <1>2, <1>3, <1>7, <2>2, <2>3, Telescope
  <2>5. G[N] <= F[N] /\ F[N] <= G[N] /\ F[N] \in Int /\ G[N] \in Int
    BY <1>3, <1>7, <1>14, <1>15, <2>4
  <2>6. Capped(N) = Many
    BY <1>2, <1>17 DEF Capped
  <2>7. G[N] = Twice(Many * Share)
    BY <1>6, <1>15, <2>6
  <2>8. F[N] = G[N]
    BY <2>5
  <2> QED
    BY <2>7, <2>8
<1> QED
  BY <1>16, <1>17

(* A step of a thread leaves what the others have added as it is, and adds  *)
(* the element it is at, or nothing, to its own part.                       *)
LEMMA DealtThread ==
  ASSUME SumOrder, Accepted, DealtOut, NEW t \in Ids, Sum!ThreadStep(t)
  PROVE  DealtOut' /\ Share' = Share
<1>1. /\ th[t].pc # "none" /\ Quiet /\ Others(t)
      /\ \/ Starts(t) \/ AddsToCell(t) \/ AddsToLocal(t) \/ Enters(t)
         \/ Loads(t) \/ Stores(t) \/ Leaves(t) \/ Completes(t)
  BY ThreadSteps
<1>2. Share' = Share
  BY <1>1, SameCommand DEF Quiet
<1>3. /\ nthreads \in Nat /\ nthreads > 0 /\ t \in Nat /\ t < nthreads /\ myid[t] = t
      /\ Many = nthreads
  BY <1>1, RunningThreads
<1>4. t <= Many /\ t + 1 <= Many /\ t + 1 \in Nat /\ nthreads # 0
  BY <1>3
<1> DEFINE b == t * Share
           m == (t + 1) * Share
<1>5. b \in Nat /\ m \in Nat /\ b <= LONG_MAX /\ m <= LONG_MAX /\ Share \in Nat
  BY <1>3, <1>4, Dealt, SumSizes
<1>6. m = b + Share
  BY <1>3, <1>5
<1>7. MutexInOrder
  BY DEF SumOrder
<1>8. th[t].pc \notin {"none", "start"} =>
        /\ th[t].at \in Nat /\ b <= th[t].at /\ th[t].at <= m /\ th[t].stop = m
        /\ th[t].pc = "V" => th[t].at < m
  BY <1>7 DEF DealtOut, MutexInOrder, Crit
<1>9. Starts(t) => Becomes(t, "loop", b, m, 0)
  <2>1. Sum!Wrap(b) = b /\ Sum!Wrap(b + Share) = m
    <3>1. LONG_MAX \in Nat
      BY LongsAreInts
    <3> HIDE DEF b, m, LONG_MAX
    <3>2. b \in 0..LONG_MAX /\ m \in 0..LONG_MAX
      BY <1>5, <3>1
    <3> QED
      BY <1>6, <3>2, Fits
  <2> QED
    BY <1>3, <2>1 DEF Starts
<1> HIDE DEF b, m
<1>10. th'[t].pc \notin {"none", "start"} =>
        /\ th'[t].at \in Nat /\ b <= th'[t].at /\ th'[t].at <= m /\ th'[t].stop = m
        /\ th'[t].pc = "done" => th'[t].at = th'[t].stop
  <2>1. CASE Starts(t)
    BY <1>5, <1>6, <1>9, <2>1 DEF Becomes
  <2>2. CASE ~Starts(t)
    BY <1>1, <1>5, <1>8, <2>2
    DEF AddsToCell, AddsToLocal, Enters, Loads, Stores, Leaves, Completes, Becomes
  <2> QED
    BY <2>1, <2>2
<1>11. DealtOut'
  <2>1. \A u \in Ids : u # t => th'[u] = th[u]
    BY <1>1 DEF Others
  <2> QED
    BY <1>2, <1>10, <2>1 DEF DealtOut, b, m
<1> QED
  BY <1>2, <1>11

Adds(t) == AddsToCell(t) \/ AddsToLocal(t) \/ Stores(t)

LEMMA PartMoves ==
  ASSUME SumOrder, Accepted, DealtOut, NEW t \in Ids, Sum!ThreadStep(t)
  PROVE  /\ \A u \in Ids : u # t => Part(u)' = Part(u)
         /\ Part(t)' = IF Adds(t) THEN Part(t) + 2 * th[t].at ELSE Part(t)
         /\ Adds(t) => th[t].at \in Nat
<1>1. /\ Others(t)
      /\ \/ Starts(t) \/ AddsToCell(t) \/ AddsToLocal(t) \/ Enters(t)
         \/ Loads(t) \/ Stores(t) \/ Leaves(t) \/ Completes(t)
  BY ThreadSteps
<1>2. DealtOut' /\ Share' = Share
  BY DealtThread
<1>3. \A u \in Ids : u # t => Part(u)' = Part(u)
  <2>1. \A u \in Ids : u # t => th'[u] = th[u]
    BY <1>1 DEF Others
  <2> QED
    BY <1>2, <2>1 DEF Part
<1> DEFINE b == Twice(t * Share)
<1>4. /\ Part(t) = IF th[t].pc \in {"none", "start"} THEN 0
                   ELSE IF th[t].pc = "V" THEN Twice(th[t].at + 1) - b ELSE Twice(th[t].at) - b
      /\ Part(t)' = IF th'[t].pc \in {"none", "start"} THEN 0
                    ELSE IF th'[t].pc = "V" THEN Twice(th'[t].at + 1) - b ELSE Twice(th'[t].at) - b
  BY <1>2 DEF Part
<1>5. t * Share \in Nat
  <2>1. th[t].pc # "none"
    BY ThreadSteps
  <2>2. nthreads # 0 /\ t \in Nat /\ t <= Many
    BY <2>1, RunningThreads
  <2> QED
    BY <2>2, Dealt
<1>6. b \in Nat
  BY <1>5, TwiceType
<1>7. th[t].pc \notin {"none", "start"} => th[t].at \in Nat
  BY DEF DealtOut
<1>8. \A a \in Nat : Twice(a + 1) = Twice(a) + 2 * a /\ Twice(a) \in Nat
  BY TwiceNext, TwiceType
<1>9. CASE Starts(t)
  <2>1. th'[t].pc = "loop" /\ th'[t].at = t * Share /\ th[t].pc = "start"
    <3>1. th[t].pc # "none"
      BY ThreadSteps
    <3>2. nthreads # 0 /\ t \in Nat /\ t <= Many /\ myid[t] = t
      BY <3>1, RunningThreads
    <3>3. LONG_MAX \in Nat /\ t * Share \in Nat /\ t * Share <= LONG_MAX
      BY <3>2, Dealt, LongsAreInts
    <3> HIDE DEF LONG_MAX
    <3>4. t * Share \in 0..LONG_MAX
      BY <3>3
    <3>5. Sum!Wrap(t * Share) = t * Share
      BY <3>4, Fits
    <3> QED
      BY <1>9, <3>2, <3>5 DEF Starts, Becomes
  <2>2. Part(t)' = b - b /\ Part(t) = 0
    BY <1>4, <2>1
  <2>3. ~Adds(t)
    BY <2>1 DEF Adds, AddsToCell, AddsToLocal, Stores
  <2> HIDE DEF b
  <2> QED
    BY <1>3, <1>6, <2>2, <2>3
<1>10. CASE AddsToCell(t) \/ AddsToLocal(t)
  <2>1. th[t].pc = "loop" /\ th'[t].pc = "loop" /\ th'[t].at = th[t].at + 1
    BY <1>10 DEF AddsToCell, AddsToLocal, Becomes
  <2> HIDE DEF b
  <2>2. Part(t)' = Twice(th[t].at + 1) - b /\ Part(t) = Twice(th[t].at) - b /\ th[t].at \in Nat
    BY <1>4, <1>7, <2>1
  <2>3. Part(t)' = Part(t) + 2 * th[t].at
    BY <1>6, <1>8, <2>2
  <2> QED
    BY <1>3, <1>10, <2>2, <2>3 DEF Adds
<1>11. CASE Stores(t)
  <2>1. th[t].pc = "store" /\ th'[t].pc = "V" /\ th'[t].at = th[t].at
    BY <1>11 DEF Stores, Becomes
  <2> HIDE DEF b
  <2>2. Part(t)' = Twice(th[t].at + 1) - b /\ Part(t) = Twice(th[t].at) - b /\ th[t].at \in Nat
    BY <1>4, <1>7, <2>1
  <2>3. Part(t)' = Part(t) + 2 * th[t].at
    BY <1>6, <1>8, <2>2
  <2> QED
    BY <1>3, <1>11, <2>2, <2>3 DEF Adds
<1>12. CASE Enters(t) \/ Loads(t) \/ Leaves(t) \/ Completes(t)
  <2>1. ~Adds(t)
    BY <1>12 DEF Adds, Enters, Loads, Leaves, Completes, AddsToCell, AddsToLocal, Stores, Becomes
  <2> HIDE DEF b
  <2>2. Part(t)' = Part(t)
    BY <1>4, <1>12 DEF Enters, Loads, Leaves, Completes, Becomes
  <2> QED
    BY <1>3, <2>1, <2>2
<1> QED
  BY <1>1, <1>9, <1>10, <1>11, <1>12

LEMMA CellsThread ==
  ASSUME SumOrder, Accepted, DealtOut, CellsExact, NEW t \in Ids, Sum!ThreadStep(t)
  PROVE  CellsExact'
<1>1. /\ th[t].pc # "none" /\ Quiet /\ Others(t)
      /\ \/ Starts(t) \/ AddsToCell(t) \/ AddsToLocal(t) \/ Enters(t)
         \/ Loads(t) \/ Stores(t) \/ Leaves(t) \/ Completes(t)
  BY ThreadSteps
<1>2. /\ \A u \in Ids : u # t => Part(u)' = Part(u) /\ th'[u] = th[u]
      /\ Part(t)' = IF Adds(t) THEN Part(t) + 2 * th[t].at ELSE Part(t)
  BY <1>1, PartMoves DEF Others
<1>3. SharedTypes /\ Cells /\ MutexInOrder
  BY SumTypes DEF SumOrder
<1>4. /\ nthreads # 0 /\ t \in Nat /\ t + 1 \in Nat /\ t <= Many /\ t + 1 <= Many /\ myid[t] = t
  <2>1. nthreads \in Nat /\ nthreads > 0 /\ t \in Nat /\ t < nthreads /\ myid[t] = t
        /\ Many = nthreads
    BY <1>1, RunningThreads
  <2> QED
    BY <2>1
<1>5. th[t].pc = "loop" /\ th[t].at < th[t].stop => \A x \in Int :
        2 * x = Part(t) => Sum!Wrap(x + th[t].at) = x + th[t].at
  <2> SUFFICES ASSUME th[t].pc = "loop", th[t].at < th[t].stop, NEW x \in Int, 2 * x = Part(t)
               PROVE  Sum!Wrap(x + th[t].at) = x + th[t].at
    OBVIOUS
  <2> DEFINE b == t * Share
             m == (t + 1) * Share
  <2>1. th[t].at \in Nat /\ b <= th[t].at /\ th[t].at < m /\ Part(t) = Twice(th[t].at) - Twice(b)
    BY DEF DealtOut, Part
  <2>2. b \in Nat /\ m \in Nat /\ Twice(m) <= LONG_MAX
    <3> QED
      BY <1>4, Dealt
  <2> HIDE DEF b, m
  <2> QED
    BY <2>1, <2>2, OneMore
<1>6. psum[t] \in Int /\ th[t].reg \in Int
  <2>1. psum[t] \in Longs /\ th[t].reg \in Longs
    BY <1>3 DEF SharedTypes, Cells
  <2> QED
    BY <2>1, LongsAreInts
<1>7. psum' = psum \/ /\ psum' = [psum EXCEPT ![t] = psum'[t]]
                      /\ \A u \in Ids : u # t => psum'[u] = psum[u]
  BY <1>1, <1>3, <1>4
  DEF Starts, AddsToCell, AddsToLocal, Enters, Loads, Stores, Leaves, Completes, SharedTypes
<1>8. \A u \in Ids : u # t => psum'[u] = psum[u]
  BY <1>7
<1>9. CASE prog = "array"
  <2>1. 2 * psum[t] = Part(t)
    BY <1>9 DEF CellsExact
  <2>2. 2 * psum'[t] = Part(t)'
    <3>1. CASE AddsToCell(t)
      <4>1. psum'[t] = Sum!Wrap(psum[t] + th[t].at) /\ th[t].pc = "loop" /\ th[t].at < th[t].stop
        BY <1>3, <1>4, <3>1 DEF AddsToCell, SharedTypes
      <4>2. psum'[t] = psum[t] + th[t].at
        BY <1>5, <1>6, <2>1, <4>1
      <4>3. Part(t)' = Part(t) + 2 * th[t].at /\ th[t].at \in Nat
        BY <1>2, <3>1, PartMoves DEF Adds
      <4> QED
        BY <1>6, <2>1, <4>2, <4>3
    <3>2. CASE ~AddsToCell(t)
      <4>1. ~AddsToLocal(t) /\ ~Stores(t)
        BY <1>3, <1>9 DEF AddsToLocal, Stores, MutexInOrder, Crit
      <4>2. psum' = psum
        BY <1>1, <1>9, <3>2, <4>1 DEF Starts, Enters, Loads, Leaves, Completes
      <4> QED
        BY <1>2, <2>1, <3>2, <4>1, <4>2 DEF Adds
    <3> QED
      BY <3>1, <3>2
  <2>3. \A u \in Ids : u # t => 2 * psum'[u] = Part(u)'
    BY <1>2, <1>8, <1>9 DEF CellsExact
  <2> QED
    BY <1>1, <1>9, <2>2, <2>3 DEF CellsExact, Quiet
<1>10. CASE prog = "local"
  <2>1. /\ th[t].pc # "done" => psum[t] = 0
        /\ th[t].pc = "loop" => 2 * th[t].reg = Part(t)
    BY <1>10 DEF CellsExact
  <2>2. th[t].pc \notin Crit
    BY <1>3, <1>10 DEF MutexInOrder
  <2>3. IF th'[t].pc = "done" THEN 2 * psum'[t] = Part(t)'
        ELSE psum'[t] = 0 /\ (th'[t].pc = "loop" => 2 * th'[t].reg = Part(t)')
    <3>1. CASE AddsToLocal(t)
      <4>1. /\ th'[t].reg = Sum!Wrap(th[t].reg + th[t].at) /\ th[t].pc = "loop"
            /\ th'[t].pc = "loop" /\ psum'[t] = psum[t] /\ th[t].at < th[t].stop
        BY <3>1 DEF AddsToLocal, Becomes
      <4>2. th'[t].reg = th[t].reg + th[t].at
        BY <1>5, <1>6, <2>1, <4>1
      <4>3. Part(t)' = Part(t) + 2 * th[t].at /\ th[t].at \in Nat
        BY <1>2, <3>1, PartMoves DEF Adds
      <4>4. 2 * th'[t].reg = Part(t)'
        BY <1>6, <2>1, <4>1, <4>2, <4>3
      <4> QED
        BY <2>1, <4>1, <4>4
    <3>2. CASE Starts(t)
      <4>1. /\ th[t].pc = "start" /\ th'[t].pc = "loop" /\ th'[t].reg = 0 /\ psum'[t] = psum[t]
        BY <3>2 DEF Starts, Becomes
      <4>2. Part(t)' = 0
        BY <1>2, <4>1 DEF Adds, AddsToCell, AddsToLocal, Stores, Part
      <4> QED
        BY <2>1, <4>1, <4>2
    <3>3. CASE Completes(t)
      <4>1. /\ th[t].pc = "loop" /\ th'[t].pc = "done" /\ psum'[t] = th[t].reg
        BY <1>3, <1>4, <1>10, <3>3 DEF Completes, Becomes, SharedTypes
      <4>2. Part(t)' = Part(t)
        BY <1>2, <1>10, <3>3, <4>1 DEF Adds, AddsToCell, AddsToLocal, Stores, Completes, Becomes
      <4> QED
        BY <2>1, <4>1, <4>2
    <3>4. ~(AddsToCell(t) \/ Enters(t) \/ Loads(t) \/ Stores(t) \/ Leaves(t))
      BY <1>10, <2>2 DEF AddsToCell, Enters, Loads, Stores, Leaves, Crit
    <3> QED
      BY <1>1, <3>1, <3>2, <3>3, <3>4
  <2>4. \A u \in Ids : u # t =>
          IF th'[u].pc = "done" THEN 2 * psum'[u] = Part(u)'
          ELSE psum'[u] = 0 /\ (th'[u].pc = "loop" => 2 * th'[u].reg = Part(u)')
    BY <1>2, <1>8, <1>10 DEF CellsExact
  <2> QED
    BY <1>1, <1>10, <2>3, <2>4 DEF CellsExact, Quiet
<1>11. CASE prog \notin {"array", "local"}
  BY <1>1, <1>11 DEF CellsExact, Quiet
<1> QED
  BY <1>9, <1>10, <1>11

LEMMA GlobalThread ==
  ASSUME SumOrder, Accepted, DealtOut, GlobalExact, NEW t \in Ids, Sum!ThreadStep(t)
  PROVE  GlobalExact'
<1> SUFFICES ASSUME prog' = "mutex"
             PROVE  GlobalExact'
  BY DEF GlobalExact
<1>1. /\ th[t].pc # "none" /\ Quiet /\ Others(t)
      /\ \/ Starts(t) \/ AddsToCell(t) \/ AddsToLocal(t) \/ Enters(t)
         \/ Loads(t) \/ Stores(t) \/ Leaves(t) \/ Completes(t)
  BY ThreadSteps
<1>2. prog = "mutex" /\ ~AddsToCell(t) /\ ~AddsToLocal(t)
  BY <1>1 DEF Quiet, AddsToCell, AddsToLocal
<1>3. /\ \A u \in Ids : u # t => Part(u)' = Part(u) /\ th'[u] = th[u]
      /\ Part(t)' = IF Stores(t) THEN Part(t) + 2 * th[t].at ELSE Part(t)
  BY <1>1, <1>2, PartMoves DEF Others, Adds
<1>4. /\ \A u \in Ids : th[u].pc = "store" => th[u].reg = gsum
      /\ \E F : IsTotal(F) /\ F[MAXTHREADS] = 2 * gsum
  BY <1>2 DEF GlobalExact
<1>5. PICK F : IsTotal(F) /\ F[MAXTHREADS] = 2 * gsum
  BY <1>4
<1>6. CASE ~Stores(t)
  <2>1. UNCHANGED gsum /\ (th'[t].pc = "store" => th'[t].reg = gsum)
    BY <1>1, <1>2, <1>6 DEF Starts, Enters, Loads, Leaves, Completes, Becomes
  <2>2. \A u \in Ids : Part(u)' = Part(u)
    BY <1>3, <1>6
  <2>3. IsTotal(F)'
    BY <1>5, <2>2 DEF IsTotal
  <2>4. \A u \in Ids : th'[u].pc = "store" => th'[u].reg = gsum'
    BY <1>3, <1>4, <2>1
  <2> QED
    BY <1>5, <2>1, <2>3, <2>4 DEF GlobalExact
<1>7. CASE Stores(t)
  <2>0. PICK a : a = th[t].at
    OBVIOUS
  <2>1. /\ th[t].pc = "store" /\ th'[t].pc = "V" /\ th[t].reg = gsum
        /\ gsum' = Sum!Wrap(gsum + a)
    BY <1>4, <1>7, <2>0 DEF Stores, Becomes
  <2>2. a \in Nat /\ MAXTHREADS \in Nat /\ Ids = 0..(MAXTHREADS - 1) /\ gsum \in Int
    <3>1. gsum \in Longs
      BY SumTypes DEF SumOrder, SharedTypes
    <3>2. a \in Nat
      BY <1>7, <2>0, PartMoves DEF Adds
    <3> QED
      BY <3>1, <3>2, LongsAreInts DEF Ids, Sum!Ids
  <2>3. Part(t)' = Part(t) + 2 * a
    BY <1>3, <1>7, <2>0
  <2>a. PICK H : H = [k \in 0..MAXTHREADS |-> IF k > t THEN F[k] + 2 * a ELSE F[k]]
    OBVIOUS
  <2>4. /\ F \in [0..MAXTHREADS -> Int] /\ F[0] = 0
        /\ \A u \in Ids : F[u + 1] = F[u] + Part(u)
    BY <1>5 DEF IsTotal
  <2>5. /\ \A u \in Ids : u \in 0..MAXTHREADS /\ u + 1 \in 0..MAXTHREADS /\ u \in Nat
        /\ 0 \in 0..MAXTHREADS /\ MAXTHREADS \in 0..MAXTHREADS /\ MAXTHREADS > t /\ ~(0 > t)
    BY <2>2
  <2>6. \A k \in 0..MAXTHREADS : H[k] = IF k > t THEN F[k] + 2 * a ELSE F[k]
    BY <2>a
  <2>7. H \in [0..MAXTHREADS -> Int]
    BY <2>2, <2>4, <2>a
  <2>8. H[0] = 0 /\ H[MAXTHREADS] = 2 * gsum + 2 * a
    BY <1>5, <2>4, <2>5, <2>6
  <2>9. ASSUME NEW u \in Ids
        PROVE  H[u + 1] = H[u] + Part(u)'
    <3>1. u \in Nat /\ t \in Nat /\ F[u + 1] = F[u] + Part(u)
          /\ F[u] \in Int /\ F[u + 1] \in Int
      BY <2>4, <2>5
    <3>2. Part(u) \in Nat
      BY PartBounds DEF PartsInBounds
    <3>3. CASE u < t
      <4>1. H[u + 1] = F[u + 1] /\ H[u] = F[u] /\ u # t
        BY <2>5, <2>6, <3>1, <3>3
      <4>2. Part(u)' = Part(u)
        BY <1>3, <4>1
      <4> QED
        BY <3>1, <4>1, <4>2
    <3>4. CASE u = t
      <4>1. H[u + 1] = F[u + 1] + 2 * a /\ H[u] = F[u]
        BY <2>5, <2>6, <3>1, <3>4
      <4>2. Part(u)' = Part(u) + 2 * a
        BY <2>3, <3>4
      <4> QED
        BY <2>2, <3>1, <3>2, <4>1, <4>2
    <3>5. CASE u > t
      <4>1. H[u + 1] = F[u + 1] + 2 * a /\ H[u] = F[u] + 2 * a /\ u # t
        BY <2>5, <2>6, <3>1, <3>5
      <4>2. Part(u)' = Part(u)
        BY <1>3, <4>1
      <4> QED
        BY <2>2, <3>1, <3>2, <4>1, <4>2
    <3> QED
      BY <3>1, <3>3, <3>4, <3>5
  <2>10. IsTotal(H)'
    <3>1. \A u \in Ids : H[u + 1] = H[u] + Part(u)'
      BY <2>9
    <3> QED
      BY <2>7, <2>8, <3>1 DEF IsTotal
  <2>11. TotalsFit'
    <3>1. SumOrder' /\ Accepted' /\ DealtOut'
      BY <1>1, SumOrderThread, DealtThread DEF Accepted, Quiet
    <3>2. (nthreads # 0)'
      BY <1>1, RunningThreads DEF Quiet
    <3>3. (SumOrder /\ Accepted /\ DealtOut /\ nthreads # 0 => TotalsFit)'
      BY Totals, PTL
    <3> QED
      BY <3>1, <3>2, <3>3
  <2>12. H[MAXTHREADS] \in Nat /\ H[MAXTHREADS] <= LONG_MAX
    BY <2>10, <2>11 DEF TotalsFit
  <2>13. gsum' = gsum + a
    <3> DEFINE x == gsum + a
    <3>1. x \in Int /\ 2 * x = H[MAXTHREADS]
      BY <2>2, <2>8
    <3> HIDE DEF x
    <3>2. Sum!Wrap(x) = x
      BY <2>12, <3>1, HalfFits
    <3> QED
      BY <2>1, <3>2 DEF x
  <2>14. H[MAXTHREADS] = 2 * gsum'
    BY <2>2, <2>8, <2>13
  <2>15. \A u \in Ids : th'[u].pc # "store"
    <3>1. \A u \in Ids : u # t => th[u].pc # "store"
      BY <2>1 DEF SumOrder, MutexInOrder, Crit
    <3> QED
      BY <1>3, <2>1, <3>1
  <2> QED
    BY <2>10, <2>14, <2>15 DEF GlobalExact
<1> QED
  BY <1>6, <1>7

LEMMA SumInvThread ==
  ASSUME SumInv, NEW t \in Ids, Sum!ThreadStep(t)
  PROVE  SumInv'
<1>1. SumOrder /\ SumExact /\ Sum!VerdictIsRight
  BY DEF SumInv
<1>2. Quiet /\ main # "exited"
  BY <1>1, ThreadSteps
<1>3. Share' = Share /\ Many' = Many
  BY <1>2, SameCommand DEF Quiet
<1>4. SumOrder'
  BY <1>1, SumOrderThread
<1>5. Sum!VerdictIsRight'
  BY <1>2 DEF Sum!VerdictIsRight, Quiet
<1>6. SumExact'
  <2> SUFFICES ASSUME Accepted'
               PROVE  SumExact'
    BY DEF SumExact
  <2>1. Accepted
    BY <1>2 DEF Accepted, Quiet
  <2>2. DealtOut /\ CellsExact /\ GlobalExact /\ ResultExact
    BY <1>1, <2>1 DEF SumExact
  <2>3. ResultExact'
    BY <1>2, <1>3, <2>2 DEF ResultExact, Quiet
  <2> QED
    BY <1>1, <2>1, <2>2, <2>3, DealtThread, CellsThread, GlobalThread DEF SumExact
<1> QED
  BY <1>4, <1>5, <1>6 DEF SumInv

(* A step of main adds nothing to the parts of the threads: it creates some.*)
LEMMA PartsMain ==
  ASSUME SumOrder, Sum!MainStep
  PROVE  /\ UNCHANGED <<prog, nthreads, log_nelems, gsum, psum, Share, Many>>
         /\ \A u \in Ids : \/ th'[u] = th[u]
                           \/ th[u].pc = "none" /\ th'[u].pc = "start"
         /\ \A u \in Ids : Part(u)' = Part(u)
<1>1. UNCHANGED <<prog, nthreads, log_nelems, gsum, psum>>
  BY DEF Sum!MainStep, Sum!Check, Sum!Create, Sum!Join, Sum!AddUp, Sum!Answer, Sum!command
<1>2. Share' = Share /\ Many' = Many
  BY <1>1, SameCommand
<1>3. \A u \in Ids : th'[u] = th[u] \/ (th[u].pc = "none" /\ th'[u].pc = "start")
  <2>1. CASE ~UNCHANGED th
    <3>1. /\ main = "create" /\ idx # MAXTHREADS
          /\ th' = [th EXCEPT ![idx].pc = "start"]
      BY <2>1 DEF Sum!MainStep, Sum!Check, Sum!Create, Sum!Join, Sum!AddUp, Sum!Answer
    <3>2. Cells /\ PlaceTypes /\ ThreadsInOrder
      BY SumTypes DEF SumOrder
    <3>3. idx \in Ids /\ idx >= idx
      BY <3>1, <3>2, LongsAreInts DEF PlaceTypes, Ids, Sum!Ids
    <3>4. th[idx].pc = "none"
      BY <3>1, <3>2, <3>3 DEF ThreadsInOrder
    <3> QED
      BY <3>1, <3>2, <3>3, <3>4 DEF Cells
  <2> QED
    BY <2>1
<1>4. \A u \in Ids : Part(u)' = Part(u)
  BY <1>2, <1>3 DEF Part
<1> QED
  BY <1>1, <1>2, <1>3, <1>4

LEMMA SharesMain ==
  ASSUME SumOrder, DealtOut, CellsExact, GlobalExact, Sum!MainStep
  PROVE  DealtOut' /\ CellsExact' /\ GlobalExact'
<1>1. /\ UNCHANGED <<prog, nthreads, log_nelems, gsum, psum, Share>>
      /\ \A u \in Ids : \/ th'[u] = th[u]
                        \/ th[u].pc = "none" /\ th'[u].pc = "start"
      /\ \A u \in Ids : Part(u)' = Part(u)
  BY PartsMain
<1>2. DealtOut'
  BY <1>1 DEF DealtOut
<1>3. CellsExact'
  BY <1>1 DEF CellsExact
<1>4. GlobalExact'
  <2> SUFFICES ASSUME prog = "mutex"
               PROVE  GlobalExact'
    BY <1>1 DEF GlobalExact
  <2>1. PICK F : IsTotal(F) /\ F[MAXTHREADS] = 2 * gsum
    BY DEF GlobalExact
  <2>2. IsTotal(F)'
    BY <1>1, <2>1 DEF IsTotal
  <2>3. \A u \in Ids : th'[u].pc = "store" => th'[u].reg = gsum'
    BY <1>1 DEF GlobalExact
  <2> QED
    BY <1>1, <2>1, <2>2, <2>3 DEF GlobalExact
<1> QED
  BY <1>2, <1>3, <1>4

LEMMA ResultMain ==
  ASSUME SumOrder, Accepted, DealtOut, CellsExact, GlobalExact, ResultExact, Sum!MainStep
  PROVE  ResultExact'
<1>1. UNCHANGED <<prog, nthreads, log_nelems, gsum, psum, Share, Many>>
  BY PartsMain
<1>2. CommandTypes /\ PlaceTypes /\ SharedTypes /\ MainInOrder /\ ThreadsInOrder
  BY SumTypes DEF SumOrder
<1>3. Twice(0) = 0
  BY DEF Twice
<1>4. /\ Many \in Nat /\ idx \in 0..MAXTHREADS /\ MAXTHREADS \in Nat /\ idx \in Nat /\ idx <= Many
      /\ (idx >= nthreads <=> idx >= Many)
  <2>1. nthreads \in Int /\ idx \in 0..MAXTHREADS /\ MAXTHREADS \in Nat /\ idx <= Many
    BY <1>2, CommandInts, LongsAreInts DEF PlaceTypes, MainInOrder
  <2>2. idx \in Nat
    BY <2>1
  <2> QED
    BY <2>1, <2>2, ManyType
<1>5. CASE Sum!Check \/ Sum!Create
  <2>1. main \in {"check", "create"} /\ UNCHANGED result
        /\ main' \in {"create", "exited", "died", "join", "overrun"}
    BY <1>5 DEF Sum!Check, Sum!Create
  <2>2. result = 0
    BY <2>1 DEF ResultExact
  <2> QED
    BY <2>1, <2>2 DEF ResultExact
<1>6. CASE Sum!Join
  <2>1. main = "join" /\ UNCHANGED result /\ result = 0 /\ main' \in {"join", "sum"}
        /\ (main' = "sum" => idx' = 0)
    BY <1>6 DEF Sum!Join, ResultExact
  <2>2. 0 * Share = 0
    <3>1. nthreads # 0
      BY <1>2, <2>1 DEF MainInOrder
    <3>2. Share \in Int
      BY <3>1, SumSizes
    <3> QED
      BY <3>2
  <2>3. main' = "sum" => 2 * result' = Twice(idx' * Share)
    BY <1>3, <2>1, <2>2
  <2> QED
    BY <1>1, <2>1, <2>3 DEF ResultExact
<1>7. CASE Sum!AddUp
  <2>1. /\ main = "sum" /\ nthreads # 0 /\ Many <= MAXTHREADS
        /\ \A t \in Ids : t < Many => th[t].pc = "done"
    BY <1>2, <1>7 DEF Sum!AddUp, MainInOrder, ThreadsInOrder
  <2>2. CASE prog = "mutex"
    <3>1. result' = gsum /\ main' = "answer"
      BY <1>7, <2>2 DEF Sum!AddUp
    <3>2. PICK F : IsTotal(F) /\ F[MAXTHREADS] = 2 * gsum
      BY <2>2 DEF GlobalExact
    <3>3. F[MAXTHREADS] = Twice(Many * Share)
      BY <2>1, <3>2, Totals DEF TotalsFit
    <3>4. 2 * result' = Twice(Many * Share)
      BY <3>1, <3>2, <3>3
    <3> QED
      BY <1>1, <3>1, <3>4 DEF ResultExact
  <2>3. CASE prog # "mutex" /\ idx >= nthreads
    <3>0. idx = Many
      BY <1>4, <2>3
    <3>1. UNCHANGED result /\ main' = "answer" /\ 2 * result = Twice(Many * Share)
      BY <1>7, <2>1, <2>3, <3>0 DEF Sum!AddUp, ResultExact
    <3> QED
      BY <1>1, <3>1 DEF ResultExact
  <2>4. CASE prog # "mutex" /\ ~(idx >= nthreads)
    <3>1. /\ result' = Sum!Wrap(result + psum[idx]) /\ idx' = idx + 1 /\ main' = "sum"
          /\ 2 * result = Twice(idx * Share)
      BY <1>7, <2>1, <2>4 DEF Sum!AddUp, ResultExact
    <3>2. idx \in Ids /\ idx < Many /\ idx + 1 <= Many /\ idx + 1 \in Nat
      BY <1>4, <2>1, <2>4, LongsAreInts DEF Ids, Sum!Ids
    <3>3. th[idx].pc = "done"
      BY <2>1, <3>2
    <3>4. 2 * psum[idx] = Part(idx)
      BY <1>2, <2>4, <3>2, <3>3 DEF CellsExact, CommandTypes
    <3>5. Part(idx) = Twice((idx + 1) * Share) - Twice(idx * Share)
      BY <3>2, <3>3, PartBounds DEF PartsInBounds
    <3>6. psum[idx] \in Int /\ result \in Int
      BY <1>2, <3>2, LongsAreInts DEF SharedTypes, PlaceTypes
    <3>7. /\ Twice((idx + 1) * Share) \in Nat /\ Twice((idx + 1) * Share) <= LONG_MAX
          /\ Twice(idx * Share) \in Nat
      BY <1>4, <2>1, <3>2, Dealt
    <3>8. 2 * (result + psum[idx]) = Twice((idx + 1) * Share)
      BY <3>1, <3>4, <3>5, <3>6, <3>7
    <3> DEFINE x == result + psum[idx]
    <3>9. x \in Int
      BY <3>6
    <3> HIDE DEF x
    <3>10. Sum!Wrap(x) = x
      BY <3>7, <3>8, <3>9, HalfFits DEF x
    <3>11. 2 * result' = Twice(idx' * Share)
      BY <3>1, <3>8, <3>10 DEF x
    <3> QED
      BY <1>1, <3>1, <3>11 DEF ResultExact
  <2> QED
    BY <2>2, <2>3, <2>4
<1>8. CASE Sum!Answer
  BY <1>8 DEF Sum!Answer, ResultExact
<1> QED
  BY <1>5, <1>6, <1>7, <1>8 DEF Sum!MainStep

(* What is printed: only psum-mutex.c accepts a number of threads that does *)
(* not divide that of the elements, and a negative number of them sums      *)
(* nothing: an error can be printed in these two cases only.                *)
LEMMA VerdictMain ==
  ASSUME SumOrder, Accepted => ResultExact, Sum!VerdictIsRight, Sum!MainStep
  PROVE  Sum!VerdictIsRight'
<1>1. UNCHANGED <<prog, nthreads, log_nelems, Share, Many>>
  BY PartsMain
<1>2. CommandTypes /\ PlaceTypes /\ MainInOrder
  BY SumTypes DEF SumOrder
<1>3. CASE Sum!Answer
  <2>1. /\ main = "answer" /\ main' = "exited" /\ UNCHANGED result /\ says = "nothing"
        /\ says' = IF result # Sum!Expected THEN "error" ELSE says
        /\ nthreads # 0 /\ (prog # "mutex" => ~Sum!Invalid)
    BY <1>2, <1>3 DEF Sum!Answer, MainInOrder
  <2>2. CASE Accepted
    <3>0. nthreads \in Int
      BY <1>2, CommandInts
    <3>1. /\ Sum!nelems = 2^log_nelems /\ Sum!nelems \in Nat /\ Sum!nelems > 0
          /\ Twice(Sum!nelems) <= LONG_MAX /\ Many * Share \in Nat /\ Share \in Int
          /\ ~Sum!Invalid /\ nthreads > 0 => Many * Share = Sum!nelems
      BY <2>1, <2>2, SumSizes
    <3>2. result \in Int /\ 2 * result = Twice(Many * Share)
      BY <1>2, <2>1, <2>2, LongsAreInts DEF ResultExact, PlaceTypes
    <3>a. Sum!Dealt = Many * Share
      BY <3>1 DEF Sum!Dealt, Share, Many
    <3>3. Sum!SumBelow(Sum!Dealt) = result
      BY <3>1, <3>2, <3>a, TwiceHalved
    <3>4. Sum!Expected = Sum!SumBelow(Sum!nelems)
      <4> DEFINE e == Sum!nelems * (Sum!nelems - 1)
      <4>1. e \in Nat /\ e <= LONG_MAX
        BY <3>1, TwiceType DEF Twice
      <4>2. LONG_MAX \in Nat
        BY LongsAreInts
      <4>3. Sum!Expected = Sum!Div(Sum!Wrap(e), 2) /\ Sum!SumBelow(Sum!nelems) = e \div 2
        BY DEF Sum!Expected, Sum!SumBelow
      <4> HIDE DEF e, LONG_MAX
      <4>4. Sum!Wrap(e) = e
        <5>1. e \in 0..LONG_MAX
          BY <4>1, <4>2
        <5> QED
          BY <5>1, Fits
      <4> QED
        BY <4>1, <4>3, <4>4 DEF Sum!Div, Sum!Abs
    <3>5. Sum!SumBelow(2^log_nelems) = Sum!Expected
      BY <3>1, <3>4
    <3>6. prog # "mutex" /\ nthreads > 0 => result = Sum!Expected
      BY <2>1, <3>1, <3>3, <3>4, <3>a
    <3>7. Sum!SumBelow(Sum!Dealt)' = Sum!SumBelow(Sum!Dealt)
          /\ Sum!SumBelow(2^log_nelems)' = Sum!SumBelow(2^log_nelems)
      BY <1>1 DEF Sum!SumBelow, Sum!Dealt, Share
    <3>8. (says' = "error") <=> result # Sum!Expected
      BY <2>1
    <3>9. result' = Sum!SumBelow(Sum!Dealt)'
      BY <2>1, <3>3, <3>7
    <3>10. (says' = "error") <=> result' # Sum!SumBelow(2^log_nelems)'
      BY <2>1, <3>5, <3>7, <3>8
    <3>11. says' = "error" => prog' = "mutex" \/ nthreads' < 0
      BY <1>1, <2>1, <3>0, <3>6, <3>8
    <3> QED
      BY <3>9, <3>10, <3>11 DEF Sum!VerdictIsRight
  <2>3. CASE ~Accepted
    <3>1. ~Accepted'
      BY <1>1, <2>3 DEF Accepted
    <3> QED
      BY <3>1 DEF Accepted, Sum!VerdictIsRight
  <2> QED
    BY <2>2, <2>3
<1>4. CASE Sum!Check \/ Sum!Create \/ Sum!Join \/ Sum!AddUp
  <2>1. main' = "exited" => says' = "invalid"
    BY <1>4 DEF Sum!Check, Sum!Create, Sum!Join, Sum!AddUp
  <2> QED
    BY <2>1 DEF Sum!VerdictIsRight
<1> QED
  BY <1>3, <1>4 DEF Sum!MainStep

LEMMA SumInvStep == SumInv /\ [Sum!Next]_(Sum!vars) => SumInv'
<1> SUFFICES ASSUME SumInv, [Sum!Next]_(Sum!vars)
             PROVE  SumInv'
  OBVIOUS
<1>1. SumOrder /\ SumExact /\ Sum!VerdictIsRight
  BY DEF SumInv
<1>2. SumOrder'
  BY <1>1, SumOrderStep
<1>3. CASE Sum!MainStep
  <2>1. Accepted' <=> Accepted
    BY <1>1, <1>3, PartsMain DEF Accepted
  <2>2. Sum!VerdictIsRight'
    BY <1>1, <1>3, VerdictMain DEF SumExact
  <2>3. SumExact'
    BY <1>1, <1>3, <2>1, SharesMain, ResultMain DEF SumExact
  <2> QED
    BY <1>2, <2>2, <2>3 DEF SumInv
<1>4. ASSUME NEW t \in Sum!Ids, Sum!ThreadStep(t)
      PROVE  SumInv'
  BY <1>4, SumInvThread DEF Ids
<1>5. CASE UNCHANGED Sum!vars
  <2>1. UNCHANGED <<prog, nthreads, log_nelems, main, idx, myid, gsum, psemaphore, psum,
                    th, result, says>>
    BY <1>5 DEF Sum!vars, Sum!command
  <2>2. Share' = Share /\ Many' = Many
    BY <2>1, SameCommand
  <2>3. \A u \in Ids : Part(u)' = Part(u)
    BY <2>1, <2>2 DEF Part
  <2>4. Sum!VerdictIsRight'
    BY <1>1, <2>1, <2>2 DEF Sum!VerdictIsRight, Sum!Dealt, Share
  <2>5. DealtOut' <=> DealtOut
    BY <2>1, <2>2 DEF DealtOut
  <2>6. CellsExact' <=> CellsExact
    BY <2>1, <2>3 DEF CellsExact
  <2>7. GlobalExact' <=> GlobalExact
    BY <2>1, <2>3 DEF GlobalExact, IsTotal
  <2>8. ResultExact' <=> ResultExact
    BY <2>1, <2>2 DEF ResultExact
  <2>9. Accepted' <=> Accepted
    BY <2>1 DEF Accepted
  <2>10. SumExact'
    BY <1>1, <2>5, <2>6, <2>7, <2>8, <2>9 DEF SumExact
  <2> QED
    BY <1>2, <2>4, <2>10 DEF SumInv
<1> QED
  BY <1>3, <1>4, <1>5 DEF Sum!Next

LEMMA SumHoldsAlways == MCSpec => []SumInv
<1>1. MCInit => Sum!Init
  BY DEF MCInit
<1>2. [Echo(Next) \/ Psum(Sum!Next)]_all => [Sum!Next]_(Sum!vars)
  BY DEF Echo, Psum, all, sumvars, Sum!vars, Sum!command
<1> QED
  BY <1>1, <1>2, SumInvInit, SumInvStep, PTL DEF MCSpec

(* Whatever the width of a long, the length of the arrays and the order of  *)
(* the threads, a command line with no more elements than are accepted gets *)
(* the sum of all that was dealt out, and the verdict on it is right: the   *)
(* programs that check that nthreads divides nelems print an error only for *)
(* a negative nthreads, which starts no thread at all (main, sum_mutex,     *)
(* sum_array, sum_local).                                                   *)
THEOREM VerdictCorrect == MCSpec => []VerdictIsRight
<1>1. SumInv => VerdictIsRight
  BY DEF SumInv, VerdictIsRight
<1> QED
  BY <1>1, SumHoldsAlways, PTL

-----------------------------------------------------------------------------
(* The two programs together.                                              *)

LEMMA EchoRuns == MCSpec => Spec
<1>1. MCInit => Init
  BY DEF MCInit
<1>2. [Echo(Next) \/ Psum(Sum!Next)]_all => [Next]_vars
  BY DEF Echo, Psum, all
<1> QED
  BY <1>1, <1>2, PTL DEF MCSpec, Spec

(* The variables of both programs hold what they are declared to hold, for  *)
(* any number of threads: no long is out of range, no index of an array.    *)
THEOREM TypesCorrect == MCSpec => []TypesOK
<1>1. SumInv => Sum!TypeOK
  BY DEF SumInv, SumOrder
<1>2. TypeOK /\ Sum!TypeOK => TypesOK
  BY DEF TypesOK
<1> QED
  BY <1>1, <1>2, EchoRuns, TypeCorrect, SumHoldsAlways, PTL
=============================================================================
