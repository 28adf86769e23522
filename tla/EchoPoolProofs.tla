--------------------------- MODULE EchoPoolProofs ---------------------------
(***************************************************************************)
(* Theorems about EchoPool, for any number of clients and descriptors,     *)
(* and, from EpollServerProofs, about the other program of MCEchoPool.     *)
(*                                                                         *)
(* The slots that check_client has still to visit and finds ready (Todo    *)
(* below) are what nready counts.  That rests on the pool's books, since   *)
(* select counts descriptors and the loop visits slots.                    *)
(***************************************************************************)
EXTENDS MCEchoPool, FiniteSetTheorems, WellFoundedInduction, TLAPS

NetTypes ==
  /\ conn \in [Clients -> {"none", "backlog", "open", "closed"}]
  /\ sent \in [Clients -> 0..(2 * MaxLines)]
  /\ end \in [Clients -> {"no", "eof", "reset"}]
  /\ taken \in [Clients -> 0..(2 * MaxLines)]
  /\ \A c \in Clients : taken[c] <= sent[c]

PoolTypes ==
  /\ maxfd \in Nat /\ maxi \in Slots \cup {-1}
  /\ read_set \in SUBSET (Fds \cup {LISTENFD})
  /\ ready_set \in SUBSET (Fds \cup {LISTENFD})
  /\ clientfd \in [Slots -> Fds \cup {-1}] /\ clientrio \in [Slots -> Fds \cup {0}]
  /\ fds \in [Fds -> Clients \cup {Nobody}]
  /\ at \in {"select", "accept", "check", "read", "write", "exited"}
  /\ i \in Nat

\* The books agree, and no two descriptors stand for one connection.
Books ==
  /\ \A s, t \in Occupied : clientfd[s] = clientfd[t] => s = t
  /\ {clientfd[s] : s \in Occupied} = read_set \ {LISTENFD}
  /\ {clientfd[s] : s \in Occupied} = Fds \ Free(fds)
  /\ \A s \in Occupied : clientrio[s] = clientfd[s] /\ s <= maxi
  /\ LISTENFD \in read_set /\ \A f \in read_set : f <= maxfd
  /\ {c \in Clients : conn[c] = "open"} = {fds[f] : f \in Fds \ Free(fds)}
  /\ \A f, g \in Fds \ Free(fds) : fds[f] = fds[g] => f = g

SlotsHoldFds ==
  /\ FreeSlots = {s \in Slots : clientfd[s] = -1}
  /\ Occupied = {s \in Slots : clientfd[s] \in Fds}
  /\ \A s \in Slots : clientfd[s] \in ready_set => s \in Occupied

\* The ready slots from k on, and those that the loop has still to visit.
Ready(k) == {s \in Slots : s >= k /\ clientfd[s] \in ready_set}
FirstLeft == IF at \in {"read", "write"} THEN i + 1 ELSE i
Todo == Ready(FirstLeft)

\* Every ready descriptor of a client is in one slot.
SlotsCountFds ==
  /\ IsFiniteSet(Ready(0)) /\ IsFiniteSet(ready_set)
  /\ Cardinality(ready_set \ {LISTENFD}) = Cardinality(Ready(0))

InPass == at \in {"accept", "check", "read", "write"}

\* In the midst of a pass: the descriptors of the ready set are all still in
\* use, and those still to be visited still have something for the server.
Pass ==
  InPass =>
    /\ ready_set \ {LISTENFD} \subseteq read_set
    /\ at = "accept" => i = 0
    /\ nready = Cardinality(Todo) + (IF at = "accept" THEN 1 ELSE 0)
    /\ at \in {"read", "write"} => i \in Slots /\ clientfd[i] \in ready_set
    /\ \A s \in Todo : Readable(clientfd[s])
    /\ at = "read" => Readable(clientfd[i])

Inv == NetTypes /\ PoolTypes /\ Books /\ Pass

-----------------------------------------------------------------------------
(* Numbers and sets.                                                        *)

(* There is a smallest one of any natural numbers (add_client and accept    *)
(* take it).                                                                *)
LEMMA Smallest ==
  ASSUME NEW S, S \subseteq Nat, S # {}
  PROVE  Min(S) \in S /\ \A y \in S : Min(S) <= y
<1> DEFINE R == OpToRel(<, Nat)
<1>1. IsWellFoundedOn(R, Nat)
  BY NatLessThanWellFounded
<1>2. \A x, y \in Nat : y < x => <<y, x>> \in R
  BY DEF OpToRel
<1> HIDE DEF R
<1>3. PICK x \in S : \A y \in S : ~ (<<y, x>> \in R)
  BY <1>1, WFMin
<1>4. \A y \in S : ~(y < x)
  BY <1>2, <1>3
<1>5. \A y \in S : x <= y
  BY <1>4
<1> QED
  BY <1>3, <1>5 DEF Min

(* Descriptors of clients are positive, and listenfd is none of them.       *)
LEMMA Numbers ==
  /\ LISTENFD \in Nat /\ FD_SETSIZE \in Nat \ {0} /\ LISTENFD \notin Fds
  /\ Fds \subseteq Nat \ {0} /\ IsFiniteSet(Fds) /\ -1 \notin Fds \cup {LISTENFD}
  /\ Slots \subseteq Nat /\ IsFiniteSet(Slots) /\ Cardinality(Fds) < Cardinality(Slots)
<1>1. /\ LISTENFD \in Nat /\ FD_SETSIZE \in Nat \ {0} /\ LISTENFD \notin Fds
      /\ Fds \subseteq Nat \ {0} /\ -1 \notin Fds \cup {LISTENFD} /\ Slots \subseteq Nat
  BY PoolAssumption DEF Slots
<1>2. IsFiniteSet(Slots) /\ Cardinality(Slots) = FD_SETSIZE
  <2>1. FD_SETSIZE - 1 \in Int /\ 0 \in Int /\ ~(0 > FD_SETSIZE - 1)
    BY <1>1
  <2>2. IsFiniteSet(Slots) /\ Cardinality(Slots) = FD_SETSIZE - 1 - 0 + 1
    BY <2>1, FS_Interval DEF Slots
  <2> QED
    BY <1>1, <2>2
<1>3. IsFiniteSet(Fds) /\ Cardinality(Fds) < FD_SETSIZE
  <2> DEFINE a == LISTENFD + 1
             b == FD_SETSIZE - 1
  <2>1. a \in Int /\ b \in Int /\ Fds = a..b
    BY <1>1, PoolAssumption
  <2> HIDE DEF a, b
  <2>2. IsFiniteSet(Fds) /\ Cardinality(Fds) = IF a > b THEN 0 ELSE b - a + 1
    BY <2>1, FS_Interval
  <2> QED
    BY <1>1, <2>2, PoolAssumption DEF a, b
<1> QED
  BY <1>1, <1>2, <1>3

(* A slot is free iff it holds -1.                                          *)
LEMMA SlotFree == PoolTypes => SlotsHoldFds
<1> SUFFICES ASSUME PoolTypes PROVE SlotsHoldFds
  OBVIOUS
<1>1. \A s \in Slots : clientfd[s] \in Fds \cup {-1}
  BY DEF PoolTypes
<1>2. \A f \in Fds : f \in Nat \ {0}
  BY Numbers
<1>3. \A s \in Slots : clientfd[s] < 0 <=> clientfd[s] = -1
  BY <1>1, <1>2
<1>4. ready_set \subseteq Fds \cup {LISTENFD} /\ -1 \notin Fds \cup {LISTENFD}
  BY Numbers DEF PoolTypes
<1> QED
  BY <1>1, <1>3, <1>4, Numbers DEF FreeSlots, Occupied, SlotsHoldFds

(* The same of the slots after a step.                                      *)
LEMMA SlotFreeNext == PoolTypes' => SlotsHoldFds'
BY SlotFree, PTL

(* Descriptors run out before slots do (add_client).                        *)
LEMMA SlotLeft ==
  ASSUME PoolTypes, Books
  PROVE  FreeSlots # {}
<1> SUFFICES ASSUME FreeSlots = {} PROVE FALSE
  OBVIOUS
<1>1. Occupied = Slots
  BY DEF Occupied
<1>2. clientfd \in [Slots -> Fds]
  BY <1>1, SlotFree DEF SlotsHoldFds, PoolTypes
<1>3. \E s, t \in Slots : s # t /\ clientfd[s] = clientfd[t]
  <2>1. IsFiniteSet(Slots) /\ IsFiniteSet(Fds) /\ Cardinality(Fds) < Cardinality(Slots)
    BY Numbers
  <2> QED
    BY <1>2, <2>1, FS_PigeonHole, Zenon
<1> QED
  BY <1>1, <1>3 DEF Books

(* Every ready descriptor of a client is in one slot (select, check_client). *)
LEMMA ReadySlots ==
  PoolTypes /\ Books /\ ready_set \ {LISTENFD} \subseteq read_set => SlotsCountFds
<1> SUFFICES ASSUME PoolTypes, Books, ready_set \ {LISTENFD} \subseteq read_set
             PROVE  SlotsCountFds
  OBVIOUS
<1> DEFINE S == Ready(0)
           T == ready_set \ {LISTENFD}
           f == [s \in S |-> clientfd[s]]
<1>1. S = {s \in Occupied : clientfd[s] \in ready_set}
  <2>1. \A s \in Slots : s >= 0
    BY Numbers
  <2>2. /\ \A s \in Slots : clientfd[s] \in ready_set => s \in Occupied
        /\ Occupied \subseteq Slots
    BY SlotFree DEF SlotsHoldFds
  <2> QED
    BY <2>1, <2>2 DEF Ready
<1>2. \A s \in S : clientfd[s] \in T
  BY <1>1, SlotFree, Numbers DEF SlotsHoldFds
<1>3. \A t \in T : \E s \in S : clientfd[s] = t
  BY <1>1 DEF Books
<1>4. \A s, t \in S : clientfd[s] = clientfd[t] => s = t
  BY <1>1 DEF Books
<1>5. IsFiniteSet(S)
  BY Numbers, FS_Subset DEF Ready
<1>6. IsFiniteSet(ready_set)
  <2>1. IsFiniteSet(Fds \cup {LISTENFD})
    BY Numbers, FS_AddElement
  <2> QED
    BY <2>1, FS_Subset DEF PoolTypes
<1> HIDE DEF S, T
<1>7. f \in Bijection(S, T)
  BY <1>2, <1>3, <1>4 DEF Bijection, Injection, Surjection, IsInjective
<1>8. Cardinality(T) = Cardinality(S)
  BY <1>5, <1>7, FS_Bijection DEF ExistsBijection
<1> QED
  BY <1>5, <1>6, <1>8 DEF S, T, SlotsCountFds

LEMMA ReadySlotsNext ==
  PoolTypes' /\ Books' /\ (ready_set \ {LISTENFD} \subseteq read_set)' => SlotsCountFds'
BY ReadySlots, PTL

(* What is left to do is finite, and the slot in hand is not part of it.    *)
LEMMA TodoFinite == \A k : IsFiniteSet(Ready(k)) /\ Cardinality(Ready(k)) \in Nat
<1> SUFFICES ASSUME NEW k PROVE IsFiniteSet(Ready(k)) /\ Cardinality(Ready(k)) \in Nat
  OBVIOUS
<1>1. Ready(k) \in SUBSET Slots
  BY DEF Ready
<1>2. IsFiniteSet(Ready(k))
  BY <1>1, Numbers, FS_Subset
<1> QED
  BY <1>2, FS_CardinalityType

LEMMA TodoAfter ==
  ASSUME PoolTypes, i \in Slots
  PROVE  /\ i \notin Ready(i + 1) /\ Ready(i) \subseteq Ready(i + 1) \cup {i}
         /\ Ready(i + 1) \subseteq Ready(i)
         /\ clientfd[i] \in ready_set =>
              Cardinality(Ready(i)) = Cardinality(Ready(i + 1)) + 1
         /\ clientfd[i] \notin ready_set => Ready(i) = Ready(i + 1)
<1>1. \A s \in Slots : s \in Int
  BY Numbers
<1>2. \A s \in Slots : (s >= i <=> s >= i + 1 \/ s = i) /\ (s >= i + 1 => s # i)
  BY <1>1
<1>3. Ready(i) = Ready(i + 1) \cup (IF clientfd[i] \in ready_set THEN {i} ELSE {})
  BY <1>2 DEF Ready
<1>4. i \notin Ready(i + 1)
  BY <1>2 DEF Ready
<1>5. IsFiniteSet(Ready(i + 1))
  BY TodoFinite
<1>6. Cardinality(Ready(i + 1) \cup {i}) = Cardinality(Ready(i + 1)) + 1
  BY <1>4, <1>5, FS_AddElement
<1> QED
  BY <1>3, <1>4, <1>6

(* The client of the slot in hand.                                          *)
LEMMA InHand ==
  ASSUME PoolTypes, Books, i \in Occupied
  PROVE  /\ clientfd[i] \in Fds \ Free(fds) /\ clientrio[i] = clientfd[i]
         /\ Client = fds[clientfd[i]] /\ Client \in Clients
         /\ \A s \in Occupied : s # i =>
              clientfd[s] # clientfd[i] /\ clientfd[s] \in Fds \ Free(fds) /\ fds[clientfd[s]] # Client
<1>1. \A s \in Occupied : clientfd[s] \in Fds \ Free(fds) /\ clientrio[s] = clientfd[s]
  BY DEF Books
<1>2. Client = fds[clientfd[i]] /\ Client \in Clients
  BY <1>1 DEF Client, Free, PoolTypes
<1>3. \A s \in Occupied : s # i => clientfd[s] # clientfd[i]
  BY DEF Books
<1>4. \A s \in Occupied : s # i => fds[clientfd[s]] # Client
  BY <1>1, <1>2, <1>3 DEF Books
<1> QED
  BY <1>1, <1>2, <1>3, <1>4

(* A line read is within what was sent.                                     *)
LEMMA LineLength ==
  ASSUME NetTypes, NEW c \in Clients, NEW k \in LineResults(c)
  PROVE  k \in Nat /\ taken[c] + k <= sent[c]
<1>1. taken[c] \in Nat /\ sent[c] \in Nat /\ taken[c] <= sent[c]
  BY NetAssumption DEF NetTypes
<1>2. \A m \in Nat : 2 * (m \div 2 + 1) - m \in 1..2
  OBVIOUS
<1>3. LineEnd(c) \in Nat /\ LineEnd(c) - taken[c] \in 1..2
  BY <1>1, <1>2 DEF LineEnd
<1> QED
  BY <1>1, <1>3 DEF LineResults

-----------------------------------------------------------------------------
(* The invariant, step by step.                                             *)

LEMMA InitInv == Init => Inv
<1> SUFFICES ASSUME Init PROVE Inv
  OBVIOUS
<1>1. NetTypes
  <2>1. 2 * MaxLines \in Nat
    BY NetAssumption
  <2> QED
    BY <2>1 DEF Init, NetInit, NetTypes
<1>2. PoolTypes
  BY Numbers DEF Init, NoFds, PoolTypes
<1>3. Occupied = {} /\ Free(fds) = Fds
  <2>1. \A s \in Slots : clientfd[s] = -1
    BY DEF Init
  <2> QED
    BY <1>2, <2>1, SlotFree, Numbers DEF SlotsHoldFds, Init, NoFds, Free
<1>4. Books
  <2>1. {c \in Clients : conn[c] = "open"} = {}
    BY DEF Init, NetInit
  <2>2. read_set = {LISTENFD} /\ maxfd = LISTENFD /\ LISTENFD <= LISTENFD
    BY Numbers DEF Init
  <2> QED
    BY <1>3, <2>1, <2>2 DEF Books
<1>5. Pass
  BY DEF Init, Pass, InPass
<1> QED
  BY <1>1, <1>2, <1>4, <1>5 DEF Inv

(* What a step that leaves the pool alone cannot disturb.                   *)
LEMMA PoolAlone ==
  ASSUME Inv, UNCHANGED <<pool, fds>>, NetTypes',
         {c \in Clients : conn'[c] = "open"} = {c \in Clients : conn[c] = "open"},
         at' \in {"select", "accept", "check", "read", "write", "exited"}, i' \in Nat
  PROVE  PoolTypes' /\ Books' /\ Occupied' = Occupied /\ \A k : Ready(k)' = Ready(k)
<1>1. /\ UNCHANGED <<maxfd, read_set, ready_set, nready, maxi, clientfd, clientrio, fds>>
      /\ PoolTypes /\ Books
  BY DEF pool, Inv
<1>2. PoolTypes'
  BY <1>1 DEF PoolTypes
<1>3. Occupied' = Occupied /\ Free(fds)' = Free(fds) /\ \A k : Ready(k)' = Ready(k)
  BY <1>1 DEF Occupied, FreeSlots, Free, Ready
<1>4. Books'
  BY <1>1, <1>3 DEF Books
<1> QED
  BY <1>2, <1>3, <1>4

(* Clients only add to what can be read.                                    *)
LEMMA ClientKeeps ==
  ASSUME Inv, NEW c \in Clients, ClientStep(c), UNCHANGED <<pool, fds, at, i, line>>
  PROVE  Inv'
<1>1. 2 * MaxLines \in Nat
  BY NetAssumption
<1>2. NetTypes'
  BY <1>1 DEF Inv, NetTypes, ClientStep, Dial, Sends, Ends
<1>3. {d \in Clients : conn'[d] = "open"} = {d \in Clients : conn[d] = "open"}
  BY DEF Inv, NetTypes, ClientStep, Dial, Sends, Ends
<1>4. /\ at' = at /\ i' = i /\ UNCHANGED <<nready, ready_set, read_set, clientfd, fds>>
      /\ at \in {"select", "accept", "check", "read", "write", "exited"} /\ i \in Nat
  BY DEF pool, Inv, PoolTypes
<1>5. PoolTypes' /\ Books' /\ Occupied' = Occupied /\ \A k : Ready(k)' = Ready(k)
  BY <1>2, <1>3, <1>4, PoolAlone
<1>6. \A f \in Fds : Readable(f) => Readable(f)'
  <2> SUFFICES ASSUME NEW f \in Fds, Readable(f) PROVE Readable(f)'
    OBVIOUS
  <2>1. f # LISTENFD
    BY Numbers
  <2>2. fds[f] \in Clients /\ (sent[fds[f]] > taken[fds[f]] \/ end[fds[f]] # "no")
    BY <2>1 DEF Readable, Inv, PoolTypes
  <2>3. /\ \A d \in Clients : sent'[d] >= sent[d] /\ (end[d] # "no" => end'[d] # "no")
        /\ taken' = taken
    BY <1>1 DEF ClientStep, Dial, Sends, Ends, Inv, NetTypes
  <2>4. fds'[f] = fds[f] /\ fds[f] # Nobody
    BY <1>4, <2>2, NetAssumption
  <2>5. sent[fds[f]] \in Int /\ sent'[fds[f]] \in Int /\ taken[fds[f]] \in Int
    BY <1>1, <1>2, <2>2 DEF Inv, NetTypes
  <2>6. sent'[fds[f]] > taken[fds[f]] \/ end'[fds[f]] # "no"
    BY <2>2, <2>3, <2>5
  <2> QED
    BY <2>1, <2>3, <2>4, <2>6 DEF Readable
<1>7. Pass'
  <2>1. Todo' = Todo /\ InPass' = InPass
    BY <1>4, <1>5 DEF Todo, FirstLeft, InPass
  <2>2. \A s \in Todo : clientfd[s] \in Fds
    BY SlotFree DEF SlotsHoldFds, Todo, Ready, Inv
  <2>3. at = "read" => InPass /\ (i \in Slots /\ clientfd[i] \in ready_set => clientfd[i] \in Fds)
    BY SlotFree DEF SlotsHoldFds, InPass, Inv
  <2> QED
    BY <1>4, <1>6, <2>1, <2>2, <2>3 DEF Pass, Inv
<1> QED
  BY <1>2, <1>5, <1>7 DEF Inv

(* select starts a pass: nready is the ready slots, and the listener.       *)
LEMMA SelectKeeps ==
  ASSUME Inv, Select
  PROVE  Inv'
<1>1. /\ ready_set' = {f \in Watched : Readable(f)} /\ nready' = Cardinality(ready_set')
      /\ at' = IF LISTENFD \in ready_set' THEN "accept" ELSE "check"
      /\ i' = 0
      /\ UNCHANGED <<net, maxfd, read_set, maxi, clientfd, clientrio, fds>>
  BY DEF Select
<1>2. NetTypes' /\ NetTypes /\ PoolTypes /\ Books
  BY <1>1 DEF Inv, NetTypes, net
<1>3. ready_set' \subseteq read_set /\ \A f \in ready_set' : Readable(f)
  BY <1>1 DEF Watched
<1>4. PoolTypes'
  BY <1>1, <1>2, <1>3 DEF PoolTypes
<1>5. Books'
  <2>1. Occupied' = Occupied /\ Free(fds)' = Free(fds)
    BY <1>1 DEF Occupied, FreeSlots, Free
  <2> QED
    BY <1>1, <1>2, <2>1 DEF Books, net
<1>6. /\ IsFiniteSet(Ready(0)') /\ IsFiniteSet(ready_set')
      /\ Cardinality(ready_set' \ {LISTENFD}) = Cardinality(Ready(0)')
  <2>1. ready_set' \ {LISTENFD} \subseteq read_set'
    BY <1>1, <1>3
  <2> QED
    BY <1>4, <1>5, <2>1, ReadySlotsNext DEF SlotsCountFds
<1>7. Todo' = Ready(0)'
  BY <1>1 DEF Todo, FirstLeft, Ready
<1>8. nready' = Cardinality(Todo') + (IF at' = "accept" THEN 1 ELSE 0)
  <2>1. CASE LISTENFD \in ready_set'
    <3>1. Cardinality(ready_set' \ {LISTENFD}) = Cardinality(ready_set') - 1
      BY <1>6, <2>1, FS_RemoveElement
    <3>2. Cardinality(ready_set') \in Nat
      BY <1>6, FS_CardinalityType
    <3> QED
      BY <1>1, <1>6, <1>7, <2>1, <3>1, <3>2
  <2>2. CASE LISTENFD \notin ready_set'
    <3>1. ready_set' \ {LISTENFD} = ready_set'
      BY <2>2
    <3>2. Cardinality(ready_set') \in Nat
      BY <1>6, FS_CardinalityType
    <3> QED
      BY <1>1, <1>6, <1>7, <2>2, <3>1, <3>2
  <2> QED
    BY <2>1, <2>2
<1>9. Pass'
  <2>1. \A f : Readable(f)' = Readable(f)
    BY <1>1 DEF Readable, net, Backlog
  <2>2. \A s \in Todo' : clientfd'[s] \in ready_set'
    BY <1>7 DEF Ready
  <2>3. at' \in {"accept", "check"}
    BY <1>1
  <2> QED
    BY <1>1, <1>3, <1>8, <2>1, <2>2, <2>3 DEF Pass
<1> QED
  BY <1>2, <1>4, <1>5, <1>9 DEF Inv

(* Accept and add_client enter a client into all books at once; the         *)
(* descriptor is new, so nobody was waiting on it in the ready set.         *)
LEMMA AcceptKeeps ==
  ASSUME Inv, NEW c \in Clients, Accept(c)
  PROVE  Inv'
<1> DEFINE connfd == Min(Free(fds))
           s == Min(FreeSlots)
<1>1. /\ at = "accept" /\ conn[c] = "backlog" /\ Free(fds) # {}
      /\ fds' = [fds EXCEPT ![connfd] = c]
      /\ clientfd' = [clientfd EXCEPT ![s] = connfd]
      /\ clientrio' = [clientrio EXCEPT ![s] = connfd]
      /\ read_set' = read_set \cup {connfd}
      /\ maxfd' = Raised(maxfd, connfd) /\ maxi' = Raised(maxi, s)
      /\ conn' = [conn EXCEPT ![c] = "open"]
      /\ nready' = nready - 1 /\ at' = "check"
      /\ UNCHANGED <<sent, end, taken, ready_set, i>>
  BY DEF Accept, Bound, Uncounted
<1>2. NetTypes /\ PoolTypes /\ Books
  BY DEF Inv
<1>3. connfd \in Fds /\ fds[connfd] = Nobody /\ connfd \in Nat \ {0} /\ connfd # LISTENFD
  <2>1. Free(fds) \subseteq Nat
    BY Numbers DEF Free
  <2>2. connfd \in Free(fds)
    BY <1>1, <2>1, Smallest
  <2> QED
    BY <2>2, Numbers DEF Free
<1>4. s \in Slots /\ clientfd[s] = -1 /\ s \in Nat
  <2>1. FreeSlots # {} /\ FreeSlots \subseteq Nat
    BY <1>2, SlotLeft, Numbers DEF FreeSlots
  <2>2. s \in FreeSlots
    BY <2>1, Smallest
  <2> QED
    BY <1>2, <2>2, SlotFree, Numbers DEF SlotsHoldFds
<1> HIDE DEF connfd, s
<1>5. NetTypes'
  BY <1>1, <1>2 DEF NetTypes
<1>6. PoolTypes'
  <2>1. maxfd' \in Nat /\ maxi' \in Slots \cup {-1}
    BY <1>1, <1>2, <1>3, <1>4 DEF PoolTypes, Raised
  <2>2. fds' \in [Fds -> Clients \cup {Nobody}] /\ clientfd' \in [Slots -> Fds \cup {-1}]
    BY <1>1, <1>2, <1>3, <1>4 DEF PoolTypes
  <2>3. clientrio' \in [Slots -> Fds \cup {0}]
    BY <1>1, <1>2, <1>3, <1>4 DEF PoolTypes
  <2> QED
    BY <1>1, <1>2, <1>3, <2>1, <2>2, <2>3 DEF PoolTypes
<1>7. /\ Occupied' = Occupied \cup {s} /\ s \notin Occupied
      /\ \A t \in Occupied : clientfd'[t] = clientfd[t] /\ clientrio'[t] = clientrio[t]
      /\ clientfd'[s] = connfd /\ clientrio'[s] = connfd
  <2>1. Occupied = {t \in Slots : clientfd[t] \in Fds}
    BY <1>2, SlotFree DEF SlotsHoldFds
  <2>2. Occupied' = {t \in Slots : clientfd'[t] \in Fds}
    BY <1>6, SlotFreeNext DEF SlotsHoldFds
  <2>3. -1 \notin Fds
    BY Numbers
  <2>4. \A t \in Slots : /\ clientfd'[t] = IF t = s THEN connfd ELSE clientfd[t]
                         /\ clientrio'[t] = IF t = s THEN connfd ELSE clientrio[t]
    BY <1>1, <1>2 DEF PoolTypes
  <2> QED
    BY <1>3, <1>4, <2>1, <2>2, <2>3, <2>4
<1>8. /\ Fds \ Free(fds)' = (Fds \ Free(fds)) \cup {connfd} /\ connfd \notin Fds \ Free(fds)
      /\ fds'[connfd] = c /\ \A f \in Fds \ Free(fds) : fds'[f] = fds[f] /\ fds[f] # c
  <2>1. c # Nobody
    BY NetAssumption
  <2>2. \A f \in Fds : fds'[f] = IF f = connfd THEN c ELSE fds[f]
    BY <1>1, <1>2 DEF PoolTypes
  <2>3. \A f \in Fds \ Free(fds) : conn[fds[f]] = "open"
    BY <1>2 DEF Books
  <2> QED
    BY <1>1, <1>3, <2>1, <2>2, <2>3 DEF Free
<1>9. Books'
  <2>1. \A t, u \in Occupied' : clientfd'[t] = clientfd'[u] => t = u
    <3>1. \A t \in Occupied : clientfd[t] # connfd
      BY <1>2, <1>8 DEF Books
    <3> QED
      BY <1>2, <1>7, <3>1 DEF Books
  <2>2. {clientfd'[t] : t \in Occupied'} = {clientfd[t] : t \in Occupied} \cup {connfd}
    BY <1>7
  <2>3. read_set' \ {LISTENFD} = (read_set \ {LISTENFD}) \cup {connfd}
    BY <1>1, <1>3
  <2>4. maxfd \in Nat /\ maxi \in Int /\ maxfd' >= maxfd /\ maxfd' >= connfd
        /\ maxi' >= maxi /\ maxi' >= s
    BY <1>1, <1>2, <1>3, <1>4, Numbers DEF PoolTypes, Raised
  <2>5. \A t \in Occupied' : clientrio'[t] = clientfd'[t] /\ t <= maxi'
    <3>1. \A t \in Occupied : t \in Int /\ t <= maxi /\ clientrio[t] = clientfd[t]
      <4>1. \A t \in Occupied : t \in Int
        BY Numbers DEF Occupied
      <4>2. \A t \in Occupied : t <= maxi /\ clientrio[t] = clientfd[t]
        BY <1>2 DEF Books
      <4> QED
        BY <4>1, <4>2
    <3>2. maxi' \in Int
      BY <1>6, Numbers DEF PoolTypes
    <3>3. ASSUME NEW t \in Occupied PROVE clientrio'[t] = clientfd'[t] /\ t <= maxi'
      BY <1>7, <2>4, <3>1, <3>2
    <3>4. clientrio'[s] = clientfd'[s] /\ s <= maxi'
      BY <1>4, <1>7, <2>4, <3>2
    <3> QED
      BY <1>7, <3>3, <3>4
  <2>6. \A f \in read_set' : f <= maxfd'
    <3>1. \A f \in read_set : f \in Int /\ f <= maxfd
      BY <1>2, Numbers DEF Books, PoolTypes
    <3>2. maxfd' \in Nat
      BY <1>6 DEF PoolTypes
    <3> QED
      BY <1>1, <1>3, <2>4, <3>1, <3>2
  <2>7. {d \in Clients : conn'[d] = "open"} = {d \in Clients : conn[d] = "open"} \cup {c}
    BY <1>1, <1>2 DEF NetTypes
  <2>8. {fds'[f] : f \in Fds \ Free(fds)'} = {fds[f] : f \in Fds \ Free(fds)} \cup {c}
    BY <1>8
  <2>9. \A f, g \in Fds \ Free(fds)' : fds'[f] = fds'[g] => f = g
    BY <1>2, <1>8 DEF Books
  <2>10. LISTENFD \in read_set'
    BY <1>1, <1>2 DEF Books
  <2>11. {clientfd[t] : t \in Occupied} \cup {connfd} = read_set' \ {LISTENFD}
    BY <1>2, <2>3 DEF Books
  <2>12. {clientfd[t] : t \in Occupied} \cup {connfd} = Fds \ Free(fds)'
    BY <1>2, <1>8 DEF Books
  <2>13. {d \in Clients : conn'[d] = "open"} = {fds'[f] : f \in Fds \ Free(fds)'}
    BY <1>2, <2>7, <2>8 DEF Books
  <2> QED
    BY <2>1, <2>2, <2>5, <2>6, <2>9, <2>10, <2>11, <2>12, <2>13 DEF Books
<1>10. connfd \notin ready_set
  BY <1>1, <1>2, <1>3, <1>8 DEF Inv, Pass, InPass, Books
<1>11. Todo' = Todo
  <2>1. -1 \notin ready_set
    BY <1>2, Numbers DEF PoolTypes
  <2>2. \A t \in Slots : clientfd'[t] = IF t = s THEN connfd ELSE clientfd[t]
    BY <1>1, <1>2 DEF PoolTypes
  <2> QED
    BY <1>1, <1>4, <1>10, <2>1, <2>2 DEF Todo, FirstLeft, Ready
<1>12. Pass'
  <2>1. /\ ready_set \ {LISTENFD} \subseteq read_set /\ nready = Cardinality(Todo) + 1
        /\ \A t \in Todo : Readable(clientfd[t])
    BY <1>1 DEF Inv, Pass, InPass
  <2>2. nready' = Cardinality(Todo') + 0
    <3>1. Cardinality(Todo) \in Nat
      BY TodoFinite DEF Todo
    <3> QED
      BY <1>1, <1>11, <2>1, <3>1
  <2>3. \A t \in Todo : Readable(clientfd[t])'
    <3> SUFFICES ASSUME NEW t \in Todo PROVE Readable(clientfd[t])'
      OBVIOUS
    <3>1. t \in Occupied
      BY <1>2, SlotFree DEF SlotsHoldFds, Todo, Ready
    <3>2. clientfd'[t] = clientfd[t] /\ clientfd[t] \in Fds \ Free(fds)
      BY <1>2, <1>7, <3>1 DEF Books
    <3>3. fds'[clientfd[t]] = fds[clientfd[t]] /\ clientfd[t] # LISTENFD
      BY <1>8, <3>2, Numbers
    <3> QED
      BY <1>1, <2>1, <3>2, <3>3 DEF Readable
  <2> QED
    BY <1>1, <1>11, <2>1, <2>2, <2>3 DEF Pass
<1> QED
  BY <1>5, <1>6, <1>9, <1>12 DEF Inv

(* An exit ends the program, and LoopEnds the pass.                         *)
LEMMA EndKeeps ==
  ASSUME Inv, AcceptFails \/ LoopEnds \/ CheckEmpty \/ Fails
  PROVE  Inv'
<1>1. at' \in {"select", "exited"} /\ UNCHANGED <<net, pool, fds, i>>
  BY DEF AcceptFails, LoopEnds, CheckEmpty, Fails
<1>2. NetTypes' /\ i' \in Nat
  BY <1>1 DEF Inv, NetTypes, PoolTypes, net
<1>3. {d \in Clients : conn'[d] = "open"} = {d \in Clients : conn[d] = "open"}
  BY <1>1 DEF net
<1>4. PoolTypes' /\ Books'
  BY <1>1, <1>2, <1>3, PoolAlone
<1>5. Pass'
  BY <1>1 DEF Pass, InPass
<1> QED
  BY <1>2, <1>4, <1>5 DEF Inv

(* The loop stays within the slots.                                         *)
LEMMA LoopSlot ==
  ASSUME PoolTypes, i <= maxi
  PROVE  i \in Slots
<1>1. i \in Nat /\ maxi \in Int /\ maxi <= FD_SETSIZE - 1 /\ FD_SETSIZE \in Nat
  BY Numbers DEF PoolTypes, Slots
<1> QED
  BY <1>1 DEF Slots

(* The slot in hand is no longer one to visit.                              *)
LEMMA CheckReadyKeeps ==
  ASSUME Inv, CheckReady
  PROVE  Inv'
<1>1. /\ at = "check" /\ at' = "read" /\ i <= maxi /\ nready' = nready - 1
      /\ clientfd[i] \in ready_set
      /\ UNCHANGED <<net, maxfd, read_set, ready_set, maxi, clientfd, clientrio, fds, i>>
  BY DEF CheckReady, InLoop, SlotReady
<1>2. NetTypes /\ PoolTypes /\ Books /\ i \in Slots
  BY <1>1, LoopSlot DEF Inv
<1>3. NetTypes' /\ PoolTypes'
  BY <1>1, <1>2 DEF NetTypes, PoolTypes, net
<1>4. Books'
  <2>1. Occupied' = Occupied /\ Free(fds)' = Free(fds)
    BY <1>1 DEF Occupied, FreeSlots, Free
  <2> QED
    BY <1>1, <1>2, <2>1 DEF Books, net
<1>5. Todo = Ready(i) /\ Todo' = Ready(i + 1)
  BY <1>1 DEF Todo, FirstLeft, Ready
<1>6. Cardinality(Ready(i)) = Cardinality(Ready(i + 1)) + 1 /\ Ready(i + 1) \subseteq Ready(i)
  BY <1>1, <1>2, TodoAfter
<1>7. i \in Ready(i)
  <2>1. i >= i
    BY <1>2, Numbers
  <2> QED
    BY <1>1, <1>2, <2>1 DEF Ready
<1>8. Pass'
  <2>1. /\ ready_set \ {LISTENFD} \subseteq read_set /\ nready = Cardinality(Ready(i)) + 0
        /\ \A s \in Ready(i) : Readable(clientfd[s])
    BY <1>1, <1>5 DEF Inv, Pass, InPass
  <2>2. nready' = Cardinality(Todo') + 0
    <3>1. Cardinality(Ready(i + 1)) \in Nat
      BY TodoFinite
    <3> QED
      BY <1>1, <1>5, <1>6, <2>1, <3>1
  <2>3. \A f : Readable(f)' = Readable(f)
    BY <1>1 DEF Readable, net, Backlog
  <2> QED
    BY <1>1, <1>2, <1>5, <1>6, <1>7, <2>1, <2>2, <2>3 DEF Pass
<1> QED
  BY <1>3, <1>4, <1>8 DEF Inv

(* Whoever is not ready is taken out of all books at once; no ready slot is *)
(* (the else branch of check_client).                                       *)
LEMMA CheckOtherKeeps ==
  ASSUME Inv, CheckOther
  PROVE  Inv'
<1> DEFINE f == clientfd[i]
<1>1. /\ at = "check" /\ i <= maxi /\ ~SlotReady /\ f >= 0
      /\ conn' = [conn EXCEPT ![fds[f]] = "closed"]
      /\ fds' = [fds EXCEPT ![f] = Nobody]
      /\ read_set' = read_set \ {f} /\ clientfd' = [clientfd EXCEPT ![i] = -1]
      /\ i' = i + 1
      /\ UNCHANGED <<sent, end, taken, maxfd, ready_set, nready, maxi, clientrio, at>>
  BY DEF CheckOther, InLoop, WithoutSlot, Vacated
<1>2. NetTypes /\ PoolTypes /\ Books /\ i \in Slots /\ i \in Nat
  BY <1>1, LoopSlot DEF Inv, PoolTypes
<1>3. /\ i \in Occupied /\ f \in Fds \ Free(fds) /\ fds[f] \in Clients
      /\ f # LISTENFD /\ f \notin ready_set
  <2>1. f \in Fds \cup {-1}
    BY <1>2 DEF PoolTypes
  <2>2. f \in Fds /\ f > 0
    <3>1. f # -1 /\ \A g \in Fds : g > 0
      BY <1>1, Numbers
    <3> HIDE DEF f
    <3> QED
      BY <2>1, <3>1
  <2>3. i \in Occupied
    BY <1>2, <2>2, SlotFree DEF SlotsHoldFds
  <2>4. f \in Fds \ Free(fds) /\ fds[f] \in Clients
    BY <1>2, <2>3, InHand
  <2> QED
    BY <1>1, <2>2, <2>3, <2>4, Numbers DEF SlotReady
<1> HIDE DEF f
<1>4. NetTypes'
  BY <1>1, <1>2 DEF NetTypes
<1>5. PoolTypes'
  <2>1. clientfd' \in [Slots -> Fds \cup {-1}] /\ fds' \in [Fds -> Clients \cup {Nobody}]
    BY <1>1, <1>2 DEF PoolTypes
  <2>2. i' \in Nat
    BY <1>1, <1>2
  <2> QED
    BY <1>1, <1>2, <2>1, <2>2 DEF PoolTypes
<1>6. Occupied' = Occupied \ {i} /\ \A t \in Occupied' : clientfd'[t] = clientfd[t]
  <2>1. Occupied = {t \in Slots : clientfd[t] \in Fds}
    BY <1>2, SlotFree DEF SlotsHoldFds
  <2>2. Occupied' = {t \in Slots : clientfd'[t] \in Fds}
    BY <1>5, SlotFreeNext DEF SlotsHoldFds
  <2>3. \A t \in Slots : clientfd'[t] = IF t = i THEN -1 ELSE clientfd[t]
    BY <1>1, <1>2 DEF PoolTypes
  <2> QED
    BY <2>1, <2>2, <2>3, Numbers
<1>7. /\ Fds \ Free(fds)' = (Fds \ Free(fds)) \ {f}
      /\ \A g \in Fds \ Free(fds)' : fds'[g] = fds[g] /\ fds[g] # fds[f]
  <2>1. \A g \in Fds : fds'[g] = IF g = f THEN Nobody ELSE fds[g]
    BY <1>1, <1>2 DEF PoolTypes
  <2>2. Fds \ Free(fds)' = (Fds \ Free(fds)) \ {f}
    BY <2>1 DEF Free
  <2> QED
    BY <1>2, <1>3, <2>1, <2>2 DEF Books
<1>8. Books'
  <2>1. {clientfd'[t] : t \in Occupied'} = {clientfd[t] : t \in Occupied} \ {f}
    <3>1. \A t \in Occupied : clientfd[t] = f => t = i
      BY <1>2, <1>3 DEF Books, f
    <3>2. clientfd[i] = f
      BY DEF f
    <3> QED
      BY <1>6, <3>1, <3>2
  <2>2. {d \in Clients : conn'[d] = "open"} = {d \in Clients : conn[d] = "open"} \ {fds[f]}
    BY <1>1, <1>2 DEF NetTypes
  <2>3. {fds'[g] : g \in Fds \ Free(fds)'} = {fds[g] : g \in Fds \ Free(fds)} \ {fds[f]}
    BY <1>7
  <2>4. {d \in Clients : conn'[d] = "open"} = {fds'[g] : g \in Fds \ Free(fds)'}
    BY <1>2, <2>2, <2>3 DEF Books
  <2>5. {clientfd'[t] : t \in Occupied'} = Fds \ Free(fds)'
    BY <1>2, <1>7, <2>1 DEF Books
  <2>6. {clientfd'[t] : t \in Occupied'} = read_set' \ {LISTENFD}
    BY <1>1, <1>2, <2>1 DEF Books
  <2>7. LISTENFD \in read_set' /\ \A g \in read_set' : g <= maxfd'
    BY <1>1, <1>2, <1>3 DEF Books
  <2>8. \A t, u \in Occupied' : clientfd'[t] = clientfd'[u] => t = u
    BY <1>2, <1>6 DEF Books
  <2>9. \A t \in Occupied' : clientrio'[t] = clientfd'[t] /\ t <= maxi'
    BY <1>1, <1>2, <1>6 DEF Books
  <2>10. \A g, h \in Fds \ Free(fds)' : fds'[g] = fds'[h] => g = h
    BY <1>2, <1>7 DEF Books
  <2> QED
    BY <2>4, <2>5, <2>6, <2>7, <2>8, <2>9, <2>10 DEF Books
<1>9. Todo = Ready(i) /\ Todo' = Ready(i)
  <2>1. Ready(i) = Ready(i + 1) /\ i \notin Ready(i + 1)
    BY <1>2, <1>3, TodoAfter DEF f
  <2>2. \A t \in Slots : clientfd'[t] = IF t = i THEN -1 ELSE clientfd[t]
    BY <1>1, <1>2 DEF PoolTypes
  <2>3. -1 \notin ready_set
    BY <1>2, Numbers DEF PoolTypes
  <2>4. Todo' = {t \in Slots : t >= i + 1 /\ clientfd'[t] \in ready_set}
    BY <1>1 DEF Todo, FirstLeft, Ready
  <2>5. Todo' = Ready(i + 1)
    BY <1>3, <2>2, <2>3, <2>4 DEF Ready, f
  <2> QED
    BY <1>1, <2>1, <2>5 DEF Todo, FirstLeft
<1>10. Pass'
  <2>1. /\ ready_set \ {LISTENFD} \subseteq read_set /\ nready = Cardinality(Ready(i)) + 0
        /\ \A s \in Ready(i) : Readable(clientfd[s])
    BY <1>1, <1>9 DEF Inv, Pass, InPass
  <2>2. \A t \in Todo' : Readable(clientfd[t])'
    <3> SUFFICES ASSUME NEW t \in Ready(i) PROVE Readable(clientfd[t])'
      BY <1>9
    <3>1. clientfd[t] \in ready_set
      BY DEF Ready
    <3>2. t \in Occupied /\ t # i
      BY <1>2, <1>3, <3>1, SlotFree DEF SlotsHoldFds, f, Ready
    <3>3. clientfd'[t] = clientfd[t] /\ clientfd[t] \in Fds \ Free(fds)' /\ clientfd[t] # LISTENFD
      <4>1. clientfd'[t] = clientfd[t] /\ clientfd[t] \in Fds \ Free(fds)
        BY <1>2, <1>6, <3>2 DEF Books
      <4> QED
        BY <1>3, <1>7, <3>1, <4>1, Numbers
    <3>4. fds'[clientfd[t]] = fds[clientfd[t]]
      BY <1>7, <3>3
    <3> QED
      BY <1>1, <2>1, <3>3, <3>4 DEF Readable
  <2> QED
    BY <1>1, <1>3, <1>9, <2>1, <2>2 DEF Pass
<1> QED
  BY <1>4, <1>5, <1>8, <1>10 DEF Inv

(* Reading empties one client's socket and nobody else's (check_client).    *)
LEMMA ReadKeeps ==
  ASSUME Inv, Read
  PROVE  Inv'
<1> DEFINE c == Client
<1>1. /\ at = "read" /\ taken' = [taken EXCEPT ![c] = sent[c]]
      /\ \E n \in LineResults(c) : at' = AfterRead(n) /\ i' = IF n = 0 THEN i + 1 ELSE i
      /\ UNCHANGED <<conn, sent, end, pool, fds>>
      /\ UNCHANGED <<maxfd, read_set, ready_set, nready, maxi, clientfd, clientrio>>
  BY DEF Read, pool
<1>2. NetTypes /\ PoolTypes /\ Books /\ i \in Slots /\ i \in Occupied /\ i \in Nat
  <2>1. i \in Slots /\ clientfd[i] \in ready_set
    BY <1>1 DEF Inv, Pass, InPass
  <2> QED
    BY <2>1, SlotFree DEF SlotsHoldFds, Inv, PoolTypes
<1>3. /\ c \in Clients /\ c = fds[clientfd[i]]
      /\ \A s \in Occupied : s # i => /\ clientfd[s] \in Fds \ Free(fds)
                                      /\ fds[clientfd[s]] # c
  BY <1>2, InHand
<1>4. \/ at' = "check" /\ i' = i + 1
      \/ at' = "write" /\ i' = i
  BY <1>1 DEF AfterRead
<1> HIDE DEF c
<1>5. NetTypes'
  <2>1. sent[c] \in 0..(2 * MaxLines) /\ sent[c] <= sent[c]
    <3>1. sent[c] \in Int
      BY <1>2, <1>3, NetAssumption DEF NetTypes
    <3> QED
      BY <1>2, <1>3, <3>1 DEF NetTypes
  <2> QED
    BY <1>1, <1>2, <1>3, <2>1 DEF NetTypes
<1>6. i' \in Nat
  BY <1>2, <1>4
<1>7. PoolTypes' /\ Books' /\ Occupied' = Occupied /\ \A k : Ready(k)' = Ready(k)
  BY <1>1, <1>4, <1>5, <1>6, PoolAlone
<1>8. Todo = Ready(i + 1) /\ Todo' = Ready(i + 1)
  <2>1. Todo = Ready(i + 1)
    BY <1>1 DEF Todo, FirstLeft
  <2>2. Todo' = {s \in Slots : s >= i + 1 /\ clientfd[s] \in ready_set}
    BY <1>1, <1>4 DEF Todo, FirstLeft, Ready
  <2> QED
    BY <2>1, <2>2 DEF Ready
<1>9. Pass'
  <2>1. /\ ready_set \ {LISTENFD} \subseteq read_set /\ nready = Cardinality(Todo) + 0
        /\ clientfd[i] \in ready_set /\ \A s \in Todo : Readable(clientfd[s])
    BY <1>1 DEF Inv, Pass, InPass
  <2>2. \A s \in Todo' : Readable(clientfd[s])'
    <3> SUFFICES ASSUME NEW s \in Ready(i + 1) PROVE Readable(clientfd[s])'
      BY <1>8
    <3>1. s \in Occupied /\ s # i
      BY <1>2, TodoAfter, SlotFree DEF SlotsHoldFds, Ready
    <3>2. clientfd[s] \in Fds \ Free(fds) /\ clientfd[s] # LISTENFD
      BY <1>3, <3>1, Numbers
    <3>3. fds[clientfd[s]] # c /\ fds[clientfd[s]] \in Clients
      BY <1>2, <1>3, <3>1, <3>2 DEF PoolTypes, Free
    <3>4. taken'[fds[clientfd[s]]] = taken[fds[clientfd[s]]]
      BY <1>1, <1>2, <3>3 DEF NetTypes
    <3> QED
      BY <1>1, <1>8, <2>1, <3>2, <3>4 DEF Readable
  <2>3. CASE at' = "check"
    BY <1>1, <1>8, <2>1, <2>2, <2>3 DEF Pass
  <2>4. CASE at' = "write"
    BY <1>1, <1>2, <1>4, <1>8, <2>1, <2>2, <2>4 DEF Pass
  <2> QED
    BY <1>4, <2>3, <2>4
<1> QED
  BY <1>5, <1>7, <1>9 DEF Inv

(* With a line echoed the loop goes on.                                     *)
LEMMA WriteKeeps ==
  ASSUME Inv, Write
  PROVE  Inv'
<1>1. /\ at = "write" /\ at' = "check" /\ i' = i + 1
      /\ UNCHANGED <<conn, sent, end, taken, pool, fds>>
      /\ UNCHANGED <<maxfd, read_set, ready_set, nready, maxi, clientfd, clientrio>>
  BY DEF Write, pool
<1>2. NetTypes' /\ i' \in Nat
  BY <1>1 DEF Inv, NetTypes, PoolTypes
<1>3. PoolTypes' /\ Books' /\ Occupied' = Occupied /\ \A k : Ready(k)' = Ready(k)
  BY <1>1, <1>2, PoolAlone
<1>4. Todo' = Todo
  BY <1>1 DEF Todo, FirstLeft, Ready
<1>5. Pass'
  <2>1. \A f : Readable(f)' = Readable(f)
    BY <1>1 DEF Readable, Backlog
  <2> QED
    BY <1>1, <1>4, <2>1 DEF Inv, Pass, InPass
<1> QED
  BY <1>2, <1>3, <1>5 DEF Inv

(* Every step keeps the invariant.                                          *)
LEMMA NextInv == Inv /\ [Next]_vars => Inv'
<1> SUFFICES ASSUME Inv, [Next]_vars PROVE Inv'
  OBVIOUS
<1>1. ASSUME NEW c \in Clients, ClientStep(c), UNCHANGED <<pool, fds, at, i, line>> PROVE Inv'
  BY <1>1, ClientKeeps
<1>2. CASE ServerStep
  BY <1>2, SelectKeeps, AcceptKeeps, EndKeeps, CheckReadyKeeps, CheckOtherKeeps, ReadKeeps,
     WriteKeeps DEF ServerStep
<1>3. CASE UNCHANGED vars
  <2>1. UNCHANGED <<net, pool, fds, at, i, nready>>
    BY <1>3 DEF vars, pool
  <2>2. NetTypes' /\ i' \in Nat /\ at' \in {"select", "accept", "check", "read", "write", "exited"}
    BY <2>1 DEF Inv, NetTypes, PoolTypes, net
  <2>3. {d \in Clients : conn'[d] = "open"} = {d \in Clients : conn[d] = "open"}
    BY <2>1 DEF net
  <2>4. PoolTypes' /\ Books' /\ \A k : Ready(k)' = Ready(k)
    BY <2>1, <2>2, <2>3, PoolAlone
  <2>5. Todo' = Todo
    BY <2>1, <2>4 DEF Todo, FirstLeft
  <2>6. \A f : Readable(f)' = Readable(f)
    BY <2>1 DEF Readable, net, Backlog
  <2>7. Pass'
    BY <2>1, <2>5, <2>6 DEF Inv, Pass, InPass, pool
  <2> QED
    BY <2>2, <2>4, <2>7 DEF Inv
<1> QED
  BY <1>1, <1>2, <1>3 DEF Next

-----------------------------------------------------------------------------
(* The invariant holds always.                                              *)
THEOREM Invariance == Spec => []Inv
BY InitInv, NextInv, PTL DEF Spec

(* Slots, descriptors and read_set agree for any number of clients, and     *)
(* there is a slot for every descriptor that accept can return.             *)
THEOREM PoolCorrect == Spec => []PoolIsExact
<1>1. Inv => PoolIsExact
  BY SlotLeft DEF Inv, Books, PoolIsExact
<1> QED
  BY <1>1, Invariance, PTL

(* nready is what the loop has still to visit, for any number of clients.   *)
THEOREM CountCorrect == Spec => []NReadyIsExact
<1>1. Inv => NReadyIsExact
  <2> SUFFICES ASSUME Inv, at \in {"check", "read", "write"} PROVE NReadyIsExact
    BY DEF NReadyIsExact
  <2> DEFINE first == IF at = "check" THEN i ELSE i + 1
  <2>1. Todo = {s \in Slots : s >= first /\ clientfd[s] \in ready_set}
    BY DEF Todo, FirstLeft, Ready
  <2>2. Todo = {s \in Occupied : s >= first /\ clientfd[s] \in ready_set}
    BY <2>1, SlotFree DEF SlotsHoldFds, Inv
  <2>3. nready = Cardinality(Todo)
    <3>1. Cardinality(Todo) \in Nat
      BY TodoFinite DEF Todo
    <3> QED
      BY <3>1 DEF Inv, Pass, InPass
  <2> QED
    BY <2>2, <2>3 DEF NReadyIsExact
<1> QED
  BY <1>1, Invariance, PTL

(* Where a client is read from, something that it sent or its end is there  *)
(* to be read; the read may still block for the rest of a line.             *)
THEOREM ReadsCorrect == Spec => []ReadsFindInput
<1>1. Inv => ReadsFindInput
  <2> SUFFICES ASSUME Inv, at = "read" PROVE clientfd[i] = clientrio[i] /\ Readable(clientfd[i])
    BY DEF ReadsFindInput
  <2>1. i \in Slots /\ clientfd[i] \in ready_set /\ Readable(clientfd[i])
    BY DEF Inv, Pass, InPass
  <2>2. i \in Occupied
    BY <2>1, SlotFree DEF SlotsHoldFds, Inv
  <2> QED
    BY <2>1, <2>2, InHand DEF Inv
<1> QED
  BY <1>1, Invariance, PTL

-----------------------------------------------------------------------------
(* Types.                                                                   *)

TwoLines == 0..(2 * MaxLines)

\* What the invariant says nothing of: the numbers and what was echoed.
NumberTypes ==
  /\ maxfd \in Fds \cup {LISTENFD} /\ i \in 0..FD_SETSIZE
  /\ nready \in 0..(Cardinality(Fds) + 1)
LineTypes ==
  /\ line \in TwoLines \X TwoLines
  /\ echoed \in [Clients -> Seq(1..(2 * MaxLines))]

Types == Inv /\ NumberTypes /\ LineTypes

LEMMA TypesAreTypeOK == Types => TypeOK
BY DEF Types, Inv, NetTypes, PoolTypes, NumberTypes, LineTypes, TwoLines, TypeOK, NetTypeOK

LEMMA NumberKept ==
  NumberTypes /\ UNCHANGED <<maxfd, i, nready>> => NumberTypes'
BY DEF NumberTypes

LEMMA LineKept == LineTypes /\ UNCHANGED <<line, echoed>> => LineTypes'
BY DEF LineTypes

LEMMA Ranges ==
  /\ FD_SETSIZE \in Nat /\ Cardinality(Fds) \in Nat /\ 2 * MaxLines \in Nat
BY Numbers, NetAssumption, FS_CardinalityType

(* A ready set is no larger than the set of all descriptors.                *)
LEMMA SelectNumbers ==
  ASSUME Inv, NumberTypes, Select
  PROVE  NumberTypes'
<1>1. ready_set' \subseteq Fds \cup {LISTENFD} /\ nready' = Cardinality(ready_set')
  BY DEF Select, Watched, Inv, PoolTypes
<1>2. IsFiniteSet(Fds) /\ LISTENFD \notin Fds
  BY Numbers
<1>3. /\ Cardinality(Fds \cup {LISTENFD}) = Cardinality(Fds) + 1
      /\ IsFiniteSet(Fds \cup {LISTENFD})
  BY <1>2, FS_AddElement
<1>4. /\ Cardinality(ready_set') <= Cardinality(Fds) + 1 /\ IsFiniteSet(ready_set')
  BY <1>1, <1>3, FS_Subset
<1>5. Cardinality(ready_set') \in Nat
  BY <1>4, FS_CardinalityType
<1>6. nready' \in 0..(Cardinality(Fds) + 1)
  BY <1>1, <1>4, <1>5, Ranges
<1>7. i' = 0 /\ maxfd' = maxfd
  BY DEF Select
<1> QED
  BY <1>6, <1>7, Ranges DEF NumberTypes

(* accept has been counted, so one can be taken off.                        *)
LEMMA AcceptNumbers ==
  ASSUME Inv, NumberTypes, NEW c \in Clients, Accept(c)
  PROVE  NumberTypes'
<1> DEFINE connfd == Min(Free(fds))
<1>1. /\ at = "accept" /\ Free(fds) # {} /\ maxfd' = Raised(maxfd, connfd)
      /\ nready' = nready - 1 /\ i' = i
  BY DEF Accept, Uncounted
<1>2. connfd \in Fds
  <2>1. Free(fds) \subseteq Nat
    BY Numbers DEF Free
  <2>2. connfd \in Free(fds)
    BY <1>1, <2>1, Smallest
  <2> QED
    BY <2>2 DEF Free
<1> HIDE DEF connfd
<1>3. maxfd' \in Fds \cup {LISTENFD}
  BY <1>1, <1>2 DEF Raised, NumberTypes
<1>4. nready >= 1
  <2>1. Cardinality(Todo) \in Nat
    BY TodoFinite DEF Todo
  <2>2. nready = Cardinality(Todo) + 1
    BY <1>1 DEF Inv, Pass, InPass
  <2> QED
    BY <2>1, <2>2
<1>5. nready' \in 0..(Cardinality(Fds) + 1)
  BY <1>1, <1>4, Ranges DEF NumberTypes
<1> QED
  BY <1>1, <1>3, <1>5 DEF NumberTypes

(* A step of the loop ends at most one slot further on.                     *)
LEMMA LoopNumbers ==
  ASSUME Inv, NumberTypes, i \in Slots, i' \in {i, i + 1}, maxfd' = maxfd,
         nready' = nready \/ (nready > 0 /\ nready' = nready - 1)
  PROVE  NumberTypes'
<1>1. i' \in 0..FD_SETSIZE
  BY Numbers DEF Slots
<1>2. nready' \in 0..(Cardinality(Fds) + 1)
  <2>1. nready \in 0..(Cardinality(Fds) + 1)
    BY DEF NumberTypes
  <2> QED
    BY <2>1, Ranges
<1> QED
  BY <1>1, <1>2 DEF NumberTypes

(* What is read from a client and what is echoed to it are halves of lines  *)
(* it has sent.                                                             *)
LEMMA ReadLines ==
  ASSUME Inv, LineTypes, Client \in Clients, Read
  PROVE  LineTypes'
<1>1. PICK n \in LineResults(Client) : line' = <<taken[Client], taken[Client] + n>>
  BY DEF Read
<1>2. n \in Nat /\ taken[Client] + n <= sent[Client]
  BY LineLength DEF Inv
<1>3. taken[Client] \in TwoLines /\ sent[Client] \in TwoLines
  BY DEF Inv, NetTypes, TwoLines
<1>4. taken[Client] + n \in TwoLines
  BY <1>2, <1>3, Ranges DEF TwoLines
<1>5. line' \in TwoLines \X TwoLines
  BY <1>1, <1>3, <1>4
<1>6. echoed' = echoed
  BY DEF Read
<1> QED
  BY <1>5, <1>6 DEF LineTypes

LEMMA WriteLines ==
  ASSUME Inv, LineTypes, Client \in Clients, Write
  PROVE  LineTypes'
<1> DEFINE a == line[1]
           b == line[2]
           S == 1..(2 * MaxLines)
<1>1. a \in TwoLines /\ b \in TwoLines
  BY DEF LineTypes
<1>2. line' = <<0, 0>> /\ echoed' = [echoed EXCEPT ![Client] = @ \o Halves(a, b)]
  BY DEF Write
<1> HIDE DEF a, b
<1>3. Halves(a, b) \in Seq(S)
  <2>1. \A k \in 1..(b - a) : a + k \in S
    BY <1>1, Ranges DEF TwoLines
  <2>2. b - a \in Int
    BY <1>1, Ranges DEF TwoLines
  <2>3. CASE b - a >= 0
    <3> DEFINE n == b - a
    <3>1. n \in Nat /\ Halves(a, b) = [k \in 1..n |-> a + k]
      BY <2>2, <2>3 DEF Halves
    <3>2. \A k \in 1..n : a + k \in S
      BY <2>1
    <3> HIDE DEF n, S
    <3> QED
      BY <3>1, <3>2
  <2>4. CASE ~(b - a >= 0)
    <3>1. 1..(b - a) = {}
      BY <2>2, <2>4
    <3>2. Halves(a, b) = <<>>
      BY <3>1 DEF Halves
    <3> QED
      BY <3>2
  <2> QED
    BY <2>3, <2>4
<1>4. echoed \in [Clients -> Seq(S)]
  BY DEF LineTypes
<1> HIDE DEF S
<1>5. echoed[Client] \o Halves(a, b) \in Seq(S)
  BY <1>3, <1>4
<1>6. echoed' \in [Clients -> Seq(S)]
  BY <1>2, <1>4, <1>5
<1>7. line' \in TwoLines \X TwoLines
  BY <1>2, Ranges DEF TwoLines
<1> QED
  BY <1>6, <1>7 DEF LineTypes, S

LEMMA TypesNext == Types /\ [Next]_vars => Types'
<1> SUFFICES ASSUME Types, [Next]_vars PROVE Types'
  OBVIOUS
<1>a. Inv /\ NumberTypes /\ LineTypes /\ Inv'
  BY NextInv DEF Types
<1>b. ASSUME NumberTypes', LineTypes' PROVE Types'
  BY <1>a, <1>b DEF Types
<1>c. ASSUME InLoop PROVE i \in Slots /\ nready > 0
  BY <1>a, <1>c, LoopSlot DEF Inv, InLoop
<1>d. ASSUME at \in {"read", "write"} PROVE i \in Slots /\ Client \in Clients
  <2>1. i \in Slots /\ clientfd[i] \in ready_set
    BY <1>a, <1>d DEF Inv, Pass, InPass
  <2>2. i \in Occupied
    BY <1>a, <2>1, SlotFree DEF SlotsHoldFds, Inv
  <2> QED
    BY <1>a, <2>1, <2>2, InHand DEF Inv
<1>1. ASSUME NEW c \in Clients, ClientStep(c), UNCHANGED <<pool, fds, at, i, line>> PROVE Types'
  <2>1. UNCHANGED <<maxfd, nready, i, line, echoed>>
    BY <1>1 DEF pool, ClientStep, Dial, Sends, Ends
  <2> QED
    BY <1>a, <1>b, <2>1, NumberKept, LineKept
<1>2. CASE Select
  <2>1. UNCHANGED <<line, echoed>>
    BY <1>2 DEF Select, net
  <2> QED
    BY <1>2, <1>a, <1>b, <2>1, SelectNumbers, LineKept
<1>3. ASSUME NEW c \in Clients, Accept(c) PROVE Types'
  <2>1. UNCHANGED <<line, echoed>>
    BY <1>3 DEF Accept
  <2> QED
    BY <1>3, <1>a, <1>b, <2>1, AcceptNumbers, LineKept
<1>4. CASE AcceptFails \/ LoopEnds \/ CheckEmpty \/ Fails
  <2>1. UNCHANGED <<maxfd, nready, i, line, echoed>>
    BY <1>4 DEF pool, net, AcceptFails, LoopEnds, CheckEmpty, Fails
  <2> QED
    BY <1>a, <1>b, <2>1, NumberKept, LineKept
<1>5. CASE CheckReady \/ CheckOther
  <2>1. InLoop /\ UNCHANGED <<maxfd, line, echoed>>
    BY <1>5 DEF CheckReady, CheckOther, net
  <2>2. i' \in {i, i + 1} /\ (nready' = nready \/ nready' = nready - 1)
    BY <1>5 DEF CheckReady, CheckOther
  <2> QED
    BY <1>a, <1>b, <1>c, <2>1, <2>2, LoopNumbers, LineKept
<1>6. CASE Read
  <2>1. i' \in {i, i + 1} /\ UNCHANGED <<maxfd, nready>> /\ at = "read"
    BY <1>6 DEF Read, pool
  <2>2. NumberTypes'
    BY <1>a, <1>d, <2>1, LoopNumbers
  <2>3. LineTypes'
    BY <1>6, <1>a, <1>d, <2>1, ReadLines
  <2> QED
    BY <1>b, <2>2, <2>3
<1>7. CASE Write
  <2>1. i' \in {i, i + 1} /\ UNCHANGED <<maxfd, nready>> /\ at = "write"
    BY <1>7 DEF Write, pool
  <2>2. NumberTypes'
    BY <1>a, <1>d, <2>1, LoopNumbers
  <2>3. LineTypes'
    BY <1>7, <1>a, <1>d, <2>1, WriteLines
  <2> QED
    BY <1>b, <2>2, <2>3
<1>8. CASE UNCHANGED vars
  <2>1. UNCHANGED <<maxfd, nready, i, line, echoed>>
    BY <1>8 DEF vars, pool, net
  <2> QED
    BY <1>a, <1>b, <2>1, NumberKept, LineKept
<1> QED
  BY <1>1, <1>2, <1>3, <1>4, <1>5, <1>6, <1>7, <1>8 DEF Next, ServerStep

(* Every variable of echo4 holds a value of its kind, and the numbers stay  *)
(* within the arrays and the sets they are about.                           *)
THEOREM TypeCorrect == Spec => []TypeOK
<1>1. Init => Types
  <2> SUFFICES ASSUME Init PROVE Types
    OBVIOUS
  <2>1. NumberTypes
    BY Ranges DEF Init, NumberTypes
  <2>2. LineTypes
    BY Ranges DEF Init, NetInit, LineTypes, TwoLines
  <2> QED
    BY <2>1, <2>2, InitInv DEF Types
<1> QED
  BY <1>1, TypesAreTypeOK, TypesNext, PTL DEF Spec

-----------------------------------------------------------------------------
(* Both programs that wait for events.                                      *)

(* A behaviour of the two is one of each.                                   *)
LEMMA TwoPrograms == MCSpec => Spec /\ Epoll!Spec
<1>1. MCInit => Init /\ Epoll!Init
  BY DEF MCInit
<1>2. [Echo(Next) \/ Ep(Epoll!Next)]_all => [Next]_vars
  BY DEF Echo, Ep, all
<1>3. [Echo(Next) \/ Ep(Epoll!Next)]_all => [Epoll!Next]_(Epoll!vars)
  BY DEF Echo, Ep, all, epollvars, Epoll!vars, Epoll!tcp, Epoll!server
<1> QED
  BY <1>1, <1>2, <1>3, PTL DEF MCSpec, Spec, Epoll!Spec

(* The variables of both programs hold what they are declared to hold, for  *)
(* any number of clients and descriptors.                                   *)
THEOREM TypesCorrect == MCSpec => []TypesOK
<1>1. Epoll!Spec => []Epoll!TypeOK
  BY EpollHolds, Epoll!TypeCorrect
<1>2. TypeOK /\ Epoll!TypeOK => TypesOK
  BY DEF TypesOK
<1> QED
  BY <1>1, <1>2, TwoPrograms, TypeCorrect, PTL

(* An event of epoll_wait is for the connection under its descriptor and    *)
(* main's read of it does not block, although descriptors are closed and    *)
(* given out again in the midst of a batch (server.c).                      *)
THEOREM EventsCorrect == MCSpec => []EventsAreCurrent
<1>1. Epoll!Spec => []Epoll!EventsAreCurrent
  BY EpollHolds, Epoll!EventsCorrect
<1>2. Epoll!EventsAreCurrent <=> EventsAreCurrent
  BY DEF EventsAreCurrent
<1> QED
  BY <1>1, <1>2, TwoPrograms, PTL

(* Of edge-triggered events none is lost: an open connection with something *)
(* to read is in epoll's queue, in the batch or in main's hands (server.c). *)
THEOREM EdgesCorrect == MCSpec => []NoEdgeIsLost
<1>1. Epoll!Spec => []Epoll!NoEdgeIsLost
  BY EpollHolds, Epoll!EdgesCorrect
<1>2. Epoll!NoEdgeIsLost <=> NoEdgeIsLost
  BY DEF NoEdgeIsLost
<1> QED
  BY <1>1, <1>2, TwoPrograms, PTL
=============================================================================
