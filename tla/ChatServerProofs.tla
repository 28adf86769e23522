-------------------------- MODULE ChatServerProofs --------------------------
(***************************************************************************)
(* Proofs about ChatServer, for any set of clients, any number of commands *)
(* and any window.  First what the goroutines that hold s.mutex keep among *)
(* themselves: type correctness, and that the registry is exact.  Then     *)
(* what the broadcasts meet, which walk s.clients without it.              *)
(***************************************************************************)
EXTENDS ChatServer, FiniteSetTheorems, SequenceTheorems, TLAPS

\* The holder of s.mutex is the one goroutine inside the critical section of
\* accept or of remove, and Start is in accept for one connection at a time.
MutexInv ==
  /\ \A c \in Clients : phase[c] \in Registering \ {"accepted"} => mutex = "acceptor"
  /\ \A c \in Clients : phase[c] \in Removing => mutex = c
  /\ \A c, d \in Clients :
       phase[c] \in Registering /\ phase[d] \in Registering => c = d

\* append has room before it stores the longer header.
AppendInv ==
  \A c \in Clients : /\ phase[c] = "len" => len < Len(Array)
                     /\ phase[c] = "elem" => len > 0

\* The range loop of remove.  Before its match it is over the slice as it is.
\* From then on the client is in no slot the loop has still to look at.
ScanInv ==
  \A c \in Clients :
    /\ phase[c] \in {"scan", "shift", "rescan"} =>
         scan.ptr = ptr /\ scan.len <= Len(Array)
    /\ phase[c] = "scan" => scan.at = 1 /\ scan.len = len
    /\ phase[c] = "shift" =>
         scan.gap \in 1..len /\ scan.len = len /\ scan.at \in 2..(scan.gap + 1)
    /\ phase[c] \in {"shift", "rescan"} => Hits(c) = {}

\* A broadcast that has loaded the pointer of a header points into the heap.
PointerInv ==
  \A b \in DOMAIN bc : /\ bc[b].ptr \in 0..Len(heap)
                       /\ bc[b].pc \in {"fetch", "write"} => bc[b].ptr # 0

\* The inductive invariant of the goroutines that hold the mutex.
IInv == TypeOK /\ MutexInv /\ AppendInv /\ ScanInv /\ PointerInv /\ RegistryExact

-----------------------------------------------------------------------------
USE ChatAssumption

\* The initial state satisfies the invariant.
LEMMA InitInv == Init => IInv
<1> SUFFICES ASSUME Init PROVE IInv
  OBVIOUS
<1>1. TypeOK
  <2>1. heap \in Seq(Seq(Clients \cup {Nil})) /\ ptr \in DOMAIN heap /\ len = Len(heap[ptr])
    <3>1. <<>> \in Seq(Clients \cup {Nil})
      BY EmptySeq
    <3> QED
      BY <3>1 DEF Init
  <2>2. bc \in Seq(Broadcasts)
    BY DEF Init
  <2>3. inbox \in [Clients -> Seq(Commands)] /\ got \in [Clients -> Seq(DOMAIN bc)]
    BY DEF Init
  <2>4. len \in 0..Len(heap[ptr])
    BY <2>1 DEF Init
  <2>5. scan \in [ptr : Nat, len : Nat, at : Nat, gap : Nat]
    BY DEF Init, NoScan
  <2>6. phase \in [Clients -> Phases]
    BY DEF Init, Phases
  <2>7. /\ name \in [Clients -> Names \cup {NoName}]
        /\ chosen \in [Clients -> Names \cup {NoName}]
        /\ peer \in [Clients -> {"none", "open", "closed", "reset"}]
    BY DEF Init
  <2>9. unread \in [Clients -> 0..Window] /\ cmds \in 0..MaxCmds /\ fault \in BOOLEAN
    <3>1. 0 \in 0..Window /\ 0 \in 0..MaxCmds
      OBVIOUS
    <3> QED
      BY <3>1 DEF Init
  <2>8. /\ listener \in {"none", "failed", "open", "closed"}
        /\ mutex \in Clients \cup {"nobody", "acceptor"}
    BY DEF Init
  <2> QED
    BY <2>1, <2>2, <2>3, <2>4, <2>5, <2>6, <2>7, <2>8, <2>9 DEF TypeOK
<1>2. MutexInv
  BY DEF Init, MutexInv, Registering, Removing
<1>3. AppendInv /\ ScanInv /\ PointerInv
  BY DEF Init, AppendInv, ScanInv, PointerInv
<1>4. RegistryExact
  BY DEF Init, RegistryExact, Live, Present
<1> QED
  BY <1>1, <1>2, <1>3, <1>4 DEF IInv

\* The ghosts of a broadcast change nothing else of it.
LEMMA MarkKeeps ==
  ASSUME TypeOK, MarkJoin \/ MarkLeave
  PROVE  /\ bc' \in Seq(Broadcasts) /\ DOMAIN bc' = DOMAIN bc
         /\ \A b \in DOMAIN bc : bc'[b].ptr = bc[b].ptr /\ bc'[b].pc = bc[b].pc
<1>1. bc \in Seq(Broadcasts) /\ DOMAIN bc = 1..Len(bc) /\ Len(bc) \in Nat
  BY DEF TypeOK
<1>2. \A b \in DOMAIN bc : /\ bc[b] \in Broadcasts
                           /\ (bc[b].join \/ Active(b)) \in BOOLEAN
                           /\ (bc[b].leave \/ Active(b)) \in BOOLEAN
  BY <1>1 DEF Active
<1>3. DOMAIN bc' = DOMAIN bc
  BY DEF MarkJoin, MarkLeave
<1>4. \A b \in DOMAIN bc : /\ bc'[b] \in Broadcasts
                           /\ bc'[b].ptr = bc[b].ptr /\ bc'[b].pc = bc[b].pc
  <2> SUFFICES ASSUME NEW b \in DOMAIN bc
               PROVE  /\ bc'[b] \in Broadcasts
                      /\ bc'[b].ptr = bc[b].ptr /\ bc'[b].pc = bc[b].pc
    OBVIOUS
  <2>1. PICK v \in BOOLEAN : \/ bc'[b] = [bc[b] EXCEPT !.join = v]
                             \/ bc'[b] = [bc[b] EXCEPT !.leave = v]
    <3>1. CASE MarkJoin
      <4>1. bc'[b] = [bc[b] EXCEPT !.join = bc[b].join \/ Active(b)]
        BY <3>1, Zenon DEF MarkJoin
      <4> QED
        BY <1>2, <4>1, Zenon
    <3>2. CASE MarkLeave
      <4>1. bc'[b] = [bc[b] EXCEPT !.leave = bc[b].leave \/ Active(b)]
        BY <3>2, Zenon DEF MarkLeave
      <4> QED
        BY <1>2, <4>1, Zenon
    <3> QED
      BY <3>1, <3>2
  <2>2. bc[b] \in Broadcasts
    BY <1>2
  <2>3. CASE bc'[b] = [bc[b] EXCEPT !.join = v]
    BY <2>2, <2>3 DEF Broadcasts
  <2>4. CASE bc'[b] = [bc[b] EXCEPT !.leave = v]
    BY <2>2, <2>4 DEF Broadcasts
  <2> QED
    BY <2>1, <2>3, <2>4
<1>5. bc' = [b \in 1..Len(bc) |-> bc'[b]]
  BY <1>1 DEF MarkJoin, MarkLeave
<1>6. bc' \in Seq(Broadcasts)
  BY <1>1, <1>4, <1>5, SeqDef
<1> QED
  BY <1>3, <1>4, <1>6

\* The larger array is long enough, and starts with what the old one held.
LEMMA GrownProperties ==
  ASSUME NEW S, Nil \in S, NEW a \in Seq(S)
  PROVE  /\ Grown(a) \in Seq(S)
         /\ Len(a) < Len(Grown(a))
         /\ \A i \in 1..Len(a) : Grown(a)[i] = a[i]
<1> DEFINE n == IF a = <<>> THEN 1 ELSE 2 * Len(a)
<1>1. n \in Nat /\ Len(a) < n /\ Len(a) \in Nat
  BY EmptySeq
<1>2. Grown(a) = [i \in 1..n |-> IF i <= Len(a) THEN a[i] ELSE Nil]
  BY DEF Grown
<1>3. \A i \in 1..n : (IF i <= Len(a) THEN a[i] ELSE Nil) \in S
  BY <1>1
<1> HIDE DEF n
<1>4. Grown(a) \in [1..n -> S]
  BY <1>2, <1>3
<1>5. Grown(a) \in Seq(S) /\ Len(Grown(a)) = n
  BY <1>1, <1>4
<1> QED
  BY <1>1, <1>2, <1>5

\* A store to one slot of the current array changes that slot and nothing else.
LEMMA StoreProperties ==
  ASSUME NEW S, heap \in Seq(Seq(S)), ptr \in DOMAIN heap,
         NEW i \in 1..Len(Array), NEW e \in S,
         NEW h, h = [heap EXCEPT ![ptr] = [@ EXCEPT ![i] = e]]
  PROVE  /\ h \in Seq(Seq(S)) /\ DOMAIN h = DOMAIN heap
         /\ Len(h[ptr]) = Len(Array)
         /\ \A j \in 1..Len(Array) : h[ptr][j] = IF j = i THEN e ELSE Array[j]
<1>1. Array \in Seq(S) /\ ptr \in 1..Len(heap)
  BY DEF Array
<1> DEFINE a == [Array EXCEPT ![i] = e]
<1>2. /\ a \in Seq(S) /\ Len(a) = Len(Array)
      /\ \A j \in 1..Len(Array) : a[j] = IF j = i THEN e ELSE Array[j]
  BY <1>1, ExceptSeq
<1>3. h = [heap EXCEPT ![ptr] = a]
  BY DEF Array
<1> HIDE DEF a
<1>4. /\ [heap EXCEPT ![ptr] = a] \in Seq(Seq(S))
      /\ DOMAIN [heap EXCEPT ![ptr] = a] = DOMAIN heap
      /\ [heap EXCEPT ![ptr] = a][ptr] = a
  BY <1>1, <1>2, ExceptSeq
<1> QED
  BY <1>2, <1>3, <1>4

\* A store into an element of the current array.
LEMMA StoreKeeps ==
  ASSUME TypeOK, NEW i \in 1..Len(Array), NEW e \in Clients \cup {Nil},
         heap' = [heap EXCEPT ![ptr] = [@ EXCEPT ![i] = e]]
  PROVE  /\ heap' \in Seq(Seq(Clients \cup {Nil})) /\ DOMAIN heap' = DOMAIN heap
         /\ Len(heap'[ptr]) = Len(Array)
         /\ \A j \in 1..Len(Array) : heap'[ptr][j] = IF j = i THEN e ELSE Array[j]
<1> DEFINE S == Clients \cup {Nil}
           h == heap'
<1>1. heap \in Seq(Seq(S)) /\ ptr \in DOMAIN heap /\ e \in S
  BY DEF TypeOK
<1>2. h = [heap EXCEPT ![ptr] = [@ EXCEPT ![i] = e]]
  OBVIOUS
<1> HIDE DEF S, h
<1>3. /\ h \in Seq(Seq(S)) /\ DOMAIN h = DOMAIN heap
      /\ Len(h[ptr]) = Len(Array)
      /\ \A j \in 1..Len(Array) : h[ptr][j] = IF j = i THEN e ELSE Array[j]
  BY <1>1, <1>2, StoreProperties
<1> QED
  BY <1>3 DEF S, h

\* A broadcast starts with its header not loaded and with the sender's name.
LEMMA NewBroadcastType ==
  ASSUME TypeOK, NEW c \in Clients, NEW cmd \in Commands
  PROVE  NewBroadcast(c, cmd) \in Broadcasts
<1>1. Present \in SUBSET Clients
  BY DEF Present
<1>2. name[c] \in Names \cup {NoName} /\ cmd.name \in Names \cup {NoName}
  BY DEF TypeOK, Commands
<1> QED
  BY <1>1, <1>2 DEF NewBroadcast, Broadcasts

\* Every step keeps every variable in its type.
LEMMA TypeNext == IInv /\ [Next]_vars => TypeOK'
<1> SUFFICES ASSUME IInv, [Next]_vars PROVE TypeOK'
  OBVIOUS
<1> USE DEF IInv
<1> DEFINE Slots == Clients \cup {Nil}
<1>a. /\ bc \in Seq(Broadcasts) /\ DOMAIN bc = 1..Len(bc)
      /\ heap \in Seq(Seq(Slots)) /\ DOMAIN heap = 1..Len(heap)
  BY DEF TypeOK
<1>b. /\ inbox \in [Clients -> Seq(Commands)] /\ chosen \in [Clients -> Names \cup {NoName}]
      /\ unread \in [Clients -> 0..Window] /\ got \in [Clients -> Seq(DOMAIN bc)]
  BY DEF TypeOK
<1>c. scan \in [ptr : Nat, len : Nat, at : Nat, gap : Nat]
  BY DEF TypeOK
<1>d. ptr \in Nat /\ len \in Nat
  BY <1>a DEF TypeOK
<1>1. ASSUME NEW c \in Clients, PeerStep(c) PROVE TypeOK'
  <2>1. CASE Dial(c)
    BY <2>1 DEF Dial, TypeOK, Goto, Phases, slice
  <2>2. CASE PeerSends(c)
    <3>1. PICK cmd \in Commands : Command(c, cmd)
      BY <1>b, <2>2 DEF PeerSends, Commands
    <3>2. inbox' \in [Clients -> Seq(Commands)]
      BY <1>b, <3>1 DEF Command
    <3>3. chosen' \in [Clients -> Names \cup {NoName}]
      BY <1>b, <3>1 DEF Command, Commands
    <3>4. cmds' \in 0..MaxCmds
      BY <2>2 DEF PeerSends, TypeOK
    <3> QED
      BY <2>2, <3>2, <3>3, <3>4 DEF PeerSends, TypeOK, slice
  <2>3. CASE PeerReads(c)
    <3>1. unread' \in [Clients -> 0..Window]
      BY <1>b, <2>3 DEF PeerReads
    <3> QED
      BY <2>3, <3>1 DEF PeerReads, TypeOK, slice
  <2>4. CASE PeerLeaves(c)
    <3>1. inbox' \in [Clients -> Seq(Commands)]
      <4>1. <<>> \in Seq(Commands)
        BY EmptySeq
      <4> QED
        BY <1>b, <2>4, <4>1 DEF PeerLeaves
    <3>2. peer' \in [Clients -> {"none", "open", "closed", "reset"}]
      BY <2>4 DEF PeerLeaves, TypeOK
    <3> QED
      BY <2>4, <3>1, <3>2 DEF PeerLeaves, TypeOK, slice
  <2> QED
    BY <1>1, <2>1, <2>2, <2>3, <2>4 DEF PeerStep
<1>2. CASE StartStep
  <2>1. CASE Listen \/ AcceptOnNil
    BY <2>1 DEF Listen, AcceptOnNil, TypeOK, slice, net
  <2>2. ASSUME NEW c \in Clients, Accept(c) \/ AcceptLock(c) \/ AcceptUnlock(c)
        PROVE TypeOK'
    BY <2>2 DEF Accept, AcceptLock, AcceptUnlock, TypeOK, Goto, Phases, Registering,
                slice, net
  <2>3. ASSUME NEW c \in Clients, AppendPtr(c) PROVE TypeOK'
    <3>1. Array \in Seq(Slots) /\ len \in 0..Len(Array)
      BY <1>a DEF TypeOK, Array
    <3>2. Grown(Array) \in Seq(Slots) /\ Len(Array) <= Len(Grown(Array))
      BY <3>1, GrownProperties
    <3>3. /\ heap' \in Seq(Seq(Slots)) /\ ptr' \in DOMAIN heap'
          /\ heap'[ptr'] = Grown(Array)
      BY <1>a, <2>3, <3>2, AppendProperties DEF AppendPtr
    <3>4. len' \in 0..Len(heap'[ptr'])
      <4>1. Len(Grown(Array)) \in Nat
        BY <3>2
      <4> QED
        BY <2>3, <3>1, <3>2, <3>3, <4>1 DEF AppendPtr
    <3>5. phase' \in [Clients -> Phases]
      BY <2>3 DEF AppendPtr, Goto, TypeOK, Phases, Registering
    <3>6. bc' \in Seq(Broadcasts) /\ DOMAIN bc' = DOMAIN bc
      BY <2>3, MarkKeeps DEF AppendPtr
    <3> QED
      BY <2>3, <3>3, <3>4, <3>5, <3>6 DEF AppendPtr, TypeOK, net
  <2>4. ASSUME NEW c \in Clients, AppendLen(c) PROVE TypeOK'
    <3>1. len' \in 0..Len(heap'[ptr'])
      BY <1>a, <2>4 DEF AppendLen, AppendInv, TypeOK, Array
    <3>2. phase' \in [Clients -> Phases]
      BY <2>4 DEF AppendLen, Goto, TypeOK, Phases, Registering
    <3>3. bc' \in Seq(Broadcasts) /\ DOMAIN bc' = DOMAIN bc
      BY <2>4, MarkKeeps DEF AppendLen
    <3> QED
      BY <2>4, <3>1, <3>2, <3>3 DEF AppendLen, TypeOK, net
  <2>5. ASSUME NEW c \in Clients, AppendElem(c) PROVE TypeOK'
    <3>1. len \in 1..Len(Array) /\ Array \in Seq(Slots)
      BY <1>a, <2>5 DEF AppendElem, AppendInv, TypeOK, Array
    <3>2. heap' \in Seq(Seq(Slots)) /\ ptr' \in DOMAIN heap' /\ len' \in 0..Len(heap'[ptr'])
      <4>1. heap' = [heap EXCEPT ![ptr] = [@ EXCEPT ![len] = c]] /\ UNCHANGED <<ptr, len>>
        BY <2>5 DEF AppendElem
      <4>2. heap' \in Seq(Seq(Slots)) /\ DOMAIN heap' = DOMAIN heap
            /\ Len(heap'[ptr]) = Len(Array)
        BY <3>1, <4>1, StoreKeeps
      <4>3. ptr \in DOMAIN heap
        BY DEF TypeOK
      <4> QED
        BY <3>1, <4>1, <4>2, <4>3
    <3>3. phase' \in [Clients -> Phases]
      BY <2>5 DEF AppendElem, Goto, TypeOK, Phases, Registering
    <3>4. bc' \in Seq(Broadcasts) /\ DOMAIN bc' = DOMAIN bc
      BY <2>5, MarkKeeps DEF AppendElem
    <3> QED
      BY <2>5, <3>2, <3>3, <3>4 DEF AppendElem, TypeOK, net
  <2> QED
    BY <1>2, <2>1, <2>2, <2>3, <2>4, <2>5 DEF StartStep
<1>3. ASSUME NEW c \in Clients, ServeStep(c) PROVE TypeOK'
  <2>1. CASE ServeCommand(c)
    <3> DEFINE cmd == Head(inbox[c])
    <3>1. inbox[c] \in Seq(Commands) /\ inbox[c] # <<>>
      BY <2>1 DEF ServeCommand, TypeOK
    <3>2. cmd \in Commands /\ Tail(inbox[c]) \in Seq(Commands)
      BY <3>1, HeadTailProperties
    <3>3. inbox' \in [Clients -> Seq(Commands)]
      BY <2>1, <3>2 DEF ServeCommand, TypeOK
    <3>4. name' \in [Clients -> Names \cup {NoName}]
      BY <2>1, <3>2 DEF ServeCommand, TypeOK, Renamed, Commands
    <3>5. NewBroadcast(c, cmd) \in Broadcasts
      BY <3>2, NewBroadcastType
    <3>6. /\ bc' \in Seq(Broadcasts)
          /\ DOMAIN bc \subseteq DOMAIN bc'
      BY <1>a, <2>1, <3>5, AppendProperties DEF ServeCommand
    <3>7. got' \in [Clients -> Seq(DOMAIN bc')]
      BY <2>1, <3>6, SeqMonotonic DEF ServeCommand, TypeOK
    <3> QED
      BY <2>1, <3>3, <3>4, <3>6, <3>7 DEF ServeCommand, TypeOK, slice
  <2>2. CASE ServeError(c) \/ ServeEOF(c) \/ RemoveClose(c)
    BY <2>2 DEF ServeError, ServeEOF, RemoveClose, TypeOK, Goto, Phases, slice, net
  <2>3. CASE RemoveLock(c)
    <3>1. scan' \in [ptr : Nat, len : Nat, at : Nat, gap : Nat]
      BY <1>a, <2>3 DEF RemoveLock, TypeOK
    <3> QED
      BY <2>3, <3>1 DEF RemoveLock, TypeOK, Goto, Phases, Removing, slice, net
  <2>4. CASE RemoveMatch(c)
    <3>1. scan' \in [ptr : Nat, len : Nat, at : Nat, gap : Nat]
      <4>1. PICK i \in Hits(c) : scan' = [scan EXCEPT !.at = i + 1, !.gap = i]
        BY <2>4, Zenon DEF RemoveMatch
      <4>2. i \in Nat /\ i + 1 \in Nat
        BY <1>c, <4>1 DEF Hits
      <4>3. \A x, y \in Nat :
              [scan EXCEPT !.at = x, !.gap = y] \in [ptr : Nat, len : Nat, at : Nat, gap : Nat]
        BY <1>c
      <4> QED
        BY <4>1, <4>2, <4>3, Zenon
    <3> QED
      BY <2>4, <3>1 DEF RemoveMatch, TypeOK, Goto, Phases, Removing, slice, net
  <2>5. CASE RemoveDone(c)
    <3>1. scan' \in [ptr : Nat, len : Nat, at : Nat, gap : Nat]
      BY <2>5 DEF RemoveDone, NoScan
    <3> QED
      BY <2>5, <3>1 DEF RemoveDone, TypeOK, Goto, Phases, Removing, slice, net
  <2>6. CASE RemoveShift(c)
    <3>0. Array \in Seq(Slots) /\ len \in 0..Len(Array)
      BY <1>a DEF TypeOK, Array
    <3>1. scan.gap \in 1..Len(Array) /\ scan.gap + 1 \in 1..Len(Array)
      <4>1. scan.gap \in 1..len /\ scan.gap < len
        BY <2>6 DEF RemoveShift, ScanInv
      <4>2. Len(Array) \in Nat
        BY <3>0
      <4> QED
        BY <1>d, <3>0, <4>1, <4>2
    <3>2. Array[scan.gap + 1] \in Slots
      BY <3>0, <3>1, ElementOfSeq
    <3>3. heap' \in Seq(Seq(Slots)) /\ ptr' \in DOMAIN heap' /\ len' \in 0..Len(heap'[ptr'])
      <4>1. heap' = [heap EXCEPT ![ptr] = [@ EXCEPT ![scan.gap] = Array[scan.gap + 1]]]
        BY <2>6 DEF RemoveShift
      <4>2. /\ heap' \in Seq(Seq(Slots)) /\ DOMAIN heap' = DOMAIN heap
            /\ Len(heap'[ptr]) = Len(Array)
        BY <3>1, <3>2, <4>1, StoreKeeps
      <4> QED
        BY <2>6, <3>0, <4>2 DEF RemoveShift, TypeOK
    <3>4. scan' \in [ptr : Nat, len : Nat, at : Nat, gap : Nat]
      BY <1>c, <2>6 DEF RemoveShift
    <3>5. bc' \in Seq(Broadcasts) /\ DOMAIN bc' = DOMAIN bc
      BY <2>6, MarkKeeps DEF RemoveShift
    <3> QED
      BY <2>6, <3>3, <3>4, <3>5 DEF RemoveShift, TypeOK, net
  <2>7. CASE RemoveTrim(c)
    <3>1. len' \in 0..Len(heap'[ptr'])
      BY <1>a, <2>7 DEF RemoveTrim, ScanInv, TypeOK
    <3>2. phase' \in [Clients -> Phases]
      BY <2>7 DEF RemoveTrim, Goto, TypeOK, Phases, Removing
    <3>3. bc' \in Seq(Broadcasts) /\ DOMAIN bc' = DOMAIN bc
      BY <2>7, MarkKeeps DEF RemoveTrim
    <3> QED
      BY <2>7, <3>1, <3>2, <3>3 DEF RemoveTrim, TypeOK, net
  <2> QED
    BY <1>3, <2>1, <2>2, <2>3, <2>4, <2>5, <2>6, <2>7 DEF ServeStep
<1>4. ASSUME NEW b \in DOMAIN bc, BroadcastStep(b) PROVE TypeOK'
  <2>1. PICK r \in Broadcasts :
          bc' = bc \/ bc' = [bc EXCEPT ![b] = r]
    <3>0. bc[b] \in Broadcasts
      BY <1>a
    <3>1. CASE BroadcastLoad(b)
      <4>1. CASE bc' = [bc EXCEPT ![b] = Loaded([bc[b] EXCEPT !.ptr = ptr])]
        BY <1>d, <3>0, <4>1 DEF Loaded, Broadcasts
      <4>2. CASE bc' = [bc EXCEPT ![b] = Loaded([bc[b] EXCEPT !.len = len])]
        BY <1>d, <3>0, <4>2 DEF Loaded, Broadcasts
      <4> QED
        BY <3>1, <4>1, <4>2 DEF BroadcastLoad
    <3>2. CASE BroadcastFetch(b)
      <4>1. Slot(b) \in Slots
        <5>1. CASE bc[b].at \in DOMAIN heap[bc[b].ptr]
          <6>1. heap[bc[b].ptr] \in Seq(Slots)
            BY <1>a, <3>2 DEF BroadcastFetch, PointerInv
          <6> QED
            BY <5>1, <6>1 DEF Slot
        <5> QED
          BY <5>1 DEF Slot
      <4> QED
        BY <3>0, <3>2, <4>1 DEF BroadcastFetch, Broadcasts
    <3>3. CASE BroadcastWrite(b)
      <4> DEFINE r == [bc[b] EXCEPT !.pc = "fetch", !.at = @ + 1, !.to = Nil]
      <4>1. r \in Broadcasts
        <5>1. bc[b].at + 1 \in Nat
          BY <3>0 DEF Broadcasts
        <5>2. r = [bc[b] EXCEPT !.pc = "fetch", !.at = bc[b].at + 1, !.to = Nil]
          OBVIOUS
        <5>3. \A n \in Nat :
                [bc[b] EXCEPT !.pc = "fetch", !.at = n, !.to = Nil] \in Broadcasts
          BY <3>0 DEF Broadcasts
        <5> QED
          BY <5>1, <5>2, <5>3, Zenon
      <4>2. bc' = [bc EXCEPT ![b] = r]
        BY <3>3 DEF BroadcastWrite
      <4> QED
        BY <4>1, <4>2
    <3>4. CASE BroadcastDone(b)
      BY <3>0, <3>4 DEF BroadcastDone, Broadcasts
    <3> QED
      BY <1>4, <3>1, <3>2, <3>3, <3>4 DEF BroadcastStep
  <2>2. bc' \in Seq(Broadcasts) /\ DOMAIN bc' = DOMAIN bc
    <3>1. b \in 1..Len(bc)
      BY <1>a
    <3>2. /\ [bc EXCEPT ![b] = r] \in Seq(Broadcasts)
          /\ DOMAIN [bc EXCEPT ![b] = r] = DOMAIN bc
      BY <1>a, <3>1, ExceptSeq
    <3>3. bc \in Seq(Broadcasts)
      BY <1>a
    <3> QED
      BY <2>1, <3>2, <3>3, Zenon
  <2>3. CASE BroadcastLoad(b) \/ BroadcastDone(b)
    <3>1. UNCHANGED <<listener, mutex, slice, phase, scan, name, net, fault>>
      BY <2>3 DEF BroadcastLoad, BroadcastDone
    <3> QED
      BY <2>2, <3>1 DEF TypeOK, slice, net
  <2>4. CASE BroadcastFetch(b)
    BY <2>2, <2>4 DEF BroadcastFetch, TypeOK, slice, net
  <2>5. CASE BroadcastWrite(b)
    <3>1. unread' \in [Clients -> 0..Window]
      <4>1. CASE unread' = unread
        BY <1>b, <4>1
      <4>2. CASE unread[bc[b].to] < Window /\ unread' = [unread EXCEPT ![bc[b].to] = @ + 1]
        <5>1. CASE bc[b].to \in Clients
          <6>1. unread[bc[b].to] + 1 \in 0..Window
            BY <1>b, <4>2, <5>1
          <6> QED
            BY <1>b, <4>2, <5>1, <6>1
        <5>2. CASE bc[b].to \notin Clients
          BY <1>b, <4>2, <5>2
        <5> QED
          BY <5>1, <5>2
      <4> QED
        BY <2>5, <4>1, <4>2 DEF BroadcastWrite
    <3>2. got' \in [Clients -> Seq(DOMAIN bc')]
      <4>1. \A s \in Seq(DOMAIN bc) : Append(s, b) \in Seq(DOMAIN bc)
        BY AppendProperties
      <4> QED
        <5>1. CASE got' = got
          BY <1>b, <2>2, <5>1
        <5>2. CASE got' = [got EXCEPT ![bc[b].to] = Append(@, b)]
          BY <1>b, <2>2, <4>1, <5>2
        <5> QED
          BY <2>5, <5>1, <5>2 DEF BroadcastWrite
    <3> QED
      BY <2>2, <2>5, <3>1, <3>2 DEF BroadcastWrite, TypeOK, slice
  <2> QED
    BY <1>4, <2>3, <2>4, <2>5 DEF BroadcastStep
<1>5. CASE Close \/ UNCHANGED vars
  BY <1>5 DEF Close, TypeOK, vars, slice, net
<1> QED
  BY <1>1, <1>2, <1>3, <1>4, <1>5 DEF Next

\* Who is where when a client is inside a critical section.
LEMMA Alone ==
  ASSUME IInv, NEW c \in Clients, NEW d \in Clients, d # c
  PROVE  /\ phase[c] \in Registering \ {"accepted"} =>
              phase[d] \notin Registering \cup Removing
         /\ phase[c] \in Removing => phase[d] \notin Removing \cup (Registering \ {"accepted"})
<1>1. "acceptor" \notin Clients
  BY ChatAssumption
<1> QED
  BY <1>1 DEF IInv, MutexInv

\* A step that touches neither the slice nor the mutex, and that a client takes
\* outside accept and remove.
Quiet ==
  /\ UNCHANGED <<mutex, heap, ptr, len, scan>>
  /\ \A c \in Clients : \/ phase'[c] = phase[c]
                        \/ phase[c] = "none" /\ phase'[c] = "backlog"
                        \/ phase[c] = "serving" /\ phase'[c] = "leaving"

\* Such a step keeps the registry as it is.
LEMMA QuietKeeps ==
  ASSUME IInv, Quiet
  PROVE  MutexInv' /\ AppendInv' /\ ScanInv' /\ RegistryExact'
<1>1. MutexInv'
  BY DEF IInv, Quiet, MutexInv, Registering, Removing
<1>2. AppendInv'
  BY DEF IInv, Quiet, AppendInv, Array
<1>3. ScanInv'
  BY DEF IInv, Quiet, ScanInv, Hits, Array
<1>4. Live' = Live /\ Array' = Array
  BY DEF Quiet, Live, Array
<1>5. Present' = Present
  BY DEF Quiet, Present
<1> QED
  BY <1>1, <1>2, <1>3, <1>4, <1>5 DEF IInv, RegistryExact

\* Which steps those are.
LEMMA QuietSteps ==
  ASSUME TypeOK,
         \/ \E c \in Clients : \/ PeerStep(c) \/ ServeCommand(c) \/ ServeError(c)
                               \/ ServeEOF(c)
         \/ Listen \/ AcceptOnNil \/ Close \/ UNCHANGED vars
         \/ \E b \in DOMAIN bc : BroadcastStep(b)
  PROVE  Quiet
<1>1. ASSUME NEW c \in Clients, Dial(c) \/ ServeEOF(c) PROVE Quiet
  BY <1>1 DEF Dial, ServeEOF, Goto, TypeOK, slice, Quiet
<1>2. ASSUME NEW c \in Clients, PeerSends(c) \/ PeerReads(c) \/ PeerLeaves(c)
      PROVE Quiet
  BY <1>2 DEF PeerSends, PeerReads, PeerLeaves, slice, Quiet
<1>3. ASSUME NEW c \in Clients, ServeCommand(c) \/ ServeError(c) PROVE Quiet
  BY <1>3 DEF ServeCommand, ServeError, slice, Quiet
<1>4. CASE Listen \/ AcceptOnNil \/ Close \/ UNCHANGED vars
  BY <1>4 DEF Listen, AcceptOnNil, Close, vars, slice, Quiet
<1>5. ASSUME NEW b \in DOMAIN bc, BroadcastStep(b) PROVE Quiet
  <2>1. CASE BroadcastLoad(b) \/ BroadcastDone(b)
    BY <2>1 DEF BroadcastLoad, BroadcastDone, slice, Quiet
  <2>2. CASE BroadcastFetch(b)
    BY <2>2 DEF BroadcastFetch, slice, Quiet
  <2>3. CASE BroadcastWrite(b)
    BY <2>3 DEF BroadcastWrite, slice, Quiet
  <2> QED
    BY <1>5, <2>1, <2>2, <2>3 DEF BroadcastStep
<1> QED
  BY <1>1, <1>2, <1>3, <1>4, <1>5 DEF PeerStep

\* The invariant but for the types and the broadcasts.
RegistryInv == MutexInv /\ AppendInv /\ ScanInv /\ RegistryExact

\* What a step of accept or remove by c does to the phases.
LEMMA Moves ==
  ASSUME TypeOK, NEW c \in Clients, NEW p, Goto(c, p)
  PROVE  phase'[c] = p /\ \A d \in Clients \ {c} : phase'[d] = phase[d]
  BY DEF Goto, TypeOK

\* A connection is accepted, and accept waits for the mutex.
LEMMA AcceptKeeps ==
  ASSUME IInv, NEW c \in Clients, Accept(c)
  PROVE  RegistryInv'
<1>1. /\ phase'[c] = "accepted" /\ \A d \in Clients \ {c} : phase'[d] = phase[d]
      /\ phase[c] = "backlog" /\ UNCHANGED <<mutex, heap, ptr, len, scan>>
      /\ \A d \in Clients : phase[d] \notin Registering
  BY Moves DEF IInv, Accept, slice
<1>2. MutexInv'
  BY <1>1 DEF IInv, MutexInv, Registering, Removing
<1>3. AppendInv'
  BY <1>1 DEF IInv, AppendInv, Array
<1>4. ScanInv'
  <2>1. Array' = Array /\ \A d \in Clients : Hits(d)' = Hits(d)
    BY <1>1 DEF Hits, Array
  <2> QED
    BY <1>1, <2>1 DEF IInv, ScanInv
<1>5. Live' = Live /\ Array' = Array /\ Present' = Present
  BY <1>1 DEF Live, Present, Array
<1> QED
  BY <1>2, <1>3, <1>4, <1>5 DEF IInv, RegistryInv, RegistryExact

\* accept takes the mutex.
LEMMA AcceptLockKeeps ==
  ASSUME IInv, NEW c \in Clients, AcceptLock(c)
  PROVE  RegistryInv'
<1>0. PICK p \in {"grow", "len"} : Goto(c, p) /\ (p = "len" => len # Len(Array))
  BY DEF AcceptLock
<1>1. /\ phase'[c] = p /\ \A d \in Clients \ {c} : phase'[d] = phase[d]
      /\ phase[c] = "accepted" /\ UNCHANGED <<heap, ptr, len, scan>>
      /\ mutex = "nobody" /\ mutex' = "acceptor"
  BY <1>0, Moves DEF IInv, AcceptLock, slice, Unlocked
<1>2. \A d \in Clients : phase[d] \notin Removing \cup (Registering \ {"accepted"})
  BY <1>1, ChatAssumption DEF IInv, MutexInv
<1>3. MutexInv'
  BY <1>0, <1>1, <1>2 DEF IInv, MutexInv, Registering, Removing
<1>4. AppendInv'
  <2>1. len \in 0..Len(Array) /\ Len(Array) \in Nat
    BY DEF IInv, TypeOK, Array
  <2>2. len' = len /\ Len(Array)' = Len(Array)
    BY <1>1 DEF Array
  <2>3. p = "len" => len < Len(Array)
    <3>1. PICK k \in Nat : k = Len(Array)
      BY <2>1
    <3>2. len \in 0..k
      BY <2>1, <3>1
    <3>3. p = "len" => len # k
      BY <1>0, <3>1
    <3> QED
      BY <3>1, <3>2, <3>3
  <2>4. ASSUME NEW d \in Clients, phase'[d] = "elem" PROVE phase[d] = "elem"
    <3>1. phase'[c] # "elem"
      BY <1>1
    <3> QED
      BY <1>1, <2>4, <3>1
  <2>5. \A d \in Clients : phase'[d] = "len" => phase[d] = "len" \/ p = "len"
    BY <1>1
  <2> QED
    BY <2>2, <2>3, <2>4, <2>5 DEF IInv, AppendInv
<1>5. ScanInv'
  BY <1>0, <1>1, <1>2 DEF IInv, ScanInv, Hits, Removing
<1>6. Live' = Live /\ Array' = Array /\ Present' = Present
  BY <1>0, <1>1 DEF Live, Present, Array
<1> QED
  BY <1>3, <1>4, <1>5, <1>6 DEF IInv, RegistryInv, RegistryExact

\* append moves the slice to a larger array.
LEMMA AppendPtrKeeps ==
  ASSUME IInv, NEW c \in Clients, AppendPtr(c)
  PROVE  RegistryInv'
<1>1. /\ phase'[c] = "len" /\ \A d \in Clients \ {c} : phase'[d] = phase[d]
      /\ phase[c] = "grow" /\ UNCHANGED <<mutex, len, scan>>
  BY Moves DEF IInv, AppendPtr
<1>2. \A d \in Clients \ {c} : phase[d] \notin Registering \cup Removing
  BY <1>1, Alone DEF Registering
<1>3. Array \in Seq(Clients \cup {Nil}) /\ len \in 0..Len(Array)
  BY DEF IInv, TypeOK, Array
<1>4. /\ Len(Array) < Len(Grown(Array)) /\ Grown(Array) \in Seq(Clients \cup {Nil})
      /\ \A i \in 1..Len(Array) : Grown(Array)[i] = Array[i]
  BY <1>3, GrownProperties
<1>5. Array' = Grown(Array)
  <2>1. heap \in Seq(Seq(Clients \cup {Nil}))
    BY DEF IInv, TypeOK
  <2> QED
    BY <1>4, <2>1, AppendProperties DEF AppendPtr, Array
<1>6. MutexInv'
  BY <1>1 DEF IInv, MutexInv, Registering, Removing
<1>7. AppendInv'
  <2>1. len < Len(Grown(Array))
    BY <1>3, <1>4
  <2> QED
    BY <1>1, <1>2, <1>5, <2>1 DEF AppendInv, Registering
<1>8. ScanInv'
  BY <1>1, <1>2 DEF ScanInv, Removing
<1>9. Live' = Live /\ Present' = Present /\ Live \subseteq 1..Len(Array)
  BY <1>1, <1>2, <1>3 DEF Live, Present, Registering, Removing
<1>10. RegistryExact'
  <2>1. \A i \in Live : Array'[i] = Array[i]
    BY <1>4, <1>5, <1>9
  <2> QED
    BY <1>9, <2>1 DEF IInv, RegistryExact
<1> QED
  BY <1>6, <1>7, <1>8, <1>10 DEF RegistryInv

\* append stores the longer length: its last slot is not live yet.
LEMMA AppendLenKeeps ==
  ASSUME IInv, NEW c \in Clients, AppendLen(c)
  PROVE  RegistryInv'
<1>1. /\ phase'[c] = "elem" /\ \A d \in Clients \ {c} : phase'[d] = phase[d]
      /\ phase[c] = "len" /\ UNCHANGED <<mutex, heap, ptr, scan>> /\ len' = len + 1
  BY Moves DEF IInv, AppendLen
<1>2. \A d \in Clients \ {c} : phase[d] \notin Registering \cup Removing
  BY <1>1, Alone DEF Registering
<1>3. len \in Nat
  BY DEF IInv, TypeOK
<1>4. MutexInv'
  BY <1>1 DEF IInv, MutexInv, Registering, Removing
<1>5. AppendInv'
  BY <1>1, <1>2, <1>3 DEF AppendInv, Registering
<1>6. ScanInv'
  BY <1>1, <1>2 DEF ScanInv, Removing
<1>7. Live = 1..len
  BY <1>1, <1>2 DEF Live, Registering, Removing
<1>8. Live' = (1..(len + 1)) \ {len + 1}
  BY <1>1, <1>2 DEF Live, Registering, Removing
<1>9. Live' = Live
  BY <1>3, <1>7, <1>8
<1>10. Array' = Array /\ Present' = Present
  BY <1>1 DEF Array, Present
<1> QED
  BY <1>4, <1>5, <1>6, <1>9, <1>10 DEF IInv, RegistryInv, RegistryExact

\* append stores the new client in the last slot, and the slot is live.
LEMMA AppendElemKeeps ==
  ASSUME IInv, NEW c \in Clients, AppendElem(c)
  PROVE  RegistryInv'
<1>1. /\ phase'[c] = "joined" /\ \A d \in Clients \ {c} : phase'[d] = phase[d]
      /\ phase[c] = "elem" /\ UNCHANGED <<mutex, ptr, len, scan>>
  BY Moves DEF IInv, AppendElem
<1>2. \A d \in Clients \ {c} : phase[d] \notin Registering \cup Removing
  BY <1>1, Alone DEF Registering
<1>3. len \in 1..Len(Array)
  BY <1>1 DEF IInv, TypeOK, AppendInv, Array
<1>4. \A j \in 1..Len(Array) : Array'[j] = IF j = len THEN c ELSE Array[j]
  <2>1. /\ heap \in Seq(Seq(Clients \cup {Nil})) /\ ptr \in DOMAIN heap
        /\ c \in Clients \cup {Nil}
    BY DEF IInv, TypeOK
  <2>2. heap' = [heap EXCEPT ![ptr] = [@ EXCEPT ![len] = c]] /\ Array' = heap'[ptr]
    BY <1>1 DEF AppendElem, Array
  <2> DEFINE S == Clients \cup {Nil}
  <2> HIDE DEF S
  <2>3. \A j \in 1..Len(Array) : heap'[ptr][j] = IF j = len THEN c ELSE Array[j]
    <3>1. heap \in Seq(Seq(S)) /\ c \in S
      BY <2>1 DEF S
    <3> QED
      BY <1>3, <2>1, <2>2, <3>1, StoreProperties
  <2> QED
    BY <2>2, <2>3
<1>5. MutexInv'
  BY <1>1 DEF IInv, MutexInv, Registering, Removing
<1>6. AppendInv'
  BY <1>1, <1>2 DEF AppendInv, Registering
<1>7. ScanInv'
  BY <1>1, <1>2 DEF ScanInv, Removing
<1>8. Live = (1..len) \ {len} /\ Live' = 1..len
  BY <1>1, <1>2 DEF Live, Registering, Removing
<1>9. Present' = Present \cup {c} /\ c \notin Present
  BY <1>1 DEF Present
<1>10. /\ \A i \in Live : Array'[i] = Array[i] /\ i \in Live'
       /\ len \in Live' /\ Array'[len] = c
       /\ \A i \in Live' : i \in Live \/ i = len
  BY <1>3, <1>4, <1>8
<1>11. RegistryExact'
  BY <1>9, <1>10 DEF IInv, RegistryExact
<1> QED
  BY <1>5, <1>6, <1>7, <1>11 DEF RegistryInv

\* accept unlocks.
LEMMA AcceptUnlockKeeps ==
  ASSUME IInv, NEW c \in Clients, AcceptUnlock(c)
  PROVE  RegistryInv'
<1>1. /\ phase'[c] = "serving" /\ \A d \in Clients \ {c} : phase'[d] = phase[d]
      /\ phase[c] = "joined" /\ UNCHANGED <<heap, ptr, len, scan>>
  BY Moves DEF IInv, AcceptUnlock, slice
<1>2. \A d \in Clients \ {c} : phase[d] \notin Registering \cup Removing
  BY <1>1, Alone DEF Registering
<1>3. MutexInv'
  BY <1>1, <1>2 DEF MutexInv, Registering, Removing
<1>4. AppendInv' /\ ScanInv'
  BY <1>1, <1>2 DEF AppendInv, ScanInv, Registering, Removing
<1>5. Live' = Live /\ Array' = Array /\ Present' = Present
  BY <1>1 DEF Live, Present, Array
<1> QED
  BY <1>3, <1>4, <1>5 DEF IInv, RegistryInv, RegistryExact

\* remove takes the mutex and copies the header for its range loop.
LEMMA RemoveLockKeeps ==
  ASSUME IInv, NEW c \in Clients, RemoveLock(c)
  PROVE  RegistryInv'
<1>1. /\ phase'[c] = "scan" /\ \A d \in Clients \ {c} : phase'[d] = phase[d]
      /\ phase[c] = "leaving" /\ UNCHANGED <<heap, ptr, len>>
      /\ mutex = "nobody" /\ mutex' = c
      /\ scan' = [ptr |-> ptr, len |-> len, at |-> 1, gap |-> 0]
  BY Moves DEF IInv, RemoveLock, slice, Unlocked
<1>2. \A d \in Clients : phase[d] \notin Removing \cup (Registering \ {"accepted"})
  BY <1>1, ChatAssumption DEF IInv, MutexInv
<1>3. MutexInv'
  BY <1>1, <1>2 DEF IInv, MutexInv, Registering, Removing
<1>4. AppendInv'
  BY <1>1, <1>2 DEF AppendInv, Registering
<1>5. ScanInv'
  <2>1. len <= Len(Array)
    BY DEF IInv, TypeOK, Array
  <2> QED
    BY <1>1, <1>2, <2>1 DEF ScanInv, Removing, Array
<1>6. Live' = Live
  BY <1>1, <1>2 DEF Live, Registering, Removing
<1>7. Array' = Array /\ Present' = Present
  BY <1>1 DEF Present, Array
<1> QED
  BY <1>3, <1>4, <1>5, <1>6, <1>7 DEF IInv, RegistryInv, RegistryExact

\* The range loop finds the client.  There is one slot to find it in, so no
\* slot behind it holds the client, and the loop ends without another match.
LEMMA RemoveMatchKeeps ==
  ASSUME IInv, NEW c \in Clients, RemoveMatch(c)
  PROVE  RegistryInv'
<1>0. PICK i \in Hits(c) : scan' = [scan EXCEPT !.at = i + 1, !.gap = i]
  BY Zenon DEF RemoveMatch
<1>1. /\ phase'[c] = "shift" /\ \A d \in Clients \ {c} : phase'[d] = phase[d]
      /\ UNCHANGED <<mutex, heap, ptr, len>>
  BY Moves DEF IInv, RemoveMatch, slice
<1>2. phase[c] = "scan"
  BY <1>0 DEF IInv, RemoveMatch, ScanInv
<1>3. \A d \in Clients \ {c} : phase[d] \notin Removing \cup (Registering \ {"accepted"})
  BY <1>2, Alone DEF Removing
<1>4. /\ scan.ptr = ptr /\ scan.len = len /\ scan.at = 1
      /\ len \in Nat /\ len <= Len(Array)
      /\ scan \in [ptr : Nat, len : Nat, at : Nat, gap : Nat]
  BY <1>2 DEF IInv, TypeOK, ScanInv, Array
<1>5. i \in 1..len /\ Array[i] = c
  BY <1>0, <1>4 DEF Hits, Array
<1>6. scan'.ptr = ptr /\ scan'.len = len /\ scan'.at = i + 1 /\ scan'.gap = i
  BY <1>0, <1>4
<1>7. Live = 1..len /\ Live' = (1..len) \ {i}
  BY <1>1, <1>2, <1>3, <1>6 DEF Live, Registering, Removing
<1>8. Present' = Present \ {c} /\ Array' = Array
  BY <1>1 DEF Present, Array
<1>9. MutexInv'
  BY <1>1, <1>2 DEF IInv, MutexInv, Registering, Removing
<1>10. AppendInv'
  BY <1>1, <1>3 DEF AppendInv, Registering
<1>11. ScanInv'
  <2>1. \A j \in (i + 1)..len : Array[j] # c
    BY <1>5, <1>7 DEF IInv, RegistryExact
  <2>2. Hits(c)' = {}
    BY <1>1, <1>6, <2>1 DEF Hits, Array
  <2>3. i + 1 \in 2..(i + 1) /\ Array' = Array
    BY <1>5, <1>8
  <2> QED
    BY <1>1, <1>3, <1>4, <1>5, <1>6, <2>2, <2>3 DEF ScanInv, Removing
<1>12. RegistryExact'
  BY <1>5, <1>7, <1>8 DEF IInv, RegistryExact
<1> QED
  BY <1>9, <1>10, <1>11, <1>12 DEF RegistryInv

\* One slot of the tail moves down: the gap moves up.
LEMMA RemoveShiftKeeps ==
  ASSUME IInv, NEW c \in Clients, RemoveShift(c)
  PROVE  RegistryInv'
<1> DEFINE g == scan.gap
<1>1. /\ phase[c] = "shift" /\ UNCHANGED <<mutex, ptr, len, phase>> /\ g < len
      /\ heap' = [heap EXCEPT ![ptr] = [@ EXCEPT ![g] = Array[g + 1]]]
      /\ scan' = [scan EXCEPT !.gap = g + 1]
  BY DEF RemoveShift
<1>2. \A d \in Clients \ {c} : phase[d] \notin Removing \cup (Registering \ {"accepted"})
  BY <1>1, Alone DEF Removing
<1>3. /\ scan.ptr = ptr /\ scan.len = len /\ g \in 1..len /\ scan.at \in 2..(g + 1)
      /\ len \in Nat /\ len <= Len(Array) /\ Len(Array) \in Nat
      /\ scan \in [ptr : Nat, len : Nat, at : Nat, gap : Nat]
      /\ Array \in Seq(Clients \cup {Nil})
  BY <1>1 DEF IInv, TypeOK, ScanInv, Array
<1>4. scan'.ptr = ptr /\ scan'.len = len /\ scan'.at = scan.at /\ scan'.gap = g + 1
  BY <1>1, <1>3
<1>5. g \in 1..Len(Array) /\ g + 1 \in 1..len /\ g + 1 \in 1..Len(Array)
  BY <1>1, <1>3
<1>6. /\ Len(Array') = Len(Array)
      /\ \A j \in 1..Len(Array) : Array'[j] = IF j = g THEN Array[g + 1] ELSE Array[j]
  <2>1. /\ heap \in Seq(Seq(Clients \cup {Nil})) /\ ptr \in DOMAIN heap
        /\ Array[g + 1] \in Clients \cup {Nil}
    BY <1>3, <1>5, ElementOfSeq DEF IInv, TypeOK
  <2>2. Array' = heap'[ptr]
    BY <1>1 DEF Array
  <2>3. /\ Len(heap'[ptr]) = Len(Array)
        /\ \A j \in 1..Len(Array) : heap'[ptr][j] = IF j = g THEN Array[g + 1] ELSE Array[j]
    <3>1. TypeOK /\ heap' = [heap EXCEPT ![ptr] = [@ EXCEPT ![g] = Array[g + 1]]]
      BY <1>1 DEF IInv
    <3> HIDE DEF g
    <3> QED
      BY <1>5, <2>1, <3>1, StoreKeeps
  <2> QED
    BY <2>2, <2>3
<1> HIDE DEF g
<1>7. Live = (1..len) \ {g} /\ Live' = (1..len) \ {g + 1}
  BY <1>1, <1>4 DEF Live, g
<1>8. Present' = Present
  BY <1>1 DEF Present
<1>9. MutexInv' /\ AppendInv'
  BY <1>1, <1>2 DEF IInv, MutexInv, AppendInv, Registering
<1>10. ScanInv'
  <2>1. \A j \in scan.at..len : Array[j] # c
    BY <1>1, <1>3 DEF IInv, ScanInv, Hits, Array
  <2>2. \A j \in scan.at..len : Array'[j] # c
    BY <1>3, <1>5, <1>6, <2>1
  <2>3. Hits(c)' = {}
    BY <1>1, <1>4, <2>2 DEF Hits, Array
  <2>4. scan'.at \in 2..(g + 1 + 1)
    BY <1>3, <1>4, <1>5
  <2> QED
    BY <1>1, <1>2, <1>3, <1>4, <1>5, <1>6, <2>3, <2>4 DEF ScanInv, Removing
<1>11. RegistryExact'
  <2>1. \A i \in Live' : \/ i # g /\ i \in Live /\ Array'[i] = Array[i]
                         \/ i = g /\ g + 1 \in Live /\ Array'[i] = Array[g + 1]
    BY <1>3, <1>5, <1>6, <1>7
  <2>2. \A i \in Live : \/ i # g + 1 /\ i \in Live' /\ Array'[i] = Array[i]
                        \/ i = g + 1 /\ g \in Live' /\ Array'[g] = Array[i]
    BY <1>3, <1>5, <1>6, <1>7
  <2>3. \A i \in Live' : Array'[i] \in Present
    BY <2>1 DEF IInv, RegistryExact
  <2>4. \A i, j \in Live' : Array'[i] = Array'[j] => i = j
    <3> SUFFICES ASSUME NEW i \in Live', NEW j \in Live', Array'[i] = Array'[j]
                 PROVE  i = j
      OBVIOUS
    <3>1. g + 1 \notin Live' /\ g # g + 1
      BY <1>3, <1>7
    <3> QED
      BY <2>1, <3>1 DEF IInv, RegistryExact
  <2>5. \A d \in Present : \E i \in Live' : Array'[i] = d
    BY <2>2 DEF IInv, RegistryExact
  <2> QED
    BY <1>8, <2>3, <2>4, <2>5 DEF RegistryExact
<1> QED
  BY <1>9, <1>10, <1>11 DEF RegistryInv

\* The shorter length is stored when the gap has reached the last slot.
LEMMA RemoveTrimKeeps ==
  ASSUME IInv, NEW c \in Clients, RemoveTrim(c)
  PROVE  RegistryInv'
<1>1. /\ phase'[c] = "rescan" /\ \A d \in Clients \ {c} : phase'[d] = phase[d]
      /\ phase[c] = "shift" /\ scan.gap = len /\ len' = len - 1
      /\ UNCHANGED <<mutex, heap, ptr, scan>>
  BY Moves DEF IInv, RemoveTrim
<1>2. \A d \in Clients \ {c} : phase[d] \notin Removing \cup (Registering \ {"accepted"})
  BY <1>1, Alone DEF Removing
<1>3. len \in Nat
  BY DEF IInv, TypeOK
<1>4. MutexInv'
  BY <1>1 DEF IInv, MutexInv, Registering, Removing
<1>5. AppendInv'
  BY <1>1, <1>2 DEF AppendInv, Registering
<1>6. ScanInv'
  <2>1. Hits(c)' = {} /\ Array' = Array
    BY <1>1 DEF IInv, ScanInv, Hits, Array
  <2> QED
    BY <1>1, <1>2, <2>1 DEF IInv, ScanInv, Removing
<1>7. Live = (1..len) \ {len} /\ Live' = 1..(len - 1)
  BY <1>1, <1>2 DEF Live, Registering, Removing
<1>8. Live' = Live /\ Present' = Present /\ Array' = Array
  BY <1>1, <1>3, <1>7 DEF Present, Array
<1> QED
  BY <1>4, <1>5, <1>6, <1>8 DEF IInv, RegistryInv, RegistryExact

\* The range loop ends, never before it has found the client.
LEMMA RemoveDoneKeeps ==
  ASSUME IInv, NEW c \in Clients, RemoveDone(c)
  PROVE  RegistryInv'
<1>1. /\ phase'[c] = "closing" /\ \A d \in Clients \ {c} : phase'[d] = phase[d]
      /\ phase[c] \in {"scan", "rescan"} /\ Hits(c) = {}
      /\ UNCHANGED <<mutex, heap, ptr, len>>
  BY Moves DEF IInv, RemoveDone, slice
<1>2. \A d \in Clients \ {c} : phase[d] \notin Removing \cup (Registering \ {"accepted"})
  BY <1>1, Alone DEF Removing
<1>3. phase[c] = "rescan"
  <2> SUFFICES ASSUME phase[c] = "scan" PROVE FALSE
    BY <1>1
  <2>1. PICK i \in 1..len : Array[i] = c
    <3>1. Live = 1..len /\ c \in Present
      BY <1>1, <1>2 DEF Live, Present, Registering, Removing
    <3> QED
      BY <3>1 DEF IInv, RegistryExact
  <2>2. i \in Hits(c)
    BY <2>1 DEF IInv, ScanInv, Hits, Array
  <2> QED
    BY <1>1, <2>2
<1>4. MutexInv'
  BY <1>1 DEF IInv, MutexInv, Registering, Removing
<1>5. AppendInv' /\ ScanInv'
  BY <1>1, <1>2 DEF AppendInv, ScanInv, Registering, Removing
<1>6. Live' = Live
  BY <1>1, <1>2, <1>3 DEF Live, Registering, Removing
<1>7. Present' = Present /\ Array' = Array
  BY <1>1, <1>3 DEF Present, Array
<1> QED
  BY <1>4, <1>5, <1>6, <1>7 DEF IInv, RegistryInv, RegistryExact

\* remove unlocks.
LEMMA RemoveCloseKeeps ==
  ASSUME IInv, NEW c \in Clients, RemoveClose(c)
  PROVE  RegistryInv'
<1>1. /\ phase'[c] = "gone" /\ \A d \in Clients \ {c} : phase'[d] = phase[d]
      /\ phase[c] = "closing" /\ UNCHANGED <<heap, ptr, len, scan>>
  BY Moves DEF IInv, RemoveClose, slice
<1>2. \A d \in Clients \ {c} : phase[d] \notin Removing \cup (Registering \ {"accepted"})
  BY <1>1, Alone DEF Removing
<1>3. MutexInv'
  BY <1>1, <1>2 DEF IInv, MutexInv, Registering, Removing
<1>4. AppendInv' /\ ScanInv'
  BY <1>1, <1>2 DEF AppendInv, ScanInv, Registering, Removing
<1>5. Live' = Live /\ Present' = Present /\ Array' = Array
  BY <1>1, <1>2 DEF Live, Present, Array, Registering, Removing
<1> QED
  BY <1>3, <1>4, <1>5 DEF IInv, RegistryInv, RegistryExact

\* No step frees a backing array, and every pointer a broadcast loads is the
\* slice's own.
LEMMA PointerNext == IInv /\ [Next]_vars => PointerInv'
<1> SUFFICES ASSUME IInv, [Next]_vars PROVE PointerInv'
  OBVIOUS
<1>1. /\ bc \in Seq(Broadcasts) /\ DOMAIN bc = 1..Len(bc) /\ Len(bc) \in Nat
      /\ heap \in Seq(Seq(Clients \cup {Nil})) /\ Len(heap) \in Nat
      /\ ptr \in 1..Len(heap)
  <2>1. bc \in Seq(Broadcasts) /\ heap \in Seq(Seq(Clients \cup {Nil})) /\ ptr \in DOMAIN heap
    BY DEF IInv, TypeOK
  <2>2. Len(bc) \in Nat /\ DOMAIN bc = 1..Len(bc) /\ Len(heap) \in Nat /\ DOMAIN heap = 1..Len(heap)
    BY <2>1, LenProperties, Zenon
  <2> QED
    BY <2>1, <2>2
<1>2. CASE UNCHANGED <<bc, heap>>
  BY <1>2 DEF IInv, PointerInv
<1>3. CASE (MarkJoin \/ MarkLeave) /\ Len(heap') \in Nat /\ Len(heap) <= Len(heap')
  <2>1. /\ DOMAIN bc' = DOMAIN bc
        /\ \A b \in DOMAIN bc : bc'[b].ptr = bc[b].ptr /\ bc'[b].pc = bc[b].pc
    BY <1>3, MarkKeeps DEF IInv
  <2>2. 0..Len(heap) \subseteq 0..Len(heap')
    BY <1>1, <1>3
  <2> QED
    BY <2>1, <2>2 DEF IInv, PointerInv
<1>4. ASSUME NEW c \in Clients, ServeCommand(c) PROVE PointerInv'
  <2>1. CASE bc' = bc
    BY <1>4, <2>1 DEF IInv, PointerInv, ServeCommand, slice
  <2>2. CASE bc' = Append(bc, NewBroadcast(c, Head(inbox[c])))
    <3> DEFINE r == NewBroadcast(c, Head(inbox[c]))
    <3>1. r.ptr = 0 /\ r.pc = "load"
      BY DEF NewBroadcast
    <3> HIDE DEF r
    <3>2. DOMAIN bc' = 1..(Len(bc) + 1)
      BY <1>1, <2>2 DEF r
    <3>3. \A b \in DOMAIN bc' : bc'[b] = r \/ (b \in DOMAIN bc /\ bc'[b] = bc[b])
      BY <1>1, <2>2, <3>2 DEF r
    <3>4. heap' = heap
      BY <1>4 DEF ServeCommand, slice
    <3> QED
      BY <1>1, <3>1, <3>3, <3>4 DEF IInv, PointerInv
  <2> QED
    BY <1>4, <2>1, <2>2 DEF ServeCommand
<1>5. ASSUME NEW b \in DOMAIN bc, BroadcastStep(b) PROVE PointerInv'
  <2>0. bc[b] \in Broadcasts
    BY <1>1
  <2>1. heap' = heap
    BY <1>5 DEF BroadcastStep, BroadcastLoad, BroadcastFetch, BroadcastWrite,
                BroadcastDone, slice
  <2>2. DOMAIN bc' = DOMAIN bc /\ \A d \in DOMAIN bc \ {b} : bc'[d] = bc[d]
    BY <1>1, <1>5 DEF BroadcastStep, BroadcastLoad, BroadcastFetch, BroadcastWrite,
                      BroadcastDone
  <2>3. /\ bc[b].ptr \in 0..Len(heap)
        /\ bc[b].pc \in {"fetch", "write"} => bc[b].ptr # 0
    BY <1>5 DEF IInv, PointerInv
  <2>4. /\ bc'[b].ptr \in 0..Len(heap)
        /\ bc'[b].pc \in {"fetch", "write"} => bc'[b].ptr # 0
    <3>1. CASE BroadcastLoad(b)
      <4>1. CASE bc' = [bc EXCEPT ![b] = Loaded([bc[b] EXCEPT !.ptr = ptr])]
        <5>1. bc'[b] = Loaded([bc[b] EXCEPT !.ptr = ptr])
          BY <1>1, <4>1
        <5> QED
          BY <1>1, <2>0, <5>1 DEF Loaded, Broadcasts
      <4>2. CASE bc' = [bc EXCEPT ![b] = Loaded([bc[b] EXCEPT !.len = len])]
        <5>1. bc'[b] = Loaded([bc[b] EXCEPT !.len = len])
          BY <1>1, <4>2
        <5> QED
          BY <2>0, <2>3, <3>1, <5>1 DEF Loaded, Broadcasts, BroadcastLoad
      <4> QED
        BY <3>1, <4>1, <4>2 DEF BroadcastLoad
    <3>2. CASE BroadcastFetch(b)
      <4>1. CASE bc' = bc
        BY <2>3, <4>1
      <4>2. CASE bc' = [bc EXCEPT ![b].pc = "write", ![b].to = Slot(b)]
        <5>1. bc'[b] = [bc[b] EXCEPT !.pc = "write", !.to = Slot(b)]
          BY <1>1, <4>2
        <5> QED
          BY <2>0, <2>3, <3>2, <5>1 DEF BroadcastFetch, Broadcasts
      <4> QED
        BY <3>2, <4>1, <4>2 DEF BroadcastFetch
    <3>3. CASE BroadcastWrite(b)
      <4>1. bc'[b] = [bc[b] EXCEPT !.pc = "fetch", !.at = @ + 1, !.to = Nil]
        BY <1>1, <3>3 DEF BroadcastWrite
      <4> QED
        BY <2>0, <2>3, <3>3, <4>1 DEF BroadcastWrite, Broadcasts
    <3>4. CASE BroadcastDone(b)
      <4>1. bc'[b] = [bc[b] EXCEPT !.pc = "done", !.ptr = 0, !.len = -1, !.at = 1]
        BY <1>1, <3>4 DEF BroadcastDone
      <4> QED
        BY <1>1, <2>0, <4>1 DEF Broadcasts
    <3> QED
      BY <1>5, <3>1, <3>2, <3>3, <3>4 DEF BroadcastStep
  <2> QED
    BY <2>1, <2>2, <2>4 DEF IInv, PointerInv
<1>6. ASSUME NEW c \in Clients, ServeStep(c) PROVE PointerInv'
  <2>1. CASE ServeError(c) \/ ServeEOF(c) \/ RemoveLock(c) \/ RemoveMatch(c)
             \/ RemoveDone(c) \/ RemoveClose(c)
    <3>1. CASE ServeError(c) \/ ServeEOF(c) \/ RemoveLock(c)
      BY <1>2, <3>1 DEF ServeError, ServeEOF, RemoveLock, slice
    <3>2. CASE RemoveMatch(c)
      BY <1>2, <3>2, Zenon DEF RemoveMatch, slice
    <3>3. CASE RemoveDone(c) \/ RemoveClose(c)
      BY <1>2, <3>3 DEF RemoveDone, RemoveClose, slice
    <3> QED
      BY <2>1, <3>1, <3>2, <3>3
  <2>2. CASE RemoveShift(c) \/ RemoveTrim(c)
    <3>1. Len(heap') = Len(heap)
      BY <1>1, <2>2 DEF RemoveShift, RemoveTrim
    <3> QED
      BY <1>1, <1>3, <2>2, <3>1 DEF RemoveShift, RemoveTrim
  <2> QED
    BY <1>4, <1>6, <2>1, <2>2 DEF ServeStep
<1>7. CASE StartStep
  <2>1. CASE Listen \/ AcceptOnNil
    BY <1>2, <2>1 DEF Listen, AcceptOnNil, slice
  <2>2. ASSUME NEW c \in Clients, Accept(c) \/ AcceptLock(c) \/ AcceptUnlock(c)
        PROVE  PointerInv'
    BY <1>2, <2>2 DEF Accept, AcceptLock, AcceptUnlock, slice
  <2>3. ASSUME NEW c \in Clients, AppendPtr(c) PROVE PointerInv'
    <3>1. Len(heap') = Len(heap) + 1
      BY <1>1, <2>3 DEF AppendPtr
    <3> QED
      BY <1>1, <1>3, <2>3, <3>1 DEF AppendPtr
  <2>4. ASSUME NEW c \in Clients, AppendLen(c) \/ AppendElem(c) PROVE PointerInv'
    <3>1. Len(heap') = Len(heap)
      BY <1>1, <2>4 DEF AppendLen, AppendElem
    <3> QED
      BY <1>1, <1>3, <2>4, <3>1 DEF AppendLen, AppendElem
  <2> QED
    BY <1>7, <2>1, <2>2, <2>3, <2>4 DEF StartStep
<1>8. ASSUME NEW c \in Clients, PeerStep(c) PROVE PointerInv'
  BY <1>2, <1>8 DEF PeerStep, Dial, PeerSends, PeerReads, PeerLeaves, slice
<1>9. CASE Close \/ UNCHANGED vars
  BY <1>2, <1>9 DEF Close, vars, slice
<1> QED
  BY <1>5, <1>6, <1>7, <1>8, <1>9 DEF Next

\* The invariant is inductive.
LEMMA NextInv == IInv /\ [Next]_vars => IInv'
<1> SUFFICES ASSUME IInv, [Next]_vars PROVE IInv'
  OBVIOUS
<1>1. RegistryInv'
  <2>1. ASSUME Quiet PROVE RegistryInv'
    BY <2>1, QuietKeeps DEF RegistryInv
  <2>2. ASSUME NEW c \in Clients, PeerStep(c) PROVE RegistryInv'
    BY <2>1, <2>2, QuietSteps DEF IInv
  <2>3. CASE StartStep
    <3>1. CASE Listen \/ AcceptOnNil
      BY <2>1, <3>1, QuietSteps DEF IInv
    <3>2. ASSUME NEW c \in Clients,
                 \/ Accept(c) \/ AcceptLock(c) \/ AppendPtr(c)
                 \/ AppendLen(c) \/ AppendElem(c) \/ AcceptUnlock(c)
          PROVE  RegistryInv'
      BY <3>2, AcceptKeeps, AcceptLockKeeps, AppendPtrKeeps, AppendLenKeeps,
         AppendElemKeeps, AcceptUnlockKeeps
    <3> QED
      BY <2>3, <3>1, <3>2 DEF StartStep
  <2>4. ASSUME NEW c \in Clients, ServeStep(c) PROVE RegistryInv'
    <3>1. CASE ServeCommand(c) \/ ServeError(c) \/ ServeEOF(c)
      BY <2>1, <3>1, QuietSteps DEF IInv
    <3>2. CASE \/ RemoveLock(c) \/ RemoveMatch(c) \/ RemoveShift(c)
               \/ RemoveTrim(c) \/ RemoveDone(c) \/ RemoveClose(c)
      BY <3>2, RemoveLockKeeps, RemoveMatchKeeps, RemoveShiftKeeps, RemoveTrimKeeps,
         RemoveDoneKeeps, RemoveCloseKeeps
    <3> QED
      BY <2>4, <3>1, <3>2 DEF ServeStep
  <2>5. ASSUME NEW b \in DOMAIN bc, BroadcastStep(b) PROVE RegistryInv'
    BY <2>1, <2>5, QuietSteps DEF IInv
  <2>6. CASE Close \/ UNCHANGED vars
    BY <2>1, <2>6, QuietSteps DEF IInv
  <2> QED
    BY <2>2, <2>3, <2>4, <2>5, <2>6 DEF Next
<1> QED
  BY <1>1, TypeNext, PointerNext DEF IInv, RegistryInv

\* The inductive invariant holds in every reachable state.
THEOREM Invariance == Spec => []IInv
<1> QED
  BY InitInv, NextInv, PTL DEF Spec

\* Every variable keeps its type: the header of s.clients always points into
\* an array that exists, with its length within the capacity.
THEOREM TypeCorrect == Spec => []TypeOK
<1>1. IInv => TypeOK
  BY DEF IInv
<1> QED
  BY <1>1, Invariance, PTL

\* The registry of tcp_server.go holds each registered client once and nobody
\* else, at every step of accept's append and of remove's in-place shift, for
\* any number of clients.
THEOREM RegistryCorrect == Spec => []RegistryExact
<1>1. IInv => RegistryExact
  BY DEF IInv
<1> QED
  BY <1>1, Invariance, PTL

-----------------------------------------------------------------------------
(* What broadcasts meet.                                                   *)

\* Message b has been written to c.
Arrived(c, b) == \E j \in DOMAIN got[c] : got[c][j] = b

\* Start has stored the longer header, and not yet the element.
HalfAppended == \E c \in Clients : phase[c] = "elem"

\* Every slot of the slice holds a client, but for the one append has still to
\* fill.
Filled == \A i \in 1..len : Array[i] # Nil \/ (i = len /\ HalfAppended)

\* What a goroutine is at, whatever else goes on.
Looping ==
  \A b \in DOMAIN bc :
    /\ bc[b].pc = "load" => bc[b].at = 1 /\ (bc[b].ptr = 0 \/ bc[b].len = -1)
    /\ bc[b].pc \in {"fetch", "write"} => bc[b].at > 0 /\ bc[b].ptr # 0 /\ bc[b].len # -1
    /\ bc[b].pc = "write" => bc[b].at <= bc[b].len /\ bc[b].to \in Clients

\* A broadcast that met no append walks the current array, over slots that
\* hold clients: removes move clients, and leave the rest where it was.
Sound ==
  \A b \in DOMAIN bc : Active(b) /\ ~bc[b].join =>
    /\ ~HalfAppended
    /\ bc[b].ptr \in {0, ptr}
    /\ bc[b].len # -1 => bc[b].len <= Len(Array)
    /\ \A i \in 1..bc[b].len : Array[i] # Nil

\* A client that was registered when a broadcast started stands in one slot as
\* long as no remove shifts it, in the current array and in the one the
\* broadcast walks, and has the message once the loop is past that slot.
Stands(b, c, i) ==
  /\ i \in 1..len /\ Array[i] = c
  /\ HalfAppended => i # len
  /\ bc[b].ptr # 0 => i \in DOMAIN heap[bc[b].ptr] /\ heap[bc[b].ptr][i] = c
  /\ bc[b].len # -1 => i <= bc[b].len
  /\ bc[b].pc = "write" /\ bc[b].at = i => bc[b].to = c
  /\ bc[b].at > i /\ peer[c] = "open" => Arrived(c, b)

\* Until a remove comes, a broadcast has every such client before it or done.
Tracked ==
  \A b \in DOMAIN bc : Active(b) /\ ~bc[b].leave =>
    \A c \in bc[b].snap : phase[c] # "none" /\ \E i \in Nat : Stands(b, c, i)

\* When it is over, all of them have the message.
Reached ==
  \A b \in DOMAIN bc : ~Active(b) /\ ~bc[b].leave =>
    \A c \in bc[b].snap : phase[c] # "none" /\ (peer[c] = "open" => Arrived(c, b))

\* A broadcast that meets neither finds the slice as it was: one slot for each
\* client that was registered, none for others.
Alike(b) ==
  /\ bc[b].ptr \in {0, ptr} /\ bc[b].len \in {-1, len}
  /\ \A i \in 1..len : Array[i] \in bc[b].snap
  /\ \A i, j \in 1..len : Array[i] = Array[j] => i = j
  /\ bc[b].pc = "write" => bc[b].to = Array[bc[b].at]
  /\ \A c \in Clients : Arrived(c, b) => \E i \in 1..len : Array[i] = c /\ i < bc[b].at

\* It writes to each of them once, and to nobody else.
Undisturbed ==
  \A b \in DOMAIN bc : ~bc[b].leave /\ ~bc[b].join =>
    /\ Active(b) => Alike(b)
    /\ \A c \in Clients : Arrived(c, b) => c \in bc[b].snap
    /\ \A c \in Clients : \A j, k \in DOMAIN got[c] : got[c][j] = b /\ got[c][k] = b => j = k

\* The names a client has had, in its own view, from the one the server knows
\* to the one it chose last: a SEND carries the one of its moment.
History(c, v) ==
  /\ v[0] = name[c]
  /\ peer[c] = "open" => v[Len(inbox[c])] = chosen[c]
  /\ \A k \in DOMAIN inbox[c] :
       v[k] = IF inbox[c][k].op = "NAME" THEN inbox[c][k].name ELSE v[k - 1]
  /\ \A k \in DOMAIN inbox[c] : inbox[c][k].op = "SEND" => inbox[c][k].name = v[k - 1]

\* Every connection has such a history, which begins when it is dialled.
Named ==
  /\ \A c \in Clients : phase[c] = "none" => peer[c] = "none"
  /\ \A c \in Clients : peer[c] = "none" => inbox[c] = <<>> /\ name[c] = chosen[c]
  /\ \A c \in Clients : \E v \in [0..Len(inbox[c]) -> Names \cup {NoName}] : History(c, v)

\* The inductive invariant of the broadcasts, on top of IInv.
BInv == Filled /\ Looping /\ Sound /\ Tracked /\ Reached /\ Undisturbed /\ Named
          /\ NameIsSendersChoice /\ FaultNeedsJoin

\* What every step keeps: who has dialled has, and no connection opens again.
LEMMA Onward ==
  ASSUME IInv, [Next]_vars, NEW c \in Clients, phase[c] # "none"
  PROVE  phase'[c] # "none" /\ (peer'[c] = "open" => peer[c] = "open")
<1>1. phase \in [Clients -> Phases] /\ peer \in [Clients -> {"none", "open", "closed", "reset"}]
  BY DEF IInv, TypeOK
<1>2. ASSUME NEW d \in Clients, PeerStep(d)
      PROVE  phase'[c] # "none" /\ (peer'[c] = "open" => peer[c] = "open")
  BY <1>1, <1>2 DEF PeerStep, Dial, PeerSends, PeerReads, PeerLeaves, Goto
<1>3. ASSUME Close \/ StartStep
      PROVE  phase'[c] # "none" /\ UNCHANGED peer
  BY <1>1, <1>3 DEF Close, StartStep, Listen, AcceptOnNil, Accept, AcceptLock, AppendPtr,
     AppendLen, AppendElem, AcceptUnlock, Goto, net
<1>4. ASSUME NEW d \in Clients, ServeCommand(d) \/ ServeError(d) \/ ServeEOF(d)
      PROVE  phase'[c] # "none" /\ (peer'[c] = "open" => peer[c] = "open")
  BY <1>1, <1>4 DEF ServeCommand, ServeError, ServeEOF, Goto, net
<1>5. ASSUME NEW d \in Clients,
             \/ RemoveLock(d) \/ RemoveMatch(d) \/ RemoveShift(d)
             \/ RemoveTrim(d) \/ RemoveDone(d) \/ RemoveClose(d)
      PROVE  phase'[c] # "none" /\ UNCHANGED peer
  BY <1>1, <1>5 DEF RemoveLock, RemoveMatch, RemoveShift, RemoveTrim, RemoveDone,
     RemoveClose, Goto, net
<1>6. ASSUME NEW b \in DOMAIN bc, BroadcastStep(b)
      PROVE  UNCHANGED <<phase, peer>>
  BY <1>6 DEF BroadcastStep, BroadcastLoad, BroadcastFetch, BroadcastWrite, BroadcastDone, net
<1>7. CASE UNCHANGED vars
  BY <1>7 DEF vars, net
<1> QED
  BY <1>2, <1>3, <1>4, <1>5, <1>6, <1>7 DEF Next, ServeStep

\* A step that no broadcast notices.
Still ==
  /\ UNCHANGED <<bc, got, heap, ptr, len>>
  /\ HalfAppended' <=> HalfAppended

\* The same broadcast, up to the two marks.
Same(b) ==
  /\ bc'[b].pc = bc[b].pc /\ bc'[b].ptr = bc[b].ptr /\ bc'[b].len = bc[b].len
  /\ bc'[b].at = bc[b].at /\ bc'[b].to = bc[b].to
  /\ bc'[b].name = bc[b].name /\ bc'[b].asked = bc[b].asked /\ bc'[b].snap = bc[b].snap

\* A store of append marks the broadcasts that are under way.
Joins ==
  /\ DOMAIN bc' = DOMAIN bc
  /\ \A b \in DOMAIN bc : Same(b) /\ bc'[b].leave = bc[b].leave
  /\ \A b \in DOMAIN bc : bc'[b].join <=> bc[b].join \/ Active(b)

\* So does a store of remove.
Leaves ==
  /\ DOMAIN bc' = DOMAIN bc
  /\ \A b \in DOMAIN bc : Same(b) /\ bc'[b].join = bc[b].join
  /\ \A b \in DOMAIN bc : bc'[b].leave <=> bc[b].leave \/ Active(b)

\* The marks are all that these change.
LEMMA JoinMarks == ASSUME TypeOK, MarkJoin PROVE Joins
<1>1. bc \in Seq(Broadcasts) /\ \A b \in DOMAIN bc : bc[b] \in Broadcasts
  BY DEF TypeOK
<1>2. DOMAIN bc' = DOMAIN bc
  BY DEF MarkJoin
<1>3. \A b \in DOMAIN bc : bc'[b] = [bc[b] EXCEPT !.join = bc[b].join \/ Active(b)]
  BY Zenon DEF MarkJoin
<1>4. ASSUME NEW b \in DOMAIN bc
      PROVE  /\ Same(b) /\ bc'[b].leave = bc[b].leave
             /\ bc'[b].join <=> bc[b].join \/ Active(b)
  <2>1. PICK v \in BOOLEAN : v <=> bc[b].join \/ Active(b)
    BY <1>1 DEF Active
  <2>2. (bc[b].join \/ Active(b)) \in BOOLEAN
    BY <1>1 DEF Active
  <2>3. bc'[b] = [bc[b] EXCEPT !.join = v]
    BY <1>3, <2>1, <2>2, Zenon
  <2> QED
    BY <1>1, <2>1, <2>3 DEF Same, Broadcasts
<1> QED
  BY <1>2, <1>4 DEF Joins

LEMMA LeaveMarks == ASSUME TypeOK, MarkLeave PROVE Leaves
<1>1. bc \in Seq(Broadcasts) /\ \A b \in DOMAIN bc : bc[b] \in Broadcasts
  BY DEF TypeOK
<1>2. DOMAIN bc' = DOMAIN bc
  BY DEF MarkLeave
<1>3. \A b \in DOMAIN bc : bc'[b] = [bc[b] EXCEPT !.leave = bc[b].leave \/ Active(b)]
  BY Zenon DEF MarkLeave
<1>4. ASSUME NEW b \in DOMAIN bc
      PROVE  /\ Same(b) /\ bc'[b].join = bc[b].join
             /\ bc'[b].leave <=> bc[b].leave \/ Active(b)
  <2>1. PICK v \in BOOLEAN : v <=> bc[b].leave \/ Active(b)
    BY <1>1 DEF Active
  <2>2. (bc[b].leave \/ Active(b)) \in BOOLEAN
    BY <1>1 DEF Active
  <2>3. bc'[b] = [bc[b] EXCEPT !.leave = v]
    BY <1>3, <2>1, <2>2, Zenon
  <2> QED
    BY <1>1, <2>1, <2>3 DEF Same, Broadcasts
<1> QED
  BY <1>2, <1>4 DEF Leaves

\* The slice, and the broadcasts, by their types.
LEMMA Parts ==
  ASSUME TypeOK
  PROVE  /\ heap \in Seq(Seq(Clients \cup {Nil})) /\ ptr \in DOMAIN heap
         /\ Array \in Seq(Clients \cup {Nil}) /\ Len(Array) \in Nat
         /\ len \in Nat /\ len \in 0..Len(Array) /\ len <= Len(Array)
         /\ bc \in Seq(Broadcasts) /\ Len(bc) \in Nat /\ DOMAIN bc = 1..Len(bc)
         /\ \A b \in DOMAIN bc : bc[b] \in Broadcasts
<1>1. heap \in Seq(Seq(Clients \cup {Nil})) /\ ptr \in DOMAIN heap /\ len \in 0..Len(heap[ptr])
  BY DEF TypeOK
<1>2. heap[ptr] \in Seq(Clients \cup {Nil})
  BY <1>1
<1>3. Len(heap[ptr]) \in Nat /\ len \in Nat /\ len <= Len(heap[ptr])
  BY <1>1, <1>2
<1>4. /\ bc \in Seq(Broadcasts) /\ Len(bc) \in Nat /\ DOMAIN bc = 1..Len(bc)
      /\ \A b \in DOMAIN bc : bc[b] \in Broadcasts
  BY DEF TypeOK
<1> QED
  BY <1>1, <1>2, <1>3, <1>4 DEF Array

\* The steps of append and of remove's shift, as the broadcasts see them.
LEMMA AppendPtrDoes ==
  ASSUME IInv, NEW c \in Clients, AppendPtr(c)
  PROVE  /\ Joins /\ UNCHANGED <<got, peer, len>>
         /\ ~HalfAppended /\ ~HalfAppended'
         /\ DOMAIN heap \subseteq DOMAIN heap'
         /\ \A p \in DOMAIN heap : heap'[p] = heap[p]
         /\ \A i \in 1..Len(Array) : i \in 1..Len(Array') /\ Array'[i] = Array[i]
<1>1. /\ heap \in Seq(Seq(Clients \cup {Nil})) /\ ptr \in DOMAIN heap
      /\ Array \in Seq(Clients \cup {Nil}) /\ TypeOK
  BY Parts DEF IInv
<1>2. heap' = Append(heap, Grown(Array)) /\ ptr' = Len(heap) + 1
  BY DEF AppendPtr
<1>3. /\ Len(Grown(Array)) \in Nat /\ Len(Array) \in Nat
      /\ Len(Array) < Len(Grown(Array))
      /\ \A i \in 1..Len(Array) : Grown(Array)[i] = Array[i]
  <2>1. Nil \in Clients \cup {Nil}
    OBVIOUS
  <2>2. Grown(Array) \in Seq(Clients \cup {Nil})
    BY <1>1, <2>1, GrownProperties
  <2>3. /\ Len(Array) < Len(Grown(Array))
        /\ \A i \in 1..Len(Array) : Grown(Array)[i] = Array[i]
    BY <1>1, <2>1, GrownProperties
  <2> QED
    BY <1>1, <2>2, <2>3
<1>4. Array' = Grown(Array)
  BY <1>1, <1>2 DEF Array
<1>5. phase[c] = "grow" /\ phase'[c] = "len" /\ \A d \in Clients \ {c} : phase'[d] = phase[d]
  BY <1>1, Moves DEF AppendPtr
<1>6. \A d \in Clients \ {c} : phase[d] # "elem"
  BY <1>5, Alone DEF Registering
<1>7. Joins /\ UNCHANGED <<got, peer, len>>
  BY <1>1, JoinMarks DEF AppendPtr, net
<1>8. ~HalfAppended /\ ~HalfAppended'
  BY <1>5, <1>6 DEF HalfAppended
<1>9. DOMAIN heap \subseteq DOMAIN heap' /\ \A p \in DOMAIN heap : heap'[p] = heap[p]
  BY <1>1, <1>2
<1> QED
  BY <1>3, <1>4, <1>7, <1>8, <1>9

\* The length: one more slot, not yet filled.
LEMMA AppendLenDoes ==
  ASSUME IInv, NEW c \in Clients, AppendLen(c)
  PROVE  /\ Joins /\ UNCHANGED <<got, peer, heap, ptr>>
         /\ ~HalfAppended /\ HalfAppended'
         /\ len \in Nat /\ len' = len + 1 /\ len' <= Len(Array)
<1>1. TypeOK /\ len \in Nat /\ Len(Array) \in Nat
  BY Parts DEF IInv
<1>2. phase[c] = "len" /\ phase'[c] = "elem"
  BY <1>1, Moves DEF AppendLen
<1>3. \A d \in Clients \ {c} : phase[d] # "elem"
  BY <1>2, Alone DEF Registering
<1>4. Joins /\ UNCHANGED <<got, peer, heap, ptr>> /\ len' = len + 1
  BY <1>1, JoinMarks DEF AppendLen, net
<1>5. ~HalfAppended /\ HalfAppended'
  BY <1>2, <1>3 DEF HalfAppended
<1>6. len < Len(Array)
  BY <1>2 DEF IInv, AppendInv
<1> QED
  BY <1>1, <1>4, <1>5, <1>6

\* The element, in the last slot.
LEMMA AppendElemDoes ==
  ASSUME IInv, NEW c \in Clients, AppendElem(c)
  PROVE  /\ Joins /\ UNCHANGED <<got, peer, ptr, len>>
         /\ HalfAppended /\ ~HalfAppended' /\ len \in 1..Len(Array)
         /\ DOMAIN heap' = DOMAIN heap
         /\ \A p \in DOMAIN heap : p # ptr => heap'[p] = heap[p]
         /\ Len(Array') = Len(Array) /\ DOMAIN heap'[ptr] = DOMAIN heap[ptr]
         /\ \A i \in 1..Len(Array) : Array'[i] = IF i = len THEN c ELSE Array[i]
<1>1. /\ TypeOK /\ heap \in Seq(Seq(Clients \cup {Nil})) /\ ptr \in DOMAIN heap
      /\ Array \in Seq(Clients \cup {Nil}) /\ Len(Array) \in Nat
  BY Parts DEF IInv
<1>2. phase[c] = "elem" /\ phase'[c] = "joined" /\ \A d \in Clients \ {c} : phase'[d] = phase[d]
  BY <1>1, Moves DEF AppendElem
<1>3. \A d \in Clients \ {c} : phase[d] # "elem"
  BY <1>2, Alone DEF Registering
<1>4. len \in 1..Len(Array)
  BY <1>1, <1>2 DEF IInv, AppendInv, TypeOK, Array
<1>5. heap' = [heap EXCEPT ![ptr] = [@ EXCEPT ![len] = c]] /\ ptr' = ptr
  BY DEF AppendElem
<1>6. /\ heap' \in Seq(Seq(Clients \cup {Nil})) /\ DOMAIN heap' = DOMAIN heap
      /\ Len(heap'[ptr]) = Len(Array)
      /\ \A i \in 1..Len(Array) : heap'[ptr][i] = IF i = len THEN c ELSE Array[i]
  BY <1>1, <1>4, <1>5, StoreProperties
<1>7. \A p \in DOMAIN heap : p # ptr => heap'[p] = heap[p]
  BY <1>1, <1>5
<1>8. Array' = heap'[ptr]
  BY <1>5 DEF Array
<1>9. Joins /\ UNCHANGED <<got, peer, ptr, len>>
  BY <1>1, JoinMarks DEF AppendElem, net
<1>10. HalfAppended /\ ~HalfAppended'
  BY <1>2, <1>3 DEF HalfAppended
<1>11. DOMAIN heap'[ptr] = DOMAIN heap[ptr]
  BY <1>1, <1>6 DEF Array
<1> QED
  BY <1>4, <1>6, <1>7, <1>8, <1>9, <1>10, <1>11

\* One slot is overwritten with the next one.
LEMMA RemoveShiftDoes ==
  ASSUME IInv, NEW c \in Clients, RemoveShift(c)
  PROVE  /\ Leaves /\ UNCHANGED <<got, peer, ptr, len>>
         /\ ~HalfAppended /\ ~HalfAppended'
         /\ scan.gap \in 1..len /\ scan.gap + 1 \in 1..len /\ len <= Len(Array)
         /\ DOMAIN heap' = DOMAIN heap
         /\ \A p \in DOMAIN heap : p # ptr => heap'[p] = heap[p]
         /\ Len(Array') = Len(Array)
         /\ \A i \in 1..Len(Array) :
              Array'[i] = IF i = scan.gap THEN Array[scan.gap + 1] ELSE Array[i]
<1>1. /\ TypeOK /\ heap \in Seq(Seq(Clients \cup {Nil})) /\ ptr \in DOMAIN heap
      /\ Array \in Seq(Clients \cup {Nil}) /\ Len(Array) \in Nat
      /\ len \in 0..Len(Array)
  BY Parts DEF IInv
<1>2. phase[c] = "shift" /\ scan.gap < len /\ UNCHANGED phase
  BY DEF RemoveShift
<1>3. \A d \in Clients \ {c} : phase[d] # "elem"
  BY <1>2, Alone DEF Removing, Registering
<1>4. scan.gap \in 1..len
  BY <1>2 DEF IInv, ScanInv
<1>5. /\ scan.gap \in 1..Len(Array) /\ scan.gap + 1 \in 1..len /\ scan.gap + 1 \in 1..Len(Array)
      /\ len <= Len(Array)
  BY <1>1, <1>2, <1>4
<1>6. Array[scan.gap + 1] \in Clients \cup {Nil}
  BY <1>1, <1>5
<1>7. /\ heap' = [heap EXCEPT ![ptr] = [@ EXCEPT ![scan.gap] = Array[scan.gap + 1]]]
      /\ ptr' = ptr
  BY DEF RemoveShift
<1>8. /\ DOMAIN heap' = DOMAIN heap
      /\ Len(heap'[ptr]) = Len(Array)
      /\ \A i \in 1..Len(Array) :
           heap'[ptr][i] = IF i = scan.gap THEN Array[scan.gap + 1] ELSE Array[i]
  BY <1>1, <1>5, <1>6, <1>7, StoreKeeps
<1>9. \A p \in DOMAIN heap : p # ptr => heap'[p] = heap[p]
  BY <1>1, <1>7
<1>10. Array' = heap'[ptr]
  BY <1>7 DEF Array
<1>11. Leaves /\ UNCHANGED <<got, peer, ptr, len>>
  BY <1>1, LeaveMarks DEF RemoveShift, net
<1>12. ~HalfAppended /\ ~HalfAppended'
  BY <1>2, <1>3 DEF HalfAppended
<1> QED
  BY <1>4, <1>5, <1>8, <1>9, <1>10, <1>11, <1>12

\* The length: the last slot is dropped, and stays as it was.
LEMMA RemoveTrimDoes ==
  ASSUME IInv, NEW c \in Clients, RemoveTrim(c)
  PROVE  /\ Leaves /\ UNCHANGED <<got, peer, heap, ptr>>
         /\ ~HalfAppended /\ ~HalfAppended' /\ len \in Nat /\ len > 0 /\ len' = len - 1
<1>1. TypeOK /\ len \in Nat
  BY Parts DEF IInv
<1>2. /\ phase[c] = "shift" /\ phase'[c] = "rescan"
      /\ \A d \in Clients \ {c} : phase'[d] = phase[d]
  BY <1>1, Moves DEF RemoveTrim
<1>3. \A d \in Clients \ {c} : phase[d] # "elem"
  BY <1>2, Alone DEF Removing, Registering
<1>4. scan.gap \in 1..len
  BY <1>2 DEF IInv, ScanInv
<1>5. Leaves /\ UNCHANGED <<got, peer, heap, ptr>> /\ len' = len - 1
  BY <1>1, LeaveMarks DEF RemoveTrim, net
<1>6. ~HalfAppended /\ ~HalfAppended'
  BY <1>2, <1>3 DEF HalfAppended
<1> QED
  BY <1>1, <1>4, <1>5, <1>6

\* A new broadcast is the last one; nobody has had it yet.
Starts(c) ==
  LET n == Len(bc) + 1 IN
  /\ DOMAIN bc' = DOMAIN bc \cup {n} /\ n \notin DOMAIN bc
  /\ \A b \in DOMAIN bc : bc'[b] = bc[b]
  /\ bc'[n] = NewBroadcast(c, Head(inbox[c]))

\* A SEND starts a broadcast; other commands leave the broadcasts alone.
LEMMA ServeCommandDoes ==
  ASSUME IInv, NEW c \in Clients, ServeCommand(c)
  PROVE  /\ UNCHANGED <<got, heap, ptr, len, peer, phase, fault, listener, chosen>>
         /\ UNCHANGED bc \/ (Starts(c) /\ Head(inbox[c]).op = "SEND")
         /\ \A d \in Clients : \A j \in DOMAIN got[d] : got[d][j] # Len(bc) + 1
<1>1. bc \in Seq(Broadcasts) /\ Len(bc) \in Nat /\ DOMAIN bc = 1..Len(bc)
  BY Parts DEF IInv
<1>2. UNCHANGED bc \/ (Starts(c) /\ Head(inbox[c]).op = "SEND")
  <2>1. CASE Head(inbox[c]).op # "SEND"
    BY <2>1 DEF ServeCommand
  <2>2. CASE Head(inbox[c]).op = "SEND"
    <3> DEFINE new == NewBroadcast(c, Head(inbox[c]))
    <3>1. bc' = Append(bc, new)
      BY <2>2 DEF ServeCommand
    <3> HIDE DEF new
    <3>2. /\ DOMAIN bc' = DOMAIN bc \cup {Len(bc) + 1} /\ Len(bc) + 1 \notin DOMAIN bc
          /\ \A b \in DOMAIN bc : bc'[b] = bc[b]
          /\ bc'[Len(bc) + 1] = new
      BY <1>1, <3>1
    <3> QED
      BY <2>2, <3>2 DEF new, Starts
  <2> QED
    BY <2>1, <2>2
<1>3. ASSUME NEW d \in Clients, NEW j \in DOMAIN got[d] PROVE got[d][j] # Len(bc) + 1
  <2>1. got[d] \in Seq(DOMAIN bc)
    BY DEF IInv, TypeOK
  <2>2. got[d][j] \in DOMAIN bc
    BY <2>1
  <2> QED
    BY <1>1, <2>2
<1> QED
  BY <1>2, <1>3 DEF ServeCommand, slice

\* Which steps those are.
LEMMA StillSteps ==
  ASSUME IInv,
         \/ \E c \in Clients :
              \/ PeerStep(c) \/ Accept(c) \/ AcceptLock(c) \/ AcceptUnlock(c)
              \/ ServeError(c) \/ ServeEOF(c) \/ RemoveLock(c) \/ RemoveMatch(c)
              \/ RemoveDone(c) \/ RemoveClose(c)
         \/ Listen \/ AcceptOnNil \/ Close \/ UNCHANGED vars
  PROVE  Still
<1>0. TypeOK
  BY DEF IInv
<1>1. ASSUME UNCHANGED <<bc, got, heap, ptr, len, phase>> PROVE Still
  BY <1>1 DEF Still, HalfAppended
<1>2. ASSUME UNCHANGED <<bc, got, heap, ptr, len>>, NEW c \in Clients,
             NEW p \in Phases \ {"elem"}, Goto(c, p), phase[c] # "elem"
      PROVE  Still
  <2>1. phase'[c] = p /\ \A d \in Clients \ {c} : phase'[d] = phase[d]
    BY <1>0, <1>2, Moves
  <2> QED
    BY <1>2, <2>1 DEF Still, HalfAppended
<1>3. ASSUME NEW c \in Clients, PeerStep(c) PROVE Still
  <2>1. CASE Dial(c)
    BY <1>2, <2>1 DEF Dial, slice, Phases
  <2>2. CASE PeerSends(c) \/ PeerReads(c) \/ PeerLeaves(c)
    BY <1>1, <2>2 DEF PeerSends, PeerReads, PeerLeaves, slice
  <2> QED
    BY <1>3, <2>1, <2>2 DEF PeerStep
<1>4. ASSUME NEW c \in Clients, Accept(c) PROVE Still
  BY <1>2, <1>4 DEF Accept, slice, net, Phases, Registering
<1>5. ASSUME NEW c \in Clients, AcceptLock(c) PROVE Still
  <2>1. CASE Goto(c, "grow")
    BY <1>2, <1>5, <2>1 DEF AcceptLock, slice, net, Phases, Registering
  <2>2. CASE Goto(c, "len")
    BY <1>2, <1>5, <2>2 DEF AcceptLock, slice, net, Phases, Registering
  <2> QED
    BY <1>5, <2>1, <2>2 DEF AcceptLock
<1>6. ASSUME NEW c \in Clients, AcceptUnlock(c) PROVE Still
  BY <1>2, <1>6 DEF AcceptUnlock, slice, net, Phases
<1>7. ASSUME NEW c \in Clients, ServeError(c) PROVE Still
  BY <1>1, <1>7 DEF ServeError, slice
<1>8. ASSUME NEW c \in Clients, ServeEOF(c) PROVE Still
  BY <1>2, <1>8 DEF ServeEOF, slice, net, Phases
<1>9. ASSUME NEW c \in Clients, RemoveLock(c) PROVE Still
  BY <1>2, <1>9 DEF RemoveLock, slice, net, Phases, Removing
<1>10. ASSUME NEW c \in Clients, RemoveMatch(c) PROVE Still
  <2>1. Goto(c, "shift") /\ phase[c] # "elem" /\ UNCHANGED <<bc, got, heap, ptr, len>>
    BY <1>10, Zenon DEF RemoveMatch, slice, net
  <2>2. "shift" \in Phases \ {"elem"}
    BY DEF Phases, Removing
  <2> QED
    BY <1>2, <2>1, <2>2
<1>11. ASSUME NEW c \in Clients, RemoveDone(c) \/ RemoveClose(c) PROVE Still
  BY <1>2, <1>11 DEF RemoveDone, RemoveClose, slice, net, Phases, Removing
<1>12. ASSUME Listen \/ AcceptOnNil \/ Close \/ UNCHANGED vars PROVE Still
  BY <1>1, <1>12 DEF Listen, AcceptOnNil, Close, vars, slice, net
<1> QED
  BY <1>3, <1>4, <1>5, <1>6, <1>7, <1>8, <1>9, <1>10, <1>11, <1>12

\* The steps of one broadcast change nothing else but what has been written.
Others(b) ==
  /\ UNCHANGED <<heap, ptr, len, phase, peer>>
  /\ DOMAIN bc' = DOMAIN bc
  /\ \A d \in DOMAIN bc : d # b => bc'[d] = bc[d]
  /\ bc'[b].name = bc[b].name /\ bc'[b].asked = bc[b].asked /\ bc'[b].snap = bc[b].snap
  /\ bc'[b].join = bc[b].join /\ bc'[b].leave = bc[b].leave

\* One word of the header is loaded, as it is now.
LEMMA BroadcastLoadDoes ==
  ASSUME IInv, NEW b \in DOMAIN bc, BroadcastLoad(b)
  PROVE  /\ Others(b) /\ UNCHANGED got /\ bc[b].pc = "load"
         /\ bc'[b].at = bc[b].at /\ bc'[b].to = bc[b].to
         /\ \/ bc[b].ptr = 0 /\ bc'[b].ptr = ptr /\ bc'[b].len = bc[b].len
            \/ bc[b].len = -1 /\ bc'[b].len = len /\ bc'[b].ptr = bc[b].ptr
         /\ bc'[b].pc \in {"load", "fetch"}
         /\ bc'[b].pc = "fetch" <=> bc'[b].ptr # 0 /\ bc'[b].len # -1
<1>1. bc \in Seq(Broadcasts) /\ DOMAIN bc = 1..Len(bc) /\ bc[b] \in Broadcasts
  BY Parts DEF IInv
<1>2. UNCHANGED <<heap, ptr, len, phase, peer, got>> /\ bc[b].pc = "load"
  BY DEF BroadcastLoad, slice, net
<1>3. DOMAIN bc' = DOMAIN bc /\ \A d \in DOMAIN bc : d # b => bc'[d] = bc[d]
  BY <1>1 DEF BroadcastLoad
<1>4. CASE bc[b].ptr = 0 /\ bc' = [bc EXCEPT ![b] = Loaded([bc[b] EXCEPT !.ptr = ptr])]
  <2>1. bc'[b] = Loaded([bc[b] EXCEPT !.ptr = ptr])
    BY <1>1, <1>4
  <2> QED
    BY <1>1, <1>2, <1>3, <1>4, <2>1 DEF Loaded, Broadcasts, Others
<1>5. CASE bc[b].len = -1 /\ bc' = [bc EXCEPT ![b] = Loaded([bc[b] EXCEPT !.len = len])]
  <2>1. bc'[b] = Loaded([bc[b] EXCEPT !.len = len])
    BY <1>1, <1>5
  <2> QED
    BY <1>1, <1>2, <1>3, <1>5, <2>1 DEF Loaded, Broadcasts, Others
<1> QED
  BY <1>4, <1>5 DEF BroadcastLoad

\* A slot is loaded; a nil one is the end of the process.
LEMMA BroadcastFetchDoes ==
  ASSUME IInv, NEW b \in DOMAIN bc, BroadcastFetch(b)
  PROVE  /\ bc[b].pc = "fetch" /\ bc[b].at <= bc[b].len
         /\ UNCHANGED <<got, heap, ptr, len, phase, peer>>
         /\ \/ Slot(b) = Nil /\ fault' /\ UNCHANGED bc
            \/ /\ Slot(b) # Nil /\ UNCHANGED fault /\ Others(b)
               /\ bc'[b].ptr = bc[b].ptr /\ bc'[b].len = bc[b].len /\ bc'[b].at = bc[b].at
               /\ bc'[b].pc = "write" /\ bc'[b].to = Slot(b)
<1>1. bc \in Seq(Broadcasts) /\ DOMAIN bc = 1..Len(bc) /\ bc[b] \in Broadcasts
  BY Parts DEF IInv
<1>2. /\ UNCHANGED <<heap, ptr, len, phase, peer, got>> /\ bc[b].pc = "fetch"
      /\ ~Exhausted(b)
  BY DEF BroadcastFetch, slice, net
<1>3. bc[b].at <= bc[b].len
  BY <1>1, <1>2 DEF Exhausted, Broadcasts
<1>4. CASE Slot(b) = Nil
  BY <1>2, <1>3, <1>4 DEF BroadcastFetch
<1>5. CASE Slot(b) # Nil
  <2>1. bc' = [bc EXCEPT ![b].pc = "write", ![b].to = Slot(b)] /\ UNCHANGED fault
    BY <1>5 DEF BroadcastFetch
  <2>2. bc'[b] = [bc[b] EXCEPT !.pc = "write", !.to = Slot(b)]
    BY <1>1, <2>1
  <2>3. DOMAIN bc' = DOMAIN bc /\ \A d \in DOMAIN bc : d # b => bc'[d] = bc[d]
    BY <1>1, <2>1
  <2> QED
    BY <1>1, <1>2, <1>3, <1>5, <2>1, <2>2, <2>3 DEF Broadcasts, Others
<1> QED
  BY <1>4, <1>5

\* One more message for the client that is held, if its peer is there.
LEMMA BroadcastWriteDoes ==
  ASSUME IInv, NEW b \in DOMAIN bc, BroadcastWrite(b), bc[b].to \in Clients
  PROVE  /\ Others(b) /\ bc[b].pc = "write"
         /\ bc'[b].ptr = bc[b].ptr /\ bc'[b].len = bc[b].len /\ bc'[b].at = bc[b].at + 1
         /\ bc'[b].pc = "fetch"
         /\ \A c \in Clients : c # bc[b].to => got'[c] = got[c]
         /\ \/ peer[bc[b].to] # "open" /\ UNCHANGED got
            \/ LET n == Len(got[bc[b].to]) + 1 IN
               /\ DOMAIN got'[bc[b].to] = DOMAIN got[bc[b].to] \cup {n}
               /\ n \notin DOMAIN got[bc[b].to]
               /\ \A j \in DOMAIN got[bc[b].to] : got'[bc[b].to][j] = got[bc[b].to][j]
               /\ got'[bc[b].to][n] = b
<1>1. bc \in Seq(Broadcasts) /\ DOMAIN bc = 1..Len(bc) /\ bc[b] \in Broadcasts
  BY Parts DEF IInv
<1>2. UNCHANGED <<heap, ptr, len, phase, peer>> /\ bc[b].pc = "write"
  BY DEF BroadcastWrite, slice
<1>3. bc'[b] = [bc[b] EXCEPT !.pc = "fetch", !.at = @ + 1, !.to = Nil]
  BY <1>1 DEF BroadcastWrite
<1>4. DOMAIN bc' = DOMAIN bc /\ \A d \in DOMAIN bc : d # b => bc'[d] = bc[d]
  BY <1>1 DEF BroadcastWrite
<1>5. PICK t \in Clients : t = bc[b].to
  OBVIOUS
<1>6. got \in [Clients -> Seq(DOMAIN bc)]
  BY DEF IInv, TypeOK
<1>7. \/ peer[t] # "open" /\ UNCHANGED got
      \/ got' = [got EXCEPT ![t] = Append(@, b)]
  BY <1>5 DEF BroadcastWrite
<1>8. CASE got' = [got EXCEPT ![t] = Append(@, b)]
  <2>1. got'[t] = Append(got[t], b) /\ got[t] \in Seq(DOMAIN bc)
        /\ \A c \in Clients : c # t => got'[c] = got[c]
    BY <1>6, <1>8
  <2>2. /\ DOMAIN got'[t] = DOMAIN got[t] \cup {Len(got[t]) + 1}
        /\ Len(got[t]) + 1 \notin DOMAIN got[t]
        /\ \A j \in DOMAIN got[t] : got'[t][j] = got[t][j]
        /\ got'[t][Len(got[t]) + 1] = b
    BY <2>1
  <2> QED
    BY <1>1, <1>2, <1>3, <1>4, <1>5, <2>1, <2>2 DEF Broadcasts, Others
<1>9. CASE peer[t] # "open" /\ UNCHANGED got
  BY <1>1, <1>2, <1>3, <1>4, <1>5, <1>9 DEF Broadcasts, Others
<1> QED
  BY <1>7, <1>8, <1>9

\* The loop ends past the last slot of its copy.
LEMMA BroadcastDoneDoes ==
  ASSUME IInv, NEW b \in DOMAIN bc, BroadcastDone(b)
  PROVE  /\ Others(b) /\ UNCHANGED got
         /\ bc[b].pc = "fetch" /\ bc[b].at > bc[b].len /\ bc'[b].pc = "done"
<1>1. bc \in Seq(Broadcasts) /\ DOMAIN bc = 1..Len(bc) /\ bc[b] \in Broadcasts
  BY Parts DEF IInv
<1>2. UNCHANGED <<heap, ptr, len, phase, peer, got>> /\ bc[b].pc = "fetch" /\ Exhausted(b)
  BY DEF BroadcastDone, slice, net
<1>3. bc'[b] = [bc[b] EXCEPT !.pc = "done", !.ptr = 0, !.len = -1, !.at = 1]
  BY <1>1 DEF BroadcastDone
<1>4. DOMAIN bc' = DOMAIN bc /\ \A d \in DOMAIN bc : d # b => bc'[d] = bc[d]
  BY <1>1 DEF BroadcastDone
<1> QED
  BY <1>1, <1>2, <1>3, <1>4 DEF Exhausted, Broadcasts, Others

\* A step is one of these.
LEMMA StepKinds ==
  ASSUME IInv, [Next]_vars
  PROVE  \/ Still
         \/ \E c \in Clients : ServeCommand(c) /\ Starts(c) /\ Head(inbox[c]).op = "SEND"
         \/ \E c \in Clients : AppendPtr(c) \/ AppendLen(c) \/ AppendElem(c)
         \/ \E c \in Clients : RemoveShift(c) \/ RemoveTrim(c)
         \/ \E b \in DOMAIN bc : \/ BroadcastLoad(b) \/ BroadcastFetch(b)
                                 \/ BroadcastWrite(b) \/ BroadcastDone(b)
<1>1. ASSUME NEW c \in Clients, ServeCommand(c), UNCHANGED bc PROVE Still
  BY <1>1, ServeCommandDoes DEF Still, HalfAppended
<1>2. ASSUME NEW c \in Clients, ServeStep(c), ~Still
      PROVE  \/ RemoveShift(c) \/ RemoveTrim(c)
             \/ ServeCommand(c) /\ Starts(c) /\ Head(inbox[c]).op = "SEND"
  BY <1>1, <1>2, StillSteps, ServeCommandDoes DEF ServeStep
<1>3. ASSUME StartStep, ~Still
      PROVE  \E c \in Clients : AppendPtr(c) \/ AppendLen(c) \/ AppendElem(c)
  BY <1>3, StillSteps DEF StartStep
<1>4. ASSUME Close \/ UNCHANGED vars \/ \E c \in Clients : PeerStep(c)
      PROVE  Still
  BY <1>4, StillSteps
<1> QED
  BY <1>2, <1>3, <1>4 DEF Next, BroadcastStep

\* No step of accept, remove or Broadcast leaves a nil slot within the slice.
LEMMA FilledStep ==
  ASSUME IInv, Filled, [Next]_vars
  PROVE  Filled'
<1>1. len \in Nat /\ len <= Len(Array) /\ Len(Array) \in Nat
  BY Parts DEF IInv
<1>2. CASE Still
  BY <1>2 DEF Still, Filled, Array
<1>3. ASSUME NEW c \in Clients, ServeCommand(c) PROVE Filled'
  BY <1>3, ServeCommandDoes DEF Filled, Array, HalfAppended
<1>4. ASSUME NEW c \in Clients, AppendPtr(c) PROVE Filled'
  <2>1. /\ \A i \in 1..Len(Array) : Array'[i] = Array[i]
        /\ ~HalfAppended /\ len' = len
    BY <1>4, AppendPtrDoes
  <2>2. \A i \in 1..len : i \in 1..Len(Array)
    BY <1>1
  <2> QED
    BY <2>1, <2>2 DEF Filled
<1>5. ASSUME NEW c \in Clients, AppendLen(c) PROVE Filled'
  <2>1. ~HalfAppended /\ HalfAppended' /\ len' = len + 1 /\ Array' = Array
    BY <1>5, AppendLenDoes DEF Array
  <2> QED
    BY <1>1, <2>1 DEF Filled
<1>6. ASSUME NEW c \in Clients, AppendElem(c) PROVE Filled'
  <2>1. /\ \A i \in 1..Len(Array) : Array'[i] = IF i = len THEN c ELSE Array[i]
        /\ len' = len
    BY <1>6, AppendElemDoes
  <2>2. \A i \in 1..len : i \in 1..Len(Array)
    BY <1>1
  <2> QED
    BY <2>1, <2>2 DEF Filled
<1>7. ASSUME NEW c \in Clients, RemoveShift(c) PROVE Filled'
  <2>1. /\ \A i \in 1..Len(Array) :
             Array'[i] = IF i = scan.gap THEN Array[scan.gap + 1] ELSE Array[i]
        /\ scan.gap + 1 \in 1..len /\ ~HalfAppended /\ len' = len
    BY <1>7, RemoveShiftDoes
  <2>2. \A i \in 1..len : i \in 1..Len(Array)
    BY <1>1
  <2> QED
    BY <2>1, <2>2 DEF Filled
<1>8. ASSUME NEW c \in Clients, RemoveTrim(c) PROVE Filled'
  <2>1. ~HalfAppended /\ len' = len - 1 /\ Array' = Array
    BY <1>8, RemoveTrimDoes DEF Array
  <2> QED
    BY <1>1, <2>1 DEF Filled
<1>9. ASSUME UNCHANGED <<heap, ptr, len, phase>> PROVE Filled'
  BY <1>9 DEF Filled, Array, HalfAppended
<1>10. ASSUME NEW b \in DOMAIN bc,
              BroadcastLoad(b) \/ BroadcastFetch(b) \/ BroadcastWrite(b) \/ BroadcastDone(b)
       PROVE  Filled'
  BY <1>9, <1>10 DEF BroadcastLoad, BroadcastFetch, BroadcastWrite, BroadcastDone, slice
<1> QED
  BY <1>2, <1>3, <1>4, <1>5, <1>6, <1>7, <1>8, <1>10, StepKinds

\* The range loop of Broadcast goes through its places in order.
LEMMA LoopingStep ==
  ASSUME IInv, Looping, [Next]_vars
  PROVE  Looping'
<1>0. \A b \in DOMAIN bc : bc[b] \in Broadcasts
  BY Parts DEF IInv
<1>1. CASE Still
  BY <1>1 DEF Still, Looping
<1>2. ASSUME NEW c \in Clients, ServeCommand(c), Starts(c) PROVE Looping'
  <2>1. PICK n : n = Len(bc) + 1
    OBVIOUS
  <2>2. bc'[n].pc = "load" /\ bc'[n].at = 1 /\ bc'[n].ptr = 0
    BY <1>2, <2>1 DEF Starts, NewBroadcast
  <2>3. DOMAIN bc' = DOMAIN bc \cup {n} /\ \A b \in DOMAIN bc : bc'[b] = bc[b]
    BY <1>2, <2>1 DEF Starts
  <2> QED
    BY <2>2, <2>3 DEF Looping
<1>3. ASSUME NEW c \in Clients, AppendPtr(c) \/ AppendLen(c) \/ AppendElem(c) PROVE Looping'
  <2>1. Joins
    BY <1>3, AppendPtrDoes, AppendLenDoes, AppendElemDoes
  <2> QED
    BY <2>1 DEF Joins, Same, Looping
<1>4. ASSUME NEW c \in Clients, RemoveShift(c) \/ RemoveTrim(c) PROVE Looping'
  <2>1. Leaves
    BY <1>4, RemoveShiftDoes, RemoveTrimDoes
  <2> QED
    BY <2>1 DEF Leaves, Same, Looping
<1>5. ASSUME NEW b \in DOMAIN bc, BroadcastLoad(b) PROVE Looping'
  <2>1. Others(b)
    BY <1>5, BroadcastLoadDoes
  <2>2. /\ bc'[b].pc = "load" => bc'[b].at = 1 /\ (bc'[b].ptr = 0 \/ bc'[b].len = -1)
        /\ bc'[b].pc \in {"fetch", "write"} =>
             bc'[b].at > 0 /\ bc'[b].ptr # 0 /\ bc'[b].len # -1
        /\ bc'[b].pc # "write"
    BY <1>5, BroadcastLoadDoes DEF Looping
  <2> QED
    BY <2>1, <2>2 DEF Looping, Others
<1>6. ASSUME NEW b \in DOMAIN bc, BroadcastFetch(b) PROVE Looping'
  <2>1. CASE UNCHANGED bc
    BY <2>1 DEF Looping
  <2>2. CASE bc' # bc
    <3>1. /\ Others(b) /\ Slot(b) # Nil /\ bc'[b].to = Slot(b) /\ bc'[b].pc = "write"
          /\ bc'[b].ptr = bc[b].ptr /\ bc'[b].len = bc[b].len /\ bc'[b].at = bc[b].at
          /\ bc[b].pc = "fetch" /\ bc[b].at <= bc[b].len
      BY <1>6, <2>2, BroadcastFetchDoes
    <3>2. Slot(b) \in Clients
      <4>1. bc[b].ptr \in DOMAIN heap
        BY <3>1, Parts DEF IInv, PointerInv
      <4>2. heap[bc[b].ptr] \in Seq(Clients \cup {Nil})
        BY <4>1, Parts DEF IInv
      <4>3. Slot(b) \in Clients \cup {Nil}
        BY <4>2 DEF Slot
      <4> QED
        BY <3>1, <4>3
    <3> QED
      BY <3>1, <3>2 DEF Looping, Others
  <2> QED
    BY <2>1, <2>2
<1>7. ASSUME NEW b \in DOMAIN bc, BroadcastWrite(b) PROVE Looping'
  <2>1. bc[b].to \in Clients /\ bc[b].at > 0 /\ bc[b].ptr # 0 /\ bc[b].len # -1
    BY <1>7 DEF BroadcastWrite, Looping
  <2>2. /\ Others(b) /\ bc'[b].pc = "fetch"
        /\ bc'[b].ptr = bc[b].ptr /\ bc'[b].len = bc[b].len /\ bc'[b].at = bc[b].at + 1
    BY <1>7, <2>1, BroadcastWriteDoes
  <2>3. bc[b].at \in Nat /\ bc'[b].at > 0
    BY <1>0, <2>1, <2>2 DEF Broadcasts
  <2> QED
    BY <2>1, <2>2, <2>3 DEF Looping, Others
<1>8. ASSUME NEW b \in DOMAIN bc, BroadcastDone(b) PROVE Looping'
  BY <1>8, BroadcastDoneDoes DEF Looping, Others
<1> QED
  BY <1>1, <1>2, <1>3, <1>4, <1>5, <1>6, <1>7, <1>8, StepKinds

\* Removes leave a broadcast its array, and clients in it.
LEMMA SoundStep ==
  ASSUME IInv, Filled, Looping, Sound, [Next]_vars
  PROVE  Sound'
<1>0. /\ len \in Nat /\ len <= Len(Array) /\ Len(Array) \in Nat
      /\ \A b \in DOMAIN bc : bc[b] \in Broadcasts
  BY Parts DEF IInv
<1>1. CASE Still
  BY <1>1 DEF Still, Sound, Array, Active
<1>2. ASSUME NEW c \in Clients, ServeCommand(c), Starts(c) PROVE Sound'
  <2>1. PICK n : n = Len(bc) + 1
    OBVIOUS
  <2>2. /\ bc'[n].ptr = 0 /\ bc'[n].len = -1
        /\ bc'[n].join <=> \E d \in Clients : phase[d] \in {"len", "elem"}
    BY <1>2, <2>1 DEF Starts, NewBroadcast
  <2>3. DOMAIN bc' = DOMAIN bc \cup {n} /\ \A b \in DOMAIN bc : bc'[b] = bc[b]
    BY <1>2, <2>1 DEF Starts
  <2>4. UNCHANGED <<heap, ptr, len, phase>>
    BY <1>2, ServeCommandDoes
  <2>5. ~bc'[n].join => ~HalfAppended'
    BY <2>2, <2>4 DEF HalfAppended
  <2> QED
    BY <2>2, <2>3, <2>4, <2>5 DEF Sound, Array, Active, HalfAppended
<1>3. ASSUME NEW c \in Clients, AppendPtr(c) \/ AppendLen(c) \/ AppendElem(c) PROVE Sound'
  <2>1. Joins
    BY <1>3, AppendPtrDoes, AppendLenDoes, AppendElemDoes
  <2>2. \A b \in DOMAIN bc' : ~(Active(b)' /\ ~bc'[b].join)
    BY <2>1 DEF Joins, Same, Active
  <2> QED
    BY <2>2 DEF Sound
<1>4. ASSUME NEW c \in Clients, RemoveShift(c) PROVE Sound'
  <2>1. /\ Leaves /\ UNCHANGED <<ptr, len>> /\ ~HalfAppended /\ ~HalfAppended'
        /\ scan.gap + 1 \in 1..len /\ Len(Array') = Len(Array)
        /\ \A i \in 1..Len(Array) :
             Array'[i] = IF i = scan.gap THEN Array[scan.gap + 1] ELSE Array[i]
    BY <1>4, RemoveShiftDoes
  <2>2. Array[scan.gap + 1] # Nil
    BY <2>1 DEF Filled
  <2> SUFFICES ASSUME NEW b \in DOMAIN bc', Active(b)', ~bc'[b].join
               PROVE  /\ bc'[b].ptr \in {0, ptr'}
                      /\ bc'[b].len # -1 => bc'[b].len <= Len(Array')
                      /\ \A i \in 1..bc'[b].len : Array'[i] # Nil
    BY <2>1 DEF Sound
  <2>3. b \in DOMAIN bc /\ Active(b) /\ ~bc[b].join /\ Same(b)
    BY <2>1 DEF Leaves, Same, Active
  <2>4. \A i \in 1..bc[b].len : i \in 1..Len(Array) /\ Array[i] # Nil
    BY <1>0, <2>3 DEF Sound, Broadcasts
  <2> QED
    BY <2>1, <2>2, <2>3, <2>4 DEF Sound, Same
<1>5. ASSUME NEW c \in Clients, RemoveTrim(c) PROVE Sound'
  <2>1. Leaves /\ UNCHANGED <<heap, ptr>> /\ ~HalfAppended /\ ~HalfAppended'
    BY <1>5, RemoveTrimDoes
  <2> QED
    BY <2>1 DEF Sound, Leaves, Same, Active, Array
<1>6. ASSUME NEW b \in DOMAIN bc, BroadcastLoad(b) PROVE Sound'
  <2>1. /\ Others(b) /\ bc[b].pc = "load"
        /\ \/ bc[b].ptr = 0 /\ bc'[b].ptr = ptr /\ bc'[b].len = bc[b].len
           \/ bc[b].len = -1 /\ bc'[b].len = len /\ bc'[b].ptr = bc[b].ptr
    BY <1>6, BroadcastLoadDoes
  <2>2. (HalfAppended' <=> HalfAppended) /\ Array' = Array /\ Active(b)
    BY <2>1 DEF Others, HalfAppended, Array, Active
  <2>3. ASSUME ~bc[b].join
        PROVE  /\ bc'[b].ptr \in {0, ptr}
               /\ bc'[b].len # -1 => bc'[b].len <= Len(Array)
               /\ \A i \in 1..bc'[b].len : Array[i] # Nil
    BY <1>0, <2>1, <2>2, <2>3 DEF Sound, Filled
  <2> QED
    BY <2>1, <2>2, <2>3 DEF Sound, Others, Active
<1>7. ASSUME NEW b \in DOMAIN bc, BroadcastFetch(b) PROVE Sound'
  <2>1. CASE UNCHANGED bc
    BY <1>7, <2>1, BroadcastFetchDoes DEF Sound, Array, Active, HalfAppended
  <2>2. CASE bc' # bc
    <3>1. /\ Others(b) /\ bc[b].pc = "fetch"
          /\ bc'[b].ptr = bc[b].ptr /\ bc'[b].len = bc[b].len
      BY <1>7, <2>2, BroadcastFetchDoes
    <3> QED
      BY <3>1 DEF Sound, Others, Array, Active, HalfAppended
  <2> QED
    BY <2>1, <2>2
<1>8. ASSUME NEW b \in DOMAIN bc, BroadcastWrite(b) PROVE Sound'
  <2>1. /\ Others(b) /\ bc[b].pc = "write"
        /\ bc'[b].ptr = bc[b].ptr /\ bc'[b].len = bc[b].len
    BY <1>8, BroadcastWriteDoes DEF Looping, BroadcastWrite
  <2> QED
    BY <2>1 DEF Sound, Others, Array, Active, HalfAppended
<1>9. ASSUME NEW b \in DOMAIN bc, BroadcastDone(b) PROVE Sound'
  BY <1>9, BroadcastDoneDoes DEF Sound, Others, Array, Active, HalfAppended
<1> QED
  BY <1>1, <1>2, <1>3, <1>4, <1>5, <1>6, <1>7, <1>8, <1>9, StepKinds

\* Only a nil listener, or a broadcast that met an append, kills the process.
LEMMA FaultStep ==
  ASSUME IInv, Looping, Sound, FaultNeedsJoin, [Next]_vars
  PROVE  FaultNeedsJoin'
<1>1. CASE UNCHANGED vars
  BY <1>1 DEF vars, FaultNeedsJoin
<1>2. CASE Next /\ ~fault /\ UNCHANGED fault
  BY <1>2 DEF FaultNeedsJoin
<1>3. CASE Next /\ fault' # fault
  <2>1. AcceptOnNil \/ \E b \in DOMAIN bc : BroadcastFetch(b)
    <3>1. ASSUME NEW c \in Clients, PeerStep(c) PROVE FALSE
      BY <1>3, <3>1 DEF PeerStep, Dial, PeerSends, PeerReads, PeerLeaves
    <3>2. ASSUME Close \/ (StartStep /\ ~AcceptOnNil) PROVE FALSE
      BY <1>3, <3>2 DEF Close, StartStep, Listen, Accept, AcceptLock, AppendPtr, AppendLen,
         AppendElem, AcceptUnlock
    <3>3. ASSUME NEW c \in Clients, ServeStep(c) PROVE FALSE
      <4>1. CASE ServeCommand(c) \/ ServeError(c) \/ ServeEOF(c)
        BY <1>3, <4>1 DEF ServeCommand, ServeError, ServeEOF
      <4>2. CASE RemoveMatch(c)
        BY <1>3, <4>2, Zenon DEF RemoveMatch
      <4>3. CASE RemoveLock(c) \/ RemoveShift(c) \/ RemoveTrim(c) \/ RemoveDone(c)
                 \/ RemoveClose(c)
        BY <1>3, <4>3 DEF RemoveLock, RemoveShift, RemoveTrim, RemoveDone, RemoveClose
      <4> QED
        BY <3>3, <4>1, <4>2, <4>3 DEF ServeStep
    <3>4. ASSUME NEW b \in DOMAIN bc, BroadcastStep(b), ~BroadcastFetch(b) PROVE FALSE
      BY <1>3, <3>4 DEF BroadcastStep, BroadcastLoad, BroadcastWrite, BroadcastDone
    <3> QED
      BY <1>3, <3>1, <3>2, <3>3, <3>4 DEF Next
  <2>2. CASE AcceptOnNil
    BY <2>2 DEF AcceptOnNil, FaultNeedsJoin
  <2>3. ASSUME NEW b \in DOMAIN bc, BroadcastFetch(b) PROVE FaultNeedsJoin'
    <3>1. Slot(b) = Nil /\ UNCHANGED bc /\ bc[b].pc = "fetch" /\ bc[b].at <= bc[b].len
      BY <1>3, <2>3, BroadcastFetchDoes
    <3>2. CASE bc[b].join
      BY <3>1, <3>2 DEF FaultNeedsJoin
    <3>3. CASE ~bc[b].join
      <4>1. bc[b] \in Broadcasts
        BY Parts DEF IInv
      <4>2. bc[b].at > 0 /\ bc[b].ptr # 0 /\ bc[b].len # -1
        BY <3>1 DEF Looping
      <4>3. /\ bc[b].ptr = ptr /\ bc[b].len <= Len(Array)
            /\ \A i \in 1..bc[b].len : Array[i] # Nil
        BY <3>1, <3>3, <4>2 DEF Sound, Active
      <4>4. bc[b].at \in 1..bc[b].len /\ bc[b].at \in 1..Len(Array)
        <5>1. Len(Array) \in Nat
          BY Parts DEF IInv
        <5> QED
          BY <3>1, <4>1, <4>2, <4>3, <5>1 DEF Broadcasts
      <4>5. DOMAIN Array = 1..Len(Array)
        BY Parts DEF IInv
      <4>6. Slot(b) = Array[bc[b].at]
        BY <4>3, <4>4, <4>5 DEF Slot, Array
      <4> QED
        BY <3>1, <4>3, <4>4, <4>6
    <3> QED
      BY <3>2, <3>3
  <2> QED
    BY <2>1, <2>2, <2>3
<1>4. Next => ~fault
  BY DEF Next, PeerStep, StartStep, ServeStep, BroadcastStep
<1> QED
  BY <1>1, <1>2, <1>3, <1>4

\* What has arrived has arrived.
LEMMA ArrivedKept ==
  ASSUME IInv, Looping, [Next]_vars, NEW c \in Clients, NEW b, Arrived(c, b)
  PROVE  Arrived(c, b)'
<1>1. CASE UNCHANGED got
  BY <1>1 DEF Arrived
<1>2. ASSUME NEW d \in Clients,
             \/ ServeCommand(d) \/ AppendPtr(d) \/ AppendLen(d) \/ AppendElem(d)
             \/ RemoveShift(d) \/ RemoveTrim(d)
      PROVE  UNCHANGED got
  BY <1>2, ServeCommandDoes, AppendPtrDoes, AppendLenDoes, AppendElemDoes,
     RemoveShiftDoes, RemoveTrimDoes
<1>3. ASSUME NEW d \in DOMAIN bc, BroadcastLoad(d) \/ BroadcastFetch(d) \/ BroadcastDone(d)
      PROVE  UNCHANGED got
  BY <1>3, BroadcastLoadDoes, BroadcastFetchDoes, BroadcastDoneDoes
<1>4. ASSUME NEW d \in DOMAIN bc, BroadcastWrite(d) PROVE Arrived(c, b)'
  <2>1. PICK t \in Clients : t = bc[d].to
    BY <1>4 DEF Looping, BroadcastWrite
  <2>2. /\ c # t => got'[c] = got[c]
        /\ \/ UNCHANGED got
           \/ /\ DOMAIN got[t] \subseteq DOMAIN got'[t]
              /\ \A j \in DOMAIN got[t] : got'[t][j] = got[t][j]
    BY <1>4, <2>1, BroadcastWriteDoes
  <2> QED
    BY <2>2 DEF Arrived
<1> QED
  BY <1>1, <1>2, <1>3, <1>4, StepKinds DEF Still

\* A write reaches a peer that is there to read.
LEMMA WriteArrives ==
  ASSUME IInv, Looping, NEW b \in DOMAIN bc, BroadcastWrite(b),
         NEW t \in Clients, t = bc[b].to, peer[t] = "open"
  PROVE  Arrived(t, b)'
<1> DEFINE n == Len(got[t]) + 1
<1>1. \/ peer[t] # "open" /\ UNCHANGED got
      \/ DOMAIN got'[t] = DOMAIN got[t] \cup {n} /\ got'[t][n] = b
  BY BroadcastWriteDoes
<1> HIDE DEF n
<1> QED
  BY <1>1 DEF Arrived

\* Steps at which the place of a client stays what it was for a broadcast.
LEMMA StandsKept ==
  ASSUME IInv, Looping, [Next]_vars, NEW b \in DOMAIN bc, Same(b),
         NEW c \in Clients, phase[c] # "none", NEW i, Stands(b, c, i),
         i \in 1..len', Array'[i] = c, HalfAppended' => i # len',
         bc[b].ptr # 0 => DOMAIN heap'[bc[b].ptr] = DOMAIN heap[bc[b].ptr]
                            /\ heap'[bc[b].ptr][i] = heap[bc[b].ptr][i]
  PROVE  Stands(b, c, i)'
<1>1. peer'[c] = "open" => peer[c] = "open"
  BY Onward
<1>2. bc[b].at > i /\ peer'[c] = "open" => Arrived(c, b)'
  BY <1>1, ArrivedKept DEF Stands
<1> QED
  BY <1>2 DEF Stands, Same

\* A step that leaves the slice alone leaves the clients where they stand.
LEMMA TrackedStill ==
  ASSUME IInv, Looping, Tracked, [Next]_vars, DOMAIN bc' = DOMAIN bc,
         NEW b \in DOMAIN bc, Same(b), Active(b), ~bc[b].leave,
         UNCHANGED <<heap, ptr, len>>, HalfAppended' => HalfAppended
  PROVE  \A c \in bc'[b].snap : phase'[c] # "none" /\ \E i \in Nat : Stands(b, c, i)'
<1> SUFFICES ASSUME NEW c \in bc'[b].snap
             PROVE  phase'[c] # "none" /\ \E i \in Nat : Stands(b, c, i)'
  OBVIOUS
<1>1. c \in bc[b].snap /\ c \in Clients
  BY Parts DEF Same, IInv, Broadcasts
<1>2. PICK i \in Nat : phase[c] # "none" /\ Stands(b, c, i)
  BY <1>1 DEF Tracked
<1>3. i \in 1..len' /\ Array'[i] = c /\ (HalfAppended' => i # len')
  BY <1>2 DEF Stands, Array
<1>4. Stands(b, c, i)'
  BY <1>1, <1>2, <1>3, StandsKept
<1> QED
  BY <1>1, <1>2, <1>4, Onward

\* Appends copy and extend, and move nobody.
LEMMA TrackedJoins ==
  ASSUME IInv, Looping, Tracked, [Next]_vars, NEW d \in Clients,
         AppendPtr(d) \/ AppendLen(d) \/ AppendElem(d),
         NEW b \in DOMAIN bc, Active(b), ~bc[b].leave
  PROVE  \A c \in bc'[b].snap : phase'[c] # "none" /\ \E i \in Nat : Stands(b, c, i)'
<1> SUFFICES ASSUME NEW c \in bc'[b].snap
             PROVE  phase'[c] # "none" /\ \E i \in Nat : Stands(b, c, i)'
  OBVIOUS
<1>0. /\ len \in Nat /\ len <= Len(Array) /\ Len(Array) \in Nat
      /\ bc[b] \in Broadcasts /\ ptr \in DOMAIN heap /\ DOMAIN heap = 1..Len(heap)
  BY Parts DEF IInv
<1>1. Same(b)
  BY AppendPtrDoes, AppendLenDoes, AppendElemDoes DEF Joins
<1>2. c \in bc[b].snap /\ c \in Clients
  BY <1>0, <1>1 DEF Same, Broadcasts
<1>3. PICK i \in Nat : phase[c] # "none" /\ Stands(b, c, i)
  BY <1>2 DEF Tracked
<1>4. i \in 1..len /\ i \in 1..Len(Array) /\ Array[i] = c
  BY <1>0, <1>3 DEF Stands
<1>5. bc[b].ptr # 0 => bc[b].ptr \in DOMAIN heap
  BY <1>0 DEF IInv, PointerInv
<1>6. CASE AppendPtr(d)
  <2>1. /\ i \in 1..len' /\ Array'[i] = c /\ ~HalfAppended'
        /\ bc[b].ptr # 0 => heap'[bc[b].ptr] = heap[bc[b].ptr]
    BY <1>4, <1>5, <1>6, AppendPtrDoes
  <2>2. Stands(b, c, i)'
    BY <1>1, <1>2, <1>3, <2>1, StandsKept
  <2> QED
    BY <1>2, <1>3, <2>2, Onward
<1>7. CASE AppendLen(d)
  <2>1. UNCHANGED <<heap, ptr>> /\ len' = len + 1
    BY <1>7, AppendLenDoes
  <2>2. i \in 1..len' /\ i # len' /\ Array'[i] = c
    BY <1>0, <1>4, <2>1 DEF Array
  <2>3. Stands(b, c, i)'
    BY <1>1, <1>2, <1>3, <2>1, <2>2, StandsKept
  <2> QED
    BY <1>2, <1>3, <2>3, Onward
<1>8. CASE AppendElem(d)
  <2>1. /\ HalfAppended /\ ~HalfAppended' /\ UNCHANGED <<ptr, len>>
        /\ \A p \in DOMAIN heap : p # ptr => heap'[p] = heap[p]
        /\ DOMAIN heap'[ptr] = DOMAIN heap[ptr]
        /\ \A k \in 1..Len(Array) : Array'[k] = IF k = len THEN d ELSE Array[k]
    BY <1>8, AppendElemDoes
  <2>2. i # len
    BY <1>3, <2>1 DEF Stands
  <2>3. Array'[i] = c /\ heap'[ptr][i] = heap[ptr][i]
    BY <1>4, <2>1, <2>2 DEF Array
  <2>4. bc[b].ptr # 0 => DOMAIN heap'[bc[b].ptr] = DOMAIN heap[bc[b].ptr]
                           /\ heap'[bc[b].ptr][i] = heap[bc[b].ptr][i]
    BY <1>5, <2>1, <2>3
  <2>5. Stands(b, c, i)'
    BY <1>1, <1>2, <1>3, <1>4, <2>1, <2>3, <2>4, StandsKept
  <2> QED
    BY <1>2, <1>3, <2>5, Onward
<1> QED
  BY <1>6, <1>7, <1>8

\* A client that is registered when a broadcast starts has its slot, unless a
\* remove is shifting.
LEMMA TrackedStarts ==
  ASSUME IInv, NEW d \in Clients, ServeCommand(d), Starts(d), NEW n, n = Len(bc) + 1,
         ~bc'[n].leave
  PROVE  \A c \in bc'[n].snap : phase'[c] # "none" /\ \E i \in Nat : Stands(n, c, i)'
<1>1. bc'[n] = NewBroadcast(d, Head(inbox[d]))
  BY DEF Starts
<1>2. /\ bc'[n].snap = Present /\ bc'[n].at = 1 /\ bc'[n].ptr = 0 /\ bc'[n].len = -1
      /\ bc'[n].pc = "load"
      /\ ~\E e \in Clients : phase[e] = "shift"
  BY <1>1 DEF NewBroadcast
<1>3. UNCHANGED <<heap, ptr, len, phase>>
  BY ServeCommandDoes
<1> SUFFICES ASSUME NEW c \in Present
             PROVE  phase'[c] # "none" /\ \E i \in Nat : Stands(n, c, i)'
  BY <1>2
<1>4. c \in Clients /\ phase[c] # "none"
  BY DEF Present
<1>5. PICK i \in Live : Array[i] = c
  BY DEF IInv, RegistryExact
<1>6. i \in 1..len /\ (HalfAppended => i # len)
  BY <1>2, <1>5 DEF Live, HalfAppended
<1>7. i \in Nat /\ ~(1 > i)
  <2>1. len \in Nat
    BY Parts DEF IInv
  <2> QED
    BY <1>6, <2>1
<1>8. (HalfAppended' <=> HalfAppended) /\ Array' = Array
  BY <1>3 DEF HalfAppended, Array
<1>9. Stands(n, c, i)'
  BY <1>2, <1>3, <1>5, <1>6, <1>7, <1>8 DEF Stands
<1> QED
  BY <1>3, <1>4, <1>7, <1>9

\* The loop comes past every such slot, and writes to the client that is there.
LEMMA TrackedLoop ==
  ASSUME IInv, Looping, Tracked, [Next]_vars, NEW b \in DOMAIN bc,
         BroadcastLoad(b) \/ BroadcastFetch(b) \/ BroadcastWrite(b),
         Active(b), ~bc[b].leave
  PROVE  \A c \in bc'[b].snap : phase'[c] # "none" /\ \E i \in Nat : Stands(b, c, i)'
<1>0. /\ len \in Nat /\ len <= Len(Array) /\ Len(Array) \in Nat /\ bc[b] \in Broadcasts
      /\ DOMAIN heap[ptr] = 1..Len(Array)
  BY Parts DEF IInv, Array
<1>a. UNCHANGED <<heap, ptr, len, phase, peer>> /\ bc'[b].snap = bc[b].snap
  BY BroadcastLoadDoes, BroadcastFetchDoes, BroadcastWriteDoes
     DEF Others, Looping, BroadcastWrite
<1> SUFFICES ASSUME NEW c \in bc[b].snap
             PROVE  phase'[c] # "none" /\ \E i \in Nat : Stands(b, c, i)'
  BY <1>a
<1>1. c \in Clients
  BY <1>0 DEF Broadcasts
<1>2. PICK i \in Nat : phase[c] # "none" /\ Stands(b, c, i)
  BY DEF Tracked
<1>3. (HalfAppended' <=> HalfAppended) /\ Array' = Array
  BY <1>a DEF HalfAppended, Array
<1>4. i \in 1..len /\ Array[i] = c /\ i \in DOMAIN heap[ptr] /\ heap[ptr][i] = c
  BY <1>0, <1>2 DEF Stands, Array
<1>5. CASE BroadcastLoad(b)
  <2>1. /\ bc[b].pc = "load" /\ bc[b].at = 1 /\ bc'[b].at = 1 /\ bc'[b].pc # "write"
        /\ \/ bc[b].ptr = 0 /\ bc'[b].ptr = ptr /\ bc'[b].len = bc[b].len
           \/ bc[b].len = -1 /\ bc'[b].len = len /\ bc'[b].ptr = bc[b].ptr
    BY <1>5, BroadcastLoadDoes DEF Looping
  <2>2. ~(1 > i) /\ i <= len
    BY <1>0, <1>4
  <2>3. bc'[b].ptr # 0 => i \in DOMAIN heap[bc'[b].ptr] /\ heap[bc'[b].ptr][i] = c
    BY <1>2, <1>4, <2>1 DEF Stands
  <2>4. bc'[b].len # -1 => i <= bc'[b].len
    BY <1>2, <2>1, <2>2 DEF Stands
  <2> QED
    BY <1>a, <1>2, <1>3, <2>1, <2>2, <2>3, <2>4 DEF Stands
<1>6. CASE BroadcastFetch(b)
  <2>1. CASE UNCHANGED bc
    <3>1. Same(b)
      BY <2>1 DEF Same
    <3>2. i \in 1..len' /\ Array'[i] = c /\ (HalfAppended' => i # len')
      BY <1>a, <1>2, <1>3, <1>4 DEF Stands
    <3>3. Stands(b, c, i)'
      BY <1>a, <1>1, <1>2, <3>1, <3>2, StandsKept
    <3> QED
      BY <1>a, <1>2, <3>3
  <2>2. CASE bc' # bc
    <3>1. /\ bc'[b].ptr = bc[b].ptr /\ bc'[b].len = bc[b].len /\ bc'[b].at = bc[b].at
          /\ bc'[b].to = Slot(b) /\ bc[b].pc = "fetch"
      BY <1>6, <2>2, BroadcastFetchDoes
    <3>2. bc[b].ptr # 0
      BY <3>1 DEF Looping
    <3>3. bc[b].at = i => Slot(b) = c
      BY <1>2, <3>2 DEF Slot, Stands
    <3>4. bc[b].at > i /\ peer'[c] = "open" => Arrived(c, b)'
      BY <1>a, <1>1, <1>2, ArrivedKept DEF Stands
    <3> QED
      BY <1>a, <1>2, <1>3, <3>1, <3>3, <3>4 DEF Stands
  <2> QED
    BY <2>1, <2>2
<1>7. CASE BroadcastWrite(b)
  <2>1. bc[b].to \in Clients /\ bc[b].pc = "write" /\ bc[b].at \in Nat
    BY <1>0, <1>7 DEF Looping, BroadcastWrite, Broadcasts
  <2>2. /\ bc'[b].ptr = bc[b].ptr /\ bc'[b].len = bc[b].len /\ bc'[b].at = bc[b].at + 1
        /\ bc'[b].pc = "fetch"
    BY <1>7, <2>1, BroadcastWriteDoes
  <2>3. ASSUME bc'[b].at > i, peer'[c] = "open" PROVE Arrived(c, b)'
    <3>1. bc[b].at > i \/ bc[b].at = i
      BY <2>1, <2>2, <2>3
    <3>2. CASE bc[b].at > i
      BY <1>a, <1>1, <1>2, <2>3, <3>2, ArrivedKept DEF Stands
    <3>3. CASE bc[b].at = i
      <4>1. c = bc[b].to /\ peer[c] = "open"
        BY <1>a, <1>2, <2>1, <2>3, <3>3 DEF Stands
      <4> QED
        BY <1>1, <1>7, <4>1, WriteArrives
    <3> QED
      BY <3>1, <3>2, <3>3
  <2> QED
    BY <1>a, <1>2, <1>3, <2>2, <2>3 DEF Stands
<1> QED
  BY <1>5, <1>6, <1>7

\* Together: a broadcast loses no client without a remove.
LEMMA TrackedStep ==
  ASSUME IInv, Looping, Tracked, [Next]_vars
  PROVE  Tracked'
<1> DEFINE Good(b) == \A c \in bc[b].snap : phase[c] # "none" /\ \E i \in Nat : Stands(b, c, i)
<1> SUFFICES ASSUME NEW b \in DOMAIN bc', (Active(b) /\ ~bc[b].leave)'
             PROVE  Good(b)'
  BY DEF Tracked
<1>0. \A d \in DOMAIN bc : bc[d] \in Broadcasts
  BY Parts DEF IInv
<1>1. CASE Still
  BY <1>1, TrackedStill DEF Still, Same, Active
<1>2. ASSUME NEW c \in Clients, ServeCommand(c), Starts(c) PROVE Good(b)'
  <2>1. PICK n : n = Len(bc) + 1
    OBVIOUS
  <2>2. UNCHANGED <<heap, ptr, len, phase>>
    BY <1>2, ServeCommandDoes
  <2>3. CASE b = n
    BY <1>2, <2>1, <2>3, TrackedStarts
  <2>4. CASE b # n
    <3>1. b \in DOMAIN bc /\ bc'[b] = bc[b]
      BY <1>2, <2>1, <2>4 DEF Starts
    <3>2. PICK d : d = b
      OBVIOUS
    <3>3. ASSUME NEW e \in bc'[b].snap
          PROVE  phase'[e] # "none" /\ \E i \in Nat : Stands(b, e, i)'
      <4>1. e \in Clients /\ Same(b) /\ Active(b) /\ ~bc[b].leave /\ e \in bc[b].snap
        BY <1>0, <3>1 DEF Same, Active, Broadcasts
      <4>2. PICK i \in Nat : phase[e] # "none" /\ Stands(b, e, i)
        BY <3>1, <4>1 DEF Tracked
      <4>3. i \in 1..len' /\ Array'[i] = e /\ (HalfAppended' => i # len')
        BY <2>2, <4>2 DEF Stands, Array, HalfAppended
      <4>4. Stands(b, e, i)'
        BY <2>2, <3>1, <4>1, <4>2, <4>3, StandsKept
      <4> QED
        BY <2>2, <4>2, <4>4
    <3> QED
      BY <3>3
  <2> QED
    BY <2>3, <2>4
<1>3. ASSUME NEW c \in Clients, AppendPtr(c) \/ AppendLen(c) \/ AppendElem(c)
      PROVE  Good(b)'
  <2>1. Joins
    BY <1>3, AppendPtrDoes, AppendLenDoes, AppendElemDoes
  <2>2. b \in DOMAIN bc /\ Active(b) /\ ~bc[b].leave
    BY <2>1 DEF Joins, Same, Active
  <2> QED
    BY <1>3, <2>2, TrackedJoins
<1>4. ASSUME NEW c \in Clients, RemoveShift(c) \/ RemoveTrim(c) PROVE FALSE
  <2>1. Leaves
    BY <1>4, RemoveShiftDoes, RemoveTrimDoes
  <2> QED
    BY <2>1 DEF Leaves, Same, Active
<1>5. ASSUME NEW d \in DOMAIN bc,
             \/ BroadcastLoad(d) \/ BroadcastFetch(d)
             \/ BroadcastWrite(d) \/ BroadcastDone(d)
      PROVE  Good(b)'
  <2>1. UNCHANGED <<heap, ptr, len, phase>> /\ DOMAIN bc' = DOMAIN bc
        /\ \A e \in DOMAIN bc : e # d => bc'[e] = bc[e]
    BY <1>5, BroadcastLoadDoes, BroadcastFetchDoes, BroadcastWriteDoes, BroadcastDoneDoes
       DEF Others, Looping, BroadcastWrite
  <2>2. CASE b # d
    <3>1. bc'[b] = bc[b] /\ b \in DOMAIN bc
      BY <2>1, <2>2
    <3> QED
      BY <2>1, <3>1, TrackedStill DEF Same, Active, HalfAppended
  <2>3. CASE b = d
    <3>1. ~BroadcastDone(b)
      BY <2>3, BroadcastDoneDoes DEF Active
    <3>2. Active(b) /\ ~bc[b].leave
      <4>1. bc'[b].leave = bc[b].leave /\ bc[b].pc # "done"
        BY <1>5, <2>3, BroadcastLoadDoes, BroadcastFetchDoes, BroadcastWriteDoes,
           BroadcastDoneDoes DEF Others, Looping, BroadcastWrite
      <4> QED
        BY <4>1 DEF Active
    <3> QED
      BY <1>5, <2>3, <3>1, <3>2, TrackedLoop
  <2> QED
    BY <2>2, <2>3
<1> QED
  BY <1>1, <1>2, <1>3, <1>4, <1>5, StepKinds

\* So when it is over, all of them have the message.
LEMMA ReachedStep ==
  ASSUME IInv, Looping, Tracked, Reached, [Next]_vars
  PROVE  Reached'
<1> SUFFICES ASSUME NEW b \in DOMAIN bc', (~Active(b) /\ ~bc[b].leave)',
                    NEW c \in bc'[b].snap
             PROVE  phase'[c] # "none" /\ (peer'[c] = "open" => Arrived(c, b)')
  BY DEF Reached
<1>0. \A d \in DOMAIN bc : bc[d] \in Broadcasts
  BY Parts DEF IInv
<1>1. ASSUME b \in DOMAIN bc, ~Active(b), ~bc[b].leave, c \in bc[b].snap
      PROVE  phase'[c] # "none" /\ (peer'[c] = "open" => Arrived(c, b)')
  <2>1. phase[c] # "none" /\ (peer[c] = "open" => Arrived(c, b)) /\ c \in Clients
    BY <1>0, <1>1 DEF Reached, Broadcasts
  <2> QED
    BY <2>1, Onward, ArrivedKept
<1>2. CASE Still
  BY <1>1, <1>2 DEF Still, Active
<1>3. ASSUME NEW d \in Clients, ServeCommand(d), Starts(d)
      PROVE  phase'[c] # "none" /\ (peer'[c] = "open" => Arrived(c, b)')
  <2>1. PICK n : n = Len(bc) + 1
    OBVIOUS
  <2>2. bc'[n].pc = "load"
    BY <1>3, <2>1 DEF Starts, NewBroadcast
  <2>3. b \in DOMAIN bc /\ bc'[b] = bc[b]
    BY <1>3, <2>1, <2>2 DEF Starts, Active
  <2> QED
    BY <1>1, <2>3 DEF Active
<1>4. ASSUME NEW d \in Clients, AppendPtr(d) \/ AppendLen(d) \/ AppendElem(d)
      PROVE  phase'[c] # "none" /\ (peer'[c] = "open" => Arrived(c, b)')
  <2>1. Joins
    BY <1>4, AppendPtrDoes, AppendLenDoes, AppendElemDoes
  <2> QED
    BY <1>1, <2>1 DEF Joins, Same, Active
<1>5. ASSUME NEW d \in Clients, RemoveShift(d) \/ RemoveTrim(d)
      PROVE  phase'[c] # "none" /\ (peer'[c] = "open" => Arrived(c, b)')
  <2>1. Leaves
    BY <1>5, RemoveShiftDoes, RemoveTrimDoes
  <2> QED
    BY <1>1, <2>1 DEF Leaves, Same, Active
<1>6. ASSUME NEW d \in DOMAIN bc,
             \/ BroadcastLoad(d) \/ BroadcastFetch(d)
             \/ BroadcastWrite(d) \/ BroadcastDone(d)
      PROVE  phase'[c] # "none" /\ (peer'[c] = "open" => Arrived(c, b)')
  <2>1. DOMAIN bc' = DOMAIN bc /\ \A e \in DOMAIN bc : e # d => bc'[e] = bc[e]
    BY <1>6, BroadcastLoadDoes, BroadcastFetchDoes, BroadcastWriteDoes, BroadcastDoneDoes
       DEF Others, Looping, BroadcastWrite
  <2>2. CASE b # d
    BY <1>1, <2>1, <2>2 DEF Active
  <2>3. CASE b = d /\ ~BroadcastDone(d)
    <3>1. bc'[b].pc \in {"load", "fetch", "write"}
      BY <1>6, <2>3, BroadcastLoadDoes, BroadcastFetchDoes, BroadcastWriteDoes
         DEF Looping, BroadcastWrite
    <3> QED
      BY <3>1 DEF Active
  <2>4. CASE b = d /\ BroadcastDone(d)
    <3>1. /\ bc[b].pc = "fetch" /\ bc[b].at > bc[b].len /\ bc'[b].snap = bc[b].snap
          /\ bc'[b].leave = bc[b].leave
      BY <2>4, BroadcastDoneDoes DEF Others
    <3>2. c \in Clients /\ c \in bc[b].snap /\ bc[b].len # -1 /\ Active(b) /\ ~bc[b].leave
          /\ bc[b].at \in Nat /\ bc[b].len \in Nat
      BY <1>0, <2>4, <3>1 DEF Looping, Active, Broadcasts
    <3>3. PICK i \in Nat : phase[c] # "none" /\ Stands(b, c, i)
      BY <2>4, <3>2 DEF Tracked
    <3>4. bc[b].at > i
      BY <3>1, <3>2, <3>3 DEF Stands
    <3>5. peer[c] = "open" => Arrived(c, b)
      BY <3>3, <3>4 DEF Stands
    <3> QED
      BY <3>2, <3>3, <3>5, Onward, ArrivedKept
  <2> QED
    BY <2>2, <2>3, <2>4
<1> QED
  BY <1>2, <1>3, <1>4, <1>5, <1>6, StepKinds

\* One broadcast at most was written to one client, at the last place.
LEMMA WriteOnce ==
  ASSUME IInv, Looping, NEW b \in DOMAIN bc, BroadcastWrite(b), NEW c \in Clients,
         NEW d
  PROVE  /\ Arrived(c, d)' => Arrived(c, d) \/ (d = b /\ c = bc[b].to)
         /\ (\A j, k \in DOMAIN got[c] : got[c][j] = d /\ got[c][k] = d => j = k)
              /\ (d = b /\ c = bc[b].to => ~Arrived(c, d))
            => \A j, k \in DOMAIN got'[c] : got'[c][j] = d /\ got'[c][k] = d => j = k
<1>1. PICK t \in Clients : t = bc[b].to
  BY DEF Looping, BroadcastWrite
<1>2. PICK n : n = Len(got[t]) + 1
  OBVIOUS
<1>3. /\ c # t => got'[c] = got[c]
      /\ \/ UNCHANGED got
         \/ /\ DOMAIN got'[t] = DOMAIN got[t] \cup {n} /\ n \notin DOMAIN got[t]
            /\ \A j \in DOMAIN got[t] : got'[t][j] = got[t][j]
            /\ got'[t][n] = b
  BY <1>1, <1>2, BroadcastWriteDoes
<1>4. CASE got'[c] = got[c]
  BY <1>4 DEF Arrived
<1>5. CASE c = t /\ got'[c] # got[c]
  <2>1. /\ DOMAIN got'[c] = DOMAIN got[c] \cup {n} /\ n \notin DOMAIN got[c]
        /\ \A j \in DOMAIN got[c] : got'[c][j] = got[c][j]
        /\ got'[c][n] = b
    BY <1>3, <1>5
  <2> QED
    BY <1>1, <1>5, <2>1 DEF Arrived
<1> QED
  BY <1>3, <1>4, <1>5

\* A broadcast that nothing disturbs writes once to each client it found.
LEMMA UndisturbedStep ==
  ASSUME IInv, Looping, Undisturbed, [Next]_vars
  PROVE  Undisturbed'
<1> DEFINE Once(b) == \A c \in Clients : \A j, k \in DOMAIN got[c] :
                        got[c][j] = b /\ got[c][k] = b => j = k
           Only(b) == \A c \in Clients : Arrived(c, b) => c \in bc[b].snap
           Fine(b) == (Active(b) => Alike(b)) /\ Only(b) /\ Once(b)
<1> SUFFICES ASSUME NEW b \in DOMAIN bc', (~bc[b].leave /\ ~bc[b].join)' PROVE Fine(b)'
  BY DEF Undisturbed
<1>0. /\ \A d \in DOMAIN bc : bc[d] \in Broadcasts
      /\ len \in Nat /\ len <= Len(Array) /\ Len(Array) \in Nat
      /\ DOMAIN heap[ptr] = 1..Len(Array)
  BY Parts DEF IInv, Array
<1>1. ASSUME b \in DOMAIN bc, ~bc[b].leave, ~bc[b].join PROVE Fine(b)
  BY <1>1 DEF Undisturbed
<1>2. ASSUME UNCHANGED <<got, heap, ptr, len>>, b \in DOMAIN bc, bc'[b] = bc[b]
      PROVE  Fine(b)'
  <2>1. Fine(b)
    BY <1>1, <1>2
  <2>2. Array' = Array /\ \A c \in Clients : Arrived(c, b)' <=> Arrived(c, b)
    BY <1>2 DEF Array, Arrived
  <2>3. Only(b)' /\ Once(b)'
    BY <1>2, <2>1, <2>2
  <2>4. Active(b)' => Alike(b)'
    BY <1>2, <2>1, <2>2 DEF Active, Alike
  <2> QED
    BY <2>3, <2>4
<1>3. ASSUME UNCHANGED got, b \in DOMAIN bc, ~bc[b].leave, ~bc[b].join,
             bc'[b].snap = bc[b].snap, ~Active(b)'
      PROVE  Fine(b)'
  <2>1. Only(b) /\ Once(b)
    BY <1>1, <1>3
  <2>2. \A c \in Clients : Arrived(c, b)' <=> Arrived(c, b)
    BY <1>3 DEF Arrived
  <2> QED
    BY <1>3, <2>1, <2>2
<1>4. CASE Still
  BY <1>2, <1>4 DEF Still
<1>5. ASSUME NEW c \in Clients, ServeCommand(c), Starts(c) PROVE Fine(b)'
  <2>1. PICK n : n = Len(bc) + 1
    OBVIOUS
  <2>2. /\ UNCHANGED <<got, heap, ptr, len, phase>>
        /\ \A d \in Clients : \A j \in DOMAIN got[d] : got[d][j] # n
    BY <1>5, <2>1, ServeCommandDoes
  <2>3. CASE b # n
    BY <1>2, <1>5, <2>1, <2>2, <2>3 DEF Starts
  <2>4. CASE b = n
    <3>1. bc'[b] = NewBroadcast(c, Head(inbox[c]))
      BY <1>5, <2>1, <2>4 DEF Starts
    <3>2. /\ bc'[b].snap = Present /\ bc'[b].ptr = 0 /\ bc'[b].len = -1
          /\ bc'[b].pc = "load"
          /\ ~\E e \in Clients : phase[e] = "shift"
          /\ ~\E e \in Clients : phase[e] = "elem"
      BY <3>1 DEF NewBroadcast
    <3>3. Live = 1..len
      BY <3>2, Zenon DEF Live
    <3>4. /\ \A i \in 1..len : Array[i] \in Present
          /\ \A i, j \in 1..len : Array[i] = Array[j] => i = j
      BY <3>3 DEF IInv, RegistryExact
    <3>5. \A d \in Clients : ~Arrived(d, b)'
      BY <2>2, <2>4 DEF Arrived
    <3>6. len' = len /\ Array' = Array
      BY <2>2 DEF Array
    <3>7. Only(b)' /\ Once(b)'
      BY <2>2, <2>4, <3>5
    <3>8. Alike(b)'
      BY <3>2, <3>4, <3>5, <3>6 DEF Alike
    <3> QED
      BY <3>7, <3>8
  <2> QED
    BY <2>3, <2>4
<1>6. ASSUME NEW c \in Clients, AppendPtr(c) \/ AppendLen(c) \/ AppendElem(c)
      PROVE  Fine(b)'
  <2>1. Joins /\ UNCHANGED got
    BY <1>6, AppendPtrDoes, AppendLenDoes, AppendElemDoes
  <2> QED
    BY <1>3, <2>1 DEF Joins, Same, Active
<1>7. ASSUME NEW c \in Clients, RemoveShift(c) \/ RemoveTrim(c)
      PROVE  Fine(b)'
  <2>1. Leaves /\ UNCHANGED got
    BY <1>7, RemoveShiftDoes, RemoveTrimDoes
  <2> QED
    BY <1>3, <2>1 DEF Leaves, Same, Active
<1>8. ASSUME NEW d \in DOMAIN bc, BroadcastLoad(d) \/ BroadcastFetch(d) \/ BroadcastDone(d)
      PROVE  Fine(b)'
  <2>1. /\ UNCHANGED <<got, heap, ptr, len>> /\ DOMAIN bc' = DOMAIN bc
        /\ \A e \in DOMAIN bc : e # d => bc'[e] = bc[e]
    BY <1>8, BroadcastLoadDoes, BroadcastFetchDoes, BroadcastDoneDoes DEF Others
  <2>2. CASE b # d \/ bc'[b] = bc[b]
    BY <1>2, <2>1, <2>2
  <2>3. CASE b = d /\ bc'[b] # bc[b]
    <3>1. /\ bc'[b].snap = bc[b].snap /\ bc'[b].leave = bc[b].leave
          /\ bc'[b].join = bc[b].join /\ bc[b].pc \in {"load", "fetch"}
      BY <1>8, <2>3, BroadcastLoadDoes, BroadcastFetchDoes, BroadcastDoneDoes DEF Others
    <3>2. Fine(b) /\ Active(b)
      BY <1>1, <2>1, <3>1 DEF Active
    <3>3. Array' = Array /\ \A c \in Clients : Arrived(c, b)' <=> Arrived(c, b)
      BY <2>1 DEF Array, Arrived
    <3>4. Only(b)' /\ Once(b)'
      BY <2>1, <3>1, <3>2, <3>3
    <3>5. CASE BroadcastLoad(b)
      <4>1. /\ bc'[b].ptr \in {0, ptr} /\ bc'[b].len \in {-1, len} /\ bc'[b].pc # "write"
            /\ bc'[b].at = bc[b].at
        BY <1>8, <2>3, <3>2, <3>5, BroadcastLoadDoes DEF Alike
      <4>2. Alike(b)'
        BY <2>1, <3>1, <3>2, <3>3, <4>1 DEF Alike
      <4> QED
        BY <3>4, <4>2
    <3>6. CASE BroadcastFetch(b)
      <4>1. /\ bc'[b].ptr = bc[b].ptr /\ bc'[b].len = bc[b].len /\ bc'[b].at = bc[b].at
            /\ bc'[b].to = Slot(b) /\ bc[b].pc = "fetch" /\ bc[b].at <= bc[b].len
        BY <2>3, <3>6, BroadcastFetchDoes
      <4>2. /\ bc[b].at > 0 /\ bc[b].ptr = ptr /\ bc[b].len = len /\ bc[b].at \in Nat
        BY <1>0, <2>1, <3>2, <4>1 DEF Looping, Alike, Broadcasts
      <4>3. bc[b].at \in 1..Len(Array)
        BY <1>0, <4>1, <4>2
      <4>4. Slot(b) = Array[bc[b].at]
        BY <1>0, <4>2, <4>3 DEF Slot, Array
      <4>5. Alike(b)'
        BY <2>1, <3>1, <3>2, <3>3, <4>1, <4>4 DEF Alike
      <4> QED
        BY <3>4, <4>5
    <3>7. CASE BroadcastDone(b)
      <4>1. ~Active(b)'
        BY <1>8, <2>3, <3>7, BroadcastDoneDoes DEF Active
      <4> QED
        BY <3>4, <4>1
    <3> QED
      BY <1>8, <2>3, <3>5, <3>6, <3>7
  <2> QED
    BY <2>2, <2>3
<1>9. ASSUME NEW d \in DOMAIN bc, BroadcastWrite(d) PROVE Fine(b)'
  <2>0. bc[d].to \in Clients /\ bc[d].pc = "write" /\ bc[d].at > 0 /\ bc[d].at <= bc[d].len
        /\ bc[d].at \in Nat /\ bc[d].len # -1
    BY <1>0, <1>9 DEF Looping, BroadcastWrite, Broadcasts
  <2>1. /\ UNCHANGED <<heap, ptr, len>> /\ DOMAIN bc' = DOMAIN bc
        /\ \A e \in DOMAIN bc : e # d => bc'[e] = bc[e]
        /\ bc'[d].ptr = bc[d].ptr /\ bc'[d].len = bc[d].len /\ bc'[d].at = bc[d].at + 1
        /\ bc'[d].pc = "fetch" /\ bc'[d].snap = bc[d].snap
        /\ bc'[d].leave = bc[d].leave /\ bc'[d].join = bc[d].join
    BY <1>9, <2>0, BroadcastWriteDoes DEF Others
  <2>2. b \in DOMAIN bc /\ Fine(b)
    BY <1>1, <2>1
  <2>3. Array' = Array
    BY <2>1 DEF Array
  <2>4. CASE b # d
    <3>1. \A c \in Clients : Arrived(c, b)' => Arrived(c, b)
      BY <1>9, <2>4, WriteOnce
    <3>2. Once(b)'
      BY <1>9, <2>2, <2>4, WriteOnce
    <3>3. bc'[b] = bc[b]
      BY <2>1, <2>2, <2>4
    <3>4. Only(b)'
      BY <2>2, <3>1, <3>3
    <3>5. Active(b)' => Alike(b)'
      BY <2>1, <2>2, <2>3, <3>1, <3>3 DEF Alike, Active
    <3> QED
      BY <3>2, <3>4, <3>5
  <2>5. CASE b = d
    <3>1. Alike(b) /\ bc[b].len = len /\ bc[b].at \in 1..len
      BY <1>0, <2>0, <2>2, <2>5 DEF Active, Alike
    <3>2. bc[b].to = Array[bc[b].at] /\ bc[b].to \in bc[b].snap
      BY <2>0, <2>5, <3>1 DEF Alike
    <3>3. ~Arrived(bc[b].to, b)
      <4>1. SUFFICES ASSUME Arrived(bc[b].to, b) PROVE FALSE
        OBVIOUS
      <4>2. PICK i \in 1..len : Array[i] = bc[b].to /\ i < bc[b].at
        BY <2>0, <2>5, <3>1, <4>1 DEF Alike
      <4>3. i = bc[b].at
        BY <3>1, <3>2, <4>2 DEF Alike
      <4> QED
        BY <2>0, <2>5, <4>2, <4>3
    <3>4. Once(b)'
      BY <1>9, <2>2, <2>5, <3>3, WriteOnce
    <3>5. Only(b)'
      BY <1>9, <2>1, <2>2, <2>5, <3>2, WriteOnce
    <3>6. ASSUME NEW c \in Clients, Arrived(c, b)'
          PROVE  \E i \in 1..len' : Array'[i] = c /\ i < bc'[b].at
      <4>1. CASE Arrived(c, b)
        <5>1. PICK i \in 1..len : Array[i] = c /\ i < bc[b].at
          BY <3>1, <4>1 DEF Alike
        <5>2. i < bc'[b].at
          BY <1>0, <2>0, <2>1, <2>5, <5>1
        <5> QED
          BY <2>1, <2>3, <5>1, <5>2
      <4>2. CASE c = bc[b].to
        <5>1. bc[b].at < bc'[b].at
          BY <2>0, <2>1, <2>5
        <5> QED
          BY <2>1, <2>3, <3>1, <3>2, <4>2, <5>1
      <4> QED
        BY <1>9, <2>5, <3>6, <4>1, <4>2, WriteOnce
    <3>7. Alike(b)'
      BY <2>1, <2>3, <2>5, <3>1, <3>6 DEF Alike
    <3> QED
      BY <3>4, <3>5, <3>7
  <2> QED
    BY <2>4, <2>5
<1> QED
  BY <1>4, <1>5, <1>6, <1>7, <1>8, <1>9, StepKinds

\* The steps that change what has been sent, or how a connection stands.
LEMMA NameSteps ==
  ASSUME IInv, [Next]_vars
  PROVE  \/ UNCHANGED <<name, chosen, inbox, peer>>
         \/ \E c \in Clients : \/ Dial(c) \/ PeerSends(c) \/ PeerLeaves(c)
                               \/ ServeCommand(c) \/ ServeError(c)
<1> DEFINE Quiet4 == UNCHANGED <<name, chosen, inbox, peer>>
<1>1. ASSUME NEW c \in Clients, PeerReads(c) PROVE Quiet4
  BY <1>1 DEF PeerReads
<1>2. ASSUME Close \/ StartStep PROVE Quiet4
  BY <1>2 DEF Close, StartStep, Listen, AcceptOnNil, Accept, AcceptLock, AppendPtr, AppendLen,
     AppendElem, AcceptUnlock, net
<1>3. ASSUME NEW c \in Clients, ServeEOF(c) \/ RemoveLock(c) \/ RemoveShift(c) \/ RemoveTrim(c)
                                  \/ RemoveDone(c) \/ RemoveClose(c)
      PROVE  Quiet4
  BY <1>3 DEF ServeEOF, RemoveLock, RemoveShift, RemoveTrim, RemoveDone, RemoveClose, net
<1>4. ASSUME NEW c \in Clients, RemoveMatch(c) PROVE Quiet4
  BY <1>4, Zenon DEF RemoveMatch, net
<1>5. ASSUME NEW b \in DOMAIN bc, BroadcastStep(b) PROVE Quiet4
  BY <1>5 DEF BroadcastStep, BroadcastLoad, BroadcastFetch, BroadcastWrite, BroadcastDone, net
<1>6. CASE UNCHANGED vars
  BY <1>6 DEF vars, net
<1> QED
  BY <1>1, <1>2, <1>3, <1>4, <1>5, <1>6 DEF Next, PeerStep, ServeStep

\* Nothing is sent on, or read from, a connection that has not been dialled.
LEMMA DialledStep ==
  ASSUME IInv, Named, [Next]_vars, NEW c \in Clients
  PROVE  /\ phase'[c] = "none" => peer'[c] = "none"
         /\ peer'[c] = "none" => inbox'[c] = <<>> /\ name'[c] = chosen'[c]
<1>0. /\ phase \in [Clients -> Phases] /\ peer \in [Clients -> {"none", "open", "closed", "reset"}]
      /\ inbox \in [Clients -> Seq(Commands)] /\ name \in [Clients -> Names \cup {NoName}]
      /\ chosen \in [Clients -> Names \cup {NoName}]
  BY DEF IInv, TypeOK
<1>1. /\ phase[c] = "none" => peer[c] = "none"
      /\ peer[c] = "none" => inbox[c] = <<>> /\ name[c] = chosen[c]
  BY DEF Named
<1>2. phase'[c] = "none" => phase[c] = "none"
  BY Onward
<1>3. CASE UNCHANGED <<name, chosen, inbox, peer>>
  BY <1>1, <1>2, <1>3
<1>4. ASSUME NEW d \in Clients, Dial(d)
      PROVE  /\ phase'[c] = "none" => peer'[c] = "none"
             /\ peer'[c] = "none" => inbox'[c] = <<>> /\ name'[c] = chosen'[c]
  BY <1>0, <1>1, <1>2, <1>4 DEF Dial, Goto
<1>5. ASSUME NEW d \in Clients, PeerSends(d)
      PROVE  /\ phase'[c] = "none" => peer'[c] = "none"
             /\ peer'[c] = "none" => inbox'[c] = <<>> /\ name'[c] = chosen'[c]
  BY <1>0, <1>1, <1>2, <1>5 DEF PeerSends, Command
<1>6. ASSUME NEW d \in Clients, PeerLeaves(d)
      PROVE  /\ phase'[c] = "none" => peer'[c] = "none"
             /\ peer'[c] = "none" => inbox'[c] = <<>> /\ name'[c] = chosen'[c]
  BY <1>0, <1>1, <1>2, <1>6 DEF PeerLeaves
<1>7. ASSUME NEW d \in Clients, ServeCommand(d)
      PROVE  /\ phase'[c] = "none" => peer'[c] = "none"
             /\ peer'[c] = "none" => inbox'[c] = <<>> /\ name'[c] = chosen'[c]
  <2>1. UNCHANGED <<phase, peer, chosen>> /\ inbox[d] # <<>>
        /\ (c # d => inbox'[c] = inbox[c] /\ name'[c] = name[c])
    BY <1>0, <1>7 DEF ServeCommand
  <2> QED
    BY <1>1, <2>1
<1>8. ASSUME NEW d \in Clients, ServeError(d)
      PROVE  /\ phase'[c] = "none" => peer'[c] = "none"
             /\ peer'[c] = "none" => inbox'[c] = <<>> /\ name'[c] = chosen'[c]
  BY <1>0, <1>1, <1>2, <1>8 DEF ServeError
<1> QED
  BY <1>3, <1>4, <1>5, <1>6, <1>7, <1>8, NameSteps

\* The history grows by what is sent, and loses its first name to the server.
LEMMA HistoryStep ==
  ASSUME IInv, Named, [Next]_vars, NEW c \in Clients
  PROVE  \E v \in [0..Len(inbox'[c]) -> Names \cup {NoName}] : History(c, v)'
<1>0. /\ phase \in [Clients -> Phases] /\ peer \in [Clients -> {"none", "open", "closed", "reset"}]
      /\ inbox \in [Clients -> Seq(Commands)] /\ name \in [Clients -> Names \cup {NoName}]
      /\ chosen \in [Clients -> Names \cup {NoName}]
      /\ inbox[c] \in Seq(Commands) /\ Len(inbox[c]) \in Nat
      /\ DOMAIN inbox[c] = 1..Len(inbox[c])
  <2>1. /\ phase \in [Clients -> Phases] /\ peer \in [Clients -> {"none", "open", "closed", "reset"}]
        /\ inbox \in [Clients -> Seq(Commands)] /\ name \in [Clients -> Names \cup {NoName}]
        /\ chosen \in [Clients -> Names \cup {NoName}]
    BY DEF IInv, TypeOK
  <2>2. inbox[c] \in Seq(Commands)
    BY <2>1
  <2> HIDE DEF IInv, TypeOK
  <2>3. \A q \in Seq(Commands) : Len(q) \in Nat /\ DOMAIN q = 1..Len(q)
    OBVIOUS
  <2> QED
    BY <2>1, <2>2, <2>3
<1>1. PICK v \in [0..Len(inbox[c]) -> Names \cup {NoName}] : History(c, v)
  BY DEF Named
<1>2. ASSUME inbox'[c] = inbox[c], name'[c] = name[c], chosen'[c] = chosen[c],
             peer'[c] = "open" => peer[c] = "open"
      PROVE  \E w \in [0..Len(inbox'[c]) -> Names \cup {NoName}] : History(c, w)'
  <2>1. History(c, v)'
    BY <1>1, <1>2 DEF History
  <2>2. v \in [0..Len(inbox'[c]) -> Names \cup {NoName}]
    BY <1>1, <1>2
  <2> QED
    BY <2>1, <2>2
<1>3. ASSUME NEW d \in Clients, Dial(d)
      PROVE  \E w \in [0..Len(inbox'[c]) -> Names \cup {NoName}] : History(c, w)'
  <2>1. CASE c # d
    BY <1>0, <1>2, <1>3, <2>1 DEF Dial
  <2>2. CASE c = d
    <3>1. inbox[c] = <<>> /\ name[c] = chosen[c] /\ UNCHANGED <<inbox, name, chosen>>
      BY <1>3, <2>2 DEF Dial, Named
    <3>2. Len(inbox[c]) = 0 /\ DOMAIN inbox[c] = {}
      BY <3>1
    <3>3. v[0] = name[c]
      BY <1>1 DEF History
    <3>4. History(c, v)'
      BY <3>1, <3>2, <3>3 DEF History
    <3>5. v \in [0..Len(inbox'[c]) -> Names \cup {NoName}]
      BY <1>1, <3>1
    <3> QED
      BY <3>4, <3>5
  <2> QED
    BY <2>1, <2>2
<1>4. ASSUME NEW d \in Clients, PeerSends(d)
      PROVE  \E w \in [0..Len(inbox'[c]) -> Names \cup {NoName}] : History(c, w)'
  <2>1. CASE c # d
    BY <1>0, <1>2, <1>4, <2>1 DEF PeerSends, Command
  <2>2. CASE c = d
    <3>1. PICK cmd : Command(c, cmd) /\ cmd \in Commands /\ (cmd.op = "SEND" => cmd.name = chosen[c])
      <4>2. CASE Command(c, [op |-> "SEND", name |-> chosen[c]])
        <5>1. PICK r : r = [op |-> "SEND", name |-> chosen[c]]
          OBVIOUS
        <5>2. chosen[c] \in Names \cup {NoName} /\ Command(c, r)
          BY <1>0, <4>2, <5>1
        <5>3. r \in Commands /\ r.name = chosen[c]
          BY <5>1, <5>2 DEF Commands
        <5> QED
          BY <5>2, <5>3
      <4>3. ASSUME NEW n \in Names, Command(c, [op |-> "NAME", name |-> n])
            PROVE  \E r : Command(c, r) /\ r \in Commands /\ (r.op = "SEND" => r.name = chosen[c])
        <5>1. PICK r : r = [op |-> "NAME", name |-> n]
          OBVIOUS
        <5>2. r \in Commands /\ r.op # "SEND"
          BY <5>1 DEF Commands
        <5> QED
          BY <4>3, <5>1, <5>2
      <4>4. CASE Command(c, [op |-> "BAD", name |-> NoName])
        <5>1. PICK r : r = [op |-> "BAD", name |-> NoName]
          OBVIOUS
        <5>2. r \in Commands /\ r.op # "SEND"
          BY <5>1 DEF Commands
        <5> QED
          BY <4>4, <5>1, <5>2
      <4>5. \/ Command(c, [op |-> "SEND", name |-> chosen[c]])
            \/ \E n \in Names : Command(c, [op |-> "NAME", name |-> n])
            \/ Command(c, [op |-> "BAD", name |-> NoName])
        BY <1>4, <2>2 DEF PeerSends
      <4> QED
        BY <4>2, <4>3, <4>4, <4>5
    <3>2. peer[c] = "open" /\ UNCHANGED <<peer, name>>
      BY <1>4, <2>2 DEF PeerSends
    <3>3. PICK n : n = Len(inbox[c]) + 1
      OBVIOUS
    <3>4. n \in Nat /\ n - 1 = Len(inbox[c])
      BY <1>0, <3>3
    <3>5. /\ Len(inbox'[c]) = n /\ DOMAIN inbox'[c] = 1..n /\ inbox'[c][n] = cmd
          /\ \A k \in 1..Len(inbox[c]) : inbox'[c][k] = inbox[c][k]
      <4>1. inbox'[c] = Append(inbox[c], cmd)
        BY <1>0, <3>1 DEF Command
      <4> QED
        BY <1>0, <3>3, <4>1
    <3>a. PICK last : last = IF cmd.op = "NAME" THEN cmd.name ELSE chosen[c]
      OBVIOUS
    <3> DEFINE w == [k \in 0..n |-> IF k = n THEN last ELSE v[k]]
    <3>6. chosen'[c] = last /\ last \in Names \cup {NoName}
      BY <1>0, <3>1, <3>a DEF Commands, Command
    <3>7. v[n - 1] = chosen[c]
      BY <1>1, <3>2, <3>4 DEF History
    <3>8. \A k \in 0..(n - 1) : w[k] = v[k] /\ k \in 0..n /\ k # n
      BY <3>4
    <3>9. w[n] = last /\ w[0] = v[0]
      BY <1>0, <3>3
    <3>10. w \in [0..n -> Names \cup {NoName}]
      BY <1>0, <1>1, <3>3, <3>4, <3>6
    <3> HIDE DEF w
    <3>11. w[0] = name'[c] /\ w[Len(inbox'[c])] = chosen'[c]
      BY <1>1, <3>2, <3>5, <3>6, <3>9 DEF History
    <3>12. ASSUME NEW k \in 1..n
           PROVE  /\ w[k] = IF inbox'[c][k].op = "NAME" THEN inbox'[c][k].name ELSE w[k - 1]
                  /\ inbox'[c][k].op = "SEND" => inbox'[c][k].name = w[k - 1]
      <4>1. k - 1 \in 0..(n - 1) /\ w[k - 1] = v[k - 1]
        BY <3>4, <3>8
      <4>2. CASE k = n
        BY <3>1, <3>5, <3>7, <3>9, <3>a, <4>1, <4>2
      <4>3. CASE k # n
        <5>1. k \in 1..Len(inbox[c]) /\ w[k] = v[k]
          BY <3>4, <3>8, <4>3
        <5> QED
          BY <1>0, <1>1, <3>5, <4>1, <5>1 DEF History
      <4> QED
        BY <4>2, <4>3
    <3>13. History(c, w)'
      BY <3>5, <3>11, <3>12 DEF History
    <3> QED
      BY <3>5, <3>10, <3>13
  <2> QED
    BY <2>1, <2>2
<1>5. ASSUME NEW d \in Clients, PeerLeaves(d)
      PROVE  \E w \in [0..Len(inbox'[c]) -> Names \cup {NoName}] : History(c, w)'
  <2>1. CASE c # d \/ UNCHANGED inbox
    BY <1>0, <1>2, <1>5, <2>1 DEF PeerLeaves
  <2>2. CASE c = d /\ inbox' # inbox
    <3>1. inbox'[c] = <<>> /\ peer'[c] = "reset" /\ UNCHANGED name
      BY <1>0, <1>5, <2>2 DEF PeerLeaves
    <3>2. Len(inbox'[c]) = 0 /\ DOMAIN inbox'[c] = {}
      BY <3>1
    <3>3. PICK w \in [0..0 -> Names \cup {NoName}] : w[0] = name[c]
      <4>1. [k \in 0..0 |-> name[c]] \in [0..0 -> Names \cup {NoName}]
        BY <1>0
      <4>2. [k \in 0..0 |-> name[c]][0] = name[c]
        OBVIOUS
      <4> QED
        BY <4>1, <4>2
    <3>4. History(c, w)'
      BY <3>1, <3>2, <3>3 DEF History
    <3>5. w \in [0..Len(inbox'[c]) -> Names \cup {NoName}]
      BY <3>2
    <3> QED
      BY <3>4, <3>5
  <2> QED
    BY <2>1, <2>2
<1>6. ASSUME NEW d \in Clients, ServeCommand(d)
      PROVE  \E w \in [0..Len(inbox'[c]) -> Names \cup {NoName}] : History(c, w)'
  <2>1. CASE c # d
    BY <1>0, <1>2, <1>6, <2>1 DEF ServeCommand
  <2>2. CASE c = d
    <3>1. /\ inbox[c] # <<>> /\ inbox'[c] = Tail(inbox[c]) /\ UNCHANGED <<peer, chosen>>
          /\ name'[c] = Renamed(c, Head(inbox[c]))
      BY <1>0, <1>6, <2>2 DEF ServeCommand
    <3>2. PICK n \in Nat : n = Len(inbox[c])
      BY <1>0
    <3>3. n > 0 /\ 1 \in DOMAIN inbox[c] /\ n - 1 \in Nat
      BY <1>0, <3>1, <3>2, EmptySeq
    <3>4. /\ Len(inbox'[c]) = n - 1 /\ DOMAIN inbox'[c] = 1..(n - 1)
          /\ \A k \in 1..(n - 1) : inbox'[c][k] = inbox[c][k + 1]
      BY <1>0, <3>1, <3>2, <3>3
    <3> DEFINE w == [k \in 0..(n - 1) |-> v[k + 1]]
    <3>5. w \in [0..(n - 1) -> Names \cup {NoName}]
      BY <1>1, <3>2, <3>3
    <3>6. \A k \in 0..(n - 1) : w[k] = v[k + 1]
      OBVIOUS
    <3> HIDE DEF w
    <3>7. w[0] = name'[c]
      <4>1. w[0] = v[1]
        BY <3>3, <3>6
      <4>2. v[1] = IF inbox[c][1].op = "NAME" THEN inbox[c][1].name ELSE v[0]
        BY <1>1, <3>3 DEF History
      <4>3. v[0] = name[c] /\ Head(inbox[c]) = inbox[c][1]
        BY <1>1 DEF History
      <4> QED
        BY <3>1, <4>1, <4>2, <4>3 DEF Renamed
    <3>8. peer'[c] = "open" => w[Len(inbox'[c])] = chosen'[c]
      <4>1. w[n - 1] = v[n]
        BY <3>3, <3>6
      <4> QED
        BY <1>1, <3>1, <3>2, <3>4, <4>1 DEF History
    <3>9. ASSUME NEW k \in 1..(n - 1)
          PROVE  /\ w[k] = IF inbox'[c][k].op = "NAME" THEN inbox'[c][k].name ELSE w[k - 1]
                 /\ inbox'[c][k].op = "SEND" => inbox'[c][k].name = w[k - 1]
      <4>1. PICK j \in 1..n : j = k + 1
        BY <3>3
      <4>2. w[k] = v[j] /\ w[k - 1] = v[k] /\ k = j - 1
        BY <3>3, <3>6, <4>1
      <4>3. inbox'[c][k] = inbox[c][j] /\ j \in DOMAIN inbox[c]
        BY <1>0, <3>2, <3>4, <4>1
      <4> QED
        BY <1>1, <4>2, <4>3 DEF History
    <3>10. History(c, w)'
      BY <3>4, <3>7, <3>8, <3>9 DEF History
    <3> QED
      BY <3>4, <3>5, <3>10
  <2> QED
    BY <2>1, <2>2
<1>7. ASSUME NEW d \in Clients, ServeError(d)
      PROVE  \E w \in [0..Len(inbox'[c]) -> Names \cup {NoName}] : History(c, w)'
  BY <1>0, <1>2, <1>7 DEF ServeError
<1> QED
  BY <1>2, <1>3, <1>4, <1>5, <1>6, <1>7, NameSteps

\* The message of a broadcast carries the first name of the history.
LEMMA NamedStep ==
  ASSUME IInv, Looping, Named, NameIsSendersChoice, [Next]_vars
  PROVE  Named' /\ NameIsSendersChoice'
<1>1. Named'
  BY DialledStep, HistoryStep DEF Named
<1>2. NameIsSendersChoice'
  <2>1. CASE Still
    BY <2>1 DEF Still, NameIsSendersChoice
  <2>2. ASSUME NEW c \in Clients, ServeCommand(c), Starts(c), Head(inbox[c]).op = "SEND"
        PROVE  NameIsSendersChoice'
    <3>1. PICK n : n = Len(bc) + 1
      OBVIOUS
    <3>2. bc'[n].name = name[c] /\ bc'[n].asked = Head(inbox[c]).name
      BY <2>2, <3>1 DEF Starts, NewBroadcast
    <3>3. PICK v \in [0..Len(inbox[c]) -> Names \cup {NoName}] : History(c, v)
      BY DEF Named
    <3>4. 1 \in DOMAIN inbox[c] /\ Head(inbox[c]) = inbox[c][1]
      BY <2>2 DEF IInv, TypeOK, ServeCommand
    <3>5. inbox[c][1].name = v[0] /\ v[0] = name[c]
      BY <2>2, <3>3, <3>4 DEF History
    <3> QED
      BY <2>2, <3>1, <3>2, <3>4, <3>5 DEF Starts, NameIsSendersChoice
  <2>3. ASSUME NEW c \in Clients, AppendPtr(c) \/ AppendLen(c) \/ AppendElem(c)
        PROVE  NameIsSendersChoice'
    BY <2>3, AppendPtrDoes, AppendLenDoes, AppendElemDoes DEF Joins, Same, NameIsSendersChoice
  <2>4. ASSUME NEW c \in Clients, RemoveShift(c) \/ RemoveTrim(c)
        PROVE  NameIsSendersChoice'
    BY <2>4, RemoveShiftDoes, RemoveTrimDoes DEF Leaves, Same, NameIsSendersChoice
  <2>5. ASSUME NEW b \in DOMAIN bc,
               \/ BroadcastLoad(b) \/ BroadcastFetch(b)
               \/ BroadcastWrite(b) \/ BroadcastDone(b)
        PROVE  NameIsSendersChoice'
    <3>1. UNCHANGED bc \/ Others(b)
      BY <2>5, BroadcastLoadDoes, BroadcastFetchDoes, BroadcastWriteDoes, BroadcastDoneDoes
         DEF Looping, BroadcastWrite
    <3> QED
      BY <3>1 DEF Others, NameIsSendersChoice
  <2> QED
    BY <2>1, <2>2, <2>3, <2>4, <2>5, StepKinds
<1> QED
  BY <1>1, <1>2

\* At the start there is no broadcast, and nobody has chosen a name.
LEMMA InitBroadcasts == Init => BInv
<1> SUFFICES ASSUME Init PROVE BInv
  OBVIOUS
<1>1. DOMAIN bc = {} /\ len = 0
  BY DEF Init
<1>2. Filled /\ Looping /\ Sound /\ Tracked /\ Reached /\ Undisturbed /\ NameIsSendersChoice
  BY <1>1 DEF Filled, Looping, Sound, Tracked, Reached, Undisturbed, NameIsSendersChoice
<1>3. FaultNeedsJoin
  BY DEF Init, FaultNeedsJoin
<1>4. Named
  <2>1. ASSUME NEW c \in Clients
        PROVE  \E v \in [0..Len(inbox[c]) -> Names \cup {NoName}] : History(c, v)
    <3>1. /\ inbox[c] = <<>> /\ Len(inbox[c]) = 0 /\ DOMAIN inbox[c] = {}
          /\ name[c] = NoName /\ peer[c] = "none"
      BY DEF Init
    <3> DEFINE w == [k \in 0..0 |-> NoName]
    <3>2. w \in [0..0 -> Names \cup {NoName}] /\ w[0] = NoName
      OBVIOUS
    <3> HIDE DEF w
    <3>3. History(c, w)
      BY <3>1, <3>2 DEF History
    <3> QED
      BY <3>1, <3>2, <3>3
  <2>2. \A c \in Clients : peer[c] = "none" /\ inbox[c] = <<>> /\ name[c] = chosen[c]
    BY DEF Init
  <2> QED
    BY <2>1, <2>2 DEF Named
<1> QED
  BY <1>2, <1>3, <1>4 DEF BInv

\* What broadcasts meet is an invariant too.
THEOREM BroadcastInvariance == Spec => [](IInv /\ BInv)
<1>1. IInv /\ BInv /\ [Next]_vars => BInv'
  BY FilledStep, LoopingStep, SoundStep, TrackedStep, ReachedStep, UndisturbedStep, NamedStep,
     FaultStep DEF BInv
<1> QED
  BY <1>1, InitInv, InitBroadcasts, NextInv, PTL DEF Spec

\* How often a message has arrived, by counting where.
LEMMA Counted ==
  ASSUME IInv, NEW c \in Clients, NEW b
  PROVE  /\ Count(c, b) \in Nat
         /\ Arrived(c, b) => Count(c, b) >= 1
         /\ ~Arrived(c, b) => Count(c, b) = 0
         /\ Arrived(c, b)
              /\ (\A j, k \in DOMAIN got[c] : got[c][j] = b /\ got[c][k] = b => j = k)
            => Count(c, b) = 1
<1> DEFINE S == {j \in DOMAIN got[c] : got[c][j] = b}
<1>1. got[c] \in Seq(DOMAIN bc)
  BY DEF IInv, TypeOK
<1>2. Len(got[c]) \in Nat /\ DOMAIN got[c] = 1..Len(got[c])
  BY <1>1
<1>3. S \subseteq 1..Len(got[c])
  BY <1>2
<1>4. Count(c, b) = Cardinality(S)
  BY DEF Count
<1>5. Arrived(c, b) <=> S # {}
  BY DEF Arrived
<1>6. (\A j, k \in DOMAIN got[c] : got[c][j] = b /\ got[c][k] = b => j = k)
        => \A j, k \in S : j = k
  OBVIOUS
<1> HIDE DEF S
<1>7. IsFiniteSet(S)
  <2>1. IsFiniteSet(1..Len(got[c]))
    BY <1>2, FS_Interval
  <2> QED
    BY <1>3, <2>1, FS_Subset
<1>8. Cardinality(S) \in Nat /\ (Cardinality(S) = 0 <=> S = {})
  BY <1>7, FS_CardinalityType, FS_EmptySet
<1>9. ASSUME S # {}, \A j, k \in S : j = k PROVE Cardinality(S) = 1
  <2>1. PICK j : j \in S
    BY <1>9
  <2>2. S = {j}
    BY <1>9, <2>1
  <2> QED
    BY <2>2, FS_Singleton
<1> QED
  BY <1>4, <1>5, <1>6, <1>8, <1>9

\* FaultNeedsJoin: whatever removes do to the array that Broadcast walks
\* without s.mutex, a nil *client is loaded only by a broadcast that met an
\* append, for any number of clients and broadcasts.
THEOREM FaultsNeedJoins == Spec => []FaultNeedsJoin
<1>1. BInv => FaultNeedsJoin
  BY DEF BInv
<1> QED
  BY <1>1, BroadcastInvariance, PTL

\* JoinsLoseNothing: accept may reallocate and extend s.clients under a
\* broadcast as often as it likes, without a client missing the message.
THEOREM JoinsHarmless == Spec => []JoinsLoseNothing
<1>1. IInv /\ BInv => JoinsLoseNothing
  <2> SUFFICES ASSUME IInv, BInv, NEW b \in DOMAIN bc, bc[b].pc = "done", ~bc[b].leave,
                      NEW c \in bc[b].snap, peer[c] = "open"
               PROVE  Count(c, b) >= 1
    BY DEF JoinsLoseNothing
  <2>1. c \in Clients
    BY Parts DEF IInv, Broadcasts
  <2>2. Arrived(c, b)
    BY DEF BInv, Reached, Active
  <2> QED
    BY <2>1, <2>2, Counted
<1> QED
  BY <1>1, BroadcastInvariance, PTL

\* QuietBroadcastIsExact: with the slice left alone, Broadcast writes once to
\* every client that was registered, and to no other.
THEOREM QuietExact == Spec => []QuietBroadcastIsExact
<1>1. IInv /\ BInv => QuietBroadcastIsExact
  <2> SUFFICES ASSUME IInv, BInv, NEW b \in DOMAIN bc, bc[b].pc = "done", ~bc[b].leave,
                      ~bc[b].join
               PROVE  /\ \A c \in bc[b].snap : peer[c] = "open" => Count(c, b) = 1
                      /\ \A c \in Clients \ bc[b].snap : Count(c, b) = 0
    BY DEF QuietBroadcastIsExact
  <2>1. ASSUME NEW c \in bc[b].snap, peer[c] = "open" PROVE Count(c, b) = 1
    <3>1. c \in Clients
      BY Parts DEF IInv, Broadcasts
    <3>2. Arrived(c, b)
      BY <2>1 DEF BInv, Reached, Active
    <3>3. \A j, k \in DOMAIN got[c] : got[c][j] = b /\ got[c][k] = b => j = k
      BY <3>1 DEF BInv, Undisturbed
    <3> QED
      BY <3>1, <3>2, <3>3, Counted
  <2>2. ASSUME NEW c \in Clients \ bc[b].snap PROVE Count(c, b) = 0
    <3>1. ~Arrived(c, b)
      BY DEF BInv, Undisturbed
    <3> QED
      BY <3>1, Counted
  <2> QED
    BY <2>1, <2>2
<1> QED
  BY <1>1, BroadcastInvariance, PTL

\* NameIsSendersChoice: serve reads NAME and SEND in the order they were sent,
\* and evaluates the name before it starts the broadcast.
THEOREM NamesCorrect == Spec => []NameIsSendersChoice
<1>1. BInv => NameIsSendersChoice
  BY DEF BInv
<1> QED
  BY <1>1, BroadcastInvariance, PTL
=============================================================================
