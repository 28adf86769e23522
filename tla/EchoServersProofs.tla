------------------------- MODULE EchoServersProofs --------------------------
(***************************************************************************)
(* Theorems about EchoServers, for any number of clients, lines and        *)
(* descriptors: its type invariant, its safety invariants, and that all    *)
(* four programs implement EchoService.                                    *)
(*                                                                         *)
(* IInv says which places a program has (Places), who holds which block of *)
(* memory (Blocks) and which descriptor (Table, Owns), how far a           *)
(* connection is (Progress) and which processes have it open (Children).   *)
(***************************************************************************)
EXTENDS EchoServers, FiniteSetTheorems, WellFoundedInduction, TLAPS

NetTypes ==
  /\ conn \in [Clients -> {"none", "backlog", "open", "closed"}]
  /\ sent \in [Clients -> 0..(2 * MaxLines)]
  /\ end \in [Clients -> {"no", "eof", "reset"}]
  /\ taken \in [Clients -> Nat]
  /\ \A c \in Clients : taken[c] <= sent[c]
  /\ echoed \in [Clients -> Seq(1..(2 * MaxLines))]

ProcessTypes ==
  /\ program \in Programs /\ up \in BOOLEAN /\ nofile \in Limits
  /\ main \in {"accept", "fork", "close", "malloc", "create", "select", "dispatch",
               "serving", "exited"}
  /\ cur \in Clients \cup {Nobody} /\ cell \in Cells \cup {0}
  /\ ready \in SUBSET {"stdin", "listen"}
  /\ fds \in [Fds -> Clients \cup {Nobody}]

PartTypes ==
  /\ flow \in [Clients -> Flows]
  /\ kid \in [Clients -> {"none", "run", "zombie", "reaped"}]
  /\ sig \in BOOLEAN /\ handler \in {"no", "reap", "return"}
  /\ heap \in [Cells -> Fds \cup {Unused, 0}]

ConsoleTypes ==
  /\ console \in [typed : 0..MaxTyped, eof : BOOLEAN, stdio : 0..MaxTyped,
                  done : 0..MaxTyped]
  /\ console.done + console.stdio <= console.typed

\* Where main and the flows of each program can be.  main has a client at
\* hand from accept on until it has been handed over.
Places ==
  /\ program = "echo1" => main \in {"accept", "serving"}
  /\ program = "echo2" => main \in {"accept", "fork", "close"}
  /\ program = "echo3" => main \in {"select", "dispatch", "serving", "exited"}
  /\ program = "echo5" => main \in {"malloc", "accept", "create"}
  /\ cur # Nobody <=> main \in {"fork", "close", "create"}
  /\ \A c \in Clients :
       /\ flow[c].at = "free" => program = "echo5"
       /\ flow[c].at = "start" => program \in {"echo2", "echo5"}
       /\ flow[c].at = "exit" => program = "echo2"

\* A block belongs to main or to the one thread that was given it.
HasBlock(c) == flow[c].at \in {"start", "free"}

Blocks ==
  program = "echo5" =>
    /\ cell = 0 <=> main = "malloc"
    /\ cell # 0 => heap[cell] # Unused
    /\ \A c \in Clients : HasBlock(c) =>
         flow[c].cell \in Cells /\ flow[c].cell # cell /\ heap[flow[c].cell] # Unused
    /\ \A c, d \in Clients :
         HasBlock(c) /\ HasBlock(d) /\ flow[c].cell = flow[d].cell => c = d
    /\ \A k \in Cells : heap[k] # Unused =>
         k = cell \/ \E c \in Clients : HasBlock(c) /\ flow[c].cell = k

\* The table has one descriptor for every open connection, below the limit;
\* the table of echo2's parent only the one at hand.
Table ==
  /\ \A f, g \in Fds : fds[f] = fds[g] /\ fds[f] # Nobody => f = g
  /\ \A f \in Fds : fds[f] # Nobody => f < nofile
  /\ program # "echo2" =>
       \A c \in Clients : conn[c] = "open" <=> \E f \in Fds : fds[f] = c
  /\ program = "echo2" =>
       /\ \A f \in Fds : fds[f] \in {Nobody, cur}
       /\ cur # Nobody => \E f \in Fds : fds[f] = cur

\* A descriptor on its way from accept to the flow it is for.
Stands(f, c) == f \in Fds /\ fds[f] = c

Owns ==
  /\ program # "echo2" => \A c \in Clients :
       flow[c].at \in {"free", "read", "write", "close"} => Stands(flow[c].fd, c)
  /\ program = "echo5" => \A c \in Clients :
       flow[c].at = "start" => Stands(heap[flow[c].cell], c)
  /\ main = "create" => Stands(heap[cell], cur)

Upto(k) == [i \in 1..k |-> i]

\* Everything has come back, or the client is gone.
Over(c) == end[c] = "reset" \/ (end[c] = "eof" /\ echoed[c] = Upto(sent[c]))

\* What was read has been written back, but for the line at hand.
Far(c) ==
  /\ conn[c] \in {"none", "backlog"} => flow[c].at = "none"
  /\ flow[c].at \in {"start", "free", "read", "write", "close"} => conn[c] = "open"
  /\ flow[c].at \in {"none", "start", "free", "read"} => echoed[c] = Upto(taken[c])
  /\ flow[c].at = "write" => /\ 0 < flow[c].n /\ flow[c].n <= taken[c]
                             /\ echoed[c] = Upto(taken[c] - flow[c].n)
  /\ flow[c].at \in {"close", "exit", "done"} => Over(c)

Progress ==
  /\ \A c \in Clients : Far(c)
  /\ cur # Nobody => /\ conn[cur] = "open"
                     /\ flow[cur].at = "none" <=> main \in {"fork", "create"}

\* A child runs from fork to exit.
Children ==
  program = "echo2" => \A c \in Clients :
    kid[c] = "run" <=> flow[c].at \in {"start", "read", "write", "close", "exit"}

Typed == NetTypes /\ ProcessTypes /\ PartTypes /\ ConsoleTypes

IInv == /\ Typed /\ Places /\ Blocks /\ Table /\ Owns /\ Progress /\ Children
        /\ NoZombieForgotten

-----------------------------------------------------------------------------
(* Facts about numbers, lines and blocks.                                  *)

(* There is a smallest one of any natural numbers (accept takes the  *)
(* smallest descriptor).                                                                *)
LEMMA Smallest ==
  ASSUME NEW S, S \subseteq Nat, S # {}
  PROVE  Min(S) \in S /\ \A y \in S : Min(S) <= y
<1> DEFINE R == OpToRel(<, Nat)
<1>1. IsWellFoundedOn(R, Nat)
  BY NatLessThanWellFounded
<1>2. \A x, y \in Nat : y < x => <<y, x>> \in R
  BY DEF OpToRel
<1> HIDE DEF R
<1>3. PICK x \in S : \A y \in S : ~ (<<y, x>> \in R)
  BY <1>1, WFMin
<1>4. \A y \in S : ~(y < x)
  BY <1>2, <1>3
<1>5. \A y \in S : x <= y
  BY <1>4
<1> QED
  BY <1>3, <1>5 DEF Min

LEMMA Numbers ==
  /\ 2 * MaxLines \in Nat /\ Cells \subseteq Nat \ {0} /\ Unused \notin Cells
  /\ Fds \subseteq Nat \ {0} /\ Limits \subseteq Nat /\ Unused \notin Fds /\ Unused # 0
  /\ 0 \notin Fds
  /\ MaxTyped \in Nat /\ Nobody \notin Clients
BY NetAssumption, ProgramsAssumption DEF Cells, Unused

(* A line read is one half or two, what is left at end of file at most one; *)
(* nothing is read only if nothing will ever come.                          *)
LEMMA LineLength ==
  ASSUME NetTypes, NEW c \in Clients, NEW k \in LineResults(c)
  PROVE  /\ k \in 0..2 /\ taken[c] + k <= sent[c] /\ taken[c] + k \in Nat
         /\ k = 0 => end[c] = "eof" /\ taken[c] = sent[c]
<1>1. taken[c] \in Nat /\ sent[c] \in Nat /\ taken[c] <= sent[c]
  BY Numbers DEF NetTypes
<1>2. \A m \in Nat : 2 * (m \div 2 + 1) - m \in 1..2
  OBVIOUS
<1>3. LineEnd(c) \in Nat /\ LineEnd(c) - taken[c] \in 1..2
  BY <1>1, <1>2 DEF LineEnd
<1> QED
  BY <1>1, <1>3 DEF LineResults

(* As long as main has none, a block is free.                               *)
LEMMA BlockLeft ==
  ASSUME Typed, Blocks, program = "echo5", main = "malloc"
  PROVE  FreshCell \in Cells /\ heap[FreshCell] = Unused
<1> DEFINE f == [k \in Cells |-> CHOOSE c \in Clients : flow[c].cell = k]
<1>1. IsFiniteSet(Clients) /\ Cardinality(Clients) \in Nat
  BY ProgramsAssumption, FS_CardinalityType
<1>2. IsFiniteSet(Cells) /\ Cardinality(Cells) = Cardinality(Clients) + 1
  <2>1. 1 \in Int /\ Cardinality(Clients) + 1 \in Int /\ 1 <= Cardinality(Clients) + 1
    BY <1>1
  <2>2. /\ IsFiniteSet(1..(Cardinality(Clients) + 1))
        /\ Cardinality(1..(Cardinality(Clients) + 1)) = Cardinality(Clients) + 1
    BY <1>1, <2>1, FS_Interval
  <2> QED
    BY <2>2 DEF Cells
<1>4. {k \in Cells : heap[k] = Unused} # {}
  <2>1. SUFFICES ASSUME \A k \in Cells : heap[k] # Unused PROVE FALSE
    OBVIOUS
  <2>2. cell = 0 /\ 0 \notin Cells
    BY Numbers DEF Blocks
  <2>3. \A k \in Cells : f[k] \in Clients /\ flow[f[k]].cell = k
    BY <2>1, <2>2 DEF Blocks
  <2>4. f \in [Cells -> Clients]
    BY <2>3
  <2> HIDE DEF f
  <2>5. Cardinality(Clients) < Cardinality(Cells)
    BY <1>1, <1>2
  <2>6. \E k, l \in Cells : k # l /\ f[k] = f[l]
    BY <1>1, <1>2, <2>4, <2>5, FS_PigeonHole, Zenon
  <2> QED
    BY <2>3, <2>6
<1>5. Min({k \in Cells : heap[k] = Unused}) \in {k \in Cells : heap[k] = Unused}
  BY <1>4, Numbers, Smallest
<1> QED
  BY <1>5 DEF FreshCell

(* Whoever reads, writes or closes does so for the client it was made for.  *)
LEMMA ServesItsOwn ==
  ASSUME IInv, NEW c \in Clients, flow[c].at \in {"read", "write", "close"}
  PROVE  Served(c) = c
BY DEF IInv, Owns, Stands, Served

-----------------------------------------------------------------------------
(* The initial states.                                                     *)

LEMMA InitInv == Init => IInv
<1> SUFFICES ASSUME Init PROVE IInv
  OBVIOUS
<1> USE Numbers DEF Init, NetInit
<1>1. Typed
  <2>1. NetTypes
    BY DEF NetTypes
  <2>2. ProcessTypes
    BY DEF ProcessTypes, NoFds, LoopHead
  <2>3. PartTypes
    <3>1. NoFlow \in Flows
      BY DEF NoFlow, Flows
    <3> QED
      BY <3>1 DEF PartTypes
  <2>4. ConsoleTypes
    BY DEF ConsoleTypes
  <2> QED
    BY <2>1, <2>2, <2>3, <2>4 DEF Typed
<1>2. Places
  BY DEF Places, LoopHead, NoFlow
<1>3. Blocks
  BY DEF Blocks, LoopHead, NoFlow, HasBlock
<1>4. Table
  BY DEF Table, NoFds
<1>5. Owns
  BY DEF Owns, NoFlow, LoopHead
<1>6. Progress
  BY DEF Progress, Far, NoFlow, Upto
<1>7. Children /\ NoZombieForgotten
  BY DEF Children, NoZombieForgotten, Zombies, NoFlow, LoopHead
<1> QED
  BY <1>1, <1>2, <1>3, <1>4, <1>5, <1>6, <1>7 DEF IInv

-----------------------------------------------------------------------------
(* Types.                                                                  *)

LEMMA NetTypesStep == IInv /\ [Next]_vars => NetTypes'
<1> SUFFICES ASSUME IInv, [Next]_vars PROVE NetTypes'
  OBVIOUS
<1> USE Numbers
<1>a. NetTypes /\ flow \in [Clients -> Flows]
  BY DEF IInv, Typed, PartTypes
<1>b. ASSUME UNCHANGED net PROVE NetTypes'
  BY <1>a, <1>b DEF net, NetTypes
<1>1. ASSUME NEW c \in Clients, ClientMoves(c) PROVE NetTypes'
  <2>1. CASE Dial(c) \/ Ends(c)
    BY <2>1, <1>a DEF Dial, Ends, NetTypes
  <2>2. CASE Sends(c)
    <3>1. sent[c] + 1 \in 0..(2 * MaxLines) /\ sent[c] \in Nat
      BY <2>2, <1>a DEF Sends, NetTypes
    <3>2. sent' = [sent EXCEPT ![c] = sent[c] + 1] /\ UNCHANGED <<conn, end, taken, echoed>>
      BY <2>2 DEF Sends
    <3>3. \A d \in Clients : taken[d] <= sent'[d]
      BY <1>a, <3>1, <3>2 DEF NetTypes
    <3> QED
      BY <1>a, <3>1, <3>2, <3>3 DEF NetTypes
  <2> QED
    BY <1>1, <2>1, <2>2 DEF ClientMoves, ClientStep
<1>2. ASSUME NEW c \in Clients, Accept(c) PROVE NetTypes'
  BY <1>2, <1>a DEF Accept, NetTypes
<1>3. CASE ParentCloses
  BY <1>3, <1>a DEF ParentCloses, NetTypes
<1>4. CASE Malloc \/ AcceptFails \/ Fork \/ Create \/ Select \/ Command \/ Types
  BY <1>4, <1>b DEF Malloc, AcceptFails, Fork, Create, Select, Command, Types
<1>5. CASE HandlerStep \/ UNCHANGED vars
  <2>1. UNCHANGED net
    BY <1>5 DEF HandlerStep, Deliver, Reap, NoneLeft, Return, vars
  <2> QED
    BY <2>1, <1>b
<1>6. ASSUME NEW c \in Clients, Begin(c) \/ FreeCell(c) \/ ChildExits(c) PROVE NetTypes'
  BY <1>6, <1>b DEF Begin, FreeCell, ChildExits
<1>7. ASSUME NEW c \in Clients, Read(c) PROVE NetTypes'
  <2>1. Served(c) = c
    BY <1>7, ServesItsOwn DEF Read, At
  <2>2. PICK n \in LineResults(c) : taken' = [taken EXCEPT ![c] = @ + n]
    BY <1>7, <2>1 DEF Read
  <2>3. taken[c] + n <= sent[c] /\ taken[c] + n \in Nat
    BY <1>a, LineLength
  <2>4. UNCHANGED <<conn, sent, end, echoed>>
    BY <1>7 DEF Read
  <2> QED
    BY <1>a, <2>2, <2>3, <2>4 DEF NetTypes
<1>8. ASSUME NEW c \in Clients, Write(c) PROVE NetTypes'
  <2>1. Served(c) = c /\ flow[c].at = "write"
    BY <1>8, ServesItsOwn DEF Write, At
  <2>2. /\ echoed' = [echoed EXCEPT ![c] = @ \o Halves(taken[c] - flow[c].n, taken[c])]
        /\ UNCHANGED <<conn, sent, end, taken>>
    BY <1>8, <2>1 DEF Write
  <2>3. flow[c].n \in Nat /\ 0 < flow[c].n /\ flow[c].n <= taken[c]
    BY <1>a, <2>1 DEF IInv, Progress, Far, Flows
  <2>4. /\ taken[c] \in Nat /\ sent[c] \in Nat /\ taken[c] <= sent[c]
        /\ sent[c] <= 2 * MaxLines
    BY <1>a DEF NetTypes
  <2>5. Halves(taken[c] - flow[c].n, taken[c]) \in Seq(1..(2 * MaxLines))
    <3>1. taken[c] - (taken[c] - flow[c].n) = flow[c].n
      BY <2>3, <2>4
    <3>2. \A i \in 1..flow[c].n :
            (taken[c] - flow[c].n) + i \in 1..(2 * MaxLines)
      BY <2>3, <2>4
    <3> QED
      BY <2>3, <3>1, <3>2 DEF Halves
  <2> QED
    BY <1>a, <2>2, <2>5 DEF NetTypes
<1>9. ASSUME NEW c \in Clients, Close(c) \/ ChildCloses(c) \/ Fails(c) PROVE NetTypes'
  BY <1>9, <1>a DEF Close, ChildCloses, Fails, NetTypes
<1> QED
  BY <1>1, <1>2, <1>3, <1>4, <1>5, <1>6, <1>7, <1>8, <1>9 DEF Next, MainStep, FlowStep

LEMMA ProcessTypesStep == IInv /\ [Next]_vars => ProcessTypes'
<1> SUFFICES ASSUME IInv, [Next]_vars PROVE ProcessTypes'
  OBVIOUS
<1> USE Numbers DEF ProcessTypes, loop
<1>a. ProcessTypes
  BY DEF IInv, Typed
<1>1. ASSUME NEW c \in Clients, ClientMoves(c) PROVE ProcessTypes'
  BY <1>1, <1>a DEF ClientMoves
<1>2. ASSUME NEW c \in Clients, Accept(c) PROVE ProcessTypes'
  BY <1>2, <1>a DEF Accept
<1>3. CASE ParentCloses
  BY <1>3, <1>a DEF ParentCloses, WithoutCur, LoopHead
<1>4. CASE Malloc
  <2>1. program = "echo5"
    BY <1>4, <1>a, ProgramsAssumption DEF Malloc, MainRuns, IInv, Places
  <2>2. FreshCell \in Cells
    BY <1>4, <2>1, BlockLeft DEF Malloc, MainRuns, IInv
  <2> QED
    BY <1>4, <1>a, <2>2 DEF Malloc
<1>5. CASE AcceptFails \/ Fork \/ Create \/ Select \/ Command \/ Types
  BY <1>5, <1>a DEF AcceptFails, Fork, Create, Select, Command, Types, LoopHead, AfterEof
<1>6. CASE HandlerStep \/ UNCHANGED vars
  BY <1>6, <1>a DEF HandlerStep, Deliver, Reap, NoneLeft, Return, vars
<1>7. ASSUME NEW c \in Clients, Begin(c) \/ FreeCell(c) \/ ChildExits(c) \/ Fails(c)
      PROVE  ProcessTypes'
  BY <1>7, <1>a DEF Begin, FreeCell, ChildExits, Fails
<1>8. ASSUME NEW c \in Clients, Read(c) \/ Write(c) \/ ChildCloses(c) PROVE ProcessTypes'
  BY <1>8, <1>a DEF Read, Write, ChildCloses
<1>9. ASSUME NEW c \in Clients, Close(c) PROVE ProcessTypes'
  BY <1>9, <1>a DEF Close, LoopHead
<1> QED
  BY <1>1, <1>2, <1>3, <1>4, <1>5, <1>6, <1>7, <1>8, <1>9 DEF Next, MainStep, FlowStep

LEMMA ConsoleStep == IInv /\ [Next]_vars => ConsoleTypes'
<1> SUFFICES ASSUME IInv, [Next]_vars PROVE ConsoleTypes'
  OBVIOUS
<1> USE Numbers
<1>a. ConsoleTypes
  BY DEF IInv, Typed
<1>b. ASSUME UNCHANGED console PROVE ConsoleTypes'
  BY <1>a, <1>b DEF ConsoleTypes
<1> USE DEF loop
<1>1. ASSUME NEW c \in Clients, ClientMoves(c) \/ Accept(c)
      PROVE  ConsoleTypes'
  BY <1>1, <1>b DEF ClientMoves, Accept
<1>2. CASE Malloc \/ AcceptFails \/ Fork \/ ParentCloses \/ Create \/ Select
  BY <1>2, <1>b DEF Malloc, AcceptFails, Fork, ParentCloses, Create, Select
<1>3. CASE Types
  <2>2. CASE console.typed < MaxTyped /\ console' = [console EXCEPT !.typed = @ + 1]
    BY <1>a, <2>2 DEF ConsoleTypes
  <2>3. CASE console' = [console EXCEPT !.eof = TRUE]
    BY <1>a, <2>3 DEF ConsoleTypes
  <2> QED
    BY <1>3, <2>2, <2>3 DEF Types
<1>4. CASE Command
  <2>1. ASSUME NEW k \in 0..Unread, k = 0 => console.stdio > 0, k > 0 => console.stdio = 0,
               console' = Fgets(k)
        PROVE  ConsoleTypes'
    <3>1. /\ console.stdio \in Nat /\ console.done \in Nat /\ console.typed \in Nat
          /\ console.typed <= MaxTyped /\ console.stdio + k - 1 \in Nat
          /\ (console.stdio + k - 1) + (console.done + 1) <= console.typed
      BY <1>a, <2>1 DEF ConsoleTypes, Unread
    <3>2. console.stdio + k - 1 \in 0..MaxTyped /\ console.done + 1 \in 0..MaxTyped
      BY <3>1
    <3>3. console' = [console EXCEPT !.stdio = console.stdio + k - 1,
                                     !.done = console.done + 1]
      BY <2>1 DEF Fgets
    <3>4. /\ console' \in [typed : 0..MaxTyped, eof : BOOLEAN, stdio : 0..MaxTyped,
                           done : 0..MaxTyped]
          /\ console'.typed = console.typed /\ console'.done = console.done + 1
          /\ console'.stdio = console.stdio + k - 1
      BY <1>a, <3>2, <3>3 DEF ConsoleTypes
    <3> QED
      BY <3>1, <3>4 DEF ConsoleTypes
  <2>b. Unread \in Nat
    BY <1>a DEF ConsoleTypes, Unread
  <2>2. CASE console.stdio > 0 /\ console' = Fgets(0)
    BY <2>1, <2>2, <2>b
  <2>3. CASE console.stdio = 0 /\ \E k \in 1..Unread : console' = Fgets(k)
    BY <2>1, <2>3, <2>b
  <2>4. CASE UNCHANGED console
    BY <1>b, <2>4
  <2> QED
    BY <1>4, <2>2, <2>3, <2>4 DEF Command
<1>5. CASE HandlerStep \/ UNCHANGED vars
  BY <1>5, <1>b DEF HandlerStep, Deliver, Reap, NoneLeft, Return, vars
<1>6. ASSUME NEW c \in Clients, Begin(c) \/ FreeCell(c) \/ ChildExits(c) \/ Fails(c)
      PROVE  ConsoleTypes'
  BY <1>6, <1>b DEF Begin, FreeCell, ChildExits, Fails
<1>7. ASSUME NEW c \in Clients, Read(c) \/ Write(c) \/ ChildCloses(c) \/ Close(c)
      PROVE  ConsoleTypes'
  BY <1>7, <1>b DEF Read, Write, ChildCloses, Close
<1> QED
  BY <1>1, <1>2, <1>3, <1>4, <1>5, <1>6, <1>7 DEF Next, MainStep, FlowStep

(* The descriptor that accept returns is free, and below the limit.         *)
LEMMA Accepted ==
  ASSUME Available # {}
  PROVE  /\ Min(Available) \in Fds /\ fds[Min(Available)] = Nobody
         /\ Min(Available) < nofile /\ Min(Available) # 0 /\ Min(Available) # Unused
<1>1. Available \subseteq Fds /\ Available \subseteq Nat
  BY Numbers DEF Available, Free
<1>2. Min(Available) \in Available
  BY <1>1, Smallest
<1> QED
  BY <1>1, <1>2, Numbers DEF Available, Free

(* A flow moves on, with another descriptor, block or line.                 *)
LEMMA FlowMovesFd ==
  ASSUME NEW f \in [Clients -> Flows], NEW c \in Clients, NEW k \in Fds \cup {0},
         NEW p \in {"none", "start", "free", "read", "write", "close", "exit", "done"}
  PROVE  [f EXCEPT ![c].at = p, ![c].fd = k] \in [Clients -> Flows]
<1>1. f[c] \in Flows
  OBVIOUS
<1>2. PICK r : r = [f[c] EXCEPT !.at = p, !.fd = k]
  OBVIOUS
<1>3. r \in Flows
  BY <1>1, <1>2 DEF Flows
<1>4. [f EXCEPT ![c].at = p, ![c].fd = k] = [f EXCEPT ![c] = r]
  BY <1>2
<1> QED
  BY <1>3, <1>4

LEMMA FlowMovesCell ==
  ASSUME NEW f \in [Clients -> Flows], NEW c \in Clients, NEW k \in Cells \cup {0},
         NEW p \in {"none", "start", "free", "read", "write", "close", "exit", "done"}
  PROVE  [f EXCEPT ![c].at = p, ![c].cell = k] \in [Clients -> Flows]
<1>1. f[c] \in Flows
  OBVIOUS
<1>2. PICK r : r = [f[c] EXCEPT !.at = p, !.cell = k]
  OBVIOUS
<1>3. r \in Flows
  BY <1>1, <1>2 DEF Flows
<1>4. [f EXCEPT ![c].at = p, ![c].cell = k] = [f EXCEPT ![c] = r]
  BY <1>2
<1> QED
  BY <1>3, <1>4

LEMMA FlowMovesN ==
  ASSUME NEW f \in [Clients -> Flows], NEW c \in Clients, NEW k \in 0..2,
         NEW p \in {"none", "start", "free", "read", "write", "close", "exit", "done"}
  PROVE  [f EXCEPT ![c].at = p, ![c].n = k] \in [Clients -> Flows]
<1>1. f[c] \in Flows
  OBVIOUS
<1>2. PICK r : r = [f[c] EXCEPT !.at = p, !.n = k]
  OBVIOUS
<1>3. r \in Flows
  BY <1>1, <1>2 DEF Flows
<1>4. [f EXCEPT ![c].at = p, ![c].n = k] = [f EXCEPT ![c] = r]
  BY <1>2
<1> QED
  BY <1>3, <1>4

LEMMA PartTypesStep == IInv /\ [Next]_vars => PartTypes'
<1> SUFFICES ASSUME IInv, [Next]_vars PROVE PartTypes'
  OBVIOUS
<1> USE Numbers
<1>a. PartTypes /\ cur \in Clients \cup {Nobody} /\ cell \in Cells \cup {0}
  BY DEF IInv, Typed, ProcessTypes
<1>f. flow \in [Clients -> Flows]
  BY <1>a DEF PartTypes
<1>k. 0 \in Cells \cup {0}
  OBVIOUS
<1>b. ASSUME UNCHANGED <<flow, kid, sig, handler, heap>> PROVE PartTypes'
  BY <1>a, <1>b DEF PartTypes
<1> USE DEF children
<1>1. ASSUME NEW c \in Clients, ClientMoves(c) PROVE PartTypes'
  BY <1>1, <1>b DEF ClientMoves
<1>2. CASE AcceptFails \/ ParentCloses \/ Select \/ Command \/ Types \/ UNCHANGED vars
  BY <1>2, <1>b DEF AcceptFails, ParentCloses, Select, Command, Types, vars
<1>3. ASSUME NEW c \in Clients, Accept(c) PROVE PartTypes'
  <2>1. Min(Available) \in Fds
    BY <1>3, Accepted DEF Accept
  <2>2. UNCHANGED <<kid, sig, handler>>
    BY <1>3 DEF Accept
  <2>3. flow' = flow \/ flow' = [flow EXCEPT ![c].at = "read", ![c].fd = Min(Available)]
    BY <1>3 DEF Accept
  <2>4. heap' = heap \/ heap' = [heap EXCEPT ![cell] = Min(Available)]
    BY <1>3 DEF Accept
  <2>5. flow' \in [Clients -> Flows]
    BY <1>a, <2>1, <2>3 DEF PartTypes, Flows
  <2>6. heap' \in [Cells -> Fds \cup {Unused, 0}]
    BY <1>a, <2>1, <2>4 DEF PartTypes
  <2> QED
    BY <1>a, <2>2, <2>5, <2>6 DEF PartTypes
<1>4. CASE Malloc
  BY <1>4, <1>a DEF Malloc, PartTypes
<1>5. CASE Fork
  <2>1. [NoFlow EXCEPT !.at = "start"] \in Flows
    BY DEF NoFlow, Flows
  <2> QED
    BY <1>5, <1>a, <2>1 DEF Fork, PartTypes
<1>6. CASE Create
  <2>1. NoFlow \in Flows
    BY DEF NoFlow, Flows
  <2>2. [NoFlow EXCEPT !.at = "start", !.cell = cell] \in Flows
    BY <1>a, <2>1 DEF Flows
  <2> QED
    BY <1>6, <1>a, <2>1, <2>2 DEF Create, PartTypes
<1>7. CASE HandlerStep
  <2>1. CASE Deliver \/ NoneLeft \/ Return
    BY <1>a, <2>1 DEF Deliver, NoneLeft, Return, PartTypes
  <2>2. ASSUME NEW c \in Clients, Reap(c) PROVE PartTypes'
    BY <1>a, <2>2 DEF Reap, AfterReaping, PartTypes
  <2> QED
    BY <1>7, <2>1, <2>2 DEF HandlerStep
<1>8. ASSUME NEW c \in Clients, Begin(c) PROVE PartTypes'
  <2>1. program = "echo5" => heap[flow[c].cell] \in Fds
    BY <1>8 DEF Begin, At, IInv, Owns, Stands
  <2>2. PICK f \in Fds \cup {0}, p \in {"free", "read"} :
          flow' = [flow EXCEPT ![c].at = p, ![c].fd = f]
    BY <1>8, <2>1 DEF Begin
  <2>3. UNCHANGED <<kid, sig, handler, heap>>
    BY <1>8 DEF Begin
  <2>4. flow' \in [Clients -> Flows]
    BY <1>f, <2>2, FlowMovesFd
  <2> QED
    BY <1>a, <2>3, <2>4 DEF PartTypes
<1>9. ASSUME NEW c \in Clients, FreeCell(c) PROVE PartTypes'
  <2>1. /\ flow' = [flow EXCEPT ![c].at = "read", ![c].cell = 0]
        /\ heap' = [heap EXCEPT ![flow[c].cell] = Unused]
        /\ UNCHANGED <<kid, sig, handler>>
    BY <1>9 DEF FreeCell
  <2>2. flow' \in [Clients -> Flows]
    BY <1>f, <1>k, <2>1, FlowMovesCell
  <2> QED
    BY <1>a, <2>1, <2>2 DEF PartTypes
<1>10. ASSUME NEW c \in Clients, Read(c) PROVE PartTypes'
  <2>1. Served(c) = c
    BY <1>10, ServesItsOwn DEF Read, At
  <2>2. PICK n \in LineResults(c), p \in {"close", "write"} :
          flow' = [flow EXCEPT ![c].at = p, ![c].n = n]
    BY <1>10, <2>1 DEF Read
  <2>3. n \in 0..2
    BY LineLength DEF IInv, Typed
  <2>4. UNCHANGED <<kid, sig, handler, heap>>
    BY <1>10 DEF Read
  <2>5. flow' \in [Clients -> Flows]
    BY <1>f, <2>2, <2>3, FlowMovesN
  <2> QED
    BY <1>a, <2>4, <2>5 DEF PartTypes
<1>11. ASSUME NEW c \in Clients, Write(c) \/ Close(c) PROVE PartTypes'
  <2>1. UNCHANGED <<kid, sig, handler, heap>>
    BY <1>11 DEF Write, Close
  <2>2. \/ flow' = [flow EXCEPT ![c].at = "read", ![c].n = 0]
        \/ flow' = [flow EXCEPT ![c].at = "done", ![c].fd = 0]
    BY <1>11 DEF Write, Close
  <2>3. flow' \in [Clients -> Flows]
    BY <1>a, <2>2 DEF PartTypes, Flows
  <2> QED
    BY <1>a, <2>1, <2>3 DEF PartTypes
<1>12. ASSUME NEW c \in Clients, ChildCloses(c) \/ ChildExits(c) \/ Fails(c) PROVE PartTypes'
  <2>1. /\ flow' = flow \/ \E p \in {"exit", "done"} : flow' = [flow EXCEPT ![c].at = p]
        /\ kid' \in {kid, [kid EXCEPT ![c] = "zombie"]}
        /\ sig' \in {sig, TRUE} /\ UNCHANGED <<handler, heap>>
    BY <1>12 DEF ChildCloses, ChildExits, Fails, GoesTo
  <2>2. flow' \in [Clients -> Flows]
    BY <1>a, <2>1 DEF PartTypes, Flows
  <2> QED
    BY <1>a, <2>1, <2>2 DEF PartTypes
<1> QED
  BY <1>1, <1>2, <1>3, <1>4, <1>5, <1>6, <1>7, <1>8, <1>9, <1>10, <1>11, <1>12
     DEF Next, MainStep, FlowStep

-----------------------------------------------------------------------------
(* Places, and the children.                                               *)

LEMMA PlacesStep == IInv /\ [Next]_vars => Places'
<1> SUFFICES ASSUME IInv, [Next]_vars PROVE Places'
  OBVIOUS
<1> USE Numbers DEF loop
<1>a. /\ Places /\ program \in {"echo1", "echo2", "echo3", "echo5"}
      /\ flow \in [Clients -> Flows]
  BY ProgramsAssumption DEF IInv, Typed, ProcessTypes, PartTypes
<1>b. ASSUME UNCHANGED <<program, main, cur, flow>> PROVE Places'
  BY <1>a, <1>b DEF Places
<1>c. ASSUME UNCHANGED <<program, main, cur>>, NEW c \in Clients,
             \A d \in Clients \ {c} : flow'[d] = flow[d],
             flow'[c].at = "free" => program = "echo5",
             flow'[c].at = "start" => program \in {"echo2", "echo5"},
             flow'[c].at = "exit" => program = "echo2"
      PROVE  Places'
  BY <1>a, <1>c DEF Places
<1>1. ASSUME NEW c \in Clients, ClientMoves(c) PROVE Places'
  BY <1>1, <1>b DEF ClientMoves
<1>2. CASE AcceptFails \/ Types \/ UNCHANGED vars
  BY <1>2, <1>b DEF AcceptFails, Types, vars
<1>3. CASE HandlerStep
  BY <1>3, <1>b DEF HandlerStep, Deliver, Reap, NoneLeft, Return
<1>4. CASE Malloc \/ Select \/ Command \/ ParentCloses
  BY <1>4, <1>a DEF Malloc, Select, Command, ParentCloses, MainRuns, LoopHead, AfterEof, Places
<1>5. ASSUME NEW c \in Clients, Accept(c) PROVE Places'
  <2>1. \A d \in Clients : flow'[d].at \in {flow[d].at, "read"}
    BY <1>5, <1>a DEF Accept, Flows
  <2> QED
    BY <1>5, <1>a, <2>1 DEF Accept, Accepting, MainRuns, Places
<1>6. CASE Fork \/ Create
  <2>1. cur \in Clients /\ program = (IF main = "fork" THEN "echo2" ELSE "echo5")
    BY <1>6, <1>a DEF Fork, Create, MainRuns, Places, IInv, Typed, ProcessTypes
  <2>2. \A d \in Clients : flow'[d].at \in {flow[d].at, "start"}
    BY <1>6, <1>a, <2>1 DEF Fork, Create, NoFlow
  <2> QED
    BY <1>6, <1>a, <2>1, <2>2 DEF Fork, Create, MainRuns, LoopHead, Places
<1>7. ASSUME NEW c \in Clients, Begin(c) \/ FreeCell(c) PROVE Places'
  BY <1>7, <1>a, <1>c DEF Begin, FreeCell, At, Flows, Places
<1>8. ASSUME NEW c \in Clients, Read(c) \/ Write(c) PROVE Places'
  <2>1. flow[c].at \in {"read", "write"} /\ UNCHANGED <<program, main, cur>>
    BY <1>8 DEF Read, Write, At
  <2>2. PICK q \in {"read", "write", "close"} :
          \E k : flow' = [flow EXCEPT ![c].at = q, ![c].n = k]
    BY <1>8 DEF Read, Write
  <2>3. flow'[c].at = q /\ \A d \in Clients \ {c} : flow'[d] = flow[d]
    BY <1>a, <2>2 DEF Flows
  <2> QED
    BY <2>1, <2>3, <1>c
<1>9. ASSUME NEW c \in Clients, Close(c) PROVE Places'
  <2>1. \A d \in Clients : flow'[d].at \in {flow[d].at, "done"}
    BY <1>9, <1>a DEF Close, Flows
  <2> QED
    BY <1>9, <1>a, <2>1 DEF Close, LoopHead, Places
<1>10. ASSUME NEW c \in Clients, ChildCloses(c) \/ ChildExits(c) \/ Fails(c) PROVE Places'
  BY <1>10, <1>a, <1>b, <1>c DEF ChildCloses, ChildExits, Fails, GoesTo, Flows
<1> QED
  BY <1>1, <1>2, <1>3, <1>4, <1>5, <1>6, <1>7, <1>8, <1>9, <1>10
     DEF Next, MainStep, FlowStep

LEMMA ChildrenStep == IInv /\ [Next]_vars => Children' /\ NoZombieForgotten'
<1> SUFFICES ASSUME IInv, [Next]_vars PROVE Children' /\ NoZombieForgotten'
  OBVIOUS
<1> USE Numbers DEF children
<1>a. /\ Children /\ NoZombieForgotten /\ Places
      /\ program \in {"echo1", "echo2", "echo3", "echo5"}
      /\ flow \in [Clients -> Flows]
      /\ kid \in [Clients -> {"none", "run", "zombie", "reaped"}]
  BY ProgramsAssumption DEF IInv, Typed, ProcessTypes, PartTypes
<1> DEFINE Alive(p) == p \in {"start", "read", "write", "close", "exit"}
<1>b. ASSUME UNCHANGED <<program, kid, sig, handler>>,
             program = "echo2" => \A d \in Clients : Alive(flow'[d].at) <=> Alive(flow[d].at)
      PROVE  Children' /\ NoZombieForgotten'
  BY <1>a, <1>b DEF Children, NoZombieForgotten, Zombies
<1>1. ASSUME NEW c \in Clients, ClientMoves(c) PROVE Children' /\ NoZombieForgotten'
  BY <1>1, <1>b DEF ClientMoves
<1>2. CASE AcceptFails \/ Types \/ UNCHANGED vars \/ Malloc \/ Select \/ Command \/ ParentCloses
  BY <1>2, <1>b DEF AcceptFails, Types, vars, Malloc, Select, Command, ParentCloses
<1>3. CASE HandlerStep
  <2>1. CASE Deliver \/ NoneLeft \/ Return
    BY <1>a, <2>1 DEF Deliver, NoneLeft, Return, Children, NoZombieForgotten, Zombies
  <2>2. ASSUME NEW c \in Clients, Reap(c) PROVE Children' /\ NoZombieForgotten'
    BY <1>a, <2>2 DEF Reap, AfterReaping, Children, NoZombieForgotten, Zombies
  <2> QED
    BY <1>3, <2>1, <2>2 DEF HandlerStep
<1>4. ASSUME NEW c \in Clients, Accept(c) PROVE Children' /\ NoZombieForgotten'
  BY <1>4, <1>b DEF Accept
<1>5. CASE Fork
  <2>1. cur \in Clients
    BY <1>5, <1>a DEF Fork, MainRuns, Places, IInv, Typed, ProcessTypes
  <2>2. /\ kid' = [kid EXCEPT ![cur] = "run"] /\ UNCHANGED <<program, sig, handler>>
        /\ flow' = [flow EXCEPT ![cur] = [NoFlow EXCEPT !.at = "start"]]
    BY <1>5 DEF Fork
  <2>3. flow'[cur].at = "start" /\ \A d \in Clients \ {cur} : flow'[d] = flow[d]
    BY <1>a, <2>1, <2>2 DEF NoFlow
  <2> QED
    BY <1>a, <2>1, <2>2, <2>3 DEF Children, NoZombieForgotten, Zombies
<1>6. CASE Create
  BY <1>6, <1>a, <1>b DEF Create, MainRuns, Places
<1>7. ASSUME NEW c \in Clients, Begin(c) \/ FreeCell(c) PROVE Children' /\ NoZombieForgotten'
  BY <1>7, <1>a, <1>b DEF Begin, FreeCell, At, Flows, Places
<1>8. ASSUME NEW c \in Clients, Read(c) \/ Write(c) PROVE Children' /\ NoZombieForgotten'
  <2>1. flow[c].at \in {"read", "write"} /\ UNCHANGED <<program, kid, sig, handler>>
    BY <1>8 DEF Read, Write, At
  <2>2. PICK q \in {"read", "write", "close"} :
          \E k : flow' = [flow EXCEPT ![c].at = q, ![c].n = k]
    BY <1>8 DEF Read, Write
  <2>3. flow'[c].at = q /\ \A d \in Clients \ {c} : flow'[d] = flow[d]
    BY <1>a, <2>2 DEF Flows
  <2> QED
    BY <2>1, <2>3, <1>b
<1>9. ASSUME NEW c \in Clients, Close(c) \/ ChildCloses(c) \/ Fails(c)
      PROVE  Children' /\ NoZombieForgotten'
  BY <1>9, <1>a, <1>b DEF Close, ChildCloses, Fails, At, GoesTo, Flows
<1>10. ASSUME NEW c \in Clients, ChildExits(c) PROVE Children' /\ NoZombieForgotten'
  BY <1>10, <1>a DEF ChildExits, At, GoesTo, Flows, Children, NoZombieForgotten, Zombies
<1> QED
  BY <1>1, <1>2, <1>3, <1>4, <1>5, <1>6, <1>7, <1>8, <1>9, <1>10
     DEF Next, MainStep, FlowStep

-----------------------------------------------------------------------------
(* What the steps do, field by field.                                      *)

Others(c) == \A d \in Clients \ {c} : flow'[d] = flow[d]

LEMMA Shapes ==
  IInv => /\ flow \in [Clients -> Flows] /\ program \in {"echo1", "echo2", "echo3", "echo5"}
          /\ conn \in [Clients -> {"none", "backlog", "open", "closed"}]
          /\ sent \in [Clients -> Nat] /\ taken \in [Clients -> Nat]
          /\ end \in [Clients -> {"no", "eof", "reset"}]
          /\ echoed \in [Clients -> Seq(1..(2 * MaxLines))]
          /\ fds \in [Fds -> Clients \cup {Nobody}] /\ heap \in [Cells -> Fds \cup {Unused, 0}]
          /\ kid \in [Clients -> {"none", "run", "zombie", "reaped"}]
          /\ cur \in Clients \cup {Nobody} /\ cell \in Cells \cup {0}
<1>1. \A f : f \in [Clients -> 0..(2 * MaxLines)] => f \in [Clients -> Nat]
  BY Numbers
<1> QED
  BY <1>1, ProgramsAssumption DEF IInv, Typed, NetTypes, ProcessTypes, PartTypes

LEMMA BeginDoes ==
  ASSUME IInv, NEW c \in Clients, Begin(c)
  PROVE  /\ flow[c].at = "start" /\ Others(c)
         /\ flow'[c].at = (IF program = "echo5" THEN "free" ELSE "read")
         /\ flow'[c].fd = (IF program = "echo5" THEN heap[flow[c].cell] ELSE 0)
         /\ flow'[c].cell = flow[c].cell
         /\ UNCHANGED <<conn, sent, end, taken, echoed, program, nofile, up, main, cur,
                        cell, fds, kid, heap>>
BY Shapes DEF Begin, At, Flows, Others, net, loop, children

LEMMA FreeCellDoes ==
  ASSUME IInv, NEW c \in Clients, FreeCell(c)
  PROVE  /\ flow[c].at = "free" /\ Others(c)
         /\ flow'[c].at = "read" /\ flow'[c].fd = flow[c].fd /\ flow'[c].cell = 0
         /\ heap' = [heap EXCEPT ![flow[c].cell] = Unused]
         /\ UNCHANGED <<conn, sent, end, taken, echoed, program, nofile, up, main, cur,
                        cell, fds, kid>>
BY Shapes DEF FreeCell, At, Flows, Others, net, loop, children

LEMMA ReadDoes ==
  ASSUME IInv, NEW c \in Clients, Read(c)
  PROVE  /\ flow[c].at = "read" /\ Others(c)
         /\ flow'[c].at = (IF flow'[c].n = 0 THEN "close" ELSE "write")
         /\ flow'[c].n \in LineResults(c)
         /\ flow'[c].fd = flow[c].fd /\ flow'[c].cell = flow[c].cell
         /\ taken' = [taken EXCEPT ![c] = @ + flow'[c].n]
         /\ UNCHANGED <<conn, sent, end, echoed, program, nofile, up, main, cur,
                        cell, fds, kid, heap>>
<1>1. Served(c) = c /\ flow[c].at = "read"
  BY ServesItsOwn DEF Read, At
<1>2. PICK n \in LineResults(c) :
        /\ taken' = [taken EXCEPT ![c] = @ + n]
        /\ flow' = [flow EXCEPT ![c].at = IF n = 0 THEN "close" ELSE "write", ![c].n = n]
  BY <1>1 DEF Read
<1>3. /\ flow'[c].n = n /\ flow'[c].at = (IF n = 0 THEN "close" ELSE "write")
      /\ flow'[c].fd = flow[c].fd /\ flow'[c].cell = flow[c].cell /\ Others(c)
  BY <1>2, Shapes DEF Flows, Others
<1>4. UNCHANGED <<conn, sent, end, echoed, program, nofile, up, main, cur,
                  cell, fds, kid, heap>>
  BY DEF Read, loop, children
<1> QED
  BY <1>1, <1>2, <1>3, <1>4

LEMMA WriteDoes ==
  ASSUME IInv, NEW c \in Clients, Write(c)
  PROVE  /\ flow[c].at = "write" /\ Others(c) /\ up
         /\ flow'[c].at = "read"
         /\ flow'[c].fd = flow[c].fd /\ flow'[c].cell = flow[c].cell
         /\ echoed' = [echoed EXCEPT ![c] = @ \o Halves(taken[c] - flow[c].n, taken[c])]
         /\ UNCHANGED <<conn, sent, end, taken, program, nofile, up, main, cur,
                        cell, fds, kid, heap>>
<1>1. Served(c) = c /\ flow[c].at = "write" /\ up
  BY ServesItsOwn DEF Write, At
<1>2. /\ flow'[c].at = "read"
      /\ flow'[c].fd = flow[c].fd /\ flow'[c].cell = flow[c].cell /\ Others(c)
  BY Shapes DEF Write, Flows, Others
<1> QED
  BY <1>1, <1>2 DEF Write, loop, children

LEMMA CloseDoes ==
  ASSUME IInv, NEW c \in Clients, Close(c)
  PROVE  /\ flow[c].at = "close" /\ Others(c) /\ program # "echo2" /\ up
         /\ flow'[c].at = "done" /\ Stands(flow[c].fd, c)
         /\ conn' = [conn EXCEPT ![c] = "closed"]
         /\ fds' = [fds EXCEPT ![flow[c].fd] = Nobody]
         /\ main' = (IF main = "serving" THEN LoopHead(program) ELSE main)
         /\ UNCHANGED <<sent, end, taken, echoed, program, nofile, up, cur,
                        cell, kid, heap>>
<1>1. Served(c) = c /\ flow[c].at = "close" /\ program # "echo2" /\ up
  BY ServesItsOwn DEF Close, At
<1>2. flow'[c].at = "done" /\ Others(c)
  BY Shapes DEF Close, Flows, Others
<1>3. Stands(flow[c].fd, c)
  BY <1>1 DEF IInv, Owns
<1> QED
  BY <1>1, <1>2, <1>3 DEF Close, children

\* A child that closes, or whose read or write fails, or the end of the
\* server on account of a client that is gone.
LEMMA EndDoes ==
  ASSUME IInv, NEW c \in Clients, ChildCloses(c) \/ Fails(c)
  PROVE  /\ UNCHANGED <<sent, end, taken, echoed, program, nofile, main, cur,
                        cell, fds, kid, heap>>
         /\ flow[c].at \in {"read", "write", "close"} /\ up
         /\ ~ChildCloses(c) => end[c] = "reset"
         /\ ChildCloses(c) => flow[c].at = "close"
         /\ \/ /\ program = "echo2" /\ Others(c) /\ flow'[c].at = "exit" /\ UNCHANGED up
               /\ conn' = [conn EXCEPT ![c] = IF InParent(c) THEN "open" ELSE "closed"]
            \/ /\ program # "echo2" /\ up' = FALSE /\ UNCHANGED <<conn, flow>>
               /\ end[c] = "reset"
<1>1. flow[c].at \in {"read", "write", "close"} /\ up
  BY DEF ChildCloses, Fails, At
<1>2. Served(c) = c
  BY <1>1, ServesItsOwn
<1>3. ASSUME Fails(c) PROVE end[c] = "reset"
  BY <1>2, <1>3, Numbers DEF Fails, Broken
<1>4. ASSUME GoesTo(c, "exit") PROVE Others(c) /\ flow'[c].at = "exit"
  BY <1>4, Shapes DEF GoesTo, Flows, Others
<1>5. UNCHANGED <<sent, end, taken, echoed, program, nofile, main, cur,
                  cell, fds, kid, heap>>
  BY DEF ChildCloses, Fails, loop, children
<1>6. CASE ChildCloses(c)
  <2>1. flow[c].at = "close" /\ program = "echo2" /\ UNCHANGED up /\ GoesTo(c, "exit")
    BY <1>6 DEF ChildCloses, At
  <2>2. conn' = [conn EXCEPT ![c] = IF InParent(c) THEN "open" ELSE "closed"]
    BY <1>6 DEF ChildCloses
  <2> QED
    BY <1>1, <1>3, <1>4, <1>5, <2>1, <2>2
<1>7. CASE Fails(c) /\ ~ChildCloses(c)
  <2>1. \/ /\ program = "echo2" /\ GoesTo(c, "exit") /\ UNCHANGED up
           /\ conn' = [conn EXCEPT ![c] = IF InParent(c) THEN "open" ELSE "closed"]
        \/ program # "echo2" /\ up' = FALSE /\ UNCHANGED <<conn, flow>>
    BY <1>7 DEF Fails
  <2> QED
    BY <1>1, <1>3, <1>4, <1>5, <1>7, <2>1
<1> QED
  BY <1>6, <1>7

LEMMA ChildExitsDoes ==
  ASSUME IInv, NEW c \in Clients, ChildExits(c)
  PROVE  /\ flow[c].at = "exit" /\ Others(c) /\ flow'[c].at = "done" /\ program = "echo2"
         /\ UNCHANGED <<conn, sent, end, taken, echoed, program, nofile, up, main, cur,
                        cell, fds, heap>>
BY Shapes DEF ChildExits, At, GoesTo, Flows, Others, IInv, Places, net, loop

LEMMA AcceptDoes ==
  ASSUME IInv, NEW c \in Clients, Accept(c)
  PROVE  /\ conn[c] = "backlog" /\ conn' = [conn EXCEPT ![c] = "open"] /\ up
         /\ fds' = [fds EXCEPT ![Min(Available)] = c] /\ Available # {}
         /\ flow[c].at = "none" /\ Others(c) /\ main \in {"accept", "dispatch"}
         /\ \/ /\ program = "echo2" /\ main' = "fork" /\ cur' = c
               /\ UNCHANGED <<heap, flow>>
            \/ /\ program = "echo5" /\ main' = "create" /\ cur' = c
               /\ heap' = [heap EXCEPT ![cell] = Min(Available)]
               /\ UNCHANGED flow
            \/ /\ program \in {"echo1", "echo3"} /\ main' = "serving"
               /\ flow'[c].at = "read" /\ flow'[c].fd = Min(Available)
               /\ UNCHANGED <<heap, cur>>
         /\ UNCHANGED <<sent, end, taken, echoed, program, nofile, up, cell, kid>>
<1>1. /\ conn[c] = "backlog" /\ conn' = [conn EXCEPT ![c] = "open"] /\ up
      /\ fds' = [fds EXCEPT ![Min(Available)] = c] /\ Available # {}
      /\ main \in {"accept", "dispatch"}
      /\ UNCHANGED <<sent, end, taken, echoed, program, nofile, up, cell, kid>>
  BY DEF Accept, Accepting, MainRuns, children
<1>2. flow[c].at = "none"
  BY <1>1 DEF IInv, Progress, Far
<1>3. \/ /\ program = "echo2" /\ main' = "fork" /\ cur' = c
         /\ UNCHANGED <<heap, flow>>
      \/ /\ program = "echo5" /\ main' = "create" /\ cur' = c
         /\ heap' = [heap EXCEPT ![cell] = Min(Available)]
         /\ UNCHANGED flow
      \/ /\ program \in {"echo1", "echo3"} /\ main' = "serving"
         /\ flow' = [flow EXCEPT ![c].at = "read", ![c].fd = Min(Available)]
         /\ UNCHANGED <<heap, cur>>
  BY DEF Accept
<1>4. CASE UNCHANGED flow
  BY <1>1, <1>2, <1>3, <1>4, Shapes DEF Others, Flows
<1>5. CASE flow' = [flow EXCEPT ![c].at = "read", ![c].fd = Min(Available)]
  <2>1. flow'[c].at = "read" /\ flow'[c].fd = Min(Available) /\ Others(c)
    BY <1>5, Shapes DEF Others, Flows
  <2> QED
    BY <1>1, <1>2, <1>3, <2>1
<1> QED
  BY <1>3, <1>4, <1>5

LEMMA HandOverDoes ==
  ASSUME IInv, Fork \/ Create
  PROVE  /\ cur \in Clients /\ flow[cur].at = "none" /\ Others(cur)
         /\ flow'[cur].at = "start"
         /\ \/ /\ program = "echo2" /\ main = "fork" /\ main' = "close"
               /\ UNCHANGED <<cur, cell>>
            \/ /\ program = "echo5" /\ main = "create" /\ main' = "malloc"
               /\ cur' = Nobody /\ cell' = 0 /\ flow'[cur].cell = cell
         /\ UNCHANGED <<conn, sent, end, taken, echoed, program, nofile, up, fds, heap>>
<1>1. \/ Fork /\ main = "fork" /\ program = "echo2"
      \/ Create /\ main = "create" /\ program = "echo5"
  BY Shapes DEF Fork, Create, MainRuns, IInv, Places
<1>2. cur \in Clients /\ flow[cur].at = "none"
  <2>1. main \in {"fork", "create"}
    BY <1>1
  <2>2. cur # Nobody
    BY <2>1 DEF IInv, Places
  <2>3. cur \in Clients
    BY <2>2, Shapes
  <2> QED
    BY <2>1, <2>2, <2>3 DEF IInv, Progress, Far
<1>3. UNCHANGED <<conn, sent, end, taken, echoed, program, nofile, up, fds, heap>>
  BY DEF Fork, Create, net, children
<1>4. CASE Fork /\ main = "fork" /\ program = "echo2"
  <2>1. main' = "close" /\ UNCHANGED <<cur, cell>>
    BY <1>4 DEF Fork
  <2>2. flow' = [flow EXCEPT ![cur] = [NoFlow EXCEPT !.at = "start"]]
    BY <1>4 DEF Fork
  <2>3. flow'[cur].at = "start" /\ Others(cur)
    BY <1>2, <2>2, Shapes DEF NoFlow, Others
  <2> QED
    BY <1>2, <1>3, <1>4, <2>1, <2>3
<1>5. CASE Create /\ main = "create" /\ program = "echo5"
  <2>1. main' = "malloc" /\ cur' = Nobody /\ cell' = 0
    BY <1>5 DEF Create, LoopHead
  <2>2. flow' = [flow EXCEPT ![cur] = [NoFlow EXCEPT !.at = "start", !.cell = cell]]
    BY <1>5 DEF Create
  <2>3. flow'[cur].at = "start" /\ flow'[cur].cell = cell /\ Others(cur)
    BY <1>2, <2>2, Shapes DEF NoFlow, Others
  <2> QED
    BY <1>2, <1>3, <1>5, <2>1, <2>3
<1> QED
  BY <1>1, <1>4, <1>5

-----------------------------------------------------------------------------
(* Blocks of memory.                                                       *)

LEMMA Fixed == [Next]_vars => UNCHANGED <<program, nofile>>
<1> SUFFICES ASSUME [Next]_vars PROVE UNCHANGED <<program, nofile>>
  OBVIOUS
<1>1. ASSUME NEW c \in Clients, ClientMoves(c) \/ FlowStep(c)
      PROVE  UNCHANGED <<program, nofile>>
  <2>1. CASE ClientMoves(c) \/ Begin(c) \/ FreeCell(c) \/ Read(c) \/ Write(c)
    BY <2>1 DEF ClientMoves, Begin, FreeCell, Read, Write
  <2>2. CASE Close(c) \/ ChildCloses(c) \/ ChildExits(c) \/ Fails(c)
    BY <2>2 DEF Close, ChildCloses, ChildExits, Fails
  <2> QED
    BY <1>1, <2>1, <2>2 DEF FlowStep
<1>2. CASE MainStep
  <2>1. ASSUME NEW c \in Clients, Accept(c) PROVE UNCHANGED <<program, nofile>>
    BY <2>1 DEF Accept
  <2>2. CASE Malloc \/ AcceptFails \/ Fork \/ ParentCloses \/ Create \/ Select \/ Command
    BY <2>2 DEF Malloc, AcceptFails, Fork, ParentCloses, Create, Select, Command
  <2> QED
    BY <1>2, <2>1, <2>2 DEF MainStep
<1>3. CASE HandlerStep \/ Types \/ UNCHANGED vars
  BY <1>3 DEF HandlerStep, Deliver, Reap, NoneLeft, Return, Types, vars
<1> QED
  BY <1>1, <1>2, <1>3 DEF Next

LEMMA BlocksKept ==
  ASSUME Blocks, UNCHANGED <<program, heap, cell>>,
         program = "echo5" => (main' = "malloc" <=> main = "malloc"),
         program = "echo5" => \A c \in Clients :
           /\ flow'[c].at \in {"start", "free"} <=> HasBlock(c)
           /\ HasBlock(c) => flow'[c].cell = flow[c].cell
  PROVE  Blocks'
BY DEF Blocks, HasBlock

LEMMA BlocksStep == IInv /\ [Next]_vars => Blocks'
<1> SUFFICES ASSUME IInv, [Next]_vars, program = "echo5", program' = program
             PROVE  Blocks'
  BY Fixed DEF Blocks
<1>a. /\ Blocks /\ main \in {"malloc", "accept", "create"}
      /\ heap \in [Cells -> Fds \cup {Unused, 0}] /\ cell \in Cells \cup {0}
  BY Shapes DEF IInv, Places
<1> USE DEF loop
<1>1. ASSUME NEW c \in Clients, ClientMoves(c) PROVE Blocks'
  BY <1>1, <1>a, BlocksKept DEF ClientMoves, HasBlock
<1>2. CASE AcceptFails \/ Types \/ UNCHANGED vars
  BY <1>2, <1>a, BlocksKept DEF AcceptFails, Types, vars, HasBlock
<1>3. CASE HandlerStep
  BY <1>3, <1>a, BlocksKept DEF HandlerStep, Deliver, Reap, NoneLeft, Return, HasBlock
<1>4. CASE Select \/ Command \/ ParentCloses \/ Fork
  BY <1>4, <1>a DEF Select, Command, ParentCloses, Fork, MainRuns
<1>5. CASE Malloc
  <2>1. /\ main = "malloc" /\ main' = "accept" /\ cell' = FreshCell
        /\ heap' = [heap EXCEPT ![FreshCell] = 0] /\ UNCHANGED flow
    BY <1>5 DEF Malloc, MainRuns
  <2>2. FreshCell \in Cells /\ heap[FreshCell] = Unused /\ cell = 0
    BY <1>a, <2>1, BlockLeft DEF IInv, Blocks
  <2> DEFINE k == FreshCell
  <2> HIDE DEF k
  <2>3. k \in Cells /\ heap[k] = Unused /\ cell' = k /\ heap' = [heap EXCEPT ![k] = 0]
    BY <2>1, <2>2 DEF k
  <2>4. \A c \in Clients : HasBlock(c) => flow[c].cell \in Cells /\ flow[c].cell # k
    BY <1>a, <2>3 DEF Blocks
  <2>5. k # 0 /\ Unused # 0
    BY <2>3, Numbers
  <2>6. \A j \in Cells : heap'[j] = IF j = k THEN 0 ELSE heap[j]
    BY <1>a, <2>3
  <2>7. \A c \in Clients : HasBlock(c) =>
          flow[c].cell \in Cells /\ flow[c].cell # cell' /\ heap'[flow[c].cell] # Unused
    BY <1>a, <2>3, <2>4, <2>6 DEF Blocks
  <2>8. \A j \in Cells : heap'[j] # Unused =>
          j = cell' \/ \E c \in Clients : HasBlock(c) /\ flow[c].cell = j
    BY <1>a, <2>2, <2>3, <2>6, Numbers DEF Blocks
  <2>9. \A c \in Clients : HasBlock(c)' <=> HasBlock(c)
    BY <2>1 DEF HasBlock
  <2> QED
    BY <1>a, <2>1, <2>3, <2>5, <2>6, <2>7, <2>8, <2>9 DEF Blocks
<1>6. ASSUME NEW c \in Clients, Accept(c) PROVE Blocks'
  <2>1. /\ UNCHANGED <<cell, flow>> /\ main' = "create" /\ main \in {"accept", "dispatch"}
        /\ heap' = [heap EXCEPT ![cell] = Min(Available)]
    BY <1>6, AcceptDoes
  <2>2. Min(Available) # Unused
    BY <1>6, AcceptDoes, Accepted
  <2>3. cell \in Cells
    BY <1>a, <2>1 DEF Blocks
  <2>4. \A k \in Cells : heap'[k] # Unused <=> heap[k] # Unused
    BY <1>a, <2>1, <2>2, <2>3 DEF Blocks
  <2> QED
    BY <1>a, <2>1, <2>3, <2>4 DEF Blocks, HasBlock
<1>7. CASE Create
  <2>1. /\ cur \in Clients /\ flow[cur].at = "none" /\ Others(cur)
        /\ flow'[cur].at = "start" /\ flow'[cur].cell = cell
        /\ main = "create" /\ main' = "malloc" /\ cell' = 0 /\ UNCHANGED heap
    BY <1>7, HandOverDoes
  <2>2. cell \in Cells /\ heap[cell] # Unused /\ 0 \notin Cells
    BY <1>a, <2>1, Numbers DEF Blocks
  <2>3. \A c \in Clients \ {cur} : flow'[c] = flow[c]
    BY <2>1 DEF Others
  <2>4. \A c \in Clients : HasBlock(c) => c # cur
    BY <2>1 DEF HasBlock
  <2>5. \A c \in Clients : HasBlock(c)' <=> HasBlock(c) \/ c = cur
    BY <2>1, <2>3 DEF HasBlock
  <2>6. \A c \in Clients : HasBlock(c)' =>
          /\ flow'[c].cell \in Cells /\ flow'[c].cell # cell' /\ heap'[flow'[c].cell] # Unused
    BY <1>a, <2>1, <2>2, <2>3, <2>5 DEF Blocks
  <2>7. \A c, d \in Clients :
          HasBlock(c)' /\ HasBlock(d)' /\ flow'[c].cell = flow'[d].cell => c = d
    BY <1>a, <2>1, <2>2, <2>3, <2>5 DEF Blocks
  <2>8. \A k \in Cells : heap'[k] # Unused =>
          k = cell' \/ \E c \in Clients : HasBlock(c)' /\ flow'[c].cell = k
    BY <1>a, <2>1, <2>3, <2>4, <2>5 DEF Blocks
  <2> QED
    BY <2>1, <2>6, <2>7, <2>8 DEF Blocks
<1>8. ASSUME NEW c \in Clients, Begin(c) PROVE Blocks'
  <2>1. /\ flow[c].at = "start" /\ Others(c) /\ flow'[c].at = "free"
        /\ flow'[c].cell = flow[c].cell /\ UNCHANGED <<main, heap, cell>>
    BY <1>8, BeginDoes
  <2> QED
    BY <1>a, <2>1, BlocksKept DEF Others, HasBlock
<1>9. ASSUME NEW c \in Clients, FreeCell(c) PROVE Blocks'
  <2>1. /\ flow[c].at = "free" /\ Others(c) /\ flow'[c].at = "read"
        /\ heap' = [heap EXCEPT ![flow[c].cell] = Unused] /\ UNCHANGED <<main, cell>>
    BY <1>9, FreeCellDoes
  <2>2. \A d \in Clients : HasBlock(d)' <=> HasBlock(d) /\ d # c
    BY <2>1 DEF Others, HasBlock
  <2>3. HasBlock(c) /\ flow[c].cell \in Cells /\ flow[c].cell # cell
    BY <1>a, <2>1 DEF Blocks, HasBlock
  <2>4. \A d \in Clients : HasBlock(d)' => /\ flow'[d].cell = flow[d].cell
                                           /\ flow[d].cell \in Cells
                                           /\ flow[d].cell # flow[c].cell
    BY <1>a, <2>1, <2>2, <2>3 DEF Blocks, Others
  <2>5. \A k \in Cells : heap'[k] = IF k = flow[c].cell THEN Unused ELSE heap[k]
    BY <1>a, <2>1
  <2>6. cell' # 0 => heap'[cell'] # Unused
    BY <1>a, <2>1, <2>3, <2>5 DEF Blocks
  <2>7. \A d \in Clients : HasBlock(d)' =>
          flow'[d].cell \in Cells /\ flow'[d].cell # cell' /\ heap'[flow'[d].cell] # Unused
    BY <1>a, <2>1, <2>2, <2>4, <2>5 DEF Blocks
  <2>8. \A d, e \in Clients :
          HasBlock(d)' /\ HasBlock(e)' /\ flow'[d].cell = flow'[e].cell => d = e
    BY <1>a, <2>2, <2>4 DEF Blocks
  <2>9. \A k \in Cells : heap'[k] # Unused =>
          k = cell' \/ \E d \in Clients : HasBlock(d)' /\ flow'[d].cell = k
    BY <1>a, <2>1, <2>2, <2>4, <2>5 DEF Blocks
  <2> QED
    BY <1>a, <2>1, <2>6, <2>7, <2>8, <2>9 DEF Blocks
<1>10. ASSUME NEW c \in Clients, Read(c) PROVE Blocks'
  <2>1. /\ flow[c].at = "read" /\ Others(c) /\ flow'[c].at \in {"write", "close"}
        /\ UNCHANGED <<main, heap, cell>>
    BY <1>10, ReadDoes
  <2> QED
    BY <1>a, <2>1, BlocksKept DEF Others, HasBlock
<1>11. ASSUME NEW c \in Clients, Write(c) PROVE Blocks'
  <2>1. /\ flow[c].at = "write" /\ Others(c) /\ flow'[c].at = "read"
        /\ UNCHANGED <<main, heap, cell>>
    BY <1>11, WriteDoes
  <2> QED
    BY <1>a, <2>1, BlocksKept DEF Others, HasBlock
<1>12. ASSUME NEW c \in Clients, Close(c) PROVE Blocks'
  <2>1. /\ flow[c].at = "close" /\ Others(c) /\ flow'[c].at = "done"
        /\ UNCHANGED <<main, heap, cell>>
    BY <1>12, <1>a, CloseDoes
  <2> QED
    BY <1>a, <2>1, BlocksKept DEF Others, HasBlock
<1>13. ASSUME NEW c \in Clients, ChildCloses(c) \/ Fails(c) PROVE Blocks'
  <2>1. UNCHANGED <<main, heap, cell, flow>>
    BY <1>13, EndDoes
  <2> QED
    BY <1>a, <2>1, BlocksKept DEF HasBlock
<1>14. ASSUME NEW c \in Clients, ChildExits(c) PROVE Blocks'
  BY <1>14, ChildExitsDoes
<1> QED
  BY <1>1, <1>2, <1>3, <1>4, <1>5, <1>6, <1>7, <1>8, <1>9, <1>10, <1>11, <1>12, <1>13,
     <1>14 DEF Next, MainStep, FlowStep

-----------------------------------------------------------------------------
(* Descriptors.                                                            *)

LEMMA TableKept ==
  ASSUME Table, UNCHANGED <<program, nofile, fds>>,
         program = "echo2" => cur' = cur,
         program # "echo2" => \A c \in Clients : conn'[c] = "open" <=> conn[c] = "open"
  PROVE  Table'
BY DEF Table

LEMMA TableAccept ==
  ASSUME IInv, NEW c \in Clients, Accept(c), UNCHANGED <<program, nofile>>
  PROVE  Table'
<1> DEFINE f == Min(Available)
<1>a. Table /\ fds \in [Fds -> Clients \cup {Nobody}] /\ Places
  BY Shapes DEF IInv
<1>1. f \in Fds /\ fds[f] = Nobody /\ f < nofile /\ c # Nobody
  BY AcceptDoes, Accepted, Numbers
<1>2. /\ conn[c] = "backlog" /\ conn' = [conn EXCEPT ![c] = "open"]
      /\ fds' = [fds EXCEPT ![f] = c] /\ main \in {"accept", "dispatch"}
      /\ program = "echo2" => cur' = c
  BY AcceptDoes
<1> HIDE DEF f
<1>3. \A g \in Fds : fds'[g] = IF g = f THEN c ELSE fds[g]
  BY <1>a, <1>1, <1>2
<1>4. \A g \in Fds : fds[g] # c
  <2>1. CASE program = "echo2"
    <3>1. cur = Nobody
      BY <1>a, <1>2 DEF Places
    <3> QED
      BY <1>a, <1>1, <2>1, <3>1 DEF Table
  <2>2. CASE program # "echo2"
    BY <1>a, <1>2, <2>2 DEF Table
  <2> QED
    BY <2>1, <2>2
<1>5. \A g, h \in Fds : fds'[g] = fds'[h] /\ fds'[g] # Nobody => g = h
  BY <1>a, <1>3, <1>4 DEF Table
<1>6. \A g \in Fds : fds'[g] # Nobody => g < nofile'
  BY <1>a, <1>1, <1>3 DEF Table
<1>7. ASSUME program # "echo2", NEW d \in Clients
      PROVE  conn'[d] = "open" <=> \E g \in Fds : fds'[g] = d
  <2>1. CASE d = c
    BY <1>1, <1>2, <1>3, <2>1, Shapes
  <2>2. CASE d # c
    <3>1. conn'[d] = conn[d]
      BY <1>2, <2>2, Shapes
    <3>2. \A g \in Fds : fds'[g] = d <=> fds[g] = d
      BY <1>1, <1>3, <2>2, Numbers
    <3> QED
      BY <1>a, <1>7, <3>1, <3>2 DEF Table
  <2> QED
    BY <2>1, <2>2
<1>8. ASSUME program = "echo2"
      PROVE  /\ \A g \in Fds : fds'[g] \in {Nobody, cur'}
             /\ \E g \in Fds : fds'[g] = cur'
  <2>1. cur = Nobody /\ cur' = c
    BY <1>a, <1>2, <1>8 DEF Places
  <2> QED
    BY <1>a, <1>1, <1>3, <1>8, <2>1 DEF Table
<1> QED
  BY <1>5, <1>6, <1>7, <1>8 DEF Table

LEMMA TableClose ==
  ASSUME IInv, NEW c \in Clients, Close(c), UNCHANGED <<program, nofile>>
  PROVE  Table'
<1> DEFINE f == flow[c].fd
<1>a. Table /\ fds \in [Fds -> Clients \cup {Nobody}]
  BY Shapes DEF IInv
<1>1. /\ f \in Fds /\ fds[f] = c /\ c # Nobody /\ program # "echo2"
      /\ conn' = [conn EXCEPT ![c] = "closed"] /\ fds' = [fds EXCEPT ![f] = Nobody]
  BY CloseDoes, Numbers DEF Stands
<1> HIDE DEF f
<1>2. \A g \in Fds : fds'[g] = IF g = f THEN Nobody ELSE fds[g]
  BY <1>a, <1>1
<1>3. \A g \in Fds : fds'[g] # c
  BY <1>a, <1>1, <1>2 DEF Table
<1>4. ASSUME NEW d \in Clients
      PROVE  conn'[d] = "open" <=> \E g \in Fds : fds'[g] = d
  <2>1. CASE d = c
    BY <1>1, <1>3, <2>1, Shapes
  <2>2. CASE d # c
    <3>1. conn'[d] = conn[d]
      BY <1>1, <2>2, Shapes
    <3>2. \A g \in Fds : fds'[g] = d <=> fds[g] = d
      BY <1>1, <1>2, <2>2, Numbers
    <3> QED
      BY <1>a, <1>1, <3>1, <3>2 DEF Table
  <2> QED
    BY <2>1, <2>2
<1> QED
  BY <1>a, <1>1, <1>2, <1>4 DEF Table

LEMMA TableStep == IInv /\ [Next]_vars => Table'
<1> SUFFICES ASSUME IInv, [Next]_vars, UNCHANGED <<program, nofile>> PROVE Table'
  BY Fixed
<1>a. Table /\ conn \in [Clients -> {"none", "backlog", "open", "closed"}]
  BY Shapes DEF IInv
<1> USE DEF loop
<1>1. ASSUME NEW c \in Clients, ClientMoves(c) PROVE Table'
  BY <1>1, <1>a, TableKept DEF ClientMoves, ClientStep, Dial, Sends, Ends
<1>2. CASE Malloc \/ AcceptFails \/ Types \/ Select \/ Command \/ UNCHANGED vars
  <2>1. UNCHANGED <<conn, cur, fds>>
    BY <1>2 DEF Malloc, AcceptFails, Types, Select, Command, vars, net
  <2> QED
    BY <1>a, <2>1, TableKept
<1>3. CASE HandlerStep
  <2>1. UNCHANGED <<conn, cur, fds>>
    BY <1>3 DEF HandlerStep, Deliver, Reap, NoneLeft, Return, net
  <2> QED
    BY <1>a, <2>1, TableKept
<1>4. ASSUME NEW c \in Clients, Accept(c) PROVE Table'
  BY <1>4, TableAccept
<1>5. CASE Fork \/ Create
  BY <1>5, <1>a, HandOverDoes, TableKept
<1>6. CASE ParentCloses
  <2>1. main = "close" /\ fds' = WithoutCur /\ cur' = Nobody
    BY <1>6 DEF ParentCloses, MainRuns
  <2>2. program = "echo2"
    BY <2>1, Shapes DEF IInv, Places
  <2>3. \A f \in Fds : fds'[f] = Nobody
    BY <1>a, <2>1, <2>2 DEF WithoutCur, Table
  <2> QED
    BY <2>1, <2>2, <2>3 DEF Table
<1>7. ASSUME NEW c \in Clients, FlowStep(c) PROVE Table'
  <2>1. CASE Begin(c) \/ FreeCell(c)
    BY <1>a, <2>1, BeginDoes, FreeCellDoes, TableKept
  <2>2. CASE Read(c) \/ Write(c)
    <3>1. UNCHANGED <<conn, cur, fds>>
      BY <2>2, ReadDoes, WriteDoes
    <3> QED
      BY <1>a, <3>1, TableKept
  <2>3. CASE Close(c)
    BY <2>3, TableClose
  <2>4. CASE ChildCloses(c) \/ Fails(c)
    <3>1. /\ UNCHANGED <<cur, fds>>
          /\ program # "echo2" => UNCHANGED conn
      BY <2>4, EndDoes
    <3> QED
      BY <1>a, <3>1, TableKept
  <2>5. CASE ChildExits(c)
    BY <1>a, <2>5, ChildExitsDoes, TableKept
  <2> QED
    BY <1>7, <2>1, <2>2, <2>3, <2>4, <2>5 DEF FlowStep
<1> QED
  BY <1>1, <1>2, <1>3, <1>4, <1>5, <1>6, <1>7 DEF Next, MainStep

LEMMA OwnsKept ==
  ASSUME Owns, UNCHANGED <<program, heap, fds>>,
         main' = "create" => UNCHANGED <<main, cell, cur>>,
         UNCHANGED flow
  PROVE  Owns'
BY DEF Owns, Stands

LEMMA OwnsStep == IInv /\ [Next]_vars => Owns'
<1> SUFFICES ASSUME IInv, [Next]_vars, UNCHANGED <<program, nofile>> PROVE Owns'
  BY Fixed
<1>a. /\ Owns /\ Blocks /\ Places /\ Table
      /\ fds \in [Fds -> Clients \cup {Nobody}] /\ heap \in [Cells -> Fds \cup {Unused, 0}]
      /\ program \in {"echo1", "echo2", "echo3", "echo5"}
  BY Shapes DEF IInv
<1> USE DEF loop
<1>1. ASSUME NEW c \in Clients, ClientMoves(c) PROVE Owns'
  BY <1>1, <1>a, OwnsKept DEF ClientMoves
<1>2. CASE AcceptFails \/ Types \/ Select \/ Command \/ UNCHANGED vars
  <2>1. UNCHANGED <<heap, fds, flow>>
    BY <1>2 DEF AcceptFails, Types, Select, Command, vars
  <2>2. main' = "create" => UNCHANGED <<main, cell, cur>>
    BY <1>2, <1>a DEF AcceptFails, Types, Select, Command, vars, LoopHead, AfterEof, MainRuns
  <2> QED
    BY <1>a, <2>1, <2>2, OwnsKept
<1>3. CASE HandlerStep
  <2>1. UNCHANGED <<heap, fds, flow, main, cell, cur>>
    BY <1>3 DEF HandlerStep, Deliver, Reap, NoneLeft, Return
  <2> QED
    BY <1>a, <2>1, OwnsKept
<1>4. CASE Malloc
  <2>1. /\ main = "malloc" /\ main' = "accept"
        /\ heap' = [heap EXCEPT ![FreshCell] = 0] /\ UNCHANGED <<flow, fds>>
    BY <1>4 DEF Malloc, MainRuns
  <2>2. program = "echo5"
    BY <1>a, <2>1 DEF Places
  <2>3. FreshCell \in Cells /\ heap[FreshCell] = Unused
    BY <2>1, <2>2, BlockLeft DEF IInv
  <2>4. \A c \in Clients : flow[c].at = "start" => heap'[flow[c].cell] = heap[flow[c].cell]
    BY <1>a, <2>1, <2>2, <2>3 DEF Blocks, HasBlock
  <2> QED
    BY <1>a, <2>1, <2>2, <2>4 DEF Owns, Stands
<1>5. ASSUME NEW c \in Clients, Accept(c) PROVE Owns'
  <2> DEFINE f == Min(Available)
  <2>1. f \in Fds /\ fds[f] = Nobody
    BY <1>5, AcceptDoes, Accepted
  <2>2. /\ fds' = [fds EXCEPT ![f] = c] /\ flow[c].at = "none" /\ Others(c)
        /\ main \in {"accept", "dispatch"}
        /\ \/ program = "echo2" /\ main' = "fork" /\ UNCHANGED flow
           \/ /\ program = "echo5" /\ main' = "create" /\ cur' = c
              /\ heap' = [heap EXCEPT ![cell] = f] /\ UNCHANGED <<flow, cell>>
           \/ /\ program \in {"echo1", "echo3"} /\ main' = "serving"
              /\ flow'[c].at = "read" /\ flow'[c].fd = f /\ UNCHANGED heap
    BY <1>5, AcceptDoes
  <2> HIDE DEF f
  <2>3. \A g, d : Stands(g, d) /\ d \in Clients => g \in Fds /\ fds'[g] = d
    BY <1>a, <2>1, <2>2, Numbers DEF Stands
  <2>4. f \in Fds /\ fds'[f] = c
    BY <1>a, <2>1, <2>2
  <2>5. CASE program = "echo2"
    BY <2>2, <2>5 DEF Owns
  <2>6. CASE program = "echo5"
    <3>1. main = "accept" /\ main' = "create" /\ cur' = c /\ UNCHANGED <<flow, cell>>
      BY <1>a, <2>2, <2>6 DEF Places
    <3>2. cell \in Cells
      BY <1>a, <2>6, <3>1, Shapes DEF Blocks
    <3>3. heap'[cell] = f
      BY <1>a, <2>2, <2>6, <3>2
    <3>4. \A d \in Clients : flow[d].at = "start" => heap'[flow[d].cell] = heap[flow[d].cell]
      BY <1>a, <2>2, <2>6 DEF Blocks, HasBlock
    <3> QED
      BY <1>a, <2>3, <2>4, <2>6, <3>1, <3>3, <3>4 DEF Owns, Stands
  <2>7. CASE program \in {"echo1", "echo3"}
    <3>1. \A d \in Clients \ {c} : flow'[d] = flow[d]
      BY <2>2 DEF Others
    <3> QED
      BY <1>a, <2>2, <2>3, <2>4, <2>7, <3>1 DEF Owns, Stands
  <2> QED
    BY <1>a, <2>5, <2>6, <2>7
<1>6. CASE Fork \/ Create
  <2>1. /\ cur \in Clients /\ \A d \in Clients \ {cur} : flow'[d] = flow[d]
        /\ flow'[cur].at = "start" /\ UNCHANGED <<fds, heap>> /\ main' # "create"
        /\ \/ program = "echo2"
           \/ program = "echo5" /\ main = "create" /\ flow'[cur].cell = cell
    BY <1>6, HandOverDoes DEF Others
  <2> QED
    BY <1>a, <2>1 DEF Owns, Stands
<1>7. CASE ParentCloses
  <2>1. main = "close" /\ main' = LoopHead(program) /\ UNCHANGED program
    BY <1>7 DEF ParentCloses, MainRuns
  <2>2. program = "echo2"
    BY <1>a, <2>1 DEF Places
  <2> QED
    BY <2>1, <2>2 DEF Owns, LoopHead
<1>8. ASSUME NEW c \in Clients, FlowStep(c) PROVE Owns'
  <2>1. CASE Begin(c)
    <3>1. /\ flow[c].at = "start" /\ Others(c)
          /\ flow'[c].at = (IF program = "echo5" THEN "free" ELSE "read")
          /\ flow'[c].fd = (IF program = "echo5" THEN heap[flow[c].cell] ELSE 0)
          /\ UNCHANGED <<heap, fds, main, cell, cur>>
      BY <2>1, BeginDoes
    <3>2. program \in {"echo2", "echo5"}
      BY <1>a, <3>1 DEF Places
    <3> QED
      BY <1>a, <3>1, <3>2 DEF Owns, Others, Stands
  <2>2. CASE FreeCell(c)
    <3>1. /\ flow[c].at = "free" /\ Others(c)
          /\ flow'[c].at = "read" /\ flow'[c].fd = flow[c].fd
          /\ heap' = [heap EXCEPT ![flow[c].cell] = Unused]
          /\ UNCHANGED <<fds, main, cell, cur>>
      BY <2>2, FreeCellDoes
    <3>2. program = "echo5"
      BY <1>a, <3>1 DEF Places
    <3>3. flow[c].cell \in Cells /\ flow[c].cell # cell
      BY <1>a, <3>1, <3>2 DEF Blocks, HasBlock
    <3>4. \A d \in Clients : flow[d].at = "start" =>
            d # c /\ heap'[flow[d].cell] = heap[flow[d].cell]
      BY <1>a, <3>1, <3>2 DEF Blocks, HasBlock
    <3>5. main = "create" => heap'[cell] = heap[cell]
      BY <1>a, <3>1, <3>2, <3>3, Shapes DEF Blocks
    <3>6. \A d \in Clients : flow'[d].at = "start" => heap'[flow'[d].cell] = heap[flow[d].cell]
                                                     /\ flow[d].at = "start"
      BY <3>1, <3>4 DEF Others
    <3> QED
      BY <1>a, <3>1, <3>2, <3>5, <3>6 DEF Owns, Others, Stands
  <2>3. CASE Read(c) \/ Write(c)
    <3>1. /\ flow[c].at \in {"read", "write"} /\ Others(c)
          /\ flow'[c].at \in {"read", "write", "close"} /\ flow'[c].fd = flow[c].fd
          /\ UNCHANGED <<heap, fds, main, cell, cur>>
      BY <2>3, ReadDoes, WriteDoes
    <3> QED
      BY <1>a, <3>1 DEF Owns, Others, Stands
  <2>4. CASE Close(c)
    <3> DEFINE f == flow[c].fd
    <3>1. /\ flow[c].at = "close" /\ Others(c) /\ flow'[c].at = "done" /\ Stands(f, c)
          /\ fds' = [fds EXCEPT ![f] = Nobody]
          /\ main' = (IF main = "serving" THEN LoopHead(program) ELSE main)
          /\ UNCHANGED <<heap, cell, cur>>
      BY <2>4, CloseDoes
    <3> HIDE DEF f
    <3>2. \A g, d : Stands(g, d) /\ d \in Clients \ {c} => g \in Fds /\ fds'[g] = d
      BY <1>a, <3>1 DEF Stands
    <3>3. main' = "create" => main = "create"
      BY <1>a, <3>1 DEF LoopHead
    <3>4. main = "create" => cur \in Clients \ {c}
      <4>1. main = "create" => cur \in Clients /\ flow[cur].at = "none"
        BY Shapes DEF IInv, Places, Progress, Far
      <4> QED
        BY <3>1, <4>1
    <3>5. \A d \in Clients : flow'[d].at # "done" => d \in Clients \ {c}
      BY <3>1
    <3>6. program # "echo2" => \A d \in Clients :
            flow'[d].at \in {"free", "read", "write", "close"} =>
              flow'[d].fd \in Fds /\ fds'[flow'[d].fd] = d
      BY <1>a, <3>1, <3>2, <3>5 DEF Owns, Others, Stands
    <3>7. program = "echo5" => \A d \in Clients :
            flow'[d].at = "start" =>
              heap'[flow'[d].cell] \in Fds /\ fds'[heap'[flow'[d].cell]] = d
      BY <1>a, <3>1, <3>2, <3>5 DEF Owns, Others, Stands
    <3>8. main' = "create" => heap'[cell'] \in Fds /\ fds'[heap'[cell']] = cur'
      BY <1>a, <3>1, <3>2, <3>3, <3>4 DEF Owns, Stands
    <3> QED
      BY <3>6, <3>7, <3>8 DEF Owns, Stands
  <2>5. CASE ChildCloses(c) \/ Fails(c)
    <3>1. /\ UNCHANGED <<heap, fds, main, cell, cur>>
          /\ UNCHANGED flow \/ (Others(c) /\ flow'[c].at = "exit")
      BY <2>5, EndDoes
    <3> QED
      BY <1>a, <3>1 DEF Owns, Others, Stands
  <2>6. CASE ChildExits(c)
    <3>1. /\ UNCHANGED <<heap, fds, main, cell, cur>>
          /\ Others(c) /\ flow'[c].at = "done"
      BY <2>6, ChildExitsDoes
    <3> QED
      BY <1>a, <3>1 DEF Owns, Others, Stands
  <2> QED
    BY <1>8, <2>1, <2>2, <2>3, <2>4, <2>5, <2>6 DEF FlowStep
<1> QED
  BY <1>1, <1>2, <1>3, <1>4, <1>5, <1>6, <1>7, <1>8 DEF Next, MainStep

-----------------------------------------------------------------------------
(* How far a connection is.                                                *)

(* What has come back, and the halves of the next line after it.            *)
LEMMA Appended ==
  ASSUME NEW a \in Nat, NEW b \in Nat, b <= a
  PROVE  Upto(a - b) \o Halves(a - b, a) = Upto(a)
<1>1. a - (a - b) = b /\ a - b \in Nat
  OBVIOUS
<1>2. Halves(a - b, a) = [i \in 1..b |-> (a - b) + i]
  BY <1>1 DEF Halves
<1>3. /\ Upto(a - b) \in Seq(Nat) /\ Len(Upto(a - b)) = a - b
      /\ Halves(a - b, a) \in Seq(Nat) /\ Len(Halves(a - b, a)) = b
  BY <1>1, <1>2 DEF Upto
<1>4. Upto(a) \in Seq(Nat) /\ Len(Upto(a)) = a
  BY DEF Upto
<1> QED
  BY <1>1, <1>2, <1>3, <1>4 DEF Upto

LEMMA FarKept ==
  ASSUME NEW c, Far(c), flow'[c] = flow[c], conn'[c] = conn[c], sent'[c] = sent[c],
         end'[c] = end[c], taken'[c] = taken[c], echoed'[c] = echoed[c]
  PROVE  Far(c)'
BY DEF Far, Over, Upto

LEMMA ProgressStep == IInv /\ [Next]_vars => Progress'
<1> SUFFICES ASSUME IInv, [Next]_vars, UNCHANGED <<program, nofile>> PROVE Progress'
  BY Fixed
<1>a. /\ \A c \in Clients : Far(c)
      /\ cur # Nobody => /\ cur \in Clients /\ conn[cur] = "open"
                         /\ flow[cur].at = "none" <=> main \in {"fork", "create"}
      /\ Places /\ program \in {"echo1", "echo2", "echo3", "echo5"}
      /\ conn \in [Clients -> {"none", "backlog", "open", "closed"}]
      /\ end \in [Clients -> {"no", "eof", "reset"}]
      /\ sent \in [Clients -> Nat] /\ taken \in [Clients -> Nat]
      /\ echoed \in [Clients -> Seq(1..(2 * MaxLines))]
  BY Shapes DEF IInv, Progress
<1>b. ASSUME NEW c \in Clients, Far(c)', \A d \in Clients \ {c} : flow'[d] = flow[d],
             \A d \in Clients \ {c} : /\ conn'[d] = conn[d] /\ sent'[d] = sent[d]
                                      /\ end'[d] = end[d] /\ taken'[d] = taken[d]
                                      /\ echoed'[d] = echoed[d],
             cur' # Nobody => /\ conn'[cur'] = "open"
                              /\ flow'[cur'].at = "none" <=> main' \in {"fork", "create"}
      PROVE  Progress'
  <2>1. \A d \in Clients : Far(d)'
    BY <1>a, <1>b, FarKept
  <2> QED
    BY <1>b, <2>1 DEF Progress
<1>c. ASSUME UNCHANGED <<conn, sent, end, taken, echoed, flow>>,
             cur' # Nobody => UNCHANGED <<cur, main>>
      PROVE  Progress'
  <2>1. \A d \in Clients : Far(d)'
    BY <1>a, <1>c, FarKept
  <2> QED
    BY <1>a, <1>c, <2>1 DEF Progress
<1> USE DEF loop
<1>1. ASSUME NEW c \in Clients, ClientMoves(c) PROVE Progress'
  <2>1. UNCHANGED <<flow, cur, main, taken, echoed>>
    BY <1>1 DEF ClientMoves, ClientStep, Dial, Sends, Ends
  <2>2. CASE Dial(c)
    <3>1. /\ conn[c] = "none" /\ conn' = [conn EXCEPT ![c] = "backlog"]
          /\ UNCHANGED <<sent, end>>
      BY <2>2 DEF Dial
    <3>2. Far(c)'
      BY <1>a, <2>1, <3>1 DEF Far, Over, Upto
    <3>3. cur # Nobody => conn'[cur] = "open"
      BY <1>a, <3>1
    <3> QED
      BY <1>a, <1>b, <2>1, <3>1, <3>2, <3>3
  <2>3. CASE Sends(c)
    <3>1. /\ end[c] = "no" /\ sent' = [sent EXCEPT ![c] = @ + 1] /\ UNCHANGED <<conn, end>>
      BY <2>3 DEF Sends
    <3>2. Far(c)'
      BY <1>a, <2>1, <3>1 DEF Far, Over, Upto
    <3> QED
      BY <1>a, <1>b, <2>1, <3>1, <3>2
  <2>4. CASE Ends(c)
    <3>1. /\ \/ end[c] = "no" /\ end' = [end EXCEPT ![c] = "eof"]
             \/ end' = [end EXCEPT ![c] = "reset"]
          /\ UNCHANGED <<conn, sent>>
      BY <2>4 DEF Ends
    <3>2. Far(c)'
      BY <1>a, <2>1, <3>1 DEF Far, Over, Upto
    <3> QED
      BY <1>a, <1>b, <2>1, <3>1, <3>2
  <2> QED
    BY <1>1, <2>2, <2>3, <2>4 DEF ClientMoves, ClientStep
<1>2. CASE AcceptFails \/ Types \/ UNCHANGED vars
  <2>1. UNCHANGED <<conn, sent, end, taken, echoed, flow, cur, main>>
    BY <1>2 DEF AcceptFails, Types, vars, net
  <2> QED
    BY <2>1, <1>c
<1>3. CASE HandlerStep
  <2>1. UNCHANGED <<conn, sent, end, taken, echoed, flow, cur, main>>
    BY <1>3 DEF HandlerStep, Deliver, Reap, NoneLeft, Return, net
  <2> QED
    BY <2>1, <1>c
<1>4. CASE Malloc \/ Select \/ Command
  <2>1. /\ UNCHANGED <<conn, sent, end, taken, echoed, flow, cur>>
        /\ main \in {"malloc", "select", "dispatch"}
    BY <1>4 DEF Malloc, Select, Command, net, MainRuns
  <2>2. cur = Nobody
    BY <1>a, <2>1 DEF Places
  <2> QED
    BY <2>1, <2>2, <1>c
<1>5. ASSUME NEW c \in Clients, Accept(c) PROVE Progress'
  <2>1. /\ conn[c] = "backlog" /\ conn' = [conn EXCEPT ![c] = "open"]
        /\ flow[c].at = "none" /\ Others(c) /\ main \in {"accept", "dispatch"}
        /\ \/ main' = "fork" /\ cur' = c /\ UNCHANGED flow
           \/ main' = "create" /\ cur' = c /\ UNCHANGED flow
           \/ main' = "serving" /\ flow'[c].at = "read" /\ UNCHANGED cur
        /\ UNCHANGED <<sent, end, taken, echoed>>
    BY <1>5, AcceptDoes
  <2>2. cur = Nobody
    BY <1>a, <2>1 DEF Places
  <2>3. Far(c)'
    BY <1>a, <2>1 DEF Far, Over, Upto
  <2>4. cur' # Nobody => /\ conn'[cur'] = "open"
                         /\ flow'[cur'].at = "none" <=> main' \in {"fork", "create"}
    BY <1>a, <2>1, <2>2
  <2> QED
    BY <1>a, <1>b, <2>1, <2>3, <2>4 DEF Others
<1>6. CASE Fork \/ Create
  <2>1. /\ cur \in Clients /\ flow[cur].at = "none" /\ Others(cur)
        /\ flow'[cur].at = "start"
        /\ \/ main' = "close" /\ UNCHANGED cur
           \/ cur' = Nobody
        /\ UNCHANGED <<conn, sent, end, taken, echoed>>
    BY <1>6, HandOverDoes
  <2>2. PICK c \in Clients : c = cur
    BY <2>1
  <2>3. conn[c] = "open" /\ Far(c) /\ flow[c].at = "none" /\ flow'[c].at = "start"
    BY <1>a, <2>1, <2>2, Numbers
  <2>4. Far(c)'
    BY <2>1, <2>3 DEF Far, Over, Upto
  <2>5. \A d \in Clients \ {c} : flow'[d] = flow[d]
    BY <2>1, <2>2 DEF Others
  <2> QED
    BY <1>b, <2>1, <2>2, <2>3, <2>4, <2>5
<1>7. CASE ParentCloses
  <2>1. /\ main = "close" /\ main' = LoopHead(program) /\ cur' = Nobody
        /\ conn' = [conn EXCEPT ![cur] = IF InChild(cur) THEN "open" ELSE "closed"]
        /\ UNCHANGED <<sent, end, taken, echoed, flow>>
    BY <1>7 DEF ParentCloses, MainRuns
  <2>2. program = "echo2" /\ cur # Nobody
    BY <1>a, <2>1 DEF Places
  <2>3. PICK c \in Clients : c = cur
    BY <1>a, <2>2
  <2>4. /\ flow[c].at # "none"
        /\ conn' = [conn EXCEPT ![c] = IF InChild(c) THEN "open" ELSE "closed"]
    BY <1>a, <2>1, <2>2, <2>3
  <2>5. flow[c].at \in {"start", "read", "write", "close"} => InChild(c)
    BY <2>2 DEF IInv, Children, InChild
  <2>6. flow[c].at # "free"
    BY <1>a, <2>2 DEF Places
  <2>7. conn'[c] \in {"open", "closed"} /\ InChild(c) => conn'[c] = "open"
    BY <1>a, <2>4
  <2>8. conn'[c] \in {"open", "closed"}
    BY <1>a, <2>4
  <2>9. Far(c)'
    BY <1>a, <2>1, <2>4, <2>5, <2>6, <2>7, <2>8 DEF Far, Over, Upto
  <2>10. \A d \in Clients \ {c} : conn'[d] = conn[d]
    BY <1>a, <2>4
  <2> QED
    BY <1>b, <2>1, <2>9, <2>10
<1>8. ASSUME NEW c \in Clients, FlowStep(c) PROVE Progress'
  <2>a. flow[c].at # "none" /\ UNCHANGED <<cur, main>> /\ flow'[c].at # "none"
          /\ (cur = c => conn'[c] = "open") /\ Others(c)
          /\ (\A d \in Clients \ {c} : conn'[d] = conn[d])
          => (cur' # Nobody => /\ conn'[cur'] = "open"
                               /\ flow'[cur'].at = "none" <=> main' \in {"fork", "create"})
    BY <1>a DEF Others
  <2>b. flow[c].at \in {"start", "free", "read", "write", "close"} => conn[c] = "open"
    BY <1>a DEF Far
  <2>1. CASE Begin(c)
    <3>1. /\ flow[c].at = "start" /\ Others(c) /\ flow'[c].at \in {"free", "read"}
          /\ UNCHANGED <<conn, sent, end, taken, echoed, cur, main>>
      BY <2>1, BeginDoes
    <3>2. Far(c)'
      BY <1>a, <3>1 DEF Far, Over, Upto
    <3> QED
      BY <1>a, <1>b, <2>a, <2>b, <3>1, <3>2 DEF Others
  <2>2. CASE FreeCell(c)
    <3>1. /\ flow[c].at = "free" /\ Others(c) /\ flow'[c].at = "read"
          /\ UNCHANGED <<conn, sent, end, taken, echoed, cur, main>>
      BY <2>2, FreeCellDoes
    <3>2. Far(c)'
      BY <1>a, <3>1 DEF Far, Over, Upto
    <3> QED
      BY <1>a, <1>b, <2>a, <2>b, <3>1, <3>2 DEF Others
  <2>3. CASE Read(c)
    <3> DEFINE k == flow'[c].n
    <3>1. /\ flow[c].at = "read" /\ Others(c)
          /\ flow'[c].at = (IF k = 0 THEN "close" ELSE "write")
          /\ k \in LineResults(c) /\ taken' = [taken EXCEPT ![c] = @ + k]
          /\ UNCHANGED <<conn, sent, end, echoed, cur, main>>
      BY <2>3, ReadDoes
    <3>2. k \in 0..2 /\ k = 0 => end[c] = "eof" /\ taken[c] = sent[c]
      BY <3>1, LineLength DEF IInv, Typed
    <3>3. k \in 0..2
      BY <3>1, LineLength DEF IInv, Typed
    <3>4. taken'[c] = taken[c] + k /\ taken[c] \in Nat /\ echoed[c] = Upto(taken[c])
      BY <1>a, <3>1 DEF Far
    <3>5. Far(c)'
      <4>1. CASE k = 0
        <5>1. end[c] = "eof" /\ taken[c] = sent[c] /\ flow'[c].at = "close"
          BY <3>1, <3>2, <3>3, <4>1
        <5>2. conn[c] = "open" /\ echoed[c] = Upto(sent[c])
          BY <2>b, <3>1, <3>4, <5>1
        <5> QED
          BY <3>1, <5>1, <5>2 DEF Far, Over, Upto
      <4>2. CASE k # 0
        <5>1. 0 < k /\ k <= taken'[c] /\ taken'[c] - k = taken[c] /\ flow'[c].at = "write"
          BY <3>1, <3>3, <3>4, <4>2
        <5>2. conn[c] = "open" /\ echoed[c] = Upto(taken'[c] - k)
          BY <2>b, <3>1, <3>4, <5>1
        <5> QED
          BY <3>1, <5>1, <5>2 DEF Far, Upto
      <4> QED
        BY <4>1, <4>2
    <3>6. \A d \in Clients \ {c} : taken'[d] = taken[d]
      BY <1>a, <3>1
    <3>7. flow'[c].at # "none"
      BY <3>1
    <3> HIDE DEF k
    <3> QED
      BY <1>a, <1>b, <2>a, <2>b, <3>1, <3>5, <3>6, <3>7 DEF Others
  <2>4. CASE Write(c)
    <3>1. /\ flow[c].at = "write" /\ Others(c) /\ flow'[c].at = "read"
          /\ echoed' = [echoed EXCEPT ![c] = @ \o Halves(taken[c] - flow[c].n, taken[c])]
          /\ UNCHANGED <<conn, sent, end, taken, cur, main>>
      BY <2>4, WriteDoes
    <3>a. flow[c].n \in 0..2
      BY Shapes DEF Flows
    <3>2. /\ flow[c].n \in Nat /\ flow[c].n <= taken[c] /\ taken[c] \in Nat
          /\ echoed[c] = Upto(taken[c] - flow[c].n)
      BY <1>a, <3>1, <3>a DEF Far
    <3>3. echoed'[c] = echoed[c] \o Halves(taken[c] - flow[c].n, taken[c])
      BY <1>a, <3>1
    <3>4. echoed'[c] = Upto(taken[c])
      BY <3>2, <3>3, Appended
    <3>5. Far(c)'
      BY <2>b, <3>1, <3>4 DEF Far, Upto
    <3>6. \A d \in Clients \ {c} : echoed'[d] = echoed[d]
      BY <1>a, <3>1
    <3> QED
      BY <1>a, <1>b, <2>a, <2>b, <3>1, <3>5, <3>6 DEF Others
  <2>5. CASE Close(c)
    <3>1. /\ flow[c].at = "close" /\ Others(c) /\ flow'[c].at = "done"
          /\ conn' = [conn EXCEPT ![c] = "closed"]
          /\ main' = (IF main = "serving" THEN LoopHead(program) ELSE main)
          /\ UNCHANGED <<sent, end, taken, echoed, cur>> /\ program # "echo2"
      BY <2>5, CloseDoes
    <3>2. Far(c)'
      BY <1>a, <3>1 DEF Far, Over, Upto
    <3>3. cur # Nobody => main' = main /\ main = "create"
      BY <1>a, <3>1 DEF Places
    <3>4. cur # Nobody => cur \in Clients \ {c} /\ conn[cur] = "open" /\ flow[cur].at = "none"
      BY <1>a, <3>1, <3>3
    <3>5. cur' # Nobody => /\ conn'[cur'] = "open"
                           /\ flow'[cur'].at = "none" <=> main' \in {"fork", "create"}
      BY <1>a, <3>1, <3>3, <3>4 DEF Others
    <3> QED
      BY <1>a, <1>b, <3>1, <3>2, <3>5 DEF Others
  <2>6. CASE ChildCloses(c) \/ Fails(c)
    <3>1. /\ UNCHANGED <<sent, end, taken, echoed, cur, main>>
          /\ flow[c].at \in {"read", "write", "close"}
          /\ ~ChildCloses(c) => end[c] = "reset"
          /\ ChildCloses(c) => flow[c].at = "close"
          /\ \/ /\ program = "echo2" /\ Others(c) /\ flow'[c].at = "exit"
                /\ conn' = [conn EXCEPT ![c] = IF InParent(c) THEN "open" ELSE "closed"]
             \/ UNCHANGED <<conn, flow>>
      BY <2>6, EndDoes
    <3>2. CASE UNCHANGED <<conn, flow>>
      BY <3>1, <3>2, <1>c
    <3>3. CASE ~UNCHANGED <<conn, flow>>
      <4>1. /\ program = "echo2" /\ Others(c) /\ flow'[c].at = "exit"
            /\ conn' = [conn EXCEPT ![c] = IF InParent(c) THEN "open" ELSE "closed"]
        BY <3>1, <3>3
      <4>2. Over(c)
        BY <1>a, <3>1 DEF Far, Over
      <4>3. Far(c)'
        BY <1>a, <3>1, <4>1, <4>2 DEF Far, Over, Upto
      <4>4. cur = c => InParent(c)
        BY <4>1, Numbers DEF IInv, Table, InParent
      <4>5. /\ cur = c => conn'[c] = "open"
            /\ \A d \in Clients \ {c} : conn'[d] = conn[d]
        BY <1>a, <4>1, <4>4
      <4>6. flow[c].at # "none" /\ flow'[c].at # "none"
        BY <3>1, <4>1
      <4> QED
        BY <1>b, <2>a, <3>1, <4>1, <4>3, <4>5, <4>6 DEF Others
    <3> QED
      BY <3>2, <3>3
  <2>7. CASE ChildExits(c)
    <3>1. /\ flow[c].at = "exit" /\ Others(c) /\ flow'[c].at = "done"
          /\ UNCHANGED <<conn, sent, end, taken, echoed, cur, main>>
      BY <2>7, ChildExitsDoes
    <3>2. Far(c)'
      BY <1>a, <3>1 DEF Far, Over, Upto
    <3>3. cur = c => conn'[c] = "open"
      BY <1>a, <3>1, Numbers
    <3> QED
      BY <1>a, <1>b, <2>a, <3>1, <3>2, <3>3 DEF Others
  <2> QED
    BY <1>8, <2>1, <2>2, <2>3, <2>4, <2>5, <2>6, <2>7 DEF FlowStep
<1> QED
  BY <1>1, <1>2, <1>3, <1>4, <1>5, <1>6, <1>7, <1>8 DEF Next, MainStep

-----------------------------------------------------------------------------
(* The theorems.                                                           *)

(* Every state of the four servers is one that IInv describes.             *)
THEOREM Invariance == Spec => []IInv
<1>1. IInv /\ [Next]_vars => IInv'
  BY NetTypesStep, ProcessTypesStep, PartTypesStep, ConsoleStep, PlacesStep, BlocksStep,
     TableStep, OwnsStep, ProgressStep, ChildrenStep DEF IInv, Typed
<1> QED
  BY InitInv, <1>1, PTL DEF Spec

(* Every variable holds a value of its kind, for any number of clients,     *)
(* descriptors and lines; a free block is there when main asks for one, and *)
(* the lines in stdin's buffer never outnumber those that were typed.       *)
THEOREM TypeCorrect == Spec => []TypeOK
<1>1. IInv => TypeOK
  <2> SUFFICES ASSUME IInv PROVE TypeOK
    OBVIOUS
  <2>1. taken \in [Clients -> 0..(2 * MaxLines)]
    <3>1. \A c \in Clients : taken[c] \in 0..(2 * MaxLines)
      BY Numbers DEF IInv, Typed, NetTypes
    <3> QED
      BY <3>1 DEF IInv, Typed, NetTypes
  <2>2. NetTypeOK
    BY <2>1 DEF IInv, Typed, NetTypes, NetTypeOK
  <2> QED
    BY <2>2 DEF IInv, Typed, ProcessTypes, PartTypes, ConsoleTypes, TypeOK
<1> QED
  BY Invariance, <1>1, PTL

(* A descriptor reaches the flow it was accepted for: echo5's thread finds  *)
(* its own one in the block it is given, however many accepts come between. *)
THEOREM HandedOver == Spec => []EachItsOwnConnection
<1>1. IInv => EachItsOwnConnection
  <2> SUFFICES ASSUME IInv PROVE EachItsOwnConnection
    OBVIOUS
  <2>1. \A c \in Clients : program = "echo5" /\ flow[c].at = "start" =>
          heap[flow[c].cell] \in Fds /\ fds[heap[flow[c].cell]] = c
    BY DEF IInv, Owns, Stands
  <2> QED
    BY <2>1, ServesItsOwn DEF EachItsOwnConnection
<1> QED
  BY Invariance, <1>1, PTL

(* sigchld_handler forgets no child, although one signal may stand for      *)
(* several.                                                                 *)
THEOREM ChildrenReaped == Spec => []NoZombieForgotten
BY Invariance, PTL DEF IInv

-----------------------------------------------------------------------------
(* The service.                                                            *)

Used == Fds \ Free(fds)
Open == {c \in Clients : conn[c] = "open"}

\* What the service knows stays as it is.
Unseen == UNCHANGED <<conn, sent, end, echoed, up, program, nofile>>

LEMMA SameCardinality == \A S : Service!Cardinality(S) = Cardinality(S)
BY DEF Service!Cardinality, Cardinality

LEMMA SameCapacity == UNCHANGED <<program, nofile>> => UNCHANGED Capacity
BY DEF Capacity

LEMMA UnseenStutters == Unseen => UNCHANGED Service!vars
BY SameCapacity DEF Unseen, Service!vars

LEMMA CapacityType == Capacity \in Nat
<1>1. IsFiniteSet({f \in Fds : f < nofile}) /\ IsFiniteSet(Clients)
  BY NetAssumption, ProgramsAssumption, FS_Subset
<1>2. Cardinality({f \in Fds : f < nofile}) \in Nat /\ Cardinality(Clients) \in Nat
  BY <1>1, FS_CardinalityType
<1> QED
  BY <1>2 DEF Capacity

(* The connections that are open, and the descriptors in use, are equally   *)
(* many, except in echo2.                                                   *)
LEMMA AsMany ==
  ASSUME IInv, program # "echo2"
  PROVE  IsFiniteSet(Used) /\ Cardinality(Open) = Cardinality(Used)
<1> DEFINE f == [x \in Used |-> fds[x]]
<1>1. IsFiniteSet(Used)
  BY NetAssumption, FS_Subset DEF Used
<1>2. \A x \in Used : fds[x] \in Open
  BY Shapes DEF IInv, Table, Used, Open, Free
<1>3. \A c \in Open : \E x \in Used : fds[x] = c
  BY Numbers DEF IInv, Table, Used, Open, Free
<1>4. \A x, y \in Used : fds[x] = fds[y] => x = y
  BY DEF IInv, Table, Used, Free
<1>5. f \in Bijection(Used, Open)
  BY <1>2, <1>3, <1>4 DEF Bijection, Injection, Surjection, IsInjective
<1> QED
  BY <1>1, <1>5, FS_Bijection DEF ExistsBijection

(* There is room for one more connection while a descriptor is left.        *)
LEMMA RoomLeft ==
  ASSUME IInv
  PROVE  /\ Cardinality(Open) \in Nat
         /\ program = "echo2" => Cardinality(Open) < Capacity
         /\ program # "echo2" /\ Available # {} => Cardinality(Open) < Capacity
         /\ program # "echo2" /\ Available = {} => Cardinality(Open) >= Capacity
<1>1. /\ IsFiniteSet(Open) /\ Cardinality(Open) \in Nat
      /\ Cardinality(Clients) \in Nat /\ Cardinality(Open) <= Cardinality(Clients)
  BY ProgramsAssumption, FS_Subset, FS_CardinalityType DEF Open
<1>2. program = "echo2" => Cardinality(Open) < Capacity
  BY <1>1 DEF Capacity
<1>3. ASSUME program # "echo2"
      PROVE  /\ Available # {} => Cardinality(Open) < Capacity
             /\ Available = {} => Cardinality(Open) >= Capacity
  <2> DEFINE Below == {f \in Fds : f < nofile}
  <2>1. Used \subseteq Below
    BY DEF IInv, Table, Used, Free
  <2>2. IsFiniteSet(Below) /\ Capacity = Cardinality(Below)
    BY <1>3, NetAssumption, FS_Subset DEF Capacity
  <2>3. Available = Below \ Used
    BY DEF Available, Used, Free
  <2>4. IsFiniteSet(Used) /\ Cardinality(Open) = Cardinality(Used)
    BY <1>3, AsMany
  <2> HIDE DEF Below
  <2>5. /\ Cardinality(Below) \in Nat /\ Cardinality(Used) \in Nat
        /\ Cardinality(Used) <= Cardinality(Below)
        /\ Cardinality(Used) = Cardinality(Below) => Used = Below
    BY <2>1, <2>2, <2>4, FS_CardinalityType, FS_Subset
  <2>6. Available # {} => Used # Below
    BY <2>3
  <2>7. Available = {} => Used = Below
    BY <2>1, <2>3
  <2> QED
    BY <2>2, <2>4, <2>5, <2>6, <2>7
<1> QED
  BY <1>1, <1>2, <1>3

(* echo2's parent has always a descriptor left when it calls accept.        *)
LEMMA ParentHasRoom ==
  ASSUME IInv, program = "echo2", main = "accept"
  PROVE  Available # {}
<1>1. cur = Nobody
  BY DEF IInv, Places
<1>2. \A f \in Fds : fds[f] = Nobody
  BY <1>1 DEF IInv, Table
<1>3. \E f \in Fds : f < nofile
  BY ProgramsAssumption DEF IInv, Typed, ProcessTypes
<1> QED
  BY <1>2, <1>3 DEF Available, Free

LEMMA ServiceInit == Init => Service!Init
BY CapacityType DEF Init, NetInit, Service!Init

LEMMA ServiceClient ==
  ASSUME IInv, NEW c \in Clients, ClientMoves(c)
  PROVE  Service!Client(c)
<1>1. UNCHANGED <<program, nofile, up, taken, echoed>>
  BY DEF ClientMoves, ClientStep, Dial, Sends, Ends
<1>2. UNCHANGED Capacity
  BY <1>1, SameCapacity
<1> QED
  BY <1>1, <1>2 DEF ClientMoves, ClientStep, Dial, Sends, Ends, Service!Client

LEMMA ServiceMain ==
  ASSUME IInv, MainStep, UNCHANGED <<program, nofile>>
  PROVE  Service!Next \/ UNCHANGED Service!vars
<1>a. Service!Open = Open
  BY DEF Service!Open, Open
<1>b. UNCHANGED Capacity
  BY SameCapacity
<1>1. ASSUME NEW c \in Clients, Accept(c) PROVE Service!Accept(c)
  <2>1. /\ conn[c] = "backlog" /\ conn' = [conn EXCEPT ![c] = "open"] /\ up
        /\ Available # {} /\ UNCHANGED <<sent, end, taken, echoed, up>>
    BY <1>1, AcceptDoes
  <2>2. Service!Cardinality(Service!Open) < Capacity
    BY <1>a, <2>1, RoomLeft, SameCardinality
  <2> QED
    BY <1>b, <2>1, <2>2 DEF Service!Accept
<1>2. CASE AcceptFails
  <2>1. /\ up /\ main \in {"accept", "dispatch"} /\ Available = {} /\ up' = FALSE
        /\ UNCHANGED <<conn, sent, end, echoed>>
    BY <1>2 DEF AcceptFails, Accepting, MainRuns, net
  <2>2. program # "echo2"
    BY <2>1, ParentHasRoom DEF IInv, Places
  <2>3. Service!Cardinality(Service!Open) >= Capacity
    BY <1>a, <2>1, <2>2, RoomLeft, SameCardinality
  <2>4. Service!Exit
    BY <1>b, <2>1, <2>3 DEF Service!Exit
  <2> QED
    BY <2>4 DEF Service!Next
<1>3. CASE ParentCloses
  <2>1. /\ up /\ main = "close" /\ UNCHANGED <<sent, end, echoed, up>>
        /\ conn' = [conn EXCEPT ![cur] = IF InChild(cur) THEN "open" ELSE "closed"]
    BY <1>3 DEF ParentCloses, MainRuns
  <2>2. program = "echo2" /\ cur # Nobody
    BY <2>1, Shapes DEF IInv, Places
  <2>3. PICK c \in Clients : c = cur
    BY <2>2, Shapes
  <2>4. /\ conn' = [conn EXCEPT ![c] = IF InChild(c) THEN "open" ELSE "closed"]
        /\ conn[c] = "open" /\ flow[c].at # "none" /\ Far(c)
    BY <2>1, <2>2, <2>3 DEF IInv, Progress
  <2>5. CASE InChild(c)
    BY <2>1, <2>4, <2>5, Shapes, UnseenStutters DEF Unseen
  <2>6. CASE ~InChild(c)
    <3>1. flow[c].at \notin {"start", "read", "write", "close"}
      BY <2>2, <2>6 DEF IInv, Children, InChild
    <3>2. flow[c].at \in {"exit", "done"}
      BY <2>2, <2>4, <3>1, Shapes DEF IInv, Places, Flows
    <3>3. Over(c) /\ sent[c] \in Nat
      BY <2>4, <3>2, Shapes DEF Far
    <3>4. (end[c] = "eof" /\ Len(echoed[c]) = sent[c]) \/ end[c] = "reset"
      BY <3>3 DEF Over, Upto
    <3>5. Service!Close(c)
      BY <1>b, <2>1, <2>4, <2>6, <3>4 DEF Service!Close
    <3> QED
      BY <3>5 DEF Service!Next
  <2> QED
    BY <2>5, <2>6
<1>4. CASE Malloc \/ Fork \/ Create \/ Select \/ Command
  <2>1. UNCHANGED <<conn, sent, end, echoed, up>>
    BY <1>4 DEF Malloc, Fork, Create, Select, Command, net
  <2> QED
    BY <2>1, UnseenStutters DEF Unseen
<1> QED
  BY <1>1, <1>2, <1>3, <1>4 DEF MainStep, Service!Next

LEMMA ServiceFlow ==
  ASSUME IInv, NEW c \in Clients, FlowStep(c), UNCHANGED <<program, nofile>>
  PROVE  Service!Next \/ UNCHANGED Service!vars
<1>a. UNCHANGED Capacity
  BY SameCapacity
<1>b. Far(c) /\ sent[c] \in Nat /\ taken[c] \in Nat /\ taken[c] <= sent[c]
  BY Shapes DEF IInv, Progress, Typed, NetTypes
<1>c. Over(c) => (end[c] = "eof" /\ Len(echoed[c]) = sent[c]) \/ end[c] = "reset"
  BY <1>b DEF Over, Upto
<1>1. CASE Begin(c) \/ FreeCell(c)
  BY <1>1, BeginDoes, FreeCellDoes, UnseenStutters DEF Unseen
<1>2. CASE Read(c)
  BY <1>2, ReadDoes, UnseenStutters DEF Unseen
<1>3. CASE Write(c)
  <2>1. /\ flow[c].at = "write" /\ up
        /\ echoed' = [echoed EXCEPT ![c] = @ \o Halves(taken[c] - flow[c].n, taken[c])]
        /\ UNCHANGED <<conn, sent, end, taken, up>>
    BY <1>3, WriteDoes
  <2>a. flow[c].n \in 0..2
    BY Shapes DEF Flows
  <2>2. /\ flow[c].n \in Nat /\ 0 < flow[c].n /\ flow[c].n <= taken[c]
        /\ echoed[c] = Upto(taken[c] - flow[c].n) /\ conn[c] = "open"
    BY <1>b, <2>1, <2>a DEF Far
  <2>3. echoed[c] \o Halves(taken[c] - flow[c].n, taken[c]) = Upto(taken[c])
    BY <1>b, <2>2, Appended
  <2>4. echoed' = [echoed EXCEPT ![c] = [i \in 1..taken[c] |-> i]]
    BY <2>1, <2>3 DEF Upto
  <2>5. Len(echoed[c]) = taken[c] - flow[c].n
    BY <1>b, <2>2 DEF Upto
  <2>6. taken[c] \in Len(echoed[c])+1..sent[c]
    BY <1>b, <2>2, <2>5
  <2>7. Service!Echo(c)
    BY <1>a, <2>1, <2>2, <2>4, <2>6 DEF Service!Echo
  <2> QED
    BY <2>7 DEF Service!Next
<1>4. CASE Close(c)
  <2>1. /\ flow[c].at = "close" /\ up /\ conn' = [conn EXCEPT ![c] = "closed"]
        /\ UNCHANGED <<sent, end, echoed, up>>
    BY <1>4, CloseDoes
  <2>2. conn[c] = "open" /\ Over(c)
    BY <1>b, <2>1 DEF Far
  <2>3. Service!Close(c)
    BY <1>a, <1>c, <2>1, <2>2 DEF Service!Close
  <2> QED
    BY <2>3 DEF Service!Next
<1>5. CASE ChildCloses(c) \/ Fails(c)
  <2>1. /\ flow[c].at \in {"read", "write", "close"} /\ up
        /\ ~ChildCloses(c) => end[c] = "reset"
        /\ ChildCloses(c) => flow[c].at = "close"
        /\ UNCHANGED <<sent, end, echoed>>
        /\ \/ /\ UNCHANGED up
              /\ conn' = [conn EXCEPT ![c] = IF InParent(c) THEN "open" ELSE "closed"]
           \/ /\ program # "echo2" /\ up' = FALSE /\ UNCHANGED conn /\ end[c] = "reset"
    BY <1>5, EndDoes
  <2>2. conn[c] = "open"
    BY <1>b, <2>1 DEF Far
  <2>3. Over(c)
    BY <1>b, <2>1 DEF Far, Over
  <2>4. CASE /\ UNCHANGED up
             /\ conn' = [conn EXCEPT ![c] = IF InParent(c) THEN "open" ELSE "closed"]
    <3>1. CASE InParent(c)
      BY <2>1, <2>2, <2>4, <3>1, Shapes, UnseenStutters DEF Unseen
    <3>2. CASE ~InParent(c)
      <4>1. Service!Close(c)
        BY <1>a, <1>c, <2>1, <2>2, <2>3, <2>4, <3>2 DEF Service!Close
      <4> QED
        BY <4>1 DEF Service!Next
    <3> QED
      BY <3>1, <3>2
  <2>5. CASE program # "echo2" /\ up' = FALSE /\ UNCHANGED conn /\ end[c] = "reset"
    <3>1. Service!Exit
      BY <1>a, <2>1, <2>2, <2>5 DEF Service!Exit, Service!Open
    <3> QED
      BY <3>1 DEF Service!Next
  <2> QED
    BY <2>1, <2>4, <2>5
<1>6. CASE ChildExits(c)
  BY <1>6, ChildExitsDoes, UnseenStutters DEF Unseen
<1> QED
  BY <1>1, <1>2, <1>3, <1>4, <1>5, <1>6 DEF FlowStep

(* echo1, echo2, echo3 and echo5 are echo services: a client gets its lines *)
(* back, complete and in order, and its connection is closed only when it   *)
(* has hung up and has everything back or is gone; the process ends only on *)
(* account of a client that is gone, in echo2 not even then, or for want of *)
(* descriptors, in echo2 never.                                             *)
THEOREM ServiceImplemented == Spec => KeepsThePromise
<1>1. IInv /\ [Next]_vars => [Service!Next]_Service!vars
  <2> SUFFICES ASSUME IInv, [Next]_vars, UNCHANGED <<program, nofile>>
               PROVE  Service!Next \/ UNCHANGED Service!vars
    BY Fixed
  <2>1. CASE HandlerStep \/ Types \/ UNCHANGED vars
    <3>1. UNCHANGED <<conn, sent, end, echoed, up>>
      BY <2>1 DEF HandlerStep, Deliver, Reap, NoneLeft, Return, Types, vars, net
    <3> QED
      BY <3>1, UnseenStutters DEF Unseen
  <2>2. ASSUME NEW c \in Clients, ClientMoves(c) PROVE Service!Next
    BY <2>2, ServiceClient DEF Service!Next
  <2> QED
    BY <2>1, <2>2, ServiceMain, ServiceFlow DEF Next
<1> QED
  BY <1>1, ServiceInit, Invariance, PTL DEF Spec, KeepsThePromise, Service!Spec
=============================================================================
