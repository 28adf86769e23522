----------------------------- MODULE ChatServer -----------------------------
(***************************************************************************)
(* The chat server of chatserver/server/tcp_server.go.                     *)
(*                                                                         *)
(* One goroutine accepts connections, one goroutine per connection reads   *)
(* its commands, and every SEND command starts one more goroutine that     *)
(* writes the message to every registered client.  The registry is the Go  *)
(* slice s.clients: accept and remove change it under s.mutex, Broadcast   *)
(* walks it without.  It is modelled as what it is, backing arrays (heap)  *)
(* and a header (ptr, len), stored word by word by the holder of the mutex *)
(* and loaded word by word by the broadcasts.                              *)
(*                                                                         *)
(* A connection is, as the code uses it, an ordered stream of commands     *)
(* that ends with EOF or with one error and then EOF, and takes a bounded  *)
(* amount of output (Window) that its peer has not read.                   *)
(***************************************************************************)
EXTENDS Integers, Sequences, FiniteSets

CONSTANTS
  Clients,   \* the connections a run may see
  Names,     \* the display names clients choose from
  Nil,       \* the nil *client of an array slot nothing was stored in
  MaxCmds,   \* bound: commands all clients send in one run
  Window     \* messages a connection takes before its peer must read (0: full)

NoName == "noname"  \* the zero value of client.name

ASSUME ChatAssumption ==
  /\ Nil \notin Clients
  /\ {"nobody", "acceptor"} \cap Clients = {}
  /\ MaxCmds \in Nat
  /\ Window \in Nat

VARIABLES
  listener,  \* s.listener: "none" before Listen, "failed", "open", "closed"
  mutex,     \* who holds s.mutex: "nobody", "acceptor" or a connection
  heap,      \* every backing array s.clients has had, oldest first
  ptr, len,  \* the header of s.clients: which array, how many of its slots
  phase,     \* per connection: where it is in accept, serve and remove
  scan,      \* remove: the range loop's copy of the header, the index it is
             \* at, and the slot that is to be overwritten next
  name,      \* client.name
  bc,        \* the broadcast goroutines, in the order they were started
  peer,      \* per connection: "none", "open", "closed" or "reset"
  inbox,     \* per connection: commands sent and not read yet
  chosen,    \* per connection: the last name its peer asked for (ghost)
  cmds,      \* commands sent so far
  got,       \* per connection: the broadcasts written to it, in order
  unread,    \* per connection: how many of those its peer has not read
  fault      \* the process has died on a nil or wild pointer

slice == <<heap, ptr, len>>
net == <<peer, inbox, chosen, cmds, got, unread>>
vars == <<listener, mutex, slice, phase, scan, name, bc, net, fault>>

Registering == {"accepted", "grow", "len", "elem", "joined"}  \* Start is in accept
Removing == {"scan", "shift", "rescan", "closing"}

Array == heap[ptr]

\* The clients that s.clients stands for: registered, and not yet being
\* overwritten by their own remove.
Present == {c \in Clients : phase[c] \in {"joined", "serving", "leaving", "scan"}}

\* The slots that stand for them.  While a remove shifts, the slot it is to
\* overwrite next is spoken for; once append has stored the new length and
\* not yet the element, the last slot is.
Live == (1..len) \ (IF \E c \in Clients : phase[c] = "shift" THEN {scan.gap}
                    ELSE IF \E c \in Clients : phase[c] = "elem" THEN {len}
                    ELSE {})

NoScan == [ptr |-> 0, len |-> 0, at |-> 1, gap |-> 0]  \* no remove is running

Init ==
  /\ listener = "none" /\ mutex = "nobody"
  /\ heap = << <<>> >> /\ ptr = 1 /\ len = 0
  /\ phase = [c \in Clients |-> "none"]
  /\ scan = NoScan
  /\ name = [c \in Clients |-> NoName] /\ bc = <<>>
  /\ peer = [c \in Clients |-> "none"]
  /\ inbox = [c \in Clients |-> <<>>]
  /\ chosen = [c \in Clients |-> NoName] /\ cmds = 0
  /\ got = [c \in Clients |-> <<>>] /\ unread = [c \in Clients |-> 0]
  /\ fault = FALSE

\* What s.mutex.Lock waits for.  The mutants drop the mutex, or hold it in
\* Broadcast too.
MutNoMutex == TRUE
MutBroadcastHoldsMutex ==
  mutex = "nobody" /\ \A b \in DOMAIN bc : bc[b].pc \notin {"fetch", "write"}
Unlocked == mutex = "nobody"

Goto(c, p) == phase' = [phase EXCEPT ![c] = p]

-----------------------------------------------------------------------------
(* The remote ends.                                                        *)

Dial(c) ==
  /\ phase[c] = "none" /\ listener = "open"
  /\ Goto(c, "backlog")
  /\ peer' = [peer EXCEPT ![c] = "open"]
  /\ UNCHANGED <<listener, mutex, slice, scan, name, bc, inbox, chosen, cmds,
                 got, unread, fault>>

\* A command goes on the wire.  "BAD" is anything the server reads and
\* ignores: an unknown command, or a MESSAGE.  The name of a SEND is a ghost,
\* what its sender is called in its own view.
Command(c, cmd) ==
  /\ inbox' = [inbox EXCEPT ![c] = Append(@, cmd)]
  /\ chosen' = [chosen EXCEPT ![c] = IF cmd.op = "NAME" THEN cmd.name ELSE @]

PeerSends(c) ==
  /\ peer[c] = "open" /\ cmds < MaxCmds
  /\ cmds' = cmds + 1
  /\ \/ Command(c, [op |-> "SEND", name |-> chosen[c]])
     \/ \E n \in Names : Command(c, [op |-> "NAME", name |-> n])
     \/ Command(c, [op |-> "BAD", name |-> NoName])
  /\ UNCHANGED <<listener, mutex, slice, phase, scan, name, bc, peer, got,
                 unread, fault>>

PeerReads(c) ==
  /\ peer[c] = "open" /\ unread[c] > 0
  /\ unread' = [unread EXCEPT ![c] = @ - 1]
  /\ UNCHANGED <<listener, mutex, slice, phase, scan, name, bc, peer, inbox,
                 chosen, cmds, got, fault>>

\* The connection ends cleanly: what was sent is still there to read.  Or it
\* breaks: what was not read is lost, and a read fails before EOF is seen.
PeerLeaves(c) ==
  /\ peer[c] = "open"
  /\ \/ /\ peer' = [peer EXCEPT ![c] = "closed"]
        /\ UNCHANGED inbox
     \/ /\ peer' = [peer EXCEPT ![c] = "reset"]
        /\ inbox' = [inbox EXCEPT ![c] = <<>>]
  /\ UNCHANGED <<listener, mutex, slice, phase, scan, name, bc, chosen, cmds,
                 got, unread, fault>>

-----------------------------------------------------------------------------
(* main and the Start goroutine.                                           *)

\* main ignores the error of Listen, which leaves the listener nil.
Listen ==
  /\ listener = "none"
  /\ listener' \in {"open", "failed"}
  /\ UNCHANGED <<mutex, slice, phase, scan, name, bc, net, fault>>

AcceptOnNil ==
  /\ listener = "failed"
  /\ fault' = TRUE
  /\ UNCHANGED <<listener, mutex, slice, phase, scan, name, bc, net>>

\* From here on every Accept fails, and Start logs the error and retries.
Close ==
  /\ listener = "open"
  /\ listener' = "closed"
  /\ UNCHANGED <<mutex, slice, phase, scan, name, bc, net, fault>>

Accept(c) ==
  /\ listener = "open" /\ phase[c] = "backlog"
  /\ \A d \in Clients : phase[d] \notin Registering
  /\ Goto(c, "accepted")
  /\ UNCHANGED <<listener, mutex, slice, scan, name, bc, net, fault>>

\* accept locks, and appends: a full array is first replaced by a larger one.
AcceptLock(c) ==
  /\ phase[c] = "accepted" /\ Unlocked
  /\ mutex' = "acceptor"
  /\ Goto(c, IF len = Len(Array) THEN "grow" ELSE "len")
  /\ UNCHANGED <<listener, slice, scan, name, bc, net, fault>>

\* Ghosts: the registry changes while these broadcasts are under way.
Active(b) == bc[b].pc # "done"
MarkJoin == bc' = [b \in DOMAIN bc |-> [bc[b] EXCEPT !.join = @ \/ Active(b)]]
MarkLeave == bc' = [b \in DOMAIN bc |-> [bc[b] EXCEPT !.leave = @ \/ Active(b)]]

\* The larger array append copies to.  The mutant doubles zero.
MutDoubled(a) == [i \in 1..2 * Len(a) |-> IF i <= Len(a) THEN a[i] ELSE Nil]
Grown(a) == [i \in 1..(IF a = <<>> THEN 1 ELSE 2 * Len(a)) |->
               IF i <= Len(a) THEN a[i] ELSE Nil]

AppendPtr(c) ==
  /\ phase[c] = "grow"
  /\ heap' = Append(heap, Grown(Array)) /\ ptr' = Len(heap) + 1
  /\ Goto(c, "len") /\ MarkJoin
  /\ UNCHANGED <<listener, mutex, len, scan, name, net, fault>>

AppendLen(c) ==
  /\ phase[c] = "len"
  /\ len' = len + 1
  /\ Goto(c, "elem") /\ MarkJoin
  /\ UNCHANGED <<listener, mutex, heap, ptr, scan, name, net, fault>>

AppendElem(c) ==
  /\ phase[c] = "elem"
  /\ heap' = [heap EXCEPT ![ptr] = [@ EXCEPT ![len] = c]]
  /\ Goto(c, "joined") /\ MarkJoin
  /\ UNCHANGED <<listener, mutex, ptr, len, scan, name, net, fault>>

\* accept returns, which unlocks, and Start starts the serve goroutine.
AcceptUnlock(c) ==
  /\ phase[c] = "joined"
  /\ mutex' = "nobody"
  /\ Goto(c, "serving")
  /\ UNCHANGED <<listener, slice, scan, name, bc, net, fault>>

-----------------------------------------------------------------------------
(* The serve goroutine of a connection.                                    *)

\* go s.Broadcast(...): serve evaluates the arguments, so the message carries
\* the name of now.  asked, snap, join and leave are ghosts.
NewBroadcast(c, cmd) ==
  [pc |-> "load", ptr |-> 0, len |-> -1, at |-> 1, to |-> Nil, name |-> name[c],
   asked |-> cmd.name, snap |-> Present,
   join |-> \E d \in Clients : phase[d] \in {"len", "elem"},
   leave |-> \E d \in Clients : phase[d] = "shift"]

MutNotRenamed(c, cmd) == name[c]
Renamed(c, cmd) == IF cmd.op = "NAME" THEN cmd.name ELSE name[c]

ServeCommand(c) ==
  /\ phase[c] = "serving" /\ inbox[c] # <<>>
  /\ LET cmd == Head(inbox[c]) IN
       /\ bc' = IF cmd.op = "SEND" THEN Append(bc, NewBroadcast(c, cmd)) ELSE bc
       /\ name' = [name EXCEPT ![c] = Renamed(c, cmd)]
  /\ inbox' = [inbox EXCEPT ![c] = Tail(@)]
  /\ UNCHANGED <<listener, mutex, slice, phase, scan, peer, chosen, cmds, got,
                 unread, fault>>

\* An error other than EOF is logged, and the loop goes on.
ServeError(c) ==
  /\ phase[c] = "serving" /\ peer[c] = "reset"
  /\ peer' = [peer EXCEPT ![c] = "closed"]
  /\ UNCHANGED <<listener, mutex, slice, phase, scan, name, bc, inbox, chosen,
                 cmds, got, unread, fault>>

\* EOF ends the loop, and the deferred remove begins.
ServeEOF(c) ==
  /\ phase[c] = "serving" /\ peer[c] = "closed" /\ inbox[c] = <<>>
  /\ Goto(c, "leaving")
  /\ UNCHANGED <<listener, mutex, slice, scan, name, bc, net, fault>>

RemoveLock(c) ==
  /\ phase[c] = "leaving" /\ Unlocked
  /\ mutex' = c
  /\ scan' = [ptr |-> ptr, len |-> len, at |-> 1, gap |-> 0]
  /\ Goto(c, "scan")
  /\ UNCHANGED <<listener, slice, name, bc, net, fault>>

\* The range loop walks the header it copied when it began, over slots that
\* remove itself shifts, and does not stop at a match.
Hits(c) == {i \in scan.at..scan.len : heap[scan.ptr][i] = c}

RemoveMatch(c) ==
  /\ phase[c] \in {"scan", "rescan"}
  /\ \E i \in Hits(c) :
       /\ \A j \in Hits(c) : i <= j
       /\ scan' = [scan EXCEPT !.at = i + 1, !.gap = i]
  /\ Goto(c, "shift")
  /\ UNCHANGED <<listener, mutex, slice, name, bc, net, fault>>

\* append(s.clients[:i], s.clients[i+1:]...) moves the tail down slot by slot
\* and then stores the shorter length.
RemoveShift(c) ==
  /\ phase[c] = "shift" /\ scan.gap < len
  /\ heap' = [heap EXCEPT ![ptr] = [@ EXCEPT ![scan.gap] = Array[scan.gap + 1]]]
  /\ scan' = [scan EXCEPT !.gap = @ + 1]
  /\ MarkLeave
  /\ UNCHANGED <<listener, mutex, ptr, len, phase, name, net, fault>>

\* Mutant: the slot that falls off the end is set to nil, as slices.Delete does.
MutTrimZeroes(c) ==
  /\ phase[c] = "shift" /\ scan.gap = len
  /\ heap' = [heap EXCEPT ![ptr] = [@ EXCEPT ![len] = Nil]]
  /\ len' = len - 1
  /\ Goto(c, "rescan") /\ MarkLeave
  /\ UNCHANGED <<listener, mutex, ptr, scan, name, net, fault>>

RemoveTrim(c) ==
  /\ phase[c] = "shift" /\ scan.gap = len
  /\ len' = len - 1
  /\ Goto(c, "rescan") /\ MarkLeave
  /\ UNCHANGED <<listener, mutex, heap, ptr, scan, name, net, fault>>

RemoveDone(c) ==
  /\ phase[c] \in {"scan", "rescan"} /\ Hits(c) = {}
  /\ scan' = NoScan
  /\ Goto(c, "closing")
  /\ UNCHANGED <<listener, mutex, slice, name, bc, net, fault>>

\* The connection is closed and the deferred unlock runs.
RemoveClose(c) ==
  /\ phase[c] = "closing"
  /\ Goto(c, "gone") /\ mutex' = "nobody"
  /\ UNCHANGED <<listener, slice, scan, name, bc, net, fault>>

-----------------------------------------------------------------------------
(* A broadcast goroutine.  It takes no lock.                               *)

\* range s.clients loads the two words of the header, in either order.
Loaded(r) == [r EXCEPT !.pc = IF r.ptr # 0 /\ r.len # -1 THEN "fetch" ELSE "load"]

BroadcastLoad(b) ==
  /\ bc[b].pc = "load"
  /\ \/ /\ bc[b].ptr = 0
        /\ bc' = [bc EXCEPT ![b] = Loaded([@ EXCEPT !.ptr = ptr])]
     \/ /\ bc[b].len = -1
        /\ bc' = [bc EXCEPT ![b] = Loaded([@ EXCEPT !.len = len])]
  /\ UNCHANGED <<listener, mutex, slice, phase, scan, name, net, fault>>

\* The range loop is over its copy of the header.
MutExhaustedEarly(b) == bc[b].at >= bc[b].len
MutExhaustedLate(b) == bc[b].at > bc[b].len + 1
Exhausted(b) == bc[b].at > bc[b].len

\* The slot the loop is at.  Past the end of the array there is no slot.
Slot(b) == IF bc[b].at \in DOMAIN heap[bc[b].ptr] THEN heap[bc[b].ptr][bc[b].at] ELSE Nil

\* Load a slot; the goroutine now holds that *client.
BroadcastFetch(b) ==
  /\ bc[b].pc = "fetch" /\ ~Exhausted(b)
  /\ IF Slot(b) = Nil
     THEN fault' = TRUE /\ UNCHANGED bc
     ELSE /\ bc' = [bc EXCEPT ![b].pc = "write", ![b].to = Slot(b)]
          /\ UNCHANGED fault
  /\ UNCHANGED <<listener, mutex, slice, phase, scan, name, net>>

\* Write the message: to a connection whose peer has left nothing arrives, and
\* the error is dropped; otherwise Write blocks until there is room.
BroadcastWrite(b) ==
  /\ bc[b].pc = "write"
  /\ LET c == bc[b].to IN
       \/ /\ peer[c] # "open"
          /\ UNCHANGED <<got, unread>>
       \/ /\ peer[c] = "open" /\ unread[c] < Window
          /\ got' = [got EXCEPT ![c] = Append(@, b)]
          /\ unread' = [unread EXCEPT ![c] = @ + 1]
  /\ bc' = [bc EXCEPT ![b].pc = "fetch", ![b].at = @ + 1, ![b].to = Nil]
  /\ UNCHANGED <<listener, mutex, slice, phase, scan, name, peer, inbox, chosen,
                 cmds, fault>>

BroadcastDone(b) ==
  /\ bc[b].pc = "fetch" /\ Exhausted(b)
  /\ bc' = [bc EXCEPT ![b].pc = "done", ![b].ptr = 0, ![b].len = -1, ![b].at = 1]
  /\ UNCHANGED <<listener, mutex, slice, phase, scan, name, net, fault>>

-----------------------------------------------------------------------------

PeerStep(c) == ~fault /\ (Dial(c) \/ PeerSends(c) \/ PeerReads(c) \/ PeerLeaves(c))

StartStep ==
  /\ ~fault
  /\ \/ Listen \/ AcceptOnNil
     \/ \E c \in Clients : \/ Accept(c) \/ AcceptLock(c) \/ AppendPtr(c)
                           \/ AppendLen(c) \/ AppendElem(c) \/ AcceptUnlock(c)

ServeStep(c) ==
  /\ ~fault
  /\ \/ ServeCommand(c) \/ ServeError(c) \/ ServeEOF(c)
     \/ RemoveLock(c) \/ RemoveMatch(c) \/ RemoveShift(c) \/ RemoveTrim(c)
     \/ RemoveDone(c) \/ RemoveClose(c)

BroadcastStep(b) ==
  /\ ~fault
  /\ BroadcastLoad(b) \/ BroadcastFetch(b) \/ BroadcastWrite(b) \/ BroadcastDone(b)

Next ==
  \/ \E c \in Clients : PeerStep(c)
  \/ ~fault /\ Close
  \/ StartStep
  \/ \E c \in Clients : ServeStep(c)
  \/ \E b \in DOMAIN bc : BroadcastStep(b)

Spec == Init /\ [][Next]_vars

\* Every goroutine that can run does: the Go scheduler is preemptive, and its
\* mutex hands itself to the longest waiter.  The peers owe nothing.
FairServer ==
  /\ WF_vars(StartStep)
  /\ \A c \in Clients : WF_vars(ServeStep(c))
  /\ \A b \in 1..MaxCmds : WF_vars(b \in DOMAIN bc /\ BroadcastStep(b))

FairSpec == Spec /\ FairServer

-----------------------------------------------------------------------------
Phases == {"none", "backlog", "serving", "leaving", "gone"} \cup Registering \cup Removing

Broadcasts ==
  [pc : {"load", "fetch", "write", "done"}, ptr : Nat, len : Nat \cup {-1}, at : Nat,
   to : Clients \cup {Nil}, name : Names \cup {NoName},
   asked : Names \cup {NoName}, snap : SUBSET Clients,
   join : BOOLEAN, leave : BOOLEAN]

Commands == [op : {"SEND", "NAME", "BAD"}, name : Names \cup {NoName}]

\* Type invariant: every variable holds a value of its kind, the header of
\* s.clients points into an existing array and its length is within capacity.
TypeOK ==
  /\ listener \in {"none", "failed", "open", "closed"}
  /\ mutex \in Clients \cup {"nobody", "acceptor"}
  /\ heap \in Seq(Seq(Clients \cup {Nil}))
  /\ ptr \in DOMAIN heap /\ len \in 0..Len(heap[ptr])
  /\ phase \in [Clients -> Phases]
  /\ scan \in [ptr : Nat, len : Nat, at : Nat, gap : Nat]
  /\ name \in [Clients -> Names \cup {NoName}]
  /\ bc \in Seq(Broadcasts)
  /\ peer \in [Clients -> {"none", "open", "closed", "reset"}]
  /\ inbox \in [Clients -> Seq(Commands)]
  /\ chosen \in [Clients -> Names \cup {NoName}]
  /\ cmds \in 0..MaxCmds
  /\ got \in [Clients -> Seq(DOMAIN bc)]
  /\ unread \in [Clients -> 0..Window]
  /\ fault \in BOOLEAN

\* The registry is exact: the live slots of s.clients hold every registered
\* client, each in one slot, and nobody else, at every step of accept's append
\* and of remove's shift, although remove goes on scanning the slots it has
\* shifted.  With the mutex free every slot is live.
RegistryExact ==
  /\ \A i \in Live : Array[i] \in Present
  /\ \A i, j \in Live : Array[i] = Array[j] => i = j
  /\ \A c \in Present : \E i \in Live : Array[i] = c

Count(c, b) == Cardinality({j \in DOMAIN got[c] : got[c][j] = b})

\* Joins lose no message: a broadcast that no remove has overlapped reaches
\* every client registered when it started, and still connected, however
\* accept reallocated and extended the slice under it.  It may reach one of
\* them twice: append stores the new length before the element, so the last
\* slot can still hold what an earlier remove left behind.
JoinsLoseNothing ==
  \A b \in DOMAIN bc :
    bc[b].pc = "done" /\ ~bc[b].leave =>
      \A c \in bc[b].snap : peer[c] = "open" => Count(c, b) >= 1

\* A broadcast that met neither a join nor a leave is exact: once to every
\* connected client that was registered, and to nobody else.
QuietBroadcastIsExact ==
  \A b \in DOMAIN bc :
    bc[b].pc = "done" /\ ~bc[b].leave /\ ~bc[b].join =>
      /\ \A c \in bc[b].snap : peer[c] = "open" => Count(c, b) = 1
      /\ \A c \in Clients \ bc[b].snap : Count(c, b) = 0

\* A client is never shown a message under a name its sender had not chosen
\* when it sent it: NAME and SEND take effect in the order they were sent, and
\* the name is read by serve before the broadcast is started.
NameIsSendersChoice == \A b \in DOMAIN bc : bc[b].name = bc[b].asked

\* A broadcast faults only on a half-done append: one that met no accept in
\* its critical section never loads a nil or a missing slot, whatever removes
\* do to the array it walks.
FaultNeedsJoin ==
  fault => \/ listener = "failed"
           \/ \E b \in DOMAIN bc : bc[b].join

\* The README's claim, "Server will send the following command to all clients
\* when there are new message": every client registered when the message came
\* in, and still connected when its broadcast is over, was sent it.
BroadcastReachesAll ==
  \A b \in DOMAIN bc : bc[b].pc = "done" =>
    \A c \in bc[b].snap : peer[c] = "open" => Count(c, b) >= 1

\* A client whose connection ends is unregistered and its connection closed,
\* even if another client has stopped reading and broadcasts hang on it.
LeaversAreRemoved ==
  \A c \in Clients :
    phase[c] = "serving" /\ peer[c] # "open" ~> phase[c] = "gone" \/ fault
=============================================================================
