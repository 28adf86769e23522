------------------------------ MODULE EchoNet -------------------------------
(***************************************************************************)
(* What the echo servers under csapp/echo stand on and the repository does *)
(* not hold: the sockets of the kernel, and the wrappers that csapp.h      *)
(* declares.  The servers look at no error code: a wrapper that fails      *)
(* ends the process (unix_error).                                          *)
(*                                                                         *)
(* A line is two halves, since TCP may deliver it in pieces: client c has  *)
(* written the halves 1..sent[c], an even one ends with the newline.       *)
(***************************************************************************)
EXTENDS Integers, Sequences, FiniteSets, FiniteSetsExt

CONSTANTS
  Clients,   \* connections; a client connects once
  Nobody,    \* no client
  MaxLines,  \* how many lines a client may send (bound)
  Fds        \* the descriptors a process has left for connections

ASSUME NetAssumption ==
  /\ Nobody \notin Clients
  /\ MaxLines \in Nat
  /\ Fds \subseteq Nat \ {0} /\ IsFiniteSet(Fds)

VARIABLES
  conn,    \* per client: "none", "backlog", "open" or "closed" (by the server)
  sent,    \* per client: the halves it has written
  end,     \* per client: "no", "eof" (it hung up) or "reset" (it is gone)
  taken,   \* per client: the halves read from its socket
  echoed   \* per client: the halves written back to it, in this order

net == <<conn, sent, end, taken, echoed>>

NetInit ==
  /\ conn = [c \in Clients |-> "none"]
  /\ sent = [c \in Clients |-> 0]
  /\ end = [c \in Clients |-> "no"]
  /\ taken = [c \in Clients |-> 0]
  /\ echoed = [c \in Clients |-> <<>>]

-----------------------------------------------------------------------------
(* The clients.                                                            *)

Dial(c) ==
  /\ conn[c] = "none"
  /\ conn' = [conn EXCEPT ![c] = "backlog"]
  /\ UNCHANGED <<sent, end, taken, echoed>>

Sends(c) ==
  /\ conn[c] \in {"backlog", "open"} /\ end[c] = "no" /\ sent[c] < 2 * MaxLines
  /\ sent' = [sent EXCEPT ![c] = @ + 1]
  /\ UNCHANGED <<conn, end, taken, echoed>>

\* A client that hangs up may do so in the middle of a line.  One that has
\* closed its socket answers what still comes with a reset.
Ends(c) ==
  /\ conn[c] \in {"backlog", "open"}
  /\ \/ end[c] = "no" /\ end' = [end EXCEPT ![c] = "eof"]
     \/ end[c] # "reset" /\ end' = [end EXCEPT ![c] = "reset"]
  /\ UNCHANGED <<conn, sent, taken, echoed>>

ClientStep(c) == Dial(c) \/ Sends(c) \/ Ends(c)

-----------------------------------------------------------------------------
(* Descriptors, and Rio_readlineb.                                         *)

Backlog == {c \in Clients : conn[c] = "backlog"}

\* A table of descriptors says which connection each of them stands for.
NoFds == [f \in Fds |-> Nobody]
Free(table) == {f \in Fds : table[f] = Nobody}

\* The halves up to the end of the line that a reader has begun.
LineEnd(c) == 2 * (taken[c] \div 2 + 1)

\* How many halves Rio_readlineb returns: a line, or at end of file what is
\* left, perhaps nothing.  No result as long as it has to wait.
LineResults(c) ==
  IF sent[c] >= LineEnd(c) THEN {LineEnd(c) - taken[c]}
  ELSE IF end[c] = "eof" THEN {sent[c] - taken[c]} ELSE {}

\* Reads and writes fail once the peer is gone.
Broken(c) == end[c] = "reset"

Halves(lo, hi) == [i \in 1..(hi - lo) |-> lo + i]

NetTypeOK ==
  /\ conn \in [Clients -> {"none", "backlog", "open", "closed"}]
  /\ sent \in [Clients -> 0..(2 * MaxLines)]
  /\ end \in [Clients -> {"no", "eof", "reset"}]
  /\ taken \in [Clients -> 0..(2 * MaxLines)]
  /\ echoed \in [Clients -> Seq(1..(2 * MaxLines))]
=============================================================================
