---------------------------- MODULE EchoService -----------------------------
(***************************************************************************)
(* What an echo server promises: a client gets back what it sent, in this  *)
(* order, and its connection is closed after it has hung up and has got    *)
(* everything back, or when it is gone.  The server ends only when it      *)
(* works for a client that is gone, and then only if one client can take   *)
(* it along (Shared), or when it holds as many connections as it can.      *)
(***************************************************************************)
EXTENDS Integers, Sequences, FiniteSets

CONSTANTS Clients

VARIABLES
  conn, sent, end, echoed, up,
  shared,  \* one process works for all clients; it never changes
  maxOpen  \* how many connections the server can hold; it never changes

vars == <<conn, sent, end, echoed, up, shared, maxOpen>>

Init ==
  /\ conn = [c \in Clients |-> "none"]
  /\ sent = [c \in Clients |-> 0]
  /\ end = [c \in Clients |-> "no"]
  /\ echoed = [c \in Clients |-> <<>>]
  /\ up = TRUE /\ shared \in BOOLEAN /\ maxOpen \in Nat

Open == {c \in Clients : conn[c] = "open"}

Client(c) ==
  /\ \/ conn[c] = "none" /\ conn' = [conn EXCEPT ![c] = "backlog"]
        /\ UNCHANGED <<sent, end>>
     \/ conn[c] \in {"backlog", "open"} /\ end[c] = "no"
        /\ sent' = [sent EXCEPT ![c] = @ + 1]
        /\ UNCHANGED <<conn, end>>
     \/ conn[c] \in {"backlog", "open"} /\ end[c] # "reset"
        /\ \E e \in {"eof", "reset"} : end' = [end EXCEPT ![c] = e]
        /\ UNCHANGED <<conn, sent>>
  /\ UNCHANGED <<echoed, up, shared, maxOpen>>

Accept(c) ==
  /\ up /\ conn[c] = "backlog" /\ Cardinality(Open) < maxOpen
  /\ conn' = [conn EXCEPT ![c] = "open"]
  /\ UNCHANGED <<sent, end, echoed, up, shared, maxOpen>>

Echo(c) ==
  /\ up /\ conn[c] = "open"
  /\ \E n \in Len(echoed[c])+1..sent[c] :
       echoed' = [echoed EXCEPT ![c] = [i \in 1..n |-> i]]
  /\ UNCHANGED <<conn, sent, end, up, shared, maxOpen>>

Close(c) ==
  /\ up /\ conn[c] = "open"
  /\ \/ end[c] = "eof" /\ Len(echoed[c]) = sent[c]
     \/ end[c] = "reset"
  /\ conn' = [conn EXCEPT ![c] = "closed"]
  /\ UNCHANGED <<sent, end, echoed, up, shared, maxOpen>>

Exit ==
  /\ up
  /\ \/ shared /\ \E c \in Open : end[c] = "reset"
     \/ Cardinality(Open) >= maxOpen
  /\ up' = FALSE
  /\ UNCHANGED <<conn, sent, end, echoed, shared, maxOpen>>

Next ==
  \/ \E c \in Clients : Client(c) \/ Accept(c) \/ Echo(c) \/ Close(c)
  \/ Exit

Spec == Init /\ [][Next]_vars
=============================================================================
