----------------------------- MODULE MCEchoPool -----------------------------
(* Checks the two servers that wait for events, EchoPool and EpollServer.    *)
(* They have nothing in common, so a behaviour is one of the one or of the   *)
(* other: `runs` says which program was started, and the variables of the    *)
(* other keep their initial values.                                          *)
EXTENDS EchoPool

CONSTANTS Callers, Limits, MAX_EVENTS

VARIABLES runs, pc, got, tcp_conn, flight, inq, took, tcp_end, answer, rst, up, in,
          nofile, ep_fds, watched, ready, events, client_fd

epollvars ==
  <<pc, got, tcp_conn, flight, inq, took, tcp_end, answer, rst, up, in, nofile, ep_fds,
    watched, ready, events, client_fd>>

\* EpollServer comes with what is proved about it.
Epoll == INSTANCE EpollServerProofs WITH
  Clients <- Callers, conn <- tcp_conn, end <- tcp_end, at <- in, fds <- ep_fds

ASSUME EpollHolds == Epoll!EpollAssumption

MCInit ==
  /\ runs \in {"echo4", "epoll"}
  /\ Init /\ Epoll!Init
  /\ runs = "echo4" => nofile = Min(Limits)

Echo(A) == runs = "echo4" /\ A /\ UNCHANGED <<runs, epollvars>>
Ep(A) == runs = "epoll" /\ A /\ UNCHANGED <<runs, vars>>

all == <<vars, runs, epollvars>>

MCSpec ==
  /\ MCInit /\ [][Echo(Next) \/ Ep(Epoll!Next)]_all
  /\ WF_all(Echo(ServerStep)) /\ WF_all(Ep(Epoll!ServerStep))
  /\ \A c \in Callers : WF_all(Ep(Epoll!ClientStep(c)))

\* Types: what the variables of both programs hold.
TypesOK == TypeOK /\ Epoll!TypeOK

\* The properties of EpollServer: events, edges, answers.
EventsAreCurrent == Epoll!EventsAreCurrent
NoEdgeIsLost == Epoll!NoEdgeIsLost
EverybodyIsAnswered == Epoll!EverybodyIsAnswered
=============================================================================
