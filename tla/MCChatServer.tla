---------------------------- MODULE MCChatServer ----------------------------
(* Model values and symmetry for checking ChatServer.                        *)
EXTENDS ChatServer, TLC

ClientSymmetry == Permutations(Clients)
=============================================================================
