--------------------------- MODULE MCEchoServers ----------------------------
(* Model values for checking EchoServers.                                    *)
EXTENDS EchoServers
=============================================================================
