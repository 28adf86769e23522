----------------------------- MODULE MCTinyWeb ------------------------------
(* Model values for checking TinyWeb.                                        *)
EXTENDS TinyWeb

\* A directory; a file; a file with a query; a program with two question
\* marks; a program without; and a page whose query names cgi-bin.
MCUris ==
  { <<"/">>, <<"/", "b", ".gif">>, <<"/", "c", "?", "1">>,
    <<"/", "cgi-bin", "/", "adder", "?", "1", "?", "2">>,
    <<"/", "cgi-bin", "/">>, <<"/", "a", ".html", "?", "cgi-bin">> }
=============================================================================
