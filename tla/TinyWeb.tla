------------------------------ MODULE TinyWeb -------------------------------
(***************************************************************************)
(* The TINY web server, csapp/charpter11/tinyweb.c: one connection at a    *)
(* time, one request on each of them.                                      *)
(*                                                                         *)
(* A URI is a sequence of tokens, and so are the file names made of it.    *)
(* Clients, other users of the files and CGI programs go their own way     *)
(* between any two steps.  The wrappers of csapp.h end the process that    *)
(* calls them when they fail.                                              *)
(***************************************************************************)
EXTENDS Integers, Sequences, FiniteSets, SequencesExt

CONSTANTS
  Uris,      \* what clients ask for
  Sizes,     \* the sizes a file may have
  INT_MAX    \* the largest int, 2^31 - 1; scaled down

ASSUME TinyAssumption ==
  /\ Sizes \subseteq Nat /\ INT_MAX \in Nat
  /\ \A u \in Uris : Len(u) > 0

Methods == {"GET", "other"}

\* What stat can say of a name.  r and x are the owner's bits, may is whether
\* the server is allowed what it needs: they need not agree.
NoFile == [kind |-> "none", r |-> FALSE, x |-> FALSE, may |-> FALSE, size |-> 0]
Files ==
  [kind : {"regular", "other"}, r : BOOLEAN, x : BOOLEAN, may : BOOLEAN, size : Sizes]
    \cup {NoFile}

VARIABLES
  up,        \* the server runs
  buffered,  \* stdout is not a terminal: printf leaves its text in a buffer
  sprintf,   \* "appends" or "restarts": sprintf(buf, "%s...", buf) is undefined
  at,        \* where the server is
  connfd,    \* it is open
  input,     \* what the client has sent: "", "line" or "all"; "eof" if it hung up
             \* before the end of the headers, at "line" or before
  gone,      \* the client has reset the connection
  asked,     \* the request the client makes, its method and its URI
  method, uri, is_static, filename, cgiargs,  \* doit's variables
  sbuf,      \* what stat has said of filename
  file,      \* what it would say now
  errnum,    \* the status of the response
  length,    \* its Content-length
  filetype,
  srcfd, mapped, child,  \* open descriptor, bytes mapped, CGI child
  out,       \* what the client has been sent, in this order
  bytes      \* the bytes of it that are a file's

world == <<up, buffered, sprintf>>
client == <<input, gone, asked>>
request == <<method, uri, is_static, filename, cgiargs>>
held == <<connfd, srcfd, mapped, child>>
response == <<errnum, length, filetype, out, bytes>>
vars == <<world, at, client, request, sbuf, file, held, response>>

NoRequest == [method |-> "other", uri |-> <<>>]

Init ==
  /\ up = TRUE /\ buffered \in BOOLEAN /\ sprintf \in {"appends", "restarts"}
  /\ at = "accept" /\ connfd = FALSE
  /\ input = "" /\ gone = FALSE /\ asked = NoRequest
  /\ method = "other" /\ uri = <<>> /\ is_static = FALSE /\ filename = <<>> /\ cgiargs = <<>>
  /\ sbuf = NoFile /\ file = NoFile
  /\ errnum = 0 /\ length = 0 /\ filetype = "" /\ out = <<>> /\ bytes = 0
  /\ srcfd = FALSE /\ mapped = 0 /\ child = "none"

-----------------------------------------------------------------------------
(* The client, and others who use the files.                               *)

Asks ==
  /\ connfd /\ ~gone /\ input \in {"", "line"}
  /\ \E e \in {"eof", IF input = "" THEN "line" ELSE "all"} :
       input' = IF e = "eof" /\ input = "line" THEN "line eof" ELSE e
  /\ UNCHANGED <<world, at, gone, asked, request, sbuf, file, held, response>>

Vanishes ==
  /\ connfd /\ ~gone
  /\ gone' = TRUE
  /\ UNCHANGED <<world, at, input, asked, request, sbuf, file, held, response>>

\* The file is removed, protected or truncated.
FileChanges ==
  /\ up /\ file.kind = "regular" /\ at # "accept"
  /\ \/ file' = NoFile
     \/ file' = [file EXCEPT !.may = FALSE]
     \/ \E s \in Sizes : s < file.size /\ file' = [file EXCEPT !.size = s]
  /\ UNCHANGED <<world, at, client, request, sbuf, held, response>>

-----------------------------------------------------------------------------
(* main and doit.                                                          *)

\* unix_error.
Exit ==
  /\ up' = FALSE
  /\ UNCHANGED <<buffered, sprintf, at, client, request, sbuf, file, held, response>>

At(p) == up /\ at = p

Accept ==
  /\ At("accept")
  /\ connfd' = TRUE /\ at' = "line"
  /\ \E m \in Methods, u \in Uris : asked' = [method |-> m, uri |-> u]
  /\ input' = "" /\ gone' = FALSE
  /\ UNCHANGED <<world, request, sbuf, file, srcfd, mapped, child, response>>

\* sscanf finds what the client has sent; where that is no whole line the
\* variables may hold anything.
ReadLine ==
  /\ At("line")
  /\ \/ gone /\ Exit
     \/ /\ input # ""
        /\ \/ input # "eof" /\ method' = asked.method /\ uri' = asked.uri
           \/ input = "eof" /\ method' \in Methods /\ uri' \in Uris
        /\ at' = IF method' = "GET" THEN "headers" ELSE "error"
        /\ errnum' = IF method' = "GET" THEN 0 ELSE 501
        /\ UNCHANGED <<world, client, is_static, filename, cgiargs, sbuf, file, held, length,
                       filetype, out, bytes>>

\* read_requesthdrs.  At end of file Rio_readlineb leaves the line as it was,
\* so that the loop goes on, unless the line held the end of some headers
\* before.
AfterHeaders == IF input = "all" THEN {"stat"} ELSE {"stat", "spin"}

ReadHeaders ==
  /\ At("headers")
  /\ \/ gone /\ Exit
     \/ /\ input \in {"all", "eof", "line eof"}
        /\ at' \in AfterHeaders
        /\ UNCHANGED <<world, client, request, sbuf, file, held, response>>

Spin ==
  /\ At("spin")
  /\ \/ gone /\ Exit
     \/ UNCHANGED vars

\* parse_uri.
Before(u, t) ==
  IF t \in Range(u) THEN SubSeq(u, 1, SelectInSeq(u, LAMBDA x : x = t) - 1) ELSE u

After(u, t) ==
  IF t \in Range(u) THEN SubSeq(u, SelectInSeq(u, LAMBDA x : x = t) + 1, Len(u)) ELSE <<>>

IsStatic(u) == "cgi-bin" \notin Range(u)
FileName(u) ==
  IF IsStatic(u) THEN <<".">> \o u \o (IF Last(u) = "/" THEN <<"home", ".html">> ELSE <<>>)
  ELSE <<".">> \o Before(u, "?")
CgiArgs(u) == IF IsStatic(u) THEN <<>> ELSE After(u, "?")

\* The status that doit gives for what stat has said.
StatusOf(s, static) ==
  IF s.kind = "none" THEN 404
  ELSE IF s.kind # "regular" \/ ~(IF static THEN s.r ELSE s.x) THEN 403
  ELSE 200

\* What the name stands for is up to the world.
ParseAndStat ==
  /\ At("stat")
  /\ is_static' = IsStatic(uri) /\ filename' = FileName(uri) /\ cgiargs' = CgiArgs(uri)
  /\ file' \in Files /\ sbuf' = file'
  /\ errnum' = StatusOf(sbuf', is_static')
  /\ at' = IF errnum' # 200 THEN "error" ELSE IF is_static' THEN "static" ELSE "dynamic"
  /\ UNCHANGED <<world, client, method, uri, held, length, filetype, out, bytes>>

\* clienterror: the header lines and the body.  The sprintf of the body may
\* leave no more than its last line, and the length is that of what it leaves.
ClientError ==
  /\ At("error")
  /\ \/ gone /\ Exit
     \/ /\ ~gone
        /\ out' = Append(out, "error")
        /\ at' = "close"
        /\ UNCHANGED <<world, client, request, sbuf, file, held, errnum, length, filetype,
                       bytes>>

\* Close.  What the next request does not look at is forgotten.
Close ==
  /\ At("close")
  /\ at' = "accept" /\ connfd' = FALSE
  /\ input' = "" /\ gone' = FALSE /\ asked' = NoRequest
  /\ method' = "other" /\ uri' = <<>>
  /\ is_static' = FALSE /\ filename' = <<>> /\ cgiargs' = <<>>
  /\ sbuf' = NoFile /\ file' = NoFile
  /\ errnum' = 0 /\ length' = 0 /\ filetype' = "" /\ out' = <<>> /\ bytes' = 0
  /\ UNCHANGED <<world, srcfd, mapped, child>>

-----------------------------------------------------------------------------
(* serve_static.                                                           *)

\* st_size is a long, and filesize an int.
Wrap == 2 * (INT_MAX + 1)
MutShort(x) ==
  LET w == INT_MAX + 1 IN IF 2 * (x % w) >= w THEN (x % w) - w ELSE x % w
AsInt(x) == IF x % Wrap > INT_MAX THEN (x % Wrap) - Wrap ELSE x % Wrap
filesize == AsInt(sbuf.size)

\* get_filetype: the first of these that occurs anywhere in the name.
FileTypes ==
  << <<".html", ".html">>, <<".gif", "image/gif">>, <<".png", "iamge/png">>,
     <<".jpg", "image/jpg">>, <<".jpeg", "image/jpeg">> >>
MutExtension(name) ==
  LET known == {k \in 1..Len(FileTypes) : FileTypes[k][1] \in Range(name)} IN
    IF known = {} THEN "text/plain"
    ELSE FileTypes[CHOOSE k \in known : \A j \in known : k <= j][1]
FileType(name) ==
  LET known == {k \in 1..Len(FileTypes) : FileTypes[k][1] \in Range(name)} IN
    IF known = {} THEN "text/plain"
    ELSE FileTypes[CHOOSE k \in known : \A j \in known : k <= j][2]

\* The headers are put together with sprintf; only the last line is left if
\* that starts afresh.
StaticHead ==
  /\ At("static")
  /\ \/ gone /\ Exit
     \/ /\ ~gone
        /\ filetype' = FileType(filename)
        /\ out' = Append(out, IF sprintf = "appends" THEN "head" ELSE "last line")
        /\ length' = filesize
        /\ at' = "open"
        /\ UNCHANGED <<world, client, request, sbuf, file, held, errnum, bytes>>

Open ==
  /\ At("open")
  /\ \/ (file.kind # "regular" \/ ~file.may) /\ Exit
     \/ /\ file.kind = "regular" /\ file.may
        /\ srcfd' = TRUE
        /\ at' = "map"
        /\ UNCHANGED <<world, client, request, sbuf, file, connfd, mapped, child, response>>

\* mmap refuses a length of zero, and one that no address space holds.
Mmap ==
  /\ At("map")
  /\ \/ filesize <= 0 /\ Exit
     \/ /\ filesize > 0
        /\ mapped' = filesize
        /\ at' = "closesrc"
        /\ UNCHANGED <<world, client, request, sbuf, file, connfd, srcfd, child, response>>

CloseSrc ==
  /\ At("closesrc")
  /\ srcfd' = FALSE
  /\ at' = "body"
  /\ UNCHANGED <<world, client, request, sbuf, file, connfd, mapped, child, response>>

\* Of a file that has shrunk the rest of the page reads as zeros, and the
\* pages after it cannot be written out.
Truncated == file.kind = "regular" /\ file.size < mapped

MutCurrentSize == IF file.kind = "regular" THEN file.size ELSE mapped
BodySize == mapped

Body ==
  /\ At("body")
  /\ \/ (gone \/ Truncated) /\ Exit
     \/ /\ ~gone
        /\ out' = Append(out, "body") /\ bytes' = BodySize
        /\ at' = "unmap"
        /\ UNCHANGED <<world, client, request, sbuf, file, held, errnum, length, filetype>>

Munmap ==
  /\ At("unmap")
  /\ mapped' = 0
  /\ at' = "close"
  /\ UNCHANGED <<world, client, request, sbuf, file, connfd, srcfd, child, response>>

-----------------------------------------------------------------------------
(* serve_dynamic, and the child.                                           *)

DynamicHead ==
  /\ At("dynamic")
  /\ \/ gone /\ Exit
     \/ /\ ~gone
        /\ out' = Append(out, "head")
        /\ at' = "fork"
        /\ UNCHANGED <<world, client, request, sbuf, file, held, errnum, length, filetype,
                       bytes>>

Fork ==
  /\ At("fork")
  /\ child' = "new" /\ at' = "wait"
  /\ UNCHANGED <<world, client, request, sbuf, file, connfd, srcfd, mapped, response>>

\* setenv, Dup2 and Execve.  If it fails the child exits, and what was still
\* in the buffer of stdout goes where stdout now leads.
Exec ==
  /\ up /\ child = "new"
  /\ \/ /\ file.kind = "regular" /\ file.may
        /\ child' = "runs" /\ UNCHANGED out
     \/ /\ ~(file.kind = "regular" /\ file.may)
        /\ child' = "zombie"
        /\ out' = IF buffered /\ ~gone THEN Append(out, "log") ELSE out
  /\ UNCHANGED <<world, at, client, request, sbuf, file, connfd, srcfd, mapped, errnum, length,
                 filetype, bytes>>

\* The program writes, or not, and ends.
Cgi ==
  /\ up /\ child = "runs"
  /\ child' = "zombie"
  /\ out' \in {out} \cup (IF gone THEN {} ELSE {Append(out, "cgi")})
  /\ UNCHANGED <<world, at, client, request, sbuf, file, connfd, srcfd, mapped, errnum, length,
                 filetype, bytes>>

MutNoWait == child # "none"
Ended == child = "zombie"

Wait ==
  /\ At("wait") /\ Ended
  /\ child' = IF child = "zombie" THEN "none" ELSE child
  /\ at' = "close"
  /\ UNCHANGED <<world, client, request, sbuf, file, connfd, srcfd, mapped, response>>

-----------------------------------------------------------------------------
ServerStep ==
  \/ Accept \/ ReadLine \/ ReadHeaders \/ Spin \/ ParseAndStat \/ ClientError \/ Close
  \/ StaticHead \/ Open \/ Mmap \/ CloseSrc \/ Body \/ Munmap
  \/ DynamicHead \/ Fork \/ Wait

ChildStep == Exec \/ Cgi

Next == ServerStep \/ ChildStep \/ (up /\ (Asks \/ Vanishes)) \/ FileChanges

Spec == Init /\ [][Next]_vars

\* The kernel runs the server and its child, and CGI programs end.  Clients
\* owe nothing.
FairSpec == Spec /\ WF_vars(ServerStep) /\ WF_vars(ChildStep)

-----------------------------------------------------------------------------
\* Types: what the variables hold.
TypeOK ==
  /\ up \in BOOLEAN /\ buffered \in BOOLEAN /\ sprintf \in {"appends", "restarts"}
  /\ at \in {"accept", "line", "headers", "spin", "stat", "error", "close", "static", "open",
             "map", "closesrc", "body", "unmap", "dynamic", "fork", "wait"}
  /\ connfd \in BOOLEAN /\ srcfd \in BOOLEAN /\ mapped \in 0..INT_MAX
  /\ child \in {"none", "new", "runs", "zombie"}
  /\ input \in {"", "line", "all", "eof", "line eof"} /\ gone \in BOOLEAN
  /\ asked \in [method : Methods, uri : Uris \cup {<<>>}]
  /\ method \in Methods /\ uri \in Uris \cup {<<>>} /\ is_static \in BOOLEAN
  /\ sbuf \in Files /\ file \in Files
  /\ errnum \in {0, 200, 403, 404, 501}
  /\ length \in (-(INT_MAX + 1))..INT_MAX /\ bytes \in Nat
  /\ filetype \in {"", "text/plain"} \cup {FileTypes[k][2] : k \in 1..Len(FileTypes)}

\* An error page, whose body sprintf may have cut to its last line, and whose
\* length says so; the headers and then the file; or the headers and then what
\* the program has to say.  A program that cannot be started leaves the bare
\* headers, and perhaps the server's own log.
Whole ==
  \/ errnum \in {403, 404, 501} /\ out = <<"error">>
  \/ errnum = 200 /\ is_static /\ out = <<"head", "body">>
  \/ /\ errnum = 200 /\ ~is_static
     /\ \/ out \in {<<"head">>, <<"head", "cgi">>}
        \/ out = <<"head", "log">> /\ buffered /\ (file # sbuf \/ ~file.may)

\* What is left of a file's response where sprintf starts afresh.
Beheaded == sprintf = "restarts" /\ errnum = 200 /\ is_static /\ out = <<"last line", "body">>

\* A response is whole when its connection is closed in good order, never the
\* program before the headers, nor anything of an earlier request; and by then
\* file, mapping and child have been given back.  The exception is a file's
\* response where sprintf, with its buffer among its own arguments, does not
\* append: the response line and the headers, which the comment before
\* serve_static says are sent, are lost except for the last header (doit,
\* serve_static, serve_dynamic).
ResponseIsWhole ==
  at = "close" => ~srcfd /\ mapped = 0 /\ child = "none" /\ (Whole \/ Beheaded)

\* As many bytes of a file follow as the headers have declared, whatever
\* happens to the file meanwhile; and it is the size that stat has seen, unless
\* that is no int (serve_static).
LengthIsKept ==
  at \in {"unmap", "close"} /\ errnum = 200 /\ is_static =>
    /\ bytes = length /\ bytes > 0
    /\ sbuf.size <= INT_MAX => bytes = sbuf.size

\* What may end the server where it is: a write or a read fails only over a
\* client that is gone; open, over a file that is not what stat said, or that
\* its mode promises but the server is refused; mmap, over a size of zero or
\* one that is no int; and sending a mapped file, if that has been cut.
ReasonToEnd ==
  \/ at \in {"line", "headers", "spin", "error", "static", "dynamic", "body"} /\ gone
  \/ at = "open" /\ (file # sbuf \/ ~file.may)
  \/ at = "map" /\ sbuf.size \notin 1..INT_MAX
  \/ at = "body" /\ file # sbuf /\ file.size < length

\* Only a regular file is ever opened or run, and of these only one whose
\* owner may read, or run, it; and the server ends for a reason that has to do
\* with what it was about: never, say, over a file before it has looked at one,
\* or once the response is out (doit, serve_static, serve_dynamic).
EndsForAReason ==
  /\ at \in {"static", "open", "map", "closesrc", "body", "dynamic", "fork", "wait"} =>
       sbuf.kind = "regular" /\ (IF is_static THEN sbuf.r ELSE sbuf.x)
  /\ ~up => ReasonToEnd

\* "TINY ... accepts connections, handles a transaction and closes the
\* connected socket once served": a client that has hung up is done with, too.
HangUpsAreDone ==
  (at # "accept" /\ input \in {"eof", "line eof"}) ~> (at = "accept" \/ ~up)
=============================================================================
