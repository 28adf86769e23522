---------------------------- MODULE TinyWebProofs ----------------------------
(***************************************************************************)
(* Theorems about TinyWeb, for any URIs, any sizes of files and any width  *)
(* of an int.                                                              *)
(*                                                                         *)
(* One connection is served at a time, so the invariant says what holds at *)
(* each place of the server, and what the world may have done by then.     *)
(***************************************************************************)
EXTENDS TinyWeb, SequenceTheorems, TLAPS

Static == {"static", "open", "map", "closesrc", "body", "unmap"}
Dynamic == {"dynamic", "fork", "wait"}
Piece == {"error", "head", "last line", "body", "cgi", "log"}
Before200 == {"accept", "line", "headers", "spin", "stat"}

\* What stat has said may be out of date, but a file only gets shorter.
FileInv ==
  /\ sbuf \in Files /\ file \in Files
  /\ file.kind = "regular" => sbuf.kind = "regular" /\ file.size <= sbuf.size
  /\ at \in Before200 => file = NoFile

\* The server gets to serve_static and serve_dynamic with a file for them.
RequestInv ==
  /\ at \in Static \cup Dynamic =>
       /\ errnum = 200 /\ sbuf.kind = "regular"
       /\ (is_static <=> at \in Static)
       /\ IF at \in Static THEN sbuf.r ELSE sbuf.x
  /\ at = "error" => errnum \in {403, 404, 501}

\* Which of its resources the server holds where.
HeldInv ==
  /\ srcfd \in BOOLEAN /\ (srcfd <=> at \in {"map", "closesrc"})
  /\ IF at \in {"closesrc", "body", "unmap"} THEN mapped = filesize /\ filesize > 0
     ELSE mapped = 0
  /\ child \in {"none", "new", "runs", "zombie"} /\ (child # "none" <=> at = "wait")

\* The program could not be started.
Unstartable == file # sbuf \/ ~file.may

\* What the client has been sent so far.
OutInv ==
  /\ sprintf \in {"appends", "restarts"}
  /\ at \in Before200 \cup {"error", "static", "dynamic"} => out = <<>>
  /\ at \in {"open", "map", "closesrc", "body", "unmap"} =>
       /\ length = filesize
       /\ \E h \in {"head", "last line"} :
            /\ h = "head" \/ sprintf = "restarts"
            /\ out = IF at = "unmap" THEN <<h, "body">> ELSE <<h>>
  /\ at = "unmap" => bytes = filesize
  /\ at = "fork" \/ (at = "wait" /\ child # "zombie") => out = <<"head">>
  /\ at = "wait" => \/ out \in {<<"head">>, <<"head", "cgi">>}
                    \/ out = <<"head", "log">> /\ buffered /\ Unstartable

Why == ~up => ReasonToEnd

Inv == FileInv /\ RequestInv /\ HeldInv /\ OutInv /\ Why /\ ResponseIsWhole /\ LengthIsKept

-----------------------------------------------------------------------------
(* An int holds the sizes that fit into it, and a smaller number for the    *)
(* others (int filesize in doit).                                           *)
LEMMA IntOf ==
  ASSUME NEW x \in Nat
  PROVE  /\ AsInt(x) \in Int /\ AsInt(x) <= x
         /\ x <= INT_MAX => AsInt(x) = x
<1>1. Wrap \in Nat \ {0} /\ INT_MAX \in Nat /\ INT_MAX < Wrap
  BY TinyAssumption DEF Wrap
<1>2. \A w \in Nat \ {0} : x % w \in 0..(w - 1) /\ x % w <= x /\ (x < w => x % w = x)
  <2> TAKE w \in Nat \ {0}
  <2>1. x = w * (x \div w) + (x % w) /\ x \div w \in Int /\ x % w \in 0..(w - 1)
    OBVIOUS
  <2>2. x \div w \in Nat
    OBVIOUS
  <2>3. \A q \in Nat : w * q \in Nat /\ (q > 0 => w * q >= w)
    OBVIOUS
  <2>4. w * (x \div w) \in Nat /\ (x \div w > 0 => w * (x \div w) >= w)
    BY <2>2, <2>3
  <2>5. x < w => x \div w = 0
    BY <2>1, <2>2, <2>4
  <2>6. w * 0 = 0
    OBVIOUS
  <2> QED
    BY <2>1, <2>4, <2>5, <2>6
<1>3. x % Wrap \in 0..(Wrap - 1) /\ x % Wrap <= x /\ (x < Wrap => x % Wrap = x)
  BY <1>1, <1>2
<1> QED
  BY <1>1, <1>3 DEF AsInt

(* Sequences of two elements.                                               *)
LEMMA Pair ==
  ASSUME NEW S, NEW a \in S, NEW b \in S, NEW s \in Seq(S), Len(s) = 2, s[1] = a, s[2] = b
  PROVE  s = <<a, b>>
<1>1. <<a, b>> \in Seq(S) 
  OBVIOUS
<1>2. Len(<<a, b>>) = 2
  OBVIOUS
<1>3. <<a, b>>[1] = a /\ <<a, b>>[2] = b
  OBVIOUS
<1>4. \A i \in 1..2 : s[i] = <<a, b>>[i]
  BY <1>3
<1> QED
  BY <1>1, <1>2, <1>4, SeqEqual

(* An append leaves the first element where it is.                          *)
LEMMA FirstStays ==
  ASSUME NEW S, NEW t \in Seq(S), NEW b \in S, Len(t) = 1
  PROVE  Append(t, b)[1] = t[1]
OBVIOUS

LEMMA AppendToOne ==
  ASSUME NEW S, NEW a \in S, NEW b \in S
  PROVE  Append(<<a>>, b) = <<a, b>>
<1> DEFINE t == <<a>>
           s == Append(t, b)
<1>1. t \in Seq(S) /\ Len(t) = 1 /\ t[1] = a
  OBVIOUS
<1> HIDE DEF t
<1>4. s \in Seq(S)
  BY <1>1
<1>5. Len(s) = Len(t) + 1
  BY <1>1, AppendProperties, Zenon
<1>6. s[Len(t) + 1] = b
  BY <1>1, AppendProperties, Zenon
<1>7. s[1] = t[1]
  BY <1>1, FirstStays
<1> HIDE DEF s
<1>8. Len(s) = 2 /\ s[2] = b
  BY <1>1, <1>5, <1>6
<1>9. s[1] = a
  BY <1>1, <1>7
<1>2. s \in Seq(S) /\ Len(s) = 2 /\ s[1] = a /\ s[2] = b
  BY <1>4, <1>8, <1>9
<1>3. s = <<a, b>>
  BY <1>2, Pair
<1> QED
  BY <1>3 DEF s, t

(* Pieces of a response: what is appended to it.                            *)
LEMMA FirstPiece ==
  ASSUME NEW a \in Piece
  PROVE  Append(<<>>, a) = <<a>>
OBVIOUS

LEMMA TwoPieces ==
  ASSUME NEW a \in Piece, NEW b \in Piece
  PROVE  Append(<<a>>, b) = <<a, b>>
BY AppendToOne

(* What stat can say of a file.                                             *)
LEMMA FileFields ==
  /\ NoFile \in Files
  /\ \A f \in Files :
       /\ f.kind \in {"none", "regular", "other"} /\ f.size \in Nat
       /\ f.kind = "regular" =>
            /\ [f EXCEPT !.may = FALSE] \in Files
            /\ \A n \in Sizes : [f EXCEPT !.size = n] \in Files
<1> DEFINE Real == [kind : {"regular", "other"}, r : BOOLEAN, x : BOOLEAN, may : BOOLEAN, size : Sizes]
<1>1. Files = Real \cup {NoFile} /\ NoFile.kind = "none" /\ NoFile.size = 0
  BY DEF Files, NoFile
<1>2. ASSUME NEW f \in Real
      PROVE  /\ f.kind \in {"regular", "other"} /\ f.size \in Nat
             /\ [f EXCEPT !.may = FALSE] \in Real
             /\ \A n \in Sizes : [f EXCEPT !.size = n] \in Real
  BY <1>2, TinyAssumption
<1> HIDE DEF Real
<1> QED
  BY <1>1, <1>2

(* What stat has said does not change while it is used, and neither does    *)
(* filesize.                                                                *)
LEMMA FileSize ==
  ASSUME FileInv
  PROVE  /\ sbuf.size \in Nat /\ filesize \in Int /\ filesize <= sbuf.size
         /\ sbuf.size <= INT_MAX => filesize = sbuf.size
BY IntOf, FileFields DEF FileInv, filesize

-----------------------------------------------------------------------------
(* The invariant, step by step.                                             *)

(* At first nothing is held and nothing said.                               *)
LEMMA InitInv == Init => Inv
<1> SUFFICES ASSUME Init PROVE Inv
  OBVIOUS
<1>1. at = "accept" /\ at \notin Static \cup Dynamic /\ at \in Before200
  BY DEF Init, Static, Dynamic, Before200
<1>2. FileInv
  BY FileFields DEF Init, FileInv, NoFile
<1>3. RequestInv /\ HeldInv
  BY DEF Init, RequestInv, HeldInv, Static, Dynamic
<1>4. OutInv /\ Why /\ ResponseIsWhole /\ LengthIsKept
  BY <1>1 DEF Init, OutInv, Why, ResponseIsWhole, LengthIsKept
<1> QED
  BY <1>2, <1>3, <1>4 DEF Inv

(* unix_error, for a reason (Exit).                                         *)
LEMMA ExitKeeps ==
  ASSUME Inv, Exit, ReasonToEnd
  PROVE  Inv'
<1>1. UNCHANGED <<buffered, sprintf, at, client, request, sbuf, file, held, response>>
  BY DEF Exit
<1>2. FileInv' /\ RequestInv'
  BY <1>1 DEF Inv, FileInv, RequestInv, request, response
<1>3. HeldInv' /\ Why' /\ LengthIsKept'
  BY <1>1 DEF Inv, HeldInv, Why, ReasonToEnd, LengthIsKept, client, request, held, response,
     filesize
<1>4. filesize' = filesize /\ Unstartable' = Unstartable
  BY <1>1 DEF filesize, Unstartable
<1>5. OutInv'
  BY <1>1, <1>4 DEF Inv, OutInv, held, response
<1>6. ResponseIsWhole'
  BY <1>1 DEF Inv, ResponseIsWhole, Whole, Beheaded, request, held, response
<1> QED
  BY <1>2, <1>3, <1>5, <1>6 DEF Inv

(* Stuttering.                                                              *)
LEMMA StutterKeeps ==
  ASSUME Inv, UNCHANGED vars
  PROVE  Inv'
<1>1. UNCHANGED <<world, at, client, request, sbuf, file, held, response>>
  BY DEF vars
<1>2. filesize' = filesize /\ Unstartable' = Unstartable
  BY <1>1 DEF filesize, Unstartable
<1>3. FileInv' /\ RequestInv' /\ HeldInv' /\ Why' /\ LengthIsKept'
  BY <1>1, <1>2 DEF Inv, FileInv, RequestInv, HeldInv, Why, ReasonToEnd, LengthIsKept, client, world,
     request, held, response
<1>4. OutInv'
  BY <1>1, <1>2 DEF Inv, OutInv, world, held, response
<1>5. ResponseIsWhole'
  BY <1>1 DEF Inv, ResponseIsWhole, Whole, Beheaded, world, request, held, response
<1> QED
  BY <1>3, <1>4, <1>5 DEF Inv

(* Nothing of what a client does is undone, and the server is not moved.    *)
LEMMA ClientKeeps ==
  ASSUME Inv, Asks \/ Vanishes
  PROVE  Inv'
<1>1. UNCHANGED <<world, at, request, sbuf, file, held, response>> /\ (gone => gone')
  BY DEF Asks, Vanishes
<1>2. FileInv' /\ RequestInv'
  BY <1>1 DEF Inv, FileInv, RequestInv, request, response
<1>3. HeldInv' /\ Why' /\ LengthIsKept'
  BY <1>1 DEF Inv, HeldInv, Why, ReasonToEnd, LengthIsKept, world, request, held, response,
     filesize
<1>4. filesize' = filesize /\ Unstartable' = Unstartable
  BY <1>1 DEF filesize, Unstartable
<1>5. OutInv'
  BY <1>1, <1>4 DEF Inv, OutInv, world, held, response
<1>6. ResponseIsWhole'
  BY <1>1 DEF Inv, ResponseIsWhole, Whole, Beheaded, world, request, held, response
<1> QED
  BY <1>2, <1>3, <1>5, <1>6 DEF Inv

(* A file that changes is no longer what stat has said, or not allowed.     *)
LEMMA FileChangesKeeps ==
  ASSUME Inv, FileChanges
  PROVE  Inv'
<1> DEFINE Shrunk == /\ file' \in Files /\ Unstartable'
                     /\ file'.kind = "regular" =>
                          sbuf.kind = "regular" /\ file'.size <= sbuf.size
<1>1. Shrunk
  <2>1. CASE file' = NoFile
    BY <2>1, FileFields DEF Inv, FileInv, FileChanges, Unstartable, NoFile
  <2>2. CASE file' = [file EXCEPT !.may = FALSE]
    BY <2>2, FileFields DEF Inv, FileInv, FileChanges, Unstartable, NoFile, Files
  <2>3. ASSUME NEW n \in Sizes, n < file.size, file' = [file EXCEPT !.size = n]
        PROVE  Shrunk
    <3>1. file'.size = n /\ file'.kind = "regular" /\ file' \in Files
      BY <2>3, FileFields DEF Inv, FileInv, FileChanges, NoFile, Files
    <3>2. /\ n \in Nat /\ file.size \in Nat /\ sbuf.size \in Nat
          /\ file.size <= sbuf.size /\ sbuf.kind = "regular"
      BY <2>3, TinyAssumption, FileFields DEF Inv, FileInv, FileChanges
    <3>3. n < sbuf.size
      BY <2>3, <3>2
    <3>4. file' # sbuf /\ sbuf' = sbuf
      BY <3>1, <3>2, <3>3 DEF FileChanges
    <3> QED
      BY <3>1, <3>2, <3>3, <3>4 DEF Unstartable
  <2> QED
    BY <2>1, <2>2, <2>3 DEF FileChanges
<1>2. /\ UNCHANGED <<world, at, client, request, sbuf, held, response>>
      /\ file.kind = "regular" /\ up
  BY DEF FileChanges
<1>3. at \notin Before200
  BY <1>2 DEF Inv, FileInv, NoFile
<1>4. FileInv'
  BY <1>1, <1>2, <1>3 DEF Inv, FileInv
<1>5. RequestInv' /\ HeldInv' /\ Why' /\ LengthIsKept'
  BY <1>2 DEF Inv, RequestInv, HeldInv, Why, LengthIsKept, request, response, held, world,
     filesize
<1>6. OutInv'
  BY <1>1, <1>2 DEF Inv, OutInv, request, response, held, world, filesize
<1>7. ResponseIsWhole'
  BY <1>1, <1>2 DEF Inv, ResponseIsWhole, Whole, Beheaded, request, response, held, world, Unstartable
<1> QED
  BY <1>4, <1>5, <1>6, <1>7 DEF Inv

(* From accept to the end of the headers there is no file and no response.  *)
LEMMA RequestKeeps ==
  ASSUME Inv, Accept \/ ReadLine \/ ReadHeaders \/ Spin
  PROVE  Inv'
<1>1. CASE gone /\ Exit /\ at \in {"line", "headers", "spin"}
  BY <1>1, ExitKeeps DEF ReasonToEnd
<1>2. CASE UNCHANGED vars
  BY <1>2, StutterKeeps
<1>3. ASSUME /\ up /\ at \in Before200
             /\ at' \in Before200 \/ (at' = "error" /\ errnum' = 501)
             /\ UNCHANGED <<world, sbuf, file, srcfd, mapped, child, out>>
      PROVE  Inv'
  <2>1. /\ at \notin Static \cup Dynamic \cup {"error"}
        /\ at' \in Before200 \cup {"error"} /\ at' \notin Static \cup Dynamic
        /\ UNCHANGED <<up, buffered, sprintf, sbuf, file, srcfd, mapped, child, out>>
    BY <1>3 DEF Static, Dynamic, Before200, world
  <2>2. FileInv' /\ Why'
    BY <1>3, <2>1 DEF Inv, FileInv, Why
  <2>3. RequestInv' /\ LengthIsKept'
    BY <1>3, <2>1 DEF RequestInv, Static, Before200, LengthIsKept
  <2>4. HeldInv'
    BY <1>3, <2>1 DEF Inv, HeldInv, Static, Dynamic
  <2>5. OutInv'
    BY <1>3, <2>1 DEF Inv, OutInv, Static, Dynamic
  <2>6. ResponseIsWhole'
    BY <2>1 DEF ResponseIsWhole, Before200
  <2> QED
    BY <2>2, <2>3, <2>4, <2>5, <2>6 DEF Inv
<1>4. CASE Accept
  BY <1>3, <1>4 DEF Accept, At, Before200, response
<1>5. CASE ReadLine
  BY <1>1, <1>3, <1>5 DEF ReadLine, At, Before200, held, world
<1>6. CASE ReadHeaders
  BY <1>1, <1>3, <1>6 DEF ReadHeaders, AfterHeaders, At, Before200, held, world, response
<1>7. CASE Spin
  BY <1>1, <1>2, <1>7 DEF Spin, At
<1> QED
  BY <1>4, <1>5, <1>6, <1>7

(* Only a regular file with the bit that the owner needs gets past stat     *)
(* (doit).                                                                  *)
LEMMA StatKeeps ==
  ASSUME Inv, ParseAndStat
  PROVE  Inv'
<1>1. /\ up /\ at = "stat" /\ file' \in Files /\ sbuf' = file'
      /\ UNCHANGED <<up, buffered, sprintf, srcfd, mapped, child, out>>
      /\ errnum' = StatusOf(sbuf', is_static') /\ is_static' \in BOOLEAN
      /\ at' = IF errnum' # 200 THEN "error" ELSE IF is_static' THEN "static" ELSE "dynamic"
  BY DEF ParseAndStat, At, world, held, IsStatic
<1>2. FileInv'
  <2>1. at' \notin Before200
    BY <1>1 DEF Before200
  <2>2. \A f \in Files : f.size <= f.size
    <3> TAKE f \in Files
    <3>1. f.size \in Nat
      BY FileFields
    <3> QED
      BY <3>1
  <2> QED
    BY <1>1, <2>1, <2>2 DEF FileInv
<1>3. RequestInv'
  BY <1>1 DEF RequestInv, StatusOf, Static, Dynamic
<1>4. HeldInv' /\ Why' /\ LengthIsKept'
  BY <1>1 DEF Inv, HeldInv, Why, LengthIsKept
<1>5. OutInv' /\ ResponseIsWhole'
  BY <1>1 DEF Inv, OutInv, ResponseIsWhole, Before200
<1> QED
  BY <1>2, <1>3, <1>4, <1>5 DEF Inv

(* An error is the whole response (clienterror).                            *)
LEMMA ClientErrorKeeps ==
  ASSUME Inv, ClientError
  PROVE  Inv'
<1>1. CASE gone /\ Exit
  BY <1>1, ExitKeeps DEF ClientError, At, ReasonToEnd
<1>2. CASE ~(gone /\ Exit)
  <2>1. /\ up /\ at = "error" /\ at' = "close" /\ out' = Append(out, "error")
        /\ UNCHANGED <<world, client, request, sbuf, file, held, errnum>>
        /\ UNCHANGED <<up, sprintf, srcfd, mapped, child>>
    BY <1>2 DEF ClientError, At, held, world
  <2>2. out' = <<"error">>
    <3>1. out = <<>>
      BY <2>1 DEF Inv, OutInv
    <3>2. Append(<<>>, "error") = <<"error">>
      BY FirstPiece DEF Piece
    <3> QED
      BY <2>1, <3>1, <3>2, Zenon
  <2>3. /\ at' \notin Static \cup Dynamic \cup Before200
        /\ at' \notin {"error", "open", "map", "closesrc", "body", "unmap"}
    BY <2>1 DEF Static, Dynamic, Before200
  <2>4. FileInv' /\ RequestInv' /\ Why'
    <3>1. FileInv'
      BY <2>1, <2>3 DEF Inv, FileInv
    <3>2. RequestInv'
      BY <2>1, <2>3 DEF Inv, RequestInv
    <3>3. Why'
      BY <2>1, <2>3 DEF Inv, Why
    <3> QED
      BY <3>1, <3>2, <3>3
  <2>5. HeldInv' /\ OutInv'
    BY <2>1, <2>3 DEF Inv, HeldInv, OutInv
  <2>6. errnum' \in {403, 404, 501} /\ ~srcfd' /\ mapped' = 0 /\ child' = "none"
    BY <2>1 DEF Inv, RequestInv, HeldInv
  <2>7. ResponseIsWhole'
    BY <2>1, <2>2, <2>6 DEF ResponseIsWhole, Whole
  <2>8. LengthIsKept'
    BY <2>6 DEF LengthIsKept
  <2> QED
    BY <2>4, <2>5, <2>7, <2>8 DEF Inv
<1> QED
  BY <1>1, <1>2

(* What was said is forgotten with the connection (main).                   *)
LEMMA CloseKeeps ==
  ASSUME Inv, Close
  PROVE  Inv'
<1>1. /\ up /\ at = "close" /\ at' = "accept" /\ sbuf' = NoFile /\ file' = NoFile
      /\ out' = <<>> /\ UNCHANGED <<up, sprintf, srcfd, mapped, child>>
  BY DEF Close, At, world
<1>2. /\ at' \notin Static \cup Dynamic /\ at' \in Before200
      /\ at' \notin {"error", "open", "map", "closesrc", "body", "unmap", "close"}
  BY <1>1 DEF Static, Dynamic, Before200
<1>3. FileInv' /\ Why'
  BY <1>1, FileFields DEF FileInv, Why, NoFile
<1>4. RequestInv' /\ LengthIsKept' /\ ResponseIsWhole'
  BY <1>1, <1>2 DEF RequestInv, LengthIsKept, ResponseIsWhole
<1>5. HeldInv' /\ OutInv'
  BY <1>1, <1>2 DEF Inv, HeldInv, OutInv
<1> QED
  BY <1>3, <1>4, <1>5 DEF Inv

(* The headers declare filesize (serve_static).                             *)
LEMMA StaticHeadKeeps ==
  ASSUME Inv, StaticHead
  PROVE  Inv'
<1>1. CASE gone /\ Exit
  BY <1>1, ExitKeeps DEF StaticHead, At, ReasonToEnd
<1>2. CASE ~(gone /\ Exit)
  <2>1. /\ up /\ at = "static" /\ at' = "open" /\ length' = filesize
        /\ out' = Append(out, IF sprintf = "appends" THEN "head" ELSE "last line")
        /\ UNCHANGED <<up, buffered, sprintf, client, request, sbuf, file, held, errnum>>
        /\ UNCHANGED <<is_static, srcfd, mapped, child>>
    BY <1>2 DEF StaticHead, At, held, world, request
  <2> DEFINE h == IF sprintf = "appends" THEN "head" ELSE "last line"
  <2>2. out' = <<h>> /\ h \in {"head", "last line"}
    <3>1. out = <<>>
      BY <2>1 DEF Inv, OutInv
    <3>2. h \in {"head", "last line"}
      OBVIOUS
    <3> HIDE DEF h
    <3>3. h \in Piece
      BY <3>2 DEF Piece
    <3>4. Append(<<>>, h) = <<h>>
      BY <3>3, FirstPiece
    <3> QED
      BY <2>1, <3>1, <3>2, <3>4 DEF h
  <2>3. h = "head" \/ sprintf = "restarts"
    BY DEF Inv, OutInv
  <2>4. filesize' = filesize
    BY <2>1 DEF filesize
  <2>5. FileInv' /\ RequestInv' /\ Why'
    <3>1. FileInv'
      BY <2>1 DEF Inv, FileInv, Static, Dynamic, Before200
    <3>2. RequestInv'
      BY <2>1 DEF Inv, RequestInv, Static, Dynamic, Before200
    <3>3. Why'
      BY <2>1 DEF Inv, Why, Static, Dynamic, Before200
    <3> QED
      BY <3>1, <3>2, <3>3
  <2>6. HeldInv'
    BY <2>1, <2>4 DEF Inv, HeldInv
  <2>7. OutInv'
    BY <2>1, <2>2, <2>3, <2>4 DEF OutInv, Before200
  <2>8. ResponseIsWhole' /\ LengthIsKept'
    BY <2>1 DEF ResponseIsWhole, LengthIsKept
  <2> QED
    BY <2>5, <2>6, <2>7, <2>8 DEF Inv
<1> QED
  BY <1>1, <1>2

(* A file that cannot be opened any more is a reason to end (Open).         *)
LEMMA OpenKeeps ==
  ASSUME Inv, Open
  PROVE  Inv'
<1>1. CASE (file.kind # "regular" \/ ~file.may) /\ Exit
  <2>1. sbuf.kind = "regular"
    BY DEF Inv, RequestInv, Open, At, Static
  <2> QED
    BY <1>1, <2>1, ExitKeeps DEF Open, At, ReasonToEnd
<1>2. CASE ~((file.kind # "regular" \/ ~file.may) /\ Exit)
  <2>1. /\ up /\ at = "open" /\ at' = "map" /\ srcfd' = TRUE
        /\ UNCHANGED <<up, buffered, sprintf, client, request, sbuf, file, mapped, child>>
        /\ UNCHANGED <<is_static, errnum, length, bytes, out>>
    BY <1>2 DEF Open, At, world, request, response
  <2>2. filesize' = filesize
    BY <2>1 DEF filesize
  <2>3. FileInv' /\ RequestInv' /\ Why'
    <3>1. FileInv'
      BY <2>1 DEF Inv, FileInv, Static, Dynamic, Before200
    <3>2. RequestInv'
      BY <2>1 DEF Inv, RequestInv, Static, Dynamic, Before200
    <3>3. Why'
      BY <2>1 DEF Inv, Why, Static, Dynamic, Before200
    <3> QED
      BY <3>1, <3>2, <3>3
  <2>4. HeldInv'
    BY <2>1, <2>2 DEF Inv, HeldInv
  <2>5. OutInv'
    BY <2>1, <2>2 DEF Inv, OutInv, Before200
  <2>6. ResponseIsWhole' /\ LengthIsKept'
    BY <2>1 DEF ResponseIsWhole, LengthIsKept
  <2> QED
    BY <2>3, <2>4, <2>5, <2>6 DEF Inv
<1> QED
  BY <1>1, <1>2

(* mmap gets a positive length or the server ends (Mmap).                   *)
LEMMA MmapKeeps ==
  ASSUME Inv, Mmap
  PROVE  Inv'
<1>1. CASE filesize <= 0 /\ Exit
  <2>1. sbuf.size \in Nat /\ (sbuf.size <= INT_MAX => filesize = sbuf.size)
    BY FileSize DEF Inv
  <2>2. sbuf.size \notin 1..INT_MAX
    BY <1>1, <2>1
  <2> QED
    BY <1>1, <2>2, ExitKeeps DEF Mmap, At, ReasonToEnd
<1>2. CASE ~(filesize <= 0 /\ Exit)
  <2>1. /\ up /\ at = "map" /\ at' = "closesrc" /\ mapped' = filesize /\ filesize > 0
        /\ UNCHANGED <<up, buffered, sprintf, client, request, sbuf, file, srcfd, child>>
        /\ UNCHANGED <<is_static, errnum, length, bytes, out>>
    BY <1>2 DEF Mmap, At, world, request, response
  <2>2. filesize' = filesize
    BY <2>1 DEF filesize
  <2>3. FileInv' /\ RequestInv' /\ Why'
    <3>1. FileInv'
      BY <2>1 DEF Inv, FileInv, Static, Dynamic, Before200
    <3>2. RequestInv'
      BY <2>1 DEF Inv, RequestInv, Static, Dynamic, Before200
    <3>3. Why'
      BY <2>1 DEF Inv, Why, Static, Dynamic, Before200
    <3> QED
      BY <3>1, <3>2, <3>3
  <2>4. HeldInv'
    BY <2>1, <2>2 DEF Inv, HeldInv
  <2>5. OutInv'
    BY <2>1, <2>2 DEF Inv, OutInv, Before200
  <2>6. ResponseIsWhole' /\ LengthIsKept'
    BY <2>1 DEF ResponseIsWhole, LengthIsKept
  <2> QED
    BY <2>3, <2>4, <2>5, <2>6 DEF Inv
<1> QED
  BY <1>1, <1>2

(* The mapping outlives the descriptor (Close of srcfd).                    *)
LEMMA CloseSrcKeeps ==
  ASSUME Inv, CloseSrc
  PROVE  Inv'
<1>1. /\ up /\ at = "closesrc" /\ at' = "body" /\ srcfd' = FALSE
      /\ UNCHANGED <<up, buffered, sprintf, client, request, sbuf, file, mapped, child>>
      /\ UNCHANGED <<is_static, errnum, length, bytes, out>>
  BY DEF CloseSrc, At, world, request, response
<1>2. filesize' = filesize
  BY <1>1 DEF filesize
<1>3. FileInv' /\ RequestInv' /\ Why'
  <2>1. FileInv'
    BY <1>1 DEF Inv, FileInv, Static, Dynamic, Before200
  <2>2. RequestInv'
    BY <1>1 DEF Inv, RequestInv, Static, Dynamic, Before200
  <2>3. Why'
    BY <1>1 DEF Inv, Why, Static, Dynamic, Before200
  <2> QED
    BY <2>1, <2>2, <2>3
<1>4. HeldInv'
  BY <1>1, <1>2 DEF Inv, HeldInv
<1>5. OutInv'
  BY <1>1, <1>2 DEF Inv, OutInv, Before200
<1>6. ResponseIsWhole' /\ LengthIsKept'
  BY <1>1 DEF ResponseIsWhole, LengthIsKept
<1> QED
  BY <1>3, <1>4, <1>5, <1>6 DEF Inv

(* The body is what was mapped; it cannot be sent if the file was cut, or   *)
(* the client is gone (Rio_writen).                                         *)
LEMMA BodyKeeps ==
  ASSUME Inv, Body
  PROVE  Inv'
<1>1. CASE (gone \/ Truncated) /\ Exit
  <2>1. /\ mapped = filesize /\ filesize <= sbuf.size /\ filesize \in Int /\ sbuf.size \in Nat
        /\ length = filesize
    BY FileSize DEF Inv, HeldInv, OutInv, Body, At
  <2>2. file.kind = "regular" => file.size \in Nat
    BY FileFields DEF Inv, FileInv
  <2>3. Truncated => file.size < sbuf.size /\ file.size < length
    BY <2>1, <2>2 DEF Truncated
  <2>4. Truncated => file # sbuf
    BY <2>1, <2>3
  <2> QED
    BY <1>1, <2>3, <2>4, ExitKeeps DEF Body, At, ReasonToEnd
<1>2. CASE ~((gone \/ Truncated) /\ Exit)
  <2>1. /\ up /\ at = "body" /\ at' = "unmap" /\ bytes' = mapped /\ out' = Append(out, "body")
        /\ UNCHANGED <<up, buffered, sprintf, client, request, sbuf, file, srcfd, mapped, child>>
        /\ UNCHANGED <<is_static, errnum, length>>
    BY <1>2 DEF Body, BodySize, At, world, request, held
  <2>2. filesize' = filesize /\ mapped = filesize /\ length = filesize /\ filesize > 0
    BY <2>1 DEF filesize, Inv, HeldInv, OutInv
  <2>3. PICK h \in {"head", "last line"} : (h = "head" \/ sprintf = "restarts") /\ out = <<h>>
    BY <2>1 DEF Inv, OutInv
  <2>4. out' = <<h, "body">>
    <3>1. h \in Piece /\ "body" \in Piece
      BY <2>3 DEF Piece
    <3> QED
      BY <2>1, <2>3, <3>1, TwoPieces, Zenon
  <2>5. FileInv' /\ RequestInv' /\ Why'
    <3>1. FileInv'
      BY <2>1 DEF Inv, FileInv, Static, Dynamic, Before200
    <3>2. RequestInv'
      BY <2>1 DEF Inv, RequestInv, Static, Dynamic, Before200
    <3>3. Why'
      BY <2>1 DEF Inv, Why, Static, Dynamic, Before200
    <3> QED
      BY <3>1, <3>2, <3>3
  <2>6. HeldInv'
    BY <2>1, <2>2 DEF Inv, HeldInv
  <2>7. OutInv'
    <3>1. sprintf' \in {"appends", "restarts"} /\ (h = "head" \/ sprintf' = "restarts")
      BY <2>1, <2>3 DEF Inv, OutInv
    <3>2. length' = filesize' /\ bytes' = filesize'
      BY <2>1, <2>2
    <3> QED
      BY <2>1, <2>3, <2>4, <3>1, <3>2 DEF OutInv, Before200
  <2>8. ResponseIsWhole'
    BY <2>1 DEF ResponseIsWhole
  <2>9. LengthIsKept'
    BY <2>1, <2>2, FileSize DEF LengthIsKept, Inv
  <2> QED
    BY <2>5, <2>6, <2>7, <2>8, <2>9 DEF Inv
<1> QED
  BY <1>1, <1>2

(* Then the response is whole (Munmap).                                     *)
LEMMA MunmapKeeps ==
  ASSUME Inv, Munmap
  PROVE  Inv'
<1>1. /\ up /\ at = "unmap" /\ at' = "close" /\ mapped' = 0
      /\ UNCHANGED <<up, buffered, sprintf, client, request, sbuf, file, srcfd, child>>
      /\ UNCHANGED <<is_static, errnum, length, bytes, out>>
  BY DEF Munmap, At, world, request, response
<1>2. /\ at' \notin Static \cup Dynamic \cup Before200
      /\ at' \notin {"error", "open", "map", "closesrc", "body", "unmap"}
  BY <1>1 DEF Static, Dynamic, Before200
<1>3. FileInv' /\ RequestInv' /\ Why'
  <2>1. FileInv'
    BY <1>1, <1>2 DEF Inv, FileInv
  <2>2. RequestInv'
    BY <1>1, <1>2 DEF Inv, RequestInv
  <2>3. Why'
    BY <1>1, <1>2 DEF Inv, Why
  <2> QED
    BY <2>1, <2>2, <2>3
<1>4. HeldInv' /\ OutInv'
  BY <1>1, <1>2 DEF Inv, HeldInv, OutInv
<1>5. /\ errnum = 200 /\ is_static /\ ~srcfd /\ child = "none"
      /\ bytes = filesize /\ length = filesize /\ filesize > 0
  BY <1>1 DEF Inv, RequestInv, HeldInv, OutInv, Static
<1>6. PICK h \in {"head", "last line"} :
        (h = "head" \/ sprintf = "restarts") /\ out = <<h, "body">>
  BY <1>1 DEF Inv, OutInv
<1>8. ResponseIsWhole'
  <2>1. sprintf' = sprintf /\ out' = <<h, "body">> /\ h \in {"head", "last line"}
    BY <1>1, <1>6
  <2> QED
    BY <1>1, <1>5, <1>6, <2>1 DEF ResponseIsWhole, Whole, Beheaded
<1>9. LengthIsKept'
  BY <1>1, <1>5, FileSize DEF LengthIsKept, Inv
<1> QED
  BY <1>3, <1>4, <1>8, <1>9 DEF Inv

(* The server sends its own headers before there is a child                 *)
(* (serve_dynamic).                                                         *)
LEMMA DynamicHeadKeeps ==
  ASSUME Inv, DynamicHead
  PROVE  Inv'
<1>1. CASE gone /\ Exit
  BY <1>1, ExitKeeps DEF DynamicHead, At, ReasonToEnd
<1>2. CASE ~(gone /\ Exit)
  <2>1. /\ up /\ at = "dynamic" /\ at' = "fork" /\ out' = Append(out, "head")
        /\ UNCHANGED <<up, buffered, sprintf, client, request, sbuf, file, srcfd, mapped, child>>
        /\ UNCHANGED <<is_static, errnum, length, bytes>>
    BY <1>2 DEF DynamicHead, At, world, request, held
  <2>2. out' = <<"head">>
    <3>1. out = <<>>
      BY <2>1 DEF Inv, OutInv
    <3>2. Append(<<>>, "head") = <<"head">>
      BY FirstPiece DEF Piece
    <3> QED
      BY <2>1, <3>1, <3>2, Zenon
  <2>3. FileInv' /\ RequestInv' /\ Why'
    <3>1. FileInv'
      BY <2>1 DEF Inv, FileInv, Static, Dynamic, Before200
    <3>2. RequestInv'
      BY <2>1 DEF Inv, RequestInv, Static, Dynamic, Before200
    <3>3. Why'
      BY <2>1 DEF Inv, Why, Static, Dynamic, Before200
    <3> QED
      BY <3>1, <3>2, <3>3
  <2>4. HeldInv' /\ OutInv'
    BY <2>1, <2>2 DEF Inv, HeldInv, OutInv, Before200
  <2>5. ResponseIsWhole' /\ LengthIsKept'
    BY <2>1 DEF ResponseIsWhole, LengthIsKept
  <2> QED
    BY <2>3, <2>4, <2>5 DEF Inv
<1> QED
  BY <1>1, <1>2

(* There is one child, and it is waited for (Fork).                         *)
LEMMA ForkKeeps ==
  ASSUME Inv, Fork
  PROVE  Inv'
<1>1. /\ up /\ at = "fork" /\ at' = "wait" /\ child' = "new"
      /\ UNCHANGED <<up, buffered, sprintf, client, request, sbuf, file, srcfd, mapped>>
      /\ UNCHANGED <<is_static, errnum, length, bytes, out>>
  BY DEF Fork, At, world, request, response
<1>2. FileInv' /\ RequestInv' /\ Why'
  <2>1. FileInv'
    BY <1>1 DEF Inv, FileInv, Static, Dynamic, Before200
  <2>2. RequestInv'
    BY <1>1 DEF Inv, RequestInv, Static, Dynamic, Before200
  <2>3. Why'
    BY <1>1 DEF Inv, Why, Static, Dynamic, Before200
  <2> QED
    BY <2>1, <2>2, <2>3
<1>3. HeldInv'
  BY <1>1 DEF Inv, HeldInv
<1>4. OutInv'
  BY <1>1 DEF Inv, OutInv, Before200
<1>5. ResponseIsWhole' /\ LengthIsKept'
  BY <1>1 DEF ResponseIsWhole, LengthIsKept
<1> QED
  BY <1>2, <1>3, <1>4, <1>5 DEF Inv

(* A child that cannot start its program may leave the server's log; one    *)
(* that can, what the program says (Exec, Cgi).                             *)
LEMMA ChildKeeps ==
  ASSUME Inv, Exec \/ Cgi
  PROVE  Inv'
<1>1. /\ up /\ child \in {"new", "runs"} /\ child' \in {"runs", "zombie"}
      /\ UNCHANGED <<up, buffered, sprintf, at, client, request, sbuf, file, srcfd, mapped>>
      /\ UNCHANGED <<is_static, errnum, length, bytes>>
      /\ \/ out' = out
         \/ /\ child' = "zombie"
            /\ \/ out' = Append(out, "cgi")
               \/ out' = Append(out, "log") /\ buffered /\ ~(file.kind = "regular" /\ file.may)
  BY DEF Exec, Cgi, world, request
<1>2. at = "wait" /\ out = <<"head">> /\ sbuf.kind = "regular"
  <2>1. at = "wait"
    BY <1>1 DEF Inv, HeldInv
  <2>2. out = <<"head">>
    BY <1>1, <2>1 DEF Inv, OutInv
  <2>3. sbuf.kind = "regular"
    BY <2>1 DEF Inv, RequestInv, Dynamic
  <2> QED
    BY <2>1, <2>2, <2>3
<1>3. FileInv' /\ RequestInv' /\ Why'
  <2>1. FileInv'
    BY <1>1 DEF Inv, FileInv
  <2>2. RequestInv'
    BY <1>1 DEF Inv, RequestInv
  <2>3. Why'
    BY <1>1 DEF Inv, Why
  <2> QED
    BY <2>1, <2>2, <2>3
<1>4. HeldInv'
  BY <1>1, <1>2 DEF Inv, HeldInv
<1>5. Append(out, "cgi") = <<"head", "cgi">> /\ Append(out, "log") = <<"head", "log">>
  <2>1. {"head", "cgi", "log"} \subseteq Piece
    BY DEF Piece
  <2>2. \A a, b \in Piece : Append(<<a>>, b) = <<a, b>>
    BY TwoPieces, Zenon
  <2> QED
    BY <1>2, <2>1, <2>2, Zenon
<1>6. /\ at' \notin Static \cup {"accept", "line", "headers", "spin", "stat", "error", "dynamic"}
      /\ at' # "fork" /\ at' # "close"
  BY <1>1, <1>2 DEF Static
<1>7. \/ out' = out
      \/ /\ child' = "zombie"
         /\ \/ out' = <<"head", "cgi">>
            \/ out' = <<"head", "log">> /\ buffered' /\ Unstartable'
  BY <1>1, <1>2, <1>5 DEF Unstartable
<1>8. OutInv'
  BY <1>1, <1>2, <1>6, <1>7 DEF Inv, OutInv, Static, Before200
<1>9. ResponseIsWhole' /\ LengthIsKept'
  BY <1>6 DEF ResponseIsWhole, LengthIsKept, Static
<1> QED
  BY <1>3, <1>4, <1>8, <1>9 DEF Inv

(* With the child gone all it sent is there (Wait).                         *)
LEMMA WaitKeeps ==
  ASSUME Inv, Wait
  PROVE  Inv'
<1>1. /\ up /\ at = "wait" /\ at' = "close" /\ child = "zombie" /\ child' = "none"
      /\ UNCHANGED <<up, buffered, sprintf, client, request, sbuf, file, srcfd, mapped>>
      /\ UNCHANGED <<is_static, errnum, length, bytes, out>>
  BY DEF Wait, Ended, At, world, request, response
<1>2. /\ at' \notin Static \cup Dynamic \cup Before200
      /\ at' \notin {"error", "open", "map", "closesrc", "body", "unmap"}
  BY <1>1 DEF Static, Dynamic, Before200
<1>3. FileInv' /\ RequestInv' /\ Why'
  <2>1. FileInv'
    BY <1>1, <1>2 DEF Inv, FileInv
  <2>2. RequestInv'
    BY <1>1, <1>2 DEF Inv, RequestInv
  <2>3. Why'
    BY <1>1, <1>2 DEF Inv, Why
  <2> QED
    BY <2>1, <2>2, <2>3
<1>4. HeldInv' /\ OutInv'
  BY <1>1, <1>2 DEF Inv, HeldInv, OutInv
<1>5. errnum = 200 /\ ~is_static /\ ~srcfd /\ mapped = 0
  BY <1>1 DEF Inv, RequestInv, HeldInv, Static, Dynamic
<1>6. \/ out \in {<<"head">>, <<"head", "cgi">>}
      \/ out = <<"head", "log">> /\ buffered /\ Unstartable
  BY <1>1 DEF Inv, OutInv
<1>7. ResponseIsWhole'
  BY <1>1, <1>5, <1>6 DEF ResponseIsWhole, Whole, Unstartable
<1>8. LengthIsKept'
  BY <1>1, <1>5 DEF LengthIsKept
<1> QED
  BY <1>3, <1>4, <1>7, <1>8 DEF Inv

(* Every step keeps the invariant.                                          *)
LEMMA NextInv == Inv /\ [Next]_vars => Inv'
<1> SUFFICES ASSUME Inv, [Next]_vars PROVE Inv'
  OBVIOUS
<1>1. CASE ServerStep
  BY <1>1, RequestKeeps, StatKeeps, ClientErrorKeeps, CloseKeeps, StaticHeadKeeps, OpenKeeps,
     MmapKeeps, CloseSrcKeeps, BodyKeeps, MunmapKeeps, DynamicHeadKeeps, ForkKeeps, WaitKeeps
     DEF ServerStep
<1>2. CASE ChildStep
  BY <1>2, ChildKeeps DEF ChildStep
<1>3. CASE Asks \/ Vanishes
  BY <1>3, ClientKeeps
<1>4. CASE FileChanges
  BY <1>4, FileChangesKeeps
<1>5. CASE UNCHANGED vars
  BY <1>5, StutterKeeps
<1> QED
  BY <1>1, <1>2, <1>3, <1>4, <1>5 DEF Next

-----------------------------------------------------------------------------
(* The invariant holds always.                                              *)
THEOREM Invariance == Spec => []Inv
BY InitInv, NextInv, PTL DEF Spec

(* When a connection is closed the response on it is whole, except for the  *)
(* headers of a file that a sprintf which does not append has lost, and     *)
(* everything that was taken for it has been given back, for any files and  *)
(* sizes (doit, serve_static, serve_dynamic).                               *)
THEOREM WholeResponses == Spec => []ResponseIsWhole
<1>1. Inv => ResponseIsWhole
  BY DEF Inv
<1> QED
  BY <1>1, Invariance, PTL

(* The body is as long as its header says, whatever becomes of the file.    *)
THEOREM LengthsKept == Spec => []LengthIsKept
<1>1. Inv => LengthIsKept
  BY DEF Inv
<1> QED
  BY <1>1, Invariance, PTL

(* Only regular files are served, and the server ends only over what it was *)
(* about: a client that is gone where it reads or writes, a file that has   *)
(* changed or is refused where it opens it, a size that mmap refuses, a     *)
(* file that was cut where it sends it (doit, serve_static, serve_dynamic). *)
THEOREM ReasonedEnds == Spec => []EndsForAReason
<1>1. Inv => EndsForAReason
  BY DEF Inv, RequestInv, Why, EndsForAReason, Static, Dynamic
<1> QED
  BY <1>1, Invariance, PTL

-----------------------------------------------------------------------------
(* Types.                                                                  *)

(* An int is in the range of one.                                           *)
LEMMA IntRange ==
  ASSUME NEW x \in Nat
  PROVE  AsInt(x) \in (-(INT_MAX + 1))..INT_MAX
<1>1. Wrap \in Nat \ {0} /\ Wrap = 2 * (INT_MAX + 1) /\ INT_MAX \in Nat
  BY TinyAssumption DEF Wrap
<1>2. \A w \in Nat \ {0} : x % w \in 0..(w - 1)
  OBVIOUS
<1>3. x % Wrap \in 0..(Wrap - 1)
  BY <1>1, <1>2
<1> QED
  BY <1>1, <1>3 DEF AsInt

(* A file has one of the types of the table, or none of them.               *)
LEMMA FileTypeKnown ==
  ASSUME NEW n
  PROVE  FileType(n) \in {"text/plain"} \cup {FileTypes[k][2] : k \in 1..Len(FileTypes)}
<1> DEFINE known == {k \in 1..Len(FileTypes) : FileTypes[k][1] \in Range(n)}
<1>1. CASE known = {}
  BY <1>1 DEF FileType
<1>2. CASE known # {}
  <2>1. Len(FileTypes) = 5
    BY DEF FileTypes
  <2>2. known \in SUBSET (1..5)
    BY <2>1
  <2>3. \E k \in known : \A j \in known : k <= j
    <3> HIDE DEF known
    <3>0. \A j \in known : j \in 1..5
      BY <2>2
    <3>1. CASE 1 \in known
      BY <3>0, <3>1
    <3>2. CASE 1 \notin known /\ 2 \in known
      BY <3>0, <3>2
    <3>3. CASE 1 \notin known /\ 2 \notin known /\ 3 \in known
      BY <3>0, <3>3
    <3>4. CASE 1 \notin known /\ 2 \notin known /\ 3 \notin known /\ 4 \in known
      BY <3>0, <3>4
    <3>5. CASE 1 \notin known /\ 2 \notin known /\ 3 \notin known /\ 4 \notin known
      <4>1. \A j \in known : j = 5
        BY <3>0, <3>5
      <4>2. PICK j \in known : TRUE
        BY <1>2
      <4> QED
        BY <4>1, <4>2
    <3> QED
      BY <3>1, <3>2, <3>3, <3>4, <3>5
  <2>4. PICK k \in known : k = CHOOSE m \in known : \A j \in known : m <= j
    BY <2>3
  <2>5. FileType(n) = FileTypes[k][2]
    BY <1>2, <2>4 DEF FileType
  <2>6. k \in 1..Len(FileTypes)
    BY <2>4
  <2> QED
    BY <2>5, <2>6
<1> QED
  BY <1>1, <1>2

Places == {"accept", "line", "headers", "spin", "stat", "error", "close", "static", "open",
           "map", "closesrc", "body", "unmap", "dynamic", "fork", "wait"}
Inputs == {"", "line", "all", "eof", "line eof"}
Asked == [method : Methods, uri : Uris \cup {<<>>}]
FileNames == {"", "text/plain"} \cup {FileTypes[k][2] : k \in 1..Len(FileTypes)}
Ints == (-(INT_MAX + 1))..INT_MAX

WorldTypes == up \in BOOLEAN /\ buffered \in BOOLEAN /\ sprintf \in {"appends", "restarts"}
HeldTypes ==
  /\ connfd \in BOOLEAN /\ srcfd \in BOOLEAN /\ mapped \in 0..INT_MAX
  /\ child \in {"none", "new", "runs", "zombie"}
ClientTypes == input \in Inputs /\ gone \in BOOLEAN /\ asked \in Asked
RequestTypes == method \in Methods /\ uri \in Uris \cup {<<>>} /\ is_static \in BOOLEAN
ResponseTypes ==
  /\ errnum \in {0, 200, 403, 404, 501} /\ length \in Ints /\ bytes \in Nat
  /\ filetype \in FileNames

Types ==
  /\ WorldTypes /\ at \in Places /\ HeldTypes /\ ClientTypes /\ RequestTypes
  /\ sbuf \in Files /\ file \in Files /\ ResponseTypes

LEMMA TypesAreTypeOK == Types <=> TypeOK
BY DEF Types, TypeOK, WorldTypes, Places, HeldTypes, ClientTypes, Inputs, Asked, RequestTypes,
       ResponseTypes, Ints, FileNames

(* Zero and no name are among the values of a response.                     *)
LEMMA Zeros == 0 \in Ints /\ 0 \in 0..INT_MAX /\ 0 \in Nat /\ "" \in FileNames
<1>1. INT_MAX \in Nat
  BY TinyAssumption
<1>2. 0 \in Ints /\ 0 \in 0..INT_MAX
  BY <1>1 DEF Ints
<1>3. "" \in FileNames
  BY DEF FileNames
<1> QED
  BY <1>2, <1>3

(* What a step leaves alone keeps its types.                                *)
LEMMA WorldKept == WorldTypes /\ UNCHANGED world => WorldTypes'
BY DEF WorldTypes, world

LEMMA HeldKept == HeldTypes /\ UNCHANGED held => HeldTypes'
BY DEF HeldTypes, held

LEMMA ClientKept == ClientTypes /\ UNCHANGED client => ClientTypes'
BY DEF ClientTypes, client

LEMMA RequestKept == RequestTypes /\ UNCHANGED request => RequestTypes'
BY DEF RequestTypes, request

LEMMA ResponseKept == ResponseTypes /\ UNCHANGED response => ResponseTypes'
BY DEF ResponseTypes, response

(* Every step keeps every variable in its type.                             *)
LEMMA TypesNext == Types /\ Inv /\ [Next]_vars => Types'
<1> SUFFICES ASSUME Types, Inv, [Next]_vars PROVE Types'
  OBVIOUS
<1> USE WorldKept, HeldKept, ClientKept, RequestKept, ResponseKept
<1>a. sbuf' \in Files /\ file' \in Files
  BY NextInv DEF Inv, FileInv
<1>b. filesize \in Ints /\ INT_MAX \in Nat
  <2>1. sbuf.size \in Nat
    BY FileFields DEF Types
  <2> QED
    BY <2>1, IntRange, TinyAssumption DEF filesize, Ints
<1>c. /\ WorldTypes /\ at \in Places /\ HeldTypes /\ ClientTypes /\ RequestTypes
      /\ ResponseTypes
  BY DEF Types
<1>d. ASSUME WorldTypes', at' \in Places, HeldTypes', ClientTypes', RequestTypes', ResponseTypes'
      PROVE  Types'
  BY <1>a, <1>d DEF Types
<1>1. ASSUME Exit PROVE Types'
  <2>1. /\ UNCHANGED <<at, client, request, held, response>>
        /\ up' = FALSE /\ UNCHANGED <<buffered, sprintf>>
    BY <1>1 DEF Exit
  <2>2. WorldTypes'
    BY <1>c, <2>1 DEF WorldTypes
  <2> QED
    BY <1>c, <1>d, <2>1, <2>2
<1>2. CASE Accept
  <2>1. /\ connfd' = TRUE /\ at' = "line" /\ input' = "" /\ gone' = FALSE
        /\ UNCHANGED <<world, request, srcfd, mapped, child, response>>
    BY <1>2 DEF Accept
  <2>2. asked' \in Asked
    <3>1. PICK m \in Methods, u \in Uris : asked' = [method |-> m, uri |-> u]
      BY <1>2 DEF Accept
    <3> QED
      BY <3>1 DEF Asked
  <2>3. ClientTypes' /\ at' \in Places
    BY <2>1, <2>2 DEF ClientTypes, Inputs, Places
  <2>4. HeldTypes'
    BY <1>c, <2>1 DEF HeldTypes
  <2> QED
    BY <1>c, <1>d, <2>1, <2>3, <2>4
<1>3. CASE ReadLine
  <2>1. CASE Exit
    BY <1>1, <2>1
  <2>2. CASE ~Exit
    <3>1. UNCHANGED <<world, client, is_static, held, length, filetype, bytes>>
      BY <1>3, <2>2 DEF ReadLine
    <3>2. at' \in {"headers", "error"} /\ errnum' \in {0, 501}
      BY <1>3, <2>2 DEF ReadLine
    <3>3. \/ method' = asked.method /\ uri' = asked.uri
          \/ method' \in Methods /\ uri' \in Uris
      BY <1>3, <2>2 DEF ReadLine
    <3>4. RequestTypes'
      BY <1>c, <3>1, <3>3 DEF RequestTypes, ClientTypes, Asked
    <3>5. ResponseTypes' /\ at' \in Places
      BY <1>c, <3>1, <3>2 DEF ResponseTypes, Places
    <3> QED
      BY <1>c, <1>d, <3>1, <3>4, <3>5
  <2> QED
    BY <2>1, <2>2
<1>4. CASE ReadHeaders \/ Spin
  <2>1. CASE Exit
    BY <1>1, <2>1
  <2>2. CASE ~Exit
    <3>1. UNCHANGED <<world, client, request, held, response>>
      BY <1>4, <2>2 DEF ReadHeaders, Spin, vars
    <3>2. at' \in {"stat", "spin"}
      BY <1>4, <2>2 DEF ReadHeaders, Spin, AfterHeaders, At, vars
    <3> QED
      BY <1>c, <1>d, <3>1, <3>2 DEF Places
  <2> QED
    BY <2>1, <2>2
<1>5. CASE ParseAndStat
  <2>1. UNCHANGED <<world, client, method, uri, held, length, filetype, bytes>>
    BY <1>5 DEF ParseAndStat
  <2>2. is_static' \in BOOLEAN
    BY <1>5 DEF ParseAndStat, IsStatic
  <2>3. errnum' \in {200, 403, 404}
    <3>1. \A r, b : StatusOf(r, b) \in {200, 403, 404}
      BY DEF StatusOf
    <3>2. errnum' = StatusOf(sbuf', is_static')
      BY <1>5, Zenon DEF ParseAndStat
    <3> QED
      BY <3>1, <3>2, Zenon
  <2>4. at' \in Places
    BY <1>5 DEF ParseAndStat, Places
  <2>5. RequestTypes' /\ ResponseTypes'
    BY <1>c, <2>1, <2>2, <2>3 DEF RequestTypes, ResponseTypes
  <2> QED
    BY <1>c, <1>d, <2>1, <2>4, <2>5
<1>6. CASE ClientError \/ DynamicHead
  <2>1. CASE Exit
    BY <1>1, <2>1
  <2>2. CASE ~Exit
    <3>1. UNCHANGED <<world, client, request, held, errnum, length, filetype, bytes>>
      BY <1>6, <2>2 DEF ClientError, DynamicHead
    <3>2. at' \in {"close", "fork"}
      BY <1>6, <2>2 DEF ClientError, DynamicHead
    <3>3. ResponseTypes'
      BY <1>c, <3>1 DEF ResponseTypes
    <3> QED
      BY <1>c, <1>d, <3>1, <3>2, <3>3 DEF Places
  <2> QED
    BY <2>1, <2>2
<1>7. CASE Close
  <2>1. /\ connfd' = FALSE /\ at' = "accept" /\ input' = "" /\ gone' = FALSE
        /\ asked' = NoRequest /\ method' = "other" /\ uri' = <<>> /\ is_static' = FALSE
        /\ errnum' = 0 /\ length' = 0 /\ filetype' = "" /\ bytes' = 0
        /\ UNCHANGED <<world, srcfd, mapped, child>>
    BY <1>7 DEF Close
  <2>2. ClientTypes' /\ RequestTypes'
    BY <2>1 DEF NoRequest, Methods, Asked, Inputs, ClientTypes, RequestTypes
  <2>3. ResponseTypes'
    BY <2>1, Zeros DEF ResponseTypes
  <2>4. HeldTypes' /\ at' \in Places
    BY <1>c, <2>1 DEF HeldTypes, Places
  <2> QED
    BY <1>c, <1>d, <2>1, <2>2, <2>3, <2>4
<1>8. CASE StaticHead
  <2>1. CASE Exit
    BY <1>1, <2>1
  <2>2. CASE ~Exit
    <3>1. /\ filetype' = FileType(filename) /\ length' = filesize /\ at' = "open"
          /\ UNCHANGED <<world, client, request, held, errnum, bytes>>
      BY <1>8, <2>2 DEF StaticHead
    <3>2. filetype' \in FileNames
      BY <3>1, FileTypeKnown DEF FileNames
    <3>3. ResponseTypes'
      BY <1>b, <1>c, <3>1, <3>2 DEF ResponseTypes
    <3> QED
      BY <1>c, <1>d, <3>1, <3>3 DEF Places
  <2> QED
    BY <2>1, <2>2
<1>9. CASE Open \/ Mmap \/ CloseSrc \/ Munmap
  <2>1. CASE Exit
    BY <1>1, <2>1
  <2>2. CASE ~Exit
    <3>1. UNCHANGED <<world, client, request, connfd, child, response>>
      BY <1>9, <2>2 DEF Open, Mmap, CloseSrc, Munmap
    <3>2. at' \in {"map", "closesrc", "body", "close"} /\ srcfd' \in {TRUE, FALSE, srcfd}
      BY <1>9, <2>2 DEF Open, Mmap, CloseSrc, Munmap
    <3>3. mapped' = mapped \/ mapped' = 0 \/ (filesize > 0 /\ mapped' = filesize)
      BY <1>9, <2>2 DEF Open, Mmap, CloseSrc, Munmap
    <3>4. mapped' \in 0..INT_MAX
      BY <1>b, <1>c, <3>3 DEF HeldTypes, Ints
    <3>5. HeldTypes'
      BY <1>c, <3>1, <3>2, <3>4 DEF HeldTypes
    <3> QED
      BY <1>c, <1>d, <3>1, <3>2, <3>5 DEF Places
  <2> QED
    BY <2>1, <2>2
<1>10. CASE Body
  <2>1. CASE Exit
    BY <1>1, <2>1
  <2>2. CASE ~Exit
    <3>1. /\ at' = "unmap" /\ bytes' = mapped
          /\ UNCHANGED <<world, client, request, held, errnum, length, filetype>>
      BY <1>10, <2>2 DEF Body, BodySize
    <3>2. bytes' \in Nat
      BY <1>b, <1>c, <3>1 DEF HeldTypes
    <3>3. ResponseTypes'
      BY <1>c, <3>1, <3>2 DEF ResponseTypes
    <3> QED
      BY <1>c, <1>d, <3>1, <3>3 DEF Places
  <2> QED
    BY <2>1, <2>2
<1>11. CASE Fork \/ Wait
  <2>1. UNCHANGED <<world, client, request, connfd, srcfd, mapped, response>>
    BY <1>11 DEF Fork, Wait
  <2>2. at' \in {"wait", "close"} /\ child' \in {"new", "none", child}
    BY <1>11 DEF Fork, Wait
  <2>3. HeldTypes'
    BY <1>c, <2>1, <2>2 DEF HeldTypes
  <2> QED
    BY <1>c, <1>d, <2>1, <2>2, <2>3 DEF Places
<1>12. CASE ChildStep
  <2>1. /\ child' \in {"runs", "zombie"}
        /\ UNCHANGED <<world, at, client, request, connfd, srcfd, mapped, errnum, length,
                       filetype, bytes>>
    BY <1>12 DEF ChildStep, Exec, Cgi
  <2>2. HeldTypes' /\ ResponseTypes'
    BY <1>c, <2>1 DEF HeldTypes, ResponseTypes
  <2> QED
    BY <1>c, <1>d, <2>1, <2>2
<1>13. CASE Asks \/ Vanishes
  <2>1. UNCHANGED <<world, at, asked, request, held, response>>
    BY <1>13 DEF Asks, Vanishes
  <2>2. input' \in Inputs \cup {input} /\ gone' \in {TRUE, gone}
    BY <1>13 DEF Asks, Vanishes, Inputs
  <2>3. ClientTypes'
    BY <1>c, <2>1, <2>2 DEF ClientTypes
  <2> QED
    BY <1>c, <1>d, <2>1, <2>3
<1>14. CASE FileChanges \/ UNCHANGED vars
  <2>1. UNCHANGED <<world, at, client, request, held, response>>
    BY <1>14 DEF FileChanges, vars
  <2> QED
    BY <1>c, <1>d, <2>1
<1> QED
  BY <1>2, <1>3, <1>4, <1>5, <1>6, <1>7, <1>8, <1>9, <1>10, <1>11, <1>12, <1>13, <1>14
     DEF Next, ServerStep

(* Every variable of TINY holds a value of its kind; an int never more than *)
(* an int holds, for files of any size.                                     *)
THEOREM TypeCorrect == Spec => []TypeOK
<1>1. Init => Types
  <2> SUFFICES ASSUME Init PROVE Types
    OBVIOUS
  <2>1. WorldTypes /\ at \in Places /\ sbuf \in Files /\ file \in Files
    BY FileFields DEF Init, WorldTypes, Places
  <2>2. ClientTypes /\ RequestTypes
    BY DEF Init, NoRequest, Methods, Asked, Inputs, ClientTypes, RequestTypes
  <2>4. HeldTypes
    BY Zeros DEF Init, HeldTypes
  <2>5. ResponseTypes
    BY Zeros DEF Init, ResponseTypes
  <2> QED
    BY <2>1, <2>2, <2>4, <2>5 DEF Types
<1>2. Types => TypeOK
  BY TypesAreTypeOK
<1> QED
  BY <1>1, <1>2, InitInv, NextInv, TypesNext, PTL DEF Spec
=============================================================================
