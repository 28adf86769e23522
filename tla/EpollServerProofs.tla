------------------------- MODULE EpollServerProofs --------------------------
(***************************************************************************)
(* Theorems about EpollServer, for any number of clients and descriptors   *)
(* and any batch size.                                                     *)
(*                                                                         *)
(* The descriptors in epoll's queue and in the batch (Due below) are those *)
(* that have something to read, but for the one main has in its hands      *)
(* (Current) and the one it is about to add (Kept).  That rests on the     *)
(* table, where a descriptor is watched as long as it is open, and on no   *)
(* descriptor being in the queue, or in the batch, twice.                  *)
(***************************************************************************)
EXTENDS EpollServer, SequenceTheorems, WellFoundedInduction, TLAPS

Watchable == Fds \cup {server_fd}
Distinct(s) == \A j, k \in DOMAIN s : s[j] = s[k] => j = k

ClientTypes ==
  /\ pc \in [Clients -> {"connect", "send", "read", "done", "killed"}]
  /\ got \in [Clients -> BOOLEAN]
  /\ answer \in [Clients -> BOOLEAN] /\ rst \in [Clients -> BOOLEAN]
  /\ end \in [Clients -> {"no", "eof", "reset"}]

\* A message is of two pieces, and is sent once.
TcpTypes ==
  /\ conn \in [Clients -> {"none", "backlog", "open", "closed"}]
  /\ flight \in [Clients -> 0..2] /\ inq \in [Clients -> 0..2] /\ took \in [Clients -> 0..2]
  /\ \A c \in Clients :
       /\ inq[c] + flight[c] <= 2
       /\ pc[c] \in {"connect", "send"} => inq[c] = 0 /\ flight[c] = 0
       /\ pc[c] = "connect" => conn[c] = "none"

ServerTypes ==
  /\ up \in BOOLEAN /\ at \in {"wait", "event", "add", "send", "close"}
  /\ nofile \in Limits /\ fds \in [Fds -> Clients \cup {Nobody}]
  /\ client_fd \in Fds \cup {-1}

Queues ==
  /\ ready \in Seq(Watchable) /\ Distinct(ready) /\ Range(ready) \subseteq watched
  /\ events \in Seq(Watchable) /\ Distinct(events) /\ Range(events) \subseteq watched

Adding(f) == at = "add" /\ client_fd = f

\* The open connections, their descriptors and what epoll watches agree.
Table ==
  /\ \A f, g \in Fds : fds[f] = fds[g] /\ fds[f] # Nobody => f = g
  /\ \A c \in Clients : conn[c] = "open" <=> \E f \in Fds : fds[f] = c
  /\ watched \subseteq Watchable /\ server_fd \in watched
  /\ \A f \in Fds : f \in watched <=> fds[f] # Nobody /\ ~Adding(f)

\* The event that main works at is the first of the batch.
Place ==
  /\ at = "wait" => events = <<>>
  /\ at \in {"send", "close"} => events # <<>> /\ Head(events) # server_fd
  /\ at = "add" => /\ events # <<>> /\ Head(events) = server_fd
                   /\ client_fd \in Fds => fds[client_fd] # Nobody

Due == Range(ready) \cup Range(events)
InHand(f) == at \in {"send", "close"} /\ f = Head(events)

Current == \A f \in Fds : f \in Due => Readable(fds[f]) \/ InHand(f)
Kept == \A f \in Fds : fds[f] # Nobody /\ Readable(fds[f]) => f \in Due \/ Adding(f)

Inv ==
  /\ ClientTypes /\ TcpTypes /\ ServerTypes /\ Queues /\ Table /\ Place /\ Current /\ Kept

-----------------------------------------------------------------------------
(* Queues.                                                                 *)

LEMMA Elements ==
  ASSUME NEW S, NEW s \in Seq(S)
  PROVE  /\ Len(s) \in Nat /\ DOMAIN s = 1..Len(s) /\ \A j \in 1..Len(s) : s[j] \in S
         /\ Range(s) = {s[j] : j \in 1..Len(s)} /\ (s = <<>> <=> Len(s) = 0)
BY DEF Range

(* At the end of a queue comes what was not in it.                          *)
LEMMA Appended ==
  ASSUME NEW S, NEW s \in Seq(S), NEW e \in S, Distinct(s), e \notin Range(s)
  PROVE  /\ Append(s, e) \in Seq(S) /\ Distinct(Append(s, e))
         /\ Range(Append(s, e)) = Range(s) \cup {e}
<1> DEFINE t == Append(s, e)
<1>1. /\ t \in Seq(S) /\ Len(t) = Len(s) + 1 /\ t[Len(s) + 1] = e
      /\ \A j \in 1..Len(s) : t[j] = s[j]
  BY AppendProperties
<1>2. Len(s) \in Nat /\ DOMAIN s = 1..Len(s) /\ Range(s) = {s[j] : j \in 1..Len(s)}
  BY Elements
<1>3. DOMAIN t = 1..Len(t) /\ Range(t) = {t[j] : j \in 1..Len(t)}
  BY <1>1, Elements
<1> HIDE DEF t
<1>4. 1..Len(t) = (1..Len(s)) \cup {Len(s) + 1}
  BY <1>1, <1>2
<1>5. Range(t) = Range(s) \cup {e}
  BY <1>1, <1>2, <1>3, <1>4
<1>6. Distinct(t)
  <2>1. \A j \in 1..Len(s) : t[j] # e
    BY <1>1, <1>2
  <2>2. \A j, k \in 1..Len(s) : t[j] = t[k] => j = k
    BY <1>1, <1>2 DEF Distinct
  <2> QED
    BY <1>1, <1>3, <1>4, <2>1, <2>2 DEF Distinct
<1> QED
  BY <1>1, <1>5, <1>6 DEF t

LEMMA QueuedDoes ==
  ASSUME NEW f \in Watchable, Queues
  PROVE  /\ Queued(f) \in Seq(Watchable) /\ Distinct(Queued(f))
         /\ Range(Queued(f)) = Range(ready) \cup {f}
<1>1. ready \in Seq(Watchable) /\ Distinct(ready)
  BY DEF Queues
<1>2. CASE f \in Range(ready)
  BY <1>1, <1>2 DEF Queued
<1>3. CASE f \notin Range(ready)
  BY <1>1, <1>3, Appended DEF Queued
<1> QED
  BY <1>2, <1>3

(* The first of a queue and the rest of it.                                 *)
LEMMA HeadAndTail ==
  ASSUME NEW S, NEW s \in Seq(S), Distinct(s), s # <<>>
  PROVE  /\ Head(s) \in S /\ Head(s) \in Range(s) /\ Tail(s) \in Seq(S) /\ Distinct(Tail(s))
         /\ Range(Tail(s)) = Range(s) \ {Head(s)}
<1> DEFINE t == Tail(s)
<1>1. /\ t \in Seq(S) /\ Len(t) = Len(s) - 1 /\ Head(s) = s[1]
      /\ \A j \in 1..Len(t) : t[j] = s[j + 1]
  BY HeadTailProperties
<1>2. /\ Len(s) \in Nat /\ DOMAIN s = 1..Len(s) /\ Range(s) = {s[j] : j \in 1..Len(s)}
      /\ \A j \in 1..Len(s) : s[j] \in S
  BY Elements
<1>3. DOMAIN t = 1..Len(t) /\ Range(t) = {t[j] : j \in 1..Len(t)}
  BY <1>1, Elements
<1>4. Len(s) \in Nat \ {0}
  BY <1>2, Elements
<1> HIDE DEF t
<1>5. Head(s) \in S /\ Head(s) \in Range(s)
  BY <1>1, <1>2, <1>4
<1>6. \A j \in 1..Len(t) : j + 1 \in 1..Len(s) /\ j + 1 # 1
  BY <1>1, <1>4
<1>7. Distinct(t)
  <2> SUFFICES ASSUME NEW j \in 1..Len(t), NEW m \in 1..Len(t), t[j] = t[m] PROVE j = m
    BY <1>3 DEF Distinct
  <2>1. s[j + 1] = s[m + 1] /\ j + 1 \in 1..Len(s) /\ m + 1 \in 1..Len(s)
    BY <1>1, <1>6
  <2>2. j + 1 = m + 1
    BY <1>2, <2>1, Zenon DEF Distinct
  <2> QED
    BY <1>1, <1>4, <2>2
<1>8. Range(t) = Range(s) \ {Head(s)}
  <2>1. ASSUME NEW j \in 1..Len(t) PROVE t[j] \in Range(s) \ {Head(s)}
    <3>1. t[j] = s[j + 1] /\ j + 1 \in 1..Len(s) /\ 1 \in 1..Len(s) /\ j + 1 # 1
      BY <1>1, <1>4, <1>6
    <3> QED
      BY <1>1, <1>2, <3>1 DEF Distinct
  <2>2. ASSUME NEW j \in 1..Len(s), s[j] # Head(s) PROVE s[j] \in Range(t)
    <3>1. j - 1 \in 1..Len(t) /\ (j - 1) + 1 = j
      BY <1>1, <1>4, <2>2
    <3>2. t[j - 1] = s[j]
      BY <1>1, <3>1
    <3> QED
      BY <1>3, <3>1, <3>2
  <2> QED
    BY <1>2, <1>3, <2>1, <2>2
<1> QED
  BY <1>1, <1>5, <1>7, <1>8 DEF t

(* The end of a queue.                                                      *)
LEMMA Suffix ==
  ASSUME NEW S, NEW s \in Seq(S), NEW k \in 1..Len(s)
  PROVE  LET b == SubSeq(s, k + 1, Len(s))
         IN b \in Seq(S) /\ Len(b) = Len(s) - k /\ \A j \in 1..(Len(s) - k) : b[j] = s[k + j]
<1> DEFINE b == SubSeq(s, k + 1, Len(s))
           m == k + 1
<1>1. /\ Len(s) \in Nat /\ k \in Int /\ 1 <= k /\ k <= Len(s) /\ Len(s) \in Int
      /\ \A j \in 1..Len(s) : s[j] \in S
  BY Elements
<1>2. m \in Int /\ m = k + 1
  BY <1>1
<1>3. b = SubSeq(s, m, Len(s))
  OBVIOUS
<1> HIDE DEF b, m
<1>4. \A j \in m..Len(s) : s[j] \in S
  BY <1>1, <1>2
<1>5. /\ b \in Seq(S) /\ Len(b) = IF m <= Len(s) THEN Len(s) - m + 1 ELSE 0
      /\ \A j \in 1..(Len(s) - m + 1) : b[j] = s[m + j - 1]
  BY <1>1, <1>2, <1>3, <1>4, SubSeqProperties
<1>6. Len(b) = Len(s) - k /\ Len(s) - m + 1 = Len(s) - k
  BY <1>1, <1>2, <1>5
<1>7. \A j \in 1..(Len(s) - k) : m + j - 1 = k + j
  BY <1>1, <1>2
<1> QED
  BY <1>5, <1>6, <1>7 DEF b

(* What is taken out of a queue was there once only.                        *)
LEMMA Removed ==
  ASSUME NEW S, NEW s \in Seq(S), Distinct(s), NEW e
  PROVE  /\ RemoveFirst(s, e) \in Seq(S) /\ Distinct(RemoveFirst(s, e))
         /\ Range(RemoveFirst(s, e)) = Range(s) \ {e}
<1>a. /\ Len(s) \in Nat /\ DOMAIN s = 1..Len(s) /\ Range(s) = {s[j] : j \in 1..Len(s)}
      /\ \A j \in 1..Len(s) : s[j] \in S
  BY Elements
<1>1. CASE ~ \E j \in 1..Len(s) : s[j] = e
  <2>1. RemoveFirst(s, e) = s
    BY <1>1 DEF RemoveFirst
  <2> QED
    BY <1>a, <1>1, <2>1
<1>2. CASE \E j \in 1..Len(s) : s[j] = e
  <2> DEFINE t == RemoveFirst(s, e)
  <2>1. PICK p \in 1..Len(s) : s[p] = e
    BY <1>2
  <2>2. {j \in 1..Len(s) : s[j] = e} = {p}
    BY <1>a, <2>1 DEF Distinct
  <2>3. Min({p}) = p
    BY <2>1 DEF Min
  <2>4. t = SubSeq(s, 1, p - 1) \o SubSeq(s, p + 1, Len(s))
    BY <1>2, <2>2, <2>3 DEF RemoveFirst, SelectInSeq, RemoveAt
  <2> DEFINE a == SubSeq(s, 1, p - 1)
             b == SubSeq(s, p + 1, Len(s))
  <2>5. /\ p \in Int /\ 1 <= p /\ p <= Len(s) /\ p - 1 \in Int /\ p + 1 \in Int
    BY <1>a, <2>1
  <2>6. /\ a \in Seq(S) /\ Len(a) = p - 1 /\ \A j \in 1..(p - 1) : a[j] = s[j]
    BY <1>a, <2>5
  <2>7. /\ b \in Seq(S) /\ Len(b) = Len(s) - p /\ \A j \in 1..(Len(s) - p) : b[j] = s[p + j]
    BY Suffix
  <2> HIDE DEF a, b
  <2>8. /\ a \o b \in Seq(S) /\ Len(a \o b) = Len(a) + Len(b)
        /\ \A j \in 1..(Len(a) + Len(b)) :
             (a \o b)[j] = IF j <= Len(a) THEN a[j] ELSE b[j - Len(a)]
    BY <2>6, <2>7, ConcatProperties, Zenon
  <2>9. t = a \o b
    BY <2>4 DEF a, b
  <2>10. t \in Seq(S) /\ Len(t) = Len(s) - 1
    <3>1. t \in Seq(S) /\ Len(t) = Len(a) + Len(b)
      BY <2>8, <2>9, Zenon
    <3>2. Len(a) + Len(b) = Len(s) - 1
      BY <1>a, <2>5, <2>6, <2>7
    <3> QED
      BY <3>1, <3>2
  <2> HIDE DEF t
  <2>11. \A j \in 1..(Len(s) - 1) : t[j] = IF j < p THEN s[j] ELSE s[j + 1]
    <3> SUFFICES ASSUME NEW j \in 1..(Len(s) - 1)
                 PROVE  t[j] = IF j < p THEN s[j] ELSE s[j + 1]
      OBVIOUS
    <3>1. Len(a) + Len(b) = Len(s) - 1
      BY <1>a, <2>5, <2>6, <2>7
    <3>2. t[j] = IF j <= Len(a) THEN a[j] ELSE b[j - Len(a)]
      BY <2>8, <2>9, <3>1
    <3>3. CASE j < p
      BY <2>5, <2>6, <3>2, <3>3
    <3>4. CASE j >= p
      <4>1. j - (p - 1) \in 1..(Len(s) - p) /\ p + (j - (p - 1)) = j + 1 /\ ~(j <= p - 1)
        BY <1>a, <2>5, <3>4
      <4> QED
        BY <2>5, <2>6, <2>7, <3>2, <3>4, <4>1
    <3> QED
      BY <2>5, <3>3, <3>4
  <2>12. DOMAIN t = 1..(Len(s) - 1) /\ Range(t) = {t[j] : j \in 1..(Len(s) - 1)}
    BY <2>10, Elements
  <2>13. \A j \in 1..(Len(s) - 1) :
           \E m \in (1..Len(s)) \ {p} : t[j] = s[m] /\ m = IF j < p THEN j ELSE j + 1
    <3> SUFFICES ASSUME NEW j \in 1..(Len(s) - 1)
                 PROVE  LET m == IF j < p THEN j ELSE j + 1
                        IN m \in (1..Len(s)) \ {p} /\ t[j] = s[m]
      OBVIOUS
    <3>1. CASE j < p
      BY <1>a, <2>5, <2>11, <3>1
    <3>2. CASE ~(j < p)
      BY <1>a, <2>5, <2>11, <3>2
    <3> QED
      BY <3>1, <3>2
  <2>14. Distinct(t)
    <3> SUFFICES ASSUME NEW j \in 1..(Len(s) - 1), NEW k \in 1..(Len(s) - 1), t[j] = t[k]
                 PROVE  j = k
      BY <2>12 DEF Distinct
    <3>1. PICK m \in 1..Len(s) : t[j] = s[m] /\ m = IF j < p THEN j ELSE j + 1
      BY <2>13
    <3>2. PICK n \in 1..Len(s) : t[k] = s[n] /\ n = IF k < p THEN k ELSE k + 1
      BY <2>13
    <3>3. m = n
      BY <1>a, <3>1, <3>2 DEF Distinct
    <3> QED
      BY <2>5, <3>1, <3>2, <3>3
  <2>15. \A m \in (1..Len(s)) \ {p} : \E j \in 1..(Len(s) - 1) : t[j] = s[m]
    <3> SUFFICES ASSUME NEW m \in (1..Len(s)) \ {p}
                 PROVE  \E j \in 1..(Len(s) - 1) : t[j] = s[m]
      OBVIOUS
    <3>1. CASE m < p
      BY <1>a, <2>5, <2>11, <3>1
    <3>2. CASE m > p
      <4>1. m - 1 \in 1..(Len(s) - 1) /\ ~(m - 1 < p) /\ (m - 1) + 1 = m
        BY <1>a, <2>5, <3>2
      <4> QED
        BY <2>11, <4>1
    <3> QED
      BY <2>5, <3>1, <3>2
  <2>16. \A m \in (1..Len(s)) \ {p} : s[m] # e
    BY <2>2
  <2>17. \A x \in Range(t) : x \in Range(s) \ {e}
    <3> SUFFICES ASSUME NEW j \in 1..(Len(s) - 1)
                 PROVE  t[j] \in Range(s) \ {e}
      BY <2>12
    <3>1. PICK m \in (1..Len(s)) \ {p} : t[j] = s[m]
      BY <2>13
    <3>2. s[m] # e /\ s[m] \in Range(s)
      BY <1>a, <2>16
    <3> QED
      BY <3>1, <3>2
  <2>18. \A x \in Range(s) \ {e} : x \in Range(t)
    <3> SUFFICES ASSUME NEW m \in 1..Len(s), s[m] # e
                 PROVE  s[m] \in Range(t)
      BY <1>a
    <3>1. m # p
      BY <2>1
    <3>2. PICK j \in 1..(Len(s) - 1) : t[j] = s[m]
      BY <2>15, <3>1
    <3> QED
      BY <2>12, <3>2
  <2>19. Range(t) = Range(s) \ {e}
    BY <2>17, <2>18
  <2> QED
    BY <2>10, <2>14, <2>19 DEF t
<1> QED
  BY <1>1, <1>2

(* A queue cut in two.                                                      *)
LEMMA CutInTwo ==
  ASSUME NEW S, NEW s \in Seq(S), Distinct(s), NEW k \in 1..Len(s)
  PROVE  LET a == SubSeq(s, 1, k)
             b == SubSeq(s, k + 1, Len(s))
         IN /\ a \in Seq(S) /\ Distinct(a) /\ a # <<>> /\ b \in Seq(S) /\ Distinct(b)
            /\ Range(a) \cup Range(b) = Range(s) /\ Range(a) \cap Range(b) = {}
<1> DEFINE a == SubSeq(s, 1, k)
           b == SubSeq(s, k + 1, Len(s))
<1>a. /\ Len(s) \in Nat /\ DOMAIN s = 1..Len(s) /\ Range(s) = {s[j] : j \in 1..Len(s)}
      /\ \A j \in 1..Len(s) : s[j] \in S
  BY Elements
<1>b. k \in Int /\ 1 <= k /\ k <= Len(s) /\ k + 1 \in Int
  BY <1>a
<1>1. a \in Seq(S) /\ Len(a) = k /\ \A j \in 1..k : a[j] = s[j]
  BY <1>a, <1>b
<1>2. b \in Seq(S) /\ Len(b) = Len(s) - k /\ \A j \in 1..(Len(s) - k) : b[j] = s[k + j]
  BY Suffix
<1> HIDE DEF a, b
<1>3. /\ DOMAIN a = 1..k /\ Range(a) = {a[j] : j \in 1..k} /\ a # <<>>
      /\ DOMAIN b = 1..(Len(s) - k) /\ Range(b) = {b[j] : j \in 1..(Len(s) - k)}
  <2>1. /\ DOMAIN a = 1..Len(a) /\ Range(a) = {a[j] : j \in 1..Len(a)}
        /\ a = <<>> <=> Len(a) = 0
    BY <1>1, Elements
  <2>2. DOMAIN b = 1..Len(b) /\ Range(b) = {b[j] : j \in 1..Len(b)}
    BY <1>2, Elements
  <2>3. Len(a) # 0
    BY <1>b, <1>1
  <2> QED
    BY <1>1, <1>2, <2>1, <2>2, <2>3, Zenon
<1>4. 1..k \subseteq 1..Len(s) /\ \A j \in 1..(Len(s) - k) : k + j \in 1..Len(s) /\ k + j > k
  BY <1>a, <1>b
<1>5. \A m \in 1..Len(s) : m \in 1..k \/ (m - k \in 1..(Len(s) - k) /\ k + (m - k) = m)
  BY <1>a, <1>b
<1>6. Distinct(a)
  BY <1>a, <1>1, <1>3, <1>4 DEF Distinct
<1>7. Distinct(b)
  <2> SUFFICES ASSUME NEW j \in 1..(Len(s) - k), NEW m \in 1..(Len(s) - k), b[j] = b[m]
               PROVE  j = m
    BY <1>3 DEF Distinct
  <2>1. s[k + j] = s[k + m]
    BY <1>2
  <2>2. k + j = k + m
    BY <1>a, <1>4, <2>1 DEF Distinct
  <2> QED
    BY <1>b, <2>2
<1>8. Range(a) \cup Range(b) = Range(s)
  <2>1. \A j \in 1..k : a[j] \in Range(s)
    BY <1>a, <1>1, <1>4
  <2>2. \A j \in 1..(Len(s) - k) : b[j] \in Range(s)
    BY <1>a, <1>2, <1>4
  <2>3. ASSUME NEW m \in 1..Len(s) PROVE s[m] \in Range(a) \cup Range(b)
    <3>1. CASE m \in 1..k
      BY <1>1, <1>3, <3>1
    <3>2. CASE m - k \in 1..(Len(s) - k) /\ k + (m - k) = m
      BY <1>2, <1>3, <3>2
    <3> QED
      BY <1>5, <3>1, <3>2
  <2> QED
    BY <1>a, <1>3, <2>1, <2>2, <2>3
<1>9. Range(a) \cap Range(b) = {}
  <2> SUFFICES ASSUME NEW j \in 1..k, NEW m \in 1..(Len(s) - k), a[j] = b[m] PROVE FALSE
    BY <1>3
  <2>1. s[j] = s[k + m] /\ j \in 1..Len(s) /\ k + m \in 1..Len(s) /\ k + m > k
    BY <1>1, <1>2, <1>4
  <2>2. j = k + m
    BY <1>a, <2>1 DEF Distinct
  <2> QED
    BY <1>b, <2>1, <2>2
<1> QED
  BY <1>1, <1>2, <1>3, <1>6, <1>7, <1>8, <1>9 DEF a, b

(* There is a smallest one of any natural numbers.                          *)
LEMMA Smallest ==
  ASSUME NEW S, S \subseteq Nat, S # {}
  PROVE  Min(S) \in S /\ \A y \in S : Min(S) <= y
<1> DEFINE R == OpToRel(<, Nat)
<1>1. IsWellFoundedOn(R, Nat)
  BY NatLessThanWellFounded
<1>2. \A x, y \in Nat : y < x => <<y, x>> \in R
  BY DEF OpToRel
<1> HIDE DEF R
<1>3. PICK x \in S : \A y \in S : ~ (<<y, x>> \in R)
  BY <1>1, WFMin
<1>4. \A y \in S : ~(y < x)
  BY <1>2, <1>3
<1>5. \A y \in S : x <= y
  BY <1>4
<1> QED
  BY <1>3, <1>5 DEF Min

-----------------------------------------------------------------------------
(* The invariant, step by step.                                            *)

LEMMA Descriptors ==
  ASSUME EpollAssumption
  PROVE  /\ server_fd \notin Fds /\ -1 \notin Fds /\ server_fd \in Watchable
         /\ Fds \subseteq Watchable /\ Nobody \notin Clients
BY DEF EpollAssumption, Watchable, server_fd

LEMMA InitInv ==
  ASSUME EpollAssumption, Init
  PROVE  Inv
<1>1. ClientTypes /\ TcpTypes
  BY DEF Init, ClientTypes, TcpTypes
<1>2. ServerTypes
  BY DEF Init, ServerTypes
<1>3. Range(ready) = {} /\ Range(events) = {}
  BY DEF Init, Range
<1>4. Queues
  <2>1. ready = <<>> /\ events = <<>> /\ <<>> \in Seq(Watchable) /\ Distinct(<<>>)
    BY DEF Init, Distinct
  <2> QED
    BY <1>3, <2>1 DEF Queues
<1>5. Table /\ Place
  BY Descriptors DEF Init, Table, Place, Adding, Watchable
<1>6. Current /\ Kept
  BY <1>3 DEF Init, Current, Kept, Due
<1> QED
  BY <1>1, <1>2, <1>4, <1>5, <1>6 DEF Inv

(* What the clients do leaves the server where it was.                     *)
LEMMA ServerParts ==
  ASSUME UNCHANGED server
  PROVE  UNCHANGED <<up, at, nofile, fds, watched, events, client_fd>>
BY DEF server

(* Something happens on a connection: it can be read from, and the edge     *)
(* brings it into the queue.                                                *)
LEMMA EdgeKeeps ==
  ASSUME EpollAssumption, Inv, NEW c \in Clients, Edge(c), UNCHANGED server, Readable(c)',
         \A d \in Clients \ {c} : Readable(d)' <=> Readable(d),
         \A d \in Clients : conn'[d] = "open" <=> conn[d] = "open"
  PROVE  ServerTypes' /\ Queues' /\ Table' /\ Place' /\ Current' /\ Kept'
<1>1. UNCHANGED <<up, at, nofile, fds, watched, events, client_fd>>
  BY ServerParts
<1>2. ServerTypes' /\ Place'
  BY <1>1 DEF Inv, ServerTypes, Place
<1>3. Table'
  BY <1>1 DEF Inv, Table, Adding
<1>4. fds \in [Fds -> Clients \cup {Nobody}] /\ Nobody \notin Clients
  BY Descriptors DEF Inv, ServerTypes
<1>5. \A f \in Fds : fds[f] \in Clients /\ fds[f] # c => (Readable(fds[f])' <=> Readable(fds[f]))
  BY <1>1
<1>6. \A f \in Fds : fds[f] = c => Readable(fds[f])'
  BY <1>1
<1>7. CASE \E f \in Fds : fds[f] = c /\ f \in watched
  <2>1. PICK f \in Fds : fds[f] = c /\ f \in watched
    BY <1>7
  <2>2. (CHOOSE g \in Fds : fds[g] = c) = f
    BY <1>4, <2>1 DEF Inv, Table
  <2>3. ready' = Queued(f) /\ f \in Watchable
    BY <1>7, <2>2, Descriptors DEF Edge
  <2>4. ready' \in Seq(Watchable) /\ Distinct(ready') /\ Range(ready') = Range(ready) \cup {f}
    BY <2>3, QueuedDoes DEF Inv
  <2>5. Queues'
    BY <1>1, <2>1, <2>4 DEF Inv, Queues
  <2>6. Due' = Due \cup {f}
    BY <1>1, <2>4 DEF Due
  <2>7. \A g \in Fds : g \in Due => fds[g] \in Clients
    <3>1. \A g \in Fds : g \in Due => g \in watched
      BY DEF Inv, Queues, Due
    <3> QED
      BY <1>4, <3>1 DEF Inv, Table
  <2>8. Current'
    <3> SUFFICES ASSUME NEW g \in Fds, g \in Due', ~InHand(g)' PROVE Readable(fds[g])'
      BY <1>1 DEF Current
    <3>1. CASE fds[g] = c
      BY <1>6, <3>1
    <3>2. CASE fds[g] # c
      <4>1. g \in Due /\ ~InHand(g)
        BY <1>1, <2>1, <2>6, <3>2 DEF InHand
      <4>2. Readable(fds[g])
        BY <4>1 DEF Inv, Current
      <4> QED
        BY <1>5, <2>7, <3>2, <4>1, <4>2
    <3> QED
      BY <3>1, <3>2
  <2>9. Kept'
    <3> SUFFICES ASSUME NEW g \in Fds, fds[g] # Nobody, Readable(fds[g])', ~Adding(g)
                 PROVE  g \in Due'
      BY <1>1 DEF Kept, Adding
    <3>1. CASE fds[g] = c
      <4>1. g = f
        BY <1>4, <2>1, <3>1 DEF Inv, Table
      <4> QED
        BY <2>6, <4>1
    <3>2. CASE fds[g] # c
      <4>1. Readable(fds[g])
        BY <1>4, <1>5, <3>2
      <4> QED
        BY <2>6, <4>1 DEF Inv, Kept
    <3> QED
      BY <3>1, <3>2
  <2> QED
    BY <1>2, <1>3, <2>5, <2>8, <2>9
<1>8. CASE ~ \E f \in Fds : fds[f] = c /\ f \in watched
  <2>1. ready' = ready
    BY <1>8 DEF Edge
  <2>2. Queues' /\ Due' = Due
    BY <1>1, <2>1 DEF Inv, Queues, Due
  <2>3. \A g \in Fds : g \in Due => fds[g] \in Clients \ {c}
    <3>1. \A g \in Fds : g \in Due => g \in watched
      BY DEF Inv, Queues, Due
    <3> QED
      BY <1>4, <1>8, <3>1 DEF Inv, Table
  <2>4. Current'
    <3> SUFFICES ASSUME NEW g \in Fds, g \in Due, ~InHand(g) PROVE Readable(fds[g])'
      BY <1>1, <2>2 DEF Current, InHand
    <3>1. Readable(fds[g])
      BY DEF Inv, Current
    <3> QED
      BY <1>5, <2>3, <3>1
  <2>5. Kept'
    <3> SUFFICES ASSUME NEW g \in Fds, fds[g] # Nobody, Readable(fds[g])', ~Adding(g)
                 PROVE  g \in Due
      BY <1>1, <2>2 DEF Kept, Adding
    <3>1. fds[g] # c
      BY <1>8 DEF Inv, Table
    <3>2. Readable(fds[g])
      BY <1>4, <1>5, <3>1
    <3> QED
      BY <3>2 DEF Inv, Kept
  <2> QED
    BY <1>2, <1>3, <2>2, <2>4, <2>5
<1> QED
  BY <1>7, <1>8

(* Steps of a client that bring nothing to the server.                      *)
LEMMA ServerUntouched ==
  ASSUME EpollAssumption, Inv, UNCHANGED server, ready' = ready,
         \A d \in Clients : Readable(d)' <=> Readable(d),
         \A d \in Clients : conn'[d] = "open" <=> conn[d] = "open"
  PROVE  ServerTypes' /\ Queues' /\ Table' /\ Place' /\ Current' /\ Kept'
<1>1. UNCHANGED <<up, at, nofile, fds, watched, events, client_fd>>
  BY ServerParts
<1>2. ServerTypes' /\ Place' /\ Table'
  BY <1>1 DEF Inv, ServerTypes, Place, Table, Adding
<1>3. Queues' /\ Due' = Due
  BY <1>1 DEF Inv, Queues, Due
<1>4. \A f \in Fds : fds[f] # Nobody => (Readable(fds[f])' <=> Readable(fds[f]))
  BY <1>1 DEF Inv, ServerTypes
<1>5. \A f \in Fds : f \in Due => fds[f] # Nobody
  BY DEF Inv, Table, Queues, Due
<1>6. Current'
  BY <1>1, <1>3, <1>4, <1>5 DEF Inv, Current, InHand
<1>7. Kept'
  BY <1>1, <1>3, <1>4 DEF Inv, Kept, Adding
<1> QED
  BY <1>2, <1>3, <1>6, <1>7

LEMMA ConnectKeeps ==
  ASSUME EpollAssumption, Inv, NEW c \in Clients, Connect(c)
  PROVE  Inv'
<1>1. /\ pc[c] = "connect" /\ pc' \in {[pc EXCEPT ![c] = "send"], [pc EXCEPT ![c] = "killed"]}
      /\ UNCHANGED <<got, flight, inq, took, end, answer, rst, server>>
  BY DEF Connect
<1>a. ClientTypes /\ TcpTypes
  BY DEF Inv
<1>2. ClientTypes'
  BY <1>1, <1>a DEF ClientTypes
<1>3. conn[c] = "none" /\ inq[c] = 0 /\ flight[c] = 0
  BY <1>1, <1>a DEF TcpTypes
<1>4. \/ /\ conn' = [conn EXCEPT ![c] = "backlog"] /\ ready' = Queued(server_fd)
         /\ pc' = [pc EXCEPT ![c] = "send"]
      \/ /\ UNCHANGED <<conn, ready>> /\ pc' = [pc EXCEPT ![c] = "killed"]
  BY DEF Connect
<1>5. TcpTypes'
  BY <1>1, <1>3, <1>4, <1>a DEF TcpTypes, ClientTypes
<1>6. \A d \in Clients : conn'[d] = "open" <=> conn[d] = "open"
  BY <1>3, <1>4, <1>a DEF TcpTypes
<1>7. \A d \in Clients : Readable(d)' <=> Readable(d)
  BY <1>1 DEF Readable
<1>8. CASE ready' = ready
  BY <1>1, <1>2, <1>5, <1>6, <1>7, <1>8, ServerUntouched DEF Inv
<1>9. CASE ready' = Queued(server_fd)
  <2>a. UNCHANGED <<up, at, nofile, fds, watched, events, client_fd>>
    BY <1>1, ServerParts
  <2>1. ServerTypes' /\ Place'
    BY <2>a DEF Inv, ServerTypes, Place
  <2>2. Table'
    BY <1>6, <2>a DEF Inv, Table, Adding
  <2>3. /\ ready' \in Seq(Watchable) /\ Distinct(ready')
        /\ Range(ready') = Range(ready) \cup {server_fd}
    BY <1>9, QueuedDoes, Descriptors DEF Inv
  <2>4. Queues'
    BY <2>a, <2>3 DEF Inv, Queues, Table
  <2>5. \A f \in Fds : f \in Due' <=> f \in Due
    BY <2>a, <2>3, Descriptors DEF Due
  <2>6. \A f \in Fds : fds[f] # Nobody => (Readable(fds[f])' <=> Readable(fds[f]))
    BY <1>7, <2>a DEF Inv, ServerTypes
  <2>7. \A f \in Fds : f \in Due => fds[f] # Nobody
    BY DEF Inv, Table, Queues, Due
  <2>8. Current' /\ Kept'
    BY <2>a, <2>5, <2>6, <2>7 DEF Inv, Current, Kept, InHand, Adding
  <2> QED
    BY <1>2, <1>5, <2>1, <2>2, <2>4, <2>8 DEF Inv
<1> QED
  BY <1>4, <1>8, <1>9

LEMMA SendKeeps ==
  ASSUME EpollAssumption, Inv, NEW c \in Clients, Send(c)
  PROVE  Inv'
<1>1. /\ pc[c] = "send" /\ pc' = [pc EXCEPT ![c] = "read"]
      /\ flight' = [flight EXCEPT ![c] = 2]
      /\ UNCHANGED <<got, conn, inq, took, end, answer, rst, ready, server>>
  BY DEF Send
<1>2. ClientTypes' /\ TcpTypes'
  BY <1>1 DEF Inv, ClientTypes, TcpTypes
<1>3. \A d \in Clients : Readable(d)' <=> Readable(d)
  BY <1>1 DEF Readable
<1>4. \A d \in Clients : conn'[d] = "open" <=> conn[d] = "open"
  BY <1>1
<1> QED
  BY <1>1, <1>2, <1>3, <1>4, ServerUntouched DEF Inv

LEMMA ArriveKeeps ==
  ASSUME EpollAssumption, Inv, NEW c \in Clients, Arrive(c)
  PROVE  Inv'
<1>1. PICK k \in 1..flight[c] :
        /\ flight' = [flight EXCEPT ![c] = @ - k]
        /\ \/ /\ inq' = [inq EXCEPT ![c] = @ + k] /\ Edge(c) /\ UNCHANGED rst
           \/ rst' = [rst EXCEPT ![c] = TRUE] /\ UNCHANGED <<inq, ready>>
  BY DEF Arrive
<1>2. UNCHANGED <<pc, got, conn, took, end, answer, server>>
  BY DEF Arrive
<1>a. ClientTypes /\ TcpTypes
  BY DEF Inv
<1>b. flight[c] \in 0..2 /\ inq[c] \in 0..2 /\ inq[c] + flight[c] <= 2
  BY <1>a DEF TcpTypes
<1>3. ClientTypes'
  BY <1>1, <1>2, <1>a DEF ClientTypes
<1>4. pc[c] \notin {"connect", "send"}
  BY <1>1, <1>a DEF TcpTypes
<1>5. \A d \in Clients : conn'[d] = "open" <=> conn[d] = "open"
  BY <1>2
<1>6. CASE inq' = [inq EXCEPT ![c] = @ + k] /\ Edge(c)
  <2>1. /\ flight[c] - k \in 0..2 /\ inq[c] + k \in 0..2 /\ inq[c] + k > 0
        /\ (inq[c] + k) + (flight[c] - k) <= 2
    <3> DEFINE a == flight[c]
               b == inq[c]
    <3>1. a \in 0..2 /\ b \in 0..2 /\ b + a <= 2 /\ k \in 1..a
      BY <1>b
    <3> HIDE DEF a, b
    <3>2. /\ a - k \in 0..2 /\ b + k \in 0..2 /\ b + k > 0
          /\ (b + k) + (a - k) <= 2
      BY <3>1
    <3> QED
      BY <3>2 DEF a, b
  <2>2. TcpTypes'
    BY <1>1, <1>2, <1>4, <1>6, <1>a, <2>1 DEF TcpTypes
  <2>3. inq'[c] > 0 /\ \A d \in Clients \ {c} : inq'[d] = inq[d]
    BY <1>6, <1>a, <2>1 DEF TcpTypes
  <2>4. Readable(c)' /\ \A d \in Clients \ {c} : Readable(d)' <=> Readable(d)
    BY <1>2, <2>3 DEF Readable
  <2> QED
    BY <1>2, <1>3, <1>5, <1>6, <2>2, <2>4, EdgeKeeps DEF Inv
<1>7. CASE UNCHANGED <<inq, ready>>
  <2>1. flight[c] - k \in 0..2 /\ inq[c] + (flight[c] - k) <= 2
    <3> DEFINE a == flight[c]
               b == inq[c]
    <3>1. a \in 0..2 /\ b \in 0..2 /\ b + a <= 2 /\ k \in 1..a
      BY <1>b
    <3> HIDE DEF a, b
    <3>2. a - k \in 0..2 /\ b + (a - k) <= 2
      BY <3>1
    <3> QED
      BY <3>2 DEF a, b
  <2>2. TcpTypes'
    BY <1>1, <1>2, <1>4, <1>7, <1>a, <2>1 DEF TcpTypes
  <2>3. \A d \in Clients : Readable(d)' <=> Readable(d)
    BY <1>2, <1>7 DEF Readable
  <2> QED
    BY <1>2, <1>3, <1>5, <1>7, <2>2, <2>3, ServerUntouched DEF Inv
<1> QED
  BY <1>1, <1>6, <1>7

LEMMA ReceiveKeeps ==
  ASSUME EpollAssumption, Inv, NEW c \in Clients, Receive(c)
  PROVE  Inv'
<1>1. /\ pc[c] = "read" /\ pc' = [pc EXCEPT ![c] = "done"] /\ end' = [end EXCEPT ![c] = "eof"]
      /\ got' = [got EXCEPT ![c] = TRUE] \/ got' = got
      /\ Edge(c) /\ UNCHANGED <<conn, flight, inq, took, answer, rst, server>>
  BY DEF Receive
<1>2. ClientTypes' /\ TcpTypes'
  BY <1>1 DEF Inv, ClientTypes, TcpTypes
<1>3. end'[c] = "eof" /\ \A d \in Clients \ {c} : end'[d] = end[d]
  BY <1>1 DEF Inv, ClientTypes
<1>4. Readable(c)' /\ \A d \in Clients \ {c} : Readable(d)' <=> Readable(d)
  BY <1>1, <1>3 DEF Readable
<1>5. \A d \in Clients : conn'[d] = "open" <=> conn[d] = "open"
  BY <1>1
<1> QED
  BY <1>1, <1>2, <1>4, <1>5, EdgeKeeps DEF Inv

LEMMA KilledKeeps ==
  ASSUME EpollAssumption, Inv, NEW c \in Clients, Killed(c)
  PROVE  Inv'
<1>1. /\ pc' = [pc EXCEPT ![c] = "killed"] /\ flight' = [flight EXCEPT ![c] = 0]
      /\ Edge(c) /\ UNCHANGED <<got, conn, inq, took, answer, rst, server>>
  BY DEF Killed
<1>2. PICK e \in {"eof", "reset"} : end' = [end EXCEPT ![c] = e]
  BY DEF Killed
<1>3. ClientTypes' /\ TcpTypes'
  BY <1>1, <1>2 DEF Inv, ClientTypes, TcpTypes
<1>4. end'[c] # "no" /\ \A d \in Clients \ {c} : end'[d] = end[d]
  BY <1>2 DEF Inv, ClientTypes
<1>5. Readable(c)' /\ \A d \in Clients \ {c} : Readable(d)' <=> Readable(d)
  BY <1>1, <1>4 DEF Readable
<1>6. \A d \in Clients : conn'[d] = "open" <=> conn[d] = "open"
  BY <1>1
<1> QED
  BY <1>1, <1>3, <1>5, <1>6, EdgeKeeps DEF Inv

(* epoll_wait moves a part of the queue into the batch; of the others it    *)
(* drops the listener only, when nobody waits there.                        *)
LEMMA WaitKeeps ==
  ASSUME EpollAssumption, Inv, Wait
  PROVE  Inv'
<1> DEFINE rdy == IF Backlog = {} THEN RemoveFirst(ready, server_fd) ELSE ready
<1>1. /\ at = "wait" /\ at' = "event"
      /\ UNCHANGED <<pc, got, tcp, up, nofile, fds, watched, client_fd>>
  BY DEF Wait
<1>a. UNCHANGED <<conn, flight, inq, took, end, answer, rst>>
  BY <1>1 DEF tcp
<1>2. PICK k \in 1..Min({Len(rdy), MAX_EVENTS}) :
        LET rest == SubSeq(rdy, k + 1, Len(rdy)) IN
          /\ events' = SubSeq(rdy, 1, k)
          /\ ready' = IF server_fd \in Range(events') THEN Append(rest, server_fd) ELSE rest
  BY DEF Wait
<1>3. /\ rdy \in Seq(Watchable) /\ Distinct(rdy)
      /\ Range(rdy) \in {Range(ready), Range(ready) \ {server_fd}}
  <2>1. ready \in Seq(Watchable) /\ Distinct(ready)
    BY DEF Inv, Queues
  <2>2. /\ RemoveFirst(ready, server_fd) \in Seq(Watchable)
        /\ Distinct(RemoveFirst(ready, server_fd))
        /\ Range(RemoveFirst(ready, server_fd)) = Range(ready) \ {server_fd}
    BY <2>1, Removed
  <2> QED
    BY <2>1, <2>2
<1> HIDE DEF rdy
<1>4. k \in 1..Len(rdy)
  <2> DEFINE n == Len(rdy)
             m == Min({n, MAX_EVENTS})
  <2>1. n \in Nat /\ MAX_EVENTS \in Nat
    BY <1>3, Elements DEF EpollAssumption
  <2>2. k \in 1..m
    BY <1>2
  <2> HIDE DEF n
  <2>3. m \in {n, MAX_EVENTS} /\ m <= n
    BY <2>1, Smallest
  <2> HIDE DEF m
  <2>4. k \in 1..n
    BY <2>1, <2>2, <2>3
  <2> QED
    BY <2>4 DEF n
<1> DEFINE a == SubSeq(rdy, 1, k)
           b == SubSeq(rdy, k + 1, Len(rdy))
<1>5. /\ a \in Seq(Watchable) /\ Distinct(a) /\ b \in Seq(Watchable) /\ Distinct(b)
      /\ Range(a) \cup Range(b) = Range(rdy) /\ Range(a) \cap Range(b) = {}
  BY <1>3, <1>4, CutInTwo
<1>6. events' = a /\ ready' = IF server_fd \in Range(a) THEN Append(b, server_fd) ELSE b
  BY <1>2
<1> HIDE DEF a, b
<1>7. /\ ready' \in Seq(Watchable) /\ Distinct(ready')
      /\ Range(ready') \in {Range(b), Range(b) \cup {server_fd}}
      /\ server_fd \in Range(ready') => server_fd \in Range(rdy)
  <2>1. CASE server_fd \in Range(a)
    <3>1. server_fd \notin Range(b) /\ server_fd \in Range(rdy) /\ server_fd \in Watchable
      BY <1>5, <2>1, Descriptors
    <3>2. /\ Append(b, server_fd) \in Seq(Watchable) /\ Distinct(Append(b, server_fd))
          /\ Range(Append(b, server_fd)) = Range(b) \cup {server_fd}
      BY <1>5, <3>1, Appended
    <3> QED
      BY <1>6, <2>1, <3>1, <3>2
  <2>2. CASE server_fd \notin Range(a)
    BY <1>5, <1>6, <2>2
  <2> QED
    BY <2>1, <2>2
<1>8. ClientTypes' /\ TcpTypes' /\ ServerTypes'
  BY <1>1, <1>a DEF Inv, ClientTypes, TcpTypes, ServerTypes
<1>9. Queues'
  <2>1. Range(ready) \subseteq watched
    BY DEF Inv, Queues
  <2>2. Range(ready') \subseteq watched /\ Range(events') \subseteq watched
    BY <1>3, <1>5, <1>6, <1>7, <2>1
  <2> QED
    BY <1>1, <1>5, <1>6, <1>7, <2>2 DEF Queues
<1>10. Table' /\ Place'
  BY <1>1, <1>a DEF Inv, Table, Adding, Place
<1>11. \A f \in Fds : f \in Due' <=> f \in Due
  <2>1. \A f \in Fds : f # server_fd
    BY Descriptors
  <2>2. Range(events) = {}
    BY <1>1 DEF Inv, Place, Range
  <2> QED
    BY <1>3, <1>5, <1>6, <1>7, <2>1, <2>2 DEF Due
<1>12. \A f \in Fds : Readable(fds[f])' <=> Readable(fds[f])
  BY <1>1, <1>a DEF Readable
<1>13. Current' /\ Kept'
  BY <1>1, <1>11, <1>12 DEF Inv, Current, Kept, InHand, Adding
<1> QED
  BY <1>8, <1>9, <1>10, <1>13 DEF Inv

(* accept gives a new connection the smallest free descriptor, which no     *)
(* event is about.                                                          *)
LEMMA AcceptKeeps ==
  ASSUME EpollAssumption, Inv, Accept
  PROVE  Inv'
<1>1. /\ at = "event" /\ at' = "add" /\ events # <<>> /\ Head(events) = server_fd
      /\ UNCHANGED <<pc, got, flight, inq, took, end, answer, rst, ready, up, nofile, watched,
                     events>>
  BY DEF Accept
<1>a. Due' = Due /\ \A d : Readable(d)' <=> Readable(d)
  BY <1>1 DEF Due, Readable
<1>b. \A f : ~InHand(f) /\ ~InHand(f)' /\ ~Adding(f)
  BY <1>1 DEF InHand, Adding
<1>2. ClientTypes' /\ Queues'
  BY <1>1 DEF Inv, ClientTypes, Queues
<1>3. CASE Free = {}
  <2>1. client_fd' = -1 /\ UNCHANGED <<conn, fds>>
    BY <1>3 DEF Accept
  <2>2. TcpTypes' /\ ServerTypes'
    BY <1>1, <2>1 DEF Inv, TcpTypes, ServerTypes
  <2>3. \A f \in Fds : ~Adding(f)'
    BY <2>1, Descriptors DEF Adding
  <2>4. Table'
    BY <1>1, <1>b, <2>1, <2>3 DEF Inv, Table
  <2>5. Place'
    BY <1>1, <2>1, Descriptors DEF Place
  <2>6. Current' /\ Kept'
    BY <1>a, <1>b, <2>1, <2>3 DEF Inv, Current, Kept
  <2> QED
    BY <1>2, <2>2, <2>4, <2>5, <2>6 DEF Inv
<1>4. CASE Free # {}
  <2> DEFINE f == Min(Free)
  <2>1. PICK c \in Backlog :
          /\ conn' = [conn EXCEPT ![c] = "open"] /\ fds' = [fds EXCEPT ![f] = c]
          /\ client_fd' = f
    BY <1>4 DEF Accept
  <2>2. f \in Free
    <3>1. Free \subseteq Nat
      BY DEF Free, EpollAssumption
    <3> QED
      BY <1>4, <3>1, Smallest
  <2> HIDE DEF f
  <2>3. f \in Fds /\ fds[f] = Nobody /\ c \in Clients /\ conn[c] = "backlog" /\ c # Nobody
    BY <2>1, <2>2, Descriptors DEF Free, Backlog
  <2>4. fds \in [Fds -> Clients \cup {Nobody}] /\ conn \in [Clients -> {"none", "backlog", "open", "closed"}]
    BY DEF Inv, ServerTypes, TcpTypes
  <2>5. TcpTypes'
    <3>1. pc[c] # "connect"
      BY <2>3 DEF Inv, TcpTypes
    <3> QED
      BY <1>1, <2>1, <2>3, <2>4, <3>1 DEF Inv, TcpTypes
  <2>6. ServerTypes'
    BY <1>1, <2>1, <2>3 DEF Inv, ServerTypes
  <2>7. /\ fds'[f] = c /\ \A g \in Fds \ {f} : fds'[g] = fds[g]
        /\ conn'[c] = "open" /\ \A d \in Clients \ {c} : conn'[d] = conn[d]
    BY <2>1, <2>3, <2>4
  <2>8. (\A g \in Fds : fds[g] # c) /\ f \notin watched
    BY <2>3 DEF Inv, Table
  <2>9. \A g \in Fds : Adding(g)' <=> g = f
    BY <1>1, <2>1 DEF Adding
  <2>10. Table'
    <3>1. \A g, h \in Fds : fds'[g] = fds'[h] /\ fds'[g] # Nobody => g = h
      BY <2>7, <2>8 DEF Inv, Table
    <3>2. \A d \in Clients : conn'[d] = "open" <=> \E g \in Fds : fds'[g] = d
      <4>1. \A d \in Clients \ {c} : (\E g \in Fds : fds'[g] = d) <=> \E g \in Fds : fds[g] = d
        BY <2>3, <2>7, Descriptors
      <4> QED
        BY <2>3, <2>7, <4>1 DEF Inv, Table
    <3>3. \A g \in Fds : g \in watched <=> fds'[g] # Nobody /\ ~Adding(g)'
      BY <1>b, <2>3, <2>7, <2>8, <2>9 DEF Inv, Table
    <3> QED
      BY <1>1, <3>1, <3>2, <3>3 DEF Inv, Table
  <2>11. Place'
    BY <1>1, <2>1, <2>3, <2>7 DEF Place
  <2>12. f \notin Due
    BY <2>8 DEF Inv, Queues, Due
  <2>13. Current' /\ Kept'
    <3>1. Current'
      BY <1>1, <1>a, <1>b, <2>7, <2>12 DEF Inv, Current, Readable
    <3>2. Kept'
      BY <1>1, <1>a, <1>b, <2>7, <2>9 DEF Inv, Kept, Readable
    <3> QED
      BY <3>1, <3>2
  <2> QED
    BY <1>2, <2>5, <2>6, <2>10, <2>11, <2>13 DEF Inv
<1> QED
  BY <1>3, <1>4

(* The events that are left when main is through with the first one.        *)
LEMMA AllButFirst ==
  ASSUME Inv, events # <<>>
  PROVE  /\ Tail(events) \in Seq(Watchable) /\ Distinct(Tail(events))
         /\ Range(Tail(events)) = Range(events) \ {Head(events)}
         /\ Head(events) \in Range(events) /\ Head(events) \in watched
<1>1. events \in Seq(Watchable) /\ Distinct(events) /\ Range(events) \subseteq watched
  BY DEF Inv, Queues
<1>2. /\ Head(events) \in Range(events) /\ Tail(events) \in Seq(Watchable)
      /\ Distinct(Tail(events)) /\ Range(Tail(events)) = Range(events) \ {Head(events)}
  BY <1>1, HeadAndTail
<1> QED
  BY <1>1, <1>2

(* EPOLL_CTL_ADD finds what has arrived before it.                          *)
LEMMA AddKeeps ==
  ASSUME EpollAssumption, Inv, Add
  PROVE  Inv'
<1>1. /\ at = "add" /\ at' = "event" /\ events' = Tail(events)
      /\ watched' = IF client_fd \in Fds THEN watched \cup {client_fd} ELSE watched
      /\ ready' = IF client_fd \in Fds THEN AfterAdd(client_fd) ELSE ready
      /\ UNCHANGED <<pc, got, tcp, up, nofile, fds, client_fd>>
  BY DEF Add, NextEvents
<1>a. UNCHANGED <<conn, flight, inq, took, end, answer, rst>>
  BY <1>1 DEF tcp
<1>2. events # <<>> /\ Head(events) = server_fd
  BY <1>1 DEF Inv, Place
<1>3. /\ events' \in Seq(Watchable) /\ Distinct(events')
      /\ Range(events') = Range(events) \ {server_fd}
  BY <1>1, <1>2, AllButFirst
<1>4. ClientTypes' /\ TcpTypes' /\ ServerTypes' /\ Place'
  BY <1>1, <1>a DEF Inv, ClientTypes, TcpTypes, ServerTypes, Place
<1>5. \A f \in Fds : Readable(fds[f])' <=> Readable(fds[f])
  BY <1>1, <1>a DEF Readable
<1>6. \A f \in Fds : ~InHand(f) /\ ~InHand(f)' /\ ~Adding(f)' /\ (Adding(f) <=> client_fd = f)
  BY <1>1 DEF InHand, Adding
<1>7. CASE client_fd \notin Fds
  <2>1. UNCHANGED <<watched, ready>>
    BY <1>1, <1>7
  <2>2. Queues'
    BY <1>3, <2>1 DEF Inv, Queues
  <2>3. Table'
    BY <1>1, <1>a, <1>6, <1>7, <2>1 DEF Inv, Table
  <2>4. \A f \in Fds : f \in Due' <=> f \in Due
    BY <1>3, <2>1, Descriptors DEF Due
  <2>5. Current' /\ Kept'
    BY <1>1, <1>5, <1>6, <1>7, <2>4 DEF Inv, Current, Kept
  <2> QED
    BY <1>4, <2>2, <2>3, <2>5 DEF Inv
<1>8. CASE client_fd \in Fds
  <2> DEFINE f == client_fd
  <2>1. watched' = watched \cup {f} /\ ready' = AfterAdd(f) /\ f \in Watchable /\ f \in Fds
    BY <1>1, <1>8, Descriptors
  <2>2. fds[f] # Nobody
    BY <1>1, <1>8 DEF Inv, Place
  <2>3. /\ ready' \in Seq(Watchable) /\ Distinct(ready')
        /\ Range(ready') = IF Readable(fds[f]) THEN Range(ready) \cup {f} ELSE Range(ready)
    <3>1. CASE Readable(fds[f])
      BY <2>1, <3>1, QueuedDoes DEF Inv, AfterAdd
    <3>2. CASE ~Readable(fds[f])
      BY <2>1, <3>2 DEF Inv, AfterAdd, Queues
    <3> QED
      BY <3>1, <3>2
  <2>4. Queues'
    BY <1>3, <2>1, <2>3 DEF Inv, Queues
  <2>5. \A g \in Fds : Adding(g) <=> g = f
    BY <1>6
  <2> HIDE DEF f
  <2>6. Table'
    <3>1. \A g \in Fds : g \in watched' <=> fds[g] # Nobody
      BY <2>1, <2>2, <2>5 DEF Inv, Table
    <3> QED
      BY <1>1, <1>a, <1>6, <2>1, <3>1 DEF Inv, Table
  <2>7. \A g \in Fds : g \in Due' <=> g \in Due \/ (g = f /\ Readable(fds[f]))
    BY <1>3, <2>3, Descriptors DEF Due
  <2>8. Current' /\ Kept'
    BY <1>1, <1>5, <1>6, <2>5, <2>7 DEF Inv, Current, Kept
  <2> QED
    BY <1>4, <2>4, <2>6, <2>8 DEF Inv
<1> QED
  BY <1>7, <1>8

(* What is served is an open connection, under one descriptor.              *)
LEMMA ServedIsOpen ==
  ASSUME EpollAssumption, Inv, events # <<>>, Head(events) # server_fd, at # "add"
  PROVE  /\ Head(events) \in Fds /\ Head(events) \in watched /\ Served \in Clients
         /\ \A f \in Fds : fds[f] = Served => f = Head(events)
<1>1. Head(events) \in watched
  BY AllButFirst
<1>2. Head(events) \in Fds
  BY <1>1 DEF Inv, Table, Watchable
<1>3. Served # Nobody
  BY <1>1, <1>2 DEF Inv, Table, Served
<1>4. Served \in Clients
  BY <1>2, <1>3 DEF Inv, ServerTypes, Served
<1>5. \A f \in Fds : fds[f] = Served => f = Head(events)
  BY <1>2, <1>3 DEF Inv, Table, Served
<1> QED
  BY <1>1, <1>2, <1>4, <1>5

LEMMA ReadKeeps ==
  ASSUME EpollAssumption, Inv, Read
  PROVE  Inv'
<1>1. /\ at = "event" /\ events # <<>> /\ Head(events) # server_fd /\ at' = "send"
      /\ Readable(Served)
      /\ took' = [took EXCEPT ![Served] = inq[Served]] /\ inq' = [inq EXCEPT ![Served] = 0]
      /\ UNCHANGED <<pc, got, conn, flight, end, answer, rst, ready, up, nofile, fds, watched,
                     events, client_fd>>
  BY DEF Read
<1>2. /\ Head(events) \in Fds /\ Served \in Clients
      /\ \A f \in Fds : fds[f] = Served => f = Head(events)
  BY <1>1, ServedIsOpen
<1>3. ClientTypes'
  BY <1>1 DEF Inv, ClientTypes
<1>4. TcpTypes'
  BY <1>1, <1>2 DEF Inv, TcpTypes
<1>5. ServerTypes' /\ Queues' /\ Place'
  BY <1>1 DEF Inv, ServerTypes, Queues, Place
<1>6. \A f \in Fds : ~Adding(f) /\ ~Adding(f)' /\ ~InHand(f) /\ (InHand(f)' <=> f = Head(events))
  BY <1>1 DEF Adding, InHand
<1>7. Table'
  BY <1>1, <1>6 DEF Inv, Table
<1>8. Due' = Due
  BY <1>1 DEF Due
<1>9. \A d \in Clients \ {Served} : Readable(d)' <=> Readable(d)
  BY <1>1 DEF Inv, TcpTypes, Readable
<1>11. \A f \in Fds : f \in Due => fds[f] \in Clients
  <2>1. \A f \in Fds : f \in Due => f \in watched
    BY DEF Inv, Queues, Due
  <2> QED
    BY <2>1 DEF Inv, Table, ServerTypes
<1>12. Current'
  <2> SUFFICES ASSUME NEW f \in Fds, f \in Due, f # Head(events) PROVE Readable(fds[f])'
    BY <1>6, <1>8 DEF Current
  <2>1. Readable(fds[f]) /\ fds[f] \in Clients \ {Served}
    BY <1>2, <1>6, <1>11 DEF Inv, Current
  <2>2. Readable(fds[f])' <=> Readable(fds[f])
    BY <1>1, <1>9, <2>1
  <2> QED
    BY <2>1, <2>2
<1>13. Kept'
  <2> SUFFICES ASSUME NEW f \in Fds, fds[f] # Nobody, Readable(fds[f])' PROVE f \in Due
    BY <1>1, <1>8 DEF Kept
  <2>1. fds[f] \in Clients
    BY DEF Inv, ServerTypes
  <2>2. Readable(fds[f])
    <3>1. CASE fds[f] = Served
      BY <1>1, <3>1
    <3>2. CASE fds[f] # Served
      BY <1>1, <1>9, <2>1, <3>2
    <3> QED
      BY <3>1, <3>2
  <2> QED
    BY <1>6, <2>2 DEF Inv, Kept
<1> QED
  BY <1>3, <1>4, <1>5, <1>7, <1>12, <1>13 DEF Inv

LEMMA ReplyKeeps ==
  ASSUME EpollAssumption, Inv, Reply
  PROVE  Inv'
<1>1. /\ at = "send" /\ at' \in {"send", "close"} /\ up' \in {up, FALSE}
      /\ answer' \in {answer, [answer EXCEPT ![Served] = TRUE]}
      /\ UNCHANGED <<pc, got, conn, flight, inq, took, end, rst, ready, nofile, fds, watched,
                     events, client_fd>>
  BY DEF Reply
<1>2. ClientTypes' /\ TcpTypes' /\ ServerTypes'
  BY <1>1 DEF Inv, ClientTypes, TcpTypes, ServerTypes
<1>3. Queues' /\ Place' /\ Due' = Due
  BY <1>1 DEF Inv, Queues, Place, Due
<1>4. \A f \in Fds : ~Adding(f) /\ ~Adding(f)' /\ (InHand(f)' <=> InHand(f))
  BY <1>1 DEF Adding, InHand
<1>5. \A f \in Fds : Readable(fds[f])' <=> Readable(fds[f])
  BY <1>1 DEF Readable
<1>6. Table' /\ Current' /\ Kept'
  BY <1>1, <1>3, <1>4, <1>5 DEF Inv, Table, Current, Kept
<1> QED
  BY <1>2, <1>3, <1>6 DEF Inv

(* close takes the descriptor out of the table, of epoll and of its queue.  *)
LEMMA CloseKeeps ==
  ASSUME EpollAssumption, Inv, Close
  PROVE  Inv'
<1> DEFINE f == Head(events)
           c == Served
<1>1. /\ at = "close" /\ at' = "event" /\ events' = Tail(events)
      /\ conn' = [conn EXCEPT ![c] = "closed"] /\ rst' = [rst EXCEPT ![c] = inq[c] > 0]
      /\ fds' = [fds EXCEPT ![f] = Nobody] /\ watched' = watched \ {f}
      /\ ready' = RemoveFirst(ready, f)
      /\ UNCHANGED <<pc, got, flight, inq, took, end, answer, up, nofile, client_fd>>
  BY DEF Close, NextEvents, WithoutServed
<1>2. events # <<>> /\ f # server_fd
  BY <1>1 DEF Inv, Place
<1>3. f \in Fds /\ c \in Clients /\ c = fds[f] /\ \A g \in Fds : fds[g] = c => g = f
  BY <1>1, <1>2, ServedIsOpen DEF Served
<1>4. /\ events' \in Seq(Watchable) /\ Distinct(events')
      /\ Range(events') = Range(events) \ {f}
  BY <1>1, <1>2, AllButFirst
<1>5. ready' \in Seq(Watchable) /\ Distinct(ready') /\ Range(ready') = Range(ready) \ {f}
  BY <1>1, Removed DEF Inv, Queues
<1>6. \A g \in Fds : InHand(g) <=> g = f
  BY <1>1 DEF InHand
<1>7. \A g \in Fds : ~InHand(g)' /\ ~Adding(g) /\ ~Adding(g)'
  BY <1>1 DEF InHand, Adding
<1> HIDE DEF f, c
<1>8. ClientTypes'
  <2>1. PICK b \in BOOLEAN : rst' = [rst EXCEPT ![c] = b]
    <3>1. (inq[c] > 0) \in BOOLEAN
      BY <1>3 DEF Inv, TcpTypes
    <3> QED
      BY <1>1, <3>1, Zenon
  <2>2. UNCHANGED <<pc, got, answer, end>>
    BY <1>1
  <2>3. rst' \in [Clients -> BOOLEAN]
    BY <1>3, <2>1 DEF Inv, ClientTypes
  <2> QED
    BY <2>2, <2>3 DEF Inv, ClientTypes
<1>9. TcpTypes'
  <2>1. pc[c] # "connect"
    BY <1>3 DEF Inv, TcpTypes, Table
  <2> QED
    BY <1>1, <1>3, <2>1 DEF Inv, TcpTypes
<1>10. ServerTypes' /\ Place'
  BY <1>1 DEF Inv, ServerTypes, Place
<1>11. Queues'
  BY <1>1, <1>4, <1>5 DEF Inv, Queues
<1>12. /\ fds'[f] = Nobody /\ \A g \in Fds \ {f} : fds'[g] = fds[g]
       /\ conn'[c] = "closed" /\ \A d \in Clients \ {c} : conn'[d] = conn[d]
  BY <1>1, <1>3 DEF Inv, ServerTypes, TcpTypes
<1>13. Table'
  <2>1. \A g, h \in Fds : fds'[g] = fds'[h] /\ fds'[g] # Nobody => g = h
    BY <1>12 DEF Inv, Table
  <2>2. \A d \in Clients : conn'[d] = "open" <=> \E g \in Fds : fds'[g] = d
    <3>1. \A g \in Fds : fds'[g] # c
      BY <1>3, <1>12, Descriptors
    <3>2. \A d \in Clients \ {c} : (\E g \in Fds : fds'[g] = d) <=> \E g \in Fds : fds[g] = d
      BY <1>3, <1>12, Descriptors
    <3> QED
      BY <1>12, <3>1, <3>2 DEF Inv, Table
  <2>3. \A g \in Fds : g \in watched' <=> fds'[g] # Nobody /\ ~Adding(g)'
    BY <1>1, <1>7, <1>12 DEF Inv, Table
  <2>4. watched' \subseteq Watchable /\ server_fd \in watched'
    BY <1>1, <1>3, Descriptors DEF Inv, Table
  <2> QED
    BY <2>1, <2>2, <2>3, <2>4 DEF Table
<1>14. \A g \in Fds : g \in Due' <=> g \in Due \ {f}
  BY <1>4, <1>5 DEF Due
<1>15. \A g \in Fds \ {f} : Readable(fds[g])' <=> Readable(fds[g])
  BY <1>1, <1>12 DEF Readable
<1>16. Current'
  BY <1>6, <1>14, <1>15 DEF Inv, Current
<1>17. Kept'
  BY <1>7, <1>12, <1>14, <1>15 DEF Inv, Kept
<1> QED
  BY <1>8, <1>9, <1>10, <1>11, <1>13, <1>16, <1>17 DEF Inv

(* Every step keeps the invariant.                                          *)
LEMMA NextInv ==
  ASSUME EpollAssumption
  PROVE  Inv /\ [Next]_vars => Inv'
<1> SUFFICES ASSUME Inv, [Next]_vars PROVE Inv'
  OBVIOUS
<1>1. CASE ServerStep
  <2>1. CASE Again
    <3>1. /\ at = "event" /\ at' = "wait" /\ events = <<>> /\ UNCHANGED <<conn, inq, end, flight>>
          /\ UNCHANGED <<pc, got, took, answer, rst, ready, up, nofile, fds, watched, events,
                         client_fd>>
      BY <2>1 DEF Again, tcp
    <3>2. ClientTypes' /\ TcpTypes' /\ ServerTypes'
      BY <3>1 DEF Inv, ClientTypes, TcpTypes, ServerTypes
    <3>3. Queues' /\ Place' /\ Due' = Due
      BY <3>1 DEF Inv, Queues, Place, Due
    <3>4. \A f \in Fds : ~Adding(f) /\ ~Adding(f)' /\ ~InHand(f) /\ ~InHand(f)'
      BY <3>1 DEF Adding, InHand
    <3>5. \A f \in Fds : Readable(fds[f])' <=> Readable(fds[f])
      BY <3>1 DEF Readable
    <3>6. Table' /\ Current' /\ Kept'
      BY <3>1, <3>3, <3>4, <3>5 DEF Inv, Table, Current, Kept
    <3> QED
      BY <3>2, <3>3, <3>6 DEF Inv
  <2> QED
    BY <1>1, <2>1, WaitKeeps, AcceptKeeps, AddKeeps, ReadKeeps, ReplyKeeps, CloseKeeps
       DEF ServerStep
<1>2. ASSUME NEW c \in Clients, ClientStep(c) \/ Killed(c) PROVE Inv'
  BY <1>2, ConnectKeeps, SendKeeps, ArriveKeeps, ReceiveKeeps, KilledKeeps DEF ClientStep
<1>3. CASE UNCHANGED vars
  <2>1. /\ UNCHANGED <<pc, got, conn, flight, inq, took, end, answer, rst, ready, server>>
    BY <1>3 DEF vars, tcp
  <2>2. ClientTypes' /\ TcpTypes'
    BY <2>1 DEF Inv, ClientTypes, TcpTypes
  <2>3. \A d \in Clients : Readable(d)' <=> Readable(d)
    BY <2>1 DEF Readable
  <2>4. \A d \in Clients : conn'[d] = "open" <=> conn[d] = "open"
    BY <2>1
  <2> QED
    BY <2>1, <2>2, <2>3, <2>4, ServerUntouched DEF Inv
<1> QED
  BY <1>1, <1>2, <1>3 DEF Next

-----------------------------------------------------------------------------
(* The invariant holds always.                                             *)
THEOREM Invariance ==
  ASSUME EpollAssumption
  PROVE  Spec => []Inv
BY InitInv, NextInv, PTL DEF Spec

(* Every variable of the two programs holds a value of its kind.           *)
THEOREM TypeCorrect ==
  ASSUME EpollAssumption
  PROVE  Spec => []TypeOK
<1>1. Inv => TypeOK
  BY DEF Inv, ClientTypes, TcpTypes, ServerTypes, Queues, Table, Watchable, TypeOK
<1> QED
  BY <1>1, Invariance, PTL

(* However connections end and descriptors are used again while main works *)
(* at a batch, an event is for the connection under its descriptor, and a  *)
(* read of it does not block.                                              *)
THEOREM EventsCorrect ==
  ASSUME EpollAssumption
  PROVE  Spec => []EventsAreCurrent
<1>1. Inv => EventsAreCurrent
  <2> SUFFICES ASSUME Inv, NEW k \in 1..Len(Ahead), Ahead[k] # server_fd
               PROVE  fds[Ahead[k]] # Nobody /\ Readable(fds[Ahead[k]])
    BY DEF EventsAreCurrent
  <2> DEFINE f == Ahead[k]
  <2>1. at \in {"send", "close", "add"} => events # <<>>
    BY DEF Inv, Place
  <2>2. /\ Ahead \in Seq(Watchable) /\ Range(Ahead) \subseteq Range(events)
        /\ at \in {"send", "close"} => Head(events) \notin Range(Ahead)
    BY <2>1, AllButFirst DEF Inv, Queues, Ahead
  <2>3. f \in Range(Ahead)
    BY <2>2, Elements
  <2>4. f \in Fds /\ f \in Due /\ f \in watched /\ ~InHand(f)
    BY <2>2, <2>3 DEF Inv, Queues, Table, Due, Watchable, InHand
  <2> QED
    BY <2>4 DEF Inv, Table, Current
<1> QED
  BY <1>1, Invariance, PTL

(* No edge is lost, whenever a message, an end of file or a reset comes.   *)
THEOREM EdgesCorrect ==
  ASSUME EpollAssumption
  PROVE  Spec => []NoEdgeIsLost
<1>1. Inv => NoEdgeIsLost
  <2> SUFFICES ASSUME Inv, NEW c \in Clients, conn[c] = "open"
               PROVE  \E f \in Fds :
                        /\ fds[f] = c
                        /\ \/ f \in watched
                           \/ at = "add" /\ client_fd = f
                        /\ Readable(c) =>
                             \/ f \in Range(ready) \cup Range(events)
                             \/ at = "add" /\ client_fd = f
    BY DEF NoEdgeIsLost
  <2>1. PICK f \in Fds : fds[f] = c
    BY DEF Inv, Table
  <2>2. c # Nobody
    BY Descriptors
  <2>3. f \in watched \/ Adding(f)
    BY <2>1, <2>2 DEF Inv, Table
  <2>4. Readable(c) => f \in Due \/ Adding(f)
    BY <2>1, <2>2 DEF Inv, Kept
  <2> QED
    BY <2>1, <2>3, <2>4 DEF Due, Adding
<1> QED
  BY <1>1, Invariance, PTL
=============================================================================
