---------------------------- MODULE ParallelSum -----------------------------
(***************************************************************************)
(* The three programs that sum 0..nelems-1 with threads: psum-mutex.c (a   *)
(* global sum and a mutex), psum-array.c (a cell of psum per thread) and   *)
(* psum-local.c (a local variable, stored into the cell in the end), all   *)
(* in csapp/echo.  `prog` says which one was started.  They differ in the  *)
(* check of the arguments and in the thread routine.                       *)
(*                                                                         *)
(* LONG_MAX and MAXTHREADS, the length of the arrays, are scaled down.     *)
(* atio, in two of the programs, stands for atoi.                          *)
(***************************************************************************)
EXTENDS Integers, FiniteSets

CONSTANTS
  LONG_BITS,   \* 64, the width of a long
  LONG_MAX,    \* the largest long, 2^63 - 1
  MAX_LOG,     \* 31, the largest log_nelems that is accepted
  MAXTHREADS,  \* 32, the length of myid, tid and psum
  Args         \* the command lines: nthreads and log_nelems, whatever atoi returns

\* The elements that are accepted, and their sum, can be counted with a long.
SumAssumption ==
  /\ LONG_BITS \in Nat \ {0} /\ LONG_MAX \in Nat /\ LONG_MAX = 2^(LONG_BITS - 1) - 1
  /\ MAX_LOG \in Nat /\ MAX_LOG < LONG_BITS /\ MAXTHREADS \in Nat
  /\ Args \subseteq Int \X Int
  /\ \A k \in 0..MAX_LOG : 2^k \in 1..LONG_MAX /\ 2^k * (2^k - 1) <= LONG_MAX

Ids == 0..(MAXTHREADS - 1)

VARIABLES
  prog, nthreads, log_nelems,  \* the command line
  main,    \* where main is
  i,       \* its loop index
  myid,    \* the array the threads get pointers into
  gsum,    \* the global sum of psum-mutex.c
  mutex,   \* its semaphore
  psum,    \* the cells of the others
  th,      \* per thread: where it is, its loop index and end, its register
  result,  \* what main compares with the expected sum
  says     \* what main prints: "nothing", "invalid" or "error"

command == <<prog, nthreads, log_nelems>>
vars == <<command, main, i, myid, gsum, mutex, psum, th, result, says>>

\* A long wraps around.
Modulus == 2 * (LONG_MAX + 1)
Wrap(x) == LET m == x % Modulus IN IF m > LONG_MAX THEN m - Modulus ELSE m

\* C's / rounds towards zero, and a % b is what is left.
Abs(x) == IF x < 0 THEN -x ELSE x
Div(a, b) == IF (a < 0) = (b < 0) THEN Abs(a) \div Abs(b) ELSE -(Abs(a) \div Abs(b))
Rem(a, b) == a - b * Div(a, b)

\* A shift by less than zero or by too much takes the low bits of the count, as
\* the processors do.
nelems == Wrap(2^(log_nelems % LONG_BITS))
nelems_per_thread == Div(nelems, nthreads)

NoThread == [pc |-> "none", at |-> 0, stop |-> 0, reg |-> 0]

Init ==
  /\ prog \in {"mutex", "array", "local"}
  /\ \E a \in Args : nthreads = a[1] /\ log_nelems = a[2]
  /\ main = "check" /\ i = 0 /\ myid = [t \in Ids |-> 0]
  /\ gsum = 0 /\ mutex = 1 /\ psum = [t \in Ids |-> 0]
  /\ th = [t \in Ids |-> NoThread] /\ result = 0 /\ says = "nothing"

-----------------------------------------------------------------------------
(* main.                                                                   *)

\* The check of psum-array.c and psum-local.c.  psum-mutex.c has none.
Invalid == Rem(nelems, nthreads) # 0 \/ log_nelems > MAX_LOG

\* Zero threads: a division by zero, checked or not.  Some processors trap where
\* the quotient does not fit, too.
DivisionTraps == nthreads = 0
DivisionMayTrap == nthreads = -1 /\ nelems = -(LONG_MAX + 1)

\* The check does not refuse a negative number of threads, or a negative shift.
Check ==
  /\ main = "check"
  /\ \/ /\ DivisionTraps \/ DivisionMayTrap
        /\ main' = "died"
        /\ UNCHANGED says
     \/ /\ ~DivisionTraps /\ prog # "mutex" /\ Invalid
        /\ main' = "exited" /\ says' = "invalid"
     \/ /\ ~DivisionTraps /\ ~(prog # "mutex" /\ Invalid)
        /\ main' = "create"
        /\ UNCHANGED says
  /\ UNCHANGED <<command, i, myid, gsum, mutex, psum, th, result>>

\* More threads than the arrays hold overrun them: nothing is said of what
\* the program does from there on.
Create ==
  /\ main = "create"
  /\ IF i >= nthreads THEN main' = "join" /\ i' = 0 /\ UNCHANGED <<myid, th>>
     ELSE IF i = MAXTHREADS THEN main' = "overrun" /\ UNCHANGED <<i, myid, th>>
     ELSE /\ myid' = [myid EXCEPT ![i] = i]
          /\ th' = [th EXCEPT ![i].pc = "start"]
          /\ i' = i + 1 /\ UNCHANGED main
  /\ UNCHANGED <<command, gsum, mutex, psum, result, says>>

MutNobody(t) == TRUE
Joined(t) == th[t].pc = "done"

Join ==
  /\ main = "join"
  /\ IF i >= nthreads THEN main' = "sum" /\ i' = 0
     ELSE Joined(i) /\ i' = i + 1 /\ UNCHANGED main
  /\ UNCHANGED <<command, myid, gsum, mutex, psum, th, result, says>>

AddUp ==
  /\ main = "sum"
  /\ IF prog = "mutex" THEN result' = gsum /\ main' = "answer" /\ UNCHANGED i
     ELSE IF i >= nthreads THEN main' = "answer" /\ UNCHANGED <<i, result>>
     ELSE result' = Wrap(result + psum[i]) /\ i' = i + 1 /\ UNCHANGED main
  /\ UNCHANGED <<command, myid, gsum, mutex, psum, th, says>>

Expected == Div(Wrap(nelems * (nelems - 1)), 2)

Answer ==
  /\ main = "answer"
  /\ says' = IF result # Expected THEN "error" ELSE says
  /\ main' = "exited"
  /\ UNCHANGED <<command, i, myid, gsum, mutex, psum, th, result>>

-----------------------------------------------------------------------------
(* The threads: sum_mutex, sum_array, sum_local.  Once main is gone, so are*)
(* they.                                                                   *)

At(t, pc) == main \notin {"exited", "died", "overrun"} /\ th[t].pc = pc
Goes(t, pc) == th' = [th EXCEPT ![t].pc = pc]

\* The argument is a pointer into myid, where main leaves the value alone.
Start(t) ==
  /\ At(t, "start")
  /\ LET start == Wrap(myid[t] * nelems_per_thread) IN
       th' = [th EXCEPT ![t] = [pc |-> "loop", at |-> start, reg |-> 0,
                                stop |-> Wrap(start + nelems_per_thread)]]
  /\ UNCHANGED <<command, main, i, myid, gsum, mutex, psum, result, says>>

\* psum[myid] += i.  The cell is the thread's own.
AddToCell(t) ==
  /\ At(t, "loop") /\ prog = "array" /\ th[t].at < th[t].stop
  /\ psum' = [psum EXCEPT ![myid[t]] = Wrap(@ + th[t].at)]
  /\ th' = [th EXCEPT ![t].at = @ + 1]
  /\ UNCHANGED <<command, main, i, myid, gsum, mutex, result, says>>

AddToLocal(t) ==
  /\ At(t, "loop") /\ prog = "local" /\ th[t].at < th[t].stop
  /\ th' = [th EXCEPT ![t].at = @ + 1, ![t].reg = Wrap(@ + th[t].at)]
  /\ UNCHANGED <<command, main, i, myid, gsum, mutex, psum, result, says>>

P(t) ==
  /\ At(t, "loop") /\ prog = "mutex" /\ th[t].at < th[t].stop
  /\ mutex > 0
  /\ mutex' = mutex - 1
  /\ Goes(t, "load")
  /\ UNCHANGED <<command, main, i, myid, gsum, psum, result, says>>

\* gsum += i is a load and a store.
Load(t) ==
  /\ At(t, "load")
  /\ th' = [th EXCEPT ![t].pc = "store", ![t].reg = gsum]
  /\ UNCHANGED <<command, main, i, myid, gsum, mutex, psum, result, says>>

Store(t) ==
  /\ At(t, "store")
  /\ gsum' = Wrap(th[t].reg + th[t].at)
  /\ th' = [th EXCEPT ![t].pc = "V", ![t].reg = 0]
  /\ UNCHANGED <<command, main, i, myid, mutex, psum, result, says>>

V(t) ==
  /\ At(t, "V")
  /\ mutex' = mutex + 1
  /\ th' = [th EXCEPT ![t].pc = "loop", ![t].at = @ + 1]
  /\ UNCHANGED <<command, main, i, myid, gsum, psum, result, says>>

Finish(t) ==
  /\ At(t, "loop") /\ th[t].at >= th[t].stop
  /\ psum' = IF prog = "local" THEN [psum EXCEPT ![myid[t]] = th[t].reg] ELSE psum
  /\ Goes(t, "done")
  /\ UNCHANGED <<command, main, i, myid, gsum, mutex, result, says>>

-----------------------------------------------------------------------------
MainStep == Check \/ Create \/ Join \/ AddUp \/ Answer

ThreadStep(t) ==
  Start(t) \/ AddToCell(t) \/ AddToLocal(t) \/ P(t) \/ Load(t) \/ Store(t) \/ V(t) \/ Finish(t)

Next == MainStep \/ \E t \in Ids : ThreadStep(t)

-----------------------------------------------------------------------------
Longs == (-(LONG_MAX + 1))..LONG_MAX

\* Types: what the variables hold.
TypeOK ==
  /\ prog \in {"mutex", "array", "local"} /\ <<nthreads, log_nelems>> \in Args
  /\ main \in {"check", "create", "join", "sum", "answer", "exited", "died", "overrun"}
  /\ i \in 0..MAXTHREADS /\ myid \in [Ids -> Ids]
  /\ gsum \in Longs /\ mutex \in 0..1 /\ psum \in [Ids -> Longs]
  /\ th \in [Ids -> [pc : {"none", "start", "loop", "load", "store", "V", "done"},
                     at : Longs, stop : Longs, reg : Longs]]
  /\ result \in Longs /\ says \in {"nothing", "invalid", "error"}

SumBelow(m) == (m * (m - 1)) \div 2

\* The elements that the threads go through between them: none, if there are none
\* of these.
Dealt == IF nthreads > 0 THEN nthreads * nelems_per_thread ELSE 0

\* Whatever the order of the threads, a command line with a log_nelems of 0 to
\* MAX_LOG gets the sum of all the elements that were dealt out, and an error is
\* printed exactly where that is not the sum of 0..nelems-1.  The remainder is
\* left out in psum-mutex.c only, which does not check that nthreads divides
\* nelems; a negative nthreads, which no program refuses, starts no thread, and
\* nothing is summed up (main, sum_mutex, sum_array, sum_local).
VerdictIsRight ==
  main = "exited" /\ says # "invalid" /\ log_nelems \in 0..MAX_LOG =>
    /\ result = SumBelow(Dealt)
    /\ says = "error" <=> result # SumBelow(2^log_nelems)
    /\ says = "error" => prog = "mutex" \/ nthreads < 0
=============================================================================
