----------------------------- MODULE MCThreads ------------------------------
(* Checks PrethreadedEcho and ParallelSum.  They have nothing in common, so  *)
(* a behaviour is one of the one or of the other: `runs` says which program  *)
(* was started, and the variables of the other keep their initial values.    *)
EXTENDS PrethreadedEcho

CONSTANTS LONG_BITS, MAX_LOG, MAXTHREADS

VARIABLES runs, prog, nthreads, log_nelems, main, idx, myid, gsum, psemaphore, psum,
          th, result, says

sumvars == <<prog, nthreads, log_nelems, main, idx, myid, gsum, psemaphore, psum, th,
             result, says>>

LONG_MAX == 2^(LONG_BITS - 1) - 1

\* Any number of threads, negative ones and one more than the arrays hold
\* included, and every shift, by less than zero and by too much.
Sum == INSTANCE ParallelSum WITH
  i <- idx, mutex <- psemaphore,
  Args <- ((-2)..(MAXTHREADS + 1)) \X ((-LONG_BITS)..LONG_BITS)

ASSUME SumHolds == Sum!SumAssumption

MCInit ==
  /\ Init /\ Sum!Init
  /\ \/ runs = "echo6"
        /\ prog = "array" /\ nthreads = 0 /\ log_nelems = 0
     \/ runs = "psum"
        /\ nofile = Min(Limits) /\ size = Min(Sizes)

Echo(A) == runs = "echo6" /\ A /\ UNCHANGED <<runs, sumvars>>
Psum(A) == runs = "psum" /\ A /\ UNCHANGED <<runs, vars>>

all == <<vars, runs, sumvars>>

MCSpec ==
  /\ MCInit /\ [][Echo(Next) \/ Psum(Sum!Next)]_all
  /\ WF_all(Echo(MainStep)) /\ \A t \in Threads : WF_all(Echo(ThreadStep(t)))
  /\ WF_all(Psum(Sum!MainStep)) /\ \A t \in Sum!Ids : WF_all(Psum(Sum!ThreadStep(t)))

\* Types: what the variables of both programs hold.
TypesOK == TypeOK /\ Sum!TypeOK

\* The property of ParallelSum: what it prints is true of its sum.
VerdictIsRight == Sum!VerdictIsRight
=============================================================================
