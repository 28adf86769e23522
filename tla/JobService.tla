----------------------------- MODULE JobService -----------------------------
(***************************************************************************)
(* What a pool of workers promises to those who submit jobs to it: a job   *)
(* that was submitted is run by one worker, once, and no worker runs two   *)
(* jobs at a time.                                                         *)
(***************************************************************************)
CONSTANTS Jobs, Workers, Nobody  \* Nobody is no worker

VARIABLES
  job,    \* per job: "none", "pending", "running" or "done"
  runner  \* per job: the worker that runs it or ran it

TypeInvariant ==
  /\ job \in [Jobs -> {"none", "pending", "running", "done"}]
  /\ runner \in [Jobs -> Workers \cup {Nobody}]

Init ==
  /\ job = [j \in Jobs |-> "none"]
  /\ runner = [j \in Jobs |-> Nobody]

Submit(j) ==
  /\ job[j] = "none"
  /\ job' = [job EXCEPT ![j] = "pending"]
  /\ UNCHANGED runner

Start(j, w) ==
  /\ job[j] = "pending"
  /\ \A i \in Jobs : ~(job[i] = "running" /\ runner[i] = w)
  /\ job' = [job EXCEPT ![j] = "running"]
  /\ runner' = [runner EXCEPT ![j] = w]

Finish(j) ==
  /\ job[j] = "running"
  /\ job' = [job EXCEPT ![j] = "done"]
  /\ UNCHANGED runner

Next == \E j \in Jobs : Submit(j) \/ Finish(j) \/ \E w \in Workers : Start(j, w)

Spec == Init /\ [][Next]_<<job, runner>>
=============================================================================
