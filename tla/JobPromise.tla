----------------------------- MODULE JobPromise -----------------------------
(***************************************************************************)
(* What the broker promises whoever submits a job to it (the PWA, through  *)
(* /capture, /lookup, /record and /data): the job is accepted, it is       *)
(* worked on zero or more times, it is answered, and after a while it is   *)
(* forgotten.  An answer "done" is only ever given for a job that has been *)
(* worked on to the end, and an answered job is never open again.  Neither *)
(* the relay's table, nor the worker, nor the network between them appears *)
(* here: JobBroker implements this specification with all three.           *)
(***************************************************************************)
CONSTANT Jobs    \* the ids a submission may get (uuid4, never reused)

VARIABLES
  phase,         \* phase[j]: what a reader of the job's row is told
  worked         \* the jobs process_job returned a result for, ever

vars == <<phase, worked>>

Phases == {"unsent", "open", "done", "failed", "forgotten"}

Answered(j) == phase[j] \in {"done", "failed"}

Init ==
  /\ phase = [j \in Jobs |-> "unsent"]
  /\ worked = {}

\* A request is accepted and gets an id nobody holds.
Submit(j) ==
  /\ phase[j] = "unsent"
  /\ phase' = [phase EXCEPT ![j] = "open"]
  /\ UNCHANGED worked

\* A worker ran the job to the end.  Nothing says this happens once, nor that
\* the job is still open: an answer may overtake a repeated execution.
Work(j) ==
  /\ phase[j] # "unsent"
  /\ worked' = worked \cup {j}
  /\ UNCHANGED phase

\* The job is answered, or answered again.
Answer(j, a) ==
  /\ phase[j] = "open" \/ Answered(j)
  /\ a = "done" => j \in worked
  /\ phase' = [phase EXCEPT ![j] = a]
  /\ UNCHANGED worked

\* Housekeeping removes a set of answered jobs.
Forget(S) ==
  /\ \A j \in S : Answered(j)
  /\ phase' = [j \in Jobs |-> IF j \in S THEN "forgotten" ELSE phase[j]]
  /\ UNCHANGED worked

Next ==
  \/ \E j \in Jobs : Submit(j) \/ Work(j)
  \/ \E j \in Jobs, a \in {"done", "failed"} : Answer(j, a)
  \/ \E S \in SUBSET Jobs : Forget(S)

Spec == Init /\ [][Next]_vars

=============================================================================
