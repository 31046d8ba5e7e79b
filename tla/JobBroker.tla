----------------------------- MODULE JobBroker ------------------------------
(***************************************************************************)
(* The job broker: the relay's SQLite job table and items cache            *)
(* (relay/app/db.py and the routes over it), the worker's loop             *)
(* (backend/app/worker.py), the HTTP calls between them, which may be lost *)
(* or answered too late, and what the phone is shown of all this.          *)
(*                                                                         *)
(* A worker is one asyncio loop, so it has at most one call outstanding    *)
(* ("wire", "req", "reply").  A call whose caller has given up may still   *)
(* reach the relay later: it is then in "stray", and its answer goes       *)
(* nowhere.  Relay handlers run under db._lock and are one step each.      *)
(*                                                                         *)
(* Time is the age of each row since its updated_at, up to just past the   *)
(* timeout the relay compares it with, so there is no clock to bound.  The *)
(* one bound of the model is MaxFaults.                                    *)
(***************************************************************************)
EXTENDS Naturals, FiniteSets

CONSTANTS
  Jobs,          \* ids of the jobs that may be submitted
  Mutating,      \* the jobs whose type is in _MUTATING_JOB_TYPES
  Edits,         \* changes to the records made by others: taster-admin, Obsidian
  NoJob,         \* the relay's answer "no job" (null), and the worker's "none"
  ClaimTimeout,  \* job_claim_timeout_s, in ticks
  Retention,     \* job_retention_days, in ticks
  MaxFaults      \* bound: lost calls, crashes, restarts and failed reads

ASSUME BrokerAssumption ==
  /\ IsFiniteSet(Jobs) /\ Mutating \subseteq Jobs
  /\ Jobs \cap Edits = {}
  /\ NoJob \notin Jobs
  /\ ClaimTimeout \in Nat /\ Retention \in Nat /\ MaxFaults \in Nat

VARIABLES
  \* the relay: one row per job, and what it serves the phone
  status,        \* status[j]: the column; "none" before create_job, "pruned" after
  result,        \* result[j]: the column, as the verdict the phone reads in it
  payloads,      \* the jobs whose row still holds the submitted payload
  born,          \* born[j]: the rank of created_at
  age,           \* age[j]: ticks since updated_at (= claimed_at while processing)
  items,         \* items_cache: the changes the served snapshot contains
  categories,    \* _categories_cache is filled
  \* the worker
  pc,            \* where run_worker_loop is
  job,           \* the claimed job it is executing
  outcome,       \* what process_job made of it
  snapDue,       \* items_snapshot_interval_s has passed since last_snapshot
  \* the network
  wire,          \* the outstanding call: "free", "sent", "answered" or "lost"
  req,           \* its request
  reply,         \* its response, for GET /worker/jobs/next
  stray,         \* requests on their way whose caller is gone
  faults,        \* how many faults have struck
  \* the record database
  vault,         \* the changes applied to the records
  \* history, for the properties only
  worked,        \* jobs process_job has returned a result for
  starts         \* starts[j]: how often the worker began executing j

relayVars == <<status, result, payloads, born, age, items, categories>>
rowVars == <<status, result, payloads, born, age>>
workerVars == <<pc, job, outcome, snapDue>>
netVars == <<wire, req, reply, stray>>
historyVars == <<worked, starts>>
vars == <<relayVars, workerVars, netVars, faults, vault, historyVars>>

-----------------------------------------------------------------------------
Changes == Jobs \cup Edits
Statuses == {"none", "pending", "processing", "done", "failed", "pruned"}
Verdicts == {"saved", "refused"}    \* capture results carry a status of their own

Terminal(j) == status[j] \in {"done", "failed"}

\* An age is compared with the claim timeout while the row is processing and
\* with the retention once it is terminal, and matters until it exceeds them.
AgeLimit(st) ==
  CASE st = "processing" -> ClaimTimeout + 1
    [] st \in {"done", "failed"} -> Retention + 1
    [] OTHER -> 0

NextReq == [kind |-> "next"]
DoneReq(j, r) == [kind |-> "done", job |-> j, result |-> r]
FailReq(j) == [kind |-> "failed", job |-> j]
SnapReq(S) == [kind |-> "snapshot", items |-> S]

Requests ==
  {NextReq} \cup {DoneReq(j, r) : j \in Jobs, r \in Verdicts}
            \cup {FailReq(j) : j \in Jobs} \cup {SnapReq(S) : S \in SUBSET Changes}

Init ==
  /\ status = [j \in Jobs |-> "none"] /\ result = [j \in Jobs |-> "none"]
  /\ payloads = {} /\ born = [j \in Jobs |-> 0] /\ age = [j \in Jobs |-> 0]
  /\ items = {} /\ categories = FALSE
  /\ pc = "idle" /\ job = NoJob /\ outcome = "none" /\ snapDue = TRUE
  /\ wire = "free" /\ req = NextReq /\ reply = NoJob /\ stray = {}
  /\ faults = 0 /\ vault = {}
  /\ worked = {} /\ starts = [j \in Jobs |-> 0]

-----------------------------------------------------------------------------
(* The relay: the phone's routes.                                          *)

\* POST /capture/*, /lookup, /record/*, /data/details*: create_job.
Submit(j) ==
  /\ status[j] = "none"
  /\ status' = [status EXCEPT ![j] = "pending"]
  /\ payloads' = payloads \cup {j}
  /\ born' = [born EXCEPT ![j] = Cardinality({k \in Jobs : status[k] # "none"})]
  /\ age' = [age EXCEPT ![j] = 0]
  /\ UNCHANGED <<result, items, categories, workerVars, netVars, faults, vault, historyVars>>

\* What capture_status and record_status answer, and pollJob ends on: the row's
\* status, over which a done job's result is laid, so that its own "failed" wins.
\* The phone only reads: when it polls, and whether it still does, changes nothing.
StatusShown(j) ==
  IF status[j] = "done" /\ result[j] = "refused" THEN "failed" ELSE status[j]

-----------------------------------------------------------------------------
(* The relay: the worker's routes, as what a request does to the tables.   *)

\* Mutation: no "OR (status = 'processing' AND claimed_at < ?)".
ClaimablePendingOnly(j) == status[j] = "pending"

\* Mutation: the expiry test is not tied to 'processing'.
ClaimableAnyStale(j) == status[j] = "pending" \/ (status[j] # "none" /\ age[j] > ClaimTimeout)

\* claim_next_job's WHERE clause.
Claimable(j) ==
  \/ status[j] = "pending"
  \/ status[j] = "processing" /\ age[j] > ClaimTimeout

\* Mutation: ORDER BY created_at DESC.
Newest(j) == Claimable(j) /\ \A k \in Jobs : Claimable(k) => born[j] >= born[k]

\* claim_next_job's ORDER BY created_at LIMIT 1: NoJob when nothing is claimable.
Oldest(j) == Claimable(j) /\ \A k \in Jobs : Claimable(k) => born[j] <= born[k]

Claim(j) ==
  IF j = NoJob
  THEN (\A k \in Jobs : ~Claimable(k)) /\ UNCHANGED rowVars
  ELSE /\ Oldest(j)
       /\ status' = [status EXCEPT ![j] = "processing"]
       /\ age' = [age EXCEPT ![j] = 0]
       /\ UNCHANGED <<result, payloads, born>>

\* complete_job: an UPDATE by id alone.  It asks neither who posts nor what the
\* status was; a row that is gone matches nothing.
CompleteJob(j, r) ==
  IF status[j] = "pruned"
  THEN UNCHANGED rowVars
  ELSE /\ status' = [status EXCEPT ![j] = "done"]
       /\ result' = [result EXCEPT ![j] = r]
       /\ payloads' = payloads \ {j}
       /\ age' = [age EXCEPT ![j] = 0]
       /\ UNCHANGED born

\* Mutation: fail_job leaves the payload in the row.
FailJobKeepsPayload(j) ==
  /\ status' = [status EXCEPT ![j] = IF @ = "pruned" THEN @ ELSE "failed"]
  /\ age' = [age EXCEPT ![j] = 0]
  /\ UNCHANGED <<result, payloads, born>>

\* Mutation: a status the table does not know.
FailJobUnknownStatus(j) ==
  /\ status' = [status EXCEPT ![j] = "error"]
  /\ payloads' = payloads \ {j}
  /\ UNCHANGED <<result, born, age>>

\* fail_job: the same, and an earlier result stays in the row.
FailJob(j) ==
  IF status[j] = "pruned"
  THEN UNCHANGED rowVars
  ELSE /\ status' = [status EXCEPT ![j] = "failed"]
       /\ payloads' = payloads \ {j}
       /\ age' = [age EXCEPT ![j] = 0]
       /\ UNCHANGED <<result, born>>

\* POST /worker/jobs/{id}/result and POST /worker/items/snapshot.
Accept(r) ==
  \/ /\ r.kind = "done"
     /\ CompleteJob(r.job, r.result)
     /\ UNCHANGED <<items, categories>>
  \/ /\ r.kind = "failed"
     /\ FailJob(r.job)
     /\ UNCHANGED <<items, categories>>
  \/ /\ r.kind = "snapshot"
     /\ items' = r.items
     /\ categories' = TRUE
     /\ UNCHANGED rowVars

\* GET /worker/jobs/next, the worker still listening.
RelayHandsOut ==
  /\ wire = "sent" /\ req.kind = "next"
  /\ \E j \in Jobs \cup {NoJob} : Claim(j) /\ reply' = j
  /\ wire' = "answered"
  /\ UNCHANGED <<items, categories, workerVars, req, stray, faults, vault,
                 historyVars>>

\* A POST of the worker's, the worker still listening.
RelayAccepts ==
  /\ wire = "sent" /\ Accept(req)
  /\ wire' = "answered"
  /\ UNCHANGED <<workerVars, req, reply, stray, faults, vault, historyVars>>

\* A request whose caller gave up (or died) arrives after all.
StrayArrives(s) ==
  /\ s \in stray
  /\ \/ /\ s.req.kind = "next"
        /\ \E j \in Jobs \cup {NoJob} : Claim(j)
        /\ UNCHANGED <<items, categories>>
     \/ Accept(s.req)
  /\ stray' = stray \ {s}
  /\ UNCHANGED <<workerVars, wire, req, reply, faults, vault, historyVars>>

StrayVanishes(s) ==
  /\ s \in stray
  /\ stray' = stray \ {s}
  /\ UNCHANGED <<relayVars, workerVars, wire, req, reply, faults, vault,
                 historyVars>>

\* Mutation: the prune does not ask for a terminal status.
PruneAnyStatus ==
  LET expired == {j \in Jobs : status[j] \notin {"none", "pruned"} /\ age[j] > Retention} IN
  /\ expired # {}
  /\ status' = [j \in Jobs |-> IF j \in expired THEN "pruned" ELSE status[j]]
  /\ UNCHANGED <<result, payloads, born, age, items, categories, workerVars, netVars,
                 faults, vault, historyVars>>

\* prune_old_jobs, hourly and at startup.
Prune ==
  LET expired == {j \in Jobs : Terminal(j) /\ age[j] > Retention} IN
  /\ expired # {}
  /\ status' = [j \in Jobs |-> IF j \in expired THEN "pruned" ELSE status[j]]
  /\ result' = [j \in Jobs |-> IF j \in expired THEN "none" ELSE result[j]]
  /\ age' = [j \in Jobs |-> IF j \in expired THEN 0 ELSE age[j]]
  /\ UNCHANGED <<payloads, born, items, categories, workerVars, netVars,
                 faults, vault, historyVars>>

-----------------------------------------------------------------------------
(* The worker: run_worker_loop, one step per stretch between two awaits.   *)

\* Issue an HTTP call; the loop awaits its response.
Send(r) ==
  /\ wire = "free"
  /\ wire' = "sent" /\ req' = r /\ reply' = NoJob
  /\ UNCHANGED stray

\* The await ends: the response is in, or (CallRaises) it is not coming.
Hangup(w) ==
  /\ wire = w
  /\ wire' = "free" /\ req' = NextReq /\ reply' = NoJob
  /\ UNCHANGED stray

\* relay.fetch_next_job().
PollNext ==
  /\ pc = "idle"
  /\ Send(NextReq)
  /\ pc' = "polling"
  /\ UNCHANGED <<relayVars, job, outcome, snapDue, faults, vault, historyVars>>

\* The claim's response: a job to run, or an idle pass.
TakeJob ==
  /\ pc = "polling" /\ Hangup("answered")
  /\ \/ /\ reply = NoJob
        /\ pc' = "pass"
        /\ UNCHANGED <<job, starts>>
     \/ /\ reply # NoJob
        /\ pc' = "working" /\ job' = reply
        /\ starts' = [starts EXCEPT ![reply] = @ + 1]
  /\ UNCHANGED <<relayVars, outcome, snapDue, faults, vault, worked>>

\* Mutation: the result is posted first, the snapshot left to the timer.
WorkPostsFirst(r) ==
  /\ pc = "working"
  /\ outcome' = r
  /\ worked' = worked \cup {job}
  /\ vault' = IF r = "saved" /\ job \in Mutating THEN vault \cup {job} ELSE vault
  /\ pc' = "post"
  /\ UNCHANGED <<relayVars, job, snapDue, netVars, faults, starts>>

\* process_job returns: a mutating job that did not refuse has written, and its
\* snapshot is pushed before the result is posted.
Work(r) ==
  /\ pc = "working"
  /\ outcome' = r
  /\ worked' = worked \cup {job}
  /\ vault' = IF r = "saved" /\ job \in Mutating THEN vault \cup {job} ELSE vault
  /\ pc' = IF job \in Mutating THEN "snapJob" ELSE "post"
  /\ UNCHANGED <<relayVars, job, snapDue, netVars, faults, starts>>

\* Mutation: the exception is swallowed and the job posted as done.
WorkRaisesUnseen ==
  /\ pc = "working"
  /\ outcome' = "saved"
  /\ pc' = "post"
  /\ UNCHANGED <<relayVars, job, snapDue, netVars, faults, vault, historyVars>>

\* process_job raises, before its write or (the write's own response lost) after.
WorkRaises ==
  /\ pc = "working"
  /\ \/ vault' = vault
     \/ job \in Mutating /\ vault' = vault \cup {job}
  /\ outcome' = "raised"
  /\ pc' = "report"
  /\ UNCHANGED <<relayVars, job, snapDue, netVars, faults, historyVars>>

\* Mutation: no snapshot timer.
IdlePassNoTimer ==
  /\ pc = "pass"
  /\ \/ \E e \in Edits \ vault : vault' = vault \cup {e} /\ pc' = "snapIdle"
     \/ pc' = "idle" /\ UNCHANGED vault
  /\ UNCHANGED <<relayVars, job, outcome, snapDue, netVars, faults, historyVars>>

\* An idle pass: reverse-sync folds an edit in and pushes; else the snapshot
\* timer pushes when it is due; else the loop sleeps and polls again.
IdlePass ==
  /\ pc = "pass"
  /\ \/ \E e \in Edits \ vault : vault' = vault \cup {e} /\ pc' = "snapIdle"
     \/ snapDue /\ pc' = "snapIdle" /\ UNCHANGED vault
     \/ ~snapDue /\ pc' = "idle" /\ UNCHANGED vault
  /\ UNCHANGED <<relayVars, job, outcome, snapDue, netVars, faults, historyVars>>

\* _push_snapshot, first half: query_all_items reads the records.
ReadItems ==
  /\ pc \in {"snapIdle", "snapJob"}
  /\ Send(SnapReq(vault))
  /\ UNCHANGED <<relayVars, workerVars, faults, vault, historyVars>>

\* relay.post_job_done / post_job_failed.
PostResult ==
  /\ \/ pc = "post" /\ Send(DoneReq(job, outcome))
     \/ pc = "report" /\ Send(FailReq(job))
  /\ UNCHANGED <<relayVars, workerVars, faults, vault, historyVars>>

\* Where the loop goes on once the call made at p has returned, or has raised:
\* a snapshot push swallows its failure, a failed result post becomes a failure
\* report, and a failed report is dropped.
AfterReturn(p) == IF p = "snapJob" THEN "post" ELSE "idle"
AfterRaise(p) ==
  CASE p = "polling" -> "pass"
    [] p = "snapJob" -> "post"
    [] p = "post" -> "report"
    [] OTHER -> "idle"

\* The timer restarts once a push was attempted, whatever came of it.
Resume(next) ==
  /\ pc' = next
  /\ snapDue' = (snapDue /\ pc \notin {"snapIdle", "snapJob"})
  /\ job' = IF next = "idle" THEN NoJob ELSE job
  /\ outcome' = IF next = "idle" THEN "none" ELSE outcome

CallReturns ==
  /\ pc \in {"snapIdle", "snapJob", "post", "report"} /\ Hangup("answered")
  /\ Resume(AfterReturn(pc))
  /\ UNCHANGED <<relayVars, faults, vault, historyVars>>

\* The call raises: connection error, 30 s client timeout, or a 5xx.
CallRaises ==
  /\ Hangup("lost")
  /\ Resume(AfterRaise(pc))
  /\ UNCHANGED <<relayVars, faults, vault, historyVars>>

-----------------------------------------------------------------------------
(* Faults.                                                                 *)

Strike == faults < MaxFaults /\ faults' = faults + 1

\* What becomes of an outstanding request whose caller stops waiting: it never
\* arrives, or it is still under way.
Detach ==
  \/ UNCHANGED stray
  \/ wire = "sent" /\ stray' = stray \cup {[req |-> req, n |-> faults']}

\* The outstanding call fails on its way there, or its response on the way back.
LoseCall ==
  /\ wire \in {"sent", "answered"} /\ Strike
  /\ wire' = "lost" /\ req' = NextReq /\ reply' = NoJob /\ Detach
  /\ UNCHANGED <<relayVars, workerVars, vault, historyVars>>

\* query_all_items raises: nothing is pushed, the loop goes on.
ReadItemsRaises ==
  /\ pc \in {"snapIdle", "snapJob"} /\ wire = "free" /\ Strike
  /\ Resume(AfterRaise(pc))
  /\ UNCHANGED <<relayVars, netVars, vault, historyVars>>

\* The worker process dies; all it knew is gone (last_snapshot starts at 0.0, so
\* the timer of the next process is due at once).
WorkerCrash ==
  /\ pc # "down" /\ Strike
  /\ pc' = "down" /\ job' = NoJob /\ outcome' = "none"
  /\ wire' = "free" /\ req' = NextReq /\ reply' = NoJob /\ Detach
  /\ snapDue' = TRUE
  /\ UNCHANGED <<relayVars, vault, historyVars>>

\* The container restarts it: run_worker_loop.
WorkerStart ==
  /\ pc = "down"
  /\ pc' = "idle"
  /\ UNCHANGED <<relayVars, job, outcome, snapDue, netVars, faults, vault, historyVars>>

\* The relay restarts: the SQLite file survives, the category cache and every
\* request under way do not.
RelayRestart ==
  /\ Strike
  /\ categories' = FALSE /\ stray' = {}
  /\ wire' = (IF wire = "free" THEN "free" ELSE "lost")
  /\ req' = NextReq /\ reply' = NoJob
  /\ UNCHANGED <<rowVars, items, workerVars, vault, historyVars>>

\* taster-admin changes a record directly; the worker is not told.
AdminEdit(e) ==
  /\ e \notin vault
  /\ vault' = vault \cup {e}
  /\ UNCHANGED <<relayVars, workerVars, netVars, faults, historyVars>>

\* Time passes.
Tick ==
  /\ age' = [j \in Jobs |-> IF age[j] < AgeLimit(status[j]) THEN age[j] + 1 ELSE age[j]]
  /\ snapDue' = TRUE
  /\ UNCHANGED <<status, result, payloads, born, items, categories, pc, job,
                 outcome, netVars, faults, vault, historyVars>>

-----------------------------------------------------------------------------
WorkerStep ==
  \/ PollNext \/ TakeJob \/ WorkRaises \/ IdlePass \/ ReadItems \/ PostResult
  \/ CallReturns \/ CallRaises \/ WorkerStart
  \/ \E r \in Verdicts : Work(r)

RelayStep == RelayHandsOut \/ RelayAccepts

Environment ==
  \/ \E j \in Jobs : Submit(j)
  \/ \E s \in stray : StrayArrives(s) \/ StrayVanishes(s)
  \/ \E e \in Edits : AdminEdit(e)
  \/ LoseCall \/ ReadItemsRaises \/ WorkerCrash \/ RelayRestart
  \/ Prune \/ Tick

Next == WorkerStep \/ RelayStep \/ Environment

Spec == Init /\ [][Next]_vars

\* The worker's loop runs (its container restarts it), the relay answers what
\* reaches it, time passes, and a request under way arrives or is dropped.
\* Nothing is assumed of the editors or of the faults.
FairSpec ==
  /\ Spec
  /\ WF_vars(WorkerStep) /\ WF_vars(RelayStep) /\ WF_vars(Tick)
  /\ WF_vars(\E s \in stray : StrayArrives(s) \/ StrayVanishes(s))

-----------------------------------------------------------------------------
(* Properties.                                                             *)

TypeOK ==
  /\ status \in [Jobs -> Statuses]
  /\ result \in [Jobs -> Verdicts \cup {"none"}]
  /\ payloads \subseteq Jobs
  /\ born \in [Jobs -> Nat]
  /\ age \in [Jobs -> Nat]
  /\ items \subseteq Changes
  /\ categories \in BOOLEAN
  /\ pc \in {"idle", "polling", "pass", "working", "snapIdle", "snapJob", "post",
             "report", "down"}
  /\ job \in Jobs \cup {NoJob}
  /\ outcome \in Verdicts \cup {"none", "raised"}
  /\ snapDue \in BOOLEAN
  /\ wire \in {"free", "sent", "answered", "lost"}
  /\ req \in Requests
  /\ reply \in Jobs \cup {NoJob}
  /\ stray \subseteq [req : Requests, n : 1..MaxFaults]
  /\ faults \in 0..MaxFaults
  /\ vault \subseteq Changes
  /\ worked \subseteq Jobs
  /\ starts \in [Jobs -> Nat]

\* A job that can still be handed to a worker has its payload, and a job that
\* was answered, however late or often, no longer holds it (db.py:188-191).
PayloadKept ==
  \A j \in Jobs : j \in payloads <=> status[j] \in {"pending", "processing"}

\* While the worker executes a job, no job submitted before it is still waiting
\* for its first turn: claim_next_job's order survives reclaims, lost claims and
\* the claims of calls nobody listens to.
NoOvertaking ==
  \A j, k \in Jobs :
    job = j /\ born[k] < born[j] => status[k] # "pending"

\* "done" on the phone means process_job ran to its end, and that the record is
\* in the database when the job's type writes one.
SavedIsSaved ==
  \A j \in Jobs :
    StatusShown(j) = "done" => j \in worked /\ (j \in Mutating => j \in vault)

\* Every execution of a job beyond the first is paid for by a fault of its own:
\* neither a slow job, nor one that outlives its claim timeout, nor a late
\* request makes the worker run a job again by itself.
RepeatsNeedFaults == \A j \in Jobs : starts[j] <= 1 + faults

\* As long as nothing failed, an answered change is in the snapshot the phone is
\* served (worker.py:254-257).
FreshWithoutFaults ==
  faults = 0 => \A j \in Jobs : status[j] = "done" /\ j \in vault => j \in items

\* What a row is in the terms of the promise.
phases ==
  [j \in Jobs |->
     CASE status[j] = "none" -> "unsent"
       [] status[j] \in {"pending", "processing"} -> "open"
       [] status[j] = "pruned" -> "forgotten"
       [] OTHER -> status[j]]

\* The broker implements its promise: of what happens to the rows, nothing but the
\* steps of JobPromise can be seen.
Promise == INSTANCE JobPromise WITH phase <- phases

KeepsPromise == Promise!Spec

\* Every submitted job is answered: a claim whose response was lost, or whose
\* worker died, expires and is handed out again.
JobsAnswered ==
  \A j \in Jobs : status[j] = "pending" ~> status[j] \in {"done", "failed", "pruned"}

\* The relay ends up serving every change, whoever made it, and the categories,
\* whatever late snapshot arrives and whatever restarts (db.py:347-351).
RelayCatchesUp == <>[](items = vault /\ categories)

\* worker.py:264 calls the exception of post_job_done "the result never reached
\* the relay"; the failure report that follows rests on it.
UnpostedIsUnknown ==
  \A j \in Jobs : pc = "report" /\ job = j /\ outcome \in Verdicts
                    => status[j] # "done"

\* worker.py:254-257: a client that polls the result of a record-mutating job
\* right away sees fresh /items.
FreshWhenDone ==
  \A j \in Jobs : status[j] = "done" /\ j \in vault => j \in items

=============================================================================
