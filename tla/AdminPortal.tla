---------------------------- MODULE AdminPortal -----------------------------
(***************************************************************************)
(* taster-admin (backend/app/admin_web.py): jobs kept in memory, a serial  *)
(* runner for those that write, and a task of its own for each interactive *)
(* one.  What an operation does is one step here; it begins by asking for  *)
(* the model choices.  The edits and their history are in History.         *)
(***************************************************************************)
EXTENDS ModelChoice, Sequences

CONSTANTS
  Jobs,        \* ids of the portal's jobs
  Kind,        \* Kind[j]: what the job is
  Saves,       \* the choices a person may save
  Scenes       \* bounds: what is stored first, and how many jobs, saves and faults
               \* there are then

VARIABLES
  status,      \* status[j]: by_id
  queue,       \* the queue of the runner
  task,        \* task[a]: the runner, and the task of each spawned job
  saving,      \* the PUT of new choices: under way, or not
  left,        \* what is left of the budget
  \* history, for the properties only
  since,       \* ticks since the relay's choices changed
  saved,       \* the last save was confirmed while no answer was on its way
  stale        \* the cached choices are kept because the relay did not answer

portalVars == <<status, queue, task, saving>>
choiceVars == <<stored, cache, since, saved, stale>>
vars == <<portalVars, choiceVars, left>>
-----------------------------------------------------------------------------
Runner == "runner"
QueuedKinds == {"pairings", "details", "sync", "maintain_apply"}
SpawnedKinds == {"chat", "maintain", "status"}
Actors == {Runner} \cup {j \in Jobs : Kind[j] \in SpawnedKinds}
NoJob == "none"

Idle == [at |-> "idle", job |-> NoJob, got |-> NoChoices, age |-> 0]

Bounds == [job : Nat, save : Nat, fault : Nat]

ASSUME PortalAssumption ==
  /\ Kind \in [Jobs -> QueuedKinds \cup SpawnedKinds]
  /\ TTL \in Nat \ {0} /\ NoJob \notin Jobs /\ Runner \notin Jobs
  /\ Saves \subseteq Choices
  /\ Catalog \cap Retired = {} /\ NoModel \notin Catalog \cup Retired
  /\ Scenes \subseteq [stored : Choices, left : Bounds]

TypeOK ==
  /\ ChoiceTypeOK
  /\ status \in [Jobs -> {"unknown", "queued", "processing", "done", "failed"}]
  /\ queue \in Seq(Jobs)
  /\ task \in [Actors -> [at : {"idle", "ask", "reading", "answered", "work"}, job : Jobs \cup {NoJob},
                          got : Choices, age : 0..TTL]]
  /\ saving \in BOOLEAN /\ saved \in BOOLEAN /\ stale \in BOOLEAN /\ since \in 0..(TTL + 2)
  /\ left \in Bounds

Init ==
  /\ \E s \in Scenes : stored = s.stored /\ left = s.left
  /\ cache = NoCache /\ since = TTL + 2 /\ saved = FALSE /\ stale = FALSE
  /\ status = [j \in Jobs |-> "unknown"] /\ queue = <<>>
  /\ task = [a \in Actors |-> Idle] /\ saving = FALSE

Spend(what) == left[what] > 0 /\ left' = [left EXCEPT ![what] = @ - 1]
-----------------------------------------------------------------------------
\* A job under the word the relay's table uses.
EnqueuePending(j) ==
  /\ Kind[j] \in QueuedKinds /\ status[j] = "unknown" /\ Spend("job")
  /\ status' = [status EXCEPT ![j] = "pending"] /\ queue' = Append(queue, j)
  /\ UNCHANGED <<task, saving, choiceVars>>

\* /api/pairings, details, sync, maintain/apply: a job behind the serial queue.
Enqueue(j) ==
  /\ Kind[j] \in QueuedKinds /\ status[j] = "unknown" /\ Spend("job")
  /\ status' = [status EXCEPT ![j] = "queued"] /\ queue' = Append(queue, j)
  /\ UNCHANGED <<task, saving, choiceVars>>

\* chat, maintain/plan, a sync check: a task of its own, at once.
Spawn(j) ==
  /\ Kind[j] \in SpawnedKinds /\ status[j] = "unknown" /\ Spend("job")
  /\ status' = [status EXCEPT ![j] = "processing"]
  /\ task' = [task EXCEPT ![j] = [Idle EXCEPT !.at = IF Kind[j] = "status" THEN "work" ELSE "ask", !.job = j]]
  /\ UNCHANGED <<queue, saving, choiceVars>>

\* _runner takes the next job.
Take ==
  /\ task[Runner].at = "idle" /\ queue # <<>>
  /\ status' = [status EXCEPT ![Head(queue)] = "processing"] /\ queue' = Tail(queue)
  /\ task' = [task EXCEPT ![Runner] = [Idle EXCEPT !.at = "ask", !.job = Head(queue)]]
  /\ UNCHANGED <<saving, choiceVars, left>>

GoOn(a, at, choices, age) ==
  task' = [task EXCEPT ![a].at = at, ![a].got = choices, ![a].age = age]

\* A cache that never grows old.
AskAnyAge(a) ==
  /\ task[a].at = "ask"
  /\ IF cache # NoCache THEN GoOn(a, "work", cache.data, 0) ELSE GoOn(a, "reading", NoChoices, 0)
  /\ UNCHANGED <<status, queue, saving, choiceVars, left>>

\* admin_overrides: with a fresh cache no call is made.
Ask(a) ==
  /\ task[a].at = "ask"
  /\ IF Fresh THEN GoOn(a, "work", cache.data, 0) ELSE GoOn(a, "reading", NoChoices, 0)
  /\ UNCHANGED <<status, queue, saving, choiceVars, left>>

\* The relay reads its table; the answer is on its way.
Answer(a) ==
  /\ task[a].at = "reading"
  /\ GoOn(a, "answered", Settings, task[a].age)
  /\ UNCHANGED <<status, queue, saving, choiceVars, left>>

\* The answer is cached, as old as the question.
Return(a) ==
  /\ task[a].at = "answered"
  /\ GoOn(a, "work", task[a].got, task[a].age) /\ Keep(task[a].got, task[a].age)
  /\ stale' = FALSE
  /\ UNCHANGED <<status, queue, saving, stored, since, saved, left>>

NoAnswer(a) ==
  /\ task[a].at \in {"reading", "answered"} /\ Spend("fault")
  /\ GoOn(a, "work", cache.data, task[a].age) /\ KeepOld(task[a].age)
  /\ stale' = TRUE
  /\ UNCHANGED <<status, queue, saving, stored, since, saved>>

\* A failure outside the try: the task is gone, its job stays as it was.
FinishSilently(a, outcome) ==
  /\ task[a].at = "work"
  /\ status' = [status EXCEPT ![task[a].job] = IF outcome = "done" THEN outcome ELSE @]
  /\ task' = [task EXCEPT ![a] = Idle]
  /\ UNCHANGED <<queue, saving, choiceVars, left>>

\* A failure that ends the runner's loop.
FinishEndsLoop(a, outcome) ==
  /\ task[a].at = "work"
  /\ status' = [status EXCEPT ![task[a].job] = outcome]
  /\ task' = [task EXCEPT ![a] = IF outcome = "done" THEN Idle ELSE [Idle EXCEPT !.at = "gone"]]
  /\ UNCHANGED <<queue, saving, choiceVars, left>>

\* The operation ends, or raises: its job says so, and the runner goes on.
Finish(a, outcome) ==
  /\ task[a].at = "work"
  /\ status' = [status EXCEPT ![task[a].job] = outcome]
  /\ task' = [task EXCEPT ![a] = Idle]
  /\ UNCHANGED <<queue, saving, choiceVars, left>>
-----------------------------------------------------------------------------
\* set_models: the relay stores the choices, then the page's process forgets.
SaveStored(new) ==
  /\ ~saving /\ Spend("save")
  /\ PutSettings(new)
  /\ saving' = TRUE /\ since' = 0 /\ saved' = FALSE
  /\ UNCHANGED <<cache, stale, status, queue, task>>

Reading == \E a \in Actors : task[a].at \in {"reading", "answered"}
SaveConfirmed ==
  /\ saving /\ saving' = FALSE /\ saved' = ~Reading /\ ForgetCache /\ stale' = FALSE
  /\ UNCHANGED <<stored, since, status, queue, task, left>>

SaveUnanswered ==
  /\ saving /\ Spend("fault") /\ saving' = FALSE
  /\ UNCHANGED <<status, queue, task, choiceVars>>

\* A minute is longer than a read of the choices (RelayClient's timeout).
Tick ==
  /\ \A a \in Actors : task[a].at \in {"reading", "answered"} => task[a].age = 0
  /\ ~saving
  /\ cache.age < TTL \/ since < TTL + 2 \/ \E a \in Actors : task[a].at \in {"reading", "answered"}
  /\ cache' = Older(cache) /\ since' = IF since < TTL + 2 THEN since + 1 ELSE since
  /\ task' = [a \in Actors |-> IF task[a].at \in {"reading", "answered"} THEN [task[a] EXCEPT !.age = 1]
                                                                         ELSE task[a]]
  /\ UNCHANGED <<stored, saved, stale, status, queue, saving, left>>
-----------------------------------------------------------------------------
\* The process ends.  Of its jobs nothing is left, those that are done included:
\* job_status answers "failed" ("lost") for each of them.
Restart ==
  /\ Spend("fault")
  /\ status' = [j \in Jobs |-> IF status[j] = "unknown" THEN "unknown" ELSE "failed"]
  /\ queue' = <<>> /\ task' = [a \in Actors |-> Idle] /\ saving' = FALSE
  /\ ForgetCache /\ stale' = FALSE
  /\ UNCHANGED <<stored, since, saved>>
-----------------------------------------------------------------------------
TaskStep(a) ==
  \/ a = Runner /\ Take
  \/ Ask(a) \/ Answer(a) \/ Return(a) \/ NoAnswer(a)
  \/ \E outcome \in {"done", "failed"} : Finish(a, outcome)

Person ==
  \/ \E j \in Jobs : Enqueue(j) \/ Spawn(j)
  \/ \E new \in Saves : SaveStored(new)
  \/ SaveConfirmed \/ SaveUnanswered

Next ==
  \/ Person \/ Tick \/ Restart
  \/ \E a \in Actors : TaskStep(a)

Spec == Init /\ [][Next]_vars

\* The event loop runs every task that can go on.
FairSpec == Spec /\ \A a \in Actors : WF_vars(TaskStep(a))
-----------------------------------------------------------------------------
\* A job that says queued is in the queue, once, and one that says processing
\* has exactly one task at work on it: the page polls these words and would wait
\* for ever on a job that nobody holds (admin_web.py:148-183, 310-330).
JobsTracked ==
  \A j \in Jobs :
    /\ (status[j] = "queued") = (\E i \in DOMAIN queue : queue[i] = j)
    /\ \A i, k \in DOMAIN queue : queue[i] = queue[k] => i = k
    /\ (status[j] = "processing") = (\E a \in Actors : task[a].job = j)

\* Every job that was accepted is answered: done, failed, or lost in a restart.
JobsSettle == \A j \in Jobs : (status[j] = "queued") ~> (status[j] \in {"done", "failed"})

\* model_roles.py:63-65: an operation works with the choices of the last minute,
\* unless the relay could not be asked.
ChoiceIsRecent ==
  [][\A a \in Actors :
       (task[a].at \in {"ask", "reading", "answered"} /\ task'[a].at = "work" /\ ~stale' /\ since > TTL) =>
       task'[a].got = Settings]_vars

\* model_roles.py:88: after a confirmed save the very next operation sees the new
\* choices rather than those from a minute ago, unless the relay does not answer.  (A
\* read under way at the save may still cache the old ones: model_roles.py:79-84.)
NextSeesSave == saved /\ Fresh /\ ~stale => cache.data = Settings
=============================================================================
