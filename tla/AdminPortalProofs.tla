------------------------- MODULE AdminPortalProofs --------------------------
(***************************************************************************)
(* What taster-admin keeps true, for any jobs, choices, restarts and       *)
(* faults.  The invariant Safe has two parts beyond the types that do not  *)
(* depend on each other: who works on which job, and how old answered and  *)
(* cached choices are.                                                     *)
(***************************************************************************)
EXTENDS AdminPortal, SequenceTheorems, FiniteSetTheorems, TLAPS

\* The types, by the variables that change together.
Tasks == [at : {"idle", "ask", "reading", "answered", "work"}, job : Jobs \cup {NoJob},
          got : Choices, age : 0..TTL]

PortalTypes ==
  /\ status \in [Jobs -> {"unknown", "queued", "processing", "done", "failed"}]
  /\ queue \in Seq(Jobs) /\ task \in [Actors -> Tasks] /\ saving \in BOOLEAN
ChoiceTypes ==
  /\ stored \in Choices /\ cache \in [data : Choices, age : 0..TTL]
  /\ since \in 0..(TTL + 2) /\ saved \in BOOLEAN /\ stale \in BOOLEAN

TypeInv == PortalTypes /\ ChoiceTypes /\ left \in Bounds

\* Tasks and jobs: a task that is not idle has a job, the runner's is one of those
\* that are queued, any other task's is its own; so no job has two tasks.
TasksInv ==
  /\ \A a \in Actors : task[a].at = "idle" <=> task[a].job = NoJob
  /\ \A a \in Actors : task[a].job # NoJob =>
       IF a = Runner THEN Kind[task[a].job] \in QueuedKinds ELSE task[a].job = a
  /\ \A i \in 1..Len(queue) : Kind[queue[i]] \in QueuedKinds

TracksInv ==
  /\ \A j \in Jobs : status[j] = "queued" <=> \E i \in 1..Len(queue) : queue[i] = j
  /\ \A i, k \in 1..Len(queue) : queue[i] = queue[k] => i = k
  /\ \A j \in Jobs : status[j] = "processing" <=> \E a \in Actors : task[a].job = j

\* The choices an answer brings are those of now, unless they changed after the
\* question; so are the cached ones, unless they changed while they were cached.
ChoicesInv ==
  /\ \A a \in Actors : task[a].at = "answered" /\ (saved \/ since > task[a].age) => task[a].got = Settings
  /\ Fresh /\ ~stale /\ (saved \/ since > cache.age) => cache.data = Settings

\* get_settings answers choices again, whatever is stored.
LEMMA SettingsType == ASSUME stored \in Choices PROVE Settings \in Choices
<1> DEFINE s == Prune(stored)
<1>1. s \in Choices
  BY DEF Prune, Choices
<1>2. \A k \in {"vision", "research", "reasoning", "matching", "image", "text", "capture", "lookup"} :
        s[k] \in Catalog \cup Retired \cup {NoModel}
  BY <1>1 DEF Choices, Keys, Roles
<1> HIDE DEF s
<1>3. \A k \in Keys : Migrate(s)[k] \in Catalog \cup Retired \cup {NoModel}
  <2> SUFFICES ASSUME NEW k \in Keys PROVE Migrate(s)[k] \in Catalog \cup Retired \cup {NoModel}
    OBVIOUS
  <2>1. CASE k = "vision"
    BY <2>1, <1>2 DEF Migrate, Or
  <2>2. CASE k \in {"research", "reasoning"}
    BY <2>2, <1>2 DEF Migrate, Or
  <2>3. CASE k = "matching"
    BY <2>3, <1>2 DEF Migrate
  <2>4. CASE k \notin {"vision", "research", "reasoning", "matching"}
    BY <2>4 DEF Migrate
  <2> QED
    BY <2>1, <2>2, <2>3, <2>4
<1> QED
  BY <1>3 DEF Settings, Migrate, Choices, s

\* No choice at all is a set of choices.
LEMMA NoChoicesType == NoChoices \in Choices
  BY DEF NoChoices, Choices

\* A task that has nothing to do.
LEMMA IdleType == Idle \in Tasks
  BY NoChoicesType, PortalAssumption DEF Idle, Tasks

\* A cache that was forgotten.
LEMMA NoCacheType == NoCache \in [data : Choices, age : 0..TTL]
  BY NoChoicesType, PortalAssumption DEF NoCache

LEMMA Spending ==
  ASSUME left \in Bounds, NEW what \in {"job", "save", "fault"}, Spend(what)
  PROVE  left' \in Bounds
  BY DEF Bounds, Spend

\* What a task's step makes of it.
LEMMA GoingOn ==
  ASSUME task \in [Actors -> Tasks], NEW a \in Actors,
         NEW at \in {"ask", "reading", "answered", "work"}, NEW choices \in Choices, NEW age \in 0..TTL,
         GoOn(a, at, choices, age)
  PROVE  /\ task' \in [Actors -> Tasks]
         /\ task'[a].at = at /\ task'[a].job = task[a].job /\ task'[a].got = choices /\ task'[a].age = age
         /\ \A b \in Actors \ {a} : task'[b] = task[b]
  BY DEF GoOn, Tasks

\* The portal begins well formed.
LEMMA TypeInit == Init => TypeInv
<1> SUFFICES ASSUME Init PROVE TypeInv
  OBVIOUS
<1> USE PortalAssumption
<1>1. stored \in Choices /\ left \in Bounds
  BY DEF Init
<1>2. ChoiceTypes
  <2>1. cache \in [data : Choices, age : 0..TTL] /\ since \in 0..(TTL + 2)
    BY NoCacheType DEF Init
  <2>2. saved \in BOOLEAN /\ stale \in BOOLEAN
    BY Zenon DEF Init
  <2> QED
    BY <1>1, <2>1, <2>2 DEF ChoiceTypes
<1>4. PortalTypes
  <2>1. queue \in Seq(Jobs)
    BY EmptySeq DEF Init
  <2>3. saving \in BOOLEAN
    BY Zenon DEF Init
  <2>2. task \in [Actors -> Tasks]
    BY IdleType DEF Init
  <2> QED
    BY <2>1, <2>2, <2>3 DEF Init, PortalTypes
<1> QED
  BY <1>1, <1>2, <1>4 DEF TypeInv

\* Every step leaves the portal well formed.
LEMMA TypeStep == TypeInv /\ [Next]_vars => TypeInv'
<1> SUFFICES ASSUME TypeInv, [Next]_vars PROVE TypeInv'
  OBVIOUS
<1> USE PortalAssumption, NoChoicesType, IdleType
<1>a. UNCHANGED portalVars => PortalTypes'
  BY DEF TypeInv, PortalTypes, portalVars
<1>c. UNCHANGED choiceVars => ChoiceTypes'
  BY DEF TypeInv, ChoiceTypes, choiceVars
<1>d. UNCHANGED left => (left \in Bounds)'
  BY DEF TypeInv
<1> USE DEF TypeInv
<1>1. ASSUME NEW j \in Jobs, Enqueue(j) PROVE TypeInv'
  BY <1>1, <1>c, Spending, AppendProperties DEF Enqueue, PortalTypes
<1>2. ASSUME NEW j \in Jobs, Spawn(j) PROVE TypeInv'
  BY <1>2, <1>c, Spending DEF Spawn, PortalTypes, Tasks
<1>3. Take => TypeInv'
  <2>1. SUFFICES ASSUME Take PROVE PortalTypes'
    BY <1>c, <1>d DEF Take
  <2>2. Head(queue) \in Jobs /\ Tail(queue) \in Seq(Jobs)
    BY <2>1, HeadTailProperties DEF Take, PortalTypes
  <2>3. [Idle EXCEPT !.at = "ask", !.job = Head(queue)] \in Tasks
    BY <2>2 DEF Tasks
  <2> QED
    BY <2>1, <2>2, <2>3 DEF Take, PortalTypes
<1>4. ASSUME NEW a \in Actors, Ask(a) PROVE TypeInv'
  BY <1>4, <1>c, <1>d, GoingOn DEF Ask, PortalTypes, ChoiceTypes
<1>5. ASSUME NEW a \in Actors, Answer(a) PROVE TypeInv'
  BY <1>5, <1>c, <1>d, GoingOn, SettingsType DEF Answer, PortalTypes, ChoiceTypes, Tasks
<1>6. ASSUME NEW a \in Actors, Return(a) PROVE TypeInv'
  BY <1>6, <1>d, GoingOn DEF Return, Keep, PortalTypes, ChoiceTypes, Tasks
<1>7. ASSUME NEW a \in Actors, NoAnswer(a) PROVE TypeInv'
  BY <1>7, GoingOn, Spending DEF NoAnswer, Keep, KeepOld, PortalTypes, ChoiceTypes, Tasks
<1>8. ASSUME NEW a \in Actors, NEW outcome \in {"done", "failed"}, Finish(a, outcome) PROVE TypeInv'
  BY <1>8, <1>c, <1>d DEF Finish, PortalTypes
<1>9. ASSUME NEW new \in Saves, SaveStored(new) PROVE TypeInv'
  <2>1. stored' \in Choices
    BY <1>9 DEF SaveStored, PutSettings, Choices
  <2>2. saving' \in BOOLEAN /\ saved' \in BOOLEAN
    BY <1>9, Zenon DEF SaveStored
  <2>3. left' \in Bounds
    BY <1>9, Spending DEF SaveStored
  <2> QED
    BY <1>9, <2>1, <2>2, <2>3 DEF SaveStored, PortalTypes, ChoiceTypes
<1>10. SaveConfirmed => TypeInv'
  BY <1>d, NoCacheType DEF SaveConfirmed, ForgetCache, PortalTypes, ChoiceTypes, Reading
<1>11. SaveUnanswered => TypeInv'
  BY <1>c, Spending DEF SaveUnanswered, PortalTypes
<1>12. Tick => TypeInv'
  <2>1. SUFFICES ASSUME Tick PROVE PortalTypes' /\ ChoiceTypes'
    BY <1>d DEF Tick
  <2>2. cache' \in [data : Choices, age : 0..TTL]
    BY <2>1 DEF Tick, Older, ChoiceTypes
  <2>3. \A a \in Actors : [task[a] EXCEPT !.age = 1] \in Tasks
    <3>1. 1 \in 0..TTL
      OBVIOUS
    <3> QED
      BY <3>1 DEF PortalTypes, Tasks
  <2> QED
    BY <2>1, <2>2, <2>3 DEF Tick, PortalTypes, ChoiceTypes
<1>13. Restart => TypeInv'
  <2>1. SUFFICES ASSUME Restart PROVE TypeInv'
    OBVIOUS
  <2>2. left' \in Bounds
    BY <2>1, Spending DEF Restart
  <2>3. queue' \in Seq(Jobs) /\ saving' \in BOOLEAN
    BY <2>1, EmptySeq, Zenon DEF Restart
  <2>4. PortalTypes'
    BY <2>1, <2>3 DEF Restart, PortalTypes
  <2>5. ChoiceTypes'
    BY <2>1, NoCacheType DEF Restart, ChoiceTypes, ForgetCache
  <2> QED
    BY <2>2, <2>4, <2>5
<1>14. UNCHANGED vars => TypeInv'
  BY <1>a, <1>c, <1>d DEF vars
<1> QED
  BY <1>1, <1>2, <1>3, <1>4, <1>5, <1>6, <1>7, <1>8, <1>9, <1>10, <1>11, <1>12, <1>13, <1>14
  DEF Next, Person, TaskStep
-----------------------------------------------------------------------------
(* Jobs and tasks.                                                         *)

Tracks == TasksInv /\ TracksInv

\* Nothing is taken up, given up or begun.
LEMMA NothingTaken ==
  ASSUME TypeInv, Tracks, UNCHANGED <<status, queue>>,
         \A a \in Actors : task'[a].job = task[a].job /\ (task'[a].at = "idle" <=> task[a].at = "idle")
  PROVE  Tracks'
  BY DEF Tracks, TasksInv, TracksInv

\* Actors are the runner and the spawned jobs; the runner is no job.
LEMMA ActorsApart ==
  /\ Runner \in Actors /\ Runner \notin Jobs /\ NoJob \notin Jobs
  /\ \A a \in Actors : a # Runner => a \in Jobs /\ Kind[a] \notin QueuedKinds
  /\ \A j \in Jobs : Kind[j] \in SpawnedKinds => j \in Actors
  BY PortalAssumption DEF Actors, QueuedKinds, SpawnedKinds

\* A new job joins the queue.
LEMMA EnqueueTracks ==
  ASSUME TypeInv, Tracks, NEW j \in Jobs, Enqueue(j)
  PROVE  Tracks'
<1> USE DEF Tracks, TypeInv, PortalTypes
<1>1. /\ Len(queue') = Len(queue) + 1 /\ Len(queue) \in Nat
      /\ \A i \in 1..Len(queue) : queue'[i] = queue[i]
      /\ queue'[Len(queue) + 1] = j
  BY AppendProperties DEF Enqueue
<1>2. \A i \in 1..Len(queue) : queue[i] # j
  BY DEF Enqueue, TracksInv
<1>3. \A k \in Jobs : status'[k] = IF k = j THEN "queued" ELSE status[k]
  BY DEF Enqueue
<1>4. TasksInv'
  BY <1>1 DEF Enqueue, TasksInv
<1>5. \A k \in Jobs : status'[k] = "queued" <=> \E i \in 1..Len(queue') : queue'[i] = k
  BY <1>1, <1>3 DEF TracksInv
<1>6. \A i, k \in 1..Len(queue') : queue'[i] = queue'[k] => i = k
  BY <1>1, <1>2 DEF TracksInv
<1>7. \A k \in Jobs : status'[k] = "processing" <=> \E a \in Actors : task'[a].job = k
  BY <1>3 DEF TracksInv, Enqueue
<1> QED
  BY <1>4, <1>5, <1>6, <1>7 DEF TracksInv

\* A spawned job gets the task that bears its name, which was idle.
LEMMA SpawnTracks ==
  ASSUME TypeInv, Tracks, NEW j \in Jobs, Spawn(j)
  PROVE  Tracks'
<1> USE ActorsApart DEF Tracks, TypeInv, PortalTypes
<1>1. j \in Actors /\ j # Runner /\ j # NoJob
  BY DEF Spawn
<1>2. task[j].job = NoJob
  BY <1>1 DEF Spawn, TasksInv, TracksInv
<1>3. /\ task'[j].at # "idle" /\ task'[j].job = j
      /\ \A a \in Actors \ {j} : task'[a] = task[a]
  BY <1>1 DEF Spawn, Idle
<1>4. \A k \in Jobs : status'[k] = IF k = j THEN "processing" ELSE status[k]
  BY DEF Spawn
<1>5. queue' = queue /\ status[j] = "unknown"
  BY DEF Spawn
<1>6. TasksInv'
  <2>1. \A a \in Actors : task'[a].at = "idle" <=> task'[a].job = NoJob
    BY <1>1, <1>3 DEF TasksInv
  <2>2. \A a \in Actors : task'[a].job # NoJob =>
          IF a = Runner THEN Kind[task'[a].job] \in QueuedKinds ELSE task'[a].job = a
    BY <1>1, <1>3 DEF TasksInv
  <2> QED
    BY <2>1, <2>2, <1>5 DEF TasksInv
<1>7. TracksInv'
  BY <1>1, <1>2, <1>3, <1>4, <1>5 DEF TracksInv
<1> QED
  BY <1>6, <1>7

\* The runner takes the oldest job out of the queue.
LEMMA TakeTracks ==
  ASSUME TypeInv, Tracks, Take
  PROVE  Tracks'
<1> USE ActorsApart DEF Tracks, TypeInv, PortalTypes
<1> DEFINE j == Head(queue)
<1>1. /\ j \in Jobs /\ Len(queue) \in Nat \ {0} /\ j = queue[1]
      /\ Len(queue') = Len(queue) - 1
      /\ \A i \in 1..Len(queue') : queue'[i] = queue[i + 1]
  BY HeadTailProperties, EmptySeq DEF Take
<1>2. status[j] = "queued" /\ Kind[j] \in QueuedKinds
  BY <1>1 DEF TracksInv, TasksInv
<1>3. task[Runner].job = NoJob
  BY DEF Take, TasksInv
<1>4. /\ task'[Runner].at # "idle" /\ task'[Runner].job = j
      /\ \A a \in Actors \ {Runner} : task'[a] = task[a]
  BY DEF Take, Idle
<1>5. \A k \in Jobs : status'[k] = IF k = j THEN "processing" ELSE status[k]
  BY <1>1 DEF Take
<1> HIDE DEF j
<1>6. TasksInv'
  BY <1>1, <1>2, <1>4 DEF TasksInv
<1>7. \A k \in Jobs : status'[k] = "queued" <=> \E i \in 1..Len(queue') : queue'[i] = k
  <2> SUFFICES ASSUME NEW k \in Jobs
               PROVE  status'[k] = "queued" <=> \E i \in 1..Len(queue') : queue'[i] = k
    OBVIOUS
  <2>1. ASSUME status'[k] = "queued" PROVE \E i \in 1..Len(queue') : queue'[i] = k
    <3>1. k # j /\ status[k] = "queued"
      BY <2>1, <1>5
    <3>2. PICK i \in 1..Len(queue) : queue[i] = k
      BY <3>1 DEF TracksInv
    <3>3. i - 1 \in 1..Len(queue') /\ queue'[i - 1] = k
      BY <3>1, <3>2, <1>1
    <3> QED
      BY <3>3
  <2>2. ASSUME NEW i \in 1..Len(queue'), queue'[i] = k PROVE status'[k] = "queued"
    <3>1. i + 1 \in 1..Len(queue) /\ queue[i + 1] = k
      BY <2>2, <1>1
    <3>2. k # j /\ status[k] = "queued"
      BY <3>1, <1>1 DEF TracksInv
    <3> QED
      BY <3>2, <1>5
  <2> QED
    BY <2>1, <2>2
<1>8. \A i, k \in 1..Len(queue') : queue'[i] = queue'[k] => i = k
  <2> SUFFICES ASSUME NEW i \in 1..Len(queue'), NEW k \in 1..Len(queue'), queue'[i] = queue'[k]
               PROVE  i = k
    OBVIOUS
  <2>1. i + 1 \in 1..Len(queue) /\ k + 1 \in 1..Len(queue) /\ queue[i + 1] = queue[k + 1]
    BY <1>1
  <2>2. i + 1 = k + 1
    BY <2>1 DEF TracksInv
  <2> QED
    BY <2>2
<1>9. \A k \in Jobs : status'[k] = "processing" <=> \E a \in Actors : task'[a].job = k
  <2> SUFFICES ASSUME NEW k \in Jobs
               PROVE  status'[k] = "processing" <=> \E a \in Actors : task'[a].job = k
    OBVIOUS
  <2>1. CASE k = j
    BY <2>1, <1>4, <1>5
  <2>2. CASE k # j
    <3>1. status[k] = "processing" <=> \E a \in Actors : task[a].job = k
      BY DEF TracksInv
    <3>2. task[Runner].job # k /\ task'[Runner].job # k
      BY <2>2, <1>3, <1>4
    <3> QED
      BY <2>2, <3>1, <3>2, <1>4, <1>5
  <2> QED
    BY <2>1, <2>2
<1> QED
  BY <1>6, <1>7, <1>8, <1>9 DEF TracksInv

\* A task that ends leaves its job answered, and no task at work on it.
LEMMA FinishTracks ==
  ASSUME TypeInv, Tracks, NEW a \in Actors, NEW outcome \in {"done", "failed"}, Finish(a, outcome)
  PROVE  Tracks'
<1> USE ActorsApart DEF Tracks, TypeInv, PortalTypes
<1> DEFINE j == task[a].job
<1>1. j \in Jobs /\ status[j] = "processing"
  BY DEF Finish, TasksInv, TracksInv, Tasks
<1>2. \A b \in Actors : task[b].job = j => b = a
  BY <1>1 DEF TasksInv
<1>3. \A k \in Jobs : status'[k] = IF k = j THEN outcome ELSE status[k]
  BY <1>1 DEF Finish
<1>4. /\ task'[a].at = "idle" /\ task'[a].job = NoJob /\ queue' = queue
      /\ \A b \in Actors \ {a} : task'[b] = task[b]
  BY DEF Finish, Idle
<1> HIDE DEF j
<1>5. TasksInv'
  BY <1>4 DEF TasksInv
<1>6. \A k \in Jobs : status'[k] = "queued" <=> status[k] = "queued"
  BY <1>1, <1>3
<1>7. \A k \in Jobs : status'[k] = "processing" <=> \E b \in Actors : task'[b].job = k
  <2> SUFFICES ASSUME NEW k \in Jobs
               PROVE  status'[k] = "processing" <=> \E b \in Actors : task'[b].job = k
    OBVIOUS
  <2>1. CASE k = j
    <3>1. \A b \in Actors : task'[b].job # j
      BY <1>1, <1>2, <1>4
    <3> QED
      BY <2>1, <3>1, <1>3
  <2>2. CASE k # j
    <3>1. status[k] = "processing" <=> \E b \in Actors : task[b].job = k
      BY DEF TracksInv
    <3>2. task[a].job # k /\ task'[a].job # k
      BY <2>2, <1>4 DEF j
    <3> QED
      BY <2>2, <3>1, <3>2, <1>3, <1>4
  <2> QED
    BY <2>1, <2>2
<1> QED
  BY <1>4, <1>5, <1>6, <1>7 DEF TracksInv

\* A restart leaves neither queue nor tasks, and no job that waits for one.
LEMMA RestartTracks ==
  ASSUME TypeInv, Tracks, Restart
  PROVE  Tracks'
<1>1. \A j \in Jobs : status'[j] \notin {"queued", "processing"}
  BY DEF Restart
<1>2. queue' = <<>> /\ \A a \in Actors : task'[a].at = "idle" /\ task'[a].job = NoJob
  BY DEF Restart, Idle
<1>3. Len(queue') = 0
  BY <1>2
<1> QED
  BY <1>1, <1>2, <1>3, ActorsApart DEF Tracks, TasksInv, TracksInv

\* Every step keeps track of the jobs.
LEMMA TracksStep == TypeInv /\ Tracks /\ [Next]_vars => Tracks'
<1> SUFFICES ASSUME TypeInv, Tracks, [Next]_vars PROVE Tracks'
  OBVIOUS
<1> USE DEF TypeInv, PortalTypes, ChoiceTypes
<1>1. ASSUME UNCHANGED portalVars PROVE Tracks'
  BY <1>1, NothingTaken DEF portalVars
<1>2. ASSUME NEW a \in Actors, Ask(a) \/ Answer(a) \/ Return(a) \/ NoAnswer(a) PROVE Tracks'
  <2>1. UNCHANGED <<status, queue>>
    BY <1>2 DEF Ask, Answer, Return, NoAnswer
  <2>2. \A b \in Actors : task'[b].job = task[b].job /\ (task'[b].at = "idle" <=> task[b].at = "idle")
    <3>1. ASSUME NEW at \in {"work", "reading", "answered"}, NEW choices, NEW age,
                 GoOn(a, at, choices, age), task[a].at # "idle"
          PROVE  \A b \in Actors : task'[b].job = task[b].job /\ (task'[b].at = "idle" <=> task[b].at = "idle")
      BY <3>1 DEF GoOn, Tasks
    <3> QED
      BY <1>2, <3>1 DEF Ask, Answer, Return, NoAnswer
  <2> QED
    BY <2>1, <2>2, NothingTaken
<1>3. ASSUME Tick PROVE Tracks'
  BY <1>3, NothingTaken DEF Tick, Tasks
<1>4. ASSUME NEW new \in Saves, SaveStored(new) PROVE Tracks'
  BY <1>4, NothingTaken DEF SaveStored
<1>5. ASSUME SaveConfirmed \/ SaveUnanswered PROVE Tracks'
  BY <1>5, NothingTaken DEF SaveConfirmed, SaveUnanswered
<1> QED
  <2>1. CASE Person
    BY <2>1, <1>4, <1>5, EnqueueTracks, SpawnTracks DEF Person
  <2>2. ASSUME NEW a \in Actors, TaskStep(a) PROVE Tracks'
    BY <2>2, <1>2, TakeTracks, FinishTracks DEF TaskStep
  <2> QED
    BY <2>1, <2>2, <1>1, <1>3, RestartTracks DEF Next, vars

-----------------------------------------------------------------------------
(* The choices.                                                            *)

\* What is left of a stored choice, and where it is looked for.
LEMMA SettingsOfRoles ==
  LET kept(k) == IF stored[k] \in Catalog THEN stored[k] ELSE NoModel IN
  /\ Settings["vision"] = Or(kept("vision"), Or(kept("image"), Or(kept("capture"), kept("lookup"))))
  /\ \A r \in {"research", "reasoning"} : Settings[r] = Or(kept(r), kept("text"))
  /\ Settings["image"] = NoModel /\ Settings["text"] = NoModel
<1> DEFINE kept(k) == IF stored[k] \in Catalog THEN stored[k] ELSE NoModel
           s == Prune(stored)
<1>1. \A k \in {"vision", "research", "reasoning", "image", "text", "capture", "lookup"} : s[k] = kept(k)
  BY DEF Prune, Keys, Roles
<1>2. Settings = Migrate(s)
  BY DEF Settings
<1> HIDE DEF s, kept
<1>3. Settings["vision"] = Or(kept("vision"), Or(kept("image"), Or(kept("capture"), kept("lookup"))))
  BY <1>1, <1>2 DEF Migrate, Keys, Roles
<1>4. Settings["research"] = Or(kept("research"), kept("text"))
  BY <1>1, <1>2 DEF Migrate, Keys, Roles
<1>5. Settings["reasoning"] = Or(kept("reasoning"), kept("text"))
  BY <1>1, <1>2 DEF Migrate, Keys, Roles
<1>6. Settings["image"] = NoModel /\ Settings["text"] = NoModel
  BY <1>2 DEF Migrate, Keys, Roles
<1> QED
  BY <1>3, <1>4, <1>5, <1>6 DEF kept

\* Whatever is stored, the settings keep the newest of a role's choices on offer.
LEMMA OldChoiceAlways == OldChoiceKept
<1> USE PortalAssumption
<1>1. ModelForRole("vision", Settings) =
        IF stored["vision"] \in Catalog THEN stored["vision"]
        ELSE IF stored["image"] \in Catalog THEN stored["image"]
        ELSE IF stored["capture"] \in Catalog THEN stored["capture"]
        ELSE IF stored["lookup"] \in Catalog THEN stored["lookup"] ELSE ConfigModel
  BY SettingsOfRoles DEF ModelForRole, Legacy, Or
<1>2. \A r \in {"research", "reasoning"} :
        ModelForRole(r, Settings) =
          IF stored[r] \in Catalog THEN stored[r]
          ELSE IF stored["text"] \in Catalog THEN stored["text"] ELSE ConfigModel
  BY SettingsOfRoles DEF ModelForRole, Legacy, Or
<1> SUFFICES ASSUME NEW r \in Roles
             PROVE  LET live == {i \in DOMAIN Names[r] : stored[Names[r][i]] \in Catalog} IN
                    ModelForRole(r, Settings) =
                      IF live = {} THEN ConfigModel
                      ELSE stored[Names[r][CHOOSE i \in live : \A j \in live : i <= j]]
  BY DEF OldChoiceKept
<1> DEFINE live == {i \in DOMAIN Names[r] : stored[Names[r][i]] \in Catalog}
           first == CHOOSE i \in live : \A j \in live : i <= j
<1>3. \A i \in live : (\A j \in live : i <= j) => first = i
  <2> SUFFICES ASSUME NEW i \in live, \A j \in live : i <= j PROVE first = i
    OBVIOUS
  <2>1. first \in live /\ \A j \in live : first <= j
    OBVIOUS
  <2>2. live \subseteq Int
    BY DEF Names, Roles
  <2> HIDE DEF live, first
  <2>3. first <= i /\ i <= first /\ first \in Int /\ i \in Int
    BY <2>1, <2>2
  <2> QED
    BY <2>3
<1> HIDE DEF first
<1>4. CASE r = "vision"
  <2>1. live = {i \in 1..4 : stored[<<"vision", "image", "capture", "lookup">>[i]] \in Catalog}
    BY <1>4 DEF Names
  <2> QED
    BY <1>1, <1>3, <1>4, <2>1 DEF Names
<1>5. CASE r \in {"research", "reasoning"}
  <2>1. Names[r] = <<r, "text">>
    BY <1>5 DEF Names
  <2>2. live = {i \in 1..2 : stored[<<r, "text">>[i]] \in Catalog}
    BY <2>1
  <2> QED
    BY <1>2, <1>3, <1>5, <2>1, <2>2
<1> QED
  BY <1>4, <1>5 DEF Roles

\* Every step keeps the answers and the cache true, or their age tells.
LEMMA ChoicesStep == TypeInv /\ ChoicesInv /\ [Next]_vars => ChoicesInv'
<1> SUFFICES ASSUME TypeInv, ChoicesInv, [Next]_vars PROVE ChoicesInv'
  OBVIOUS
<1> USE PortalAssumption DEF TypeInv, PortalTypes, ChoiceTypes
<1>1. ASSUME stored' = stored PROVE Settings' = Settings
  BY <1>1 DEF Settings, Prune
<1>2. ASSUME UNCHANGED choiceVars, \A a \in Actors : task'[a].at = "answered" => task'[a] = task[a]
      PROVE ChoicesInv'
  BY <1>2, <1>1 DEF choiceVars, ChoicesInv, Fresh
<1>3. ASSUME NEW j \in Jobs, Enqueue(j) \/ Spawn(j) PROVE ChoicesInv'
  <2>1. CASE Enqueue(j)
    BY <2>1, <1>2 DEF Enqueue
  <2>2. CASE Spawn(j)
    <3>1. \A a \in Actors : task'[a].at = "answered" => task'[a] = task[a]
      BY <2>2, ActorsApart DEF Spawn, Idle
    <3> QED
      BY <2>2, <3>1, <1>2 DEF Spawn
  <2> QED
    BY <1>3, <2>1, <2>2
<1>4. ASSUME NEW new \in Saves, SaveStored(new) PROVE ChoicesInv'
  BY <1>4 DEF SaveStored, ChoicesInv, Tasks
<1>5. ASSUME SaveConfirmed PROVE ChoicesInv'
  BY <1>5, <1>1 DEF SaveConfirmed, ChoicesInv, Reading, ForgetCache, NoCache, Fresh
<1>6. ASSUME SaveUnanswered PROVE ChoicesInv'
  BY <1>6, <1>2 DEF SaveUnanswered
<1>8. ASSUME Tick PROVE ChoicesInv'
  <2>1. Settings' = Settings
    BY <1>8, <1>1 DEF Tick
  <2>2. ASSUME NEW a \in Actors, task'[a].at = "answered", saved \/ since' > task'[a].age PROVE task'[a].got = Settings
    <3>1. task[a].at = "answered" /\ task'[a].got = task[a].got /\ task[a].age = 0 /\ task'[a].age = 1
      BY <1>8, <2>2 DEF Tick, Tasks
    <3> QED
      BY <1>8, <2>2, <3>1 DEF Tick, ChoicesInv
  <2>3. ASSUME Fresh', ~stale, saved \/ since' > cache'.age PROVE cache'.data = Settings
    BY <1>8, <2>3 DEF Tick, Fresh, Older, ChoicesInv
  <2> QED
    BY <1>8, <2>1, <2>2, <2>3 DEF Tick, ChoicesInv
<1>9. ASSUME NEW a \in Actors, TaskStep(a) PROVE ChoicesInv'
  <2>1. CASE a = Runner /\ Take
    BY <2>1, <1>2 DEF Take, Idle, Actors
  <2>2. CASE Ask(a)
    BY <2>2, <1>2, GoingOn, NoChoicesType DEF Ask
  <2>3. CASE Answer(a)
    <3>1. /\ task'[a].got = Settings
          /\ \A b \in Actors \ {a} : task'[b] = task[b]
      BY <2>3, GoingOn, SettingsType DEF Answer, Tasks
    <3>2. UNCHANGED choiceVars /\ Settings' = Settings
      BY <2>3, <1>1 DEF Answer, choiceVars
    <3> QED
      BY <3>1, <3>2 DEF ChoicesInv, Fresh, choiceVars
  <2>4. CASE Return(a)
    <3>1. \A b \in Actors : task'[b].at = "answered" => task'[b] = task[b]
      BY <2>4, GoingOn DEF Return, Tasks
    <3>2. UNCHANGED <<since, saved>> /\ Settings' = Settings
      BY <2>4, <1>1 DEF Return
    <3>3. cache'.data = task[a].got /\ cache'.age = task[a].age /\ task[a].at = "answered"
      BY <2>4 DEF Return, Keep
    <3> QED
      BY <3>1, <3>2, <3>3 DEF ChoicesInv
  <2>5. CASE NoAnswer(a)
    <3>1. \A b \in Actors : task'[b].at = "answered" => task'[b] = task[b]
      BY <2>5, GoingOn DEF NoAnswer, Tasks
    <3>2. UNCHANGED <<since, saved>> /\ Settings' = Settings /\ stale'
      BY <2>5, <1>1 DEF NoAnswer
    <3> QED
      BY <3>1, <3>2 DEF ChoicesInv
  <2>6. ASSUME NEW outcome \in {"done", "failed"}, Finish(a, outcome) PROVE ChoicesInv'
    BY <2>6, <1>2 DEF Finish, Idle
  <2> QED
    BY <1>9, <2>1, <2>2, <2>3, <2>4, <2>5, <2>6 DEF TaskStep
<1>7. ASSUME Restart PROVE ChoicesInv'
  BY <1>7, <1>1 DEF Restart, ForgetCache, NoCache, Fresh, ChoicesInv, Idle
<1>10. ASSUME UNCHANGED vars PROVE ChoicesInv'
  BY <1>10, <1>2 DEF vars, portalVars
<1> QED
  BY <1>3, <1>4, <1>5, <1>6, <1>7, <1>8, <1>9, <1>10 DEF Next, Person

\* An operation that begins on an answer, or on a cache, that is not older than the
\* last change begins with the choices of now.
LEMMA RecentStep ==
  TypeInv /\ Tracks /\ ChoicesInv /\ [Next]_vars =>
    \A a \in Actors :
      (task[a].at \in {"ask", "reading", "answered"} /\ task'[a].at = "work" /\ ~stale' /\ since > TTL) =>
      task'[a].got = Settings
<1> SUFFICES ASSUME TypeInv, Tracks, ChoicesInv, [Next]_vars, NEW a \in Actors,
                    task[a].at \in {"ask", "reading", "answered"}, task'[a].at = "work", ~stale', since > TTL
             PROVE  task'[a].got = Settings
  OBVIOUS
<1> USE PortalAssumption DEF TypeInv, PortalTypes, ChoiceTypes
<1>1. task'[a] # task[a]
  OBVIOUS
<1>2. ASSUME NEW b \in Actors, TaskStep(b) PROVE task'[a].got = Settings
  <2>1. CASE b = Runner /\ Take
    BY <2>1, <1>1 DEF Take, Idle
  <2>2. CASE Ask(b)
    <3>1. b = a /\ Fresh /\ task'[a].got = cache.data
      BY <2>2, <1>1, GoingOn, NoChoicesType DEF Ask
    <3>2. ~stale /\ since > cache.age
      BY <2>2, <3>1 DEF Ask, choiceVars, Fresh
    <3> QED
      BY <3>1, <3>2 DEF ChoicesInv
  <2>3. CASE Answer(b)
    BY <2>3, <1>1, GoingOn, SettingsType DEF Answer, Tasks
  <2>4. CASE Return(b)
    <3>1. b = a /\ task[a].at = "answered" /\ task'[a].got = task[a].got
      BY <2>4, <1>1, GoingOn DEF Return, Tasks
    <3>2. since > task[a].age
      BY DEF Tasks
    <3> QED
      BY <3>1, <3>2 DEF ChoicesInv
  <2>5. CASE NoAnswer(b)
    BY <2>5 DEF NoAnswer
  <2>6. ASSUME NEW outcome \in {"done", "failed"}, Finish(b, outcome) PROVE task'[a].got = Settings
    BY <2>6, <1>1 DEF Finish, Idle
  <2> QED
    BY <1>2, <2>1, <2>2, <2>3, <2>4, <2>5, <2>6 DEF TaskStep
<1>3. ASSUME NEW j \in Jobs, Spawn(j) PROVE FALSE
  <2>1. j \in Actors /\ j # Runner /\ j # NoJob
    BY <1>3, ActorsApart DEF Spawn
  <2>2. task[j].at = "idle"
    BY <1>3, <2>1 DEF Spawn, Tracks, TasksInv, TracksInv
  <2>3. a # j
    BY <2>2
  <2> QED
    BY <2>3, <1>3, <1>1 DEF Spawn
<1>4. ~Tick
  <2>1. ASSUME Tick PROVE task'[a].at = task[a].at
    BY <2>1 DEF Tick
  <2>2. task[a].at # "work"
    OBVIOUS
  <2> QED
    BY <2>1, <2>2
<1>5. ASSUME Restart PROVE FALSE
  BY <1>5, <1>1 DEF Restart, Idle
<1> QED
  BY <1>1, <1>2, <1>3, <1>4, <1>5
  DEF Next, Person, Enqueue, SaveStored, SaveConfirmed, SaveUnanswered, portalVars, vars
-----------------------------------------------------------------------------
\* What is true in every state.
Safe == TypeInv /\ Tracks /\ ChoicesInv

\* The portal begins safe.
LEMMA SafeInit == Init => Safe
<1> SUFFICES ASSUME Init PROVE Safe
  OBVIOUS
<1> USE PortalAssumption
<1>1. TypeInv
  BY TypeInit
<1>2. Tracks
  BY EmptySeq DEF Init, Tracks, TasksInv, TracksInv, Idle
<1>3. ChoicesInv
  BY DEF Init, ChoicesInv, Idle, Fresh, NoCache
<1> QED
  BY <1>1, <1>2, <1>3 DEF Safe

\* Every step leaves the portal safe.
LEMMA SafeStep == Safe /\ [Next]_vars => Safe'
  BY TypeStep, TracksStep, ChoicesStep DEF Safe

\* Safe holds in every state the portal reaches.
THEOREM PortalSafe == Spec => []Safe
<1> QED
  BY SafeInit, SafeStep, PTL DEF Spec

\* The portal's state and the stored and cached choices are well formed, for any jobs,
\* choices and faults.
THEOREM PortalTypeCorrect == Spec => []TypeOK
<1>1. Safe => TypeOK
  BY DEF Safe, TypeInv, PortalTypes, ChoiceTypes, TypeOK, ChoiceTypeOK, Tasks
<1> QED
  BY <1>1, PortalSafe, PTL

\* admin_web.py:148-183, 310-330: a job that says queued is in the queue, once, and
\* one that says processing has a task at work on it, after a restart too.
THEOREM EveryJobTracked == Spec => []JobsTracked
<1>1. Safe => JobsTracked
  <2> SUFFICES ASSUME Safe PROVE JobsTracked
    OBVIOUS
  <2>1. DOMAIN queue = 1..Len(queue)
    BY LenProperties DEF Safe, TypeInv, PortalTypes
  <2>2. ASSUME NEW j \in Jobs
        PROVE  /\ status[j] = "queued" <=> \E i \in DOMAIN queue : queue[i] = j
               /\ \A i, k \in DOMAIN queue : queue[i] = queue[k] => i = k
               /\ status[j] = "processing" <=> \E a \in Actors : task[a].job = j
    BY <2>1 DEF Safe, Tracks, TracksInv
  <2> QED
    BY <2>2, Zenon DEF JobsTracked
<1> QED
  BY <1>1, PortalSafe, PTL

\* models_catalog.py:130-134: whatever is stored, a choice saved under an older name
\* counts while its model is on offer, and never hides one that could be used.
THEOREM NoChoiceLost == Spec => []OldChoiceKept
<1> QED
  BY OldChoiceAlways, PTL

\* model_roles.py:88: after a confirmed save the next operation runs on the new
\* choices, whatever reads were under way before and whoever restarts.
THEOREM SaveIsSeen == Spec => []NextSeesSave
<1>1. Safe => NextSeesSave
  BY DEF Safe, ChoicesInv, NextSeesSave
<1> QED
  BY <1>1, PortalSafe, PTL

\* model_roles.py:63-65: no operation begins with choices older than the cache's
\* period, unless the relay did not answer.
THEOREM ChoiceAlwaysRecent == Spec => ChoiceIsRecent
<1> DEFINE Recent == \A a \in Actors :
      (task[a].at \in {"ask", "reading", "answered"} /\ task'[a].at = "work" /\ ~stale' /\ since > TTL) =>
      task'[a].got = Settings
<1>1. Safe /\ [Next]_vars => [Recent]_vars
  BY RecentStep DEF Safe
<1>2. Spec => [][Recent]_vars
  BY <1>1, PortalSafe, PTL DEF Spec
<1> QED
  BY <1>2 DEF ChoiceIsRecent

=============================================================================
