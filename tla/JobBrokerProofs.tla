--------------------------- MODULE JobBrokerProofs --------------------------
(***************************************************************************)
(* The safety of the job broker, for any set of jobs, any timeouts and any *)
(* number of faults.                                                       *)
(*                                                                         *)
(* BrokerInv is inductive.  Its parts say where the worker and its call    *)
(* are (WorkerInv, CallInv), what every request that may still reach the   *)
(* relay can claim truthfully (PostsAreTrue), what a "done" row stands for *)
(* (DoneIsTrue), in which order jobs were first claimed (ClaimedInOrder),  *)
(* and who may still start a job once more (Budget).  FreshInv, relative   *)
(* to it, says where the answered changes are as long as nothing failed.   *)
(***************************************************************************)
EXTENDS JobBroker, FiniteSetTheorems, TLAPS

Executing == {"working", "snapJob", "post", "report"}
Waiting == {"polling", "snapIdle", "snapJob", "post", "report"}

Claimed(j) == status[j] \notin {"none", "pending"}

\* The loop holds a claimed job exactly while it executes one.
WorkerInv ==
  /\ pc \in Executing => job \in Jobs /\ Claimed(job)
  /\ pc \notin Executing => job = NoJob
  /\ pc \in {"snapJob", "post"} =>
       /\ outcome \in Verdicts /\ job \in worked
       /\ outcome = "saved" /\ job \in Mutating => job \in vault

\* The outstanding call is the one the loop is waiting at.
CallInv ==
  /\ wire # "free" => pc \in Waiting
  /\ wire = "sent" =>
       \/ pc = "polling" /\ req = NextReq
       \/ pc = "post" /\ req = DoneReq(job, outcome)
       \/ pc = "report" /\ req = FailReq(job)
       \/ pc \in {"snapIdle", "snapJob"} /\ \E S \in SUBSET Changes : req = SnapReq(S)
  /\ reply # NoJob => wire = "answered" /\ pc = "polling" /\ Claimed(reply)
  /\ wire = "answered" /\ pc \in {"post", "report"} => status[job] \in {"done", "failed", "pruned"}

\* A post, whoever still waits for its answer, speaks of a job that was claimed,
\* and "done" of one that was worked.
TruePost(r) ==
  /\ r.kind \in {"done", "failed"} => Claimed(r.job)
  /\ r.kind = "done" =>
       /\ r.job \in worked
       /\ r.result = "saved" /\ r.job \in Mutating => r.job \in vault

PostsAreTrue == \A s \in stray : TruePost(s.req)

DoneIsTrue ==
  \A j \in Jobs : status[j] = "done" =>
    /\ j \in worked /\ result[j] \in Verdicts
    /\ result[j] = "saved" /\ j \in Mutating => j \in vault

\* No job was claimed while an older one had not had its turn.
ClaimedInOrder ==
  \A j, k \in Jobs : Claimed(j) /\ born[k] < born[j] => status[k] # "pending"

Submitted == {j \in Jobs : status[j] # "none"}

BornBelow == \A j \in Submitted : born[j] < Cardinality(Submitted)

\* The worker executes j and may still make it known.
Exec(j) == pc \in Executing /\ job = j /\ ~(pc = "report" /\ wire = "lost")

Handed(j) == pc = "polling" /\ wire = "answered" /\ reply = j

\* j may be started once more without another fault.
MayStart(j) ==
  \/ status[j] \in {"none", "pending", "processing"} /\ ~Exec(j)
  \/ Handed(j)

Budget ==
  \A j \in Jobs : starts[j] + (IF MayStart(j) THEN 1 ELSE 0) <= 1 + faults

BrokerInv ==
  /\ TypeOK /\ PayloadKept
  /\ WorkerInv /\ CallInv /\ PostsAreTrue /\ DoneIsTrue
  /\ ClaimedInOrder /\ BornBelow /\ Budget

-----------------------------------------------------------------------------
(* What a step does to the rows.                                           *)

RowTypes ==
  /\ status \in [Jobs -> Statuses]
  /\ result \in [Jobs -> Verdicts \cup {"none"}]
  /\ payloads \subseteq Jobs
  /\ born \in [Jobs -> Nat] /\ age \in [Jobs -> Nat]

Settled(j) == status[j] \in {"done", "failed", "pruned"}

\* The rows' part of the invariant holds again, and no row has gone back.
RowsAdvance ==
  /\ RowTypes' /\ PayloadKept' /\ DoneIsTrue' /\ ClaimedInOrder' /\ BornBelow'
  /\ \A j \in Jobs : (Claimed(j) => Claimed(j)') /\ (Settled(j) => Settled(j)')

\* What a request of each kind carries.
LEMMA RequestFields ==
  ASSUME NEW r \in Requests
  PROVE  /\ r.kind = "done" => r.job \in Jobs /\ r.result \in Verdicts
         /\ r.kind = "failed" => r.job \in Jobs
         /\ r.kind = "snapshot" => r.items \subseteq Changes
  BY DEF Requests, NextReq, DoneReq, FailReq, SnapReq

\* Rows that are not written advance, whatever else is recorded.
LEMMA RowsUnwritten ==
  ASSUME BrokerInv, UNCHANGED <<status, result, payloads, born>>, age' \in [Jobs -> Nat],
         worked \subseteq worked', vault \subseteq vault'
  PROVE  RowsAdvance
<1>1. RowTypes' /\ PayloadKept'
  BY DEF BrokerInv, TypeOK, RowTypes, PayloadKept
<1>2. DoneIsTrue'
  BY DEF BrokerInv, DoneIsTrue
<1>3. ClaimedInOrder' /\ BornBelow'
  BY DEF BrokerInv, ClaimedInOrder, BornBelow, Claimed, Submitted
<1> QED
  BY <1>1, <1>2, <1>3 DEF RowsAdvance, Claimed, Settled

\* create_job: the new row is the youngest.
LEMMA SubmitAdvances ==
  ASSUME BrokerInv, NEW j \in Jobs, Submit(j)
  PROVE  RowsAdvance
<1> USE DEF BrokerInv, TypeOK
<1>1. /\ status[j] = "none"
      /\ \A k \in Jobs : status'[k] = IF k = j THEN "pending" ELSE status[k]
      /\ \A k \in Jobs : born'[k] = IF k = j THEN Cardinality(Submitted) ELSE born[k]
  BY DEF Submit, Submitted
<1>2. IsFiniteSet(Submitted) /\ Cardinality(Submitted) \in Nat
  <2>1. Submitted \subseteq Jobs
    BY DEF Submitted
  <2> QED
    BY <2>1, BrokerAssumption, FS_Subset, FS_CardinalityType
<1>3. RowTypes'
  BY <1>2 DEF Submit, RowTypes, Statuses, Submitted
<1>4. PayloadKept'
  BY <1>1 DEF Submit, PayloadKept
<1>5. DoneIsTrue'
  BY <1>1 DEF Submit, DoneIsTrue, historyVars
<1>6. ClaimedInOrder'
  <2> SUFFICES ASSUME NEW i \in Jobs, NEW k \in Jobs, Claimed(i)', born'[k] < born'[i]
               PROVE status'[k] # "pending"
    BY DEF ClaimedInOrder
  <2>1. Claimed(i) /\ i # j /\ born'[i] = born[i] /\ i \in Submitted
    BY <1>1 DEF Claimed, Submitted
  <2>2. k # j
    BY <1>1, <1>2, <2>1 DEF BornBelow
  <2> QED
    BY <1>1, <2>1, <2>2 DEF ClaimedInOrder
<1>7. BornBelow'
  <2>1. Submitted' = Submitted \cup {j} /\ j \notin Submitted
    BY <1>1 DEF Submitted
  <2>2. Cardinality(Submitted') = Cardinality(Submitted) + 1
    BY <2>1, <1>2, FS_AddElement
  <2> QED
    BY <1>1, <1>2, <2>1, <2>2 DEF BornBelow, Submitted
<1> QED
  BY <1>1, <1>3, <1>4, <1>5, <1>6, <1>7 DEF RowsAdvance, Claimed, Settled

\* claim_next_job: the row it claims is the oldest that waits.
LEMMA ClaimAdvances ==
  ASSUME BrokerInv, NEW j \in Jobs \cup {NoJob}, Claim(j), UNCHANGED <<vault, worked>>
  PROVE  RowsAdvance
<1> USE DEF BrokerInv, TypeOK
<1>1. CASE j = NoJob
  BY <1>1, RowsUnwritten DEF Claim, rowVars
<1>2. CASE j \in Jobs
  <2>1. /\ status[j] \in {"pending", "processing"} /\ Oldest(j)
        /\ \A k \in Jobs : status'[k] = IF k = j THEN "processing" ELSE status[k]
        /\ UNCHANGED <<result, payloads, born>> /\ age' \in [Jobs -> Nat]
    BY <1>2, BrokerAssumption DEF Claim, Oldest, Claimable
  <2>2. RowTypes'
    BY <1>2, <2>1, BrokerAssumption DEF Claim, RowTypes, Statuses
  <2>3. PayloadKept' /\ DoneIsTrue'
    BY <1>2, <2>1 DEF PayloadKept, DoneIsTrue
  <2>4. ClaimedInOrder'
    <3> SUFFICES ASSUME NEW i \in Jobs, NEW k \in Jobs, Claimed(i)', born[k] < born[i],
                        status'[k] = "pending"
                 PROVE FALSE
      BY <2>1 DEF ClaimedInOrder
    <3>1. status[k] = "pending" /\ Claimable(k)
      BY <2>1 DEF Claimable
    <3>2. CASE i = j
      BY <3>1, <3>2, <2>1 DEF Oldest
    <3>3. CASE i # j
      BY <3>1, <3>3, <2>1 DEF ClaimedInOrder, Claimed
    <3> QED
      BY <3>2, <3>3
  <2>5. Submitted' = Submitted
    BY <1>2, <2>1 DEF Submitted
  <2>6. BornBelow'
    BY <2>1, <2>5 DEF BornBelow
  <2> QED
    BY <1>2, <2>1, <2>2, <2>3, <2>4, <2>6 DEF RowsAdvance, Claimed, Settled
<1> QED
  BY <1>1, <1>2

\* complete_job and fail_job, of a post that is true.
LEMMA AcceptAdvances ==
  ASSUME BrokerInv, NEW r \in Requests, Accept(r), TruePost(r), UNCHANGED <<vault, worked>>
  PROVE  RowsAdvance /\ (r.kind \in {"done", "failed"} => Settled(r.job)')
<1> USE DEF BrokerInv, TypeOK
<1>1. CASE r.kind \in {"done", "failed"} => status[r.job] = "pruned"
  <2>1. UNCHANGED rowVars
    BY <1>1 DEF Accept, CompleteJob, FailJob
  <2> QED
    BY <1>1, <2>1, RowsUnwritten DEF rowVars, Settled
<1>2. ASSUME r.kind \in {"done", "failed"}, status[r.job] # "pruned"
      PROVE RowsAdvance /\ Settled(r.job)'
  <2> DEFINE j == r.job
             st == IF r.kind = "done" THEN "done" ELSE "failed"
  <2>1. j \in Jobs /\ Claimed(j) /\ (r.kind = "done" => r.result \in Verdicts)
    BY <1>2, RequestFields DEF TruePost
  <2>2. /\ \A k \in Jobs : status'[k] = IF k = j THEN st ELSE status[k]
        /\ \A k \in Jobs : result'[k] = IF k = j /\ r.kind = "done" THEN r.result ELSE result[k]
        /\ payloads' = payloads \ {j} /\ born' = born
        /\ RowTypes'
    BY <1>2, <2>1 DEF Accept, CompleteJob, FailJob, RowTypes, Statuses
  <2>3. PayloadKept'
    BY <2>1, <2>2 DEF PayloadKept
  <2>4. DoneIsTrue'
    BY <2>1, <2>2 DEF DoneIsTrue, TruePost
  <2>5. ClaimedInOrder'
    BY <2>1, <2>2 DEF ClaimedInOrder, Claimed
  <2>6. Submitted' = Submitted
    BY <2>1, <2>2 DEF Submitted, Claimed
  <2>7. BornBelow'
    BY <2>2, <2>6 DEF BornBelow
  <2> QED
    BY <2>1, <2>2, <2>3, <2>4, <2>5, <2>7 DEF RowsAdvance, Claimed, Settled
<1> QED
  BY <1>1, <1>2

\* prune_old_jobs: only answered rows go.
LEMMA PruneAdvances ==
  ASSUME BrokerInv, Prune
  PROVE  RowsAdvance
<1> USE DEF BrokerInv, TypeOK
<1> DEFINE Gone(j) == Terminal(j) /\ age[j] > Retention
<1>1. /\ \A j \in Jobs : status'[j] = IF Gone(j) THEN "pruned" ELSE status[j]
      /\ \A j \in Jobs : result'[j] = IF Gone(j) THEN "none" ELSE result[j]
      /\ UNCHANGED <<payloads, born, vault, worked>>
      /\ RowTypes'
  BY DEF Prune, RowTypes, Statuses, historyVars
<1>2. PayloadKept' /\ DoneIsTrue'
  BY <1>1 DEF PayloadKept, DoneIsTrue, Terminal
<1>3. Submitted' = Submitted
  BY <1>1 DEF Submitted, Terminal
<1>4. ClaimedInOrder' /\ BornBelow'
  BY <1>1, <1>3 DEF ClaimedInOrder, BornBelow, Claimed, Terminal
<1> QED
  BY <1>1, <1>2, <1>4 DEF RowsAdvance, Claimed, Settled, Terminal

-----------------------------------------------------------------------------
(* What a step leaves to the worker, the calls and the budget.             *)

Grows == worked \subseteq worked' /\ vault \subseteq vault'

\* A true post stays true: rows do not go back and work is not undone.
LEMMA TruePostStays ==
  ASSUME BrokerInv, RowsAdvance, Grows, NEW r \in Requests, TruePost(r)
  PROVE  TruePost(r)'
  BY RequestFields DEF TruePost, RowsAdvance, Grows

LEMMA PostsStayTrue ==
  ASSUME BrokerInv, RowsAdvance, Grows, stray' \subseteq stray
  PROVE  PostsAreTrue'
<1> SUFFICES ASSUME NEW s \in stray PROVE TruePost(s.req)'
  BY DEF PostsAreTrue
<1>1. s.req \in Requests /\ TruePost(s.req)
  BY DEF BrokerInv, TypeOK, PostsAreTrue
<1> DEFINE r == s.req
<1> HIDE DEF r
<1>2. TruePost(r)'
  BY <1>1, TruePostStays DEF r
<1> QED
  BY <1>2 DEF r

\* What the loop has sent is true.
LEMMA SentIsTrue ==
  ASSUME BrokerInv, wire = "sent"
  PROVE  TruePost(req)
  BY BrokerAssumption
  DEF BrokerInv, CallInv, WorkerInv, TruePost, Executing, NextReq, DoneReq, FailReq, SnapReq

\* A request that is given up is still a true one.
LEMMA DetachKeeps ==
  ASSUME BrokerInv, RowsAdvance, Grows, Strike, Detach
  PROVE  PostsAreTrue' /\ stray' \subseteq [req : Requests, n : 1..MaxFaults]
<1> DEFINE s == [req |-> req, n |-> faults']
<1>1. CASE stray' = stray
  BY <1>1, PostsStayTrue DEF BrokerInv, TypeOK
<1>2. CASE wire = "sent" /\ stray' = stray \cup {s}
  <2>1. s.req = req /\ req \in Requests /\ s \in [req : Requests, n : 1..MaxFaults]
    BY BrokerAssumption DEF BrokerInv, TypeOK, Strike
  <2> HIDE DEF s
  <2>2. \A r \in Requests : TruePost(r) => TruePost(r)'
    BY TruePostStays
  <2>3. \A t \in stray' : t.req \in Requests /\ TruePost(t.req)
    BY <1>2, <2>1, SentIsTrue DEF BrokerInv, TypeOK, PostsAreTrue
  <2>4. \A t \in stray' : t \in [req : Requests, n : 1..MaxFaults]
    BY <1>2, <2>1 DEF BrokerInv, TypeOK
  <2>5. ASSUME NEW t \in stray' PROVE TruePost(t.req)'
    <3> DEFINE r == t.req
    <3> HIDE DEF r
    <3>1. r \in Requests /\ TruePost(r)
      BY <2>3 DEF r
    <3>2. TruePost(r)'
      BY <3>1, <2>2
    <3> QED
      BY <3>2 DEF r
  <2> QED
    BY <2>4, <2>5 DEF PostsAreTrue
<1> QED
  BY <1>1, <1>2 DEF Detach

\* A step at which the loop stands still leaves it as it was.
LEMMA WorkerStands ==
  ASSUME BrokerInv, RowsAdvance, Grows, UNCHANGED <<pc, job, outcome>>
  PROVE  WorkerInv'
  BY DEF BrokerInv, WorkerInv, RowsAdvance, Grows

\* Nobody may start a job who could not before.
LEMMA BudgetStands ==
  ASSUME BrokerInv, UNCHANGED <<starts, faults>>,
         \A j \in Jobs : MayStart(j)' => MayStart(j)
  PROVE  Budget'
  BY DEF BrokerInv, TypeOK, Budget

\* A fault pays for whatever start it makes possible.
LEMMA FaultPays ==
  ASSUME BrokerInv, Strike, UNCHANGED starts
  PROVE  Budget'
<1> SUFFICES ASSUME NEW j \in Jobs
             PROVE  starts[j] + (IF MayStart(j)' THEN 1 ELSE 0) <= 1 + faults'
  BY DEF Budget
<1>1. starts[j] \in Nat /\ faults \in Nat /\ faults' = faults + 1
  BY DEF BrokerInv, TypeOK, Strike
<1>2. starts[j] <= 1 + faults
  BY <1>1 DEF BrokerInv, Budget
<1> QED
  BY <1>1, <1>2

-----------------------------------------------------------------------------
(* The relay's steps.                                                      *)

\* A row step while the loop and its call stand still.
LEMMA RowsStep ==
  ASSUME BrokerInv, RowsAdvance, Grows, TypeOK', stray' \subseteq stray,
         UNCHANGED <<pc, job, outcome, wire, req, reply, starts, faults>>
  PROVE  BrokerInv'
<1>1. WorkerInv' /\ PostsAreTrue'
  BY WorkerStands, PostsStayTrue
<1>2. CallInv'
  <2>1. wire = "answered" /\ pc \in {"post", "report"} => job \in Jobs
    BY DEF BrokerInv, WorkerInv, Executing
  <2>2. reply # NoJob => reply \in Jobs
    BY DEF BrokerInv, TypeOK
  <2> QED
    BY <2>1, <2>2 DEF BrokerInv, CallInv, RowsAdvance, Settled
<1>3. Budget'
  <2>1. \A j \in Jobs : status'[j] \in {"none", "pending", "processing"}
                          => status[j] \in {"none", "pending", "processing"}
    BY DEF BrokerInv, TypeOK, Statuses, RowsAdvance, Settled
  <2>2. \A j \in Jobs : MayStart(j)' => MayStart(j)
    BY <2>1 DEF MayStart, Exec, Handed
  <2> QED
    BY <2>2, BudgetStands
<1> QED
  BY <1>1, <1>2, <1>3 DEF BrokerInv, RowsAdvance

LEMMA SubmitStep == ASSUME BrokerInv, NEW j \in Jobs, Submit(j) PROVE BrokerInv'
<1>1. RowsAdvance
  BY SubmitAdvances
<1>2. TypeOK'
  BY <1>1 DEF Submit, BrokerInv, TypeOK, RowsAdvance, RowTypes, workerVars, netVars, historyVars
<1> QED
  BY <1>1, <1>2, RowsStep DEF Submit, Grows, workerVars, netVars, historyVars

LEMMA PruneStep == ASSUME BrokerInv, Prune PROVE BrokerInv'
<1>1. RowsAdvance
  BY PruneAdvances
<1>2. TypeOK'
  BY <1>1 DEF Prune, BrokerInv, TypeOK, RowsAdvance, RowTypes, workerVars, netVars, historyVars
<1> QED
  BY <1>1, <1>2, RowsStep DEF Prune, Grows, workerVars, netVars, historyVars

LEMMA TickStep == ASSUME BrokerInv, Tick PROVE BrokerInv'
<1>1. age' \in [Jobs -> Nat]
  BY DEF Tick, BrokerInv, TypeOK
<1>2. RowsAdvance
  BY <1>1, RowsUnwritten DEF Tick, historyVars
<1>3. TypeOK'
  BY <1>1 DEF Tick, BrokerInv, TypeOK, netVars, historyVars
<1> QED
  BY <1>2, <1>3, RowsStep DEF Tick, Grows, netVars, historyVars

LEMMA AdminEditStep == ASSUME BrokerInv, NEW e \in Edits, AdminEdit(e) PROVE BrokerInv'
<1>1. RowsAdvance
  BY RowsUnwritten DEF AdminEdit, BrokerInv, TypeOK, relayVars, historyVars
<1>2. TypeOK'
  BY DEF AdminEdit, BrokerInv, TypeOK, Changes, relayVars, workerVars, netVars, historyVars
<1> QED
  BY <1>1, <1>2, RowsStep
  DEF AdminEdit, Grows, relayVars, workerVars, netVars, historyVars

LEMMA StrayStep ==
  ASSUME BrokerInv, NEW s \in stray, StrayArrives(s) \/ StrayVanishes(s)
  PROVE  BrokerInv'
<1>1. s.req \in Requests /\ TruePost(s.req)
  BY DEF BrokerInv, TypeOK, PostsAreTrue
<1>2. CASE StrayVanishes(s)
  <2>1. RowsAdvance
    BY <1>2, RowsUnwritten DEF StrayVanishes, BrokerInv, TypeOK, relayVars, historyVars
  <2>2. TypeOK'
    BY <1>2 DEF StrayVanishes, BrokerInv, TypeOK, relayVars, workerVars, historyVars
  <2> QED
    BY <1>2, <2>1, <2>2, RowsStep
    DEF StrayVanishes, Grows, relayVars, workerVars, historyVars
<1>3. CASE StrayArrives(s)
  <2> DEFINE r == s.req
  <2>0. r \in Requests /\ TruePost(r)
    BY <1>1
  <2>1. /\ Accept(r) \/ ((\E j \in Jobs \cup {NoJob} : Claim(j)) /\ UNCHANGED <<items, categories>>)
        /\ stray' \subseteq stray
        /\ UNCHANGED <<pc, job, outcome, snapDue, wire, req, reply, faults, vault, worked, starts>>
    BY <1>3 DEF StrayArrives, workerVars, historyVars
  <2> HIDE DEF r
  <2>2. RowsAdvance
    BY <2>0, <2>1, AcceptAdvances, ClaimAdvances
  <2>3. items' \subseteq Changes /\ categories' \in BOOLEAN
    BY <2>0, <2>1, RequestFields DEF Accept, BrokerInv, TypeOK
  <2>4. TypeOK'
    BY <2>1, <2>2, <2>3 DEF BrokerInv, TypeOK, RowsAdvance, RowTypes
  <2> QED
    BY <2>1, <2>2, <2>4, RowsStep DEF Grows
<1> QED
  BY <1>2, <1>3

LEMMA RelayHandsOutStep == ASSUME BrokerInv, RelayHandsOut PROVE BrokerInv'
<1>1. PICK j \in Jobs \cup {NoJob} : Claim(j) /\ reply' = j
  BY DEF RelayHandsOut
<1>2. /\ wire = "sent" /\ wire' = "answered"
      /\ UNCHANGED <<items, categories, pc, job, outcome, snapDue, req, stray, faults, vault,
                     worked, starts>>
  BY DEF RelayHandsOut, workerVars, historyVars
<1>3. pc = "polling" /\ job = NoJob
  BY DEF RelayHandsOut, BrokerInv, CallInv, WorkerInv, Executing, DoneReq, FailReq, SnapReq
<1>4. RowsAdvance
  BY <1>1, <1>2, ClaimAdvances
<1>5. TypeOK'
  BY <1>1, <1>2, <1>4 DEF BrokerInv, TypeOK, RowsAdvance, RowTypes
<1>6. WorkerInv' /\ PostsAreTrue'
  BY <1>2, <1>4, WorkerStands, PostsStayTrue DEF Grows
<1>7. CallInv'
  BY <1>1, <1>2, <1>3 DEF BrokerInv, TypeOK, CallInv, Claim, Claimed, Waiting
<1>8. Budget'
  <2>1. \A k \in Jobs : status'[k] \in {"none", "pending", "processing"}
                          => status[k] \in {"none", "pending", "processing"}
    BY <1>4 DEF BrokerInv, TypeOK, Statuses, RowsAdvance, Settled
  <2>2. j # NoJob => status[j] \in {"pending", "processing"}
    BY <1>1 DEF Claim, Oldest, Claimable
  <2>3. \A k \in Jobs : MayStart(k)' => MayStart(k)
    BY <1>1, <1>2, <1>3, <2>1, <2>2, BrokerAssumption DEF MayStart, Exec, Handed
  <2> QED
    BY <1>2, <2>3, BudgetStands
<1> QED
  BY <1>4, <1>5, <1>6, <1>7, <1>8 DEF BrokerInv, RowsAdvance

LEMMA RelayAcceptsStep == ASSUME BrokerInv, RelayAccepts PROVE BrokerInv'
<1>1. /\ wire = "sent" /\ wire' = "answered" /\ Accept(req) /\ TruePost(req) /\ req \in Requests
      /\ UNCHANGED <<pc, job, outcome, snapDue, req, reply, stray, faults, vault, worked, starts>>
  BY SentIsTrue DEF RelayAccepts, BrokerInv, TypeOK, workerVars, historyVars
<1>2. RowsAdvance /\ (req.kind \in {"done", "failed"} => Settled(req.job)')
  <2> DEFINE r == req
  <2> HIDE DEF r
  <2>1. \A x \in Requests : Accept(x) /\ TruePost(x)
           => RowsAdvance /\ (x.kind \in {"done", "failed"} => Settled(x.job)')
    BY <1>1, AcceptAdvances
  <2> QED
    BY <1>1, <2>1
<1>3. TypeOK'
  <2>1. items' \subseteq Changes /\ categories' \in BOOLEAN
    BY <1>1, RequestFields DEF Accept, BrokerInv, TypeOK
  <2> QED
    BY <1>1, <1>2, <2>1 DEF BrokerInv, TypeOK, RowsAdvance, RowTypes
<1>4. WorkerInv' /\ PostsAreTrue'
  BY <1>1, <1>2, WorkerStands, PostsStayTrue DEF Grows
<1>5. pc # "polling" /\ reply = NoJob
  BY <1>1 DEF Accept, NextReq, BrokerInv, CallInv
<1>6. CallInv'
  <2>1. pc \in {"post", "report"} => status'[job] \in {"done", "failed", "pruned"}
    BY <1>1, <1>2 DEF BrokerInv, CallInv, DoneReq, FailReq, Settled
  <2> QED
    BY <1>1, <1>5, <2>1 DEF BrokerInv, CallInv
<1>7. Budget'
  <2>1. \A k \in Jobs : status'[k] \in {"none", "pending", "processing"}
                          => status[k] \in {"none", "pending", "processing"}
    BY <1>2 DEF BrokerInv, TypeOK, Statuses, RowsAdvance, Settled
  <2>2. \A k \in Jobs : MayStart(k)' => MayStart(k)
    BY <1>1, <1>5, <2>1 DEF MayStart, Exec, Handed
  <2> QED
    BY <1>1, <2>2, BudgetStands
<1> QED
  BY <1>2, <1>3, <1>4, <1>6, <1>7 DEF BrokerInv, RowsAdvance

-----------------------------------------------------------------------------
(* The worker's steps.                                                     *)

\* Nothing the worker does by itself writes a row.
LEMMA RowsStand ==
  ASSUME BrokerInv, UNCHANGED rowVars, Grows
  PROVE  RowsAdvance /\ RowTypes'
  BY RowsUnwritten DEF Grows, rowVars, BrokerInv, TypeOK, RowTypes

LEMMA PollNextStep == ASSUME BrokerInv, PollNext PROVE BrokerInv'
<1> USE DEF PollNext, Send, relayVars, historyVars
<1>1. RowsAdvance /\ Grows /\ RowTypes'
  BY RowsStand DEF rowVars, Grows
<1>2. TypeOK'
  BY <1>1 DEF BrokerInv, TypeOK, RowTypes, Requests
<1>3. WorkerInv' /\ PostsAreTrue'
  BY <1>1, PostsStayTrue DEF BrokerInv, WorkerInv, Executing
<1>4. CallInv'
  BY DEF CallInv, Waiting
<1>5. Budget'
  BY BudgetStands DEF MayStart, Exec, Handed, Executing, BrokerInv, WorkerInv
<1> QED
  BY <1>1, <1>2, <1>3, <1>4, <1>5 DEF BrokerInv, RowsAdvance

LEMMA TakeJobStep == ASSUME BrokerInv, TakeJob PROVE BrokerInv'
<1> USE DEF TakeJob, Hangup, relayVars
<1>1. RowsAdvance /\ Grows /\ RowTypes'
  BY RowsStand DEF rowVars, Grows
<1>2. TypeOK'
  BY <1>1 DEF BrokerInv, TypeOK, RowTypes, Requests
<1>3. WorkerInv' /\ PostsAreTrue'
  <2>1. pc = "polling" /\ job = NoJob /\ (reply # NoJob => reply \in Jobs /\ Claimed(reply))
    BY DEF BrokerInv, TypeOK, WorkerInv, CallInv, Executing
  <2>2. WorkerInv'
    BY <2>1 DEF WorkerInv, Executing, Claimed
  <2> QED
    BY <1>1, <2>2, PostsStayTrue
<1>4. CallInv'
  BY DEF CallInv, Waiting
<1>5. Budget'
  <2>1. CASE reply = NoJob
    <3>1. \A j \in Jobs : MayStart(j)' => MayStart(j)
      BY <2>1, BrokerAssumption DEF MayStart, Exec, Handed, Executing
    <3> QED
      BY <2>1, <3>1, BudgetStands, BrokerAssumption
  <2>2. CASE reply # NoJob
    <3> SUFFICES ASSUME NEW j \in Jobs
                 PROVE  starts'[j] + (IF MayStart(j)' THEN 1 ELSE 0) <= 1 + faults
      BY DEF Budget
    <3>1. /\ starts[j] \in Nat /\ faults \in Nat
          /\ starts[j] + (IF MayStart(j) THEN 1 ELSE 0) <= 1 + faults
          /\ pc' = "working" /\ job' = reply
          /\ starts'[j] = IF j = reply THEN starts[j] + 1 ELSE starts[j]
      BY <2>2 DEF BrokerInv, TypeOK, Budget
    <3>2. CASE j = reply
      <4>1. MayStart(j) /\ ~MayStart(j)'
        BY <3>1, <3>2 DEF MayStart, Exec, Handed, Executing
      <4> QED
        BY <3>1, <3>2, <4>1
    <3>3. CASE j # reply
      <4>1. MayStart(j)' => MayStart(j)
        BY <3>1, <3>3 DEF MayStart, Exec, Handed, Executing
      <4> QED
        BY <3>1, <3>3, <4>1
    <3> QED
      BY <3>2, <3>3
  <2> QED
    BY <2>1, <2>2
<1> QED
  BY <1>1, <1>2, <1>3, <1>4, <1>5 DEF BrokerInv, RowsAdvance

LEMMA WorkStep ==
  ASSUME BrokerInv, (\E r \in Verdicts : Work(r)) \/ WorkRaises
  PROVE  BrokerInv'
<1>1. /\ pc = "working" /\ pc' \in {"snapJob", "post", "report"}
      /\ outcome' \in Verdicts \cup {"raised"}
      /\ vault' = vault \/ (job \in Mutating /\ vault' = vault \cup {job})
      /\ worked' = worked \/ worked' = worked \cup {job}
      /\ pc' \in {"snapJob", "post"} =>
           /\ outcome' \in Verdicts /\ job \in worked'
           /\ outcome' = "saved" /\ job \in Mutating => job \in vault'
      /\ UNCHANGED <<relayVars, job, snapDue, netVars, faults, starts>>
  BY DEF Work, WorkRaises, historyVars
<1>2. job \in Jobs /\ Claimed(job) /\ wire = "free"
  BY <1>1 DEF BrokerInv, TypeOK, WorkerInv, CallInv, Executing, Waiting
<1>3. RowsAdvance /\ Grows /\ RowTypes'
  BY <1>1, RowsStand DEF rowVars, relayVars, Grows
<1>4. TypeOK'
  BY <1>1, <1>2, <1>3 DEF BrokerInv, TypeOK, RowTypes, Changes, relayVars, netVars
<1>5. WorkerInv'
  BY <1>1, <1>2 DEF WorkerInv, Executing, Claimed, relayVars
<1>6. CallInv' /\ PostsAreTrue'
  BY <1>1, <1>2, <1>3, PostsStayTrue DEF BrokerInv, CallInv, netVars
<1>7. Budget'
  <2>1. \A j \in Jobs : MayStart(j)' => MayStart(j)
    BY <1>1, <1>2 DEF MayStart, Exec, Handed, Executing, relayVars, netVars
  <2> QED
    BY <1>1, <2>1, BudgetStands
<1> QED
  BY <1>3, <1>4, <1>5, <1>6, <1>7 DEF BrokerInv, RowsAdvance

LEMMA IdlePassStep == ASSUME BrokerInv, IdlePass \/ WorkerStart PROVE BrokerInv'
<1>1. /\ pc \in {"pass", "down"} /\ pc' \in {"idle", "snapIdle"}
      /\ vault' = vault \/ \E e \in Edits : vault' = vault \cup {e}
      /\ UNCHANGED <<relayVars, job, outcome, snapDue, netVars, faults, historyVars>>
  BY DEF IdlePass, WorkerStart
<1>2. job = NoJob /\ wire = "free"
  BY <1>1 DEF BrokerInv, TypeOK, WorkerInv, CallInv, Executing, Waiting
<1>3. RowsAdvance /\ Grows /\ RowTypes'
  BY <1>1, RowsStand DEF rowVars, relayVars, Grows, historyVars
<1>4. TypeOK'
  BY <1>1, <1>3 DEF BrokerInv, TypeOK, RowTypes, Changes, relayVars, netVars, historyVars
<1>5. WorkerInv'
  BY <1>1, <1>2 DEF WorkerInv, Executing
<1>6. CallInv' /\ PostsAreTrue'
  BY <1>1, <1>2, <1>3, PostsStayTrue DEF BrokerInv, CallInv, netVars
<1>7. Budget'
  <2>1. \A j \in Jobs : MayStart(j)' => MayStart(j)
    BY <1>1, <1>2, BrokerAssumption DEF MayStart, Exec, Handed, relayVars, netVars
  <2> QED
    BY <1>1, <2>1, BudgetStands DEF historyVars
<1> QED
  BY <1>3, <1>4, <1>5, <1>6, <1>7 DEF BrokerInv, RowsAdvance

LEMMA SendStep == ASSUME BrokerInv, ReadItems \/ PostResult PROVE BrokerInv'
<1>1. /\ wire = "free" /\ wire' = "sent" /\ reply' = NoJob
      /\ UNCHANGED <<relayVars, workerVars, stray, faults, vault, historyVars>>
  BY DEF ReadItems, PostResult, Send
<1>2. \/ pc \in {"snapIdle", "snapJob"} /\ req' = SnapReq(vault)
      \/ pc = "post" /\ req' = DoneReq(job, outcome) /\ job \in Jobs /\ outcome \in Verdicts
      \/ pc = "report" /\ req' = FailReq(job) /\ job \in Jobs
  BY DEF ReadItems, PostResult, Send, BrokerInv, WorkerInv, Executing
<1>3. RowsAdvance /\ Grows /\ RowTypes'
  BY <1>1, RowsStand DEF rowVars, relayVars, Grows, historyVars
<1>4. TypeOK'
  <2>1. req' \in Requests
    BY <1>2 DEF Requests, BrokerInv, TypeOK
  <2> QED
    BY <1>1, <1>3, <2>1 DEF BrokerInv, TypeOK, RowTypes, relayVars, workerVars, historyVars
<1>5. WorkerInv' /\ PostsAreTrue'
  BY <1>1, <1>3, WorkerStands, PostsStayTrue DEF workerVars
<1>6. CallInv'
  <2>1. vault \subseteq Changes
    BY DEF BrokerInv, TypeOK
  <2> QED
    BY <1>1, <1>2, <2>1 DEF CallInv, Waiting, workerVars
<1>7. Budget'
  <2>1. \A j \in Jobs : MayStart(j)' => MayStart(j)
    BY <1>1 DEF MayStart, Exec, Handed, workerVars, relayVars
  <2> QED
    BY <1>1, <2>1, BudgetStands DEF historyVars
<1> QED
  BY <1>3, <1>4, <1>5, <1>6, <1>7 DEF BrokerInv, RowsAdvance

LEMMA CallEndsStep == ASSUME BrokerInv, CallReturns \/ CallRaises PROVE BrokerInv'
<1>1. /\ wire \in {"answered", "lost"} /\ wire' = "free" /\ req' = NextReq /\ reply' = NoJob
      /\ pc \in Waiting /\ pc' \in {"idle", "pass", "post", "report"}
      /\ pc' = "pass" => pc = "polling"
      /\ pc' = "post" => pc = "snapJob"
      /\ pc' = "report" => pc = "post"
      /\ pc' = "idle" => wire = "answered" \/ pc \in {"report", "snapIdle"}
      /\ job' = (IF pc' = "idle" THEN NoJob ELSE job)
      /\ outcome' = (IF pc' = "idle" THEN "none" ELSE outcome)
      /\ snapDue' \in BOOLEAN
      /\ UNCHANGED <<relayVars, stray, faults, vault, historyVars>>
  BY DEF CallReturns, CallRaises, Hangup, Resume, AfterReturn, AfterRaise, Waiting,
     BrokerInv, TypeOK, CallInv
<1>2. RowsAdvance /\ Grows /\ RowTypes'
  BY <1>1, RowsStand DEF rowVars, relayVars, Grows, historyVars
<1>3. TypeOK'
  BY <1>1, <1>2 DEF BrokerInv, TypeOK, RowTypes, Requests, relayVars, historyVars
<1>4. WorkerInv'
  BY <1>1 DEF BrokerInv, WorkerInv, Executing, Claimed, relayVars, historyVars
<1>5. CallInv' /\ PostsAreTrue'
  BY <1>1, <1>2, PostsStayTrue DEF CallInv
<1>6. Budget'
  <2>1. \A j \in Jobs : MayStart(j)' => MayStart(j)
    <3> SUFFICES ASSUME NEW j \in Jobs, MayStart(j)' PROVE MayStart(j)
      OBVIOUS
    <3>1. status[j] \in {"none", "pending", "processing"} /\ ~Exec(j)'
      BY <1>1 DEF MayStart, Handed, relayVars
    <3>2. ASSUME Exec(j) PROVE FALSE
      <4>1. pc \in Executing /\ job = j /\ ~(pc = "report" /\ wire = "lost")
        BY <3>2 DEF Exec
      <4>2. pc' = "idle"
        BY <1>1, <3>1, <4>1 DEF Exec, Executing
      <4>3. wire = "answered" /\ pc \in {"post", "report"}
        BY <1>1, <4>1, <4>2 DEF CallReturns, CallRaises, Resume, AfterReturn, AfterRaise, Hangup, Executing
      <4> QED
        BY <3>1, <4>1, <4>3 DEF BrokerInv, CallInv
    <3> QED
      BY <3>1, <3>2 DEF MayStart
  <2> QED
    BY <1>1, <2>1, BudgetStands DEF historyVars
<1> QED
  BY <1>2, <1>3, <1>4, <1>5, <1>6 DEF BrokerInv, RowsAdvance

-----------------------------------------------------------------------------
(* The faults.                                                             *)

LEMMA LoseCallStep == ASSUME BrokerInv, LoseCall PROVE BrokerInv'
<1> USE DEF LoseCall, relayVars, workerVars, historyVars
<1>1. RowsAdvance /\ Grows /\ RowTypes'
  BY RowsStand DEF rowVars, Grows
<1>2. PostsAreTrue' /\ stray' \subseteq [req : Requests, n : 1..MaxFaults]
  BY <1>1, DetachKeeps
<1>3. TypeOK'
  BY <1>1, <1>2, BrokerAssumption DEF BrokerInv, TypeOK, RowTypes, Requests, Strike
<1>4. WorkerInv' /\ CallInv' /\ Budget'
  BY <1>1, WorkerStands, FaultPays DEF BrokerInv, CallInv
<1> QED
  BY <1>1, <1>2, <1>3, <1>4 DEF BrokerInv, RowsAdvance

LEMMA ReadItemsRaisesStep == ASSUME BrokerInv, ReadItemsRaises PROVE BrokerInv'
<1> USE DEF ReadItemsRaises, Resume, AfterRaise, relayVars, netVars, historyVars
<1>1. RowsAdvance /\ Grows /\ RowTypes'
  BY RowsStand DEF rowVars, Grows
<1>2. TypeOK'
  <2>1. snapDue' \in BOOLEAN /\ pc' \in {"idle", "post"} /\ job' \in Jobs \cup {NoJob}
        /\ outcome' \in Verdicts \cup {"none", "raised"}
    BY DEF BrokerInv, TypeOK
  <2> QED
    BY <1>1, <2>1, BrokerAssumption DEF BrokerInv, TypeOK, RowTypes, Strike
<1>3. WorkerInv'
  BY DEF BrokerInv, WorkerInv, Executing, Claimed
<1>4. CallInv' /\ PostsAreTrue' /\ Budget'
  BY <1>1, PostsStayTrue, FaultPays DEF BrokerInv, CallInv
<1> QED
  BY <1>1, <1>2, <1>3, <1>4 DEF BrokerInv, RowsAdvance

LEMMA WorkerCrashStep == ASSUME BrokerInv, WorkerCrash PROVE BrokerInv'
<1> USE DEF WorkerCrash, relayVars, historyVars
<1>1. RowsAdvance /\ Grows /\ RowTypes'
  BY RowsStand DEF rowVars, Grows
<1>2. PostsAreTrue' /\ stray' \subseteq [req : Requests, n : 1..MaxFaults]
  BY <1>1, DetachKeeps
<1>3. TypeOK'
  BY <1>1, <1>2, BrokerAssumption DEF BrokerInv, TypeOK, RowTypes, Requests, Strike
<1>4. WorkerInv' /\ CallInv' /\ Budget'
  BY FaultPays DEF WorkerInv, CallInv, Executing
<1> QED
  BY <1>1, <1>2, <1>3, <1>4 DEF BrokerInv, RowsAdvance

LEMMA RelayRestartStep == ASSUME BrokerInv, RelayRestart PROVE BrokerInv'
<1> USE DEF RelayRestart, workerVars, historyVars
<1>1. RowsAdvance /\ Grows /\ RowTypes'
  BY RowsStand DEF Grows
<1>2. TypeOK'
  <2>1. categories' \in BOOLEAN
    OBVIOUS
  <2>2. wire' \in {"free", "sent", "answered", "lost"}
    OBVIOUS
  <2>3. req' \in Requests /\ faults' \in 0..MaxFaults
    BY BrokerAssumption DEF BrokerInv, TypeOK, Requests, Strike
  <2> QED
    BY <1>1, <2>1, <2>2, <2>3 DEF BrokerInv, TypeOK, RowTypes
<1>3. WorkerInv' /\ Budget'
  BY <1>1, WorkerStands, FaultPays
<1>4. CallInv'
  BY DEF BrokerInv, CallInv
<1>5. PostsAreTrue'
  BY <1>1, PostsStayTrue
<1> QED
  BY <1>1, <1>2, <1>3, <1>4, <1>5 DEF BrokerInv, RowsAdvance

-----------------------------------------------------------------------------
LEMMA BrokerInit == Init => BrokerInv
<1> SUFFICES ASSUME Init PROVE BrokerInv
  OBVIOUS
<1> USE DEF Init
<1>1. TypeOK
  <2>1. status \in [Jobs -> Statuses] /\ result \in [Jobs -> Verdicts \cup {"none"}]
    BY DEF Statuses
  <2>2. born \in [Jobs -> Nat] /\ age \in [Jobs -> Nat] /\ starts \in [Jobs -> Nat]
    OBVIOUS
  <2>3. categories \in BOOLEAN /\ snapDue \in BOOLEAN
    OBVIOUS
  <2>4. req \in Requests /\ faults \in 0..MaxFaults
    BY BrokerAssumption DEF Requests
  <2> QED
    BY <2>1, <2>2, <2>3, <2>4 DEF TypeOK
<1>2. PayloadKept /\ WorkerInv /\ CallInv /\ PostsAreTrue /\ DoneIsTrue /\ ClaimedInOrder
  BY DEF PayloadKept, WorkerInv, CallInv, PostsAreTrue, DoneIsTrue, ClaimedInOrder, Claimed,
     Executing
<1>3. BornBelow
  <2>1. Submitted = {}
    BY DEF Submitted
  <2> QED
    BY <2>1 DEF BornBelow
<1>4. Budget
  BY DEF Budget
<1> QED
  BY <1>1, <1>2, <1>3, <1>4 DEF BrokerInv

LEMMA BrokerStep == BrokerInv /\ [Next]_vars => BrokerInv'
<1> SUFFICES ASSUME BrokerInv, [Next]_vars PROVE BrokerInv'
  OBVIOUS
<1>1. CASE WorkerStep
  BY <1>1, PollNextStep, TakeJobStep, WorkStep, IdlePassStep, SendStep, CallEndsStep
  DEF WorkerStep
<1>2. CASE RelayStep
  BY <1>2, RelayHandsOutStep, RelayAcceptsStep DEF RelayStep
<1>3. CASE Environment
  <2>1. ASSUME NEW j \in Jobs, Submit(j) PROVE BrokerInv'
    BY <2>1, SubmitStep
  <2>2. ASSUME NEW s \in stray, StrayArrives(s) \/ StrayVanishes(s) PROVE BrokerInv'
    BY <2>2, StrayStep
  <2>3. ASSUME NEW e \in Edits, AdminEdit(e) PROVE BrokerInv'
    BY <2>3, AdminEditStep
  <2>4. CASE LoseCall \/ ReadItemsRaises \/ WorkerCrash \/ RelayRestart \/ Prune \/ Tick
    BY <2>4, LoseCallStep, ReadItemsRaisesStep, WorkerCrashStep, RelayRestartStep, PruneStep,
       TickStep
  <2> QED
    BY <1>3, <2>1, <2>2, <2>3, <2>4 DEF Environment
<1>4. CASE UNCHANGED vars
  <2> USE <1>4 DEF vars, relayVars, rowVars, workerVars, netVars, historyVars
  <2>1. RowsAdvance /\ Grows
    BY RowsStand DEF Grows
  <2>2. TypeOK'
    BY DEF BrokerInv, TypeOK
  <2> QED
    BY <2>1, <2>2, RowsStep
<1> QED
  BY <1>1, <1>2, <1>3, <1>4 DEF Next

\* BrokerInv holds in every state the broker reaches.
THEOREM BrokerInvariant == Spec => []BrokerInv
<1> QED
  BY BrokerInit, BrokerStep, PTL DEF Spec

\* The broker's state is well formed: in particular every post that may still
\* arrive names a job and a verdict.
THEOREM BrokerTypeCorrect == Spec => []TypeOK
<1>1. BrokerInv => TypeOK
  BY DEF BrokerInv
<1> QED
  BY <1>1, BrokerInvariant, PTL

\* The row of a job has its payload as long as the job may be handed out, and no
\* longer, whatever claims and posts arrive and in whatever order.
THEOREM PayloadWhileOpen == Spec => []PayloadKept
<1>1. BrokerInv => PayloadKept
  BY DEF BrokerInv
<1> QED
  BY <1>1, BrokerInvariant, PTL

\* claim_next_job's order: the job being executed is older than every job that
\* still waits for its first turn.
THEOREM OldestFirst == Spec => []NoOvertaking
<1>1. BrokerInv => NoOvertaking
  BY BrokerAssumption DEF BrokerInv, NoOvertaking, WorkerInv, ClaimedInOrder
<1> QED
  BY <1>1, BrokerInvariant, PTL

\* What the phone is told is done was done, and written if it writes.
THEOREM DoneIsDone == Spec => []SavedIsSaved
<1>1. BrokerInv => SavedIsSaved
  BY DEF BrokerInv, SavedIsSaved, StatusShown, DoneIsTrue, Verdicts
<1> QED
  BY <1>1, BrokerInvariant, PTL

\* The number of executions of a job is bounded by the number of faults.
THEOREM RepeatsArePaid == Spec => []RepeatsNeedFaults
<1>1. ASSUME BrokerInv, NEW j \in Jobs PROVE starts[j] <= 1 + faults
  BY <1>1 DEF BrokerInv, TypeOK, Budget
<1>2. BrokerInv => RepeatsNeedFaults
  BY <1>1 DEF RepeatsNeedFaults
<1> QED
  BY <1>2, BrokerInvariant, PTL

-----------------------------------------------------------------------------
(* Without faults, what is answered is served.                             *)

\* The answered changes are in S.
AnsweredIn(S) == \A j \in Jobs : status[j] = "done" /\ j \in vault => j \in S

\* So is the change of the job being executed, if it was made.
JobIn(S) == job \in vault => job \in S

\* As long as nothing failed, no request is astray; a job at work is processing,
\* so what it writes is not answered yet; a snapshot on its way contains what is
\* answered, and the job's own change when it was sent for it; so the relay serves
\* the change by the time the job is posted.
FreshCore ==
  /\ stray = {} /\ wire # "lost"
  /\ pc = "working" => status[job] = "processing"
  /\ reply # NoJob => status[reply] = "processing"
  /\ Jobs \cap vault \subseteq Mutating
  /\ AnsweredIn(items)
  /\ wire = "sent" /\ pc \in {"snapIdle", "snapJob"} => AnsweredIn(req.items)
  /\ wire = "sent" /\ pc = "snapJob" => JobIn(req.items)
  /\ wire = "answered" /\ pc = "snapJob" => JobIn(items)
  /\ pc = "post" => JobIn(items)

FreshInv == faults = 0 => FreshCore

LEMMA FreshInit == Init => FreshInv
  BY DEF Init, FreshInv, FreshCore, AnsweredIn, JobIn

\* A step of the relay: only its tables and the outstanding call change.
LEMMA RelayKeepsFresh ==
  ASSUME BrokerInv, FreshCore, RelayStep
  PROVE  FreshCore'
<1> USE DEF BrokerInv, TypeOK
<1>1. CASE RelayHandsOut
  <2>1. pc = "polling" /\ job = NoJob
    BY <1>1 DEF RelayHandsOut, CallInv, NextReq, DoneReq, FailReq, SnapReq, WorkerInv, Executing
  <2>2. PICK j \in Jobs \cup {NoJob} : Claim(j) /\ reply' = j
    BY <1>1 DEF RelayHandsOut
  <2>3. \A k \in Jobs : status'[k] = status[k] \/ status'[k] = "processing"
    BY <2>2 DEF Claim, rowVars
  <2>4. j # NoJob => status'[j] = "processing"
    BY <2>2 DEF Claim
  <2> QED
    BY <1>1, <2>1, <2>2, <2>3, <2>4 DEF RelayHandsOut, FreshCore, AnsweredIn, JobIn, workerVars
<1>2. CASE RelayAccepts
  <2>1. CASE pc \in {"snapIdle", "snapJob"}
    <3>1. PICK S \in SUBSET Changes : req = SnapReq(S)
      BY <1>2, <2>1 DEF RelayAccepts, CallInv
    <3>2. items' = req.items /\ UNCHANGED status
      BY <1>2, <3>1 DEF RelayAccepts, Accept, SnapReq, rowVars
    <3>3. AnsweredIn(req.items) /\ (pc = "snapJob" => JobIn(req.items))
      BY <1>2, <2>1 DEF RelayAccepts, FreshCore
    <3>4. reply = NoJob
      BY <1>2 DEF RelayAccepts, CallInv
    <3> QED
      BY <1>2, <2>1, <3>2, <3>3, <3>4 DEF RelayAccepts, FreshCore, AnsweredIn, JobIn, workerVars
  <2>2. CASE pc \in {"post", "report"}
    <3>1. reply = NoJob /\ job \in Jobs
      BY <1>2, <2>2 DEF RelayAccepts, CallInv, WorkerInv, Executing
    <3>2. /\ items' = items
          /\ \A k \in Jobs : k # job => status'[k] = status[k]
          /\ pc = "report" => status'[job] # "done"
      BY <1>2, <2>2, <3>1 DEF RelayAccepts, CallInv, Accept, DoneReq, FailReq, CompleteJob,
         FailJob, rowVars
    <3>3. AnsweredIn(items)'
      BY <1>2, <2>2, <3>2 DEF RelayAccepts, FreshCore, AnsweredIn, JobIn
    <3> QED
      BY <1>2, <2>2, <3>1, <3>2, <3>3 DEF RelayAccepts, FreshCore, JobIn, workerVars
  <2>3. pc \in {"snapIdle", "snapJob", "post", "report"}
    BY <1>2 DEF RelayAccepts, CallInv, Accept, NextReq
  <2> QED
    BY <2>1, <2>2, <2>3
<1> QED
  BY <1>1, <1>2 DEF RelayStep

\* A step of the worker: of the tables and the records only the vault changes,
\* and there only the change of the job at work.
LEMMA WorkerKeepsFresh ==
  ASSUME BrokerInv, FreshCore, WorkerStep
  PROVE  FreshCore'
<1> USE DEF BrokerInv, TypeOK
<1>1. CASE PollNext \/ WorkerStart
  BY <1>1 DEF PollNext, WorkerStart, Send, FreshCore, AnsweredIn, JobIn, relayVars, netVars
<1>2. CASE TakeJob
  <2>1. wire = "answered" /\ pc = "polling"
    BY <1>2 DEF TakeJob, Hangup
  <2> QED
    BY <1>2, <2>1 DEF TakeJob, Hangup, FreshCore, AnsweredIn, JobIn, relayVars
<1>3. CASE WorkRaises \/ \E r \in Verdicts : Work(r)
  <2>1. /\ pc = "working" /\ job \in Jobs /\ status[job] = "processing" /\ wire = "free"
        /\ reply = NoJob
    BY <1>3 DEF WorkRaises, Work, WorkerInv, Executing, FreshCore, CallInv, Waiting
  <2>2. vault' \subseteq vault \cup {job} /\ (job \in vault' \ vault => job \in Mutating)
        /\ UNCHANGED <<status, items, wire, req, reply, stray, job>>
    BY <1>3 DEF WorkRaises, Work, relayVars, netVars
  <2>3. pc' \in {"snapJob", "post", "report"} /\ (pc' = "post" => job \notin Mutating)
    BY <1>3 DEF WorkRaises, Work
  <2>4. AnsweredIn(items)' /\ (Jobs \cap vault \subseteq Mutating)'
    BY <2>1, <2>2 DEF FreshCore, AnsweredIn
  <2>5. (pc = "post" => JobIn(items))'
    BY <2>1, <2>2, <2>3, <2>4 DEF FreshCore, JobIn
  <2> QED
    BY <2>1, <2>2, <2>3, <2>4, <2>5 DEF FreshCore
<1>4. CASE IdlePass
  <2>1. wire = "free" /\ job = NoJob
    BY <1>4 DEF IdlePass, WorkerInv, Executing, CallInv, Waiting
  <2>2. Jobs \cap vault' = Jobs \cap vault /\ pc' \in {"idle", "snapIdle"}
        /\ UNCHANGED <<status, items, wire, req, reply, stray, job>>
    BY <1>4, BrokerAssumption DEF IdlePass, relayVars, netVars
  <2> QED
    BY <2>1, <2>2 DEF FreshCore, AnsweredIn
<1>5. CASE ReadItems
  <2>1. /\ wire' = "sent" /\ req'.items = vault /\ reply' = NoJob /\ pc # "post"
        /\ UNCHANGED <<status, items, stray, job, vault, pc>>
    BY <1>5 DEF ReadItems, Send, SnapReq, relayVars, workerVars
  <2> QED
    BY <2>1 DEF FreshCore, AnsweredIn, JobIn
<1>6. CASE PostResult
  <2>1. /\ wire' = "sent" /\ reply' = NoJob /\ pc \in {"post", "report"}
        /\ UNCHANGED <<status, items, stray, job, vault, pc>>
    BY <1>6 DEF PostResult, Send, relayVars, workerVars
  <2> QED
    BY <2>1 DEF FreshCore, AnsweredIn, JobIn
<1>7. CASE CallReturns
  <2>1. /\ wire = "answered" /\ wire' = "free" /\ reply' = NoJob /\ pc' = AfterReturn(pc)
        /\ pc' = "post" => pc = "snapJob" /\ job' = job
        /\ pc' \in {"post", "idle"}
        /\ UNCHANGED <<status, items, stray, vault>>
    BY <1>7 DEF CallReturns, Hangup, Resume, AfterReturn, relayVars
  <2> QED
    BY <2>1 DEF FreshCore, AnsweredIn, JobIn
<1>8. ~CallRaises
  BY DEF CallRaises, Hangup, FreshCore
<1> QED
  BY <1>1, <1>2, <1>3, <1>4, <1>5, <1>6, <1>7, <1>8 DEF WorkerStep

\* A step of the others that is no fault.
LEMMA OthersKeepFresh ==
  ASSUME BrokerInv, FreshCore, Environment, faults' = 0
  PROVE  FreshCore'
<1> USE DEF BrokerInv, TypeOK
<1>1. ASSUME NEW j \in Jobs, Submit(j) PROVE FreshCore'
  <2>1. \A k \in Jobs : status[k] # "none" => status'[k] = status[k]
    BY <1>1 DEF Submit
  <2>2. \A k \in Jobs : status'[k] = "done" => status[k] = "done"
    BY <1>1 DEF Submit
  <2>3. UNCHANGED <<items, workerVars, netVars, vault>>
    BY <1>1 DEF Submit
  <2>4. pc = "working" => job \in Jobs
    BY DEF WorkerInv, Executing
  <2> QED
    BY <2>1, <2>2, <2>3, <2>4 DEF FreshCore, AnsweredIn, JobIn, workerVars, netVars
<1>2. ASSUME NEW e \in Edits, AdminEdit(e) PROVE FreshCore'
  <2>1. Jobs \cap vault' = Jobs \cap vault
        /\ UNCHANGED <<status, items, workerVars, netVars>>
    BY <1>2, BrokerAssumption DEF AdminEdit, relayVars
  <2>2. pc \in {"snapJob", "post"} => job \in Jobs
    BY DEF WorkerInv, Executing
  <2> QED
    BY <2>1, <2>2 DEF FreshCore, AnsweredIn, JobIn, workerVars, netVars
<1>3. CASE Prune
  <2>1. \A k \in Jobs : /\ status'[k] = "done" => status[k] = "done"
                        /\ status[k] = "processing" => status'[k] = "processing"
    BY <1>3 DEF Prune, Terminal
  <2>2. UNCHANGED <<items, workerVars, netVars, vault>>
    BY <1>3 DEF Prune
  <2>3. pc = "working" => job \in Jobs
    BY DEF WorkerInv, Executing
  <2> QED
    BY <2>1, <2>2, <2>3 DEF FreshCore, AnsweredIn, JobIn, workerVars, netVars
<1>4. CASE Tick
  BY <1>4 DEF Tick, FreshCore, AnsweredIn, JobIn, netVars
<1>5. stray = {}
  BY DEF FreshCore
<1>6. ~(LoseCall \/ ReadItemsRaises \/ WorkerCrash \/ RelayRestart)
  BY DEF LoseCall, ReadItemsRaises, WorkerCrash, RelayRestart, Strike
<1> QED
  BY <1>1, <1>2, <1>3, <1>4, <1>5, <1>6 DEF Environment

\* No step takes a fault back.
LEMMA FaultsGrow ==
  ASSUME BrokerInv, Next
  PROVE  faults' \in {faults, faults + 1}
<1> USE DEF relayVars, workerVars, netVars, historyVars
<1>1. CASE WorkerStep \/ RelayStep
  BY <1>1 DEF WorkerStep, PollNext, TakeJob, WorkRaises, IdlePass, ReadItems, PostResult,
     CallReturns, CallRaises, WorkerStart, Work, RelayStep, RelayHandsOut, RelayAccepts
<1>2. CASE Environment
  BY <1>2 DEF Environment, Submit, StrayArrives, StrayVanishes, AdminEdit, LoseCall,
     ReadItemsRaises, WorkerCrash, RelayRestart, Prune, Tick, Strike
<1> QED
  BY <1>1, <1>2 DEF Next

LEMMA FreshStep == BrokerInv /\ FreshInv /\ [Next]_vars => FreshInv'
<1> SUFFICES ASSUME BrokerInv, FreshInv, [Next]_vars, faults' = 0 PROVE FreshCore'
  BY DEF FreshInv
<1>1. CASE Next
  <2>1. FreshCore
    BY <1>1, FaultsGrow DEF FreshInv, BrokerInv, TypeOK
  <2> QED
    BY <1>1, <2>1, RelayKeepsFresh, WorkerKeepsFresh, OthersKeepFresh DEF Next
<1>2. CASE UNCHANGED vars
  BY <1>2 DEF vars, relayVars, workerVars, netVars, FreshInv, FreshCore, AnsweredIn, JobIn
<1> QED
  BY <1>1, <1>2

\* A client that polls the result of a job right away sees its change, as long as
\* nothing failed (worker.py:254-257): the snapshot pushed before the post contains
\* it, and no snapshot that arrives later was read before it.
THEOREM FreshUnlessFaults == Spec => []FreshWithoutFaults
<1>1. FreshInv => FreshWithoutFaults
  BY DEF FreshInv, FreshCore, FreshWithoutFaults, AnsweredIn
<1> QED
  BY <1>1, FreshInit, FreshStep, BrokerInvariant, PTL DEF Spec

-----------------------------------------------------------------------------
(* The broker implements JobPromise.                                       *)

\* A new phase for one job, the other rows as they were.
LEMMA OnePhase ==
  ASSUME TypeOK, NEW j \in Jobs, NEW st \in Statuses, status' = [status EXCEPT ![j] = st],
         NEW ph, ph = (CASE st = "none" -> "unsent"
                         [] st \in {"pending", "processing"} -> "open"
                         [] st = "pruned" -> "forgotten"
                         [] OTHER -> st)
  PROVE  phases' = [phases EXCEPT ![j] = ph]
<1>1. \A k \in Jobs : phases'[k] = IF k = j THEN ph ELSE phases[k]
  BY DEF TypeOK, phases
<1> QED
  BY <1>1 DEF phases

\* A row step that a claim makes is not seen.
LEMMA ClaimUnseen ==
  ASSUME TypeOK, NEW j \in Jobs \cup {NoJob}, Claim(j)
  PROVE  phases' = phases
<1>1. \A k \in Jobs : \/ status'[k] = status[k]
                      \/ {status'[k], status[k]} \subseteq {"pending", "processing"}
  BY BrokerAssumption DEF Claim, rowVars, Oldest, Claimable, TypeOK
<1>2. \A k \in Jobs : phases'[k] = phases[k]
  BY <1>1 DEF phases
<1> QED
  BY <1>2 DEF phases

\* A true post is an answer, or arrives too late to be one.
LEMMA PostAnswers ==
  ASSUME BrokerInv, NEW r \in Requests, Accept(r), TruePost(r), UNCHANGED worked
  PROVE  \/ phases' = phases
         \/ \E j \in Jobs, a \in {"done", "failed"} : Promise!Answer(j, a)
<1> USE DEF BrokerInv
<1>1. CASE status' = status
  BY <1>1 DEF phases
<1>2. CASE status' # status
  <2> DEFINE a == IF r.kind = "done" THEN "done" ELSE "failed"
  <2>1. /\ r.kind \in {"done", "failed"} /\ r.job \in Jobs /\ Claimed(r.job)
        /\ status[r.job] # "pruned" /\ status' = [status EXCEPT ![r.job] = a]
    BY <1>2, RequestFields DEF Accept, CompleteJob, FailJob, rowVars, TruePost
  <2>2. phases' = [phases EXCEPT ![r.job] = a]
    BY <2>1, OnePhase DEF Statuses
  <2>3. phases[r.job] \in {"open", "done", "failed"}
    BY <2>1 DEF phases, Claimed, TypeOK, Statuses
  <2>4. a = "done" => r.job \in worked
    BY DEF TruePost
  <2>5. Promise!Answer(r.job, a)
    BY <2>2, <2>3, <2>4 DEF Promise!Answer, Promise!Answered
  <2> QED
    BY <2>1, <2>5
<1> QED
  BY <1>1, <1>2

LEMMA PromiseStep == BrokerInv /\ [Next]_vars => [Promise!Next]_(Promise!vars)
<1> SUFFICES ASSUME BrokerInv, [Next]_vars PROVE [Promise!Next]_(Promise!vars)
  OBVIOUS
<1> USE DEF BrokerInv
<1>1. ASSUME UNCHANGED <<status, worked>> PROVE [Promise!Next]_(Promise!vars)
  BY <1>1 DEF phases, Promise!vars
<1>2. ASSUME NEW r \in Requests, Accept(r), TruePost(r), UNCHANGED worked
      PROVE  [Promise!Next]_(Promise!vars)
  BY <1>2, PostAnswers DEF Promise!Next, Promise!vars
<1>3. ASSUME NEW j \in Jobs \cup {NoJob}, Claim(j), UNCHANGED worked
      PROVE  [Promise!Next]_(Promise!vars)
  BY <1>3, ClaimUnseen DEF Promise!vars
<1>4. ASSUME NEW j \in Jobs, Submit(j) PROVE [Promise!Next]_(Promise!vars)
  <2>1. phases' = [phases EXCEPT ![j] = "open"]
    BY <1>4, OnePhase DEF Submit, Statuses
  <2>2. phases[j] = "unsent" /\ worked' = worked
    BY <1>4 DEF Submit, phases, historyVars
  <2> QED
    BY <2>1, <2>2 DEF Promise!Next, Promise!Submit
<1>5. ASSUME Prune PROVE [Promise!Next]_(Promise!vars)
  <2> DEFINE S == {j \in Jobs : Terminal(j) /\ age[j] > Retention}
  <2>1. /\ status' = [j \in Jobs |-> IF j \in S THEN "pruned" ELSE status[j]]
        /\ worked' = worked
    BY <1>5 DEF Prune, historyVars
  <2>2. \A j \in S : phases[j] \in {"done", "failed"}
    BY DEF phases, Terminal
  <2> HIDE DEF S
  <2>3. phases' = [j \in Jobs |-> IF j \in S THEN "forgotten" ELSE phases[j]]
    BY <2>1 DEF phases
  <2>4. S \in SUBSET Jobs
    BY DEF S
  <2>5. Promise!Forget(S)
    BY <2>1, <2>2, <2>3 DEF Promise!Forget, Promise!Answered
  <2> QED
    BY <2>4, <2>5 DEF Promise!Next
<1>6. ASSUME NEW v \in Verdicts, Work(v) PROVE [Promise!Next]_(Promise!vars)
  <2>1. job \in Jobs /\ Claimed(job)
    BY <1>6 DEF Work, WorkerInv, Executing
  <2>2. phases[job] # "unsent"
    BY <2>1 DEF phases, Claimed, TypeOK, Statuses
  <2>3. worked' = worked \cup {job} /\ phases' = phases
    BY <1>6 DEF Work, relayVars, phases
  <2> QED
    BY <2>1, <2>2, <2>3 DEF Promise!Next, Promise!Work
<1>7. CASE RelayStep
  <2>1. CASE RelayHandsOut
    BY <2>1, <1>3 DEF RelayHandsOut, historyVars
  <2>2. CASE RelayAccepts
    BY <2>2, <1>2, SentIsTrue DEF RelayAccepts, historyVars, TypeOK
  <2> QED
    BY <1>7, <2>1, <2>2 DEF RelayStep
<1>8. ASSUME NEW s \in stray, StrayArrives(s) PROVE [Promise!Next]_(Promise!vars)
  <2>1. s.req \in Requests /\ TruePost(s.req)
    BY DEF TypeOK, PostsAreTrue
  <2>2. CASE Accept(s.req)
    BY <1>8, <2>1, <2>2, <1>2 DEF StrayArrives, historyVars
  <2>3. CASE \E j \in Jobs \cup {NoJob} : Claim(j)
    BY <1>8, <2>3, <1>3 DEF StrayArrives, historyVars
  <2> QED
    BY <1>8, <2>2, <2>3 DEF StrayArrives
<1>9. CASE WorkerStep
  <2>1. CASE \E v \in Verdicts : Work(v)
    BY <2>1, <1>6
  <2>2. CASE ~\E v \in Verdicts : Work(v)
    <3>1. UNCHANGED <<status, worked>>
      BY <1>9, <2>2 DEF WorkerStep, PollNext, TakeJob, WorkRaises, IdlePass, ReadItems,
         PostResult, CallReturns, CallRaises, WorkerStart, relayVars, historyVars
    <3> QED
      BY <3>1, <1>1
  <2> QED
    BY <2>1, <2>2
<1>10. CASE Environment
  <2>1. CASE LoseCall \/ ReadItemsRaises \/ WorkerCrash \/ RelayRestart \/ Tick
    <3>1. UNCHANGED <<status, worked>>
      BY <2>1 DEF LoseCall, ReadItemsRaises, WorkerCrash, RelayRestart, Tick, relayVars,
         rowVars, historyVars
    <3> QED
      BY <3>1, <1>1
  <2>2. ASSUME NEW e \in Edits, AdminEdit(e) PROVE [Promise!Next]_(Promise!vars)
    BY <2>2, <1>1 DEF AdminEdit, relayVars, historyVars
  <2>3. ASSUME NEW s \in stray, StrayVanishes(s) PROVE [Promise!Next]_(Promise!vars)
    BY <2>3, <1>1 DEF StrayVanishes, relayVars, historyVars
  <2> QED
    BY <1>10, <1>4, <1>5, <1>8, <2>1, <2>2, <2>3 DEF Environment
<1>11. CASE UNCHANGED vars
  BY <1>11, <1>1 DEF vars, relayVars, historyVars
<1> QED
  BY <1>7, <1>9, <1>10, <1>11 DEF Next

\* What can be seen of the broker is what JobPromise promises: an answer "done"
\* only for work that was done, and no job is open again once it was answered,
\* whatever is lost, late or restarted.
THEOREM BrokerKeepsPromise == Spec => KeepsPromise
<1>1. Init => Promise!Init
  BY DEF Init, Promise!Init, phases
<1> QED
  BY <1>1, PromiseStep, BrokerInvariant, PTL DEF Spec, KeepsPromise, Promise!Spec

=============================================================================
