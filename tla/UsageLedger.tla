---------------------------- MODULE UsageLedger -----------------------------
(***************************************************************************)
(* The token ledger (WRK-10): every process that calls a model books the   *)
(* call in memory (backend/app/usage.py) and pushes what it booked to the  *)
(* relay in batches, which the relay adds up (add_usage in                 *)
(* relay/app/db.py).  A push may be lost on either way, or arrive after    *)
(* its caller gave up; a batch keeps its report_id until it is acked, and  *)
(* the relay adds an id once, for as long as it remembers the id.          *)
(*                                                                         *)
(* The counters are sums, so what matters is which calls went into them: a *)
(* call is an element of Calls, a batch is the set of its calls, and       *)
(* counted[c] is how often c went into usage_daily and usage_by_task.      *)
(***************************************************************************)
EXTENDS Naturals

CONSTANTS
  Procs,       \* the processes with a ledger of their own: the worker, taster-admin
  Concurrent,  \* those where other tasks book calls while a push is awaited
  Calls,       \* the model calls that may be booked
  NoBatch,     \* _in_flight is None
  MaxFaults    \* bound: lost pushes, rejected pushes and crashes

ASSUME UsageAssumption ==
  /\ Concurrent \subseteq Procs
  /\ MaxFaults \in Nat
  /\ NoBatch \notin [id : Nat \ {0}, rows : SUBSET Calls]

VARIABLES
  proc,        \* proc[p]: "up", "stopping" (its final push is out) or "down"
  pending,     \* pending[p]: the calls in _pending
  inFlight,    \* inFlight[p]: _in_flight
  wire,        \* wire[p]: its push: "idle", "sent", "answered" or "lost"
  lastId,      \* the report ids handed out so far are 1..lastId (uuid4: never reused)
  stray,       \* batches on their way whose sender no longer listens
  counted,     \* counted[c]: how often c was added to the relay's tables
  seen,        \* usage_reports: the ids the relay remembers
  aged,        \* those it has held for longer than job_retention_days
  faults,
  booked,      \* history: the calls made
  dropped,     \* history: the calls a process held unacked when it ended
  expired      \* history: the calls of batches whose id was pruned while unacked

relayVars == <<counted, seen, aged>>
historyVars == <<booked, dropped, expired>>
vars == <<proc, pending, inFlight, wire, lastId, stray, relayVars, faults, historyVars>>

-----------------------------------------------------------------------------
\* take_report never makes an empty batch.
Batches == [id : Nat \ {0}, rows : (SUBSET Calls) \ {{}}]

Rows(b) == IF b = NoBatch THEN {} ELSE b.rows

\* What pending_calls() counts: booked, not yet acked.
Unacked(p) == pending[p] \cup Rows(inFlight[p])

\* The batches the relay may still be handed.
InTransit == stray \cup ({inFlight[p] : p \in Procs} \ {NoBatch})

Init ==
  /\ proc = [p \in Procs |-> "up"]
  /\ pending = [p \in Procs |-> {}]
  /\ inFlight = [p \in Procs |-> NoBatch]
  /\ wire = [p \in Procs |-> "idle"]
  /\ lastId = 0 /\ stray = {}
  /\ counted = [c \in Calls |-> 0] /\ seen = {} /\ aged = {}
  /\ faults = 0
  /\ booked = {} /\ dropped = {} /\ expired = {}

-----------------------------------------------------------------------------
(* The process.                                                            *)

\* record(): one API call is booked.  The worker's loop books only while no push
\* of its own is awaited; taster-admin's tasks book at any time.
Book(p, c) ==
  /\ \/ proc[p] = "up" /\ wire[p] = "idle"
     \/ proc[p] # "down" /\ p \in Concurrent
  /\ c \notin booked
  /\ booked' = booked \cup {c}
  /\ pending' = [pending EXCEPT ![p] = @ \cup {c}]
  /\ UNCHANGED <<proc, inFlight, wire, lastId, stray, relayVars, faults, dropped, expired>>

\* Mutation: only fresh usage triggers a push.
HasFreshUsage(p) == pending[p] # {}

\* Mutation: no "if not _pending: return None".
HasReportAlways(p) == TRUE

\* take_report() does not return None.
HasReport(p) == inFlight[p] # NoBatch \/ pending[p] # {}

\* Mutation: a retry gets a new id.
TakeReportNewId(p) ==
  /\ inFlight' = [inFlight EXCEPT ![p] =
                    [id |-> lastId + 1, rows |-> Rows(inFlight[p]) \cup pending[p]]]
  /\ pending' = [pending EXCEPT ![p] = {}]
  /\ lastId' = lastId + 1

\* take_report(): the batch in flight goes out again under its id; else all that
\* is pending becomes a batch with a new one.
TakeReport(p) ==
  IF inFlight[p] # NoBatch
  THEN UNCHANGED <<inFlight, pending, lastId>>
  ELSE /\ inFlight' = [inFlight EXCEPT ![p] = [id |-> lastId + 1, rows |-> pending[p]]]
       /\ pending' = [pending EXCEPT ![p] = {}]
       /\ lastId' = lastId + 1

\* push(), up to its await: after a job, at the heartbeat, every 60 s.
Push(p) ==
  /\ proc[p] = "up" /\ wire[p] = "idle" /\ HasReport(p)
  /\ TakeReport(p)
  /\ wire' = [wire EXCEPT ![p] = "sent"]
  /\ UNCHANGED <<proc, stray, relayVars, faults, historyVars>>

\* The memory of a process that ends, with the calls it still held.
Exit(p, held) ==
  /\ proc' = [proc EXCEPT ![p] = "down"]
  /\ pending' = [pending EXCEPT ![p] = {}]
  /\ inFlight' = [inFlight EXCEPT ![p] = NoBatch]
  /\ wire' = [wire EXCEPT ![p] = "idle"]
  /\ dropped' = dropped \cup held

\* push(), after its await: ack() clears the slot.  A process that is stopping
\* ends here, whatever it has booked meanwhile.
Ack(p) ==
  /\ wire[p] = "answered"
  /\ IF proc[p] = "stopping"
     THEN Exit(p, pending[p])
     ELSE /\ inFlight' = [inFlight EXCEPT ![p] = NoBatch]
          /\ wire' = [wire EXCEPT ![p] = "idle"]
          /\ UNCHANGED <<proc, pending, dropped>>
  /\ UNCHANGED <<lastId, stray, relayVars, faults, booked, expired>>

\* Mutation: the slot is cleared on an exception too.
PushFailsClears(p) ==
  /\ wire[p] = "lost"
  /\ inFlight' = [inFlight EXCEPT ![p] = NoBatch]
  /\ wire' = [wire EXCEPT ![p] = "idle"]
  /\ UNCHANGED <<proc, pending, lastId, stray, relayVars, faults, historyVars>>

\* push(), its await having raised: the batch stays in flight.
PushFails(p) ==
  /\ wire[p] = "lost"
  /\ IF proc[p] = "stopping"
     THEN Exit(p, Unacked(p))
     ELSE /\ wire' = [wire EXCEPT ![p] = "idle"]
          /\ UNCHANGED <<proc, pending, inFlight, dropped>>
  /\ UNCHANGED <<lastId, stray, relayVars, faults, booked, expired>>

\* A request whose sender stops waiting never arrives, or is still under way.
Detach(p) ==
  \/ UNCHANGED stray
  \/ wire[p] = "sent" /\ stray' = stray \cup {inFlight[p]}

\* The process is stopped: the push being awaited is cancelled, and "finally"
\* makes one last push if there is anything to report.
Stop(p) ==
  /\ proc[p] = "up"
  /\ Detach(p)
  /\ IF HasReport(p)
     THEN /\ TakeReport(p)
          /\ proc' = [proc EXCEPT ![p] = "stopping"]
          /\ wire' = [wire EXCEPT ![p] = "sent"]
     ELSE /\ proc' = [proc EXCEPT ![p] = "down"]
          /\ UNCHANGED <<inFlight, pending, lastId, wire>>
  /\ UNCHANGED <<relayVars, faults, historyVars>>

\* A process starts with an empty ledger.
Start(p) ==
  /\ proc[p] = "down"
  /\ proc' = [proc EXCEPT ![p] = "up"]
  /\ UNCHANGED <<pending, inFlight, wire, lastId, stray, relayVars, faults, historyVars>>

-----------------------------------------------------------------------------
(* The relay.                                                              *)

\* add_usage(): one transaction, under db._lock.
AddUsage(b) ==
  IF b.id \in seen
  THEN UNCHANGED <<counted, seen>>
  ELSE /\ counted' = [c \in Calls |-> IF c \in b.rows THEN counted[c] + 1 ELSE counted[c]]
       /\ seen' = seen \cup {b.id}

\* POST /worker/usage, the sender still listening.
RelayAdds(p) ==
  /\ wire[p] = "sent"
  /\ AddUsage(inFlight[p])
  /\ wire' = [wire EXCEPT ![p] = "answered"]
  /\ UNCHANGED <<proc, pending, inFlight, lastId, stray, aged, faults, historyVars>>

StrayArrives(b) ==
  /\ b \in stray
  /\ AddUsage(b)
  /\ stray' = stray \ {b}
  /\ UNCHANGED <<proc, pending, inFlight, wire, lastId, aged, faults, historyVars>>

StrayVanishes(b) ==
  /\ b \in stray
  /\ stray' = stray \ {b}
  /\ UNCHANGED <<proc, pending, inFlight, wire, lastId, relayVars, faults, historyVars>>

\* prune_old_jobs, its second half: ids older than the retention are forgotten,
\* also one whose batch is still to be retried.
Prune ==
  /\ aged # {}
  /\ seen' = seen \ aged
  /\ aged' = {}
  /\ expired' = expired \cup UNION {b.rows : b \in {x \in InTransit : x.id \in aged}}
  /\ UNCHANGED <<proc, pending, inFlight, wire, lastId, stray, counted, faults,
                 booked, dropped>>

\* job_retention_days pass.  No HTTP call is under way for so long.
Tick ==
  /\ stray = {} /\ \A p \in Procs : wire[p] = "idle"
  /\ aged' = seen
  /\ UNCHANGED <<proc, pending, inFlight, wire, lastId, stray, counted, seen,
                 faults, historyVars>>

-----------------------------------------------------------------------------
(* Faults.                                                                 *)

Strike == faults < MaxFaults /\ faults' = faults + 1

\* The push fails on its way there, or its response on the way back.
LosePush(p) ==
  /\ wire[p] \in {"sent", "answered"} /\ Strike
  /\ wire' = [wire EXCEPT ![p] = "lost"]
  /\ Detach(p)
  /\ UNCHANGED <<proc, pending, inFlight, lastId, relayVars, historyVars>>

\* Mutation: no rollback, so the rows before the failing one stay.
AddUsageRaisesHalfway(p) ==
  /\ wire[p] = "sent" /\ Strike
  /\ \E S \in SUBSET inFlight[p].rows :
       counted' = [c \in Calls |-> IF c \in S THEN counted[c] + 1 ELSE counted[c]]
  /\ wire' = [wire EXCEPT ![p] = "lost"]
  /\ UNCHANGED <<proc, pending, inFlight, lastId, stray, seen, aged, historyVars>>

\* A statement of add_usage raises: the transaction is rolled back, the answer
\* is a 500.
AddUsageRaises(p) ==
  /\ wire[p] = "sent" /\ Strike
  /\ wire' = [wire EXCEPT ![p] = "lost"]
  /\ UNCHANGED <<proc, pending, inFlight, lastId, stray, relayVars, historyVars>>

\* The process dies without running its "finally".
Crash(p) ==
  /\ proc[p] # "down" /\ Strike
  /\ Detach(p)
  /\ Exit(p, Unacked(p))
  /\ UNCHANGED <<lastId, relayVars, booked, expired>>

-----------------------------------------------------------------------------
Process(p) == Push(p) \/ Ack(p) \/ PushFails(p)

Fault(p) == LosePush(p) \/ AddUsageRaises(p) \/ Crash(p)

Next ==
  \/ \E p \in Procs :
       \/ Process(p) \/ RelayAdds(p) \/ Fault(p) \/ Stop(p) \/ Start(p)
       \/ \E c \in Calls : Book(p, c)
  \/ \E b \in stray : StrayArrives(b) \/ StrayVanishes(b)
  \/ Prune \/ Tick

Spec == Init /\ [][Next]_vars

\* A process that is up pushes again and again (after each job, at the heartbeat,
\* every 60 s) and the relay answers.
FairSpec ==
  /\ Spec
  /\ \A p \in Procs : WF_vars(Process(p)) /\ WF_vars(RelayAdds(p))

-----------------------------------------------------------------------------
(* Properties.                                                             *)

TypeOK ==
  /\ proc \in [Procs -> {"up", "stopping", "down"}]
  /\ pending \in [Procs -> SUBSET Calls]
  /\ inFlight \in [Procs -> Batches \cup {NoBatch}]
  /\ wire \in [Procs -> {"idle", "sent", "answered", "lost"}]
  /\ lastId \in Nat
  /\ stray \subseteq Batches
  /\ counted \in [Calls -> Nat]
  /\ seen \subseteq 1..lastId /\ aged \subseteq seen
  /\ faults \in 0..MaxFaults
  /\ booked \subseteq Calls /\ dropped \subseteq Calls /\ expired \subseteq Calls

\* No call is counted twice, whatever is lost, retried, cancelled or arrives late
\* (usage.push: "cannot be counted twice"), as long as the relay still remembers
\* the id when the batch is retried: a call counted twice was in a batch whose id
\* was pruned before its ack.
CountedOnce == \A c \in Calls : counted[c] <= 1 \/ c \in expired

\* No call is forgotten: what was booked is on the relay, or still held by its
\* process, or went down with it.
NothingForgotten ==
  \A c \in booked :
    counted[c] >= 1 \/ c \in dropped \/ \E p \in Procs : c \in Unacked(p)

\* One attempt of a batch failing inside the relay leaves no part of it behind:
\* the calls of one batch have always been counted equally often.
AllOrNothing ==
  \A b \in InTransit : \A c, d \in b.rows : counted[c] = counted[d]

\* A process that keeps running gets every booked call onto the relay.
EventuallyCounted ==
  \A c \in Calls : c \in booked ~> counted[c] >= 1 \/ c \in dropped

\* admin_web.py:213: the push of a process that stops carries "whatever was booked
\* since the last tick": once it is out, nothing is left behind in memory.
FinalPushTakesAll ==
  [][\A p \in Procs :
       proc[p] = "up" /\ proc'[p] = "stopping" => pending'[p] = {}]_vars

=============================================================================
