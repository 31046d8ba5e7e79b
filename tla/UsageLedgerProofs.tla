-------------------------- MODULE UsageLedgerProofs -------------------------
(***************************************************************************)
(* The safety of the usage ledger, for any processes, calls and faults.    *)
(*                                                                         *)
(* Why no call is counted twice: a call is in one place at a time.  It is  *)
(* pending in one process, with the relay not having counted it, or in one *)
(* batch; two batches never share a call or an id; and the relay has       *)
(* counted a batch exactly if it remembers its id (or has forgotten it:    *)
(* "expired").  LedgerInv says so, and is inductive.                       *)
(***************************************************************************)
EXTENDS UsageLedger, TLAPS

\* A call that is still pending went nowhere.
PendingUncounted ==
  /\ \A p \in Procs : \A c \in pending[p] : c \in booked /\ counted[c] = 0
  /\ \A c \in Calls \ booked : counted[c] = 0

PendingApart ==
  \A p, q \in Procs : p # q => pending[p] \cap pending[q] = {}

PendingOutOfTransit ==
  \A p \in Procs : \A b \in InTransit : pending[p] \cap b.rows = {}

\* Two batches share neither an id nor a call.
BatchesApart ==
  \A b, d \in InTransit : b.id = d.id \/ b.rows \cap d.rows # {} => b = d

BatchesKnown ==
  \A b \in InTransit : b.id <= lastId /\ b.rows \subseteq booked

\* The relay remembers the id exactly of the batches it has counted.
SeenMeansCounted ==
  \A b \in InTransit : \A c \in b.rows :
    IF b.id \in seen THEN counted[c] >= 1 ELSE counted[c] = 0 \/ c \in expired

\* A process that waits has sent something, and is answered once it is counted.
AnsweredIsCounted ==
  \A p \in Procs :
    /\ wire[p] # "idle" => inFlight[p] # NoBatch
    /\ wire[p] = "answered" => \A c \in inFlight[p].rows : counted[c] >= 1

LedgerInv ==
  /\ TypeOK
  /\ PendingUncounted /\ PendingApart /\ PendingOutOfTransit
  /\ BatchesApart /\ BatchesKnown /\ SeenMeansCounted /\ AnsweredIsCounted
  /\ CountedOnce /\ NothingForgotten /\ AllOrNothing

-----------------------------------------------------------------------------
\* The ledger starts empty.
LEMMA LedgerInit == Init => LedgerInv
<1> SUFFICES ASSUME Init PROVE LedgerInv
  OBVIOUS
<1>1. InTransit = {}
  BY DEF Init, InTransit
<1>2. TypeOK
  BY UsageAssumption DEF Init, TypeOK
<1> QED
  BY <1>1, <1>2 DEF LedgerInv, Init, PendingUncounted, PendingApart, PendingOutOfTransit,
     BatchesApart, BatchesKnown, SeenMeansCounted, AnsweredIsCounted, CountedOnce,
     NothingForgotten, AllOrNothing

\* What TakeReport leaves: the old batches and at most one new, which takes the
\* pending calls of p with it under a new id.
LEMMA TakeReportFacts ==
  ASSUME TypeOK, NEW p \in Procs, HasReport(p), TakeReport(p)
  PROVE  /\ inFlight' \in [Procs -> Batches \cup {NoBatch}]
         /\ inFlight'[p] # NoBatch
         /\ \A q \in Procs : q # p => inFlight'[q] = inFlight[q] /\ pending'[q] = pending[q]
         /\ \/ UNCHANGED <<inFlight, pending, lastId>>
            \/ /\ inFlight[p] = NoBatch /\ pending[p] # {}
               /\ inFlight'[p] = [id |-> lastId + 1, rows |-> pending[p]]
               /\ pending'[p] = {} /\ pending' \in [Procs -> SUBSET Calls]
               /\ lastId' = lastId + 1
<1>1. CASE inFlight[p] # NoBatch
  BY <1>1 DEF TakeReport, TypeOK
<1>2. CASE inFlight[p] = NoBatch
  <2>1. pending[p] # {} /\ pending[p] \in SUBSET Calls
    BY <1>2 DEF HasReport, TypeOK
  <2> DEFINE b == [id |-> lastId + 1, rows |-> pending[p]]
  <2>2. b \in Batches
    BY <2>1 DEF Batches, TypeOK
  <2>3. b # NoBatch
    BY <2>2, UsageAssumption DEF Batches
  <2>4. inFlight' = [inFlight EXCEPT ![p] = b] /\ pending' = [pending EXCEPT ![p] = {}]
        /\ lastId' = lastId + 1
    BY <1>2 DEF TakeReport
  <2> HIDE DEF b
  <2>5. /\ inFlight' \in [Procs -> Batches \cup {NoBatch}]
        /\ inFlight'[p] = b
        /\ pending'[p] = {} /\ pending' \in [Procs -> SUBSET Calls]
        /\ \A q \in Procs : q # p => inFlight'[q] = inFlight[q] /\ pending'[q] = pending[q]
    BY <2>2, <2>4 DEF TypeOK
  <2> QED
    BY <1>2, <2>1, <2>3, <2>4, <2>5 DEF b
<1> QED
  BY <1>1, <1>2

-----------------------------------------------------------------------------
\* A step that counts nothing and makes no batch keeps the invariant, if it gives
\* up no call that nobody else has.
LEMMA Subsiding ==
  ASSUME LedgerInv, TypeOK', InTransit' \subseteq InTransit,
         \A p \in Procs : pending'[p] \subseteq pending[p],
         UNCHANGED <<lastId, counted, seen, booked, expired>>,
         AnsweredIsCounted', NothingForgotten'
  PROVE  LedgerInv'
<1>1. PendingUncounted' /\ PendingApart'
  BY DEF LedgerInv, PendingUncounted, PendingApart
<1>2. PendingOutOfTransit'
  BY DEF LedgerInv, PendingOutOfTransit
<1>3. BatchesApart' /\ BatchesKnown' /\ SeenMeansCounted' /\ AllOrNothing'
  BY DEF LedgerInv, BatchesApart, BatchesKnown, SeenMeansCounted, AllOrNothing
<1>4. CountedOnce'
  BY DEF LedgerInv, CountedOnce
<1> QED
  BY <1>1, <1>2, <1>3, <1>4 DEF LedgerInv

\* add_usage, of a batch that was under way: the calls of every other batch, and
\* the pending ones, are left as they were.
LEMMA AddUsageKeeps ==
  ASSUME LedgerInv, NEW b \in InTransit, AddUsage(b), InTransit' \subseteq InTransit,
         UNCHANGED <<proc, pending, inFlight, lastId, aged, faults, booked, dropped, expired>>,
         wire' \in [Procs -> {"idle", "sent", "answered", "lost"}], stray' \subseteq stray,
         \A p \in Procs : /\ wire'[p] # "idle" => inFlight[p] # NoBatch
                          /\ wire'[p] = "answered" => wire[p] = "answered" \/ inFlight[p] = b
  PROVE  LedgerInv'
<1>1. b \in Batches /\ b.id \in 1..lastId /\ b.rows \subseteq booked
  <2>1. b \in Batches
    BY DEF InTransit, LedgerInv, TypeOK
  <2> QED
    BY <2>1 DEF LedgerInv, BatchesKnown, Batches, TypeOK
<1>2. \A c \in Calls : /\ counted'[c] >= counted[c] /\ counted'[c] \in Nat
                       /\ c \notin b.rows => counted'[c] = counted[c]
  BY DEF AddUsage, LedgerInv, TypeOK
<1>3. \A c \in b.rows : counted'[c] >= 1 /\ (counted'[c] = 1 \/ c \in expired)
  <2>1. CASE b.id \in seen
    BY <2>1, <1>1 DEF AddUsage, LedgerInv, TypeOK, SeenMeansCounted, CountedOnce
  <2>2. CASE b.id \notin seen
    BY <2>2, <1>1 DEF AddUsage, LedgerInv, TypeOK, SeenMeansCounted
  <2> QED
    BY <2>1, <2>2
<1>4. TypeOK'
  <2>1. counted' \in [Calls -> Nat]
    BY DEF AddUsage, LedgerInv, TypeOK
  <2>2. seen' \subseteq 1..lastId' /\ aged' \subseteq seen'
    BY <1>1 DEF AddUsage, LedgerInv, TypeOK
  <2> QED
    BY <2>1, <2>2 DEF LedgerInv, TypeOK
<1>5. \A d \in InTransit : d # b => d.rows \cap b.rows = {} /\ d.id # b.id
  BY DEF LedgerInv, BatchesApart
<1>6. \A d \in InTransit : d.rows \subseteq Calls
  BY DEF LedgerInv, BatchesKnown, TypeOK
<1>7. PendingUncounted'
  <2>1. \A p \in Procs : \A c \in pending[p] : c \in Calls /\ c \notin b.rows
    BY DEF LedgerInv, TypeOK, PendingOutOfTransit
  <2> QED
    BY <2>1, <1>1, <1>2 DEF LedgerInv, PendingUncounted, TypeOK
<1>8. PendingApart' /\ PendingOutOfTransit' /\ BatchesApart' /\ BatchesKnown'
  BY DEF LedgerInv, PendingApart, PendingOutOfTransit, BatchesApart, BatchesKnown
<1>9. SeenMeansCounted'
  <2> SUFFICES ASSUME NEW d \in InTransit, NEW c \in d.rows
               PROVE IF d.id \in seen' THEN counted'[c] >= 1
                                       ELSE counted'[c] = 0 \/ c \in expired
    BY DEF SeenMeansCounted
  <2>1. CASE d = b
    BY <2>1, <1>3 DEF AddUsage
  <2>2. CASE d # b
    <3>1. (d.id \in seen' <=> d.id \in seen) /\ counted'[c] = counted[c]
      BY <2>2, <1>2, <1>5, <1>6 DEF AddUsage
    <3> QED
      BY <3>1 DEF LedgerInv, SeenMeansCounted
  <2> QED
    BY <2>1, <2>2
<1>10. AnsweredIsCounted'
  <2> SUFFICES ASSUME NEW p \in Procs, wire'[p] = "answered", NEW c \in inFlight[p].rows
               PROVE counted'[c] >= 1
    BY DEF AnsweredIsCounted
  <2>1. CASE inFlight[p] = b
    BY <2>1, <1>3
  <2>2. CASE wire[p] = "answered"
    <3>1. inFlight[p] \in InTransit /\ counted[c] >= 1
      BY <2>2 DEF LedgerInv, AnsweredIsCounted, InTransit
    <3> QED
      BY <3>1, <1>2, <1>6 DEF LedgerInv, TypeOK
  <2> QED
    BY <2>1, <2>2
<1>11. CountedOnce'
  BY <1>2, <1>3 DEF LedgerInv, CountedOnce
<1>12. NothingForgotten'
  <2> SUFFICES ASSUME NEW c \in booked
               PROVE counted'[c] >= 1 \/ c \in dropped \/ \E p \in Procs : c \in Unacked(p)
    BY DEF NothingForgotten, Unacked
  <2>1. c \in Calls
    BY DEF LedgerInv, TypeOK
  <2> QED
    BY <2>1, <1>2 DEF LedgerInv, NothingForgotten, TypeOK
<1>13. AllOrNothing'
  <2> SUFFICES ASSUME NEW d \in InTransit, NEW c \in d.rows, NEW e \in d.rows
               PROVE counted'[c] = counted'[e]
    BY DEF AllOrNothing
  <2>1. c \in Calls /\ e \in Calls /\ counted[c] = counted[e]
    BY <1>6 DEF LedgerInv, AllOrNothing
  <2>2. CASE d = b
    BY <2>1, <2>2 DEF AddUsage
  <2>3. CASE d # b
    BY <2>1, <2>3, <1>2, <1>5
  <2> QED
    BY <2>2, <2>3
<1> QED
  BY <1>4, <1>7, <1>8, <1>9, <1>10, <1>11, <1>12, <1>13 DEF LedgerInv

\* take_report, as part of Push and of Stop: the batch it makes takes the pending
\* calls with it, under an id no other batch has or had.
LEMMA TakeReportKeeps ==
  ASSUME LedgerInv, NEW p \in Procs, HasReport(p), TakeReport(p), Detach(p),
         proc' \in [Procs -> {"up", "stopping", "down"}],
         wire' = [wire EXCEPT ![p] = "sent"],
         UNCHANGED <<relayVars, faults, historyVars>>
  PROVE  LedgerInv'
<1>1. TypeOK
  BY DEF LedgerInv
<1>2. /\ inFlight' \in [Procs -> Batches \cup {NoBatch}]
      /\ inFlight'[p] # NoBatch
      /\ \A q \in Procs : q # p => inFlight'[q] = inFlight[q] /\ pending'[q] = pending[q]
  BY <1>1, TakeReportFacts
<1>3. stray' \subseteq InTransit /\ stray' \subseteq Batches
  BY <1>1 DEF Detach, InTransit, LedgerInv, AnsweredIsCounted, TypeOK
<1>4. InTransit' \subseteq InTransit \cup {inFlight'[p]}
  BY <1>2, <1>3 DEF InTransit
<1>5. \A q \in Procs : wire'[q] # "idle" => inFlight'[q] # NoBatch
  BY <1>1, <1>2 DEF LedgerInv, AnsweredIsCounted, TypeOK
<1>6. AnsweredIsCounted'
  BY <1>1, <1>2, <1>5 DEF LedgerInv, AnsweredIsCounted, TypeOK, relayVars
<1>7. CASE UNCHANGED <<inFlight, pending, lastId>>
  <2>1. InTransit' \subseteq InTransit
    BY <1>2, <1>4, <1>7 DEF InTransit
  <2>2. TypeOK'
    BY <1>1, <1>3, <1>7 DEF TypeOK, relayVars, historyVars
  <2>3. NothingForgotten'
    BY <1>7 DEF LedgerInv, NothingForgotten, Unacked, relayVars, historyVars
  <2> QED
    BY <1>6, <1>7, <2>1, <2>2, <2>3, Subsiding DEF relayVars, historyVars
<1>8. CASE /\ inFlight[p] = NoBatch /\ pending[p] # {}
           /\ inFlight'[p] = [id |-> lastId + 1, rows |-> pending[p]]
           /\ pending'[p] = {} /\ pending' \in [Procs -> SUBSET Calls]
           /\ lastId' = lastId + 1
  <2> DEFINE new == [id |-> lastId + 1, rows |-> pending[p]]
  <2>1. new.id = lastId + 1 /\ new.rows = pending[p] /\ inFlight'[p] = new
    BY <1>8
  <2> HIDE DEF new
  <2>2. InTransit' \subseteq InTransit \cup {new}
    BY <1>4, <2>1
  <2>3. \A b \in InTransit : b.id \in Nat /\ b.id <= lastId /\ b.rows \cap pending[p] = {}
    BY <1>1 DEF LedgerInv, TypeOK, InTransit, Batches, BatchesKnown, PendingOutOfTransit
  <2>4. TypeOK'
    <3>1. seen' \subseteq 1..lastId'
      BY <1>1, <1>8 DEF TypeOK, relayVars
    <3> QED
      BY <1>1, <1>2, <1>3, <1>8, <3>1 DEF TypeOK, relayVars, historyVars
  <2>5. PendingUncounted' /\ PendingApart'
    BY <1>2, <1>8 DEF LedgerInv, PendingUncounted, PendingApart, relayVars, historyVars
  <2>6. PendingOutOfTransit'
    <3> SUFFICES ASSUME NEW q \in Procs, NEW b \in InTransit \cup {new}
                 PROVE pending'[q] \cap b.rows = {}
      BY <2>2 DEF PendingOutOfTransit
    <3>1. CASE q = p
      BY <3>1, <1>8
    <3>2. CASE q # p /\ b = new
      BY <3>2, <2>1, <1>2 DEF LedgerInv, PendingApart
    <3>3. CASE q # p /\ b \in InTransit
      BY <3>3, <1>2 DEF LedgerInv, PendingOutOfTransit
    <3> QED
      BY <3>1, <3>2, <3>3
  <2>7. BatchesApart'
    <3> SUFFICES ASSUME NEW b \in InTransit \cup {new}, NEW d \in InTransit \cup {new},
                        b.id = d.id \/ b.rows \cap d.rows # {}
                 PROVE b = d
      BY <2>2 DEF BatchesApart
    <3>1. CASE b \in InTransit /\ d \in InTransit
      BY <3>1 DEF LedgerInv, BatchesApart
    <3>2. CASE b = new /\ d \in InTransit
      BY <3>2, <2>1, <2>3, <1>1 DEF TypeOK
    <3>3. CASE b \in InTransit /\ d = new
      BY <3>3, <2>1, <2>3, <1>1 DEF TypeOK
    <3> QED
      BY <3>1, <3>2, <3>3
  <2>8. BatchesKnown'
    <3> SUFFICES ASSUME NEW b \in InTransit \cup {new}
                 PROVE b.id <= lastId + 1 /\ b.rows \subseteq booked
      BY <2>2, <1>8 DEF BatchesKnown, historyVars
    <3>1. CASE b = new
      BY <3>1, <2>1, <1>1 DEF LedgerInv, PendingUncounted, TypeOK
    <3>2. CASE b \in InTransit
      BY <3>2, <2>3, <1>1 DEF LedgerInv, BatchesKnown, TypeOK
    <3> QED
      BY <3>1, <3>2
  <2>9. SeenMeansCounted'
    <3> SUFFICES ASSUME NEW b \in InTransit \cup {new}, NEW c \in b.rows
                 PROVE IF b.id \in seen THEN counted[c] >= 1
                                        ELSE counted[c] = 0 \/ c \in expired
      BY <2>2 DEF SeenMeansCounted, relayVars, historyVars
    <3>1. CASE b = new
      <4>1. new.id \notin seen
        BY <2>1, <1>1 DEF TypeOK
      <4> QED
        BY <3>1, <4>1, <2>1 DEF LedgerInv, PendingUncounted
    <3>2. CASE b \in InTransit
      BY <3>2 DEF LedgerInv, SeenMeansCounted
    <3> QED
      BY <3>1, <3>2
  <2>10. CountedOnce'
    BY DEF LedgerInv, CountedOnce, relayVars, historyVars
  <2>11. NothingForgotten'
    <3>1. \A q \in Procs : Unacked(q) \subseteq Unacked(q)'
      <4> SUFFICES ASSUME NEW q \in Procs PROVE Unacked(q) \subseteq Unacked(q)'
        OBVIOUS
      <4>1. CASE q = p
        BY <4>1, <1>8, <1>2, <2>1 DEF Unacked, Rows
      <4>2. CASE q # p
        BY <4>2, <1>2 DEF Unacked, Rows
      <4> QED
        BY <4>1, <4>2
    <3> QED
      BY <3>1 DEF LedgerInv, NothingForgotten, relayVars, historyVars
  <2>12. AllOrNothing'
    <3> SUFFICES ASSUME NEW b \in InTransit \cup {new}, NEW c \in b.rows, NEW d \in b.rows
                 PROVE counted[c] = counted[d]
      BY <2>2 DEF AllOrNothing, relayVars
    <3>1. CASE b = new
      BY <3>1, <2>1 DEF LedgerInv, PendingUncounted
    <3>2. CASE b \in InTransit
      BY <3>2 DEF LedgerInv, AllOrNothing
    <3> QED
      BY <3>1, <3>2
  <2> QED
    BY <1>6, <2>4, <2>5, <2>6, <2>7, <2>8, <2>9, <2>10, <2>11, <2>12 DEF LedgerInv
<1> QED
  BY <1>1, <1>7, <1>8, TakeReportFacts

-----------------------------------------------------------------------------
\* A process that ends takes its calls down with it; a request it had out may
\* still be under way.
LEMMA ExitKeeps ==
  ASSUME LedgerInv, NEW p \in Procs, NEW held, Exit(p, held),
         stray' = stray \/ (inFlight[p] # NoBatch /\ stray' = stray \cup {inFlight[p]}),
         held \subseteq Unacked(p),
         \A c \in Unacked(p) : counted[c] >= 1 \/ c \in held,
         UNCHANGED <<lastId, relayVars, booked, expired>>, faults' \in 0..MaxFaults
  PROVE  LedgerInv'
<1> USE DEF LedgerInv, TypeOK, relayVars
<1>1. InTransit' \subseteq InTransit
  BY DEF Exit, InTransit
<1>2. Unacked(p) \subseteq Calls
  BY DEF Unacked, Rows, Batches
<1>3. TypeOK'
  <2>1. stray' \subseteq Batches
    OBVIOUS
  <2> QED
    BY <1>2, <2>1 DEF Exit
<1>4. \A q \in Procs : pending'[q] \subseteq pending[q]
  BY DEF Exit
<1>5. AnsweredIsCounted'
  BY DEF AnsweredIsCounted, Exit
<1>6. NothingForgotten'
  <2> SUFFICES ASSUME NEW c \in booked
               PROVE counted[c] >= 1 \/ c \in dropped' \/ \E q \in Procs : c \in Unacked(q)'
    BY DEF NothingForgotten
  <2>1. CASE counted[c] >= 1 \/ c \in dropped
    BY <2>1 DEF Exit
  <2>2. CASE c \in Unacked(p)
    BY <2>2 DEF Exit
  <2>3. ASSUME NEW q \in Procs, q # p, c \in Unacked(q) PROVE c \in Unacked(q)'
    BY <2>3 DEF Exit, Unacked, Rows
  <2> QED
    BY <2>1, <2>2, <2>3 DEF NothingForgotten
<1> HIDE DEF LedgerInv, TypeOK
<1> QED
  BY <1>1, <1>3, <1>4, <1>5, <1>6, Subsiding

LEMMA LedgerStep == LedgerInv /\ [Next]_vars => LedgerInv'
<1> SUFFICES ASSUME LedgerInv, [Next]_vars PROVE LedgerInv'
  OBVIOUS
<1>0. TypeOK
  BY DEF LedgerInv
<1>1. ASSUME NEW p \in Procs, NEW c \in Calls, Book(p, c) PROVE LedgerInv'
  <2> USE <1>1 DEF Book, relayVars
  <2>1. InTransit' = InTransit
    BY DEF InTransit
  <2>2. TypeOK'
    BY <1>0 DEF TypeOK
  <2>3. \A q \in Procs : pending'[q] = IF q = p THEN pending[q] \cup {c} ELSE pending[q]
    BY <1>0 DEF TypeOK
  <2>4. counted[c] = 0
    BY DEF LedgerInv, PendingUncounted
  <2>5. PendingUncounted' /\ PendingApart'
    BY <2>3, <2>4 DEF LedgerInv, PendingUncounted, PendingApart
  <2>6. PendingOutOfTransit'
    BY <2>1, <2>3 DEF LedgerInv, PendingOutOfTransit, BatchesKnown
  <2>7. BatchesApart' /\ BatchesKnown' /\ SeenMeansCounted' /\ AnsweredIsCounted'
    BY <2>1 DEF LedgerInv, BatchesApart, BatchesKnown, SeenMeansCounted, AnsweredIsCounted
  <2>8. CountedOnce' /\ AllOrNothing'
    BY <2>1 DEF LedgerInv, CountedOnce, AllOrNothing
  <2>9. NothingForgotten'
    <3>1. \A q \in Procs : Unacked(q) \subseteq Unacked(q)'
      BY <2>3 DEF Unacked, Rows
    <3>2. c \in Unacked(p)'
      BY <2>3 DEF Unacked
    <3> QED
      BY <3>1, <3>2 DEF LedgerInv, NothingForgotten
  <2> QED
    BY <2>2, <2>5, <2>6, <2>7, <2>8, <2>9 DEF LedgerInv
<1>2. ASSUME NEW p \in Procs, Push(p) PROVE LedgerInv'
  <2>1. Detach(p)
    BY <1>2 DEF Push, Detach
  <2>2. proc' \in [Procs -> {"up", "stopping", "down"}]
    BY <1>0, <1>2 DEF Push, TypeOK
  <2> QED
    BY <1>2, <2>1, <2>2, TakeReportKeeps DEF Push
<1>3. ASSUME NEW p \in Procs, Ack(p) PROVE LedgerInv'
  <2>1. inFlight[p] # NoBatch /\ \A c \in inFlight[p].rows : counted[c] >= 1
    BY <1>3 DEF Ack, LedgerInv, AnsweredIsCounted
  <2>2. CASE proc[p] = "stopping"
    <3>1. Exit(p, pending[p]) /\ stray' = stray /\ pending[p] \subseteq Unacked(p)
      BY <1>3, <2>2 DEF Ack, Unacked
    <3>2. \A c \in Unacked(p) : counted[c] >= 1 \/ c \in pending[p]
      BY <2>1 DEF Unacked, Rows
    <3>3. UNCHANGED <<lastId, relayVars, booked, expired>> /\ faults' \in 0..MaxFaults
      BY <1>3, <1>0 DEF Ack, TypeOK
    <3> QED
      BY <3>1, <3>2, <3>3, ExitKeeps
  <2>3. CASE proc[p] # "stopping"
    <3> USE <1>3, <2>3 DEF Ack, relayVars
    <3>1. TypeOK'
      BY <1>0 DEF TypeOK
    <3>2. InTransit' \subseteq InTransit
      BY <1>0 DEF InTransit, TypeOK
    <3>3. AnsweredIsCounted'
      BY <1>0 DEF LedgerInv, AnsweredIsCounted, TypeOK
    <3>4. NothingForgotten'
      <4>1. \A q \in Procs : \A c \in Unacked(q) : c \in Unacked(q)' \/ counted[c] >= 1
        BY <2>1, <1>0 DEF Unacked, Rows, TypeOK
      <4> QED
        BY <4>1 DEF LedgerInv, NothingForgotten
    <3> QED
      BY <3>1, <3>2, <3>3, <3>4, Subsiding
  <2> QED
    BY <2>2, <2>3
<1>4. ASSUME NEW p \in Procs, PushFails(p) PROVE LedgerInv'
  <2>1. CASE proc[p] = "stopping"
    <3>1. Exit(p, Unacked(p)) /\ stray' = stray
      BY <1>4, <2>1 DEF PushFails
    <3>2. UNCHANGED <<lastId, relayVars, booked, expired>> /\ faults' \in 0..MaxFaults
      BY <1>4, <1>0 DEF PushFails, TypeOK
    <3> QED
      BY <3>1, <3>2, ExitKeeps
  <2>2. CASE proc[p] # "stopping"
    <3> USE <1>4, <2>2 DEF PushFails, relayVars
    <3>1. TypeOK' /\ InTransit' = InTransit
      BY <1>0 DEF TypeOK, InTransit
    <3>2. AnsweredIsCounted'
      BY <1>0 DEF LedgerInv, AnsweredIsCounted, TypeOK
    <3>3. NothingForgotten'
      BY DEF LedgerInv, NothingForgotten, Unacked
    <3> QED
      BY <3>1, <3>2, <3>3, Subsiding
  <2> QED
    BY <2>1, <2>2
<1>5. ASSUME NEW p \in Procs, RelayAdds(p) PROVE LedgerInv'
  <2>1. inFlight[p] \in InTransit
    BY <1>5 DEF RelayAdds, LedgerInv, AnsweredIsCounted, InTransit
  <2>2. InTransit' = InTransit
    BY <1>5 DEF RelayAdds, InTransit
  <2>3. wire' \in [Procs -> {"idle", "sent", "answered", "lost"}]
    BY <1>5, <1>0 DEF RelayAdds, TypeOK
  <2>4. \A q \in Procs : /\ wire'[q] # "idle" => inFlight[q] # NoBatch
                         /\ wire'[q] = "answered" => wire[q] = "answered"
                                                       \/ inFlight[q] = inFlight[p]
    BY <1>5, <1>0 DEF RelayAdds, LedgerInv, AnsweredIsCounted, TypeOK
  <2>5. /\ AddUsage(inFlight[p]) /\ stray' \subseteq stray
        /\ UNCHANGED <<proc, pending, inFlight, lastId, aged, faults, booked, dropped, expired>>
    BY <1>5 DEF RelayAdds, historyVars
  <2> QED
    BY <2>1, <2>2, <2>3, <2>4, <2>5, AddUsageKeeps
<1>6. ASSUME NEW b \in stray, StrayArrives(b) PROVE LedgerInv'
  <2>1. b \in InTransit /\ InTransit' \subseteq InTransit /\ stray' \subseteq stray
    BY <1>6 DEF StrayArrives, InTransit
  <2>2. /\ wire' = wire /\ wire \in [Procs -> {"idle", "sent", "answered", "lost"}]
        /\ \A q \in Procs : wire[q] # "idle" => inFlight[q] # NoBatch
    BY <1>6, <1>0 DEF StrayArrives, TypeOK, LedgerInv, AnsweredIsCounted
  <2>3. /\ AddUsage(b)
        /\ UNCHANGED <<proc, pending, inFlight, lastId, aged, faults, booked, dropped, expired>>
    BY <1>6 DEF StrayArrives, historyVars
  <2> QED
    BY <2>1, <2>2, <2>3, AddUsageKeeps
<1>7. ASSUME NEW b \in stray, StrayVanishes(b) PROVE LedgerInv'
  <2> USE <1>7 DEF StrayVanishes, relayVars, historyVars
  <2>1. TypeOK' /\ InTransit' \subseteq InTransit
    BY <1>0 DEF TypeOK, InTransit
  <2>2. AnsweredIsCounted' /\ NothingForgotten'
    BY DEF LedgerInv, AnsweredIsCounted, NothingForgotten, Unacked
  <2> QED
    BY <2>1, <2>2, Subsiding
<1>8. CASE Prune
  <2> USE <1>8 DEF Prune
  <2>1. InTransit' = InTransit
    BY DEF InTransit
  <2>2. expired \subseteq expired' /\ \A b \in InTransit : b.id \in aged => b.rows \subseteq expired'
    OBVIOUS
  <2>3. TypeOK'
    <3>1. expired' \subseteq Calls
      BY <1>0 DEF LedgerInv, BatchesKnown, TypeOK
    <3> QED
      BY <1>0, <3>1 DEF TypeOK
  <2>4. PendingUncounted' /\ PendingApart' /\ PendingOutOfTransit' /\ BatchesApart'
        /\ BatchesKnown' /\ AllOrNothing'
    BY <2>1 DEF LedgerInv, PendingUncounted, PendingApart, PendingOutOfTransit, BatchesApart,
       BatchesKnown, AllOrNothing
  <2>5. SeenMeansCounted'
    BY <2>1, <2>2 DEF LedgerInv, SeenMeansCounted
  <2>6. AnsweredIsCounted' /\ CountedOnce' /\ NothingForgotten'
    BY <2>2 DEF LedgerInv, AnsweredIsCounted, CountedOnce, NothingForgotten, Unacked
  <2> QED
    BY <2>3, <2>4, <2>5, <2>6 DEF LedgerInv
<1>9. CASE Tick
  <2> USE <1>9 DEF Tick, historyVars
  <2>1. TypeOK' /\ InTransit' = InTransit
    BY <1>0 DEF TypeOK, InTransit
  <2>2. AnsweredIsCounted' /\ NothingForgotten'
    BY DEF LedgerInv, AnsweredIsCounted, NothingForgotten, Unacked
  <2> QED
    BY <2>1, <2>2, Subsiding
<1>10. ASSUME NEW p \in Procs, LosePush(p) \/ AddUsageRaises(p) PROVE LedgerInv'
  <2> USE <1>10 DEF LosePush, AddUsageRaises, relayVars, historyVars
  <2>1. inFlight[p] # NoBatch
    BY DEF LedgerInv, AnsweredIsCounted
  <2>2. stray' = stray \/ stray' = stray \cup {inFlight[p]}
    BY DEF Detach
  <2>3. InTransit' \subseteq InTransit
    BY <2>1, <2>2 DEF InTransit
  <2>4. faults' \in 0..MaxFaults /\ stray' \subseteq Batches
    BY <1>0, <2>1, <2>2, UsageAssumption DEF Strike, TypeOK
  <2>5. TypeOK'
    BY <1>0, <2>4 DEF TypeOK
  <2>6. AnsweredIsCounted'
    BY <1>0 DEF LedgerInv, AnsweredIsCounted, TypeOK
  <2>7. NothingForgotten'
    BY DEF LedgerInv, NothingForgotten, Unacked
  <2> QED
    BY <2>3, <2>5, <2>6, <2>7, Subsiding
<1>11. ASSUME NEW p \in Procs, Crash(p) PROVE LedgerInv'
  <2>1. stray' = stray \/ (inFlight[p] # NoBatch /\ stray' = stray \cup {inFlight[p]})
    BY <1>11 DEF Crash, Detach, LedgerInv, AnsweredIsCounted
  <2>2. faults' \in 0..MaxFaults
    BY <1>11, <1>0, UsageAssumption DEF Crash, Strike, TypeOK
  <2> QED
    BY <1>11, <2>1, <2>2, ExitKeeps DEF Crash
<1>12. ASSUME NEW p \in Procs, Stop(p) PROVE LedgerInv'
  <2>1. CASE HasReport(p)
    <3>1. proc' \in [Procs -> {"up", "stopping", "down"}]
      BY <1>12, <2>1, <1>0 DEF Stop, TypeOK
    <3> QED
      BY <1>12, <2>1, <3>1, TakeReportKeeps DEF Stop
  <2>2. CASE ~HasReport(p)
    <3> USE <1>12, <2>2 DEF Stop, relayVars, historyVars
    <3>1. stray' = stray
      BY DEF HasReport, Detach, LedgerInv, AnsweredIsCounted
    <3>2. TypeOK' /\ InTransit' = InTransit
      BY <1>0, <3>1 DEF TypeOK, InTransit
    <3>3. AnsweredIsCounted' /\ NothingForgotten'
      BY DEF LedgerInv, AnsweredIsCounted, NothingForgotten, Unacked
    <3> QED
      BY <3>2, <3>3, Subsiding
  <2> QED
    BY <2>1, <2>2
<1>13. ASSUME NEW p \in Procs, Start(p) PROVE LedgerInv'
  <2> USE <1>13 DEF Start, relayVars, historyVars
  <2>1. TypeOK' /\ InTransit' = InTransit
    BY <1>0 DEF TypeOK, InTransit
  <2>2. AnsweredIsCounted' /\ NothingForgotten'
    BY DEF LedgerInv, AnsweredIsCounted, NothingForgotten, Unacked
  <2> QED
    BY <2>1, <2>2, Subsiding
<1>14. CASE UNCHANGED vars
  <2> USE <1>14 DEF vars, relayVars, historyVars
  <2>1. TypeOK' /\ InTransit' = InTransit
    BY <1>0 DEF TypeOK, InTransit
  <2>2. AnsweredIsCounted' /\ NothingForgotten'
    BY DEF LedgerInv, AnsweredIsCounted, NothingForgotten, Unacked
  <2> QED
    BY <2>1, <2>2, Subsiding
<1> QED
  BY <1>1, <1>2, <1>3, <1>4, <1>5, <1>6, <1>7, <1>8, <1>9, <1>10, <1>11, <1>12, <1>13, <1>14
     DEF Next, Process, Fault

-----------------------------------------------------------------------------
\* LedgerInv holds in every state the system reaches.
THEOREM LedgerInvariant == Spec => []LedgerInv
<1> QED
  BY LedgerInit, LedgerStep, PTL DEF Spec

\* The ledger's state is well formed, for any number of processes and calls.
THEOREM LedgerTypeCorrect == Spec => []TypeOK
<1>1. LedgerInv => TypeOK
  BY DEF LedgerInv
<1> QED
  BY <1>1, LedgerInvariant, PTL

\* usage.push: a push whose reply was lost is not counted twice, for any number
\* of processes, calls, losses and retries, unless its id was pruned meanwhile.
THEOREM NoDoubleCount == Spec => []CountedOnce
<1>1. LedgerInv => CountedOnce
  BY DEF LedgerInv
<1> QED
  BY <1>1, LedgerInvariant, PTL

\* A booked call is on the relay, or in the memory of a process, or was lost with
\* one that ended: no push, retry or ack makes it disappear.
THEOREM NoCallForgotten == Spec => []NothingForgotten
<1>1. LedgerInv => NothingForgotten
  BY DEF LedgerInv
<1> QED
  BY <1>1, LedgerInvariant, PTL

\* add_usage is atomic as seen from outside: a batch that may be retried was
\* counted as a whole or not at all.
THEOREM BatchAtomic == Spec => []AllOrNothing
<1>1. LedgerInv => AllOrNothing
  BY DEF LedgerInv
<1> QED
  BY <1>1, LedgerInvariant, PTL

=============================================================================
