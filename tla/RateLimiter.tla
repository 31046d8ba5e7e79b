---------------------------- MODULE RateLimiter -----------------------------
(***************************************************************************)
(* The relay's limit on requests per address (relay/app/rate_limit.py).    *)
(* rate_limit is a plain function, so FastAPI runs it in a thread of a     *)
(* pool: requests interleave between any two of its statements.  Windows   *)
(* have an identity here, since a thread may hold one that a sweep has     *)
(* dropped from the map.                                                   *)
(***************************************************************************)
EXTENDS Integers, Sequences, FiniteSets

CONSTANTS
  Threads, Addresses,
  Limit,          \* _LIMIT_PER_MINUTE
  Minute,         \* the window and _SWEEP_INTERVAL_S, in ticks of the clock
  MaxTime,        \* bound: the clock stops there
  MaxRequests     \* bound: requests

VARIABLES
  clock,
  hits,           \* hits[a]: the window of a, or NoWindow (_hits)
  window,         \* window[d]: the times in it, as appended
  lastSweep,      \* _last_sweep
  thread,         \* thread[t]: where it is in rate_limit, and its locals
  requests,       \* how many requests there were
  \* history, for the properties only
  admitted,       \* admitted[a]: the times of the hits let through
  asked,          \* asked[a]: when a last began a request
  overlap,        \* when a request last began beside another one
  broken          \* a sweep raised

vars == <<clock, hits, window, lastSweep, thread, requests, admitted, asked, overlap, broken>>
-----------------------------------------------------------------------------
NoWindow == 0
Windows == 1..(Cardinality(Addresses) + Cardinality(Threads))
Times == 0..MaxTime
Never == -1 - 2 * Minute

Idle == [at |-> "idle", key |-> CHOOSE a \in Addresses : TRUE, now |-> 0, size |-> 0,
         stale |-> {}, win |-> NoWindow]
Busy == {t \in Threads : thread[t].at # "idle"}
Known == {a \in Addresses : hits[a] # NoWindow}

ASSUME RateAssumption ==
  /\ IsFiniteSet(Threads) /\ IsFiniteSet(Addresses) /\ Addresses # {}
  /\ Limit \in Nat \ {0} /\ Minute \in Nat \ {0} /\ MaxTime \in Nat /\ MaxRequests \in Nat

TypeOK ==
  /\ clock \in Times /\ lastSweep \in Times \cup {Never} /\ requests \in 0..MaxRequests
  /\ hits \in [Addresses -> Windows \cup {NoWindow}]
  /\ window \in [Windows -> Seq(Times)]
  /\ thread \in [Threads -> [at : {"idle", "sweep", "scan", "delete", "window", "trim", "pop", "check", "append"},
                             key : Addresses, now : Times, size : Nat, stale : SUBSET Addresses,
                             win : Windows \cup {NoWindow}]]
  /\ \A t \in Threads : thread[t].at \in {"trim", "pop", "check", "append"} => thread[t].win # NoWindow
  /\ admitted \in [Addresses -> Seq(Times)] /\ asked \in [Addresses -> Times \cup {Never}]
  /\ overlap \in Times \cup {Never} /\ broken \in BOOLEAN

Init ==
  /\ clock = 0 /\ lastSweep = Never /\ requests = 0
  /\ hits = [a \in Addresses |-> NoWindow] /\ window = [d \in Windows |-> <<>>]
  /\ thread = [t \in Threads |-> Idle]
  /\ admitted = [a \in Addresses |-> <<>>] /\ asked = [a \in Addresses |-> Never]
  /\ overlap = Never /\ broken = FALSE

At(t, here) == thread[t].at = here
Go(t, there) == thread' = [thread EXCEPT ![t].at = there]
\* The handler raises, or ends.
Leave(t) == thread' = [thread EXCEPT ![t] = Idle]
-----------------------------------------------------------------------------
\* A request comes in, on a free thread.
Arrive(t, a) ==
  /\ At(t, "idle") /\ requests < MaxRequests /\ requests' = requests + 1
  /\ thread' = [thread EXCEPT ![t] = [Idle EXCEPT !.at = "sweep", !.key = a, !.now = clock]]
  /\ asked' = [asked EXCEPT ![a] = clock]
  /\ overlap' = IF Busy = {} THEN overlap ELSE clock
  /\ UNCHANGED <<clock, hits, window, lastSweep, admitted, broken>>

\* _sweep: no more than once a minute, whoever comes first ...
SweepBegins(t) ==
  /\ At(t, "sweep")
  /\ IF thread[t].now - lastSweep < Minute
     THEN Go(t, "window") /\ UNCHANGED lastSweep
     ELSE /\ lastSweep' = thread[t].now
          /\ thread' = [thread EXCEPT ![t].at = "scan", ![t].size = Cardinality(Known)]
  /\ UNCHANGED <<clock, hits, window, requests, admitted, asked, overlap, broken>>

Last(s) == s[Len(s)]
StaleWhenEmpty(a, now) == window[hits[a]] = <<>>
Stale(a, now) == window[hits[a]] = <<>> \/ now - Last(window[hits[a]]) > Minute

\* ... which addresses have aged out; a map that grows under it raises ...
SweepScans(t) ==
  /\ At(t, "scan")
  /\ IF Cardinality(Known) # thread[t].size
     THEN Leave(t) /\ broken' = TRUE
     ELSE /\ thread' = [thread EXCEPT ![t].at = "delete",
                                      ![t].stale = {a \in Known : Stale(a, thread[t].now)}]
          /\ UNCHANGED broken
  /\ UNCHANGED <<clock, hits, window, lastSweep, requests, admitted, asked, overlap>>

\* ... and forgets each; one that another sweep has forgotten raises.
SweepDeletes(t) ==
  /\ At(t, "delete")
  /\ \/ thread[t].stale = {} /\ Go(t, "window") /\ UNCHANGED <<hits, broken>>
     \/ \E a \in thread[t].stale :
          IF a \in Known
          THEN /\ hits' = [hits EXCEPT ![a] = NoWindow]
               /\ thread' = [thread EXCEPT ![t].stale = @ \ {a}] /\ UNCHANGED broken
          ELSE Leave(t) /\ broken' = TRUE /\ UNCHANGED hits
  /\ UNCHANGED <<clock, window, lastSweep, requests, admitted, asked, overlap>>

\* window = _hits[key], a new one when there is none.
InUse == {hits[a] : a \in Addresses} \cup {thread[t].win : t \in Threads}
\* A plain dict: no window when there is none.
FindPlain(t) ==
  /\ At(t, "window")
  /\ thread' = [thread EXCEPT ![t].at = "trim", ![t].win = hits[thread[t].key]]
  /\ UNCHANGED <<clock, hits, window, lastSweep, requests, admitted, asked, overlap, broken>>

FindWindow(t) ==
  /\ At(t, "window")
  /\ LET a == thread[t].key
         new == CHOOSE d \in Windows \ InUse : \A e \in Windows \ InUse : d <= e
         win == IF a \in Known THEN hits[a] ELSE new IN
     /\ hits' = [hits EXCEPT ![a] = win]
     /\ window' = IF a \in Known THEN window ELSE [window EXCEPT ![new] = <<>>]
     /\ thread' = [thread EXCEPT ![t].at = "trim", ![t].win = win]
  /\ UNCHANGED <<clock, lastSweep, requests, admitted, asked, overlap, broken>>

OldAtBorder(first, now) == now - first >= Minute
Old(first, now) == now - first > Minute
\* Looking at the newest hit.
TrimByLast(t) ==
  /\ At(t, "trim")
  /\ LET w == window[thread[t].win] IN
     Go(t, IF w # <<>> /\ Old(Last(w), thread[t].now) THEN "pop" ELSE "check")
  /\ UNCHANGED <<clock, hits, window, lastSweep, requests, admitted, asked, overlap, broken>>

\* Hits older than a minute leave the window; the test and the popleft are two
\* steps, and an empty window raises.
Trim(t) ==
  /\ At(t, "trim")
  /\ LET w == window[thread[t].win] IN
     Go(t, IF w # <<>> /\ Old(Head(w), thread[t].now) THEN "pop" ELSE "check")
  /\ UNCHANGED <<clock, hits, window, lastSweep, requests, admitted, asked, overlap, broken>>

Pop(t) ==
  /\ At(t, "pop")
  /\ LET w == window[thread[t].win] IN
     IF w = <<>> THEN Leave(t) /\ UNCHANGED window
     ELSE window' = [window EXCEPT ![thread[t].win] = Tail(w)] /\ Go(t, "trim")
  /\ UNCHANGED <<clock, hits, lastSweep, requests, admitted, asked, overlap, broken>>

Full(t) == Len(window[thread[t].win]) >= Limit

\* 429.
Refuse(t) ==
  /\ At(t, "check") /\ Full(t) /\ Leave(t)
  /\ UNCHANGED <<clock, hits, window, lastSweep, requests, admitted, asked, overlap, broken>>

Pass(t) ==
  /\ At(t, "check") /\ ~Full(t) /\ Go(t, "append")
  /\ UNCHANGED <<clock, hits, window, lastSweep, requests, admitted, asked, overlap, broken>>

Hit(t) ==
  /\ At(t, "append")
  /\ window' = [window EXCEPT ![thread[t].win] = Append(@, thread[t].now)]
  /\ admitted' = [admitted EXCEPT ![thread[t].key] = Append(@, thread[t].now)]
  /\ Leave(t)
  /\ UNCHANGED <<clock, hits, lastSweep, requests, asked, overlap, broken>>

\* A request takes less than a tick of the clock, so it meets at most one.
Tick ==
  /\ clock < MaxTime /\ clock' = clock + 1
  /\ \A t \in Busy : thread[t].now = clock
  /\ UNCHANGED <<hits, window, lastSweep, thread, requests, admitted, asked, overlap, broken>>

Step(t) ==
  \/ SweepBegins(t) \/ SweepScans(t) \/ SweepDeletes(t) \/ FindWindow(t)
  \/ Trim(t) \/ Pop(t) \/ Refuse(t) \/ Pass(t) \/ Hit(t)

Next == Tick \/ \E t \in Threads : Step(t) \/ \E a \in Addresses : Arrive(t, a)
Spec == Init /\ [][Next]_vars
-----------------------------------------------------------------------------
Within(a, from, to) == {i \in DOMAIN admitted[a] : admitted[a][i] \in from..to}

\* rate_limit.py:15-20: at most Limit requests of an address get through in any
\* minute: the hit that is Limit hits after another comes more than a minute later.
\* Requests beside each other may together pass the check, and may lose hits, those
\* of earlier requests too; but once they are done the limit holds from there on,
\* whatever they left in the windows.
Bounded ==
  \A a \in Addresses : \A i, j \in DOMAIN admitted[a] :
    j = i + Limit /\ admitted[a][i] > overlap => admitted[a][j] - admitted[a][i] > Minute

\* rate_limit.py:54-57: a request is refused only when Limit requests of its own
\* address got through in the last minute, give or take the tick by which two
\* threads may append out of order.
NoFalseRefusal ==
  [][\A t \in Threads :
       Refuse(t) => Cardinality(Within(thread[t].key, thread[t].now - Minute - 1, MaxTime)) >= Limit]_vars

\* rate_limit.py:22-24: the map does not keep every address ever seen.  When no
\* sweep is under way, the addresses in it asked since a minute before the last
\* sweep, unless a sweep was cut short by another thread.
OnlyRecentKept ==
  ~broken /\ (\A t \in Threads : ~At(t, "scan") /\ ~At(t, "delete")) =>
    \A a \in Known : asked[a] >= lastSweep - Minute
=============================================================================
