------------------------- MODULE RateLimiterProofs -------------------------
(***************************************************************************)
(* What the rate limiter keeps true, for any number of threads and         *)
(* addresses, any limit and any length of the minute.  A window is held by *)
(* one address only, holds hits that were let through, and is out of order *)
(* by a tick at most.  Since the last request that ran beside another one, *)
(* it moreover holds all of the hits that still count.                     *)
(***************************************************************************)
EXTENDS RateLimiter, SequenceTheorems, FiniteSetTheorems, TLAPS

Places == {"idle", "sweep", "scan", "delete", "window", "trim", "pop", "check", "append"}
Holding == {"trim", "pop", "check", "append"}
Locals == [at : Places, key : Addresses, now : Times, size : Nat, stale : SUBSET Addresses,
           win : Windows \cup {NoWindow}]

\* The types, and when a thread holds a window.
DataTypes ==
  /\ clock \in Times /\ lastSweep \in Times \cup {Never} /\ requests \in 0..MaxRequests
  /\ hits \in [Addresses -> Windows \cup {NoWindow}]
  /\ window \in [Windows -> Seq(Times)]
  /\ admitted \in [Addresses -> Seq(Times)] /\ asked \in [Addresses -> Times \cup {Never}]
  /\ overlap \in Times \cup {Never}
ThreadTypes ==
  /\ thread \in [Threads -> Locals]
  /\ \A t \in Threads : thread[t].at \in Holding <=> thread[t].win # NoWindow
TypeInv == DataTypes /\ ThreadTypes

\* A window is one address's, in the map and in the hands of the threads.
OwnersInv ==
  /\ \A a, b \in Known : hits[a] = hits[b] => a = b
  /\ \A t \in Threads, a \in Known : hits[a] = thread[t].win => thread[t].key = a
  /\ \A t, u \in Threads : thread[t].win # NoWindow /\ thread[t].win = thread[u].win =>
       thread[t].key = thread[u].key

\* Whoever is at work began in this tick or the last one.
ClockInv ==
  /\ \A t \in Busy : thread[t].now <= clock /\ clock <= thread[t].now + 1 /\ thread[t].now <= asked[thread[t].key]
  /\ \A a \in Addresses : asked[a] <= clock
  /\ \A a \in Addresses : \A i \in 1..Len(admitted[a]) : admitted[a][i] <= asked[a]
  /\ lastSweep <= clock /\ overlap <= clock

\* Each hit of w is one of those in log.
IsCopy(g, w, log) ==
  /\ \A i, j \in 1..Len(w) : g[i] = g[j] => i = j
  /\ \A i \in 1..Len(w) : w[i] = log[g[i]]
Copied(w, log) == \E g \in [1..Len(w) -> 1..Len(log)] : IsCopy(g, w, log)

CopyInv ==
  /\ \A a \in Known : Copied(window[hits[a]], admitted[a])
  /\ \A t \in Threads : thread[t].win # NoWindow => Copied(window[thread[t].win], admitted[thread[t].key])

\* Windows are out of order by a tick at most, so one that is trimmed holds no hit
\* that is older than the border by more than that.
OrderInv ==
  /\ \A d \in Windows : \A i \in 1..Len(window[d]) : window[d][i] <= clock
  /\ \A d \in Windows : \A i, j \in 1..Len(window[d]) : i < j => window[d][i] <= window[d][j] + 1
  /\ \A t \in Threads : thread[t].at = "check" =>
       \A i \in 1..Len(window[thread[t].win]) : thread[t].now - Minute - 1 <= window[thread[t].win][i]

\* What the last sweep does not find recent it is about to forget.
Recent(a) == lastSweep - Minute <= asked[a]
SweepInv ==
  ~broken /\ (\A t \in Threads : thread[t].at = "scan" => thread[t].now # lastSweep) =>
    \A a \in Known : Recent(a) \/ \E t \in Threads : thread[t].at = "delete" /\ a \in thread[t].stale

\* Requests since the last overlap ran one by one: what they admitted and still
\* counts is at the end of the window, in order.
Lone(a, i) == i \in 1..Len(admitted[a]) /\ admitted[a][i] > overlap
NoneLone == \A a \in Addresses : \A i \in 1..Len(admitted[a]) : ~Lone(a, i)
\* What the only request under way can count on.
Undisturbed(t) ==
  /\ asked[thread[t].key] = thread[t].now /\ lastSweep <= thread[t].now
  /\ \A a \in Addresses : asked[a] <= thread[t].now
  /\ thread[t].at \in {"scan", "delete"} => lastSweep = thread[t].now
  /\ thread[t].at = "delete" =>
       \A a \in thread[t].stale : \A i \in 1..Len(admitted[a]) : Lone(a, i) => admitted[a][i] < lastSweep - Minute
  /\ thread[t].at \in Holding => hits[thread[t].key] = thread[t].win
  /\ thread[t].at = "pop" =>
       window[thread[t].win] # <<>> /\ Old(Head(window[thread[t].win]), thread[t].now)
  /\ thread[t].at = "append" => Len(window[thread[t].win]) < Limit

AloneInv ==
  /\ \A t, u \in Busy : t # u => thread[t].now <= overlap /\ NoneLone
  /\ \A t \in Busy : \A a \in Addresses : \A i \in 1..Len(admitted[a]) : Lone(a, i) => admitted[a][i] <= thread[t].now
  /\ \A t \in Busy : thread[t].now > overlap => Undisturbed(t)

Counts(a, i) == asked[a] - Minute <= admitted[a][i] /\ lastSweep - Minute <= admitted[a][i]
\* The place in the window that is as far from its end as i is from the last hit.
Place(a, i) == Len(window[hits[a]]) - (Len(admitted[a]) - i)
Placed(a, i) ==
  a \in Known /\ Place(a, i) \in 1..Len(window[hits[a]]) /\ window[hits[a]][Place(a, i)] = admitted[a][i]
WindowInv ==
  /\ \A a \in Addresses : \A i, j \in 1..Len(admitted[a]) : Lone(a, i) /\ i < j => admitted[a][i] <= admitted[a][j]
  /\ \A a \in Addresses : \A i \in 1..Len(admitted[a]) : Lone(a, i) /\ Counts(a, i) => Placed(a, i)
  /\ \A a \in Addresses : \A i, j \in 1..Len(admitted[a]) :
       j = i + Limit /\ Lone(a, i) => admitted[a][j] - admitted[a][i] > Minute
-----------------------------------------------------------------------------
\* A non-empty set of numbers has a least one.
LEMMA Least ==
  ASSUME NEW S \in SUBSET Nat, S # {}
  PROVE  \E i \in S : \A j \in S : i <= j
<1>1. PICK i \in S : \A j \in S : ~(<<j, i>> \in OpToRel(<, Nat))
  BY NatLessThanWellFounded, WFMin
<1>2. \A j \in S : ~(j < i)
  BY <1>1 DEF OpToRel
<1> QED
  BY <1>2

\* There are windows enough: one is free for a thread that holds none and whose
\* address has none.
LEMMA FreeWindow ==
  ASSUME NEW t \in Threads, NEW a \in Addresses, hits[a] = NoWindow, thread[t].win = NoWindow
  PROVE  Windows \ InUse # {}
<1> USE RateAssumption
<1> DEFINE As == Addresses \ {a}
           Ts == Threads \ {t}
           h == [b \in As |-> hits[b]]
           w == [u \in Ts |-> thread[u].win]
           H == {hits[b] : b \in As}
           W == {thread[u].win : u \in Ts}
<1>1. /\ IsFiniteSet(As) /\ Cardinality(As) = Cardinality(Addresses) - 1
      /\ IsFiniteSet(Ts) /\ Cardinality(Ts) = Cardinality(Threads) - 1
      /\ Cardinality(Addresses) \in Nat /\ Cardinality(Threads) \in Nat
  BY FS_RemoveElement, FS_CardinalityType
<1>2. h \in Surjection(As, H) /\ w \in Surjection(Ts, W)
  BY DEF Surjection
<1>3. IsFiniteSet(H) /\ Cardinality(H) <= Cardinality(As)
  <2> HIDE DEF h, H, As
  <2> QED
    BY <1>1, <1>2, FS_Surjection
<1>4. IsFiniteSet(W) /\ Cardinality(W) <= Cardinality(Ts)
  <2> HIDE DEF w, W, Ts
  <2> QED
    BY <1>1, <1>2, FS_Surjection
<1>5. InUse \ {NoWindow} \subseteq H \cup W
  BY DEF InUse
<1> HIDE DEF H, W, As, Ts
<1>6. IsFiniteSet(H \cup W) /\ Cardinality(H \cup W) <= Cardinality(Addresses) + Cardinality(Threads) - 2
  <2>1. IsFiniteSet(H \cup W) /\ Cardinality(H \cup W) = Cardinality(H) + Cardinality(W) - Cardinality(H \cap W)
    BY <1>3, <1>4, FS_Union
  <2>2. IsFiniteSet(H \cap W)
    BY <1>3, FS_Subset
  <2>3. Cardinality(H \cap W) \in Nat /\ Cardinality(H) \in Nat /\ Cardinality(W) \in Nat
    BY <1>3, <1>4, <2>2, FS_CardinalityType
  <2> QED
    BY <1>1, <1>3, <1>4, <2>1, <2>3
<1>7. Cardinality(Windows) = Cardinality(Addresses) + Cardinality(Threads)
  <2>1. Cardinality(Addresses) + Cardinality(Threads) \in Nat
    BY <1>1
  <2> QED
    BY <2>1, FS_Interval DEF Windows
<1>8. SUFFICES ASSUME Windows \subseteq InUse PROVE FALSE
  OBVIOUS
<1>9. Windows \subseteq H \cup W
  BY <1>5, <1>8 DEF Windows, NoWindow
<1>10. Cardinality(Windows) <= Cardinality(H \cup W)
  BY <1>6, <1>9, FS_Subset
<1>11. Cardinality(H \cup W) \in Nat
  BY <1>6, FS_CardinalityType
<1> QED
  BY <1>1, <1>6, <1>7, <1>10, <1>11

\* The window that a thread finds or makes.
New == CHOOSE d \in Windows \ InUse : \A e \in Windows \ InUse : d <= e
\* It is a window that nobody uses.
LEMMA NewWindow ==
  ASSUME NEW t \in Threads, NEW a \in Addresses, hits[a] = NoWindow, thread[t].win = NoWindow
  PROVE  New \in Windows \ InUse
<1>1. Windows \ InUse \in SUBSET Nat /\ Windows \ InUse # {}
  BY FreeWindow DEF Windows
<1> QED
  BY <1>1, Least DEF New

\* A thread goes from one statement to another.
LEMMA Going ==
  ASSUME TypeInv, NEW t \in Threads, NEW there \in Places, Go(t, there),
         thread[t].at \in Holding <=> there \in Holding
  PROVE  /\ ThreadTypes'
         /\ thread'[t].at = there
         /\ \A u \in Threads : /\ u # t => thread'[u] = thread[u]
                               /\ thread'[u].key = thread[u].key /\ thread'[u].now = thread[u].now
                               /\ thread'[u].win = thread[u].win /\ thread'[u].stale = thread[u].stale
  BY DEF Go, TypeInv, DataTypes, ThreadTypes, Locals

\* A request ends.
LEMMA Leaving ==
  ASSUME TypeInv, NEW t \in Threads, Leave(t)
  PROVE  /\ ThreadTypes'
         /\ thread'[t].at = "idle" /\ thread'[t].win = NoWindow
         /\ \A u \in Threads : u # t => thread'[u] = thread[u]
<1>1. Idle \in Locals /\ Idle.at = "idle" /\ Idle.win = NoWindow
  <2>1. (CHOOSE a \in Addresses : TRUE) \in Addresses
    BY RateAssumption
  <2> QED
    BY <2>1, RateAssumption DEF Idle, Locals, Places, Times
<1> QED
  BY <1>1 DEF Leave, TypeInv, DataTypes, ThreadTypes, Holding

\* A request comes in.
LEMMA Arriving ==
  ASSUME TypeInv, NEW t \in Threads, NEW a \in Addresses, Arrive(t, a)
  PROVE  /\ ThreadTypes'
         /\ thread[t].at = "idle" /\ thread'[t].at = "sweep" /\ thread'[t].win = NoWindow
         /\ thread'[t].key = a /\ thread'[t].now = clock
         /\ \A u \in Threads : u # t => thread'[u] = thread[u]
  BY RateAssumption DEF Arrive, At, Idle, TypeInv, DataTypes, ThreadTypes, Locals, Places, Holding, Times

\* A sweep is about to begin, or it was not yet time.
LEMMA Sweeping ==
  ASSUME TypeInv, NEW t \in Threads, SweepBegins(t)
  PROVE  /\ ThreadTypes'
         /\ thread[t].at = "sweep" /\ lastSweep' \in Times \cup {Never}
         /\ \/ thread'[t].at = "window" /\ lastSweep' = lastSweep
            \/ thread'[t].at = "scan" /\ lastSweep' = thread[t].now /\ thread[t].now - lastSweep >= Minute
         /\ \A u \in Threads : /\ u # t => thread'[u] = thread[u]
                               /\ thread'[u].key = thread[u].key /\ thread'[u].now = thread[u].now
                               /\ thread'[u].win = thread[u].win /\ thread'[u].stale = thread[u].stale
<1>1. CASE thread[t].now - lastSweep < Minute
  BY <1>1, Going DEF SweepBegins, At, Places, Holding, TypeInv, DataTypes, ThreadTypes
<1>2. CASE ~(thread[t].now - lastSweep < Minute)
  <2>1. Known \subseteq Addresses /\ IsFiniteSet(Addresses)
    BY RateAssumption DEF Known
  <2>2. Cardinality(Known) \in Nat
    BY <2>1, FS_Subset, FS_CardinalityType
  <2>3. lastSweep \in Int /\ Minute \in Int /\ thread[t].now \in Times /\ thread[t].now \in Int
    BY RateAssumption DEF TypeInv, DataTypes, ThreadTypes, Locals, Times, Never
  <2>4. lastSweep' = thread[t].now /\ thread[t].at = "sweep" /\ thread[t].now - lastSweep >= Minute
    BY <1>2, <2>3 DEF SweepBegins, At
  <2>5. PICK n \in Nat : thread' = [thread EXCEPT ![t].at = "scan", ![t].size = n]
    BY <1>2, <2>2 DEF SweepBegins
  <2>6. ThreadTypes'
    <3>1. thread \in [Threads -> Locals]
      BY DEF TypeInv, ThreadTypes
    <3>2. thread' \in [Threads -> Locals]
      BY <2>5, <3>1 DEF Locals, Places
    <3>3. \A u \in Threads : /\ thread'[u].win = thread[u].win
                              /\ thread'[u].at = IF u = t THEN "scan" ELSE thread[u].at
      BY <2>5, <3>1 DEF Locals
    <3>4. \A u \in Threads : thread'[u].win # NoWindow <=> thread'[u].at \in Holding
      BY <2>4, <3>3 DEF TypeInv, ThreadTypes, Holding
    <3> QED
      BY <3>2, <3>4 DEF ThreadTypes
  <2> QED
    BY <2>3, <2>4, <2>5, <2>6 DEF TypeInv, ThreadTypes
<1> QED
  BY <1>1, <1>2

\* A thread finds the window of its address, or makes one.
Found(t) == IF hits[thread[t].key] # NoWindow THEN hits[thread[t].key] ELSE New
\* It holds it afterwards, as the map does; a new one is empty.
LEMMA Finding ==
  ASSUME TypeInv, NEW t \in Threads, FindWindow(t)
  PROVE  /\ ThreadTypes'
         /\ thread[t].at = "window" /\ thread[t].win = NoWindow
         /\ Found(t) \in Windows /\ Found(t) # NoWindow
         /\ thread'[t].at = "trim" /\ thread'[t].win = Found(t)
         /\ \A u \in Threads : /\ u # t => thread'[u] = thread[u]
                               /\ thread'[u].key = thread[u].key /\ thread'[u].now = thread[u].now
                               /\ thread'[u].stale = thread[u].stale
         /\ hits' = [hits EXCEPT ![thread[t].key] = Found(t)]
         /\ hits[thread[t].key] # NoWindow => window' = window /\ hits' = hits
         /\ hits[thread[t].key] = NoWindow =>
              /\ Found(t) \notin InUse /\ window' = [window EXCEPT ![Found(t)] = <<>>]
<1> DEFINE k == thread[t].key
<1>1. k \in Addresses /\ thread[t].at = "window" /\ thread[t].win = NoWindow
  BY DEF FindWindow, At, TypeInv, DataTypes, ThreadTypes, Locals, Holding
<1>2. hits[k] = NoWindow => New \in Windows \ InUse
  BY <1>1, NewWindow
<1>3. Found(t) \in Windows /\ (hits[k] = NoWindow => Found(t) \notin InUse)
  BY <1>1, <1>2 DEF Found, TypeInv, DataTypes, ThreadTypes
<1>4. Found(t) # NoWindow
  BY <1>3 DEF Windows, NoWindow
<1>5. k \in Known <=> hits[k] # NoWindow
  BY <1>1 DEF Known
<1>9. (IF k \in Known THEN hits[k] ELSE New) = Found(t)
  BY <1>5 DEF Found
<1>6. /\ hits' = [hits EXCEPT ![k] = Found(t)]
      /\ thread' = [thread EXCEPT ![t].at = "trim", ![t].win = Found(t)]
      /\ window' = IF hits[k] # NoWindow THEN window ELSE [window EXCEPT ![Found(t)] = <<>>]
  <2>1. /\ hits' = [hits EXCEPT ![k] = IF k \in Known THEN hits[k] ELSE New]
        /\ thread' = [thread EXCEPT ![t].at = "trim", ![t].win = IF k \in Known THEN hits[k] ELSE New]
        /\ window' = IF k \in Known THEN window ELSE [window EXCEPT ![New] = <<>>]
    BY DEF FindWindow, New
  <2>2. hits[k] = NoWindow => New = Found(t)
    BY DEF Found
  <2> QED
    BY <1>5, <1>9, <2>1, <2>2
<1>7. hits[k] # NoWindow => hits' = hits
  BY <1>1, <1>6 DEF Found, TypeInv, DataTypes, ThreadTypes
<1>8. /\ ThreadTypes'
      /\ thread'[t].at = "trim" /\ thread'[t].win = Found(t)
      /\ \A u \in Threads : /\ u # t => thread'[u] = thread[u]
                            /\ thread'[u].key = thread[u].key /\ thread'[u].now = thread[u].now
                            /\ thread'[u].stale = thread[u].stale
  <2> HIDE DEF Found
  <2>1. thread \in [Threads -> Locals]
    BY DEF TypeInv, ThreadTypes
  <2>2. thread' \in [Threads -> Locals]
    BY <1>3, <1>6, <2>1 DEF Locals, Places
  <2>3. /\ thread'[t].at = "trim" /\ thread'[t].win = Found(t)
        /\ \A u \in Threads : /\ u # t => thread'[u] = thread[u]
                              /\ thread'[u].key = thread[u].key /\ thread'[u].now = thread[u].now
                              /\ thread'[u].stale = thread[u].stale
    BY <1>6, <2>1 DEF Locals
  <2>4. \A u \in Threads : thread'[u].win # NoWindow <=> thread'[u].at \in Holding
    BY <1>4, <2>3 DEF TypeInv, ThreadTypes, Holding
  <2> QED
    BY <2>2, <2>3, <2>4 DEF ThreadTypes
<1> QED
  BY <1>1, <1>3, <1>4, <1>6, <1>7, <1>8

\* A start is well-typed.
LEMMA TypeInit == Init => TypeInv
<1> SUFFICES ASSUME Init PROVE TypeInv
  OBVIOUS
<1>1. (CHOOSE a \in Addresses : TRUE) \in Addresses
  BY RateAssumption
<1>2. Idle \in Locals /\ Idle.at \notin Holding /\ Idle.win = NoWindow
  BY <1>1, RateAssumption DEF Idle, Locals, Places, Times, Holding
<1> QED
  BY <1>2, EmptySeq, RateAssumption DEF Init, TypeInv, DataTypes, ThreadTypes, Times

\* Every step keeps the types.
LEMMA TypeStep == TypeInv /\ [Next]_vars => TypeInv'
<1> SUFFICES ASSUME TypeInv, [Next]_vars PROVE TypeInv'
  OBVIOUS
<1> USE RateAssumption
<1>1. ASSUME NEW t \in Threads, NEW a \in Addresses, Arrive(t, a) PROVE TypeInv'
  <2>1. requests' \in 0..MaxRequests
    BY <1>1 DEF Arrive, TypeInv, DataTypes
  <2>2. overlap' \in Times \cup {Never} /\ asked' \in [Addresses -> Times \cup {Never}]
    BY <1>1 DEF Arrive, TypeInv, DataTypes
  <2>3. UNCHANGED <<clock, lastSweep, hits, window, admitted>>
    BY <1>1 DEF Arrive
  <2> QED
    BY <1>1, <2>1, <2>2, <2>3, Arriving DEF TypeInv, DataTypes
<1>2. ASSUME NEW t \in Threads, SweepBegins(t) PROVE TypeInv'
  BY <1>2, Sweeping DEF SweepBegins, TypeInv, DataTypes
<1>3. ASSUME NEW t \in Threads, SweepScans(t) PROVE TypeInv'
  <2>1. DataTypes'
    BY <1>3 DEF SweepScans, TypeInv, DataTypes
  <2>2. CASE Leave(t)
    BY <2>1, <2>2, Leaving DEF TypeInv
  <2>3. CASE ~Leave(t)
    <3>1. {a \in Known : Stale(a, thread[t].now)} \in SUBSET Addresses
      BY DEF Known
    <3>2. PICK S \in SUBSET Addresses : thread' = [thread EXCEPT ![t].at = "delete", ![t].stale = S]
      BY <1>3, <2>3, <3>1 DEF SweepScans
    <3>3. ThreadTypes'
      BY <1>3, <3>2 DEF SweepScans, At, TypeInv, ThreadTypes, Locals, Places, Holding
    <3> QED
      BY <2>1, <3>3 DEF TypeInv
  <2> QED
    BY <2>2, <2>3
<1>4. ASSUME NEW t \in Threads, SweepDeletes(t) PROVE TypeInv'
  <2>1. DataTypes'
    BY <1>4 DEF SweepDeletes, TypeInv, DataTypes
  <2>2. CASE Leave(t)
    BY <2>1, <2>2, Leaving DEF TypeInv
  <2>3. CASE Go(t, "window")
    BY <1>4, <2>1, <2>3, Going DEF SweepDeletes, At, TypeInv, Places, Holding
  <2>4. CASE ~Leave(t) /\ ~Go(t, "window")
    <3>1. PICK a \in thread[t].stale : thread' = [thread EXCEPT ![t].stale = @ \ {a}]
      BY <1>4, <2>4 DEF SweepDeletes
    <3>2. ThreadTypes'
      BY <3>1 DEF TypeInv, ThreadTypes, Locals
    <3> QED
      BY <2>1, <3>2 DEF TypeInv
  <2> QED
    BY <2>2, <2>3, <2>4
<1>5. ASSUME NEW t \in Threads, FindWindow(t) PROVE TypeInv'
  <2>1. hits' \in [Addresses -> Windows \cup {NoWindow}]
    BY <1>5, Finding DEF TypeInv, DataTypes
  <2>2. window' \in [Windows -> Seq(Times)]
    <3>1. window \in [Windows -> Seq(Times)] /\ <<>> \in Seq(Times)
      BY EmptySeq DEF TypeInv, DataTypes
    <3>2. CASE hits[thread[t].key] # NoWindow
      BY <1>5, <3>1, <3>2, Finding
    <3>3. CASE hits[thread[t].key] = NoWindow
      BY <1>5, <3>1, <3>3, Finding
    <3> QED
      BY <3>2, <3>3
  <2> QED
    BY <1>5, <2>1, <2>2, Finding DEF FindWindow, TypeInv, DataTypes
<1>6. ASSUME NEW t \in Threads, Trim(t) PROVE TypeInv'
  BY <1>6, Going DEF Trim, At, TypeInv, DataTypes, Places, Holding
<1>7. ASSUME NEW t \in Threads, Pop(t) PROVE TypeInv'
  <2>1. thread[t].win \in Windows /\ window[thread[t].win] \in Seq(Times) /\ thread[t].at = "pop"
    BY <1>7 DEF Pop, At, TypeInv, DataTypes, ThreadTypes, Locals, Holding
  <2>2. CASE window[thread[t].win] = <<>>
    BY <1>7, <2>2, Leaving DEF Pop, TypeInv, DataTypes
  <2>3. CASE window[thread[t].win] # <<>>
    <3>1. Tail(window[thread[t].win]) \in Seq(Times)
      BY <2>1, <2>3, HeadTailProperties
    <3>2. DataTypes'
      BY <1>7, <2>1, <2>3, <3>1 DEF Pop, TypeInv, DataTypes
    <3> QED
      BY <1>7, <2>1, <2>3, <3>2, Going DEF Pop, TypeInv, Places, Holding
  <2> QED
    BY <2>2, <2>3
<1>8. ASSUME NEW t \in Threads, Refuse(t) PROVE TypeInv'
  BY <1>8, Leaving DEF Refuse, TypeInv, DataTypes
<1>9. ASSUME NEW t \in Threads, Pass(t) PROVE TypeInv'
  BY <1>9, Going DEF Pass, At, TypeInv, DataTypes, Places, Holding
<1>10. ASSUME NEW t \in Threads, Hit(t) PROVE TypeInv'
  <2>1. thread[t].win \in Windows /\ thread[t].key \in Addresses /\ thread[t].now \in Times
    BY <1>10 DEF Hit, At, TypeInv, ThreadTypes, Locals, Holding
  <2>2. /\ Append(window[thread[t].win], thread[t].now) \in Seq(Times)
        /\ Append(admitted[thread[t].key], thread[t].now) \in Seq(Times)
    BY <2>1, AppendProperties DEF TypeInv, DataTypes
  <2>3. DataTypes'
    BY <1>10, <2>2 DEF Hit, TypeInv, DataTypes
  <2> QED
    BY <1>10, <2>3, Leaving DEF Hit, TypeInv
<1>11. Tick => TypeInv'
  BY DEF Tick, TypeInv, DataTypes, ThreadTypes, Times
<1>12. UNCHANGED vars => TypeInv'
  BY DEF vars, TypeInv, DataTypes, ThreadTypes
<1> QED
  BY <1>1, <1>2, <1>3, <1>4, <1>5, <1>6, <1>7, <1>8, <1>9, <1>10, <1>11, <1>12 DEF Next, Step

\* Every step but that of a thread which finds its window: windows are let go of,
\* none is taken up.
LetGo ==
  /\ \A a \in Addresses : hits'[a] = hits[a] \/ hits'[a] = NoWindow
  /\ \A u \in Threads : \/ thread'[u].win = NoWindow
                        \/ thread'[u].win = thread[u].win /\ thread'[u].key = thread[u].key

\* Such is every step, but for a thread that finds its window.
LEMMA LettingGo ==
  ASSUME TypeInv, [Next]_vars
  PROVE  LetGo \/ \E t \in Threads : FindWindow(t)
<1>1. ASSUME NEW t \in Threads, NEW a \in Addresses, Arrive(t, a) PROVE LetGo
  BY <1>1, Arriving DEF Arrive, LetGo
<1>2. ASSUME NEW t \in Threads, SweepBegins(t) PROVE LetGo
  BY <1>2, Sweeping DEF SweepBegins, LetGo
<1>3. ASSUME NEW t \in Threads, SweepScans(t) PROVE LetGo
  <2>1. CASE Leave(t)
    BY <1>3, <2>1, Leaving DEF SweepScans, LetGo
  <2>2. CASE ~Leave(t)
    BY <1>3, <2>2 DEF SweepScans, LetGo, TypeInv, ThreadTypes, Locals
  <2> QED
    BY <2>1, <2>2
<1>4. ASSUME NEW t \in Threads, SweepDeletes(t) PROVE LetGo
  <2>1. \A a \in Addresses : hits'[a] = hits[a] \/ hits'[a] = NoWindow
    BY <1>4 DEF SweepDeletes, TypeInv, DataTypes
  <2>2. CASE Leave(t)
    BY <2>1, <2>2, Leaving DEF LetGo
  <2>3. CASE Go(t, "window")
    BY <1>4, <2>1, <2>3, Going DEF SweepDeletes, At, LetGo, Places, Holding
  <2>4. CASE ~Leave(t) /\ ~Go(t, "window")
    BY <1>4, <2>1, <2>4 DEF SweepDeletes, LetGo, TypeInv, ThreadTypes, Locals
  <2> QED
    BY <2>2, <2>3, <2>4
<1>6. ASSUME NEW t \in Threads, Trim(t) \/ Pass(t) PROVE LetGo
  BY <1>6, Going DEF Trim, Pass, At, LetGo, Places, Holding
<1>7. ASSUME NEW t \in Threads, Pop(t) PROVE LetGo
  <2>1. CASE Leave(t)
    BY <1>7, <2>1, Leaving DEF Pop, LetGo
  <2>2. CASE ~Leave(t)
    BY <1>7, <2>2, Going DEF Pop, At, LetGo, Places, Holding
  <2> QED
    BY <2>1, <2>2
<1>8. ASSUME NEW t \in Threads, Refuse(t) \/ Hit(t) PROVE LetGo
  BY <1>8, Leaving DEF Refuse, Hit, LetGo
<1>9. Tick \/ UNCHANGED vars => LetGo
  BY DEF Tick, vars, LetGo
<1> QED
  BY <1>1, <1>2, <1>3, <1>4, <1>6, <1>7, <1>8, <1>9 DEF Next, Step

\* Every step keeps windows apart: only a thread that finds its window takes one up,
\* its address's or a free one.
LEMMA OwnersStep == TypeInv /\ OwnersInv /\ [Next]_vars => OwnersInv'
<1> SUFFICES ASSUME TypeInv, OwnersInv, [Next]_vars PROVE OwnersInv'
  OBVIOUS
<1>1. CASE LetGo
  BY <1>1 DEF LetGo, OwnersInv, Known
<1>2. ASSUME NEW t \in Threads, FindWindow(t) PROVE OwnersInv'
  <2> DEFINE k == thread[t].key
             d == Found(t)
  <2>1. /\ k \in Addresses /\ d # NoWindow /\ thread'[t].win = d
        /\ \A u \in Threads : thread'[u].key = thread[u].key /\ (u # t => thread'[u].win = thread[u].win)
        /\ \A a \in Addresses : hits'[a] = IF a = k THEN d ELSE hits[a]
        /\ hits[k] # NoWindow => d = hits[k]
        /\ hits[k] = NoWindow => d \notin InUse
    BY <1>2, Finding DEF Found, TypeInv, DataTypes, ThreadTypes, Locals
  <2> HIDE DEF d, k
  <2>2. \A a \in Addresses : hits[a] = d => a = k
    BY <2>1 DEF OwnersInv, Known, InUse
  <2>3. \A u \in Threads : thread[u].win = d => thread[u].key = k
    BY <2>1 DEF OwnersInv, Known, InUse
  <2>4. \A a, b \in Known' : hits'[a] = hits'[b] => a = b
    BY <2>1, <2>2 DEF OwnersInv, Known
  <2>5. \A u \in Threads, a \in Known' : hits'[a] = thread'[u].win => thread'[u].key = a
    BY <2>1, <2>2, <2>3 DEF OwnersInv, Known, k
  <2>6. \A u, v \in Threads : thread'[u].win # NoWindow /\ thread'[u].win = thread'[v].win => thread'[u].key = thread'[v].key
    BY <2>1, <2>3 DEF OwnersInv, k
  <2> QED
    BY <2>4, <2>5, <2>6 DEF OwnersInv
<1> QED
  BY <1>1, <1>2, LettingGo

\* Every step but an arrival: who is at work was at work, on the same request.
Stays == \A u \in Busy' : u \in Busy /\ thread'[u].key = thread[u].key /\ thread'[u].now = thread[u].now

\* Such is every step, but for an arrival.
LEMMA Staying ==
  ASSUME TypeInv, [Next]_vars
  PROVE  Stays \/ \E t \in Threads, a \in Addresses : Arrive(t, a)
<1>1. ASSUME NEW t \in Threads, SweepBegins(t) PROVE Stays
  BY <1>1, Sweeping DEF SweepBegins, At, Stays, Busy
<1>2. ASSUME NEW t \in Threads, FindWindow(t) PROVE Stays
  BY <1>2, Finding DEF Stays, Busy
<1>3. ASSUME NEW t \in Threads, SweepScans(t) PROVE Stays
  <2>1. CASE Leave(t)
    BY <2>1, Leaving DEF Stays, Busy
  <2>2. CASE ~Leave(t)
    BY <1>3, <2>2 DEF SweepScans, At, Stays, Busy, TypeInv, ThreadTypes, Locals
  <2> QED
    BY <2>1, <2>2
<1>4. ASSUME NEW t \in Threads, SweepDeletes(t) PROVE Stays
  <2>1. CASE Leave(t)
    BY <2>1, Leaving DEF Stays, Busy
  <2>2. CASE Go(t, "window")
    BY <1>4, <2>2, Going DEF SweepDeletes, At, Stays, Busy, Places, Holding
  <2>3. CASE ~Leave(t) /\ ~Go(t, "window")
    BY <1>4, <2>3 DEF SweepDeletes, At, Stays, Busy, TypeInv, ThreadTypes, Locals
  <2> QED
    BY <2>1, <2>2, <2>3
<1>5. ASSUME NEW t \in Threads, Trim(t) \/ Pass(t) PROVE Stays
  BY <1>5, Going DEF Trim, Pass, At, Stays, Busy, Places, Holding
<1>6. ASSUME NEW t \in Threads, Pop(t) PROVE Stays
  <2>1. CASE Leave(t)
    BY <2>1, Leaving DEF Stays, Busy
  <2>2. CASE ~Leave(t)
    BY <1>6, <2>2, Going DEF Pop, At, Stays, Busy, Places, Holding
  <2> QED
    BY <2>1, <2>2
<1>7. ASSUME NEW t \in Threads, Refuse(t) \/ Hit(t) PROVE Stays
  BY <1>7, Leaving DEF Refuse, Hit, Stays, Busy
<1>8. Tick \/ UNCHANGED vars => Stays
  BY DEF Tick, vars, Stays, Busy
<1> QED
  BY <1>1, <1>2, <1>3, <1>4, <1>5, <1>6, <1>7, <1>8 DEF Next, Step

\* Times are numbers.
LEMMA Numbers ==
  ASSUME TypeInv
  PROVE  /\ clock \in Nat /\ lastSweep \in Int /\ overlap \in Int /\ Minute \in Nat \ {0} /\ Limit \in Nat \ {0}
         /\ Never < 0 /\ Never \in Int
         /\ \A t \in Threads : thread[t].now \in Nat /\ thread[t].key \in Addresses
         /\ \A a \in Addresses : asked[a] \in Int
         /\ \A a \in Addresses : Len(admitted[a]) \in Nat /\ \A i \in 1..Len(admitted[a]) : admitted[a][i] \in Nat
         /\ \A d \in Windows : Len(window[d]) \in Nat /\ \A i \in 1..Len(window[d]) : window[d][i] \in Nat
<1> USE RateAssumption
<1>1. /\ clock \in Nat /\ lastSweep \in Int /\ overlap \in Int /\ Minute \in Nat \ {0} /\ Limit \in Nat \ {0}
      /\ Never < 0 /\ Never \in Int
  BY DEF TypeInv, DataTypes, Times, Never
<1>2. \A t \in Threads : thread[t].now \in Nat /\ thread[t].key \in Addresses
  BY DEF TypeInv, ThreadTypes, Locals, Times
<1>3. \A a \in Addresses : asked[a] \in Int
  BY DEF TypeInv, DataTypes, Times, Never
<1>4. \A s \in Seq(Times) : Len(s) \in Nat /\ \A i \in 1..Len(s) : s[i] \in Nat
  BY LenProperties, ElementOfSeq DEF Times
<1> QED
  BY <1>1, <1>2, <1>3, <1>4 DEF TypeInv, DataTypes

\* The log grows by a hit of a request that was admitted, and only so.
LEMMA LogGrows ==
  ASSUME TypeInv, NEW t \in Threads, Hit(t)
  PROVE  /\ \A a \in Addresses : a # thread[t].key => admitted'[a] = admitted[a]
         /\ Len(admitted'[thread[t].key]) = Len(admitted[thread[t].key]) + 1
         /\ admitted'[thread[t].key][Len(admitted[thread[t].key]) + 1] = thread[t].now
         /\ \A i \in 1..Len(admitted[thread[t].key]) : admitted'[thread[t].key][i] = admitted[thread[t].key][i]
         /\ Len(window'[thread[t].win]) = Len(window[thread[t].win]) + 1
         /\ window'[thread[t].win][Len(window[thread[t].win]) + 1] = thread[t].now
         /\ \A i \in 1..Len(window[thread[t].win]) : window'[thread[t].win][i] = window[thread[t].win][i]
         /\ \A d \in Windows : d # thread[t].win => window'[d] = window[d]
         /\ thread[t].win \in Windows /\ thread[t].at = "append"
<1>1. thread[t].win \in Windows /\ thread[t].key \in Addresses /\ thread[t].now \in Times /\ thread[t].at = "append"
  BY DEF Hit, At, TypeInv, ThreadTypes, Locals, Holding
<1> DEFINE w == window[thread[t].win]
           l == admitted[thread[t].key]
<1>2. w \in Seq(Times) /\ l \in Seq(Times)
  BY <1>1 DEF TypeInv, DataTypes
<1>3. window' = [window EXCEPT ![thread[t].win] = Append(w, thread[t].now)]
      /\ admitted' = [admitted EXCEPT ![thread[t].key] = Append(l, thread[t].now)]
  BY DEF Hit
<1>4. window'[thread[t].win] = Append(w, thread[t].now) /\ admitted'[thread[t].key] = Append(l, thread[t].now)
  BY <1>1, <1>3 DEF TypeInv, DataTypes
<1>5. /\ \A a \in Addresses : a # thread[t].key => admitted'[a] = admitted[a]
      /\ \A d \in Windows : d # thread[t].win => window'[d] = window[d]
  BY <1>3 DEF TypeInv, DataTypes
<1>6. /\ Len(Append(w, thread[t].now)) = Len(w) + 1
      /\ Append(w, thread[t].now)[Len(w) + 1] = thread[t].now
      /\ \A i \in 1..Len(w) : Append(w, thread[t].now)[i] = w[i]
  BY <1>1, <1>2, AppendProperties
<1>7. /\ Len(Append(l, thread[t].now)) = Len(l) + 1
      /\ Append(l, thread[t].now)[Len(l) + 1] = thread[t].now
      /\ \A i \in 1..Len(l) : Append(l, thread[t].now)[i] = l[i]
  BY <1>1, <1>2, AppendProperties
<1> QED
  BY <1>1, <1>4, <1>5, <1>6, <1>7, Zenon

\* Every step keeps the times of requests near the clock.
LEMMA ClockStep == TypeInv /\ ClockInv /\ [Next]_vars => ClockInv'
<1> SUFFICES ASSUME TypeInv, ClockInv, [Next]_vars PROVE ClockInv'
  OBVIOUS
<1> USE Numbers
<1>1. ASSUME NEW t \in Threads, NEW a \in Addresses, Arrive(t, a) PROVE ClockInv'
  <2>1. /\ UNCHANGED <<clock, admitted, lastSweep>>
        /\ \A b \in Addresses : asked'[b] = IF b = a THEN clock ELSE asked[b]
        /\ overlap' <= clock
    BY <1>1 DEF Arrive, TypeInv, DataTypes, ClockInv
  <2>2. \A b \in Addresses : asked'[b] \in Int /\ asked[b] <= asked'[b] /\ asked'[b] <= clock
    BY <2>1 DEF ClockInv
  <2>3. \A u \in Busy' : thread'[u].now <= clock /\ clock <= thread'[u].now + 1 /\ thread'[u].now <= asked'[thread'[u].key]
    <3> SUFFICES ASSUME NEW u \in Busy'
                 PROVE  thread'[u].now <= clock /\ clock <= thread'[u].now + 1 /\ thread'[u].now <= asked'[thread'[u].key]
      OBVIOUS
    <3>1. CASE u = t
      BY <1>1, <2>1, <3>1, Arriving
    <3>2. CASE u # t
      <4>1. u \in Busy /\ thread'[u] = thread[u]
        BY <1>1, <3>2, Arriving DEF Busy
      <4>2. u \in Threads
        BY <4>1 DEF Busy
      <4> QED
        BY <2>2, <4>1, <4>2 DEF ClockInv
    <3> QED
      BY <3>1, <3>2
  <2>4. \A b \in Addresses : \A i \in 1..Len(admitted[b]) : admitted[b][i] <= asked'[b]
    BY <2>2 DEF ClockInv
  <2> QED
    BY <2>1, <2>2, <2>3, <2>4 DEF ClockInv
<1>2. ASSUME Stays, UNCHANGED <<clock, asked, overlap>>, lastSweep' <= clock,
             \A a \in Addresses : \A i \in 1..Len(admitted'[a]) : admitted'[a][i] <= asked[a]
      PROVE ClockInv'
  BY <1>2 DEF Stays, ClockInv
<1>3. ASSUME Stays, UNCHANGED <<clock, asked, overlap, lastSweep, admitted>> PROVE ClockInv'
  BY <1>3 DEF Stays, ClockInv
<1>4. ASSUME NEW t \in Threads, Hit(t) PROVE ClockInv'
  <2>1. Stays
    BY <1>4, Leaving DEF Hit, Stays, Busy
  <2>2. thread[t].now <= asked[thread[t].key]
    BY <1>4 DEF Hit, At, Busy, ClockInv
  <2>3. \A a \in Addresses : \A i \in 1..Len(admitted'[a]) : admitted'[a][i] <= asked[a]
    <3> SUFFICES ASSUME NEW a \in Addresses, NEW i \in 1..Len(admitted'[a]) PROVE admitted'[a][i] <= asked[a]
      OBVIOUS
    <3>1. CASE a = thread[t].key
      <4>1. Len(admitted'[a]) = Len(admitted[a]) + 1 /\ Len(admitted[a]) \in Nat
        BY <1>4, <3>1, LogGrows
      <4>2. CASE i = Len(admitted[a]) + 1
        BY <1>4, <2>2, <3>1, <4>2, LogGrows
      <4>3. CASE i \in 1..Len(admitted[a])
        BY <1>4, <3>1, <4>3, LogGrows DEF ClockInv
      <4> QED
        BY <4>1, <4>2, <4>3
    <3>2. CASE a # thread[t].key
      BY <1>4, <3>2, LogGrows DEF ClockInv
    <3> QED
      BY <3>1, <3>2
  <2> QED
    BY <1>2, <1>4, <2>1, <2>3 DEF Hit, ClockInv
<1>5. ASSUME NEW t \in Threads, SweepBegins(t) PROVE ClockInv'
  <2>1. Stays
    BY <1>5, Sweeping DEF Stays, Busy
  <2>2. lastSweep' <= clock
    BY <1>5, Sweeping DEF ClockInv, Busy
  <2> QED
    BY <1>2, <1>5, <2>1, <2>2 DEF SweepBegins, ClockInv
<1>6. Tick => ClockInv'
  <2> SUFFICES ASSUME Tick PROVE ClockInv'
    OBVIOUS
  <2>1. clock' = clock + 1 /\ Busy' = Busy /\ \A u \in Busy : thread[u].now = clock
    BY DEF Tick, Busy
  <2>2. UNCHANGED <<thread, asked, admitted, lastSweep, overlap>>
    BY DEF Tick
  <2>3. \A u \in Busy : u \in Threads
    BY DEF Busy
  <2>4. \A u \in Busy : thread[u].now <= clock + 1 /\ clock + 1 <= thread[u].now + 1
    BY <2>1, <2>3
  <2>5. \A a \in Addresses : asked[a] <= clock + 1
    BY DEF ClockInv
  <2>6. lastSweep <= clock + 1 /\ overlap <= clock + 1
    BY DEF ClockInv
  <2> QED
    BY <2>1, <2>2, <2>4, <2>5, <2>6 DEF ClockInv
<1>7. UNCHANGED vars => ClockInv'
  BY DEF vars, ClockInv, Busy
<1>8. ASSUME NEW t \in Threads,
             SweepScans(t) \/ SweepDeletes(t) \/ FindWindow(t) \/ Trim(t) \/ Pop(t) \/ Refuse(t) \/ Pass(t)
      PROVE UNCHANGED <<clock, asked, overlap, lastSweep, admitted>>
  BY <1>8 DEF SweepScans, SweepDeletes, FindWindow, Trim, Pop, Refuse, Pass
<1> QED
  BY <1>1, <1>3, <1>4, <1>5, <1>6, <1>7, <1>8, Staying DEF Next, Step

-----------------------------------------------------------------------------
(* What is in a window.                                                    *)

\* The first hit of a window leaves.
LEMMA CopyTail ==
  ASSUME NEW S, NEW w \in Seq(S), NEW log \in Seq(S), w # <<>>, Copied(w, log)
  PROVE  Copied(Tail(w), log)
<1> DEFINE n == Len(w) - 1
<1>1. Len(w) \in Nat \ {0} /\ Len(Tail(w)) = n /\ \A i \in 1..n : Tail(w)[i] = w[i + 1]
  BY HeadTailProperties, EmptySeq, LenProperties
<1>2. PICK g \in [1..Len(w) -> 1..Len(log)] : IsCopy(g, w, log)
  BY DEF Copied
<1> DEFINE h == [i \in 1..n |-> g[i + 1]]
<1>3. \A i \in 1..n : i + 1 \in 1..Len(w) /\ i \in Int
  BY <1>1
<1>4. h \in [1..n -> 1..Len(log)]
  BY <1>3
<1>5. \A i, j \in 1..n : h[i] = h[j] => i = j
  <2> SUFFICES ASSUME NEW i \in 1..n, NEW j \in 1..n, g[i + 1] = g[j + 1] PROVE i = j
    OBVIOUS
  <2>1. i + 1 = j + 1
    BY <1>2, <1>3 DEF IsCopy
  <2> QED
    BY <1>3, <2>1
<1>6. \A i \in 1..n : Tail(w)[i] = log[h[i]]
  BY <1>1, <1>2, <1>3 DEF IsCopy
<1> HIDE DEF h, n
<1> QED
  BY <1>1, <1>4, <1>5, <1>6 DEF Copied, IsCopy

\* A hit comes into the log.
LEMMA CopyLonger ==
  ASSUME NEW S, NEW w \in Seq(S), NEW log \in Seq(S), NEW e \in S, Copied(w, log)
  PROVE  Copied(w, Append(log, e))
<1>1. /\ Len(log) \in Nat /\ Len(Append(log, e)) = Len(log) + 1
      /\ \A i \in 1..Len(log) : Append(log, e)[i] = log[i]
  BY AppendProperties, LenProperties
<1>2. PICK g \in [1..Len(w) -> 1..Len(log)] : IsCopy(g, w, log)
  BY DEF Copied
<1>3. g \in [1..Len(w) -> 1..Len(Append(log, e))]
  BY <1>1
<1>4. IsCopy(g, w, Append(log, e))
  BY <1>1, <1>2 DEF IsCopy
<1> QED
  BY <1>3, <1>4 DEF Copied

\* A hit comes into the log and the window.
LEMMA CopyBoth ==
  ASSUME NEW S, NEW w \in Seq(S), NEW log \in Seq(S), NEW e \in S, Copied(w, log)
  PROVE  Copied(Append(w, e), Append(log, e))
<1> DEFINE n == Len(w)
           m == Len(log)
           v == Append(w, e)
           l == Append(log, e)
<1>1. n \in Nat /\ m \in Nat
  BY LenProperties
<1>2. Len(v) = n + 1 /\ v[n + 1] = e /\ \A i \in 1..n : v[i] = w[i]
  BY AppendProperties
<1>3. Len(l) = m + 1 /\ l[m + 1] = e /\ \A i \in 1..m : l[i] = log[i]
  BY AppendProperties
<1>4. PICK g \in [1..n -> 1..m] : IsCopy(g, w, log)
  BY DEF Copied
<1> DEFINE h == [i \in 1..(n + 1) |-> IF i = n + 1 THEN m + 1 ELSE g[i]]
<1>5. \A i, j \in 1..n : g[i] = g[j] => i = j
  BY <1>4 DEF IsCopy
<1>6. \A i \in 1..n : w[i] = log[g[i]]
  BY <1>4 DEF IsCopy
<1> HIDE DEF n, m, v, l
<1>7. \A i \in 1..(n + 1) : i # n + 1 => i \in 1..n /\ g[i] \in 1..m
  BY <1>1
<1>8. h \in [1..(n + 1) -> 1..(m + 1)]
  BY <1>1, <1>7
<1>9. \A i, j \in 1..(n + 1) : h[i] = h[j] => i = j
  <2> SUFFICES ASSUME NEW i \in 1..(n + 1), NEW j \in 1..(n + 1), h[i] = h[j] PROVE i = j
    OBVIOUS
  <2>1. m + 1 \notin 1..m
    BY <1>1
  <2> QED
    BY <1>5, <1>7, <2>1
<1>10. \A i \in 1..(n + 1) : v[i] = l[h[i]]
  BY <1>2, <1>3, <1>6, <1>7
<1> HIDE DEF h
<1>11. Len(v) = n + 1 /\ Len(l) = m + 1
  BY <1>2, <1>3
<1>12. IsCopy(h, v, l)
  BY <1>9, <1>10, <1>11 DEF IsCopy
<1>13. h \in [1..Len(v) -> 1..Len(l)]
  BY <1>8, <1>11
<1>14. Copied(v, l)
  BY <1>12, <1>13 DEF Copied
<1> QED
  BY <1>14 DEF v, l

\* An empty window is a copy of any log.
LEMMA CopyEmpty == ASSUME NEW log PROVE Copied(<<>>, log)
<1> DEFINE g == [i \in 1..0 |-> 0]
<1>1. Len(<<>>) = 0 /\ g \in [1..Len(<<>>) -> 1..Len(log)]
  BY EmptySeq
<1>2. IsCopy(g, <<>>, log)
  BY <1>1 DEF IsCopy
<1> QED
  BY <1>1, <1>2 DEF Copied

\* Windows stay, or are let go of.
LEMMA CopiesStay ==
  ASSUME CopyInv, LetGo, UNCHANGED <<window, admitted>>
  PROVE  CopyInv'
  BY DEF CopyInv, LetGo, Known

\* Losing its first hit, a window still holds hits of the log.
LEMMA PopCopies ==
  ASSUME TypeInv, CopyInv, NEW t \in Threads, Pop(t)
  PROVE  CopyInv'
<1> DEFINE d == thread[t].win
<1>1. d \in Windows /\ UNCHANGED <<hits, admitted>> /\ thread[t].at = "pop"
  BY DEF Pop, At, TypeInv, ThreadTypes, Locals, Holding
<1>2. \A u \in Threads : thread'[u].win = NoWindow \/ (thread'[u].win = thread[u].win /\ thread'[u].key = thread[u].key)
  <2>1. CASE Leave(t)
    BY <2>1, Leaving
  <2>2. CASE ~Leave(t)
    BY <1>1, <2>2, Going DEF Pop, Places, Holding
  <2> QED
    BY <2>1, <2>2
<1>3. CASE window' = window
  BY <1>1, <1>2, <1>3, CopiesStay DEF LetGo
<1>4. CASE window[d] # <<>> /\ window' = [window EXCEPT ![d] = Tail(window[d])]
  <2>1. ASSUME NEW x \in Windows, NEW a \in Addresses, Copied(window[x], admitted[a]) PROVE Copied(window'[x], admitted[a])
    <3>1. CASE x = d
      BY <1>1, <1>4, <2>1, <3>1, CopyTail DEF TypeInv, DataTypes
    <3>2. CASE x # d
      BY <1>4, <2>1, <3>2 DEF TypeInv, DataTypes
    <3> QED
      BY <3>1, <3>2
  <2>2. ASSUME NEW a \in Known PROVE Copied(window'[hits[a]], admitted[a])
    <3>1. a \in Addresses /\ hits[a] \in Windows
      BY DEF Known, TypeInv, DataTypes
    <3> QED
      BY <2>1, <3>1 DEF CopyInv
  <2>3. ASSUME NEW u \in Threads, thread'[u].win # NoWindow PROVE Copied(window'[thread'[u].win], admitted[thread'[u].key])
    <3>1. thread'[u].win = thread[u].win /\ thread'[u].key = thread[u].key /\ thread[u].win \in Windows /\ thread[u].key \in Addresses
      BY <1>2, <2>3 DEF TypeInv, ThreadTypes, Locals
    <3> QED
      BY <2>1, <2>3, <3>1 DEF CopyInv
  <2> QED
    BY <1>1, <2>2, <2>3 DEF CopyInv, Known
<1> QED
  BY <1>3, <1>4 DEF Pop

\* A hit goes into its address's log and the window of that address.
LEMMA HitCopies ==
  ASSUME TypeInv, OwnersInv, CopyInv, NEW t \in Threads, Hit(t)
  PROVE  CopyInv'
<1> DEFINE d == thread[t].win
           k == thread[t].key
           now == thread[t].now
<1>1. /\ d \in Windows /\ d # NoWindow /\ k \in Addresses /\ now \in Times /\ hits' = hits
      /\ window' = [window EXCEPT ![d] = Append(window[d], now)]
      /\ admitted' = [admitted EXCEPT ![k] = Append(admitted[k], now)]
  BY DEF Hit, At, TypeInv, ThreadTypes, Locals, Holding
<1>2. \A u \in Threads : thread'[u].win = NoWindow \/ (thread'[u].win = thread[u].win /\ thread'[u].key = thread[u].key)
  BY Leaving DEF Hit
<1> HIDE DEF d, k, now
<1>3. ASSUME NEW x \in Windows, NEW a \in Addresses, Copied(window[x], admitted[a]), x = d => a = k
      PROVE  Copied(window'[x], admitted'[a])
  <2>1. window[x] \in Seq(Times) /\ admitted[a] \in Seq(Times)
    BY DEF TypeInv, DataTypes
  <2>2. window'[x] = (IF x = d THEN Append(window[x], now) ELSE window[x])
        /\ admitted'[a] = IF a = k THEN Append(admitted[a], now) ELSE admitted[a]
    BY <1>1 DEF TypeInv, DataTypes
  <2> QED
    BY <1>1, <1>3, <2>1, <2>2, CopyLonger, CopyBoth
<1>4. ASSUME NEW a \in Known PROVE Copied(window'[hits[a]], admitted'[a])
  <2>1. a \in Addresses /\ hits[a] \in Windows /\ (hits[a] = d => a = k)
    BY DEF Known, TypeInv, DataTypes, OwnersInv, d, k
  <2> QED
    BY <1>3, <2>1 DEF CopyInv
<1>5. ASSUME NEW u \in Threads, thread'[u].win # NoWindow PROVE Copied(window'[thread'[u].win], admitted'[thread'[u].key])
  <2>1. thread'[u].win = thread[u].win /\ thread'[u].key = thread[u].key /\ thread[u].win \in Windows /\ thread[u].key \in Addresses
    BY <1>2, <1>5 DEF TypeInv, ThreadTypes, Locals
  <2>2. thread[u].win = d => thread[u].key = k
    BY <1>1 DEF OwnersInv, d, k
  <2> QED
    BY <1>3, <1>5, <2>1, <2>2 DEF CopyInv
<1> QED
  BY <1>1, <1>4, <1>5 DEF CopyInv, Known

\* A thread finds a copy of its address's log, or makes an empty one.
LEMMA FindCopies ==
  ASSUME TypeInv, CopyInv, NEW t \in Threads, FindWindow(t)
  PROVE  CopyInv'
<1> DEFINE d == Found(t)
           k == thread[t].key
<1>1. /\ k \in Addresses /\ d \in Windows /\ d # NoWindow /\ thread'[t].win = d /\ admitted' = admitted
      /\ \A u \in Threads : thread'[u].key = thread[u].key /\ (u # t => thread'[u].win = thread[u].win)
      /\ \A a \in Addresses : hits'[a] = IF a = k THEN d ELSE hits[a]
      /\ hits[k] # NoWindow => d = hits[k] /\ window' = window
      /\ hits[k] = NoWindow => d \notin InUse /\ window' = [window EXCEPT ![d] = <<>>]
  <2>1. k \in Addresses /\ hits \in [Addresses -> Windows \cup {NoWindow}] /\ admitted' = admitted
    BY DEF FindWindow, TypeInv, DataTypes, ThreadTypes, Locals
  <2>2. hits[k] # NoWindow => d = hits[k]
    BY DEF Found
  <2> HIDE DEF d
  <2>3. /\ hits' = [hits EXCEPT ![k] = d] /\ d \in Windows /\ d # NoWindow /\ thread'[t].win = d
        /\ \A u \in Threads : thread'[u].key = thread[u].key /\ (u # t => thread'[u] = thread[u])
        /\ hits[k] # NoWindow => window' = window
        /\ hits[k] = NoWindow => d \notin InUse /\ window' = [window EXCEPT ![d] = <<>>]
    BY Finding DEF d
  <2> QED
    BY <2>1, <2>2, <2>3
<1> HIDE DEF d
<1>2. Copied(window'[d], admitted[k])
  <2>1. CASE hits[k] # NoWindow
    BY <1>1, <2>1 DEF CopyInv, Known
  <2>2. CASE hits[k] = NoWindow
    BY <1>1, <2>2, CopyEmpty DEF TypeInv, DataTypes
  <2> QED
    BY <2>1, <2>2
<1>3. ASSUME NEW x \in InUse, x \in Windows PROVE window'[x] = window[x]
  <2>1. CASE hits[k] # NoWindow
    BY <1>1, <2>1
  <2>2. CASE hits[k] = NoWindow
    <3>1. x # d /\ window' = [window EXCEPT ![d] = <<>>]
      BY <1>1, <2>2
    <3> QED
      BY <3>1 DEF TypeInv, DataTypes
  <2> QED
    BY <2>1, <2>2
<1>4. ASSUME NEW a \in Known' PROVE Copied(window'[hits'[a]], admitted[a])
  <2>1. CASE a = k
    BY <1>1, <1>2, <2>1
  <2>2. CASE a # k
    <3>1. a \in Addresses /\ hits'[a] = hits[a] /\ hits[a] \in InUse /\ hits[a] \in Windows /\ a \in Known
      BY <1>1, <2>2 DEF Known, InUse, TypeInv, DataTypes
    <3> QED
      BY <1>3, <3>1 DEF CopyInv
  <2> QED
    BY <2>1, <2>2
<1>5. ASSUME NEW u \in Threads, thread'[u].win # NoWindow PROVE Copied(window'[thread'[u].win], admitted[thread'[u].key])
  <2>1. CASE u = t
    BY <1>1, <1>2, <2>1
  <2>2. CASE u # t
    <3>1. thread'[u].win = thread[u].win /\ thread[u].win \in InUse /\ thread[u].win \in Windows /\ thread'[u].key = thread[u].key
      BY <1>1, <1>5, <2>2 DEF InUse, TypeInv, ThreadTypes, Locals
    <3> QED
      BY <1>3, <1>5, <3>1 DEF CopyInv
  <2> QED
    BY <2>1, <2>2
<1> QED
  BY <1>1, <1>4, <1>5 DEF CopyInv

\* Every step keeps each window within the log of its address.
LEMMA CopyStep == TypeInv /\ OwnersInv /\ CopyInv /\ [Next]_vars => CopyInv'
<1> SUFFICES ASSUME TypeInv, OwnersInv, CopyInv, [Next]_vars PROVE CopyInv'
  OBVIOUS
<1>1. \/ UNCHANGED <<window, admitted>>
      \/ \E t \in Threads : FindWindow(t) \/ Pop(t) \/ Hit(t)
  BY DEF Next, Step, Arrive, SweepBegins, SweepScans, SweepDeletes, Trim, Refuse, Pass, Tick, vars
<1> QED
  BY <1>1, LettingGo, CopiesStay, PopCopies, HitCopies, FindCopies

-----------------------------------------------------------------------------
(* In what order a window is.                                              *)

\* When a window loses its first hit, the others move up.
LEMMA Shift ==
  ASSUME TypeInv, NEW d \in Windows, window[d] # <<>>
  PROVE  /\ Len(Tail(window[d])) = Len(window[d]) - 1
         /\ \A i \in 1..Len(Tail(window[d])) : i + 1 \in 1..Len(window[d]) /\ Tail(window[d])[i] = window[d][i + 1]
         /\ 1 \in 1..Len(window[d]) /\ Head(window[d]) = window[d][1]
<1>1. window[d] \in Seq(Times)
  BY DEF TypeInv, DataTypes
<1>2. Len(window[d]) \in Nat \ {0}
  BY <1>1, EmptySeq, LenProperties
<1>3. /\ Len(Tail(window[d])) = Len(window[d]) - 1
      /\ \A i \in 1..Len(Tail(window[d])) : Tail(window[d])[i] = window[d][i + 1]
  BY <1>1, HeadTailProperties
<1>4. Head(window[d]) = window[d][1]
  BY <1>1
<1> QED
  BY <1>2, <1>3, <1>4

\* What a step does to a window: nothing, or it drops the first hit, or it adds
\* one, or it makes an empty one.
Drops(d) == window[d] # <<>> /\ window'[d] = Tail(window[d])
Adds(d, e) ==
  /\ Len(window'[d]) = Len(window[d]) + 1
  /\ \A i \in 1..Len(window[d]) : window'[d][i] = window[d][i]
  /\ window'[d][Len(window[d]) + 1] = e

\* There is nothing else.
LEMMA WindowMoves ==
  ASSUME TypeInv, [Next]_vars, NEW d \in Windows
  PROVE  \/ window'[d] = window[d] \/ window'[d] = <<>> \/ Drops(d)
         \/ \E t \in Busy : Adds(d, thread[t].now) /\ Hit(t) /\ thread[t].win = d
<1>1. ASSUME NEW t \in Threads, Hit(t) PROVE window'[d] = window[d] \/ (Adds(d, thread[t].now) /\ t \in Busy /\ thread[t].win = d)
  BY <1>1, LogGrows DEF Adds, Busy
<1>2. ASSUME NEW t \in Threads, Pop(t) PROVE window'[d] = window[d] \/ Drops(d)
  BY <1>2 DEF Pop, Drops, TypeInv, DataTypes
<1>3. ASSUME NEW t \in Threads, FindWindow(t) PROVE window'[d] = window[d] \/ window'[d] = <<>>
  BY <1>3, Finding DEF TypeInv, DataTypes
<1>4. window' = window \/ \E t \in Threads : FindWindow(t) \/ Pop(t) \/ Hit(t)
  BY DEF Next, Step, Arrive, SweepBegins, SweepScans, SweepDeletes, Trim, Refuse, Pass, Tick, vars
<1> QED
  BY <1>1, <1>2, <1>3, <1>4

\* A thread comes to check the length of its window from trimming it.
LEMMA Checking ==
  ASSUME TypeInv, [Next]_vars, NEW t \in Threads, thread'[t].at = "check"
  PROVE  /\ thread'[t].win = thread[t].win /\ thread'[t].now = thread[t].now /\ t \in Busy /\ thread[t].win \in Windows
         /\ thread[t].at # "check" =>
              Trim(t) /\ ~(window[thread[t].win] # <<>> /\ Old(Head(window[thread[t].win]), thread[t].now))
<1> DEFINE Same == thread'[t] = thread[t]
           Trims == /\ Trim(t) /\ thread'[t].win = thread[t].win /\ thread'[t].now = thread[t].now /\ thread[t].at = "trim"
                    /\ ~(window[thread[t].win] # <<>> /\ Old(Head(window[thread[t].win]), thread[t].now))
<1>1. ASSUME NEW u \in Threads, NEW a \in Addresses, Arrive(u, a) PROVE Same
  BY <1>1, Arriving
<1>2. ASSUME NEW u \in Threads, SweepBegins(u) PROVE Same
  BY <1>2, Sweeping
<1>3. ASSUME NEW u \in Threads, SweepScans(u) PROVE Same
  <2>1. CASE Leave(u)
    BY <2>1, Leaving
  <2>2. CASE ~Leave(u)
    BY <1>3, <2>2 DEF SweepScans, TypeInv, ThreadTypes, Locals
  <2> QED
    BY <2>1, <2>2
<1>4. ASSUME NEW u \in Threads, SweepDeletes(u) PROVE Same
  <2>1. CASE Leave(u)
    BY <2>1, Leaving
  <2>2. CASE ~Leave(u)
    BY <1>4, <2>2 DEF SweepDeletes, At, Go, TypeInv, ThreadTypes, Locals
  <2> QED
    BY <2>1, <2>2
<1>5. ASSUME NEW u \in Threads, FindWindow(u) PROVE Same
  BY <1>5, Finding
<1>6. ASSUME NEW u \in Threads, Trim(u) PROVE Same \/ Trims
  <2>1. CASE u = t
    BY <1>6, <2>1 DEF Trim, At, Go, TypeInv, ThreadTypes, Locals
  <2>2. CASE u # t
    BY <1>6, <2>2 DEF Trim, Go, TypeInv, ThreadTypes, Locals
  <2> QED
    BY <2>1, <2>2
<1>7. ASSUME NEW u \in Threads, Pop(u) PROVE Same
  <2>1. CASE Leave(u)
    BY <2>1, Leaving
  <2>2. CASE ~Leave(u)
    BY <1>7, <2>2 DEF Pop, Go, TypeInv, ThreadTypes, Locals
  <2> QED
    BY <2>1, <2>2
<1>8. ASSUME NEW u \in Threads, Refuse(u) \/ Hit(u) PROVE Same
  BY <1>8, Leaving DEF Refuse, Hit
<1>9. ASSUME NEW u \in Threads, Pass(u) PROVE Same
  BY <1>9 DEF Pass, Go, TypeInv, ThreadTypes, Locals
<1>10. Tick \/ UNCHANGED vars => Same
  BY DEF Tick, vars
<1>11. Same \/ Trims
  BY <1>1, <1>2, <1>3, <1>4, <1>5, <1>6, <1>7, <1>8, <1>9, <1>10 DEF Next, Step
<1> QED
  BY <1>11 DEF Busy, TypeInv, ThreadTypes, Locals, Holding

\* Every step keeps the order of windows, and what trimming is for.
LEMMA OrderStep == TypeInv /\ ClockInv /\ OrderInv /\ [Next]_vars => OrderInv'
<1> SUFFICES ASSUME TypeInv, ClockInv, OrderInv, [Next]_vars PROVE OrderInv'
  OBVIOUS
<1> USE Numbers
<1>1. TypeInv'
  BY TypeStep
<1>2. clock' \in Nat /\ clock <= clock'
  <2>1. clock' = clock \/ clock' = clock + 1
    BY DEF Next, Step, Arrive, SweepBegins, SweepScans, SweepDeletes, FindWindow, Trim, Pop, Refuse, Pass, Hit, Tick, vars
  <2> QED
    BY <2>1
<1>3. ASSUME NEW d \in Windows
      PROVE  /\ \A i \in 1..Len(window'[d]) : window'[d][i] <= clock
             /\ \A i, j \in 1..Len(window'[d]) : i < j => window'[d][i] <= window'[d][j] + 1
  <2>1. /\ \A i \in 1..Len(window[d]) : window[d][i] <= clock
        /\ \A i, j \in 1..Len(window[d]) : i < j => window[d][i] <= window[d][j] + 1
    BY DEF OrderInv
  <2>2. CASE window'[d] = window[d]
    BY <2>1, <2>2
  <2>3. CASE window'[d] = <<>>
    BY <2>3, EmptySeq
  <2>4. CASE Drops(d)
    <3>1. /\ \A i \in 1..Len(window'[d]) : i \in Int /\ i + 1 \in 1..Len(window[d]) /\ window'[d][i] = window[d][i + 1]
      BY <2>4, Shift DEF Drops
    <3>2. \A i, j \in 1..Len(window'[d]) : i < j => i + 1 < j + 1
      BY <3>1
    <3> QED
      BY <2>1, <3>1, <3>2
  <2>5. ASSUME NEW t \in Busy, Adds(d, thread[t].now)
        PROVE  /\ \A i \in 1..Len(window'[d]) : window'[d][i] <= clock
               /\ \A i, j \in 1..Len(window'[d]) : i < j => window'[d][i] <= window'[d][j] + 1
    <3>1. thread[t].now <= clock /\ clock <= thread[t].now + 1 /\ thread[t].now \in Nat
      BY DEF ClockInv, Busy
    <3>2. Len(window[d]) \in Nat
      BY Numbers
    <3>3. \A i \in 1..Len(window'[d]) :
             \/ i \in 1..Len(window[d]) /\ window'[d][i] = window[d][i] /\ window[d][i] \in Nat
             \/ i = Len(window[d]) + 1 /\ window'[d][i] = thread[t].now
      <4>1. Len(window'[d]) = Len(window[d]) + 1
        BY <2>5 DEF Adds
      <4>2. \A i \in 1..Len(window'[d]) : i \in 1..Len(window[d]) \/ i = Len(window[d]) + 1
        BY <3>2, <4>1
      <4>3. \A i \in 1..Len(window[d]) : window'[d][i] = window[d][i] /\ window[d][i] \in Nat
        BY <2>5, Numbers DEF Adds
      <4>4. window'[d][Len(window[d]) + 1] = thread[t].now
        BY <2>5 DEF Adds
      <4> QED
        BY <4>2, <4>3, <4>4
    <3>4. \A i \in 1..Len(window'[d]) : window'[d][i] <= clock
      BY <2>1, <3>1, <3>3
    <3>5. ASSUME NEW i \in 1..Len(window'[d]), NEW j \in 1..Len(window'[d]), i < j PROVE window'[d][i] <= window'[d][j] + 1
      <4> DEFINE n == Len(window[d])
                 now == thread[t].now
      <4>0. n \in Nat /\ clock \in Nat /\ now \in Nat /\ clock <= now + 1
        BY <3>1, <3>2, Numbers
      <4>1. i \in 1..n
        <5>1. i \in 1..n \/ i = n + 1
          BY <3>3
        <5>2. j \in 1..n \/ j = n + 1
          BY <3>3
        <5> HIDE DEF n
        <5> QED
          BY <3>5, <4>0, <5>1, <5>2
      <4>2. window'[d][i] = window[d][i] /\ window[d][i] \in Nat
        BY <2>5, <4>1, Numbers DEF Adds
      <4>3. CASE j \in 1..n
        <5>1. window'[d][j] = window[d][j]
          BY <2>5, <4>3 DEF Adds
        <5> QED
          BY <2>1, <3>5, <4>1, <4>2, <4>3, <5>1
      <4>4. CASE j = n + 1
        <5>1. window'[d][j] = now /\ window[d][i] <= clock
          BY <2>1, <2>5, <4>1, <4>4 DEF Adds
        <5> DEFINE x == window[d][i]
        <5>2. x \in Nat /\ x <= clock
          BY <4>2, <5>1
        <5>3. x <= now + 1
          <6> HIDE DEF x, now
          <6> QED
            BY <4>0, <5>2
        <5> QED
          BY <4>2, <5>1, <5>3
      <4> QED
        BY <3>3, <4>3, <4>4
    <3> QED
      BY <3>4, <3>5
  <2> QED
    BY <2>2, <2>3, <2>4, <2>5, WindowMoves
<1>4. \A d \in Windows : \A i \in 1..Len(window'[d]) : window'[d][i] <= clock'
  <2>1. ASSUME NEW d \in Windows, NEW i \in 1..Len(window'[d]) PROVE window'[d][i] \in Nat
    <3>1. window'[d] \in Seq(Times)
      BY <1>1 DEF TypeInv, DataTypes
    <3>2. Len(window'[d]) \in Nat
      BY <3>1, LenProperties
    <3>3. window'[d][i] \in Times
      BY <3>1, ElementOfSeq
    <3> QED
      BY <3>3, RateAssumption DEF Times
  <2> QED
    BY <1>2, <1>3, <2>1
<1>5. ASSUME NEW t \in Threads, thread'[t].at = "check", NEW i \in 1..Len(window'[thread'[t].win])
      PROVE  thread'[t].now - Minute - 1 <= window'[thread'[t].win][i]
  <2> DEFINE d == thread[t].win
  <2>1. /\ thread'[t].win = d /\ thread'[t].now = thread[t].now /\ t \in Busy /\ d \in Windows
        /\ thread[t].at # "check" => Trim(t) /\ ~(window[d] # <<>> /\ Old(Head(window[d]), thread[t].now))
    BY <1>5, Checking
  <2>2. thread[t].now \in Nat /\ thread[t].now <= clock
    BY <2>1 DEF ClockInv
  <2>3. CASE thread[t].at = "check"
    <3>1. \A j \in 1..Len(window[d]) : thread[t].now - Minute - 1 <= window[d][j]
      BY <2>3 DEF OrderInv
    <3>2. CASE window'[d] = window[d]
      BY <1>5, <2>1, <3>1, <3>2
    <3>3. CASE window'[d] = <<>>
      BY <1>5, <2>1, <3>3, EmptySeq
    <3>4. CASE Drops(d)
      BY <1>5, <2>1, <3>1, <3>4, Shift DEF Drops
    <3>5. ASSUME NEW u \in Busy, Adds(d, thread[u].now) PROVE thread'[t].now - Minute - 1 <= window'[d][i]
      <4>1. clock <= thread[u].now + 1 /\ thread[u].now \in Nat
        BY DEF ClockInv, Busy
      <4>2. thread[t].now - Minute - 1 <= thread[u].now
        BY <2>2, <4>1
      <4>3. Len(window[d]) \in Nat
        BY <2>1
      <4>4. i \in 1..Len(window[d]) \/ i = Len(window[d]) + 1
        <5> DEFINE n == Len(window[d])
        <5>1. n \in Nat /\ i \in 1..(n + 1)
          BY <1>5, <2>1, <3>5, <4>3 DEF Adds
        <5> HIDE DEF n
        <5>2. i \in 1..n \/ i = n + 1
          BY <5>1
        <5> QED
          BY <5>2 DEF n
      <4>5. CASE i \in 1..Len(window[d])
        <5>1. window'[d][i] = window[d][i]
          BY <3>5, <4>5 DEF Adds
        <5> QED
          BY <2>1, <3>1, <4>5, <5>1
      <4>6. CASE i = Len(window[d]) + 1
        <5>1. window'[d][i] = thread[u].now
          BY <3>5, <4>6 DEF Adds
        <5> QED
          BY <2>1, <4>2, <5>1
      <4> QED
        BY <4>4, <4>5, <4>6
    <3> QED
      BY <2>1, <3>2, <3>3, <3>4, <3>5, WindowMoves
  <2>4. CASE thread[t].at # "check"
    <3>1. window' = window
      BY <2>1, <2>4 DEF Trim
    <3>2. window[d] # <<>>
      BY <1>5, <2>1, <3>1, EmptySeq
    <3>3. 1 \in 1..Len(window[d]) /\ Head(window[d]) = window[d][1]
      BY <2>1, <3>2, Shift
    <3>4. thread[t].now - Minute <= window[d][1]
      BY <2>1, <2>2, <2>4, <3>2, <3>3 DEF Old
    <3>5. i \in 1..Len(window[d]) /\ (i = 1 \/ 1 < i)
      BY <1>5, <2>1, <3>1
    <3>6. window[d][1] <= window[d][i] + 1
      BY <2>1, <3>3, <3>5 DEF OrderInv
    <3>7. window[d][1] \in Nat /\ window[d][i] \in Nat /\ Minute \in Nat
      BY <2>1, <3>3, <3>5, Numbers
    <3> DEFINE x == window[d][1]
               y == window[d][i]
               now == thread[t].now
    <3>8. now \in Nat /\ x \in Nat /\ y \in Nat /\ now - Minute <= x /\ x <= y + 1
      BY <2>2, <3>4, <3>6, <3>7
    <3>9. now - Minute - 1 <= y
      <4> HIDE DEF x, y, now
      <4> QED
        BY <3>7, <3>8
    <3> QED
      BY <2>1, <3>1, <3>9
  <2> QED
    BY <2>3, <2>4
<1> QED
  BY <1>3, <1>4, <1>5 DEF OrderInv

-----------------------------------------------------------------------------
(* What sweeps leave behind.                                               *)

Sweepers == {"scan", "delete"}
SweepersStay ==
  \A u \in Threads : thread[u].at \in Sweepers \/ thread'[u].at \in Sweepers => thread'[u] = thread[u]

\* A thread beyond the sweep is no sweeper.
LEMMA SweepersGo ==
  ASSUME TypeInv, NEW t \in Threads, Trim(t) \/ Pop(t) \/ Refuse(t) \/ Pass(t) \/ Hit(t)
  PROVE  SweepersStay /\ UNCHANGED <<hits, lastSweep, asked, broken>>
<1>1. UNCHANGED <<hits, lastSweep, asked, broken>>
  BY DEF Trim, Pop, Refuse, Pass, Hit
<1>2. CASE Leave(t)
  BY <1>2, Leaving DEF Trim, Pop, Refuse, Pass, Hit, At, SweepersStay, Sweepers
<1>3. CASE ~Leave(t)
  BY <1>3 DEF Trim, Pop, Refuse, Pass, Hit, At, Go, SweepersStay, Sweepers, TypeInv, ThreadTypes, Locals
<1> QED
  BY <1>1, <1>2, <1>3

\* The last hit of the window of an address was not made before a request of it.
LEMMA LastAsked ==
  ASSUME TypeInv, ClockInv, CopyInv, NEW a \in Known, window[hits[a]] # <<>>
  PROVE  Last(window[hits[a]]) \in Nat /\ Last(window[hits[a]]) <= asked[a]
<1> DEFINE d == hits[a]
           n == Len(window[d])
<1>1. a \in Addresses /\ d \in Windows
  BY DEF Known, TypeInv, DataTypes
<1>2. window[d] \in Seq(Times) /\ n \in Nat \ {0}
  BY <1>1, EmptySeq, LenProperties DEF TypeInv, DataTypes
<1>3. PICK g \in [1..n -> 1..Len(admitted[a])] : IsCopy(g, window[d], admitted[a])
  BY DEF CopyInv, Copied
<1>4. n \in 1..n
  BY <1>2
<1>5. g[n] \in 1..Len(admitted[a]) /\ window[d][n] = admitted[a][g[n]]
  BY <1>3, <1>4 DEF IsCopy
<1>6. window[d][n] \in Nat
  BY <1>1, <1>4, Numbers
<1> QED
  BY <1>1, <1>5, <1>6 DEF ClockInv, Last

\* Every step keeps that what is not recent is about to be forgotten.
LEMMA SweepStep == TypeInv /\ ClockInv /\ CopyInv /\ SweepInv /\ [Next]_vars => SweepInv'
<1> SUFFICES ASSUME TypeInv, ClockInv, CopyInv, SweepInv, [Next]_vars PROVE SweepInv'
  OBVIOUS
<1> USE Numbers
<1>1. ASSUME NEW t \in Threads, NEW a \in Addresses, Arrive(t, a) PROVE SweepInv'
  <2>1. UNCHANGED <<hits, lastSweep, broken>> /\ \A b \in Addresses : asked'[b] = IF b = a THEN clock ELSE asked[b]
    BY <1>1 DEF Arrive, TypeInv, DataTypes
  <2>2. \A b \in Addresses : asked'[b] \in Int /\ asked[b] <= asked'[b]
    BY <2>1 DEF ClockInv
  <2>3. SweepersStay
    BY <1>1, Arriving DEF SweepersStay, Sweepers
  <2>4. \A b \in Addresses : Recent(b) => lastSweep - Minute <= asked'[b]
    BY <2>2 DEF Recent
  <2> HIDE DEF Recent
  <2> QED
    BY <2>1, <2>3, <2>4 DEF SweepInv, SweepersStay, Sweepers, Known, Recent
<1>2. ASSUME NEW t \in Threads, SweepBegins(t) PROVE SweepInv'
  <2>1. UNCHANGED <<hits, asked, broken>>
    BY <1>2 DEF SweepBegins
  <2>2. CASE thread'[t].at = "window" /\ lastSweep' = lastSweep
    <3>1. SweepersStay
      BY <1>2, <2>2, Sweeping DEF SweepersStay, Sweepers
    <3> QED
      BY <2>1, <2>2, <3>1 DEF SweepInv, SweepersStay, Sweepers, Known, Recent
  <2>3. CASE thread'[t].at = "scan" /\ lastSweep' = thread[t].now
    BY <1>2, <2>3, Sweeping DEF SweepInv
  <2> QED
    BY <1>2, <2>2, <2>3, Sweeping
<1>3. ASSUME NEW t \in Threads, SweepScans(t) PROVE SweepInv'
  <2>1. UNCHANGED <<hits, window, asked, lastSweep>> /\ thread[t].at = "scan"
    BY <1>3 DEF SweepScans, At
  <2>2. CASE broken'
    BY <2>2 DEF SweepInv
  <2>3. CASE ~broken'
    <3>1. ~broken /\ thread' = [thread EXCEPT ![t].at = "delete", ![t].stale = {a \in Known : Stale(a, thread[t].now)}]
      BY <1>3, <2>3 DEF SweepScans
    <3>2. /\ \A u \in Threads : u # t => thread'[u] = thread[u]
          /\ thread'[t].at = "delete" /\ thread'[t].stale = {a \in Known : Stale(a, thread[t].now)}
      BY <3>1 DEF TypeInv, ThreadTypes, Locals
    <3>3. CASE thread[t].now = lastSweep
      <4>1. ASSUME NEW a \in Known, ~Stale(a, thread[t].now) PROVE Recent(a)
        <5>1. window[hits[a]] # <<>> /\ ~(lastSweep - Last(window[hits[a]]) > Minute)
          BY <3>3, <4>1 DEF Stale
        <5>2. Last(window[hits[a]]) \in Nat /\ Last(window[hits[a]]) <= asked[a] /\ asked[a] \in Int
          BY <5>1, LastAsked DEF Known
        <5> QED
          BY <5>1, <5>2 DEF Recent
      <4> QED
        BY <2>1, <3>2, <4>1 DEF SweepInv, Known, Recent
    <3>4. CASE thread[t].now # lastSweep
      BY <2>1, <3>1, <3>2, <3>4 DEF SweepInv, Known, Recent
    <3> QED
      BY <3>3, <3>4
  <2> QED
    BY <2>2, <2>3
<1>4. ASSUME NEW t \in Threads, SweepDeletes(t) PROVE SweepInv'
  <2>1. UNCHANGED <<asked, lastSweep>> /\ thread[t].at = "delete"
    BY <1>4 DEF SweepDeletes, At
  <2>2. CASE broken'
    BY <2>2 DEF SweepInv
  <2>3. CASE ~broken' /\ thread[t].stale = {} /\ Go(t, "window") /\ UNCHANGED <<hits, broken>>
    <3>1. thread'[t].at = "window" /\ \A u \in Threads : u # t => thread'[u] = thread[u]
      BY <2>3 DEF Go, TypeInv, ThreadTypes, Locals
    <3> QED
      BY <2>1, <2>3, <3>1 DEF SweepInv, Known, Recent
  <2>4. ASSUME ~broken', NEW a \in thread[t].stale, hits' = [hits EXCEPT ![a] = NoWindow],
               thread' = [thread EXCEPT ![t].stale = @ \ {a}], UNCHANGED broken
        PROVE  SweepInv'
    <3>1. /\ \A u \in Threads : u # t => thread'[u] = thread[u]
          /\ thread'[t].at = "delete" /\ thread'[t].now = thread[t].now /\ thread'[t].stale = thread[t].stale \ {a}
      BY <2>1, <2>4 DEF TypeInv, ThreadTypes, Locals
    <3>2. Known' \subseteq Known /\ a \notin Known'
      BY <2>4 DEF Known, TypeInv, DataTypes
    <3> QED
      BY <2>1, <2>4, <3>1, <3>2 DEF SweepInv, Recent
  <2> QED
    BY <1>4, <2>2, <2>3, <2>4 DEF SweepDeletes
<1>5. ASSUME NEW t \in Threads, FindWindow(t) PROVE SweepInv'
  <2> DEFINE k == thread[t].key
  <2>1. /\ UNCHANGED <<asked, lastSweep, broken>> /\ k \in Addresses /\ t \in Busy
        /\ \A a \in Known' : a \in Known \/ a = k
    BY <1>5, Finding DEF FindWindow, Known, Busy, TypeInv, DataTypes
  <2>2. SweepersStay
    BY <1>5, Finding DEF SweepersStay, Sweepers
  <2>3. Recent(k)
    BY <2>1 DEF Recent, ClockInv
  <2> QED
    BY <2>1, <2>2, <2>3 DEF SweepInv, SweepersStay, Sweepers, Recent
<1>6. ASSUME SweepersStay, UNCHANGED <<hits, lastSweep, asked, broken>> PROVE SweepInv'
  BY <1>6 DEF SweepInv, SweepersStay, Sweepers, Known, Recent
<1>7. Tick \/ UNCHANGED vars => SweepersStay /\ UNCHANGED <<hits, lastSweep, asked, broken>>
  BY DEF Tick, vars, SweepersStay
<1> QED
  BY <1>1, <1>2, <1>3, <1>4, <1>5, <1>6, <1>7, SweepersGo DEF Next, Step

-----------------------------------------------------------------------------
(* What a request finds that runs beside no other.                         *)

\* A thread at work is alone, or no hit is left that one could have made alone.
LEMMA AloneOrNone ==
  ASSUME TypeInv, AloneInv, NEW t \in Busy
  PROVE  \/ thread[t].now <= overlap /\ NoneLone
         \/ thread[t].now > overlap /\ Busy = {t} /\ Undisturbed(t)
<1>1. t \in Threads /\ thread[t].now \in Nat /\ overlap \in Int
  BY Numbers DEF Busy
<1>2. CASE thread[t].now <= overlap
  <2>1. ASSUME NEW a \in Addresses, NEW i \in 1..Len(admitted[a]), Lone(a, i) PROVE FALSE
    <3>1. admitted[a][i] <= thread[t].now /\ admitted[a][i] > overlap /\ admitted[a][i] \in Nat
      BY <2>1, Numbers DEF AloneInv, Lone
    <3> QED
      BY <1>1, <1>2, <3>1
  <2> QED
    BY <1>2, <2>1 DEF NoneLone
<1>3. CASE thread[t].now > overlap
  BY <1>1, <1>3 DEF AloneInv
<1> QED
  BY <1>1, <1>2, <1>3

\* Beside another request, nothing is left to keep.
LEMMA NoneToKeep ==
  ASSUME TypeInv, AloneInv, [Next]_vars, NEW t \in Busy, thread[t].now <= overlap, NoneLone, Stays, overlap' = overlap,
         admitted' = admitted \/ Hit(t)
  PROVE  AloneInv' /\ WindowInv'
<1> USE Numbers
<1>1. t \in Threads
  BY DEF Busy
<1>2. NoneLone'
  <2>1. CASE admitted' = admitted
    BY <2>1 DEF NoneLone, Lone
  <2>2. CASE Hit(t)
    <3> SUFFICES ASSUME NEW a \in Addresses, NEW i \in 1..Len(admitted'[a]) PROVE ~(admitted'[a][i] > overlap)
      BY DEF NoneLone, Lone
    <3>1. CASE a # thread[t].key
      BY <1>1, <2>2, <3>1, LogGrows DEF NoneLone, Lone
    <3>2. CASE a = thread[t].key
      <4>1. Len(admitted'[a]) = Len(admitted[a]) + 1 /\ Len(admitted[a]) \in Nat
        BY <1>1, <2>2, <3>2, LogGrows
      <4>2. CASE i = Len(admitted[a]) + 1
        BY <1>1, <2>2, <3>2, <4>2, LogGrows
      <4>3. CASE i \in 1..Len(admitted[a])
        BY <1>1, <2>2, <3>2, <4>3, LogGrows DEF NoneLone, Lone
      <4> QED
        BY <4>1, <4>2, <4>3
    <3> QED
      BY <3>1, <3>2
  <2> QED
    BY <2>1, <2>2
<1>3. ASSUME NEW u \in Busy' PROVE thread'[u].now <= overlap'
  <2>1. u \in Busy /\ thread'[u].now = thread[u].now
    BY DEF Stays
  <2> QED
    BY <2>1 DEF AloneInv
<1>4. ASSUME NEW u \in Busy' PROVE ~(thread'[u].now > overlap')
  <2>1. u \in Threads /\ thread'[u].now = thread[u].now
    BY DEF Stays, Busy
  <2> QED
    BY <1>3, <2>1
<1>5. AloneInv'
  BY <1>2, <1>3, <1>4 DEF AloneInv, NoneLone
<1>6. WindowInv'
  BY <1>2 DEF WindowInv, NoneLone
<1> QED
  BY <1>5, <1>6

\* The only request under way makes a step.
LEMMA AloneStays ==
  ASSUME TypeInv, AloneInv, NEW t \in Busy, Busy = {t}, Stays, overlap' = overlap,
         t \in Busy' => admitted' = admitted /\ Undisturbed(t)'
  PROVE  AloneInv'
<1>1. \A u \in Busy' : u = t
  BY DEF Stays
<1>2. CASE t \notin Busy'
  BY <1>1, <1>2 DEF AloneInv
<1>3. CASE t \in Busy'
  <2>1. thread'[t].now = thread[t].now /\ admitted' = admitted /\ Undisturbed(t)'
    BY <1>3 DEF Stays
  <2>2. \A u \in Busy' : \A a \in Addresses : \A i \in 1..Len(admitted'[a]) : Lone(a, i)' => admitted'[a][i] <= thread'[u].now
    BY <1>1, <2>1 DEF AloneInv, Lone
  <2> QED
    BY <1>1, <2>1, <2>2 DEF AloneInv
<1> QED
  BY <1>2, <1>3

\* Hits count no longer, and nothing else changes.
LEMMA WindowsStay ==
  ASSUME TypeInv, WindowInv, UNCHANGED <<hits, window, admitted, overlap>>,
         lastSweep <= lastSweep', lastSweep' \in Int,
         \A a \in Addresses : asked[a] <= asked'[a] /\ asked'[a] \in Int
  PROVE  WindowInv'
<1>1. ASSUME NEW a \in Addresses, NEW i \in 1..Len(admitted[a]), Counts(a, i)' PROVE Counts(a, i)
  <2>1. lastSweep \in Int /\ Minute \in Int /\ asked[a] \in Int /\ admitted[a][i] \in Int
    BY Numbers
  <2> QED
    BY <1>1, <2>1 DEF Counts
<1>2. \A a \in Addresses : \A i \in 1..Len(admitted[a]) : (Lone(a, i)' <=> Lone(a, i)) /\ (Placed(a, i)' <=> Placed(a, i))
  BY DEF Lone, Placed, Place, Known
<1> HIDE DEF Lone, Placed, Counts
<1> QED
  BY <1>1, <1>2 DEF WindowInv

\* A request comes in, alone or beside others.
LEMMA AloneArrives ==
  ASSUME TypeInv, ClockInv, AloneInv, WindowInv, NEW t \in Threads, NEW a \in Addresses, Arrive(t, a)
  PROVE  AloneInv' /\ WindowInv'
<1> USE Numbers
<1>1. /\ UNCHANGED <<clock, hits, window, lastSweep, admitted>>
      /\ \A b \in Addresses : asked'[b] = IF b = a THEN clock ELSE asked[b]
      /\ t \notin Busy /\ Busy' = Busy \cup {t} /\ thread'[t].now = clock /\ thread'[t].at = "sweep" /\ thread'[t].key = a
      /\ \A u \in Threads : u # t => thread'[u] = thread[u]
  <2>1. /\ UNCHANGED <<clock, hits, window, lastSweep, admitted>>
        /\ \A b \in Addresses : asked'[b] = IF b = a THEN clock ELSE asked[b]
    BY DEF Arrive, TypeInv, DataTypes
  <2> QED
    BY <2>1, Arriving DEF Busy
<1>2. \A b \in Addresses : asked'[b] \in Int /\ asked[b] <= asked'[b] /\ asked'[b] <= clock
  BY <1>1 DEF ClockInv
<1>3. \A b \in Addresses : \A i \in 1..Len(admitted[b]) : admitted[b][i] <= clock
  BY DEF ClockInv
<1>4. CASE Busy = {}
  <2>1. overlap' = overlap /\ Busy' = {t}
    BY <1>1, <1>4 DEF Arrive
  <2>2. Undisturbed(t)'
    BY <1>1, <1>2 DEF Undisturbed, Holding, ClockInv
  <2>3. AloneInv'
    BY <1>1, <1>3, <2>1, <2>2 DEF AloneInv
  <2>4. WindowInv'
    BY <1>1, <1>2, <2>1, WindowsStay
  <2> QED
    BY <2>3, <2>4
<1>5. CASE Busy # {}
  <2>1. overlap' = clock
    BY <1>5 DEF Arrive
  <2>2. NoneLone'
    BY <1>1, <1>3, <2>1 DEF NoneLone, Lone
  <2>3. \A u \in Busy' : thread'[u].now \in Nat /\ thread'[u].now <= overlap'
    BY <1>1, <2>1 DEF ClockInv, Busy
  <2>4. \A u \in Busy' : ~(thread'[u].now > overlap')
    BY <2>1, <2>3
  <2>5. AloneInv'
    BY <2>2, <2>3, <2>4 DEF AloneInv, NoneLone
  <2>6. WindowInv'
    BY <2>2 DEF WindowInv, NoneLone
  <2> QED
    BY <2>5, <2>6
<1> QED
  BY <1>4, <1>5

\* The only request under way sweeps.
LEMMA AloneSweeps ==
  ASSUME TypeInv, AloneInv, WindowInv, NEW t \in Busy, Busy = {t}, Undisturbed(t), Stays,
         SweepBegins(t) \/ SweepScans(t) \/ SweepDeletes(t)
  PROVE  AloneInv' /\ WindowInv'
<1> USE Numbers
<1>1. t \in Threads /\ UNCHANGED <<window, asked, admitted, overlap>>
  BY DEF Busy, SweepBegins, SweepScans, SweepDeletes
<1>2. CASE SweepBegins(t)
  <2>1. lastSweep <= lastSweep' /\ lastSweep' \in Int /\ lastSweep' <= thread[t].now
    BY <1>1, <1>2, Sweeping DEF Undisturbed
  <2>2. Undisturbed(t)'
    BY <1>1, <1>2, <2>1, Sweeping DEF Undisturbed, Holding
  <2>3. hits' = hits
    BY <1>2 DEF SweepBegins
  <2> QED
    BY <1>1, <2>1, <2>2, <2>3, AloneStays, WindowsStay
<1>3. CASE SweepScans(t)
  <2>1. UNCHANGED <<hits, lastSweep>> /\ thread[t].at = "scan"
    BY <1>3 DEF SweepScans, At
  <2>2. CASE Leave(t)
    <3>1. t \notin Busy'
      BY <1>1, <2>2, Leaving DEF Busy
    <3> QED
      BY <1>1, <2>1, <3>1, AloneStays, WindowsStay
  <2>3. CASE ~Leave(t)
    <3>1. thread' = [thread EXCEPT ![t].at = "delete", ![t].stale = {a \in Known : Stale(a, thread[t].now)}]
      BY <1>3, <2>3 DEF SweepScans
    <3>2. /\ thread'[t].at = "delete" /\ thread'[t].now = thread[t].now /\ thread'[t].key = thread[t].key
          /\ thread'[t].stale = {a \in Known : Stale(a, thread[t].now)}
      BY <1>1, <3>1 DEF TypeInv, ThreadTypes, Locals
    <3>3. ASSUME NEW a \in Known, Stale(a, thread[t].now), NEW i \in 1..Len(admitted[a]), Lone(a, i)
          PROVE  admitted[a][i] < lastSweep - Minute
      <4> DEFINE n == Len(admitted[a])
      <4>1. a \in Addresses /\ n \in Nat /\ i \in Nat /\ n \in 1..n /\ i <= n /\ hits[a] \in Windows
        BY DEF Known, TypeInv, DataTypes
      <4>2. admitted[a][i] \in Nat /\ admitted[a][n] \in Nat
        BY <4>1
      <4>3. admitted[a][i] <= admitted[a][n]
        <5>1. CASE i = n
          BY <4>2, <5>1
        <5>2. CASE i < n
          BY <3>3, <4>1, <5>2 DEF WindowInv
        <5> QED
          BY <4>1, <5>1, <5>2
      <4>4. SUFFICES ASSUME lastSweep - Minute <= admitted[a][i] PROVE FALSE
        BY <4>2
      <4>5. asked[a] \in Int /\ asked[a] <= thread[t].now /\ lastSweep = thread[t].now /\ thread[t].now \in Nat
        BY <1>1, <2>1, <4>1 DEF Undisturbed
      <4>6. Lone(a, n) /\ Counts(a, n)
        <5>1. overlap \in Int /\ lastSweep \in Int /\ Minute \in Nat
          BY Numbers
        <5>2. Lone(a, n)
          BY <3>3, <4>1, <4>2, <4>3, <5>1 DEF Lone
        <5> DEFINE x == admitted[a][i]
                   y == admitted[a][n]
                   z == asked[a]
        <5>3. /\ x \in Nat /\ y \in Nat /\ z \in Int /\ x <= y /\ z <= lastSweep /\ lastSweep - Minute <= x
              /\ lastSweep \in Int /\ Minute \in Nat
          BY <4>2, <4>3, <4>4, <4>5, <5>1
        <5>4. z - Minute <= y /\ lastSweep - Minute <= y
          <6> HIDE DEF x, y, z
          <6> QED
            BY <5>3
        <5> QED
          BY <5>2, <5>4 DEF Counts
      <4>7. Placed(a, n) /\ Place(a, n) = Len(window[hits[a]])
        BY <4>1, <4>6 DEF WindowInv, Place
      <4>8. window[hits[a]] # <<>> /\ Last(window[hits[a]]) = admitted[a][n]
        BY <4>7, EmptySeq DEF Placed, Last
      <4>9. thread[t].now - admitted[a][n] > Minute
        BY <3>3, <4>8 DEF Stale
      <4> DEFINE p == admitted[a][i]
                 q == admitted[a][n]
                 z == thread[t].now
      <4>10. /\ p \in Nat /\ q \in Nat /\ p <= q /\ z - Minute <= p
             /\ z \in Nat /\ z - q > Minute
        BY <4>2, <4>3, <4>4, <4>5, <4>9
      <4>11. Minute \in Nat
        BY Numbers
      <4> HIDE DEF p, q, z
      <4> QED
        BY <4>10, <4>11
    <3>4. Undisturbed(t)'
      BY <1>1, <2>1, <3>2, <3>3 DEF Undisturbed, Holding, Lone
    <3> QED
      BY <1>1, <2>1, <3>4, AloneStays, WindowsStay
  <2> QED
    BY <2>2, <2>3
<1>4. CASE SweepDeletes(t)
  <2>1. lastSweep' = lastSweep /\ thread[t].at = "delete"
    BY <1>4 DEF SweepDeletes, At
  <2>2. CASE hits' = hits /\ Leave(t)
    <3>1. t \notin Busy'
      BY <1>1, <2>2, Leaving DEF Busy
    <3> QED
      BY <1>1, <2>1, <2>2, <3>1, AloneStays, WindowsStay
  <2>3. CASE hits' = hits /\ Go(t, "window")
    <3>1. thread'[t].at = "window" /\ thread'[t].now = thread[t].now /\ thread'[t].key = thread[t].key
      BY <1>1, <2>3 DEF Go, TypeInv, ThreadTypes, Locals
    <3>2. Undisturbed(t)'
      BY <1>1, <2>1, <3>1 DEF Undisturbed, Holding
    <3> QED
      BY <1>1, <2>1, <2>3, <3>2, AloneStays, WindowsStay
  <2>4. ASSUME NEW b \in thread[t].stale, hits' = [hits EXCEPT ![b] = NoWindow],
               thread' = [thread EXCEPT ![t].stale = @ \ {b}]
        PROVE  AloneInv' /\ WindowInv'
    <3>1. /\ thread'[t].at = "delete" /\ thread'[t].now = thread[t].now /\ thread'[t].key = thread[t].key
          /\ thread'[t].stale \subseteq thread[t].stale
      BY <1>1, <2>1, <2>4 DEF TypeInv, ThreadTypes, Locals
    <3>2. Undisturbed(t)'
      BY <1>1, <2>1, <3>1 DEF Undisturbed, Holding, Lone
    <3>3. \A a \in Addresses : a # b => hits'[a] = hits[a]
      BY <2>4 DEF TypeInv, DataTypes
    <3>4. ASSUME NEW a \in Addresses, NEW i \in 1..Len(admitted[a]), Lone(a, i), Counts(a, i)
          PROVE  Placed(a, i)'
      <4>1. Placed(a, i)
        BY <3>4 DEF WindowInv
      <4>2. a # b
        <5> SUFFICES ASSUME a = b PROVE FALSE
          OBVIOUS
        <5>1. admitted[a][i] < lastSweep - Minute /\ admitted[a][i] \in Nat
          BY <2>1, <2>4, <3>4 DEF Undisturbed
        <5> QED
          BY <3>4, <5>1 DEF Counts
      <4> QED
        BY <1>1, <3>3, <4>1, <4>2 DEF Placed, Place, Known
    <3>5. \A a \in Addresses : \A i \in 1..Len(admitted[a]) : (Lone(a, i)' <=> Lone(a, i)) /\ (Counts(a, i)' <=> Counts(a, i))
      BY <1>1, <2>1 DEF Lone, Counts
    <3>6. WindowInv'
      <4> HIDE DEF Lone, Counts, Placed
      <4> QED
        BY <1>1, <3>4, <3>5 DEF WindowInv
    <3> QED
      BY <1>1, <3>2, <3>6, AloneStays
  <2> QED
    BY <1>4, <2>2, <2>3, <2>4 DEF SweepDeletes
<1> QED
  BY <1>2, <1>3, <1>4

\* It finds its window, or makes one when no hit counts any more.
LEMMA AloneFinds ==
  ASSUME TypeInv, AloneInv, WindowInv, NEW t \in Busy, Busy = {t}, Undisturbed(t), Stays, FindWindow(t)
  PROVE  AloneInv' /\ WindowInv'
<1> DEFINE k == thread[t].key
           d == Found(t)
<1>1. t \in Threads /\ k \in Addresses /\ UNCHANGED <<lastSweep, asked, admitted, overlap>>
  BY DEF Busy, FindWindow, TypeInv, ThreadTypes, Locals
<1>2. /\ d # NoWindow /\ d \in Windows /\ thread'[t].at = "trim" /\ thread'[t].win = d
      /\ thread'[t].key = k /\ thread'[t].now = thread[t].now
      /\ \A a \in Addresses : hits'[a] = IF a = k THEN d ELSE hits[a]
  BY <1>1, Finding DEF TypeInv, DataTypes
<1>3. /\ hits[k] # NoWindow => hits' = hits /\ window' = window
      /\ hits[k] = NoWindow => d \notin InUse /\ window' = [window EXCEPT ![d] = <<>>]
  BY <1>1, Finding
<1> HIDE DEF k, d
<1>4. Undisturbed(t)'
  BY <1>1, <1>2 DEF Undisturbed, Holding, k
<1>5. CASE hits[k] # NoWindow
  BY <1>1, <1>3, <1>4, <1>5, AloneStays, WindowsStay, Numbers
<1>6. CASE hits[k] = NoWindow
  <2>1. ASSUME NEW a \in Addresses, NEW i \in 1..Len(admitted[a]), Lone(a, i), Counts(a, i)
        PROVE  Placed(a, i)'
    <3>1. Placed(a, i)
      BY <2>1 DEF WindowInv
    <3>2. a # k /\ hits[a] # d /\ hits[a] \in Windows
      BY <1>3, <1>6, <3>1 DEF Placed, Known, InUse, TypeInv, DataTypes
    <3>3. hits'[a] = hits[a] /\ window'[hits[a]] = window[hits[a]]
      BY <1>2, <1>3, <1>6, <3>2 DEF TypeInv, DataTypes
    <3> QED
      BY <1>1, <3>1, <3>3 DEF Placed, Place, Known
  <2>2. \A a \in Addresses : \A i \in 1..Len(admitted[a]) : (Lone(a, i)' <=> Lone(a, i)) /\ (Counts(a, i)' <=> Counts(a, i))
    BY <1>1 DEF Lone, Counts
  <2>3. WindowInv'
    <3> HIDE DEF Lone, Counts, Placed
    <3> QED
      BY <1>1, <2>1, <2>2 DEF WindowInv
  <2> QED
    BY <1>1, <1>4, <2>3, AloneStays
<1> QED
  BY <1>5, <1>6

\* It trims its window of what counts no longer.
LEMMA AloneTrims ==
  ASSUME TypeInv, OwnersInv, AloneInv, WindowInv, NEW t \in Busy, Busy = {t}, Undisturbed(t), Stays,
         Trim(t) \/ Pop(t) \/ Refuse(t) \/ Pass(t)
  PROVE  AloneInv' /\ WindowInv'
<1> USE Numbers
<1>1. t \in Threads /\ UNCHANGED <<hits, lastSweep, asked, admitted, overlap>>
  BY DEF Busy, Trim, Pop, Refuse, Pass
<1>2. CASE window' = window
  <2>1. WindowInv'
    BY <1>1, <1>2, WindowsStay
  <2>2. CASE Leave(t)
    <3>1. t \notin Busy'
      BY <1>1, <2>2, Leaving DEF Busy
    <3> QED
      BY <1>1, <2>1, <3>1, AloneStays
  <2>3. CASE ~Leave(t) /\ Trim(t)
    <3>1. /\ thread'[t].now = thread[t].now /\ thread'[t].key = thread[t].key /\ thread'[t].win = thread[t].win
          /\ thread'[t].at \in {"pop", "check"} /\ thread[t].at = "trim"
          /\ thread'[t].at = "pop" => window[thread[t].win] # <<>> /\ Old(Head(window[thread[t].win]), thread[t].now)
      BY <1>1, <2>3 DEF Trim, At, Go, TypeInv, ThreadTypes, Locals
    <3>2. Undisturbed(t)'
      BY <1>1, <1>2, <3>1 DEF Undisturbed, Holding
    <3> QED
      BY <1>1, <2>1, <3>2, AloneStays
  <2>4. CASE ~Leave(t) /\ Pass(t)
    <3>1. /\ thread'[t].now = thread[t].now /\ thread'[t].key = thread[t].key /\ thread'[t].win = thread[t].win
          /\ thread'[t].at = "append" /\ thread[t].at = "check"
      BY <1>1, <2>4 DEF Pass, At, Go, TypeInv, ThreadTypes, Locals
    <3>2. thread[t].win \in Windows
      BY <1>1, <3>1 DEF TypeInv, ThreadTypes, Locals, Holding
    <3>3. Len(window[thread[t].win]) < Limit
      BY <2>4, <3>2 DEF Pass, Full
    <3>4. Undisturbed(t)'
      BY <1>1, <1>2, <3>1, <3>3 DEF Undisturbed, Holding
    <3> QED
      BY <1>1, <2>1, <3>4, AloneStays
  <2>5. CASE ~Leave(t) /\ Pop(t)
    <3>1. window[thread[t].win] # <<>> /\ window' = [window EXCEPT ![thread[t].win] = Tail(window[thread[t].win])]
          /\ thread[t].win \in Windows
      BY <1>1, <2>5 DEF Pop, At, TypeInv, ThreadTypes, Locals, Holding
    <3>2. Len(Tail(window[thread[t].win])) = Len(window[thread[t].win]) - 1 /\ Len(window[thread[t].win]) \in Nat
      BY <3>1, Shift
    <3>3. window'[thread[t].win] = Tail(window[thread[t].win])
      BY <3>1 DEF TypeInv, DataTypes
    <3>4. Len(window[thread[t].win]) = Len(window[thread[t].win]) - 1
      BY <1>2, <3>2, <3>3
    <3> QED
      BY <3>2, <3>4
  <2> QED
    BY <2>2, <2>3, <2>4, <2>5 DEF Refuse
<1>3. CASE Pop(t) /\ window' # window
  <2> DEFINE d == thread[t].win
             k == thread[t].key
             now == thread[t].now
  <2>1. /\ thread[t].at = "pop" /\ d \in Windows /\ d # NoWindow /\ k \in Addresses /\ now \in Nat
        /\ window[d] # <<>> /\ window' = [window EXCEPT ![d] = Tail(window[d])] /\ Go(t, "trim")
    BY <1>1, <1>3 DEF Pop, At, TypeInv, ThreadTypes, Locals, Holding
  <2>2. thread'[t].at = "trim" /\ thread'[t].now = now /\ thread'[t].key = k /\ thread'[t].win = d
    BY <1>1, <2>1 DEF Go, TypeInv, ThreadTypes, Locals
  <2>3. window'[d] = Tail(window[d]) /\ \A x \in Windows : x # d => window'[x] = window[x]
    BY <2>1 DEF TypeInv, DataTypes
  <2>4. /\ Len(window'[d]) = Len(window[d]) - 1 /\ Len(window[d]) \in Nat
        /\ \A i \in 1..Len(window'[d]) : window'[d][i] = window[d][i + 1]
        /\ Head(window[d]) = window[d][1]
    <3>1. /\ Len(Tail(window[d])) = Len(window[d]) - 1
          /\ \A i \in 1..Len(Tail(window[d])) : Tail(window[d])[i] = window[d][i + 1]
          /\ Head(window[d]) = window[d][1]
      BY <2>1, Shift
    <3>2. Len(window[d]) \in Nat
      BY <2>1
    <3> HIDE DEF d
    <3> QED
      BY <2>3, <3>1, <3>2
  <2>5. asked[k] = now /\ hits[k] = d /\ now - window[d][1] > Minute
    BY <2>1, <2>4 DEF Undisturbed, Holding, Old
  <2>6. Undisturbed(t)'
    BY <1>1, <2>1, <2>2 DEF Undisturbed, Holding
  <2>7. ASSUME NEW a \in Addresses, NEW i \in 1..Len(admitted[a]), Lone(a, i), Counts(a, i)
        PROVE  Placed(a, i)'
    <3>1. Placed(a, i) /\ hits[a] \in Windows
      BY <2>7 DEF WindowInv, Placed, Known, TypeInv, DataTypes
    <3>2. CASE hits[a] # d
      BY <1>1, <2>3, <3>1, <3>2 DEF Placed, Place, Known
    <3>3. CASE hits[a] = d
      <4>1. a = k
        BY <1>1, <3>1, <3>3 DEF OwnersInv, Placed
      <4> DEFINE p == Len(window[d]) - (Len(admitted[k]) - i)
      <4>2. p = Place(a, i) /\ p \in 1..Len(window[d]) /\ window[d][p] = admitted[k][i]
        BY <3>1, <3>3, <4>1 DEF Placed, Place
      <4>3. admitted[k][i] \in Nat /\ now - Minute <= admitted[k][i] /\ i \in Nat /\ Len(admitted[k]) \in Nat
        <5>1. i \in 1..Len(admitted[k]) /\ Counts(k, i)
          BY <2>7, <4>1
        <5>2. admitted[k][i] \in Nat /\ i \in Nat /\ Len(admitted[k]) \in Nat
          BY <2>1, <5>1
        <5> QED
          BY <2>5, <5>1, <5>2 DEF Counts
      <4>4. p # 1
        <5>1. ASSUME p = 1 PROVE window[d][1] = admitted[k][i]
          BY <4>2, <5>1
        <5>2. window[d][1] \in Nat /\ Minute \in Nat
          BY <2>1, Shift
        <5> DEFINE x == window[d][1]
                   y == admitted[k][i]
        <5>3. /\ x \in Nat /\ y \in Nat /\ now \in Nat /\ now - x > Minute /\ now - Minute <= y
          BY <2>1, <2>5, <4>3, <5>2
        <5>4. x # y
          <6> HIDE DEF x, y, now
          <6> QED
            BY <5>2, <5>3
        <5> QED
          BY <5>1, <5>4
      <4>5. Place(a, i)' = p - 1
        <5>1. Place(a, i)' = Len(window'[d]) - (Len(admitted[k]) - i)
          BY <1>1, <2>5, <4>1 DEF Place
        <5> DEFINE n == Len(window[d])
                   m == Len(admitted[k])
        <5>2. n \in Nat /\ m \in Nat /\ i \in Nat /\ Len(window'[d]) = n - 1
          BY <2>4, <4>3
        <5>3. (n - 1) - (m - i) = (n - (m - i)) - 1
          <6> HIDE DEF n, m
          <6> QED
            BY <5>2
        <5> QED
          BY <5>1, <5>2, <5>3
      <4>6. p - 1 \in 1..Len(window'[d]) /\ (p - 1) + 1 = p
        <5>1. p \in Nat
          BY <4>2
        <5> HIDE DEF p
        <5> QED
          BY <2>4, <4>2, <4>4, <5>1
      <4>7. window'[d][p - 1] = admitted[k][i]
        BY <2>4, <4>2, <4>6
      <4> QED
        BY <1>1, <2>5, <3>1, <4>1, <4>5, <4>6, <4>7 DEF Placed, Known
    <3> QED
      BY <3>2, <3>3
  <2>8. \A a \in Addresses : \A i \in 1..Len(admitted[a]) : (Lone(a, i)' <=> Lone(a, i)) /\ (Counts(a, i)' <=> Counts(a, i))
    BY <1>1 DEF Lone, Counts
  <2>9. WindowInv'
    <3> HIDE DEF Lone, Counts, Placed
    <3> QED
      BY <1>1, <2>7, <2>8 DEF WindowInv
  <2> QED
    BY <1>1, <2>6, <2>9, AloneStays
<1> QED
  BY <1>2, <1>3 DEF Trim, Refuse, Pass

\* It is let through: its hit is the last one of the window, and of the log.
LEMMA AloneHits ==
  ASSUME TypeInv, OwnersInv, AloneInv, WindowInv, NEW t \in Busy, Busy = {t}, Undisturbed(t), Stays,
         thread[t].now > overlap, Hit(t)
  PROVE  AloneInv' /\ WindowInv'
<1> USE Numbers
<1>1. t \in Threads /\ UNCHANGED <<hits, lastSweep, asked, overlap>>
  BY DEF Busy, Hit
<1>2. AloneInv'
  <2>1. t \notin Busy'
    BY <1>1, Leaving DEF Busy, Hit
  <2> QED
    BY <1>1, <2>1, AloneStays
<1>0. PICK d, k, now, m, n : /\ d = thread[t].win /\ k = thread[t].key /\ now = thread[t].now
                             /\ m = Len(admitted[k]) /\ n = Len(window[d])
  OBVIOUS
<1>3. /\ k \in Addresses /\ d \in Windows /\ d # NoWindow /\ now \in Nat /\ hits[k] = d /\ asked[k] = now
      /\ lastSweep <= now /\ n < Limit /\ m \in Nat /\ n \in Nat
  <2>1. thread[t].at = "append" /\ d \in Windows /\ thread[t].at \in Holding
    BY <1>0, <1>1, LogGrows DEF Holding
  <2>2. d # NoWindow /\ k \in Addresses /\ now \in Nat /\ m \in Nat /\ n \in Nat
    BY <1>0, <1>1, <2>1, Numbers DEF TypeInv, ThreadTypes
  <2> QED
    BY <1>0, <2>1, <2>2 DEF Undisturbed
<1>4. /\ \A a \in Addresses : a # k => admitted'[a] = admitted[a]
      /\ Len(admitted'[k]) = m + 1 /\ admitted'[k][m + 1] = now
      /\ \A i \in 1..m : admitted'[k][i] = admitted[k][i]
      /\ Len(window'[d]) = n + 1 /\ window'[d][n + 1] = now
      /\ \A i \in 1..n : window'[d][i] = window[d][i]
      /\ \A x \in Windows : x # d => window'[x] = window[x]
  BY <1>0, <1>1, LogGrows
<1>5. \A i \in 1..m : Lone(k, i) => admitted[k][i] <= now
  BY <1>0, <1>3 DEF AloneInv
<1>6. ASSUME NEW a \in Addresses, a # k, a \in Known PROVE hits[a] # d /\ hits[a] \in Windows
  BY <1>0, <1>1, <1>3, <1>6 DEF OwnersInv, Known, TypeInv, DataTypes
<1>7. \A i \in 1..m : Placed(k, i) <=> (n - (m - i) \in 1..n /\ window[d][n - (m - i)] = admitted[k][i])
  BY <1>0, <1>3 DEF Placed, Place, Known
<1>8. \A i \in 1..(m + 1) :
         Placed(k, i)' <=> ((n + 1) - ((m + 1) - i) \in 1..(n + 1) /\ window'[d][(n + 1) - ((m + 1) - i)] = admitted'[k][i])
  <2>1. hits'[k] = d /\ (k \in Known)'
    BY <1>1, <1>3 DEF Known
  <2> SUFFICES ASSUME NEW i \in 1..(m + 1)
               PROVE  Placed(k, i)' <=> ((n + 1) - ((m + 1) - i) \in 1..(n + 1)
                                          /\ window'[d][(n + 1) - ((m + 1) - i)] = admitted'[k][i])
    OBVIOUS
  <2>2. Place(k, i)' = (n + 1) - ((m + 1) - i) /\ Len(window'[hits'[k]]) = n + 1
    BY <1>4, <2>1 DEF Place
  <2> HIDE DEF Place
  <2> QED
    BY <2>1, <2>2 DEF Placed
<1>9. \A i \in 1..m : Lone(k, i) => admitted[k][i] \in Nat
  BY <1>0, <1>3
<1>10. /\ \A i \in 1..m : Lone(k, i)' <=> Lone(k, i)
       /\ \A i \in 1..m : Counts(k, i)' <=> Counts(k, i)
  <2> SUFFICES ASSUME NEW i \in 1..m PROVE (Lone(k, i)' <=> Lone(k, i)) /\ (Counts(k, i)' <=> Counts(k, i))
    OBVIOUS
  <2>1. i \in 1..Len(admitted[k]) /\ i \in 1..Len(admitted'[k]) /\ admitted'[k][i] = admitted[k][i]
    BY <1>0, <1>3, <1>4
  <2> QED
    BY <1>1, <2>1 DEF Lone, Counts
<1>11. \A i \in 1..m : Lone(k, i) /\ now - Minute <= admitted[k][i] => Counts(k, i)
  <2> SUFFICES ASSUME NEW i \in 1..m, Lone(k, i), now - Minute <= admitted[k][i] PROVE Counts(k, i)
    OBVIOUS
  <2>1. lastSweep \in Int /\ Minute \in Nat /\ admitted[k][i] \in Nat
    BY <1>0, <1>3
  <2>2. lastSweep - Minute <= admitted[k][i]
    BY <1>3, <2>1
  <2> QED
    BY <1>3, <2>2 DEF Counts
<1>12. \A i \in 1..m : Lone(k, i) /\ Counts(k, i) => Placed(k, i)
  BY <1>0, <1>3 DEF WindowInv
<1>13. /\ \A i, j \in 1..m : Lone(k, i) /\ i < j => admitted[k][i] <= admitted[k][j]
       /\ \A i, j \in 1..m : j = i + Limit /\ Lone(k, i) => admitted[k][j] - admitted[k][i] > Minute
  BY <1>0, <1>3 DEF WindowInv
<1>14. Limit \in Nat \ {0} /\ Minute \in Nat
  OBVIOUS
<1>15. \A i \in 1..(m + 1) : i \in 1..m \/ i = m + 1
  BY <1>3
<1>16. \A i \in 1..(m + 1) : i \in Nat
  BY <1>3
<1>17. ASSUME NEW i \in 1..(m + 1), NEW j \in 1..(m + 1), Lone(k, i)', i < j
       PROVE  admitted'[k][i] <= admitted'[k][j]
  <2>1. i \in 1..m
    BY <1>3, <1>17
  <2>2. Lone(k, i) /\ admitted'[k][i] = admitted[k][i]
    BY <1>4, <1>10, <1>17, <2>1
  <2> QED
    BY <1>4, <1>5, <1>13, <1>15, <1>17, <2>1, <2>2
<1>18. ASSUME NEW i \in 1..(m + 1), Lone(k, i)', Counts(k, i)' PROVE Placed(k, i)'
  <2> DEFINE p == n - (m - i)
  <2>1. (n + 1) - ((m + 1) - i) = p
    <3>1. i \in Int /\ m \in Int /\ n \in Int
      BY <1>3, <1>16
    <3> QED
      BY <3>1
  <2>2. CASE i \in 1..m
    <3>1. p \in 1..n /\ window[d][p] = admitted[k][i]
      BY <1>7, <1>10, <1>12, <1>18, <2>2
    <3>2. p \in 1..(n + 1) /\ window'[d][p] = admitted'[k][i]
      BY <1>3, <1>4, <2>2, <3>1
    <3> QED
      BY <1>8, <2>1, <3>2
  <2>3. CASE i = m + 1
    <3>1. p = n + 1 /\ n + 1 \in 1..(n + 1)
      BY <1>3, <2>3
    <3> QED
      BY <1>4, <1>8, <2>1, <2>3, <3>1
  <2> QED
    BY <1>15, <2>2, <2>3
<1>19. ASSUME NEW i \in 1..(m + 1), NEW j \in 1..(m + 1), j = i + Limit, Lone(k, i)'
       PROVE  admitted'[k][j] - admitted'[k][i] > Minute
  <2>1. i \in 1..m
    BY <1>3, <1>14, <1>16, <1>19
  <2>2. Lone(k, i) /\ admitted'[k][i] = admitted[k][i] /\ admitted[k][i] \in Nat
    BY <1>4, <1>9, <1>10, <1>19, <2>1
  <2>3. CASE j \in 1..m
    BY <1>4, <1>13, <1>19, <2>1, <2>2, <2>3
  <2>4. CASE j = m + 1
    <3> SUFFICES ASSUME ~(now - admitted[k][i] > Minute) PROVE FALSE
      BY <1>4, <2>2, <2>4
    <3>1. now - Minute <= admitted[k][i]
      BY <1>3, <1>14, <2>2
    <3>2. n - (m - i) \in 1..n
      BY <1>7, <1>11, <1>12, <2>1, <2>2, <3>1
    <3> QED
      BY <1>3, <1>14, <1>16, <1>19, <2>4, <3>2
  <2> QED
    BY <1>15, <2>3, <2>4
<1>20. ASSUME NEW a \in Addresses, a # k
       PROVE  /\ admitted'[a] = admitted[a]
              /\ \A i \in 1..Len(admitted[a]) : Lone(a, i)' <=> Lone(a, i)
              /\ \A i \in 1..Len(admitted[a]) : Counts(a, i)' <=> Counts(a, i)
              /\ \A i \in 1..Len(admitted[a]) : Placed(a, i) => Placed(a, i)'
  <2>1. admitted'[a] = admitted[a]
    BY <1>4, <1>20
  <2>2. a \in Known => window'[hits[a]] = window[hits[a]]
    BY <1>4, <1>6, <1>20
  <2>3. \A i \in 1..Len(admitted[a]) : (Lone(a, i)' <=> Lone(a, i)) /\ (Counts(a, i)' <=> Counts(a, i))
    BY <1>1, <2>1 DEF Lone, Counts
  <2>4. \A i \in 1..Len(admitted[a]) : Placed(a, i) => Placed(a, i)'
    BY <1>1, <2>1, <2>2 DEF Placed, Place, Known
  <2> QED
    BY <2>1, <2>3, <2>4
<1>21. WindowInv'
  <2> HIDE DEF Lone, Counts, Placed
  <2>1. ASSUME NEW a \in Addresses, a # k
        PROVE  /\ \A i, j \in 1..Len(admitted'[a]) : Lone(a, i)' /\ i < j => admitted'[a][i] <= admitted'[a][j]
               /\ \A i \in 1..Len(admitted'[a]) : Lone(a, i)' /\ Counts(a, i)' => Placed(a, i)'
               /\ \A i, j \in 1..Len(admitted'[a]) :
                    j = i + Limit /\ Lone(a, i)' => admitted'[a][j] - admitted'[a][i] > Minute
    <3>1. /\ \A i, j \in 1..Len(admitted[a]) : Lone(a, i) /\ i < j => admitted[a][i] <= admitted[a][j]
          /\ \A i \in 1..Len(admitted[a]) : Lone(a, i) /\ Counts(a, i) => Placed(a, i)
          /\ \A i, j \in 1..Len(admitted[a]) :
               j = i + Limit /\ Lone(a, i) => admitted[a][j] - admitted[a][i] > Minute
      BY DEF WindowInv
    <3> QED
      BY <1>20, <2>1, <3>1
  <2>2. ASSUME NEW a \in Addresses, a = k
        PROVE  /\ \A i, j \in 1..Len(admitted'[a]) : Lone(a, i)' /\ i < j => admitted'[a][i] <= admitted'[a][j]
               /\ \A i \in 1..Len(admitted'[a]) : Lone(a, i)' /\ Counts(a, i)' => Placed(a, i)'
               /\ \A i, j \in 1..Len(admitted'[a]) :
                    j = i + Limit /\ Lone(a, i)' => admitted'[a][j] - admitted'[a][i] > Minute
    BY <1>4, <1>17, <1>18, <1>19, <2>2
  <2> QED
    BY <1>1, <2>1, <2>2 DEF WindowInv
<1> QED
  BY <1>2, <1>21

\* Every step keeps what requests that run one by one leave behind.
LEMMA AloneStep ==
  TypeInv /\ OwnersInv /\ ClockInv /\ AloneInv /\ WindowInv /\ [Next]_vars => AloneInv' /\ WindowInv'
<1> SUFFICES ASSUME TypeInv, OwnersInv, ClockInv, AloneInv, WindowInv, [Next]_vars PROVE AloneInv' /\ WindowInv'
  OBVIOUS
<1>1. ASSUME NEW t \in Threads, Step(t), Stays PROVE AloneInv' /\ WindowInv'
  <2>1. t \in Busy
    BY <1>1 DEF Step, SweepBegins, SweepScans, SweepDeletes, FindWindow, Trim, Pop, Refuse, Pass, Hit, At, Busy
  <2>2. overlap' = overlap /\ (admitted' = admitted \/ Hit(t))
    BY <1>1 DEF Step, SweepBegins, SweepScans, SweepDeletes, FindWindow, Trim, Pop, Refuse, Pass, Hit
  <2>3. CASE thread[t].now <= overlap /\ NoneLone
    BY <1>1, <2>1, <2>2, <2>3, NoneToKeep
  <2>4. CASE thread[t].now > overlap /\ Busy = {t} /\ Undisturbed(t)
    BY <1>1, <2>1, <2>4, AloneSweeps, AloneFinds, AloneTrims, AloneHits DEF Step
  <2> QED
    BY <2>1, <2>3, <2>4, AloneOrNone
<1>2. ASSUME Tick \/ UNCHANGED vars PROVE AloneInv' /\ WindowInv'
  <2>1. UNCHANGED <<hits, window, thread, lastSweep, asked, admitted, overlap>>
    BY <1>2 DEF Tick, vars
  <2>2. Busy' = Busy
    BY <2>1 DEF Busy
  <2>3. \A a \in Addresses : \A i \in 1..Len(admitted[a]) :
          (Lone(a, i)' <=> Lone(a, i)) /\ (Counts(a, i)' <=> Counts(a, i)) /\ (Placed(a, i)' <=> Placed(a, i))
    BY <2>1 DEF Lone, Counts, Placed, Place, Known
  <2>4. \A t \in Busy : Undisturbed(t)' <=> Undisturbed(t)
    BY <2>1 DEF Undisturbed, Lone
  <2>5. AloneInv'
    BY <2>1, <2>2, <2>4 DEF AloneInv, NoneLone, Lone
  <2>6. WindowInv'
    <3> HIDE DEF Lone, Counts, Placed
    <3> QED
      BY <2>1, <2>3 DEF WindowInv
  <2> QED
    BY <2>5, <2>6
<1> QED
  BY <1>1, <1>2, Staying, AloneArrives DEF Next

-----------------------------------------------------------------------------
Safe ==
  /\ TypeInv /\ OwnersInv /\ ClockInv /\ CopyInv /\ OrderInv /\ SweepInv
  /\ AloneInv /\ WindowInv /\ broken \in BOOLEAN

\* It holds at the start, when no window is in use.
LEMMA SafeInit == Init => Safe
<1> SUFFICES ASSUME Init PROVE Safe
  OBVIOUS
<1>1. TypeInv
  BY TypeInit
<1>2. /\ Known = {} /\ Busy = {} /\ clock = 0 /\ lastSweep = Never /\ overlap = Never
      /\ \A t \in Threads : thread[t].win = NoWindow /\ thread[t].at = "idle"
      /\ \A a \in Addresses : asked[a] = Never /\ admitted[a] = <<>>
      /\ \A d \in Windows : window[d] = <<>>
  BY DEF Init, Known, Busy, Idle
<1>3. Never \in Int /\ Never < 0
  BY <1>1, Numbers
<1>4. Len(<<>>) = 0
  BY EmptySeq
<1>5. OwnersInv /\ CopyInv /\ SweepInv
  BY <1>2 DEF OwnersInv, CopyInv, SweepInv
<1>6. ClockInv
  BY <1>2, <1>3, <1>4 DEF ClockInv
<1>7. OrderInv
  BY <1>2, <1>4 DEF OrderInv
<1>8. AloneInv /\ WindowInv
  BY <1>2, <1>4 DEF AloneInv, WindowInv
<1>9. broken \in BOOLEAN
  BY Zenon DEF Init
<1> QED
  BY <1>1, <1>5, <1>6, <1>7, <1>8, <1>9 DEF Safe

\* Every step keeps it.
LEMMA SafeStep == Safe /\ [Next]_vars => Safe'
<1> SUFFICES ASSUME Safe, [Next]_vars PROVE Safe'
  OBVIOUS
<1>1. broken' \in BOOLEAN
  <2>1. broken' = broken \/ broken' = TRUE
    BY DEF Next, Step, Arrive, SweepBegins, SweepScans, SweepDeletes, FindWindow, Trim, Pop, Refuse, Pass, Hit, Tick, vars
  <2> QED
    BY <2>1, Zenon DEF Safe
<1> QED
  BY <1>1, TypeStep, OwnersStep, ClockStep, CopyStep, OrderStep, SweepStep, AloneStep DEF Safe

\* rate_limit.py: whatever the threads do between one another's statements, the
\* parts of the strengthened invariant hold.
THEOREM RateSafe == Spec => []Safe
<1>1. Init => Safe
  BY SafeInit
<1>2. Safe /\ [Next]_vars => Safe'
  BY SafeStep
<1> QED
  BY <1>1, <1>2, PTL DEF Spec

\* Times, windows and threads keep their types, and a thread that trims, checks or
\* appends has a window (rate_limit.py:38-48).
THEOREM RateTypeCorrect == Spec => []TypeOK
<1>1. Safe => TypeOK
  <2> SUFFICES ASSUME Safe PROVE TypeOK
    OBVIOUS
  <2>1. broken \in BOOLEAN
    BY DEF Safe
  <2>2. DataTypes /\ ThreadTypes
    BY DEF Safe, TypeInv
  <2>3. \A t \in Threads : thread[t].at \in {"trim", "pop", "check", "append"} => thread[t].win # NoWindow
    BY <2>2 DEF ThreadTypes, Holding
  <2> QED
    BY <2>1, <2>2, <2>3, Zenon DEF TypeOK, DataTypes, ThreadTypes, Locals, Places
<1> QED
  BY <1>1, RateSafe, PTL

\* rate_limit.py:22-36: when no sweep is under way and none was cut short, the map
\* keeps only addresses asked since a minute before the last sweep.
THEOREM OnlyRecentAreKept == Spec => []OnlyRecentKept
<1>1. Safe => OnlyRecentKept
  <2> SUFFICES ASSUME Safe, ~broken, \A t \in Threads : ~At(t, "scan") /\ ~At(t, "delete"), NEW a \in Known
               PROVE  asked[a] >= lastSweep - Minute
    BY DEF OnlyRecentKept
  <2>1. Recent(a)
    BY DEF Safe, SweepInv, At
  <2>2. asked[a] \in Int /\ lastSweep \in Int /\ Minute \in Int
    BY Numbers DEF Safe, Known
  <2> QED
    BY <2>1, <2>2 DEF Recent
<1> QED
  BY <1>1, RateSafe, PTL

\* rate_limit.py:15-20, 38-49: of the hits since requests last ran beside one
\* another, the one that is Limit hits after another comes more than a minute later.
THEOREM LimitHolds == Spec => []Bounded
<1>1. Safe => Bounded
  <2> SUFFICES ASSUME Safe, NEW a \in Addresses, NEW i \in DOMAIN admitted[a], NEW j \in DOMAIN admitted[a],
                      j = i + Limit, admitted[a][i] > overlap
               PROVE  admitted[a][j] - admitted[a][i] > Minute
    BY DEF Bounded
  <2>1. DOMAIN admitted[a] = 1..Len(admitted[a])
    BY DEF Safe, TypeInv, DataTypes
  <2> QED
    BY <2>1 DEF Safe, WindowInv, Lone
<1> QED
  BY <1>1, RateSafe, PTL

\* rate_limit.py:40-48, 54-57: a request is refused only when Limit requests of its
\* own address got through within the last minute, and the tick by which threads
\* may append out of order.
THEOREM RefusalsAreDue == Spec => NoFalseRefusal
<1>1. ASSUME Safe, NEW t \in Threads, Refuse(t)
      PROVE  Cardinality(Within(thread[t].key, thread[t].now - Minute - 1, MaxTime)) >= Limit
  <2> DEFINE d == thread[t].win
             k == thread[t].key
             S == Within(k, thread[t].now - Minute - 1, MaxTime)
             n == Len(window[d])
  <2>1. /\ thread[t].at = "check" /\ d \in Windows /\ k \in Addresses /\ d # NoWindow /\ n >= Limit
        /\ window[d] \in Seq(Times) /\ admitted[k] \in Seq(Times)
    BY <1>1 DEF Refuse, At, Full, Safe, TypeInv, DataTypes, ThreadTypes, Locals, Holding
  <2>2. n \in Nat /\ Len(admitted[k]) \in Nat /\ thread[t].now \in Nat /\ Minute \in Nat /\ Limit \in Nat /\ MaxTime \in Nat
    BY <1>1, <2>1, Numbers, RateAssumption DEF Safe
  <2>3. PICK g \in [1..n -> 1..Len(admitted[k])] : IsCopy(g, window[d], admitted[k])
    BY <1>1, <2>1 DEF Safe, CopyInv, Copied
  <2>4. ASSUME NEW i \in 1..n PROVE g[i] \in S
    <3>1. g[i] \in DOMAIN admitted[k] /\ window[d][i] = admitted[k][g[i]]
      BY <2>1, <2>3 DEF IsCopy
    <3>2. window[d][i] \in Times
      BY <2>1, ElementOfSeq
    <3>3. thread[t].now - Minute - 1 <= window[d][i]
      BY <1>1, <2>1 DEF Safe, OrderInv
    <3>4. window[d][i] \in (thread[t].now - Minute - 1)..MaxTime
      BY <2>2, <3>2, <3>3 DEF Times
    <3> QED
      BY <3>1, <3>4 DEF Within
  <2>5. g \in Injection(1..n, S)
    <3>1. g \in [1..n -> S]
      BY <2>3, <2>4
    <3>2. \A i, j \in 1..n : g[i] = g[j] => i = j
      BY <2>3 DEF IsCopy
    <3> HIDE DEF S, n
    <3> QED
      BY <3>1, <3>2 DEF Injection, IsInjective
  <2>6. IsFiniteSet(S)
    <3>1. IsFiniteSet(1..Len(admitted[k]))
      <4> DEFINE m == Len(admitted[k])
      <4> SUFFICES IsFiniteSet(1..m)
        OBVIOUS
      <4>1. 1 \in Int /\ m \in Int
        BY <2>2
      <4> HIDE DEF m
      <4> QED
        BY <4>1, FS_Interval
    <3>2. S \subseteq 1..Len(admitted[k])
      BY <2>1 DEF Within
    <3> QED
      BY <3>1, <3>2, FS_Subset
  <2>7. IsFiniteSet(1..n) /\ Cardinality(1..n) = n
    <3> HIDE DEF n
    <3>1. 1 \in Int /\ n \in Int /\ (1 > n => n = 0)
      BY <2>2
    <3> QED
      BY <2>2, <3>1, FS_Interval
  <2>8. Cardinality(1..n) <= Cardinality(S)
    <3> HIDE DEF S, n
    <3> QED
      BY <2>5, <2>6, <2>7, FS_Injection
  <2>9. Cardinality(S) \in Nat
    BY <2>6, FS_CardinalityType
  <2> HIDE DEF S, n
  <2> QED
    BY <2>1, <2>2, <2>7, <2>8, <2>9 DEF S
<1>2. Safe /\ [Next]_vars => [\A t \in Threads :
        Refuse(t) => Cardinality(Within(thread[t].key, thread[t].now - Minute - 1, MaxTime)) >= Limit]_vars
  BY <1>1
<1> QED
  BY <1>2, RateSafe, PTL DEF Spec, NoFalseRefusal

=============================================================================
