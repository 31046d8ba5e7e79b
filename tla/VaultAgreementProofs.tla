----------------------- MODULE VaultAgreementProofs ------------------------
(***************************************************************************)
(* Proofs that records and vault files agree once the sync is quiet, and   *)
(* that an acknowledged edit is then in both, however many operations,     *)
(* processes and people interleaved.                                       *)
(*                                                                         *)
(* The argument is about one note at a time: its record may differ from    *)
(* the file shown last only while somebody still has to deal with that     *)
(* file, as reverse-sync which has not read it, or with that record, as    *)
(* the writer who has not projected it.                                    *)
(***************************************************************************)
EXTENDS VaultSyncProofs

(* The inductive invariant, of a note u.                                   *)

Held(u) == Holds(shown[u], u)
Shows(u) == file[shown[u]]
Shard(u) == ShardOf[shown[u]]
Unbroken(u) == marred[u] \cap {"fault", "chunk", "import", "early", "lost"} = {}
Clean(u) == Unbroken(u) /\ "order" \notin marred[u]

OnPass == proc[Worker].op = "reconcile"
Read == IF OnPass THEN proc[Worker].mark ELSE cursor

\* What may still make record and file equal.
Unread(u) == cursor # NoCursor /\ Shows(u).seq > Read[Shard(u)]
Listed(u) ==
  /\ OnPass
  /\ \E i \in DOMAIN proc[Worker].todo :
       /\ proc[Worker].todo[i].text = Shows(u).text
       /\ i = 1 /\ proc[Worker].at = "store" => proc[Worker].rev = record[u].seq
Projecting(w) == proc[w].at \in {"entry", "takeover"}
Pending(w, u) ==
  /\ Projecting(w) /\ Note(w) = u /\ Now(w).text = record[u].text
  /\ proc[w].at = "takeover" => proc[w].rev = file[Entry(Now(w).text)].seq \/ ~Holds(Entry(Now(w).text), u)
Fine(u) ==
  record[u].live /\ Held(u) /\ Clean(u) =>
    record[u].text = Shows(u).text \/ Unread(u) \/ Listed(u) \/ \E w \in Procs : Pending(w, u)

\* The last acknowledged edit is in the file, or on its way there.
Bringing(w, u) == Projecting(w) /\ Note(w) = u /\ Now(w).text.ver = edited[u]
Kept(u) ==
  record[u].live /\ marred[u] = {} =>
    (Held(u) /\ Shows(u).text.ver = edited[u]) \/ \E w \in Procs : Bringing(w, u)

\* The file shown was written after the note's other files.
ShownLast(u) == \A e \in Entries : Held(u) /\ Holds(e, u) => file[e].seq <= Shows(u).seq

\* In one shard the page that is being read ends, for each note, with the file shown.
OneShard == \A d, e \in Documents : ShardOf[d] = ShardOf[e]
ListLast(u) ==
  OneShard /\ OnPass => \A j \in DOMAIN proc[Worker].todo :
    proc[Worker].todo[j].text.uid = u /\ Unbroken(u) /\ Held(u) /\ Shows(u).seq <= proc[Worker].mark[Shard(u)]
      => \E i \in DOMAIN proc[Worker].todo : i >= j /\ proc[Worker].todo[i].text = Shows(u).text

NoteInv(u) == ShownLast(u) /\ ListLast(u) /\ Fine(u) /\ Kept(u)

\* Reverse-sync is the worker's, and its bookmarks never run ahead of the store.
UpTo(mark, n) == \A s \in Shards : mark[s] <= n
Behind(mark, other) == \A s \in Shards : mark[s] <= other[s]
Proper(w) ==
  /\ proc[w].op = "reconcile" =>
       /\ w = Worker /\ proc[w].at \in {"match", "store", "save"} /\ UpTo(proc[w].mark, seq)
       /\ proc[w].at # "save" => cursor # NoCursor
       /\ cursor # NoCursor => Behind(cursor, proc[w].mark)
  /\ proc[w].at = "save" => proc[w].op = "reconcile" /\ proc[w].todo = <<>>
PassOK == (cursor # NoCursor => UpTo(cursor, seq)) /\ \A w \in Procs : Proper(w)

InSequence == OneShard => \A u \in Uids : "order" \in marred[u] => ~Unbroken(u)

SyncInv == VaultInv /\ PassOK /\ InSequence /\ \A u \in Uids : NoteInv(u)

-----------------------------------------------------------------------------
(* Notes that a step has nothing to do with.                               *)

\* The pass goes on as it was, if there is one.
SamePass == (OnPass' <=> OnPass) /\ (OnPass => proc'[Worker] = proc[Worker]) /\ cursor' = cursor

\* No file changes but into one that is not u's.
FilesKept(u) == shown'[u] = shown[u] /\ \A p \in Entries : file'[p] = file[p] \/ ~Holds(p, u)'

\* Nobody drops a projection of u, unless that is known of the note.
Carries(w, u) ==
  /\ Pending(w, u) => Pending(w, u)' \/ ~Clean(u)'
  /\ Bringing(w, u) => Bringing(w, u)' \/ marred'[u] # {}
Carried(u) == \A w \in Procs : Carries(w, u)

\* The last edit's file stays, or the note is marred.
EditKept(u) == marred'[u] = {} /\ record[u].live /\ Held(u) /\ Shows(u).text.ver = edited[u] => Shows(u)' = Shows(u)

LEMMA NoteKept ==
  ASSUME VaultInv, NEW u \in Uids, NoteInv(u), record'[u] = record[u], edited'[u] = edited[u],
         marred[u] \subseteq marred'[u], FilesKept(u), SamePass, Carried(u), EditKept(u)
  PROVE  NoteInv(u)'
<1>1. shown[u] \in Entries
  BY DEF VaultInv, RestTypeOK
<1>2. /\ Held(u)' => Held(u) /\ Shows(u)' = Shows(u)
      /\ Clean(u)' => Clean(u)
      /\ (Unbroken(u)' => Unbroken(u)) /\ Shard(u)' = Shard(u)
  BY <1>1 DEF FilesKept, Held, Shows, Holds, Clean, Unbroken, Shard
<1>4. ShownLast(u)'
  BY <1>2 DEF NoteInv, ShownLast, FilesKept, Holds
<1>5. ListLast(u)'
  BY <1>2 DEF NoteInv, ListLast, SamePass, OnPass
<1>6. Fine(u)'
  <2> SUFFICES ASSUME Held(u)', Clean(u)', record'[u].live
               PROVE  (record[u].text = Shows(u).text \/ Unread(u) \/ Listed(u) \/ \E w \in Procs : Pending(w, u))'
    BY DEF Fine
  <2>1. record[u].text = Shows(u).text \/ Unread(u) \/ Listed(u) \/ \E w \in Procs : Pending(w, u)
    BY <1>2 DEF NoteInv, Fine
  <2>2. Unread(u) => Unread(u)'
    BY <1>2 DEF Unread, SamePass, Read, OnPass
  <2>3. Listed(u) => Listed(u)'
    BY <1>2 DEF Listed, SamePass, OnPass
  <2> QED
    BY <1>2, <2>1, <2>2, <2>3 DEF Carried, Carries
<1>7. Kept(u)'
  <2> SUFFICES ASSUME record'[u].live, marred'[u] = {}
               PROVE  (Held(u) /\ Shows(u).text.ver = edited[u])' \/ \E w \in Procs : Bringing(w, u)'
    BY DEF Kept
  <2>1. (Held(u) /\ Shows(u).text.ver = edited[u]) \/ \E w \in Procs : Bringing(w, u)
    <3>1. marred[u] = {}
      OBVIOUS
    <3> QED
      BY <3>1 DEF NoteInv, Kept
  <2>2. CASE Held(u) /\ Shows(u).text.ver = edited[u]
    BY <2>2 DEF EditKept, Held, Shows, Holds, FilesKept
  <2> QED
    BY <2>1, <2>2 DEF Carried, Carries
<1> QED
  BY <1>4, <1>5, <1>6, <1>7 DEF NoteInv

\* A projection that nobody touches is carried on.
LEMMA StillPending ==
  ASSUME VaultInv, NEW u \in Uids, NEW w \in Procs, proc'[w] = proc[w], record'[u] = record[u], edited'[u] = edited[u],
         FilesKept(u)
  PROVE  Carries(w, u)
<1>1. Now(w)' = Now(w) /\ Note(w)' = Note(w)
  BY DEF Now, Note
<1>2. Projecting(w) => Entry(Now(w).text) \in Entries
  BY Holding DEF VaultInv, Projecting, Writing
<1>3. Projecting(w)' <=> Projecting(w)
  BY DEF Projecting
<1> QED
  BY <1>1, <1>2, <1>3 DEF Carries, Pending, Bringing, FilesKept, Holds

\* A pass that no step of the worker's touches.
LEMMA OtherPass ==
  ASSUME cursor' = cursor, NEW w \in Procs, \A v \in Procs \ {w} : proc'[v] = proc[v],
         w = Worker => ~OnPass /\ ~OnPass'
  PROVE  SamePass
BY VaultAssumption DEF SamePass, OnPass

\* A process that is not on a pass goes on without becoming one.
LEMMA FurtherUpTo ==
  ASSUME NEW mark \in Marks, NEW m \in Nat, NEW n \in Nat, n >= m, UpTo(mark, m)
  PROVE  UpTo(mark, n)
<1>1. \A s \in Shards : mark[s] \in Nat /\ mark[s] <= m
  BY DEF Marks, UpTo
<1> QED
  BY <1>1 DEF UpTo

LEMMA StillProper ==
  ASSUME VaultInv, PassOK, NEW w \in Procs, \A v \in Procs \ {w} : proc'[v] = proc[v], cursor' = cursor,
         seq' \in Nat, seq' >= seq, proc'[w].op # "reconcile", proc'[w].at # "save"
  PROVE  PassOK'
<1>1. seq \in Nat /\ cursor \in Marks \cup {NoCursor} /\ \A v \in Procs : proc[v].mark \in Marks
  BY DEF VaultInv, StoreInv, StoreTypeOK, RestTypeOK, ProcInv, States
<1>2. ASSUME NEW v \in Procs, v # w PROVE Proper(v)'
  <2>1. UpTo(proc[v].mark, seq) => UpTo(proc[v].mark, seq')
    BY <1>1, FurtherUpTo
  <2> QED
    BY <1>2, <2>1 DEF PassOK, Proper
<1>4. cursor # NoCursor => UpTo(cursor, seq')
  BY <1>1, FurtherUpTo DEF PassOK
<1>3. Proper(w)'
  BY DEF Proper
<1> QED
  BY <1>2, <1>3, <1>4 DEF PassOK

\* What NextItem leaves of a process.
LEMMA NextState ==
  ASSUME VaultInv, NEW w \in Procs, proc[w].at \in Writing \cup Reading, NextItem(w)
  PROVE  /\ \A v \in Procs \ {w} : proc'[v] = proc[v]
         /\ proc[w].op # "reconcile" => proc'[w].op # "reconcile" /\ proc'[w].at # "save"
         /\ proc[w].op = "reconcile" =>
              /\ proc'[w].op = "reconcile" /\ proc'[w].mark = proc[w].mark
              /\ proc'[w].todo = Tail(proc[w].todo)
              /\ proc'[w].at = IF Tail(proc[w].todo) = <<>> THEN "save" ELSE "match"
<1>1. proc \in [Procs -> States]
  BY DEF VaultInv, ProcInv
<1> DEFINE old == proc[w]
           last == IF old.op = "reconcile" THEN Saving(old.mark) ELSE Idle
           me == First(old.op, Tail(old.todo), old.mark, last)
<1>2. proc'[w] = me /\ \A v \in Procs \ {w} : proc'[v] = proc[v]
  BY <1>1 DEF NextItem, Enter
<1>3. old.op # "reconcile" => me.op # "reconcile" /\ me.at # "save"
  BY DEF First, Idle
<1>4. old.op = "reconcile" => /\ me.op = "reconcile" /\ me.mark = old.mark /\ me.todo = Tail(old.todo)
                              /\ me.at = IF Tail(old.todo) = <<>> THEN "save" ELSE "match"
  BY DEF First, Idle, Saving
<1> HIDE DEF me
<1> QED
  BY <1>2, <1>3, <1>4

\* Who writes, removes or rests is not on a pass.
LEMMA NotOnPass ==
  ASSUME PassOK, NEW w \in Procs, proc[w].at \in Writing \cup Removing \cup {"idle"}
  PROVE  proc[w].op # "reconcile"
BY DEF PassOK, Proper, Writing, Removing

\* What the steps of a writer leave of it.
LEMMA WentTo ==
  ASSUME VaultInv, NEW w \in Procs, NEW place, Goto(w, place)
  PROVE  /\ proc'[w] = [proc[w] EXCEPT !.at = place] /\ proc'[w].at = place
         /\ proc'[w].op = proc[w].op /\ proc'[w].todo = proc[w].todo /\ proc'[w].rev = proc[w].rev
         /\ \A v \in Procs \ {w} : proc'[v] = proc[v]
<1>1. proc \in [Procs -> States] /\ proc[w] \in States
  BY DEF VaultInv, ProcInv
<1>2. proc'[w] = [proc[w] EXCEPT !.at = place] /\ \A v \in Procs \ {w} : proc'[v] = proc[v]
  BY <1>1 DEF Goto, Enter
<1> QED
  BY <1>1, <1>2 DEF States

LEMMA Stopped ==
  ASSUME VaultInv, NEW w \in Procs, Stop(w)
  PROVE  /\ proc'[w].at = "idle" /\ proc'[w].op = "none" /\ proc'[w].todo = <<>>
         /\ \A v \in Procs \ {w} : proc'[v] = proc[v]
BY DEF VaultInv, ProcInv, Stop, Enter, Idle

LEMMA AfterWriting ==
  ASSUME VaultInv, PassOK, NEW w \in Procs, proc[w].at \in Writing, Projected(w)
  PROVE  /\ proc'[w].op # "reconcile" /\ proc'[w].at # "save"
         /\ \A v \in Procs \ {w} : proc'[v] = proc[v]
<1>1. proc[w].op # "reconcile"
  BY NotOnPass
<1>2. CASE Goto(w, "find")
  <2>1. proc'[w].at = "find" /\ proc'[w].op = proc[w].op /\ \A v \in Procs \ {w} : proc'[v] = proc[v]
    BY <1>2, WentTo
  <2> QED
    BY <1>1, <2>1
<1>3. CASE NextItem(w)
  BY <1>1, <1>3, NextState
<1> QED
  BY <1>2, <1>3 DEF Projected

\* Revisions and bookmarks are numbers up to the store's own.
LEMMA Numbers ==
  ASSUME VaultInv, PassOK
  PROVE  /\ seq \in Nat /\ \A p \in Entries : file[p].seq \in Nat /\ file[p].seq <= seq
         /\ \A u \in Uids : shown[u] \in Entries /\ record[u].seq \in Nat
         /\ \A e \in Entries : ShardOf[e] \in Shards
         /\ cursor # NoCursor => cursor \in Marks /\ \A s \in Shards : Read[s] \in Nat /\ Read[s] <= seq
         /\ Worker \in Procs /\ proc[Worker].mark \in Marks
         /\ OnPass => UpTo(proc[Worker].mark, seq)
<1>1. seq \in Nat /\ \A p \in Entries : file[p].seq \in Nat /\ file[p].seq <= seq
  BY DEF VaultInv, StoreInv, StoreTypeOK, DocsInv, Written, Docs
<1>2. \A u \in Uids : shown[u] \in Entries /\ record[u].seq \in Nat
  BY DEF VaultInv, StoreInv, StoreTypeOK, RestTypeOK, Records
<1>3. Worker \in Procs /\ proc[Worker].mark \in Marks
  BY VaultAssumption DEF VaultInv, ProcInv, States
<1>4. OnPass => UpTo(proc[Worker].mark, seq)
  BY <1>3 DEF PassOK, Proper, OnPass
<1>5. cursor # NoCursor => cursor \in Marks /\ Read \in Marks /\ UpTo(Read, seq)
  BY <1>3, <1>4 DEF VaultInv, RestTypeOK, PassOK, Read
<1>6. cursor # NoCursor => cursor \in Marks /\ \A s \in Shards : Read[s] \in Nat /\ Read[s] <= seq
  BY <1>5 DEF Marks, UpTo
<1>7. \A e \in Entries : ShardOf[e] \in Shards
  BY StoreAssumption DEF Documents
<1> QED
  BY <1>1, <1>2, <1>3, <1>4, <1>6, <1>7

-----------------------------------------------------------------------------
(* The files.                                                              *)

\* A text of a note that is put in a file is what reverse-sync reads next of it.
LEMMA NoteShown ==
  ASSUME VaultInv, PassOK, NEW u \in Uids, NEW p \in Entries, shown'[u] = p, Holds(p, u)',
         file'[p].seq \in Nat, file'[p].seq > seq, \A q \in Entries \ {p} : file'[q] = file[q] \/ ~Holds(q, u)',
         SamePass, cursor = NoCursor => "early" \in marred'[u],
         file'[p].text.ver = edited'[u] \/ marred'[u] # {}
  PROVE  NoteInv(u)'
<1>1. Shows(u)' = file'[p] /\ Held(u)'
  BY DEF Shows, Held, Holds
<1>2. ShownLast(u)'
  <2> SUFFICES ASSUME NEW q \in Entries, Holds(q, u)' PROVE file'[q].seq <= file'[p].seq
    BY <1>1 DEF ShownLast
  <2> QED
    BY Numbers
<1>3. ListLast(u)'
  <2> SUFFICES ASSUME OnPass' PROVE ~(Shows(u)'.seq <= proc'[Worker].mark[ShardOf[p]])
    BY DEF ListLast, Shard
  <2>1. proc'[Worker] = proc[Worker] /\ OnPass
    BY DEF SamePass
  <2>2. ShardOf[p] \in Shards /\ UpTo(proc[Worker].mark, seq) /\ proc[Worker].mark \in Marks /\ seq \in Nat
    BY <2>1, Numbers
  <2>3. proc[Worker].mark[ShardOf[p]] \in Nat /\ proc[Worker].mark[ShardOf[p]] <= seq
    BY <2>2 DEF UpTo, Marks
  <2> QED
    BY <1>1, <2>1, <2>2, <2>3
<1>4. Fine(u)'
  <2> SUFFICES ASSUME Clean(u)' PROVE Unread(u)'
    BY DEF Fine
  <2>1. cursor # NoCursor
    BY DEF Clean, Unbroken, Shard
  <2>2. Read' = Read
    BY DEF SamePass, Read, OnPass
  <2> QED
    <3>1. ShardOf[p] \in Shards /\ Read[ShardOf[p]] \in Nat /\ Read[ShardOf[p]] <= seq /\ seq \in Nat
      BY <2>1, Numbers
    <3>2. file'[p].seq > Read[ShardOf[p]]
      BY <3>1
    <3> QED
      BY <1>1, <2>1, <2>2, <3>2 DEF Unread, SamePass, Shard
<1>5. Kept(u)'
  BY <1>1 DEF Kept
<1> QED
  BY <1>2, <1>3, <1>4, <1>5 DEF NoteInv

LEMMA ProjectNotes ==
  ASSUME SyncInv, NEW w \in Procs, proc[w].at \in Writing, NEW t, t = Now(w).text, Project(w, t.uid, t),
         UNCHANGED <<record, cursor, edited>>
  PROVE  PassOK' /\ \A u \in Uids : NoteInv(u)'
<1>1. VaultInv /\ PassOK
  BY DEF SyncInv
<1> DEFINE me == t.uid
           p == Entry(t)
<1>2. t \in Texts /\ p \in Entries /\ me \in Uids /\ Note(w) = me
  BY <1>1, Holding DEF VaultInv, Note
<1>3. /\ proc'[w].op # "reconcile" /\ proc'[w].at # "save" /\ proc[w].op # "reconcile"
      /\ \A v \in Procs \ {w} : proc'[v] = proc[v]
  BY <1>1, AfterWriting, NotOnPass DEF Project
<1>4. file \in [Entries -> Docs] /\ seq \in Nat /\ shown \in [Uids -> Entries] /\ marred \in [Uids -> SUBSET Harm]
  BY <1>1 DEF VaultInv, StoreInv, StoreTypeOK, RestTypeOK
<1>5. Project(w, me, t)
  OBVIOUS
<1> HIDE DEF me, p
<1>6. /\ file'[p] = [live |-> TRUE, seq |-> seq + 1, text |-> t] /\ \A q \in Entries \ {p} : file'[q] = file[q]
      /\ seq' = seq + 1
  BY <1>2, <1>4, <1>5 DEF Project, WriteFile, p
<1>7. shown'[me] = p /\ \A u \in Uids \ {me} : shown'[u] = shown[u]
  BY <1>2, <1>4, <1>5 DEF Project, p
<1>8. \A u \in Uids : marred'[u] = marred[u] \cup (IF u = me THEN Early ELSE {})
                        \cup (IF IF u = me THEN t.ver # edited[u] ELSE Holds(p, u) THEN {"crossed"} ELSE {})
  BY <1>5 DEF Project, p
<1>9. PassOK'
  BY <1>1, <1>3, <1>4, <1>6, StillProper
<1>10. SamePass
  BY <1>3, OtherPass DEF OnPass
<1>11. NoteInv(me)'
  <2>1. Holds(p, me)'
    BY <1>2, <1>6 DEF Holds, me
  <2>2. cursor = NoCursor => "early" \in marred'[me]
    BY <1>2, <1>8 DEF Early
  <2>3. file'[p].text.ver = edited'[me] \/ marred'[me] # {}
    BY <1>2, <1>6, <1>8
  <2>4. file'[p].seq \in Nat /\ file'[p].seq > seq
    BY <1>4, <1>6
  <2> QED
    BY <1>1, <1>2, <1>6, <1>7, <1>10, <2>1, <2>2, <2>3, <2>4, NoteShown
<1>12. ASSUME NEW u \in Uids, u # me PROVE NoteInv(u)'
  <2>1. FilesKept(u)
    BY <1>2, <1>6, <1>7, <1>12 DEF FilesKept, Holds, me
  <2>2. Carried(u)
    <3> SUFFICES ASSUME NEW v \in Procs PROVE Carries(v, u)
      BY DEF Carried
    <3>1. CASE v = w
      BY <1>2, <1>12, <3>1 DEF Carries, Pending, Bringing
    <3>2. CASE v # w
      BY <1>1, <1>3, <2>1, <3>2, StillPending
    <3> QED
      BY <3>1, <3>2
  <2>3. EditKept(u)
    <3>1. CASE shown[u] # p
      BY <1>1, <1>6, <1>7, <1>12, <3>1, Numbers DEF EditKept, Shows
    <3>2. CASE shown[u] = p
      BY <1>8, <1>12, <3>2 DEF EditKept, Held
    <3> QED
      BY <3>1, <3>2
  <2>4. marred[u] \subseteq marred'[u] /\ NoteInv(u)
    BY <1>8 DEF SyncInv
  <2> QED
    BY <1>1, <1>10, <2>1, <2>2, <2>3, <2>4, NoteKept
<1> QED
  BY <1>9, <1>11, <1>12

\* A file is marked deleted.
LEMMA NotesHidden ==
  ASSUME SyncInv, NEW p \in Entries, HideFile(p), UNCHANGED <<record, cursor, edited, shown>>, SamePass,
         \A u \in Uids : marred[u] \subseteq marred'[u],
         \A u \in Uids : record[u].live /\ Holds(p, u) /\ file[p].text.ver = edited[u] => marred'[u] # {},
         \A w \in Procs : proc'[w] = proc[w] \/ ~Projecting(w)
  PROVE  \A u \in Uids : NoteInv(u)'
<1>1. VaultInv /\ PassOK
  BY DEF SyncInv
<1>2. file \in [Entries -> Docs]
  BY <1>1 DEF VaultInv, StoreInv, StoreTypeOK
<1>3. ~file'[p].live /\ \A q \in Entries \ {p} : file'[q] = file[q]
  BY <1>2 DEF HideFile, Docs
<1> SUFFICES ASSUME NEW u \in Uids PROVE NoteInv(u)'
  OBVIOUS
<1>4. FilesKept(u)
  BY <1>3 DEF FilesKept, Holds
<1>5. Carried(u)
  <2> SUFFICES ASSUME NEW w \in Procs PROVE Carries(w, u)
    BY DEF Carried
  <2>1. CASE proc'[w] = proc[w]
    BY <1>1, <1>4, <2>1, StillPending
  <2>2. CASE ~Projecting(w)
    BY <2>2 DEF Carries, Pending, Bringing
  <2> QED
    BY <2>1, <2>2
<1>6. EditKept(u)
  <2>1. shown[u] \in Entries /\ shown'[u] = shown[u]
    BY <1>1, Numbers
  <2>2. CASE shown[u] # p
    BY <1>3, <2>1, <2>2 DEF EditKept, Shows
  <2>3. CASE shown[u] = p
    BY <2>3 DEF EditKept, Shows, Held
  <2> QED
    BY <2>2, <2>3
<1>7. NoteInv(u)
  BY DEF SyncInv
<1> QED
  BY <1>1, <1>4, <1>5, <1>6, <1>7, NoteKept

-----------------------------------------------------------------------------
(* The records, and what leaves the store alone.                           *)

\* Nothing but one record changes.
LEMMA NoteRecorded ==
  ASSUME SyncInv, NEW u \in Uids, UNCHANGED <<file, shown, cursor>>, SamePass,
         \A v \in Uids : marred[v] \subseteq marred'[v],
         \A v \in Uids \ {u} : record'[v] = record[v] /\ edited'[v] = edited[v],
         \A w \in Procs : proc'[w] = proc[w] \/ ~Projecting(w),
         Fine(u)', Kept(u)'
  PROVE  \A v \in Uids : NoteInv(v)'
<1>1. VaultInv /\ PassOK
  BY DEF SyncInv
<1> SUFFICES ASSUME NEW v \in Uids PROVE NoteInv(v)'
  OBVIOUS
<1>2. NoteInv(v) /\ marred[v] \subseteq marred'[v]
  BY DEF SyncInv
<1>3. CASE v = u
  <2>1. Held(u)' = Held(u) /\ Shows(u)' = Shows(u) /\ (Clean(u)' => Clean(u)) /\ (Unbroken(u)' => Unbroken(u)) /\ Shard(u)' = Shard(u)
    BY <1>2, <1>3 DEF Held, Shows, Holds, Clean, Unbroken, Shard
  <2>2. ShownLast(u)'
    BY <1>2, <1>3, <2>1 DEF NoteInv, ShownLast, Holds
  <2>3. ListLast(u)'
    BY <1>2, <1>3, <2>1 DEF NoteInv, ListLast, SamePass, OnPass
  <2> QED
    BY <1>3, <2>2, <2>3 DEF NoteInv
<1>4. CASE v # u
  <2>1. FilesKept(v) /\ EditKept(v)
    BY DEF FilesKept, EditKept, Shows
  <2>2. Carried(v)
    <3> SUFFICES ASSUME NEW w \in Procs PROVE Carries(w, v)
      BY DEF Carried
    <3>1. CASE proc'[w] = proc[w]
      BY <1>1, <1>4, <2>1, <3>1, StillPending
    <3>2. CASE ~Projecting(w)
      BY <3>2 DEF Carries, Pending, Bringing
    <3> QED
      BY <3>1, <3>2
  <2> QED
    BY <1>1, <1>2, <1>4, <2>1, <2>2, NoteKept
<1> QED
  BY <1>3, <1>4

\* A process that is not on a pass does something of no effect on the store.
LEMMA Aside ==
  ASSUME SyncInv, NEW w \in Procs, UNCHANGED <<record, file, seq, shown, cursor, edited>>,
         \A v \in Procs \ {w} : proc'[v] = proc[v], proc[w].op # "reconcile",
         proc'[w].op # "reconcile", proc'[w].at # "save",
         \A u \in Uids : marred[u] \subseteq marred'[u], \A u \in Uids : Carries(w, u)
  PROVE  PassOK' /\ \A u \in Uids : NoteInv(u)'
<1>1. VaultInv /\ PassOK
  BY DEF SyncInv
<1>2. PassOK'
  BY <1>1, Numbers, StillProper
<1>3. SamePass
  BY OtherPass DEF OnPass
<1>4. ASSUME NEW u \in Uids PROVE NoteInv(u)'
  <2>1. FilesKept(u) /\ EditKept(u)
    BY DEF FilesKept, EditKept, Shows
  <2>2. Carried(u)
    <3> SUFFICES ASSUME NEW v \in Procs, v # w PROVE Carries(v, u)
      BY DEF Carried
    <3> QED
      BY <1>1, <2>1, StillPending
  <2>3. NoteInv(u) /\ marred[u] \subseteq marred'[u]
    BY DEF SyncInv
  <2> QED
    BY <1>1, <1>3, <2>1, <2>2, <2>3, NoteKept
<1> QED
  BY <1>2, <1>4

-----------------------------------------------------------------------------
(* The writing routine.                                                    *)

LEMMA PutSync ==
  ASSUME SyncInv, NEW w \in Procs, Put(w)
  PROVE  PassOK' /\ \A u \in Uids : NoteInv(u)'
<1>1. VaultInv /\ PassOK /\ proc[w].at = "put" /\ proc[w].at \in Writing
  BY DEF SyncInv, Put, Writing
<1> SUFFICES ASSUME NEW t, t = Now(w).text, NEW u, u = Note(w) PROVE PassOK' /\ \A v \in Uids : NoteInv(v)'
  OBVIOUS
<1>2. u \in Uids /\ t \in Texts /\ proc[w].op # "reconcile" /\ ~Projecting(w)
  BY <1>1, Holding, NotOnPass DEF VaultInv, Projecting
<1>3. UNCHANGED <<cursor, file, late, shown, marred>>
  BY DEF Put
<1>4. CASE WriteRecord(u, t) /\ edited' = [edited EXCEPT ![u] = t.ver] /\ Goto(w, "entry")
  <2>1. /\ proc'[w].at = "entry" /\ proc'[w].op = proc[w].op /\ proc'[w].todo = proc[w].todo
        /\ \A v \in Procs \ {w} : proc'[v] = proc[v]
    BY <1>1, <1>4, WentTo
  <2>2. record \in [Uids -> Records] /\ edited \in [Uids -> Nat] /\ seq \in Nat
    BY <1>1 DEF VaultInv, StoreInv, StoreTypeOK, RestTypeOK
  <2>3. /\ seq' = seq + 1 /\ record'[u].text = t /\ edited'[u] = t.ver
        /\ \A v \in Uids \ {u} : record'[v] = record[v] /\ edited'[v] = edited[v]
    BY <1>2, <1>4, <2>2 DEF WriteRecord
  <2>4. PassOK'
    BY <1>1, <1>2, <1>3, <2>1, <2>2, <2>3, StillProper
  <2>5. SamePass
    BY <1>2, <1>3, <2>1, OtherPass DEF OnPass
  <2>6. Now(w)' = Now(w) /\ Note(w)' = u /\ Projecting(w)'
    BY <2>1 DEF Now, Note, Projecting
  <2>7. Pending(w, u)' /\ Bringing(w, u)'
    BY <2>1, <2>3, <2>6 DEF Pending, Bringing
  <2> QED
    BY <1>2, <1>3, <2>1, <2>3, <2>4, <2>5, <2>7, NoteRecorded DEF Fine, Kept
<1>5. CASE NextItem(w) /\ UNCHANGED <<record, seq, edited>>
  <2>1. /\ \A v \in Procs \ {w} : proc'[v] = proc[v]
        /\ proc'[w].op # "reconcile" /\ proc'[w].at # "save"
    BY <1>1, <1>2, <1>5, NextState
  <2>2. \A v \in Uids : Carries(w, v)
    BY <1>2 DEF Carries, Pending, Bringing
  <2> QED
    BY <1>2, <1>3, <1>5, <2>1, <2>2, Aside
<1> QED
  BY <1>4, <1>5 DEF Put

LEMMA PutEntrySync ==
  ASSUME SyncInv, NEW w \in Procs, PutEntry(w)
  PROVE  PassOK' /\ \A u \in Uids : NoteInv(u)'
<1>1. VaultInv /\ PassOK /\ proc[w].at = "entry" /\ proc[w].at \in Writing
  BY DEF SyncInv, PutEntry, Writing
<1> SUFFICES ASSUME NEW t, t = Now(w).text PROVE PassOK' /\ \A u \in Uids : NoteInv(u)'
  OBVIOUS
<1>2. Entry(t) \in Entries /\ proc[w].op # "reconcile" /\ UNCHANGED <<record, cursor, edited>>
  BY <1>1, Holding, NotOnPass DEF VaultInv, PutEntry
<1>3. CASE Project(w, t.uid, t)
  BY <1>1, <1>2, <1>3, ProjectNotes
<1>4. CASE /\ Enter(w, [proc[w] EXCEPT !.at = "takeover", !.rev = file[Entry(t)].seq])
           /\ UNCHANGED <<file, late, seq, shown, marred>>
  <2>1. proc \in [Procs -> States] /\ proc[w] \in States
    BY <1>1 DEF VaultInv, ProcInv
  <2>2. /\ proc'[w].at = "takeover" /\ proc'[w].rev = file[Entry(t)].seq /\ proc'[w].op = proc[w].op
        /\ proc'[w].todo = proc[w].todo /\ \A v \in Procs \ {w} : proc'[v] = proc[v]
    BY <1>4, <2>1 DEF Enter, States
  <2>3. Now(w)' = Now(w) /\ Note(w)' = Note(w) /\ Projecting(w)'
    BY <2>2 DEF Now, Note, Projecting
  <2>4. \A u \in Uids : Carries(w, u)
    BY <1>2, <1>4, <2>2, <2>3 DEF Carries, Pending, Bringing
  <2> QED
    BY <1>2, <1>4, <2>2, <2>4, Aside
<1> QED
  BY <1>3, <1>4 DEF PutEntry

\* What Mar and MarAll leave of the notes' marks.
LEMMA Marked ==
  ASSUME VaultInv, NEW u, NEW harm, Mar(u, harm)
  PROVE  /\ \A v \in Uids : marred[v] \subseteq marred'[v]
         /\ u \in Uids => marred'[u] = marred[u] \cup harm
BY DEF VaultInv, RestTypeOK, Mar

LEMMA TakeOverSync ==
  ASSUME SyncInv, NEW w \in Procs, TakeOver(w)
  PROVE  PassOK' /\ \A u \in Uids : NoteInv(u)'
<1>1. VaultInv /\ PassOK /\ proc[w].at = "takeover" /\ proc[w].at \in Writing
  BY DEF SyncInv, TakeOver, Writing
<1> SUFFICES ASSUME NEW t, t = Now(w).text PROVE PassOK' /\ \A u \in Uids : NoteInv(u)'
  OBVIOUS
<1>2. /\ Entry(t) \in Entries /\ t.uid \in Uids /\ t.uid = Note(w) /\ proc[w].op # "reconcile"
      /\ UNCHANGED <<record, cursor, edited>>
  BY <1>1, Holding, NotOnPass DEF VaultInv, TakeOver, Note
<1>3. CASE Project(w, t.uid, t)
  BY <1>1, <1>2, <1>3, ProjectNotes
<1>4. CASE /\ file[Entry(t)].seq # proc[w].rev /\ Projected(w) /\ UNCHANGED <<file, late, seq, shown>>
           /\ Mar(t.uid, IF Holds(Entry(t), t.uid) THEN {"crossed"} ELSE {"crossed", "lost"})
  <2>1. /\ proc'[w].op # "reconcile" /\ proc'[w].at # "save"
        /\ \A v \in Procs \ {w} : proc'[v] = proc[v]
    BY <1>1, <1>4, AfterWriting
  <2>2. /\ \A v \in Uids : marred[v] \subseteq marred'[v]
        /\ "crossed" \in marred'[t.uid] /\ (~Holds(Entry(t), t.uid) => "lost" \in marred'[t.uid])
    BY <1>1, <1>2, <1>4, Marked
  <2>3. ASSUME NEW u \in Uids PROVE Carries(w, u)
    <3>1. CASE u # t.uid
      BY <1>2, <3>1 DEF Carries, Pending, Bringing
    <3>2. CASE u = t.uid
      BY <1>1, <1>4, <2>2, <3>2 DEF Carries, Pending, Clean, Unbroken, Shard
    <3> QED
      BY <3>1, <3>2
  <2> QED
    BY <1>2, <1>4, <2>1, <2>2, <2>3, Aside
<1> QED
  BY <1>3, <1>4 DEF TakeOver

-----------------------------------------------------------------------------
(* Deleting, and removing an old file.                                     *)

LEMMA DropSync ==
  ASSUME SyncInv, NEW w \in Procs, Drop(w)
  PROVE  PassOK' /\ \A u \in Uids : NoteInv(u)'
<1>1. VaultInv /\ PassOK /\ proc[w].at = "drop" /\ proc[w].at \in Removing
  BY DEF SyncInv, Drop, Removing
<1> SUFFICES ASSUME NEW u, u = proc[w].old.uid PROVE PassOK' /\ \A v \in Uids : NoteInv(v)'
  OBVIOUS
<1>2. u \in Uids /\ proc[w].op # "reconcile" /\ ~Projecting(w)
  <2>1. proc[w].old \in Texts
    BY <1>1 DEF VaultInv, ProcInv, Begun
  <2> QED
    BY <1>1, <2>1, NotOnPass DEF Texts, Projecting
<1>3. UNCHANGED <<file, cursor, edited, shown, marred>>
  BY DEF Drop, historyVars
<1>4. CASE DropRecord(u) /\ Goto(w, "find")
  <2>1. /\ proc'[w].at = "find" /\ proc'[w].op = proc[w].op
        /\ \A v \in Procs \ {w} : proc'[v] = proc[v]
    BY <1>1, <1>4, WentTo
  <2>2. record \in [Uids -> Records] /\ seq \in Nat
    BY <1>1 DEF VaultInv, StoreInv, StoreTypeOK
  <2>3. seq' = seq + 1 /\ ~record'[u].live /\ \A v \in Uids \ {u} : record'[v] = record[v]
    BY <1>2, <1>4, <2>2 DEF DropRecord, Records
  <2>4. PassOK'
    BY <1>1, <1>2, <1>3, <2>1, <2>2, <2>3, StillProper
  <2>5. SamePass
    BY <1>2, <1>3, <2>1, OtherPass DEF OnPass
  <2>6. Fine(u)' /\ Kept(u)'
    BY <2>3 DEF Fine, Kept
  <2> QED
    BY <1>2, <1>3, <2>1, <2>3, <2>4, <2>5, <2>6, NoteRecorded
<1>5. CASE Stop(w) /\ UNCHANGED <<record, seq>>
  <2>1. \A v \in Uids : Carries(w, v)
    BY <1>2 DEF Carries, Pending, Bringing
  <2> QED
    BY <1>1, <1>2, <1>3, <1>5, <2>1, Stopped, Aside
<1> QED
  BY <1>4, <1>5 DEF Drop

LEMMA FindOldSync ==
  ASSUME SyncInv, NEW w \in Procs, FindOld(w)
  PROVE  PassOK' /\ \A u \in Uids : NoteInv(u)'
<1>1. VaultInv /\ PassOK /\ proc[w].at = "find" /\ proc[w].at \in Removing
  BY DEF SyncInv, FindOld, Removing
<1>2. proc[w].op # "reconcile" /\ \A v \in Uids : Carries(w, v)
  BY <1>1, NotOnPass DEF Carries, Pending, Bringing, Projecting
<1>3. /\ proc'[w].op # "reconcile" /\ proc'[w].at # "save"
      /\ \A v \in Procs \ {w} : proc'[v] = proc[v]
  <2>1. CASE Stop(w)
    BY <1>1, <2>1, Stopped
  <2>2. CASE ~Stop(w)
    <3>1. Enter(w, [proc[w] EXCEPT !.at = "unlink", !.rev = file[Entry(proc[w].old)].seq])
      BY <2>2 DEF FindOld
    <3>2. proc \in [Procs -> States] /\ proc[w] \in States
      BY <1>1 DEF VaultInv, ProcInv
    <3> QED
      BY <1>2, <3>1, <3>2 DEF Enter, States
  <2> QED
    BY <2>1, <2>2
<1> QED
  BY <1>2, <1>3, Aside DEF FindOld, storeVars, historyVars

LEMMA UnlinkSync ==
  ASSUME SyncInv, NEW w \in Procs, Unlink(w)
  PROVE  PassOK' /\ \A u \in Uids : NoteInv(u)'
<1>1. VaultInv /\ PassOK /\ proc[w].at = "unlink" /\ proc[w].at \in Removing
  BY DEF SyncInv, Unlink, Removing
<1> SUFFICES ASSUME NEW p, p = Entry(proc[w].old) PROVE PassOK' /\ \A u \in Uids : NoteInv(u)'
  OBVIOUS
<1>2. p \in Entries /\ proc[w].op # "reconcile" /\ ~Projecting(w) /\ \A v \in Uids : Carries(w, v)
  <2>1. proc[w].old \in Texts
    BY <1>1 DEF VaultInv, ProcInv, Begun
  <2> QED
    BY <1>1, <2>1, EntryType, NotOnPass DEF Projecting, Carries, Pending, Bringing
<1>3. /\ proc'[w].op # "reconcile" /\ proc'[w].at # "save"
      /\ \A v \in Procs \ {w} : proc'[v] = proc[v]
  BY <1>1, Stopped DEF Unlink
<1>4. UNCHANGED <<record, cursor, edited, shown>>
  BY DEF Unlink
<1>5. CASE file[p].seq = proc[w].rev
  <2> SUFFICES ASSUME NEW t, t = file[p].text PROVE PassOK' /\ \A u \in Uids : NoteInv(u)'
    OBVIOUS
  <2>1. HideFile(p) /\ Mar(t.uid, IF record[t.uid].live /\ t.ver = edited[t.uid] THEN {"hidden"} ELSE {})
    BY <1>5 DEF Unlink
  <2>2. PassOK'
    <3>1. seq' = seq + 1 /\ seq \in Nat
      BY <1>1, <2>1, Numbers DEF HideFile
    <3> QED
      BY <1>1, <1>3, <1>4, <3>1, StillProper
  <2>3. SamePass
    BY <1>2, <1>3, <1>4, OtherPass DEF OnPass
  <2>4. \A u \in Uids : marred[u] \subseteq marred'[u]
    BY <1>1, <2>1, Marked
  <2>5. ASSUME NEW u \in Uids, record[u].live, Holds(p, u), file[p].text.ver = edited[u] PROVE marred'[u] # {}
    <3>1. u = t.uid /\ Mar(u, {"hidden"})
      BY <2>1, <2>5 DEF Holds
    <3> QED
      BY <1>1, <3>1, Marked
  <2>6. \A v \in Procs : proc'[v] = proc[v] \/ ~Projecting(v)
    BY <1>2, <1>3
  <2> QED
    BY <1>2, <1>4, <2>1, <2>2, <2>3, <2>4, <2>5, <2>6, NotesHidden
<1>6. CASE file[p].seq # proc[w].rev
  BY <1>2, <1>3, <1>4, <1>6, Aside DEF Unlink
<1> QED
  BY <1>5, <1>6

-----------------------------------------------------------------------------
(* Beginning an operation; people; chunks.                                 *)

LEMMA StartSync ==
  ASSUME SyncInv, NEW w \in Procs, Start(w)
  PROVE  PassOK' /\ \A u \in Uids : NoteInv(u)'
<1>1. VaultInv /\ PassOK
  BY DEF SyncInv
<1>2. UNCHANGED <<record, file, seq, shown, cursor, edited, marred>> /\ proc[w].at = "idle"
  BY DEF Start, Capture, Update, Apply, Delete, RebuildVault, RebuildRecords, NormalizeRecords, Begin, storeVars, historyVars
<1>3. \E me : Enter(w, me) /\ me.op # "reconcile" /\ me.at # "save"
  <2>1. ASSUME NEW u \in Uids, NEW p \in Paths, Capture(w, u, p)
        PROVE  \E me : Enter(w, me) /\ me.op # "reconcile" /\ me.at # "save"
    <3> DEFINE me == [Idle EXCEPT !.at = "put", !.op = "capture", !.todo = <<[text |-> NextText(u, p, "app"), rev |-> 0]>>]
    <3>1. me.op # "reconcile" /\ me.at # "save"
      BY DEF Idle
    <3>2. Enter(w, me)
      BY <2>1 DEF Capture
    <3> QED
      BY <3>1, <3>2
  <2>2. ASSUME NEW u \in Uids, NEW p \in Paths, Update(w, u, p)
        PROVE  \E me : Enter(w, me) /\ me.op # "reconcile" /\ me.at # "save"
    <3> DEFINE me == [Idle EXCEPT !.at = "put", !.op = "update", !.old = record[u].text,
                                  !.todo = <<[text |-> NextText(u, p, "app"), rev |-> record[u].seq]>>]
    <3>1. me.op # "reconcile" /\ me.at # "save"
      BY DEF Idle
    <3>2. Enter(w, me)
      BY <2>2 DEF Update
    <3> QED
      BY <3>1, <3>2
  <2>5. ASSUME NEW u \in Uids, NEW p \in Paths, Apply(w, u, p)
        PROVE  \E me : Enter(w, me) /\ me.op # "reconcile" /\ me.at # "save"
    <3> DEFINE me == [Idle EXCEPT !.at = "put", !.op = "apply",
                                  !.todo = <<[text |-> NextText(u, p, "app"), rev |-> record[u].seq]>>]
    <3>1. me.op # "reconcile" /\ me.at # "save"
      BY DEF Idle
    <3>2. Enter(w, me)
      BY <2>5 DEF Apply
    <3> QED
      BY <3>1, <3>2
  <2>3. ASSUME NEW u \in Uids, Delete(w, u)
        PROVE  \E me : Enter(w, me) /\ me.op # "reconcile" /\ me.at # "save"
    <3> DEFINE me == [Idle EXCEPT !.at = "drop", !.op = "delete", !.old = record[u].text, !.rev = record[u].seq]
    <3>1. me.op # "reconcile" /\ me.at # "save"
      BY DEF Idle
    <3>2. Enter(w, me)
      BY <2>3 DEF Delete
    <3> QED
      BY <3>1, <3>2
  <2>4. ASSUME NEW op \in {"rebuildVault", "normalize", "rebuildRecords"}, NEW todo
        PROVE  First(op, todo, At(0), Idle).op # "reconcile" /\ First(op, todo, At(0), Idle).at # "save"
    BY DEF First, Idle
  <2> QED
    <3>1. CASE RebuildVault(w)
      BY <2>4, <3>1 DEF RebuildVault
    <3>2. CASE RebuildRecords(w)
      BY <2>4, <3>2 DEF RebuildRecords
    <3>3. CASE NormalizeRecords(w)
      BY <2>4, <3>3 DEF NormalizeRecords
    <3> QED
      BY <2>1, <2>2, <2>3, <2>5, <3>1, <3>2, <3>3 DEF Start
<1>4. PICK me : Enter(w, me) /\ me.op # "reconcile" /\ me.at # "save"
  BY <1>3
<1>5. proc'[w] = me /\ \A v \in Procs \ {w} : proc'[v] = proc[v]
  BY <1>1, <1>4 DEF VaultInv, ProcInv, Enter
<1>6. proc[w].op # "reconcile" /\ \A u \in Uids : Carries(w, u)
  BY <1>1, <1>2, NotOnPass DEF Carries, Pending, Bringing, Projecting
<1> QED
  BY <1>2, <1>4, <1>5, <1>6, Aside

\* The app rests while people and LiveSync are at work.
LEMMA AppRests ==
  ASSUME SyncInv, UNCHANGED <<proc, cursor>>, seq' \in Nat, seq' >= seq
  PROVE  PassOK' /\ SamePass
<1>1. VaultInv /\ PassOK
  BY DEF SyncInv
<1>2. seq \in Nat /\ cursor \in Marks \cup {NoCursor} /\ \A v \in Procs : proc[v].mark \in Marks
  BY <1>1 DEF VaultInv, StoreInv, StoreTypeOK, RestTypeOK, ProcInv, States
<1>3. ASSUME NEW v \in Procs PROVE Proper(v)'
  <2>1. UpTo(proc[v].mark, seq) => UpTo(proc[v].mark, seq')
    BY <1>2, FurtherUpTo
  <2> QED
    BY <1>1, <2>1 DEF PassOK, Proper
<1>4. cursor # NoCursor => UpTo(cursor, seq')
  BY <1>1, <1>2, FurtherUpTo DEF PassOK
<1> QED
  BY <1>3, <1>4 DEF PassOK, SamePass, OnPass

\* A person's text of a note is shown, and its other files are gone or as before.
LEMMA PersonShows ==
  ASSUME SyncInv, UNCHANGED <<proc, cursor, record, edited>>, NEW u \in Uids, NEW p \in Entries,
         Holds(p, u)', file'[p].seq > seq, file'[p].seq \in Nat, seq' \in Nat, seq' >= seq,
         shown' = [shown EXCEPT ![u] = p], Mar(u, {"human"} \cup Early),
         \A q \in Entries \ {p} : file'[q] = file[q] \/ (~file'[q].live /\ file[q].text.uid = u),
         file[p].live => file[p].text.uid = u
  PROVE  PassOK' /\ \A v \in Uids : NoteInv(v)'
<1>1. VaultInv /\ PassOK /\ shown \in [Uids -> Entries]
  BY DEF SyncInv, VaultInv, RestTypeOK
<1>2. PassOK' /\ SamePass
  BY AppRests
<1>3. shown'[u] = p /\ \A v \in Uids \ {u} : shown'[v] = shown[v]
  BY <1>1
<1>4. /\ \A v \in Uids : marred[v] \subseteq marred'[v]
      /\ marred'[u] = marred[u] \cup {"human"} \cup Early
  BY <1>1, Marked
<1>5. NoteInv(u)'
  <2>1. cursor = NoCursor => "early" \in marred'[u]
    BY <1>4 DEF Early
  <2>2. \A q \in Entries \ {p} : file'[q] = file[q] \/ ~Holds(q, u)'
    BY DEF Holds
  <2>3. marred'[u] # {}
    BY <1>4
  <2> QED
    BY <1>1, <1>2, <1>3, <2>1, <2>2, <2>3, NoteShown
<1>6. ASSUME NEW v \in Uids, v # u PROVE NoteInv(v)'
  <2>1. FilesKept(v)
    <3>1. shown'[v] = shown[v]
      BY <1>3, <1>6
    <3>2. ~Holds(p, v)'
      BY <1>6 DEF Holds
    <3> QED
      BY <3>1, <3>2 DEF FilesKept, Holds
  <2>2. Carried(v)
    BY <1>1, <2>1, StillPending DEF Carried
  <2>3. EditKept(v)
    <3> SUFFICES ASSUME Held(v) PROVE Shows(v)' = Shows(v)
      BY DEF EditKept
    <3>1. shown[v] # p /\ file[shown[v]].text.uid # u /\ shown[v] \in Entries
      BY <1>1, <1>6 DEF Held, Holds
    <3> QED
      BY <1>3, <1>6, <3>1 DEF Shows
  <2>4. NoteInv(v)
    BY DEF SyncInv
  <2> QED
    BY <1>1, <1>2, <1>4, <2>1, <2>2, <2>3, <2>4, NoteKept
<1> QED
  BY <1>2, <1>5, <1>6

LEMMA SaveSync ==
  ASSUME SyncInv, NEW p \in Entries, NEW q \in Paths, NEW c \in BOOLEAN, HumanSave(p, q, c)
  PROVE  PassOK' /\ \A u \in Uids : NoteInv(u)'
<1>1. VaultInv /\ PassOK /\ file[p].live
  BY DEF SyncInv, HumanSave
<1> SUFFICES ASSUME NEW u, u = file[p].text.uid PROVE PassOK' /\ \A v \in Uids : NoteInv(v)'
  OBVIOUS
<1>2. u \in Uids /\ file \in [Entries -> Docs] /\ seq \in Nat
  BY <1>1 DEF VaultInv, StoreInv, StoreTypeOK, DocsInv, Written, Texts
<1>3. /\ UNCHANGED <<proc, cursor, record, edited>> /\ seq' = seq + 1
      /\ shown' = [shown EXCEPT ![u] = p] /\ Mar(u, {"human"} \cup Early)
  BY DEF HumanSave
<1>4. /\ file'[p].live /\ file'[p].text.uid = u /\ file'[p].seq = seq + 1
      /\ \A r \in Entries \ {p} : file'[r] = file[r]
  BY <1>2 DEF HumanSave, NextText
<1>5. Holds(p, u)'
  BY <1>4 DEF Holds
<1>6. file'[p].seq \in Nat /\ file'[p].seq > seq /\ seq' \in Nat /\ seq' >= seq
  BY <1>2, <1>3, <1>4
<1> QED
  BY <1>1, <1>2, <1>3, <1>4, <1>5, <1>6, PersonShows

LEMMA MoveSync ==
  ASSUME SyncInv, NEW p \in Entries, NEW q \in Entries, HumanMove(p, q)
  PROVE  PassOK' /\ \A u \in Uids : NoteInv(u)'
<1>1. VaultInv /\ PassOK /\ file[p].live /\ ~file[q].live /\ p # q
  BY DEF SyncInv, HumanMove
<1> SUFFICES ASSUME NEW u, u = file[p].text.uid PROVE PassOK' /\ \A v \in Uids : NoteInv(v)'
  OBVIOUS
<1>2. u \in Uids /\ file \in [Entries -> Docs] /\ seq \in Nat
  BY <1>1 DEF VaultInv, StoreInv, StoreTypeOK, DocsInv, Written, Texts
<1>3. /\ UNCHANGED <<proc, cursor, record, edited>> /\ seq' = seq + 2
      /\ shown' = [shown EXCEPT ![u] = q] /\ Mar(u, {"human"} \cup Early)
  BY DEF HumanMove
<1>4. /\ file'[q].live /\ file'[q].text.uid = u /\ file'[q].seq = seq + 1
      /\ ~file'[p].live /\ \A r \in Entries \ {p, q} : file'[r] = file[r]
  BY <1>1, <1>2 DEF HumanMove, Docs
<1>5. Holds(q, u)'
  BY <1>4 DEF Holds
<1>6. \A r \in Entries \ {q} : file'[r] = file[r] \/ (~file'[r].live /\ file[r].text.uid = u)
  BY <1>4
<1>7. file'[q].seq \in Nat /\ file'[q].seq > seq /\ seq' \in Nat /\ seq' >= seq
  BY <1>2, <1>3, <1>4
<1> QED
  BY <1>1, <1>2, <1>3, <1>5, <1>6, <1>7, PersonShows

LEMMA HideSync ==
  ASSUME SyncInv, NEW p \in Entries, HumanDelete(p)
  PROVE  PassOK' /\ \A u \in Uids : NoteInv(u)'
<1>1. VaultInv /\ PassOK /\ file[p].live
  BY DEF SyncInv, HumanDelete
<1> SUFFICES ASSUME NEW u, u = file[p].text.uid PROVE PassOK' /\ \A v \in Uids : NoteInv(v)'
  OBVIOUS
<1>2. u \in Uids /\ seq \in Nat
  BY <1>1 DEF VaultInv, StoreInv, StoreTypeOK, DocsInv, Written, Texts
<1>3. UNCHANGED <<proc, cursor, record, edited, shown>> /\ HideFile(p) /\ Mar(u, {"human"}) /\ seq' = seq + 1
  BY DEF HumanDelete, HideFile
<1>4. PassOK' /\ SamePass
  BY <1>2, <1>3, AppRests
<1>5. \A v \in Uids : marred[v] \subseteq marred'[v]
  BY <1>1, <1>3, Marked
<1>6. marred'[u] # {}
  BY <1>1, <1>2, <1>3, Marked
<1>7. \A v \in Uids : Holds(p, v) => v = u
  BY DEF Holds
<1> QED
  BY <1>3, <1>4, <1>5, <1>6, <1>7, NotesHidden

\* A step that the notes, the store and the processes do not see.
LEMMA NothingSeen ==
  ASSUME SyncInv, UNCHANGED <<record, file, seq, cursor, proc, historyVars>>
  PROVE  PassOK' /\ \A u \in Uids : NoteInv(u)'
<1>1. VaultInv /\ PassOK /\ \A u \in Uids : NoteInv(u)
  BY DEF SyncInv
<1>2. UNCHANGED <<edited, shown, marred>>
  BY DEF historyVars
<1>3. PassOK' /\ SamePass
  BY <1>1, Numbers, AppRests
<1>4. ASSUME NEW u \in Uids PROVE FilesKept(u) /\ EditKept(u) /\ Carried(u)
  <2>1. FilesKept(u)
    BY <1>2 DEF FilesKept
  <2> QED
    BY <1>1, <1>2, <2>1, StillPending DEF EditKept, Shows, Carried
<1> QED
  BY <1>1, <1>2, <1>3, <1>4, NoteKept

-----------------------------------------------------------------------------
(* Reverse-sync.                                                           *)

\* What it still has to do with a note whose file it may yet read.
Awaited(u) == record[u].text = Shows(u).text \/ Unread(u) \/ Listed(u)

\* A step of a pass that writes nothing of the note.
LEMMA PassNote ==
  ASSUME SyncInv, NEW u \in Uids, UNCHANGED <<file, shown>>, record'[u] = record[u], edited'[u] = edited[u],
         marred[u] \subseteq marred'[u], \A v \in Procs \ {Worker} : proc'[v] = proc[v], ~Projecting(Worker),
         ListLast(u)', Clean(u)' /\ record[u].live /\ Held(u) /\ Awaited(u) => Awaited(u)'
  PROVE  NoteInv(u)'
<1>1. VaultInv /\ NoteInv(u)
  BY DEF SyncInv
<1>2. Held(u)' = Held(u) /\ Shows(u)' = Shows(u) /\ (Clean(u)' => Clean(u)) /\ (Unbroken(u)' => Unbroken(u)) /\ Shard(u)' = Shard(u)
  BY DEF Held, Shows, Holds, Clean, Unbroken, Shard
<1>3. ShownLast(u)'
  BY <1>1, <1>2 DEF NoteInv, ShownLast, Holds
<1>4. ASSUME NEW w \in Procs PROVE Carries(w, u)
  <2>1. FilesKept(u)
    BY DEF FilesKept
  <2>2. CASE w = Worker
    BY <2>2 DEF Carries, Pending, Bringing
  <2>3. CASE w # Worker
    BY <1>1, <2>1, <2>3, StillPending
  <2> QED
    BY <2>2, <2>3
<1>5. Fine(u)'
  <2> SUFFICES ASSUME record'[u].live, Held(u)', Clean(u)' PROVE Awaited(u)' \/ \E w \in Procs : Pending(w, u)'
    BY DEF Fine, Awaited
  <2>1. Awaited(u) \/ \E w \in Procs : Pending(w, u)
    BY <1>1, <1>2 DEF NoteInv, Fine, Awaited
  <2> QED
    BY <1>2, <1>4, <2>1 DEF Carries
<1>6. Kept(u)'
  <2> SUFFICES ASSUME record'[u].live, marred'[u] = {}
               PROVE  (Held(u) /\ Shows(u).text.ver = edited[u])' \/ \E w \in Procs : Bringing(w, u)'
    BY DEF Kept
  <2>1. (Held(u) /\ Shows(u).text.ver = edited[u]) \/ \E w \in Procs : Bringing(w, u)
    <3>1. marred[u] = {}
      OBVIOUS
    <3> QED
      BY <1>1, <3>1 DEF NoteInv, Kept
  <2> QED
    BY <1>2, <1>4, <2>1 DEF Carries
<1> QED
  BY <1>1, <1>3, <1>5, <1>6 DEF NoteInv

\* It goes on to the next item of its page.
Advances ==
  /\ OnPass /\ proc[Worker].at \in Reading /\ cursor' = cursor /\ UNCHANGED <<file, shown, edited>>
  /\ \A v \in Procs \ {Worker} : proc'[v] = proc[v]
  /\ OnPass' /\ proc'[Worker].mark = proc[Worker].mark
  /\ proc'[Worker].todo = Tail(proc[Worker].todo) /\ proc'[Worker].at # "store"

LEMMA PageAdvances ==
  ASSUME SyncInv, Advances, NEW u \in Uids, marred[u] \subseteq marred'[u]
  PROVE  /\ ListLast(u)' /\ (Unread(u) => Unread(u)')
         /\ Listed(u) /\ proc[Worker].todo[1].text # Shows(u).text => Listed(u)'
         /\ \A i \in DOMAIN proc[Worker].todo : i > 1 /\ proc[Worker].todo[i].text = Shows(u).text => Listed(u)'
<1>1. VaultInv /\ NoteInv(u) /\ Worker \in Procs
  BY VaultAssumption DEF SyncInv
<1>2. Held(u)' = Held(u) /\ Shows(u)' = Shows(u) /\ (Clean(u)' => Clean(u)) /\ (Unbroken(u)' => Unbroken(u)) /\ Shard(u)' = Shard(u)
  BY DEF Held, Shows, Holds, Clean, Unbroken, Shard, Advances
<1> DEFINE list == proc[Worker].todo
           rest == Tail(list)
<1>3. /\ Len(list) \in Nat \ {0} /\ Len(rest) = Len(list) - 1 /\ rest \in Seq(Items) /\ list \in Seq(Items)
      /\ \A i \in DOMAIN rest : i + 1 \in DOMAIN list /\ rest[i] = list[i + 1]
  BY <1>1, Holding DEF VaultInv, Advances, States
<1>4. proc'[Worker].todo = rest /\ proc'[Worker].mark = proc[Worker].mark /\ proc'[Worker].at # "store" /\ OnPass /\ OnPass'
  BY DEF Advances
<1> HIDE DEF list, rest
<1>5. DOMAIN list = 1..Len(list) /\ DOMAIN rest = 1..(Len(list) - 1)
  BY <1>3
<1>6. \A i \in DOMAIN list : i > 1 => i - 1 \in DOMAIN rest /\ rest[i - 1] = list[i]
  <2> SUFFICES ASSUME NEW i \in DOMAIN list, i > 1 PROVE i - 1 \in DOMAIN rest /\ rest[i - 1] = list[i]
    OBVIOUS
  <2>1. i - 1 \in DOMAIN rest /\ (i - 1) + 1 = i
    BY <1>3, <1>5
  <2> QED
    BY <1>3, <2>1
<1>7. ListLast(u)'
  <2> SUFFICES ASSUME NEW j \in DOMAIN rest, rest[j].text.uid = u, OneShard, Unbroken(u)', Held(u)', Shows(u)'.seq <= proc[Worker].mark[Shard(u)]
               PROVE  \E i \in DOMAIN rest : i >= j /\ rest[i].text = Shows(u)'.text
    BY <1>2, <1>4 DEF ListLast
  <2>1. PICK i \in DOMAIN list : i >= j + 1 /\ list[i].text = Shows(u).text
    BY <1>1, <1>2, <1>3, <1>4 DEF NoteInv, ListLast, list
  <2>2. i > 1 /\ i - 1 >= j
    BY <1>3, <1>5, <2>1
  <2> QED
    BY <1>2, <1>6, <2>1, <2>2
<1>8. Unread(u) => Unread(u)'
  BY <1>2, <1>4 DEF Unread, Read, Advances
<1>9. ASSUME NEW i \in DOMAIN list, i > 1, list[i].text = Shows(u).text PROVE Listed(u)'
  BY <1>2, <1>4, <1>6, <1>9 DEF Listed
<1>10. Listed(u) /\ list[1].text # Shows(u).text => Listed(u)'
  <2> SUFFICES ASSUME Listed(u), list[1].text # Shows(u).text PROVE Listed(u)'
    OBVIOUS
  <2>1. PICK i \in DOMAIN list : list[i].text = Shows(u).text
    BY DEF Listed, list
  <2>2. i > 1
    BY <1>3, <1>5, <2>1
  <2> QED
    BY <1>9, <2>1, <2>2
<1> QED
  BY <1>7, <1>8, <1>9, <1>10 DEF list

\* An item that is dealt with leaves nothing open.
LEMMA NoteAdvances ==
  ASSUME SyncInv, Advances, NEW u \in Uids, marred[u] \subseteq marred'[u], record'[u] = record[u],
         (/\ Clean(u)' /\ record[u].live /\ Held(u) /\ Note(Worker) = u /\ Now(Worker).text = Shows(u).text
          /\ proc[Worker].at = "store" => proc[Worker].rev = record[u].seq) => record[u].text = Shows(u).text
  PROVE  NoteInv(u)'
<1>1. VaultInv /\ PassOK /\ Worker \in Procs /\ proc[Worker].at \in Writing \cup Reading
  BY VaultAssumption DEF SyncInv, Advances
<1>2. Now(Worker) = proc[Worker].todo[1] /\ 1 \in DOMAIN proc[Worker].todo
  BY <1>1, Holding DEF VaultInv
<1>3. Shows(u)' = Shows(u)
  BY DEF Shows, Advances
<1>4. ASSUME Clean(u)', record[u].live, Held(u), Awaited(u) PROVE Awaited(u)'
  <2>1. CASE record[u].text = Shows(u).text
    BY <1>3, <2>1 DEF Awaited
  <2>2. CASE Unread(u)
    BY <2>2, PageAdvances DEF Awaited
  <2>3. CASE Listed(u)
    <3>1. CASE Now(Worker).text # Shows(u).text
      BY <1>2, <2>3, <3>1, PageAdvances DEF Awaited
    <3>2. CASE Now(Worker).text = Shows(u).text
      <4>1. Note(Worker) = u
        BY <1>4, <3>2 DEF Note, Held, Holds, Shows
      <4>2. CASE proc[Worker].at = "store" => proc[Worker].rev = record[u].seq
        BY <1>3, <1>4, <3>2, <4>1, <4>2 DEF Awaited
      <4>3. CASE proc[Worker].at = "store" /\ proc[Worker].rev # record[u].seq
        <5>1. PICK i \in DOMAIN proc[Worker].todo : i # 1 /\ proc[Worker].todo[i].text = Shows(u).text
          BY <2>3, <4>3 DEF Listed
        <5>2. i > 1
          <6>1. proc[Worker].todo \in Seq(Items)
            BY <1>1 DEF VaultInv, ProcInv, States
          <6> QED
            BY <5>1, <6>1
        <5> QED
          BY <5>1, <5>2, PageAdvances DEF Awaited
      <4> QED
        BY <4>2, <4>3
    <3> QED
      BY <3>1, <3>2
  <2> QED
    BY <1>4, <2>1, <2>2, <2>3 DEF Awaited
<1>5. ~Projecting(Worker)
  BY DEF Advances, Reading, Projecting
<1> QED
  BY <1>4, <1>5, PageAdvances, PassNote DEF Advances

\* NextItem on a pass.
LEMMA GoesOn ==
  ASSUME SyncInv, NEW w \in Procs, proc[w].at \in Reading, proc[w].op = "reconcile", NextItem(w),
         UNCHANGED <<file, shown, edited, cursor>>, seq' \in Nat, seq' >= seq
  PROVE  w = Worker /\ Advances /\ PassOK'
<1>1. VaultInv /\ PassOK /\ w = Worker
  BY DEF SyncInv, PassOK, Proper
<1>2. /\ \A v \in Procs \ {w} : proc'[v] = proc[v]
      /\ proc'[w].op = "reconcile" /\ proc'[w].mark = proc[w].mark
      /\ proc'[w].todo = Tail(proc[w].todo)
      /\ proc'[w].at = IF Tail(proc[w].todo) = <<>> THEN "save" ELSE "match"
  BY <1>1, NextState
<1>3. Advances
  BY <1>1, <1>2 DEF Advances, OnPass
<1>4. seq \in Nat /\ cursor \in Marks \cup {NoCursor} /\ \A v \in Procs : proc[v].mark \in Marks
  BY <1>1 DEF VaultInv, StoreInv, StoreTypeOK, RestTypeOK, ProcInv, States
<1>5. \A v \in Procs : UpTo(proc[v].mark, seq) => UpTo(proc[v].mark, seq')
  BY <1>4, FurtherUpTo
<1>6. ASSUME NEW v \in Procs PROVE Proper(v)'
  <2>1. CASE v # w
    BY <1>1, <1>2, <1>5, <2>1 DEF PassOK, Proper
  <2>2. CASE v = w
    <3>1. cursor # NoCursor /\ UpTo(proc[w].mark, seq) /\ Behind(cursor, proc[w].mark)
      BY <1>1 DEF PassOK, Proper, Reading
    <3>2. proc'[w].at \in {"match", "store", "save"} /\ (proc'[w].at = "save" => proc'[w].todo = <<>>)
      BY <1>2
    <3>3. UpTo(proc'[w].mark, seq') /\ Behind(cursor', proc'[w].mark) /\ cursor' # NoCursor
      BY <1>2, <1>5, <3>1
    <3> QED
      BY <1>1, <1>2, <2>2, <3>2, <3>3 DEF Proper
  <2> QED
    BY <2>1, <2>2
<1>7. cursor # NoCursor => UpTo(cursor, seq')
  BY <1>1, <1>4, FurtherUpTo DEF PassOK
<1> QED
  BY <1>1, <1>3, <1>6, <1>7 DEF PassOK

\* A file's text that was read, over the record it was compared with.
LEMMA StoreSync ==
  ASSUME SyncInv, NEW w \in Procs, Store(w)
  PROVE  PassOK' /\ \A u \in Uids : NoteInv(u)'
<1>1. VaultInv /\ PassOK /\ proc[w].at = "store" /\ proc[w].at \in Reading /\ NextItem(w)
  BY DEF SyncInv, Store, Reading
<1> SUFFICES ASSUME NEW t, t = Now(w).text, NEW me, me = Note(w) PROVE PassOK' /\ \A u \in Uids : NoteInv(u)'
  OBVIOUS
<1>2. me \in Uids /\ t \in Texts /\ ~Projecting(w)
  BY <1>1, Holding DEF VaultInv, Projecting
<1>3. UNCHANGED <<file, cursor, edited, shown>>
  BY DEF Store
<1>4. record \in [Uids -> Records] /\ seq \in Nat
  BY <1>1 DEF VaultInv, StoreInv, StoreTypeOK
<1> DEFINE writes == /\ RecordMatches(me, proc[w].rev) /\ WriteRecord(me, t)
                     /\ Mar(me, IF proc[w].op = "rebuildRecords" THEN {"import"}
                             ELSE IF Disordered(w) THEN {"order"} ELSE {})
           fails == ~RecordMatches(me, proc[w].rev) /\ UNCHANGED <<record, seq, marred>>
<1>5. writes \/ fails
  BY DEF Store
<1>6. writes => /\ record'[me].text = t /\ (\A v \in Uids \ {me} : record'[v] = record[v]) /\ seq' = seq + 1
                /\ \A v \in Uids : marred[v] \subseteq marred'[v]
  BY <1>1, <1>2, <1>4, Marked DEF WriteRecord
<1>7. seq' \in Nat /\ seq' >= seq
  BY <1>4, <1>5, <1>6
<1>8. CASE proc[w].op # "reconcile"
  <2>1. /\ \A v \in Procs \ {w} : proc'[v] = proc[v]
        /\ proc'[w].op # "reconcile" /\ proc'[w].at # "save"
    BY <1>1, <1>8, NextState
  <2>2. CASE fails
    <3>1. \A v \in Uids : Carries(w, v)
      BY <1>2 DEF Carries, Pending, Bringing
    <3> QED
      BY <1>3, <1>8, <2>1, <2>2, <3>1, Aside
  <2>3. CASE writes
    <3>1. PassOK'
      BY <1>1, <1>3, <1>7, <2>1, StillProper
    <3>2. SamePass
      BY <1>3, <1>8, <2>1, OtherPass DEF OnPass
    <3>3. proc[w].op = "rebuildRecords"
      BY <1>1, <1>8 DEF VaultInv, ProcInv, Begun
    <3>4. "import" \in marred'[me]
      BY <1>1, <1>2, <2>3, <3>3, Marked
    <3>5. Fine(me)' /\ Kept(me)'
      BY <3>4 DEF Fine, Kept, Clean, Unbroken, Shard
    <3> HIDE DEF writes
    <3> QED
      BY <1>2, <1>3, <1>6, <2>1, <2>3, <3>1, <3>2, <3>5, NoteRecorded
  <2> QED
    BY <1>5, <2>2, <2>3
<1>9. CASE proc[w].op = "reconcile"
  <2>1. w = Worker /\ Advances /\ PassOK'
    BY <1>1, <1>3, <1>7, <1>9, GoesOn
  <2>2. proc[w].rev > 0 /\ proc[w].rev \in Nat
    BY <1>1, <1>9 DEF VaultInv, ProcInv, Begun, States
  <2>3. ASSUME NEW u \in Uids, u # me \/ fails PROVE NoteInv(u)'
    <3>1. record'[u] = record[u] /\ marred[u] \subseteq marred'[u]
      BY <1>5, <1>6, <2>3
    <3>2. ASSUME fails, record[me].live, proc[Worker].rev = record[me].seq PROVE FALSE
      BY <2>1, <2>2, <3>2 DEF RecordMatches
    <3> HIDE DEF fails, writes
    <3>3. Note(Worker) = u /\ record[u].live /\ (proc[Worker].at = "store" => proc[Worker].rev = record[u].seq) => FALSE
      BY <1>1, <2>1, <2>3, <3>2
    <3> QED
      BY <2>1, <3>1, <3>3, NoteAdvances
  <2>4. CASE writes
    <3> SUFFICES NoteInv(me)'
      BY <2>1, <2>3
    <3>1. /\ Now(w) = proc[w].todo[1] /\ 1 \in DOMAIN proc[w].todo /\ proc[w].todo[1].text = t
          /\ proc[w].todo \in Seq(Items) /\ t.uid = me
      BY <1>1, Holding DEF VaultInv, Note, States
    <3>2. marred[me] \subseteq marred'[me] /\ record'[me].text = t
      BY <1>2, <1>6, <2>4
    <3>3. NoteInv(me) /\ Shows(me)' = Shows(me) /\ Held(me)' = Held(me) /\ (Clean(me)' => Clean(me)) /\ (Unbroken(me)' => Unbroken(me)) /\ Shard(me)' = Shard(me)
      BY <1>2, <1>3, <3>2 DEF SyncInv, Shows, Held, Holds, Clean, Unbroken, Shard
    <3>4. ListLast(me)'
      BY <1>2, <2>1, <3>2, PageAdvances
    <3>5. ShownLast(me)'
      BY <1>3, <3>3 DEF NoteInv, ShownLast, Holds
    <3>6. Fine(me)'
      <4> SUFFICES ASSUME Clean(me)', Held(me)' PROVE Awaited(me)'
        BY DEF Fine, Awaited
      <4>1. ~Disordered(w)
        <5>1. Disordered(w) => "order" \in marred'[me]
          BY <1>1, <1>2, <1>9, <2>4, Marked
        <5> QED
          BY <5>1 DEF Clean
      <4>2. CASE t = Shows(me).text
        BY <3>2, <3>3, <4>2 DEF Awaited
      <4>3. CASE ~(Shows(me).seq <= proc[Worker].mark[Shard(me)])
        <5>1. cursor # NoCursor
          BY <1>1, <1>9 DEF PassOK, Proper
        <5>2. Shows(me).seq \in Nat /\ proc[Worker].mark[Shard(me)] \in Nat
          BY <1>1, <1>2, Numbers DEF Shows, Shard, Marks
        <5>3. Shows(me).seq > proc[Worker].mark[Shard(me)]
          BY <4>3, <5>2
        <5>4. Unread(me)
          BY <1>9, <2>1, <5>1, <5>3 DEF Unread, Read, OnPass
        <5> QED
          BY <1>2, <2>1, <3>2, <5>4, PageAdvances DEF Awaited
      <4>4. CASE t # Shows(me).text /\ Shows(me).seq <= proc[Worker].mark[Shard(me)]
        <5>1. \E i \in DOMAIN proc[w].todo : proc[w].todo[i].text = Shows(me).text
          BY <2>1, <3>3, <4>1, <4>4 DEF Disordered, Held, Shows, Shard
        <5>2. PICK i \in DOMAIN proc[Worker].todo : proc[Worker].todo[i].text = Shows(me).text
          BY <2>1, <5>1
        <5>3. i > 1
          BY <2>1, <3>1, <4>4, <5>2
        <5> QED
          BY <1>2, <2>1, <3>2, <5>2, <5>3, PageAdvances DEF Awaited
      <4> QED
        BY <4>2, <4>3, <4>4
    <3>7. Kept(me)'
      <4>1. record[me].live
        BY <2>2, <2>4 DEF RecordMatches
      <4>2. \A v \in Procs : Bringing(v, me) => Bringing(v, me)'
        BY <1>2, <1>3, <2>1 DEF Advances, Bringing, Projecting, Note, Now
      <4>3. marred'[me] = {} => marred[me] = {}
        BY <3>2
      <4> HIDE DEF writes
      <4> QED
        BY <1>3, <3>3, <4>1, <4>2, <4>3 DEF NoteInv, Kept
    <3> QED
      BY <3>4, <3>5, <3>6, <3>7 DEF NoteInv
  <2> QED
    BY <1>5, <2>1, <2>3, <2>4
<1> QED
  BY <1>8, <1>9

\* A file's text is reassembled and its record read.
LEMMA MatchSync ==
  ASSUME SyncInv, NEW w \in Procs, Match(w)
  PROVE  PassOK' /\ \A u \in Uids : NoteInv(u)'
<1>1. VaultInv /\ PassOK /\ proc[w].at = "match" /\ proc[w].at \in Reading
  BY DEF SyncInv, Match, Reading
<1> SUFFICES ASSUME NEW t, t = Now(w).text, NEW me, me = Note(w), NEW found, found = Reassembled(t)
             PROVE  PassOK' /\ \A u \in Uids : NoteInv(u)'
  OBVIOUS
<1>2. me \in Uids /\ t \in Texts /\ t.uid = me /\ ~Projecting(w)
  BY <1>1, Holding DEF VaultInv, Projecting, Note
<1>3. UNCHANGED <<record, file, seq, cursor, edited, shown>> /\ Mar(me, IF t \in late THEN {"chunk"} ELSE {})
  BY DEF Match, storeVars
<1>4. /\ \A v \in Uids : marred[v] \subseteq marred'[v]
      /\ t \in late => "chunk" \in marred'[me]
  BY <1>1, <1>2, <1>3, Marked
<1>5. seq' \in Nat /\ seq' >= seq
  BY <1>1, <1>3, Numbers
<1>6. found.uid = t.uid /\ (t \notin late => found = t)
  BY <1>2 DEF Reassembled, Texts
<1> DEFINE skips == IF record[me].live THEN record[me].text = found ELSE proc[w].op = "reconcile"
           rev == IF record[me].live THEN record[me].seq ELSE 0
<1>7. CASE NextItem(w) /\ (skips \/ t \in late)
  <2>1. CASE proc[w].op # "reconcile"
    <3>1. /\ \A v \in Procs \ {w} : proc'[v] = proc[v]
          /\ proc'[w].op # "reconcile" /\ proc'[w].at # "save"
      BY <1>1, <1>7, <2>1, NextState
    <3>2. \A v \in Uids : Carries(w, v)
      BY <1>2 DEF Carries, Pending, Bringing
    <3> QED
      BY <1>3, <1>4, <2>1, <3>1, <3>2, Aside
  <2>2. CASE proc[w].op = "reconcile"
    <3>1. w = Worker /\ Advances /\ PassOK'
      BY <1>1, <1>3, <1>5, <1>7, <2>2, GoesOn
    <3>2. ASSUME NEW u \in Uids, Clean(u)', record[u].live, u = me, t = Shows(u).text
          PROVE  record[u].text = Shows(u).text
      <4>1. t \notin late
        BY <1>4, <3>2 DEF Clean, Unbroken, Shard
      <4> QED
        BY <1>6, <1>7, <3>2, <4>1
    <3>3. ASSUME NEW u \in Uids PROVE NoteInv(u)'
      <4>1. marred[u] \subseteq marred'[u] /\ record'[u] = record[u]
        BY <1>3, <1>4
      <4> QED
        BY <3>1, <3>2, <4>1, NoteAdvances
    <3> QED
      BY <3>1, <3>3
  <2> QED
    BY <2>1, <2>2
<1>8. CASE ~skips /\ Enter(w, [proc[w] EXCEPT !.at = "store", !.todo[1].text = found, !.rev = rev])
  <2>1. proc \in [Procs -> States] /\ proc[w] \in States
    BY <1>1 DEF VaultInv, ProcInv
  <2> DEFINE list == proc[w].todo
             item == [list[1] EXCEPT !.text = found]
  <2>2. list \in Seq(Items) /\ 1 \in DOMAIN list /\ list[1] \in Items /\ list[1].text = t
    BY <1>1, <2>1, Holding DEF VaultInv, States
  <2>3. /\ proc'[w].todo = [list EXCEPT ![1] = item] /\ proc'[w].at = "store" /\ proc'[w].op = proc[w].op
        /\ proc'[w].mark = proc[w].mark /\ proc'[w].rev = rev /\ \A v \in Procs \ {w} : proc'[v] = proc[v]
    BY <1>8, <2>1 DEF Enter, States
  <2>4. item.text = found
    BY <2>2 DEF Items
  <2> HIDE DEF list, item, rev, skips
  <2>5. /\ DOMAIN proc'[w].todo = DOMAIN list /\ \A i \in DOMAIN list \ {1} : proc'[w].todo[i] = list[i]
        /\ proc'[w].todo[1].text = found
    BY <2>2, <2>3, <2>4
  <2>6. CASE proc[w].op # "reconcile"
    <3>1. \A v \in Uids : Carries(w, v)
      BY <1>2 DEF Carries, Pending, Bringing
    <3> QED
      BY <1>3, <1>4, <2>3, <2>6, <3>1, Aside
  <2>7. CASE proc[w].op = "reconcile"
    <3>1. w = Worker /\ OnPass /\ OnPass' /\ record[me].live /\ rev = record[me].seq
      BY <1>1, <1>8, <2>3, <2>7 DEF PassOK, Proper, OnPass, skips, rev
    <3>2. PassOK'
      <4>1. \A v \in Procs \ {w} : Proper(v)'
        BY <1>1, <1>3, <2>3 DEF PassOK, Proper
      <4>2. Proper(w)'
        BY <1>1, <1>3, <2>3 DEF PassOK, Proper
      <4> QED
        BY <1>1, <1>3, <4>1, <4>2 DEF PassOK
    <3>3. ASSUME NEW u \in Uids PROVE NoteInv(u)'
      <4>1. /\ marred[u] \subseteq marred'[u] /\ record'[u] = record[u] /\ (Clean(u)' => Clean(u)) /\ (Unbroken(u)' => Unbroken(u)) /\ Shard(u)' = Shard(u)
            /\ Shows(u)' = Shows(u) /\ Held(u)' = Held(u)
        BY <1>3, <1>4 DEF Clean, Unbroken, Shard, Shows, Held, Holds
      <4>2. NoteInv(u)
        BY DEF SyncInv
      <4>3. ASSUME Unbroken(u)', Held(u), NEW i \in DOMAIN list, list[i].text = Shows(u).text
            PROVE  proc'[w].todo[i].text = Shows(u).text /\ (i = 1 => u = me)
        <5>1. CASE i # 1
          BY <2>5, <5>1, <4>3
        <5>2. CASE i = 1
          <6>1. u = me
            BY <1>2, <2>2, <4>3, <5>2 DEF Held, Holds, Shows
          <6> QED
            BY <1>4, <1>6, <2>2, <2>5, <4>3, <5>2, <6>1 DEF Clean, Unbroken, Shard
        <5> QED
          BY <5>1, <5>2
      <4>4. ListLast(u)'
        <5> SUFFICES ASSUME NEW j \in DOMAIN list, proc'[w].todo[j].text.uid = u, OneShard, Unbroken(u)', Held(u),
                            Shows(u).seq <= proc[w].mark[Shard(u)]
                     PROVE  \E i \in DOMAIN list : i >= j /\ proc'[w].todo[i].text = Shows(u).text
          BY <2>3, <2>5, <3>1, <4>1 DEF ListLast
        <5>1. list[j].text.uid = u
          BY <1>6, <2>2, <2>5
        <5>2. PICK i \in DOMAIN list : i >= j /\ list[i].text = Shows(u).text
          BY <3>1, <4>1, <4>2, <5>1 DEF NoteInv, ListLast, list
        <5> QED
          BY <4>3, <5>2
      <4>5. ASSUME Clean(u)', record[u].live, Held(u), Awaited(u) PROVE Awaited(u)'
        <5>1. CASE record[u].text = Shows(u).text
          BY <4>1, <5>1 DEF Awaited
        <5>2. CASE Unread(u)
          BY <1>3, <2>3, <3>1, <4>1, <5>2 DEF Awaited, Unread, Read
        <5>3. CASE Listed(u)
          <6>1. PICK i \in DOMAIN list : list[i].text = Shows(u).text
            BY <3>1, <5>3 DEF Listed, list
          <6>2. proc'[w].todo[i].text = Shows(u).text /\ (i = 1 => u = me)
            BY <4>3, <4>5, <6>1 DEF Clean
          <6> QED
            BY <2>3, <2>5, <3>1, <4>1, <6>1, <6>2 DEF Awaited, Listed
        <5> QED
          BY <4>5, <5>1, <5>2, <5>3 DEF Awaited
      <4> QED
        BY <1>2, <1>3, <2>3, <3>1, <4>1, <4>4, <4>5, PassNote
    <3> QED
      BY <3>2, <3>3
  <2> QED
    BY <2>6, <2>7
<1>9. \/ NextItem(w) /\ (skips \/ t \in late)
      \/ ~skips /\ Enter(w, [proc[w] EXCEPT !.at = "store", !.todo[1].text = found, !.rev = rev])
  BY DEF Match
<1> QED
  BY <1>7, <1>8, <1>9

\* A list in any order has all of its items.
LEMMA OrderHasAll ==
  ASSUME NEW S, IsFiniteSet(S), NEW s \in Orders(S), NEW a \in S
  PROVE  \E i \in DOMAIN s : s[i] = a
<1> DEFINE n == Cardinality(S)
<1>1. n \in Nat
  BY FS_CardinalityType
<1>2. s \in [1..n -> S] /\ \A i, j \in 1..n : s[i] = s[j] => i = j
  BY DEF Orders
<1>3. s \in Injection(1..n, S)
  BY <1>2, Fun_IsInj
<1>4. IsFiniteSet(1..n) /\ Cardinality(1..n) = n
  BY <1>1, FS_Interval
<1>5. s \in Surjection(1..n, S)
  BY <1>3, <1>4, FS_Injection
<1> QED
  BY <1>2, <1>5 DEF Surjection

\* A live file that changed is on the page, or comes after its end in the file's shard.
LEMMA OnPageOrAfter ==
  ASSUME VaultInv, PassOK, cursor # NoCursor, NEW page \in Pages(cursor, PageLimit),
         NEW e \in Entries, file[e].seq > cursor[ShardOf[e]]
  PROVE  e \in page \/ file[e].seq > PageEnd(page)[ShardOf[e]]
<1>1. /\ e \in Documents /\ LastWrite(e) = file[e].seq /\ ShardOf[e] \in Shards /\ file[e].seq \in Nat
  BY StoreAssumption, Numbers DEF Documents, LastWrite
<1>2. /\ e \in ChangedSince(cursor) /\ page \in SUBSET Documents
      /\ \A d \in page : ShardOf[d] = ShardOf[e] /\ e \notin page => LastWrite(d) < LastWrite(e)
  BY <1>1 DEF Pages, ChangedSince
<1>3. /\ PageEnd(page)[ShardOf[e]] # cursor[ShardOf[e]] =>
           \E d \in page : ShardOf[d] = ShardOf[e] /\ PageEnd(page)[ShardOf[e]] = LastWrite(d)
      /\ PageEnd(page) \in Marks
  <2>1. StoreInv /\ RestTypeOK
    BY DEF VaultInv
  <2>2. /\ PageEnd(page) \in Marks
        /\ \A s \in Shards : /\ cursor[s] <= PageEnd(page)[s]
                             /\ PageEnd(page)[s] # cursor[s] =>
                                  \E d \in page : ShardOf[d] = s /\ PageEnd(page)[s] = LastWrite(d)
    BY <1>2, <2>1, PageEndIs
  <2> QED
    BY <1>1, <2>2
<1>4. PageEnd(page)[ShardOf[e]] \in Nat
  BY <1>1, <1>3 DEF Marks
<1>5. CASE PageEnd(page)[ShardOf[e]] = cursor[ShardOf[e]]
  BY <1>5
<1>6. CASE e \notin page /\ PageEnd(page)[ShardOf[e]] # cursor[ShardOf[e]]
  <2>1. PageEnd(page)[ShardOf[e]] < file[e].seq
    BY <1>1, <1>2, <1>3, <1>6
  <2> QED
    BY <1>1, <1>4, <2>1
<1> QED
  BY <1>5, <1>6

LEMMA ReadPageSync ==
  ASSUME SyncInv, ReadPage
  PROVE  PassOK' /\ \A u \in Uids : NoteInv(u)'
<1>1. VaultInv /\ PassOK /\ Worker \in Procs /\ proc[Worker].at = "idle" /\ cursor # NoCursor /\ StoreInv /\ RestTypeOK
  BY VaultAssumption DEF SyncInv, ReadPage, VaultInv
<1>2. UNCHANGED <<record, file, seq, cursor, edited, shown, marred>>
  BY DEF ReadPage, storeVars, historyVars
<1>3. PICK page \in Pages(cursor, PageLimit) : \E files \in Listings(page) :
        Enter(Worker, First("reconcile", [i \in DOMAIN files |-> FileItem(files[i])], PageEnd(page), Saving(PageEnd(page))))
  BY DEF ReadPage
<1>4. PICK files \in Listings(page) :
        Enter(Worker, First("reconcile", [i \in DOMAIN files |-> FileItem(files[i])], PageEnd(page), Saving(PageEnd(page))))
  BY <1>3
<1>5. PICK list : list = [i \in DOMAIN files |-> FileItem(files[i])]
  OBVIOUS
<1>6. PICK end : end = PageEnd(page)
  OBVIOUS
<1>7. /\ page \in SUBSET Documents /\ files \in Orders(page \cap LiveFiles)
      /\ list \in Seq(Items) /\ DOMAIN list = DOMAIN files
      /\ \A i \in DOMAIN list : list[i] = FileItem(files[i]) /\ files[i] \in page \cap LiveFiles
  BY <1>1, <1>5, PageIs
<1>8. /\ end \in Marks /\ \A s \in Shards : cursor[s] <= end[s]
      /\ \A s \in Shards : end[s] # cursor[s] => \E d \in page : ShardOf[d] = s /\ end[s] = LastWrite(d)
  <2>1. /\ PageEnd(page) \in Marks
        /\ \A s \in Shards : /\ cursor[s] <= PageEnd(page)[s]
                             /\ PageEnd(page)[s] # cursor[s] =>
                                  \E d \in page : ShardOf[d] = s /\ PageEnd(page)[s] = LastWrite(d)
    BY <1>1, <1>7, PageEndIs
  <2> QED
    BY <1>6, <2>1
<1>9. /\ proc'[Worker].op = "reconcile" /\ proc'[Worker].mark = end /\ proc'[Worker].todo = list
      /\ proc'[Worker].at = IF list = <<>> THEN "save" ELSE "match"
      /\ \A v \in Procs \ {Worker} : proc'[v] = proc[v]
  <2> DEFINE me == First("reconcile", list, end, Saving(end))
  <2>1. me.op = "reconcile" /\ me.mark = end /\ me.todo = list /\ me.at = IF list = <<>> THEN "save" ELSE "match"
    BY DEF First, Saving, Idle
  <2>2. Enter(Worker, me)
    BY <1>4, <1>5, <1>6
  <2> HIDE DEF me
  <2>3. proc'[Worker] = me /\ \A v \in Procs \ {Worker} : proc'[v] = proc[v]
    BY <1>1, <2>2 DEF VaultInv, ProcInv, Enter
  <2> QED
    BY <2>1, <2>3
<1>10. ~OnPass /\ OnPass'
  BY <1>1, <1>9, NotOnPass DEF OnPass
<1>11. UpTo(end, seq)
  <2> SUFFICES ASSUME NEW s \in Shards PROVE end[s] <= seq
    BY DEF UpTo
  <2>1. cursor[s] <= seq
    BY <1>1 DEF PassOK, UpTo
  <2>2. \A d \in Documents : LastWrite(d) <= seq
    BY <1>1, Numbers DEF Documents, LastWrite, VaultInv, StoreInv, DocsInv, Written
  <2> QED
    BY <1>7, <1>8, <2>1, <2>2
<1>12. PassOK'
  <2>1. \A v \in Procs \ {Worker} : Proper(v)'
    BY <1>1, <1>2, <1>9 DEF PassOK, Proper
  <2>2. proc'[Worker].at \in {"match", "save"} /\ (proc'[Worker].at = "save" => list = <<>>)
    BY <1>9
  <2>3. Behind(cursor, end)
    BY <1>8 DEF Behind
  <2>4. Proper(Worker)'
    BY <1>1, <1>2, <1>9, <1>11, <2>2, <2>3 DEF Proper
  <2> QED
    BY <1>1, <1>2, <2>1, <2>4 DEF PassOK
<1>13. ASSUME NEW u \in Uids PROVE NoteInv(u)'
  <2>1. /\ shown[u] \in Entries /\ Shows(u).seq \in Nat /\ Held(u)' = Held(u) /\ Shows(u)' = Shows(u)
        /\ NoteInv(u) /\ cursor \in Marks /\ Shard(u) \in Shards /\ Shard(u)' = Shard(u) /\ Unbroken(u)' = Unbroken(u)
    BY <1>1, <1>2, Numbers DEF SyncInv, Shows, Held, Holds, Shard, Unbroken
  <2>2. cursor[Shard(u)] \in Nat /\ end[Shard(u)] \in Nat
    BY <1>8, <2>1 DEF Marks
  <2>3. ASSUME Held(u), Shows(u).seq > cursor[Shard(u)], ~(Shows(u).seq > end[Shard(u)])
        PROVE  \E i \in DOMAIN list : files[i] = shown[u] /\ list[i].text = Shows(u).text
    <3>1. shown[u] \in page
      BY <1>1, <1>6, <2>1, <2>3, OnPageOrAfter DEF Shows, Shard
    <3>2. shown[u] \in page \cap LiveFiles
      BY <2>1, <2>3, <3>1 DEF LiveFiles, Held, Holds
    <3>3. IsFiniteSet(page \cap LiveFiles)
      <4>1. page \cap LiveFiles \in SUBSET Entries
        BY DEF LiveFiles
      <4> QED
        BY <4>1, StoreAssumption, FS_Subset
    <3>4. PICK i \in DOMAIN files : files[i] = shown[u]
      BY <1>7, <3>2, <3>3, OrderHasAll
    <3>5. list[i].text = Shows(u).text
      BY <1>7, <3>4 DEF FileItem, Shows
    <3> QED
      BY <1>7, <3>4, <3>5
  <2>4. ListLast(u)'
    <3> SUFFICES ASSUME OneShard, NEW j \in DOMAIN list, list[j].text.uid = u, Held(u), Shows(u).seq <= end[Shard(u)]
                 PROVE  \E i \in DOMAIN list : i >= j /\ list[i].text = Shows(u).text
      BY <1>9, <2>1 DEF ListLast
    <3>1. PICK e : e = files[j]
      OBVIOUS
    <3>2. list[j].text = file[e].text /\ e \in page /\ e \in LiveFiles
      BY <1>7, <3>1 DEF FileItem
    <3>3. e \in Entries /\ Holds(e, u)
      BY <3>2 DEF LiveFiles, Holds
    <3>4. /\ e \in Documents /\ shown[u] \in Documents /\ LastWrite(e) = file[e].seq
          /\ LastWrite(shown[u]) = Shows(u).seq /\ ShardOf[e] = Shard(u)
      BY <2>1, <3>3, StoreAssumption DEF Documents, LastWrite, OneShard, Shows, Shard
    <3>5. file[e].seq <= Shows(u).seq /\ file[e].seq \in Nat
      BY <1>1, <2>1, <3>3, Numbers DEF NoteInv, ShownLast
    <3>6. file[e].seq > cursor[Shard(u)]
      BY <3>2, <3>4 DEF Pages, ChangedSince
    <3>7. Shows(u).seq > cursor[Shard(u)] /\ ~(Shows(u).seq > end[Shard(u)])
      BY <2>1, <2>2, <3>5, <3>6
    <3>8. PICK i \in DOMAIN list : files[i] = shown[u] /\ list[i].text = Shows(u).text
      BY <2>3, <3>7
    <3>9. ~(i < j)
      <4>1. i < j => LastWrite(files[i]) < LastWrite(files[j])
        BY <1>7, <3>1, <3>4, <3>8 DEF Listings, Shard
      <4> QED
        BY <2>1, <3>1, <3>4, <3>5, <3>8, <4>1
    <3>10. i \in Nat /\ j \in Nat
      BY <1>7
    <3> QED
      BY <3>8, <3>9, <3>10
  <2>5. ASSUME Held(u), Awaited(u) PROVE Awaited(u)'
    <3>1. CASE record[u].text = Shows(u).text
      BY <1>2, <2>1, <3>1 DEF Awaited
    <3>2. CASE Unread(u)
      <4>1. Shows(u).seq > cursor[Shard(u)]
        BY <1>10, <3>2 DEF Unread, Read
      <4>2. CASE Shows(u).seq > end[Shard(u)]
        BY <1>1, <1>2, <1>9, <1>10, <2>1, <4>2 DEF Awaited, Unread, Read
      <4>3. CASE ~(Shows(u).seq > end[Shard(u)])
        <5>1. PICK i \in DOMAIN list : list[i].text = Shows(u).text
          BY <2>3, <2>5, <4>1, <4>3
        <5>2. proc'[Worker].at # "store"
          BY <1>9
        <5> QED
          BY <1>9, <1>10, <2>1, <5>1, <5>2 DEF Awaited, Listed
      <4> QED
        BY <4>2, <4>3
    <3>3. ~Listed(u)
      BY <1>10 DEF Listed
    <3> QED
      BY <2>5, <3>1, <3>2, <3>3 DEF Awaited
  <2>6. ~Projecting(Worker)
    BY <1>1 DEF Projecting
  <2> QED
    BY <1>2, <1>9, <2>4, <2>5, <2>6, PassNote
<1> QED
  BY <1>12, <1>13

\* A pass that ends leaves what is still unread of a note to the next.
LEMMA PassEnds ==
  ASSUME SyncInv, NEW u \in Uids, UNCHANGED <<record, file, shown, edited>>,
         marred[u] \subseteq marred'[u], \A v \in Procs \ {Worker} : proc'[v] = proc[v], ~Projecting(Worker),
         proc'[Worker].todo = <<>>, Unread(u) => Unread(u)', Held(u) /\ Listed(u) => ~Clean(u)'
  PROVE  NoteInv(u)'
<1>1. ListLast(u)'
  BY DEF ListLast
<1>2. Clean(u)' /\ Held(u) /\ Awaited(u) => Awaited(u)'
  BY DEF Awaited, Shows
<1> QED
  BY <1>1, <1>2, PassNote

LEMMA BookmarkSync ==
  ASSUME SyncInv, BookmarkNow
  PROVE  PassOK' /\ \A u \in Uids : NoteInv(u)'
<1>1. VaultInv /\ PassOK /\ Worker \in Procs /\ proc[Worker].at = "idle" /\ cursor = NoCursor /\ seq \in Nat
  BY VaultAssumption, Numbers DEF SyncInv, BookmarkNow
<1>2. UNCHANGED <<record, file, seq, cursor, edited, shown, marred>>
  BY DEF BookmarkNow, storeVars, historyVars
<1>3. /\ proc'[Worker].op = "reconcile" /\ proc'[Worker].at = "save" /\ proc'[Worker].mark = At(seq)
      /\ proc'[Worker].todo = <<>> /\ \A v \in Procs \ {Worker} : proc'[v] = proc[v]
  <2> DEFINE me == Saving(At(seq))
  <2>1. Enter(Worker, me)
    BY DEF BookmarkNow
  <2>2. me.op = "reconcile" /\ me.at = "save" /\ me.mark = At(seq) /\ me.todo = <<>>
    BY DEF Saving, Idle
  <2> HIDE DEF me
  <2>3. proc'[Worker] = me /\ \A v \in Procs \ {Worker} : proc'[v] = proc[v]
    BY <1>1, <2>1 DEF Enter, VaultInv, ProcInv
  <2> QED
    BY <2>2, <2>3
<1>4. PassOK'
  <2>1. \A v \in Procs \ {Worker} : Proper(v)'
    BY <1>1, <1>2, <1>3 DEF PassOK, Proper
  <2>2. UpTo(At(seq), seq)
    BY <1>1 DEF UpTo, At
  <2>3. Proper(Worker)'
    BY <1>1, <1>2, <1>3, <2>2 DEF Proper
  <2> QED
    BY <1>1, <1>2, <2>1, <2>3 DEF PassOK
<1>5. ASSUME NEW u \in Uids PROVE NoteInv(u)'
  <2>1. ~Unread(u) /\ ~Listed(u) /\ ~Projecting(Worker)
    BY <1>1, NotOnPass DEF Unread, Listed, OnPass, Projecting
  <2> QED
    BY <1>2, <1>3, <2>1, PassEnds
<1> QED
  BY <1>4, <1>5

LEMMA PassSync ==
  ASSUME SyncInv, Pass
  PROVE  PassOK' /\ \A u \in Uids : NoteInv(u)'
BY BookmarkSync, ReadPageSync DEF Pass

LEMMA CursorSync ==
  ASSUME SyncInv, SaveCursor
  PROVE  PassOK' /\ \A u \in Uids : NoteInv(u)'
<1>1. /\ VaultInv /\ PassOK /\ Worker \in Procs /\ proc[Worker].at = "save" /\ Proper(Worker)
      /\ proc[Worker].mark \in Marks /\ seq \in Nat
  BY VaultAssumption, Numbers DEF SyncInv, SaveCursor, PassOK
<1>2. OnPass /\ proc[Worker].todo = <<>> /\ UpTo(proc[Worker].mark, seq)
  BY <1>1 DEF Proper, OnPass
<1>3. UNCHANGED <<record, file, seq, edited, shown, marred>> /\ cursor' = proc[Worker].mark
  BY DEF SaveCursor, storeVars, historyVars
<1>4. /\ proc'[Worker].op = "none" /\ proc'[Worker].at = "idle" /\ proc'[Worker].todo = <<>>
      /\ \A v \in Procs \ {Worker} : proc'[v] = proc[v]
  BY <1>1, Stopped DEF SaveCursor
<1>5. PassOK'
  <2>1. \A v \in Procs \ {Worker} : Proper(v)'
    BY <1>1, <1>3, <1>4 DEF PassOK, Proper
  <2>2. Proper(Worker)'
    BY <1>4 DEF Proper
  <2> QED
    BY <1>2, <1>3, <2>1, <2>2 DEF PassOK
<1>6. ASSUME NEW u \in Uids PROVE NoteInv(u)'
  <2>1. ~Listed(u) /\ ~Projecting(Worker)
    BY <1>1, <1>2 DEF Listed, Projecting
  <2>2. Unread(u) => Unread(u)'
    BY <1>1, <1>2, <1>3, <1>4, VaultAssumption DEF Unread, Read, OnPass, Shows, Shard
  <2> QED
    BY <1>3, <1>4, <2>1, <2>2, PassEnds
<1> QED
  BY <1>5, <1>6

-----------------------------------------------------------------------------
(* Failures.                                                               *)

\* The notes that a failing process is at work on are known.
LEMMA Excused ==
  ASSUME VaultInv, NEW w \in Procs, MarAll(Touches(w))
  PROVE  /\ \A u \in Uids : marred[u] \subseteq marred'[u]
         /\ \A u \in Uids, i \in DOMAIN proc[w].todo : proc[w].todo[i].text.uid = u => ~Clean(u)'
         /\ \A u \in Uids : Carries(w, u)
<1>1. \A u \in Uids : marred'[u] = IF u \in Touches(w) THEN marred[u] \cup {"fault"} ELSE marred[u]
  BY DEF MarAll
<1>2. ASSUME NEW u \in Uids, NEW i \in DOMAIN proc[w].todo, proc[w].todo[i].text.uid = u
      PROVE  ~Clean(u)' /\ marred'[u] # {}
  <2>1. u \in Touches(w)
    BY <1>2 DEF Touches
  <2> QED
    BY <1>1, <2>1 DEF Clean, Unbroken, Shard
<1>3. ASSUME NEW u \in Uids, Projecting(w), Note(w) = u PROVE ~Clean(u)' /\ marred'[u] # {}
  <2>1. Now(w) = proc[w].todo[1] /\ 1 \in DOMAIN proc[w].todo
    BY <1>3, Holding DEF VaultInv, Projecting, Writing
  <2> QED
    BY <1>2, <1>3, <2>1 DEF Note
<1> QED
  BY <1>1, <1>2, <1>3 DEF Carries, Pending, Bringing

\* A pass that a fault ends starts again from its bookmark.
LEMMA PassStops ==
  ASSUME SyncInv, OnPass, Stop(Worker), UNCHANGED <<record, file, seq, shown, edited, cursor>>,
         MarAll(Touches(Worker))
  PROVE  PassOK' /\ \A u \in Uids : NoteInv(u)'
<1>1. VaultInv /\ PassOK /\ Worker \in Procs /\ Proper(Worker) /\ proc[Worker].mark \in Marks /\ seq \in Nat
  BY VaultAssumption, Numbers DEF SyncInv, PassOK
<1>2. proc[Worker].op = "reconcile" /\ (cursor # NoCursor => cursor \in Marks /\ Behind(cursor, proc[Worker].mark))
  BY <1>1, Numbers DEF OnPass, Proper
<1>3. /\ proc'[Worker].op = "none" /\ proc'[Worker].at = "idle" /\ proc'[Worker].todo = <<>>
      /\ \A v \in Procs \ {Worker} : proc'[v] = proc[v]
  BY <1>1, Stopped
<1>4. PassOK'
  <2>1. \A v \in Procs \ {Worker} : Proper(v)'
    BY <1>1, <1>3 DEF PassOK, Proper
  <2>2. Proper(Worker)'
    BY <1>3 DEF Proper
  <2> QED
    BY <1>1, <2>1, <2>2 DEF PassOK
<1>5. ASSUME NEW u \in Uids PROVE NoteInv(u)'
  <2>1. marred[u] \subseteq marred'[u] /\ ~Projecting(Worker)
    BY <1>1, <1>2, Excused DEF Proper, Projecting
  <2>2. Unread(u) => Unread(u)'
    <3> SUFFICES ASSUME Unread(u) PROVE Unread(u)'
      OBVIOUS
    <3>1. Shows(u).seq > proc[Worker].mark[Shard(u)] /\ Shows(u).seq \in Nat /\ cursor # NoCursor /\ Shard(u) \in Shards
      BY <1>1, <1>2, Numbers DEF Unread, Read, OnPass, Shows, Shard
    <3>2. cursor[Shard(u)] <= proc[Worker].mark[Shard(u)] /\ cursor[Shard(u)] \in Nat /\ proc[Worker].mark[Shard(u)] \in Nat
      BY <1>1, <1>2, <3>1 DEF Behind, Marks
    <3>3. Shows(u).seq > cursor[Shard(u)]
      BY <3>1, <3>2
    <3> QED
      BY <1>3, <3>1, <3>3 DEF Unread, Read, OnPass, Shows, Shard
  <2>3. ASSUME Held(u), Listed(u) PROVE ~Clean(u)'
    <3>1. PICK i \in DOMAIN proc[Worker].todo : proc[Worker].todo[i].text = Shows(u).text
      BY <2>3 DEF Listed
    <3>2. proc[Worker].todo[i].text.uid = u
      BY <2>3, <3>1 DEF Held, Holds, Shows
    <3> QED
      BY <1>1, <3>2, Excused
  <2> QED
    BY <1>3, <2>1, <2>2, <2>3, PassEnds
<1> QED
  BY <1>4, <1>5

LEMMA FailSync ==
  ASSUME SyncInv, NEW w \in Procs, Fail(w)
  PROVE  PassOK' /\ \A u \in Uids : NoteInv(u)'
<1>1. VaultInv /\ PassOK /\ MarAll(Touches(w)) /\ seq \in Nat
  BY Numbers DEF SyncInv, Fail
<1>2. UNCHANGED <<record, file, seq, cursor, edited, shown>>
  BY DEF Fail, storeVars
<1>3. /\ \A u \in Uids : marred[u] \subseteq marred'[u]
      /\ \A u \in Uids, i \in DOMAIN proc[w].todo : proc[w].todo[i].text.uid = u => ~Clean(u)'
      /\ \A u \in Uids : Carries(w, u)
  BY <1>1, Excused
<1>4. CASE proc[w].op = "reconcile"
  <2>1. w = Worker /\ OnPass /\ proc[w].at \in {"match", "store", "save"}
    BY <1>1, <1>4 DEF PassOK, Proper, OnPass
  <2>2. CASE proc[w].at = "save"
    <3>1. Stop(w)
      BY <2>2 DEF Fail
    <3> QED
      BY <1>1, <1>2, <2>1, <3>1, PassStops
  <2>3. CASE proc[w].at \in {"match", "store"}
    <3>1. NextItem(w) /\ proc[w].at \in Reading
      BY <2>3 DEF Fail, Reading
    <3>2. Advances /\ PassOK'
      BY <1>1, <1>2, <1>4, <3>1, GoesOn
    <3>3. ASSUME NEW u \in Uids, Note(Worker) = u PROVE ~Clean(u)'
      <4>1. Now(w) = proc[w].todo[1] /\ 1 \in DOMAIN proc[w].todo
        BY <1>1, <3>1, Holding DEF VaultInv
      <4> QED
        BY <1>3, <2>1, <3>3, <4>1 DEF Note
    <3> QED
      BY <1>2, <1>3, <3>2, <3>3, NoteAdvances
  <2> QED
    BY <2>1, <2>2, <2>3
<1>5. CASE proc[w].op # "reconcile"
  <2>1. /\ proc'[w].op # "reconcile" /\ proc'[w].at # "save"
        /\ \A v \in Procs \ {w} : proc'[v] = proc[v]
    <3>1. CASE proc[w].at \in {"put", "match", "store"}
      <4>1. NextItem(w) /\ proc[w].at \in Writing \cup Reading
        BY <3>1 DEF Fail, Writing, Reading
      <4> QED
        BY <1>1, <1>5, <4>1, NextState
    <3>2. CASE proc[w].at \in {"entry", "takeover"}
      <4>1. Projected(w) /\ proc[w].at \in Writing
        BY <3>2 DEF Fail, Writing
      <4> QED
        BY <1>1, <4>1, AfterWriting
    <3>3. CASE proc[w].at \in {"drop", "find", "unlink"}
      <4>1. Stop(w)
        BY <3>3 DEF Fail
      <4> QED
        BY <1>1, <4>1, Stopped
    <3>4. proc[w].at \in Places /\ proc[w].at \notin {"idle", "save"}
      BY <1>1, <1>5 DEF VaultInv, ProcInv, States, PassOK, Proper, Fail
    <3> QED
      BY <3>1, <3>2, <3>3, <3>4 DEF Places
  <2> QED
    BY <1>2, <1>3, <1>5, <2>1, Aside
<1> QED
  BY <1>4, <1>5

LEMMA CrashSync ==
  ASSUME SyncInv, NEW w \in Procs, Crash(w)
  PROVE  PassOK' /\ \A u \in Uids : NoteInv(u)'
<1>1. VaultInv /\ PassOK /\ MarAll(Touches(w)) /\ Stop(w)
  BY DEF SyncInv, Crash
<1>2. UNCHANGED <<record, file, seq, cursor, edited, shown>>
  BY DEF Crash, storeVars
<1>3. CASE proc[w].op = "reconcile"
  <2>1. w = Worker /\ OnPass
    BY <1>1, <1>3 DEF PassOK, Proper, OnPass
  <2> QED
    BY <1>1, <1>2, <2>1, PassStops
<1>4. CASE proc[w].op # "reconcile"
  <2>1. /\ proc'[w].op # "reconcile" /\ proc'[w].at # "save"
        /\ \A v \in Procs \ {w} : proc'[v] = proc[v]
    BY <1>1, Stopped
  <2> QED
    BY <1>1, <1>2, <1>4, <2>1, Aside, Excused
<1> QED
  BY <1>3, <1>4

-----------------------------------------------------------------------------
(* The invariant, and what follows from it.                                *)

LEMMA StepSync ==
  ASSUME SyncInv, NEW w \in Procs, Step(w)
  PROVE  PassOK' /\ \A u \in Uids : NoteInv(u)'
BY PutSync, PutEntrySync, TakeOverSync, DropSync, FindOldSync, UnlinkSync, MatchSync, StoreSync, CursorSync DEF Step

LEMMA InitSync == Init => SyncInv
<1> SUFFICES ASSUME Init PROVE PassOK /\ InSequence /\ \A u \in Uids : NoteInv(u)
  BY InitInv DEF SyncInv
<1>1. PICK u \in Uids, p \in Paths, old \in BOOLEAN, c \in {NoCursor, At(0), At(2)} :
        LET t == [uid |-> u, ver |-> 0, path |-> p, by |-> "app"] IN
        /\ record = [w \in Uids |-> IF w = u
                       THEN [live |-> TRUE, seq |-> 1, text |-> t, legacy |-> old]
                       ELSE [live |-> FALSE, seq |-> 0, text |-> NoText, legacy |-> FALSE]]
        /\ file = [q \in Entries |-> IF q = EntryId[p] THEN [live |-> TRUE, seq |-> 2, text |-> t] ELSE NeverWas]
        /\ late = {} /\ seq = 2 /\ cursor = c
        /\ proc = [w \in Procs |-> Idle] /\ ops = 0 /\ faults = 0
        /\ edited = [w \in Uids |-> 0] /\ shown = [w \in Uids |-> EntryId[p]]
        /\ marred = [w \in Uids |-> {}]
  BY DEF Init
<1> DEFINE t == [uid |-> u, ver |-> 0, path |-> p, by |-> "app"]
<1>6. PICK e \in Entries : e = EntryId[p]
  BY StoreAssumption
<1>2. /\ record[u].live /\ record[u].text = t /\ \A v \in Uids \ {u} : ~record[v].live
      /\ file[e].live /\ file[e].text = t /\ \A q \in Entries \ {e} : ~file[q].live
      /\ file[e].seq = 2 /\ edited[u] = 0 /\ \A v \in Uids : shown[v] = e /\ marred[v] = {}
  BY <1>1, <1>6 DEF NeverWas
<1>3. \A w \in Procs : proc[w].at = "idle" /\ proc[w].op = "none"
  BY <1>1 DEF Idle
<1>4. PassOK /\ InSequence
  <2>1. cursor # NoCursor => UpTo(cursor, seq)
    BY <1>1 DEF UpTo, At
  <2> QED
    BY <1>2, <1>3, <2>1 DEF PassOK, Proper, InSequence
<1>5. ASSUME NEW v \in Uids PROVE NoteInv(v)
  <2>1. ShownLast(v)
    BY <1>2 DEF ShownLast, Shows, Holds
  <2>2. ListLast(v)
    BY <1>3, VaultAssumption DEF ListLast, OnPass
  <2>3. Fine(v) /\ Kept(v)
    <3>1. CASE v = u
      BY <1>2, <3>1 DEF Fine, Kept, Held, Holds, Shows
    <3>2. CASE v # u
      BY <1>2, <3>2 DEF Fine, Kept
    <3> QED
      BY <3>1, <3>2
  <2> QED
    BY <2>1, <2>2, <2>3 DEF NoteInv
<1> QED
  BY <1>4, <1>5

\* A step's marks: they stay, and of all steps only reverse-sync's write adds "order".
Orderly == \A u \in Uids : marred[u] \subseteq marred'[u] /\ ("order" \in marred'[u] => "order" \in marred[u])

LEMMA OrderlyMar ==
  ASSUME VaultInv, NEW u, NEW harm, Mar(u, harm), "order" \notin harm
  PROVE  Orderly
BY DEF VaultInv, RestTypeOK, Mar, Orderly

LEMMA OrderlyProject ==
  ASSUME VaultInv, NEW w, NEW u, NEW t, Project(w, u, t)
  PROVE  Orderly
BY DEF Project, Orderly, Early

LEMMA OrderlyStep ==
  ASSUME VaultInv, NEW w \in Procs, Step(w)
  PROVE  Orderly \/ (Store(w) /\ RecordMatches(Note(w), proc[w].rev) /\ proc[w].op # "rebuildRecords" /\ Disordered(w)
                     /\ Mar(Note(w), {"order"}))
<1>1. CASE Put(w) \/ Drop(w) \/ FindOld(w) \/ SaveCursor
  BY <1>1 DEF Put, Drop, FindOld, SaveCursor, historyVars, Orderly
<1>2. CASE PutEntry(w)
  BY <1>2, OrderlyProject DEF PutEntry, Orderly
<1>3. CASE TakeOver(w)
  BY <1>3, OrderlyProject, OrderlyMar DEF TakeOver
<1>4. CASE Unlink(w)
  <2>1. CASE file[Entry(proc[w].old)].seq = proc[w].rev
    <3>1. \E u, harm : "order" \notin harm /\ Mar(u, harm)
      BY <1>4, <2>1 DEF Unlink
    <3> QED
      BY <3>1, OrderlyMar
  <2>2. CASE file[Entry(proc[w].old)].seq # proc[w].rev
    BY <1>4, <2>2 DEF Unlink, Orderly
  <2> QED
    BY <2>1, <2>2
<1>5. CASE Match(w)
  <2>1. \E u, harm : "order" \notin harm /\ Mar(u, harm)
    BY <1>5 DEF Match
  <2> QED
    BY <2>1, OrderlyMar
<1>6. CASE Store(w)
  <2>1. CASE ~RecordMatches(Note(w), proc[w].rev)
    BY <1>6, <2>1 DEF Store, Orderly
  <2>2. CASE RecordMatches(Note(w), proc[w].rev) /\ (proc[w].op = "rebuildRecords" \/ ~Disordered(w))
    <3>1. \E u, harm : "order" \notin harm /\ Mar(u, harm)
      BY <1>6, <2>2 DEF Store
    <3> QED
      BY <3>1, OrderlyMar
  <2>3. CASE RecordMatches(Note(w), proc[w].rev) /\ proc[w].op # "rebuildRecords" /\ Disordered(w)
    BY <1>6, <2>3 DEF Store
  <2> QED
    BY <2>1, <2>2, <2>3
<1> QED
  BY <1>1, <1>2, <1>3, <1>4, <1>5, <1>6 DEF Step

LEMMA OrderlyOther ==
  ASSUME VaultInv, [Next]_vars, ~\E w \in Procs : Step(w)
  PROVE  Orderly
<1>1. CASE Pass \/ UNCHANGED vars \/ \E t \in late : ChunkArrives(t)
  BY <1>1 DEF Pass, BookmarkNow, ReadPage, ChunkArrives, vars, historyVars, Orderly
<1>2. CASE \E w \in Procs : Start(w)
  BY <1>2 DEF Start, Capture, Update, Apply, Delete, RebuildVault, RebuildRecords, NormalizeRecords, historyVars, Orderly
<1>3. CASE \E w \in Procs : Fail(w) \/ Crash(w)
  <2>1. \E U : MarAll(U)
    BY <1>3 DEF Fail, Crash
  <2> QED
    BY <2>1 DEF MarAll, Orderly
<1>4. CASE Human
  <2>1. \E u, harm : "order" \notin harm /\ Mar(u, harm)
    BY <1>4 DEF Human, HumanSave, HumanMove, HumanDelete, Early
  <2> QED
    BY <2>1, OrderlyMar
<1> QED
  BY <1>1, <1>2, <1>3, <1>4 DEF Next

\* In one shard reverse-sync reads no file of a note after the one shown.
LEMMA StoreOrder ==
  ASSUME SyncInv, OneShard, NEW w \in Procs, Store(w), proc[w].op # "rebuildRecords", Disordered(w)
  PROVE  ~Unbroken(Note(w))
<1>1. VaultInv /\ PassOK /\ proc[w].at = "store" /\ proc[w].at \in Reading
  BY DEF SyncInv, Store, Reading
<1> SUFFICES ASSUME NEW me, me = Note(w), Unbroken(me) PROVE FALSE
  OBVIOUS
<1>2. proc[w].op = "reconcile" /\ w = Worker /\ OnPass
  BY <1>1 DEF VaultInv, ProcInv, Begun, Reading, PassOK, Proper, OnPass
<1>3. me \in Uids /\ Now(w) = proc[w].todo[1] /\ 1 \in DOMAIN proc[w].todo /\ proc[w].todo[1].text.uid = me
  BY <1>1, Holding DEF VaultInv, Note
<1>4. Held(me) /\ Shows(me).seq <= proc[Worker].mark[Shard(me)]
  BY <1>2 DEF Disordered, Held, Shows, Shard
<1>5. \E i \in DOMAIN proc[Worker].todo : proc[Worker].todo[i].text = Shows(me).text
  BY <1>2, <1>3, <1>4 DEF SyncInv, NoteInv, ListLast
<1> QED
  BY <1>2, <1>5 DEF Disordered, Shows

LEMMA NextOrder ==
  ASSUME SyncInv, [Next]_vars
  PROVE  InSequence'
<1>1. VaultInv /\ InSequence
  BY DEF SyncInv
<1> SUFFICES ASSUME OneShard, NEW u \in Uids, "order" \in marred'[u] PROVE ~Unbroken(u)'
  BY DEF InSequence, OneShard
<1>2. CASE Orderly
  <2>1. marred[u] \subseteq marred'[u] /\ "order" \in marred[u]
    BY <1>2 DEF Orderly
  <2> QED
    BY <1>1, <2>1 DEF InSequence, Unbroken
<1>3. ASSUME NEW w \in Procs, Store(w), proc[w].op # "rebuildRecords", Disordered(w), Mar(Note(w), {"order"})
      PROVE  ~Unbroken(u)'
  <2>1. marred'[u] = IF u = Note(w) THEN marred[u] \cup {"order"} ELSE marred[u]
    BY <1>1, <1>3 DEF VaultInv, RestTypeOK, Mar
  <2>2. ~Unbroken(u)
    <3>1. CASE u = Note(w)
      BY <1>3, <3>1, StoreOrder
    <3>2. CASE u # Note(w)
      BY <1>1, <2>1, <3>2 DEF InSequence
    <3> QED
      BY <3>1, <3>2
  <2> QED
    BY <2>1, <2>2 DEF Unbroken
<1> QED
  BY <1>1, <1>2, <1>3, OrderlyStep, OrderlyOther

LEMMA NextSync == SyncInv /\ [Next]_vars => SyncInv'
<1> SUFFICES ASSUME SyncInv, [Next]_vars PROVE PassOK' /\ \A u \in Uids : NoteInv(u)'
  BY NextInv, NextOrder DEF SyncInv
<1>1. CASE Pass
  BY <1>1, PassSync
<1>2. CASE \E w \in Procs : Start(w) \/ Step(w) \/ Fail(w) \/ Crash(w)
  BY <1>2, StartSync, StepSync, FailSync, CrashSync
<1>3. CASE Human
  BY <1>3, HideSync, MoveSync, SaveSync DEF Human
<1>4. CASE \E t \in late : ChunkArrives(t)
  BY <1>4, NothingSeen DEF ChunkArrives
<1>5. CASE UNCHANGED vars
  BY <1>5, NothingSeen DEF vars, storeVars
<1> QED
  BY <1>1, <1>2, <1>3, <1>4, <1>5 DEF Next

\* Whatever the app's processes, reverse-sync and the person do, a note's record
\* equals the file shown last unless somebody still has to read that file or to
\* project that record (record_service.py, couchdb_client.py, reconcile.py).
THEOREM SyncSafe == Spec => []SyncInv
BY InitSync, NextSync, PTL DEF Spec

\* When everything is at rest and read, nothing of what may still happen is left.
LEMMA NothingOpen ==
  ASSUME SyncInv, Quiet, NEW u \in Uids
  PROVE  /\ ~\E w \in Procs : Projecting(w)
         /\ Clean(u) => Agrees(u)
<1>1. VaultInv /\ PassOK /\ NoteInv(u) /\ Worker \in Procs /\ shown[u] \in Entries
  BY VaultAssumption, Numbers DEF SyncInv
<1>2. cursor # NoCursor /\ (\A e \in LiveFiles : file[e].seq <= cursor[ShardOf[e]]) /\ \A w \in Procs : proc[w].at = "idle"
  BY DEF Quiet, Drained
<1>3. ~OnPass /\ ~\E w \in Procs : Projecting(w)
  BY <1>1, <1>2, NotOnPass DEF OnPass, Projecting
<1>4. ASSUME Clean(u), record[u].live, Held(u) PROVE record[u].text = Shows(u).text
  <2>1. ~Listed(u) /\ ~\E w \in Procs : Pending(w, u)
    BY <1>3 DEF Listed, Pending
  <2>2. ~Unread(u)
    <3>1. Shows(u).seq <= cursor[Shard(u)]
      BY <1>1, <1>2, <1>4 DEF Held, Holds, Shows, LiveFiles, Shard
    <3>2. Shows(u).seq \in Nat /\ cursor[Shard(u)] \in Nat
      BY <1>1, <1>2, Numbers DEF Shows, Shard, Marks
    <3> QED
      BY <1>3, <3>1, <3>2 DEF Unread, Read
  <2> QED
    BY <1>1, <1>4, <2>1, <2>2 DEF NoteInv, Fine
<1> QED
  BY <1>3, <1>4 DEF Agrees, Held, Holds, Shows

\* Once things are quiet, a record holds what its file shows, whoever wrote last
\* and in whatever order the calls interleaved (reconcile.py, couchdb_client.py).
THEOREM RecordsAgree == Spec => []Agreement
<1>1. SyncInv => Agreement
  BY NothingOpen DEF Agreement, Broken, Clean, Unbroken
<1> QED
  BY <1>1, SyncSafe, PTL

\* An edit that the app has acknowledged is what the record and the file shown hold
\* once things are quiet: no echo and no file left behind by a rename has put an older
\* text back (record_service.py:51-53).
THEOREM EditsStay == Spec => []EditsSurvive
<1>1. SyncInv => EditsSurvive
  <2> SUFFICES ASSUME SyncInv, Quiet, NEW u \in LiveRecords, marred[u] = {}
               PROVE  record[u].text.ver = edited[u] /\ Shows(u).live /\ Shows(u).text = record[u].text
    BY DEF EditsSurvive, Shows
  <2>1. u \in Uids /\ record[u].live /\ Kept(u) /\ Clean(u)
    BY DEF LiveRecords, SyncInv, NoteInv, Clean, Unbroken
  <2>2. Agrees(u) /\ ~\E w \in Procs : Bringing(w, u)
    BY <2>1, NothingOpen DEF Bringing
  <2>3. Held(u) /\ Shows(u).text.ver = edited[u]
    BY <2>1, <2>2 DEF Kept
  <2> QED
    BY <2>1, <2>2, <2>3 DEF Agrees, Held, Holds, Shows
<1> QED
  BY <1>1, SyncSafe, PTL

\* When the database has one shard reverse-sync never stores a file's text of a note
\* that it read after the file shown last, unless something else had gone wrong with
\* the note (reconcile.py:134-136).
THEOREM OrderKept == Spec => []InOrder
<1>1. SyncInv => InOrder
  BY DEF SyncInv, InSequence, InOrder, OneShard, Unbroken, Broken
<1> QED
  BY <1>1, SyncSafe, PTL

=============================================================================
