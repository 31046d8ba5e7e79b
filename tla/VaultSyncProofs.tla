-------------------------- MODULE VaultSyncProofs --------------------------
(***************************************************************************)
(* Proofs about the vault's two-way sync: its types, the store's           *)
(* revisions, and that nothing deleted comes back by itself.               *)
(***************************************************************************)
EXTENDS VaultSync, FiniteSetTheorems, FunctionTheorems, TLAPS

(* The inductive invariant.                                                *)

\* A document that was ever written has a text, and a revision of its own.
Written(doc, n) == doc.seq > 0 /\ doc.seq <= n /\ doc.text \in Texts
DocsInv ==
  /\ \A u \in Uids : record[u].live \/ record[u].seq # 0 => Written(record[u], seq)
  /\ \A p \in Entries : file[p].live \/ file[p].seq # 0 => Written(file[p], seq)
  /\ \A p, q \in Entries : file[p].seq = file[q].seq => p = q \/ file[p].seq = 0

\* A process in one of the two routines has an item, one that removes has a text;
\* only a capture puts without a revision, only a forced import stores without one.
Writing == {"put", "entry", "takeover"}
Reading == {"match", "store"}
Removing == {"drop", "find", "unlink"}
Begun(me) ==
  /\ me.at \in Writing \cup Reading => me.todo # <<>>
  /\ me.at \in Removing => me.old \in Texts
  /\ me.at \in Writing => me.op \in {"capture", "update", "apply", "normalize", "rebuildVault"}
  /\ me.at \in Reading => me.op \in {"reconcile", "rebuildRecords"}
  /\ me.op \in {"capture", "update", "apply"} => Len(me.todo) <= 1
  /\ me.op # "capture" => \A i \in DOMAIN me.todo : me.todo[i].rev > 0
  /\ (me.at = "store" /\ me.op = "reconcile") \/ me.at \in {"drop", "unlink"} => me.rev > 0

\* The invariant, as it is proved: of the store, of the processes, of the rest.
States == [at : Places, op : AppOps \cup {"none", "reconcile"}, todo : Seq(Items),
           rev : Nat, old : Texts \cup {NoText}, mark : Marks]
StoreInv == StoreTypeOK /\ DocsInv
ProcInv == proc \in [Procs -> States] /\ \A w \in Procs : Begun(proc[w])
RestTypeOK ==
  /\ cursor \in Marks \cup {NoCursor} /\ ops \in 0..MaxOps /\ faults \in 0..MaxFaults
  /\ edited \in [Uids -> Nat] /\ shown \in [Uids -> Entries] /\ marred \in [Uids -> SUBSET Harm]
VaultInv == StoreInv /\ ProcInv /\ RestTypeOK

-----------------------------------------------------------------------------
(* Sets of numbers.                                                        *)

\* In a finite set of numbers each rank is taken by one of them.
LEMMA Ranked ==
  ASSUME NEW S \in SUBSET Nat, IsFiniteSet(S), NEW k \in 1..Cardinality(S)
  PROVE  \E x \in S : Cardinality({y \in S : y <= x}) = k
<1> DEFINE below(x) == {y \in S : y <= x}
           rank == [x \in S |-> Cardinality(below(x))]
           n == Cardinality(S)
<1>1. n \in Nat
  BY FS_CardinalityType
<1>2. \A x \in S : IsFiniteSet(below(x)) /\ Cardinality(below(x)) \in 1..n
  <2> SUFFICES ASSUME NEW x \in S PROVE IsFiniteSet(below(x)) /\ Cardinality(below(x)) \in 1..n
    OBVIOUS
  <2>1. below(x) \in SUBSET S /\ x \in below(x)
    OBVIOUS
  <2>2. IsFiniteSet(below(x)) /\ Cardinality(below(x)) <= n
    BY <2>1, FS_Subset
  <2>3. Cardinality(below(x)) \in Nat /\ Cardinality(below(x)) # 0
    BY <2>1, <2>2, FS_CardinalityType, FS_EmptySet
  <2> QED
    BY <1>1, <2>2, <2>3
<1>3. \A x, z \in S : x < z => Cardinality(below(x)) # Cardinality(below(z))
  <2> SUFFICES ASSUME NEW x \in S, NEW z \in S, x < z, Cardinality(below(x)) = Cardinality(below(z)) PROVE FALSE
    OBVIOUS
  <2>1. below(x) \in SUBSET below(z) /\ z \in below(z) /\ z \notin below(x)
    <3>1. x \in Nat /\ z \in Nat /\ \A y \in S : y \in Nat
      OBVIOUS
    <3>2. \A y \in S : y <= x => y <= z
      BY <3>1
    <3>3. z <= z /\ ~(z <= x)
      BY <3>1
    <3> QED
      BY <3>2, <3>3
  <2>2. below(z) = below(x)
    BY <1>2, <2>1, FS_Subset
  <2> QED
    BY <2>1, <2>2
<1>4. rank \in [S -> 1..n] /\ \A x, z \in S : rank[x] = rank[z] => x = z
  BY <1>2, <1>3
<1>5. rank \in Injection(S, 1..n)
  BY <1>4, Fun_IsInj
<1>6. IsFiniteSet(1..n) /\ Cardinality(1..n) = n
  BY <1>1, FS_Interval
<1>7. rank \in Surjection(S, 1..n)
  BY <1>5, <1>6, FS_Injection
<1> QED
  BY <1>7 DEF Surjection

\* A set of numbers below a bound that is not empty has a greatest one.
LEMMA Greatest ==
  ASSUME NEW S \in SUBSET Nat, NEW n \in Nat, \A x \in S : x <= n, S # {}
  PROVE  \E x \in S : \A y \in S : y <= x
<1>1. IsFiniteSet(S)
  BY FS_BoundedSetOfNaturals
<1>2. Cardinality(S) \in 1..Cardinality(S)
  BY <1>1, FS_CardinalityType, FS_EmptySet
<1>3. PICK x \in S : Cardinality({y \in S : y <= x}) = Cardinality(S)
  BY <1>1, <1>2, Ranked
<1>4. {y \in S : y <= x} = S
  BY <1>1, <1>3, FS_Subset
<1> QED
  BY <1>4

-----------------------------------------------------------------------------
(* Lists of items.                                                         *)

\* A list in any order is a sequence of its items, each once.
LEMMA OrderIsList ==
  ASSUME NEW S \in SUBSET Items, IsFiniteSet(S), NEW s \in Orders(S)
  PROVE  s \in Seq(Items) /\ \A i \in DOMAIN s : s[i] \in S
<1>1. Cardinality(S) \in Nat
  BY FS_CardinalityType
<1>2. s \in [1..Cardinality(S) -> S]
  BY DEF Orders
<1> QED
  BY <1>1, <1>2

-----------------------------------------------------------------------------
(* Processes.                                                              *)

\* Bookmarks of a number, and the entries of texts.
LEMMA AtMarks == \A n \in Nat : At(n) \in Marks
BY DEF At, Marks

LEMMA EntryType == \A t \in Texts : Entry(t) \in Entries
BY StoreAssumption DEF Entry, Texts

\* A process that enters a proper state leaves all of them proper.
LEMMA Entered ==
  ASSUME ProcInv, NEW w \in Procs, NEW me \in States, Begun(me), Enter(w, me)
  PROVE  ProcInv' /\ proc'[w] = me /\ \A v \in Procs \ {w} : proc'[v] = proc[v]
<1>1. proc' \in [Procs -> States] /\ proc'[w] = me /\ \A v \in Procs \ {w} : proc'[v] = proc[v]
  BY DEF ProcInv, Enter
<1>2. \A v \in Procs : Begun(proc'[v])
  BY <1>1 DEF ProcInv
<1> QED
  BY <1>1, <1>2 DEF ProcInv

\* Nobody moves.
LEMMA Resting ==
  ASSUME ProcInv, UNCHANGED proc
  PROVE  ProcInv'
BY DEF ProcInv

LEMMA IdleBegun == Idle \in States /\ Begun(Idle)
<1>1. <<>> \in Seq(Items)
  OBVIOUS
<1>2. Idle \in States
  BY <1>1, AtMarks DEF Idle, States, Places
<1>3. Idle.at = "idle" /\ Idle.op = "none" /\ Idle.todo = <<>>
  BY DEF Idle
<1> QED
  BY <1>2, <1>3 DEF Begun, Writing, Reading, Removing

LEMMA SavingBegun ==
  ASSUME NEW mark \in Marks
  PROVE  Saving(mark) \in States /\ Begun(Saving(mark)) /\ Saving(mark).op = "reconcile"
<1>1. Idle \in States /\ Idle.todo = <<>>
  BY IdleBegun DEF Idle
<1> DEFINE me == Saving(mark)
<1>2. me \in States /\ me.at = "save" /\ me.op = "reconcile" /\ me.todo = <<>>
  BY <1>1 DEF Saving, States, Places
<1> HIDE DEF me
<1>3. Begun(me)
  BY <1>2 DEF Begun, Writing, Reading, Removing
<1> QED
  BY <1>2, <1>3 DEF me

\* A loop's first item, or its end.
LEMMA FirstBegun ==
  ASSUME NEW op \in {"rebuildVault", "normalize", "rebuildRecords", "reconcile"}, NEW todo \in Seq(Items),
         \A i \in DOMAIN todo : todo[i].rev > 0, NEW mark \in Marks, NEW last \in States, Begun(last)
  PROVE  First(op, todo, mark, last) \in States /\ Begun(First(op, todo, mark, last))
<1>1. CASE todo = <<>>
  BY <1>1 DEF First
<1>2. CASE todo # <<>>
  <2> DEFINE at == CASE op = "rebuildVault" -> "entry" [] op = "normalize" -> "put" [] OTHER -> "match"
             me == [at |-> at, op |-> op, todo |-> todo, rev |-> 0, old |-> NoText, mark |-> mark]
  <2>1. First(op, todo, mark, last) = me
    BY <1>2 DEF First, Idle
  <2>2. /\ op = "rebuildVault" => at = "entry"
        /\ op = "normalize" => at = "put"
        /\ op \in {"rebuildRecords", "reconcile"} => at = "match"
    OBVIOUS
  <2> HIDE DEF at
  <2>3. me \in States
    BY <2>2 DEF States, Places, AppOps
  <2>4. me.at = at /\ me.op = op /\ me.todo = todo
    OBVIOUS
  <2> HIDE DEF me
  <2>5. Begun(me)
    BY <1>2, <2>2, <2>4 DEF Begun, Writing, Reading, Removing
  <2> QED
    BY <2>1, <2>3, <2>5
<1> QED
  BY <1>1, <1>2

\* What a process in the two routines holds.
LEMMA Holding ==
  ASSUME ProcInv, NEW w \in Procs, proc[w].at \in Writing \cup Reading
  PROVE  /\ proc[w] \in States /\ Begun(proc[w]) /\ proc[w].todo # <<>>
         /\ Now(w) = proc[w].todo[1] /\ 1 \in DOMAIN proc[w].todo
         /\ Now(w) \in Items /\ Note(w) \in Uids /\ Now(w).text \in Texts /\ Now(w).rev \in Nat
         /\ Entry(Now(w).text) \in Entries /\ Now(w).text.ver \in Nat
         /\ proc[w].op # "capture" => Now(w).rev > 0
         /\ Len(proc[w].todo) \in Nat \ {0} /\ Len(Tail(proc[w].todo)) = Len(proc[w].todo) - 1
         /\ Tail(proc[w].todo) \in Seq(Items)
         /\ \A i \in DOMAIN Tail(proc[w].todo) : i + 1 \in DOMAIN proc[w].todo /\ Tail(proc[w].todo)[i] = proc[w].todo[i + 1]
<1>1. proc[w] \in States /\ Begun(proc[w])
  BY DEF ProcInv
<1>2. proc[w].todo # <<>> /\ proc[w].todo \in Seq(Items)
  BY <1>1 DEF Begun, States
<1> DEFINE todo == proc[w].todo
<1>3. /\ Len(todo) \in Nat \ {0} /\ DOMAIN todo = 1..Len(todo) /\ Head(todo) = todo[1] /\ todo[1] \in Items
      /\ Tail(todo) \in Seq(Items) /\ Len(Tail(todo)) = Len(todo) - 1 /\ DOMAIN Tail(todo) = 1..(Len(todo) - 1)
      /\ \A i \in 1..(Len(todo) - 1) : Tail(todo)[i] = todo[i + 1]
  <2> HIDE DEF todo
  <2>1. todo # <<>> /\ todo \in Seq(Items)
    BY <1>2 DEF todo
  <2> QED
    BY <2>1
<1>4. /\ Now(w) = todo[1] /\ Now(w) \in Items
  BY <1>3 DEF Now
<1>5. Now(w).text \in Texts /\ Now(w).rev \in Nat
  BY <1>4 DEF Items
<1>6. Now(w).text.uid \in Uids /\ Entry(Now(w).text) \in Entries /\ Now(w).text.ver \in Nat
  BY <1>5, EntryType DEF Texts
<1>7. proc[w].op # "capture" => Now(w).rev > 0
  BY <1>1, <1>3, <1>4 DEF Begun
<1>8. \A i \in 1..(Len(todo) - 1) : i + 1 \in 1..Len(todo)
  BY <1>3
<1> QED
  BY <1>1, <1>2, <1>3, <1>4, <1>5, <1>6, <1>7, <1>8 DEF Note

\* The next item is as proper as this one.
LEMMA NextBegun ==
  ASSUME ProcInv, NEW w \in Procs, proc[w].at \in Writing \cup Reading
  PROVE  \E me \in States : Begun(me) /\ (NextItem(w) => Enter(w, me))
<1> DEFINE old == proc[w]
           last == IF old.op = "reconcile" THEN Saving(old.mark) ELSE Idle
           me == First(old.op, Tail(old.todo), old.mark, last)
<1>1. old.mark \in Marks /\ old.op \in AppOps \cup {"none", "reconcile"}
  BY Holding DEF States
<1>2. last \in States /\ Begun(last)
  BY <1>1, IdleBegun, SavingBegun
<1>3. old.op \in {"capture", "update", "apply", "normalize", "rebuildVault", "rebuildRecords", "reconcile"}
  BY Holding DEF Begun
<1>4. CASE old.op \in {"capture", "update", "apply"}
  <2>1. Len(old.todo) <= 1 /\ old.todo \in Seq(Items) /\ Len(Tail(old.todo)) = Len(old.todo) - 1
    BY <1>4, Holding DEF Begun, States
  <2>2. Tail(old.todo) \in Seq(Items) /\ Len(Tail(old.todo)) = 0
    <3>1. Tail(old.todo) \in Seq(Items) /\ Len(old.todo) \in Nat \ {0}
      BY Holding
    <3> DEFINE rest == Tail(old.todo)
               n == Len(old.todo)
    <3>2. rest \in Seq(Items) /\ n \in Nat \ {0} /\ n <= 1 /\ Len(rest) = n - 1
      BY <2>1, <3>1
    <3> HIDE DEF rest, n
    <3>3. rest \in Seq(Items) /\ Len(rest) = 0
      BY <3>2
    <3> QED
      BY <3>3 DEF rest
  <2>3. Tail(old.todo) = <<>>
    <3> DEFINE rest == Tail(old.todo)
    <3>1. rest \in Seq(Items) /\ Len(rest) = 0
      BY <2>2
    <3> HIDE DEF rest
    <3>2. rest = <<>>
      BY <3>1
    <3> QED
      BY <3>2 DEF rest
  <2>4. me = last
    BY <2>3 DEF First
  <2> QED
    BY <1>2, <2>4 DEF NextItem
<1>5. CASE old.op \in {"rebuildVault", "normalize", "rebuildRecords", "reconcile"}
  <2>1. \A i \in DOMAIN Tail(old.todo) : Tail(old.todo)[i].rev > 0
    <3>1. \A i \in DOMAIN old.todo : old.todo[i].rev > 0
      BY <1>5, Holding DEF Begun
    <3> QED
      BY <3>1, Holding
  <2>2. Tail(old.todo) \in Seq(Items)
    BY Holding
  <2> HIDE DEF last
  <2>3. me \in States /\ Begun(me)
    BY <1>1, <1>2, <1>5, <2>1, <2>2, FirstBegun
  <2> QED
    BY <2>3 DEF NextItem, last
<1> QED
  BY <1>3, <1>4, <1>5

-----------------------------------------------------------------------------
(* The store.                                                              *)

LEMMA StoreRests ==
  ASSUME StoreInv, UNCHANGED <<record, file, seq>>, late' \subseteq late
  PROVE  StoreInv'
BY DEF StoreInv, StoreTypeOK, DocsInv, Written

\* What was written stays so as the sequence goes on.
LEMMA RecordChanges ==
  ASSUME StoreInv, NEW u \in Uids, NEW d \in Records, d.text \in Texts, d.seq = seq + 1,
         record' = [record EXCEPT ![u] = d], seq' = seq + 1, UNCHANGED <<file, late>>
  PROVE  StoreInv'
<1>1. seq \in Nat /\ record \in [Uids -> Records] /\ file \in [Entries -> Docs]
  BY DEF StoreInv, StoreTypeOK
<1>2. StoreTypeOK'
  BY <1>1 DEF StoreInv, StoreTypeOK
<1>3. \A v \in Uids : record[v].seq \in Nat /\ record'[v] = IF v = u THEN d ELSE record[v]
  BY <1>1 DEF Records
<1>4. \A p \in Entries : file[p].seq \in Nat
  BY <1>1 DEF Docs
<1>5. \A v \in Uids : record'[v].live \/ record'[v].seq # 0 => Written(record'[v], seq')
  BY <1>1, <1>3 DEF StoreInv, DocsInv, Written
<1>6. \A p \in Entries : file'[p].live \/ file'[p].seq # 0 => Written(file'[p], seq')
  BY <1>1, <1>4 DEF StoreInv, DocsInv, Written
<1> QED
  BY <1>2, <1>5, <1>6 DEF StoreInv, DocsInv, Written

LEMMA FileChanges ==
  ASSUME StoreInv, NEW p \in Entries, NEW d \in Docs, d.text \in Texts, d.seq = seq + 1,
         file' = [file EXCEPT ![p] = d], seq' = seq + 1, UNCHANGED record, late' \subseteq Texts
  PROVE  StoreInv'
<1>1. seq \in Nat /\ record \in [Uids -> Records] /\ file \in [Entries -> Docs]
  BY DEF StoreInv, StoreTypeOK
<1>2. StoreTypeOK'
  BY <1>1 DEF StoreInv, StoreTypeOK
<1>3. \A q \in Entries : file[q].seq \in Nat /\ file'[q] = IF q = p THEN d ELSE file[q]
  BY <1>1 DEF Docs
<1>4. \A u \in Uids : record[u].seq \in Nat
  BY <1>1 DEF Records
<1>5. \A u \in Uids : record'[u].live \/ record'[u].seq # 0 => Written(record'[u], seq')
  BY <1>1, <1>4 DEF StoreInv, DocsInv, Written
<1>6. \A q \in Entries : file'[q].live \/ file'[q].seq # 0 => Written(file'[q], seq')
  BY <1>1, <1>3 DEF StoreInv, DocsInv, Written
<1>7. \A q \in Entries : file[q].seq <= seq
  BY <1>1, <1>3 DEF StoreInv, DocsInv, Written
<1>8. \A q, r \in Entries : file'[q].seq = file'[r].seq => q = r \/ file'[q].seq = 0
  <2>1. \A q, r \in Entries : file[q].seq = file[r].seq => q = r \/ file[q].seq = 0
    BY DEF StoreInv, DocsInv
  <2> QED
    BY <1>1, <1>3, <1>7, <2>1
<1> QED
  BY <1>2, <1>5, <1>6, <1>8 DEF StoreInv, DocsInv, Written

\* PUT and DELETE of a record.
LEMMA RecordWritten ==
  ASSUME StoreInv, NEW u \in Uids, NEW t \in Texts, WriteRecord(u, t), UNCHANGED <<file, late>>
  PROVE  StoreInv'
<1> DEFINE d == [live |-> TRUE, seq |-> seq + 1, text |-> t, legacy |-> FALSE]
<1>1. d \in Records /\ d.text \in Texts /\ d.seq = seq + 1
  BY DEF StoreInv, StoreTypeOK, Records
<1>2. record' = [record EXCEPT ![u] = d] /\ seq' = seq + 1
  BY DEF WriteRecord
<1> HIDE DEF d
<1> QED
  BY <1>1, <1>2, RecordChanges

LEMMA RecordDropped ==
  ASSUME StoreInv, NEW u \in Uids, record[u].live, DropRecord(u), UNCHANGED <<file, late>>
  PROVE  StoreInv'
<1> DEFINE d == [record[u] EXCEPT !.live = FALSE, !.seq = seq + 1]
<1>1. record[u].text \in Texts /\ record[u] \in Records /\ seq \in Nat
  BY DEF StoreInv, StoreTypeOK, DocsInv, Written
<1>2. d \in Records /\ d.text \in Texts /\ d.seq = seq + 1
  <2>1. seq + 1 \in Nat
    BY <1>1
  <2>2. d \in Records
    BY <1>1, <2>1 DEF Records
  <2>3. d.text = record[u].text /\ d.seq = seq + 1
    BY <1>1 DEF Records
  <2> QED
    BY <1>1, <2>2, <2>3
<1>3. record' = [record EXCEPT ![u] = d] /\ seq' = seq + 1
  BY DEF DropRecord
<1> HIDE DEF d
<1> QED
  BY <1>2, <1>3, RecordChanges

\* PUT of an entry, by the app or by LiveSync.
LEMMA FileWritten ==
  ASSUME StoreInv, NEW p \in Entries, NEW t \in Texts, late' \subseteq Texts, UNCHANGED record, seq' = seq + 1,
         file' = [file EXCEPT ![p] = [live |-> TRUE, seq |-> seq + 1, text |-> t]]
  PROVE  StoreInv'
<1> DEFINE d == [live |-> TRUE, seq |-> seq + 1, text |-> t]
<1>1. d \in Docs /\ d.text \in Texts /\ d.seq = seq + 1
  BY DEF StoreInv, StoreTypeOK, Docs
<1>2. file' = [file EXCEPT ![p] = d]
  OBVIOUS
<1> HIDE DEF d
<1> QED
  BY <1>1, <1>2, FileChanges

\* An entry is marked deleted.
LEMMA FileHidden ==
  ASSUME StoreInv, NEW p \in Entries, file[p].text \in Texts, HideFile(p), UNCHANGED <<record, late>>
  PROVE  StoreInv'
<1> DEFINE d == [file[p] EXCEPT !.live = FALSE, !.seq = seq + 1]
<1>1. file[p] \in Docs /\ seq \in Nat /\ late \subseteq Texts
  BY DEF StoreInv, StoreTypeOK
<1>2. d \in Docs /\ d.text \in Texts /\ d.seq = seq + 1
  <2>1. seq + 1 \in Nat
    BY <1>1
  <2>2. d \in Docs
    BY <1>1, <2>1 DEF Docs
  <2>3. d.text = file[p].text /\ d.seq = seq + 1
    BY <1>1 DEF Docs
  <2> QED
    BY <1>1, <2>2, <2>3
<1>3. file' = [file EXCEPT ![p] = d] /\ seq' = seq + 1
  BY DEF HideFile
<1> HIDE DEF d
<1> QED
  BY <1>1, <1>2, <1>3, FileChanges

-----------------------------------------------------------------------------
(* Beginning an operation.                                                 *)

\* Items that may be listed: finitely many, each with the revision it was read at.
Listable(S) == S \in SUBSET Items /\ IsFiniteSet(S) /\ \A a \in S : a.rev > 0

\* The lists of records.
LEMMA NotesListable ==
  ASSUME StoreInv, NEW U \in SUBSET LiveRecords
  PROVE  Listable(NoteItems(U))
<1> DEFINE item == [u \in U |-> [text |-> Rendered(record[u].text), rev |-> record[u].seq]]
<1>1. U \in SUBSET Uids /\ IsFiniteSet(U)
  <2>1. U \in SUBSET Uids
    BY DEF LiveRecords
  <2> QED
    BY <2>1, StoreAssumption, FS_Subset
<1>2. \A u \in U : item[u] \in Items /\ item[u].rev > 0
  <2> SUFFICES ASSUME NEW u \in U PROVE item[u] \in Items /\ item[u].rev > 0
    OBVIOUS
  <2>1. record[u].live /\ record[u] \in Records /\ Written(record[u], seq)
    BY <1>1 DEF LiveRecords, StoreInv, StoreTypeOK, DocsInv
  <2>2. Rendered(record[u].text) \in Texts
    BY <2>1 DEF Written, Rendered, Texts
  <2> QED
    BY <2>1, <2>2 DEF Items, Records, Written
<1>3. NoteItems(U) = {item[u] : u \in U}
  BY DEF NoteItems
<1>4. item \in Surjection(U, NoteItems(U))
  <2>1. item \in [U -> NoteItems(U)] /\ \A a \in NoteItems(U) : \E u \in U : item[u] = a
    BY DEF NoteItems
  <2> QED
    BY <2>1, Fun_IsSurj
<1> QED
  BY <1>1, <1>2, <1>3, <1>4, FS_Surjection DEF Listable

\* A list of files is one of items.
LEMMA FilesListed ==
  ASSUME StoreInv, NEW S \in SUBSET LiveFiles, NEW files \in Orders(S), NEW todo,
         todo = [i \in DOMAIN files |-> FileItem(files[i])]
  PROVE  /\ todo \in Seq(Items) /\ \A i \in DOMAIN todo : todo[i].rev > 0
         /\ DOMAIN todo = DOMAIN files /\ \A i \in DOMAIN todo : todo[i] = FileItem(files[i]) /\ files[i] \in S
<1>1. IsFiniteSet(S) /\ Cardinality(S) \in Nat
  <2>1. S \in SUBSET Entries
    BY DEF LiveFiles
  <2> QED
    BY <2>1, StoreAssumption, FS_Subset, FS_CardinalityType
<1>2. files \in [1..Cardinality(S) -> S]
  BY DEF Orders
<1>3. \A e \in S : FileItem(e) \in Items /\ FileItem(e).rev > 0
  <2> SUFFICES ASSUME NEW e \in S PROVE FileItem(e) \in Items /\ FileItem(e).rev > 0
    OBVIOUS
  <2>1. e \in Entries /\ file[e].live /\ file[e] \in Docs /\ Written(file[e], seq)
    BY DEF LiveFiles, StoreInv, StoreTypeOK, DocsInv
  <2> QED
    BY <2>1 DEF Items, Docs, Written, FileItem
<1>4. todo \in [1..Cardinality(S) -> Items] /\ \A i \in 1..Cardinality(S) : files[i] \in S /\ todo[i] = FileItem(files[i])
  BY <1>2, <1>3
<1>5. todo \in Seq(Items)
  BY <1>1, <1>4
<1> QED
  BY <1>2, <1>3, <1>4, <1>5

\* A process begins to work on a list.
LEMMA ListBegun ==
  ASSUME NEW S, Listable(S), NEW todo \in Orders(S), NEW mark \in Marks, NEW last \in States, Begun(last),
         NEW op \in {"rebuildVault", "normalize", "rebuildRecords", "reconcile"}
  PROVE  First(op, todo, mark, last) \in States /\ Begun(First(op, todo, mark, last))
<1>1. todo \in Seq(Items) /\ \A i \in DOMAIN todo : todo[i].rev > 0
  BY OrderIsList DEF Listable
<1> QED
  BY <1>1, FirstBegun

\* One operation more.
LEMMA Counting ==
  ASSUME RestTypeOK, Counted, UNCHANGED <<cursor, faults, historyVars>>
  PROVE  RestTypeOK' /\ ops + 1 \in Nat
BY VaultAssumption DEF RestTypeOK, Counted, historyVars

LEMMA StartInv ==
  ASSUME VaultInv, NEW w \in Procs, Start(w)
  PROVE  VaultInv'
<1>1. StoreInv /\ ProcInv /\ RestTypeOK
  BY DEF VaultInv
<1>2. UNCHANGED <<storeVars, cursor, faults, historyVars>> /\ Counted
  BY DEF Start, Capture, Update, Apply, Delete, RebuildVault, RebuildRecords, NormalizeRecords, Begin
<1>3. StoreInv'
  BY <1>1, <1>2, StoreRests DEF storeVars
<1>4. RestTypeOK' /\ ops + 1 \in Nat
  BY <1>1, <1>2, Counting
<1>5. \A u \in Uids : record[u].live => record[u].text \in Texts /\ record[u].seq \in Nat /\ record[u].seq > 0
  BY <1>1 DEF StoreInv, StoreTypeOK, DocsInv, Written, Records
<1>6. \A u \in Uids, p \in Paths : NextText(u, p, "app") \in Texts
  BY <1>4 DEF NextText, Texts
<1> SUFFICES \E me \in States : Begun(me) /\ Enter(w, me)
  BY <1>1, <1>3, <1>4, Entered DEF VaultInv
<1>7. ASSUME NEW item \in Items PROVE <<item>> \in Seq(Items) /\ Len(<<item>>) = 1 /\ DOMAIN <<item>> = {1} /\ <<item>> # <<>>
  OBVIOUS
<1>8. ASSUME NEW u \in Uids, NEW p \in Paths, Capture(w, u, p)
      PROVE  \E me \in States : Begun(me) /\ Enter(w, me)
  <2> DEFINE item == [text |-> NextText(u, p, "app"), rev |-> 0]
             me == [Idle EXCEPT !.at = "put", !.op = "capture", !.todo = <<item>>]
  <2>1. item \in Items
    BY <1>6 DEF Items
  <2>2. Enter(w, me)
    BY <1>8 DEF Capture
  <2> HIDE DEF item
  <2>3. me \in States /\ me.at = "put" /\ me.op = "capture" /\ me.todo = <<item>>
    BY <1>7, <2>1, IdleBegun DEF States, Places, AppOps
  <2> HIDE DEF me
  <2>4. Begun(me)
    BY <1>7, <2>1, <2>3 DEF Begun, Writing, Reading, Removing
  <2> QED
    BY <2>2, <2>3, <2>4
<1>9. ASSUME NEW u \in Uids, NEW p \in Paths, Update(w, u, p)
      PROVE  \E me \in States : Begun(me) /\ Enter(w, me)
  <2> DEFINE item == [text |-> NextText(u, p, "app"), rev |-> record[u].seq]
             me == [Idle EXCEPT !.at = "put", !.op = "update", !.old = record[u].text, !.todo = <<item>>]
  <2>1. item \in Items /\ item.rev > 0 /\ record[u].text \in Texts
    BY <1>5, <1>6, <1>9 DEF Items, Update
  <2>2. Enter(w, me)
    BY <1>9 DEF Update
  <2> HIDE DEF item
  <2>3. me \in States /\ me.at = "put" /\ me.op = "update" /\ me.todo = <<item>>
    BY <1>7, <2>1, IdleBegun DEF States, Places, AppOps
  <2> HIDE DEF me
  <2>4. Begun(me)
    BY <1>7, <2>1, <2>3 DEF Begun, Writing, Reading, Removing
  <2> QED
    BY <2>2, <2>3, <2>4
<1>10. ASSUME NEW u \in Uids, Delete(w, u)
       PROVE  \E me \in States : Begun(me) /\ Enter(w, me)
  <2> DEFINE me == [Idle EXCEPT !.at = "drop", !.op = "delete", !.old = record[u].text, !.rev = record[u].seq]
  <2>1. record[u].text \in Texts /\ record[u].seq \in Nat /\ record[u].seq > 0
    BY <1>5, <1>10 DEF Delete
  <2>2. Enter(w, me)
    BY <1>10 DEF Delete
  <2>3. me \in States /\ me.at = "drop" /\ me.op = "delete" /\ me.todo = <<>> /\ me.old \in Texts /\ me.rev > 0
    BY <2>1, IdleBegun DEF States, Places, AppOps, Idle
  <2> HIDE DEF me
  <2>4. Begun(me)
    BY <2>3 DEF Begun, Writing, Reading, Removing
  <2> QED
    BY <2>2, <2>3, <2>4
<1>11. ASSUME NEW S, Listable(S), NEW op \in {"rebuildVault", "normalize", "rebuildRecords"},
              \E todo \in Orders(S) : Enter(w, First(op, todo, At(0), Idle))
       PROVE  \E me \in States : Begun(me) /\ Enter(w, me)
  <2>1. PICK todo \in Orders(S) : Enter(w, First(op, todo, At(0), Idle))
    BY <1>11
  <2>2. First(op, todo, At(0), Idle) \in States /\ Begun(First(op, todo, At(0), Idle))
    BY <1>11, IdleBegun, ListBegun, AtMarks
  <2> QED
    BY <2>1, <2>2
<1>15. ASSUME NEW u \in Uids, NEW p \in Paths, Apply(w, u, p)
      PROVE  \E me \in States : Begun(me) /\ Enter(w, me)
  <2> DEFINE item == [text |-> NextText(u, p, "app"), rev |-> record[u].seq]
             me == [Idle EXCEPT !.at = "put", !.op = "apply", !.todo = <<item>>]
  <2>1. item \in Items /\ item.rev > 0
    BY <1>5, <1>6, <1>15 DEF Items, Apply
  <2>2. Enter(w, me)
    BY <1>15 DEF Apply
  <2> HIDE DEF item
  <2>3. me \in States /\ me.at = "put" /\ me.op = "apply" /\ me.todo = <<item>>
    BY <1>7, <2>1, IdleBegun DEF States, Places, AppOps
  <2> HIDE DEF me
  <2>4. Begun(me)
    BY <1>7, <2>1, <2>3 DEF Begun, Writing, Reading, Removing
  <2> QED
    BY <2>2, <2>3, <2>4
<1>12. CASE RebuildVault(w)
  BY <1>1, <1>11, <1>12, NotesListable DEF RebuildVault
<1>13. CASE NormalizeRecords(w)
  BY <1>1, <1>11, <1>13, NotesListable DEF NormalizeRecords
<1>14. CASE RebuildRecords(w)
  <2>1. PICK files \in Orders(LiveFiles) :
          Enter(w, First("rebuildRecords", [i \in DOMAIN files |-> FileItem(files[i])], At(0), Idle))
    BY <1>14 DEF RebuildRecords
  <2>2. PICK todo : todo = [i \in DOMAIN files |-> FileItem(files[i])]
    OBVIOUS
  <2>3. todo \in Seq(Items) /\ \A i \in DOMAIN todo : todo[i].rev > 0
    BY <1>1, <2>2, FilesListed
  <2>4. First("rebuildRecords", todo, At(0), Idle) \in States /\ Begun(First("rebuildRecords", todo, At(0), Idle))
    BY <2>3, FirstBegun, IdleBegun, AtMarks
  <2> QED
    BY <2>1, <2>2, <2>4
<1> QED
  BY <1>8, <1>9, <1>10, <1>12, <1>13, <1>14, <1>15 DEF Start

-----------------------------------------------------------------------------
(* Reverse-sync's passes.                                                  *)

\* A page gets in a shard to its newest change there, or no further than the cursor.
LEMMA ReachedIs ==
  ASSUME StoreInv, RestTypeOK, cursor # NoCursor, NEW s \in Shards, NEW S \in SUBSET Nat, \A n \in S : n <= seq
  PROVE  Reached(s, S) \in S \cup {cursor[s]} /\ \A n \in S \cup {cursor[s]} : n <= Reached(s, S)
<1>1. cursor[s] \in Nat /\ seq \in Nat
  BY DEF RestTypeOK, StoreInv, StoreTypeOK, Marks
<1>2. S \cup {cursor[s]} \in SUBSET Nat /\ \A n \in S : n \in Nat
  BY <1>1
<1>3. PICK top \in Nat : top >= seq /\ top >= cursor[s]
  BY <1>1
<1>4. \A n \in S \cup {cursor[s]} : n <= top
  BY <1>1, <1>2, <1>3
<1>5. \E n \in S \cup {cursor[s]} : \A m \in S \cup {cursor[s]} : m <= n
  BY <1>2, <1>4, Greatest
<1> QED
  BY <1>5 DEF Reached

LEMMA PageEndIs ==
  ASSUME StoreInv, RestTypeOK, cursor # NoCursor, NEW page \in SUBSET Documents
  PROVE  /\ PageEnd(page) \in Marks
         /\ \A s \in Shards : /\ cursor[s] <= PageEnd(page)[s]
                              /\ PageEnd(page)[s] # cursor[s] =>
                                   \E d \in page : ShardOf[d] = s /\ PageEnd(page)[s] = LastWrite(d)
         /\ \A d \in page : LastWrite(d) <= PageEnd(page)[ShardOf[d]]
<1>1. cursor \in Marks /\ seq \in Nat
  BY DEF RestTypeOK, StoreInv, StoreTypeOK
<1>2. \A d \in Documents : LastWrite(d) \in Nat /\ LastWrite(d) <= seq /\ ShardOf[d] \in Shards
  <2>1. \A u \in Uids : record[u].seq \in Nat /\ record[u].seq <= seq
    BY DEF StoreInv, StoreTypeOK, DocsInv, Written, Records
  <2>2. \A e \in Entries : file[e].seq \in Nat /\ file[e].seq <= seq
    BY DEF StoreInv, StoreTypeOK, DocsInv, Written, Docs
  <2> QED
    BY <2>1, <2>2, StoreAssumption DEF LastWrite, Documents
<1> DEFINE written(s) == {LastWrite(d) : d \in {e \in page : ShardOf[e] = s}}
<1>3. ASSUME NEW s \in Shards
      PROVE  /\ PageEnd(page)[s] = Reached(s, written(s)) /\ PageEnd(page)[s] \in Nat
             /\ PageEnd(page)[s] \in written(s) \cup {cursor[s]}
             /\ \A n \in written(s) \cup {cursor[s]} : n <= PageEnd(page)[s]
  <2>1. PageEnd(page)[s] = Reached(s, written(s))
    BY DEF PageEnd
  <2>2. written(s) \in SUBSET Nat /\ \A n \in written(s) : n <= seq
    BY <1>2
  <2>3. cursor[s] \in Nat
    BY <1>1 DEF Marks
  <2> HIDE DEF written
  <2>4. Reached(s, written(s)) \in written(s) \cup {cursor[s]} /\ \A n \in written(s) \cup {cursor[s]} : n <= Reached(s, written(s))
    BY <2>2, ReachedIs
  <2> QED
    BY <2>1, <2>2, <2>3, <2>4
<1>4. PageEnd(page) \in Marks
  BY <1>3 DEF PageEnd, Marks
<1>5. \A d \in page : ShardOf[d] \in Shards /\ LastWrite(d) \in written(ShardOf[d])
  BY <1>2
<1> QED
  BY <1>3, <1>4, <1>5

\* What a page is made of.
LEMMA PageIs ==
  ASSUME StoreInv, NEW page \in Pages(cursor, PageLimit), NEW files \in Listings(page), NEW todo,
         todo = [i \in DOMAIN files |-> FileItem(files[i])]
  PROVE  /\ page \in SUBSET Documents /\ files \in Orders(page \cap LiveFiles)
         /\ todo \in Seq(Items) /\ \A i \in DOMAIN todo : todo[i].rev > 0
         /\ DOMAIN todo = DOMAIN files
         /\ \A i \in DOMAIN todo : todo[i] = FileItem(files[i]) /\ files[i] \in page \cap LiveFiles
<1>1. page \in SUBSET Documents
  BY DEF Pages, ChangedSince
<1>2. files \in Orders(page \cap LiveFiles)
  BY DEF Listings
<1> QED
  BY <1>1, <1>2, FilesListed

LEMMA PassInv ==
  ASSUME VaultInv, Pass
  PROVE  VaultInv'
<1>1. StoreInv /\ ProcInv /\ RestTypeOK /\ Worker \in Procs
  BY VaultAssumption DEF VaultInv
<1>2. UNCHANGED <<storeVars, cursor, ops, faults, historyVars>>
  BY DEF Pass, BookmarkNow, ReadPage
<1>3. StoreInv' /\ RestTypeOK'
  BY <1>1, <1>2, StoreRests DEF storeVars, historyVars, RestTypeOK
<1>4. CASE BookmarkNow
  <2>1. Saving(At(seq)) \in States /\ Begun(Saving(At(seq)))
    BY <1>1, SavingBegun, AtMarks DEF StoreInv, StoreTypeOK
  <2> QED
    BY <1>1, <1>3, <1>4, <2>1, Entered DEF BookmarkNow, VaultInv
<1>5. CASE ReadPage
  <2>9. PICK page \in Pages(cursor, PageLimit) : \E files \in Listings(page) :
          Enter(Worker, First("reconcile", [i \in DOMAIN files |-> FileItem(files[i])],
                              PageEnd(page), Saving(PageEnd(page))))
    BY <1>5 DEF ReadPage
  <2>1. PICK files \in Listings(page) :
          Enter(Worker, First("reconcile", [i \in DOMAIN files |-> FileItem(files[i])],
                              PageEnd(page), Saving(PageEnd(page))))
    BY <2>9
  <2>2. PICK todo : todo = [i \in DOMAIN files |-> FileItem(files[i])]
    OBVIOUS
  <2>3. page \in SUBSET Documents /\ todo \in Seq(Items) /\ \A i \in DOMAIN todo : todo[i].rev > 0
    BY <1>1, <2>2, PageIs
  <2>4. PageEnd(page) \in Marks
    BY <1>1, <1>5, <2>3, PageEndIs DEF ReadPage
  <2>5. Saving(PageEnd(page)) \in States /\ Begun(Saving(PageEnd(page)))
    BY <2>4, SavingBegun
  <2> DEFINE me == First("reconcile", todo, PageEnd(page), Saving(PageEnd(page)))
  <2>6. me \in States /\ Begun(me)
    BY <2>3, <2>4, <2>5, FirstBegun
  <2>7. Enter(Worker, me)
    BY <2>1, <2>2
  <2> QED
    BY <1>1, <1>3, <2>6, <2>7, Entered DEF VaultInv
<1> QED
  BY <1>4, <1>5 DEF Pass

-----------------------------------------------------------------------------
(* A process goes on.                                                      *)

\* It goes on to a place of the writing routine, or of the removal.
LEMMA GoneOn ==
  ASSUME ProcInv, NEW w \in Procs,
         \/ proc[w].at \in Writing /\ Goto(w, "entry")
         \/ proc[w].at \in Writing \cup Removing /\ proc[w].old \in Texts /\ Goto(w, "find")
         \/ NextItem(w) /\ proc[w].at \in Writing \cup Reading
         \/ Stop(w)
  PROVE  ProcInv'
<1>1. proc[w] \in States /\ Begun(proc[w])
  BY DEF ProcInv
<1> SUFFICES \E me \in States : Begun(me) /\ Enter(w, me)
  BY Entered
<1>2. ASSUME NEW place \in {"entry", "find"}, place = "entry" => proc[w].at \in Writing,
             place = "find" => proc[w].old \in Texts, Goto(w, place)
      PROVE  \E me \in States : Begun(me) /\ Enter(w, me)
  <2> DEFINE me == [proc[w] EXCEPT !.at = place]
  <2>1. me \in States /\ me.at = place /\ me.op = proc[w].op /\ me.todo = proc[w].todo /\ me.old = proc[w].old
    BY <1>1 DEF States, Places
  <2>2. Enter(w, me)
    BY <1>2 DEF Goto
  <2> HIDE DEF me
  <2>3. Begun(me)
    BY <1>1, <1>2, <2>1 DEF Begun, Writing, Reading, Removing
  <2> QED
    BY <2>1, <2>2, <2>3
<1>3. CASE proc[w].at \in Writing /\ Goto(w, "entry")
  BY <1>2, <1>3
<1>4. CASE proc[w].old \in Texts /\ Goto(w, "find")
  BY <1>2, <1>4
<1>5. CASE NextItem(w) /\ proc[w].at \in Writing \cup Reading
  BY <1>5, NextBegun
<1>6. CASE Stop(w)
  BY <1>6, IdleBegun DEF Stop
<1> QED
  BY <1>3, <1>4, <1>5, <1>6

\* After the projection.
LEMMA AfterProjection ==
  ASSUME ProcInv, NEW w \in Procs, proc[w].at \in Writing, Projected(w)
  PROVE  ProcInv'
<1>1. proc[w].old \in Texts \cup {NoText}
  BY DEF ProcInv, States
<1>2. CASE Moved(w)
  BY <1>1, <1>2, GoneOn DEF Moved, Projected
<1>3. CASE ~Moved(w)
  BY <1>3, GoneOn DEF Projected
<1> QED
  BY <1>2, <1>3

\* It marks what it found out about a note.
LEMMA Marring ==
  ASSUME RestTypeOK, NEW u, NEW harm \in SUBSET Harm, Mar(u, harm)
  PROVE  marred' \in [Uids -> SUBSET Harm]
BY DEF RestTypeOK, Mar

\* A text is put in its file.
LEMMA ProjectInv ==
  ASSUME StoreInv, ProcInv, RestTypeOK, NEW w \in Procs, proc[w].at \in Writing,
         NEW u \in Uids, NEW t \in Texts, Project(w, u, t), UNCHANGED <<record, cursor, ops, faults, edited>>
  PROVE  VaultInv'
<1>1. Entry(t) \in Entries
  BY EntryType
<1>2. StoreInv'
  <2>1. late' \subseteq Texts
    BY DEF Project, WriteFile, StoreInv, StoreTypeOK
  <2> QED
    BY <1>1, <2>1, FileWritten DEF Project, WriteFile
<1>3. ProcInv'
  BY AfterProjection DEF Project
<1>4. shown' \in [Uids -> Entries]
  BY <1>1 DEF Project, RestTypeOK
<1>5. marred' \in [Uids -> SUBSET Harm]
  <2>1. \A v \in Uids : marred[v] \subseteq Harm
    BY DEF RestTypeOK
  <2>2. Early \subseteq Harm /\ {"crossed"} \subseteq Harm
    BY DEF Early, Harm, Broken
  <2> QED
    BY <2>1, <2>2 DEF Project
<1> QED
  BY <1>2, <1>3, <1>4, <1>5 DEF VaultInv, RestTypeOK

LEMMA PutInv ==
  ASSUME VaultInv, NEW w \in Procs, Put(w)
  PROVE  VaultInv'
<1>1. StoreInv /\ ProcInv /\ RestTypeOK /\ proc[w].at \in Writing
  BY DEF VaultInv, Put, Writing
<1>2. Note(w) \in Uids /\ Now(w).text \in Texts /\ Now(w).text.ver \in Nat
  BY <1>1, Holding
<1>3. UNCHANGED <<cursor, ops, faults, file, late, shown, marred>>
  BY DEF Put
<1>4. CASE /\ WriteRecord(Note(w), Now(w).text) /\ edited' = [edited EXCEPT ![Note(w)] = Now(w).text.ver]
           /\ Goto(w, "entry")
  <2>1. StoreInv'
    BY <1>1, <1>2, <1>3, <1>4, RecordWritten
  <2>2. ProcInv'
    BY <1>1, <1>4, GoneOn
  <2> QED
    BY <1>1, <1>2, <1>3, <1>4, <2>1, <2>2 DEF VaultInv, RestTypeOK
<1>5. CASE NextItem(w) /\ UNCHANGED <<record, seq, edited>>
  <2>1. ProcInv'
    BY <1>1, <1>5, GoneOn
  <2> QED
    BY <1>1, <1>3, <1>5, <2>1, StoreRests DEF VaultInv, RestTypeOK
<1> QED
  BY <1>4, <1>5 DEF Put

LEMMA PutEntryInv ==
  ASSUME VaultInv, NEW w \in Procs, PutEntry(w)
  PROVE  VaultInv'
<1>1. StoreInv /\ ProcInv /\ RestTypeOK /\ proc[w].at \in Writing
  BY DEF VaultInv, PutEntry, Writing
<1> DEFINE t == Now(w).text
<1>2. t \in Texts /\ t.uid \in Uids /\ Entry(t) \in Entries /\ UNCHANGED <<record, cursor, ops, faults, edited>>
  BY <1>1, Holding DEF PutEntry, Note
<1>3. CASE Project(w, t.uid, t)
  BY <1>1, <1>2, <1>3, ProjectInv
<1>4. CASE /\ Enter(w, [proc[w] EXCEPT !.at = "takeover", !.rev = file[Entry(t)].seq])
           /\ UNCHANGED <<file, late, seq, shown, marred>>
  <2> DEFINE me == [proc[w] EXCEPT !.at = "takeover", !.rev = file[Entry(t)].seq]
  <2>1. proc[w] \in States /\ Begun(proc[w]) /\ file[Entry(t)].seq \in Nat
    BY <1>1, <1>2 DEF ProcInv, StoreInv, StoreTypeOK, Docs
  <2>2. me \in States /\ me.at = "takeover" /\ me.op = proc[w].op /\ me.todo = proc[w].todo
    BY <2>1 DEF States, Places
  <2>3. Enter(w, me)
    BY <1>4
  <2> HIDE DEF me
  <2>4. Begun(me)
    BY <1>1, <2>1, <2>2 DEF Begun, Writing, Reading, Removing
  <2>5. ProcInv'
    BY <1>1, <2>2, <2>3, <2>4, Entered
  <2> QED
    BY <1>1, <1>2, <1>4, <2>5, StoreRests DEF VaultInv, RestTypeOK
<1> QED
  BY <1>3, <1>4 DEF PutEntry

LEMMA TakeOverInv ==
  ASSUME VaultInv, NEW w \in Procs, TakeOver(w)
  PROVE  VaultInv'
<1>1. StoreInv /\ ProcInv /\ RestTypeOK /\ proc[w].at \in Writing
  BY DEF VaultInv, TakeOver, Writing
<1> DEFINE t == Now(w).text
<1>2. t \in Texts /\ t.uid \in Uids /\ UNCHANGED <<record, cursor, ops, faults, edited>>
  BY <1>1, Holding DEF TakeOver, Note
<1>3. CASE Project(w, t.uid, t)
  BY <1>1, <1>2, <1>3, ProjectInv
<1>4. CASE /\ Projected(w) /\ UNCHANGED <<file, late, seq, shown>>
           /\ Mar(t.uid, IF Holds(Entry(t), t.uid) THEN {"crossed"} ELSE {"crossed", "lost"})
  <2>1. ProcInv'
    BY <1>1, <1>4, AfterProjection
  <2>2. marred' \in [Uids -> SUBSET Harm]
    <3> DEFINE harm == IF Holds(Entry(t), t.uid) THEN {"crossed"} ELSE {"crossed", "lost"}
    <3>1. harm \in SUBSET Harm /\ Mar(t.uid, harm)
      BY <1>4 DEF Harm, Broken
    <3> HIDE DEF harm
    <3> QED
      BY <1>1, <3>1, Marring
  <2> QED
    BY <1>1, <1>2, <1>4, <2>1, <2>2, StoreRests DEF VaultInv, RestTypeOK
<1> QED
  BY <1>3, <1>4 DEF TakeOver

LEMMA DropInv ==
  ASSUME VaultInv, NEW w \in Procs, Drop(w)
  PROVE  VaultInv'
<1>1. StoreInv /\ ProcInv /\ RestTypeOK /\ proc[w].at \in Removing
  BY DEF VaultInv, Drop, Removing
<1>2. proc[w].old \in Texts /\ proc[w].old.uid \in Uids /\ proc[w].rev \in Nat
  BY <1>1 DEF ProcInv, Begun, States, Texts
<1> DEFINE u == proc[w].old.uid
<1>3. UNCHANGED <<file, late, cursor, ops, faults, historyVars>>
  BY DEF Drop
<1>4. CASE RecordMatches(u, proc[w].rev) /\ DropRecord(u) /\ Goto(w, "find")
  <2>1. StoreInv'
    <3>1. CASE record[u].live
      BY <1>1, <1>2, <1>3, <1>4, <3>1, RecordDropped
    <3>2. CASE ~record[u].live
      <4>1. proc[w].rev > 0
        BY <1>1 DEF ProcInv, Begun, Drop
      <4> QED
        BY <1>4, <3>2, <4>1 DEF RecordMatches
    <3> QED
      BY <3>1, <3>2
  <2>2. ProcInv'
    BY <1>1, <1>2, <1>4, GoneOn
  <2> QED
    BY <1>1, <1>3, <2>1, <2>2 DEF VaultInv, RestTypeOK, historyVars
<1>5. CASE Stop(w) /\ UNCHANGED <<record, seq>>
  <2>1. ProcInv'
    BY <1>1, <1>5, GoneOn
  <2> QED
    BY <1>1, <1>3, <1>5, <2>1, StoreRests DEF VaultInv, RestTypeOK, historyVars
<1> QED
  BY <1>4, <1>5 DEF Drop

LEMMA FindOldInv ==
  ASSUME VaultInv, NEW w \in Procs, FindOld(w)
  PROVE  VaultInv'
<1>1. StoreInv /\ ProcInv /\ RestTypeOK /\ proc[w].at \in Removing
  BY DEF VaultInv, FindOld, Removing
<1>2. proc[w].old \in Texts /\ Entry(proc[w].old) \in Entries /\ proc[w] \in States /\ Begun(proc[w])
  BY <1>1, EntryType DEF ProcInv, Begun, States, Texts
<1> DEFINE p == Entry(proc[w].old)
           me == [proc[w] EXCEPT !.at = "unlink", !.rev = file[p].seq]
<1>3. ProcInv'
  <2>1. CASE file[p].live
    <3>1. file[p].seq \in Nat /\ file[p].seq > 0
      BY <1>1, <1>2, <2>1 DEF StoreInv, StoreTypeOK, DocsInv, Written, Docs
    <3>2. /\ me \in States /\ me.at = "unlink" /\ me.op = proc[w].op /\ me.todo = proc[w].todo
          /\ me.old = proc[w].old /\ me.rev > 0
      BY <1>2, <3>1 DEF States, Places
    <3>3. Enter(w, me)
      BY <2>1 DEF FindOld
    <3> HIDE DEF me
    <3>4. Begun(me)
      BY <1>2, <3>2 DEF Begun, Writing, Reading, Removing
    <3> QED
      BY <1>1, <3>2, <3>3, <3>4, Entered
  <2>2. CASE ~file[p].live
    BY <1>1, <2>2, GoneOn DEF FindOld
  <2> QED
    BY <2>1, <2>2
<1> QED
  BY <1>1, <1>3, StoreRests DEF FindOld, VaultInv, RestTypeOK, storeVars, historyVars

LEMMA UnlinkInv ==
  ASSUME VaultInv, NEW w \in Procs, Unlink(w)
  PROVE  VaultInv'
<1>1. StoreInv /\ ProcInv /\ RestTypeOK /\ proc[w].at = "unlink" /\ proc[w].at \in Removing
  BY DEF VaultInv, Unlink, Removing
<1>2. Entry(proc[w].old) \in Entries /\ proc[w].rev > 0
  BY <1>1, EntryType DEF ProcInv, Begun, States, Texts
<1> DEFINE p == Entry(proc[w].old)
<1>3. ProcInv'
  BY <1>1, GoneOn DEF Unlink
<1>4. UNCHANGED <<record, late, cursor, ops, faults, edited, shown>>
  BY DEF Unlink
<1>5. CASE file[p].seq = proc[w].rev
  <2>1. file[p].text \in Texts
    BY <1>1, <1>2, <1>5 DEF StoreInv, DocsInv, Written
  <2>2. StoreInv'
    BY <1>1, <1>2, <1>4, <1>5, <2>1, FileHidden DEF Unlink
  <2>3. marred' \in [Uids -> SUBSET Harm]
    <3> DEFINE t == file[p].text
               harm == IF record[t.uid].live /\ t.ver = edited[t.uid] THEN {"hidden"} ELSE {}
    <3>1. harm \in SUBSET Harm /\ Mar(t.uid, harm)
      BY <1>5 DEF Unlink, Harm
    <3> HIDE DEF harm
    <3> QED
      BY <1>1, <3>1, Marring
  <2> QED
    BY <1>1, <1>3, <1>4, <2>2, <2>3 DEF VaultInv, RestTypeOK
<1>6. CASE file[p].seq # proc[w].rev
  BY <1>1, <1>3, <1>4, <1>6, StoreRests DEF Unlink, VaultInv, RestTypeOK
<1> QED
  BY <1>5, <1>6

LEMMA MatchInv ==
  ASSUME VaultInv, NEW w \in Procs, Match(w)
  PROVE  VaultInv'
<1>1. StoreInv /\ ProcInv /\ RestTypeOK /\ proc[w].at \in Reading
  BY DEF VaultInv, Match, Reading
<1> DEFINE u == Note(w)
           t == Now(w).text
           found == Reassembled(t)
           rev == IF record[u].live THEN record[u].seq ELSE 0
           me == [proc[w] EXCEPT !.at = "store", !.todo[1].text = found, !.rev = rev]
           todo == [proc[w].todo EXCEPT ![1] = [@ EXCEPT !.text = found]]
<1>2. UNCHANGED <<storeVars, cursor, ops, faults, edited, shown>>
  BY DEF Match
<1>3. marred' \in [Uids -> SUBSET Harm]
  <2>1. (IF t \in late THEN {"chunk"} ELSE {}) \in SUBSET Harm
    BY DEF Harm, Broken
  <2> QED
    BY <1>1, <2>1, Marring DEF Match
<1>4. ProcInv'
  <2>1. CASE NextItem(w)
    BY <1>1, <2>1, GoneOn
  <2>2. CASE ~NextItem(w)
    <3>1. /\ Enter(w, me)
          /\ ~record[u].live => proc[w].op # "reconcile"
      BY <2>2 DEF Match
    <3>2. /\ proc[w] \in States /\ Begun(proc[w]) /\ 1 \in DOMAIN proc[w].todo /\ proc[w].todo[1] \in Items
          /\ t = proc[w].todo[1].text /\ t \in Texts /\ u \in Uids
      BY <1>1, Holding
    <3>3. found \in Texts
      BY <3>2 DEF Reassembled, Texts
    <3>4. rev \in Nat /\ (record[u].live => rev > 0)
      BY <1>1, <3>2 DEF StoreInv, StoreTypeOK, DocsInv, Written, Records
    <3>5. /\ todo \in Seq(Items) /\ Len(todo) = Len(proc[w].todo) /\ todo # <<>> /\ DOMAIN todo = DOMAIN proc[w].todo
          /\ \A i \in DOMAIN todo : todo[i].rev = proc[w].todo[i].rev
      <4> DEFINE list == proc[w].todo
                 item == [list[1] EXCEPT !.text = found]
      <4>1. list \in Seq(Items) /\ 1 \in DOMAIN list /\ item \in Items /\ item.rev = list[1].rev
        BY <3>2, <3>3 DEF States, Items
      <4>2. todo = [list EXCEPT ![1] = item]
        OBVIOUS
      <4> HIDE DEF list, item
      <4>3. /\ [list EXCEPT ![1] = item] \in Seq(Items) /\ Len([list EXCEPT ![1] = item]) = Len(list)
            /\ DOMAIN [list EXCEPT ![1] = item] = DOMAIN list
        BY <4>1
      <4>4. \A i \in DOMAIN list : [list EXCEPT ![1] = item][i].rev = list[i].rev
        BY <4>1
      <4>5. [list EXCEPT ![1] = item] # <<>>
        BY <4>1, <4>3
      <4> HIDE DEF todo
      <4> QED
        BY <4>2, <4>3, <4>4, <4>5 DEF list
    <3>6. me = [proc[w] EXCEPT !.at = "store", !.todo = todo, !.rev = rev]
      BY <3>2 DEF States
    <3> HIDE DEF todo, rev
    <3>7. me \in States /\ me.at = "store" /\ me.op = proc[w].op /\ me.todo = todo /\ me.rev = rev
      BY <3>2, <3>4, <3>5, <3>6 DEF States, Places
    <3> HIDE DEF me
    <3>8. Begun(me)
      BY <1>1, <3>1, <3>2, <3>4, <3>5, <3>7 DEF Begun, Writing, Reading, Removing
    <3> QED
      BY <1>1, <3>1, <3>7, <3>8, Entered
  <2> QED
    BY <2>1, <2>2
<1> QED
  BY <1>1, <1>2, <1>3, <1>4, StoreRests DEF VaultInv, RestTypeOK, storeVars

LEMMA StoreStepInv ==
  ASSUME VaultInv, NEW w \in Procs, Store(w)
  PROVE  VaultInv'
<1>1. StoreInv /\ ProcInv /\ RestTypeOK /\ proc[w].at \in Reading
  BY DEF VaultInv, Store, Reading
<1>2. Note(w) \in Uids /\ Now(w).text \in Texts
  BY <1>1, Holding
<1>3. UNCHANGED <<file, late, cursor, ops, faults, edited, shown>>
  BY DEF Store
<1>4. ProcInv'
  BY <1>1, GoneOn DEF Store
<1>5. CASE RecordMatches(Note(w), proc[w].rev)
  <2>1. StoreInv'
    BY <1>1, <1>2, <1>3, <1>5, RecordWritten DEF Store
  <2>2. marred' \in [Uids -> SUBSET Harm]
    <3>1. (IF proc[w].op = "rebuildRecords" THEN {"import"} ELSE IF Disordered(w) THEN {"order"} ELSE {}) \in SUBSET Harm
      BY DEF Harm, Broken
    <3> QED
      BY <1>1, <1>5, <3>1, Marring DEF Store
  <2> QED
    BY <1>1, <1>3, <1>4, <2>1, <2>2 DEF VaultInv, RestTypeOK
<1>6. CASE ~RecordMatches(Note(w), proc[w].rev)
  BY <1>1, <1>3, <1>4, <1>6, StoreRests DEF Store, VaultInv, RestTypeOK
<1> QED
  BY <1>5, <1>6

LEMMA SaveCursorInv ==
  ASSUME VaultInv, SaveCursor
  PROVE  VaultInv'
<1>1. StoreInv /\ ProcInv /\ RestTypeOK /\ Worker \in Procs
  BY VaultAssumption DEF VaultInv
<1>2. ProcInv'
  BY <1>1, GoneOn DEF SaveCursor
<1>3. proc[Worker].mark \in Marks
  BY <1>1 DEF ProcInv, States
<1> QED
  BY <1>1, <1>2, <1>3, StoreRests DEF SaveCursor, VaultInv, RestTypeOK, storeVars, historyVars

LEMMA StepInv ==
  ASSUME VaultInv, NEW w \in Procs, Step(w)
  PROVE  VaultInv'
BY PutInv, PutEntryInv, TakeOverInv, DropInv, FindOldInv, UnlinkInv, MatchInv, StoreStepInv, SaveCursorInv DEF Step

-----------------------------------------------------------------------------
(* A call fails, a process ends.                                           *)

LEMMA Failing ==
  ASSUME VaultInv, NEW w \in Procs, Fail(w) \/ Crash(w)
  PROVE  VaultInv'
<1>1. StoreInv /\ ProcInv /\ RestTypeOK
  BY DEF VaultInv
<1>2. /\ UNCHANGED <<storeVars, cursor, ops, edited, shown>> /\ MarAll(Touches(w)) /\ faults < MaxFaults /\ faults' = faults + 1
      /\ proc[w].at # "idle"
  BY DEF Fail, Crash
<1>3. ProcInv'
  <2>1. CASE Crash(w)
    BY <1>1, <2>1, GoneOn DEF Crash
  <2>2. CASE Fail(w)
    <3>1. proc[w].at \in Places
      BY <1>1 DEF ProcInv, States
    <3>2. CASE proc[w].at \in {"put", "match", "store"}
      BY <1>1, <2>2, <3>2, GoneOn DEF Fail, Writing, Reading
    <3>3. CASE proc[w].at \in {"entry", "takeover"}
      BY <1>1, <2>2, <3>3, AfterProjection DEF Fail, Writing
    <3>4. CASE proc[w].at \in {"drop", "find", "unlink", "save"}
      BY <1>1, <2>2, <3>4, GoneOn DEF Fail
    <3> QED
      BY <1>2, <3>1, <3>2, <3>3, <3>4 DEF Places
  <2> QED
    BY <2>1, <2>2
<1>4. marred' \in [Uids -> SUBSET Harm]
  BY <1>1, <1>2 DEF MarAll, RestTypeOK, Harm, Broken
<1>5. faults' \in 0..MaxFaults
  BY <1>1, <1>2, VaultAssumption DEF RestTypeOK
<1> QED
  BY <1>1, <1>2, <1>3, <1>4, <1>5, StoreRests DEF VaultInv, RestTypeOK, storeVars

-----------------------------------------------------------------------------
(* A person, and a chunk.                                                  *)

LEMMA PersonMars == {"human"} \cup Early \in SUBSET Harm /\ {"human"} \in SUBSET Harm
BY DEF Early, Harm, Broken

LEMMA SaveInv ==
  ASSUME VaultInv, NEW p \in Entries, NEW q \in Paths, NEW c \in BOOLEAN, HumanSave(p, q, c)
  PROVE  VaultInv'
<1>1. StoreInv /\ ProcInv /\ RestTypeOK /\ file[p].live
  BY DEF VaultInv, HumanSave
<1>2. ProcInv' /\ UNCHANGED <<record, cursor, edited>> /\ seq' = seq + 1
  BY <1>1, Resting DEF HumanSave
<1> DEFINE u == file[p].text.uid
           t == NextText(u, q, "human")
<1>3. file[p].text \in Texts /\ u \in Uids
  BY <1>1 DEF StoreInv, DocsInv, Written, Texts
<1>4. ops' \in 0..MaxOps /\ ops + 1 \in Nat
  BY <1>1, VaultAssumption DEF RestTypeOK, Counted, HumanSave
<1>5. t \in Texts
  BY <1>3, <1>4 DEF NextText, Texts
<1>6. StoreInv'
  <2>1. late' \subseteq Texts
    BY <1>1, <1>5 DEF HumanSave, StoreInv, StoreTypeOK
  <2>2. file' = [file EXCEPT ![p] = [live |-> TRUE, seq |-> seq + 1, text |-> t]]
    BY DEF HumanSave
  <2> HIDE DEF t
  <2> QED
    BY <1>1, <1>2, <1>5, <2>1, <2>2, FileWritten
<1>7. faults' \in 0..MaxFaults
  BY <1>1, VaultAssumption DEF RestTypeOK, HumanSave
<1>8. marred' \in [Uids -> SUBSET Harm]
  BY <1>1, PersonMars, Marring DEF HumanSave
<1>9. shown' \in [Uids -> Entries]
  BY <1>1 DEF RestTypeOK, HumanSave
<1> QED
  BY <1>1, <1>2, <1>4, <1>6, <1>7, <1>8, <1>9 DEF VaultInv, RestTypeOK

LEMMA MoveInv ==
  ASSUME VaultInv, NEW p \in Entries, NEW q \in Entries, HumanMove(p, q)
  PROVE  VaultInv'
<1>1. StoreInv /\ ProcInv /\ RestTypeOK /\ file[p].live /\ ~file[q].live /\ p # q
  BY DEF VaultInv, HumanMove
<1>2. ProcInv' /\ UNCHANGED <<record, late, cursor, faults, edited>> /\ seq' = seq + 2
  BY <1>1, Resting DEF HumanMove
<1>3. file \in [Entries -> Docs] /\ record \in [Uids -> Records] /\ late \subseteq Texts /\ seq \in Nat
  BY <1>1 DEF StoreInv, StoreTypeOK
<1>4. file[p].text \in Texts
  BY <1>1 DEF StoreInv, DocsInv, Written
<1> DEFINE new == [live |-> TRUE, seq |-> seq + 1, text |-> file[p].text]
           gone == [file[p] EXCEPT !.live = FALSE, !.seq = seq + 2]
<1>5. \A r \in Entries : file'[r] = IF r = q THEN new ELSE IF r = p THEN gone ELSE file[r]
  BY <1>1, <1>3 DEF HumanMove
<1>6. new \in Docs /\ gone \in Docs /\ new.text \in Texts /\ gone.text \in Texts /\ new.seq = seq + 1 /\ gone.seq = seq + 2
  <2>1. seq + 1 \in Nat /\ seq + 2 \in Nat /\ file[p] \in Docs
    BY <1>3
  <2>2. new \in Docs /\ gone \in Docs
    BY <1>4, <2>1 DEF Docs
  <2>3. gone.text = file[p].text /\ gone.seq = seq + 2
    BY <2>1 DEF Docs
  <2> QED
    BY <1>4, <2>2, <2>3
<1>7. file' \in [Entries -> Docs]
  <2>1. DOMAIN file' = Entries /\ file' = [r \in Entries |-> file'[r]]
    BY <1>3 DEF HumanMove
  <2> HIDE DEF new, gone
  <2>2. \A r \in Entries : file'[r] \in Docs
    BY <1>3, <1>5, <1>6
  <2> QED
    BY <2>1, <2>2
<1> HIDE DEF new, gone
<1>8. \A r \in Entries : file[r].seq \in Nat /\ file[r].seq <= seq
  BY <1>1, <1>3 DEF StoreInv, DocsInv, Written, Docs
<1>9. \A r \in Entries : file'[r].live \/ file'[r].seq # 0 => Written(file'[r], seq')
  BY <1>1, <1>2, <1>3, <1>5, <1>6, <1>8 DEF StoreInv, DocsInv, Written
<1>10. \A u \in Uids : record'[u].live \/ record'[u].seq # 0 => Written(record'[u], seq')
  <2>1. \A u \in Uids : record[u].seq \in Nat
    BY <1>3 DEF Records
  <2> QED
    BY <1>1, <1>2, <1>3, <2>1 DEF StoreInv, DocsInv, Written
<1>11. \A r, s \in Entries : file'[r].seq = file'[s].seq => r = s \/ file'[r].seq = 0
  <2>1. \A r, s \in Entries : file[r].seq = file[s].seq => r = s \/ file[r].seq = 0
    BY <1>1 DEF StoreInv, DocsInv
  <2>2. \A r \in Entries : file'[r].seq = IF r = q THEN seq + 1 ELSE IF r = p THEN seq + 2 ELSE file[r].seq
    BY <1>5, <1>6
  <2> QED
    BY <1>3, <1>8, <2>1, <2>2
<1>12. StoreInv'
  BY <1>2, <1>3, <1>7, <1>9, <1>10, <1>11 DEF StoreInv, StoreTypeOK, DocsInv
<1>13. ops' \in 0..MaxOps
  BY <1>1, VaultAssumption DEF RestTypeOK, Counted, HumanMove
<1>14. marred' \in [Uids -> SUBSET Harm] /\ shown' \in [Uids -> Entries]
  BY <1>1, PersonMars, Marring DEF HumanMove, RestTypeOK
<1> QED
  BY <1>1, <1>2, <1>12, <1>13, <1>14 DEF VaultInv, RestTypeOK

LEMMA HideInv ==
  ASSUME VaultInv, NEW p \in Entries, HumanDelete(p)
  PROVE  VaultInv'
<1>1. StoreInv /\ ProcInv /\ RestTypeOK /\ file[p].live
  BY DEF VaultInv, HumanDelete
<1>2. ProcInv' /\ UNCHANGED <<record, late, cursor, faults, edited, shown>>
  BY <1>1, Resting DEF HumanDelete
<1>3. file[p].text \in Texts
  BY <1>1 DEF StoreInv, DocsInv, Written
<1>4. StoreInv'
  BY <1>1, <1>2, <1>3, FileHidden DEF HumanDelete
<1>5. ops' \in 0..MaxOps
  BY <1>1, VaultAssumption DEF RestTypeOK, Counted, HumanDelete
<1>6. marred' \in [Uids -> SUBSET Harm]
  BY <1>1, PersonMars, Marring DEF HumanDelete
<1> QED
  BY <1>1, <1>2, <1>4, <1>5, <1>6 DEF VaultInv, RestTypeOK

LEMMA ChunkInv ==
  ASSUME VaultInv, NEW t, ChunkArrives(t)
  PROVE  VaultInv'
<1>1. StoreInv /\ ProcInv /\ RestTypeOK
  BY DEF VaultInv
<1> QED
  BY <1>1, StoreRests, Resting DEF ChunkArrives, VaultInv, RestTypeOK, historyVars

-----------------------------------------------------------------------------
(* The specification.                                                      *)

LEMMA InitInv == Init => VaultInv
<1> SUFFICES ASSUME Init PROVE VaultInv
  OBVIOUS
<1> USE DEF NeverWas
<1>1. PICK u \in Uids, p \in Paths, old \in BOOLEAN, c \in {NoCursor, At(0), At(2)} :
        LET t == [uid |-> u, ver |-> 0, path |-> p, by |-> "app"] IN
        /\ record = [w \in Uids |-> IF w = u
                       THEN [live |-> TRUE, seq |-> 1, text |-> t, legacy |-> old]
                       ELSE [live |-> FALSE, seq |-> 0, text |-> NoText, legacy |-> FALSE]]
        /\ file = [e \in Entries |-> IF e = EntryId[p] THEN [live |-> TRUE, seq |-> 2, text |-> t] ELSE NeverWas]
        /\ late = {} /\ seq = 2 /\ cursor = c
        /\ proc = [w \in Procs |-> Idle] /\ ops = 0 /\ faults = 0
        /\ edited = [w \in Uids |-> 0] /\ shown = [w \in Uids |-> EntryId[p]]
        /\ marred = [w \in Uids |-> {}]
  BY DEF Init
<1> DEFINE t == [uid |-> u, ver |-> 0, path |-> p, by |-> "app"]
<1>2. t \in Texts
  BY DEF Texts
<1> HIDE DEF t
<1>3. /\ record = [w \in Uids |-> IF w = u
                     THEN [live |-> TRUE, seq |-> 1, text |-> t, legacy |-> old]
                     ELSE [live |-> FALSE, seq |-> 0, text |-> NoText, legacy |-> FALSE]]
      /\ file = [e \in Entries |-> IF e = EntryId[p] THEN [live |-> TRUE, seq |-> 2, text |-> t]
                                                  ELSE [live |-> FALSE, seq |-> 0, text |-> NoText]]
      /\ late = {} /\ seq = 2
  BY <1>1 DEF t
<1>4. StoreTypeOK
  BY <1>2, <1>3 DEF StoreTypeOK, Records, Docs
<1>5. DocsInv
  BY <1>2, <1>3 DEF DocsInv, Written
<1>6. ProcInv
  BY <1>1, IdleBegun DEF ProcInv
<1>7. RestTypeOK
  <2>1. EntryId[p] \in Entries
    BY StoreAssumption
  <2>2. cursor \in Marks \cup {NoCursor}
    BY <1>1, AtMarks
  <2> QED
    BY <1>1, <2>1, <2>2, VaultAssumption DEF RestTypeOK
<1> QED
  BY <1>4, <1>5, <1>6, <1>7 DEF VaultInv, StoreInv

LEMMA NextInv == VaultInv /\ [Next]_vars => VaultInv'
<1> SUFFICES ASSUME VaultInv, [Next]_vars PROVE VaultInv'
  OBVIOUS
<1>1. CASE Pass
  BY <1>1, PassInv
<1>2. CASE \E w \in Procs : Start(w) \/ Step(w) \/ Fail(w) \/ Crash(w)
  BY <1>2, StartInv, StepInv, Failing
<1>3. CASE Human
  BY <1>3, SaveInv, MoveInv, HideInv DEF Human
<1>4. CASE \E t \in late : ChunkArrives(t)
  BY <1>4, ChunkInv
<1>5. CASE UNCHANGED vars
  <2>1. StoreInv /\ ProcInv /\ RestTypeOK
    BY DEF VaultInv
  <2> QED
    BY <1>5, <2>1, StoreRests, Resting DEF vars, VaultInv, RestTypeOK, storeVars, historyVars
<1> QED
  BY <1>1, <1>2, <1>3, <1>4, <1>5 DEF Next

\* The invariant holds in every reachable state.
THEOREM VaultSafe == Spec => []VaultInv
BY InitInv, NextInv, PTL DEF Spec

\* The variables have their types: every record and file that was ever written has
\* a text, and a process has in hand what its next call needs (reconcile.py,
\* record_service.py, sync_service.py).
THEOREM VaultTypeCorrect == Spec => []TypeOK
<1>1. VaultInv => TypeOK
  BY DEF VaultInv, StoreInv, ProcInv, RestTypeOK, States, TypeOK
<1> QED
  BY <1>1, VaultSafe, PTL

\* Whoever revives a record that was deleted is a capture or a forced import, and
\* does so by a step of its own.
LEMMA Revived ==
  ASSUME VaultInv, [Next]_vars, NEW u \in Uids, ~record[u].live, record'[u].live
  PROVE  \E w \in Procs : proc[w].op \in {"capture", "rebuildRecords"} /\ proc'[w] # proc[w]
<1>1. StoreInv /\ ProcInv
  BY DEF VaultInv
<1>2. record' # record
  OBVIOUS
<1>3. PICK w \in Procs : Put(w) \/ Drop(w) \/ Store(w)
  <2>1. ~Pass /\ ~Human /\ ~(\E t \in late : ChunkArrives(t)) /\ ~UNCHANGED vars
    BY <1>2 DEF Pass, BookmarkNow, ReadPage, Human, HumanSave, HumanMove, HumanDelete, ChunkArrives, vars, storeVars
  <2>2. ASSUME NEW w \in Procs PROVE ~Start(w) /\ ~Fail(w) /\ ~Crash(w)
    BY <1>2 DEF Start, Capture, Update, Apply, Delete, RebuildVault, RebuildRecords, NormalizeRecords, Fail, Crash, storeVars
  <2>3. ASSUME NEW w \in Procs, Step(w) PROVE Put(w) \/ Drop(w) \/ Store(w)
    BY <1>2, <2>3 DEF Step, PutEntry, TakeOver, FindOld, Unlink, Match, SaveCursor, storeVars
  <2> QED
    BY <2>1, <2>2, <2>3 DEF Next
<1>4. proc[w] \in States /\ Begun(proc[w]) /\ record \in [Uids -> Records] /\ proc \in [Procs -> States]
  BY <1>1 DEF ProcInv, StoreInv, StoreTypeOK
<1>5. CASE Put(w)
  <2>1. proc[w].at = "put" /\ proc[w].at \in Writing /\ Note(w) \in Uids
    BY <1>1, <1>5, Holding DEF Put, Writing
  <2>2. RecordMatches(Note(w), Now(w).rev) /\ WriteRecord(Note(w), Now(w).text) /\ Goto(w, "entry")
    BY <1>2, <1>5 DEF Put
  <2>3. Note(w) = u
    BY <1>4, <2>1, <2>2 DEF WriteRecord
  <2>4. Now(w).rev = 0
    BY <2>2, <2>3 DEF RecordMatches
  <2>5. proc[w].op = "capture"
    BY <1>1, <2>1, <2>4, Holding
  <2>6. proc'[w].at = "entry"
    BY <1>4, <2>2 DEF Goto, Enter, States
  <2> QED
    BY <2>1, <2>5, <2>6
<1>6. CASE Drop(w)
  <2>1. DropRecord(proc[w].old.uid)
    BY <1>2, <1>6 DEF Drop
  <2> QED
    BY <1>4, <2>1 DEF DropRecord
<1>7. CASE Store(w)
  <2>1. proc[w].at = "store" /\ proc[w].at \in Reading /\ Note(w) \in Uids
    BY <1>1, <1>7, Holding DEF Store, Reading
  <2>2. RecordMatches(Note(w), proc[w].rev) /\ WriteRecord(Note(w), Now(w).text) /\ NextItem(w)
    BY <1>2, <1>7 DEF Store
  <2>3. Note(w) = u
    BY <1>4, <2>1, <2>2 DEF WriteRecord
  <2>4. proc[w].rev = 0
    BY <2>2, <2>3 DEF RecordMatches
  <2>5. proc[w].op = "rebuildRecords"
    BY <1>4, <2>1, <2>4 DEF Begun
  <2>6. proc'[w].at # "store"
    <3> DEFINE me == First(proc[w].op, Tail(proc[w].todo), proc[w].mark, Idle)
    <3>1. me.at \in {"match", "idle"}
      BY <2>5 DEF First, Idle
    <3>2. Enter(w, me)
      BY <2>2, <2>5 DEF NextItem
    <3> HIDE DEF me
    <3>3. proc'[w] = me
      BY <1>4, <3>2 DEF Enter
    <3> QED
      BY <3>1, <3>3
  <2> QED
    BY <2>1, <2>5, <2>6
<1> QED
  BY <1>3, <1>5, <1>6, <1>7

\* What is deleted comes back by a capture or a forced import alone, never by
\* reverse-sync or an edit that was under way (record_service.py:8).
THEOREM NothingComesBack == Spec => NoResurrection
<1> DEFINE Revivals ==
      \A u \in Uids : (~record[u].live /\ record[u].seq > 0 /\ record'[u].live) =>
        \E w \in Procs : proc[w].op \in {"capture", "rebuildRecords"} /\ proc'[w] # proc[w]
<1>1. VaultInv /\ [Next]_vars => [Revivals]_vars
  BY Revived
<1> QED
  BY <1>1, VaultSafe, PTL DEF Spec, NoResurrection

=============================================================================
