----------------------------- MODULE VaultSync ------------------------------
(***************************************************************************)
(* What keeps the records and the vault files in step: record edits and    *)
(* deletes (record_service.py), captures, reverse-sync (reconcile.py), the *)
(* forced syncs (sync_service.py), and the human who edits the files in    *)
(* Obsidian.  Each HTTP call to CouchDB is a step of its own, so the       *)
(* worker, taster-admin and the human interleave between any two calls.    *)
(*                                                                         *)
(* The app's writers all run one routine: put the record, project it to    *)
(* its file, remove the file it moved away from; the two readers of files  *)
(* (reverse-sync, rebuild_records) run another: read the record of a file, *)
(* store the file's text in it.  A process therefore is a place in one of  *)
(* the two and the items it still has to do.                               *)
(***************************************************************************)
EXTENDS RecordStore, Sequences

CONSTANTS
  Procs,       \* those that run the app's operations
  Worker,      \* the one of them that runs reverse-sync
  Duties,      \* Duties[w]: the operations that w runs
  HumanOps,    \* what the human does
  NoCursor,    \* reverse-sync has never run
  MaxOps,      \* bound: operations begun, by app and human
  MaxFaults,   \* bound: failed calls, crashes and chunks that arrive late
  PageLimit    \* changes_since's limit (200)

\* A place in every shard's changes.
Marks == [Shards -> Nat]
At(n) == [s \in Shards |-> n]

AppOps == {"capture", "update", "apply", "delete", "rebuildVault", "rebuildRecords", "normalize"}

ASSUME VaultAssumption ==
  /\ Worker \in Procs /\ Duties \in [Procs -> SUBSET AppOps]
  /\ HumanOps \subseteq {"save", "move", "delete"}
  /\ MaxOps \in Nat /\ MaxFaults \in Nat /\ PageLimit \in Nat \ {0} /\ NoCursor \notin Marks

VARIABLES
  cursor,      \* the _local document of reverse-sync: how far each shard is read
  proc,        \* proc[p]: what process p is doing
  ops,         \* operations begun so far; the next edit has this number
  faults,
  \* history, for the properties only
  edited,      \* edited[u]: the version of the last record write of an app edit
  shown,       \* shown[u]: the file that last received a text of u
  marred       \* marred[u]: what happened that may leave u's record behind

historyVars == <<edited, shown, marred>>
vars == <<storeVars, cursor, proc, ops, faults, historyVars>>
-----------------------------------------------------------------------------
Places == {"idle", "put", "entry", "takeover", "find", "unlink", "drop", "match", "store", "save"}
Broken == {"fault", "chunk", "import", "early", "lost", "order"}
Harm == Broken \cup {"human", "crossed", "hidden"}

\* An item: the text to write, and for a record the revision it was read with.
Items == [text : Texts, rev : Nat]

Idle == [at |-> "idle", op |-> "none", todo |-> <<>>, rev |-> 0, old |-> NoText, mark |-> At(0)]

TypeOK ==
  /\ StoreTypeOK
  /\ cursor \in Marks \cup {NoCursor}
  /\ proc \in [Procs -> [at : Places, op : AppOps \cup {"none", "reconcile"}, todo : Seq(Items),
                         rev : Nat, old : Texts \cup {NoText}, mark : Marks]]
  /\ ops \in 0..MaxOps /\ faults \in 0..MaxFaults
  /\ edited \in [Uids -> Nat] /\ shown \in [Uids -> Entries] /\ marred \in [Uids -> SUBSET Harm]

\* One captured note with its file, possibly with a legacy field; reverse-sync
\* has run before, or never.
Init ==
  \E u \in Uids, p \in Paths, old \in BOOLEAN, c \in {NoCursor, At(0), At(2)} :
    LET t == [uid |-> u, ver |-> 0, path |-> p, by |-> "app"] IN
    /\ record = [w \in Uids |-> IF w = u
                   THEN [live |-> TRUE, seq |-> 1, text |-> t, legacy |-> old]
                   ELSE [live |-> FALSE, seq |-> 0, text |-> NoText, legacy |-> FALSE]]
    /\ file = [e \in Entries |-> IF e = EntryId[p] THEN [live |-> TRUE, seq |-> 2, text |-> t] ELSE NeverWas]
    /\ late = {} /\ seq = 2 /\ cursor = c
    /\ proc = [w \in Procs |-> Idle] /\ ops = 0 /\ faults = 0
    /\ edited = [w \in Uids |-> 0] /\ shown = [w \in Uids |-> EntryId[p]]
    /\ marred = [w \in Uids |-> {}]
-----------------------------------------------------------------------------
\* Beginning an operation.
Counted == ops < MaxOps /\ ops' = ops + 1
Begin(w, op) == proc[w].at = "idle" /\ op \in Duties[w] /\ Counted
NextText(u, p, by) == [uid |-> u, ver |-> ops + 1, path |-> p, by |-> by]

Enter(w, state) == proc' = [proc EXCEPT ![w] = state]
Goto(w, place) == Enter(w, [proc[w] EXCEPT !.at = place])
Stop(w) == Enter(w, Idle)

\* The next item of a loop; reverse-sync ends by saving its cursor.
First(op, todo, mark, last) ==
  IF todo = <<>> THEN last
  ELSE [Idle EXCEPT !.op = op, !.todo = todo, !.mark = mark,
                    !.at = CASE op = "rebuildVault" -> "entry"
                             [] op = "normalize" -> "put"
                             [] OTHER -> "match"]
Saving(mark) == [Idle EXCEPT !.op = "reconcile", !.at = "save", !.mark = mark]
NextItem(w) ==
  LET me == proc[w] IN
  Enter(w, First(me.op, Tail(me.todo), me.mark, IF me.op = "reconcile" THEN Saving(me.mark) ELSE Idle))

Now(w) == Head(proc[w].todo)
Note(w) == Now(w).text.uid

Mar(u, harm) == marred' = [marred EXCEPT ![u] = @ \cup harm]

\* A file text written before reverse-sync has a bookmark is never read by it.
Early == IF cursor = NoCursor THEN {"early"} ELSE {}
-----------------------------------------------------------------------------
\* write_note: a capture puts without a revision, so a job that is executed once
\* more meets its own note and fails.
Capture(w, u, p) ==
  /\ Begin(w, "capture")
  /\ Enter(w, [Idle EXCEPT !.at = "put", !.op = "capture",
                           !.todo = <<[text |-> NextText(u, p, "app"), rev |-> 0]>>])
  /\ UNCHANGED <<storeVars, cursor, faults, historyVars>>

\* update_record up to its write: read the record, merge the fields, render.
\* A changed name, producer or date changes the path.
Update(w, u, p) ==
  /\ Begin(w, "update") /\ record[u].live
  /\ Enter(w, [Idle EXCEPT !.at = "put", !.op = "update", !.old = record[u].text,
                           !.todo = <<[text |-> NextText(u, p, "app"), rev |-> record[u].seq]>>])
  /\ UNCHANGED <<storeVars, cursor, faults, historyVars>>

\* _apply_one, a change of an approved plan: the same, but whatever file the record
\* moves away from is left to itself.
Apply(w, u, p) ==
  /\ Begin(w, "apply") /\ record[u].live
  /\ Enter(w, [Idle EXCEPT !.at = "put", !.op = "apply",
                           !.todo = <<[text |-> NextText(u, p, "app"), rev |-> record[u].seq]>>])
  /\ UNCHANGED <<storeVars, cursor, faults, historyVars>>

\* delete_record up to its DELETE.
Delete(w, u) ==
  /\ Begin(w, "delete") /\ record[u].live
  /\ Enter(w, [Idle EXCEPT !.at = "drop", !.op = "delete", !.old = record[u].text, !.rev = record[u].seq])
  /\ UNCHANGED <<storeVars, cursor, faults, historyVars>>

\* The lists the forced syncs work from are read once, in an order of CouchDB's.
Orders(S) == {s \in [1..Cardinality(S) -> S] : \A i, j \in DOMAIN s : s[i] = s[j] => i = j}
NoteItems(U) == {[text |-> Rendered(record[u].text), rev |-> record[u].seq] : u \in U}

RebuildVault(w) ==
  /\ Begin(w, "rebuildVault")
  /\ \E todo \in Orders(NoteItems(LiveRecords)) : Enter(w, First("rebuildVault", todo, At(0), Idle))
  /\ UNCHANGED <<storeVars, cursor, faults, historyVars>>

NormalizeRecords(w) ==
  /\ Begin(w, "normalize")
  /\ \E todo \in Orders(NoteItems({u \in LiveRecords : record[u].legacy})) :
       Enter(w, First("normalize", todo, At(0), Idle))
  /\ UNCHANGED <<storeVars, cursor, faults, historyVars>>

FileItem(e) == [text |-> file[e].text, rev |-> file[e].seq]

RebuildRecords(w) ==
  /\ Begin(w, "rebuildRecords")
  /\ \E files \in Orders(LiveFiles) :
       LET todo == [i \in DOMAIN files |-> FileItem(files[i])] IN
       Enter(w, First("rebuildRecords", todo, At(0), Idle))
  /\ UNCHANGED <<storeVars, cursor, faults, historyVars>>
-----------------------------------------------------------------------------
\* The writing routine.  update_note and write_note: PUT of the record; a 409
\* raises, which ends the operation, or the item of a normalisation.
Put(w) ==
  LET u == Note(w)  t == Now(w).text IN
  /\ proc[w].at = "put"
  /\ UNCHANGED <<cursor, ops, faults, file, late, shown, marred>>
  /\ IF RecordMatches(u, Now(w).rev)
     THEN WriteRecord(u, t) /\ edited' = [edited EXCEPT ![u] = t.ver] /\ Goto(w, "entry")
     ELSE NextItem(w) /\ UNCHANGED <<record, seq, edited>>

\* After the projection: an edit that changed the path, were it but its spelling,
\* removes the file of the old one.
Moved(w) == proc[w].old # NoText /\ proc[w].old.path # Now(w).text.path
Projected(w) == IF Moved(w) THEN Goto(w, "find") ELSE NextItem(w)

\* A file text is written.  Two writers crossed when the edit acknowledged last
\* is another, or when the file was another note's.
Holds(e, u) == file[e].live /\ file[e].text.uid = u
Project(w, u, t) ==
  /\ WriteFile(Entry(t), t)
  /\ shown' = [shown EXCEPT ![u] = Entry(t)]
  /\ marred' = [v \in Uids |-> marred[v]
                 \cup (IF v = u THEN Early ELSE {})
                 \cup (IF IF v = u THEN t.ver # edited[u] ELSE Holds(Entry(t), v)
                      THEN {"crossed"} ELSE {})]
  /\ Projected(w)

PutEntryDedup(w) ==
  LET t == Now(w).text IN
  /\ proc[w].at = "entry"
  /\ UNCHANGED <<record, cursor, ops, faults, edited>>
  /\ IF ~file[Entry(t)].live
     THEN Project(w, t.uid, t)
     ELSE Projected(w) /\ UNCHANGED <<file, late, seq, shown, marred>>

\* _put_livesync: a PUT without revision creates the entry; otherwise the
\* revision that is there is read, to be taken over by the next call.
PutEntry(w) ==
  LET t == Now(w).text IN
  /\ proc[w].at = "entry"
  /\ UNCHANGED <<record, cursor, ops, faults, edited>>
  /\ IF file[Entry(t)].seq = 0
     THEN Project(w, t.uid, t)
     ELSE /\ Enter(w, [proc[w] EXCEPT !.at = "takeover", !.rev = file[Entry(t)].seq])
          /\ UNCHANGED <<file, late, seq, shown, marred>>

\* A conflict here is swallowed by the caller: the file keeps its content, and
\* when that is no text of the note's, the note's new text is in no file.
TakeOver(w) ==
  LET t == Now(w).text IN
  /\ proc[w].at = "takeover"
  /\ UNCHANGED <<record, cursor, ops, faults, edited>>
  /\ IF file[Entry(t)].seq = proc[w].rev
     THEN Project(w, t.uid, t)
     ELSE /\ Projected(w) /\ UNCHANGED <<file, late, seq, shown>>
          /\ Mar(t.uid, IF Holds(Entry(t), t.uid) THEN {"crossed"} ELSE {"crossed", "lost"})

\* delete_document: the record must be the one that was read.
Drop(w) ==
  LET me == proc[w]  u == me.old.uid IN
  /\ me.at = "drop"
  /\ UNCHANGED <<file, late, cursor, ops, faults, historyVars>>
  /\ IF RecordMatches(u, me.rev) THEN DropRecord(u) /\ Goto(w, "find")
                                 ELSE Stop(w) /\ UNCHANGED <<record, seq>>

\* soft_delete_vault_file: read the entry, and mark it unless it is gone.  What it
\* hides may be the last edit of a live note: another writer's, or its own, when the
\* old path and the new one have the same entry.
FindOld(w) ==
  LET e == Entry(proc[w].old) IN
  /\ proc[w].at = "find"
  /\ IF file[e].live THEN Enter(w, [proc[w] EXCEPT !.at = "unlink", !.rev = file[e].seq])
                     ELSE Stop(w)
  /\ UNCHANGED <<storeVars, cursor, ops, faults, historyVars>>

Unlink(w) ==
  LET e == Entry(proc[w].old)  t == file[e].text IN
  /\ proc[w].at = "unlink" /\ Stop(w)
  /\ IF file[e].seq = proc[w].rev
     THEN HideFile(e) /\ Mar(t.uid, IF record[t.uid].live /\ t.ver = edited[t.uid] THEN {"hidden"} ELSE {})
     ELSE UNCHANGED <<file, seq, marred>>
  /\ UNCHANGED <<record, late, cursor, ops, faults, edited, shown>>
-----------------------------------------------------------------------------
\* reconcile_vault_edits: without a cursor it only bookmarks the present.
BookmarkNow ==
  /\ proc[Worker].at = "idle" /\ cursor = NoCursor
  /\ Enter(Worker, Saving(At(seq)))
  /\ UNCHANGED <<storeVars, cursor, ops, faults, historyVars>>

\* One page of the feed, each change with the document as it is now; only live vault
\* entries are looked at, those of one shard in the order of their last writes.
Listings(page) ==
  {files \in Orders(page \cap LiveFiles) :
     \A i, j \in DOMAIN files :
       i < j /\ ShardOf[files[i]] = ShardOf[files[j]] => LastWrite(files[i]) < LastWrite(files[j])}

\* last_seq: the newest change of each shard on the page.
Reached(s, written) == CHOOSE n \in written \cup {cursor[s]} : \A m \in written \cup {cursor[s]} : m <= n
PageEndAtEntry(page) ==
  [s \in Shards |-> Reached(s, {LastWrite(d) : d \in {e \in page \cap LiveFiles : ShardOf[e] = s}})]
PageEndMissing(page) ==
  IF page = {} THEN NoCursor
  ELSE [s \in Shards |-> Reached(s, {LastWrite(d) : d \in {e \in page : ShardOf[e] = s}})]
PageEnd(page) == [s \in Shards |-> Reached(s, {LastWrite(d) : d \in {e \in page : ShardOf[e] = s}})]

ReadPage ==
  /\ proc[Worker].at = "idle" /\ cursor # NoCursor
  /\ \E page \in Pages(cursor, PageLimit) : \E files \in Listings(page) :
       Enter(Worker, First("reconcile", [i \in DOMAIN files |-> FileItem(files[i])],
                           PageEnd(page), Saving(PageEnd(page))))
  /\ UNCHANGED <<storeVars, cursor, ops, faults, historyVars>>

\* A file without a record is stored as a new one.
MatchCreates(w) ==
  LET u == Note(w)  t == Now(w).text  same == record[u].live /\ record[u].text = t IN
  /\ proc[w].at = "match" /\ UNCHANGED marred
  /\ \/ same /\ NextItem(w)
     \/ /\ ~same
        /\ Enter(w, [proc[w] EXCEPT !.at = "store", !.rev = IF record[u].live THEN record[u].seq ELSE 0])
  /\ UNCHANGED <<storeVars, cursor, ops, faults, edited, shown>>

\* _reconcile_entry and the body of rebuild_records: reassemble the file's text
\* (a chunk that is missing is left out: what remains may not parse, or be taken
\* for the whole), find its record and compare.  Without a record reverse-sync
\* skips, rebuild_records creates it.
Reassembled(t) == IF t \in late THEN [t EXCEPT !.by = "torn"] ELSE t

Match(w) ==
  LET u == Note(w)
      t == Now(w).text
      found == Reassembled(t)
      skips == IF record[u].live THEN record[u].text = found ELSE proc[w].op = "reconcile"
  IN
  /\ proc[w].at = "match"
  /\ Mar(u, IF t \in late THEN {"chunk"} ELSE {})
  /\ \/ (skips \/ t \in late) /\ NextItem(w)
     \/ /\ ~skips
        /\ Enter(w, [proc[w] EXCEPT !.at = "store", !.todo[1].text = found,
                                    !.rev = IF record[u].live THEN record[u].seq ELSE 0])
  /\ UNCHANGED <<storeVars, cursor, ops, faults, edited, shown>>

\* The file shown last was read before this one: the feed had them in another order.
Disordered(w) ==
  LET u == Note(w)  last == shown[u]  me == proc[w] IN
  /\ Holds(last, u) /\ Now(w).text # file[last].text /\ file[last].seq <= me.mark[ShardOf[last]]
  /\ \A i \in DOMAIN me.todo : me.todo[i].text # file[last].text

\* update_document: the text as it stands in the file, over the revision read;
\* a conflict is logged and the item skipped.
Store(w) ==
  LET u == Note(w)  t == Now(w).text IN
  /\ proc[w].at = "store"
  /\ NextItem(w)
  /\ IF RecordMatches(u, proc[w].rev)
     THEN /\ WriteRecord(u, t)
          /\ Mar(u, IF proc[w].op = "rebuildRecords" THEN {"import"}
                    ELSE IF Disordered(w) THEN {"order"} ELSE {})
     ELSE UNCHANGED <<record, seq, marred>>
  /\ UNCHANGED <<file, late, cursor, ops, faults, edited, shown>>

SaveCursorNow ==
  /\ proc[Worker].at = "save"
  /\ cursor' = At(seq)
  /\ Stop(Worker)
  /\ UNCHANGED <<storeVars, ops, faults, historyVars>>

\* The cursor moves past the whole page, past skipped entries too.
SaveCursor ==
  /\ proc[Worker].at = "save"
  /\ cursor' = proc[Worker].mark
  /\ Stop(Worker)
  /\ UNCHANGED <<storeVars, ops, faults, historyVars>>
-----------------------------------------------------------------------------
\* A human in Obsidian: saves other content in a live file, perhaps with another
\* name in the frontmatter (the file stays where it is), or deletes the file.
\* LiveSync replicates entry and chunk as separate documents.
HumanSave(e, q, chunkLate) ==
  LET u == file[e].text.uid  t == NextText(u, q, "human") IN
  /\ "save" \in HumanOps /\ file[e].live /\ Counted
  /\ file' = [file EXCEPT ![e] = [live |-> TRUE, seq |-> seq + 1, text |-> t]]
  /\ seq' = seq + 1
  /\ \/ ~chunkLate /\ UNCHANGED <<late, faults>>
     \/ chunkLate /\ faults < MaxFaults /\ faults' = faults + 1 /\ late' = late \cup {t}
  /\ shown' = [shown EXCEPT ![u] = e]
  /\ Mar(u, {"human"} \cup Early)
  /\ UNCHANGED <<record, cursor, proc, edited>>

\* ... or moves a live file: LiveSync makes an entry under the new path.
HumanMove(e, f) ==
  /\ "move" \in HumanOps /\ file[e].live /\ ~file[f].live /\ Counted
  /\ file' = [file EXCEPT ![f] = [live |-> TRUE, seq |-> seq + 1, text |-> file[e].text],
                          ![e].live = FALSE, ![e].seq = seq + 2]
  /\ seq' = seq + 2
  /\ shown' = [shown EXCEPT ![file[e].text.uid] = f]
  /\ Mar(file[e].text.uid, {"human"} \cup Early)
  /\ UNCHANGED <<record, late, cursor, proc, faults, edited>>

HumanDelete(e) ==
  /\ "delete" \in HumanOps /\ file[e].live /\ Counted
  /\ HideFile(e) /\ Mar(file[e].text.uid, {"human"})
  /\ UNCHANGED <<record, late, cursor, proc, faults, edited, shown>>

ChunkArrives(t) ==
  /\ t \in late /\ late' = late \ {t}
  /\ UNCHANGED <<record, file, seq, cursor, proc, ops, faults, historyVars>>
-----------------------------------------------------------------------------
\* The notes process w is at work on.
Touches(w) == {proc[w].todo[i].text.uid : i \in DOMAIN proc[w].todo}
              \cup (IF proc[w].old = NoText THEN {} ELSE {proc[w].old.uid})
MarAll(U) == marred' = [u \in Uids |-> IF u \in U THEN marred[u] \cup {"fault"} ELSE marred[u]]

\* A call of w fails without effect.  The record's PUT and DELETE raise; what
\* comes after them is logged and left undone; a pass that cannot save its
\* cursor ends where it was.
Fail(w) ==
  LET me == proc[w] IN
  /\ me.at # "idle" /\ faults < MaxFaults /\ faults' = faults + 1
  /\ CASE me.at \in {"put", "match", "store"} -> NextItem(w)
       [] me.at \in {"entry", "takeover"} -> Projected(w)
       [] me.at \in {"drop", "find", "unlink", "save"} -> Stop(w)
  /\ MarAll(Touches(w))
  /\ UNCHANGED <<storeVars, cursor, ops, edited, shown>>

\* The process is gone, with what it still had to do.
Crash(w) ==
  /\ proc[w].at # "idle" /\ faults < MaxFaults /\ faults' = faults + 1
  /\ Stop(w)
  /\ MarAll(Touches(w))
  /\ UNCHANGED <<storeVars, cursor, ops, edited, shown>>
-----------------------------------------------------------------------------
\* One call of the operation that w is in.
Step(w) == Put(w) \/ PutEntry(w) \/ TakeOver(w) \/ Drop(w) \/ FindOld(w) \/ Unlink(w)
           \/ Match(w) \/ Store(w) \/ (w = Worker /\ SaveCursor)

Pass == BookmarkNow \/ ReadPage

Start(w) ==
  \/ \E u \in Uids, p \in Paths : Capture(w, u, p) \/ Update(w, u, p) \/ Apply(w, u, p)
  \/ \E u \in Uids : Delete(w, u)
  \/ RebuildVault(w) \/ RebuildRecords(w) \/ NormalizeRecords(w)

Human == \E e \in Entries : \/ HumanDelete(e)
                            \/ \E f \in Entries : HumanMove(e, f)
                            \/ \E q \in Paths, c \in BOOLEAN : HumanSave(e, q, c)

Next ==
  \/ Pass
  \/ \E w \in Procs : Start(w) \/ Step(w) \/ Fail(w) \/ Crash(w)
  \/ Human
  \/ \E t \in late : ChunkArrives(t)

Spec == Init /\ [][Next]_vars

FairSpec == Spec /\ WF_vars(Pass) /\ \A w \in Procs : WF_vars(Step(w))
-----------------------------------------------------------------------------
\* Reverse-sync has read every live file, and nothing but it is at work.
Drained == /\ \A w \in Procs : proc[w].op \in {"none", "reconcile"}
           /\ cursor # NoCursor /\ \A e \in LiveFiles : file[e].seq <= cursor[ShardOf[e]]

Quiet == Drained /\ late = {} /\ \A w \in Procs : proc[w].at = "idle"

Agrees(u) ==
  LET f == file[shown[u]] IN
  (record[u].live /\ f.live /\ f.text.uid = u) => record[u].text = f.text

\* Two-way sync (architecture of reconcile.py and couchdb_client.py): once things
\* are quiet, a record holds what its file shows, whoever wrote last and in
\* whatever order the calls interleaved.  Excepted are notes that met a failed
\* call, a chunk that arrived after its entry, a forced import from a stale list,
\* an edit before the first bookmark, a text that reached no file, as its path
\* was taken meanwhile or the file gone, or two shards whose changes came in
\* another order than they were made.
Agreement == Quiet => \A u \in Uids : (marred[u] \cap Broken = {}) => Agrees(u)

\* An edit that the app has acknowledged stays, in the record and in a file: neither
\* reverse-sync reading its own echo nor an old file left behind by a rename puts an
\* older text back (record_service.py:51-53).  Excepted are also notes that a human
\* edits, those where two writers crossed (one wrote an older text than the last
\* edit's or over another note's file, or found its file changed under its hands and
\* left it), and those whose file with the last edit was removed.
EditsSurvive ==
  Quiet => \A u \in LiveRecords : (marred[u] = {}) =>
    /\ record[u].text.ver = edited[u]
    /\ file[shown[u]].live /\ file[shown[u]].text = record[u].text

\* reconcile.py:134-136: in a database of one shard no note's file is read after a
\* later one of the same note, but of what was broken otherwise.
InOrder ==
  (\A d, e \in Documents : ShardOf[d] = ShardOf[e]) =>
    \A u \in Uids : "order" \in marred[u] => marred[u] \cap (Broken \ {"order"}) # {}

\* sync_service.py:11-14: a rebuild of the vault is "safe", it only writes the
\* vault projection, never a record; no edit is then lost to it.
EditsSurviveRebuild ==
  Quiet => \A u \in LiveRecords : (marred[u] \subseteq {"crossed"}) => (record[u].text.ver = edited[u])

\* A deleted record comes back by a new capture or by the forced import of the
\* vault, and by nothing else: not by reverse-sync from its stale file
\* (record_service.py:8), nor by an edit that was under way.
NoResurrection ==
  [][\A u \in Uids : (~record[u].live /\ record[u].seq > 0 /\ record'[u].live) =>
       \E w \in Procs : proc[w].op \in {"capture", "rebuildRecords"} /\ proc'[w] # proc[w]]_vars

\* The feed drains: reverse-sync never chases its own writes, and once nobody
\* edits every live file has been read.
FeedDrains == <>[]Drained
=============================================================================
