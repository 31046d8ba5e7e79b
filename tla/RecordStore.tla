---------------------------- MODULE RecordStore -----------------------------
(***************************************************************************)
(* The CouchDB database of the vault (backend/app/couchdb_client.py): the  *)
(* JSON document of each note, and the LiveSync entry of each vault file.  *)
(* One update sequence numbers every write, and the number of a document's *)
(* last write stands for its _rev, since each write makes a fresh one.     *)
(*                                                                         *)
(* A text is a whole note: whose it is (uid), which edit of it (ver), the  *)
(* vault path derived from its fields (path), and whether it is the app's  *)
(* rendering, a human's wording, or what is left of one without one of its *)
(* chunks ("app", "human", "torn").  Chunks are addressed by content, so   *)
(* those of a text are there or not: one in "late" is still missing some.  *)
(* The path is spelled as the fields are; the entry's id is it in lower    *)
(* case.  Each document is in one shard, and only there the feed of the    *)
(* changes has an order.                                                   *)
(***************************************************************************)
EXTENDS Naturals, FiniteSets

CONSTANTS
  Uids,     \* the notes
  Paths,    \* the vault paths, as they are spelled
  Entries,  \* the ids of the LiveSync entries
  EntryId,  \* EntryId[p]: path.lower()
  Shards,   \* the shards of the database
  ShardOf,  \* ShardOf[d]: where the document with the id d is
  NoText    \* the content of a document that never existed

VARIABLES
  record,   \* record[u]: the JSON document of the note
  file,     \* file[e]: the LiveSync entry
  late,     \* texts of which a chunk has not arrived
  seq       \* the database's update_seq

storeVars == <<record, file, late, seq>>

Documents == Uids \cup Entries

ASSUME StoreAssumption ==
  /\ IsFiniteSet(Uids) /\ IsFiniteSet(Entries) /\ Uids \cap Entries = {}
  /\ EntryId \in [Paths -> Entries] /\ ShardOf \in [Documents -> Shards]

Texts == [uid : Uids, ver : Nat, path : Paths, by : {"app", "human", "torn"}]

\* text is kept in tombstones too: a soft-deleted entry keeps its children.
Docs == [live : BOOLEAN, seq : Nat, text : Texts \cup {NoText}]
Records == [live : BOOLEAN, seq : Nat, text : Texts \cup {NoText}, legacy : BOOLEAN]

NeverWas == [live |-> FALSE, seq |-> 0, text |-> NoText]

StoreTypeOK ==
  /\ record \in [Uids -> Records]
  /\ file \in [Entries -> Docs]
  /\ late \subseteq Texts
  /\ seq \in Nat

\* Where _write_livesync_file puts a text.
Entry(t) == EntryId[t.path]

\* render_markdown of the fields that a text holds; what is torn stays so.
Rendered(t) == [t EXCEPT !.by = IF @ = "human" THEN "app" ELSE @]

\* PUT of a record over revision rev; 0 is a PUT without one, which creates the
\* document or revives its tombstone.  Any other mismatch is a 409.
RecordMatches(u, rev) == IF rev = 0 THEN ~record[u].live
                                    ELSE record[u].live /\ record[u].seq = rev

WriteRecord(u, t) ==
  /\ record' = [record EXCEPT ![u] = [live |-> TRUE, seq |-> seq + 1, text |-> t, legacy |-> FALSE]]
  /\ seq' = seq + 1

\* delete_document.
DropRecord(u) ==
  /\ record' = [record EXCEPT ![u].live = FALSE, ![u].seq = seq + 1]
  /\ seq' = seq + 1

\* _write_livesync_file: the chunk, then the entry that names it.  It carries no
\* "deleted" flag, so it revives an entry that was deleted.
WriteFile(e, t) ==
  /\ file' = [file EXCEPT ![e] = [live |-> TRUE, seq |-> seq + 1, text |-> t]]
  /\ late' = late \ {t}
  /\ seq' = seq + 1

\* soft_delete_vault_file: the entry stays, with deleted = true.
HideFile(e) ==
  /\ file' = [file EXCEPT ![e].live = FALSE, ![e].seq = seq + 1]
  /\ seq' = seq + 1

\* What query and rebuild see: find() over the note types, and the live entries.
LiveRecords == {u \in Uids : record[u].live}
LiveFiles == {e \in Entries : file[e].live}

\* A page of _changes since a cursor, which has a place in every shard: of each shard
\* the oldest changes, each document once, at its last write.  How far the page gets
\* in a shard is CouchDB's choice.
LastWrite(d) == IF d \in Uids THEN record[d].seq ELSE file[d].seq
ChangedSince(c) == {d \in Documents : LastWrite(d) > c[ShardOf[d]]}
Pages(c, limit) ==
  LET changed == ChangedSince(c)
      size == IF Cardinality(changed) <= limit THEN Cardinality(changed) ELSE limit
  IN {page \in SUBSET changed :
        /\ Cardinality(page) = size
        /\ \A d \in page, e \in changed \ page : ShardOf[d] = ShardOf[e] => LastWrite(d) < LastWrite(e)}
=============================================================================
