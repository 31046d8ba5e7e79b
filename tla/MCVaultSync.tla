---------------------------- MODULE MCVaultSync -----------------------------
(* The worker runs captures and the phone's edits between its passes, the    *)
(* portal edits, approved plans and the forced syncs.  One path has two      *)
(* spellings.                                                                *)
EXTENDS VaultSync

CONSTANTS worker, portal, u1

MCProcs == {worker, portal}
MCDuties == [w \in MCProcs |-> IF w = worker THEN {"capture", "update", "delete"}
                               ELSE {"update", "apply", "rebuildVault", "rebuildRecords", "normalize"}]
MCHuman == {"save", "move", "delete"}
MCEditors == [w \in MCProcs |-> IF w = worker THEN {"update"} ELSE {"rebuildVault"}]

MCEntryId == [p \in Paths |-> IF p = "A.md" THEN "a.md" ELSE p]
MCShardOf == [d \in Documents |-> IF d = "a.md" THEN 1 ELSE 2]

\* Notes are alike, and so are the two spellings: the first note is u1, in a file
\* whose path is spelled the one way.  Its file is read, and its record has a legacy
\* field (it does what others do, and may be normalised), or there is no bookmark yet.
MCInit ==
  /\ Init /\ record[u1].live /\ record[u1].text.path \in Entries
  /\ cursor \in {NoCursor, At(2)} /\ record[u1].legacy = (cursor = At(2))
MCSpec == MCInit /\ [][Next]_vars /\ WF_vars(Pass) /\ \A w \in Procs : WF_vars(Step(w))
=============================================================================
