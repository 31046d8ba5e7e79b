------------------------------ MODULE History -------------------------------
(***************************************************************************)
(* The change history (backend/app/history.py) and the edits it is about:  *)
(* the fetched details a person accepts, one record at a time, and the     *)
(* repair of pairings, which changes many.  Both read what they are about  *)
(* to replace, write, and keep what was replaced for undo.  Worker and     *)
(* taster-admin append to one file and either may trim it, by way of one   *)
(* temporary file that both use.                                           *)
(***************************************************************************)
EXTENDS Naturals, Sequences, FiniteSets

CONSTANTS
  Writers,       \* the processes that append
  Records,       \* the records they change, each with one field
  HistoryKeep,   \* HISTORY_KEEP
  MaxEdits,      \* the edits, numbered as they begin
  Budgets        \* bounds: how many edits and faults there are

VARIABLES
  value,         \* value[r]: the edit that wrote r
  work,          \* work[w]: what w is about
  live, temp,    \* the lines of history.jsonl and of history.tmp
  waiting,       \* history.tmp exists
  budget,        \* what is left of the budget
  \* history, for the properties only
  previous,      \* previous[x]: what the entry x says was replaced
  replaced,      \* replaced[x]: what it did replace; its own edit until it has
  crossed,       \* edits that another one came between, after the read, before the write
  written,       \* every entry appended so far, in order
  risked         \* entries that ran into another process's trim, or into a failed write

editVars == <<value, previous, replaced, crossed>>
fileVars == <<live, temp, waiting, written, risked>>
historyVars == <<editVars, fileVars, work, budget>>
-----------------------------------------------------------------------------
Edits == 1..MaxEdits
NoEdit == 0
Values == Edits \cup {NoEdit}
NextEdit == MaxEdits - budget.edit + 1

\* A line is an entry, or what json.loads rejects: the rest of one, ended or not.
Entries == Edits \X Records
Torn == <<NoEdit, "torn">>
Cut == <<NoEdit, "cut">>
Lines == Entries \cup {Torn, Cut}

AtRest == [at |-> "idle", edit |-> NoEdit, todo |-> {}, log |-> <<>>, kept |-> <<>>, on |-> "none"]
Appending == {"open", "flush", "read"}
Trims == {"opentmp", "writetmp", "replace"}

ASSUME HistoryAssumption ==
  /\ HistoryKeep \in Nat \ {0} /\ MaxEdits \in Nat
  /\ Budgets \subseteq [edit : 0..MaxEdits, fault : Nat]

HistoryTypeOK ==
  /\ value \in [Records -> Values]
  /\ work \in [Writers -> [at : {"idle", "update"} \cup Appending \cup Trims, edit : Values,
                           todo : SUBSET Records, log : Seq(Entries), kept : Seq(Lines),
                           on : {"none", "live", "temp", "gone"}]]
  /\ live \in Seq(Lines) /\ temp \in Seq(Lines) /\ waiting \in BOOLEAN
  /\ previous \in [Entries -> Values] /\ replaced \in [Entries -> Values]
  /\ crossed \subseteq Entries /\ written \in Seq(Entries) /\ risked \subseteq Entries
  /\ budget \in [edit : 0..MaxEdits, fault : Nat]

HistoryInit ==
  /\ value = [r \in Records |-> NoEdit] /\ work = [w \in Writers |-> AtRest]
  /\ live = <<>> /\ temp = <<>> /\ waiting = FALSE /\ budget \in Budgets
  /\ previous = [x \in Entries |-> NoEdit] /\ replaced = [x \in Entries |-> x[1]]
  /\ crossed = {} /\ written = <<>> /\ risked = {}

Afford(what) == budget[what] > 0 /\ budget' = [budget EXCEPT ![what] = @ - 1]
-----------------------------------------------------------------------------
Updating(r) == {w \in Writers : work[w].at = "update" /\ r \in work[w].todo}

\* r is written by the edit e of w; it comes between any other's read and write.
Write(r, e, others) ==
  /\ value' = [value EXCEPT ![r] = e]
  /\ crossed' = crossed \cup {<<work[v].edit, r>> : v \in others}

\* /api/record/update, and any other writer of the record.
Edit(r) ==
  /\ Afford("edit") /\ Write(r, NextEdit, Updating(r))
  /\ UNCHANGED <<previous, replaced, fileVars, work>>

\* apply_details and run_repair_pairings_items begin: what the records hold is read ...
Begin(w, rs) ==
  /\ work[w].at = "idle" /\ Afford("edit")
  /\ work' = [work EXCEPT ![w] = [AtRest EXCEPT !.at = "update", !.edit = NextEdit, !.todo = rs]]
  /\ previous' = [x \in Entries |-> IF x[1] = NextEdit THEN value[x[2]] ELSE previous[x]]
  /\ UNCHANGED <<value, replaced, crossed, fileVars>>

\* Where w goes on, with what is left to change and what was changed.
Onward(w, todo, log) ==
  work' = [work EXCEPT ![w] = [@ EXCEPT !.todo = todo, !.log = log,
             !.at = IF todo # {} THEN "update" ELSE IF log # <<>> THEN "open" ELSE "idle"]]

\* The entry does not say which edit it is about.
UpdateUnnamed(w, r) ==
  /\ work[w].at = "update" /\ r \in work[w].todo
  /\ Write(r, work[w].edit, Updating(r) \ {w})
  /\ Onward(w, work[w].todo \ {r}, Append(work[w].log, <<NoEdit, r>>))
  /\ UNCHANGED <<previous, replaced, fileVars, budget>>

\* An entry for a change that raised, too.
UpdateLogsFailed(w, r) ==
  /\ work[w].at = "update" /\ r \in work[w].todo
  /\ \/ /\ Write(r, work[w].edit, Updating(r) \ {w})
        /\ replaced' = [replaced EXCEPT ![<<work[w].edit, r>>] = value[r]]
     \/ UNCHANGED <<value, crossed, replaced>>
  /\ Onward(w, work[w].todo \ {r}, Append(work[w].log, <<work[w].edit, r>>))
  /\ UNCHANGED <<previous, fileVars, budget>>

\* ... one record after another is read anew and written, or its change raises ...
Update(w, r) ==
  /\ work[w].at = "update" /\ r \in work[w].todo
  /\ \/ /\ Write(r, work[w].edit, Updating(r) \ {w})
        /\ replaced' = [replaced EXCEPT ![<<work[w].edit, r>>] = value[r]]
        /\ Onward(w, work[w].todo \ {r}, Append(work[w].log, <<work[w].edit, r>>))
     \/ /\ Onward(w, work[w].todo \ {r}, work[w].log)
        /\ UNCHANGED <<value, crossed, replaced>>
  /\ UNCHANGED <<previous, fileVars, budget>>
-----------------------------------------------------------------------------
\* ... and history.append keeps what was replaced.  What follows a line that was not
\* ended becomes part of it.
Unended(s) == s # <<>> /\ s[Len(s)] = Cut
Glue(s, t) ==
  IF Unended(s) /\ t # <<>>
  THEN SubSeq(s, 1, Len(s) - 1) \o <<IF t[1] = Cut THEN Cut ELSE Torn>> \o Tail(t)
  ELSE s \o t

Trimming == {w \in Writers : work[w].at \in Trims}
Newest(s, n) == IF Len(s) <= n THEN s ELSE SubSeq(s, Len(s) - n + 1, Len(s))

\* The file is opened for appending.  The entries are buffered, and whole lines of them
\* reach it, one by one or several at a time.
OpenLog(w) ==
  /\ work[w].at = "open"
  /\ work' = [work EXCEPT ![w].at = "flush", ![w].on = "live"]
  /\ UNCHANGED <<editVars, fileVars, budget>>

Flushed(w) ==
  LET entry == Head(work[w].log) IN
  /\ written' = Append(written, entry)
  /\ risked' = IF work[w].on = "gone" \/ Unended(live) \/ Trimming # {} THEN risked \cup {entry} ELSE risked
  /\ live' = IF work[w].on = "live" THEN Glue(live, <<entry>>) ELSE live

Flush(w) ==
  /\ work[w].at = "flush" /\ Flushed(w)
  /\ work' = IF Len(work[w].log) = 1 THEN [work EXCEPT ![w].log = <<>>, ![w].on = "none", ![w].at = "read"]
                                     ELSE [work EXCEPT ![w].log = Tail(@)]
  /\ UNCHANGED <<temp, waiting, editVars, budget>>

\* The disk is full, and the line is cut: the edits stand without their entries.
FlushFails(w) ==
  /\ work[w].at = "flush" /\ Afford("fault")
  /\ written' = Append(written, Head(work[w].log)) /\ risked' = risked \cup {Head(work[w].log)}
  /\ live' = IF work[w].on = "live" THEN Glue(live, <<Cut>>) ELSE live
  /\ work' = [work EXCEPT ![w] = AtRest]
  /\ UNCHANGED <<temp, waiting, editVars>>

\* The file is read back.  A trim keeps its newest lines, the last one ended; what
\* was written before runs a risk when another trim is under way.
Ended(s) == [i \in DOMAIN s |-> IF s[i] = Cut THEN Torn ELSE s[i]]

\* The head of the file kept, not its tail.
ReadKeepsOldest(w) ==
  /\ work[w].at = "read"
  /\ IF Len(live) > 2 * HistoryKeep
     THEN /\ work' = [work EXCEPT ![w] = [AtRest EXCEPT !.at = "opentmp",
                                                      !.kept = Ended(SubSeq(live, 1, HistoryKeep))]]
          /\ risked' = IF Trimming = {} THEN risked ELSE risked \cup {written[i] : i \in DOMAIN written}
     ELSE work' = [work EXCEPT ![w] = AtRest] /\ UNCHANGED risked
  /\ UNCHANGED <<live, temp, waiting, written, editVars, budget>>

Read(w) ==
  /\ work[w].at = "read"
  /\ IF Len(live) > 2 * HistoryKeep
     THEN /\ work' = [work EXCEPT ![w] = [AtRest EXCEPT !.at = "opentmp",
                                                      !.kept = Ended(Newest(live, HistoryKeep))]]
          /\ risked' = IF Trimming = {} THEN risked ELSE risked \cup {written[i] : i \in DOMAIN written}
     ELSE work' = [work EXCEPT ![w] = AtRest] /\ UNCHANGED risked
  /\ UNCHANGED <<live, temp, waiting, written, editVars, budget>>

\* tmp.write_text empties the one temporary file ...
OpenTmp(w) ==
  /\ work[w].at = "opentmp"
  /\ temp' = <<>> /\ waiting' = TRUE
  /\ work' = [work EXCEPT ![w].at = "writetmp", ![w].on = "temp"]
  /\ UNCHANGED <<live, written, risked, editVars, budget>>

\* ... and writes it from its beginning.  What is longer there stays behind, from
\* the middle of a line or from the next one on.
Rests(old) == {SubSeq(old, k, Len(old)) : k \in 2..(Len(old) + 1)}
              \cup {<<IF old[k] = Cut THEN Cut ELSE Torn>> \o SubSeq(old, k + 1, Len(old)) : k \in DOMAIN old}
Over(new, old) == {new} \cup {Glue(new, rest) : rest \in Rests(old)}

\* The file may have been renamed, or replaced, since it was opened.
Put(w, new) ==
  /\ IF work[w].on = "temp" THEN temp' \in Over(new, temp) ELSE temp' = temp
  /\ IF work[w].on = "live" THEN live' \in Over(new, live) ELSE live' = live

WriteTmp(w) ==
  /\ work[w].at = "writetmp" /\ Put(w, work[w].kept)
  /\ work' = [work EXCEPT ![w] = [AtRest EXCEPT !.at = "replace"]]
  /\ UNCHANGED <<waiting, written, risked, editVars, budget>>

\* The disk is full: a part of it is written, the rest is given up.
WriteTmpFails(w) ==
  /\ work[w].at = "writetmp" /\ Afford("fault")
  /\ \E n \in 1..Len(work[w].kept) : Put(w, Append(SubSeq(work[w].kept, 1, n - 1), Cut))
  /\ work' = [work EXCEPT ![w] = AtRest]
  /\ UNCHANGED <<waiting, written, risked, editVars>>

\* tmp.replace: who has the old file open goes on with a file without a name, who has
\* the temporary one open with the history.  Without a temporary file it raises.
Renamed(on) == CASE on = "live" -> "gone" [] on = "temp" -> "live" [] OTHER -> on
Replace(w) ==
  /\ work[w].at = "replace"
  /\ IF waiting
     THEN /\ live' = temp /\ temp' = <<>> /\ waiting' = FALSE
          /\ work' = [v \in Writers |-> IF v = w THEN AtRest ELSE [work[v] EXCEPT !.on = Renamed(@)]]
     ELSE work' = [work EXCEPT ![w] = AtRest] /\ UNCHANGED <<live, temp, waiting>>
  /\ UNCHANGED <<written, risked, editVars, budget>>

\* A process ends, or an OSError its append: the edits that were made stand.
GiveUp(w) ==
  /\ work[w].at # "idle" /\ Afford("fault")
  /\ work' = [work EXCEPT ![w] = AtRest]
  /\ UNCHANGED <<editVars, fileVars>>

HistoryNext ==
  \/ \E r \in Records : Edit(r)
  \/ \E w \in Writers :
       \/ \E rs \in SUBSET Records \ {{}} : Begin(w, rs)
       \/ \E r \in Records : Update(w, r)
       \/ OpenLog(w) \/ Flush(w) \/ Read(w) \/ OpenTmp(w) \/ WriteTmp(w) \/ Replace(w)
       \/ FlushFails(w) \/ WriteTmpFails(w) \/ GiveUp(w)

HistorySpec == HistoryInit /\ [][HistoryNext]_historyVars
-----------------------------------------------------------------------------
\* read: the newest lines that can be parsed.
Offered ==
  {live[j] : j \in {i \in DOMAIN live :
     live[i] \in Entries /\ Cardinality({k \in DOMAIN live : k >= i /\ live[k] \in Entries}) <= HistoryKeep}}

\* history.py:3-10: of the newest HISTORY_KEEP changes every one can be undone,
\* whichever process made it, except one that was written while another process
\* trimmed the file or beside a line the disk had no room for, and all that was
\* written before two processes trimmed at once.
NewestKept ==
  \A i \in DOMAIN written :
    i > Len(written) - HistoryKeep /\ written[i] \notin risked => written[i] \in Offered

\* detail_fetch.py:501-523, manage_service.py:414-447: what a person is offered to undo
\* was done, and what it brings back is what the edit replaced, unless another
\* edit of the record came between its read and its write.
UndoIsTrue ==
  \A i \in DOMAIN live : live[i] \in Entries =>
    LET x == live[i] IN replaced[x] # x[1] /\ (x \in crossed \/ previous[x] = replaced[x])
=============================================================================
