--------------------------- MODULE MCAdminPortal ----------------------------
(* taster-admin: its jobs and choices, and the edits whose history it shares  *)
(* with the worker.  The two have nothing in common, so a scene is about one  *)
(* of them.  Of the jobs: every set of stored choices; jobs of every sort, and *)
(* jobs beside a save of new choices, each with a fault.  Of the edits: three *)
(* of one or both records, enough for two trims at once, for entries written  *)
(* after them and for a second trim; and two with a fault.                    *)
EXTENDS AdminPortal, History

CONSTANTS pairs, details, chat, check, m1, m2, old, portal, worker, whisky, rum

MCKind == [j \in Jobs |-> CASE j = pairs -> "pairings" [] j = details -> "details"
                            [] j = chat -> "chat" [] OTHER -> "status"]

Pick(vision, image, capture, text) ==
  [NoChoices EXCEPT !["vision"] = vision, !["image"] = image, !["capture"] = capture,
                    !["lookup"] = m1, !["text"] = text, !["research"] = vision]
MCStored == {Pick(v, i, c, t) : v, i, c \in {NoModel, old, m1}, t \in {NoModel, m1}}
MCSaves == {[NoChoices EXCEPT !["vision"] = m2], NoChoices}

Scene(choices, jobs, saves, faults) ==
  [stored |-> choices, left |-> [job |-> jobs, save |-> saves, fault |-> faults]]
Retiring == Pick(old, m1, NoModel, m1)

MCScenes == {Scene(s, 0, 0, 0) : s \in MCStored}
            \cup {Scene(Retiring, 4, 0, 1), Scene(Retiring, 2, 1, 1)}

MCBudgets == {[edit |-> 0, fault |-> 0], [edit |-> 3, fault |-> 0], [edit |-> 2, fault |-> 1]}
NoJobs == \A what \in DOMAIN left : left[what] = 0
NoEdits == \A what \in DOMAIN budget : budget[what] = 0

\* Processes are alike, and so are records: the first edit is one of the portal, or
\* of another writer, of whisky or of both.
FirstEdit ==
  (\A r \in Records : value[r] = NoEdit) /\ (\A w \in Writers : work[w] = AtRest) =>
  work'[worker] = AtRest /\ work'[portal].todo # {rum} /\ value'[rum] = NoEdit
\* The last edit is there for the file: with no fault ahead it begins when the others
\* are written.
LastEdit == budget.fault = 0 /\ budget.edit = 1 /\ budget'.edit = 0 => \A w \in Writers : work[w].at # "update"

BothInit == Init /\ HistoryInit /\ (NoEdits \/ (NoJobs /\ stored = Retiring))
BothNext == \/ Next /\ UNCHANGED historyVars
            \/ HistoryNext /\ FirstEdit /\ LastEdit /\ UNCHANGED vars
BothSpec == /\ BothInit /\ [][BothNext]_<<vars, historyVars>>
            /\ \A a \in Actors : WF_vars(TaskStep(a))
=============================================================================
