------------------------------ MODULE Maintain ------------------------------
(***************************************************************************)
(* The changes of taster-admin's Maintain and pairings pages               *)
(* (backend/app/manage_service.py, pairing_match.py): pairings regenerated *)
(* by a model or only matched anew, and the approved part of a plan.  All  *)
(* begin from a list of the records and write each record by its revision, *)
(* minutes later, while others edit the records.                           *)
(***************************************************************************)
EXTENDS Tasting, ModelCall

CONSTANTS
  Guesses,     \* the matches a model may name
  MaxChanges   \* bound: how long the list of one job is

VARIABLE man

manVars == <<man>>

NoId == "none"
Unnamed == -1
Kept == "kept"

\* A change: the record it names, by uid and by id, and what it says of it, which
\* may be nothing: a field's value (the rating stands for any), its pairings, to
\* mint a uid.  Pairings have profiles, or only matches.
Changes ==
  [uid : Nat, doc : Ids \cup {NoId}, rating : Unnamed..(MaxRating + 1),
   pairings : {Kept, "bare", "profiled"}, matches : SUBSET (Ids \cup {NameOnly}), mint : BOOLEAN]
Asked(doc) == [uid |-> NoUid, doc |-> doc, rating |-> Unnamed, pairings |-> Kept, matches |-> {}, mint |-> FALSE]

Slots == 1..MaxChanges
Unmatched == [id \in Ids |-> {}]
NoWork == [at |-> "idle", kind |-> "none", model |-> "none", list |-> <<>>,
           docs |-> [id \in Ids |-> Gone], changed |-> {}, chosen |-> Unmatched,
           unmatched |-> {}, answered |-> {}, options |-> {}, match |-> NoId,
           item |-> 0, found |-> NoId, rev |-> 0, body |-> Gone,
           applied |-> {}, failed |-> {}, wrote |-> [p \in Slots |-> NoId], outcome |-> "none"]

\* Pairings of the records picked, each once (admin_web.py:264), or the approved
\* part of a plan: any list of changes, as the planning model wrote them.
Kinds == {"rematch", "regenerate", "apply"}
ManStart(w) ==
  /\ w.kind \in Kinds /\ w.model \in Providers \cup {"none"}
  /\ w.list \in Seq(Changes) /\ Len(w.list) <= MaxChanges
  /\ w = [NoWork EXCEPT !.at = "start", !.kind = w.kind, !.model = w.model, !.list = w.list]
  /\ w.kind # "apply" => \A p, q \in DOMAIN w.list :
       w.list[p] = Asked(w.list[p].doc) /\ w.list[p].doc \in Ids /\ (w.list[p] = w.list[q] => p = q)

ManPlaces == {"idle", "start", "answer", "match", "choose", "apply", "write", "saved", "end"}
ManTypeOK ==
  /\ man \in [at : ManPlaces, kind : Kinds \cup {"none"}, model : Providers \cup {"none"},
              list : Seq(Changes), docs : [Ids -> Bodies \cup {Gone}], changed : SUBSET Ids,
              chosen : [Ids -> SUBSET (Ids \cup {NameOnly})], unmatched : SUBSET Ids,
              answered : SUBSET Ids, options : SUBSET Ids, match : Ids \cup {NoId},
              item : Slots \cup {0}, found : Ids \cup {NoId}, rev : Nat, body : Bodies \cup {Gone},
              applied : SUBSET Slots, failed : SUBSET Slots, wrote : [Slots -> Ids \cup {NoId}],
              outcome : {"none", "done", "raised"}]
  /\ Len(man.list) <= MaxChanges

Pairings == man.kind \in {"rematch", "regenerate"}
ManEnds(outcome) == man' = [man EXCEPT !.at = "end", !.outcome = outcome]
-----------------------------------------------------------------------------
\* query_all_items; a re-match takes the profiles without their matches.
Snapshot == [id \in Ids |-> IF id \in Items THEN Body(id) ELSE Gone]
Strip(matches) == {}

\* Those of the list that are there; the others are reported at once.
Targets == {id \in Items : \E p \in DOMAIN man.list : man.list[p].doc = id}
Lacking(ids) == {p \in DOMAIN man.list : man.list[p].doc \notin ids}

ManBegin ==
  /\ man.at = "start" /\ Pairings /\ UNCHANGED vaultVars
  /\ LET rematched == {t \in Targets : Body(t).profile}
         began == [man EXCEPT !.docs = Snapshot, !.changed = Targets, !.failed = Lacking(Targets)]
     IN \/ ManEnds("raised") /\ UNCHANGED call
        \/ /\ man.kind = "rematch" /\ UNCHANGED call
           /\ man' = [began EXCEPT !.at = "match", !.changed = rematched, !.unmatched = rematched,
                                   !.chosen = [id \in Ids |-> IF id \in rematched THEN Strip(Body(id).matches) ELSE {}]]
        \/ /\ man.kind = "regenerate" /\ man.model # "none"
           /\ Call(man.model, FALSE, TRUE) /\ man' = [began EXCEPT !.at = "answer"]

\* _repair_batch: new pairings for any of the targets.
ManAnswer ==
  /\ man.at = "answer" /\ Answered /\ HangUp /\ UNCHANGED vaultVars
  /\ \/ ~Returned("dict") /\ ManEnds("raised")
     \/ /\ Returned("dict")
        /\ \E changed \in SUBSET man.changed, guess \in Guesses :
             man' = [man EXCEPT !.at = "match", !.changed = changed, !.unmatched = changed,
                                !.chosen = [id \in Ids |-> IF id \in changed THEN guess ELSE {}]]

\* ground_repair_changes, item by item: the candidates ...
ManMatch ==
  /\ man.at = "match" /\ man.unmatched # {} /\ UNCHANGED <<call, vaultVars>>
  /\ LET t == CHOOSE t \in man.unmatched : TRUE
         rest == [man EXCEPT !.unmatched = @ \ {t}]
     IN \/ man' = rest
        \/ /\ Candidates(t) # {}
           /\ man' = [rest EXCEPT !.at = "choose", !.match = t, !.options = Candidates(t)]

\* ... and the choice; without one the change stays as it is.
ManChoose ==
  /\ man.at = "choose" /\ UNCHANGED <<call, vaultVars>>
  /\ LET next == [man EXCEPT !.at = "match", !.match = NoId, !.options = {}] IN
     \/ man' = next
     \/ \E m \in LikelyTwo(man.options) :
          man' = [next EXCEPT !.chosen[man.match] = m, !.answered = @ \cup {man.match}]

\* enforce_min_match_rating_changes: by the ratings of the list.  Each target with a
\* change gets it, under its own id and uid; the others fail.
Repair(doc) == [Asked(doc) EXCEPT !.uid = man.docs[doc].uid, !.pairings = "profiled",
                                  !.matches = Enforced(man.chosen[doc], man.docs)]
ManEnforce ==
  /\ man.at = "match" /\ man.unmatched = {} /\ UNCHANGED <<call, vaultVars>>
  /\ man' = [man EXCEPT !.at = "apply", !.failed = Lacking(man.changed),
                        !.list = [p \in DOMAIN @ |-> IF @[p].doc \in man.changed THEN Repair(@[p].doc) ELSE @[p]]]

\* run_manage_apply: the changes are applied as they came.
PlanApproved ==
  /\ man.at = "start" /\ man.kind = "apply" /\ UNCHANGED <<call, vaultVars>>
  /\ man' = [man EXCEPT !.at = "apply"]
-----------------------------------------------------------------------------
\* The changes one after another.
Waiting == DOMAIN man.list \ (man.applied \cup man.failed)
First == CHOOSE p \in Waiting : \A q \in Waiting : p <= q

\* _apply_one: by the change's uid first, else by its id.  A read may fail.
\* A missing uid matches every other missing one.
FoundByNoUid(c) ==
  LET same == {i \in Live : Body(i).uid = c.uid} IN IF same # {} THEN same ELSE {c.doc} \cap Live
Found(c) ==
  LET same == {i \in Live : c.uid # NoUid /\ Body(i).uid = c.uid} IN
  IF same # {} THEN same ELSE {c.doc} \cap Live

Mints(c, body) == c.mint /\ body.uid = NoUid
Carries(c, body) == c.rating # Unnamed \/ c.pairings # Kept \/ Mints(c, body)

Fails(p) == man' = [man EXCEPT !.at = "apply", !.failed = @ \cup {p}]

ManFind ==
  /\ man.at = "apply" /\ Waiting # {} /\ UNCHANGED <<call, vaultVars>>
  /\ \/ Fails(First)
     \/ \E i \in Found(man.list[First]) :
          /\ Carries(man.list[First], Body(i))
          /\ man' = [man EXCEPT !.at = "write", !.item = First, !.found = i, !.rev = records[i].rev, !.body = Body(i)]

\* What a change makes of a body: the note is parsed, nothing is folded first, and
\* nobody looks at ratings of matches here.  A tried pairing has no pairings.
Changed(c, id, body) ==
  LET new == [Parsed(body) EXCEPT !.rating = IF c.rating = Unnamed THEN @ ELSE c.rating,
                                  !.uid = IF Mints(c, body) THEN NewUid ELSE @]
  IN IF c.pairings = Kept \/ ~IsItem(id) THEN new
     ELSE [new EXCEPT !.matches = c.matches, !.profile = c.pairings = "profiled"]
Change == Changed(man.list[man.item], man.found, man.body)

\* Whatever revision is there.
FitsAny == man.found \in Live
Fits == man.found \in Live /\ records[man.found].rev = man.rev

\* update_note: refused when the record has another revision by now, or when the
\* change makes it invalid; the answer may be lost.
ManWrite ==
  /\ man.at = "write" /\ UNCHANGED <<call, others>>
  /\ \/ /\ Fits /\ Valid(man.found, Change)
        /\ Put(man.found, Change)
        /\ LET put == [man EXCEPT !.wrote[man.item] = man.found] IN
           \/ man' = [put EXCEPT !.at = IF Pairings THEN "saved" ELSE "apply",
                                 !.applied = IF Pairings THEN @ ELSE @ \cup {man.item}]
           \/ man' = [put EXCEPT !.at = "apply", !.failed = @ \cup {man.item}]
     \/ Fails(man.item) /\ UNCHANGED <<records, minted, rated>>

\* What was stored is read back, for the page; if that fails the item has failed.
ManSaved ==
  /\ man.at = "saved" /\ UNCHANGED <<call, vaultVars>>
  /\ \/ man' = [man EXCEPT !.at = "apply", !.applied = @ \cup {man.item}]
     \/ Fails(man.item)

ManDone == man.at = "apply" /\ Waiting = {} /\ ManEnds("done") /\ UNCHANGED <<call, vaultVars>>

ManStep ==
  \/ ManBegin \/ ManAnswer \/ ManMatch \/ ManChoose \/ ManEnforce \/ PlanApproved
  \/ ManFind \/ ManWrite \/ ManSaved \/ ManDone
-----------------------------------------------------------------------------
\* Each change is reported once, applied or failed, whatever others do meanwhile;
\* applied means that a record was written: of the pairings page the record itself
\* that was picked, of a plan the one with the change's uid, whatever its id, or
\* else the one with its id (manage_service.py:541).
EveryTargetAnswered ==
  man.outcome = "done" =>
    /\ man.applied \cup man.failed = DOMAIN man.list /\ man.applied \cap man.failed = {}
    /\ \A p \in man.applied :
         LET c == man.list[p]
             id == man.wrote[p]
         IN /\ id \in Ids
            /\ \/ id = c.doc
               \/ ~Pairings /\ c.uid # NoUid /\ (id \in Live => Body(id).uid = c.uid)

\* pairing_match.py:25-27, 78-82: when the matching model does not answer, the
\* matches a record has are kept (those that still may be kept).
RematchKeepsMatches ==
  man.kind = "rematch" =>
    \A p \in man.applied :
      LET c == man.list[p] IN
      c.doc \notin man.answered => Enforced(man.docs[c.doc].matches, man.docs) \subseteq c.matches
=============================================================================
