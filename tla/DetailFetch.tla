---------------------------- MODULE DetailFetch -----------------------------
(***************************************************************************)
(* Looking up the details of a record (backend/app/detail_fetch.py): one   *)
(* worker for each field, some at a time; then the evidence of each value  *)
(* against its page; then a reviewer's verdicts; then what is recommended. *)
(* Nothing is written.                                                     *)
(***************************************************************************)
EXTENDS Tasting, ModelCall

CONSTANTS
  Fields,       \* the fetchable fields of the record's type
  Concurrency   \* _WORKER_CONCURRENCY

VARIABLE det

detVars == <<det>>

\* Why a value cannot stand: it is not of the field's kind, has no page or no quote,
\* says more than its quote, or makes the note invalid.
Defects == {"uncoercible", "unsourced", "overstated", "invalid"}
\* What a worker brings: an error, JSON that is not an object, nothing found, a value
\* with a defect, a sound one, or the value that is there.
Finds == {"error", "list", "notfound", "sound", "same"} \cup Defects
Pages == {"unread", "unfetched", "quoted", "unquoted"}
Verdicts == {"none", "ok", "doubtful", "unchecked"}

NoDetails == [at |-> "idle", doc |-> "none", model |-> "none", reviewer |-> "none",
              filled |-> {}, todo |-> {}, running |-> {},
              found |-> [f \in Fields |-> "waiting"], page |-> [f \in Fields |-> "unread"],
              said |-> [f \in Fields |-> "none"], identity |-> "unasked",
              recommended |-> {}, outcome |-> "none"]

\* A fetch about one record, of which some fields are filled.
DetStart(d) ==
  \E id \in Ids, filled \in SUBSET Fields, m \in Providers \cup {"none"}, r \in Providers \cup {"none"} :
    d = [NoDetails EXCEPT !.at = "start", !.doc = id, !.filled = filled, !.model = m, !.reviewer = r]

DetTypeOK ==
  /\ det \in [at : {"idle", "start", "work", "evidence", "review", "end"}, doc : Ids \cup {"none"},
              model : Providers \cup {"none"}, reviewer : Providers \cup {"none"},
              filled : SUBSET Fields, todo : SUBSET Fields, running : SUBSET Fields,
              found : [Fields -> Finds \cup {"waiting"}], page : [Fields -> Pages],
              said : [Fields -> Verdicts], identity : {"unasked", "yes", "no", "unsure"},
              recommended : SUBSET Fields, outcome : {"none", "done", "raised"}]
  /\ Cardinality(det.running) <= Concurrency

DetEnds(outcome) == det' = [det EXCEPT !.at = "end", !.outcome = outcome]
-----------------------------------------------------------------------------
\* fetch_details reads the record once.  What is asked for by name and already
\* filled is skipped, unless it is to be overwritten.
DetBegin ==
  /\ det.at = "start" /\ UNCHANGED <<call, vaultVars>>
  /\ IF det.doc \notin Live THEN DetEnds("raised")
     ELSE \E asked \in SUBSET Fields, overwrite \in BOOLEAN :
            LET todo == IF overwrite THEN asked ELSE asked \ det.filled IN
            IF todo = {} THEN DetEnds("done") ELSE det' = [det EXCEPT !.at = "work", !.todo = todo]

\* The semaphore.
DetTake(f) ==
  /\ det.at = "work" /\ f \in det.todo \ det.running /\ det.found[f] = "waiting"
  /\ Cardinality(det.running) < Concurrency
  /\ det' = [det EXCEPT !.running = @ \cup {f}]
  /\ UNCHANGED <<call, vaultVars>>

\* A slot that an error keeps.
DetFoundLeaks(f) ==
  /\ det.at = "work" /\ f \in det.running
  /\ \E found \in Finds :
       /\ det.model = "none" => found = "error"
       /\ found = "same" => f \in det.filled
       /\ LET out == [det.found EXCEPT ![f] = found] IN
          det' = [det EXCEPT !.running = IF found = "error" THEN @ ELSE @ \ {f}, !.found = out,
                    !.at = IF \E g \in det.todo : out[g] = "waiting" THEN @ ELSE "evidence"]
  /\ UNCHANGED <<call, vaultVars>>

\* _work_one: a call of its own (ModelCall); an unknown model is an error.
DetFound(f) ==
  /\ det.at = "work" /\ f \in det.running
  /\ \E found \in Finds :
       /\ det.model = "none" => found = "error"
       /\ found = "same" => f \in det.filled
       /\ LET out == [det.found EXCEPT ![f] = found] IN
          det' = [det EXCEPT !.running = @ \ {f}, !.found = out,
                    !.at = IF \E g \in det.todo : out[g] = "waiting" THEN @ ELSE "evidence"]
  /\ UNCHANGED <<call, vaultVars>>
-----------------------------------------------------------------------------
\* What the evidence is worth, once the page was read.
HasPage(found) == found \in {"sound", "same"}
Evidence(f) ==
  LET found == det.found[f] IN
  IF found \in {"error", "notfound"} THEN found
  ELSE IF found \in Defects \/ det.page[f] = "unquoted" THEN "rejected"
  ELSE IF found = "same" THEN "unchanged"
  ELSE IF det.page[f] = "quoted" THEN "verified" ELSE "unverified"

Unread == {f \in det.todo : HasPage(det.found[f]) /\ det.page[f] = "unread"}
Surviving == {f \in det.todo : Evidence(f) \in {"verified", "unverified"}}

\* The worker's answers in turn: one that is not an object ends the fetch, a value
\* without a defect has its page read.
DetPage ==
  /\ det.at = "evidence" /\ UNCHANGED <<call, vaultVars>>
  /\ \/ (\E f \in det.todo : det.found[f] = "list") /\ DetEnds("raised")
     \/ /\ \A f \in det.todo : det.found[f] # "list"
        /\ Unread # {}
        /\ \E page \in Pages \ {"unread"} :
             det' = [det EXCEPT !.page[CHOOSE f \in Unread : TRUE] = page]

\* The reviewer sees what survived; without a provider it fails.
DetReview ==
  /\ det.at = "evidence" /\ UNCHANGED vaultVars
  /\ Unread = {} /\ \A f \in det.todo : det.found[f] # "list"
  /\ det' = [det EXCEPT !.at = "review"]
  /\ IF Surviving # {} /\ det.reviewer # "none" THEN Call(det.reviewer, FALSE, FALSE) ELSE UNCHANGED call

\* A verdict on another product is no verdict.
KeepVerdict(verdict, identity) == verdict
Verdict(verdict, identity) == IF identity = "no" /\ verdict = "ok" THEN "doubtful" ELSE verdict

Recommended(said, identity) ==
  {f \in Surviving : Evidence(f) = "verified" /\ Verdict(said[f], identity) = "ok" /\ f \notin det.filled}

Reviewed(said, identity) ==
  det' = [det EXCEPT !.at = "end", !.outcome = "done", !.said = said, !.identity = identity,
                     !.recommended = Recommended(said, identity)]
Unchecked == [f \in Fields |-> IF f \in Surviving THEN "unchecked" ELSE "none"]

\* The verdicts, or none: a review that fails leaves the evidence.
DetVerdict ==
  /\ det.at = "review" /\ UNCHANGED vaultVars
  /\ \/ /\ call = NoCall /\ UNCHANGED call
        /\ Reviewed(Unchecked, "unasked")
     \/ /\ Answered /\ HangUp
        /\ \/ \E identity \in {"unasked", "yes", "no", "unsure"} : Reviewed(Unchecked, identity)
           \/ /\ Returned("dict")
              /\ \E said \in [Surviving -> {"ok", "doubtful", "unchecked"}], identity \in {"yes", "no", "unsure"} :
                   Reviewed([f \in Fields |-> IF f \in Surviving THEN said[f] ELSE "none"], identity)

DetStep == DetBegin \/ (\E f \in Fields : DetTake(f) \/ DetFound(f)) \/ DetPage \/ DetReview \/ DetVerdict
-----------------------------------------------------------------------------
\* What a person is offered to accept unseen is proven: the value is all in a quote,
\* the quote was found on its page, the reviewer said ok of it and did not say that
\* it is another product, and it fills a gap (detail_fetch.py:489-494).
ProposalsProven ==
  \A f \in det.recommended :
    /\ f \in det.todo \ det.filled
    /\ det.found[f] = "sound" /\ det.page[f] = "quoted"
    /\ det.said[f] = "ok" /\ det.identity \notin {"no", "unasked"}
=============================================================================
