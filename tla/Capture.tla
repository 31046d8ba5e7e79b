------------------------------ MODULE Capture -------------------------------
(***************************************************************************)
(* A capture (backend/app/capture_service.py, image_reader.py): the label  *)
(* is read, a model writes the note, a second call fills what it skipped,  *)
(* what the user said is pinned, matches are chosen and checked, and the   *)
(* note is put.  Other processes edit the records meanwhile.               *)
(***************************************************************************)
EXTENDS Tasting, ModelCall

CONSTANTS
  Inputs,      \* [source, stars, hits, abv, typed]: what the user said
  Drafts,      \* <<id, body>>: what a model may make of it
  Nameless     \* the id of a draft without a usable name

VARIABLE cap

capVars == <<cap>>

Places == {"idle", "start", "label", "ask", "answer", "enrich", "ground", "choose", "check",
           "repeat", "write", "end"}
NoInput == [source |-> "none", stars |-> 0, hits |-> <<>>, abv |-> FALSE, typed |-> "nothing"]
NoCapture == [at |-> "idle", input |-> NoInput, vision |-> "none", research |-> "none",
              model |-> "none", id |-> Nameless, note |-> Gone, options |-> {}, unchecked |-> {},
              outcome |-> "none", wrote |-> FALSE]

\* A capture as the worker begins it.
Sources == {"photo", "chat"}
Typed == {"nothing", "impressions", "label"}
Sayings == [source : Sources, stars : 0..MaxRating, hits : Seq(Nat), abv : BOOLEAN, typed : Typed]
CapStart(c) ==
  \E i \in Inputs, v \in Providers \cup {"none"}, r \in Providers \cup {"none"} :
    c = [NoCapture EXCEPT !.at = "start", !.input = i, !.vision = v, !.research = r]

\* A job that raises fails in a phase, which the log names (worker.py:241-252).
Phases == {"unknown", "couchdb_query", "couchdb_write"}

CapTypeOK ==
  cap \in [at : Places, input : Inputs \cup {NoInput}, vision : Providers \cup {"none"},
           research : Providers \cup {"none"}, model : Providers \cup {"none"}, id : Ids \cup {Nameless},
           note : Bodies \cup {Gone}, options : SUBSET Ids, unchecked : SUBSET (Ids \cup {NameOnly}),
           outcome : {"none", "done", "failed"} \cup Phases, wrote : BOOLEAN]

Ended(outcome) == cap' = [cap EXCEPT !.at = "end", !.outcome = outcome]
At(place) == cap' = [cap EXCEPT !.at = place]
Photo == cap.input.source = "photo"
-----------------------------------------------------------------------------
\* read_image, by the vision model alone, if a provider knows it.
CapBegin ==
  /\ cap.at = "start" /\ UNCHANGED vaultVars
  /\ IF Photo /\ cap.vision # "none"
     THEN Call(cap.vision, FALSE, FALSE) /\ cap' = [cap EXCEPT !.at = "label", !.model = cap.research]
     ELSE /\ UNCHANGED call
          /\ cap' = [cap EXCEPT !.at = "ask", !.model = IF Photo THEN cap.vision ELSE cap.research]

\* Without a legible label the vision model does the whole job.  JSON that is not
\* an object fails outside of every try.
CapLabel ==
  /\ cap.at = "label" /\ Answered /\ HangUp /\ UNCHANGED vaultVars
  /\ \/ Returned("list") /\ Ended("unknown")
     \/ Returned("dict") /\ At("ask")
     \/ ~Returned("list") /\ cap' = [cap EXCEPT !.at = "ask", !.model = cap.vision]

CapAsk ==
  /\ cap.at = "ask" /\ UNCHANGED vaultVars
  /\ IF cap.model = "none" THEN Ended("failed") /\ UNCHANGED call
                           ELSE At("answer") /\ Call(cap.model, FALSE, TRUE)
-----------------------------------------------------------------------------
\* _missing_enrichment: what of it is missing, and which of that is fatal.
NoPairings(body) == ~body.profile /\ body.matches = {}
Missing(body) == ~body.common \/ NoPairings(body)
HollowIfBare(body) == ~body.common /\ NoPairings(body)
Hollow(body) == ~body.common

\* The parsed text wins over the slider.
TextFirst(input) ==
  LET said == StatedRating(input.hits) IN IF said # 0 THEN said ELSE input.stars
GivenRating(input) == IF input.stars # 0 THEN input.stars ELSE StatedRating(input.hits)

\* What the user supplied is a fact; the model's notes must be the user's.  A note
\* without a uid is stamped.  Of a tried pairing only the notes are looked at.
Pinned(id, body, input) ==
  LET given == GivenRating(input)
      pin == [body EXCEPT !.status = IF given # 0 THEN "tasted" ELSE @,
                          !.rating = IF given # 0 THEN given ELSE @,
                          !.abv = IF input.abv /\ Type[id] \in HasAbv THEN "stated" ELSE @,
                          !.notes = IF input.source = "photo" /\ input.typed # "nothing"
                                    THEN "typed" ELSE KeepNotes(@, input.typed)]
      rest == [body EXCEPT !.notes = KeepNotes(@, input.typed)]
  IN [(IF IsItem(id) THEN pin ELSE rest) EXCEPT !.uid = IF @ = NoUid THEN NewUid ELSE @]

\* A note that is complete, or hollow.
Settle(id, body) ==
  IF IsItem(id) /\ Hollow(body) THEN Ended("failed")
  ELSE cap' = [cap EXCEPT !.at = IF IsItem(id) THEN "ground" ELSE "write",
                          !.id = id, !.note = Pinned(id, body, cap.input)]

CapAnswer ==
  /\ cap.at = "answer" /\ Answered /\ UNCHANGED vaultVars
  /\ \/ ~Returned("dict") /\ Ended("failed") /\ HangUp
     \/ /\ Returned("dict")
        /\ \E d \in Drafts :
             LET id == d[1]
                 body == d[2]
             IN IF id = Nameless THEN Ended("failed") /\ HangUp
                ELSE IF ~Valid(id, body) THEN Ended("failed") /\ HangUp
                ELSE IF IsItem(id) /\ Missing(body) /\ cap.research # "none"
                THEN /\ Call(cap.research, FALSE, ~body.common)
                     /\ cap' = [cap EXCEPT !.at = "enrich", !.id = id, !.note = body]
                ELSE Settle(id, body) /\ HangUp

\* _fill_enrichment: whatever goes wrong with it leaves the note as it was.
CapEnrich ==
  /\ cap.at = "enrich" /\ Answered /\ HangUp /\ UNCHANGED vaultVars
  /\ \/ Settle(cap.id, cap.note)
     \/ /\ Returned("dict")
        /\ \E common, profile \in BOOLEAN :
             Settle(cap.id, [cap.note EXCEPT !.common = @ \/ common,
                                             !.profile = @ \/ (profile /\ NoPairings(cap.note))])
-----------------------------------------------------------------------------
\* ground_pairing_matches: the candidates as they are now ...
CapGround ==
  /\ cap.at = "ground" /\ UNCHANGED <<call, vaultVars>>
  /\ \/ /\ cap.note.profile /\ Candidates(cap.id) # {}
        /\ cap' = [cap EXCEPT !.at = "choose", !.options = Candidates(cap.id)]
     \/ cap' = [cap EXCEPT !.at = "check", !.unchecked = cap.note.matches]

\* ... then the matching model's choice; a failure leaves the note's matches.
CapChoose ==
  /\ cap.at = "choose" /\ UNCHANGED <<call, vaultVars>>
  /\ \E m \in LikelyTwo(cap.options) \cup {cap.note.matches} :
       cap' = [cap EXCEPT !.at = "check", !.note.matches = m, !.unchecked = m, !.options = {}]

\* A failed check keeps what it had.
CheckKeeps ==
  /\ cap.at = "check" /\ UNCHANGED <<call, vaultVars>>
  /\ \/ cap.unchecked = {} /\ At("repeat")
     \/ \E m \in cap.unchecked :
          cap' = [cap EXCEPT !.unchecked = @ \ {m},
                             !.note.matches = IF m # NameOnly /\ Good(Body(m)) THEN @ ELSE @ \ {m}]
     \/ cap.unchecked # {} /\ cap' = [cap EXCEPT !.at = "repeat", !.unchecked = {}]

\* enforce_min_match_rating reads them one by one; a read that fails drops all.
CapCheck ==
  /\ cap.at = "check" /\ UNCHANGED <<call, vaultVars>>
  /\ \/ cap.unchecked = {} /\ At("repeat")
     \/ \E m \in cap.unchecked :
          cap' = [cap EXCEPT !.unchecked = @ \ {m},
                             !.note.matches = IF m # NameOnly /\ Good(Body(m)) THEN @ ELSE @ \ {m}]
     \/ cap.unchecked # {} /\ cap' = [cap EXCEPT !.at = "repeat", !.unchecked = {}, !.note.matches = {}]

\* _deterministic_repeat_check: a query, for the answer only; it may fail.
CapRepeat ==
  /\ cap.at = "repeat" /\ UNCHANGED <<call, vaultVars>>
  /\ At("write") \/ Ended("couchdb_query")

\* write_note: a PUT without a revision, which an existing document refuses; its
\* answer may be lost.
CapWrite ==
  /\ cap.at = "write" /\ UNCHANGED <<call, others>>
  /\ \/ /\ cap.id \notin Live /\ Put(cap.id, cap.note)
        /\ \E outcome \in {"done", "couchdb_write"} :
             cap' = [cap EXCEPT !.at = "end", !.outcome = outcome, !.wrote = TRUE]
     \/ Ended("couchdb_write") /\ UNCHANGED <<records, minted, rated>>

CapStep ==
  \/ CapBegin \/ CapLabel \/ CapAsk \/ CapAnswer \/ CapEnrich
  \/ CapGround \/ CapChoose \/ CapCheck \/ CapRepeat \/ CapWrite
-----------------------------------------------------------------------------
\* How a capture ends and what is in the database fit together: done means that its
\* note was stored; a capture that failed stored nothing and may be retried
\* (capture_service.py:9-13), nor did a job that failed in any phase but the write,
\* of which only the answer may be lost; and whichever way it ended, what was stored
\* is never hollow.
AnswerTellsTheTruth ==
  /\ cap.outcome = "done" => cap.wrote
  /\ cap.wrote => cap.outcome \in {"done", "couchdb_write"}
  /\ cap.wrote /\ IsItem(cap.id) => cap.note.common

\* Whatever the models make of a capture, the rating, the strength and the words of
\* the stored note are those the user gave (capture_service.py:356-372, 512-520).
UserWordsKept ==
  cap.wrote /\ IsItem(cap.id) =>
    LET said == cap.input
        note == cap.note
        stated == {n \in ToSet(said.hits) : n \in 1..MaxRating}
    IN /\ said.stars # 0 => note.rating = said.stars
       /\ said.stars = 0 /\ stated # {} => note.rating \in stated
       /\ note.rating # 0 => note.status = "tasted"
       /\ said.abv /\ Type[cap.id] \in HasAbv => note.abv = "stated"
       /\ said.source = "photo" /\ said.typed # "nothing" => note.notes = "typed"
       /\ said.typed = "nothing" => note.notes = "none"
       /\ note.notes # "long"
=============================================================================
