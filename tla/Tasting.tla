------------------------------ MODULE Tasting -------------------------------
(***************************************************************************)
(* The records as the operations see them, and the rules about them: the   *)
(* note schema (backend/app/schema.py), which side pairs with which        *)
(* (categories.py), which matches stand (pairing_match.py), what a text    *)
(* states (text_facts.py) and whose words a note's are                     *)
(* (capture_service.py).  Ratings are 0 (none) to MaxRating.               *)
(***************************************************************************)
EXTENDS Integers, FiniteSets, SequencesExt

CONSTANTS
  Ids,          \* document ids; an id names its type
  Type,         \* Type[id]
  Gone,         \* no document (yet, or any more)
  MaxRating,
  MinRating     \* min_match_rating

VARIABLES
  records,      \* records[id]: the document's body and revision
  minted,       \* uuid4 never repeats itself: the highest uid there was so far
  others,       \* bound: how many edits other processes may still make
  rated         \* history, rated[id]: id was rated MinRating at some time

vaultVars == <<records, minted, others, rated>>

Companions == {"cigar", "pipe", "chocolate"}
Drinks == {"whisky", "coffee", "beer", "raki"}
ItemTypes == Companions \cup Drinks
Opposite(t) == IF t \in Companions THEN Drinks ELSE IF t \in Drinks THEN Companions ELSE {}
HasAbv == {"whisky", "beer", "raki"}
IsItem(id) == Type[id] \in ItemTypes

\* A match names a record, or something nobody can look up.  The two items of a
\* pairing are kept as its matches.
NameOnly == "name only"
\* Whose words the notes are: nobody's; the user's, verbatim or as the model put
\* them; the model's own, a few of them or a paragraph.
Wordings == {"none", "typed", "said", "short", "long"}

\* The country of origin: unknown, known, or known under its old field only, as in
\* records that were never normalised.
Countries == {"unknown", "old", "known"}

NoUid == 0
BodiesOf(ratings) ==
  [uid : Nat, status : {"tasted", "to-try"}, rating : ratings, abv : {"none", "stated", "guessed"},
   notes : Wordings, common : BOOLEAN, country : Countries, profile : BOOLEAN,
   matches : SUBSET (Ids \cup {NameOnly})]
Bodies == BodiesOf(0..MaxRating)

Body(id) == records[id].body
Live == {id \in Ids : Body(id) # Gone}
Items == {id \in Live : IsItem(id)}
NewUid == minted + 1
Good(body) == body # Gone /\ body.rating >= MinRating

VaultTypeOK ==
  /\ records \in [Ids -> [rev : Nat, body : Bodies \cup {Gone}]]
  /\ minted \in Nat /\ others \in Nat /\ rated \in [Ids -> BOOLEAN]

\* A document is put: what it says replaces what was there.
Put(id, body) ==
  /\ records' = [records EXCEPT ![id] = [rev |-> @.rev + 1, body |-> body]]
  /\ rated' = [rated EXCEPT ![id] = @ \/ Good(body)]
  /\ minted' = IF body # Gone /\ body.uid > minted THEN body.uid ELSE minted

\* parse_any_note drops a field it does not know; _fold_legacy moves its value first.
Parsed(body) == [body EXCEPT !.country = IF @ = "old" THEN "unknown" ELSE @]
Folded(body) == [body EXCEPT !.country = IF @ = "old" THEN "known" ELSE @]

\* Another process saves a rating, saves pairings without matches, or deletes
\* (update_record, delete_record).
OthersEdit ==
  /\ others > 0 /\ others' = others - 1
  /\ \E id \in Live :
       \/ \E r \in 1..MaxRating :
            /\ r # Body(id).rating
            /\ Put(id, [Folded(Body(id)) EXCEPT !.rating = r, !.status = "tasted"])
       \/ Body(id).matches # {} /\ IsItem(id) /\ Put(id, [Folded(Body(id)) EXCEPT !.matches = {}])
       \/ Put(id, Gone)
-----------------------------------------------------------------------------
\* What else parse_any_note refuses.
SameSide(items) ==
  \E a, b \in items : a # b /\ IsItem(a) /\ IsItem(b) /\ Type[a] \notin Opposite(Type[b])
Valid(id, body) ==
  /\ body.rating \in 0..MaxRating
  /\ IsItem(id) => ((body.status = "to-try") => (body.rating = 0))
  /\ ~IsItem(id) => (Cardinality(body.matches) = 2 /\ ~SameSide(body.matches))

\* extract_facts: the first hit that can be a rating; others are skipped.
StatedRating(hits) ==
  LET fit == {i \in DOMAIN hits : hits[i] \in 1..MaxRating} IN
  IF fit = {} THEN 0 ELSE hits[CHOOSE i \in fit : \A j \in fit : i <= j]

\* _drop_fabricated_notes: without impressions there is nothing to transcribe, and
\* a transcription is no longer than what was said.  A few words of the model's
\* own pass beside impressions.
KeepNotes(notes, typed) == IF typed # "impressions" \/ notes = "long" THEN "none" ELSE notes

\* choose_matches: of the records of the other side that are rated MinRating, the
\* matching model's two likeliest, if they are likely enough.
Candidates(id) == {c \in Live : Type[c] \in Opposite(Type[id]) /\ Good(Body(c))}
LikelyTwo(options) == {m \in SUBSET options : Cardinality(m) <= 2}

\* enforce_min_match_rating_changes, by ratings read earlier.
Enforced(matches, docs) == {m \in matches : m # NameOnly /\ Good(docs[m])}
=============================================================================
