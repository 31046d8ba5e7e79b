---------------------------- MODULE MCOperations ----------------------------
(* One operation of each sort: captures of every sort of input, on models     *)
(* known and unknown; fetches of details; maintenance and advice.             *)
EXTENDS Operations

CONSTANTS w, f, cigar, x

MCType == [id \in Ids |-> CASE id = w -> "whisky" [] id = f -> "coffee" [] id = cigar -> "cigar" [] OTHER -> "pairing"]

Blank == [uid |-> NoUid, status |-> "tasted", rating |-> 0, abv |-> "none", notes |-> "none",
          common |-> TRUE, country |-> "known", profile |-> TRUE, matches |-> {}]
Rated(uid, rating) == [Blank EXCEPT !.uid = uid, !.rating = rating]

MCInputs == {[source |-> "photo", stars |-> 2, hits |-> <<1>>, abv |-> FALSE, typed |-> "impressions"],
             [source |-> "photo", stars |-> 1, hits |-> <<>>, abv |-> FALSE, typed |-> "nothing"],
             [source |-> "chat", stars |-> 0, hits |-> <<3, 2>>, abv |-> TRUE, typed |-> "impressions"],
             [source |-> "chat", stars |-> 0, hits |-> <<>>, abv |-> FALSE, typed |-> "label"]}

MCDrafts ==
  {<<cigar, [Blank EXCEPT !.rating = 1, !.abv = "none", !.notes = "long", !.matches = {w, f, NameOnly}]>>,
   <<cigar, [Blank EXCEPT !.status = "to-try", !.notes = "short", !.common = FALSE, !.matches = {f}, !.profile = FALSE]>>,
   <<cigar, [Blank EXCEPT !.notes = "said", !.profile = FALSE]>>,
   <<cigar, [Blank EXCEPT !.status = "to-try", !.rating = 1]>>, <<cigar, [Blank EXCEPT !.rating = 3]>>,
   <<w, [Blank EXCEPT !.abv = "guessed"]>>,
   <<x, [Blank EXCEPT !.notes = "said", !.matches = {w, cigar}]>>, <<x, [Blank EXCEPT !.matches = {w, f}]>>,
   <<Nameless, Blank>>}

MCGuesses == {{}, {w}, {w, f, NameOnly}}
MCActions == {<<"fetch_details", {w, x}>>, <<"rematch_pairings", {x}>>, <<"delete", {w}>>}

\* Matches of the past were well rated then.
Past(bodies) == [id \in Ids |-> \/ Good(bodies[id])
                                \/ \E i \in Ids : bodies[i] # Gone /\ IsItem(i) /\ id \in bodies[i].matches]
Scene(bodies, edits) == [bodies |-> bodies, minted |-> 2, rated |-> Past(bodies), others |-> edits,
                         cap |-> NoCapture, det |-> NoDetails, man |-> NoWork, con |-> NoConsult]
Bar == [id \in Ids |-> CASE id = w -> Rated(1, 2) [] id = f -> Rated(2, 1) [] OTHER -> Gone]
Full == [id \in Ids |-> CASE id = w -> Rated(1, 2) [] id = f -> Rated(2, 2)
                          [] id = cigar -> [Blank EXCEPT !.matches = {w}]
                          [] OTHER -> [Blank EXCEPT !.matches = {w, cigar}]]
Faded == [Full EXCEPT ![f].rating = 1, ![cigar].matches = {w, f}]

Capture(input, vision, research, edits) ==
  [Scene(Bar, edits) EXCEPT !.cap = [NoCapture EXCEPT !.at = "start", !.input = input,
                                       !.vision = vision, !.research = research]]
Captures == {Capture(i, "openrouter", "mistral", 2) : i \in MCInputs}
            \cup {Capture(i, v, r, 0) : i \in MCInputs, v \in Providers \cup {"none"}, r \in {"openrouter", "none"}}

Details(doc, filled, model, reviewer) ==
  [Scene(Bar, 0) EXCEPT !.det = [NoDetails EXCEPT !.at = "start", !.doc = doc, !.filled = filled,
                                    !.model = model, !.reviewer = reviewer]]
Fetches == {Details(w, {"abv"}, "openrouter", "openrouter"), Details(w, {}, "openrouter", "none"),
            Details(w, {}, "none", "mistral"), Details(cigar, {}, "openrouter", "none")}

\* Jobs about the records; a plan may give one record two changes, or name one by
\* the uid of another.
Job(bodies, kind, list, model) ==
  [Scene(bodies, 2) EXCEPT !.man = [NoWork EXCEPT !.at = "start", !.kind = kind, !.list = list, !.model = model]]
Rates(id, uid, rating) == [Asked(id) EXCEPT !.uid = uid, !.rating = rating]
Pairs(id, matches) == [Asked(id) EXCEPT !.pairings = "bare", !.matches = matches]
Mint(id) == [Asked(id) EXCEPT !.mint = TRUE]
Aged == [Full EXCEPT ![cigar].country = "old", ![f].country = "old"]

Rematch == {Job(Full, "rematch", <<Asked(cigar)>>, "none")}
PlanPairs == {Job(Faded, "apply", <<Pairs(cigar, {f, NameOnly}), Asked(w)>>, "none")}
PlanAged == {Job(Aged, "apply", <<Rates(cigar, 2, 1), Mint(cigar)>>, "none")}
Jobs == Rematch \cup PlanPairs \cup PlanAged \cup
        {Job(Full, "regenerate", <<Asked(cigar), Asked(w), Asked(x)>>, "mistral"),
         Job(Full, "rematch", <<Asked(f), Asked(cigar)>>, "none"),
         Job(Full, "apply", <<Rates(cigar, 0, 3), Mint(x), Rates(cigar, 0, 2)>>, "none")}

Advice(kind, photo, vision, model) ==
  [Scene(Full, 1) EXCEPT !.con = [NoConsult EXCEPT !.at = "start", !.kind = kind, !.photo = photo,
                                    !.vision = vision, !.model = model]]
Advices == {Advice("lookup", p, v, m) : p \in BOOLEAN, v, m \in Providers \cup {"none"}}
           \cup {Advice(k, FALSE, "none", m) : k \in {"chat", "plan"}, m \in {"openrouter", "none"}}

MCScenes == Captures \cup Fetches \cup Jobs \cup Advices
MCRematch == Rematch
=============================================================================
