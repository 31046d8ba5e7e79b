-------------------------- MODULE OperationsProofs ---------------------------
(***************************************************************************)
(* Proofs about an operation on the records: its types, what a capture     *)
(* stores and says, which matches are ever stored, what a fetch of details *)
(* proposes, and that a maintenance job writes the records it was asked    *)
(* for and nothing of theirs but its change.                               *)
(***************************************************************************)
EXTENDS Operations, FiniteSetTheorems, TLAPS

(* The inductive invariant, part by part.                                  *)

\* A request is within its rounds; a chat may follow a whole conversation.
CallInv ==
  call.at = "ask" =>
    /\ call.surface \in Surfaces
    /\ call.surface = "openrouter" => call.asked = call.rounds /\ call.rounds < MaxRounds
    /\ call.surface = "conversation" => call.asked = call.rounds
    /\ call.surface = "chat" => call.rounds < MaxRounds /\ call.asked <= MaxRounds + 1 + call.rounds

\* At most one operation was begun.
OneOperation ==
  /\ cap # NoCapture => det = NoDetails /\ man = NoWork /\ con = NoConsult
  /\ det # NoDetails => man = NoWork /\ con = NoConsult
  /\ man # NoWork => con = NoConsult

\* Matches that may be stored: well rated at some time, or approved by a person.
WereGood(matches) == \A m \in matches : m \in Ids /\ rated[m]
MayStand(matches) == \A m \in matches : (m \in Ids /\ rated[m]) \/ m \in Approved

\* What is well rated now was so at some time, and so were stored matches.
VaultInv == (\A id \in Ids : Good(Body(id)) => rated[id]) /\ MatchesWereGood

\* What the user said, kept in a note.
Obeys(id, note, said) ==
  LET stated == {n \in ToSet(said.hits) : n \in 1..MaxRating} IN
  /\ said.stars # 0 => note.rating = said.stars
  /\ said.stars = 0 /\ stated # {} => note.rating \in stated
  /\ note.rating # 0 => note.status = "tasted"
  /\ said.abv /\ Type[id] \in HasAbv => note.abv = "stated"
  /\ said.source = "photo" /\ said.typed # "nothing" => note.notes = "typed"
  /\ said.typed = "nothing" => note.notes = "none"
  /\ note.notes # "long"

\* A capture: it has a note from the answer on, pinned once it is complete; its
\* matches are rated as far as they are checked; nothing is said before the end.
Noted == {"enrich", "ground", "choose", "check", "repeat", "write"}
CapInv ==
  /\ cap.at # "idle" => cap.input \in Inputs
  /\ cap.at # "end" => cap.outcome = "none" /\ ~cap.wrote
  /\ cap.at \in Noted => cap.id \in Ids /\ cap.note \in Bodies
  /\ cap.at = "enrich" => Valid(cap.id, cap.note)
  /\ cap.at \in {"ground", "choose", "check", "repeat"} => IsItem(cap.id)
  /\ (cap.at \in Noted \ {"enrich"} \/ cap.wrote) /\ IsItem(cap.id) =>
       cap.note.common /\ Obeys(cap.id, cap.note, cap.input)
  /\ cap.at = "check" => WereGood(cap.note.matches \ cap.unchecked)
  /\ cap.at \in {"repeat", "write"} /\ IsItem(cap.id) => WereGood(cap.note.matches)
  /\ AnswerTellsTheTruth

\* A fetch of details: only a value without a defect has its page read.
DetInv ==
  /\ det.at # "end" => det.recommended = {}
  /\ \A g \in Fields : det.page[g] # "unread" => det.at \notin {"idle", "start", "work"} /\ HasPage(det.found[g])
  /\ ProposalsProven

\* Maintenance: a change that is applied wrote the record that answers it ...
Answers(p) ==
  LET c == man.list[p]
      id == man.wrote[p]
  IN /\ id \in Ids
     /\ id = c.doc \/ (~Pairings /\ c.uid # NoUid /\ (id \in Live => Body(id).uid = c.uid))

\* ... each change has failed, or is applied, or waits ...
Known(t) == man.docs[t] # Gone
Working == {"apply", "write", "saved"}
Accounted ==
  /\ man.at # "end" => man.outcome = "none"
  /\ man.at \in {"answer", "match", "choose"} \cup Working \/ man.outcome = "done" =>
       man.applied \cup man.failed \subseteq DOMAIN man.list /\ man.applied \cap man.failed = {}
  /\ man.at \in {"start", "answer", "match", "choose"} => man.applied = {}
  /\ man.at = "start" => man.failed = {} /\ man.changed = {}
  /\ man.at \in {"write", "saved"} => man.item \in Waiting
  /\ man.at = "saved" => Answers(man.item)
  /\ \A p \in man.applied : Answers(p)
  /\ man.outcome = "done" => man.applied \cup man.failed = DOMAIN man.list

\* ... a change of the pairings page names a record of the list by its id and uid,
\* with matches that are well rated ...
Sound(p) ==
  LET c == man.list[p] IN
  /\ c.doc \in Ids /\ Known(c.doc) /\ c.uid = man.docs[c.doc].uid
  /\ WereGood(c.matches)

\* ... and what is read answers its change, and is either still there or has another
\* revision by now.
ReadInv ==
  /\ man.found \in Ids /\ man.body \in Bodies /\ man.body # Gone
  /\ LET c == man.list[man.item] IN man.found = c.doc \/ (~Pairings /\ c.uid # NoUid /\ man.body.uid = c.uid)
  /\ IsItem(man.found) => MayStand(man.body.matches)
  /\ man.rev <= records[man.found].rev
  /\ man.rev = records[man.found].rev => Body(man.found) = man.body
ManInv ==
  /\ Accounted
  /\ man.at \in {"answer", "match", "choose"} => Pairings /\ \A t \in man.changed : Known(t)
  /\ man.at = "choose" => man.match \in Ids
  /\ man.at # "idle" => man.kind \in Kinds
  /\ man.at # "idle" /\ Pairings => \A p \in DOMAIN man.list : man.list[p].doc \in Ids
  /\ \A m \in Ids : Good(man.docs[m]) => rated[m]
  /\ man.at \in Working /\ Pairings => \A p \in DOMAIN man.list \ man.failed : Sound(p)
  /\ man.at = "write" => ReadInv

\* Maintenance alone tells the records by their uids: no two share one, and nobody
\* has the uid of a record of the list but that record.
UidInv ==
  man # NoWork =>
    /\ \A i \in Live : Body(i).uid <= minted /\ \A j \in Live : Body(i).uid = Body(j).uid => i = j \/ Body(i).uid = NoUid
    /\ \A t \in Ids : Known(t) =>
         man.docs[t].uid <= minted /\ \A i \in Live : Body(i).uid = man.docs[t].uid => i = t \/ man.docs[t].uid = NoUid

IInv == TypeOK /\ CallInv /\ OneOperation /\ VaultInv /\ CapInv /\ DetInv /\ ManInv /\ UidInv

-----------------------------------------------------------------------------
(* Calls of a model.                                                       *)

\* The constants' kinds.
LEMMA Numbers == MaxRating \in Nat /\ MinRating \in Nat /\ MinRating >= 1 /\ MaxRounds \in Nat /\ MaxRounds >= 1
BY OperationsAssumption

\* An idle call.
LEMMA HungUp ==
  ASSUME HangUp
  PROVE  CallTypeOK' /\ CallInv'
BY Numbers DEF HangUp, NoCall, CallTypeOK, CallInv

\* A call begins: no round yet.
LEMMA Calling ==
  ASSUME NEW p \in Providers, NEW l \in BOOLEAN, NEW s \in BOOLEAN, Call(p, l, s)
  PROVE  CallTypeOK' /\ CallInv'
<1> DEFINE where == IF p = "openrouter" THEN "openrouter" ELSE IF l \/ s THEN "conversation" ELSE "chat"
<1>1. call' = [at |-> "ask", surface |-> where, lookup |-> l, search |-> s, rounds |-> 0, asked |-> 0, result |-> "none"]
  BY DEF Call, NoCall
<1>2. where \in Surfaces
  BY DEF Surfaces
<1> HIDE DEF where
<1> QED
  BY <1>1, <1>2, Numbers DEF CallTypeOK, CallInv

\* A note with other matches is a note.
LEMMA OtherMatches ==
  ASSUME NEW note \in Bodies, NEW m \in SUBSET (Ids \cup {NameOnly})
  PROVE  [note EXCEPT !.matches = m] \in Bodies
BY DEF Bodies, BodiesOf

\* The numbers of a request within bounds, the call is of its type.
LEMMA Counting ==
  ASSUME CallTypeOK, NEW n \in 0..(2 * MaxRounds + 1), NEW m \in 0..MaxRounds, NEW r \in Results,
         \/ call' = [call EXCEPT !.at = "end", !.asked = n, !.result = r]
         \/ call' = [call EXCEPT !.rounds = m, !.asked = n]
         \/ call' = [call EXCEPT !.surface = "chat", !.search = FALSE, !.rounds = m, !.asked = n]
  PROVE  CallTypeOK'
<1> DEFINE N == 0..(2 * MaxRounds + 1)
           M == 0..MaxRounds
<1>1. n \in N /\ m \in M
  OBVIOUS
<1> USE DEF CallTypeOK, Surfaces
<1> HIDE DEF N, M
<1>2. CASE call' = [call EXCEPT !.at = "end", !.asked = n, !.result = r]
  BY <1>1, <1>2
<1>3. CASE call' = [call EXCEPT !.rounds = m, !.asked = n]
  BY <1>1, <1>3
<1>4. CASE call' = [call EXCEPT !.surface = "chat", !.search = FALSE, !.rounds = m, !.asked = n]
  BY <1>1, <1>4
<1> QED
  BY <1>2, <1>3, <1>4

\* The rounds of a call, and the requests they make, are bounded.
LEMMA CallMoves ==
  ASSUME CallTypeOK, CallInv, CallStep
  PROVE  CallTypeOK' /\ CallInv'
<1> DEFINE n == call.asked + 1
           m == call.rounds + 1
<1> USE Numbers
<1>1. call.rounds \in Nat /\ call.rounds <= MaxRounds /\ call.asked \in Nat /\ call.asked <= 2 * MaxRounds + 1
  BY DEF CallTypeOK
<1>2. call.at = "ask" =>
        /\ call.surface \in Surfaces
        /\ n <= 2 * MaxRounds + 1 \/ call.surface = "conversation"
        /\ call.surface = "conversation" => n = m
  BY <1>1 DEF CallInv, Surfaces
<1>3. ASSUME NEW r \in Results, Ends(r), n <= 2 * MaxRounds + 1 PROVE CallTypeOK' /\ CallInv'
  <2>1. call' = [call EXCEPT !.at = "end", !.asked = n, !.result = r]
    BY <1>3 DEF Ends
  <2>2. n \in 0..(2 * MaxRounds + 1) /\ 0 \in 0..MaxRounds
    BY <1>1, <1>3
  <2>3. CallTypeOK'
    BY <2>1, <2>2, Counting
  <2>4. call'.at = "end"
    BY <2>1 DEF CallTypeOK
  <2> QED
    BY <2>3, <2>4 DEF CallInv
<1>4. ASSUME NEW reply PROVE Read(reply) \in Results
  BY DEF Read, Results
<1>5. "text" \in Results /\ "unusable" \in Results /\ "error" \in Results
  BY DEF Results
<1>6. CutOff => \E r \in Results : Ends(r)
  BY <1>5 DEF CutOff
<1>7. CASE KeyMissing
  BY <1>1, <1>7 DEF KeyMissing, CallTypeOK, CallInv, Results
<1>11. ASSUME AsksAgain
       PROVE  /\ call' = [call EXCEPT !.rounds = m, !.asked = n]
              /\ call'.surface = call.surface /\ call'.rounds = m /\ call'.asked = n
  BY <1>11 DEF AsksAgain, CallTypeOK
<1>8. CASE OpenRouterTurn
  <2>1. call.at = "ask" /\ call.surface = "openrouter" /\ n <= 2 * MaxRounds + 1 /\ n = m
    BY <1>2, <1>8 DEF OpenRouterTurn, Asking, CallInv
  <2>2. CASE m < MaxRounds /\ AsksAgain
    <3>1. n \in 0..(2 * MaxRounds + 1) /\ m \in 0..MaxRounds
      BY <1>1, <2>1, <2>2
    <3>2. CallTypeOK'
      BY <1>5, <1>11, <2>2, <3>1, Counting
    <3> QED
      BY <1>11, <2>1, <2>2, <3>2 DEF CallInv, Surfaces
  <2>3. CASE \E r \in Results : Ends(r)
    BY <1>3, <2>1, <2>3
  <2> QED
    BY <1>4, <1>5, <1>6, <1>8, <2>2, <2>3 DEF OpenRouterTurn
<1>9. CASE ChatTurn
  <2>1. call.at = "ask" /\ call.surface = "chat" /\ n <= 2 * MaxRounds + 1 /\ call.asked <= MaxRounds + 1 + call.rounds
    BY <1>2, <1>9 DEF ChatTurn, Asking, CallInv
  <2>2. CASE m < MaxRounds /\ AsksAgain
    <3>1. n \in 0..(2 * MaxRounds + 1) /\ m \in 0..MaxRounds
      BY <1>1, <2>1, <2>2
    <3>2. CallTypeOK'
      BY <1>5, <1>11, <2>2, <3>1, Counting
    <3>3. n <= MaxRounds + 1 + m
      BY <1>1, <2>1
    <3> HIDE DEF n, m
    <3> QED
      BY <1>11, <2>1, <2>2, <3>2, <3>3 DEF CallInv, Surfaces
  <2>3. CASE \E r \in Results : Ends(r)
    BY <1>3, <2>1, <2>3
  <2> QED
    BY <1>4, <1>5, <1>6, <1>9, <2>2, <2>3 DEF ChatTurn
<1>10. CASE ConversationTurn
  <2>1. call.at = "ask" /\ call.surface = "conversation" /\ n = m /\ m <= MaxRounds + 1
    BY <1>1, <1>2, <1>10 DEF ConversationTurn, Asking
  <2>2. CASE call.rounds < MaxRounds /\ AsksAgain
    <3>1. n \in 0..(2 * MaxRounds + 1) /\ m \in 0..MaxRounds
      BY <1>1, <2>1, <2>2
    <3>2. CallTypeOK'
      BY <1>5, <1>11, <2>2, <3>1, Counting
    <3>3. call'.surface = "conversation" /\ call'.rounds = call'.asked
      BY <1>11, <2>1, <2>2
    <3> QED
      BY <3>2, <3>3 DEF CallInv, Surfaces
  <2>3. CASE call.rounds < MaxRounds /\ \E r \in Results : Ends(r)
    <3>1. n <= 2 * MaxRounds + 1
      BY <1>1, <2>1
    <3> QED
      BY <1>3, <2>3, <3>1
  <2>4. CASE FallBack
    <3>1. n \in 0..(2 * MaxRounds + 1) /\ 0 \in 0..MaxRounds /\ n <= MaxRounds + 1 + 0
      BY <1>1, <2>1
    <3>2. call' = [call EXCEPT !.surface = "chat", !.search = FALSE, !.rounds = 0, !.asked = n]
      BY <2>4 DEF FallBack
    <3>3. CallTypeOK'
      BY <1>5, <3>1, <3>2, Counting
    <3>4. call'.surface = "chat" /\ call'.rounds = 0 /\ call'.asked = n
      BY <3>2 DEF CallTypeOK
    <3> QED
      BY <3>1, <3>3, <3>4 DEF CallInv, Surfaces
  <2> QED
    BY <1>4, <1>10, <2>2, <2>3, <2>4 DEF ConversationTurn
<1> QED
  BY <1>7, <1>8, <1>9, <1>10 DEF CallStep

-----------------------------------------------------------------------------
(* Putting a record.                                                       *)

\* What is put is there, with the next revision; the other records stay.
LEMMA Putting ==
  ASSUME VaultTypeOK, NEW id \in Ids, NEW body \in Bodies \cup {Gone}, Put(id, body)
  PROVE  /\ records' \in [Ids -> [rev : Nat, body : Bodies \cup {Gone}]]
         /\ rated' \in [Ids -> BOOLEAN] /\ minted' \in Nat /\ minted <= minted'
         /\ records'[id].rev = records[id].rev + 1 /\ records'[id].body = body
         /\ \A j \in Ids : j # id => records'[j] = records[j]
         /\ \A j \in Ids : rated[j] => rated'[j]
         /\ Good(body) => rated'[id]
         /\ body # Gone => body.uid <= minted'
<1>1. /\ records \in [Ids -> [rev : Nat, body : Bodies \cup {Gone}]] /\ records[id].rev + 1 \in Nat
      /\ rated \in [Ids -> BOOLEAN] /\ minted \in Nat
  BY DEF VaultTypeOK
<1>2. records' = [records EXCEPT ![id] = [rev |-> records[id].rev + 1, body |-> body]]
  BY DEF Put
<1>3. rated' = [rated EXCEPT ![id] = rated[id] \/ Good(body)]
  BY DEF Put
<1>4. /\ records' \in [Ids -> [rev : Nat, body : Bodies \cup {Gone}]]
      /\ records'[id].rev = records[id].rev + 1 /\ records'[id].body = body
      /\ \A j \in Ids : j # id => records'[j] = records[j]
  <2> DEFINE n == records[id].rev + 1
  <2>1. n \in Nat
    BY <1>1
  <2> HIDE DEF n
  <2> QED
    BY <1>1, <1>2, <2>1 DEF n
<1>5. /\ rated' \in [Ids -> BOOLEAN]
      /\ \A j \in Ids : rated[j] => rated'[j]
      /\ Good(body) => rated'[id]
  <2>1. (rated[id] \/ Good(body)) \in BOOLEAN
    BY Zenon
  <2> QED
    BY <1>1, <1>3, <2>1, Zenon
<1>6. body # Gone => body.uid \in Nat
  BY DEF Bodies, BodiesOf
<1>7. minted' \in Nat /\ minted <= minted' /\ (body # Gone => body.uid <= minted')
  BY <1>1, <1>6 DEF Put
<1> QED
  BY <1>4, <1>5, <1>7

\* What a person approved does not change while a plan is applied.
LEMMA SameApproved ==
  ASSUME man'.kind = man.kind, man.kind = "apply" => man'.list = man.list
  PROVE  Approved' = Approved
<1>1. CASE man.kind = "apply"
  BY <1>1 DEF Approved
<1>2. CASE man.kind # "apply"
  BY <1>2 DEF Approved
<1> QED
  BY <1>1, <1>2

\* The vault as it was.
LEMMA VaultStays ==
  ASSUME VaultTypeOK, VaultInv, UNCHANGED vaultVars, man'.kind = man.kind, man.kind = "apply" => man'.list = man.list
  PROVE  VaultTypeOK' /\ VaultInv'
<1>1. Approved' = Approved
  BY SameApproved
<1>2. VaultTypeOK' /\ \A id \in Ids : Body(id)' = Body(id)
  BY DEF vaultVars, VaultTypeOK, Body
<1>3. Items' = Items /\ rated' = rated
  BY <1>2 DEF Items, Live, IsItem, vaultVars
<1> QED
  BY <1>1, <1>2, <1>3 DEF VaultInv, MatchesWereGood, Items, Live, Good

\* The vault keeps its matches well rated when such an item is put, or none.
LEMMA PutKeepsVault ==
  ASSUME VaultTypeOK, VaultInv, NEW id \in Ids, NEW body \in Bodies \cup {Gone}, Put(id, body),
         man'.kind = man.kind, man.kind = "apply" => man'.list = man.list,
         body # Gone /\ IsItem(id) => MayStand(body.matches)
  PROVE  VaultInv'
<1>1. ASSUME NEW j \in Ids, Good(Body(j))' PROVE rated'[j]
  <2>1. CASE j = id
    BY <1>1, <2>1, Putting DEF Body, Good
  <2>2. CASE j # id
    BY <1>1, <2>2, Putting DEF Body, Good, VaultInv
  <2> QED
    BY <2>1, <2>2
<1>2. ASSUME NEW j \in Items', NEW m \in Body(j)'.matches PROVE (m \in Ids /\ rated'[m]) \/ m \in Approved'
  <2>0. Approved' = Approved
    BY SameApproved
  <2>1. j \in Ids /\ IsItem(j) /\ Body(j)' # Gone
    BY <1>2 DEF Items, Live
  <2>2. CASE j = id
    BY <1>2, <2>0, <2>1, <2>2, Putting DEF Body, MayStand
  <2>3. CASE j # id
    <3>1. j \in Items /\ m \in Body(j).matches
      BY <1>2, <2>1, <2>3, Putting DEF Body, Items, Live
    <3> QED
      BY <2>0, <3>1, Putting DEF VaultInv, MatchesWereGood
  <2> QED
    BY <2>2, <2>3
<1> QED
  BY <1>1, <1>2 DEF VaultInv, MatchesWereGood

\* A note with its old fields folded, or dropped, is a note.
LEMMA Folding ==
  ASSUME NEW body \in Bodies
  PROVE  /\ Folded(body) \in Bodies /\ Folded(body).uid = body.uid /\ Folded(body).matches = body.matches
         /\ Parsed(body) \in Bodies /\ Parsed(body).country = IF body.country = "old" THEN "unknown" ELSE body.country
         /\ \A f \in {"uid", "status", "rating", "abv", "notes", "common", "profile", "matches"} : Parsed(body)[f] = body[f]
BY DEF Folded, Parsed, Bodies, BodiesOf, Countries

\* What others do: a record is deleted, or put with its own uid and no new match.
LEMMA OthersPut ==
  ASSUME VaultTypeOK, VaultInv, OthersEdit, UNCHANGED man
  PROVE  /\ VaultTypeOK' /\ VaultInv' /\ others' # others
         /\ \E id \in Live, body \in Bodies \cup {Gone} :
              /\ Put(id, body)
              /\ body # Gone => body.uid = Body(id).uid
<1>1. others' \in Nat /\ others' # others
  <2>1. others \in Nat
    BY DEF VaultTypeOK
  <2>2. others > 0 /\ others' = others - 1
    BY DEF OthersEdit
  <2> QED
    BY <2>1, <2>2
<1>2. PICK id \in Live :
       \/ \E r \in 1..MaxRating :
            /\ r # Body(id).rating
            /\ Put(id, [Folded(Body(id)) EXCEPT !.rating = r, !.status = "tasted"])
       \/ Body(id).matches # {} /\ IsItem(id) /\ Put(id, [Folded(Body(id)) EXCEPT !.matches = {}])
       \/ Put(id, Gone)
  BY DEF OthersEdit
<1>3. id \in Ids /\ Body(id) \in Bodies
  BY DEF Live, Body, VaultTypeOK
<1> DEFINE was == Folded(Body(id))
<1>8. was \in Bodies /\ was.uid = Body(id).uid /\ was.matches = Body(id).matches
  BY <1>3, Folding
<1> HIDE DEF was
<1>4. IsItem(id) => MayStand(Body(id).matches)
  BY DEF VaultInv, MatchesWereGood, MayStand, Items
<1>5. PICK body \in Bodies \cup {Gone} :
        /\ Put(id, body)
        /\ body # Gone => body.uid = Body(id).uid /\ body.matches \subseteq Body(id).matches
  <2>1. ASSUME NEW r \in 1..MaxRating
        PROVE  LET b == [was EXCEPT !.rating = r, !.status = "tasted"] IN
               b \in Bodies /\ b.uid = Body(id).uid /\ b.matches \subseteq Body(id).matches
    <3>1. r \in 0..MaxRating
      BY Numbers
    <3> QED
      BY <1>8, <3>1 DEF Bodies, BodiesOf
  <2>2. LET b == [was EXCEPT !.matches = {}] IN
        b \in Bodies /\ b.uid = Body(id).uid /\ b.matches \subseteq Body(id).matches
    BY <1>8 DEF Bodies, BodiesOf
  <2> QED
    BY <1>2, <2>1, <2>2 DEF was
<1>6. body # Gone /\ IsItem(id) => MayStand(body.matches)
  BY <1>4, <1>5 DEF MayStand
<1>7. VaultInv'
  BY <1>3, <1>5, <1>6, PutKeepsVault
<1>9. VaultTypeOK'
  BY <1>1, <1>3, <1>5, Putting DEF VaultTypeOK
<1> QED
  BY <1>1, <1>5, <1>7, <1>9

-----------------------------------------------------------------------------
(* What a capture makes of the user's words.                               *)

\* A non-empty set of numbers has a least one.
LEMMA Least ==
  ASSUME NEW S \in SUBSET Nat, S # {}
  PROVE  \E i \in S : \A j \in S : i <= j
<1>1. PICK i \in S : \A j \in S : ~(<<j, i>> \in OpToRel(<, Nat))
  BY NatLessThanWellFounded, WFMin
<1>2. \A j \in S : ~(j < i)
  BY <1>1 DEF OpToRel
<1> QED
  BY <1>2

\* A rating that is stated is one of those in the text.
LEMMA Stated ==
  ASSUME NEW hits \in Seq(Nat)
  PROVE  LET stated == {n \in ToSet(hits) : n \in 1..MaxRating} IN
         /\ StatedRating(hits) \in 0..MaxRating
         /\ stated # {} => StatedRating(hits) \in stated
<1> DEFINE fit == {i \in DOMAIN hits : hits[i] \in 1..MaxRating}
           stated == {n \in ToSet(hits) : n \in 1..MaxRating}
           first == CHOOSE i \in fit : \A j \in fit : i <= j
<1>1. DOMAIN hits \subseteq Nat
  OBVIOUS
<1>2. \A i \in DOMAIN hits : hits[i] \in ToSet(hits)
  BY DEF ToSet
<1>3. CASE fit = {}
  <2>1. stated = {}
    BY <1>3 DEF ToSet
  <2>2. StatedRating(hits) = 0
    BY <1>3 DEF StatedRating
  <2> QED
    BY <2>1, <2>2, Numbers
<1>4. CASE fit # {}
  <2>1. \E i \in fit : \A j \in fit : i <= j
    BY <1>1, <1>4, Least
  <2>2. first \in fit
    BY <2>1
  <2>3. StatedRating(hits) = hits[first]
    BY <1>4 DEF StatedRating
  <2>4. hits[first] \in stated /\ hits[first] \in 1..MaxRating
    BY <1>2, <2>2
  <2> HIDE DEF first, fit
  <2>5. StatedRating(hits) \in 0..MaxRating
    BY <2>3, <2>4, Numbers
  <2> QED
    BY <2>3, <2>4, <2>5
<1> QED
  BY <1>3, <1>4

\* A note without uid, pinned.
Core(id, body, input) ==
  LET given == GivenRating(input) IN
  IF IsItem(id)
  THEN [body EXCEPT !.status = IF given # 0 THEN "tasted" ELSE body.status,
                    !.rating = IF given # 0 THEN given ELSE body.rating,
                    !.abv = IF input.abv /\ Type[id] \in HasAbv THEN "stated" ELSE body.abv,
                    !.notes = IF input.source = "photo" /\ input.typed # "nothing"
                              THEN "typed" ELSE KeepNotes(body.notes, input.typed)]
  ELSE [body EXCEPT !.notes = KeepNotes(body.notes, input.typed)]

\* Only the rating, the status, the strength, the notes and a missing uid are pinned.
LEMMA Pinning ==
  ASSUME NEW id \in Ids, NEW body \in Bodies, Valid(id, body), NEW input \in Inputs, minted \in Nat
  PROVE  /\ Pinned(id, body, input) \in Bodies
         /\ Pinned(id, body, input).common = body.common
         /\ IsItem(id) => Obeys(id, Pinned(id, body, input), input)
<1> DEFINE given == GivenRating(input)
           core == Core(id, body, input)
           pinned == Pinned(id, body, input)
           stated == {n \in ToSet(input.hits) : n \in 1..MaxRating}
<1>1. /\ input \in Sayings /\ input.stars \in 0..MaxRating /\ input.hits \in Seq(Nat)
      /\ input.abv \in BOOLEAN
  BY OperationsAssumption DEF Sayings
<1>2. /\ StatedRating(input.hits) \in 0..MaxRating
      /\ stated # {} => StatedRating(input.hits) \in stated
  BY <1>1, Stated
<1>3. given \in 0..MaxRating
  BY <1>1, <1>2 DEF GivenRating
<1>4. KeepNotes(body.notes, input.typed) \in Wordings \ {"long"}
  BY DEF KeepNotes, Bodies, BodiesOf, Wordings
<1>5. core \in Bodies /\ core.uid = body.uid /\ core.common = body.common
  BY <1>3, <1>4 DEF Core, Bodies, BodiesOf, Wordings
<1>6. pinned = [core EXCEPT !.uid = IF core.uid = NoUid THEN NewUid ELSE core.uid]
  BY DEF Pinned, Core
<1>7. NewUid \in Nat
  BY DEF NewUid
<1>8. pinned \in Bodies /\ pinned.common = body.common
  BY <1>5, <1>6, <1>7 DEF Bodies, BodiesOf
<1>9. /\ pinned.rating = core.rating /\ pinned.status = core.status /\ pinned.abv = core.abv
      /\ pinned.notes = core.notes
  BY <1>5, <1>6 DEF Bodies, BodiesOf
<1>10. IsItem(id) => Obeys(id, pinned, input)
  <2> SUFFICES ASSUME IsItem(id) PROVE Obeys(id, pinned, input)
    OBVIOUS
  <2>1. /\ core.rating = IF given # 0 THEN given ELSE body.rating
        /\ core.status = IF given # 0 THEN "tasted" ELSE body.status
        /\ core.abv = IF input.abv /\ Type[id] \in HasAbv THEN "stated" ELSE body.abv
        /\ core.notes = IF input.source = "photo" /\ input.typed # "nothing"
                        THEN "typed" ELSE KeepNotes(body.notes, input.typed)
    BY DEF Core, Bodies, BodiesOf
  <2>2. body.rating # 0 => body.status = "tasted"
    BY DEF Valid, Bodies, BodiesOf
  <2>3. /\ input.stars # 0 => given = input.stars
        /\ input.stars = 0 /\ stated # {} => given \in stated /\ given # 0
    BY <1>2 DEF GivenRating
  <2>4. input.typed = "nothing" => KeepNotes(body.notes, input.typed) = "none"
    BY DEF KeepNotes
  <2> HIDE DEF given, core, pinned
  <2> QED
    BY <1>4, <1>9, <2>1, <2>2, <2>3, <2>4 DEF Obeys
<1> QED
  BY <1>8, <1>10

-----------------------------------------------------------------------------
(* A capture, step by step.                                                *)

\* A capture that is not over says nothing when it fails.
LEMMA CapFails ==
  ASSUME CapTypeOK, CapInv, cap.at \notin {"idle", "end"}, NEW outcome \in {"failed"} \cup Phases, Ended(outcome)
  PROVE  CapTypeOK' /\ CapInv'
<1>1. cap' = [cap EXCEPT !.at = "end", !.outcome = outcome]
  BY DEF Ended
<1>2. CapTypeOK'
  BY <1>1 DEF CapTypeOK, Places, Phases
<1>3. /\ cap'.at = "end" /\ cap'.outcome = outcome /\ cap'.wrote = cap.wrote /\ cap'.input = cap.input
  BY <1>1 DEF CapTypeOK
<1>4. cap.input \in Inputs /\ ~cap.wrote
  BY DEF CapInv
<1> QED
  BY <1>2, <1>3, <1>4 DEF CapInv, Noted, AnswerTellsTheTruth, Phases

\* A note that is settled is pinned, or refused.
LEMMA Settling ==
  ASSUME CapTypeOK, CapInv, cap.at \in {"answer", "enrich"}, minted \in Nat,
         NEW id \in Ids, NEW body \in Bodies, Valid(id, body), Settle(id, body)
  PROVE  CapTypeOK' /\ CapInv'
<1>1. CASE IsItem(id) /\ Hollow(body)
  BY <1>1, CapFails DEF Settle
<1>2. CASE ~(IsItem(id) /\ Hollow(body))
  <2> DEFINE note == Pinned(id, body, cap.input)
             place == IF IsItem(id) THEN "ground" ELSE "write"
  <2>1. cap.input \in Inputs /\ cap.outcome = "none" /\ ~cap.wrote
    BY DEF CapInv
  <2>2. note \in Bodies /\ (IsItem(id) => note.common /\ Obeys(id, note, cap.input))
    BY <1>2, <2>1, Pinning DEF Hollow
  <2>3. cap' = [cap EXCEPT !.at = place, !.id = id, !.note = note]
    BY <1>2 DEF Settle
  <2>4. place \in {"ground", "write"} /\ (place = "ground" <=> IsItem(id))
    OBVIOUS
  <2> HIDE DEF note, place
  <2>5. CapTypeOK'
    BY <2>2, <2>3, <2>4 DEF CapTypeOK, Places
  <2>6. /\ cap'.at = place /\ cap'.id = id /\ cap'.note = note /\ cap'.input = cap.input
        /\ cap'.outcome = "none" /\ ~cap'.wrote
    BY <2>1, <2>3 DEF CapTypeOK
  <2> QED
    BY <2>1, <2>2, <2>4, <2>5, <2>6 DEF CapInv, Noted, AnswerTellsTheTruth
<1> QED
  BY <1>1, <1>2

\* A capture that only goes on to a place where nothing is known of its note.
LEMMA CapGoes ==
  ASSUME CapTypeOK, CapInv, cap.at \notin {"idle", "end"}, NEW place \in {"label", "ask", "answer"},
         NEW m \in Providers \cup {"none"}, cap' = [cap EXCEPT !.at = place, !.model = m]
  PROVE  CapTypeOK' /\ CapInv'
<1>1. CapTypeOK'
  BY DEF CapTypeOK, Places
<1>2. cap'.at = place /\ cap'.input = cap.input /\ cap'.outcome = cap.outcome /\ cap'.wrote = cap.wrote
  BY DEF CapTypeOK
<1>3. cap.input \in Inputs /\ cap.outcome = "none" /\ ~cap.wrote
  BY DEF CapInv
<1> QED
  BY <1>1, <1>2, <1>3 DEF CapInv, Noted, AnswerTellsTheTruth

\* The label, and the call of the model.
LEMMA CapAsks ==
  ASSUME CapTypeOK, CapInv, CallTypeOK, CallInv, CapBegin \/ CapLabel \/ CapAsk
  PROVE  CapTypeOK' /\ CapInv' /\ CallTypeOK' /\ CallInv' /\ UNCHANGED vaultVars
<1>1. /\ cap.vision \in Providers \cup {"none"} /\ cap.research \in Providers \cup {"none"}
      /\ cap.model \in Providers \cup {"none"}
  BY DEF CapTypeOK
<1>2. CASE CapBegin
  <2>1. cap.at = "start" /\ UNCHANGED vaultVars
    BY <1>2 DEF CapBegin
  <2>2. CASE Photo /\ cap.vision # "none"
    <3>1. Call(cap.vision, FALSE, FALSE) /\ cap' = [cap EXCEPT !.at = "label", !.model = cap.research]
      BY <1>2, <2>2 DEF CapBegin
    <3>2. CallTypeOK' /\ CallInv'
      BY <1>1, <2>2, <3>1, Calling
    <3>3. CapTypeOK' /\ CapInv'
      BY <1>1, <2>1, <3>1, CapGoes
    <3> QED
      BY <2>1, <3>2, <3>3
  <2>3. CASE ~(Photo /\ cap.vision # "none")
    <3>1. UNCHANGED call /\ cap' = [cap EXCEPT !.at = "ask", !.model = IF Photo THEN cap.vision ELSE cap.research]
      BY <1>2, <2>3 DEF CapBegin
    <3>2. CallTypeOK' /\ CallInv'
      BY <3>1 DEF CallTypeOK, CallInv
    <3>3. PICK m \in Providers \cup {"none"} : m = IF Photo THEN cap.vision ELSE cap.research
      BY <1>1
    <3>4. CapTypeOK' /\ CapInv'
      BY <2>1, <3>1, <3>3, CapGoes
    <3> QED
      BY <2>1, <3>2, <3>4
  <2> QED
    BY <2>2, <2>3
<1>3. CASE CapLabel
  <2>1. cap.at = "label" /\ HangUp /\ UNCHANGED vaultVars
    BY <1>3 DEF CapLabel
  <2>2. \/ Ended("unknown")
        \/ cap' = [cap EXCEPT !.at = "ask"]
        \/ cap' = [cap EXCEPT !.at = "ask", !.model = cap.vision]
    BY <1>3 DEF CapLabel, At
  <2>3. cap' = [cap EXCEPT !.at = "ask"] => cap' = [cap EXCEPT !.at = "ask", !.model = cap.model]
    BY DEF CapTypeOK
  <2>4. CapTypeOK' /\ CapInv'
    BY <1>1, <2>1, <2>2, <2>3, CapFails, CapGoes DEF Phases
  <2> QED
    BY <2>1, <2>4, HungUp
<1>4. CASE CapAsk
  <2>1. cap.at = "ask" /\ UNCHANGED vaultVars
    BY <1>4 DEF CapAsk
  <2>2. CASE cap.model = "none"
    <3>1. Ended("failed") /\ UNCHANGED call
      BY <1>4, <2>2 DEF CapAsk
    <3>2. CallTypeOK' /\ CallInv'
      BY <3>1 DEF CallTypeOK, CallInv
    <3> QED
      BY <2>1, <3>1, <3>2, CapFails
  <2>3. CASE cap.model # "none"
    <3>1. Call(cap.model, FALSE, TRUE) /\ cap' = [cap EXCEPT !.at = "answer"]
      BY <1>4, <2>3 DEF CapAsk, At
    <3>2. CallTypeOK' /\ CallInv'
      BY <1>1, <2>3, <3>1, Calling
    <3>3. cap' = [cap EXCEPT !.at = "answer", !.model = cap.model]
      BY <3>1 DEF CapTypeOK
    <3>4. CapTypeOK' /\ CapInv'
      BY <1>1, <2>1, <3>3, CapGoes
    <3> QED
      BY <2>1, <3>2, <3>4
  <2> QED
    BY <2>2, <2>3
<1> QED
  BY <1>2, <1>3, <1>4

\* The answer, and what fills it up: a note that is valid, settled or not yet.
LEMMA CapNotes ==
  ASSUME CapTypeOK, CapInv, VaultTypeOK, CapAnswer \/ CapEnrich
  PROVE  CapTypeOK' /\ CapInv' /\ CallTypeOK' /\ CallInv' /\ UNCHANGED vaultVars
<1>1. minted \in Nat
  BY DEF VaultTypeOK
<1>2. CASE CapAnswer
  <2>1. cap.at = "answer" /\ UNCHANGED vaultVars
    BY <1>2 DEF CapAnswer
  <2>2. CASE HangUp /\ Ended("failed")
    BY <2>1, <2>2, CapFails, HungUp
  <2>3. CASE ~(HangUp /\ Ended("failed"))
    <3>1. PICK d \in Drafts :
             /\ d[1] # Nameless /\ Valid(d[1], d[2])
             /\ \/ /\ cap.research # "none" /\ Call(cap.research, FALSE, ~d[2].common)
                   /\ cap' = [cap EXCEPT !.at = "enrich", !.id = d[1], !.note = d[2]]
                \/ Settle(d[1], d[2]) /\ HangUp
      BY <1>2, <2>3 DEF CapAnswer
    <3> DEFINE id == d[1]
               body == d[2]
    <3>2. id \in Ids /\ body \in BodiesOf(Nat)
      BY <3>1, OperationsAssumption
    <3>3. body \in Bodies /\ (~body.common) \in BOOLEAN
      <4>1. body.rating \in 0..MaxRating
        BY <3>1 DEF Valid
      <4> HIDE DEF body
      <4> QED
        BY <3>2, <4>1 DEF Bodies, BodiesOf
    <3> HIDE DEF id, body
    <3>4. CASE Settle(id, body) /\ HangUp
      <4>1. Valid(id, body)
        BY <3>1 DEF id, body
      <4> QED
        BY <1>1, <2>1, <3>2, <3>3, <3>4, <4>1, Settling, HungUp
    <3>5. CASE /\ cap.research # "none" /\ Call(cap.research, FALSE, ~body.common)
               /\ cap' = [cap EXCEPT !.at = "enrich", !.id = id, !.note = body]
      <4>1. CallTypeOK' /\ CallInv'
        <5>1. cap.research \in Providers
          BY <3>5 DEF CapTypeOK
        <5> QED
          BY <3>3, <3>5, <5>1, Calling
      <4>2. CapTypeOK'
        BY <3>2, <3>3, <3>5 DEF CapTypeOK, Places
      <4>3. /\ cap'.at = "enrich" /\ cap'.id = id /\ cap'.note = body /\ cap'.input = cap.input
            /\ cap'.outcome = cap.outcome /\ cap'.wrote = cap.wrote
        BY <3>5 DEF CapTypeOK
      <4>4. cap.input \in Inputs /\ cap.outcome = "none" /\ ~cap.wrote
        BY <2>1 DEF CapInv
      <4>5. Valid(id, body)
        BY <3>1 DEF id, body
      <4>6. Valid(cap.id, cap.note)'
        BY <4>3, <4>5 DEF Valid, SameSide, IsItem
      <4>7. CapInv'
        BY <3>2, <3>3, <4>3, <4>4, <4>6 DEF CapInv, Noted, AnswerTellsTheTruth
      <4> QED
        BY <2>1, <4>1, <4>2, <4>7
    <3> QED
      BY <3>1, <3>4, <3>5 DEF id, body
  <2> QED
    BY <2>2, <2>3
<1>3. CASE CapEnrich
  <2>1. cap.at = "enrich" /\ HangUp /\ UNCHANGED vaultVars
    BY <1>3 DEF CapEnrich
  <2>2. cap.id \in Ids /\ cap.note \in Bodies /\ Valid(cap.id, cap.note)
    BY <2>1 DEF CapInv, Noted
  <2>3. PICK body \in Bodies : Valid(cap.id, body) /\ Settle(cap.id, body)
    <3>1. CASE Settle(cap.id, cap.note)
      BY <2>2, <3>1
    <3>2. CASE ~Settle(cap.id, cap.note)
      <4>1. PICK common \in BOOLEAN, profile \in BOOLEAN :
              Settle(cap.id, [cap.note EXCEPT !.common = @ \/ common,
                                              !.profile = @ \/ (profile /\ NoPairings(cap.note))])
        BY <1>3, <3>2 DEF CapEnrich
      <4> DEFINE b == cap.note.common \/ common
                 p == cap.note.profile \/ (profile /\ NoPairings(cap.note))
                 body == [cap.note EXCEPT !.common = b, !.profile = p]
      <4>2. b \in BOOLEAN /\ p \in BOOLEAN
        BY Zenon
      <4>3. Settle(cap.id, body)
        BY <4>1
      <4> HIDE DEF b, p
      <4>4. body \in Bodies
        BY <2>2, <4>2 DEF Bodies, BodiesOf
      <4>5. body.rating = cap.note.rating /\ body.status = cap.note.status /\ body.matches = cap.note.matches
        BY <2>2 DEF Bodies, BodiesOf
      <4> HIDE DEF body
      <4>6. Valid(cap.id, body)
        BY <2>2, <4>5 DEF Valid
      <4> QED
        BY <4>3, <4>4, <4>6
    <3> QED
      BY <3>1, <3>2
  <2>4. CapTypeOK' /\ CapInv'
    BY <1>1, <2>1, <2>2, <2>3, Settling
  <2> QED
    BY <2>1, <2>4, HungUp
<1> QED
  BY <1>2, <1>3

\* Only the matches of a pinned note change, and those checked are well rated.
LEMMA CapRematched ==
  ASSUME CapTypeOK', CapInv, cap.at \in {"ground", "choose", "check", "repeat"}, UNCHANGED vaultVars,
         NEW place \in {"choose", "check", "repeat", "write"}, NEW m \in SUBSET (Ids \cup {NameOnly}), NEW u,
         cap'.at = place, cap'.id = cap.id, cap'.note = [cap.note EXCEPT !.matches = m], cap'.unchecked = u,
         cap'.input = cap.input, cap'.outcome = cap.outcome, cap'.wrote = cap.wrote,
         place = "check" => WereGood(m \ u), place \in {"repeat", "write"} => WereGood(m)
  PROVE  CapInv'
<1>1. /\ cap.id \in Ids /\ cap.note \in Bodies /\ cap.input \in Inputs /\ cap.outcome = "none" /\ ~cap.wrote
      /\ IsItem(cap.id) /\ cap.note.common /\ Obeys(cap.id, cap.note, cap.input)
  BY DEF CapInv, Noted
<1> DEFINE note == [cap.note EXCEPT !.matches = m]
<1>2. note \in Bodies /\ note.matches = m /\ note.common
  BY <1>1 DEF Bodies, BodiesOf
<1>3. note.rating = cap.note.rating /\ note.status = cap.note.status /\ note.abv = cap.note.abv /\ note.notes = cap.note.notes
  BY <1>1 DEF Bodies, BodiesOf
<1> HIDE DEF note
<1>4. Obeys(cap.id, note, cap.input)
  BY <1>1, <1>3 DEF Obeys
<1>5. cap'.note = note /\ rated' = rated
  BY DEF note, vaultVars
<1>6. WereGood(cap.note.matches \ cap.unchecked)' = WereGood(m \ u) /\ WereGood(cap.note.matches)' = WereGood(m)
  BY <1>2, <1>5 DEF WereGood
<1> QED
  BY <1>1, <1>2, <1>4, <1>5, <1>6 DEF CapInv, Noted, AnswerTellsTheTruth, IsItem

\* The matches, chosen and checked one by one.
LEMMA CapMatches ==
  ASSUME CapTypeOK, CapInv, VaultTypeOK, VaultInv, CapGround \/ CapChoose \/ CapCheck \/ CapRepeat
  PROVE  CapTypeOK' /\ CapInv' /\ UNCHANGED <<call, vaultVars>>
<1>0. cap.at \in {"ground", "choose", "check", "repeat"} /\ UNCHANGED <<call, vaultVars>>
  BY DEF CapGround, CapChoose, CapCheck, CapRepeat
<1>1. /\ cap.note \in Bodies /\ cap.note.matches \in SUBSET (Ids \cup {NameOnly})
      /\ cap.note = [cap.note EXCEPT !.matches = cap.note.matches]
  BY <1>0 DEF CapInv, Noted, Bodies, BodiesOf
<1>2. CASE CapGround
  <2>1. CASE cap' = [cap EXCEPT !.at = "choose", !.options = Candidates(cap.id)]
    <3>1. Candidates(cap.id) \subseteq Ids
      BY DEF Candidates, Live
    <3>2. CapTypeOK'
      BY <2>1, <3>1 DEF CapTypeOK, Places
    <3>3. /\ cap'.at = "choose" /\ cap'.id = cap.id /\ cap'.note = cap.note /\ cap'.input = cap.input
          /\ cap'.outcome = cap.outcome /\ cap'.wrote = cap.wrote
      BY <2>1 DEF CapTypeOK
    <3> QED
      BY <1>0, <1>1, <3>2, <3>3, CapRematched
  <2>2. CASE cap' = [cap EXCEPT !.at = "check", !.unchecked = cap.note.matches]
    <3>1. CapTypeOK'
      BY <1>1, <2>2 DEF CapTypeOK, Places
    <3>2. /\ cap'.at = "check" /\ cap'.id = cap.id /\ cap'.note = cap.note /\ cap'.input = cap.input
          /\ cap'.outcome = cap.outcome /\ cap'.wrote = cap.wrote /\ cap'.unchecked = cap.note.matches
      BY <2>2 DEF CapTypeOK
    <3>3. WereGood(cap.note.matches \ cap.note.matches)
      BY DEF WereGood
    <3> QED
      BY <1>0, <1>1, <3>1, <3>2, <3>3, CapRematched
  <2> QED
    BY <1>2, <2>1, <2>2 DEF CapGround
<1>3. CASE CapChoose
  <2>1. PICK m \in LikelyTwo(cap.options) \cup {cap.note.matches} :
          cap' = [cap EXCEPT !.at = "check", !.note.matches = m, !.unchecked = m, !.options = {}]
    BY <1>3 DEF CapChoose
  <2>2. m \in SUBSET (Ids \cup {NameOnly})
    BY <1>1 DEF LikelyTwo, CapTypeOK
  <2>3. CapTypeOK'
    <3>1. [cap.note EXCEPT !.matches = m] \in Bodies
      BY <1>1, <2>2, OtherMatches
    <3>2. cap' = [cap EXCEPT !.at = "check", !.note = [cap.note EXCEPT !.matches = m], !.unchecked = m, !.options = {}]
      BY <2>1 DEF CapTypeOK
    <3> QED
      BY <2>2, <3>1, <3>2 DEF CapTypeOK, Places
  <2>4. /\ cap'.at = "check" /\ cap'.id = cap.id /\ cap'.note = [cap.note EXCEPT !.matches = m] /\ cap'.input = cap.input
        /\ cap'.outcome = cap.outcome /\ cap'.wrote = cap.wrote /\ cap'.unchecked = m
    BY <2>1 DEF CapTypeOK
  <2>5. WereGood(m \ m)
    BY DEF WereGood
  <2> QED
    BY <1>0, <2>2, <2>3, <2>4, <2>5, CapRematched
<1>4. CASE CapCheck
  <2>1. cap.at = "check" /\ WereGood(cap.note.matches \ cap.unchecked)
    BY <1>4 DEF CapCheck, CapInv
  <2>2. CASE cap.unchecked = {} /\ At("repeat")
    <3>1. CapTypeOK'
      BY <2>2 DEF At, CapTypeOK, Places
    <3>2. /\ cap'.at = "repeat" /\ cap'.id = cap.id /\ cap'.note = cap.note /\ cap'.input = cap.input
          /\ cap'.outcome = cap.outcome /\ cap'.wrote = cap.wrote
      BY <2>2 DEF At, CapTypeOK
    <3>3. WereGood(cap.note.matches)
      BY <2>1, <2>2 DEF WereGood
    <3> QED
      BY <1>0, <1>1, <3>1, <3>2, <3>3, CapRematched
  <2>3. CASE cap.unchecked # {} /\ cap' = [cap EXCEPT !.at = "repeat", !.unchecked = {}, !.note.matches = {}]
    <3>1. CapTypeOK'
      <4>1. [cap.note EXCEPT !.matches = {}] \in Bodies
        BY <1>1, OtherMatches
      <4>2. cap' = [cap EXCEPT !.at = "repeat", !.unchecked = {}, !.note = [cap.note EXCEPT !.matches = {}]]
        BY <2>3 DEF CapTypeOK
      <4> QED
        BY <4>1, <4>2 DEF CapTypeOK, Places
    <3>2. /\ cap'.at = "repeat" /\ cap'.id = cap.id /\ cap'.note = [cap.note EXCEPT !.matches = {}] /\ cap'.input = cap.input
          /\ cap'.outcome = cap.outcome /\ cap'.wrote = cap.wrote
      BY <2>3 DEF CapTypeOK
    <3>3. WereGood({})
      BY DEF WereGood
    <3> QED
      BY <1>0, <3>1, <3>2, <3>3, CapRematched
  <2>4. ASSUME NEW m \in cap.unchecked,
               cap' = [cap EXCEPT !.unchecked = @ \ {m},
                                  !.note.matches = IF m # NameOnly /\ Good(Body(m)) THEN @ ELSE @ \ {m}]
        PROVE  CapTypeOK' /\ CapInv'
    <3> DEFINE kept == IF m # NameOnly /\ Good(Body(m)) THEN cap.note.matches ELSE cap.note.matches \ {m}
               left == cap.unchecked \ {m}
    <3>1. m \in Ids \cup {NameOnly}
      BY DEF CapTypeOK
    <3>2. m # NameOnly /\ Good(Body(m)) => m \in Ids /\ rated[m]
      BY <3>1 DEF VaultInv
    <3>3. WereGood(kept \ left)
      BY <2>1, <3>2 DEF WereGood
    <3>4. kept \in SUBSET (Ids \cup {NameOnly}) /\ left \in SUBSET (Ids \cup {NameOnly})
      BY <1>1 DEF CapTypeOK
    <3>5. cap' = [cap EXCEPT !.unchecked = left, !.note.matches = kept]
      BY <2>4
    <3> HIDE DEF kept, left
    <3>6. CapTypeOK'
      <4>1. [cap.note EXCEPT !.matches = kept] \in Bodies
        BY <1>1, <3>4, OtherMatches
      <4>2. cap' = [cap EXCEPT !.unchecked = left, !.note = [cap.note EXCEPT !.matches = kept]]
        BY <3>5 DEF CapTypeOK
      <4> QED
        BY <3>4, <4>1, <4>2 DEF CapTypeOK, Places
    <3>7. /\ cap'.at = "check" /\ cap'.id = cap.id /\ cap'.note = [cap.note EXCEPT !.matches = kept] /\ cap'.input = cap.input
          /\ cap'.outcome = cap.outcome /\ cap'.wrote = cap.wrote /\ cap'.unchecked = left
      BY <2>1, <3>5 DEF CapTypeOK
    <3> QED
      BY <1>0, <3>3, <3>4, <3>6, <3>7, CapRematched
  <2> QED
    BY <1>4, <2>2, <2>3, <2>4 DEF CapCheck
<1>5. CASE CapRepeat
  <2>1. CASE Ended("couchdb_query")
    BY <1>0, <2>1, CapFails DEF Phases
  <2>2. CASE At("write")
    <3>1. CapTypeOK'
      BY <2>2 DEF At, CapTypeOK, Places
    <3>2. /\ cap'.at = "write" /\ cap'.id = cap.id /\ cap'.note = cap.note /\ cap'.input = cap.input
          /\ cap'.outcome = cap.outcome /\ cap'.wrote = cap.wrote
      BY <2>2 DEF At, CapTypeOK
    <3>3. WereGood(cap.note.matches)
      BY <1>5 DEF CapRepeat, CapInv
    <3> QED
      BY <1>0, <1>1, <3>1, <3>2, <3>3, CapRematched
  <2> QED
    BY <1>5, <2>1, <2>2 DEF CapRepeat
<1> QED
  BY <1>0, <1>2, <1>3, <1>4, <1>5

\* The note is put as it was checked, where no record was.
LEMMA CapStores ==
  ASSUME CapTypeOK, CapInv, VaultTypeOK, VaultInv, CapWrite, UNCHANGED man
  PROVE  /\ CapTypeOK' /\ CapInv' /\ VaultTypeOK' /\ VaultInv' /\ UNCHANGED <<call, others>>
         /\ \A id \in Live : records'[id] = records[id]
<1>1. cap.at = "write" /\ UNCHANGED <<call, others>>
  BY DEF CapWrite
<1>2. /\ cap.id \in Ids /\ cap.note \in Bodies /\ cap.input \in Inputs
      /\ IsItem(cap.id) => cap.note.common /\ Obeys(cap.id, cap.note, cap.input) /\ WereGood(cap.note.matches)
  BY <1>1 DEF CapInv, Noted
<1>3. CASE Ended("couchdb_write") /\ UNCHANGED <<records, minted, rated>>
  <2>1. CapTypeOK' /\ CapInv'
    BY <1>1, <1>3, CapFails DEF Phases
  <2>2. UNCHANGED vaultVars
    BY <1>1, <1>3 DEF vaultVars
  <2>3. VaultTypeOK' /\ VaultInv'
    BY <2>2, VaultStays
  <2> QED
    BY <1>1, <2>1, <2>2, <2>3 DEF vaultVars
<1>4. CASE ~(Ended("couchdb_write") /\ UNCHANGED <<records, minted, rated>>)
  <2>1. cap.id \notin Live /\ Put(cap.id, cap.note)
    BY <1>4 DEF CapWrite
  <2>2. PICK outcome \in {"done", "couchdb_write"} : cap' = [cap EXCEPT !.at = "end", !.outcome = outcome, !.wrote = TRUE]
    BY <1>4 DEF CapWrite
  <2>3. CapTypeOK'
    BY <2>2 DEF CapTypeOK, Places, Phases
  <2>4. /\ cap'.at = "end" /\ cap'.id = cap.id /\ cap'.note = cap.note /\ cap'.input = cap.input
        /\ cap'.outcome = outcome /\ cap'.wrote
    BY <2>2 DEF CapTypeOK
  <2>5. CapInv'
    BY <1>2, <2>3, <2>4 DEF CapInv, Noted, AnswerTellsTheTruth, IsItem
  <2>6. VaultInv'
    BY <1>2, <2>1, PutKeepsVault DEF WereGood, MayStand
  <2>7. VaultTypeOK'
    BY <1>1, <1>2, <2>1, Putting DEF VaultTypeOK
  <2>8. \A id \in Live : records'[id] = records[id]
    BY <1>2, <2>1, Putting DEF Live
  <2> QED
    BY <1>1, <2>3, <2>5, <2>6, <2>7, <2>8
<1> QED
  BY <1>3, <1>4

\* Nobody else disturbs a capture: what was well rated once remains so.
LEMMA CapStays ==
  ASSUME CapTypeOK, CapInv, cap' = cap, \A m \in Ids : rated[m] => rated'[m]
  PROVE  CapTypeOK' /\ CapInv'
<1>1. \A matches : WereGood(matches) => \A m \in matches : m \in Ids /\ rated'[m]
  BY DEF WereGood
<1>2. CapTypeOK'
  BY DEF CapTypeOK
<1>3. WereGood(cap.note.matches) => WereGood(cap.note.matches)'
  BY <1>1 DEF WereGood
<1>4. WereGood(cap.note.matches \ cap.unchecked) => WereGood(cap.note.matches \ cap.unchecked)'
  BY <1>1 DEF WereGood
<1>5. Valid(cap.id, cap.note) => Valid(cap.id, cap.note)'
  BY DEF Valid, SameSide, IsItem
<1>6. AnswerTellsTheTruth' <=> AnswerTellsTheTruth
  BY DEF AnswerTellsTheTruth, IsItem
<1> QED
  BY <1>2, <1>3, <1>4, <1>5, <1>6 DEF CapInv, Noted, IsItem
-----------------------------------------------------------------------------
(* A fetch of details, step by step.                                       *)

\* Ending a fetch proposes nothing.
LEMMA DetFails ==
  ASSUME DetTypeOK, DetInv, det.at \notin {"idle", "end"}, NEW outcome \in {"done", "raised"}, DetEnds(outcome)
  PROVE  DetTypeOK' /\ DetInv'
<1>1. det' = [det EXCEPT !.at = "end", !.outcome = outcome]
  BY DEF DetEnds
<1>2. DetTypeOK'
  BY <1>1 DEF DetTypeOK
<1>3. /\ det'.at = "end" /\ det'.page = det.page /\ det'.found = det.found /\ det'.todo = det.todo
      /\ det'.filled = det.filled /\ det'.said = det.said /\ det'.identity = det.identity
      /\ det'.recommended = det.recommended
  BY <1>1 DEF DetTypeOK
<1> QED
  BY <1>2, <1>3 DEF DetInv, ProposalsProven

\* The evidence of a value that is proven: sound, and its quote is on its page.
LEMMA Proven ==
  ASSUME DetTypeOK, DetInv, NEW g \in Surviving, Evidence(g) = "verified"
  PROVE  g \in det.todo /\ g \in Fields /\ det.found[g] = "sound" /\ det.page[g] = "quoted"
<1>1. g \in det.todo /\ g \in Fields
  BY DEF Surviving, DetTypeOK
<1>2. det.found[g] \in Finds \cup {"waiting"} /\ det.page[g] \in Pages
  BY <1>1 DEF DetTypeOK
<1>3. det.page[g] = "quoted" /\ det.found[g] # "same"
  BY DEF Evidence, Defects
<1>4. HasPage(det.found[g])
  BY <1>1, <1>3 DEF DetInv
<1> QED
  BY <1>1, <1>3, <1>4 DEF HasPage

\* What the reviewer leaves is proven.
LEMMA Reviewing ==
  ASSUME DetTypeOK, DetInv, det.at = "review", NEW said \in [Fields -> Verdicts],
         NEW identity \in {"unasked", "yes", "no", "unsure"},
         identity = "unasked" => \A g \in Fields : said[g] # "ok",
         Reviewed(said, identity)
  PROVE  DetTypeOK' /\ DetInv'
<1> DEFINE proposed == Recommended(said, identity)
<1>1. det' = [det EXCEPT !.at = "end", !.outcome = "done", !.said = said, !.identity = identity, !.recommended = proposed]
  BY DEF Reviewed
<1>2. \A g \in proposed :
        /\ g \in Surviving /\ Evidence(g) = "verified" /\ g \notin det.filled
        /\ said[g] = "ok" /\ identity # "no"
  BY DEF Recommended, Verdict
<1>3. \A g \in proposed :
        /\ g \in Fields /\ g \in det.todo \ det.filled /\ det.found[g] = "sound" /\ det.page[g] = "quoted"
        /\ said[g] = "ok" /\ identity \notin {"no", "unasked"}
  BY <1>2, Proven
<1> HIDE DEF proposed
<1>4. DetTypeOK'
  BY <1>1, <1>3 DEF DetTypeOK
<1>5. /\ det'.at = "end" /\ det'.said = said /\ det'.identity = identity /\ det'.recommended = proposed
      /\ det'.page = det.page /\ det'.found = det.found /\ det'.todo = det.todo /\ det'.filled = det.filled
  BY <1>1 DEF DetTypeOK
<1>6. \A g \in Fields : det.page[g] # "unread" => HasPage(det.found[g])
  BY DEF DetInv
<1> QED
  BY <1>3, <1>4, <1>5, <1>6 DEF DetInv, ProposalsProven

\* The workers keep to their number, and read no page.
LEMMA DetWorks ==
  ASSUME DetTypeOK, DetInv, DetBegin \/ \E g \in Fields : DetTake(g) \/ DetFound(g)
  PROVE  DetTypeOK' /\ DetInv' /\ UNCHANGED <<call, vaultVars>>
<1>1. /\ IsFiniteSet(Fields) /\ Concurrency \in Nat /\ Concurrency >= 1
      /\ det.running \subseteq Fields /\ IsFiniteSet(det.running)
      /\ Cardinality(det.running) \in Nat /\ Cardinality(det.running) <= Concurrency
  BY OperationsAssumption, FS_Subset, FS_CardinalityType DEF DetTypeOK
<1>2. CASE DetBegin
  <2>1. det.at = "start" /\ UNCHANGED <<call, vaultVars>>
    BY <1>2 DEF DetBegin
  <2>2. CASE \E outcome \in {"done", "raised"} : DetEnds(outcome)
    BY <2>1, <2>2, DetFails
  <2>3. CASE \E asked \in SUBSET Fields, overwrite \in BOOLEAN :
               det' = [det EXCEPT !.at = "work", !.todo = IF overwrite THEN asked ELSE asked \ det.filled]
    <3>1. PICK todo \in SUBSET Fields : det' = [det EXCEPT !.at = "work", !.todo = todo]
      BY <2>3
    <3>2. DetTypeOK'
      BY <3>1 DEF DetTypeOK
    <3>3. /\ det'.at = "work" /\ det'.page = det.page /\ det'.found = det.found /\ det'.recommended = det.recommended
      BY <3>1 DEF DetTypeOK
    <3> QED
      BY <2>1, <3>2, <3>3 DEF DetInv, ProposalsProven
  <2> QED
    BY <1>2, <2>1, <2>2, <2>3 DEF DetBegin
<1>3. ASSUME NEW g \in Fields, DetTake(g) PROVE DetTypeOK' /\ DetInv' /\ UNCHANGED <<call, vaultVars>>
  <2> DEFINE running == det.running \cup {g}
  <2>1. Cardinality(running) <= Concurrency
    <3>1. g \notin det.running /\ Cardinality(det.running) < Concurrency
      BY <1>3 DEF DetTake
    <3>2. Cardinality(running) = Cardinality(det.running) + 1
      BY <1>1, <3>1, FS_AddElement
    <3> HIDE DEF running
    <3> QED
      BY <1>1, <3>1, <3>2
  <2>2. det' = [det EXCEPT !.running = running] /\ det.at = "work" /\ UNCHANGED <<call, vaultVars>>
    BY <1>3 DEF DetTake
  <2>3. running \subseteq Fields
    BY <1>1
  <2> HIDE DEF running
  <2>4. DetTypeOK'
    <3>1. det'.running = running
      BY <2>2 DEF DetTypeOK
    <3> QED
      BY <2>1, <2>2, <2>3, <3>1 DEF DetTypeOK
  <2>5. /\ det'.at = "work" /\ det'.page = det.page /\ det'.found = det.found /\ det'.recommended = det.recommended
    BY <2>2 DEF DetTypeOK
  <2> QED
    BY <2>2, <2>4, <2>5 DEF DetInv, ProposalsProven
<1>4. ASSUME NEW g \in Fields, DetFound(g) PROVE DetTypeOK' /\ DetInv' /\ UNCHANGED <<call, vaultVars>>
  <2>1. PICK found \in Finds :
          LET out == [det.found EXCEPT ![g] = found] IN
          det' = [det EXCEPT !.running = @ \ {g}, !.found = out,
                    !.at = IF \E h \in det.todo : out[h] = "waiting" THEN @ ELSE "evidence"]
    BY <1>4 DEF DetFound
  <2> DEFINE out == [det.found EXCEPT ![g] = found]
             running == det.running \ {g}
             at == IF \E h \in det.todo : out[h] = "waiting" THEN "work" ELSE "evidence"
  <2>2. det.at = "work" /\ g \in det.running /\ UNCHANGED <<call, vaultVars>>
    BY <1>4 DEF DetFound
  <2>3. det' = [det EXCEPT !.running = running, !.found = out, !.at = at]
    BY <2>1, <2>2
  <2>4. Cardinality(running) <= Concurrency
    <3>1. Cardinality(running) = Cardinality(det.running) - 1
      BY <1>1, <2>2, FS_RemoveElement
    <3> HIDE DEF running
    <3> QED
      BY <1>1, <3>1
  <2>5. running \subseteq Fields /\ out \in [Fields -> Finds \cup {"waiting"}] /\ at \in {"work", "evidence"}
    BY <1>1 DEF DetTypeOK
  <2>6. \A h \in Fields : det.page[h] = "unread"
    BY <2>2 DEF DetInv
  <2> HIDE DEF running, out, at
  <2>7. DetTypeOK'
    <3>1. det'.running = running
      BY <2>3 DEF DetTypeOK
    <3> QED
      BY <2>3, <2>4, <2>5, <3>1 DEF DetTypeOK
  <2>8. /\ det'.at = at /\ det'.page = det.page /\ det'.recommended = det.recommended
    BY <2>3 DEF DetTypeOK
  <2> QED
    BY <2>2, <2>5, <2>6, <2>7, <2>8 DEF DetInv, ProposalsProven
<1> QED
  BY <1>2, <1>3, <1>4

\* The pages read, and the review.
LEMMA DetReads ==
  ASSUME DetTypeOK, DetInv, CallTypeOK, CallInv, DetPage \/ DetReview \/ DetVerdict
  PROVE  DetTypeOK' /\ DetInv' /\ CallTypeOK' /\ CallInv' /\ UNCHANGED vaultVars
<1>1. UNCHANGED call => CallTypeOK' /\ CallInv'
  BY DEF CallTypeOK, CallInv
<1>2. CASE DetPage
  <2>1. det.at = "evidence" /\ UNCHANGED <<call, vaultVars>>
    BY <1>2 DEF DetPage
  <2>2. CASE DetEnds("raised")
    BY <1>1, <2>1, <2>2, DetFails
  <2>3. CASE Unread # {} /\ \E page \in Pages \ {"unread"} : det' = [det EXCEPT !.page[CHOOSE f \in Unread : TRUE] = page]
    <3>1. PICK g \in Unread : g = CHOOSE f \in Unread : TRUE
      BY <2>3
    <3>2. PICK page \in Pages : det' = [det EXCEPT !.page[g] = page]
      BY <2>3, <3>1
    <3>3. g \in Fields /\ HasPage(det.found[g])
      BY DEF Unread, DetTypeOK
    <3>4. DetTypeOK'
      <4>1. det'.running = det.running
        BY <3>2 DEF DetTypeOK
      <4> QED
        BY <3>2, <3>3, <4>1 DEF DetTypeOK
    <3>5. /\ det'.at = "evidence" /\ det'.found = det.found /\ det'.recommended = det.recommended
          /\ \A h \in Fields : h # g => det'.page[h] = det.page[h]
      BY <2>1, <3>2, <3>3 DEF DetTypeOK
    <3> QED
      BY <1>1, <2>1, <3>3, <3>4, <3>5 DEF DetInv, ProposalsProven
  <2> QED
    BY <1>2, <2>2, <2>3 DEF DetPage
<1>3. CASE DetReview
  <2>1. det.at = "evidence" /\ UNCHANGED vaultVars /\ det' = [det EXCEPT !.at = "review"]
    BY <1>3 DEF DetReview
  <2>2. CallTypeOK' /\ CallInv'
    <3>1. CASE UNCHANGED call
      BY <1>1, <3>1
    <3>2. CASE det.reviewer # "none" /\ Call(det.reviewer, FALSE, FALSE)
      <4>1. det.reviewer \in Providers
        BY <3>2 DEF DetTypeOK
      <4> QED
        BY <3>2, <4>1, Calling
    <3> QED
      BY <1>3, <3>1, <3>2 DEF DetReview
  <2>3. DetTypeOK'
    BY <2>1 DEF DetTypeOK
  <2>4. /\ det'.at = "review" /\ det'.found = det.found /\ det'.recommended = det.recommended /\ det'.page = det.page
    BY <2>1 DEF DetTypeOK
  <2> QED
    BY <2>1, <2>2, <2>3, <2>4 DEF DetInv, ProposalsProven
<1>4. CASE DetVerdict
  <2>1. det.at = "review" /\ UNCHANGED vaultVars /\ (UNCHANGED call \/ HangUp)
    BY <1>4 DEF DetVerdict
  <2>2. CallTypeOK' /\ CallInv'
    BY <1>1, <2>1, HungUp
  <2>3. Unchecked \in [Fields -> Verdicts] /\ \A g \in Fields : Unchecked[g] # "ok"
    BY DEF Unchecked, Verdicts
  <2>4. CASE \E identity \in {"unasked", "yes", "no", "unsure"} : Reviewed(Unchecked, identity)
    BY <2>1, <2>2, <2>3, <2>4, Reviewing
  <2>5. ASSUME NEW said \in [Surviving -> {"ok", "doubtful", "unchecked"}], NEW identity \in {"yes", "no", "unsure"},
               Reviewed([f \in Fields |-> IF f \in Surviving THEN said[f] ELSE "none"], identity)
        PROVE  DetTypeOK' /\ DetInv'
    <3>1. [f \in Fields |-> IF f \in Surviving THEN said[f] ELSE "none"] \in [Fields -> Verdicts]
      BY DEF Verdicts
    <3> QED
      BY <2>1, <2>5, <3>1, Reviewing
  <2> QED
    BY <1>4, <2>1, <2>2, <2>4, <2>5 DEF DetVerdict
<1> QED
  BY <1>2, <1>3, <1>4

-----------------------------------------------------------------------------
(* Maintenance: the list and the choice of what to change.                 *)

\* The positions of a job's list.
LEMMA ListSlots ==
  ASSUME ManTypeOK
  PROVE  DOMAIN man.list \subseteq Slots /\ \A p \in DOMAIN man.list : man.list[p] \in Changes
<1>1. man.list \in Seq(Changes) /\ Len(man.list) \in Nat /\ Len(man.list) <= MaxChanges /\ MaxChanges \in Nat
  BY OperationsAssumption DEF ManTypeOK
<1>2. DOMAIN man.list = 1..Len(man.list)
  BY <1>1
<1>3. \A p \in 1..Len(man.list) : p \in 1..MaxChanges
  BY <1>1
<1> QED
  BY <1>1, <1>2, <1>3 DEF Slots

\* The uids stay apart while records and list stay.
LEMMA SameList ==
  ASSUME UidInv, man.at # "idle", UNCHANGED vaultVars, man'.docs = man.docs
  PROVE  UidInv'
<1>1. man # NoWork
  BY DEF NoWork
<1> QED
  BY <1>1 DEF UidInv, vaultVars, Live, Body, Known

\* A list of the records as they are.
LEMMA NewList ==
  ASSUME UidInv, man.at # "idle", UNCHANGED vaultVars,
         \A t \in Ids : man'.docs[t] # Gone => t \in Live /\ man'.docs[t] = Body(t)
  PROVE  UidInv'
<1>1. man # NoWork
  BY DEF NoWork
<1> QED
  BY <1>1 DEF UidInv, vaultVars, Live, Body, Known

\* What was written still answers its change while records stay.
LEMMA AnswersStay ==
  ASSUME UNCHANGED vaultVars, NEW p, Answers(p), man'.list[p] = man.list[p], man'.wrote[p] = man.wrote[p],
         man'.kind = man.kind
  PROVE  Answers(p)'
BY DEF Answers, Pairings, vaultVars, Live, Body

\* A job that fails as a whole.
LEMMA ManFails ==
  ASSUME ManTypeOK, ManInv, UidInv, man.at \in {"start", "answer"}, UNCHANGED vaultVars, ManEnds("raised")
  PROVE  ManTypeOK' /\ ManInv' /\ UidInv' /\ man'.kind = man.kind /\ man'.list = man.list
<1>1. man' = [man EXCEPT !.at = "end", !.outcome = "raised"]
  BY DEF ManEnds
<1>2. ManTypeOK'
  BY <1>1 DEF ManTypeOK, ManPlaces
<1>3. /\ man'.at = "end" /\ man'.outcome = "raised" /\ man'.applied = man.applied /\ man'.list = man.list
      /\ man'.docs = man.docs /\ man'.kind = man.kind
  BY <1>1 DEF ManTypeOK
<1>4. ManInv'
  BY <1>3 DEF ManInv, Accounted, Working, Pairings, vaultVars
<1>5. UidInv'
  BY <1>3, SameList
<1> QED
  BY <1>2, <1>3, <1>4, <1>5

\* Until there is something to apply.
LEMMA Preparing ==
  ASSUME ManInv, man.at \in {"start", "answer", "match", "choose"}, UNCHANGED vaultVars, Pairings,
         man'.at \in {"answer", "match", "choose"}, man'.kind = man.kind, man'.list = man.list,
         \A t \in man'.changed : man'.docs[t] # Gone, man'.failed \subseteq DOMAIN man.list,
         man'.applied = {}, man'.outcome = "none", man'.at = "choose" => man'.match \in Ids,
         \A m \in Ids : Good(man'.docs[m]) => rated[m]
  PROVE  ManInv'
<1>1. \A p \in DOMAIN man.list : man.list[p].doc \in Ids
  BY DEF ManInv
<1>2. Pairings'
  BY DEF Pairings
<1>3. Accounted'
  BY DEF Accounted, Working
<1>4. rated' = rated
  BY DEF vaultVars
<1> QED
  BY <1>1, <1>2, <1>3, <1>4 DEF ManInv, Known, Working, Good

\* The list is made, and the model asked.
LEMMA ManBegins ==
  ASSUME ManTypeOK, ManInv, UidInv, VaultTypeOK, VaultInv, CallTypeOK, CallInv, ManBegin
  PROVE  /\ ManTypeOK' /\ ManInv' /\ UidInv' /\ CallTypeOK' /\ CallInv' /\ UNCHANGED vaultVars
         /\ man'.kind = man.kind /\ man'.list = man.list
<1>1. man.at = "start" /\ UNCHANGED vaultVars /\ Pairings
  BY DEF ManBegin
<1>2. UNCHANGED call => CallTypeOK' /\ CallInv'
  BY DEF CallTypeOK, CallInv
<1>3. CASE ManEnds("raised") /\ UNCHANGED call
  BY <1>1, <1>2, <1>3, ManFails
<1>4. CASE ~(ManEnds("raised") /\ UNCHANGED call)
  <2> DEFINE targets == Targets
             rematched == {t \in targets : Body(t).profile}
             failed == Lacking(targets)
             chosen == [id \in Ids |-> IF id \in rematched THEN Strip(Body(id).matches) ELSE {}]
             docs == Snapshot
  <2>1. \/ /\ UNCHANGED call
           /\ man' = [man EXCEPT !.docs = docs, !.failed = failed, !.at = "match",
                                 !.changed = rematched, !.unmatched = rematched, !.chosen = chosen]
        \/ /\ man.model # "none" /\ Call(man.model, FALSE, TRUE)
           /\ man' = [man EXCEPT !.docs = docs, !.changed = targets, !.failed = failed, !.at = "answer"]
    <3>1. \/ /\ UNCHANGED call
             /\ man' = [[man EXCEPT !.docs = docs, !.changed = targets, !.failed = failed]
                        EXCEPT !.at = "match", !.changed = rematched, !.unmatched = rematched, !.chosen = chosen]
          \/ /\ man.model # "none" /\ Call(man.model, FALSE, TRUE)
             /\ man' = [[man EXCEPT !.docs = docs, !.changed = targets, !.failed = failed] EXCEPT !.at = "answer"]
      BY <1>4 DEF ManBegin
    <3> HIDE DEF docs, targets, failed, rematched, chosen
    <3> QED
      BY <3>1 DEF ManTypeOK
  <2>2. /\ docs \in [Ids -> Bodies \cup {Gone}]
        /\ \A t \in Ids : docs[t] # Gone => t \in Live /\ docs[t] = Body(t)
        /\ \A t \in Items : t \in Ids /\ docs[t] # Gone
    BY DEF Snapshot, Items, Live, Body, VaultTypeOK
  <2>3. /\ man.changed = {} /\ man.applied = {} /\ man.outcome = "none"
        /\ \A m \in Ids : Good(docs[m]) => rated[m]
    <3>1. man.applied = {} /\ man.outcome = "none" /\ man.changed = {}
      BY <1>1 DEF ManInv, Accounted
    <3>2. \A m \in Ids : Good(docs[m]) => rated[m]
      BY <2>2 DEF Good, VaultInv
    <3> QED
      BY <3>1, <3>2
  <2>4. /\ targets \subseteq Items /\ rematched \subseteq targets /\ targets \subseteq Ids
        /\ failed \subseteq DOMAIN man.list
        /\ chosen \in [Ids -> SUBSET (Ids \cup {NameOnly})]
    BY DEF Strip, Targets, Lacking, Items, Live
  <2>10. DOMAIN man.list \subseteq Slots
    BY ListSlots
  <2> HIDE DEF docs, targets, failed, rematched, chosen
  <2>5. ManTypeOK'
    <3>1. /\ targets \in SUBSET Ids /\ rematched \in SUBSET Ids /\ failed \in SUBSET Slots
          /\ docs \in [Ids -> Bodies \cup {Gone}] /\ chosen \in [Ids -> SUBSET (Ids \cup {NameOnly})]
      BY <2>2, <2>3, <2>4, <2>10
    <3>2. CASE man' = [man EXCEPT !.docs = docs, !.changed = targets, !.failed = failed, !.at = "answer"]
      BY <3>1, <3>2 DEF ManTypeOK, ManPlaces
    <3>3. CASE man' = [man EXCEPT !.docs = docs, !.failed = failed, !.at = "match",
                                 !.changed = rematched, !.unmatched = rematched, !.chosen = chosen]
      BY <3>1, <3>3 DEF ManTypeOK, ManPlaces
    <3> QED
      BY <2>1, <3>2, <3>3
  <2>6. /\ man'.at \in {"answer", "match"} /\ man'.kind = man.kind /\ man'.list = man.list /\ man'.docs = docs
        /\ man'.failed = failed /\ man'.changed \in {rematched, targets}
        /\ man'.applied = {} /\ man'.outcome = "none"
    <3>1. CASE man' = [man EXCEPT !.docs = docs, !.changed = targets, !.failed = failed, !.at = "answer"]
      BY <2>3, <3>1 DEF ManTypeOK
    <3>2. CASE man' = [man EXCEPT !.docs = docs, !.failed = failed, !.at = "match",
                                 !.changed = rematched, !.unmatched = rematched, !.chosen = chosen]
      BY <2>3, <3>2 DEF ManTypeOK
    <3> QED
      BY <2>1, <3>1, <3>2
  <2>7. ManInv'
    BY <1>1, <2>2, <2>3, <2>4, <2>6, Preparing
  <2>8. UidInv'
    BY <1>1, <2>2, <2>6, NewList
  <2>9. CallTypeOK' /\ CallInv'
    <3>1. man.model \in Providers \cup {"none"}
      BY DEF ManTypeOK
    <3> QED
      BY <1>2, <2>1, <3>1, Calling
  <2> QED
    BY <1>1, <2>5, <2>6, <2>7, <2>8, <2>9
<1> QED
  BY <1>3, <1>4

\* The model's proposals, and the matches chosen for each.
LEMMA ManPrepares ==
  ASSUME ManTypeOK, ManInv, UidInv, CallTypeOK, CallInv, ManAnswer \/ ManMatch \/ ManChoose
  PROVE  /\ ManTypeOK' /\ ManInv' /\ UidInv' /\ CallTypeOK' /\ CallInv' /\ UNCHANGED vaultVars
         /\ man'.kind = man.kind /\ man'.list = man.list
<1>1. man.at \in {"answer", "match", "choose"} /\ UNCHANGED vaultVars /\ (HangUp \/ UNCHANGED call)
  BY DEF ManAnswer, ManMatch, ManChoose
<1>2. CallTypeOK' /\ CallInv'
  <2>1. UNCHANGED call => CallTypeOK' /\ CallInv'
    BY DEF CallTypeOK, CallInv
  <2> QED
    BY <1>1, <2>1, HungUp
<1>3. /\ man.failed \subseteq DOMAIN man.list /\ man.changed \subseteq Ids
      /\ man.applied = {} /\ man.outcome = "none" /\ \A t \in man.changed : man.docs[t] # Gone
      /\ Pairings /\ \A m \in Ids : Good(man.docs[m]) => rated[m]
  BY <1>1 DEF ManInv, Accounted, ManTypeOK, Known
<1>4. CASE ManAnswer
  <2>1. CASE ManEnds("raised")
    <3>1. man.at = "answer"
      BY <1>4 DEF ManAnswer
    <3> QED
      BY <1>1, <1>2, <2>1, <3>1, ManFails
  <2>2. ASSUME NEW changed \in SUBSET man.changed, NEW guess \in Guesses,
               man' = [man EXCEPT !.at = "match", !.changed = changed, !.unmatched = changed,
                                  !.chosen = [id \in Ids |-> IF id \in changed THEN guess ELSE {}]]
        PROVE  ManTypeOK' /\ ManInv' /\ UidInv' /\ man'.kind = man.kind /\ man'.list = man.list
    <3> DEFINE chosen == [id \in Ids |-> IF id \in changed THEN guess ELSE {}]
    <3>1. chosen \in [Ids -> SUBSET (Ids \cup {NameOnly})] /\ changed \in SUBSET Ids
      BY <1>3, OperationsAssumption
    <3>2. man' = [man EXCEPT !.at = "match", !.changed = changed, !.unmatched = changed, !.chosen = chosen]
      BY <2>2
    <3> HIDE DEF chosen
    <3>3. ManTypeOK'
      BY <3>1, <3>2 DEF ManTypeOK, ManPlaces
    <3>4. /\ man'.at = "match" /\ man'.kind = man.kind /\ man'.list = man.list /\ man'.docs = man.docs
          /\ man'.failed = man.failed /\ man'.changed = changed
          /\ man'.applied = man.applied /\ man'.outcome = man.outcome
      BY <3>2 DEF ManTypeOK
    <3>5. ManInv'
      BY <1>1, <1>3, <3>4, Preparing
    <3> QED
      BY <1>1, <3>3, <3>4, <3>5, SameList
  <2> QED
    BY <1>1, <1>2, <1>4, <2>1, <2>2 DEF ManAnswer
<1>5. ASSUME ManTypeOK', man'.at \in {"match", "choose"}, man'.at = "choose" => man'.match \in Ids,
             man'.kind = man.kind, man'.list = man.list, man'.docs = man.docs,
             man'.failed = man.failed, man'.changed = man.changed,
             man'.applied = man.applied, man'.outcome = man.outcome
      PROVE  ManInv' /\ UidInv'
  <2>1. ManInv'
    BY <1>1, <1>3, <1>5, Preparing
  <2> QED
    BY <1>1, <1>5, <2>1, SameList
<1>6. CASE ManMatch
  <2>1. man.at = "match" /\ man.unmatched # {}
    BY <1>6 DEF ManMatch
  <2>2. PICK t \in man.unmatched :
          \/ man' = [man EXCEPT !.unmatched = @ \ {t}]
          \/ man' = [[man EXCEPT !.unmatched = @ \ {t}] EXCEPT !.at = "choose", !.match = t, !.options = Candidates(t)]
    BY <1>6, <2>1 DEF ManMatch
  <2> DEFINE left == man.unmatched \ {t}
             options == Candidates(t)
  <2>3. left \in SUBSET Ids /\ options \in SUBSET Ids /\ t \in Ids
    BY DEF ManTypeOK, Candidates, Live
  <2>4. \/ man' = [man EXCEPT !.unmatched = left]
        \/ man' = [[man EXCEPT !.unmatched = left] EXCEPT !.at = "choose", !.match = t, !.options = options]
    BY <2>2
  <2> HIDE DEF left, options
  <2>5. CASE man' = [man EXCEPT !.unmatched = left]
    <3>1. ManTypeOK'
      BY <2>3, <2>5 DEF ManTypeOK, ManPlaces
    <3>2. /\ man'.at = "match" /\ man'.kind = man.kind /\ man'.list = man.list /\ man'.docs = man.docs
          /\ man'.failed = man.failed /\ man'.changed = man.changed
          /\ man'.applied = man.applied /\ man'.outcome = man.outcome
      BY <2>1, <2>5 DEF ManTypeOK
    <3> QED
      BY <1>1, <1>2, <1>5, <3>1, <3>2
  <2>6. CASE man' = [[man EXCEPT !.unmatched = left] EXCEPT !.at = "choose", !.match = t, !.options = options]
    <3>1. ManTypeOK'
      BY <2>3, <2>6 DEF ManTypeOK, ManPlaces
    <3>2. /\ man'.at = "choose" /\ man'.kind = man.kind /\ man'.list = man.list /\ man'.docs = man.docs
          /\ man'.failed = man.failed /\ man'.changed = man.changed
          /\ man'.applied = man.applied /\ man'.outcome = man.outcome /\ man'.match = t
      BY <2>6 DEF ManTypeOK
    <3> QED
      BY <1>1, <1>2, <1>5, <2>3, <3>1, <3>2
  <2> QED
    BY <2>4, <2>5, <2>6
<1>7. CASE ManChoose
  <2>1. man.at = "choose" /\ man.match \in Ids
    BY <1>7 DEF ManChoose, ManInv
  <2>2. CASE man' = [man EXCEPT !.at = "match", !.match = NoId, !.options = {}]
    <3>1. ManTypeOK'
      BY <2>2 DEF ManTypeOK, ManPlaces
    <3>2. /\ man'.at = "match" /\ man'.kind = man.kind /\ man'.list = man.list /\ man'.docs = man.docs
          /\ man'.failed = man.failed /\ man'.changed = man.changed
          /\ man'.applied = man.applied /\ man'.outcome = man.outcome
      BY <2>2 DEF ManTypeOK
    <3> QED
      BY <1>1, <1>2, <1>5, <3>1, <3>2
  <2>3. ASSUME NEW m \in LikelyTwo(man.options),
               man' = [[man EXCEPT !.at = "match", !.match = NoId, !.options = {}]
                       EXCEPT !.chosen[man.match] = m, !.answered = @ \cup {man.match}]
        PROVE  ManTypeOK' /\ ManInv' /\ UidInv' /\ man'.kind = man.kind /\ man'.list = man.list
    <3>1. m \in SUBSET (Ids \cup {NameOnly})
      BY DEF LikelyTwo, ManTypeOK
    <3> DEFINE chosen == [man.chosen EXCEPT ![man.match] = m]
               answered == man.answered \cup {man.match}
    <3>2. chosen \in [Ids -> SUBSET (Ids \cup {NameOnly})] /\ answered \in SUBSET Ids
      BY <2>1, <3>1 DEF ManTypeOK
    <3>3. man' = [[man EXCEPT !.at = "match", !.match = NoId, !.options = {}] EXCEPT !.chosen = chosen, !.answered = answered]
      BY <2>3 DEF ManTypeOK
    <3> HIDE DEF chosen, answered
    <3>4. ManTypeOK'
      BY <3>2, <3>3 DEF ManTypeOK, ManPlaces
    <3>5. /\ man'.at = "match" /\ man'.kind = man.kind /\ man'.list = man.list /\ man'.docs = man.docs
          /\ man'.failed = man.failed /\ man'.changed = man.changed
          /\ man'.applied = man.applied /\ man'.outcome = man.outcome
      BY <3>3 DEF ManTypeOK
    <3> QED
      BY <1>5, <3>4, <3>5
  <2> QED
    BY <1>1, <1>2, <1>7, <2>2, <2>3 DEF ManChoose
<1> QED
  BY <1>4, <1>6, <1>7

\* Now the changes can be applied: those chosen that are still well rated by the
\* list, or those of an approved plan.
LEMMA ManDecides ==
  ASSUME ManTypeOK, ManInv, UidInv, VaultTypeOK, VaultInv, ManEnforce \/ PlanApproved
  PROVE  /\ ManTypeOK' /\ ManInv' /\ UidInv' /\ UNCHANGED <<call, vaultVars>>
         /\ man'.kind = man.kind /\ (man.kind = "apply" => man'.list = man.list)
<1>1. UNCHANGED <<call, vaultVars>>
  BY DEF ManEnforce, PlanApproved
<1>2. CASE ManEnforce
  <2>1. man.at = "match"
    BY <1>2 DEF ManEnforce
  <2>2. /\ man.applied = {} /\ man.outcome = "none" /\ Pairings /\ \A t \in man.changed : Known(t)
        /\ \A m \in Ids : Good(man.docs[m]) => rated[m]
        /\ \A p \in DOMAIN man.list : man.list[p].doc \in Ids
    BY <2>1 DEF ManInv, Accounted
  <2> DEFINE list == [p \in DOMAIN man.list |-> IF man.list[p].doc \in man.changed THEN Repair(man.list[p].doc) ELSE man.list[p]]
             failed == Lacking(man.changed)
  <2>3. man' = [man EXCEPT !.at = "apply", !.failed = failed, !.list = list]
    BY <1>2 DEF ManEnforce
  <2>4. ASSUME NEW t \in man.changed
        PROVE  Repair(t) \in Changes /\ Repair(t).doc = t /\ Repair(t).uid = man.docs[t].uid /\ WereGood(Repair(t).matches)
    <3>1. t \in Ids /\ man.docs[t].uid \in Nat
      BY <2>2 DEF ManTypeOK, Known, Bodies, BodiesOf
    <3> DEFINE uid == man.docs[t].uid
               m == Enforced(man.chosen[t], man.docs)
    <3>2. m \in SUBSET (Ids \cup {NameOnly}) /\ WereGood(m)
      <4>1. man.chosen[t] \subseteq Ids \cup {NameOnly}
        BY <3>1 DEF ManTypeOK
      <4> QED
        BY <2>2, <4>1 DEF Enforced, WereGood
    <3>6. Repair(t) = [Asked(t) EXCEPT !.uid = uid, !.pairings = "profiled", !.matches = m]
      BY DEF Repair
    <3>4. Unnamed \in Unnamed..(MaxRating + 1)
      BY Numbers DEF Unnamed
    <3> HIDE DEF uid, m
    <3>3. Repair(t) = [uid |-> uid, doc |-> t, rating |-> Unnamed, pairings |-> "profiled", matches |-> m, mint |-> FALSE]
      BY <3>6 DEF Asked
    <3>5. Repair(t) \in Changes
      BY <3>1, <3>2, <3>3, <3>4 DEF Changes, uid
    <3> QED
      BY <3>1, <3>2, <3>3, <3>5 DEF uid
  <2>5. /\ list \in Seq(Changes) /\ Len(list) = Len(man.list) /\ DOMAIN list = DOMAIN man.list
        /\ failed \subseteq DOMAIN man.list /\ DOMAIN man.list \subseteq Slots
        /\ \A p \in DOMAIN man.list \ failed : list[p] = Repair(man.list[p].doc) /\ man.list[p].doc \in man.changed
        /\ \A p \in DOMAIN man.list : list[p].doc \in Ids
    <3>1. man.list \in Seq(Changes)
      BY DEF ManTypeOK
    <3>2. \A p \in DOMAIN man.list : man.list[p] \in Changes /\ list[p] \in Changes /\ list[p].doc \in Ids
      BY <2>2, <2>4, <3>1
    <3>3. DOMAIN man.list = 1..Len(man.list) /\ Len(man.list) \in Nat
      BY <3>1
    <3>4. list \in [1..Len(man.list) -> Changes]
      BY <3>2, <3>3
    <3>5. \A p \in DOMAIN man.list \ failed : list[p] = Repair(man.list[p].doc) /\ man.list[p].doc \in man.changed
      BY DEF Lacking
    <3>6. failed \subseteq DOMAIN man.list
      BY DEF Lacking
    <3>7. DOMAIN list = DOMAIN man.list
      OBVIOUS
    <3> HIDE DEF list, failed
    <3>8. list \in Seq(Changes) /\ Len(list) = Len(man.list)
      BY <3>3, <3>4
    <3> QED
      BY <3>2, <3>5, <3>6, <3>7, <3>8, ListSlots
  <2>6. \A p \in DOMAIN list \ failed :
          /\ list[p].doc \in Ids /\ Known(list[p].doc) /\ list[p].uid = man.docs[list[p].doc].uid
          /\ WereGood(list[p].matches)
    <3> SUFFICES ASSUME NEW p \in DOMAIN man.list, p \notin failed
                 PROVE  /\ list[p].doc \in Ids /\ Known(list[p].doc) /\ list[p].uid = man.docs[list[p].doc].uid
                        /\ WereGood(list[p].matches)
      BY <2>5
    <3> DEFINE t == man.list[p].doc
    <3>1. list[p] = Repair(t) /\ t \in man.changed
      BY <2>5
    <3>2. t \in Ids /\ Known(t)
      BY <2>2, <3>1
    <3> HIDE DEF t, list, failed
    <3> QED
      BY <2>4, <3>1, <3>2
  <2> HIDE DEF list, failed
  <2>7. ManTypeOK'
    <3>1. failed \in SUBSET Slots
      BY <2>5
    <3>2. Len(list) <= MaxChanges
      BY <2>5 DEF ManTypeOK
    <3> QED
      BY <2>3, <2>5, <3>1, <3>2 DEF ManTypeOK, ManPlaces
  <2>8. /\ man'.at = "apply" /\ man'.failed = failed /\ man'.list = list
        /\ man'.kind = man.kind /\ man'.docs = man.docs
        /\ man'.changed = man.changed /\ man'.applied = man.applied /\ man'.outcome = man.outcome
    BY <2>3 DEF ManTypeOK
  <2>9. Accounted'
    BY <2>2, <2>5, <2>8 DEF Accounted, Working
  <2>10. \A p \in DOMAIN man'.list \ man'.failed : Sound(p)'
    BY <1>1, <2>6, <2>8 DEF Sound, Known, WereGood, vaultVars
  <2>11. ManInv'
    BY <1>1, <2>2, <2>5, <2>8, <2>9, <2>10 DEF ManInv, vaultVars, Pairings, Kinds, Good, Working
  <2>12. man.kind # "apply"
    BY <2>2 DEF Pairings
  <2> QED
    BY <1>1, <2>1, <2>7, <2>8, <2>11, <2>12, SameList
<1>3. CASE PlanApproved
  <2>1. man.at = "start" /\ man.kind = "apply" /\ man' = [man EXCEPT !.at = "apply"]
    BY <1>3 DEF PlanApproved
  <2>2. /\ man.failed = {} /\ man.applied = {} /\ man.outcome = "none"
        /\ \A m \in Ids : Good(man.docs[m]) => rated[m]
    BY <2>1 DEF ManInv, Accounted
  <2>3. ManTypeOK'
    BY <2>1 DEF ManTypeOK, ManPlaces
  <2>4. /\ man'.at = "apply" /\ man'.kind = man.kind /\ man'.list = man.list /\ man'.docs = man.docs
        /\ man'.failed = man.failed /\ man'.applied = man.applied /\ man'.outcome = man.outcome
    BY <2>1 DEF ManTypeOK
  <2>5. Accounted'
    BY <2>2, <2>4 DEF Accounted, Working
  <2>6. ~Pairings'
    BY <2>1, <2>4 DEF Pairings
  <2>7. ManInv'
    BY <1>1, <2>1, <2>2, <2>4, <2>5, <2>6 DEF ManInv, vaultVars, Kinds, Good
  <2> QED
    BY <1>1, <2>1, <2>3, <2>4, <2>7, SameList
<1> QED
  BY <1>2, <1>3

-----------------------------------------------------------------------------
(* Maintenance: the changes applied, record by record.                     *)

\* The uids stay apart when a record is put with its own, or with a new one.
LEMMA PutKeepsUids ==
  ASSUME UidInv, man # NoWork, VaultTypeOK, ManTypeOK, man'.docs = man.docs,
         NEW id \in Live, NEW body \in Bodies \cup {Gone}, Put(id, body),
         body # Gone => body.uid = Body(id).uid \/ body.uid = NewUid
  PROVE  UidInv'
<1>2. /\ \A i \in Live : Body(i).uid <= minted /\ \A j \in Live : Body(i).uid = Body(j).uid => i = j \/ Body(i).uid = NoUid
      /\ \A t \in Ids : Known(t) =>
           man.docs[t].uid <= minted /\ \A i \in Live : Body(i).uid = man.docs[t].uid => i = t \/ man.docs[t].uid = NoUid
  BY DEF UidInv
<1>3. /\ id \in Ids /\ minted \in Nat /\ \A i \in Live : i \in Ids /\ Body(i).uid \in Nat
      /\ \A t \in Ids : Known(t) => man.docs[t].uid \in Nat
  BY DEF Live, Body, Bodies, BodiesOf, VaultTypeOK, ManTypeOK, Known
<1>4. minted' \in Nat /\ minted <= minted' /\ (body # Gone => body.uid <= minted')
  BY <1>3, Putting
<1>5. ASSUME NEW i \in Live'
      PROVE  \/ i # id /\ i \in Live /\ Body(i)' = Body(i)
             \/ i = id /\ body # Gone /\ Body(i)' = body
  BY <1>3, Putting DEF Live, Body
<1>6. body # Gone => body.uid = Body(id).uid \/ body.uid = minted + 1
  BY DEF NewUid
<1>7. ASSUME NEW i \in Live' PROVE Body(i)'.uid <= minted'
  <2>1. CASE i # id /\ i \in Live /\ Body(i)' = Body(i)
    BY <1>2, <1>3, <1>4, <2>1
  <2> QED
    BY <1>4, <1>5, <2>1
<1>8. ASSUME NEW i \in Live', NEW j \in Live', Body(i)'.uid = Body(j)'.uid PROVE i = j \/ Body(i)'.uid = NoUid
  <2>1. CASE i # id /\ j # id
    BY <1>2, <1>5, <1>8, <2>1
  <2>2. ASSUME NEW k \in Live, k # id, body # Gone, body.uid = Body(k).uid PROVE body.uid = NoUid
    <3>1. Body(k).uid # minted + 1
      BY <1>2, <1>3
    <3>2. Body(id).uid = Body(k).uid
      BY <1>6, <2>2, <3>1
    <3> QED
      BY <1>2, <2>2, <3>2
  <2>3. CASE i # id /\ j = id
    BY <1>5, <1>8, <2>2, <2>3
  <2>4. CASE i = id /\ j # id
    BY <1>5, <1>8, <2>2, <2>4
  <2> QED
    BY <2>1, <2>3, <2>4
<1>9. ASSUME NEW t \in Ids, Known(t)
      PROVE  man.docs[t].uid <= minted' /\ \A i \in Live' : Body(i)'.uid = man.docs[t].uid => i = t \/ man.docs[t].uid = NoUid
  <2>1. man.docs[t].uid \in Nat /\ man.docs[t].uid <= minted
    BY <1>2, <1>3, <1>9
  <2>2. man.docs[t].uid <= minted'
    BY <1>3, <1>4, <2>1
  <2>3. ASSUME NEW i \in Live', Body(i)'.uid = man.docs[t].uid PROVE i = t \/ man.docs[t].uid = NoUid
    <3>1. CASE i # id
      BY <1>2, <1>5, <1>9, <2>3, <3>1
    <3>2. CASE i = id
      <4>1. body # Gone /\ body.uid = man.docs[t].uid
        BY <1>5, <2>3, <3>2
      <4>2. man.docs[t].uid # minted + 1
        BY <1>3, <2>1
      <4>3. Body(id).uid = man.docs[t].uid
        BY <1>6, <4>1, <4>2
      <4> QED
        BY <1>2, <1>9, <3>2, <4>3
    <3> QED
      BY <3>1, <3>2
  <2> QED
    BY <2>2, <2>3
<1>10. \A t \in Ids : Known(t)' <=> Known(t)
  BY DEF Known
<1> QED
  BY <1>7, <1>8, <1>9, <1>10 DEF UidInv

\* What was written still answers its change when another process or another change
\* puts a record with its own uid, with its first uid, or deletes it.
LEMMA AnswersKept ==
  ASSUME VaultTypeOK, NEW id \in Live, NEW body \in Bodies \cup {Gone}, Put(id, body),
         body # Gone => body.uid = Body(id).uid \/ Body(id).uid = NoUid,
         NEW p, Answers(p), man'.list[p] = man.list[p], man'.wrote[p] = man.wrote[p], man'.kind = man.kind
  PROVE  Answers(p)'
<1> DEFINE c == man.list[p]
           w == man.wrote[p]
<1>1. w \in Ids /\ (w = c.doc \/ (~Pairings /\ c.uid # NoUid /\ (w \in Live => Body(w).uid = c.uid)))
  BY DEF Answers
<1>2. id \in Ids
  BY DEF Live
<1>3. w \in Live' => w \in Live
  BY <1>1, <1>2, Putting DEF Live, Body
<1>4. ASSUME c.uid # NoUid, w \in Live', Body(w).uid = c.uid PROVE Body(w)'.uid = c.uid
  <2>1. CASE w = id
    BY <1>2, <1>4, <2>1, Putting DEF Live, Body
  <2>2. CASE w # id
    BY <1>1, <1>2, <2>2, <1>4, Putting DEF Body
  <2> QED
    BY <2>1, <2>2
<1>5. (Pairings' <=> Pairings) /\ man'.list[p] = c /\ man'.wrote[p] = w
  BY DEF Pairings
<1> HIDE DEF c, w
<1>6. Body(w)' = records'[w].body
  BY <1>5 DEF Body, w
<1> QED
  BY <1>1, <1>3, <1>4, <1>5, <1>6 DEF Answers, Body, c, w

\* While changes are applied.
LEMMA Applying ==
  ASSUME ManInv, man.at \in Working, man'.at \in Working,
         man'.kind = man.kind, man'.list = man.list, man'.docs = man.docs, man'.outcome = man.outcome,
         man'.applied \cup man'.failed \subseteq DOMAIN man.list, man'.applied \cap man'.failed = {},
         man.failed \subseteq man'.failed,
         \A p \in man'.applied : Answers(p)',
         man'.at # "apply" => man'.item \in DOMAIN man.list \ (man'.applied \cup man'.failed),
         man'.at = "saved" => Answers(man.item)',
         man'.at = "write" => ReadInv',
         \A m \in Ids : rated[m] => rated'[m]
  PROVE  ManInv'
<1>1. /\ man.outcome = "none" /\ \A m \in Ids : Good(man.docs[m]) => rated[m]
      /\ Pairings => \A p \in DOMAIN man.list \ man.failed : Sound(p)
      /\ Pairings => \A p \in DOMAIN man.list : man.list[p].doc \in Ids
  BY DEF ManInv, Accounted, Working
<1>2. Accounted'
  BY <1>1 DEF Accounted, Waiting, Working
<1>3. Pairings' <=> Pairings
  BY DEF Pairings
<1>4. ASSUME Pairings, NEW p \in DOMAIN man.list \ man'.failed PROVE Sound(p)'
  <2>1. Sound(p)
    BY <1>1, <1>4
  <2> QED
    BY <2>1 DEF Sound, Known, WereGood
<1>5. \A m \in Ids : Good(man'.docs[m]) => rated'[m]
  BY <1>1
<1>6. Pairings => \A p \in DOMAIN man'.list \ man'.failed : Sound(p)'
  BY <1>4 DEF Sound, Known, WereGood
<1> QED
  BY <1>1, <1>2, <1>3, <1>5, <1>6 DEF ManInv, Working, Good

\* What is known while changes are applied.
LEMMA WhileApplied ==
  ASSUME ManTypeOK, ManInv, man.at \in Working
  PROVE  /\ man.applied \cup man.failed \subseteq DOMAIN man.list /\ man.applied \cap man.failed = {}
         /\ man.applied \subseteq Slots /\ man.failed \subseteq Slots /\ DOMAIN man.list \subseteq Slots
         /\ man.outcome = "none" /\ \A p \in man.applied : Answers(p)
         /\ man.at # "apply" => man.item \in DOMAIN man.list /\ man.item \notin man.applied \cup man.failed
<1>1. /\ man.applied \cup man.failed \subseteq DOMAIN man.list /\ man.applied \cap man.failed = {}
      /\ man.outcome = "none" /\ \A p \in man.applied : Answers(p)
      /\ man.at # "apply" => man.item \in Waiting
  BY DEF ManInv, Accounted, Working
<1>2. man.applied \in SUBSET Slots /\ man.failed \in SUBSET Slots
  BY DEF ManTypeOK
<1> QED
  BY <1>1, <1>2, ListSlots DEF Waiting

\* A change that fails.
LEMMA ItemFails ==
  ASSUME ManTypeOK, ManInv, man.at \in Working, NEW t \in Waiting, Fails(t),
         \A p \in man.applied : Answers(p)',
         \A m \in Ids : rated[m] => rated'[m]
  PROVE  ManTypeOK' /\ ManInv' /\ man'.docs = man.docs /\ man'.kind = man.kind /\ man'.list = man.list
<1> DEFINE failed == man.failed \cup {t}
<1>1. man' = [man EXCEPT !.at = "apply", !.failed = failed]
  BY DEF Fails
<1>2. t \in DOMAIN man.list /\ t \notin man.applied /\ failed \in SUBSET Slots
  BY WhileApplied DEF Waiting
<1>3. man.applied \cup failed \subseteq DOMAIN man.list /\ man.applied \cap failed = {} /\ man.failed \subseteq failed
  BY <1>2, WhileApplied
<1> HIDE DEF failed
<1>4. ManTypeOK'
  BY <1>1, <1>2 DEF ManTypeOK, ManPlaces
<1>5. /\ man'.at = "apply" /\ man'.failed = failed /\ man'.applied = man.applied
      /\ man'.kind = man.kind /\ man'.list = man.list /\ man'.docs = man.docs /\ man'.outcome = man.outcome
  BY <1>1 DEF ManTypeOK
<1>6. man'.at \in Working
  BY <1>5 DEF Working
<1>7. \A p \in man'.applied : Answers(p)'
  BY <1>5
<1>8. man'.at # "write" /\ man'.at # "saved"
  BY <1>5
<1>9. ManInv'
  BY <1>3, <1>5, <1>6, <1>7, <1>8, Applying
<1> QED
  BY <1>4, <1>5, <1>9

\* The record a change is for is found, if at all, by its uid or its id; a change of
\* the pairings page finds the record it names.
LEMMA FoundAnswers ==
  ASSUME ManInv, UidInv, man.at = "apply", NEW p \in Waiting, NEW i \in Found(man.list[p])
  PROVE  /\ i \in Live
         /\ LET c == man.list[p] IN i = c.doc \/ (~Pairings /\ c.uid # NoUid /\ Body(i).uid = c.uid)
<1> DEFINE c == man.list[p]
<1>1. man # NoWork
  BY DEF NoWork
<1>2. \/ i \in Live /\ c.uid # NoUid /\ Body(i).uid = c.uid
      \/ i = c.doc /\ i \in Live
  BY DEF Found
<1>3. CASE i = c.doc /\ i \in Live
  BY <1>3
<1>4. CASE i \in Live /\ c.uid # NoUid /\ Body(i).uid = c.uid
  <2>1. CASE Pairings
    <3>1. Sound(p)
      BY <2>1 DEF ManInv, Working, Waiting
    <3> QED
      BY <1>1, <1>4, <3>1 DEF Sound, UidInv
  <2> QED
    BY <1>4, <2>1
<1> QED
  BY <1>2, <1>3, <1>4

\* Finding a record, and reading back what was stored.
LEMMA ManReads ==
  ASSUME ManTypeOK, ManInv, UidInv, VaultTypeOK, VaultInv, ManFind \/ ManSaved \/ ManDone
  PROVE  /\ ManTypeOK' /\ ManInv' /\ UidInv' /\ UNCHANGED <<call, vaultVars>>
         /\ man'.kind = man.kind /\ man'.list = man.list
<1>1. man.at \in {"apply", "saved"} /\ man.at \in Working /\ UNCHANGED <<call, vaultVars>>
  BY DEF ManFind, ManSaved, ManDone, Working
<1>2. /\ man.applied \cup man.failed \subseteq DOMAIN man.list /\ man.applied \cap man.failed = {}
      /\ man.applied \subseteq Slots /\ man.failed \subseteq Slots /\ DOMAIN man.list \subseteq Slots
      /\ man.outcome = "none" /\ \A p \in man.applied : Answers(p)
  BY <1>1, WhileApplied
<1>3. rated' = rated /\ records' = records
  BY <1>1 DEF vaultVars
<1>4. ASSUME NEW t \in Waiting, Fails(t)
      PROVE  ManTypeOK' /\ ManInv' /\ UidInv' /\ man'.kind = man.kind /\ man'.list = man.list
  <2>1. man'.list = man.list /\ man'.wrote = man.wrote /\ man'.kind = man.kind
    BY <1>4 DEF Fails, ManTypeOK
  <2>2. \A p \in man.applied : Answers(p)'
    BY <1>1, <1>2, <2>1, AnswersStay
  <2>3. ManTypeOK' /\ ManInv' /\ man'.docs = man.docs
    BY <1>1, <1>3, <1>4, <2>2, ItemFails
  <2> QED
    BY <1>1, <2>1, <2>3, SameList
<1>5. CASE ManFind
  <2>1. PICK t \in Waiting :
          \/ Fails(t)
          \/ \E i \in Found(man.list[t]) :
               man' = [man EXCEPT !.at = "write", !.item = t, !.found = i, !.rev = records[i].rev, !.body = Body(i)]
    <3>1. First \in Waiting
      <4>3. Slots \subseteq Nat
        BY OperationsAssumption DEF Slots
      <4>1. Waiting # {} /\ Waiting \in SUBSET Nat
        BY <1>2, <1>5, <4>3 DEF ManFind, Waiting
      <4>2. \E p \in Waiting : \A q \in Waiting : p <= q
        BY <4>1, Least
      <4> QED
        BY <4>2 DEF First
    <3> QED
      BY <1>5, <3>1 DEF ManFind
  <2>2. CASE ~Fails(t)
    <3>1. PICK i \in Found(man.list[t]) :
            man' = [man EXCEPT !.at = "write", !.item = t, !.found = i, !.rev = records[i].rev, !.body = Body(i)]
      BY <2>1, <2>2
    <3> DEFINE c == man.list[t]
               rev == records[i].rev
               body == Body(i)
    <3>2. /\ i \in Live /\ (i = c.doc \/ (~Pairings /\ c.uid # NoUid /\ body.uid = c.uid))
          /\ t \in DOMAIN man.list \ (man.applied \cup man.failed) /\ t \in Slots
      <4>1. man.at = "apply"
        BY <1>5 DEF ManFind
      <4> QED
        BY <1>2, <4>1, FoundAnswers DEF Waiting
    <3>3. i \in Ids /\ rev \in Nat /\ body \in Bodies /\ body # Gone
      BY <3>2 DEF VaultTypeOK, Body, Live
    <3>4. man' = [man EXCEPT !.at = "write", !.item = t, !.found = i, !.rev = rev, !.body = body]
      BY <3>1
    <3>5. IsItem(i) => MayStand(body.matches)
      BY <3>2 DEF VaultInv, MatchesWereGood, MayStand, Items
    <3> HIDE DEF rev, body
    <3>6. ManTypeOK'
      BY <3>2, <3>3, <3>4 DEF ManTypeOK, ManPlaces
    <3>7. /\ man'.at = "write" /\ man'.item = t /\ man'.found = i /\ man'.rev = rev /\ man'.body = body
          /\ man'.failed = man.failed /\ man'.applied = man.applied /\ man'.wrote = man.wrote
          /\ man'.kind = man.kind /\ man'.list = man.list /\ man'.docs = man.docs /\ man'.outcome = man.outcome
      BY <3>4 DEF ManTypeOK
    <3>8. ReadInv'
      <4>1. IsItem(i) => MayStand(man.body.matches)'
        <5>1. Approved' = Approved
          BY <3>7, SameApproved
        <5> QED
          BY <1>3, <3>5, <3>7, <5>1 DEF MayStand
      <4>2. rev = records'[i].rev /\ Body(i)' = body
        BY <1>3 DEF rev, body, Body
      <4>3. Pairings' <=> Pairings
        BY <3>7 DEF Pairings
      <4>4. man'.list[man'.item] = c
        BY <3>7
      <4> HIDE DEF c
      <4> QED
        BY <3>2, <3>3, <3>7, <4>1, <4>2, <4>3, <4>4 DEF ReadInv, Body, IsItem
    <3>9. \A p \in man'.applied : Answers(p)'
      BY <1>1, <1>2, <3>7, AnswersStay
    <3>10. man'.at \in Working
      BY <3>7 DEF Working
    <3>11. ManInv'
      BY <1>1, <1>2, <1>3, <3>2, <3>7, <3>8, <3>9, <3>10, Applying
    <3> QED
      BY <1>1, <3>6, <3>7, <3>11, SameList
  <2> QED
    BY <1>1, <1>4, <2>1, <2>2
<1>6. CASE ManSaved
  <2>1. man.at = "saved" /\ man.item \in Waiting /\ Answers(man.item)
    BY <1>6 DEF ManSaved, ManInv, Accounted
  <2>2. CASE Fails(man.item)
    BY <1>1, <1>4, <2>1, <2>2
  <2>3. CASE man' = [man EXCEPT !.at = "apply", !.applied = @ \cup {man.item}]
    <3> DEFINE applied == man.applied \cup {man.item}
    <3>1. man' = [man EXCEPT !.at = "apply", !.applied = applied]
      BY <2>3
    <3>2. man.item \in DOMAIN man.list /\ man.item \notin man.failed /\ applied \in SUBSET Slots
      BY <1>2, <2>1 DEF Waiting
    <3>3. applied \cup man.failed \subseteq DOMAIN man.list /\ applied \cap man.failed = {} /\ \A u \in applied : Answers(u)
      BY <1>2, <2>1, <3>2
    <3> HIDE DEF applied
    <3>4. ManTypeOK'
      BY <3>1, <3>2 DEF ManTypeOK, ManPlaces
    <3>5. /\ man'.at = "apply" /\ man'.failed = man.failed /\ man'.applied = applied /\ man'.wrote = man.wrote
          /\ man'.kind = man.kind /\ man'.list = man.list /\ man'.docs = man.docs /\ man'.outcome = man.outcome
      BY <3>1 DEF ManTypeOK
    <3>6. \A p \in man'.applied : Answers(p)'
      BY <1>1, <3>3, <3>5, AnswersStay
    <3>7. man'.at \in Working
      BY <3>5 DEF Working
    <3>8. man'.at # "write" /\ man'.at # "saved"
      BY <3>5
    <3>9. ManInv'
      BY <1>1, <1>3, <3>3, <3>5, <3>6, <3>7, <3>8, Applying
    <3> QED
      BY <1>1, <3>4, <3>5, <3>9, SameList
  <2> QED
    BY <1>1, <1>6, <2>2, <2>3 DEF ManSaved
<1>7. CASE ManDone
  <2>1. man' = [man EXCEPT !.at = "end", !.outcome = "done"] /\ Waiting = {} /\ man.at = "apply"
    BY <1>7 DEF ManDone, ManEnds
  <2>2. man.applied \cup man.failed = DOMAIN man.list
    BY <1>2, <2>1 DEF Waiting
  <2>3. ManTypeOK'
    BY <2>1 DEF ManTypeOK, ManPlaces
  <2>4. /\ man'.at = "end" /\ man'.outcome = "done" /\ man'.failed = man.failed /\ man'.applied = man.applied
        /\ man'.wrote = man.wrote /\ man'.list = man.list /\ man'.docs = man.docs /\ man'.kind = man.kind
    BY <2>1 DEF ManTypeOK
  <2>5. \A p \in man'.applied : Answers(p)'
    BY <1>1, <1>2, <2>4, AnswersStay
  <2>6. Accounted'
    BY <1>2, <2>2, <2>4, <2>5 DEF Accounted, Working
  <2>7. \A m \in Ids : Good(man'.docs[m]) => rated'[m]
    BY <1>3, <2>4 DEF ManInv
  <2>8. man'.kind \in Kinds /\ (Pairings' => \A p \in DOMAIN man'.list : man'.list[p].doc \in Ids)
    BY <2>1, <2>4 DEF ManInv, Pairings
  <2>9. ManInv'
    BY <2>4, <2>6, <2>7, <2>8 DEF ManInv, Good, Working
  <2> QED
    BY <1>1, <2>3, <2>4, <2>9, SameList
<1> QED
  BY <1>5, <1>6, <1>7

\* What a change makes of a body differs from it in what the change names, and in a
\* value under an old name.
LEMMA ChangedFields ==
  ASSUME NEW c \in Changes, NEW id \in Ids, NEW body \in Bodies, minted \in Nat
  PROVE  LET new == Changed(c, id, body) IN
         /\ new.rating \in 0..MaxRating => new \in Bodies
         /\ new.status = body.status /\ new.abv = body.abv /\ new.notes = body.notes /\ new.common = body.common
         /\ c.rating = Unnamed => new.rating = body.rating
         /\ new.uid = IF Mints(c, body) THEN NewUid ELSE body.uid
         /\ body.country # "old" => new.country = body.country
         /\ c.pairings = Kept => new.profile = body.profile /\ new.matches = body.matches
         /\ new.matches \in {c.matches, body.matches}
<1> DEFINE r == IF c.rating = Unnamed THEN body.rating ELSE c.rating
           u == IF Mints(c, body) THEN NewUid ELSE body.uid
           b == Parsed(body)
           q == [b EXCEPT !.rating = r, !.uid = u]
           profiled == c.pairings = "profiled"
           m == c.matches
           new == Changed(c, id, body)
<1>1. /\ b \in Bodies /\ b.status = body.status /\ b.abv = body.abv /\ b.notes = body.notes /\ b.common = body.common
      /\ b.rating = body.rating /\ b.uid = body.uid /\ b.profile = body.profile /\ b.matches = body.matches
      /\ body.country # "old" => b.country = body.country
  BY DEF Parsed, Bodies, BodiesOf, Countries
<1>2. r \in Int /\ u \in Nat
  <2>1. body.rating \in Int /\ body.uid \in Nat /\ c.rating \in Int
    BY Numbers DEF Bodies, BodiesOf, Changes, Unnamed
  <2> QED
    BY <2>1 DEF NewUid
<1>3. profiled \in BOOLEAN /\ m \in SUBSET (Ids \cup {NameOnly})
  <2>1. m \in SUBSET (Ids \cup {NameOnly})
    BY DEF Changes
  <2>2. profiled \in BOOLEAN
    BY Zenon
  <2> QED
    BY <2>1, <2>2
<1>4. new = IF c.pairings = Kept \/ ~IsItem(id) THEN q ELSE [q EXCEPT !.matches = m, !.profile = profiled]
  <2>1. q = [Parsed(body) EXCEPT !.rating = IF c.rating = Unnamed THEN @ ELSE c.rating,
                                 !.uid = IF Mints(c, body) THEN NewUid ELSE @]
    BY <1>1
  <2> HIDE DEF q
  <2> QED
    BY <2>1 DEF Changed
<1> HIDE DEF r, u, b, profiled, m, new
<1>5. /\ q \in BodiesOf(Int) /\ q.status = b.status /\ q.abv = b.abv /\ q.notes = b.notes /\ q.common = b.common
      /\ q.rating = r /\ q.uid = u /\ q.profile = b.profile /\ q.matches = b.matches /\ q.country = b.country
  BY <1>1, <1>2 DEF Bodies, BodiesOf
<1> HIDE DEF q
<1> DEFINE w == [q EXCEPT !.matches = m, !.profile = profiled]
<1>6. /\ w \in BodiesOf(Int) /\ w.status = q.status /\ w.abv = q.abv /\ w.notes = q.notes /\ w.common = q.common
      /\ w.rating = q.rating /\ w.uid = q.uid /\ w.country = q.country /\ w.matches = m
  BY <1>3, <1>5 DEF BodiesOf
<1> HIDE DEF w
<1>7. new \in {q, w} /\ (c.pairings = Kept => new = q)
  BY <1>4 DEF w
<1>8. new \in BodiesOf(Int) /\ (new.rating \in 0..MaxRating => new \in Bodies)
  <2>1. new \in BodiesOf(Int)
    BY <1>5, <1>6, <1>7
  <2> QED
    BY <2>1 DEF Bodies, BodiesOf
<1>9. /\ new.status = body.status /\ new.abv = body.abv /\ new.notes = body.notes /\ new.common = body.common
      /\ new.rating = r /\ new.uid = u /\ (body.country # "old" => new.country = body.country)
      /\ c.pairings = Kept => new.profile = body.profile /\ new.matches = body.matches
      /\ new.matches \in {m, body.matches}
  BY <1>1, <1>5, <1>6, <1>7
<1> QED
  BY <1>8, <1>9 DEF r, u, m, new

\* A change that is valid is one of the record's type, its matches may stand, and it
\* has its own uid or its first one.
LEMMA Changing ==
  ASSUME ManTypeOK, ManInv, man.at = "write", minted \in Nat, Valid(man.found, Change)
  PROVE  /\ man.item \in DOMAIN man.list /\ man.item \in Slots /\ man.list[man.item] \in Changes
         /\ man.found \in Ids /\ Change \in Bodies
         /\ IsItem(man.found) => MayStand(Change.matches)
         /\ Change.uid = man.body.uid \/ (man.body.uid = NoUid /\ Change.uid = NewUid)
<1> DEFINE c == man.list[man.item]
<1>1. /\ man.found \in Ids /\ man.body \in Bodies
      /\ IsItem(man.found) => MayStand(man.body.matches)
  BY DEF ManInv, ReadInv
<1>2. man.item \in DOMAIN man.list /\ man.item \notin man.failed /\ man.item \in Slots /\ c \in Changes
  BY WhileApplied, ListSlots DEF Working
<1>3. Change.rating \in 0..MaxRating
  BY DEF Valid
<1>4. Change = Changed(c, man.found, man.body)
  BY DEF Change
<1> HIDE DEF c
<1>5. Change \in Bodies
  BY <1>1, <1>2, <1>3, <1>4, ChangedFields
<1>6. Change.uid = man.body.uid \/ (man.body.uid = NoUid /\ Change.uid = NewUid)
  BY <1>1, <1>2, <1>4, ChangedFields DEF Mints
<1>7. MayStand(c.matches)
  <2>1. CASE Pairings
    <3>1. Sound(man.item)
      BY <1>2, <2>1 DEF ManInv, Working
    <3> QED
      BY <3>1 DEF Sound, WereGood, MayStand, c
  <2>2. CASE ~Pairings
    <3>1. man.kind = "apply"
      BY <2>2 DEF ManInv, Pairings, Kinds
    <3>2. c.matches \subseteq Approved
      BY <1>2, <3>1 DEF Approved, c
    <3> QED
      BY <3>2 DEF MayStand
  <2> QED
    BY <2>1, <2>2
<1>8. IsItem(man.found) => MayStand(Change.matches)
  <2>1. IsItem(man.found) => Change.matches \in {c.matches, man.body.matches}
    BY <1>1, <1>2, <1>4, ChangedFields
  <2> QED
    BY <1>1, <1>7, <2>1
<1> QED
  BY <1>1, <1>2, <1>5, <1>6, <1>8 DEF c

\* The change of a record, field by field.
Edited(id) ==
  LET c == man.list[man.item]
      was == Body(id)
      is == records'[id].body
  IN /\ man.at = "write" /\ id = man.found /\ is # Gone
     /\ is.status = was.status /\ is.abv = was.abv /\ is.notes = was.notes /\ is.common = was.common
     /\ c.rating = Unnamed => is.rating = was.rating
     /\ c.pairings = Kept => is.profile = was.profile /\ is.matches = was.matches
     /\ ~Mints(c, was) => is.uid = was.uid
     /\ was.country # "old" => is.country = was.country

\* A record is put as it is, but for its change.
LEMMA ManPuts ==
  ASSUME ManTypeOK, ManInv, UidInv, VaultTypeOK, VaultInv, ManWrite
  PROVE  /\ ManTypeOK' /\ ManInv' /\ UidInv' /\ VaultTypeOK' /\ VaultInv' /\ UNCHANGED <<call, others>>
         /\ \A m \in Ids : rated[m] => rated'[m]
         /\ \A id \in Live : records'[id] = records[id] \/ Edited(id)
<1>1. man.at = "write" /\ man.at \in Working /\ UNCHANGED <<call, others>>
  BY DEF ManWrite, Working
<1>2. /\ man.applied \cup man.failed \subseteq DOMAIN man.list /\ man.applied \cap man.failed = {}
      /\ man.applied \subseteq Slots /\ man.failed \subseteq Slots
      /\ man.outcome = "none" /\ \A p \in man.applied : Answers(p)
      /\ man.item \in DOMAIN man.list /\ man.item \notin man.applied \cup man.failed /\ man.item \in Waiting
  BY <1>1, WhileApplied DEF Waiting
<1>3. CASE Fails(man.item) /\ UNCHANGED <<records, minted, rated>>
  <2>1. UNCHANGED vaultVars /\ rated' = rated /\ records' = records
    BY <1>1, <1>3 DEF vaultVars
  <2>2. man'.list = man.list /\ man'.wrote = man.wrote /\ man'.kind = man.kind
    BY <1>3 DEF Fails, ManTypeOK
  <2>3. \A p \in man.applied : Answers(p)'
    BY <1>2, <2>1, <2>2, AnswersStay
  <2>4. ManTypeOK' /\ ManInv' /\ man'.docs = man.docs
    BY <1>1, <1>2, <1>3, <2>1, <2>3, ItemFails
  <2>5. UidInv'
    BY <1>1, <2>1, <2>4, SameList
  <2>6. VaultTypeOK' /\ VaultInv'
    BY <2>1, <2>2, VaultStays
  <2> QED
    BY <1>1, <2>1, <2>4, <2>5, <2>6
<1>4. CASE ~(Fails(man.item) /\ UNCHANGED <<records, minted, rated>>)
  <2>0. PICK item \in Slots, found \in Ids : item = man.item /\ found = man.found
    <3>1. man.item \in Slots /\ man.found \in Ids
      BY <1>1, <1>2, ListSlots DEF ManInv, ReadInv
    <3> QED
      BY <3>1
  <2> DEFINE body == Change
             wrote == [man.wrote EXCEPT ![item] = found]
             applied == man.applied \cup {item}
             failed == man.failed \cup {item}
  <2>1. Fits /\ Valid(found, body) /\ Put(found, body)
    BY <1>4, <2>0 DEF ManWrite
  <2>2. \/ Pairings /\ man' = [[man EXCEPT !.wrote = wrote] EXCEPT !.at = "saved", !.applied = man.applied]
        \/ ~Pairings /\ man' = [[man EXCEPT !.wrote = wrote] EXCEPT !.at = "apply", !.applied = applied]
        \/ man' = [[man EXCEPT !.wrote = wrote] EXCEPT !.at = "apply", !.failed = failed]
    <3> DEFINE put == [man EXCEPT !.wrote[man.item] = man.found]
    <3>1. \/ man' = [put EXCEPT !.at = IF Pairings THEN "saved" ELSE "apply",
                            !.applied = IF Pairings THEN @ ELSE @ \cup {item}]
          \/ man' = [put EXCEPT !.at = "apply", !.failed = @ \cup {item}]
      BY <1>4, <2>0 DEF ManWrite
    <3>2. put = [man EXCEPT !.wrote = wrote]
      BY <2>0 DEF ManTypeOK
    <3>3. man.applied = put.applied /\ man.failed = put.failed
      BY <3>2 DEF ManTypeOK
    <3> HIDE DEF wrote, put
    <3> QED
      BY <3>1, <3>2, <3>3
  <2>3. minted \in Nat
    BY DEF VaultTypeOK
  <2>4. /\ item \in Slots /\ found \in Ids /\ body \in Bodies
        /\ body.uid = man.body.uid \/ (man.body.uid = NoUid /\ body.uid = NewUid)
        /\ IsItem(found) => MayStand(body.matches)
        /\ man.list[item] \in Changes
    BY <1>1, <2>0, <2>1, <2>3, Changing
  <2>5. /\ found \in Live /\ Body(found) = man.body
        /\ LET c == man.list[item] IN found = c.doc \/ (~Pairings /\ c.uid # NoUid /\ man.body.uid = c.uid)
    BY <1>1, <2>0, <2>1, <2>4 DEF Fits, ManInv, ReadInv
  <2>6. /\ wrote \in [Slots -> Ids \cup {NoId}] /\ wrote[item] = found
        /\ \A u \in man.applied : u # item /\ wrote[u] = man.wrote[u]
    BY <1>2, <2>0, <2>4 DEF ManTypeOK
  <2>8. /\ applied \in SUBSET Slots /\ failed \in SUBSET Slots
        /\ applied \cup man.failed \subseteq DOMAIN man.list /\ applied \cap man.failed = {}
        /\ man.applied \cup failed \subseteq DOMAIN man.list /\ man.applied \cap failed = {}
    BY <1>2, <2>0, <2>4
  <2>9. body = Changed(man.list[item], found, Body(found))
    BY <2>0, <2>5 DEF Change
  <2>10. Put(found, body)
    BY <2>1
  <2>11. \A id \in Live : records'[id] = records[id] \/ Edited(id)
    <3>1. records'[found].body = body /\ \A j \in Ids : j # found => records'[j] = records[j]
      BY <2>1, <2>4, Putting
    <3> DEFINE c == man.list[item]
               was == Body(found)
    <3>2. /\ body.status = was.status /\ body.abv = was.abv /\ body.notes = was.notes /\ body.common = was.common
          /\ c.rating = Unnamed => body.rating = was.rating
          /\ c.pairings = Kept => body.profile = was.profile /\ body.matches = was.matches
          /\ ~Mints(c, was) => body.uid = was.uid
          /\ was.country # "old" => body.country = was.country
      <4>1. was \in Bodies
        BY <1>1, <2>5 DEF ManInv, ReadInv
      <4>2. c \in Changes /\ body = Changed(c, found, was)
        BY <2>4, <2>9
      <4> HIDE DEF c, was, body
      <4> QED
        BY <2>3, <2>4, <4>1, <4>2, ChangedFields
    <3>3. body # Gone
      BY <2>4, OperationsAssumption DEF Bodies, BodiesOf
    <3>4. Edited(found)
      BY <1>1, <2>0, <3>1, <3>2, <3>3 DEF Edited
    <3> QED
      BY <3>1, <3>4 DEF Live
  <2> HIDE DEF wrote, applied, failed, body
  <2>12. ManTypeOK'
    <3>1. CASE man' = [[man EXCEPT !.wrote = wrote] EXCEPT !.at = "saved", !.applied = man.applied]
      BY <2>6, <3>1 DEF ManTypeOK, ManPlaces
    <3>2. CASE man' = [[man EXCEPT !.wrote = wrote] EXCEPT !.at = "apply", !.applied = applied]
      BY <2>6, <2>8, <3>2 DEF ManTypeOK, ManPlaces
    <3>3. CASE man' = [[man EXCEPT !.wrote = wrote] EXCEPT !.at = "apply", !.failed = failed]
      BY <2>6, <2>8, <3>3 DEF ManTypeOK, ManPlaces
    <3> QED
      BY <2>2, <3>1, <3>2, <3>3
  <2>13. /\ man'.wrote = wrote /\ man'.item = item
         /\ man'.kind = man.kind /\ man'.list = man.list /\ man'.docs = man.docs /\ man'.outcome = man.outcome
         /\ \/ man'.at = "saved" /\ man'.applied = man.applied /\ man'.failed = man.failed
            \/ man'.at = "apply" /\ man'.applied = applied /\ man'.failed = man.failed
            \/ man'.at = "apply" /\ man'.applied = man.applied /\ man'.failed = failed
    <3>1. CASE man' = [[man EXCEPT !.wrote = wrote] EXCEPT !.at = "saved", !.applied = man.applied]
      BY <3>1, <2>0 DEF ManTypeOK
    <3>2. CASE man' = [[man EXCEPT !.wrote = wrote] EXCEPT !.at = "apply", !.applied = applied]
      BY <3>2, <2>0 DEF ManTypeOK
    <3>3. CASE man' = [[man EXCEPT !.wrote = wrote] EXCEPT !.at = "apply", !.failed = failed]
      BY <3>3, <2>0 DEF ManTypeOK
    <3> QED
      BY <2>2, <3>1, <3>2, <3>3
  <2>14. VaultInv'
    BY <2>4, <2>10, <2>13, PutKeepsVault
  <2>15. VaultTypeOK' /\ \A m \in Ids : rated[m] => rated'[m]
    BY <1>1, <2>4, <2>10, Putting DEF VaultTypeOK
  <2>16. \A p \in man.applied : Answers(p)'
    <3>1. \A p \in man.applied : Answers(p) /\ man'.list[p] = man.list[p] /\ man'.wrote[p] = man.wrote[p]
      BY <1>2, <2>6, <2>13
    <3>2. body.uid = Body(found).uid \/ Body(found).uid = NoUid
      BY <2>4, <2>5
    <3> QED
      BY <2>4, <2>5, <2>10, <2>13, <3>1, <3>2, AnswersKept
  <2>17. Answers(item)'
    <3> DEFINE c == man.list[item]
    <3>1. man'.list[item] = c /\ man'.wrote[item] = found /\ (Pairings' <=> Pairings)
      BY <2>6, <2>13 DEF Pairings
    <3>2. found = c.doc \/ (~Pairings /\ c.uid # NoUid /\ body.uid = c.uid)
      BY <2>4, <2>5
    <3>3. records'[found].body = body
      BY <2>4, <2>10, Putting
    <3> HIDE DEF c
    <3> QED
      BY <2>4, <3>1, <3>2, <3>3 DEF Answers, Body
  <2>18. item \in DOMAIN man.list /\ item \notin man.applied /\ item \notin man.failed
    BY <1>2, <2>0
  <2>19. applied = man.applied \cup {item} /\ failed = man.failed \cup {item}
    BY DEF applied, failed
  <2>20. ManInv'
    <3>1. man'.at \in Working /\ man'.at # "write"
      BY <2>13 DEF Working
    <3>2. man'.applied \cup man'.failed \subseteq DOMAIN man.list /\ man'.applied \cap man'.failed = {} /\ man.failed \subseteq man'.failed
      BY <1>2, <2>8, <2>13, <2>19
    <3>3. \A p \in man'.applied : Answers(p)'
      BY <2>13, <2>16, <2>17, <2>19
    <3>4. man'.at # "apply" => man'.item \in DOMAIN man.list \ (man'.applied \cup man'.failed)
      BY <2>13, <2>18
    <3>5. Answers(man.item)'
      BY <2>13, <2>17 DEF Answers
    <3> QED
      BY <1>1, <2>13, <2>15, <3>1, <3>2, <3>3, <3>4, <3>5, Applying
  <2>21. UidInv'
    <3>1. man # NoWork
      BY <1>1 DEF NoWork
    <3>2. body.uid = Body(found).uid \/ body.uid = NewUid
      BY <2>4, <2>5
    <3> QED
      BY <2>4, <2>5, <2>10, <2>13, <3>1, <3>2, PutKeepsUids
  <2> QED
    BY <1>1, <2>11, <2>12, <2>14, <2>15, <2>20, <2>21
<1> QED
  BY <1>3, <1>4

\* Nobody else disturbs the job: a record that was put has another revision.
LEMMA ManStays ==
  ASSUME ManTypeOK, ManInv, VaultTypeOK, man' = man, \A m \in Ids : rated[m] => rated'[m],
         \A p \in Slots : Answers(p) => Answers(p)',
         \A j \in Ids : records'[j] = records[j] \/ records'[j].rev = records[j].rev + 1
  PROVE  ManTypeOK' /\ ManInv'
<1>1. Approved' = Approved
  BY SameApproved
<1>2. ManTypeOK'
  BY DEF ManTypeOK
<1>3. Accounted'
  <2>1. man.applied \in SUBSET Slots
    BY DEF ManTypeOK
  <2>2. \A p \in man.applied : Answers(p)'
    BY <2>1 DEF ManInv, Accounted
  <2>3. man.at = "saved" => Answers(man.item)'
    <3>1. man.at = "saved" => man.item \in Slots /\ Answers(man.item)
      BY ListSlots DEF ManInv, Accounted, Waiting
    <3> QED
      BY <3>1 DEF Answers
  <2> QED
    BY <2>2, <2>3 DEF ManInv, Accounted, Waiting, Working
<1>4. \A matches : MayStand(matches) => \A m \in matches : (m \in Ids /\ rated'[m]) \/ m \in Approved
  BY DEF MayStand
<1>5. (Pairings' <=> Pairings) /\ \A t \in Ids : Good(man.docs[t])' <=> Good(man.docs[t])
  BY DEF Pairings, Good
<1>6. ASSUME man.at = "write" PROVE ReadInv'
  <2>1. ReadInv /\ man.found \in Ids
    BY <1>6 DEF ManInv, ReadInv
  <2>2. IsItem(man.found) => MayStand(man.body.matches)'
    BY <1>1, <1>4, <2>1 DEF MayStand, ReadInv
  <2> DEFINE found == man.found
             old == records[found].rev
             new == records'[found].rev
  <2>3. old \in Nat /\ man.rev \in Nat /\ man.rev <= old
    BY <2>1 DEF VaultTypeOK, ManTypeOK, ReadInv
  <2>4. CASE records'[found] = records[found]
    BY <1>5, <2>1, <2>2, <2>4 DEF ReadInv, Body, IsItem
  <2>5. CASE new = old + 1
    <3>1. man.rev <= new /\ man.rev # new
      <4>1. man.rev \in Nat
        BY <2>3
      <4> HIDE DEF old, new
      <4> QED
        BY <2>3, <2>5, <4>1
    <3> QED
      BY <1>5, <2>1, <2>2, <3>1 DEF ReadInv, Body, IsItem
  <2> QED
    BY <2>1, <2>4, <2>5
<1>7. ASSUME man.at \in Working, Pairings, NEW p \in DOMAIN man.list \ man.failed PROVE Sound(p)'
  <2>1. Sound(p)
    BY <1>7 DEF ManInv
  <2> QED
    BY <2>1 DEF Sound, Known, WereGood
<1>8. \A m \in Ids : Good(man.docs[m])' => rated'[m]
  BY <1>5 DEF ManInv
<1>9. man.at \in Working /\ Pairings => \A p \in DOMAIN man'.list \ man'.failed : Sound(p)'
  BY <1>7 DEF Sound, Known, WereGood
<1> QED
  BY <1>2, <1>3, <1>5, <1>6, <1>8, <1>9 DEF ManInv, Good, Known
-----------------------------------------------------------------------------
(* Advice, and all of it together.                                         *)

\* Advice changes no record; what it names is on its list.
LEMMA ConMoves ==
  ASSUME ConTypeOK, CallTypeOK, CallInv, ConStep
  PROVE  ConTypeOK' /\ CallTypeOK' /\ CallInv' /\ UNCHANGED vaultVars /\ con.at # "idle"
<1>1. UNCHANGED vaultVars /\ con.at # "idle"
  BY DEF ConStep, ConBegin, ConLabel, ConAsk, ConAnswer
<1>2. UNCHANGED call => CallTypeOK' /\ CallInv'
  BY DEF CallTypeOK, CallInv
<1>3. ASSUME NEW outcome \in {"done", "raised"}, ConEnds(outcome) PROVE ConTypeOK'
  <2>1. con' = [con EXCEPT !.at = "end", !.outcome = outcome]
    BY <1>3 DEF ConEnds
  <2> QED
    BY <2>1 DEF ConTypeOK
<1>4. con.vision \in Providers \cup {"none"} /\ con.model \in Providers \cup {"none"}
  BY DEF ConTypeOK
<1>5. CASE ConBegin
  <2>1. CASE con.vision # "none" /\ Call(con.vision, FALSE, FALSE) /\ con' = [con EXCEPT !.at = "label"]
    <3>1. ConTypeOK'
      BY <2>1 DEF ConTypeOK
    <3> QED
      BY <1>1, <1>4, <2>1, <3>1, Calling
  <2>2. CASE /\ UNCHANGED call
             /\ con' = [con EXCEPT !.at = "ask", !.model = IF con.photo THEN con.vision ELSE @,
                              !.items = CASE con.kind = "chat" -> Items [] con.kind = "plan" -> Live [] OTHER -> {}]
    <3> DEFINE model == IF con.photo THEN con.vision ELSE con.model
               items == CASE con.kind = "chat" -> Items [] con.kind = "plan" -> Live [] OTHER -> {}
    <3>1. model \in Providers \cup {"none"} /\ items \in SUBSET Ids
      <4>1. Items \subseteq Ids /\ Live \subseteq Ids
        BY DEF Items, Live
      <4>2. items \in {Items, Live, {}}
        OBVIOUS
      <4> QED
        BY <1>4, <4>1, <4>2
    <3>2. con' = [con EXCEPT !.at = "ask", !.model = model, !.items = items]
      BY <2>2
    <3> HIDE DEF model, items
    <3>3. ConTypeOK'
      BY <3>1, <3>2 DEF ConTypeOK
    <3> QED
      BY <1>1, <1>2, <2>2, <3>3
  <2>3. CASE ConEnds("raised") /\ UNCHANGED call
    BY <1>1, <1>2, <1>3, <2>3
  <2> QED
    BY <1>5, <2>1, <2>2, <2>3 DEF ConBegin
<1>6. CASE ConLabel
  <2>1. ASSUME con' = [con EXCEPT !.at = "ask"] PROVE ConTypeOK'
    BY <2>1 DEF ConTypeOK
  <2>2. ASSUME con' = [con EXCEPT !.at = "ask", !.model = con.vision] PROVE ConTypeOK'
    BY <1>4, <2>2 DEF ConTypeOK
  <2> QED
    BY <1>1, <1>3, <1>6, <2>1, <2>2, HungUp DEF ConLabel
<1>7. CASE ConAsk
  <2>1. CASE con.model = "none"
    BY <1>1, <1>2, <1>3, <1>7, <2>1 DEF ConAsk
  <2>2. CASE con.model # "none"
    <3> DEFINE lookup == con.kind = "lookup"
               plan == con.kind = "plan"
    <3>1. Call(con.model, lookup, plan) /\ con' = [con EXCEPT !.at = "answer"]
      BY <1>7, <2>2 DEF ConAsk
    <3>2. lookup \in BOOLEAN /\ plan \in BOOLEAN
      BY Zenon
    <3>3. ConTypeOK'
      BY <3>1 DEF ConTypeOK
    <3> HIDE DEF lookup, plan
    <3> QED
      BY <1>1, <1>4, <2>2, <3>1, <3>2, <3>3, Calling
  <2> QED
    BY <2>1, <2>2
<1>8. CASE ConAnswer
  <2>1. HangUp
    BY <1>8 DEF ConAnswer
  <2>2. CASE \E outcome \in {"done", "raised"} : ConEnds(outcome)
    BY <1>1, <1>3, <2>1, <2>2, HungUp
  <2>3. ASSUME NEW actions \in SUBSET Actions,
               con' = [con EXCEPT !.at = "end", !.outcome = "done", !.actions = Resolve(actions)]
        PROVE  ConTypeOK'
    <3> DEFINE resolved == Resolve(actions)
    <3>1. resolved \in SUBSET (ActionKinds \X SUBSET Ids)
      <4>1. con.items \subseteq Ids
        BY DEF ConTypeOK
      <4> QED
        BY <4>1 DEF Resolve
    <3>2. con' = [con EXCEPT !.at = "end", !.outcome = "done", !.actions = resolved]
      BY <2>3
    <3> HIDE DEF resolved
    <3> QED
      BY <3>1, <3>2 DEF ConTypeOK
  <2> QED
    BY <1>1, <1>8, <2>1, <2>2, <2>3, HungUp DEF ConAnswer
<1> QED
  BY <1>5, <1>6, <1>7, <1>8 DEF ConStep

\* What each operation's steps keep of its own: types and invariant.
CapOK == CapTypeOK /\ CapInv
DetOK == DetTypeOK /\ DetInv
ManOK == ManTypeOK /\ ManInv
VaultOK == VaultTypeOK /\ VaultInv
CallOK == CallTypeOK /\ CallInv

\* A step of an operation that has begun, and the records around it.
LEMMA CapMoves ==
  ASSUME CapOK, VaultOK, CallOK, CapStep, UNCHANGED man
  PROVE  CapOK' /\ VaultOK' /\ CallOK' /\ cap.at # "idle" /\ \A id \in Live : others' = others => records'[id] = records[id]
<1>1. cap.at # "idle"
  BY DEF CapStep, CapBegin, CapLabel, CapAsk, CapAnswer, CapEnrich, CapGround, CapChoose, CapCheck, CapRepeat, CapWrite
<1>2. UNCHANGED call => CallOK'
  BY DEF CallOK, CallTypeOK, CallInv
<1>3. UNCHANGED vaultVars => VaultOK' /\ records' = records
  BY VaultStays DEF VaultOK, vaultVars
<1>4. CASE CapBegin \/ CapLabel \/ CapAsk
  BY <1>1, <1>3, <1>4, CapAsks DEF CapOK, CallOK
<1>5. CASE CapAnswer \/ CapEnrich
  BY <1>1, <1>3, <1>5, CapNotes DEF CapOK, CallOK, VaultOK
<1>6. CASE CapGround \/ CapChoose \/ CapCheck \/ CapRepeat
  BY <1>1, <1>2, <1>3, <1>6, CapMatches DEF CapOK, VaultOK
<1>7. CASE CapWrite
  BY <1>1, <1>2, <1>7, CapStores DEF CapOK, VaultOK
<1> QED
  BY <1>4, <1>5, <1>6, <1>7 DEF CapStep

\* So for a fetch of details, which leaves the records alone.
LEMMA DetMoves ==
  ASSUME DetOK, CallOK, DetStep
  PROVE  DetOK' /\ CallOK' /\ det.at # "idle" /\ UNCHANGED vaultVars
<1>1. det.at # "idle"
  BY DEF DetStep, DetBegin, DetTake, DetFound, DetPage, DetReview, DetVerdict
<1>2. UNCHANGED call => CallOK'
  BY DEF CallOK, CallTypeOK, CallInv
<1>3. CASE DetBegin \/ \E g \in Fields : DetTake(g) \/ DetFound(g)
  BY <1>1, <1>2, <1>3, DetWorks DEF DetOK
<1>4. CASE DetPage \/ DetReview \/ DetVerdict
  BY <1>1, <1>4, DetReads DEF DetOK, CallOK
<1> QED
  BY <1>3, <1>4 DEF DetStep

\* So for maintenance, which changes records only as its changes say.
LEMMA ManMoves ==
  ASSUME ManOK, UidInv, VaultOK, CallOK, ManStep
  PROVE  /\ ManOK' /\ UidInv' /\ VaultOK' /\ CallOK' /\ man.at # "idle"
         /\ \A id \in Live : records'[id] = records[id] \/ Edited(id)
<1>1. man.at # "idle"
  BY DEF ManStep, ManBegin, ManAnswer, ManMatch, ManChoose, ManEnforce, PlanApproved, ManFind, ManWrite, ManSaved, ManDone
<1>2. UNCHANGED call => CallOK'
  BY DEF CallOK, CallTypeOK, CallInv
<1>3. UNCHANGED vaultVars /\ man'.kind = man.kind /\ (man.kind = "apply" => man'.list = man.list) =>
        VaultOK' /\ records' = records
  BY VaultStays DEF VaultOK, vaultVars
<1>4. CASE ManBegin
  BY <1>1, <1>3, <1>4, ManBegins DEF ManOK, CallOK, VaultOK
<1>5. CASE ManAnswer \/ ManMatch \/ ManChoose
  BY <1>1, <1>3, <1>5, ManPrepares DEF ManOK, CallOK
<1>6. CASE ManEnforce \/ PlanApproved
  BY <1>1, <1>2, <1>3, <1>6, ManDecides DEF ManOK, VaultOK
<1>7. CASE ManFind \/ ManSaved \/ ManDone
  BY <1>1, <1>2, <1>3, <1>7, ManReads DEF ManOK, VaultOK
<1>8. CASE ManWrite
  BY <1>1, <1>2, <1>8, ManPuts DEF ManOK, VaultOK
<1> QED
  BY <1>4, <1>5, <1>6, <1>7, <1>8 DEF ManStep

\* What is idle has its first value, and keeps what it must.
LEMMA Idle ==
  /\ NoCapture.at = "idle" /\ NoDetails.at = "idle" /\ NoWork.at = "idle" /\ NoConsult.at = "idle"
  /\ cap = NoCapture => CapOK
  /\ det = NoDetails => DetOK
  /\ man = NoWork => ManOK /\ UidInv
  /\ con = NoConsult => ConTypeOK
<1>1. ASSUME cap = NoCapture PROVE CapOK
  BY <1>1 DEF NoCapture, CapOK, CapTypeOK, CapInv, Places, Noted, AnswerTellsTheTruth
<1>2. ASSUME det = NoDetails PROVE DetOK
  <2>1. Cardinality({}) <= Concurrency
    BY OperationsAssumption, FS_EmptySet
  <2> QED
    BY <1>2, <2>1 DEF NoDetails, DetOK, DetTypeOK, DetInv, Finds, Pages, Verdicts, ProposalsProven
<1>3. ASSUME man = NoWork PROVE ManOK
  <2>1. <<>> \in Seq(Changes) /\ Len(<<>>) <= MaxChanges
    BY OperationsAssumption
  <2>2. ManTypeOK
    BY <1>3, <2>1 DEF NoWork, ManTypeOK, ManPlaces, Unmatched
  <2>3. \A m \in Ids : ~Good(man.docs[m])
    BY <1>3 DEF NoWork, Good
  <2> QED
    BY <1>3, <2>2, <2>3 DEF NoWork, ManOK, ManInv, Accounted, Working, Pairings
<1>4. ASSUME man = NoWork PROVE UidInv
  BY <1>4 DEF UidInv
<1>5. ASSUME con = NoConsult PROVE ConTypeOK
  BY <1>5 DEF NoConsult, ConTypeOK
<1>6. NoCapture.at = "idle" /\ NoDetails.at = "idle" /\ NoWork.at = "idle" /\ NoConsult.at = "idle"
  BY DEF NoCapture, NoDetails, NoWork, NoConsult
<1> QED
  BY <1>1, <1>2, <1>3, <1>4, <1>5, <1>6

\* Nothing is begun by a step of somebody else.
LEMMA IdleNext ==
  /\ (cap = NoCapture => CapOK)'
  /\ (det = NoDetails => DetOK)'
  /\ (man = NoWork => ManOK /\ UidInv)'
  /\ (con = NoConsult => ConTypeOK)'
<1>1. (cap = NoCapture => CapOK) /\ (det = NoDetails => DetOK) /\ (man = NoWork => ManOK /\ UidInv) /\ (con = NoConsult => ConTypeOK)
  BY Idle
<1> QED
  BY <1>1, PTL
-----------------------------------------------------------------------------
(* The theorems.                                                           *)

\* The invariant, by operation.
LEMMA Parts == IInv <=> VaultOK /\ CallOK /\ CapOK /\ DetOK /\ ManOK /\ ConTypeOK /\ OneOperation /\ UidInv
BY DEF IInv, TypeOK, VaultOK, CallOK, CapOK, DetOK, ManOK

\* The same of the next state.
LEMMA PartsNext ==
  IInv' <=> VaultOK' /\ CallOK' /\ CapOK' /\ DetOK' /\ ManOK' /\ ConTypeOK' /\ OneOperation' /\ UidInv'
BY DEF IInv, TypeOK, VaultOK, CallOK, CapOK, DetOK, ManOK

\* It holds at first: one operation at most is to begin, the records are well
\* matched and their uids differ.
LEMMA InitInv == Init => IInv
<1> SUFFICES ASSUME Init PROVE IInv
  OBVIOUS
<1>1. PICK s \in Scenes :
       /\ records = [id \in Ids |-> [rev |-> 0, body |-> s.bodies[id]]]
       /\ rated = s.rated /\ minted = s.minted /\ others = s.others
       /\ cap = s.cap /\ det = s.det /\ man = s.man /\ con = s.con
  BY DEF Init
<1>2. Begins(s)
  BY OperationsAssumption
<1>3. CallOK
  BY Numbers DEF Init, NoCall, CallOK, CallTypeOK, CallInv
<1>4. \A id \in Ids : Body(id) = s.bodies[id]
  BY <1>1 DEF Body
<1>5. VaultTypeOK
  <2>1. s.bodies \in [Ids -> Bodies \cup {Gone}] /\ s.others \in Nat /\ s.minted \in Nat /\ s.rated \in [Ids -> BOOLEAN]
    BY <1>2 DEF Begins
  <2> QED
    BY <1>1, <2>1 DEF VaultTypeOK
<1>6. VaultInv
  <2>1. \A id \in Ids : s.bodies[id] # Gone /\ IsItem(id) => \A m \in s.bodies[id].matches : m \in Ids /\ s.rated[m]
    BY <1>2 DEF Begins
  <2>2. \A id \in Ids : Good(s.bodies[id]) => s.rated[id]
    BY <1>2 DEF Begins
  <2> QED
    BY <1>1, <1>4, <2>1, <2>2 DEF VaultInv, MatchesWereGood, Items, Live
<1>7. \/ CapStart(cap) /\ det = NoDetails /\ man = NoWork /\ con = NoConsult
      \/ cap = NoCapture /\ DetStart(det) /\ man = NoWork /\ con = NoConsult
      \/ cap = NoCapture /\ det = NoDetails /\ ManStart(man) /\ con = NoConsult
      \/ cap = NoCapture /\ det = NoDetails /\ man = NoWork /\ ConStart(con)
  BY <1>1, <1>2 DEF Begins
<1>8. OneOperation
  BY <1>7 DEF OneOperation
<1>9. CapOK
  <2>1. CASE cap = NoCapture
    BY <2>1, Idle
  <2>2. CASE CapStart(cap)
    <3>1. PICK i \in Inputs, v \in Providers \cup {"none"}, r \in Providers \cup {"none"} :
            cap = [NoCapture EXCEPT !.at = "start", !.input = i, !.vision = v, !.research = r]
      BY <2>2 DEF CapStart
    <3>2. CapTypeOK
      BY <3>1 DEF NoCapture, CapTypeOK, Places
    <3>3. cap.at = "start" /\ cap.input = i /\ cap.outcome = "none" /\ ~cap.wrote
      BY <3>1 DEF NoCapture
    <3> QED
      BY <3>2, <3>3 DEF CapOK, CapInv, Noted, AnswerTellsTheTruth
  <2> QED
    BY <1>7, <2>1, <2>2
<1>10. DetOK
  <2>1. CASE det = NoDetails
    BY <2>1, Idle
  <2>2. CASE DetStart(det)
    <3>1. Cardinality({}) <= Concurrency
      BY OperationsAssumption, FS_EmptySet
    <3>2. PICK id \in Ids, filled \in SUBSET Fields, m \in Providers \cup {"none"}, r \in Providers \cup {"none"} :
            det = [NoDetails EXCEPT !.at = "start", !.doc = id, !.filled = filled, !.model = m, !.reviewer = r]
      BY <2>2 DEF DetStart
    <3>3. DetTypeOK
      <4>1. det.running = {}
        BY <3>2 DEF NoDetails
      <4> QED
        BY <3>1, <3>2, <4>1 DEF NoDetails, DetTypeOK, Finds, Pages, Verdicts
    <3>4. det.recommended = {} /\ \A g \in Fields : det.page[g] = "unread"
      BY <3>2 DEF NoDetails
    <3> QED
      BY <3>3, <3>4 DEF DetOK, DetInv, ProposalsProven
  <2> QED
    BY <1>7, <2>1, <2>2
<1>11. ManOK
  <2>1. CASE man = NoWork
    BY <2>1, Idle
  <2>2. CASE ManStart(man)
    <3> DEFINE kind == man.kind
               model == man.model
               list == man.list
    <3>1. /\ kind \in Kinds /\ model \in Providers \cup {"none"} /\ list \in Seq(Changes) /\ Len(list) <= MaxChanges
          /\ kind # "apply" => \A p \in DOMAIN list : list[p].doc \in Ids
      BY <2>2 DEF ManStart
    <3>2. man = [NoWork EXCEPT !.at = "start", !.kind = kind, !.model = model, !.list = list]
      BY <2>2 DEF ManStart
    <3>6. Pairings => kind # "apply"
      BY DEF Pairings
    <3> HIDE DEF kind, model, list
    <3>3. ManTypeOK
      BY <3>1, <3>2 DEF NoWork, ManTypeOK, ManPlaces, Unmatched
    <3>4. /\ man.at = "start" /\ man.outcome = "none" /\ man.applied = {} /\ man.failed = {} /\ man.changed = {}
          /\ \A t \in Ids : man.docs[t] = Gone
      BY <3>2 DEF NoWork
    <3>5. Pairings => \A p \in DOMAIN man.list : man.list[p].doc \in Ids
      BY <3>1, <3>6 DEF list
    <3> QED
      BY <3>1, <3>3, <3>4, <3>5 DEF ManOK, ManInv, Accounted, Working, Good, kind
  <2> QED
    BY <1>7, <2>1, <2>2
<1>12. ConTypeOK
  <2>1. CASE con = NoConsult
    BY <2>1, Idle
  <2>2. CASE ConStart(con)
    <3>1. PICK k \in {"lookup", "chat", "plan"}, p \in BOOLEAN, v \in Providers \cup {"none"}, m \in Providers \cup {"none"} :
            con = [NoConsult EXCEPT !.at = "start", !.kind = k, !.photo = p, !.vision = v, !.model = m]
      BY <2>2 DEF ConStart
    <3> QED
      BY <3>1 DEF NoConsult, ConTypeOK
  <2> QED
    BY <1>7, <2>1, <2>2
<1>13. UidInv
  <2>1. \A t \in Ids : ~Known(t)
    <3>1. CASE man = NoWork
      BY <3>1 DEF NoWork, Known
    <3>2. CASE ManStart(man)
      <4>1. man.docs = NoWork.docs
        <5>1. PICK k, m, l : man = [NoWork EXCEPT !.at = "start", !.kind = k, !.model = m, !.list = l]
          BY <3>2 DEF ManStart
        <5> QED
          BY <5>1 DEF NoWork
      <4> QED
        BY <4>1 DEF NoWork, Known
    <3> QED
      BY <1>7, <3>1, <3>2
  <2>2. \A i \in Ids : s.bodies[i] # Gone =>
          /\ s.bodies[i].uid <= s.minted
          /\ \A j \in Ids : s.bodies[j] # Gone /\ s.bodies[j].uid = s.bodies[i].uid => i = j \/ s.bodies[i].uid = NoUid
    BY <1>2 DEF Begins
  <2> QED
    BY <1>1, <1>4, <2>1, <2>2 DEF UidInv, Live
<1> QED
  BY <1>3, <1>5, <1>6, <1>8, <1>9, <1>10, <1>11, <1>12, <1>13, Parts DEF VaultOK

\* Every step keeps it: an operation finds the others idle, and other processes
\* put records with their own uids and no new matches.
LEMMA StepInv == IInv /\ [Next]_vars => IInv'
<1> SUFFICES ASSUME IInv, [Next]_vars PROVE IInv'
  OBVIOUS
<1>1. VaultOK /\ CallOK /\ CapOK /\ DetOK /\ ManOK /\ ConTypeOK /\ OneOperation /\ UidInv
  BY Parts
<1>2. UNCHANGED vaultVars => records' = records /\ \A m \in Ids : rated[m] => rated'[m]
  BY DEF vaultVars
<1>13. UNCHANGED <<vaultVars, man>> => VaultOK'
  BY <1>1, VaultStays DEF VaultOK, vaultVars
<1>3. UNCHANGED call => CallOK'
  BY <1>1 DEF CallOK, CallTypeOK, CallInv
<1>4. UNCHANGED <<cap, det, man, con>> => OneOperation' /\ DetOK' /\ ConTypeOK'
  <2> SUFFICES ASSUME UNCHANGED <<cap, det, man, con>> PROVE OneOperation' /\ DetOK' /\ ConTypeOK'
    OBVIOUS
  <2>1. OneOperation'
    BY <1>1 DEF OneOperation
  <2>2. DetOK'
    BY <1>1 DEF DetOK, DetTypeOK, DetInv, ProposalsProven, HasPage
  <2>3. ConTypeOK'
    BY <1>1 DEF ConTypeOK
  <2> QED
    BY <2>1, <2>2, <2>3
<1>5. UNCHANGED <<vaultVars, cap, det, man, con>> => CapOK' /\ ManOK' /\ UidInv'
  <2> SUFFICES ASSUME UNCHANGED <<vaultVars, cap, det, man, con>> PROVE CapOK' /\ ManOK' /\ UidInv'
    OBVIOUS
  <2>1. CapOK'
    BY <1>1, <1>2, CapStays DEF CapOK
  <2>2. ManOK'
    <3>1. \A p \in Slots : Answers(p) => Answers(p)'
      BY AnswersStay
    <3> QED
      BY <1>1, <1>2, <3>1, ManStays DEF ManOK, VaultOK
  <2>3. UidInv'
    BY <1>1 DEF UidInv, vaultVars, Live, Body, Known
  <2> QED
    BY <2>1, <2>2, <2>3
<1>6. CASE CallStep /\ UNCHANGED <<vaultVars, cap, det, man, con>>
  <2>1. CallOK'
    BY <1>1, <1>6, CallMoves DEF CallOK
  <2> QED
    BY <1>4, <1>5, <1>6, <1>13, <2>1, PartsNext
<1>7. CASE CapStep /\ UNCHANGED <<det, man, con>>
  <2>1. CapOK' /\ VaultOK' /\ CallOK' /\ cap.at # "idle"
    BY <1>1, <1>7, CapMoves
  <2>2. cap # NoCapture
    BY <2>1, Idle
  <2>3. det' = NoDetails /\ man' = NoWork /\ con' = NoConsult
    BY <1>1, <1>7, <2>2 DEF OneOperation
  <2>4. OneOperation'
    BY <2>3 DEF OneOperation
  <2> QED
    BY <2>1, <2>3, <2>4, IdleNext, PartsNext
<1>8. CASE DetStep /\ UNCHANGED <<cap, man, con>>
  <2>1. DetOK' /\ CallOK' /\ det.at # "idle" /\ UNCHANGED vaultVars
    BY <1>1, <1>8, DetMoves
  <2>2. det # NoDetails
    BY <2>1, Idle
  <2>3. cap' = NoCapture /\ man' = NoWork /\ con' = NoConsult
    BY <1>1, <1>8, <2>2 DEF OneOperation
  <2>4. OneOperation'
    BY <2>3 DEF OneOperation
  <2> QED
    BY <1>8, <1>13, <2>1, <2>3, <2>4, IdleNext, PartsNext
<1>9. CASE ManStep /\ UNCHANGED <<cap, det, con>>
  <2>1. ManOK' /\ UidInv' /\ VaultOK' /\ CallOK' /\ man.at # "idle"
    BY <1>1, <1>9, ManMoves
  <2>2. man # NoWork
    BY <2>1, Idle
  <2>3. cap' = NoCapture /\ det' = NoDetails /\ con' = NoConsult
    BY <1>1, <1>9, <2>2 DEF OneOperation
  <2>4. OneOperation'
    BY <2>3 DEF OneOperation
  <2> QED
    BY <2>1, <2>3, <2>4, IdleNext, PartsNext
<1>10. CASE ConStep /\ UNCHANGED <<cap, det, man>>
  <2>1. ConTypeOK' /\ CallOK' /\ UNCHANGED vaultVars /\ con.at # "idle"
    BY <1>1, <1>10, ConMoves DEF CallOK
  <2>2. con # NoConsult
    BY <2>1, Idle
  <2>3. cap' = NoCapture /\ det' = NoDetails /\ man' = NoWork
    BY <1>1, <1>10, <2>2 DEF OneOperation
  <2>4. OneOperation'
    BY <2>3 DEF OneOperation
  <2> QED
    BY <1>10, <1>13, <2>1, <2>3, <2>4, IdleNext, PartsNext
<1>11. CASE Others
  <2>1. OthersEdit /\ UNCHANGED <<call, cap, det, man, con>>
    BY <1>11 DEF Others
  <2>2. /\ VaultOK'
        /\ \E id \in Live, body \in Bodies \cup {Gone} : Put(id, body) /\ (body # Gone => body.uid = Body(id).uid)
    BY <1>1, <2>1, OthersPut DEF VaultOK
  <2>3. PICK id \in Live, body \in Bodies \cup {Gone} : Put(id, body) /\ (body # Gone => body.uid = Body(id).uid)
    BY <2>2
  <2>4. /\ \A m \in Ids : rated[m] => rated'[m]
        /\ \A j \in Ids : records'[j] = records[j] \/ records'[j].rev = records[j].rev + 1
    BY <1>1, <2>3, Putting DEF VaultOK, Live
  <2>5. CapOK'
    BY <1>1, <2>1, <2>4, CapStays DEF CapOK
  <2>6. ManOK'
    <3>1. \A p \in Slots : Answers(p) => Answers(p)'
      BY <1>1, <2>1, <2>3, AnswersKept DEF VaultOK
    <3> QED
      BY <1>1, <2>1, <2>4, <3>1, ManStays DEF ManOK, VaultOK
  <2>7. UidInv'
    <3>1. CASE man = NoWork
      BY <2>1, <3>1, IdleNext
    <3>2. CASE man # NoWork
      BY <1>1, <2>1, <2>3, <3>2, PutKeepsUids DEF ManOK, VaultOK
    <3> QED
      BY <3>1, <3>2
  <2> QED
    BY <1>3, <1>4, <2>1, <2>2, <2>5, <2>6, <2>7, PartsNext
<1>12. CASE UNCHANGED vars
  BY <1>3, <1>4, <1>5, <1>12, <1>13, PartsNext DEF vars
<1> QED
  BY <1>6, <1>7, <1>8, <1>9, <1>10, <1>11, <1>12 DEF Next, Step

\* The invariant holds in every reachable state.
THEOREM OperationsSafe == Spec => []IInv
BY InitInv, StepInv, PTL DEF Spec

\* The variables have their types: a request stays within its rounds, also when it
\* falls back from a conversation to a chat, and a fetch within its workers
\* (openrouter_provider.py:98-133, mistral_provider.py:150-210, detail_fetch.py:60).
THEOREM OperationsTypeCorrect == Spec => []TypeOK
<1>1. IInv => TypeOK
  BY DEF IInv
<1> QED
  BY <1>1, OperationsSafe, PTL

\* What a capture answers and what is stored fit together: an answer "failed" stored
\* nothing, nor did a job that failed before the write (capture_service.py:434-435).
THEOREM AnswerIsTrue == Spec => []AnswerTellsTheTruth
<1>1. IInv => AnswerTellsTheTruth
  BY DEF IInv, CapInv
<1> QED
  BY <1>1, OperationsSafe, PTL

\* The rating, the strength and the words of a stored note are the user's
\* (capture_service.py:356-372, 512-520).
THEOREM UserWordsStand == Spec => []UserWordsKept
<1>1. IInv => UserWordsKept
  BY DEF IInv, CapInv, UserWordsKept, Obeys
<1> QED
  BY <1>1, OperationsSafe, PTL

\* No match is stored that was never well rated, unless a person approved a plan
\* that names it (pairing_match.py:259-264).
THEOREM MatchesStayGood == Spec => []MatchesWereGood
<1>1. IInv => MatchesWereGood
  BY DEF IInv, VaultInv
<1> QED
  BY <1>1, OperationsSafe, PTL

\* What a fetch of details offers is proven (detail_fetch.py:489-494).
THEOREM ProposalsAreProven == Spec => []ProposalsProven
<1>1. IInv => ProposalsProven
  BY DEF IInv, DetInv
<1> QED
  BY <1>1, OperationsSafe, PTL

\* Each change of a maintenance job is reported once, and an applied one wrote the
\* record it names, by its id or, of a plan, by its uid (manage_service.py:541-557).
THEOREM EveryTargetIsAnswered == Spec => []EveryTargetAnswered
<1>1. IInv => EveryTargetAnswered
  <2> SUFFICES ASSUME IInv, man.outcome = "done" PROVE EveryTargetAnswered
    BY DEF EveryTargetAnswered
  <2>1. Accounted
    BY DEF IInv, ManInv
  <2> QED
    BY <2>1 DEF Accounted, Answers, EveryTargetAnswered
<1> QED
  BY <1>1, OperationsSafe, PTL

\* An operation changes of a record that exists only the fields its change names, as
\* the record is at that moment, and drops a value under an old name.
THEOREM OnlyItsFieldsChange == Spec => OnlyItsFields
<1> DEFINE Only ==
      others' = others =>
        \A id \in Live :
          LET c == man.list[man.item]
              was == Body(id)
              is == records'[id].body
          IN \/ records'[id] = records[id]
             \/ /\ man.at = "write" /\ id = man.found /\ is # Gone
                /\ is.status = was.status /\ is.abv = was.abv /\ is.notes = was.notes /\ is.common = was.common
                /\ c.rating = Unnamed => is.rating = was.rating
                /\ c.pairings = Kept => is.profile = was.profile /\ is.matches = was.matches
                /\ ~Mints(c, was) => is.uid = was.uid
                /\ was.country # "old" => is.country = was.country
<1>1. IInv /\ [Next]_vars => [Only]_vars
  <2> SUFFICES ASSUME IInv, Next, others' = others, NEW id \in Live
               PROVE  records'[id] = records[id] \/ Edited(id)
    BY DEF Edited
  <2>1. VaultOK /\ CallOK /\ CapOK /\ DetOK /\ ManOK /\ ConTypeOK /\ UidInv
    BY Parts
  <2>2. UNCHANGED vaultVars => records'[id] = records[id]
    BY DEF vaultVars
  <2>3. CASE CapStep /\ UNCHANGED man
    BY <2>1, <2>3, CapMoves
  <2>4. CASE DetStep
    BY <2>1, <2>2, <2>4, DetMoves
  <2>5. CASE ManStep
    BY <2>1, <2>5, ManMoves
  <2>6. CASE ConStep
    BY <2>1, <2>2, <2>6, ConMoves DEF CallOK
  <2>7. CASE Others
    BY <2>1, <2>7, OthersPut DEF Others, VaultOK
  <2> QED
    BY <2>2, <2>3, <2>4, <2>5, <2>6, <2>7 DEF Next, Step
<1> QED
  BY <1>1, OperationsSafe, PTL DEF Spec, OnlyItsFields

=============================================================================
