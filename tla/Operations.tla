----------------------------- MODULE Operations -----------------------------
(***************************************************************************)
(* One operation on the records, run by the worker or by taster-admin,     *)
(* beside other processes that edit the same records: a capture, a fetch   *)
(* of details, a maintenance job, or one that only advises.                *)
(***************************************************************************)
EXTENDS Capture, DetailFetch, Maintain, Consult

CONSTANT Scenes    \* what is there at first, and which operation is begun

vars == <<vaultVars, call, cap, det, man, con>>

\* The records so far, whose uids differ and whose matches were well rated at some
\* time, and one operation to run.
Begins(s) ==
  /\ s.bodies \in [Ids -> Bodies \cup {Gone}] /\ s.others \in Nat /\ s.minted \in Nat
  /\ s.rated \in [Ids -> BOOLEAN] /\ \A i \in Ids : Good(s.bodies[i]) => s.rated[i]
  /\ \A i \in Ids : s.bodies[i] # Gone =>
       /\ s.bodies[i].uid <= s.minted
       /\ \A j \in Ids : s.bodies[j] # Gone /\ s.bodies[j].uid = s.bodies[i].uid => i = j \/ s.bodies[i].uid = NoUid
       /\ IsItem(i) => \A m \in s.bodies[i].matches : m \in Ids /\ s.rated[m]
  /\ \A p \in DOMAIN s.man.list : s.man.list[p].uid <= s.minted
  /\ \/ CapStart(s.cap) /\ s.det = NoDetails /\ s.man = NoWork /\ s.con = NoConsult
     \/ s.cap = NoCapture /\ DetStart(s.det) /\ s.man = NoWork /\ s.con = NoConsult
     \/ s.cap = NoCapture /\ s.det = NoDetails /\ ManStart(s.man) /\ s.con = NoConsult
     \/ s.cap = NoCapture /\ s.det = NoDetails /\ s.man = NoWork /\ ConStart(s.con)

ASSUME OperationsAssumption ==
  /\ MaxRating \in Nat /\ MinRating \in 1..MaxRating /\ MaxRounds \in Nat \ {0}
  /\ IsFiniteSet(Fields) /\ Concurrency \in Nat \ {0} /\ Nameless \notin Ids
  /\ Inputs \subseteq Sayings /\ Drafts \subseteq (Ids \cup {Nameless}) \X BodiesOf(Nat)
  /\ Guesses \subseteq SUBSET (Ids \cup {NameOnly}) /\ MaxChanges \in Nat /\ NoId \notin Ids
  /\ Gone \notin BodiesOf(Nat)
  /\ \A s \in Scenes : Begins(s)

TypeOK == VaultTypeOK /\ CallTypeOK /\ CapTypeOK /\ DetTypeOK /\ ManTypeOK /\ ConTypeOK

Init ==
  /\ \E s \in Scenes :
       /\ records = [id \in Ids |-> [rev |-> 0, body |-> s.bodies[id]]]
       /\ rated = s.rated /\ minted = s.minted /\ others = s.others
       /\ cap = s.cap /\ det = s.det /\ man = s.man /\ con = s.con
  /\ call = NoCall

Others == OthersEdit /\ UNCHANGED <<call, cap, det, man, con>>

Step ==
  \/ CallStep /\ UNCHANGED <<vaultVars, cap, det, man, con>>
  \/ CapStep /\ UNCHANGED <<det, man, con>>
  \/ DetStep /\ UNCHANGED <<cap, man, con>>
  \/ ManStep /\ UNCHANGED <<cap, det, con>>
  \/ ConStep /\ UNCHANGED <<cap, det, man>>

Next == Step \/ Others

Spec == Init /\ [][Next]_vars

\* The event loop runs an operation on, and each request to a model ends: OpenRouter's
\* by its time limit (openrouter_provider.py:98-107), Mistral's because its client
\* answers or raises, which is assumed of it.
FairSpec == Spec /\ WF_vars(Step)
-----------------------------------------------------------------------------
\* A match that is stored was rated MinRating at some time, whichever model proposed
\* it and whatever failed on the way, and whatever became of the ratings meanwhile
\* (capture_service.py:410-411, pairing_match.py:281-285), unless a person approved
\* a plan that names it.
Approved == UNION {man.list[p].matches : p \in {q \in DOMAIN man.list : man.kind = "apply"}}
MatchesWereGood ==
  \A id \in Items : \A m \in Body(id).matches : (m \in Ids /\ rated[m]) \/ m \in Approved

\* Of a record that exists an operation changes only what its change names, as the
\* record is at that very moment: an edit of another field that somebody makes
\* during the minutes it takes is not undone.  Two things are lost: a value of a
\* field it names, whoever saved it, and a value under an old field's name.  Advice,
\* a fetch of details or a capture change no such record at all.
OnlyItsFields ==
  [][others' = others =>
       \A id \in Live :
         LET c == man.list[man.item]
             was == Body(id)
             is == records'[id].body
         IN \/ records'[id] = records[id]
            \/ /\ man.at = "write" /\ id = man.found /\ is # Gone
               /\ is.status = was.status /\ is.abv = was.abv /\ is.notes = was.notes /\ is.common = was.common
               /\ c.rating = Unnamed => is.rating = was.rating
               /\ c.pairings = Kept => is.profile = was.profile /\ is.matches = was.matches
               /\ ~Mints(c, was) => is.uid = was.uid
               /\ was.country # "old" => is.country = was.country]_vars

\* Every operation ends, whatever the models answer and the others do.
Busy(op) == op.at \notin {"idle", "end"}
OperationEnds == <>(~Busy(cap) /\ ~Busy(det) /\ ~Busy(man) /\ ~Busy(con))
=============================================================================
