------------------------------ MODULE Consult -------------------------------
(***************************************************************************)
(* The operations that only advise: a lookup (backend/app/                 *)
(* lookup_service.py), a turn of the portal's chat (chat_service.py) and a *)
(* maintenance plan (manage_service.py).                                   *)
(***************************************************************************)
EXTENDS Tasting, ModelCall

CONSTANT Actions    \* <<kind, ids>>: what a model may propose

VARIABLE con

conVars == <<con>>

ActionKinds == {"fetch_details", "regenerate_pairings", "rematch_pairings"}
NoConsult == [at |-> "idle", kind |-> "none", photo |-> FALSE, vision |-> "none", model |-> "none",
              items |-> {}, actions |-> {}, outcome |-> "none"]

\* A question, with a photo or without.
ConStart(c) ==
  \E k \in {"lookup", "chat", "plan"}, p \in BOOLEAN, v \in Providers \cup {"none"}, m \in Providers \cup {"none"} :
    c = [NoConsult EXCEPT !.at = "start", !.kind = k, !.photo = p, !.vision = v, !.model = m]

ConTypeOK ==
  con \in [at : {"idle", "start", "label", "ask", "answer", "end"}, kind : {"none", "lookup", "chat", "plan"},
           photo : BOOLEAN, vision : Providers \cup {"none"}, model : Providers \cup {"none"},
           items : SUBSET Ids, actions : SUBSET (ActionKinds \X SUBSET Ids),
           outcome : {"none", "done", "raised"}]

ConEnds(outcome) == con' = [con EXCEPT !.at = "end", !.outcome = outcome]

\* A lookup's photo is read first; chat and plan begin with the records.
ConBegin ==
  /\ con.at = "start" /\ UNCHANGED vaultVars
  /\ \/ /\ con.photo /\ con.vision # "none"
        /\ Call(con.vision, FALSE, FALSE) /\ con' = [con EXCEPT !.at = "label"]
     \/ /\ ~(con.photo /\ con.vision # "none") /\ UNCHANGED call
        /\ con' = [con EXCEPT !.at = "ask", !.model = IF con.photo THEN con.vision ELSE @,
                              !.items = CASE con.kind = "chat" -> Items [] con.kind = "plan" -> Live [] OTHER -> {}]
     \/ con.kind # "lookup" /\ ConEnds("raised") /\ UNCHANGED call

ConLabel ==
  /\ con.at = "label" /\ Answered /\ HangUp /\ UNCHANGED vaultVars
  /\ \/ Returned("list") /\ ConEnds("raised")
     \/ Returned("dict") /\ con' = [con EXCEPT !.at = "ask"]
     \/ ~Returned("list") /\ con' = [con EXCEPT !.at = "ask", !.model = con.vision]

\* An unknown model: a lookup says so in its answer, the others raise.
ConAsk ==
  /\ con.at = "ask" /\ UNCHANGED vaultVars
  /\ IF con.model = "none"
     THEN ConEnds(IF con.kind = "lookup" THEN "done" ELSE "raised") /\ UNCHANGED call
     ELSE Call(con.model, con.kind = "lookup", con.kind = "plan") /\ con' = [con EXCEPT !.at = "answer"]

\* _resolve: the items of the list that are named, without those that are not; an
\* action of another kind, or on nothing, is dropped.
Resolve(actions) ==
  {a \in {<<a[1], a[2] \cap con.items>> : a \in actions} : a[1] \in ActionKinds /\ a[2] # {}}

ConAnswer ==
  /\ con.at = "answer" /\ Answered /\ HangUp /\ UNCHANGED vaultVars
  /\ \/ con.kind # "lookup" /\ ~Returned("dict") /\ ConEnds("raised")
     \/ con.kind = "lookup" /\ ConEnds(IF Returned("text") THEN "done" ELSE "raised")
     \/ con.kind = "plan" /\ Returned("dict") /\ ConEnds("done")
     \/ /\ con.kind = "chat" /\ Returned("dict")
        /\ \/ ConEnds("raised")    \* no reply
           \/ \E actions \in SUBSET Actions :
                con' = [con EXCEPT !.at = "end", !.outcome = "done", !.actions = Resolve(actions)]

ConStep == ConBegin \/ ConLabel \/ ConAsk \/ ConAnswer
=============================================================================
