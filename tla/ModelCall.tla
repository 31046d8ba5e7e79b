----------------------------- MODULE ModelCall ------------------------------
(***************************************************************************)
(* One call of a language model: OpenRouter's tool loop                    *)
(* (backend/app/openrouter_provider.py), Mistral's conversation with its   *)
(* fall-back to chat completions (mistral_provider.py), and the reading of *)
(* the reply (model_output.py).  Models and network answer as they like.   *)
(***************************************************************************)
EXTENDS Naturals

CONSTANTS MaxRounds   \* max_tool_iterations

VARIABLE call

Providers == {"openrouter", "mistral"}
Surfaces == {"openrouter", "conversation", "chat"}
\* What a reply can be: an object, plain or wrapped in prose, a fence or a train of
\* thought; JSON of another shape; no JSON; nothing.
Replies == {"object", "wrapped", "list", "prose", "nothing"}
\* What a caller gets: a dict, other JSON, text, ModelOutputError, another exception.
Results == {"dict", "list", "text", "unusable", "error"}

NoCall == [at |-> "idle", surface |-> "none", lookup |-> FALSE, search |-> FALSE,
           rounds |-> 0, asked |-> 0, result |-> "none"]

CallTypeOK ==
  call \in [at : {"idle", "ask", "end"}, surface : Surfaces \cup {"none"}, lookup : BOOLEAN,
            search : BOOLEAN, rounds : 0..MaxRounds, asked : 0..(2 * MaxRounds + 1),
            result : Results \cup {"none"}]

\* provider_for: a model's id tells its provider; ids of neither have none.
ProviderFor(model) == IF model \in Providers THEN model ELSE "none"

\* extract_structured, or answer_question: only the latter keeps what was cut off.
Call(provider, lookup, search) ==
  call' = [NoCall EXCEPT !.at = "ask", !.lookup = lookup, !.search = search,
             !.surface = IF provider = "openrouter" THEN "openrouter"
                         ELSE IF lookup \/ search THEN "conversation" ELSE "chat"]

Asking(surface) == call.at = "ask" /\ call.surface = surface
Ends(result) == call' = [call EXCEPT !.at = "end", !.asked = @ + 1, !.result = result]
\* loads_model_json; an answer_question returns its text as it is.
Read(reply) ==
  IF call.lookup THEN "text"
  ELSE IF reply \in {"object", "wrapped"} THEN "dict" ELSE IF reply = "list" THEN "list" ELSE "unusable"
CutOff == Ends(IF call.lookup THEN "text" ELSE "unusable")
AsksAgain == call' = [call EXCEPT !.rounds = @ + 1, !.asked = @ + 1]

\* Without its key a provider raises before it asks.
KeyMissing ==
  /\ call.at = "ask" /\ call.asked = 0
  /\ call' = [call EXCEPT !.at = "end", !.result = "error"]

\* _run_tool_loop: a reply, tool calls, a reply cut off, one without choices, a
\* timeout; or an exception of the network, of a tool's arguments or its query.
OpenRouterTurn ==
  /\ Asking("openrouter")
  /\ \/ \E reply \in Replies : Ends(Read(reply))
     \/ IF call.rounds + 1 < MaxRounds THEN AsksAgain ELSE Ends("unusable")
     \/ CutOff
     \/ Ends("unusable")
     \/ Ends("error")

\* _run_chat_loop: no timeout, and out of rounds is an exception of its own.
ChatTurn ==
  /\ Asking("chat")
  /\ \/ \E reply \in Replies : Ends(Read(reply))
     \/ IF call.rounds + 1 < MaxRounds THEN AsksAgain ELSE Ends("error")
     \/ CutOff
     \/ Ends("error")

\* Any exception of the conversation falls back to chat, without web search.
FallBackForEver ==
  call' = [call EXCEPT !.surface = "conversation", !.search = FALSE, !.rounds = 0, !.asked = @ + 1]
FallBack ==
  call' = [call EXCEPT !.surface = "chat", !.search = FALSE, !.rounds = 0, !.asked = @ + 1]

\* _run_conversation_loop: of the request after the last round the answer is not
\* looked at.
ConversationTurn ==
  /\ Asking("conversation")
  /\ \/ call.rounds < MaxRounds /\ \E reply \in Replies : Ends(Read(reply))
     \/ call.rounds < MaxRounds /\ AsksAgain
     \/ FallBack

CallStep == KeyMissing \/ OpenRouterTurn \/ ChatTurn \/ ConversationTurn

\* Its caller takes the result.
Answered == call.at = "end"
Returned(result) == Answered /\ call.result = result
Raised == Answered /\ call.result \in {"unusable", "error"}
HangUp == call' = NoCall
=============================================================================
