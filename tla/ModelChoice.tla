---------------------------- MODULE ModelChoice -----------------------------
(***************************************************************************)
(* Which model an operation runs on: the choices stored on the relay       *)
(* (relay/app/models_catalog.py, routes/worker_admin.py) and the copy that *)
(* taster-admin caches (backend/app/model_roles.py).  Stored choices       *)
(* outlive both the settings' names and the models, so they are pruned and *)
(* migrated each time they are read.                                       *)
(***************************************************************************)
EXTENDS Naturals, Sequences

CONSTANTS
  Catalog,     \* the models on offer (MODEL_IDS)
  Retired,     \* models that were on offer once
  NoModel,     \* no choice made
  ConfigModel, \* what config.yaml says
  TTL          \* _CACHE_TTL_S, in ticks

VARIABLES
  stored,      \* the relay's admin_settings
  cache        \* taster-admin's _cache: the choices, and for how long it has them

Roles == {"vision", "research", "reasoning"}
Keys == Roles \cup {"matching", "image", "text", "capture", "lookup"}
Choices == [Keys -> Catalog \cup Retired \cup {NoModel}]
NoChoices == [k \in Keys |-> NoModel]
NoCache == [data |-> NoChoices, age |-> TTL]

ChoiceTypeOK == stored \in Choices /\ cache \in [data : Choices, age : 0..TTL]

Or(a, b) == IF a # NoModel THEN a ELSE b

\* prune_unknown_models and migrate_model_settings.
Prune(s) == [k \in Keys |-> IF k = "matching" \/ s[k] \in Catalog THEN s[k] ELSE NoModel]
Migrate(s) == [k \in Keys |->
  CASE k = "vision" -> Or(s[k], Or(s["image"], Or(s["capture"], s["lookup"])))
    [] k \in {"research", "reasoning"} -> Or(s[k], s["text"])
    [] k = "matching" -> s[k]
    [] OTHER -> NoModel]

\* The other order.
MigrateFirst == Prune(Migrate(stored))
\* What get_settings answers, and what rides on every job the worker claims.
Settings == Migrate(Prune(stored))

Legacy == [vision |-> "image", research |-> "text", reasoning |-> "text"]
ModelForRole(r, o) == Or(Or(o[r], o[Legacy[r]]), ConfigModel)

\* put_settings: all or nothing.  What is stored replaces everything stored
\* before, under the names of today.
Valid(new) == \A r \in Roles : new[r] \in Catalog \cup {NoModel}
PutSettings(new) ==
  /\ Valid(new)
  /\ stored' = [k \in Keys |-> IF k \in Roles \cup {"matching"} THEN new[k] ELSE NoModel]

\* admin_overrides: the cache while it is fresh, else the relay's answer.
Fresh == cache.age < TTL
Keep(data, age) == cache' = [data |-> data, age |-> age]
\* A read that fails keeps what was cached, for a full period more.
KeepOld(age) == Keep(cache.data, age)
\* The choices change on the relay only.
ForgetNothing == UNCHANGED cache
ForgetCache == cache' = NoCache
Older(c) == [c EXCEPT !.age = IF @ < TTL THEN @ + 1 ELSE TTL]
-----------------------------------------------------------------------------
\* The names under which a role's choice may still be stored, newest first.
Names == [vision |-> <<"vision", "image", "capture", "lookup">>,
          research |-> <<"research", "text">>, reasoning |-> <<"reasoning", "text">>]

\* models_catalog.py:130-134, 156-165: a choice saved under an older name still
\* counts, and one whose model was retired makes way for the next older name or
\* the configuration; it never hides a choice that could be used.
OldChoiceKept ==
  \A r \in Roles :
    LET live == {i \in DOMAIN Names[r] : stored[Names[r][i]] \in Catalog} IN
    ModelForRole(r, Settings) =
      IF live = {} THEN ConfigModel
      ELSE stored[Names[r][CHOOSE i \in live : \A j \in live : i <= j]]
=============================================================================
