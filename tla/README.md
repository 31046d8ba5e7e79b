# Taster: a verification project

Taster keeps a personal tasting log. A phone app talks to a small public
**relay**; a **worker** at home, which nobody can reach from outside, polls the
relay for jobs, executes them with language models against a CouchDB, and posts
the results back. The same database is an Obsidian vault, so a person edits the
records in three places: the phone, Obsidian, and a second process at home, the
**taster-admin** portal. What is hard about the program is not any one function
but what happens between these processes: calls that are lost or arrive late,
processes that die halfway, and two writers of one record.

This directory holds TLA+ models of that code, the TLC configurations that check
them on small instances, and proofs, checked by TLAPS, for every instance.
`PROJECT.json` is the index: the components, the runs, the lines of code each
definition models, the hazards, and the theorems.

To check a run: `tlc -config JobBroker.cfg MCJobBroker`; to check the proofs of
a module: `tlapm JobBrokerProofs.tla`.

## 1. The system

| Component | State it keeps | Operations | Talks to |
|---|---|---|---|
| Relay job broker (`relay/app/db.py`, `routes/*`) | SQLite: `jobs`, `items_cache`, `admin_settings`, `usage_*`; in memory: categories | create, claim, complete, fail, prune; set/get caches | phone and worker, over HTTP; every handler runs under `db._lock` |
| Worker loop (`backend/app/worker.py`) | the job it executes, timers | poll, execute, snapshot, post, report, idle pass | relay, CouchDB, model providers; one asyncio loop, at most one call awaited |
| Usage ledger (`backend/app/usage.py`, `db.add_usage`) | per process: pending counts, one batch in flight; relay: sums, seen batch ids | book, take, push, ack; add, prune | worker and taster-admin to relay |
| Record database (`couchdb_client.py`) | CouchDB documents: a record, and its vault file as an entry and its chunks | write, update, delete, soft delete, project, changes feed | every process at home, Obsidian by replication |
| Reverse-sync (`reconcile.py`) | a cursor in the changes feed | read a page, fold edits into the records, advance | record database |
| Record edits (`record_service.py`) | none | update, delete, with the vault file's clean-up | record database |
| Sync and repair (`sync_service.py`) | none | status, rebuild vault, rebuild records, normalise | record database |
| Capture (`capture_service.py` and helpers) | none | read a label, extract, enrich, write | model providers, record database |
| Detail fetch (`detail_fetch.py`) | none | propose values with evidence, review, apply | model providers, record database, history |
| Maintain and pairings (`manage_service.py`, `pairing_match.py`) | none | plan, apply, repair, re-match | model providers, record database, history |
| Admin portal (`admin_web.py`) | jobs in memory, a queue | direct edits, queued and spawned jobs, undo | everything above |
| Change history (`history.py`) | one file, `history.jsonl`, and the `history.tmp` it is trimmed through | append, trim, read | worker and taster-admin, which share the file |
| Model choice (`model_roles.py`, relay `models_catalog.py`) | stored settings, a 60 s cache | resolve, save, migrate, prune, forget | relay, worker, portal |
| Rate limiter (`relay/app/rate_limit.py`) | hits per address | admit, sweep | the phone's routes |
| Phone app (`relay/static/app.js`) | screens | submit, poll, wait | relay |
| Model calls (`openrouter_provider.py`, `mistral_provider.py`, `model_output.py`) | none | a tool loop, a fall-back, reading the reply | the model providers |
| Chat and lookup (`chat_service.py`, `lookup_service.py`) | none | answer a question, offer actions | model calls, record database (reads) |

The rest is data transformation (schema, markdown), logging, and deployment
scripts.

### What makes each part correct, and what is hard about it

* **Broker and worker.** Every submitted job is answered; what the phone is told
  is true; a job is not executed twice without a reason; jobs are executed in
  order; the phone sees the change it is told about. Hard: the claim is committed
  before its response is sent; a claim expires while its first holder may still
  post; posts are updates by id alone; a snapshot may be older than the one it
  overwrites; worker and relay restart independently.
* **Usage ledger.** Each call is counted exactly once. Hard: additive batches over
  a channel that loses answers; ids that are forgotten after a week; tasks that
  book while a push is awaited; shutdown with a push in flight.
* **Record database, reverse-sync, edits, sync.** No human edit is lost silently;
  record and vault file agree once things are quiet; what was deleted stays
  deleted. Hard: three documents per note and no transaction; a read, some model
  calls, and a write; a path that is compared as it is spelled and stored in lower
  case; a feed without an order between shards; a cursor that moves past failures;
  best-effort clean-up.
* **Capture, detail fetch, maintain.** What the person is told is what was done;
  the user's own words survive the models; a match is a record that was rated well
  enough; a proposal that is accepted unseen is proven; a repair touches its own
  fields only. Hard: each is a chain of calls any of which may fail, fall back or
  be cut off, with the records read before and written minutes later.
* **Admin portal.** Every job is answered; those that write run one at a time. Hard:
  spawned tasks beside the runner; a restart that forgets jobs whose changes stand.
* **Change history.** Undo restores what was replaced, and the newest changes can be
  undone. Hard: the values are read before the edit reads them again; a file that
  two containers append to and trim, through one temporary file; a full disk.
* **Model choice.** The next operation uses the new choice. Hard: a read under way
  when the cache is dropped.
* **Rate limiter.** Never more than the limit in a window, and no address kept for
  ever. Hard: the borders of window and sweep.

Every such place is listed, with its line, under `hazards` in `PROJECT.json`,
together with the properties that would catch it going wrong.

## 2. What is modelled

### JobBroker (with JobPromise, MCJobBroker)

`JobBroker` composes the relay's tables, the worker's loop and the network.

| In the model | In the code |
|---|---|
| `status`, `result`, `payloads`, `born`, `age` | the columns of `jobs`: `status`, `result`, whether `payload` is not yet `'{}'`, the order of `created_at`, the time since `updated_at` |
| `items`, `categories` | `items_cache` (as the set of changes the snapshot contains), whether `_categories_cache` is filled |
| `pc`, `job`, `outcome`, `snapDue` | where `run_worker_loop` is between two awaits, its job, what `process_job` returned or raised, whether the snapshot timer is due |
| `wire`, `req`, `reply` | the one HTTP call the loop awaits |
| `stray` | requests whose caller timed out or died and that may still arrive |
| `vault` | the changes applied to the records (the record database in one word) |
| `worked`, `starts` | history variables, read by properties only |

A relay handler runs under `db._lock` and is one action; the worker has an action
per stretch between two awaits (`PollNext`, `TakeJob`, `Work`/`WorkRaises`,
`ReadItems`, `PostResult`, `CallReturns`/`CallRaises`, `IdlePass`). The faults are
`LoseCall` (the request or its response; a lost request may arrive later as a
stray), `ReadItemsRaises`, `WorkerCrash` and `RelayRestart`; `MaxFaults` bounds
them together and is the only bound of the model. Time is the age of each row,
counted up to just past the timeout it is compared with, so there is no clock to
bound: `ClaimTimeout` and `Retention` are small numbers of ticks, and a tick may
happen at any moment, also while a job is executed.

Abstractions: what a job does to the records is one step that writes or raises,
with or without having written; a result is "saved" or "refused" (a capture's own
`status: failed`); the phone only reads, so it is not an actor but the operator
`StatusShown`; a record is reduced to the changes made to it.

`JobPromise` is what the broker promises a submitter, without relay, worker or
network: a job is accepted, worked on any number of times, answered, possibly
answered again, and forgotten; "done" only after the work ran to its end, and
never open again once answered. `JobBroker` implements it (`KeepsPromise`), with
`phases` as the mapping of the rows.

### UsageLedger (with MCUsageLedger)

| In the model | In the code |
|---|---|
| `pending`, `inFlight` | `_pending`, `_in_flight` of each process, as the calls they contain |
| `wire`, `stray` | the awaited `push_usage`; batches whose sender no longer listens |
| `counted`, `seen`, `aged` | the sums in `usage_daily`/`usage_by_task` (how often each call went in), `usage_reports`, and which ids are past the retention |
| `proc` | up, stopping (the final push of a `finally` is out), down |
| `booked`, `dropped`, `expired` | history: the calls made; those a process still held when it ended; those whose batch lost its id to the prune before it was acked |

A process in `Concurrent` (taster-admin) books while its push is awaited; the
worker's single loop does not. Stopping cancels an awaited push, whose request
may still arrive. `Tick` lets the retention pass and only happens with nothing
on the wire, since a week is longer than any call.

### VaultSync (with RecordStore, MCVaultSync)

`RecordStore` is the database: a record per note, an entry per vault file, one
update sequence. `VaultSync` lets the processes at home and a person in Obsidian
work on it, one CouchDB call at a time.

| In the model | In the code |
|---|---|
| `record[u]`, `file[e]` | the note's JSON document; the LiveSync entry with the id `e`; `seq` is the number of the document's last write and stands for its `_rev` |
| `Paths`, `Entries`, `EntryId` | the vault paths as they are spelled; the ids of the entries; `path.lower()` (`couchdb_client.py:188`) |
| `Shards`, `ShardOf` | the shards of the database (CouchDB's default is two, and `qnap` leaves it), and the one a document is in |
| a text: `uid`, `ver`, `path`, `by` | a whole note: its logical id, which edit of it, the path its fields give (spelled as they are), and whether the app rendered it, a person wrote it, or it is torn |
| `late` | texts of which LiveSync has not replicated a chunk yet; read meanwhile, one is blank, unparseable or torn |
| `cursor` | the `_local` document of reverse-sync: `last_seq`, which is a place in each shard's changes |
| `proc[w]` | where process `w` is: its operation, the items its loop still has, the revision or the old note it read, the cursor to save |
| `edited`, `shown`, `marred` | history: the last acknowledged edit of a note, the file that last received its text, and what happened to it that the code does not promise to repair |

Every operation starts with what it reads (`Capture`, `Update`, `Apply`, `Delete`,
`RebuildVault`, `RebuildRecords`, `NormalizeRecords`, `ReadPage`) and goes on call
by call: `Put` (409 unless the revision fits), `PutEntry` and `TakeOver` (the entry
is written over whatever is there, unless it changes between the read and the PUT),
`FindOld` and `Unlink` (the old file after a rename or a delete; whether an edit moved
the record is decided by the spelled paths, which file is removed by the entry's id), `Match` and
`Store` (reverse-sync and the forced import), `SaveCursor`. `Apply` is a change of an
approved plan (`_apply_one`): it writes the record and its file like an edit, but
whatever file the record moves away from stays alive. A page of the feed (`Pages`) has
the oldest changes of each shard, as many of each as CouchDB likes; within a shard they
come in the order of their last writes, between shards in any order. A person saves, moves or
deletes a file. `Fail` is a call that fails, with the code's way of going on (the
record's PUT raises, the projection is logged and skipped, a page's item is
skipped); `Crash` ends a process; `ChunkArrives` brings a chunk after its entry.

`marred` makes the exceptions explicit:

| Mark | What happened to the note |
|---|---|
| "fault" | a call failed, or a process died, while at work on it |
| "chunk" | its file was read before a chunk of it had come |
| "import" | a forced rebuild of the records wrote it from a list read earlier |
| "early" | its file was written before reverse-sync had a bookmark |
| "lost" | a new text of it reached no file: the path was another note's by then, or the file gone, and the conflict is swallowed (`couchdb_client.py:221`) |
| "order" | reverse-sync stored an older file's text after it had read the newer file, which lies in another shard |
| "human" | a person edited, moved or deleted its file |
| "crossed" | two writers met: an older text than the last edit's was written, its file was overwritten by another note's, or a writer found the file changed under its hands |
| "hidden" | the file with its last edit was removed: by another writer's clean-up, or by its own, when an edit changed only the case of the path |

`Agreement` excepts all but the last three: whoever wrote, and whoever crossed, record
and file are equal in the end, if not with the text one would wish for. `EditsSurvive`
excepts all of them: a note marred by nothing must hold its last acknowledged edit, in
its record and in a live file. The app's own echo through reverse-sync may put an older
text on the record for the time of a page, which is why both speak of quiet states.
A mark is set where the harm is done, not where an operation that may do harm begins:
an edit that moves a file, or a plan that leaves one behind, is in itself no exception.

Abstractions: a file text that does not parse is a skipped item, as after a failed
call; a note's document id follows its
uid, so `_reconcile_entry`'s second look-up by document id finds the same record.
`sync_status` only reads, list by list, and nothing is decided by what it tells: it is
no part of the model.

### AdminPortal (with ModelChoice, MCAdminPortal)

| In the model | In the code |
|---|---|
| `status`, `queue` | `Jobs.by_id[..]["status"]`, `Jobs.queue` |
| `task[a]` | where the runner, or a spawned task, is: asking for the model choice, waiting for the relay, at work |
| `stored`, `cache` | the relay's `admin_settings` by key; `_cache` of `model_roles.py` with its age |
| `since`, `saved`, `stale` | history: the age of the last save, whether it was confirmed, whether the cache was kept past a failed read |

`Enqueue`, `Spawn`, `Take`, `Finish` are the jobs; `Ask`, `Answer`, `Return`,
`NoAnswer` a reading of the choice; `SaveStored`, `SaveConfirmed`, `SaveUnanswered`
a save; `Restart` a restart of the portal. `ModelChoice` holds the rules of the choice
(`Prune`, `Migrate`, the fall-back from a role to its older names and the
configuration).

The code is a little weaker than its comments in two places the properties allow
for: a settings read under way when a save drops the cache still caches the old
choice, for up to a minute (`model_roles.py:79-84`); and `admin_overrides` keeps the
old cache after a failed read although its docstring speaks of an empty one.

### History (with MCAdminPortal)

The edits whose replaced values are kept for undo, and the file they are kept in.

| In the model | In the code |
|---|---|
| `value[r]` | the field of record `r` that edits change, as the number of the edit that wrote it |
| `work[w]` | where process `w` is: its edit, the records still to change, the entries to append, the lines a trim keeps, and which file its open handle writes to |
| `live`, `temp`, `waiting` | the lines of `history.jsonl`; those of `history.tmp`, and whether it exists |
| `previous`, `replaced`, `crossed` | history: the value an entry holds, the value its edit did replace, and the edits that another one came between |
| `written`, `risked` | history: every entry appended, in order; those that ran into another process's trim or a failed write |

`Begin` is an edit that reads what it is about to replace (`apply_details`, of one
record; a repair, of many, from its list); `Update` reads one record again and writes
it, or its change raises and leaves no entry; `Edit` is any other writer. `append` is
taken apart into its calls: `OpenLog`, `Flush` entry by entry (a text file hands on
whole lines, one or several at a time), `Read`, and, past twice `HISTORY_KEEP` lines,
`OpenTmp` (which empties `history.tmp`), `WriteTmp` and `Replace`. Both processes use
the one temporary file. A handle follows its file, not its name: who appends while the
file is replaced writes to one that has no name any more, who is about to write the
temporary file while it is renamed writes into the history; a text that is written over
a longer one leaves the rest of that behind it, from the middle of a line or not
(`Over`); and a temporary file that is gone makes `replace` raise, which is logged.
`FlushFails`, `WriteTmpFails` and `GiveUp` are a full disk and a process that ends: a
line is cut, and the next one is glued to it (`Glue`). Not modelled: `splitlines`
also splits a line at U+2028 and U+0085, which `ensure_ascii=False` leaves in it.

### RateLimiter (with MCRateLimiter)

The limiter is a plain function that FastAPI runs in a thread pool, so each of its
statements is an action: `SweepBegins`, `SweepScans`, `SweepDeletes` (one address at
a time), `FindWindow`, `Trim` and `Pop`, `Refuse` or `Pass`, `Hit`. `hits` maps
an address to a window, an object of its own, since a sweep may drop a window that
another thread still holds. Where two threads meet in one structure Python raises
(a dictionary that changes size during the scan, a deleted key, a pop from an empty
deque): the request ends in a 500 and the model's `Leave`. `admitted`, `asked`,
`overlap` and `broken` are history.

What the limit is worth under threads is subtle. Requests that run beside others may
pass the check together; and, less obviously, two threads that trim one window may
each pop a hit, so that a hit of an *earlier*, undisturbed request is lost, and a
third thread on another address may sweep the emptied window away. A count of hits
"apart from those that ran beside others" can therefore exceed the limit, though
only with three threads, beyond the run's two. `Bounded` says what does hold: since
`overlap`, the last time a request began beside another one, any hit that is `Limit`
hits after another comes more than a minute later.

### Operations (with ModelCall, Tasting, Capture, DetailFetch, Maintain, Consult)

`Operations` runs one operation of the worker or the portal over the records,
beside edits by other processes.

| Module | What it models |
|---|---|
| `ModelCall` | one call: OpenRouter's tool loop, Mistral's conversation and its fall-back to chat, `max_tool_iterations`, cut-off and unusable replies, a missing key |
| `Tasting` | the records as the operations see them, and the rules about them: validity, the sides of a pairing, what may be matched, what a text states, whose words the notes are |
| `Capture` | `read_image` and `run_capture` with its early returns, the enrichment retry, pinned facts, the choice and the check of matches, the write |
| `DetailFetch` | the workers behind the semaphore, evidence, the page read, the review, what is recommended |
| `Maintain` | re-match and regenerate of pairings, and an approved plan: list, model, matching, the rating rule (for repairs), look-up, write, read back |
| `Consult` | lookup, chat and plan, which write nothing |

Models answer as they like: every kind of reply is a disjunct, and what the code
tells apart in a reply is a field of the model's notes (is the tasting profile
there, are pairings, whose words are the notes). An approved plan is any sequence of
changes as the planning model wrote them: each with a `doc_id` and a `uid` of its own,
which need not belong together, perhaps two for one record, perhaps with pairings. A
record that was never normalised has a value under an old field's name
(`country = "old"`); parsing drops it, and no writer here folds it first. `cap`, `det`, `man`, `con` are where
each operation is; `call` is the model call it awaits; `others` bounds the edits of
other processes; `rated` is history. A `uid` is a number: `uuid4` never repeats itself,
which is what `minted`, the highest so far, stands for.

An operation begins from a scene: any records whose uids differ and whose matches
were well rated once, with any past in `rated`, so that what holds of one operation
holds of those that follow it.

What reading the code for these modules brought up, besides the findings:
Mistral's conversation makes one request more than `max_tool_iterations` and never
looks at its answer (`mistral_provider.py:196-228`); a reply that is JSON but not an
object raises outside of every `try` in `detail_fetch.py:425` and
`image_reader.py:68`; a repair whose record is written but cannot be read back is
reported as failed and leaves no undo (`manage_service.py:430-439`); the ratings a
repair checks come from the list read before the model call, minutes earlier.

## 3. Runs

| Run | Question | Bounds | Result |
|---|---|---|---|
| `job_broker` | Do the safety properties and the promise hold? | a capture (mutating) and a lookup; two faults; timeouts of one tick | holds, 2.6 million states |
| `job_broker_live` | Is every job answered, does the relay catch up? | the same jobs and an edit by another process; one fault; timeouts of zero ticks | holds |
| `unposted_is_unknown` | Does an exception of `post_job_done` mean the result never arrived? | one fault | violated |
| `fresh_when_done` | Does a client that polls "done" see fresh items? | one fault | violated |
| `usage_ledger` | Is every call counted exactly once, whatever fails? | worker and taster-admin, two calls, two faults | holds, 29 thousand states |
| `final_push` | Does the push on shutdown carry everything booked? | the same | violated |
| `vault_sync` | Do record and file agree once things are quiet, is no acknowledged edit lost, does nothing come back from the dead, does the feed drain? | two notes, three paths for two files in two shards, worker and portal, two operations of app or person, one fault, pages of two | holds, 1.2 million states |
| `rebuild` | Is a rebuild of the vault safe? | one note, one edit beside one rebuild, no fault | violated |
| `admin_portal` | Are jobs tracked to their end, is the choice recent; is the undo true, are the newest entries kept? | jobs: every set of stored choices; four jobs; two jobs and a save; one fault each. Edits: two processes, two records, a history of one line; three edits, or two and a fault | holds, 1.0 million states |
| `rate_limit` | Does the limit hold, is nobody refused below it, does the map stay small? | two threads, two addresses, limit two, a minute of two ticks, six ticks, five requests | holds, 6.4 million states |
| `operations` | Is what an operation tells what it did, whatever the models answer? | one operation of each sort, each from the scenes of `MCOperations`; four records, three fields, two tool rounds, plans of three changes, two edits by others | holds, 265 thousand states |
| `rematch_keeps` | Does a record keep its matches when the matching model does not answer? | one re-match of one record, two edits by others | violated |

Why the bounds are enough to be interesting: two jobs allow one to be overtaken,
reclaimed or pruned while the other is executed; two faults allow a lost claim
followed by a late post, a crash followed by a restart of the relay, or a lost
response followed by a lost report; one tick separates a fresh row from an expired
one, which is all the relay asks. In the ledger two calls suffice for a batch of
two, and for one call in flight while another is pending; two faults suffice for
a lost answer followed by a lost retry or a crash. The theorems below remove the
bounds for the safety properties of every module.

In `vault_sync` two operations are two writers of one note, or a writer and a
person, or a rebuild and what it overtakes; a page of two makes the feed take
several passes; two notes on two files can collide, be renamed into each other's
file, and be rebuilt in either order; the two files are in different shards, and one of
them has two spellings. The first note is `u1`, and its path is spelled the one way
(notes are alike, and so are spellings); its file has been read, and its record has a
legacy field, or reverse-sync has never run. What three operations can do to one note is
beyond this bound, and there the theorems are needed (section 4): some of it does
not happen with two.

`admin_portal` checks two modules that share a process and no variable: the portal's
jobs and choices, and the history. A scene is about one of them, the other has no
budget. In a history of one line the third line makes a trim, and three
edits of two records are enough for two trims at once, for entries written after them
and for a second trim. TLC's symmetry reduction is not sound beside the liveness
property, so `MCAdminPortal` breaks the symmetry itself: the first edit is one of the
portal and not of the second record alone, and with no fault ahead the third edit begins
when the others are written. In `rate_limit` six ticks are three windows, and five
requests are two that race and then one more than the limit. In `operations` two
ratings put a record below or at the minimum; two rounds are a tool call and one too many; a rating of three is one
the schema refuses.

What the passing runs show:

* `PayloadKept`: whatever late or repeated post arrives, a row that can still be
  handed out has its payload, and an answered one does not.
* `NoOvertaking`: the order of `created_at` survives reclaims and lost claims.
* `SavedIsSaved`: "done" on the phone means the work ran to its end, and that the
  record is in the database when the job writes one.
* `RepeatsNeedFaults`: each repetition of a job costs a fault; neither a slow job
  nor an expired claim nor a late request causes one by itself.
* `FreshWithoutFaults`: as long as nothing failed, the snapshot contains every
  answered change.
* `KeepsPromise`: the refinement of `JobPromise`.
* `JobsAnswered`, `RelayCatchesUp`: the liveness of both directions.
* `CountedOnce`: no call is counted twice, unless the relay had already pruned the
  id of a batch that was still being retried, which takes a week of failed pushes.
* `NothingForgotten`: a booked call is counted, still held, or went down with its
  process.
* `AllOrNothing`: an addition that fails in the middle leaves nothing behind.
* `EventuallyCounted`: a process that keeps running gets every call counted.
* `Agreement`, `EditsSurvive`: the two directions of sync do not fight. Whatever the
  order of calls, record and file end up equal, also where app and person, or two
  writers, were at one file at once, and beside an old file that a plan left alive; and
  a note that nothing marred ends up with its last acknowledged edit in both, also
  after renames and past the app's own echo.
* `NoResurrection`: a deleted record returns by a capture or a forced import only.
* `FeedDrains`: reverse-sync comes to an end and never chases its own writes.
* `JobsTracked`, `JobsSettle`: a job the page polls is in the queue or at work, and
  every job ends, also when its operation raises or the portal restarts.
* `OldChoiceKept`: pruning and migrating, in the order the relay does it, never hide
  a choice that could be used.
* `ChoiceIsRecent`, `NextSeesSave`: an operation uses the choice of the last minute,
  and after a confirmed save the new one.
* `UndoIsTrue`: what is offered to undo was done, and the entry holds what the edit
  replaced, unless another edit of the record came between its read and its write.
* `NewestKept`: the newest entries can be undone, except one that was written while
  another process trimmed the file or beside a line the disk had no room for, and all
  that was written before two processes trimmed at once.
* `Bounded`, `NoFalseRefusal`, `OnlyRecentKept`: once requests no longer run beside one
  another no minute admits more than the limit, whatever their race left in the
  windows; nobody below the limit is refused; and addresses that stopped asking are
  dropped.
* `AnswerTellsTheTruth`: a capture told as done is in the database with its profile;
  one told as failed wrote nothing, be it that it failed by itself or that it raised and
  the worker posted the job as failed, unless it was the answer of its write that was
  lost (the phase `couchdb_write`); and no hollow note is stored either way.
* `UserWordsKept`: rating, strength and notes are the user's, whichever path the
  models took.
* `MatchesWereGood`: every stored match was rated well enough at some time, whichever
  model proposed it, unless a person approved a plan that names it.
* `ProposalsProven`: what is recommended is quoted in full, found on its page,
  reviewed, about this product, and fills a gap.
* `EveryTargetAnswered`: each change is reported once, applied or failed, also one of two
  for a record; applied means that a record was written, the one picked on the pairings
  page, or of a plan the one with the change's uid, whatever its id, or else with its id.
* `OnlyItsFields`: of the record as it is at that moment an operation changes only what
  its change names. What it names is overwritten, whoever saved it, and a value under an
  old field's name is dropped.
* `OperationEnds`: no operation goes on for ever.

### Fairness

`FairSpec` of `JobBroker` assumes weak fairness of the worker's steps (the loop
catches every exception and its container is restarted: `restart: unless-stopped`
in `qnap/docker-compose.yml`), of the relay's answers, of time, and that a
request under way arrives or is dropped. Nothing is assumed of editors or faults.
Only finitely many faults happen: a network that fails for ever answers nobody.
`FairSpec` of `UsageLedger` assumes that a process that is up pushes again (after
each job, at the heartbeat, each minute) and that the relay answers; nothing is
assumed of stopping and starting.

`FairSpec` of `VaultSync` assumes that the worker's passes come round and that a
process goes on with its operation; nothing of the person, of faults, or of new
operations. `FairSpec` of `AdminPortal` assumes that the event loop runs every task
that can go on; nothing of restarts, of the clock or of new jobs. `FairSpec` of
`Operations` assumes that the operation goes on and each request to a model ends:
OpenRouter's has a time limit of 150 to 480 seconds
(`openrouter_provider.py:98-107`), Mistral's has none in this code, so that its
client answers or raises is assumed.

### Where the code and its comments part

* `worker.py:264` takes an exception of `post_job_done` for "the result never
  reached the relay" and reports the job failed; when only the response was lost,
  the phone is then told that a saved record failed (`unposted_is_unknown`).
* `worker.py:254` promises a client that polls the result fresh items; the push it
  relies on swallows its failures (`fresh_when_done`).
* `admin_web.py:213` describes the final push as "whatever was booked since the
  last tick"; with a batch unacked, only that batch is sent (`final_push`).
* `sync_service.py:11` calls a rebuild of the vault safe, since it only writes the
  projection. It projects a list read at its start over files that were edited
  since; reverse-sync takes that for a person's edit and stores the old text
  (`rebuild`).
* `pairing_match.py:25` says that without an answer of the matching model the matches
  stay as the caller had them. A re-match has stripped them before, and stores the
  stripped pairings as applied (`rematch_keeps`).

Each of these has a run that shows it. Others the models have met and the properties
make room for, by an exception that is named in them:

* `record_service.py:6` says an edit keeps the Obsidian file in step. When only the case
  of name or producer changed, the old path and the new one are one entry, and
  the clean-up soft-deletes the file that was just written (`record_service.py:54`,
  `couchdb_client.py:188`): "hidden" in `EditsSurvive`.
* `record_service.py:51` says why an old file must go: reverse-sync would import the old
  content over the edit. `_apply_one` (`manage_service.py:588`) leaves it alive, and
  with two shards it may be read after the new one: "order" in `Agreement`.
* `record_service.py:42` folds legacy fields before it validates; `_apply_one` does not,
  and the value under the old name is dropped: `OnlyItsFields`.
* `detail_fetch.py:502` and `history.py:3` say that what an edit replaced is kept. An edit
  between the read of the previous values (`detail_fetch.py:516`; for a repair the list
  read before the models are asked, `manage_service.py:424`) and the write is replaced
  and in no entry: `crossed` in `UndoIsTrue`.
* `history.py:8` says the two containers cannot corrupt each other's lines. Two trims at
  once share `history.tmp` and can leave the end of a longer text behind a shorter one,
  torn in the middle of a line: `risked` in `NewestKept`.
* `relay/static/app.js:286` keeps a form for another try unless the capture was saved. A
  write whose answer is lost is told as failed although it was stored
  (`capture_service.py:434`): the phase `couchdb_write` in `AnswerTellsTheTruth`.
* `pairing_match.py:253` has the rating rule for any source of matches. An approved plan
  stores the pairings it names as they came (`manage_service.py:576`): `Approved` in
  `MatchesWereGood`.

## 4. What is proved

The modules named `...Proofs` prove, for any sets of jobs, edits, processes, calls,
threads, addresses, settings, notes, paths, records and fields, any timeouts, limits
and page sizes, and any number of operations and faults:

| Theorem | Statement |
|---|---|
| `BrokerInvariant` | `Spec => []BrokerInv` |
| `BrokerTypeCorrect`, `PayloadWhileOpen`, `OldestFirst`, `DoneIsDone`, `RepeatsArePaid` | `TypeOK`, `PayloadKept`, `NoOvertaking`, `SavedIsSaved`, `RepeatsNeedFaults` |
| `FreshUnlessFaults` | `FreshWithoutFaults` |
| `BrokerKeepsPromise` | `Spec => Promise!Spec` |
| `LedgerInvariant` | `Spec => []LedgerInv` |
| `LedgerTypeCorrect`, `NoDoubleCount`, `NoCallForgotten`, `BatchAtomic` | `TypeOK`, `CountedOnce`, `NothingForgotten`, `AllOrNothing` |
| `PortalSafe` (`AdminPortalProofs`) | `Spec => []Safe` |
| `PortalTypeCorrect`, `EveryJobTracked`, `NoChoiceLost`, `SaveIsSeen` | `TypeOK`, `JobsTracked`, `OldChoiceKept`, `NextSeesSave` |
| `ChoiceAlwaysRecent` | `Spec => ChoiceIsRecent` |
| `HistorySafe` (`HistoryProofs`) | `HistorySpec => []Safe` |
| `HistoryTypeCorrect`, `UndoAlwaysTrue`, `NewestAlwaysKept` | `HistoryTypeOK`, `UndoIsTrue`, `NewestKept` |
| `RateSafe` (`RateLimiterProofs`) | `Spec => []Safe` |
| `RateTypeCorrect`, `OnlyRecentAreKept`, `LimitHolds` | `TypeOK`, `OnlyRecentKept`, `Bounded` |
| `RefusalsAreDue` | `Spec => NoFalseRefusal` |
| `OperationsSafe` (`OperationsProofs`) | `Spec => []IInv` |
| `OperationsTypeCorrect`, `AnswerIsTrue`, `UserWordsStand`, `MatchesStayGood`, `ProposalsAreProven`, `EveryTargetIsAnswered` | `TypeOK`, `AnswerTellsTheTruth`, `UserWordsKept`, `MatchesWereGood`, `ProposalsProven`, `EveryTargetAnswered` |
| `OnlyItsFieldsChange` | `Spec => OnlyItsFields` |
| `VaultSafe` (`VaultSyncProofs`) | `Spec => []VaultInv` |
| `VaultTypeCorrect` | `TypeOK` |
| `NothingComesBack` | `Spec => NoResurrection` |
| `SyncSafe` (`VaultAgreementProofs`) | `Spec => []SyncInv` |
| `RecordsAgree`, `EditsStay` | `Agreement`, `EditsSurvive` |
| `OrderKept` | `InOrder`: in a database of one shard "order" needs no exception of its own |

The assumptions are those named in the modules (`BrokerAssumption`,
`UsageAssumption`, `PortalAssumption`, `HistoryAssumption`, `RateAssumption`, `OperationsAssumption`,
`StoreAssumption`, `VaultAssumption`): the jobs, threads, addresses, fields, notes and
paths are finite sets, edits are not jobs, `NoJob`, `NoBatch` and `NoCursor` are not
values of the sort they stand beside, the worker is a process, a page has at least
one change, the bounds are natural numbers, and an operation begins as `Begins`
says. Of these only one is about the
stored data: no two records share a uid at the start of an operation. The code
mints uids with `uuid4` and looks records up by them (`manage_service.py:540-550`); a
person who copies a note file with its uid in Obsidian would break it, and a plan
could then be applied to the wrong copy.

None of the properties is inductive. What has to be added says why the code
works:

* `BrokerInv`: a post, wherever it is (on the wire, stray, or still to be sent),
  is true of work already done (`PostsAreTrue`), since `complete_job` believes
  it. The order of jobs is kept by "when a job has been handed out, none older is
  pending" (`ClaimedInOrder`), together with ranks being given out in order
  (`BornBelow`). For the repetitions, each job has a budget of executions,
  faults so far plus one, of which a claim that still counts - an answer on its
  way or a row whose claim died - has been charged before it is repeated
  (`Budget`).
* `FreshInv`, relative to `BrokerInv`: while nothing failed, a job at work is still
  processing, so what it writes is not answered yet, and every snapshot on its way
  contains what is answered, and the change it was sent for.
* `LedgerInv`: a call is in one place at a time - pending in one process, with the
  relay not having counted it, or in one batch; batches share neither an id nor a
  call; and the relay has counted a batch whose id it remembers, and no other,
  except those noted in `expired`.
* `Safe` of the portal: a job is queued once or has one task, and the task it has
  knows it (`TasksInv`, `TracksInv`); a read of the choices that ends after a save, and is newer
  than it, carries what is stored now (`ChoicesInv`).
* `Safe` of the history: an edit under way has read the value it will replace, unless it
  is `crossed`, and every line that is on its way to a file - to be appended, in a
  file, or in what a trim keeps - is of an edit that was done and says so truly
  (`UndoInv`, `LinesIn`). The history file is `Sound`: each of the newest entries that
  ran no risk is in it, no further from its end than the entry is from the last one
  written; so are the lines a trim has in hand, and the temporary file once it is to
  be renamed. Two trims at once put all that was written at risk, which is why a copy
  that one of them spoils need not be sound (`FileInv`). It is the distance from the
  end that makes a trim of a sound file sound.
* `Safe` of the limiter: a window is one address's, in the map and in every thread's
  hands (`OwnersInv`); a window is a copy, one to one, of hits in the log of its
  address (`CopyInv`), out of order by a tick at most (`OrderInv`), which is why a
  full window means as many requests let through in the last minute; the last hit of
  a window is not newer than its address's last request, so what a sweep forgets was
  not asked for (`SweepInv`). For `Bounded` the proof follows one request that runs
  alone: what earlier such requests were admitted with, and still counts, is the end
  of the window, in order (`WindowInv`), so a window shorter than the limit means
  that the hit `Limit` places back counts no longer (`AloneInv`).
* `IInv` of the operations: a call that falls back from a conversation to a chat has
  used at most one request more than its rounds (`CallInv`), and that bounds it.
  What is well rated was so at some time (`VaultInv`), hence a match checked
  against a record read earlier may be stored whatever happened to that record
  since; of a note under way it holds of the matches checked so far (`CapInv`).
  What the user said is in the note from the moment it is pinned (`Obeys`), and the
  steps that follow touch its matches only. Maintenance accounts for each change, by
  its place in the list, as failed, applied or waiting (`Accounted`), and an applied one
  wrote the record that it names by its uid or its id (`Answers`); what it read of
  a record is still there or the record has another revision (`ReadInv`), which is
  why the write undoes no edit of another field; and no two records share a uid
  (`UidInv`), which is why a repair writes the record that was picked.
* `VaultInv`: a file that was ever written has a text, and a revision no other file
  has; a process about to write, read or remove has in hand what it needs for it; and
  only a capture puts, and only a forced import stores, without a revision, so nothing
  else can revive a record.
* `SyncInv`, one conjunct per note: of the files with a text of the note the one shown
  last is the newest (`ShownLast`); while the record differs from the shown file, that file is
  beyond what reverse-sync has read, or still in its page and not yet compared with a
  record that has changed since, or the record's text is with a writer who will
  project it and whose take-over must succeed (`Fine`: `Unread`, `Listed`, `Pending`).
  In a quiet state none of these is left. Nothing is assumed of the order in which a
  page has the files of different shards: where an older text is stored after the
  newer file was read, the note gets its mark "order". In a database of one shard a page
  ends, for each note, with the file shown (`ListLast`), so that cannot happen
  (`InSequence`). For the edits, the last acknowledged one is
  in the shown file or in a writer's hands (`Kept`). Beside them stands what makes a
  bookmark safe: only the worker is on a pass, its mark is, shard by shard, at least
  its cursor and at most the database's sequence, and a pass that saves has no item left
  (`PassOK`).

Proving found flaws of the model, all in what a property or a definition claimed and
none in an action:

* The cases of `Evidence` overlapped, so that TLC's choice of the first one hid what
  the definition left open. They are now taken in the code's order.
* A count of hits for the limiter's `Bounded` held for two threads only (section 2).
* `Agreement` and `EditsSurvive` as first stated held for the two operations of the
  run and no more. With three, a slow writer's take-over fails when the file has
  meanwhile gone to another note, and its text is then in no file; a delete of one
  note removes the file another had been renamed into; and a collision before a
  delete leaves the record with a file it never was in. All are what the code does.
  The history now marks these cases where they happen ("lost", "hidden", and more of
  "crossed"), and with that `Agreement` no longer needs its exception for a file that
  app and person changed at once: it was too weak and too strong. `SyncInv` was
  checked by TLC with two operations and a fault and with three operations before it
  was proved.

* Checking the rule for the newest history entries by system calls showed that an entry
  glued to a cut line, and everything written before two trims at once, must be
  excepted too, and that nothing else has to be.

Only model-checked: the liveness properties (`JobsAnswered`, `RelayCatchesUp`,
`EventuallyCounted`, `FeedDrains`, `JobsSettle`, `OperationEnds`), which rest on
fairness, out of the prover's reach. The claims that the code does not keep are shown violated by
TLC's counterexamples. No recursive definition is used anywhere, so nothing is left
to induction over data.

## 5. What is not modelled

* Field cleaning, limits and rendering (`schema.py`, `markdown.py`): data
  transformation without state. The rules other parts rest on are in `Tasting`.
* Prompts, the JSON schema sent to a model, how messages are built: the model's
  answer is nondeterministic anyway.
* The list of models the portal offers, reasoning effort, log files and their
  reader, authentication, deployment: no state of their own, or I/O only. What
  matters of deployment (a restarted container) is in the faults and the fairness.
* The phone's and the portal's screens: they only read and submit. A phone that
  stops polling and submits again submits another job.
* The cap of 1000 records per query (`items_query.py:12`), and a job that kills the
  worker each time it is tried: listed under `hazards` without a property.
* Look-ups of a record without a uid by document id in reverse-sync (above, under
  VaultSync).

## 6. Plan

The model covers the parts above, and every safety property that a run checks is
proved. What could follow:

1. The step part of the liveness arguments, as action properties: each fair step of
   `JobBroker`, `UsageLedger` and `Operations` brings a measure down (the tool rounds
   left, the items left of a loop, the calls not yet counted), so that what fairness
   adds is only that the step happens.
2. What a pass of reverse-sync promises as an abstract specification of its own (a
   note's record is set to what its file shows), with `VaultSync` shown to implement
   it, as `JobBroker` implements `JobPromise`.
3. The cap of `items_query.py` and the worker that dies on a job, the hazards without
   a property.
