# AIMemory: a TLA+ verification of the memory service

AIMemory (`src/aimemory`) is a FastAPI service over PostgreSQL that keeps long-term memories
for AI agents. Clients write, search, extract and delete memories over `/v1`; an admin edits
them, manages categories and lets a language model review them; an OpenClaw plugin
(`src/clients/openclaw-aimemory`) feeds conversations in and context out.

This directory holds the TLA+ modules that model the service, TLC configurations that check
them on small instances, and proofs checked with TLAPS. `PROJECT.json` is the index: components,
runs, mutants, the source lines of every definition, findings, hazards and theorems.

    tlc -workers 2 -config MCMemoryStore.cfg MCMemoryStore      # a run
    for m in *Proofs.tla; do tlapm $m; done                     # the proofs

## 1. Inventory

### How the program runs

- One uvicorn worker (`src/Dockerfile:23`). `/v1` handlers are plain functions and run in threads
  of a pool; admin POST handlers are `async` but make blocking database calls, so each holds the
  event loop from its first statement to its last: admin forms never interleave with each other,
  no request is begun meanwhile, and the session of a handler that raised, which the loop
  closes, is not closed meanwhile.
- Every request has a SQLAlchemy session of its own (`db/session.py`: `autoflush=False`,
  `expire_on_commit=False`) over a READ COMMITTED transaction. Four facts about this library and
  PostgreSQL shape all the models:
  1. A flush updates by primary key and sets only the columns whose value differs from what the
     session loaded. It does not look at `deleted_at` again.
  2. An object once loaded stays as it was; neither a later SELECT nor a commit refreshes it.
  3. An UPDATE or INSERT locks its row until the transaction ends; a row whose unique key an open
     transaction has just written makes a second writer of that key wait, and then fail with an
     IntegrityError or go on, depending on how the first one ended.
  4. A dropped connection rolls its transaction back.

### Components

| component | state | operations | what makes it hard | what must hold | module |
|---|---|---|---|---|---|
| Memory rows (`api/routes.py`, `repositories/memories.py`, `admin/routes.py`, `services/attachments.py`) | `memories`, `memory_attachments` | upsert by external id, merge into a similar automatic memory, delete, admin edit and delete | races between find and flush, one retry after an IntegrityError of whichever index, errors half way, sessions left open | one live memory per external id, a deleted memory stays deleted, images and search text of one writer, errors leave nothing behind, every request ends | `MemoryStore`, `MemoryContract`, `MemorySerial`, `MemoryStoreProofs` |
| AI review (`services/ai_memory_review.py`) | `ai_memory_review_runs`, `..._suggestions` | admin review, automatic review after `/extract`, apply, apply all, ignore | two sessions with outdated copies, a model reply that may name anything, exceptions half way, a process that stops during the call | only what was sent is changed, unattended only when the model is sure, decisions are taken once | `ReviewLifecycle`, `ReviewProofs` |
| Categories (`repositories/memory_categories.py`, `admin/routes.py`) | `memory_categories`, `memories.category_id` | get or create by name inside every write; admin create, rename, delete, merge | names raced for, categories closed while written to, many rows locked by a merge, names and rows kept by a crashed write | one category per name in use, no category made by a failed request, merges end, a memory follows its category | `Categories`, `CategoriesProofs` |
| Extraction (`api/routes.py:453`) | process-local table of recent requests | `/extract`: ask the model, write each item in a transaction of its own, schedule the automatic review | check and set in different threads, remembered before it has succeeded, lost with the process | a transcript is extracted once within the time to live, and refused only for another one | `Extraction`, `ExtractionProofs` |
| Identity, keys and users (`repositories/memory_agents.py`, `api/deps.py`, admin forms) | `memory_agents`, `memory_devices`, `api_keys`, `users` | authenticate, resolve a device or agent, create an agent on first use; admin creates, binds, switches off, revokes | a rollback also removes the agent; two first requests of one agent; switched off while in use | a memory has its agent, nobody switched off is written for, requests that wait for each other end | `Identity`, `IdentityProofs` |
| Search (`api/routes.py:826`, `repositories/memories.py:265`) | none of its own | category, keywords, three stages, cut-offs | every stage sees a later state of the tables and a limited number of candidates | nothing that stays and matches is missed or passed over | `Search`, `SearchProofs` |
| Query terms (`services/text.py`, `services/query_analysis.py`, `services/category_analysis.py`) | none | tokens to terms, stopwords, the model's keywords; fall back when the model fails | two predicates that must agree | searched for is what is meant | `QueryTerms`, `SearchRequest`, `SearchProofs` |
| Context (`api/routes.py:1122`) | none | text within `max_chars` | the cut at the limit | the limit is kept and used | `ContextText`, `SearchRequest`, `SearchProofs` |
| Admin AI chat (`services/ai_chat.py`, `admin/routes.py:1175`) | `ai_chat_threads`, `ai_chat_messages` | ask, run the SQL the model proposes, store the reply | SQL is committed before the reply is; two ways of asking | over the limit nothing is written, SQL runs once and is reported | `AiChat`, `AiChatProofs` |
| Plugin: saving before compaction (`clients/openclaw-aimemory/lib/runtime.mjs`) | marks of sessions with timers, a watcher | hooks before and after compaction, session-store watcher | timers that delete a later mark, a time limit shorter than the request | a compaction is saved once, and left out only for a reason | `Compaction`, `CompactionProofs` |
| Plugin: recent input and context caches; Codex bridges | caches per turn, a callback slot each | | keys shared by turns | | not modelled, section 15 |
| Admin sessions, AI settings, stopwords, request log, command line, migrations, templates, installers, embedding jobs | single rows, cookies, files | forms and scripts | little: serial, one transaction | | not modelled |


Interactions. Every write of a memory (from `/v1/memories`, from `/extract`, from an applied
suggestion) finds or creates its category in its own transaction. `/extract` commits each memory
and then hands their ids to the review's background task. The review rewrites, moves and deletes
memories that API clients rewrite and delete at the same time. Category merges rewrite
`category_id` of rows others are writing. The plugin calls `/extract` and `/context` with time
limits shorter or longer than the server's.

`PROJECT.json` lists the hazards line by line, with the properties that are aimed at them, and for
those nothing covers the reason.

## 2. Plan

1. `MemoryStore` with `MemoryContract`, `MemorySerial` and `MemoryStoreProofs` - the rows everything else works on. *Done.*
2. `ReviewLifecycle` - the only code that changes memories unattended. *Done.*
3. `Categories` - what every write depends on and the admin rearranges. *Done.*
4. `Extraction` - the table that keeps a transcript from being extracted twice. *Done*, as a component of its own.
5. `Compaction`: marks, timers, watcher and hooks of the plugin. *Done.*
6. `Identity` with `IdentityProofs`: agents, devices, keys and users; rollback and deactivation in the middle of a write. *Done.*
7. `AiChat`: threads and the SQL of the model. *Done.*
8. `Search` with `QueryTerms` and `ContextText`: the stages among concurrent changes, and the pure rules
   checked against reference definitions; `SearchRequest` puts the three together. *Done.*
9. `LockOrder`: reviews and clean-up scripts that change several rows in one transaction, the connection
   pool and the model call on the event loop; PostgreSQL's deadlock detection as an action. *Left.*
10. The plugin's caches of inputs and contexts; `Compaction` composed with `Extraction`, to follow a
   compaction from end to end. *Left.*

Every component that is modelled has its proofs in a module of its own, `<Component>Proofs`: all the
safety properties of the passing runs are proved for every value of the constants, and of the three
liveness properties the parts that are safety (section 13). Left to prove are statements about
compositions, once plan 10 has them.

## 3. MemoryStore

The table of one user, agent and category. Other users' and agents' rows never meet these: every
query has both in its WHERE, and the category is the matter of `Categories`.

| TLA+ | code |
|---|---|
| `mem[r]` | the committed row with primary key `r` and its live attachments; `gone` is `deleted_at` and who set it |
| `lock[r]`, `work[q]` | the row lock and the uncommitted version of the row |
| `target[q]`, `snap[q]` | the ORM object the handler holds, as loaded |
| `tries[q]` | the `except IntegrityError` branch of `write_memory`, one for both indexes |
| `named[q]` | history: how often the category of `q` was refused |
| `stale[r]` | history: some session that wrote `r` had an outdated copy |
| `Begin`, `LookupHit`, `LookupMiss`, `MatchSimilar`, `NoSimilar`, `CategoryRefused`, `Insert`, `InsertConflict`, `TryAgain`, `CommitInsert` | `write_memory`, `upsert_memory`, `find_similar_auto_memory` |
| `FlushUpdate`, `ReadAttachments`, `FinishUpdate`, `CrashUpdate`, `Close` | `_update_memory_from_payload`: columns and flush, attachments read, search text and commit; the exception of `attachment_search_text`; `get_db` |
| `DeleteNothing`, `ReadAttachments`, `CommitDelete` | `soft_delete_memory` |
| `GetRow`, `LoadAttachments`, `CommitEdit`, `CommitRemove` | the admin forms `update_memory`, `delete_memory` |
| `Fail` | a lost connection or a cancelled statement, at any point of any handler |

An action is one SQL statement, or several that none can get between because the row is locked.
`title` and `content` stand for all the columns a payload sets (two, so that two writers can be told
apart column by column). The images of one request are one group, `tagged` if it has metadata.
Similarity is a given relation between texts that need not be symmetric.
`write_memory` has one `except IntegrityError` for all of `upsert_memory` (`api/routes.py:227-232`): the same single retry,
`TryAgain`, is spent on a refused category (`CategoryRefused`, `memory_categories.py:65`) and on a refused memory
(`InsertConflict`, `memories.py:118`). Who makes that category is not in this module: `CategoryRefused` may happen to a
write that is about to begin a try, to at most `MaxUnlucky` requests of a behaviour.

**Run `store`** (`MCMemoryStore.cfg`): four requests, at most three at once (`MaxActive`), any of eight calls each
(`mcBusyCalls`), one of them unlucky with its category, on a table that holds one memory with an image; symmetric in the
requests. Four requests are what a refused retry needs: the loser, the twin that refuses it, the deletion, the second twin.
Three at once give every pair of handlers a third that disturbs both. It checks

- `TypeOK`, in particular that an IntegrityError is retried at most once;
- `UniqueLive`: an external id names at most one live memory;
- `OneWritersImages`: concurrent replacements never leave a mixture of images;
- `FreshRowsCoherent`: a row no outdated session wrote has the columns of one payload and the search
  text of just these columns and images (the exception is real: see hazards);
- `DeletedTakesImages`: a deleted memory leaves no image live, but for images attached in between;
- `AllOrNothing`: an error at any statement leaves no trace;
- `RefusedTwice`: a write that fails for good was refused twice, and each refusal that was not over its category's name
  was over a memory of its external id; if neither was over the name, over two of them, the first deleted in between.

**Run `store_live`**: three requests under fairness, of seven calls that wait for one another (`mcLiveCalls`), among them a
rewrite that leaves the stored memory an image without metadata: `TombstonesStay` (no outdated session revives a memory) and
`Answered` (every request ends). `Answered` has one exception, `LoopIsStuck`: a write that crashed keeps its row lock until
the event loop closes its session, and if an admin's form has just blocked that loop waiting for that row, neither ever goes
on. The form may be a deletion, or an edit: that one reads the images first, and has read others than those the write crashed
on if a third request replaced them in between, which is what the extra call is for.

Behind `Answered`, apart from the fairness, stand two safety properties, proved in section 13: `ShortQueues`
(nobody waits in a circle: `WaitsFor` says for whom) and `EveryStepCounts` (each step of a request leaves it fewer
`StepsLeft`, and no other request's step adds to them).

**Run `store_serial`** (`MCMemorySerial`): with one request at a time (`MaxActive = 1`), any of eleven calls, and so with nobody
else making its category (`MaxUnlucky = 0`), `MemoryStore` implements `MemoryContract` (`ImplementsContract` in `MemorySerial`), a map
from external ids to documents in which every request takes effect in the step that answers it. The refinement mapping
(`Documents`) reads the live row of an external id; `asked` and `reply` are `call` and `outcome`. The contract has no "conflict"
answer.

**Run `store_rewrite`** is a violation: `RewriteWorks`, see findings.

## 4. ReviewLifecycle

Two sessions, `auto` (the background task) and `admin` (its forms, one after the other), each with its
own `copy` of memories and `seen` status of suggestions, which nothing refreshes. `StartRun` flushes
the run and sends the memories; `StoreReply` normalises an arbitrary reply (`Named`, `Clamp`,
`Normalized` for `normalize_suggestions`) and commits; `Wants`, `Skip`, `ReadMemories`, `ApplyCommit`,
`ApplyRaises` and `Finish` are `apply_auto_merge_suggestions` and the apply forms around
`apply_suggestion`; `OpenIgnore` and `CommitIgnore` the ignore form. `ApiRewrites`, `ApiDeletes` are
other clients, `Die` is the process or its connection ending at any point. `ApplyRaises` models
that the background task commits in its `except` branch without a rollback, and the admin's request does not.
`text` stands for title, content and category together.

**Run `review`** (`MCReview.cfg`): three memories, two suggestions drawn from six items (a merge that is
sure, one exactly at 0.75 without a text, one below it that names a memory it may not have been given, a
rewrite without a confidence, one whose confidence is not a number, a soft delete with a confidence out of range), one change by
other clients (`MaxOutside`), memories whose images cannot be read. Two suggestions can conflict about
one memory and one outside change can make any copy outdated; a second would only repeat it.

- `WithinItsMandate`: whatever the model replies, only what was sent is changed, and unattended only what
  it was sure of (`OnlyWhatWasSent`, `UnattendedOnlyWhenSure`);
- `MergedSourcesGone`: about outdated copies;
- `HalfAppliedOnlyIfFailed`: about exceptions half way;
- `NothingComesBack`: no copy, however old, revives a memory, and what the task has filed as ignored stays
  so, even if its apply form is posted.

`UnattendedOnlyWhenSure` speaks of the confidence that was stored. JSON as Python reads it may hold
`NaN`, and `max(0.0, min(1.0, nan))` is 1.0: such an item counts as certain (`Clamp`). That the task applies
suggestions at all differs from `src/README.md:151` ("only write changes after an admin applies each suggestion").

What the module allows, because the code does, and no property forbids: the "already processed" check
(`ai_memory_review.py:664`) reads an outdated copy, so that a suggestion the admin has ignored may still be
applied by the task; and a merge whose target was deleted meanwhile deletes its sources too (`:684`).

## 5. Categories

`cat` and `mem` are the committed tables, of a memory only its category, its external id (`ExtId`) and whether it is live.
`found[q]` is the category a request has found, or is inserting when `found[q] = q`; `NameBusy` is the unique
index waiting for that insert. `row[q]` is the memory it changes, or is inserting when `row[q] = q`, and `KeyHolders` says
for whom that insert waits.

| TLA+ | code |
|---|---|
| `FindCategory`, `InsertCategory`, `CategoryRefused` | `get_or_create_category` |
| `LookupMemory`, `InsertMemory`, `MemoryRefused`, `FlushMemory`, `CommitWrite`, `LoadMemory`, `RemoveMemory` | their memory's side: `upsert_memory`, `apply_suggestion`, `soft_delete_memory` |
| `TryAgain` | an IntegrityError of either index: `POST /v1/memories` retries once in all, `/extract` skips the item, the background task fails, a form says so |
| `Crash`, `Close` | the exception of `attachment_search_text` in `POST /v1/memories`, after which name and row stay taken until the event loop closes the session |
| `Fail` | a dropped connection: PostgreSQL rolls back at once |
| `GetCategory`, `RenameCategory`, `CountMembers`, `DeleteCategory`, `ReadMembers`, `FlushMember`, `CommitMerge`, `CommitCreate` | the admin's forms, on the event loop (`OnLoop`) |
| `Cut` | the column's width: a normalised name is stored cut to it but looked up uncut |

Which images a memory has is the matter of `MemoryStore`: here any update by `POST /v1/memories` may `Crash`.

**Run `categories`**: four requests, at most three at once, any of twelve calls, two categories, one memory, a second
external id, one name too long; symmetric in the requests. Three at once suffice for a writer, a form that closes its
category and a third that moves or deletes the memory; the fourth lets three be at work on what an earlier one has left.

- `OneCategoryPerName`, `NothingHalfMade`: across refused tries, retries and failures;
- `TypeOK`, with `MergesEnd`: `merged_into` has no circle, though categories are merged both ways;
- `ClosedOnlyWhenEmpty`: a live memory is in a category in use, unless one of the two races in `raced` put it there;
- `FollowsItsCategory`: and it is where its last writer put it, or where merges took that category since, with the same exception;
- `RetryIsEnough`: a write fails for good only if the admin freed a name, another request made a memory of the same external
  id, or its name does not fit its column. The second is real because the retry is shared: the rollback over a refused memory
  also gives back the category name the write had inserted, and somebody waiting for it may have it before the second try.

The first of the two races `raced` names is that a write finds its category before the admin deletes it and commits after
(`admin/routes.py:1429`): a live memory is then in a deleted category, where no search by category finds it.

**Run `categories_live`**: three requests of the kinds that wait for rows, keys and names, under fairness: `Answered`, with one
exception, `LoopIsStuck`. A write that crashed holds its row, and perhaps an uncommitted category name, until the event loop
closes its session; a merge, create or rename form that waits for that row or name, or for a request that waits for it, blocks
the loop, and none of them ever goes on (`admin/routes.py:1382`, `:1412`, `:1461-1468`). This apart there is no circle of waiting.
(A review that changes several rows is not here; see plan 9.) Behind it stand, as for `MemoryStore`, `ShortQueues`
and `EveryStepCounts`, both proved; a merge locks each of its rows (`ToLock`) once.

## 6. Extraction

`recent` is the dict `RECENT_EXTRACT_REQUESTS`, process-local. `Receive` computes the key and takes the time (the
`now` every later step uses, however late it runs); `Scan`, `ScanBreaks`, `Pop`, `Pruned` are
`prune_recent_extract_requests`, `Check` and `Mark` the two statements after it, `ModelFails` every way to end
between the mark and the first item, `ModelAnswers` the candidates that pass the policy, `WriteItem` and
`SkipItem` the loop, `Finish` the answer. `Scan` reads the dict in one step; that another thread may change its size under the
loop is `ScanBreaks`. `Restart` ends the process at any point. `alone` and `life` are history: no
other request was between `Receive` and `Mark` at the same time, and the process that received the request.

**Run `extraction`** (`MCExtraction.cfg`): three requests, two transcripts, one item, a time to live of two
ticks, a clock that reaches three, one restart. Two requests race, the third is the one that prunes the mark of
one of them; a clock past the time to live has entries that are young, just too old and older.

- `OnceWhenAlone`: two requests for one transcript within the time to live are not both let through. The
  condition `alone` is needed, not caution: check and mark are two steps, and a request that
  has listed a key as old may remove it after another has just marked it again.
- `RefusedForAnother`: a duplicate is refused only because another request of this process's life got past
  its mark less than the time to live ago. It says as much as the code promises: that one may have failed,
  and then a retry within 120 s is answered with `written = 0`.
- `TypeOK` includes `ListedIsStored`: an answer lists only what is committed.

No fairness: whether an extraction is ever saved depends on the client's retries.

## 7. Identity

| TLA+ | code |
|---|---|
| `rows`, `off` | agents, devices, keys and categories committed; those deactivated or revoked, and the user |
| `held[e]` | the unique index: who has inserted entry `e` and not committed |
| `Authenticate` | `get_current_user`, whose commit of `last_used_at` ends the transaction that looked |
| `Resolve`, `CreateAgent` | `resolve_memory_identity`, `get_or_create_agent` |
| `Read`, `Delete`, `ModelAnswers`, `ModelFails`, `FindCategory`, `InsertCategory`, `SkipItem`, `Commit`, `RollBack` | what the handlers of `/search`, `DELETE`, `POST /v1/memories` and `/extract` do to that transaction |
| `CreateAgentForm`, `CreateKey`, `BindDevice`, `Toggle`, `RevokeKey` | the admin's forms |

The agent a request creates is in its own uncommitted transaction until the write commits. `dropped` is
history: what was switched off after the request's look at it.

**Run `identity`** (`MCIdentity.cfg`): two requests of every kind, two agents, one device, one key, one
category, extractions of up to two items, one form. One category is enough for a refusal by somebody else's
name, two agents for a device bound to another one meanwhile. `mcSpec` leaves out initial states that differ
from others only in which agent is called `a1` (`UpToNames`): nothing tells the agents apart, and TLC's own symmetry
reduction would not be sound for liveness.

- `AgentUnlessUndone`: a memory lacks its agent only if its request rolled back after it had created that agent.
  That case is real: the retry of `write_memory` (`api/routes.py:228`) and an extraction that goes on after a skipped
  item write a memory whose `agent_id` has no row;
- `OnlyWhileOn`: of a new memory, the user and key were on when the request was let in, the device and agent when it was
  resolved; a device or agent switched off between the two is refused;
- `EveryoneAnswered`: requests that wait for one another's agents and categories are answered, because a request takes
  its agent before its category and holds at most one of each. `ShortQueues` and `EveryStepCounts` are the two reasons,
  both proved: no circle of waiting, and no endless round of rollbacks, retries and skipped items.

## 8. AiChat

`SaveUserMessage`, `AskForReply`, `Send`, `CreateThread` are the POST handlers and their JSON twins; `PlanAnswers`,
`PlanIsEmpty`, `PlanFails` the first call of the model, `RunStatement` one round of `execute_sql` (with
`Valid` for `validate_sql` and `Commits` for the row limit), `FinalAnswer` the second call, `StoreReply` the
commit of message and title. One request at a time is served (the handlers do not await), but the process may
`Stop` between any two steps, and each statement commits on its own.

**Run `chat`** (`MCAiChat.cfg`): one thread of up to three messages, two statements per reply, a limit of two rows with
statements at the limit and one above, one statement for each other reason to be refused, two stops. Three messages
let a second question follow a reply; two stops let a reply be begun three times.

- `RunOnceUnlessStopped`: the SQL for one question is run twice only after a stop;
- `CommittedIsListed`: what was committed is listed in the reply, unless the second call failed or the process stopped;
- `TypeOK` includes `RepliesFollowQuestions` and that no committed statement exceeds the row limit.

A statement either commits and says so or does not commit: a connection lost while its COMMIT is under way, which leaves
the process in doubt, is not in the model.

## 9. Search, QueryTerms, ContextText

`Ask`, `CategoryAnswer`, `CombinedAnswer`, `ModelFails`, `Resolve` find the category; `FilterFrequent` is
`filter_high_frequency_terms`; `CategoryStage`, `TitleStage`, `ContentStage` are the three statements of `_search_results`.
`Candidates` are the rows such a statement scores at all: the text query takes `max(8 * top_k, 50)` of them
(`memories.py:314`, `:647-648`) *before* it applies the score floor, in the category by keyword rank and likeness to the
title, which the model leaves open, and in the other stages by the number of terms in the field. `fits` says whether a text
passes the request's filters (`metadata_filter`, `since`, `until`); `Frequent` counts a category's memories without them, as
`filter_high_frequency_terms` does. Of the score only what decides a cut-off is kept: `Sure` is what must be found if there
is room, `May` what can be, and the parts that depend on rank, similarity and age may go either way between the two. `Write`,
`Delete`, `Merge`, `Rename` are what others commit between two statements.

**Run `search`** (`MCSearch.cfg`): three memories, two categories, one result at most (`TopK`), two candidates
(`CandidateLimit`), a question of none, one, two or five terms, a text the filters keep out, two changes by others. One
result and two candidates of three memories make the limits matter, five terms make one match too little.

- `EmptyIsJustified`: an empty answer means nothing that stayed put matched well enough, or that every term was too common in the category;
- `EarlierStagesFirst`: a later stage answers only if nothing that stayed put belonged to an earlier one.

Both except for the category's stage that it is `Crowded`: more of its memories have enough of the terms than are candidates.
Then those that reach the floor may be left out in favour of fifty that rank before them and do not, and the search goes on to
other categories or ends empty. For the title and content stages no exception is needed, since their order puts those with more
terms first. That a search goes on to all categories at all differs from `src/README.md:5-6` and `:167-168`, which speak of
searching inside one category.

`SearchRequest` takes the three modules together: what a request computes before its first and after its last statement
depends on nothing in the tables, and `TermsAgree` and `ContextFits` say of it

- `TermsAgree`: for every question of up to four tokens of all kinds and every single stopword, the terms searched
  for are those of the reference definition `Meant`, no phrase is offered only to be ignored, and a keyword of the
  model meets the same verdict. The bound of three words per phrase (four in the code) lets four tokens hold a phrase that
  is too long;
- `ContextFits`: for all entries of length up to five, up to four of them, and every limit up to fourteen, the
  context is within its limit, holds as many whole entries as fit, and wastes less than `MinCut`.

`ContextText` leaves out the last `rstrip` of the text, which can only shorten it. TLC evaluates these two once per run, in
the initial states without memories (`Untouched`), within the bounds `MaxTokens`, `MaxEntries`, `MaxEntry` and `MaxChars`;
the proofs of section 13 need none of these bounds.

## 10. Compaction

`jobs` are the saves that were begun, each with the timer of its mark; `marked` is `savedCompactions`. `BeforeCompaction` and
`AfterCompaction` are the hooks, `Compact`, `Resume` and `CodexCompacts` what the host does, which waits for a hook at most
`HookLimit`; `Start`, `Stop`, `Look`, `Visit` the watcher; `Saved`, `Fails` the answer of the backend, `Timer` a timer.
`Free` is the event loop: between two awaits of a watcher nothing else runs.

**Run `compaction`** (`MCCompaction.cfg`): one session compacted twice, two watchers (one may still be at a tick after its
stop when the next starts), three saves, a clock of four ticks of a minute: a mark and a request last two, a hook one. Three
saves are what an early timer needs: its own, the one whose mark it takes, and the one that repeats it.

- `TwiceOnlyAfterExpiry`: a compaction is saved twice only after its mark has run out or the timer or failure of a save
  begun earlier took it away;
- `SkippedForAReason`: a hook that leaves a save out had one to rely on, of whichever compaction: it succeeded, is under
  way, failed later, or was the watcher's, whose mark stays when it fails;
- `TypeOK` includes that no mark is without a timer.

A save counts as failed when the plugin gets no answer in time: one that the server has stored all the same is saved again
without being counted as twice here. `Extraction` is about that second request.

## 11. How the modules meet

The modules are not composed by `INSTANCE`, with the exceptions named above; they share interfaces instead. `MemoryStore`
gives every write the category it has found; `Categories` and `Identity` take of a memory only its category and agent, and
model the same retry of `write_memory`, each with the refusals of both indexes as far as it sees them: `MemoryStore` takes a
refused category as an event, `Categories` has both, `Identity` the category's, with what the rollback takes along.
`Extraction` writes an item in one step, which the other three spell out. `ReviewLifecycle` lets API clients rewrite and
delete in one step for the same reason; `Search` sees the commits of all of them. `Compaction` ends where `Extraction`
begins, at the request.

## 12. Fairness

`Spec` of `MemoryStore`, `ReviewLifecycle`, `Categories` and `Identity` assumes weak fairness of one handler's
own steps (`Progress(q)`, `Step(p)`, `Work(r)`) and nothing else: a pool thread that has begun a handler runs it to its
end, the event loop does the same with an admin form, PostgreSQL wakes the waiter when the lock it waits
for is free, and a call to the model ends with its timeout.
A handler that waits for a lock has no enabled step, so fairness promises nothing until the lock is free.
No fairness is assumed of `Begin` and `Authenticate` (clients need not ask), of `Fail`, `Raise` and `Die`, of the
admin's forms, or of outside changes. `Extraction`, `AiChat`, `Search` and `Compaction` are checked for safety only.

## 13. Proofs

The theorems hold for every value of the constants that the named assumptions of a module allow: any number
of requests, rows, sessions and memories, any payloads, limits and bounds. TLC evaluates the
assumptions in every run. In each module `Invariant` is `Spec => []IInv`, an inductive invariant whose
parts are named and explained at the end of the component's module, was checked by TLC on the component's run before it
was proved, and gives `TypeCorrect` (`Spec => []TypeOK`) and the theorems below. A lemma per action, or group of
actions, shows that it keeps `IInv`; the last step of `Invariant` splits `Next` into them.

### MemoryStoreProofs

| theorem | states |
|---|---|
| `ExternalIdsUnique` | `Spec => []UniqueLive` |
| `ErrorsLeaveNoTrace` | `Spec => []AllOrNothing` |
| `DeletedForGood` | `Spec => TombstonesStay` |
| `ImagesOfOneWriter` | `Spec => []OneWritersImages` |
| `History` | `Spec => []HistoryInv` |
| `FreshIsCoherent` | `Spec => []FreshRowsCoherent` |
| `DeletedWithImages` | `Spec => []DeletedTakesImages` |
| `RefusedForTwoReasons` | `Spec => []RefusedTwice` |
| `NoCircle` | `Spec => []ShortQueues` |
| `StepsCount` | `Spec => EveryStepCounts` |
| `SerialInvariant` | `Spec /\ MaxActive = 1 /\ MaxUnlucky = 0 => []SerialInv` |
| `SerialRefinement` | `Spec /\ MaxActive = 1 /\ MaxUnlucky = 0 => ImplementsContract` |

They rest on `ConstantsOK` (requests are distinct from other keys only as far as the insert of request `q`
has the key `q`; `None` is no value) and `StoredOK` (the table earlier, finished requests have left:
unique, coherent, without a trace of the requests to come).

None of these is inductive alone. `TypeOK` needs to know that a handler which writes has a row in hand.
`UniqueLive` is kept by `CommitInsert`, which checks nothing: the index was checked when the row was inserted, and
nobody has committed that key since. `AllOrNothing` needs that whatever a request leaves was written by its commit.
`IInv` adds

- `InHand`: a handler past its first statement knows its call, and its row once it has found one;
- `LocksAreHeld`: a locked row is the one its holder inserted or updates, so no two handlers hold a row;
- `PendingWrites`: an uncommitted insert has a key no live row and no other uncommitted insert has; the row
  under an uncommitted update is still as it was;
- `OnlyCommitted`: every name of a request in the table, in images, search texts and loaded copies, is that
  of a request that has committed.

`ImagesOfOneWriter` adds `ImagesReadInFull` (the images an update has read under its lock are still all there are).
`HistoryInv` adds to it, for every request, what it has been through: `Asked` (its call tells the way it goes), `InStep` (an
uncommitted insert is the row of its payload; an update whose copy was not outdated has set what its payload says and left
the search text alone until its end) and `Retried` (before its end a request was refused over its category's name no more
often than it has rolled back; a second try whose first was not refused over the name has met a row of its external id, and
when it inserts, such a row is deleted). So a write refused twice, and never over the name, has met two twins.

**Towards an answer.** `Answered` itself needs fairness and is left to TLC. Its two safety halves are theorems, for any number
of requests. `NoCircle`: a lock is held by a request that has inserted or is updating (`LocksAreHeld`), which waits
for nobody unless it crashed; that one waits for the form on the loop, the form at most for one more row, and only if that
row's holder crashed too is there no end, which is `LoopIsStuck`. This proof found that `LoopIsStuck` has to speak of
edit forms as well as of deletions. `StepsCount`: `StepsLeft`, at most eleven, falls with every step of a request and with
no other, the retry after an IntegrityError included.

**The refinement.** `SerialRefinement` has two hypotheses, `MaxActive = 1` and `MaxUnlucky = 0`: the contract has no
"conflict", and with two requests at once, be the other one about another memory of the same category, the code does not
implement it. `Documents` maps a table to documents; every step of the store is shown to be a step of the contract, in the
step that answers the request, or a stutter. It needs that the row a handler works on is the one the contract means:
`SerialInv` says that at most one request is at work (`OneAtATime`), that every live row has the search text of its columns
and images (`LiveCoherent`), and that a session's copy is the row the table holds, what it looked for and did not find is
still missing, and what it has flushed is its payload's (`HandlerOK`). It assumes `NoneIsNoDocument`, which tells the absence
of a document from a document.

### ReviewProofs

| theorem | states |
|---|---|
| `Mandate` | `Spec => []WithinItsMandate` |
| `SourcesGone` | `Spec => []MergedSourcesGone` |
| `NoHalfDecision` | `Spec => []HalfAppliedOnlyIfFailed` |
| `DeletedStaysDeleted` | `Spec => NothingComesBack` |

From `ConstantsOK` (`None` and `NaN` are no values, the table starts with nothing deleted). `ApplyCommit` and `ApplyRaises`
look at nothing: what they apply was checked when the suggestion was taken and its memories read. `IInv` keeps it till then:
`OneAsks` (one session prepares the run), `TablesOK` (a suggestion names what was sent; a trace is of a suggestion that was
not filed away) and, for each session, `SessionOK` (it holds all memories of what it is about to apply; the task is about to
apply only what is `SureEnough`; what a copy calls deleted is deleted; no copy takes for pending what was filed as ignored).

### CategoriesProofs

| theorem | states |
|---|---|
| `OnePerName` | `Spec => []OneCategoryPerName` |
| `Whole` | `Spec => []NothingHalfMade` |
| `LiveInUse` | `Spec => []ClosedOnlyWhenEmpty` |
| `Follows` | `Spec => []FollowsItsCategory` |
| `OneRetryIsEnough` | `Spec => []RetryIsEnough` |
| `NoCircle` | `Spec => []ShortQueues` |
| `StepsCount` | `Spec => EveryStepCounts` |

From `ConstantsOK`: cutting a name twice is cutting it once, and the tables start consistent, with no category
closed. (Requests are any in number, so a table with closed categories is one that earlier requests have left.) `IInv` says
of the tables that a merged category is closed and a memory's category exists (`TablesOK`), that one admin form is at
work (`OneForm`), and of each request: it goes the way of its call (`OnItsWay`), the category and row it has found are
there (`HasCategory`, `HasRow`), a form's categories are in use as it has looked them up (`FormInHand`), what has come
into a category since its form read the members is marked as raced (`Emptied`), what it has made it made with success
(`MadeByOk`, for categories and memories), nobody else has the name it is inserting (`PendingName`), what it looked for and is about
to insert is still no stored memory (`StillMissing`), and a second try finds what refused the first, unless an admin freed the name
or another request has made the memory (`SecondTry`). `MergesEnd` in `TypeOK` is kept because a merge goes into a category in use,
which has no `merged_into`: a circle would have to be closed by that step and cannot pass its target.

`NoCircle` rests on `LocksHeld`, an invariant of its own: rows are locked by requests about to commit, by writes that have
crashed and by the one merge (`OneForm`); names are held by writes on their way to their row or crashed on it
(`HasCategory`). So the longest queue is a name, a row, a crashed write's session, which waits for the form on the loop, and
that form for a name and a row: unless `LoopIsStuck`, whoever holds the last one commits. The lemmas `Holders`, `Upto` and
`OneBehind` go through it link by link. `StepsCount` counts statements as for `MemoryStore`, at most twelve, and the rows a
merge has yet to lock, which shrink by one.

### ExtractionProofs

| theorem | states |
|---|---|
| `OneLetThrough` | `Spec => []OnceWhenAlone` |
| `RefusedWithReason` | `Spec => []RefusedForAnother` |

From `ExtractionOK`. Every remembered entry was put there in this life of the process by a request that has got as far
as the model (`MarkedBySomeone`), which is what a refusal relies on. For `OnceWhenAlone` the invariant follows a request let
through without meeting another's steps on the table: `CleanOnesLast` says that all later ones came later, that its key
is remembered with its time or a later one, and that where the key is gone, listed as old or about to be set
again, its time is over.

### IdentityProofs

| theorem | states |
|---|---|
| `AgentsKept` | `Spec => []AgentUnlessUndone` |
| `OnlyForThoseOn` | `Spec => OnlyWhileOn` |
| `NoCircle` | `Spec => []ShortQueues` |
| `StepsCount` | `Spec => EveryStepCounts` |

From `IdentityOK` (agents, devices, keys, categories, the user and requests are told apart).
`AgentUnlessUndone` is a statement about memories that are written, and `Commit` looks at nothing: what it needs
was found out steps before. `IInv` of `Identity` carries it from one step to the next:

- `InHand`: past `resolve` a request knows its agent, about to commit it knows its category;
- `HoldsItsOwn`: an uncommitted entry is the agent or, about to commit, the category of the request that holds it, so a
  rollback takes along no agent but the request's own;
- `AgentAtHand`: from `work` on the agent is committed, held by the request itself, or `undone`;
- `WrittenByWriters`: who has written stays written down, so `undone` still stands beside its memories;
- `LookedAt`: what is off now and was looked at went off since, and is in `dropped`.

Every step of one request is shown to be equipped, tidy and honest - what it takes with it, what it does to the
tables and unique indexes, what it writes - and `StepKeepsInv` shows once that such a step keeps `IInv`;
`FormKeepsInv` does the same for the forms. `OnlyWhileOn` is `LookedAt` at the one action that writes, `Commit`.

`NoCircle` is `HoldsItsOwn` read backwards: an agent is held by a request past `create`, which may still wait for a category,
and a category by one that is about to commit. `StepsCount` shows that every action moves its request `Onward`, to a later
step or back to `save` with fewer `Rounds` left (items to go, and the second try).

### AiChatProofs

| theorem | states |
|---|---|
| `RunOnce` | `Spec => []RunOnceUnlessStopped` |
| `Told` | `Spec => []CommittedIsListed` |

From `AiChatOK`. A change is committed several steps before anybody is told. `Accounted` says where it is meanwhile: its
reply was stopped, or will list it (`ToBeListed`), or lists it (`Listed`). `UnderWay` says that a reply is only prepared for
a question that is still the last message, so nothing else takes its place.

### SearchProofs

| theorem | states |
|---|---|
| `NothingOverlooked` | `Spec => []EmptyIsJustified` |
| `StagesInOrder` | `Spec => []EarlierStagesFirst` |
| `QuestionsAgree` | `\A stops, s \in Seq(Kinds) : Agree(s, stops)` |
| `TermsOfQuestions` | `Spec => []TermsAgree` |
| `ContextsFit` | `\A max \in Nat, entries \in Seq(Nat \ {0}) : Fits(entries, max)` |
| `ContextsOfSearches` | `Spec => []ContextFits` |

From `SearchOK` (the memories are finitely many, so that counting them means something; a term common enough always is common
enough in a large category). What a stage has read is gone when the next one reads. `StageByStage` keeps what is
left of it: a memory that is live and that nobody has touched since the search began (`Steady`) is as every stage has seen it,
and a stage is reached only when none of these should have been found before. `UnderWay` says that there are terms to look for and a
category to look in. `TooCommon` is the lemma about the other way to an empty answer.

The other four are about the pure rules, for questions and contexts of any length. The library's induction theorems have
an operator as parameter, which the provers cannot instantiate; `Least` (a set of numbers that is not empty has a least one, because
`<` is well founded) and `Induction` over a set `0..n` do without. `QuestionsAgree` takes the terms of a question by their shape:
`OfNoun`, `OfSingle` and `OfWindow` say what each predicate makes of a name with a number, a token and a run of tokens
(`InARun`, by induction), and `EffectiveAre`, `IgnoredAre` and `KeywordsAre` put that together. `ContextsFit` rests on `Shapes`, an
induction over the entries: after each of them the text is all entries whole, or the first few and what `MinCut` let in of the next.

### CompactionProofs

| theorem | states |
|---|---|
| `SavedOnce` | `Spec => []TwiceOnlyAfterExpiry` |
| `LeftOutForAReason` | `Spec => []SkippedForAReason` |

From `CompactionOK`. `MarkStands` says that a mark is that of a save whose timer is still to come, and `OnTime` that no timer is
overdue, which is what a hook that finds the mark relies on. For the other property: a session that is being saved, or
has been, is marked until its mark is `Lost` (`MarkedUntilLost`), and no other save begins before (`NoneBegunBefore`). Lemma `Changed`
is the heart: a save that takes the mark away, by its timer or its failure, takes it from the saves begun after it, and
those begun before it had lost theirs when it was begun.

### What is only model-checked

Liveness (`Answered` of `MemoryStore` and `Categories`, `EveryoneAnswered`): ENABLED, and with it weak fairness, is out of the
prover's reach. What is missing between `ShortQueues` with `EveryStepCounts` and these is just that: a request that waits
for nobody has an enabled step, and takes it. `RewriteWorks` is the finding, and false.

## 14. Finding

- `store_rewrite` / `RewriteWorks` (`services/attachments.py:95`): once an image was stored with empty metadata, a
  rewrite that leaves `attachments` out answers 500, although `examples/AI_MEMORY_USAGE.md:120` promises an
  update: with an empty `metadata_json` the code falls through to the ORM object's `metadata`, SQLAlchemy's own.

Behaviours the models contain and the properties name as exceptions are described with their modules above.

## 15. What is not modelled

- Reviews and clean-up scripts that lock several rows, in an order PostgreSQL may have to break up; the
  connection pool; how long the event loop is blocked by a model call. These are the hazards without a property at
  `ai_memory_review.py:725`, `db/session.py:13` and `admin/routes.py:1808`, and plan 9.
- The plugin's caches of recent inputs and contexts (`runtime.mjs:101`, `:445`), its explicit save and its tools; plan 10.
- The Codex bridges: text patches of a third program, with a callback slot whose callers are not in the repository.
- Ranking order, keyword rank, similarity and tokenisation, prompts and wording, encryption, cookies, logging, templates, migrations,
  installers: data or single-row forms without control worth a model. Embedding jobs are never created.
- Several server processes: the image starts one worker, and the models of the event loop depend on it.
- Isolation levels other than READ COMMITTED.
