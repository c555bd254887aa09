# A verification project for otto-bot

TLA+ models of otto-bot: the EAN pool, the submission of products to OTTO, AI
enrichment, attribute fill, the stores of a task document, preparation, and the jobs,
imports, mappings, routes and clients around them. TLC checks them on small
instances; TLAPS proves most of their safety properties for instances of every size.

Contents: 1 the system; 2 how the models are written; 3 module by module; 4 the runs;
5 fairness; 6 proofs; 7 disagreements and observations; 8 what is not modelled; 9 plan.

## 1. The system

otto-bot prepares products of an Afterbuy catalogue for the marketplace OTTO.

- An **API** (FastAPI, one asyncio process; `src/app/api/routes`).
- A **worker** (ARQ over Redis, one process; `src/app/tasks.py`): 2 jobs at a
  time (`max_jobs`), 7200 s per job, `max_tries = 1`: a job that is cut off or
  fails is never run again. A job timeout arrives as `CancelledError`, which
  `except Exception` does not catch.
- **Stores**: Postgres (the EAN pool, task documents, attribute-fill rows, the
  catalogue), Redis (queue, locks, a cache of task documents), MongoDB (an
  optional first copy of task documents).
- A **frontend** (Next.js). The creator page polls its task by a web socket once
  a second, and the user's latest tasks by a route.
- **Outside**: OTTO, Afterbuy and the language models.

Everything long-running is a *task*: a JSON document with `status`, `step`,
heartbeats and counters. Every route and job reads the whole document, changes
its copy and saves the whole of it (`_get_factory_task_state`,
`_save_factory_task_state`), with awaits between the read and the save. Nothing
but the two locks named below keeps two writers apart.

### Inventory

| Component | State | Operations | Interacts with | Hard behaviour | Correct when |
|---|---|---|---|---|---|
| EAN pool (`ean_pool_service.py`, ean-pool routes) | table `ean_pool`: status, `reserved_for` | import, reserve next, mark used, release | submission, previews, users | two-step transactions without row locks; release knows no owner | no EAN is given to two by itself; a used one comes back by nobody's fault but a second release's or a user's |
| Submission (`products.py` 4754–6222) | task document, the list of assignments a job holds | click, preview, job: take EANs, validate, create on JV and XL, poll, settle, mark or release, enqueue availability | pool, OTTO, document, queue | failure between any two awaits, double clicks, two accounts, unanswered polls | a job whose own account took everything shares no EAN, no reservation forgotten, a verdict as true as OTTO's counters |
| AI enrichment (`products.py` 4008–4566) | document with chunk rows, items, heartbeat; a lock in the process | click, coordinator, chunk jobs, one save per product | stale marker, polls | lost updates, two runs over one document, jobs that die | no product lost, done means enriched, the task ends |
| Stale marker (`products.py` 349–462) | heartbeat and step of a document | on every read of a task: 300 s without a heartbeat make it failed, or done if all is completed | every task, attribute fills included | saves an old copy, without a lock | a verdict is true and is not taken back |
| Attribute fill (`attribute_fill_service.py`) | document with counters, a row per product, a Redis lock of 60 s | coordinator, chunk jobs, batches to OTTO, counting | stale marker of the creator page, OTTO, AI | lock expiry, failing stores, dead jobs | no count lost, the verdict true and final |
| Task state store (`factory_task_state_service.py`) | process memory, Postgres, MongoDB, Redis cache (1 day) | save, get, delete | all of the above | several copies written in turn, failures of two of them swallowed | a read returns the last save; a deleted task stays deleted |
| Preparation (`products.py` 1209–1460) | document, heartbeat task | job with a heartbeat every 5 s | store, stale marker | heartbeat saves an old copy over the result | a finished document stays finished |
| Draft and review (`products.py` 3716–3766) | document | merge edits | store | merges into a copy while jobs save | no edit and no progress lost |
| Availability job (`products.py` 5416–5620) | document, a queue, stock at OTTO | sleep, read, count product by product, verdict | submission, drafts, OTTO | sleeps between read and save; several workers count in one document; `join` waits for every sentinel | counts true, DONE means available, edits kept |
| Imports (`afterbuy_sync_service.py`, upload routes) | `product_import_tasks`, `jv_lister`, `products` | pages, batches | Afterbuy, sheets | rows and progress on one session, commit by commit | progress says what is stored |
| External API and delivery consumer (`extermal_service.py`, `rabbitmq_*.py`) | RabbitMQ queue | create, publish, consume, acknowledge | OTTO, broker | redelivery, requeue for ever | accepted products get their stock |
| Routes that begin a job, owners (`products.py` 278, 3553, 4518) | document, ARQ queue | look, save, enqueue, claim | worker, stale marker | the document is saved before the job is queued | a queued task has a job; two jobs or two owners only of callers who met |
| Variants and images (`product_variant_service.py`, `variant_image_service.py`) | `product_variants` | generate, paint, override, regenerate, delete | worker, image model | the job holds its row for minutes | one row per combination; what the user sets stays |
| Variation logic (`product_variation_logic.py`) | rows of a product | matrix, preview, identifiers, export | submission, pool | normalised keys, nested copies | complete, apart, own values |
| Prices, deactivation (`products.py` 2440–3200) | rows, shelves of two accounts | send, commit; switch off | OTTO | partial success over two accounts | rows and OTTO agree |
| Categories and labels (`product_service.py`, `translation_service.py`) | `categories`, translation cache | refresh, label | OTTO, DeepL | paging over a changing catalogue; one session for labels and cache | whole catalogue, labels kept |
| Tokens and DeepL client (`otto_auth.py`, `otto_client.py`) | process memory | token, slot, retry | OTTO, DeepL | time limits, one lock for all | token lives as long as its call; slots apart |
| Media, image cache, factories | `product_attributes`, image cache, `factories` | replace | OTTO, Aftercool, Afterbuy | replace while others read | one answer at a time, own images kept |
| Users and login (`user_auth.py`) | `users`, `user_roles` | sign up, log in | all routes | look, then two commits | one account per person |
| Sheets and mappings (`otto_xlsx_import_service.py`) | import rows, two mapping tables, products | import, name, match, rebuild, copy | clones | scripts that commit in batches and run side by side | nearest match, no partial table |
| Clones for the second account (`products.py` 4960–5330) | payloads of both accounts | match EANs and profiles | sheets, submission | lookups that fail or miss | both accounts or none, the right EAN |
| Preparation pipeline and mapper (`products.py` 900–1200, `product_mapper.py`) | items, results, progress | map, normalise, publish, retry | preparation job, AI | tasks under semaphores with a time limit | every product prepared or noted, in order |
| OTTO batches (`products.py` 1560–1760) | counters | send, poll, add up | submission | any counter missing, exhausted polls, tasks that fail as a whole | success means listed where OTTO counts its failures |
| Instruction language (`otto_instruction_language_service.py`) | OTTO's products | page, send back, poll | OTTO, seller | whole products sent back | done means German; edits lost only if overtaken |
| AI text, uploads, configuration, schema, frontend | — | I/O, prompts, wiring | all | — | — |

`PROJECT.json` lists each of these with its files and status, and every hazard
with the line where it bites and the properties that watch it.

## 2. How the models are written

- An action is the code between two awaits at which another actor can run. A read
  of a document and the later save of the changed copy are two actions with the
  copy held in a variable; a database transaction is one action if it locks the
  rows it decides on, else a load and a commit.
- A document is a record of the fields some guard or some property looks at. Texts,
  timestamps and payloads are left out; a heartbeat is "fresh" or not.
- What comes from outside is an explicit kind of fault or event. `FactorySubmit`
  , `FactoryEnrichment`, `AttributeFill` and `FactoryPrepare`
  take a set of `Environments`; a behaviour chooses one of them in its initial
  state and keeps it (`events`, `faults`), and a property that depends on the
  environment, or on what has gone wrong so far, names it in its own text. One run thus covers several worlds.
- The components around this core share no state with each other. `Scenes` lets one
  run check many of them side by side: a *scene* is a component (`part`) and a set of
  events that are not its own doing; a behaviour plays one scene, and the components
  whose turn it is not rest in their initial state. `Plays(part)` and `May(event)` are
  the guards. `MCWorkerJobs` and `MCCatalogueData` put the components together: their
  next-state relation is the disjunction of those of the components, and their
  properties are conjunctions of the components' own, grouped by what could go wrong.
- Pure algorithms are operators; they are run over the inputs of the instance and
  compared with a definition that says what the result is, not how it is found.
- Operators marked "a seeded fault" are used by no action: each is the body that a
  plausible bug would give the definition below it, and shows that a property can fail.

## 3. Module by module

### EanPool, EanAllocation
`pool` is the table, `call` the load that a user's session has not committed.
`Import`, `Reserve`, `LoadForUse`/`CommitUse`, `LoadForRelease`/`CommitRelease` and
`Abort` are the routes. `reserve_next` selects with `FOR UPDATE SKIP LOCKED` and is one
step; `mark_used` and `release` are two. EANs are numbered by primary key, the order in
which they are served.

`EanAllocation` says what a pool promises: an EAN is free, held by one holder, or
listed at OTTO for one holder and then never given out again. The promise is made to
holders that do not fail and for EANs nobody touches by hand. Of the EANs of a holder
that has failed, and of those touched by hand, nothing is promised: they become `Void`.

### FactorySubmit (extends EanPool)
A job is one click on submit or preview. `pc` is its place; `doc[j]` its copy of the
document, `task` the saved ones; `list`, `todo` and `loaded` are
`ean_pool_assignments`, what a loop over it has left, and the row its session has
loaded; `report` is the aggregated answer of OTTO's update tasks per account.
History: `held` is what the job has reserved, `listed` what OTTO has accepted for it
on each account, `lost` the reservations of jobs that cannot settle them any more,
`raised` where an exception took a job from its course, `byHand` the EANs users of the
ean-pool routes have released or marked.

The actions follow `_run_factory_submit_task` from top to bottom: `Start`,
`SaveStart`, `FillOne` … `Filled` / `PoolExhausted`, `SaveEans`, `ValidationFails` /
`Validated`, `SaveCreate`, `CreateOwn`, `CreateXl`, `Settle`, `LoadToMark`,
`CommitMark`, `Marked`, `SaveResult`, `SaveAvailability`, `EnqueueAvailability`; the
release loops share `LoadToRelease`, `CommitToRelease` and `ReleaseLoopDone`.

OTTO is not narrowed. `Create` lets each account accept any subset of the products,
whatever the other account did; the clones go to XL in any case, as the code sends them.
Faults: `Raises` is an exception at any await of the `try` block (in `settle` it is that of
the translation of the errors), `RequestRaises` one of a request
or a poll after OTTO has accepted any of the products, the XL request after the own
account's acceptance included; both go to the handler, which releases the list again,
also if the release was done and the save after it raised. `LoopSkips` is a pool call
that fails in a loop, `GivesUp` an exception nobody catches, `Kill` a job cut off. `Told`
is what the counters may say: what OTTO did; under `uncounted` less than that (polls that
run out, an answer without process id, a task ended `failed` or `error` with `failed` 0, a
counter left out); under `presumed` successes that nobody counted, because `succeeded`
is left out of an answer that says `done`.

So the code does release EANs that are listed, and `NoDoubleListing` says exactly when two jobs may
list under one EAN: one of them has *let it go* (`LetGo`: interrupted while OTTO was
asked; own account not all counted; interrupted after a `mark_used` that failed), or the
EAN is *loose* (`Loose`: a second release of the list, a user). `ListedOnce` is the
sentence without this, and `submit_released` refutes it. `DoneMeansListedIfCounted`
and `UsedIsListed` name in the same way the counters they depend on. `Allocation` is the
refinement mapping to `EanAllocation`; what is let go or loose is void. `list` is a set: an
EAN that one fill is handed twice (because another job's second release freed it between
two of its turns) is one entry of it. The stale marker is not among the actors here.

### FactoryEnrichment
`task` is the document, `copy[w]` the copy of a click, job or reader, `run` the
route and coordinator of each click, `pc`/`next` the chunk jobs and the index of
their loops, `lock` the asyncio lock. `ChunkCount`, `StartIndex`, `EndIndex` are the
partition as computed. `Matches` is the row lookup, with the `or -1`.
`Click`, `SaveQueued`, `Begin`, `SaveChunks`, `EnqueueChunk` are route and coordinator;
`StartJob`, `Enter`, `SaveStart`, `NextItem`, `SaveItem`, `SaveEnd` the chunk job;
`Poll`, `SaveVerdict`, `Ages` the stale marker. A chunk row is terminal only by
`Marked`; the last one concludes the task (`Concluded`). Because of `Matches`, chunk 0
never becomes terminal and the stale marker is what ends every task: `Recovered`.
Deleting a task that is being enriched is not modelled.

### AttributeFill
Every change of the document is one of `Changes`, made by the phases acquire, read,
save, check, delete (`_mutate_task_state` under `_task_state_lock`). The lock is the
Redis key: `Expires` frees it if its holder left it behind, and under
`lock_expires` while the holder is at work; where there is no Redis client,
`_task_state_lock` yields without a lock, which is a lock that expires at once. `rows` are the rows of
`AttributeFillItem`, `pending` is `pending_submit`, `accepted` what OTTO took.
`Begin`, `Fetched`, `FetchFails`, `Coordinated`, `EnqueueChunk` are the coordinator;
`StartChunk`, `NextItem`, `Generated`, `Shaped`, `SaveItemRow`, `Submit`,
`SaveFailedRows`, `Continue` a chunk job; `DeclareStale`, `SaveVerdict` the route of
the creator page, which applies the stale marker to attribute fills as well.

### FactoryTaskStore, FactoryPrepare (extends it)
`FactoryTaskStore` gives the steps of a save, a get and a delete for any set of
callers: `db` is the row of `factory_task_states`, `mongo` and `redis` the two stores
whose failures are swallowed (`Written`), `memory` is `FACTORY_PREPARE_TASKS` of either
process, `call` the step each caller is at and the document it carries.
`StartSave`, `CommitSave`, `SaveMongo`, `SaveCache` are a save; `StartGet`, `Find`,
`Cached`, `Select`, `Fill` and then `Return`, or a caller's own action on
`Result`, are a get; `StartDelete`, `DeleteMongo`, `DeleteCache`, `DeleteRow` a delete.

`FactoryPrepare` has four callers. The job (`NextChange`, `SaveChange`, `SaveDone`,
`Stop`, `ItemRaises`, `JobRaises`, `KillJob`) makes the `Changes` of the document one after the
other, as `progress_lock` and its own order make it: per product one round of
`_append_normalized_item` and one of `_track_mapping_progress`, and a second append after the
mapping. An exception in a product's rounds is noted and the job goes on (`ItemRaises`); any other
ends the job (`JobRaises`). `Beat` is one round of the
heartbeat loop, which saves what is in the worker's memory. The page (`Poll`,
`Polled`) applies the stale marker; the user (`UserCalls`, `NotFound`, `SaveDraft`,
`Delete`) saves drafts and deletes. `Raises` is an exception of the database in a
request, or in the heartbeat loop, which then is over for good. The time since the
last heartbeat is `old`; `alone` and `deletion` are history.
The document keeps `status`, `step` and the number of products. A deletion while the
job runs, or while a poll is in flight, may be undone by their saves and by what the
poll puts back into the memory of the API: the code does nothing against it, and
`DeletedIsGone` speaks of deletions that no other call meets.

### FactoryAvailability
`availDoc` is the document, `availCopy` the copies of the job, of each worker and of the
user; `availQueue` and `unfinished` the asyncio queue with its counter; `worker` the
coroutines. `StartAvailability` reads the document and sleeps, `StartProgress` saves that copy
and fills the queue; a worker takes an item (`TakeItem`), sends `SendQuantity` and
`SendDelivery`, and counts under `availability_lock` (`ReadCount`, `SaveCount`); an
exception is counted by the handler (`CountRaises`). `availErrors` and `counted` are sets of an
item and what was noted for it, so that "none is counted over another" is a statement about their sizes. `Joined` is `join` and the sentinels,
`FinishAvailability` the verdict after the errors are translated. `OpenDraft`/`SaveEdit` and `DeleteTask` are the user.

### ProductTable, ImportTasks (extends it)
`ProductTable` is the pure part of the upload: identity of a row, deduplication,
matching a batch by the indexes. `ImportTasks` is both imports over one task row:
`importTask` is what is committed, `tally` the counters in memory, `table` the stored
rows. The sync fetches a page, commits its rows, then its progress; the upload commits
batch and progress together. `ImportRaises` is the handler, `KillImport` a restart.

### DeliveryJobs
`request` is each call of the external API: OTTO first, then the broker. `jobs` is the
durable queue with the head handed out again when a job is put back; `delivery` the
consumer, which sets quantity, then delivery, then acknowledges.

### TaskRoutes
`clickAt` walks a click through look, save and enqueue; `jobQueue` is ARQ's;
`GiveUp` is the stale marker, which exempts `ExemptSteps`; `JobExpires` drops what nobody starts. `ownedBy`/`asking` are
`_get_owned_factory_task_state`. The code looks before it saves and compares nothing at the save,
so callers who meet may both get what they ask for, and the model lets them. What is
claimed is that nobody else does. `overlap` are the pairs of clicks of which one looked while the other
was about to save, `crossed` the pairs of users who had both asked when neither claim was saved, `givenUp`
the tasks given up while their job waited. Two fills are under way only if just these two
clicks met or one of them was given up (`OneJobUnlessOverlapped`); two users have a task only if just these two
crossed (`OneOwner`): a third who comes later is refused.

### VariantImages, Variations
`VariantImages` has the rows of one product (`variants`), clicks on "generate"
(`LoadVariants`, insert, enqueue; the rows a click has yet to enqueue are a set, since no
property depends on their order), and image jobs, which write only the columns they
have changed (`OnlyDirty`). `Variations` has the data side: dimensions and combinations
from attribute rows, keys by `Normal`, preview and generation, the identifier check and
its later commit (`CheckIdentifier`, then the update), and the export of a product as
payloads of its variants with EANs from the pool.

### MarketUpdates
Prices: `priceAt` sends to one account after the other and commits the rows after the
last. Deactivation: a coroutine per identifier under a semaphore, quantity then status,
one commit at the end (`offInSession`, `rowOff`). `shelf` and `listedPrice` are OTTO.

### CategoryCache, Clients
`CategoryCache`: a refresh pages through the catalogue, reads the labels, replaces the
rows; a labelling asks cache, then DeepL, and commits with the next cache entry. `patchwork` and `late`
are history: whether there are rows of a refresh that has met two versions, and the names whose labels were
committed, by a page or by another refresh, after a refresh had read the labels.
`Clients`: tokens with the time the client and OTTO give them (`TokenTick`), the slot
under `_rate_limit_lock`, and retries. `CallTimeAssumption` says what the token margin of the
code relies on: a call takes at most half of the safety margin.

### Mirrors, Accounts
Three copies that are replaced rather than merged: media and descriptions, image links by
EAN, factories. `Accounts`: a sign-up looks for the address, commits the user, then the role.

### ImportRows, Counterpart (extends it)
`ImportRows` is the scripts over the sheets: import of a sheet in batches, names from
the paged API, matching by words with a bonus for the category (scores are whole
numbers in parts of 300), rebuild of a mapping table (delete and commit, compute, store
in batches), copy of rows to products. `Counterpart` is the second account of a
submission: EANs of the clones by position in the factory of the same name, then by
name from the sheet; shipping profiles by name; both payloads and the list for the availability job.

### ProductMapping
`items` is one task per product: mapping under the mapper's semaphore, normalising
and publishing under another, a retry of what has failed, results by position, one time
limit over all. `content` is what a product's enrichment makes: bullet points, attributes
and colours, description, taken together or not at all.

### OttoBatches
One account's submission: `BatchStep` sends a batch, polls its update task up to `MaxPolls`
times, reads the failed results and adds up the counters. An answer may leave out any
of `total`, `succeeded`, `failed` and `progress` (`leaves_out`), and each has the fallback
`_read_int` gives it. OTTO may end a task `failed` with products it has not got to (`drops`).
`FullSuccessIsListed` and `CountsAreOttos` hold for every batch except those whose
failures OTTO left out: of them the code takes every failure for none, and, where
`succeeded` is left out too, every product for a success (`unsaid`, `guessed`). They are what
`FactorySubmit` takes as one step in `Told`: `presumed` is the guess.

### InstructionUpdate
`instrAt` walks page, batches, polls, results; `ottoQueue` is what OTTO has been sent and not
worked on; `edits` are the seller's. The three ways to find the last page are in `IsLastPage`. A task
may end `failed` with products dropped, with or without a counter (`OttoDrops`, `SaidFailed`);
`TaskFailed` is the code's reading of it: the state `failed` or `error`, or failures counted.

## 4. The runs

| Run | Instance | Shows |
|---|---|---|
| `pool_race` | 2 EANs, 2 users | **violated**: used is not final |
| `submit` | 2 EANs, 1 or both in the pool, 2 worker slots; a dual-account task (2 products) submitted twice, a single-account task submitted twice or submitted and previewed; 6 scenes | `TypeOK`, `NoDoubleListing`, `UsedStays`, `NoForgottenReservation`, `DoneMeansListedIfCounted`, `UsedIsListed`, `AvailabilityAfterCreation`, refinement of `EanAllocation`, `SubmissionSettles` |
| `submit_verdict` | 1 job, 2 products, `uncounted` | **violated**: done means listed |
| `submit_released` | 2 jobs, nothing fails | **violated**: an EAN is listed for one product |
| `enrich` | 3 products, 2 chunks, 2 slots, 2 clicks, 1 poller; 3 environments | `NoLostItem`, `DoneIsEnriched`, `EnrichmentSettles` |
| `enrich_chunk_rows` | the same, undisturbed | **violated**: the row of an ended chunk is terminal |
| `fill` | up to 3 products, 2 chunks, batches of 2, 2 slots; 4 environments | `NoLostCount`, `JobsEndTruly`, `DoneMeansProcessed`, `DoneMeansNoneFailed`, `VerdictIsFinal`, `FillSettles` |
| `fill_declared` | 2 products, 1 slot, polled | **violated**: an ended task has been processed |
| `prepare` | 1 product (8 changes of the document and the last save), 4 callers; 6 environments | `PreparedUnlessOverlapped`, `DeletedIsGone`, `PrepareSettles` |
| `prepare_kept` | the same, heartbeat only | **violated**: a prepared task is kept |
| `worker_jobs` | 48 scenes of 17 parts, see below | `SecondCallersApart`, `PromisedJobsExist`, `ProgressIsTrue`, `MarketAgrees`, `CopiesAreGood`, `EditsAreKept`, `JobsSettle` |
| `catalogue_data` | 47 scenes of 8 parts, see below | `ClonesAreRight`, `ReportsAreTrue`, `SheetsAreTrue`, `VariantsAreRight`, `PreparationIsWhole`, `DataSettles` |

The properties of the last two are conjunctions; `MCWorkerJobs` and `MCCatalogueData`
name the parts, each of which is stated and commented in its component's module, and
`PROJECT.json` lists a mutant for every part.

Why the bounds are enough to be interesting. A job with 2 products and one with 1
over a pool of 2 EANs or of 1 meet a pool that is ample, just enough or short, let one job hold two while
another waits for what it releases, and let OTTO accept one product of two on each account. Two accounts, two jobs and two slots give every order of
two saves. Two chunks, one of them of two products, give both lost updates
between jobs and progress within one; a third product in a second chunk leaves a batch
that is not full. Two clicks are two complete runs. The loops over products are
uniform: a longer loop repeats steps that are there already. The counters are bounded
by the products, so no bound cuts a behaviour off. In `worker_jobs` and
`catalogue_data` the loops are cut in the same way: 3 products and 2 availability
workers, so that one worker counts while the other does, and each gets a sentinel;
catalogues of up to 5 items in pages of 2, one with an item without id, one with an
item twice, one that ends with a full page; a file of 5 rows in batches of 2 with rows of one
identity in one batch and in two; two requests with 1 and 2 products for one consumer; 3 clicks and
3 users, so that two cross and a third comes late; 2 combinations and at most 4 rows; 4 identifiers, two of them of one product and one unknown,
and 2 places in the semaphore; two versions of a catalogue of 3 groups in pages of 2, two
refreshes and two labellings; 3 callers of 2 accounts with token life 5, call time
1 and margin 2; 2 translators with 2 retries; sheets of 3 to 7 lines, with lines of one
SKU, lines without EAN or name, near ties, and a second version; products with 2 dimensions,
values written in two ways, and 2 EANs in the pool; 3 source products of which one may be
malformed, 2 mapping places and 1 normalising place; 3 products in batches of 2 with 2 polls; 4
listed products in pages of 2 with 1 retry. `MaxJobs`, `MaxVariants`, `MaxRows`, `MaxBusy`,
`MaxEdits` and `MaxSellerEdits` bound repetitions and are guards of clicks, answers and edits,
never of the steps of a job. `CHECK_DEADLOCK FALSE` is
set because the tasks end: a finished behaviour has no next step.

Environments of `submit`, by scene: the dual-account task submitted twice, with kills, 2 EANs; one
dual-account submission under kills, exceptions at every await and counters that tell too little or
too much; two single-account submissions that meet on one EAN, with exceptions, so that a
second release of the one frees the EAN of the other; the same two over 2 EANs with kills and
such counters; a submission and a preview with exceptions, 2 EANs; a submission beside a
user of the ean-pool routes. EANs a scene does not name are not in its table. Two
dual-account submissions with every fault at once are left to the proofs, which need no scene.
`enrich`: every failure of
jobs without polls; polls with failing and dying chunk jobs; polls with a second
click. `fill`: failing calls; failing calls, stores and dying jobs; the same with a
lock that expires early; the same with the creator page. `prepare`: heartbeats and polls
with exceptions and kills; heartbeats and polls without MongoDB; heartbeats and edits;
heartbeats and failing stores; polls and a deletion with exceptions; heartbeats, a kill
and a deletion. The scenes of `worker_jobs` and `catalogue_data` are listed in `MCScenes` of
their modules: for each part the undisturbed case, each kind of failure, and the
combinations in which two of them meet. A second product in `prepare` would add more changes of the same kind.

## 5. Fairness

Weak fairness of the steps of a route or job that is under way: the event loops run
what is ready, ARQ starts a queued job when a slot is free, and OTTO's or the AI's
calls have time limits. None for clicks, previews or faults. In `FactoryEnrichment` a
reader that is there keeps polling (the page's web socket does so every second) and
time passes (`Ages`); `EnrichmentSettles` is stated for environments with polls only.
In `AttributeFill` taking the lock is strongly fair: it is tried every 0.1 s, and
there are finitely many changes in all. `Expires` is fair because Redis drops keys on time.

In `FactoryPrepare` the calls under way go on, somebody looks at the task again and
again, time passes although polls leave it only moments (`Ages` is strongly fair), and
the database does not raise at every save of a poll. Heartbeats need no fairness.
`PrepareSettles` is stated where nobody edits: a draft may put the unfinished document
back each time a poll has ended it.

`SubmissionSettles` includes jobs that are cut off: they end as "dead", with their
reservations recorded as lost. What a job has not given back at its end is used, lost or
loose. Its fairness is of the steps of each job, in whatever environment the behaviour has chosen. `FillSettles` holds for failing calls only: a chunk job
that dies is never counted (`chunks_failed` is never incremented), and its task stays in
progress for ever.

In the components of `worker_jobs` and `catalogue_data` the steps of what is under way are
weakly fair: every call to OTTO, Afterbuy, DeepL or a model has a timeout, and the event loops
and ARQ run what is ready. Clicks, edits, changes at OTTO, kills and refusals are never
fair. Strong fairness is assumed where a call is tried again and again and does not fail
for ever: setting stock and acknowledging it (`DeliveryFairness`), fetching and showing
images (`MirrorFairness`); and for the asyncio lock of the DeepL client, which serves its
waiters in turn (`ClientsFairness`). Where a page or a script has to be opened again for
something to be finished, its being opened is weakly fair: pages with categories
(`LoadUnlabelled`), the image script (`BeginImageRun`). Prices, tokens, accounts, sheets
and clones need no fairness, because only safety is claimed of them.

Each part of `JobsSettle` names the events under which its component ends: not after a
kill, not with a job OTTO refuses for good, not with a save that raises in a handler.

## 6. Proofs

The safety properties of the runs of the core (`submit_*`, `enrich`, `fill`, `prepare`), of
`worker_jobs` and of `catalogue_data` are theorems: they
hold for every number of jobs, tasks, products, clicks and users, and for all the sheets, pages, listings
and products the assumptions admit, not only for the instances above. What is written in brackets
is the hypothesis of the theorem; where nothing is written it holds
under every fault and event of the module. (Some properties name the events they need, or what must
not have happened, in their own text, so that one run can cover several environments.)

| Module | Theorem | Property |
|---|---|---|
| `FactorySubmitProofs` | `PoolTypeCorrect` | `PoolTypeOK` |
| | `TypeCorrect` | `TypeOK` |
| | `Exclusive` | `NoDoubleListing` |
| | `UsedStaysUsed` | `UsedStays` |
| | `ImplementsAllocation` | `AllocationSpec`, the refinement of `EanAllocation` |
| | `AvailabilityIsEarned` | `AvailabilityAfterCreation` |
| | `UsedCarriesProduct` | `UsedIsListed` |
| | `DoneIsCounted` | `DoneMeansListedIfCounted` |
| | `NothingForgotten` | `NoForgottenReservation` [nobody reserves by hand in a task's name] |
| `FactoryEnrichmentProofs` | `TypeCorrect`, `EnrichmentInvariant` | `TypeOK`, and that every copy of the document tells the truth by itself |
| | `DoneStaysEnriched` | `DoneIsEnriched` |
| | `NothingLost` | `NoLostItem` |
| `AttributeFillProofs` | `TypeCorrect`, `FillInvariant` | `TypeOK`, and bounds on what any copy has counted |
| | `EndsTruly`, `DoneIsProcessed` | `JobsEndTruly`, `DoneMeansProcessed` |
| | `VerdictStays` | `VerdictIsFinal` |
| | `NoCountLost`, `DoneIsFlawless` | `NoLostCount`, `DoneMeansNoneFailed` |
| `FactoryPrepareProofs` | `TypeCorrect` | `TypeOK` |
| | `PreparedStays`, `DeletedStaysGone` | `PreparedUnlessOverlapped`, `DeletedIsGone` |
| `WorkerJobsProofs` | `SecondCallerTheorem` | `SecondCallersApart` |
| | `PromiseTheorem` | `PromisedJobsExist` |
| | `MarketTheorem` | `MarketAgrees` |
| | `ProgressTheorem` | `ProgressIsTrue` |
| | `CopiesTheorem` | `CopiesAreGood` |
| | `EditsTheorem` | `EditsAreKept` |
| | `JobsTypeTheorem` | `JobsTypeOK` |
| `CatalogueDataProofs` | `ReportsTheorem` | `ReportsAreTrue` |
| | `PreparationTheorem` | `PreparationIsWhole` |
| | `SheetsTheorem` | `SheetsAreTrue` |
| | `ClonesTheorem` | `ClonesAreRight` |
| | `VariantsTheorem` | `VariantsAreRight` |
| | `DataTypeTheorem` | `DataTypeOK` |

`CatalogueReportsProofs` holds the invariants and lemmas of batches, instruction language and
preparation; `CatalogueDataProofs` extends it with sheets, clones and variants and puts all of them together. `LoopLemmas` holds what
these and `WorkerJobsProofs` need to know of numbers and sequences.

### Why the properties need stronger invariants

*Submission.* `NoDoubleListing` is not inductive: two jobs may hold one EAN long before
either lists it. `SubmitInv` is what all of the theorems stand on, in every environment. `AnswersInv`: the
accounts answer in order, a verdict follows from the answers, an exception leaves its
mark and its job goes to the handler. `LoopsInOrder`: what a loop has left is part of
its list. `EansKept` says of each EAN that is not loose, and of those only, that at most one job
holds it (`Apart`) and, for every job (`Kept`), that what it holds is reserved or used, what it
has listed it holds or has let go, what it is about to release or mark it still holds,
that a pending release is of a reserved EAN, and that before a release loop every listed
EAN is used already or let go. The exemption of the loose EANs is where the proofs meet what the code
does: a second release may free what another job holds by now, and from then on nothing
can be said of that EAN. `StepsAreLocal` carries the invariant of the other jobs over a
step. The refinement needs `AllocIs`, that the choices of the mapping have one
candidate, and `Excused`, that every void EAN was taken by a job that gave up or touched by hand.

*What a submission reports* needs two more: `VerdictInv`, about saved documents and copies, which
other jobs of the same task may have written (a document that says DONE names the list of a
job all of whose accounts answered without counting a failure), and `ReservationInv` (what
is reserved for a task is in the list of a job that will settle it, or lost).

*Enrichment and fill* keep stale copies of a document in clicks, jobs and polls, and any
of them may be saved at any time. So nothing may be said of a copy that a step of another
could take back. `EnrichmentInv` only relates the fields of one copy to each other
and to what never shrinks; `FillInv` bounds the counters of each copy by the sets of
products passed, fates told and chunks settled. Where the environment excludes what
overlaps (`Uninterrupted`, `Exact`), `KeptInv` and `ExactInv` add that the holder of the lock is
alone with its copy, and that the counters are the cardinalities of those sets.

*Preparation.* `PrepareInv` says where each of the four callers can be, which document it
carries there, and, once the job has saved for the last time and alone (`Ended`), that
every copy that can still reach a store is the prepared one.

*Jobs around the core.* Each component is proved by itself: `RouteInv`, `DeliveryInv`,
`VariantInv`, `AccountsInv`, `SlotInv`, `PriceInv`, `OffInv`, `AvailInv`, `UploadInv`,
`SyncInv`, `CategoryInv`, `MediaInv`, `TokenInv` are invariants of the component's own
specification (`RouteSafety`, ...) with any `scene` at all. `JobsAreTheirParts` then shows
that `JobsSpec` implies each of these, whichever scenes it plays (`SceneIsKept`: no step
changes the scene; a component that is not on stage rests). So the theorems do not depend on the
list `MCScenes` of the instance, nor on the constants that `MCWorkerJobs` gives the instance.

- `RouteInv`: as long as no two clicks on an enrichment have met there is one that is under way (`OneUnderWay`);
  two fills go on only if their clicks met or one was given up (`FillsApart`, which needs that a task's job is
  in the queue at most once, `Once`); who has a task or claims it has crossed everyone else who
  does (`OwnerInv`), so a user who asks once there is an owner is refused.
- `AvailInv`: who counts holds the lock (`PlaceInv`), what is counted is what the document says
  (`CountInv`), every item is in the queue, at one worker, settled in full, or told as an error (`Fate`, `DoneInv`);
  the queue holds items first and sentinels last (`QueueInv`).
- `UploadInv`: the rows of a batch replace those of the table they share a key with, so a row is lost only to a
  later row with a key of its own, or to one of its batch (`UpsertedTo`, `LostTo`). Batches begin at
  multiples of their size and the task counts what lies behind the offset (`UploadCounts`), and that lies in
  the table (`CountedIsStored`).
- `SyncInv`: as long as the listing does not shrink, every item of the listing at the beginning is in the table
  or lies behind the offset, shifted by what came in front (`SyncedInv`, `Shift`).
- `CategoryInv`: names and ids are given once (`RowsApart`); what a refresh has fetched is the beginning of one
  catalogue (`FetchedRow`); rows are of one generation, so that a refresh deletes all of them or none, and it
  knows every label but the late ones (`RefreshRow`).
- `MediaInv`: nothing is newer than what OTTO has (`OttoIsNewest`, `RunNews`); a run about to commit brings nothing
  older than there is and deletes exactly what there is (`Ahead`); whoever meets it brings something newer
  (`Behind`); so what a run has passed never gets older (`Brought`).
- `TokenInv`: a token the client believes in outlives that belief by the margin, less the time its answer took
  (`TokenRow`); one on its way had more left than a call takes when the request was sent (`CallRow`).

- `JobsTypeOK`: that each component stays in its types needs bounds of its own. No document counts more than has
  been counted, and what `join` waits for is what lies in the queue and what the workers have in hand
  (`BoundInv`); a page has no more identified items than items (`ImportNumbers`); ids are given from 1 on
  (`IdsInv`); waits and lives of tokens stay within the times they began with (`ClientBounds`).

The action properties of `EditsAreKept` need `VariantShape` and `CategoryInv` only: a label can be missing
after a refresh only if it came late.

*Catalogue data.* The components of this run compute more than they interleave, so their invariants
say what a loop has computed so far. As above, each component has an invariant of its own specification
(`BatchSafety`, `InstrSafety`, `ProductSafety`, `CloneSafety`, `VariationSafety`), and `DataSteps`
carries it over to `DataSpec`, whichever scenes are played; only the instruction language needs that its
scene names a way to find the last page (`ScenesHaveAWay`).

- `BatchInv`: the products are those of the batches passed, of the batch in hand and of the batches to come;
  the counters are bounded by what OTTO has decided of the first, and what it will decide of the second
  is not yet counted (`SentInv`, `AnswerInv`, `SumsInv`), apart from what was guessed. A full success leaves
  no room for a rejected one outside of the batches whose failures were left out.
- `InstrInv`: what is scanned is on the pages fetched (`ScannedInv`); a product that was not German on its page is
  German now, or in a batch to come, or noted as failed, or lost with an answer that never came
  (`GermanInv`, `FailedInv`); an edit is overtaken only by a product that was read before it and applied
  after it (`EditInv`). `EditInv` is why OTTO's queue is part of the invariant: an
  old product in it is what an edit can still lose. A run that heard of a task with dropped products is `failed`.
- `ProductInv`: no more items than slots are mapping (`SlotInv`); the progress is the number of items that have
  ended (`ProgressInv`); after a time limit or a raise nothing more is published (`StoppedInv`); at the end each item is
  prepared or noted (`EndedInv`). `ContentInv` is about what is made of one product; colours are allowed because
  each pass of the loop over the attributes keeps them so (`LoopIs`).
- `SheetsInv` has four parts. `RowsInv`: a row is known by its account, the replacements of its sheet and its line.
  `EnrichInv`: the pages read so far leave no name open that they could have given, and every product on them
  is counted. `MappingInv`: for a rebuild nobody has mixed with, what is stored and what it has still to store
  are together all it has matched, so that a table that one rebuild alone has made is whole. `CopyInv`: the last row of each
  SKU is copied, or among those still to be.
- `CloneInv`: both maps of EANs are right for the rows and items they were computed from
  (`NameMapIsRight`, `IndexMapIsRight`), and nothing is written before the end. That a match is the nearest is a
  loop invariant, for the first mapping (`IsWeighedOf`, in which near ties count) and for the
  lookup of clones (`IsBestOf`).
- `VariationInv`: the matrix and the export are separate. `MatrixInv`: no two active rows have the same key (`RowsApart`); after a
  generation every key has one (`AllMade`, with `KeysCover`: the combinations are all the choices there are); a preview
  that still holds has counted the keys to come (`PreviewInv`); an EAN found free is no other product's
  (`CheckedInv`), which a commit needs. `ExportInv`: the products are those handed over with the EANs filled in, where the
  places without one are numbered from 1 to the number reserved, and from the validation on no EAN
  occurs twice. That the payloads of a product are its own is shown from where they begin: after those of the products before it.

The recursion of these algorithms is written as recursive functions over the length of what is read
(`Autofilled`, `NearestRow`, `Best`, `Combined`, `Expand`), and a filter as the elements at a set of places
(module `Places`), because
TLAPS can reason about these. Where a statement is about every prefix of a sequence, the proofs use the
least number at which it would fail (`LeastOf`, from the well-foundedness of the natural numbers) instead of
an induction rule.

The proofs corrected the model of the second account in two places: a product and a row that both have no category
got the bonus of a common category, which the code gives only to a category that is there (`NameScore`);
and the choice of the largest factory did not say which one when several are as large (`CounterpartOf`). The runs had passed
with either.

The inductive invariants were tried with TLC on small instances before they were proved.

### What is assumed

Of constants, only what the modules state beside them, which TLC evaluates in the runs:
- sizes and chunk sizes are positive, the EANs finitely many, a task has a product
  (`EansAssumption`, `JobsAssumption`, `EnrichmentAssumption`, `AttributeFillAssumption`,
  `PrepareAssumption`): they come from lists, from routes that refuse an empty one, and from settings
  with positive defaults;
- "nobody" is not a somebody: `FreeAssumption`, `ActorsAssumption`, `UsersAssumption`,
  `StoreAssumption`;
- `RequestsAssumption`: a delivery request names at least one product; the route does
  nothing for an empty list. `VariantsAssumption`: the matrix has at least the source's own combination.
  `AddressesAssumption`: everyone signs up with an address. `CallersAssumption`: a call is for one
  of the two accounts. `AvailabilityAssumption`: the SKUs are numbered, there are at most as many workers,
  and neither the job nor the user is one of them. `ImportsAssumption`: pages and batches are not empty,
  and catalogues, files and stored tables are finite sequences. `MediaAssumption`: a
  media run has a product. `CallTimeAssumption`: the waits and retries of the client are not negative, and calls
  shorter than the safety margin of its tokens.

Of `catalogue_data`:
- `BatchAssumption`: a product is submitted once, and batches and polls are not 0 (100 and 60 in the code).
- `InstructionAssumption`: OTTO lists each product once, its pages are not empty, and, where only
  the size of a page tells the last one, full before the last. Batches, pages and polls are at least 1, as
  `max(1, …)` in the code makes them.
- `MappingAssumption`: OTTO names each attribute of a category once, and a known measure has a value.
- `SheetAssumption`: batches are not empty, the minimum score lies in the range of scores (0.62 by default), a
  name has finitely many words, the pages of the API are full before the last, and the scripts are
  run on sheets that exist.
- `CloneAssumption`: the EANs submitted are not blank; factories are numbered; profiles without id or
  name are not listed (the code leaves them out) and OTTO's ids are distinct.
- `VariationAssumption`: types, that the product has a first version of its attributes, and that no EAN of
  the pool is blank. Attributes of one name, values written alike, an EAN of the product's own that
  another has, and doubled EANs in a submission are all admitted.

`CatalogueAssumption` says something of OTTO: a group is named once in a catalogue, and any two catalogues
have a name in common. The proof of `CatalogueIsWhole` showed that this is needed. Two refreshes that meet are
kept apart by the unique names only: if OTTO replaced all of its groups between them, the second would find
no name of its own in the table, and both catalogues would stay.

Of the environment, only the hypothesis in brackets: a user who reserves by hand gives a name that is not
one of a task, else the pool cannot tell his reservation from a job's. Nothing is assumed of
OTTO's acceptance, of its counters, or of where exceptions come. What a property exempts instead
stands in its own text and in section 7.

### Only model-checked

Liveness (`SubmissionSettles`, `EnrichmentSettles`, `FillSettles`, `PrepareSettles`, `JobsSettle`,
`DataSettles`), and everything with ENABLED: fairness is out of the prover's reach. What the runs call
`violated` is of course not proved either.

## 7. Disagreements and observations

1. `pool_race`: `release` of an EAN that another session marks used at the same time
   writes "available" over "used" (`ean_pool_service.py:148`).
2. `submit_verdict`: the status is DONE when nothing is counted as failed, also when
   OTTO never finished answering or ended its task `failed` with `failed` 0
   (`products.py:5967`); the page announces success.
3. `submit_released`: when OTTO accepts some products of a job and rejects others, the job
   releases all of its EANs (`products.py:5979`), those of the accepted products included; the next
   job lists under them, against "One free/reserved/used EAN for variants" of the model's
   docstring. Nothing has to fail for this.
4. `enrich_chunk_rows`: `int(chunk.get("chunkId") or -1)` never finds chunk 0
   (`products.py:4208`), so no enrichment is ever concluded by its own jobs.
5. `fill_declared`: the creator page's route declares attribute fills stale and
   overwrites the document their jobs count in (`products.py:3487`).
6. `prepare_kept`: a heartbeat save that is in flight during the last save of the
   preparation puts the unfinished document over it (`products.py:1258`); five minutes
   later the next poll declares the prepared task failed.

### Observations

What the models had to follow or exempt, found while reading the code; none contradicts a
statement of the repository, and no run is spent on them.

- *Submission*: an exception at the XL request after the own account's acceptance, or of a poll, releases EANs
  that are listed (`products.py:6030`); one at the save behind a release releases the list a second time,
  when another job may hold its EANs (`LetGo`, `Loose` in `FactorySubmit`). XL may take products the own account
  has rejected, and their EANs are released too. A batch whose answer is `done` without
  `succeeded` and `failed` counts as a full success.
- *Availability*: if the save inside a worker's exception handler raises too, the worker is
  over, its sentinel stays in the queue and `join` hangs until the job is cut off.
- *Upload*: within a batch the indexes keep keys a row has given up, so one row of a
  file can overwrite another (`LostTo` in `ImportTasks`).
- *Delivery*: a request publishes a job for the first of its products only; a single object
  instead of a list raises after OTTO has accepted it; one job that always fails holds up
  all behind it; `app/infrastructure/rabbitmq.py`, which `app/main.py` imports, is not there,
  and nothing starts the consumer.
- *Routes*: a fill that waits more than 300 s for a worker is given up, and a second one can
  start while the first still has its job; two clicks that meet between look and save both get
  a job (`products.py:4518`), two users who meet likewise both get the task (`products.py:278`); an
  enrichment whose enqueueing failed says queued for ever.
- *Variant images*: a regeneration starts from the image generated before, not from the source;
  variants of a click whose enqueueing failed wait for ever.
- *Variations*: once the first value of an attribute changes, `generate` raises until the old
  source row is deleted. Products without variants are not compared with the identifiers of
  others' variants; a failed lookup of conflicts is skipped.
- *Prices*: what the first account has accepted stays there when the second refuses; a cleared
  price is set in the row and not sent.
- *Categories*: names longer than the 50 characters of the cache's context cannot be cached; the
  rollback expires the session and the labelling ends with the next row. Paging over a
  changing catalogue can skip a group or take one twice; a catalogue that is replaced as a whole between two
  refreshes that meet leaves the rows of both (`CatalogueAssumption`). Labels that one refresh commits
  are lost to another that had read the labels before.
- *Mirrors*: after one product has failed, the media run stops at the next; runs that overlap can leave
  the description rows of both; an empty answer of Afterbuy empties the factories.
- *Accounts*: a request cut off between its two commits leaves a user without a role.
- *Sheets*: importing a sheet again without replacing its rows erases names fetched from the API; replacing
  the rows of "xl" leaves their EANs in the mapping; a rebuild deletes and commits before it
  computes, and raises if a row it refers to was replaced meanwhile.
- *Clones*: EANs by position are off once variants have expanded a product; two products may be given
  the same EAN.
- *Preparation*: a product without CustomItemSpecifics makes the parser raise outside its `try`: the
  preparation fails and the other tasks go on unattended; a failed publication is not tried again.
- *Batches*: an answer without process id makes the batch "failed" with a failed count of 0, as does a task
  OTTO ends `failed` without the counter; the verdict of a submission looks at the count only.
- *Instruction language*: products are sent back whole, so edits made between their page and OTTO's
  work are overwritten; a run whose polls are exhausted still ends "done".

## 8. Not modelled

- *AI text* (`attribute_generator.py` and the generators beside it): prompts, parsing and
  normalisation of texts and of attribute values. What the rest sees of it, a result or a
  failure, is in `FactoryEnrichment`, `AttributeFill`, `ProductMapping` and `VariantImages`.
- *Uploads*: files written by one request and served by another, no shared state.
- *Application, configuration, logging, schema and migrations*: wiring and declarations.
- *Frontend*: its polls and clicks are actions of the models; its rendering is not.
- Queries, listings, filters and statistics: reads without effect.

Within modelled parts: retries of single HTTP calls (one step with its outcomes), the create
route's selection of products, tasks deleted while an enrichment or a fill works on them,
what a draft edits, several products of a preparation mapped at the same time (their rounds are
under `progress_lock`, but products that go on after the FAILED save of a job are left out), the normalisation of names and values (a map in the instance), the
fields of a payload that no check looks at, video of variants, and of the two mappings that
of EANs and that of names as one algorithm. Outside `FactoryPrepare` a save or a get of a
document is one step on one copy. `PROJECT.json` marks components "partly" where an
operation that changes state is missing, and its notes say which.

## 9. Plan

Done, in this order: `EanPool`, `EanAllocation`, `FactorySubmit` (composed with the
pool by EXTENDS), their proofs, `FactoryEnrichment`, `AttributeFill`,
`FactoryTaskStore`, `FactoryPrepare` (composed with the store by EXTENDS); then
the components of `worker_jobs` and `catalogue_data`, with `Counterpart` composed with
`ImportRows` and `ImportTasks` with `ProductTable`.

Next modules: the creation and deletion of an attribute-fill task beside its jobs; the
availability job behind `FactorySubmit` in one instance; the value normalisation of the
attribute generator as operators.

Proved since: the submission's verdicts and its refinement of `EanAllocation`, enrichment,
fill, preparation; `worker_jobs`: second callers, promised jobs, the market, progress,
copies, edits and types; `catalogue_data`: batches, instruction language, preparation, sheets, clones,
variants and types (section 6).

All safety properties of the passing runs are stated by theorems; the next ones are those of the next modules.
