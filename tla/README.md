# Shopping copilot: a verification project

TLA+ models of the shopping copilot (`src/src/shopping_copilot`, `src/scripts`),
checked with TLC on small instances and, for the central results, proved with
TLAPS for every value of the constants. Paths below are relative to the
directory that holds `src/`; package paths to `src/src/shopping_copilot/`, and
"the evaluation script" is `src/scripts/simulator/evaluate_full_pipeline_other.py`.

## The system

A simulated or real customer talks to the copilot in sessions of at most ten
turns. Each turn is understood by a language model, reduced into an explicit
intent, compiled to a query, answered from a catalog and recorded. The
repository holds the library, the batch pipeline that builds the catalog
releases and indices, and the scripts that measure the whole on recorded
conversations.

### Inventory

| Component | State | Operations | What is hard | What makes it correct |
|---|---|---|---|---|
| **Session store** (`session_context/store.py`) | entries with a snapshot, a lock and an active token; per transaction a state, owner, captured snapshot; per thread the sessions it is inside | `reset`, `get`, `turn`, `__enter__`, `commit`, `__exit__` | threads, nested turns, interrupts in the middle of `__enter__` and `commit`, validation outside the guard | no lost update, append-only history, locks returned exactly once, waiters served |
| **Session serialization** (`session_context/serialization.py`) | none | encode, strict decode | exhaustive strictness | round trip |
| **Intent state and reducer** (`session_context/reducer.py`, `validation.py`) | goal, preferences with identities, don't-care facets, version | `reduce_intent` over batches of operations | long sequences of operations, goal switches, identity reuse, bounds that meet, two commitments | committed preferences can be met together; an id denotes one preference for a session; adding narrows |
| **Semantic gateway** (`catalog/semantic/gateway`) | catalog-bound transactions with probe tokens | `preview`, `issue_probe`, `commit`, the replay of envelopes | tokens used twice or elsewhere, beliefs of another preview, two identity rules | what previews commits; beliefs are attested for exactly the stored intent; every committed session replays |
| **Query understanding** (`query_understanding`) | none between turns | `resolve`: model frame, plan, one repair, preview | an arbitrary model answer, order of operations around a goal switch, identifiers | a frame is carried out as it says or refused, and refused only when it cannot be met |
| **Query compiler** (`query_compiler`) | none | `compile` | numeric bounds | deterministic translation |
| **Retrieval** (`retrieval`) | loaded indices; models that are not thread safe | `search`, hard mask, three routes, fusion, diversity, `estimate` | relaxation, overlapping routes, empty pools | no excluded product shown, newest wish gives way, slates as long as possible |
| **Quality ranking** (`application/quality_ranking.py`, `retrieval/deepseek_ranking`) | none between turns | `rank` with a chain of fallbacks | one of several models failing | a final top-k drawn from what passed the masks |
| **Applications** (`application`, `src/starter/agent.py`) | sessions of the offline agent | `reset`, `respond` | degraded modes | an answer for every turn |
| **Evaluation agent** (`FullPipelineOtherAgent` in the evaluation script) | per session the context, last answer, last pipeline, reusable key, previous estimate; one lock for the local models | `reset`, `respond`, `last_audit` | stages that raise, stale caches, sessions competing for the models | versions chain, cached answers are right, models used one at a time, every turn ends |
| **Evaluation run** (`main`, `_run_session` of the script) | `turns.jsonl`, `sessions.jsonl`, `summary.json`, futures | start, `--resume`, collect, report | crashes between the three files, a conversation that raises, more work than workers | each sample once, rows agree with the turn log, the run ends |
| **Surface realizer** (`simulator/deepseek_surface.py`) | cache in memory and in a file, requests in flight, counters | `rewrite`, `prewarm`, `usage` | single flight among threads, failing requests and saves, crash while saving | one stored answer per message, same wording in every replay, whole file |
| **Semantic release and runtime, facets, categories** (`catalog/semantic`) | source files, seven bundles, lock files, releases | write, validate, load each bundle; publish and load a release | commands at the same time, files replaced one by one, files read again after validation, kills | what validates is one chain; a release is whole and immutable |
| **Product fact extraction** (`src/scripts/catalog_semantic/extract_product_fact_cards.py`) | a card file per product, three output files, a window of futures | start, `--resume`, extract, collect, report | kills between files, edited rows, exceptions the retries miss | files describe the run that wrote them, saved answers are not paid for again, every run ends |
| **Product facts, profiling, benchmark, other scripts** | files | batch jobs | none runs concurrently | pure computations |
| **Official evaluator** (`src/evaluator`) | none | scoring, `load_jsonl` | torn lines | scoring rule |

How they interact: `_run_session` runs in a pool thread, obtains each user
message from the surface realizer and calls the agent, which calls query
understanding, the compiler, the estimator, the retriever and the rankers one
after another and appends a turn record to its session. The agent of the script
keeps its own session objects, one thread per session; the session store is the
library's service for callers that share sessions among threads, and the
gateway's store wraps it. Query understanding plans operations that the gateway
previews against a catalog release, which a pipeline of commands publishes
beforehand from the raw catalog and reviewed files.

### Modules

| Module | Models |
|---|---|
| `SessionLog` | what the store promises: an append-only log per session, at most one open transaction, at most one turn each, readers only in between |
| `SessionStore` | `InMemorySessionStore`, `SessionTransaction` |
| `SessionStoreProofs` | theorems about `SessionStore`; that it implements `SessionLog` |
| `SurfaceRealizer`, `SurfaceRealizerProofs` | `DeepSeekSurfaceRealizer`; theorems |
| `EvaluationRun`, `EvaluationRunProofs` | `main`, `_run_session`; theorems |
| `AgentTurn`, `AgentTurnProofs` | `FullPipelineOtherAgent`; theorems |
| `IntentState` | preferences, their logical keys, `validate_intent_state` |
| `IntentReducer` | operations, their validation, `reduce_intent` |
| `CatalogGateway` | reserved and catalog rules, `preview` |
| `CatalogSession`, `CatalogSessionProofs` | the catalog-bound transactions of one session: preview, probe, commit, replay; theorems |
| `IntentPlanner` | from a model's frame to an ordered batch of operations |
| `QueryUnderstanding` | a session of turns: provider, plan, repair, commit |
| `QueryCompiler` | which preference filters and which one ranks, when to search |
| `Retrieval` | hard mask, routes and their union, final slates, as operators |
| `Recommendation`, `RecommendationProofs` | whole turns: understanding, compilation, search, ranking; theorems, also about the planner and the mask |
| `Publication`, `PublicationProofs` | the commands that write bundles and the release; theorems |
| `FactExtraction`, `FactExtractionProofs` | the extraction of product fact cards; theorems |
| `MC...` | instances for TLC: sets and symmetry for the cfg files |

The intent modules form a chain of `EXTENDS`: `IntentState`, `IntentReducer`,
`CatalogGateway`, from which `CatalogSession` branches off, and `IntentPlanner`,
`QueryUnderstanding`; `QueryCompiler` and `Retrieval` are operators over the same
intents, and `Recommendation` composes them with `QueryUnderstanding`.

Each cfg file is named after the module and the question. Operators named
`X_Something` directly above an operator `X` are slips of the kind a change to
the code could make; they are used nowhere in the specifications, and put in
place of `X` each makes TLC report the property it is meant for.

## How the models correspond to the code

### SessionStore

The variables are the fields of `_SessionEntry`, `SessionTransaction` and
`_ThreadState` under their names. A snapshot is the sequence of its turns, a
turn its number and its writer, because `commit` compares snapshots by identity
and validates them by the turns they append. A method is split wherever another
thread can get in between: `__enter__` into claim (lines 166-171), nested check
(173-178), registration (179), acquiring the lock (181), noting that
(182), and admission or rejection (183-218); `commit` into claim (223-233),
validation (236-253) and the swap (254-268), with the handlers that fail them;
`get` into begin, acquire, read.

An exception such as `KeyboardInterrupt` can come out of any statement of the
`try` blocks of `__enter__` and `commit`; inside the handlers, `__exit__`, `get`
and the line between registering a session and the `try` (179-180) it is not
modelled. At four places it makes a difference. Out of `acquire`, or once the lock is
noted, `EnterInterrupted` undoes what was done. Between lines 181 and 182 the
handler still reads `_lock_acquired` as false and `_close_resources` lets
nothing go: the lock stays held for good, and no later turn or `get` of the
session returns. After line 211 the state is `ACTIVE`, so the handler leaves
everything, and the caller's `with` never got the transaction whose `__exit__`
would release it (`EnterAdmitInterrupted`). The history variable `stranded`
names the transactions either has happened to, and the properties say what
becomes of their locks. Between lines 266 and 267 the new
snapshot is in place when the handler calls the transaction failed
(`CommitSwapInterrupted`): the turn is in the log although `commit` raised. Until then
`CommitInterrupted` leaves the old snapshot.

`CloseResources` is one step, because all it touches is its own thread's or
guarded by the lock it holds. `Drafts` are what a caller may try to commit: the
right snapshot, the same one, a misnumbered turn, two turns, a changed history.
Calls that only raise change nothing and have no action: `reset` of an existing
session, `turn` for a missing one, `commit` by another thread.

### SurfaceRealizer

A canonical message with its reply type is a key, a wording a model value. The
critical sections of `_lock` are single steps except the one that saves, which
is split at `write_text` and `replace` so that the process can die or the write
fail between: the temporary file is `Torn` while it is written. `Woken` is
`finished.set()`. `Restart` is the death of the process at any point followed by
`_load_cache`. `loaded`, `returned` and the three counters are history and
bounds and guard nothing else. An answer `_decode_response` refuses is paid for
like any other and ends the call in `GiveUp`: `api_calls`, as in the code, counts the
answers that are stored.

### EvaluationRun

A conversation is its turn number, whether the override was applied, its first
hit and its best rank; an answer is the rank of the target, 0 for none. Each
start is with or without `--continue-after-hit`. `Turn`
is one round of `_run_session`'s loop, with the line it logs; `Raise` is
anything in it that raises. `Collect` is one iteration of `as_completed`,
`Leave` the exception of `future.result()`, `Fail` the end of the pool's `with`
block, which waits for queued work too. `Crash` kills the process and leaves
the files. `Start` is `main` up to the pool, with `--resume` when logs exist; a
`Start` that would exit because nothing is selected changes nothing. Lines are
appended whole: a line torn by a crash is outside the model (it is listed among
the hazards). Scripted conversations are not modelled.

### AgentTurn

The per-session variables are the fields of `_SessionRuntime` and the local
variables of a running `respond`; an intent is its version, and a slate or a
pipeline is named by the turn that computed it. Each stage of `respond` is a
step that succeeds or raises; a stage under `_local_model_lock` is two, taking
the lock and returning from it. `FailedTurn` is `_failed_turn` with
`_advance_context`, `Reuse` is `_reuse_noop_turn`, `ComposeRaises` the composer
raising outside every `try` block. Each session is driven by one thread that
calls `reset` and `respond` in sequence, as `_run_session` does.
`coordinated` says whether the agent has a ranking coordinator, whose models are
not behind the lock.

### IntentState, IntentReducer

A preference is its logical key (facet, operator, values, text, commitment,
source, interpretation confidence) with an id. The confidence is compared and never
computed with, so it is a member of a set of numbers; two wishes that differ only
in it are different ones, for the reducer as for the planner, and a batch may drop the
one and bring the other. Evidence text, profile
priors and turns of origin are left out, because the logical keys the reducer
compares do not have them. An id is
the triple of turn, operation and item that `p_<t>_<o>_<i>` spells, so the text
order and the numeric order of ids are two operators. Validators and reducer are
functions of the state and the batch, in the order of the code, without
recursion: `Reduction` folds `Step` over the batch as a recursive function.
`OperationValid` is what `validate_state_update_batch` demands of one operation,
`Permitted` what `_resolve_identity` and the handlers refuse.

### CatalogGateway, CatalogSession

`Preview` returns what `preview` accepts and the intent it gives. Committability
is a set of pairs of facet and scope that the release allows; the reserved
category and the derived facets follow `_validate_reserved_preference`. In
`CatalogSession` a caller builds a batch operation by operation, previews it, may
have a probe attested by a token, and commits once; `Replayed` is the decoding
of the envelope. Tokens of abandoned transactions stay behind. Because
`SessionStore`'s lock lets one transaction in at a time, the module has one.

### IntentPlanner, QueryUnderstanding

The planner's stages are operators named after its methods: `FrameError` is the
chain of early errors, `BaselinePrefs` the intent after a switch,
`Reused`/`Fresh` the matching of items with active preferences, by all their
logical key says, so that a wish repeated with another confidence is a second wish beside
the first, `Broadened` the
dropped category, `PlannedOperations` the batch in the order of facets. The
model that fills frames is an adversary: any subset of kept refs, any goal, any
new items of small sets, malformed answers, wrong versions, provider failures
and timeouts. One repair is granted, with a new frame.

### QueryCompiler, Retrieval, Recommendation

Scores are left out: an order by an embedding or a language model may be any
order, so a list cut at k is any subset of that size. What is kept is what does
not depend on scores: which products match a constraint (a price interval that
lies within, overlaps or misses the bound; a value with or without evidence),
the order in which inclusions are relaxed, the budgets of the three routes and
the refill of their union, and which set each ranker in the chain of fallbacks
may show. In `Recommendation` a turn's intent is recorded before the search, as
in the code, so a failing search keeps it; `shown` is what the user reads and is
cleared at the next message. Re-showing an earlier slate after a failure is
`AgentTurn`'s subject.

### Publication

Commands are operating-system processes. A recipe lists what a command does in
order: lock, validate (`check`), load, read, build, replace the artifacts one by
one, sign with the manifest; a release validates, decodes, hashes, locks,
copies, loads the copy and renames. `XRebuild` is the `_rebuild_...` function
that writing and validating share, so `Valid` is defined from the same recipes.
A content is the function from source files to the revisions it derives from;
hash pins agree exactly when provenances do. That an edit changes everything
derived from it is the one idealisation: an edit without effect on an artifact
would make fewer pins stale. `Fail` is any exception, whether a check that does
not pass or an interrupt; `Kill` leaves the lock file. Reviewers edit source
files at any time, against the bundles they see.

### FactExtraction

A row is its revision (what `source_id` hashes), a card the row and the
extractor (model, prompt and language version) it was made for; a card from
before warnings were recorded is `legacy` and written again when it is reused.
The main thread is a cycle of filling the window, waiting and collecting what is
done (`Submit`, `Filled`, `Wait`, `Collect`), then one step per output file. A
worker's `_extract_one` is `Take`, which looks for a card, then requests and
saves; `_write_json` is `Open`, the temporary file there in part, and `Write`,
the replace. `Escape` is an exception outside the tuple the retries catch, such
as a body that ends early; it reaches the main thread through `result()`, the
pool still serves what is queued (`Leave`), and no file is written. `Kill` covers
an exception while the three files are written. `saved` and the fields of a
written sidecar that name its run are history. Lines hold different products,
and one process at a time works on an output directory.

## What the runs check

| Run | Instance | Shows |
|---|---|---|
| `store` | 2 threads, 2 sessions, 2 transactions, turns up to 2, 2 sessions per thread | types, `LockDiscipline`, `NoLostUpdate`, `NothingLeftBehind`, refinement of `SessionLog`, `EveryWaiterServed` |
| `store_nested` | 2 threads that keep one session open and read the other | violates `NoCircularWait`: see below |
| `surface` | 3 threads, 2 keys, 2 wordings, 3 calls, 2 attempts, 1 failed save, 1 restart | types, `SingleFlight`, `GeneratedOnce`, `WordingDurable`, `FileKept`, `EveryRewriteReturns` |
| `evaluation_resume` | 2 samples, one with an override, 2 turns, ranks 0..2, 2 workers, 2 starts, each with or without `--continue-after-hit`, 1 exception | `OneRowPerSample`, `RowsMatchTurns`, `SummaryComplete`, `RunEnds` |
| `evaluation_failure` | the same, 1 start | violates `CompletedSessionsAppended` |
| `agent_history` | 1 session, 2 messages, 4 turns, 2 attempts, resets | `VersionsChain`, `ReuseFaithful`, `EstimateOfATurn` |
| `agent_models` | 2 sessions, 2 turns each, 2 attempts at understanding | `ModelsSerialized`, `EveryTurnAnswered` |
| `catalog_session` | 3 transactions, batches of up to 2 of 3 operations, price, colour and category, two confidences, one probe | `CommittedIntentSatisfiable`, `IdsDenoteOnePreference`, `ReplayReproducesIntent`, `PreviewedBatchCommits`, `AddNarrows`, `DroppedStaysDropped`, `BeliefsAreAttested` |
| `recommendation` | 2 turns, frames of up to 2 new items, two confidences, 5 products, 2 transparencies | `FinalIsWhatTheFrameSays`, `RefusedOnlyIfUnsatisfiable`, `CategoryKept`, `SlateHonoursIntent`, `FullSlate`, `NewestGivesWay` |
| `understanding_ids` | turns 9 to 11, two wishes | violates `OmissionDeletes` |
| `publication` | 2 processes at a time, 3 commands, 1 edit, 1 kill | `ChainVouched`, `TornOnlyByInterruption`, `ReleaseWholeAndImmutable` |
| `fact_extraction` | 2 products, 1 or 2 workers, 2 attempts, 2 starts with or without `--resume`, 1 edit, an old card | `OutputsFaithful`, `SavedIsNotAskedAgain`, `RunEnds` |

**Bounds.** Two transactions of the store are one that works and one that waits
for it, or two nested ones; two turn numbers give the right one and a stale
one; the safety properties of the store are also proved for every number. Three
realizer threads are an owner, a waiter and one that arrives when the owner is
leaving; three calls let a key be asked for again after a failure or a restart.
Two starts are one interrupted run and its resumption, at every point of it.
Four turns hold an answer, a repetition, a failure or an update in between, and
another repetition. Two sessions of two turns compete for the model lock in every
stage, with a retry each; the theorem is for any number of sessions. Three
transactions of a catalog session give an intent, a change of it and a change
of that, so that an id may be removed and come back; price bounds meet at one
point of a grid of half units. Two turns of a recommendation are an intent and
its change by any frame; the five products lie on every side of the price
bound, of the colours and of the category, and the pool is smaller than the
catalog. Three commands of the pipeline are a release with the two rebuilds
before or beside it, or a chain of three after the last approval is edited.
Two starts of the extraction are one interrupted at any point and the next,
with the row edited before, between or during them. Two lines never fill the
window of futures while lines are left: that the window is never overfilled, and that
the main thread never waits on an empty one or stops with lines left, is a theorem
for any number of lines and workers (`WindowAlwaysHolds`).

**Fairness.** A thread inside a call keeps running it and a `with` block ends,
since `__exit__` runs however the body leaves: weak fairness. A
`threading.Lock` serves its waiters in no particular order, so acquiring one is
under strong fairness: a waiter that finds the lock free again and again gets
it. Interrupts, resets, new calls, crashes and restarts are never required to
happen. The evaluation's workers and its main thread keep running while the process
lives, since the pool's `with` block waits for all of them. The realizer's calls are bounded, requests time out and retries are
counted, so weak fairness suffices there. So it does for the extraction's workers and
main thread.
Nothing is assumed of `__exit__` for a stranded transaction, because no `with`
block has it. So `EveryWaiterServed` excepts waiters of a session whose lock an
interrupt stranded, and is conditional on no thread nesting two sessions: with
nesting it fails for the reason `store_nested` shows.

**Deadlock.** Runs with `CHECK_DEADLOCK FALSE` really stop: `store` and
`store_nested` include threads that nest sessions in opposite orders and wait for
each other and threads that wait for a stranded lock, and in the others the bounded calls, starts or turns are used up.

### Disagreements between code and documentation

- `store_nested`: the store's docstring (`store.py:44`) promises to "serialize
  turns per session while allowing independent sessions to progress". Two
  threads that each keep a turn of one session open and read the other with `get`
  (`store.py:100`) wait for each other for ever; only a `get` or a turn of the same
  session is refused. The run has two transactions, so its threads meet in `get`; the
  acquire of a nested turn (`store.py:181`) is the same lock.
- `evaluation_failure`: "every turn and completed session is appended to JSONL"
  (`src/README.md:241`). When one future raises, `main` leaves the loop, the
  pool still finishes the other conversations, and their rows are dropped.
- `understanding_ids`: the planner sorts the ids of removals, replacements and
  goal switches as strings (`planner.py:222`, `783`, `846`), where
  `session_context/validation.py:513` requires numeric order. Wishes noted in
  turns 9 and 10 that are dropped together are refused, and an omission is not
  the deletion the planner's protocol says it is. Sessions have at most ten
  turns in the evaluation, where ids of turn 10 are never removed later; the
  library itself has no such bound.

## What is proved

The theorems hold for all threads, sessions, processes, catalogs, budgets,
batches and bounds. They rest only on the named assumptions on the constants,
which TLC evaluates for every instance: that a default such as None or `NoText`
is not one of the real values, that the registry and the catalog are finite
(`FacetsAssumption`, `CatalogAssumption`), that budgets are what
`RecallBudgets` accepts, that the items, batches and probes offered to
`CatalogSession` have the shape the decoders give them (`SessionAssumption`),
and that the items of a frame are on a facet of the registry or on none, hard
or soft, and that their amounts are numbers and their confidences among the
confidences (`ItemsAssumption`).

An invariant that a run checks is seldom inductive as it stands. For each
component the strengthening comes first below, then what follows from it.

- **SessionStore.** `TypeCorrect`, `LocksDisciplined`, `NoUpdateLost`,
  `NothingIsLeftBehind`, `StoreImplementsLog`. `LockDiscipline` alone is not
  inductive: that a transaction releases its own lock needs to know which thread
  is inside which transaction's method and that an owner is unique, which is
  what the strengthening `Inv1`, `Inv2` say step by step; `Inv3` adds that an
  active token belongs to the holder of the lock and that a session's snapshot
  is the captured one until its holder swaps it; `Inv4`, that the sessions a
  thread has registered are exactly those of its engaged transactions, one for
  each, and that a thread is still inside the `__enter__` of a transaction that
  is being entered: so one that is over is registered nowhere. What
  `LocksDisciplined` says of interrupts is what the code does: a transaction keeps
  the lock after it is over only if it was interrupted between taking the lock and noting
  it, and `NothingIsLeftBehind` is about the flag, the token and the thread's set,
  not about that lock. For the refinement, turns are written by transactions whose
  commit has ended, whether it returned or raised (`Written`), so the open one writes
  once (`NotWritten`), which is `SessionLog`'s guard. Each action maps to one step of
  the log or to a stutter.
- **SurfaceRealizer.** `RealizerTyped`, `OneFlightPerKey`, `StoredOncePerKey`,
  `GivenWordingsSaved`, `FileOnlyGrows`. The invariant relates the cache, the
  temporary file and the file by where the saving thread is: the file extends
  what was loaded, the cache extends the file, and while nobody saves and no
  save failed the two are equal. The count of stored answers needs the
  cardinality of the new keys to grow by one per stored answer, from
  `SingleFlight`.
- **EvaluationRun.** `CountedOnce`, `SummaryCountsAll`, `RowsTellTheLog`. From
  `Booked`: each sample's row is either among those read at the start, in which
  case it has no future, or appended when its future is collected. From
  `Telling`: a running conversation's counters, a future's result and a row are
  what folding the lines of its last run in the turn log gives, also when a
  killed run left lines of the same sample before them. The attempt at the
  proof showed that a row tells of an override only if overrides are due after
  the first turn, since the code looks one turn ahead: `Counts` says so, as the
  recorded samples do.
- **AgentTurn.** `ModelsUsedByOne`, `VersionsOfTurnsChain`,
  `RepeatedAnswersFaithful`, `EstimatesAreOfTurns`. `HistoryStep` reduces every
  step to a reset, an appended turn or neither, and `ChainGrows` says that
  appending to a chain keeps it one. The invariant `Cache` ties the reusable key
  and pipeline, the previous estimate and the local variables of the running
  `respond` to the turns of the history they come from.
- **FactExtraction.** `OutputsDescribeTheirRun`, `NothingSavedAskedAgain`,
  `WindowAlwaysHolds`. `Inv`
  relates a line's future to its card (a success has the run's own card, since
  nobody else writes it) and the history of saved answers to the card files;
  `BookInv` adds that while the main thread feeds the pool every selected line is
  to come, in a future, or counted once, and that the files are dated in the
  order in which they are written. The counts of the report follow from the
  cardinality of a disjoint union.
- **CatalogSession.** `AlwaysTyped`, `IdsKeepTheirMeaning`,
  `DroppedNeverReturns`, `BeliefsStayAttested`, `PreviewedAlwaysCommits`,
  `ReplayAlwaysReproduces`, `AddsNarrow`, `CommittedAlwaysSatisfiable`. These
  are about sessions, batches and logs of any length. The invariant `Authority`
  has four parts: `Typed`; `Identity`, that ids and meanings denote each other in
  what a batch knows, and that all ids of the session precede the next one a
  batch allocates; `Previewing`, that the committed intent is allowed and that
  the open batch is at its reduction, valid after each operation and within the
  raw store's lifetime rule; `Sayable`, that preferences say what callers can
  say. `PreviewedAlwaysCommits` is where two rules of identity meet: the
  reducer's table covers the open batch, the store's lookup the whole session.
  `CommittedAlwaysSatisfiable` constructs a value: the strongest bound of a
  side exists because there is one per commitment, and the lower bound itself
  or the half unit above it satisfies both sides. `Attested`, for the beliefs,
  is inductive beside the rest.
- **Publication.** `TornOnlyWhileReplaced`, `ReleasesAreWhole`,
  `RuntimeVouchesForChain`, for any number of processes, commands, edits and
  kills. `Locking` says who holds a lock file, how far the artifacts of a bundle
  are replaced at each step of its holder, and that a torn bundle has such a
  holder or was interrupted; `Copying`, which files of which names a release has
  copied at each step; `Provenance`, which sources the content of each file and
  of all that a process has read derives from. A recipe is a concatenation, so
  the proofs first establish the place of each kind of step in it. The validation of a
  bundle is a recursive function over the chain, unfolded for the runtime; every
  pair of bundles then agrees because both agree with the manifest of the
  capabilities' approval, which derives from all their common sources.
- **Recommendation.** `SlatesHonourIntents`, `SlatesAreFull`, `NewerGivesWay`,
  `CategoriesStay`, `FinalsAreWhatFramesSay`, `RefusalsAreDue`,
  `EarlyRefusalsAreDue`. `Understood` says that the intent is within the rules, from
  which its requirements are finitely many, and that its ids are older than the
  turn; the same of an accepted plan, but for ids of the turn. The mask is a loop
  over the requirements in the order of their ids (`Masking`): what it leaves
  meets the exclusions, is empty only if they empty the catalog, and a
  requirement it relaxed cannot be met with those it kept. `OlderKept` compares
  the masks of two intents: they agree on the requirements both begin with.
  `Searched` adds that candidates and slates are eligible and as many as the
  budgets and the eligible products allow, whichever routes overlap
  (`RecalledIs`, `SlateIs`). For `CategoriesStay` every list the planner makes is
  followed through its loops (`StructuresListed`, `RoundsSteered`), so that a
  switch in a plan is to a different goal, and the gateway's rule for the
  reserved facet is shown to leave a category at each step of the reduction
  (`OperationKeeps`).
  `FinalsAreWhatFramesSay` follows an accepted plan to its end. `TextLess` is a
  total order of ids, because different numbers have different decimals
  (`DigitsDiffer`), so sorting a set gives each of its elements a place once
  (`SortedPrefsList`). Round by round of
  the loop over the facets the reduction is at the target on the facets that were handled
  and the baseline on the others (`RoundMoves`, `RoundRests`), then wish by wish
  on the preferences without a facet (`WishesReached`). `PlanAttains` joins them:
  a plan reaches the planner's target (`Attained`), and `AttainedSays` that this
  target is what the frame says. `Framed` carries both from the answer to the
  commit.
  `RefusalsAreDue` is the converse: when is a plan refused that could have been
  carried out? Never, as long as the ids of the intent sort as texts in their
  numeric order (`Textual`): then the gateway refuses a plan only if what the
  frame asks for is not a valid intent of the release. The condition is needed,
  since without it `understanding_ids` finds such a refusal, and the theorem says
  that this is the only cause: whatever the facets, kinds of bounds, reuse of
  preferences, goal switches and allocated ids. `EarlyRefusalsAreDue` is the case
  where the numbers in the ids have one digit. The proof goes through every rule
  the plan could break on its way. Validity is a matter of meanings, facet by
  facet (`SoundOn`), and weakening what is said keeps it (`WeakerMeets`); so each
  intermediate state, which is at the target on some facets and at the baseline on the
  others, is valid because both ends are (`SettingValid`, `ReachedValid`), and no
  order of the facets can fail. `Carries` then adds operation by operation that
  its ids are fresh or denote what they denoted (`Dated`, `Introduces`), that its
  tuples are canonical, and that switches, replacements and clears come in the
  order the reducer and the reserved facet ask for (`Lawful`, `CarriedInOrder`);
  `PreviewAccepts` joins them. `Uttered` is the invariant: preferences are worded
  as the decoder words them and every judged refusal was due.

**Recursion.** Masks, reductions, replays and plans are recursive functions over
sequences. The library's induction takes an operator as its parameter, which
the provers cannot instantiate; instead `SetInduction` proves induction for a set of
numbers, from the well-foundedness of `<`, and each function is unfolded by
showing that one with its equation exists (`Loop`, `MasksExist`,
`ReductionExists`). This is why sequences are picked from with `Only` and not
with the library's `SelectSeq`, whose recursion the provers cannot see.

**What an answered turn is worth**, put together: a slate violates no exclusion
of the intent the turn was recorded with, that intent can be met, its
identities mean what they meant when they were introduced, and the release it
was judged by derives from one version of the reviewed files.

**Only model-checked.**

- The liveness properties (`EveryWaiterServed`, `EveryRewriteReturns`,
  `EveryTurnAnswered`, the two `RunEnds`): the proof system does not handle
  fairness.
- `RefusedOnlyIfUnsatisfiable` beyond the condition of `RefusalsAreDue`, where it
  does not hold for every value of the constants: from turn ten on the text order
  of ids gets a well-formed frame refused. The run `recommendation` checks it
  unconditionally on turns of one digit.

## What is not modelled, and why

Numbers: the estimator's arithmetic, embeddings, scores, statistics of beliefs;
rankings by them are any ranking. Texts: prompts, the JSON of tool
calls, wordings, reports; serialization is a pure conversion, of which the
replay of an envelope is modelled. What the release builds compute from the
catalog, the category proposal, the runtime grounder, profiling, product facts
and the derivation of benchmarks are sequential computations without state.
Directives, feedback and clarification of query understanding, the legacy
retrieval strategy and the offline agent are left out.

Further limits: two processes sharing a reply cache; lines torn by a crash;
scripted conversations; a context that cannot be encoded; the coordinator's own
use of its models, which is outside the lock but which the concurrent
evaluation is built without. A run of the evaluation killed between its last row
and `summary.json` never gets its summary: `Start` selects nothing then. At one
transparency both budgets of the routes may round up and leave the facet route
none, which `RecallBudgets` refuses: the repository's policy leaves it dozens, and
`BudgetsAssumption` asks for the strict margin. The
docstrings of the pipeline call the replacement of a bundle atomic; it is not,
and `TornOnlyByInterruption` states what holds instead.

## Plan

In the order of importance:

1. `SessionLog`, `SessionStore`, proofs and refinement — done.
2. `SurfaceRealizer`, `EvaluationRun`, `AgentTurn` with proofs — done.
3. `IntentState`, `IntentReducer`, `CatalogGateway`, `CatalogSession` with
   proofs — done.
4. `IntentPlanner`, `QueryUnderstanding`, `QueryCompiler`, `Retrieval`,
   `Recommendation` with proofs — done.
5. `Publication` with proofs; `FactExtraction` with proofs — done.
6. What could follow: the sessions of the offline agent (`application/offline`), a
   small sequential machine without the hazards above.
