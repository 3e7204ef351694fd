# TLA+ verification of BTX Omni Prospect

BTX Omni Prospect is a FastAPI backend (`backend/src/btx_omni`) with a web client
(`apps/web`). It collects public and commercial signals about accounts, turns them into
work for sellers, and answers questions with a language model. This directory models the
parts of it in which several processes, requests and providers work on the same rows, or in
which what is shown has to agree with what was read; model-checks them with TLC; and proves
what matters most with TLAPS.

Paths below are relative to `backend/src/btx_omni/` unless they begin with `docs/`, `backend/`
or `README.md`, which are those of the repository.

```
tlc -config MCResearchJournal.cfg MCResearchJournal.tla     # any run of section 3
tlapm ResearchProofs.tla                                    # any *Proofs module
```

## 1. Inventory

Three kinds of processes share one PostgreSQL (or, for development, SQLite) database:

* the **API** (`app.py`, `api/`): synchronous handlers on a thread pool, and one streaming
  endpoint. Every request opens short transactions on a connection pool; nothing is locked
  between two transactions of a request;
* the **Monitor worker** (`monitor/worker.py`): a one-shot process that a scheduler starts.
  It takes the operational lock, collects sources, investigates, explains, and exits;
* the **database**, which ends a session or aborts a statement whenever it has to.

The language provider, the public web and the procurement APIs are called between
transactions: they may take their whole timeout, fail, or answer after somebody else has
taken the work over.

| Component | State it keeps | Operations | Works with | Hard behaviour |
|---|---|---|---|---|
| Research journal `monitor/research_state.py` | a run row (status, lease, attempts, result), its step rows | `acquire`, `start_step`, `complete_step`, `finish`, `record_publication` | the coordinator | leases that expire during a call, clocks of several workers, crashes with a call admitted |
| Research coordinator `monitor/research.py` | locals of `investigate`; all else is in the journal | `investigate` | journal, provider, public fetch | kill at any point, lease lost at any call, budget across attempts |
| Operational lock and worker `monitor/repository.py`, `monitor/worker.py` | an advisory lock of a session, heartbeat and watchdog threads, the time that is left | acquire, beat, release, hard deadline; the stages of a cycle | every scheduled stage | a session lost while collecting, hung calls, an unlock that fails, a budget of time shared among sources |
| Procurement collection `monitor/sources.py`, `procurement.py`, `service.py` | a checkpoint per query, source versions | `collect_resumable`, `persist_snapshot`, `persist_procurement_checkpoints` | SAM.gov, USAspending, operational endpoints | pages that shift, budgets, two transactions, overlapping collectors |
| Monitor collection `monitor/service.py`, `clustering.py` | clusters and rejections in memory; rows of events and clusters | `collect`, `restore`, `persist_snapshot` | adapters, repository | memory is ahead of or behind the rows; an exception in the middle of a run |
| Versioned assessments `monitor/repository.py`, `briefs.py`, `business_briefings.py`, `technical_fit.py` | current versions per context, the cached synthesis | decompose, assemble, synthesize, publish | worker, provider, API | read-then-write by several writers; caches keyed by hashes of what changes |
| Candidates and promotion `monitor/candidates.py`, `promotion.py` | candidate rows, durable accounts and programs, the catalog of each process | collect again, promote, compose the catalog | collection, API | stale catalogs, promotions that overlap, a sighting that resets a review |
| Actions `modules/work/service.py`, `persistence/actions.py` | an action row with a version, subtask rows, audit | `create`, `edit`, `transition`, `decide_approval`, `request_approval`, `change_subtask` | API | reads on three connections, optimistic versions, retries |
| CRM sample proposals `modules/work/crm_proposals.py` | events in the audit of an Action | `preview`, `decide`, `execute_sample` | Actions, commercial data | data that changes between approval and execution, retries |
| Suggestion feedback `persistence/work_feedback.py` | a chain of feedback per suggestion | `append`, undo | API | replays, tabs that overlap, limits |
| Conversations `persistence/omni_conversations.py`, `omni_runs.py`, `api/omni_chat.py` | a conversation with a version, receipts, feedback | chat, rename, delete, rate, list | provider, assistant | every request reads and writes in different transactions, minutes apart |
| Omni memory `persistence/omni_memory.py` | preferences, create receipts | `save`, `delete`, `list` | assistant | retried creates after a deletion |
| Assistant `modules/assistant/` | the referent of the last answer, the receipt of a question | `ChatAgent.answer`, `OmniOrchestrator.answer`, `OmniService.answer` | provider, all read models | bounded loops with cancellation, follow-ups on records that changed, words that outrun the facts |
| Provider calls `persistence/ai_usage.py`, `ai/gemini.py`, `modules/intelligence/` | a receipt per call, governed explanations | `reserve`, `complete`, explain, narrow, draft | every provider call | leases that expire, malformed answers, cooldowns |
| Market series `persistence/market_series.py`, `modules/markets/service.py` | vintages, pointers, refresh runs | `refresh`, `store` | worker | refreshes that overlap and end in another order |
| Communications `persistence/communications.py`, `modules/communications/` | drafts with a version, audit | create, edit, review, preview, send | API, provider | reviews of what has changed, retried creations |
| Federal projection `modules/federal_procurement.py`, `federal_opportunity_routing.py` | kept assessments | project, route, list | worker, API, collection, imports | reads at several moments, kept rows that other pages read |
| Scoring, alerts, Today `modules/scoring/`, `alerts/`, `priority_ordering.py`, `command_center.py` | none | pure functions of what is loaded and of the time | API | missing factors, ranges, ages at the boundaries |
| Route search `modules/relationships/routes.py` | a stack, four bounds | `search` | API | cancellation, deadline and limits at any edge |
| Sessions, imports, planning, itineraries, other projections | rows, mostly versioned | CRUD, reads | API | see section 6 |

What makes each component correct is what its properties say (section 4). `PROJECT.json` lists all
components with their status, and the hazards of the code line by line with the properties that
look at them.

## 2. Modules

| Module | Models | Composed of |
|---|---|---|
| `ResearchRun` | what a research run promises: bounded attempts, evidence that only grows, a final outcome | abstract specification |
| `ResearchJournal` | the journal's transactions under the most general callers | refines `ResearchRun` |
| `ResearchCoordinator` | `investigate` in several workers | extends `ResearchJournal` |
| `OperationalLock` | lock, session, heartbeat, watchdog, process | |
| `WorkerCycle` | sources, stages, time, report and exit code of one of several workers | extends and refines `OperationalLock` |
| `ProcurementCollection` | windows, pages, budget, checkpoints of overlapping collectors | |
| `MonitorCollection` | events and clusters, in memory and in rows, of overlapping processes | |
| `EventBriefing` | one event from its source revision to a published brief | |
| `VersionedRows` | the three ways in which numbered versions are written | |
| `CandidatePromotion` | candidates, accounts, programs and catalogs in two processes | |
| `FederalProjection` | notices, awards, kept assessments and the pages that show them | |
| `WorkItem` | one Action and the concurrent requests on it | |
| `CrmProposal` | the CRM workflow on that Action | extends `WorkItem` |
| `SuggestionFeedback` | the chains of feedback of a user | |
| `Communications` | drafts, reviews, retried creations | |
| `OmniConversation` | one conversation, its receipts and feedback, overlapping requests | |
| `OmniMemory` | preferences, receipts, requests that arrive late and again | |
| `ChatAgent` | one question to the conversational agent | |
| `OmniRouting` | the turns of a deterministic conversation and what they refer to | |
| `OmniAnswer` | one question to Omni from request to recorded answer | |
| `AiBudget` | receipts and calls of the provider budget | |
| `GovernedOutput` | what is made of a provider's answers | |
| `MarketSeries` | overlapping refreshes of public series | |
| `CustomerRisk` | the risk index as facts become known | |
| `TodayQueue` | the seller's queue as days pass | |
| `RouteSearch` | the bounded search of routes, edge by edge | |
| `ResearchProofs` | theorems (section 5) about the journal and, in a second part, the coordinator | extends `ResearchCoordinator` |
| `WorkerCycleProofs`, `EventBriefingProofs` | theorems | each extends the module it is named for; the cycle's include those of the lock |
| `ProcurementProofs` | theorems | extends `ProcurementCollection` |
| `WorkItemProofs` | theorems about an Action and the CRM workflow on it | extends `CrmProposal` |
| `MonitorProofs` | theorems, a section per component | extends `MarketSeries`, `VersionedRows`, `MonitorCollection`, `CandidatePromotion` |
| `AssistantProofs` | likewise | extends `AiBudget`, `OmniConversation`, `OmniMemory`, `SuggestionFeedback`, `ChatAgent`, `OmniRouting` |
| `CommercialProofs` | likewise | extends `Communications`, `GovernedOutput`, `FederalProjection`, `OmniAnswer`, `RouteSearch`, `CustomerRisk`, `TodayQueue` |
| `MC*` | instances for TLC | see section 3 |

`MCComponents` and `MCCommercial` extend components that share no row: a behaviour is one of *one* of
them while the others stay as they begin, so that their state spaces add up and do not multiply. `MCWork`
does the same with the two sides of an Action, `MCResearchJournal` with callers of the journal and with workers
that investigate, each side a run of its own, and `MCProgress` with the two parts of the monitor that have to get on.

### How state and actions correspond to the code

A comment that begins with "Mutant:" marks a definition that no specification uses: a plausible
mistake in the definition that follows it. Replacing that definition by it makes TLC find the
violation of the property that `PROJECT.json` names under `mutants`.

**`ResearchJournal`.** `run` is the row of `monitor_research_runs`, `steps` the sequence of
`monitor_research_steps` rows (a step's number is its index, which is what
`max(number) + 1` yields). Each transaction of `MonitorResearchJournal` is one action:
`Acquire` with the interruption of admitted steps, `StartStep`, `CompleteStep`, `Finish`,
`RecordPublication`. `Owned` is `_owned`. A reading of the clock is any value at most `Skew` behind
or ahead of the real time: callers read it before the row lock is granted, each from the clock of its own host. Tokens (`uuid4`)
are the number of the attempt that drew them. Callers are unconstrained: any token that was
ever issued, at any time. `by` and `closed_by` of a step are history, kept for
`ClosedByItsWorker`.

**`ResearchCoordinator`.** A worker's `pc` is the next journal call of `investigate`; between
two calls it waits for the provider, and `CTick`, `Crash`, and the steps of other workers may
happen. `LoseLease` is the `ResearchLeaseUnavailable` caught in the loop; `AwaitLease` is the
one raised by the last decision, which is outside the `try` (`monitor/research.py` 170-193) and
leaves `investigate` as an exception. Each worker's clock is `Offset` ahead of the slowest. Its lease lasts for the
time it is given and `Margin` (`LeaseFor`), its deadline is on the monotonic clock (`TimeFor`). The workers in `Prompt` spend no more than `Timeout` in
a call and `Delay` between two: `CTick` does not pass the moment at which such a worker is `Overdue`. The others may be silent for any time. Documents are abstracted to whether they have passages,
choices to their tool and to whether they are accepted.

**`OperationalLock`.** `owner` is the advisory lock, which belongs to a database session;
`EndSession` is where it goes when the session does. `Beat`, `Hang` and `Return` are the
heartbeat thread, `JoinTimeout`, `Join`, `Unlock` and `UnlockFails` the ways through the
`finally` of `operational_lock`, `HardDeadline` the watchdog (and a process killed from
outside). The stages of a cycle are one step, `EndCycle`. `exclusive` is history.

**`WorkerCycle`.** One worker, `Observed`, goes through `run_worker` stage by stage; the others are
steps of `OperationalLock`. `left` is the time to the deadline, in
abstract units in which the minimum start of a source, a provider timeout and the budget differ.
`SourceTime` is the share given to a source; only what is read is held to it (`monitor/service.py` 176-194), and what keeping it takes afterwards, look-ups
of retained versions, normalisation and two transactions (195-483), is bounded by nothing. `storing` (history) adds up what it took. `OptionalItem` one item of an optional stage, which
begins only with a provider timeout left; `ExitCode` is the expression of `main`. `EndCycle` of the lock
becomes many steps: `LockIsKept` contains the refinement.

**`ProcurementCollection`.** `checkpoint` and `stored` are the durable rows, `posted` and `day`
the source. A collector reads all checkpoints (`Begin`, which also rolls the windows when every
sibling is complete), asks for pages in the order of the code's sort (`IsNext`), and persists in
the two transactions of `MonitorService.collect` (`SaveSnapshot`, `SaveCheckpoints`); it may die
before, between and after them (`Abandon`). An answer that is an error ends a query's part in the run and is recorded (`RateLimited`, `Fail`); an
exception that `sources.py` 676 does not catch, as when there is no answer in time, ends the run and leaves no checkpoint (`Unanswered`). A retry time is abstracted to a query being left out of a
run (the set `work` in `BeginWith`). `posted` has the notices in the order in which they came; a listing and a page of it are sets of
positions in `posted`, and the place of a notice is the number of newer ones in the listing as it is when
the page is asked for, so that a new notice shifts the others.

**`MonitorCollection`.** `known` is the memory of a `MonitorService`; the worker has one for a cycle, the
API one for its life. A collection takes its observations, normalises them one by one (`Normalize`, with
`cluster_event`), leaves the loop at its end or with an exception (`LeaveLoop`), and persists all that the
process has in memory (`PersistSnapshot`) or loses the transaction (`LoseSnapshot`). An existing cluster is the one in
memory, and otherwise the row. Contents are numbers; some of them are rejected.

**`EventBriefing`.** A revision is the record of what the event's text rests on: the number of its source, its
decomposition, its timing. A worker goes through the technical stage (`Decompose`, `SaveDecomposition`), the
deterministic preparation (`Prepare`, `PersistPrepared`), the synthesis (`Synthesize`, `SaveSynthesis`) and the
publication (`Render`, `PersistPublication`), and carries between two transactions what it read before. A hash
is what it is the hash of. `asked`, `prose`, `disturbed`, `repeated` are history.

**`VersionedRows`.** `Read` is the select of the current row, kept in `seen`; a write retires that row and inserts the
next version, and succeeds only if the version is free (the unique constraint); `WriteInPlace` is the update of a row
whose revision is unchanged; `WriteLocked` is `persist_federal_assessment`, which reads and writes under its lock. `RollBack` is the loser.

**`CandidatePromotion`.** `Sight` reads what is stored and what the catalog of the process resolves, `PersistCandidates`
writes it: a promotion may come in between. `ReadCandidate`, `CreateAccount`, `CommitAccount` are one promotion
(and likewise for programs); `RefreshCatalog` happens only in the process that promoted. A company is what two
spellings have in common, as `normalize_governed_name` has it.

**`FederalProjection`.** A call of `procurement_projection` reads notices and awards (`BeginProjection`), the kept
assessments (`ReadKept`), the environment (`ReadEnvironment`), and saves an assessment of every notice whose inputs
are not those that were kept (`PersistAssessment`). `Assessment` is `build_assessment` with its routing and
durability, `Listed` the filters of a listing. Notices, awards, imports and partnerships change at any time.

**`WorkItem`.** A request reads the row (`ReadRow`), then the subtasks (`ReadChildren`), for a
subtask change also the history (`ReadHistory`), and then decides and saves on what it read, one action per
operation. `Save` is the transaction of `SqlActionRepository.save`: an UPDATE
that asks for the version that was read, the children, and the audit event. A client's
`expected_version` only refuses more and is left out.

**`CrmProposal`.** `crm` holds the workflow's events. `Look` is the reading of the commercial
data before the transaction; `Preview`, `Decide` and `Execute` run under the row lock of
`transact_audit`. Hashes are modelled by what they are the hash of. The adapter that runs is
the sample adapter: it changes nothing but the event that records it.

**`SuggestionFeedback`.** A form holds what the user saw (`Open`), the endpoint finds the evidence
(`FindEvidence`), `append` checks and writes under the user's lock (`AppendFeedback`): three moments, and each form
may be sent again. `said` is the table in the order of its rows.

**`Communications`.** A request reads a draft and decides (`Edit`, `Decide`, `Preview`, `Send`), and then writes with
the version that it read (`SaveDraft`, `AppendAudit`); a creation looks for its key first and the unique key decides
(`InsertDraft`). `contents` and the `on` and `shown` of audit rows are history.

**`OmniConversation`.** A request's `next` is its next transaction. A chat reads the
conversation, starts its receipt, finishes it, reads again (`append` calls `get`) and appends
if the version is the one of its *first* read. `Fail` lets a request end anywhere. A rename does
not change the version, deletion and pruning remove the receipts of the turns they have read.
`seen` of a turn is history: how many turns its author was shown.

**`OmniMemory`.** `click` is what a press of a button sends; it stays, so that it may arrive again at any time. `Create`, `Edit` and
`Delete` are the transactions. Identifiers are numbered in the order of creation, and `born` (history) says which key created each.

**`ChatAgent`.** `at` is where `answer` is; `late` and `stopped` may become true between any two steps and are looked at where
the code looks. `Raised` says where an exception is caught: those of a lookup of a name and of the fallback lookup are not.

**`OmniRouting`.** A question is the set of the phrase families its words belong to; `AnswerCurrent` is the order in which
`answer` asks them, with the handler that answers, the account it is about and the records used.
`referent` is what `_attach_conversation_referent` leaves, `TakeTurn` one question, and assessments and Actions change between turns.

**`OmniAnswer`.** One request through `OmniService.answer`: selection (`AskOmni`, `ExplainPursuit`), interpretation, the deterministic answer
(`Ground`), up to `MaxReads` further reads (`ChooseRead`), public research, wording with two checks (`Word`), and the receipt. A fact is a kind and what it
is of. The words of a model either have figures or not (`Proses`): the facts a figure is taken from are what `Unsupported` compares with what was read, as `synthesis_rejection` compares
numbers, and of words without figures only the phrases and the form of an assessment are looked at, by which of the possible faults they have.

**`AiBudget`.** `receipt` is `ai_call_receipts`, `calling` the calls between `reserve` and
`complete`. `Reserve` is one transaction under the advisory lock; its `t` was read up to `Skew`
before. A refused reservation rolls back the expiries it marked, so it changes nothing.

**`GovernedOutput`.** A call begins with the deterministic result of its subject, reserves, asks, closes its receipt and is finished by the
adapter that asked. A reply is described by how it fails: in the SDK, in closing the receipt, in its form, its evidence, its length, its names.
`ended` collects the exceptions that nobody catches.

**`MarketSeries`.** A refresh decides whether it is due (`StartRefresh`), fetches everything in one publication, and stores in one transaction under
a lock (`Store`), or records a failure. `Publish` changes all series at once.

**`CustomerRisk`, `TodayQueue`.** State is what is known; scores, ranges, alerts and the order of the queue are operators of it, as they are functions
in the code. Scores are integers in a unit in which the code's decimals are exact.

**`RouteSearch`.** `Pop` takes a partial route, `Examine` looks at one step out of it, that of the least edge id among those `pending`, `EndOfNode` pushes its extensions; `Interrupted` may happen between
any two. `RoutesThereAre` is the reference definition: all simple walks of the graph (`WalksOf`, by their
length) that may be seen and fit a template.

## 3. Runs

| Run | Instance | Shows |
|---|---|---|
| `research_journal` | either any callers: 3 attempts, 3 steps, leases of 1 minute, clocks off by up to 1, time to 3; or 2 workers, the first prompt, the second with a clock that is 1 ahead, a window of 1, a margin of 8, 1 tool, time to 12 | late workers are fenced off, and `ResearchRun` is implemented; a worker that keeps to its timeouts never loses its run |
| `monitor_progress` | either 2 workers, clocks 1 apart, 2 tools, 3 attempts, 12 steps, time to 4; or 1 collector, 2 queries, one answered with nothing but errors, budget 1; fairness | all attempts share the budgets, a run completes only on evidence, an investigation returns; the other query completes |
| `worker_cycle` | 2 workers, 2 sources, a budget of 5, starts and provider timeouts of 2, fairness | what is read of a source is taken from no other, an exit code of zero is honest, the lock's specification with its liveness is implemented |
| `procurement_collection` | 2 collectors, 2 queries, 2 notices, pages of 1, budget 1, 2 days | nothing is skipped while pages shift and collectors overlap or die |
| `procurement_unanswered` | 1 collector, 2 queries, one that gets no answer, budget 2, fairness | **violated**: the other query never completes |
| `procurement_first_seen` | 1 collector, 1 notice | **violated**: `first_seen_at` is overwritten |
| `components` | see below | the properties of eleven components, one component per behaviour |
| `commercial` | see below | the properties of seven more, likewise |
| `work` | a seller and a manager, 2 requests, 1 subtask, 4 versions; 2 CRM calls, 2 contexts, 2 proposals | completion, duties, subtasks, cancel and restore, and what a sample runs on |
| `omni_rename` | 2 requests | **violated**: a rename is overwritten |
| `briefing_reuse` | 1 worker, 1 undated event, 2 cycles | **violated**: the provider is asked again about unchanged content |
| `clusters` | worker and API, 2 sources, 2 contents | **violated**: observations of a cluster are overwritten |

### Bounds and why they are enough

Every bound is a constant, named in its module.

* *Journal*: three attempts is the code's own maximum. A lease of 1 and clocks off by 1 are enough for a
  worker that reads its clock before a lease ends and writes after it, and for one whose clock is so far ahead that it takes over a live lease; the shortest
  interesting history (acquire, admit, expire, take over, late completion, finish) needs time 3.
  Twelve steps in `monitor_progress` is the code's limit. With two workers of `MCResearchJournal` a margin of 8 is the least that `MarginSuffices` admits (a timeout of 1, five
  delays of 1, clocks 1 apart), and 12 is past the end of the longest lease that begins at once; a margin of 7 loses a run.
* *Worker*: a source's share is read in any time up to it, and kept in any time that is left. A second worker takes the lock over or is skipped; a budget of 5 allows one start, two,
  or an optional item with nothing to spare. That liveness holds in the instance is what TLC can show; exclusivity is proved
  for any number of workers.
* *Procurement*: two collectors overlap; budget 1 with two queries makes each run
  leave one unfinished; two days are a window and the one after it. Pages of one notice are the worst case for
  shifting: any larger page hides shifts inside it. Windows overlap by one day; the proof shows that the
property holds with any overlap, none included, because a window's last day belongs to the next one.
* *Actions*: a lost update needs two requests, and four versions let approval, decision, cancel and
  restore follow each other. The code's limit of fifty proposals is 2, so that it is reached.
* *Components.* Budget: three calls of two actors under limits 2 and 1 a day and at a time; the clock ends at six, which is two midnights and
  two leases. Conversation: three requests are two chats and a rename, a deletion or a rating in between. Memory: four
  presses under two keys fill both limits and repeat a create after a deletion. Routing: two accounts; 23 sets of phrase families, each with
  a question of that kind in a comment of `MCComponents`; two versions of each assessment. Briefing: two workers and two cycles, which may overlap, two
  sources, cooldowns that end. Rows: three writers and four versions. Collection: one process, three contents of
  which one is rejected. Feedback: three forms, two keys, a limit of 2. Market: two refreshes of two series in four hours. Promotion: two
  processes, two spellings and an alias of one company, two sightings.
* *Commercial.* Two overlapping calls on drafts that are legacy or new; all factors unknown to known, two events; one quote of two units, one order and one signal over four days with
  thresholds that differ; a graph of nine facts, each subset of it, under the template of the code with three alternatives, a limit of two candidates, so that searches are complete with one and stop at two; one notice in three contents,
  two projections, two changes; two provider calls on two kinds of result with fifteen kinds of reply; Omni questions that need a
  selected record, a route, public research and further reads, with two reads instead of the code's four.

Deadlock is checked where the system never stops: in the three `procurement` runs, `worker_cycle` and `work`. In the others a bound on a clock or on a
number of requests stops it.

### Fairness

* `monitor_progress`, investigations: `WF` of the next step of each worker that is not killed. The loop
  has no unbounded wait: provider calls have a timeout, journal calls `statement_timeout`, and the
  process a hard deadline. No fairness is given to time or to crashes.
* `OperationalLock`: `WF` of the watchdog (`os._exit(124)`) and of the end of a process, and of nothing
  else: cycles, beats and statements may hang. The threads of the process are daemons, so a hung
  heartbeat does not keep it alive. `WorkerCycle` assumes the same of the worker that is followed and of the others, and `LockIsKept` checks that this is enough.
* `monitor_progress`, collection: once the source has recovered (`calm`), runs go on (`WF`) and each query that is not refused takes
  part in runs again and again (`SF` of the runs that include it): a retry time is at most an hour away
  (`retry_at`), so no query is left out from some moment on. How often the refused query takes part is left open; that it may be part of every
  run is what the property is about. `procurement_unanswered` has the same fairness, of all queries, and of runs in which one in `Silent` gets no answer.

## 4. What the properties say

**Research.** `OneAdmittedCall`: one step is open at a time, and it is the owner's. `ClosedByItsWorker`: a late
answer never closes a step of the worker that took over. `OnTimeWorkIsKept`: a worker that keeps to its timeouts owns its run until it has finished, whatever the others do and their clocks
show. It needs `MarginSuffices`: one call, five steps of the worker's own and the difference of two clocks fit into the thirty seconds by which the lease outlasts the investigation. With the
default provider timeout of 20 seconds they do; `core/config.py` 89 admits timeouts of up to 120, with which a search begun just before the deadline outlasts its lease.
`ImplementsPromise`: the journal implements `ResearchRun`. `AttemptsShareTheJournal`: all attempts together, those that died included, keep to the tools and
steps of one run, and what an owner believes is what the journal says. `CompleteOnEvidence`: a run completes only with a retrieved
passage. `InvestigationReturns`: unless it is killed.

**Worker.** `TimeIsShared`: however slowly sources answer, what they take to be read is never taken from the minimum of those that wait, which lack at most what keeping the others took; optional work begins only
with a whole provider timeout left and no source left out. `ZeroIsHonest`: exit code 0 means that every configured source, at least one, was collected without a failure and under the lock, and that the deadline stopped nothing but a synthesis or the refresh of the market series (SKIPPED_DEADLINE, `modules/markets/service.py` 62). `ReportWasExclusive`: a cycle that is reported as done had the lock all
along. Overlap itself is *not* excluded: a worker whose session was lost goes on until it releases, and reports an error then. `LockIsKept`: the
worker implements `OperationalLock`, and the lock is freed in the end.

**Collection.** `NothingSkipped`: what was posted before the end of what the checkpoints cover is stored. `RefusedQueryStarvesNobody`: a query that is answered with nothing but errors does not keep
the others from the end of their windows, under a budget of one request a run. Of a query that gets no answer the code does not have this (below).
`ClusterKeepsObservations`: a stored cluster never loses an observation or an event; it holds for one process and not for two (below).

**Intelligence.** `ProseIsAboutItsRevision`: generated prose is shown only with the revision it was written about. `DecisionIsCurrent`: unless workers overlapped, what a finished cycle decided on is the current assessment and rests
on the source revision of the cycle, and no assessment of an older source took the place of one of a newer. `ProviderIsAskedSparingly`: as long as no answer is lost, a failed call is not repeated before its cooldown, nor a question that was
answered; and of an event the source dates itself no unchanged revision is written about twice. `OneCurrentVersion`: a context has one current row, its last, and no gap. `CatalogIsTraceable`: what was promoted stays what it was made of; a company gets a second account only through
promotions that overlap and spell it differently, and a program has the account of its owner. `FederalPagesAgree`: what a call shows is the assessment of what that call read, and is on record; what Today offers is on the page of
the account and in the workspace, unless its deadline is past or it has changed; and a notice that is listed stays listed until its deadline. `AnswersAreGoverned`: what is kept of a provider's answer rests on the evidence of its request,
decides no ambiguous name, and a failure leaves the deterministic text.

**Commercial.** `RiskIsHonest`: as more is learnt the range of the overall risk only narrows, to the score once everything is known, and where every event has a known domain another confirmed one never lowers the public risk. `TimeOnlyAges`: see its comment.
`SearchIsHonest`: routes found exist and may be seen; without a notice of a limit all of them were found. `CurrentIsNewest`: all series shown are of the publication
retrieved last.

**Work.** `CompletedWorkIsSettled`, `SeparationOfDuties`, `SubtaskChangesApplyOnce`, `CancelRestores` (restoring leads back to the status before the
cancel), `RunsAsApproved` (a sample runs once for a proposal and for a retry key, on the last decision, on the Action as it is, and on the commercial data and the mapping that its call looked at;
an import that commits between that look and the row lock is not seen by it). `SaidOnceInOrder`: the feedback on a suggestion is one chain, with each request in it once.
`ReviewedAsItStands`: what is approved and previewed is the draft as it is; `CreatedOnce`.

**Conversations.** `TurnsAreKept`, `NothingIsResurrected` (a retried create never brings back what was deleted), `CostIsBounded` (lookups and model turns, whatever fails, is refused or comes late),
`ContinuationIsCurrent` (a follow-up is answered from the record as it is, or refused), `OmniIsChecked` (the figures of an answer rest on what was read for the question, of its account, whoever worded it; words that claim an execution, promise over a constraint or change the score of an assessment are not shown;
limits, stale selections and failures are told; every question has a receipt). It says nothing of what words without figures state: `modules/assistant/grounding.py` 1 calls the checks "not a claim of complete semantic verification", and
made-up words, or words taken from a preference, pass them.

**Budget.** `DailyBudget`, `InFlightBudget`: given a provider call that ends within its timeout and a wait for
the lock shorter than the thirty seconds of `LeaseSeconds`; `lock_timeout` is two.

### Disagreements between the code and what the repository says

Each of these five has a run that finds it.

1. `first_seen_at` (`monitor/service.py` 308) is carried over to a copy that is not persisted.
2. A rename can be lost under an answer (`persistence/omni_conversations.py` 82), against `README.md` 77 of the repository and
   `backend/tests/test_omni_chat_storage.py` 44. Feedback can be saved for a conversation that was just deleted (line 114).
3. Keeping the assessment of an undated event changes the hash that its prose was cached under (`monitor/business_briefings.py` 760), against `monitor/briefs.py` 432.
4. An API process writes all clusters in its memory over what the worker has stored (`monitor/service.py` 470), against `docs/architecture/monitor-2-target-architecture.md` 24.
5. A request that gets no answer, or one that is too large, raises what `monitor/sources.py` 676 does not catch: the run ends, no checkpoint is saved, and the same query is asked first in the next run, where it discards what that run read of the others, with any
   budget, against `monitor/sources.py` 539 and 587.

Met while modelling, in the model as the code has it, without a run of its own:

* *CRM and Actions.* A sample can run while the Action's approval is REQUESTED or CHANGES_REQUESTED (`modules/work/crm_proposals.py` 42), against its own message. An edit keeps an approval.
* *Chat agent.* A lookup of a name or the fallback lookup that is interrupted leaves the receipt RUNNING, where `api/omni_chat.py` 144 has "Let the bounded worker complete its private audit". Failed
  provider reads are not audited, where `chat_agent.py` 95 has "Failed and denied attempts belong in the private audit too". With two named organizations, two of the lookups read the whole workspace.
* *Routing.* `docs/product/SURFACE_CONTRACTS.md` 115 puts "current-turn named entities" first; a follow-up on the selected account comes before them (`orchestration.py` 155). "The other one" always ends ambiguous.
* *Omni.* Clarifications and federal, stale and opportunity answers are returned without the operational boundary. A record number that was looked up and not found licenses its digits in the
  answer. A fourth read always ends with the limit notice. An exception other than those named leaves the run RUNNING for five minutes.
* *Provider output.* A malformed decomposition raises `TypeError`, and more than 32 components or 12 facts `ValueError`, which their callers do not catch: a worker cycle ends on it, though `docs` call decomposition optional. A subject of blanks makes the
  deterministic draft raise. An ambiguous ranking counts only when it is read from the cache.
* *Briefing.* Saving NOT_CONFIGURED forgets a cooldown. The technical decomposition is read as it is now even for an older revision of the source. Explanations are one row per subject, so that A, B, A asks three times.
* *Collection.* An exception in the middle of a run keeps its observations and checkpoints but only the earlier events (`service.py` 433). After a snapshot transaction is lost, a later run of another source
  writes clusters that name observations which were never stored.
* *Promotion.* Two promotions of two spellings of one company that overlap both succeed, against "exact canonical identity collision prevents durable prospect creation". A sighting by a process with an old catalog
  returns a promoted candidate to review (the audit keeps the decision). `docs/architecture/CODE_REVIEW_REFERENCE.md` 226 says there is no promotion command and 279 that there is.
* *Federal.* Today and account pages read kept assessments without looking at deadlines or at whether the notice is still collected; a slower projection can make an older revision current again.
* *Risk and Today.* The public roll-up is not monotone when the worst event has no known domain, so `RiskIsHonest` speaks of events that all have one. An expired public risk keeps a ceiling of 100 among incomplete items.
* *Communications.* Delivery is never configured, so that SENT is unreachable. `save_preferences` loses one of two changes made at once.
* *Worker and research.* Without any configured source the status is SUCCESS with exit code 1. The last research decision can abort a cycle (`research.py` 177); a run whose third attempt dies stays RUNNING (`research_state.py` 114).
  A stale market store raises a `ValueError` that nobody catches.

## 5. Proofs

Each theorem holds for every value of the constants: any number of workers, requests, rows, versions, clock
readings and limits, and any bounds on them.

| Module | Theorems | Properties that they state |
|---|---|---|
| `ResearchProofs` | `TypeCorrect`, `OneCallAtATime`, `Fenced`, `JournalKeepsPromise` | types and attempts within their budget, `OneAdmittedCall`, `ClosedByItsWorker`, `ImplementsPromise` (the refinement of `ResearchRun`) |
| | `AttemptsShare`, `CompleteIsEvidenced`, `PromptWorkIsKept`, `CoordinatorKeepsJournal`, `CoordinatorKeepsPromise` | `AttemptsShareTheJournal`, `CompleteOnEvidence`, `OnTimeWorkIsKept` (with `MarginSuffices`), the refinement of `ResearchJournal` and with it of `ResearchRun` |
| `ProcurementProofs` | `TypesAreKept`, `NoticesAreNotSkipped` | types, `NothingSkipped` |
| `WorkerCycleProofs` | `LockTypeCorrect`, `ReportsAreExclusive`, `OneUserOfConnection`, `CycleImplementsLock`, `ZeroExitIsHonest`, `CycleTimeIsShared` | types of the lock, `ReportWasExclusive`, `ConnectionHasOneUser`, the safety part of `LockIsKept`, `ZeroIsHonest`, `TimeIsShared` |
| `EventBriefingProofs` | `ProseOnItsRevision`, `DecidesOnCurrent`, `AskedSparingly` | `ProseIsAboutItsRevision`, `DecisionIsCurrent`, `ProviderIsAskedSparingly` |
| `WorkItemProofs` | `TypeCorrect`, `CompletionIsSettled`, `DutiesAreSeparate`, `SubtasksChangeOnce`, `CancelComesBack`, `AttemptsAreApproved` | types, `CompletedWorkIsSettled`, `SeparationOfDuties`, `SubtaskChangesApplyOnce`, `CancelRestores`, `RunsAsApproved` |
| `MonitorProofs` | `NewestIsShown`, `OneCurrent`, `HistoryKept`, `ClustersKeepAll`, `PromotionsAreTraceable` | `CurrentIsNewest`, `OneCurrentVersion`, `HistoryIsKept`, `ClusterKeepsObservations` (with one process), `CatalogIsTraceable` |
| `AssistantProofs` | `BudgetTypeCorrect`, `DailyLimitsHold`, `InFlightLimitsHold`, `ClosedReceiptsStayClosed`, `NoTurnIsLost`, `CreatedAtMostOnce`, `ChangedAsInspected`, `SaidOnce`, `CostsAreBounded`, `ContinuationsAreCurrent` | types, `DailyBudget`, `InFlightBudget`, `ClosedReceiptsStay`, `TurnsAreKept`, `NothingIsResurrected`, `OnlyInspectedVersionsChange`, `SaidOnceInOrder`, `CostIsBounded`, `ContinuationIsCurrent` |
| `CommercialProofs` | `ReviewedDrafts`, `CreatedJustOnce`, `AnswersStayGoverned`, `FederalPagesAlwaysAgree`, `AnswersAreChecked`, `SearchesAreHonest`, `RisksAreHonest`, `DaysOnlyAge` | `ReviewedAsItStands`, `CreatedOnce`, `AnswersAreGoverned`, `FederalPagesAgree`, `OmniIsChecked`, `SearchIsHonest`, `RiskIsHonest`, `TimeOnlyAges` |

*Assumptions* are those named in the modules, which TLC evaluates in the runs. Some are ranges: `JournalAssumption` (what `acquire` and
`start_step` check), `CoordinatorAssumption` (the tools and at most four of them, leases that are windows with the margin, clocks ahead by at most `Skew`), `CycleAssumption`, `RetentionAssumption`, `CrmAssumption`, `BriefingAssumption`,
`RoutingAssumption`, `CollectionAssumption`, `StepsAreCounted` (limits are numbers, NULL is no value), `QueryIsBounded` (the bounds of a
route query are positive, as `RouteQuery` checks, and its ends may be seen, as `search` checks), `RubricIsBounded` (points and severities are out of 100, the
domains are finitely many), `ThresholdsAreOrdered` (days are numbers, a quote is followed up before it is stale, a signal is kept for longer than it is current, scores are out of 100). `BudgetAssumption` has positive limits and a wait for the lock shorter than the
margin of a lease; `WorkAssumption` and `CommunicationsAssumption` that managers are users; `GovernedAssumption` that there are
finitely many callers and that an imported finding has a content of its own; `PayloadsAreRead` and `FederalAssumption` that notices are numbered in
some order and an import has finitely many rows; `RowsAssumption` and `NoneAssumption` that NULL is no value.

*Journal.* `OneAdmittedCall` is not inductive: that the open step is the current owner's needs that a RUNNING run's
token is its last attempt's (`TokenIsCurrent`), and the order of steps needs that every step belongs to an attempt that has begun
(`StepsHaveAttempts`). `IInv` is the conjunction; there is a lemma for each transaction. The refinement maps the row and the steps to a phase, the
evidence and the outcome, and shows for each transaction which step of `ResearchRun` it is.

*Coordinator.* Every action of a worker is a transaction of the journal or leaves it alone, so the journal's theorems carry over
(`CoordinatorKeepsJournal`). Its own need `CInv`: a worker whose token the journal still accepts knows the open step and how many tools all attempts have used (`HolderKnows`), and what
any worker remembers of the evidence is in the journal (`MemoryIsEvidence`). That no `start_step` of an owner is refused needs
a count: steps come in pairs of a choice and its read, and each attempt adds one without a read at most (`StepsArePaired`), which is why twelve steps are enough
for four tools and three attempts. `PInv` adds, of a prompt worker, that it owns the run and that its lease began when its window did, with the margin, and for each place of the loop how long before its deadline it came there
(`OnSchedule`): behind the deadline lie at most one call and five steps, so by `MarginSuffices` the lease outlasts the last of them on every clock, and nobody can acquire the run meanwhile.

*Lock and cycle.* An open session of a worker that has not finished its cycle never lost the lock (`OpenIsExclusive`), and what is
reported was unlocked first (`ReportIsAfterUnlock`): `LockInv`. `CycleInv` adds what a stage knows: optional work comes when no source waits (`CollectedAll`),
and a budget that began with the minimum of every source still covers those that wait (`EnoughIsLeft`), less what keeping the others took, because `SourceTime` subtracts them. `CycleImplementsLock` shows
for each stage that it is a step of `OperationalLock` or a stutter; `LockIsKept` is that and the lock's fairness, which TLC checks.

*Briefing.* `BriefingInv` has three parts, each preserved given those before it. `ProseInv`: wherever there is prose, in a row or on its way into
one, the provider wrote it about the revision it is with. `DecisionInv`: unless cycles overlapped, one works, on its own source, and no current row is of a newer one.
`AskedInv`: the last answer for a cache is in it, or carried by a worker on its way there.

*Action.* What a request read at the version that is still there is what is there (`ReadsAreCurrent`), because each change of the row, its subtasks or its audit changes the version. Hence `Save`, which asks for that version, writes a
decision about the present, and the invariants are those of `Transition`, `DecideApproval` and `ChangeSubtask` on their own. `CancelRestores` needs the order of the audit: `TrailInv` says that it has an event
per version, and that canceled work remembers the open status from which the audit has it canceled. `RunsAsApproved` rests on `transact_audit`: the mapping and the last decision are read under the row
lock, so only the look at the commercial data is older, and `Execute` compares it with the proposal.

*Procurement.* `NothingSkipped` says nothing of a window that is half read, nor of a run's memory, which is saved whatever other runs have saved meanwhile. `CollectionInv` has
both: every checkpoint, the durable ones (`CheckpointsHave`) and those in memory (`RunsHave`), has what it counts as read (`Has`): all that came before its window, and of the window, its last day excepted,
whatever stands in a place before the offset. What is found is saved before the checkpoints are (`SnapshotIsSaved`), so a death in between costs a page and no notice. A new
notice moves the others to later places and is itself of the last day; a page adds exactly the places from its offset on; and when the offset reaches the number of notices the window has them all. These are lemmas
on the cardinalities of sets of positions, which is why a listing is such a set.

*Market, rows.* A refresh stores only if nothing was retrieved after it. Versions are 1 to their number, only the last may be current, and `SeenIsKept` says that what a transaction has read stays a version of the table; so a writer that has
read the current row finds the next version free only if that row is still the last.

*Clusters.* With one process, what it has in memory of a record says what the row says and perhaps more (`MemoryCoversRows`), so writing the memory loses nothing, after lost snapshots
and restarts as well. The hypothesis is one collector: the run `clusters` has the counterexample with two.

*Promotion.* `PromotionInv` says of each promotion in progress what it read and that this was so, and of each account and program which promotion made it. A second account of a company needs two promotions that both found none, and so overlapped.

*Budget.* `DailyBudget` needs only that a reservation counts what it adds to: lemmas `Fewer` and `OneMore` on cardinalities.
`InFlightBudget` says nothing of receipts, so its invariant ties the two: a call in flight has a RESERVED receipt that no
admissible clock reading can find lapsed, because its lease is longer than the timeout by more than the skew. Hence the calls in
flight are among the active ones that `Reserve` counts.

*Conversations, memory, feedback.* The version counts the turns ever appended, and what a chat has read is at most as old as its version says (`ReadsAreOlder`). A preference that was created has its
create receipt (`ReceiptsRemain`), deleted or not. Each row of feedback names as its predecessor the last of its suggestion when it was written (`EachFollowsTheLatest`), and each key is there once.

*Agent, turns.* `ChatInv` counts turns and model calls together with the lookups that the audit has, so that an interruption at any of them leaves the sum bounded. `RoutingInv`: a referent with
an assessment is of an event and of no comparison (`ReferentIsWhole`); the rest is case analysis on `AnswerCurrent`.

*Drafts.* `CommunicationsInv` relates a draft to its trail and to the texts of all its versions, and what each request is about to write to the version it read (`WritesFit`): while that version is the current one, the write fits. `OnePerKey` and
`AnswersStand` add, for repeated creations, that the answer of a key is the draft that has it.

*Provider's answers.* `GovernedInv` says of each call under way that its request is the one of its subject, that an answer keeps to it, and that open receipts are no fewer than the calls that wait; and of each kept row what it rests on.

*Federal pages.* `FederalInv`: rows are numbered and have the revision of their inputs (`RowsAreHonest`), a call has read what it compares with (`CallsHaveRead`), and what it shows is what it built and is on record (`ShownOnRecord`). The revision of an
assessment determines it, which rests on the least of the missing parts and the best of the matches being well defined: a finite set that is not empty has a
least element by well-foundedness of strict inclusion (`LeastThereIs`), without an induction theorem.

*Omni.* `OmniInv` says of a request what `OmniIsChecked` says of its answer, at every stage: all that the figures of the answer, and what they are compared with, draw on is public, of its account or as new as the request (`FactsAreSourced`); a market series
that was found current stays so (`SelectionHolds`); notices of what was cut short survive the wording (`StopsAreTold`). Each handler has a lemma, and `FinishKeepsOmni` serves all ways to end.

*Routes.* While a search goes on, every route there is has been found or is still ahead (`Ahead`): a beginning of it is on the stack, among the children, or being extended with the next step still pending.
`SearchInv` is that, the bounds, and that everything on the stack is a simple walk that may be seen. A search that ends without a reason has nothing ahead. That the walks of the
reference definition are the simple walks of the invariant (`WalksAre`) is by induction on their length, done as for the federal pages: a length at which it fails would have a least one.

*Risk.* The weights of the rubric add up to 100 and are positive, and rounding keeps the order, so the index grows with each factor (`WeightedGrows`), and the overall risk, with its floors and its ceilings, with the index and
the public risk (`OverallGrows`); hence what is learnt can only narrow the range from lowest to highest (`LearningNarrows`). The roll-up takes the worst event and what the other domains add to it; `WorstIs` and `RollUpGrows`
show that a further event raises one or the other. `RiskInv` has little more than types: events have identities of their own.

*Today.* `TodayInv` has types and that nothing was opened or published in the future. A lemma gives what a day alone does to each kind of candidate (`SignalAges`, and the alerts of quotes and orders), one what that does to its triage,
and one what it does to a pair (`StaysBefore`), for every value of the thresholds.

The inductive invariants were checked with TLC, on the instances of section 3 (sequences bounded where a definition quantifies over all of them), before they were proved.

*Only model-checked.* Every invariant and every action property of the passing runs is stated by a theorem. Liveness is beyond the prover, as is `ENABLED`: `InvestigationReturns`, `RefusedQueryStarvesNobody`, and the part of
`LockIsKept` that frees the lock stay with TLC. So do the five runs that find a violation, and the numbers of the instances themselves: that the code's own table of routing phrases or of replies is the one
of `MCComponents` and `MCCommercial` is read from the code, not proved.

## 6. What is not modelled

* *Sessions*: a dictionary under one lock in one process. *Commercial and network imports*: one idempotent transaction each; their effect on others is an action of those. *Account planning and
  itineraries*: one transaction with an expected version and an idempotency key, the form of `Communications` and `OmniMemory`.
* The connection pool: `transact_audit` needs a second connection while it holds the first (`persistence/actions.py` 47). Lock and statement timeouts occur only as failures of an operation.
* Ledger, relationship projection, attractiveness and opportunity gates: weighted sums and lookups over wide records with one reader each, in which no two pieces of state can disagree.
* USAspending collection: the loop of SAM with page numbers. The parsing of feeds and public documents is I/O.
* What documents, prompts and answers say: wording is abstracted to the facts it draws on and to the faults it may have.
* Sample and reference data, migrations, and the web application.
* Event identifiers and creation times of candidates, and the fields of an Action that no rule reads.

## 7. What is left

1. A property of the runs that fail in the middle (`service.py` 433), once the repository says what is promised of their events.
2. The pool of connections under `transact_audit`, as a model of its own of calls that hold one connection and ask for another.
3. USAspending, whose pages are numbered, as a second instance of the collection.
