# PRDCP in TLA+

PRDCP v2 runs five layers of LLM agents (Producer, Researcher, Deliberation,
Conclusion, Playwright) over one data directory. The layers hand their results
on through JSON files; the CLI and the Discord bot are separate processes that
call the same Managers on the same files, and any of them may be stopped at any
point. Nearly everything that is hard in this program follows from two facts:

- a Provider call costs money and cannot be taken back, so a call that may have
  been billed must never be repeated by accident;
- the only synchronisation is a file created with `open("x")`, and the file is
  written after it was created.

The modules here model the protocols built on those facts - the ledger of paid
calls, the exchange of revision requests, the paid search, the decision of a
human - and the five Managers that run on them. Source paths are relative to the
repository; `README.md:<line>` in a comment means the repository's README.

## 1. Inventory

| Part | State it keeps | Operations | Correct when | Module |
| --- | --- | --- | --- | --- |
| Provider call ledger (`common/agents/base.py`, `common/provider_*.py`) | reservation files, authorization files | execute, reserve, consume, run with its retry, authorize a repair | a call that may be billed is sent once per reservation; a repair only on its spent authorization | `ProviderLedger` |
| Batch transport (`providers/openrouter_batch.py`) | sidecar of every batch job | prepare, submit, poll, resume | one submission per reservation, whoever comes back later | `ProviderLedger` |
| Synchronous transport (`providers/openrouter_provider.py`) | none | post, classify the answer | the class of an error says whether it may have been billed | outcomes in `ProviderLedger` |
| Retrieval coordinator (`retrieval/`, `common/retrieval_*.py`) | reservation, context file, authorization of a replacement | prepare, retry, reconstruct | a search is paid once; a replacement only under its authorization | `RetrievalCoordinator` |
| Revision exchange (`storage/revision_exchange_repository.py`) | requests, budget slots, authorizations, claims, results, audit events | create once or exact, consume a slot, consume an authorization | the budget counts; a request can be resumed; executors agree | upstream requests in `RevisionExchange` |
| Producer Manager | workflow state, agent checkpoints, revision control | start, recover, retry, review, revise, finalize, hand off | checkpoints are made from each other, only an approved plan is handed off, no paid work is repeated | `ProducerManager` |
| Human Evidence Gate (`researcher/manager.py:2210-3208`) | gate status, decision file, Deliberation's inbox | prepare, decide, repair, recover | a decision is taken once, on the evidence shown; only accepted evidence is handed over | `EvidenceGate` |
| Researcher Manager | tasks, report, review, four kinds of revision | start, resume, retry, repair, single task, revise | the review is of this report; results are truthful; completed tasks are reused | `ResearcherManager` |
| Deliberation Manager | analyses, integrations, counterargument, review | start, resume, recover, retry, revise | what Conclusion gets was made from each other and approved | `DeliberationManager` |
| Conclusion Manager | four stages, package, human selection | start, resume, recover, retry, revise, integrate, select | a selection stands for its package; what Playwright gets was approved | `ConclusionManager` |
| Playwright Manager | four stages, validation, package, delivery files | start, resume, recover, retry, repair, revise | what is delivered passed the gate, and is complete | `PlaywrightManager` |
| JSON repositories | one state file per workflow | load, save atomically | a save does not lose another's | the races in `EvidenceGate`, one process in the other Managers |
| CLI, Discord bot | none | commands | - | inputs of the models |
| Role definitions, prompts, validation, compatibility, deterministic repairs, mocks, settings, scripts | none a later step depends on | pure functions, text | - | not modelled |

Interactions. A Manager calls `StructuredAgent.execute`, which reserves, consumes
an authorization when the identity is a repair, and calls the transport in a
thread under `asyncio.wait_for`. Agents that search call `prepare` of the
retrieval coordinator first. The Manager saves the workflow state before and
after. A requesting layer calls `create_request_once`; the executing layer's
operator command creates an authorization and `consume_authorization` claims it
for the reservations that the ledger will then guard. Nothing is called back:
processes meet in files only.

Hard behaviours, each listed at its line under `hazards` in `PROJECT.json`:
two processes between each other's file operations; a stop between a reservation
and its consume; a POST whose answer is lost; a thread that outlives the timeout
of its caller; an automatic retry of a call that was billed; a file that exists
and is not written yet; a read before a claim and a write after it; a request
rebuilt by recovery; a batch that is still running when its process ends; a state
that was loaded before another command saved it; a checkpoint of the last cycle
that recovery takes for one of this cycle; a human decision about contents that
change below it; a saved answer matched by an id that the provider is free to repeat.

## 2. Modules

| Module | What it is |
| --- | --- |
| `ProviderLedger` | the ledger, the stores, the batch sidecars and the threads |
| `OneShotCalls` | what the ledger promises: rights that are granted, spent and used |
| `ProviderLedger_proofs` | types, the inductive invariant and what follows from it, the ladder of repairs, and that `ProviderLedger` implements `OneShotCalls` |
| `MCProviderLedger` | instances for TLC |
| `RevisionExchange` | slots, requests, authorizations and claims of upstream revisions |
| `MCRevisionExchange` | instances for TLC |
| `RetrievalCoordinator` | a paid search, its loss and its replacement |
| `CreateOnce_proofs` | of the two protocols on create-once files, `RevisionExchange` and `RetrievalCoordinator`: types, an inductive invariant for each, and every property of either |
| `EvidenceGate` | the human decision on a Quality Review, by commands that race |
| `EvidenceGate_proofs` | its inductive invariant and every property of it |
| `ProducerManager` | the Producer's agents, review, revisions, recovery and handoff |
| `ProducerManager_proofs` | its types, its inductive invariant, every safety property of its run and the internal budget |
| `ResearcherManager` | tasks, report, review and four kinds of revision |
| `ResearcherManager_proofs` | its types, its inductive invariant and every property of its run |
| `DeliberationManager` | analyses, integrations, review, revisions and recovery |
| `DeliberationManager_proofs` | its types, two inductive invariants and every property of its passing run |
| `ConclusionManager` | the package, the human's selection, revisions on both sides |
| `ConclusionManager_proofs` | its types, its inductive invariant and every property of its run |
| `PlaywrightManager` | the script, its deterministic gate and the delivery |
| `PlaywrightManager_proofs` | its types, its inductive invariant and every property of its run |
| `MC<module>` | the instance of a module for TLC |

The layers are composed at their files. A Manager's module has the files of its
neighbours as variables (`inbox`, `outbox`, `results`) and the neighbour as an
environment that writes to them whatever the neighbour's own module may write; a
call in flight is one step where `ProviderLedger` has the steps between, a file of
an exchange is one step where `RevisionExchange` has its torn states, and the
decision of the human is one step in `ResearcherManager` where `EvidenceGate` has
its races. Multiplying two of these state spaces adds interleavings that touch
nothing in common.

Definitions marked *Faulty* (`Free_Overwrite`, `Occupied_Any`, ...) are what a
plausible bug would make of the definition below them. They are used by nothing;
replacing a definition by its faulty form must break the property named in
`PROJECT.json` under `mutants`.

### ProviderLedger

An identity is a pair of a task and a stage: `original`, or one of the nine
repairs whose stores share one protocol (`provider_retry.py`,
`provider_contract_repair.py`, `provider_output_repair.py`,
`provider_capability_repair.py`, `provider_runtime_model_repair.py` and the four
of `provider_runtime_output_repair.py`). They form two ladders, in `Predecessor`:

    original -> operator_retry -> contract_repair | output_repair
    original -> capability_repair
    original -> runtime_model -> runtime_output -> runtime_adapter
             -> runtime_identity -> runtime_provenance

| Variable | In the code |
| --- | --- |
| `reservation` | `provider_call_reservations/<id>.json`, its model |
| `authorization` | `provider_*_authorizations`, status and model |
| `job` | the sidecar of `openrouter_batch_jobs`; `ambiguous` is a submission of unknown outcome |
| `status` | the error class the Manager saved about the task, or `answered` |
| `pc`, `call`, `attempt`, `outcome` | where `execute()` of a process is |
| `orphan` | submission threads whose caller timed out |
| `paid` | history: POSTs the Provider may bill |

`Authorize` is `authorize_once` of every store with the checks of its Manager.
`Execute` is `execute()` up to the reservation, `Reserve` the `open("x")` and
what happens to the loser, `Consume` the rewriting of the authorization,
`SendSync`/`AnswerSync` and `PrepareBatch`/`SubmitBatch`/`BatchSubmitted`/
`PollBatch` one attempt of `run()`, `SubmissionTimeout` the `wait_for` that gives
up, `OrphanSubmitted` the thread that returns later, `Record` what the Manager
saves, `Crash` the end of a process with all its threads.

Abstractions. A partial reservation file counts as existing (as for `open("x")`
it does); answers are the classes the caller distinguishes; which tasks a Manager
runs next is left open (any identity, any configured model), which includes every
order the five Managers use and the second process of another front end. Threads
that only poll are dropped when their caller times out: they write nothing that
the next poll does not write again.

### RevisionExchange

Every file is `Absent`, `Torn` (created and not written, or left like that by a
crash) or has its contents. A request's contents are the number of the build of
its message, standing for its timestamps: the message of a request in `Stamped` is
always the same, since the saved review stamps it (Researcher); of any other request
every build differs (Deliberation, Conclusion, Playwright).

| Variable | In the code |
| --- | --- |
| `slot` | `revision_budget/<layer>/<workflow>/<route>/slot_<n>.json` |
| `request` | `outbox/revision_requests/.../<request>.json` |
| `grant`, `used` | `RevisionExecutionAuthorization`: status, reservation lists |
| `claim` | `<request>.consume.json` |
| `waiting` | requests saved as `WAITING_UPSTREAM_RESULT` |
| `built` | history: the last message of a request that is stamped by the clock |
| `pc`, `work` | the operation of a process and what it has read |

`Route`, `Scan`, `TakeSlot`, `FillSlot`, `CreateRequest`, `WriteRequest`,
`SaveWaiting` are one call of `_request_upstream_revision`; `Approve`,
`CreateGrant`, `WriteGrant`, `FindBudget`, `ReadGrant`, `Claim`, `WriteClaim`,
`Rewrite` one operator command on the executing side; `Crash` may stop either
between any two.

Abstractions. `Scan` reads all slots in one step. A slot only ever goes from
absent to torn to written, so what a scan that is spread over time may miss is a
slot taken during it, and the loop that follows finds that one. Reading a file
that another process is writing is an error here, whatever part of it is there.
Base artifact hashes, results, audit events, internal requests and the legacy
outbox are not in this module.

### ProducerManager

One operator command at a time works on `mem`, a copy of the saved state `disk`,
and may stop between any two files it writes (`Crash`). A Provider call is known
by its number and an artifact by the call that produced it, so that "made from
the plan that was reviewed" can be said.

| Variable | In the code |
| --- | --- |
| `disk`, `mem` | `ProducerWorkflowState`, as saved and as the command holds it |
| `pc`, `run` | where the command is: loop index, task overrides, `stop_after_index`, Safe Mode |
| `ended`, `commands` | how the last command ended, how many there were |
| `calls` | reservations and calls: logical task, input, answer |
| `known` | calls whose `batch_id` is in the sidecar |
| `retries` | operator retry authorizations |
| `requests`, `slots`, `grants`, `spent`, `results` | the files of the revision exchange |
| `noted` | the two audit events stamped with the time they are written |
| `outbox`, `handed` | the Researcher's inbox, and history of what was in it |

`Begin`, `Dispatch`, `Send`/`Poll`/`ReservationBlocks`/`LocalRefusal`, `Answered`
and `Respond*` are one turn of `_run_from`; `Finalize`, `Approve`, `HandOff`,
`Complete`, `Plan`, `SavePlan`, `StopForOperator` and `ReviewBlocked` are
`_handle_review`; `Revise`, `Adopt`, `Authorize`, `Budget`, `Exhausted`, `Consume`
and `Invalidate` are `revise` and `_execute_active_revision`; `Recover`, `Resume`
and `ProviderRetry` are the two ways back into the line. `UpstreamRequest` is the
Researcher, which may complain about any plan it was given.

Abstractions. An agent's input is the artifact before its own (the planner is
given the topic and the opinion, which is made from the topic and falls with
it). Reserving and sending are one step: a reservation without a POST is a call
that is never answered, and `ProviderLedger` has the steps between. The appending
of messages is merged with the save that follows, a revision file is written in
one step (`RevisionExchange` has its torn states), and a request is identified by
its review, so `revision_epoch` is left out. The technical retry inside `run()`
is the ledger's. `authorize_revision` and `revise` are one command.

### RetrievalCoordinator

One search task. `Identity` is the task's own search (`original`) or the one
replacement of it, whose task id carries `RETRIEVAL_PROVIDER_RETRY_SUFFIX` (Producer,
after a Batch search that failed) or `RETRIEVAL_RECONSTRUCTION_SUFFIX` (Researcher,
for a failed task without a context). Commands of several processes run at once; each
works on the state it has loaded and overwrites the file. The specification is
`RetrievalSpec`, so that one module can prove about it and `RevisionExchange`.

| Variable | In the code |
| --- | --- |
| `reservation`, `context` | the two create-once files, empty between creation and contents |
| `job` | the sidecar of a Batch search |
| `authorization` | the authorization of the replacement: status, model, `retrieval_context_sha256` |
| `saved` | the latest error, `FAILED`, whether the result is there |
| `cmd` | per process: line of `prepare()`, identity, model, the status it has loaded |
| `paid` | history: searches sent |

`Look`, `Reserve`, `WriteReservation`, `Reserved`, `Consume`, the search in its two
forms, `Save` and `WriteContext` are `prepare()`; `Authorize`, `WriteAuthorization`,
`AuthorizeAgain`, `Load` and `RecordContext` the two stores and their Managers.
`Configure` is a restart with another retrieval model. Every caller passes one query.

### EvidenceGate

Any number of commands at once on one Researcher workflow: each loads the state,
works on its copy, writes the decision file with `open("x")` and saves the copy over
whatever is there. `class` is what a review found; the work between two reviews is
the three saves the gate can see. `Decide`, `Prepare`, `Claim`, `SaveDecision`,
`PlanRevision`, `SavePlan` are `decide_human_evidence`; `Recover`, `Adopt`,
`SaveAdopted`, `AlreadyAdopted`, `BlockForOperator` are `recover_human_evidence_gate`;
`Repair` is the traceability repair; `Deliver`, `DeliverResult`, `SaveSent` are
`_finalize_human_evidence_decision`.

### ResearcherManager

Demo Safe Mode pays for a logical task id once, so a specialist's task, a report and a
review are named by their ids or numbers. `Gather`/`Record` are the specialists
(started together, recorded one by one), `Integrate`, `Build`, `AskReview`,
`AnswerReview`, `Hear`, `Assess` the report and its review with the reuse of saved
answers (`SavedReview`), `Decide`/`RecoverGate` the human, `Execute`, `BeginRevision`,
`Consume` an internal revision (`claims` are the consumed authorizations with the calls
they reserve; `Called` is whom `_build_revision_tasks` finds in the review and the report,
which may be more than the request names), `Route` and `ConsumeResult` the request to the Producer
and its result, `Resume*` the requests of Deliberation with the eight checkpoints of
`ExternalRevisionCheckpoint`, `RuntimeRepair`/`RepairTask` the drift repair, `RunTask`
`--researcher-task`. `Legacy` are requests of Deliberation without a canonical file.

### DeliberationManager

An artifact is named by the id of the call that made it (`Id`: agent, revision number,
fresh or recovered, operator retry, and for a review the artifacts whose digest the id
carries). `made` says what an integration was made from, `reviews` what a verdict is
about. The line of `_continue` is `Dispatch` ... `Review`; `Finalize`, `Approve`,
`Send`, `Plan`, `AskResearcher` what a verdict leads to; `Revise`, `Authorize`,
`Execute`, `Begin` a revision; `Recover`, `RecoverPrimaries`, `RecoverCheckpoints`
what recover keeps and makes again. `reused` is history: an internal revision was
authorized under a number that was in use, which is what `CheckpointsFitTogether` leaves
out and the run `renumbered` shows. An analyst may not be called like an agent of the
line (`NamesAssumption`), or its id would be that of another artifact. Safe Mode only; a
new report of the Researcher keeps all evidence of the older one; a retryable failure is
`RetryableAgentError`.

### ConclusionManager

Four stages make a package, the deterministic validator and the reviewer judge it, a
human selects, Playwright gets the selection. `report` numbers the Deliberation
Results, `finals` the selections; `about` is the package a selection was made from.
`Name` is the id a provider gives its artifact: free text, which it may repeat. A saved
review is matched by these ids (`Agree`, `Matches`), while the model knows each artifact by
the call that made it; `Unambiguous` says that the ids of evaluations and integrations tell
them apart, which nothing in the code sees to. `Before` is what the artifact of
a stage is made from, `Contents` what a package is made from. `borrowed` is history: the
positions, evaluations and integrations recover has restored for an executing revision,
which may be those of a cycle before it. `Human` groups
`Integrate`, `Select`, `Send` and what they save; `Recovery` is what recover restores
from the message history (`Restored`) and makes again.

### PlaywrightManager

Four stages, a deterministic gate with three outcomes (deliver, repair or revise from a
target, block), a request to Conclusion for a handoff with a problem. `made` says of
which handoff and which earlier stages an artifact was made, `form` whether the
citations came from the agent, were restored or repaired, `files` which package lies in
the package file and in the delivery directory. `Deliver` and `DeliverTexts` are the
writes of one package; a stop may come between. `Name` is the id a provider gives its
artifact and `Refers` the one it says it was made from, both free text; `Matches`,
`FirstMissing` and the validator (`Possible`) compare these, and `Unambiguous` says that
they tell artifacts apart and refer to the right ones.

## 3. Runs

| Run | Instance | What it shows | Distinct states |
| --- | --- | --- | --- |
| `ladder` | 2 processes, 1 task, 6 stages of both ladders, 2 synchronous models, Safe Mode | a repair is paid for only on its spent authorization and model; no authorization without the rung below; a grant stranded by a crash is never paid for; the ledger refines `OneShotCalls` | 514 595 |
| `batch` | 3 processes, 1 task with an explicit id, 1 synchronous and 2 batch models, 2 automatic retries, submissions that time out, fairness | billing stays within one reservation, a batch is submitted once, and every `execute()` ends, also behind a sidecar another process or an abandoned thread left `prepared` or `ambiguous` | 79 721 |
| `exchange` | 2 processes, 3 requests of which 1 stamped, budget 2, 2 reservation lists, 2 builds | the budget counts, each request of the outbox behind a slot of its own; who waits has its request in the outbox; no file is replaced by another of its identity; executors agree | 2 817 906 |
| `retrieval` | 2 processes, 5 commands, both layers, both kinds of model | a search is paid once; a replacement only behind its reservation and consumed authorization | 138 127 |
| `gate` | 2 processes, 2 reviews, 1 request of Deliberation | a saved decision is the filed one; Deliberation gets only what a human accepted, as it was | 2 747 994 |
| `producer` | 2 specialists and a batch reviewer, 2 operators, 1 internal and 2 upstream revisions, start and 2 commands, in and out of Safe Mode, fairness | checkpoints are made from each other; only an approved plan is handed over; a revision pays on its consumed authorization and budget only; results are truthful; complete work is reused; every command ends | 256 255 |
| `researcher` | 2 specialists, budget 2, 1 request of Deliberation with and without a canonical file, 4 commands | the review shown, and the one handed over, is of this report; results are truthful; what a revision calls is reserved by a consumed authorization, and reserved alike when it is executed again; decisions and handoffs are about this plan; completed tasks are not paid for again | 2 307 571 |
| `deliberation` | 3 analysts, a review asks for an analyst, the Manager or the counterargument, 2 slots, 1 request each way, 3 commands, 1 stop or failed call | what Conclusion gets was made from each other and approved; results are truthful; a good analysis is kept | 698 082 |
| `exhausted` (violation) | the same | a revision that was refused is made by recover all the same | 216 298 |
| `renumbered` (violation) | no request to the Researcher, 4 commands | recover hands over the integration of an analysis that was replaced | 514 138 |
| `conclusion` | ids of positions repeated, those of evaluations and integrations from the second report on; both impacts, 2 slots, 2 reports, 1 epoch of Playwright, 5 commands, 1 trouble | what Playwright gets was approved; a selection stands for its package; results are truthful; a new report is behind its answer | 1 733 724 |
| `playwright` | from the second handoff on narratives share an id and visuals may refer to nothing; findings at the first and last stage, both problems, 2 slots, 3 handoffs, 5 commands, 2 troubles | what is delivered passed the gate and is complete; a waiting plan can be executed; results are truthful | 699 357 |

`TypeOK` (`RetrievalTypeOK` in `RetrievalCoordinator`) is stated in every module. It is a
theorem of six of the modules with proofs
(of `ProducerManager`, `ConclusionManager` and `DeliberationManager` the proofs have their
own, `TypeInv`, which says nothing of how large a number in an id may be); for the five
Managers it was checked on the same instances and is not part of the runs, which are for
what could be wrong.

Bounds. Two processes are enough to put one between any two file operations of
another; in `batch` a third is one that comes when two have already met. That a further
process or task changes nothing is the theorems', which hold for every number. One
task has every identity of a ladder. `MaxPaid` stops executions that take no reservation
(outside Safe Mode, synchronous, without an explicit id) after they were billed that
often; nothing is claimed about those, and no run has a task without an explicit id outside
Safe Mode. Three requests and two slots make the budget run out in a
race. `MaxBuilds` = 2 is one crash and one recovery of each request. Five commands of
`retrieval` are a search that fails, a replacement, its loss, and two more that try to
take either again. Two reviews of `gate` are an old decision and a new report. Symmetry
is used only in runs without liveness. In `producer`, two specialists have a
revision that keeps an artifact and one that keeps none; the reviewer is a batch
model, the specialists are not, so that both ways back to a reservation occur.
Start, a stop, and two commands are enough for a revision that is interrupted,
recovered and interrupted again. `MaxCalls` is never reached: the budget and the
number of commands end every behaviour before. `researcher` has one specialist a review
names and one Deliberation asks for, so that the two kinds of revision keep different
results. In the last three Managers `MaxTrouble` counts stops, failed calls and failed
handoffs together; one trouble and the commands behind it are a failure and its
recovery, with Playwright's five commands also a failure during the recovery (for two in
Deliberation the instance is too large). In Conclusion five commands are a revision whose
ids are those of an earlier one, recovered, reviewed and selected from. The ids of Conclusion and Playwright are told apart
up to the second report or handoff and repeated from then on, so that one instance has both
kinds of workflow: those where `Unambiguous` holds to the end, and those where the code
compares ids that say nothing. Two slots are a revision and the one that is refused, or the
one behind it.
Deadlock is not checked: a workflow where everything was answered, refused or
exhausted stops.

Fairness. `FairSpec` assumes that the steps of a process that is up are not
delayed for ever: every HTTP call and every poll has a timeout (`run`,
`execute_chat`), file operations return. Nothing is assumed of operators, new
executions or threads that outlive their caller, and crashes are always possible.
`ProducerManager` assumes the same of a running command (`WF_vars(Step)`); it need
not fail, crash or be given. `CommandsEnd` then rests on the budget: with a slot
always left, a command outside Safe Mode revises as long as the reviewer asks. The
other Managers have no loop in Safe Mode: every command walks a line once, so that
its end says nothing that the line does not.

## 4. Proofs

Everything below is checked by TLAPS for every value of the constants, from the
named assumptions about them only (`StageAssumption`, `ModelAssumption`,
`ParameterAssumption`, `ExchangeAssumption`, `FileAssumption`, `BoundAssumption`,
`CommandsAssumption`, `AgentAssumption`, `LimitAssumption`, `TargetsAssumption`,
`ProblemsAssumption`, `NamesAssumption` (of Deliberation's analysts), `ImpactsAssumption`; TLC evaluates them in every run).

**ProviderLedger.** `PaidWithinReservation` is not inductive: it says nothing of
a process that is about to send. `LedgerInv` adds that

- who is past a reservation owns it, or polls a batch the Provider knows
  (`HolderInv`),
- the sidecar of an identity says `prepared` exactly while some thread may still
  write it, and that thread is unique (`JobInv`, `WriterInv`); this is what makes
  the thread that survives its timeout harmless,
- how much has been paid follows from where the owner is (`PaidInv`),
- a right is spent before anything else happens to its identity (`SpentInv`).

From it follow `PaidOnce`, `OneSubmission`, `ExclusiveHolder`,
`RepairsAreAuthorized`, and as action properties `WriteOnce` and
`StrandedFailsClosed`. `LadderHolds` and
`EndpointRepairs` add the ladder, and `Implementation` maps each step to a step
of `OneShotCalls` or a stutter: `Authorize` to `Grant`, `Consume` or the
reservation of an original to `Spend`, the two POSTs to `Send`.

**RevisionExchange.** `IInv` in `CreateOnce_proofs` has four parts. The
core of `BudgetInv` is that slots are taken in order: a process at slot *i* has
seen the slots before it taken by other requests, and behind an absent or torn
slot everything is absent. So the process that fills slot *i* knows that its
request has no other slot, although it looked at them at different times.
`RequestInv` and `GrantInv` follow the files from creation to contents (the
creator is the only writer), and say that a consumed authorization is behind its
claim; that is why replacing it from an earlier read does no harm.

**EvidenceGate.** Commands overwrite each other's state, so nothing inductive can be
said of "the" state. `StatesInv` says instead that the file *and* every copy of it in
a command is `Sound`: it shows a review that was made, and a decision in it is the one
on file for that review. `FilesInv` says what a file may be about
(`NothingIsOverridden`), `CommandsInv` what a command at a `pc` knows of its copy and
the files, `HandedInv` that what was handed over was accepted. Files are only ever
created (`Kept`), so what one command has seen of a file stays true under every step
of another; that lemma is what the interleavings come down to, and `DecisionsAreFinal`
is it as an action property.

**RetrievalCoordinator.** `OriginalPaidOnce` follows from a right: at most one command
(`OneHolds`) stands between the creation of the reservation and the payment, or goes to
a search it cannot resume, and while it does nothing is paid and the sidecar says so
(`OriginalOK`). Once something is paid the sidecar is past `prepared` or no batch was
prepared, and nobody gets the right back (`NobodyHolds`). For the replacement,
`ReplacementOK` follows what a command has loaded: who saw the authorization consumed
is synchronous, so it can neither resume nor reserve what has been reserved
(`FilesInv`: consumed only behind a written reservation).

**ProducerManager.** `CheckpointsFitTogether` speaks of the saved state, but what is
saved next is the copy of the command, so `StatesInv` says of both that they are `Good`:
the completed agents are a prefix of the line with just their artifacts, each made from
the one before it, and a revision in the phase `executing` has spent its authorization
and itself made everything from its target on. `CommandInv` says what the command knows
at each `pc`: the two differ only at `decided`, `planned` and `adopt`; the agent it is at
is the first incomplete one and its revision the executing one (so a call is for the
target or behind it, and only the first gap is ever paid for); the call it waits for is
that of its task on the present input; what it hands over is approved; and a revision on
the way to its authorization holds, step by step, the request, the grant, the current
base and the slot. `FilesGrow` (calls, requests and authorizations are only added to)
carries all of it over the steps of the Researcher. The invariant gives
`CheckpointsFitTogether`, `HandoffWasApproved`, `RevisionCallsAreAuthorized`,
`ResultsAreTruthful` and the action property `CompletedWorkIsReused` at once; the
internal budget is one more conjunct beside it (`BudgetInv`).

**PlaywrightManager.** An answer that recover restores is matched by one id it carries:
the third stage by that of the second, the fourth by that of the third, and the provider
has chosen both. Nothing is assumed of these ids (`Name` and `Refers` are any operators):
the invariant says what follows from them (an approval is about artifacts that refer to
each other, `ChecksInv`, `Refer`), and, behind `Unambiguous(made)`, what follows when they
tell artifacts apart. That is a promise of the providers, and section 5 has what comes of
breaking it. `MadeInv` has a logical task paid for once, so that it has made one
artifact, from artifacts that were themselves made from those before them and from the same
handoff. With unambiguous ids whoever refers to the last of them was made from all
(`MatchGives`), which carries the saved state from one restored stage to the next
(`RestoreStageIs`). `StatesInv` says of the saved state and
of the command's copy that they are `Good`: their artifacts are a prefix of the line
(`Sound`), a saved validation is about all four, and a revision is
about the validation and the Final Conclusion it was planned for (`Bound`).
`CommandInv` says what is done at each `pc`, `DeliveryInv` which files of a delivery are
written there, and `CountsInv` that no number runs ahead of what it counts, so that a
new request or package is not one there already was. `CompletedIsDelivered` is a
conjunct of its own, because a delivery that was cut short is followed by one that
writes all three files again. Five of the theorems are the five properties of the run.

**ConclusionManager.** `HandoffWasApproved` speaks of what Playwright has; what it gets
is a package that waited for the human, and that one is what a review was about, so the
invariant follows a package through the line. `Fit` says of each artifact that its call has
made one, of a review that it was asked about contents of these ids, and, as long as the ids
of evaluations and integrations are unambiguous, that it was made from the ones before it or
has something borrowed among them; `Sound` that this holds of
the saved state and of the command's copy, that a selection stands for the contents
beside it, and that a run that failed outside of a revision has kept all it heard: so
there recover restores nothing but the review (`RestoredSound`), and no selection is left
beside restored contents. A restored or reused review is matched by ids the provider has
chosen, so all that holds in any case is that it was asked about the same ids
(`ReviewByName`). That it is about the positions that are there, although generations of
candidates share their ids, holds when those of evaluations and integrations tell them apart
(`ReviewStems`): it names the evaluation, and that one was made from these positions
(`MadeInv`). Section 5 has what an integration that repeats its id brings about. `CommandInv` has where
the command is: what is packed (`Packed`), approved, waits (`Waits`) and is sent
(`Sealed`). `Bound` and `FilesInv` say that a request of Playwright is about a sealed
package and an earlier selection, and that a plan of it still finds both, which gives
`ResultsAreTruthful`. TLC refuted an earlier form of the property: the ids a revision
gives its stages may be those of an earlier revision, so that whatever recover restores
while a revision executes counts as borrowed, not only what bears another epoch. Four of
the theorems are the four properties of the run; the half of `ResultsAreTruthful` that is
about Deliberation (`UpstreamWasAnswered`) is part of what `Good` says of every copy of the
state (`AnsweredBy`).

**ResearcherManager.** That the review beside a report is of that report is not written
anywhere in the state: `_saved_quality_review_exchange` finds an answer by its task id, and
the id carries nothing of the report but two numbers, the revisions so far of either kind.
The invariant says why that is enough. A request names the report it is about, so building
a report makes every request there is stale (`Built`), and a command that builds one does
so either for the first time or under numbers nobody has reviewed under (`Unreviewed`,
`NumbersInv`): those of a revision whose slot is taken and whose request is not stale. So
two lines never review under the same numbers (`ReviewsInv`), and what is reused behind a
build (`AfterInv`) was said of the report just built. `CountInv` ties the count of the
state to the slots that are taken: it lags behind them only at `begin`, which is why a stop
there (`lost`) is where this ends. `ClaimsInv` says that what a revision has reserved are
saved tasks of its own, whomever the review has named; what is paid for is among them.
`ExecutingInv`, with `Owed` along the line, has the
tasks of the revision in execution: owed until a report rests on them, no result before
that one is filed, which gives `ResultsAreTruthful`. `DecisionInv` says that a request that
is not stale and a report that lies with Deliberation exclude each other by the decision of
the human. All this is `Ordered` and holds as long as the workflow is `Orderly`; types, the
budget, the copy of the command and what a call is authorized by (`Always`) hold in every
state, and `RevisionCallsAreAuthorized` and `CompletedWorkIsReused` rest on that part only.
The attempt at this proof refuted earlier forms of two of the properties, which larger
bounds for TLC confirmed: with two revisions a stop behind a slot, and with a request from
before the exchange resume in the middle of a revision, end in a review of another report
(section 5). `MaxRevisions` = 2 and `Orderly` come from there. Four of the theorems are
properties of the run.

**DeliberationManager.** Two inductive invariants. `IInv` holds in every state. `Good`
says of the saved state and of the command's copy that the review is about the artifacts
beside it unless it refuses them or a revision has given it up (`Synced`), and that an
analysis is replaced only by a revision that names its analyst, is executing and has
given the review up (`OpenOK`); that is what `ResultsAreTruthful` and `HandoffWasApproved`
rest on, since whoever leaves such a revision must have made everything behind it again.
`PaidInv` says that an id names one verdict, so that a verdict that is reused or brought
by recover is about the artifacts whose digest its id carries; `PlanOK` and `FilesInv`
that behind a plan there is a review that refused or a request nobody has answered;
`CommandInv` what is known at each `pc`, among it which tasks are asked, what of them is
answered, and that the saved analyses differ from the command's only in such a revision.
`AnalysesAreKept` follows from the same invariant.

`CheckpointsFitTogether` does not hold in every state: `renumbered` is a behaviour that
breaks it. `NumberedInv`, on top of `IInv`, holds as long as each revision has a number of
its own (`~reused`). `MadeInv` says that an artifact is made once, by a call that is paid,
so that what it was made from does not change. `Fitting` says of both copies that an
integration was made from what lies beside it or is void, and that only a busy revision has
void ones; `WayOK` which of them fit at each `pc`, stage by stage. The number is needed
because recovery sees by it that a checkpoint is older than a revision (`GivenUp`): a
revision under a used number gives nothing up. Two theorems are types and `KeptAnalyses`,
three the invariants of the run.

Only model-checked: `EveryCallEnds` and `CommandsEnd` (liveness and fairness are
beyond the prover), `ReservationsAreKept` and `DecisionsAreOfThisPlan` of the Researcher
(the first would need the invariant to follow the counters of a review id over every way back
into a revision, the second the plan of a report), and the violations. Every other property
of a passing run is a theorem.

## 5. Where the code disagrees with what it says

Runs show the first two; the others were met while modelling, and each is a behaviour of
the model named. Some have a definition at the end of the module that states what is
expected; adding it to the run's cfg makes TLC print the behaviour (for
`ApprovalIsOfThisPackage`, together with `Name <- RepeatedAlways`).

- **Deliberation** (run `exhausted`). A revision that is refused for want of budget has
  already raised `revision_count` and appended its history record
  (`deliberation/manager.py:4126-4144`); recover takes the record for a revision and
  makes it, with neither authorization nor slot. `RevisionsAreNumbered` states the
  count it breaks.
- **Deliberation** (run `renumbered`). An internal revision behind one of Conclusion runs
  under a number that is in use (`deliberation/manager.py:4151-4154`), and no history
  record is added for it. If its integration fails after its analysis was saved, recovery
  finds nothing older than a revision, has the old integration reviewed and hands it over
  with the new analysis. Further: recover on a workflow that resume has blocked with a new
  report reviews the old integration again; the counterargument of a revision whose
  number did not change is reused for a new integration; an old error of an analyst
  blocks the retry of the reviewer; a stop between the save of the history and that of
  the task messages leaves "Required revision analyses remain incomplete" for ever.
- **Provider ledger.** A batch that is still running at the deadline raises an error
  that promises "recovery may poll the saved batch ID without another paid
  submission". For a repair identity recovery asks for a pending authorization first
  (`common/agents/base.py:397-592`), and that one was consumed before the submission.
- **Revision exchange** (`ReissueAccepted`). Deliberation, Conclusion and Playwright give a request a
  deterministic identity and fresh timestamps. After a stop between
  `create_request_once` and the save of the workflow, recovery builds another message
  under the same identity, and the repository refuses it, for ever. The Researcher
  stamps the request with its review and is not affected.
- **Retrieval.** `consume()` looks at the copy of the authorization it was given: two
  commands that both loaded it pending pay for "one operator-authorized replacement
  Retrieval call" (`common/retrieval_reconstruction.py:28`) twice. A Producer retry that
  stopped behind its context is refused as already consumed, and plain recover as
  `RETRIEVAL_AMBIGUOUS_STATE`, so the context that was paid for is lost to it; the Researcher's
  reconciles it. A create-once file left empty fails closed for ever. A plain recover
  after a Batch search failed replaces the last error, and the retry can no longer be
  authorized.
- **Producer.** A stop while an agent is waiting leaves its reservation and
  `WAITING_AGENT`: recover advises `--producer-provider-retry`, which demands `FAILED`
  (`producer/manager.py:270-271`). If the outbox cannot be written, or the process
  stops behind the save of `APPROVED`, recover raises "no incomplete checkpoint" and
  nothing sends the plan (`NothingLeftMeansHandedOver`). The audit event of an adopted
  request carries the time; after a stop behind it every further `revise` is a conflict.
- **Researcher** (`RevisionsKeepToTheirPlan`). The plan of a revision a human has asked for counts the
  agents of the findings; its execution builds the tasks again, from every finding and target
  of the review and the gaps of the report (`researcher/manager.py:3902-3936`, `5472-5542`),
  and authorizes as many calls as there are tasks: more than the plan says, whose
  limits are to be kept (`README.md:274`, plan記載の上限内).
- **Researcher.** After a stop between the budget slot of a revision and the save of
  its tasks, `--researcher-task` gives the workflow a status from which the revision
  resumes with no task, reuses the old review and files a result
  (`RevisionsDoTheirTasks`). A request of Deliberation from before the exchange stays
  current whatever becomes of the report (it names no hash of it), so resume answers
  it while an internal revision is authorized or in execution: it builds the old report
  again and reviews it under the revision's own count. The result of the revision is then
  filed although its tasks were not done, and the report they lead to is later shown with
  the review of the old one, which has its task id (`researcher/manager.py:5337`).
  `ReviewedAsShown` and `ResultsAreTruthful` are about workflows with neither (`Orderly`).
- **Conclusion** (`ApprovalIsOfThisPackage`). Recovery matches saved results "by logical
  task and dependent artifacts" (`README.md:141`), but a review only by the ids of candidates,
  evaluation and integration, which are free text of the provider
  (`conclusion/manager.py:3987-4005`). If an integration repeats its id and its own review
  fails, recover gives it the approval of the integration before it, and the human's
  selection from it goes to Playwright.
- **Conclusion.** After a stop between the handoff to Playwright and the save, a human
  may select something else (`SelectionsChangeByRevision`). Recovery of a revision
  restores the answers of the cycle before it, whose ids collide: those of the first
  cycle by the count of revisions, those of an earlier revision by the epoch
  (`RevisionsAreMadeAnew`; `HandoffWasApproved` leaves these packages out). A stop within
  the line leaves a status no command accepts; a handoff that failed leads over recover
  and the validator's `human_gate` to `BLOCKED` with an approved review; the empty
  budget to Deliberation raises and leaves `REVIEWING`; a request of Playwright at the
  revision limit is blocked and never answered; a stop between an audit event, a request
  or a result and the save behind it makes the next attempt a conflict.
- **Playwright** (`ReusedStagesFit`). Normal recovery reuses only stages in order
  (`README.md:598`). Recovery and validation compare ids that are free text of
  the providers (`playwright/manager.py:2456-2495`, `2580-2609`; `playwright/validator.py:110-121`).
  If the narrative of a second revision repeats an id and its scriptwriter fails, recover
  takes the script of the revision before it, and its citations and visuals, for this one's.
- **Playwright.** A stop or an empty budget between the two saves of resume leaves a new
  handoff that no completed result stands behind. A deterministic repair over a saved
  plan completes the workflow with phase `AUTHORIZATION_REQUIRED`. After a round
  through Conclusion, recovery of a second revision restores the stages of the previous
  one (ids by count, not by epoch). A stop in a designing, validating or revising status
  is accepted by no command. A stop behind the event of a consumed result, or between a
  result and the save, makes resume or recover a conflict for ever.

## 6. Not modelled

- **Two processes over one Manager's state** except where it is the point: `EvidenceGate`
  and `RetrievalCoordinator` have it, and show that the create-once files decide. For the
  five Managers one command runs at a time, which is what the operator is told to do;
  with two, the last writer wins and what is claimed of "the" saved state is not.
- **Outside Safe Mode** only the Producer (automatic revision). Safe Mode is what the
  repository's README prescribes.
- **Commands that repair one answer**: contract and output repairs of each Manager,
  saved-payload, traceability and candidate-coverage repairs, cross-revision repair,
  target narrowing, legacy requests other than the Researcher's. They are ledger
  identities (`ProviderLedger`) followed by the line of recover.
- **Conclusion**: `DEFER` and the kinds of selection are one selection; `save_package`'s
  file is the state's. **Playwright**: the gate's branch to Conclusion is reached only by
  `FINAL_CONCLUSION_CHANGED`, which no command of this layer can produce; handoffs
  without a selection. **Retrieval**: several queries in one search, ranking.
- **Internal requests' files, results and audit events** of the exchange have their torn
  states in no module.
- Left out for good: prompts, role definitions, schemas, validation and deterministic
  rewriting (data, not control), HTTP, Discord and CLI formatting, mocks and scripts.

What could come next: Researcher and Producer over `RevisionExchange` as one
request/result protocol with an abstract specification; the commands that repair one answer
in each Manager; the other Managers with two processes.
