# SpecTrace in TLA+

Specifications, model-checking runs and proofs for SpecTrace: the Django application `spectrace` (requirements, their verification status, agent tasks, flows, webhooks) and the package `spectrace-flows`. Paths below are relative to the repository root; `requirements/` stands for `spectrace/requirements/`.

The application keeps all its state in one SQL database (SQLite by default, PostgreSQL when `DATABASE_URL` is set) and runs in two gunicorn workers beside management commands and cron jobs. There is no `select_for_update`, no `ATOMIC_REQUESTS`, and `@transaction.atomic` only in `services/agent_tasks.py` and `services/corpus_review.py`. So what a reader has to fear is the same everywhere: a row read, then another process, then a save of what was read; and a process that dies between two saves.

## Inventory

| Component | State | Operations | Interacts with | What makes it correct |
| --- | --- | --- | --- | --- |
| Agent task blackboard (`services/agent_tasks.py`, `models.py`, admin) | `AgentTask`, `Agent`, `AgentTaskReview`, `AgentTaskHistory` rows, leases | register, claim, start, submit, review, merge, release, `expire_stale_leases`; admin edits and deletions | agents over HTTP and the CLI, cron | one task per agent, an approval is of the commit reviewed, no self-review, work on merged dependencies only, claims return |
| Flow engine (`spectrace_flows/engine.py`, `requirements/flows/`) | `VerificationFlowRun` and `VerificationFlowStep` rows; context and alarm of a process | look up, create run, execute and record each step, complete, reload | definitions synchronised or cleared meanwhile | a verdict that the step rows justify, bounded time, no orphan rows |
| Verification status (`status.py`, `importer.py`, `api.py`, `openslo.py`, `invariants.py`) | `verification_status` and `slo_status` of each requirement; results, SLOs, validations | imports, SLO updates, validation results, status loops, `check_invariants --fix` | each other, without transactions | the stored status is the computed one, passing has evidence, a breach overrides |
| Webhook ingestion and test links (`webhooks.py`, `services/github_webhook_handler.py`, `import_test_links`) | `WebhookEvent`, `TestRun`, `TestResult`, `TestRequirementLink` rows | receive, triage, import, link, update links, flag | GitHub, which repeats deliveries; imports at the command line | idempotence, whole runs, links that show the newest run, regressions flagged |
| Decision corpus (`services/corpus_*.py`) | `CorpusEntry`, `CorpusEntryVersion`, `CorpusSnapshot`, `SpecReview`, `ReviewCoverage`, `ReviewFinding` rows | parse_corpus, capture, review, drift; deletions and statuses in the admin | requirements, specification files | what a review recorded stays, its coverage and findings agree, drift reports what has changed |
| Enforcement results (`spectrace_client/`, `api.py`, `validation_runs.py`, `import_inapp_validations`) | `InAppValidation`, `InAppValidationRun` and `InAppValidationResult` rows; what a with-block of an application has gathered | enter, step, leave, submit once; the endpoint, the import; lists, pages and comparisons | applications over HTTP, the verification status | what was told to be stored is stored, once; no failed step becomes a success; reports agree |
| Conflicts (`services/conflict_detector.py`, `detect_conflicts`) | `ConflictLog` | four detectors, log, resolve | links and results of the webhook and the imports | one open row for a conflict, the same whichever way round |
| Specification import (`parser.py`, `linear.py`, `import_test_links`) | the requirement tree (treebeard paths), dependencies, test links | parse, clear, two passes of updates and creations, dependencies | everything that refers to requirements; other projects' imports | what ends is stored, projects keep apart, the tree stays a tree |
| Checks of links, drift and dependencies (`validator.py`, `services/dependency_validator.py`, `integration_risk_detector.py`, `impact_analyzer.py`) | none | searches and reports | the requirement tree and its links | they agree with each other and with the rows |
| Code impact (`services/impact_graph.py`, `git_cochange.py`, `map_reader.py`, `contract_snapshot.py`) | maps, snapshots and histories of project roots | map_init, map_promote, generate_contract; the bounded search, its risk and tests | other projects' roots, the requirement tree | reaches what lies within its depth and nothing else; breaking changes are reported |
| Matrix and Linear reports (`matrix.py`, `linear_reporter.py`) | comments and labels of issues | read, comment, fetch labels, set labels | results and links; Linear, and people who edit its issues | tells of what runs recorded |
| Flow files (`flow_editor.py`, `flows/sync.py`, `spectrace_flows/parser.py`) | YAML files, `VerificationFlow` rows and their requirement links | edit, parse, store, link, clear | the engine, the requirement tree, the admin | flows follow their files, files stay readable |
| Scenarios (`spectrace_flows/scenario.py`) | one run in memory | set-up, phases, assertions, tear-down | code of the scenario's author | what was set up is torn down, last first |
| Flow status and health (`flow_status.py`, `health.py`) | a cache | overview, lists, details, live view, health | rows of the engine | the views agree, the health is of one execution |
| Linear client, GitHub comments, Lore, HTTP layer, admin, CLI, demos | none of their own | HTTP, a subprocess, forms and views | all of the above | - |

Interactions are calls and shared rows: there are no queues or callbacks. The engine runs inside a request or a command; the webhook handler runs the import in the request; cron runs `expire_leases`. The hard behaviours, line by line, are the hazards of `PROJECT.json`: interleaved transactions, stale rows saved whole, crashes between saves, deliveries that come twice, alarms and timeouts, leases, and loops that stop half-way.

## Modules

Three families of modules share their rows and are checked as compositions, because the components share those rows in the code: `FlowStatus` over `FlowEngine`; `TestReports` over `Conflicts` over `WebhookIngestion`, with `WebhookFetch` beside them; and `FlowFiles` over `ImpactGraphs`, `SpecChecks` and `SpecTree`. A module that adds a component extends the one below and states its own steps; the steps of the lower module stay whole actions.

### Agent tasks

* `AgentTaskRows` - the rows and the pure rules about them: the transition table, who may claim, submit and review, and what each service does to a row. Each guard in it is one function or one block of checks of `agent_tasks.py`.
* `AgentTasks` - every service call as one step, which is what SQLite gives: `ClaimTask`, `StartTask`, `SubmitForReview`, `ReviewTask`, `MergeTask`, `SweepList` and `SweepRelease` (the loop of `expire_stale_leases`, one transaction per task), the clock, and the operator's edits and deletions in the admin. A call that raises rolls back and is a stuttering step. `logged` keeps the newest history row only.
* `TaskBoard` - what the blackboard promises, with a task that is waiting, held, submitted, returned, accepted, landed or dropped. `AgentTasksRefinement` maps the rows to it.
* `AgentTasksRC` - the same services on PostgreSQL at READ COMMITTED. A call is split at its statements: `Load...` reads the rows and makes the checks on them, `CheckClaim` is the two further queries of `claim_task`, `Commit...` is the write. `claim_task` is a compare-and-swap on the status and updates four columns; every other service saves the whole row that it loaded.

* `TaskChecks` - what `check_invariants` reports of the blackboard (INV-G to INV-K), as operators on the rows of `AgentTasks`.

### Verification flows

* `FlowEngine` - executions on the Django storage. `LookUpFlow` copies the definition, `CreateRun` looks it up again, then `ExecuteStep` or `FlowTimesOut`, `RecordStep`, `CompleteRun` and `ReturnRun`; `RowIsGone` is each call that finds its row deleted, `Crash` the death of a process. Time is what steps have used; the alarm cuts a step at `StepTimeout`, and off the main thread `signal.signal` raises and the step fails unexecuted. What a server answers is a choice.

* `FlowStatus` - the overview, the list, the detail and the live view of runs, and the health of the Linear connection: `CheckHealth` executes the registered flow (an execution of `FlowEngine`), turns its rows into checks and stores the result in the cache, which expires. A run remembers when it was started, and a list of runs, newest first, is the sequence in which each run was started before the one in front of it; no two executions start at the same instant, as `started_at` is of microseconds. `FlowViewsAgree` is three statements: the lists, counts and pages agree (`ListsAgree`, of the overview and each page in `PageAgrees` and of the list that continues in `ListAgrees`), a run is shown with the verdict that its steps bear out (`VerdictsAreShown`), and the health is that of one execution (`HealthIsOfOneRun`).
* `FlowFiles` - `OpenForm`, `PostForm`, `OpenFile` and `WriteFile` are a request of the editor up to each of its effects on the file; `ParseNext` one file of `parse_directory`; `BeginSync`, `StoreFlow`, `LookUpRequirement` and `LinkRequirements` the statements of `sync_yaml_flows_to_db`; `SyncCodeFlow`, `DeleteFlow` and the imports of `SpecTree` go on beside them. A file is a mapping, empty, or damaged; a step of it is what the parser looks at. `Documents` are the mappings that may come up, which merging does not leave.
* `Scenarios` - one `Scenario.run`, each call to the author's code an action that returns or raises; `log` keeps the calls in the order they were made, with how each ended.

### Verification status

* `StatusRules` - `compute_verification_status`, `compute_inapp_validation_status`, `compute_unified_verification_status` and `compute_slo_status` over sets of statuses.
* `VerificationStatus` - the processes that write evidence and statuses. A loop holds the rows as it listed them, visits them in any order and saves single fields; what is read on the visit and what was read at the listing is kept apart, as in the code. `Entries` chooses the entry points that a run has.

### Webhook ingestion

* `WebhookIngestion` - `Receive` (with its duplicates, which do nothing), `Triage`, the import (`CreateRun`, `AddResult`, `FinishRun`), the linking, the loop over links that saves whole rows, the outcome of the event, `import_test_links`, the fix of INV-E, errors inside the handler (`HandlerFails`) and crashes. `import_results` is the same import without a delivery.

* `WebhookFetch` - the calls to GitHub that `WebhookIngestion` leaves open: the token, the pages of artifacts, the download, each with its retries and its errors. It adds no step to the import; every step implements one of `WebhookIngestion`.
* `Conflicts` - the four detectors as operators over links, results and fields of requirements (antonyms are pairs of a constant), and the log: `Detect`, `LogNext`, `Resolve`.
* `TestReports` - the matrix as operators, and `report_to_linear` call by call: `StartReport`, comment, fetch, update of the labels; a person edits the labels between any two.

### Enforcement results

* `Enforcement` - the with-blocks (`Enter`, `AddStep`, `Exit`), their one POST (`Post`, `GiveUp`, `Answer`), the endpoint and the command statement by statement (`CreateRun`, `LookUp`, `CreateValidation`, `UpdateValidation`, `StoreResult`, `Finish`), handlers that die. Feature flags are functions from names to values, merged as the client merges them.
* `EnforcementReports` - regressions, vendors, statistics, pages and comparisons, as operators on those rows. `ReportsAgree` is four statements: a comparison turns around and adds up, a regression is the one that the comparison of its two runs shows, the row of a run accounts for its results, the pages show every run once.

### Requirements and impact

* `SpecTree` - `parse_specs` and `import_linear` over treebeard: an import clears, reads its rows (`ReadOwned`), updates or creates each entry with the copies it holds (`Update`, `Create`), sets dependencies, and may raise at any entry. treebeard is external and modelled from how it stores paths. `ImportTestLinks` and `RecordRun` keep the links.
* `SpecChecks` - drift, coverage, high-risk, dependency and risk checks as operators; the searches are recursive functions of what they have still to look at (`Walk`, and `Dfs`, whose loop over the neighbours is one argument and whose call for a neighbour is `Inside`), which keeps the module within reach of proofs.
* `ImpactGraphs` - the roots with their maps, snapshots and histories, the commands that edit them, and the analysis: `Edges`, the queue of the search as in the code (`Enqueue`), risk in hundredths. Names are pairs of a kind and a number.

### Decision corpus

* `Corpus` - `parse_corpus` one autocommitted statement at a time (`StartImport` and `WriteNextFile` upsert an entry, `CheckVersion` is the lineage check and the look-up, `CreateVersion` the insert, `LinkVersion` a round of `_resolve_supersedes`), the review as a transaction that captures and commits (`CaptureForReview`, `CommitReview`), drift, which captures outside a transaction in two steps (`CaptureForDrift`, `SetMembers`) and otherwise only reads, the admin, and `Crash`, which is also every error that is raised. A version is its key and its content; scope, checks and conflicts of a content are constants. `known` is what an import holds in memory, with `Gone` for a row that was deleted after it was read. The hash of a snapshot is the sequence of contents in canonical order, as in `CorpusSnapshot.capture`.

The modules `MC...` give TLC its constants. A definition introduced by "Faulty variant of" is a plausible bug of the definition after it; no specification uses it. It shows that the properties of a run depend on the code.

## Runs

Every passing run is exhaustive within its bounds.

| Run | Model | What it shows |
| --- | --- | --- |
| `AgentTasks_reviews` | `DeletionSpec`; two tasks, the second builds on the first; two agents that change roles, are deactivated and deleted; two commits; operator; sweep | What is approved or merged is a commit that an approving review looked at (`ApprovedCommitReviewed`); work goes on only on merged dependencies; attempts are the change requests and exhaust the task; a reviewed task keeps its owner; what `check_invariants` reports is the administrator's doing (`ReportsAccuseOperators`). |
| `AgentTasks_board` | `FairSpec`; two independent tasks, two agents, one commit | `ImplementsTaskBoard`, the refinement; `UnstartedClaimReturns`, with cron. |
| `AgentTasksRC_interleaved` | two workers whose statements interleave at READ COMMITTED | What survives there: claims have an owner and a lease, an approval is of the commit reviewed and the history tells the status (`ReviewsAreOnRecord`), one of two racing claims raises. |
| `FlowEngine_steps` | `StatusSpec`; two executions, one off the main thread, a flow that is changed and cleared meanwhile; the views and the health | A PASSED run has a passed row for every step, a FAILED run ends in its one failure, rows are the executed prefix, an assertion passes on a response only, time is bounded, a completed run is frozen, a run that has begun is judged unless its process dies, and the views of the runs agree (`FlowViewsAgree`). |
| `VerificationStatus_alone` | one process, every entry point, two runs | A loop that is over leaves INV-A and INV-B behind; `check_invariants --fix` restores both. |
| `VerificationStatus_concurrent` | two processes that interleave and die, every entry point | `passing` has evidence of the kind asked for. |
| `WebhookIngestion_redelivery` | `FetchSpec`; two processes, one delivery that may come again at any time, two runs, a GitHub that refuses, fails or pages | One whole run for each delivery, a link shows status and run of one and the same run, and the last call that was made accounts for what became of the event (`FetchAccountsForEvent`). |
| `WebhookIngestion_alone` | `ReportSpec`; one process, two tests, two links, two requirements; detections and reports after the imports | Regressions are flagged, links follow the newest run, every recorded delivery is settled; a conflict has one open row (`ConflictsAreLoggedOnce`); the matrix and the issues tell of runs that were recorded (`ReportsTellOfRuns`). |
| `Corpus_concurrent` | one import, one process that reviews or reports drift, an administrator; all may die | No row or command refers to what is not there; what a review recorded is never changed (`AuditTrailIsFixed`); at most one version of an entry is covered, and without a finding it is cited (`LedgerIsConsistent`); drift reports a review that loses coverage, but in three named cases (`DriftSeesLostCoverage`). |
| `Enforcement_concurrent` | two with-blocks and an import on one requirement, lost and late answers, a handler that dies; the file imported has two entries of one validation, the later without a time, and one of an unknown requirement | What a block submits is stored at most once, if its application was told so it is there, and no failed step is stored as a success (`SubmissionsAreRecorded`); comparisons, regressions, vendors and pages agree (`ReportsAgree`). |
| `SpecGraph_imports` | `FlowFilesSpec`; two projects that import at the same time, with a dependency cycle, a foreign id, a file that does not parse and one that raises; two roots; two flow files, two requests of the editor; a scenario | Projects keep apart, what ends is stored, the checks and the views of dependencies agree, the blast radius is exact, contracts break loudly, flows follow their files, saved files are readable, scenarios clean up. |

Runs that find a violation, each a disagreement of the code with what the repository says of it:

| Run | Finding |
| --- | --- |
| `SpecGraph_nested` | A requirement that has a child is reported as an orphan (`OrphansAreLeaves`): `req.save()` writes back the row as the import read it, with the count of children that `add_child` has incremented since (`parser.py:185`), and treebeard then takes the parent for a leaf. |

### Disagreements noted while modelling, without a run

The models show these as well; no run is kept for them.

* `services/agent_tasks.py:445` - exhaustion takes READY_FOR_REVIEW to ABANDONED, which `AGENT_TASK_STATE_TRANSITIONS` does not list; for the same reason (`:426`) the decision `rejected` always raises INVALID_TRANSITION, although docs/agent-tasks.md:155 says it abandons the task.
* `services/agent_tasks.py:615` - the lease of a started task has no effect: `expire_stale_leases` lists CLAIMED tasks only, so an agent that goes away holds its task for ever, although leases "prevent stuck claims from blocking work" (docs/agent-tasks.md:13).
* `services/agent_tasks.py:632` - a sweep releases a claim that is younger than its list, since `release_task` looks at the status and not at the lease.
* `services/agent_tasks.py:177` and `:443` - at READ COMMITTED two concurrent claims give one agent two tasks, and two concurrent change requests count once.
* `admin.py:939` - publishing a draft in the admin writes no history row (INV-I of docs/agent-tasks.md:276); `models.py:1185` - deleting an agent orphans the task it holds (INV-G, :274).
* `spectrace_flows/engine.py:130` - the run of a killed process stays RUNNING; `:146` - the last step may end after the flow timeout and still pass; `executors/wait.py:40` - a wait step fails when the alarm rings, although wait.py:22 says that it always passes.
* `services/github_webhook_handler.py:128` - a test import by the webhook leaves the stored status stale (INV-A); `api.py:309` - the validation endpoint stores a status computed over all runs and not the newest; `api.py:183` - a breach reaches the verification status only if the request asks for it; `status.py:61` - unlinking all tests does not make a requirement untested.
* `importer.py:194` - a test that fails at its first run is not flagged, although INV-E as documented asks for it; `importer.py:190` - of two concurrent imports the older may save its status last, and `:199` - a regression against a status saved meanwhile is not flagged.
* `services/corpus_parser.py:563` - an import that a lineage error or a version conflict ends has already changed the entry, although the docstring (`:555`) says that lineage is checked before anything is written; `:576` - a version imported late escapes the lineage check of the one above it.
* `models.py:1718` - drift that dies between the insert of a snapshot and its members leaves an empty snapshot under the hash of the whole corpus: the next review covers nothing.
* `services/corpus_drift.py:105` - a link that is set after a review, a retired entry and a deletion are not seen by drift, which looks for added versions only.
* `services/agent_tasks.py:283` - at READ COMMITTED a stale save takes a task out of MERGED, which docs/agent-tasks.md:58 calls terminal; `status.py:35` - a status loop with rows listed earlier overrides a concurrent breach (INV-B, docs/state-machines-and-invariants.md:218); `services/corpus_matcher.py:146` - when version 2 of an entry is superseded by another entry, a review covers version 1, although "only the newest version of an entry applies" (docs/corpus-authoring.md:148).
* `flow_status.py` - the current step of a live run is always null; flows synchronised from YAML never appear in the overview, which goes through `REGISTERED_FLOWS`; a flow that is cleared between the execution and the reading of its rows gives "All checks passed" without a check.
* `services/github_webhook_handler.py:75` - a 404 from the listing or the download ends as SUCCESS without a run, although the docstring says that it raises; a 404 from the token request is a FAILED event; a missing PyJWT leaves the event RECEIVED with its time of processing set.
* `services/conflict_detector.py` - a link shows its newest run only, so "NEVER both passed in the same run" and `min_overlap` do not hold as documented; the antonyms "lock" and "unlock" are found as substrings, so that identical responses are flagged; two detections at a time may log a conflict twice; the admin can reopen a resolved conflict.
* `services/linear_reporter.py` - an issue counts as updated although its comment and its labels failed; links that were all skipped give the label `tests:passing` while the status says untested; a report of an older run sees only the links that no later run updated, and may replace a failing verdict by a passing one; labels that people set between fetch and update are lost.
* `api.py:243` - two concurrent submissions for a new requirement create two validations, after which every submission of it raises MultipleObjectsReturned; `spectrace_client/context.py` - a block that raises after passed steps is submitted as a success.
* `validation_runs.py:254` - a comparison keeps one result for each validation, "keyed by validation ID"; the rows come newest first and the last one read stays, so a run whose file lists a validation twice is compared by its oldest result, while the regression of that validation goes by its newest. This is why `RegressionsAreShown` speaks of runs with one result of it.
* `parser.py:185` - besides the finding: a new root that sorts before an existing one shifts treebeard paths, and the stale save then raises or moves a subtree.
* `services/impact_graph.py` - requirement ids that do not begin with REQ- or req- are left out of the blast radius without a word; a larger change may have a lower risk; `map_validate` accepts declarations that `read_all_dependencies` raises on; `map_init` overwrites mapped requirements; the decay after 90 days never applies, because no older commit is read; `ContractDiffer` is called by tests only.
* `views.py` (high_risk_dashboard_view) - counts over several joins multiply each other; `views.py:858` (requirement_detail_view) filters SLOs by a field `requirement`, which the model does not have (it is `requirements`, `models.py:935`), so the page raises for every requirement that exists; no test opens it.
* `flow_editor.py:168` - between emptying and writing a file there is nothing in it, and `parse_flows` then skips the flow without a word; two requests for one file may mix what they write, or lose the edit of one; a POST to an empty file raises an uncaught AttributeError, one to a path of another extension an uncaught ValueError. `flows/sync.py:156` - a synchronisation that dies between storing and linking leaves the new steps with the old links; of two files with one id the last read wins, and every `*.yaml` is read before any `*.yml`.
* `spectrace_flows/scenario.py:167` - "Teardown always runs", but not after an interrupt or an exit, nor after a fixture class whose constructor raises (`:185`); a fixture whose set-up raised half-way is not torn down.

### Bounds

* Agent tasks: two tasks are needed for `OneTaskPerAgent` and for dependencies; every other property speaks of one task. `Roles` are those that agents register with: a planner can neither claim nor review, so it does what an inactive agent does and is left out of the larger runs. `MaxAttempts = 2` reaches both sides of the limit. Two commits tell the one reviewed from another; the board needs one. Attempts and reviews are bounded by the services themselves; at READ COMMITTED lost updates remove that bound, so `ReviewBound` (`MaxReviews`) cuts the search there.
* Flow engine: `StepTimeout = 2`, `FlowTimeout = 1` and durations 1, 2 and 3 are the smallest numbers for which a step leaves the flow in time, makes it late, and is cut by the alarm. The flow timeout is then smaller than a step, so that the second step already sees it. The definitions have every type of step, none or three each.
* Status: one requirement of method `both` sees every rule, as the rules treat requirements one by one; two runs tell the newest from all of them (`MaxRuns`), two check times the latest from an earlier one. Two processes interleave with one run and one check time.
* Corpus: two versions of one entry and one of another are the least for a bump, a rename and a supersession across entries; the checkouts include one that drops a check silently and one whose link may find its target or not. One review and two snapshots show staleness; a second review of the requirement would only take the place of the first.
* Webhook: two runs are the least for "older" and "newer"; one delivery and two processes for redelivery. `PageSize = 2` with three artifacts needs a second page, and `MaxRetries = 1` shows the first and the last attempt. Detections and reports begin after the last import, as they only read what it left; `MaxLogged` and `MaxReports` are two, so that each meets what the one before it left.
* Enforcement: two blocks for the race, one import for the other way in, a requirement that exists and an id that does not, a submission with flags from every source and one without; the first block has a failed step or raises after a passed one, the second has no step and may raise; the file of the import is empty, or has three entries, two of them of one validation, of which the last has no `checked_at` and so counts as checked now. `MaxFailures` is one handler that dies.
* Requirements: five ids, of which project A has three in two levels and project B depends on one, and two imports of each (`MaxImports`) let each directory of A follow the other with and without `--clear`. `MaxEdits = 3` edits of the roots are enough for a snapshot to be taken before and after a change. Links and test runs are read after imports, and only one of each (`MaxRuns`). Edits of the roots begin when the imports are over: they share nothing but the rows.
* Flow files: the two files define one flow, so that both their order and their difference show; `MaxSyncs = 2` for what the first left, `MaxSaves = 2` for two requests at a time. To keep the product small, files are edited before any import and while the first synchronisation parses them, since nothing reads them later, and imports of project A may go on while flows are linked, the only time at which a synchronisation looks at requirements. A scenario runs alone, as it shares nothing with the rest; two fixtures and two assertions show the orders.

Symmetry is used over agents, workers and processes only where no liveness property is checked and no constant tells them apart.

### Fairness

* `AgentTasks!FairSpec`: time passes for every lease, and the loop of `expire_leases` is run by cron (docs/agent-tasks.md, "Cron Setup") and goes through its list. Agents, reviewers and the operator owe nothing.
* `FlowStatus!StatusSpec`, as `FlowEngine!FairSpec`: an execution that was not killed goes on, as `execute` waits for nothing but the step at hand, whose duration is finite.
* `TestReports!ReportSpec`: no crashes, and a request that was begun runs on. Whether anything begins is left open. With crashes `EventsAreSettled` is false, since a redelivery is answered "duplicate": that is the hazard listed at `webhooks.py:91`.

Deadlock is checked except in the runs of `Enforcement` and `SpecTree`, whose commands and requests all end: an application leaves its blocks, an import is over.

## Proofs

Eight modules prove properties for every value of the constants, from the assumptions named in the modules they are about: any number of agents, runs, processes, requirements, blocks and imports, any contents of files and answers of servers, any bounds. Each has an inductive invariant, one lemma or step for each action, a theorem `Invariance == Spec => []IInv`, and then the properties. An invariant was first checked by TLC, then proved.

The assumptions are of types and of distinct names (`NoAgent` is no agent, blocks are not imports), finiteness where something is counted or searched (`Requirements` of the detectors, the flows that are registered in code, the files of links, the maps, surfaces and commits of a project root), that no changed file has the name of a requirement (`ImpactAssumption`: a path or a file is never `REQ-` and a number), bounds that are natural numbers, for `TestReports` that the labels an earlier report left on an issue are not of both verdicts, since the code sets one of them, and for `FlowFiles` that the mappings that may come up are closed under the merge of `save_flow` and that the requirements of one are a sequence of ids or a scalar (`FlowFilesAssumption`).

* `AgentTasksProofs`, for `DeletionSpec` (the more general one). `OneTaskPerAgent` speaks of cardinalities; the inductive form is `HeldAlone`: two tasks held by one agent are equal. `NoSelfReview` is not inductive: the owner of a reviewed task could change if the task returned to the blackboard. `ReviewedTaskStaysOffBoard` says it does not, and the two go together. `ApprovedCommitReviewed` needs that a commit changes only in `submit_for_review`, which leaves `approved` by the guard `MaySubmit`. `AttemptsAccountForReviews` is inductive: the one action that adds a change request also counts it and abandons a task that has none left. `ReviewedTaskKeepsOwner` and `ReportsAccuseOperators` are action properties that follow from the invariant, action by action. `ServicesImplementTheBoard` is the refinement of `TaskBoard`: a lemma for each service says to which step of the board it maps, and the sweep maps to a release or a stutter.
* `AgentTasksRCProofs`, for `Spec` at READ COMMITTED. The services of `AgentTasks` rely on rows they have just read; here a row that was loaded may be stale when it is saved whole. `CallsAreSound` says what a call may still rely on: a claim and a start carry a real agent, and the commit of the row that a merge loaded has its approving review, because reviews are only added. `ClaimsAreHeld` and `ReviewsAreOnRecord` are then inductive; `ClaimsNeverOverwrite` follows from the compare-and-swap of `claim_task`.
* `FlowEngineProofs`, for `Spec`. `RunInv` ties the rows of a run to its execution: while the execution loops, its rows are the first `i` steps and all passed; when it is failing, the last one failed; once completed the verdict is that of the rows and the execution is past its loop. The time bound follows from the look at the flow timeout before a step and the alarm inside it. `StatusInv` adds the health: an execution that has returned stays so, and its run stays as judged or disappears with its rows, so what was cached when it returned is what its rows say. `StartInv` is what the lists need: the runs there are are finitely many, each of a flow that was stored, and no two started alike; so the sequence that is newest first exists and is the only one (`Ranked` counts the runs that started later), whatever is left out of it, and the arithmetic of pages gives that each page continues the one before (`ViewsAgree`). `StatusImplementsEngine` shows that with the views beside it the engine is the same, so the verdicts are earned there too. `ScenarioInv` (for `Scenarios`, any fixtures and assertions) divides the log of calls into those made up to the phase that ended and those of the tear-down after it; `ScenariosCleanUp` follows, though the property says where in the log each fixture was torn down and not how many were.
* `VerificationStatusProofs`, for `Spec`. `PassingHasEvidence` is inductive with the fact that evidence is only ever added. `UpdatedStatusIsComputed` and `FixRestoresInvariants` are proved for a single process (`Processes = {P}`): the invariant says that the rows still to visit are as they were listed and those visited are right.
* `IngestionProofs`, first for `WebhookIngestion` and `WebhookFetch`. A run is whole once it is finished because one process alone writes it: `Apart` says that two processes never have the same delivery or write the same run, and a delivery that came has its event, which turns every repetition away. A link tells of finished runs only (`LinksShowFinishedRuns`), so that however whole-row saves interleave, its status and its run are of one and the same run. With a single process (`InStep`) the run that is imported is the newest and the rows listed are the rows there are, hence `LinksFollowRuns`. `FetchImplementsIngestion` is the refinement: each call, retry and page is a step of `WebhookIngestion` or a stutter; its invariant `CallsAreSound` says that one process calls for a delivery and that the last call explains the outcome (`Explained`), whence `FetchAccountsForEvent`.
  Then for `Conflicts` and `TestReports`. `LogInv`: what was detected or logged is justified by the links and the fields of the requirements, and no two open rows are of the same pair and pattern, whichever way round; it needs that the detectors find the same in any order of the rows but for the order of the pair (`FoundReversed`). `ReportInv`: each verdict on an issue is borne out by a run, and a requirement of a report is in exactly one of its lists. `ReportsImplementDetection` and `ConflictsImplementIngestion` carry whole runs and links of one run over to the system with detections and reports.
* `EnforcementProofs`, for `Spec`. `SubmissionsAreSound` says for each block how far its handler is: there is a result of it once the handler has stored its one entry, never two, and an answer is sent only after that, so a block that was told of success finds its result. The results say what the block saw, as the rows of validations are updated but never deleted or given another requirement. `ReportsAlwaysAgree` is about the reports: they count and compare, so it adds `RunsAreSound`, that the results of a run are finitely many and those of a file have no steps. The newest result of a validation exists as one with the fewest after it (the library's theorems on finite sets and the least-number principle); the comparison splits the validations of two runs in five disjoint sets; the pages rest on facts about `\div` that are proved in the module.
* `CorpusProofs`, for any files, checkouts and number of commands. `TypeOK` holds that every reference is to a stored row; to be inductive it needs `KnownRowsExist`: a row that an import holds and that was not deleted is stored, which a deletion keeps by marking the row `Gone` and a review keeps by its locks (`Locked`) and its PROTECTed rows (`Protected`). `LedgerIsConsistent` follows at the commit from `current_versions` and the rules of `evaluate` (`EntryIsConsistent`) and cannot change later. `DriftSeesLostCoverage` splits on why a version does not apply any more (`WaysToLose`): what is new since the review is an addition that reaches its coverage, and what is not new is one of the named cases.
* `SpecGraphProofs`, for `FlowFilesSpec`, the composition of the requirement tree with what is built on it, in seven parts. `LinksAreSound`: a link is of a stored requirement, and the run that it shows has a result of its test. An import keeps this although it deletes rows, because what deletes a row deletes its links; the checks of drift and links (`ChecksAgree`) follow from it by their definitions. `SnapshotsAreOfRoots` is all that `ContractsBreakLoudly` needs: only `GenerateContract` replaces a snapshot, so a declaration that cannot be read afterwards was read from that snapshot before, also when several roots have one name and the last of them counts (`NamedRoots`). `FilesAreSound`: an editor holds every key that its file had at first, so the merge with the file brings no requirements back that `save_flow` did not validate (`MergedIsValid`); a file that is no mapping is never opened. `SyncInv`: of the flows that a synchronisation has been through, the last of each name is stored as it was read unless somebody deleted it (`StoredInTurn`), and of the requirements looked up it has found those that were there all the time (`LinkingIsSound`). An import or a deletion between two statements is one lemma, `RowsMeanwhile`.
  The fifth part is about searches. A search is a recursive function over what it has still to look at, and that such a function exists and what it returns is usually shown by induction. Here it is shown with the least-number principle, which is a fact the provers can use: if what a search does in one round makes a number smaller (`IsLoop`: the nodes not yet visited and the length of the queue), there is exactly one function that satisfies the recursion (`LoopYields`), and a statement that every round keeps holds at the end (`LoopInduction`). For the blast radius the statement is `SearchedTo`: the nodes visited are those within the depth of the head of the queue and the ones queued behind it, one step further, so that a node is never marked at a greater depth than it has. Hence the search returns what lies within `MaxDepth` steps (`BfsIsExact`). `EcosystemIsFinite` says of the maps, snapshots and commits that they stay finite, so that the queue is a sequence at all; `BlastRadiusIsExact` then follows from how the edges are read off the maps (`EdgesBetweenProjects`, `AnalysisIsExact`).
  The sixth part is about the searches over dependencies. The walk of a chain returns the least set that is closed under dependencies and holds the direct ones (`WalkIsReach`); as the reverse graph is the graph turned around, chains and dependents mirror each other (`ReachBack`). The search for cycles calls itself inside its loop and goes on with what the call has visited, so the second argument depends on a result: `IsNested` asks for a relation between the argument and the result of a call that every call inherits from the two it makes, and then the definition has a solution (`NestedYields`) and the relation holds of it (`NestedInduction`). The relation is `Searched`: what was visited and found stays; every cycle found is one, because a neighbour on the path closes it; and as long as none was found, the nodes that are visited and not on the path (`Black`) have their dependencies among themselves and are not in their own chains (`BlackIsSafe`). In the end every node is black, so that a search that finds nothing has shown that there is no cycle (`CyclesAreFound`). `RowsAreSound` makes the rows a finite graph: a dependency is of a stored requirement, as a deletion takes the row out of the others and `depends_on.set` raises on a row that is gone. `DependencyViewsAgree` follows, the tests and the risk of a change from how they are read off these sets (`TestsReached`, `RiskGrows`).
  The seventh part is about imports that interleave. `Turns` says what a step of one import does: it writes rows of its project only, except that a deletion takes the dependencies on what is gone out of the others (`Moves`); what the import has in hand is stored for its project (`InHand`); and the entries that it has been through are stored, each as the last of its id describes it (`Stored`). `ImportTurn` shows it of each step of an import, `OthersMove` that the turn of another project keeps what is in hand and stored. The order in which the entries are saved is a permutation of them (`OrderedIsAPermutation`: they are ranked, and ranks are distinct numbers up to their count). From this come `ProjectsKeepApart` and, if each project has one import at a time (`OneEach`), `EndedImportsAreStored`, for trees on which no deletion takes away a row that an import has in hand (`RowsInHandStay`). That has to be assumed, because an import writes the path of a row back as it read it (`parser.py:185` above): if it read three requirements, a root and its two children, then another project adds a root that sorts before theirs and a child to it, and then the import saves the second child alone, that child lies below the other project's root and is deleted when the other project clears its own. TLC shows that the second property fails on this tree; on the directories of `SpecGraph_imports` it finds no violation of `RowsInHandStay`, added there as a property.

Model-checked only:

* `UnstartedClaimReturns`, `BegunRunsAreJudged` and `EventsAreSettled`: liveness under fairness is out of the prover's reach.
* `RowsInHandStay`, on the directories of `SpecGraph_imports`: see above.

## Not modelled

The text of what is parsed (Markdown, YAML, JUnit, OpenSLO, URLs), HTTP, signatures and allowlists, templates, schemas, rate limits, formatting and the wording of reports, heartbeats, the counts of filtered lists, and the components that `PROJECT.json` lists as `not_modelled`: forms of the admin, the command line, which only dispatches, the Lore bridge, a subprocess that fails open, comments on pull requests, patterns matched against the text of requirements, and demo data. What one of them changes in the rows of another component is an action there. The webhook URL is defined but not routed yet (`ROADMAP.md`). One import per project at a time is assumed: two of the same project raise on each other's external ids.

## Plan

1. Done: the modules above; proofs about every component, with the refinements of `TaskBoard`, `FlowEngine`, `WebhookIngestion` and `Conflicts`.
2. Next: for which directories `RowsInHandStay` holds.
3. The rest of the corpus: reviews of several requirements in one transaction, the report of newly applicable entries, `resolve_check_id`; the impact report of changed specification files.
4. The comment upsert of the GitHub client; the call to Lore inside a transaction.
