# ChainPort, specified

ChainPort takes a GitHub repository of a dApp, analyses how far it would have
to change to run on another EVM chain, generates a reviewed change set,
validates the changed revision in a sandbox and deploys it to a testnet with a
disposable key. This directory holds TLA+ specifications of its stateful core
and of the engines whose results it stores, the TLC configurations that check
them and TLAPS proofs about them. Paths are
relative to the repository's root.

Run from this directory:

    tlc -workers 2 -config Deployment.cfg MCDeployment
    tlapm DeploymentProofs.tla
    tlc -workers 2 -config ChangeSet.cfg ChangeSetProperties
    tlapm ChangeSetProofs.tla
    tlc -workers 2 -config Intake.cfg IntakeProperties
    tlapm IntakeProofs.tla
    tlc -workers 2 -config Validation.cfg MCValidation
    tlapm ValidationProofs.tla
    tlc -workers 2 -config Review.cfg ReviewProperties
    tlapm ReviewProofs.tla
    tlc -workers 2 -config Pipeline.cfg MCPipeline
    tlapm ListProofs.tla
    tlapm PipelineProofs.tla
    tlc -workers 2 -config Release.cfg MCRelease
    tlapm ReleaseProofs.tla

## The system

| Component | State | Operations | Talks to |
| --- | --- | --- | --- |
| API (`apps/api`) | none of its own; PostgreSQL rows | one handler per request; reads a row, decides, writes it and/or enqueues a job, in separate steps | PostgreSQL, Redis |
| Queues (`apps/api/src/queue.ts`, BullMQ) | jobs by id: waiting, active under a lock, finished | add (ignored when the id is known), take, settle, stalled check, eviction of old finished jobs | API, workers |
| Worker (`apps/worker`) | which job each of five queues' handlers executes, concurrency 1 per queue and process; live deployer keys in memory | ingest, analysis, generate, finalize, validate, prepare, broadcast, reconcile | everything |
| Deployment run (`packages/db/src/deployment-repository.ts`) | status, deployer address, transaction count, transaction rows, contract rows, checks | transition, setDeployerAddress, recordTransaction, ... | API, worker |
| RPC proxy and network (`packages/deployment`) | the journal of one broadcast | journal and forward a transaction; receipts | script, chain |
| Sandbox (`packages/sandbox`) | containers by label | prepare, execute, destroy, reapOrphans | Docker |
| Change set (`apps/worker/src/changeset-processor.ts`, `packages/changeset`) | status, file changes and their decisions, generated revision | generate, decide, finalize, roll back | API, worker, artifact store |
| Validation run (`apps/worker/src/validation-processor.ts`, `packages/validation`) | status, outcome, step rows, result; a container | request, redeliver, materialize and verify, one command per step, classify, clean up | sandbox, queue |
| Migration job (ingest) and analysis run | status, attempt, the repository row several jobs share | ingest, analyse | git, API |
| Compatibility run, migration plan (`apps/api/src/compatibility-service.ts`, `plan-service.ts`) | one row per idempotency key, child rows written in one transaction | find or create, evaluate, fail | API |
| Scanner, compatibility, migration and patch engines (`packages/scanner`, `compatibility`, `migration`, `changeset`) | none; each reads the rows the one before it stored | detect, evaluate and score, plan and order, patch and apply | rows of the analysis, the run, the plan, the change set |
| Chain registry (`packages/chain-registry`) | static tables | look up chains and what a target offers | engines |
| Eligibility and candidates (`packages/deployment`) | candidate rows | evaluate, select, build the idempotency key | API, worker |
| Identity and access (`packages/auth`) | sessions, memberships | login, logout, role checks | API |
| Ecosystem analytics, web | none that others depend on | read-only views | |

What makes it hard: no handler holds a lock between reading a row and writing
it; `transition()` compares the *caller's* idea of the old status with a static
table and then writes unconditionally; the queue may hand a job out twice; a
worker may die anywhere, with keys in its memory and a script still running in
a container, and a handler of one kind removes the containers of all; requests
that compute in the API race for one row, in transactions that see each other's
statements; what the engines hand to one another comes back from the database
in no particular order; and a transaction, once sent, cannot be taken back.

Correctness, by component: a deployment run broadcasts once, after a
confirmation, with a key of its own, and what it says of its transactions is
what the chain says; a change set's finalized revision consists of exactly the
accepted changes and never changes again; a validation result belongs to the
bytes that were validated; a job is taken up again after a crash and its row
settles; a compatibility run has the findings of one evaluation and a plan those
of one run; the score, the verdict and the actions do not depend on the order of
rows, and patches change what was reported and nothing else; what is deployed
is what was finalized, reviewed and validated.

## Modules

| Module | Contents |
| --- | --- |
| `DeploymentStatus` | the status column and its transition table |
| `Deployment` | one deployment run: API handlers, queue, workers, script, network |
| `DeploymentProperties` | what it promises, and what the documents say that it does not keep |
| `BroadcastOnce` | the abstract promise: confirmed, started, sent |
| `MCDeployment` | symmetry and constant values for TLC |
| `DeploymentProofs` | the TLAPS theorems about the deployment run and their lemmas |
| `ChangeSet` | one change set: API handlers, queue, the worker's handler, rows and artifact |
| `ChangeSetProperties` | what it promises, and a sentence of the documents that it does not keep |
| `ChangeSetProofs` | the TLAPS theorems about the change set and their lemmas |
| `Intake` | ingest jobs and analyses of one repository: requests, both queues, worker processes, rows |
| `IntakeProperties` | what they promise, and a sentence of the documents that is not kept; symmetry for TLC |
| `IntakeProofs` | the TLAPS theorems about the intake and their lemmas |
| `ValidationProfile` | framework detection, commands, classification of a failure, comparison of two runs |
| `Validation` | validation runs on workers that share a Docker host; extends `ValidationProfile` |
| `ValidationProperties`, `MCValidation` | what they promise; repositories and symmetry |
| `ValidationProofs` | the TLAPS theorems about validation runs and their lemmas |
| `Review` | compatibility runs and migration plans: two tables, racing requests, transactions |
| `ReviewProperties` | what they promise, and three sentences that are not kept |
| `ReviewProofs` | the TLAPS theorems about runs and plans and their lemmas |
| `Registry` | chains and what is catalogued of each as a target |
| `Scanner` | inventory and detectors; extends `Registry` |
| `Compatibility` | rules, deduplication, score, coverage, readiness; extends `Scanner` |
| `Migration` | migration rules, merging, dependencies, order, outcome; extends `Compatibility` |
| `Patches` | what an action replaces, the patchers, applying a patch; extends `Migration` |
| `Pipeline` | one repository through all five engines, review and finalization, twice; extends `Patches` |
| `PipelineProperties`, `MCPipeline` | what the engines promise of each other's results; the lines repositories are made of |
| `ListProofs` | lemmas about filtered, sorted, concatenated and folded lists |
| `PipelineProofs` | the TLAPS theorems about the engines and their lemmas |
| `Release` | finalization, validations and deployment runs of one migration, composed over one database |
| `ReleaseProperties`, `MCRelease` | what holds from review to deployment; scripts and plans |
| `ReleaseProofs` | the TLAPS theorems about the release and their lemmas |

### Deployment

`status`, `deployer`, `expected` and `txRows` are columns and rows of the
database. `jobs` is BullMQ's view of the three jobs of one run. `toEnqueue` and
`cancelling` stand for API handlers between their read and their write.
`worker[w]` is where process `w`'s handler stands: the job, the function it runs
(`prepare` may have turned into `reconcile`), a program counter, the status it
read, and the loop over transactions it is in. `creds` is the in-memory key map.
`running` and `net` are the containers and the network. `confirmed`, `launched`
and `crashes` are history.

A program counter value is the next database call of the handler. Every call is
a step of its own, so another actor may act between any two; what lies between
two calls (materializing, simulating, funding) is a choice of its outcomes. The
`try`, `catch` and `finally` blocks appear as `CatchPrepare`,
`CatchBeforeBroadcast`, `CatchAfterBroadcast`, `Caught` and `Finally`; `fail()`,
which swallows errors, as `Fail`.

The script sends on its own (`SendRawTransaction`): it is not stopped by the
death of its worker, only by the removal of its container. `Carried` stands for
the transactions of a `run-latest.json` the repository brought along, which
`loadForgeBroadcast` cannot tell from the script's own.

What is abstracted: hashes are pairs of a key and a number; contract rows and
the texts of reasons and errors are left out; post-deploy checks can pass only
if the modelled ones pass, and may always fail for the others.

### ChangeSet

`status`, `counts` and `completeness` are columns of the change set, `rows` the
status of each of its change rows, `revision` the GENERATED row of
`RepositoryRevision`, `active` the project's `activeRevisionId`. `artifact` is
the directory `snapshotFrom` writes, as the set of changes applied to its files.
`jobs` holds the generate and the finalize job, `worker` the handler of
`changeset-processor.ts` that runs, with the values it carries from one call to
the next, `client` an API handler between its reads and its writes. `late` and
`accepted` are history: that a decision was written, or a count left wrong,
after finalization had collected the decisions; and which changes some decision
accepted since the last generation.

As in `Deployment`, a program counter is the next database call, and a call is a
step. `processGenerateChangeSet` is `Read`, `Check`, `Requeue` ... `Ready`;
`processFinalizeChangeSet` is `Read`, `Check`, `SkipRemainingProposed` ...
`Finish`; their catch blocks are `Catch` and `Fail`. `Guarded` lists the calls
inside the try block: an error elsewhere ends the handler. `refreshCounts` is
two steps, of the worker (`SkipTally`, `SkipCounts`) as of a client
(`ReadCounts`, `WriteCounts`). What makes a write dangerous is that it is tied
to no earlier read: `Transition` checks the status the caller supplies, and
`SetChangeStatus` updates a row whatever happened since `Decide` looked.

What is abstracted: patchers (a change is proposed or skipped, and applies or
does not); file contents (the set of applied changes); the other counts, of
which nothing depends; the snapshot's copying, taken for one step (a finalized
set's copy was completed, and every earlier one overwritten); the creation of
the row; other change sets of the same project, which share `activeRevisionId`.
One client is enough for two requests to overlap the worker; the safety
invariants also hold with two, and with two faults, which takes longer than a
run should.

### Intake

A repository is submitted once for each pair of chains, and each submission has
an ingest job; all of them clone into the one row `repository`. `job` holds the
job rows, `created` their order, `analysis[s]` the analysis of commit `s`, which
the unique key makes one. `entry` is BullMQ's view of the jobs of both queues,
`handler[<<w, q>>]` the handler of queue `q` in process `w`: the two handlers of
a process run side by side and die together. `client` is a request between its
reads and its writes.

`processIngestJob` is `ReadJob` ... `CompleteJob`, its catch block
`markRepositoryFailed`, `RereadJob` and `FailJob`; `processAnalysisJob` is
`ReadAnalysis` ... `CompleteAnalysis`, its catch block `Catch` and
`FailAnalysis`. `Written` is a write whose answer may be lost, `WrittenLast` one
after which the worker may also die before the queue hears of it. `Mismatch` is
what an analysis meets when another job has moved the repository since the
request chose its commit; `RequestAnalysis` and `ListJobs` are the two reads of
that choice.

What is abstracted: a clone ends at some commit or with some error; the number
of attempts is told apart only below `MaxAttempts` (`Another`), and of the result
rows of an analysis whether they were written once or more often; a find, an
insert and a second find after a unique-key error are one step, since whoever
inserts, the others find that row; the status CANCELLED and the later stages of
a migration job, which nothing writes. A handler whose lock is lost while it
runs is not modelled here, only one whose process died.

### Validation

`run[r]` is the row of revision `r`, `step[r]` its INSTALL, BUILD and TEST rows,
`entry[r]` its job, `handler[w]` and `box[w]` a process's handler and container,
`leaked` a container whose worker died, `client` a request between finding or
creating the row and enqueueing. `evidence` is history: what the handler that
decided a run saw its commands do. `repo` says what is checked out, from which
`ValidationProfile` takes framework and commands, as `detect.ts` and
`profile.ts` do.

`processValidationJob` is `Read` ... `Cleanup`, a call per step; the write that
marks a step RUNNING is taken with the call before. `transition` compares the
static table with the status the *caller* names and writes unconditionally.
Containers are what couples runs: `reapOrphans`, called by this handler and by
the prepare handler of a deployment (`DeploymentReaps`), removes every labelled container on
the host, those in use too, and the command that ran in one then ends with an
exit code that looks like the repository's (`BlamedOnTheRepository`). A command
that timed out exits with 137, and nothing skips the steps after it, so a
TIMED_OUT run may keep rows of an earlier delivery: `RowsTellTheRun` speaks of
COMPLETED. A run whose worker died twice stays in its phase, and only QUEUED and
FAILED are enqueued again.

Left out: logs, durations, the three step rows nothing reads, and test counts,
which a redelivery appends again.

### Review

One request protocol for two tables: `Find`, create (`createRunQueued`,
`createPlanQueued`, under the unique key), and a transaction `Begin`, `Delete`,
insert, `Commit`, whose statements each see what was committed before them.
`batches` are the committed child rows of each child table, known by the order
of their commit, `tx` what an open transaction read, deleted and inserted. A
DELETE is two steps, its snapshot (`Delete`) and, when no other open transaction
is deleting the same rows, its end (`Lock`); the findings of a run and its
categories are deleted by one statement each, and another request may commit
between the two. It then sees the categories of that one and not its findings:
the unique key of the category rows, which makes the second evaluation of a run
fail otherwise, is free again. `torn` remembers that a run was committed so,
`OneReport` and `PlanHasOneReport` name it as their exception, and
`FindingsAreOfTheScore`, which does not, is a finding. `planned_migration_actions`
has no key at all (`ActionsAreThereOnce`, a finding). A request for a plan reads the
run's row (`AskPlan`) and its findings (`ReadFindings`) by two statements.
`markRunFailed` and `markPlanFailed` write without a condition
(`CompletedRowsStand`, a finding). EVALUATING and PLANNING are written only
inside the transaction and never seen.

An evaluation is taken to have at least one finding and one category, and a plan
one action: a repository with none of what the rules look for has an empty report,
and its batch of findings stands for no rows.

### The engines and Pipeline

Pure functions, composed by a state machine with one action per engine: `Scan`,
`EvaluateRun`, `PlanMigration`, `Generate`, `Decide`, `Finalize`,
`MigrateAgain`. Between two engines lies a table, and the order in which its
rows come back is a choice (`Orders`): requirements come in none, findings by
status and category, changes by a time all accepted ones share, so `Finalize`
applies them in any order. `failed` is the set of detectors that threw, which
the orchestrator swallows.

A repository gives each of `Files` a sequence of lines; a line is the one thing
on it a detector looks for, with the name it is bound to and its value. Regular
expressions are traits of a file and words of a name (`Has`). Where the code's
text conversions matter they are there: `redactSecretUrl` appends a slash, so a
bare catalogued URL in the source never equals the redacted one; a patch looks
for digits as a substring (`Digits`), so chain ID 1 is in 10, in 11155111 and in
addresses; a chain's label has its ID in front (`LeadingDigits`).

What a reader of the engines may want to know, and the modules show: a merged
named address is judged by the first of its addresses; a frontend chain ID is
SAFE_AUTOMATIC and never patched, because its label is not found in the text; an
empty value in an environment template is never patched; root-level `test/`
directories are not taken for tests by two detectors; a detector that throws can
leave a repository READY. Rounding at a tie needs eight findings of a category
and is not reached.

Left out: titles, summaries and risk texts, registry evidence no rule reads,
price feeds (no detector reports them), components, detector timings, fees,
explorers, precompiles, address checksums.

### Release

The composition. `set`, `generated` and `artifact` are the change set's row, its
revision's and the stored files; `validations[r]` the validation of a revision;
`candidates`, `runs`, `client`, `jobs`, `worker`, `keys` the deployment side;
`launched` and `underway` are history: what scripts were started on, and which
runs had left QUEUED at the rollback. A tree of files is its content hash.

What `ChangeSet`, `Validation` and `Deployment` describe call by call is one step
here, with the choice of its outcomes; between two steps lie the reads of
another component's rows. The finalizer may die and repeat: the files are
replaced, the row and its hash are not. A prepare request is `Ask` (with the
eligibility check), `Look` (by idempotency key), `Create` (under the unique
key), `Enqueue`; the worker reads everything again in `StartPrepare` and
compares hashes in `Detect` (`Matches`), but broadcasts (`StartBroadcast`,
`Launch`) without either. Candidates are rows, a revision and a script, that the
preparation writes and the request reads, so the key of a repeated request
differs from the first one's. A request may name any row: nothing compares its
revision with the one to be deployed (`deployment-service.ts:155`; the foreign
key asks for some row). Such a run has a key of its own, and the worker, which
looks the name up among the revision's own rows (`Selected`), takes the first
certain script instead. `Strangers` are the rows of other revisions.

Left out: policy and limits, targets and balances, sandbox images, the text of
scripts and forge's output: choices of the preparation's outcome. The worker
names the validation run stored with the deployment run and not the latest one;
here a revision has one. A first request of a repository with several scripts
takes the first that is DETECTED, so CANDIDATE_REQUIRED is never answered to it,
and a requested candidate that is no longer detected falls back to that one
too; FAILED runs are found again and never enqueued again.

## What is checked

| Run | Instance | Shows |
| --- | --- | --- |
| `deployment` | 1 worker, 2 keys, 1 transaction, 1 crash, refused database calls, eviction, cancel and reconcile requests | type invariant; the irreversible boundary; the deployer column; completion only over mined transactions; no plain failure after a send; refinement of `BroadcastOnce` |
| `deployment_fleet` | 2 workers, lost locks on prepare, 1 crash | keys single-use; nothing launched unconfirmed |
| `deployment_progress` | 1 worker, fairness, 1 crash, 1 carried transaction | rows agree with the network; preparation and broadcast settle |
| `changeset` | 1 client, 2 changes, fairness, 1 fault: a crash, a refused call, a write committed and reported as failed, a moved repository, or a patch that does not apply | type invariant; the revision is the review; COMPLETE means all accepted; nothing unaccepted ships; a rollback selects the original; a finalized set's files, hash and verdict stay; generation and finalization settle |
| `intake` | 2 workers, 2 jobs, 2 commits, 2 attempts, failing clones, eviction, no faults | type invariant and one handler per job; the repository row agrees with the completed jobs |
| `intake_progress` | 1 worker, 1 job, 2 commits, 2 attempts, fairness, 1 fault: a crash, a refused call or a lost answer | a completed analysis keeps its row and its results, a completed job its row, also over a fault; ingest and analysis settle |
| `validation` | 2 workers, an original and a generated revision, 2 repositories, 2 attempts, 1 fault, reaping | type invariant; PASSED is earned by one delivery; step rows tell the deciding delivery; results and comparisons stand |
| `validation_progress` | 2 workers, 1 revision, 3 repositories, fairness, 1 fault | a waiting validation gets an end, a leaked container is removed |
| `review` | 2 clients, fairness, 2 faults | type invariant; categories once and of the score's evaluation, with its findings and, but for a commit between the two DELETEs, no others; no rows without a result; a plan is made from one whole report, with the same exception; what is asked for settles |
| `pipeline` | every repository of 1 or 2 of 30 lines, 3 migrations, 2 detectors that may throw, 2 passes | verdict, score and actions do not depend on row order; plan and report agree; only JSON patches collide; only reported lines change, but for another profile's chain ID in `foundry.toml`; a migrated line is not proposed again |
| `release` | 2 clients, 2 runs, 2 scripts and a candidate of another revision, 2 plans, any number of crashes | type invariant; what is started was validated, finalized and complete; a rollback stops what waits; two runs of a script differ in their knowledge of it, unless a request named another revision's candidate |
| `release_repeat` | 1 client, 2 runs, an empty plan | **violated**: a repeated request sends a successful run's script again |

Further configurations reproduce the disagreements between documents and code
that `findings` in `PROJECT.json` quotes; each is expected to fail:

| Configuration | Module | Refutes |
| --- | --- | --- |
| `DeploymentCancel` | `MCDeployment` | a cancelled run sent nothing |
| `DeploymentFinality` | `MCDeployment` | COMPLETED is final |
| `DeploymentJournal` | `MCDeployment` | recovery inspects the journaled hashes |
| `DeploymentPrepared` | `MCDeployment` | PREPARED means nothing was sent |
| `ChangeSetImmutable` | `ChangeSetProperties` | rows of a finalized change set are never rewritten |
| `IntakeRetry` | `IntakeProperties` | deterministic failures are not retried |
| `ValidationBlame` | `MCValidation` | BUILD_FAILED and TEST_FAILED are repository results |
| `ReviewDuplicates` | `ReviewProperties` | semantic duplicates merge; the findings of a completed run are those its score is from (TLC stops at one of the two and shows both with `-continue`) |
| `ReviewOverwritten` | `ReviewProperties` | completed rows are never overwritten |
| `PipelineSimilar` | `MCPipeline` | similar-looking text is never rewritten |
| `PipelineDeterministic` | `MCPipeline` | patches are deterministic |
| `ReleaseOtherPlan` | `MCRelease` | a generated revision is deployed from a FINALIZED, COMPLETE set |

What the project keeps as its own properties is the strongest statement near
each of them that does hold.

`RevisionIsTheReview` and `CompleteMeansAllAccepted` carry the exception `late`,
and `ChangeSetImmutable.cfg` shows that it is needed. `NothingShipsUnaccepted` and
`FinalizedIsKept` hold without it.

Three assumptions delimit the `deployment` run, and each is needed. With two
workers, or a lost lock, a prepare handler that read the row before BROADCASTING
may write PREPARING after it. With an unanswered commit, what
`DeploymentPrepared.cfg` finds happens. The staging topology of the repository
is one worker process.

Bounds. `Creds` bounds the prepare attempts that get as far as a key: two let a
redelivered or retried prepare replace a key, which is where a stale one could
be used. `MaxTx` = 1 with a carried transaction, or 2, gives loops over rows
with different receipts. One crash is enough for each handler to be interrupted
at every step and taken up again; the stalled check fails a job for good the
second time (`MaxStalls`), so a second crash may leave a row in PREPARING for
ever, and `RunSettles` is stated for one. Attempts and stalls are
bounded by the queue itself.

In the change set, two changes suffice for accepted, rejected, skipped and
undecided ones to occur side by side and for a count to be wrong by one. One
fault of any kind interrupts each handler at every call; a second one, in the
last attempt of a job or its second stall, may leave the row in MATERIALIZING,
GENERATING or FINALIZING for ever, so `ChangeSetSettles` is stated for one.

In the intake, two jobs and two commits let the commit a project is analysed at
and the one its repository is at differ, and two processes let clones of one
repository overlap. `MaxAttempts` is 2 instead of 3: a first attempt, which is
retried, and a last one. Without faults and with one, because both together on
two processes are more than a run should take. The liveness properties except a
failing call (`lost`): on the last attempt it leaves INGESTING or ANALYZING,
which no request takes up again.

In the validation, two workers are the fewest that reap each other's containers,
two revisions are what a comparison needs, and a supported and an unsupported
repository take all ways out of the handler; the three of `validation_progress`
take each profile. One fault, as above, and `lost` excepts a call that fails on
the last attempt.

In the review, two requests race through every pair of statements, and two
faults let one fail after the other has completed.

In the pipeline, two lines are what it takes for two findings to merge, to be
reordered and for two patches to meet in one file; the menu has a line for each
detector, category and status, and files of each category and trait. The second
pass is what `MigratedStaysMigrated` is about. A `foundry.toml` may have a
profile besides the default one: the detector then reports the value of one with
the line of the other (`chain-id.ts:53`), and the patch may change the wrong one.
`OnlyAnotherProfileIsMistaken` states that exception (`TakenForDefault`);
`PipelineSimilar.cfg` checks the sentence of the documents, without it, on the
same repositories, and TLC refutes it.

In the release, two clients race for one key, two runs are what they can leave,
and of two scripts one is only LIKELY; a plan is all automatic or leaves
something to review, and an empty one is in `release_repeat`. Validations are
asked for of the generated revision (`Tested`): with these plans the original is
never eligible; `release_repeat` has both. The finalizer, a request and the
worker may die at every step and any number of times: a finalization is
repeated, a request never enqueues, the worker loses its keys. Two requests find
no run and race for one key, so the look-up counts the runs as well as the
insert (`MaxRuns`). Requests that name the plan of another migration (`Others`) are left to
`ReleaseOtherPlan.cfg` and `release_repeat`; the properties speak of a run with
the change set's own plan.

Fairness. Each worker's event loop goes on (weak fairness of its handler's
steps); BullMQ hands out waiting jobs in turn although the handlers of one queue
exclude each other (strong fairness of the three start actions); the stalled
check is periodic, and an API process that is not killed enqueues what it
decided to (weak fairness). Nothing is assumed of clients, of the script or of
the network: a receipt that never comes ends in RECONCILIATION_REQUIRED.

The workers and queues of the change set, the intake and the validation are fair
in the same way; of a client only that a request which is being handled goes on,
which is all there is in the review.

Deadlock is checked in `review` alone of the state machines over requests: there
another request can always come. In the other ones a run may be COMPLETED, a
change set ROLLED_BACK or every job of a repository completed, with every
request answered and nothing left to do, and a pipeline ends in its last pass.

## What is proved

### Deployment

`DeploymentProofs`, for every fleet, every number of keys and transactions,
every set of lost locks and database faults:

- `TypeCorrect`: `Spec => []TypeOK`;
- `FreshKeys`: a script is started only with a key that is there and was never
  used by a script;
- `Confirmed`: no script is started unconfirmed;
- `RowsAreTrue`: recorded transactions were sent, and recorded receipts are the
  network's answers.

The assumption is `ConstantsOK`, the types of the constants, which TLC
evaluates in every run.

The inductive invariant is `IInv == TypeOK /\ KeysInv /\ ConfirmInv`.
`FreshKeyAtLaunch` alone is not inductive: that a key in hand is unused depends
on no other worker holding it, and on a used one being held only until the
`finally` block of the handler that used it, which `KeysInv` says. In the same
way `ConfirmInv` follows the confirmation through the enqueue, the job and the
handler. `RowsInv` adds to `RowsReflectNetwork` that what a handler is still to
record was sent. Each is proved action by action, over lemmas about the helper
actions (`GotoEffect`, `LoopEffect`, `TakeEffect`, `SettleEffect`).

The second part of the module is about the staging topology, `Staging`: one
worker process, which keeps its locks, and a database that answers what it
commits. For every number of keys, transactions, crashes and refused calls:

- `Irreversible`: what was sent is never again shown as not yet broadcast;
- `DeployerKnown`: the deployer column names the key a script may send with;
- `FailedByChecks`: after a send only the post-deploy checks write FAILED;
- `CompletedIsMined`: COMPLETED is written only over mined transactions;
- `OneBroadcast`: the run implements `BroadcastOnce`.

Each of the three hypotheses is needed. A second process, or a lost lock, lets a
prepare handler that read the row earlier write PREPARING or a new key's address
after the broadcast has begun. An unanswered commit of PREPARED leaves the
prepare job to be delivered again while its key is in hand: the run is confirmed
and launched, and then prepared again. `SInv` stands beside `IInv`. Its core is
`OwedInv`: while the queue still owes a delivery of the prepare job, a run in
PREPARED has no key, so that no confirmed broadcast can overtake a preparation.
`UnissuedInv` carries this from the creation of the row on, `LockInv` ties
handlers to active jobs, `LaunchInv` and `DeployerInv` say the same after the
launch, where PREPARED can no longer be written; `AbortInv` and `VerdictInv` are
about a script that failed and about the reads before the verdict. The
refinement needs no more: `PromiseSteps` names the three steps that touch
`confirmed`, `launched` or the network, and `PromiseStep` maps them to
`Confirm`, `Start` and `Send`. That `Start` happens once is `NotLaunched`.

### ChangeSet

`ChangeSetProofs`, for every set of clients, every finite set of changes and
every number of faults:

- `ChangeSetTypeCorrect`: `Spec => []TypeOK`;
- `RevisionIsReviewed`, `OnlyAcceptedShips`, `RollbackSelects`, `FinalizedKept`,
  `CompleteIsAllAccepted`: the properties of the `changeset` run, all but the
  liveness property.

The assumption is `ChangeSetConstants`. The inductive invariant is
`IInv == TypeOK /\ WorkInv /\ RollInv /\ ShipInv`. Because writes are tied to
no read, everything rests on where the handler can stand in which status.
`WorkInv` says that: while it applies changes the status is FINALIZING, while it
drafts it is one from QUEUED to GENERATING or FAILED, so no step but the last
one leads into FINALIZED and none of them runs there. It needs one handler at a
time, which the queue of one worker process gives. `RollInv` says the same of a
rollback, which begins only in FINALIZED, where no handler is left to select the
generated revision. `ShipInv` follows the accepted changes from the rows to the
handler's list, to the files, to the sealed set. A handler's step either leaves
a sealed set alone (`HandlerSealed`) or is `Finish`, which seals it
(`HandlerSeals`). `CompleteIsAllAccepted` has two invariants of its own on top:
`AbsentInv`, that a set under review has a decision to take on every change, and
`CountInv`, which follows the number of changes not taken from the rows to the
tally in the handler's hands, to the column, to the completeness. Each link is
broken only by a decision that sets `late`.

### Intake

`IntakeProofs`, for every set of workers, clients, jobs and commits, every
number of attempts and every number of faults:

- `TypeCorrect`: `Spec => []TypeOK`, which contains one handler per job;
- `CompletedIsKept`: what is completed stays, with its results;
- `RepositoryIngested`: `Spec => [](faults <= 1 => RepositoryIsIngested)`.

The assumption is `IntakeConstants`. The run checks the last one over at most one
fault, and more do not allow it: when the handler that wrote READY dies, and the
one that takes its job up again dies a last time, the repository is READY at a
commit no completed job has. `BudgetInv`, which bounds a job's stalls by the
faults, is where the hypothesis enters.

`IInv` is `TypeOK` and eight parts. `QueueInv`, `CreatedInv` and `CommitInv` tie
queue entries, the order of creation and commits to rows. `WorkInv`: a handler
at work has not completed what it works on, which `CompletedIsKept` follows
from, with `ResultsInv` on the results. The repository is one row several jobs
write. `ReadyInv` looks forward: while it is not READY although a job got
through, some job is unfinished, and will write it. `SourceInv` looks back: a
READY repository has a job whose handler made it so, and that is completed at
its commit, about to be, about to take the READY back, or to begin anew. Each of
some twenty handler steps is summarised once by what it does to the rows
(`IngestDoes`, `AnalyseDoes`, with `Frame` for what others see), and each part of
`IInv` is kept by one lemma over the summaries. `SourceInv` and `ReadyInv` were
model-checked before they were proved: with one worker and two jobs, with two
workers without faults, and with two faults.

### Validation

`ValidationProofs`, for every set of workers, clients, revisions and
repositories, and every number of attempts and faults:

- `TypeCorrect`: `Spec => []TypeOK`, which contains one handler per run;
- `ResultsAreEarned`, `RowsAreTold`: PASSED and the step rows of a completed run
  are what one delivery saw;
- `ResultsNeverChange`: no step rewrites the row of a run that has its result, or
  a comparison made from it.

The assumption is `ValidationConstants`. `IInv` has `Shape` (types), `QueueInv`
(one handler, of an active job of a row that is there), `WorkerOK` and
`ResultOK`. `WorkerOK(w)` says how far the handler is: what it has seen are the
first commands of the profile, all passed but possibly the one it is to record,
what is left are the others in their order, and their step rows say PASSED. The
other rows may be what an earlier delivery left; the one write that ends a run
early gives each of them a value (`RowOf`). `ResultOK`
carries what was true when the verdict was written (`Agrees`), and is kept
because a handler of a run with a result is at its first read or on its way out.
The profile's commands enter through one lemma, `ProfileShape`: which there can
be, that a build and a test are among them, and no step twice.

### Review

`ReviewProofs`, for every set of clients and every number of faults:

- `TypeCorrect`: `Spec => []TypeOK`;
- `OneEvaluation`: the categories of a run are those of the evaluation its score
  is from, with its findings and, unless the run is torn, no others;
- `PlannedFromOne`: the same of the findings an action was made from;
- `ResultsHaveRows`: a row never completed has no child rows, a completed one has.

The assumption is `ReviewConstants`. `IInv` conjoins `RowsHaveResults`,
`ScoreInv` (what the run has), `PlanInv` (what actions were made from) and, for
each request, `Sound`. Of its parts, `KeyOf` says what the unique key of the
category rows is good for: a transaction that has inserted its own is alone
(`OneCommits`), and deletes all that are committed. `TornOf` says why that is
enough for the findings: a transaction that no commit came between, and whose
second DELETE chose all categories there are, chose with its first all findings
there are. `SeenOf` keeps later commits out of both: a new batch is in nobody's
snapshot, so a commit makes the condition of `TornOf` false for every other
transaction that has started its second DELETE. `BasisOf` carries the whole
report to the plan.

### Release

`ReleaseProofs`, for every set of clients, contents, scripts and plans, every
number of runs and crashes, and every plan and candidate a request may name:

- `TypeCorrect`: `Spec => []TypeOK`;
- `DeployedWasValidated`: what a script is started on, for a run with the change
  set's plan, passed validation as those very files;
- `RollbackStops`: after a rollback only runs underway start anything;
- `OnlyNamesDouble`: two runs of one script differ in what their requests knew,
  unless one of them was asked for with a candidate of another revision
  (`Misnamed`).

The assumption is `ReleaseConstants`. The inductive invariant `IInv` conjoins
`TypeOK` with seven parts. `FinalInv`: a finalizer at work means FINALIZING, so
the files change in no other status, and with an empty plan they stay the
base's. `TestInv`: a validation was of the files its revision's hash names.
`AskInv`: requests and runs are about revisions that exist. `KeyInv`: keys are
unique and hold the run's revision and, if it names one of that revision, its
candidate, which the worker then keeps (`SelectedRow`, and no stranger is an own
row); doubling by name follows from it alone. `ReadyInv`: a run past its preparation, or with the
worker, stands on a revision that is validated, complete and finalized
(`Ready`), and past the hash check on files that are the hash's own (`Same`).
`LaunchInv` says the same of what was launched, and `LateInv` follows the runs
that were underway at a rollback. The broadcast checks nothing again, so
`DeployedIsValidated` rests on `Ready` and `Same` not being lost once they held:
lemma `Stable`, whose reason is that a set which is FINALIZED never has a
finalizer again. Lemma `Origin` says where a run past its preparation, or with
the worker, was a step earlier; each part is then kept by one lemma
(`FinalKept` ... `LateKept`) over what a step does to the rows (`RunStep`), the
worker (`WorkerStep`) and the requests (`ClientStep`).

### The engines and Pipeline

`PipelineProofs` over the lemmas of `ListProofs`, for every inventory of files,
every repository, every pair of chains and every set of detectors that throw:

- `PipelineIsInvariant`: `Spec => []PipelineInv`;
- `PlansAgree`: the plan and the report it was made from tell the developer the
  same, every requirement that did not pass has an action, and the order of a
  plan has all of its actions;
- `VerdictsAreStable`: what the developer is told does not depend on whether rows
  are read as written or reversed, which is the run's property;
- `OrderDoesNotMatter`: nor on any other order, of requirements or of findings
  (`AnyOrderTellsTheSame` speaks of every permutation of both);
- `FinalizedAsAccepted`: lines change only in files of accepted changes, only in
  their value, and to the target of such a change or a value it was put into.

The one assumption is `RepositoriesAssumption`: files, and the lines of a file,
are finite sequences. Names and values of lines are arbitrary. The files'
categories and traits, the limits of the inventory, the migrations and the
chains whose oracle is missing are not restricted either.

`PipelineInv` says of each stage what the next engine expects: requirements are
a list; a report has findings of the rules, no two of which say the same
(`Kind`), and the readiness they give; a plan is one for just these findings
(`PlanFor`). It was model-checked on the `pipeline` instance before it was
proved, as were `DraftInv`, `OnlyAcceptedIsWritten` and, over repositories of one
line, `AnyOrderTellsTheSame`. None of the properties is inductive without it:
that a plan agrees with its report says nothing of a report no plan was made
from, and the order of rows can only not matter because of what a report
contains.

Why the order does not matter although `dedupeFindings` and `mergeDrafts` keep
the first of what they take for the same: two findings that say the same give
an action of one key (`KeyIsSaid`), the automation of an action is determined by
its key (`Automation`), and score, coverage, readiness and outcome only count
(`SameScore`, `SamePlan`). What does depend on the order, and is no part of a
verdict, is the source value an action keeps: the finding of
`PipelineDeterministic.cfg`.

Why a plan can be ordered: the only action anything depends on is the one of
`ChainIdKey`, which depends on nothing, and `resolvedDependencies` drops the
dependency where there is no such action; `topologicalOrder`, which visits what
a visited action releases, so reaches all of them. Why report and plan agree:
the rules of the planner never raise or lower a status, a BLOCKER becomes
BLOCKED and nothing else does, an UNKNOWN stays UNKNOWN, and a merged action has
the findings of all it was merged from.

`FinalizedAsAccepted` needs no more of a patcher than what it returns: a reason,
or the text with one value replaced (`PatchersReturn`). `DraftInv`, that changes
carry the target of their action, is its invariant.

`ListProofs` is what makes this possible. The library filters and sorts with
recursive operators, of which nothing can be proved here, so `Scanner` has its
own (`Where`, `FirstOf`, `SortedBy`), defined by the positions they keep, and the
passes that need an accumulator are recursive functions. Everything rests on
two lemmas by least elements: that positions are enumerated (`AtIs`,
`SortedIs`), and that iterated steps have a last one (`Iterated`).

### What stays with TLC

- `OnlyJsonPatchesCollide`, `MigratedStaysMigrated` and
  `OnlyAnotherProfileIsMistaken` of the `pipeline` run. They are about which line a
  patch hits. That takes the text of a file, the evidence of each requirement
  from its detector through both merges to the patcher, and that values of
  different kinds of lines differ: labels and endpoints are strings put
  together, and to the provers two such strings may be equal.
- The liveness properties (`RunSettles`, `ChangeSetSettles`, `IntakeSettles`,
  `DeliveriesSettle`, `RowSettles`): liveness under fairness is out of the
  prover's reach.
- `RepositoryIsIngested` over more than one fault and the properties of
  `Staging` outside it are false, as said above; nothing stronger is meant.

Every other property of a passing run is a theorem.

## Plan

Done: the deployment run with its abstract specification; the change set; ingest
and analysis; validation; compatibility runs and plans; the engines and their
composition; the release. Proved: every safety property of the runs but three of
the pipeline's, and the refinement of `BroadcastOnce`.

Left, in this order:

1. The evidence of a requirement as an invariant of the pipeline (a line of its
   file, with its value), from which `OnlyJsonPatchesCollide` follows under
   an assumption about the values of lines of different kinds.
2. An abstract specification of the change set (reviewed, sealed, rolled back),
   with the refinement proved from `IInv` and `CountInv`.
3. Two change sets of one project, which share `activeRevisionId`.
4. Lost locks in the intake.

## Not modelled

- Identity, sessions and access: each request is checked against rows that no
  modelled component writes, with no step another actor could come between and
  change what a modelled handler does. The quota of running jobs
  (`countActiveJobs`) is defined and called by nothing.
- Projects and partners beyond the submission of a repository: ownership,
  attribution, archiving, each one row of one request.
- Retention: `cleanup.ts` truncates tables between integration tests; nothing
  deletes rows of a running system.
- Ecosystem analytics: read-only aggregation, a number per query.
- The web application: presentation; the server depends on no state of it.
- The proxy's method list and request limit, which can only make a script fail,
  a choice the model has already; amounts and nonces of the funder; contract
  rows and the checks over them.
- Cloning, git and the metadata client: a commit or an error.
- Flags, networks and limits of containers; start-up and shutdown of processes;
  logging, metrics, infrastructure.
