# TokenBank: a TLA+ model of the control plane

TokenBank is a private control plane that routes units of work to the capacity
(workers, local tools, model gateways) its owner already has. A host adapter
submits a work unit, the control plane plans and schedules it, a worker polls
for the assignment, leases it, executes it and hands a result back, and the
control plane verifies the result, writes the usage ledger and audit receipts,
and shows a summary. All state is in one SQLite database; every state
transition is meant to be accompanied by a row of the `event_outbox` table.

This directory holds TLA+ modules that model the parts of that program where
order and failure matter, TLC configurations that check them on small
instances, and TLAPS proofs for every instance. Paths are relative to
`src/src/tokenbank/` unless they start with `src/`.

## 1. Inventory

| Component | State | Operations | Interacts with |
|---|---|---|---|
| scheduler (`scheduler/`) | tables `execution_attempts`, `assignments`, `result_envelopes`, `result_quarantine`, status of `work_units` | create_attempt, create_assignment, assign_next_work, poll, accept, reject, progress, submit_result, schedule_retry, schedule_fallback, sweep_expired_leases, record_worker_heartbeat | called by the assignment/result endpoints (worker), by the host pipeline, by the command line; writes the outbox |
| connection and transactions (`db/connection.py`, `db/transactions.py`, `app/deps.py`, `app/lifespan.py`) | one `sqlite3.Connection` per process, its open transaction | transaction(), implicit transactions, commit, rollback | everything that writes |
| event outbox (`events/`) | table `event_outbox`, the JSONL file | enqueue_event, pending_events, append_event_jsonl, mark_written, mark_failed, flush_pending_events | every transaction inserts; the flusher drains |
| migrations (`db/bootstrap.py`) | `schema_migrations` | apply script, record version | server start, every tool that opens the database |
| worker daemon (`worker/`) | spool directory, the leases it was told | heartbeat, poll, accept, progress, execute, submit, spool, replay | HTTP to the control plane |
| HTTP application (`app/`) | application state, tokens | endpoints | wraps scheduler, registry, host pipeline |
| capacity registry (`capacity/`, `app/bootstrap.py`) | `worker_manifests`, `capacity_nodes`, health snapshots | upsert manifest, rebuild projection, discovery | register endpoint, start |
| host pipeline (`host/url_check.py`) | `work_units`, `route_plans`, policy decisions, verifier reports, host result summaries | submit, plan, policy, first attempt and assignment, verify, summarise | scheduler, router, policy, verifier, ledger |
| verifier (`verifier/`) | none (reports are written by the host pipeline) | recipes, checks, recommendation | host pipeline, internal endpoint |
| usage ledger, audit receipts (`ledger/`, `audit/`) | `usage_ledger_entries`, `audit_receipts` (a hash chain) | append an entry, append a receipt | host pipeline, command line |
| account snapshots (`accounts/`) | `account_snapshots` | record a snapshot | command line |
| policy, router, routebook (`policy/`, `router/`, `routebook/`) | none but `route_plans` | classify, analyse, generate, score, validate, explain, decide | host pipeline, command line |
| backends (`backends/`) | none | execute a task, build the result envelope | worker |
| host adapter, MCP server (`host_adapter/`) | none | normalise a request, estimate, submit, record usage, create a receipt | calls router, host pipeline, ledger |
| configuration (`config_runtime/`, `routebook/validator.py`) | the configuration loaded at start | validate | server start, command line |
| dashboard, reports, command line, models | none of their own | projections, argument parsing | read the tables, call the above |

### What is hard in this code

* Every method of `Scheduler` reads on its connection *before* it opens its
  transaction and acts on what it read. Requests of two threads, or of the
  server and the command line, interleave there. So do the commands that record
  usage and create receipts, and the rebuilds of the capacity projection.
* The endpoints are plain functions, so that FastAPI runs them in a thread
  pool, and all of them share one SQLite connection. `commit()` and
  `rollback()` act on the connection, not on the thread. Most writers use
  `transaction()`; the sweeper, `upsert_worker_manifest`,
  `persist_route_plan` and the marks of the flusher do not.
* A result travels over HTTP and may be sent again from the worker's spool
  after it was already recorded. It is committed before it is verified.
* A submission writes its rows in several transactions, and can end between them.
* The flusher writes a file and a database row that no transaction joins; a
  migration script commits statement by statement before the row that records it.
* The lease is a deadline compared with a clock.
* The same question is answered twice by code of its own: the resolver and the
  policy read one allow-list, the HTTP endpoint and the host adapter parse one
  request, the estimate and the submission score one route, two validators
  look at two copies of the routebook, adapters and verifier recipes agree on
  one output.

### What makes each component correct

* Scheduler: a lease is granted once; it changes only with its version; a
  result needs a lease; late results are quarantined, and the quarantine holds
  only late ones; attempts are numbered; statuses are backed by results and
  explained by events.
* Connection: an answered request is durable with its event, any other left
  nothing; event numbers have neither gap nor duplicate; no transaction is
  left open.
* Outbox: a row marked written is in the file; the file is in order; what an
  append spoils is bounded; no row stays pending.
* Start: a recorded migration is complete; a start after an end succeeds; the
  capacity projection is that of the newest manifests.
* Worker daemon: a finished output is submitted or spooled; a spooled one is
  eventually recorded; at most one execution per lease.
* Host pipeline: only approved work is handed out; only a verified result is
  shown as succeeded; a host that asks is answered.
* Ledger and receipts: the chain leads back and forks only under concurrency;
  a receipt bills the work it is for; its hashes resolve.
* Decisions: what is approved is allowed and placed where it can run; private
  data stays where it may be; an estimate is kept unless the defaults make the
  input long; the verdict on a result is safe to act on; bills are not too low.

`PROJECT.json` lists the hazards line by line.

## 2. Modules

| Module | Models | Checked by | Proved in |
|---|---|---|---|
| `Scheduler` | `scheduler/*` | `MCScheduler` (symmetry, a history variable for overlapping requests) | `SchedulerProofs`, with the history variable |
| `AtomicStore` | the contract of a transaction (abstract) | as a property of `SharedConnection` | `SharedConnectionProofs` |
| `SharedConnection` | `db/transactions.py` on the shared connection, statement by statement | itself | `SharedConnectionProofs` |
| `EventOutbox` | `events/*` | itself | `EventOutboxProofs` |
| `WorkerDaemon` | `worker/*` and the worker's endpoints, composed with `Scheduler` | itself | `WorkerDaemonProofs` |
| `HostPipeline` | `host/url_check.py`, the endpoints of results and summaries | itself | `HostPipelineProofs` |
| `LedgerAudit` | `ledger/usage.py`, `audit/receipts.py` | `MCLedgerAudit` (symmetry, a bound) | `LedgerAuditProofs` |
| `Startup` | `db/bootstrap.py`, `capacity/registry.py`, `app/bootstrap.py`, the register and rebuild endpoints | `MCStartup` (scripts, manifests) | `StartupProofs` |
| `Decisions` | what the stages of a work unit decide, from request to bill | `MCDecisions` (configurations, requests, results) | `DecisionsProofs` |
| `Router`, `RouteScoring` | `backends/resolver.py`, `router/*` as operators | through `Decisions` | `DecisionsProofs` |
| `Policy` | `policy/checks.py` and the two doors a request comes in by | through `Decisions` | `DecisionsProofs` |
| `Adapters`, `Verifier`, `Usage` | `backends/*`, `verifier/*`, the figures of `ledger/usage.py` as operators | through `Decisions` | `DecisionsProofs` |
| `ConfigChecks` | `config_runtime/validator.py`, `routebook/validator.py` | through `Decisions` | `DecisionsProofs` |

`WorkerDaemon` extends `Scheduler`: its steps are steps of the scheduler, of the
daemons, or of both. `Decisions` extends the seven operator modules. The other
layers fit together: `SharedConnection` justifies that `transaction()` is one
atomic step, which is how every other module treats it, and that outbox rows are
numbered without gap, which is how `EventOutbox` treats them. Where that
justification fails, because the sweeper commits on the shared connection, the
run `early_commit` shows what happens. `HostPipeline` reduces the scheduler to
the attempts it makes and the results it records, and the verifier to the
recommendation for a body; `Decisions` has the verifier itself.

### Scheduler

A table is a function from the keys of its rows to the rows; only the columns
some property or guard reads are kept. `wu_event`, `attempt_event` and
`assignment_event` hold the newest status-bearing event of each row, `grants`
counts the tokens handed out for an assignment, `clock` is the wall clock and
`req[h]` is the request handler `h` serves, with what its read found.

| Code | Actions |
|---|---|
| `create_attempt`, `schedule_retry`, `schedule_fallback` | `StartFirstAttempt`, `ScheduleRetry`, `ScheduleFallback` read the next number; `CommitAttempt` inserts |
| `create_assignment`, `assign_next_work` | `StartAssign`, `CommitAssign` |
| `accept_assignment` | `StartAccept` (worker and status tests, expiry computed), `CommitAccept` (lease version test) |
| `reject_assignment` | `RejectAssignment` (reads only immutable columns first: one step) |
| `progress_assignment` | `StartProgress` (token test), `CommitProgress` (lease version test) |
| `submit_result` | `StartSubmit` (token test, lateness), `CommitSubmit` (`QuarantineLateResult` or `CompleteAssignment`) |
| `sweep_expired_leases` | `StartSweep` (SELECT), `CommitSweep` (UPDATE without a second test) |
| an exception in the transaction, a locked database, the end of the process | `RequestFails` |

Points of translation worth knowing:

* `accept_assignment` takes an `expected_lease_version` from the request. No
  client in the repository sends one, so it is the default 0 throughout; a
  caller that sent another value could be granted a second lease.
* A result with status `failed` completes the assignment and the attempt and
  sets the work unit to succeeded: that is what the code does. So does one that
  its worker marked `quarantined`, if it is not late: `submit_result` stores the
  status as given, and only a late result gets a row of `result_quarantine`.
* The id of a result envelope is a hash of its content, so that the same
  envelope cannot be recorded twice; a bare output replayed from the spool gets
  a random id and can be (`MaxReplays`).
* `schedule_retry`, `schedule_fallback` and `assign_next_work` are called only
  from tests so far. They are public operations and are modelled as such.
* `poll` changes nothing; `record_worker_heartbeat` only appends a snapshot
  nobody in the scheduler reads. Neither is an action.

### SharedConnection and AtomicStore

`committed` is the database file, `working` what the connection sees, `in_tx`
is `conn.in_transaction`, and `pc` the next statement of each request. A
request makes one state change and one event; it is a *transactor*
(`with transaction(conn)`), a *sweep* or a *plain writer*. `BeginRefused` is a
`BEGIN IMMEDIATE` inside another thread's transaction: the statement is outside
the `try` of `transaction()`, hence no rollback. A data-changing statement
outside a transaction opens one, and if it fails leaves it open. `Crash` ends
the process. `AtomicStore` has three steps: a request succeeds with change and
event, fails with neither, or the process ends.

### EventOutbox

Row `i` has sequence number `i`. `Select` is `pending_events` (ORDER BY
sequence LIMIT), `AppendLine` and `AppendFails` are `append_event_jsonl`, the
latter with or without a fragment left in the file, `Mark` is `mark_written`
or `mark_failed`, and `Stop` an interruption between any two of these. A line
appended to a file that ends in a fragment is `glued` to it and cannot be read.
`overlapped` is a history variable: two flushes have run at the same time.

### WorkerDaemon

A set of daemons started with the configuration of one worker, hence with one
worker id and one spool directory, against the control plane of `Scheduler`.
`phase` is where each daemon is, `job` the assignment it handles with the token
and version it was told, `call` the handler whose answer it waits for, `spool`
the files of the spool directory and `replays` the ones a daemon has listed.

| Code | Actions |
|---|---|
| `run`, `run_once`: register, replay | `Start` lists the spool; `SendReplay`, `Submitted`, `RemoveEntry` for each entry; `ReplayDone` |
| `poll_assignment` | `PollAssignment`, `PollNothing` |
| `handle_assignment` | `SendAccept`, `Execute`, `SendProgress`, `SendSubmit`, `SpoolOutput` |
| the pause, a signal | `NextRound`, `Shutdown` |
| the endpoints of `app/routers/assignments.py` | `Accepted`, `Progressed`, `Submitted`, `Conflict`, `AcceptRefused` |
| `submit_result` is committed and `finalize_url_check_result` raises | `SubmittedWithError` |
| any other exception in a handler | `ServerError` |
| an httpx exception | `Timeout` (the daemon ends, the handler goes on: `UnreadAnswer`) |
| the end of the process, a request that never arrives | `Crash` |
| an adapter that raises | `ExecuteRaises` |

`handle_assignment` catches `ControlPlaneRequestError` around the submission
only, and `_request` raises it only for an answer with status 400 or more. All
other exceptions end the process, which is what `Exit` does. `HostStarts` and
`HostCommits` bring the scheduler's other requests in: first attempts, retries,
assignments and sweeps, of which only one of a kind runs at a time here, since
`Scheduler` has their races. `faults` counts what went wrong, up to `MaxFaults`.

### HostPipeline

`rows[w]` names the tables in which work unit `w` has its row, `submit[w]` the
next stage of its submission, `results` the result envelopes in order, `reports`
and `summaries` what has been committed for them, and `request[r]` where a
request is between its look at the attempts, the commit of a result, that of its
report and that of its summary. `own_recipe` marks a route plan whose verifier
recipe is the one of its task; with another `finalize_url_check_result` gives no
verdict.

| Code | Actions |
|---|---|
| `_submit_demo_work_unit` | `PersistWorkUnit`, `PersistRoutePlan`, `PersistPolicyDecision`, `CreateAttempt`, `CreateAssignment`, one transaction each; `SubmissionEnds` anywhere between |
| `accept_assignment`, `schedule_retry` | `Accept`, `Retry` |
| `assignment_result`, run-once of the gateway | `SubmitResult`, or `ReplayResult` for a spooled output, reads the lateness (`ReadLateness`); `CommitResult` is the transaction, and a `Retry` can come between |
| `finalize_url_check_result` | `PersistVerifierReport`, `PersistSummary`, `NothingToVerify`; `RequestEnds` anywhere between |
| `get_host_result_summary` | `ReadSummary`, `ReadAndFinalize` |

A replayed output is bare: its stored body is no envelope and cannot be
verified, so that a work unit whose only result was replayed is never shown. A
late result's hash was computed before its status became quarantined, so that
the verifier quarantines it too. The hash of one that its worker marked
quarantined (`marked`) matches; the verifier may accept it, and the summary says
quarantined all the same.

### LedgerAudit

An entry id stands for the hash of its seed (work unit, result, report,
account), a receipt id for that of its own, and an entry hash for all the facts
hashed: the version of the routebook and the newest route plan, which are not
part of the id, are one number in it (`routebook`). `cmd[c]` is what a command
has read. `StartRecord`, `UpsertEntry` are `record_for_work_unit`;
`StartReceipt`, then `ReuseEntry` or `RecordEntry`, `BuildReceipt` (which reads
the head of the chain) and `InsertReceipt` (a plain INSERT, which the second of
two equal receipts fails) or `ReturnExisting` are `create_for_work_unit`.
Results, reports, releases of the routebook and new route plans come in between.

### Startup

A script is a sequence of statements of which some, the ALTER TABLEs, cannot be
run twice. `Begin` reads the recorded versions; `RunStatement` commits a
statement, `RecordVersion` the row; `MigrationRaises` is a statement that cannot
be repeated or a version another process has recorded meanwhile. `Register`
commits a manifest, `ReadManifests` reads all of them and checks the pairing
(`ReadRaises` when it fails), `WriteProjection` replaces the rows of
`capacity_nodes`. A server serves once its start has written; a tool migrates
and rebuilds on its own; both can end anywhere.

### Decisions and its operators

One work unit is followed from a request to its bill. `disk` is the
configuration in the files, `loaded` the one the server holds, and an edit of
the files is a step. `EstimateRoute`, `SubmitToAdapter` and `SubmitToServer` are
the doors, `Plan` is `RouterService.plan_route` with the files of the moment,
`Judge` the policy with the loaded configuration, `ExecuteByWorker`,
`ExecuteByGateway` and `ExecutionRefused` the executor, `ReturnOther` a worker
with a result of its own making, `Verify` and `Bill` the rest. What each step
computes is an operator of a module of its own. Strings are classes of strings
that the code tells apart (a secret of one pattern or another, an e-mail
address, code, an empty string; of a wrong type, `Malformed` or `Blank` by
whether Python takes the value for true); scores are integers in units of the
smallest weight. A payload has its top-level fields and those nested under
`inline_input` and `input`, which each door looks through in its own way
(`PayloadFields`, `ServerField`). Lengths are numbers: the length of an input is
that of all its fields, the defaults and the sources of a claim included
(`InlineChars`), so that a default can take it over a threshold of the analysis.
`Judge` may find a worker that is not in the loaded configuration among the
manifests registered in the database.

## 3. Runs

States are distinct states.

| Run | States | What it shows |
|---|---|---|
| `scheduler` | 620 213 | With two concurrent handlers, a clock, renewals, retries, replays and sweeps: at most one lease per assignment (`LeaseGrantedOnce`), which changes only with its version (`LeaseMovesWithVersion`); the quarantine holds only recorded results of overtaken attempts, and a result recorded as quarantined is held there or was marked so by its worker (`QuarantineSound`); statuses are backed by results that the quarantine does or does not hold, and results by leases (`StatusBackedByResult`); every status is the one its newest event announces (`EventsExplainTables`); attempt numbers have no gap (`AttemptsNumbered`); unless requests overlap, they are distinct too and late results are quarantined (`LateResultsQuarantined`) |
| `transactions` | 2 475 | Four threads using `transaction()`: the connection implements `AtomicStore` (`IsAtomicStore`), events are numbered 1 .. n (`SequenceGapless`) |
| `mixed_writers` | 288 385 | Sweeps and plain writers too: what still holds (`AcknowledgedIsDurable`, `NoOrphanTransaction`) |
| `early_commit` | violated | `NoUnannouncedChange` fails |
| `flushes` | 361 839 | Two flushes, failures and interruptions: `WrittenIsInFile`; as long as no two flushes have overlapped `FileInOrder` and `LossBounded`; every row is settled if somebody keeps flushing (`EventsSettle`) |
| `worker` | 373 402 | Two daemons sharing worker id and spool, faults of every kind at every point: an assignment is executed at most once (`ExecutedOnce`), a spooled result stays acceptable (`SpoolAcceptable`), a file goes only when its result is recorded (`RemovedOnlyWhenRecorded`) |
| `worker_liveness` | 97 264 | Two assignments, two faults, sweeps, fairness: every spooled result is recorded and removed (`SpoolDrains`), and unless a fault happens every assignment gets a result (`WorkFinishes`) |
| `lost_output` | violated | `SubmitFailureIsSpooled` fails |
| `host` | 543 637 | Submissions and requests that end anywhere, a replay, a retry before, in the middle of or after `submit_result`: `WorkIsApproved`; what is shown as succeeded is verified and was of the newest attempt when `submit_result` looked (`SucceededIsVerified`); and a host that keeps asking is shown a result (`ResultIsShown`) |
| `ledger` | 1 644 841 | Two commands that record usage and create receipts: the chain forks only by overlap (`ForkNeedsOverlap`), a receipt bills its work and its hash is that of the entry: `ReceiptBillsItsWork`, `ReceiptHashesResolve` |
| `startup` | 31 241 | Two processes that migrate, register and rebuild, ending anywhere: `RecordedIsComplete`, `StartsMigrate` (starts that race still complete the schema), `ProjectionIsCurrent`, `ServerComesUp` |
| `decisions` | 50 085 | What is approved runs where it may and can (`ApprovedIsPlaced`); router and policy contradict each other only where their tests differ (`PolicyAndRouterAgree`), and a validated configuration routes (`ValidatedRoutes`); private data goes to backends allowed to see it (`PrivateDataStays`); scoring is monotone (`ImprovementKeepsRoute`); an estimate is kept, unless only one of the two inputs is long, whose route is then the baseline's (`QuoteIsPlan`); both doors make one work unit of one request but for the fields they look for in different places (`DoorsAgree`); the verdict is safe to act on (`VerdictIsSafe`) and accepts what the program's own adapters make (`OwnOutputAccepted`); bills are not too low (`BilledFairly`) |

The type invariants of the components are proved (section 5) and not part of
the runs, whose properties are the ones below that take several steps to break.

### Bounds

* `scheduler`: two handlers, since every race in the code is between one read
  and one other commit, and two handlers with retries of the failed one produce
  all of them. Two attempts are the smallest number with a late result, three the
  smallest in which two share a number; the third is made only as long as nothing
  is assigned (`AttemptsBound`). Leases
  of different assignments do not interact, so that one assignment suffices;
  other workers only fail the worker test. `LeaseDuration = 0` with clock
  0 .. 1: a lease is overdue one tick after it was given, renewed leases are
  not, and both clock values occur on either side of a read.
  `MaxLeaseVersion = 2`: one accept and a renewal, so that a stale version can
  be sent. `MaxReplays = 1`: a result recorded twice. The theorems hold for any
  number of each.
* Four transactors: one in a transaction, one refused, one before and one
  after. `SharedConnection` serves each request once and has no other bound.
* `MaxEvents = 3`, `Limit = 2`: more rows than one batch holds; `MaxStops = 2`:
  a row interrupted twice.
* `WorkerDaemon`: two handlers, so that the late handler of a request given up
  on and the next request overlap; one in `worker_liveness`, where such a
  handler keeps everybody waiting. `MaxReplays` is above what two faults can
  cause and never binds. Two faults produce the crash of a restarted
  daemon. One assignment where daemons compete, two where one spool entry could
  block another.
* `host`: two attempts and two results, one of them late, overtaken between its
  two halves or replayed, two requests that race for one summary, two that end
  early. Work units do not interact.
* `ledger`: two work units, so that an entry can be taken for the wrong one;
  two results, entries and receipts, the smallest chain that can fork; one
  account besides none; two versions of routebook and route plan, replaced
  between two entries, and that apart from refused results and from entries with
  an account (`ReleaseBound`), on which the routebook has no bearing.
* `startup`: two threads or processes; three scripts, of which the second has
  two statements that cannot be repeated, as 0004 has, between one before and one
  after; three manifests, one of which cannot be paired with a backend; two ends
  and two registrations.
* `decisions`: a configuration like the shipped one (`src/config`, `src/packs`),
  and thirty-four variations of it; the requests cover every branch of the two
  parsers, nested fields among them, and every class of string, the returned
  envelopes every branch of the recipes. A text "brink" is so long that the
  defaults alone take it to 16 000 tokens. `Texts` are the classes of strings
  that occur in these. An
  edit is to one of three configurations, one of which has a backend and a worker
  that the server has not loaded, under a server with one of seven. A result that
  a worker made up is tried only under one configuration, without an estimate and
  without an edit, none of which it depends on (`DecisionsBound`).
* `IdSymmetry` permutes attempt ids, assignment ids and handlers, and in
  `ledger` work units and commands; they are only compared for equality, and no
  run with symmetry checks liveness.

Deadlock is checked for the scheduler, the daemons and `Startup`. The others end
when every request is answered or the bounds are used up; there it is switched
off.

### Fairness

* `worker_liveness` (`FairSystemSpec`): weak fairness of `DaemonStep(d)`: `run`
  is a loop without exit but a signal, and a daemon that ended is started again.
  The restart is the operator's or a supervisor's;
  `src/tests/integration/test_worker_polling.py`
  (test_worker_restart_completed_spool_submit) starts a second daemon to see the
  spool replayed. Without a restart a spooled result stays in the spool. Weak
  fairness of a handler's next step: a request that is served is finished.
* `flushes`: weak fairness of each flush that has begun and of its beginning:
  `EventsSettle` speaks of an operator who keeps calling
  `flush_pending_events`, which nothing in the repository does by itself outside
  the tests.
* `host`: a request that has begun goes on (weak), and the host asks again and
  again: strong fairness of `ReadAndFinalize`, because the threads that serve
  it may be busy in between, though not for ever.
* `startup`: processes go on (weak), and a server that is down is started again
  (strong: a start is possible again and again, not all the time).

Nothing is assumed of the sweeper, the clock or of faults. The sweeper runs only
when somebody posts to its internal endpoint, and a retry is never scheduled by
the program itself; so no property says that a work unit ends after a fault: an
assignment whose `accept` answer was lost, or whose daemon ended between
execution and submission, keeps its lease and is never executed again.

## 4. Where code and documents disagree

1. `early_commit`: the sweeper's `conn.commit()` commits another thread's
   half-done transaction, whose change can then stay without an event.
   `src/SECURITY.md` calls that a release blocker.
2. `lost_output`: `worker/poller.py` says `ControlPlaneRequestError` is raised
   when the control plane request fails and `worker/spool.py` describes the
   spool as the one for failed submits; a submission that fails with a timeout
   or a connection error raises another exception, is not spooled, and its
   output is lost.

Behaviours that the models have and that the properties are worded around:

* `submit_result` decides lateness before its transaction: a retry committed in
  between is missed and the late result completes the work unit. Hence
  "unless requests overlap" in `LateResultsQuarantined`, and "when
  `submit_result` looked" in `SucceededIsVerified`: the host is shown such a
  result as succeeded. Nothing but the tests calls `schedule_retry` yet.
* An envelope that its worker marked `quarantined` and that is not late
  completes its assignment and its work unit, and is in no row of
  `result_quarantine` (`QuarantineSound`, `StatusBackedByResult`).
* The sweeper expires a lease that was renewed after its SELECT; an accept that
  read its status before a concurrent reject still goes through; two concurrent
  retries get the same attempt number, since the index on it is not unique, and
  then neither is late (`AttemptsNumbered`).
* An append after a fragment yields a line that cannot be parsed, and its row
  is marked written (`LossBounded` bounds them). A failed row is never tried
  again.
* A process that ends inside migration 0004 leaves columns that make every
  later start fail (`Torn` in `ServerComesUp`); so does a registered manifest
  that cannot be paired with the backends.
* A registration that overtakes a rebuild leaves the older projection
  (`stale` in `ProjectionIsCurrent`).
* A newer summary of a quarantined result shadows that of the succeeded one;
  a work unit whose newest result is a bare replay and that has no summary stays
  pending (`ResultIsShown`).
* Two receipts built at the same time have one predecessor
  (`ForkNeedsOverlap`); a receipt takes any entry the caller names
  (`ReceiptBillsItsWork`); recording usage again after a release of the
  routebook, or after another plan of the work unit was stored, changes the hash
  of an entry that a receipt quotes (`ReceiptHashesResolve`).
* The two doors look for nested fields in different places: a top-level field
  that is there and empty hides that of `inline_input` from the adapter only, and
  the server does not look into `input` (`ReadOtherwise` in `DoorsAgree`).
* An estimate measures the input without the defaults that submission adds. When
  these take it over 16 000 tokens the level is raised above that of the plan, no
  candidate passes, and the baseline is kept, whatever its health (`Long` in
  `QuoteIsPlan`): with the first model for topics down (`topic_down`) and a
  text just below the threshold the quote names the other one, the plan the one
  that is down.
* The verifier accepts any integer as the count of duplicates, a negative one
  included.
* An empty allow-list allows all to the resolver and nothing to the policy
  (`DeniedByConfig`); a rule that names the gateway for a local backend is
  approved and then refused by run-once (`ApprovedIsPlaced`); a unit of level L0
  with private data is raised to L1, and then no candidate passes the filter
  (`PrivateDataStays`).
* `models/common.py` has a backend class `local_model` that the resolver does
  not know: a configuration that declares such a backend passes both validators
  and its rule is then unroutable (`class_unknown` in `ValidatedRoutes`).
  `model_backend` of `MCDecisions` is that case.

## 5. Proofs

`tlapm` checks every theorem. They hold for every value of the constants under
the assumptions named in the modules: the bounds are natural numbers
(`BoundsAssumption`), the three kinds of writers are disjoint (`KindsDisjoint`),
flushers are finitely many and `Limit` is positive (`OutboxAssumption`), daemons
are finitely many and the worker exists (`DaemonAssumption`), `None` is no
number and no request (`PipelineAssumption`), and no work unit, account,
recommendation or id (`LedgerAssumption`), the gateway is a worker, the
configuration gives workers manifests and a script is a sequence of statements
(`StartupAssumption`). `DecisionsAssumption` says that `None` and `Gateway` are
none of the values they stand apart from, that an edit is to one of the
configurations, and that each of these is `WellFormed`: rules and manifests have
the fields and figures the pydantic models insist on. Two conditions of
`WellFormed` are no loader's: rules have ids of their own, by which the scorer
tells candidates apart and which no validator compares, and the recipe of a task
is the one named after it, if any; the pipeline gives a verdict with no other
(`host/url_check.py:860`), which is the case that `HostPipeline` has without the
mark `own_recipe`. `ValuesAssumption` says what kinds of values there are: texts
(`Texts`, among them the defaults the code adds), lists of texts where the doors
ask for a list, at the top level of a payload and nested, integers as figures of
a body and as prices; and that `None`, `Malformed` and `Blank` stand for none of
these, nor for a claim or what a page shows. Nothing is assumed of which texts,
lists or figures a request or a result has, or how long a list is.

| Theorem | States | Inductive invariant |
|---|---|---|
| `TypeCorrect` | `Spec => []TypeOK` for the scheduler | `Typed`: `TypeOK` alone is not inductive, because a commit looks up the rows its request names; `RefOK` says that they exist |
| `OneLease` | `LeaseGrantedOnce` | `LeaseInv`: the number of tokens handed out is tied to the lease version of the row, so that an accept that expects version 0 finds no token granted |
| `LeasedResults` | `ResultsAreLeased`, a part of `StatusBackedByResult` | `LeaseInv`: a request that passed the token test names an assignment that has a token, and tokens are never withdrawn |
| `StatusIsBacked` | `StatusBackedByResult` | `BackedInv` with `LeaseInv`: a completed or quarantined assignment, and a succeeded work unit, has a result that the quarantine holds or does not hold, as the case may be, and rows of neither table are deleted |
| `EventsExplained` | `EventsExplainTables` | `Explained` with `Typed`: the status of each row is the one its newest event announces, table by table |
| `AttemptsAreNumbered` | `AttemptsNumbered`, of `MCSpec` with its history variable | `NumberInv`: the number before that of an attempt, or before the one a request has read, is in use, and a number in use stays so; `DistinctInv` with `AloneInv`: unless requests have overlapped, the number a request has read is still free |
| `LateIsQuarantined` | `LateResultsQuarantined`, of `MCSpec` with its history variable | `AloneInv`: unless requests have overlapped at most one is in progress, and a submission that read that it is not late still is not |
| `LeaseVersioned` | `LeaseMovesWithVersion` | `Typed`; one step per action |
| `QuarantineIsSound` | `QuarantineSound` | `LateInv`: a request that read late = TRUE names an overtaken attempt. Being overtaken is stable, which is why the stale read is harmless in this direction and harmful in the other |
| `ConnectionTypes` | `TypeOK` of the connection | itself |
| `TransactionsAreAtomic` | `IsAtomicStore` | only transactors: `OneAtATime` (at most one request is between BEGIN and its end, exactly when `in_tx`) with what the open transaction holds in each phase |
| `EventsAreNumbered` | `SequenceGapless` | the same, with the number a request has read still being the next one |
| `NoOrphans` | `NoOrphanTransaction`, for every mix of writers | itself, with `TypeOK` |
| `Durable` | `AcknowledgedIsDurable`, for every mix of writers | `CalmInv`, as long as no block has rolled back: the open transaction only adds to the database, and holds what transactors have written unless another request has committed it already |
| `OutboxTypes`, `NoSilentLoss` | `TypeOK`, `WrittenIsInFile` | `OutboxInv`: a flush that is about to mark a row written has appended its line |
| `OrderedFile` | `FileInOrder` | `AloneInv`: unless flushes have overlapped at most one has a batch, and that is a prefix of the pending rows; `OrderInv` |
| `BoundedLoss` | `LossBounded` | `LossInv`: every unreadable line is paid for by a row marked failed or an interruption, and a fragment at the end of the file by one more, or by a failed append whose row is about to be marked |
| `SystemIsScheduler` | `SystemSpec => Spec`: every step of daemons and control plane is a step of the scheduler, whose theorems therefore hold in the composition | `SystemInv`, below |
| `SystemTypes` | `SystemTypeOK` | `SystemInv` |
| `ExecutesOnce` | `ExecutedOnce` for any number of daemons, handlers and faults | `SystemInv` |
| `SpoolStaysAcceptable` | `SpoolAcceptable` | `SystemInv` |
| `RemovalFollowsResult` | `RemovedOnlyWhenRecorded` | `ReplayInv` with `SystemInv`: a replaying daemon waits for the submission of the entry it works on, and goes on to remove it only when a result of it is recorded |
| `PipelineTypes` | `TypeOK` of the host pipeline | itself |
| `OnlyApprovedWork` | `WorkIsApproved` | `StageInv`: what a submission has written follows from the stage it is at, so that an attempt implies all that precedes it; results and leases imply an assignment |
| `SummariesHaveReports` | `SummaryHasReport` | `ReportInv`: a request that is about to commit a summary has committed the report, of a result that could be verified |
| `SuccessIsVerified` | `SucceededIsVerified` | `ShownInv`: what was shown is a summary of that work unit; with `ReportInv`, `StageInv` and `LeaseInv`: a result read in time, recorded or about to be, is of the newest attempt or older than the retry |
| `NeverWithdrawn` | `ShownIsNotWithdrawn` | `ShownInv` |
| `StartupTypes` | `TypeOK` of the start | `StartupInv` |
| `RecordedMigrationsAreComplete` | `RecordedIsComplete` | `StartupInv`: the statements before the one a process is at have been run, by it or by another, and the versions before its version are recorded |
| `ServedRegistryIsSound` | `ServesSoundRegistry` | `StartupInv`: a process past its migration has seen every version recorded, and one that is about to write holds a view that passed the pairing check |
| `CurrentProjection` | `ProjectionIsCurrent` | `CurrentInv`: while no registration has overtaken a rebuild, every rebuild that has read the manifests read those in force |
| `SchemaIsCompleted` | `StartsMigrate` | `LeaderInv`: processes that run one script fail each other, but never the one furthest in the first version that is missing |
| `LedgerTypes` | `TypeOK` of ledger and receipts | `LedgerInv` |
| `ChainLeadsBack` | `ChainGoesBack` | `LedgerInv`: a receipt that is built and not yet inserted has a stored, older predecessor already |
| `ForksNeedOverlap` | `ForkNeedsOverlap` | `LedgerInv`: every receipt inserted before another was built is no newer than the predecessor that one has (`Chained`) |
| `ReceiptsBillTheirWork`, `HashesResolve` | `ReceiptBillsItsWork`, `ReceiptHashesResolve` | `LedgerInv`: what a command carries is backed by rows (`Backed`), and the facts of an entry are those of its id |
| `LedgerGrows` | `LedgerOnlyGrows`: receipts and entries are never taken back, receipts never rewritten, entries never reordered | `LedgerInv` |
| `RouterAgreesWithPolicy` | `PolicyAndRouterAgree` | `DecisionsInv`, below |
| `PlacementIsRight` | `ApprovedIsPlaced` | `DecisionsInv` |
| `PrivateDataIsKept` | `PrivateDataStays` | `DecisionsInv` |
| `ValidatedConfigsRoute` | `ValidatedRoutes` | `DecisionsInv` |
| `ScoringIsMonotone` | `ImprovementKeepsRoute` | `DecisionsInv` |
| `VerdictsAreSafe` | `VerdictIsSafe` | `DecisionsInv` |
| `DoorsMakeOneInput` | `DoorsAgree` | none: it is a fact of the two parsers, for every request, nested or not |
| `QuotesArePlans` | `QuoteIsPlan` | `DecisionsInv` with `HistoryInv`: the quote is that of the files as they still are, and the unit that is planned is one a door made of the same request |
| `BillsAreFair` | `BilledFairly` | `HistoryInv`: the entry is that of the result, whose figures are those of a body |
| `AdaptersFitRecipes` | `OwnOutputAccepted` | `DecisionsInv` with `HistoryInv`: a result of the program's own is what the selected adapter makes of an input that a door let in, and was approved before it was executed |

`SystemInv` has four parts on top of `Typed` and `LeaseInv`. `CallInv`: the
handler a daemon waits for serves the request that daemon sent, and nobody else
waits for it, so that an answer reaches the right daemon. `TokenInv`: a daemon
past `accept`, and every file of the spool, holds token 1 of an assignment of
this worker; with `LeaseInv` it is the only token and never withdrawn. `ExecInv`:
an assignment is executed only with its token, by one daemon, and only the
daemon that got the token may execute it. The daemon that `accept` answers finds
no token granted before, hence no execution and no other daemon executing.

The theorems about `Decisions` are mostly about its operators, for every
well-formed configuration and every request. `DecisionsInv` is what connects the
steps: the files do not change once a request is submitted, so that the plan is
that of the files as they are (`PlanInv`); a decision is that of the policy on
this plan (`DecisionInv`) and a report that of the verifier on this result
(`ReportInv`). The selected candidate is a `CHOOSE`; `RankedFirst` shows that
the scorer's order (hard filters, score, priority, cost, id) has a first member
in every nonempty set of candidates, and the rest follows from what a candidate
must pass to be in that set. For `ScoringIsMonotone`, `StaysAhead` compares two
candidates before and after the improvement, down to the ties, and also where
another candidate shares the improved backend.

`HistoryInv` remembers what `DecisionsInv` forgets, where the unit, the quote,
the result and the entry came from. For `QuotesArePlans`, two units are `Alike`
if the filters cannot tell them apart: the task, the levels, the effective level
and the signals. Alike units may differ in length, and then every score differs
by the same number, what the confidence of the analysis takes off (`Doubt`):
`NetBounds` shows that no score is cut off at zero, so that the order of the
candidates, hence the selection, is the same (`AlikeScores`). The unit with the
defaults of a submission has the signals of the fields given, since defaults
carry none. It is alike to that of the estimate unless only one of them is
`Long`; that one is raised above the level of its plan (`SameInputLevels`), so
that nothing passes for it (`RaisedPassesNothing`) and the baseline stays. For
`AdaptersFitRecipes`, an output `Fits` a recipe if no check of it fails but the
marker of an injected page, which the recommendation lets through with a
warning. One lemma for each adapter shows that what it makes fits the recipe of
its task: for `LocalScript` that the count is an integer, which is all the
recipe asks of it, for the gateway that a label or a type of claim is one of
those it offers, and that a claim refers to a source id that submission has
filled in.

Sums, `Unique`, `KnownClaimTypes` and the lengths of an input are folds: the
community modules define them by a CHOOSE of a function that satisfies the
equations of the fold, which says nothing until such a function is shown to
exist. `FoldExists` shows it, over the subsets of at most n elements for every
n, and `PickInduction` that what the equations preserve holds of the result.
Both are proved without an induction theorem: if they failed for some size, they
would for a least one (`LeastExists`), and the step contradicts that. So a sum
is at least each of its summands, `Unique` of a list is a list no longer than
it, and `KnownClaimTypes` one of known types.

`TransactionsAreAtomic` and `EventsAreNumbered` are proved under
`Sweeps = {}` and `PlainWriters = {}`, stated in the theorems; with sweeps both
are false (run `early_commit`). Where a definition CHOOSEs a newest
or a least element, `NewestExists` and `LeastExists` give its existence, from the
well-foundedness of the natural numbers.

Only model-checked: the liveness properties `EventsSettle`, `SpoolDrains`,
`WorkFinishes`, `ResultIsShown` and `ServerComesUp`. Every other property of a
passing run is a theorem.

Out of the prover's reach, and left to TLC: liveness under fairness and
ENABLED. Induction over data is, too, where a theorem of the library would have
to be instantiated with an operator; the folds above show what can be done
without. No module here has a RECURSIVE operator.

## 6. Not modelled

* Endpoints, reports and dashboard views that only project tables, schema
  export, argument parsing, the framing of the MCP protocol: nothing changes
  state there.
* Loading of YAML files; `Decisions` starts from the loaded documents.
* Account snapshots: one insert in one transaction, a transactor of
  `SharedConnection`. Capacity discovery and health snapshots: appended and
  never read back by what is modelled. `record_worker_heartbeat`: the same.
* `upsert_manifests` of the backend registry: one transaction without a reader
  of its own.
* The network: what a fetch finds is an input of `Adapters`. The sandbox and the
  log of the worker.
* Token checks at the endpoints are plain guards. Message texts, JSON bodies,
  timestamps other than those compared, redaction, explanations of routes, and
  hashes other than as names of what they hash are abstracted away.

## 7. What could come next

* `HostPipeline` composed with `Scheduler` itself instead of its reduction, as
  `WorkerDaemon` is.
