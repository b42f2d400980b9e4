# Verification of PulseHunter (HILForge)

PulseHunter runs hardware-in-the-loop test suites on registered devices. A
request creates a *run*, the run reserves devices and has one *job* per device,
workers execute the jobs by one HTTP call to the device's agent, and periodic
tasks repair what messages and workers lose. PostgreSQL holds all durable state;
Redis/Celery only carries job ids.

This directory holds TLA+ models of that program, the TLC configurations that
check them, and TLAPS proofs. Every definition is translated from the source;
`PROJECT.json` maps each one to its lines.

## 1. The system

| Component | State it keeps | Operations | Interacts through | Hard behaviour | Must guarantee |
|---|---|---|---|---|---|
| Device registry, `services/devices.py` | `devices` rows: status, last heartbeat | register, heartbeat, liveness scan, select, release | row locks with everything below | heartbeats race run creation and job completion | a reserved device is never offered |
| Runs, `services/runs.py` | `test_runs` rows, one per request | create (reserve + queue), aggregate | locks the run row in each job transaction | two jobs of a run finish at once | run status = aggregate of its jobs, terminal is final |
| Jobs, `services/jobs.py`, `services/execution.py` | `test_jobs` rows: status, attempts, lease, next attempt, owner | claim, finish, schedule retry | worker task id, lease | late answers, crashes, redelivery, retries | attempts bounded; only the current owner's outcome counts |
| Queue, `queueing.py`, `tasks/celery_app.py` | messages in Redis | publish, deliver, acknowledge late, redeliver | job ids only | loss, duplication, delay | nothing: the database is the truth |
| Reconciler, `services/maintenance.py`, `tasks/maintenance.py` | none | recover expired leases, republish queued and due jobs | locks jobs with SKIP LOCKED | overlaps workers and itself; publishes what it read earlier | every job eventually ends |
| HTTP API, `web.py`, `main.py` | none | the handlers around the services; reads of runs and jobs | commits, then publishes; reads in several statements | crash between commit and publication; commits between two reads | a report of a run that is over is final |
| Device client, `services/device_client.py` | none | one HTTP call, errors classed as timeout, transient, permanent | agent | ambiguous failures | – |
| Device agent, `agent/` | execution cache, device id | execute, register, heartbeat | HTTP | duplicate and overlapping executions, cancelled handlers, restart | one execution per job and process; a result belongs to its request |
| Host agent, `host_agent/` | execution cache | execute `host-health` | HTTP | deadline passes before execution | as above |
| CI client, `ci.py` | none | create a run, poll, exit code | HTTP | its own deadline, failing polls | exit code = outcome of the run |
| Dashboard, `static/dashboard.js` | form state | edit, refresh, submit | HTTP, DOM events | refreshes answered after a submission, or out of order | one submission at a time; the devices shown converge |

`PROJECT.json` "hazards" lists, line by line, what is hard to test in this code
and which property covers it.

## 2. Modules

    Domain             status sets, job transitions, run aggregation (no state)
      |
      +-- Rows         the committed transactions on the database rows, atomic
      |     ^  ^
      |     |  +------ RowLocks        the same, statement by statement
      |     |
      +-- Dispatch ----+               runs, broker, workers, reconciler
            |    |
            |    +--> Attempts <------ AgentEngine   calls, agents, executions
            |         one attempt after the other, per job (abstract)
            v
           Lab                         what a client is promised (abstract)
            ^
            +- - - - - CiClient        a build that gates on a run

    AgentControlLoop   registration and heartbeats of one agent
    Redelivery         one message of one job in real time
    Dashboard          one tab: form, refreshes and submissions

    MCDispatch, MCRowLocks, MCAgentEngine, MCCiClient, MCRedelivery,
    MCDashboard        instances for TLC
    DispatchProofs     theorems; DispatchRefinement builds on it (aggregation,
                       step properties and the three refinements of Dispatch)
    RowLocksProofs, AgentEngineProofs, AgentControlLoopProofs, CiClientProofs,
    RedeliveryProofs, DashboardProofs
                       theorems of one module each

A solid arrow `A -> B` is a checked refinement (`INSTANCE B WITH ...`, the
abstract specification as a PROPERTY of a run); CiClient *uses* Lab as its
server. Two abstract modules tie the detailed ones together. Dispatch has
devices that answer anything at any time, and implements Attempts; AgentEngine
has the devices in detail and a control plane reduced to Attempts. CiClient
runs against Lab, which Dispatch and RowLocks implement.

### Domain

`AllowedTransitions` is `_ALLOWED_TRANSITIONS`; `Recompute(old, S)` is
`recompute_run_status` as a function of the run's status and the *set* of its
jobs' statuses: the code only asks `any` and `all` of them.

### Dispatch

The core. One variable per column that a rule reads, plus the broker and the
two kinds of processes that publish:

| Variable | Code |
|---|---|
| `devStatus`, `hb` | `devices.status`; whether `last_heartbeat_at` is within the timeout |
| `runStatus` | `test_runs.status` |
| `jobStatus`, `attempts`, `lease`, `nextAttempt`, `owner` | the `test_jobs` columns; `owner` is `worker_task_id` |
| `phase`, `msgJob` | per Celery task id: in the broker (`queued`), in the HTTP call (`calling`), after the retry transaction (`publishing`), before the acknowledgement (`returning`), not in use (`free`) |
| `claimAttempts` | `ClaimedJob.attempts`, the worker's snapshot |
| `apiOutbox`, `scanOutbox` | job ids that a request or a reconciler holds after its commit and has not published |

| Action | Code |
|---|---|
| `Register`, `Heartbeat` | `register_device`, `record_heartbeat` with their commits |
| `MarkStaleDevicesOffline` | the Beat task, and `GET /devices` |
| `CreateRun(r, S)` | `create_run` + commit; S is all available devices, the requested ones, or what SKIP LOCKED leaves |
| `ApiPublish`, `ApiPublishFails` | `enqueue_jobs`: an exception or a crash drops the rest |
| `ClaimTask`, `IgnoreTask` | `_claim`, and its early returns |
| `DeviceAnswers`, `RetryableFailure` | the branches of `execute`, each with the transaction it runs (`Finish` or `ScheduleRetry`) |
| `DiscardLateOutcome` | the ownership check failing |
| `PublishRetry`, `PublishRetryFails` | the publication after the retry transaction |
| `Acknowledge`, `WorkerLost`, `AbandonTask`, `LoseMessage` | late acknowledgement; redelivery under the same task id; hard limit or database error; Redis losing a message |
| `Reconcile(S)` | one transaction of the reconciler, S the expired jobs it could lock; then `ReconcilerPublish`, `ReconcilerPublishFails` |
| `HeartbeatExpires`, `LeaseExpires`, `BackoffElapses` | a deadline passes |

Abstractions. *Time*: each deadline may pass at any moment, so the model has
every ordering that clocks, slow calls and slow workers can produce, and more
(a lease may expire at once). *Atomicity*: a transaction is one step. Two reads
of the code are not protected by a lock, and a release is judged by a clock read
before the transaction waited for its locks; these make a transaction less than
atomic. They are the non-determinism of `ReleaseOutcomes` and `StatusesOnContact`,
and RowLocks checks that nothing else is needed. *Data*: payloads, results, logs and
durations are left out. *Task ids* are unique in the code; the model reuses an
id once its task is over and no running job names it as owner (`FreshTask`),
which nothing can observe.

### RowLocks and Rows

RowLocks runs the transactions of Dispatch statement by statement in a small
model of PostgreSQL's READ COMMITTED: a session sees committed rows and its own
writes (`Sees`), `FOR UPDATE` and `UPDATE` wait for the row's lock (`Take`),
`SKIP LOCKED` passes over locked rows, an UPDATE re-evaluates its condition
after waiting (`MarkRow`), and the ORM emits no UPDATE for an attribute that did
not change (`ReadDevice`). `Rollback` can end any transaction at any statement:
a crash, a lost connection, or PostgreSQL resolving a deadlock.

A device that is not registered yet has no row to lock: two first registrations
both find none (`BeginInsert`), and the unique name lets one INSERT through
(`Insert`). The reads of the API have no locks at all: `load_run` reads the run in
one statement and its jobs in a second (`BeginRead`, `ReadRest`), and what
commits in between is seen by the second only. `ReportsAreFinal` says why this is
harmless: the run is read first, and a run that is over has jobs that do not
change. With the jobs first it would not hold.

`Wanted` and `WaitsFor` are the waits-for graph of the open transactions. No
statement of the code orders its locks explicitly, and a circle is possible: the
liveness scan locks devices in scan order, and a reconciler that ends several
attempts locks device, run, device, run. `DeadlocksNeedTwoScans` says that these
are the only ingredients: workers, heartbeats and requests never deadlock among
themselves, nor with one maintenance transaction.

Rows is the atomic version of the same transactions. RowLocks implements Rows
(`CommitsAreAtomic`), and so does Dispatch (`ActsOnRows`): together they say
that what Dispatch takes for atomic is. RowLocks implements Lab, too
(`ImplementsLab`): what a client is promised holds whatever overlaps. This is
also how the two unlocked reads were found: with deterministic release and
contact rules `CommitsAreAtomic` is violated.

A heartbeat may expire at any moment, also while a transaction is open that has
judged it or is still to judge it. `_finish` reads its clock before it waits for
the job's row, so a release may take a heartbeat for fresh that has expired since
(`ReadDevice`), and a scan may have committed "offline" before the release writes
"online" over it. A released device is therefore left online, offline or as it is,
whatever its heartbeat. The liveness scan and the selection of devices have no wait
between their clock and the statement that uses it; they are modelled as judging
at that statement, since an expiry in between could as well come after it.

### Lab

What a client may rely on: devices are reserved exclusively, every job gets
one verdict, and the run has its outcome at the moment its last job has a
verdict. Two actions, no queue and no time. `Dispatch!ImplementsLab` maps the
rows to it.

### Attempts and AgentEngine

Attempts is the bookkeeping of one job's attempts without queue, lease or time:
a verdict, the attempts started, and whether one is on the books. Dispatch
(`ActsOnAttempts`) and AgentEngine (`ActsOnAttempts`) both implement it.

AgentEngine models the calls that the attempts lead to and the agent that
receives them; `kind` says which engine it runs.

| Variable | Code |
|---|---|
| `verdict`, `tries`, `current` | the job as Attempts sees it; `current` is the call of its attempt under way |
| `definition` | `test_suites.definition`, read at each claim |
| `phase`, `request`, `waiting`, `answer` | one HTTP call: at the agent or not, what it asked for, whether its worker still waits, the class of the response |
| `cached`, `task`, `drawn` | `_executions` (fingerprint and task) and `_attempts` |
| `starts`, `restarts`, `performed` | history: what the process has really executed, and found |

| Action | Code |
|---|---|
| `Attempt`, `Receive`, `GiveUp`, `ConnectionFails` | claim and call; `HttpDeviceClient.execute` classing the response, a timeout or an error; `JobExecutor` acting on it (`Record`, `AfterFailure`) |
| `WorkerLost`, `LeaseExpires`, `LoseRequest`, `Reseed` | a worker dies in the call; the reconciler ends the attempt; a request never arrives; the suite changes between two attempts |
| `JoinExecution`, `AdmitSimulated`, `AdmitOnHost`, `RefuseSuite` | the branches of `execute`, which hold the asyncio lock over no `await` and so are one step each |
| `FinishExecution`, `Respond`, `CancelHandler` | the end of `_run`; the handlers returning its result; a handler cancelled because its client has gone, which the shield keeps from the task |
| `Restart` | the process loses its cache |

The fingerprint of a request excludes its deadline, so it is the definition
here. The deadline of hosts is compared with another machine's clock: `AdmitOnHost`
may reject any new request.

### AgentControlLoop

One agent's `run()` loop, its process (started, crashed, stopped, started again
elsewhere), its requests in the network and the device row. The loop keeps the
id only while every request succeeds (`IdAfterReply`); any error sends it back
to registration. Requests outlive the loop's patience and the process: they
stay in `mail` until the server handles them or they fail, in any order. The
history variable `overtaken` records that the last registration handled was one
of an earlier process.

### CiClient

`run()` of `ci.py` step by step (`pc`), one request at a time. `posted` is the
POST that the server may still handle after the client has given it up;
`late` is the wait deadline, which is tested before each poll only. `mine` is
history.

### Redelivery

Dispatch redelivers a message only when its worker is lost. The broker does it
by time: after the visibility timeout, whatever the worker does. This module has
the durations of `core/config.py` as arithmetic (`LeaseTime`, `HardLimit`,
`VisibilityTimeout`, `Delay`), and one message with its countdown, its wait for
a worker process, its execution up to the hard limit and its redeliveries under
the same task id, next to the reconciler's message for the same job with
another one. A tick is five seconds in the instance. `SettingsFit` is the condition
under which Dispatch's rule is right: the longest countdown plus the longest
wait for a process is less than two hard limits. The backoff settings are
chosen in the initial state.

### Dashboard

The page of `static/dashboard.js`, and a server reduced to the devices that
exist and are online. JavaScript runs a handler without interruption up to its
`await`; so `refreshDevices` is `RequestRefresh` and `ApplyRefresh`, and the
submit handler is `Submit` and `OpenRun` or `ShowError`, with the user's edits and
other responses in between.

| Variable | Code |
|---|---|
| `registered`, `ready`, `inbox` | the server's device rows, the online ones, and the POSTs it has not handled |
| `known`, `shown` | the checkboxes in the page; the ones whose `data-device-status` is online |
| `form` | suite, scope, ticked checkboxes, `creatingRun`, `submit.disabled`, the class of the message |
| `fetch`, `post` | each refresh under way with its response; how far each submission is for the page |

`UpdateState` is `updateState()`, the function that every handler ends with.
`creatingRun` is tested before the `await` of a refresh and not after it, and
refreshes are not numbered: the module has both races. A refresh that lists a
device without a checkbox reloads the page (`Load`), which forgets what was under
way there. `ConnectionFails` leaves the POST in the `inbox`: the server may create
the run although the page shows an error.

## 3. What the runs check

| Run | Instance | Shows |
|---|---|---|
| `dispatch_device` | 1 device, 2 runs, 2 task ids, 2 attempts | exclusive reservation, the budget, the lease columns, that a superseded attempt changes nothing; Dispatch implements Lab and Attempts |
| `dispatch_run` | 2 devices, 1 run, 2 task ids, 2 attempts | the run's status is the aggregate after every commit; only legal transitions; Dispatch implements Rows |
| `dispatch_live` | 1 device, 1 job, 2 task ids, 3 attempts | every run ends; a device left busy by a race recovers; once all runs are over the broker empties for good |
| `rowlocks` | 2 devices, 2 runs, 3 jobs, 2 sessions | no aggregation write skew, no double reservation, atomic commits (RowLocks implements Rows and Lab); final reports; what a deadlock takes |
| `rowlocks_release`, `rowlocks_select` | 2 sessions | two divergences of section 6 (expected violations) |
| `agent` | 1 job, 3 calls, 2 definitions, 3 attempts, 1 restart | one execution per process, earned passes, shielded executions end; AgentEngine implements Attempts |
| `loop` | 2 URLs, 2 requests under way, 2 row ids | the URL in the row is the process's; agents that run are seen; shutdown ends the loop |
| `ci_gate` | 2 runs, 3 jobs, 2 devices | true exit codes, one run per build, the build ends |
| `dashboard` | 2 devices, 2 suites, 2 refreshes, 2 submissions | one submission at a time, errors stay unless a new device is listed, the devices shown converge |
| `redelivery` | default and 45 s backoff, the timeouts of hosts and of simulators, 3 deliveries, 3 attempts, waits up to 25 s | with settings that fit, one live delivery, current snapshots, the budget |
| `redelivery_backoff` | the same, 2 deliveries, no wait | the third divergence of section 6 (expected violation) |

Bounds and why they are enough.

* *Dispatch.* Two runs on one device are what it takes for a late answer of one
  run to meet the reservation of the next. Two jobs of one run are what
  aggregation needs: the code reads the set of statuses only. Two task ids let
  an old attempt, the retry that superseded it and, once one ends, a duplicate
  be under way together. Two attempts give a first, a retried and a final one;
  the liveness run uses the default of three.
* *RowLocks.* Every anomaly that a missing lock would admit here is between two
  transactions, the one that read and the one that wrote in between, and the
  transactions committed before them lead each pair to every state it can meet. Two runs share one
  of two devices, so a run has two jobs to aggregate and a device two runs to
  serve. A deadlock among more than two transactions is beyond this instance.
* *AgentEngine.* Three calls are a late one, its retry and the last attempt, all
  under way together. Two definitions, of which a host supports one; one
  restart separates two caches; the script is the default of the unreliable
  mode, which answers the first request with 503 and passes the next.
* *AgentControlLoop.* Two requests: the one the loop waits for and one it has
  given up. Two row ids: one database, and one recreated.
* *CiClient.* The build's run and a competing one for the same device.
* *Dashboard.* One device supports one suite, the other both, so that changing the
  suite changes the offer. Two refreshes under way are what it takes for answers
  to overtake each other; the second submission is the one that must wait for
  the first. With two devices one may be unknown to the page while the other is
  selected.
* *Redelivery.* Three deliveries of one message let a copy of a copy appear.
  Waits for a free process are bounded by `PoolWait`; nothing in the code bounds
  them, so "with settings that fit" includes that assumption.

Task ids, sessions and copies are interchangeable, so safety runs use symmetry;
runs with liveness properties do not.

Only `ci_gate` disables the deadlock check: the client exits, and the bounded
laboratory runs out of runs.

Fairness (`Dispatch!Fairness`), by conjunct: Beat schedules both periodic tasks
for ever (weak fairness of the full reconciliation and of the liveness scan); a
request handler that has committed publishes, fails or crashes; a
publication that is attempted again and again succeeds eventually, and so does
the delivery of some message of a job that is republished again and again
(strong fairness: both are disabled now and then by a full pool or a lost
message); a worker's call and publication end, by their result or by the hard
time limit; clocks advance; and an agent either goes on sending heartbeats or
falls silent for good (`AliveOrSilent`). Nothing is assumed of devices, of
clients, or of workers staying alive.

`AgentEngine!FairSpec`: the agent's event loop runs every request handler and
every execution to its next step. `AgentControlLoop!FairSpec`: the loop is
scheduled and its requests end, by its own HTTP timeout if need be; requests
that it has given up are handled or fail in the end; and an agent that asks
again and again is answered in time again and again (strong fairness: each
single request may be lost). `CiClient!FairSpec`: the client's process runs, its
HTTP timeout ends every request, and its clock reaches the deadline. Nothing is
assumed of the server. `Dashboard!FairSpec`: the tab is visible, so its timer goes
on firing (`document.hidden` would stop it); the browser runs the continuation
of every request that has ended, and ends every request; and a server that is
asked for the devices again and again answers again and again (strong fairness:
any single refresh may fail). Nothing is assumed of the user or of the devices:
`ShownConverges` is about a device that has stopped changing.

## 4. What is proved

`DispatchProofs` proves, for every set of devices, runs, jobs and tasks and
every `MaxAttempts >= 1`, under the assumptions `JobKeys`, `Nulls` and
`AttemptBudget` of Dispatch (foreign keys, the unique constraint, and the
setting's lower bound):

* `TypeCorrect` and `BudgetRespected`, from `AttemptInv`. The bound on
  `attempts` is not inductive. It needs that a retry is scheduled below the
  bound (`AttemptsCounted`), which the worker decides from its snapshot, which
  must therefore be the row's counter as long as the worker owns the attempt
  (`OwnersAreCurrent`); and that a fresh job has had no attempt, because jobs
  appear together with their run (`RunsComeFirst`).
* `NoDoubleBooking` and `ReservedDevicesStayReserved`, from `ReservationInv`.
  Exclusivity is not inductive either, because run creation looks at the
  device's status only; it needs that an online device has no active job, and
  that in turn needs exclusivity when a release turns a device online.
  `NoNewReservation` is the lemma that every step but run creation uses.

`DispatchRefinement` builds on `AttemptInv` and `ReservationInv`. Its first part
(`StepKinds`) reduces `Next` to four kinds of steps: a run's jobs come into being
(`Reserves`), an attempt starts (`Starts`), the attempts of a set of jobs end
(`Ends`), or no job notices anything (`Quiet`). Everything after it is proved per
kind, not per action:

* `RecoveryFindsEveryJob`: lease and next attempt are set exactly where the
  reconciler looks for them.
* `RunsAggregateTheirJobs`, from `AggregationInv`: that a run row is recomputed
  only by the transactions that change a job is enough, because a run that is over
  has no job that could still change.
* `TransitionsAreLegal` and `LateOutcomesChangeNothing`, about single steps, from
  `AttemptInv`.
* `AttemptsAreBooked`, `DispatchActsOnRows` and `DispatchImplementsLab`: Dispatch
  implements Attempts, Rows and Lab. Initial states map to initial states, and
  each kind of step maps to one action of the abstract module or a stutter. For
  Lab the aggregation is needed: `Lab!Conclude` gives a run its outcome at the very
  step that brings the last verdict.

`AgentEngineProofs`, for every set of jobs, calls and definitions, every script
and both engines, from `AgentConstants`:

* `ExecutedOncePerProcess` and `PassesAreFound`, from `AgentInv`. That a process
  executes a job once needs that it remembers all it has begun
  (`BegunIsRemembered`). That a pass is earned needs the whole way of a result:
  a remembered or travelling "passed" was found by an execution
  (`ResultsAreFound`), and a call waits only for an execution of what it asked
  for (`AttachedToOwn`), which is what the fingerprint is for.
* `TypesAreKept`, from `AgentInv` (a task of exactly the jobs that are cached is part
  of `BegunIsRemembered`) and `Ranges`; and `CallsAreBooked`: an answer, a
  timeout or a broken call ends an attempt that is under way, or nothing
  (`RecordEndsAttempt`), so the engine implements Attempts, too.

`RedeliveryProofs`, for every number of copies, all durations and all backoff
settings, from `Times`:

* `SoleOwner`, `AttemptsBounded` and `LateResponsesAreDiscarded`, from
  `SettingsFit => RedeliveryInv`. The heart is `Accounted`: the age of a live
  delivery is its countdown, its wait and its run, each bounded, so it never
  reaches the visibility timeout (`NeverRedelivered`). One delivery then makes
  the worker's snapshot current (`SnapshotCurrent`), which the budget needs.
* `TerminalResultsStay`, without any condition on the settings. The step is short,
  and `OnlyLegalTransitions` of Dispatch is its general form, which is why no run
  of this module repeats it.

`RowLocksProofs`, for every set of devices, runs and jobs and any number of
sessions, from `Keys` (foreign keys and the unique constraint), `Tables` and
`NobodyIsNoSession`:

* `RowsAreTyped` and `ReservationsStayExclusive`, from `LockInv`. The committed
  rows alone are not inductive: what matters is what an open transaction is
  about to commit. `Written` says that a draft is written only under its lock and
  that jobs are drafted only while they are absent or active; `NewJobs`, that a
  drafted job comes with a "busy" draft of its device, which is free; and
  `OnlineDrafts`, that "online" is drafted only together with the end of the
  device's last job. These survive the commits of the *other* sessions because a
  job becomes active on a device only by a commit that holds the device's lock
  (`OthersAreUndisturbed`, the lemma that carries the interleaving).
  `JobsFollowRuns` gives two jobs of one commit the same run, hence by the unique
  constraint different devices. `Position` ties each statement to the rows the
  transaction holds there.

* `DeadlockFreedom`, from `HoldingInv`: a transaction that holds a run and waits
  is a maintainer; one that holds a device, waits and is no maintainer is a worker
  at the lock of its run, and the device is that of its job. From any member of a
  circle two steps lead to a maintainer (`Blockers`), and from that one two more to
  a maintainer again. If that were the same one, it would end a job on the device
  whose job another session is ending (`EndedOnDifferentDevices`), which
  `ReservationsAreExclusive` excludes. TLC's instance has two sessions; the
  argument is about any number.
* `NoRunIsStranded` and `FinalReportsAreConsistent`, from `RunInv`. A committed
  run is what `Recompute` derives from its committed jobs. That is not inductive:
  what counts is what an open transaction will commit. `RunDrafts` says that a
  drafted run is derived from the jobs as that session *sees* them, except between
  the change of a job and the recomputation (`Outdated`); the other sessions cannot
  spoil it, because a commit that changes a job of the run holds the run's lock.
  `FinalReads` is the reader's side: a run it saw over is still what it saw.

* `TransactionsAreAtomic`, from `DraftInv`: RowLocks implements Rows. What a
  transaction is about to commit must be what the whole transaction would do *at
  the moment of the commit*, so `DraftInv` says of each kind of transaction what
  its draft has to do with the rows as they are now, and `OthersDrafts` that no
  commit of another session spoils it. A contact writes "busy" only on a device
  that is not online and has, or has had, a job; a scan writes "offline" only on
  rows that are still stale; a reservation's devices are still on offer; the jobs
  that a session ends are still running, and it drafts a device only where it ends
  the job that holds it (`Releasing`). What the theorem does *not* say is that a
  release follows the heartbeat: its outcomes are left open by Rows, because the
  code judges an unlocked row by an earlier clock; `rowlocks_release` is the run
  about it. That "online" is still never written to a reserved device is
  `ReservationsStayExclusive`. `CommitAggregates` takes the run rows from `RunInv`.
* `TransactionsKeepPromises`: RowLocks implements Lab. Each step of Rows is one of
  Lab or invisible (`RowsKeepPromises`), given that a run row shows the outcome
  which the verdicts of its jobs deserve (`OutcomesAreDeserved`, from `RunInv`).

`AgentControlLoopProofs`, for every set of URLs and requests, from `Bounds`:
`LoopAndRowAgree` and `WorkersCallTheProcess`, from `LoopInv`. That the row whose
id the process holds has its URL needs the requests on their way: an own
registration carries the URL the process was started with and a heartbeat an id
that the database has given (`MailInv`); the answer to a heartbeat is about the id
the loop holds, and a registration's answer counts as held already (`ReplyInv`,
`Held`).

`CiClientProofs`, from `NullRun`: `ExitCodesAreTrue` and `NoSecondRun`, from
`CiInv`. The exit code is true because the outcome of a run is final in Lab
(`OutcomesAreFinal`), so what the client last read is still so when it exits;
`Control` says what is known at each point of the program, and `Runs` that one POST
is sent at most.

`DashboardProofs`, from `Capabilities`: `ButtonIsRight`, `NoDoubleSubmission` and
`ErrorsAreKept`, from `PageInv`. `Consistent` is what `updateState()` establishes
whenever a handler ends with it (`UpdatedForm`); `OneUnderway` ties `creatingRun` to
the submission under way, which a refresh answered late must not disturb. An error is
gone, without an act of the user, only when a response lists a device without a
checkbox, for which the code reloads the page.

Each argument is the usual one: the invariant holds initially, every action of
`Next` preserves it (one step per action), and PTL lifts it.

## 5. What is only model-checked, and what is not modelled

Every safety invariant, action property and refinement that a passing run checks is
a theorem. Liveness (`EveryRunFinishes`,
`NoDeviceStaysLeaked`, `BrokerDrains`, `AcceptedExecutionsFinish`,
`RunningAgentsBeat`, `StopEndsTheLoop`, `BuildEnds`, `ShownConverges`) stays with
TLC: the prover does not handle ENABLED and fairness.

Not modelled:

* rendering, wording, `app.js`, schemas, logging and health probes: no state that
  a rule reads;
* the browser's history: a page restored from its back/forward cache still has
  `creatingRun` set and offers nothing until it is reloaded; and form fields that
  a browser keeps over a reload;
* the checks of the host agent themselves (`host_agent/checks.py`): local I/O
  with one result, of which AgentEngine keeps that it passes, fails or raises;
* argument parsing, source metadata and the summary of the CI client;
* queue lengths, prefetching, and the database's connection pool;
* migrations, which run before the services start, and the verification scripts,
  which call a laboratory from outside.

## 6. Divergences found

1. `rowlocks_release`: `_finish` releases a device row that it read without a
   lock. A heartbeat that commits in between makes the device fresh, and the
   release still writes `offline`, or writes nothing and leaves it `busy`.
   `docs/architecture.md:116` says it is released to online if its heartbeat is
   still fresh. The next heartbeat repairs it (`NoDeviceStaysLeaked`); until
   then no run can select the device.
2. `rowlocks_select`: `SKIP LOCKED` skips a device whose row its own heartbeat
   is updating. `README.md:178` says that a run without device ids selects
   every fresh online device.
3. `redelivery_backoff`: the visibility timeout ignores the countdown of a retry,
   which the worker holds unacknowledged. With `retry_backoff_seconds` and
   `retry_backoff_max_seconds` at 45 a message is redelivered before its first
   copy is done; both have the same task id, so a late response of the first
   ends the attempt of the second. `core/config.py:62` says "A task must not be
   redelivered while a live worker can still own it", and
   `docs/architecture.md:146` that a late response cannot overwrite a later
   owner. The default settings fit.

## 7. Plan

Done: every module of section 2, and the theorems of section 4. Every safety
property and every refinement of the passing runs is proved; liveness is out of the
prover's reach.
