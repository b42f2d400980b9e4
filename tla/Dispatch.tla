------------------------------ MODULE Dispatch ------------------------------
(***************************************************************************)
(* Run creation, the broker, the workers and the two periodic maintenance  *)
(* tasks over one PostgreSQL database.  A step is one committed            *)
(* transaction, one broker operation or the passing of one deadline.       *)
(* Transactions are serialised by the row locks they take; the two reads   *)
(* the code makes without a lock (of the device a finished job releases,   *)
(* and of a device's jobs on a heartbeat), and the clock that a release    *)
(* reads before it waits, are the non-determinism of ReleaseOutcomes and   *)
(* StatusesOnContact.  RowLocks shows statement by statement, for any      *)
(* moment at which a heartbeat may expire, that there is no other.         *)
(*                                                                         *)
(* Time is abstract: a lease is "live" or "expired", a retry "future" or   *)
(* "due", a heartbeat "fresh" or "stale", and the deadline may pass at any *)
(* moment.                                                                 *)
(***************************************************************************)
EXTENDS Domain, Integers

CONSTANTS
  Device,        \* device rows, one per agent name
  Run,           \* run identifiers, each created at most once
  Job,           \* job identifiers: one per (run, device) pair that may occur
  RunOf,         \* RunOf[j], DeviceOf[j]: the foreign keys of a job row
  DeviceOf,
  Task,          \* bound: Celery task ids that are in use at the same time
  NoTask,        \* worker_task_id IS NULL
  NoJob,         \* a task id that is not in use carries no job
  MaxAttempts    \* Settings.job_max_attempts

ASSUME JobKeys ==
  /\ RunOf \in [Job -> Run]
  /\ DeviceOf \in [Job -> Device]
  /\ \A j, k \in Job :        \* UNIQUE (test_run_id, device_id)
       RunOf[j] = RunOf[k] /\ DeviceOf[j] = DeviceOf[k] => j = k

ASSUME Nulls == NoTask \notin Task /\ NoJob \notin Job

ASSUME AttemptBudget == MaxAttempts \in Nat \ {0}

VARIABLES
  devStatus,     \* devices.status, "absent" before the first registration
  hb,            \* is devices.last_heartbeat_at within the heartbeat timeout?
  runStatus,     \* test_runs.status, "absent" before create_run
  jobStatus,     \* test_jobs.status, "absent" before create_run
  attempts,      \* test_jobs.attempts
  lease,         \* test_jobs.lease_expires_at
  nextAttempt,   \* test_jobs.next_attempt_at
  owner,         \* test_jobs.worker_task_id
  phase,         \* what a task id is doing: in the broker, or on a worker
  msgJob,        \* the job id the task carries
  claimAttempts, \* ClaimedJob.attempts, the worker's snapshot
  apiOutbox,     \* ids a request handler has committed and not yet published
  scanOutbox     \* ids a reconciler has read and not yet published

deviceVars == <<devStatus, hb>>
jobVars    == <<jobStatus, attempts, lease, nextAttempt, owner>>
taskVars   == <<phase, msgJob, claimAttempts>>
outboxVars == <<apiOutbox, scanOutbox>>
vars       == <<deviceVars, runStatus, jobVars, taskVars, outboxVars>>

JobsOf(r)   == {j \in Job : RunOf[j] = r}
JobsOn(d)   == {j \in Job : DeviceOf[j] = d}
Active(j)   == jobStatus[j] \in ActiveJobStatuses
Terminal(j) == jobStatus[j] \in TerminalJobStatuses

-----------------------------------------------------------------------------
(* The predicates the code branches on. *)

\* Variant: a job waiting for its retry is not counted.
HasRunningOrQueuedJob(d) == \E j \in JobsOn(d) : jobStatus[j] \in {"queued", "running"}

HasActiveJob(d) == \E j \in JobsOn(d) : Active(j)

\* Variant: a device that is busy stays so.
BusyStaysBusy(d) ==
  IF HasActiveJob(d) \/ devStatus[d] = "busy" THEN {"busy"} ELSE {"online"}

\* The statuses that a registration or a heartbeat can give a known device.
\* It holds the device's row while it looks for active jobs, which does not
\* stop a release that emits no UPDATE of that row: the job seen active may be
\* over when "busy" is written.
StatusesOnContact(d) ==
  {IF HasActiveJob(d) THEN "busy" ELSE "online"} \cup
  {s \in {"busy"} : devStatus[d] # "online" /\ \E j \in JobsOn(d) : Terminal(j)}

\* Variant: the heartbeat alone makes a device available.
AliveDevices == {d \in Device : hb[d] = "fresh"}

\* available_devices_query
Available == {d \in Device : devStatus[d] = "online" /\ hb[d] = "fresh"}

\* The statuses release_device can leave.  It judges the heartbeat by a `now`
\* that was fixed before the transaction waited for its locks, and in a device
\* row read without a lock.  So it may write "online" although the heartbeat has
\* expired since, and a scan seen it; "offline" although a heartbeat has come
\* since; or nothing, when the row it read was "offline" already (the ORM emits
\* no UPDATE for an unchanged attribute), and what that heartbeat wrote stays.
ReleaseOutcomes(d) == {"online", "offline", devStatus[d]}

\* Variant: any job that nobody is running.
ClaimableUnlessRunning(j) == jobStatus[j] # "running" /\ nextAttempt[j] # "future"

\* The claim rule of _claim.
Claimable(j) ==
  \/ jobStatus[j] = "queued"
  \/ jobStatus[j] = "retrying" /\ nextAttempt[j] # "future"

\* Variant: the worker_task_id comparison is missing.
SomeoneOwnsRunningAttempt(t) == jobStatus[msgJob[t]] = "running"

OwnsRunningAttempt(t) ==
  LET j == msgJob[t] IN jobStatus[j] = "running" /\ owner[j] = t

\* Variant: off by one.
ExhaustedTooLate(n) == n > MaxAttempts

Exhausted(n) == n >= MaxAttempts

\* The two queries of reconcile_dispatchable_jobs.
ExpiredJobs == {j \in Job : jobStatus[j] = "running" /\ lease[j] = "expired"}

\* Variant: only retries are scanned for.
DueRetries == {j \in Job : jobStatus[j] = "retrying" /\ nextAttempt[j] \in {"none", "due"}}

\* Variant: the condition on the next attempt is not tied to "retrying".
DispatchableByTime ==
  {j \in Job : jobStatus[j] \notin {"absent", "running"} /\ nextAttempt[j] \in {"none", "due"}}

DispatchableJobs ==
  {j \in Job : \/ jobStatus[j] = "queued"
               \/ jobStatus[j] = "retrying" /\ nextAttempt[j] \in {"none", "due"}}

\* Variant of SetJob: a retried job keeps its lease.
SetJobKeepingLease(j, status, l, n) ==
  /\ jobStatus' = [jobStatus EXCEPT ![j] = status]
  /\ lease' = [lease EXCEPT ![j] = IF status = "retrying" THEN @ ELSE l]
  /\ nextAttempt' = [nextAttempt EXCEPT ![j] = n]

\* A transition of job j, with the deadlines that the code writes with it.
SetJob(j, status, l, n) ==
  /\ jobStatus' = [jobStatus EXCEPT ![j] = status]
  /\ lease' = [lease EXCEPT ![j] = l]
  /\ nextAttempt' = [nextAttempt EXCEPT ![j] = n]

\* recompute_run_status for run r, after the job rows have been written.
StatusesOf(r) == {jobStatus[j] : j \in JobsOf(r)} \ {"absent"}

\* Variant: the statuses are read before the jobs' UPDATEs are flushed.
RecomputeBeforeFlush(R) ==
  runStatus' = [r \in Run |-> IF r \in R THEN Recompute(runStatus[r], StatusesOf(r))
                                          ELSE runStatus[r]]

RecomputeRuns(R) ==
  runStatus' = [r \in Run |-> IF r \in R THEN Recompute(runStatus[r], StatusesOf(r)')
                                          ELSE runStatus[r]]

-----------------------------------------------------------------------------
Init ==
  /\ devStatus = [d \in Device |-> "absent"]
  /\ hb = [d \in Device |-> "stale"]
  /\ runStatus = [r \in Run |-> "absent"]
  /\ jobStatus = [j \in Job |-> "absent"]
  /\ attempts = [j \in Job |-> 0]
  /\ lease = [j \in Job |-> "none"]
  /\ nextAttempt = [j \in Job |-> "none"]
  /\ owner = [j \in Job |-> NoTask]
  /\ phase = [t \in Task |-> "free"]
  /\ msgJob = [t \in Task |-> NoJob]
  /\ claimAttempts = [t \in Task |-> 0]
  /\ apiOutbox = {}
  /\ scanOutbox = {}

-----------------------------------------------------------------------------
(* Devices: the agent's requests and the liveness task. *)

Register(d) ==
  /\ \E s \in IF devStatus[d] = "absent" THEN {"online"} ELSE StatusesOnContact(d) :
       devStatus' = [devStatus EXCEPT ![d] = s]
  /\ hb' = [hb EXCEPT ![d] = "fresh"]
  /\ UNCHANGED <<runStatus, jobVars, taskVars, outboxVars>>

\* An unknown device id is answered with 404 and changes nothing.
Heartbeat(d) ==
  /\ devStatus[d] # "absent"
  /\ \E s \in StatusesOnContact(d) : devStatus' = [devStatus EXCEPT ![d] = s]
  /\ hb' = [hb EXCEPT ![d] = "fresh"]
  /\ UNCHANGED <<runStatus, jobVars, taskVars, outboxVars>>

StaleDevices == {d \in Device : devStatus[d] \in {"online", "busy"} /\ hb[d] = "stale"}

\* The periodic task, and GET /devices which runs the same UPDATE.  D: the
\* stale devices, without those that became stale after its scan began.
MarkStaleDevicesOffline(D) ==
  /\ D \subseteq StaleDevices
  /\ devStatus' = [d \in Device |-> IF d \in D THEN "offline" ELSE devStatus[d]]
  /\ UNCHANGED <<hb, runStatus, jobVars, taskVars, outboxVars>>

-----------------------------------------------------------------------------
(* The API: one transaction creates a run, then its jobs are published. *)

\* S: all available devices, the requested ones, or what SKIP LOCKED leaves of
\* "all".  An empty selection, or a requested device that is not available,
\* is a 409 and no change.
CreateRun(r, S) ==
  LET new == {j \in JobsOf(r) : DeviceOf[j] \in S} IN
  /\ runStatus[r] = "absent"
  /\ S # {} /\ S \subseteq Available
  /\ \A d \in S : \E j \in new : DeviceOf[j] = d
  /\ runStatus' = [runStatus EXCEPT ![r] = "queued"]
  /\ devStatus' = [d \in Device |-> IF d \in S THEN "busy" ELSE devStatus[d]]
  /\ jobStatus' = [j \in Job |-> IF j \in new THEN "queued" ELSE jobStatus[j]]
  /\ apiOutbox' = apiOutbox \cup new
  /\ UNCHANGED <<hb, attempts, lease, nextAttempt, owner, taskVars, scanOutbox>>

\* A new task id: not in use, and not the recorded owner of a running job.
FreshTask(t) ==
  /\ phase[t] = "free"
  /\ \A j \in Job : ~(jobStatus[j] = "running" /\ owner[j] = t)

\* enqueue_job.  The database is not consulted.
Publish(t, j) ==
  /\ FreshTask(t)
  /\ phase' = [phase EXCEPT ![t] = "queued"]
  /\ msgJob' = [msgJob EXCEPT ![t] = j]
  /\ UNCHANGED claimAttempts

ApiPublish(t, j) ==
  /\ j \in apiOutbox
  /\ Publish(t, j)
  /\ apiOutbox' = apiOutbox \ {j}
  /\ UNCHANGED <<deviceVars, runStatus, jobVars, scanOutbox>>

\* An exception ends the loop of enqueue_jobs, a crash the whole request:
\* either way the rest of the run's jobs stay unpublished.
ApiPublishFails(r) ==
  /\ JobsOf(r) \cap apiOutbox # {}
  /\ apiOutbox' = apiOutbox \ JobsOf(r)
  /\ UNCHANGED <<deviceVars, runStatus, jobVars, taskVars, scanOutbox>>

-----------------------------------------------------------------------------
(* Workers: execute_job. *)

\* The task is over, acknowledged or dropped: its id is never used again.
Retire(t) ==
  /\ phase' = [phase EXCEPT ![t] = "free"]
  /\ msgJob' = [msgJob EXCEPT ![t] = NoJob]
  /\ claimAttempts' = [claimAttempts EXCEPT ![t] = 0]

ClaimTask(t) ==
  LET j == msgJob[t] IN
  /\ phase[t] = "queued"
  /\ Claimable(j)
  /\ SetJob(j, "running", "live", "none")
  /\ attempts' = [attempts EXCEPT ![j] = @ + 1]
  /\ owner' = [owner EXCEPT ![j] = t]
  /\ RecomputeRuns({RunOf[j]})
  /\ phase' = [phase EXCEPT ![t] = "calling"]
  /\ claimAttempts' = [claimAttempts EXCEPT ![t] = attempts[j] + 1]
  /\ UNCHANGED <<deviceVars, msgJob, outboxVars>>

\* execute returns "ignored" and the message is acknowledged.
IgnoreTask(t) ==
  /\ phase[t] = "queued"
  /\ ~Claimable(msgJob[t])
  /\ Retire(t)
  /\ UNCHANGED <<deviceVars, runStatus, jobVars, outboxVars>>

\* _finish, once the ownership check has passed.
Finish(t, target) ==
  LET j == msgJob[t] IN
  /\ OwnsRunningAttempt(t)
  /\ SetJob(j, target, "none", "none")
  /\ \E s \in ReleaseOutcomes(DeviceOf[j]) :
       devStatus' = [devStatus EXCEPT ![DeviceOf[j]] = s]
  /\ RecomputeRuns({RunOf[j]})
  /\ phase' = [phase EXCEPT ![t] = "returning"]
  /\ UNCHANGED <<hb, attempts, owner, msgJob, claimAttempts, outboxVars>>

\* The transaction of _handle_retryable_failure.
ScheduleRetry(t) ==
  LET j == msgJob[t] IN
  /\ OwnsRunningAttempt(t)
  /\ SetJob(j, "retrying", "none", "future")
  /\ RecomputeRuns({RunOf[j]})
  /\ phase' = [phase EXCEPT ![t] = "publishing"]
  /\ UNCHANGED <<deviceVars, attempts, owner, msgJob, claimAttempts, outboxVars>>

\* The outcome of a superseded attempt: _finish and the retry path return.
DiscardLateOutcome(t) ==
  /\ phase[t] = "calling"
  /\ ~OwnsRunningAttempt(t)
  /\ phase' = [phase EXCEPT ![t] = "returning"]
  /\ UNCHANGED <<deviceVars, runStatus, jobVars, msgJob, claimAttempts, outboxVars>>

\* A well-formed response (passed, or a failed validation), or a permanent
\* error (failed).
DeviceAnswers(t) ==
  /\ phase[t] = "calling"
  /\ \E target \in {"passed", "failed"} : Finish(t, target)

\* A timeout exhausts to timed_out, a transient or unexpected error to failed.
RetryableFailure(t) ==
  /\ phase[t] = "calling"
  /\ IF Exhausted(claimAttempts[t])
       THEN \E target \in {"timed_out", "failed"} : Finish(t, target)
       ELSE ScheduleRetry(t)

PublishRetry(t, u) ==
  /\ phase[t] = "publishing"
  /\ FreshTask(u)
  /\ phase' = [phase EXCEPT ![t] = "returning", ![u] = "queued"]
  /\ msgJob' = [msgJob EXCEPT ![u] = msgJob[t]]
  /\ UNCHANGED <<deviceVars, runStatus, jobVars, claimAttempts, outboxVars>>

\* The exception is logged; the reconciler will recover the job.
PublishRetryFails(t) ==
  /\ phase[t] = "publishing"
  /\ phase' = [phase EXCEPT ![t] = "returning"]
  /\ UNCHANGED <<deviceVars, runStatus, jobVars, msgJob, claimAttempts, outboxVars>>

\* Late acknowledgement, after execute has returned.
Acknowledge(t) ==
  /\ phase[t] = "returning"
  /\ Retire(t)
  /\ UNCHANGED <<deviceVars, runStatus, jobVars, outboxVars>>

-----------------------------------------------------------------------------
(* What can go wrong around a task. *)

\* The worker process dies before the acknowledgement: the broker delivers
\* the message again, under the same task id.
WorkerLost(t) ==
  /\ phase[t] \in {"calling", "publishing", "returning"}
  /\ phase' = [phase EXCEPT ![t] = "queued"]
  /\ claimAttempts' = [claimAttempts EXCEPT ![t] = 0]
  /\ UNCHANGED <<deviceVars, runStatus, jobVars, msgJob, outboxVars>>

\* The hard time limit, or an error of the database, ends the task and its
\* message is acknowledged; what it had committed stays.
AbandonTask(t) ==
  /\ phase[t] \in {"calling", "publishing"}
  /\ Retire(t)
  /\ UNCHANGED <<deviceVars, runStatus, jobVars, outboxVars>>

\* Redis restarts without the message.
LoseMessage(t) ==
  /\ phase[t] = "queued"
  /\ Retire(t)
  /\ UNCHANGED <<deviceVars, runStatus, jobVars, outboxVars>>

-----------------------------------------------------------------------------
(* The reconciler: one transaction, then its publications. *)

\* S: the expired jobs SKIP LOCKED lets it see.
Reconcile(S) ==
  LET dead == {j \in S : Exhausted(attempts[j])} IN
  /\ S \subseteq ExpiredJobs
  /\ jobStatus' = [j \in Job |-> CASE j \in dead     -> "failed"
                                   [] j \in S \ dead -> "retrying"
                                   [] OTHER          -> jobStatus[j]]
  /\ nextAttempt' = [j \in Job |-> CASE j \in dead     -> "none"
                                     [] j \in S \ dead -> "due"
                                     [] OTHER          -> nextAttempt[j]]
  /\ lease' = [j \in Job |-> IF j \in S THEN "none" ELSE lease[j]]
  /\ \E s \in [Device -> DeviceStatuses \cup {"absent"}] :
       /\ \A d \in Device :
            IF \E j \in dead : DeviceOf[j] = d THEN s[d] \in ReleaseOutcomes(d)
                                               ELSE s[d] = devStatus[d]
       /\ devStatus' = s
  /\ RecomputeRuns({RunOf[j] : j \in S})
  /\ scanOutbox' = scanOutbox \cup DispatchableJobs'
  /\ UNCHANGED <<hb, attempts, owner, taskVars, apiOutbox>>

ReconcilerPublish(t, j) ==
  /\ j \in scanOutbox
  /\ Publish(t, j)
  /\ scanOutbox' = scanOutbox \ {j}
  /\ UNCHANGED <<deviceVars, runStatus, jobVars, apiOutbox>>

\* One publication raises and is logged; the loop goes on with the others.
ReconcilerPublishFails(j) ==
  /\ j \in scanOutbox
  /\ scanOutbox' = scanOutbox \ {j}
  /\ UNCHANGED <<deviceVars, runStatus, jobVars, taskVars, apiOutbox>>

-----------------------------------------------------------------------------
(* Deadlines. *)

HeartbeatExpires(d) ==
  /\ hb[d] = "fresh"
  /\ hb' = [hb EXCEPT ![d] = "stale"]
  /\ UNCHANGED <<devStatus, runStatus, jobVars, taskVars, outboxVars>>

LeaseExpires(j) ==
  /\ lease[j] = "live"
  /\ lease' = [lease EXCEPT ![j] = "expired"]
  /\ UNCHANGED <<deviceVars, runStatus, jobStatus, attempts, nextAttempt, owner,
                 taskVars, outboxVars>>

BackoffElapses(j) ==
  /\ nextAttempt[j] = "future"
  /\ nextAttempt' = [nextAttempt EXCEPT ![j] = "due"]
  /\ UNCHANGED <<deviceVars, runStatus, jobStatus, attempts, lease, owner,
                 taskVars, outboxVars>>

-----------------------------------------------------------------------------
DeviceStep ==
  \/ \E d \in Device : Register(d) \/ Heartbeat(d) \/ HeartbeatExpires(d)
  \/ \E D \in SUBSET Device : MarkStaleDevicesOffline(D)

ApiStep ==
  \/ \E r \in Run : ApiPublishFails(r) \/ \E S \in SUBSET Device : CreateRun(r, S)
  \/ \E t \in Task, j \in Job : ApiPublish(t, j)

EndCall(t) == DeviceAnswers(t) \/ RetryableFailure(t) \/ DiscardLateOutcome(t)

EndPublish(t) == PublishRetryFails(t) \/ \E u \in Task : PublishRetry(t, u)

WorkerStep ==
  \E t \in Task : \/ ClaimTask(t) \/ IgnoreTask(t) \/ EndCall(t) \/ EndPublish(t)
                  \/ Acknowledge(t)
                  \/ WorkerLost(t) \/ AbandonTask(t) \/ LoseMessage(t)

ReconcilerStep ==
  \/ \E S \in SUBSET Job : Reconcile(S)
  \/ \E j \in Job : ReconcilerPublishFails(j) \/ \E t \in Task : ReconcilerPublish(t, j)

Deadline == \E j \in Job : LeaseExpires(j) \/ BackoffElapses(j)

Next == DeviceStep \/ ApiStep \/ WorkerStep \/ ReconcilerStep \/ Deadline

Spec == Init /\ [][Next]_vars

-----------------------------------------------------------------------------
(* Safety. *)

\* The columns hold what the schema and the code can write; no job is
\* attempted more than job_max_attempts times.
TypeOK ==
  /\ devStatus \in [Device -> DeviceStatuses \cup {"absent"}]
  /\ hb \in [Device -> {"fresh", "stale"}]
  /\ runStatus \in [Run -> RunStatuses \cup {"absent"}]
  /\ jobStatus \in [Job -> JobStatuses \cup {"absent"}]
  /\ attempts \in [Job -> 0..MaxAttempts]
  /\ lease \in [Job -> {"none", "live", "expired"}]
  /\ nextAttempt \in [Job -> {"none", "future", "due"}]
  /\ owner \in [Job -> Task \cup {NoTask}]
  /\ phase \in [Task -> {"free", "queued", "calling", "publishing", "returning"}]
  /\ msgJob \in [Task -> Job \cup {NoJob}]
  /\ claimAttempts \in [Task -> 0..MaxAttempts]
  /\ apiOutbox \subseteq Job
  /\ scanOutbox \subseteq Job

\* No device is reserved by two jobs: run creation, heartbeats, liveness scans
\* and releases interleave without ever offering a reserved device again.
OneActiveJobPerDevice ==
  \A j, k \in Job : DeviceOf[j] = DeviceOf[k] /\ Active(j) /\ Active(k) => j = k

\* A device that a new run may select carries no unfinished job: no heartbeat,
\* registration or release turns a reserved device "online".
OnlineDevicesAreFree ==
  \A d \in Device : devStatus[d] \in {"online", "absent"} => ~HasActiveJob(d)

\* After every commit the run row says of the job rows what it should say:
\* "queued" before any job starts, "passed" when all have passed, "failed"
\* when all are terminal and one did not pass, "running" in between.
RunStatusAggregates ==
  \A r \in Run :
    LET S == StatusesOf(r) IN
    /\ runStatus[r] = "absent" <=> S = {}
    /\ runStatus[r] = "queued" <=> S = {"queued"}
    /\ runStatus[r] = "passed" <=> S = {"passed"}
    /\ runStatus[r] = "failed" <=> S # {} /\ S # {"passed"} /\ S \subseteq TerminalJobStatuses

\* The columns that recovery relies on: exactly the running jobs hold a lease,
\* exactly the retrying ones a next attempt.  A running job without a lease
\* would never be reconciled.
LeaseDiscipline ==
  \A j \in Job : /\ jobStatus[j] = "running"  <=> lease[j] # "none"
                 /\ jobStatus[j] = "retrying" <=> nextAttempt[j] # "none"

\* Whoever ends an attempt, the worker or the reconciler, a job is retried
\* only while attempts remain and times out only when none does.
RetryBudget ==
  \A j \in Job : /\ jobStatus[j] = "retrying"  => attempts[j] < MaxAttempts
                 /\ jobStatus[j] = "timed_out" => attempts[j] = MaxAttempts

\* transition_job never has to raise: every change of a job that a step makes
\* is in _ALLOWED_TRANSITIONS, so terminal jobs are final.
OnlyLegalTransitions ==
  [][\A j \in Job : jobStatus[j] \in JobStatuses /\ jobStatus'[j] # jobStatus[j]
        => jobStatus'[j] \in AllowedTransitions[jobStatus[j]]]_vars

\* The outcome of an attempt that a later claim has superseded, or that the
\* reconciler has closed, changes nothing: neither the job nor its device.
LateOutcomesDiscarded ==
  [][\A t \in Task :
       LET j == msgJob[t] IN
       /\ phase[t] = "calling" /\ phase'[t] \in {"publishing", "returning"}
       /\ jobStatus[j] # "running" \/ claimAttempts[t] # attempts[j]
       => UNCHANGED <<jobVars, runStatus, devStatus>>]_vars

-----------------------------------------------------------------------------
(* Liveness. *)

\* A heartbeat during which no job of the device ends.
SettledHeartbeat(d) ==
  Heartbeat(d) /\ devStatus'[d] = IF HasActiveJob(d) THEN "busy" ELSE "online"

\* An agent goes on sending heartbeats, not all of them at the moment a job
\* ends, or at some time falls silent for good.
AliveOrSilent(d) ==
  \/ WF_vars(SettledHeartbeat(d))
  \/ WF_vars(HeartbeatExpires(d)) /\ <>[][~Heartbeat(d) /\ ~Register(d)]_vars

\* Each conjunct is a process that keeps running: Beat's two periodic tasks,
\* request handlers, which publish or fail, a broker that does not lose every
\* message of a job, workers that take a message and whose calls and
\* publications end (the hard time limit sees to that), clocks, and agents.
Fairness ==
  /\ WF_vars(Reconcile(ExpiredJobs))
  /\ WF_vars(MarkStaleDevicesOffline(StaleDevices))
  /\ WF_vars(\E r \in Run : ApiPublishFails(r) \/ \E t \in Task, j \in Job : ApiPublish(t, j))
  /\ \A j \in Job : /\ SF_vars(\E t \in Task : ReconcilerPublish(t, j))
                    /\ SF_vars(\E t \in Task : msgJob[t] = j /\ ClaimTask(t))
                    /\ WF_vars(LeaseExpires(j))
                    /\ WF_vars(BackoffElapses(j))
  /\ \A t \in Task : /\ WF_vars(IgnoreTask(t))
                     /\ WF_vars(EndCall(t) \/ AbandonTask(t))
                     /\ WF_vars(EndPublish(t))
                     /\ WF_vars(Acknowledge(t))
  /\ \A d \in Device : AliveOrSilent(d)

FairSpec == Spec /\ Fairness

\* Every run that is created ends, whatever publications are lost, workers
\* die or leases expire on the way.
EveryRunFinishes ==
  \A r \in Run : runStatus[r] = "queued" ~> runStatus[r] \in TerminalRunStatuses

\* A device left "busy" by a release that raced a heartbeat does not stay so:
\* the next heartbeat, or the liveness scan, puts it right.
NoDeviceStaysLeaked ==
  \A d \in Device :
    devStatus[d] = "busy" /\ ~HasActiveJob(d) ~> devStatus[d] # "busy"

\* The reconciler republishes a waiting job on every tick, and messages are
\* redelivered; but once all runs are over the broker empties, and stays empty.
BrokerDrains ==
  (\A r \in Run : runStatus[r] \in TerminalRunStatuses)
    ~> [](apiOutbox = {} /\ scanOutbox = {} /\ \A t \in Task : phase[t] = "free")

-----------------------------------------------------------------------------
(* Refinement. *)

\* What a client of the API can tell of a job and of a run.
VerdictOf(j) == CASE jobStatus[j] = "absent" -> "none"
                  [] Active(j)               -> "pending"
                  [] OTHER                   -> jobStatus[j]

OutcomeSeen(r) == CASE runStatus[r] = "absent"               -> "none"
                    [] runStatus[r] \in {"queued", "running"} -> "pending"
                    [] OTHER                                  -> runStatus[r]

Promise == INSTANCE Lab WITH verdict <- [j \in Job |-> VerdictOf(j)],
                             outcome <- [r \in Run |-> OutcomeSeen(r)]

\* Leases, retries, redeliveries, duplicate publications and late answers are
\* invisible: to a client each step is a reservation, a verdict, or nothing.
ImplementsLab == Promise!LabSpec

Books == INSTANCE Attempts WITH
           verdict  <- [j \in Job |-> VerdictOf(j)],
           tries    <- attempts,
           underway <- [j \in Job |-> jobStatus[j] = "running"]

\* Whatever is published, delivered or recovered twice, the attempts of a job
\* follow one another, within the budget, up to one verdict.  This is what
\* AgentEngine takes the control plane to be.
ActsOnAttempts == Books!AttemptsSpec

Database == INSTANCE Rows

\* Every step changes the rows as one committed transaction of Rows does, the
\* same that the interleaved statements of RowLocks amount to.
ActsOnRows == Database!RowsSpec

=============================================================================
