----------------------------- MODULE Redelivery -----------------------------
(***************************************************************************)
(* One message of one job in real time: its countdown, the wait of a       *)
(* worker that has received it for a free process, the hard time limit,    *)
(* the lease of the attempt it claims, and the visibility timeout after    *)
(* which Redis delivers it again, under the same task id, however alive    *)
(* the first worker is.  Dispatch redelivers only what a dead worker left; *)
(* this module tells for which settings that is right.                     *)
(*                                                                         *)
(* Times are settings, in ticks of MCRedelivery.                           *)
(***************************************************************************)
EXTENDS Naturals, FiniteSets

CONSTANTS
  Copy,              \* bound: deliveries of the message
  MaxAttempts,       \* job_max_attempts
  JobTimeout,        \* job_timeout_seconds, of simulated devices
  HostJobTimeout,    \* host_job_timeout_seconds
  LeaseGrace,        \* job_lease_grace_seconds
  Backoffs,          \* retry_backoff_seconds and retry_backoff_max_seconds, choices
  PoolWait,          \* bound: how long a due message waits for a process
  LimitMargin,       \* the constants 5, 10 and 60 of Settings
  MinHardLimit,
  MinVisibility

ASSUME Times ==
  /\ {JobTimeout, HostJobTimeout, LeaseGrace, LimitMargin, MinHardLimit, MinVisibility}
       \subseteq Nat \ {0}
  /\ Backoffs \subseteq [first : Nat \ {0}, max : Nat \ {0}]
  /\ PoolWait \in Nat /\ MaxAttempts \in Nat \ {0}

VARIABLES
  backoff,   \* the backoff settings of this installation
  timeout,   \* the HTTP timeout for the job's device
  status,    \* of the job: "waiting" (queued or retrying), "running", an outcome
  due,       \* ticks until next_attempt_at
  lease,     \* ticks until lease_expires_at
  attempts,
  owner,     \* worker_task_id: the message's task id, or another
  eta,       \* ticks until the message's countdown is over
  where,     \* a copy: "none", "held" by a worker, "executing", "gone"
  age,       \* ticks since its delivery, up to the visibility timeout
  waited,    \* ticks it has been held since its eta
  ran,       \* ticks it has been executing
  claimed    \* the attempt it claimed, 0 if none

jobVars  == <<status, due, lease, attempts, owner>>
copyVars == <<where, age, waited, ran, claimed>>
fixed    == <<backoff, timeout>>
vars     == <<fixed, jobVars, eta, copyVars>>

\* A timeout counts as a failure here.
Outcomes == {"passed", "failed"}

Longest(a, b) == IF a > b THEN a ELSE b

LeaseTime == timeout + LeaseGrace
HardLimit ==
  Longest(MinHardLimit, Longest(JobTimeout, HostJobTimeout) + LeaseGrace + LimitMargin)

\* Variant: the visibility timeout covers the execution alone.
ExecutionOnly == HardLimit

VisibilityTimeout == Longest(MinVisibility, 3 * HardLimit)

\* The countdown of the retry after the nth attempt.
Delay(n) ==
  LET doubled == backoff.first * 2^(n - 1)
  IN  IF doubled < backoff.max THEN doubled ELSE backoff.max

Live(c)  == where[c] \in {"held", "executing"}

-----------------------------------------------------------------------------
\* The message of a queued job has just been delivered, or that of a retry,
\* with what is left of its countdown.
Init ==
  \E first \in Copy, n \in 0..(MaxAttempts - 1) :
    /\ backoff \in Backoffs /\ timeout \in {JobTimeout, HostJobTimeout}
    /\ eta \in IF n = 0 THEN {0} ELSE 0..Delay(n)
    /\ status = "waiting" /\ due = eta /\ lease = 0 /\ owner = "none"
    /\ attempts = n
    /\ where = [c \in Copy |-> IF c = first THEN "held" ELSE "none"]
    /\ age = [c \in Copy |-> 0] /\ waited = [c \in Copy |-> 0]
    /\ ran = [c \in Copy |-> 0] /\ claimed = [c \in Copy |-> 0]

Claimable == status = "waiting" /\ due = 0

Claim(id) ==
  /\ status' = "running" /\ lease' = LeaseTime /\ owner' = id
  /\ attempts' = attempts + 1
  /\ UNCHANGED due

\* A worker process takes the copy: it claims the job, or ignores and
\* acknowledges the message.
Execute(c) ==
  /\ where[c] = "held" /\ eta = 0
  /\ IF Claimable
       THEN /\ Claim("message")
            /\ where' = [where EXCEPT ![c] = "executing"]
            /\ claimed' = [claimed EXCEPT ![c] = attempts + 1]
       ELSE /\ where' = [where EXCEPT ![c] = "gone"]
            /\ UNCHANGED <<jobVars, claimed>>
  /\ UNCHANGED <<eta, age, waited, ran>>

\* The running attempt becomes final, or is retried while attempts remain,
\* which a worker decides from n, the number of the attempt it claimed.
EndAttempt(n) ==
  /\ \/ status' \in Outcomes /\ due' = 0
     \/ n < MaxAttempts /\ status' = "waiting" /\ due' = Delay(n)
  /\ lease' = 0
  /\ UNCHANGED <<attempts, owner>>

OwnsRunningAttempt == status = "running" /\ owner = "message"

\* The call ends; its outcome is written if the task id owns the running
\* attempt, and the message is acknowledged.  The HTTP timeout bounds each
\* phase of the call, not the call: only the hard limit does.
Report(c) ==
  /\ where[c] = "executing"
  /\ where' = [where EXCEPT ![c] = "gone"]
  /\ IF OwnsRunningAttempt THEN EndAttempt(claimed[c]) ELSE UNCHANGED jobVars
  /\ UNCHANGED <<eta, age, waited, ran, claimed>>

\* The hard limit kills the process; the message is acknowledged.
Kill(c) ==
  /\ where[c] = "executing" /\ ran[c] = HardLimit
  /\ where' = [where EXCEPT ![c] = "gone"]
  /\ UNCHANGED <<jobVars, eta, age, waited, ran, claimed>>

\* The broker gives the message, last delivered as c, to another worker.
Redeliver(c, e) ==
  /\ Live(c) /\ age[c] = VisibilityTimeout
  /\ where[e] = "none" /\ \A f \in Copy : where[f] # "none" => age[f] >= age[c]
  /\ where' = [where EXCEPT ![e] = "held"]
  /\ UNCHANGED <<jobVars, eta, age, waited, ran, claimed>>

\* reconcile_dispatchable_jobs: the next attempt is due at once.
LeaseExpires ==
  /\ status = "running" /\ lease = 0
  /\ status' = IF attempts >= MaxAttempts THEN "failed" ELSE "waiting"
  /\ due' = 0
  /\ UNCHANGED <<lease, attempts, owner, eta, copyVars>>

\* What the reconciler publishes has another task id.
OtherTaskClaims ==
  /\ Claimable
  /\ Claim("other")
  /\ UNCHANGED <<eta, copyVars>>

OtherTaskReports ==
  /\ status = "running" /\ owner = "other"
  /\ EndAttempt(attempts)
  /\ UNCHANGED <<eta, copyVars>>

Less(n) == IF n > 0 THEN n - 1 ELSE 0

\* Time passes unless a copy has to be taken by a process or killed.
Tick ==
  /\ \A c \in Copy : /\ where[c] = "executing" => ran[c] < HardLimit
                     /\ where[c] = "held" /\ eta = 0 => waited[c] < PoolWait
  /\ due' = Less(due) /\ lease' = Less(lease) /\ eta' = Less(eta)
  /\ age' = [c \in Copy |-> IF Live(c) /\ age[c] < VisibilityTimeout THEN age[c] + 1 ELSE age[c]]
  /\ waited' = [c \in Copy |-> waited[c] + IF where[c] = "held" /\ eta = 0 THEN 1 ELSE 0]
  /\ ran' = [c \in Copy |-> ran[c] + IF where[c] = "executing" THEN 1 ELSE 0]
  /\ UNCHANGED <<status, attempts, owner, where, claimed>>

Step(c) ==
  Execute(c) \/ Report(c) \/ Kill(c) \/ \E e \in Copy : Redeliver(c, e)

\* Neither the settings nor the job's device change while the processes run.
Next ==
  /\ UNCHANGED fixed
  /\ (\E c \in Copy : Step(c)) \/ LeaseExpires \/ OtherTaskClaims \/ OtherTaskReports \/ Tick

Spec == Init /\ [][Next]_vars

-----------------------------------------------------------------------------
(* Properties. *)

\* The longest countdown and the longest wait for a process fit into two of the
\* three hard limits that the visibility timeout consists of.
SettingsFit == backoff.max + PoolWait < 2 * HardLimit

\* core/config.py on the visibility timeout: "A task must not be redelivered
\* while a live worker can still own it."
RedeliveredOnlyWhenOver ==
  SettingsFit => Cardinality({c \in Copy : Live(c)}) <= 1

\* job_max_attempts bounds the attempts, which the retry path decides from the
\* worker's snapshot: it must be that of the attempt it ends.
BudgetRespected == SettingsFit => attempts <= MaxAttempts

\* The task id that claimed an attempt identifies it: the outcome of an earlier
\* attempt changes nothing.
OwnersAreIdentified ==
  [][\A c \in Copy : SettingsFit /\ Report(c) /\ claimed[c] # attempts
                      => UNCHANGED jobVars]_vars

\* docs/architecture.md, for any settings: completion writes require the task
\* id that claimed the attempt, "so a late response cannot overwrite a later
\* owner".
LateResponsesDiscarded ==
  [][\A c \in Copy : Report(c) /\ claimed[c] # attempts => UNCHANGED jobVars]_vars
=============================================================================
