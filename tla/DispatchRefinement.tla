------------------------- MODULE DispatchRefinement -------------------------
(***************************************************************************)
(* What the steps of Dispatch amount to for the rows, and what follows:    *)
(* run aggregation, the deadline columns, the legal transitions, and that  *)
(* Dispatch implements Rows, Attempts and Lab.                             *)
(***************************************************************************)
EXTENDS DispatchProofs

-----------------------------------------------------------------------------
(* Four kinds of steps. *)

\* The jobs J of run r come into being, on devices that were online.
Reserves(r, J) ==
  /\ runStatus[r] = "absent" /\ J # {} /\ J \subseteq JobsOf(r)
  /\ \A j \in J : jobStatus[j] = "absent" /\ devStatus[DeviceOf[j]] = "online"
  /\ runStatus' = [runStatus EXCEPT ![r] = "queued"]
  /\ jobStatus' = [j \in Job |-> IF j \in J THEN "queued" ELSE jobStatus[j]]
  /\ devStatus' = [d \in Device |-> IF d \in {DeviceOf[j] : j \in J} THEN "busy" ELSE devStatus[d]]
  /\ UNCHANGED <<hb, attempts, lease, nextAttempt>>

Starts(j) ==
  /\ jobStatus[j] \in {"queued", "retrying"} /\ attempts[j] < MaxAttempts
  /\ SetJob(j, "running", "live", "none")
  /\ attempts' = [attempts EXCEPT ![j] = @ + 1]
  /\ RecomputeRuns({RunOf[j]})
  /\ UNCHANGED deviceVars

\* The attempts of the jobs J end, and the devices of those that are over are
\* released.
Ends(J) ==
  /\ \A j \in J : /\ jobStatus[j] = "running"
                  /\ jobStatus'[j] \in {"retrying"} \cup TerminalJobStatuses
                  /\ jobStatus'[j] = "retrying" => attempts[j] < MaxAttempts
                  /\ jobStatus'[j] = "timed_out" => attempts[j] = MaxAttempts
                  /\ lease'[j] = "none"
                  /\ nextAttempt'[j] # "none" <=> jobStatus'[j] = "retrying"
  /\ \A j \in Job \ J : /\ jobStatus'[j] = jobStatus[j]
                        /\ lease'[j] = lease[j]
                        /\ nextAttempt'[j] = nextAttempt[j]
  /\ \A d \in Device :
       IF \E j \in J : DeviceOf[j] = d /\ jobStatus'[j] \in TerminalJobStatuses
       THEN devStatus'[d] \in ReleaseOutcomes(d)
       ELSE devStatus'[d] = devStatus[d]
  /\ RecomputeRuns({RunOf[j] : j \in J})
  /\ UNCHANGED <<hb, attempts>>

\* A step that no job notices: devices, deadlines, messages.
Quiet ==
  /\ UNCHANGED <<runStatus, jobStatus, attempts>>
  /\ \A j \in Job : /\ lease'[j] = "none" <=> lease[j] = "none"
                    /\ nextAttempt'[j] = "none" <=> nextAttempt[j] = "none"
  /\ \/ UNCHANGED deviceVars
     \/ \E d \in Device : Register(d) \/ Heartbeat(d) \/ HeartbeatExpires(d)
     \/ \E D \in SUBSET Device : MarkStaleDevicesOffline(D)

LEMMA CreateReserves ==
  ASSUME AttemptInv, NEW r \in Run, NEW S \in SUBSET Device, CreateRun(r, S)
  PROVE  \E J \in SUBSET Job : Reserves(r, J)
<1> DEFINE J == {j \in JobsOf(r) : DeviceOf[j] \in S}
<1>1. /\ runStatus[r] = "absent"
      /\ S # {} /\ S \subseteq Available
      /\ \A d \in S : \E j \in J : DeviceOf[j] = d
      /\ runStatus' = [runStatus EXCEPT ![r] = "queued"]
      /\ devStatus' = [d \in Device |-> IF d \in S THEN "busy" ELSE devStatus[d]]
      /\ jobStatus' = [j \in Job |-> IF j \in J THEN "queued" ELSE jobStatus[j]]
      /\ UNCHANGED <<hb, attempts, lease, nextAttempt>>
  BY DEF CreateRun
<1>2. J \in SUBSET Job /\ J # {} /\ J \subseteq JobsOf(r) /\ \A j \in J : RunOf[j] = r /\ DeviceOf[j] \in S
  BY <1>1 DEF JobsOf
<1>3. S = {DeviceOf[j] : j \in J}
  BY <1>1, <1>2
<1>4. \A j \in J : jobStatus[j] = "absent" /\ devStatus[DeviceOf[j]] = "online"
  BY <1>1, <1>2 DEF AttemptInv, RunsComeFirst, Available
<1> HIDE DEF J
<1>5. Reserves(r, J)
  BY <1>1, <1>2, <1>3, <1>4 DEF Reserves
<1> QED BY <1>2, <1>5

LEMMA ClaimStarts ==
  ASSUME AttemptInv, NEW t \in Task, ClaimTask(t)
  PROVE  \E j \in Job : Starts(j)
<1>1. PICK j \in Job : j = msgJob[t]
  BY DEF AttemptInv, TasksCarryJobs, ClaimTask
<1>2. jobStatus[j] \in {"queued", "retrying"} /\ attempts[j] < MaxAttempts
  BY <1>1, AttemptBudget DEF ClaimTask, Claimable, AttemptInv, AttemptsCounted
<1>3. Starts(j)
  BY <1>1, <1>2 DEF ClaimTask, Starts
<1> QED BY <1>3

LEMMA FinishEnds ==
  ASSUME AttemptInv, NEW t \in Task, NEW target \in TerminalJobStatuses, phase[t] = "calling",
         Finish(t, target), target = "timed_out" => Exhausted(claimAttempts[t])
  PROVE  \E J \in SUBSET Job : Ends(J)
<1>1. PICK j \in Job : j = msgJob[t]
  BY DEF AttemptInv, TasksCarryJobs
<1>2. /\ jobStatus[j] = "running" /\ claimAttempts[t] = attempts[j]
      /\ attempts[j] \in 0..MaxAttempts
  BY <1>1 DEF Finish, OwnsRunningAttempt, AttemptInv, OwnersAreCurrent, TypeOK
<1>3. target = "timed_out" => attempts[j] = MaxAttempts
  BY <1>2, ExhaustedExactly
<1>4. /\ jobStatus' = [jobStatus EXCEPT ![j] = target]
      /\ lease' = [lease EXCEPT ![j] = "none"]
      /\ nextAttempt' = [nextAttempt EXCEPT ![j] = "none"]
      /\ RecomputeRuns({RunOf[j]})
      /\ UNCHANGED <<hb, attempts>>
  BY <1>1 DEF Finish, SetJob
<1>5. PICK s \in ReleaseOutcomes(DeviceOf[j]) : devStatus' = [devStatus EXCEPT ![DeviceOf[j]] = s]
  BY <1>1 DEF Finish
<1>6. TypeOK
  BY DEF AttemptInv
<1> DEFINE J == {j}
<1>7. \A k \in J : /\ jobStatus[k] = "running"
                   /\ jobStatus'[k] = target
                   /\ jobStatus'[k] = "timed_out" => attempts[k] = MaxAttempts
                   /\ lease'[k] = "none" /\ nextAttempt'[k] = "none"
  BY <1>2, <1>3, <1>4, <1>6 DEF TypeOK
<1>8. \A k \in Job \ J : /\ jobStatus'[k] = jobStatus[k]
                         /\ lease'[k] = lease[k]
                         /\ nextAttempt'[k] = nextAttempt[k]
  BY <1>4, <1>6 DEF TypeOK
<1>9. \A d \in Device :
        IF \E k \in J : DeviceOf[k] = d /\ jobStatus'[k] \in TerminalJobStatuses
        THEN devStatus'[d] \in ReleaseOutcomes(d)
        ELSE devStatus'[d] = devStatus[d]
  BY <1>5, <1>6, <1>7, JobKeys DEF TypeOK
<1>10. {RunOf[k] : k \in J} = {RunOf[j]} /\ J \in SUBSET Job
  OBVIOUS
<1>11. Ends(J)
  BY <1>4, <1>7, <1>8, <1>9, <1>10 DEF Ends, TerminalJobStatuses
<1> QED BY <1>10, <1>11

LEMMA RetryEnds ==
  ASSUME AttemptInv, NEW t \in Task, phase[t] = "calling", ScheduleRetry(t),
         ~Exhausted(claimAttempts[t])
  PROVE  \E J \in SUBSET Job : Ends(J)
<1>1. PICK j \in Job : j = msgJob[t]
  BY DEF AttemptInv, TasksCarryJobs
<1>2. jobStatus[j] = "running" /\ attempts[j] < MaxAttempts
  BY <1>1, AttemptBudget DEF ScheduleRetry, OwnsRunningAttempt, AttemptInv, OwnersAreCurrent, TypeOK, Exhausted
<1>4. /\ jobStatus' = [jobStatus EXCEPT ![j] = "retrying"]
      /\ lease' = [lease EXCEPT ![j] = "none"]
      /\ nextAttempt' = [nextAttempt EXCEPT ![j] = "future"]
      /\ RecomputeRuns({RunOf[j]})
      /\ UNCHANGED <<hb, attempts, devStatus>>
  BY <1>1 DEF ScheduleRetry, SetJob, deviceVars
<1>6. TypeOK
  BY DEF AttemptInv
<1> DEFINE J == {j}
<1>7. \A k \in J : /\ jobStatus[k] = "running"
                   /\ jobStatus'[k] = "retrying"
                   /\ attempts[k] < MaxAttempts
                   /\ lease'[k] = "none" /\ nextAttempt'[k] = "future"
  BY <1>2, <1>4, <1>6 DEF TypeOK
<1>8. \A k \in Job \ J : /\ jobStatus'[k] = jobStatus[k]
                         /\ lease'[k] = lease[k]
                         /\ nextAttempt'[k] = nextAttempt[k]
  BY <1>4, <1>6 DEF TypeOK
<1>10. {RunOf[k] : k \in J} = {RunOf[j]} /\ J \in SUBSET Job
  OBVIOUS
<1>11. Ends(J)
  BY <1>4, <1>7, <1>8, <1>10 DEF Ends, TerminalJobStatuses
<1> QED BY <1>10, <1>11

LEMMA ReconcileEnds ==
  ASSUME AttemptInv, NEW S \in SUBSET Job, Reconcile(S)
  PROVE  Ends(S)
<1> DEFINE dead == {j \in S : Exhausted(attempts[j])}
<1>1. \A j \in S : /\ jobStatus[j] = "running" /\ lease'[j] = "none"
                   /\ jobStatus'[j] = IF j \in dead THEN "failed" ELSE "retrying"
                   /\ nextAttempt'[j] = IF j \in dead THEN "none" ELSE "due"
  BY DEF Reconcile, ExpiredJobs
<1>2. \A j \in S : j \notin dead => attempts[j] < MaxAttempts
  BY AttemptBudget DEF AttemptInv, TypeOK, Exhausted
<1>3. \A j \in Job \ S : /\ jobStatus'[j] = jobStatus[j]
                         /\ lease'[j] = lease[j]
                         /\ nextAttempt'[j] = nextAttempt[j]
  BY DEF Reconcile
<1>4. \A j \in S : j \in dead <=> jobStatus'[j] \in TerminalJobStatuses
  BY <1>1 DEF TerminalJobStatuses
<1>5. \A d \in Device : IF \E j \in dead : DeviceOf[j] = d THEN devStatus'[d] \in ReleaseOutcomes(d)
                                                          ELSE devStatus'[d] = devStatus[d]
  BY DEF Reconcile
<1>6. RecomputeRuns({RunOf[j] : j \in S}) /\ UNCHANGED <<hb, attempts>>
  BY DEF Reconcile
<1>7. \A d \in Device :
        IF \E j \in S : DeviceOf[j] = d /\ jobStatus'[j] \in TerminalJobStatuses
        THEN devStatus'[d] \in ReleaseOutcomes(d)
        ELSE devStatus'[d] = devStatus[d]
  BY <1>4, <1>5
<1> QED BY <1>1, <1>2, <1>3, <1>6, <1>7 DEF Ends, TerminalJobStatuses

\* Every step is of one of these kinds.
LEMMA StepKinds ==
  ASSUME AttemptInv, [Next]_vars
  PROVE  \/ Quiet
         \/ \E r \in Run, J \in SUBSET Job : Reserves(r, J)
         \/ \E j \in Job : Starts(j)
         \/ \E J \in SUBSET Job : Ends(J)
<1>1. CASE UNCHANGED vars
  BY <1>1 DEF vars, deviceVars, jobVars, Quiet
<1>2. CASE DeviceStep
  BY <1>2 DEF DeviceStep, Quiet, Register, Heartbeat, HeartbeatExpires, MarkStaleDevicesOffline, jobVars
<1>3. CASE ApiStep
  <2>1. ASSUME UNCHANGED <<deviceVars, runStatus, jobVars>> PROVE Quiet
    BY <2>1 DEF jobVars, Quiet
  <2> QED BY <1>3, <2>1, CreateReserves DEF ApiStep, ApiPublish, ApiPublishFails
<1>4. CASE WorkerStep
  <2>1. ASSUME UNCHANGED <<deviceVars, runStatus, jobVars>> PROVE Quiet
    BY <2>1 DEF jobVars, Quiet
  <2>2. PICK t \in Task : \/ ClaimTask(t) \/ IgnoreTask(t) \/ EndCall(t) \/ EndPublish(t)
                          \/ Acknowledge(t)
                          \/ WorkerLost(t) \/ AbandonTask(t) \/ LoseMessage(t)
    BY <1>4 DEF WorkerStep
  <2>3. CASE EndCall(t)
    <3>1. CASE DiscardLateOutcome(t)
      BY <2>1, <3>1 DEF DiscardLateOutcome
    <3>2. ASSUME NEW target \in {"passed", "failed"}, phase[t] = "calling", Finish(t, target)
          PROVE  \E J \in SUBSET Job : Ends(J)
      BY <3>2, FinishEnds DEF TerminalJobStatuses
    <3>3. ASSUME NEW target \in {"timed_out", "failed"}, phase[t] = "calling", Exhausted(claimAttempts[t]),
                 Finish(t, target)
          PROVE  \E J \in SUBSET Job : Ends(J)
      BY <3>3, FinishEnds DEF TerminalJobStatuses
    <3> QED BY <2>3, <3>1, <3>2, <3>3, RetryEnds DEF EndCall, DeviceAnswers, RetryableFailure
  <2>4. CASE ClaimTask(t)
    BY <2>4, ClaimStarts
  <2>5. CASE IgnoreTask(t) \/ EndPublish(t) \/ Acknowledge(t) \/ WorkerLost(t) \/ AbandonTask(t) \/ LoseMessage(t)
    BY <2>1, <2>5
    DEF IgnoreTask, EndPublish, PublishRetry, PublishRetryFails, Acknowledge, WorkerLost, AbandonTask, LoseMessage
  <2> QED BY <2>2, <2>3, <2>4, <2>5
<1>5. CASE ReconcilerStep
  <2>1. ASSUME UNCHANGED <<deviceVars, runStatus, jobVars>> PROVE Quiet
    BY <2>1 DEF jobVars, Quiet
  <2> QED BY <1>5, <2>1, ReconcileEnds DEF ReconcilerStep, ReconcilerPublish, ReconcilerPublishFails
<1>6. CASE Deadline
  BY <1>6 DEF Deadline, LeaseExpires, BackoffElapses, Quiet, AttemptInv, TypeOK
<1> QED BY <1>1, <1>2, <1>3, <1>4, <1>5, <1>6 DEF Next

-----------------------------------------------------------------------------
(* The deadline columns. *)

\* The columns that recovery reads are set exactly where it looks for them:
\* every way to end an attempt clears the lease, and only a retry has a next
\* attempt, so no running job is invisible to the reconciler.
THEOREM RecoveryFindsEveryJob == Spec => []LeaseDiscipline
<1>1. Init => LeaseDiscipline
  BY DEF Init, LeaseDiscipline
<1>2. AttemptInv /\ LeaseDiscipline /\ [Next]_vars => LeaseDiscipline'
  <2> SUFFICES ASSUME AttemptInv, LeaseDiscipline, [Next]_vars PROVE LeaseDiscipline'
    OBVIOUS
  <2>t. TypeOK
    BY DEF AttemptInv
  <2>1. CASE Quiet
    BY <2>1 DEF Quiet, LeaseDiscipline
  <2>2. ASSUME NEW r \in Run, NEW J \in SUBSET Job, Reserves(r, J) PROVE LeaseDiscipline'
    BY <2>2 DEF Reserves, LeaseDiscipline
  <2>3. ASSUME NEW j \in Job, Starts(j) PROVE LeaseDiscipline'
    BY <2>3, <2>t DEF Starts, SetJob, LeaseDiscipline, TypeOK
  <2>4. ASSUME NEW J \in SUBSET Job, Ends(J) PROVE LeaseDiscipline'
    BY <2>4 DEF Ends, LeaseDiscipline, TerminalJobStatuses
  <2> QED BY <2>1, <2>2, <2>3, <2>4, StepKinds
<1> QED BY <1>1, <1>2, AttemptInvAlways, PTL DEF Spec

-----------------------------------------------------------------------------
(* Aggregation.  RunStatusAggregates does not exclude a "cancelled" run     *)
(* that still has unfinished jobs, and such a run would never be updated.   *)

AggregationInv ==
  /\ RunStatusAggregates
  /\ \A r \in Run : runStatus[r] # "cancelled"

\* What recompute_run_status makes of a run that is not over.
LEMMA RecomputeAggregates ==
  ASSUME NEW old, old \notin TerminalRunStatuses, NEW S \in SUBSET JobStatuses, S # {}
  PROVE  LET new == Recompute(old, S) IN
         /\ new \in {"queued", "running", "passed", "failed"}
         /\ new = "queued" <=> S = {"queued"}
         /\ new = "passed" <=> S = {"passed"}
         /\ new = "failed" <=> S # {"passed"} /\ S \subseteq TerminalJobStatuses
BY DEF Recompute, JobStatuses, ActiveJobStatuses, TerminalJobStatuses

\* A run with an unfinished job is not over.
LEMMA RunsWithActiveJobs ==
  ASSUME AggregationInv, TypeOK, NEW j \in Job, Active(j)
  PROVE  runStatus[RunOf[j]] \notin TerminalRunStatuses
<1>1. RunOf[j] \in Run /\ jobStatus[j] \in StatusesOf(RunOf[j])
  BY JobKeys DEF StatusesOf, JobsOf, Active, ActiveJobStatuses
<1>2. jobStatus[j] \notin TerminalJobStatuses
  BY DEF Active, ActiveJobStatuses, TerminalJobStatuses
<1>3. "passed" \in TerminalJobStatuses
  BY DEF TerminalJobStatuses
<1> QED BY <1>1, <1>2, <1>3 DEF AggregationInv, RunStatusAggregates, TerminalRunStatuses

\* A change of jobs that were active, after which their runs are recomputed.
LEMMA RecomputedRunsAggregate ==
  ASSUME AggregationInv, TypeOK, TypeOK', NEW J \in SUBSET Job,
         \A j \in J : Active(j) /\ jobStatus'[j] # "absent",
         \A j \in Job \ J : jobStatus'[j] = jobStatus[j],
         RecomputeRuns({RunOf[j] : j \in J})
  PROVE  AggregationInv'
<1> DEFINE R == {RunOf[j] : j \in J}
<1>1. ASSUME NEW r \in Run, r \in R
      PROVE  /\ runStatus'[r] = Recompute(runStatus[r], StatusesOf(r)')
             /\ runStatus[r] \notin TerminalRunStatuses
             /\ StatusesOf(r)' # {} /\ StatusesOf(r)' \in SUBSET JobStatuses
  <2>1. PICK j \in J : r = RunOf[j]
    BY <1>1
  <2>2. runStatus[r] \notin TerminalRunStatuses
    BY <2>1, RunsWithActiveJobs
  <2>3. jobStatus'[j] \in StatusesOf(r)'
    BY <2>1 DEF StatusesOf, JobsOf
  <2>4. StatusesOf(r)' \in SUBSET JobStatuses
    BY DEF StatusesOf, JobsOf, TypeOK
  <2>5. runStatus'[r] = Recompute(runStatus[r], StatusesOf(r)')
    BY <1>1 DEF RecomputeRuns
  <2> QED BY <2>2, <2>3, <2>4, <2>5
<1>2. ASSUME NEW r \in Run, r \notin R
      PROVE  runStatus'[r] = runStatus[r] /\ StatusesOf(r)' = StatusesOf(r)
  BY <1>2 DEF RecomputeRuns, StatusesOf, JobsOf
<1> HIDE DEF R
<1>3. ASSUME NEW r \in Run
      PROVE  /\ runStatus'[r] # "cancelled"
             /\ runStatus'[r] = "absent" <=> StatusesOf(r)' = {}
             /\ runStatus'[r] = "queued" <=> StatusesOf(r)' = {"queued"}
             /\ runStatus'[r] = "passed" <=> StatusesOf(r)' = {"passed"}
             /\ runStatus'[r] = "failed" <=> /\ StatusesOf(r)' # {} /\ StatusesOf(r)' # {"passed"}
                                             /\ StatusesOf(r)' \subseteq TerminalJobStatuses
  <2>1. CASE r \in R
    BY <1>1, <2>1, RecomputeAggregates
  <2>2. CASE r \notin R
    BY <1>2, <2>2 DEF AggregationInv, RunStatusAggregates
  <2> QED BY <2>1, <2>2
<1> QED BY <1>3 DEF AggregationInv, RunStatusAggregates

LEMMA AggregationInvNext ==
  AttemptInv /\ AttemptInv' /\ AggregationInv /\ [Next]_vars => AggregationInv'
<1> SUFFICES ASSUME AttemptInv, AttemptInv', AggregationInv, [Next]_vars PROVE AggregationInv'
  OBVIOUS
<1>t. TypeOK /\ TypeOK'
  BY DEF AttemptInv
<1>1. CASE Quiet
  <2>1. runStatus' = runStatus /\ \A r \in Run : StatusesOf(r)' = StatusesOf(r)
    BY <1>1 DEF Quiet, StatusesOf, JobsOf
  <2> QED BY <2>1 DEF AggregationInv, RunStatusAggregates
<1>2. ASSUME NEW r \in Run, NEW J \in SUBSET Job, Reserves(r, J) PROVE AggregationInv'
  <2>1. StatusesOf(r) = {}
    BY <1>2 DEF Reserves, AggregationInv, RunStatusAggregates
  <2>2. StatusesOf(r)' = {"queued"} /\ runStatus'[r] = "queued"
    <3>1. \A j \in JobsOf(r) : jobStatus[j] = "absent"
      BY <2>1 DEF StatusesOf
    <3>2. /\ \A j \in JobsOf(r) : jobStatus'[j] = IF j \in J THEN "queued" ELSE "absent"
          /\ \E j \in J : j \in JobsOf(r)
      BY <1>2, <3>1 DEF Reserves, JobsOf
    <3>3. StatusesOf(r)' = {"queued"}
      BY <3>2 DEF StatusesOf, JobsOf
    <3>4. runStatus'[r] = "queued"
      BY <1>2, <1>t DEF Reserves, TypeOK
    <3> QED BY <3>3, <3>4
  <2>3. \A q \in Run \ {r} : StatusesOf(q)' = StatusesOf(q) /\ runStatus'[q] = runStatus[q]
    BY <1>2, <1>t DEF Reserves, StatusesOf, JobsOf, TypeOK
  <2>4. "queued" \notin TerminalJobStatuses
    BY DEF TerminalJobStatuses
  <2> QED BY <2>2, <2>3, <2>4 DEF AggregationInv, RunStatusAggregates
<1>3. ASSUME NEW j \in Job, Starts(j) PROVE AggregationInv'
  <2> DEFINE J == {j}
  <2>1. J \in SUBSET Job /\ {RunOf[k] : k \in J} = {RunOf[j]}
    OBVIOUS
  <2>2. \A k \in J : Active(k) /\ jobStatus'[k] # "absent"
    BY <1>3, <1>t DEF Starts, SetJob, Active, ActiveJobStatuses, TypeOK
  <2>3. \A k \in Job \ J : jobStatus'[k] = jobStatus[k]
    BY <1>3, <1>t DEF Starts, SetJob, TypeOK
  <2>4. RecomputeRuns({RunOf[k] : k \in J})
    BY <1>3, <2>1 DEF Starts
  <2> HIDE DEF J
  <2> QED BY <1>t, <2>1, <2>2, <2>3, <2>4, RecomputedRunsAggregate
<1>4. ASSUME NEW J \in SUBSET Job, Ends(J) PROVE AggregationInv'
  <2>1. \A j \in J : Active(j) /\ jobStatus'[j] # "absent"
    BY <1>4 DEF Ends, Active, ActiveJobStatuses, TerminalJobStatuses
  <2>2. \A j \in Job \ J : jobStatus'[j] = jobStatus[j]
    BY <1>4 DEF Ends
  <2>3. RecomputeRuns({RunOf[j] : j \in J})
    BY <1>4 DEF Ends
  <2> QED BY <1>t, <2>1, <2>2, <2>3, RecomputedRunsAggregate
<1> QED BY <1>1, <1>2, <1>3, <1>4, StepKinds

LEMMA AggregationInvAlways == Spec => []AggregationInv
<1>1. Init => AggregationInv
  BY DEF Init, AggregationInv, RunStatusAggregates, StatusesOf, JobsOf
<1> QED BY <1>1, AggregationInvNext, AttemptInvAlways, PTL DEF Spec

\* The run row always says of its jobs what recompute_run_status derives from
\* them, although it is recomputed only by the transactions that change a job.
THEOREM RunsAggregateTheirJobs == Spec => []RunStatusAggregates
<1>1. AggregationInv => RunStatusAggregates
  BY DEF AggregationInv
<1> QED BY <1>1, AggregationInvAlways, PTL

-----------------------------------------------------------------------------
(* What a step may never do to a job. *)

\* No step takes a job along an edge that _ALLOWED_TRANSITIONS lacks, so
\* transition_job never raises and a terminal job stays as it is.
THEOREM TransitionsAreLegal == Spec => OnlyLegalTransitions
<1>1. AttemptInv /\ [Next]_vars
        => [\A j \in Job : jobStatus[j] \in JobStatuses /\ jobStatus'[j] # jobStatus[j]
              => jobStatus'[j] \in AllowedTransitions[jobStatus[j]]]_vars
  <2> SUFFICES ASSUME AttemptInv, [Next]_vars, NEW j \in Job, jobStatus[j] \in JobStatuses,
                      jobStatus'[j] # jobStatus[j]
               PROVE  jobStatus'[j] \in AllowedTransitions[jobStatus[j]]
    OBVIOUS
  <2>t. TypeOK
    BY DEF AttemptInv
  <2>1. \/ jobStatus[j] \in {"queued", "retrying"} /\ jobStatus'[j] = "running"
        \/ jobStatus[j] = "running" /\ jobStatus'[j] \in {"retrying"} \cup TerminalJobStatuses
    <3>1. ~Quiet
      BY DEF Quiet
    <3>2. ASSUME NEW r \in Run, NEW J \in SUBSET Job, Reserves(r, J) PROVE FALSE
      BY <3>2 DEF Reserves, JobStatuses, ActiveJobStatuses, TerminalJobStatuses
    <3>3. ASSUME NEW k \in Job, Starts(k) PROVE jobStatus[j] \in {"queued", "retrying"} /\ jobStatus'[j] = "running"
      BY <3>3, <2>t DEF Starts, SetJob, TypeOK
    <3>4. ASSUME NEW J \in SUBSET Job, Ends(J)
          PROVE jobStatus[j] = "running" /\ jobStatus'[j] \in {"retrying"} \cup TerminalJobStatuses
      BY <3>4 DEF Ends
    <3> QED BY <3>1, <3>2, <3>3, <3>4, StepKinds
  <2> QED BY <2>1 DEF AllowedTransitions
<1> QED BY <1>1, AttemptInvAlways, PTL DEF Spec, OnlyLegalTransitions

\* What a worker learns of an attempt that is no longer the job's changes
\* nothing: as long as it owns the attempt its snapshot is current.
THEOREM LateOutcomesChangeNothing == Spec => LateOutcomesDiscarded
<1>1. AttemptInv /\ [Next]_vars
        => [\A t \in Task :
              LET j == msgJob[t] IN
              /\ phase[t] = "calling" /\ phase'[t] \in {"publishing", "returning"}
              /\ jobStatus[j] # "running" \/ claimAttempts[t] # attempts[j]
              => UNCHANGED <<jobVars, runStatus, devStatus>>]_vars
  <2> SUFFICES ASSUME AttemptInv, Next, NEW t \in Task,
                      phase[t] = "calling", phase'[t] \in {"publishing", "returning"},
                      jobStatus[msgJob[t]] # "running" \/ claimAttempts[t] # attempts[msgJob[t]]
               PROVE  UNCHANGED <<jobVars, runStatus, devStatus>>
    OBVIOUS
  <2>t. TypeOK /\ ~OwnsRunningAttempt(t)
    BY DEF AttemptInv, OwnersAreCurrent, OwnsRunningAttempt
  <2>1. ~DeviceStep /\ ~Deadline
    BY DEF DeviceStep, Register, Heartbeat, HeartbeatExpires, MarkStaleDevicesOffline, taskVars,
           Deadline, LeaseExpires, BackoffElapses
  <2>2. ~ApiStep /\ ~ReconcilerStep
    BY <2>t DEF ApiStep, ApiPublish, ApiPublishFails, CreateRun, taskVars, Publish, FreshTask, TypeOK,
           ReconcilerStep, ReconcilerPublish, ReconcilerPublishFails, Reconcile
  <2>3. PICK u \in Task : \/ ClaimTask(u) \/ IgnoreTask(u) \/ EndCall(u) \/ EndPublish(u)
                          \/ Acknowledge(u)
                          \/ WorkerLost(u) \/ AbandonTask(u) \/ LoseMessage(u)
    BY <2>1, <2>2 DEF Next, WorkerStep
  <2>4. u = t \/ EndPublish(u)
    BY <2>3, <2>t DEF ClaimTask, IgnoreTask, EndCall, DeviceAnswers, RetryableFailure, DiscardLateOutcome, Finish,
                      ScheduleRetry, Acknowledge, WorkerLost, AbandonTask, LoseMessage, Retire, TypeOK
  <2>5. CASE EndPublish(u)
    BY <2>5 DEF EndPublish, PublishRetry, PublishRetryFails, deviceVars
  <2>6. CASE u = t /\ ~EndPublish(u)
    <3>1. EndCall(t)
      BY <2>3, <2>6, <2>t DEF ClaimTask, IgnoreTask, Acknowledge, WorkerLost, AbandonTask, LoseMessage, Retire, TypeOK
    <3>2. DiscardLateOutcome(t)
      BY <3>1, <2>t DEF EndCall, DeviceAnswers, RetryableFailure, Finish, ScheduleRetry
    <3> QED BY <3>2 DEF DiscardLateOutcome, deviceVars
  <2> QED BY <2>4, <2>5, <2>6
<1> QED BY <1>1, AttemptInvAlways, PTL DEF Spec, LateOutcomesDiscarded

-----------------------------------------------------------------------------
(* Refinement: the attempts. *)

\* Attempts follow one another, within the budget, up to one verdict, for any
\* number of tasks that carry the same job.
THEOREM AttemptsAreBooked == Spec => ActsOnAttempts
<1>1. Init => Books!AttemptsInit
  <2> SUFFICES ASSUME Init PROVE Books!AttemptsInit
    OBVIOUS
  <2>1. \A j \in Job : VerdictOf(j) = "none" /\ jobStatus[j] # "running"
    BY DEF Init, VerdictOf, Active, ActiveJobStatuses
  <2> QED BY <2>1 DEF Init, Books!AttemptsInit
<1>2. AttemptInv /\ AttemptInv' /\ [Next]_vars => [Books!AttemptsNext]_(Books!attemptVars)
  <2> SUFFICES ASSUME AttemptInv, AttemptInv', [Next]_vars PROVE [Books!AttemptsNext]_(Books!attemptVars)
    OBVIOUS
  <2>t. TypeOK /\ TypeOK'
    BY DEF AttemptInv
  <2>1. CASE Quiet
    BY <2>1 DEF Quiet, Books!attemptVars, VerdictOf, Active
  <2>2. ASSUME NEW r \in Run, NEW J \in SUBSET Job, Reserves(r, J) PROVE Books!Submit(J)
    <3>1. \A j \in J : VerdictOf(j) = "none"
      BY <2>2 DEF Reserves, VerdictOf, Active, ActiveJobStatuses
    <3>2. \A j \in Job : /\ VerdictOf(j)' = IF j \in J THEN "pending" ELSE VerdictOf(j)
                         /\ (jobStatus'[j] = "running") = (jobStatus[j] = "running")
      BY <2>2 DEF Reserves, VerdictOf, Active, ActiveJobStatuses
    <3> QED BY <2>2, <3>1, <3>2 DEF Books!Submit, Reserves
  <2>3. ASSUME NEW j \in Job, Starts(j) PROVE Books!Start(j)
    <3>1. VerdictOf(j) = "pending" /\ jobStatus[j] # "running" /\ attempts[j] < MaxAttempts
      BY <2>3 DEF Starts, VerdictOf, Active, ActiveJobStatuses
    <3>2. \A k \in Job : jobStatus'[k] = IF k = j THEN "running" ELSE jobStatus[k]
      BY <2>3, <2>t DEF Starts, SetJob, TypeOK
    <3>3. \A k \in Job : VerdictOf(k)' = VerdictOf(k)
      BY <3>1, <3>2 DEF VerdictOf, Active, ActiveJobStatuses
    <3>4. attempts' = [attempts EXCEPT ![j] = attempts[j] + 1]
      BY <2>3 DEF Starts
    <3> QED BY <3>1, <3>2, <3>3, <3>4 DEF Books!Start
  <2>4. ASSUME NEW J \in SUBSET Job, Ends(J) PROVE Books!EndAttempts(J)
    <3> DEFINE v == [j \in J |-> VerdictOf(j)']
    <3>1. \A j \in J : /\ jobStatus[j] = "running" /\ jobStatus'[j] # "running"
                       /\ VerdictOf(j)' = IF jobStatus'[j] = "retrying" THEN "pending" ELSE jobStatus'[j]
      BY <2>4 DEF Ends, VerdictOf, Active, ActiveJobStatuses, TerminalJobStatuses
    <3>2. \A j \in Job \ J : VerdictOf(j)' = VerdictOf(j) /\ jobStatus'[j] = jobStatus[j]
      BY <2>4 DEF Ends, VerdictOf, Active
    <3>3. \A j \in J : v[j] \in Books!Outcomes(j)
      <4>1. \A j \in J : attempts[j] = MaxAttempts => ~(attempts[j] < MaxAttempts)
        BY AttemptBudget
      <4> QED BY <2>4, <3>1, <4>1 DEF Ends, Books!Outcomes, TerminalJobStatuses
    <3>4. v \in [J -> Books!FinalVerdicts \cup {"pending"}]
      BY <2>4, <3>1 DEF Ends, Books!FinalVerdicts, TerminalJobStatuses
    <3>5. \A j \in Job : VerdictOf(j)' = IF j \in J THEN v[j] ELSE VerdictOf(j)
      BY <3>2
    <3>6. \A j \in Job : (jobStatus'[j] = "running") = (j \notin J /\ jobStatus[j] = "running")
      BY <3>1, <3>2
    <3>7. attempts' = attempts
      BY <2>4 DEF Ends
    <3> HIDE DEF v
    <3> QED BY <3>1, <3>3, <3>4, <3>5, <3>6, <3>7 DEF Books!EndAttempts
  <2> QED BY <2>1, <2>2, <2>3, <2>4, StepKinds DEF Books!AttemptsNext
<1> QED BY <1>1, <1>2, AttemptInvAlways, PTL DEF Spec, ActsOnAttempts, Books!AttemptsSpec

-----------------------------------------------------------------------------
(* Refinement: what a client sees. *)

Verdict == [j \in Job |-> VerdictOf(j)]

\* The run row shows the outcome that the verdicts deserve.
LEMMA OutcomesAreDeserved ==
  AggregationInv /\ TypeOK => \A r \in Run : OutcomeSeen(r) = Promise!OutcomeOf(r, Verdict)
<1> SUFFICES ASSUME AggregationInv, TypeOK, NEW r \in Run
             PROVE  OutcomeSeen(r) = Promise!OutcomeOf(r, Verdict)
  OBVIOUS
<1> DEFINE S   == StatusesOf(r)
           its == {Verdict[j] : j \in {k \in Job : RunOf[k] = r}} \ {"none"}
<1>1. \A j \in Job : /\ jobStatus[j] = "absent" <=> Verdict[j] = "none"
                     /\ jobStatus[j] \in ActiveJobStatuses <=> Verdict[j] = "pending"
                     /\ jobStatus[j] \in TerminalJobStatuses => Verdict[j] = jobStatus[j]
                     /\ jobStatus[j] \in ActiveJobStatuses \cup TerminalJobStatuses \cup {"absent"}
  BY DEF Verdict, VerdictOf, Active, ActiveJobStatuses, TerminalJobStatuses, JobStatuses, TypeOK
<1>2. S = {} <=> its = {}
  BY <1>1 DEF StatusesOf, JobsOf
<1>3. S \subseteq TerminalJobStatuses <=> "pending" \notin its
  <2>1. ActiveJobStatuses \cap TerminalJobStatuses = {} /\ "absent" \notin ActiveJobStatuses \cup TerminalJobStatuses
    BY DEF ActiveJobStatuses, TerminalJobStatuses
  <2> QED BY <1>1, <2>1 DEF StatusesOf, JobsOf
<1>4. S = {"passed"} <=> its = {"passed"}
  <2>1. \A j \in Job : jobStatus[j] = "passed" <=> Verdict[j] = "passed"
    BY <1>1 DEF ActiveJobStatuses, TerminalJobStatuses
  <2> QED BY <1>1, <2>1 DEF StatusesOf, JobsOf
<1>5. /\ runStatus[r] \in {"absent", "queued", "running", "passed", "failed"}
      /\ runStatus[r] = "absent" <=> S = {}
      /\ runStatus[r] = "queued" <=> S = {"queued"}
      /\ runStatus[r] = "passed" <=> S = {"passed"}
      /\ runStatus[r] = "failed" <=> S # {} /\ S # {"passed"} /\ S \subseteq TerminalJobStatuses
  BY DEF AggregationInv, RunStatusAggregates, TypeOK, RunStatuses, TerminalRunStatuses
<1>6. Promise!OutcomeOf(r, Verdict) = CASE its = {}          -> "none"
                                        [] "pending" \in its -> "pending"
                                        [] its = {"passed"}  -> "passed"
                                        [] OTHER             -> "failed"
  BY DEF Promise!OutcomeOf
<1>7. "queued" \notin TerminalJobStatuses /\ "passed" \in TerminalJobStatuses
  BY DEF TerminalJobStatuses
<1> HIDE DEF S, its
<1> QED BY <1>2, <1>3, <1>4, <1>5, <1>6, <1>7 DEF OutcomeSeen

\* Queues, leases, retries and late answers are invisible: whatever happens, a
\* client sees reservations of free devices, verdicts, and the outcome of a run
\* at the very step that brings its last verdict.
THEOREM DispatchImplementsLab == Spec => ImplementsLab
<1>1. Init => Promise!LabInit
  <2> SUFFICES ASSUME Init PROVE Promise!LabInit
    OBVIOUS
  <2>1. (\A j \in Job : VerdictOf(j) = "none") /\ \A r \in Run : OutcomeSeen(r) = "none"
    BY DEF Init, VerdictOf, OutcomeSeen, Active, ActiveJobStatuses
  <2> QED BY <2>1 DEF Promise!LabInit
<1>2. /\ AttemptInv /\ AttemptInv' /\ AggregationInv /\ AggregationInv' /\ ReservationInv /\ [Next]_vars
      => [Promise!LabNext]_(Promise!labVars)
  <2> SUFFICES ASSUME AttemptInv, AttemptInv', AggregationInv, AggregationInv', ReservationInv, [Next]_vars
               PROVE  [Promise!LabNext]_(Promise!labVars)
    OBVIOUS
  <2>t. TypeOK /\ TypeOK'
    BY DEF AttemptInv
  <2>d. /\ \A r \in Run : OutcomeSeen(r) = Promise!OutcomeOf(r, Verdict)
        /\ \A r \in Run : OutcomeSeen(r)' = Promise!OutcomeOf(r, Verdict')
    <3>1. (\A r \in Run : OutcomeSeen(r) = Promise!OutcomeOf(r, Verdict))'
      BY <2>t, OutcomesAreDeserved, PTL
    <3> QED BY <2>t, <3>1, OutcomesAreDeserved DEF Promise!OutcomeOf
  <2>s. ASSUME \A j \in Job : VerdictOf(j)' = VerdictOf(j) PROVE UNCHANGED Promise!labVars
    <3>1. Verdict' = Verdict
      BY <2>s DEF Verdict
    <3>2. \A r \in Run : OutcomeSeen(r)' = OutcomeSeen(r)
      BY <2>d, <3>1
    <3> QED BY <2>s, <3>2 DEF Promise!labVars
  <2>1. CASE Quiet
    BY <2>1, <2>s DEF Quiet, VerdictOf, Active
  <2>2. ASSUME NEW r \in Run, NEW J \in SUBSET Job, Reserves(r, J) PROVE Promise!Reserve(r, J)
    <3>1. \A j \in Job : VerdictOf(j)' = IF j \in J THEN "pending" ELSE VerdictOf(j)
      BY <2>2 DEF Reserves, VerdictOf, Active, ActiveJobStatuses
    <3>2. \A j \in J : RunOf[j] = r /\ DeviceOf[j] \notin Promise!Held
      <4>1. \A k \in Job : VerdictOf(k) = "pending" => Active(k)
        BY <2>t DEF VerdictOf, Active, TypeOK, JobStatuses, ActiveJobStatuses, TerminalJobStatuses
      <4>2. \A k \in Promise!Pending : Active(k) /\ k \in Job
        BY <4>1 DEF Promise!Pending
      <4>3. \A j \in J : j \in Job /\ DeviceOf[j] \in Device /\ ~HasActiveJob(DeviceOf[j])
        BY <2>2, JobKeys DEF Reserves, ReservationInv, OnlineDevicesAreFree
      <4> QED BY <2>2, <4>2, <4>3 DEF Reserves, JobsOf, Promise!Held, HasActiveJob, JobsOn
    <3>3. OutcomeSeen(r) = "none"
      BY <2>2 DEF Reserves, OutcomeSeen
    <3>4. \A q \in Run : OutcomeSeen(q)' = IF q = r THEN "pending" ELSE OutcomeSeen(q)
      BY <2>2, <2>t DEF Reserves, OutcomeSeen, TypeOK
    <3>5. J # {}
      BY <2>2 DEF Reserves
    <3> QED BY <3>1, <3>2, <3>3, <3>4, <3>5 DEF Promise!Reserve
  <2>3. ASSUME NEW j \in Job, Starts(j) PROVE UNCHANGED Promise!labVars
    BY <2>3, <2>s, <2>t DEF Starts, SetJob, VerdictOf, Active, ActiveJobStatuses, TypeOK
  <2>4. ASSUME NEW J \in SUBSET Job, Ends(J) PROVE [\E K \in SUBSET Promise!Pending : Promise!Conclude(K)]_(Promise!labVars)
    <3> DEFINE K == {j \in J : jobStatus'[j] \in TerminalJobStatuses}
               v == [j \in K |-> VerdictOf(j)']
    <3>1. \A j \in J : VerdictOf(j) = "pending"
      BY <2>4 DEF Ends, VerdictOf, Active, ActiveJobStatuses
    <3>2. \A j \in K : VerdictOf(j)' \in Promise!Verdicts
      BY DEF VerdictOf, Active, ActiveJobStatuses, TerminalJobStatuses, Promise!Verdicts
    <3>3. \A j \in J \ K : VerdictOf(j)' = "pending"
      BY <2>4 DEF Ends, VerdictOf, Active, ActiveJobStatuses, TerminalJobStatuses
    <3>4. \A j \in Job \ J : VerdictOf(j)' = VerdictOf(j)
      BY <2>4 DEF Ends, VerdictOf, Active
    <3>5. \A j \in Job : VerdictOf(j)' = IF j \in K THEN v[j] ELSE VerdictOf(j)
      BY <3>1, <3>3, <3>4
    <3>6. K \in SUBSET Job /\ K \subseteq Promise!Pending /\ v \in [K -> Promise!Verdicts]
      BY <3>1, <3>2 DEF Promise!Pending
    <3> HIDE DEF K, v
    <3>7. CASE K = {}
      BY <2>s, <3>5, <3>7
    <3>8. CASE K # {}
      <4>1. [r \in Run |-> OutcomeSeen(r)]' = [r \in Run |-> Promise!OutcomeOf(r, Verdict')]
        BY <2>d
      <4> QED BY <3>5, <3>6, <3>8, <4>1 DEF Promise!Conclude, Verdict
    <3> QED BY <3>7, <3>8
  <2> QED BY <2>1, <2>2, <2>3, <2>4, StepKinds DEF Promise!LabNext
<1> QED BY <1>1, <1>2, AttemptInvAlways, AggregationInvAlways, ReservationInvAlways, PTL
        DEF Spec, ImplementsLab, Promise!LabSpec

-----------------------------------------------------------------------------
(* Refinement: the rows. *)

\* recompute_run_status is the aggregation of Rows.
LEMMA RecomputeIsAggregate ==
  ASSUME NEW J \in SUBSET Job, RecomputeRuns({RunOf[j] : j \in J})
  PROVE  Database!Aggregate(J)
<1>1. ASSUME NEW old, NEW S PROVE Database!Recompute(old, S) = Recompute(old, S)
  BY DEF Database!Recompute, Recompute, Database!TerminalRunStatuses, TerminalRunStatuses,
         Database!ActiveJobStatuses, ActiveJobStatuses
<1>2. \A r \in Run : StatusesOf(r)' = {jobStatus'[j] : j \in Database!JobsOf(r)} \ {"absent"}
  BY DEF StatusesOf, JobsOf, Database!JobsOf
<1>3. \A r \in Run : r \in {RunOf[j] : j \in J} <=> \E j \in J : RunOf[j] = r
  OBVIOUS
<1> QED BY <1>1, <1>2, <1>3 DEF RecomputeRuns, Database!Aggregate

LEMMA RowsVocabulary ==
  /\ Database!ActiveJobStatuses = ActiveJobStatuses
  /\ Database!TerminalJobStatuses = TerminalJobStatuses
  /\ \A d \in Device : /\ Database!HasActiveJob(d) <=> HasActiveJob(d)
                       /\ Database!ReleaseOutcomes(d) = ReleaseOutcomes(d)
                       /\ Database!StatusesOnContact(d) = StatusesOnContact(d)
<1>1. /\ Database!ActiveJobStatuses = ActiveJobStatuses
      /\ Database!TerminalJobStatuses = TerminalJobStatuses
  BY DEF Database!ActiveJobStatuses, ActiveJobStatuses, Database!TerminalJobStatuses, TerminalJobStatuses
<1>2. ASSUME NEW d \in Device PROVE Database!HasActiveJob(d) <=> HasActiveJob(d)
  BY <1>1 DEF Database!HasActiveJob, HasActiveJob, JobsOn, Active
<1>3. ASSUME NEW d \in Device PROVE Database!ReleaseOutcomes(d) = ReleaseOutcomes(d)
  BY DEF Database!ReleaseOutcomes, ReleaseOutcomes
<1>4. ASSUME NEW d \in Device PROVE Database!StatusesOnContact(d) = StatusesOnContact(d)
  <2>1. (\E j \in Job : DeviceOf[j] = d /\ jobStatus[j] \in Database!TerminalJobStatuses)
        <=> \E j \in JobsOn(d) : Terminal(j)
    BY <1>1 DEF JobsOn, Terminal
  <2> QED BY <1>2, <2>1 DEF Database!StatusesOnContact, StatusesOnContact
<1> QED BY <1>1, <1>2, <1>3, <1>4

\* Every step is one transaction of Rows on the rows, the same transactions
\* that the interleaved statements of RowLocks amount to.  A registration of an
\* unknown device is a contact like any other because it has no active job.
THEOREM DispatchActsOnRows == Spec => ActsOnRows
<1>1. Init => Database!RowsInit
  BY DEF Init, Database!RowsInit
<1>2. AttemptInv /\ AttemptInv' /\ ReservationInv /\ [Next]_vars => [Database!RowsNext]_(Database!rows)
  <2> SUFFICES ASSUME AttemptInv, AttemptInv', ReservationInv, [Next]_vars
               PROVE  [Database!RowsNext]_(Database!rows)
    OBVIOUS
  <2>t. TypeOK /\ TypeOK'
    BY DEF AttemptInv
  <2>1. CASE Quiet
    <3>1. UNCHANGED <<runStatus, jobStatus>>
      BY <2>1 DEF Quiet
    <3>2. ASSUME NEW d \in Device, Register(d) \/ Heartbeat(d) PROVE Database!Contact(d)
      <4>1. \E s \in StatusesOnContact(d) : devStatus' = [devStatus EXCEPT ![d] = s]
        <5>1. devStatus[d] = "absent" => "online" \in StatusesOnContact(d)
          BY DEF ReservationInv, OnlineDevicesAreFree, StatusesOnContact
        <5> QED BY <3>2, <5>1 DEF Register, Heartbeat
      <4> QED BY <3>1, <3>2, <4>1, RowsVocabulary DEF Register, Heartbeat, Database!Contact
    <3>3. ASSUME NEW d \in Device, HeartbeatExpires(d) PROVE Database!HeartbeatExpires(d)
      BY <3>1, <3>3 DEF HeartbeatExpires, Database!HeartbeatExpires
    <3>4. ASSUME NEW D \in SUBSET Device, MarkStaleDevicesOffline(D) PROVE Database!MarkOffline(D)
      BY <3>1, <3>4 DEF MarkStaleDevicesOffline, StaleDevices, Database!MarkOffline
    <3>5. CASE UNCHANGED deviceVars
      BY <3>1, <3>5 DEF deviceVars, Database!rows
    <3> QED BY <2>1, <3>2, <3>3, <3>4, <3>5 DEF Quiet, Database!RowsNext
  <2>2. ASSUME NEW r \in Run, NEW J \in SUBSET Job, Reserves(r, J) PROVE Database!Create(r, J)
    <3>1. \A d \in {DeviceOf[j] : j \in J} : devStatus[d] = "online" /\ ~Database!HasActiveJob(d)
      BY <2>2, RowsVocabulary, JobKeys DEF Reserves, ReservationInv, OnlineDevicesAreFree
    <3>2. Database!JobsOf(r) = JobsOf(r)
      BY DEF JobsOf, Database!JobsOf
    <3> QED BY <2>2, <3>1, <3>2 DEF Reserves, Database!Create
  <2>3. ASSUME NEW j \in Job, Starts(j) PROVE Database!Claim(j)
    <3>1. Database!Aggregate({j})
      <4>1. {RunOf[k] : k \in {j}} = {RunOf[j]} /\ {j} \in SUBSET Job
        OBVIOUS
      <4> QED BY <2>3, <4>1, RecomputeIsAggregate DEF Starts
    <3> QED BY <2>3, <3>1 DEF Starts, SetJob, deviceVars, Database!Claim
  <2>4. ASSUME NEW J \in SUBSET Job, Ends(J) PROVE [\E K \in SUBSET Job : Database!Close(K)]_(Database!rows)
    <3> DEFINE v == [j \in J |-> jobStatus'[j]]
               released == {DeviceOf[j] : j \in {k \in J : v[k] \in TerminalJobStatuses}}
    <3>1. Database!Aggregate(J)
      BY <2>4, RecomputeIsAggregate DEF Ends
    <3>2. jobStatus' = [j \in Job |-> IF j \in J THEN v[j] ELSE jobStatus[j]]
      BY <2>4, <2>t DEF Ends, TypeOK
    <3>3. v \in [J -> {"retrying"} \cup TerminalJobStatuses]
      BY <2>4 DEF Ends
    <3>4. DOMAIN devStatus' = Device
      BY <2>t DEF TypeOK
    <3>5. \A d \in Device : IF d \in released THEN devStatus'[d] \in ReleaseOutcomes(d)
                                              ELSE devStatus'[d] = devStatus[d]
      <4>1. \A d \in Device : d \in released <=> \E j \in J : DeviceOf[j] = d /\ jobStatus'[j] \in TerminalJobStatuses
        OBVIOUS
      <4> HIDE DEF released
      <4> QED BY <2>4, <4>1 DEF Ends
    <3>6. UNCHANGED hb /\ \A j \in J : jobStatus[j] = "running"
      BY <2>4 DEF Ends
    <3>7. CASE J = {}
      <4>1. jobStatus' = jobStatus
        BY <3>2, <3>7, <2>t DEF TypeOK
      <4>2. devStatus' = devStatus
        BY <3>5, <3>7, <2>t DEF TypeOK
      <4>3. runStatus' = runStatus
        BY <3>1, <3>7, <2>t DEF TypeOK, Database!Aggregate
      <4> QED BY <3>6, <4>1, <4>2, <4>3 DEF Database!rows
    <3>8. CASE J # {}
      <4>1. Database!Close(J)
        <5> HIDE DEF v
        <5>1. \A d \in Device : IF d \in released THEN devStatus'[d] \in Database!ReleaseOutcomes(d)
                                                  ELSE devStatus'[d] = devStatus[d]
          BY <3>5, RowsVocabulary
        <5> QED BY <3>1, <3>2, <3>3, <3>4, <3>6, <3>8, <5>1, RowsVocabulary DEF Database!Close
      <4> QED BY <4>1
    <3> QED BY <3>7, <3>8
  <2> QED BY <2>1, <2>2, <2>3, <2>4, StepKinds DEF Database!RowsNext
<1> QED BY <1>1, <1>2, AttemptInvAlways, ReservationInvAlways, PTL DEF Spec, ActsOnRows, Database!RowsSpec

=============================================================================
