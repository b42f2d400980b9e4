--------------------------- MODULE DispatchProofs ---------------------------
(***************************************************************************)
(* Machine-checked proofs about Dispatch, for every set of devices, runs,  *)
(* jobs and tasks and every attempt budget.                                *)
(***************************************************************************)
EXTENDS Dispatch, TLAPS

-----------------------------------------------------------------------------
(* The attempt budget and the ownership of a running attempt.  TypeOK      *)
(* bounds attempts, so it is not inductive: a claim must start below the   *)
(* bound.  That in turn needs a retry to be scheduled below the bound,     *)
(* which the code decides from the worker's snapshot of the counter.       *)

\* A task in use carries a job.
TasksCarryJobs == \A t \in Task : phase[t] # "free" => msgJob[t] \in Job

\* The snapshot is the counter as long as the worker owns the attempt.
OwnersAreCurrent ==
  \A t \in Task : phase[t] = "calling" /\ OwnsRunningAttempt(t)
                    => claimAttempts[t] = attempts[msgJob[t]]

\* How many attempts a job in each status has had.
AttemptsCounted ==
  \A j \in Job :
    /\ jobStatus[j] \in {"absent", "queued"} => attempts[j] = 0
    /\ jobStatus[j] = "retrying" => attempts[j] < MaxAttempts
    /\ jobStatus[j] = "timed_out" => attempts[j] = MaxAttempts

\* The jobs of a run appear with it.
RunsComeFirst == \A j \in Job : runStatus[RunOf[j]] = "absent" => jobStatus[j] = "absent"

AttemptInv == RunsComeFirst /\ TypeOK /\ TasksCarryJobs /\ OwnersAreCurrent /\ AttemptsCounted

LEMMA AttemptInvInit == Init => AttemptInv
BY AttemptBudget, Nulls, JobKeys
DEF Init, AttemptInv, RunsComeFirst, TypeOK, TasksCarryJobs, OwnersAreCurrent, AttemptsCounted, DeviceStatuses

LEMMA RecomputeType ==
  ASSUME NEW old \in RunStatuses \cup {"absent"}, NEW S
  PROVE  Recompute(old, S) \in RunStatuses
BY DEF Recompute, RunStatuses, TerminalRunStatuses

LEMMA RecomputeRunsType ==
  ASSUME runStatus \in [Run -> RunStatuses \cup {"absent"}], NEW R, RecomputeRuns(R)
  PROVE  /\ runStatus' \in [Run -> RunStatuses \cup {"absent"}]
         /\ \A r \in Run : runStatus'[r] = "absent" => runStatus[r] = "absent"
BY RecomputeType DEF RecomputeRuns, RunStatuses, TerminalRunStatuses

\* Whoever has used up the budget has used exactly the budget.
LEMMA ExhaustedExactly ==
  ASSUME NEW n \in 0..MaxAttempts, Exhausted(n)
  PROVE  n = MaxAttempts
BY AttemptBudget DEF Exhausted

LEMMA AttemptInvNext == AttemptInv /\ [Next]_vars => AttemptInv'
<1> SUFFICES ASSUME AttemptInv, [Next]_vars PROVE AttemptInv'
  OBVIOUS
<1> USE AttemptBudget, Nulls, JobKeys
    DEF AttemptInv, RunsComeFirst, TypeOK, TasksCarryJobs, OwnersAreCurrent, AttemptsCounted, OwnsRunningAttempt,
        DeviceStatuses, JobStatuses, ActiveJobStatuses, TerminalJobStatuses,
        deviceVars, jobVars, taskVars, outboxVars, Retire, Publish, SetJob, FreshTask
<1>1. ASSUME NEW d \in Device, Register(d) PROVE AttemptInv'
  BY <1>1 DEF Register, StatusesOnContact
<1>2. ASSUME NEW d \in Device, Heartbeat(d) PROVE AttemptInv'
  BY <1>2 DEF Heartbeat, StatusesOnContact
<1>3. ASSUME NEW d \in Device, HeartbeatExpires(d) PROVE AttemptInv'
  BY <1>3 DEF HeartbeatExpires
<1>4. ASSUME NEW D \in SUBSET Device, MarkStaleDevicesOffline(D) PROVE AttemptInv'
  BY <1>4 DEF MarkStaleDevicesOffline
<1>5. ASSUME NEW r \in Run, NEW S \in SUBSET Device, CreateRun(r, S) PROVE AttemptInv'
  <2>1. runStatus' \in [Run -> RunStatuses \cup {"absent"}]
    BY <1>5 DEF CreateRun, RunStatuses
  <2>2. devStatus' \in [Device -> DeviceStatuses \cup {"absent"}]
    BY <1>5 DEF CreateRun
  <2>3. /\ jobStatus' \in [Job -> JobStatuses \cup {"absent"}]
        /\ \A j \in Job : jobStatus'[j] = jobStatus[j] \/ jobStatus'[j] = "queued"
        /\ apiOutbox' \subseteq Job
    BY <1>5 DEF CreateRun, JobsOf
  <2>4. TypeOK'
    BY <2>1, <2>2, <2>3, <1>5 DEF CreateRun
  <2>5. \A j \in Job : jobStatus'[j] # jobStatus[j] => jobStatus[j] = "absent" /\ RunOf[j] = r
    BY <1>5 DEF CreateRun, JobsOf
  <2>6. AttemptsCounted'
    BY <2>3, <2>5, <1>5 DEF CreateRun
  <2>7. RunsComeFirst'
    BY <2>3, <2>5, <1>5 DEF CreateRun
  <2>8. TasksCarryJobs' /\ OwnersAreCurrent'
    BY <2>3, <1>5 DEF CreateRun
  <2> QED BY <2>4, <2>6, <2>7, <2>8
<1>6. ASSUME NEW t \in Task, NEW j \in Job, ApiPublish(t, j) PROVE AttemptInv'
  BY <1>6 DEF ApiPublish
<1>7. ASSUME NEW r \in Run, ApiPublishFails(r) PROVE AttemptInv'
  BY <1>7 DEF ApiPublishFails
<1>8. ASSUME NEW t \in Task, ClaimTask(t) PROVE AttemptInv'
  BY <1>8, RecomputeRunsType DEF ClaimTask, Claimable
<1>9. ASSUME NEW t \in Task, IgnoreTask(t) PROVE AttemptInv'
  BY <1>9 DEF IgnoreTask
<1>10. ASSUME NEW t \in Task, NEW target \in TerminalJobStatuses, phase[t] = "calling", Finish(t, target),
              target = "timed_out" => Exhausted(claimAttempts[t]) PROVE AttemptInv'
  <2> DEFINE j == msgJob[t]
  <2>1. PICK s \in ReleaseOutcomes(DeviceOf[j]) : devStatus' = [devStatus EXCEPT ![DeviceOf[j]] = s]
    BY <1>10 DEF Finish
  <2>2. j \in Job /\ claimAttempts[t] = attempts[j]
    BY <1>10 DEF Finish
  <2>3. devStatus' \in [Device -> DeviceStatuses \cup {"absent"}]
    BY <2>1, <2>2 DEF ReleaseOutcomes
  <2>4. /\ runStatus' \in [Run -> RunStatuses \cup {"absent"}]
        /\ RunsComeFirst'
    BY <2>2, <1>10, RecomputeRunsType DEF Finish
  <2>5. TypeOK'
    BY <2>2, <2>3, <2>4, <1>10 DEF Finish
  <2>6. TasksCarryJobs' /\ OwnersAreCurrent'
    BY <2>2, <1>10 DEF Finish
  <2>7. AttemptsCounted'
    <3>1. target = "timed_out" => attempts[j] = MaxAttempts
      <4>1. attempts[j] \in 0..MaxAttempts
        BY <2>2
      <4>2. target = "timed_out" => Exhausted(attempts[j])
        BY <2>2, <1>10
      <4> HIDE DEF j
      <4> QED BY ONLY <4>1, <4>2, ExhaustedExactly
    <3>2. attempts' = attempts /\ jobStatus' = [jobStatus EXCEPT ![j] = target]
      BY <1>10 DEF Finish
    <3> QED BY <2>2, <3>1, <3>2
  <2> QED BY <2>4, <2>5, <2>6, <2>7
<1>11. ASSUME NEW t \in Task, phase[t] = "calling", ~Exhausted(claimAttempts[t]),
              ScheduleRetry(t) PROVE AttemptInv'
  BY <1>11, RecomputeRunsType DEF ScheduleRetry, Exhausted
<1>12. ASSUME NEW t \in Task, DiscardLateOutcome(t) PROVE AttemptInv'
  BY <1>12 DEF DiscardLateOutcome
<1>13. ASSUME NEW t \in Task, PublishRetryFails(t) PROVE AttemptInv'
  BY <1>13 DEF PublishRetryFails
<1>14. ASSUME NEW t \in Task, NEW u \in Task, PublishRetry(t, u) PROVE AttemptInv'
  BY <1>14 DEF PublishRetry
<1>15. ASSUME NEW t \in Task, Acknowledge(t) PROVE AttemptInv'
  BY <1>15 DEF Acknowledge
<1>16. ASSUME NEW t \in Task, WorkerLost(t) PROVE AttemptInv'
  BY <1>16 DEF WorkerLost
<1>17. ASSUME NEW t \in Task, AbandonTask(t) PROVE AttemptInv'
  BY <1>17 DEF AbandonTask
<1>18. ASSUME NEW t \in Task, LoseMessage(t) PROVE AttemptInv'
  BY <1>18 DEF LoseMessage
<1>19. ASSUME NEW S \in SUBSET Job, Reconcile(S) PROVE AttemptInv'
  BY <1>19, RecomputeRunsType DEF Reconcile, ExpiredJobs, Exhausted, DispatchableJobs
<1>20. ASSUME NEW t \in Task, NEW j \in Job, ReconcilerPublish(t, j) PROVE AttemptInv'
  BY <1>20 DEF ReconcilerPublish
<1>21. ASSUME NEW j \in Job, ReconcilerPublishFails(j) PROVE AttemptInv'
  BY <1>21 DEF ReconcilerPublishFails
<1>22. ASSUME NEW j \in Job, LeaseExpires(j) PROVE AttemptInv'
  BY <1>22 DEF LeaseExpires
<1>23. ASSUME NEW j \in Job, BackoffElapses(j) PROVE AttemptInv'
  BY <1>23 DEF BackoffElapses
<1>24. ASSUME UNCHANGED vars PROVE AttemptInv'
  BY <1>24 DEF vars
<1> QED
  BY <1>1, <1>2, <1>3, <1>4, <1>5, <1>6, <1>7, <1>8, <1>9, <1>10, <1>11, <1>12, <1>13, <1>14, <1>15, <1>16, <1>17, <1>18, <1>19, <1>20, <1>21, <1>22, <1>23, <1>24
  DEF Next, DeviceStep, ApiStep, WorkerStep, ReconcilerStep, Deadline, EndCall, EndPublish,
      DeviceAnswers, RetryableFailure

\* Both halves of the budget, for every job and every way an attempt can end.
LEMMA AttemptInvAlways == Spec => []AttemptInv
BY AttemptInvInit, AttemptInvNext, PTL DEF Spec

\* The type invariant, whose bound on attempts says that no job is claimed
\* more often than job_max_attempts.
THEOREM TypeCorrect == Spec => []TypeOK
<1>1. AttemptInv => TypeOK
  BY DEF AttemptInv
<1> QED BY <1>1, AttemptInvAlways, PTL

\* A job is retried only while attempts remain, and times out only when none
\* does, whether the worker or the reconciler ends the attempt.
THEOREM BudgetRespected == Spec => []RetryBudget
<1>1. AttemptInv => RetryBudget
  BY DEF AttemptInv, AttemptsCounted, RetryBudget
<1> QED BY <1>1, AttemptInvAlways, PTL

-----------------------------------------------------------------------------
(* Exclusive reservation.  OneActiveJobPerDevice alone is not inductive: a *)
(* new run looks at the device's status, never at its jobs.  The link is   *)
(* OnlineDevicesAreFree, which in turn needs exclusivity when a release    *)
(* turns the device of one finished job "online".                          *)

ReservationInv == OneActiveJobPerDevice /\ OnlineDevicesAreFree

LEMMA ReservationInvInit == Init => ReservationInv
BY DEF Init, ReservationInv, OneActiveJobPerDevice, OnlineDevicesAreFree, HasActiveJob, JobsOn,
       Active, ActiveJobStatuses

\* A step that starts no job keeps the invariant if it puts a device "online"
\* only when that leaves it free.
LEMMA NoNewReservation ==
  ASSUME ReservationInv,
         \A j \in Job : Active(j)' => Active(j),
         \A d \in Device : devStatus'[d] \in {"online", "absent"}
                           => devStatus[d] = devStatus'[d] \/ ~HasActiveJob(d)'
  PROVE  ReservationInv'
BY DEF ReservationInv, OneActiveJobPerDevice, OnlineDevicesAreFree, HasActiveJob, JobsOn

LEMMA ReservationInvNext == AttemptInv /\ ReservationInv /\ [Next]_vars => ReservationInv'
<1> SUFFICES ASSUME AttemptInv, ReservationInv, [Next]_vars PROVE ReservationInv'
  OBVIOUS
<1>t. TypeOK /\ TasksCarryJobs
  BY DEF AttemptInv
<1>1. ASSUME UNCHANGED <<jobStatus, devStatus>> PROVE ReservationInv'
  BY <1>1, NoNewReservation DEF Active
<1>2. ASSUME NEW d \in Device, Register(d) \/ Heartbeat(d) PROVE ReservationInv'
  <2>1. jobStatus' = jobStatus /\ HasActiveJob(d)' = HasActiveJob(d)
    BY <1>2 DEF Register, Heartbeat, jobVars, HasActiveJob, Active, JobsOn
  <2>2. devStatus' = [devStatus EXCEPT ![d] = devStatus'[d]]
    BY <1>2, <1>t DEF Register, Heartbeat, TypeOK
  <2>3. devStatus'[d] = "online" => ~HasActiveJob(d)
    BY <1>2, <1>t DEF Register, Heartbeat, StatusesOnContact, ReservationInv, OnlineDevicesAreFree, TypeOK
  <2>4. devStatus'[d] # "absent"
    BY <1>2, <1>t DEF Register, Heartbeat, StatusesOnContact, TypeOK
  <2> QED BY <2>1, <2>2, <2>3, <2>4, <1>t, NoNewReservation DEF Active, TypeOK
<1>3. ASSUME NEW D \in SUBSET Device, MarkStaleDevicesOffline(D) PROVE ReservationInv'
  BY <1>3, <1>t, NoNewReservation DEF MarkStaleDevicesOffline, jobVars, Active, TypeOK
<1>4. ASSUME NEW r \in Run, NEW S \in SUBSET Device, CreateRun(r, S) PROVE ReservationInv'
  <2> DEFINE new == {j \in JobsOf(r) : DeviceOf[j] \in S}
  <2>1. /\ \A j \in Job : Active(j)' => j \in new \/ Active(j)
        /\ \A d \in S : ~HasActiveJob(d)
    BY <1>4 DEF CreateRun, Active, Available, ReservationInv, OnlineDevicesAreFree
  <2>2. OneActiveJobPerDevice'
    BY <2>1, JobKeys DEF OneActiveJobPerDevice, ReservationInv, HasActiveJob, JobsOn, JobsOf
  <2>3. \A d \in Device : devStatus'[d] \in {"online", "absent"} => d \notin S /\ devStatus[d] = devStatus'[d]
    BY <1>4 DEF CreateRun
  <2>4. OnlineDevicesAreFree'
    BY <2>1, <2>3 DEF OnlineDevicesAreFree, ReservationInv, HasActiveJob, JobsOn, JobsOf
  <2> QED BY <2>2, <2>4 DEF ReservationInv
<1>5. ASSUME NEW t \in Task, ClaimTask(t) \/ (phase[t] = "calling" /\ ScheduleRetry(t))
      PROVE  ReservationInv'
  <2>1. \A j \in Job : Active(j)' => Active(j)
    BY <1>5, <1>t DEF ClaimTask, ScheduleRetry, SetJob, Claimable, OwnsRunningAttempt, Active,
                      ActiveJobStatuses, TypeOK
  <2>2. devStatus' = devStatus
    BY <1>5 DEF ClaimTask, ScheduleRetry, deviceVars
  <2> QED BY <2>1, <2>2, NoNewReservation
<1>6. ASSUME NEW t \in Task, NEW target \in TerminalJobStatuses, phase[t] = "calling", Finish(t, target)
      PROVE  ReservationInv'
  <2>0. PICK j \in Job : j = msgJob[t]
    BY <1>6, <1>t DEF TasksCarryJobs
  <2> DEFINE d == DeviceOf[j]
  <2>1. d \in Device /\ Active(j)
    BY <1>6, <2>0, JobKeys DEF Finish, OwnsRunningAttempt, Active, ActiveJobStatuses
  <2>2. ~Active(j)' /\ \A k \in Job \ {j} : Active(k)' <=> Active(k)
    BY <1>6, <1>t, <2>0 DEF Finish, SetJob, Active, ActiveJobStatuses, TerminalJobStatuses, TypeOK
  <2>3. ~HasActiveJob(d)'
    BY <2>1, <2>2 DEF HasActiveJob, JobsOn, ReservationInv, OneActiveJobPerDevice
  <2>4. PICK s \in ReleaseOutcomes(d) : devStatus' = [devStatus EXCEPT ![d] = s]
    BY <1>6, <2>0 DEF Finish
  <2> QED BY <2>1, <2>2, <2>3, <2>4, <1>t, NoNewReservation DEF TypeOK
<1>7. ASSUME NEW S \in SUBSET Job, Reconcile(S) PROVE ReservationInv'
  <2> DEFINE dead == {j \in S : Exhausted(attempts[j])}
  <2>1. /\ \A j \in Job : Active(j)' => Active(j)
        /\ \A j \in dead : Active(j) /\ ~Active(j)'
    BY <1>7 DEF Reconcile, ExpiredJobs, Active, ActiveJobStatuses
  <2>2. \A d \in Device : devStatus'[d] = devStatus[d] \/ \E j \in dead : DeviceOf[j] = d
    BY <1>7 DEF Reconcile
  <2>3. \A d \in Device : (\E j \in dead : DeviceOf[j] = d) => ~HasActiveJob(d)'
    BY <2>1 DEF HasActiveJob, JobsOn, ReservationInv, OneActiveJobPerDevice
  <2> QED BY <2>1, <2>2, <2>3, NoNewReservation
<1>8. ASSUME NEW t \in Task, EndCall(t) PROVE ReservationInv'
  BY <1>8, <1>1, <1>5, <1>6
  DEF EndCall, DeviceAnswers, RetryableFailure, DiscardLateOutcome, deviceVars, jobVars, TerminalJobStatuses
<1> QED
  BY <1>1, <1>2, <1>3, <1>4, <1>5, <1>7, <1>8
  DEF Next, DeviceStep, ApiStep, WorkerStep, ReconcilerStep, Deadline, EndPublish, vars, deviceVars,
      jobVars, HeartbeatExpires, ApiPublish, ApiPublishFails, IgnoreTask, PublishRetry, PublishRetryFails,
      Acknowledge, WorkerLost, AbandonTask, LoseMessage, ReconcilerPublish, ReconcilerPublishFails,
      LeaseExpires, BackoffElapses

LEMMA ReservationInvAlways == Spec => []ReservationInv
BY AttemptInvAlways, ReservationInvInit, ReservationInvNext, PTL DEF Spec

\* Runs never double-book: no two unfinished jobs share a device, whatever
\* the interleaving of run creation, heartbeats, liveness scans and releases.
THEOREM NoDoubleBooking == Spec => []OneActiveJobPerDevice
<1>1. ReservationInv => OneActiveJobPerDevice
  BY DEF ReservationInv
<1> QED BY <1>1, ReservationInvAlways, PTL

\* No heartbeat, registration or release offers a reserved device to a new run.
THEOREM ReservedDevicesStayReserved == Spec => []OnlineDevicesAreFree
<1>1. ReservationInv => OnlineDevicesAreFree
  BY DEF ReservationInv
<1> QED BY <1>1, ReservationInvAlways, PTL
=============================================================================
