-------------------------------- MODULE Rows --------------------------------
(***************************************************************************)
(* The rows of the database as its committed transactions change them, one *)
(* atomic step per transaction.  RowLocks, where transactions interleave   *)
(* statement by statement, implements this; so does Dispatch, which builds *)
(* queue, workers and reconciler around the same transactions.             *)
(***************************************************************************)
EXTENDS Domain

CONSTANTS Device, Run, Job, RunOf, DeviceOf

VARIABLES devStatus, hb, runStatus, jobStatus

rows == <<devStatus, hb, runStatus, jobStatus>>

JobsOf(r)     == {j \in Job : RunOf[j] = r}
HasActiveJob(d) == \E j \in Job : DeviceOf[j] = d /\ jobStatus[j] \in ActiveJobStatuses

\* What is left of a device when its job ends (see Dispatch).
ReleaseOutcomes(d) == {"online", "offline", devStatus[d]}

RowsInit ==
  /\ devStatus \in [Device -> {"absent", "online"}]
  /\ hb = [d \in Device |-> IF devStatus[d] = "absent" THEN "stale" ELSE "fresh"]
  /\ runStatus = [r \in Run |-> "absent"]
  /\ jobStatus = [j \in Job |-> "absent"]

\* What a registration or a heartbeat can give (see Dispatch).
StatusesOnContact(d) ==
  {IF HasActiveJob(d) THEN "busy" ELSE "online"} \cup
  {s \in {"busy"} : devStatus[d] # "online" /\ \E j \in Job : /\ DeviceOf[j] = d
                                                             /\ jobStatus[j] \in TerminalJobStatuses}

Contact(d) ==
  /\ \E s \in StatusesOnContact(d) : devStatus' = [devStatus EXCEPT ![d] = s]
  /\ hb' = [hb EXCEPT ![d] = "fresh"]
  /\ UNCHANGED <<runStatus, jobStatus>>

HeartbeatExpires(d) ==
  /\ hb' = [hb EXCEPT ![d] = "stale"]
  /\ UNCHANGED <<devStatus, runStatus, jobStatus>>

MarkOffline(D) ==
  /\ \A d \in D : devStatus[d] \in {"online", "busy"} /\ hb[d] = "stale"
  /\ devStatus' = [d \in Device |-> IF d \in D THEN "offline" ELSE devStatus[d]]
  /\ UNCHANGED <<hb, runStatus, jobStatus>>

Create(r, J) ==
  LET S == {DeviceOf[j] : j \in J} IN
  /\ runStatus[r] = "absent"
  /\ J # {} /\ J \subseteq JobsOf(r)
  /\ \A d \in S : devStatus[d] = "online" /\ ~HasActiveJob(d)
  /\ runStatus' = [runStatus EXCEPT ![r] = "queued"]
  /\ jobStatus' = [j \in Job |-> IF j \in J THEN "queued" ELSE jobStatus[j]]
  /\ devStatus' = [d \in Device |-> IF d \in S THEN "busy" ELSE devStatus[d]]
  /\ UNCHANGED hb

\* The runs of the changed jobs J, aggregated over all their jobs.
Aggregate(J) ==
  runStatus' = [r \in Run |->
    IF \E j \in J : RunOf[j] = r
    THEN Recompute(runStatus[r], {jobStatus'[j] : j \in JobsOf(r)} \ {"absent"})
    ELSE runStatus[r]]

Claim(j) ==
  /\ jobStatus[j] \in {"queued", "retrying"}
  /\ jobStatus' = [jobStatus EXCEPT ![j] = "running"]
  /\ Aggregate({j})
  /\ UNCHANGED <<devStatus, hb>>

\* One attempt ends, or the reconciler ends several: the jobs in J get new
\* statuses v, and a device whose job is over is released.
Close(J) ==
  /\ J # {} /\ \A j \in J : jobStatus[j] = "running"
  /\ \E v \in [J -> {"retrying"} \cup TerminalJobStatuses] :
       LET released == {DeviceOf[j] : j \in {k \in J : v[k] \in TerminalJobStatuses}} IN
       /\ jobStatus' = [j \in Job |-> IF j \in J THEN v[j] ELSE jobStatus[j]]
       /\ DOMAIN devStatus' = Device
       /\ \A d \in Device : IF d \in released
                            THEN devStatus'[d] \in ReleaseOutcomes(d)
                            ELSE devStatus'[d] = devStatus[d]
  /\ Aggregate(J)
  /\ UNCHANGED hb

RowsNext ==
  \/ \E d \in Device : Contact(d) \/ HeartbeatExpires(d)
  \/ \E D \in SUBSET Device : MarkOffline(D)
  \/ \E j \in Job : Claim(j)
  \/ \E J \in SUBSET Job : Close(J) \/ \E r \in Run : Create(r, J)

RowsSpec == RowsInit /\ [][RowsNext]_rows
=============================================================================
