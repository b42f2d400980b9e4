-------------------------------- MODULE Lab ---------------------------------
(***************************************************************************)
(* What the laboratory promises whoever asks for a run, with no queue, no  *)
(* worker and no clock: a run reserves devices nobody else holds, each of  *)
(* its jobs gets exactly one verdict, and the run gets its outcome at the  *)
(* very moment the last verdict is in.                                     *)
(***************************************************************************)
CONSTANTS Run, Job, RunOf, DeviceOf

VARIABLES
  verdict,   \* of a job: "none" before its run exists, then "pending"
  outcome    \* of a run: likewise

labVars == <<verdict, outcome>>

Verdicts == {"passed", "failed", "timed_out"}
Pending  == {j \in Job : verdict[j] = "pending"}
Held     == {DeviceOf[j] : j \in Pending}

LabInit ==
  /\ verdict = [j \in Job |-> "none"]
  /\ outcome = [r \in Run |-> "none"]

\* A run reserves, for its jobs J, devices no pending job holds.
Reserve(r, J) ==
  /\ outcome[r] = "none"
  /\ J # {}
  /\ \A j \in J : RunOf[j] = r /\ DeviceOf[j] \notin Held
  /\ verdict' = [j \in Job |-> IF j \in J THEN "pending" ELSE verdict[j]]
  /\ outcome' = [outcome EXCEPT ![r] = "pending"]

\* The outcome a run deserves once the verdicts are v.
OutcomeOf(r, v) ==
  LET its == {v[j] : j \in {k \in Job : RunOf[k] = r}} \ {"none"} IN
  CASE its = {}          -> "none"
    [] "pending" \in its -> "pending"
    [] its = {"passed"}  -> "passed"
    [] OTHER             -> "failed"

\* Some pending jobs, of any runs, get their verdicts.
Conclude(J) ==
  /\ J # {}
  /\ verdict' \in {[j \in Job |-> IF j \in J THEN v[j] ELSE verdict[j]] : v \in [J -> Verdicts]}
  /\ outcome' = [r \in Run |-> OutcomeOf(r, verdict')]

LabNext ==
  \/ \E J \in SUBSET Pending : Conclude(J)
  \/ \E r \in Run, J \in SUBSET Job : Reserve(r, J)

LabSpec == LabInit /\ [][LabNext]_labVars
=============================================================================
