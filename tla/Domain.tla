------------------------------- MODULE Domain -------------------------------
(***************************************************************************)
(* The status vocabulary of the database (models/domain.py), the legal     *)
(* transitions of a job (services/jobs.py) and the derivation of a run's   *)
(* status from the statuses of its jobs (services/runs.py).  No state:     *)
(* every module that touches a job, a run or a device shares these.        *)
(***************************************************************************)

DeviceStatuses == {"online", "offline", "busy"}

ActiveJobStatuses   == {"queued", "running", "retrying"}
TerminalJobStatuses == {"passed", "failed", "timed_out"}
JobStatuses         == ActiveJobStatuses \cup TerminalJobStatuses

\* "cancelled" is declared by the schema; no code path writes it.
TerminalRunStatuses == {"passed", "failed", "cancelled"}
RunStatuses         == {"queued", "running"} \cup TerminalRunStatuses

\* _ALLOWED_TRANSITIONS: transition_job raises on any other pair, and returns
\* without effect when the job already has the target status.
AllowedTransitions ==
  [from \in JobStatuses |->
     CASE from \in {"queued", "retrying"} -> {"running"}
       [] from = "running"                -> {"retrying"} \cup TerminalJobStatuses
       [] OTHER                           -> {}]

\* Variants of Recompute: a retrying job counts as terminal; a timed-out job
\* does not fail its run.
RecomputeForgetsRetrying(old, S) ==
  CASE old \in TerminalRunStatuses -> old
    [] old \notin TerminalRunStatuses /\ S \cap {"queued", "running"} # {}
         -> IF S = {"queued"} THEN "queued" ELSE "running"
    [] OTHER -> IF S = {"passed"} THEN "passed" ELSE "failed"

RecomputeForgivesTimeouts(old, S) ==
  CASE old \in TerminalRunStatuses -> old
    [] old \notin TerminalRunStatuses /\ S \cap ActiveJobStatuses # {}
         -> IF S = {"queued"} THEN "queued" ELSE "running"
    [] OTHER -> IF "failed" \in S THEN "failed" ELSE "passed"

\* recompute_run_status, for a run that now has status `old` and whose jobs
\* have the statuses in the non-empty set S.
Recompute(old, S) ==
  CASE old \in TerminalRunStatuses          -> old
    [] old \notin TerminalRunStatuses /\ S \cap ActiveJobStatuses # {}
         -> IF S = {"queued"} THEN "queued" ELSE "running"
    [] OTHER -> IF S = {"passed"} THEN "passed" ELSE "failed"

=============================================================================
