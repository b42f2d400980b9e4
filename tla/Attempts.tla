------------------------------ MODULE Attempts ------------------------------
(***************************************************************************)
(* The bookkeeping of attempts that the control plane keeps per job and    *)
(* that everything outside it may rely on: one attempt at a time, a        *)
(* bounded number of them, one verdict.  Dispatch implements it with       *)
(* queues, leases and retries; AgentEngine is the device's side of it.     *)
(***************************************************************************)
EXTENDS Naturals

CONSTANTS Job, MaxAttempts

VARIABLES
  verdict,    \* "none" before the run exists, then "pending"
  tries,      \* attempts started
  underway    \* is an attempt on the books?

attemptVars == <<verdict, tries, underway>>

FinalVerdicts == {"passed", "failed", "timed_out"}

AttemptsInit ==
  /\ verdict = [j \in Job |-> "none"]
  /\ tries = [j \in Job |-> 0]
  /\ underway = [j \in Job |-> FALSE]

Submit(J) ==
  /\ \A j \in J : verdict[j] = "none"
  /\ verdict' = [j \in Job |-> IF j \in J THEN "pending" ELSE verdict[j]]
  /\ UNCHANGED <<tries, underway>>

Start(j) ==
  /\ verdict[j] = "pending" /\ ~underway[j] /\ tries[j] < MaxAttempts
  /\ tries' = [tries EXCEPT ![j] = @ + 1]
  /\ underway' = [underway EXCEPT ![j] = TRUE]
  /\ UNCHANGED verdict

\* What the end of an attempt can make of job j: a retry while attempts
\* remain, a timeout when none does.
Outcomes(j) ==
  {"passed", "failed"} \cup IF tries[j] < MaxAttempts THEN {"pending"} ELSE {"timed_out"}

\* The reconciler ends the attempts of several jobs in one transaction.
EndAttempts(J) ==
  /\ \A j \in J : underway[j]
  /\ \E v \in [J -> FinalVerdicts \cup {"pending"}] :
       /\ \A j \in J : v[j] \in Outcomes(j)
       /\ verdict' = [j \in Job |-> IF j \in J THEN v[j] ELSE verdict[j]]
  /\ underway' = [j \in Job |-> j \notin J /\ underway[j]]
  /\ UNCHANGED tries

AttemptsNext ==
  \/ \E J \in SUBSET Job : Submit(J) \/ EndAttempts(J)
  \/ \E j \in Job : Start(j)

AttemptsSpec == AttemptsInit /\ [][AttemptsNext]_attemptVars
=============================================================================
