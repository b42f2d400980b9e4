--------------------------- MODULE CiClientProofs ---------------------------
(***************************************************************************)
(* For any laboratory: the exit code of pulsehunter-ci tells the truth,    *)
(* and a build creates one run at most.                                    *)
(***************************************************************************)
EXTENDS CiClient, FiniteSetTheorems, TLAPS

-----------------------------------------------------------------------------
(* The laboratory.  The client reads an outcome some time before it acts on *)
(* it, so what matters is that an outcome, once given, is never changed.    *)

OutcomesDeserved ==
  /\ outcome \in [Run -> {"none", "pending", "passed", "failed"}]
  /\ \A r \in Run : outcome[r] = Laboratory!OutcomeOf(r, verdict)

\* The verdicts of a run's jobs, and what its outcome says of them.
VerdictsOf(r, v) == {v[j] : j \in {k \in Job : RunOf[k] = r}} \ {"none"}

LEMMA OutcomeTells ==
  ASSUME NEW r, NEW v
  PROVE  LET its == VerdictsOf(r, v)
             o   == Laboratory!OutcomeOf(r, v)
         IN  /\ o \in {"none", "pending", "passed", "failed"}
             /\ o = "none" <=> its = {}
             /\ o = "pending" <=> "pending" \in its
BY DEF Laboratory!OutcomeOf, VerdictsOf

\* Same jobs, same outcome.
LEMMA SameOutcome ==
  ASSUME NEW r, NEW v, NEW w, \A j \in Job : RunOf[j] = r => v[j] = w[j]
  PROVE  Laboratory!OutcomeOf(r, v) = Laboratory!OutcomeOf(r, w)
<1>1. VerdictsOf(r, v) = VerdictsOf(r, w)
  BY DEF VerdictsOf
<1> QED BY <1>1 DEF Laboratory!OutcomeOf, VerdictsOf

LEMMA OutcomesAreFinal ==
  ASSUME OutcomesDeserved, [Laboratory!LabNext]_labVars
  PROVE  /\ OutcomesDeserved'
         /\ \A r \in Run : outcome[r] \in {"passed", "failed"} => outcome'[r] = outcome[r]
<1>1. CASE UNCHANGED labVars
  BY <1>1 DEF labVars, OutcomesDeserved, Laboratory!OutcomeOf
<1>2. ASSUME NEW J \in SUBSET Laboratory!Pending, Laboratory!Conclude(J)
      PROVE  /\ OutcomesDeserved'
             /\ \A r \in Run : outcome[r] \in {"passed", "failed"} => outcome'[r] = outcome[r]
  <2>1. /\ outcome' = [r \in Run |-> Laboratory!OutcomeOf(r, verdict')]
        /\ \A j \in J : verdict[j] = "pending"
    BY <1>2 DEF Laboratory!Conclude, Laboratory!Pending
  <2>2. \A j \in Job \ J : verdict'[j] = verdict[j]
    BY <1>2 DEF Laboratory!Conclude
  <2>3. ASSUME NEW r \in Run, outcome[r] \in {"passed", "failed"} PROVE outcome'[r] = outcome[r]
    <3>1. "pending" \notin VerdictsOf(r, verdict)
      BY <2>3, OutcomeTells DEF OutcomesDeserved
    <3>2. \A j \in Job : RunOf[j] = r => j \notin J
      BY <2>1, <3>1 DEF VerdictsOf
    <3> QED BY <2>1, <2>2, <3>2, SameOutcome DEF OutcomesDeserved
  <2>4. OutcomesDeserved'
    <3>1. \A r \in Run : outcome'[r] = Laboratory!OutcomeOf(r, verdict')
      BY <2>1
    <3>2. outcome' \in [Run -> {"none", "pending", "passed", "failed"}]
      BY <2>1, OutcomeTells
    <3> QED BY <3>1, <3>2 DEF OutcomesDeserved, Laboratory!OutcomeOf
  <2> QED BY <2>3, <2>4
<1>3. ASSUME NEW q \in Run, NEW J \in SUBSET Job, Laboratory!Reserve(q, J)
      PROVE  /\ OutcomesDeserved'
             /\ \A r \in Run : outcome[r] \in {"passed", "failed"} => outcome'[r] = outcome[r]
  <2>1. /\ outcome[q] = "none" /\ J # {} /\ \A j \in J : RunOf[j] = q
        /\ \A j \in Job : verdict'[j] = IF j \in J THEN "pending" ELSE verdict[j]
        /\ outcome' = [outcome EXCEPT ![q] = "pending"]
    BY <1>3 DEF Laboratory!Reserve
  <2>2. ASSUME NEW r \in Run PROVE outcome'[r] = Laboratory!OutcomeOf(r, verdict')
    <3>1. CASE r = q
      <4>1. "pending" \in VerdictsOf(r, verdict')
        BY <2>1, <3>1 DEF VerdictsOf
      <4> QED BY <2>1, <3>1, <4>1, OutcomeTells DEF OutcomesDeserved
    <3>2. CASE r # q
      <4>1. \A j \in Job : RunOf[j] = r => verdict'[j] = verdict[j]
        BY <2>1, <3>2
      <4> QED BY <2>1, <3>2, <4>1, SameOutcome DEF OutcomesDeserved
    <3> QED BY <3>1, <3>2
  <2> QED BY <2>1, <2>2 DEF OutcomesDeserved, Laboratory!OutcomeOf
<1> QED BY <1>1, <1>2, <1>3 DEF Laboratory!LabNext

-----------------------------------------------------------------------------
(* The client. *)

\* What is known where the program stands.
Control ==
  /\ pc \in {"suites", "create", "check", "poll", "sleep", "jobs", "exited"}
  /\ pc # "exited" => exit = None
  /\ exit = EXIT_VALIDATION_FAILED => run # None
  /\ pc = "suites" => call = "none"
  /\ pc \in {"suites", "create"} => run = None
  /\ pc = "create" /\ call = "answered" => mine = {reply} /\ reply \in Run
  /\ pc \in {"check", "poll", "sleep", "jobs"} => run # None /\ wait
  /\ pc = "poll" /\ call = "answered" /\ Over(reply) => outcome[run] = reply
  /\ pc = "jobs" => Over(final) /\ outcome[run] = final

\* At most one POST is sent, and it creates at most one run.
Runs ==
  /\ mine \subseteq Run /\ \A a, b \in mine : a = b
  /\ run # None => mine = {run}
  /\ posted => mine = {}
  /\ pc \in {"suites", "create"} /\ call = "none" => ~posted /\ mine = {}

CiInv == OutcomesDeserved /\ Control /\ Runs /\ ExitCodeTellsTheTruth

LEMMA CiInvInit == Init => CiInv
<1> SUFFICES ASSUME Init PROVE CiInv
  OBVIOUS
<1>1. OutcomesDeserved
  <2>1. \A r \in Run : VerdictsOf(r, verdict) = {}
    BY DEF Init, Laboratory!LabInit, VerdictsOf
  <2> QED BY <2>1, OutcomeTells DEF Init, Laboratory!LabInit, OutcomesDeserved
<1>2. None \notin {0, 1}
  BY NullRun
<1> QED BY <1>1, <1>2 DEF Init, CiInv, Control, Runs, ExitCodeTellsTheTruth, EXIT_PASSED, EXIT_VALIDATION_FAILED

LEMMA CiInvNext == CiInv /\ [Next]_vars => CiInv'
<1> SUFFICES ASSUME CiInv, [Next]_vars PROVE CiInv'
  OBVIOUS
<1> USE NullRun DEF CiInv, Control, Runs, ExitCodeTellsTheTruth, EXIT_PASSED, EXIT_VALIDATION_FAILED, Over
<1>f. ASSUME [Laboratory!LabNext]_labVars
      PROVE  /\ OutcomesDeserved'
             /\ \A r \in Run : outcome[r] \in {"passed", "failed"} => outcome'[r] = outcome[r]
  BY <1>f, OutcomesAreFinal
<1>u. ASSUME UNCHANGED labVars PROVE OutcomesDeserved' /\ outcome' = outcome
  BY <1>f, <1>u DEF labVars
<1>1. CASE UNCHANGED vars
  BY <1>1, <1>u DEF vars, clientVars, labVars
<1>2. CASE LabStep
  <2>1. UNCHANGED clientVars /\ [Laboratory!LabNext]_labVars
    BY <1>2 DEF LabStep
  <2>2. run # None => run \in Run
    OBVIOUS
  <2>3. /\ OutcomesDeserved'
        /\ run # None /\ outcome[run] \in {"passed", "failed"} => outcome'[run] = outcome[run]
    BY <1>f, <2>1, <2>2
  <2> QED BY <2>1, <2>3 DEF clientVars
<1>3. CASE RequestFails
  BY <1>3, <1>u DEF RequestFails, Exit, EXIT_CLIENT_ERROR
<1>4. CASE FindSuite
  BY <1>4, <1>u DEF FindSuite, Goto
<1>5. CASE PostRun
  BY <1>5, <1>u DEF PostRun
<1>6. ASSUME NEW r \in Run, NEW J \in SUBSET Job, ServerCreatesRun(r, J) PROVE CiInv'
  <2>1. [Laboratory!LabNext]_labVars
    BY <1>6 DEF ServerCreatesRun, Laboratory!LabNext
  <2>2. /\ OutcomesDeserved'
        /\ \A q \in Run : outcome[q] \in {"passed", "failed"} => outcome'[q] = outcome[q]
    BY <2>1, <1>f
  <2>3. mine = {} /\ run = None /\ mine' = {r} /\ ~posted' /\ UNCHANGED <<wait, pc, run, final, exit>>
    BY <1>6 DEF ServerCreatesRun
  <2>4. pc = "create" => call' = "answered" /\ reply' = r
    BY <1>6 DEF ServerCreatesRun
  <2>5. pc \in {"create", "exited"} /\ (pc # "create" => UNCHANGED <<call, reply>>)
    BY <1>6 DEF ServerCreatesRun
  <2> QED BY <2>2, <2>3, <2>4, <2>5
<1>7. CASE ServerRefusesRun
  BY <1>7, <1>u DEF ServerRefusesRun
<1>8. CASE RunCreated
  BY <1>8, <1>u DEF RunCreated, Goto
<1>9. CASE DeadlinePasses
  BY <1>9, <1>u DEF DeadlinePasses
<1>10. CASE WaitTimedOut
  BY <1>10, <1>u DEF WaitTimedOut, Exit, EXIT_WAIT_TIMEOUT
<1>11. CASE GetRun
  BY <1>11, <1>u DEF GetRun
<1>12. CASE ServerReportsRun
  BY <1>12, <1>u DEF ServerReportsRun
<1>13. CASE RunReported
  BY <1>13, <1>u DEF RunReported, Goto
<1>14. CASE Sleep
  BY <1>14, <1>u DEF Sleep, Goto
<1>15. CASE ReportJobs
  BY <1>15, <1>u DEF ReportJobs, Exit, Gate
<1> QED BY <1>1, <1>2, <1>3, <1>4, <1>5, <1>6, <1>7, <1>8, <1>9, <1>10, <1>11, <1>12, <1>13, <1>14, <1>15
        DEF Next, ClientStep, ServerStep

LEMMA CiInvAlways == Spec => []CiInv
BY CiInvInit, CiInvNext, PTL DEF Spec

\* When the build acts on exit code 0 or 1, the run still has the outcome that
\* the code stands for, whatever the laboratory did since it was read.
THEOREM ExitCodesAreTrue == Spec => []ExitCodeTellsTheTruth
<1>1. CiInv => ExitCodeTellsTheTruth
  BY DEF CiInv
<1> QED BY <1>1, CiInvAlways, PTL

\* A request that fails, or is handled after the client gave it up, never leads
\* to a second run of the build, or to a gate on another one.
THEOREM NoSecondRun == Spec => []OneRunPerBuild
<1>1. CiInv => OneRunPerBuild
  <2> SUFFICES ASSUME CiInv PROVE OneRunPerBuild
    OBVIOUS
  <2>1. CASE mine = {}
    BY <2>1, FS_EmptySet DEF CiInv, Runs, OneRunPerBuild
  <2>2. CASE mine # {}
    <3>1. PICK r \in mine : mine = {r}
      BY <2>2 DEF CiInv, Runs
    <3>2. Cardinality(mine) = 1
      BY <3>1, FS_Singleton
    <3> QED BY <3>2 DEF CiInv, Runs, OneRunPerBuild
  <2> QED BY <2>1, <2>2
<1> QED BY <1>1, CiInvAlways, PTL

=============================================================================
