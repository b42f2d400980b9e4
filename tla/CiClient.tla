------------------------------ MODULE CiClient ------------------------------
(***************************************************************************)
(* pulsehunter-ci: one build that asks for a run and gates on it, against  *)
(* a server that keeps the promises of Lab (which Dispatch implements).    *)
(* Runs of other clients and the work of the laboratory go on while the    *)
(* client's requests are on their way, fail, or are handled after the      *)
(* client has given them up.                                               *)
(***************************************************************************)
EXTENDS Naturals, FiniteSets

CONSTANTS Run, Job, RunOf, DeviceOf,
  None

\* No run id, and no exit code.
ASSUME NullRun == None \notin Run \cup Nat

VARIABLES
  verdict, outcome,  \* the laboratory
  wait,              \* args.wait
  pc,                \* "suites", "create", "check", "poll", "sleep", "jobs", "exited"
  call,              \* its request: "none", "sent", "answered"
  reply,             \* the run or the run status in the response
  posted,            \* is a POST /runs of this client still to be handled?
  run, final,        \* the run's id, the terminal status it was seen with
  late,              \* is the wait deadline over?
  exit,              \* the exit code, None before
  mine               \* history: the runs this client's requests created

labVars    == <<verdict, outcome>>
clientVars == <<wait, pc, call, reply, posted, run, final, late, exit, mine>>
vars       == <<labVars, clientVars>>

Laboratory == INSTANCE Lab

EXIT_PASSED == 0
EXIT_VALIDATION_FAILED == 1
EXIT_CLIENT_ERROR == 2
EXIT_WAIT_TIMEOUT == 3

Init ==
  /\ Laboratory!LabInit
  /\ wait \in BOOLEAN
  /\ pc = "suites" /\ call = "none" /\ reply = None /\ posted = FALSE
  /\ run = None /\ final = None /\ late = FALSE /\ exit = None /\ mine = {}

-----------------------------------------------------------------------------
Exit(code) ==
  /\ pc' = "exited" /\ exit' = code /\ call' = "none" /\ reply' = None
  /\ UNCHANGED <<wait, posted, run, final, late, mine>>

\* The next step of the program, nothing being under way.
Goto(next) ==
  /\ pc' = next /\ call' = "none" /\ reply' = None
  /\ UNCHANGED <<wait, posted, late, exit, mine>>

\* Variant: a POST that fails is sent again.
RequestFailsOrRepeats ==
  /\ pc \in {"suites", "create", "poll", "jobs"}
  /\ IF pc = "create" THEN Goto("create") /\ UNCHANGED <<run, final>> ELSE Exit(EXIT_CLIENT_ERROR)
  /\ UNCHANGED labVars

\* A request that raises CiClientError (a timeout, no connection, an HTTP
\* error, a body that is not what was asked for) is not repeated.
RequestFails ==
  /\ pc \in {"suites", "create", "poll", "jobs"}
  /\ Exit(EXIT_CLIENT_ERROR)
  /\ UNCHANGED labVars

\* Invalid metadata and an unknown suite slug end the client as above.
FindSuite ==
  /\ pc = "suites"
  /\ Goto("create")
  /\ UNCHANGED <<labVars, run, final>>

PostRun ==
  /\ pc = "create" /\ call = "none"
  /\ call' = "sent" /\ posted' = TRUE
  /\ UNCHANGED <<labVars, wait, pc, reply, run, final, late, exit, mine>>

\* The server handles the POST, with or without the client.
ServerCreatesRun(r, J) ==
  /\ posted
  /\ Laboratory!Reserve(r, J)
  /\ posted' = FALSE /\ mine' = mine \cup {r}
  /\ IF pc = "create" THEN call' = "answered" /\ reply' = r ELSE UNCHANGED <<call, reply>>
  /\ UNCHANGED <<wait, pc, run, final, late, exit>>

\* 404, 409 or 422 (the client then fails), or the request is lost.
ServerRefusesRun ==
  /\ posted
  /\ posted' = FALSE
  /\ UNCHANGED <<labVars, wait, pc, call, reply, run, final, late, exit, mine>>

RunCreated ==
  /\ pc = "create" /\ call = "answered"
  /\ run' = reply
  /\ IF wait
       THEN Goto("check") /\ UNCHANGED final
       ELSE /\ pc' = "exited" /\ exit' = EXIT_PASSED /\ call' = "none" /\ reply' = None
            /\ UNCHANGED <<wait, posted, final, late, mine>>
  /\ UNCHANGED labVars

-----------------------------------------------------------------------------
(* _wait_for_terminal *)

DeadlinePasses ==
  /\ run # None /\ ~late
  /\ late' = TRUE
  /\ UNCHANGED <<labVars, wait, pc, call, reply, posted, run, final, exit, mine>>

WaitTimedOut ==
  /\ pc = "check" /\ late
  /\ Exit(EXIT_WAIT_TIMEOUT)
  /\ UNCHANGED labVars

\* Variant: polling goes on after the deadline.
GetRunAnyway ==
  /\ pc = "check"
  /\ pc' = "poll" /\ call' = "sent"
  /\ UNCHANGED <<labVars, wait, reply, posted, run, final, late, exit, mine>>

GetRun ==
  /\ pc = "check" /\ ~late
  /\ pc' = "poll" /\ call' = "sent"
  /\ UNCHANGED <<labVars, wait, reply, posted, run, final, late, exit, mine>>

ServerReportsRun ==
  /\ pc = "poll" /\ call = "sent"
  /\ call' = "answered" /\ reply' = outcome[run]
  /\ UNCHANGED <<labVars, wait, pc, posted, run, final, late, exit, mine>>

\* Variant: a run that is queued is taken for one that is over.
OverUnlessRunning(s) == s # "running"

Over(s) == s \in {"passed", "failed"}

RunReported ==
  /\ pc = "poll" /\ call = "answered"
  /\ IF Over(reply) THEN final' = reply /\ Goto("jobs") ELSE UNCHANGED final /\ Goto("sleep")
  /\ UNCHANGED <<labVars, run>>

Sleep ==
  /\ pc = "sleep"
  /\ Goto("check")
  /\ UNCHANGED <<labVars, run, final>>

Gate(s) == IF s = "passed" THEN EXIT_PASSED ELSE EXIT_VALIDATION_FAILED

\* The summary, and the exit code of the build.
ReportJobs ==
  /\ pc = "jobs"
  /\ Exit(Gate(final))
  /\ UNCHANGED labVars

-----------------------------------------------------------------------------
\* The laboratory goes on, and other clients create runs.
LabStep == Laboratory!LabNext /\ UNCHANGED clientVars

ClientStep ==
  \/ FindSuite \/ PostRun \/ RequestFails \/ RunCreated
  \/ WaitTimedOut \/ GetRun \/ RunReported \/ Sleep \/ ReportJobs

ServerStep ==
  \/ \E r \in Run, J \in SUBSET Job : ServerCreatesRun(r, J)
  \/ ServerRefusesRun \/ ServerReportsRun

Next == LabStep \/ ClientStep \/ ServerStep \/ DeadlinePasses

Spec == Init /\ [][Next]_vars

\* The client runs, its HTTP timeout ends every request, its clock advances.
\* Nothing is assumed of the server.
FairSpec == Spec /\ WF_vars(ClientStep) /\ WF_vars(DeadlinePasses)

-----------------------------------------------------------------------------
(* Properties. *)

\* README, CI integration: with --wait, exit 0 means that the run has passed
\* and 1 that it has failed, also by the time the build acts on it; without
\* --wait, 0 means that the run was accepted.
ExitCodeTellsTheTruth ==
  /\ exit = EXIT_PASSED => run # None /\ (wait => outcome[run] = "passed")
  /\ exit = EXIT_VALIDATION_FAILED => outcome[run] = "failed"

\* A build never reserves devices twice: whatever fails, at most one run is
\* created in its name, and it is the run the build gates on.
OneRunPerBuild ==
  /\ Cardinality(mine) <= 1
  /\ run # None => mine = {run}

\* The build is never blocked, by a run that does not end or a silent server.
BuildEnds == <>(pc = "exited")

=============================================================================
