---------------------------- MODULE AgentEngine -----------------------------
(***************************************************************************)
(* Device agents (AgentEngine and HostEngine) and the HTTP calls workers   *)
(* make to them.  The control plane is reduced to what Attempts says of it *)
(* and Dispatch implements: attempts of a job start one after the other,   *)
(* but the call of an attempt that timed out, or whose worker was given    *)
(* up, may still be on its way when the next one is sent.                  *)
(*                                                                         *)
(* A call is one POST /v1/jobs/{id}/execute.  The agent's asyncio lock is  *)
(* held over no await, so admission is one step.  A response is reduced to *)
(* its class: a validation result, a retryable error (503, a broken        *)
(* connection), or a rejection (409 and 500).                              *)
(***************************************************************************)
EXTENDS Naturals, Sequences

CONSTANTS
  Job, MaxAttempts,
  Call,          \* bound: calls under way at the same time
  Script,        \* scripted_outcomes; <<"pass">> unless the mode is unreliable
  Definition,    \* versions of the suite's definition
  HostSuite,     \* HOST_SUITE_DEFINITION: those a host accepts
  MaxRestarts,   \* bound: restarts of the agent process
  None           \* no call, no request, no cached execution

ASSUME AgentConstants ==
  /\ HostSuite \subseteq Definition
  /\ None \notin Definition \cup Call
  /\ None \notin [job : Job, definition : Definition]  \* no request
  /\ MaxAttempts \in Nat \ {0} /\ MaxRestarts \in Nat

ASSUME ScriptedOutcomes ==
  Script \in Seq({"pass", "fail", "transient", "disconnect"}) /\ Script # <<>>

VARIABLES
  kind,           \* "simulator" or "host": which engine the agent runs
  verdict, tries, \* of each job, as in Attempts
  current,        \* the call of the job's attempt under way, or None
  definition,     \* test_suites.definition
  phase,          \* a call: "free", "sent", "attached" to a task, "replied"
  request,        \* its job and definition
  waiting,        \* is its worker still waiting for the response?
  answer,         \* the class of the response
  cached,         \* _executions[j].request_fingerprint
  task,           \* _executions[j].task
  drawn,          \* _attempts[j]: outcomes taken from the script
  starts,         \* history: executions of j that this process has begun
  restarts,       \* history: how often the process was restarted
  performed       \* history: what the executions of a job found, on what definition

jobVars   == <<verdict, tries, current, definition>>
callVars  == <<phase, request, waiting, answer>>
agentVars == <<kind, cached, task, drawn, starts, restarts>>
vars      == <<jobVars, callVars, agentVars, performed>>

Answers == {"passed", "failed", "retryable", "rejected"}

Init ==
  /\ kind \in {"simulator", "host"}
  /\ verdict = [j \in Job |-> "none"]
  /\ tries = [j \in Job |-> 0]
  /\ current = [j \in Job |-> None]
  /\ definition \in Definition
  /\ phase = [c \in Call |-> "free"]
  /\ request = [c \in Call |-> None]
  /\ waiting = [c \in Call |-> FALSE]
  /\ answer = [c \in Call |-> None]
  /\ cached = [j \in Job |-> None]
  /\ task = [j \in Job |-> "none"]
  /\ drawn = [j \in Job |-> 0]
  /\ starts = [j \in Job |-> 0]
  /\ restarts = 0
  /\ performed = {}

-----------------------------------------------------------------------------
(* The control plane: runs, claims and leases. *)

Submit(j) ==
  /\ verdict[j] = "none"
  /\ verdict' = [verdict EXCEPT ![j] = "pending"]
  /\ UNCHANGED <<tries, current, definition, callVars, agentVars, performed>>

\* Seeding by another release of the program.
Reseed ==
  /\ definition' \in Definition
  /\ UNCHANGED <<verdict, tries, current, callVars, agentVars, performed>>

\* A claim, with the definition as it is now, and the call it leads to.
Attempt(c, j) ==
  /\ phase[c] = "free" /\ \A k \in Job : current[k] # c
  /\ verdict[j] = "pending" /\ current[j] = None /\ tries[j] < MaxAttempts
  /\ tries' = [tries EXCEPT ![j] = @ + 1]
  /\ current' = [current EXCEPT ![j] = c]
  /\ phase' = [phase EXCEPT ![c] = "sent"]
  /\ request' = [request EXCEPT ![c] = [job |-> j, definition |-> definition]]
  /\ waiting' = [waiting EXCEPT ![c] = TRUE]
  /\ UNCHANGED <<verdict, definition, answer, agentVars, performed>>

\* Variant: the outcome of a superseded attempt is recorded.
RecordAlways(c, v) ==
  LET j == request[c].job IN
  /\ verdict' = [verdict EXCEPT ![j] = v]
  /\ current' = [current EXCEPT ![j] = None]
  /\ UNCHANGED <<tries, definition>>

\* The outcome v of call c is recorded unless its attempt is no longer the
\* current one of the job.
Record(c, v) ==
  LET j == request[c].job IN
  /\ IF current[j] = c
       THEN /\ verdict' = [verdict EXCEPT ![j] = v]
            /\ current' = [current EXCEPT ![j] = None]
       ELSE UNCHANGED <<verdict, current>>
  /\ UNCHANGED <<tries, definition>>

\* The verdict after a retryable failure of an attempt at job j.
AfterFailure(j, exhausted) == IF tries[j] >= MaxAttempts THEN exhausted ELSE "pending"

\* The HTTP timeout: the request, its handler and its task go on without the
\* worker.
GiveUp(c) ==
  /\ waiting[c]
  /\ Record(c, AfterFailure(request[c].job, "timed_out"))
  /\ waiting' = [waiting EXCEPT ![c] = FALSE]
  /\ UNCHANGED <<phase, request, answer, agentVars, performed>>

\* A refused or broken connection, whether or not the request has arrived.
ConnectionFails(c) ==
  /\ waiting[c]
  /\ Record(c, AfterFailure(request[c].job, "failed"))
  /\ waiting' = [waiting EXCEPT ![c] = FALSE]
  /\ UNCHANGED <<phase, request, answer, agentVars, performed>>

\* The worker dies in the call: nothing is recorded.
WorkerLost(c) ==
  /\ waiting[c]
  /\ waiting' = [waiting EXCEPT ![c] = FALSE]
  /\ UNCHANGED <<jobVars, phase, request, answer, agentVars, performed>>

\* The reconciler ends an attempt whose lease expired, dead worker or not.
LeaseExpires(j) ==
  /\ current[j] # None
  /\ current' = [current EXCEPT ![j] = None]
  /\ verdict' = [verdict EXCEPT ![j] = AfterFailure(j, "failed")]
  /\ UNCHANGED <<tries, definition, callVars, agentVars, performed>>

\* A call is over: nothing of it is left at the agent or in the network.
Forget(c) ==
  /\ phase' = [phase EXCEPT ![c] = "free"]
  /\ request' = [request EXCEPT ![c] = None]
  /\ answer' = [answer EXCEPT ![c] = None]
  /\ waiting' = [waiting EXCEPT ![c] = FALSE]

\* Only with nobody waiting: a lost request shows as a timeout first.
LoseRequest(c) ==
  /\ phase[c] = "sent" /\ ~waiting[c]
  /\ Forget(c)
  /\ UNCHANGED <<jobVars, agentVars, performed>>

\* HttpDeviceClient.execute classifies the response, JobExecutor.execute acts.
Receive(c) ==
  /\ phase[c] = "replied"
  /\ IF waiting[c]
       THEN Record(c, CASE answer[c] = "rejected"  -> "failed"
                        [] answer[c] = "retryable" -> AfterFailure(request[c].job, "failed")
                        [] OTHER                   -> answer[c])
       ELSE UNCHANGED jobVars
  /\ Forget(c)
  /\ UNCHANGED <<agentVars, performed>>

-----------------------------------------------------------------------------
(* The agent: admission, execution, response. *)

Reply(c, a) ==
  /\ phase' = [phase EXCEPT ![c] = "replied"]
  /\ answer' = [answer EXCEPT ![c] = a]
  /\ UNCHANGED <<request, waiting>>

Attach(c) ==
  /\ phase' = [phase EXCEPT ![c] = "attached"]
  /\ UNCHANGED <<request, waiting, answer>>

\* Variant: a result is remembered, an execution under way is not.
HasResult(j) == task[j] \notin {"none", "running"}

HasExecution(j) == cached[j] # None

\* Variant: the job id alone identifies a request.
SameJobId(c) == TRUE

SameRequest(c) == cached[request[c].job] = request[c].definition

\* The outcome the script has for the next, or for the accepted, request.
ScriptAt(n) == Script[IF n < Len(Script) THEN n + 1 ELSE Len(Script)]

Supported == IF kind = "host" THEN HostSuite ELSE Definition

\* A suite the host does not know.
RefuseSuite(c) ==
  /\ phase[c] = "sent" /\ request[c].definition \notin Supported
  /\ Reply(c, "rejected")
  /\ UNCHANGED <<jobVars, agentVars, performed>>

\* A job id this process has an execution for: the request joins it, or is
\* rejected if it is another one.
JoinExecution(c) ==
  /\ phase[c] = "sent" /\ request[c].definition \in Supported
  /\ HasExecution(request[c].job)
  /\ IF SameRequest(c) THEN Attach(c) ELSE Reply(c, "rejected")
  /\ UNCHANGED <<jobVars, agentVars, performed>>

NewRequest(c) ==
  /\ phase[c] = "sent" /\ request[c].definition \in Supported
  /\ ~HasExecution(request[c].job)

StartExecution(c) ==
  LET j == request[c].job IN
  /\ cached' = [cached EXCEPT ![j] = request[c].definition]
  /\ task' = [task EXCEPT ![j] = "running"]
  /\ starts' = [starts EXCEPT ![j] = @ + 1]
  /\ Attach(c)
  /\ UNCHANGED <<kind, jobVars, restarts, performed>>

\* AgentEngine: a scripted failure is answered with 503 and caches nothing.
\* A script that has ended goes on with its last outcome.
AdmitSimulated(c) ==
  LET j == request[c].job IN
  /\ kind = "simulator" /\ NewRequest(c)
  /\ drawn' = [drawn EXCEPT ![j] = IF @ < Len(Script) THEN @ + 1 ELSE @]
  /\ IF ScriptAt(drawn[j]) \in {"transient", "disconnect"}
       THEN /\ Reply(c, "retryable")
            /\ UNCHANGED <<kind, jobVars, cached, task, starts, restarts, performed>>
       ELSE StartExecution(c)

\* HostEngine: the deadline set by the worker's clock is judged by the host's.
AdmitOnHost(c) ==
  /\ kind = "host" /\ NewRequest(c)
  /\ UNCHANGED drawn
  /\ \/ /\ Reply(c, "rejected")
        /\ UNCHANGED <<kind, jobVars, cached, task, starts, restarts, performed>>
     \/ StartExecution(c)

\* What _run can end with.  A host's unforeseen exception stays in the task.
RunEnds(j) ==
  IF kind = "host" THEN {"passed", "failed", "crashed"}
  ELSE IF ScriptAt(drawn[j] - 1) = "fail" THEN {"failed"} ELSE {"passed"}

FinishExecution(j) ==
  /\ task[j] = "running"
  /\ \E e \in RunEnds(j) :
       /\ task' = [task EXCEPT ![j] = e]
       /\ performed' = performed \cup {[job |-> j, definition |-> cached[j], found |-> e]}
  /\ UNCHANGED <<kind, jobVars, callVars, cached, drawn, starts, restarts>>

Respond(c) ==
  LET e == task[request[c].job] IN
  /\ phase[c] = "attached" /\ e # "running"
  /\ Reply(c, IF e = "crashed" THEN "rejected" ELSE e)
  /\ UNCHANGED <<jobVars, agentVars, performed>>

\* Variant: without asyncio.shield, cancelling a handler cancels the task.
CancelWithTask(c) ==
  /\ phase[c] = "attached" /\ ~waiting[c]
  /\ Forget(c)
  /\ task' = [task EXCEPT ![request[c].job] = IF @ = "running" THEN "cancelled" ELSE @]
  /\ UNCHANGED <<kind, jobVars, cached, drawn, starts, restarts, performed>>

\* A handler whose client has gone may be cancelled, its task is shielded.
CancelHandler(c) ==
  /\ phase[c] = "attached" /\ ~waiting[c]
  /\ Forget(c)
  /\ UNCHANGED <<jobVars, agentVars, performed>>

\* The process restarts: executions and cache are lost, connections break.
Restart ==
  /\ restarts < MaxRestarts
  /\ restarts' = restarts + 1
  /\ cached' = [j \in Job |-> None]
  /\ task' = [j \in Job |-> "none"]
  /\ drawn' = [j \in Job |-> 0]
  /\ starts' = [j \in Job |-> 0]
  /\ phase' = [c \in Call |-> IF phase[c] = "attached" THEN "replied" ELSE phase[c]]
  /\ answer' = [c \in Call |-> IF phase[c] = "attached" THEN "retryable" ELSE answer[c]]
  /\ UNCHANGED <<kind, jobVars, request, waiting, performed>>

-----------------------------------------------------------------------------
CallStep(c) ==
  \/ \E j \in Job : Attempt(c, j)
  \/ GiveUp(c) \/ ConnectionFails(c) \/ WorkerLost(c) \/ LoseRequest(c) \/ Receive(c)

AgentStep(c) ==
  \/ RefuseSuite(c) \/ JoinExecution(c) \/ AdmitSimulated(c) \/ AdmitOnHost(c)
  \/ Respond(c) \/ CancelHandler(c)

Next ==
  \/ Reseed \/ Restart
  \/ \E j \in Job : Submit(j) \/ LeaseExpires(j) \/ FinishExecution(j)
  \/ \E c \in Call : CallStep(c) \/ AgentStep(c)

Spec == Init /\ [][Next]_vars

\* The event loop serves every request and runs every task to its end.
FairSpec ==
  /\ Spec
  /\ \A c \in Call : WF_vars(AgentStep(c))
  /\ \A j \in Job : WF_vars(FinishExecution(j))

-----------------------------------------------------------------------------
(* Safety. *)

\* Every variable holds what the code can put there; a call has a request as long
\* as it lasts, and the agent has a task of exactly the jobs it remembers.
TypeOK ==
  /\ kind \in {"simulator", "host"}
  /\ verdict \in [Job -> {"none", "pending", "passed", "failed", "timed_out"}]
  /\ tries \in [Job -> 0..MaxAttempts]
  /\ current \in [Job -> Call \cup {None}]
  /\ definition \in Definition
  /\ phase \in [Call -> {"free", "sent", "attached", "replied"}]
  /\ request \in [Call -> [job : Job, definition : Definition] \cup {None}]
  /\ waiting \in [Call -> BOOLEAN]
  /\ answer \in [Call -> Answers \cup {None}]
  /\ cached \in [Job -> Supported \cup {None}]
  /\ task \in [Job -> {"none", "running", "passed", "failed", "crashed"}]
  /\ drawn \in [Job -> 0..Len(Script)]
  /\ starts \in [Job -> Nat] /\ restarts \in 0..MaxRestarts
  /\ performed \subseteq [job : Job, definition : Definition, found : {"passed", "failed", "crashed"}]
  /\ \A c \in Call : phase[c] = "free" <=> request[c] = None
  /\ \A j \in Job : task[j] = "none" <=> cached[j] = None

\* Timeouts, retries, redeliveries and overlapping calls never make one agent
\* process execute a job a second time.
OncePerProcess == \A j \in Job : starts[j] <= 1

\* A run is reported as passed only if the device executed the job with the
\* very definition that the deciding attempt asked for, and it passed: no late
\* response, no cached result of another definition, no lost execution.
PassesAreEarned ==
  [][\A j \in Job : verdict[j] # "passed" /\ verdict'[j] = "passed"
       => /\ current[j] # None
          /\ [job |-> j, definition |-> request[current[j]].definition, found |-> "passed"]
               \in performed]_vars

\* An accepted execution goes on to its end even if every worker that asked for
\* it has timed out: only the end of the process stops it.
AcceptedExecutionsFinish ==
  \A j \in Job, n \in 0..MaxRestarts :
    task[j] = "running" /\ restarts = n
      ~> restarts # n \/ task[j] \in {"passed", "failed", "crashed"}

Books == INSTANCE Attempts WITH underway <- [j \in Job |-> current[j] # None]

\* What the worker makes of responses, timeouts and lost calls is the
\* bookkeeping that Dispatch implements, too.
ActsOnAttempts == Books!AttemptsSpec
=============================================================================
