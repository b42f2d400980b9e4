------------------------- MODULE AgentEngineProofs --------------------------
(***************************************************************************)
(* Idempotency of the agents for every number of jobs, calls, restarts and *)
(* definitions, and every script; and the books that the outcomes of their *)
(* calls are written to.                                                   *)
(***************************************************************************)
EXTENDS AgentEngine, TLAPS

Requests == [job : Job, definition : Definition]

Types ==
  /\ verdict \in [Job -> {"none", "pending", "passed", "failed", "timed_out"}]
  /\ current \in [Job -> Call \cup {None}]
  /\ definition \in Definition
  /\ phase \in [Call -> {"free", "sent", "attached", "replied"}]
  /\ request \in [Call -> Requests \cup {None}]
  /\ waiting \in [Call -> BOOLEAN]
  /\ answer \in [Call -> Answers \cup {None}]
  /\ cached \in [Job -> Definition \cup {None}]
  /\ task \in [Job -> {"none", "running", "passed", "failed", "crashed"}]
  /\ starts \in [Job -> {0, 1}]

\* A call has a request from its start to its end, and its answer with it.
CallsHaveRequests ==
  \A c \in Call : /\ phase[c] # "free" => request[c] \in Requests
                  /\ phase[c] = "replied" => answer[c] \in Answers
                  /\ waiting[c] => phase[c] # "free"

\* The process has begun exactly the executions that it remembers.
BegunIsRemembered ==
  \A j \in Job : /\ starts[j] = IF cached[j] = None THEN 0 ELSE 1
                 /\ task[j] = "none" <=> cached[j] = None

\* A call waits for an execution of what it asked for.
AttachedToOwn ==
  \A c \in Call : phase[c] = "attached" => cached[request[c].job] = request[c].definition

Evidence(j, d) == [job |-> j, definition |-> d, found |-> "passed"] \in performed

\* A result that is remembered, or on its way, was found by an execution.
ResultsAreFound ==
  /\ \A j \in Job : task[j] = "passed" => Evidence(j, cached[j])
  /\ \A c \in Call : phase[c] = "replied" /\ answer[c] = "passed"
                       => Evidence(request[c].job, request[c].definition)

AgentInv ==
  Types /\ CallsHaveRequests /\ BegunIsRemembered /\ AttachedToOwn /\ ResultsAreFound

LEMMA AgentInvInit ==
  Init => AgentInv
BY AgentConstants
DEF Init, AgentInv, Types, CallsHaveRequests, BegunIsRemembered, AttachedToOwn, ResultsAreFound

\* The steps of the control plane that leave calls and agent alone.
LEMMA ControlPlaneSteps ==
  ASSUME AgentInv, NEW j \in Job, Submit(j) \/ LeaseExpires(j) \/ Reseed
  PROVE  AgentInv'
BY DEF AgentInv, Types, CallsHaveRequests, BegunIsRemembered, AttachedToOwn, ResultsAreFound,
       Evidence, Submit, LeaseExpires, Reseed, AfterFailure, callVars, agentVars

\* An outcome is recorded on the books alone, whatever it is.
LEMMA RecordTypes ==
  ASSUME AgentInv, NEW c \in Call, waiting[c],
         NEW v \in {"pending", "passed", "failed", "timed_out"}, Record(c, v)
  PROVE  /\ verdict' \in [Job -> {"none", "pending", "passed", "failed", "timed_out"}]
         /\ current' \in [Job -> Call \cup {None}]
         /\ definition' \in Definition
BY DEF AgentInv, Types, Record

LEMMA AfterFailureTypes ==
  ASSUME NEW j, NEW v \in {"failed", "timed_out"}
  PROVE  AfterFailure(j, v) \in {"pending", "failed", "timed_out"}
BY DEF AfterFailure

LEMMA CallSteps ==
  ASSUME AgentInv, NEW c \in Call, CallStep(c)
  PROVE  AgentInv'
<1> USE DEF AgentInv
<1>1. CASE \E j \in Job : Attempt(c, j)
  BY <1>1, AgentConstants DEF Attempt, Types, Requests, CallsHaveRequests, BegunIsRemembered,
     AttachedToOwn, ResultsAreFound, Evidence, agentVars
<1>2. CASE GiveUp(c) \/ ConnectionFails(c)
  <2>1. \E v \in {"pending", "failed", "timed_out"} : Record(c, v)
    BY <1>2, AfterFailureTypes DEF GiveUp, ConnectionFails
  <2>2. /\ verdict' \in [Job -> {"none", "pending", "passed", "failed", "timed_out"}]
        /\ current' \in [Job -> Call \cup {None}]
        /\ definition' \in Definition
    <3>1. waiting[c]
      BY <1>2 DEF GiveUp, ConnectionFails
    <3>2. PICK v \in {"pending", "failed", "timed_out"} : Record(c, v)
      BY <2>1
    <3> HIDE DEF AgentInv
    <3> QED BY <3>1, <3>2, RecordTypes
  <2>3. Types'
    BY <1>2, <2>2 DEF GiveUp, ConnectionFails, Types, agentVars
  <2> QED BY <1>2, <2>3 DEF GiveUp, ConnectionFails, Types, CallsHaveRequests,
             BegunIsRemembered, AttachedToOwn, ResultsAreFound, Evidence, agentVars
<1>3. CASE WorkerLost(c)
  BY <1>3 DEF WorkerLost, Types, CallsHaveRequests, BegunIsRemembered, AttachedToOwn,
     ResultsAreFound, Evidence, agentVars, jobVars
<1>4. CASE LoseRequest(c)
  BY <1>4 DEF LoseRequest, Forget, Types, CallsHaveRequests, BegunIsRemembered,
     AttachedToOwn, ResultsAreFound, Evidence, agentVars, jobVars
<1>5. CASE Receive(c)
  <2>1. /\ verdict' \in [Job -> {"none", "pending", "passed", "failed", "timed_out"}]
        /\ current' \in [Job -> Call \cup {None}]
        /\ definition' \in Definition
    <3>1. CASE waiting[c]
      <4>1. answer[c] \in Answers
        BY <1>5 DEF Receive, CallsHaveRequests
      <4>2. \E v \in {"pending", "passed", "failed", "timed_out"} : Record(c, v)
        BY <1>5, <3>1, <4>1, AfterFailureTypes DEF Receive, Answers
      <4> QED BY <3>1, <4>2, RecordTypes
    <3>2. CASE ~waiting[c]
      BY <1>5, <3>2 DEF Receive, jobVars, Types
    <3> QED BY <3>1, <3>2
  <2> QED BY <1>5, <2>1 DEF Receive, Forget, Types, CallsHaveRequests, BegunIsRemembered,
             AttachedToOwn, ResultsAreFound, Evidence, agentVars
<1> QED BY <1>1, <1>2, <1>3, <1>4, <1>5 DEF CallStep

LEMMA StartPreserves ==
  ASSUME AgentInv, NEW c \in Call, NewRequest(c), StartExecution(c)
  PROVE  AgentInv'
<1>1. /\ request[c] \in Requests /\ request[c].job \in Job
      /\ request[c].definition \in Definition /\ cached[request[c].job] = None
  BY DEF AgentInv, CallsHaveRequests, NewRequest, HasExecution, Requests
<1>2. Types'
  BY <1>1 DEF AgentInv, Types, BegunIsRemembered, StartExecution, Attach, jobVars
<1>3. CallsHaveRequests'
  BY <1>1 DEF AgentInv, Types, CallsHaveRequests, StartExecution, Attach
<1>4. BegunIsRemembered'
  BY <1>1, AgentConstants DEF AgentInv, Types, BegunIsRemembered, StartExecution
<1>5. AttachedToOwn'
  <2> SUFFICES ASSUME NEW e \in Call, phase'[e] = "attached"
               PROVE  cached'[request[e].job] = request[e].definition
    BY DEF AttachedToOwn, StartExecution, Attach
  <2>1. CASE e = c
    BY <1>1, <2>1 DEF AgentInv, Types, StartExecution
  <2>2. CASE e # c
    <3>1. /\ phase[e] = "attached" /\ request[e] \in Requests
          /\ cached[request[e].job] = request[e].definition
      BY <2>2 DEF AgentInv, Types, CallsHaveRequests, AttachedToOwn, StartExecution, Attach
    <3>2. request[e].job # request[c].job
      BY <1>1, <3>1, AgentConstants DEF Requests
    <3> QED BY <3>1, <3>2 DEF AgentInv, Types, StartExecution
  <2> QED BY <2>1, <2>2
<1>6. ResultsAreFound'
  BY <1>1 DEF AgentInv, Types, ResultsAreFound, Evidence, StartExecution, Attach
<1> QED BY <1>2, <1>3, <1>4, <1>5, <1>6 DEF AgentInv

\* A request that is answered at once, with anything but a passing result.
LEMMA ReplyPreserves ==
  ASSUME AgentInv, NEW c \in Call, phase[c] # "free",
         NEW a \in {"retryable", "rejected"}, Reply(c, a),
         UNCHANGED <<jobVars, cached, task, starts, restarts, performed>>
  PROVE  AgentInv'
BY DEF AgentInv, Types, CallsHaveRequests, BegunIsRemembered, AttachedToOwn,
   ResultsAreFound, Evidence, Reply, Answers, jobVars

LEMMA AgentSteps ==
  ASSUME AgentInv, NEW c \in Call, AgentStep(c)
  PROVE  AgentInv'
<1>1. CASE RefuseSuite(c)
  BY <1>1, ReplyPreserves DEF RefuseSuite, agentVars
<1>2. CASE JoinExecution(c)
  <2>1. CASE SameRequest(c)
    BY <1>2, <2>1 DEF JoinExecution, SameRequest, Attach, AgentInv, Types,
       CallsHaveRequests, BegunIsRemembered, AttachedToOwn, ResultsAreFound, Evidence,
       jobVars, agentVars
  <2>2. CASE ~SameRequest(c)
    BY <1>2, <2>2, ReplyPreserves DEF JoinExecution, agentVars
  <2> QED BY <2>1, <2>2
<1>3. CASE AdmitSimulated(c)
  BY <1>3, StartPreserves, ReplyPreserves DEF AdmitSimulated, NewRequest
<1>4. CASE AdmitOnHost(c)
  BY <1>4, StartPreserves, ReplyPreserves DEF AdmitOnHost, NewRequest
<1>5. CASE Respond(c)
  <2> DEFINE e == task[request[c].job]
  <2>1. /\ phase[c] = "attached" /\ request[c] \in Requests
        /\ cached[request[c].job] = request[c].definition /\ request[c].job \in Job
        /\ request[c].definition \in Definition
    BY <1>5 DEF Respond, AgentInv, CallsHaveRequests, AttachedToOwn, Requests
  <2>2. e \in {"passed", "failed", "crashed"}
    BY <1>5, <2>1, AgentConstants DEF Respond, AgentInv, Types, BegunIsRemembered
  <2>3. CASE e = "passed"
    <3>1. Evidence(request[c].job, request[c].definition)
      BY <2>1, <2>3 DEF AgentInv, ResultsAreFound
    <3> QED BY <1>5, <2>3, <3>1, <2>1 DEF Respond, Reply, AgentInv, Types,
               CallsHaveRequests, BegunIsRemembered, AttachedToOwn, ResultsAreFound,
               Evidence, Answers, jobVars, agentVars
  <2>4. CASE e # "passed"
    BY <1>5, <2>1, <2>2, <2>4 DEF Respond, Reply, AgentInv, Types, CallsHaveRequests,
       BegunIsRemembered, AttachedToOwn, ResultsAreFound, Evidence, Answers, jobVars,
       agentVars
  <2> QED BY <2>3, <2>4
<1>6. CASE CancelHandler(c)
  BY <1>6 DEF CancelHandler, Forget, AgentInv, Types, CallsHaveRequests,
     BegunIsRemembered, AttachedToOwn, ResultsAreFound, Evidence, jobVars, agentVars
<1> QED BY <1>1, <1>2, <1>3, <1>4, <1>5, <1>6 DEF AgentStep

LEMMA FinishPreserves ==
  ASSUME AgentInv, NEW j \in Job, FinishExecution(j)
  PROVE  AgentInv'
<1>1. PICK e \in RunEnds(j) :
        /\ task' = [task EXCEPT ![j] = e]
        /\ performed' = performed \cup {[job |-> j, definition |-> cached[j], found |-> e]}
  BY DEF FinishExecution
<1>2. e \in {"passed", "failed", "crashed"}
  BY DEF RunEnds
<1> QED BY <1>1, <1>2 DEF FinishExecution, AgentInv, Types, CallsHaveRequests,
           BegunIsRemembered, AttachedToOwn, ResultsAreFound, Evidence, jobVars, callVars

LEMMA RestartPreserves ==
  ASSUME AgentInv, Restart
  PROVE  AgentInv'
BY DEF Restart, AgentInv, Types, CallsHaveRequests, BegunIsRemembered, AttachedToOwn,
   ResultsAreFound, Evidence, Answers, jobVars

LEMMA AgentInvNext ==
  ASSUME AgentInv, [Next]_vars
  PROVE  AgentInv'
<1>1. CASE UNCHANGED vars
  BY <1>1 DEF vars, jobVars, callVars, agentVars, AgentInv, Types, CallsHaveRequests,
     BegunIsRemembered, AttachedToOwn, ResultsAreFound, Evidence
<1>2. CASE Reseed
  BY <1>2 DEF Reseed, callVars, agentVars, AgentInv, Types, CallsHaveRequests,
     BegunIsRemembered, AttachedToOwn, ResultsAreFound, Evidence
<1> QED BY <1>1, <1>2, ControlPlaneSteps, CallSteps, AgentSteps, FinishPreserves,
           RestartPreserves DEF Next

LEMMA AgentInductive == Spec => []AgentInv
BY AgentInvInit, AgentInvNext, PTL DEF Spec

\* README, "the agent execution endpoint is idempotent by job UUID within one
\* agent process", whatever calls overlap, time out, break or are repeated.
THEOREM ExecutedOncePerProcess == Spec => []OncePerProcess
<1>1. AgentInv => OncePerProcess
  BY DEF AgentInv, Types, OncePerProcess
<1> QED BY <1>1, AgentInductive, PTL

\* No verdict "passed" without a passing execution of what the deciding
\* attempt asked for.
THEOREM PassesAreFound == Spec => PassesAreEarned
<1> DEFINE Earned == \A j \in Job : verdict[j] # "passed" /\ verdict'[j] = "passed"
              => current[j] # None /\ Evidence(j, request[current[j]].definition)
<1>1. ASSUME AgentInv, Next PROVE Earned
  <2> SUFFICES ASSUME NEW j \in Job, verdict[j] # "passed", verdict'[j] = "passed"
               PROVE  current[j] # None /\ Evidence(j, request[current[j]].definition)
    OBVIOUS
  <2>1. PICK c \in Call : Receive(c)
    BY <1>1
    DEF Next, CallStep, AgentStep, Submit, LeaseExpires, FinishExecution, Reseed, Restart,
        Attempt, GiveUp, ConnectionFails, WorkerLost, LoseRequest, Record, AfterFailure,
        RefuseSuite, JoinExecution, AdmitSimulated, AdmitOnHost, StartExecution, Respond,
        CancelHandler, jobVars, AgentInv, Types
  <2>2. /\ waiting[c] /\ current[request[c].job] = c /\ request[c].job = j
        /\ answer[c] = "passed" /\ phase[c] = "replied"
    BY <1>1, <2>1 DEF Receive, Record, AfterFailure, jobVars, AgentInv, Types,
       CallsHaveRequests, Requests, Answers
  <2> QED BY <1>1, <2>2, AgentConstants DEF AgentInv, ResultsAreFound
<1>2. AgentInv /\ [Next]_vars
        => [\A j \in Job : verdict[j] # "passed" /\ verdict'[j] = "passed"
              => /\ current[j] # None
                 /\ [job |-> j, definition |-> request[current[j]].definition,
                     found |-> "passed"] \in performed]_vars
  BY <1>1 DEF Evidence
<1> QED BY <1>2, AgentInductive, PTL DEF Spec, PassesAreEarned

-----------------------------------------------------------------------------
(* The remaining types, and the books. *)

Executions == [job : Job, definition : Definition, found : {"passed", "failed", "crashed"}]

\* What the code can put into the variables that AgentInv says less about.
Ranges ==
  /\ kind \in {"simulator", "host"}
  /\ tries \in [Job -> 0..MaxAttempts]
  /\ cached \in [Job -> Supported \cup {None}]
  /\ drawn \in [Job -> 0..Len(Script)]
  /\ restarts \in 0..MaxRestarts
  /\ performed \subseteq Executions
  /\ \A c \in Call : phase[c] = "free" => request[c] = None

LEMMA RangesInit == Init => Ranges
<1>1. Len(Script) \in Nat
  BY ScriptedOutcomes
<1> QED BY <1>1, AgentConstants DEF Init, Ranges

LEMMA RangesCallSteps ==
  ASSUME AgentInv, Ranges, NEW c \in Call, CallStep(c)
  PROVE  Ranges'
<1> USE DEF Ranges, agentVars, Supported
<1>1. CASE \E j \in Job : Attempt(c, j)
  BY <1>1, AgentConstants DEF Attempt, AgentInv, Types
<1>2. CASE GiveUp(c) \/ ConnectionFails(c) \/ WorkerLost(c)
  BY <1>2 DEF GiveUp, ConnectionFails, WorkerLost, Record, jobVars
<1>3. CASE LoseRequest(c) \/ Receive(c)
  BY <1>3 DEF LoseRequest, Receive, Forget, Record, jobVars, AgentInv, Types
<1> QED BY <1>1, <1>2, <1>3 DEF CallStep

LEMMA RangesAgentSteps ==
  ASSUME AgentInv, Ranges, NEW c \in Call, AgentStep(c)
  PROVE  Ranges'
<1> USE DEF Ranges, agentVars, jobVars, AgentInv, Types
<1>1. CASE RefuseSuite(c) \/ JoinExecution(c) \/ Respond(c)
  BY <1>1 DEF RefuseSuite, JoinExecution, Respond, Reply, Attach, Supported
<1>2. CASE CancelHandler(c)
  BY <1>2 DEF CancelHandler, Forget, Supported
<1>3. ASSUME NewRequest(c), StartExecution(c), drawn' \in [Job -> 0..Len(Script)]
      PROVE  Ranges'
  <2>1. request[c].job \in Job /\ request[c].definition \in Supported
    BY <1>3 DEF NewRequest, CallsHaveRequests, Requests
  <2> QED BY <1>3, <2>1 DEF StartExecution, Attach, Supported, NewRequest
<1>4. CASE AdmitSimulated(c)
  <2>1. drawn' \in [Job -> 0..Len(Script)]
    <3>1. Len(Script) \in Nat
      BY ScriptedOutcomes
    <3>2. PICK j \in Job : drawn' = [drawn EXCEPT ![j] = IF @ < Len(Script) THEN @ + 1 ELSE @]
      BY <1>4 DEF AdmitSimulated, NewRequest, CallsHaveRequests, Requests
    <3> QED BY <3>1, <3>2
  <2> QED BY <1>3, <1>4, <2>1 DEF AdmitSimulated, Reply, Supported
<1>5. CASE AdmitOnHost(c)
  BY <1>3, <1>5 DEF AdmitOnHost, Reply, Supported
<1> QED BY <1>1, <1>2, <1>4, <1>5 DEF AgentStep

LEMMA RangesNext == AgentInv /\ Ranges /\ [Next]_vars => Ranges'
<1>1. ASSUME Ranges, Reseed \/ UNCHANGED vars \/ \E j \in Job : Submit(j) \/ LeaseExpires(j)
      PROVE  Ranges'
  BY <1>1 DEF Ranges, Reseed, Submit, LeaseExpires, Supported, vars, callVars, agentVars, jobVars
<1>2. ASSUME AgentInv, Ranges, NEW j \in Job, FinishExecution(j) PROVE Ranges'
  <2>1. PICK e \in RunEnds(j) :
          performed' = performed \cup {[job |-> j, definition |-> cached[j], found |-> e]}
    BY <1>2 DEF FinishExecution
  <2>2. e \in {"passed", "failed", "crashed"}
    BY DEF RunEnds
  <2>3. cached[j] \in Definition
    BY <1>2 DEF FinishExecution, AgentInv, Types, BegunIsRemembered
  <2> QED BY <1>2, <2>1, <2>2, <2>3 DEF FinishExecution, Ranges, Executions, Supported, jobVars, callVars
<1>3. ASSUME Ranges, Restart PROVE Ranges'
  <2>1. Len(Script) \in Nat
    BY ScriptedOutcomes
  <2> QED BY <1>3, <2>1, AgentConstants DEF Restart, Ranges, Supported, jobVars
<1> QED BY <1>1, <1>2, <1>3, RangesCallSteps, RangesAgentSteps DEF Next

\* The variables hold what the code can put there, for every script and every
\* set of suites: a task of exactly the jobs that the agent remembers, no outcome
\* beyond the script, no request that outlives its call.
THEOREM TypesAreKept == Spec => []TypeOK
<1>1. AgentInv /\ Ranges => TypeOK
  <2> SUFFICES ASSUME AgentInv, Ranges PROVE TypeOK
    OBVIOUS
  <2>1. \A c \in Call : phase[c] = "free" <=> request[c] = None
    BY AgentConstants DEF AgentInv, CallsHaveRequests, Ranges, Requests
  <2>2. starts \in [Job -> Nat]
    BY DEF AgentInv, Types
  <2>3. \A j \in Job : task[j] = "none" <=> cached[j] = None
    BY AgentConstants DEF AgentInv, Types, BegunIsRemembered
  <2> QED BY <2>1, <2>2, <2>3 DEF AgentInv, Types, Ranges, TypeOK, Requests, Executions
<1> QED BY <1>1, AgentInductive, RangesInit, RangesNext, PTL DEF Spec

AttemptsActs == Books!AttemptsNext \/ UNCHANGED Books!attemptVars

\* The outcome of a call ends the attempt it belongs to, or nothing.
LEMMA RecordEndsAttempt ==
  ASSUME AgentInv, Ranges, NEW c \in Call, NEW j \in Job, request[c].job = j,
         NEW v \in Books!Outcomes(j), Record(c, v)
  PROVE  AttemptsActs
<1>1. CASE current[j] # c
  BY <1>1 DEF Record, AttemptsActs, Books!attemptVars
<1>2. CASE current[j] = c
  <2> DEFINE w == [k \in {j} |-> v]
  <2>1. /\ verdict' = [verdict EXCEPT ![j] = v] /\ current' = [current EXCEPT ![j] = None] /\ tries' = tries
    BY <1>2 DEF Record
  <2>2. current[j] # None /\ c # None
    BY <1>2, AgentConstants
  <2>3. /\ w \in [{j} -> Books!FinalVerdicts \cup {"pending"}] /\ \A k \in {j} : w[k] \in Books!Outcomes(k)
    BY DEF Books!FinalVerdicts, Books!Outcomes
  <2>4. verdict' = [k \in Job |-> IF k \in {j} THEN w[k] ELSE verdict[k]]
    BY <2>1 DEF AgentInv, Types
  <2>5. [k \in Job |-> current'[k] # None] = [k \in Job |-> k \notin {j} /\ [i \in Job |-> current[i] # None][k]]
    BY <2>1 DEF AgentInv, Types
  <2>6. Books!EndAttempts({j})
    BY <2>1, <2>2, <2>3, <2>4, <2>5 DEF Books!EndAttempts
  <2>7. {j} \in SUBSET Job
    OBVIOUS
  <2> QED BY <2>6, <2>7 DEF AttemptsActs, Books!AttemptsNext
<1> QED BY <1>1, <1>2


\* Every answer of the device, every timeout and every lost call ends an attempt
\* that is under way, or nothing; each attempt starts while no other is.
THEOREM CallsAreBooked == Spec => ActsOnAttempts
<1>1. Init => Books!AttemptsInit
  BY AgentConstants DEF Init, Books!AttemptsInit
<1>2. ASSUME AgentInv, Ranges, [Next]_vars PROVE AttemptsActs
  <2> USE <1>2
  <2>1. CASE UNCHANGED jobVars
    BY <2>1 DEF jobVars, AttemptsActs, Books!attemptVars
  <2>2. ASSUME NEW j \in Job, Submit(j) PROVE AttemptsActs
    <3>1. Books!Submit({j})
      BY <2>2 DEF Submit, Books!Submit, AgentInv, Types
    <3>2. {j} \in SUBSET Job
      OBVIOUS
    <3> QED BY <3>1, <3>2 DEF AttemptsActs, Books!AttemptsNext
  <2>3. ASSUME NEW j \in Job, LeaseExpires(j) PROVE AttemptsActs
    <3> DEFINE v == AfterFailure(j, "failed")
               w == [k \in {j} |-> v]
    <3>1. tries[j] \in Nat /\ MaxAttempts \in Nat
      BY AgentConstants DEF Ranges
    <3>2. v \in Books!Outcomes(j)
      BY <3>1 DEF AfterFailure, Books!Outcomes
    <3>3. /\ w \in [{j} -> Books!FinalVerdicts \cup {"pending"}] /\ \A k \in {j} : w[k] \in Books!Outcomes(k)
      BY <3>2 DEF Books!FinalVerdicts, Books!Outcomes
    <3>4. verdict' = [k \in Job |-> IF k \in {j} THEN w[k] ELSE verdict[k]] /\ tries' = tries
      BY <2>3 DEF LeaseExpires, AgentInv, Types
    <3>5. [k \in Job |-> current'[k] # None] = [k \in Job |-> k \notin {j} /\ [i \in Job |-> current[i] # None][k]]
      BY <2>3 DEF LeaseExpires, AgentInv, Types
    <3>6. Books!EndAttempts({j})
      BY <2>3, <3>3, <3>4, <3>5 DEF Books!EndAttempts, LeaseExpires
    <3>7. {j} \in SUBSET Job
      OBVIOUS
    <3> QED BY <3>6, <3>7 DEF AttemptsActs, Books!AttemptsNext
  <2>4. ASSUME NEW c \in Call, NEW j \in Job, Attempt(c, j) PROVE AttemptsActs
    <3>1. [k \in Job |-> current'[k] # None] = [[k \in Job |-> current[k] # None] EXCEPT ![j] = TRUE]
      BY <2>4, AgentConstants DEF Attempt, AgentInv, Types
    <3>2. Books!Start(j)
      BY <2>4, <3>1 DEF Attempt, Books!Start
    <3> QED BY <3>2 DEF AttemptsActs, Books!AttemptsNext
  <2>5. ASSUME NEW c \in Call, GiveUp(c) \/ ConnectionFails(c) \/ (Receive(c) /\ waiting[c]) PROVE AttemptsActs
    <3> DEFINE j == request[c].job
    <3>1. j \in Job /\ tries[j] \in Nat /\ MaxAttempts \in Nat
      BY <2>5, AgentConstants DEF AgentInv, CallsHaveRequests, Requests, GiveUp, ConnectionFails, Ranges
    <3>2. {AfterFailure(j, "failed"), AfterFailure(j, "timed_out"), "passed", "failed"} \subseteq Books!Outcomes(j)
      BY <3>1 DEF AfterFailure, Books!Outcomes
    <3>3. Receive(c) => answer[c] \in Answers
      BY <2>5 DEF AgentInv, CallsHaveRequests, Receive
    <3>4. PICK v \in Books!Outcomes(j) : Record(c, v)
      <4>1. CASE GiveUp(c) \/ ConnectionFails(c)
        BY <3>2, <4>1 DEF GiveUp, ConnectionFails
      <4>2. CASE Receive(c) /\ waiting[c]
        BY <3>2, <3>3, <4>2 DEF Receive, Answers
      <4> QED BY <2>5, <4>1, <4>2
    <3> QED BY <3>1, <3>4, RecordEndsAttempt
  <2>6. ASSUME NEW c \in Call, CallStep(c) PROVE AttemptsActs
    BY <2>1, <2>4, <2>5, <2>6 DEF CallStep, WorkerLost, LoseRequest, Receive
  <2>7. ASSUME NEW c \in Call, AgentStep(c) PROVE UNCHANGED jobVars
    BY <2>7 DEF AgentStep, RefuseSuite, JoinExecution, AdmitSimulated, AdmitOnHost, StartExecution, Respond, CancelHandler
  <2>8. CASE Reseed
    BY <2>8 DEF Reseed, AttemptsActs, Books!attemptVars
  <2> QED BY <1>2, <2>1, <2>2, <2>3, <2>6, <2>7, <2>8 DEF Next, Restart, FinishExecution, vars
<1> QED BY <1>1, <1>2, AgentInductive, RangesInit, RangesNext, PTL
       DEF Spec, ActsOnAttempts, Books!AttemptsSpec, AttemptsActs
=============================================================================
