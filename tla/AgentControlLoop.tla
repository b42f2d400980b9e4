-------------------------- MODULE AgentControlLoop --------------------------
(***************************************************************************)
(* The presence of one agent: the control loop that every agent process    *)
(* runs, the requests it sends, and the device row they act on.  Requests  *)
(* are handled late, fail, or are lost; the loop gives up on them after    *)
(* its HTTP timeout; the process is restarted, possibly with another       *)
(* public URL, or stopped; the database may be recreated.                  *)
(***************************************************************************)
EXTENDS Naturals

CONSTANTS
  Endpoint,  \* the public URLs the process may be started with
  Request,   \* bound: requests on their way at the same time
  MaxRows,   \* bound: device rows ever created for the name
  None

ASSUME Bounds ==
  /\ MaxRows \in Nat \ {0}
  /\ None \notin Endpoint \cup Request \cup Nat
  /\ None \notin [id : Nat, endpoint : Endpoint]  \* no row

VARIABLES
  pc,        \* the loop: "down", "ready", "requesting", "pausing"
  deviceId,  \* self.device_id
  stopping,  \* the _stop event
  endpoint,  \* settings.public_url
  mail,      \* each request on its way to the server, or None
  current,   \* the request the loop awaits
  reply,     \* its response, or None
  row,       \* the devices row of the agent's name, or None
  rows,      \* ids the database has given so far: 1..rows
  fresh,     \* is the row's heartbeat within the timeout?
  overtaken  \* history: was the last registration one of an earlier process?

loopVars   == <<pc, deviceId, stopping, endpoint>>
netVars    == <<mail, current, reply>>
serverVars == <<row, rows, fresh, overtaken>>
vars       == <<loopVars, netVars, serverVars>>

Init ==
  /\ pc = "down" /\ deviceId = None /\ stopping = FALSE
  /\ endpoint \in Endpoint
  /\ mail = [q \in Request |-> None] /\ current = None /\ reply = None
  /\ row = None /\ rows = 0 /\ fresh = FALSE /\ overtaken = FALSE

-----------------------------------------------------------------------------
(* The process. *)

\* Requests of the process that ended may still be handled.
StartProcess(e) ==
  /\ pc = "down"
  /\ pc' = "ready" /\ deviceId' = None /\ stopping' = FALSE /\ endpoint' = e
  /\ mail' = [q \in Request |-> IF mail[q] = None THEN None ELSE [mail[q] EXCEPT !.own = FALSE]]
  /\ UNCHANGED <<current, reply, serverVars>>

Crash ==
  /\ pc # "down"
  /\ pc' = "down" /\ current' = None /\ reply' = None
  /\ UNCHANGED <<deviceId, stopping, endpoint, mail, serverVars>>

\* The application shuts down.
Stop ==
  /\ pc # "down" /\ ~stopping
  /\ stopping' = TRUE
  /\ UNCHANGED <<pc, deviceId, endpoint, netVars, serverVars>>

\* The loop's condition, tested only between two rounds.
Exit ==
  /\ pc = "ready" /\ stopping
  /\ pc' = "down"
  /\ UNCHANGED <<deviceId, stopping, endpoint, netVars, serverVars>>

\* Variant: the loop's condition is always true.
NextRoundAlways == pc = "ready"

NextRound == pc = "ready" /\ ~stopping

Send(q, m) ==
  /\ NextRound /\ mail[q] = None
  /\ mail' = [mail EXCEPT ![q] = m]
  /\ current' = q /\ reply' = None
  /\ pc' = "requesting"
  /\ UNCHANGED <<deviceId, stopping, endpoint, serverVars>>

SendRegister(q) ==
  deviceId = None /\ Send(q, [kind |-> "register", own |-> TRUE, endpoint |-> endpoint])

SendHeartbeat(q) ==
  deviceId # None /\ Send(q, [kind |-> "heartbeat", own |-> TRUE, id |-> deviceId])

\* The round is over; the loop waits for the interval or for _stop.
EndRound(id) ==
  /\ pc' = "pausing" /\ deviceId' = id
  /\ current' = None /\ reply' = None
  /\ UNCHANGED <<stopping, endpoint, mail, serverVars>>

\* Variant: a 404 is ignored.
IdAfterReplyKeeping(r) == IF r.status \in {"registered", "ok"} THEN r.id ELSE deviceId

\* The id is kept as long as every request succeeds: a 404 and any error send
\* the loop back to registration.
IdAfterReply(r) == IF r.status \in {"registered", "ok"} THEN r.id ELSE None

ReceiveReply ==
  /\ pc = "requesting" /\ reply # None
  /\ EndRound(IdAfterReply(reply))

\* A timeout or a connection error, with the request handled or not.
GiveUp ==
  /\ pc = "requesting"
  /\ EndRound(None)

Wake ==
  /\ pc = "pausing"
  /\ pc' = "ready"
  /\ UNCHANGED <<deviceId, stopping, endpoint, netVars, serverVars>>

-----------------------------------------------------------------------------
(* The server. *)

Answer(q, r) ==
  /\ mail' = [mail EXCEPT ![q] = None]
  /\ reply' = IF current = q THEN r ELSE reply
  /\ UNCHANGED <<loopVars, current>>

\* Variant: the endpoint is recorded at the first registration only.
RegisteredOnce(e) ==
  IF row = None THEN [id |-> rows + 1, endpoint |-> e] ELSE row

\* The row after a registration: new, or updated under its id.
Registered(e) ==
  IF row = None THEN [id |-> rows + 1, endpoint |-> e] ELSE [row EXCEPT !.endpoint = e]

HandleRegister(q) ==
  /\ mail[q] # None /\ mail[q].kind = "register"
  /\ row = None => rows < MaxRows
  /\ row' = Registered(mail[q].endpoint)
  /\ rows' = IF row = None THEN rows + 1 ELSE rows
  /\ fresh' = TRUE /\ overtaken' = ~mail[q].own
  /\ Answer(q, [status |-> "registered", id |-> row'.id])

\* Variant: an unknown id is no error.
IsRegisteredAnyway(id) == TRUE

IsRegistered(id) == row # None /\ row.id = id

HandleHeartbeat(q) ==
  /\ mail[q] # None /\ mail[q].kind = "heartbeat"
  /\ IF IsRegistered(mail[q].id)
       THEN fresh' = TRUE /\ Answer(q, [status |-> "ok", id |-> mail[q].id])
       ELSE UNCHANGED fresh /\ Answer(q, [status |-> "not found"])
  /\ UNCHANGED <<row, rows, overtaken>>

\* A database error, a registration that lost the race for the unique name, or
\* a request that is lost: nothing is committed.
FailRequest(q) ==
  /\ mail[q] # None
  /\ \E r \in {None, [status |-> "error"]} : Answer(q, r)
  /\ UNCHANGED serverVars

HeartbeatExpires ==
  /\ fresh
  /\ fresh' = FALSE
  /\ UNCHANGED <<loopVars, netVars, row, rows, overtaken>>

\* The database is recreated: no row, and ids that were never given before.
RecreateDatabase ==
  /\ row # None /\ rows < MaxRows
  /\ row' = None /\ fresh' = FALSE
  /\ UNCHANGED <<loopVars, netVars, rows, overtaken>>

-----------------------------------------------------------------------------
Round == ReceiveReply \/ GiveUp \/ Wake \/ Exit
         \/ \E q \in Request : SendRegister(q) \/ SendHeartbeat(q)

Handle(q) == HandleRegister(q) \/ HandleHeartbeat(q)

Next ==
  \/ \E e \in Endpoint : StartProcess(e)
  \/ Crash \/ Stop \/ Round
  \/ \E q \in Request : Handle(q) \/ FailRequest(q)
  \/ HeartbeatExpires \/ RecreateDatabase

Spec == Init /\ [][Next]_vars

\* The loop is scheduled, each request it makes ends, requests it has given up
\* do not pile up, and a server that is asked again and again answers in time
\* in the end.
FairSpec ==
  /\ Spec
  /\ WF_vars(Round)
  /\ SF_vars(ReceiveReply)
  /\ \A q \in Request : SF_vars(current = q /\ Handle(q)) /\ WF_vars(Handle(q) \/ FailRequest(q))

-----------------------------------------------------------------------------
(* Properties. *)

\* The loop's program counter, the request it awaits and the row agree.
TypeOK ==
  /\ pc \in {"down", "ready", "requesting", "pausing"}
  /\ deviceId \in 1..MaxRows \cup {None} /\ rows \in 0..MaxRows
  /\ {stopping, fresh, overtaken} \subseteq BOOLEAN /\ endpoint \in Endpoint
  /\ current \in Request \cup {None} /\ (current # None <=> pc = "requesting")
  /\ \A q \in Request : mail[q] # None => mail[q].kind \in {"register", "heartbeat"}
  /\ row # None => row.id \in 1..rows /\ row.endpoint \in Endpoint
  /\ reply # None => current # None
  /\ fresh => row # None

\* Workers call the URL in the row: while the running process holds the row's
\* id, that is the URL of this process, however often it was restarted
\* elsewhere and whatever requests it gave up, unless a registration of an
\* earlier process was handled after its own.
EndpointIsCurrent ==
  pc # "down" /\ row # None /\ deviceId = row.id => row.endpoint = endpoint \/ overtaken

\* An agent that stays up is seen alive again and again, across lost requests,
\* server errors and a database that forgot it.  Dispatch assumes it.
RunningAgentsBeat == <>[](pc # "down" /\ ~stopping) => []<>fresh

\* A shutdown request ends the loop, in whatever await it arrives.
StopEndsTheLoop == stopping /\ pc # "down" ~> pc = "down"
=============================================================================
