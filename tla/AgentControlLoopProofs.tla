----------------------- MODULE AgentControlLoopProofs -----------------------
(***************************************************************************)
(* For any public URLs, requests and rows: the loop's variables agree, and *)
(* a running process that holds the row's id finds its own URL in the row. *)
(***************************************************************************)
EXTENDS AgentControlLoop, TLAPS

Registers  == [kind : {"register"}, own : BOOLEAN, endpoint : Endpoint]
Heartbeats == [kind : {"heartbeat"}, own : BOOLEAN, id : 1..MaxRows]

\* A registration of the running process carries the URL it was started with;
\* a heartbeat carries an id that the database has given.
MailInv ==
  /\ mail \in [Request -> Registers \cup Heartbeats \cup {None}]
  /\ \A q \in Request : mail[q] # None =>
       IF mail[q].kind = "register" THEN mail[q].own => mail[q].endpoint = endpoint
                                    ELSE mail[q].id \in 1..rows

\* The request that the loop awaits, if it is a heartbeat, is about the id the
\* loop holds, and so is a positive answer to it.
ReplyInv ==
  /\ \A q \in Request : current = q /\ mail[q] # None /\ mail[q].kind = "heartbeat" => mail[q].id = deviceId
  /\ reply # None => \/ reply \in [status : {"registered"}, id : 1..rows]
                     \/ reply \in [status : {"ok"}, id : {deviceId} \cap 1..rows]
                     \/ reply \in [status : {"not found", "error"}]

\* The ids the loop holds, or is about to hold.
Held == {deviceId} \cup IF reply # None /\ reply.status = "registered" THEN {reply.id} ELSE {}

LoopInv ==
  /\ TypeOK /\ MailInv /\ ReplyInv
  /\ row # None => row \in [id : 1..rows, endpoint : Endpoint]
  /\ deviceId # None => deviceId \in 1..rows
  /\ pc # "down" /\ row # None /\ row.id \in Held => row.endpoint = endpoint \/ overtaken


-----------------------------------------------------------------------------
(* The steps. *)

LEMMA LoopInvInit == Init => LoopInv
<1> SUFFICES ASSUME Init PROVE LoopInv
  OBVIOUS
<1>1. TypeOK
  <2>1. {stopping, fresh, overtaken} \subseteq BOOLEAN
    BY DEF Init
  <2>2. 0 \in 0..MaxRows
    BY Bounds
  <2>3. endpoint \in Endpoint
    BY DEF Init
  <2>4. \A q \in Request : mail[q] = None
    BY DEF Init
  <2> QED BY <2>1, <2>2, <2>3, <2>4, Bounds DEF Init, TypeOK
<1>2. MailInv /\ ReplyInv
  BY DEF Init, MailInv, ReplyInv
<1> QED BY <1>1, <1>2 DEF Init, LoopInv

\* The process: it starts, ends, and goes from one round to the next.
LEMMA ProcessStep ==
  ASSUME LoopInv,
         (\E e \in Endpoint : StartProcess(e)) \/ Crash \/ Stop \/ Exit \/ Wake \/ ReceiveReply \/ GiveUp
  PROVE  LoopInv'
<1> USE Bounds DEF LoopInv, TypeOK, Held, serverVars, netVars
<1>1. ASSUME NEW e \in Endpoint, StartProcess(e) PROVE LoopInv'
  <2>1. /\ current = None /\ reply = None /\ endpoint' = e /\ deviceId' = None
        /\ mail' = [q \in Request |-> IF mail[q] = None THEN None ELSE [mail[q] EXCEPT !.own = FALSE]]
        /\ UNCHANGED <<current, reply, serverVars>>
    BY <1>1 DEF StartProcess
  <2>2. ASSUME NEW q \in Request, mail'[q] # None
        PROVE  /\ mail'[q] \in Registers \cup Heartbeats
               /\ IF mail'[q].kind = "register" THEN ~mail'[q].own ELSE mail'[q].id \in 1..rows
    <3>1. mail[q] # None /\ mail'[q] = [mail[q] EXCEPT !.own = FALSE]
      BY <2>1, <2>2
    <3>2. CASE mail[q] \in Registers
      BY <3>1, <3>2 DEF Registers
    <3>3. CASE mail[q] \in Heartbeats
      BY <3>1, <3>3 DEF Heartbeats, MailInv
    <3> QED BY <3>1, <3>2, <3>3 DEF MailInv
  <2>3. MailInv'
    BY <2>1, <2>2 DEF MailInv
  <2>4. ReplyInv'
    BY <2>1 DEF ReplyInv
  <2>5. \A q \in Request : mail'[q] # None => mail'[q].kind \in {"register", "heartbeat"}
    BY <2>2 DEF Registers, Heartbeats
  <2>6. TypeOK'
    <3>1. /\ {stopping', fresh', overtaken'} \subseteq BOOLEAN
          /\ endpoint' \in Endpoint /\ pc' = "ready"
      BY <1>1, <2>1 DEF StartProcess
    <3> QED BY <2>1, <2>5, <3>1
  <2> QED BY <2>1, <2>3, <2>4, <2>6
<1>2. CASE Crash
  BY <1>2 DEF Crash, MailInv, ReplyInv
<1>3. CASE Stop \/ Exit \/ Wake
  <2>1. /\ UNCHANGED <<deviceId, endpoint, netVars, serverVars>>
        /\ pc' = "down" \/ pc # "down"
        /\ pc' \in {"down", "ready", pc} /\ (pc' # pc => pc # "requesting") /\ stopping' \in BOOLEAN
    BY <1>3 DEF Stop, Exit, Wake, NextRound
  <2>2. MailInv' /\ ReplyInv'
    BY <2>1 DEF MailInv, ReplyInv
  <2>3. TypeOK'
    BY <2>1
  <2> QED BY <2>1, <2>2, <2>3
<1>4. CASE ReceiveReply
  <2>1. /\ deviceId' = IdAfterReply(reply) /\ pc' = "pausing" /\ reply' = None /\ current' = None
        /\ UNCHANGED <<stopping, endpoint, mail, serverVars>> /\ pc = "requesting" /\ reply # None
    BY <1>4 DEF ReceiveReply, EndRound
  <2>2. deviceId' \in Held \cup {None} /\ (deviceId' # None => deviceId' \in 1..rows)
    BY <2>1 DEF IdAfterReply, ReplyInv
  <2>3. MailInv' /\ ReplyInv'
    BY <2>1 DEF MailInv, ReplyInv
  <2> QED BY <2>1, <2>2, <2>3
<1>5. CASE GiveUp
  <2>1. /\ pc = "requesting" /\ pc' = "pausing" /\ deviceId' = None /\ current' = None /\ reply' = None
        /\ UNCHANGED <<stopping, endpoint, mail, serverVars>>
    BY <1>5 DEF GiveUp, EndRound
  <2>2. MailInv' /\ ReplyInv'
    BY <2>1 DEF MailInv, ReplyInv
  <2> QED BY <2>1, <2>2
<1> QED BY <1>1, <1>2, <1>3, <1>4, <1>5

\* The loop sends a request.
LEMMA SendStep ==
  ASSUME LoopInv, NEW q \in Request, SendRegister(q) \/ SendHeartbeat(q)
  PROVE  LoopInv'
<1> USE Bounds DEF LoopInv, TypeOK, serverVars
<1> DEFINE r == [kind |-> "register", own |-> TRUE, endpoint |-> endpoint]
           h == [kind |-> "heartbeat", own |-> TRUE, id |-> deviceId]
<1>1. PICK m : /\ Send(q, m)
               /\ \/ deviceId = None /\ m \in Registers /\ m.kind = "register" /\ m.endpoint = endpoint
                  \/ deviceId # None /\ m \in Heartbeats /\ m.kind = "heartbeat" /\ m.id = deviceId
  <2>1. CASE SendRegister(q)
    <3>1. r \in Registers
      BY DEF Registers
    <3> QED BY <2>1, <3>1 DEF SendRegister
  <2>2. CASE SendHeartbeat(q)
    <3>1. h \in Heartbeats
      BY <2>2 DEF Heartbeats, SendHeartbeat
    <3> QED BY <2>2, <3>1 DEF SendHeartbeat
  <2> QED BY <2>1, <2>2
<1>2. /\ pc = "ready" /\ mail' = [mail EXCEPT ![q] = m] /\ current' = q /\ reply' = None /\ pc' = "requesting"
      /\ UNCHANGED <<deviceId, stopping, endpoint, serverVars>>
  BY <1>1 DEF Send, NextRound
<1>3. MailInv'
  BY <1>1, <1>2 DEF MailInv
<1>4. ReplyInv'
  BY <1>1, <1>2 DEF ReplyInv, MailInv
<1>5. \A p \in Request : mail'[p] # None => mail'[p].kind \in {"register", "heartbeat"}
  BY <1>3 DEF MailInv, Registers, Heartbeats
<1> QED BY <1>2, <1>3, <1>4, <1>5 DEF Held

\* A request leaves the mail; its answer is read if the loop still awaits it.
LEMMA AnswerStep ==
  ASSUME LoopInv, NEW q \in Request, NEW r, Answer(q, r)
  PROVE  /\ \A p \in Request : mail'[p] = IF p = q THEN None ELSE mail[p]
         /\ mail' \in [Request -> Registers \cup Heartbeats \cup {None}]
         /\ reply' \in {r, reply} /\ (reply' # reply => current = q)
         /\ UNCHANGED <<pc, deviceId, stopping, endpoint, current>>
BY DEF Answer, loopVars, LoopInv, MailInv

\* The server handles a request, and the loop's view of the row still holds.
LEMMA ServerStep ==
  ASSUME LoopInv, NEW q \in Request, HandleRegister(q) \/ HandleHeartbeat(q) \/ FailRequest(q)
  PROVE  LoopInv'
<1> USE Bounds DEF LoopInv, TypeOK
<1>m. mail[q] # None /\ (mail[q] \in Registers \/ mail[q] \in Heartbeats)
  BY DEF HandleRegister, HandleHeartbeat, FailRequest, MailInv
<1>1. CASE HandleRegister(q)
  <2> DEFINE n == IF row = None THEN rows + 1 ELSE row.id
             r == [status |-> "registered", id |-> n]
  <2>1. mail[q].own \in BOOLEAN /\ mail[q].endpoint \in Endpoint
        /\ (mail[q].own => mail[q].endpoint = endpoint)
    BY <1>m, <1>1 DEF HandleRegister, Registers, Heartbeats, MailInv
  <2>2. n \in 1..rows' /\ rows' \in rows..MaxRows /\ rows' = (IF row = None THEN rows + 1 ELSE rows)
    BY <1>1 DEF HandleRegister
  <2>3. row' = [id |-> n, endpoint |-> mail[q].endpoint]
    <3>1. row' = Registered(mail[q].endpoint)
      BY <1>1 DEF HandleRegister
    <3>2. CASE row = None
      BY <3>1, <3>2 DEF Registered
    <3>3. CASE row # None
      <4>1. [row EXCEPT !.endpoint = mail[q].endpoint] = [id |-> row.id, endpoint |-> mail[q].endpoint]
        BY <3>3
      <4> QED BY <3>1, <3>3, <4>1 DEF Registered
    <3> QED BY <3>2, <3>3
  <2>4. PICK x : Answer(q, x) /\ x = [status |-> "registered", id |-> row'.id]
    BY <1>1 DEF HandleRegister
  <2>5. x = r /\ Answer(q, r) /\ row'.id = n /\ row'.endpoint = mail[q].endpoint
    BY <2>3, <2>4
  <2>6. fresh' = TRUE /\ overtaken' = ~mail[q].own
    BY <1>1 DEF HandleRegister
  <2>7. row' # None
    BY <2>1, <2>2, <2>3
  <2>8. /\ \A p \in Request : mail'[p] = IF p = q THEN None ELSE mail[p]
        /\ mail' \in [Request -> Registers \cup Heartbeats \cup {None}]
        /\ reply' \in {r, reply} /\ (reply' # reply => current = q)
        /\ UNCHANGED <<pc, deviceId, stopping, endpoint, current>>
    BY <2>5, AnswerStep
  <2>9. MailInv'
    BY <2>2, <2>8 DEF MailInv
  <2>10. r \in [status : {"registered"}, id : 1..rows']
    BY <2>2
  <2>11. ReplyInv'
    <3>1. CASE reply' = r
      BY <2>2, <2>8, <2>10, <3>1 DEF ReplyInv
    <3>2. CASE reply' = reply
      <4>1. 1..rows \subseteq 1..rows'
        BY <2>2
      <4>2. /\ [status : {"registered"}, id : 1..rows] \subseteq [status : {"registered"}, id : 1..rows']
            /\ [status : {"ok"}, id : {deviceId} \cap 1..rows]
                 \subseteq [status : {"ok"}, id : {deviceId} \cap 1..rows']
        BY <4>1
      <4> QED BY <2>8, <3>2, <4>2 DEF ReplyInv
    <3> QED BY <2>8, <3>1, <3>2
  <2>12. TypeOK'
    <3>1. rows' \in 0..MaxRows /\ deviceId' \in 1..MaxRows \cup {None} /\ endpoint' \in Endpoint
      BY <2>2, <2>8
    <3>2. {stopping', fresh', overtaken'} \subseteq BOOLEAN
      BY <2>1, <2>6, <2>8
    <3>3. row'.id \in 1..rows' /\ row'.endpoint \in Endpoint
      BY <2>1, <2>2, <2>5
    <3>4. \A p \in Request : mail'[p] # None => mail'[p].kind \in {"register", "heartbeat"}
      BY <2>8
    <3> QED BY <2>7, <2>8, <3>1, <3>2, <3>3, <3>4
  <2>13. deviceId' # None => deviceId' \in 1..rows'
    BY <2>2, <2>8
  <2>14. row' \in [id : 1..rows', endpoint : Endpoint]
    BY <2>1, <2>2, <2>3
  <2>15. row'.endpoint = endpoint' \/ overtaken'
    BY <2>1, <2>5, <2>6, <2>8
  <2> QED BY <2>9, <2>11, <2>12, <2>13, <2>14, <2>15
<1>2. CASE HandleHeartbeat(q)
  <2> DEFINE ok == [status |-> "ok", id |-> mail[q].id]
             no == [status |-> "not found"]
  <2>1. mail[q].id \in 1..rows /\ (current = q => mail[q].id = deviceId)
    BY <1>m, <1>2 DEF HandleHeartbeat, MailInv, ReplyInv
  <2>2. /\ UNCHANGED <<row, rows, overtaken>>
        /\ \/ row # None /\ fresh' = TRUE /\ Answer(q, ok)
           \/ fresh' = fresh /\ Answer(q, no)
    BY <1>2 DEF HandleHeartbeat, IsRegistered
  <2>3. /\ \A p \in Request : mail'[p] = IF p = q THEN None ELSE mail[p]
        /\ mail' \in [Request -> Registers \cup Heartbeats \cup {None}]
        /\ reply' \in {ok, no, reply} /\ (reply' # reply => current = q)
        /\ UNCHANGED <<pc, deviceId, stopping, endpoint, current>>
    BY <2>2, AnswerStep
  <2>4. MailInv'
    BY <2>2, <2>3 DEF MailInv
  <2>5. ReplyInv'
    <3>1. CASE reply' = reply
      BY <2>2, <2>3, <3>1 DEF ReplyInv
    <3>2. CASE reply' = ok /\ current = q
      <4>1. ok \in [status : {"ok"}, id : {deviceId} \cap 1..rows]
        BY <2>1, <3>2
      <4> QED BY <2>2, <2>3, <3>2, <4>1 DEF ReplyInv
    <3>3. CASE reply' = no
      <4>1. no \in [status : {"not found", "error"}]
        OBVIOUS
      <4> QED BY <2>2, <2>3, <3>3, <4>1 DEF ReplyInv
    <3> QED BY <2>3, <3>1, <3>2, <3>3
  <2>6. TypeOK'
    <3>1. fresh' \in BOOLEAN /\ (fresh' => row # None)
      <4>1. CASE fresh' = TRUE /\ row # None
        BY <4>1
      <4>2. CASE fresh' = fresh
        BY <4>2
      <4> QED BY <2>2, <4>1, <4>2
    <3>2. {stopping', fresh', overtaken'} \subseteq BOOLEAN
      BY <2>2, <2>3, <3>1
    <3> QED BY <2>2, <2>3, <3>1, <3>2
  <2>7. Held' \subseteq Held
    <3>1. ok.status # "registered" /\ no.status # "registered"
      OBVIOUS
    <3> HIDE DEF ok, no
    <3> QED BY <2>3, <3>1 DEF Held
  <2> QED BY <2>2, <2>3, <2>4, <2>5, <2>6, <2>7
<1>3. CASE FailRequest(q)
  <2>1. PICK r \in {None, [status |-> "error"]} : Answer(q, r)
    BY <1>3 DEF FailRequest
  <2>2. UNCHANGED serverVars
    BY <1>3 DEF FailRequest
  <2>3. /\ \A p \in Request : mail'[p] = IF p = q THEN None ELSE mail[p]
        /\ mail' \in [Request -> Registers \cup Heartbeats \cup {None}]
        /\ reply' \in {r, reply} /\ (reply' # reply => current = q)
        /\ UNCHANGED <<pc, deviceId, stopping, endpoint, current>>
    BY <2>1, AnswerStep
  <2>4. MailInv'
    BY <2>2, <2>3 DEF MailInv, serverVars
  <2>5. r # None => r.status = "error" /\ r \in [status : {"not found", "error"}]
    <3>1. [status |-> "error"] \in [status : {"not found", "error"}]
      OBVIOUS
    <3> QED BY <2>1, <3>1
  <2>6. ReplyInv'
    BY <2>2, <2>3, <2>5 DEF ReplyInv, serverVars
  <2>7. TypeOK'
    BY <2>2, <2>3 DEF serverVars
  <2>8. Held' \subseteq Held
    BY <2>3, <2>5 DEF Held
  <2> QED BY <2>2, <2>3, <2>4, <2>6, <2>7, <2>8 DEF serverVars
<1> QED BY <1>1, <1>2, <1>3

LEMMA LoopInvNext == LoopInv /\ [Next]_vars => LoopInv'
<1>1. ASSUME LoopInv, UNCHANGED vars PROVE LoopInv'
  BY <1>1 DEF LoopInv, TypeOK, MailInv, ReplyInv, Held, vars, loopVars, netVars, serverVars
<1>2. ASSUME LoopInv, HeartbeatExpires \/ RecreateDatabase PROVE LoopInv'
  <2>1. /\ UNCHANGED <<pc, deviceId, stopping, endpoint, mail, current, reply, rows, overtaken>>
        /\ fresh' = FALSE /\ row' \in {row, None}
    BY <1>2 DEF HeartbeatExpires, RecreateDatabase, loopVars, netVars
  <2>2. MailInv' /\ ReplyInv' /\ Held' = Held
    BY <1>2, <2>1 DEF LoopInv, MailInv, ReplyInv, Held
  <2>3. TypeOK'
    BY <1>2, <2>1 DEF LoopInv, TypeOK
  <2> QED BY <1>2, <2>1, <2>2, <2>3 DEF LoopInv
<1> QED BY <1>1, <1>2, ProcessStep, SendStep, ServerStep DEF Next, Round, Handle

LEMMA LoopInvAlways == Spec => []LoopInv
BY LoopInvInit, LoopInvNext, PTL DEF Spec

\* The loop's program counter, the request it awaits and the row agree, and no
\* id is held that the database has not given.
THEOREM LoopAndRowAgree == Spec => []TypeOK
<1>1. LoopInv => TypeOK
  BY DEF LoopInv
<1> QED BY <1>1, LoopInvAlways, PTL

\* Whatever is lost, handled late, given up or restarted: the row whose id the
\* running process holds carries the process's URL, which is the one that
\* workers call, unless a registration of an earlier process came after its own.
THEOREM WorkersCallTheProcess == Spec => []EndpointIsCurrent
<1>1. LoopInv => EndpointIsCurrent
  BY DEF LoopInv, EndpointIsCurrent, Held
<1> QED BY <1>1, LoopInvAlways, PTL

=============================================================================
