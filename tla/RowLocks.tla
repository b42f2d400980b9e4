------------------------------ MODULE RowLocks ------------------------------
(***************************************************************************)
(* The same transactions statement by statement, under READ COMMITTED: a   *)
(* statement sees what is committed and what its own transaction wrote, a  *)
(* row that a transaction wrote or read FOR UPDATE is locked to its end,   *)
(* and SKIP LOCKED passes over locked rows.  One session runs one          *)
(* transaction at a time; any transaction may fail and roll back.          *)
(***************************************************************************)
EXTENDS Domain, FiniteSets

CONSTANTS
  Device, Run, Job, RunOf, DeviceOf,
  Session,       \* bound: transactions that are open at the same time
  Nobody         \* the holder of an unlocked row; also "no row"

Row == Device \cup Run \cup Job

ASSUME Keys ==
  /\ RunOf \in [Job -> Run]
  /\ DeviceOf \in [Job -> Device]
  /\ \A j, k \in Job :        \* UNIQUE (test_run_id, device_id)
       RunOf[j] = RunOf[k] /\ DeviceOf[j] = DeviceOf[k] => j = k

\* A row belongs to one table.
ASSUME Tables == Device \cap Run = {} /\ Device \cap Job = {} /\ Run \cap Job = {}

ASSUME NobodyIsNoSession == Nobody \notin Session /\ Nobody \notin Row

VARIABLES
  status,    \* the committed status of every row, "absent" before INSERT
  hb,        \* committed: is last_heartbeat_at within the timeout?
  lock,      \* the session that holds the row's lock
  tx         \* of each session: what it runs, where it is, what it wrote and read

vars == <<status, hb, lock, tx>>

JobsOf(r) == {j \in Job : RunOf[j] = r}
JobsOn(d) == {j \in Job : DeviceOf[j] = d}

\* A transaction that has written, or read, nothing.
NoDraft == [x \in Row |-> "same"]

Idle == [op |-> "idle", at |-> "idle", todo |-> {}, cur |-> Nobody,
         want |-> "none", draft |-> NoDraft, seen |-> NoDraft]

\* A row as session s sees it.
Sees(s, x) == IF tx[s].draft[x] = "same" THEN status[x] ELSE tx[s].draft[x]

-----------------------------------------------------------------------------
(* Statements. *)

\* Session s starts a transaction at statement `at`, holding the rows X.
Begin(s, op, at, todo, cur, draft, X) ==
  /\ tx[s] = Idle
  /\ tx' = [tx EXCEPT ![s] = [Idle EXCEPT !.op = op, !.at = at, !.todo = todo,
                                          !.cur = cur, !.draft = draft]]
  /\ lock' = [x \in Row |-> IF x \in X THEN s ELSE lock[x]]
  /\ UNCHANGED <<status, hb>>

\* SELECT ... FOR UPDATE and UPDATE wait until the row is free.
MayLock(s, x) == lock[x] \in {Nobody, s}

Take(s, x) == MayLock(s, x) /\ lock' = [lock EXCEPT ![x] = s]

\* Session s goes on to statement `at`, having written value v to row x.
Write(s, x, v, at) ==
  tx' = [tx EXCEPT ![s].draft[x] = v, ![s].at = at]

-----------------------------------------------------------------------------
(* record_heartbeat and the update of a known device in register_device.   *)

\* Variant: the device is read without FOR UPDATE.
BeginContactUnlocked(s, d) == Begin(s, "contact", "contact", {}, d, NoDraft, {})

BeginContact(s, d) ==
  /\ status[d] # "absent" /\ MayLock(s, d)
  /\ Begin(s, "contact", "contact", {}, d, NoDraft, {d})

\* _has_active_job reads without locks; the session still holds the device.
Contact(s) ==
  /\ tx[s].at = "contact"
  /\ LET d == tx[s].cur IN
     Write(s, d, IF \E j \in JobsOn(d) : status[j] \in ActiveJobStatuses THEN "busy" ELSE "online",
           "commit")
  /\ UNCHANGED <<status, hb, lock>>

\* register_device finds no row of that name, and will insert one.
BeginInsert(s, d) ==
  status[d] = "absent" /\ Begin(s, "contact", "insert", {}, d, NoDraft, {})

\* Variant: INSERT ... ON CONFLICT DO UPDATE.
InsertOrUpdate(s) ==
  /\ tx[s].at = "insert"
  /\ Take(s, tx[s].cur)
  /\ Write(s, tx[s].cur, "online", "commit")
  /\ UNCHANGED <<status, hb>>

\* The INSERT waits for another one of the same name; if that commits, the
\* unique constraint leaves only the rollback.
Insert(s) ==
  /\ tx[s].at = "insert" /\ status[tx[s].cur] = "absent"
  /\ Take(s, tx[s].cur)
  /\ Write(s, tx[s].cur, "online", "commit")
  /\ UNCHANGED <<status, hb>>

-----------------------------------------------------------------------------
(* mark_stale_devices_offline: one UPDATE, row after row. *)

Stale(d) == status[d] \in {"online", "busy"} /\ hb[d] = "stale"

BeginMarkStale(s) ==
  \E d \in Device : Stale(d) /\ Begin(s, "mark_stale", "scan", {x \in Device : Stale(x)}, d, NoDraft, {})

\* The UPDATE waits for a locked row, locks it, and evaluates its condition
\* again; a row that no longer satisfies it stays locked.
MarkRow(s) ==
  LET d    == tx[s].cur
      rest == tx[s].todo \ {d}
  IN
  /\ tx[s].at = "scan"
  /\ Take(s, d)
  /\ \E next \in IF rest = {} THEN {Nobody} ELSE rest :
       tx' = [tx EXCEPT ![s].draft[d] = IF Stale(d) THEN "offline" ELSE "same",
                        ![s].todo = rest,
                        ![s].cur = next,
                        ![s].at = IF rest = {} THEN "commit" ELSE "scan"]
  /\ UNCHANGED <<status, hb>>

-----------------------------------------------------------------------------
(* create_run. *)

Fresh(d) == status[d] = "online" /\ hb[d] = "fresh"

\* Variant: a plain SELECT.
SelectedUnlocked(s, from) == {d \in from : Fresh(d)}

\* SELECT ... FOR UPDATE SKIP LOCKED among the devices in `from`.
Selected(s, from) == {d \in from : Fresh(d) /\ MayLock(s, d)}

\* The run, its jobs and the reservation of the devices D, all in one session.
BeginCreate(s, r, D) ==
  LET new == {j \in JobsOf(r) : DeviceOf[j] \in D} IN
  /\ status[r] = "absent" /\ lock[r] = Nobody
  /\ D # {} /\ D = {DeviceOf[j] : j \in new}
  /\ Begin(s, "create", "commit", {}, r,
           [x \in Row |-> IF x \in D THEN "busy" ELSE IF x \in new \cup {r} THEN "queued" ELSE "same"],
           D \cup new \cup {r})

CreateOnAll(s, r) == BeginCreate(s, r, Selected(s, Device))

\* A requested device that the query does not return is a 409.
CreateOnRequested(s, r, D) == Selected(s, D) = D /\ BeginCreate(s, r, D)

-----------------------------------------------------------------------------
(* Attempts: _claim, _finish, _handle_retryable_failure, and the reconciler, *)
(* which ends several attempts in one transaction.                           *)

BeginClaim(s, j) ==
  /\ status[j] \in {"queued", "retrying"} /\ MayLock(s, j)
  /\ Begin(s, "claim", "run", {j}, j, [NoDraft EXCEPT ![j] = "running"], {j})

\* J: the one job of a worker, or the expired jobs that SKIP LOCKED leaves.
BeginClose(s, J) ==
  /\ J # {} /\ \A j \in J : status[j] = "running" /\ MayLock(s, j)
  /\ Begin(s, "close", "next", J, Nobody, NoDraft, J)

CloseNext(s, j, target) ==
  /\ tx[s].at = "next" /\ j \in tx[s].todo
  /\ tx' = [tx EXCEPT ![s].cur = j, ![s].draft[j] = target,
                      ![s].at = IF target = "retrying" THEN "run" ELSE "release"]
  /\ UNCHANGED <<status, hb, lock>>

\* release_device: job.device is loaded without a lock, and its heartbeat judged
\* by a `now` that was fixed before the transaction waited for any lock: one that
\* has expired since then is still fresh to it.  The ORM will emit an UPDATE only
\* if the computed status differs from the loaded one.
ReadDevice(s) ==
  LET d == DeviceOf[tx[s].cur] IN
  /\ tx[s].at = "release"
  /\ \E want \in IF hb[d] = "fresh" THEN {"online"} ELSE {"online", "offline"} :
       tx' = [tx EXCEPT ![s].want = want, ![s].at = IF want = status[d] THEN "run" ELSE "flush"]
  /\ UNCHANGED <<status, hb, lock>>

\* The autoflush before the next query.
FlushDevice(s) ==
  LET d == DeviceOf[tx[s].cur] IN
  /\ tx[s].at = "flush"
  /\ Take(s, d)
  /\ Write(s, d, tx[s].want, "run")
  /\ UNCHANGED <<status, hb>>

\* Variant: recompute_run_status reads the run without FOR UPDATE.
ReadRun(s) ==
  /\ tx[s].at = "run"
  /\ tx' = [tx EXCEPT ![s].at = "recompute"]
  /\ UNCHANGED <<status, hb, lock>>

\* recompute_run_status: the run FOR UPDATE, then the statuses of its jobs.
LockRun(s) ==
  /\ tx[s].at = "run"
  /\ Take(s, RunOf[tx[s].cur])
  /\ tx' = [tx EXCEPT ![s].at = "recompute"]
  /\ UNCHANGED <<status, hb>>

RecomputeRun(s) ==
  LET r    == RunOf[tx[s].cur]
      rest == tx[s].todo \ {tx[s].cur}
  IN
  /\ tx[s].at = "recompute"
  /\ tx' = [tx EXCEPT
       ![s].draft[r] = Recompute(Sees(s, r), {Sees(s, j) : j \in JobsOf(r)} \ {"absent"}),
       ![s].todo = rest,
       ![s].at = IF rest = {} THEN "commit" ELSE "next"]
  /\ UNCHANGED <<status, hb, lock>>

-----------------------------------------------------------------------------
(* load_run, for GET /runs/{id}, its jobs and its page; list_runs does the   *)
(* same for many runs.  Two statements, two snapshots.                       *)

\* Variant: the jobs, joined to their run afterwards.
JobsFirst(r) == JobsOf(r)

\* What the first statement reads.
FirstRead(r) == {r}

BeginRead(s, r) ==
  /\ tx[s] = Idle /\ status[r] # "absent"
  /\ tx' = [tx EXCEPT ![s] =
       [Idle EXCEPT !.op = "read", !.at = "rest", !.cur = r,
                    !.seen = [x \in Row |-> IF x \in FirstRead(r) THEN status[x] ELSE "same"]]]
  /\ UNCHANGED <<status, hb, lock>>

\* What the report shows of row x if the other rows are read now.
Reported(s, x) == IF x \in FirstRead(tx[s].cur) THEN tx[s].seen[x] ELSE status[x]

\* selectinload: the second statement completes the report.
ReadRest(s) ==
  /\ tx[s].at = "rest"
  /\ tx' = [tx EXCEPT ![s] = Idle]
  /\ UNCHANGED <<status, hb, lock>>

-----------------------------------------------------------------------------
(* Every transaction ends in a commit or a rollback. *)

Unlock(s) == lock' = [x \in Row |-> IF lock[x] = s THEN Nobody ELSE lock[x]]

Commit(s) ==
  /\ tx[s].at = "commit"
  /\ status' = [x \in Row |-> Sees(s, x)]
  /\ hb' = [d \in Device |-> IF tx[s].op = "contact" /\ tx[s].cur = d THEN "fresh" ELSE hb[d]]
  /\ Unlock(s)
  /\ tx' = [tx EXCEPT ![s] = Idle]

\* A crash, a lost connection, a violated constraint, being chosen as the victim
\* of a deadlock, or the end of a request that only reads.
Rollback(s) ==
  /\ tx[s] # Idle
  /\ Unlock(s)
  /\ tx' = [tx EXCEPT ![s] = Idle]
  /\ UNCHANGED <<status, hb>>

\* At any moment, whichever transactions are open.
HeartbeatExpires(d) ==
  /\ hb[d] = "fresh"
  /\ hb' = [hb EXCEPT ![d] = "stale"]
  /\ UNCHANGED <<status, lock, tx>>

-----------------------------------------------------------------------------
Init ==
  /\ status = [x \in Row |-> "absent"]
  /\ hb = [d \in Device |-> "stale"]
  /\ lock = [x \in Row |-> Nobody]
  /\ tx = [s \in Session |-> Idle]

Step(s) ==
  \/ \E d \in Device : BeginContact(s, d) \/ BeginInsert(s, d)
  \/ Insert(s) \/ Contact(s) \/ BeginMarkStale(s) \/ MarkRow(s)
  \/ \E r \in Run : CreateOnAll(s, r) \/ \E D \in SUBSET Device : CreateOnRequested(s, r, D)
  \/ \E j \in Job : BeginClaim(s, j)
  \/ \E J \in SUBSET Job : BeginClose(s, J)
  \/ \E j \in Job, target \in {"retrying", "passed", "failed"} : CloseNext(s, j, target)
  \/ ReadDevice(s) \/ FlushDevice(s) \/ LockRun(s) \/ RecomputeRun(s)
  \/ ReadRest(s) \/ \E r \in Run : BeginRead(s, r)
  \/ Commit(s) \/ Rollback(s)

Next == (\E s \in Session : Step(s)) \/ \E d \in Device : HeartbeatExpires(d)

Spec == Init /\ [][Next]_vars

-----------------------------------------------------------------------------
(* Properties of the committed rows. *)

\* Besides the types: an open transaction has written only rows it has locked,
\* so no two of them have written the same row.
TypeOK ==
  /\ \A d \in Device : status[d] \in DeviceStatuses \cup {"absent"}
  /\ \A r \in Run : status[r] \in RunStatuses \cup {"absent"}
  /\ \A j \in Job : status[j] \in JobStatuses \cup {"absent"}
  /\ DOMAIN status = Row
  /\ hb \in [Device -> {"fresh", "stale"}]
  /\ lock \in [Row -> Session \cup {Nobody}]
  /\ \A s \in Session : /\ tx[s].cur \in Row \cup {Nobody}
                        /\ \A x \in Row : tx[s].draft[x] # "same" => lock[x] = s

\* No write skew: whichever of two workers finishing the last two jobs of a
\* run commits second sees the other's job, and no run is left "running".
NoStrandedRun ==
  \A r \in Run :
    LET S == {status[j] : j \in JobsOf(r)} IN
    /\ S # {} /\ S \subseteq TerminalJobStatuses => status[r] \in TerminalRunStatuses
    /\ status[r] = "passed" => S \subseteq {"passed", "absent"}

\* However selections, heartbeats, first registrations and releases overlap, a
\* device has one active job at most, and is not on offer while it has one.
ReservationsAreExclusive ==
  \A d \in Device :
    LET active == {j \in JobsOn(d) : status[j] \in ActiveJobStatuses} IN
    /\ \A j, k \in active : j = k
    /\ active # {} => status[d] \notin {"online", "absent"}

\* A report that says a run is over, after which the page stops refreshing and
\* the client polling, shows each of its jobs in its final status, and these add
\* up to the run's, whatever commits between the two reads.
ReportsAreFinal ==
  \A s \in Session : tx[s].at = "rest" =>
    LET r == tx[s].cur IN
    Reported(s, r) \in TerminalRunStatuses
      => Reported(s, r) = Recompute("running", {Reported(s, j) : j \in JobsOf(r)} \ {"absent"})

\* The row that session s waits for, or may have to wait for.
Wanted(s) == CASE tx[s].at \in {"insert", "scan"} -> tx[s].cur
               [] tx[s].at = "flush"              -> DeviceOf[tx[s].cur]
               [] tx[s].at = "run"                -> RunOf[tx[s].cur]
               [] OTHER                           -> Nobody

WaitsFor(s, t) == s # t /\ Wanted(s) # Nobody /\ lock[Wanted(s)] = t

\* The liveness scan, or a reconciler that ends more than one attempt.
Maintains(s) == tx[s].op = "mark_stale" \/ \E j, k \in Job : j # k /\ lock[j] = s /\ lock[k] = s

\* Workers, agents and clients never deadlock among themselves, nor with one
\* maintenance transaction: a circle of waiting transactions has two of these
\* in it.  (Two scans meet in it when one is a GET /devices, or when the Beat
\* tasks overlap; PostgreSQL then aborts one of the circle.)
DeadlocksNeedTwoScans ==
  \A C \in SUBSET Session :
    C # {} /\ (\A s \in C : \E t \in C : WaitsFor(s, t))
      => \E s, t \in C : s # t /\ Maintains(s) /\ Maintains(t)

Atomically ==
  INSTANCE Rows WITH devStatus <- [d \in Device |-> status[d]],
                     runStatus <- [r \in Run |-> status[r]],
                     jobStatus <- [j \in Job |-> status[j]]

\* The locks make every transaction atomic: each commit changes the committed
\* rows as the whole transaction would, run alone at that moment: only the
\* locked rows are judged as they are now, and of a released device, which is
\* judged unlocked and by an earlier clock, Rows leaves open whether it is online.
CommitsAreAtomic == Atomically!RowsSpec

\* What a client of the API can tell of a job and of a run.
VerdictOf(j) == CASE status[j] = "absent"            -> "none"
                  [] status[j] \in ActiveJobStatuses -> "pending"
                  [] OTHER                           -> status[j]

OutcomeSeen(r) == CASE status[r] = "absent"                -> "none"
                    [] status[r] \in {"queued", "running"} -> "pending"
                    [] OTHER                               -> status[r]

Promise == INSTANCE Lab WITH verdict <- [j \in Job |-> VerdictOf(j)],
                             outcome <- [r \in Run |-> OutcomeSeen(r)]

\* To a client that sees no transactions each commit is a reservation of free
\* devices, a set of verdicts together with the outcomes they make, or nothing.
ImplementsLab == Promise!LabSpec

-----------------------------------------------------------------------------
(* What the documentation says of the same transactions. *)

\* Session s ends a job of device d.
Releasing(s, d) == \E j \in JobsOn(d) : tx[s].draft[j] \in TerminalJobStatuses

\* docs/architecture.md: "A terminal job releases the device to online if its
\* heartbeat is still fresh", the first half of a sentence whose other half,
\* "otherwise offline", a heartbeat that expires just then need not contradict.
ReleaseFollowsHeartbeat ==
  [][\A s \in Session, d \in Device :
       Commit(s) /\ Releasing(s, d) /\ hb[d] = "fresh" => status'[d] = "online"]_vars

\* README.md: "Without device IDs it selects every fresh online device."
SelectsEveryFreshDevice ==
  [][\A s \in Session, r \in Run :
       CreateOnAll(s, r) => \A d \in Device : Fresh(d) => lock'[d] = s]_vars

=============================================================================
