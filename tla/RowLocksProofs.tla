--------------------------- MODULE RowLocksProofs ---------------------------
(***************************************************************************)
(* For any tables and any number of sessions: the row locks keep the       *)
(* reservations exclusive, circles of waiting transactions need two scans, *)
(* no run is stranded, reports of runs that are over are consistent, and   *)
(* each commit is the whole transaction, done at once (Rows).              *)
(***************************************************************************)
EXTENDS RowLocks, TLAPS

Values == DeviceStatuses \cup RunStatuses \cup JobStatuses \cup {"absent", "same"}

Transactions ==
  [op : {"idle", "contact", "mark_stale", "create", "claim", "close", "read"},
   at : {"idle", "contact", "insert", "scan", "next", "release", "flush", "run", "recompute",
         "rest", "commit"},
   todo : SUBSET Row, cur : Row \cup {Nobody}, want : {"none", "online", "offline"},
   draft : [Row -> Values], seen : [Row -> Values]]

Types ==
  /\ status \in [Row -> Values]
  /\ hb \in [Device -> {"fresh", "stale"}]
  /\ lock \in [Row -> Session \cup {Nobody}]
  /\ tx \in [Session -> Transactions]

\* Every row, committed or written, has a status of its table.
Tabled(f, none) ==
  /\ \A d \in Device : f[d] \in DeviceStatuses \cup {none}
  /\ \A r \in Run : f[r] \in RunStatuses \cup {none}
  /\ \A j \in Job : f[j] \in JobStatuses \cup {none}

ActiveOn(d) == {j \in JobsOn(d) : status[j] \in ActiveJobStatuses}

\* Where a transaction is, and what it holds there.
Position(s) ==
  LET t == tx[s] IN
  /\ t.at = "idle" => t = Idle
  /\ t.at \in {"idle", "insert", "rest"} => \A x \in Row : lock[x] # s /\ t.draft[x] = "same"
  /\ t.at \in {"contact", "insert", "scan"} => t.cur \in Device
  /\ t.at = "contact" => lock[t.cur] = s
  /\ t.at \in {"contact", "insert"} => t.op = "contact"
  /\ t.at \in {"scan"} <=> t.op = "mark_stale" /\ t.at # "commit"
  /\ t.at \in {"next", "release", "flush"} => t.op = "close"
  /\ t.at \in {"run", "recompute"} => t.op \in {"claim", "close"}
  /\ t.at \in {"run", "release", "flush", "recompute"} => t.cur \in Job /\ t.cur \in t.todo /\ lock[t.cur] = s
  /\ t.at \in {"release", "flush"} => t.draft[t.cur] \in TerminalJobStatuses
  /\ t.at = "flush" => t.want \in {"online", "offline"}
  /\ t.at = "recompute" => lock[RunOf[t.cur]] = s

\* The attempts a transaction is to end, or the devices it is to judge, one
\* after the other.
Ending(s) ==
  LET t == tx[s] IN
  /\ t.op = "close" => \A j \in t.todo : /\ j \in Job /\ lock[j] = s /\ status[j] = "running"
                                         /\ t.at = "next" \/ j # t.cur => t.draft[j] = "same"
  /\ t.op = "claim" => t.todo \subseteq {t.cur}
  /\ t.op = "mark_stale" => t.todo \subseteq Device

\* What a transaction has written.
Written(s) ==
  LET draft == tx[s].draft IN
  /\ Tabled(draft, "same")
  /\ \A x \in Row : draft[x] # "same" => lock[x] = s
  /\ \A j \in Job : draft[j] # "same" => status[j] \in ActiveJobStatuses \cup {"absent"}

\* A new job comes with its run, on a device that is held and free.
NewJobs(s) ==
  \A j \in Job : status[j] = "absent" /\ tx[s].draft[j] # "same" =>
    /\ tx[s].op = "create" /\ RunOf[j] = tx[s].cur
    /\ tx[s].draft[RunOf[j]] = "queued"
    /\ tx[s].draft[DeviceOf[j]] = "busy"
    /\ ActiveOn(DeviceOf[j]) = {}

\* A device is written "online" only by the transaction that ends its last job.
OnlineDrafts(s) ==
  \A d \in Device : tx[s].draft[d] = "online" =>
    \A j \in ActiveOn(d) : tx[s].draft[j] \in TerminalJobStatuses

SessionInv(s) == Position(s) /\ Ending(s) /\ Written(s) /\ NewJobs(s) /\ OnlineDrafts(s)

\* Jobs appear, and before that are locked, together with their run.
JobsFollowRuns ==
  \A j \in Job : /\ status[j] # "absent" => status[RunOf[j]] # "absent"
                 /\ status[j] = "absent" /\ lock[j] # Nobody => lock[RunOf[j]] = lock[j]

LockInv ==
  /\ Types /\ Tabled(status, "absent") /\ JobsFollowRuns /\ ReservationsAreExclusive
  /\ \A s \in Session : SessionInv(s)

-----------------------------------------------------------------------------
(* A step of one session, and the others. *)

\* What session s does to the locks.
OnlyLocksOf(s) ==
  \A x \in Row : lock'[x] # lock[x] => lock[x] \in {Nobody, s} /\ lock'[x] \in {Nobody, s}

\* Another session keeps its invariant if no row it has locked changes, and no
\* job becomes active on a device it has locked.
LEMMA OthersAreUndisturbed ==
  ASSUME LockInv, NEW s \in Session, NEW t \in Session \ {s}, tx'[t] = tx[t], OnlyLocksOf(s),
         \A x \in Row : lock[x] = t => status'[x] = status[x],
         \A d \in Device : lock[d] = t => ActiveOn(d)' \subseteq ActiveOn(d),
         \A j \in Job : status'[j] = "absent" => status[j] = "absent"
  PROVE  SessionInv(t)'
<1>1. \A x \in Row : lock'[x] = t <=> lock[x] = t
  BY NobodyIsNoSession DEF OnlyLocksOf
<1>2. SessionInv(t) /\ Types
  BY DEF LockInv
<1>3. Position(t)'
  BY <1>1, <1>2, Keys DEF SessionInv, Position, Row
<1>4. Ending(t)'
  BY <1>1, <1>2 DEF SessionInv, Ending, Row
<1>5. Written(t)'
  BY <1>1, <1>2 DEF SessionInv, Written, Tabled, Row
<1>6. NewJobs(t)'
  BY <1>2, Keys DEF SessionInv, NewJobs, Written, Row
<1>7. OnlineDrafts(t)'
  BY <1>2 DEF SessionInv, OnlineDrafts, Written, Row
<1> QED BY <1>3, <1>4, <1>5, <1>6, <1>7 DEF SessionInv

\* A step of s that commits nothing.
LEMMA OpenStep ==
  ASSUME LockInv, NEW s \in Session, UNCHANGED <<status, hb>>,
         lock' \in [Row -> Session \cup {Nobody}], OnlyLocksOf(s),
         NEW v \in Transactions, tx' = [tx EXCEPT ![s] = v],
         \A j \in Job : status[j] = "absent" /\ lock'[j] # Nobody => lock'[RunOf[j]] = lock'[j],
         SessionInv(s)'
  PROVE  LockInv'
<1>1. Types'
  BY DEF LockInv, Types
<1>2. Tabled(status, "absent")' /\ JobsFollowRuns' /\ ReservationsAreExclusive'
  BY DEF LockInv, Tabled, JobsFollowRuns, ReservationsAreExclusive, JobsOn
<1>3. ASSUME NEW t \in Session \ {s} PROVE SessionInv(t)'
  <2>1. tx'[t] = tx[t] /\ \A d \in Device : ActiveOn(d)' = ActiveOn(d)
    BY DEF LockInv, Types, ActiveOn, JobsOn
  <2> QED BY <2>1, OthersAreUndisturbed
<1> QED BY <1>1, <1>2, <1>3 DEF LockInv

\* Locks that only s holds, or gives up, with no absent job among them.
LEMMA TakeOne ==
  ASSUME LockInv, NEW s \in Session, NEW x \in Row, Take(s, x),
         x \in Job => status[x] # "absent"
  PROVE  /\ lock' \in [Row -> Session \cup {Nobody}] /\ OnlyLocksOf(s)
         /\ \A y \in Row : lock'[y] = IF y = x THEN s ELSE lock[y]
         /\ \A j \in Job : status[j] = "absent" /\ lock'[j] # Nobody => lock'[RunOf[j]] = lock'[j]
<1>1. /\ lock' \in [Row -> Session \cup {Nobody}] /\ OnlyLocksOf(s)
      /\ \A y \in Row : lock'[y] = IF y = x THEN s ELSE lock[y]
  BY DEF LockInv, Types, Take, MayLock, OnlyLocksOf
<1>2. ASSUME NEW j \in Job, status[j] = "absent", lock'[j] # Nobody PROVE lock'[RunOf[j]] = lock'[j]
  <2>1. j # x /\ lock[j] # Nobody /\ lock[RunOf[j]] = lock[j] /\ RunOf[j] \in Row /\ j \in Row
    BY <1>1, <1>2, Keys DEF LockInv, JobsFollowRuns, Row
  <2>2. RunOf[j] = x => lock[j] = s
    BY <2>1 DEF Take, MayLock
  <2> QED BY <1>1, <2>1, <2>2
<1> QED BY <1>1, <1>2

LEMMA SameLocks ==
  ASSUME LockInv, NEW s \in Session, lock' = lock
  PROVE  /\ lock' \in [Row -> Session \cup {Nobody}] /\ OnlyLocksOf(s)
         /\ \A j \in Job : status[j] = "absent" /\ lock'[j] # Nobody => lock'[RunOf[j]] = lock'[j]
BY DEF LockInv, Types, OnlyLocksOf, JobsFollowRuns

LEMMA LockInvInit == Init => LockInv
<1> SUFFICES ASSUME Init PROVE LockInv
  OBVIOUS
<1>1. Idle \in Transactions
  BY DEF Idle, NoDraft, Transactions, Values
<1>2. Types /\ Tabled(status, "absent")
  BY <1>1 DEF Init, Types, Values, Row, Tabled
<1>3. JobsFollowRuns /\ ReservationsAreExclusive
  BY Keys DEF Init, JobsFollowRuns, ReservationsAreExclusive, JobsOn, Row, ActiveJobStatuses
<1>4. ASSUME NEW s \in Session PROVE SessionInv(s)
  BY NobodyIsNoSession DEF Init, SessionInv, Position, Ending, Written, NewJobs, OnlineDrafts, Tabled, Idle, NoDraft, Row
<1> QED BY <1>2, <1>3, <1>4 DEF LockInv

-----------------------------------------------------------------------------
(* The beginning of a transaction. *)

LEMMA BeginStep ==
  ASSUME LockInv, NEW s \in Session,
         NEW op \in {"contact", "mark_stale", "create", "claim", "close"},
         NEW at \in {"contact", "insert", "scan", "next", "run", "commit"},
         NEW todo \in SUBSET Row, NEW cur \in Row \cup {Nobody}, NEW draft \in [Row -> Values],
         NEW X \in SUBSET Row, Begin(s, op, at, todo, cur, draft, X),
         \A x \in X : MayLock(s, x),
         \A j \in Job : j \in X /\ status[j] = "absent" => RunOf[j] \in X
  PROVE  /\ tx'[s].op = op /\ tx'[s].at = at /\ tx'[s].todo = todo /\ tx'[s].cur = cur
         /\ tx'[s].want = "none" /\ tx'[s].draft = draft
         /\ \A x \in Row : lock'[x] = (IF x \in X THEN s ELSE lock[x]) /\ lock[x] # s
         /\ UNCHANGED <<status, hb>>
         /\ SessionInv(s)' => LockInv'
<1> DEFINE v == [Idle EXCEPT !.op = op, !.at = at, !.todo = todo, !.cur = cur, !.draft = draft]
<1>1. tx[s] = Idle /\ tx' = [tx EXCEPT ![s] = v] /\ UNCHANGED <<status, hb>>
  BY DEF Begin
<1>2. v \in Transactions
  BY DEF Idle, NoDraft, Transactions, Values
<1>3. /\ v.op = op /\ v.at = at /\ v.todo = todo /\ v.cur = cur /\ v.want = "none" /\ v.draft = draft
      /\ tx'[s] = v
  BY <1>1 DEF Idle, LockInv, Types
<1>4. \A x \in Row : lock'[x] = (IF x \in X THEN s ELSE lock[x]) /\ lock[x] # s
  BY <1>1 DEF Begin, LockInv, SessionInv, Position, Idle
<1>5. lock' \in [Row -> Session \cup {Nobody}] /\ OnlyLocksOf(s)
  BY DEF Begin, LockInv, Types, OnlyLocksOf, MayLock
<1>6. ASSUME NEW j \in Job, status[j] = "absent", lock'[j] # Nobody PROVE lock'[RunOf[j]] = lock'[j]
  BY <1>4, <1>6, Keys DEF LockInv, JobsFollowRuns, MayLock, Row
<1> HIDE DEF v
<1> QED BY <1>1, <1>2, <1>3, <1>4, <1>5, <1>6, OpenStep

LEMMA BeginContactStep ==
  ASSUME LockInv, NEW s \in Session, NEW d \in Device, BeginContact(s, d) \/ BeginInsert(s, d)
  PROVE  LockInv'
<1>1. NoDraft \in [Row -> Values] /\ \A x \in Row : NoDraft[x] = "same"
  BY DEF NoDraft, Values
<1>2. CASE BeginContact(s, d)
  <2>1. /\ Begin(s, "contact", "contact", {}, d, NoDraft, {d}) /\ MayLock(s, d)
        /\ d \in Row /\ d \notin Job
    BY <1>2, Tables DEF BeginContact, Row
  <2>2. /\ tx'[s].op = "contact" /\ tx'[s].at = "contact" /\ tx'[s].cur = d /\ tx'[s].draft = NoDraft
        /\ lock'[d] = s
        /\ SessionInv(s)' => LockInv'
    BY <1>1, <2>1, BeginStep
  <2>3. SessionInv(s)'
    BY <1>1, <2>2 DEF SessionInv, Position, Ending, Written, NewJobs, OnlineDrafts, Tabled, Row
  <2> QED BY <2>2, <2>3
<1>3. CASE BeginInsert(s, d)
  <2> DEFINE X == {}
  <2>1. /\ Begin(s, "contact", "insert", X, d, NoDraft, X) /\ d \in Row /\ X \in SUBSET Row
        /\ \A x \in Row : x \notin X
    BY <1>3 DEF BeginInsert, Row
  <2> HIDE DEF X
  <2>2. /\ tx'[s].op = "contact" /\ tx'[s].at = "insert" /\ tx'[s].cur = d /\ tx'[s].draft = NoDraft
        /\ \A x \in Row : lock'[x] # s
        /\ SessionInv(s)' => LockInv'
    BY <1>1, <2>1, BeginStep
  <2>3. SessionInv(s)'
    BY <1>1, <2>2 DEF SessionInv, Position, Ending, Written, NewJobs, OnlineDrafts, Tabled, Row
  <2> QED BY <2>2, <2>3
<1> QED BY <1>2, <1>3

LEMMA BeginMarkStaleStep ==
  ASSUME LockInv, NEW s \in Session, BeginMarkStale(s)
  PROVE  LockInv'
<1>1. NoDraft \in [Row -> Values] /\ \A x \in Row : NoDraft[x] = "same"
  BY DEF NoDraft, Values
<1>2. PICK d \in Device : Begin(s, "mark_stale", "scan", {x \in Device : Stale(x)}, d, NoDraft, {})
  BY DEF BeginMarkStale
<1>3. /\ tx'[s].op = "mark_stale" /\ tx'[s].at = "scan" /\ tx'[s].cur = d /\ tx'[s].draft = NoDraft
      /\ tx'[s].todo \subseteq Device
      /\ SessionInv(s)' => LockInv'
  <2>1. d \in Row /\ {x \in Device : Stale(x)} \in SUBSET Row
    BY DEF Row
  <2> QED BY <1>1, <1>2, <2>1, BeginStep
<1>4. SessionInv(s)'
  BY <1>1, <1>3 DEF SessionInv, Position, Ending, Written, NewJobs, OnlineDrafts, Tabled, Row
<1> QED BY <1>3, <1>4

LEMMA BeginClaimStep ==
  ASSUME LockInv, NEW s \in Session, NEW j \in Job, BeginClaim(s, j)
  PROVE  LockInv'
<1> DEFINE draft == [NoDraft EXCEPT ![j] = "running"]
<1>1. /\ draft \in [Row -> Values]
      /\ \A x \in Row : draft[x] = IF x = j THEN "running" ELSE "same"
      /\ j \in Row /\ j \notin Device /\ j \notin Run
  BY Tables DEF NoDraft, Values, Row, JobStatuses, ActiveJobStatuses
<1>2. /\ Begin(s, "claim", "run", {j}, j, draft, {j}) /\ MayLock(s, j)
      /\ status[j] \in ActiveJobStatuses /\ status[j] # "absent"
  BY DEF BeginClaim, ActiveJobStatuses
<1> DEFINE X == {j}
<1>3. /\ X \in SUBSET Row /\ (\A x \in X : MayLock(s, x)) /\ j \in X
      /\ \A k \in Job : k \in X /\ status[k] = "absent" => RunOf[k] \in X
      /\ Begin(s, "claim", "run", X, j, draft, X)
  BY <1>1, <1>2
<1>4. X = {j}
  OBVIOUS
<1> HIDE DEF draft, X
<1>5. /\ tx'[s].op = "claim" /\ tx'[s].at = "run" /\ tx'[s].cur = j /\ tx'[s].draft = draft
      /\ tx'[s].todo = X /\ lock'[j] = s /\ status' = status
      /\ SessionInv(s)' => LockInv'
  BY <1>1, <1>3, BeginStep
<1>6. SessionInv(s)'
  BY <1>1, <1>2, <1>4, <1>5
  DEF SessionInv, Position, Ending, Written, NewJobs, OnlineDrafts, Tabled, Row, JobStatuses, ActiveJobStatuses
<1> QED BY <1>5, <1>6

LEMMA BeginCloseStep ==
  ASSUME LockInv, NEW s \in Session, NEW J \in SUBSET Job, BeginClose(s, J)
  PROVE  LockInv'
<1>1. NoDraft \in [Row -> Values] /\ \A x \in Row : NoDraft[x] = "same"
  BY DEF NoDraft, Values
<1>2. /\ Begin(s, "close", "next", J, Nobody, NoDraft, J) /\ J \in SUBSET Row
      /\ \A j \in J : status[j] = "running" /\ MayLock(s, j)
  BY DEF BeginClose, Row
<1>3. /\ tx'[s].op = "close" /\ tx'[s].at = "next" /\ tx'[s].todo = J /\ tx'[s].draft = NoDraft
      /\ \A j \in J : lock'[j] = s
      /\ status' = status
      /\ SessionInv(s)' => LockInv'
  BY <1>1, <1>2, BeginStep
<1>4. SessionInv(s)'
  BY <1>1, <1>2, <1>3 DEF SessionInv, Position, Ending, Written, NewJobs, OnlineDrafts, Tabled, Row
<1> QED BY <1>3, <1>4

\* The devices are online, so they are free, and a run has one job on each.
LEMMA BeginCreateStep ==
  ASSUME LockInv, NEW s \in Session, NEW r \in Run, NEW D \in SUBSET Device,
         D \subseteq Selected(s, Device), BeginCreate(s, r, D)
  PROVE  LockInv'
<1> DEFINE new   == {j \in JobsOf(r) : DeviceOf[j] \in D}
           draft == [x \in Row |-> IF x \in D THEN "busy" ELSE IF x \in new \cup {r} THEN "queued" ELSE "same"]
<1>1. /\ draft \in [Row -> Values]
      /\ new \subseteq Job /\ r \in Row /\ D \cup new \cup {r} \in SUBSET Row
      /\ Row \cap Device = Device
  BY DEF Values, Row, JobsOf, DeviceStatuses, RunStatuses
<1>2. /\ Begin(s, "create", "commit", {}, r, draft, D \cup new \cup {r})
      /\ status[r] = "absent" /\ lock[r] = Nobody
  BY DEF BeginCreate
<1>3. \A j \in Job : j \in new => RunOf[j] = r /\ DeviceOf[j] \in D
  BY DEF JobsOf
<1>4. \A j \in Job : j \in new => status[j] = "absent" /\ lock[j] = Nobody
  BY <1>2, <1>3 DEF LockInv, JobsFollowRuns
<1>5. \A d \in D : MayLock(s, d) /\ ActiveOn(d) = {}
  BY DEF Selected, Fresh, LockInv, ReservationsAreExclusive, ActiveOn
<1> DEFINE X == D \cup new \cup {r}
<1>6. /\ X \in SUBSET Row /\ {} \in SUBSET Row /\ \A x \in X : MayLock(s, x)
      /\ \A j \in Job : j \in X /\ status[j] = "absent" => RunOf[j] \in X
      /\ Begin(s, "create", "commit", {}, r, draft, X)
  BY <1>1, <1>2, <1>3, <1>4, <1>5, Tables DEF MayLock
<1>7. /\ \A d \in Device : draft[d] = IF d \in D THEN "busy" ELSE "same"
      /\ \A j \in Job : draft[j] = IF j \in new THEN "queued" ELSE "same"
      /\ \A x \in Run : draft[x] = IF x = r THEN "queued" ELSE "same"
      /\ \A x \in Row : draft[x] # "same" => x \in X
  BY <1>1, Tables DEF Row
<1>x. D \cup {r} \subseteq X /\ new \subseteq X
  OBVIOUS
<1> HIDE DEF new, draft, X
<1>8. /\ tx'[s].op = "create" /\ tx'[s].at = "commit" /\ tx'[s].todo = {} /\ tx'[s].cur = r
      /\ tx'[s].draft = draft
      /\ \A x \in X : lock'[x] = s
      /\ status' = status
      /\ SessionInv(s)' => LockInv'
  BY <1>1, <1>6, BeginStep
<1>9. Position(s)' /\ Ending(s)'
  BY <1>8 DEF Position, Ending
<1>10. Written(s)'
  BY <1>4, <1>7, <1>8 DEF Written, Tabled, DeviceStatuses, RunStatuses, JobStatuses, ActiveJobStatuses
<1>11. NewJobs(s)' /\ OnlineDrafts(s)'
  BY <1>3, <1>5, <1>7, <1>8, Keys DEF NewJobs, OnlineDrafts, ActiveOn, JobsOn
<1> QED BY <1>8, <1>9, <1>10, <1>11 DEF SessionInv

-----------------------------------------------------------------------------
(* The statements in between. *)

TakesAtMostOne(s) ==
  lock' = lock \/ \E x \in Row : Take(s, x) /\ (x \in Job => status[x] # "absent")

\* A statement, which locks one row or none.
LEMMA StatementStep ==
  ASSUME LockInv, NEW s \in Session, UNCHANGED <<status, hb>>, TakesAtMostOne(s),
         tx'[s] \in Transactions, tx' = [tx EXCEPT ![s] = tx'[s]], SessionInv(s)'
  PROVE  LockInv'
<1>1. /\ lock' \in [Row -> Session \cup {Nobody}] /\ OnlyLocksOf(s)
      /\ \A j \in Job : status[j] = "absent" /\ lock'[j] # Nobody => lock'[RunOf[j]] = lock'[j]
  BY TakeOne, SameLocks DEF TakesAtMostOne
<1>2. PICK v \in Transactions : tx' = [tx EXCEPT ![s] = v]
  OBVIOUS
<1> QED BY <1>1, <1>2, OpenStep

LEMMA WriteStep ==
  ASSUME LockInv, NEW s \in Session, NEW x \in Row, NEW v \in Values,
         NEW at \in {"contact", "run", "commit"}, Write(s, x, v, at)
  PROVE  /\ tx' = [tx EXCEPT ![s] = tx'[s]] /\ tx'[s] \in Transactions
         /\ tx'[s].op = tx[s].op /\ tx'[s].at = at /\ tx'[s].todo = tx[s].todo /\ tx'[s].cur = tx[s].cur
         /\ tx'[s].want = tx[s].want
         /\ \A y \in Row : tx'[s].draft[y] = IF y = x THEN v ELSE tx[s].draft[y]
BY DEF LockInv, Types, Transactions, Write

\* A statement that writes a row and goes on with `todo` and `cur`.
GoOn(s, x, v, todo, cur, at) ==
  tx' = [tx EXCEPT ![s].draft[x] = v, ![s].todo = todo, ![s].cur = cur, ![s].at = at]

\* What it leaves.
WentOn(s, x, v, todo, cur, at) ==
  /\ tx' = [tx EXCEPT ![s] = tx'[s]] /\ tx'[s] \in Transactions
  /\ tx'[s].op = tx[s].op /\ tx'[s].at = at /\ tx'[s].todo = todo /\ tx'[s].cur = cur
  /\ tx'[s].want = tx[s].want
  /\ \A y \in Row : tx'[s].draft[y] = IF y = x THEN v ELSE tx[s].draft[y]

LEMMA GoOnStep ==
  ASSUME LockInv, NEW s \in Session, NEW x \in Row, NEW v \in Values, NEW todo \in SUBSET Row,
         NEW cur \in Row \cup {Nobody}, NEW at \in {"scan", "next", "commit"},
         GoOn(s, x, v, todo, cur, at)
  PROVE  WentOn(s, x, v, todo, cur, at)
<1>1. tx[s] \in Transactions /\ DOMAIN tx = Session
  BY DEF LockInv, Types
<1>2. tx'[s] = [tx[s] EXCEPT !.draft = [@ EXCEPT ![x] = v], !.todo = todo, !.cur = cur, !.at = at]
  BY <1>1 DEF GoOn
<1>3. tx' = [tx EXCEPT ![s] = tx'[s]]
  BY <1>1, <1>2 DEF GoOn
<1>4. tx[s].draft \in [Row -> Values] /\ [tx[s].draft EXCEPT ![x] = v] \in [Row -> Values]
  BY <1>1 DEF Transactions
<1>5. tx'[s] \in Transactions
  BY <1>1, <1>2, <1>4 DEF Transactions
<1>6. /\ tx'[s].op = tx[s].op /\ tx'[s].at = at /\ tx'[s].todo = todo /\ tx'[s].cur = cur
      /\ tx'[s].want = tx[s].want /\ tx'[s].draft = [tx[s].draft EXCEPT ![x] = v]
  BY <1>1, <1>2 DEF Transactions
<1> QED BY <1>3, <1>4, <1>5, <1>6 DEF WentOn

LEMMA InsertStep ==
  ASSUME LockInv, NEW s \in Session, Insert(s)
  PROVE  LockInv'
<1> DEFINE d == tx[s].cur
<1>1. /\ tx[s].at = "insert" /\ tx[s].op = "contact" /\ d \in Device /\ d \in Row /\ d \notin Job /\ d \notin Run
      /\ status[d] = "absent" /\ Take(s, d) /\ UNCHANGED <<status, hb>>
      /\ Write(s, d, "online", "commit")
      /\ \A x \in Row : tx[s].draft[x] = "same"
  BY Tables DEF Insert, LockInv, SessionInv, Position, Row
<1>2. /\ tx' = [tx EXCEPT ![s] = tx'[s]] /\ tx'[s] \in Transactions
      /\ tx'[s].op = "contact" /\ tx'[s].at = "commit"
      /\ \A y \in Row : tx'[s].draft[y] = IF y = d THEN "online" ELSE "same"
  BY <1>1, WriteStep DEF Values, DeviceStatuses
<1>3. lock'[d] = s /\ ActiveOn(d) = {}
  BY <1>1, TakeOne DEF LockInv, ReservationsAreExclusive, ActiveOn
<1>4. SessionInv(s)'
  BY <1>1, <1>2, <1>3
  DEF SessionInv, Position, Ending, Written, NewJobs, OnlineDrafts, ActiveOn, JobsOn, Tabled, Row, DeviceStatuses
<1> QED BY <1>1, <1>2, <1>4, StatementStep DEF TakesAtMostOne

LEMMA ContactStep ==
  ASSUME LockInv, NEW s \in Session, Contact(s)
  PROVE  LockInv'
<1> DEFINE d == tx[s].cur
           v == IF ActiveOn(d) # {} THEN "busy" ELSE "online"
<1>1. /\ tx[s].at = "contact" /\ tx[s].op = "contact" /\ d \in Device /\ d \in Row /\ d \notin Job /\ d \notin Run
      /\ lock[d] = s /\ UNCHANGED <<status, hb, lock>>
      /\ Write(s, d, v, "commit")
  BY Tables DEF Contact, LockInv, SessionInv, Position, Row, ActiveOn
<1>2. /\ tx' = [tx EXCEPT ![s] = tx'[s]] /\ tx'[s] \in Transactions
      /\ tx'[s].op = "contact" /\ tx'[s].at = "commit"
      /\ \A y \in Row : tx'[s].draft[y] = IF y = d THEN v ELSE tx[s].draft[y]
  BY <1>1, WriteStep DEF Values, DeviceStatuses
<1>3. v \in {"busy", "online"} /\ (v = "online" => ActiveOn(d) = {})
  OBVIOUS
<1> HIDE DEF v
<1>4. Position(s)' /\ Ending(s)'
  BY <1>2 DEF Position, Ending
<1>5. Written(s)'
  BY <1>1, <1>2, <1>3 DEF LockInv, SessionInv, Written, Tabled, Row, DeviceStatuses
<1>6. NewJobs(s)' /\ OnlineDrafts(s)'
  BY <1>1, <1>2, <1>3, Keys, Tables DEF LockInv, SessionInv, NewJobs, OnlineDrafts, ActiveOn, JobsOn, Row
<1> QED BY <1>1, <1>2, <1>4, <1>5, <1>6, StatementStep DEF TakesAtMostOne, SessionInv

LEMMA MarkRowStep ==
  ASSUME LockInv, NEW s \in Session, MarkRow(s)
  PROVE  LockInv'
<1> DEFINE d == tx[s].cur
           rest == tx[s].todo \ {d}
           v == IF Stale(d) THEN "offline" ELSE "same"
<1>1. /\ tx[s].at = "scan" /\ tx[s].op = "mark_stale" /\ d \in Device /\ d \in Row /\ d \notin Job /\ d \notin Run
      /\ Take(s, d) /\ UNCHANGED <<status, hb>>
  BY Tables DEF MarkRow, LockInv, SessionInv, Position, Row
<1>2. PICK next \in IF rest = {} THEN {Nobody} ELSE rest :
        tx' = [tx EXCEPT ![s].draft[d] = v, ![s].todo = rest, ![s].cur = next,
                         ![s].at = IF rest = {} THEN "commit" ELSE "scan"]
  BY DEF MarkRow
<1>3. v \in {"same", "offline"} /\ lock'[d] = s /\ tx[s].todo \subseteq Device /\ TakesAtMostOne(s)
  <2>1. lock'[d] = s
    BY <1>1, TakeOne
  <2> QED BY <1>1, <2>1 DEF LockInv, SessionInv, Ending, TakesAtMostOne
<1> HIDE DEF v
<1>4. /\ tx' = [tx EXCEPT ![s] = tx'[s]] /\ tx'[s] \in Transactions
      /\ tx'[s].op = "mark_stale" /\ tx'[s].at = (IF rest = {} THEN "commit" ELSE "scan")
      /\ tx'[s].cur = next /\ tx'[s].todo = rest
      /\ \A y \in Row : tx'[s].draft[y] = IF y = d THEN v ELSE tx[s].draft[y]
  <2> DEFINE at == IF rest = {} THEN "commit" ELSE "scan"
  <2>1. /\ v \in Values /\ rest \in SUBSET Row /\ next \in Row \cup {Nobody}
        /\ at \in {"scan", "next", "commit"}
    BY <1>3 DEF Values, DeviceStatuses, Row
  <2>2. GoOn(s, d, v, rest, next, at)
    BY <1>2 DEF GoOn
  <2> HIDE DEF at, rest, d
  <2>3. d \in Row
    BY <1>1
  <2>4. WentOn(s, d, v, rest, next, at)
    BY <2>1, <2>2, <2>3, GoOnStep, Zenon
  <2> QED BY <1>1, <2>4 DEF WentOn, at
<1>5. \A x \in Row : lock[x] = s => lock'[x] = s
  BY <1>3, TakeOne DEF TakesAtMostOne
<1>6. Position(s)'
  BY <1>2, <1>3, <1>4 DEF Position
<1>7. Ending(s)'
  BY <1>3, <1>4 DEF Ending
<1>8. Written(s)'
  BY <1>1, <1>3, <1>4, <1>5, Tables DEF LockInv, SessionInv, Written, Tabled, Row, DeviceStatuses
<1>9. NewJobs(s)'
  BY <1>1, <1>3, <1>4, Keys, Tables DEF LockInv, SessionInv, NewJobs, Position, ActiveOn, JobsOn, Row
<1>10. OnlineDrafts(s)'
  BY <1>1, <1>3, <1>4, Tables DEF LockInv, SessionInv, OnlineDrafts, ActiveOn, JobsOn, Row
<1> QED BY <1>1, <1>3, <1>4, <1>6, <1>7, <1>8, <1>9, <1>10, StatementStep DEF SessionInv

LEMMA CloseNextStep ==
  ASSUME LockInv, NEW s \in Session, NEW j \in Job, NEW target \in {"retrying", "passed", "failed"},
         CloseNext(s, j, target)
  PROVE  LockInv'
<1>1. /\ tx[s].at = "next" /\ tx[s].op = "close" /\ j \in tx[s].todo /\ j \in Row /\ j \notin Device /\ j \notin Run
      /\ UNCHANGED <<status, hb, lock>>
      /\ lock[j] = s /\ status[j] = "running" /\ tx[s].draft[j] = "same"
  BY Tables DEF CloseNext, LockInv, SessionInv, Position, Ending, Row
<1>2. /\ tx' = [tx EXCEPT ![s] = tx'[s]] /\ tx'[s] \in Transactions
      /\ tx'[s].op = "close" /\ tx'[s].at = (IF target = "retrying" THEN "run" ELSE "release")
      /\ tx'[s].cur = j /\ tx'[s].todo = tx[s].todo
      /\ \A y \in Row : tx'[s].draft[y] = IF y = j THEN target ELSE tx[s].draft[y]
  BY <1>1 DEF CloseNext, LockInv, Types, Transactions, Values, JobStatuses, ActiveJobStatuses, TerminalJobStatuses
<1>3. Position(s)'
  BY <1>1, <1>2 DEF Position, TerminalJobStatuses
<1>4. Ending(s)'
  BY <1>1, <1>2 DEF LockInv, SessionInv, Ending, Row
<1>5. Written(s)'
  BY <1>1, <1>2
  DEF LockInv, SessionInv, Written, Tabled, Row, JobStatuses, ActiveJobStatuses, TerminalJobStatuses
<1>6. NewJobs(s)'
  BY <1>1, <1>2, Keys, Tables DEF LockInv, SessionInv, NewJobs, ActiveOn, JobsOn, Row
<1>7. OnlineDrafts(s)'
  BY <1>1, <1>2, Tables DEF LockInv, SessionInv, OnlineDrafts, ActiveOn, JobsOn, Row, ActiveJobStatuses, TerminalJobStatuses
<1> QED BY <1>1, <1>2, <1>3, <1>4, <1>5, <1>6, <1>7, StatementStep DEF TakesAtMostOne, SessionInv

LEMMA SameEnding ==
  ASSUME NEW s \in Session, Ending(s), status' = status, \A x \in Row : lock[x] = s => lock'[x] = s,
         tx'[s].op = tx[s].op, tx'[s].todo = tx[s].todo, tx'[s].cur = tx[s].cur, tx'[s].draft = tx[s].draft,
         tx[s].at # "next", tx'[s].at # "next"
  PROVE  Ending(s)'
BY DEF Ending, Row

\* A statement that writes nothing and goes on with the same job.
LEMMA SilentStep ==
  ASSUME LockInv, NEW s \in Session, UNCHANGED <<status, hb>>, TakesAtMostOne(s),
         NEW at \in {"run", "flush", "recompute"}, NEW want \in {"none", "online", "offline"},
         tx' = [tx EXCEPT ![s].want = want, ![s].at = at],
         tx[s].at \in {"release", "run"}, at = "recompute" => lock'[RunOf[tx[s].cur]] = s,
         at = "flush" => tx[s].at = "release" /\ want # "none"
  PROVE  LockInv'
<1>1. /\ tx' = [tx EXCEPT ![s] = tx'[s]] /\ tx'[s] \in Transactions
      /\ tx'[s].op = tx[s].op /\ tx'[s].at = at /\ tx'[s].want = want
      /\ tx'[s].cur = tx[s].cur /\ tx'[s].todo = tx[s].todo /\ tx'[s].draft = tx[s].draft
  BY DEF LockInv, Types, Transactions
<1>2. \A x \in Row : lock[x] = s => lock'[x] = s
  BY TakeOne DEF TakesAtMostOne
<1>s. SessionInv(s) /\ tx[s].at # "next" /\ tx'[s].at # "next" /\ status' = status
  BY <1>1 DEF LockInv
<1>3. Position(s)'
  BY <1>1, <1>2 DEF LockInv, SessionInv, Position, Row
<1>4. Ending(s)'
  <2>1. Ending(s) /\ tx[s].at # "next" /\ tx'[s].at # "next" /\ status' = status
    BY <1>s DEF SessionInv
  <2>2. tx'[s].op = tx[s].op /\ tx'[s].todo = tx[s].todo /\ tx'[s].cur = tx[s].cur /\ tx'[s].draft = tx[s].draft
    BY <1>1
  <2> QED BY <1>2, <2>1, <2>2, SameEnding
<1>5. Written(s)'
  <2>1. Written(s)
    BY <1>s DEF SessionInv
  <2> QED BY <1>1, <1>2, <1>s, <2>1 DEF Written, Tabled
<1>6. NewJobs(s)' /\ OnlineDrafts(s)'
  <2>1. NewJobs(s) /\ OnlineDrafts(s) /\ \A d \in Device : ActiveOn(d)' = ActiveOn(d)
    BY <1>s DEF SessionInv, ActiveOn, JobsOn
  <2>2. NewJobs(s)'
    BY <1>1, <1>s, <2>1, Keys DEF NewJobs
  <2>3. OnlineDrafts(s)'
    BY <1>1, <2>1 DEF OnlineDrafts
  <2> QED BY <2>2, <2>3
<1> QED BY <1>1, <1>3, <1>4, <1>5, <1>6, StatementStep DEF SessionInv

LEMMA ReadDeviceStep ==
  ASSUME LockInv, NEW s \in Session, ReadDevice(s)
  PROVE  LockInv'
<1>1. /\ UNCHANGED <<status, hb>> /\ TakesAtMostOne(s) /\ tx[s].at = "release"
  BY DEF ReadDevice, TakesAtMostOne
<1>2. PICK want \in {"online", "offline"}, at \in {"run", "flush"} :
        tx' = [tx EXCEPT ![s].want = want, ![s].at = at]
  BY DEF ReadDevice
<1> QED BY <1>1, <1>2, SilentStep

\* The two statements of an ending that only read.
LEMMA ReadsOnly ==
  ASSUME LockInv, NEW s \in Session, ReadDevice(s) \/ LockRun(s)
  PROVE  /\ UNCHANGED <<status, hb>>
         /\ tx'[s].op = tx[s].op /\ tx'[s].todo = tx[s].todo /\ tx'[s].cur = tx[s].cur
         /\ tx'[s].draft = tx[s].draft
         /\ tx[s].at \in {"release", "run"} /\ tx'[s].at \in {"flush", "run", "recompute"}
<1>1. tx[s] \in Transactions /\ DOMAIN tx = Session
  BY DEF LockInv, Types
<1>2. CASE ReadDevice(s)
  <2>1. PICK want \in {"online", "offline"}, at \in {"run", "flush"} :
          tx' = [tx EXCEPT ![s].want = want, ![s].at = at]
    BY <1>2 DEF ReadDevice
  <2> QED BY <1>1, <1>2, <2>1 DEF ReadDevice, Transactions
<1>3. CASE LockRun(s)
  BY <1>1, <1>3 DEF LockRun, Transactions
<1> QED BY <1>2, <1>3

LEMMA LockRunStep ==
  ASSUME LockInv, NEW s \in Session, LockRun(s)
  PROVE  LockInv'
<1> DEFINE r == RunOf[tx[s].cur]
<1>1. /\ UNCHANGED <<status, hb>> /\ tx[s].at = "run" /\ Take(s, r) /\ r \in Row /\ r \notin Job
      /\ tx' = [tx EXCEPT ![s].at = "recompute"]
  BY Keys, Tables DEF LockRun, LockInv, SessionInv, Position, Row
<1>2. tx' = [tx EXCEPT ![s].want = tx[s].want, ![s].at = "recompute"]
  BY <1>1 DEF LockInv, Types, Transactions
<1>3. lock'[r] = s
  BY <1>1, TakeOne
<1>4. tx[s].want \in {"none", "online", "offline"}
  BY DEF LockInv, Types, Transactions
<1> HIDE DEF r
<1> QED BY <1>1, <1>2, <1>3, <1>4, SilentStep DEF TakesAtMostOne, r

LEMMA FlushDeviceStep ==
  ASSUME LockInv, NEW s \in Session, FlushDevice(s)
  PROVE  LockInv'
<1> DEFINE j == tx[s].cur
           d == DeviceOf[j]
           v == tx[s].want
<1>1. /\ tx[s].at = "flush" /\ tx[s].op = "close" /\ j \in Job /\ lock[j] = s /\ j \in tx[s].todo
      /\ status[j] = "running" /\ tx[s].draft[j] \in TerminalJobStatuses
      /\ d \in Device /\ d \in Row /\ d \notin Job /\ d \notin Run
      /\ v \in {"online", "offline"}
      /\ Take(s, d) /\ UNCHANGED <<status, hb>> /\ Write(s, d, v, "run")
  BY Keys, Tables DEF FlushDevice, LockInv, SessionInv, Position, Ending, Row
<1>2. /\ tx' = [tx EXCEPT ![s] = tx'[s]] /\ tx'[s] \in Transactions
      /\ tx'[s].op = "close" /\ tx'[s].at = "run" /\ tx'[s].cur = j /\ tx'[s].todo = tx[s].todo
      /\ \A y \in Row : tx'[s].draft[y] = IF y = d THEN v ELSE tx[s].draft[y]
  BY <1>1, WriteStep DEF Values, DeviceStatuses
<1>3. lock'[d] = s /\ \A x \in Row : lock[x] = s => lock'[x] = s
  BY <1>1, TakeOne
<1>4. ActiveOn(d) \subseteq {j}
  BY <1>1 DEF LockInv, ReservationsAreExclusive, ActiveOn, JobsOn, ActiveJobStatuses
<1>5. Position(s)'
  BY <1>1, <1>2, <1>3 DEF Position, Row
<1>6. Ending(s)'
  BY <1>1, <1>2, <1>3 DEF LockInv, SessionInv, Ending, Row
<1>7. Written(s)'
  BY <1>1, <1>2, <1>3, Tables DEF LockInv, SessionInv, Written, Tabled, Row, DeviceStatuses
<1>8. NewJobs(s)'
  BY <1>1, <1>2, Keys, Tables DEF LockInv, SessionInv, NewJobs, ActiveOn, JobsOn, Row
<1>9. OnlineDrafts(s)'
  BY <1>1, <1>2, <1>4, Tables DEF LockInv, SessionInv, OnlineDrafts, ActiveOn, JobsOn, Row
<1> QED BY <1>1, <1>2, <1>5, <1>6, <1>7, <1>8, <1>9, StatementStep DEF TakesAtMostOne, SessionInv

LEMMA RecomputeRunStep ==
  ASSUME LockInv, NEW s \in Session, RecomputeRun(s)
  PROVE  LockInv'
<1> DEFINE j == tx[s].cur
           r == RunOf[j]
           rest == tx[s].todo \ {j}
           v == Recompute(Sees(s, r), {Sees(s, k) : k \in JobsOf(r)} \ {"absent"})
<1>1. /\ tx[s].at = "recompute" /\ tx[s].op \in {"claim", "close"} /\ j \in Job /\ j \in tx[s].todo
      /\ r \in Run /\ r \in Row /\ r \notin Job /\ r \notin Device /\ lock[r] = s
      /\ UNCHANGED <<status, hb, lock>>
      /\ tx' = [tx EXCEPT ![s].draft[r] = v, ![s].todo = rest,
                          ![s].at = IF rest = {} THEN "commit" ELSE "next"]
  <2>1. tx[s].at = "recompute" /\ Position(s)
    BY DEF RecomputeRun, LockInv, SessionInv
  <2>2. tx[s].op \in {"claim", "close"} /\ j \in Job /\ j \in tx[s].todo /\ lock[r] = s
    BY <2>1 DEF Position
  <2>3. r \in Run /\ r \in Row /\ r \notin Job /\ r \notin Device
    BY <2>2, Keys, Tables DEF Row
  <2> QED BY <2>1, <2>2, <2>3 DEF RecomputeRun
<1>2. v \in RunStatuses
  BY DEF Recompute, RunStatuses, TerminalRunStatuses
<1> HIDE DEF v
<1>3. /\ tx' = [tx EXCEPT ![s] = tx'[s]] /\ tx'[s] \in Transactions
      /\ tx'[s].op = tx[s].op /\ tx'[s].at = (IF rest = {} THEN "commit" ELSE "next")
      /\ tx'[s].cur = j /\ tx'[s].todo = rest
      /\ \A y \in Row : tx'[s].draft[y] = IF y = r THEN v ELSE tx[s].draft[y]
  <2> DEFINE at == IF rest = {} THEN "commit" ELSE "next"
  <2>1. /\ v \in Values /\ rest \in SUBSET Row /\ j \in Row \cup {Nobody}
        /\ at \in {"scan", "next", "commit"}
    BY <1>1, <1>2 DEF LockInv, Types, Transactions, Values, Row
  <2>2. GoOn(s, r, v, rest, j, at)
    BY <1>1 DEF LockInv, Types, Transactions, GoOn
  <2> HIDE DEF at, rest, j, r
  <2>3. r \in Row
    BY <1>1
  <2>4. WentOn(s, r, v, rest, j, at)
    BY <2>1, <2>2, <2>3, GoOnStep, Zenon
  <2> QED BY <2>4 DEF WentOn, at
<1>4. tx[s].op = "claim" => rest = {}
  BY <1>1 DEF LockInv, SessionInv, Ending
<1>5. Position(s)'
  BY <1>1, <1>3, <1>4 DEF Position
<1>s. /\ SessionInv(s) /\ status' = status /\ lock' = lock /\ j \in Job /\ Job \subseteq Row
      /\ rest = tx[s].todo \ {j} /\ r \in Run /\ \A k \in Job : k # r
      /\ j = tx[s].cur /\ tx[s].at = "recompute"
  BY <1>1 DEF LockInv, Row
<1> HIDE DEF rest, r, j
<1>f. \A k \in Job : tx'[s].draft[k] = tx[s].draft[k]
  BY <1>3, <1>s
<1>6. Ending(s)'
  <2>1. Ending(s)
    BY <1>s DEF SessionInv
  <2>2. tx[s].op = "close" => \A k \in rest : k \in Job /\ lock[k] = s /\ status[k] = "running" /\ tx[s].draft[k] = "same"
    BY <1>s, <2>1 DEF Ending
  <2>3. tx[s].op # "mark_stale"
    BY <1>1
  <2> QED BY <1>3, <1>4, <1>f, <1>s, <2>2, <2>3 DEF Ending
<1>7. Written(s)'
  <2>1. Written(s)
    BY <1>s DEF SessionInv
  <2>2. \A d \in Device : tx'[s].draft[d] = tx[s].draft[d]
    BY <1>1, <1>3, <1>s, Tables DEF Row
  <2>3. Tabled(tx'[s].draft, "same")
    BY <1>2, <1>3, <1>f, <2>1, <2>2 DEF Written, Tabled, Row
  <2>4. \A x \in Row : tx'[s].draft[x] # "same" => lock[x] = s
    BY <1>1, <1>3, <2>1 DEF Written
  <2> QED BY <1>f, <1>s, <2>1, <2>3, <2>4 DEF Written
<1>8. NewJobs(s)'
  <2>1. \A k \in Job : ~(status[k] = "absent" /\ tx[s].draft[k] # "same")
    BY <1>1, <1>s DEF SessionInv, NewJobs
  <2> QED BY <1>f, <1>s, <2>1 DEF NewJobs
<1>9. OnlineDrafts(s)'
  <2>1. /\ OnlineDrafts(s)
        /\ \A d \in Device : /\ ActiveOn(d)' = ActiveOn(d) /\ ActiveOn(d) \subseteq Job
                            /\ tx'[s].draft[d] = tx[s].draft[d]
    BY <1>1, <1>3, <1>s, Tables DEF SessionInv, ActiveOn, JobsOn, Row
  <2> QED BY <1>f, <2>1 DEF OnlineDrafts
<1> QED BY <1>1, <1>3, <1>5, <1>6, <1>7, <1>8, <1>9, StatementStep DEF TakesAtMostOne, SessionInv

-----------------------------------------------------------------------------
(* The end of a transaction. *)

LEMMA IdleStep ==
  ASSUME LockInv, NEW s \in Session, Unlock(s), tx' = [tx EXCEPT ![s] = Idle]
  PROVE  /\ lock' \in [Row -> Session \cup {Nobody}] /\ OnlyLocksOf(s)
         /\ \A x \in Row : /\ lock[x] # s => lock'[x] = lock[x]
                           /\ lock[x] = s => lock'[x] = Nobody
         /\ tx'[s] = Idle /\ Idle \in Transactions /\ SessionInv(s)'
<1>1. Idle \in Transactions
  BY DEF Idle, NoDraft, Transactions, Values
<1>2. /\ lock' \in [Row -> Session \cup {Nobody}] /\ OnlyLocksOf(s)
      /\ \A x \in Row : /\ lock[x] # s => lock'[x] = lock[x]
                        /\ lock[x] = s => lock'[x] = Nobody
  BY DEF LockInv, Types, Unlock, OnlyLocksOf
<1>3. tx'[s] = Idle
  BY DEF LockInv, Types
<1>4. \A x \in Row : lock'[x] # s
  BY <1>2, NobodyIsNoSession
<1>5. SessionInv(s)'
  BY <1>3, <1>4 DEF SessionInv, Position, Ending, Written, NewJobs, OnlineDrafts, Tabled, Idle, NoDraft, Row
<1> QED BY <1>1, <1>2, <1>3, <1>5

LEMMA RollbackStep ==
  ASSUME LockInv, NEW s \in Session, Rollback(s)
  PROVE  LockInv'
<1>1. Unlock(s) /\ tx' = [tx EXCEPT ![s] = Idle] /\ UNCHANGED <<status, hb>>
  BY DEF Rollback
<1>2. ASSUME NEW j \in Job, status[j] = "absent", lock'[j] # Nobody PROVE lock'[RunOf[j]] = lock'[j]
  BY <1>1, <1>2, IdleStep, Keys DEF LockInv, JobsFollowRuns, Row
<1> QED BY <1>1, <1>2, IdleStep, OpenStep

LEMMA ReadStep ==
  ASSUME LockInv, NEW s \in Session, ReadRest(s) \/ \E r \in Run : BeginRead(s, r)
  PROVE  LockInv'
<1>1. UNCHANGED <<status, hb, lock>>
  BY DEF ReadRest, BeginRead
<1>2. CASE ReadRest(s)
  <2>1. tx' = [tx EXCEPT ![s] = Idle] /\ \A x \in Row : lock[x] # s
    BY <1>2 DEF ReadRest, LockInv, SessionInv, Position
  <2>2. Unlock(s)
    BY <1>1, <2>1 DEF Unlock, LockInv, Types
  <2> QED BY <1>1, <2>1, <2>2, IdleStep, SameLocks, OpenStep
<1>3. CASE \E r \in Run : BeginRead(s, r)
  <2>1. PICK r \in Run : BeginRead(s, r)
    BY <1>3
  <2> DEFINE seen == [x \in Row |-> IF x \in FirstRead(r) THEN status[x] ELSE "same"]
             v    == [Idle EXCEPT !.op = "read", !.at = "rest", !.cur = r, !.seen = seen]
  <2>2. /\ tx[s] = Idle /\ tx' = [tx EXCEPT ![s] = v] /\ seen \in [Row -> Values]
        /\ \A x \in Row : lock[x] # s
    <3>1. tx[s] = Idle /\ tx' = [tx EXCEPT ![s] = v]
      BY <2>1 DEF BeginRead
    <3>2. \A x \in Row : lock[x] # s
      BY <3>1 DEF LockInv, SessionInv, Position, Idle
    <3>3. seen \in [Row -> Values]
      BY DEF LockInv, Types, Values
    <3> QED BY <3>1, <3>2, <3>3
  <2>3. v \in Transactions /\ v.op = "read" /\ v.at = "rest" /\ v.todo = {} /\ v.draft = NoDraft
    BY <2>2 DEF Idle, NoDraft, Transactions, Values, Row
  <2>4. tx'[s] = v
    BY <2>2 DEF LockInv, Types
  <2> HIDE DEF v
  <2>5. SessionInv(s)'
    BY <1>1, <2>2, <2>3, <2>4
    DEF SessionInv, Position, Ending, Written, NewJobs, OnlineDrafts, Tabled, NoDraft, Row
  <2> QED BY <1>1, <2>2, <2>3, <2>5, SameLocks, OpenStep
<1> QED BY <1>2, <1>3

LEMMA ExpiryStep ==
  ASSUME LockInv, NEW d \in Device, HeartbeatExpires(d)
  PROVE  LockInv'
<1>1. UNCHANGED <<status, lock, tx>> /\ hb' = [hb EXCEPT ![d] = "stale"]
  BY DEF HeartbeatExpires
<1>2. Types' /\ Tabled(status, "absent")' /\ JobsFollowRuns' /\ ReservationsAreExclusive'
  BY <1>1 DEF LockInv, Types, Tabled, JobsFollowRuns, ReservationsAreExclusive, JobsOn
<1>3. ASSUME NEW s \in Session PROVE SessionInv(s)'
  BY <1>1 DEF LockInv, SessionInv, Position, Ending, Written, NewJobs, OnlineDrafts, ActiveOn, JobsOn, Tabled
<1> QED BY <1>2, <1>3 DEF LockInv

\* What is committed is what the rows were, or what s wrote to rows it held.
LEMMA CommitStep ==
  ASSUME LockInv, NEW s \in Session, Commit(s)
  PROVE  LockInv'
<1> DEFINE draft == tx[s].draft
<1>1. /\ Unlock(s) /\ tx' = [tx EXCEPT ![s] = Idle]
      /\ status' = [x \in Row |-> Sees(s, x)]
  BY DEF Commit
<1>2. \A x \in Row : status'[x] = IF draft[x] = "same" THEN status[x] ELSE draft[x]
  BY <1>1 DEF Sees
<1>3. /\ Written(s) /\ NewJobs(s) /\ OnlineDrafts(s) /\ Tabled(status, "absent")
      /\ JobsFollowRuns /\ ReservationsAreExclusive
  BY DEF LockInv, SessionInv
<1>4. Device \subseteq Row /\ Run \subseteq Row /\ Job \subseteq Row
  BY DEF Row
<1> HIDE DEF draft
<1>5. ASSUME NEW j \in Job, status'[j] = "absent" PROVE status[j] = "absent"
  BY <1>2, <1>3, <1>4, <1>5 DEF Written, Tabled, JobStatuses, ActiveJobStatuses, TerminalJobStatuses, draft
<1>6. ASSUME NEW j \in Job, status'[j] \in ActiveJobStatuses
      PROVE  /\ status[j] \in ActiveJobStatuses \cup {"absent"}
             /\ status[j] = "absent" => draft[j] # "same"
  BY <1>2, <1>3, <1>4, <1>6 DEF Written, ActiveJobStatuses, draft
<1>7. Types'
  <2>1. status' \in [Row -> Values]
    <3>1. status \in [Row -> Values] /\ draft \in [Row -> Values]
      BY DEF LockInv, Types, Transactions, draft
    <3> QED BY <1>1, <3>1 DEF Sees, draft
  <2>2. hb' \in [Device -> {"fresh", "stale"}]
    BY DEF Commit, LockInv, Types
  <2> QED BY <1>1, <2>1, <2>2, IdleStep DEF LockInv, Types
<1>8. Tabled(status, "absent")'
  BY <1>2, <1>3, <1>4 DEF Written, Tabled, draft
<1>9. JobsFollowRuns'
  <2>1. ASSUME NEW j \in Job, status'[j] # "absent" PROVE status'[RunOf[j]] # "absent"
    <3>1. RunOf[j] \in Run
      BY Keys
    <3>2. CASE status[j] = "absent"
      <4>1. draft[RunOf[j]] = "queued"
        BY <1>2, <1>3, <1>4, <2>1, <3>2 DEF NewJobs, draft
      <4> QED BY <1>2, <1>4, <3>1, <4>1
    <3>3. CASE status[j] # "absent"
      <4>1. status[RunOf[j]] # "absent" /\ draft[RunOf[j]] # "absent"
        BY <1>3, <3>1, <3>3 DEF JobsFollowRuns, Written, Tabled, RunStatuses, TerminalRunStatuses, draft
      <4> QED BY <1>2, <1>4, <3>1, <4>1
    <3> QED BY <3>2, <3>3
  <2>2. ASSUME NEW j \in Job, status'[j] = "absent", lock'[j] # Nobody PROVE lock'[RunOf[j]] = lock'[j]
    BY <1>1, <1>3, <1>4, <1>5, <2>2, IdleStep, Keys DEF JobsFollowRuns
  <2> QED BY <2>1, <2>2 DEF JobsFollowRuns
<1>10. ReservationsAreExclusive'
  <2>1. ASSUME NEW d \in Device, NEW j \in JobsOn(d), status'[j] \in ActiveJobStatuses
        PROVE  /\ status'[d] \notin {"online", "absent"}
               /\ \A k \in JobsOn(d) : status'[k] \in ActiveJobStatuses => j = k
    <3>1. j \in Job /\ DeviceOf[j] = d
      BY DEF JobsOn
    <3>2. CASE status[j] = "absent"
      <4>1. draft[d] = "busy" /\ ActiveOn(d) = {} /\ RunOf[j] = tx[s].cur
        BY <1>3, <1>6, <2>1, <3>1, <3>2 DEF NewJobs, draft
      <4>2. ASSUME NEW k \in JobsOn(d), status'[k] \in ActiveJobStatuses PROVE j = k
        <5>1. k \in Job /\ DeviceOf[k] = d /\ status[k] = "absent"
          BY <1>6, <4>1, <4>2 DEF JobsOn, ActiveOn
        <5>2. RunOf[k] = tx[s].cur
          BY <1>3, <1>6, <4>2, <5>1 DEF NewJobs, draft
        <5> QED BY <3>1, <4>1, <5>1, <5>2, Keys
      <4>3. status'[d] = "busy"
        BY <1>2, <1>4, <4>1
      <4> QED BY <4>2, <4>3
    <3>3. CASE status[j] # "absent"
      <4>1. j \in ActiveOn(d) /\ status[d] \notin {"online", "absent"}
        BY <1>3, <1>6, <2>1, <3>1, <3>3 DEF ActiveOn, ReservationsAreExclusive
      <4>2. draft[d] # "online"
        <5>1. draft[j] \notin TerminalJobStatuses
          BY <1>2, <1>4, <2>1, <3>1 DEF ActiveJobStatuses, TerminalJobStatuses
        <5> QED BY <1>3, <4>1, <5>1 DEF OnlineDrafts, draft
      <4>3. draft[d] # "absent"
        BY <1>3 DEF Written, Tabled, DeviceStatuses, draft
      <4>4. ASSUME NEW k \in JobsOn(d), status'[k] \in ActiveJobStatuses PROVE j = k
        <5>1. k \in Job /\ DeviceOf[k] = d
          BY DEF JobsOn
        <5>2. status[k] # "absent"
          BY <1>3, <1>6, <4>1, <4>4, <5>1 DEF NewJobs, draft
        <5>3. k \in ActiveOn(d)
          BY <1>6, <4>4, <5>1, <5>2 DEF ActiveOn
        <5> QED BY <1>3, <4>1, <5>3 DEF ReservationsAreExclusive, ActiveOn
      <4>5. status'[d] \notin {"online", "absent"}
        BY <1>2, <1>4, <4>1, <4>2, <4>3
      <4> QED BY <4>4, <4>5
    <3> QED BY <3>2, <3>3
  <2> QED BY <2>1 DEF ReservationsAreExclusive, JobsOn
<1>11. ASSUME NEW t \in Session \ {s} PROVE SessionInv(t)'
  <2>1. tx'[t] = tx[t]
    BY <1>1 DEF LockInv, Types
  <2>2. ASSUME NEW x \in Row, lock[x] = t PROVE status'[x] = status[x]
    BY <1>2, <1>3, <2>2 DEF Written, draft
  <2>3. ASSUME NEW d \in Device, lock[d] = t PROVE ActiveOn(d)' \subseteq ActiveOn(d)
    <3>1. ASSUME NEW j \in Job, DeviceOf[j] = d, status'[j] \in ActiveJobStatuses
          PROVE  status[j] \in ActiveJobStatuses
      BY <1>3, <1>4, <1>6, <2>3, <3>1 DEF NewJobs, Written, draft
    <3> QED BY <3>1 DEF ActiveOn, JobsOn
  <2> QED BY <1>1, <1>5, <2>1, <2>2, <2>3, IdleStep, OthersAreUndisturbed
<1> QED BY <1>1, <1>7, <1>8, <1>9, <1>10, <1>11, IdleStep DEF LockInv

-----------------------------------------------------------------------------
LEMMA LockInvNext == LockInv /\ [Next]_vars => LockInv'
<1> SUFFICES ASSUME LockInv, [Next]_vars PROVE LockInv'
  OBVIOUS
<1>1. CASE UNCHANGED vars
  BY <1>1 DEF LockInv, Types, Tabled, JobsFollowRuns, ReservationsAreExclusive, SessionInv, Position, Ending, Written,
              NewJobs, OnlineDrafts, ActiveOn, JobsOn, vars
<1>2. ASSUME NEW d \in Device, HeartbeatExpires(d) PROVE LockInv'
  BY <1>2, ExpiryStep
<1>3. ASSUME NEW s \in Session, Step(s) PROVE LockInv'
  <2>1. CASE \E d \in Device : BeginContact(s, d) \/ BeginInsert(s, d)
    BY <2>1, BeginContactStep
  <2>2. CASE Insert(s) \/ Contact(s) \/ BeginMarkStale(s) \/ MarkRow(s)
    BY <2>2, InsertStep, ContactStep, BeginMarkStaleStep, MarkRowStep
  <2>3. CASE \E r \in Run : CreateOnAll(s, r) \/ \E D \in SUBSET Device : CreateOnRequested(s, r, D)
    <3>1. PICK r \in Run : CreateOnAll(s, r) \/ \E D \in SUBSET Device : CreateOnRequested(s, r, D)
      BY <2>3
    <3>2. PICK D \in SUBSET Device : BeginCreate(s, r, D) /\ D \subseteq Selected(s, Device)
      BY <3>1 DEF CreateOnAll, CreateOnRequested, Selected
    <3> QED BY <3>2, BeginCreateStep
  <2>4. CASE \E j \in Job : BeginClaim(s, j)
    BY <2>4, BeginClaimStep
  <2>5. CASE \E J \in SUBSET Job : BeginClose(s, J)
    BY <2>5, BeginCloseStep
  <2>6. CASE \E j \in Job, target \in {"retrying", "passed", "failed"} : CloseNext(s, j, target)
    BY <2>6, CloseNextStep
  <2>7. CASE ReadDevice(s) \/ FlushDevice(s) \/ LockRun(s) \/ RecomputeRun(s)
    BY <2>7, ReadDeviceStep, FlushDeviceStep, LockRunStep, RecomputeRunStep
  <2>8. CASE ReadRest(s) \/ \E r \in Run : BeginRead(s, r)
    BY <2>8, ReadStep
  <2>9. CASE Commit(s) \/ Rollback(s)
    BY <2>9, CommitStep, RollbackStep
  <2> QED BY <1>3, <2>1, <2>2, <2>3, <2>4, <2>5, <2>6, <2>7, <2>8, <2>9 DEF Step
<1> QED BY <1>1, <1>2, <1>3 DEF Next

THEOREM LockingIsInvariant == Spec => []LockInv
BY LockInvInit, LockInvNext, PTL DEF Spec

\* The rows keep the statuses of their tables, and at any number of sessions a
\* transaction has only ever written rows that it holds the lock of.
THEOREM RowsAreTyped == Spec => []TypeOK
<1>1. LockInv => TypeOK
  <2> SUFFICES ASSUME LockInv PROVE TypeOK
    OBVIOUS
  <2>1. /\ \A s \in Session : tx[s].cur \in Row \cup {Nobody}
        /\ \A s \in Session, x \in Row : tx[s].draft[x] # "same" => lock[x] = s
    BY DEF LockInv, Types, Transactions, SessionInv, Written
  <2> QED BY <2>1 DEF LockInv, Types, Tabled, TypeOK
<1> QED BY <1>1, LockingIsInvariant, PTL

\* However many sessions select, reserve, release, scan and register devices
\* at once, no committed state lets a device out twice, or offers a busy one.
THEOREM ReservationsStayExclusive == Spec => []ReservationsAreExclusive
<1>1. LockInv => ReservationsAreExclusive
  BY DEF LockInv
<1> QED BY <1>1, LockingIsInvariant, PTL

-----------------------------------------------------------------------------
(* What a transaction holds while it waits.  It waits for a device or a    *)
(* run, never for a job, so only these rows matter.                        *)

Holding(s) ==
  /\ \A r \in Run : lock[r] = s => /\ tx[s].op # "mark_stale"
                                   /\ tx[s].at \notin {"recompute", "commit"} => Maintains(s)
  /\ \A d \in Device : lock[d] = s /\ tx[s].at \notin {"contact", "commit"} /\ ~Maintains(s)
       => tx[s].op = "close" /\ tx[s].at \in {"run", "recompute"} /\ d = DeviceOf[tx[s].cur]

HoldingInv == \A s \in Session : Holding(s)

\* A maintainer remains one until it gives up its locks.
LEMMA MaintainsOn ==
  ASSUME NEW s \in Session, tx'[s].op = tx[s].op, \A x \in Row : lock[x] = s => lock'[x] = s,
         Maintains(s)
  PROVE  Maintains(s)'
BY DEF Maintains, Row

\* A transaction begins with devices, with jobs, or as a whole.
LEMMA BeginHolds ==
  ASSUME LockInv, NEW s \in Session, NEW op, NEW at, NEW todo, NEW cur, NEW draft, NEW X,
         Begin(s, op, at, todo, cur, draft, X),
         \/ at = "commit" /\ op # "mark_stale"
         \/ at = "contact" /\ X \subseteq Device /\ op # "mark_stale"
         \/ X \subseteq Job
  PROVE  Holding(s)'
<1>1. tx[s] = Idle /\ tx'[s].op = op /\ tx'[s].at = at
  BY DEF Begin, Idle, LockInv, Types
<1>2. \A x \in Row : lock'[x] = s => x \in X
  BY <1>1 DEF Begin, LockInv, SessionInv, Position, Idle
<1> QED BY <1>1, <1>2, Tables DEF Holding, Row

\* A statement keeps its locks, and takes no device or run but those that the
\* conditions name.
LEMMA StatementHolds ==
  ASSUME LockInv, HoldingInv, NEW s \in Session, tx'[s].op = tx[s].op,
         \A x \in Row : lock[x] = s => lock'[x] = s,
         \A r \in Run : lock'[r] = s /\ lock[r] # s => tx'[s].op # "mark_stale" /\ tx'[s].at = "recompute",
         \A d \in Device : lock'[d] = s /\ lock[d] # s =>
            \/ tx'[s].at = "commit" \/ tx'[s].op = "mark_stale"
            \/ tx'[s].op = "close" /\ tx'[s].at = "run" /\ d = DeviceOf[tx'[s].cur],
         \/ tx'[s].at \in {"commit", "recompute"}
         \/ tx[s].at \notin {"recompute", "commit", "contact"} \/ Maintains(s)',
         \/ tx[s].at \notin {"run", "recompute", "commit", "contact"} \/ tx'[s].at = "commit"
         \/ tx'[s].at = "recompute" /\ tx[s].at = "run" /\ tx'[s].cur = tx[s].cur
         \/ Maintains(s)'
  PROVE  Holding(s)'
<1>1. Maintains(s) => Maintains(s)'
  BY MaintainsOn
<1>2. tx'[s].op = "mark_stale" => Maintains(s)'
  BY DEF Maintains
<1>3. Holding(s)
  BY DEF HoldingInv
<1>4. ASSUME NEW r \in Run, lock'[r] = s
      PROVE  tx'[s].op # "mark_stale" /\ (tx'[s].at \notin {"recompute", "commit"} => Maintains(s)')
  BY <1>1, <1>3, <1>4 DEF Holding
<1>5. ASSUME NEW d \in Device, lock'[d] = s, tx'[s].at \notin {"contact", "commit"}, ~Maintains(s)'
      PROVE  tx'[s].op = "close" /\ tx'[s].at \in {"run", "recompute"} /\ d = DeviceOf[tx'[s].cur]
  BY <1>1, <1>2, <1>3, <1>5 DEF Holding
<1> QED BY <1>4, <1>5 DEF Holding

\* The attempts that have been ended stay locked, so a reconciler that goes on
\* to the next one holds two jobs.
LEMMA SecondAttempt ==
  ASSUME LockInv, LockInv', NEW s \in Session, RecomputeRun(s), tx'[s].at # "commit"
  PROVE  Maintains(s)'
<1> DEFINE j    == tx[s].cur
           rest == tx[s].todo \ {j}
<1>1. tx[s].at = "recompute" /\ lock' = lock
  BY DEF RecomputeRun
<1>2. /\ tx'[s].at = (IF rest = {} THEN "commit" ELSE "next")
      /\ tx'[s].todo = rest /\ tx'[s].op = tx[s].op
  <2> DEFINE v == Recompute(Sees(s, RunOf[j]), {Sees(s, k) : k \in JobsOf(RunOf[j])} \ {"absent"})
  <2>1. tx' = [tx EXCEPT ![s].draft[RunOf[j]] = v, ![s].todo = rest,
                         ![s].at = IF rest = {} THEN "commit" ELSE "next"]
    BY DEF RecomputeRun
  <2>2. tx[s] \in Transactions /\ DOMAIN tx = Session
    BY DEF LockInv, Types
  <2> HIDE DEF v, rest, j
  <2>3. tx'[s] = [tx[s] EXCEPT !.draft = [@ EXCEPT ![RunOf[j]] = v], !.todo = rest,
                               !.at = IF rest = {} THEN "commit" ELSE "next"]
    BY <2>1, <2>2
  <2> QED BY <2>2, <2>3 DEF Transactions
<1>3. j \in Job /\ lock[j] = s
  BY <1>1 DEF LockInv, SessionInv, Position
<1>4. PICK k \in rest : TRUE
  BY <1>2
<1>5. tx'[s].op = "close"
  BY <1>2, <1>4 DEF LockInv, SessionInv, Position
<1>6. k \in Job /\ lock'[k] = s
  BY <1>2, <1>4, <1>5 DEF LockInv, SessionInv, Ending
<1> QED BY <1>1, <1>3, <1>4, <1>6 DEF Maintains

\* A step of s leaves the other transactions, and the rows they hold, to them.
LEMMA OneSessionSteps ==
  ASSUME LockInv, NEW s \in Session, Step(s)
  PROVE  (\A t \in Session \ {s} : tx'[t] = tx[t]) /\ OnlyLocksOf(s)
<1>t. /\ tx \in [Session -> Transactions] /\ lock \in [Row -> Session \cup {Nobody}]
      /\ Device \subseteq Row /\ Run \subseteq Row /\ Job \subseteq Row
  BY DEF LockInv, Types, Row
<1>1. ASSUME NEW op, NEW at, NEW todo, NEW cur, NEW draft, NEW X, Begin(s, op, at, todo, cur, draft, X),
             \A x \in X : MayLock(s, x)
      PROVE  (\A t \in Session \ {s} : tx'[t] = tx[t]) /\ OnlyLocksOf(s)
  BY <1>t, <1>1 DEF Begin, MayLock, OnlyLocksOf
<1>2. CASE \E d \in Device : BeginContact(s, d) \/ BeginInsert(s, d)
  <2>1. PICK d \in Device : BeginContact(s, d) \/ BeginInsert(s, d)
    BY <1>2
  <2> QED BY <1>1, <2>1 DEF BeginContact, BeginInsert
<1>3. CASE BeginMarkStale(s)
  <2>1. PICK d \in Device : Begin(s, "mark_stale", "scan", {x \in Device : Stale(x)}, d, NoDraft, {})
    BY <1>3 DEF BeginMarkStale
  <2> QED BY <1>1, <2>1
<1>4. CASE \E r \in Run : CreateOnAll(s, r) \/ \E D \in SUBSET Device : CreateOnRequested(s, r, D)
  <2>1. PICK r \in Run, D \in SUBSET Device : BeginCreate(s, r, D) /\ D \subseteq Selected(s, Device)
    BY <1>4 DEF CreateOnAll, CreateOnRequested, Selected
  <2> DEFINE new == {j \in JobsOf(r) : DeviceOf[j] \in D}
  <2>2. \A x \in D \cup new \cup {r} : MayLock(s, x)
    <3>1. \A j \in new : status[j] = "absent" /\ lock[j] = Nobody
      BY <2>1 DEF BeginCreate, JobsOf, LockInv, JobsFollowRuns
    <3> QED BY <2>1, <3>1 DEF BeginCreate, Selected, MayLock
  <2> QED BY <1>1, <2>1, <2>2 DEF BeginCreate
<1>5. CASE \E j \in Job : BeginClaim(s, j)
  <2>1. PICK j \in Job : BeginClaim(s, j)
    BY <1>5
  <2> QED BY <1>1, <2>1 DEF BeginClaim
<1>6. CASE \E J \in SUBSET Job : BeginClose(s, J)
  <2>1. PICK J \in SUBSET Job : BeginClose(s, J)
    BY <1>6
  <2> QED BY <1>1, <2>1 DEF BeginClose
<1>7. CASE Insert(s) \/ FlushDevice(s) \/ LockRun(s) \/ MarkRow(s)
  BY <1>t, <1>7 DEF Insert, FlushDevice, LockRun, MarkRow, Take, MayLock, Write, OnlyLocksOf
<1>8. CASE \/ Contact(s) \/ ReadDevice(s) \/ RecomputeRun(s) \/ ReadRest(s) \/ \E r \in Run : BeginRead(s, r)
           \/ \E j \in Job, target \in {"retrying", "passed", "failed"} : CloseNext(s, j, target)
  BY <1>t, <1>8 DEF Contact, ReadDevice, RecomputeRun, ReadRest, BeginRead, CloseNext, Write, OnlyLocksOf
<1>9. CASE Commit(s) \/ Rollback(s)
  BY <1>t, <1>9 DEF Commit, Rollback, Unlock, OnlyLocksOf
<1> QED BY <1>2, <1>3, <1>4, <1>5, <1>6, <1>7, <1>8, <1>9 DEF Step

LEMMA HoldingNext == LockInv /\ LockInv' /\ HoldingInv /\ [Next]_vars => HoldingInv'
<1> SUFFICES ASSUME LockInv, LockInv', HoldingInv, [Next]_vars PROVE HoldingInv'
  OBVIOUS
<1>t. /\ tx \in [Session -> Transactions] /\ lock \in [Row -> Session \cup {Nobody}]
      /\ Device \subseteq Row /\ Run \subseteq Row /\ Device \cap Run = {}
  BY Tables DEF LockInv, Types, Row
<1>1. CASE UNCHANGED vars
  BY <1>1 DEF HoldingInv, Holding, Maintains, vars
<1>2. ASSUME NEW d \in Device, HeartbeatExpires(d) PROVE HoldingInv'
  BY <1>2 DEF HeartbeatExpires, HoldingInv, Holding, Maintains
<1>3. ASSUME NEW s \in Session, Step(s) PROVE HoldingInv'
  <2>o. ASSUME NEW t \in Session \ {s}, tx'[t] = tx[t], OnlyLocksOf(s) PROVE Holding(t)'
    <3>1. \A x \in Row : lock'[x] = t <=> lock[x] = t
      BY <2>o, NobodyIsNoSession DEF OnlyLocksOf
    <3> QED BY <1>t, <2>o, <3>1 DEF HoldingInv, Holding, Maintains, Row
  <2>p. Position(s) /\ Position(s)' /\ Ending(s)
    BY DEF LockInv, SessionInv
  <2>1. ASSUME NEW d \in Device, BeginContact(s, d) \/ BeginInsert(s, d) PROVE Holding(s)'
    BY <2>1, BeginHolds DEF BeginContact, BeginInsert
  <2>2. ASSUME BeginMarkStale(s) PROVE Holding(s)'
    <3>1. PICK d \in Device : Begin(s, "mark_stale", "scan", {x \in Device : Stale(x)}, d, NoDraft, {})
      BY <2>2 DEF BeginMarkStale
    <3> QED BY <3>1, BeginHolds
  <2>3. ASSUME NEW r \in Run, NEW D \in SUBSET Device, BeginCreate(s, r, D) PROVE Holding(s)'
    BY <2>3, BeginHolds DEF BeginCreate
  <2>4. ASSUME NEW j \in Job, BeginClaim(s, j) PROVE Holding(s)'
    BY <2>4, BeginHolds DEF BeginClaim
  <2>5. ASSUME NEW J \in SUBSET Job, BeginClose(s, J) PROVE Holding(s)'
    BY <2>5, BeginHolds DEF BeginClose
  <2>6. ASSUME Insert(s) PROVE Holding(s)'
    <3>1. /\ tx'[s].op = tx[s].op /\ tx'[s].op = "contact" /\ tx'[s].at = "commit"
          /\ lock' = [lock EXCEPT ![tx[s].cur] = s] /\ tx[s].cur \in Device /\ tx[s].at = "insert"
      BY <1>t, <2>6, <2>p DEF Insert, Write, Take, Position, Transactions
    <3> QED BY <1>t, <3>1, StatementHolds
  <2>7. ASSUME Contact(s) PROVE Holding(s)'
    <3>1. tx'[s].op = tx[s].op /\ tx'[s].at = "commit" /\ lock' = lock
      BY <1>t, <2>7 DEF Contact, Write, Transactions
    <3> QED BY <3>1, StatementHolds
  <2>8. ASSUME MarkRow(s) PROVE Holding(s)'
    <3>1. /\ tx'[s].op = tx[s].op /\ tx[s].op = "mark_stale" /\ tx[s].cur \in Device
          /\ lock' \in {lock, [lock EXCEPT ![tx[s].cur] = s]}
      BY <1>t, <2>8, <2>p DEF MarkRow, Position, Transactions
    <3>2. Maintains(s)'
      BY <3>1 DEF Maintains
    <3> QED BY <1>t, <3>1, <3>2, StatementHolds
  <2>9. ASSUME NEW j \in Job, NEW target, CloseNext(s, j, target) PROVE Holding(s)'
    <3>1. tx'[s].op = tx[s].op /\ tx'[s].at \in {"run", "release"} /\ lock' = lock /\ tx[s].at = "next"
      BY <1>t, <2>9 DEF CloseNext, Transactions
    <3> QED BY <3>1, StatementHolds
  <2>10. ASSUME ReadDevice(s) PROVE Holding(s)'
    <3>1. tx'[s].op = tx[s].op /\ tx'[s].at \in {"run", "flush"} /\ lock' = lock /\ tx[s].at = "release"
      BY <1>t, <2>10 DEF ReadDevice, Transactions
    <3> QED BY <3>1, StatementHolds
  <2>11. ASSUME FlushDevice(s) PROVE Holding(s)'
    <3>1. /\ tx'[s].op = tx[s].op /\ tx[s].op = "close" /\ tx'[s].at = "run" /\ tx[s].at = "flush"
          /\ tx'[s].cur = tx[s].cur /\ tx[s].cur \in Job
          /\ lock' = [lock EXCEPT ![DeviceOf[tx[s].cur]] = s]
      BY <1>t, <2>11, <2>p DEF FlushDevice, Write, Take, Position, Transactions
    <3>2. DeviceOf[tx[s].cur] \in Device
      BY <3>1, Keys
    <3> QED BY <1>t, <3>1, <3>2, StatementHolds
  <2>12. ASSUME LockRun(s) PROVE Holding(s)'
    <3>1. /\ tx'[s].op = tx[s].op /\ tx[s].op \in {"claim", "close"}
          /\ tx'[s].at = "recompute" /\ tx[s].at = "run"
          /\ tx'[s].cur = tx[s].cur /\ tx[s].cur \in Job
          /\ lock' = [lock EXCEPT ![RunOf[tx[s].cur]] = s]
      BY <1>t, <2>12, <2>p DEF LockRun, Take, Position, Transactions
    <3>2. RunOf[tx[s].cur] \in Run
      BY <3>1, Keys
    <3> QED BY <1>t, <3>1, <3>2, StatementHolds
  <2>13. ASSUME RecomputeRun(s) PROVE Holding(s)'
    <3>1. tx'[s].op = tx[s].op /\ lock' = lock /\ tx[s].at = "recompute" /\ tx'[s].at \in {"commit", "next"}
      BY <1>t, <2>13 DEF RecomputeRun, Transactions
    <3> QED BY <2>13, <3>1, SecondAttempt, StatementHolds
  <2>14. ASSUME tx'[s] = Idle \/ tx'[s].at = "rest" PROVE Holding(s)'
    <3>1. \A x \in Row : lock'[x] # s
      BY <2>14, <2>p DEF Position, Idle
    <3> QED BY <1>t, <3>1 DEF Holding
  <2>15. ASSUME Commit(s) \/ Rollback(s) \/ ReadRest(s) \/ \E r \in Run : BeginRead(s, r) PROVE Holding(s)'
    BY <1>t, <2>14, <2>15 DEF Commit, Rollback, ReadRest, BeginRead, Idle
  <2>16. (\A t \in Session \ {s} : tx'[t] = tx[t]) /\ OnlyLocksOf(s)
    BY <1>3, OneSessionSteps
  <2>17. ASSUME \E r \in Run : CreateOnAll(s, r) \/ \E D \in SUBSET Device : CreateOnRequested(s, r, D)
         PROVE  Holding(s)'
    <3>1. PICK r \in Run, D \in SUBSET Device : BeginCreate(s, r, D)
      BY <2>17 DEF CreateOnAll, CreateOnRequested, Selected
    <3> QED BY <2>3, <3>1
  <2>18. Holding(s)'
    BY <1>3, <2>1, <2>2, <2>4, <2>5, <2>6, <2>7, <2>8, <2>9, <2>10, <2>11, <2>12, <2>13, <2>15, <2>17 DEF Step
  <2> QED BY <2>16, <2>18, <2>o DEF HoldingInv
<1> QED BY <1>1, <1>2, <1>3 DEF Next

\* Two sessions that end attempts end them on different devices.
LEMMA EndedOnDifferentDevices ==
  ASSUME LockInv, NEW s \in Session, NEW t \in Session, s # t, tx[s].op = "close", tx[t].op = "close",
         NEW j \in tx[s].todo, NEW k \in tx[t].todo
  PROVE  DeviceOf[j] # DeviceOf[k]
<1>1. /\ j \in Job /\ lock[j] = s /\ status[j] = "running"
      /\ k \in Job /\ lock[k] = t /\ status[k] = "running"
  BY DEF LockInv, SessionInv, Ending
<1> QED BY <1>1, Keys DEF LockInv, ReservationsAreExclusive, JobsOn, ActiveJobStatuses

\* A session that another waits for, and that waits itself, is a maintainer, or
\* ends the attempt of a job whose device it holds and waits for the job's run.
LEMMA Blockers ==
  ASSUME LockInv, HoldingInv, NEW s \in Session, NEW t \in Session, NEW u \in Session,
         WaitsFor(s, t), WaitsFor(t, u), ~Maintains(t)
  PROVE  /\ tx[t].op = "close" /\ tx[t].at = "run" /\ tx[t].cur \in tx[t].todo
         /\ Wanted(s) = DeviceOf[tx[t].cur] /\ Wanted(s) \in Device
         /\ Wanted(t) \in Run
<1>1. \A x \in {s, t} : Wanted(x) # Nobody => Wanted(x) \in Device \cup Run
  BY Keys DEF Wanted, LockInv, SessionInv, Position
<1>2. tx[t].at \in {"insert", "scan", "flush", "run"}
  BY DEF WaitsFor, Wanted
<1>3. lock[Wanted(s)] = t /\ Wanted(s) \in Device
  BY <1>1, <1>2 DEF WaitsFor, HoldingInv, Holding
<1>4. tx[t].op = "close" /\ tx[t].at = "run" /\ Wanted(s) = DeviceOf[tx[t].cur]
  BY <1>2, <1>3 DEF HoldingInv, Holding
<1>5. tx[t].cur \in tx[t].todo /\ tx[t].cur \in Job
  BY <1>4 DEF LockInv, SessionInv, Position
<1>6. Wanted(t) \in Run
  BY <1>4, <1>5, Keys DEF Wanted
<1> QED BY <1>3, <1>4, <1>5, <1>6

\* However many sessions there are, a circle of waiting transactions has two
\* maintainers in it.  From any member two steps lead to a maintainer.  From
\* that one, two more lead to a maintainer again, and if it were the same it
\* would want the device of a job that another session is ending, while itself
\* ending a job on that device.
THEOREM DeadlockFreedom == Spec => []DeadlocksNeedTwoScans
<1>1. Init => HoldingInv
  BY NobodyIsNoSession DEF Init, HoldingInv, Holding, Row
<1>2. LockInv /\ HoldingInv => DeadlocksNeedTwoScans
  <2> SUFFICES ASSUME LockInv, HoldingInv, NEW C \in SUBSET Session, C # {},
                      \A s \in C : \E t \in C : WaitsFor(s, t)
               PROVE  \E s, t \in C : s # t /\ Maintains(s) /\ Maintains(t)
    BY DEF DeadlocksNeedTwoScans
  <2>1. ASSUME NEW s \in C PROVE \E t \in C : WaitsFor(s, t) /\ t \in Session
    OBVIOUS
  <2>2. ASSUME NEW s \in C
        PROVE  \E t \in C : /\ Maintains(t)
                            /\ \/ WaitsFor(s, t)
                               \/ \E u \in C : WaitsFor(s, u) /\ WaitsFor(u, t) /\ ~Maintains(u)
    <3>1. PICK u \in C : WaitsFor(s, u)
      BY <2>1
    <3>2. PICK t \in C : WaitsFor(u, t)
      BY <2>1
    <3>3. CASE Maintains(u)
      BY <3>1, <3>3
    <3>4. CASE ~Maintains(u)
      <4>1. PICK v \in C : WaitsFor(t, v)
        BY <2>1
      <4>2. Wanted(u) \in Run
        BY <3>1, <3>2, <3>4, Blockers
      <4>3. Maintains(t)
        <5> SUFFICES ASSUME ~Maintains(t) PROVE FALSE
          OBVIOUS
        <5>1. Wanted(u) \in Device
          BY <3>2, <4>1, Blockers
        <5> QED BY <4>2, <5>1, Tables
      <4> QED BY <3>1, <3>2, <3>4, <4>3
    <3> QED BY <3>3, <3>4
  <2>3. PICK m \in C : Maintains(m)
    BY <2>2
  <2>4. PICK t \in C : /\ Maintains(t)
                       /\ \/ WaitsFor(m, t)
                          \/ \E u \in C : WaitsFor(m, u) /\ WaitsFor(u, t) /\ ~Maintains(u)
    BY <2>2
  <2>5. t # m
    <3>1. CASE WaitsFor(m, t)
      BY <3>1 DEF WaitsFor
    <3>2. CASE \E u \in C : WaitsFor(m, u) /\ WaitsFor(u, t) /\ ~Maintains(u)
      <4> SUFFICES ASSUME t = m PROVE FALSE
        OBVIOUS
      <4>1. PICK u \in C : WaitsFor(m, u) /\ WaitsFor(u, m) /\ ~Maintains(u)
        BY <3>2
      <4>2. /\ tx[u].op = "close" /\ tx[u].cur \in tx[u].todo
            /\ Wanted(m) = DeviceOf[tx[u].cur] /\ Wanted(m) \in Device /\ Wanted(u) \in Run
        BY <4>1, Blockers
      <4>3. lock[Wanted(u)] = m /\ u # m
        BY <4>1 DEF WaitsFor
      <4>4. tx[m].op # "mark_stale" /\ \E r \in Run : lock[r] = m
        BY <4>2, <4>3 DEF HoldingInv, Holding
      <4>5. tx[m].at = "flush"
        <5>1. tx[m].at \in {"insert", "scan", "flush", "run"}
          BY <4>1 DEF WaitsFor, Wanted
        <5>2. tx[m].at # "scan"
          BY <4>4 DEF LockInv, SessionInv, Position
        <5>3. tx[m].at # "insert"
          BY <4>4 DEF LockInv, SessionInv, Position, Row
        <5>4. tx[m].at # "run"
          <6>1. tx[m].at = "run" => Wanted(m) \in Run
            BY Keys DEF Wanted, LockInv, SessionInv, Position
          <6> QED BY <4>2, <6>1, Tables
        <5> QED BY <5>1, <5>2, <5>3, <5>4
      <4>6. tx[m].op = "close" /\ tx[m].cur \in tx[m].todo /\ Wanted(m) = DeviceOf[tx[m].cur]
        BY <4>5 DEF Wanted, LockInv, SessionInv, Position
      <4> QED BY <4>2, <4>3, <4>6, EndedOnDifferentDevices
    <3> QED BY <2>4, <3>1, <3>2
  <2> QED BY <2>3, <2>4, <2>5
<1> QED BY <1>1, <1>2, HoldingNext, LockingIsInvariant, PTL DEF Spec

-----------------------------------------------------------------------------
(* Aggregation.  A transaction that has changed a job recomputes its run    *)
(* before it commits, and holds the run from then on, so what it saw of the *)
(* other jobs is still so.                                                  *)

\* The status of a run whose created jobs have the statuses in S.
Derived(S) == IF S = {} THEN "absent" ELSE Recompute("running", S)

\* The created jobs of run r, as session s sees them, and as committed.
SeenJobs(s, r)   == {Sees(s, j) : j \in JobsOf(r)} \ {"absent"}
CommittedJobs(r) == {status[j] : j \in JobsOf(r)} \ {"absent"}

\* Session s has changed a job of run r, and has not recomputed the run since.
Outdated(s, r) == tx[s].at \in {"release", "flush", "run", "recompute"} /\ RunOf[tx[s].cur] = r

\* What a transaction has written of a run follows from the jobs it sees.
RunDrafts(s) ==
  LET draft == tx[s].draft IN
  /\ \A r \in Run : draft[r] # "same" => /\ status[r] \notin TerminalRunStatuses
                                         /\ ~Outdated(s, r) => draft[r] = Derived(SeenJobs(s, r))
  /\ \A j \in Job : draft[j] # "same" /\ draft[RunOf[j]] = "same" => Outdated(s, RunOf[j]) /\ tx[s].cur = j
  /\ \A r \in Run : Outdated(s, r) => draft[tx[s].cur] # "same"
  /\ \A j \in tx[s].todo \cap Job : draft[RunOf[j]] \notin TerminalRunStatuses

\* A reader that saw the run over: it still is.
FinalReads(s) ==
  tx[s].at = "rest" => /\ tx[s].cur \in Run
                       /\ LET v == tx[s].seen[tx[s].cur] IN v \in TerminalRunStatuses => status[tx[s].cur] = v

RunInv ==
  /\ \A r \in Run : status[r] = Derived(CommittedJobs(r))
  /\ \A s \in Session : RunDrafts(s) /\ FinalReads(s)

LEMMA DerivedStatus ==
  ASSUME NEW S \in SUBSET JobStatuses
  PROVE  /\ Derived(S) = "absent" <=> S = {}
         /\ Derived(S) \in TerminalRunStatuses <=> S # {} /\ S \subseteq TerminalJobStatuses
         /\ Derived(S) = "passed" => S = {"passed"}
         /\ S = {"queued"} => Derived(S) = "queued"
BY DEF Derived, Recompute, JobStatuses, ActiveJobStatuses, TerminalJobStatuses, TerminalRunStatuses

LEMMA RecomputeDerives ==
  ASSUME NEW old, old \notin TerminalRunStatuses, NEW S \in SUBSET JobStatuses, S # {}
  PROVE  Recompute(old, S) = Derived(S)
BY DEF Derived, Recompute, TerminalRunStatuses

\* A run with an unfinished job is not over.
LEMMA ActiveRuns ==
  ASSUME LockInv, RunInv, NEW j \in Job, status[j] \in ActiveJobStatuses
  PROVE  status[RunOf[j]] \notin TerminalRunStatuses
<1>1. RunOf[j] \in Run /\ status[j] \in CommittedJobs(RunOf[j])
  BY Keys DEF CommittedJobs, JobsOf, ActiveJobStatuses
<1>2. CommittedJobs(RunOf[j]) \in SUBSET JobStatuses
  BY DEF LockInv, Tabled, CommittedJobs, JobsOf
<1>3. status[j] \notin TerminalJobStatuses
  BY DEF ActiveJobStatuses, TerminalJobStatuses
<1> QED BY <1>1, <1>2, <1>3, DerivedStatus DEF RunInv

LEMMA SeenStatuses ==
  ASSUME LockInv, NEW s \in Session, NEW r \in Run
  PROVE  SeenJobs(s, r) \in SUBSET JobStatuses
BY DEF LockInv, SessionInv, Written, Tabled, SeenJobs, JobsOf, Sees

\* A transaction that goes on without touching jobs or runs.
LEMMA SameRunDrafts ==
  ASSUME LockInv, NEW s \in Session, RunDrafts(s), status' = status,
         \A x \in Run \cup Job : tx'[s].draft[x] = tx[s].draft[x],
         tx'[s].todo \cap Job \subseteq tx[s].todo,
         \/ tx'[s].cur = tx[s].cur /\ {tx[s].at, tx'[s].at} \subseteq {"release", "flush", "run", "recompute"}
         \/ {tx[s].at, tx'[s].at} \cap {"release", "flush", "run", "recompute"} = {}
  PROVE  RunDrafts(s)'
<1>1. \A r \in Run : Outdated(s, r)' <=> Outdated(s, r)
  BY DEF Outdated
<1>2. \A r \in Run : SeenJobs(s, r)' = SeenJobs(s, r)
  BY DEF SeenJobs, JobsOf, Sees
<1>3. \A r \in Run : Outdated(s, r) => tx'[s].cur = tx[s].cur
  BY DEF Outdated
<1>4. \A r \in Run : Outdated(s, r) => tx[s].cur \in Job
  BY DEF Outdated, LockInv, SessionInv, Position
<1> QED BY <1>1, <1>2, <1>3, <1>4, Keys DEF RunDrafts

\* The other transactions, when a step commits nothing.
LEMMA OthersSeeNothing ==
  ASSUME RunInv, NEW t \in Session, tx'[t] = tx[t], status' = status
  PROVE  RunDrafts(t)' /\ FinalReads(t)'
BY DEF RunInv, RunDrafts, FinalReads, Outdated, SeenJobs, JobsOf, Sees

LEMMA NothingSeen ==
  ASSUME RunInv, status' = status, tx' = tx
  PROVE  RunInv'
<1>1. \A r \in Run : status'[r] = Derived(CommittedJobs(r)')
  BY DEF RunInv, CommittedJobs, JobsOf
<1> QED BY <1>1, OthersSeeNothing DEF RunInv

LEMMA CloseNextDrafts ==
  ASSUME LockInv, RunInv, NEW s \in Session, NEW j \in Job, NEW target \in {"retrying", "passed", "failed"},
         CloseNext(s, j, target)
  PROVE  RunDrafts(s)'
<1>1. /\ tx[s].at = "next" /\ j \in tx[s].todo /\ status' = status
      /\ tx'[s].at \in {"run", "release"} /\ tx'[s].cur = j /\ tx'[s].todo = tx[s].todo
      /\ \A x \in Row : tx'[s].draft[x] = IF x = j THEN target ELSE tx[s].draft[x]
  BY DEF CloseNext, LockInv, Types, Transactions, Row
<1>2. \A r \in Run : ~Outdated(s, r) /\ (Outdated(s, r)' <=> r = RunOf[j])
  BY <1>1 DEF Outdated
<1>3. ASSUME NEW r \in Run, r # RunOf[j] PROVE SeenJobs(s, r)' = SeenJobs(s, r)
  BY <1>1, <1>3 DEF SeenJobs, JobsOf, Sees, Row
<1>4. \A r \in Run : tx'[s].draft[r] = tx[s].draft[r]
  BY <1>1, Tables DEF Row
<1>5. \A k \in Job : tx'[s].draft[k] = IF k = j THEN target ELSE tx[s].draft[k]
  BY <1>1 DEF Row
<1>6. RunDrafts(s)
  BY DEF RunInv
<1> QED BY <1>1, <1>2, <1>3, <1>4, <1>5, <1>6, Keys DEF RunDrafts

LEMMA RecomputeDrafts ==
  ASSUME LockInv, RunInv, NEW s \in Session, RecomputeRun(s)
  PROVE  RunDrafts(s)'
<1> DEFINE j    == tx[s].cur
           r    == RunOf[j]
           rest == tx[s].todo \ {j}
           S    == SeenJobs(s, r)
           v    == Recompute(Sees(s, r), S)
<1>1. /\ tx[s].at = "recompute" /\ tx[s].op \in {"claim", "close"} /\ j \in Job /\ j \in tx[s].todo
      /\ r \in Run /\ r \in Row /\ status' = status
  BY Keys DEF RecomputeRun, LockInv, SessionInv, Position, Row
<1>2. /\ tx'[s].at \in {"commit", "next"} /\ tx'[s].todo = rest
      /\ \A x \in Row : tx'[s].draft[x] = IF x = r THEN v ELSE tx[s].draft[x]
  <2>1. tx' = [tx EXCEPT ![s].draft[r] = v, ![s].todo = rest,
                         ![s].at = IF rest = {} THEN "commit" ELSE "next"]
    BY DEF RecomputeRun, SeenJobs
  <2>2. tx[s] \in Transactions /\ DOMAIN tx = Session
    BY DEF LockInv, Types
  <2> HIDE DEF v, rest, r, j
  <2>3. tx'[s] = [tx[s] EXCEPT !.draft = [@ EXCEPT ![r] = v], !.todo = rest,
                               !.at = IF rest = {} THEN "commit" ELSE "next"]
    BY <2>1, <2>2
  <2> QED BY <2>2, <2>3 DEF Transactions
<1>3. RunDrafts(s)
  BY DEF RunInv
<1>4. status[j] \in ActiveJobStatuses /\ tx[s].draft[j] \notin {"same", "absent"}
  <2>1. tx[s].draft[j] # "same"
    BY <1>1, <1>3 DEF RunDrafts, Outdated
  <2>2. tx[s].draft[j] # "absent" /\ status[j] \in ActiveJobStatuses \cup {"absent"}
    BY <1>1, <2>1
    DEF LockInv, SessionInv, Written, Tabled, JobStatuses, ActiveJobStatuses, TerminalJobStatuses
  <2>3. status[j] # "absent"
    BY <1>1, <2>1 DEF LockInv, SessionInv, NewJobs
  <2> QED BY <2>1, <2>2, <2>3
<1>5. S # {} /\ S \in SUBSET JobStatuses
  BY <1>1, <1>4, SeenStatuses DEF SeenJobs, JobsOf, Sees
<1>6. Sees(s, r) \notin TerminalRunStatuses /\ status[r] \notin TerminalRunStatuses
  BY <1>1, <1>3, <1>4, ActiveRuns DEF Sees, RunDrafts
<1>7. v = Derived(S)
  BY <1>5, <1>6, RecomputeDerives
<1>8. \A k \in Job : tx'[s].draft[k] = tx[s].draft[k]
  BY <1>1, <1>2, Tables DEF Row
<1>9. \A q \in Run : SeenJobs(s, q)' = SeenJobs(s, q) /\ ~Outdated(s, q)'
  BY <1>1, <1>2, <1>8 DEF SeenJobs, JobsOf, Sees, Outdated
<1>10. ASSUME NEW q \in Run, q # r PROVE tx'[s].draft[q] = tx[s].draft[q] /\ ~Outdated(s, q)
  BY <1>2, <1>10 DEF Row, Outdated
<1>11. tx'[s].draft[r] = v /\ v # "same"
  <2>1. v \in RunStatuses /\ "same" \notin RunStatuses
    BY DEF Recompute, RunStatuses, TerminalRunStatuses
  <2> QED BY <1>1, <1>2, <2>1
<1>12. ASSUME NEW k \in rest, k \in Job, RunOf[k] = r PROVE v \notin TerminalRunStatuses
  <2>1. tx[s].op = "close"
    BY <1>1, <1>12 DEF LockInv, SessionInv, Ending
  <2>2. status[k] = "running" /\ tx[s].draft[k] = "same"
    BY <1>1, <1>12, <2>1 DEF LockInv, SessionInv, Ending
  <2>3. "running" \in S
    BY <1>12, <2>2 DEF SeenJobs, JobsOf, Sees
  <2> HIDE DEF S
  <2>4. "running" \notin TerminalJobStatuses
    BY DEF TerminalJobStatuses
  <2> QED BY <1>5, <1>7, <2>3, <2>4, DerivedStatus
<1> QED BY <1>1, <1>2, <1>3, <1>6, <1>7, <1>8, <1>9, <1>10, <1>11, <1>12, Keys DEF RunDrafts

LEMMA CreateDrafts ==
  ASSUME LockInv, NEW s \in Session, NEW r \in Run, NEW D \in SUBSET Device, BeginCreate(s, r, D)
  PROVE  RunDrafts(s)'
<1> DEFINE new   == {j \in JobsOf(r) : DeviceOf[j] \in D}
           draft == [x \in Row |-> IF x \in D THEN "busy" ELSE IF x \in new \cup {r} THEN "queued" ELSE "same"]
<1>1. /\ status[r] = "absent" /\ new # {} /\ new \subseteq Job /\ status' = status
      /\ Begin(s, "create", "commit", {}, r, draft, D \cup new \cup {r})
  BY DEF BeginCreate, JobsOf, Begin
<1>2. tx'[s].at = "commit" /\ tx'[s].todo = {} /\ tx'[s].draft = draft
  <2> HIDE DEF draft
  <2> QED BY <1>1 DEF Begin, Idle, LockInv, Types
<1>3. /\ \A j \in Job : draft[j] = IF j \in new THEN "queued" ELSE "same"
      /\ \A q \in Run : draft[q] = IF q = r THEN "queued" ELSE "same"
  BY <1>1, Tables DEF Row
<1>4. \A j \in JobsOf(r) : status[j] = "absent"
  BY <1>1 DEF LockInv, JobsFollowRuns, JobsOf
<1>5. \A j \in new : RunOf[j] = r
  BY DEF JobsOf
<1> HIDE DEF draft
<1>6. SeenJobs(s, r)' = {"queued"}
  <2>1. \A j \in JobsOf(r) : Sees(s, j)' = IF j \in new THEN "queued" ELSE "absent"
    BY <1>1, <1>2, <1>3, <1>4 DEF Sees, JobsOf
  <2> QED BY <1>1, <2>1 DEF SeenJobs, JobsOf
<1>7. Derived({"queued"}) = "queued" /\ "queued" \notin TerminalRunStatuses /\ "absent" \notin TerminalRunStatuses
  BY DerivedStatus DEF JobStatuses, ActiveJobStatuses, TerminalRunStatuses
<1>8. \A q \in Run : ~Outdated(s, q)'
  BY <1>2 DEF Outdated
<1> HIDE DEF new
<1> QED BY <1>1, <1>2, <1>3, <1>5, <1>6, <1>7, <1>8 DEF RunDrafts

\* Nothing written.
LEMMA EmptyDrafts ==
  ASSUME NEW s \in Session, \A x \in Row : tx'[s].draft[x] = "same",
         tx'[s].at \notin {"release", "flush", "run", "recompute"}
  PROVE  RunDrafts(s)'
BY Keys DEF RunDrafts, Outdated, Row, TerminalRunStatuses

LEMMA CommitRuns ==
  ASSUME LockInv, RunInv, NEW s \in Session, Commit(s)
  PROVE  RunInv'
<1> DEFINE draft == tx[s].draft
<1>1. /\ tx[s].at = "commit" /\ tx' = [tx EXCEPT ![s] = Idle]
      /\ \A x \in Row : status'[x] = IF draft[x] = "same" THEN status[x] ELSE draft[x]
      /\ Device \subseteq Row /\ Run \subseteq Row /\ Job \subseteq Row
  BY DEF Commit, Sees, Row
<1>2. /\ \A r \in Run : draft[r] # "same" => /\ status[r] \notin TerminalRunStatuses
                                             /\ draft[r] = Derived(SeenJobs(s, r))
                                             /\ lock[r] = s
      /\ \A j \in Job : draft[j] # "same" => draft[RunOf[j]] # "same"
  BY <1>1 DEF RunInv, RunDrafts, Outdated, LockInv, SessionInv, Written
<1>3. ASSUME NEW r \in Run, draft[r] = "same"
      PROVE  status'[r] = status[r] /\ \A j \in JobsOf(r) : status'[j] = status[j]
  BY <1>1, <1>2, <1>3 DEF JobsOf
<1>4. ASSUME NEW r \in Run PROVE status'[r] = Derived(CommittedJobs(r)')
  <2>1. CASE draft[r] = "same"
    BY <1>3, <2>1 DEF RunInv, CommittedJobs, JobsOf
  <2>2. CASE draft[r] # "same"
    <3>1. \A j \in JobsOf(r) : status'[j] = Sees(s, j)
      BY <1>1 DEF JobsOf, Sees
    <3>2. CommittedJobs(r)' = SeenJobs(s, r)
      BY <3>1 DEF CommittedJobs, SeenJobs, JobsOf
    <3> QED BY <1>1, <1>2, <2>2, <3>2
  <2> QED BY <2>1, <2>2
<1>5. RunDrafts(s)' /\ FinalReads(s)'
  <2>1. tx'[s] = Idle
    BY <1>1 DEF LockInv, Types
  <2> QED BY <2>1, EmptyDrafts DEF Idle, NoDraft, FinalReads
<1>6. ASSUME NEW t \in Session \ {s} PROVE RunDrafts(t)' /\ FinalReads(t)'
  <2>1. tx'[t] = tx[t] /\ RunDrafts(t) /\ FinalReads(t)
    BY <1>1 DEF RunInv, LockInv, Types
  <2>2. ASSUME NEW r \in Run, tx[t].draft[r] # "same"
        PROVE  status'[r] = status[r] /\ SeenJobs(t, r)' = SeenJobs(t, r)
    <3>1. lock[r] = t
      BY <1>1, <2>2 DEF LockInv, SessionInv, Written
    <3>2. draft[r] = "same"
      BY <1>2, <3>1
    <3> QED BY <1>3, <2>1, <3>2 DEF SeenJobs, JobsOf, Sees
  <2>3. \A r \in Run : Outdated(t, r)' <=> Outdated(t, r)
    BY <2>1 DEF Outdated
  <2>4. RunDrafts(t)'
    BY <2>1, <2>2, <2>3, Keys DEF RunDrafts
  <2>5. \A r \in Run : status[r] \in TerminalRunStatuses => status'[r] = status[r]
    BY <1>2, <1>3
  <2>6. FinalReads(t)'
    BY <2>1, <2>5 DEF FinalReads
  <2> QED BY <2>4, <2>6
<1> QED BY <1>4, <1>5, <1>6 DEF RunInv

LEMMA RunInvNext == LockInv /\ LockInv' /\ RunInv /\ [Next]_vars => RunInv'
<1> SUFFICES ASSUME LockInv, LockInv', RunInv, [Next]_vars PROVE RunInv'
  OBVIOUS
<1>t. /\ tx \in [Session -> Transactions]
      /\ Device \subseteq Row /\ Run \subseteq Row /\ Job \subseteq Row
      /\ \A d \in Device : d \notin Run \cup Job
  BY Tables DEF LockInv, Types, Row
<1>1. CASE UNCHANGED vars
  BY <1>1, NothingSeen DEF vars
<1>2. ASSUME NEW d \in Device, HeartbeatExpires(d) PROVE RunInv'
  BY <1>2, NothingSeen DEF HeartbeatExpires
<1>3. ASSUME NEW s \in Session, Step(s) PROVE RunInv'
  <2>o. ASSUME status' = status, RunDrafts(s)', FinalReads(s)' PROVE RunInv'
    <3>1. \A r \in Run : status'[r] = Derived(CommittedJobs(r)')
      BY <2>o DEF RunInv, CommittedJobs, JobsOf
    <3>2. \A t \in Session \ {s} : RunDrafts(t)' /\ FinalReads(t)'
      BY <1>3, <2>o, OneSessionSteps, OthersSeeNothing
    <3> QED BY <2>o, <3>1, <3>2 DEF RunInv
  <2>p. Position(s) /\ Ending(s) /\ RunDrafts(s) /\ FinalReads(s)
    BY DEF LockInv, SessionInv, RunInv
  <2>b. ASSUME NEW op, NEW at \in {"contact", "insert", "scan", "next"}, NEW todo, NEW cur, NEW X,
               Begin(s, op, at, todo, cur, NoDraft, X)
        PROVE  RunInv'
    <3>1. tx'[s].at = at /\ tx'[s].draft = NoDraft /\ status' = status
      BY <1>t, <2>b DEF Begin, Idle
    <3> QED BY <2>o, <3>1, EmptyDrafts DEF NoDraft, FinalReads
  <2>1. ASSUME NEW d \in Device, BeginContact(s, d) \/ BeginInsert(s, d) PROVE RunInv'
    BY <2>1, <2>b DEF BeginContact, BeginInsert
  <2>2. ASSUME BeginMarkStale(s) PROVE RunInv'
    <3>1. PICK d \in Device : Begin(s, "mark_stale", "scan", {x \in Device : Stale(x)}, d, NoDraft, {})
      BY <2>2 DEF BeginMarkStale
    <3> QED BY <3>1, <2>b
  <2>3. ASSUME NEW J \in SUBSET Job, BeginClose(s, J) PROVE RunInv'
    BY <2>3, <2>b DEF BeginClose
  <2>4. ASSUME NEW r \in Run, NEW D \in SUBSET Device, BeginCreate(s, r, D) PROVE RunInv'
    <3>1. status' = status /\ tx'[s].at = "commit"
      BY <1>t, <2>4 DEF BeginCreate, Begin, Idle
    <3> QED BY <2>4, <2>o, <3>1, CreateDrafts DEF FinalReads
  <2>5. ASSUME NEW j \in Job, BeginClaim(s, j) PROVE RunInv'
    <3>1. /\ tx'[s].at = "run" /\ tx'[s].cur = j /\ tx'[s].draft = [NoDraft EXCEPT ![j] = "running"]
          /\ status' = status
      BY <1>t, <2>5 DEF BeginClaim, Begin, Idle
    <3>2. /\ \A k \in Job : tx'[s].draft[k] = IF k = j THEN "running" ELSE "same"
          /\ \A r \in Run : tx'[s].draft[r] = "same"
      BY <1>t, <3>1, Tables DEF NoDraft
    <3>3. RunDrafts(s)'
      BY <3>1, <3>2, Keys DEF RunDrafts, Outdated, TerminalRunStatuses
    <3> QED BY <2>o, <3>1, <3>3 DEF FinalReads
  <2>6. ASSUME Insert(s) \/ Contact(s) \/ FlushDevice(s) PROVE RunInv'
    <3>1. /\ status' = status /\ tx'[s].todo = tx[s].todo /\ tx'[s].cur = tx[s].cur
          /\ \/ tx[s].at = "flush" /\ tx'[s].at = "run"
             \/ tx[s].at \in {"insert", "contact"} /\ tx'[s].at = "commit"
      BY <1>t, <2>6 DEF Insert, Contact, FlushDevice, Write, Transactions
    <3>3. \A x \in Run \cup Job : tx'[s].draft[x] = tx[s].draft[x]
      <4>1. CASE Insert(s) \/ Contact(s)
        <5>1. tx[s].cur \in Device
          BY <2>p, <4>1 DEF Insert, Contact, Position
        <5> QED BY <1>t, <4>1, <5>1 DEF Insert, Contact, Write, Transactions
      <4>2. CASE FlushDevice(s)
        <5>1. DeviceOf[tx[s].cur] \in Device
          BY <2>p, <4>2, Keys DEF FlushDevice, Position
        <5> QED BY <1>t, <4>2, <5>1 DEF FlushDevice, Write, Transactions
      <4> QED BY <2>6, <4>1, <4>2
    <3> QED BY <2>o, <2>p, <3>1, <3>3, SameRunDrafts DEF FinalReads
  <2>7. ASSUME MarkRow(s) PROVE RunInv'
    <3> DEFINE d    == tx[s].cur
               rest == tx[s].todo \ {d}
               v    == IF Stale(d) THEN "offline" ELSE "same"
               at   == IF rest = {} THEN "commit" ELSE "scan"
    <3>1. tx[s].at = "scan" /\ status' = status /\ d \in Device
      BY <2>7, <2>p DEF MarkRow, Position
    <3>2. PICK next : tx' = [tx EXCEPT ![s].draft[d] = v, ![s].todo = rest, ![s].cur = next, ![s].at = at]
      BY <2>7 DEF MarkRow
    <3>3. at \in {"commit", "scan"} /\ rest \subseteq tx[s].todo
      OBVIOUS
    <3> HIDE DEF d, rest, v, at
    <3>4. tx'[s] = [tx[s] EXCEPT !.draft = [@ EXCEPT ![d] = v], !.todo = rest, !.cur = next, !.at = at]
      BY <1>t, <3>2
    <3>5. tx'[s].todo = rest /\ tx'[s].at = at /\ \A x \in Run \cup Job : tx'[s].draft[x] = tx[s].draft[x]
      <4>1. tx[s] \in Transactions
        BY <1>t
      <4> QED BY <1>t, <3>1, <3>4, <4>1 DEF Transactions
    <3>6. /\ tx'[s].todo \cap Job \subseteq tx[s].todo
          /\ {tx[s].at, tx'[s].at} \cap {"release", "flush", "run", "recompute"} = {}
          /\ tx'[s].at # "rest"
      BY <3>1, <3>3, <3>5
    <3> QED BY <2>o, <2>p, <3>1, <3>5, <3>6, SameRunDrafts DEF FinalReads
  <2>8. ASSUME ReadDevice(s) \/ LockRun(s) PROVE RunInv'
    <3>1. /\ status' = status /\ tx'[s].todo = tx[s].todo /\ tx'[s].cur = tx[s].cur /\ tx'[s].draft = tx[s].draft
          /\ {tx[s].at, tx'[s].at} \subseteq {"release", "flush", "run", "recompute"}
      BY <2>8, ReadsOnly
    <3> QED BY <2>o, <2>p, <3>1, SameRunDrafts DEF FinalReads
  <2>9. ASSUME NEW j \in Job, NEW target \in {"retrying", "passed", "failed"}, CloseNext(s, j, target) PROVE RunInv'
    <3>1. status' = status /\ tx'[s].at # "rest"
      BY <1>t, <2>9 DEF CloseNext, Transactions
    <3> QED BY <2>9, <2>o, <3>1, CloseNextDrafts DEF FinalReads
  <2>10. ASSUME RecomputeRun(s) PROVE RunInv'
    <3>1. status' = status /\ tx'[s].at # "rest"
      BY <1>t, <2>10 DEF RecomputeRun, Transactions
    <3> QED BY <2>10, <2>o, <3>1, RecomputeDrafts DEF FinalReads
  <2>11. ASSUME NEW r \in Run, BeginRead(s, r) PROVE RunInv'
    <3>1. /\ status' = status /\ tx'[s].at = "rest" /\ tx'[s].cur = r /\ tx'[s].draft = NoDraft
          /\ tx'[s].seen[r] = status[r]
      BY <1>t, <2>11 DEF BeginRead, Idle, FirstRead
    <3> QED BY <2>o, <3>1, EmptyDrafts DEF NoDraft, FinalReads
  <2>12. ASSUME Rollback(s) \/ ReadRest(s) PROVE RunInv'
    <3>1. status' = status /\ tx'[s] = Idle
      BY <1>t, <2>12 DEF Rollback, ReadRest
    <3> QED BY <2>o, <3>1, EmptyDrafts DEF Idle, NoDraft, FinalReads
  <2>13. ASSUME Commit(s) PROVE RunInv'
    BY <2>13, CommitRuns
  <2>14. ASSUME \E r \in Run : CreateOnAll(s, r) \/ \E D \in SUBSET Device : CreateOnRequested(s, r, D)
         PROVE  RunInv'
    <3>1. PICK r \in Run, D \in SUBSET Device : BeginCreate(s, r, D)
      BY <2>14 DEF CreateOnAll, CreateOnRequested, Selected
    <3> QED BY <2>4, <3>1
  <2> QED BY <1>3, <2>1, <2>2, <2>3, <2>5, <2>6, <2>7, <2>8, <2>9, <2>10, <2>11, <2>12, <2>13, <2>14 DEF Step
<1> QED BY <1>1, <1>2, <1>3 DEF Next

LEMMA RunInvAlways == Spec => []RunInv
<1>1. Init => RunInv
  <2> SUFFICES ASSUME Init PROVE RunInv
    OBVIOUS
  <2>1. Run \subseteq Row /\ Job \subseteq Row /\ \A s \in Session : tx[s] = Idle
    BY DEF Init, Row
  <2>2. \A r \in Run : status[r] = Derived(CommittedJobs(r))
    <3>1. \A r \in Run : CommittedJobs(r) = {}
      BY <2>1 DEF Init, CommittedJobs, JobsOf
    <3> QED BY <2>1, <3>1 DEF Init, Derived
  <2>3. \A s \in Session : RunDrafts(s) /\ FinalReads(s)
    BY <2>1, Keys DEF RunDrafts, FinalReads, Outdated, Idle, NoDraft, TerminalRunStatuses
  <2> QED BY <2>2, <2>3 DEF RunInv
<1> QED BY <1>1, RunInvNext, LockingIsInvariant, PTL DEF Spec

\* Of two workers that end the last two jobs of a run, the second sees what the
\* first committed: a run whose jobs are all over is over, and it has passed
\* only if they have.
THEOREM NoRunIsStranded == Spec => []NoStrandedRun
<1>1. LockInv /\ RunInv => NoStrandedRun
  <2> SUFFICES ASSUME LockInv, RunInv, NEW r \in Run
               PROVE  LET S == {status[j] : j \in JobsOf(r)} IN
                      /\ S # {} /\ S \subseteq TerminalJobStatuses => status[r] \in TerminalRunStatuses
                      /\ status[r] = "passed" => S \subseteq {"passed", "absent"}
    BY DEF NoStrandedRun
  <2>1. CommittedJobs(r) \in SUBSET JobStatuses /\ status[r] = Derived(CommittedJobs(r))
    BY DEF LockInv, Tabled, CommittedJobs, JobsOf, RunInv
  <2>2. CommittedJobs(r) = {status[j] : j \in JobsOf(r)} \ {"absent"} /\ "absent" \notin TerminalJobStatuses
    BY DEF CommittedJobs, TerminalJobStatuses
  <2> QED BY <2>1, <2>2, DerivedStatus
<1> QED BY <1>1, RunInvAlways, LockingIsInvariant, PTL

\* A report of two reads, the run and then its jobs, that shows the run over
\* shows the jobs that make it so, because nothing of such a run ever changes.
THEOREM FinalReportsAreConsistent == Spec => []ReportsAreFinal
<1>1. LockInv /\ RunInv => ReportsAreFinal
  <2> SUFFICES ASSUME LockInv, RunInv, NEW s \in Session, tx[s].at = "rest",
                      Reported(s, tx[s].cur) \in TerminalRunStatuses
               PROVE  Reported(s, tx[s].cur)
                        = Recompute("running", {Reported(s, j) : j \in JobsOf(tx[s].cur)} \ {"absent"})
    BY DEF ReportsAreFinal
  <2> DEFINE r == tx[s].cur
  <2>1. r \in Run /\ Reported(s, r) = status[r]
    BY DEF RunInv, FinalReads, Reported, FirstRead
  <2>2. \A j \in JobsOf(r) : Reported(s, j) = status[j]
    BY <2>1, Tables DEF JobsOf, Reported, FirstRead
  <2>3. CommittedJobs(r) \in SUBSET JobStatuses /\ status[r] = Derived(CommittedJobs(r))
    BY <2>1 DEF LockInv, Tabled, CommittedJobs, JobsOf, RunInv
  <2>4. CommittedJobs(r) # {}
    BY <2>1, <2>3, DerivedStatus
  <2> QED BY <2>1, <2>2, <2>3, <2>4 DEF Derived, CommittedJobs
<1> QED BY <1>1, RunInvAlways, LockingIsInvariant, PTL

-----------------------------------------------------------------------------
(* Atomicity.  What a transaction is about to commit, whatever it is, can   *)
(* still be done as a whole: its locks keep what it has written of a row in *)
(* step with the row, and a release that holds no lock on the device is     *)
(* overtaken only by what makes the device fresh.                           *)

\* A heartbeat or a registration: "busy" stands for a job that is, or was, on
\* the device since it was locked.
Contacts(s) ==
  LET t == tx[s] IN
  t.op = "contact" =>
    /\ t.cur \in Device /\ \A x \in Row : t.draft[x] # "same" => x = t.cur
    /\ t.draft[t.cur] \in {"same", "online", "busy"} /\ (t.at = "commit" => t.draft[t.cur] # "same")
    /\ t.draft[t.cur] = "busy" => status[t.cur] # "online" /\ \E j \in JobsOn(t.cur) : status[j] # "absent"

Scans(s) ==
  tx[s].op = "mark_stale" =>
    \A x \in Row : tx[s].draft[x] # "same" => x \in Device /\ tx[s].draft[x] = "offline" /\ Stale(x)

\* A run, jobs of that run, and their devices, which are still on offer.
Creates(s) ==
  LET t == tx[s] IN
  t.op = "create" =>
    /\ t.cur \in Run /\ status[t.cur] = "absent"
    /\ \A r \in Run : t.draft[r] = IF r = t.cur THEN "queued" ELSE "same"
    /\ \A j \in Job : t.draft[j] # "same" => t.draft[j] = "queued" /\ RunOf[j] = t.cur /\ status[j] = "absent"
    /\ \E j \in Job : t.draft[j] # "same"
    /\ \A d \in Device : IF \E j \in JobsOn(d) : t.draft[j] # "same"
                         THEN t.draft[d] = "busy" /\ status[d] = "online"
                         ELSE t.draft[d] = "same"

Claims(s) ==
  LET t == tx[s] IN
  t.op = "claim" => /\ t.cur \in Job /\ status[t.cur] \in {"queued", "retrying"} /\ t.draft[t.cur] = "running"
                    /\ \A x \in Row : t.draft[x] # "same" => x \in {t.cur, RunOf[t.cur]}

\* The ends of attempts, and the release of devices whose jobs are over.
Closes(s) ==
  LET t == tx[s] IN
  t.op = "close" =>
    /\ \A j \in Job : t.draft[j] # "same" =>
         status[j] = "running" /\ t.draft[j] \in {"retrying"} \cup TerminalJobStatuses
    /\ \A r \in Run : t.draft[r] # "same" => \E j \in JobsOf(r) : t.draft[j] # "same"
    /\ \A d \in Device : t.draft[d] # "same" => t.draft[d] \in {"online", "offline"} /\ Releasing(s, d)
    /\ t.at = "commit" => \E j \in Job : t.draft[j] # "same"

\* Nothing else commits.
Readers(s) == tx[s].op \in {"idle", "read"} => tx[s].at # "commit"

Drafts(s) == Readers(s) /\ Contacts(s) /\ Scans(s) /\ Creates(s) /\ Claims(s) /\ Closes(s)

DraftInv == \A s \in Session : Drafts(s)

-----------------------------------------------------------------------------
(* The other sessions. *)

\* A step that commits nothing; a heartbeat that expires.
LEMMA DraftsStay ==
  ASSUME LockInv, NEW t \in Session, Drafts(t), tx'[t] = tx[t], status' = status,
         \A d \in Device : hb[d] = "stale" => hb'[d] = "stale"
  PROVE  Drafts(t)'
<1>1. Readers(t)' /\ Contacts(t)' /\ Creates(t)' /\ Claims(t)'
  BY DEF Drafts, Readers, Contacts, Creates, Claims, JobsOn
<1>2. Scans(t)'
  BY DEF Drafts, Scans, Stale
<1>3. Closes(t)'
  BY DEF Drafts, Closes, Releasing, JobsOn, JobsOf
<1> QED BY <1>1, <1>2, <1>3 DEF Drafts

\* What a commit does to the rows.
LEMMA CommitWrites ==
  ASSUME LockInv, DraftInv, NEW s \in Session, Commit(s)
  PROVE  /\ \A x \in Row : status'[x] = IF tx[s].draft[x] = "same" THEN status[x] ELSE tx[s].draft[x]
         /\ \A x \in Row : status'[x] # status[x] => lock[x] = s
         /\ \A j \in Job : status[j] # "absent" => status'[j] # "absent"
         /\ \A d \in Device : hb'[d] # hb[d] => hb'[d] = "fresh" /\ lock[d] = s
         /\ tx[s].op \in {"contact", "mark_stale", "create", "claim", "close"}
<1>r. Device \subseteq Row /\ Run \subseteq Row /\ Job \subseteq Row
  BY DEF Row
<1>1. \A x \in Row : status'[x] = IF tx[s].draft[x] = "same" THEN status[x] ELSE tx[s].draft[x]
  BY DEF Commit, Sees
<1>2. \A x \in Row : status'[x] # status[x] => lock[x] = s
  BY <1>1 DEF LockInv, SessionInv, Written
<1>3. \A j \in Job : status[j] # "absent" => status'[j] # "absent"
  <2>1. \A j \in Job : tx[s].draft[j] # "absent"
    BY DEF LockInv, SessionInv, Written, Tabled, JobStatuses, ActiveJobStatuses, TerminalJobStatuses
  <2> QED BY <1>r, <1>1, <2>1
<1>4. \A d \in Device : hb'[d] # hb[d] => hb'[d] = "fresh" /\ lock[d] = s
  <2> SUFFICES ASSUME NEW d \in Device, hb'[d] # hb[d] PROVE hb'[d] = "fresh" /\ lock[d] = s
    OBVIOUS
  <2>1. hb'[d] = "fresh" /\ tx[s].op = "contact" /\ tx[s].cur = d /\ tx[s].at = "commit"
    BY DEF Commit
  <2>2. tx[s].draft[d] # "same"
    BY <2>1 DEF DraftInv, Drafts, Contacts
  <2> QED BY <1>r, <2>1, <2>2 DEF LockInv, SessionInv, Written
<1>5. tx[s].op \in {"contact", "mark_stale", "create", "claim", "close"}
  <2>1. tx[s] \in Transactions /\ tx[s].at = "commit"
    BY DEF Commit, LockInv, Types
  <2>2. tx[s].op \in {"contact", "mark_stale", "create", "claim", "close"} \cup {"idle", "read"}
    BY <2>1 DEF Transactions
  <2> QED BY <2>1, <2>2 DEF DraftInv, Drafts, Readers
<1> QED BY <1>1, <1>2, <1>3, <1>4, <1>5

\* A session that commits leaves what the others have written in step with the
\* rows.
LEMMA OthersDrafts ==
  ASSUME LockInv, DraftInv, NEW s \in Session, Commit(s), NEW t \in Session \ {s}
  PROVE  Drafts(t)'
<1>r. Device \subseteq Row /\ Run \subseteq Row /\ Job \subseteq Row
  BY DEF Row
<1>1. Drafts(t) /\ tx'[t] = tx[t]
  BY DEF DraftInv, Commit, LockInv, Types
<1>2. \A x \in Row : tx[t].draft[x] # "same" => lock[x] = t /\ status'[x] = status[x]
  BY CommitWrites DEF LockInv, SessionInv, Written
<1>3. Readers(t)' /\ Contacts(t)'
  <2>1. \A j \in Job : status[j] # "absent" => status'[j] # "absent"
    BY CommitWrites
  <2> QED BY <1>r, <1>1, <1>2, <2>1 DEF Drafts, Readers, Contacts, JobsOn
<1>4. Scans(t)'
  <2> SUFFICES ASSUME tx[t].op = "mark_stale", NEW x \in Row, tx[t].draft[x] # "same"
               PROVE  x \in Device /\ tx[t].draft[x] = "offline" /\ Stale(x)'
    BY <1>1 DEF Scans
  <2>1. x \in Device /\ tx[t].draft[x] = "offline" /\ Stale(x)
    BY <1>1 DEF Drafts, Scans
  <2>2. hb'[x] = hb[x]
    BY <1>2, <2>1, CommitWrites
  <2> QED BY <1>2, <2>1, <2>2 DEF Stale
<1>5. Creates(t)'
  BY <1>r, <1>1, <1>2 DEF Drafts, Creates, JobsOn
<1>6. Claims(t)'
  <2>1. tx[t].op = "claim" => tx[t].cur \in Row /\ tx[t].draft[tx[t].cur] # "same"
    BY <1>r, <1>1 DEF Drafts, Claims
  <2> QED BY <1>1, <1>2, <2>1 DEF Drafts, Claims
<1>7. Closes(t)'
  BY <1>r, <1>1, <1>2 DEF Drafts, Closes, Releasing, JobsOn, JobsOf
<1> QED BY <1>3, <1>4, <1>5, <1>6, <1>7 DEF Drafts

-----------------------------------------------------------------------------
(* The session that steps. *)

\* Nothing written.
LEMMA NothingDrafted ==
  ASSUME NEW s \in Session, \A x \in Row : tx'[s].draft[x] = "same",
         \/ tx'[s].op \in {"idle", "read"} /\ tx'[s].at # "commit"
         \/ tx'[s].op = "contact" /\ tx'[s].cur \in Device /\ tx'[s].at # "commit"
         \/ tx'[s].op = "mark_stale"
         \/ tx'[s].op = "close" /\ tx'[s].at = "next"
  PROVE  Drafts(s)'
<1>1. Device \subseteq Row /\ Run \subseteq Row /\ Job \subseteq Row /\ "same" \notin TerminalJobStatuses
  BY DEF Row, TerminalJobStatuses
<1> QED BY <1>1 DEF Drafts, Readers, Contacts, Scans, Creates, Claims, Closes

\* A create is drafted as a whole.
LEMMA CreateDrafted ==
  ASSUME LockInv, NEW s \in Session, NEW r \in Run, NEW D \in SUBSET Device,
         D \subseteq Selected(s, Device), BeginCreate(s, r, D)
  PROVE  Drafts(s)'
<1> DEFINE new   == {j \in JobsOf(r) : DeviceOf[j] \in D}
           draft == [x \in Row |-> IF x \in D THEN "busy" ELSE IF x \in new \cup {r} THEN "queued" ELSE "same"]
<1>1. /\ status[r] = "absent" /\ D # {} /\ D = {DeviceOf[j] : j \in new} /\ status' = status
      /\ Begin(s, "create", "commit", {}, r, draft, D \cup new \cup {r})
  BY DEF BeginCreate, Begin
<1>2. tx'[s].op = "create" /\ tx'[s].at = "commit" /\ tx'[s].cur = r /\ tx'[s].draft = draft
  <2> HIDE DEF draft
  <2> QED BY <1>1 DEF Begin, Idle, LockInv, Types
<1>3. /\ \A d \in Device : draft[d] = IF d \in D THEN "busy" ELSE "same"
      /\ \A j \in Job : draft[j] = IF j \in new THEN "queued" ELSE "same"
      /\ \A x \in Run : draft[x] = IF x = r THEN "queued" ELSE "same"
  BY Tables DEF Row, JobsOf
<1>4. /\ new \subseteq Job /\ new # {}
      /\ \A j \in new : RunOf[j] = r /\ status[j] = "absent"
  BY <1>1 DEF JobsOf, LockInv, JobsFollowRuns
<1>5. \A d \in D : status[d] = "online"
  BY DEF Selected, Fresh
<1> HIDE DEF new, draft
<1>6. \A d \in Device : d \in D <=> \E j \in JobsOn(d) : draft[j] # "same"
  BY <1>1, <1>3, <1>4 DEF JobsOn
<1>7. Creates(s)'
  <2>1. \E j \in Job : draft[j] # "same"
    BY <1>3, <1>4
  <2>2. \A j \in Job : draft[j] # "same" => draft[j] = "queued" /\ RunOf[j] = r /\ status[j] = "absent"
    BY <1>3, <1>4
  <2>3. \A d \in Device : IF \E j \in JobsOn(d) : draft[j] # "same"
                          THEN draft[d] = "busy" /\ status[d] = "online"
                          ELSE draft[d] = "same"
    BY <1>3, <1>5, <1>6
  <2>4. Creates(s)' <=>
          /\ r \in Run /\ status'[r] = "absent"
          /\ \A x \in Run : draft[x] = IF x = r THEN "queued" ELSE "same"
          /\ \A j \in Job : draft[j] # "same" => draft[j] = "queued" /\ RunOf[j] = r /\ status'[j] = "absent"
          /\ \E j \in Job : draft[j] # "same"
          /\ \A d \in Device : IF \E j \in JobsOn(d) : draft[j] # "same"
                               THEN draft[d] = "busy" /\ status'[d] = "online"
                               ELSE draft[d] = "same"
    BY <1>2 DEF Creates, JobsOn
  <2> QED BY <1>1, <1>3, <2>1, <2>2, <2>3, <2>4
<1> QED BY <1>2, <1>7 DEF Drafts, Readers, Contacts, Scans, Claims, Closes

LEMMA ClaimDrafted ==
  ASSUME LockInv, NEW s \in Session, NEW j \in Job, BeginClaim(s, j)
  PROVE  Drafts(s)'
<1>1. /\ tx'[s].op = "claim" /\ tx'[s].cur = j /\ tx'[s].draft = [NoDraft EXCEPT ![j] = "running"]
      /\ status' = status /\ status[j] \in {"queued", "retrying"}
  BY DEF BeginClaim, Begin, Idle, LockInv, Types
<1>2. \A x \in Row : tx'[s].draft[x] = IF x = j THEN "running" ELSE "same"
  BY <1>1 DEF NoDraft, Row
<1> QED BY <1>1, <1>2 DEF Drafts, Readers, Contacts, Scans, Creates, Claims, Closes, Row

LEMMA ContactDrafted ==
  ASSUME LockInv, DraftInv, NEW s \in Session, Contact(s) \/ Insert(s)
  PROVE  Drafts(s)'
<1> DEFINE d == tx[s].cur
<1>1. /\ d \in Device /\ d \in Row /\ tx[s].op = "contact" /\ tx[s].at \in {"contact", "insert"}
      /\ \A x \in Row : tx[s].draft[x] # "same" => x = d
      /\ status' = status
  BY DEF Contact, Insert, LockInv, SessionInv, Position, DraftInv, Drafts, Contacts, Row
<1>2. PICK v \in {"online", "busy"} :
        /\ Write(s, d, v, "commit")
        /\ v = "busy" => \E j \in JobsOn(d) : status[j] \in ActiveJobStatuses
  BY DEF Contact, Insert
<1>3. /\ tx'[s].op = "contact" /\ tx'[s].at = "commit" /\ tx'[s].cur = d
      /\ \A y \in Row : tx'[s].draft[y] = IF y = d THEN v ELSE tx[s].draft[y]
  BY <1>1, <1>2, WriteStep DEF Values, DeviceStatuses
<1>4. v = "busy" => status[d] # "online" /\ \E j \in JobsOn(d) : status[j] # "absent"
  BY <1>1, <1>2 DEF LockInv, ReservationsAreExclusive, ActiveJobStatuses
<1>5. Contacts(s)'
  BY <1>1, <1>3, <1>4 DEF Contacts, JobsOn
<1> QED BY <1>3, <1>5 DEF Drafts, Readers, Scans, Creates, Claims, Closes

LEMMA ScanDrafted ==
  ASSUME LockInv, DraftInv, NEW s \in Session, MarkRow(s)
  PROVE  Drafts(s)'
<1> DEFINE d    == tx[s].cur
           rest == tx[s].todo \ {d}
           v    == IF Stale(d) THEN "offline" ELSE "same"
           at   == IF rest = {} THEN "commit" ELSE "scan"
<1>1. /\ tx[s].op = "mark_stale" /\ d \in Device /\ d \in Row /\ UNCHANGED <<status, hb>>
      /\ tx[s] \in Transactions /\ DOMAIN tx = Session
  BY DEF MarkRow, LockInv, Types, SessionInv, Position, Row
<1>2. PICK next : tx' = [tx EXCEPT ![s].draft[d] = v, ![s].todo = rest, ![s].cur = next, ![s].at = at]
  BY DEF MarkRow
<1>v. v # "same" => v = "offline" /\ Stale(d)
  OBVIOUS
<1> HIDE DEF d, v, rest, at
<1>3. tx'[s] = [tx[s] EXCEPT !.draft = [@ EXCEPT ![d] = v], !.todo = rest, !.cur = next, !.at = at]
  BY <1>1, <1>2
<1>5. /\ tx'[s].op = "mark_stale"
      /\ \A y \in Row : tx'[s].draft[y] = IF y = d THEN v ELSE tx[s].draft[y]
  BY <1>1, <1>3 DEF Transactions
<1>6. Scans(s)'
  BY <1>1, <1>5, <1>v DEF DraftInv, Drafts, Scans, Stale
<1> QED BY <1>5, <1>6 DEF Drafts, Readers, Contacts, Creates, Claims, Closes

LEMMA CloseDrafted ==
  ASSUME LockInv, DraftInv, NEW s \in Session, NEW j \in Job, NEW target \in {"retrying", "passed", "failed"},
         CloseNext(s, j, target)
  PROVE  Drafts(s)'
<1> DEFINE t == tx[s]
<1>1. /\ t.at = "next" /\ t.op = "close" /\ j \in t.todo /\ status[j] = "running" /\ t.draft[j] = "same"
      /\ UNCHANGED <<status, hb>>
      /\ tx'[s].op = "close" /\ tx'[s].cur = j
      /\ tx'[s].at = IF target = "retrying" THEN "run" ELSE "release"
      /\ \A x \in Row : tx'[s].draft[x] = IF x = j THEN target ELSE t.draft[x]
  <2>1. t.at = "next" /\ t.op = "close" /\ j \in t.todo /\ UNCHANGED <<status, hb>>
    BY DEF CloseNext, LockInv, SessionInv, Position
  <2>2. status[j] = "running" /\ t.draft[j] = "same"
    BY <2>1 DEF LockInv, SessionInv, Ending
  <2> QED BY <2>1, <2>2 DEF CloseNext, LockInv, Types, Transactions
<1>2. /\ \A k \in Job : tx'[s].draft[k] = IF k = j THEN target ELSE t.draft[k]
      /\ \A x \in Device \cup Run : tx'[s].draft[x] = t.draft[x]
  BY <1>1, Tables DEF Row
<1>3. Closes(s)
  BY DEF DraftInv, Drafts
<1>4. \A d \in Device : Releasing(s, d) => Releasing(s, d)'
  BY <1>1, <1>2 DEF Releasing, JobsOn, TerminalJobStatuses
<1>5. target \in {"retrying"} \cup TerminalJobStatuses /\ target # "same"
  BY DEF TerminalJobStatuses
<1>6. Closes(s)'
  <2>1. \A k \in Job : tx'[s].draft[k] # "same" =>
          status'[k] = "running" /\ tx'[s].draft[k] \in {"retrying"} \cup TerminalJobStatuses
    BY <1>1, <1>2, <1>3, <1>5 DEF Closes
  <2>2. \A r \in Run : tx'[s].draft[r] # "same" => \E k \in JobsOf(r) : tx'[s].draft[k] # "same"
    BY <1>1, <1>2, <1>3, <1>5 DEF Closes, JobsOf
  <2>3. \A d \in Device : tx'[s].draft[d] # "same" => tx'[s].draft[d] \in {"online", "offline"} /\ Releasing(s, d)'
    BY <1>1, <1>2, <1>3, <1>4 DEF Closes
  <2> QED BY <1>1, <2>1, <2>2, <2>3 DEF Closes, JobsOf
<1> QED BY <1>1, <1>6 DEF Drafts, Readers, Contacts, Scans, Creates, Claims

\* The reads: the device to release, and the run, once it is locked.
LEMMA ReadDrafted ==
  ASSUME LockInv, DraftInv, NEW s \in Session, ReadDevice(s) \/ LockRun(s)
  PROVE  Drafts(s)'
<1> DEFINE t == tx[s]
<1>1. /\ UNCHANGED <<status, hb>>
      /\ tx'[s].op = t.op /\ tx'[s].cur = t.cur /\ tx'[s].draft = t.draft
      /\ t.at \in {"release", "run"} /\ tx'[s].at \in {"run", "flush", "recompute"}
  BY ReadsOnly
<1>2. t.cur \in Job /\ t.op \in {"claim", "close"}
  BY <1>1 DEF LockInv, SessionInv, Position
<1> QED BY <1>1, <1>2
    DEF DraftInv, Drafts, Readers, Contacts, Scans, Creates, Claims, Closes, Releasing, JobsOn, JobsOf

LEMMA FlushDrafted ==
  ASSUME LockInv, DraftInv, NEW s \in Session, FlushDevice(s)
  PROVE  Drafts(s)'
<1> DEFINE t == tx[s]
           d == DeviceOf[t.cur]
<1>1. /\ UNCHANGED <<status, hb>> /\ t.op = "close" /\ t.at = "flush" /\ t.cur \in Job /\ d \in Device /\ d \in Row
      /\ t.want \in {"online", "offline"} /\ t.draft[t.cur] \in TerminalJobStatuses
      /\ Write(s, d, t.want, "run")
  BY Keys DEF FlushDevice, LockInv, SessionInv, Position, Row
<1>2. /\ tx'[s].op = "close" /\ tx'[s].at = "run"
      /\ \A y \in Row : tx'[s].draft[y] = IF y = d THEN t.want ELSE t.draft[y]
  BY <1>1, WriteStep DEF Values, DeviceStatuses
<1>3. /\ \A x \in Job \cup Run : tx'[s].draft[x] = t.draft[x]
      /\ \A e \in Device : tx'[s].draft[e] = IF e = d THEN t.want ELSE t.draft[e]
  BY <1>1, <1>2, Tables DEF Row
<1>4. Closes(s)
  BY DEF DraftInv, Drafts
<1>5. \A e \in Device : Releasing(s, e)' <=> Releasing(s, e)
  BY <1>3 DEF Releasing, JobsOn
<1>6. Releasing(s, d)
  BY <1>1 DEF Releasing, JobsOn
<1> HIDE DEF d
<1>7. Closes(s)'
  <2>1. /\ \A k \in Job : tx'[s].draft[k] # "same" =>
             status'[k] = "running" /\ tx'[s].draft[k] \in {"retrying"} \cup TerminalJobStatuses
        /\ \A r \in Run : tx'[s].draft[r] # "same" => \E k \in JobsOf(r) : tx'[s].draft[k] # "same"
    BY <1>1, <1>3, <1>4 DEF Closes, JobsOf
  <2>2. \A e \in Device : tx'[s].draft[e] # "same" => tx'[s].draft[e] \in {"online", "offline"} /\ Releasing(s, e)'
    BY <1>1, <1>3, <1>4, <1>5, <1>6 DEF Closes
  <2> QED BY <1>1, <1>2, <1>3, <2>1, <2>2 DEF Closes, JobsOf
<1> QED BY <1>2, <1>7 DEF Drafts, Readers, Contacts, Scans, Creates, Claims

LEMMA RecomputeDrafted ==
  ASSUME LockInv, RunInv, DraftInv, NEW s \in Session, RecomputeRun(s)
  PROVE  Drafts(s)'
<1> DEFINE t    == tx[s]
           r    == RunOf[t.cur]
           rest == t.todo \ {t.cur}
           v    == Recompute(Sees(s, r), SeenJobs(s, r))
<1>1. /\ t.at = "recompute" /\ t.op \in {"claim", "close"} /\ t.cur \in Job /\ r \in Run /\ r \in Row
      /\ UNCHANGED <<status, hb>>
  BY Keys DEF RecomputeRun, LockInv, SessionInv, Position, Row
<1>2. /\ tx'[s].op = t.op /\ tx'[s].at \in {"commit", "next"} /\ tx'[s].cur = t.cur
      /\ \A x \in Row : tx'[s].draft[x] = IF x = r THEN v ELSE t.draft[x]
  <2>1. tx' = [tx EXCEPT ![s].draft[r] = v, ![s].todo = rest,
                         ![s].at = IF rest = {} THEN "commit" ELSE "next"]
    BY DEF RecomputeRun, SeenJobs
  <2>2. t \in Transactions /\ DOMAIN tx = Session
    BY DEF LockInv, Types
  <2> HIDE DEF v, rest, r
  <2>3. tx'[s] = [t EXCEPT !.draft = [@ EXCEPT ![r] = v], !.todo = rest,
                           !.at = IF rest = {} THEN "commit" ELSE "next"]
    BY <2>1, <2>2
  <2> QED BY <2>2, <2>3 DEF Transactions
<1>3. /\ \A x \in Job \cup Device : tx'[s].draft[x] = t.draft[x]
      /\ \A q \in Run : q # r => tx'[s].draft[q] = t.draft[q]
  BY <1>1, <1>2, Tables DEF Row
<1>4. t.draft[t.cur] # "same"
  BY <1>1 DEF RunInv, RunDrafts, Outdated
<1>5. Drafts(s) /\ t.cur \in JobsOf(r)
  BY <1>1 DEF DraftInv, Drafts, JobsOf
<1>6. CASE t.op = "claim"
  <2>1. Claims(s)'
    BY <1>1, <1>2, <1>3, <1>5, <1>6 DEF Drafts, Claims
  <2> QED BY <1>2, <1>6, <2>1 DEF Drafts, Readers, Contacts, Scans, Creates, Closes
<1>7. CASE t.op = "close"
  <2>1. Closes(s)
    BY <1>5 DEF Drafts
  <2>2. \A d \in Device : Releasing(s, d)' <=> Releasing(s, d)
    BY <1>3 DEF Releasing, JobsOn
  <2>3. \A q \in Run : tx'[s].draft[q] # "same" => \E k \in JobsOf(q) : tx'[s].draft[k] # "same"
    <3> SUFFICES ASSUME NEW q \in Run, tx'[s].draft[q] # "same" PROVE \E k \in JobsOf(q) : tx'[s].draft[k] # "same"
      OBVIOUS
    <3>1. CASE q = r
      BY <1>1, <1>3, <1>4, <1>5, <3>1
    <3>2. CASE q # r
      BY <1>1, <1>3, <1>7, <2>1, <3>2 DEF Closes, JobsOf
    <3> QED BY <3>1, <3>2
  <2>4. Closes(s)'
    <3> HIDE DEF r, v
    <3>1. \A k \in Job : tx'[s].draft[k] # "same" =>
            status'[k] = "running" /\ tx'[s].draft[k] \in {"retrying"} \cup TerminalJobStatuses
      BY <1>1, <1>3, <1>7, <2>1 DEF Closes
    <3>2. \A d \in Device : tx'[s].draft[d] # "same" => tx'[s].draft[d] \in {"online", "offline"} /\ Releasing(s, d)'
      BY <1>1, <1>3, <1>7, <2>1, <2>2 DEF Closes
    <3>3. \E k \in Job : tx'[s].draft[k] # "same"
      BY <1>1, <1>3, <1>4
    <3> QED BY <2>3, <3>1, <3>2, <3>3 DEF Closes, JobsOf
  <2> QED BY <1>2, <1>7, <2>4 DEF Drafts, Readers, Contacts, Scans, Creates, Claims
<1> QED BY <1>1, <1>6, <1>7

LEMMA DraftInvNext == LockInv /\ RunInv /\ DraftInv /\ [Next]_vars => DraftInv'
<1> SUFFICES ASSUME LockInv, RunInv, DraftInv, [Next]_vars PROVE DraftInv'
  OBVIOUS
<1>t. /\ tx \in [Session -> Transactions] /\ hb \in [Device -> {"fresh", "stale"}]
      /\ \A x \in Row : NoDraft[x] = "same" /\ Idle.draft[x] = "same"
  BY DEF LockInv, Types, NoDraft, Idle
<1>o. ASSUME NEW t \in Session, tx'[t] = tx[t], UNCHANGED <<status, hb>> PROVE Drafts(t)'
  <2>1. Drafts(t) /\ \A d \in Device : hb[d] = "stale" => hb'[d] = "stale"
    BY <1>o DEF DraftInv
  <2> QED BY <1>o, <2>1, DraftsStay
<1>1. CASE UNCHANGED vars
  BY <1>1, <1>o DEF DraftInv, vars
<1>2. ASSUME NEW d \in Device, HeartbeatExpires(d) PROVE DraftInv'
  <2> SUFFICES ASSUME NEW t \in Session PROVE Drafts(t)'
    BY DEF DraftInv
  <2>1. Drafts(t) /\ tx'[t] = tx[t] /\ status' = status
    BY <1>2 DEF HeartbeatExpires, DraftInv
  <2>2. \A e \in Device : hb[e] = "stale" => hb'[e] = "stale"
    BY <1>t, <1>2 DEF HeartbeatExpires
  <2> QED BY <2>1, <2>2, DraftsStay
<1>3. ASSUME NEW s \in Session, Step(s) PROVE DraftInv'
  <2>o. ASSUME UNCHANGED <<status, hb>>, Drafts(s)' PROVE DraftInv'
    <3>1. ASSUME NEW t \in Session \ {s} PROVE Drafts(t)'
      BY <1>3, <1>o, <2>o, OneSessionSteps
    <3> QED BY <2>o, <3>1 DEF DraftInv
  <2>1. ASSUME NEW d \in Device, BeginContact(s, d) \/ BeginInsert(s, d) PROVE DraftInv'
    <3>1. /\ tx'[s].op = "contact" /\ tx'[s].cur = d /\ tx'[s].at \in {"contact", "insert"} /\ tx'[s].draft = NoDraft
          /\ UNCHANGED <<status, hb>>
      BY <1>t, <2>1 DEF BeginContact, BeginInsert, Begin, Idle
    <3> QED BY <1>t, <2>o, <3>1, NothingDrafted
  <2>2. ASSUME BeginMarkStale(s) PROVE DraftInv'
    <3>1. tx'[s].op = "mark_stale" /\ tx'[s].draft = NoDraft /\ UNCHANGED <<status, hb>>
      BY <1>t, <2>2 DEF BeginMarkStale, Begin, Idle
    <3> QED BY <1>t, <2>o, <3>1, NothingDrafted
  <2>3. ASSUME NEW J \in SUBSET Job, BeginClose(s, J) PROVE DraftInv'
    <3>1. tx'[s].op = "close" /\ tx'[s].at = "next" /\ tx'[s].draft = NoDraft /\ UNCHANGED <<status, hb>>
      BY <1>t, <2>3 DEF BeginClose, Begin, Idle
    <3> QED BY <1>t, <2>o, <3>1, NothingDrafted
  <2>4. ASSUME NEW r \in Run, BeginRead(s, r) PROVE DraftInv'
    <3>1. tx'[s].op = "read" /\ tx'[s].at = "rest" /\ tx'[s].draft = NoDraft /\ UNCHANGED <<status, hb>>
      BY <1>t, <2>4 DEF BeginRead, Idle
    <3> QED BY <1>t, <2>o, <3>1, NothingDrafted
  <2>5. ASSUME ReadRest(s) \/ Rollback(s) PROVE DraftInv'
    <3>1. tx'[s] = Idle /\ UNCHANGED <<status, hb>>
      BY <1>t, <2>5 DEF ReadRest, Rollback
    <3>2. Idle.op = "idle" /\ Idle.at # "commit"
      BY DEF Idle
    <3> QED BY <1>t, <2>o, <3>1, <3>2, NothingDrafted
  <2>6. ASSUME Insert(s) \/ Contact(s) PROVE DraftInv'
    BY <2>6, <2>o, ContactDrafted DEF Insert, Contact
  <2>7. ASSUME MarkRow(s) PROVE DraftInv'
    BY <2>7, <2>o, ScanDrafted DEF MarkRow
  <2>8. ASSUME \E r \in Run : CreateOnAll(s, r) \/ \E D \in SUBSET Device : CreateOnRequested(s, r, D)
        PROVE  DraftInv'
    <3>1. PICK r \in Run, D \in SUBSET Device : BeginCreate(s, r, D) /\ D \subseteq Selected(s, Device)
      BY <2>8 DEF CreateOnAll, CreateOnRequested, Selected
    <3>2. UNCHANGED <<status, hb>>
      BY <3>1 DEF BeginCreate, Begin
    <3> QED BY <2>o, <3>1, <3>2, CreateDrafted
  <2>9. ASSUME NEW j \in Job, BeginClaim(s, j) PROVE DraftInv'
    BY <2>9, <2>o, ClaimDrafted DEF BeginClaim, Begin
  <2>10. ASSUME NEW j \in Job, NEW target \in {"retrying", "passed", "failed"}, CloseNext(s, j, target) PROVE DraftInv'
    BY <2>10, <2>o, CloseDrafted DEF CloseNext
  <2>11. ASSUME ReadDevice(s) \/ LockRun(s) PROVE DraftInv'
    BY <2>11, <2>o, ReadDrafted DEF ReadDevice, LockRun
  <2>12. ASSUME FlushDevice(s) PROVE DraftInv'
    BY <2>12, <2>o, FlushDrafted DEF FlushDevice
  <2>13. ASSUME RecomputeRun(s) PROVE DraftInv'
    BY <2>13, <2>o, RecomputeDrafted DEF RecomputeRun
  <2>14. ASSUME Commit(s) PROVE DraftInv'
    <3>1. \A t \in Session \ {s} : Drafts(t)'
      BY <2>14, OthersDrafts
    <3>2. Drafts(s)'
      <4>1. tx'[s] = Idle /\ Idle.op = "idle" /\ Idle.at # "commit"
        BY <1>t, <2>14 DEF Commit, Idle
      <4> QED BY <1>t, <4>1, NothingDrafted
    <3> QED BY <3>1, <3>2 DEF DraftInv
  <2> QED BY <1>3, <2>1, <2>2, <2>3, <2>4, <2>5, <2>6, <2>7, <2>8, <2>9, <2>10, <2>11, <2>12, <2>13, <2>14 DEF Step
<1> QED BY <1>1, <1>2, <1>3 DEF Next

LEMMA DraftInvAlways == Spec => []DraftInv
<1>1. Init => DraftInv
  <2> SUFFICES ASSUME Init, NEW s \in Session PROVE Drafts(s)
    BY DEF DraftInv
  <2>1. tx[s].op = "idle" /\ tx[s].at # "commit"
    BY DEF Init, Idle
  <2> QED BY <2>1 DEF Drafts, Readers, Contacts, Scans, Creates, Claims, Closes
<1> QED BY <1>1, DraftInvNext, LockingIsInvariant, RunInvAlways, PTL DEF Spec


-----------------------------------------------------------------------------
(* A commit is its transaction, done as a whole on the committed rows. *)

\* The vocabulary is that of Rows.
LEMMA SameWords ==
  /\ Atomically!ActiveJobStatuses = ActiveJobStatuses /\ Atomically!TerminalJobStatuses = TerminalJobStatuses
  /\ \A r : Atomically!JobsOf(r) = JobsOf(r)
  /\ \A old, S : Atomically!Recompute(old, S) = Recompute(old, S)
  /\ \A d : Atomically!HasActiveJob(d) <=> \E j \in JobsOn(d) : status[j] \in ActiveJobStatuses
<1>1. Atomically!ActiveJobStatuses = ActiveJobStatuses /\ Atomically!TerminalJobStatuses = TerminalJobStatuses
  BY DEF Atomically!ActiveJobStatuses, ActiveJobStatuses, Atomically!TerminalJobStatuses, TerminalJobStatuses
<1>2. \A r : Atomically!JobsOf(r) = JobsOf(r)
  BY DEF Atomically!JobsOf, JobsOf
<1>3. Atomically!TerminalRunStatuses = TerminalRunStatuses
  BY DEF Atomically!TerminalRunStatuses, TerminalRunStatuses
<1>4. \A old, S : Atomically!Recompute(old, S) = Recompute(old, S)
  BY <1>1, <1>3 DEF Atomically!Recompute, Recompute
<1>5. \A d : Atomically!HasActiveJob(d) <=> \E j \in JobsOn(d) : status[j] \in ActiveJobStatuses
  BY <1>1 DEF Atomically!HasActiveJob, JobsOn
<1> QED BY <1>1, <1>2, <1>4, <1>5

\* The runs of the jobs that a claim or a close commits are aggregated over
\* all their jobs, whoever has committed these.
LEMMA CommitAggregates ==
  ASSUME LockInv, RunInv, RunInv', NEW s \in Session, Commit(s), NEW J \in SUBSET Job,
         \A j \in J : status[j] \in ActiveJobStatuses /\ status'[j] # "absent",
         \A r \in Run : (\A j \in J : RunOf[j] # r) => status'[r] = status[r]
  PROVE  Atomically!Aggregate(J)
<1>1. ASSUME NEW r \in Run, \E j \in J : RunOf[j] = r
      PROVE  status'[r] = Recompute(status[r], {status'[j] : j \in JobsOf(r)} \ {"absent"})
  <2>1. PICK j \in J : RunOf[j] = r /\ j \in Job
    BY <1>1
  <2>2. status[r] \notin TerminalRunStatuses
    BY <2>1, ActiveRuns
  <2>3. CommittedJobs(r)' = {status'[k] : k \in JobsOf(r)} \ {"absent"}
    BY DEF CommittedJobs, JobsOf
  <2>4. status'[j] \in CommittedJobs(r)'
    BY <2>1, <2>3 DEF JobsOf
  <2>5. CommittedJobs(r)' \in SUBSET JobStatuses
    <3>1. LockInv'
      BY CommitStep
    <3> QED BY <2>3, <3>1 DEF LockInv, Tabled, JobsOf
  <2>6. status'[r] = Derived(CommittedJobs(r)')
    BY DEF RunInv
  <2> QED BY <2>2, <2>3, <2>4, <2>5, <2>6, RecomputeDerives
<1>2. \A r \in Run : {[j \in Job |-> status'[j]][k] : k \in JobsOf(r)} = {status'[j] : j \in JobsOf(r)}
  BY DEF JobsOf
<1>3. [r \in Run |-> status'[r]] =
        [r \in Run |-> IF \E j \in J : RunOf[j] = r
                       THEN Recompute([q \in Run |-> status[q]][r],
                                      {[j \in Job |-> status'[j]][k] : k \in JobsOf(r)} \ {"absent"})
                       ELSE [q \in Run |-> status[q]][r]]
  BY <1>1, <1>2
<1> QED BY <1>3, SameWords DEF Atomically!Aggregate

LEMMA ContactCommits ==
  ASSUME LockInv, DraftInv, NEW s \in Session, Commit(s), tx[s].op = "contact"
  PROVE  \E d \in Device : Atomically!Contact(d)
<1> DEFINE d == tx[s].cur
           v == tx[s].draft[d]
<1>1. /\ d \in Device /\ v \in {"online", "busy"} /\ \A x \in Row : tx[s].draft[x] # "same" => x = d
      /\ v = "busy" => status[d] # "online" /\ \E j \in JobsOn(d) : status[j] # "absent"
  BY DEF DraftInv, Drafts, Contacts, Commit
<1>2. /\ \A x \in Row : status'[x] = IF x = d THEN v ELSE status[x]
      /\ Device \subseteq Row /\ Run \subseteq Row /\ Job \subseteq Row
  BY <1>1, CommitWrites DEF Row
<1>3. \A x \in Run \cup Job : status'[x] = status[x]
  BY <1>1, <1>2, Tables
<1>4. hb' = [hb EXCEPT ![d] = "fresh"]
  BY DEF Commit, LockInv, Types
<1>5. v = "online" => ~\E j \in JobsOn(d) : status[j] \in ActiveJobStatuses
  <2>1. \A j \in Job : tx[s].draft[j] = "same"
    BY <1>1, <1>2, Tables
  <2>2. "same" \notin TerminalJobStatuses
    BY DEF TerminalJobStatuses
  <2> QED BY <1>1, <2>1, <2>2 DEF LockInv, SessionInv, OnlineDrafts, ActiveOn, JobsOn
<1>6. v \in Atomically!StatusesOnContact(d)
  <2>1. v = "busy" => \/ \E j \in JobsOn(d) : status[j] \in ActiveJobStatuses
                      \/ status[d] # "online" /\ \E j \in JobsOn(d) : status[j] \in TerminalJobStatuses
    BY <1>1 DEF LockInv, Tabled, JobStatuses, JobsOn
  <2>2. Atomically!HasActiveJob(d) => v = "busy"
    BY <1>1, <1>5, SameWords
  <2>3. v = "busy" /\ ~Atomically!HasActiveJob(d)
          => status[d] # "online" /\ \E j \in Job : DeviceOf[j] = d /\ status[j] \in Atomically!TerminalJobStatuses
    BY <2>1, SameWords DEF JobsOn
  <2> QED BY <1>1, <2>2, <2>3 DEF Atomically!StatusesOnContact
<1>7. [e \in Device |-> status'[e]] = [[e \in Device |-> status[e]] EXCEPT ![d] = v]
  BY <1>1, <1>2
<1> HIDE DEF d, v
<1>8. [r \in Run |-> status'[r]] = [r \in Run |-> status[r]] /\ [j \in Job |-> status'[j]] = [j \in Job |-> status[j]]
  BY <1>3
<1> QED BY <1>1, <1>4, <1>6, <1>7, <1>8 DEF Atomically!Contact

LEMMA ScanCommits ==
  ASSUME LockInv, DraftInv, NEW s \in Session, Commit(s), tx[s].op = "mark_stale"
  PROVE  \E D \in SUBSET Device : Atomically!MarkOffline(D)
<1> DEFINE D == {d \in Device : tx[s].draft[d] # "same"}
<1>1. \A x \in Row : tx[s].draft[x] # "same" => x \in Device /\ tx[s].draft[x] = "offline" /\ Stale(x)
  BY DEF DraftInv, Drafts, Scans
<1>2. /\ \A x \in Row : status'[x] = IF tx[s].draft[x] = "same" THEN status[x] ELSE tx[s].draft[x]
      /\ Device \subseteq Row /\ Run \subseteq Row /\ Job \subseteq Row
  BY CommitWrites DEF Row
<1>3. \A x \in Run \cup Job : status'[x] = status[x]
  BY <1>1, <1>2, Tables
<1>4. hb' = hb
  BY DEF Commit, LockInv, Types
<1>5. \A d \in D : status[d] \in {"online", "busy"} /\ hb[d] = "stale"
  BY <1>1, <1>2 DEF Stale
<1>6. \A d \in Device : status'[d] = IF d \in D THEN "offline" ELSE status[d]
  BY <1>1, <1>2
<1> HIDE DEF D
<1>7. D \in SUBSET Device
  BY DEF D
<1>8. /\ [d \in Device |-> status'[d]] = [d \in Device |-> IF d \in D THEN "offline" ELSE [e \in Device |-> status[e]][d]]
      /\ [r \in Run |-> status'[r]] = [r \in Run |-> status[r]]
      /\ [j \in Job |-> status'[j]] = [j \in Job |-> status[j]]
      /\ \A d \in D : [e \in Device |-> status[e]][d] = status[d]
  BY <1>3, <1>6, <1>7
<1> QED BY <1>4, <1>5, <1>7, <1>8 DEF Atomically!MarkOffline


LEMMA CreateCommits ==
  ASSUME LockInv, DraftInv, NEW s \in Session, Commit(s), tx[s].op = "create"
  PROVE  \E r \in Run, J \in SUBSET Job : Atomically!Create(r, J)
<1> DEFINE t == tx[s]
<1>0. PICK r \in Run, J \in SUBSET Job : r = t.cur /\ J = {j \in Job : t.draft[j] # "same"}
  BY DEF DraftInv, Drafts, Creates
<1> DEFINE S == {DeviceOf[j] : j \in J}
<1>1. /\ r \in Run /\ status[r] = "absent"
      /\ \A q \in Run : t.draft[q] = IF q = r THEN "queued" ELSE "same"
      /\ \A j \in J : t.draft[j] = "queued" /\ RunOf[j] = r
      /\ J # {}
      /\ \A d \in Device : IF d \in S THEN t.draft[d] = "busy" /\ status[d] = "online" ELSE t.draft[d] = "same"
  <2>1. Creates(s)
    BY DEF DraftInv, Drafts
  <2>2. \A d \in Device : d \in S <=> \E j \in JobsOn(d) : t.draft[j] # "same"
    BY <1>0 DEF JobsOn
  <2>3. \A j \in Job : j \in J <=> t.draft[j] # "same"
    BY <1>0
  <2> HIDE DEF S
  <2> QED BY <1>0, <2>1, <2>2, <2>3 DEF Creates
<1>2. /\ \A x \in Row : status'[x] = IF t.draft[x] = "same" THEN status[x] ELSE t.draft[x]
      /\ Device \subseteq Row /\ Run \subseteq Row /\ Job \subseteq Row
  BY CommitWrites DEF Row
<1>3. hb' = hb
  BY DEF Commit, LockInv, Types
<1>4. /\ \A d \in Device : status'[d] = IF d \in S THEN "busy" ELSE status[d]
      /\ \A q \in Run : status'[q] = IF q = r THEN "queued" ELSE status[q]
      /\ \A j \in Job : status'[j] = IF j \in J THEN "queued" ELSE status[j]
  <2>1. \A d \in Device : status'[d] = IF d \in S THEN "busy" ELSE status[d]
    <3> HIDE DEF S
    <3> QED BY <1>1, <1>2
  <2>2. \A q \in Run : status'[q] = IF q = r THEN "queued" ELSE status[q]
    <3> HIDE DEF S
    <3> QED BY <1>1, <1>2
  <2>3. \A j \in Job : status'[j] = IF j \in J THEN "queued" ELSE status[j]
    <3> HIDE DEF S
    <3> QED BY <1>0, <1>1, <1>2
  <2> QED BY <2>1, <2>2, <2>3
<1>5. S \subseteq Device /\ J \in SUBSET Job /\ J \subseteq Atomically!JobsOf(r)
  BY <1>1, Keys DEF Atomically!JobsOf
<1>6. \A d \in S : status[d] = "online" /\ ~Atomically!HasActiveJob(d)
  <2> HIDE DEF S
  <2>1. \A d \in S : status[d] = "online" /\ d \in Device
    BY <1>1, <1>5
  <2> QED BY <2>1, SameWords DEF LockInv, ReservationsAreExclusive
<1>7. /\ [d \in Device |-> status'[d]] = [d \in Device |-> IF d \in S THEN "busy" ELSE [e \in Device |-> status[e]][d]]
      /\ [q \in Run |-> status'[q]] = [[q \in Run |-> status[q]] EXCEPT ![r] = "queued"]
      /\ [j \in Job |-> status'[j]] = [j \in Job |-> IF j \in J THEN "queued" ELSE [k \in Job |-> status[k]][j]]
      /\ [q \in Run |-> status[q]][r] = "absent"
      /\ \A d \in S : [e \in Device |-> status[e]][d] = "online"
  <2> HIDE DEF S
  <2>1. [d \in Device |-> status'[d]] = [d \in Device |-> IF d \in S THEN "busy" ELSE [e \in Device |-> status[e]][d]]
    BY <1>4
  <2>2. [q \in Run |-> status'[q]] = [[q \in Run |-> status[q]] EXCEPT ![r] = "queued"]
    BY <1>4
  <2>3. [j \in Job |-> status'[j]] = [j \in Job |-> IF j \in J THEN "queued" ELSE [k \in Job |-> status[k]][j]]
    BY <1>4
  <2>4. [q \in Run |-> status[q]][r] = "absent" /\ \A d \in S : [e \in Device |-> status[e]][d] = "online"
    BY <1>1, <1>5, <1>6
  <2> QED BY <2>1, <2>2, <2>3, <2>4
<1>8. Atomically!Create(r, J)
  BY <1>1, <1>3, <1>5, <1>6, <1>7 DEF Atomically!Create
<1> QED BY <1>1, <1>5, <1>8

LEMMA ClaimCommits ==
  ASSUME LockInv, RunInv, DraftInv, NEW s \in Session, Commit(s), tx[s].op = "claim"
  PROVE  \E j \in Job : Atomically!Claim(j)
<1>0. PICK j \in Job : j = tx[s].cur
  BY DEF DraftInv, Drafts, Claims
<1>1. /\ j \in Job /\ status[j] \in {"queued", "retrying"} /\ tx[s].draft[j] = "running"
      /\ \A x \in Row : tx[s].draft[x] # "same" => x \in {j, RunOf[j]}
  BY <1>0 DEF DraftInv, Drafts, Claims
<1>2. /\ \A x \in Row : status'[x] = IF tx[s].draft[x] = "same" THEN status[x] ELSE tx[s].draft[x]
      /\ Device \subseteq Row /\ Run \subseteq Row /\ Job \subseteq Row /\ RunOf[j] \in Run
  BY <1>1, CommitWrites, Keys DEF Row
<1>3. hb' = hb
  BY DEF Commit, LockInv, Types
<1>4. /\ \A d \in Device : status'[d] = status[d]
      /\ \A r \in Run : r # RunOf[j] => status'[r] = status[r]
      /\ \A k \in Job : status'[k] = IF k = j THEN "running" ELSE status[k]
  BY <1>1, <1>2, Tables
<1>5. Atomically!Aggregate({j})
  <2>0. PICK J \in SUBSET Job : J = {j}
    BY <1>1
  <2>1. J \in SUBSET Job /\ (\A k \in J : status[k] \in ActiveJobStatuses /\ status'[k] # "absent")
        /\ \A r \in Run : (\A k \in J : RunOf[k] # r) => status'[r] = status[r]
    BY <1>1, <1>4, <2>0 DEF ActiveJobStatuses
  <2>2. RunInv'
    BY CommitRuns
  <2>3. Atomically!Aggregate(J)
    BY <2>1, <2>2, CommitAggregates
  <2>4. \A r \in Run : (\E k \in J : RunOf[k] = r) <=> \E k \in {j} : RunOf[k] = r
    BY <2>0
  <2> QED BY <2>3, <2>4 DEF Atomically!Aggregate
<1>6. /\ [d \in Device |-> status'[d]] = [d \in Device |-> status[d]]
      /\ [k \in Job |-> status'[k]] = [[k \in Job |-> status[k]] EXCEPT ![j] = "running"]
      /\ [k \in Job |-> status[k]][j] \in {"queued", "retrying"}
  BY <1>1, <1>4
<1> QED BY <1>1, <1>3, <1>5, <1>6 DEF Atomically!Claim

LEMMA CloseCommits ==
  ASSUME LockInv, RunInv, DraftInv, NEW s \in Session, Commit(s), tx[s].op = "close"
  PROVE  \E J \in SUBSET Job : Atomically!Close(J)
<1> DEFINE t == tx[s]
<1>0. PICK J \in SUBSET Job : J = {j \in Job : t.draft[j] # "same"}
  OBVIOUS
<1> DEFINE v == [j \in J |-> t.draft[j]]
           released == {DeviceOf[j] : j \in {k \in J : v[k] \in TerminalJobStatuses}}
<1>1. /\ J # {}
      /\ \A j \in J : status[j] = "running" /\ t.draft[j] \in {"retrying"} \cup TerminalJobStatuses
      /\ \A r \in Run : t.draft[r] # "same" => \E j \in J : RunOf[j] = r
      /\ \A d \in Device : t.draft[d] # "same" => t.draft[d] \in {"online", "offline"} /\ Releasing(s, d)
  <2>1. Closes(s) /\ t.at = "commit"
    BY DEF DraftInv, Drafts, Commit
  <2> QED BY <1>0, <2>1 DEF Closes, JobsOf
<1>2. /\ \A x \in Row : status'[x] = IF t.draft[x] = "same" THEN status[x] ELSE t.draft[x]
      /\ Device \subseteq Row /\ Run \subseteq Row /\ Job \subseteq Row
  BY CommitWrites DEF Row
<1>3. hb' = hb
  BY DEF Commit, LockInv, Types
<1>4. /\ v \in [J -> {"retrying"} \cup TerminalJobStatuses]
      /\ J \in SUBSET Job
      /\ \A d \in Device : d \in released <=> Releasing(s, d)
  <2>1. v \in [J -> {"retrying"} \cup TerminalJobStatuses] /\ J \in SUBSET Job
    BY <1>0, <1>1
  <2>2. "same" \notin TerminalJobStatuses
    BY DEF TerminalJobStatuses
  <2> QED BY <1>0, <2>1, <2>2 DEF Releasing, JobsOn
<1>5. \A j \in Job : status'[j] = IF j \in J THEN v[j] ELSE status[j]
  BY <1>0, <1>2
<1>6. \A r \in Run : (\A j \in J : RunOf[j] # r) => status'[r] = status[r]
  BY <1>1, <1>2
<1>7. \A d \in Device : IF d \in released
                        THEN status'[d] \in {"online", "offline", status[d]}
                        ELSE status'[d] = status[d]
  <2> HIDE DEF released
  <2> QED BY <1>1, <1>2, <1>4
<1>8. Atomically!Aggregate(J)
  <2>1. \A j \in J : status[j] \in ActiveJobStatuses /\ status'[j] # "absent"
    BY <1>1, <1>5 DEF ActiveJobStatuses, TerminalJobStatuses
  <2>2. RunInv'
    BY CommitRuns
  <2> QED BY <1>6, <2>1, <2>2, CommitAggregates
<1>9. \A d \in released : d \in Device /\ status'[d] \in Atomically!ReleaseOutcomes(d)
  <2>1. \A d \in released : d \in Device
    BY Keys
  <2> HIDE DEF released
  <2> QED BY <1>7, <2>1 DEF Atomically!ReleaseOutcomes
<1>10. /\ \A d \in Device : IF d \in released
                            THEN [e \in Device |-> status'[e]][d] \in Atomically!ReleaseOutcomes(d)
                            ELSE [e \in Device |-> status'[e]][d] = [e \in Device |-> status[e]][d]
       /\ [j \in Job |-> status'[j]] = [j \in Job |-> IF j \in J THEN v[j] ELSE [k \in Job |-> status[k]][j]]
       /\ \A j \in J : [k \in Job |-> status[k]][j] = "running"
  <2> HIDE DEF v, released
  <2> QED BY <1>1, <1>4, <1>5, <1>7, <1>9
<1>11. Atomically!Close(J)
  <2> DEFINE gone == {DeviceOf[j] : j \in {k \in J : v[k] \in Atomically!TerminalJobStatuses}}
  <2>1. gone = released /\ v \in [J -> {"retrying"} \cup Atomically!TerminalJobStatuses]
    BY <1>4, SameWords
  <2> HIDE DEF v, released
  <2>2. LET g == {DeviceOf[j] : j \in {k \in J : v[k] \in Atomically!TerminalJobStatuses}} IN
        /\ [j \in Job |-> status'[j]] = [j \in Job |-> IF j \in J THEN v[j] ELSE [k \in Job |-> status[k]][j]]
        /\ DOMAIN [d \in Device |-> status'[d]] = Device
        /\ \A d \in Device : IF d \in g
                             THEN [e \in Device |-> status'[e]][d] \in Atomically!ReleaseOutcomes(d)
                             ELSE [e \in Device |-> status'[e]][d] = [e \in Device |-> status[e]][d]
    BY <1>10, <2>1
  <2> QED BY <1>1, <1>3, <1>4, <1>8, <1>10, <2>1, <2>2 DEF Atomically!Close
<1> QED BY <1>4, <1>11

\* Nothing but a commit, and the clock, changes the committed rows.
LEMMA RowsNextOrNothing ==
  LockInv /\ RunInv /\ DraftInv /\ [Next]_vars => [Atomically!RowsNext]_(Atomically!rows)
<1> SUFFICES ASSUME LockInv, RunInv, DraftInv, [Next]_vars PROVE [Atomically!RowsNext]_(Atomically!rows)
  OBVIOUS
<1>s. ASSUME UNCHANGED <<status, hb>> PROVE UNCHANGED Atomically!rows
  BY <1>s DEF Atomically!rows
<1>1. CASE UNCHANGED vars
  BY <1>1, <1>s DEF vars
<1>2. ASSUME NEW d \in Device, HeartbeatExpires(d) PROVE Atomically!RowsNext
  <2>1. Atomically!HeartbeatExpires(d)
    BY <1>2 DEF HeartbeatExpires, Atomically!HeartbeatExpires
  <2> QED BY <2>1 DEF Atomically!RowsNext
<1>3. ASSUME NEW s \in Session, Commit(s) PROVE Atomically!RowsNext
  <2>1. tx[s].op \in {"contact", "mark_stale", "create", "claim", "close"}
    BY <1>3, CommitWrites
  <2>2. CASE tx[s].op = "contact"
    BY <1>3, <2>2, ContactCommits DEF Atomically!RowsNext
  <2>3. CASE tx[s].op = "mark_stale"
    BY <1>3, <2>3, ScanCommits DEF Atomically!RowsNext
  <2>4. CASE tx[s].op = "create"
    BY <1>3, <2>4, CreateCommits DEF Atomically!RowsNext
  <2>5. CASE tx[s].op = "claim"
    BY <1>3, <2>5, ClaimCommits DEF Atomically!RowsNext
  <2>6. CASE tx[s].op = "close"
    BY <1>3, <2>6, CloseCommits DEF Atomically!RowsNext
  <2> QED BY <2>1, <2>2, <2>3, <2>4, <2>5, <2>6
<1>4. ASSUME NEW s \in Session, Step(s), ~Commit(s) PROVE UNCHANGED <<status, hb>>
  BY <1>4
  DEF Step, BeginContact, BeginInsert, Insert, Contact, BeginMarkStale, MarkRow, CreateOnAll, CreateOnRequested,
      BeginCreate, BeginClaim, BeginClose, CloseNext, ReadDevice, FlushDevice, LockRun, RecomputeRun, ReadRest,
      BeginRead, Rollback, Begin
<1> QED BY <1>1, <1>2, <1>3, <1>4, <1>s DEF Next

\* At any number of sessions, and however their statements interleave, each
\* commit changes the committed rows as its whole transaction would, run alone
\* at that moment; nothing else changes them.
THEOREM TransactionsAreAtomic == Spec => CommitsAreAtomic
<1>1. Init => Atomically!RowsInit
  <2> SUFFICES ASSUME Init PROVE Atomically!RowsInit
    OBVIOUS
  <2>1. \A x \in Device \cup Run \cup Job : status[x] = "absent"
    BY DEF Init, Row
  <2> QED BY <2>1 DEF Init, Atomically!RowsInit
<1> QED BY <1>1, RowsNextOrNothing, LockingIsInvariant, RunInvAlways, DraftInvAlways, PTL
        DEF Spec, CommitsAreAtomic, Atomically!RowsSpec

-----------------------------------------------------------------------------
(* What a client sees of the committed rows. *)

Verdict == [j \in Job |-> VerdictOf(j)]

\* The run row shows the outcome that the verdicts deserve.
LEMMA OutcomesAreDeserved ==
  LockInv /\ RunInv => \A r \in Run : OutcomeSeen(r) = Promise!OutcomeOf(r, Verdict)
<1> SUFFICES ASSUME LockInv, RunInv, NEW r \in Run
             PROVE  OutcomeSeen(r) = Promise!OutcomeOf(r, Verdict)
  OBVIOUS
<1> DEFINE S   == CommittedJobs(r)
           its == {Verdict[j] : j \in {k \in Job : RunOf[k] = r}} \ {"none"}
<1>1. \A j \in Job : /\ status[j] = "absent" <=> Verdict[j] = "none"
                     /\ status[j] \in ActiveJobStatuses <=> Verdict[j] = "pending"
                     /\ status[j] \in TerminalJobStatuses => Verdict[j] = status[j]
                     /\ status[j] \in ActiveJobStatuses \cup TerminalJobStatuses \cup {"absent"}
  BY DEF Verdict, VerdictOf, ActiveJobStatuses, TerminalJobStatuses, JobStatuses, LockInv, Tabled
<1>2. S = {} <=> its = {}
  BY <1>1 DEF CommittedJobs, JobsOf
<1>3. S \subseteq TerminalJobStatuses <=> "pending" \notin its
  <2>1. ActiveJobStatuses \cap TerminalJobStatuses = {} /\ "absent" \notin ActiveJobStatuses \cup TerminalJobStatuses
    BY DEF ActiveJobStatuses, TerminalJobStatuses
  <2> QED BY <1>1, <2>1 DEF CommittedJobs, JobsOf
<1>4. S = {"passed"} <=> its = {"passed"}
  <2>1. \A j \in Job : status[j] = "passed" <=> Verdict[j] = "passed"
    BY <1>1 DEF ActiveJobStatuses, TerminalJobStatuses
  <2> QED BY <1>1, <2>1 DEF CommittedJobs, JobsOf
<1>5. S \in SUBSET JobStatuses /\ status[r] = Derived(S)
  BY DEF LockInv, Tabled, CommittedJobs, JobsOf, RunInv
<1>6. Promise!OutcomeOf(r, Verdict) = CASE its = {}          -> "none"
                                        [] "pending" \in its -> "pending"
                                        [] its = {"passed"}  -> "passed"
                                        [] OTHER             -> "failed"
  BY DEF Promise!OutcomeOf
<1> HIDE DEF S, its
<1>7. OutcomeSeen(r) = CASE S = {}                             -> "none"
                         [] ~(S \subseteq TerminalJobStatuses) -> "pending"
                         [] S = {"passed"}                     -> "passed"
                         [] OTHER                              -> "failed"
  BY <1>5 DEF OutcomeSeen, Derived, Recompute, JobStatuses, ActiveJobStatuses, TerminalJobStatuses, TerminalRunStatuses
<1> QED BY <1>2, <1>3, <1>4, <1>6, <1>7

\* A step of Rows is one of Lab, or changes nothing that a client sees.
LEMMA RowsKeepPromises ==
  ASSUME LockInv, LockInv', RunInv, RunInv', [Atomically!RowsNext]_(Atomically!rows)
  PROVE  [Promise!LabNext]_(Promise!labVars)
<1>d. /\ \A r \in Run : OutcomeSeen(r) = Promise!OutcomeOf(r, Verdict)
      /\ \A r \in Run : OutcomeSeen(r)' = Promise!OutcomeOf(r, Verdict')
  <2>1. (\A r \in Run : OutcomeSeen(r) = Promise!OutcomeOf(r, Verdict))'
    BY OutcomesAreDeserved, PTL
  <2> QED BY <2>1, OutcomesAreDeserved DEF Promise!OutcomeOf
<1>s. ASSUME \A j \in Job : VerdictOf(j)' = VerdictOf(j) PROVE UNCHANGED Promise!labVars
  <2>1. Verdict' = Verdict
    BY <1>s DEF Verdict
  <2>2. \A r \in Run : OutcomeSeen(r)' = OutcomeSeen(r)
    BY <1>d, <2>1
  <2> QED BY <1>s, <2>2 DEF Promise!labVars
<1>q. ASSUME [j \in Job |-> status'[j]] = [j \in Job |-> status[j]] PROVE UNCHANGED Promise!labVars
  <2>1. \A j \in Job : status'[j] = [k \in Job |-> status[k]][j]
    BY <1>q
  <2>2. \A j \in Job : status'[j] = status[j]
    BY <2>1
  <2> QED BY <1>s, <2>2 DEF VerdictOf
<1>1. CASE UNCHANGED Atomically!rows
  BY <1>1, <1>q DEF Atomically!rows
<1>2. ASSUME NEW d \in Device, Atomically!Contact(d) \/ Atomically!HeartbeatExpires(d) PROVE UNCHANGED Promise!labVars
  BY <1>2, <1>q DEF Atomically!Contact, Atomically!HeartbeatExpires
<1>3. ASSUME NEW D \in SUBSET Device, Atomically!MarkOffline(D) PROVE UNCHANGED Promise!labVars
  BY <1>3, <1>q DEF Atomically!MarkOffline
<1>4. ASSUME NEW j \in Job, Atomically!Claim(j) PROVE UNCHANGED Promise!labVars
  <2>1. /\ [k \in Job |-> status'[k]] = [[k \in Job |-> status[k]] EXCEPT ![j] = "running"]
        /\ status[j] \in {"queued", "retrying"}
    BY <1>4 DEF Atomically!Claim
  <2>2. \A k \in Job : status'[k] = [[i \in Job |-> status[i]] EXCEPT ![j] = "running"][k]
    BY <2>1
  <2>3. \A k \in Job : status'[k] = IF k = j THEN "running" ELSE status[k]
    BY <2>2
  <2> QED BY <1>s, <2>1, <2>3 DEF VerdictOf, ActiveJobStatuses
<1>5. ASSUME NEW r \in Run, NEW J \in SUBSET Job, Atomically!Create(r, J) PROVE Promise!Reserve(r, J)
  <2>1. /\ status[r] = "absent" /\ J # {} /\ J \subseteq JobsOf(r)
        /\ \A j \in J : ~\E k \in JobsOn(DeviceOf[j]) : status[k] \in ActiveJobStatuses
        /\ [q \in Run |-> status'[q]] = [[q \in Run |-> status[q]] EXCEPT ![r] = "queued"]
        /\ [j \in Job |-> status'[j]] = [j \in Job |-> IF j \in J THEN "queued" ELSE [k \in Job |-> status[k]][j]]
    BY <1>5, SameWords DEF Atomically!Create
  <2>2. \A j \in Job : status'[j] = [i \in Job |-> IF i \in J THEN "queued" ELSE [k \in Job |-> status[k]][i]][j]
    BY <2>1
  <2>3. \A q \in Run : status'[q] = [[i \in Run |-> status[i]] EXCEPT ![r] = "queued"][q]
    BY <2>1
  <2>4. \A j \in Job : status'[j] = IF j \in J THEN "queued" ELSE status[j]
    BY <2>2
  <2>5. \A q \in Run : status'[q] = IF q = r THEN "queued" ELSE status[q]
    BY <2>3
  <2>6. \A j \in Job : VerdictOf(j)' = IF j \in J THEN "pending" ELSE VerdictOf(j)
    BY <2>4 DEF VerdictOf, ActiveJobStatuses
  <2>7. \A j \in J : RunOf[j] = r /\ DeviceOf[j] \notin Promise!Held
    <3>1. \A k \in Job : VerdictOf(k) = "pending" => status[k] \in ActiveJobStatuses
      BY DEF VerdictOf, LockInv, Tabled, JobStatuses, ActiveJobStatuses, TerminalJobStatuses
    <3>2. \A k \in Promise!Pending : status[k] \in ActiveJobStatuses /\ k \in Job
      BY <3>1 DEF Promise!Pending
    <3> QED BY <2>1, <3>2 DEF JobsOf, JobsOn, Promise!Held
  <2>8. OutcomeSeen(r) = "none"
    BY <2>1 DEF OutcomeSeen
  <2>9. \A q \in Run : OutcomeSeen(q)' = IF q = r THEN "pending" ELSE OutcomeSeen(q)
    BY <2>5 DEF OutcomeSeen
  <2> QED BY <2>1, <2>6, <2>7, <2>8, <2>9 DEF Promise!Reserve
<1>6. ASSUME NEW J \in SUBSET Job, Atomically!Close(J)
      PROVE  [\E K \in SUBSET Promise!Pending : Promise!Conclude(K)]_(Promise!labVars)
  <2>1. PICK w \in [J -> {"retrying"} \cup TerminalJobStatuses] :
          [j \in Job |-> status'[j]] = [j \in Job |-> IF j \in J THEN w[j] ELSE [k \in Job |-> status[k]][j]]
    BY <1>6, SameWords DEF Atomically!Close
  <2>2. \A j \in Job : status'[j] = [i \in Job |-> IF i \in J THEN w[i] ELSE [k \in Job |-> status[k]][i]][j]
    BY <2>1
  <2>3. \A j \in Job : status'[j] = IF j \in J THEN w[j] ELSE status[j]
    BY <2>2
  <2>4. \A j \in J : status[j] = "running"
    <3>1. \A j \in J : [k \in Job |-> status[k]][j] = "running"
      BY <1>6 DEF Atomically!Close
    <3> QED BY <3>1
  <2>5. PICK K \in SUBSET Job : K = {j \in J : w[j] \in TerminalJobStatuses}
    OBVIOUS
  <2> DEFINE v == [j \in K |-> w[j]]
  <2>6. \A j \in Job : VerdictOf(j)' = IF j \in K THEN v[j] ELSE VerdictOf(j)
    <3>1. \A j \in K : VerdictOf(j)' = w[j]
      BY <2>3, <2>5 DEF VerdictOf, ActiveJobStatuses, TerminalJobStatuses
    <3>2. \A j \in J \ K : VerdictOf(j)' = "pending" /\ VerdictOf(j) = "pending"
      BY <2>1, <2>3, <2>4, <2>5 DEF VerdictOf, ActiveJobStatuses
    <3>3. \A j \in Job \ J : VerdictOf(j)' = VerdictOf(j)
      BY <2>3 DEF VerdictOf
    <3> QED BY <2>5, <3>1, <3>2, <3>3
  <2>7. K \subseteq Promise!Pending /\ v \in [K -> Promise!Verdicts]
    BY <2>4, <2>5 DEF Promise!Pending, Promise!Verdicts, VerdictOf, ActiveJobStatuses, TerminalJobStatuses
  <2> HIDE DEF v
  <2>8. CASE K = {}
    BY <1>s, <2>6, <2>8
  <2>9. CASE K # {}
    <3>1. [r \in Run |-> OutcomeSeen(r)]' = [r \in Run |-> Promise!OutcomeOf(r, Verdict')]
      BY <1>d
    <3> QED BY <2>6, <2>7, <2>9, <3>1 DEF Promise!Conclude, Verdict
  <2> QED BY <2>8, <2>9
<1> QED BY <1>1, <1>2, <1>3, <1>4, <1>5, <1>6 DEF Atomically!RowsNext, Promise!LabNext

\* Transactions, locks, races and rollbacks are invisible: at any number of
\* sessions a client sees reservations of free devices, verdicts, and the
\* outcome of a run at the very commit that brings its last verdict.
THEOREM TransactionsKeepPromises == Spec => ImplementsLab
<1>1. Init => Promise!LabInit
  <2> SUFFICES ASSUME Init PROVE Promise!LabInit
    OBVIOUS
  <2>1. \A x \in Run \cup Job : status[x] = "absent"
    BY DEF Init, Row
  <2>2. (\A j \in Job : VerdictOf(j) = "none") /\ \A r \in Run : OutcomeSeen(r) = "none"
    BY <2>1 DEF VerdictOf, OutcomeSeen, ActiveJobStatuses
  <2> QED BY <2>2 DEF Promise!LabInit
<1>2. LockInv /\ LockInv' /\ RunInv /\ RunInv' /\ DraftInv /\ [Next]_vars => [Promise!LabNext]_(Promise!labVars)
  BY RowsNextOrNothing, RowsKeepPromises
<1> QED BY <1>1, <1>2, LockingIsInvariant, RunInvAlways, DraftInvAlways, PTL
        DEF Spec, ImplementsLab, Promise!LabSpec
=============================================================================
