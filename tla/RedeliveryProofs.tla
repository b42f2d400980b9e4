-------------------------- MODULE RedeliveryProofs --------------------------
(***************************************************************************)
(* With settings that fit, a message is never delivered while a worker     *)
(* that received it is alive, and its task id identifies an attempt.       *)
(***************************************************************************)
EXTENDS Redelivery, FiniteSetTheorems, TLAPS

Types ==
  /\ backoff \in Backoffs /\ timeout \in {JobTimeout, HostJobTimeout}
  /\ status \in {"waiting", "running", "passed", "failed"}
  /\ due \in Nat /\ lease \in Nat /\ attempts \in Nat /\ eta \in Nat
  /\ where \in [Copy -> {"none", "held", "executing", "gone"}]
  /\ age \in [Copy -> Nat] /\ waited \in [Copy -> Nat]
  /\ ran \in [Copy -> Nat] /\ claimed \in [Copy -> Nat]
  /\ status = "running" => attempts > 0

OneDelivery == \A c, e \in Copy : where[c] # "none" /\ where[e] # "none" => c = e

\* Every tick of a live copy's age is accounted for.
Accounted ==
  \A c \in Copy :
    Live(c) => /\ age[c] + eta <= backoff.max + waited[c] + ran[c]
               /\ waited[c] <= PoolWait /\ ran[c] <= HardLimit

Budget == attempts <= MaxAttempts /\ (status = "waiting" => attempts < MaxAttempts)

\* The worker's snapshot is the row's counter as long as it owns the attempt.
SnapshotCurrent ==
  \A c \in Copy : where[c] = "executing" /\ OwnsRunningAttempt => claimed[c] = attempts

RedeliveryInv == Types /\ OneDelivery /\ Accounted /\ Budget /\ SnapshotCurrent

LEMMA LimitsAreNat ==
  /\ HardLimit \in Nat /\ VisibilityTimeout \in Nat
  /\ VisibilityTimeout >= 3 * HardLimit
  /\ timeout \in {JobTimeout, HostJobTimeout} => LeaseTime \in Nat
BY Times DEF LeaseTime, HardLimit, VisibilityTimeout, Longest

LEMMA DelaysAreBounded ==
  ASSUME backoff \in Backoffs, NEW n \in Nat \ {0}
  PROVE  Delay(n) \in 0..backoff.max
<1>1. 2^(n - 1) \in Nat
  <2>1. IsFiniteSet(1..(n - 1)) /\ Cardinality(1..(n - 1)) = n - 1
    BY FS_Interval
  <2> QED BY <2>1, FS_SUBSET, FS_CardinalityType
<1> QED BY <1>1, Times DEF Delay

LEMMA RedeliveryInvInit ==
  Init => RedeliveryInv
BY Times, LimitsAreNat, DelaysAreBounded
DEF Init, RedeliveryInv, Types, OneDelivery, Accounted, Budget, SnapshotCurrent,
    OwnsRunningAttempt, Live

\* No copy lives long enough to be delivered again.
LEMMA NeverRedelivered ==
  ASSUME SettingsFit, RedeliveryInv, NEW c \in Copy, NEW e \in Copy
  PROVE  ~Redeliver(c, e)
BY Times, LimitsAreNat
DEF SettingsFit, RedeliveryInv, Types, Accounted, Redeliver

LEMMA RedeliveryInvNext ==
  ASSUME SettingsFit, RedeliveryInv, UNCHANGED fixed,
         \/ \E c \in Copy : Step(c)
         \/ LeaseExpires \/ OtherTaskClaims \/ OtherTaskReports \/ Tick
  PROVE  RedeliveryInv'
<1> USE Times, LimitsAreNat, DelaysAreBounded DEF RedeliveryInv, fixed
<1>1. ASSUME NEW c \in Copy, Execute(c) PROVE RedeliveryInv'
  <2>1. CASE Claimable
    BY <1>1, <2>1 DEF Execute, Claim, Claimable, Types, OneDelivery, Accounted, Budget,
       SnapshotCurrent, OwnsRunningAttempt, Live
  <2>2. CASE ~Claimable
    BY <1>1, <2>2 DEF Execute, jobVars, Types, OneDelivery, Accounted, Budget,
       SnapshotCurrent, OwnsRunningAttempt, Live
  <2> QED BY <2>1, <2>2
<1>2. ASSUME NEW c \in Copy, Report(c) PROVE RedeliveryInv'
  <2>1. CASE OwnsRunningAttempt
    <3>1. claimed[c] = attempts
      BY <1>2, <2>1 DEF Report, SnapshotCurrent
    <3> QED BY <1>2, <2>1, <3>1 DEF Report, EndAttempt, Outcomes, Types, OneDelivery, Accounted,
               Budget, SnapshotCurrent, OwnsRunningAttempt, Live
  <2>2. CASE ~OwnsRunningAttempt
    BY <1>2, <2>2 DEF Report, jobVars, Types, OneDelivery, Accounted, Budget,
       SnapshotCurrent, OwnsRunningAttempt, Live
  <2> QED BY <2>1, <2>2
<1>3. ASSUME NEW c \in Copy, Kill(c) PROVE RedeliveryInv'
  BY <1>3 DEF Kill, jobVars, Types, OneDelivery, Accounted, Budget, SnapshotCurrent,
     OwnsRunningAttempt, Live
<1>4. ASSUME NEW c \in Copy, NEW e \in Copy, Redeliver(c, e) PROVE RedeliveryInv'
  BY <1>4, NeverRedelivered
<1>5. CASE LeaseExpires
  BY <1>5 DEF LeaseExpires, copyVars, Types, OneDelivery, Accounted, Budget,
     SnapshotCurrent, OwnsRunningAttempt, Live
<1>6. CASE OtherTaskClaims
  BY <1>6 DEF OtherTaskClaims, Claimable, Claim, copyVars, Types, OneDelivery, Accounted,
     Budget, SnapshotCurrent, OwnsRunningAttempt, Live
<1>7. CASE OtherTaskReports
  BY <1>7 DEF OtherTaskReports, EndAttempt, Outcomes, copyVars, Types, OneDelivery, Accounted,
     Budget, SnapshotCurrent, OwnsRunningAttempt, Live
<1>8. CASE Tick
  <2>1. Types' /\ OneDelivery' /\ Budget' /\ SnapshotCurrent'
    BY <1>8 DEF Tick, Less, Types, OneDelivery, Budget, SnapshotCurrent,
       OwnsRunningAttempt, Live
  <2>2. Accounted'
    BY <1>8 DEF Tick, Less, Types, Accounted, Live
  <2> QED BY <2>1, <2>2
<1> QED BY <1>1, <1>2, <1>3, <1>4, <1>5, <1>6, <1>7, <1>8 DEF Step

LEMMA Inductive == Spec => [](SettingsFit => RedeliveryInv)
<1>1. ASSUME SettingsFit => RedeliveryInv, Next PROVE (SettingsFit => RedeliveryInv)'
  <2>1. UNCHANGED fixed /\ (SettingsFit' => SettingsFit)
    BY <1>1 DEF Next, fixed, SettingsFit, HardLimit, Longest
  <2> QED BY <1>1, <2>1, RedeliveryInvNext DEF Next
<1>2. ASSUME SettingsFit => RedeliveryInv, UNCHANGED vars PROVE (SettingsFit => RedeliveryInv)'
  BY <1>2 DEF SettingsFit, HardLimit, Longest, RedeliveryInv, vars, fixed, jobVars, copyVars, Types,
     OneDelivery, Accounted, Budget, SnapshotCurrent, OwnsRunningAttempt, Live
<1> QED BY <1>1, <1>2, RedeliveryInvInit, PTL DEF Spec

\* core/config.py: with settings that fit, no task is redelivered while a
\* live worker can still own it.
THEOREM SoleOwner == Spec => []RedeliveredOnlyWhenOver
<1>1. (SettingsFit => RedeliveryInv) => RedeliveredOnlyWhenOver
  <2> DEFINE L == {c \in Copy : Live(c)}
  <2> HIDE DEF L
  <2> SUFFICES ASSUME RedeliveryInv PROVE Cardinality(L) <= 1
    BY DEF RedeliveredOnlyWhenOver, L
  <2>1. CASE L = {}
    BY <2>1, FS_EmptySet
  <2>2. CASE L # {}
    <3>1. PICK c \in L : TRUE
      BY <2>2
    <3>2. L = {c}
      BY <3>1 DEF RedeliveryInv, OneDelivery, Live, L
    <3> QED BY <3>2, FS_Singleton
  <2> QED BY <2>1, <2>2
<1> QED BY <1>1, Inductive, PTL

\* The attempt budget: the worker's snapshot, from which it decides whether to
\* retry, is then always current.
THEOREM AttemptsBounded == Spec => []BudgetRespected
<1>1. (SettingsFit => RedeliveryInv) => BudgetRespected
  BY DEF RedeliveryInv, Budget, BudgetRespected
<1> QED BY <1>1, Inductive, PTL

\* docs/architecture.md: with settings that fit, the task id tells a late
\* response from that of the current attempt.
THEOREM LateResponsesAreDiscarded == Spec => OwnersAreIdentified
<1>1. (SettingsFit => RedeliveryInv) /\ [Next]_vars
        => [\A c \in Copy : SettingsFit /\ Report(c) /\ claimed[c] # attempts
                            => UNCHANGED jobVars]_vars
  <2> SUFFICES ASSUME RedeliveryInv, NEW c \in Copy, Report(c), claimed[c] # attempts
               PROVE  UNCHANGED jobVars
    OBVIOUS
  <2>1. ~OwnsRunningAttempt
    BY DEF RedeliveryInv, SnapshotCurrent, Report
  <2> QED BY <2>1 DEF Report
<1> QED BY <1>1, Inductive, PTL DEF Spec, OwnersAreIdentified

\* docs/architecture.md: a late response cannot overwrite a terminal result,
\* whatever the settings.
TerminalIsFinal == [][(status \in Outcomes) => UNCHANGED <<status, attempts, owner>>]_vars

\* OwnsRunningAttempt asks for the status "running", and so does every other
\* writer of the row: no step of a job that is over changes it.
THEOREM TerminalResultsStay == Spec => TerminalIsFinal
<1>1. [Next]_vars => [(status \in Outcomes) => UNCHANGED <<status, attempts, owner>>]_vars
  <2> SUFFICES ASSUME Next, status \in Outcomes PROVE UNCHANGED <<status, attempts, owner>>
    OBVIOUS
  <2> QED BY DEF Next, Step, Execute, Report, Kill, Redeliver, LeaseExpires, OtherTaskClaims,
             OtherTaskReports, Claimable, OwnsRunningAttempt, Tick, jobVars, Outcomes
<1> QED BY <1>1, PTL DEF Spec, TerminalIsFinal
=============================================================================
