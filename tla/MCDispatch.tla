----------------------------- MODULE MCDispatch -----------------------------
(* Instances of Dispatch for TLC.  A job is the pair of its foreign keys.   *)
EXTENDS Dispatch, TLC

CONSTANTS d1, d2, r1, r2

\* One run over two devices.
OneRun       == {<<r1, d1>>, <<r1, d2>>}
\* Two runs that compete for one device.
OneDevice    == {<<r1, d1>>, <<r2, d1>>}

\* One job.
OneJob       == {<<r1, d1>>}

MCRunOf    == [j \in Job |-> j[1]]
MCDeviceOf == [j \in Job |-> j[2]]

TaskSymmetry == Permutations(Task)

\* The two jobs of OneRun are the same up to the names of their devices.
TaskAndDeviceSymmetry == Permutations(Task) \cup Permutations(Device)
=============================================================================
