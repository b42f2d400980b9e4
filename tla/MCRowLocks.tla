----------------------------- MODULE MCRowLocks -----------------------------
(* Instances of RowLocks for TLC.  A job is the pair of its foreign keys.   *)
EXTENDS RowLocks, TLC

CONSTANTS d1, d2, r1, r2

OneRun    == {<<r1, d1>>, <<r1, d2>>}
Shared    == {<<r1, d1>>, <<r1, d2>>, <<r2, d1>>}
OneDevice == {<<r1, d1>>, <<r2, d1>>}

MCRunOf    == [j \in Job |-> j[1]]
MCDeviceOf == [j \in Job |-> j[2]]

SessionSymmetry == Permutations(Session)
=============================================================================
