----------------------------- MODULE MCCiClient -----------------------------
(* An instance of CiClient for TLC: two runs that need the same device, and *)
(* a second device for one of them.                                         *)
EXTENDS CiClient

CONSTANTS d1, d2, r1, r2

Jobs       == {<<r1, d1>>, <<r1, d2>>, <<r2, d1>>}
MCRunOf    == [j \in Job |-> j[1]]
MCDeviceOf == [j \in Job |-> j[2]]
=============================================================================
