---------------------------- MODULE MCRedelivery ----------------------------
(* Redelivery with a tick of five seconds: the default settings make         *)
(* JobTimeout 1, HostJobTimeout 2, LeaseGrace 1, and backoffs of at most 2.  *)
EXTENDS Redelivery, TLC

Default == [first |-> 1, max |-> 2]
Long    == [first |-> 9, max |-> 9]

DefaultOrLong == {Default, Long}

CopySymmetry == Permutations(Copy)
=============================================================================
