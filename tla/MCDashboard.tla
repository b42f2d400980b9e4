----------------------------- MODULE MCDashboard -----------------------------
(* An instance of Dashboard for TLC: a simulator and a host.                *)
EXTENDS Dashboard, TLC

CONSTANTS d1, d2, smoke, health

MCSupports == d1 :> {smoke} @@ d2 :> {smoke, health}
=============================================================================
