------------------------------ MODULE MCLifecycle ------------------------------
(* Instance of Lifecycle for TLC: the startup probe of the chart, scaled down. *)
EXTENDS Lifecycle
=============================================================================
