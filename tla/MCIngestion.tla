------------------------------ MODULE MCIngestion ------------------------------
(* Instances of Ingestion for TLC. *)
EXTENDS Ingestion, TLC

CONSTANTS o1, o2, o3, t1, t2

MCObject == {o1, o2, o3}
MCThread == {t1, t2}

\* Objects and threads are interchangeable: the initial listing may be in any order.
Symmetry == Permutations(MCObject) \cup Permutations(MCThread)
=============================================================================
