-------------------------------- MODULE MCGraph --------------------------------
(* Instances of GraphPipeline for TLC. *)
EXTENDS GraphPipeline, TLC

CONSTANTS inc, svc, w1, w2

MCKey == {inc, svc}
MCEdgeType == {"AFFECTS"}
MCWorker == {w1, w2}

\* The two processes of the graph service are interchangeable.
Symmetry == Permutations(MCWorker)

N(k, v) == [key |-> k, value |-> v]
Affects(c) == [id |-> <<"AFFECTS", inc, svc>>, conf |-> c]

\* An incident opens on a service; a thread mentions both, without the severity and
\* with a link that is only inferred; the severity of the incident changes, in a
\* ticket that refers to a service it does not state.
Opens == [nodes |-> <<N(inc, 2), N(svc, Unset)>>, edges |-> <<Affects(2)>>]
Mention == [nodes |-> <<N(svc, 1), N(inc, Unset)>>, edges |-> <<Affects(1)>>]
Changed == [nodes |-> <<N(inc, 3)>>, edges |-> <<Affects(2)>>]

MCBatches == {Opens, Mention, Changed}
=============================================================================
