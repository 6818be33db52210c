------------------------------ MODULE MCReasoning ------------------------------
(* Instance of ReasoningGraph for TLC: a service, the incident that affects it, its owner. *)
EXTENDS ReasoningGraph

CONSTANTS svc, inc, own, unknown

ThreeNodes == {svc, inc, own}
Labels == [n \in ThreeNodes |-> CASE n = svc -> "Service" [] n = inc -> "Incident" [] n = own -> "Person"]
Relations == {<<"AFFECTS", inc, svc>>, <<"OWNS", own, svc>>, <<"REVIEWS", own, inc>>}
OwnerOrUnknown == {own, unknown}
Listings == LET l == <<svc, inc, own, <<"REVIEWS", own, inc>>, <<"OWNS", own, svc>>, <<"AFFECTS", inc, svc>>>>
            IN  {l, Reverse(l)}
AnswersOfTheModel ==
    {[summary |-> <<>>, explanation |-> <<>>, actions |-> <<>>],
     [summary |-> <<<<"llm", svc>>>>, explanation |-> <<>>, actions |-> <<<<>>, <<"llm", own>>>>]}
=============================================================================
