---------------------------- MODULE MCNotification ----------------------------
(* Instances of NotificationService for TLC. *)
EXTENDS NotificationService

CONSTANTS n1, n2, e1

MCNode == {n1, n2}
MCEdge == {e1}
MCRisk == {1, 2}

\* Below and above the bar (2); an evidence that cites nothing, or both nodes.
MCReasonings ==
    {[node |-> n, risk |-> k, cites |-> c] :
        n \in MCNode, k \in MCRisk, c \in {{}, {n1, n2, e1}}}

\* Above the bar only, for the runs in which the score plays no part.
MCReasoningsHigh == {r \in MCReasonings : r.risk = 2}

=============================================================================
