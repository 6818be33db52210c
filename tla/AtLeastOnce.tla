------------------------------ MODULE AtLeastOnce ------------------------------
(***************************************************************************)
(* What a consumer of the bus may rely on, whatever bus carries the topic  *)
(* and whatever fails: messages of one partition are settled (handled, or  *)
(* given up to the dead-letter topic) in order, again and again if need    *)
(* be, and are acknowledged only once settled.                             *)
(***************************************************************************)
EXTENDS Naturals

CONSTANT Partition

VARIABLES arrived,   \* how many messages the partition holds
          settled,   \* the messages that have been settled
          acked      \* up to which message the partition is acknowledged

vars == <<arrived, settled, acked>>

Init ==
    /\ arrived = [p \in Partition |-> 0]
    /\ settled = [p \in Partition |-> {}]
    /\ acked = [p \in Partition |-> 0]

Arrive(p) ==
    /\ arrived' = [arrived EXCEPT ![p] = @ + 1]
    /\ UNCHANGED <<settled, acked>>

Settle(p, k) ==
    /\ 1..(k - 1) \subseteq settled[p]
    /\ settled' = [settled EXCEPT ![p] = @ \cup {k}]
    /\ UNCHANGED <<arrived, acked>>

Ack(p) ==
    /\ acked[p] + 1 \in settled[p]
    /\ acked' = [acked EXCEPT ![p] = @ + 1]
    /\ UNCHANGED <<arrived, settled>>

Next ==
    \E p \in Partition :
        \/ Arrive(p)
        \/ \E k \in 1..arrived[p] : Settle(p, k)
        \/ Ack(p)

Spec == Init /\ [][Next]_vars
=============================================================================
