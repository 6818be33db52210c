------------------------------ MODULE MCKafkaBus ------------------------------
(* Instances of KafkaBus for TLC. *)
EXTENDS KafkaBus

CONSTANTS p1, p2, c1, c2

OnePartition == {p1}
TwoPartitions == {p1, p2}
TwoConsumers == {c1, c2}

Decodable == {"event"}
AnyKind == {"event", "undecodable"}
=============================================================================
