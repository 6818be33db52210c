------------------------------ MODULE MCRetrieval ------------------------------
(* Instance of Retrieval for TLC. *)
EXTENDS Retrieval, TLC

CONSTANTS n1, n2, o1, t1, t2

TwoNodes == {n1, n2}
OrgOfTwo == [n \in TwoNodes |-> o1]
OneOrg == {o1}
TwoClients == {t1, t2}
ClientSymmetry == Permutations(TwoClients)
FirstTexts == {<<n1, 1>>, <<n2, 1>>}
QueryText == <<"query", 0>>
=============================================================================
