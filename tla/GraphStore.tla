------------------------------- MODULE GraphStore ------------------------------
(***************************************************************************)
(* The graph repository (packages/graph_sdk/.../neo4j_repo.py, and         *)
(* memory.py with the same contract) as the services use it: upserts       *)
(* that merge properties, provenance and confidence, the urgency written   *)
(* back by ranking, and the k-hop neighborhood.                            *)
(*                                                                         *)
(* One organisation: an id is its natural key, because the store keeps one *)
(* node per key and every query filters on the organisation.  No service   *)
(* calls close_edge, so every edge stays current.  Of the properties of a  *)
(* node one is kept, say an incident's severity; of its event ids nothing  *)
(* but the set matters.                                                    *)
(***************************************************************************)
EXTENDS Naturals, FiniteSets

CONSTANTS Key,        \* natural keys
          EdgeType,
          Value,      \* values of the property
          Unset,      \* an event that mentions the node without the property
          Confidence,
          Hops        \* depth of the neighborhood ranking reads

ASSUME StoreAssumption ==
    /\ Value \subseteq Nat
    /\ Unset \notin Value
    /\ Confidence \subseteq Nat
    /\ Hops \in Nat

VARIABLES nodes,  \* partial function from keys to node records
          edges   \* partial function from <<type, from, to>> to edge records

storeVars == <<nodes, edges>>

EventId == Nat
NodeRecord == [value : Value \cup {Unset}, prov : SUBSET EventId, urgency : Nat]
EdgeId == EdgeType \X Key \X Key
EdgeRecord == [conf : Confidence, prov : SUBSET EventId]

StoreInit ==
    /\ nodes = [k \in {} |-> Unset]
    /\ edges = [e \in {} |-> Unset]

With(f, x, y) == [z \in DOMAIN f \cup {x} |-> IF z = x THEN y ELSE f[z]]

MergedOverwrites(old, new) == new \* mutant: what the event leaves out is erased

\* properties.update(): a property the event does not carry keeps its value.
MergedValue(old, new) == IF new = Unset THEN old ELSE new

UpsertNode(k, value, evt) ==
    /\ nodes' = With(nodes, k,
         IF k \in DOMAIN nodes
         THEN [nodes[k] EXCEPT !.value = MergedValue(@, value), !.prov = @ \cup {evt}]
         ELSE [value |-> value, prov |-> {evt}, urgency |-> 0])
    /\ UNCHANGED edges

UpsertEdgeOverwrites(e, conf, evt) == \* mutant: the last confidence wins
    /\ edges' = With(edges, e,
         IF e \in DOMAIN edges
         THEN [conf |-> conf, prov |-> edges[e].prov \cup {evt}]
         ELSE [conf |-> conf, prov |-> {evt}])
    /\ UNCHANGED nodes

\* The confidence of an edge is the best it was ever asserted with.
UpsertEdge(e, conf, evt) ==
    /\ edges' = With(edges, e,
         IF e \in DOMAIN edges
         THEN [conf |-> IF conf > edges[e].conf THEN conf ELSE edges[e].conf,
               prov |-> edges[e].prov \cup {evt}]
         ELSE [conf |-> conf, prov |-> {evt}])
    /\ UNCHANGED nodes

\* A missing node is ignored.
SetUrgency(k, score) ==
    /\ nodes' = IF k \in DOMAIN nodes THEN [nodes EXCEPT ![k].urgency = score] ELSE nodes
    /\ UNCHANGED edges

\* The other ends of the edges of a set of nodes, in either direction.
Adjacent(S) == {e[3] : e \in {d \in DOMAIN edges : d[2] \in S}}
               \cup {e[2] : e \in {d \in DOMAIN edges : d[3] \in S}}

\* Every node on a path of at most Hops edges, one depth at a time.
Neighborhood(k) ==
    LET seen[d \in 0..Hops] ==
          IF d = 0 THEN {k} ELSE seen[d - 1] \cup (Adjacent(seen[d - 1]) \cap DOMAIN nodes)
    IN seen[Hops]
=============================================================================
