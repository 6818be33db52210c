------------------------------ MODULE GraphProofs ------------------------------
(***************************************************************************)
(* The graph pipeline, for every number of workers, batches, nodes and     *)
(* edges, every depth of the neighborhood, every bound and every schedule  *)
(* of retries, crashes and evictions, proved with TLAPS.                   *)
(***************************************************************************)
EXTENDS GraphPipeline, TLAPS, WellFoundedInduction

-----------------------------------------------------------------------------
(* Numbers: a set of them has a least element and, bounded, a greatest.    *)

Below == OpToRel(<, Nat)

LEMMA BelowPairs == \A x, y \in Nat : y < x => <<y, x>> \in Below
BY DEF Below, OpToRel

LEMMA LeastNumber ==
    ASSUME NEW S, S \subseteq Nat, S # {}
    PROVE  \E x \in S : \A y \in S : x <= y
<1>1. IsWellFoundedOn(Below, Nat)
  BY NatLessThanWellFounded DEF Below
<1> HIDE DEF Below
<1>2. PICK x \in S : \A y \in S : ~ (<<y, x>> \in Below)
  BY <1>1, WFMin
<1>3. \A y \in S : y \in Nat /\ x \in Nat /\ ~(y < x)
  BY <1>2, BelowPairs
<1>4. \A y \in S : x <= y
  BY <1>3
<1>5. QED
  BY <1>4

LEMMA GreatestNumber ==
    ASSUME NEW S, S \subseteq Nat, S # {}, NEW B \in Nat, \A x \in S : x <= B
    PROVE  \E x \in S : \A y \in S : y <= x
<1> DEFINE T == {n \in Nat : \E x \in S : n + x = B}
<1>1. T \subseteq Nat
  OBVIOUS
<1>2. T # {}
  <2>1. PICK x \in S : TRUE
    OBVIOUS
  <2>2. x \in Nat /\ B - x \in Nat /\ (B - x) + x = B
    BY <2>1
  <2>3. B - x \in T
    BY <2>1, <2>2
  <2>4. QED
    BY <2>3
<1>3. PICK t \in T : \A u \in T : t <= u
  <2> HIDE DEF T
  <2> QED BY <1>1, <1>2, LeastNumber
<1>4. PICK x \in S : t + x = B
  BY <1>3
<1>5. ASSUME NEW y \in S PROVE y <= x
  <2>1. y \in Nat /\ x \in Nat /\ t \in Nat /\ B - y \in Nat /\ (B - y) + y = B
    BY <1>3, <1>4
  <2>2. B - y \in T
    BY <2>1
  <2>3. t <= B - y
    BY <1>3, <2>2
  <2>4. QED
    BY <1>4, <2>1, <2>3
<1>6. QED
  BY <1>4, <1>5

-----------------------------------------------------------------------------
(* The neighborhood: its recursive definition defines something, and all   *)
(* it reaches are nodes of the graph.                                      *)

Deeper(S) == S \cup (Adjacent(S) \cap DOMAIN nodes)

\* The layers around k down to depth n.
Layers(f, k, n) == f = [d \in 0..n |-> IF d = 0 THEN {k} ELSE Deeper(f[d - 1])]

LEMMA LayersExist == ASSUME NEW k PROVE \E f : Layers(f, k, Hops)
<1> DEFINE Without == {n \in Nat : ~ \E f : Layers(f, k, n)}
<1>1. SUFFICES ASSUME Without # {} PROVE FALSE
  BY StoreAssumption
<1>2. PICK n \in Without : \A m \in Without : n <= m
  <2>1. Without \subseteq Nat
    OBVIOUS
  <2> HIDE DEF Without
  <2>2. QED
    BY <1>1, <2>1, LeastNumber
<1>3. n # 0
  <2>1. Layers([d \in 0..0 |-> {k}], k, 0)
    BY DEF Layers
  <2>2. QED
    BY <1>2, <2>1
<1>4. n \in Nat /\ n - 1 \in Nat /\ ~(n <= n - 1)
  BY <1>2, <1>3
<1>5. PICK f : Layers(f, k, n - 1)
  BY <1>2, <1>4
<1> DEFINE g == [d \in 0..n |-> IF d = n THEN Deeper(f[n - 1]) ELSE f[d]]
<1>6. \A d \in 0..(n - 1) : f[d] = IF d = 0 THEN {k} ELSE Deeper(f[d - 1])
  BY <1>5 DEF Layers
<1>7. \A d \in 0..n : g[d] = IF d = 0 THEN {k} ELSE Deeper(g[d - 1])
  <2> SUFFICES ASSUME NEW d \in 0..n PROVE g[d] = IF d = 0 THEN {k} ELSE Deeper(g[d - 1])
    OBVIOUS
  <2>1. CASE d = n
    <3>1. g[d] = Deeper(f[n - 1]) /\ g[d - 1] = f[n - 1]
      BY <1>3, <1>4, <2>1
    <3>2. QED
      BY <1>3, <2>1, <3>1
  <2>2. CASE d # n /\ d # 0
    <3>1. d \in 0..(n - 1) /\ d - 1 \in 0..n /\ d - 1 # n
      BY <1>4, <2>2
    <3>2. g[d] = f[d] /\ g[d - 1] = f[d - 1]
      BY <2>2, <3>1
    <3>3. QED
      BY <1>6, <2>2, <3>1, <3>2
  <2>3. CASE d # n /\ d = 0
    BY <1>4, <1>6, <2>3
  <2>4. QED
    BY <2>1, <2>2, <2>3
<1>8. g = [d \in 0..n |-> IF d = 0 THEN {k} ELSE Deeper(g[d - 1])]
  <2>1. g = [d \in 0..n |-> g[d]]
    OBVIOUS
  <2> HIDE DEF g
  <2>2. QED
    BY <1>7, <2>1
<1>9. Layers(g, k, n)
  <2> HIDE DEF g
  <2> QED BY <1>8 DEF Layers
<1>10. QED
  BY <1>2, <1>9

LEMMA NeighborhoodIsPresent ==
    ASSUME NEW k \in DOMAIN nodes
    PROVE  Neighborhood(k) \subseteq DOMAIN nodes
<1> DEFINE seen == CHOOSE f : Layers(f, k, Hops)
<1>1. Neighborhood(k) = seen[Hops]
  BY DEF Neighborhood, Layers, Deeper
<1>2. Layers(seen, k, Hops)
  BY LayersExist
<1> HIDE DEF seen
<1>3. \A d \in 0..Hops : seen[d] = IF d = 0 THEN {k} ELSE Deeper(seen[d - 1])
  BY <1>2 DEF Layers
<1> DEFINE Astray == {d \in 0..Hops : ~(seen[d] \subseteq DOMAIN nodes)}
<1>4. CASE Astray = {}
  BY <1>1, <1>4, StoreAssumption
<1>5. CASE Astray # {}
  <2>1. PICK d \in Astray : \A e \in Astray : d <= e
    <3>1. Astray \subseteq Nat
      BY StoreAssumption
    <3> HIDE DEF Astray
    <3>2. QED
      BY <1>5, <3>1, LeastNumber
  <2>2. d # 0
    BY <1>3, <2>1, StoreAssumption
  <2>3. d - 1 \in 0..Hops /\ ~(d <= d - 1)
    BY <2>1, <2>2, StoreAssumption
  <2>4. seen[d - 1] \subseteq DOMAIN nodes
    BY <2>1, <2>3
  <2>5. seen[d] \subseteq DOMAIN nodes
    BY <1>3, <2>1, <2>2, <2>4 DEF Deeper
  <2>6. QED
    BY <2>1, <2>5
<1>6. QED
  BY <1>4, <1>5
-----------------------------------------------------------------------------
(* The store: what its operations do to a typed graph.                     *)

\* Every known value is below some number.
Bounded == \E B \in Nat : \A k \in DOMAIN nodes : nodes[k].value # Unset => nodes[k].value <= B

StoreTyped ==
    /\ DOMAIN nodes \subseteq Key /\ nodes \in [DOMAIN nodes -> NodeRecord]
    /\ DOMAIN edges \subseteq EdgeId /\ edges \in [DOMAIN edges -> EdgeRecord]
    /\ Bounded

LEMMA UpsertNodeEffect ==
    ASSUME StoreTyped, NEW k \in Key, NEW value \in Value \cup {Unset}, NEW evt \in Nat,
           UpsertNode(k, value, evt)
    PROVE  /\ StoreTyped'
           /\ DOMAIN nodes' = DOMAIN nodes \cup {k}
           /\ \A z \in DOMAIN nodes : z # k => nodes'[z] = nodes[z]
           /\ k \in DOMAIN nodes =>
                /\ nodes'[k].value = MergedValue(nodes[k].value, value)
                /\ nodes'[k].urgency = nodes[k].urgency
           /\ k \notin DOMAIN nodes => nodes'[k].value = value /\ nodes'[k].urgency = 0
           /\ edges' = edges
<1>1. /\ DOMAIN nodes' = DOMAIN nodes \cup {k}
      /\ nodes' = [z \in DOMAIN nodes' |-> nodes'[z]]
      /\ \A z \in DOMAIN nodes : z # k => nodes'[z] = nodes[z]
      /\ k \in DOMAIN nodes =>
           nodes'[k] = [nodes[k] EXCEPT !.value = MergedValue(@, value), !.prov = @ \cup {evt}]
      /\ k \notin DOMAIN nodes => nodes'[k] = [value |-> value, prov |-> {evt}, urgency |-> 0]
      /\ edges' = edges
  BY DEF UpsertNode, With
<1>2. \A z \in DOMAIN nodes : nodes[z] \in NodeRecord
  BY DEF StoreTyped
<1>3. k \in DOMAIN nodes =>
        /\ nodes'[k].value = MergedValue(nodes[k].value, value)
        /\ nodes'[k].urgency = nodes[k].urgency
        /\ nodes'[k] \in NodeRecord
  <2> SUFFICES ASSUME k \in DOMAIN nodes
               PROVE  /\ nodes'[k].value = MergedValue(nodes[k].value, value)
                      /\ nodes'[k].urgency = nodes[k].urgency
                      /\ nodes'[k] \in NodeRecord
    OBVIOUS
  <2>1. nodes[k] \in [value : Value \cup {Unset}, prov : SUBSET Nat, urgency : Nat]
    BY <1>2 DEF NodeRecord, EventId
  <2>2. MergedValue(nodes[k].value, value) \in Value \cup {Unset}
    BY <2>1 DEF MergedValue
  <2>3. nodes[k].prov \cup {evt} \in SUBSET Nat
    BY <2>1
  <2>4. nodes'[k] = [nodes[k] EXCEPT !.value = MergedValue(nodes[k].value, value),
                                    !.prov = nodes[k].prov \cup {evt}]
    BY <1>1
  <2> HIDE DEF MergedValue
  <2>5. nodes'[k] \in [value : Value \cup {Unset}, prov : SUBSET Nat, urgency : Nat]
    BY <2>1, <2>2, <2>3, <2>4
  <2>6. QED
    BY <2>1, <2>4, <2>5 DEF NodeRecord, EventId
<1>4. k \notin DOMAIN nodes =>
        /\ nodes'[k].value = value /\ nodes'[k].urgency = 0
        /\ nodes'[k] \in NodeRecord
  BY <1>1 DEF NodeRecord, EventId
<1>5. nodes' \in [DOMAIN nodes' -> NodeRecord]
  BY <1>1, <1>2, <1>3, <1>4
<1>6. Bounded'
  <2>1. PICK B \in Nat : \A z \in DOMAIN nodes : nodes[z].value # Unset => nodes[z].value <= B
    BY DEF StoreTyped, Bounded
  <2>2. CASE value = Unset
    BY <1>1, <1>3, <1>4, <2>1, <2>2 DEF Bounded, MergedValue
  <2>3. CASE value # Unset
    <3>1. value \in Nat /\ B + value \in Nat
      BY <2>3, StoreAssumption
    <3>2. \A z \in DOMAIN nodes : nodes[z].value # Unset => nodes[z].value <= B + value
      <4> SUFFICES ASSUME NEW z \in DOMAIN nodes, nodes[z].value # Unset
                   PROVE  nodes[z].value <= B + value
        OBVIOUS
      <4>1. nodes[z].value \in Nat /\ nodes[z].value <= B
        BY <1>2, <2>1, StoreAssumption DEF NodeRecord
      <4>2. QED
        BY <2>1, <3>1, <4>1
    <3>3. nodes'[k].value = value
      BY <1>3, <1>4, <2>3 DEF MergedValue
    <3>4. value <= B + value
      BY <3>1
    <3>5. \A z \in DOMAIN nodes' : nodes'[z].value # Unset => nodes'[z].value <= B + value
      BY <1>1, <3>2, <3>3, <3>4
    <3>6. QED
      BY <3>1, <3>5 DEF Bounded
  <2>4. QED
    BY <2>2, <2>3
<1>7. QED
  BY <1>1, <1>3, <1>4, <1>5, <1>6 DEF StoreTyped

LEMMA UpsertEdgeEffect ==
    ASSUME StoreTyped, NEW e \in EdgeId, NEW conf \in Confidence, NEW evt \in Nat,
           UpsertEdge(e, conf, evt)
    PROVE  /\ StoreTyped'
           /\ DOMAIN edges' = DOMAIN edges \cup {e}
           /\ \A z \in DOMAIN edges : z # e => edges'[z] = edges[z]
           /\ e \in DOMAIN edges =>
                /\ edges'[e].prov = edges[e].prov \cup {evt}
                /\ edges'[e].conf = IF conf > edges[e].conf THEN conf ELSE edges[e].conf
           /\ e \notin DOMAIN edges => edges'[e].prov = {evt} /\ edges'[e].conf = conf
           /\ nodes' = nodes
<1>1. /\ DOMAIN edges' = DOMAIN edges \cup {e}
      /\ edges' = [z \in DOMAIN edges' |-> edges'[z]]
      /\ \A z \in DOMAIN edges : z # e => edges'[z] = edges[z]
      /\ e \in DOMAIN edges =>
           edges'[e] = [conf |-> IF conf > edges[e].conf THEN conf ELSE edges[e].conf,
                        prov |-> edges[e].prov \cup {evt}]
      /\ e \notin DOMAIN edges => edges'[e] = [conf |-> conf, prov |-> {evt}]
      /\ nodes' = nodes
  BY DEF UpsertEdge, With
<1>2. \A z \in DOMAIN edges : edges[z] \in EdgeRecord
  BY DEF StoreTyped
<1>3. edges'[e] \in EdgeRecord
  BY <1>1, <1>2 DEF EdgeRecord, EventId
<1>4. edges' \in [DOMAIN edges' -> EdgeRecord]
  BY <1>1, <1>2, <1>3
<1>5. Bounded'
  BY <1>1 DEF StoreTyped, Bounded
<1>6. QED
  BY <1>1, <1>4, <1>5 DEF StoreTyped

LEMMA SetUrgencyEffect ==
    ASSUME StoreTyped, NEW k, NEW score \in Nat, SetUrgency(k, score)
    PROVE  /\ StoreTyped'
           /\ DOMAIN nodes' = DOMAIN nodes
           /\ \A z \in DOMAIN nodes : z # k => nodes'[z] = nodes[z]
           /\ \A z \in DOMAIN nodes : nodes'[z].value = nodes[z].value
           /\ k \in DOMAIN nodes => nodes'[k].urgency = score
           /\ edges' = edges
<1>1. \A z \in DOMAIN nodes : nodes[z] \in NodeRecord
  BY DEF StoreTyped
<1>2. CASE k \in DOMAIN nodes
  <2>1. /\ DOMAIN nodes' = DOMAIN nodes
        /\ nodes' = [z \in DOMAIN nodes |-> nodes'[z]]
        /\ \A z \in DOMAIN nodes : z # k => nodes'[z] = nodes[z]
        /\ nodes'[k] = [nodes[k] EXCEPT !.urgency = score]
        /\ edges' = edges
    BY <1>2 DEF SetUrgency
  <2>2. /\ nodes'[k] \in NodeRecord
        /\ nodes'[k].urgency = score
        /\ nodes'[k].value = nodes[k].value
    BY <1>1, <1>2, <2>1 DEF NodeRecord
  <2>3. \A z \in DOMAIN nodes : nodes'[z].value = nodes[z].value
    BY <2>1, <2>2
  <2>4. nodes' \in [DOMAIN nodes' -> NodeRecord]
    BY <1>1, <2>1, <2>2
  <2>5. Bounded'
    BY <2>1, <2>3 DEF Bounded, StoreTyped
  <2>6. QED
    BY <2>1, <2>2, <2>3, <2>4, <2>5 DEF StoreTyped
<1>3. CASE k \notin DOMAIN nodes
  BY <1>3 DEF SetUrgency, StoreTyped, Bounded
<1>4. QED
  BY <1>2, <1>3

\* A score is a number: some value of the neighborhood, which holds only nodes.
LEMMA ScoreIsNumber ==
    ASSUME StoreTyped, NEW k \in DOMAIN nodes
    PROVE  Score(k) \in Nat
<1> DEFINE values == {0} \cup {nodes[j].value : j \in {i \in Neighborhood(k) : nodes[i].value # Unset}}
<1>1. Neighborhood(k) \subseteq DOMAIN nodes
  BY NeighborhoodIsPresent
<1>2. \A j \in DOMAIN nodes : nodes[j].value # Unset => nodes[j].value \in Nat
  BY StoreAssumption DEF StoreTyped, NodeRecord
<1>3. values \subseteq Nat /\ values # {}
  BY <1>1, <1>2
<1>4. PICK B \in Nat : \A j \in DOMAIN nodes : nodes[j].value # Unset => nodes[j].value <= B
  BY DEF StoreTyped, Bounded
<1>5. \A v \in values : v <= B
  BY <1>1, <1>4
<1>6. Score(k) = CHOOSE v \in values : \A u \in values : u <= v
  BY DEF Score, Worst
<1> HIDE DEF values
<1>7. \E v \in values : \A u \in values : u <= v
  BY <1>3, <1>5, GreatestNumber
<1>8. Score(k) \in values
  BY <1>6, <1>7
<1>9. QED
  BY <1>3, <1>8

-----------------------------------------------------------------------------
(* The graph workers: types, and the batch the owner works on.             *)

Working(w) == work[w].pc \in {"nodes", "edges", "commit"}

WorkPc == {"idle", "nodes", "edges", "commit", "stopped"}
WorkFields == {"pc", "batch", "next", "attempt"}
WorkRecord(n) == [pc : WorkPc, batch : 0..n, next : Nat \ {0}, attempt : 1..MaxRetries]

WorkTyped ==
    /\ batches \in Seq(Batches)
    /\ acked \in 0..Len(batches)
    /\ owner \in Worker
    /\ work \in [Worker -> WorkRecord(Len(batches))]
    /\ dead \subseteq Nat
    /\ budget \in [{"fault", "evict"} -> Nat]

\* The owner works on the batch after the committed offset, and its thread lives; a
\* worker that was evicted works on a batch that arrived.
OwnerInStep ==
    /\ \A w \in Worker : Working(w) => work[w].batch \in DOMAIN batches
    /\ Working(owner) => work[owner].batch = acked + 1
    /\ work[owner].pc # "stopped"

LEMMA BatchTyped ==
    ASSUME NEW b \in Batches
    PROVE  /\ b.nodes \in Seq([key : Key, value : Value \cup {Unset}])
           /\ b.edges \in Seq([id : EdgeId, conf : Confidence])
           /\ \A i \in DOMAIN b.nodes : /\ b.nodes[i].key \in Key
                                        /\ b.nodes[i].value \in Value \cup {Unset}
           /\ \A i \in DOMAIN b.edges : /\ b.edges[i].id \in EdgeId
                                        /\ b.edges[i].conf \in Confidence
<1> DEFINE N == [key : Key, value : Value \cup {Unset}]
           E == [id : EdgeId, conf : Confidence]
           ns == b.nodes
           es == b.edges
<1>1. b \in Batch
  BY PipelineAssumption
<1>2. ns \in Seq(N) /\ es \in Seq(E)
  BY <1>1 DEF Batch
<1>3. \A n \in N : n.key \in Key /\ n.value \in Value \cup {Unset}
  OBVIOUS
<1>4. \A e \in E : e.id \in EdgeId /\ e.conf \in Confidence
  OBVIOUS
<1> HIDE DEF N, E, ns, es
<1>5. \A i \in DOMAIN ns : ns[i] \in N
  BY <1>2
<1>6. \A i \in DOMAIN es : es[i] \in E
  BY <1>2
<1>7. /\ \A i \in DOMAIN ns : ns[i].key \in Key /\ ns[i].value \in Value \cup {Unset}
      /\ \A i \in DOMAIN es : es[i].id \in EdgeId /\ es[i].conf \in Confidence
  BY <1>3, <1>4, <1>5, <1>6
<1>8. QED
  BY <1>2, <1>7 DEF N, E, ns, es

LEMMA CurrentTyped ==
    ASSUME WorkTyped, OwnerInStep, NEW w \in Worker, Working(w)
    PROVE  /\ Current(w) \in Batches
           /\ work[w].batch \in DOMAIN batches /\ work[w].batch \in Nat
BY DEF WorkTyped, OwnerInStep, Current

LEMMA SpendTyped ==
    ASSUME budget \in [{"fault", "evict"} -> Nat], NEW what \in {"fault", "evict"}, Spend(what)
    PROVE  /\ budget' \in [{"fault", "evict"} -> Nat]
           /\ budget'[what] < budget[what]
           /\ \A other \in {"fault", "evict"} :
                 budget'[other] <= budget[other] /\ (other # what => budget'[other] = budget[other])
BY DEF Spend

Framed(s) == s = [f \in WorkFields |-> s[f]]

LEMMA WorkRecordSet ==
    ASSUME NEW n, NEW s
    PROVE  s \in WorkRecord(n) <=> /\ Framed(s)
                                   /\ s.pc \in WorkPc /\ s.batch \in 0..n
                                   /\ s.next \in Nat \ {0} /\ s.attempt \in 1..MaxRetries
BY DEF WorkRecord, Framed, WorkFields

\* One worker moves: where it is then, at which turn of its loop and which attempt.
MovedTo(w, pc, next, attempt) ==
    /\ work'[w].pc = pc /\ work'[w].next = next /\ work'[w].attempt = attempt
    /\ work'[w].batch = work[w].batch
    /\ \A v \in Worker : v # w => work'[v] = work[v]

LEMMA MovedTyped ==
    ASSUME NEW n, work \in [Worker -> WorkRecord(n)], NEW w \in Worker,
           NEW pc \in WorkPc, NEW next \in Nat \ {0}, NEW attempt \in 1..MaxRetries,
           MovedTo(w, pc, next, attempt), Framed(work'[w]),
           work' = [v \in Worker |-> work'[v]]
    PROVE  work' \in [Worker -> WorkRecord(n)]
<1>1. work'[w] \in WorkRecord(n)
  BY WorkRecordSet DEF MovedTo
<1>2. QED
  BY <1>1 DEF MovedTo

\* The four forms in which the actions write it.
LEMMA Moves ==
    ASSUME NEW n, work \in [Worker -> WorkRecord(n)], NEW w \in Worker,
           NEW pc \in WorkPc, NEW next \in Nat \ {0}, NEW attempt \in 1..MaxRetries,
           \/ /\ work' = [work EXCEPT ![w].pc = pc]
              /\ next = work[w].next /\ attempt = work[w].attempt
           \/ /\ work' = [work EXCEPT ![w].next = next]
              /\ pc = work[w].pc /\ attempt = work[w].attempt
           \/ /\ work' = [work EXCEPT ![w].pc = pc, ![w].next = next]
              /\ attempt = work[w].attempt
           \/ work' = [work EXCEPT ![w].pc = pc, ![w].next = next, ![w].attempt = attempt]
    PROVE  /\ MovedTo(w, pc, next, attempt)
           /\ work' \in [Worker -> WorkRecord(n)]
<1>1. Framed(work[w])
  BY WorkRecordSet
<1>2. CASE /\ work' = [work EXCEPT ![w].pc = pc]
           /\ next = work[w].next /\ attempt = work[w].attempt
  <2>1. MovedTo(w, pc, next, attempt)
    BY <1>1, <1>2 DEF MovedTo, Framed, WorkFields
  <2>2. Framed(work'[w])
    BY <1>1, <1>2 DEF Framed, WorkFields
  <2>3. work' = [v \in Worker |-> work'[v]]
    BY <1>2
  <2>4. QED
    BY <2>1, <2>2, <2>3, MovedTyped
<1>3. CASE /\ work' = [work EXCEPT ![w].next = next]
           /\ pc = work[w].pc /\ attempt = work[w].attempt
  <2>1. MovedTo(w, pc, next, attempt)
    BY <1>1, <1>3 DEF MovedTo, Framed, WorkFields
  <2>2. Framed(work'[w])
    BY <1>1, <1>3 DEF Framed, WorkFields
  <2>3. work' = [v \in Worker |-> work'[v]]
    BY <1>3
  <2>4. QED
    BY <2>1, <2>2, <2>3, MovedTyped
<1>4. CASE /\ work' = [work EXCEPT ![w].pc = pc, ![w].next = next]
           /\ attempt = work[w].attempt
  <2>1. MovedTo(w, pc, next, attempt)
    BY <1>1, <1>4 DEF MovedTo, Framed, WorkFields
  <2>2. Framed(work'[w])
    BY <1>1, <1>4 DEF Framed, WorkFields
  <2>3. work' = [v \in Worker |-> work'[v]]
    BY <1>4
  <2>4. QED
    BY <2>1, <2>2, <2>3, MovedTyped
<1>5. CASE work' = [work EXCEPT ![w].pc = pc, ![w].next = next, ![w].attempt = attempt]
  <2>1. MovedTo(w, pc, next, attempt)
    BY <1>1, <1>5 DEF MovedTo, Framed, WorkFields
  <2>2. Framed(work'[w])
    BY <1>1, <1>5 DEF Framed, WorkFields
  <2>3. work' = [v \in Worker |-> work'[v]]
    BY <1>5
  <2>4. QED
    BY <2>1, <2>2, <2>3, MovedTyped
<1>6. QED
  BY <1>2, <1>3, <1>4, <1>5

\* Where the steps of a handler take its worker.
LEMMA WorkMoved ==
    ASSUME WorkTyped, NEW w \in Worker
    PROVE  /\ WriteNode(w) \/ WriteEdge(w) =>
                MovedTo(w, work[w].pc, work[w].next + 1, work[w].attempt)
           /\ NodesWritten(w) => MovedTo(w, "edges", 1, work[w].attempt)
           /\ Announce(w) => MovedTo(w, "commit", work[w].next, work[w].attempt)
           /\ HandlerRaises(w) /\ RetryLeft(work[w].attempt) =>
                MovedTo(w, "nodes", 1, work[w].attempt + 1)
           /\ HandlerRaises(w) /\ ~RetryLeft(work[w].attempt) =>
                MovedTo(w, "commit", work[w].next, work[w].attempt)
           /\ \/ WriteNode(w) \/ WriteEdge(w) \/ NodesWritten(w)
              \/ Announce(w) \/ HandlerRaises(w)
              => work' \in [Worker -> WorkRecord(Len(batches))]
<1>1. /\ work \in [Worker -> WorkRecord(Len(batches))]
      /\ work[w].pc \in WorkPc /\ work[w].next \in Nat \ {0}
      /\ work[w].attempt \in 1..MaxRetries
      /\ {"nodes", "edges", "commit"} \subseteq WorkPc /\ 1 \in Nat \ {0}
  BY WorkRecordSet DEF WorkTyped, WorkPc
<1>2. ASSUME WriteNode(w) \/ WriteEdge(w)
      PROVE  /\ MovedTo(w, work[w].pc, work[w].next + 1, work[w].attempt)
             /\ work' \in [Worker -> WorkRecord(Len(batches))]
  <2>1. work' = [work EXCEPT ![w].next = work[w].next + 1] /\ work[w].next + 1 \in Nat \ {0}
    BY <1>1, <1>2 DEF WriteNode, WriteEdge
  <2>2. QED
    BY <1>1, <2>1, Moves
<1>3. ASSUME NodesWritten(w)
      PROVE  /\ MovedTo(w, "edges", 1, work[w].attempt)
             /\ work' \in [Worker -> WorkRecord(Len(batches))]
  <2>1. work' = [work EXCEPT ![w].pc = "edges", ![w].next = 1]
    BY <1>3 DEF NodesWritten
  <2>2. QED
    BY <1>1, <2>1, Moves
<1>4. ASSUME Announce(w)
      PROVE  /\ MovedTo(w, "commit", work[w].next, work[w].attempt)
             /\ work' \in [Worker -> WorkRecord(Len(batches))]
  <2>1. work' = [work EXCEPT ![w].pc = "commit"]
    BY <1>4 DEF Announce
  <2>2. QED
    BY <1>1, <2>1, Moves
<1>5. ASSUME HandlerRaises(w), RetryLeft(work[w].attempt)
      PROVE  /\ MovedTo(w, "nodes", 1, work[w].attempt + 1)
             /\ work' \in [Worker -> WorkRecord(Len(batches))]
  <2>1. work' = [work EXCEPT ![w].pc = "nodes", ![w].next = 1,
                             ![w].attempt = work[w].attempt + 1]
    BY <1>5 DEF HandlerRaises
  <2>2. work[w].attempt + 1 \in 1..MaxRetries
    BY <1>1, <1>5, PipelineAssumption DEF RetryLeft
  <2>3. QED
    BY <1>1, <2>1, <2>2, Moves
<1>6. ASSUME HandlerRaises(w), ~RetryLeft(work[w].attempt)
      PROVE  /\ MovedTo(w, "commit", work[w].next, work[w].attempt)
             /\ work' \in [Worker -> WorkRecord(Len(batches))]
  <2>1. work' = [work EXCEPT ![w].pc = "commit"]
    BY <1>6 DEF HandlerRaises
  <2>2. QED
    BY <1>1, <2>1, Moves
<1>7. QED
  BY <1>2, <1>3, <1>4, <1>5, <1>6

LEMMA ResetTyped ==
    ASSUME WorkTyped
    PROVE  /\ Idle \in WorkRecord(Len(batches)) /\ Idle.pc = "idle"
           /\ [Idle EXCEPT !.pc = "stopped"] \in WorkRecord(Len(batches))
           /\ [Idle EXCEPT !.pc = "stopped"].pc = "stopped"
           /\ \A b \in 0..Len(batches) :
                 LET r == [Idle EXCEPT !.pc = "nodes", !.batch = b] IN
                 /\ r \in WorkRecord(Len(batches))
                 /\ r.pc = "nodes" /\ r.batch = b /\ r.next = 1 /\ r.attempt = 1
<1>1. /\ Len(batches) \in Nat /\ 1 \in 1..MaxRetries
      /\ WorkPc = {"idle", "nodes", "edges", "commit", "stopped"}
  BY PipelineAssumption DEF WorkTyped, WorkPc
<1>2. /\ Idle \in WorkRecord(Len(batches))
      /\ Idle.pc = "idle" /\ Idle.next = 1 /\ Idle.attempt = 1
  BY <1>1 DEF Idle, WorkRecord
<1>3. /\ [Idle EXCEPT !.pc = "stopped"] \in WorkRecord(Len(batches))
      /\ [Idle EXCEPT !.pc = "stopped"].pc = "stopped"
  BY <1>1 DEF Idle, WorkRecord
<1>4. ASSUME NEW b \in 0..Len(batches)
      PROVE  LET r == [Idle EXCEPT !.pc = "nodes", !.batch = b] IN
             /\ r \in WorkRecord(Len(batches))
             /\ r.pc = "nodes" /\ r.batch = b /\ r.next = 1 /\ r.attempt = 1
  <2> DEFINE r == [Idle EXCEPT !.pc = "nodes", !.batch = b]
  <2>1. r.pc = "nodes" /\ r.batch = b /\ r.next = 1 /\ r.attempt = 1
    BY DEF Idle
  <2>2. Framed(r)
    BY DEF Idle, Framed, WorkFields
  <2> HIDE DEF r
  <2>3. r \in WorkRecord(Len(batches))
    BY <1>1, <2>1, <2>2, WorkRecordSet
  <2>4. QED
    BY <2>1, <2>3 DEF r
<1>5. QED
  BY <1>2, <1>3, <1>4

\* One worker moves; the batches that arrived, the offset and the owner stay.
LEMMA OneWorkerMoves ==
    ASSUME WorkTyped, OwnerInStep, NEW w \in Worker,
           work' \in [Worker -> WorkRecord(Len(batches))],
           \A v \in Worker : v # w => work'[v] = work[v],
           UNCHANGED <<batches, acked, owner>>,
           dead' \subseteq Nat, budget' \in [{"fault", "evict"} -> Nat],
           Working(w)' => work'[w].batch \in DOMAIN batches,
           w = owner /\ Working(w)' => work'[w].batch = acked + 1,
           w = owner => work'[w].pc # "stopped"
    PROVE  WorkTyped' /\ OwnerInStep'
BY DEF WorkTyped, OwnerInStep, Working

LEMMA WorkStep ==
    ASSUME WorkTyped, OwnerInStep, [Next]_vars
    PROVE  WorkTyped' /\ OwnerInStep'
<1>0. /\ work \in [Worker -> WorkRecord(Len(batches))]
      /\ Len(batches) \in Nat /\ acked \in Nat
      /\ budget \in [{"fault", "evict"} -> Nat] /\ dead \subseteq Nat
  BY DEF WorkTyped
<1>1. ASSUME NEW b \in Batches, Extract(b) PROVE WorkTyped' /\ OwnerInStep'
  <2>1. /\ batches' = Append(batches, b)
        /\ UNCHANGED <<acked, owner, work, dead, budget>>
    BY <1>1 DEF Extract
  <2>2. /\ batches' \in Seq(Batches) /\ Len(batches') = Len(batches) + 1
        /\ DOMAIN batches \subseteq DOMAIN batches'
    BY <2>1 DEF WorkTyped
  <2>3. work' \in [Worker -> WorkRecord(Len(batches'))]
    <3>1. 0..Len(batches) \subseteq 0..Len(batches')
      BY <1>0, <2>2
    <3>2. WorkRecord(Len(batches)) \subseteq WorkRecord(Len(batches'))
      BY <3>1 DEF WorkRecord
    <3>3. QED
      BY <1>0, <2>1, <3>2
  <2>4. WorkTyped'
    BY <1>0, <2>1, <2>2, <2>3 DEF WorkTyped
  <2>5. OwnerInStep'
    BY <2>1, <2>2 DEF OwnerInStep, Working
  <2>6. QED
    BY <2>4, <2>5
<1>2. ASSUME NEW w \in Worker, Begin(w) PROVE WorkTyped' /\ OwnerInStep'
  <2>1. /\ work' = [work EXCEPT ![w] = [Idle EXCEPT !.pc = "nodes", !.batch = acked + 1]]
        /\ UNCHANGED <<batches, acked, owner, dead, budget>>
        /\ acked < Len(batches)
    BY <1>2 DEF Begin, topicVars
  <2>2. acked + 1 \in DOMAIN batches /\ acked + 1 \in 0..Len(batches)
    BY <1>0, <2>1 DEF WorkTyped
  <2>3. /\ work' \in [Worker -> WorkRecord(Len(batches))]
        /\ \A v \in Worker : v # w => work'[v] = work[v]
        /\ work'[w].batch = acked + 1 /\ work'[w].pc = "nodes"
    BY <1>0, <2>1, <2>2, ResetTyped
  <2>4. QED
    BY <1>0, <2>1, <2>2, <2>3, OneWorkerMoves
<1>3. ASSUME NEW w \in Worker,
             WriteNode(w) \/ WriteEdge(w) \/ NodesWritten(w) \/ Announce(w)
      PROVE  WorkTyped' /\ OwnerInStep'
  <2>1. /\ UNCHANGED <<batches, acked, owner, dead, budget>>
        /\ Working(w)
    BY <1>3 DEF WriteNode, WriteEdge, NodesWritten, Announce, topicVars, Working
  <2>2. /\ work' \in [Worker -> WorkRecord(Len(batches))]
        /\ \A v \in Worker : v # w => work'[v] = work[v]
        /\ work'[w].batch = work[w].batch
        /\ work'[w].pc \in {work[w].pc, "edges", "commit"}
    BY <1>3, WorkMoved DEF MovedTo
  <2>3. QED
    BY <1>0, <2>1, <2>2, OneWorkerMoves DEF OwnerInStep, Working
<1>4. ASSUME NEW w \in Worker, HandlerRaises(w) PROVE WorkTyped' /\ OwnerInStep'
  <2>1. Working(w) /\ Spend("fault") /\ UNCHANGED <<batches, acked, owner>>
    BY <1>4 DEF HandlerRaises, topicVars, Working
  <2>2. budget' \in [{"fault", "evict"} -> Nat]
    BY <1>0, <2>1, SpendTyped
  <2>3. dead' \subseteq Nat
    BY <1>0, <1>4, <2>1, CurrentTyped DEF HandlerRaises
  <2>4. /\ work' \in [Worker -> WorkRecord(Len(batches))]
        /\ \A v \in Worker : v # w => work'[v] = work[v]
        /\ work'[w].batch = work[w].batch
        /\ work'[w].pc \in {"nodes", "commit"}
    BY <1>4, WorkMoved DEF MovedTo
  <2>5. QED
    BY <2>1, <2>2, <2>3, <2>4, OneWorkerMoves DEF OwnerInStep, Working
<1>5. ASSUME NEW w \in Worker, CommitBatch(w) PROVE WorkTyped' /\ OwnerInStep'
  <2>1. Working(w) /\ UNCHANGED <<batches, owner, dead, budget>>
    BY <1>5 DEF CommitBatch, Working
  <2>2. CASE owner = w
    <3>1. acked' = work[w].batch /\ work' = [work EXCEPT ![w] = Idle]
      BY <1>5, <2>2 DEF CommitBatch
    <3>2. acked' \in 0..Len(batches)
      BY <1>0, <2>1, <3>1, CurrentTyped DEF WorkTyped
    <3>3. WorkTyped'
      BY <1>0, <2>1, <3>1, <3>2, ResetTyped DEF WorkTyped
    <3>4. work'[w].pc = "idle" /\ \A v \in Worker : v # w => work'[v] = work[v]
      BY <1>0, <3>1, ResetTyped
    <3>5. OwnerInStep'
      BY <2>1, <2>2, <3>4 DEF OwnerInStep, Working
    <3>6. QED
      BY <3>3, <3>5
  <2>3. CASE owner # w
    <3>1. UNCHANGED acked /\ work' = [work EXCEPT ![w] = [Idle EXCEPT !.pc = "stopped"]]
      BY <1>5, <2>3 DEF CommitBatch
    <3>2. /\ work' \in [Worker -> WorkRecord(Len(batches))]
          /\ \A v \in Worker : v # w => work'[v] = work[v]
          /\ work'[w].pc = "stopped"
      BY <1>0, <3>1, ResetTyped
    <3>3. QED
      BY <1>0, <2>1, <2>3, <3>1, <3>2, OneWorkerMoves DEF Working
  <2>4. QED
    BY <2>2, <2>3
<1>6. ASSUME NEW w \in Worker, Evict(w) PROVE WorkTyped' /\ OwnerInStep'
  <2>1. /\ work[w].pc = "idle" /\ Spend("evict") /\ owner' = w
        /\ UNCHANGED <<batches, acked, work, dead>>
    BY <1>6 DEF Evict
  <2>2. budget' \in [{"fault", "evict"} -> Nat]
    BY <1>0, <2>1, SpendTyped
  <2>3. WorkTyped'
    BY <2>1, <2>2 DEF WorkTyped
  <2>4. OwnerInStep'
    BY <2>1 DEF OwnerInStep, Working
  <2>5. QED
    BY <2>3, <2>4
<1>7. ASSUME NEW w \in Worker, Crash(w) PROVE WorkTyped' /\ OwnerInStep'
  <2>1. /\ Spend("fault") /\ work' = [work EXCEPT ![w] = Idle]
        /\ UNCHANGED <<batches, acked, owner, dead>>
    BY <1>7 DEF Crash, topicVars
  <2>2. budget' \in [{"fault", "evict"} -> Nat]
    BY <1>0, <2>1, SpendTyped
  <2>3. /\ work' \in [Worker -> WorkRecord(Len(batches))]
        /\ \A v \in Worker : v # w => work'[v] = work[v]
        /\ work'[w].pc = "idle"
    BY <1>0, <2>1, ResetTyped
  <2>4. QED
    BY <1>0, <2>1, <2>2, <2>3, OneWorkerMoves DEF Working
<1>8. CASE RankStep \/ UNCHANGED vars
  <2>1. UNCHANGED <<batches, acked, owner, work, dead, budget>>
    BY <1>8 DEF RankStep, RankBegin, RankRead, RankWrite, RankPublish, RankCommit,
       topicVars, vars
  <2>2. QED
    BY <2>1 DEF WorkTyped, OwnerInStep, Working
<1>9. CASE RankRaises \/ RankCrash
  <2>1. UNCHANGED <<batches, acked, owner, work, dead>> /\ Spend("fault")
    BY <1>9 DEF RankRaises, RankCrash, topicVars
  <2>2. budget' \in [{"fault", "evict"} -> Nat]
    BY <1>0, <2>1, SpendTyped
  <2>3. QED
    BY <2>1, <2>2 DEF WorkTyped, OwnerInStep, Working
<1>10. QED
  BY <1>1, <1>2, <1>3, <1>4, <1>5, <1>6, <1>7, <1>8, <1>9 DEF Next, GraphStep

-----------------------------------------------------------------------------
(* The writes of the graph workers, and the types of the store.            *)

LEMMA WriteNodeEffect ==
    ASSUME WorkTyped, OwnerInStep, StoreTyped, NEW w \in Worker, WriteNode(w)
    PROVE  LET n == Current(w).nodes[work[w].next] IN
           /\ work[w].next \in DOMAIN Current(w).nodes
           /\ n.key \in Key
           /\ StoreTyped'
           /\ DOMAIN nodes' = DOMAIN nodes \cup {n.key}
           /\ \A z \in DOMAIN nodes : z # n.key => nodes'[z] = nodes[z]
           /\ n.key \in DOMAIN nodes =>
                /\ nodes'[n.key].value = MergedValue(nodes[n.key].value, n.value)
                /\ nodes'[n.key].urgency = nodes[n.key].urgency
           /\ n.key \notin DOMAIN nodes =>
                nodes'[n.key].value = n.value /\ nodes'[n.key].urgency = 0
           /\ edges' = edges
           /\ dirty' = dirty \cup {n.key}
<1> DEFINE n == Current(w).nodes[work[w].next]
<1>1. Working(w) /\ work[w].next \in Nat \ {0}
  BY WorkRecordSet DEF WriteNode, Working, WorkTyped
<1>2. Current(w) \in Batches /\ work[w].batch \in Nat
  BY <1>1, CurrentTyped
<1>3. work[w].next \in DOMAIN Current(w).nodes
  BY <1>1, <1>2, BatchTyped DEF WriteNode
<1>4. n.key \in Key /\ n.value \in Value \cup {Unset}
  BY <1>2, <1>3, BatchTyped
<1>5. UpsertNode(n.key, n.value, work[w].batch) /\ dirty' = dirty \cup {n.key}
  BY DEF WriteNode
<1> HIDE DEF n
<1>6. /\ StoreTyped'
      /\ DOMAIN nodes' = DOMAIN nodes \cup {n.key}
      /\ \A z \in DOMAIN nodes : z # n.key => nodes'[z] = nodes[z]
      /\ n.key \in DOMAIN nodes =>
           /\ nodes'[n.key].value = MergedValue(nodes[n.key].value, n.value)
           /\ nodes'[n.key].urgency = nodes[n.key].urgency
      /\ n.key \notin DOMAIN nodes =>
           nodes'[n.key].value = n.value /\ nodes'[n.key].urgency = 0
      /\ edges' = edges
  BY <1>2, <1>4, <1>5, UpsertNodeEffect
<1>7. QED
  BY <1>3, <1>4, <1>5, <1>6 DEF n

\* The edges of a batch that a worker may write, and the ends they join.
LEMMA WritableTyped ==
    ASSUME NEW b \in Batches, NEW i \in Writable(b)
    PROVE  /\ i \in DOMAIN b.edges
           /\ b.edges[i].id \in EdgeId /\ b.edges[i].conf \in Confidence
           /\ {b.edges[i].id[2], b.edges[i].id[3]} \subseteq BatchKeys(b)
           /\ {b.edges[i].id[2], b.edges[i].id[3]} \subseteq Key
<1>1. i \in DOMAIN b.edges /\ {b.edges[i].id[2], b.edges[i].id[3]} \subseteq BatchKeys(b)
  BY DEF Writable
<1>2. b.edges[i].id \in EdgeId /\ b.edges[i].conf \in Confidence
  BY <1>1, BatchTyped
<1>3. QED
  BY <1>1, <1>2 DEF EdgeId

LEMMA WriteEdgeEffect ==
    ASSUME WorkTyped, OwnerInStep, StoreTyped, NEW w \in Worker, WriteEdge(w),
           work[w].next \in Writable(Current(w))
    PROVE  LET e == Current(w).edges[work[w].next] IN
           /\ e.id \in EdgeId
           /\ StoreTyped'
           /\ DOMAIN edges' = DOMAIN edges \cup {e.id}
           /\ \A z \in DOMAIN edges : z # e.id => edges'[z] = edges[z]
           /\ e.id \in DOMAIN edges =>
                /\ edges'[e.id].prov = edges[e.id].prov \cup {work[w].batch}
                /\ edges'[e.id].conf = IF e.conf > edges[e.id].conf THEN e.conf
                                       ELSE edges[e.id].conf
           /\ e.id \notin DOMAIN edges =>
                edges'[e.id].prov = {work[w].batch} /\ edges'[e.id].conf = e.conf
           /\ nodes' = nodes
           /\ dirty' = dirty \cup {e.id[2], e.id[3]}
           /\ {e.id[2], e.id[3]} \subseteq BatchKeys(Current(w)) \cap Key
<1> DEFINE e == Current(w).edges[work[w].next]
<1>1. Working(w)
  BY DEF WriteEdge, Working
<1>2. Current(w) \in Batches /\ work[w].batch \in Nat
  BY <1>1, CurrentTyped
<1>3. /\ e.id \in EdgeId /\ e.conf \in Confidence
      /\ {e.id[2], e.id[3]} \subseteq BatchKeys(Current(w)) \cap Key
  BY <1>2, WritableTyped
<1>4. /\ UpsertEdge(e.id, e.conf, work[w].batch)
      /\ dirty' = dirty \cup {e.id[2], e.id[3]}
  BY DEF WriteEdge
<1> HIDE DEF e
<1>5. /\ StoreTyped'
      /\ DOMAIN edges' = DOMAIN edges \cup {e.id}
      /\ \A z \in DOMAIN edges : z # e.id => edges'[z] = edges[z]
      /\ e.id \in DOMAIN edges =>
           /\ edges'[e.id].prov = edges[e.id].prov \cup {work[w].batch}
           /\ edges'[e.id].conf = IF e.conf > edges[e.id].conf THEN e.conf ELSE edges[e.id].conf
      /\ e.id \notin DOMAIN edges =>
           edges'[e.id].prov = {work[w].batch} /\ edges'[e.id].conf = e.conf
      /\ nodes' = nodes
  BY <1>2, <1>3, <1>4, UpsertEdgeEffect
<1>6. QED
  BY <1>3, <1>4, <1>5 DEF e

LEMMA WriteEdgeSkips ==
    ASSUME NEW w \in Worker, WriteEdge(w), work[w].next \notin Writable(Current(w))
    PROVE  UNCHANGED <<nodes, edges, dirty>>
BY DEF WriteEdge, storeVars

\* Who writes what.
LEMMA StoreSteps ==
    ASSUME [Next]_vars
    PROVE  \/ UNCHANGED <<nodes, edges>> /\ dirty' \subseteq dirty
           \/ \E w \in Worker : WriteNode(w) \/ WriteEdge(w)
           \/ RankWrite /\ dirty' = dirty
<1>1. ASSUME NEW b \in Batches, Extract(b) PROVE UNCHANGED <<nodes, edges, dirty>>
  BY <1>1 DEF Extract, storeVars
<1>2. ASSUME NEW w \in Worker,
             \/ Begin(w) \/ NodesWritten(w) \/ Announce(w) \/ CommitBatch(w)
             \/ HandlerRaises(w) \/ Evict(w) \/ Crash(w)
      PROVE  UNCHANGED <<nodes, edges, dirty>>
  BY <1>2 DEF Begin, NodesWritten, Announce, CommitBatch, HandlerRaises, Evict, Crash, storeVars
<1>3. CASE RankBegin \/ RankPublish \/ RankCommit \/ RankRaises \/ RankCrash
  BY <1>3 DEF RankBegin, RankPublish, RankCommit, RankRaises, RankCrash, storeVars
<1>4. CASE RankRead
  BY <1>4 DEF RankRead, storeVars
<1>5. CASE RankWrite
  BY <1>5 DEF RankWrite
<1>6. CASE UNCHANGED vars
  BY <1>6 DEF vars, storeVars
<1>7. QED
  BY <1>1, <1>2, <1>3, <1>4, <1>5, <1>6 DEF Next, GraphStep, RankStep

-----------------------------------------------------------------------------
(* The ranking worker: types, and the node of the change it is at.         *)

RankPc == {"idle", "read", "write", "publish"}
RankFields == {"pc", "next", "attempt", "score"}
RankRecord == [pc : RankPc, next : Nat \ {0}, attempt : 1..MaxRetries, score : Nat]

RankTyped ==
    /\ changes \in Seq(Seq(Key))
    /\ ranked \in 0..Len(changes)
    /\ rank \in RankRecord
    /\ risks \subseteq Key \X Nat
    /\ unranked \subseteq Nat
    /\ dirty \subseteq Key
    /\ rank.pc # "idle" => ranked < Len(changes)

\* The node whose urgency is about to be written or announced is in the graph, and
\* this is its first occurrence in the change.
AtNode ==
    rank.pc \in {"write", "publish"} =>
        /\ rank.next <= Len(CurrentChange)
        /\ CurrentChange[rank.next] \in DOMAIN nodes
        /\ ~Repeated

RankFramed(s) == s = [f \in RankFields |-> s[f]]

LEMMA RankRecordSet ==
    ASSUME NEW s
    PROVE  s \in RankRecord <=> /\ RankFramed(s)
                                /\ s.pc \in RankPc /\ s.next \in Nat \ {0}
                                /\ s.attempt \in 1..MaxRetries /\ s.score \in Nat
BY DEF RankRecord, RankFramed, RankFields

\* Where the ranking worker is after a step.
RankAt(pc, next, attempt, score) ==
    rank'.pc = pc /\ rank'.next = next /\ rank'.attempt = attempt /\ rank'.score = score

LEMMA CurrentChangeTyped ==
    ASSUME RankTyped, rank.pc # "idle"
    PROVE  /\ CurrentChange \in Seq(Key)
           /\ ranked + 1 \in DOMAIN changes
           /\ Len(CurrentChange) \in Nat
           /\ DOMAIN CurrentChange = 1..Len(CurrentChange)
BY DEF RankTyped, CurrentChange

LEMMA RankMoved ==
    ASSUME RankTyped, StoreTyped
    PROVE  /\ RankBegin => RankAt("read", 1, 1, 0)
           /\ RankRead =>
                LET k == CurrentChange[rank.next] IN
                IF Repeated \/ k \notin DOMAIN nodes
                THEN RankAt("read", rank.next + 1, rank.attempt, rank.score)
                ELSE RankAt("write", rank.next, rank.attempt, Score(k))
           /\ RankWrite => RankAt("publish", rank.next, rank.attempt, rank.score)
           /\ RankPublish => RankAt("read", rank.next + 1, rank.attempt, rank.score)
           /\ RankCommit \/ RankCrash => RankAt("idle", 1, 1, 0)
           /\ RankRaises /\ RetryLeft(rank.attempt) => RankAt("read", 1, rank.attempt + 1, 0)
           /\ RankRaises /\ ~RetryLeft(rank.attempt) =>
                RankAt("read", Len(CurrentChange) + 1, rank.attempt, rank.score)
           /\ \/ RankBegin \/ RankRead \/ RankWrite \/ RankPublish
              \/ RankCommit \/ RankCrash \/ RankRaises
              => RankFramed(rank')
<1>1. RankFramed(rank) /\ RankFramed(RankIdle)
  BY RankRecordSet DEF RankTyped, RankFramed, RankFields, RankIdle
<1>2. ASSUME RankBegin PROVE RankAt("read", 1, 1, 0) /\ RankFramed(rank')
  <2>1. rank' = [RankIdle EXCEPT !.pc = "read"]
    BY <1>2 DEF RankBegin
  <2>2. RankAt("read", 1, 1, 0)
    BY <2>1 DEF RankAt, RankIdle
  <2>3. RankFramed(rank')
    BY <1>1, <2>1 DEF RankFramed, RankFields
  <2>4. QED
    BY <2>2, <2>3
<1>3. ASSUME RankRead, Repeated \/ CurrentChange[rank.next] \notin DOMAIN nodes
      PROVE  RankAt("read", rank.next + 1, rank.attempt, rank.score) /\ RankFramed(rank')
  <2>1. rank' = [rank EXCEPT !.next = @ + 1] /\ rank.pc = "read"
    BY <1>3 DEF RankRead
  <2>2. RankAt("read", rank.next + 1, rank.attempt, rank.score)
    BY <1>1, <2>1 DEF RankAt, RankFramed, RankFields
  <2>3. RankFramed(rank')
    BY <1>1, <2>1 DEF RankFramed, RankFields
  <2>4. QED
    BY <2>2, <2>3
<1>4. ASSUME RankRead, ~(Repeated \/ CurrentChange[rank.next] \notin DOMAIN nodes)
      PROVE  /\ RankAt("write", rank.next, rank.attempt, Score(CurrentChange[rank.next]))
             /\ RankFramed(rank')
  <2>1. rank' = [rank EXCEPT !.pc = "write", !.score = Score(CurrentChange[rank.next])]
    BY <1>4 DEF RankRead
  <2> DEFINE score == Score(CurrentChange[rank.next])
  <2> HIDE DEF score
  <2>2. RankAt("write", rank.next, rank.attempt, score)
    BY <1>1, <2>1 DEF RankAt, RankFramed, RankFields, score
  <2>3. RankFramed(rank')
    BY <1>1, <2>1 DEF RankFramed, RankFields
  <2>4. QED
    BY <2>2, <2>3 DEF score
<1>5. ASSUME RankWrite
      PROVE  RankAt("publish", rank.next, rank.attempt, rank.score) /\ RankFramed(rank')
  <2>1. rank' = [rank EXCEPT !.pc = "publish"]
    BY <1>5 DEF RankWrite
  <2>2. QED
    BY <1>1, <2>1 DEF RankAt, RankFramed, RankFields
<1>6. ASSUME RankPublish
      PROVE  RankAt("read", rank.next + 1, rank.attempt, rank.score) /\ RankFramed(rank')
  <2>1. rank' = [rank EXCEPT !.pc = "read", !.next = @ + 1]
    BY <1>6 DEF RankPublish
  <2>2. RankAt("read", rank.next + 1, rank.attempt, rank.score)
    BY <1>1, <2>1 DEF RankAt, RankFramed, RankFields
  <2>3. RankFramed(rank')
    BY <1>1, <2>1 DEF RankFramed, RankFields
  <2>4. QED
    BY <2>2, <2>3
<1>7. ASSUME RankCommit \/ RankCrash PROVE RankAt("idle", 1, 1, 0) /\ RankFramed(rank')
  <2>1. rank' = RankIdle
    BY <1>7 DEF RankCommit, RankCrash
  <2>2. QED
    BY <1>1, <2>1 DEF RankAt, RankIdle
<1>8. ASSUME RankRaises, RetryLeft(rank.attempt)
      PROVE  RankAt("read", 1, rank.attempt + 1, 0) /\ RankFramed(rank')
  <2>1. rank' = [RankIdle EXCEPT !.pc = "read", !.attempt = rank.attempt + 1]
    BY <1>8 DEF RankRaises
  <2>2. RankAt("read", 1, rank.attempt + 1, 0)
    BY <2>1 DEF RankAt, RankIdle
  <2>3. RankFramed(rank')
    BY <1>1, <2>1 DEF RankFramed, RankFields
  <2>4. QED
    BY <2>2, <2>3
<1>9. ASSUME RankRaises, ~RetryLeft(rank.attempt)
      PROVE  /\ RankAt("read", Len(CurrentChange) + 1, rank.attempt, rank.score)
             /\ RankFramed(rank')
  <2>1. rank' = [rank EXCEPT !.pc = "read", !.next = Len(CurrentChange) + 1]
    BY <1>9 DEF RankRaises
  <2>2. RankAt("read", Len(CurrentChange) + 1, rank.attempt, rank.score)
    BY <1>1, <2>1 DEF RankAt, RankFramed, RankFields
  <2>3. RankFramed(rank')
    BY <1>1, <2>1 DEF RankFramed, RankFields
  <2>4. QED
    BY <2>2, <2>3
<1>10. QED
  BY <1>2, <1>3, <1>4, <1>5, <1>6, <1>7, <1>8, <1>9

LEMMA StoreTypedStep ==
    ASSUME WorkTyped, OwnerInStep, StoreTyped, RankTyped, [Next]_vars
    PROVE  StoreTyped' /\ DOMAIN nodes \subseteq DOMAIN nodes' /\ dirty' \subseteq Key
<1>1. CASE UNCHANGED <<nodes, edges>> /\ dirty' \subseteq dirty
  BY <1>1 DEF StoreTyped, Bounded, RankTyped
<1>2. ASSUME NEW w \in Worker, WriteNode(w)
      PROVE  StoreTyped' /\ DOMAIN nodes \subseteq DOMAIN nodes' /\ dirty' \subseteq Key
  BY <1>2, WriteNodeEffect DEF RankTyped
<1>3. ASSUME NEW w \in Worker, WriteEdge(w)
      PROVE  StoreTyped' /\ DOMAIN nodes \subseteq DOMAIN nodes' /\ dirty' \subseteq Key
  <2>1. CASE work[w].next \in Writable(Current(w))
    BY <1>3, <2>1, WriteEdgeEffect DEF RankTyped
  <2>2. CASE work[w].next \notin Writable(Current(w))
    BY <1>3, <2>2, WriteEdgeSkips DEF RankTyped, StoreTyped, Bounded
  <2>3. QED
    BY <2>1, <2>2
<1>4. CASE RankWrite /\ dirty' = dirty
  <2>1. SetUrgency(CurrentChange[rank.next], rank.score) /\ rank.score \in Nat
    BY <1>4, RankRecordSet DEF RankWrite, RankTyped
  <2>2. StoreTyped' /\ DOMAIN nodes' = DOMAIN nodes
    BY <2>1, SetUrgencyEffect
  <2>3. QED
    BY <1>4, <2>2 DEF RankTyped
<1>5. QED
  BY <1>1, <1>2, <1>3, <1>4, StoreSteps

\* What the change that a batch is announced with says.
Announcement(b) == [i \in DOMAIN b.nodes |-> b.nodes[i].key]

\* The topic grows at its end, so what ranking is at stays what it is.
LEMMA AnnounceEffect ==
    ASSUME WorkTyped, OwnerInStep, RankTyped, NEW w \in Worker, Announce(w)
    PROVE  /\ changes' \in Seq(Seq(Key))
           /\ Len(changes) <= Len(changes') /\ Len(changes) \in Nat /\ Len(changes') \in Nat
           /\ \A c \in DOMAIN changes : c \in DOMAIN changes' /\ changes'[c] = changes[c]
           /\ Current(w).nodes # <<>> =>
                /\ Len(changes') = Len(changes) + 1
                /\ changes'[Len(changes')] = Announcement(Current(w))
           /\ UNCHANGED <<ranked, rank, risks, unranked, dirty, nodes, edges>>
<1> DEFINE c == Announcement(Current(w))
<1>1. Current(w) \in Batches
  BY CurrentTyped DEF Announce, Working
<1>2. c \in Seq(Key)
  <2>1. Current(w).nodes \in Seq([key : Key, value : Value \cup {Unset}])
    BY <1>1, BatchTyped
  <2>2. DOMAIN Current(w).nodes = 1..Len(Current(w).nodes) /\ Len(Current(w).nodes) \in Nat
    BY <2>1
  <2>3. \A i \in DOMAIN Current(w).nodes : Current(w).nodes[i].key \in Key
    BY <1>1, BatchTyped
  <2>4. QED
    BY <2>2, <2>3 DEF Announcement
<1>3. /\ changes' = IF Current(w).nodes = <<>> THEN changes ELSE Append(changes, c)
      /\ UNCHANGED <<ranked, rank, risks, unranked, dirty, nodes, edges>>
  BY DEF Announce, Announcement, rankVars, storeVars
<1> HIDE DEF c
<1>4. changes \in Seq(Seq(Key))
  BY DEF RankTyped
<1>5. CASE Current(w).nodes = <<>>
  BY <1>3, <1>4, <1>5
<1>6. CASE Current(w).nodes # <<>>
  <2>1. changes' = Append(changes, c)
    BY <1>3, <1>6
  <2>2. /\ changes' \in Seq(Seq(Key))
        /\ Len(changes') = Len(changes) + 1 /\ Len(changes) \in Nat
        /\ changes'[Len(changes')] = c
        /\ \A d \in DOMAIN changes : d \in DOMAIN changes' /\ changes'[d] = changes[d]
    BY <1>2, <1>4, <2>1
  <2>3. QED
    BY <1>3, <2>2 DEF c
<1>7. QED
  BY <1>5, <1>6

LEMMA SameChange ==
    ASSUME RankTyped, rank.pc # "idle", UNCHANGED ranked,
           \A c \in DOMAIN changes : c \in DOMAIN changes' /\ changes'[c] = changes[c]
    PROVE  CurrentChange' = CurrentChange
BY CurrentChangeTyped DEF CurrentChange

\* The steps ranking takes no part in.
RankElsewhere == UNCHANGED <<changes, ranked, rank, risks, unranked>>

LEMMA RankSteps ==
    ASSUME [Next]_vars
    PROVE  \/ RankElsewhere
           \/ \E w \in Worker : Announce(w)
           \/ /\ \/ RankBegin \/ RankRead \/ RankWrite \/ RankPublish
                 \/ RankCommit \/ RankCrash \/ RankRaises
              /\ UNCHANGED changes
<1>1. ASSUME NEW b \in Batches, Extract(b) PROVE RankElsewhere
  BY <1>1 DEF Extract, RankElsewhere, rankVars
<1>2. ASSUME NEW w \in Worker,
             \/ Begin(w) \/ WriteNode(w) \/ NodesWritten(w) \/ WriteEdge(w)
             \/ CommitBatch(w) \/ HandlerRaises(w) \/ Evict(w) \/ Crash(w)
      PROVE  RankElsewhere
  BY <1>2 DEF Begin, WriteNode, NodesWritten, WriteEdge, CommitBatch, HandlerRaises,
     Evict, Crash, RankElsewhere, rankVars
<1>3. CASE RankBegin \/ RankRead \/ RankWrite \/ RankPublish
           \/ RankCommit \/ RankCrash \/ RankRaises
  BY <1>3 DEF RankBegin, RankRead, RankWrite, RankPublish, RankCommit, RankCrash, RankRaises
<1>4. CASE UNCHANGED vars
  BY <1>4 DEF vars, rankVars, RankElsewhere
<1>5. QED
  BY <1>1, <1>2, <1>3, <1>4 DEF Next, GraphStep, RankStep

LEMMA RankTypedStep ==
    ASSUME WorkTyped, OwnerInStep, StoreTyped, RankTyped, AtNode, [Next]_vars
    PROVE  RankTyped' /\ AtNode'
<1>0. /\ DOMAIN nodes \subseteq DOMAIN nodes' /\ dirty' \subseteq Key
      /\ changes \in Seq(Seq(Key)) /\ Len(changes) \in Nat
      /\ ranked \in 0..Len(changes) /\ ranked \in Nat
      /\ rank.pc \in RankPc /\ rank.next \in Nat \ {0}
      /\ rank.attempt \in 1..MaxRetries /\ rank.score \in Nat
      /\ "idle" \in RankPc /\ "read" \in RankPc /\ "write" \in RankPc
      /\ "publish" \in RankPc
      /\ MaxRetries \in Nat \ {0} /\ 1 \in 1..MaxRetries
      /\ risks \subseteq Key \X Nat /\ unranked \subseteq Nat
      /\ 0 \in Nat /\ 1 \in Nat \ {0} /\ rank.next + 1 \in Nat \ {0}
      /\ rank.pc # "idle" => ranked < Len(changes)
  BY StoreTypedStep, RankRecordSet, PipelineAssumption DEF RankTyped, RankPc
<1>1. CASE RankElsewhere
  BY <1>0, <1>1 DEF RankElsewhere, RankTyped, AtNode, CurrentChange, Repeated
<1>2. ASSUME NEW w \in Worker, Announce(w) PROVE RankTyped' /\ AtNode'
  <2>1. /\ changes' \in Seq(Seq(Key)) /\ Len(changes) <= Len(changes')
        /\ Len(changes') \in Nat
        /\ UNCHANGED <<ranked, rank, risks, unranked, dirty, nodes>>
    BY <1>2, AnnounceEffect
  <2>2. RankTyped'
    BY <1>0, <2>1 DEF RankTyped
  <2>3. rank.pc # "idle" => CurrentChange' = CurrentChange
    BY <1>2, <2>1, AnnounceEffect, SameChange
  <2>4. AtNode'
    BY <2>1, <2>3 DEF AtNode, Repeated
  <2>5. QED
    BY <2>2, <2>4
<1>3. ASSUME UNCHANGED changes, ranked' \in 0..Len(changes), RankFramed(rank'),
             NEW pc \in RankPc, NEW next \in Nat \ {0},
             NEW attempt \in 1..MaxRetries, NEW score \in Nat,
             RankAt(pc, next, attempt, score),
             risks' \subseteq Key \X Nat, unranked' \subseteq Nat,
             pc # "idle" => ranked' < Len(changes)
      PROVE  RankTyped'
  <2>1. rank' \in RankRecord
    BY <1>3, RankRecordSet DEF RankAt
  <2>2. QED
    BY <1>0, <1>3, <2>1 DEF RankTyped, RankAt
<1>4. CASE RankBegin
  <2>1. /\ UNCHANGED <<changes, ranked, risks, unranked>> /\ ranked < Len(changes)
        /\ RankAt("read", 1, 1, 0) /\ RankFramed(rank')
    BY <1>4, RankMoved DEF RankBegin
  <2>2. RankTyped'
    BY <1>0, <1>3, <2>1
  <2>3. QED
    BY <2>1, <2>2 DEF AtNode, RankAt
<1>5. CASE RankRead /\ (Repeated \/ CurrentChange[rank.next] \notin DOMAIN nodes)
  <2>1. /\ UNCHANGED <<changes, ranked, risks, unranked>> /\ rank.pc = "read"
        /\ RankAt("read", rank.next + 1, rank.attempt, rank.score) /\ RankFramed(rank')
    BY <1>5, RankMoved DEF RankRead
  <2>2. RankTyped'
    BY <1>0, <1>3, <2>1
  <2>3. QED
    BY <2>1, <2>2 DEF AtNode, RankAt
<1>6. CASE RankRead /\ ~(Repeated \/ CurrentChange[rank.next] \notin DOMAIN nodes)
  <2> DEFINE k == CurrentChange[rank.next]
  <2>1. /\ UNCHANGED <<changes, ranked, risks, unranked, nodes>> /\ rank.pc = "read"
        /\ rank.next <= Len(CurrentChange)
        /\ RankAt("write", rank.next, rank.attempt, Score(k)) /\ RankFramed(rank')
    BY <1>6, RankMoved DEF RankRead, storeVars
  <2>2. k \in DOMAIN nodes /\ Score(k) \in Nat
    BY <1>6, ScoreIsNumber
  <2>3. RankTyped'
    BY <1>0, <1>3, <2>1, <2>2
  <2>4. AtNode'
    BY <1>6, <2>1 DEF AtNode, RankAt, CurrentChange, Repeated
  <2>5. QED
    BY <2>3, <2>4
<1>7. CASE RankWrite
  <2>1. /\ UNCHANGED <<changes, ranked, risks, unranked>> /\ rank.pc = "write"
        /\ RankAt("publish", rank.next, rank.attempt, rank.score) /\ RankFramed(rank')
    BY <1>7, RankMoved DEF RankWrite
  <2>2. RankTyped'
    BY <1>0, <1>3, <2>1
  <2>3. AtNode'
    BY <1>0, <2>1 DEF AtNode, RankAt, CurrentChange, Repeated
  <2>4. QED
    BY <2>2, <2>3
<1>8. CASE RankPublish
  <2>1. /\ UNCHANGED <<changes, ranked, unranked>> /\ rank.pc = "publish"
        /\ RankAt("read", rank.next + 1, rank.attempt, rank.score) /\ RankFramed(rank')
    BY <1>8, RankMoved DEF RankPublish
  <2>2. CurrentChange[rank.next] \in Key
    BY <1>0, <2>1, CurrentChangeTyped DEF AtNode
  <2>3. risks' \subseteq Key \X Nat
    BY <1>0, <1>8, <2>2 DEF RankPublish, RiskScored, RankTyped
  <2>4. RankTyped'
    BY <1>0, <1>3, <2>1, <2>3
  <2>5. QED
    BY <2>1, <2>4 DEF AtNode, RankAt
<1>9. CASE RankCommit \/ RankCrash
  <2>1. /\ UNCHANGED <<changes, risks, unranked>> /\ rank.pc # "idle"
        /\ ranked' \in {ranked, ranked + 1}
        /\ RankAt("idle", 1, 1, 0) /\ RankFramed(rank')
    BY <1>9, RankMoved DEF RankCommit, RankCrash
  <2>2. ranked' \in 0..Len(changes)
    BY <1>0, <2>1 DEF RankTyped
  <2>3. RankTyped'
    BY <1>0, <1>3, <2>1, <2>2
  <2>4. QED
    BY <2>1, <2>3 DEF AtNode, RankAt
<1>10. CASE RankRaises
  <2>1. /\ UNCHANGED <<changes, ranked, risks>> /\ rank.pc # "idle"
        /\ unranked' \subseteq unranked \cup {ranked + 1}
        /\ RankFramed(rank')
    BY <1>10, RankMoved DEF RankRaises
  <2>0. /\ UNCHANGED changes /\ ranked' \in 0..Len(changes) /\ ranked' < Len(changes)
        /\ risks' \subseteq Key \X Nat /\ unranked' \subseteq Nat /\ "read" \in RankPc
    BY <1>0, <2>1
  <2>2. CASE RetryLeft(rank.attempt)
    <3>1. RankAt("read", 1, rank.attempt + 1, 0)
      BY <1>10, <2>2, RankMoved
    <3>2. rank.attempt + 1 \in 1..MaxRetries
      BY <1>0, <2>2 DEF RetryLeft
    <3>3. RankTyped'
      BY <1>0, <1>3, <2>0, <2>1, <3>1, <3>2
    <3>4. QED
      BY <3>1, <3>3 DEF AtNode, RankAt
  <2>3. CASE ~RetryLeft(rank.attempt)
    <3>1. RankAt("read", Len(CurrentChange) + 1, rank.attempt, rank.score)
      BY <1>10, <2>3, RankMoved
    <3>2. Len(CurrentChange) + 1 \in Nat \ {0}
      BY <2>1, CurrentChangeTyped
    <3>3. RankTyped'
      BY <1>0, <1>3, <2>0, <2>1, <3>1, <3>2
    <3>4. QED
      BY <3>1, <3>3 DEF AtNode, RankAt
  <2>4. QED
    BY <2>2, <2>3
<1>11. QED
  BY <1>1, <1>2, <1>4, <1>5, <1>6, <1>7, <1>8, <1>9, <1>10, RankSteps

\* Everything together.
Typed == WorkTyped /\ OwnerInStep /\ StoreTyped /\ RankTyped /\ AtNode

LEMMA TypedInit == Init => Typed
<1> SUFFICES ASSUME Init PROVE Typed
  OBVIOUS
<1>1. /\ batches = <<>> /\ acked = 0 /\ owner \in Worker
      /\ work = [w \in Worker |-> Idle]
      /\ budget = [fault |-> MaxFaults, evict |-> MaxEvictions]
      /\ dead = {} /\ dirty = {} /\ risks = {} /\ unranked = {}
      /\ changes = <<>> /\ ranked = 0 /\ rank = RankIdle
      /\ DOMAIN nodes = {} /\ nodes = [k \in {} |-> Unset]
      /\ DOMAIN edges = {} /\ edges = [e \in {} |-> Unset]
      /\ 1 \in 1..MaxRetries
  BY PipelineAssumption DEF Init, StoreInit
<1>2. Idle \in WorkRecord(0) /\ Idle.pc = "idle"
  BY <1>1 DEF Idle, WorkRecord, WorkPc
<1>3. WorkTyped
  BY <1>1, <1>2, PipelineAssumption DEF WorkTyped
<1>4. OwnerInStep
  BY <1>1, <1>2 DEF OwnerInStep, Working
<1>5. StoreTyped
  BY <1>1 DEF StoreTyped, Bounded
<1>6. RankTyped /\ AtNode
  <2>1. RankIdle \in RankRecord /\ RankIdle.pc = "idle"
    BY <1>1 DEF RankIdle, RankRecord, RankPc
  <2>2. QED
    BY <1>1, <2>1 DEF RankTyped, AtNode
<1>7. QED
  BY <1>3, <1>4, <1>5, <1>6 DEF Typed

LEMMA TypedStep == Typed /\ [Next]_vars => Typed'
BY WorkStep, StoreTypedStep, RankTypedStep DEF Typed

LEMMA TypedCorrect == Spec => []Typed
BY TypedInit, TypedStep, PTL DEF Spec

(***************************************************************************)
(* Every variable keeps its type: in particular the announcements name     *)
(* keys only, the urgency of a node is a number however the values of its  *)
(* neighborhood are unset, and nobody commits past what arrived.           *)
(***************************************************************************)
THEOREM PipelineIsTyped == Spec => []TypeOK
<1>1. Typed => TypeOK
  <2> SUFFICES ASSUME Typed PROVE TypeOK
    OBVIOUS
  <2>1. work \in [Worker ->
         [pc : {"idle", "nodes", "edges", "commit", "stopped"}, batch : 0..Len(batches),
          next : Nat \ {0}, attempt : 1..MaxRetries]]
    BY DEF Typed, WorkTyped, WorkRecord, WorkPc
  <2>2. rank \in [pc : {"idle", "read", "write", "publish"}, next : Nat \ {0},
                  attempt : 1..MaxRetries, score : Nat]
    BY DEF Typed, RankTyped, RankRecord, RankPc
  <2>3. QED
    BY <2>1, <2>2 DEF Typed, WorkTyped, StoreTyped, RankTyped, TypeOK
<1>2. QED
  BY <1>1, TypedCorrect, PTL

-----------------------------------------------------------------------------
(* Risks: a node whose urgency is at the threshold and was not announced   *)
(* is in the change being ranked, at a place that is still to come.        *)

Pending(k) == nodes[k].urgency >= ReasonAt /\ <<k, nodes[k].urgency>> \notin risks

StillDue(k) ==
    /\ ranked < Len(changes)
    /\ \E j \in DOMAIN CurrentChange : CurrentChange[j] = k
    /\ rank.pc # "idle" => \A i \in 1..(rank.next - 1) : CurrentChange[i] # k

RisksInv ==
    /\ unranked = {} => \A k \in DOMAIN nodes : Pending(k) => StillDue(k)
    /\ rank.pc = "publish" => nodes[CurrentChange[rank.next]].urgency = rank.score

\* What is pending was pending, unless this step wrote its urgency.
LEMMA PendingStays ==
    ASSUME Typed, [Next]_vars, ~RankWrite, risks \subseteq risks',
           NEW k \in DOMAIN nodes', Pending(k)'
    PROVE  k \in DOMAIN nodes /\ Pending(k)
<1>1. CASE UNCHANGED <<nodes, edges>>
  BY <1>1 DEF Pending
<1>2. ASSUME NEW w \in Worker, WriteNode(w)
      PROVE  k \in DOMAIN nodes /\ nodes'[k].urgency = nodes[k].urgency
  <2> DEFINE n == Current(w).nodes[work[w].next]
  <2>1. /\ DOMAIN nodes' = DOMAIN nodes \cup {n.key}
        /\ \A z \in DOMAIN nodes : z # n.key => nodes'[z] = nodes[z]
        /\ n.key \in DOMAIN nodes => nodes'[n.key].urgency = nodes[n.key].urgency
        /\ n.key \notin DOMAIN nodes => nodes'[n.key].urgency = 0
    BY <1>2, WriteNodeEffect DEF Typed
  <2> HIDE DEF n
  <2>2. nodes'[k].urgency >= ReasonAt /\ ReasonAt \in Nat \ {0}
    BY PipelineAssumption DEF Pending
  <2>3. k \in DOMAIN nodes
    BY <2>1, <2>2
  <2>4. QED
    BY <2>1, <2>3
<1>3. ASSUME NEW w \in Worker, WriteEdge(w) PROVE nodes' = nodes
  BY <1>3, WriteEdgeEffect, WriteEdgeSkips DEF Typed
<1>4. QED
  BY <1>1, <1>2, <1>3, StoreSteps DEF Pending

LEMMA RisksStep ==
    ASSUME Typed, Typed', RisksInv, [Next]_vars
    PROVE  RisksInv'
<1>0. /\ ranked \in Nat /\ Len(changes) \in Nat /\ rank.next \in Nat \ {0}
      /\ changes \in Seq(Seq(Key))
  BY RankRecordSet DEF Typed, RankTyped
\* The urgency that is about to be announced is not overwritten.
<1>1. ASSUME ~RankWrite, UNCHANGED rank, CurrentChange' = CurrentChange, rank.pc = "publish"
      PROVE  nodes'[CurrentChange[rank.next]].urgency = rank.score
  <2> DEFINE k == CurrentChange[rank.next]
  <2>1. k \in DOMAIN nodes /\ nodes[k].urgency = rank.score
    BY <1>1 DEF Typed, AtNode, RisksInv
  <2> HIDE DEF k
  <2>2. ASSUME NEW w \in Worker, WriteNode(w) PROVE nodes'[k].urgency = nodes[k].urgency
    BY <2>1, <2>2, WriteNodeEffect DEF Typed
  <2>3. ASSUME NEW w \in Worker, WriteEdge(w) PROVE nodes' = nodes
    BY <2>3, WriteEdgeEffect, WriteEdgeSkips DEF Typed
  <2>4. nodes'[k].urgency = nodes[k].urgency
    BY <1>1, <2>2, <2>3, StoreSteps
  <2>5. QED
    BY <2>1, <2>4 DEF k
<1>2. CASE RankElsewhere
  <2>1. UNCHANGED <<changes, ranked, rank, risks, unranked>> /\ CurrentChange' = CurrentChange
    BY <1>2 DEF RankElsewhere, CurrentChange
  <2>2. CASE RankWrite
    BY <2>1, <2>2, RankMoved DEF RankWrite, RankAt, Typed
  <2>3. CASE ~RankWrite
    <3>1. unranked' = {} => \A k \in DOMAIN nodes' : Pending(k)' => StillDue(k)'
      BY <2>1, <2>3, PendingStays DEF RisksInv, StillDue
    <3>2. QED
      BY <1>1, <2>1, <2>3, <3>1 DEF RisksInv
  <2>4. QED
    BY <2>2, <2>3
<1>3. ASSUME NEW w \in Worker, Announce(w) PROVE RisksInv'
  <2>1. /\ Len(changes) <= Len(changes') /\ Len(changes') \in Nat
        /\ UNCHANGED <<ranked, rank, risks, unranked, nodes>>
        /\ \A c \in DOMAIN changes : c \in DOMAIN changes' /\ changes'[c] = changes[c]
    BY <1>3, AnnounceEffect DEF Typed
  <2>2. ranked < Len(changes) => CurrentChange' = CurrentChange /\ ranked' < Len(changes')
    BY <1>0, <2>1 DEF CurrentChange
  <2>3. rank.pc # "idle" => ranked < Len(changes)
    BY DEF Typed, RankTyped
  <2>4. unranked' = {} => \A k \in DOMAIN nodes' : Pending(k)' => StillDue(k)'
    BY <2>1, <2>2 DEF RisksInv, StillDue, Pending
  <2>5. QED
    BY <2>1, <2>2, <2>3, <2>4 DEF RisksInv
<1>4. CASE RankBegin
  <2>1. /\ UNCHANGED <<changes, ranked, risks, unranked, nodes>>
        /\ RankAt("read", 1, 1, 0)
    BY <1>4, RankMoved DEF RankBegin, storeVars, Typed
  <2>2. QED
    BY <2>1 DEF RisksInv, StillDue, Pending, RankAt, CurrentChange
<1>5. CASE RankRead
  <2> DEFINE k == CurrentChange[rank.next]
  <2>1. /\ UNCHANGED <<changes, ranked, risks, unranked, nodes>>
        /\ CurrentChange' = CurrentChange
        /\ rank.pc = "read"
    BY <1>5 DEF RankRead, storeVars, CurrentChange
  <2>2. CASE Repeated \/ k \notin DOMAIN nodes
    <3>1. RankAt("read", rank.next + 1, rank.attempt, rank.score)
      BY <1>5, <2>2, RankMoved DEF Typed
    <3>2. \A q \in DOMAIN nodes : StillDue(q) => q # k
      BY <2>1, <2>2 DEF StillDue, Repeated
    <3>3. \A q \in DOMAIN nodes : StillDue(q) => StillDue(q)'
      <4> SUFFICES ASSUME NEW q \in DOMAIN nodes, StillDue(q),
                          NEW i \in 1..(rank'.next - 1)
                   PROVE  CurrentChange[i] # q
        BY <2>1 DEF StillDue
      <4>1. i \in 1..(rank.next - 1) \/ i = rank.next
        BY <1>0, <3>1 DEF RankAt
      <4>2. QED
        BY <2>1, <3>2, <4>1 DEF StillDue
    <3>4. QED
      BY <2>1, <3>1, <3>3 DEF RisksInv, Pending, RankAt
  <2>3. CASE ~(Repeated \/ k \notin DOMAIN nodes)
    <3>1. RankAt("write", rank.next, rank.attempt, Score(k))
      BY <1>5, <2>3, RankMoved DEF Typed
    <3>2. QED
      BY <2>1, <3>1 DEF RisksInv, StillDue, Pending, RankAt
  <2>4. QED
    BY <2>2, <2>3
<1>6. CASE RankWrite
  <2>0. PICK k : k = CurrentChange[rank.next]
    OBVIOUS
  <2>1. /\ UNCHANGED <<changes, ranked, risks, unranked>>
        /\ CurrentChange' = CurrentChange
        /\ rank.pc = "write" /\ SetUrgency(k, rank.score)
        /\ RankAt("publish", rank.next, rank.attempt, rank.score)
    BY <1>6, <2>0, RankMoved DEF RankWrite, CurrentChange, Typed
  <2>2. rank.score \in Nat /\ k \in DOMAIN nodes /\ ~Repeated
        /\ rank.next \in DOMAIN CurrentChange /\ ranked < Len(changes)
    <3>1. rank.score \in Nat /\ ranked < Len(changes)
      BY <2>1, RankRecordSet DEF Typed, RankTyped
    <3>2. k \in DOMAIN nodes /\ ~Repeated /\ rank.next <= Len(CurrentChange)
      BY <2>0, <2>1 DEF Typed, AtNode
    <3>3. DOMAIN CurrentChange = 1..Len(CurrentChange) /\ Len(CurrentChange) \in Nat
      BY <2>1, CurrentChangeTyped DEF Typed
    <3>4. QED
      BY <1>0, <3>1, <3>2, <3>3
  <2>3. /\ DOMAIN nodes' = DOMAIN nodes
        /\ \A z \in DOMAIN nodes : z # k => nodes'[z] = nodes[z]
        /\ nodes'[k].urgency = rank.score
    BY <2>1, <2>2, SetUrgencyEffect DEF Typed
  <2>4. StillDue(k)'
    BY <2>0, <2>1, <2>2 DEF StillDue, Repeated, RankAt
  <2>5. \A q \in DOMAIN nodes : StillDue(q) => StillDue(q)'
    BY <2>1 DEF StillDue, RankAt
  <2>6. \A q \in DOMAIN nodes : q # k => (Pending(q)' => Pending(q))
    BY <2>1, <2>3 DEF Pending
  <2>7. ASSUME unranked' = {}, NEW q \in DOMAIN nodes', Pending(q)' PROVE StillDue(q)'
    <3>1. CASE q = k
      BY <2>4, <3>1
    <3>2. CASE q # k
      <4>1. q \in DOMAIN nodes /\ Pending(q) /\ unranked = {}
        BY <2>1, <2>3, <2>6, <2>7, <3>2
      <4>2. StillDue(q)
        BY <4>1 DEF RisksInv
      <4>3. QED
        BY <2>5, <4>1, <4>2
    <3>3. QED
      BY <3>1, <3>2
  <2>8. rank'.pc = "publish" => nodes'[CurrentChange'[rank'.next]].urgency = rank'.score
    BY <2>0, <2>1, <2>3 DEF RankAt
  <2>9. QED
    BY <2>7, <2>8 DEF RisksInv
<1>7. CASE RankPublish
  <2>0. PICK k : k = CurrentChange[rank.next]
    OBVIOUS
  <2>1. /\ UNCHANGED <<changes, ranked, unranked, nodes>>
        /\ CurrentChange' = CurrentChange
        /\ rank.pc = "publish"
        /\ risks' = IF rank.score >= ReasonAt THEN risks \cup {<<k, rank.score>>} ELSE risks
        /\ RankAt("read", rank.next + 1, rank.attempt, rank.score)
    BY <1>7, <2>0, RankMoved DEF RankPublish, CurrentChange, storeVars, Announced, RiskScored, Typed
  <2>2. nodes[k].urgency = rank.score
    BY <2>0, <2>1 DEF RisksInv
  <2>3. ~Pending(k)'
    <3>1. nodes'[k].urgency = rank.score
      BY <2>1, <2>2
    <3>2. CASE rank.score >= ReasonAt
      BY <2>1, <3>1, <3>2 DEF Pending
    <3>3. CASE ~(rank.score >= ReasonAt)
      BY <3>1, <3>3 DEF Pending
    <3>4. QED
      BY <3>2, <3>3
  <2>4. \A q \in DOMAIN nodes : Pending(q)' => Pending(q)
    BY <2>1 DEF Pending
  <2>5. ASSUME NEW q \in DOMAIN nodes, q # k, StillDue(q) PROVE StillDue(q)'
    <3> SUFFICES ASSUME NEW i \in 1..(rank'.next - 1) PROVE CurrentChange[i] # q
      BY <2>1, <2>5 DEF StillDue
    <3>1. i \in 1..(rank.next - 1) \/ i = rank.next
      BY <1>0, <2>1 DEF RankAt
    <3>2. QED
      BY <2>0, <2>1, <2>5, <3>1 DEF StillDue
  <2>6. ASSUME unranked' = {}, NEW q \in DOMAIN nodes', Pending(q)' PROVE StillDue(q)'
    <3>1. q \in DOMAIN nodes /\ Pending(q) /\ q # k /\ unranked = {}
      BY <2>1, <2>3, <2>4, <2>6
    <3>2. StillDue(q)
      BY <3>1 DEF RisksInv
    <3>3. QED
      BY <2>5, <3>1, <3>2
  <2>7. rank'.pc = "read"
    BY <2>1 DEF RankAt
  <2>8. QED
    BY <2>6, <2>7 DEF RisksInv
<1>8. CASE RankCommit
  <2>1. /\ UNCHANGED <<changes, risks, unranked, nodes>>
        /\ rank.pc = "read" /\ rank.next > Len(CurrentChange)
        /\ RankAt("idle", 1, 1, 0)
    BY <1>8, RankMoved DEF RankCommit, storeVars, Typed
  <2>2. \A k \in DOMAIN nodes : ~StillDue(k)
    <3>1. DOMAIN CurrentChange = 1..Len(CurrentChange) /\ Len(CurrentChange) \in Nat
      BY <2>1, CurrentChangeTyped DEF Typed
    <3>2. DOMAIN CurrentChange \subseteq 1..(rank.next - 1)
      BY <1>0, <2>1, <3>1
    <3>3. QED
      BY <2>1, <3>2 DEF StillDue
  <2>3. unranked' = {} => \A k \in DOMAIN nodes : ~Pending(k)'
    BY <2>1, <2>2 DEF RisksInv, Pending
  <2>4. QED
    BY <2>1, <2>3 DEF RisksInv, RankAt
<1>9. CASE RankCrash
  <2>1. /\ UNCHANGED <<changes, ranked, risks, unranked, nodes>>
        /\ RankAt("idle", 1, 1, 0)
    BY <1>9, RankMoved DEF RankCrash, storeVars, Typed
  <2>2. QED
    BY <2>1 DEF RisksInv, StillDue, Pending, RankAt, CurrentChange
<1>10. CASE RankRaises
  <2>1. /\ UNCHANGED <<changes, ranked, risks, nodes>>
        /\ CurrentChange' = CurrentChange
    BY <1>10 DEF RankRaises, storeVars, CurrentChange
  <2>2. CASE RetryLeft(rank.attempt)
    <3>1. RankAt("read", 1, rank.attempt + 1, 0) /\ UNCHANGED unranked
      BY <1>10, <2>2, RankMoved DEF Typed, RankRaises
    <3>2. QED
      BY <2>1, <3>1 DEF RisksInv, StillDue, Pending, RankAt
  <2>3. CASE ~RetryLeft(rank.attempt)
    <3>1. /\ RankAt("read", Len(CurrentChange) + 1, rank.attempt, rank.score)
          /\ unranked' # {}
      BY <1>10, <2>3, RankMoved DEF Typed, RankRaises
    <3>2. QED
      BY <3>1 DEF RisksInv, RankAt
  <2>4. QED
    BY <2>2, <2>3
<1>11. QED
  BY <1>2, <1>3, <1>4, <1>5, <1>6, <1>7, <1>8, <1>9, <1>10, RankSteps

(***************************************************************************)
(* Whatever crashes, retries and evictions do, once ranking is done no     *)
(* node shows an urgency at the threshold that was not announced: the      *)
(* write of the urgency and its announcement cannot come apart for good.   *)
(***************************************************************************)
THEOREM RisksReachReasoning == Spec => []RisksAreAnnounced
<1>1. Init => RisksInv
  BY DEF Init, StoreInit, RankIdle, RisksInv
<1>2. Typed /\ Typed' /\ RisksInv /\ [Next]_vars => RisksInv'
  BY RisksStep
<1>3. Typed /\ RisksInv => RisksAreAnnounced
  <2> SUFFICES ASSUME Typed, RisksInv, Quiet, unranked = {},
                      NEW k \in DOMAIN nodes, nodes[k].urgency >= ReasonAt
               PROVE  <<k, nodes[k].urgency>> \in risks
    BY DEF RisksAreAnnounced
  <2>1. ~StillDue(k)
    BY DEF Quiet, StillDue, Typed, RankTyped
  <2>2. QED
    BY <2>1 DEF RisksInv, Pending
<1>4. QED
  BY <1>1, <1>2, <1>3, TypedCorrect, PTL DEF Spec

-----------------------------------------------------------------------------
(* Convergence. What a batch asserts is in the graph as far as its handler *)
(* has come, and stays; and the graph holds nothing else.                  *)

\* The first n - 1 nodes of batch b are in the graph.
NodesIn(b, n) ==
    \A i \in DOMAIN batches[b].nodes : i < n => batches[b].nodes[i].key \in DOMAIN nodes

EdgeIn(b, d) ==
    d.id \in DOMAIN edges /\ b \in edges[d.id].prov /\ d.conf <= edges[d.id].conf

\* So are the first n - 1 edges that can be written.
EdgesIn(b, n) ==
    \A i \in Writable(batches[b]) : i < n => EdgeIn(b, batches[b].edges[i])

AllNodesIn(b) == NodesIn(b, Len(batches[b].nodes) + 1)
AllIn(b) == AllNodesIn(b) /\ EdgesIn(b, Len(batches[b].edges) + 1)

\* What a worker has done when it is at pc, before turn n of its loop over batch b.
Done(pc, b, n) ==
    /\ pc = "nodes" => NodesIn(b, n)
    /\ pc = "edges" => AllNodesIn(b) /\ EdgesIn(b, n)
    /\ pc = "commit" => b \in dead \/ AllIn(b)

Complete ==
    /\ \A w \in Worker : Working(w) => Done(work[w].pc, work[w].batch, work[w].next)
    /\ \A b \in 1..acked : b \in dead \/ AllIn(b)

\* Batches stay, and so does what was written of them.
Kept ==
    /\ \A b \in DOMAIN batches : b \in DOMAIN batches' /\ batches'[b] = batches[b]
    /\ DOMAIN nodes \subseteq DOMAIN nodes'
    /\ \A e \in DOMAIN edges :
         /\ e \in DOMAIN edges'
         /\ edges[e].prov \subseteq edges'[e].prov
         /\ edges[e].conf \in Nat /\ edges'[e].conf \in Nat /\ edges[e].conf <= edges'[e].conf
    /\ dead \subseteq dead'

LEMMA EdgeTyped ==
    ASSUME StoreTyped, NEW e \in DOMAIN edges
    PROVE  edges[e].conf \in Nat
BY StoreAssumption DEF StoreTyped, EdgeRecord

LEMMA BatchesStay ==
    ASSUME WorkTyped, [Next]_vars
    PROVE  /\ \A b \in DOMAIN batches : b \in DOMAIN batches' /\ batches'[b] = batches[b]
           /\ dead \subseteq dead'
<1>1. ASSUME NEW b \in Batches, Extract(b)
      PROVE  \A c \in DOMAIN batches : c \in DOMAIN batches' /\ batches'[c] = batches[c]
  <2>1. batches' = Append(batches, b) /\ batches \in Seq(Batches)
    BY <1>1 DEF Extract, WorkTyped
  <2>2. QED
    BY <2>1
<1>2. (\E b \in Batches : Extract(b)) \/ UNCHANGED batches
  BY DEF Next, vars, GraphStep, RankStep, Begin, WriteNode, NodesWritten, WriteEdge, Announce,
         HandlerRaises, CommitBatch, Evict, Crash, RankBegin, RankRead, RankWrite, RankPublish,
         RankCommit, RankRaises, RankCrash, topicVars
<1>3. dead \subseteq dead'
  BY DEF Next, vars, GraphStep, RankStep, Extract, Begin, WriteNode, NodesWritten, WriteEdge,
         Announce, HandlerRaises, CommitBatch, Evict, Crash, RankBegin, RankRead, RankWrite,
         RankPublish, RankCommit, RankRaises, RankCrash, topicVars
<1>4. QED
  BY <1>1, <1>2, <1>3

LEMMA GraphGrows ==
    ASSUME Typed, [Next]_vars
    PROVE  Kept
<1> DEFINE EdgesStay == \A e \in DOMAIN edges :
         /\ e \in DOMAIN edges'
         /\ edges[e].prov \subseteq edges'[e].prov
         /\ edges[e].conf \in Nat /\ edges'[e].conf \in Nat /\ edges[e].conf <= edges'[e].conf
<1>1. edges' = edges => EdgesStay
  BY EdgeTyped DEF Typed
<1>2. ASSUME NEW w \in Worker, WriteEdge(w), work[w].next \in Writable(Current(w))
      PROVE  EdgesStay
  <2>1. PICK e : e = Current(w).edges[work[w].next]
    OBVIOUS
  <2>2. /\ StoreTyped'
        /\ DOMAIN edges' = DOMAIN edges \cup {e.id}
        /\ \A z \in DOMAIN edges : z # e.id => edges'[z] = edges[z]
        /\ e.id \in DOMAIN edges =>
             /\ edges'[e.id].prov = edges[e.id].prov \cup {work[w].batch}
             /\ edges'[e.id].conf = IF e.conf > edges[e.id].conf THEN e.conf
                                    ELSE edges[e.id].conf
    BY <1>2, <2>1, WriteEdgeEffect DEF Typed
  <2>3. \A z \in DOMAIN edges' : edges'[z].conf \in Nat
    BY <2>2, StoreAssumption DEF StoreTyped, EdgeRecord
  <2>4. \A z \in DOMAIN edges : edges[z].conf \in Nat
    BY EdgeTyped DEF Typed
  <2>5. ASSUME NEW z \in DOMAIN edges, z = e.id
        PROVE  edges[z].prov \subseteq edges'[z].prov /\ edges[z].conf <= edges'[z].conf
    <3>1. edges'[z].prov = edges[z].prov \cup {work[w].batch}
      BY <2>2, <2>5
    <3>2. edges'[z].conf = IF e.conf > edges[z].conf THEN e.conf ELSE edges[z].conf
      BY <2>2, <2>5
    <3>3. e.conf > edges[z].conf => e.conf \in Nat
      BY <2>2, <2>3, <2>5, <3>2
    <3>4. edges[z].conf <= edges'[z].conf
      BY <2>4, <3>2, <3>3
    <3>5. QED
      BY <3>1, <3>4
  <2>6. QED
    BY <2>2, <2>3, <2>4, <2>5
<1>3. ASSUME NEW w \in Worker, WriteEdge(w), work[w].next \notin Writable(Current(w))
      PROVE  EdgesStay
  BY <1>1, <1>3, WriteEdgeSkips
<1>4. ASSUME NEW w \in Worker, WriteNode(w) PROVE EdgesStay
  BY <1>1, <1>4, WriteNodeEffect DEF Typed
<1>5. RankWrite => EdgesStay
  BY <1>1 DEF RankWrite, SetUrgency
<1> HIDE DEF EdgesStay
<1>6. EdgesStay
  BY <1>1, <1>2, <1>3, <1>4, <1>5, StoreSteps
<1>7. QED
  BY <1>6, BatchesStay, StoreTypedStep DEF Kept, EdgesStay, Typed

\* What was written of a batch stays written.
LEMMA DoneStays ==
    ASSUME Typed, Kept, NEW b \in DOMAIN batches
    PROVE  /\ \A n : NodesIn(b, n) => NodesIn(b, n)'
           /\ \A n : EdgesIn(b, n) => EdgesIn(b, n)'
           /\ AllNodesIn(b) => AllNodesIn(b)'
           /\ AllIn(b) => AllIn(b)'
           /\ \A pc, n : Done(pc, b, n) => Done(pc, b, n)'
<1>1. batches'[b] = batches[b]
  BY DEF Kept
<1>2. \A n : NodesIn(b, n) => NodesIn(b, n)'
  BY <1>1 DEF NodesIn, Kept
<1>3. ASSUME NEW i \in Writable(batches[b]), EdgeIn(b, batches[b].edges[i])
      PROVE  EdgeIn(b, batches[b].edges[i])'
  <2>1. PICK d : d = batches[b].edges[i]
    OBVIOUS
  <2>2. d.id \in DOMAIN edges /\ b \in edges[d.id].prov /\ d.conf <= edges[d.id].conf
    BY <1>3, <2>1 DEF EdgeIn
  <2>3. d.conf \in Nat
    <3>1. batches[b] \in Batches
      BY DEF Typed, WorkTyped
    <3>2. QED
      BY <2>1, <3>1, WritableTyped, StoreAssumption
  <2>4. d.id \in DOMAIN edges' /\ b \in edges'[d.id].prov /\ d.conf <= edges'[d.id].conf
    BY <2>2, <2>3 DEF Kept
  <2>5. QED
    BY <1>1, <2>1, <2>4 DEF EdgeIn
<1>4. ASSUME NEW n, EdgesIn(b, n) PROVE EdgesIn(b, n)'
  <2>1. Writable(batches'[b]) = Writable(batches[b])
    BY <1>1
  <2>2. \A i \in Writable(batches[b]) : i < n => EdgeIn(b, batches[b].edges[i])'
    BY <1>3, <1>4 DEF EdgesIn
  <2>3. QED
    BY <1>1, <2>1, <2>2 DEF EdgesIn, Writable, BatchKeys
<1>5. AllNodesIn(b) => AllNodesIn(b)'
  BY <1>1, <1>2 DEF AllNodesIn
<1>6. AllIn(b) => AllIn(b)'
  BY <1>1, <1>4, <1>5 DEF AllIn
<1>7. QED
  BY <1>2, <1>4, <1>5, <1>6 DEF Done, Kept

\* Only the actions of a worker change where it is, and only its commit the offset.
LEMMA WorkerSteps ==
    ASSUME [Next]_vars
    PROVE  \/ UNCHANGED <<work, acked>>
           \/ \E w \in Worker :
                \/ Begin(w) \/ WriteNode(w) \/ NodesWritten(w) \/ WriteEdge(w) \/ Announce(w)
                \/ HandlerRaises(w) \/ CommitBatch(w) \/ Crash(w)
BY DEF Next, vars, GraphStep, RankStep, Extract, Evict, RankBegin, RankRead, RankWrite, RankPublish,
       RankCommit, RankRaises, RankCrash, topicVars

\* If the worker that moves has done what it then claims, so has everybody.
LEMMA OthersKeep ==
    ASSUME Typed, Kept, Complete, NEW w \in Worker,
           \A v \in Worker : v # w => work'[v] = work[v],
           (Working(w) => Done(work[w].pc, work[w].batch, work[w].next))',
           \/ acked' = acked
           \/ /\ acked' = acked + 1 /\ acked' = work[w].batch
              /\ work[w].batch \in DOMAIN batches
              /\ work[w].batch \in dead \/ AllIn(work[w].batch)
    PROVE  Complete'
<1>0. acked \in Nat /\ Len(batches) \in Nat /\ acked <= Len(batches)
      /\ DOMAIN batches = 1..Len(batches)
  BY DEF Typed, WorkTyped
<1>1. ASSUME NEW v \in Worker, v # w, Working(v)'
      PROVE  Done(work[v].pc, work[v].batch, work[v].next)'
  <2>1. PICK pc, b, n : pc = work[v].pc /\ b = work[v].batch /\ n = work[v].next
    OBVIOUS
  <2>2. Working(v)
    BY <1>1 DEF Working
  <2>3. b \in DOMAIN batches /\ Done(pc, b, n)
    BY <2>1, <2>2 DEF Typed, OwnerInStep, Complete
  <2>4. Done(pc, b, n)'
    BY <2>3, DoneStays
  <2>5. work'[v].pc = pc /\ work'[v].batch = b /\ work'[v].next = n
    BY <1>1, <2>1
  <2>6. QED
    BY <2>4, <2>5
<1>2. ASSUME NEW b \in DOMAIN batches, b \in dead \/ AllIn(b)
      PROVE  b \in dead' \/ AllIn(b)'
  BY <1>2, DoneStays DEF Kept
<1>3. ASSUME NEW b \in 1..acked' PROVE b \in dead' \/ AllIn(b)'
  <2>1. CASE b \in 1..acked
    <3>1. b \in DOMAIN batches /\ (b \in dead \/ AllIn(b))
      BY <1>0, <2>1 DEF Complete
    <3>2. QED
      BY <1>2, <3>1
  <2>2. CASE b \notin 1..acked
    <3>1. acked' # acked
      BY <2>2
    <3>2. b = work[w].batch
      BY <1>0, <2>2, <3>1
    <3>3. b \in DOMAIN batches /\ (b \in dead \/ AllIn(b))
      BY <3>1, <3>2
    <3>4. QED
      BY <1>2, <3>3
  <2>3. QED
    BY <2>1, <2>2
<1>4. QED
  BY <1>1, <1>3 DEF Complete

LEMMA CompleteStep ==
    ASSUME Typed, Complete, [Next]_vars
    PROVE  Complete'
<1>0. Kept /\ WorkTyped /\ OwnerInStep /\ acked \in Nat
  BY GraphGrows DEF Typed, WorkTyped
<1>1. CASE UNCHANGED <<work, acked>>
  <2>1. ASSUME NEW w \in Worker, Working(w)'
        PROVE  Done(work[w].pc, work[w].batch, work[w].next)'
    <3>1. PICK pc, b, n : pc = work[w].pc /\ b = work[w].batch /\ n = work[w].next
      OBVIOUS
    <3>2. b \in DOMAIN batches /\ Done(pc, b, n)
      BY <1>1, <2>1, <3>1 DEF Typed, OwnerInStep, Complete, Working
    <3>3. Done(pc, b, n)'
      BY <1>0, <3>2, DoneStays
    <3>4. QED
      BY <1>1, <3>1, <3>3
  <2>2. ASSUME NEW b \in 1..acked' PROVE b \in dead' \/ AllIn(b)'
    <3>1. b \in DOMAIN batches /\ (b \in dead \/ AllIn(b))
      BY <1>1, <2>2 DEF Typed, WorkTyped, Complete
    <3>2. QED
      BY <1>0, <3>1, DoneStays DEF Kept
  <2>3. QED
    BY <2>1, <2>2 DEF Complete
<1>2. ASSUME NEW w \in Worker, Begin(w) PROVE Complete'
  <2>1. /\ acked' = acked /\ acked < Len(batches)
        /\ work' = [work EXCEPT ![w] = [Idle EXCEPT !.pc = "nodes", !.batch = acked + 1]]
    BY <1>2 DEF Begin, topicVars
  <2>2. \A v \in Worker : v # w => work'[v] = work[v]
    BY <2>1
  <2>3. work'[w].pc = "nodes" /\ work'[w].next = 1 /\ work'[w].batch = acked + 1
    <3>1. acked + 1 \in 0..Len(batches)
      BY <1>0, <2>1 DEF WorkTyped
    <3>2. work'[w] = [Idle EXCEPT !.pc = "nodes", !.batch = acked + 1]
      BY <1>0, <2>1 DEF WorkTyped
    <3>3. QED
      BY <1>0, <3>1, <3>2, ResetTyped
  <2>4. NodesIn(acked + 1, 1)'
    <3>1. batches' = batches /\ batches[acked + 1] \in Batches
      BY <1>0, <1>2, <2>1 DEF Begin, topicVars, WorkTyped
    <3>2. DOMAIN batches[acked + 1].nodes \subseteq Nat \ {0}
      BY <3>1, BatchTyped
    <3>3. QED
      BY <2>1, <3>1, <3>2 DEF NodesIn
  <2>5. (Working(w) => Done(work[w].pc, work[w].batch, work[w].next))'
    BY <2>1, <2>3, <2>4 DEF Done
  <2>6. QED
    BY <1>0, <2>1, <2>2, <2>5, OthersKeep
<1>3. ASSUME NEW w \in Worker,
             WriteNode(w) \/ WriteEdge(w) \/ NodesWritten(w) \/ Announce(w) \/ HandlerRaises(w)
      PROVE  Complete'
  <2>1. /\ UNCHANGED <<batches, acked>> /\ Working(w)
        /\ \A v \in Worker : v # w => work'[v] = work[v]
    <3>1. UNCHANGED <<batches, acked>> /\ Working(w)
      BY <1>3 DEF WriteNode, WriteEdge, NodesWritten, Announce, HandlerRaises, topicVars, Working
    <3>2. \A v \in Worker : v # w => work'[v] = work[v]
      BY <1>0, <1>3, WorkMoved DEF MovedTo
    <3>3. QED
      BY <3>1, <3>2
  <2>2. PICK b, n : b = work[w].batch /\ n = work[w].next
    OBVIOUS
  <2>3. /\ b \in DOMAIN batches /\ batches[b] \in Batches /\ Current(w) = batches[b]
        /\ n \in Nat \ {0} /\ Done(work[w].pc, b, n)
    <3>1. b \in DOMAIN batches /\ batches[b] \in Batches /\ Current(w) = batches[b]
      BY <1>0, <2>1, <2>2, CurrentTyped DEF Current
    <3>2. n \in Nat \ {0}
      BY <1>0, <2>2, WorkRecordSet DEF WorkTyped
    <3>3. QED
      BY <2>1, <2>2, <3>1, <3>2 DEF Complete
  <2>4. /\ DOMAIN batches[b].nodes = 1..Len(batches[b].nodes) /\ Len(batches[b].nodes) \in Nat
        /\ DOMAIN batches[b].edges = 1..Len(batches[b].edges) /\ Len(batches[b].edges) \in Nat
        /\ Writable(batches[b]) \subseteq DOMAIN batches[b].edges
    <3>1. PICK c \in Batches : c = batches[b]
      BY <2>3
    <3>2. /\ DOMAIN c.nodes = 1..Len(c.nodes) /\ Len(c.nodes) \in Nat
          /\ DOMAIN c.edges = 1..Len(c.edges) /\ Len(c.edges) \in Nat
      BY BatchTyped
    <3>3. QED
      BY <3>1, <3>2 DEF Writable
  <2>5. work'[w].batch = b
    BY <1>0, <1>3, <2>2, WorkMoved DEF MovedTo
  <2>6. CASE WriteNode(w)
    <3>1. work[w].pc = "nodes" /\ work'[w].pc = "nodes" /\ work'[w].next = n + 1
      BY <1>0, <2>2, <2>6, WorkMoved DEF MovedTo, WriteNode
    <3>2. NodesIn(b, n)'
      BY <1>0, <2>3, <3>1, DoneStays DEF Done
    <3>3. batches[b].nodes[n].key \in DOMAIN nodes'
      BY <1>0, <2>2, <2>3, <2>6, WriteNodeEffect DEF Typed
    <3>4. NodesIn(b, n + 1)'
      BY <2>1, <2>3, <2>4, <3>2, <3>3 DEF NodesIn
    <3>5. (Working(w) => Done(work[w].pc, work[w].batch, work[w].next))'
      BY <2>5, <3>1, <3>4 DEF Done
    <3>6. QED
      BY <1>0, <2>1, <3>5, OthersKeep
  <2>7. CASE WriteEdge(w)
    <3>1. work[w].pc = "edges" /\ work'[w].pc = "edges" /\ work'[w].next = n + 1
      BY <1>0, <2>2, <2>7, WorkMoved DEF MovedTo, WriteEdge
    <3>2. AllNodesIn(b)' /\ EdgesIn(b, n)'
      BY <1>0, <2>3, <3>1, DoneStays DEF Done
    <3>3. n \in Writable(batches[b]) => EdgeIn(b, batches[b].edges[n])'
      <4> SUFFICES ASSUME n \in Writable(batches[b]) PROVE EdgeIn(b, batches[b].edges[n])'
        OBVIOUS
      <4>1. PICK e : e = batches[b].edges[n]
        OBVIOUS
      <4>2. /\ DOMAIN edges' = DOMAIN edges \cup {e.id}
            /\ e.id \in DOMAIN edges =>
                 /\ edges'[e.id].prov = edges[e.id].prov \cup {b}
                 /\ edges'[e.id].conf = IF e.conf > edges[e.id].conf THEN e.conf
                                        ELSE edges[e.id].conf
            /\ e.id \notin DOMAIN edges => edges'[e.id].prov = {b} /\ edges'[e.id].conf = e.conf
        BY <1>0, <2>2, <2>3, <2>7, <4>1, WriteEdgeEffect DEF Typed
      <4>3. e.conf \in Nat
        BY <2>3, <4>1, WritableTyped, StoreAssumption
      <4>4. e.id \in DOMAIN edges => edges[e.id].conf \in Nat
        BY EdgeTyped DEF Typed
      <4>5. e.id \in DOMAIN edges' /\ b \in edges'[e.id].prov /\ e.conf <= edges'[e.id].conf
        BY <4>2, <4>3, <4>4
      <4>6. QED
        BY <2>1, <4>1, <4>5 DEF EdgeIn
    <3>4. EdgesIn(b, n + 1)'
      <4>1. ASSUME NEW i \in Writable(batches[b]), i < n + 1
            PROVE  EdgeIn(b, batches[b].edges[i])'
        <5>1. CASE i = n
          BY <3>3, <4>1, <5>1
        <5>2. CASE i # n
          <6>1. i < n
            BY <2>3, <2>4, <4>1, <5>2
          <6>2. QED
            BY <2>1, <3>2, <4>1, <6>1 DEF EdgesIn, Writable, BatchKeys
        <5>3. QED
          BY <5>1, <5>2
      <4>2. QED
        BY <2>1, <4>1 DEF EdgesIn, Writable, BatchKeys
    <3>5. (Working(w) => Done(work[w].pc, work[w].batch, work[w].next))'
      BY <2>5, <3>1, <3>2, <3>4 DEF Done
    <3>6. QED
      BY <1>0, <2>1, <3>5, OthersKeep
  <2>8. CASE NodesWritten(w)
    <3>1. /\ work[w].pc = "nodes" /\ work'[w].pc = "edges" /\ work'[w].next = 1
          /\ n > Len(batches[b].nodes)
      BY <1>0, <2>2, <2>3, <2>8, WorkMoved DEF MovedTo, NodesWritten
    <3>2. NodesIn(b, n)'
      BY <1>0, <2>3, <3>1, DoneStays DEF Done
    <3>3. AllNodesIn(b)'
      BY <2>1, <2>3, <2>4, <3>1, <3>2 DEF AllNodesIn, NodesIn
    <3>4. EdgesIn(b, 1)'
      <4>1. batches'[b] = batches[b] /\ \A i \in Writable(batches[b]) : ~(i < 1)
        BY <2>1, <2>3, <2>4
      <4>2. Writable(batches[b])' = Writable(batches'[b])
        BY DEF Writable, BatchKeys
      <4>3. QED
        BY <4>1, <4>2 DEF EdgesIn
    <3>5. (Working(w) => Done(work[w].pc, work[w].batch, work[w].next))'
      BY <2>5, <3>1, <3>3, <3>4 DEF Done
    <3>6. QED
      BY <1>0, <2>1, <3>5, OthersKeep
  <2>9. CASE Announce(w)
    <3>1. /\ work[w].pc = "edges" /\ work'[w].pc = "commit"
          /\ n > Len(batches[b].edges)
      BY <1>0, <2>2, <2>3, <2>9, WorkMoved DEF MovedTo, Announce
    <3>2. AllNodesIn(b) /\ EdgesIn(b, n)
      BY <2>3, <3>1 DEF Done
    <3>3. EdgesIn(b, Len(batches[b].edges) + 1)
      BY <2>3, <2>4, <3>1, <3>2 DEF EdgesIn
    <3>4. AllIn(b)'
      BY <1>0, <2>3, <3>2, <3>3, DoneStays DEF AllIn
    <3>5. (Working(w) => Done(work[w].pc, work[w].batch, work[w].next))'
      BY <2>5, <3>1, <3>4 DEF Done
    <3>6. QED
      BY <1>0, <2>1, <3>5, OthersKeep
  <2>10. CASE HandlerRaises(w) /\ RetryLeft(work[w].attempt)
    <3>1. work'[w].pc = "nodes" /\ work'[w].next = 1
      BY <1>0, <2>10, WorkMoved DEF MovedTo
    <3>2. NodesIn(b, 1)'
      BY <2>1, <2>4 DEF NodesIn
    <3>3. (Working(w) => Done(work[w].pc, work[w].batch, work[w].next))'
      BY <2>5, <3>1, <3>2 DEF Done
    <3>4. QED
      BY <1>0, <2>1, <3>3, OthersKeep
  <2>11. CASE HandlerRaises(w) /\ ~RetryLeft(work[w].attempt)
    <3>1. work'[w].pc = "commit" /\ b \in dead'
      BY <1>0, <2>2, <2>11, WorkMoved DEF MovedTo, HandlerRaises
    <3>2. (Working(w) => Done(work[w].pc, work[w].batch, work[w].next))'
      BY <2>5, <3>1 DEF Done
    <3>3. QED
      BY <1>0, <2>1, <3>2, OthersKeep
  <2>12. QED
    BY <1>3, <2>6, <2>7, <2>8, <2>9, <2>10, <2>11
<1>4. ASSUME NEW w \in Worker, CommitBatch(w) PROVE Complete'
  <2>1. work[w].pc = "commit" /\ Working(w) /\ \A v \in Worker : v # w => work'[v] = work[v]
    <3>1. work[w].pc = "commit" /\ Working(w)
      BY <1>4 DEF CommitBatch, Working
    <3>2. \E r : work' = [work EXCEPT ![w] = r]
      BY <1>4 DEF CommitBatch
    <3>3. QED
      BY <3>1, <3>2
  <2>2. ~Working(w)'
    BY <1>0, <1>4, ResetTyped DEF CommitBatch, Working, WorkTyped
  <2>3. /\ work[w].batch \in DOMAIN batches
        /\ work[w].batch \in dead \/ AllIn(work[w].batch)
    BY <1>0, <2>1 DEF Complete, Done, OwnerInStep
  <2>4. acked' = acked \/ (acked' = work[w].batch /\ acked' = acked + 1)
    BY <1>0, <1>4, <2>1 DEF CommitBatch, OwnerInStep
  <2>5. QED
    BY <1>0, <2>1, <2>2, <2>3, <2>4, OthersKeep
<1>5. ASSUME NEW w \in Worker, Crash(w) PROVE Complete'
  <2>1. acked' = acked /\ ~Working(w)' /\ \A v \in Worker : v # w => work'[v] = work[v]
    BY <1>0, <1>5, ResetTyped DEF Crash, Working, WorkTyped, topicVars
  <2>2. QED
    BY <1>0, <2>1, OthersKeep
<1>6. QED
  BY <1>1, <1>2, <1>3, <1>4, <1>5, WorkerSteps

\* What the batches that arrived say of the nodes, the edges and their confidence.
NodeSaid(k) == \E b \in DOMAIN batches : k \in BatchKeys(batches[b])
EdgeSaid(e, b) == b \in DOMAIN batches /\ \E d \in EdgesOf(batches[b]) : d.id = e
ConfSaid(e, c) == \E b \in DOMAIN batches : \E d \in EdgesOf(batches[b]) : d.id = e /\ d.conf = c

\* The graph holds nothing that no batch said.
Sound ==
    /\ \A k \in DOMAIN nodes : NodeSaid(k)
    /\ \A e \in DOMAIN edges : \A b \in edges[e].prov : EdgeSaid(e, b)
    /\ \A e \in DOMAIN edges : edges[e].prov # {} /\ ConfSaid(e, edges[e].conf)

LEMMA SaidStays ==
    ASSUME Kept
    PROVE  /\ \A k : NodeSaid(k) => NodeSaid(k)'
           /\ \A e, b : EdgeSaid(e, b) => EdgeSaid(e, b)'
           /\ \A e, c : ConfSaid(e, c) => ConfSaid(e, c)'
<1>1. \A b \in DOMAIN batches : /\ b \in DOMAIN batches'
                                /\ BatchKeys(batches'[b]) = BatchKeys(batches[b])
                                /\ EdgesOf(batches'[b]) = EdgesOf(batches[b])
  BY DEF Kept
<1>2. QED
  BY <1>1 DEF NodeSaid, EdgeSaid, ConfSaid, BatchKeys, EdgesOf, Writable

LEMMA SoundStep ==
    ASSUME Typed, Sound, [Next]_vars
    PROVE  Sound'
<1>0. Kept /\ WorkTyped /\ OwnerInStep /\ StoreTyped
  BY GraphGrows DEF Typed
<1>1. CASE UNCHANGED <<nodes, edges>>
  BY <1>0, <1>1, SaidStays DEF Sound
<1>2. ASSUME NEW w \in Worker, WriteNode(w) PROVE Sound'
  <2>1. PICK n : n = Current(w).nodes[work[w].next]
    OBVIOUS
  <2>2. DOMAIN nodes' = DOMAIN nodes \cup {n.key} /\ edges' = edges
    BY <1>0, <1>2, <2>1, WriteNodeEffect
  <2>3. NodeSaid(n.key)'
    <3>1. Working(w) /\ work[w].batch \in DOMAIN batches
      BY <1>0, <1>2 DEF WriteNode, Working, OwnerInStep
    <3>2. work[w].next \in DOMAIN Current(w).nodes
      BY <1>0, <1>2, WriteNodeEffect
    <3>3. NodeSaid(n.key)
      BY <2>1, <3>1, <3>2 DEF NodeSaid, BatchKeys, Current
    <3>4. QED
      BY <1>0, <3>3, SaidStays
  <2>4. QED
    BY <1>0, <2>2, <2>3, SaidStays DEF Sound
<1>3. ASSUME NEW w \in Worker, WriteEdge(w), work[w].next \in Writable(Current(w)) PROVE Sound'
  <2>1. PICK e, b : e = Current(w).edges[work[w].next] /\ b = work[w].batch
    OBVIOUS
  <2>2. /\ DOMAIN edges' = DOMAIN edges \cup {e.id}
        /\ \A z \in DOMAIN edges : z # e.id => edges'[z] = edges[z]
        /\ e.id \in DOMAIN edges =>
             /\ edges'[e.id].prov = edges[e.id].prov \cup {b}
             /\ edges'[e.id].conf = IF e.conf > edges[e.id].conf THEN e.conf
                                    ELSE edges[e.id].conf
        /\ e.id \notin DOMAIN edges => edges'[e.id].prov = {b} /\ edges'[e.id].conf = e.conf
        /\ nodes' = nodes
    BY <1>0, <1>3, <2>1, WriteEdgeEffect
  <2>3. EdgeSaid(e.id, b)' /\ ConfSaid(e.id, e.conf)'
    <3>1. Working(w) /\ b \in DOMAIN batches
      BY <1>0, <1>3, <2>1 DEF WriteEdge, Working, OwnerInStep
    <3>2. e \in EdgesOf(batches[b])
      BY <1>3, <2>1 DEF EdgesOf, Current
    <3>3. EdgeSaid(e.id, b) /\ ConfSaid(e.id, e.conf)
      BY <3>1, <3>2 DEF EdgeSaid, ConfSaid
    <3>4. QED
      BY <1>0, <3>3, SaidStays
  <2>4. ASSUME NEW z \in DOMAIN edges'
        PROVE  /\ \A c \in edges'[z].prov : EdgeSaid(z, c)'
               /\ edges'[z].prov # {} /\ ConfSaid(z, edges[z].conf)'
    <3>1. CASE z # e.id
      <4>1. z \in DOMAIN edges /\ edges'[z] = edges[z]
        BY <2>2, <3>1
      <4>2. PICK c : c = edges[z].conf
        OBVIOUS
      <4>3. (\A q \in edges[z].prov : EdgeSaid(z, q)) /\ edges[z].prov # {} /\ ConfSaid(z, c)
        BY <4>1, <4>2 DEF Sound
      <4>4. (\A q \in edges[z].prov : EdgeSaid(z, q)') /\ ConfSaid(z, c)'
        BY <1>0, <4>3, SaidStays
      <4>5. QED
        BY <4>1, <4>2, <4>3, <4>4
    <3>2. CASE z = e.id /\ z \in DOMAIN edges
      <4>1. PICK c : c = edges[z].conf
        OBVIOUS
      <4>2. (\A q \in edges[z].prov : EdgeSaid(z, q)) /\ ConfSaid(z, c)
        BY <3>2, <4>1 DEF Sound
      <4>3. (\A q \in edges[z].prov : EdgeSaid(z, q)') /\ ConfSaid(z, c)'
        BY <1>0, <4>2, SaidStays
      <4>4. edges'[z].conf \in {e.conf, c} /\ edges'[z].prov = edges[z].prov \cup {b}
        BY <2>2, <3>2, <4>1
      <4>5. QED
        BY <2>3, <3>2, <4>3, <4>4
    <3>3. CASE z = e.id /\ z \notin DOMAIN edges
      BY <2>2, <2>3, <3>3
    <3>4. QED
      BY <3>1, <3>2, <3>3
  <2>5. \A k \in DOMAIN nodes' : NodeSaid(k)'
    BY <1>0, <2>2, SaidStays DEF Sound
  <2>6. QED
    BY <2>4, <2>5 DEF Sound
<1>4. CASE RankWrite
  <2>1. edges' = edges /\ DOMAIN nodes' = DOMAIN nodes
    BY <1>4 DEF RankWrite, SetUrgency
  <2>2. QED
    BY <1>0, <2>1, SaidStays DEF Sound
<1>5. QED
  BY <1>1, <1>2, <1>3, <1>4, StoreSteps, WriteEdgeSkips

LEMMA ConvergingCorrect == Spec => [](Typed /\ Complete /\ Sound)
<1>1. Init => Complete /\ Sound
  <2> SUFFICES ASSUME Init PROVE Complete /\ Sound
    OBVIOUS
  <2>1. \A w \in Worker : ~Working(w)
    BY DEF Init, Idle, Working
  <2>2. acked = 0 /\ DOMAIN nodes = {} /\ DOMAIN edges = {}
    BY DEF Init, StoreInit
  <2>3. QED
    BY <2>1, <2>2 DEF Complete, Sound
<1>2. Typed /\ Complete /\ Sound /\ [Next]_vars => (Complete /\ Sound)'
  BY CompleteStep, SoundStep
<1>3. QED
  BY <1>1, <1>2, TypedCorrect, PTL DEF Spec

(***************************************************************************)
(* Once every batch is handled and none was dead-lettered, the graph is    *)
(* what the batches assert: no node, edge or provenance is missing,        *)
(* invented or duplicated, and each edge has the best confidence it was    *)
(* asserted with, through any retries, crashes, evictions and late writes. *)
(***************************************************************************)
THEOREM GraphConverges == Spec => []Converges
<1>1. ASSUME Typed, Complete, Sound, GraphQuiet, dead = {}
      PROVE  /\ DOMAIN nodes = AssertedNodes
             /\ DOMAIN edges = {e.id : e \in AssertedEdges}
             /\ \A e \in DOMAIN edges :
                  /\ edges[e].prov = Asserting(e)
                  /\ edges[e].conf \in {d.conf : d \in {a \in AssertedEdges : a.id = e}}
                  /\ \A d \in AssertedEdges : d.id = e => d.conf <= edges[e].conf
  <2>1. Written = DOMAIN batches /\ \A b \in DOMAIN batches : batches[b] \in Batches
    BY <1>1 DEF Written, GraphQuiet, Typed, WorkTyped
  <2>2. ASSUME NEW b \in DOMAIN batches
        PROVE  /\ \A k \in BatchKeys(batches[b]) : k \in DOMAIN nodes
               /\ \A d \in EdgesOf(batches[b]) : EdgeIn(b, d)
    <3>1. AllIn(b)
      BY <1>1, <2>1, <2>2 DEF Complete, Written
    <3>2. PICK c \in Batches : c = batches[b]
      BY <2>1
    <3>3. /\ \A i \in DOMAIN c.nodes : i < Len(c.nodes) + 1
          /\ \A i \in DOMAIN c.edges : i < Len(c.edges) + 1
      BY BatchTyped
    <3>4. QED
      BY <3>1, <3>2, <3>3 DEF AllIn, AllNodesIn, NodesIn, EdgesIn, BatchKeys, EdgesOf, Writable
  <2>3. DOMAIN nodes = AssertedNodes
    BY <1>1, <2>1, <2>2 DEF Sound, NodeSaid, AssertedNodes
  <2>4. \A d \in AssertedEdges : \E b \in DOMAIN batches : d \in EdgesOf(batches[b]) /\ EdgeIn(b, d)
    BY <2>1, <2>2 DEF AssertedEdges
  <2>5. ASSUME NEW e \in DOMAIN edges
        PROVE  /\ \E a \in AssertedEdges : a.id = e /\ a.conf = edges[e].conf
               /\ edges[e].prov = Asserting(e)
    <3>1. \E a \in AssertedEdges : a.id = e /\ a.conf = edges[e].conf
      BY <1>1, <2>1 DEF Sound, ConfSaid, AssertedEdges
    <3>2. \A b \in edges[e].prov : b \in Asserting(e)
      BY <1>1, <2>1 DEF Sound, EdgeSaid, Asserting
    <3>3. \A b \in Asserting(e) : b \in edges[e].prov
      BY <2>1, <2>2 DEF Asserting, EdgeIn
    <3>4. QED
      BY <3>1, <3>2, <3>3
  <2>6. DOMAIN edges = {e.id : e \in AssertedEdges}
    BY <2>4, <2>5 DEF EdgeIn
  <2>7. \A e \in DOMAIN edges : \A d \in AssertedEdges : d.id = e => d.conf <= edges[e].conf
    BY <2>4 DEF EdgeIn
  <2>8. QED
    BY <2>3, <2>5, <2>6, <2>7
<1>2. Typed /\ Complete /\ Sound => Converges
  BY <1>1 DEF Converges
<1>3. QED
  BY <1>2, ConvergingCorrect, PTL

-----------------------------------------------------------------------------
(* Ranking catches up. A node written since ranking last read it is in the *)
(* batch being written or in a change that ranking has yet to come to.     *)

\* Nothing was dead-lettered and no worker was evicted.
Intact == dead \cup unranked = {} /\ ~Evicted

\* Only the owner of the partition is doing anything.
Alone == \A w \in Worker : w # owner => work[w].pc = "idle"

BeingWritten(k) ==
    /\ work[owner].pc # "commit" /\ acked < Len(batches)
    /\ k \in BatchKeys(batches[acked + 1])

\* Ranking has not come to k in the change it is at, or has begun none.
Unread(k) ==
    rank.pc # "idle" =>
        /\ \A i \in 1..(rank.next - 1) : CurrentChange[i] # k
        /\ rank.pc \in {"write", "publish"} => CurrentChange[rank.next] # k

ToRank(k) ==
    \E c \in (ranked + 1)..Len(changes) :
        /\ \E j \in DOMAIN changes[c] : changes[c][j] = k
        /\ c = ranked + 1 => Unread(k)

DirtyPresent == dirty \subseteq DOMAIN nodes
WithinBudget == budget.evict <= MaxEvictions

RankedInv == Intact => Alone /\ \A k \in dirty : BeingWritten(k) \/ ToRank(k)

\* A fault is never undone, and an eviction is one.
LEMMA FaultsStay ==
    ASSUME Typed, WithinBudget, [Next]_vars
    PROVE  /\ WithinBudget'
           /\ Evicted => Evicted'
           /\ Intact' => Intact
           /\ \A w \in Worker : Evict(w) => Evicted'
<1>1. MaxEvictions \in Nat /\ budget \in [{"fault", "evict"} -> Nat]
  BY PipelineAssumption DEF Typed, WorkTyped
<1>2. ASSUME NEW w \in Worker, Evict(w) PROVE budget'["evict"] < budget["evict"] /\ budget'["evict"] \in Nat
  BY <1>1, <1>2, SpendTyped DEF Evict
<1>3. Spend("fault") => budget'["evict"] = budget["evict"]
  BY <1>1, SpendTyped
<1>4. UNCHANGED budget \/ Spend("fault") \/ \E w \in Worker : Evict(w)
  BY DEF Next, vars, GraphStep, RankStep, Extract, Begin, WriteNode, NodesWritten, WriteEdge,
         Announce, HandlerRaises, CommitBatch, Crash, RankBegin, RankRead, RankWrite,
         RankPublish, RankCommit, RankRaises, RankCrash
<1>5. budget'["evict"] <= budget["evict"]
  BY <1>1, <1>2, <1>3, <1>4
<1>6. dead \subseteq dead'
  BY BatchesStay DEF Typed
<1>7. unranked \subseteq unranked'
  BY DEF Next, vars, GraphStep, RankStep, Extract, Begin, WriteNode, NodesWritten, WriteEdge,
         Announce, HandlerRaises, CommitBatch, Crash, Evict, RankBegin, RankRead, RankWrite,
         RankPublish, RankCommit, RankRaises, RankCrash, rankVars
<1>8. budget'["evict"] \in Nat
  BY <1>1, <1>2, <1>3, <1>4
<1>9. WithinBudget' /\ (Evicted => Evicted')
  BY <1>1, <1>5, <1>8 DEF WithinBudget, Evicted
<1>10. \A w \in Worker : Evict(w) => Evicted'
  BY <1>1, <1>2 DEF WithinBudget, Evicted
<1>11. QED
  BY <1>6, <1>7, <1>9, <1>10 DEF Intact

\* The actions of a worker that change where it is.
Moving(w) ==
    \/ Begin(w) \/ WriteNode(w) \/ NodesWritten(w) \/ WriteEdge(w) \/ Announce(w)
    \/ HandlerRaises(w) \/ CommitBatch(w) \/ Crash(w)

LEMMA OwnerMoves ==
    ASSUME Typed, Alone, NEW w \in Worker, Moving(w)
    PROVE  w = owner /\ \A v \in Worker : v # w => work'[v] = work[v]
<1>1. w = owner
  BY DEF Moving, Begin, WriteNode, NodesWritten, WriteEdge, Announce, HandlerRaises, CommitBatch,
         Crash, Alone
<1>2. work \in [Worker -> WorkRecord(Len(batches))]
  BY DEF Typed, WorkTyped
<1>3. CASE Begin(w) \/ CommitBatch(w) \/ Crash(w)
  <2>1. \E r : work' = [work EXCEPT ![w] = r]
    BY <1>3 DEF Begin, CommitBatch, Crash
  <2>2. QED
    BY <1>1, <2>1
<1>4. CASE ~(Begin(w) \/ CommitBatch(w) \/ Crash(w))
  BY <1>1, <1>4, WorkMoved DEF MovedTo, Typed, Moving
<1>5. QED
  BY <1>3, <1>4

LEMMA OwnerStays ==
    ASSUME Typed, WithinBudget, [Next]_vars, ~Evicted'
    PROVE  owner' = owner
<1>1. UNCHANGED owner \/ \E w \in Worker : Evict(w)
  BY DEF Next, vars, GraphStep, RankStep, Extract, Begin, WriteNode, NodesWritten, WriteEdge,
         Announce, HandlerRaises, CommitBatch, Crash, RankBegin, RankRead, RankWrite,
         RankPublish, RankCommit, RankRaises, RankCrash, topicVars
<1>2. QED
  BY <1>1, FaultsStay

LEMMA AloneStep ==
    ASSUME Typed, WithinBudget, Alone, [Next]_vars, ~Evicted'
    PROVE  Alone'
BY OwnerStays, OwnerMoves, WorkerSteps DEF Alone, Moving

LEMMA DirtyPresentStep ==
    ASSUME Typed, Complete, DirtyPresent, [Next]_vars
    PROVE  DirtyPresent'
<1>0. DOMAIN nodes \subseteq DOMAIN nodes' /\ WorkTyped /\ OwnerInStep /\ StoreTyped
  BY GraphGrows DEF Kept, Typed
<1>1. ASSUME NEW w \in Worker, WriteNode(w) PROVE DirtyPresent'
  BY <1>0, <1>1, WriteNodeEffect DEF DirtyPresent
<1>2. ASSUME NEW w \in Worker, WriteEdge(w), work[w].next \in Writable(Current(w))
      PROVE  DirtyPresent'
  <2>1. PICK e : e = Current(w).edges[work[w].next]
    OBVIOUS
  <2>2. /\ dirty' = dirty \cup {e.id[2], e.id[3]}
        /\ {e.id[2], e.id[3]} \subseteq BatchKeys(Current(w))
    BY <1>0, <1>2, <2>1, WriteEdgeEffect
  <2>3. AllNodesIn(work[w].batch) /\ Current(w) \in Batches
    BY <1>0, <1>2, CurrentTyped DEF WriteEdge, Working, Complete, Done
  <2>4. \A i \in DOMAIN Current(w).nodes : i < Len(Current(w).nodes) + 1
    <3>1. PICK c \in Batches : c = Current(w)
      BY <2>3
    <3>2. QED
      BY <3>1, BatchTyped
  <2>5. BatchKeys(Current(w)) \subseteq DOMAIN nodes
    BY <2>3, <2>4 DEF AllNodesIn, NodesIn, BatchKeys, Current
  <2>6. QED
    BY <1>0, <2>2, <2>5 DEF DirtyPresent
<1>3. QED
  BY <1>0, <1>1, <1>2, StoreSteps, WriteEdgeSkips DEF DirtyPresent

\* What the owner is writing stays in its hands until it announces it.
LEMMA BeingWrittenStep ==
    ASSUME Typed, Typed', WithinBudget, Alone, [Next]_vars, Intact', NEW k, BeingWritten(k)
    PROVE  \/ BeingWritten(k)'
           \/ Announce(owner) /\ k \in BatchKeys(Current(owner))
<1>0. /\ ~Evicted' /\ dead' = {} /\ owner' = owner /\ owner \in Worker
      /\ WorkTyped /\ OwnerInStep /\ WorkTyped' /\ acked \in Nat /\ Len(batches) \in Nat
      /\ acked + 1 \in DOMAIN batches
  BY OwnerStays DEF Intact, Typed, WorkTyped, BeingWritten
<1>1. /\ batches'[acked + 1] = batches[acked + 1]
      /\ acked + 1 \in DOMAIN batches' /\ acked < Len(batches')
  <2>1. acked + 1 \in DOMAIN batches' /\ batches'[acked + 1] = batches[acked + 1]
    BY <1>0, BatchesStay
  <2>2. QED
    BY <1>0, <2>1 DEF WorkTyped
<1>2. ASSUME acked' = acked, work'[owner].pc # "commit" PROVE BeingWritten(k)'
  BY <1>0, <1>1, <1>2 DEF BeingWritten, BatchKeys
<1>3. CASE UNCHANGED <<work, acked>>
  BY <1>2, <1>3 DEF BeingWritten
<1>4. CASE Begin(owner) \/ Crash(owner)
  <2>1. acked' = acked
    BY <1>4 DEF Begin, Crash, topicVars
  <2>2. PICK r : work' = [work EXCEPT ![owner] = r] /\ r.pc \in {"nodes", "idle"}
    <3>1. acked + 1 \in 0..Len(batches)
      BY <1>0 DEF WorkTyped
    <3>2. QED
      BY <1>0, <1>4, <3>1, ResetTyped DEF Begin, Crash
  <2>3. work'[owner] = r
    BY <1>0, <2>2 DEF WorkTyped
  <2>4. QED
    BY <1>2, <2>1, <2>2, <2>3
<1>5. CASE WriteNode(owner) \/ NodesWritten(owner) \/ WriteEdge(owner)
  <2>1. acked' = acked /\ work'[owner].pc \in {"nodes", "edges"}
    BY <1>0, <1>5, WorkMoved DEF WriteNode, NodesWritten, WriteEdge, topicVars, MovedTo
  <2>2. QED
    BY <1>2, <2>1
<1>6. CASE HandlerRaises(owner)
  <2>1. acked' = acked /\ RetryLeft(work[owner].attempt)
    BY <1>0, <1>6 DEF HandlerRaises, topicVars
  <2>2. work'[owner].pc = "nodes"
    BY <1>0, <1>6, <2>1, WorkMoved DEF MovedTo
  <2>3. QED
    BY <1>2, <2>1, <2>2
<1>7. CASE Announce(owner)
  <2>1. work[owner].batch = acked + 1
    BY <1>0, <1>7 DEF OwnerInStep, Working, Announce
  <2>2. QED
    BY <1>7, <2>1 DEF BeingWritten, Current
<1>8. ~CommitBatch(owner)
  BY DEF BeingWritten, CommitBatch
<1>9. QED
  BY <1>3, <1>4, <1>5, <1>6, <1>7, <1>8, WorkerSteps, OwnerMoves DEF Moving

\* A step of the graph service leaves what is to be ranked.
LEMMA ToRankStays ==
    ASSUME Typed, NEW k, ToRank(k),
           RankElsewhere \/ \E w \in Worker : Announce(w)
    PROVE  ToRank(k)'
<1>1. CASE RankElsewhere
  BY <1>1 DEF RankElsewhere, ToRank, Unread, CurrentChange
<1>2. ASSUME NEW w \in Worker, Announce(w) PROVE ToRank(k)'
  <2>1. /\ Len(changes) <= Len(changes') /\ Len(changes) \in Nat /\ Len(changes') \in Nat
        /\ \A c \in DOMAIN changes : c \in DOMAIN changes' /\ changes'[c] = changes[c]
        /\ UNCHANGED <<ranked, rank>>
    BY <1>2, AnnounceEffect DEF Typed
  <2>2. PICK c \in (ranked + 1)..Len(changes) :
          /\ \E j \in DOMAIN changes[c] : changes[c][j] = k
          /\ c = ranked + 1 => Unread(k)
    BY DEF ToRank
  <2>3. c \in (ranked' + 1)..Len(changes') /\ c \in DOMAIN changes
    BY <2>1, <2>2 DEF Typed, RankTyped
  <2>4. Unread(k) => Unread(k)'
    BY <2>1, SameChange DEF Unread, Typed
  <2>5. QED
    BY <2>1, <2>2, <2>3, <2>4 DEF ToRank
<1>3. QED
  BY <1>1, <1>2

\* What is announced is to be ranked.
LEMMA AnnouncedIsToRank ==
    ASSUME Typed, NEW w \in Worker, Announce(w), NEW k \in BatchKeys(Current(w))
    PROVE  ToRank(k)'
<1>1. /\ Len(changes') = Len(changes) + 1 /\ Len(changes) \in Nat
      /\ changes'[Len(changes')] = Announcement(Current(w))
      /\ UNCHANGED <<ranked, rank>>
  <2>1. Current(w) \in Batches
    BY CurrentTyped DEF Typed, Announce, Working
  <2>2. Current(w).nodes # <<>>
    BY <2>1, BatchTyped DEF BatchKeys
  <2>3. QED
    BY <2>2, AnnounceEffect DEF Typed
<1>2. PICK j \in DOMAIN Current(w).nodes : Current(w).nodes[j].key = k
  BY DEF BatchKeys
<1>3. j \in DOMAIN changes'[Len(changes')] /\ changes'[Len(changes')][j] = k
  BY <1>1, <1>2 DEF Announcement
<1>4. ranked \in Nat /\ ranked <= Len(changes) /\ (rank.pc # "idle" => ranked < Len(changes))
  BY DEF Typed, RankTyped
<1>5. Len(changes') \in (ranked' + 1)..Len(changes')
  BY <1>1, <1>4
<1>6. Len(changes') = ranked' + 1 => Unread(k)'
  BY <1>1, <1>4 DEF Unread
<1>7. QED
  BY <1>3, <1>5, <1>6 DEF ToRank

\* A step of ranking leaves what is still dirty to be ranked.
LEMMA DirtyIsToRank ==
    ASSUME Typed, DirtyPresent, unranked' = {}, UNCHANGED changes,
           \/ RankBegin \/ RankRead \/ RankWrite \/ RankPublish
           \/ RankCommit \/ RankCrash \/ RankRaises,
           NEW k \in dirty', ToRank(k)
    PROVE  ToRank(k)'
<1>0. /\ ranked \in Nat /\ Len(changes) \in Nat /\ rank.next \in Nat \ {0}
      /\ RankTyped /\ StoreTyped
  BY RankRecordSet DEF Typed, RankTyped
<1>1. k \in DOMAIN nodes
  BY DEF DirtyPresent, RankBegin, RankRead, RankWrite, RankPublish, RankCommit, RankCrash, RankRaises
<1>2. PICK c \in (ranked + 1)..Len(changes) :
        /\ \E j \in DOMAIN changes[c] : changes[c][j] = k
        /\ c = ranked + 1 => Unread(k)
  BY DEF ToRank
<1>3. ASSUME UNCHANGED ranked, Unread(k) => Unread(k)' PROVE ToRank(k)'
  BY <1>2, <1>3 DEF ToRank
<1>4. CASE RankBegin
  <2>1. UNCHANGED ranked /\ rank'.pc = "read" /\ rank'.next = 1
    BY <1>0, <1>4, RankMoved DEF RankBegin, RankAt
  <2>2. QED
    BY <1>3, <2>1 DEF Unread
<1>5. CASE RankRead
  <2>1. UNCHANGED ranked /\ CurrentChange' = CurrentChange /\ rank.pc = "read"
    BY <1>5 DEF RankRead, CurrentChange
  <2>2. PICK q : q = CurrentChange[rank.next]
    OBVIOUS
  <2>3. CASE Repeated \/ q \notin DOMAIN nodes
    <3>1. rank'.pc = "read" /\ rank'.next = rank.next + 1
      BY <1>0, <1>5, <2>2, <2>3, RankMoved DEF RankAt
    <3>2. Unread(k) => q # k
      BY <1>1, <2>1, <2>2, <2>3 DEF Unread, Repeated
    <3>3. Unread(k) => Unread(k)'
      <4> SUFFICES ASSUME Unread(k), NEW i \in 1..(rank'.next - 1) PROVE CurrentChange[i] # k
        BY <2>1, <3>1 DEF Unread
      <4>1. i \in 1..(rank.next - 1) \/ i = rank.next
        BY <1>0, <3>1
      <4>2. QED
        BY <2>1, <2>2, <3>2, <4>1 DEF Unread
    <3>4. QED
      BY <1>3, <2>1, <3>3
  <2>4. CASE ~(Repeated \/ q \notin DOMAIN nodes)
    <3>1. rank'.pc = "write" /\ rank'.next = rank.next
      BY <1>0, <1>5, <2>2, <2>4, RankMoved DEF RankAt
    <3>2. q # k
      BY <1>5, <2>2, <2>4 DEF RankRead
    <3>3. QED
      BY <1>3, <2>1, <2>2, <3>1, <3>2 DEF Unread
  <2>5. QED
    BY <2>3, <2>4
<1>6. CASE RankWrite
  <2>1. /\ UNCHANGED ranked /\ CurrentChange' = CurrentChange
        /\ rank.pc = "write" /\ rank'.pc = "publish" /\ rank'.next = rank.next
    BY <1>0, <1>6, RankMoved DEF RankWrite, RankAt, CurrentChange
  <2>2. QED
    BY <1>3, <2>1 DEF Unread
<1>7. CASE RankPublish
  <2>1. /\ UNCHANGED ranked /\ CurrentChange' = CurrentChange
        /\ rank.pc = "publish" /\ rank'.pc = "read" /\ rank'.next = rank.next + 1
    BY <1>0, <1>7, RankMoved DEF RankPublish, RankAt, CurrentChange
  <2>2. Unread(k) => Unread(k)'
    <3> SUFFICES ASSUME Unread(k), NEW i \in 1..(rank'.next - 1) PROVE CurrentChange[i] # k
      BY <2>1 DEF Unread
    <3>1. i \in 1..(rank.next - 1) \/ i = rank.next
      BY <1>0, <2>1
    <3>2. QED
      BY <2>1, <3>1 DEF Unread
  <2>3. QED
    BY <1>3, <2>1, <2>2
<1>8. CASE RankCommit
  <2>1. /\ ranked' = ranked + 1 /\ rank.pc = "read" /\ rank.next > Len(CurrentChange)
        /\ rank'.pc = "idle"
    BY <1>0, <1>8, RankMoved DEF RankCommit, RankAt
  <2>2. c # ranked + 1
    <3>1. DOMAIN CurrentChange = 1..Len(CurrentChange) /\ Len(CurrentChange) \in Nat
      BY <1>0, <2>1, CurrentChangeTyped
    <3>2. DOMAIN CurrentChange \subseteq 1..(rank.next - 1)
      BY <1>0, <2>1, <3>1
    <3>3. QED
      BY <1>2, <2>1, <3>2 DEF Unread, CurrentChange
  <2>3. c \in (ranked' + 1)..Len(changes')
    BY <1>0, <1>2, <2>1, <2>2
  <2>4. QED
    BY <1>2, <2>1, <2>3 DEF ToRank, Unread
<1>9. CASE RankCrash
  <2>1. UNCHANGED ranked /\ rank'.pc = "idle"
    BY <1>0, <1>9, RankMoved DEF RankCrash, RankAt
  <2>2. QED
    BY <1>3, <2>1 DEF Unread
<1>10. CASE RankRaises
  <2>1. UNCHANGED ranked /\ RetryLeft(rank.attempt)
    BY <1>10 DEF RankRaises
  <2>2. rank'.pc = "read" /\ rank'.next = 1
    BY <1>0, <1>10, <2>1, RankMoved DEF RankAt
  <2>3. QED
    BY <1>3, <2>1, <2>2 DEF Unread
<1>11. QED
  BY <1>4, <1>5, <1>6, <1>7, <1>8, <1>9, <1>10

\* What becomes dirty is of the batch in the hands of the owner.
LEMMA NewlyDirty ==
    ASSUME Typed, Typed', Alone, [Next]_vars, NEW k \in dirty', k \notin dirty
    PROVE  BeingWritten(k)' /\ RankElsewhere
<1>0. WorkTyped /\ OwnerInStep /\ StoreTyped /\ acked \in Nat
  BY DEF Typed, WorkTyped
<1>1. PICK w \in Worker : WriteNode(w) \/ (WriteEdge(w) /\ work[w].next \in Writable(Current(w)))
  BY StoreSteps, WriteEdgeSkips
<1>2. w = owner /\ Working(w) /\ work[w].batch = acked + 1 /\ acked + 1 \in DOMAIN batches
  BY <1>0, <1>1, OwnerMoves DEF Moving, WriteNode, WriteEdge, Working, OwnerInStep
<1>3. k \in BatchKeys(Current(w))
  <2>1. CASE WriteNode(w)
    BY <1>0, <2>1, WriteNodeEffect DEF BatchKeys
  <2>2. CASE WriteEdge(w) /\ work[w].next \in Writable(Current(w))
    <3>1. PICK e : e = Current(w).edges[work[w].next]
      OBVIOUS
    <3>2. /\ dirty' = dirty \cup {e.id[2], e.id[3]}
          /\ {e.id[2], e.id[3]} \subseteq BatchKeys(Current(w))
      BY <1>0, <2>2, <3>1, WriteEdgeEffect
    <3>3. QED
      BY <3>2
  <2>3. QED
    BY <1>1, <2>1, <2>2
<1>4. work'[w].pc \in {"nodes", "edges"} /\ UNCHANGED <<batches, acked, owner>> /\ RankElsewhere
  BY <1>0, <1>1, WorkMoved DEF MovedTo, WriteNode, WriteEdge, topicVars, rankVars, RankElsewhere
<1>5. acked < Len(batches)
  BY <1>0, <1>2 DEF WorkTyped
<1>6. QED
  BY <1>2, <1>3, <1>4, <1>5 DEF BeingWritten, BatchKeys, Current

LEMMA RankedStep ==
    ASSUME Typed, Typed', Complete, WithinBudget, DirtyPresent, RankedInv, [Next]_vars
    PROVE  RankedInv'
<1> SUFFICES ASSUME Intact' PROVE Alone' /\ \A k \in dirty' : BeingWritten(k)' \/ ToRank(k)'
  BY DEF RankedInv
<1>1. Intact /\ Alone /\ ~Evicted' /\ unranked' = {}
  BY FaultsStay DEF RankedInv, Intact
<1>2. ASSUME NEW k \in dirty' PROVE BeingWritten(k)' \/ ToRank(k)'
  <2>1. CASE k \notin dirty
    BY <1>1, <1>2, <2>1, NewlyDirty
  <2>2. CASE k \in dirty /\ BeingWritten(k)
    BY <1>1, <2>2, BeingWrittenStep, AnnouncedIsToRank DEF Typed, WorkTyped
  <2>3. CASE k \in dirty /\ ToRank(k)
    BY <1>1, <1>2, <2>3, ToRankStays, DirtyIsToRank, RankSteps
  <2>4. QED
    BY <1>1, <2>1, <2>2, <2>3 DEF RankedInv
<1>3. QED
  BY <1>1, <1>2, AloneStep

(***************************************************************************)
(* Ranking catches up with every write: once all is handled, each node was *)
(* read after it was last written, through any crash and retry of either   *)
(* service, unless something was dead-lettered or a worker was evicted.    *)
(***************************************************************************)
THEOREM RankingCatchesUp == Spec => []WritesAreRanked
<1>1. Init => WithinBudget /\ DirtyPresent /\ RankedInv
  <2> SUFFICES ASSUME Init PROVE WithinBudget /\ DirtyPresent /\ RankedInv
    OBVIOUS
  <2>1. budget.evict = MaxEvictions /\ dirty = {} /\ \A w \in Worker : work[w].pc = "idle"
    BY DEF Init, Idle
  <2>2. QED
    BY <2>1, PipelineAssumption DEF WithinBudget, DirtyPresent, RankedInv, Alone
<1>2. Typed /\ Typed' /\ Complete /\ WithinBudget /\ DirtyPresent /\ RankedInv /\ [Next]_vars
      => (WithinBudget /\ DirtyPresent /\ RankedInv)'
  BY FaultsStay, DirtyPresentStep, RankedStep
<1>3. Typed /\ RankedInv => WritesAreRanked
  <2> SUFFICES ASSUME Typed, RankedInv, Quiet, Intact, NEW k \in dirty PROVE FALSE
    BY DEF WritesAreRanked, Intact
  <2>1. acked = Len(batches) /\ ranked = Len(changes) /\ ranked \in Nat /\ acked \in Nat
    BY DEF Quiet, GraphQuiet, Typed, RankTyped, WorkTyped
  <2>2. QED
    BY <2>1 DEF RankedInv, BeingWritten, ToRank
<1>4. QED
  BY <1>1, <1>2, <1>3, ConvergingCorrect, PTL DEF Spec

-----------------------------------------------------------------------------
(* The latest value. A node has the last value its batch mentioned up to   *)
(* the turn the owner is at, or what the batches before left it with, or,  *)
(* from an attempt that was cut short, some value of the same batch.       *)

Says(k, b, j) == batches[b].nodes[j].key = k /\ batches[b].nodes[j].value # Unset

Known(k) == IF k \in DOMAIN nodes THEN nodes[k].value ELSE Unset

\* What batches 1..n leave k with.
NotSaid(k, n) == \A b \in 1..n : \A j \in DOMAIN batches[b].nodes : ~Says(k, b, j)
LastOf(k, b, j, n) ==
    /\ b \in 1..n /\ j \in DOMAIN batches[b].nodes /\ Says(k, b, j)
    /\ \A c \in 1..n : \A i \in DOMAIN batches[c].nodes :
         Says(k, c, i) => c < b \/ (c = b /\ i <= j)
LeftWith(k, v, n) ==
    \/ v = Unset /\ NotSaid(k, n)
    \/ \E b, j \in Nat : LastOf(k, b, j, n) /\ v = batches[b].nodes[j].value

\* The first n - 1 nodes of batch b mention k, the last time with v.
Said(k, b, n) == \E j \in DOMAIN batches[b].nodes : j < n /\ Says(k, b, j)
LastSaid(k, v, b, n) ==
    \E j \in DOMAIN batches[b].nodes :
        /\ j < n /\ Says(k, b, j) /\ v = batches[b].nodes[j].value
        /\ \A i \in DOMAIN batches[b].nodes : i < n /\ Says(k, b, i) => i <= j

\* Batch b mentions k with v.
SomeSaid(k, v, b) ==
    \E j \in DOMAIN batches[b].nodes : Says(k, b, j) /\ v = batches[b].nodes[j].value

Stands(k, v, n) ==
    IF acked < Len(batches) /\ Said(k, acked + 1, n)
    THEN LastSaid(k, v, acked + 1, n)
    ELSE LeftWith(k, v, acked) \/ (acked < Len(batches) /\ SomeSaid(k, v, acked + 1))

\* The turn the owner is at: past them all once the nodes are written.
AtTurn(n) ==
    /\ work[owner].pc = "idle" => n = 1
    /\ work[owner].pc = "nodes" => n = work[owner].next
    /\ work[owner].pc \in {"edges", "commit"} => n = Len(batches[acked + 1].nodes) + 1

LatestInv ==
    dead = {} /\ ~Evicted =>
        /\ Alone
        /\ \A k \in Key : \A v \in {Known(k)} : \A n \in Nat : AtTurn(n) => Stands(k, v, n)

LEMMA NodeIndices ==
    ASSUME WorkTyped, NEW b \in DOMAIN batches
    PROVE  /\ Len(batches[b].nodes) \in Nat
           /\ DOMAIN batches[b].nodes = 1..Len(batches[b].nodes)
<1>1. PICK c \in Batches : c = batches[b]
  BY DEF WorkTyped
<1>2. Len(c.nodes) \in Nat /\ DOMAIN c.nodes = 1..Len(c.nodes)
  BY BatchTyped
<1>3. QED
  BY <1>1, <1>2

\* An attempt that starts over, or a redelivery, forgets which mention was last.
LEMMA StandsAgain ==
    ASSUME WorkTyped, NEW k, NEW v, NEW n, Stands(k, v, n)
    PROVE  Stands(k, v, 1)
<1>1. acked \in Nat /\ Len(batches) \in Nat
  BY DEF WorkTyped
<1>2. acked < Len(batches) => ~Said(k, acked + 1, 1)
  <2> SUFFICES ASSUME acked < Len(batches) PROVE ~Said(k, acked + 1, 1)
    OBVIOUS
  <2>1. acked + 1 \in DOMAIN batches
    BY <1>1 DEF WorkTyped
  <2>2. QED
    BY <2>1, NodeIndices DEF Said
<1>3. LastSaid(k, v, acked + 1, n) => SomeSaid(k, v, acked + 1)
  BY DEF LastSaid, SomeSaid
<1>4. QED
  BY <1>2, <1>3 DEF Stands

\* Values survive all but a write of the node.
LEMMA ValuesStay ==
    ASSUME Typed, [Next]_vars, \A w \in Worker : ~WriteNode(w)
    PROVE  \A k : Known(k)' = Known(k)
<1>1. ASSUME NEW w \in Worker, WriteEdge(w) PROVE nodes' = nodes
  BY <1>1, WriteEdgeEffect, WriteEdgeSkips DEF Typed
<1>2. CASE RankWrite
  <2>1. PICK k : k = CurrentChange[rank.next]
    OBVIOUS
  <2>2. rank.score \in Nat /\ SetUrgency(k, rank.score)
    BY <1>2, <2>1, RankRecordSet DEF Typed, RankTyped, RankWrite
  <2>3. DOMAIN nodes' = DOMAIN nodes /\ \A z \in DOMAIN nodes : nodes'[z].value = nodes[z].value
    BY <2>2, SetUrgencyEffect DEF Typed
  <2>4. QED
    BY <2>3 DEF Known
<1>3. QED
  BY <1>1, <1>2, StoreSteps DEF Known

\* While the batches and the offset stay, so does what they say.
LEMMA StandsStays ==
    ASSUME UNCHANGED <<batches, acked>>, NEW k, NEW v, NEW n, Stands(k, v, n)
    PROVE  Stands(k, v, n)'
BY DEF Stands, Said, LastSaid, LeftWith, SomeSaid, LastOf, NotSaid, Says

\* A batch that arrives says nothing yet.
LEMMA StandsOnArrival ==
    ASSUME Typed, Typed', NEW c \in Batches, Extract(c), NEW k, NEW n \in Nat, AtTurn(n),
           NEW v, Stands(k, v, n)
    PROVE  Stands(k, v, n)'
<1>1. /\ batches' = Append(batches, c) /\ UNCHANGED <<acked, owner, work>>
      /\ acked \in Nat /\ Len(batches) \in Nat /\ acked <= Len(batches)
      /\ batches \in Seq(Batches) /\ WorkTyped
  BY DEF Extract, Typed, WorkTyped
<1>2. Len(batches') = Len(batches) + 1 /\ \A b \in DOMAIN batches : batches'[b] = batches[b]
  BY <1>1
<1>3. \A b \in 1..acked : b \in DOMAIN batches
  BY <1>1
<1>4. LeftWith(k, v, acked) => LeftWith(k, v, acked)'
  <2>1. \A b \in 1..acked : batches'[b] = batches[b]
    BY <1>2, <1>3
  <2>2. \A b \in 1..acked : \A j : Says(k, b, j)' <=> Says(k, b, j)
    BY <2>1 DEF Says
  <2>3. NotSaid(k, acked) => NotSaid(k, acked)'
    BY <1>1, <2>1, <2>2 DEF NotSaid
  <2>4. ASSUME NEW b \in Nat, NEW j \in Nat, LastOf(k, b, j, acked)
        PROVE  LastOf(k, b, j, acked)' /\ batches'[b] = batches[b]
    BY <1>1, <2>1, <2>2, <2>4 DEF LastOf
  <2>5. QED
    BY <1>1, <2>3, <2>4 DEF LeftWith
<1>5. CASE acked < Len(batches)
  <2>1. acked + 1 \in DOMAIN batches /\ acked' < Len(batches')
    BY <1>1, <1>2, <1>5
  <2>2. batches'[acked + 1] = batches[acked + 1]
    BY <1>2, <2>1
  <2>3. /\ Said(k, acked + 1, n)' <=> Said(k, acked + 1, n)
        /\ LastSaid(k, v, acked + 1, n)' <=> LastSaid(k, v, acked + 1, n)
        /\ SomeSaid(k, v, acked + 1)' <=> SomeSaid(k, v, acked + 1)
    BY <1>1, <2>2 DEF Said, LastSaid, SomeSaid, Says
  <2>4. QED
    BY <1>4, <1>5, <2>1, <2>3 DEF Stands
<1>6. CASE ~(acked < Len(batches))
  <2>1. LeftWith(k, v, acked)'
    BY <1>4, <1>6 DEF Stands
  <2>2. n = 1
    <3>1. ~Working(owner) /\ work[owner].pc # "stopped" /\ work[owner].pc \in WorkPc
      <4>1. owner \in Worker /\ work[owner] \in WorkRecord(Len(batches))
        BY <1>1 DEF WorkTyped
      <4>2. work[owner].pc \in WorkPc
        BY <4>1, WorkRecordSet
      <4>3. Working(owner) => acked + 1 \in DOMAIN batches
        BY <4>1 DEF Typed, OwnerInStep
      <4>4. ~Working(owner)
        BY <1>1, <1>6, <4>3
      <4>5. QED
        BY <4>2, <4>4 DEF Typed, OwnerInStep
    <3>2. QED
      BY <3>1 DEF AtTurn, Working, WorkPc
  <2>3. ~Said(k, acked + 1, n)'
    <3>1. acked + 1 \in DOMAIN batches' /\ WorkTyped'
      BY <1>1, <1>2, <1>6 DEF Typed, WorkTyped
    <3>2. PICK b : b = acked + 1
      OBVIOUS
    <3>3. DOMAIN batches'[b].nodes = 1..Len(batches'[b].nodes)
      BY <3>1, <3>2, NodeIndices
    <3>4. QED
      BY <1>1, <2>2, <3>2, <3>3 DEF Said
  <2>4. QED
    BY <2>1, <2>3 DEF Stands
<1>7. QED
  BY <1>5, <1>6

\* A turn of the loop: the node it writes has the value it mentions, if any.
LEMMA StandsOnWrite ==
    ASSUME Typed, NEW w \in Worker, w = owner, WriteNode(w), NEW k,
           NEW n, n = work[w].next, Stands(k, Known(k), n)
    PROVE  \A v : v = Known(k)' => Stands(k, v, n + 1)'
<1>1. PICK b, m : b = acked + 1 /\ m = batches[b].nodes[n]
  OBVIOUS
<1>2. /\ Working(w) /\ Current(w) = batches[b] /\ b \in DOMAIN batches
      /\ WorkTyped /\ acked < Len(batches) /\ n \in Nat
  <2>1. Working(w) /\ work[w].batch = b
    BY <1>1 DEF WriteNode, Working, Typed, OwnerInStep
  <2>2. b \in DOMAIN batches
    BY <2>1 DEF Typed, OwnerInStep
  <2>3. acked < Len(batches)
    BY <1>1, <2>2 DEF Typed, WorkTyped
  <2>4. n \in Nat
    BY <1>1, WorkRecordSet DEF Typed, WorkTyped
  <2>5. QED
    BY <2>1, <2>2, <2>3, <2>4 DEF Current, Typed
<1>3. /\ n \in DOMAIN batches[b].nodes
      /\ DOMAIN nodes' = DOMAIN nodes \cup {m.key}
      /\ \A z \in DOMAIN nodes : z # m.key => nodes'[z] = nodes[z]
      /\ m.key \in DOMAIN nodes => nodes'[m.key].value = MergedValue(nodes[m.key].value, m.value)
      /\ m.key \notin DOMAIN nodes => nodes'[m.key].value = m.value
  BY <1>1, <1>2, WriteNodeEffect DEF Typed
<1>4. UNCHANGED <<batches, acked>> /\ work'[w].next = n + 1
  BY <1>1, <1>2, WorkMoved DEF WriteNode, topicVars, MovedTo
<1>5. \A i \in DOMAIN batches[b].nodes : i \in Nat /\ (i < n + 1 <=> (i < n \/ i = n))
  BY <1>2, NodeIndices
<1>6. Stands(k, Known(k)', n + 1)
  <2>1. CASE Says(k, b, n)
    <3>1. Known(k)' = m.value
      BY <1>1, <1>3, <2>1 DEF Says, Known, MergedValue
    <3>2. LastSaid(k, m.value, b, n + 1) /\ Said(k, b, n + 1)
      <4>1. /\ n \in DOMAIN batches[b].nodes /\ n < n + 1
            /\ m.value = batches[b].nodes[n].value
        BY <1>1, <1>2, <1>3
      <4>2. \A i \in DOMAIN batches[b].nodes : i < n + 1 => i <= n
        BY <1>2, <1>5
      <4>3. QED
        BY <2>1, <4>1, <4>2 DEF LastSaid, Said
    <3>3. QED
      BY <1>1, <1>2, <3>1, <3>2 DEF Stands
  <2>2. CASE ~Says(k, b, n)
    <3>1. Known(k)' = Known(k)
      <4>1. CASE k # m.key
        BY <1>3, <4>1 DEF Known
      <4>2. CASE k = m.key
        BY <1>1, <1>3, <2>2, <4>2 DEF Known, Says, MergedValue
      <4>3. QED
        BY <4>1, <4>2
    <3>2. \A v : /\ Said(k, b, n + 1) <=> Said(k, b, n)
                 /\ LastSaid(k, v, b, n) => LastSaid(k, v, b, n + 1)
      BY <1>5, <2>2 DEF Said, LastSaid
    <3>3. QED
      BY <1>1, <3>1, <3>2 DEF Stands
  <2>3. QED
    BY <2>1, <2>2
<1>7. QED
  BY <1>4, <1>6, StandsStays

\* Past the last node, every turn is the same.
LEMMA StandsAtEnd ==
    ASSUME WorkTyped, acked < Len(batches), NEW k, NEW v, NEW n \in Nat,
           n > Len(batches[acked + 1].nodes), Stands(k, v, n)
    PROVE  Stands(k, v, Len(batches[acked + 1].nodes) + 1)
<1>1. PICK b, m : b = acked + 1 /\ m = Len(batches[b].nodes) + 1
  OBVIOUS
<1>2. b \in DOMAIN batches
  BY <1>1 DEF WorkTyped
<1>3. \A i \in DOMAIN batches[b].nodes : i < m /\ i < n
  BY <1>1, <1>2, NodeIndices
<1>4. (Said(k, b, n) <=> Said(k, b, m)) /\ (LastSaid(k, v, b, n) => LastSaid(k, v, b, m))
  BY <1>3 DEF Said, LastSaid
<1>5. QED
  BY <1>1, <1>4 DEF Stands

\* When the batch is committed, what it said last is what the batches leave.
LEMMA StandsOnCommit ==
    ASSUME WorkTyped, WorkTyped', acked < Len(batches), acked' = acked + 1, UNCHANGED batches,
           NEW k, NEW v, Stands(k, v, Len(batches[acked + 1].nodes) + 1)
    PROVE  Stands(k, v, 1)'
<1>1. PICK b, m : b = acked + 1 /\ m = Len(batches[b].nodes) + 1
  OBVIOUS
<1>2. b \in DOMAIN batches /\ acked \in Nat /\ b \in Nat
  BY <1>1 DEF WorkTyped
<1>3. \A i \in DOMAIN batches[b].nodes : i \in Nat /\ i < m
  BY <1>1, <1>2, NodeIndices
<1>4. \A c \in 1..b : c \in 1..acked \/ c = b
  BY <1>1, <1>2
<1>5. \A c \in 1..acked : c \in 1..b /\ c < b
  BY <1>1, <1>2
<1>6. LeftWith(k, v, b)
  <2>1. CASE Said(k, b, m)
    <3>1. LastSaid(k, v, b, m)
      BY <1>1, <2>1 DEF Stands
    <3>2. PICK j \in DOMAIN batches[b].nodes :
            /\ Says(k, b, j) /\ v = batches[b].nodes[j].value
            /\ \A i \in DOMAIN batches[b].nodes : i < m /\ Says(k, b, i) => i <= j
      BY <3>1 DEF LastSaid
    <3>3. b \in 1..b /\ j \in Nat
      BY <1>2, <1>1, <1>3
    <3>4. \A c \in 1..b : \A i \in DOMAIN batches[c].nodes :
            Says(k, c, i) => c < b \/ (c = b /\ i <= j)
      BY <1>3, <1>4, <1>5, <3>2
    <3>5. LastOf(k, b, j, b)
      BY <3>2, <3>3, <3>4 DEF LastOf
    <3>6. QED
      BY <1>2, <3>2, <3>3, <3>5 DEF LeftWith
  <2>2. CASE ~Said(k, b, m)
    <3>1. \A j \in DOMAIN batches[b].nodes : ~Says(k, b, j)
      BY <1>3, <2>2 DEF Said
    <3>2. LeftWith(k, v, acked)
      BY <1>1, <2>2, <3>1 DEF Stands, SomeSaid
    <3>3. CASE v = Unset /\ NotSaid(k, acked)
      BY <1>4, <3>1, <3>3 DEF LeftWith, NotSaid
    <3>4. ASSUME NEW c \in Nat, NEW j \in Nat, LastOf(k, c, j, acked),
                 v = batches[c].nodes[j].value
          PROVE  LeftWith(k, v, b)
      <4>1. LastOf(k, c, j, b)
        BY <1>4, <1>5, <3>1, <3>4 DEF LastOf
      <4>2. QED
        BY <3>4, <4>1 DEF LeftWith
    <3>5. QED
      BY <3>2, <3>3, <3>4 DEF LeftWith
  <2>3. QED
    BY <2>1, <2>2
<1>7. LeftWith(k, v, acked)'
  BY <1>1, <1>6 DEF LeftWith, LastOf, NotSaid, Says
<1>8. (acked < Len(batches))' => ~Said(k, acked + 1, 1)'
  <2> SUFFICES ASSUME (acked < Len(batches))' PROVE ~Said(k, acked + 1, 1)'
    OBVIOUS
  <2>1. PICK c : c = acked' + 1
    OBVIOUS
  <2>2. c \in DOMAIN batches
    BY <1>2, <2>1 DEF WorkTyped
  <2>3. DOMAIN batches[c].nodes = 1..Len(batches[c].nodes)
    BY <2>2, NodeIndices
  <2>4. QED
    BY <2>1, <2>3 DEF Said
<1>9. QED
  BY <1>7, <1>8 DEF Stands

LEMMA SomeTurn == ASSUME Typed PROVE \E n \in Nat : AtTurn(n)
<1>1. owner \in Worker /\ work[owner].next \in Nat
  BY WorkRecordSet DEF Typed, WorkTyped
<1>2. CASE work[owner].pc \in {"edges", "commit"}
  <2>1. acked + 1 \in DOMAIN batches
    BY <1>1, <1>2 DEF Typed, OwnerInStep, Working
  <2>2. Len(batches[acked + 1].nodes) + 1 \in Nat
    BY <2>1, NodeIndices DEF Typed
  <2>3. QED
    BY <1>2, <2>2 DEF AtTurn
<1>3. CASE work[owner].pc \notin {"edges", "commit"}
  BY <1>1, <1>3 DEF AtTurn
<1>4. QED
  BY <1>2, <1>3

LEMMA LatestStep ==
    ASSUME Typed, Typed', WithinBudget, LatestInv, [Next]_vars
    PROVE  LatestInv'
<1>0. SUFFICES ASSUME dead' = {}, ~Evicted'
               PROVE  /\ Alone'
                      /\ \A k \in Key : \A v \in {Known(k)'} : \A n \in Nat :
                           AtTurn(n)' => Stands(k, v, n)'
  BY DEF LatestInv
<1>1. /\ dead = {} /\ ~Evicted /\ Alone /\ owner' = owner /\ owner \in Worker
      /\ WorkTyped /\ WorkTyped' /\ acked \in Nat
      /\ work \in [Worker -> WorkRecord(Len(batches))]
  <2>1. WorkTyped /\ WorkTyped'
    BY DEF Typed
  <2>2. ~Evicted /\ owner' = owner
    BY <1>0, FaultsStay, OwnerStays
  <2>3. dead = {}
    BY <1>0, <2>1, BatchesStay
  <2>4. /\ owner \in Worker /\ acked \in Nat
        /\ work \in [Worker -> WorkRecord(Len(batches))]
    BY <2>1 DEF WorkTyped
  <2> QED
    BY <2>1, <2>2, <2>3, <2>4 DEF LatestInv
<1>2. ASSUME NEW k \in Key, NEW n \in Nat, AtTurn(n), NEW v, v = Known(k) PROVE Stands(k, v, n)
  BY <1>1, <1>2 DEF LatestInv
<1>3. Working(owner) => /\ acked + 1 \in DOMAIN batches /\ acked < Len(batches)
                        /\ Current(owner) = batches[acked + 1]
                        /\ Len(batches[acked + 1].nodes) \in Nat
  <2> SUFFICES ASSUME Working(owner)
               PROVE  /\ acked + 1 \in DOMAIN batches /\ acked < Len(batches)
                      /\ Current(owner) = batches[acked + 1]
                      /\ Len(batches[acked + 1].nodes) \in Nat
    OBVIOUS
  <2>1. acked + 1 \in DOMAIN batches /\ Current(owner) = batches[acked + 1]
    BY <1>1 DEF Typed, OwnerInStep, Current
  <2>2. QED
    BY <1>1, <2>1, NodeIndices DEF WorkTyped
<1>4. SUFFICES ASSUME NEW k \in Key, NEW v, v = Known(k)', NEW n \in Nat, AtTurn(n)'
               PROVE  Stands(k, v, n)'
  BY <1>0, <1>1, AloneStep
<1>5. ASSUME WriteNode(owner) PROVE Stands(k, v, n)'
  <2>1. PICK m : m = work[owner].next
    OBVIOUS
  <2>2. work[owner].pc = "nodes" /\ work'[owner].pc = "nodes" /\ work'[owner].next = m + 1
    BY <1>1, <1>5, <2>1, WorkMoved DEF WriteNode, MovedTo
  <2>3. m \in Nat /\ AtTurn(m)
    BY <1>1, <2>1, <2>2, WorkRecordSet DEF AtTurn
  <2>4. n = m + 1
    BY <1>1, <1>4, <2>2 DEF AtTurn
  <2>5. PICK u : u = Known(k)
    OBVIOUS
  <2>6. Stands(k, u, m)
    BY <1>2, <2>3, <2>5
  <2>7. Stands(k, Known(k), m)
    BY <2>5, <2>6
  <2>8. QED
    BY <1>1, <1>4, <1>5, <2>1, <2>4, <2>7, StandsOnWrite
<1>6. CASE \A w \in Worker : ~WriteNode(w)
  <2>1. v = Known(k)
    BY <1>4, <1>6, ValuesStay
  <2>2. ASSUME NEW c \in Batches, Extract(c) PROVE Stands(k, v, n)'
    <3>1. batches' = Append(batches, c) /\ UNCHANGED <<acked, owner, work>>
      BY <2>2 DEF Extract
    <3>2. Working(owner) => batches'[acked + 1] = batches[acked + 1]
      BY <1>1, <1>3, <3>1 DEF WorkTyped
    <3>3. AtTurn(n)
      BY <1>4, <3>1, <3>2 DEF AtTurn, Working
    <3>4. QED
      BY <1>2, <2>1, <2>2, <3>3, StandsOnArrival
  <2>3. ASSUME UNCHANGED <<batches, acked>>, AtTurn(n) PROVE Stands(k, v, n)'
    BY <1>2, <2>1, <2>3, StandsStays
  <2>4. ASSUME UNCHANGED <<batches, acked>>, n = 1 PROVE Stands(k, v, n)'
    <3>1. PICK m \in Nat : AtTurn(m)
      BY SomeTurn
    <3>2. Stands(k, v, 1)
      BY <1>1, <1>2, <2>1, <3>1, StandsAgain
    <3>3. QED
      BY <2>4, <3>2, StandsStays
  <2>5. CASE UNCHANGED <<work, acked>> /\ \A c \in Batches : ~Extract(c)
    <3>1. UNCHANGED batches
      BY <2>5 DEF Next, vars, GraphStep, RankStep, Begin, WriteNode, NodesWritten, WriteEdge,
         Announce, HandlerRaises, CommitBatch, Evict, Crash, RankBegin, RankRead, RankWrite,
         RankPublish, RankCommit, RankRaises, RankCrash, topicVars
    <3>2. AtTurn(n)
      BY <1>1, <1>4, <2>5, <3>1 DEF AtTurn
    <3>3. QED
      BY <2>3, <2>5, <3>1, <3>2
  <2>6. ASSUME Begin(owner) \/ Crash(owner) PROVE Stands(k, v, n)'
    <3>1. UNCHANGED <<batches, acked>>
      BY <2>6 DEF Begin, Crash, topicVars
    <3>2. PICK r : /\ work' = [work EXCEPT ![owner] = r]
                   /\ r.pc = "idle" \/ (r.pc = "nodes" /\ r.next = 1)
      <4>1. Begin(owner) => acked + 1 \in 0..Len(batches)
        BY <1>1 DEF Begin, WorkTyped
      <4>2. CASE Begin(owner)
        <5>1. PICK r : r = [Idle EXCEPT !.pc = "nodes", !.batch = acked + 1]
          OBVIOUS
        <5>2. r.pc = "nodes" /\ r.next = 1
          BY <1>1, <4>1, <4>2, <5>1, ResetTyped
        <5>3. QED
          BY <4>2, <5>1, <5>2 DEF Begin
      <4>3. CASE Crash(owner)
        BY <1>1, <4>3, ResetTyped DEF Crash
      <4>4. QED
        BY <2>6, <4>2, <4>3
    <3>3. work'[owner] = r
      BY <1>1, <3>2
    <3>4. n = 1
      BY <1>1, <1>4, <3>2, <3>3 DEF AtTurn
    <3>5. QED
      BY <2>4, <3>1, <3>4
  <2>7. ASSUME NodesWritten(owner) PROVE Stands(k, v, n)'
    <3>1. PICK m : m = work[owner].next
      OBVIOUS
    <3>2. /\ work[owner].pc = "nodes" /\ work'[owner].pc = "edges"
          /\ UNCHANGED <<batches, acked>> /\ m > Len(Current(owner).nodes)
      BY <1>1, <2>7, <3>1, WorkMoved DEF NodesWritten, topicVars, MovedTo
    <3>3. m \in Nat /\ AtTurn(m)
      BY <1>1, <3>1, <3>2, WorkRecordSet DEF AtTurn
    <3>4. n = Len(batches[acked + 1].nodes) + 1
      BY <1>1, <1>4, <3>2 DEF AtTurn
    <3>5. Stands(k, v, n)
      BY <1>1, <1>2, <1>3, <2>1, <3>2, <3>3, <3>4, StandsAtEnd DEF Working
    <3>6. QED
      BY <3>2, <3>5, StandsStays
  <2>8. ASSUME WriteEdge(owner) \/ Announce(owner) PROVE Stands(k, v, n)'
    <3>1. /\ work[owner].pc = "edges" /\ work'[owner].pc \in {"edges", "commit"}
          /\ UNCHANGED <<batches, acked>>
      BY <1>1, <2>8, WorkMoved DEF WriteEdge, Announce, topicVars, MovedTo
    <3>2. AtTurn(n)
      BY <1>1, <1>4, <3>1 DEF AtTurn
    <3>3. QED
      BY <2>3, <3>1, <3>2
  <2>9. ASSUME HandlerRaises(owner) PROVE Stands(k, v, n)'
    <3>1. UNCHANGED <<batches, acked>> /\ RetryLeft(work[owner].attempt)
      BY <1>0, <2>9 DEF HandlerRaises, topicVars
    <3>2. work'[owner].pc = "nodes" /\ work'[owner].next = 1
      BY <1>1, <2>9, <3>1, WorkMoved DEF MovedTo
    <3>3. n = 1
      BY <1>1, <1>4, <3>2 DEF AtTurn
    <3>4. QED
      BY <2>4, <3>1, <3>3
  <2>10. ASSUME CommitBatch(owner) PROVE Stands(k, v, n)'
    <3>1. /\ work[owner].pc = "commit" /\ Working(owner) /\ acked' = acked + 1
          /\ UNCHANGED batches
      BY <1>1, <2>10 DEF CommitBatch, Working, Typed, OwnerInStep
    <3>2. work' = [work EXCEPT ![owner] = Idle]
      BY <2>10 DEF CommitBatch
    <3>3. n = 1
      BY <1>1, <1>4, <3>2, ResetTyped DEF AtTurn
    <3>4. PICK m : m = Len(batches[acked + 1].nodes) + 1
      OBVIOUS
    <3>5. AtTurn(m) /\ m \in Nat
      BY <1>3, <3>1, <3>4 DEF AtTurn
    <3>6. Stands(k, v, m)
      BY <1>2, <2>1, <3>5
    <3>7. QED
      BY <1>1, <1>3, <3>1, <3>3, <3>4, <3>6, StandsOnCommit
  <2>11. QED
    BY <1>1, <1>6, <2>2, <2>5, <2>6, <2>7, <2>8, <2>9, <2>10, WorkerSteps, OwnerMoves DEF Moving
<1>7. QED
  BY <1>1, <1>5, <1>6, OwnerMoves DEF Moving

(***************************************************************************)
(* "per-org ordering is preserved": once every batch is handled, a node    *)
(* has the last value any batch mentions, whatever was retried or          *)
(* redelivered, and no mention without a value erased one, unless a batch  *)
(* was dead-lettered or a worker evicted.                                  *)
(***************************************************************************)
THEOREM LatestValueWins == Spec => []LatestWins
<1>1. Init => WithinBudget /\ LatestInv
  <2> SUFFICES ASSUME Init PROVE WithinBudget /\ LatestInv
    OBVIOUS
  <2>1. /\ budget.evict = MaxEvictions /\ acked = 0 /\ DOMAIN nodes = {} /\ batches = <<>>
        /\ \A w \in Worker : work[w].pc = "idle"
    BY DEF Init, Idle, StoreInit
  <2>2. \A k : Known(k) = Unset /\ NotSaid(k, acked)
    BY <2>1 DEF Known, NotSaid
  <2>3. \A k, v, n : v = Unset /\ NotSaid(k, acked) => Stands(k, v, n)
    BY <2>1 DEF Stands, LeftWith
  <2>4. QED
    BY <2>1, <2>2, <2>3, PipelineAssumption DEF WithinBudget, LatestInv, Alone
<1>2. Typed /\ Typed' /\ WithinBudget /\ LatestInv /\ [Next]_vars => (WithinBudget /\ LatestInv)'
  BY FaultsStay, LatestStep
<1>3. ASSUME Typed, LatestInv, GraphQuiet, dead = {}, ~Evicted, NEW k \in DOMAIN nodes
      PROVE  nodes[k].value = LatestValue(k)
  <2>1. PICK v : v = Known(k)
    OBVIOUS
  <2>2. LeftWith(k, v, acked)
    <3>1. k \in Key
      BY <1>3 DEF Typed, StoreTyped
    <3>2. PICK n \in Nat : AtTurn(n)
      BY <1>3, SomeTurn
    <3>3. Stands(k, v, n)
      BY <1>3, <2>1, <3>1, <3>2 DEF LatestInv
    <3>4. ~(acked < Len(batches))
      BY <1>3 DEF GraphQuiet, Typed, WorkTyped
    <3>5. QED
      BY <3>3, <3>4 DEF Stands
  <2>3. v = nodes[k].value
    BY <1>3, <2>1 DEF Known
  <2>4. \A b, j : <<b, j>> \in Mentions(k) <=>
          b \in 1..acked /\ j \in DOMAIN batches[b].nodes /\ Says(k, b, j)
    BY DEF Mentions, Says
  <2>5. \A m \in Mentions(k) : m = <<m[1], m[2]>>
    BY DEF Mentions
  <2>6. CASE v = Unset /\ NotSaid(k, acked)
    <3>1. ASSUME NEW m \in Mentions(k) PROVE FALSE
      <4>1. <<m[1], m[2]>> \in Mentions(k)
        BY <2>5
      <4>2. QED
        BY <2>4, <2>6, <4>1 DEF NotSaid
    <3>2. QED
      BY <2>3, <2>6, <3>1 DEF LatestValue
  <2>7. ASSUME NEW b \in Nat, NEW j \in Nat, LastOf(k, b, j, acked), v = batches[b].nodes[j].value
        PROVE  v = LatestValue(k)
    <3> DEFINE Latest(x) == \A y \in Mentions(k) : y[1] < x[1] \/ (y[1] = x[1] /\ y[2] <= x[2])
    <3>1. <<b, j>> \in Mentions(k)
      BY <2>4, <2>7 DEF LastOf
    <3>2. Latest(<<b, j>>)
      BY <2>4, <2>5, <2>7 DEF LastOf
    <3>3. PICK m : m = CHOOSE x \in Mentions(k) : Latest(x)
      OBVIOUS
    <3>4. m \in Mentions(k) /\ Latest(m)
      BY <3>1, <3>2, <3>3
    <3>5. m[1] \in Nat /\ m[2] \in Nat
      <4>1. m[1] \in 1..acked /\ m[2] \in DOMAIN batches[m[1]].nodes
        BY <2>4, <2>5, <3>4
      <4>2. m[1] \in DOMAIN batches /\ WorkTyped
        BY <1>3, <4>1 DEF Typed, WorkTyped
      <4>3. QED
        BY <1>3, <4>1, <4>2, NodeIndices
    <3>6. m[1] = b /\ m[2] = j
      <4>1. m[1] < b \/ (m[1] = b /\ m[2] <= j)
        BY <3>2, <3>4
      <4>2. b < m[1] \/ (b = m[1] /\ j <= m[2])
        BY <3>1, <3>4
      <4>3. QED
        BY <2>7, <3>5, <4>1, <4>2
    <3>7. LatestValue(k) = batches[m[1]].nodes[m[2]].value
      BY <3>1, <3>3 DEF LatestValue
    <3>8. QED
      BY <2>7, <3>6, <3>7
  <2>8. QED
    BY <2>2, <2>3, <2>6, <2>7 DEF LeftWith, LatestValue, NotSaid
<1>4. Typed /\ LatestInv => LatestWins
  BY <1>3 DEF LatestWins
<1>5. QED
  BY <1>1, <1>2, <1>4, TypedCorrect, PTL DEF Spec
=============================================================================
