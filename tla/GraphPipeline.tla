------------------------------ MODULE GraphPipeline -----------------------------
(***************************************************************************)
(* From extracted entities to risk: the graph service (graph/worker.py)    *)
(* writes batches of entities into the shared graph and announces the      *)
(* nodes it touched; the ranking service (ranking/worker.py) reads the     *)
(* neighborhood of each, writes the urgency back and announces the risks.  *)
(* Every call of the repository is a transaction of its own; the bus       *)
(* retries, dead-letters, redelivers after a crash, and may hand a batch   *)
(* to a second worker while the first, evicted, still runs (KafkaBus).     *)
(***************************************************************************)
EXTENDS GraphStore, Sequences

CONSTANTS Worker,       \* processes of the graph service
          Batches,      \* extracted batches that may arrive
          ReasonAt,     \* reason_at, the threshold of risk.scored
          MaxRetries,   \* max_retries of the bus
          MaxBatches,   \* bound: batches that arrive
          MaxFaults,    \* bound: calls that raise, and process crashes
          MaxEvictions  \* bound: graph workers that miss their poll deadline

\* What EntitiesExtracted carries: nodes and the edges asserted between them.
Batch ==
    [nodes : Seq([key : Key, value : Value \cup {Unset}]),
     edges : Seq([id : EdgeId, conf : Confidence])]

ASSUME PipelineAssumption ==
    /\ Batches \subseteq Batch
    /\ ReasonAt \in Nat \ {0}  \* a new node, of urgency 0, is not a risk
    /\ MaxRetries \in Nat \ {0}
    /\ {MaxBatches, MaxFaults, MaxEvictions} \subseteq Nat

VARIABLES batches,  \* topic entities.extracted
          acked,    \* its committed offset
          owner,    \* the graph worker its partition is assigned to
          work,     \* what each graph worker is doing
          changes,  \* topic graph.changes
          ranked,   \* its committed offset
          rank,     \* what the ranking worker is doing
          risks,    \* what was published on risk.scored
          dead,     \* batches in the dead-letter topic
          unranked, \* changes in the dead-letter topic
          dirty,    \* history: nodes written since ranking last read them
          budget    \* what is left of each bounded fault

topicVars == <<batches, acked, owner>>
rankVars == <<ranked, rank, risks, unranked>>
vars == <<storeVars, topicVars, work, changes, rankVars, dead, dirty, budget>>

Idle == [pc |-> "idle", batch |-> 0, next |-> 1, attempt |-> 1]
RankIdle == [pc |-> "idle", next |-> 1, attempt |-> 1, score |-> 0]

Spend(what) == budget[what] > 0 /\ budget' = [budget EXCEPT ![what] = @ - 1]

Init ==
    /\ StoreInit
    /\ batches = <<>> /\ acked = 0
    /\ owner \in Worker
    /\ work = [w \in Worker |-> Idle]
    /\ changes = <<>> /\ ranked = 0
    /\ rank = RankIdle
    /\ risks = {} /\ dead = {} /\ unranked = {} /\ dirty = {}
    /\ budget = [fault |-> MaxFaults, evict |-> MaxEvictions]

-----------------------------------------------------------------------------
\* The graph service.
Extract(b) ==
    /\ Len(batches) < MaxBatches
    /\ batches' = Append(batches, b)
    /\ UNCHANGED <<storeVars, acked, owner, work, changes, rankVars, dead, dirty, budget>>

Current(w) == batches[work[w].batch]
BatchKeys(b) == {b.nodes[i].key : i \in DOMAIN b.nodes}

\* Lines 47-50: an edge with an end outside of the batch is skipped.
Writable(b) == {i \in DOMAIN b.edges : {b.edges[i].id[2], b.edges[i].id[3]} \subseteq BatchKeys(b)}

Begin(w) ==
    /\ work[w].pc = "idle" /\ owner = w
    /\ acked < Len(batches)
    /\ work' = [work EXCEPT ![w] = [Idle EXCEPT !.pc = "nodes", !.batch = acked + 1]]
    /\ UNCHANGED <<storeVars, topicVars, changes, rankVars, dead, dirty, budget>>

\* One turn of the loop of lines 36-42.
WriteNode(w) ==
    /\ work[w].pc = "nodes"
    /\ work[w].next <= Len(Current(w).nodes)
    /\ LET n == Current(w).nodes[work[w].next] IN
         /\ UpsertNode(n.key, n.value, work[w].batch)
         /\ dirty' = dirty \cup {n.key}
    /\ work' = [work EXCEPT ![w].next = @ + 1]
    /\ UNCHANGED <<topicVars, changes, rankVars, dead, budget>>

\* discover() (discovery.py) returns the event's edges: its other tiers find none.
NodesWritten(w) ==
    /\ work[w].pc = "nodes"
    /\ work[w].next > Len(Current(w).nodes)
    /\ work' = [work EXCEPT ![w].pc = "edges", ![w].next = 1]
    /\ UNCHANGED <<storeVars, topicVars, changes, rankVars, dead, dirty, budget>>

\* One turn of the loop of lines 46-55.
WriteEdge(w) ==
    /\ work[w].pc = "edges"
    /\ work[w].next <= Len(Current(w).edges)
    /\ LET e == Current(w).edges[work[w].next] IN
         IF work[w].next \in Writable(Current(w))
         THEN /\ UpsertEdge(e.id, e.conf, work[w].batch)
              /\ dirty' = dirty \cup {e.id[2], e.id[3]}
         ELSE UNCHANGED <<storeVars, dirty>>
    /\ work' = [work EXCEPT ![w].next = @ + 1]
    /\ UNCHANGED <<topicVars, changes, rankVars, dead, budget>>

AnnounceFirst(w) == \* mutant: only a batch without edges is announced in full
    /\ work[w].pc = "edges"
    /\ work[w].next > Len(Current(w).edges)
    /\ changes' = IF Current(w).nodes = <<>> THEN changes
                  ELSE Append(changes, <<Current(w).nodes[1].key>>)
    /\ work' = [work EXCEPT ![w].pc = "commit"]
    /\ UNCHANGED <<storeVars, topicVars, rankVars, dead, dirty, budget>>

\* Lines 59-67: the touched nodes are announced, if there are any.
Announce(w) ==
    /\ work[w].pc = "edges"
    /\ work[w].next > Len(Current(w).edges)
    /\ changes' = IF Current(w).nodes = <<>> THEN changes
                  ELSE Append(changes, [i \in DOMAIN Current(w).nodes |-> Current(w).nodes[i].key])
    /\ work' = [work EXCEPT ![w].pc = "commit"]
    /\ UNCHANGED <<storeVars, topicVars, rankVars, dead, dirty, budget>>

RetryLeftOffByOne(attempt) == attempt <= MaxRetries \* mutant
RetryLeft(attempt) == attempt < MaxRetries

\* A call of the handler raises: it starts over, or the batch is dead-lettered.
HandlerRaises(w) ==
    /\ work[w].pc \in {"nodes", "edges"}
    /\ Spend("fault")
    /\ IF RetryLeft(work[w].attempt)
       THEN /\ work' = [work EXCEPT ![w].pc = "nodes", ![w].next = 1, ![w].attempt = @ + 1]
            /\ UNCHANGED dead
       ELSE /\ work' = [work EXCEPT ![w].pc = "commit"]
            /\ dead' = dead \cup {work[w].batch}
    /\ UNCHANGED <<storeVars, topicVars, changes, rankVars, dirty>>

\* The owner commits; a worker that lost the partition is fenced and its thread ends.
CommitBatch(w) ==
    /\ work[w].pc = "commit"
    /\ IF owner = w
       THEN /\ acked' = work[w].batch
            /\ work' = [work EXCEPT ![w] = Idle]
       ELSE /\ work' = [work EXCEPT ![w] = [Idle EXCEPT !.pc = "stopped"]]
            /\ UNCHANGED acked
    /\ UNCHANGED <<storeVars, batches, owner, changes, rankVars, dead, dirty, budget>>

\* The partition goes to another live worker while its owner still runs.
Evict(w) ==
    /\ owner # w /\ work[w].pc = "idle"
    /\ Spend("evict")
    /\ owner' = w
    /\ UNCHANGED <<storeVars, batches, acked, work, changes, rankVars, dead, dirty>>

Crash(w) ==
    /\ work[w].pc # "idle"
    /\ Spend("fault")
    /\ work' = [work EXCEPT ![w] = Idle]
    /\ UNCHANGED <<storeVars, topicVars, changes, rankVars, dead, dirty>>

-----------------------------------------------------------------------------
\* The ranking service.
CurrentChange == changes[ranked + 1]

\* A repeated node is handled once: dict.fromkeys keeps its first occurrence.
Repeated == \E i \in 1..(rank.next - 1) : CurrentChange[i] = CurrentChange[rank.next]

RankBegin ==
    /\ rank.pc = "idle"
    /\ ranked < Len(changes)
    /\ rank' = [RankIdle EXCEPT !.pc = "read"]
    /\ UNCHANGED <<storeVars, topicVars, work, changes, ranked, risks, unranked, dead,
                   dirty, budget>>

Worst(S) ==
    LET values == {0} \cup {nodes[k].value : k \in {j \in S : nodes[j].value # Unset}}
    IN CHOOSE v \in values : \A u \in values : u <= v

\* Scoring, abstracted to its dependence on the neighborhood: the worst value there.
Score(k) == Worst(Neighborhood(k))

\* Lines 39-44: the neighborhood is read and scored; a missing node is skipped.
RankRead ==
    /\ rank.pc = "read"
    /\ rank.next <= Len(CurrentChange)
    /\ LET k == CurrentChange[rank.next] IN
         IF Repeated \/ k \notin DOMAIN nodes
         THEN /\ rank' = [rank EXCEPT !.next = @ + 1]
              /\ UNCHANGED dirty
         ELSE /\ rank' = [rank EXCEPT !.pc = "write", !.score = Score(k)]
              /\ dirty' = dirty \ {k}
    /\ UNCHANGED <<storeVars, topicVars, work, changes, ranked, risks, unranked, dead, budget>>

\* Line 45.
RankWrite ==
    /\ rank.pc = "write"
    /\ SetUrgency(CurrentChange[rank.next], rank.score)
    /\ rank' = [rank EXCEPT !.pc = "publish"]
    /\ UNCHANGED <<topicVars, work, changes, ranked, risks, unranked, dead, dirty, budget>>

CrossingOnly(k, score) == \* mutant: a risk that was announced with any score is old news
    \A r \in risks : r[1] # k

RiskScored(k, score) == <<k, score>>

\* Line 50.
Announced(k, score) == score >= ReasonAt

\* Lines 50-60.
RankPublish ==
    /\ rank.pc = "publish"
    /\ LET k == CurrentChange[rank.next] IN
         risks' = IF Announced(k, rank.score) THEN risks \cup {RiskScored(k, rank.score)} ELSE risks
    /\ rank' = [rank EXCEPT !.pc = "read", !.next = @ + 1]
    /\ UNCHANGED <<storeVars, topicVars, work, changes, ranked, unranked, dead, dirty, budget>>

RankCommit ==
    /\ rank.pc = "read"
    /\ rank.next > Len(CurrentChange)
    /\ ranked' = ranked + 1
    /\ rank' = RankIdle
    /\ UNCHANGED <<storeVars, topicVars, work, changes, risks, unranked, dead, dirty, budget>>

RankRaises ==
    /\ rank.pc \in {"read", "write", "publish"}
    /\ rank.next <= Len(CurrentChange)
    /\ Spend("fault")
    /\ IF RetryLeft(rank.attempt)
       THEN /\ rank' = [RankIdle EXCEPT !.pc = "read", !.attempt = rank.attempt + 1]
            /\ UNCHANGED unranked
       ELSE /\ rank' = [rank EXCEPT !.pc = "read", !.next = Len(CurrentChange) + 1]
            /\ unranked' = unranked \cup {ranked + 1}
    /\ UNCHANGED <<storeVars, topicVars, work, changes, ranked, risks, dead, dirty>>

RankCrash ==
    /\ rank.pc # "idle"
    /\ Spend("fault")
    /\ rank' = RankIdle
    /\ UNCHANGED <<storeVars, topicVars, work, changes, ranked, risks, unranked, dead, dirty>>

-----------------------------------------------------------------------------
GraphStep(w) ==
    \/ Begin(w) \/ WriteNode(w) \/ NodesWritten(w) \/ WriteEdge(w)
    \/ Announce(w) \/ CommitBatch(w)

RankStep == RankBegin \/ RankRead \/ RankWrite \/ RankPublish \/ RankCommit

Next ==
    \/ \E b \in Batches : Extract(b)
    \/ \E w \in Worker : GraphStep(w) \/ HandlerRaises(w) \/ Evict(w) \/ Crash(w)
    \/ RankStep \/ RankRaises \/ RankCrash

Spec == Init /\ [][Next]_vars

-----------------------------------------------------------------------------
TypeOK ==
    /\ DOMAIN nodes \subseteq Key /\ nodes \in [DOMAIN nodes -> NodeRecord]
    /\ DOMAIN edges \subseteq EdgeId /\ edges \in [DOMAIN edges -> EdgeRecord]
    /\ batches \in Seq(Batches)
    /\ acked \in 0..Len(batches)
    /\ owner \in Worker
    /\ work \in [Worker ->
         [pc : {"idle", "nodes", "edges", "commit", "stopped"}, batch : 0..Len(batches),
          next : Nat \ {0}, attempt : 1..MaxRetries]]
    /\ changes \in Seq(Seq(Key))
    /\ ranked \in 0..Len(changes)
    /\ rank \in [pc : {"idle", "read", "write", "publish"}, next : Nat \ {0},
                 attempt : 1..MaxRetries, score : Nat]
    /\ risks \subseteq Key \X Nat
    /\ dead \subseteq Nat
    /\ unranked \subseteq Nat
    /\ dirty \subseteq Key

\* Everything that arrived was handled and nobody is in the middle of anything.
GraphQuiet ==
    /\ acked = Len(batches)
    /\ \A w \in Worker : work[w].pc \in {"idle", "stopped"}
Quiet == GraphQuiet /\ ranked = Len(changes) /\ rank.pc = "idle"

Written == {k \in 1..acked : k \notin dead}
AssertedNodes == UNION {BatchKeys(batches[i]) : i \in Written}
EdgesOf(b) == {b.edges[j] : j \in Writable(b)}
AssertedEdges == UNION {EdgesOf(batches[i]) : i \in Written}
Asserting(e) == {i \in Written : e \in {d.id : d \in EdgesOf(batches[i])}}

(***************************************************************************)
(* "replayed or re-synced events converge onto the same node instead of    *)
(* duplicating": once all batches are handled, the edges, their best       *)
(* confidence and their provenance are what the batches assert, whatever   *)
(* was retried, redelivered or written late by an evicted worker.          *)
(***************************************************************************)
Converges ==
    GraphQuiet /\ dead = {} =>
        /\ DOMAIN nodes = AssertedNodes
        /\ DOMAIN edges = {e.id : e \in AssertedEdges}
        /\ \A e \in DOMAIN edges :
             /\ edges[e].prov = Asserting(e)
             /\ edges[e].conf \in {d.conf : d \in {a \in AssertedEdges : a.id = e}}
             /\ \A d \in AssertedEdges : d.id = e => d.conf <= edges[e].conf

\* The value the batches in order leave a node with: the last that was mentioned.
Mentions(k) ==
    {m \in UNION {{i} \X DOMAIN batches[i].nodes : i \in 1..acked} :
        /\ batches[m[1]].nodes[m[2]].key = k
        /\ batches[m[1]].nodes[m[2]].value # Unset}
LatestValue(k) ==
    IF Mentions(k) = {} THEN Unset
    ELSE LET m == CHOOSE x \in Mentions(k) : \A y \in Mentions(k) :
                    y[1] < x[1] \/ (y[1] = x[1] /\ y[2] <= x[2])
         IN batches[m[1]].nodes[m[2]].value

Evicted == budget.evict < MaxEvictions

(***************************************************************************)
(* "per-org ordering is preserved": unless a worker was evicted, a node    *)
(* ends with the values of the latest batch that mentions them, and a      *)
(* mention without a value erases nothing.                                 *)
(***************************************************************************)
LatestWins ==
    GraphQuiet /\ dead = {} /\ ~Evicted =>
        \A k \in DOMAIN nodes : nodes[k].value = LatestValue(k)

(***************************************************************************)
(* No write goes unnoticed: when everything is handled, ranking has read   *)
(* each node after its last write, unless something was dead-lettered or a *)
(* worker was evicted (an evicted worker that dies after a late write      *)
(* announces it to nobody).                                                *)
(***************************************************************************)
WritesAreRanked ==
    Quiet /\ dead \cup unranked = {} /\ ~Evicted => dirty = {}

(***************************************************************************)
(* A node at or above the reasoning threshold has been announced with the  *)
(* urgency the graph shows for it, through retries, crashes and evictions. *)
(***************************************************************************)
RisksAreAnnounced ==
    Quiet /\ unranked = {} =>
        \A k \in DOMAIN nodes :
            nodes[k].urgency >= ReasonAt => <<k, nodes[k].urgency>> \in risks
=============================================================================
