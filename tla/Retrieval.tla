------------------------------- MODULE Retrieval -------------------------------
(***************************************************************************)
(* retrieval-service: one consumer of graph.changes that re-embeds changed *)
(* nodes, and HTTP threads that search, bootstrapping an organisation's    *)
(* index on its first query.  They share, without a lock, the LRU cache of *)
(* embeddings, the vector index and the set of bootstrapped organisations. *)
(* The text of a node is <<node, version>>; version 0: no such node.       *)
(***************************************************************************)
EXTENDS Naturals, Sequences, SequencesExt, FiniteSets

CONSTANTS
    Nodes, Orgs, OrgOf,      \* nodes, organisations, and the organisation of a node
    Client, Consumer,        \* HTTP threads (one request each), and the bus consumer
    None,                    \* nothing
    Query, Matches,          \* the query text, and the node texts that contain it
    Seeded,                  \* the nodes in the graph before the service starts
    CacheSize, Limit,        \* LRU maxsize, result limit of a search
    MaxVersion, MaxChanges,  \* bounds: versions of a node's text, events on graph.changes
    MaxFaults,               \* bound: errors of the embedding provider and restarts, together
    Durable                  \* TRUE: the index survives a restart (Qdrant)

ASSUME OrgsAssumption == OrgOf \in [Nodes -> Orgs] /\ IsFiniteSet(Nodes) /\ Seeded \subseteq Nodes
ASSUME ThreadsAssumption == Consumer \notin Client /\ IsFiniteSet(Client)
ASSUME TextsAssumption == None # Query /\ None \notin Nodes \X (0..MaxVersion)
ASSUME BoundsAssumption ==
    {CacheSize, Limit} \subseteq Nat /\ MaxVersion \in Nat \ {0} /\ MaxFaults \in Nat

VARIABLES
    graph,       \* node -> version of its text in Neo4j, 0 when absent
    unannounced, \* nodes written by graph-service and not yet on graph.changes
    changes,     \* topic graph.changes: sequence of sets of node ids
    offset,      \* events the consumer has finished with
    index,       \* VectorIndex: node -> [text, vector], or NoPoint
    cache,       \* CachedEmbedder._cache: [text, vector] in LRU order
    indexedOrgs, \* RetrievalService._indexed_orgs
    thread,      \* per thread: where it is and what it holds
    faults,      \* provider errors and restarts so far
    dead,        \* history: nodes of events that went to the dead-letter topic
    newest       \* history: the newest text that the point of a node was made from

vars == <<graph, unannounced, changes, offset, index, cache, indexedOrgs, thread,
          faults, dead, newest>>
external == <<graph, unannounced, changes>>

NoPoint == [text |-> None, vector |-> None]
MaxAttempts == 3
RrfK == 60
Threads == Client \cup {Consumer}

\* An embedder is deterministic: the vector of a text is named by the text.
VectorOf(text) == text

\* InMemoryVectorIndex begins empty; Qdrant's collection is created once and found again.
EmptyIndex == [n \in Nodes |-> NoPoint]
Reopened == IF Durable THEN index ELSE EmptyIndex

\* What the repository returns for a set of ids, and the texts made of it.
Present(nodes) == {n \in nodes : graph[n] # 0}
Texts(nodes) ==
    LET found == SetToSeq(Present(nodes)) IN [i \in 1..Len(found) |-> <<found[i], graph[found[i]]>>]
NodesOf(org) == {n \in Nodes : OrgOf[n] = org}

Cached(text) == \E i \in 1..Len(cache) : cache[i].text = text
Place(text) == CHOOSE i \in 1..Len(cache) : cache[i].text = text
Entry(text) == cache[Place(text)]

NoAnswer == [arms |-> <<>>, hits |-> <<>>]

Idle == [pc |-> "idle", goal |-> "index", org |-> None, attempt |-> 0, texts |-> <<>>,
         at |-> 1, vectors |-> <<>>, todo |-> {}, keyword |-> <<>>, answer |-> NoAnswer]

\* Thread t goes on as r; whatever else a step does is listed with it.
Become(t, r) == thread' = [thread EXCEPT ![t] = r]
Local(t, r) ==
    /\ Become(t, r)
    /\ UNCHANGED <<external, offset, index, cache, indexedOrgs, faults, dead, newest>>

-----------------------------------------------------------------------------
(* CachedEmbedder.embed *)

Missing(r) == {i \in 1..Len(r.texts) : r.vectors[i] = None}

\* embed(texts) starts; with no text index_nodes returns before it.
StartEmbed(r, texts) ==
    [r EXCEPT !.texts = texts, !.at = 1, !.todo = {},
              !.vectors = [i \in 1..Len(texts) |-> None],
              !.pc = IF texts = <<>> THEN "upserted" ELSE "lookup"]

\* The first loop moves on; after its last text the provider is asked for what is missing.
NextText(r) ==
    [r EXCEPT !.at = @ + 1,
              !.pc = IF r.at < Len(r.texts) THEN "lookup"
                     ELSE IF Missing(r) = {} THEN "embedded" ELSE "provider"]

\* An exception ends the request with a 500; the bus retries the consumer's handler,
\* then dead-letters the event.
Raise(t) ==
    IF t # Consumer
    THEN /\ Become(t, [Idle EXCEPT !.pc = "answered"])
         /\ UNCHANGED <<offset, dead>>
    ELSE IF thread[t].attempt < MaxAttempts
    THEN Become(t, [Idle EXCEPT !.pc = "fetch", !.attempt = thread[t].attempt + 1])
         /\ UNCHANGED <<offset, dead>>
    ELSE /\ Become(t, Idle)
         /\ offset' = offset + 1
         /\ dead' = dead \cup changes[offset + 1]

Lookup(t) ==
    LET r == thread[t] text == r.texts[r.at] IN
    /\ r.pc = "lookup"
    /\ Local(t, IF Cached(text)
         THEN [r EXCEPT !.vectors[r.at] = Entry(text).vector, !.pc = "touch"]
         ELSE NextText(r))

MovedToEnd(text) == Append(RemoveAt(cache, Place(text)), Entry(text))

\* move_to_end after a hit: the key may have been evicted since the lookup (KeyError).
Touch(t) ==
    LET r == thread[t] text == r.texts[r.at] IN
    /\ r.pc = "touch"
    /\ IF Cached(text)
       THEN /\ cache' = MovedToEnd(text)
            /\ Become(t, NextText(r))
            /\ UNCHANGED <<offset, dead>>
       ELSE Raise(t) /\ UNCHANGED cache
    /\ UNCHANGED <<external, index, indexedOrgs, faults, newest>>

\* mutant: the provider's rows are taken in the order they arrive
UnsortedRows(rows) == [k \in 1..Len(rows) |-> rows[k].embedding]
\* The rows sorted by index: the k-th is the one with k indexes up to its own.
ByIndex(rows) ==
    [k \in 1..Len(rows) |->
       (CHOOSE row \in ToSet(rows) :
           Cardinality({other \in ToSet(rows) : other.index <= row.index}) = k).embedding]

\* The place of text i in the request to the provider, which names the missing ones only.
RequestPlace(missing, i) == Cardinality({k \in missing : k <= i})
Row(texts, missing, i) ==
    [index |-> RequestPlace(missing, i), embedding |-> VectorOf(texts[i])]

\* The provider answers one row per text, in any order, or fails.
Provider(t) ==
    LET r == thread[t] missing == Missing(r) IN
    /\ r.pc = "provider"
    /\ \/ \E rows \in SetToSeqs({Row(r.texts, missing, i) : i \in missing}) :
            /\ Become(t, [r EXCEPT !.pc = "put", !.todo = missing,
                 !.vectors = [i \in 1..Len(r.texts) |->
                     IF i \in missing THEN ByIndex(rows)[RequestPlace(missing, i)]
                     ELSE r.vectors[i]]])
            /\ UNCHANGED <<offset, dead, faults>>
       \/ faults < MaxFaults /\ faults' = faults + 1 /\ Raise(t)
    /\ UNCHANGED <<external, index, cache, indexedOrgs, newest>>

Stored(entry) ==
    IF Cached(entry.text)
    THEN [j \in 1..Len(cache) |-> IF cache[j].text = entry.text THEN entry ELSE cache[j]]
    ELSE Append(cache, entry)

\* _store: set the entry (a new key goes last) ...
Put(t) ==
    LET r == thread[t] i == Min(r.todo)
        entry == [text |-> r.texts[i], vector |-> r.vectors[i]]
    IN
    /\ r.pc = "put"
    /\ cache' = Stored(entry)
    /\ Become(t, [r EXCEPT !.pc = "trim"])
    /\ UNCHANGED <<external, offset, index, indexedOrgs, faults, dead, newest>>

\* mutant: eviction stops one entry early
EvictedLate(entries) == SubSeq(entries, Len(entries) - CacheSize, Len(entries))
Evicted(entries) == SubSeq(entries, Len(entries) - CacheSize + 1, Len(entries))

\* ... then move it to the end and evict the oldest ones.
Trim(t) ==
    LET r == thread[t] i == Min(r.todo) text == r.texts[i] IN
    /\ r.pc = "trim"
    /\ IF Cached(text)
       THEN /\ cache' = IF Len(cache) > CacheSize THEN Evicted(MovedToEnd(text))
                        ELSE MovedToEnd(text)
            /\ Become(t, [r EXCEPT !.todo = @ \ {i},
                                   !.pc = IF r.todo = {i} THEN "embedded" ELSE "put"])
            /\ UNCHANGED <<offset, dead>>
       ELSE Raise(t) /\ UNCHANGED cache
    /\ UNCHANGED <<external, index, indexedOrgs, faults, newest>>

-----------------------------------------------------------------------------
(* Indexing *)

\* on_change takes the next event and reads its nodes.
Poll(t) ==
    /\ t = Consumer /\ thread[t].pc = "idle" /\ offset < Len(changes)
    /\ Local(t, [Idle EXCEPT !.pc = "fetch", !.attempt = 1])

\* mutant: nodes that already have a point are skipped
FetchUnindexed(t) ==
    /\ thread[t].pc = "fetch"
    /\ Local(t, StartEmbed(thread[t], Texts({n \in changes[offset + 1] : index[n] = NoPoint})))
Fetch(t) ==
    /\ thread[t].pc = "fetch"
    /\ Local(t, StartEmbed(thread[t], Texts(changes[offset + 1])))

\* VectorIndex.upsert: one point per node, replaced whole.
WithPoints(texts, vectors) ==
    [n \in Nodes |->
       LET is == {i \in 1..Len(texts) : texts[i][1] = n} IN
       IF is = {} THEN index[n]
       ELSE LET i == CHOOSE i \in is : TRUE IN [text |-> texts[i], vector |-> vectors[i]]]

\* index_nodes, when its texts are embedded.
Upsert(t) ==
    LET r == thread[t] IN
    /\ r.pc = "embedded" /\ r.goal = "index"
    /\ index' = WithPoints(r.texts, r.vectors)
    /\ newest' = [n \in Nodes |-> IF index'[n] # NoPoint /\ index'[n].text[2] > newest[n]
                                   THEN index'[n].text[2] ELSE newest[n]]
    /\ Become(t, [Idle EXCEPT !.pc = "upserted", !.org = r.org])
    /\ UNCHANGED <<external, offset, cache, indexedOrgs, faults, dead>>

\* The handler has returned and its offset is committed.
Commit(t) ==
    /\ t = Consumer /\ thread[t].pc = "upserted"
    /\ offset' = offset + 1
    /\ Become(t, Idle)
    /\ UNCHANGED <<external, index, cache, indexedOrgs, faults, dead, newest>>

-----------------------------------------------------------------------------
(* HTTP requests: POST /search and GET /index/stats, which both ensure the index first *)

\* A request without X-Org-Id is answered 401.
Request(t, org) ==
    /\ t \in Client /\ thread[t].pc = "idle"
    /\ Local(t, IF org = None THEN [Idle EXCEPT !.pc = "answered"]
         ELSE [Idle EXCEPT !.pc = "ensure", !.org = org])

\* mutant: the organisation counts as bootstrapped before its nodes are embedded
EnsureMarksFirst(t) ==
    LET r == thread[t] IN
    /\ r.pc = "ensure"
    /\ Become(t, IF r.org \in indexedOrgs THEN [r EXCEPT !.pc = "ready"]
                 ELSE StartEmbed(r, Texts(NodesOf(r.org))))
    /\ indexedOrgs' = indexedOrgs \cup {r.org}
    /\ UNCHANGED <<external, offset, index, cache, faults, dead, newest>>
\* ensure_indexed: nothing when the organisation is known, else embed all its nodes ...
Ensure(t) ==
    LET r == thread[t] IN
    /\ r.pc = "ensure"
    /\ Local(t, IF r.org \in indexedOrgs THEN [r EXCEPT !.pc = "ready"]
         ELSE StartEmbed(r, Texts(NodesOf(r.org))))

\* ... and remember it.
MarkIndexed(t) ==
    /\ t \in Client /\ thread[t].pc = "upserted"
    /\ indexedOrgs' = indexedOrgs \cup {thread[t].org}
    /\ Become(t, [Idle EXCEPT !.pc = "ready", !.org = thread[t].org])
    /\ UNCHANGED <<external, offset, index, cache, faults, dead, newest>>

\* The keyword arm; then the query is embedded.
Keyword(t) ==
    LET r == thread[t]
        hits == SetToSeq({n \in Present(NodesOf(r.org)) : <<n, graph[n]>> \in Matches})
    IN
    /\ r.pc = "ready"
    /\ Local(t, StartEmbed([r EXCEPT !.keyword = hits, !.goal = "query"], <<Query>>))

VectorLimit == IF 2 * Limit > 20 THEN 2 * Limit ELSE 20
OrgPoints(org) == {n \in Nodes : OrgOf[n] = org /\ index[n] # NoPoint}

FirstOf(s, k) == SubSeq(s, 1, IF Len(s) < k THEN Len(s) ELSE k)

\* VectorIndex.search: the points of the organisation by similarity, as far as `limit`.
Nearest(org) == {FirstOf(ranking, VectorLimit) : ranking \in SetToSeqs(OrgPoints(org))}

\* Reciprocal-rank fusion.  The score of an id is num / den, the sum of 1/(k + rank) over
\* the arms that found it; the sort is stable, ids of the first arm come first.
RankIn(arm, n) == CHOOSE i \in 1..Len(arm) : arm[i] = n
\* mutant: the last arm's term replaces the sum
LastArm(arms, n) == IF n \in ToSet(arms[2]) THEN <<1, RrfK + RankIn(arms[2], n)>>
                    ELSE <<1, RrfK + RankIn(arms[1], n)>>
Score(arms, n) ==
    LET weight(a) == IF n \in ToSet(arms[a]) THEN RrfK + RankIn(arms[a], n) ELSE 0
        x == weight(1) y == weight(2)
    IN  IF x = 0 THEN <<1, y>> ELSE IF y = 0 THEN <<1, x>> ELSE <<x + y, x * y>>
Inserted(arms, n) == IF n \in ToSet(arms[1]) THEN RankIn(arms[1], n)
                     ELSE Len(arms[1]) + RankIn(arms[2], n)
Before(arms, m, n) ==
    LET p == Score(arms, m) q == Score(arms, n)
        left == p[1] * q[2] right == q[1] * p[2]
    IN  left > right \/ (left = right /\ Inserted(arms, m) < Inserted(arms, n))
\* Sorted: the id at place i is the one that i - 1 others come before.
Fused(arms) ==
    LET all == ToSet(arms[1]) \cup ToSet(arms[2]) IN
    [i \in 1..Cardinality(all) |->
       CHOOSE n \in all : Cardinality({m \in all : Before(arms, m, n)}) = i - 1]

\* get_node of the first ids: those that are there, in their order.
Hits(ids) ==
    LET there == {i \in DOMAIN ids : graph[ids[i]] # 0} IN
    [k \in 1..Cardinality(there) |->
       ids[CHOOSE i \in there : Cardinality({j \in there : j <= i}) = k]]

VectorSearch(t) ==
    LET r == thread[t] IN
    /\ r.pc = "embedded" /\ r.goal = "query"
    /\ \E nearest \in Nearest(r.org) :
         LET arms == <<r.keyword, nearest>> IN
         Local(t, [Idle EXCEPT !.pc = "answered", !.goal = "search",
                     !.answer = [arms |-> arms, hits |-> Hits(FirstOf(Fused(arms), Limit))]])

Count(t) ==
    LET r == thread[t] IN
    /\ r.pc = "ready"
    /\ Local(t, [Idle EXCEPT !.pc = "answered", !.goal = "stats"])

-----------------------------------------------------------------------------
(* The graph and the process *)

\* graph-service writes a node, and announces what it wrote in one event.
Write(n) ==
    /\ graph[n] < MaxVersion /\ Len(changes) < MaxChanges
    /\ graph' = [graph EXCEPT ![n] = @ + 1]
    /\ unannounced' = unannounced \cup {n}
    /\ UNCHANGED <<changes, offset, index, cache, indexedOrgs, thread, faults, dead, newest>>

Announce ==
    /\ unannounced # {} /\ Len(changes) < MaxChanges
    /\ changes' = Append(changes, unannounced)
    /\ unannounced' = {}
    /\ UNCHANGED <<graph, offset, index, cache, indexedOrgs, thread, faults, dead, newest>>

Init ==
    /\ graph = [n \in Nodes |-> IF n \in Seeded THEN 1 ELSE 0]
    /\ unannounced = {} /\ changes = <<>> /\ offset = 0
    /\ index = EmptyIndex
    /\ cache = <<>> /\ indexedOrgs = {}
    /\ thread = [t \in Threads |-> Idle]
    /\ faults = 0 /\ dead = {} /\ newest = [n \in Nodes |-> 0]

\* Cache and _indexed_orgs live in the process, the index in Qdrant, the offset in Kafka.
Restart ==
    /\ faults < MaxFaults /\ faults' = faults + 1
    /\ cache' = <<>> /\ indexedOrgs' = {}
    /\ thread' = [t \in Threads |-> IF thread[t].pc = "answered" THEN thread[t] ELSE Idle]
    /\ index' = Reopened
    /\ newest' = IF Durable THEN newest ELSE [n \in Nodes |-> 0]
    /\ UNCHANGED <<external, offset, dead>>

Step(t) ==
    \/ Lookup(t) \/ Touch(t) \/ Provider(t) \/ Put(t) \/ Trim(t)
    \/ Poll(t) \/ Fetch(t) \/ Upsert(t) \/ Commit(t)
    \/ Ensure(t) \/ MarkIndexed(t) \/ Keyword(t) \/ VectorSearch(t) \/ Count(t)

Next ==
    \/ \E n \in Nodes : Write(n)
    \/ Announce \/ Restart
    \/ \E t \in Client, org \in Orgs \cup {None} : Request(t, org)
    \/ \E t \in Threads : Step(t)

Spec == Init /\ [][Next]_vars

-----------------------------------------------------------------------------

\* The LRU cache exceeds maxsize only by the entries of threads inside _store.
CacheIsBounded ==
    Len(cache) <= CacheSize + Cardinality({t \in Threads : thread[t].pc = "trim"})

\* Every variable holds a value of its type, and the cache keeps to its bound.
TypeOK ==
    /\ graph \in [Nodes -> 0..MaxVersion] /\ unannounced \subseteq Nodes
    /\ changes \in Seq(SUBSET Nodes) /\ offset \in 0..Len(changes)
    /\ \A n \in Nodes : index[n] = NoPoint \/ index[n].text[1] = n
    /\ \A i, j \in 1..Len(cache) : cache[i].text = cache[j].text => i = j
    /\ indexedOrgs \subseteq Orgs /\ dead \subseteq Nodes /\ newest \in [Nodes -> 0..MaxVersion]
    /\ DOMAIN thread = Threads
    /\ CacheIsBounded

\* An embedding is used for the text it was computed from, in the cache and in the index,
\* whatever the order of the provider's rows and of the threads (embeddings.py embed).
VectorsMatchTexts ==
    /\ \A i \in 1..Len(cache) : cache[i].vector = VectorOf(cache[i].text)
    /\ \A n \in Nodes : index[n] # NoPoint => index[n].vector = VectorOf(index[n].text)

Pending(n) == n \in unannounced \/ \E i \in (offset + 1)..Len(changes) : n \in changes[i]

\* An organisation that counts as bootstrapped has a point for every node it has, save
\* nodes whose change is still to be consumed or was dead-lettered (ensure_indexed).
IndexedOrgsAreCovered ==
    \A n \in Nodes : OrgOf[n] \in indexedOrgs /\ graph[n] # 0 =>
        index[n] # NoPoint \/ Pending(n) \/ n \in dead

\* Re-embedding on graph.changes leaves only these points behind the graph: changes still
\* to be consumed, dead-lettered ones, and points a bootstrap overwrote with older text.
StalePointsAreExplained ==
    \A n \in Nodes : index[n] # NoPoint /\ index[n].text[2] < graph[n] =>
        \/ Pending(n) \/ n \in dead \/ index[n].text[2] < newest[n]

\* A search returns an id both arms found before it returns one that a single arm found.
AgreedHitsFirst ==
    \A t \in Client : thread[t].pc = "answered" /\ thread[t].goal = "search" =>
        LET a == thread[t].answer both == ToSet(a.arms[1]) \cap ToSet(a.arms[2]) IN
        \A i \in 1..Len(a.hits) : a.hits[i] \notin both =>
            both \subseteq ToSet(SubSeq(a.hits, 1, i - 1))
=============================================================================
