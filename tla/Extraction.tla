------------------------------ MODULE Extraction ------------------------------
(***************************************************************************)
(* From the objects of the sources to the graph on the in-memory bus (the  *)
(* composition of tools/wiring.py): connectors and the webhook normalize   *)
(* objects into raw events, or the mock connector replays synthetic ones;  *)
(* the entity service extracts nodes and edges; the graph service writes   *)
(* them one by one and announces them.  A handler that raises is retried   *)
(* from its start, and after that its event is dead-lettered.              *)
(*                                                                         *)
(* An external id or natural key is a tuple of its parts.  A text is the   *)
(* sequence of the references in it.  Of the properties of a node those    *)
(* that say how it stands are kept, and of the attributes of an event      *)
(* those that extraction reads.  What follows graph.changes is in          *)
(* GraphPipeline.tla, and the same handlers on Kafka in KafkaBus.tla.      *)
(***************************************************************************)
EXTENDS Naturals, Sequences, FiniteSets, SequencesExt

CONSTANTS Objects,     \* objects of the real sources
          Scenarios,   \* lists of synthetic raw events
          Null,        \* None
          MaxRetries,  \* max_retries of the bus
          MaxArrivals, \* bound: scenarios, polled objects and deliveries
          MaxFaults    \* bound: calls of a handler that raise

ASSUME ExtractionAssumption ==
    /\ MaxRetries \in Nat \ {0}
    /\ {MaxArrivals, MaxFaults} \subseteq Nat

VARIABLES queue,     \* _queue of the bus: topics and events
          job,       \* the delivery drain() is in
          dead,      \* _dlq
          nodes,     \* the graph: from natural keys to properties
          edges,     \* the graph: <<type, from, to>>
          announced, \* keys that were published on graph.changes
          arrived,   \* history: raw events that were published
          budget

graphVars == <<nodes, edges, announced>>
vars == <<queue, job, dead, graphVars, arrived, budget>>

-----------------------------------------------------------------------------
\* Raw events.
Raw(source, kind, id, actor, text, attributes) ==
    [source |-> source, kind |-> kind, id |-> id, actor |-> actor, text |-> text,
     attributes |-> attributes]

GitHubId(o, mark) == <<"github", o.repo, mark, o.id>>

NormalizedPullRequest(o) ==
    Raw("github", "pull_request", GitHubId(o, "#pr"), o.user, o.text, [repo |-> o.repo])

NormalizedGitHubIssue(o) ==
    Raw("github", "issue", GitHubId(o, "#issue"), o.user, o.text, [repo |-> o.repo])

\* The list of commits and the push delivery name the commit by the same sha.
NormalizedCommit(o) ==
    Raw("github", "commit", GitHubId(o, "@"), o.user, o.text, [repo |-> o.repo])
NormalizedPushCommit(o) ==
    Raw("github", "commit", GitHubId(o, "@"), o.user, o.text, [repo |-> o.repo])

NormalizedRelease(o) ==
    Raw("github", "release", GitHubId(o, "#release"), o.user, o.text, [repo |-> o.repo])

NormalizedMessage(o) ==
    Raw("slack", "message", <<"slack", o.channel, o.id>>, o.user, o.text, [channel |-> o.channel])

NormalizedJiraIssue(o) ==
    Raw("jira", "issue", <<"jira", o.id>>, o.user, o.text,
        [key |-> o.id, status |-> o.status])

NormalizedPage(o) ==
    Raw("notion", "page", <<"notion", o.id>>, o.user, <<>>, <<>>)

NormalizedEvent(o) ==
    Raw("calendar", "event", <<"calendar", "primary", o.id>>, o.user, o.text, <<>>)

NormalizedIncident(o) ==
    Raw("pagerduty", "incident", <<"pagerduty", o.id>>, o.user, o.text,
        [status |-> o.status, service |-> o.service])

Normalized(o) ==
    CASE o.form = "pull" -> NormalizedPullRequest(o)
      [] o.form = "issue" -> NormalizedGitHubIssue(o)
      [] o.form = "commit" -> NormalizedCommit(o)
      [] o.form = "release" -> NormalizedRelease(o)
      [] o.form = "message" -> NormalizedMessage(o)
      [] o.form = "ticket" -> NormalizedJiraIssue(o)
      [] o.form = "page" -> NormalizedPage(o)
      [] o.form = "meeting" -> NormalizedEvent(o)
      [] o.form = "incident" -> NormalizedIncident(o)

\* The webhook knows four kinds of delivery; any other is acknowledged with no event.
ParsedDelivery(o) ==
    CASE o.form \in {"pull", "issue", "release"} -> <<Normalized(o)>>
      [] o.form = "commit" -> <<NormalizedPushCommit(o)>>
      [] OTHER -> <<>>

-----------------------------------------------------------------------------
\* Extraction. A rule yields the node of the event, and links: another node each, with
\* an edge.
Node(key, props) == [key |-> key, props |-> props]
Link(node, type, from, to) == [node |-> node, edge |-> <<type, from, to>>]
When(condition, links) == IF condition THEN links ELSE <<>>

Get(raw, name) == IF name \in DOMAIN raw.attributes THEN raw.attributes[name] ELSE Null
GetAll(raw, name) == IF Get(raw, name) = Null THEN <<>> ELSE Get(raw, name)

Listed(s) == s \in Seq(ToSet(s))

\* What a source or a file may hand over: a text is a list of references, and so are the
\* attributes that extraction goes through as lists.
Readable(raw) ==
    /\ Listed(raw.text)
    /\ \A name \in {"touches_services", "blocks", "blocked_by_incidents", "references_projects"} :
          Listed(GetAll(raw, name))

ASSUME InputAssumption ==
    /\ \A o \in Objects :
          /\ o.form \in {"pull", "issue", "commit", "release", "message", "ticket", "page",
                         "meeting", "incident"}
          /\ Listed(o.text)
    /\ \A events \in Scenarios :
          Listed(events) /\ \A i \in DOMAIN events : Readable(events[i])

Batch(raw, root, links) ==
    [source_event_id |-> raw.id,
     nodes |-> root \o [i \in DOMAIN links |-> links[i].node],
     edges |-> [i \in DOMAIN links |-> links[i].edge]]

\* The elements at these places, in their order.
Picked(s, places) ==
    [i \in 1..Cardinality(places) |->
        s[CHOOSE k \in places : Cardinality({j \in places : j <= k}) = i]]

\* A reference is a pair of a project and a number. The pattern of the Jira keys
\* matches every one of them; that of the incidents those of the project INC.
Ticket(ref) == <<"jira", ref>>
Incident(ref) == <<"pd", ref>>

TextRefsAsserted(raw, type) == \* mutant: a mention says that the ticket has no status
    [i \in DOMAIN raw.text |->
        Link(Node(Ticket(raw.text[i]), [status |-> Null]), type, raw.id, Ticket(raw.text[i]))]

TextRefs(raw, type) ==
    LET incidents == Picked(raw.text, {i \in DOMAIN raw.text : raw.text[i][1] = "INC"})
    IN [i \in DOMAIN raw.text |->
           Link(Node(Ticket(raw.text[i]), <<>>), type, raw.id, Ticket(raw.text[i]))]
       \o [i \in DOMAIN incidents |->
           Link(Node(Incident(incidents[i]), <<>>), type, raw.id, Incident(incidents[i]))]

ExtractedPull(raw) ==
    LET person == <<"person", raw.actor>>
        repo == <<"repo", Get(raw, "repo")>>
        touched == GetAll(raw, "touches_services")
    IN Batch(raw, <<Node(raw.id, [state |-> "merged"])>>,
        When(raw.actor # Null, <<Link(Node(person, <<>>), "AUTHORED", person, raw.id)>>)
        \o When(Get(raw, "repo") # Null, <<Link(Node(repo, <<>>), "REFERENCES", raw.id, repo)>>)
        \o [i \in DOMAIN touched |-> Link(Node(<<"service", touched[i]>>, <<>>),
                                          "TOUCHES", raw.id, <<"service", touched[i]>>)]
        \o TextRefs(raw, "REFERENCES"))

\* The schedule of the deployment is set whether or not the ticket states one.
ExtractedTicket(raw) ==
    LET deploys == GetAll(raw, "blocks")
        schedule == [scheduled_at |-> Get(raw, "deploy_scheduled_at")]
        incidents == GetAll(raw, "blocked_by_incidents")
    IN Batch(raw, <<Node(raw.id, [status |-> Get(raw, "status")])>>,
        [i \in DOMAIN deploys |->
            Link(Node(<<"deploy", deploys[i]>>, schedule),
                 "BLOCKS", raw.id, <<"deploy", deploys[i]>>)]
        \o [i \in DOMAIN incidents |->
            Link(Node(Incident(incidents[i]), <<>>), "BLOCKS", Incident(incidents[i]), raw.id)])

ExtractedIncident(raw) ==
    LET affected == <<"service", Get(raw, "service")>>
        person == <<"person", Get(raw, "assignee")>>
    IN Batch(raw, <<Node(raw.id, [status |-> Get(raw, "status")])>>,
        When(Get(raw, "service") # Null,
             <<Link(Node(affected, <<>>), "AFFECTS", raw.id, affected)>>
             \o When(Get(raw, "assignee") # Null,
                     <<Link(Node(person, <<>>), "OWNS", person, affected)>>)))

ExtractedMeeting(raw) ==
    LET projects == GetAll(raw, "references_projects")
    IN Batch(raw, <<Node(raw.id, <<>>)>>,
        [i \in DOMAIN projects |-> Link(Node(<<"project", projects[i]>>, <<>>),
                                        "DISCUSSES", raw.id, <<"project", projects[i]>>)])

Extracted(raw) ==
    LET what == <<raw.source, raw.kind>>
    IN CASE what = <<"github", "pr_merged">> -> ExtractedPull(raw)
         [] what = <<"jira", "ticket_updated">> -> ExtractedTicket(raw)
         [] what = <<"pagerduty", "incident_triggered">> -> ExtractedIncident(raw)
         [] what = <<"slack", "thread_message">> ->
               Batch(raw, <<Node(raw.id, <<>>)>>, TextRefs(raw, "DISCUSSES"))
         [] what = <<"calendar", "meeting_scheduled">> -> ExtractedMeeting(raw)
         [] what = <<"notion", "page_updated">> -> Batch(raw, <<Node(raw.id, <<>>)>>, <<>>)
         [] OTHER -> Batch(raw, <<>>, <<>>)

Keys(batch) == {batch.nodes[i].key : i \in DOMAIN batch.nodes}

-----------------------------------------------------------------------------
NoJob == [topic |-> "none", event |-> Null, next |-> 1, attempt |-> 1]
Message(topic, event) == [topic |-> topic, event |-> event]
Spend(what) == budget[what] > 0 /\ budget' = [budget EXCEPT ![what] = @ - 1]

Init ==
    /\ queue = <<>> /\ job = NoJob /\ dead = {}
    /\ nodes = <<>> /\ edges = {} /\ announced = {}
    /\ arrived = {}
    /\ budget = [arrival |-> MaxArrivals, fault |-> MaxFaults]

\* publish() of a list of raw events; a queue is taken up where it stands.
Publish(raws) ==
    /\ Spend("arrival")
    /\ queue' = queue \o [i \in DOMAIN raws |-> Message("raw.events", raws[i])]
    /\ arrived' = arrived \cup ToSet(raws)
    /\ UNCHANGED <<job, dead, graphVars>>

\* A connector whose _collect returned, through run_initial_sync.
Poll(o) == Publish(<<Normalized(o)>>)

\* POST /webhooks/github with a valid signature.
Deliver(o) ==
    /\ ParsedDelivery(o) # <<>>
    /\ Publish(ParsedDelivery(o))

\* The dedup of a new connector: the first event of an id is replayed.
Replayed(events) ==
    Picked(events, {i \in DOMAIN events : \A j \in 1..(i - 1) : events[j].id # events[i].id})

\* Pipeline.run_scenario: publish, then drain to the end.
RunScenario(events) ==
    /\ queue = <<>> /\ job = NoJob
    /\ Publish(Replayed(events))

\* drain(): the next event, for the handler that has subscribed to its topic.
Take ==
    /\ job = NoJob /\ queue # <<>>
    /\ job' = [NoJob EXCEPT !.topic = Head(queue).topic, !.event = Head(queue).event]
    /\ queue' = Tail(queue)
    /\ UNCHANGED <<dead, graphVars, arrived, budget>>

\* EntityWorker.handle: a batch without nodes is not published.
Extract ==
    /\ job.topic = "raw.events"
    /\ LET batch == Extracted(job.event)
       IN queue' = IF batch.nodes = <<>> THEN queue
                   ELSE Append(queue, Message("entities.extracted", batch))
    /\ job' = NoJob
    /\ UNCHANGED <<dead, graphVars, arrived, budget>>

\* n += props: the properties that the new ones do not set are kept.
Onto(old, new) ==
    [name \in DOMAIN old \cup DOMAIN new |-> IF name \in DOMAIN new THEN new[name] ELSE old[name]]

\* GraphWorker.handle: the nodes one by one.
UpsertNode ==
    /\ job.topic = "entities.extracted" /\ job.next <= Len(job.event.nodes)
    /\ LET node == job.event.nodes[job.next]
           known == IF node.key \in DOMAIN nodes THEN nodes[node.key] ELSE <<>>
       IN nodes' = Onto(nodes, [key \in {node.key} |-> Onto(known, node.props)])
    /\ job' = [job EXCEPT !.next = @ + 1]
    /\ UNCHANGED <<queue, dead, edges, announced, arrived, budget>>

\* The edges of a batch, but for those with an end that is not of this batch.
Upserted(batch) ==
    edges \cup {e \in ToSet(batch.edges) : {e[2], e[3]} \subseteq Keys(batch)}

\* Then the edges, and the keys are announced.
LinkAndAnnounce ==
    /\ job.topic = "entities.extracted" /\ job.next > Len(job.event.nodes)
    /\ edges' = Upserted(job.event)
    /\ announced' = announced \cup Keys(job.event)
    /\ job' = NoJob
    /\ UNCHANGED <<queue, dead, nodes, arrived, budget>>

AttemptsLeftOffByOne == job.attempt <= MaxRetries \* mutant
AttemptsLeft == job.attempt < MaxRetries

ExhaustedDropped == UNCHANGED dead \* mutant: the last error is logged, and that is all
Exhausted == dead' = dead \cup {Message(job.topic, job.event)}

\* _deliver: the handler raises.
Raise ==
    /\ job # NoJob /\ Spend("fault")
    /\ IF AttemptsLeft
       THEN job' = [job EXCEPT !.attempt = @ + 1, !.next = 1] /\ UNCHANGED dead
       ELSE job' = NoJob /\ Exhausted
    /\ UNCHANGED <<queue, graphVars, arrived>>

Drain == Take \/ Extract \/ UpsertNode \/ LinkAndAnnounce

Next ==
    \/ \E o \in Objects : Poll(o) \/ Deliver(o)
    \/ \E events \in Scenarios : RunScenario(events)
    \/ Drain \/ Raise

Spec == Init /\ [][Next]_vars

-----------------------------------------------------------------------------
\* Every variable holds a value of its type.
TypeOK ==
    /\ \A i \in DOMAIN queue : queue[i].topic \in {"raw.events", "entities.extracted"}
    /\ job.attempt \in 1..MaxRetries
    /\ job.topic \in {"raw.events", "entities.extracted"} \/ job = NoJob
    /\ \A e \in edges : {e[2], e[3]} \subseteq DOMAIN nodes
    /\ announced \subseteq DOMAIN nodes

\* Where an event is that has not come to its end.
UnderWay(topic, event) ==
    \/ Message(topic, event) \in ToSet(queue)
    \/ job.topic = topic /\ job.event = event
    \/ Message(topic, event) \in dead

\* Every raw event is in the queue, in a handler, among the dead letters, or else all
\* that it states is in the graph: each node, announced to the ranking, and each edge,
\* for a rule names no node that it does not state. Retries and a batch that is given up
\* halfway leave no node that is neither announced nor explained by a dead letter.
NothingVanishes ==
    \A raw \in arrived :
        LET batch == Extracted(raw)
        IN \/ UnderWay("raw.events", raw) \/ UnderWay("entities.extracted", batch)
           \/ Keys(batch) \subseteq announced /\ ToSet(batch.edges) \subseteq edges

\* Whose business the properties of a node are: its own record, and for a deployment the
\* ticket that blocks it.
Owns(batch, key) == key = batch.source_event_id \/ key[1] = "deploy"

\* "Natural keys are shared across sources so the entities merge into single nodes": what
\* one source knows of a node is not erased when another source mentions it.
FactsSurviveMentions ==
    [][\A key \in DOMAIN nodes : \A name \in DOMAIN nodes[key] :
          \/ nodes'[key][name] = nodes[key][name]
          \/ Owns(job.event, key)]_nodes
=============================================================================
