----------------------------- MODULE ReasoningGraph -----------------------------
(***************************************************************************)
(* llm-service: risk.scored in, evidence from the graph, the nine nodes on *)
(* the native engine or on LangGraph, reasoning.produced out; the same for *)
(* one-off HTTP requests and bare triggers.  Runs share nothing but the    *)
(* graph, so one is in flight at a time; graph-service writes meanwhile.   *)
(*                                                                         *)
(* An edge is <<type, from, to>>.  A sentence is the tuple of what it      *)
(* names; texts are sequences of sentences.  Citations are a set: they are *)
(* listed in the order of first mention.  Confidence is in percent.        *)
(***************************************************************************)
EXTENDS Naturals, Integers, Sequences, SequencesExt, FiniteSets, FiniteSetsExt

CONSTANTS
    Nodes, LabelOf,          \* nodes of the graph and their labels
    Edges,                   \* edges graph-service may write
    Confidences,             \* confidences of edges
    Asked, Scores,           \* nodes that events and requests name, known or not; their scores
    LlmAnswers,              \* answers of the model: [summary, explanation, actions]
    Orders,                  \* orders in which the store may list nodes and edges
    None,
    Hops, MaxClauses, InterruptAt,
    MaxEvents, MaxFaults, MaxWrites \* bounds: jobs, exceptions raised, writes to the graph

ASSUME BoundsAssumption == Hops \in Nat /\ MaxClauses \in Nat \ {0} /\ MaxFaults \in Nat
ASSUME GraphAssumption ==
    IsFiniteSet(Edges) /\ Confidences \subseteq 1..100 /\ Confidences # {}
ASSUME OrdersAssumption == \A o \in Orders : Nodes \cup Edges \subseteq ToSet(o)

VARIABLES
    edges,      \* the graph: edge -> confidence, 0 when absent
    engine,     \* CORTEX_REASONER_ENGINE
    llm,        \* whether a model is configured
    queue,      \* risk.scored and requests: [kind, node, score]
    offset,     \* how many of them are done
    run,        \* the run in flight
    faults, writes,
    published,  \* reasoning.produced: [job, result], with the run that led there
    answers     \* how each finished job ended: "done", "no_evidence", "dead" or a status

vars == <<edges, engine, llm, queue, offset, run, faults, writes, published, answers>>

NodeRetries == 2
MaxAttempts == 3
END == "__end__"
Certain == 100   \* confidence of a node: extractors never lower it

-----------------------------------------------------------------------------
(* The repository *)

Present == {e \in Edges : edges[e] > 0}

Neighborhood(anchor) ==
    LET step(S) == S \cup {e[3] : e \in {f \in Present : f[2] \in S}}
                     \cup {e[2] : e \in {f \in Present : f[3] \in S}}
        within[d \in 0..Hops] == IF d = 0 THEN {anchor} ELSE step(within[d - 1])
    IN  [nodes |-> within[Hops],
         edges |-> {e \in Present : {e[2], e[3]} \cap within[Hops - 1] # {}}]

\* What gather_evidence can return: the lists come in the store's order.
Evidence(anchor) ==
    LET hood == Neighborhood(anchor) IN
    {[anchor |-> anchor, nodes |-> SelectSeq(o, LAMBDA x : x \in hood.nodes),
      edges |-> SelectSeq(o, LAMBDA x : x \in hood.edges),
      conf |-> [e \in hood.edges |-> edges[e]]] : o \in Orders}

-----------------------------------------------------------------------------
(* The nine nodes: state -> state *)

StateOf(anchor, score, evidence) ==
    [node |-> anchor, score |-> score, evidence |-> evidence, verified |-> FALSE,
     findings |-> <<>>, incidents |-> <<>>, services |-> <<>>, owners |-> <<>>,
     summary |-> <<>>, explanation |-> <<>>, llmActions |-> <<>>,
     citations |-> {}, confidence |-> 0, actions |-> <<>>,
     interrupts |-> FALSE, halted |-> FALSE]

Halt(s) == [s EXCEPT !.halted = TRUE]
Clamped(score) == IF score < 0 THEN 0 ELSE IF score > 100 THEN 100 ELSE score

Observe(s) == [s EXCEPT !.score = Clamped(@)]

Retrieve(s, gathered) ==
    IF s.evidence # None THEN s
    ELSE IF gathered = None THEN Halt(s) ELSE [s EXCEPT !.evidence = gathered]

Verify(s) ==
    [s EXCEPT !.verified = /\ s.evidence # None
                           /\ s.evidence.edges # <<>> \/ Len(s.evidence.nodes) > 1]

\* _EDGE_RANK: the types that explain, the most telling first.
Rank == [BLOCKS |-> 0, AFFECTS |-> 1, TOUCHES |-> 2, DEPENDS_ON |-> 3,
         OWNS |-> 4, DISCUSSES |-> 5, REFERENCES |-> 6, AUTHORED |-> 7]

\* Ranked edges with both ends in evidence, most telling first, one per phrase.
Clauses(ev) ==
    LET usable == {e \in DOMAIN ev.conf : /\ e[1] \in DOMAIN Rank
                                          /\ {e[2], e[3]} \subseteq ToSet(ev.nodes)}
        place(e) == CHOOSE i \in DOMAIN ev.edges : ev.edges[i] = e
        order == SetToSortSeq(usable, LAMBDA e, f :
                    \/ Rank[e[1]] < Rank[f[1]]
                    \/ Rank[e[1]] = Rank[f[1]] /\ place(e) < place(f))
    IN  [k \in 1..Min({Cardinality(usable), MaxClauses}) |-> order[k]]

Labelled(ev, label) == SelectSeq(ev.nodes, LAMBDA n : LabelOf[n] = label)

GraphTraverse(s) ==
    [s EXCEPT !.findings = Clauses(s.evidence),
              !.incidents = Labelled(s.evidence, "Incident"),
              !.services = Labelled(s.evidence, "Service"),
              !.owners = Labelled(s.evidence, "Person")]

Risk(n) == <<"risk", n>>

\* The model's answer when it has a summary; else (no model, an exception, an answer
\* without summary) the template.
\* mutant: an answer without a summary is taken as it is
ReasonTrusts(s, answer) ==
    IF answer # None
    THEN [s EXCEPT !.summary = answer.summary, !.explanation = answer.explanation,
                   !.llmActions = answer.actions]
    ELSE [s EXCEPT !.summary = <<Risk(s.node)>>,
                   !.explanation = <<Risk(s.node)>> \o s.findings]
Reason(s, answer) ==
    IF answer # None /\ answer.summary # <<>>
    THEN [s EXCEPT !.summary = answer.summary,
                   !.explanation = IF answer.explanation # <<>> THEN answer.explanation
                                   ELSE answer.summary,
                   !.llmActions = answer.actions]
    ELSE [s EXCEPT !.summary = <<Risk(s.node)>>,
                   !.explanation = <<Risk(s.node)>> \o s.findings]

NodeCitation(n) == [kind |-> "node", ref |-> n]
EdgeCitation(e) == [kind |-> "edge", ref |-> e]

\* GroundingValidator
Resolves(ev, c) == CASE c.kind = "node" -> c.ref \in ToSet(ev.nodes)
                     [] c.kind = "edge" -> c.ref \in DOMAIN ev.conf
Grounded(ev, citations) == {c \in citations : Resolves(ev, c)}
ConfidenceOf(ev, c) == IF c.kind = "edge" THEN ev.conf[c.ref] ELSE Certain
\* mutant: the anchor's confidence, not the weakest citation's
AnchorConfidence(ev, citations) ==
    IF citations = {} THEN 0 ELSE ConfidenceOf(ev, NodeCitation(ev.anchor))
Confidence(ev, citations) ==
    IF citations = {} THEN 0 ELSE Min({ConfidenceOf(ev, c) : c \in citations})

Mentions(anchor, clauses) ==
    {NodeCitation(anchor)} \cup UNION {{NodeCitation(e[2]), NodeCitation(e[3]), EdgeCitation(e)} :
                                          e \in ToSet(clauses)}

\* The anchor, and per finding its ends and the edge.
Ground(s) ==
    LET grounded == Grounded(s.evidence, Mentions(s.evidence.anchor, s.findings))
    IN  [s EXCEPT !.citations = grounded, !.confidence = Confidence(s.evidence, grounded)]

Blocking(incidents) == IF incidents = <<>> THEN <<>> ELSE <<<<"blocking", incidents[1]>>>>

Explain(s) == [s EXCEPT !.explanation = @ \o Blocking(s.incidents)]

Derived(incidents, services, owners) ==
    (IF incidents # <<>> /\ services # <<>> THEN <<<<"hold", services[1], incidents[1]>>>> ELSE <<>>)
    \o (IF owners # <<>> THEN <<<<"loop in", owners[1]>>>> ELSE <<>>)

Recommend(s) ==
    [s EXCEPT !.actions =
        IF s.llmActions # <<>>
        THEN SelectSeq(SubSeq(s.llmActions, 1, Min({3, Len(s.llmActions)})), LAMBDA a : a # <<>>)
        ELSE Derived(s.incidents, s.services, s.owners)]

Notify(s) == [s EXCEPT !.interrupts = s.score >= InterruptAt /\ s.confidence > 0]

\* _next: the edges of the graph.
\* mutant: unverified evidence is fetched again
NextNodeLoops(name, s) ==
    CASE name = "observe" -> "retrieve" [] name = "retrieve" -> "verify"
      [] name = "verify" -> IF s.verified THEN "graph_traverse" ELSE "retrieve"
      [] name = "graph_traverse" -> "reason" [] name = "reason" -> "ground"
      [] name = "ground" -> "explain" [] name = "explain" -> "recommend"
      [] name = "recommend" -> "notify" [] name = "notify" -> END
NextNode(name, s) ==
    CASE name = "observe" -> "retrieve" [] name = "retrieve" -> "verify"
      [] name = "verify" -> IF s.verified THEN "graph_traverse" ELSE END
      [] name = "graph_traverse" -> "reason" [] name = "reason" -> "ground"
      [] name = "ground" -> "explain" [] name = "explain" -> "recommend"
      [] name = "recommend" -> "notify" [] name = "notify" -> END

NodeNames == {"observe", "retrieve", "verify", "graph_traverse", "reason", "ground",
              "explain", "recommend", "notify"}

\* No model is configured, or it raises, or it answers.
ModelAnswers == IF llm THEN LlmAnswers \cup {None} ELSE {None}

\* Every outcome a call of a node can have when it does not raise.
Outcomes(name, s) ==
    CASE name = "observe" -> {Observe(s)}
      [] name = "retrieve" -> {Retrieve(s, ev) : ev \in
             IF s.evidence # None THEN {None}
             ELSE IF s.node \in Nodes THEN Evidence(s.node) ELSE {None}}
      [] name = "verify" -> {Verify(s)}
      [] name = "graph_traverse" -> {GraphTraverse(s)}
      [] name = "reason" -> {Reason(s, a) : a \in ModelAnswers}
      [] name = "ground" -> {Ground(s)}
      [] name = "explain" -> {Explain(s)}
      [] name = "recommend" -> {Recommend(s)}
      [] name = "notify" -> {Notify(s)}

\* _assemble: what is published, halted run or not.
Assemble(s) ==
    LET summary == IF s.summary # <<>> THEN s.summary ELSE <<Risk(s.node)>> IN
    [node |-> s.node, score |-> s.score, summary |-> summary,
     explanation |-> IF s.explanation # <<>> THEN s.explanation
                     ELSE summary \o (IF s.halted THEN <<<<"halted", s.node>>>> ELSE <<>>),
     actions |-> s.actions, citations |-> s.citations, confidence |-> s.confidence]

\* TemplateReasoner.reason, the reference the graph replaces.
TemplateReasoner(ev, score) ==
    LET clauses == Clauses(ev)
        citations == Grounded(ev, Mentions(ev.anchor, clauses))
        incidents == Labelled(ev, "Incident")
    IN  [node |-> ev.anchor, score |-> score, summary |-> <<Risk(ev.anchor)>>,
         explanation |-> <<Risk(ev.anchor)>> \o clauses \o Blocking(incidents),
         actions |-> Derived(incidents, Labelled(ev, "Service"), Labelled(ev, "Person")),
         citations |-> citations, confidence |-> Confidence(ev, citations)]

-----------------------------------------------------------------------------
(* The worker and the engines *)

Idle == [pc |-> "idle", attempt |-> 0, tries |-> 0, anchor |-> None, model |-> FALSE, s |-> None]
Job == queue[offset + 1]

\* A risk event, a request or a trigger for some node, known or not.
Submit(kind, n, score) ==
    /\ Len(queue) < MaxEvents
    /\ queue' = Append(queue, [kind |-> kind, node |-> n, score |-> score])
    /\ UNCHANGED <<edges, engine, llm, offset, run, faults, writes, published, answers>>

Start ==
    /\ run.pc = "idle" /\ offset < Len(queue)
    /\ run' = [Idle EXCEPT !.attempt = 1,
                 !.pc = IF Job.kind = "trigger" THEN "observe" ELSE "anchor",
                 !.s = IF Job.kind = "trigger" THEN StateOf(Job.node, Job.score, None) ELSE None]
    /\ UNCHANGED <<edges, engine, llm, queue, offset, faults, writes, published, answers>>

Finish(answer) ==
    /\ answers' = Append(answers, answer)
    /\ offset' = offset + 1
    /\ run' = Idle

\* gather_evidence reads the anchor ...
Anchor ==
    /\ run.pc = "anchor"
    /\ IF Job.node \in Nodes
       THEN run' = [run EXCEPT !.pc = "neighborhood", !.anchor = Job.node] /\ UNCHANGED <<offset, answers>>
       ELSE Finish(IF Job.kind = "event" THEN "no_evidence" ELSE "404")
    /\ UNCHANGED <<edges, engine, llm, queue, faults, writes, published>>

\* ... then its neighborhood, which may have grown meanwhile.
Gather ==
    /\ run.pc = "neighborhood"
    /\ \E ev \in Evidence(run.anchor) :
         run' = [run EXCEPT !.pc = "observe", !.s = StateOf(run.anchor, Job.score, ev)]
    /\ UNCHANGED <<edges, engine, llm, queue, offset, faults, writes, published, answers>>

\* A node returns; only the native engine looks at `halted`.
RunNode ==
    /\ run.pc \in NodeNames
    /\ \E s \in Outcomes(run.pc, run.s) :
         LET stop == engine = "native" /\ s.halted
             next == IF stop THEN END ELSE NextNode(run.pc, s)
         IN  run' = [run EXCEPT !.s = s, !.tries = 0,
                       !.model = @ \/ (/\ run.pc = "reason" /\ s.summary # <<>>
                                       /\ s # Reason(run.s, None)),
                       !.pc = IF next = END THEN "assemble" ELSE next]
    /\ UNCHANGED <<edges, engine, llm, queue, offset, faults, writes, published, answers>>

\* An exception leaves the reasoner: the bus retries the event and dead-letters it after
\* MaxAttempts; a request is answered 500.
\* mutant: one attempt too many
EscapeLate ==
    IF Job.kind = "event" /\ run.attempt <= MaxAttempts
    THEN run' = [Idle EXCEPT !.pc = "anchor", !.attempt = run.attempt + 1] /\ UNCHANGED <<offset, answers>>
    ELSE Finish(IF Job.kind = "event" THEN "dead" ELSE "500")
Escape ==
    IF Job.kind = "event" /\ run.attempt < MaxAttempts
    THEN run' = [Idle EXCEPT !.pc = "anchor", !.attempt = run.attempt + 1] /\ UNCHANGED <<offset, answers>>
    ELSE Finish(IF Job.kind = "event" THEN "dead" ELSE "500")

\* A read of the graph, or a node, raises.  The native engine tries a node again, then
\* halts the run; LangGraph lets the exception out.
Fail ==
    /\ run.pc \in NodeNames \cup {"anchor", "neighborhood"}
    /\ faults < MaxFaults /\ faults' = faults + 1
    /\ IF run.pc \in NodeNames /\ engine = "native"
       THEN /\ run' = IF run.tries + 1 < NodeRetries THEN [run EXCEPT !.tries = @ + 1]
                      ELSE [run EXCEPT !.pc = "assemble",
                              !.s = Halt(@)]
            /\ UNCHANGED <<offset, answers>>
       ELSE Escape
    /\ UNCHANGED <<edges, engine, llm, queue, writes, published>>

\* The consumer publishes and the offset is committed; a request gets the result.
\* mutant: a halted run publishes nothing
DeliverVerified ==
    /\ run.pc = "assemble"
    /\ published' = IF Job.kind = "event" /\ ~run.s.halted
                    THEN Append(published, [job |-> offset + 1, result |-> Assemble(run.s), by |-> run])
                    ELSE published
    /\ Finish("done")
    /\ UNCHANGED <<edges, engine, llm, queue, faults, writes>>
Deliver ==
    /\ run.pc = "assemble"
    /\ published' = IF Job.kind = "event"
                    THEN Append(published, [job |-> offset + 1, result |-> Assemble(run.s), by |-> run])
                    ELSE published
    /\ Finish("done")
    /\ UNCHANGED <<edges, engine, llm, queue, faults, writes>>

\* graph-service writes an edge, or raises its confidence.
Write(e, c) ==
    /\ c > edges[e] /\ writes < MaxWrites
    /\ edges' = [edges EXCEPT ![e] = c]
    /\ writes' = writes + 1
    /\ UNCHANGED <<engine, llm, queue, offset, run, faults, published, answers>>

\* Any graph, its edges with the lowest confidence.
Init ==
    /\ edges \in [Edges -> {0, Min(Confidences)}]
    /\ engine \in {"native", "langgraph"} /\ llm \in BOOLEAN
    /\ queue = <<>> /\ offset = 0 /\ run = Idle /\ faults = 0 /\ writes = 0
    /\ published = <<>> /\ answers = <<>>

Work == Start \/ Anchor \/ Gather \/ RunNode \/ Deliver

Next ==
    \/ \E kind \in {"event", "request", "trigger"}, n \in Asked, score \in Scores :
         Submit(kind, n, score)
    \/ \E e \in Edges, c \in Confidences : Write(e, c)
    \/ Work \/ Fail

\* The worker goes on while it has work; exceptions are not owed.
Spec == Init /\ [][Next]_vars /\ WF_vars(Work)

-----------------------------------------------------------------------------
TypeOK ==
    /\ edges \in [Edges -> Confidences \cup {0}]
    /\ offset \in 0..Len(queue) /\ Len(answers) = offset
    /\ run.pc \in NodeNames \cup {"idle", "anchor", "neighborhood", "assemble"}
    /\ run.attempt <= MaxAttempts /\ run.tries < NodeRetries
    /\ run.pc \in NodeNames \cup {"assemble"} => DOMAIN run.s = DOMAIN StateOf(None, 0, None)

\* Without a model's words, what the nine nodes publish about verified evidence is what
\* the TemplateReasoner they replace says, on either engine and whatever was retried.
MatchesTemplateReasoner ==
    \A i \in 1..Len(published) :
        LET by == published[i].by IN
        ~by.model /\ by.s.verified /\ ~by.s.halted =>
            published[i].result = TemplateReasoner(by.s.evidence, by.s.score)

\* Every risk event the worker is done with has been answered by exactly one result, had
\* no node to reason about, or is on the dead-letter topic.
EveryRiskIsAnswered ==
    \A j \in 1..offset : queue[j].kind = "event" =>
        Cardinality({i \in 1..Len(published) : published[i].job = j})
            = (IF answers[j] = "done" THEN 1 ELSE 0)

\* A published confidence is not above that of any relationship it cites, as it is in the
\* graph by now; and a run whose evidence was not verified claims none.
ConfidenceIsEarned ==
    \A i \in 1..Len(published) :
        LET r == published[i].result IN
        /\ \A c \in r.citations : c.kind = "edge" => r.confidence <= edges[c.ref]
        /\ ~published[i].by.s.verified => r.confidence = 0

\* The worker comes to the end of its queue: no run goes in circles.
RisksAreWorkedOff == <>[](offset = Len(queue))
=============================================================================
