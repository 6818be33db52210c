----------------------------- MODULE ReasoningProofs -----------------------------
(***************************************************************************)
(* What llm-service publishes, for any graph, any number of jobs, any      *)
(* model and however often a read or a node raises.  A run is proved       *)
(* stage by stage: Stage says what each of the nine nodes may rely on.     *)
(***************************************************************************)
EXTENDS ReasoningGraph, FiniteSetTheorems, TLAPS

Fields == DOMAIN StateOf(None, 0, None)
RunFields == {"pc", "attempt", "tries", "anchor", "model", "s"}
InReasoner == NodeNames \cup {"assemble"}
Answers == {"done", "no_evidence", "dead", "404", "500"}
Jobs == [kind : {"event", "request", "trigger"}, node : Asked, score : Scores]

-----------------------------------------------------------------------------
(* Numbers, sequences, sets *)

Below == OpToRel(<, Nat)

LEMMA BelowPairs == \A x, y \in Nat : y < x => <<y, x>> \in Below
  BY DEF Below, OpToRel

\* A nonempty set of naturals has a least member, and Min is it.
LEMMA MinOfNats ==
    ASSUME NEW S, S \subseteq Nat, S # {}
    PROVE  Min(S) \in S /\ \A x \in S : Min(S) <= x
<1>1. IsWellFoundedOn(Below, Nat)
  BY NatLessThanWellFounded DEF Below
<1> HIDE DEF Below
<1>2. PICK m \in S : \A y \in S : ~ (<<y, m>> \in Below)
  BY <1>1, WFMin
<1>3. \A y \in S : m \in Nat /\ y \in Nat /\ ~(y < m)
  BY <1>2, BelowPairs
<1>4. \A y \in S : m <= y
  BY <1>3
<1> QED
  BY <1>4 DEF Min

LEMMA MinOfTwo ==
    ASSUME NEW a \in Nat, NEW b \in Nat
    PROVE  Min({a, b}) \in Nat
  BY MinOfNats

\* A sequence is one over its own elements; appending keeps what is there.
LEMMA Appended ==
    ASSUME NEW s, NEW x, s \in Seq(ToSet(s))
    PROVE  /\ Append(s, x) \in Seq(ToSet(Append(s, x)))
           /\ Len(Append(s, x)) = Len(s) + 1
           /\ \A i \in 1..Len(s) : Append(s, x)[i] = s[i]
           /\ Append(s, x)[Len(s) + 1] = x
<1> DEFINE T == ToSet(s) \cup {x}
<1>1. s \in Seq(T)
  BY DEF ToSet
<1>2. /\ Append(s, x) \in Seq(T) /\ Len(Append(s, x)) = Len(s) + 1
      /\ \A i \in 1..Len(s) : Append(s, x)[i] = s[i]
      /\ Append(s, x)[Len(s) + 1] = x
  BY <1>1
<1>3. Append(s, x) \in Seq(ToSet(Append(s, x)))
  BY <1>2 DEF ToSet
<1> QED
  BY <1>2, <1>3

-----------------------------------------------------------------------------
(* What a run has to go by, stage by stage *)

\* The evidence is about the node of the run, and no edge in it is surer than in graph g.
Backed(s, g) ==
    \/ s.evidence = None
    \/ /\ s.evidence.anchor = s.node
       /\ DOMAIN s.evidence.conf \subseteq Edges
       /\ \A e \in DOMAIN s.evidence.conf :
            s.evidence.conf[e] \in Nat /\ s.evidence.conf[e] <= g[e]

\* The confidence is earned by what is cited.
Earned(s, g) ==
    /\ s.confidence \in Nat
    /\ \A c \in s.citations : c.kind = "edge" => c.ref \in Edges /\ s.confidence <= g[c.ref]
    /\ ~s.verified => s.confidence = 0

Sound(s, g) == DOMAIN s = Fields /\ Backed(s, g) /\ Earned(s, g)

Silent(s) == s.summary = <<>> /\ s.llmActions = <<>>
Found(s) == /\ s.findings = Clauses(s.evidence)
            /\ s.incidents = Labelled(s.evidence, "Incident")
            /\ s.services = Labelled(s.evidence, "Service")
            /\ s.owners = Labelled(s.evidence, "Person")
Templated(s) == s.summary = <<Risk(s.node)>> /\ s.llmActions = <<>>
Told(s, more) == s.explanation = <<Risk(s.node)>> \o s.findings \o more
Cited(s) ==
    /\ s.citations = Grounded(s.evidence, Mentions(s.evidence.anchor, s.findings))
    /\ s.confidence = Confidence(s.evidence, s.citations)
Advised(s) == s.actions = Derived(s.incidents, s.services, s.owners)
Agrees(s) == Assemble(s) = TemplateReasoner(s.evidence, s.score)

\* What holds of a run's state s before the node at pc runs; model: the model has spoken.
Stage(pc, s, model) ==
    /\ pc \in {"observe", "retrieve", "verify"} => s.citations = {} /\ s.confidence = 0
    /\ pc \in NodeNames \ {"observe", "retrieve", "verify"} => s.verified /\ s.evidence # None
    /\ pc \in {"observe", "retrieve", "verify", "graph_traverse", "reason"} => Silent(s)
    /\ pc \in {"reason", "ground", "explain", "recommend", "notify"} => Found(s)
    /\ pc \in {"explain", "recommend", "notify"} => Cited(s)
    /\ ~model =>
        /\ pc \in {"ground", "explain", "recommend", "notify"} => Templated(s)
        /\ pc \in {"ground", "explain"} => s.explanation = <<Risk(s.node)>> \o s.findings
        /\ pc \in {"recommend", "notify"} => Told(s, Blocking(s.incidents))
        /\ pc = "notify" => Advised(s)
        /\ pc = "assemble" /\ s.verified /\ ~s.halted => Agrees(s)

\* That the model has spoken excuses more, never less.
LEMMA SpokenExcuses ==
    ASSUME NEW pc, NEW s, NEW m, NEW n, m => n, Stage(pc, s, m)
    PROVE  Stage(pc, s, n)
BY DEF Stage

LEMMA FreshState ==
    ASSUME NEW n, NEW score, NEW ev, NEW model, NEW g,
           \/ ev = None
           \/ /\ ev.anchor = n /\ DOMAIN ev.conf \subseteq Edges
              /\ \A e \in DOMAIN ev.conf : ev.conf[e] \in Nat /\ ev.conf[e] <= g[e]
    PROVE  /\ DOMAIN StateOf(n, score, ev) = Fields
           /\ Backed(StateOf(n, score, ev), g) /\ Earned(StateOf(n, score, ev), g)
           /\ Stage("observe", StateOf(n, score, ev), model)
BY DEF StateOf, Fields, Backed, Earned, Stage, Silent, NodeNames

\* What an edge-raising write to the graph leaves true.
LEMMA GraphGrows ==
    ASSUME NEW g \in [Edges -> Nat], NEW h \in [Edges -> Nat], \A e \in Edges : g[e] <= h[e], NEW s
    PROVE  (Backed(s, g) => Backed(s, h)) /\ (Earned(s, g) => Earned(s, h))
<1>1. ASSUME Backed(s, g) PROVE Backed(s, h)
  BY <1>1, SMT DEF Backed
<1>2. ASSUME Earned(s, g) PROVE Earned(s, h)
  BY <1>2, SMT DEF Earned
<1> QED
  BY <1>1, <1>2

-----------------------------------------------------------------------------
(* The nine nodes *)

LEMMA ObserveStage ==
    ASSUME NEW s, NEW g, NEW m, Sound(s, g), Stage("observe", s, m)
    PROVE  Sound(Observe(s), g) /\ Stage("retrieve", Observe(s), m)
<1> DEFINE t == Observe(s)
<1>1. /\ DOMAIN t = Fields /\ t.node = s.node /\ t.evidence = s.evidence
      /\ t.verified = s.verified /\ t.citations = s.citations /\ t.confidence = s.confidence
      /\ t.summary = s.summary /\ t.llmActions = s.llmActions
  BY DEF Sound, Fields, StateOf, Observe
<1> HIDE DEF t
<1>2. Sound(t, g)
  BY <1>1 DEF Sound, Backed, Earned
<1>3. Stage("retrieve", t, m)
  BY <1>1 DEF Stage, Silent, NodeNames
<1> QED
  BY <1>2, <1>3 DEF t

LEMMA RetrieveStage ==
    ASSUME NEW s, NEW g, NEW m, NEW ev, Sound(s, g), Stage("retrieve", s, m),
           \/ ev = None
           \/ /\ ev.anchor = s.node /\ DOMAIN ev.conf \subseteq Edges
              /\ \A e \in DOMAIN ev.conf : ev.conf[e] \in Nat /\ ev.conf[e] <= g[e]
    PROVE  Sound(Retrieve(s, ev), g) /\ Stage("verify", Retrieve(s, ev), m)
<1> DEFINE t == Retrieve(s, ev)
<1>1. /\ DOMAIN t = Fields /\ t.node = s.node /\ t.evidence \in {s.evidence, ev}
      /\ t.verified = s.verified /\ t.citations = s.citations /\ t.confidence = s.confidence
      /\ t.summary = s.summary /\ t.llmActions = s.llmActions
  BY DEF Sound, Fields, StateOf, Retrieve, Halt
<1> HIDE DEF t
<1>2. Backed(t, g)
  BY <1>1 DEF Sound, Backed
<1>3. Earned(t, g)
  BY <1>1 DEF Sound, Earned
<1>4. Stage("verify", t, m)
  BY <1>1 DEF Stage, Silent, NodeNames
<1> QED
  BY <1>1, <1>2, <1>3, <1>4 DEF t, Sound

\* Verified or not, nothing is claimed yet; verified, there is evidence.
LEMMA VerifyStage ==
    ASSUME NEW s, NEW g, NEW m, Sound(s, g), Stage("verify", s, m)
    PROVE  /\ Sound(Verify(s), g)
           /\ Verify(s).verified => Stage("graph_traverse", Verify(s), m)
           /\ ~Verify(s).verified => Stage("assemble", Verify(s), m)
<1> DEFINE t == Verify(s)
<1>1. /\ DOMAIN t = Fields /\ t.node = s.node /\ t.evidence = s.evidence
      /\ t.citations = s.citations /\ t.confidence = s.confidence
      /\ t.summary = s.summary /\ t.llmActions = s.llmActions
      /\ t.verified => t.evidence # None
  BY DEF Sound, Fields, StateOf, Verify
<1> HIDE DEF t
<1>2. t.citations = {} /\ t.confidence = 0 /\ Silent(t)
  BY <1>1 DEF Stage, Silent
<1>3. Backed(t, g)
  BY <1>1 DEF Sound, Backed
<1>4. Earned(t, g)
  BY <1>2 DEF Earned
<1>5. t.verified => Stage("graph_traverse", t, m)
  BY <1>1, <1>2 DEF Stage, NodeNames
<1>6. ~t.verified => Stage("assemble", t, m)
  BY DEF Stage, NodeNames
<1> QED
  BY <1>1, <1>3, <1>4, <1>5, <1>6 DEF t, Sound

LEMMA TraverseStage ==
    ASSUME NEW s, NEW g, NEW m, Sound(s, g), Stage("graph_traverse", s, m)
    PROVE  Sound(GraphTraverse(s), g) /\ Stage("reason", GraphTraverse(s), m)
<1> DEFINE t == GraphTraverse(s)
<1>1. /\ DOMAIN t = Fields /\ t.node = s.node /\ t.evidence = s.evidence
      /\ t.verified = s.verified /\ t.citations = s.citations /\ t.confidence = s.confidence
      /\ t.summary = s.summary /\ t.llmActions = s.llmActions
  BY DEF Sound, Fields, StateOf, GraphTraverse
<1>2. /\ t.findings = Clauses(s.evidence) /\ t.incidents = Labelled(s.evidence, "Incident")
      /\ t.services = Labelled(s.evidence, "Service") /\ t.owners = Labelled(s.evidence, "Person")
  BY DEF Sound, Fields, StateOf, GraphTraverse
<1> HIDE DEF t
<1>3. Sound(t, g)
  BY <1>1 DEF Sound, Backed, Earned
<1>4. Stage("reason", t, m)
  BY <1>1, <1>2 DEF Stage, Silent, Found, NodeNames
<1> QED
  BY <1>3, <1>4 DEF t

\* Either the model has spoken, or the template has.
LEMMA ReasonStage ==
    ASSUME NEW s, NEW g, NEW m, NEW answer, Sound(s, g), Stage("reason", s, m)
    PROVE  LET t == Reason(s, answer) IN
           /\ Sound(t, g)
           /\ \A spoken : (t.summary # <<>> /\ t # Reason(s, None) => spoken) => Stage("ground", t, spoken)
<1> DEFINE t == Reason(s, answer)
           u == Reason(s, None)
<1>1. /\ DOMAIN t = Fields /\ t.node = s.node /\ t.evidence = s.evidence
      /\ t.verified = s.verified /\ t.citations = s.citations /\ t.confidence = s.confidence
      /\ t.findings = s.findings /\ t.incidents = s.incidents
      /\ t.services = s.services /\ t.owners = s.owners
  BY DEF Sound, Fields, StateOf, Reason
<1>2. t.summary # <<>>
  BY DEF Sound, Fields, StateOf, Reason
<1>3. /\ u.summary = <<Risk(u.node)>> /\ u.llmActions = s.llmActions
      /\ u.explanation = <<Risk(u.node)>> \o u.findings
  BY DEF Sound, Fields, StateOf, Reason
<1> HIDE DEF t, u
<1>4. Sound(t, g)
  BY <1>1 DEF Sound, Backed, Earned
<1>5. Found(t) /\ s.llmActions = <<>> /\ t.verified /\ t.evidence # None
  BY <1>1 DEF Stage, Found, Silent, NodeNames
<1>6. ASSUME NEW spoken, t.summary # <<>> /\ t # u => spoken
      PROVE  Stage("ground", t, spoken)
  <2>1. CASE spoken
    BY <1>5, <2>1 DEF Stage, NodeNames
  <2>2. CASE ~spoken
    <3>1. t = u
      BY <1>2, <1>6, <2>2
    <3>2. Templated(t) /\ t.explanation = <<Risk(t.node)>> \o t.findings
      BY <1>3, <1>5, <3>1 DEF Templated
    <3> QED
      BY <1>5, <2>2, <3>2 DEF Stage, NodeNames
  <2> QED
    BY <2>1, <2>2
<1> QED
  BY <1>4, <1>6 DEF t, u

\* What survives the grounding resolves, and the confidence is the weakest one's.
LEMMA GroundStage ==
    ASSUME NEW s, NEW g \in [Edges -> Nat], NEW m, Sound(s, g), Stage("ground", s, m)
    PROVE  Sound(Ground(s), g) /\ Stage("explain", Ground(s), m)
<1> DEFINE t == Ground(s)
           ev == s.evidence
           grounded == Grounded(ev, Mentions(ev.anchor, s.findings))
           confs == {ConfidenceOf(ev, c) : c \in grounded}
<1>1. /\ DOMAIN t = Fields /\ t.node = s.node /\ t.evidence = ev /\ t.verified = s.verified
      /\ t.summary = s.summary /\ t.llmActions = s.llmActions /\ t.explanation = s.explanation
      /\ t.findings = s.findings /\ t.incidents = s.incidents
      /\ t.services = s.services /\ t.owners = s.owners
  BY DEF Sound, Fields, StateOf, Ground
<1>2. t.citations = grounded /\ t.confidence = Confidence(ev, grounded)
  BY DEF Sound, Fields, StateOf, Ground
<1> HIDE DEF t
<1>3. ev # None /\ s.verified
  BY DEF Stage, NodeNames
<1>4. /\ DOMAIN ev.conf \subseteq Edges
      /\ \A e \in DOMAIN ev.conf : ev.conf[e] \in Nat /\ ev.conf[e] <= g[e]
  BY <1>3 DEF Sound, Backed
<1>5. \A c \in grounded : /\ c.kind = "edge" => c.ref \in DOMAIN ev.conf
                          /\ ConfidenceOf(ev, c) \in Nat
  BY <1>4 DEF Grounded, Resolves, ConfidenceOf, Certain
<1>6. Confidence(ev, grounded) \in Nat
      /\ \A c \in grounded : Confidence(ev, grounded) <= ConfidenceOf(ev, c)
  <2>1. CASE grounded = {}
    BY <2>1 DEF Confidence
  <2>2. CASE grounded # {}
    <3>1. confs \subseteq Nat /\ confs # {}
      BY <1>5, <2>2
    <3>2. Min(confs) \in Nat /\ \A x \in confs : Min(confs) <= x
      BY <3>1, MinOfNats
    <3>3. Confidence(ev, grounded) = Min(confs)
      BY <2>2 DEF Confidence
    <3> HIDE DEF confs
    <3>4. \A c \in grounded : ConfidenceOf(ev, c) \in confs
      BY DEF confs
    <3> QED
      BY <3>2, <3>3, <3>4
  <2> QED
    BY <2>1, <2>2
<1>7. \A c \in t.citations : c.kind = "edge" => c.ref \in Edges /\ t.confidence <= g[c.ref]
  <2> SUFFICES ASSUME NEW c \in grounded, c.kind = "edge"
               PROVE  c.ref \in Edges /\ Confidence(ev, grounded) <= g[c.ref]
    BY <1>2
  <2>1. c.ref \in DOMAIN ev.conf /\ ConfidenceOf(ev, c) = ev.conf[c.ref]
    BY <1>5 DEF ConfidenceOf
  <2>2. /\ c.ref \in Edges /\ ev.conf[c.ref] <= g[c.ref]
        /\ ev.conf[c.ref] \in Nat /\ g[c.ref] \in Nat
    BY <1>4, <2>1
  <2>3. Confidence(ev, grounded) \in Nat /\ Confidence(ev, grounded) <= ev.conf[c.ref]
    BY <1>6, <2>1
  <2> QED
    BY <2>2, <2>3
<1>8. Earned(t, g)
  BY <1>1, <1>2, <1>3, <1>6, <1>7 DEF Earned
<1>9. Backed(t, g)
  BY <1>1 DEF Sound, Backed
<1>10. Cited(t)
  BY <1>1, <1>2 DEF Cited
<1> HIDE DEF ev, grounded, confs
<1>11. Found(t)
  BY <1>1 DEF Stage, Found, ev
<1>12. ~m => Templated(t) /\ t.explanation = <<Risk(t.node)>> \o t.findings
  BY <1>1 DEF Stage, Templated
<1>13. Stage("explain", t, m)
  BY <1>1, <1>3, <1>10, <1>11, <1>12 DEF Stage, NodeNames
<1> QED
  BY <1>1, <1>8, <1>9, <1>13 DEF t, Sound

LEMMA ExplainStage ==
    ASSUME NEW s, NEW g, NEW m, Sound(s, g), Stage("explain", s, m)
    PROVE  Sound(Explain(s), g) /\ Stage("recommend", Explain(s), m)
<1> DEFINE t == Explain(s)
<1>1. /\ DOMAIN t = Fields /\ t.node = s.node /\ t.evidence = s.evidence
      /\ t.verified = s.verified /\ t.citations = s.citations /\ t.confidence = s.confidence
      /\ t.summary = s.summary /\ t.llmActions = s.llmActions
      /\ t.findings = s.findings /\ t.incidents = s.incidents
      /\ t.services = s.services /\ t.owners = s.owners
  BY DEF Sound, Fields, StateOf, Explain
<1>2. t.explanation = s.explanation \o Blocking(s.incidents)
  BY DEF Sound, Fields, StateOf, Explain
<1> HIDE DEF t
<1>3. Sound(t, g)
  BY <1>1 DEF Sound, Backed, Earned
<1>4. t.verified /\ t.evidence # None /\ Found(t) /\ Cited(t)
  BY <1>1 DEF Stage, NodeNames, Found, Cited
<1>5. ~m => Templated(t) /\ Told(t, Blocking(t.incidents))
  BY <1>1, <1>2 DEF Stage, Templated, Told
<1>6. Stage("recommend", t, m)
  BY <1>4, <1>5 DEF Stage, NodeNames
<1> QED
  BY <1>3, <1>6 DEF t

LEMMA RecommendStage ==
    ASSUME NEW s, NEW g, NEW m, Sound(s, g), Stage("recommend", s, m)
    PROVE  Sound(Recommend(s), g) /\ Stage("notify", Recommend(s), m)
<1> DEFINE t == Recommend(s)
<1>1. /\ DOMAIN t = Fields /\ t.node = s.node /\ t.evidence = s.evidence
      /\ t.verified = s.verified /\ t.citations = s.citations /\ t.confidence = s.confidence
      /\ t.summary = s.summary /\ t.llmActions = s.llmActions /\ t.explanation = s.explanation
      /\ t.findings = s.findings /\ t.incidents = s.incidents
      /\ t.services = s.services /\ t.owners = s.owners
  BY DEF Sound, Fields, StateOf, Recommend
<1>2. s.llmActions = <<>> => t.actions = Derived(s.incidents, s.services, s.owners)
  BY DEF Sound, Fields, StateOf, Recommend
<1> HIDE DEF t
<1>3. Sound(t, g)
  BY <1>1 DEF Sound, Backed, Earned
<1>4. t.verified /\ t.evidence # None /\ Found(t) /\ Cited(t)
  BY <1>1 DEF Stage, NodeNames, Found, Cited
<1>5. ~m => Templated(t) /\ Told(t, Blocking(t.incidents)) /\ Advised(t)
  BY <1>1, <1>2 DEF Stage, Templated, Told, Advised
<1>6. Stage("notify", t, m)
  BY <1>4, <1>5 DEF Stage, NodeNames
<1> QED
  BY <1>3, <1>6 DEF t

LEMMA LongerTogether ==
    ASSUME NEW S, NEW a \in Seq(S), NEW T, NEW b \in Seq(T), Len(a) >= 1
    PROVE  Len(a \o b) >= 1
<1>1. a \in Seq(S \cup T) /\ b \in Seq(S \cup T)
  OBVIOUS
<1> QED
  BY <1>1

\* The clauses are a sequence, whatever was in the evidence.
LEMMA ClausesAreASequence ==
    ASSUME NEW s, NEW g, Backed(s, g), s.evidence # None
    PROVE  \E S : Clauses(s.evidence) \in Seq(S)
<1> DEFINE ev == s.evidence
           usable == {e \in DOMAIN ev.conf : /\ e[1] \in DOMAIN Rank
                                             /\ {e[2], e[3]} \subseteq ToSet(ev.nodes)}
           many == Min({Cardinality(usable), MaxClauses})
<1>1. usable \subseteq Edges
  BY DEF Backed
<1>2. many \in Nat
  BY <1>1, FS_Subset, FS_CardinalityType, GraphAssumption, BoundsAssumption, MinOfTwo
<1>3. PICK order : Clauses(ev) = [k \in 1..many |-> order[k]]
  BY DEF Clauses
<1> HIDE DEF ev, many
<1>4. [k \in 1..many |-> order[k]] \in Seq({order[k] : k \in 1..many})
  BY <1>2
<1> QED
  BY <1>3, <1>4 DEF ev

LEMMA NotifyStage ==
    ASSUME NEW s, NEW g, NEW m, Sound(s, g), Stage("notify", s, m)
    PROVE  Sound(Notify(s), g) /\ Stage("assemble", Notify(s), m)
<1> DEFINE t == Notify(s)
<1>1. /\ DOMAIN t = Fields /\ t.node = s.node /\ t.evidence = s.evidence /\ t.score = s.score
      /\ t.verified = s.verified /\ t.citations = s.citations /\ t.confidence = s.confidence
      /\ t.summary = s.summary /\ t.llmActions = s.llmActions /\ t.explanation = s.explanation
      /\ t.findings = s.findings /\ t.incidents = s.incidents /\ t.actions = s.actions
      /\ t.services = s.services /\ t.owners = s.owners
  BY DEF Sound, Fields, StateOf, Notify
<1> HIDE DEF t
<1>2. Sound(t, g)
  BY <1>1 DEF Sound, Backed, Earned
<1>3. t.verified /\ t.evidence # None /\ Found(t) /\ Cited(t)
  BY <1>1 DEF Stage, NodeNames, Found, Cited
<1>4. ~m => Templated(t) /\ Told(t, Blocking(t.incidents)) /\ Advised(t)
  BY <1>1 DEF Stage, Templated, Told, Advised
<1>5. ASSUME ~m PROVE Agrees(t)
  <2>1. t.evidence.anchor = t.node
    BY <1>2, <1>3 DEF Sound, Backed
  <2>2. PICK S : t.findings \in Seq(S)
    BY <1>2, <1>3, ClausesAreASequence DEF Sound, Found
  <2>3. t.explanation # <<>>
    <3>1. <<Risk(t.node)>> \o t.findings \in Seq(S \cup {Risk(t.node)})
          /\ Len(<<Risk(t.node)>> \o t.findings) >= 1
      BY <2>2
    <3>2. Blocking(t.incidents) \in Seq({<<"blocking", t.incidents[1]>>})
      BY DEF Blocking
    <3>3. t.explanation = (<<Risk(t.node)>> \o t.findings) \o Blocking(t.incidents)
      BY <1>4, <1>5 DEF Told
    <3>4. Len(t.explanation) >= 1
      BY <3>1, <3>2, <3>3, LongerTogether
    <3> QED
      BY <3>4
  <2>4. t.summary = <<Risk(t.node)>> /\ <<Risk(t.node)>> # <<>>
    BY <1>4, <1>5 DEF Templated
  <2> QED
    BY <1>3, <1>4, <1>5, <2>1, <2>3, <2>4
       DEF Agrees, Assemble, TemplateReasoner, Found, Cited, Templated, Told, Advised
<1>6. Stage("assemble", t, m)
  BY <1>5 DEF Stage, NodeNames
<1> QED
  BY <1>2, <1>6 DEF t

-----------------------------------------------------------------------------
(* The inductive invariant: the run in flight *)

QueueTyped ==
    /\ queue \in Seq(Jobs) /\ offset \in Nat /\ offset <= Len(queue)
    /\ answers \in Seq(Answers) /\ Len(answers) = offset
    /\ edges \in [Edges -> Confidences \cup {0}]

RunTyped ==
    /\ DOMAIN run = RunFields
    /\ run.pc \in InReasoner \cup {"idle", "anchor", "neighborhood"}
    /\ run.attempt \in 0..MaxAttempts /\ run.tries \in 0..(NodeRetries - 1)
    /\ run.pc # "idle" => offset < Len(queue)
    /\ run.pc = "neighborhood" => run.anchor \in Nodes

RunSound ==
    run.pc \in InReasoner => Sound(run.s, edges) /\ Stage(run.pc, run.s, run.model)

Typed == QueueTyped /\ RunTyped /\ RunSound

LEMMA GraphIsTyped ==
    ASSUME NEW g \in [Edges -> Confidences \cup {0}]
    PROVE  g \in [Edges -> Nat]
<1>1. Confidences \cup {0} \subseteq Nat
  BY GraphAssumption
<1> QED
  BY <1>1

LEMMA EvidenceIsSound ==
    ASSUME edges \in [Edges -> Confidences \cup {0}], NEW n, NEW ev \in Evidence(n)
    PROVE  /\ ev.anchor = n /\ DOMAIN ev.conf \subseteq Edges
           /\ \A e \in DOMAIN ev.conf : ev.conf[e] \in Nat /\ ev.conf[e] <= edges[e]
<1>1. edges \in [Edges -> Nat]
  BY GraphIsTyped
<1>2. Neighborhood(n).edges \subseteq Edges
  BY DEF Neighborhood, Present
<1> DEFINE hood == Neighborhood(n)
<1>3. \E a, b : ev = [anchor |-> n, nodes |-> a, edges |-> b, conf |-> [e \in hood.edges |-> edges[e]]]
  BY DEF Evidence
<1> HIDE DEF hood
<1>4. hood.edges \subseteq Edges
  BY <1>2 DEF hood
<1>5. ev.anchor = n /\ ev.conf = [e \in hood.edges |-> edges[e]]
  BY <1>3
<1> QED
  BY <1>1, <1>4, <1>5

LEMMA IdleRun ==
    /\ DOMAIN Idle = RunFields /\ Idle.pc = "idle" /\ Idle.attempt = 0 /\ Idle.tries = 0
    /\ Idle.model = FALSE
BY DEF Idle, RunFields

\* A run that is reset for its next attempt.
LEMMA NextAttempt ==
    ASSUME NEW n \in 0..MaxAttempts, QueueTyped', offset' < Len(queue'),
           run' = [Idle EXCEPT !.pc = "anchor", !.attempt = n]
    PROVE  RunTyped' /\ RunSound'
<1>1. /\ DOMAIN run' = RunFields /\ run'.pc = "anchor" /\ run'.attempt = n /\ run'.tries = 0
      /\ run'.model = FALSE
  BY DEF Idle, RunFields
<1> QED
  BY <1>1 DEF RunTyped, RunSound, InReasoner, NodeNames, NodeRetries

\* A job is done: the run is idle and the offset moves past it.
LEMMA FinishStep ==
    ASSUME QueueTyped, offset < Len(queue), NEW answer \in Answers, Finish(answer),
           UNCHANGED <<queue, edges>>
    PROVE  /\ Typed' /\ Len(answers') = offset + 1 /\ answers'[offset + 1] = answer
           /\ \A j \in 1..offset : answers'[j] = answers[j]
<1>1. /\ answers' = Append(answers, answer) /\ offset' = offset + 1 /\ run' = Idle
  BY DEF Finish
<1>2. /\ answers' \in Seq(Answers) /\ Len(answers') = offset + 1 /\ answers'[offset + 1] = answer
      /\ \A j \in 1..offset : answers'[j] = answers[j]
  BY <1>1 DEF QueueTyped
<1>3. QueueTyped'
  BY <1>1, <1>2 DEF QueueTyped
<1>4. RunTyped' /\ RunSound'
  BY <1>1, IdleRun DEF RunTyped, RunSound, InReasoner, NodeNames, NodeRetries, MaxAttempts
<1> QED
  BY <1>2, <1>3, <1>4 DEF Typed

LEMMA SubmitTyped ==
    ASSUME Typed, NEW kind \in {"event", "request", "trigger"}, NEW n \in Asked,
           NEW score \in Scores, Submit(kind, n, score)
    PROVE  /\ Typed' /\ Len(queue') = Len(queue) + 1
           /\ \A j \in 1..Len(queue) : queue'[j] = queue[j]
<1>1. [kind |-> kind, node |-> n, score |-> score] \in Jobs
  BY DEF Jobs
<1>2. /\ queue' \in Seq(Jobs) /\ Len(queue') = Len(queue) + 1
      /\ \A j \in 1..Len(queue) : queue'[j] = queue[j]
  BY <1>1 DEF Submit, Typed, QueueTyped
<1>3. UNCHANGED <<edges, offset, run, answers>>
  BY DEF Submit
<1>4. QueueTyped'
  BY <1>2, <1>3 DEF Typed, QueueTyped
<1>5. RunTyped'
  BY <1>2, <1>3 DEF Typed, QueueTyped, RunTyped
<1>6. RunSound'
  BY <1>3 DEF Typed, RunSound
<1> QED
  BY <1>2, <1>4, <1>5, <1>6 DEF Typed

LEMMA StartTyped ==
    ASSUME Typed, Start
    PROVE  Typed'
<1>1. /\ offset < Len(queue) /\ UNCHANGED <<edges, queue, offset, answers>>
      /\ run' = [Idle EXCEPT !.attempt = 1,
                   !.pc = IF Job.kind = "trigger" THEN "observe" ELSE "anchor",
                   !.s = IF Job.kind = "trigger" THEN StateOf(Job.node, Job.score, None) ELSE None]
  BY DEF Start
<1>2. /\ DOMAIN run' = RunFields /\ run'.attempt = 1 /\ run'.tries = 0 /\ run'.model = FALSE
      /\ run'.pc = IF Job.kind = "trigger" THEN "observe" ELSE "anchor"
      /\ Job.kind = "trigger" => run'.s = StateOf(Job.node, Job.score, None)
  BY <1>1 DEF Idle, RunFields
<1>3. QueueTyped'
  BY <1>1 DEF Typed, QueueTyped
<1>4. RunTyped'
  BY <1>1, <1>2 DEF RunTyped, InReasoner, NodeNames, NodeRetries, MaxAttempts
<1>5. ASSUME run'.pc \in InReasoner
      PROVE  Sound(run'.s, edges') /\ Stage(run'.pc, run'.s, run'.model)
  <2>1. run'.pc = "observe" /\ run'.s = StateOf(Job.node, Job.score, None)
    BY <1>2, <1>5 DEF InReasoner, NodeNames
  <2> QED
    BY <2>1, FreshState DEF Sound
<1> QED
  BY <1>3, <1>4, <1>5 DEF Typed, RunSound

LEMMA AnchorTyped ==
    ASSUME Typed, Anchor
    PROVE  Typed'
<1>1. offset < Len(queue) /\ UNCHANGED <<edges, queue>>
  BY DEF Anchor, Typed, RunTyped
<1>2. CASE Job.node \in Nodes
  <2>1. /\ run' = [run EXCEPT !.pc = "neighborhood", !.anchor = Job.node]
        /\ UNCHANGED <<offset, answers>>
    BY <1>2 DEF Anchor
  <2>2. /\ DOMAIN run' = RunFields /\ run'.pc = "neighborhood" /\ run'.anchor = Job.node
        /\ run'.attempt = run.attempt /\ run'.tries = run.tries /\ run'.model = run.model
    BY <2>1 DEF Typed, RunTyped, RunFields
  <2>3. QueueTyped'
    BY <1>1, <2>1 DEF Typed, QueueTyped
  <2>4. RunTyped' /\ RunSound'
    BY <1>1, <1>2, <2>1, <2>2 DEF Typed, RunTyped, RunSound, InReasoner, NodeNames
  <2> QED
    BY <2>3, <2>4 DEF Typed
<1>3. CASE Job.node \notin Nodes
  <2>1. Finish(IF Job.kind = "event" THEN "no_evidence" ELSE "404")
    BY <1>3 DEF Anchor
  <2> QED
    BY <1>1, <2>1, FinishStep DEF Typed, Answers
<1> QED
  BY <1>2, <1>3

LEMMA GatherTyped ==
    ASSUME Typed, Gather
    PROVE  Typed'
<1>1. PICK ev \in Evidence(run.anchor) :
        run' = [run EXCEPT !.pc = "observe", !.s = StateOf(run.anchor, Job.score, ev)]
  BY DEF Gather
<1>2. UNCHANGED <<edges, queue, offset, answers>>
  BY DEF Gather
<1>3. /\ DOMAIN run' = RunFields /\ run'.pc = "observe" /\ run'.attempt = run.attempt
      /\ run'.tries = run.tries /\ run'.model = run.model
      /\ run'.s = StateOf(run.anchor, Job.score, ev)
  BY <1>1 DEF Typed, RunTyped, RunFields
<1>4. QueueTyped'
  BY <1>2 DEF Typed, QueueTyped
<1>5. RunTyped'
  BY <1>2, <1>3 DEF Typed, RunTyped, InReasoner, NodeNames, Gather
<1>6. Sound(run'.s, edges') /\ Stage(run'.pc, run'.s, run'.model)
  <2>1. /\ ev.anchor = run.anchor /\ DOMAIN ev.conf \subseteq Edges
        /\ \A e \in DOMAIN ev.conf : ev.conf[e] \in Nat /\ ev.conf[e] <= edges[e]
    BY EvidenceIsSound DEF Typed, QueueTyped
  <2> QED
    BY <1>2, <1>3, <2>1, FreshState DEF Sound
<1> QED
  BY <1>4, <1>5, <1>6 DEF Typed, RunSound

\* Whatever a node returns, the run may go on to the node that follows, or end there.
LEMMA OutcomeStage ==
    ASSUME edges \in [Edges -> Confidences \cup {0}], NEW pc \in NodeNames, NEW s, NEW m,
           Sound(s, edges), Stage(pc, s, m), NEW t \in Outcomes(pc, s), NEW spoken, m => spoken,
           pc = "reason" /\ t.summary # <<>> /\ t # Reason(s, None) => spoken
    PROVE  /\ Sound(t, edges) /\ NextNode(pc, t) \in NodeNames \cup {END}
           /\ NextNode(pc, t) # END => Stage(NextNode(pc, t), t, spoken)
           /\ NextNode(pc, t) = END \/ t.halted => Stage("assemble", t, spoken)
<1>0. t.halted => Stage("assemble", t, spoken)
  BY DEF Stage, NodeNames
<1>1. CASE pc = "observe"
  <2>1. t = Observe(s) /\ NextNode(pc, t) = "retrieve"
    BY <1>1 DEF Outcomes, NextNode
  <2>2. Sound(t, edges) /\ Stage("retrieve", t, spoken)
    BY <1>1, <2>1, ObserveStage, SpokenExcuses
  <2> QED
    BY <1>0, <2>1, <2>2 DEF NodeNames, END
<1>2. CASE pc = "retrieve"
  <2>1. PICK ev : /\ t = Retrieve(s, ev)
                  /\ ev = None \/ ev \in Evidence(s.node)
    BY <1>2 DEF Outcomes
  <2>2. \/ ev = None
        \/ /\ ev.anchor = s.node /\ DOMAIN ev.conf \subseteq Edges
           /\ \A e \in DOMAIN ev.conf : ev.conf[e] \in Nat /\ ev.conf[e] <= edges[e]
    BY <2>1, EvidenceIsSound
  <2>3. Sound(t, edges) /\ Stage("verify", t, spoken)
    BY <1>2, <2>1, <2>2, RetrieveStage, SpokenExcuses
  <2> QED
    BY <1>0, <1>2, <2>3 DEF NodeNames, END, NextNode
<1>3. CASE pc = "verify"
  <2>1. t = Verify(s) /\ NextNode(pc, t) = (IF t.verified THEN "graph_traverse" ELSE END)
    BY <1>3 DEF Outcomes, NextNode
  <2>2. /\ Sound(t, edges)
        /\ t.verified => Stage("graph_traverse", t, spoken)
        /\ ~t.verified => Stage("assemble", t, spoken)
    BY <1>3, <2>1, VerifyStage, SpokenExcuses
  <2> QED
    BY <1>0, <2>1, <2>2 DEF NodeNames, END
<1>4. CASE pc = "graph_traverse"
  <2>1. t = GraphTraverse(s) /\ NextNode(pc, t) = "reason"
    BY <1>4 DEF Outcomes, NextNode
  <2>2. Sound(t, edges) /\ Stage("reason", t, spoken)
    BY <1>4, <2>1, TraverseStage, SpokenExcuses
  <2> QED
    BY <1>0, <2>1, <2>2 DEF NodeNames, END
<1>5. CASE pc = "reason"
  <2>1. PICK a : t = Reason(s, a)
    BY <1>5 DEF Outcomes
  <2>2. Sound(t, edges) /\ Stage("ground", t, spoken)
    BY <1>5, <2>1, ReasonStage
  <2> QED
    BY <1>0, <1>5, <2>2 DEF NodeNames, END, NextNode
<1>6. CASE pc = "ground"
  <2>1. t = Ground(s) /\ NextNode(pc, t) = "explain"
    BY <1>6 DEF Outcomes, NextNode
  <2>2. Sound(t, edges) /\ Stage("explain", t, spoken)
    BY <1>6, <2>1, GroundStage, GraphIsTyped, SpokenExcuses
  <2> QED
    BY <1>0, <2>1, <2>2 DEF NodeNames, END
<1>7. CASE pc = "explain"
  <2>1. t = Explain(s) /\ NextNode(pc, t) = "recommend"
    BY <1>7 DEF Outcomes, NextNode
  <2>2. Sound(t, edges) /\ Stage("recommend", t, spoken)
    BY <1>7, <2>1, ExplainStage, SpokenExcuses
  <2> QED
    BY <1>0, <2>1, <2>2 DEF NodeNames, END
<1>8. CASE pc = "recommend"
  <2>1. t = Recommend(s) /\ NextNode(pc, t) = "notify"
    BY <1>8 DEF Outcomes, NextNode
  <2>2. Sound(t, edges) /\ Stage("notify", t, spoken)
    BY <1>8, <2>1, RecommendStage, SpokenExcuses
  <2> QED
    BY <1>0, <2>1, <2>2 DEF NodeNames, END
<1>9. CASE pc = "notify"
  <2>1. t = Notify(s) /\ NextNode(pc, t) = END
    BY <1>9 DEF Outcomes, NextNode
  <2>2. Sound(t, edges) /\ Stage("assemble", t, spoken)
    BY <1>9, <2>1, NotifyStage, SpokenExcuses
  <2> QED
    BY <1>0, <2>1, <2>2
<1> QED
  BY <1>1, <1>2, <1>3, <1>4, <1>5, <1>6, <1>7, <1>8, <1>9 DEF NodeNames

LEMMA RunNodeTyped ==
    ASSUME Typed, RunNode
    PROVE  Typed'
<1>1. run.pc \in NodeNames /\ UNCHANGED <<edges, queue, offset, answers>>
  BY DEF RunNode
<1>2. PICK t \in Outcomes(run.pc, run.s) :
        LET next == IF engine = "native" /\ t.halted THEN END ELSE NextNode(run.pc, t)
        IN  run' = [run EXCEPT !.s = t, !.tries = 0,
                      !.model = @ \/ (/\ run.pc = "reason" /\ t.summary # <<>>
                                      /\ t # Reason(run.s, None)),
                      !.pc = IF next = END THEN "assemble" ELSE next]
  BY DEF RunNode
<1> DEFINE next == IF engine = "native" /\ t.halted THEN END ELSE NextNode(run.pc, t)
<1>3. /\ DOMAIN run' = RunFields /\ run'.s = t /\ run'.tries = 0 /\ run'.attempt = run.attempt
      /\ run'.pc = (IF next = END THEN "assemble" ELSE next)
      /\ run'.model = (run.model \/ (/\ run.pc = "reason" /\ t.summary # <<>>
                                     /\ t # Reason(run.s, None)))
  BY <1>2 DEF Typed, RunTyped, RunFields
<1>4. PICK spoken : spoken = run'.model
  OBVIOUS
<1>5. /\ run.model => spoken
      /\ run.pc = "reason" /\ t.summary # <<>> /\ t # Reason(run.s, None) => spoken
  BY <1>3, <1>4
<1>6. /\ edges \in [Edges -> Confidences \cup {0}] /\ Sound(run.s, edges)
      /\ Stage(run.pc, run.s, run.model)
  BY <1>1 DEF Typed, QueueTyped, RunSound, InReasoner
<1>7. /\ Sound(t, edges) /\ NextNode(run.pc, t) \in NodeNames \cup {END}
      /\ NextNode(run.pc, t) # END => Stage(NextNode(run.pc, t), t, spoken)
      /\ NextNode(run.pc, t) = END \/ t.halted => Stage("assemble", t, spoken)
  BY <1>1, <1>5, <1>6, OutcomeStage
<1>8. /\ run'.pc \in InReasoner /\ run'.pc \notin {"idle", "neighborhood"}
      /\ Sound(run'.s, edges') /\ Stage(run'.pc, run'.s, run'.model)
  <2>1. run'.pc \in InReasoner /\ Stage(run'.pc, t, spoken)
    BY <1>3, <1>7 DEF InReasoner
  <2> HIDE DEF next
  <2>2. run'.pc \notin {"idle", "neighborhood"}
    BY <2>1 DEF InReasoner, NodeNames
  <2> QED
    BY <1>1, <1>3, <1>4, <1>7, <2>1, <2>2
<1>9. QueueTyped'
  BY <1>1 DEF Typed, QueueTyped
<1>10. RunTyped'
  <2>1. offset < Len(queue)
    BY <1>1 DEF Typed, RunTyped, NodeNames
  <2> HIDE DEF next
  <2> QED
    BY <1>1, <1>3, <1>8, <2>1 DEF Typed, RunTyped, NodeRetries
<1> QED
  BY <1>8, <1>9, <1>10 DEF Typed, RunSound

LEMMA EscapeTyped ==
    ASSUME Typed, run.pc # "idle", Escape, UNCHANGED <<queue, edges>>
    PROVE  Typed'
<1>1. offset < Len(queue)
  BY DEF Typed, RunTyped
<1>2. CASE Job.kind = "event" /\ run.attempt < MaxAttempts
  <2>1. /\ run' = [Idle EXCEPT !.pc = "anchor", !.attempt = run.attempt + 1]
        /\ UNCHANGED <<offset, answers>>
    BY <1>2 DEF Escape
  <2>2. QueueTyped'
    BY <2>1 DEF Typed, QueueTyped
  <2>3. run.attempt + 1 \in 0..MaxAttempts
    BY <1>2 DEF Typed, RunTyped, MaxAttempts
  <2>4. RunTyped' /\ RunSound'
    BY <1>1, <2>1, <2>2, <2>3, NextAttempt
  <2> QED
    BY <2>2, <2>4 DEF Typed
<1>3. CASE ~(Job.kind = "event" /\ run.attempt < MaxAttempts)
  <2>1. Finish(IF Job.kind = "event" THEN "dead" ELSE "500")
    BY <1>3 DEF Escape
  <2> QED
    BY <1>1, <2>1, FinishStep DEF Typed, Answers
<1> QED
  BY <1>2, <1>3

LEMMA FailTyped ==
    ASSUME Typed, Fail
    PROVE  Typed'
<1>1. run.pc \in NodeNames \cup {"anchor", "neighborhood"} /\ UNCHANGED <<queue, edges>>
  BY DEF Fail
<1>2. run.pc # "idle"
  BY <1>1 DEF NodeNames
<1>3. CASE run.pc \in NodeNames /\ engine = "native"
  <2>1. UNCHANGED <<offset, answers>>
    BY <1>3 DEF Fail
  <2>2. QueueTyped'
    BY <1>1, <2>1 DEF Typed, QueueTyped
  <2>3. Sound(run.s, edges) /\ Stage(run.pc, run.s, run.model)
    BY <1>3 DEF Typed, RunSound, InReasoner
  <2>4. CASE run.tries + 1 < NodeRetries
    <3>1. run' = [run EXCEPT !.tries = @ + 1]
      BY <1>3, <2>4 DEF Fail
    <3>2. /\ DOMAIN run' = RunFields /\ run'.pc = run.pc /\ run'.attempt = run.attempt
          /\ run'.tries = run.tries + 1 /\ run'.model = run.model /\ run'.s = run.s
          /\ run'.anchor = run.anchor
      BY <3>1 DEF Typed, RunTyped, RunFields
    <3>3. RunTyped'
      BY <1>1, <2>1, <2>4, <3>2 DEF Typed, RunTyped, NodeRetries
    <3>4. RunSound'
      BY <1>1, <2>3, <3>2 DEF RunSound
    <3> QED
      BY <2>2, <3>3, <3>4 DEF Typed
  <2>5. CASE ~(run.tries + 1 < NodeRetries)
    <3>1. run' = [run EXCEPT !.pc = "assemble", !.s = Halt(@)]
      BY <1>3, <2>5 DEF Fail
    <3>2. /\ DOMAIN run' = RunFields /\ run'.pc = "assemble" /\ run'.attempt = run.attempt
          /\ run'.tries = run.tries /\ run'.s = Halt(run.s)
      BY <3>1 DEF Typed, RunTyped, RunFields
    <3>3. /\ DOMAIN Halt(run.s) = Fields /\ Halt(run.s).halted
          /\ Halt(run.s).evidence = run.s.evidence /\ Halt(run.s).node = run.s.node
          /\ Halt(run.s).citations = run.s.citations /\ Halt(run.s).verified = run.s.verified
          /\ Halt(run.s).confidence = run.s.confidence
      BY <2>3 DEF Sound, Fields, StateOf, Halt
    <3>4. Sound(Halt(run.s), edges)
      BY <2>3, <3>3 DEF Sound, Backed, Earned
    <3>5. Stage("assemble", Halt(run.s), run'.model)
      BY <3>3 DEF Stage, NodeNames
    <3>6. RunTyped'
      BY <1>1, <1>2, <2>1, <3>2 DEF Typed, RunTyped, InReasoner
    <3>7. RunSound'
      BY <1>1, <3>2, <3>4, <3>5 DEF RunSound
    <3> QED
      BY <2>2, <3>6, <3>7 DEF Typed
  <2> QED
    BY <2>4, <2>5
<1>4. CASE ~(run.pc \in NodeNames /\ engine = "native")
  <2>1. Escape
    BY <1>4 DEF Fail
  <2> QED
    BY <1>1, <1>2, <2>1, EscapeTyped
<1> QED
  BY <1>3, <1>4

LEMMA DeliverTyped ==
    ASSUME Typed, Deliver
    PROVE  /\ Typed' /\ offset' = offset + 1 /\ answers'[offset + 1] = "done"
           /\ \A j \in 1..offset : answers'[j] = answers[j]
<1>1. offset < Len(queue) /\ UNCHANGED <<queue, edges>> /\ Finish("done")
  BY DEF Deliver, Typed, RunTyped
<1> QED
  BY <1>1, FinishStep DEF Typed, Answers, Finish

LEMMA WriteTyped ==
    ASSUME Typed, NEW e \in Edges, NEW c \in Confidences, Write(e, c)
    PROVE  /\ Typed' /\ edges \in [Edges -> Nat] /\ edges' \in [Edges -> Nat]
           /\ \A f \in Edges : edges[f] <= edges'[f]
<1>1. /\ edges' = [edges EXCEPT ![e] = c] /\ c > edges[e]
      /\ UNCHANGED <<queue, offset, run, answers>>
  BY DEF Write
<1>2. edges \in [Edges -> Confidences \cup {0}] /\ edges' \in [Edges -> Confidences \cup {0}]
  BY <1>1 DEF Typed, QueueTyped
<1>3. edges \in [Edges -> Nat] /\ edges' \in [Edges -> Nat]
  BY <1>2, GraphIsTyped
<1>4. \A f \in Edges : edges[f] <= edges'[f]
  <2> SUFFICES ASSUME NEW f \in Edges PROVE edges[f] <= edges'[f]
    OBVIOUS
  <2>1. CASE f = e
    BY <1>1, <1>3, <2>1
  <2>2. CASE f # e
    BY <1>1, <1>3, <2>2
  <2> QED
    BY <2>1, <2>2
<1>5. QueueTyped' /\ RunTyped'
  BY <1>1, <1>2 DEF Typed, QueueTyped, RunTyped
<1>6. RunSound'
  <2>1. Sound(run.s, edges) => Sound(run.s, edges')
    BY <1>3, <1>4, GraphGrows DEF Sound
  <2> QED
    BY <1>1, <2>1 DEF Typed, RunSound
<1> QED
  BY <1>3, <1>4, <1>5, <1>6 DEF Typed

LEMMA TypedInit == Init => Typed
<1> SUFFICES ASSUME Init PROVE Typed
  OBVIOUS
<1>1. Min(Confidences) \in Confidences
  <2>1. Confidences \subseteq Nat /\ Confidences # {}
    BY GraphAssumption
  <2> QED
    BY <2>1, MinOfNats
<1>2. edges \in [Edges -> Confidences \cup {0}]
  BY <1>1 DEF Init
<1>3. queue = <<>> /\ offset = 0 /\ run = Idle /\ answers = <<>>
  BY DEF Init
<1>4. QueueTyped
  BY <1>2, <1>3 DEF QueueTyped
<1>5. RunTyped /\ RunSound
  BY <1>3, IdleRun DEF RunTyped, RunSound, InReasoner, NodeNames, NodeRetries, MaxAttempts
<1> QED
  BY <1>4, <1>5 DEF Typed

LEMMA TypedStep == Typed /\ [Next]_vars => Typed'
<1> SUFFICES ASSUME Typed, [Next]_vars PROVE Typed'
  OBVIOUS
<1>1. ASSUME NEW kind \in {"event", "request", "trigger"}, NEW n \in Asked, NEW score \in Scores,
             Submit(kind, n, score)
      PROVE  Typed'
  BY <1>1, SubmitTyped
<1>2. ASSUME NEW e \in Edges, NEW c \in Confidences, Write(e, c) PROVE Typed'
  BY <1>2, WriteTyped
<1>3. CASE Work
  BY <1>3, StartTyped, AnchorTyped, GatherTyped, RunNodeTyped, DeliverTyped DEF Work
<1>4. CASE Fail
  BY <1>4, FailTyped
<1>5. CASE UNCHANGED vars
  BY <1>5 DEF vars, Typed, QueueTyped, RunTyped, RunSound
<1> QED
  BY <1>1, <1>2, <1>3, <1>4, <1>5 DEF Next

\* The files of the worker are in order: the offset within the queue, an answer for each job
\* done, attempts and tries within their limits, a state for whoever reasons.
THEOREM JobsAreTyped == Spec => []TypeOK
<1>1. Typed => TypeOK
  <2> SUFFICES ASSUME Typed PROVE TypeOK
    OBVIOUS
  <2>1. run.pc \in InReasoner => DOMAIN run.s = Fields
    BY DEF Typed, RunSound, Sound
  <2> QED
    BY <2>1 DEF Typed, QueueTyped, RunTyped, TypeOK, Fields, InReasoner, NodeRetries, MaxAttempts
<1> QED
  BY <1>1, TypedInit, TypedStep, PTL DEF Spec

-----------------------------------------------------------------------------
(* What has been published *)

\* A result is what its run had to say, and the run was sound at the end of it.
Reported(p, g) ==
    /\ p.result = Assemble(p.by.s)
    /\ Sound(p.by.s, g) /\ Stage("assemble", p.by.s, p.by.model)

Reports ==
    /\ published \in Seq(ToSet(published))
    /\ \A i \in 1..Len(published) : Reported(published[i], edges)

\* Results and jobs: a result belongs to an event that is done, one result to each of them.
Once ==
    /\ \A i \in 1..Len(published) :
         /\ published[i].job \in 1..offset
         /\ queue[published[i].job].kind = "event" /\ answers[published[i].job] = "done"
    /\ \A i, j \in 1..Len(published) : published[i].job = published[j].job => i = j
    /\ \A j \in 1..offset : queue[j].kind = "event" /\ answers[j] = "done" =>
         \E i \in 1..Len(published) : published[i].job = j

\* A delivery appends one report of the job at hand, if that job is an event.
LEMMA Delivery ==
    ASSUME Typed, Reports, Deliver
    PROVE  \/ Job.kind # "event" /\ published' = published
           \/ /\ Job.kind = "event"
              /\ published' \in Seq(ToSet(published')) /\ Len(published') = Len(published) + 1
              /\ \A i \in 1..Len(published) : published'[i] = published[i]
              /\ published'[Len(published) + 1].job = offset + 1
              /\ Reported(published'[Len(published) + 1], edges)
<1>1. CASE Job.kind = "event"
  <2> DEFINE report == [job |-> offset + 1, result |-> Assemble(run.s), by |-> run]
  <2>1. published' = Append(published, report)
    BY <1>1 DEF Deliver
  <2>2. report.job = offset + 1 /\ Reported(report, edges)
    BY DEF Deliver, Typed, RunSound, InReasoner, Reported
  <2> HIDE DEF report
  <2>3. /\ published' \in Seq(ToSet(published')) /\ Len(published') = Len(published) + 1
        /\ \A i \in 1..Len(published) : published'[i] = published[i]
        /\ published'[Len(published) + 1] = report
    BY <2>1, Appended DEF Reports
  <2> QED
    BY <1>1, <2>2, <2>3
<1>2. CASE Job.kind # "event"
  BY <1>2 DEF Deliver
<1> QED
  BY <1>1, <1>2

LEMMA ReportsStep == Typed /\ Reports /\ [Next]_vars => Reports'
<1> SUFFICES ASSUME Typed, Reports, [Next]_vars PROVE Reports'
  OBVIOUS
<1>1. CASE Deliver
  <2>1. edges' = edges
    BY <1>1 DEF Deliver
  <2>2. published \in Seq(ToSet(published))
    BY DEF Reports
  <2> QED
    BY <1>1, <2>1, <2>2, Delivery DEF Reports
<1>2. ASSUME NEW e \in Edges, NEW c \in Confidences, Write(e, c) PROVE Reports'
  <2>1. /\ edges \in [Edges -> Nat] /\ edges' \in [Edges -> Nat]
        /\ \A f \in Edges : edges[f] <= edges'[f]
    BY <1>2, WriteTyped
  <2>2. published' = published
    BY <1>2 DEF Write
  <2>3. \A p : Reported(p, edges) => Reported(p, edges')
    BY <2>1, GraphGrows DEF Reported, Sound
  <2> QED
    BY <2>2, <2>3 DEF Reports
<1>3. CASE UNCHANGED <<published, edges>>
  BY <1>3 DEF Reports
<1>4. \/ Deliver \/ UNCHANGED <<published, edges>>
      \/ \E e \in Edges, c \in Confidences : Write(e, c)
  BY DEF Next, Work, Submit, Start, Anchor, Gather, RunNode, Fail, vars
<1> QED
  BY <1>1, <1>2, <1>3, <1>4

LEMMA ReportsInit == Init => Reports
BY DEF Init, Reports, ToSet

\* Without a model's words, what the nodes publish about verified evidence is what the
\* TemplateReasoner would have said of it.
THEOREM NodesAgreeWithTheTemplate == Spec => []MatchesTemplateReasoner
<1>1. Reports => MatchesTemplateReasoner
  BY DEF Reports, Reported, Stage, Agrees, MatchesTemplateReasoner
<1> QED
  BY <1>1, TypedInit, TypedStep, ReportsInit, ReportsStep, PTL DEF Spec

\* A published confidence stays below that of every relationship it cites, and a run whose
\* evidence was not verified claims none.
THEOREM ConfidenceIsNeverOverstated == Spec => []ConfidenceIsEarned
<1>1. ASSUME Reports PROVE ConfidenceIsEarned
  <2> SUFFICES ASSUME NEW i \in 1..Len(published)
               PROVE  LET r == published[i].result IN
                      /\ \A c \in r.citations : c.kind = "edge" => r.confidence <= edges[c.ref]
                      /\ ~published[i].by.s.verified => r.confidence = 0
    BY DEF ConfidenceIsEarned
  <2> DEFINE s == published[i].by.s
  <2>1. published[i].result = Assemble(s) /\ Earned(s, edges)
    BY <1>1 DEF Reports, Reported, Sound
  <2>2. Assemble(s).citations = s.citations /\ Assemble(s).confidence = s.confidence
    BY DEF Assemble
  <2> QED
    BY <2>1, <2>2 DEF Earned
<1> QED
  BY <1>1, TypedInit, TypedStep, ReportsInit, ReportsStep, PTL DEF Spec

-----------------------------------------------------------------------------
(* One answer to every risk *)

\* A step that publishes nothing and finishes a job, if any, with another answer than "done".
LEMMA OnceKept ==
    ASSUME Typed, Once, published' = published,
           offset' \in {offset, offset + 1},
           \A j \in 1..offset : answers'[j] = answers[j] /\ queue'[j] = queue[j],
           offset' = offset + 1 =>
             ~(queue'[offset + 1].kind = "event" /\ answers'[offset + 1] = "done")
    PROVE  Once'
<1>1. offset \in Nat
  BY DEF Typed, QueueTyped
<1>2. \A i \in 1..Len(published) :
        /\ published[i].job \in 1..offset'
        /\ queue'[published[i].job].kind = "event" /\ answers'[published[i].job] = "done"
  BY <1>1 DEF Once
<1>3. \A j \in 1..offset' : queue'[j].kind = "event" /\ answers'[j] = "done" =>
        j \in 1..offset /\ queue[j].kind = "event" /\ answers[j] = "done"
  BY <1>1
<1> QED
  BY <1>2, <1>3 DEF Once

LEMMA OnceFinished ==
    ASSUME Typed, Once, run.pc # "idle", published' = published, UNCHANGED <<queue, edges>>,
           NEW answer \in Answers \ {"done"}, Finish(answer)
    PROVE  Once'
<1>1. offset < Len(queue)
  BY DEF Typed, RunTyped
<1>2. /\ answers'[offset + 1] = answer /\ \A j \in 1..offset : answers'[j] = answers[j]
  BY <1>1, FinishStep DEF Typed
<1>3. offset' = offset + 1
  BY DEF Finish
<1> QED
  BY <1>2, <1>3, OnceKept

LEMMA OnceStep == Typed /\ Reports /\ Once /\ [Next]_vars => Once'
<1> SUFFICES ASSUME Typed, Reports, Once, [Next]_vars PROVE Once'
  OBVIOUS
<1>0. offset \in Nat /\ offset <= Len(queue)
  BY DEF Typed, QueueTyped
<1>1. ASSUME NEW kind \in {"event", "request", "trigger"}, NEW n \in Asked, NEW score \in Scores,
             Submit(kind, n, score)
      PROVE  Once'
  <2>1. \A j \in 1..Len(queue) : queue'[j] = queue[j]
    BY <1>1, SubmitTyped
  <2>2. UNCHANGED <<offset, answers, published>>
    BY <1>1 DEF Submit
  <2>3. \A j \in 1..offset : queue'[j] = queue[j]
    BY <1>0, <2>1, Len(queue) \in Nat DEF Typed, QueueTyped
  <2> QED
    BY <2>2, <2>3, OnceKept, <1>0
<1>2. CASE Deliver
  <2>1. /\ offset' = offset + 1 /\ answers'[offset + 1] = "done" /\ queue' = queue
        /\ \A j \in 1..offset : answers'[j] = answers[j]
    BY <1>2, DeliverTyped DEF Deliver
  <2>2. CASE Job.kind # "event"
    <3>1. published' = published /\ queue'[offset + 1].kind # "event"
      BY <1>2, <2>1, <2>2, Delivery DEF Job
    <3> QED
      BY <2>1, <3>1, OnceKept
  <2>3. CASE Job.kind = "event"
    <3>1. /\ Len(published') = Len(published) + 1
          /\ \A i \in 1..Len(published) : published'[i] = published[i]
          /\ published'[Len(published) + 1].job = offset + 1
          /\ queue[offset + 1].kind = "event" /\ Len(published) \in Nat
      BY <1>2, <2>3, Delivery DEF Job, Reports
    <3> DEFINE last == Len(published) + 1
    <3>5. \A i \in 1..Len(published') : i \in 1..Len(published) \/ i = last
      BY <3>1
    <3>6. \A i \in 1..Len(published) : published'[i].job \in 1..offset
      BY <3>1 DEF Once
    <3>2. \A i \in 1..Len(published') :
            /\ published'[i].job \in 1..offset'
            /\ queue'[published'[i].job].kind = "event" /\ answers'[published'[i].job] = "done"
      <4> SUFFICES ASSUME NEW i \in 1..Len(published')
                   PROVE  /\ published'[i].job \in 1..offset'
                          /\ queue'[published'[i].job].kind = "event"
                          /\ answers'[published'[i].job] = "done"
        OBVIOUS
      <4>1. CASE i = last
        BY <1>0, <2>1, <3>1, <4>1
      <4>2. CASE i \in 1..Len(published)
        <5>1. /\ published'[i].job \in 1..offset /\ queue[published'[i].job].kind = "event"
              /\ answers[published'[i].job] = "done"
          BY <3>1, <4>2 DEF Once
        <5> QED
          BY <1>0, <2>1, <5>1
      <4> QED
        BY <3>5, <4>1, <4>2
    <3>3. \A i, j \in 1..Len(published') : published'[i].job = published'[j].job => i = j
      <4> SUFFICES ASSUME NEW i \in 1..Len(published'), NEW j \in 1..Len(published'),
                          published'[i].job = published'[j].job
                   PROVE  i = j
        OBVIOUS
      <4>1. CASE i = last /\ j \in 1..Len(published)
        BY <1>0, <3>1, <3>6, <4>1
      <4>2. CASE j = last /\ i \in 1..Len(published)
        BY <1>0, <3>1, <3>6, <4>2
      <4>3. CASE i \in 1..Len(published) /\ j \in 1..Len(published)
        BY <3>1, <4>3 DEF Once
      <4> QED
        BY <3>5, <4>1, <4>2, <4>3
    <3>4. \A j \in 1..offset' : queue'[j].kind = "event" /\ answers'[j] = "done" =>
            \E i \in 1..Len(published') : published'[i].job = j
      <4> SUFFICES ASSUME NEW j \in 1..offset', queue'[j].kind = "event", answers'[j] = "done"
                   PROVE  \E i \in 1..Len(published') : published'[i].job = j
        OBVIOUS
      <4>1. CASE j = offset + 1
        BY <3>1, <4>1
      <4>2. CASE j \in 1..offset
        <5>1. PICK i \in 1..Len(published) : published[i].job = j
          BY <2>1, <4>2 DEF Once
        <5> QED
          BY <3>1, <5>1
      <4> QED
        BY <1>0, <2>1, <4>1, <4>2
    <3> QED
      BY <3>2, <3>3, <3>4 DEF Once
  <2> QED
    BY <2>2, <2>3
<1>3. CASE Anchor
  <2>1. run.pc # "idle" /\ published' = published /\ UNCHANGED <<queue, edges>>
    BY <1>3 DEF Anchor
  <2>2. CASE Job.node \in Nodes
    BY <1>3, <2>1, <2>2, OnceKept, <1>0 DEF Anchor
  <2>3. CASE Job.node \notin Nodes
    BY <1>3, <2>1, <2>3, OnceFinished DEF Anchor, Answers
  <2> QED
    BY <2>2, <2>3
<1>4. CASE Fail
  <2>1. run.pc # "idle" /\ published' = published /\ UNCHANGED <<queue, edges>>
    BY <1>4 DEF Fail, NodeNames
  <2>2. CASE UNCHANGED <<offset, answers>>
    BY <2>1, <2>2, OnceKept, <1>0
  <2>3. CASE Finish(IF Job.kind = "event" THEN "dead" ELSE "500")
    BY <2>1, <2>3, OnceFinished DEF Answers
  <2> QED
    BY <1>4, <2>2, <2>3 DEF Fail, Escape
<1>5. CASE UNCHANGED <<queue, offset, answers, published>>
  BY <1>5, <1>0, OnceKept
<1> QED
  BY <1>1, <1>2, <1>3, <1>4, <1>5 DEF Next, Work, Start, Gather, RunNode, Write, vars

LEMMA OnceInit == Init => Once
BY DEF Init, Once

\* Every risk event the worker is done with has exactly one result if it ended well, none if
\* it named no node or went to the dead-letter topic.
THEOREM RisksAreAnsweredOnce == Spec => []EveryRiskIsAnswered
<1>1. Typed /\ Once => EveryRiskIsAnswered
  <2> SUFFICES ASSUME Typed, Once, NEW j \in 1..offset, queue[j].kind = "event"
               PROVE  Cardinality({i \in 1..Len(published) : published[i].job = j})
                        = (IF answers[j] = "done" THEN 1 ELSE 0)
    BY DEF EveryRiskIsAnswered
  <2> DEFINE of == {i \in 1..Len(published) : published[i].job = j}
  <2>1. CASE answers[j] = "done"
    <3>1. PICK i \in 1..Len(published) : published[i].job = j
      BY <2>1 DEF Once
    <3>2. of = {i}
      BY <3>1 DEF Once
    <3> QED
      BY <2>1, <3>2, FS_Singleton
  <2>2. CASE answers[j] # "done"
    <3>1. of = {}
      BY <2>2 DEF Once
    <3> QED
      BY <2>2, <3>1, FS_EmptySet
  <2> QED
    BY <2>1, <2>2
<1> QED
  BY <1>1, TypedInit, TypedStep, ReportsInit, ReportsStep, OnceInit, OnceStep, PTL DEF Spec
=============================================================================
