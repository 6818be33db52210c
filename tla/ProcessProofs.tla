----------------------------- MODULE ProcessProofs -----------------------------
(***************************************************************************)
(* The two ways the handlers are hosted.                                   *)
(*                                                                         *)
(* Lifecycle, a process of a service, for any numbers of attempts, probes, *)
(* buckets and overlapping requests: what a scrape shows adds up at every  *)
(* instant, and a probe that outlasts the warm-up kills nobody who waits   *)
(* for Neo4j.                                                              *)
(*                                                                         *)
(* Extraction, the one process of tools/wiring.py, for any objects,        *)
(* scenarios, retries and failures: every rule of extraction names both    *)
(* ends of its edges, no raw event vanishes, and no mention erases what is *)
(* known of a node.                                                        *)
(***************************************************************************)
EXTENDS Lifecycle, Extraction, FiniteSetTheorems, SequenceTheorems, TLAPS

Stages == {"none", "route", "count", "observe", "leave"}

ProcessTyped ==
    /\ DOMAIN process = {"at", "tried", "busy"}
    /\ process.at \in {"connect", "serve", "on_ready", "listening"}
    /\ process.tried \in 0..Attempts /\ process.busy \in Nat
    /\ DOMAIN probe = {"due", "failed"}
    /\ probe.due \in 1..ProbePeriod /\ probe.failed \in 0..(ProbeFailures - 1)
    /\ process.at = "listening" <=> latch
    /\ process.at \in {"on_ready", "listening"} => consumer # "none"

RequestsTyped ==
    /\ requests \in [Slots -> [stage : Stages, status : Nat, bucket : Nat]]
    /\ DOMAIN metrics = {"inflight", "total", "errors", "observed", "counts"}
    /\ metrics.inflight \in Nat /\ metrics.total \in Nat
    /\ metrics.errors \in Nat /\ metrics.observed \in Nat
    /\ metrics.counts \in [1..Buckets -> Nat]

-----------------------------------------------------------------------------
\* Start-up.

LEMMA Constants ==
    /\ Attempts \in Nat \ {0} /\ ProbePeriod \in Nat \ {0} /\ ProbeFailures \in Nat \ {0}
    /\ AttemptTicks \subseteq Nat \ {0} /\ SyncTicks \subseteq Nat /\ SlowTicks \subseteq Nat
    /\ Buckets \in Nat /\ IsFiniteSet(Slots)
BY LifecycleAssumption

LEMMA FreshProcess ==
    ASSUME process' = NewProcess, probe' = [due |-> ProbePeriod, failed |-> 0],
           consumer' = "none", latch' = FALSE
    PROVE  ProcessTyped'
<1>1. /\ DOMAIN process' = {"at", "tried", "busy"}
      /\ process'.at \in {"connect", "serve"} /\ process'.tried = 0 /\ process'.busy = 0
  BY DEF NewProcess
<1>2. DOMAIN probe' = {"due", "failed"} /\ probe'.due = ProbePeriod /\ probe'.failed = 0
  OBVIOUS
<1>3. QED
  BY <1>1, <1>2, Constants DEF ProcessTyped

LEMMA ProcessStep ==
    ASSUME ProcessTyped, [ProcessNext]_processVars
    PROVE  ProcessTyped'
<1>1. CASE Connect
  <2>1. CASE neo4j
    BY <1>1, <2>1 DEF Connect, Awake, ProcessTyped
  <2>2. CASE ~neo4j
    <3>1. PICK t \in AttemptTicks :
            process' = [process EXCEPT !.tried = IF @ < Attempts THEN @ + 1 ELSE @, !.busy = t]
      BY <1>1, <2>2 DEF Connect
    <3>2. /\ process'.at = process.at /\ process'.busy = t
          /\ process'.tried =
                IF process.tried < Attempts THEN process.tried + 1 ELSE process.tried
          /\ DOMAIN process' = DOMAIN process
      BY <3>1 DEF ProcessTyped
    <3>3. process'.tried \in 0..Attempts /\ t \in Nat
      BY <3>2, Constants DEF ProcessTyped
    <3>4. QED
      BY <1>1, <3>2, <3>3 DEF Connect, ProcessTyped
  <2>3. QED
    BY <2>1, <2>2
<1>2. CASE GiveUp \/ OnReadyRaises
  BY <1>2, FreshProcess DEF GiveUp, OnReadyRaises, StartOver
<1>3. CASE StartConsumer
  <2>1. PICK t : /\ process' = [process EXCEPT !.at = "on_ready", !.busy = t]
                 /\ t \in SyncTicks \cup SlowTicks \cup {0}
    BY <1>3 DEF StartConsumer
  <2>2. /\ process'.at = "on_ready" /\ process'.busy = t /\ process'.tried = process.tried
        /\ DOMAIN process' = DOMAIN process /\ t \in Nat
    BY <2>1, Constants DEF ProcessTyped
  <2>3. QED
    BY <1>3, <2>2 DEF StartConsumer, Awake, ProcessTyped
<1>4. CASE ConsumerCrashes
  BY <1>4 DEF ConsumerCrashes, ProcessTyped
<1>5. CASE Listen
  BY <1>5 DEF Listen, Awake, ProcessTyped
<1>6. CASE Tick
  <2>1. CASE UNCHANGED <<consumer, latch>> /\ process' = [process EXCEPT !.busy = @ - 1]
    <3>1. /\ process'.at = process.at /\ process'.tried = process.tried
          /\ DOMAIN process' = DOMAIN process /\ process'.busy \in Nat
      BY <1>6, <2>1 DEF Tick, ProcessTyped
    <3>2. /\ DOMAIN probe' = {"due", "failed"} /\ probe'.due \in 1..ProbePeriod
          /\ probe'.failed \in 0..(ProbeFailures - 1)
      <4>1. CASE probe.due > 1
        BY <1>6, <4>1, Constants DEF Tick, ProcessTyped
      <4>2. CASE ~(probe.due > 1) /\ probe.failed + 1 < ProbeFailures
        BY <1>6, <4>2, Constants DEF Tick, ProcessTyped
      <4>3. CASE ~(probe.due > 1) /\ ~(probe.failed + 1 < ProbeFailures)
        BY <1>6, <4>3, Constants DEF Tick, StartOver
      <4>4. QED
        BY <4>1, <4>2, <4>3
    <3>3. QED
      BY <2>1, <3>1, <3>2 DEF ProcessTyped
  <2>2. CASE StartOver
    BY <2>2, FreshProcess DEF StartOver
  <2>3. QED
    BY <1>6, <2>1, <2>2 DEF Tick
<1>7. CASE UNCHANGED <<process, probe, latch, consumer>>
  BY <1>7 DEF ProcessTyped
<1>8. QED
  BY <1>1, <1>2, <1>3, <1>4, <1>5, <1>6, <1>7
  DEF ProcessNext, StartUp, Neo4jUp, Neo4jDown, Enter, Route,
     Count, Observe, Leave, processVars

-----------------------------------------------------------------------------
(* The warm-up. While a process waits for Neo4j, the probe's clock is      *)
(* never ahead of the longest its attempts so far can have taken.          *)

\* The failed attempts of a process, of at most T ticks each, take less time than the
\* probe waits. Chart and defaults: 30 attempts into 40 probes 5 s apart, so T < 6.7 s.
Outlasts(T) == (\A t \in AttemptTicks : t <= T) /\ Attempts * T < ProbeFailures * ProbePeriod

ProbeOutlastsWarmup == \E T \in Nat : Outlasts(T)

\* What the probe's clock shows, and what a process that waits still sleeps.
Waited(T) ==
    process.at = "connect" =>
        probe.failed * ProbePeriod + (ProbePeriod - probe.due) + process.busy
          <= process.tried * T

LEMMA NextMultiple ==
    /\ \A m, n \in Nat : m * n \in Nat /\ 0 * n = 0 /\ (m + 1) * n = m * n + n
    /\ \A m, n, k \in Nat : m <= n => m * k <= n * k
BY SMT

LEMMA WaitedStep ==
    ASSUME ProcessTyped, NEW T \in Nat, Outlasts(T), Waited(T), "connect" \notin killed,
           [ProcessNext]_processVars
    PROVE  Waited(T)' /\ "connect" \notin killed'
<1>1. /\ probe.due \in Nat /\ probe.due >= 1 /\ probe.due <= ProbePeriod
      /\ probe.failed \in Nat /\ probe.failed + 1 <= ProbeFailures
      /\ process.tried \in Nat /\ process.tried <= Attempts /\ process.busy \in Nat
      /\ ProbePeriod \in Nat /\ ProbeFailures \in Nat /\ Attempts \in Nat
  BY Constants DEF ProcessTyped
<1>2. CASE StartOver /\ killed' = killed
  <2>1. /\ process'.tried = 0 /\ process'.busy = 0
        /\ probe'.due = ProbePeriod /\ probe'.failed = 0
    BY <1>2 DEF StartOver, NewProcess
  <2>2. probe'.failed * ProbePeriod = 0 /\ process'.tried * T = 0
    BY <1>1, <2>1, NextMultiple
  <2>3. QED
    BY <1>1, <1>2, <2>1, <2>2 DEF Waited
<1>3. CASE Connect
  <2>1. UNCHANGED <<probe, killed>> /\ process.at = "connect" /\ process.busy = 0
    BY <1>3 DEF Connect, Awake
  <2>2. CASE neo4j
    BY <1>3, <2>1, <2>2 DEF Connect, Waited, ProcessTyped
  <2>3. CASE ~neo4j
    <3>1. PICK t \in AttemptTicks :
            process' = [process EXCEPT !.tried = IF @ < Attempts THEN @ + 1 ELSE @, !.busy = t]
      BY <1>3, <2>3 DEF Connect
    <3>2. process'.busy = t /\ process'.tried = process.tried + 1
      BY <1>3, <3>1 DEF Connect, ConnectsLeft, ProcessTyped
    <3>3. t \in Nat /\ t <= T
      BY Constants DEF Outlasts
    <3>4. process'.tried * T = process.tried * T + T /\ process.tried * T \in Nat
      BY <1>1, <3>2, NextMultiple
    <3>5. probe.failed * ProbePeriod \in Nat
      BY <1>1, NextMultiple
    <3>6. QED
      BY <1>1, <2>1, <3>2, <3>3, <3>4, <3>5 DEF Waited
  <2>4. QED
    BY <2>2, <2>3
<1>4. CASE StartConsumer \/ Listen
  <2>1. process'.at # "connect" /\ UNCHANGED killed
    BY <1>4 DEF StartConsumer, Listen, ProcessTyped
  <2>2. QED
    BY <2>1 DEF Waited
<1>5. CASE Tick
  <2>1. PICK p, q : p = probe.failed * ProbePeriod /\ q = process.tried * T
    OBVIOUS
  <2>2. p \in Nat /\ q \in Nat
    BY <1>1, <2>1, NextMultiple
  <2>3. process.busy > 0
    BY <1>5 DEF Tick
  <2>4. CASE process' = [process EXCEPT !.busy = @ - 1] /\ UNCHANGED killed
    <3>1. process'.at = process.at /\ process'.tried = process.tried
          /\ process'.busy = process.busy - 1
      BY <2>4 DEF ProcessTyped
    <3>2. process'.tried * T = q
      BY <2>1, <3>1
    <3>3. CASE probe.due > 1
      <4>1. probe'.due = probe.due - 1 /\ probe'.failed = probe.failed
        BY <1>5, <3>3 DEF Tick, ProcessTyped
      <4>2. probe'.failed * ProbePeriod = p
        BY <2>1, <4>1
      <4>3. QED
        BY <1>1, <2>1, <2>2, <2>3, <2>4, <3>1, <3>2, <4>1, <4>2 DEF Waited
    <3>4. CASE ~(probe.due > 1) /\ probe.failed + 1 < ProbeFailures
      <4>1. probe'.due = ProbePeriod /\ probe'.failed = probe.failed + 1 /\ probe.due = 1
        BY <1>1, <1>5, <3>4 DEF Tick
      <4>2. probe'.failed * ProbePeriod = p + ProbePeriod
        BY <1>1, <2>1, <4>1, NextMultiple
      <4>3. QED
        BY <1>1, <2>1, <2>2, <2>3, <2>4, <3>1, <3>2, <4>1, <4>2 DEF Waited
    <3>5. CASE ~(probe.due > 1) /\ ~(probe.failed + 1 < ProbeFailures)
      <4>1. StartOver /\ killed' = killed
        BY <1>5, <2>4, <3>5 DEF Tick
      <4>2. QED
        BY <1>2, <4>1
    <3>6. QED
      BY <3>3, <3>4, <3>5
  <2>5. CASE StartOver /\ killed' = killed \cup {process.at} /\ ~(probe.due > 1)
             /\ ~(probe.failed + 1 < ProbeFailures)
    <3>1. process.at # "connect"
      <4> SUFFICES ASSUME process.at = "connect" PROVE FALSE
        OBVIOUS
      <4>1. probe.due = 1 /\ probe.failed + 1 = ProbeFailures
        BY <1>1, <2>5
      <4>2. ProbeFailures * ProbePeriod = p + ProbePeriod
        BY <1>1, <2>1, <4>1, NextMultiple
      <4>3. p + (ProbePeriod - 1) + process.busy <= q
        BY <2>1, <4>1 DEF Waited
      <4>4. q <= Attempts * T /\ Attempts * T \in Nat
        BY <1>1, <2>1, NextMultiple
      <4>5. Attempts * T < p + ProbePeriod
        BY <4>2 DEF Outlasts
      <4>6. QED
        BY <1>1, <2>2, <2>3, <4>3, <4>4, <4>5
    <3>2. /\ process'.tried = 0 /\ process'.busy = 0
          /\ probe'.due = ProbePeriod /\ probe'.failed = 0
      BY <2>5 DEF StartOver, NewProcess
    <3>3. probe'.failed * ProbePeriod = 0 /\ process'.tried * T = 0
      BY <1>1, <3>2, NextMultiple
    <3>4. QED
      BY <1>1, <2>5, <3>1, <3>2, <3>3 DEF Waited
  <2>6. QED
    BY <1>5, <2>4, <2>5 DEF Tick
<1>6. CASE UNCHANGED <<process, probe, killed>>
  BY <1>6 DEF Waited
<1>7. QED
  BY <1>2, <1>3, <1>4, <1>5, <1>6
  DEF ProcessNext, StartUp, GiveUp, OnReadyRaises, ConsumerCrashes,
     Neo4jUp, Neo4jDown, Enter, Route, Count, Observe, Leave, processVars

LEMMA ProcessCorrect == ProcessSpec => []ProcessTyped
<1>1. ProcessInit => ProcessTyped
  <2> SUFFICES ASSUME ProcessInit PROVE ProcessTyped
    OBVIOUS
  <2>1. /\ DOMAIN process = {"at", "tried", "busy"}
        /\ process.at \in {"connect", "serve"} /\ process.tried = 0 /\ process.busy = 0
    BY DEF ProcessInit, NewProcess
  <2>2. DOMAIN probe = {"due", "failed"} /\ probe.due = ProbePeriod /\ probe.failed = 0 /\ ~latch
    BY DEF ProcessInit
  <2>3. QED
    BY <2>1, <2>2, Constants DEF ProcessTyped
<1>2. QED
  BY <1>1, ProcessStep, PTL DEF ProcessSpec

(***************************************************************************)
(* "the service does not crash-loop during that warmup window; it just     *)
(* waits, then serves" (_wait_for_neo4j): if all its failed attempts take  *)
(* less time than the startup probe of the chart grants, the kubelet kills *)
(* no process that waits for Neo4j, whatever outages it meets.             *)
(***************************************************************************)
THEOREM WarmupFits ==
    ASSUME ProbeOutlastsWarmup
    PROVE  ProcessSpec => []WarmupIsWaitedOut
<1>1. PICK T \in Nat : Outlasts(T)
  BY DEF ProbeOutlastsWarmup
<1>2. ProcessInit => Waited(T) /\ "connect" \notin killed
  <2> SUFFICES ASSUME ProcessInit PROVE Waited(T) /\ "connect" \notin killed
    OBVIOUS
  <2>1. /\ process.tried = 0 /\ process.busy = 0 /\ killed = {}
        /\ probe.due = ProbePeriod /\ probe.failed = 0
    BY DEF ProcessInit, NewProcess
  <2>2. probe.failed * ProbePeriod = 0 /\ process.tried * T = 0 /\ ProbePeriod \in Nat
    BY <2>1, NextMultiple, Constants
  <2>3. QED
    BY <2>1, <2>2 DEF Waited
<1>3. ProcessTyped /\ Waited(T) /\ "connect" \notin killed /\ [ProcessNext]_processVars
      => (Waited(T) /\ "connect" \notin killed)'
  BY <1>1, WaitedStep
<1>4. QED
  BY <1>2, <1>3, ProcessCorrect, PTL DEF ProcessSpec, WarmupIsWaitedOut

-----------------------------------------------------------------------------
(* Scrapes. Each call of METRICS moves one request from one stage to the   *)
(* next, and the counters with it.                                         *)

Holding(S) == {r \in Slots : requests[r].stage \in S}
CountIn(S) == Cardinality(Holding(S))

Overlapping == {"route", "count", "observe", "leave"}

Adding ==
    /\ metrics.inflight = CountIn(Overlapping)
    /\ metrics.total = metrics.observed + CountIn({"observe"})
    /\ metrics.errors <= metrics.total
    /\ \A b \in 1..Buckets : Rendered[b] <= Rendered[b + 1]

LEMMA HoldingFinite == \A S : IsFiniteSet(Holding(S)) /\ CountIn(S) \in Nat
BY FS_Subset, FS_CardinalityType, Constants DEF Holding, CountIn

\* One request moves.
LEMMA OneMoves ==
    ASSUME NEW r \in Slots, \A q \in Slots : q # r => requests'[q] = requests[q], NEW S
    PROVE  /\ CountIn(S) \in Nat
           /\ (requests[r].stage \in S <=> requests'[r].stage \in S) => CountIn(S)' = CountIn(S)
           /\ requests[r].stage \notin S /\ requests'[r].stage \in S
                => CountIn(S)' = CountIn(S) + 1
           /\ requests[r].stage \in S /\ requests'[r].stage \notin S
                => CountIn(S)' = CountIn(S) - 1
<1>1. IsFiniteSet(Holding(S)) /\ CountIn(S) \in Nat
  BY HoldingFinite
<1>2. CASE requests[r].stage \in S <=> requests'[r].stage \in S
  <2>1. Holding(S)' = Holding(S)
    BY <1>2 DEF Holding
  <2>2. QED
    BY <1>1, <1>2, <2>1 DEF CountIn
<1>3. CASE requests[r].stage \notin S /\ requests'[r].stage \in S
  <2>1. Holding(S)' = Holding(S) \cup {r} /\ r \notin Holding(S)
    BY <1>3 DEF Holding
  <2>2. QED
    BY <1>1, <1>3, <2>1, FS_AddElement DEF CountIn
<1>4. CASE requests[r].stage \in S /\ requests'[r].stage \notin S
  <2>1. Holding(S)' = Holding(S) \ {r} /\ r \in Holding(S)
    BY <1>4 DEF Holding
  <2>2. QED
    BY <1>1, <1>4, <2>1, FS_RemoveElement DEF CountIn
<1>5. QED
  BY <1>1, <1>2, <1>3, <1>4

\* A step that leaves the histogram alone.
LEMMA Reassembled ==
    ASSUME RequestsTyped, Adding,
           requests' \in [Slots -> [stage : Stages, status : Nat, bucket : Nat]],
           DOMAIN metrics' = DOMAIN metrics,
           UNCHANGED <<metrics.observed, metrics.counts>>,
           NEW i \in Nat, metrics'.inflight = i, i = CountIn(Overlapping)',
           NEW t \in Nat, metrics'.total = t, t = metrics.observed + CountIn({"observe"})',
           NEW e \in Nat, metrics'.errors = e, e <= t
    PROVE  RequestsTyped' /\ Adding'
<1>1. RequestsTyped'
  BY DEF RequestsTyped
<1>2. Rendered' = Rendered
  BY DEF Rendered
<1>3. \A b \in 1..Buckets : Rendered'[b] <= Rendered'[b + 1]
  BY <1>2 DEF Adding
<1>4. QED
  BY <1>1, <1>3 DEF Adding

LEMMA NothingYet ==
    ASSUME requests' = [r \in Slots |-> NoRequest], metrics' = NoMetrics
    PROVE  RequestsTyped' /\ Adding'
<1>1. NoRequest \in [stage : Stages, status : Nat, bucket : Nat] /\ NoRequest.stage = "none"
  BY DEF NoRequest, Stages
<1>2. /\ DOMAIN metrics' = {"inflight", "total", "errors", "observed", "counts"}
      /\ metrics'.inflight = 0 /\ metrics'.total = 0 /\ metrics'.errors = 0
      /\ metrics'.observed = 0 /\ metrics'.counts = [b \in 1..Buckets |-> 0]
  BY DEF NoMetrics
<1>3. RequestsTyped'
  BY <1>1, <1>2 DEF RequestsTyped
<1>4. Holding(Overlapping)' = {} /\ Holding({"observe"})' = {}
  BY <1>1 DEF Holding, Overlapping
<1>5. CountIn(Overlapping)' = 0 /\ CountIn({"observe"})' = 0
  BY <1>4, FS_EmptySet DEF CountIn
<1>6. \A b \in 1..(Buckets + 1) : Rendered'[b] = 0
  BY <1>2 DEF Rendered
<1>7. \A b \in 1..Buckets : b \in 1..(Buckets + 1) /\ b + 1 \in 1..(Buckets + 1)
  BY Constants
<1>8. QED
  BY <1>2, <1>3, <1>5, <1>6, <1>7 DEF Adding

\* An observation goes to its bucket and to all after it.
LEMMA ObservedAdds ==
    ASSUME RequestsTyped, Adding, NEW k \in Nat, metrics' = Observed(metrics, k)
    PROVE  /\ DOMAIN metrics' = DOMAIN metrics
           /\ UNCHANGED <<metrics.inflight, metrics.total, metrics.errors>>
           /\ metrics'.observed = metrics.observed + 1
           /\ metrics'.counts \in [1..Buckets -> Nat]
           /\ \A b \in 1..Buckets : Rendered'[b] <= Rendered'[b + 1]
<1>1. /\ DOMAIN metrics' = DOMAIN metrics
      /\ UNCHANGED <<metrics.inflight, metrics.total, metrics.errors>>
      /\ metrics'.observed = metrics.observed + 1
      /\ metrics'.counts = [i \in 1..Buckets |-> IF k <= i THEN metrics.counts[i] + 1
                                                 ELSE metrics.counts[i]]
  BY DEF Observed, RequestsTyped
<1>2. metrics'.counts \in [1..Buckets -> Nat]
  <2>1. \A i \in 1..Buckets : metrics.counts[i] \in Nat
    BY DEF RequestsTyped
  <2>2. QED
    BY <1>1, <2>1
<1>3. ASSUME NEW b \in 1..Buckets PROVE Rendered'[b] <= Rendered'[b + 1]
  <2>1. /\ b \in Nat /\ b \in 1..(Buckets + 1) /\ b + 1 \in 1..(Buckets + 1)
        /\ Buckets \in Nat /\ metrics.observed \in Nat /\ metrics.counts[b] \in Nat
        /\ Rendered[b] <= Rendered[b + 1]
    BY Constants DEF RequestsTyped, Adding
  <2>2. CASE b + 1 <= Buckets
    <3>1. /\ b + 1 \in 1..Buckets /\ metrics.counts[b + 1] \in Nat
          /\ metrics.counts[b] <= metrics.counts[b + 1]
      BY <2>1, <2>2 DEF Rendered, RequestsTyped
    <3>2. metrics'.counts[b] <= metrics'.counts[b + 1]
      <4>1. /\ metrics'.counts[b] = IF k <= b THEN metrics.counts[b] + 1 ELSE metrics.counts[b]
            /\ metrics'.counts[b + 1] = IF k <= b + 1 THEN metrics.counts[b + 1] + 1
                                        ELSE metrics.counts[b + 1]
        BY <1>1, <2>1, <3>1
      <4>2. k <= b => k <= b + 1
        BY <2>1
      <4>3. QED
        BY <2>1, <3>1, <4>1, <4>2
    <3>3. QED
      BY <2>1, <2>2, <3>2 DEF Rendered
  <2>3. CASE ~(b + 1 <= Buckets)
    <3>1. metrics.counts[b] <= metrics.observed
      BY <2>1, <2>3 DEF Rendered
    <3>2. metrics'.counts[b] <= metrics'.observed
      BY <1>1, <2>1, <3>1
    <3>3. QED
      BY <2>1, <2>3, <3>2 DEF Rendered
  <2>4. QED
    BY <2>2, <2>3
<1>4. QED
  BY <1>1, <1>2, <1>3

LEMMA AddingStep ==
    ASSUME RequestsTyped, Adding, [ProcessNext]_processVars
    PROVE  RequestsTyped' /\ Adding'
<1> DEFINE Record == [stage : Stages, status : Nat, bucket : Nat]
<1>0. /\ requests \in [Slots -> Record]
      /\ \A q \in Record : q.stage \in Stages /\ q.status \in Nat /\ q.bucket \in Nat
      /\ metrics.inflight \in Nat /\ metrics.total \in Nat
      /\ metrics.errors \in Nat /\ metrics.observed \in Nat /\ Buckets \in Nat
  BY Constants DEF RequestsTyped
<1>1. ASSUME NEW r \in Slots, Enter(r) PROVE RequestsTyped' /\ Adding'
  <2>1. /\ requests' = [requests EXCEPT ![r].stage = "route"]
        /\ metrics' = [metrics EXCEPT !.inflight = @ + 1]
        /\ requests[r].stage = "none"
    BY <1>1 DEF Enter
  <2>2. /\ requests' \in [Slots -> Record] /\ requests'[r].stage = "route"
        /\ \A q \in Slots : q # r => requests'[q] = requests[q]
    BY <1>0, <2>1 DEF Stages
  <2>3. /\ DOMAIN metrics' = DOMAIN metrics /\ metrics'.inflight = metrics.inflight + 1
        /\ UNCHANGED <<metrics.total, metrics.errors, metrics.observed, metrics.counts>>
    BY <2>1 DEF RequestsTyped
  <2>4. CountIn(Overlapping)' = CountIn(Overlapping) + 1
        /\ CountIn({"observe"})' = CountIn({"observe"})
    BY <2>1, <2>2, OneMoves DEF Overlapping
  <2>5. QED
    BY <1>0, <2>2, <2>3, <2>4, Reassembled DEF Adding
<1>2. ASSUME NEW r \in Slots, Route(r) PROVE RequestsTyped' /\ Adding'
  <2>1. PICK status \in {Health, Ready, Raised}, b \in 1..(Buckets + 1) :
          requests' = [requests EXCEPT ![r] = [stage |-> "count", status |-> status, bucket |-> b]]
    BY <1>2 DEF Route
  <2>2. status \in Nat /\ b \in Nat
    BY DEF Health, Ready, Raised
  <2>3. [stage |-> "count", status |-> status, bucket |-> b] \in Record
    BY <2>2 DEF Stages
  <2>4. /\ requests' \in [Slots -> Record] /\ requests'[r].stage = "count"
        /\ \A q \in Slots : q # r => requests'[q] = requests[q]
    BY <1>0, <2>1, <2>3
  <2>5. UNCHANGED metrics /\ requests[r].stage = "route"
    BY <1>2 DEF Route
  <2>6. CountIn(Overlapping)' = CountIn(Overlapping)
        /\ CountIn({"observe"})' = CountIn({"observe"})
    BY <2>4, <2>5, OneMoves DEF Overlapping
  <2>7. QED
    BY <1>0, <2>4, <2>5, <2>6, Reassembled DEF Adding
<1>3. ASSUME NEW r \in Slots, Count(r) PROVE RequestsTyped' /\ Adding'
  <2>1. /\ requests' = [requests EXCEPT ![r].stage = "observe"]
        /\ metrics' = [metrics EXCEPT !.total = @ + 1,
                                      !.errors = IF requests[r].status >= 500 THEN @ + 1 ELSE @]
        /\ requests[r].stage = "count"
    BY <1>3 DEF Count
  <2>2. /\ requests' \in [Slots -> Record] /\ requests'[r].stage = "observe"
        /\ \A q \in Slots : q # r => requests'[q] = requests[q]
    BY <1>0, <2>1 DEF Stages
  <2>3. /\ DOMAIN metrics' = DOMAIN metrics /\ metrics'.total = metrics.total + 1
        /\ metrics'.errors \in {metrics.errors, metrics.errors + 1}
        /\ UNCHANGED <<metrics.inflight, metrics.observed, metrics.counts>>
    BY <2>1 DEF RequestsTyped
  <2>4. CountIn(Overlapping)' = CountIn(Overlapping)
        /\ CountIn({"observe"})' = CountIn({"observe"}) + 1 /\ CountIn({"observe"}) \in Nat
    BY <2>1, <2>2, OneMoves DEF Overlapping
  <2>5. QED
    BY <1>0, <2>2, <2>3, <2>4, Reassembled DEF Adding
<1>4. ASSUME NEW r \in Slots, Observe(r) PROVE RequestsTyped' /\ Adding'
  <2>1. /\ requests' = [requests EXCEPT ![r].stage = "leave"]
        /\ metrics' = Observed(metrics, requests[r].bucket)
        /\ requests[r].stage = "observe"
    BY <1>4 DEF Observe
  <2>2. /\ requests' \in [Slots -> Record] /\ requests'[r].stage = "leave"
        /\ \A q \in Slots : q # r => requests'[q] = requests[q]
    BY <1>0, <2>1 DEF Stages
  <2>3. requests[r].bucket \in Nat
    BY <1>0
  <2>4. /\ DOMAIN metrics' = DOMAIN metrics
        /\ UNCHANGED <<metrics.inflight, metrics.total, metrics.errors>>
        /\ metrics'.observed = metrics.observed + 1
        /\ metrics'.counts \in [1..Buckets -> Nat]
        /\ \A b \in 1..Buckets : Rendered'[b] <= Rendered'[b + 1]
    BY <2>1, <2>3, ObservedAdds
  <2>5. CountIn(Overlapping)' = CountIn(Overlapping)
        /\ CountIn({"observe"})' = CountIn({"observe"}) - 1 /\ CountIn({"observe"}) \in Nat
    BY <2>1, <2>2, OneMoves DEF Overlapping
  <2>6. /\ metrics'.inflight = metrics.inflight /\ metrics'.total = metrics.total
        /\ metrics'.errors = metrics.errors
    BY <2>4
  <2>7. metrics'.observed \in Nat
    BY <1>0, <2>4
  <2>8. DOMAIN metrics' = {"inflight", "total", "errors", "observed", "counts"}
    BY <2>4 DEF RequestsTyped
  <2>9. RequestsTyped'
    BY <1>0, <2>2, <2>4, <2>6, <2>7, <2>8 DEF RequestsTyped
  <2>10. /\ metrics'.inflight = CountIn(Overlapping)'
         /\ metrics'.total = metrics'.observed + CountIn({"observe"})'
         /\ metrics'.errors <= metrics'.total
    <3>1. /\ metrics.inflight = CountIn(Overlapping)
          /\ metrics.total = metrics.observed + CountIn({"observe"})
          /\ metrics.errors <= metrics.total
      BY DEF Adding
    <3>2. metrics'.observed = metrics.observed + 1
      BY <2>4
    <3>3. metrics'.total = metrics'.observed + CountIn({"observe"})'
      BY <1>0, <2>5, <2>6, <3>1, <3>2
    <3>4. metrics'.inflight = CountIn(Overlapping)' /\ metrics'.errors <= metrics'.total
      BY <2>5, <2>6, <3>1
    <3>5. QED
      BY <3>3, <3>4
  <2>11. QED
    BY <2>4, <2>9, <2>10 DEF Adding
<1>5. ASSUME NEW r \in Slots, Leave(r) PROVE RequestsTyped' /\ Adding'
  <2>1. /\ requests' = [requests EXCEPT ![r] = NoRequest]
        /\ metrics' = [metrics EXCEPT !.inflight = @ - 1]
        /\ requests[r].stage = "leave"
    BY <1>5 DEF Leave
  <2>2. NoRequest \in Record /\ NoRequest.stage = "none"
    BY DEF NoRequest, Stages
  <2>3. /\ requests' \in [Slots -> Record] /\ requests'[r].stage = "none"
        /\ \A q \in Slots : q # r => requests'[q] = requests[q]
    BY <1>0, <2>1, <2>2
  <2>4. /\ DOMAIN metrics' = DOMAIN metrics /\ metrics'.inflight = metrics.inflight - 1
        /\ UNCHANGED <<metrics.total, metrics.errors, metrics.observed, metrics.counts>>
    BY <2>1 DEF RequestsTyped
  <2>5. CountIn(Overlapping)' = CountIn(Overlapping) - 1
        /\ CountIn({"observe"})' = CountIn({"observe"})
    BY <2>1, <2>3, OneMoves DEF Overlapping
  <2>6. CountIn(Overlapping)' \in Nat
    BY HoldingFinite, <2>3, Constants, FS_Subset, FS_CardinalityType DEF CountIn, Holding
  <2>7. QED
    BY <1>0, <2>3, <2>4, <2>5, <2>6, Reassembled DEF Adding
<1>6. CASE StartOver
  BY <1>6, NothingYet DEF StartOver
<1>7. CASE UNCHANGED <<requests, metrics>>
  BY <1>7 DEF RequestsTyped, Adding, Rendered, CountIn, Holding
<1>8. QED
  BY <1>1, <1>2, <1>3, <1>4, <1>5, <1>6, <1>7
  DEF ProcessNext, StartUp, Connect, GiveUp, StartConsumer,
     Listen, Tick, OnReadyRaises, ConsumerCrashes, Neo4jUp, Neo4jDown, processVars

(***************************************************************************)
(* Whenever a scrape of /metrics comes, it adds up: the gauge is the       *)
(* number of overlapping requests, a request is counted before it is       *)
(* observed, errors are some of the requests, and the histogram's buckets  *)
(* are cumulative; a process is ready exactly when it listens, with its    *)
(* consumer started; and every variable keeps its type.                    *)
(***************************************************************************)
THEOREM ScrapesAlwaysAddUp == ProcessSpec => []ProcessTypeOK
<1>1. ProcessInit => RequestsTyped /\ Adding
  <2> SUFFICES ASSUME ProcessInit PROVE RequestsTyped /\ Adding
    OBVIOUS
  <2>1. requests = [r \in Slots |-> NoRequest] /\ metrics = NoMetrics
    BY DEF ProcessInit
  <2>2. NoRequest \in [stage : Stages, status : Nat, bucket : Nat] /\ NoRequest.stage = "none"
    BY DEF NoRequest, Stages
  <2>3. /\ DOMAIN metrics = {"inflight", "total", "errors", "observed", "counts"}
        /\ metrics.inflight = 0 /\ metrics.total = 0 /\ metrics.errors = 0
        /\ metrics.observed = 0 /\ metrics.counts = [b \in 1..Buckets |-> 0]
    BY <2>1 DEF NoMetrics
  <2>4. Holding(Overlapping) = {} /\ Holding({"observe"}) = {}
    BY <2>1, <2>2 DEF Holding, Overlapping
  <2>5. CountIn(Overlapping) = 0 /\ CountIn({"observe"}) = 0
    BY <2>4, FS_EmptySet DEF CountIn
  <2>6. \A b \in 1..(Buckets + 1) : Rendered[b] = 0
    BY <2>3 DEF Rendered
  <2>7. \A b \in 1..Buckets : b \in 1..(Buckets + 1) /\ b + 1 \in 1..(Buckets + 1)
    BY Constants
  <2>8. QED
    BY <2>1, <2>2, <2>3, <2>5, <2>6, <2>7 DEF Adding, RequestsTyped
<1>2. RequestsTyped /\ Adding /\ [ProcessNext]_processVars => (RequestsTyped /\ Adding)'
  BY AddingStep
<1>3. ProcessTyped /\ RequestsTyped /\ Adding => ProcessTypeOK
  <2> SUFFICES ASSUME ProcessTyped, RequestsTyped, Adding PROVE ProcessTypeOK
    OBVIOUS
  <2>1. ScrapesAddUp
    BY DEF Adding, ScrapesAddUp, CountIn, Holding, Overlapping
  <2>2. QED
    BY <2>1 DEF ProcessTyped, ProcessTypeOK
<1>4. QED
  BY <1>1, <1>2, <1>3, ProcessCorrect, PTL DEF ProcessSpec

-----------------------------------------------------------------------------
\* Sequences: how the rules of extraction put their lists together.

LEMMA Enumerated ==
    ASSUME NEW n \in Nat, NEW f, f = [i \in 1..n |-> f[i]]
    PROVE  Listed(f) /\ Len(f) = n
<1>1. \A i \in 1..n : f[i] \in ToSet(f)
  BY DEF ToSet
<1>2. f \in [1..n -> ToSet(f)]
  BY <1>1
<1>3. QED
  BY <1>2 DEF Listed

LEMMA Joined ==
    ASSUME NEW s, NEW t, Listed(s), Listed(t)
    PROVE  Listed(s \o t) /\ ToSet(s \o t) = ToSet(s) \cup ToSet(t)
<1> DEFINE S == ToSet(s) \cup ToSet(t)
<1>1. s \in Seq(S) /\ t \in Seq(S)
  BY DEF Listed
<1>2. /\ s \o t \in Seq(S) /\ Len(s \o t) = Len(s) + Len(t)
      /\ \A i \in 1..(Len(s) + Len(t)) :
            (s \o t)[i] = IF i <= Len(s) THEN s[i] ELSE t[i - Len(s)]
  BY <1>1
<1>3. ToSet(s \o t) \subseteq S
  BY <1>2 DEF ToSet
<1>4. \A i \in DOMAIN s : s[i] \in ToSet(s \o t)
  BY <1>1, <1>2 DEF ToSet
<1>5. \A i \in DOMAIN t : t[i] \in ToSet(s \o t)
  <2>1. SUFFICES ASSUME NEW i \in DOMAIN t PROVE t[i] \in ToSet(s \o t)
    OBVIOUS
  <2>2. i \in 1..Len(t) /\ Len(s) \in Nat /\ Len(t) \in Nat
    BY <1>1, <2>1
  <2>3. /\ Len(s) + i \in 1..(Len(s) + Len(t))
        /\ (s \o t)[Len(s) + i] = t[i]
    BY <1>2, <2>2
  <2>4. DOMAIN (s \o t) = 1..(Len(s) + Len(t))
    BY <1>2
  <2>5. QED
    BY <2>3, <2>4 DEF ToSet
<1>6. ToSet(s \o t) = S
  BY <1>3, <1>4, <1>5 DEF ToSet
<1>7. QED
  BY <1>2, <1>6 DEF Listed

LEMMA Single == ASSUME NEW x PROVE Listed(<<x>>) /\ ToSet(<<x>>) = {x}
BY DEF Listed, ToSet
LEMMA Nothing == Listed(<<>>) /\ ToSet(<<>>) = {}
BY DEF Listed, ToSet

\* Links whose edges lead from and to the node of the event or another linked node, and
\* that say nothing of a node but of a deployment.
Sound(raw, links) ==
    /\ Listed(links)
    /\ \A l \in ToSet(links) :
          /\ DOMAIN l.node.props # {} => l.node.key[1] = "deploy"
          /\ {l.edge[2], l.edge[3]} \subseteq {raw.id} \cup {m.node.key : m \in ToSet(links)}

LEMMA SoundJoined ==
    ASSUME NEW raw, NEW s, NEW t, Sound(raw, s), Sound(raw, t)
    PROVE  Sound(raw, s \o t)
<1>1. Listed(s \o t) /\ ToSet(s \o t) = ToSet(s) \cup ToSet(t)
  BY Joined DEF Sound
<1>2. QED
  BY <1>1 DEF Sound

LEMMA SoundNothing == ASSUME NEW raw PROVE Sound(raw, <<>>)
BY Nothing DEF Sound

\* A link that is written on one node and for one text or attribute.
LEMMA SoundAlone ==
    ASSUME NEW raw, NEW l, DOMAIN l.node.props # {} => l.node.key[1] = "deploy",
           {l.edge[2], l.edge[3]} \subseteq {raw.id, l.node.key}
    PROVE  Sound(raw, <<l>>)
BY Single DEF Sound

LEMMA SoundEach ==
    ASSUME NEW raw, NEW n \in Nat, NEW f, f = [i \in 1..n |-> f[i]],
           \A i \in 1..n : /\ DOMAIN f[i].node.props # {} => f[i].node.key[1] = "deploy"
                           /\ f[i].edge[2] \in {raw.id, f[i].node.key}
                           /\ f[i].edge[3] \in {raw.id, f[i].node.key}
    PROVE  Sound(raw, f)
<1>1. Listed(f)
  BY Enumerated
<1>2. ToSet(f) = {f[i] : i \in 1..n}
  BY DEF ToSet
<1>3. SUFFICES ASSUME NEW l \in ToSet(f)
               PROVE  /\ DOMAIN l.node.props # {} => l.node.key[1] = "deploy"
                      /\ {l.edge[2], l.edge[3]}
                            \subseteq {raw.id} \cup {m.node.key : m \in ToSet(f)}
  BY <1>1 DEF Sound
<1>4. PICK i \in 1..n : l = f[i]
  BY <1>2
<1>5. /\ DOMAIN l.node.props # {} => l.node.key[1] = "deploy"
      /\ {l.edge[2], l.edge[3]} \subseteq {raw.id, l.node.key}
  BY <1>4
<1>6. QED
  BY <1>5

LEMMA NoProps == DOMAIN <<>> = {}
OBVIOUS

LEMMA ListedDomain == ASSUME NEW s, Listed(s) PROVE Len(s) \in Nat /\ DOMAIN s = 1..Len(s)
BY DEF Listed

-----------------------------------------------------------------------------
Shaped(batch) ==
    /\ Listed(batch.nodes)
    /\ \A e \in ToSet(batch.edges) : {e[2], e[3]} \subseteq Keys(batch)
    /\ \A i \in DOMAIN batch.nodes :
          DOMAIN batch.nodes[i].props # {} => Owns(batch, batch.nodes[i].key)

LEMMA BatchShaped ==
    ASSUME NEW raw, NEW props, NEW links, Sound(raw, links)
    PROVE  Shaped(Batch(raw, <<Node(raw.id, props)>>, links))
<1> DEFINE root == Node(raw.id, props)
           tail == [i \in DOMAIN links |-> links[i].node]
           batch == Batch(raw, <<root>>, links)
<1>1. Len(links) \in Nat /\ DOMAIN links = 1..Len(links)
  BY ListedDomain DEF Sound
<1>2. Listed(tail)
  BY <1>1, Enumerated
<1>3. Listed(<<root>>) /\ ToSet(<<root>>) = {root}
  BY Single
<1>4. Listed(<<root>> \o tail) /\ ToSet(<<root>> \o tail) = {root} \cup ToSet(tail)
  <2> HIDE DEF root, tail
  <2>1. QED
    BY <1>2, <1>3, Joined
<1>5. /\ batch.nodes = <<root>> \o tail /\ batch.source_event_id = raw.id
      /\ batch.edges = [i \in DOMAIN links |-> links[i].edge]
  BY DEF Batch
<1>6. ToSet(tail) = {l.node : l \in ToSet(links)}
  BY DEF ToSet
<1>7. Keys(batch) = {n.key : n \in ToSet(batch.nodes)}
  BY DEF Keys, ToSet
<1>8. Keys(batch) = {raw.id} \cup {l.node.key : l \in ToSet(links)}
  <2>1. root.key = raw.id
    BY DEF Node
  <2> HIDE DEF root, tail, batch
  <2>2. QED
    BY <1>4, <1>5, <1>6, <1>7, <2>1
<1>9. ToSet(batch.edges) = {l.edge : l \in ToSet(links)}
  BY <1>5 DEF ToSet
<1>10. \A e \in ToSet(batch.edges) : {e[2], e[3]} \subseteq Keys(batch)
  <2> HIDE DEF root, tail, batch
  <2>1. QED
    BY <1>8, <1>9 DEF Sound
<1>11. \A n \in ToSet(batch.nodes) : DOMAIN n.props # {} => Owns(batch, n.key)
  <2>1. root.key = raw.id
    BY DEF Node
  <2> HIDE DEF root, tail, batch
  <2>2. QED
    BY <1>4, <1>5, <1>6, <2>1 DEF Owns, Sound
<1>12. \A i \in DOMAIN batch.nodes : batch.nodes[i] \in ToSet(batch.nodes)
  BY DEF ToSet
<1>13. QED
  BY <1>4, <1>5, <1>10, <1>11, <1>12 DEF Shaped
-----------------------------------------------------------------------------
LEMMA LinkFields ==
    ASSUME NEW node, NEW type, NEW from, NEW to
    PROVE  LET l == Link(node, type, from, to)
           IN l.node = node /\ l.edge[2] = from /\ l.edge[3] = to
BY DEF Link

LEMMA PickedLength ==
    ASSUME NEW s, Listed(s), NEW places \in SUBSET (DOMAIN s)
    PROVE  /\ IsFiniteSet(places) /\ Cardinality(places) \in Nat
           /\ Picked(s, places) = [i \in 1..Cardinality(places) |-> Picked(s, places)[i]]
           /\ DOMAIN Picked(s, places) = 1..Cardinality(places)
<1>1. IsFiniteSet(DOMAIN s)
  BY ListedDomain, FS_Interval
<1>2. IsFiniteSet(places)
  BY <1>1, FS_Subset
<1>3. QED
  BY <1>2, FS_CardinalityType DEF Picked

LEMMA TextRefsSound ==
    ASSUME NEW raw, Readable(raw), NEW type
    PROVE  Sound(raw, TextRefs(raw, type))
<1> DEFINE places == {i \in DOMAIN raw.text : raw.text[i][1] = "INC"}
           incidents == Picked(raw.text, places)
           tickets == [i \in DOMAIN raw.text |->
                         Link(Node(Ticket(raw.text[i]), <<>>), type, raw.id, Ticket(raw.text[i]))]
           reports == [i \in DOMAIN incidents |->
                         Link(Node(Incident(incidents[i]), <<>>), type, raw.id,
                              Incident(incidents[i]))]
<1>1. Len(raw.text) \in Nat /\ DOMAIN raw.text = 1..Len(raw.text)
  BY ListedDomain DEF Readable
<1>2. Sound(raw, tickets)
  <2>1. \A i \in 1..Len(raw.text) :
          /\ tickets[i].node.props = <<>>
          /\ tickets[i].node.key = Ticket(raw.text[i])
          /\ tickets[i].edge[2] = raw.id /\ tickets[i].edge[3] = Ticket(raw.text[i])
    BY <1>1, LinkFields DEF Node
  <2>2. tickets = [i \in 1..Len(raw.text) |-> tickets[i]]
    BY <1>1
  <2>3. \A i \in 1..Len(raw.text) :
          /\ DOMAIN tickets[i].node.props # {} => tickets[i].node.key[1] = "deploy"
          /\ tickets[i].edge[2] \in {raw.id, tickets[i].node.key}
          /\ tickets[i].edge[3] \in {raw.id, tickets[i].node.key}
    BY <2>1, NoProps
  <2>4. Len(raw.text) \in Nat
    BY <1>1
  <2> HIDE DEF tickets
  <2>5. QED
    BY ONLY <2>2, <2>3, <2>4, SoundEach
<1>3. Cardinality(places) \in Nat /\ DOMAIN incidents = 1..Cardinality(places)
  <2>1. places \in SUBSET (DOMAIN raw.text)
    OBVIOUS
  <2>2. QED
    BY <2>1, PickedLength DEF Readable
<1>4. Sound(raw, reports)
  <2> DEFINE n == Cardinality(places)
  <2> HIDE DEF incidents
  <2>1. \A i \in 1..n :
          /\ reports[i].node.props = <<>>
          /\ reports[i].node.key = Incident(incidents[i])
          /\ reports[i].edge[2] = raw.id /\ reports[i].edge[3] = Incident(incidents[i])
    BY <1>3, LinkFields DEF Node
  <2>2. reports = [i \in 1..n |-> reports[i]]
    BY <1>3
  <2>3. n \in Nat
    BY <1>3
  <2>4. \A i \in 1..n :
          /\ DOMAIN reports[i].node.props # {} => reports[i].node.key[1] = "deploy"
          /\ reports[i].edge[2] \in {raw.id, reports[i].node.key}
          /\ reports[i].edge[3] \in {raw.id, reports[i].node.key}
    BY <2>1, NoProps
  <2> HIDE DEF reports, n
  <2>5. QED
    BY ONLY <2>2, <2>3, <2>4, SoundEach
<1>5. TextRefs(raw, type) = tickets \o reports
  BY DEF TextRefs
<1> HIDE DEF tickets, reports
<1>6. QED
  BY <1>2, <1>4, <1>5, SoundJoined

LEMMA PullShaped ==
    ASSUME NEW raw, Readable(raw)
    PROVE  Shaped(ExtractedPull(raw))
<1> DEFINE person == <<"person", raw.actor>>
           repo == <<"repo", Get(raw, "repo")>>
           touched == GetAll(raw, "touches_services")
           author == When(raw.actor # Null,
                          <<Link(Node(person, <<>>), "AUTHORED", person, raw.id)>>)
           home == When(Get(raw, "repo") # Null,
                        <<Link(Node(repo, <<>>), "REFERENCES", raw.id, repo)>>)
           touches == [i \in DOMAIN touched |->
                         Link(Node(<<"service", touched[i]>>, <<>>),
                              "TOUCHES", raw.id, <<"service", touched[i]>>)]
           mentions == TextRefs(raw, "REFERENCES")
<1>1. Sound(raw, author)
  <2> DEFINE l == Link(Node(person, <<>>), "AUTHORED", person, raw.id)
  <2>1. l.node.props = <<>> /\ l.node.key = person /\ l.edge[2] = person /\ l.edge[3] = raw.id
    BY LinkFields DEF Node
  <2>2. Sound(raw, <<l>>)
    <3> HIDE DEF l
    <3>1. QED
      BY <2>1, NoProps, SoundAlone
  <2>3. QED
    BY <2>2, SoundNothing DEF When
<1>2. Sound(raw, home)
  <2> DEFINE l == Link(Node(repo, <<>>), "REFERENCES", raw.id, repo)
  <2>1. l.node.props = <<>> /\ l.node.key = repo /\ l.edge[2] = raw.id /\ l.edge[3] = repo
    BY LinkFields DEF Node
  <2>2. Sound(raw, <<l>>)
    <3> HIDE DEF l
    <3>1. QED
      BY <2>1, NoProps, SoundAlone
  <2>3. QED
    BY <2>2, SoundNothing DEF When
<1>3. Sound(raw, touches)
  <2>1. touched = GetAll(raw, "touches_services")
    OBVIOUS
  <2>2. Len(touched) \in Nat /\ DOMAIN touched = 1..Len(touched)
    BY <2>1, ListedDomain DEF Readable
  <2> DEFINE n == Len(touched)
  <2> HIDE DEF touched
  <2>3. n \in Nat /\ touches = [i \in 1..n |-> touches[i]]
    BY <2>2
  <2>4. \A i \in 1..n :
          /\ touches[i].node.key = <<"service", touched[i]>> /\ touches[i].node.props = <<>>
          /\ touches[i].edge[2] = raw.id /\ touches[i].edge[3] = <<"service", touched[i]>>
    BY <2>2, LinkFields DEF Node
  <2>5. \A i \in 1..n :
          /\ DOMAIN touches[i].node.props # {} => touches[i].node.key[1] = "deploy"
          /\ touches[i].edge[2] \in {raw.id, touches[i].node.key}
          /\ touches[i].edge[3] \in {raw.id, touches[i].node.key}
    <3> HIDE DEF touches
    <3>1. QED
      BY <2>4, NoProps
  <2> HIDE DEF touches, n
  <2>6. QED
    BY ONLY <2>3, <2>5, SoundEach
<1>4. Sound(raw, mentions)
  BY TextRefsSound
<1>5. ExtractedPull(raw) =
        Batch(raw, <<Node(raw.id, [state |-> "merged"])>>,
              author \o home \o touches \o mentions)
  BY DEF ExtractedPull
<1> HIDE DEF author, home, touches, mentions
<1>6. Sound(raw, author \o home \o touches \o mentions)
  BY <1>1, <1>2, <1>3, <1>4, SoundJoined
<1>7. QED
  BY <1>5, <1>6, BatchShaped

LEMMA TicketShaped ==
    ASSUME NEW raw, Readable(raw)
    PROVE  Shaped(ExtractedTicket(raw))
<1> DEFINE deploys == GetAll(raw, "blocks")
           incidents == GetAll(raw, "blocked_by_incidents")
           schedule == [scheduled_at |-> Get(raw, "deploy_scheduled_at")]
           blocks == [i \in DOMAIN deploys |-> Link(Node(<<"deploy", deploys[i]>>, schedule),
                                                    "BLOCKS", raw.id, <<"deploy", deploys[i]>>)]
           blocked == [i \in DOMAIN incidents |-> Link(Node(Incident(incidents[i]), <<>>),
                                                       "BLOCKS", Incident(incidents[i]), raw.id)]
<1>1. Sound(raw, blocks)
  <2>1. deploys = GetAll(raw, "blocks")
    OBVIOUS
  <2>2. Len(deploys) \in Nat /\ DOMAIN deploys = 1..Len(deploys)
    BY <2>1, ListedDomain DEF Readable
  <2> DEFINE n == Len(deploys)
  <2> HIDE DEF deploys
  <2>3. n \in Nat /\ blocks = [i \in 1..n |-> blocks[i]]
    BY <2>2
  <2>4. \A i \in 1..n :
          /\ blocks[i].node.key = <<"deploy", deploys[i]>> /\ blocks[i].node.props = schedule
          /\ blocks[i].edge[2] = raw.id /\ blocks[i].edge[3] = <<"deploy", deploys[i]>>
    BY <2>2, LinkFields DEF Node
  <2>5. \A i \in 1..n :
          /\ DOMAIN blocks[i].node.props # {} => blocks[i].node.key[1] = "deploy"
          /\ blocks[i].edge[2] \in {raw.id, blocks[i].node.key}
          /\ blocks[i].edge[3] \in {raw.id, blocks[i].node.key}
    <3> HIDE DEF blocks
    <3>1. QED
      BY <2>4, NoProps
  <2> HIDE DEF blocks, n
  <2>6. QED
    BY ONLY <2>3, <2>5, SoundEach
<1>2. Sound(raw, blocked)
  <2>1. incidents = GetAll(raw, "blocked_by_incidents")
    OBVIOUS
  <2>2. Len(incidents) \in Nat /\ DOMAIN incidents = 1..Len(incidents)
    BY <2>1, ListedDomain DEF Readable
  <2> DEFINE n == Len(incidents)
  <2> HIDE DEF incidents
  <2>3. n \in Nat /\ blocked = [i \in 1..n |-> blocked[i]]
    BY <2>2
  <2>4. \A i \in 1..n :
          /\ blocked[i].node.key = Incident(incidents[i]) /\ blocked[i].node.props = <<>>
          /\ blocked[i].edge[2] = Incident(incidents[i]) /\ blocked[i].edge[3] = raw.id
    BY <2>2, LinkFields DEF Node
  <2>5. \A i \in 1..n :
          /\ DOMAIN blocked[i].node.props # {} => blocked[i].node.key[1] = "deploy"
          /\ blocked[i].edge[2] \in {raw.id, blocked[i].node.key}
          /\ blocked[i].edge[3] \in {raw.id, blocked[i].node.key}
    <3> HIDE DEF blocked
    <3>1. QED
      BY <2>4, NoProps
  <2> HIDE DEF blocked, n
  <2>6. QED
    BY ONLY <2>3, <2>5, SoundEach
<1>3. ExtractedTicket(raw) =
        Batch(raw, <<Node(raw.id, [status |-> Get(raw, "status")])>>, blocks \o blocked)
  BY DEF ExtractedTicket
<1> HIDE DEF blocks, blocked
<1>4. Sound(raw, blocks \o blocked)
  BY <1>1, <1>2, SoundJoined
<1>5. QED
  BY <1>3, <1>4, BatchShaped

LEMMA MeetingShaped ==
    ASSUME NEW raw, Readable(raw)
    PROVE  Shaped(ExtractedMeeting(raw))
<1> DEFINE projects == GetAll(raw, "references_projects")
           topics == [i \in DOMAIN projects |->
                        Link(Node(<<"project", projects[i]>>, <<>>),
                             "DISCUSSES", raw.id, <<"project", projects[i]>>)]
<1>1. Sound(raw, topics)
  <2>1. projects = GetAll(raw, "references_projects")
    OBVIOUS
  <2>2. Len(projects) \in Nat /\ DOMAIN projects = 1..Len(projects)
    BY <2>1, ListedDomain DEF Readable
  <2> DEFINE n == Len(projects)
  <2> HIDE DEF projects
  <2>3. n \in Nat /\ topics = [i \in 1..n |-> topics[i]]
    BY <2>2
  <2>4. \A i \in 1..n :
          /\ topics[i].node.key = <<"project", projects[i]>> /\ topics[i].node.props = <<>>
          /\ topics[i].edge[2] = raw.id /\ topics[i].edge[3] = <<"project", projects[i]>>
    BY <2>2, LinkFields DEF Node
  <2>5. \A i \in 1..n :
          /\ DOMAIN topics[i].node.props # {} => topics[i].node.key[1] = "deploy"
          /\ topics[i].edge[2] \in {raw.id, topics[i].node.key}
          /\ topics[i].edge[3] \in {raw.id, topics[i].node.key}
    <3> HIDE DEF topics
    <3>1. QED
      BY <2>4, NoProps
  <2> HIDE DEF topics, n
  <2>6. QED
    BY ONLY <2>3, <2>5, SoundEach
<1>2. ExtractedMeeting(raw) = Batch(raw, <<Node(raw.id, <<>>)>>, topics)
  BY DEF ExtractedMeeting
<1> HIDE DEF topics
<1>3. QED
  BY <1>1, <1>2, BatchShaped

\* The one rule with an edge between two nodes that it names: the assignee's to the service.
LEMMA IncidentShaped ==
    ASSUME NEW raw
    PROVE  Shaped(ExtractedIncident(raw))
<1> DEFINE affected == <<"service", Get(raw, "service")>>
           person == <<"person", Get(raw, "assignee")>>
           affects == Link(Node(affected, <<>>), "AFFECTS", raw.id, affected)
           owns == Link(Node(person, <<>>), "OWNS", person, affected)
           links == When(Get(raw, "service") # Null,
                         <<affects>> \o When(Get(raw, "assignee") # Null, <<owns>>))
<1>1. /\ affects.node.props = <<>> /\ affects.node.key = affected
      /\ affects.edge[2] = raw.id /\ affects.edge[3] = affected
      /\ owns.node.props = <<>> /\ owns.node.key = person
      /\ owns.edge[2] = person /\ owns.edge[3] = affected
  BY LinkFields DEF Node
<1>2. links \in {<<>>, <<affects>> \o <<>>, <<affects>> \o <<owns>>}
  BY DEF When
<1>3. ExtractedIncident(raw) =
        Batch(raw, <<Node(raw.id, [status |-> Get(raw, "status")])>>, links)
  BY DEF ExtractedIncident
<1> HIDE DEF affects, owns, links, affected, person
<1>4. Sound(raw, <<affects>> \o <<>>)
  BY <1>1, NoProps, SoundAlone, SoundNothing, SoundJoined
<1>5. Sound(raw, <<affects>> \o <<owns>>)
  <2>1. /\ Listed(<<affects>> \o <<owns>>)
        /\ ToSet(<<affects>> \o <<owns>>) = {affects} \cup {owns}
    BY Single, Joined
  <2>2. QED
    BY <1>1, <2>1, NoProps DEF Sound
<1>6. Sound(raw, links)
  BY <1>2, <1>4, <1>5, SoundNothing
<1>7. QED
  BY <1>3, <1>6, BatchShaped

\* Every rule's edges have both ends in the batch, and a batch says how the node of its event
\* stands and when a deployment is due, nothing else.
LEMMA ExtractedShaped ==
    ASSUME NEW raw, Readable(raw)
    PROVE  Shaped(Extracted(raw))
<1> DEFINE what == <<raw.source, raw.kind>>
<1>1. Shaped(Batch(raw, <<>>, <<>>))
  <2>1. Batch(raw, <<>>, <<>>).nodes = <<>> /\ Batch(raw, <<>>, <<>>).edges = <<>>
    BY DEF Batch
  <2>2. QED
    BY <2>1, Nothing DEF Shaped
<1>2. Shaped(Batch(raw, <<Node(raw.id, <<>>)>>, TextRefs(raw, "DISCUSSES")))
  BY TextRefsSound, BatchShaped
<1>3. Shaped(Batch(raw, <<Node(raw.id, <<>>)>>, <<>>))
  BY SoundNothing, BatchShaped
<1>4. \/ Extracted(raw) = ExtractedPull(raw)
      \/ Extracted(raw) = ExtractedTicket(raw)
      \/ Extracted(raw) = ExtractedIncident(raw)
      \/ Extracted(raw) = Batch(raw, <<Node(raw.id, <<>>)>>, TextRefs(raw, "DISCUSSES"))
      \/ Extracted(raw) = ExtractedMeeting(raw)
      \/ Extracted(raw) = Batch(raw, <<Node(raw.id, <<>>)>>, <<>>)
      \/ Extracted(raw) = Batch(raw, <<>>, <<>>)
  BY DEF Extracted
<1>5. QED
  BY <1>1, <1>2, <1>3, <1>4, PullShaped, TicketShaped, IncidentShaped, MeetingShaped
-----------------------------------------------------------------------------
\* How many of S are not above k.
Rank(S, k) == Cardinality({j \in S : j <= k})

LEMMA Ranking ==
    ASSUME NEW S \in SUBSET Nat, IsFiniteSet(S)
    PROVE  /\ \A k \in S : Rank(S, k) \in 1..Cardinality(S)
           /\ \A k, l \in S : k < l => Rank(S, k) < Rank(S, l)
           /\ \A i \in 1..Cardinality(S) : \E k \in S : Rank(S, k) = i
<1> DEFINE upTo(k) == {j \in S : j <= k}
           rank == [k \in S |-> Rank(S, k)]
<1>1. \A k : IsFiniteSet(upTo(k)) /\ Rank(S, k) \in Nat /\ Rank(S, k) <= Cardinality(S)
  BY FS_Subset, FS_CardinalityType DEF Rank
<1>2. \A k \in S : Rank(S, k) # 0
  <2>1. SUFFICES ASSUME NEW k \in S, Cardinality(upTo(k)) = 0 PROVE FALSE
    BY DEF Rank
  <2>2. upTo(k) = {}
    BY <1>1, <2>1, FS_EmptySet
  <2>3. k \in upTo(k)
    OBVIOUS
  <2>4. QED
    BY <2>2, <2>3
<1>3. \A k \in S : Rank(S, k) \in 1..Cardinality(S)
  <2>1. Cardinality(S) \in Nat
    BY FS_CardinalityType
  <2> HIDE DEF upTo
  <2>2. QED
    BY <1>1, <1>2, <2>1
<1>4. ASSUME NEW k \in S, NEW l \in S, k < l PROVE Rank(S, k) < Rank(S, l)
  <2>1. upTo(k) \in SUBSET upTo(l)
    <3>1. \A j \in Nat : j <= k => j <= l
      BY <1>4
    <3>2. QED
      BY <3>1
  <2>2. l \in upTo(l) /\ l \notin upTo(k)
    BY <1>4
  <2>3. /\ Cardinality(upTo(k)) <= Cardinality(upTo(l))
        /\ Cardinality(upTo(k)) # Cardinality(upTo(l))
    <3> HIDE DEF upTo
    <3>1. QED
      BY <1>1, <2>1, <2>2, FS_Subset
  <2>4. Rank(S, k) = Cardinality(upTo(k)) /\ Rank(S, l) = Cardinality(upTo(l))
    BY DEF Rank
  <2> HIDE DEF upTo
  <2>5. QED
    BY <1>1, <2>3, <2>4
<1>5. rank \in Injection(S, 1..Cardinality(S))
  <2>1. rank \in [S -> 1..Cardinality(S)]
    BY <1>3
  <2>2. ASSUME NEW k \in S, NEW l \in S, rank[k] = rank[l] PROVE k = l
    <3>1. k < l \/ l < k \/ k = l
      OBVIOUS
    <3>2. Rank(S, k) = Rank(S, l) /\ Rank(S, k) \in Nat
      BY <1>1, <2>2
    <3>3. QED
      BY <1>4, <3>1, <3>2
  <2> HIDE DEF rank
  <2>3. QED
    BY <2>1, <2>2 DEF Injection, IsInjective
<1>6. rank \in Surjection(S, 1..Cardinality(S))
  <2>1. /\ IsFiniteSet(1..Cardinality(S))
        /\ Cardinality(1..Cardinality(S)) = Cardinality(S)
    BY FS_CardinalityType, FS_Interval
  <2> HIDE DEF rank
  <2>2. QED
    BY <1>5, <2>1, FS_Injection
<1>7. \A i \in 1..Cardinality(S) : \E k \in S : Rank(S, k) = i
  BY <1>6 DEF Surjection
<1>8. QED
  BY <1>3, <1>4, <1>7

\* The i-th of the places.
Place(places, i) == CHOOSE k \in places : Rank(places, k) = i

LEMMA PickedElements ==
    ASSUME NEW s, Listed(s), NEW places \in SUBSET (DOMAIN s)
    PROVE  /\ Listed(Picked(s, places)) /\ Len(Picked(s, places)) = Cardinality(places)
           /\ \A i \in 1..Cardinality(places) :
                 /\ Place(places, i) \in places /\ Rank(places, Place(places, i)) = i
                 /\ Picked(s, places)[i] = s[Place(places, i)]
<1>1. /\ IsFiniteSet(places) /\ Cardinality(places) \in Nat
      /\ Picked(s, places) = [i \in 1..Cardinality(places) |-> Picked(s, places)[i]]
  BY PickedLength
<1>2. places \in SUBSET Nat
  BY ListedDomain
<1>3. ASSUME NEW i \in 1..Cardinality(places)
      PROVE  /\ Place(places, i) \in places /\ Rank(places, Place(places, i)) = i
             /\ Picked(s, places)[i] = s[Place(places, i)]
  <2>1. \E k \in places : Rank(places, k) = i
    BY <1>1, <1>2, Ranking
  <2>2. Place(places, i) \in places /\ Rank(places, Place(places, i)) = i
    BY <2>1 DEF Place
  <2>3. Picked(s, places)[i] = s[Place(places, i)]
    BY DEF Picked, Place, Rank
  <2>4. QED
    BY <2>2, <2>3
<1>4. Listed(Picked(s, places)) /\ Len(Picked(s, places)) = Cardinality(places)
  BY <1>1, Enumerated
<1>5. QED
  BY <1>3, <1>4

LEMMA Least ==
    ASSUME NEW S \in SUBSET Nat, IsFiniteSet(S), S # {}
    PROVE  \E k \in S : \A j \in S : k <= j
<1>1. Cardinality(S) \in Nat /\ Cardinality(S) # 0
  BY FS_CardinalityType, FS_EmptySet
<1>2. PICK k \in S : Rank(S, k) = 1
  BY <1>1, Ranking
<1>3. ASSUME NEW j \in S, j < k PROVE FALSE
  <2>1. Rank(S, j) < Rank(S, k) /\ Rank(S, j) \in 1..Cardinality(S)
    BY <1>3, Ranking
  <2>2. QED
    BY <1>1, <1>2, <2>1
<1>4. QED
  BY <1>3

\* A new connector (base.py) replays a list of events: each id of the list comes once, as its
\* first event, and the order of the list is kept.
THEOREM ReplayedOnce ==
    ASSUME NEW events, Listed(events)
    PROVE  /\ Listed(Replayed(events))
           /\ \A i \in DOMAIN Replayed(events) : \E k \in DOMAIN events :
                 /\ Replayed(events)[i] = events[k]
                 /\ \A j \in 1..(k - 1) : events[j].id # events[k].id
           /\ \A i, j \in DOMAIN Replayed(events) :
                 i # j => Replayed(events)[i].id # Replayed(events)[j].id
           /\ \A k \in DOMAIN events : \E i \in DOMAIN Replayed(events) :
                 Replayed(events)[i].id = events[k].id
           /\ \A i, j \in DOMAIN Replayed(events) : i < j =>
                 \E k, l \in DOMAIN events :
                    k < l /\ Replayed(events)[i] = events[k] /\ Replayed(events)[j] = events[l]
<1> DEFINE first == {i \in DOMAIN events : \A j \in 1..(i - 1) : events[j].id # events[i].id}
           n == Cardinality(first)
           at(i) == Place(first, i)
<1>1. Replayed(events) = Picked(events, first) /\ first \in SUBSET (DOMAIN events)
  BY DEF Replayed
<1>2. /\ Listed(Replayed(events)) /\ Len(Replayed(events)) = n
      /\ \A i \in 1..n : /\ at(i) \in first /\ Rank(first, at(i)) = i
                         /\ Replayed(events)[i] = events[at(i)]
  <2> HIDE DEF first
  <2>1. QED
    BY <1>1, PickedElements
<1>3. DOMAIN Replayed(events) = 1..n /\ n \in Nat
  BY <1>2, ListedDomain
<1>4. DOMAIN events = 1..Len(events) /\ Len(events) \in Nat
  BY ListedDomain
<1>5. first \in SUBSET Nat /\ IsFiniteSet(first)
  <2>1. IsFiniteSet(DOMAIN events) /\ DOMAIN events \in SUBSET Nat
    BY <1>4, FS_Interval
  <2> HIDE DEF first
  <2>2. QED
    BY <1>1, <2>1, FS_Subset
<1>6. \A k, l \in first : k # l => events[k].id # events[l].id
  <2>1. SUFFICES ASSUME NEW k \in first, NEW l \in first, k < l PROVE events[k].id # events[l].id
    BY <1>5
  <2>2. k \in 1..(l - 1)
    BY <1>4, <2>1
  <2>3. QED
    BY <2>1, <2>2
<1>7. \A k \in DOMAIN events : \E l \in first : events[l].id = events[k].id
  <2>1. SUFFICES ASSUME NEW k \in DOMAIN events PROVE \E l \in first : events[l].id = events[k].id
    OBVIOUS
  <2> DEFINE same == {j \in DOMAIN events : events[j].id = events[k].id}
  <2>2. same \in SUBSET Nat /\ IsFiniteSet(same) /\ k \in same
    <3>1. IsFiniteSet(DOMAIN events) /\ same \in SUBSET (DOMAIN events)
      BY <1>4, FS_Interval
    <3>2. QED
      BY <1>4, <2>1, <3>1, FS_Subset
  <2>3. PICK l \in same : \A j \in same : l <= j
    <3> HIDE DEF same
    <3>1. QED
      BY <2>2, Least
  <2>4. \A j \in 1..(l - 1) : j \in DOMAIN events /\ j < l
    BY <1>4
  <2>5. l \in first
    BY <1>4, <2>3, <2>4
  <2>6. QED
    BY <2>3, <2>5
<1>8. \A k \in first : \E i \in 1..n : at(i) = k
  <2> HIDE DEF first, at
  <2>1. SUFFICES ASSUME NEW k \in first PROVE at(Rank(first, k)) = k /\ Rank(first, k) \in 1..n
    OBVIOUS
  <2>2. Rank(first, k) \in 1..n
    BY <1>5, Ranking
  <2>3. PICK l \in first : l = at(Rank(first, k)) /\ Rank(first, l) = Rank(first, k)
    BY <1>2, <2>2
  <2>4. l \in Nat /\ k \in Nat /\ Rank(first, k) \in Nat
    BY <1>5, <2>2
  <2>5. /\ k < l => Rank(first, k) < Rank(first, l)
        /\ l < k => Rank(first, l) < Rank(first, k)
    BY <1>5, Ranking
  <2>6. k = l
    BY <2>3, <2>4, <2>5
  <2>7. QED
    BY <2>2, <2>3, <2>6
<1>9. \A i, j \in 1..n : i < j => at(i) < at(j)
  <2>1. SUFFICES ASSUME NEW i \in 1..n, NEW j \in 1..n, i < j PROVE at(i) < at(j)
    OBVIOUS
  <2> HIDE DEF first
  <2>2. /\ at(i) \in first /\ at(j) \in first
        /\ Rank(first, at(i)) = i /\ Rank(first, at(j)) = j
    BY <1>2
  <2>3. at(i) \in Nat /\ at(j) \in Nat
    BY <1>5, <2>2
  <2>4. at(j) < at(i) => Rank(first, at(j)) < Rank(first, at(i))
    BY <1>5, <2>2, Ranking
  <2> HIDE DEF at
  <2>5. i # j /\ ~(j < i) /\ at(i) # at(j)
    BY <2>1, <2>2
  <2>6. QED
    BY <2>2, <2>3, <2>4, <2>5
<1>10. first \subseteq DOMAIN events
  OBVIOUS
<1>11. \A k \in first : \A j \in 1..(k - 1) : events[j].id # events[k].id
  OBVIOUS
<1> HIDE DEF first, n, at
<1>12. \A i, j \in 1..n : i # j => at(i) # at(j)
  BY <1>2
<1>13. QED
  BY <1>2, <1>3, <1>6, <1>7, <1>8, <1>9, <1>10, <1>11, <1>12
-----------------------------------------------------------------------------
\* What its topic's handler can read.
Expected(m) ==
    /\ m = Message(m.topic, m.event)
    /\ \/ m.topic = "raw.events" /\ Readable(m.event)
       \/ m.topic = "entities.extracted" /\ Shaped(m.event)

QueueTyped == Listed(queue) /\ \A m \in ToSet(queue) : Expected(m)

\* A delivery, and of a batch the nodes that this attempt has written.
JobTyped ==
    \/ job = NoJob
    \/ /\ DOMAIN job = {"topic", "event", "next", "attempt"}
       /\ Expected(Message(job.topic, job.event))
       /\ job.next \in Nat \ {0} /\ job.attempt \in 1..MaxRetries
       /\ job.topic = "entities.extracted" =>
             \A i \in DOMAIN job.event.nodes :
                i < job.next => job.event.nodes[i].key \in DOMAIN nodes

GraphTyped ==
    /\ \A e \in edges : {e[2], e[3]} \subseteq DOMAIN nodes
    /\ announced \subseteq DOMAIN nodes

BusTyped == QueueTyped /\ JobTyped /\ GraphTyped

LEMMA Bounds == MaxRetries \in Nat \ {0}
BY ExtractionAssumption

LEMMA MessageFields ==
    ASSUME NEW topic, NEW event
    PROVE  Message(topic, event).topic = topic /\ Message(topic, event).event = event
BY DEF Message

LEMMA NoJobFields ==
    /\ NoJob.topic = "none" /\ NoJob.event = Null /\ NoJob.next = 1 /\ NoJob.attempt = 1
    /\ DOMAIN NoJob = {"topic", "event", "next", "attempt"}
BY DEF NoJob

\* What a connector, the webhook or a scenario hands to publish().
LEMMA NormalizedReadable ==
    ASSUME NEW o \in Objects
    PROVE  Readable(Normalized(o))
<1> DEFINE raw == Normalized(o)
<1>1. raw.text = o.text \/ raw.text = <<>>
  BY InputAssumption DEF Normalized, NormalizedPullRequest, NormalizedGitHubIssue,
     NormalizedCommit, NormalizedRelease, NormalizedMessage, NormalizedJiraIssue, NormalizedPage,
     NormalizedEvent, NormalizedIncident, Raw
<1>2. DOMAIN raw.attributes \subseteq {"repo", "channel", "key", "status", "service"}
  <2>1. DOMAIN [key |-> o.id, status |-> o.status] \subseteq {"key", "status"}
    OBVIOUS
  <2>2. DOMAIN [status |-> o.status, service |-> o.service] \subseteq {"status", "service"}
    OBVIOUS
  <2>3. DOMAIN [repo |-> o.repo] = {"repo"} /\ DOMAIN [channel |-> o.channel] = {"channel"}
    OBVIOUS
  <2>4. QED
    BY <2>1, <2>2, <2>3, NoProps, InputAssumption
    DEF Normalized, NormalizedPullRequest, NormalizedGitHubIssue,
        NormalizedCommit, NormalizedRelease, NormalizedMessage, NormalizedJiraIssue,
        NormalizedPage, NormalizedEvent, NormalizedIncident, Raw
<1>3. \A name \in {"touches_services", "blocks", "blocked_by_incidents", "references_projects"} :
         GetAll(raw, name) = <<>>
  <2> HIDE DEF raw
  <2>1. QED
    BY <1>2 DEF GetAll, Get
<1>4. QED
  BY <1>1, <1>3, Nothing, InputAssumption DEF Readable

\* A list of events is published.
Publishable(raws) == Listed(raws) /\ \A i \in DOMAIN raws : Readable(raws[i])

LEMMA PublishedTyped ==
    ASSUME NEW raws, Publishable(raws), QueueTyped, Publish(raws)
    PROVE  /\ QueueTyped'
           /\ ToSet(queue') = ToSet(queue) \cup {Message("raw.events", raw) : raw \in ToSet(raws)}
<1> DEFINE messages == [i \in DOMAIN raws |-> Message("raw.events", raws[i])]
<1>1. Len(raws) \in Nat /\ DOMAIN raws = 1..Len(raws)
  BY ListedDomain DEF Publishable
<1>2. Listed(messages)
  BY <1>1, Enumerated
<1>3. ToSet(messages) = {Message("raw.events", raw) : raw \in ToSet(raws)}
  BY DEF ToSet
<1>4. queue' = queue \o messages
  BY DEF Publish
<1>5. \A m \in ToSet(messages) : Expected(m)
  <2>1. SUFFICES ASSUME NEW i \in DOMAIN raws PROVE Expected(Message("raw.events", raws[i]))
    BY <1>3 DEF ToSet
  <2>2. QED
    BY MessageFields DEF Expected, Publishable
<1> HIDE DEF messages
<1>6. Listed(queue') /\ ToSet(queue') = ToSet(queue) \cup ToSet(messages)
  BY <1>2, <1>4, Joined DEF QueueTyped
<1>7. QED
  BY <1>3, <1>5, <1>6 DEF QueueTyped

\* Poll, Deliver and RunScenario.
LEMMA PublishCases ==
    ASSUME NEW o \in Objects, Poll(o) \/ Deliver(o)
    PROVE  \E raws : Publishable(raws) /\ Publish(raws)
<1>1. Readable(Normalized(o))
  BY NormalizedReadable
<1>2. \A raw : Readable(raw) => Publishable(<<raw>>)
  <2>1. SUFFICES ASSUME NEW raw, Readable(raw) PROVE Publishable(<<raw>>)
    OBVIOUS
  <2>2. \A i \in DOMAIN <<raw>> : <<raw>>[i] = raw
    OBVIOUS
  <2>3. QED
    BY <2>1, <2>2, Single DEF Publishable
<1>3. CASE Poll(o)
  BY <1>1, <1>2, <1>3 DEF Poll
<1>4. CASE Deliver(o)
  <2>1. ParsedDelivery(o) = <<Normalized(o)>>
    BY <1>4, InputAssumption DEF Deliver, ParsedDelivery, NormalizedPushCommit, NormalizedCommit,
       Normalized
  <2>2. QED
    BY <1>1, <1>2, <1>4, <2>1 DEF Deliver
<1>5. QED
  BY <1>3, <1>4

LEMMA ScenarioCase ==
    ASSUME NEW events \in Scenarios, RunScenario(events)
    PROVE  Publishable(Replayed(events)) /\ Publish(Replayed(events))
<1>1. Listed(events) /\ \A i \in DOMAIN events : Readable(events[i])
  BY InputAssumption
<1>2. QED
  BY <1>1, ReplayedOnce DEF Publishable, RunScenario

LEMMA NextCases ==
    ASSUME Next
    PROVE  \/ \E raws : Publishable(raws) /\ Publish(raws)
           \/ Take \/ Extract \/ UpsertNode \/ LinkAndAnnounce \/ Raise
BY PublishCases, ScenarioCase DEF Next, Drain

LEMMA HeadAndTail ==
    ASSUME NEW s, Listed(s), s # <<>>
    PROVE  Listed(Tail(s)) /\ ToSet(s) = {Head(s)} \cup ToSet(Tail(s))
<1> DEFINE S == ToSet(s)
<1>1. s \in Seq(S) /\ Len(s) \in Nat /\ Len(s) # 0 /\ DOMAIN s = 1..Len(s)
  BY DEF Listed
<1>2. /\ Tail(s) \in Seq(S) /\ Len(Tail(s)) = Len(s) - 1 /\ Head(s) = s[1]
      /\ \A i \in 1..(Len(s) - 1) : Tail(s)[i] = s[i + 1]
  BY <1>1
<1>3. DOMAIN Tail(s) = 1..(Len(s) - 1)
  BY <1>1, <1>2
<1>4. Listed(Tail(s))
  <2>1. Len(s) - 1 \in Nat
    BY <1>1
  <2>2. Tail(s) \in [1..Len(Tail(s)) -> S]
    BY ONLY <1>2, LenProperties
  <2>3. QED
    BY ONLY <1>2, <2>1, <2>2, Enumerated
<1>5. \A i \in 1..Len(s) : i = 1 \/ (i - 1 \in 1..(Len(s) - 1) /\ s[i] = Tail(s)[i - 1])
  BY <1>1, <1>2
<1>6. \A i \in 1..(Len(s) - 1) : i + 1 \in 1..Len(s)
  BY <1>1
<1>7. 1 \in 1..Len(s)
  BY <1>1
<1>8. ToSet(s) \subseteq {Head(s)} \cup ToSet(Tail(s))
  <2>1. SUFFICES ASSUME NEW i \in 1..Len(s) PROVE s[i] \in {Head(s)} \cup ToSet(Tail(s))
    BY <1>1 DEF ToSet
  <2>2. CASE i = 1
    BY <1>2, <2>2
  <2>3. CASE i # 1
    <3>1. i - 1 \in DOMAIN Tail(s) /\ s[i] = Tail(s)[i - 1]
      BY <1>3, <1>5, <2>3
    <3>2. QED
      BY <3>1 DEF ToSet
  <2>4. QED
    BY <2>2, <2>3
<1>9. {Head(s)} \cup ToSet(Tail(s)) \subseteq ToSet(s)
  BY <1>1, <1>2, <1>3, <1>6, <1>7 DEF ToSet
<1>10. QED
  BY <1>4, <1>8, <1>9

LEMMA TakeTyped ==
    ASSUME BusTyped, Take
    PROVE  BusTyped'
<1>1. /\ Listed(queue') /\ ToSet(queue) = {Head(queue)} \cup ToSet(queue')
      /\ UNCHANGED <<nodes, edges, announced>>
  BY HeadAndTail DEF BusTyped, QueueTyped, Take, graphVars
<1>2. QueueTyped'
  BY <1>1 DEF BusTyped, QueueTyped
<1>3. Expected(Head(queue))
  BY <1>1 DEF BusTyped, QueueTyped
<1>4. /\ DOMAIN job' = {"topic", "event", "next", "attempt"}
      /\ job'.topic = Head(queue).topic /\ job'.event = Head(queue).event
      /\ job'.next = 1 /\ job'.attempt = 1
  BY DEF Take, NoJob
<1>5. Message(job'.topic, job'.event) = Head(queue)
  BY <1>3, <1>4 DEF Expected
<1>6. job'.topic = "entities.extracted" => Listed(job'.event.nodes)
  BY <1>3, <1>4 DEF Expected, Shaped
<1>7. job'.topic = "entities.extracted" =>
         \A i \in DOMAIN job'.event.nodes : ~(i < job'.next)
  BY <1>4, <1>6, ListedDomain
<1>8. JobTyped'
  BY <1>3, <1>4, <1>5, <1>7, Bounds DEF JobTyped
<1>9. GraphTyped'
  BY <1>1 DEF BusTyped, GraphTyped
<1>10. QED
  BY <1>2, <1>8, <1>9 DEF BusTyped

\* Extract's queue: the batch, if it has a node.
LEMMA ExtractedQueue ==
    ASSUME BusTyped, Extract
    PROVE  LET batch == Extracted(job.event)
           IN /\ Readable(job.event) /\ Shaped(batch) /\ Listed(queue')
              /\ ToSet(queue') = ToSet(queue) \cup
                    (IF batch.nodes = <<>> THEN {} ELSE {Message("entities.extracted", batch)})
<1> DEFINE batch == Extracted(job.event)
<1>1. Readable(job.event)
  BY NoJobFields, MessageFields DEF BusTyped, JobTyped, Extract, Expected
<1>2. Shaped(batch)
  BY <1>1, ExtractedShaped
<1>3. queue' = IF batch.nodes = <<>> THEN queue
               ELSE Append(queue, Message("entities.extracted", batch))
  BY DEF Extract
<1> HIDE DEF batch
<1>4. Listed(queue) /\ queue \in Seq(ToSet(queue) \cup {Message("entities.extracted", batch)})
  BY DEF BusTyped, QueueTyped, Listed
<1>5. Append(queue, Message("entities.extracted", batch))
         = queue \o <<Message("entities.extracted", batch)>>
  BY <1>4
<1>6. /\ Listed(queue \o <<Message("entities.extracted", batch)>>)
      /\ ToSet(queue \o <<Message("entities.extracted", batch)>>)
           = ToSet(queue) \cup {Message("entities.extracted", batch)}
  BY <1>4, Single, Joined
<1>7. QED
  BY <1>1, <1>2, <1>3, <1>4, <1>5, <1>6 DEF batch

LEMMA ExtractTyped ==
    ASSUME BusTyped, Extract
    PROVE  BusTyped'
<1> DEFINE batch == Extracted(job.event)
<1>1. /\ Shaped(batch) /\ Listed(queue')
      /\ ToSet(queue') \subseteq ToSet(queue) \cup {Message("entities.extracted", batch)}
      /\ job' = NoJob /\ UNCHANGED <<nodes, edges, announced>>
  BY ExtractedQueue DEF Extract, graphVars
<1>2. Expected(Message("entities.extracted", batch))
  BY <1>1, MessageFields DEF Expected
<1> HIDE DEF batch
<1>3. QueueTyped'
  BY <1>1, <1>2 DEF BusTyped, QueueTyped
<1>4. JobTyped' /\ GraphTyped'
  BY <1>1 DEF BusTyped, JobTyped, GraphTyped, NoJob
<1>5. QED
  BY <1>3, <1>4 DEF BusTyped

LEMMA UpsertTyped ==
    ASSUME BusTyped, UpsertNode
    PROVE  /\ BusTyped'
           /\ LET node == job.event.nodes[job.next]
                  known == IF node.key \in DOMAIN nodes THEN nodes[node.key] ELSE <<>>
              IN /\ job.next \in DOMAIN job.event.nodes /\ Shaped(job.event)
                 /\ DOMAIN nodes' = DOMAIN nodes \cup {node.key}
                 /\ \A key \in DOMAIN nodes :
                       nodes'[key] = IF key = node.key THEN Onto(known, node.props)
                                     ELSE nodes[key]
<1> DEFINE node == job.event.nodes[job.next]
           known == IF node.key \in DOMAIN nodes THEN nodes[node.key] ELSE <<>>
<1>1. job.topic = "entities.extracted" /\ job # NoJob
  BY NoJobFields DEF UpsertNode
<1>2. Shaped(job.event) /\ Expected(Message(job.topic, job.event))
  BY <1>1, MessageFields DEF BusTyped, JobTyped, Expected
<1>3. /\ DOMAIN job = {"topic", "event", "next", "attempt"}
      /\ job.next \in Nat \ {0} /\ job.attempt \in 1..MaxRetries
      /\ \A i \in DOMAIN job.event.nodes :
            i < job.next => job.event.nodes[i].key \in DOMAIN nodes
  BY <1>1 DEF BusTyped, JobTyped
<1>4. DOMAIN job.event.nodes = 1..Len(job.event.nodes) /\ Len(job.event.nodes) \in Nat
  BY <1>2, ListedDomain DEF Shaped
<1>5. job.next \in DOMAIN job.event.nodes
  BY <1>3, <1>4 DEF UpsertNode
<1>6. nodes' = Onto(nodes, [key \in {node.key} |-> Onto(known, node.props)])
  BY DEF UpsertNode
<1>7. /\ DOMAIN nodes' = DOMAIN nodes \cup {node.key}
      /\ \A key \in DOMAIN nodes :
            nodes'[key] = IF key = node.key THEN Onto(known, node.props) ELSE nodes[key]
  <2> DEFINE new == Onto(known, node.props)
  <2> HIDE DEF node, new
  <2>1. nodes' = Onto(nodes, [key \in {node.key} |-> new])
    BY <1>6 DEF new
  <2>2. QED
    BY <2>1 DEF Onto, new
<1>8. /\ DOMAIN job' = DOMAIN job /\ job'.topic = job.topic /\ job'.event = job.event
      /\ job'.next = job.next + 1 /\ job'.attempt = job.attempt
      /\ UNCHANGED <<queue, edges, announced>>
  BY <1>3 DEF UpsertNode
<1>9. \A i \in DOMAIN job'.event.nodes :
         i < job'.next => job'.event.nodes[i].key \in DOMAIN nodes'
  <2>1. SUFFICES ASSUME NEW i \in DOMAIN job.event.nodes, i < job.next + 1
                 PROVE  job.event.nodes[i].key \in DOMAIN nodes'
    BY <1>8
  <2>2. i = job.next \/ i < job.next
    BY <1>3, <1>4, <2>1
  <2>3. QED
    BY <1>3, <1>7, <2>2
<1>10. JobTyped'
  <2>1. Expected(Message(job'.topic, job'.event))
    BY <1>2, <1>8
  <2>2. job'.next \in Nat \ {0} /\ job'.attempt \in 1..MaxRetries
    BY <1>3, <1>8
  <2>3. QED
    BY <1>3, <1>8, <1>9, <2>1, <2>2 DEF JobTyped
<1>11. QueueTyped' /\ GraphTyped'
  BY <1>7, <1>8 DEF BusTyped, QueueTyped, GraphTyped
<1>12. QED
  BY <1>2, <1>5, <1>7, <1>10, <1>11 DEF BusTyped

\* Nothing of a batch is left over when it is announced.
LEMMA LinkTyped ==
    ASSUME BusTyped, LinkAndAnnounce
    PROVE  /\ BusTyped'
           /\ announced' = announced \cup Keys(job.event)
           /\ edges' = edges \cup ToSet(job.event.edges)
<1>1. job.topic = "entities.extracted" /\ job # NoJob
  BY NoJobFields DEF LinkAndAnnounce
<1>2. Shaped(job.event)
  BY <1>1, MessageFields DEF BusTyped, JobTyped, Expected
<1>3. /\ job.next \in Nat \ {0}
      /\ \A i \in DOMAIN job.event.nodes :
            i < job.next => job.event.nodes[i].key \in DOMAIN nodes
  BY <1>1 DEF BusTyped, JobTyped
<1>4. DOMAIN job.event.nodes = 1..Len(job.event.nodes) /\ Len(job.event.nodes) \in Nat
  BY <1>2, ListedDomain DEF Shaped
<1>5. \A i \in DOMAIN job.event.nodes : i < job.next
  BY <1>3, <1>4 DEF LinkAndAnnounce
<1>6. Keys(job.event) \subseteq DOMAIN nodes
  BY <1>3, <1>5 DEF Keys
<1>7. /\ announced' = announced \cup Keys(job.event) /\ job' = NoJob
      /\ edges' = edges \cup ToSet(job.event.edges)
      /\ UNCHANGED <<queue, nodes>>
  BY <1>2 DEF LinkAndAnnounce, Upserted, Shaped
<1>8. GraphTyped'
  BY <1>2, <1>6, <1>7 DEF BusTyped, GraphTyped, Shaped
<1>9. QueueTyped' /\ JobTyped'
  BY <1>7 DEF BusTyped, QueueTyped, JobTyped, NoJob
<1>10. QED
  BY <1>7, <1>8, <1>9 DEF BusTyped

LEMMA RaiseTyped ==
    ASSUME BusTyped, Raise
    PROVE  /\ BusTyped' /\ UNCHANGED <<queue, announced, edges>> /\ dead \subseteq dead'
           /\ \/ job'.topic = job.topic /\ job'.event = job.event
              \/ Message(job.topic, job.event) \in dead'
<1>1. /\ job # NoJob /\ DOMAIN job = {"topic", "event", "next", "attempt"}
      /\ Expected(Message(job.topic, job.event))
      /\ job.next \in Nat \ {0} /\ job.attempt \in 1..MaxRetries
      /\ job.topic = "entities.extracted" => Shaped(job.event)
  BY MessageFields DEF BusTyped, JobTyped, Raise, Expected
<1>2. UNCHANGED <<queue, nodes, announced, edges>>
  BY DEF Raise, graphVars
<1>3. QueueTyped' /\ GraphTyped'
  BY <1>2 DEF BusTyped, QueueTyped, GraphTyped
<1>4. CASE AttemptsLeft
  <2>1. /\ DOMAIN job' = DOMAIN job /\ job'.topic = job.topic /\ job'.event = job.event
        /\ job'.next = 1 /\ job'.attempt = job.attempt + 1 /\ UNCHANGED dead
    BY <1>1, <1>4 DEF Raise
  <2>2. job'.attempt \in 1..MaxRetries
    BY <1>1, <1>4, <2>1, Bounds DEF AttemptsLeft
  <2>3. job.topic = "entities.extracted" => \A i \in DOMAIN job.event.nodes : ~(i < 1)
    BY <1>1, ListedDomain DEF Shaped
  <2>4. JobTyped'
    BY <1>1, <2>1, <2>2, <2>3 DEF JobTyped
  <2>5. QED
    BY <1>2, <1>3, <2>1, <2>4 DEF BusTyped
<1>5. CASE ~AttemptsLeft
  <2>1. job' = NoJob /\ dead' = dead \cup {Message(job.topic, job.event)}
    BY <1>5 DEF Raise, Exhausted
  <2>2. QED
    BY <1>2, <1>3, <2>1 DEF BusTyped, JobTyped, NoJob
<1>6. QED
  BY <1>4, <1>5

LEMMA BusStep ==
    ASSUME BusTyped, [Next]_vars
    PROVE  BusTyped'
<1>1. ASSUME NEW raws, Publishable(raws), Publish(raws)
      PROVE  BusTyped'
  <2>1. QueueTyped'
    BY <1>1, PublishedTyped DEF BusTyped
  <2>2. UNCHANGED <<job, nodes, edges, announced>>
    BY <1>1 DEF Publish, graphVars
  <2>3. QED
    BY <2>1, <2>2 DEF BusTyped, JobTyped, GraphTyped
<1>2. CASE UNCHANGED vars
  BY <1>2 DEF vars, graphVars, BusTyped, QueueTyped, JobTyped, GraphTyped
<1>3. CASE Next
  BY <1>1, <1>3, NextCases, TakeTyped, ExtractTyped, UpsertTyped, LinkTyped, RaiseTyped
<1>4. QED
  BY <1>2, <1>3

LEMMA BusCorrect == Spec => []BusTyped
<1>1. Init => BusTyped
  BY Nothing DEF Init, BusTyped, QueueTyped, JobTyped, GraphTyped
<1>2. QED
  BY <1>1, BusStep, PTL DEF Spec

\* The bus holds events of its two topics, drain() attempts none more often than max_retries
\* (bus.py _deliver), and the graph has a node at both ends of every edge and for every key
\* that was announced (graph/worker.py).
THEOREM TypeCorrect == Spec => []TypeOK
<1>1. BusTyped => TypeOK
  <2>1. SUFFICES ASSUME BusTyped PROVE TypeOK
    OBVIOUS
  <2>2. \A i \in DOMAIN queue : Expected(queue[i])
    BY <2>1 DEF BusTyped, QueueTyped, ToSet
  <2>3. \A i \in DOMAIN queue : queue[i].topic \in {"raw.events", "entities.extracted"}
    BY <2>2 DEF Expected
  <2>4. JobTyped /\ GraphTyped
    BY <2>1 DEF BusTyped
  <2>5. CASE job = NoJob
    <3>1. job.attempt \in 1..MaxRetries
      BY <2>5, NoJobFields, Bounds
    <3>2. QED
      BY <2>3, <2>4, <2>5, <3>1 DEF TypeOK, GraphTyped
  <2>6. CASE job # NoJob
    <3>1. Expected(Message(job.topic, job.event)) /\ job.attempt \in 1..MaxRetries
      BY <2>4, <2>6 DEF JobTyped
    <3>2. job.topic \in {"raw.events", "entities.extracted"}
      BY <3>1, MessageFields DEF Expected
    <3>3. QED
      BY <2>3, <2>4, <3>1, <3>2 DEF TypeOK, GraphTyped
  <2>7. QED
    BY <2>5, <2>6
<1>2. QED
  BY <1>1, BusCorrect, PTL

-----------------------------------------------------------------------------
\* What NothingVanishes says of a raw event.
Accounted(raw) ==
    \/ UnderWay("raw.events", raw) \/ UnderWay("entities.extracted", Extracted(raw))
    \/ Keys(Extracted(raw)) \subseteq announced /\ ToSet(Extracted(raw).edges) \subseteq edges

\* A delivery that goes on, or is given up, is still accounted for.
LEMMA StaysUnderWay ==
    ASSUME NEW topic, NEW event, UnderWay(topic, event),
           ToSet(queue) \subseteq ToSet(queue'), dead \subseteq dead',
           \/ job.topic # topic \/ job.event # event
           \/ job'.topic = job.topic /\ job'.event = job.event
           \/ Message(job.topic, job.event) \in dead'
    PROVE  UnderWay(topic, event)'
BY DEF UnderWay

LEMMA AccountedStep ==
    ASSUME BusTyped, [Next]_vars, NEW raw, Accounted(raw)
    PROVE  Accounted(raw)'
<1> DEFINE batch == Extracted(raw)
<1> USE DEF Accounted
<1>1. ASSUME NEW raws, Publishable(raws), Publish(raws)
      PROVE  Accounted(raw)'
  <2>1. ToSet(queue) \subseteq ToSet(queue')
    BY <1>1, PublishedTyped DEF BusTyped
  <2>2. UNCHANGED <<job, dead, edges, announced>>
    BY <1>1 DEF Publish, graphVars
  <2>3. QED
    BY <2>1, <2>2, StaysUnderWay
<1>2. CASE Take
  <2>1. ToSet(queue) = {Head(queue)} \cup ToSet(queue')
    BY <1>2, HeadAndTail DEF Take, BusTyped, QueueTyped
  <2>2. /\ job = NoJob /\ UNCHANGED <<dead, edges, announced>>
        /\ job'.topic = Head(queue).topic /\ job'.event = Head(queue).event
    BY <1>2 DEF Take, NoJob, graphVars
  <2>3. ASSUME NEW topic, NEW event, topic # "none", UnderWay(topic, event)
        PROVE  UnderWay(topic, event)'
    BY <2>1, <2>2, <2>3, NoJobFields, MessageFields DEF UnderWay
  <2>4. QED
    BY <2>2, <2>3
<1>3. CASE Extract
  <2>1. /\ job.topic = "raw.events" /\ job' = NoJob
        /\ UNCHANGED <<dead, edges, announced>>
    BY <1>3 DEF Extract, graphVars
  <2>2. /\ Shaped(Extracted(job.event)) /\ ToSet(queue) \subseteq ToSet(queue')
        /\ Extracted(job.event).nodes # <<>> =>
              Message("entities.extracted", Extracted(job.event)) \in ToSet(queue')
    BY <1>3, ExtractedQueue
  <2>3. CASE job.event = raw
    <3>1. CASE batch.nodes # <<>>
      BY <2>2, <2>3, <3>1 DEF UnderWay
    <3>2. CASE batch.nodes = <<>>
      <4>1. Keys(batch) = {}
        BY <3>2 DEF Keys
      <4>2. ToSet(batch.edges) = {}
        BY <2>2, <2>3, <4>1 DEF Shaped
      <4>3. QED
        BY <2>1, <4>1, <4>2
    <3>3. QED
      BY <3>1, <3>2
  <2>4. CASE job.event # raw
    BY <2>1, <2>2, <2>4, StaysUnderWay
  <2>5. QED
    BY <2>3, <2>4
<1>4. CASE UpsertNode
  <2>1. /\ UNCHANGED <<queue, dead, edges, announced>>
        /\ job'.topic = job.topic /\ job'.event = job.event
    <3>1. DOMAIN job = {"topic", "event", "next", "attempt"}
      BY <1>4, NoJobFields DEF BusTyped, JobTyped
    <3>2. QED
      BY <1>4, <3>1 DEF UpsertNode
  <2>2. QED
    BY <2>1, StaysUnderWay
<1>5. CASE LinkAndAnnounce
  <2>1. /\ announced' = announced \cup Keys(job.event)
        /\ edges' = edges \cup ToSet(job.event.edges)
    BY <1>5, LinkTyped
  <2>2. UNCHANGED <<queue, dead>> /\ job.topic = "entities.extracted"
    BY <1>5 DEF LinkAndAnnounce
  <2>3. CASE job.event = batch
    BY <2>1, <2>3
  <2>4. CASE job.event # batch
    BY <2>1, <2>2, <2>4, StaysUnderWay
  <2>5. QED
    BY <2>3, <2>4
<1>6. CASE Raise
  <2>1. /\ UNCHANGED <<queue, announced, edges>> /\ dead \subseteq dead'
        /\ \/ job'.topic = job.topic /\ job'.event = job.event
           \/ Message(job.topic, job.event) \in dead'
    BY <1>6, RaiseTyped
  <2>2. QED
    BY <2>1, StaysUnderWay
<1>7. CASE UNCHANGED vars
  BY <1>7 DEF vars, graphVars, UnderWay
<1>8. QED
  BY <1>1, <1>2, <1>3, <1>4, <1>5, <1>6, <1>7, NextCases

\* An event is accounted for as soon as it arrives, and nothing else arrives.
LEMMA Arrives ==
    ASSUME BusTyped, [Next]_vars, NEW raw \in arrived', raw \notin arrived
    PROVE  Accounted(raw)'
<1>1. ASSUME NEW raws, Publishable(raws), Publish(raws)
      PROVE  Accounted(raw)'
  <2>1. raw \in ToSet(raws)
    BY <1>1 DEF Publish
  <2>2. Message("raw.events", raw) \in ToSet(queue')
    BY <1>1, <2>1, PublishedTyped DEF BusTyped
  <2>3. QED
    BY <2>2 DEF Accounted, UnderWay
<1>2. CASE Take \/ Extract \/ UpsertNode \/ LinkAndAnnounce \/ Raise
  BY <1>2 DEF Take, Extract, UpsertNode, LinkAndAnnounce, Raise
<1>3. CASE UNCHANGED vars
  BY <1>3 DEF vars
<1>4. QED
  BY <1>1, <1>2, <1>3, NextCases

\* Between publish() of a raw event and the end of drain(), whatever handler raises and however
\* far it came, the event is queued, in a handler or a dead letter, or all that the rules of
\* extractors.py make of it is in the graph and announced.
THEOREM NothingEverVanishes == Spec => []NothingVanishes
<1>1. NothingVanishes <=> \A raw \in arrived : Accounted(raw)
  BY DEF NothingVanishes, Accounted
<1>2. Init => NothingVanishes
  BY DEF Init, NothingVanishes
<1>3. BusTyped /\ NothingVanishes /\ [Next]_vars => NothingVanishes'
  <2>1. SUFFICES ASSUME BusTyped, \A raw \in arrived : Accounted(raw), [Next]_vars,
                        NEW raw \in arrived'
                 PROVE  Accounted(raw)'
    BY <1>1 DEF NothingVanishes, Accounted
  <2>2. CASE raw \in arrived
    BY <2>1, <2>2, AccountedStep
  <2>3. CASE raw \notin arrived
    BY <2>1, <2>3, Arrives
  <2>4. QED
    BY <2>2, <2>3
<1>4. QED
  BY <1>2, <1>3, BusCorrect, PTL DEF Spec

-----------------------------------------------------------------------------
\* The step of FactsSurviveMentions.
FactsSurvive ==
    \A key \in DOMAIN nodes : \A name \in DOMAIN nodes[key] :
       \/ nodes'[key][name] = nodes[key][name]
       \/ Owns(job.event, key)

\* A write of the graph worker changes a property of a node only if the batch is about that
\* node, or the node is a deployment that it blocks: the rules of extractors.py state nothing
\* of a node they only mention, and upsert_node keeps what it is not told.
THEOREM FactsAlwaysSurvive == Spec => FactsSurviveMentions
<1>1. BusTyped /\ [Next]_vars => [FactsSurvive]_nodes
  <2> SUFFICES ASSUME BusTyped, [Next]_vars
               PROVE  [FactsSurvive]_nodes
    OBVIOUS
  <2>1. CASE UpsertNode
    <3> DEFINE node == job.event.nodes[job.next]
    <3>1. /\ job.next \in DOMAIN job.event.nodes /\ Shaped(job.event)
          /\ \A key \in DOMAIN nodes :
                nodes'[key] = IF key = node.key
                              THEN Onto(nodes[key], node.props) ELSE nodes[key]
      BY <2>1, UpsertTyped
    <3>2. DOMAIN node.props # {} => Owns(job.event, node.key)
      BY <3>1 DEF Shaped
    <3> HIDE DEF node
    <3>3. ASSUME NEW key \in DOMAIN nodes, NEW name \in DOMAIN nodes[key]
          PROVE  nodes'[key][name] = nodes[key][name] \/ Owns(job.event, key)
      <4>1. CASE key = node.key /\ name \in DOMAIN node.props
        BY <3>2, <4>1
      <4>2. CASE key = node.key /\ name \notin DOMAIN node.props
        BY <3>1, <4>2 DEF Onto
      <4>3. CASE key # node.key
        BY <3>1, <4>3
      <4>4. QED
        BY <4>1, <4>2, <4>3
    <3>4. QED
      BY <3>3 DEF FactsSurvive
  <2>2. CASE Take \/ Extract \/ LinkAndAnnounce \/ Raise \/ \E raws : Publish(raws)
    BY <2>2 DEF Take, Extract, LinkAndAnnounce, Raise, Publish, graphVars
  <2>3. CASE UNCHANGED vars
    BY <2>3 DEF vars, graphVars
  <2>4. QED
    BY <2>1, <2>2, <2>3, NextCases
<1>2. QED
  BY <1>1, BusCorrect, PTL DEF Spec, FactsSurviveMentions, FactsSurvive
=============================================================================
