------------------------------- MODULE Lifecycle -------------------------------
(***************************************************************************)
(* One process of a service from its start to its requests: main() waits   *)
(* for Neo4j, serve() starts the consumer thread, runs on_ready (the       *)
(* initial sync of ingestion) and only then listens; the middleware of     *)
(* create_base_app counts requests that overlap.  The process is probed by *)
(* the kubelet (deploy/helm, or infra/k8s with other numbers), which kills *)
(* and starts again what does not answer /health.                          *)
(*                                                                         *)
(* Time passes in ticks, and never past an instant at which the process    *)
(* has something to do.                                                    *)
(***************************************************************************)
EXTENDS Naturals, FiniteSets

CONSTANTS Attempts,      \* neo4j_connect_attempts
          AttemptTicks,  \* ticks a failed attempt and its sleep may take
          SyncTicks,     \* ticks an initial sync may take ...
          SlowTicks,     \* ... and may take when the sources throttle it
          ProbePeriod, ProbeFailures, \* of the startup probe
          Slots,         \* requests that may overlap
          Buckets,       \* number of finite histogram buckets
          MaxRequests, MaxOutages, MaxExceptions \* bounds: requests, outages of Neo4j, exceptions

ASSUME LifecycleAssumption ==
    /\ {Attempts, ProbePeriod, ProbeFailures} \subseteq Nat \ {0}
    /\ AttemptTicks \subseteq Nat \ {0} /\ SyncTicks \cup SlowTicks \subseteq Nat
    /\ Buckets \in Nat /\ IsFiniteSet(Slots)

VARIABLES service,   \* "graph": reads Neo4j, no on_ready; "ingestion": the other way round
          neo4j,     \* whether Neo4j answers
          process,   \* where main() is, its attempts so far, ticks it still sleeps or works
          consumer,  \* the consumer thread
          latch,     \* Readiness
          probe,     \* ticks to the next probe, probes failed in a row
          requests,  \* slot -> stage of its request, its status, the bucket of its duration
          metrics,   \* METRICS: in flight, total, answered 5xx, histogram
          killed,    \* history: where the kubelet found the processes it killed
          quota

processVars ==
    <<service, neo4j, process, consumer, latch, probe, requests, metrics, killed, quota>>

NoRequest == [stage |-> "none", status |-> 0, bucket |-> 0]
NoMetrics == [inflight |-> 0, total |-> 0, errors |-> 0, observed |-> 0,
              counts |-> [b \in 1..Buckets |-> 0]]
NewProcess == [at |-> IF service = "graph" THEN "connect" ELSE "serve", tried |-> 0, busy |-> 0]
Draw(what) == quota[what] > 0 /\ quota' = [quota EXCEPT ![what] = @ - 1]

ProcessInit ==
    /\ service \in {"graph", "ingestion"} /\ neo4j \in BOOLEAN
    /\ process = NewProcess /\ consumer = "none" /\ latch = FALSE
    /\ probe = [due |-> ProbePeriod, failed |-> 0]
    /\ requests = [r \in Slots |-> NoRequest] /\ metrics = NoMetrics
    /\ killed = {}
    /\ quota = [request |-> MaxRequests, outage |-> MaxOutages, fault |-> MaxExceptions]

\* Nothing of a process outlives it.
StartOver ==
    /\ process' = NewProcess /\ consumer' = "none" /\ latch' = FALSE
    /\ probe' = [due |-> ProbePeriod, failed |-> 0]
    /\ requests' = [r \in Slots |-> NoRequest] /\ metrics' = NoMetrics

-----------------------------------------------------------------------------
\* Start-up
Awake(at) == process.at = at /\ process.busy = 0

ConnectsLeftForever == TRUE \* mutant: as long as it takes
ConnectsLeft == process.tried < Attempts

\* An attempt; one that fails is followed by a sleep, the last one too.
Connect ==
    /\ Awake("connect") /\ ConnectsLeft
    /\ IF neo4j
       THEN process' = [process EXCEPT !.at = "serve"]
       ELSE \E t \in AttemptTicks :
              process' = [process EXCEPT !.tried = IF @ < Attempts THEN @ + 1 ELSE @, !.busy = t]
    /\ UNCHANGED <<service, neo4j, consumer, latch, probe, requests, metrics, killed, quota>>

\* No attempt is left: RuntimeError, and the container is started again.
GiveUp ==
    /\ Awake("connect") /\ ~ConnectsLeft
    /\ StartOver
    /\ UNCHANGED <<service, neo4j, killed, quota>>

StartConsumerBlocks == \* mutant: run_forever, which does not return
    /\ Awake("serve")
    /\ consumer' = "running"
    /\ UNCHANGED <<service, neo4j, process, latch, probe, requests, metrics, killed, quota>>
\* start_consumer_thread, then on_ready. A throttled sync counts as a fault.
StartConsumer ==
    /\ Awake("serve")
    /\ consumer' = "running"
    /\ \E t \in IF service = "ingestion" THEN SyncTicks \cup SlowTicks ELSE {0} :
         /\ process' = [process EXCEPT !.at = "on_ready", !.busy = t]
         /\ IF t \in SlowTicks THEN Draw("fault") ELSE UNCHANGED quota
    /\ UNCHANGED <<service, neo4j, latch, probe, requests, metrics, killed>>

\* The loop of the consumer raises: it is logged, and nothing else notices.
ConsumerCrashes ==
    /\ consumer = "running" /\ Draw("fault")
    /\ consumer' = "crashed"
    /\ UNCHANGED <<service, neo4j, process, latch, probe, requests, metrics, killed>>

\* on_ready has returned: set_ready, then uvicorn listens.
Listen ==
    /\ Awake("on_ready")
    /\ latch' = TRUE
    /\ process' = [process EXCEPT !.at = "listening"]
    /\ UNCHANGED <<service, neo4j, consumer, probe, requests, metrics, killed, quota>>

\* The initial sync raises, and main() with it.
OnReadyRaises ==
    /\ Awake("on_ready") /\ service = "ingestion" /\ Draw("fault")
    /\ StartOver
    /\ UNCHANGED <<service, neo4j, killed>>

-----------------------------------------------------------------------------
\* Neo4j and the kubelet
Neo4jUp ==
    /\ ~neo4j /\ neo4j' = TRUE
    /\ UNCHANGED <<service, process, consumer, latch, probe, requests, metrics, killed, quota>>
Neo4jDown ==
    /\ neo4j /\ Draw("outage") /\ neo4j' = FALSE
    /\ UNCHANGED <<service, process, consumer, latch, probe, requests, metrics, killed>>

\* Time passes while the process sleeps in start-up; the probe fails when it is due, for
\* nothing listens, and the last one kills.
Tick ==
    /\ process.at # "listening" /\ process.busy > 0
    /\ IF probe.due > 1
       THEN /\ probe' = [probe EXCEPT !.due = @ - 1]
            /\ process' = [process EXCEPT !.busy = @ - 1]
            /\ UNCHANGED <<consumer, latch, requests, metrics, killed>>
       ELSE IF probe.failed + 1 < ProbeFailures
       THEN /\ probe' = [due |-> ProbePeriod, failed |-> probe.failed + 1]
            /\ process' = [process EXCEPT !.busy = @ - 1]
            /\ UNCHANGED <<consumer, latch, requests, metrics, killed>>
       ELSE StartOver /\ killed' = killed \cup {process.at}
    /\ UNCHANGED <<service, neo4j, quota>>

-----------------------------------------------------------------------------
\* Requests: the middleware around the route
Enter(r) ==
    /\ process.at = "listening" /\ requests[r].stage = "none" /\ Draw("request")
    /\ metrics' = [metrics EXCEPT !.inflight = @ + 1]
    /\ requests' = [requests EXCEPT ![r].stage = "route"]
    /\ UNCHANGED <<service, neo4j, process, consumer, latch, probe, killed>>

Raised == 500
Health == 200
Ready == IF latch THEN 200 ELSE 503

\* The route answers after some time, or raises.
Route(r) ==
    /\ requests[r].stage = "route"
    /\ \E status \in {Health, Ready, Raised}, b \in 1..(Buckets + 1) :
         requests' = [requests EXCEPT ![r] = [stage |-> "count", status |-> status, bucket |-> b]]
    /\ UNCHANGED <<service, neo4j, process, consumer, latch, probe, metrics, killed, quota>>

\* Each call of METRICS takes its lock for itself.
Count(r) ==
    /\ requests[r].stage = "count"
    /\ metrics' = [metrics EXCEPT !.total = @ + 1,
                                  !.errors = IF requests[r].status >= 500 THEN @ + 1 ELSE @]
    /\ requests' = [requests EXCEPT ![r].stage = "observe"]
    /\ UNCHANGED <<service, neo4j, process, consumer, latch, probe, killed, quota>>

\* Every bucket from the duration's upwards; none but +Inf for what is above them all.
Observed(h, b) ==
    [h EXCEPT !.observed = @ + 1,
              !.counts = [i \in 1..Buckets |-> IF b <= i THEN @[i] + 1 ELSE @[i]]]
Observe(r) ==
    /\ requests[r].stage = "observe"
    /\ metrics' = Observed(metrics, requests[r].bucket)
    /\ requests' = [requests EXCEPT ![r].stage = "leave"]
    /\ UNCHANGED <<service, neo4j, process, consumer, latch, probe, killed, quota>>

LeaveOnReturn(r) == \* mutant: the gauge is decremented after call_next, not in its finally
    /\ requests[r].stage = "leave"
    /\ metrics' = [metrics EXCEPT !.inflight = IF requests[r].status = Raised THEN @ ELSE @ - 1]
    /\ requests' = [requests EXCEPT ![r] = NoRequest]
    /\ UNCHANGED <<service, neo4j, process, consumer, latch, probe, killed, quota>>
Leave(r) ==
    /\ requests[r].stage = "leave"
    /\ metrics' = [metrics EXCEPT !.inflight = @ - 1]
    /\ requests' = [requests EXCEPT ![r] = NoRequest]
    /\ UNCHANGED <<service, neo4j, process, consumer, latch, probe, killed, quota>>

StartUp == Connect \/ GiveUp \/ StartConsumer \/ Listen \/ Tick

ProcessNext ==
    \/ StartUp \/ OnReadyRaises \/ ConsumerCrashes
    \/ Neo4jUp \/ Neo4jDown
    \/ \E r \in Slots : Enter(r) \/ Route(r) \/ Count(r) \/ Observe(r) \/ Leave(r)

\* The process and time go on, and an outage ends; exceptions and requests are not owed.
ProcessSpec ==
    /\ ProcessInit /\ [][ProcessNext]_processVars
    /\ WF_processVars(StartUp) /\ WF_processVars(Neo4jUp)

\* What /metrics shows of the histogram: its buckets, then +Inf.
Rendered == [b \in 1..(Buckets + 1) |->
                IF b <= Buckets THEN metrics.counts[b] ELSE metrics.observed]

-----------------------------------------------------------------------------
\* What a scrape, at any instant, adds up to: requests in flight, counted and observed.
ScrapesAddUp ==
    LET in(stages) == Cardinality({r \in Slots : requests[r].stage \in stages}) IN
    /\ metrics.inflight = in({"route", "count", "observe", "leave"})
    /\ metrics.total = metrics.observed + in({"observe"})
    /\ metrics.errors <= metrics.total
    /\ \A b \in 1..Buckets : Rendered[b] <= Rendered[b + 1]

\* Every variable holds a value of its type, a scrape adds up, and a process that serves has
\* started its consumer and set its latch.
ProcessTypeOK ==
    /\ process.at \in {"connect", "serve", "on_ready", "listening"}
    /\ process.tried \in 0..Attempts
    /\ probe.due \in 1..ProbePeriod /\ probe.failed \in 0..(ProbeFailures - 1)
    /\ ScrapesAddUp
    /\ process.at = "listening" <=> latch
    /\ latch => consumer # "none"

\* "Retrying here means the service does not crash-loop during that warmup window; it just
\* waits, then serves" (runtime.py): the kubelet kills no process that waits for Neo4j. What
\* is left to kill a process is its own initial sync.
WarmupIsWaitedOut == "connect" \notin killed

\* Whatever outages and exceptions it met, the service listens in the end and goes on: no
\* round of giving up, being killed and starting again goes on for ever.
ComesUp == <>[](process.at = "listening")
=============================================================================
