-------------------------------- MODULE KafkaBus -------------------------------
(***************************************************************************)
(* One consumer group of a topic over the Kafka bus                        *)
(* (packages/platform/.../kafka_bus.py): a consumer thread per process     *)
(* that polls, dispatches with bounded retries, dead-letters and commits;  *)
(* the producer's local queue, drained in the background; the group        *)
(* coordinator; process crashes.  The broker and the client library are    *)
(* modelled from how the code uses them.                                   *)
(***************************************************************************)
EXTENDS Naturals, Sequences, FiniteSets

CONSTANTS Partition,
          Consumer,      \* the processes of the group, one consumer thread each
          None,
          MsgKind,       \* subset of {"event", "undecodable"}
          NumHandlers,   \* handlers the group subscribed to the topic
          MaxRetries,    \* max_retries
          QueueMax,      \* capacity of the producer's local queue
          MaxMessages,   \* bound: messages per partition
          MaxRaises,     \* bound: handler calls that raise with attempts left
          MaxEvictions,  \* bound: consumers that miss max.poll.interval
          MaxDrops,      \* bound: queued messages that time out
          MaxCrashes     \* bound: process crashes

ASSUME BusAssumption ==
    /\ None \notin Consumer
    /\ MsgKind \subseteq {"event", "undecodable"}
    /\ NumHandlers \in Nat \ {0}
    /\ MaxRetries \in Nat \ {0}
    /\ QueueMax \in Nat \ {0}

\* The bounds of the environment are numbers.
ASSUME BoundsAssumption ==
    {MaxRaises, MaxEvictions, MaxDrops, MaxCrashes} \subseteq Nat

VARIABLES log,        \* the topic's partitions
          committed,  \* committed offset of the group, per partition
          members,    \* consumers the coordinator counts as members
          owner,      \* assignment of the partitions
          position,   \* the owner's fetch position
          pc,         \* where each consumer thread is
          hand,       \* the message in hand: <<partition, index>>
          handler,    \* which handler of the list is running
          attempt,    \* and which attempt this is
          queue,      \* produced, not yet acknowledged by the broker
          delivered,  \* what the broker has of the downstream topics
          produced,   \* history: every downstream message ever produced
          settled,    \* history: <<p, k, h>> handled or dead-lettered
          budget      \* what is left of each bounded environment action

logVars == <<log, committed>>
groupVars == <<members, owner, position>>
threadVars == <<pc, hand, handler, attempt>>
producerVars == <<queue, delivered, produced>>
vars == <<logVars, groupVars, threadVars, producerVars, settled, budget>>

Handlers == 1..NumHandlers
Index == Nat \ {0}

\* A message to the next topic, or to the dead-letter topic, caused by <<p, k>>.
Out(m) == <<"next", m[1], m[2]>>
Dlq(m) == <<"dlq", m[1], m[2]>>
OutMsg == {"next", "dlq"} \X Partition \X Index

Stopped(c) == pc[c] = "stopped"
Working(c) == pc[c] \in {"handle", "commit"}
Owns(c, p) == owner[p] = c

Spend(what) == budget[what] > 0 /\ budget' = [budget EXCEPT ![what] = @ - 1]

Init ==
    /\ log = [p \in Partition |-> <<>>]
    /\ committed = [p \in Partition |-> 0]
    /\ members = {}
    /\ owner = [p \in Partition |-> None]
    /\ position = [p \in Partition |-> 0]
    /\ pc = [c \in Consumer |-> "poll"]
    /\ hand = [c \in Consumer |-> <<None, 0>>]
    /\ handler = [c \in Consumer |-> 1]
    /\ attempt = [c \in Consumer |-> 1]
    /\ queue = [c \in Consumer |-> <<>>]
    /\ delivered = {} /\ produced = {} /\ settled = {}
    /\ budget = [raise |-> MaxRaises, evict |-> MaxEvictions,
                 drop |-> MaxDrops, crash |-> MaxCrashes]

-----------------------------------------------------------------------------
\* Upstream: a message keyed by its organisation lands in that key's partition.
Arrive(p, kind) ==
    /\ Len(log[p]) < MaxMessages
    /\ log' = [log EXCEPT ![p] = Append(@, kind)]
    /\ UNCHANGED <<committed, groupVars, threadVars, producerVars, settled, budget>>

RebalanceKeepsPosition == \* mutant: the next owner goes on where the last one fetched
    LET joiners == {c \in Consumer : pc[c] = "poll"} IN
    /\ joiners # members \/ \E p \in Partition : owner[p] = None
    /\ \A c \in members : ~Working(c)
    /\ members' = joiners
    /\ owner' \in [Partition -> joiners]
    /\ UNCHANGED <<logVars, position, threadVars, producerVars, settled, budget>>

\* The coordinator: once every live member is back in poll(), the consumers that
\* poll form the next generation and fetch from the committed offsets.
Rebalance ==
    LET joiners == {c \in Consumer : pc[c] = "poll"} IN
    /\ joiners # members \/ \E p \in Partition : owner[p] = None
    /\ \A c \in members : ~Working(c)
    /\ members' = joiners
    /\ owner' \in [Partition -> joiners]
    /\ position' = committed
    /\ UNCHANGED <<logVars, threadVars, producerVars, settled, budget>>

\* c leaves the group; nobody reads its partitions until the next generation.
Leave(c) ==
    /\ members' = members \ {c}
    /\ owner' = [p \in Partition |-> IF Owns(c, p) THEN None ELSE owner[p]]

\* A handler that runs longer than max.poll.interval.
Evict(c) ==
    /\ c \in members /\ Working(c)
    /\ Spend("evict")
    /\ Leave(c)
    /\ UNCHANGED <<logVars, position, threadVars, producerVars, settled>>

-----------------------------------------------------------------------------
\* The exception leaves run(): the consumer is closed and its thread is gone, the
\* process and its producer stay.
StopThread(c) ==
    /\ pc' = [pc EXCEPT ![c] = "stopped"]
    /\ Leave(c)
    /\ UNCHANGED <<hand, handler, attempt>>

Fetch(c, p) ==
    /\ pc[c] = "poll" /\ Owns(c, p)
    /\ position[p] < Len(log[p])
    /\ position' = [position EXCEPT ![p] = @ + 1]

PollAutoCommits(c, p) == \* mutant: the offset is committed when the message is fetched
    /\ Fetch(c, p)
    /\ log[p][position[p] + 1] = "event"
    /\ pc' = [pc EXCEPT ![c] = "handle"]
    /\ hand' = [hand EXCEPT ![c] = <<p, position[p] + 1>>]
    /\ handler' = [handler EXCEPT ![c] = 1]
    /\ attempt' = [attempt EXCEPT ![c] = 1]
    /\ committed' = [committed EXCEPT ![p] = position[p] + 1]
    /\ UNCHANGED <<log, members, owner, producerVars, settled, budget>>

\* Lines 60-68: the message is decoded and dispatched to the first handler.
Poll(c, p) ==
    /\ Fetch(c, p)
    /\ log[p][position[p] + 1] = "event"
    /\ pc' = [pc EXCEPT ![c] = "handle"]
    /\ hand' = [hand EXCEPT ![c] = <<p, position[p] + 1>>]
    /\ handler' = [handler EXCEPT ![c] = 1]
    /\ attempt' = [attempt EXCEPT ![c] = 1]
    /\ UNCHANGED <<logVars, members, owner, producerVars, settled, budget>>

\* Line 66 raises outside of the try of _dispatch.
PollUndecodable(c, p) ==
    /\ Fetch(c, p)
    /\ log[p][position[p] + 1] = "undecodable"
    /\ StopThread(c)
    /\ UNCHANGED <<logVars, producerVars, settled, budget>>

EnqueueLossy(c, m) == \* mutant: a full queue swallows the message
    /\ queue' = [queue EXCEPT ![c] = IF Len(@) < QueueMax THEN Append(@, m) ELSE @]
    /\ produced' = produced \cup {m}
    /\ UNCHANGED delivered

\* produce(): the message joins the local queue; nothing waits for the broker.
Enqueue(c, m) ==
    /\ Len(queue[c]) < QueueMax
    /\ queue' = [queue EXCEPT ![c] = Append(@, m)]
    /\ produced' = produced \cup {m}
    /\ UNCHANGED delivered

\* The current handler is done with the message: the next one, or the commit.
NextHandler(c) ==
    /\ settled' = settled \cup {<<hand[c][1], hand[c][2], handler[c]>>}
    /\ IF handler[c] < NumHandlers
       THEN /\ handler' = [handler EXCEPT ![c] = @ + 1]
            /\ attempt' = [attempt EXCEPT ![c] = 1]
            /\ UNCHANGED pc
       ELSE /\ pc' = [pc EXCEPT ![c] = "commit"]
            /\ UNCHANGED <<handler, attempt>>
    /\ UNCHANGED hand

AttemptsLeftOffByOne(c) == attempt[c] <= MaxRetries \* mutant
AttemptsLeft(c) == attempt[c] < MaxRetries

\* The handler returns, having published the next stage's event or nothing.
HandlerReturns(c) ==
    /\ pc[c] = "handle"
    /\ Enqueue(c, Out(hand[c])) \/ UNCHANGED producerVars
    /\ NextHandler(c)
    /\ UNCHANGED <<logVars, groupVars, budget>>

\* The handler raises, before or after it published, with attempts left.
HandlerRaises(c) ==
    /\ pc[c] = "handle" /\ AttemptsLeft(c)
    /\ Spend("raise")
    /\ Enqueue(c, Out(hand[c])) \/ UNCHANGED producerVars
    /\ attempt' = [attempt EXCEPT ![c] = @ + 1]
    /\ UNCHANGED <<logVars, groupVars, pc, hand, handler, settled>>

\* The handler's own produce raises BufferError on a full queue.
HandlerOverflows(c) ==
    /\ pc[c] = "handle" /\ AttemptsLeft(c)
    /\ Len(queue[c]) = QueueMax
    /\ attempt' = [attempt EXCEPT ![c] = @ + 1]
    /\ UNCHANGED <<logVars, groupVars, pc, hand, handler, producerVars, settled, budget>>

\* Lines 83-87, the last attempt: the event goes to the dead-letter topic.
DeadLetter(c) ==
    /\ pc[c] = "handle" /\ ~AttemptsLeft(c)
    /\ Enqueue(c, Dlq(hand[c]))
    /\ NextHandler(c)
    /\ UNCHANGED <<logVars, groupVars, budget>>

\* The dead-letter produce itself raises on a full queue, out of _dispatch.
DeadLetterOverflows(c) ==
    /\ pc[c] = "handle" /\ ~AttemptsLeft(c)
    /\ Len(queue[c]) = QueueMax
    /\ StopThread(c)
    /\ UNCHANGED <<logVars, position, producerVars, settled, budget>>

CommitUnfenced(c) == \* mutant: nobody asks whether this is still the owner
    /\ pc[c] = "commit"
    /\ committed' = [committed EXCEPT ![hand[c][1]] = hand[c][2]]
    /\ pc' = [pc EXCEPT ![c] = "poll"]
    /\ UNCHANGED <<log, groupVars, hand, handler, attempt, producerVars, settled, budget>>

\* Line 69: the offset after the message in hand, if this is still the owner.
Commit(c) ==
    /\ pc[c] = "commit" /\ Owns(c, hand[c][1])
    /\ committed' = [committed EXCEPT ![hand[c][1]] = hand[c][2]]
    /\ pc' = [pc EXCEPT ![c] = "poll"]
    /\ UNCHANGED <<log, groupVars, hand, handler, attempt, producerVars, settled, budget>>

\* The broker fences a commit from an older generation; the exception leaves run().
CommitFenced(c) ==
    /\ pc[c] = "commit" /\ ~Owns(c, hand[c][1])
    /\ StopThread(c)
    /\ UNCHANGED <<logVars, position, producerVars, settled, budget>>

-----------------------------------------------------------------------------
\* The client library sends the oldest queued message in the background.
Deliver(c) ==
    /\ queue[c] # <<>>
    /\ delivered' = delivered \cup {Head(queue[c])}
    /\ queue' = [queue EXCEPT ![c] = Tail(@)]
    /\ UNCHANGED <<logVars, groupVars, threadVars, produced, settled, budget>>

\* message.timeout.ms passes; no delivery callback is installed.
Drop(c) ==
    /\ queue[c] # <<>>
    /\ Spend("drop")
    /\ queue' = [queue EXCEPT ![c] = Tail(@)]
    /\ UNCHANGED <<logVars, groupVars, threadVars, delivered, produced, settled>>

\* The process dies with its queue and is started again.
Crash(c) ==
    /\ Spend("crash")
    /\ queue' = [queue EXCEPT ![c] = <<>>]
    /\ pc' = [pc EXCEPT ![c] = "poll"]
    /\ Leave(c)
    /\ UNCHANGED <<logVars, position, hand, handler, attempt, delivered, produced, settled>>

-----------------------------------------------------------------------------
ThreadStep(c) ==
    \/ \E p \in Partition : Poll(c, p) \/ PollUndecodable(c, p)
    \/ HandlerReturns(c)
    \/ HandlerRaises(c)
    \/ HandlerOverflows(c)
    \/ DeadLetter(c)
    \/ DeadLetterOverflows(c)
    \/ Commit(c)
    \/ CommitFenced(c)

Next ==
    \/ \E p \in Partition, kind \in MsgKind : Arrive(p, kind)
    \/ Rebalance
    \/ \E c \in Consumer : \/ ThreadStep(c)
                           \/ Deliver(c)
                           \/ Evict(c)
                           \/ Drop(c)
                           \/ Crash(c)

Spec == Init /\ [][Next]_vars

\* Threads run, the coordinator completes its generations, the broker is reachable;
\* nothing obliges a handler to raise, a message to arrive or a process to restart.
FairSpec ==
    /\ Spec
    /\ WF_vars(Rebalance)
    /\ \A c \in Consumer : WF_vars(ThreadStep(c)) /\ WF_vars(Deliver(c))

-----------------------------------------------------------------------------
TypeOK ==
    /\ log \in [Partition -> Seq(MsgKind)]
    /\ committed \in [Partition -> Nat]
    /\ members \subseteq Consumer
    /\ owner \in [Partition -> Consumer \cup {None}]
    /\ position \in [Partition -> Nat]
    /\ pc \in [Consumer -> {"poll", "handle", "commit", "stopped"}]
    /\ hand \in [Consumer -> (Partition \X Index) \cup {<<None, 0>>}]
    /\ handler \in [Consumer -> Handlers]
    /\ attempt \in [Consumer -> 1..MaxRetries]
    /\ queue \in [Consumer -> Seq(OutMsg)]
    /\ delivered \subseteq OutMsg
    /\ produced \subseteq OutMsg
    /\ settled \subseteq Partition \X Index \X Handlers
    /\ budget \in [{"raise", "evict", "drop", "crash"} -> Nat]

Settled(p, k) == \A h \in Handlers : <<p, k, h>> \in settled

(***************************************************************************)
(* "Offsets commit after the handler returns (at-least-once); failures     *)
(* route to the topic's DLQ": below a committed offset every handler has   *)
(* finished with every message or dead-lettered it, across rebalances,     *)
(* evictions and crashes.                                                  *)
(***************************************************************************)
CommittedIsSettled ==
    \A p \in Partition : \A k \in 1..committed[p] : Settled(p, k)

(***************************************************************************)
(* Per-organisation order: no handler finishes a message of a partition    *)
(* before every earlier message of it was finished once.                   *)
(***************************************************************************)
SettledInOrder ==
    \A s \in settled : \A j \in 1..(s[2] - 1) : Settled(s[1], j)

(***************************************************************************)
(* A commit that is late, from a consumer that lost the partition, never   *)
(* moves the group's offset backwards or over an unread message.           *)
(***************************************************************************)
OffsetStepsByOne ==
    [][\A p \in Partition : committed'[p] \in {committed[p], committed[p] + 1}]_vars

\* Downstream messages that nobody will send any more: not delivered, in no queue,
\* and their cause is behind the committed offset.
Lost ==
    {m \in produced \ delivered :
        /\ m[3] <= committed[m[2]]
        /\ \A c \in Consumer : \A i \in DOMAIN queue[c] : queue[c][i] # m}

(***************************************************************************)
(* "Each consumer commits offsets only after a successful produce to the   *)
(* next topic, giving at-least-once delivery": what a committed message    *)
(* produced downstream reached the broker or is still on its way.          *)
(***************************************************************************)
NothingLost == Lost = {}

(***************************************************************************)
(* A message that decodes is eventually committed, whatever its handler    *)
(* does, while a consumer thread of the group is alive.                    *)
(***************************************************************************)
Progress ==
    \A p \in Partition : \A k \in 1..MaxMessages :
        Len(log[p]) >= k ~> (committed[p] >= k \/ \A c \in Consumer : Stopped(c))

(***************************************************************************)
(* "After N retries a message goes to <topic>.dlq with the error attached; *)
(* it never blocks its partition": every message is eventually committed.  *)
(***************************************************************************)
NeverBlocked ==
    \A p \in Partition : \A k \in 1..MaxMessages :
        Len(log[p]) >= k ~> committed[p] >= k

\* The bus keeps what a consumer relies on: see AtLeastOnce.
SettledSet == [p \in Partition |-> {k \in 1..Len(log[p]) : Settled(p, k)}]
Promise == INSTANCE AtLeastOnce WITH
    arrived <- [p \in Partition |-> Len(log[p])],
    settled <- SettledSet,
    acked <- committed
ImplementsAtLeastOnce == Promise!Spec
=============================================================================
