------------------------------ MODULE KafkaProofs ------------------------------
(***************************************************************************)
(* At-least-once consumption over KafkaBus, for every number of            *)
(* partitions, consumers, handlers and retries, every bound and every      *)
(* schedule of rebalances, evictions and crashes, proved with TLAPS.       *)
(***************************************************************************)
EXTENDS KafkaBus, TLAPS

\* The types the safety argument reads.
Typed ==
    /\ log \in [Partition -> Seq(MsgKind)]
    /\ committed \in [Partition -> Nat]
    /\ owner \in [Partition -> Consumer \cup {None}]
    /\ position \in [Partition -> Nat]
    /\ pc \in [Consumer -> {"poll", "handle", "commit", "stopped"}]
    /\ hand \in [Consumer -> (Partition \X Index) \cup {<<None, 0>>}]
    /\ handler \in [Consumer -> Handlers]
    /\ settled \subseteq Partition \X Index \X Handlers

\* What is in the hand of a working consumer: a message of the log all of whose
\* predecessors are settled, with the handlers before the current one done.
HandReady(c) ==
    /\ hand[c] \in Partition \X Index
    /\ hand[c][2] <= Len(log[hand[c][1]])
    /\ \A j \in 1..(hand[c][2] - 1) : Settled(hand[c][1], j)
    /\ pc[c] = "handle" =>
         \A h \in 1..(handler[c] - 1) : <<hand[c][1], hand[c][2], h>> \in settled
    /\ pc[c] = "commit" => Settled(hand[c][1], hand[c][2])

\* The owner of a partition has fetched nothing beyond the committed offset, except
\* the message in its hand.
OwnerInStep(p) ==
    LET c == owner[p] IN
    IF Working(c) /\ hand[c][1] = p
    THEN hand[c][2] = committed[p] + 1 /\ position[p] = committed[p] + 1
    ELSE position[p] = committed[p]

BusInv ==
    /\ Typed
    /\ CommittedIsSettled
    /\ SettledInOrder
    /\ \A c \in Consumer : Working(c) => HandReady(c)
    /\ \A p \in Partition : owner[p] \in Consumer => OwnerInStep(p) /\ ~Stopped(owner[p])
    /\ \A p \in Partition : committed[p] <= Len(log[p])

coreVars == <<log, committed, owner, position, pc, hand, handler, settled>>

LEMMA InvInit == Init => BusInv
<1> SUFFICES ASSUME Init PROVE BusInv
  OBVIOUS
<1>1. Typed
  BY BusAssumption DEF Init, Typed, Handlers
<1>2. \A c \in Consumer : ~Working(c)
  BY DEF Init, Working
<1>3. \A p \in Partition : owner[p] \notin Consumer /\ committed[p] = 0
  BY BusAssumption DEF Init
<1>4. settled = {}
  BY DEF Init
<1>5. CommittedIsSettled /\ SettledInOrder
  BY <1>3, <1>4 DEF CommittedIsSettled, SettledInOrder
<1>6. QED
  BY <1>1, <1>2, <1>3, <1>5 DEF BusInv, Typed

LEMMA InvStutter == BusInv /\ UNCHANGED coreVars => BusInv'
BY DEF coreVars, BusInv, Typed, CommittedIsSettled, SettledInOrder, HandReady,
       OwnerInStep, Working, Stopped, Settled

\* A longer log disturbs nothing.
LEMMA InvArrive ==
    ASSUME BusInv, NEW p \in Partition, NEW kind \in MsgKind, Arrive(p, kind)
    PROVE  BusInv'
<1>1. /\ UNCHANGED <<committed, owner, position, pc, hand, handler, settled>>
      /\ log' = [log EXCEPT ![p] = Append(@, kind)]
  BY DEF Arrive, groupVars, threadVars
<1>2. /\ log' \in [Partition -> Seq(MsgKind)]
      /\ \A q \in Partition : Len(log[q]) \in Nat /\ Len(log'[q]) \in Nat
      /\ \A q \in Partition : Len(log[q]) <= Len(log'[q])
  BY <1>1 DEF BusInv, Typed
<1>3. Typed'
  BY <1>1, <1>2 DEF BusInv, Typed
<1>4. ASSUME NEW c \in Consumer, Working(c)' PROVE HandReady(c)'
  <2>1. HandReady(c)
    BY <1>1, <1>4 DEF BusInv, Working
  <2>2. hand[c][1] \in Partition /\ hand[c][2] \in Nat
    BY <2>1 DEF HandReady, Index
  <2>3. hand[c][2] <= Len(log'[hand[c][1]])
    BY <1>2, <2>1, <2>2 DEF HandReady
  <2>4. QED
    BY <1>1, <2>1, <2>3 DEF HandReady, Settled
<1>5. \A q \in Partition : committed'[q] <= Len(log'[q])
  BY <1>1, <1>2 DEF BusInv, Typed
<1>6. QED
  BY <1>1, <1>3, <1>4, <1>5
     DEF BusInv, CommittedIsSettled, SettledInOrder, OwnerInStep, Working, Stopped, Settled

\* A new generation starts from the committed offsets and holds no message.
LEMMA InvRebalance == BusInv /\ Rebalance => BusInv'
<1> SUFFICES ASSUME BusInv, Rebalance PROVE BusInv'
  OBVIOUS
<1>1. /\ UNCHANGED <<log, committed, pc, hand, handler, settled>>
      /\ owner' \in [Partition -> {c \in Consumer : pc[c] = "poll"}]
      /\ position' = committed
  BY DEF Rebalance, logVars, threadVars
<1>2. Typed'
  BY <1>1 DEF BusInv, Typed
<1>3. \A p \in Partition : OwnerInStep(p)' /\ ~Stopped(owner[p])'
  BY <1>1 DEF OwnerInStep, Working, Stopped
<1>4. QED
  BY <1>1, <1>2, <1>3
     DEF BusInv, CommittedIsSettled, SettledInOrder, HandReady, Working, Settled

\* A consumer that loses its partitions, and possibly its thread or its process.
LEMMA InvLeave ==
    ASSUME BusInv, NEW c \in Consumer, Leave(c),
           UNCHANGED <<log, committed, hand, handler, settled>>,
           pc' \in {pc, [pc EXCEPT ![c] = "stopped"], [pc EXCEPT ![c] = "poll"]},
           position' \in [Partition -> Nat],
           \A p \in Partition : ~Owns(c, p) => position'[p] = position[p]
    PROVE  BusInv'
<1>1. owner' = [p \in Partition |-> IF owner[p] = c THEN None ELSE owner[p]]
  BY DEF Leave, Owns
<1>2. /\ pc' \in [Consumer -> {"poll", "handle", "commit", "stopped"}]
      /\ \A d \in Consumer : d # c => pc'[d] = pc[d]
      /\ Working(c)' => pc'[c] = pc[c]
  BY DEF BusInv, Typed, Working
<1>3. Typed'
  BY <1>1, <1>2 DEF BusInv, Typed
<1>4. ASSUME NEW d \in Consumer, Working(d)' PROVE HandReady(d)'
  <2>1. pc'[d] = pc[d]
    BY <1>2, <1>4
  <2>2. HandReady(d)
    BY <1>4, <2>1 DEF BusInv, Working
  <2>3. QED
    BY <2>1, <2>2 DEF HandReady, Settled
<1>5. ASSUME NEW p \in Partition, owner'[p] \in Consumer
      PROVE  OwnerInStep(p)' /\ ~Stopped(owner[p])'
  <2>1. owner'[p] = owner[p] /\ owner[p] # c
    BY <1>1, <1>5, BusAssumption
  <2>2. OwnerInStep(p) /\ ~Stopped(owner[p])
    BY <1>5, <2>1 DEF BusInv
  <2>3. position'[p] = position[p] /\ pc'[owner[p]] = pc[owner[p]]
    BY <1>2, <1>5, <2>1 DEF Owns
  <2>4. QED
    BY <2>1, <2>2, <2>3 DEF OwnerInStep, Working, Stopped
<1>6. QED
  BY <1>3, <1>4, <1>5 DEF BusInv, CommittedIsSettled, SettledInOrder, Settled

\* The owner takes the first uncommitted message into its hand.
LEMMA InvPoll ==
    ASSUME BusInv, NEW c \in Consumer, NEW p \in Partition, Poll(c, p)
    PROVE  BusInv'
<1>1. /\ pc[c] = "poll" /\ owner[p] = c /\ position[p] < Len(log[p])
      /\ UNCHANGED <<log, committed, owner, settled>>
      /\ position' = [position EXCEPT ![p] = @ + 1]
      /\ pc' = [pc EXCEPT ![c] = "handle"]
      /\ hand' = [hand EXCEPT ![c] = <<p, position[p] + 1>>]
      /\ handler' = [handler EXCEPT ![c] = 1]
  BY DEF Poll, Fetch, Owns, logVars
<1>2. position[p] = committed[p] /\ committed[p] \in Nat
  <2>1. OwnerInStep(p) /\ ~Working(c)
    BY <1>1 DEF BusInv, Working
  <2>2. QED
    BY <1>1, <2>1 DEF OwnerInStep, BusInv, Typed
<1>3. Typed'
  BY <1>1, <1>2, BusAssumption DEF BusInv, Typed, Index, Handlers
<1>4. ASSUME NEW d \in Consumer, Working(d)' PROVE HandReady(d)'
  <2>1. CASE d = c
    <3>1. /\ pc'[c] = "handle"
          /\ hand'[c] = <<p, committed[p] + 1>>
          /\ handler'[c] = 1
      BY <1>1, <1>2 DEF BusInv, Typed
    <3>2. \A j \in 1..committed[p] : Settled(p, j)
      BY DEF BusInv, CommittedIsSettled
    <3>3. hand'[c] \in Partition \X Index /\ committed[p] + 1 <= Len(log[p])
      BY <1>1, <1>2, <3>1 DEF BusInv, Typed, Index
    <3>4. QED
      BY <1>1, <1>2, <2>1, <3>1, <3>2, <3>3 DEF HandReady, Settled
  <2>2. CASE d # c
    <3>1. pc'[d] = pc[d] /\ hand'[d] = hand[d] /\ handler'[d] = handler[d]
      BY <1>1, <2>2 DEF BusInv, Typed
    <3>2. HandReady(d)
      BY <1>4, <3>1 DEF BusInv, Working
    <3>3. QED
      BY <1>1, <3>1, <3>2 DEF HandReady, Settled
  <2>3. QED
    BY <2>1, <2>2
<1>5. ASSUME NEW q \in Partition, owner'[q] \in Consumer
      PROVE  OwnerInStep(q)' /\ ~Stopped(owner[q])'
  <2>1. OwnerInStep(q) /\ ~Stopped(owner[q]) /\ owner'[q] = owner[q]
    BY <1>1, <1>5 DEF BusInv
  <2>2. CASE q = p
    BY <1>1, <1>2, <2>2 DEF OwnerInStep, Stopped, Working, BusInv, Typed
  <2>3. CASE q # p /\ owner[q] = c
    BY <1>1, <2>1, <2>3 DEF OwnerInStep, Stopped, Working, BusInv, Typed
  <2>4. CASE q # p /\ owner[q] # c
    <3>1. pc'[owner[q]] = pc[owner[q]] /\ hand'[owner[q]] = hand[owner[q]]
          /\ position'[q] = position[q]
      BY <1>1, <1>5, <2>1, <2>4 DEF BusInv, Typed
    <3>2. QED
      BY <1>1, <2>1, <3>1 DEF OwnerInStep, Stopped, Working
  <2>5. QED
    BY <2>2, <2>3, <2>4
<1>6. QED
  BY <1>1, <1>3, <1>4, <1>5 DEF BusInv, CommittedIsSettled, SettledInOrder, Settled

\* A handler is done with the message in hand, by success or by dead letter.
LEMMA InvNextHandler ==
    ASSUME BusInv, NEW c \in Consumer, pc[c] = "handle", NextHandler(c),
           UNCHANGED <<log, committed, owner, position>>
    PROVE  BusInv'
<1> DEFINE p == hand[c][1]
           k == hand[c][2]
<1>1. /\ settled' = settled \cup {<<p, k, handler[c]>>}
      /\ hand' = hand
      /\ HandReady(c)
  BY DEF NextHandler, BusInv, Working
<1>2. p \in Partition /\ k \in Index /\ handler[c] \in Handlers
  BY <1>1 DEF HandReady, BusInv, Typed
<1>3. /\ pc' \in [Consumer -> {"poll", "handle", "commit", "stopped"}]
      /\ handler' \in [Consumer -> Handlers]
      /\ \A d \in Consumer : d # c => pc'[d] = pc[d] /\ handler'[d] = handler[d]
      /\ \/ /\ handler[c] < NumHandlers
            /\ pc'[c] = "handle" /\ handler'[c] = handler[c] + 1
         \/ /\ handler[c] = NumHandlers
            /\ pc'[c] = "commit"
  <2>1. /\ pc \in [Consumer -> {"poll", "handle", "commit", "stopped"}]
        /\ handler \in [Consumer -> Handlers]
    BY DEF BusInv, Typed
  <2>2. CASE /\ handler[c] < NumHandlers
             /\ handler' = [handler EXCEPT ![c] = @ + 1]
             /\ UNCHANGED pc
    <3>1. handler[c] + 1 \in Handlers
      BY <1>2, <2>2, BusAssumption DEF Handlers
    <3>2. QED
      BY <2>1, <2>2, <3>1
  <2>3. CASE /\ ~(handler[c] < NumHandlers)
             /\ pc' = [pc EXCEPT ![c] = "commit"]
             /\ UNCHANGED handler
    <3>1. handler[c] = NumHandlers
      BY <1>2, <2>3, BusAssumption DEF Handlers
    <3>2. QED
      BY <2>1, <2>3, <3>1
  <2>4. QED
    BY <2>2, <2>3 DEF NextHandler
<1>4. Typed'
  BY <1>1, <1>2, <1>3 DEF BusInv, Typed
<1>5. \A q, j : Settled(q, j) => Settled(q, j)'
  BY <1>1 DEF Settled
<1>6. SettledInOrder'
  <2> SUFFICES ASSUME NEW s \in settled', NEW j \in 1..(s[2] - 1)
               PROVE  Settled(s[1], j)'
    BY DEF SettledInOrder, Settled
  <2>1. CASE s \in settled
    BY <1>5, <2>1 DEF BusInv, SettledInOrder
  <2>2. CASE s = <<p, k, handler[c]>>
    BY <1>1, <1>5, <2>2 DEF HandReady
  <2>3. QED
    BY <1>1, <2>1, <2>2
<1>7. ASSUME NEW d \in Consumer, Working(d)' PROVE HandReady(d)'
  <2>1. CASE d # c
    <3>1. HandReady(d) /\ pc'[d] = pc[d] /\ handler'[d] = handler[d]
      BY <1>3, <1>7, <2>1 DEF BusInv, Working
    <3>2. QED
      BY <1>1, <1>5, <3>1 DEF HandReady
  <2>2. CASE d = c
    <3>1. \A h \in 1..handler[c] : <<p, k, h>> \in settled'
      BY <1>1, <1>2 DEF HandReady, Handlers
    <3>2. pc'[c] = "handle" => \A h \in 1..(handler'[c] - 1) : <<p, k, h>> \in settled'
      <4> SUFFICES ASSUME pc'[c] = "handle"
                   PROVE  handler'[c] - 1 = handler[c]
        BY <3>1
      <4>1. handler'[c] = handler[c] + 1 /\ handler[c] \in Nat
        BY <1>2, <1>3 DEF Handlers
      <4>2. QED
        BY <4>1
    <3>3. pc'[c] = "commit" => Settled(p, k)'
      BY <1>1, <1>3, <3>1 DEF Settled, Handlers
    <3>4. \A j \in 1..(k - 1) : Settled(p, j)'
      BY <1>1, <1>5 DEF HandReady
    <3>5. QED
      BY <1>1, <2>2, <3>2, <3>3, <3>4 DEF HandReady
  <2>3. QED
    BY <2>1, <2>2
<1>8. CommittedIsSettled'
  BY <1>5 DEF BusInv, CommittedIsSettled
<1>9. ASSUME NEW q \in Partition, owner'[q] \in Consumer
      PROVE  OwnerInStep(q)' /\ ~Stopped(owner[q])'
  <2>1. OwnerInStep(q) /\ ~Stopped(owner[q])
    BY <1>9 DEF BusInv
  <2>2. Working(owner[q])' = Working(owner[q]) /\ ~Stopped(owner[q])'
    BY <1>3, <1>9, <2>1 DEF Working, Stopped
  <2>3. QED
    BY <1>1, <2>1, <2>2 DEF OwnerInStep
<1>10. QED
  BY <1>4, <1>6, <1>7, <1>8, <1>9 DEF BusInv

\* The owner commits the message in its hand, which follows the committed offset.
LEMMA InvCommit ==
    ASSUME BusInv, NEW c \in Consumer, Commit(c)
    PROVE  /\ BusInv'
           /\ hand[c][1] \in Partition
           /\ committed' = [committed EXCEPT ![hand[c][1]] = @ + 1]
           /\ Settled(hand[c][1], committed[hand[c][1]] + 1)
           /\ committed[hand[c][1]] + 1 <= Len(log[hand[c][1]])
<1> DEFINE p == hand[c][1]
           k == hand[c][2]
<1>1. /\ pc[c] = "commit" /\ owner[p] = c
      /\ UNCHANGED <<log, owner, position, hand, handler, settled>>
      /\ committed' = [committed EXCEPT ![p] = k]
      /\ pc' = [pc EXCEPT ![c] = "poll"]
  BY DEF Commit, Owns, groupVars
<1>2. HandReady(c) /\ p \in Partition /\ k \in Index
  BY <1>1 DEF BusInv, Working, HandReady
<1>3. k = committed[p] + 1 /\ position[p] = committed[p] + 1 /\ committed[p] \in Nat
  BY <1>1, <1>2 DEF BusInv, OwnerInStep, Working, Typed
<1>4. Typed'
  BY <1>1, <1>2 DEF BusInv, Typed, Index
<1>5. Settled(p, k) /\ k <= Len(log[p])
  BY <1>1, <1>2 DEF HandReady
<1>6. CommittedIsSettled'
  <2> SUFFICES ASSUME NEW q \in Partition, NEW j \in 1..committed'[q]
               PROVE  Settled(q, j)'
    BY DEF CommittedIsSettled
  <2>1. CASE q = p /\ j = k
    BY <1>1, <1>5, <2>1 DEF Settled
  <2>2. CASE q # p \/ j # k
    <3>1. j \in 1..committed[q]
      BY <1>1, <1>2, <1>3, <2>2 DEF BusInv, Typed
    <3>2. QED
      BY <1>1, <3>1 DEF BusInv, CommittedIsSettled, Settled
  <2>3. QED
    BY <2>1, <2>2
<1>7. ASSUME NEW d \in Consumer, Working(d)' PROVE HandReady(d)'
  <2>1. d # c /\ pc'[d] = pc[d]
    BY <1>1, <1>7 DEF Working, BusInv, Typed
  <2>2. HandReady(d)
    BY <1>7, <2>1 DEF BusInv, Working
  <2>3. QED
    BY <1>1, <2>1, <2>2 DEF HandReady, Settled
<1>8. ASSUME NEW q \in Partition, owner'[q] \in Consumer
      PROVE  OwnerInStep(q)' /\ ~Stopped(owner[q])'
  <2>1. OwnerInStep(q) /\ ~Stopped(owner[q])
    BY <1>1, <1>8 DEF BusInv
  <2>2. CASE q = p
    BY <1>1, <1>2, <1>3, <2>2 DEF OwnerInStep, Working, Stopped, BusInv, Typed
  <2>3. CASE q # p /\ owner[q] = c
    BY <1>1, <1>2, <2>1, <2>3 DEF OwnerInStep, Working, Stopped, BusInv, Typed
  <2>4. CASE q # p /\ owner[q] # c
    <3>1. pc'[owner[q]] = pc[owner[q]] /\ committed'[q] = committed[q]
      BY <1>1, <1>2, <1>8, <2>4 DEF BusInv, Typed
    <3>2. QED
      BY <1>1, <2>1, <3>1 DEF OwnerInStep, Working, Stopped
  <2>5. QED
    BY <2>2, <2>3, <2>4
<1>9. \A q \in Partition : committed'[q] <= Len(log'[q])
  BY <1>1, <1>5 DEF BusInv, Typed
<1>10. SettledInOrder'
  BY <1>1 DEF BusInv, SettledInOrder, Settled
<1>11. QED
  BY <1>1, <1>2, <1>3, <1>4, <1>5, <1>6, <1>7, <1>8, <1>9, <1>10 DEF BusInv

\* Every step of the group keeps the invariant.
LEMMA InvStep == BusInv /\ [Next]_vars => BusInv'
<1> SUFFICES ASSUME BusInv, [Next]_vars PROVE BusInv'
  OBVIOUS
<1>1. ASSUME NEW p \in Partition, NEW kind \in MsgKind, Arrive(p, kind) PROVE BusInv'
  BY <1>1, InvArrive
<1>2. CASE Rebalance
  BY <1>2, InvRebalance
<1>3. ASSUME NEW c \in Consumer, NEW p \in Partition, Poll(c, p) PROVE BusInv'
  BY <1>3, InvPoll
<1>4. ASSUME NEW c \in Consumer, NEW p \in Partition, PollUndecodable(c, p) PROVE BusInv'
  <2>1. /\ owner[p] = c
        /\ position' = [position EXCEPT ![p] = @ + 1]
        /\ pc' = [pc EXCEPT ![c] = "stopped"]
        /\ Leave(c)
        /\ UNCHANGED <<log, committed, hand, handler, settled>>
    BY <1>4 DEF PollUndecodable, Fetch, Owns, StopThread, logVars
  <2>2. position' \in [Partition -> Nat]
    BY <2>1 DEF BusInv, Typed
  <2>3. \A q \in Partition : ~Owns(c, q) => position'[q] = position[q]
    BY <2>1 DEF Owns, BusInv, Typed
  <2>4. QED
    BY <2>1, <2>2, <2>3, InvLeave
<1>5. ASSUME NEW c \in Consumer, HandlerReturns(c) \/ DeadLetter(c) PROVE BusInv'
  <2>1. /\ pc[c] = "handle" /\ NextHandler(c)
        /\ UNCHANGED <<log, committed, owner, position>>
    BY <1>5 DEF HandlerReturns, DeadLetter, logVars, groupVars
  <2>2. QED
    BY <2>1, InvNextHandler
<1>6. ASSUME NEW c \in Consumer, HandlerRaises(c) \/ HandlerOverflows(c) PROVE BusInv'
  BY <1>6, InvStutter DEF HandlerRaises, HandlerOverflows, coreVars, logVars, groupVars
<1>7. ASSUME NEW c \in Consumer,
             DeadLetterOverflows(c) \/ CommitFenced(c) \/ Evict(c) \/ Crash(c)
      PROVE  BusInv'
  <2>1. /\ Leave(c)
        /\ UNCHANGED <<log, committed, hand, handler, settled, position>>
        /\ pc' \in {pc, [pc EXCEPT ![c] = "stopped"], [pc EXCEPT ![c] = "poll"]}
    BY <1>7 DEF DeadLetterOverflows, CommitFenced, Evict, Crash, StopThread, logVars, threadVars
  <2>2. position' \in [Partition -> Nat]
    BY <2>1 DEF BusInv, Typed
  <2>3. QED
    BY <2>1, <2>2, InvLeave
<1>8. ASSUME NEW c \in Consumer, Commit(c) PROVE BusInv'
  BY <1>8, InvCommit
<1>9. ASSUME NEW c \in Consumer, Deliver(c) \/ Drop(c) PROVE BusInv'
  BY <1>9, InvStutter DEF Deliver, Drop, coreVars, logVars, groupVars, threadVars
<1>10. CASE UNCHANGED vars
  BY <1>10, InvStutter DEF vars, coreVars, logVars, groupVars, threadVars
<1>11. QED
  BY <1>1, <1>2, <1>3, <1>4, <1>5, <1>6, <1>7, <1>8, <1>9, <1>10 DEF Next, ThreadStep

LEMMA InvCorrect == Spec => []BusInv
BY InvInit, InvStep, PTL DEF Spec

(***************************************************************************)
(* Nothing below a committed offset was skipped: every handler finished    *)
(* with it or it was dead-lettered, however the group was rebalanced.      *)
(***************************************************************************)
THEOREM CommittedMeansSettled == Spec => []CommittedIsSettled
BY InvCorrect, PTL DEF BusInv

(***************************************************************************)
(* Within a partition, hence within an organisation, messages are finished *)
(* in the order they were published.                                       *)
(***************************************************************************)
THEOREM OrderPerPartition == Spec => []SettledInOrder
BY InvCorrect, PTL DEF BusInv

-----------------------------------------------------------------------------
\* Everything but an owner's commit leaves the committed offsets alone.
LEMMA CommitOrKeep ==
    [Next]_vars => UNCHANGED committed \/ \E c \in Consumer : Commit(c)
<1> SUFFICES ASSUME [Next]_vars, ~ \E c \in Consumer : Commit(c)
             PROVE  UNCHANGED committed
  OBVIOUS
<1>1. ASSUME NEW p \in Partition, NEW kind \in MsgKind, Arrive(p, kind)
      PROVE  UNCHANGED committed
  BY <1>1 DEF Arrive
<1>2. CASE Rebalance
  BY <1>2 DEF Rebalance, logVars
<1>3. ASSUME NEW c \in Consumer, ThreadStep(c) PROVE UNCHANGED committed
  BY <1>3 DEF ThreadStep, Poll, PollUndecodable, HandlerReturns, HandlerRaises,
     HandlerOverflows, DeadLetter, DeadLetterOverflows, CommitFenced, logVars
<1>4. ASSUME NEW c \in Consumer, Deliver(c) \/ Evict(c) \/ Drop(c) \/ Crash(c)
      PROVE  UNCHANGED committed
  BY <1>4 DEF Deliver, Evict, Drop, Crash, logVars
<1>5. CASE UNCHANGED vars
  BY <1>5 DEF vars, logVars
<1>6. QED
  BY <1>1, <1>2, <1>3, <1>4, <1>5 DEF Next

(***************************************************************************)
(* However late a commit comes, it advances the group by the one message   *)
(* that follows the committed offset: an offset never goes back, and never *)
(* passes over a message.                                                  *)
(***************************************************************************)
THEOREM CommitsAreFenced == Spec => OffsetStepsByOne
<1>1. ASSUME BusInv, [Next]_vars
      PROVE  \A p \in Partition : committed'[p] \in {committed[p], committed[p] + 1}
  <2>1. CASE UNCHANGED committed
    BY <2>1
  <2>2. ASSUME NEW c \in Consumer, Commit(c)
        PROVE  \A p \in Partition : committed'[p] \in {committed[p], committed[p] + 1}
    <3>1. committed' = [committed EXCEPT ![hand[c][1]] = @ + 1]
      BY <1>1, <2>2, InvCommit
    <3>2. committed \in [Partition -> Nat]
      BY <1>1 DEF BusInv, Typed
    <3>3. QED
      BY <3>1, <3>2
  <2>3. QED
    BY <1>1, <2>1, <2>2, CommitOrKeep
<1>2. QED
  BY <1>1, InvCorrect, PTL DEF Spec, OffsetStepsByOne

-----------------------------------------------------------------------------
(* The bus implements AtLeastOnce.  The abstract bus counts the settled    *)
(* messages that exist, so the mapping needs that only messages of the log *)
(* are ever settled.                                                       *)
SettledExists == \A s \in settled : s[2] <= Len(log[s[1]])

\* What a step does to the three variables the promise reads.
LEMMA StepShape ==
    ASSUME BusInv, [Next]_vars
    PROVE  \/ UNCHANGED <<log, committed, settled>>
           \/ \E p \in Partition, kind \in MsgKind :
                 /\ log' = [log EXCEPT ![p] = Append(@, kind)]
                 /\ UNCHANGED <<committed, settled>>
           \/ \E c \in Consumer :
                 /\ pc[c] = "handle"
                 /\ settled' = settled \cup {<<hand[c][1], hand[c][2], handler[c]>>}
                 /\ UNCHANGED <<log, committed, hand>>
           \/ \E c \in Consumer : Commit(c)
<1>1. ASSUME NEW p \in Partition, NEW kind \in MsgKind, Arrive(p, kind)
      PROVE  /\ log' = [log EXCEPT ![p] = Append(@, kind)]
             /\ UNCHANGED <<committed, settled>>
  BY <1>1 DEF Arrive
<1>2. CASE Rebalance \/ UNCHANGED vars
  BY <1>2 DEF Rebalance, vars, logVars
<1>3. ASSUME NEW c \in Consumer, NEW p \in Partition, Poll(c, p) \/ PollUndecodable(c, p)
      PROVE  UNCHANGED <<log, committed, settled>>
  BY <1>3 DEF Poll, PollUndecodable, logVars
<1>4. ASSUME NEW c \in Consumer, HandlerReturns(c) \/ DeadLetter(c)
      PROVE  /\ pc[c] = "handle"
             /\ settled' = settled \cup {<<hand[c][1], hand[c][2], handler[c]>>}
             /\ UNCHANGED <<log, committed, hand>>
  BY <1>4 DEF HandlerReturns, DeadLetter, NextHandler, logVars
<1>5. ASSUME NEW c \in Consumer,
             \/ HandlerRaises(c) \/ HandlerOverflows(c) \/ DeadLetterOverflows(c)
             \/ CommitFenced(c) \/ Deliver(c) \/ Evict(c) \/ Drop(c) \/ Crash(c)
      PROVE  UNCHANGED <<log, committed, settled>>
  BY <1>5 DEF HandlerRaises, HandlerOverflows, DeadLetterOverflows, CommitFenced,
     Deliver, Evict, Drop, Crash, logVars
<1>6. QED
  BY <1>1, <1>2, <1>3, <1>4, <1>5 DEF Next, ThreadStep

LEMMA SettledExistsCorrect == Spec => []SettledExists
<1>1. Init => SettledExists
  BY DEF Init, SettledExists
<1>2. ASSUME BusInv, SettledExists, [Next]_vars PROVE SettledExists'
  <2>1. /\ log \in [Partition -> Seq(MsgKind)]
        /\ settled \subseteq Partition \X Index \X Handlers
    BY <1>2 DEF BusInv, Typed
  <2>2. CASE UNCHANGED <<log, committed, settled>>
    BY <1>2, <2>2 DEF SettledExists
  <2>3. ASSUME NEW p \in Partition, NEW kind \in MsgKind,
               log' = [log EXCEPT ![p] = Append(@, kind)], UNCHANGED settled
        PROVE  SettledExists'
    <3>1. \A q \in Partition : Len(log[q]) \in Nat /\ Len(log[q]) <= Len(log'[q])
                               /\ Len(log'[q]) \in Nat
      BY <2>1, <2>3
    <3>2. QED
      BY <1>2, <2>1, <2>3, <3>1 DEF SettledExists, Index
  <2>4. ASSUME NEW c \in Consumer, pc[c] = "handle", UNCHANGED log,
               settled' = settled \cup {<<hand[c][1], hand[c][2], handler[c]>>}
        PROVE  SettledExists'
    <3>1. hand[c][2] <= Len(log[hand[c][1]])
      BY <1>2, <2>4 DEF BusInv, Working, HandReady
    <3>2. QED
      BY <1>2, <2>4, <3>1 DEF SettledExists
  <2>5. ASSUME NEW c \in Consumer, Commit(c) PROVE SettledExists'
    BY <1>2, <2>5 DEF Commit, SettledExists
  <2>6. QED
    BY <1>2, <2>2, <2>3, <2>4, <2>5, StepShape
<1>3. QED
  BY <1>1, <1>2, InvCorrect, PTL DEF Spec

Arrived == [p \in Partition |-> Len(log[p])]

\* The initial state is the promise's.
LEMMA PromiseInit == Init => Promise!Init
<1> SUFFICES ASSUME Init PROVE Promise!Init
  OBVIOUS
<1>1. \A p \in Partition : log[p] = <<>>
  BY DEF Init
<1>2. Arrived = [p \in Partition |-> 0]
  BY <1>1 DEF Arrived
<1>3. SettledSet = [p \in Partition |-> {}]
  BY <1>1 DEF SettledSet
<1>4. committed = [p \in Partition |-> 0]
  BY DEF Init
<1>5. QED
  BY <1>2, <1>3, <1>4 DEF Promise!Init, Arrived

\* A message arrives: the promise sees it arrive, unsettled.
LEMMA PromiseArrive ==
    ASSUME BusInv, SettledExists, NEW p \in Partition, NEW kind \in MsgKind,
           log' = [log EXCEPT ![p] = Append(@, kind)], UNCHANGED <<committed, settled>>
    PROVE  Promise!Arrive(p)
<1>1. /\ log \in [Partition -> Seq(MsgKind)]
      /\ \A q \in Partition : Len(log[q]) \in Nat
      /\ \A q \in Partition : Len(log'[q]) = IF q = p THEN Len(log[q]) + 1 ELSE Len(log[q])
  BY DEF BusInv, Typed
<1>2. Arrived' = [Arrived EXCEPT ![p] = @ + 1]
  BY <1>1 DEF Arrived
<1>3. ASSUME NEW q \in Partition
      PROVE  {k \in 1..Len(log'[q]) : Settled(q, k)'} = {k \in 1..Len(log[q]) : Settled(q, k)}
  <2>1. \A k : Settled(q, k)' <=> Settled(q, k)
    BY DEF Settled
  <2>2. \A k : Settled(q, k) => k <= Len(log[q])
    <3>1. 1 \in Handlers
      BY BusAssumption DEF Handlers
    <3>2. QED
      BY <3>1 DEF Settled, SettledExists
  <2>3. \A k \in Nat : k <= Len(log[q]) => k <= Len(log'[q])
    BY <1>1
  <2>4. \A k : Settled(q, k) => (k \in 1..Len(log'[q]) <=> k \in 1..Len(log[q]))
    BY <1>1, <2>2, <2>3
  <2>5. QED
    BY <2>1, <2>4
<1>4. SettledSet' = SettledSet
  BY <1>3 DEF SettledSet
<1>5. QED
  BY <1>2, <1>4 DEF Promise!Arrive, Arrived

\* A handler finishes: the last one settles the message, the others are invisible.
LEMMA PromiseSettle ==
    ASSUME BusInv, NEW c \in Consumer, pc[c] = "handle", UNCHANGED <<log, committed, hand>>,
           settled' = settled \cup {<<hand[c][1], hand[c][2], handler[c]>>}
    PROVE  \/ Promise!Settle(hand[c][1], hand[c][2])
           \/ UNCHANGED Promise!vars
<1> DEFINE p == hand[c][1]
           k == hand[c][2]
<1>1. HandReady(c)
  BY DEF BusInv, Working
<1>2. p \in Partition /\ k \in 1..Len(log[p]) /\ Len(log[p]) \in Nat
  BY <1>1 DEF HandReady, Index, BusInv, Typed
<1>3. UNCHANGED Arrived
  BY DEF Arrived
<1>4. \A q, j : <<q, j>> # <<p, k>> => (Settled(q, j)' <=> Settled(q, j))
  BY DEF Settled
<1>5. \A q \in Partition : q # p => SettledSet'[q] = SettledSet[q]
  BY <1>4 DEF SettledSet
<1>6. CASE Settled(p, k)' /\ ~Settled(p, k)
  <2>1. SettledSet'[p] = SettledSet[p] \cup {k}
    BY <1>2, <1>4, <1>6 DEF SettledSet
  <2>2. SettledSet' = [SettledSet EXCEPT ![p] = @ \cup {k}]
    BY <1>2, <1>5, <2>1 DEF SettledSet
  <2>3. 1..(k - 1) \subseteq SettledSet[p]
    BY <1>1, <1>2 DEF HandReady, SettledSet
  <2>4. QED
    BY <1>3, <2>2, <2>3 DEF Promise!Settle, Arrived
<1>7. CASE ~(Settled(p, k)' /\ ~Settled(p, k))
  <2>1. Settled(p, k)' <=> Settled(p, k)
    BY <1>7 DEF Settled
  <2>2. SettledSet'[p] = SettledSet[p]
    BY <1>2, <1>4, <2>1 DEF SettledSet
  <2>3. SettledSet' = SettledSet
    BY <1>5, <2>2 DEF SettledSet
  <2>4. QED
    BY <1>3, <2>3 DEF Promise!vars, Arrived
<1>8. QED
  BY <1>6, <1>7

\* The commit acknowledges the next message.
LEMMA PromiseAck ==
    ASSUME BusInv, NEW c \in Consumer, Commit(c)
    PROVE  hand[c][1] \in Partition /\ Promise!Ack(hand[c][1])
<1> DEFINE p == hand[c][1]
<1>1. /\ p \in Partition
      /\ committed' = [committed EXCEPT ![p] = @ + 1]
      /\ Settled(p, committed[p] + 1)
      /\ committed[p] + 1 <= Len(log[p])
  BY InvCommit
<1>2. committed[p] \in Nat /\ Len(log[p]) \in Nat
  BY <1>1 DEF BusInv, Typed
<1>3. committed[p] + 1 \in SettledSet[p]
  BY <1>1, <1>2 DEF SettledSet
<1>4. UNCHANGED <<log, settled>>
  BY DEF Commit
<1>5. UNCHANGED <<Arrived, SettledSet>>
  BY <1>4 DEF Arrived, SettledSet, Settled
<1>6. QED
  BY <1>1, <1>3, <1>5 DEF Promise!Ack, Arrived

(***************************************************************************)
(* The Kafka bus keeps the promise of AtLeastOnce: seen from its offsets   *)
(* and from what the handlers finished, every step of threads,             *)
(* coordinator, producer and crashes is one message arriving, being        *)
(* settled after its predecessors, or being acknowledged after it was      *)
(* settled - or nothing at all.                                            *)
(***************************************************************************)
THEOREM KafkaImplementsAtLeastOnce == Spec => ImplementsAtLeastOnce
<1>1. ASSUME BusInv, SettledExists, [Next]_vars PROVE [Promise!Next]_Promise!vars
  <2>1. CASE UNCHANGED <<log, committed, settled>>
    BY <2>1 DEF Promise!vars, SettledSet, Settled
  <2>2. ASSUME NEW p \in Partition, NEW kind \in MsgKind,
               log' = [log EXCEPT ![p] = Append(@, kind)], UNCHANGED <<committed, settled>>
        PROVE  Promise!Next
    BY <1>1, <2>2, PromiseArrive DEF Promise!Next
  <2>3. ASSUME NEW c \in Consumer, pc[c] = "handle", UNCHANGED <<log, committed, hand>>,
               settled' = settled \cup {<<hand[c][1], hand[c][2], handler[c]>>}
        PROVE  [Promise!Next]_Promise!vars
    <3>1. hand[c][1] \in Partition /\ hand[c][2] \in 1..Len(log[hand[c][1]])
      BY <1>1, <2>3 DEF BusInv, Working, HandReady, Index, Typed
    <3>2. \/ Promise!Settle(hand[c][1], hand[c][2])
          \/ UNCHANGED Promise!vars
      BY <1>1, <2>3, PromiseSettle
    <3>3. QED
      BY <3>1, <3>2 DEF Promise!Next
  <2>4. ASSUME NEW c \in Consumer, Commit(c) PROVE Promise!Next
    BY <1>1, <2>4, PromiseAck DEF Promise!Next
  <2>5. QED
    BY <1>1, <2>1, <2>2, <2>3, <2>4, StepShape
<1>2. QED
  BY <1>1, PromiseInit, InvCorrect, SettledExistsCorrect, PTL
     DEF Spec, ImplementsAtLeastOnce, Promise!Spec

-----------------------------------------------------------------------------
(* What the producer and the coordinator keep.                             *)

ProducerTyped ==
    /\ members \subseteq Consumer
    /\ attempt \in [Consumer -> 1..MaxRetries]
    /\ queue \in [Consumer -> Seq(OutMsg)]
    /\ delivered \subseteq OutMsg
    /\ produced \subseteq OutMsg
    /\ budget \in [{"raise", "evict", "drop", "crash"} -> Nat]

\* A message is in somebody's local queue.
Waiting(m) == \E c \in Consumer : \E i \in DOMAIN queue[c] : queue[c][i] = m

\* What the steps do to the queues: nothing, one message in, one out, or all of a
\* process's out.
LEMMA QueueSteps ==
    ASSUME BusInv, ProducerTyped, [Next]_vars
    PROVE  \/ UNCHANGED producerVars /\ UNCHANGED budget
           \/ \E c \in Consumer, m \in OutMsg :
                 /\ UNCHANGED producerVars \/ Enqueue(c, m)
                 /\ \/ UNCHANGED budget
                    \/ Spend("raise")
           \/ \E c \in Consumer : Deliver(c)
           \/ Spend("evict") /\ UNCHANGED producerVars
           \/ \E c \in Consumer : Drop(c)
           \/ \E c \in Consumer : Crash(c)
<1>1. ASSUME NEW p \in Partition, NEW kind \in MsgKind, Arrive(p, kind)
      PROVE  UNCHANGED producerVars /\ UNCHANGED budget
  BY <1>1 DEF Arrive
<1>2. CASE Rebalance \/ UNCHANGED vars
  BY <1>2 DEF Rebalance, vars
<1>3. ASSUME NEW c \in Consumer, pc[c] = "handle"
      PROVE  Out(hand[c]) \in OutMsg /\ Dlq(hand[c]) \in OutMsg
  BY <1>3 DEF BusInv, Working, HandReady, Out, Dlq, OutMsg
<1>4. ASSUME NEW c \in Consumer, NEW p \in Partition, Poll(c, p) \/ PollUndecodable(c, p)
      PROVE  UNCHANGED producerVars /\ UNCHANGED budget
  BY <1>4 DEF Poll, PollUndecodable
<1>5. ASSUME NEW c \in Consumer, HandlerReturns(c)
      PROVE  /\ UNCHANGED producerVars \/ Enqueue(c, Out(hand[c]))
             /\ UNCHANGED budget
             /\ Out(hand[c]) \in OutMsg
  BY <1>3, <1>5 DEF HandlerReturns
<1>6. ASSUME NEW c \in Consumer, HandlerRaises(c)
      PROVE  /\ UNCHANGED producerVars \/ Enqueue(c, Out(hand[c]))
             /\ Spend("raise")
             /\ Out(hand[c]) \in OutMsg
  BY <1>3, <1>6 DEF HandlerRaises
<1>7. ASSUME NEW c \in Consumer, DeadLetter(c)
      PROVE  /\ Enqueue(c, Dlq(hand[c]))
             /\ UNCHANGED budget
             /\ Dlq(hand[c]) \in OutMsg
  BY <1>3, <1>7 DEF DeadLetter
<1>8. ASSUME NEW c \in Consumer,
             HandlerOverflows(c) \/ DeadLetterOverflows(c) \/ Commit(c) \/ CommitFenced(c)
      PROVE  UNCHANGED producerVars /\ UNCHANGED budget
  BY <1>8 DEF HandlerOverflows, DeadLetterOverflows, Commit, CommitFenced
<1>9. ASSUME NEW c \in Consumer, Evict(c)
      PROVE  Spend("evict") /\ UNCHANGED producerVars
  BY <1>9 DEF Evict
<1>10. QED
  BY <1>1, <1>2, <1>4, <1>5, <1>6, <1>7, <1>8, <1>9 DEF Next, ThreadStep

LEMMA SpendTyped ==
    ASSUME ProducerTyped, NEW what \in {"raise", "evict", "drop", "crash"}, Spend(what)
    PROVE  /\ budget' \in [{"raise", "evict", "drop", "crash"} -> Nat]
           /\ budget'[what] < budget[what]
           /\ \A other \in {"raise", "evict", "drop", "crash"} :
                 budget'[other] <= budget[other] /\ (other # what => budget'[other] = budget[other])
BY DEF ProducerTyped, Spend

LEMMA EnqueueTyped ==
    ASSUME ProducerTyped, NEW c \in Consumer, NEW m \in OutMsg, Enqueue(c, m)
    PROVE  /\ queue' \in [Consumer -> Seq(OutMsg)]
           /\ delivered' \subseteq OutMsg
           /\ produced' \subseteq OutMsg
BY DEF ProducerTyped, Enqueue

\* The members and the attempts.
LEMMA GroupTyped ==
    ASSUME BusInv, ProducerTyped, [Next]_vars
    PROVE  members' \subseteq Consumer /\ attempt' \in [Consumer -> 1..MaxRetries]
<1>0. /\ members \subseteq Consumer
      /\ attempt \in [Consumer -> 1..MaxRetries]
      /\ 1 \in 1..MaxRetries
  BY BusAssumption DEF ProducerTyped
<1>1. ASSUME NEW p \in Partition, NEW kind \in MsgKind, Arrive(p, kind)
      PROVE  UNCHANGED <<members, attempt>>
  BY <1>1 DEF Arrive, groupVars, threadVars
<1>2. CASE Rebalance
  BY <1>0, <1>2 DEF Rebalance, threadVars
<1>3. CASE UNCHANGED vars
  BY <1>0, <1>3 DEF vars, groupVars, threadVars
<1>4. ASSUME NEW c \in Consumer, NEW p \in Partition, Poll(c, p)
      PROVE  UNCHANGED members /\ attempt' = [attempt EXCEPT ![c] = 1]
  BY <1>4 DEF Poll
<1>5. ASSUME NEW c \in Consumer, HandlerReturns(c) \/ DeadLetter(c)
      PROVE  /\ UNCHANGED members
             /\ attempt' = [attempt EXCEPT ![c] = 1] \/ UNCHANGED attempt
  BY <1>5 DEF HandlerReturns, DeadLetter, NextHandler, groupVars
<1>6. ASSUME NEW c \in Consumer, HandlerRaises(c) \/ HandlerOverflows(c)
      PROVE  /\ UNCHANGED members
             /\ attempt[c] < MaxRetries
             /\ attempt' = [attempt EXCEPT ![c] = @ + 1]
  BY <1>6 DEF HandlerRaises, HandlerOverflows, AttemptsLeft, groupVars
<1>7. ASSUME NEW c \in Consumer, NEW p \in Partition, PollUndecodable(c, p)
      PROVE  members' \subseteq members /\ UNCHANGED attempt
  BY <1>7 DEF PollUndecodable, StopThread, Leave
<1>8. ASSUME NEW c \in Consumer,
             DeadLetterOverflows(c) \/ CommitFenced(c) \/ Evict(c) \/ Crash(c)
      PROVE  members' \subseteq members /\ UNCHANGED attempt
  BY <1>8 DEF DeadLetterOverflows, CommitFenced, StopThread, Leave, Evict, Crash, threadVars
<1>9. ASSUME NEW c \in Consumer, Commit(c) \/ Deliver(c) \/ Drop(c)
      PROVE  UNCHANGED <<members, attempt>>
  BY <1>9 DEF Commit, Deliver, Drop, groupVars, threadVars
<1>10. ASSUME NEW c \in Consumer, attempt[c] < MaxRetries,
              attempt' = [attempt EXCEPT ![c] = @ + 1]
       PROVE  attempt' \in [Consumer -> 1..MaxRetries]
  BY <1>0, <1>10, BusAssumption
<1>11. QED
  BY <1>0, <1>1, <1>2, <1>3, <1>4, <1>5, <1>6, <1>7, <1>8, <1>9, <1>10 DEF Next, ThreadStep

LEMMA ProducerTypedStep ==
    ASSUME BusInv, ProducerTyped, [Next]_vars
    PROVE  ProducerTyped'
<1>1. members' \subseteq Consumer /\ attempt' \in [Consumer -> 1..MaxRetries]
  BY GroupTyped
<1> SUFFICES /\ queue' \in [Consumer -> Seq(OutMsg)]
             /\ delivered' \subseteq OutMsg
             /\ produced' \subseteq OutMsg
             /\ budget' \in [{"raise", "evict", "drop", "crash"} -> Nat]
  BY <1>1 DEF ProducerTyped
<1>2. CASE UNCHANGED producerVars /\ UNCHANGED budget
  BY <1>2 DEF ProducerTyped, producerVars
<1>3. ASSUME NEW c \in Consumer, NEW m \in OutMsg,
             UNCHANGED producerVars \/ Enqueue(c, m), UNCHANGED budget \/ Spend("raise")
      PROVE  /\ queue' \in [Consumer -> Seq(OutMsg)]
             /\ delivered' \subseteq OutMsg
             /\ produced' \subseteq OutMsg
             /\ budget' \in [{"raise", "evict", "drop", "crash"} -> Nat]
  <2>1. budget' \in [{"raise", "evict", "drop", "crash"} -> Nat]
    BY <1>3, SpendTyped DEF ProducerTyped
  <2>2. CASE Enqueue(c, m)
    BY <2>1, <2>2, EnqueueTyped
  <2>3. CASE UNCHANGED producerVars
    BY <2>1, <2>3 DEF ProducerTyped, producerVars
  <2>4. QED
    BY <1>3, <2>2, <2>3
<1>4. ASSUME NEW c \in Consumer, Deliver(c) \/ Drop(c)
      PROVE  /\ queue' \in [Consumer -> Seq(OutMsg)]
             /\ delivered' \subseteq OutMsg
  <2>1. queue[c] # <<>> /\ queue[c] \in Seq(OutMsg)
    BY <1>4 DEF Deliver, Drop, ProducerTyped
  <2>2. Head(queue[c]) \in OutMsg /\ Tail(queue[c]) \in Seq(OutMsg)
    BY <2>1
  <2>3. queue' = [queue EXCEPT ![c] = Tail(@)]
    BY <1>4 DEF Deliver, Drop
  <2>4. delivered' = delivered \/ delivered' = delivered \cup {Head(queue[c])}
    BY <1>4 DEF Deliver, Drop
  <2>5. QED
    BY <2>2, <2>3, <2>4 DEF ProducerTyped
<1>5. ASSUME NEW c \in Consumer, Crash(c)
      PROVE  queue' \in [Consumer -> Seq(OutMsg)]
  BY <1>5 DEF Crash, ProducerTyped
<1>6. QED
  BY <1>2, <1>3, <1>4, <1>5, QueueSteps, SpendTyped
     DEF Deliver, Drop, Crash, ProducerTyped, producerVars

(***************************************************************************)
(* Every variable keeps its type: nothing reaches a queue or the broker    *)
(* but messages caused by a message of the log, and no attempt is counted  *)
(* beyond max_retries.                                                     *)
(***************************************************************************)
THEOREM BusIsTyped == Spec => []TypeOK
<1>1. Init => ProducerTyped
  BY BusAssumption, BoundsAssumption DEF Init, ProducerTyped
<1>2. BusInv /\ ProducerTyped /\ [Next]_vars => ProducerTyped'
  BY ProducerTypedStep
<1>3. BusInv /\ ProducerTyped => TypeOK
  BY DEF BusInv, Typed, ProducerTyped, TypeOK
<1>4. QED
  BY <1>1, <1>2, <1>3, InvCorrect, PTL DEF Spec

-----------------------------------------------------------------------------
(* What the queues lose.                                                   *)

\* No queued message has timed out and no process has died so far.
NoLossYet == budget["drop"] = MaxDrops /\ budget["crash"] = MaxCrashes

\* Until then every message produced is at the broker or on its way.
KeptInFlight ==
    /\ budget["drop"] <= MaxDrops /\ budget["crash"] <= MaxCrashes
    /\ NoLossYet => \A m \in produced : m \in delivered \/ Waiting(m)

\* A queue that grows at its end keeps what it holds.
LEMMA EnqueueWaiting ==
    ASSUME ProducerTyped, NEW c \in Consumer, NEW m \in OutMsg, Enqueue(c, m)
    PROVE  /\ Waiting(m)'
           /\ \A x : Waiting(x) => Waiting(x)'
<1>1. /\ queue[c] \in Seq(OutMsg)
      /\ queue'[c] = Append(queue[c], m)
      /\ \A d \in Consumer : d # c => queue'[d] = queue[d]
  BY DEF Enqueue, ProducerTyped
<1>2. /\ Len(queue[c]) + 1 \in DOMAIN queue'[c]
      /\ queue'[c][Len(queue[c]) + 1] = m
      /\ \A i \in DOMAIN queue[c] : i \in DOMAIN queue'[c] /\ queue'[c][i] = queue[c][i]
  BY <1>1
<1>3. QED
  BY <1>1, <1>2 DEF Waiting

\* A message leaves the queue for the broker: the others stay.
LEMMA DeliverWaiting ==
    ASSUME ProducerTyped, NEW c \in Consumer, Deliver(c), NEW x, Waiting(x)
    PROVE  x \in delivered' \/ Waiting(x)'
<1>1. /\ queue[c] \in Seq(OutMsg) /\ queue[c] # <<>>
      /\ queue'[c] = Tail(queue[c])
      /\ \A d \in Consumer : d # c => queue'[d] = queue[d]
      /\ delivered' = delivered \cup {Head(queue[c])}
  BY DEF Deliver, ProducerTyped
<1>2. PICK d \in Consumer : \E i \in DOMAIN queue[d] : queue[d][i] = x
  BY DEF Waiting
<1>3. PICK i \in DOMAIN queue[d] : queue[d][i] = x
  BY <1>2
<1>4. CASE d # c
  BY <1>1, <1>3, <1>4 DEF Waiting
<1>5. CASE d = c /\ i = 1
  BY <1>1, <1>3, <1>5
<1>6. CASE d = c /\ i # 1
  <2>1. i - 1 \in DOMAIN Tail(queue[c]) /\ Tail(queue[c])[i - 1] = x
    BY <1>1, <1>3, <1>6
  <2>2. QED
    BY <1>1, <2>1 DEF Waiting
<1>7. QED
  BY <1>4, <1>5, <1>6

LEMMA KeptInFlightStep ==
    ASSUME BusInv, ProducerTyped, KeptInFlight, [Next]_vars
    PROVE  KeptInFlight'
<1>0. /\ budget["drop"] \in Nat /\ budget["crash"] \in Nat
      /\ MaxDrops \in Nat /\ MaxCrashes \in Nat
  BY BoundsAssumption DEF ProducerTyped
<1>1. CASE UNCHANGED producerVars /\ UNCHANGED budget
  BY <1>1 DEF producerVars, KeptInFlight, NoLossYet, Waiting
<1>2. ASSUME NEW c \in Consumer, NEW m \in OutMsg,
             UNCHANGED producerVars \/ Enqueue(c, m), UNCHANGED budget \/ Spend("raise")
      PROVE  KeptInFlight'
  <2>1. budget'["drop"] = budget["drop"] /\ budget'["crash"] = budget["crash"]
    BY <1>2, SpendTyped
  <2>2. CASE UNCHANGED producerVars
    BY <2>1, <2>2 DEF producerVars, KeptInFlight, NoLossYet, Waiting
  <2>3. CASE Enqueue(c, m)
    <3>1. produced' = produced \cup {m} /\ delivered' = delivered
      BY <2>3 DEF Enqueue
    <3>2. Waiting(m)' /\ \A x : Waiting(x) => Waiting(x)'
      BY <2>3, EnqueueWaiting
    <3>3. QED
      BY <2>1, <3>1, <3>2 DEF KeptInFlight, NoLossYet
  <2>4. QED
    BY <1>2, <2>2, <2>3
<1>3. ASSUME NEW c \in Consumer, Deliver(c) PROVE KeptInFlight'
  <2>1. /\ UNCHANGED <<produced, budget>>
        /\ delivered \subseteq delivered'
    BY <1>3 DEF Deliver
  <2>2. \A x : Waiting(x) => x \in delivered' \/ Waiting(x)'
    BY <1>3, DeliverWaiting
  <2>3. QED
    BY <2>1, <2>2 DEF KeptInFlight, NoLossYet
<1>4. CASE Spend("evict") /\ UNCHANGED producerVars
  <2>1. budget'["drop"] = budget["drop"] /\ budget'["crash"] = budget["crash"]
    BY <1>4, SpendTyped
  <2>2. QED
    BY <1>4, <2>1 DEF producerVars, KeptInFlight, NoLossYet, Waiting
<1>5. ASSUME NEW c \in Consumer, Drop(c) PROVE KeptInFlight'
  <2>1. budget'["drop"] < budget["drop"] /\ budget'["crash"] = budget["crash"]
        /\ budget'["drop"] \in Nat
    BY <1>5, SpendTyped DEF Drop
  <2>2. QED
    BY <1>0, <2>1 DEF KeptInFlight, NoLossYet
<1>6. ASSUME NEW c \in Consumer, Crash(c) PROVE KeptInFlight'
  <2>1. budget'["crash"] < budget["crash"] /\ budget'["drop"] = budget["drop"]
        /\ budget'["crash"] \in Nat
    BY <1>6, SpendTyped DEF Crash
  <2>2. QED
    BY <1>0, <2>1 DEF KeptInFlight, NoLossYet
<1>7. QED
  BY <1>1, <1>2, <1>3, <1>4, <1>5, <1>6, QueueSteps

(***************************************************************************)
(* A message timeout of the producer and the death of a process are the    *)
(* only ways to lose what a handler published: until one of them happens,  *)
(* evictions, rebalances, retries and full queues lose nothing.            *)
(***************************************************************************)
THEOREM OnlyDropsAndCrashesLose == Spec => [](NoLossYet => NothingLost)
<1>1. Init => ProducerTyped /\ KeptInFlight
  BY BusAssumption, BoundsAssumption DEF Init, ProducerTyped, KeptInFlight
<1>2. BusInv /\ ProducerTyped /\ KeptInFlight /\ [Next]_vars
         => ProducerTyped' /\ KeptInFlight'
  BY ProducerTypedStep, KeptInFlightStep
<1>3. KeptInFlight => (NoLossYet => NothingLost)
  BY DEF KeptInFlight, NothingLost, Lost, Waiting
<1>4. QED
  BY <1>1, <1>2, <1>3, InvCorrect, PTL DEF Spec
=============================================================================
