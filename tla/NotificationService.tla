-------------------------- MODULE NotificationService -------------------------
(***************************************************************************)
(* The process of the notification service: a consumer thread that feeds   *)
(* reasoning.produced and user.actions to the engine (worker.py), HTTP     *)
(* threads that silence nodes on the same engine (http.py), at-least-once  *)
(* delivery with retries (platform/kafka_bus.py), and process restarts,    *)
(* which empty the engine but not the topics or the committed offsets.     *)
(***************************************************************************)
EXTENDS NotificationEngine, FiniteSets

CONSTANTS Reasonings,    \* the reasoning results upstream may publish
          Malformed,     \* an event whose payload does not validate
          MaxRetries,    \* max_retries of the bus
          MaxReasonings, \* bound: events upstream publishes
          MaxActions,    \* bound: user actions
          MaxFaults,     \* bound: sink and publish calls that raise
          MaxCrashes     \* bound: process restarts

ASSUME ServiceAssumption ==
    /\ Reasonings \subseteq Reasoning
    /\ Malformed \notin Reasoning
    /\ MaxRetries \in Nat \ {0}
    /\ {MaxReasonings, MaxActions, MaxFaults, MaxCrashes} \subseteq Nat

VARIABLES reasonings, \* topic reasoning.produced (one partition)
          rOffset,    \* its committed offset
          actions,    \* topic user.actions
          aOffset,    \* its committed offset
          pc,         \* where the consumer thread is
          attempt,    \* delivery attempt of the event in hand
          http,       \* requests between suppress() and the publish
          answered,   \* requests that were answered 200
          seen,       \* answered, when the event in hand was last gated
          sent,       \* notifications published on notifications.sent
          dead,       \* offsets of reasoning.produced sent to its DLQ
          faults, crashes

topicVars == <<reasonings, rOffset, actions, aOffset>>
threadVars == <<pc, attempt, http>>
historyVars == <<answered, seen, sent, dead>>
boundVars == <<faults, crashes>>
vars == <<engineVars, topicVars, threadVars, historyVars, boundVars>>

UserActionType == {"ack", "dismiss", "snooze"}
SilencingAckOnly == {"ack"} \* mutant: dismiss is forgotten
Silencing == {"ack", "dismiss"}
UserAction == UserActionType \X Node

\* The event in hand: the consumer works on the first uncommitted one.
Current == reasonings[rOffset + 1]

Init ==
    /\ EngineInit
    /\ reasonings = <<>> /\ rOffset = 0
    /\ actions = <<>> /\ aOffset = 0
    /\ pc = "poll" /\ attempt = 0
    /\ http = {}
    /\ answered = {} /\ seen = {} /\ sent = {} /\ dead = {}
    /\ faults = 0 /\ crashes = 0

-----------------------------------------------------------------------------
\* Upstream: the reasoning stage appends to the topic.
Produce(r) ==
    /\ Len(reasonings) < MaxReasonings
    /\ reasonings' = Append(reasonings, r)
    /\ UNCHANGED <<engineVars, rOffset, actions, aOffset, threadVars,
                   historyVars, boundVars>>

\* POST /api/v1/actions up to line 63: ack and dismiss reach the engine at once.
\* A user repeats no request here: a repeated one only repeats a set insertion.
PostAction(ua) ==
    /\ Cardinality(http \cup answered) < MaxActions
    /\ ua \notin http \cup answered
    /\ IF ua[1] \in Silencing THEN Suppress(ua[2]) ELSE UNCHANGED engineVars
    /\ http' = http \cup {ua}
    /\ UNCHANGED <<topicVars, pc, attempt, historyVars, boundVars>>

\* Lines 64-72: the action is published, the request is answered.
Answer(ua) ==
    /\ ua \in http
    /\ actions' = Append(actions, ua)
    /\ http' = http \ {ua}
    /\ answered' = answered \cup {ua}
    /\ UNCHANGED <<engineVars, reasonings, rOffset, aOffset, pc, attempt,
                   seen, sent, dead, boundVars>>

-----------------------------------------------------------------------------
\* The consumer thread.
AtPoll == "poll"
GoTo(label) == pc' = label

PollReasoning ==
    /\ pc = AtPoll
    /\ rOffset < Len(reasonings)
    /\ GoTo("gate")
    /\ attempt' = 1
    /\ UNCHANGED <<engineVars, topicVars, http, historyVars, boundVars>>

\* handle_action: the service hears its own user.actions too.
PollAction ==
    /\ pc = AtPoll
    /\ aOffset < Len(actions)
    /\ LET ua == actions[aOffset + 1] IN
         IF ua[1] \in Silencing THEN Suppress(ua[2]) ELSE UNCHANGED engineVars
    /\ GoTo("commitAction")
    /\ UNCHANGED <<topicVars, attempt, http, historyVars, boundVars>>

CommitAction ==
    /\ pc = "commitAction"
    /\ aOffset' = aOffset + 1
    /\ GoTo(AtPoll)
    /\ UNCHANGED <<engineVars, reasonings, rOffset, actions, attempt, http,
                   historyVars, boundVars>>

RetriesLeftOffByOne == attempt <= MaxRetries \* mutant
RetriesLeft == attempt < MaxRetries

RetryForever == \* mutant: the last failure is retried, nothing is dead-lettered
    /\ attempt' = IF RetriesLeft THEN attempt + 1 ELSE attempt
    /\ GoTo("gate")
    /\ UNCHANGED dead

\* The handler raised: the bus tries it again, or dead-letters the event.
Retry ==
    \/ /\ RetriesLeft
       /\ attempt' = attempt + 1
       /\ GoTo("gate")
       /\ UNCHANGED dead
    \/ /\ ~RetriesLeft
       /\ dead' = dead \cup {rOffset + 1}
       /\ GoTo("commit")
       /\ UNCHANGED attempt

\* The payload does not validate: every attempt raises before consider().
RejectPayload ==
    /\ pc = "gate"
    /\ Current = Malformed
    /\ Retry
    /\ UNCHANGED <<engineVars, topicVars, http, answered, seen, sent, boundVars>>

\* consider(), line 43: a silenced node is dropped and the event is done.
Gate ==
    /\ pc = "gate"
    /\ Current # Malformed
    /\ seen' = answered
    /\ IF Silenced(Current) THEN GoTo("commit") ELSE GoTo("record")
    /\ UNCHANGED <<engineVars, topicVars, attempt, http, answered, sent, dead,
                   boundVars>>

\* consider(), lines 47-68.
Record ==
    /\ pc = "record"
    /\ \/ /\ Bundled(Current)
          /\ GoTo("commit")
          /\ UNCHANGED engineVars
       \/ /\ RecordAlert(Current)
          /\ GoTo(IF Known(Current) THEN "commit" ELSE "sink")
    /\ UNCHANGED <<topicVars, attempt, http, historyVars, boundVars>>

\* worker line 42: the delivery sink.
Sink ==
    /\ pc = "sink"
    /\ GoTo("publish")
    /\ UNCHANGED <<engineVars, topicVars, attempt, http, historyVars, boundVars>>

\* worker lines 44-56: notifications.sent.
Publish ==
    /\ pc = "publish"
    /\ sent' = sent \cup {NewNotification(Current)}
    /\ GoTo("commit")
    /\ UNCHANGED <<engineVars, topicVars, attempt, http, answered, seen, dead,
                   boundVars>>

\* The sink or the publish raises after consider() has recorded the alert.
DeliveryFails ==
    /\ pc \in {"sink", "publish"}
    /\ faults < MaxFaults
    /\ faults' = faults + 1
    /\ Retry
    /\ UNCHANGED <<engineVars, topicVars, http, answered, seen, sent, crashes>>

Commit ==
    /\ pc = "commit"
    /\ rOffset' = rOffset + 1
    /\ GoTo(AtPoll)
    /\ UNCHANGED <<engineVars, reasonings, actions, aOffset, attempt, http,
                   historyVars, boundVars>>

RestartSkips == \* mutant: the event in hand was committed when it passed the gate
    /\ crashes < MaxCrashes
    /\ crashes' = crashes + 1
    /\ suppressed' = {} /\ covered' = {} /\ feed' = <<>>
    /\ rOffset' = IF pc \in {"record", "sink", "publish"} THEN rOffset + 1 ELSE rOffset
    /\ GoTo(AtPoll) /\ attempt' = 0 /\ http' = {}
    /\ UNCHANGED <<reasonings, actions, aOffset, historyVars, faults>>

\* The process dies and is started again: a new engine, the old offsets.
Restart ==
    /\ crashes < MaxCrashes
    /\ crashes' = crashes + 1
    /\ suppressed' = {} /\ covered' = {} /\ feed' = <<>>
    /\ GoTo(AtPoll) /\ attempt' = 0 /\ http' = {}
    /\ UNCHANGED <<topicVars, historyVars, faults>>

-----------------------------------------------------------------------------
Consumer ==
    \/ PollReasoning \/ PollAction \/ CommitAction
    \/ RejectPayload \/ Gate \/ Record \/ Sink \/ Publish \/ DeliveryFails
    \/ Commit

Next ==
    \/ \E r \in Reasonings \cup {Malformed} : Produce(r)
    \/ \E ua \in UserAction : PostAction(ua) \/ Answer(ua)
    \/ Consumer
    \/ Restart

Spec == Init /\ [][Next]_vars

\* The consumer loop never stops by itself; users, upstream and crashes may.
FairSpec == Spec /\ WF_vars(Consumer)

-----------------------------------------------------------------------------
Label == {AtPoll, "commitAction", "gate", "record", "sink", "publish", "commit"}

TypeOK ==
    /\ EngineTypeOK
    /\ reasonings \in Seq(Reasonings \cup {Malformed})
    /\ rOffset \in 0..Len(reasonings)
    /\ actions \in Seq(UserAction)
    /\ aOffset \in 0..Len(actions)
    /\ pc \in Label
    /\ attempt \in 0..MaxRetries
    /\ http \subseteq UserAction
    /\ answered \subseteq UserAction
    /\ seen \subseteq UserAction
    /\ sent \subseteq Notification
    /\ dead \subseteq Nat
    /\ faults \in 0..MaxFaults
    /\ crashes \in 0..MaxCrashes

(***************************************************************************)
(* No score in the feed ever changes while the process lives: the refresh  *)
(* of engine.py line 51 is never reached, because a fingerprint the engine *)
(* knows belongs to a node the covered test has already dropped.           *)
(***************************************************************************)
FeedRiskFrozen ==
    [][\A i \in DOMAIN feed : i \in DOMAIN feed' => feed'[i] = feed[i]]_vars

AlertRaised == Len(feed') > Len(feed)
RaisedNode == feed'[Len(feed')].node

(***************************************************************************)
(* "ack/dismiss suppress future alerts for the target": an event gated     *)
(* after a user's ack or dismiss was answered raises no alert for the      *)
(* node, whatever the HTTP threads and the consumer interleave.            *)
(***************************************************************************)
AckedStaysSilent ==
    [][AlertRaised => \A a \in {"ack", "dismiss"} : <<a, RaisedNode>> \notin seen]_vars

Told == UNION {Covers(n) : n \in sent}

(***************************************************************************)
(* At-least-once to the reader: when the offset of a reasoning result is   *)
(* committed, a notification covering its node was published, or a user    *)
(* silenced the node, or the event is in the dead-letter topic.            *)
(***************************************************************************)
HandledIsKnown ==
    [][rOffset' # rOffset =>
         \/ rOffset' \in dead
         \/ reasonings[rOffset'].node \in suppressed \cup Told]_vars

(***************************************************************************)
(* No event blocks the topic: whatever fails or restarts, each published   *)
(* result is eventually committed.                                         *)
(***************************************************************************)
EverythingHandled ==
    \A k \in 1..MaxReasonings : Len(reasonings) >= k ~> rOffset >= k

=============================================================================
