-------------------------- MODULE NotificationProofs --------------------------
(***************************************************************************)
(* What NotificationService guarantees for every set of nodes, every set   *)
(* of reasoning results and every bound, proved with TLAPS.                *)
(***************************************************************************)
EXTENDS NotificationService, TLAPS

(***************************************************************************)
(* A reasoning result of the topic makes a well-typed notification whose   *)
(* evidence is a set of nodes.                                             *)
(***************************************************************************)
LEMMA ReasoningTyped ==
    ASSUME NEW r \in Reasoning
    PROVE  NewNotification(r) \in Notification /\ Covers(r) \subseteq Node
BY DEF Reasoning, NewNotification, Notification, Covers, Channel, ChannelFor

(***************************************************************************)
(* Refreshing scores keeps the length of the feed and everything in an     *)
(* entry but its score.                                                    *)
(***************************************************************************)
LEMMA RefreshedTyped ==
    ASSUME NEW r \in Reasoning, feed \in Seq(Notification)
    PROVE  Refreshed(r) \in Seq(Notification)
<1>1. DOMAIN feed = 1..Len(feed) /\ Len(feed) \in Nat
  OBVIOUS
<1>2. \A i \in 1..Len(feed) : feed[i] \in Notification
  OBVIOUS
<1>3. \A i \in 1..Len(feed) : [feed[i] EXCEPT !.risk = r.risk] \in Notification
  BY <1>2 DEF Notification, Reasoning
<1>4. Refreshed(r) \in [1..Len(feed) -> Notification]
  BY <1>1, <1>2, <1>3 DEF Refreshed
<1>5. QED
  BY <1>1, <1>4

(***************************************************************************)
(* The consumer is past polling only when there is an event in hand, and   *)
(* past the gate only when its payload validated.                          *)
(***************************************************************************)
InHand ==
    /\ pc \in {"gate", "record", "sink", "publish", "commit"} =>
         rOffset < Len(reasonings)
    /\ pc \in {"record", "sink", "publish"} => Current # Malformed
    /\ pc = "commitAction" => aOffset < Len(actions)

TypeInv == TypeOK /\ InHand

LEMMA CurrentTyped ==
    ASSUME TypeInv, pc \in {"gate", "record", "sink", "publish", "commit"},
           Current # Malformed
    PROVE  Current \in Reasonings /\ Current \in Reasoning
<1>1. rOffset + 1 \in 1..Len(reasonings)
  BY DEF TypeInv, TypeOK, InHand
<1>2. Current \in Reasonings \cup {Malformed}
  BY <1>1 DEF TypeInv, TypeOK, Current
<1>3. QED
  BY <1>2, ServiceAssumption

\* A failed attempt is followed by another one or by the commit of a dead letter.
LEMMA RetryTyped ==
    ASSUME TypeInv, Retry
    PROVE  /\ attempt' \in 0..MaxRetries
           /\ dead' \subseteq Nat
           /\ pc' \in {"gate", "commit"}
<1>1. MaxRetries \in Nat /\ attempt \in 0..MaxRetries /\ rOffset \in Nat /\ dead \subseteq Nat
  BY ServiceAssumption DEF TypeInv, TypeOK
<1>2. pc' \in {"gate", "commit"}
  BY DEF Retry, GoTo
<1>3. attempt' \in 0..MaxRetries
  BY <1>1 DEF Retry, RetriesLeft
<1>4. dead' \subseteq Nat
  <2>1. dead \subseteq Nat /\ dead \cup {rOffset + 1} \subseteq Nat
    BY <1>1
  <2>2. dead' = dead \/ dead' = dead \cup {rOffset + 1}
    BY DEF Retry
  <2>3. QED
    BY <2>1, <2>2
<1>5. QED
  BY <1>2, <1>3, <1>4

(***************************************************************************)
(* Type correctness: every step of the service keeps TypeOK; InHand is     *)
(* what the steps that read the event in hand need.                        *)
(***************************************************************************)
LEMMA TypeInvStep == TypeInv /\ [Next]_vars => TypeInv'
<1> USE DEF TypeInv, TypeOK, InHand, EngineTypeOK, Label, AtPoll, GoTo, Current,
            UserAction, UserActionType
<1> SUFFICES ASSUME TypeInv, [Next]_vars PROVE TypeInv'
  OBVIOUS
<1>1. ASSUME NEW r \in Reasonings \cup {Malformed}, Produce(r) PROVE TypeInv'
  BY <1>1 DEF Produce, engineVars, threadVars, historyVars, boundVars
<1>2. ASSUME NEW ua \in UserAction, PostAction(ua) PROVE TypeInv'
  BY <1>2 DEF PostAction, Suppress, engineVars, topicVars, historyVars, boundVars
<1>3. ASSUME NEW ua \in UserAction, Answer(ua) PROVE TypeInv'
  BY <1>3 DEF Answer, engineVars, boundVars
<1>4. CASE PollReasoning
  BY <1>4, ServiceAssumption
     DEF PollReasoning, engineVars, topicVars, historyVars, boundVars
<1>5. CASE PollAction
  <2>1. actions[aOffset + 1] \in UserAction
    BY <1>5 DEF PollAction
  <2>2. QED
    BY <1>5, <2>1
       DEF PollAction, Suppress, engineVars, topicVars, historyVars, boundVars
<1>6. CASE CommitAction
  BY <1>6 DEF CommitAction, engineVars, historyVars, boundVars
<1>7. CASE RejectPayload
  <2>1. attempt' \in 0..MaxRetries /\ dead' \subseteq Nat /\ pc' \in {"gate", "commit"}
    BY <1>7, RetryTyped DEF RejectPayload
  <2>2. QED
    BY <1>7, <2>1 DEF RejectPayload, engineVars, topicVars, boundVars
<1>8. CASE Gate
  BY <1>8 DEF Gate, engineVars, topicVars, boundVars
<1>9. CASE Record
  <2>1. Current \in Reasoning
    BY <1>9, CurrentTyped DEF Record
  <2>2. NewNotification(Current) \in Notification /\ Covers(Current) \subseteq Node
    BY <2>1, ReasoningTyped
  <2>3. Refreshed(Current) \in Seq(Notification)
    BY <2>1, RefreshedTyped
  <2>4. CASE Bundled(Current) /\ UNCHANGED engineVars
    BY <1>9, <2>4 DEF Record, engineVars, topicVars, historyVars, boundVars
  <2>5. CASE RecordAlert(Current)
    <3>1. covered' \subseteq Node /\ suppressed' \subseteq Node
      BY <2>2, <2>5 DEF RecordAlert
    <3>2. feed' \in Seq(Notification)
      BY <2>2, <2>3, <2>5 DEF RecordAlert
    <3>3. QED
      BY <1>9, <3>1, <3>2 DEF Record, topicVars, historyVars, boundVars
  <2>6. QED
    BY <1>9, <2>4, <2>5 DEF Record
<1>10. CASE Sink
  BY <1>10 DEF Sink, engineVars, topicVars, historyVars, boundVars
<1>11. CASE Publish
  <2>1. Current \in Reasoning
    BY <1>11, CurrentTyped DEF Publish
  <2>2. NewNotification(Current) \in Notification
    BY <2>1, ReasoningTyped
  <2>3. QED
    BY <1>11, <2>2 DEF Publish, engineVars, topicVars, boundVars
<1>12. CASE DeliveryFails
  <2>1. attempt' \in 0..MaxRetries /\ dead' \subseteq Nat /\ pc' \in {"gate", "commit"}
    BY <1>12, RetryTyped DEF DeliveryFails
  <2>2. faults' \in 0..MaxFaults
    BY <1>12, ServiceAssumption DEF DeliveryFails
  <2>3. QED
    BY <1>12, <2>1, <2>2 DEF DeliveryFails, engineVars, topicVars
<1>13. CASE Commit
  BY <1>13 DEF Commit, engineVars, historyVars, boundVars
<1>14. CASE Restart
  <2>1. attempt' \in 0..MaxRetries /\ crashes' \in 0..MaxCrashes
    BY <1>14, ServiceAssumption DEF Restart
  <2>2. feed' \in Seq(Notification)
    BY <1>14 DEF Restart
  <2>3. QED
    BY <1>14, <2>1, <2>2 DEF Restart, topicVars, historyVars
<1>15. CASE UNCHANGED vars
  BY <1>15 DEF vars, engineVars, topicVars, threadVars, historyVars, boundVars
<1>16. QED
  BY <1>1, <1>2, <1>3, <1>4, <1>5, <1>6, <1>7, <1>8, <1>9, <1>10, <1>11, <1>12,
     <1>13, <1>14, <1>15 DEF Next, Consumer

LEMMA TypeInvCorrect == Spec => []TypeInv
<1>1. Init => TypeInv
  BY ServiceAssumption
     DEF Init, EngineInit, TypeInv, TypeOK, InHand, EngineTypeOK, Label, AtPoll
<1>2. QED
  BY <1>1, TypeInvStep, PTL DEF Spec

\* The service only reaches well-typed states.
THEOREM TypeCorrect == Spec => []TypeOK
BY TypeInvCorrect, PTL DEF TypeInv

-----------------------------------------------------------------------------
(***************************************************************************)
(* BundlesDisjoint is not inductive: it needs to know that the evidence of *)
(* every notification is still in the covered set when the next one is     *)
(* considered.                                                             *)
(***************************************************************************)
BundleInv == TypeInv /\ CoveredHoldsEvidence /\ BundlesDisjoint

\* Only a recorded alert and a restart write the feed or the covered set.
LEMMA FeedWriters ==
    ASSUME [Next]_vars
    PROVE  \/ UNCHANGED <<feed, covered>>
           \/ Record /\ RecordAlert(Current)
           \/ Restart
<1>1. ASSUME NEW r \in Reasonings \cup {Malformed}, Produce(r)
      PROVE  UNCHANGED <<feed, covered>>
  BY <1>1 DEF Produce, engineVars
<1>2. ASSUME NEW ua \in UserAction, PostAction(ua) \/ Answer(ua)
      PROVE  UNCHANGED <<feed, covered>>
  BY <1>2 DEF PostAction, Answer, Suppress, engineVars
<1>3. CASE PollReasoning \/ CommitAction \/ RejectPayload \/ Gate \/ Sink \/ Publish
           \/ DeliveryFails \/ Commit
  BY <1>3 DEF PollReasoning, CommitAction, RejectPayload, Gate, Sink, Publish,
              DeliveryFails, Commit, engineVars
<1>4. CASE PollAction
  BY <1>4 DEF PollAction, Suppress, engineVars
<1>5. CASE Record
  BY <1>5 DEF Record, engineVars
<1>6. CASE UNCHANGED vars
  BY <1>6 DEF vars, engineVars
<1>7. QED
  BY <1>1, <1>2, <1>3, <1>4, <1>5, <1>6 DEF Next, Consumer

(***************************************************************************)
(* A fingerprint the engine knows belongs to a covered node, so an alert   *)
(* that is recorded is always a new one: the feed only grows.              *)
(***************************************************************************)
LEMMA RecordedIsNew ==
    ASSUME TypeInv, CoveredHoldsEvidence, RecordAlert(Current)
    PROVE  /\ feed' = Append(feed, NewNotification(Current))
           /\ covered' = covered \cup Covers(Current)
           /\ Current.node \notin covered
<1>1. Current.node \notin covered
  BY DEF RecordAlert, Bundled
<1>2. ~Known(Current)
  <2>1. SUFFICES ASSUME NEW i \in DOMAIN feed,
                        Fingerprint(feed[i]) = Fingerprint(Current)
                 PROVE  FALSE
    BY DEF Known, Fingerprints
  <2>2. feed[i].node = Current.node
    BY <2>1 DEF Fingerprint
  <2>3. feed[i].node \in covered
    BY DEF CoveredHoldsEvidence, Covers
  <2>4. QED
    BY <1>1, <2>2, <2>3
<1>3. QED
  BY <1>1, <1>2 DEF RecordAlert

LEMMA BundleStep == BundleInv /\ [Next]_vars => BundleInv'
<1> SUFFICES ASSUME BundleInv, [Next]_vars PROVE BundleInv'
  OBVIOUS
<1>1. TypeInv /\ TypeInv'
  BY TypeInvStep DEF BundleInv
<1>2. CoveredHoldsEvidence /\ BundlesDisjoint
  BY DEF BundleInv
<1>3. CASE UNCHANGED <<feed, covered>>
  BY <1>1, <1>2, <1>3 DEF BundleInv, CoveredHoldsEvidence, BundlesDisjoint, Covers
<1>4. CASE Record /\ RecordAlert(Current)
  <2>1. /\ feed' = Append(feed, NewNotification(Current))
        /\ covered' = covered \cup Covers(Current)
        /\ Current.node \notin covered
    BY <1>1, <1>2, <1>4, RecordedIsNew
  <2>2. Current \in Reasoning
    BY <1>1, <1>4, CurrentTyped DEF Record, TypeInv, InHand
  <2>3. /\ feed \in Seq(Notification)
        /\ NewNotification(Current) \in Notification
    BY <1>1, <2>2, ReasoningTyped DEF TypeInv, TypeOK, EngineTypeOK
  <2>4. /\ DOMAIN feed' = 1..(Len(feed) + 1)
        /\ DOMAIN feed = 1..Len(feed)
        /\ \A i \in 1..Len(feed) : feed'[i] = feed[i]
        /\ feed'[Len(feed) + 1] = NewNotification(Current)
        /\ Len(feed) \in Nat
    BY <2>1, <2>3
  <2>5. Covers(NewNotification(Current)) = Covers(Current)
        /\ NewNotification(Current).node = Current.node
    BY DEF Covers, NewNotification
  <2>6. CoveredHoldsEvidence'
    <3> SUFFICES ASSUME NEW i \in DOMAIN feed' PROVE Covers(feed'[i]) \subseteq covered'
      BY DEF CoveredHoldsEvidence, Covers
    <3>1. CASE i \in 1..Len(feed)
      BY <1>2, <2>1, <2>4, <3>1 DEF CoveredHoldsEvidence
    <3>2. CASE i = Len(feed) + 1
      BY <2>1, <2>4, <2>5, <3>2
    <3>3. QED
      BY <2>4, <3>1, <3>2
  <2>7. BundlesDisjoint'
    <3> SUFFICES ASSUME NEW j \in DOMAIN feed', NEW i \in 1..(j - 1)
                 PROVE  feed'[j].node # feed'[i].node /\ feed'[j].node \notin feed'[i].cites
      BY DEF BundlesDisjoint
    <3>1. j \in 1..(Len(feed) + 1) /\ i \in 1..Len(feed) /\ feed'[i] = feed[i]
      BY <2>4
    <3>2. CASE j \in 1..Len(feed)
      BY <1>2, <2>4, <3>1, <3>2 DEF BundlesDisjoint
    <3>3. CASE j = Len(feed) + 1
      <4>1. feed'[j].node = Current.node
        BY <2>4, <2>5, <3>3
      <4>2. Covers(feed[i]) \subseteq covered
        BY <1>2, <2>4, <3>1 DEF CoveredHoldsEvidence
      <4>3. Current.node \in Node
        BY <2>2 DEF Reasoning
      <4>4. QED
        BY <2>1, <3>1, <4>1, <4>2, <4>3 DEF Covers
    <3>4. QED
      BY <3>1, <3>2, <3>3
  <2>8. QED
    BY <1>1, <2>6, <2>7 DEF BundleInv
<1>5. CASE Restart
  <2>1. feed' = <<>>
    BY <1>5 DEF Restart
  <2>2. DOMAIN feed' = {}
    BY <2>1
  <2>3. QED
    BY <1>1, <2>2 DEF BundleInv, CoveredHoldsEvidence, BundlesDisjoint
<1>6. QED
  BY <1>3, <1>4, <1>5, FeedWriters

LEMMA BundleInvCorrect == Spec => []BundleInv
<1>1. Init => BundleInv
  <2>1. ASSUME Init PROVE DOMAIN feed = {}
    BY <2>1 DEF Init, EngineInit
  <2>2. Init => TypeInv
    BY ServiceAssumption
       DEF Init, EngineInit, TypeInv, TypeOK, InHand, EngineTypeOK, Label, AtPoll
  <2>3. QED
    BY <2>1, <2>2 DEF BundleInv, CoveredHoldsEvidence, BundlesDisjoint
<1>2. QED
  BY <1>1, BundleStep, PTL DEF Spec

(***************************************************************************)
(* One alert per situation, for every graph and every order of results,    *)
(* user actions, failures and restarts.                                    *)
(***************************************************************************)
THEOREM OneAlertPerSituation == Spec => []BundlesDisjoint
BY BundleInvCorrect, PTL DEF BundleInv

(***************************************************************************)
(* A result that scores a node again never changes the score the feed      *)
(* shows and ranks by.                                                     *)
(***************************************************************************)
THEOREM RescoreNeverShown == Spec => FeedRiskFrozen
<1>1. ASSUME BundleInv, [Next]_vars
      PROVE  [\A i \in DOMAIN feed : i \in DOMAIN feed' => feed'[i] = feed[i]]_vars
  <2>1. CASE UNCHANGED <<feed, covered>>
    BY <2>1
  <2>2. CASE Record /\ RecordAlert(Current)
    <3>1. feed' = Append(feed, NewNotification(Current))
      BY <1>1, <2>2, RecordedIsNew DEF BundleInv
    <3>2. feed \in Seq(Notification)
      BY <1>1 DEF BundleInv, TypeInv, TypeOK, EngineTypeOK
    <3>3. QED
      BY <3>1, <3>2
  <2>3. CASE Restart
    <3>1. feed' = <<>>
      BY <2>3 DEF Restart
    <3>2. QED
      BY <3>1
  <2>4. QED
    BY <1>1, <2>1, <2>2, <2>3, FeedWriters
<1>2. QED
  BY <1>1, BundleInvCorrect, PTL DEF Spec, FeedRiskFrozen

-----------------------------------------------------------------------------
(***************************************************************************)
(* Silence after an ack.  While the process lives, a request on its way to *)
(* the topic, or answered, is already in the engine; an event past the     *)
(* gate was not silenced by any request answered before its gate.          *)
(***************************************************************************)
AckInv ==
    /\ TypeInv
    /\ \A ua \in http \cup answered : ua[1] \in Silencing => ua[2] \in suppressed
    /\ pc = "record" => \A a \in Silencing : <<a, Current.node>> \notin seen

LEMMA AckStep ==
    ASSUME MaxCrashes = 0
    PROVE  AckInv /\ [Next]_vars => AckInv'
<1> SUFFICES ASSUME AckInv, [Next]_vars PROVE AckInv'
  OBVIOUS
<1> USE DEF GoTo, AtPoll
<1>1. TypeInv /\ TypeInv'
  BY TypeInvStep DEF AckInv
<1>2. ASSUME NEW r \in Reasonings \cup {Malformed}, Produce(r) PROVE AckInv'
  <2>1. pc = "record" => Current' = Current
    BY <1>1, <1>2 DEF Produce, Current, TypeInv, TypeOK, InHand
  <2>2. UNCHANGED <<http, answered, suppressed, pc, seen>>
    BY <1>2 DEF Produce, engineVars, threadVars, historyVars
  <2>3. QED
    BY <1>1, <2>1, <2>2 DEF AckInv
<1>3. ASSUME NEW ua \in UserAction, PostAction(ua) PROVE AckInv'
  <2>1. /\ UNCHANGED <<answered, pc, seen, reasonings, rOffset>>
        /\ http' = http \cup {ua}
        /\ suppressed \subseteq suppressed'
        /\ ua[1] \in Silencing => ua[2] \in suppressed'
    BY <1>3 DEF PostAction, Suppress, engineVars, topicVars, historyVars
  <2>2. QED
    BY <1>1, <2>1 DEF AckInv, Current
<1>4. ASSUME NEW ua \in UserAction, Answer(ua) PROVE AckInv'
  BY <1>1, <1>4 DEF Answer, AckInv, Current, engineVars
<1>5. CASE PollAction
  <2>1. /\ UNCHANGED <<http, answered>>
        /\ suppressed \subseteq suppressed'
        /\ pc' = "commitAction"
    BY <1>5 DEF PollAction, Suppress, engineVars, historyVars
  <2>2. QED
    BY <1>1, <2>1 DEF AckInv
<1>6. CASE Gate
  <2>1. /\ UNCHANGED <<http, answered, suppressed, reasonings, rOffset>>
        /\ seen' = answered
        /\ pc' = "record" => Current.node \notin suppressed
    BY <1>6 DEF Gate, Silenced, engineVars, topicVars
  <2>2. QED
    BY <1>1, <2>1 DEF AckInv, Current
<1>7. CASE PollReasoning \/ CommitAction \/ Sink \/ Publish \/ Commit
  BY <1>1, <1>7 DEF PollReasoning, CommitAction, Sink, Publish, Commit, AckInv,
                    engineVars, topicVars, historyVars
<1>8. CASE RejectPayload \/ DeliveryFails
  <2>1. pc' # "record"
    BY <1>8 DEF RejectPayload, DeliveryFails, Retry
  <2>2. QED
    BY <1>1, <1>8, <2>1 DEF RejectPayload, DeliveryFails, AckInv, engineVars
<1>9. CASE Record
  BY <1>1, <1>9 DEF Record, RecordAlert, AckInv, engineVars, historyVars
<1>10. CASE Restart
  BY <1>1, <1>10 DEF Restart, TypeInv, TypeOK
<1>11. CASE UNCHANGED vars
  BY <1>1, <1>11 DEF vars, AckInv, Current, engineVars, topicVars, threadVars, historyVars
<1>12. QED
  BY <1>2, <1>3, <1>4, <1>5, <1>6, <1>7, <1>8, <1>9, <1>10, <1>11 DEF Next, Consumer

(***************************************************************************)
(* In a process that is never restarted, an event gated after an ack or a  *)
(* dismiss was answered raises no alert for that node.                     *)
(***************************************************************************)
THEOREM AckIsFinal == ASSUME MaxCrashes = 0 PROVE Spec => AckedStaysSilent
<1>1. Init => AckInv /\ BundleInv
  <2>1. Init => AckInv
    BY ServiceAssumption DEF Init, EngineInit, AckInv, TypeInv, TypeOK, InHand,
                             EngineTypeOK, Label, AtPoll
  <2>2. ASSUME Init PROVE DOMAIN feed = {}
    BY <2>2 DEF Init, EngineInit
  <2>3. QED
    BY <2>1, <2>2 DEF AckInv, BundleInv, CoveredHoldsEvidence, BundlesDisjoint
<1>2. AckInv /\ BundleInv /\ [Next]_vars => (AckInv /\ BundleInv)'
  BY AckStep, BundleStep
<1>3. ASSUME AckInv, BundleInv, [Next]_vars
      PROVE  [AlertRaised =>
                \A a \in {"ack", "dismiss"} : <<a, RaisedNode>> \notin seen]_vars
  <2>1. feed \in Seq(Notification)
    BY <1>3 DEF BundleInv, TypeInv, TypeOK, EngineTypeOK
  <2>2. CASE UNCHANGED <<feed, covered>>
    BY <2>1, <2>2 DEF AlertRaised
  <2>3. CASE Record /\ RecordAlert(Current)
    <3>1. feed' = Append(feed, NewNotification(Current))
      BY <1>3, <2>3, RecordedIsNew DEF BundleInv
    <3>2. RaisedNode = Current.node
      BY <2>1, <3>1 DEF RaisedNode, NewNotification
    <3>3. QED
      BY <1>3, <2>3, <3>2 DEF AckInv, Record, Silencing
  <2>4. CASE Restart
    BY <2>1, <2>4 DEF Restart, AlertRaised
  <2>5. QED
    BY <1>3, <2>2, <2>3, <2>4, FeedWriters
<1>4. QED
  BY <1>1, <1>2, <1>3, PTL DEF Spec, AckedStaysSilent

-----------------------------------------------------------------------------
(***************************************************************************)
(* Nothing is handled without the reader knowing.  Between events all that *)
(* is covered has been told; while an alert is being delivered, what it    *)
(* covers may still be on its way.  The last conjunct is what a commit     *)
(* needs.                                                                  *)
(***************************************************************************)
Accounted ==
    \/ rOffset + 1 \in dead
    \/ Current # Malformed /\ Current.node \in suppressed \cup Told

KnownInv ==
    /\ BundleInv
    /\ pc \notin {"sink", "publish"} => covered \subseteq Told
    /\ pc \in {"sink", "publish"} => covered \subseteq Told \cup Covers(Current)
    /\ pc \in {"sink", "publish"} => Current.node \in Covers(Current)
    /\ pc = "commit" => Accounted

LEMMA KnownStep ==
    ASSUME MaxFaults = 0
    PROVE  KnownInv /\ [Next]_vars => KnownInv'
<1> SUFFICES ASSUME KnownInv, [Next]_vars PROVE KnownInv'
  OBVIOUS
<1> USE DEF GoTo, AtPoll
<1>1. BundleInv /\ BundleInv' /\ TypeInv
  BY BundleStep DEF KnownInv, BundleInv
<1>2. ASSUME NEW r \in Reasonings \cup {Malformed}, Produce(r) PROVE KnownInv'
  <2>1. pc \in {"sink", "publish", "commit"} => Current' = Current
    BY <1>1, <1>2 DEF Produce, Current, TypeInv, TypeOK, InHand
  <2>2. UNCHANGED <<rOffset, dead, covered, sent, suppressed, pc>>
    BY <1>2 DEF Produce, engineVars, threadVars, historyVars
  <2>3. QED
    BY <1>1, <2>1, <2>2 DEF KnownInv, Accounted, Told, Covers
<1>3. ASSUME NEW ua \in UserAction, PostAction(ua) \/ Answer(ua) PROVE KnownInv'
  <2>1. /\ UNCHANGED <<rOffset, reasonings, dead, covered, sent, pc>>
        /\ suppressed \subseteq suppressed'
    BY <1>3 DEF PostAction, Answer, Suppress, engineVars, topicVars, historyVars
  <2>2. QED
    BY <1>1, <2>1 DEF KnownInv, Accounted, Told, Current, Covers
<1>4. CASE PollReasoning \/ CommitAction \/ Commit
  <2>1. /\ UNCHANGED <<covered, sent>>
        /\ pc \notin {"sink", "publish"}
        /\ pc' \in {"gate", "poll"}
    BY <1>4 DEF PollReasoning, CommitAction, Commit, engineVars, historyVars
  <2>2. QED
    BY <1>1, <2>1 DEF KnownInv, Told
<1>5. CASE PollAction
  <2>1. UNCHANGED <<covered, sent>> /\ pc = "poll" /\ pc' = "commitAction"
    BY <1>5 DEF PollAction, Suppress, engineVars, historyVars
  <2>2. QED
    BY <1>1, <2>1 DEF KnownInv, Told
<1>6. CASE RejectPayload
  <2>1. /\ UNCHANGED <<rOffset, covered, sent>>
        /\ pc = "gate"
        /\ pc' = "gate" \/ (pc' = "commit" /\ rOffset + 1 \in dead')
    BY <1>6 DEF RejectPayload, Retry, engineVars, topicVars
  <2>2. QED
    BY <1>1, <2>1 DEF KnownInv, Accounted, Told
<1>7. CASE Gate
  <2>1. /\ UNCHANGED <<rOffset, reasonings, covered, suppressed, sent, dead>>
        /\ pc = "gate"
        /\ Current # Malformed
        /\ pc' = "record" \/ (pc' = "commit" /\ Current.node \in suppressed)
    BY <1>7 DEF Gate, Silenced, engineVars, topicVars
  <2>2. QED
    BY <1>1, <2>1 DEF KnownInv, Accounted, Told, Current
<1>8. CASE Record
  <2>1. /\ UNCHANGED <<rOffset, reasonings, sent, dead, suppressed>>
        /\ pc = "record"
        /\ Current # Malformed
        /\ covered \subseteq Told
    BY <1>1, <1>8 DEF Record, RecordAlert, KnownInv, TypeInv, InHand, engineVars,
                      topicVars, historyVars
  <2>2. CASE Bundled(Current) /\ pc' = "commit" /\ UNCHANGED engineVars
    BY <1>1, <2>1, <2>2 DEF Bundled, KnownInv, Accounted, Told, Current, engineVars
  <2>3. CASE RecordAlert(Current) /\ pc' = (IF Known(Current) THEN "commit" ELSE "sink")
    <3>1. covered' = covered \cup Covers(Current) /\ Current.node \notin covered
      BY <1>1, <2>3, RecordedIsNew DEF BundleInv
    <3>2. Current.node \in Covers(Current)
      BY DEF Covers
    <3>3. pc' = "sink"
      BY <2>3, <3>1, <3>2 DEF RecordAlert
    <3>4. QED
      BY <1>1, <2>1, <3>1, <3>2, <3>3 DEF KnownInv, Told, Current, Covers
  <2>4. QED
    BY <1>8, <2>2, <2>3 DEF Record
<1>9. CASE Sink
  BY <1>1, <1>9 DEF Sink, KnownInv, Told, Current, Covers, engineVars, topicVars, historyVars
<1>10. CASE Publish
  <2>1. /\ UNCHANGED <<rOffset, reasonings, covered, suppressed>>
        /\ pc = "publish" /\ pc' = "commit"
        /\ sent' = sent \cup {NewNotification(Current)}
        /\ Current # Malformed
    BY <1>1, <1>10 DEF Publish, TypeInv, InHand, engineVars, topicVars
  <2>2. Covers(NewNotification(Current)) = Covers(Current)
    BY DEF Covers, NewNotification
  <2>3. Told' = Told \cup Covers(Current)
    <3>1. Told' = UNION {Covers(n) : n \in sent'}
      BY DEF Told, Covers
    <3>2. QED
      BY <2>1, <2>2, <3>1 DEF Told
  <2>4. QED
    BY <1>1, <2>1, <2>3 DEF KnownInv, Accounted, Current, Covers
<1>11. CASE DeliveryFails
  BY <1>1, <1>11 DEF DeliveryFails, TypeInv, TypeOK
<1>12. CASE Restart
  BY <1>1, <1>12 DEF Restart, KnownInv
<1>13. CASE UNCHANGED vars
  BY <1>1, <1>13 DEF vars, KnownInv, Accounted, Told, Current, Covers, engineVars,
                     topicVars, threadVars, historyVars
<1>14. QED
  BY <1>2, <1>3, <1>4, <1>5, <1>6, <1>7, <1>8, <1>9, <1>10, <1>11, <1>12, <1>13
     DEF Next, Consumer

(***************************************************************************)
(* When neither the sink nor the publish raises, every committed result is *)
(* known to the reader, silenced or dead-lettered, across any number of    *)
(* restarts.                                                               *)
(***************************************************************************)
THEOREM NothingHandledUnknown == ASSUME MaxFaults = 0 PROVE Spec => HandledIsKnown
<1>1. Init => KnownInv
  <2>1. ASSUME Init PROVE DOMAIN feed = {} /\ covered = {} /\ pc = "poll"
    BY <2>1 DEF Init, EngineInit, AtPoll
  <2>2. Init => TypeInv
    BY ServiceAssumption
       DEF Init, EngineInit, TypeInv, TypeOK, InHand, EngineTypeOK, Label, AtPoll
  <2>3. QED
    BY <2>1, <2>2 DEF KnownInv, BundleInv, CoveredHoldsEvidence, BundlesDisjoint
<1>2. KnownInv /\ [Next]_vars => KnownInv'
  BY KnownStep
<1>3. ASSUME KnownInv, [Next]_vars
      PROVE  [rOffset' # rOffset =>
                \/ rOffset' \in dead
                \/ reasonings[rOffset'].node \in suppressed \cup Told]_vars
  <2>1. CASE Commit
    BY <1>3, <2>1 DEF Commit, KnownInv, Accounted, Current
  <2>2. CASE ~Commit
    <3>1. rOffset' = rOffset
      BY <1>3, <2>2 DEF Next, Consumer, Produce, PostAction, Answer, PollReasoning,
         PollAction, CommitAction, RejectPayload, Gate, Record, Sink, Publish,
         DeliveryFails, Restart, vars, topicVars
    <3>2. QED
      BY <3>1
  <2>3. QED
    BY <2>1, <2>2
<1>4. QED
  BY <1>1, <1>2, <1>3, PTL DEF Spec, HandledIsKnown
=============================================================================
