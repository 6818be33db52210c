-------------------------- MODULE NotificationEngine --------------------------
(***************************************************************************)
(* The in-memory engine of the notification service                        *)
(* (services/notification-service/.../engine.py): which reasoning results  *)
(* become a notification of their own, which are bundled into an earlier   *)
(* one and which are silenced because a user acknowledged the node.        *)
(*                                                                         *)
(* consider() is two steps here, Gate and Record: an HTTP thread may run   *)
(* suppress() on the same engine between the membership test of line 43    *)
(* and the writes of lines 62-67.  Nothing else of the engine is shared,   *)
(* so the tests of lines 47-50 read in Record what they would read in the  *)
(* same step as line 43.                                                   *)
(***************************************************************************)
EXTENDS Naturals, Sequences

CONSTANTS Node,         \* ids of graph nodes
          Edge,         \* ids of graph edges, which citations may name too
          Risk,         \* the scores a reasoning result can carry
          InterruptAt   \* the interrupt bar, interrupt_at

ASSUME EngineAssumption ==
    /\ Node \cap Edge = {}
    /\ Risk \subseteq Nat
    /\ InterruptAt \in Nat

VARIABLES suppressed,   \* _suppressed: nodes acknowledged or dismissed
          covered,      \* _covered: nodes inside the evidence of an alert
          feed          \* _feed, in the order the notifications were made

engineVars == <<suppressed, covered, feed>>

\* What consider() reads of a reasoning.produced payload.
Reasoning == [node : Node, risk : Risk, cites : SUBSET (Node \cup Edge)]

Channel == {"slack", "digest"}
Notification ==
    [node : Node, risk : Risk, cites : SUBSET (Node \cup Edge), channel : Channel]

\* The hash is taken over the node and the cited ids, and is collision free here.
Fingerprint(r) == <<r.node, r.cites>>

\* The keys of _by_fingerprint: lines 62 and 63 add to the dictionary and to the
\* feed together, nothing removes from either, so the feed determines the keys.
Fingerprints == {Fingerprint(feed[i]) : i \in DOMAIN feed}

\* What a new notification covers: its node and every cited node.
CoversNodeOnly(r) == {r.node} \* mutant: the citations are forgotten
Covers(r) == {r.node} \cup (r.cites \cap Node)

ChannelFor(r) == IF r.risk >= InterruptAt THEN "slack" ELSE "digest"

NewNotification(r) ==
    [node |-> r.node, risk |-> r.risk, cites |-> r.cites, channel |-> ChannelFor(r)]

-----------------------------------------------------------------------------

EngineInit ==
    /\ suppressed = {}
    /\ covered = {}
    /\ feed = <<>>

\* Line 43: the engine drops what a user has silenced.
Silenced(r) == r.node \in suppressed

\* Line 47: the node is already inside the evidence of an alert.
BundledNever(r) == FALSE \* mutant: the covered test is missing
Bundled(r) == r.node \in covered

Known(r) == Fingerprint(r) \in Fingerprints

\* Lines 50-52: the same fingerprint refreshes the score in the feed.
Refreshed(r) ==
    [i \in DOMAIN feed |->
        IF Fingerprint(feed[i]) = Fingerprint(r)
        THEN [feed[i] EXCEPT !.risk = r.risk] ELSE feed[i]]

\* Lines 49-68: refresh the notification with this fingerprint, or make a new one
\* whose evidence is covered from now on.
RecordAlert(r) ==
    /\ ~Bundled(r)
    /\ feed' = IF Known(r) THEN Refreshed(r) ELSE Append(feed, NewNotification(r))
    /\ covered' = IF Known(r) THEN covered ELSE covered \cup Covers(r)
    /\ UNCHANGED suppressed

\* suppress(): one atomic set insertion.
Suppress(n) ==
    /\ suppressed' = suppressed \cup {n}
    /\ UNCHANGED <<covered, feed>>

-----------------------------------------------------------------------------

EngineTypeOK ==
    /\ suppressed \subseteq Node
    /\ covered \subseteq Node
    /\ feed \in Seq(Notification)

(***************************************************************************)
(* One alert per situation: the node of a notification is never inside the *)
(* evidence of an earlier notification of the same process ("bundling so   *)
(* one incident cluster raises one alert").                                *)
(***************************************************************************)
BundlesDisjoint ==
    \A j \in DOMAIN feed : \A i \in 1..(j - 1) :
        feed[j].node # feed[i].node /\ feed[j].node \notin feed[i].cites

\* What bundling rests on: nothing a notification covers is ever uncovered.
CoveredHoldsEvidence ==
    \A i \in DOMAIN feed : Covers(feed[i]) \subseteq covered

=============================================================================
