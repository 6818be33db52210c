------------------------------- MODULE Ingestion -------------------------------
(***************************************************************************)
(* The ingestion service (services/ingestion-service) over one source that *)
(* is listed newest first and paged by offset: sync threads that page      *)
(* through the listing, drop the ids the process has already seen and      *)
(* publish the rest on raw.events, while the source changes under them;    *)
(* the webhook receiver; requests and publishes that raise; restarts.      *)
(*                                                                         *)
(* The listing is Jira's (issues by last update, startAt and total); page  *)
(* numbers of GitHub's pull requests move the same way.  No page_limit is  *)
(* set, which is the default of every connector.                           *)
(***************************************************************************)
EXTENDS Naturals, Sequences, FiniteSets

CONSTANTS Object,           \* issues, incidents, pull requests of the source
          Thread,           \* threads that may run a sync
          PageSize,         \* page_size
          MaxChanges,       \* bound: updates of an object
          MaxRemovals,      \* bound: objects that leave the listing
          MaxSyncs,         \* bound: syncs that are started
          MaxWebhooks,      \* bound: webhook deliveries
          MaxFaults         \* bound: failed requests, failed publishes, crashes

ASSUME IngestionAssumption ==
    /\ IsFiniteSet(Object)
    /\ PageSize \in Nat \ {0}
    /\ {MaxChanges, MaxRemovals, MaxSyncs, MaxWebhooks, MaxFaults} \subseteq Nat

VARIABLES listing,    \* the source: its objects, last updated first
          version,    \* how often each object was created or updated
          serving,    \* the HTTP server is up: the sync on start is over
          seen,       \* _seen of the connector
          sync,       \* the state of each sync thread
          published,  \* topic raw.events
          synced,     \* history: objects a sync of this process has published
          abandoned,  \* history: objects a sync of this process failed to publish
          budget

sourceVars == <<listing, version>>
historyVars == <<synced, abandoned>>
vars == <<sourceVars, serving, seen, sync, published, historyVars, budget>>

Event == Object \X (Nat \ {0})
Ids(events) == {events[i][1] : i \in DOMAIN events}
Listed == {listing[i] : i \in DOMAIN listing}
Idle == [pc |-> "idle", start |-> 0, events |-> <<>>, fresh |-> <<>>, next |-> 1,
         touched |-> {}, shrunk |-> FALSE]

Spend(what) == budget[what] > 0 /\ budget' = [budget EXCEPT ![what] = @ - 1]
Running(t) == sync[t].pc # "idle"
Becomes(t, state) == sync' = [sync EXCEPT ![t] = state]

Init ==
    /\ listing \in [1..Cardinality(Object) -> Object]
    /\ Listed = Object
    /\ version = [o \in Object |-> 1]
    /\ serving = FALSE
    /\ seen = {}
    /\ sync = [t \in Thread |-> Idle]
    /\ published = <<>>
    /\ synced = {} /\ abandoned = {}
    /\ budget = [change |-> MaxChanges, remove |-> MaxRemovals, sync |-> MaxSyncs,
                 webhook |-> MaxWebhooks, fault |-> MaxFaults]

-----------------------------------------------------------------------------
\* The source. Every running sync remembers what changed since it began.
Without(o) ==
    IF o \in Listed
    THEN LET i == CHOOSE j \in DOMAIN listing : listing[j] = o
         IN SubSeq(listing, 1, i - 1) \o SubSeq(listing, i + 1, Len(listing))
    ELSE listing

\* An object is created or updated: it is listed first.
Change(o) ==
    /\ Spend("change")
    /\ listing' = <<o>> \o Without(o)
    /\ version' = [version EXCEPT ![o] = @ + 1]
    /\ sync' = [t \in Thread |->
                  IF Running(t) THEN [sync[t] EXCEPT !.touched = @ \cup {o}] ELSE sync[t]]
    /\ UNCHANGED <<serving, seen, published, historyVars>>

\* An object is deleted or moves to another project.
Remove(o) ==
    /\ o \in Listed
    /\ Spend("remove")
    /\ listing' = Without(o)
    /\ sync' = [t \in Thread |->
                  IF Running(t) THEN [sync[t] EXCEPT !.touched = @ \cup {o}, !.shrunk = TRUE]
                  ELSE sync[t]]
    /\ UNCHANGED <<version, serving, seen, published, historyVars>>

-----------------------------------------------------------------------------
\* The sync on start runs alone, before the HTTP server; POST /sync in a thread of
\* the pool, next to any other.
StartSync(t) ==
    /\ ~Running(t)
    /\ serving \/ \A u \in Thread : ~Running(u)
    /\ Spend("sync")
    /\ Becomes(t, [sync[t] EXCEPT !.pc = "page"])
    /\ UNCHANGED <<sourceVars, serving, seen, published, historyVars>>

\* The items of a page, at the offset, with the versions they have now.
Page(start) ==
    [i \in 1..Cardinality({j \in 1..PageSize : start + j <= Len(listing)}) |->
        <<listing[start + i], version[listing[start + i]]>>]

NextStartFullPages(t) == sync[t].start + PageSize \* mutant: a short page counts as full
NextStart(t) == sync[t].start + Len(Page(sync[t].start))

LastPageOffByOne(t) == NextStart(t) + 1 >= Len(listing) \* mutant
LastPage(t) == Page(sync[t].start) = <<>> \/ NextStart(t) >= Len(listing)

ReadPageMarksSeen(t) == \* mutant: the ids of a page are marked as it arrives
    /\ sync[t].pc = "page"
    /\ Becomes(t, [sync[t] EXCEPT !.events = @ \o Page(sync[t].start),
                                  !.fresh = @ \o SelectSeq(Page(sync[t].start),
                                                           LAMBDA e : e[1] \notin seen),
                                  !.start = NextStart(t),
                                  !.pc = IF LastPage(t) THEN "publish" ELSE "page"])
    /\ seen' = seen \cup Ids(Page(sync[t].start))
    /\ UNCHANGED <<sourceVars, serving, published, historyVars, budget>>

\* One request of the loop in _collect.
ReadPage(t) ==
    /\ sync[t].pc = "page"
    /\ Becomes(t, [sync[t] EXCEPT !.events = @ \o Page(sync[t].start),
                                  !.start = NextStart(t),
                                  !.pc = IF LastPage(t) THEN "test" ELSE "page"])
    /\ UNCHANGED <<sourceVars, serving, seen, published, historyVars, budget>>

\* dedup(), line 45: an id that was seen is dropped; a new one goes on to line 47.
DedupTest(t) ==
    /\ sync[t].pc = "test"
    /\ sync[t].next <= Len(sync[t].events)
    /\ IF sync[t].events[sync[t].next][1] \in seen
       THEN Becomes(t, [sync[t] EXCEPT !.next = @ + 1])
       ELSE Becomes(t, [sync[t] EXCEPT !.pc = "add"])
    /\ UNCHANGED <<sourceVars, serving, seen, published, historyVars, budget>>

\* dedup(), lines 47-48; another thread may have come between the test and this.
DedupAdd(t) ==
    /\ sync[t].pc = "add"
    /\ LET e == sync[t].events[sync[t].next] IN
         /\ seen' = seen \cup {e[1]}
         /\ Becomes(t, [sync[t] EXCEPT !.fresh = Append(@, e), !.next = @ + 1, !.pc = "test"])
    /\ UNCHANGED <<sourceVars, serving, published, historyVars, budget>>

Collected(t) ==
    /\ sync[t].pc = "test"
    /\ sync[t].next > Len(sync[t].events)
    /\ Becomes(t, [sync[t] EXCEPT !.pc = "publish", !.next = 1])
    /\ UNCHANGED <<sourceVars, serving, seen, published, historyVars, budget>>

\* One turn of the loop of run_initial_sync.
PublishNext(t) ==
    /\ sync[t].pc = "publish"
    /\ sync[t].next <= Len(sync[t].fresh)
    /\ published' = Append(published, sync[t].fresh[sync[t].next])
    /\ synced' = synced \cup {sync[t].fresh[sync[t].next][1]}
    /\ Becomes(t, [sync[t] EXCEPT !.next = @ + 1])
    /\ UNCHANGED <<sourceVars, serving, seen, abandoned, budget>>

\* The sync is over; after the one on start the server comes up.
Finish(t) ==
    /\ sync[t].pc = "publish"
    /\ sync[t].next > Len(sync[t].fresh)
    /\ Becomes(t, Idle)
    /\ serving' = TRUE
    /\ UNCHANGED <<sourceVars, seen, published, historyVars, budget>>

\* What thread t has marked as seen and not published yet.
Pending(t) ==
    IF sync[t].pc = "publish"
    THEN {sync[t].fresh[i][1] : i \in sync[t].next..Len(sync[t].fresh)}
    ELSE Ids(sync[t].fresh)

NewProcess ==
    /\ serving' = FALSE
    /\ seen' = {}
    /\ sync' = [t \in Thread |-> Idle]
    /\ synced' = {} /\ abandoned' = {}

\* A request that fails for good, or a publish that raises, ends the sync: the request
\* is answered 500, or, on start, the process exits.
SyncRaises(t) ==
    /\ \/ sync[t].pc = "page"
       \/ sync[t].pc = "publish" /\ sync[t].next <= Len(sync[t].fresh)
    /\ Spend("fault")
    /\ IF serving
       THEN /\ abandoned' = IF sync[t].pc = "publish" THEN abandoned \cup Pending(t)
                                                         ELSE abandoned
            /\ Becomes(t, Idle)
            /\ UNCHANGED <<serving, seen, synced>>
       ELSE NewProcess
    /\ UNCHANGED <<sourceVars, published>>

\* POST /webhooks/github: published as it comes, past the dedup; a delivery carries the
\* version it was sent for and may be late.
Webhook(o, v) ==
    /\ serving
    /\ Spend("webhook")
    /\ published' = Append(published, <<o, v>>)
    /\ UNCHANGED <<sourceVars, serving, seen, sync, historyVars>>

Crash ==
    /\ Spend("fault")
    /\ NewProcess
    /\ UNCHANGED <<sourceVars, published>>

-----------------------------------------------------------------------------
Next ==
    \/ \E o \in Object : Change(o) \/ Remove(o) \/ \E v \in 1..version[o] : Webhook(o, v)
    \/ \E t \in Thread : \/ StartSync(t) \/ ReadPage(t)
                         \/ DedupTest(t) \/ DedupAdd(t) \/ Collected(t)
                         \/ PublishNext(t) \/ Finish(t) \/ SyncRaises(t)
    \/ Crash

Spec == Init /\ [][Next]_vars

-----------------------------------------------------------------------------
TypeOK ==
    /\ listing \in Seq(Object)
    /\ version \in [Object -> Nat \ {0}]
    /\ serving \in BOOLEAN
    /\ seen \subseteq Object
    /\ sync \in [Thread -> [pc : {"idle", "page", "test", "add", "publish"},
                            start : 0..Cardinality(Object),
                            events : Seq(Event), fresh : Seq(Event), next : Nat \ {0},
                            touched : SUBSET Object, shrunk : BOOLEAN]]
    /\ published \in Seq(Event)
    /\ synced \subseteq Object
    /\ abandoned \subseteq Object
    /\ budget \in [{"change", "remove", "sync", "webhook", "fault"} -> Nat]

(***************************************************************************)
(* Paging over a listing that moves: an object that nobody touched while a *)
(* sync paged is in what the sync collected, whatever was inserted or      *)
(* moved to the front meanwhile, unless an object left the listing.        *)
(***************************************************************************)
UntouchedAreCollected ==
    \A t \in Thread :
        sync[t].pc \in {"test", "add", "publish"} /\ ~sync[t].shrunk =>
            Listed \ sync[t].touched \subseteq Ids(sync[t].events)

(***************************************************************************)
(* What the process will skip from now on was published by one of its      *)
(* syncs, or a running sync is about to, or its publish raised: a failed   *)
(* request marks nothing as seen, with any number of syncs in parallel.    *)
(***************************************************************************)
SeenIsPublished ==
    seen \subseteq synced \cup abandoned \cup UNION {Pending(t) : t \in Thread}
=============================================================================
