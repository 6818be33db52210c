------------------------------ MODULE Connectors ------------------------------
(***************************************************************************)
(* The connectors of the ingestion service as its sync threads run them:   *)
(* the loop of IngestionWorker over the registered connectors, the lists a *)
(* connector pages through, the attempts of one HTTP request, the          *)
(* credential that is read again for every attempt, and the exchanges that *)
(* renew it, while time passes and the providers throttle, refuse, or do   *)
(* not answer.  The threads share the credentials without a lock.          *)
(*                                                                         *)
(* The lists stand still here and are followed by cursor, page token, link *)
(* or offset; Ingestion.tla models a list that changes under its reader,   *)
(* and what becomes of the events: dedup, publishing, the webhook.         *)
(* page_limit is None, as every factory leaves it.  Time is counted in     *)
(* units of 30 s, the timeout of the HTTP clients.                         *)
(***************************************************************************)
EXTENDS Naturals, Sequences, FiniteSets, SequencesExt, FiniteSetsExt

CONSTANTS Thread,        \* threads that may run a sync
          Deployments,   \* settings: the sources with credentials, GitHub's strategy
                         \* and repos, and whether a sync runs on start
          Items,         \* the items of every list, in the order they are listed
          Cursors,       \* values of since; 0 is None
          PageSize,      \* items of a page
          MaxRetries,    \* max_retries
          Lifetime,      \* units a renewed token lives
          MaxTime,       \* bound: the clock stops here
          MaxSyncs,      \* bound: syncs that are started
          MaxFaults      \* bound: answers that are lost or refuse, restarts

ASSUME ConnectorsAssumption ==
    /\ {PageSize, MaxRetries, Lifetime} \subseteq Nat \ {0}
    /\ {MaxSyncs, MaxFaults} \subseteq Nat /\ MaxTime \in Nat \ {0}
    /\ Cursors \subseteq Nat
    /\ \A d \in Deployments :
          /\ d.sources \subseteq {"github", "slack", "notion", "calendar", "pagerduty"}
          /\ d.github \in {"app", "oauth", "static"}
          /\ d.run_initial_sync \in BOOLEAN

Skew == 2       \* 60 s before its expiry a token counts as expired
MaxDelay == 2   \* 60 s, the longest sleep
Timeout == 1    \* an answer takes less than this, or the client gives up
Never == MaxTime + Lifetime + 1

\* A renewed token lives longer than the margin (an hour at the providers).
ASSUME LifetimeAssumption == Lifetime > Skew

VARIABLES deployment,  \* the environment variables of the process
          serving,     \* the sync on start is over
          now,         \* the clock
          window,      \* a provider that throttles does so until then
          credential,  \* _tokens, _cached: the token, its expiry, the refresh token
          authority,   \* the refresh token that GitHub accepts
          lost,        \* history: a refresh token left with nobody
          sync,        \* the state of each sync thread
          budget

clockVars == <<now, window>>
authVars == <<credential, authority, lost>>
vars == <<deployment, serving, clockVars, authVars, sync, budget>>

-----------------------------------------------------------------------------
\* The connectors in the order of main, those with credentials registered; jira is in
\* Ingestion.tla. The places from k on that are registered:
Connector == <<"github", "slack", "notion", "calendar", "pagerduty">>
RegisteredFrom(k) == {j \in DOMAIN Connector : j >= k /\ Connector[j] \in deployment.sources}

Strategy(s) ==
    CASE s = "github" -> deployment.github
      [] s = "calendar" -> "google"
      [] OTHER -> "static"

Holders == {"app", "oauth", "google"}

\* No token yet; the environment holds the first refresh token, and an expiry of 0
\* whether or not it holds an access token.
Configured == [h \in Holders |-> [token |-> 0, expires |-> 0, refresh |-> 1]]

IdleThread == [pc |-> "idle", k |-> 0, since |-> 0, listing |-> FALSE, todo |-> {},
               offset |-> 0, got |-> {}, twice |-> {}, attempt |-> 1,
               readAt |-> 0, token |-> 0, refresh |-> 0, until |-> 0]

Init ==
    /\ deployment \in Deployments
    /\ serving = ~deployment.run_initial_sync
    /\ now = 1 /\ window = 0
    /\ credential = Configured
    /\ authority = 1 /\ lost = FALSE
    /\ sync = [t \in Thread |-> IdleThread]
    /\ budget = [sync |-> MaxSyncs, fault |-> MaxFaults]

Spend(what) == budget[what] > 0 /\ budget' = [budget EXCEPT ![what] = @ - 1]
Running(t) == sync[t].pc # "idle"
At(t, pc) == sync[t].pc = pc
Source(t) == Connector[sync[t].k]
Holder(t) == Strategy(Source(t))
Becomes(t, state) == sync' = [sync EXCEPT ![t] = state]

-----------------------------------------------------------------------------
\* What the settings name, in a connector that does not list it first.
GivenIn(setting, source) ==
    CASE source = "github" -> setting.repos
      [] source = "slack" -> <<>>
      [] source = "notion" -> <<"pages">>
      [] source = "calendar" -> <<"primary">>
      [] source = "pagerduty" -> <<"account">>

Lists(setting, source) == GivenIn(setting, source) = <<>>
Directory(source) == IF source = "github" THEN <<"repos", "org">> ELSE <<"channels", "workspace">>

\* The repositories, the channels, or what is given: places in the directory or the settings.
EntriesIn(setting, source) ==
    IF Lists(setting, source)
    THEN {i \in DOMAIN Items[Directory(source)] : ~Items[Directory(source)][i].noise}
    ELSE DOMAIN GivenIn(setting, source)
Entries(source) == EntriesIn(deployment, source)

\* What is listed of an entry, one kind after the other.
Kinds(source) ==
    CASE source = "github" -> <<"pulls", "issues", "commits", "releases">>
      [] source = "slack" -> <<"history">>
      [] source = "notion" -> <<"search">>
      [] source = "calendar" -> <<"events">>
      [] source = "pagerduty" -> <<"incidents">>

\* A list is known by its entry and kind; the loops take the entries in order.
ListsOf(source, entries) == entries \X DOMAIN Kinds(source)
ListIn(setting, source, x) ==
    <<Kinds(source)[x[2]],
      IF Lists(setting, source) THEN Items[Directory(source)][x[1]].id
      ELSE GivenIn(setting, source)[x[1]]>>
ListAt(source, x) == ListIn(deployment, source, x)
First(lists) == CHOOSE x \in lists : \A y \in lists : x[1] < y[1] \/ (x[1] = y[1] /\ x[2] <= y[2])

\* Noise is a pull request among the issues, a join or leave among the messages, an
\* archived channel. An id names one item; GitHub and Notion sort by update, newest first.
ASSUME ListsAssumption ==
    /\ \A l \in DOMAIN Items :
          /\ Items[l] \in Seq(ToSet(Items[l]))
          /\ \A i \in DOMAIN Items[l] :
                /\ Items[l][i].at \in Nat /\ Items[l][i].noise \in BOOLEAN
                /\ Items[l][i].noise => l[1] \in {"issues", "history", "channels"}
          /\ l[1] \in {"pulls", "search"} =>
                \A i, j \in DOMAIN Items[l] : i <= j => Items[l][j].at <= Items[l][i].at
    /\ \A l, m \in DOMAIN Items : \A i \in DOMAIN Items[l], j \in DOMAIN Items[m] :
          /\ ~Items[l][i].noise /\ ~Items[m][j].noise /\ Items[l][i].id = Items[m][j].id
          => l = m /\ i = j
    /\ \A d \in Deployments : \A source \in d.sources :
          /\ Lists(d, source) => Directory(source) \in DOMAIN Items
          /\ GivenIn(d, source) \in Seq(ToSet(GivenIn(d, source)))
          /\ \A i, j \in DOMAIN GivenIn(d, source) :
                GivenIn(d, source)[i] = GivenIn(d, source)[j] => i = j
          /\ \A x \in ListsOf(source, EntriesIn(d, source)) : ListIn(d, source, x) \in DOMAIN Items

-----------------------------------------------------------------------------
\* The items the provider returns: those since the cursor, where the request names it.
Served(list, since) ==
    {i \in DOMAIN Items[list] :
        CASE list[1] \in {"issues", "commits", "events", "incidents"} -> Items[list][i].at >= since
          [] list[1] = "history" -> since = 0 \/ Items[list][i].at > since
          [] OTHER -> TRUE}

Before(list, since, i) == Cardinality({j \in Served(list, since) : j < i})

PageOf(list, since, offset) ==
    {i \in Served(list, since) : Before(list, since, i) \in offset..(offset + PageSize - 1)}

Stale(item, since) == since # 0 /\ item.at <= since

\* The items of a page up to the first stale one, where the loop stops there.
FreshPrefix(list, page, since) ==
    {i \in page : \A j \in page : j <= i => ~Stale(Items[list][j], since)}

StopsEarly(list) == list[1] \in {"pulls", "search"}

KeptStoppingEarly(list, page, since) == \* mutant: every list is taken to be newest first
    {i \in FreshPrefix(list, page, since) : ~Items[list][i].noise}

\* What the connector takes from a page.
Kept(list, page, since) ==
    CASE StopsEarly(list) -> FreshPrefix(list, page, since)
      [] list[1] \in {"issues", "commits", "releases"} ->
            {i \in page : ~Items[list][i].noise /\ ~Stale(Items[list][i], since)}
      [] OTHER -> {i \in page : ~Items[list][i].noise}

LastPage(list, page, since, offset) ==
    \/ offset + PageSize >= Cardinality(Served(list, since))
    \/ StopsEarly(list) /\ FreshPrefix(list, page, since) # page

-----------------------------------------------------------------------------
\* IngestionWorker: run_initial_sync on start and for POST /sync, run_incremental_sync
\* with a cursor.
Opened(t, k, since) ==
    IF RegisteredFrom(k) = {} THEN IdleThread
    ELSE LET next == Min(RegisteredFrom(k))
             source == Connector[next]
             listing == Lists(deployment, source)
         IN [IdleThread EXCEPT !.pc = "ask", !.k = next, !.since = since, !.listing = listing,
                !.todo = IF listing THEN {} ELSE ListsOf(source, Entries(source))]

StartSync(t) ==
    /\ ~Running(t)
    /\ serving \/ \A u \in Thread : ~Running(u)
    /\ Spend("sync")
    /\ \E since \in IF serving THEN Cursors ELSE {0} : Becomes(t, Opened(t, 1, since))
    /\ UNCHANGED <<deployment, serving, clockVars, authVars>>

\* _collect returns; the loop goes on to the next connector.
HandOver(t) ==
    /\ At(t, "collected")
    /\ Becomes(t, Opened(t, sync[t].k + 1, sync[t].since))
    /\ serving' = (serving \/ RegisteredFrom(sync[t].k + 1) = {})
    /\ UNCHANGED <<deployment, clockVars, authVars, budget>>

\* The process starts again from its environment: the refresh token it was given by
\* GitHub since then is gone.
StartOver ==
    /\ serving' = ~deployment.run_initial_sync
    /\ credential' = Configured
    /\ lost' = (lost \/ authority # Configured["oauth"].refresh)
    /\ sync' = [t \in Thread |-> IdleThread]

Restart ==
    /\ Spend("fault")
    /\ StartOver
    /\ UNCHANGED <<deployment, clockVars, authority>>

\* An exception leaves the connector and the loop of the worker. It fails the request
\* that asked for the sync; on start nothing catches it, and the process ends.
Raise(t) ==
    IF serving
    THEN Becomes(t, IdleThread) /\ UNCHANGED <<serving, credential, lost>>
    ELSE StartOver

-----------------------------------------------------------------------------
\* token(), header(): called for the headers of every attempt.
FreshWithoutSkew(h) == now < credential[h].expires \* mutant
Fresh(h) == now + Skew < credential[h].expires

Send(t, token) ==
    Becomes(t, [sync[t] EXCEPT !.pc = "send", !.readAt = now, !.token = token, !.refresh = 0])

Ask(t) ==
    /\ At(t, "ask")
    /\ IF Holder(t) = "static" THEN Send(t, Never)
       ELSE IF Fresh(Holder(t)) THEN Send(t, credential[Holder(t)].token)
       ELSE Becomes(t, [sync[t] EXCEPT !.pc = "renew", !.readAt = now])
    /\ UNCHANGED <<deployment, serving, clockVars, authVars, budget>>

\* The provider takes a refresh token, which GitHub accepts once, or the app's JWT.
Accepted(t) == Holder(t) = "oauth" => credential["oauth"].refresh = authority
Rotates(t) == Holder(t) = "oauth" /\ authority' = authority + 1

Renewed(t) ==
    /\ At(t, "renew")
    /\ Accepted(t)
    /\ Rotates(t) \/ (Holder(t) # "oauth" /\ UNCHANGED authority)
    /\ Becomes(t, [sync[t] EXCEPT !.pc = "keep", !.token = now + Lifetime,
                       !.refresh = IF Holder(t) = "oauth" THEN authority'
                                   ELSE credential[Holder(t)].refresh])
    /\ UNCHANGED <<deployment, serving, clockVars, credential, lost, budget>>

\* The token that another thread has renewed in between; a refused or lost request.
NotRenewed(t) ==
    /\ At(t, "renew")
    /\ (~Accepted(t) /\ UNCHANGED budget) \/ Spend("fault")
    /\ Raise(t)
    /\ UNCHANGED <<deployment, clockVars, authority>>

\* GitHub has rotated the refresh token, and the answer is lost.
RenewalLost(t) ==
    /\ At(t, "renew") /\ Accepted(t)
    /\ Spend("fault")
    /\ Rotates(t)
    /\ IF serving
       THEN Becomes(t, IdleThread) /\ lost' = TRUE /\ UNCHANGED <<serving, credential>>
       ELSE /\ credential' = Configured /\ lost' = TRUE
            /\ sync' = [u \in Thread |-> IdleThread] /\ UNCHANGED serving
    /\ UNCHANGED <<deployment, clockVars>>

\* The expiry that is noted: from_response adds the lifetime to the time of the answer,
\* Google's provider to the time before the request, and GitHub names its own.
Expiry(t) ==
    CASE Holder(t) = "oauth" -> now + Lifetime
      [] Holder(t) = "google" -> sync[t].readAt + Lifetime
      [] Holder(t) = "app" -> sync[t].token

KeepWithoutRotation(t) == \* mutant: the refresh token of the environment is kept
    /\ At(t, "keep")
    /\ credential' = [credential EXCEPT ![Holder(t)] =
                        [@ EXCEPT !.token = sync[t].token, !.expires = Expiry(t)]]
    /\ Send(t, sync[t].token)
    /\ UNCHANGED <<deployment, serving, clockVars, authority, lost, budget>>

Keep(t) ==
    /\ At(t, "keep")
    /\ credential' = [credential EXCEPT ![Holder(t)] =
                        [token |-> sync[t].token, expires |-> Expiry(t),
                         refresh |-> sync[t].refresh]]
    /\ Send(t, sync[t].token)
    /\ UNCHANGED <<deployment, serving, clockVars, authority, lost, budget>>

-----------------------------------------------------------------------------
\* The answers to an attempt. The next attempt will read the token again.
Waiting(t, pc) == [sync[t] EXCEPT !.pc = pc, !.readAt = 0, !.token = 0]

Current(t) ==
    IF sync[t].listing THEN Directory(Source(t)) ELSE ListAt(Source(t), First(sync[t].todo))

\* The page after this one of the same list.
NextRequest(t, todo) ==
    [Waiting(t, "ask") EXCEPT !.attempt = 1, !.offset = @ + PageSize, !.todo = todo]

\* The first page of the list after this one, or the end of _collect.
NextList(t, todo) ==
    [Waiting(t, IF todo = {} THEN "collected" ELSE "ask") EXCEPT
        !.attempt = 1, !.offset = 0, !.listing = FALSE, !.todo = todo]

\* A page of a directory brings lists to read, a page of a list its items.
Answered(t) ==
    /\ At(t, "send") /\ now < sync[t].token /\ now >= window
    /\ LET since == sync[t].since
           list == Current(t)
           page == PageOf(list, since, sync[t].offset)
           kept == Kept(list, page, since)
           last == LastPage(list, page, since, sync[t].offset)
           todo == sync[t].todo
           items == {Items[list][i].id : i \in kept}
       IN IF sync[t].listing
          THEN LET more == todo \cup ListsOf(Source(t), kept)
               IN Becomes(t, IF last THEN NextList(t, more) ELSE NextRequest(t, more))
          ELSE Becomes(t, [IF last THEN NextList(t, todo \ {First(todo)}) ELSE NextRequest(t, todo)
                           EXCEPT !.got = @ \cup items, !.twice = @ \cup (items \cap sync[t].got)])
    /\ UNCHANGED <<deployment, serving, clockVars, authVars, budget>>

\* 401 for an expired token; any other 4xx, {"ok": false} of Slack, no answer in time.
Refused(t) ==
    /\ At(t, "send")
    /\ IF now >= sync[t].token THEN UNCHANGED budget ELSE Spend("fault")
    /\ Raise(t)
    /\ UNCHANGED <<deployment, clockVars, authority>>

\* Retry-After and X-RateLimit-Reset name the end of the window, as far as MaxDelay;
\* a 5xx names none, and the jitter may be anything.
Delays == IF window' > now THEN {Min({window' - now, MaxDelay})} ELSE {0, 1}

AttemptsLeftOffByOne(t) == sync[t].attempt <= MaxRetries \* mutant
AttemptsLeft(t) == sync[t].attempt < MaxRetries

\* 429, 5xx, or 403 of a rate limit.
Throttled(t) ==
    /\ At(t, "send")
    /\ \/ now < window /\ UNCHANGED <<window, budget>>
       \/ Spend("fault") /\ window' \in {window, now + MaxDelay + 1}
    /\ IF AttemptsLeft(t)
       THEN /\ \E delay \in Delays :
                 Becomes(t, [Waiting(t, "sleep") EXCEPT !.until = Min({now + delay, MaxTime})])
            /\ UNCHANGED <<serving, credential, lost>>
       ELSE Raise(t)
    /\ UNCHANGED <<deployment, now, authority>>

Wake(t) ==
    /\ At(t, "sleep") /\ now >= sync[t].until
    /\ Becomes(t, [sync[t] EXCEPT !.pc = "ask", !.attempt = @ + 1, !.until = 0])
    /\ UNCHANGED <<deployment, serving, clockVars, authVars, budget>>

\* A request leaves, and an answer arrives, within the timeout.
Tick ==
    /\ now < MaxTime
    /\ \A t \in Thread :
          /\ At(t, "send") => now < sync[t].readAt + Timeout
          /\ At(t, "keep") => now < sync[t].token - Lifetime + Timeout
    /\ now' = now + 1
    /\ UNCHANGED <<deployment, serving, window, authVars, sync, budget>>

Step(t) ==
    \/ HandOver(t) \/ Ask(t) \/ Renewed(t) \/ NotRenewed(t) \/ RenewalLost(t) \/ Keep(t)
    \/ Answered(t) \/ Refused(t) \/ Throttled(t) \/ Wake(t)

Next == Restart \/ Tick \/ \E t \in Thread : StartSync(t) \/ Step(t)

Spec == Init /\ [][Next]_vars

-----------------------------------------------------------------------------
\* Every variable holds a value of its type.
TypeOK ==
    /\ deployment \in Deployments
    /\ {serving, lost} \subseteq BOOLEAN
    /\ now \in 1..MaxTime /\ {window, authority} \subseteq Nat
    /\ credential \in [Holders -> [token : Nat, expires : Nat, refresh : Nat]]
    /\ \A t \in Thread :
          /\ sync[t].pc \in {"idle", "ask", "renew", "keep", "send", "sleep", "collected"}
          /\ Running(t) => sync[t].k \in RegisteredFrom(1)
          /\ sync[t].attempt \in 1..MaxRetries
          /\ Running(t) => (sync[t].todo = {} /\ ~sync[t].listing <=> At(t, "collected"))

\* calendar/auth.py: the client re-reads the token per request "and never sends a stale
\* token". Whatever the threads renew meanwhile, however long the answers take and the
\* client sleeps between attempts, the token of a request has not expired when it leaves.
TokensAreLive == \A t \in Thread : At(t, "send") => now < sync[t].token

Storing(t) == At(t, "keep") /\ Holder(t) = "oauth"

\* GitHub accepts a refresh token once. The process, or the one thread that is about to
\* store it, holds the token that is accepted now, however many threads renew at a time:
\* only an answer that is lost or a restart locks the connector out.
LockoutIsExplained ==
    \/ lost \/ credential["oauth"].refresh = authority
    \/ Cardinality({t \in Thread : Storing(t) /\ sync[t].refresh = authority}) = 1

\* What a connector owes of a list it reaches: all that is no noise and newer than the
\* cursor (calendars and incidents: not older); a directory it reads whole.
Wanted(list, i, since) ==
    /\ ~Items[list][i].noise
    /\ \/ since = 0 \/ Items[list][i].at > since
       \/ list[1] \in {"events", "incidents"} /\ Items[list][i].at = since
       \/ list[1] \in {"repos", "channels"}
Owed(source, since) ==
    UNION {{Items[list][i].id : i \in {j \in DOMAIN Items[list] : Wanted(list, j, since)}} :
              list \in {ListAt(source, x) : x \in ListsOf(source, Entries(source))}}

\* A connector that returns has collected each item it owes, none in two answers, and
\* nothing else: no retry, renewal or early stop loses a page or reads it twice.
PassIsComplete ==
    \A t \in Thread : At(t, "collected") =>
        /\ sync[t].got = Owed(Source(t), sync[t].since)
        /\ sync[t].twice = {}
=============================================================================
