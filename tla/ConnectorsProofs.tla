-------------------------- MODULE ConnectorsProofs --------------------------
(***************************************************************************)
(* Proofs about Connectors, for every set of threads, every deployment and *)
(* every list, every page size and every bound: a refresh token is lost    *)
(* only by a lost answer or a restart, the token of a request has not      *)
(* expired when it leaves, and a connector that returns has collected what *)
(* it owes, once.                                                          *)
(***************************************************************************)
EXTENDS Connectors, FiniteSetTheorems, WellFoundedInduction, TLAPS

\* The fields of a thread's state, whose values the proofs mostly leave open.
Fields == DOMAIN IdleThread
Framed(s) == s = [f \in Fields |-> s[f]]

\* What both invariants need to know of the variables' types.
Shape ==
    /\ deployment \in Deployments
    /\ lost \in BOOLEAN
    /\ authority \in Nat
    /\ credential \in [Holders -> [token : Nat, expires : Nat, refresh : Nat]]
    /\ sync = [t \in Thread |-> sync[t]]
    /\ \A t \in Thread :
          /\ Framed(sync[t])
          /\ sync[t].refresh \in Nat /\ sync[t].readAt \in Nat /\ sync[t].token \in Nat
    /\ now \in Nat

\* Only a thread whose token is no static one renews it.
Renewing == \A t \in Thread : sync[t].pc \in {"renew", "keep"} => Holder(t) \in Holders

-----------------------------------------------------------------------------
LEMMA Constants ==
    /\ Lifetime \in Nat /\ Lifetime > 2 /\ MaxTime \in Nat
    /\ Never \in Nat
PROOF BY ConnectorsAssumption, LifetimeAssumption DEF Skew, Never

LEMMA FieldNames ==
    Fields = {"pc", "k", "since", "listing", "todo", "offset", "got", "twice", "attempt",
              "readAt", "token", "refresh", "until"}
PROOF BY DEF Fields, IdleThread

LEMMA IdleFramed ==
    /\ Framed(IdleThread) /\ IdleThread.pc = "idle" /\ IdleThread.refresh = 0
    /\ IdleThread.readAt = 0 /\ IdleThread.token = 0
PROOF BY DEF Framed, Fields, IdleThread

LEMMA OpenedFramed ==
    ASSUME NEW t, NEW k, NEW since
    PROVE  LET s == Opened(t, k, since)
           IN /\ Framed(s) /\ s.pc \in {"idle", "ask"} /\ s.refresh = 0
              /\ s.readAt = 0 /\ s.token = 0
<1>1. CASE RegisteredFrom(k) = {}
  BY <1>1, IdleFramed DEF Opened
<1>2. CASE RegisteredFrom(k) # {}
  <2>1. PICK next, listing, todo : Opened(t, k, since) =
            [IdleThread EXCEPT !.pc = "ask", !.k = next, !.since = since, !.listing = listing,
               !.todo = todo]
    BY <1>2 DEF Opened
  <2> QED BY <2>1, IdleFramed, FieldNames DEF Framed
<1> QED BY <1>1, <1>2

\* A holder is one of the three that renew, unless its token is static.
LEMMA HolderKinds ==
    ASSUME deployment \in Deployments, NEW t \in Thread
    PROVE  Holder(t) \in Holders \cup {"static"}
<1>1. deployment.github \in {"app", "oauth", "static"}
  BY ConnectorsAssumption
<1> QED BY <1>1 DEF Holder, Strategy, Holders

-----------------------------------------------------------------------------
\* The state of a thread that holds no token and asks nobody for one.
Settled(s) ==
    /\ Framed(s)
    /\ s.pc \notin {"renew", "keep", "send"}
    /\ s.refresh \in Nat /\ s.readAt \in Nat /\ s.token \in Nat

\* Most steps of a thread leave the credentials alone and the thread settled.
Settles(t) ==
    /\ ~At(t, "keep")
    /\ \E s : Settled(s) /\ Becomes(t, s)
    /\ UNCHANGED <<credential, lost>>

Standing == UNCHANGED <<deployment, now, authority>>

LEMMA IdleSettled == Settled(IdleThread)
PROOF BY IdleFramed DEF Settled

LEMMA OpenedSettled ==
    ASSUME NEW t, NEW k, NEW since
    PROVE  Settled(Opened(t, k, since))
PROOF BY OpenedFramed DEF Settled

LEMMA WaitingSettled ==
    ASSUME NEW t \in Thread, Framed(sync[t]), sync[t].refresh \in Nat,
           NEW pc \in {"ask", "collected", "sleep"}
    PROVE  Settled(Waiting(t, pc))
PROOF BY FieldNames DEF Waiting, Settled, Framed

LEMMA RaiseSettles ==
    ASSUME NEW t \in Thread, Raise(t), ~At(t, "keep")
    PROVE  Settles(t) \/ StartOver
PROOF BY IdleSettled DEF Raise, Settles

\* The steps that end an attempt, a page, a list, a connector or a sleep.
LEMMA StartSyncSettles ==
    ASSUME NEW t \in Thread, StartSync(t)
    PROVE  Settles(t) /\ Standing
<1>1. PICK since \in IF serving THEN Cursors ELSE {0} : Becomes(t, Opened(t, 1, since))
  BY DEF StartSync
<1>2. ~At(t, "keep")
  BY DEF StartSync, Running, At
<1> QED BY <1>1, <1>2, OpenedSettled DEF StartSync, Settles, Standing, clockVars, authVars

LEMMA HandOverSettles ==
    ASSUME NEW t \in Thread, HandOver(t)
    PROVE  Settles(t) /\ Standing
<1>1. Settled(Opened(t, sync[t].k + 1, sync[t].since))
  BY OpenedSettled
<1> QED BY <1>1 DEF HandOver, At, Settles, Standing, clockVars, authVars

LEMMA AnsweredSettles ==
    ASSUME Shape, NEW t \in Thread, Answered(t)
    PROVE  Settles(t) /\ Standing
<1>1. \A pc \in {"ask", "collected"} : Settled(Waiting(t, pc))
  BY WaitingSettled DEF Shape
<1>2. ASSUME NEW todo
      PROVE  Settled(NextRequest(t, todo)) /\ Settled(NextList(t, todo))
  <2>1. PICK pc \in {"ask", "collected"} :
            NextList(t, todo) = [Waiting(t, pc) EXCEPT !.attempt = 1, !.offset = 0,
                                   !.listing = FALSE, !.todo = todo]
    BY DEF NextList
  <2> QED BY <1>1, <2>1, FieldNames DEF NextRequest, Settled, Framed
<1>3. PICK s : Settled(s) /\ (Becomes(t, s) \/
                 \E got, twice : Becomes(t, [s EXCEPT !.got = got, !.twice = twice]))
  BY <1>2 DEF Answered
<1>4. ASSUME NEW got, NEW twice PROVE Settled([s EXCEPT !.got = got, !.twice = twice])
  BY <1>3, FieldNames DEF Settled, Framed
<1> QED BY <1>3, <1>4 DEF Answered, At, Settles, Standing, clockVars, authVars

LEMMA NotRenewedSettles ==
    ASSUME NEW t \in Thread, NotRenewed(t)
    PROVE  (Settles(t) \/ StartOver) /\ Standing
PROOF BY RaiseSettles DEF NotRenewed, At, Standing, clockVars

LEMMA RefusedSettles ==
    ASSUME NEW t \in Thread, Refused(t)
    PROVE  (Settles(t) \/ StartOver) /\ Standing
PROOF BY RaiseSettles DEF Refused, At, Standing, clockVars

LEMMA ThrottledSettles ==
    ASSUME Shape, NEW t \in Thread, Throttled(t)
    PROVE  (Settles(t) \/ StartOver) /\ Standing
<1>1. CASE AttemptsLeft(t)
  <2>1. PICK until : Becomes(t, [Waiting(t, "sleep") EXCEPT !.until = until])
    BY <1>1 DEF Throttled
  <2>2. Settled(Waiting(t, "sleep"))
    BY WaitingSettled DEF Shape
  <2>3. Settled([Waiting(t, "sleep") EXCEPT !.until = until])
    BY <2>2, FieldNames DEF Settled, Framed
  <2> QED BY <1>1, <2>1, <2>3 DEF Throttled, At, Settles, Standing
<1>2. CASE ~AttemptsLeft(t)
  BY <1>2, RaiseSettles DEF Throttled, At, Standing
<1> QED BY <1>1, <1>2

LEMMA WakeSettles ==
    ASSUME Shape, NEW t \in Thread, Wake(t)
    PROVE  Settles(t) /\ Standing
<1>1. /\ Framed(sync[t]) /\ sync[t].refresh \in Nat /\ sync[t].readAt \in Nat
      /\ sync[t].token \in Nat
  BY DEF Shape
<1>2. ASSUME NEW attempt
      PROVE  Settled([sync[t] EXCEPT !.pc = "ask", !.attempt = attempt, !.until = 0])
  BY <1>1, FieldNames DEF Settled, Framed
<1>3. Settled([sync[t] EXCEPT !.pc = "ask", !.attempt = @ + 1, !.until = 0])
  BY <1>2
<1> QED BY <1>3 DEF Wake, At, Settles, Standing, clockVars, authVars

-----------------------------------------------------------------------------
LEMMA ShapeInit == Init => Shape
<1> SUFFICES ASSUME Init PROVE Shape
  OBVIOUS
<1>1. Configured \in [Holders -> [token : Nat, expires : Nat, refresh : Nat]]
  BY DEF Configured
<1>2. sync = [t \in Thread |-> IdleThread] /\ credential = Configured
  BY DEF Init
<1>3. sync = [t \in Thread |-> sync[t]] /\ \A t \in Thread : sync[t] = IdleThread
  BY <1>2
<1>4. deployment \in Deployments /\ lost \in BOOLEAN /\ authority \in Nat /\ now \in Nat
  BY DEF Init
<1> QED BY <1>1, <1>2, <1>3, <1>4, IdleFramed DEF Shape

\* What a step does to one thread leaves the others as they are.
LEMMA OneMoves ==
    ASSUME Shape, NEW t \in Thread, NEW s, Becomes(t, s), Framed(s),
           s.refresh \in Nat, s.readAt \in Nat, s.token \in Nat
    PROVE  /\ sync' = [u \in Thread |-> sync'[u]]
           /\ sync'[t] = s
           /\ \A u \in Thread \ {t} : sync'[u] = sync[u]
           /\ \A u \in Thread :
                /\ Framed(sync'[u])
                /\ sync'[u].refresh \in Nat /\ sync'[u].readAt \in Nat /\ sync'[u].token \in Nat
<1>1. sync' = [u \in Thread |-> IF u = t THEN s ELSE sync[u]]
  BY DEF Shape, Becomes
<1> QED BY <1>1 DEF Shape

LEMMA SettlesShape ==
    ASSUME Shape, NEW t \in Thread, Settles(t), Standing, now' \in Nat
    PROVE  Shape'
<1>1. PICK s : Settled(s) /\ Becomes(t, s)
  BY DEF Settles
<1>2. /\ sync' = [u \in Thread |-> sync'[u]]
      /\ \A u \in Thread :
            /\ Framed(sync'[u])
            /\ sync'[u].refresh \in Nat /\ sync'[u].readAt \in Nat /\ sync'[u].token \in Nat
  BY <1>1, OneMoves DEF Settled
<1> QED BY <1>2 DEF Shape, Settles, Standing, Framed

LEMMA StartOverShape ==
    ASSUME Shape, StartOver, deployment' = deployment, authority' = authority, now' = now
    PROVE  Shape'
<1>1. Configured \in [Holders -> [token : Nat, expires : Nat, refresh : Nat]]
  BY DEF Configured
<1>2. lost' \in BOOLEAN
  BY DEF StartOver
<1>3. /\ sync' = [u \in Thread |-> sync'[u]]
      /\ \A u \in Thread : sync'[u] = IdleThread
  BY DEF StartOver
<1> QED BY <1>1, <1>2, <1>3, IdleFramed DEF Shape, StartOver, Framed

\* A thread that reads the token, or begins to renew it.
LEMMA SendShape ==
    ASSUME Shape, NEW t \in Thread, NEW token \in Nat, Send(t, token)
    PROVE  /\ sync' = [u \in Thread |-> sync'[u]]
           /\ \A u \in Thread \ {t} : sync'[u] = sync[u]
           /\ sync'[t].pc = "send" /\ sync'[t].readAt = now /\ sync'[t].token = token
           /\ \A u \in Thread :
                /\ Framed(sync'[u])
                /\ sync'[u].refresh \in Nat /\ sync'[u].readAt \in Nat /\ sync'[u].token \in Nat
<1> DEFINE s == [sync[t] EXCEPT !.pc = "send", !.readAt = now, !.token = token, !.refresh = 0]
<1>0. Framed(sync[t])
  BY DEF Shape
<1>1. /\ Framed(s) /\ s.refresh = 0 /\ s.readAt = now /\ s.token = token /\ s.pc = "send"
  BY <1>0, FieldNames DEF Framed
<1>2. Becomes(t, s)
  BY DEF Send
<1> HIDE DEF s
<1> QED BY <1>1, <1>2, OneMoves DEF Shape

LEMMA AskShape ==
    ASSUME Shape, NEW t \in Thread, Ask(t)
    PROVE  /\ Shape'
           /\ \A u \in Thread \ {t} : sync'[u] = sync[u]
           /\ sync'[t].readAt = now
           /\ \/ /\ sync'[t].pc = "send"
                 /\ \/ Holder(t) = "static" /\ sync'[t].token = Never
                    \/ /\ Fresh(Holder(t)) /\ Holder(t) \in Holders
                       /\ sync'[t].token = credential[Holder(t)].token
              \/ sync'[t].pc = "renew"
<1>0. UNCHANGED <<deployment, now, credential, authority, lost>>
  BY DEF Ask, clockVars, authVars
<1>1. CASE Holder(t) = "static"
  <2>1. Send(t, Never)
    BY <1>1 DEF Ask
  <2> QED BY <1>0, <1>1, <2>1, SendShape, Constants DEF Shape, Framed
<1>2. CASE Holder(t) # "static" /\ Fresh(Holder(t))
  <2>1. Send(t, credential[Holder(t)].token)
    BY <1>2 DEF Ask
  <2>2. Holder(t) \in Holders
    BY <1>2, HolderKinds DEF Shape
  <2>3. credential[Holder(t)].token \in Nat
    BY <2>2 DEF Shape
  <2> QED BY <1>0, <1>2, <2>1, <2>2, <2>3, SendShape DEF Shape, Framed
<1>3. CASE Holder(t) # "static" /\ ~Fresh(Holder(t))
  <2> DEFINE s == [sync[t] EXCEPT !.pc = "renew", !.readAt = now]
  <2>1. Becomes(t, s)
    BY <1>3 DEF Ask
  <2>2. Framed(s) /\ s.pc = "renew" /\ s.readAt = now /\ s.token = sync[t].token
          /\ s.refresh = sync[t].refresh
    BY FieldNames DEF Shape, Framed
  <2> HIDE DEF s
  <2> QED BY <1>0, <2>1, <2>2, OneMoves DEF Shape, Framed
<1> QED BY <1>1, <1>2, <1>3

LEMMA HolderStays ==
    ASSUME NEW t \in Thread, deployment' = deployment, sync'[t].k = sync[t].k
    PROVE  Holder(t)' = Holder(t) /\ Never' = Never
PROOF BY DEF Holder, Source, Strategy, Never

\* The answer to an exchange is in the hand of the thread that asked.
LEMMA RenewedShape ==
    ASSUME Shape, Renewing, NEW t \in Thread, Renewed(t)
    PROVE  /\ Shape'
           /\ Holder(t) \in Holders /\ sync'[t].k = sync[t].k
           /\ \A u \in Thread \ {t} : sync'[u] = sync[u]
           /\ sync'[t].pc = "keep" /\ sync'[t].readAt = sync[t].readAt
           /\ sync'[t].token = now + Lifetime
           /\ Holder(t) = "oauth" => sync'[t].refresh = authority' /\ authority' = authority + 1
           /\ Holder(t) # "oauth" => authority' = authority
<1> DEFINE refresh == IF Holder(t) = "oauth" THEN authority' ELSE credential[Holder(t)].refresh
           s == [sync[t] EXCEPT !.pc = "keep", !.token = now + Lifetime, !.refresh = refresh]
<1>0. UNCHANGED <<deployment, now, credential, lost>>
  BY DEF Renewed, clockVars
<1>1. /\ Holder(t) = "oauth" => authority' = authority + 1
      /\ Holder(t) # "oauth" => authority' = authority
  BY DEF Renewed, Rotates
<1>2. Holder(t) \in Holders
  BY DEF Renewed, Renewing, At
<1>3. refresh \in Nat /\ authority' \in Nat /\ now + Lifetime \in Nat
  BY <1>1, <1>2, Constants DEF Shape
<1>4. Becomes(t, s)
  BY DEF Renewed
<1>5. /\ Framed(s) /\ s.pc = "keep" /\ s.readAt = sync[t].readAt /\ s.k = sync[t].k
      /\ s.token = now + Lifetime /\ s.refresh = refresh
  <2>1. Framed(sync[t])
    BY DEF Shape
  <2> HIDE DEF refresh
  <2> QED BY <2>1, FieldNames DEF Framed
<1>6. s.readAt \in Nat
  BY <1>5 DEF Shape
<1>7. /\ sync' = [u \in Thread |-> sync'[u]]
      /\ sync'[t] = s
      /\ \A u \in Thread \ {t} : sync'[u] = sync[u]
      /\ \A u \in Thread :
            /\ Framed(sync'[u])
            /\ sync'[u].refresh \in Nat /\ sync'[u].readAt \in Nat /\ sync'[u].token \in Nat
  <2> HIDE DEF s, refresh
  <2> QED BY <1>3, <1>4, <1>5, <1>6, OneMoves
<1>8. Shape'
  BY <1>0, <1>3, <1>7 DEF Shape, Framed
<1> HIDE DEF s
<1> QED BY <1>1, <1>2, <1>5, <1>7, <1>8

\* Keep stores what the thread holds with its holder, and no other credential changes.
LEMMA KeepShape ==
    ASSUME Shape, Renewing, NEW t \in Thread, Keep(t)
    PROVE  /\ Shape'
           /\ Holder(t) \in Holders
           /\ \A u \in Thread \ {t} : sync'[u] = sync[u]
           /\ sync'[t].pc = "send" /\ sync'[t].readAt = now /\ sync'[t].token = sync[t].token
           /\ credential'[Holder(t)] = [token |-> sync[t].token, expires |-> Expiry(t),
                                        refresh |-> sync[t].refresh]
           /\ \A h \in Holders \ {Holder(t)} : credential'[h] = credential[h]
<1>0. UNCHANGED <<deployment, now, authority, lost>>
  BY DEF Keep, clockVars
<1>1. Holder(t) \in Holders
  BY DEF Keep, Renewing, At
<1>2. Expiry(t) \in Nat /\ sync[t].token \in Nat /\ sync[t].refresh \in Nat
  <2>1. /\ Holder(t) = "oauth" => Expiry(t) = now + Lifetime
        /\ Holder(t) = "google" => Expiry(t) = sync[t].readAt + Lifetime
        /\ Holder(t) = "app" => Expiry(t) = sync[t].token
    BY DEF Expiry
  <2> QED BY <1>1, <2>1, Constants DEF Shape, Holders
<1>3. Send(t, sync[t].token)
  BY DEF Keep
<1>4. credential' = [credential EXCEPT ![Holder(t)] =
                        [token |-> sync[t].token, expires |-> Expiry(t),
                         refresh |-> sync[t].refresh]]
  BY DEF Keep
<1>5. credential' \in [Holders -> [token : Nat, expires : Nat, refresh : Nat]]
  BY <1>1, <1>2, <1>4 DEF Shape
<1>6. /\ credential'[Holder(t)] = [token |-> sync[t].token, expires |-> Expiry(t),
                                   refresh |-> sync[t].refresh]
      /\ \A h \in Holders \ {Holder(t)} : credential'[h] = credential[h]
  BY <1>1, <1>4 DEF Shape
<1>7. /\ sync' = [u \in Thread |-> sync'[u]]
      /\ \A u \in Thread \ {t} : sync'[u] = sync[u]
      /\ sync'[t].pc = "send" /\ sync'[t].readAt = now /\ sync'[t].token = sync[t].token
      /\ \A u \in Thread :
            /\ Framed(sync'[u])
            /\ sync'[u].refresh \in Nat /\ sync'[u].readAt \in Nat /\ sync'[u].token \in Nat
  BY <1>2, <1>3, SendShape
<1>8. Shape'
  BY <1>0, <1>5, <1>7 DEF Shape, Framed
<1> QED BY <1>1, <1>6, <1>7, <1>8

LEMMA RenewalLostShape ==
    ASSUME Shape, NEW t \in Thread, RenewalLost(t)
    PROVE  /\ Shape' /\ lost' = TRUE /\ UNCHANGED <<deployment, now>>
           /\ \/ UNCHANGED credential /\ Becomes(t, IdleThread)
              \/ credential' = Configured /\ \A u \in Thread : sync'[u] = IdleThread
<1>0. UNCHANGED <<deployment, now>> /\ lost' = TRUE /\ authority' \in Nat
  BY DEF RenewalLost, Rotates, Shape, clockVars
<1>1. CASE serving
  <2>1. Becomes(t, IdleThread) /\ UNCHANGED credential
    BY <1>1 DEF RenewalLost
  <2> QED BY <1>0, <2>1, IdleFramed, OneMoves DEF Shape, Framed
<1>2. CASE ~serving
  <2>1. credential' = Configured /\ sync' = [u \in Thread |-> IdleThread]
    BY <1>2 DEF RenewalLost
  <2>2. Configured \in [Holders -> [token : Nat, expires : Nat, refresh : Nat]]
    BY DEF Configured
  <2> QED BY <1>0, <2>1, <2>2, IdleFramed DEF Shape, Framed
<1> QED BY <1>1, <1>2

-----------------------------------------------------------------------------
\* A step of t after which it neither holds nor asks for a token.
Quiet(t) ==
    /\ ~At(t, "keep")
    /\ sync'[t].pc \notin {"renew", "keep", "send"}
    /\ \A u \in Thread \ {t} : sync'[u] = sync[u]
    /\ UNCHANGED <<credential, lost>> /\ Standing

LEMMA SettlesQuiet ==
    ASSUME Shape, NEW t \in Thread, Settles(t), Standing
    PROVE  Shape' /\ Quiet(t)
<1>1. Shape'
  BY SettlesShape DEF Standing, Shape
<1>2. PICK s : Settled(s) /\ Becomes(t, s)
  BY DEF Settles
<1>3. sync'[t] = s /\ \A u \in Thread \ {t} : sync'[u] = sync[u]
  BY <1>2, OneMoves DEF Settled
<1> QED BY <1>1, <1>2, <1>3 DEF Quiet, Settles, Settled

\* The steps that matter to the credentials, and the rest.
LEMMA StepKinds ==
    ASSUME Shape, Next
    PROVE  \/ Tick
           \/ StartOver /\ Standing
           \/ \E t \in Thread : Shape' /\ Quiet(t)
           \/ \E t \in Thread : Ask(t) \/ Renewed(t) \/ RenewalLost(t) \/ Keep(t)
<1>1. CASE Restart
  BY <1>1 DEF Restart, Standing, clockVars
<1>2. CASE Tick
  BY <1>2
<1>3. ASSUME NEW t \in Thread, StartSync(t) PROVE Shape' /\ Quiet(t)
  BY <1>3, StartSyncSettles, SettlesQuiet
<1>4. ASSUME NEW t \in Thread, Step(t)
      PROVE  \/ StartOver /\ Standing
             \/ Shape' /\ Quiet(t)
             \/ Ask(t) \/ Renewed(t) \/ RenewalLost(t) \/ Keep(t)
  <2>1. CASE HandOver(t)
    BY <2>1, HandOverSettles, SettlesQuiet
  <2>2. CASE NotRenewed(t)
    BY <2>2, NotRenewedSettles, SettlesQuiet
  <2>3. CASE Answered(t)
    BY <2>3, AnsweredSettles, SettlesQuiet
  <2>4. CASE Refused(t)
    BY <2>4, RefusedSettles, SettlesQuiet
  <2>5. CASE Throttled(t)
    BY <2>5, ThrottledSettles, SettlesQuiet
  <2>6. CASE Wake(t)
    BY <2>6, WakeSettles, SettlesQuiet
  <2> QED BY <1>4, <2>1, <2>2, <2>3, <2>4, <2>5, <2>6 DEF Step
<1> QED BY <1>1, <1>2, <1>3, <1>4 DEF Next

LEMMA TickShape ==
    ASSUME Shape, Tick
    PROVE  /\ Shape' /\ now' = now + 1
           /\ UNCHANGED <<deployment, credential, authority, lost, sync>>
<1>1. now' = now + 1 /\ UNCHANGED <<deployment, credential, authority, lost, sync>>
  BY DEF Tick, authVars
<1> QED BY <1>1 DEF Shape, Framed

LEMMA StartOverIdle ==
    ASSUME Shape, StartOver, Standing
    PROVE  /\ Shape' /\ credential' = Configured
           /\ \A u \in Thread : sync'[u].pc = "idle"
<1>1. Shape'
  BY StartOverShape DEF Standing
<1> QED BY <1>1, IdleFramed DEF StartOver

-----------------------------------------------------------------------------
\* The holder of a thread that stays where it is does not change.
LEMMA RenewingStays ==
    ASSUME Renewing, deployment' = deployment, NEW u \in Thread, sync'[u] = sync[u],
           sync'[u].pc \in {"renew", "keep"}
    PROVE  (Holder(u) \in Holders)'
<1>1. Holder(u)' = Holder(u)
  BY HolderStays
<1>2. Holder(u) \in Holders
  BY DEF Renewing
<1> QED BY <1>1, <1>2 DEF Holders

LEMMA RenewingNext ==
    ASSUME Shape, Renewing, [Next]_vars
    PROVE  Shape' /\ Renewing'
<1>1. CASE Tick
  <2>1. Shape' /\ UNCHANGED <<deployment, sync>>
    BY <1>1, TickShape
  <2> QED BY <2>1, RenewingStays DEF Renewing
<1>2. CASE StartOver /\ Standing
  <2>1. Shape' /\ \A u \in Thread : sync'[u].pc = "idle"
    BY <1>2, StartOverIdle
  <2> QED BY <2>1 DEF Renewing
<1>3. ASSUME NEW t \in Thread, Shape', Quiet(t) PROVE Shape' /\ Renewing'
  <2>1. \A u \in Thread : sync'[u].pc \in {"renew", "keep"} => u # t /\ sync'[u] = sync[u]
    BY <1>3 DEF Quiet
  <2>2. deployment' = deployment
    BY <1>3 DEF Quiet, Standing
  <2> QED BY <1>3, <2>1, <2>2, RenewingStays DEF Renewing
<1>4. ASSUME NEW t \in Thread, Ask(t) PROVE Shape' /\ Renewing'
  <2>1. Shape' /\ \A u \in Thread \ {t} : sync'[u] = sync[u]
    BY <1>4, AskShape
  <2>2. deployment' = deployment
    BY <1>4 DEF Ask
  <2>3. sync'[t].pc \in {"renew", "keep"} => (Holder(t) \in Holders)'
    <3>1. CASE Holder(t) \in Holders
      <4>1. sync'[t].k = sync[t].k
        <5>1. Framed(sync[t]) /\ sync = [u \in Thread |-> sync[u]]
          BY DEF Shape
        <5> QED BY <1>4, <5>1, FieldNames DEF Ask, Send, Becomes, Framed
      <4> QED BY <2>2, <3>1, <4>1, HolderStays DEF Holders
    <3>2. CASE Holder(t) \notin Holders
      <4>1. Holder(t) = "static"
        BY <3>2, HolderKinds DEF Shape
      <4>2. Send(t, Never)
        BY <1>4, <4>1 DEF Ask
      <4>3. sync'[t].pc = "send"
        BY <4>2, SendShape, Constants
      <4> QED BY <4>3
    <3> QED BY <3>1, <3>2
  <2> QED BY <2>1, <2>2, <2>3, RenewingStays DEF Renewing
<1>5. ASSUME NEW t \in Thread, Renewed(t) PROVE Shape' /\ Renewing'
  <2>1. /\ Shape' /\ \A u \in Thread \ {t} : sync'[u] = sync[u]
        /\ Holder(t) \in Holders /\ sync'[t].k = sync[t].k
    BY <1>5, RenewedShape
  <2>2. deployment' = deployment
    BY <1>5 DEF Renewed
  <2>3. (Holder(t) \in Holders)'
    BY <2>1, <2>2, HolderStays DEF Holders
  <2> QED BY <2>1, <2>2, <2>3, RenewingStays DEF Renewing
<1>6. ASSUME NEW t \in Thread, RenewalLost(t) PROVE Shape' /\ Renewing'
  <2>1. /\ Shape' /\ deployment' = deployment
        /\ \/ Becomes(t, IdleThread)
           \/ \A u \in Thread : sync'[u] = IdleThread
    BY <1>6, RenewalLostShape
  <2>2. \A u \in Thread : sync'[u] = IdleThread \/ sync'[u] = sync[u]
    BY <2>1, IdleFramed, OneMoves
  <2>3. \A u \in Thread : sync'[u].pc \in {"renew", "keep"} => sync'[u] = sync[u]
    BY <2>2, IdleFramed
  <2> QED BY <2>1, <2>3, RenewingStays DEF Renewing
<1>7. ASSUME NEW t \in Thread, Keep(t) PROVE Shape' /\ Renewing'
  <2>1. /\ Shape' /\ \A u \in Thread \ {t} : sync'[u] = sync[u]
        /\ sync'[t].pc = "send"
    BY <1>7, KeepShape
  <2>2. deployment' = deployment
    BY <1>7 DEF Keep
  <2> QED BY <2>1, <2>2, RenewingStays DEF Renewing
<1>8. CASE UNCHANGED vars
  <2>1. /\ UNCHANGED <<deployment, sync, credential, authority, lost, now>>
    BY <1>8 DEF vars, clockVars, authVars
  <2>2. Shape'
    BY <2>1 DEF Shape, Framed
  <2> QED BY <2>1, <2>2, RenewingStays DEF Renewing
<1> QED BY <1>1, <1>2, <1>3, <1>4, <1>5, <1>6, <1>7, <1>8, StepKinds

-----------------------------------------------------------------------------
\* The refresh token that GitHub accepts is the stored one while no thread is storing,
\* and otherwise in the hand of the only thread that is.
Explained ==
    \/ lost
    \/ /\ credential["oauth"].refresh = authority
       /\ \A t \in Thread : ~Storing(t)
    \/ /\ credential["oauth"].refresh # authority
       /\ \E t \in Thread : /\ Storing(t) /\ sync[t].refresh = authority
                            /\ \A u \in Thread \ {t} : ~Storing(u)

LockoutInv == Shape /\ Renewing /\ Explained

LEMMA StoringStays ==
    ASSUME deployment' = deployment, NEW u \in Thread, sync'[u] = sync[u]
    PROVE  Storing(u)' = Storing(u)
PROOF BY HolderStays DEF Storing, At

\* A step that leaves the stored token, the authority and every storing thread alone.
LEMMA ExplainedStays ==
    ASSUME Explained, deployment' = deployment, authority' = authority, lost' = lost,
           credential'["oauth"] = credential["oauth"],
           \A u \in Thread : \/ sync'[u] = sync[u]
                             \/ ~Storing(u) /\ ~Storing(u)'
    PROVE  Explained'
<1>1. \A u \in Thread : (Storing(u)' <=> Storing(u)) /\ (Storing(u) => sync'[u] = sync[u])
  BY StoringStays
<1>2. CASE lost
  BY <1>2 DEF Explained
<1>3. CASE credential["oauth"].refresh = authority /\ \A t \in Thread : ~Storing(t)
  BY <1>1, <1>3 DEF Explained
<1>4. ASSUME credential["oauth"].refresh # authority, NEW t \in Thread, Storing(t),
             sync[t].refresh = authority, \A u \in Thread \ {t} : ~Storing(u)
      PROVE  Explained'
  BY <1>1, <1>4 DEF Explained
<1> QED BY <1>2, <1>3, <1>4 DEF Explained

LEMMA LockoutInit == Init => LockoutInv
<1> SUFFICES ASSUME Init PROVE LockoutInv
  OBVIOUS
<1>1. sync = [t \in Thread |-> IdleThread] /\ credential = Configured /\ authority = 1
  BY DEF Init
<1>2. \A t \in Thread : sync[t].pc = "idle"
  BY <1>1, IdleFramed
<1>3. credential["oauth"].refresh = authority
  BY <1>1 DEF Configured, Holders
<1> QED BY <1>2, <1>3, ShapeInit DEF LockoutInv, Renewing, Explained, Storing, At

LEMMA LockoutNext ==
    ASSUME LockoutInv, [Next]_vars
    PROVE  LockoutInv'
<1>0. Shape /\ Renewing /\ Explained /\ Shape' /\ Renewing' /\ "oauth" \in Holders
  BY RenewingNext DEF LockoutInv, Holders
<1>1. CASE Tick
  <2>1. UNCHANGED <<deployment, credential, authority, lost, sync>>
    BY <1>0, <1>1, TickShape
  <2> QED BY <1>0, <2>1, ExplainedStays DEF LockoutInv
<1>2. CASE StartOver /\ Standing
  <2>1. credential' = Configured /\ \A u \in Thread : sync'[u].pc = "idle"
    BY <1>0, <1>2, StartOverIdle
  <2>2. lost' \/ authority' = Configured["oauth"].refresh
    BY <1>2 DEF StartOver, Standing
  <2>3. \A u \in Thread : ~Storing(u)'
    BY <2>1 DEF Storing, At
  <2> QED BY <1>0, <2>1, <2>2, <2>3 DEF LockoutInv, Explained
<1>3. ASSUME NEW t \in Thread, Quiet(t) PROVE LockoutInv'
  <2>1. ~Storing(t) /\ ~Storing(t)'
    BY <1>3 DEF Quiet, Storing, At
  <2> QED BY <1>0, <1>3, <2>1, ExplainedStays DEF LockoutInv, Quiet, Standing
<1>4. ASSUME NEW t \in Thread, Ask(t) PROVE LockoutInv'
  <2>1. /\ sync'[t].pc \in {"send", "renew"}
        /\ \A u \in Thread \ {t} : sync'[u] = sync[u]
    BY <1>0, <1>4, AskShape
  <2>2. ~Storing(t) /\ ~Storing(t)'
    BY <1>4, <2>1 DEF Ask, Storing, At
  <2>3. UNCHANGED <<deployment, credential, authority, lost>>
    BY <1>4 DEF Ask, authVars
  <2> QED BY <1>0, <2>1, <2>2, <2>3, ExplainedStays DEF LockoutInv
<1>5. ASSUME NEW t \in Thread, Renewed(t) PROVE LockoutInv'
  <2>1. /\ Holder(t) \in Holders /\ sync'[t].k = sync[t].k
        /\ \A u \in Thread \ {t} : sync'[u] = sync[u]
        /\ sync'[t].pc = "keep"
        /\ Holder(t) = "oauth" => sync'[t].refresh = authority' /\ authority' = authority + 1
        /\ Holder(t) # "oauth" => authority' = authority
    BY <1>0, <1>5, RenewedShape
  <2>2. UNCHANGED <<deployment, credential, lost>> /\ sync[t].pc = "renew" /\ Accepted(t)
    BY <1>5 DEF Renewed, At
  <2>3. Holder(t)' = Holder(t)
    BY <2>1, <2>2, HolderStays
  <2>4. CASE Holder(t) = "oauth"
    <3>1. CASE lost
      BY <1>0, <2>2, <3>1 DEF LockoutInv, Explained
    <3>2. CASE ~lost
      <4>1. credential["oauth"].refresh = authority /\ \A u \in Thread : ~Storing(u)
        BY <1>0, <2>2, <2>4, <3>2 DEF Explained, Accepted
      <4>2. credential'["oauth"].refresh # authority'
        BY <1>0, <2>1, <2>2, <2>4, <4>1 DEF Shape
      <4>3. Storing(t)'
        BY <2>1, <2>3, <2>4 DEF Storing, At
      <4>4. \A u \in Thread \ {t} : ~Storing(u)'
        BY <2>1, <2>2, <4>1, StoringStays
      <4> QED BY <1>0, <2>1, <2>4, <4>2, <4>3, <4>4 DEF LockoutInv, Explained
    <3> QED BY <3>1, <3>2
  <2>5. CASE Holder(t) # "oauth"
    <3>1. ~Storing(t) /\ ~Storing(t)'
      BY <2>3, <2>5 DEF Storing
    <3> QED BY <1>0, <2>1, <2>2, <2>5, <3>1, ExplainedStays DEF LockoutInv
  <2> QED BY <2>4, <2>5
<1>6. ASSUME NEW t \in Thread, RenewalLost(t) PROVE LockoutInv'
  BY <1>0, <1>6, RenewalLostShape DEF LockoutInv, Explained
<1>7. ASSUME NEW t \in Thread, Keep(t) PROVE LockoutInv'
  <2>1. /\ Holder(t) \in Holders
        /\ \A u \in Thread \ {t} : sync'[u] = sync[u]
        /\ sync'[t].pc = "send"
        /\ credential'[Holder(t)] = [token |-> sync[t].token, expires |-> Expiry(t),
                                     refresh |-> sync[t].refresh]
        /\ \A h \in Holders \ {Holder(t)} : credential'[h] = credential[h]
    BY <1>0, <1>7, KeepShape
  <2>2. UNCHANGED <<deployment, authority, lost>> /\ sync[t].pc = "keep"
    BY <1>7 DEF Keep, At
  <2>3. ~Storing(t)'
    BY <2>1 DEF Storing, At
  <2>4. CASE Holder(t) = "oauth"
    <3>1. Storing(t)
      BY <2>2, <2>4 DEF Storing, At
    <3>2. CASE lost
      BY <1>0, <2>2, <3>2 DEF LockoutInv, Explained
    <3>3. CASE ~lost
      <4>1. sync[t].refresh = authority /\ \A u \in Thread \ {t} : ~Storing(u)
        BY <1>0, <3>1, <3>3 DEF Explained
      <4>2. credential'["oauth"].refresh = authority'
        BY <2>1, <2>2, <2>4, <4>1
      <4>3. \A u \in Thread : ~Storing(u)'
        BY <2>1, <2>2, <2>3, <4>1, StoringStays
      <4> QED BY <1>0, <4>2, <4>3 DEF LockoutInv, Explained
    <3> QED BY <3>2, <3>3
  <2>5. CASE Holder(t) # "oauth"
    <3>1. ~Storing(t) /\ credential'["oauth"] = credential["oauth"]
      BY <1>0, <2>1, <2>5 DEF Storing
    <3> QED BY <1>0, <2>1, <2>2, <2>3, <3>1, ExplainedStays DEF LockoutInv
  <2> QED BY <2>4, <2>5
<1>8. CASE UNCHANGED vars
  <2>1. UNCHANGED <<deployment, credential, authority, lost, sync>>
    BY <1>8 DEF vars, authVars
  <2> QED BY <1>0, <2>1, ExplainedStays DEF LockoutInv
<1> QED BY <1>0, <1>1, <1>2, <1>3, <1>4, <1>5, <1>6, <1>7, <1>8, StepKinds

LEMMA LockoutFollows == LockoutInv => LockoutIsExplained
<1> SUFFICES ASSUME LockoutInv PROVE LockoutIsExplained
  OBVIOUS
<1>1. ASSUME NEW t \in Thread, Storing(t), sync[t].refresh = authority,
             \A u \in Thread \ {t} : ~Storing(u)
      PROVE  Cardinality({u \in Thread : Storing(u) /\ sync[u].refresh = authority}) = 1
  <2>1. {u \in Thread : Storing(u) /\ sync[u].refresh = authority} = {t}
    BY <1>1
  <2> QED BY <2>1, FS_Singleton
<1> QED BY <1>1 DEF LockoutInv, Explained, LockoutIsExplained

\* However many threads renew GitHub's tokens at a time, the refresh token that GitHub
\* accepts is stored or in the hand of the one thread that is about to store it, unless
\* an answer was lost or the process restarted.
THEOREM LockoutIsExplainedAlways == Spec => []LockoutIsExplained
<1>1. LockoutInv /\ [Next]_vars => LockoutInv'
  BY LockoutNext
<1> QED BY LockoutInit, <1>1, LockoutFollows, PTL DEF Spec

-----------------------------------------------------------------------------
\* A thread that has asked for a token holds one that outlives the request.
Timely(t) ==
    /\ sync[t].pc = "renew" => sync[t].readAt <= now
    /\ sync[t].pc = "keep" => /\ sync[t].readAt + Lifetime <= sync[t].token
                              /\ now + Lifetime <= sync[t].token + Timeout
    /\ sync[t].pc = "send" => /\ now <= sync[t].readAt + Timeout
                              /\ sync[t].readAt + Timeout < sync[t].token

\* The expiry that is noted exceeds that of the token by the time of one answer at most.
TokensInv ==
    /\ Shape /\ Renewing
    /\ now <= MaxTime + 1
    /\ \A h \in Holders : credential[h].expires <= credential[h].token + Timeout
    /\ \A t \in Thread : Timely(t)

LEMMA TokensInit == Init => TokensInv
<1> SUFFICES ASSUME Init PROVE TokensInv
  OBVIOUS
<1>1. sync = [t \in Thread |-> IdleThread] /\ credential = Configured /\ now = 1
  BY DEF Init
<1>2. \A t \in Thread : sync[t].pc = "idle"
  BY <1>1, IdleFramed
<1>3. \A h \in Holders : credential[h].expires = 0 /\ credential[h].token = 0
  BY <1>1 DEF Configured
<1>4. now <= MaxTime + 1
  BY <1>1, Constants
<1> QED BY <1>2, <1>3, <1>4, ShapeInit DEF TokensInv, Renewing, Timely, Timeout

\* A thread that stays where it is is timely while the clock stands still.
LEMMA TimelyStays ==
    ASSUME NEW u \in Thread, Timely(u), sync'[u] = sync[u], now' = now
    PROVE  Timely(u)'
PROOF BY DEF Timely, Timeout

LEMMA TokensNext ==
    ASSUME TokensInv, [Next]_vars
    PROVE  TokensInv'
<1>0. Shape /\ Renewing /\ Shape' /\ Renewing'
  BY RenewingNext DEF TokensInv
<1>c. /\ now \in Nat
      /\ \A t \in Thread : sync[t].readAt \in Nat /\ sync[t].token \in Nat /\ Timely(t)
      /\ \A h \in Holders : /\ credential[h].expires \in Nat /\ credential[h].token \in Nat
                            /\ credential[h].expires <= credential[h].token + 1
      /\ now <= MaxTime + 1
  BY DEF TokensInv, Shape, Timeout
<1>1. CASE Tick
  <2>1. UNCHANGED <<credential, sync>> /\ now' = now + 1
    BY <1>0, <1>1, TickShape
  <2>2. now' <= MaxTime + 1
    BY <1>1, <1>c, <2>1, Constants DEF Tick
  <2>3. ASSUME NEW t \in Thread PROVE Timely(t)'
    <3>1. /\ sync[t].pc = "send" => now < sync[t].readAt + 1
          /\ sync[t].pc = "keep" => now < sync[t].token - Lifetime + 1
      BY <1>1 DEF Tick, At, Timeout
    <3>2. Timely(t) /\ sync[t].readAt \in Nat /\ sync[t].token \in Nat
      BY <1>c
    <3> QED BY <1>c, <2>1, <3>1, <3>2, Constants DEF Timely, Timeout
  <2> QED BY <1>0, <1>c, <2>1, <2>2, <2>3 DEF TokensInv, Timeout
<1>2. CASE StartOver /\ Standing
  <2>1. credential' = Configured /\ \A u \in Thread : sync'[u].pc = "idle"
    BY <1>0, <1>2, StartOverIdle
  <2>2. now' = now
    BY <1>2 DEF Standing
  <2>3. \A h \in Holders : credential'[h].expires = 0 /\ credential'[h].token = 0
    BY <2>1 DEF Configured
  <2> QED BY <1>0, <1>c, <2>1, <2>2, <2>3 DEF TokensInv, Timely, Timeout
<1>3. ASSUME NEW t \in Thread, Quiet(t) PROVE TokensInv'
  <2>1. now' = now /\ credential' = credential
    BY <1>3 DEF Quiet, Standing
  <2>2. Timely(t)'
    BY <1>3 DEF Quiet, Timely
  <2>3. \A u \in Thread \ {t} : Timely(u)'
    BY <1>3, <1>c, <2>1, TimelyStays DEF Quiet
  <2> QED BY <1>0, <1>c, <2>1, <2>2, <2>3 DEF TokensInv, Timeout
<1>4. ASSUME NEW t \in Thread, Ask(t) PROVE TokensInv'
  <2>1. /\ \A u \in Thread \ {t} : sync'[u] = sync[u]
        /\ sync'[t].readAt = now
        /\ \/ /\ sync'[t].pc = "send"
              /\ \/ sync'[t].token = Never
                 \/ /\ Fresh(Holder(t)) /\ Holder(t) \in Holders
                    /\ sync'[t].token = credential[Holder(t)].token
           \/ sync'[t].pc = "renew"
    BY <1>0, <1>4, AskShape
  <2>2. now' = now /\ credential' = credential
    BY <1>4 DEF Ask, clockVars, authVars
  <2>3. sync'[t].pc = "send" => now + 1 < sync'[t].token
    <3>1. now + 1 < Never
      BY <1>c, Constants DEF Never
    <3>2. ASSUME Fresh(Holder(t)), Holder(t) \in Holders
          PROVE  now + 1 < credential[Holder(t)].token
      BY <1>c, <3>2 DEF Fresh, Skew
    <3> QED BY <2>1, <3>1, <3>2
  <2>4. Timely(t)'
    BY <1>c, <2>1, <2>2, <2>3 DEF Timely, Timeout
  <2>5. \A u \in Thread \ {t} : Timely(u)'
    BY <1>c, <2>1, <2>2, TimelyStays
  <2> QED BY <1>0, <1>c, <2>2, <2>4, <2>5 DEF TokensInv, Timeout
<1>5. ASSUME NEW t \in Thread, Renewed(t) PROVE TokensInv'
  <2>1. /\ \A u \in Thread \ {t} : sync'[u] = sync[u]
        /\ sync'[t].pc = "keep" /\ sync'[t].readAt = sync[t].readAt
        /\ sync'[t].token = now + Lifetime
    BY <1>0, <1>5, RenewedShape
  <2>2. now' = now /\ credential' = credential /\ sync[t].pc = "renew"
    BY <1>5 DEF Renewed, clockVars, At
  <2>3. sync[t].readAt <= now /\ sync[t].readAt \in Nat
    BY <1>c, <2>2 DEF Timely
  <2>4. Timely(t)'
    BY <1>c, <2>1, <2>2, <2>3, Constants DEF Timely, Timeout
  <2>5. \A u \in Thread \ {t} : Timely(u)'
    BY <1>c, <2>1, <2>2, TimelyStays
  <2> QED BY <1>0, <1>c, <2>2, <2>4, <2>5 DEF TokensInv, Timeout
<1>6. ASSUME NEW t \in Thread, RenewalLost(t) PROVE TokensInv'
  <2>1. /\ now' = now
        /\ \/ UNCHANGED credential /\ Becomes(t, IdleThread)
           \/ credential' = Configured /\ \A u \in Thread : sync'[u] = IdleThread
    BY <1>0, <1>6, RenewalLostShape
  <2>2. \A u \in Thread : sync'[u] = IdleThread \/ sync'[u] = sync[u]
    BY <1>0, <2>1, IdleFramed, OneMoves
  <2>3. \A u \in Thread : sync'[u] = IdleThread => Timely(u)'
    BY IdleFramed DEF Timely
  <2>4. \A u \in Thread : Timely(u)'
    BY <1>c, <2>1, <2>2, <2>3, TimelyStays
  <2>5. \A h \in Holders : credential'[h].expires <= credential'[h].token + 1
    <3>1. CASE credential' = Configured
      BY <3>1 DEF Configured
    <3> QED BY <1>c, <2>1, <3>1
  <2> QED BY <1>0, <1>c, <2>1, <2>4, <2>5 DEF TokensInv, Timeout
<1>7. ASSUME NEW t \in Thread, Keep(t) PROVE TokensInv'
  <2>1. /\ Holder(t) \in Holders
        /\ \A u \in Thread \ {t} : sync'[u] = sync[u]
        /\ sync'[t].pc = "send" /\ sync'[t].readAt = now /\ sync'[t].token = sync[t].token
        /\ credential'[Holder(t)] = [token |-> sync[t].token, expires |-> Expiry(t),
                                     refresh |-> sync[t].refresh]
        /\ \A h \in Holders \ {Holder(t)} : credential'[h] = credential[h]
    BY <1>0, <1>7, KeepShape
  <2>2. now' = now /\ sync[t].pc = "keep"
    BY <1>7 DEF Keep, clockVars, At
  <2>3. /\ sync[t].readAt + Lifetime <= sync[t].token
        /\ now + Lifetime <= sync[t].token + 1
        /\ sync[t].readAt \in Nat /\ sync[t].token \in Nat
    BY <1>c, <2>2 DEF Timely, Timeout
  <2>4. Expiry(t) <= sync[t].token + 1
    <3>1. /\ Holder(t) = "oauth" => Expiry(t) = now + Lifetime
          /\ Holder(t) = "google" => Expiry(t) = sync[t].readAt + Lifetime
          /\ Holder(t) = "app" => Expiry(t) = sync[t].token
      BY DEF Expiry
    <3> QED BY <1>c, <2>1, <2>3, <3>1, Constants DEF Holders
  <2>5. \A h \in Holders : credential'[h].expires <= credential'[h].token + 1
    BY <1>c, <2>1, <2>4
  <2>6. Timely(t)'
    BY <1>c, <2>1, <2>2, <2>3, Constants DEF Timely, Timeout
  <2>7. \A u \in Thread \ {t} : Timely(u)'
    BY <1>c, <2>1, <2>2, TimelyStays
  <2> QED BY <1>0, <1>c, <2>2, <2>5, <2>6, <2>7 DEF TokensInv, Timeout
<1>8. CASE UNCHANGED vars
  <2>1. UNCHANGED <<now, credential, sync>>
    BY <1>8 DEF vars, clockVars, authVars
  <2> QED BY <1>0, <1>c, <2>1, TimelyStays DEF TokensInv, Timeout
<1> QED BY <1>0, <1>1, <1>2, <1>3, <1>4, <1>5, <1>6, <1>7, <1>8, StepKinds

LEMMA TokensFollow == TokensInv => TokensAreLive
<1> SUFFICES ASSUME TokensInv, NEW t \in Thread, At(t, "send") PROVE now < sync[t].token
  BY DEF TokensAreLive
<1>1. now \in Nat /\ sync[t].readAt \in Nat /\ sync[t].token \in Nat /\ Timely(t)
  BY DEF TokensInv, Shape
<1> QED BY <1>1 DEF Timely, Timeout, At

\* Whatever the threads renew meanwhile, however long the answers take and the client
\* sleeps between attempts, no request leaves with a token that has expired, as long as
\* tokens live longer than the margin of token().
THEOREM TokensAreLiveAlways == Spec => []TokensAreLive
<1>1. TokensInv /\ [Next]_vars => TokensInv'
  BY TokensNext
<1> QED BY TokensInit, <1>1, TokensFollow, PTL DEF Spec
-----------------------------------------------------------------------------
(* A pass is complete. While a thread reads a directory, it has noted the  *)
(* lists of the entries it was given so far; afterwards it has collected   *)
(* what it owes of the lists it has done with, and of the list at hand     *)
(* what stands before its offset.                                          *)

\* All the lists that a connector reaches.
Reached(d, source) == ListsOf(source, EntriesIn(d, source))

\* A thread in state s has item i of list x behind it.
Past(d, s, x, i) ==
    \/ x \notin s.todo
    \/ x = First(s.todo) /\ Before(ListIn(d, Connector[s.k], x), s.since, i) < s.offset

PastItems(d, s, x) ==
    {i \in DOMAIN Items[ListIn(d, Connector[s.k], x)] :
        Wanted(ListIn(d, Connector[s.k], x), i, s.since) /\ Past(d, s, x, i)}

Had(d, s) ==
    UNION {{Items[ListIn(d, Connector[s.k], x)][i].id : i \in PastItems(d, s, x)} :
              x \in Reached(d, Connector[s.k])}

Listing(d, s) ==
    /\ Lists(d, Connector[s.k])
    /\ s.got = {}
    /\ s.todo = ListsOf(Connector[s.k], {i \in EntriesIn(d, Connector[s.k]) :
                          Before(Directory(Connector[s.k]), s.since, i) < s.offset})

Collecting(d, s) ==
    /\ s.todo \subseteq Reached(d, Connector[s.k])
    /\ s.got = Had(d, s)

Reading(d, s) ==
    /\ s.k \in DOMAIN Connector /\ Connector[s.k] \in d.sources
    /\ s.since \in Nat /\ s.offset \in Nat /\ s.listing \in BOOLEAN
    /\ IF s.listing THEN Listing(d, s) ELSE Collecting(d, s)
    /\ s.twice = {}

OnItsWay == {"ask", "renew", "keep", "send", "sleep"}

ThreadOK(d, s) ==
    /\ s.pc \in OnItsWay \cup {"idle", "collected"}
    /\ s.attempt \in 1..MaxRetries
    /\ s.pc = "sleep" => s.attempt < MaxRetries
    /\ s.pc # "idle" => Reading(d, s)
    /\ s.pc # "idle" => (s.todo = {} /\ ~s.listing <=> s.pc = "collected")

PassInv ==
    /\ Shape
    /\ serving \in BOOLEAN /\ now \in 1..MaxTime /\ window \in Nat
    /\ \A t \in Thread : ThreadOK(deployment, sync[t])

-----------------------------------------------------------------------------
ItemKinds == {"pulls", "issues", "commits", "releases", "history", "search", "events", "incidents"}
DirectoryKinds == {"repos", "channels"}

LEMMA KindNames ==
    ASSUME NEW k \in DOMAIN Connector
    PROVE  /\ Connector[k] \in {"github", "slack", "notion", "calendar", "pagerduty"}
           /\ DOMAIN Kinds(Connector[k]) \subseteq Nat /\ 1 \in DOMAIN Kinds(Connector[k])
           /\ \A a \in DOMAIN Kinds(Connector[k]) : Kinds(Connector[k])[a] \in ItemKinds
           /\ \A a, b \in DOMAIN Kinds(Connector[k]) :
                 Kinds(Connector[k])[a] = Kinds(Connector[k])[b] => a = b
<1>1. Connector[k] \in {"github", "slack", "notion", "calendar", "pagerduty"}
  BY DEF Connector
<1>2. CASE Connector[k] = "github"
  <2>1. Kinds(Connector[k]) = <<"pulls", "issues", "commits", "releases">>
    BY <1>2 DEF Kinds
  <2> QED BY <1>1, <2>1 DEF ItemKinds
<1>3. CASE Connector[k] # "github"
  <2>1. PICK kind \in ItemKinds : Kinds(Connector[k]) = <<kind>>
    BY <1>1, <1>3 DEF Kinds, ItemKinds
  <2> QED BY <1>1, <2>1
<1> QED BY <1>2, <1>3

\* A set of pairs of numbers has a first one.
LEMMA LeastNumber ==
    ASSUME NEW S, S \subseteq Nat, S # {}
    PROVE  \E x \in S : \A y \in S : x <= y
<1>1. \A x, y \in Nat : y < x => <<y, x>> \in OpToRel(<, Nat)
  BY DEF OpToRel
<1> DEFINE Below == OpToRel(<, Nat)
<1>2. IsWellFoundedOn(Below, Nat)
  BY NatLessThanWellFounded
<1> HIDE DEF Below
<1>3. PICK x \in S : \A y \in S : ~(<<y, x>> \in Below)
  BY <1>2, WFMin
<1>4. \A y \in S : y \in Nat /\ x \in Nat /\ ~(y < x)
  BY <1>1, <1>3 DEF Below
<1> QED BY <1>4

LEMMA FirstIn ==
    ASSUME NEW S, S \subseteq Nat \X Nat, S # {}
    PROVE  First(S) \in S
<1> DEFINE Rows == {x[1] : x \in S}
<1>1. PICK a \in Rows : \A b \in Rows : a <= b
  <2>1. Rows \subseteq Nat /\ Rows # {}
    OBVIOUS
  <2> HIDE DEF Rows
  <2> QED BY <2>1, LeastNumber
<1> DEFINE Columns == {x[2] : x \in {y \in S : y[1] = a}}
<1>2. PICK c \in Columns : \A d \in Columns : c <= d
  <2>1. Columns \subseteq Nat /\ Columns # {}
    BY <1>1
  <2> HIDE DEF Columns
  <2> QED BY <2>1, LeastNumber
<1>3. PICK x \in S : x[1] = a /\ x[2] = c
  BY <1>2
<1>4. \A y \in S : x[1] < y[1] \/ (x[1] = y[1] /\ x[2] <= y[2])
  BY <1>1, <1>2, <1>3
<1> QED BY <1>3, <1>4 DEF First

\* What ListsAssumption says of one list.
LEMMA ListTyped ==
    ASSUME NEW l \in DOMAIN Items
    PROVE  /\ DOMAIN Items[l] \subseteq Nat /\ IsFiniteSet(DOMAIN Items[l])
           /\ \A i \in DOMAIN Items[l] :
                 /\ Items[l][i].at \in Nat
                 /\ Items[l][i].noise => l[1] \in {"issues", "history", "channels"}
<1>1. PICK S, s : s = Items[l] /\ s \in Seq(S)
  BY ListsAssumption
<1>2. Len(s) \in Nat /\ DOMAIN s = 1..Len(s)
  BY <1>1
<1>3. IsFiniteSet(1..Len(s))
  BY <1>2, FS_Interval
<1> QED BY <1>1, <1>2, <1>3, ListsAssumption

\* The lists a connector reaches are lists of the provider, and no two are the same.
LEMMA Reach ==
    ASSUME NEW d \in Deployments, NEW k \in DOMAIN Connector, Connector[k] \in d.sources,
           NEW x \in Reached(d, Connector[k])
    PROVE  /\ ListIn(d, Connector[k], x) \in DOMAIN Items
           /\ ListIn(d, Connector[k], x)[1] \in ItemKinds
           /\ x \in Nat \X Nat
           /\ \A y \in Reached(d, Connector[k]) :
                 ListIn(d, Connector[k], y) = ListIn(d, Connector[k], x) => y = x
<1>1. PICK source : source = Connector[k]
  OBVIOUS
<1>2. ListIn(d, source, x) \in DOMAIN Items
  BY <1>1, ListsAssumption DEF Reached
<1>3. /\ x \in EntriesIn(d, source) \X DOMAIN Kinds(source)
      /\ \A y \in Reached(d, source) : y \in EntriesIn(d, source) \X DOMAIN Kinds(source)
  BY <1>1 DEF Reached, ListsOf
<1>4. \A y \in Reached(d, source) : /\ ListIn(d, source, y)[1] = Kinds(source)[y[2]]
                                   /\ ListIn(d, source, y)[2] =
                                        IF Lists(d, source) THEN Items[Directory(source)][y[1]].id
                                        ELSE GivenIn(d, source)[y[1]]
  BY DEF ListIn
<1>5. EntriesIn(d, source) \subseteq Nat
  <2>1. CASE Lists(d, source)
    <3>1. Directory(source) \in DOMAIN Items
      BY <1>1, <2>1, ListsAssumption
    <3> QED BY <2>1, <3>1, ListTyped DEF EntriesIn
  <2>2. CASE ~Lists(d, source)
    <3>1. PICK S, s : s = GivenIn(d, source) /\ s \in Seq(S)
      BY <1>1, ListsAssumption
    <3>2. Len(s) \in Nat /\ DOMAIN s = 1..Len(s)
      BY <3>1
    <3> QED BY <2>2, <3>1, <3>2 DEF EntriesIn
  <2> QED BY <2>1, <2>2
<1>6. ASSUME NEW y \in Reached(d, source), ListIn(d, source, y) = ListIn(d, source, x)
      PROVE  y = x
  <2>0. x \in Reached(d, source)
    BY <1>1
  <2>1. x[2] = y[2]
    BY <1>1, <1>3, <1>4, <1>6, KindNames
  <2>2. x[1] = y[1]
    <3>1. CASE Lists(d, source)
      <4>1. Directory(source) \in DOMAIN Items
        BY <1>1, <3>1, ListsAssumption
      <4>2. /\ Items[Directory(source)][y[1]].id = Items[Directory(source)][x[1]].id
            /\ \A z \in {x[1], y[1]} : /\ z \in DOMAIN Items[Directory(source)]
                                       /\ ~Items[Directory(source)][z].noise
        BY <1>3, <1>4, <1>6, <2>0, <3>1 DEF EntriesIn
      <4> QED BY <4>1, <4>2, ListsAssumption
    <3>2. CASE ~Lists(d, source)
      <4>1. /\ GivenIn(d, source)[y[1]] = GivenIn(d, source)[x[1]]
            /\ \A z \in {x[1], y[1]} : z \in DOMAIN GivenIn(d, source)
        BY <1>3, <1>4, <1>6, <2>0, <3>2 DEF EntriesIn
      <4> QED BY <1>1, <4>1, ListsAssumption
    <3> QED BY <3>1, <3>2
  <2> QED BY <1>3, <2>1, <2>2
<1>7. ListIn(d, source, x)[1] \in ItemKinds /\ x \in Nat \X Nat
  BY <1>1, <1>3, <1>4, <1>5, KindNames
<1> QED BY <1>1, <1>2, <1>6, <1>7

\* The entries of a directory are what is wanted of it.
LEMMA DirectoryRead ==
    ASSUME NEW d \in Deployments, NEW k \in DOMAIN Connector, Connector[k] \in d.sources,
           Lists(d, Connector[k])
    PROVE  /\ Directory(Connector[k]) \in DOMAIN Items
           /\ Directory(Connector[k])[1] \in DirectoryKinds
           /\ \A since : EntriesIn(d, Connector[k]) =
                 {i \in DOMAIN Items[Directory(Connector[k])] : Wanted(Directory(Connector[k]), i, since)}
<1>1. Directory(Connector[k]) \in DOMAIN Items
  BY ListsAssumption
<1>2. Directory(Connector[k])[1] \in DirectoryKinds
  BY DEF Directory, DirectoryKinds
<1> QED BY <1>1, <1>2 DEF EntriesIn, Wanted, DirectoryKinds

-----------------------------------------------------------------------------
\* Where an item stands among those that are served.
LEMMA BeforeTyped ==
    ASSUME NEW l \in DOMAIN Items, NEW since \in Nat
    PROVE  /\ Cardinality(Served(l, since)) \in Nat
           /\ \A i \in DOMAIN Items[l] : Before(l, since, i) \in Nat
           /\ \A i \in Served(l, since) : Before(l, since, i) < Cardinality(Served(l, since))
           /\ \A i, j \in DOMAIN Items[l] : i <= j => Before(l, since, i) <= Before(l, since, j)
<1> DEFINE S == Served(l, since)
           B(i) == {j \in S : j < i}
<1>1. S \subseteq DOMAIN Items[l] /\ DOMAIN Items[l] \subseteq Nat /\ IsFiniteSet(S)
  BY ListTyped, FS_Subset DEF Served
<1>2. \A i : Before(l, since, i) = Cardinality(B(i))
  BY DEF Before
<1> HIDE DEF S
<1>3. Cardinality(S) \in Nat /\ \A i : IsFiniteSet(B(i)) /\ Cardinality(B(i)) \in Nat
  BY <1>1, FS_Subset, FS_CardinalityType
<1>4. ASSUME NEW i \in S PROVE Cardinality(B(i)) < Cardinality(S)
  <2>1. B(i) \subseteq S /\ B(i) # S
    BY <1>1
  <2> HIDE DEF B
  <2>2. Cardinality(B(i)) <= Cardinality(S) /\ Cardinality(B(i)) # Cardinality(S)
    BY <1>1, <2>1, FS_Subset
  <2> QED BY <1>3, <2>2
<1>5. ASSUME NEW i \in DOMAIN Items[l], NEW j \in DOMAIN Items[l], i <= j
      PROVE  Cardinality(B(i)) <= Cardinality(B(j))
  <2>1. B(i) \subseteq B(j)
    BY <1>1, <1>5
  <2> HIDE DEF B
  <2> QED BY <1>3, <2>1, FS_Subset
<1> QED BY <1>2, <1>3, <1>4, <1>5 DEF S

\* The provider serves what is wanted.
LEMMA WantedServed ==
    ASSUME NEW l \in DOMAIN Items, l[1] \in ItemKinds \cup DirectoryKinds, NEW since \in Nat,
           NEW i \in DOMAIN Items[l], Wanted(l, i, since)
    PROVE  i \in Served(l, since)
<1>1. Items[l][i].at \in Nat
  BY ListTyped
<1>2. CASE l[1] \in {"issues", "commits", "events", "incidents"}
  BY <1>1, <1>2 DEF Wanted, Served
<1>3. CASE l[1] = "history"
  BY <1>1, <1>3 DEF Wanted, Served
<1>4. CASE l[1] \in {"pulls", "search", "releases", "repos", "channels"}
  BY <1>1, <1>4 DEF Wanted, Served
<1> QED BY <1>2, <1>3, <1>4 DEF ItemKinds, DirectoryKinds

\* On a page that the loop reads to its end, what is kept is what is wanted.
LEMMA KeptWanted ==
    ASSUME NEW l \in DOMAIN Items, l[1] \in ItemKinds \cup DirectoryKinds, NEW since \in Nat,
           NEW page, page \subseteq Served(l, since)
    PROVE  /\ Kept(l, page, since) \subseteq page
           /\ \A i \in Kept(l, page, since) : Wanted(l, i, since)
           /\ \A i \in page : Wanted(l, i, since) => i \in Kept(l, page, since)
<1>1. \A i \in page : i \in DOMAIN Items[l] /\ i \in Nat /\ Items[l][i].at \in Nat
  BY ListTyped DEF Served
<1>2. CASE l[1] \in {"pulls", "search"}
  <2>1. Kept(l, page, since) = FreshPrefix(l, page, since)
    BY <1>2 DEF Kept, StopsEarly
  <2>2. ASSUME NEW i \in page PROVE ~Items[l][i].noise
    BY <1>1, <1>2, ListTyped
  <2>3. ASSUME NEW i \in FreshPrefix(l, page, since) PROVE i \in page /\ Wanted(l, i, since)
    <3>1. i \in page /\ ~Stale(Items[l][i], since)
      BY <1>1 DEF FreshPrefix
    <3> QED BY <1>1, <2>2, <3>1 DEF Stale, Wanted
  <2>4. ASSUME NEW i \in page, Wanted(l, i, since) PROVE i \in FreshPrefix(l, page, since)
    <3>1. ASSUME NEW j \in page, j <= i PROVE ~Stale(Items[l][j], since)
      <4>1. Items[l][i].at <= Items[l][j].at
        BY <1>1, <1>2, <3>1, ListsAssumption
      <4>2. since = 0 \/ Items[l][i].at > since
        BY <1>2, <2>4 DEF Wanted
      <4> QED BY <1>1, <4>1, <4>2 DEF Stale
    <3> QED BY <3>1 DEF FreshPrefix
  <2> QED BY <2>1, <2>3, <2>4
<1>3. CASE l[1] \in {"issues", "commits", "releases"}
  <2>1. Kept(l, page, since) =
           {i \in page : ~Items[l][i].noise /\ ~Stale(Items[l][i], since)}
    BY <1>3 DEF Kept, StopsEarly
  <2> QED BY <1>1, <1>3, <2>1 DEF Stale, Wanted
<1>4. CASE l[1] \in {"history", "events", "incidents", "repos", "channels"}
  <2>1. Kept(l, page, since) = {i \in page : ~Items[l][i].noise}
    BY <1>4 DEF Kept, StopsEarly
  <2>2. ASSUME NEW i \in page, ~Items[l][i].noise PROVE Wanted(l, i, since)
    <3>1. CASE l[1] = "history"
      BY <1>1, <2>2, <3>1 DEF Served, Wanted
    <3>2. CASE l[1] \in {"events", "incidents"}
      BY <1>1, <2>2, <3>2 DEF Served, Wanted
    <3>3. CASE l[1] \in {"repos", "channels"}
      BY <2>2, <3>3 DEF Wanted
    <3> QED BY <1>4, <3>1, <3>2, <3>3
  <2> QED BY <2>1, <2>2 DEF Wanted
<1> QED BY <1>2, <1>3, <1>4 DEF ItemKinds, DirectoryKinds

\* What an answer adds: all that is wanted of its page, and after the last page nothing
\* that is wanted is left.
LEMMA PageRead ==
    ASSUME NEW l \in DOMAIN Items, l[1] \in ItemKinds \cup DirectoryKinds, NEW since \in Nat,
           NEW offset \in Nat, NEW page, page = PageOf(l, since, offset),
           NEW kept, kept = Kept(l, page, since)
    PROVE  /\ kept \subseteq DOMAIN Items[l]
           /\ \A i \in kept : Wanted(l, i, since) /\ ~(Before(l, since, i) < offset)
           /\ LastPage(l, page, since, offset) =>
                 \A i \in DOMAIN Items[l] :
                    Wanted(l, i, since) => (Before(l, since, i) < offset \/ i \in kept)
           /\ ~LastPage(l, page, since, offset) =>
                 \A i \in DOMAIN Items[l] : Wanted(l, i, since) =>
                    (Before(l, since, i) < offset + PageSize <=>
                       Before(l, since, i) < offset \/ i \in kept)
<1> DEFINE at(i) == Before(l, since, i)
           size == Cardinality(Served(l, since))
<1>1. /\ PageSize \in Nat \ {0} /\ size \in Nat
      /\ \A i \in DOMAIN Items[l] : at(i) \in Nat
      /\ \A i \in Served(l, since) : at(i) < size
      /\ \A i, j \in DOMAIN Items[l] : i <= j => at(i) <= at(j)
      /\ DOMAIN Items[l] \subseteq Nat
  BY BeforeTyped, ListTyped, ConnectorsAssumption
<1>2. /\ page \subseteq Served(l, since) /\ Served(l, since) \subseteq DOMAIN Items[l]
      /\ \A i \in Served(l, since) : i \in page <=> at(i) \in offset..(offset + PageSize - 1)
  BY DEF PageOf, Served
<1>3. /\ kept \subseteq page /\ \A i \in kept : Wanted(l, i, since)
      /\ \A i \in page : Wanted(l, i, since) => i \in kept
  BY <1>2, KeptWanted
<1>4. \A i \in DOMAIN Items[l] : Wanted(l, i, since) => i \in Served(l, since)
  BY WantedServed
<1> HIDE DEF at, size
<1>5. \A i \in page : at(i) >= offset /\ at(i) < offset + PageSize
  BY <1>1, <1>2
<1>6. \A i \in Served(l, since) : ~(at(i) < offset) /\ at(i) < offset + PageSize => i \in page
  BY <1>1, <1>2
<1>7. kept \subseteq DOMAIN Items[l] /\ \A i \in kept : Wanted(l, i, since) /\ ~(at(i) < offset)
  BY <1>1, <1>2, <1>3, <1>5
<1>8. ASSUME LastPage(l, page, since, offset), NEW i \in DOMAIN Items[l], Wanted(l, i, since),
             ~(at(i) < offset)
      PROVE  i \in kept
  <2>1. CASE offset + PageSize >= size
    <3>1. at(i) < offset + PageSize
      BY <1>1, <1>4, <1>8, <2>1
    <3> QED BY <1>3, <1>4, <1>6, <1>8, <3>1
  <2>2. CASE StopsEarly(l) /\ FreshPrefix(l, page, since) # page
    <3>1. PICK j \in page : Stale(Items[l][j], since)
      BY <2>2 DEF FreshPrefix
    <3>2. since = 0 \/ Items[l][i].at > since
      BY <1>8, <2>2 DEF Wanted, StopsEarly
    <3>3. ~(j <= i)
      <4>1. ASSUME j <= i PROVE Items[l][i].at <= Items[l][j].at
        BY <1>2, <1>8, <2>2, <4>1, ListsAssumption DEF StopsEarly
      <4> QED BY <1>2, <1>8, <3>1, <3>2, <4>1, ListTyped DEF Stale
    <3>4. at(i) <= at(j) /\ at(j) < offset + PageSize
      BY <1>1, <1>2, <1>5, <1>8, <3>3
    <3>5. at(i) < offset + PageSize
      BY <1>1, <1>2, <1>8, <3>4
    <3> QED BY <1>3, <1>4, <1>6, <1>8, <3>5
  <2> QED BY <1>8, <2>1, <2>2 DEF LastPage, size
<1>9. ASSUME NEW i \in DOMAIN Items[l], Wanted(l, i, since)
      PROVE  at(i) < offset + PageSize <=> at(i) < offset \/ i \in kept
  <2>1. at(i) < offset => at(i) < offset + PageSize
    BY <1>1
  <2>2. i \in kept => at(i) < offset + PageSize
    BY <1>3, <1>5
  <2>3. at(i) < offset + PageSize /\ ~(at(i) < offset) => i \in kept
    BY <1>3, <1>4, <1>6, <1>9
  <2> QED BY <2>1, <2>2, <2>3
<1> QED BY <1>7, <1>8, <1>9 DEF at

-----------------------------------------------------------------------------
LEMMA ReachedLists ==
    ASSUME NEW d \in Deployments, NEW k \in DOMAIN Connector, Connector[k] \in d.sources,
           NEW since \in Nat, NEW x \in Reached(d, Connector[k]), NEW l, l = ListIn(d, Connector[k], x)
    PROVE  /\ l \in DOMAIN Items /\ l[1] \in ItemKinds \cup DirectoryKinds
           /\ \A i \in DOMAIN Items[l] : Before(l, since, i) \in Nat
BY Reach, BeforeTyped

\* A thread that has all its lists still to read has nothing behind it.
LEMMA NothingPast ==
    ASSUME NEW d \in Deployments, NEW s, s.k \in DOMAIN Connector, Connector[s.k] \in d.sources,
           s.since \in Nat, s.offset = 0, s.todo = Reached(d, Connector[s.k])
    PROVE  Had(d, s) = {}
<1>1. ASSUME NEW x \in Reached(d, Connector[s.k]), NEW i \in PastItems(d, s, x) PROVE FALSE
  <2>1. PICK l : l = ListIn(d, Connector[s.k], x)
    OBVIOUS
  <2>2. i \in DOMAIN Items[l] /\ Past(d, s, x, i)
    BY <1>1, <2>1 DEF PastItems
  <2>3. Before(l, s.since, i) \in Nat /\ Before(l, s.since, i) < 0
    BY <2>1, <2>2, ReachedLists DEF Past
  <2> QED BY <2>3
<1> QED BY <1>1 DEF Had

\* The entries a directory has given by the time the reader is at an offset.
LEMMA EntriesGiven ==
    ASSUME NEW d \in Deployments, NEW k \in DOMAIN Connector, Connector[k] \in d.sources,
           Lists(d, Connector[k]), NEW since \in Nat, NEW offset \in Nat,
           NEW l, l = Directory(Connector[k]), NEW page, page = PageOf(l, since, offset),
           NEW kept, kept = Kept(l, page, since),
           NEW given, given = {i \in EntriesIn(d, Connector[k]) : Before(l, since, i) < offset}
    PROVE  /\ LastPage(l, page, since, offset) => given \cup kept = EntriesIn(d, Connector[k])
           /\ ~LastPage(l, page, since, offset) =>
                 given \cup kept =
                   {i \in EntriesIn(d, Connector[k]) : Before(l, since, i) < offset + PageSize}
<1>1. /\ l \in DOMAIN Items /\ l[1] \in DirectoryKinds
      /\ EntriesIn(d, Connector[k]) = {i \in DOMAIN Items[l] : Wanted(l, i, since)}
  BY DirectoryRead
<1> DEFINE all == EntriesIn(d, Connector[k])
<1>2. /\ kept \subseteq all
      /\ LastPage(l, page, since, offset) =>
            \A i \in all : Before(l, since, i) < offset \/ i \in kept
      /\ ~LastPage(l, page, since, offset) =>
            \A i \in all : Before(l, since, i) < offset + PageSize <=>
                             Before(l, since, i) < offset \/ i \in kept
  BY <1>1, PageRead
<1> HIDE DEF all
<1>3. given = {i \in all : Before(l, since, i) < offset}
  BY DEF all
<1> QED BY <1>2, <1>3 DEF all

LEMMA DirectoryAnswered ==
    ASSUME NEW d \in Deployments, NEW s, NEW r, Reading(d, s), s.listing,
           NEW l, l = Directory(Connector[s.k]), NEW page, page = PageOf(l, s.since, s.offset),
           NEW kept, kept = Kept(l, page, s.since),
           r.k = s.k, r.since = s.since, r.got = s.got, r.twice = s.twice,
           r.todo = s.todo \cup ListsOf(Connector[s.k], kept),
           IF LastPage(l, page, s.since, s.offset) THEN r.offset = 0 /\ ~r.listing
           ELSE r.offset = s.offset + PageSize /\ r.listing,
           r.listing \in BOOLEAN
    PROVE  Reading(d, r)
<1> DEFINE source == Connector[s.k]
           given == {i \in EntriesIn(d, source) : Before(l, s.since, i) < s.offset}
<1>1. /\ s.k \in DOMAIN Connector /\ source \in d.sources /\ s.since \in Nat /\ s.offset \in Nat
      /\ s.twice = {} /\ Listing(d, s)
  BY DEF Reading
<1>2. /\ Lists(d, source) /\ s.got = {} /\ s.todo = ListsOf(source, given)
  BY <1>1 DEF Listing
<1>3. r.todo = ListsOf(source, given \cup kept)
  BY <1>2 DEF ListsOf
<1>4. r.offset \in Nat
  BY <1>1, ConnectorsAssumption
<1>7. /\ LastPage(l, page, s.since, s.offset) => given \cup kept = EntriesIn(d, source)
      /\ ~LastPage(l, page, s.since, s.offset) =>
            given \cup kept =
               {i \in EntriesIn(d, source) : Before(l, s.since, i) < s.offset + PageSize}
  <2>1. PICK k, since, offset : k = s.k /\ since = s.since /\ offset = s.offset
    OBVIOUS
  <2>2. PICK g : g = given
    OBVIOUS
  <2>3. /\ k \in DOMAIN Connector /\ Connector[k] \in d.sources /\ since \in Nat /\ offset \in Nat
        /\ Lists(d, Connector[k]) /\ l = Directory(Connector[k]) /\ page = PageOf(l, since, offset)
        /\ kept = Kept(l, page, since)
        /\ g = {i \in EntriesIn(d, Connector[k]) : Before(l, since, i) < offset}
    BY <1>1, <1>2, <2>1, <2>2
  <2> HIDE DEF given
  <2>4. /\ LastPage(l, page, since, offset) => g \cup kept = EntriesIn(d, Connector[k])
        /\ ~LastPage(l, page, since, offset) =>
              g \cup kept =
                {i \in EntriesIn(d, Connector[k]) : Before(l, since, i) < offset + PageSize}
    BY <2>3, EntriesGiven
  <2> QED BY <2>1, <2>2, <2>4
<1>5. CASE LastPage(l, page, s.since, s.offset)
  <2>1. given \cup kept = EntriesIn(d, source)
    BY <1>5, <1>7
  <2>2. r.todo = Reached(d, source)
    BY <1>3, <2>1 DEF Reached
  <2>3. Had(d, r) = {}
    BY <1>1, <1>5, <2>2, NothingPast
  <2>4. Collecting(d, r)
    BY <1>2, <2>2, <2>3 DEF Collecting
  <2> QED BY <1>1, <1>4, <1>5, <2>4 DEF Reading
<1>6. CASE ~LastPage(l, page, s.since, s.offset)
  <2>1. given \cup kept = {i \in EntriesIn(d, source) : Before(l, s.since, i) < s.offset + PageSize}
    BY <1>6, <1>7
  <2>2. r.todo = ListsOf(source, {i \in EntriesIn(d, source) : Before(l, s.since, i) < r.offset})
    BY <1>3, <1>6, <2>1
  <2>3. Listing(d, r)
    BY <1>2, <2>2 DEF Listing
  <2> QED BY <1>1, <1>4, <1>6, <2>3 DEF Reading
<1> QED BY <1>5, <1>6

\* A page of the list at hand: what is kept is new, and then behind the thread.
LEMMA ListAnswered ==
    ASSUME NEW d \in Deployments, NEW s, NEW r, Reading(d, s), ~s.listing, s.todo # {},
           NEW x, x = First(s.todo), NEW l, l = ListIn(d, Connector[s.k], x),
           NEW page, page = PageOf(l, s.since, s.offset),
           NEW kept, kept = Kept(l, page, s.since),
           NEW items, \A id : id \in items <=> \E i \in kept : id = Items[l][i].id,
           r.k = s.k, r.since = s.since, ~r.listing, r.listing \in BOOLEAN,
           r.got = s.got \cup items, r.twice = s.twice \cup (items \cap s.got),
           IF LastPage(l, page, s.since, s.offset) THEN r.offset = 0 /\ r.todo = s.todo \ {x}
           ELSE r.offset = s.offset + PageSize /\ r.todo = s.todo
    PROVE  Reading(d, r)
<1> DEFINE source == Connector[s.k]
           last == LastPage(l, page, s.since, s.offset)
           L(y) == ListIn(d, source, y)
<1>1. /\ s.k \in DOMAIN Connector /\ source \in d.sources /\ s.since \in Nat /\ s.offset \in Nat
      /\ s.twice = {} /\ s.todo \subseteq Reached(d, source) /\ s.got = Had(d, s)
      /\ r.offset \in Nat /\ r.listing \in BOOLEAN
  <2>1. /\ s.k \in DOMAIN Connector /\ source \in d.sources /\ s.since \in Nat /\ s.offset \in Nat
        /\ s.twice = {} /\ Collecting(d, s)
    BY DEF Reading
  <2>2. PageSize \in Nat
    BY ConnectorsAssumption
  <2>3. r.offset \in Nat
    BY <2>1, <2>2
  <2> QED BY <2>1, <2>3 DEF Collecting
<1>2. x \in s.todo /\ x \in Reached(d, source)
  BY <1>1, FirstIn, Reach
<1>3. l \in DOMAIN Items /\ l[1] \in ItemKinds \cup DirectoryKinds
  BY <1>1, <1>2, ReachedLists
<1>4. /\ kept \subseteq DOMAIN Items[l]
      /\ \A i \in kept : Wanted(l, i, s.since) /\ ~(Before(l, s.since, i) < s.offset)
      /\ last => \A i \in DOMAIN Items[l] :
            Wanted(l, i, s.since) => (Before(l, s.since, i) < s.offset \/ i \in kept)
      /\ ~last => \A i \in DOMAIN Items[l] : Wanted(l, i, s.since) =>
            (Before(l, s.since, i) < s.offset + PageSize <=>
                Before(l, s.since, i) < s.offset \/ i \in kept)
  BY <1>1, <1>3, PageRead
<1> HIDE DEF last
<1>5. \A y \in Reached(d, source) : y # x => PastItems(d, r, y) = PastItems(d, s, y)
  <2> SUFFICES ASSUME NEW y \in Reached(d, source), y # x, NEW i \in DOMAIN Items[L(y)]
               PROVE  Past(d, r, y, i) <=> Past(d, s, y, i)
    BY DEF PastItems
  <2>1. Past(d, s, y, i) <=> y \notin s.todo
    BY DEF Past
  <2>2. CASE last
    <3>1. Before(L(y), s.since, i) \in Nat
      BY <1>1, ReachedLists
    <3> QED BY <2>1, <2>2, <3>1 DEF Past, last
  <2>3. CASE ~last
    BY <2>1, <2>3 DEF Past, last
  <2> QED BY <2>2, <2>3
<1>6. PastItems(d, r, x) = PastItems(d, s, x) \cup kept
  <2>1. PastItems(d, s, x) =
           {i \in DOMAIN Items[l] : Wanted(l, i, s.since) /\ Before(l, s.since, i) < s.offset}
    BY <1>2 DEF PastItems, Past
  <2>2. CASE last
    <3>1. PastItems(d, r, x) = {i \in DOMAIN Items[l] : Wanted(l, i, s.since)}
      BY <2>2 DEF PastItems, Past, last
    <3> QED BY <1>4, <2>1, <2>2, <3>1
  <2>3. CASE ~last
    <3>1. PastItems(d, r, x) = {i \in DOMAIN Items[l] :
             Wanted(l, i, s.since) /\ Before(l, s.since, i) < s.offset + PageSize}
      BY <1>2, <2>3 DEF PastItems, Past, last
    <3> QED BY <1>4, <2>1, <2>3, <3>1
  <2> QED BY <2>2, <2>3
<1>7. Had(d, r) = Had(d, s) \cup items
  <2>1. ASSUME NEW id PROVE id \in Had(d, r) <=> id \in Had(d, s) \/ id \in items
    <3>1. id \in Had(d, r) <=> \E y \in Reached(d, source) : \E i \in PastItems(d, r, y) :
                                  id = Items[L(y)][i].id
      BY DEF Had
    <3>2. id \in Had(d, s) <=> \E y \in Reached(d, source) : \E i \in PastItems(d, s, y) :
                                  id = Items[L(y)][i].id
      BY DEF Had
    <3>3. id \in items <=> \E i \in kept : id = Items[L(x)][i].id
      OBVIOUS
    <3> HIDE DEF L
    <3> QED BY <1>2, <1>5, <1>6, <3>1, <3>2, <3>3
  <2> QED BY <2>1
<1>8. items \cap s.got = {}
  <2> SUFFICES ASSUME NEW i \in kept, Items[l][i].id \in Had(d, s) PROVE FALSE
    BY <1>1
  <2>0. PICK y \in Reached(d, source) :
           \E j \in PastItems(d, s, y) : Items[l][i].id = Items[L(y)][j].id
    BY DEF Had
  <2>1. PICK j \in PastItems(d, s, y) : Items[l][i].id = Items[L(y)][j].id
    BY <2>0
  <2>2. /\ j \in DOMAIN Items[L(y)] /\ ~Items[L(y)][j].noise /\ Past(d, s, y, j)
        /\ i \in DOMAIN Items[l] /\ ~Items[l][i].noise
    BY <1>4, <2>1 DEF PastItems, Wanted
  <2>3. L(y) \in DOMAIN Items
    BY <1>1, ReachedLists
  <2>4. l = L(y) /\ i = j
    BY <1>3, <2>1, <2>2, <2>3, ListsAssumption
  <2>5. y = x
    BY <1>1, <1>2, <2>4, Reach
  <2>6. Before(l, s.since, i) < s.offset
    BY <1>2, <2>2, <2>4, <2>5 DEF Past
  <2> QED BY <1>4, <2>6
<1>9. Collecting(d, r)
  BY <1>1, <1>7 DEF Collecting, last
<1> QED BY <1>1, <1>8, <1>9 DEF Reading

-----------------------------------------------------------------------------
\* An idle thread, and one that opens a connector.
LEMMA IdleReads == ASSUME NEW d PROVE ThreadOK(d, IdleThread)
BY ConnectorsAssumption DEF ThreadOK, IdleThread, OnItsWay

LEMMA OpenedReads ==
    ASSUME deployment \in Deployments, NEW t, NEW k \in Nat, NEW since \in Nat
    PROVE  ThreadOK(deployment, Opened(t, k, since))
<1>1. CASE RegisteredFrom(k) = {}
  BY <1>1, IdleReads DEF Opened
<1>2. CASE RegisteredFrom(k) # {}
  <2>1. PICK next, source, listing :
           /\ next = Min(RegisteredFrom(k)) /\ source = Connector[next]
           /\ listing = Lists(deployment, source) /\ listing \in BOOLEAN
    BY DEF Lists
  <2>2. PICK todo : todo = IF listing THEN {} ELSE Reached(deployment, source)
    OBVIOUS
  <2>3. PICK s : s = [IdleThread EXCEPT !.pc = "ask", !.k = next, !.since = since,
                        !.listing = listing, !.todo = todo]
    OBVIOUS
  <2>4. Opened(t, k, since) = s
    BY <1>2, <2>1, <2>2, <2>3 DEF Opened, Reached, Entries
  <2>5. /\ s.pc = "ask" /\ s.k = next /\ s.since = since /\ s.listing = listing /\ s.todo = todo
        /\ s.offset = 0 /\ s.got = {} /\ s.twice = {} /\ s.attempt = 1
    BY <2>3 DEF IdleThread
  <2>6. next \in DOMAIN Connector /\ source \in deployment.sources
    <3>1. RegisteredFrom(k) \subseteq Nat
      BY DEF RegisteredFrom, Connector
    <3>2. \E j \in RegisteredFrom(k) : \A i \in RegisteredFrom(k) : j <= i
      BY <1>2, <3>1, LeastNumber
    <3>3. next \in RegisteredFrom(k)
      BY <2>1, <3>2 DEF Min
    <3> QED BY <2>1, <3>3 DEF RegisteredFrom
  <2>7. CASE listing
    <3>1. Directory(source) \in DOMAIN Items
      BY <2>1, <2>6, <2>7, DirectoryRead
    <3>2. \A i \in DOMAIN Items[Directory(source)] : ~(Before(Directory(source), since, i) < 0)
      BY <3>1, BeforeTyped
    <3>3. {i \in EntriesIn(deployment, source) : Before(Directory(source), since, i) < 0} = {}
      BY <2>1, <2>7, <3>2 DEF EntriesIn
    <3>4. ListsOf(source, {}) = {}
      BY DEF ListsOf
    <3>5. Listing(deployment, s)
      BY <2>1, <2>2, <2>5, <2>7, <3>3, <3>4 DEF Listing
    <3>6. Reading(deployment, s)
      BY <2>1, <2>5, <2>6, <2>7, <3>5 DEF Reading
    <3> QED BY <2>4, <2>5, <2>7, <3>6, ConnectorsAssumption DEF ThreadOK, OnItsWay
  <2>8. CASE ~listing
    <3>1. todo # {}
      <4>1. PICK S, g : g = GivenIn(deployment, source) /\ g \in Seq(S)
        BY <2>6, ListsAssumption
      <4>2. g # <<>>
        BY <2>1, <2>8, <4>1 DEF Lists
      <4>3. Len(g) \in Nat /\ Len(g) # 0 /\ DOMAIN g = 1..Len(g)
        BY <4>1, <4>2
      <4>4. 1 \in EntriesIn(deployment, source)
        BY <2>1, <2>8, <4>1, <4>3 DEF EntriesIn
      <4>5. 1 \in DOMAIN Kinds(source)
        BY <2>1, <2>6, KindNames
      <4>6. <<1, 1>> \in Reached(deployment, source)
        BY <4>4, <4>5 DEF Reached, ListsOf
      <4> QED BY <2>2, <2>8, <4>6
    <3>2. Had(deployment, s) = {}
      BY <2>1, <2>2, <2>5, <2>6, <2>8, NothingPast
    <3>3. Collecting(deployment, s)
      BY <2>1, <2>2, <2>5, <2>8, <3>2 DEF Collecting
    <3>4. Reading(deployment, s)
      BY <2>1, <2>5, <2>6, <2>8, <3>3 DEF Reading
    <3> QED BY <2>4, <2>5, <2>8, <3>1, <3>4, ConnectorsAssumption DEF ThreadOK, OnItsWay
  <2> QED BY <2>1, <2>7, <2>8
<1> QED BY <1>1, <1>2

\* What an attempt, a token or a sleep changes does not concern what was read.
LEMMA PlaceKept ==
    ASSUME NEW d, NEW s, NEW r, ThreadOK(d, s), s.pc \in OnItsWay, r.pc \in OnItsWay,
           r.attempt \in 1..MaxRetries, r.pc = "sleep" => r.attempt < MaxRetries,
           r.k = s.k, r.since = s.since, r.listing = s.listing, r.todo = s.todo,
           r.offset = s.offset, r.got = s.got, r.twice = s.twice
    PROVE  ThreadOK(d, r)
<1>1. \A x, i : Past(d, r, x, i) <=> Past(d, s, x, i)
  BY DEF Past
<1>2. \A x : PastItems(d, r, x) = PastItems(d, s, x)
  BY <1>1 DEF PastItems
<1>3. Had(d, r) = Had(d, s)
  BY <1>2 DEF Had
<1>4. s.pc # "idle" /\ s.pc # "collected" /\ r.pc # "idle" /\ r.pc # "collected"
  BY DEF OnItsWay
<1>5. Reading(d, s)
  BY <1>4 DEF ThreadOK
<1>6. Listing(d, s) => Listing(d, r)
  BY DEF Listing
<1>7. Collecting(d, s) => Collecting(d, r)
  BY <1>3 DEF Collecting
<1>8. Reading(d, r)
  BY <1>5, <1>6, <1>7 DEF Reading
<1> QED BY <1>4, <1>8 DEF ThreadOK

LEMMA NextRequestFields ==
    ASSUME NEW t \in Thread, Framed(sync[t]), NEW todo, NEW s, s = NextRequest(t, todo)
    PROVE  /\ Framed(s) /\ s.pc = "ask" /\ s.attempt = 1 /\ s.todo = todo
           /\ s.offset = sync[t].offset + PageSize
           /\ s.k = sync[t].k /\ s.since = sync[t].since /\ s.listing = sync[t].listing
           /\ s.got = sync[t].got /\ s.twice = sync[t].twice
BY FieldNames DEF NextRequest, Waiting, Framed

LEMMA NextListFields ==
    ASSUME NEW t \in Thread, Framed(sync[t]), NEW todo, NEW s, s = NextList(t, todo)
    PROVE  /\ Framed(s) /\ s.attempt = 1 /\ s.todo = todo /\ s.offset = 0
           /\ ~s.listing /\ s.listing \in BOOLEAN
           /\ s.k = sync[t].k /\ s.since = sync[t].since
           /\ s.got = sync[t].got /\ s.twice = sync[t].twice
           /\ s.pc = IF todo = {} THEN "collected" ELSE "ask"
<1>1. PICK pc : pc = IF todo = {} THEN "collected" ELSE "ask"
  OBVIOUS
<1>2. s = [Waiting(t, pc) EXCEPT !.attempt = 1, !.offset = 0, !.listing = FALSE,
             !.todo = todo]
  BY <1>1 DEF NextList
<1> QED BY <1>1, <1>2, FieldNames DEF Waiting, Framed

LEMMA AnsweredReads ==
    ASSUME deployment \in Deployments, NEW t \in Thread, Framed(sync[t]),
           ThreadOK(deployment, sync[t]), Answered(t)
    PROVE  \E r : Becomes(t, r) /\ ThreadOK(deployment, r)
<1>1. PICK s, source, list, page, kept, items :
         /\ s = sync[t] /\ source = Connector[s.k]
         /\ list = Current(t) /\ page = PageOf(list, s.since, s.offset)
         /\ kept = Kept(list, page, s.since) /\ items = {Items[list][i].id : i \in kept}
  OBVIOUS
<1>2. PICK last : last = LastPage(list, page, s.since, s.offset)
  OBVIOUS
<1>3. s.pc = "send" /\ Reading(deployment, s) /\ (s.todo = {} => s.listing) /\ Framed(s)
  BY <1>1 DEF Answered, At, ThreadOK
<1>4. s.listing \in BOOLEAN /\ last \in BOOLEAN
  BY <1>2, <1>3 DEF Reading, LastPage
<1>5. CASE s.listing
  <2>1. PICK more : more = s.todo \cup ListsOf(source, kept)
    OBVIOUS
  <2>2. PICK r : r = IF last THEN NextList(t, more) ELSE NextRequest(t, more)
    OBVIOUS
  <2>3. Becomes(t, r)
    BY <1>1, <1>2, <1>5, <2>1, <2>2 DEF Answered, Source
  <2>4. /\ r.k = s.k /\ r.since = s.since /\ r.got = s.got /\ r.twice = s.twice /\ r.todo = more
        /\ r.attempt = 1
        /\ last => /\ r.offset = 0 /\ ~r.listing /\ r.listing \in BOOLEAN
                   /\ r.pc \in {"ask", "collected"} /\ (r.pc = "collected" <=> more = {})
        /\ ~last => r.offset = s.offset + PageSize /\ r.listing = s.listing /\ r.pc = "ask"
    <3>1. CASE last
      <4>1. r = NextList(t, more) /\ Framed(sync[t])
        BY <1>1, <1>3, <2>2, <3>1
      <4>2. r.k = s.k /\ r.since = s.since /\ r.got = s.got /\ r.twice = s.twice
        BY <1>1, <4>1, NextListFields
      <4>3. r.todo = more /\ r.attempt = 1 /\ r.offset = 0
        BY <4>1, NextListFields
      <4>4. ~r.listing /\ r.listing \in BOOLEAN
        BY <4>1, NextListFields
      <4>5. r.pc = IF more = {} THEN "collected" ELSE "ask"
        BY <4>1, NextListFields
      <4> QED BY <3>1, <4>2, <4>3, <4>4, <4>5
    <3>2. CASE ~last
      <4>1. r = NextRequest(t, more) /\ Framed(sync[t])
        BY <1>1, <1>3, <2>2, <3>2
      <4> QED BY <1>1, <3>2, <4>1, NextRequestFields
    <3> QED BY <1>4, <3>1, <3>2
  <2>5. list = Directory(source)
    BY <1>1, <1>5 DEF Current, Source
  <2>6. Reading(deployment, r)
    <3>1. /\ r.todo = s.todo \cup ListsOf(Connector[s.k], kept) /\ r.listing \in BOOLEAN
          /\ IF LastPage(list, page, s.since, s.offset) THEN r.offset = 0 /\ ~r.listing
             ELSE r.offset = s.offset + PageSize /\ r.listing
      BY <1>1, <1>2, <1>4, <1>5, <2>1, <2>4
    <3>2. /\ list = Directory(Connector[s.k]) /\ r.k = s.k /\ r.since = s.since
          /\ r.got = s.got /\ r.twice = s.twice
      BY <1>1, <2>4, <2>5
    <3> QED BY <1>1, <1>3, <1>5, <3>1, <3>2, DirectoryAnswered
  <2>7. ThreadOK(deployment, r)
    <3>1. MaxRetries \in Nat \ {0}
      BY ConnectorsAssumption
    <3>2. CASE last
      BY <2>4, <2>6, <3>1, <3>2 DEF ThreadOK, OnItsWay
    <3>3. CASE ~last
      <4>1. r.listing /\ r.pc = "ask" /\ r.attempt = 1
        BY <1>5, <2>4, <3>3
      <4> QED BY <2>6, <3>1, <4>1 DEF ThreadOK, OnItsWay
    <3> QED BY <1>4, <3>2, <3>3
  <2> QED BY <2>3, <2>7
<1>6. CASE ~s.listing
  <2>1. PICK x : x = First(s.todo)
    OBVIOUS
  <2>2. PICK next : next = IF last THEN NextList(t, s.todo \ {x}) ELSE NextRequest(t, s.todo)
    OBVIOUS
  <2>3. PICK r : r = [next EXCEPT !.got = @ \cup items, !.twice = @ \cup (items \cap s.got)]
    OBVIOUS
  <2>4. Becomes(t, r)
    BY <1>1, <1>2, <1>6, <2>1, <2>2, <2>3 DEF Answered
  <2>5. /\ next.k = s.k /\ next.since = s.since /\ next.got = s.got /\ next.twice = s.twice
        /\ next.attempt = 1 /\ Framed(next)
        /\ last => /\ next.offset = 0 /\ ~next.listing /\ next.listing \in BOOLEAN /\ next.todo = s.todo \ {x}
                   /\ next.pc \in {"ask", "collected"}
                   /\ (next.pc = "collected" <=> s.todo \ {x} = {})
        /\ ~last => /\ next.offset = s.offset + PageSize /\ next.listing = s.listing
                    /\ next.todo = s.todo /\ next.pc = "ask"
    <3>1. CASE last
      <4>1. next = NextList(t, s.todo \ {x}) /\ Framed(sync[t])
        BY <1>1, <1>3, <2>2, <3>1
      <4>2. next.k = s.k /\ next.since = s.since /\ next.got = s.got /\ next.twice = s.twice
        BY <1>1, <4>1, NextListFields
      <4>3. next.todo = s.todo \ {x} /\ next.attempt = 1 /\ next.offset = 0
        BY <4>1, NextListFields
      <4>4. ~next.listing /\ next.listing \in BOOLEAN /\ Framed(next)
        BY <4>1, NextListFields
      <4>5. next.pc = IF s.todo \ {x} = {} THEN "collected" ELSE "ask"
        BY <4>1, NextListFields
      <4> QED BY <3>1, <4>2, <4>3, <4>4, <4>5
    <3>2. CASE ~last
      <4>1. next = NextRequest(t, s.todo) /\ Framed(sync[t])
        BY <1>1, <1>3, <2>2, <3>2
      <4> QED BY <1>1, <3>2, <4>1, NextRequestFields
    <3> QED BY <1>4, <3>1, <3>2
  <2>6. /\ r.k = next.k /\ r.since = next.since /\ r.attempt = next.attempt
        /\ r.offset = next.offset /\ r.listing = next.listing /\ r.todo = next.todo
        /\ r.pc = next.pc /\ r.got = next.got \cup items
        /\ r.twice = next.twice \cup (items \cap s.got)
    BY <2>3, <2>5, FieldNames DEF Framed
  <2>7. list = ListIn(deployment, source, x)
    BY <1>1, <1>6, <2>1 DEF Current, Source, ListAt
  <2>8. Reading(deployment, r)
    <3>1. ~r.listing /\ r.listing \in BOOLEAN
      BY <1>4, <1>6, <2>5, <2>6
    <3>2. /\ s.todo # {} /\ list = ListIn(deployment, Connector[s.k], x)
          /\ r.k = s.k /\ r.since = s.since /\ r.got = s.got \cup items
          /\ r.twice = s.twice \cup (items \cap s.got)
      BY <1>1, <1>3, <1>6, <2>5, <2>6, <2>7
    <3>3. IF LastPage(list, page, s.since, s.offset) THEN r.offset = 0 /\ r.todo = s.todo \ {x}
          ELSE r.offset = s.offset + PageSize /\ r.todo = s.todo
      BY <1>2, <2>5, <2>6
    <3>4. \A id : id \in items <=> \E i \in kept : id = Items[list][i].id
      BY <1>1
    <3>5. page = PageOf(list, s.since, s.offset) /\ kept = Kept(list, page, s.since)
      BY <1>1
    <3> QED BY <1>3, <1>6, <2>1, <3>1, <3>2, <3>3, <3>4, <3>5, ListAnswered
  <2>9. ThreadOK(deployment, r)
    <3>1. MaxRetries \in Nat \ {0}
      BY ConnectorsAssumption
    <3>2. CASE last
      BY <2>5, <2>6, <2>8, <3>1, <3>2 DEF ThreadOK, OnItsWay
    <3>3. CASE ~last
      BY <1>3, <1>4, <1>6, <2>5, <2>6, <2>8, <3>1, <3>3 DEF ThreadOK, OnItsWay
    <3> QED BY <1>4, <3>2, <3>3
  <2> QED BY <2>4, <2>9
<1> QED BY <1>4, <1>5, <1>6

-----------------------------------------------------------------------------
\* What each step makes of the thread that takes it.
Passes(t) == \E r : Becomes(t, r) /\ ThreadOK(deployment, r)

LEMMA OneTurns ==
    ASSUME Shape, NEW t \in Thread, NEW r, Becomes(t, r)
    PROVE  \A u \in Thread : sync'[u] = IF u = t THEN r ELSE sync[u]
PROOF BY DEF Shape, Becomes

LEMMA RaisePasses ==
    ASSUME NEW t \in Thread, Raise(t)
    PROVE  Passes(t) \/ StartOver
PROOF BY IdleReads DEF Raise, Passes

LEMMA StartSyncPasses ==
    ASSUME PassInv, NEW t \in Thread, StartSync(t)
    PROVE  Passes(t)
<1>1. PICK since \in IF serving THEN Cursors ELSE {0} : Becomes(t, Opened(t, 1, since))
  BY DEF StartSync
<1>2. since \in Nat
  BY ConnectorsAssumption
<1>3. deployment \in Deployments
  BY DEF PassInv, Shape
<1>4. ThreadOK(deployment, Opened(t, 1, since))
  BY <1>2, <1>3, OpenedReads
<1> QED BY <1>1, <1>4 DEF Passes

LEMMA HandOverPasses ==
    ASSUME PassInv, NEW t \in Thread, HandOver(t)
    PROVE  Passes(t)
<1>1. Reading(deployment, sync[t])
  BY DEF PassInv, ThreadOK, HandOver, At
<1>2. sync[t].k + 1 \in Nat /\ sync[t].since \in Nat
  BY <1>1 DEF Reading, Connector
<1>3. deployment \in Deployments
  BY DEF PassInv, Shape
<1>4. ThreadOK(deployment, Opened(t, sync[t].k + 1, sync[t].since))
  BY <1>2, <1>3, OpenedReads
<1> QED BY <1>4 DEF HandOver, Passes

LEMMA AnsweredPasses ==
    ASSUME PassInv, NEW t \in Thread, Answered(t)
    PROVE  Passes(t)
<1>1. deployment \in Deployments /\ Framed(sync[t]) /\ ThreadOK(deployment, sync[t])
  BY DEF PassInv, Shape
<1> QED BY <1>1, AnsweredReads DEF Passes

\* A thread that only reads, renews or stores a token stays where it was.
LEMMA SendPasses ==
    ASSUME PassInv, NEW t \in Thread, sync[t].pc \in OnItsWay, NEW token, Send(t, token)
    PROVE  Passes(t)
<1>1. Framed(sync[t]) /\ ThreadOK(deployment, sync[t])
  BY DEF PassInv, Shape
<1>2. PICK r : r = [sync[t] EXCEPT !.pc = "send", !.readAt = now, !.token = token, !.refresh = 0]
  OBVIOUS
<1>3. /\ r.pc = "send" /\ r.attempt = sync[t].attempt /\ r.k = sync[t].k
      /\ r.since = sync[t].since /\ r.listing = sync[t].listing /\ r.todo = sync[t].todo
      /\ r.offset = sync[t].offset /\ r.got = sync[t].got /\ r.twice = sync[t].twice
  BY <1>1, <1>2, FieldNames DEF Framed
<1>4. r.pc \in OnItsWay /\ r.attempt \in 1..MaxRetries /\ r.pc # "sleep"
  BY <1>1, <1>3 DEF ThreadOK, OnItsWay
<1>5. ThreadOK(deployment, r)
  BY <1>1, <1>3, <1>4, PlaceKept
<1> QED BY <1>2, <1>5 DEF Send, Passes

LEMMA AskPasses ==
    ASSUME PassInv, NEW t \in Thread, Ask(t)
    PROVE  Passes(t)
<1>1. sync[t].pc \in OnItsWay
  BY DEF Ask, At, OnItsWay
<1>2. CASE \E token : Send(t, token)
  BY <1>1, <1>2, SendPasses
<1>3. CASE Becomes(t, [sync[t] EXCEPT !.pc = "renew", !.readAt = now])
  <2>1. Framed(sync[t]) /\ ThreadOK(deployment, sync[t])
    BY DEF PassInv, Shape
  <2>2. PICK r : r = [sync[t] EXCEPT !.pc = "renew", !.readAt = now]
    OBVIOUS
  <2>3. /\ r.pc = "renew" /\ r.attempt = sync[t].attempt /\ r.k = sync[t].k
        /\ r.since = sync[t].since /\ r.listing = sync[t].listing /\ r.todo = sync[t].todo
        /\ r.offset = sync[t].offset /\ r.got = sync[t].got /\ r.twice = sync[t].twice
    BY <2>1, <2>2, FieldNames DEF Framed
  <2>4. r.pc \in OnItsWay /\ r.attempt \in 1..MaxRetries /\ r.pc # "sleep"
    BY <2>1, <2>3 DEF ThreadOK, OnItsWay
  <2>5. ThreadOK(deployment, r)
    BY <1>1, <2>1, <2>3, <2>4, PlaceKept
  <2> QED BY <1>3, <2>2, <2>5 DEF Passes
<1> QED BY <1>2, <1>3 DEF Ask

LEMMA RenewedPasses ==
    ASSUME PassInv, NEW t \in Thread, Renewed(t)
    PROVE  Passes(t)
<1>1. Framed(sync[t]) /\ ThreadOK(deployment, sync[t]) /\ sync[t].pc \in OnItsWay
  BY DEF PassInv, Shape, Renewed, At, OnItsWay
<1>2. PICK refresh : Becomes(t, [sync[t] EXCEPT !.pc = "keep", !.token = now + Lifetime,
                                   !.refresh = refresh])
  BY DEF Renewed
<1>3. PICK r : r = [sync[t] EXCEPT !.pc = "keep", !.token = now + Lifetime, !.refresh = refresh]
  OBVIOUS
<1>4. /\ r.pc = "keep" /\ r.attempt = sync[t].attempt /\ r.k = sync[t].k
      /\ r.since = sync[t].since /\ r.listing = sync[t].listing /\ r.todo = sync[t].todo
      /\ r.offset = sync[t].offset /\ r.got = sync[t].got /\ r.twice = sync[t].twice
  BY <1>1, <1>3, FieldNames DEF Framed
<1>5. r.pc \in OnItsWay /\ r.attempt \in 1..MaxRetries /\ r.pc # "sleep"
  BY <1>1, <1>4 DEF ThreadOK, OnItsWay
<1>6. ThreadOK(deployment, r)
  BY <1>1, <1>4, <1>5, PlaceKept
<1> QED BY <1>2, <1>3, <1>6 DEF Passes

LEMMA KeepPasses ==
    ASSUME PassInv, NEW t \in Thread, Keep(t)
    PROVE  Passes(t)
<1>1. sync[t].pc \in OnItsWay /\ \E token : Send(t, token)
  BY DEF Keep, At, OnItsWay
<1> QED BY <1>1, SendPasses

\* A thread sleeps while attempts are left, and counts the next when it wakes.
LEMMA ThrottledPasses ==
    ASSUME PassInv, NEW t \in Thread, Throttled(t)
    PROVE  Passes(t) \/ StartOver
<1>1. CASE AttemptsLeft(t)
  <2>1. Framed(sync[t]) /\ ThreadOK(deployment, sync[t]) /\ sync[t].pc \in OnItsWay
    BY DEF PassInv, Shape, Throttled, At, OnItsWay
  <2>2. PICK until : Becomes(t, [Waiting(t, "sleep") EXCEPT !.until = until])
    BY <1>1 DEF Throttled
  <2>3. PICK r : r = [Waiting(t, "sleep") EXCEPT !.until = until]
    OBVIOUS
  <2>4. /\ r.pc = "sleep" /\ r.attempt = sync[t].attempt /\ r.k = sync[t].k
        /\ r.since = sync[t].since /\ r.listing = sync[t].listing /\ r.todo = sync[t].todo
        /\ r.offset = sync[t].offset /\ r.got = sync[t].got /\ r.twice = sync[t].twice
    BY <2>1, <2>3, FieldNames DEF Framed, Waiting
  <2>5. r.pc \in OnItsWay /\ r.attempt \in 1..MaxRetries /\ r.attempt < MaxRetries
    BY <1>1, <2>1, <2>4 DEF ThreadOK, OnItsWay, AttemptsLeft
  <2>6. ThreadOK(deployment, r)
    BY <2>1, <2>4, <2>5, PlaceKept
  <2> QED BY <2>2, <2>3, <2>6 DEF Passes
<1>2. CASE ~AttemptsLeft(t)
  BY <1>2, RaisePasses DEF Throttled
<1> QED BY <1>1, <1>2

LEMMA WakePasses ==
    ASSUME PassInv, NEW t \in Thread, Wake(t)
    PROVE  Passes(t)
<1>1. Framed(sync[t]) /\ ThreadOK(deployment, sync[t]) /\ sync[t].pc = "sleep"
  BY DEF PassInv, Shape, Wake, At
<1>2. PICK r : r = [sync[t] EXCEPT !.pc = "ask", !.attempt = @ + 1, !.until = 0]
  OBVIOUS
<1>3. /\ r.pc = "ask" /\ r.attempt = sync[t].attempt + 1 /\ r.k = sync[t].k
      /\ r.since = sync[t].since /\ r.listing = sync[t].listing /\ r.todo = sync[t].todo
      /\ r.offset = sync[t].offset /\ r.got = sync[t].got /\ r.twice = sync[t].twice
  BY <1>1, <1>2, FieldNames DEF Framed
<1>4. r.attempt \in 1..MaxRetries
  <2>1. MaxRetries \in Nat
    BY ConnectorsAssumption
  <2> QED BY <1>1, <1>3, <2>1 DEF ThreadOK
<1>5. sync[t].pc \in OnItsWay /\ r.pc \in OnItsWay /\ r.pc # "sleep"
  BY <1>1, <1>3 DEF OnItsWay
<1>6. ThreadOK(deployment, r)
  BY <1>1, <1>3, <1>4, <1>5, PlaceKept
<1> QED BY <1>2, <1>6 DEF Wake, Passes

\* A step turns one thread, or starts the process over, or leaves the threads alone.
LEMMA StepPasses ==
    ASSUME PassInv, Next
    PROVE  /\ deployment' = deployment
           /\ \/ \E t \in Thread : Passes(t)
              \/ \A t \in Thread : sync'[t] = IdleThread
              \/ sync' = sync
<1>1. CASE Restart
  BY <1>1 DEF Restart, StartOver
<1>2. CASE Tick
  BY <1>2 DEF Tick
<1>3. ASSUME NEW t \in Thread, StartSync(t)
      PROVE  Passes(t) /\ deployment' = deployment
  BY <1>3, StartSyncPasses DEF StartSync
<1>4. ASSUME NEW t \in Thread, Step(t)
      PROVE  deployment' = deployment /\ (Passes(t) \/ \A u \in Thread : sync'[u] = IdleThread)
  <2>0. StartOver => \A u \in Thread : sync'[u] = IdleThread
    BY DEF StartOver
  <2>1. CASE HandOver(t)
    BY <2>1, HandOverPasses DEF HandOver
  <2>2. CASE Ask(t)
    BY <2>2, AskPasses DEF Ask
  <2>3. CASE Renewed(t)
    BY <2>3, RenewedPasses DEF Renewed
  <2>4. CASE NotRenewed(t)
    <3>1. Passes(t) \/ StartOver
      BY <2>4, RaisePasses DEF NotRenewed
    <3> QED BY <2>0, <2>4, <3>1 DEF NotRenewed
  <2>5. CASE RenewalLost(t)
    <3>1. Becomes(t, IdleThread) \/ sync' = [u \in Thread |-> IdleThread]
      BY <2>5 DEF RenewalLost
    <3> QED BY <2>5, <3>1, IdleReads DEF RenewalLost, Passes
  <2>6. CASE Keep(t)
    BY <2>6, KeepPasses DEF Keep
  <2>7. CASE Answered(t)
    BY <2>7, AnsweredPasses DEF Answered
  <2>8. CASE Refused(t)
    <3>1. Passes(t) \/ StartOver
      BY <2>8, RaisePasses DEF Refused
    <3> QED BY <2>0, <2>8, <3>1 DEF Refused
  <2>9. CASE Throttled(t)
    BY <2>0, <2>9, ThrottledPasses DEF Throttled
  <2>10. CASE Wake(t)
    BY <2>10, WakePasses DEF Wake
  <2> QED BY <1>4, <2>1, <2>2, <2>3, <2>4, <2>5, <2>6, <2>7, <2>8, <2>9, <2>10 DEF Step
<1> QED BY <1>1, <1>2, <1>3, <1>4 DEF Next

\* The clock, the window and the flag of the process keep their types.
LEMMA ClockTyped ==
    ASSUME PassInv, Next
    PROVE  serving' \in BOOLEAN /\ now' \in 1..MaxTime /\ window' \in Nat
<1>0. /\ serving \in BOOLEAN /\ now \in 1..MaxTime /\ window \in Nat /\ MaxTime \in Nat
      /\ (~deployment.run_initial_sync) \in BOOLEAN
  BY Constants DEF PassInv
<1>1. ASSUME NEW t \in Thread, Raise(t) PROVE serving' \in BOOLEAN
  BY <1>0, <1>1 DEF Raise, StartOver
<1>2. CASE Restart
  BY <1>0, <1>2 DEF Restart, StartOver, clockVars
<1>3. CASE Tick
  BY <1>0, <1>3 DEF Tick
<1>4. ASSUME NEW t \in Thread, StartSync(t) PROVE UNCHANGED <<serving, now, window>>
  BY <1>4 DEF StartSync, clockVars
<1>5. ASSUME NEW t \in Thread, HandOver(t)
      PROVE  serving' \in BOOLEAN /\ UNCHANGED <<now, window>>
  BY <1>0, <1>5 DEF HandOver, clockVars
<1>6. ASSUME NEW t \in Thread, Throttled(t)
      PROVE  serving' \in BOOLEAN /\ now' = now /\ window' \in Nat
  <2>1. serving' \in BOOLEAN
    BY <1>0, <1>1, <1>6 DEF Throttled
  <2>2. window' \in {window, now + MaxDelay + 1} /\ now' = now
    BY <1>6 DEF Throttled
  <2> QED BY <1>0, <2>1, <2>2 DEF MaxDelay
<1>7. ASSUME NEW t \in Thread, NotRenewed(t) \/ Refused(t)
      PROVE  serving' \in BOOLEAN /\ UNCHANGED <<now, window>>
  BY <1>1, <1>7 DEF NotRenewed, Refused, clockVars
<1>8. ASSUME NEW t \in Thread,
             Ask(t) \/ Renewed(t) \/ RenewalLost(t) \/ Keep(t) \/ Answered(t) \/ Wake(t)
      PROVE  UNCHANGED <<serving, now, window>>
  BY <1>8 DEF Ask, Renewed, RenewalLost, Keep, Answered, Wake, clockVars
<1> QED BY <1>0, <1>2, <1>3, <1>4, <1>5, <1>6, <1>7, <1>8 DEF Next, Step

LEMMA PassInit == Init => PassInv
<1> SUFFICES ASSUME Init PROVE PassInv
  OBVIOUS
<1>1. \A t \in Thread : sync[t] = IdleThread
  BY DEF Init
<1>2. serving \in BOOLEAN /\ now = 1 /\ window = 0
  BY DEF Init
<1>3. now \in 1..MaxTime
  BY <1>2, ConnectorsAssumption
<1> QED BY <1>1, <1>2, <1>3, ShapeInit, IdleReads DEF PassInv

LEMMA PassNext ==
    ASSUME PassInv, Renewing, [Next]_vars
    PROVE  PassInv' /\ Renewing'
<1>1. Shape' /\ Renewing'
  BY RenewingNext DEF PassInv
<1>2. CASE Next
  <2>1. serving' \in BOOLEAN /\ now' \in 1..MaxTime /\ window' \in Nat
    BY <1>2, ClockTyped
  <2>2. deployment' = deployment
    BY <1>2, StepPasses
  <2>3. ASSUME NEW u \in Thread PROVE ThreadOK(deployment, sync'[u])
    <3>1. CASE \E t \in Thread : Passes(t)
      <4>0. PICK t \in Thread : Passes(t)
        BY <3>1
      <4>1. PICK r : Becomes(t, r) /\ ThreadOK(deployment, r)
        BY <4>0 DEF Passes
      <4>2. sync'[u] = IF u = t THEN r ELSE sync[u]
        BY <4>1, OneTurns DEF PassInv
      <4> QED BY <4>1, <4>2 DEF PassInv
    <3>2. CASE \A t \in Thread : sync'[t] = IdleThread
      BY <3>2, IdleReads
    <3>3. CASE sync' = sync
      BY <3>3 DEF PassInv
    <3> QED BY <1>2, <3>1, <3>2, <3>3, StepPasses
  <2>4. \A u \in Thread : ThreadOK(deployment', sync'[u])
    BY <2>2, <2>3
  <2> QED BY <1>1, <2>1, <2>4 DEF PassInv
<1>3. CASE UNCHANGED vars
  <2>1. UNCHANGED <<deployment, serving, now, window, sync>>
    BY <1>3 DEF vars, clockVars
  <2> QED BY <1>1, <2>1 DEF PassInv
<1> QED BY <1>2, <1>3

\* What a thread that has all lists behind it has read is what its connector owes.
LEMMA HadIsOwed ==
    ASSUME NEW t \in Thread, sync[t].todo = {}
    PROVE  Had(deployment, sync[t]) = Owed(Source(t), sync[t].since)
<1> DEFINE s == sync[t]
           L(x) == ListIn(deployment, Source(t), x)
           R == Reached(deployment, Source(t))
           W(x) == {i \in DOMAIN Items[L(x)] : Wanted(L(x), i, s.since)}
<1>1. ASSUME NEW x PROVE PastItems(deployment, s, x) = W(x)
  BY DEF PastItems, Past, Source
<1>2. ASSUME NEW id
      PROVE  id \in Had(deployment, s) <=> \E x \in R : \E i \in W(x) : id = Items[L(x)][i].id
  BY <1>1 DEF Had, Source
<1>3. ASSUME NEW id
      PROVE  id \in Owed(Source(t), s.since) <=>
                \E x \in R : \E i \in W(x) : id = Items[L(x)][i].id
  BY DEF Owed, ListAt, Reached, Entries
<1> HIDE DEF W, R, L
<1> QED BY <1>2, <1>3

LEMMA PassIsTyped == PassInv => TypeOK
<1> SUFFICES ASSUME PassInv PROVE TypeOK
  OBVIOUS
<1>1. /\ deployment \in Deployments /\ {serving, lost} \subseteq BOOLEAN
      /\ now \in 1..MaxTime /\ {window, authority} \subseteq Nat
      /\ credential \in [Holders -> [token : Nat, expires : Nat, refresh : Nat]]
  BY DEF PassInv, Shape
<1>2. ASSUME NEW t \in Thread
      PROVE  /\ sync[t].pc \in {"idle", "ask", "renew", "keep", "send", "sleep", "collected"}
             /\ Running(t) => sync[t].k \in RegisteredFrom(1)
             /\ sync[t].attempt \in 1..MaxRetries
             /\ Running(t) => (sync[t].todo = {} /\ ~sync[t].listing <=> At(t, "collected"))
  <2>1. ThreadOK(deployment, sync[t])
    BY DEF PassInv
  <2>2. Running(t) => sync[t].k \in RegisteredFrom(1)
    BY <2>1 DEF ThreadOK, Running, Reading, RegisteredFrom, Connector
  <2> QED BY <2>1, <2>2 DEF ThreadOK, OnItsWay, Running, At
<1> QED BY <1>1, <1>2 DEF TypeOK

LEMMA PassFollows == PassInv => PassIsComplete
<1> SUFFICES ASSUME PassInv, NEW t \in Thread, At(t, "collected")
             PROVE  sync[t].got = Owed(Source(t), sync[t].since) /\ sync[t].twice = {}
  BY DEF PassIsComplete
<1>1. Reading(deployment, sync[t]) /\ sync[t].todo = {} /\ ~sync[t].listing
  BY DEF PassInv, ThreadOK, At
<1>2. sync[t].got = Had(deployment, sync[t]) /\ sync[t].twice = {}
  BY <1>1 DEF Reading, Collecting
<1> QED BY <1>1, <1>2, HadIsOwed

\* The places of the sync threads are places of registered connectors, no request is
\* attempted more often than max_retries, and a thread has nothing to read exactly when
\* its connector returns.
THEOREM ConnectorsAreTyped == Spec => []TypeOK
<1>1. PassInv /\ Renewing /\ [Next]_vars => PassInv' /\ Renewing'
  BY PassNext
<1>2. Init => Renewing
  BY IdleFramed DEF Init, Renewing
<1> QED BY PassInit, <1>1, <1>2, PassIsTyped, PTL DEF Spec

\* A connector that returns has collected each item its lists owe the cursor, none in
\* two answers, and nothing else, whatever the lists and the pages hold, and however
\* often its requests were throttled, retried and made with a renewed token.
THEOREM PassesAreComplete == Spec => []PassIsComplete
<1>1. PassInv /\ Renewing /\ [Next]_vars => PassInv' /\ Renewing'
  BY PassNext
<1>2. Init => Renewing
  BY IdleFramed DEF Init, Renewing
<1> QED BY PassInit, <1>1, <1>2, PassFollows, PTL DEF Spec
=============================================================================
