---------------------------- MODULE IngestionProofs ----------------------------
(***************************************************************************)
(* No object is forgotten by a sync, for every source, page size, number   *)
(* of sync threads and every bound, proved with TLAPS.                     *)
(***************************************************************************)
EXTENDS Ingestion, FiniteSetTheorems, SequenceTheorems, TLAPS

SyncState ==
    [pc : {"idle", "page", "test", "add", "publish"}, start : Nat,
     events : Seq(Event), fresh : Seq(Event), next : Nat \ {0},
     touched : SUBSET Object, shrunk : BOOLEAN]

\* The part of the types the argument needs: where the threads are and what they hold.
SyncTyped == sync \in [Thread -> SyncState]

\* A sync begins at offset 0, keeps nothing for publishing before it has read the last
\* page, and has its event in hand when it marks an id.
WellFormed(state) ==
    /\ state \in SyncState
    /\ state.pc = "add" => state.next \in 1..Len(state.events)
    /\ state.pc \in {"idle", "page"} => state.fresh = <<>>
    /\ state.pc = "idle" => state.start = 0

SourceTyped == listing \in Seq(Object) /\ version \in [Object -> Nat \ {0}]

Typed == SourceTyped /\ SyncTyped /\ \A t \in Thread : WellFormed(sync[t])

-----------------------------------------------------------------------------
\* A state whose events are well-typed keeps its type, field by field.
LEMMA IdleTyped == Idle \in SyncState
<1>1. <<>> \in Seq(Event) /\ {} \in SUBSET Object
  OBVIOUS
<1>2. QED
  BY <1>1 DEF Idle, SyncState

(***************************************************************************)
(* A page holds well-typed events: objects of the listing in the version   *)
(* they have.                                                              *)
(***************************************************************************)
LEMMA PageTyped ==
    ASSUME SourceTyped, NEW start \in Nat
    PROVE  /\ Page(start) \in Seq(Event) /\ Len(Page(start)) \in Nat
           /\ \A j \in 1..Len(Page(start)) :
                Page(start)[j] = <<listing[start + j], version[listing[start + j]]>>
           /\ Len(Page(start)) = PageSize \/ start + Len(Page(start)) >= Len(listing)
           /\ Len(Page(start)) > 0 => start + Len(Page(start)) <= Len(listing)
<1> DEFINE Slots == {j \in 1..PageSize : start + j <= Len(listing)}
<1>1. Len(listing) \in Nat /\ PageSize \in Nat
  BY IngestionAssumption DEF SourceTyped
<1> HIDE DEF Slots
<1>2. PICK n \in Nat : /\ Slots = 1..n
                       /\ n > 0 => start + n <= Len(listing)
                       /\ n = PageSize \/ start + n >= Len(listing)
  <2>1. CASE start + PageSize <= Len(listing)
    <3>1. Slots = 1..PageSize
      BY <1>1, <2>1 DEF Slots
    <3>2. QED
      BY <1>1, <2>1, <3>1
  <2>2. CASE start >= Len(listing)
    <3>1. Slots = 1..0
      BY <1>1, <2>2 DEF Slots
    <3>2. 0 \in Nat /\ ~(0 > 0) /\ start + 0 >= Len(listing)
      BY <1>1, <2>2
    <3>3. QED
      BY <3>1, <3>2, Zenon
  <2>3. CASE start < Len(listing) /\ start + PageSize > Len(listing)
    <3>1. Slots = 1..(Len(listing) - start) /\ Len(listing) - start \in Nat
      BY <1>1, <2>3 DEF Slots
    <3>2. /\ start + (Len(listing) - start) <= Len(listing)
          /\ start + (Len(listing) - start) >= Len(listing)
      BY <1>1
    <3>3. QED
      BY <3>1, <3>2, Zenon
  <2>4. QED
    BY <1>1, <2>1, <2>2, <2>3
<1>3. Cardinality(Slots) = n
  <2>1. Cardinality(1..n) = n
    <3>1. Cardinality(1..n) = IF 1 > n THEN 0 ELSE n - 1 + 1
      BY FS_Interval
    <3>2. QED
      BY <3>1
  <2>2. Slots = 1..n
    BY <1>2
  <2>3. QED
    BY <2>1, <2>2, Zenon
<1>4. Page(start) = [i \in 1..n |-> <<listing[start + i], version[listing[start + i]]>>]
  BY <1>3, Zenon DEF Page, Slots
<1>5. ASSUME NEW i \in 1..n PROVE <<listing[start + i], version[listing[start + i]]>> \in Event
  <2>1. n > 0 => start + n <= Len(listing)
    BY <1>2
  <2>2. start + i \in 1..Len(listing)
    BY <1>1, <2>1
  <2>3. listing[start + i] \in Object
    BY <2>2 DEF SourceTyped
  <2>4. QED
    BY <2>3 DEF SourceTyped, Event
<1>6. Page(start) \in [1..n -> Event]
  BY <1>4, <1>5, Zenon
<1>7. Page(start) \in Seq(Event) /\ Len(Page(start)) = n /\ n \in Nat
  BY <1>2, <1>6
<1>8. \A j \in 1..n : Page(start)[j] = <<listing[start + j], version[listing[start + j]]>>
  BY <1>4, Zenon
<1>9. /\ n = PageSize \/ start + n >= Len(listing)
      /\ n > 0 => start + n <= Len(listing)
  BY <1>2
<1>10. QED
  BY <1>7, <1>8, <1>9, Zenon

(***************************************************************************)
(* Taking an object out of the listing moves the others at most one place  *)
(* to the front.                                                           *)
(***************************************************************************)
LEMMA WithoutPlaces ==
    ASSUME SourceTyped, NEW o \in Object
    PROVE  /\ Without(o) \in Seq(Object)
           /\ \E i \in 1..(Len(listing) + 1) :
                /\ i <= Len(listing) => listing[i] = o
                /\ i = Len(listing) + 1 => o \notin Listed
                /\ \A j \in 1..Len(Without(o)) :
                     \/ j < i /\ j <= Len(listing) /\ Without(o)[j] = listing[j]
                     \/ j >= i /\ j + 1 <= Len(listing) /\ Without(o)[j] = listing[j + 1]
<1>1. listing \in Seq(Object) /\ Len(listing) \in Nat /\ DOMAIN listing = 1..Len(listing)
  BY DEF SourceTyped
<1>2. CASE o \notin Listed
  <2>1. Without(o) = listing
    BY <1>2 DEF Without
  <2>2. Len(listing) + 1 \in 1..(Len(listing) + 1) /\ ~(Len(listing) + 1 <= Len(listing))
    BY <1>1
  <2>3. \A j \in 1..Len(Without(o)) :
          j < Len(listing) + 1 /\ j <= Len(listing) /\ Without(o)[j] = listing[j]
    BY <1>1, <2>1
  <2>4. QED
    BY <1>1, <1>2, <2>1, <2>2, <2>3
<1>3. CASE o \in Listed
  <2> DEFINE i == CHOOSE j \in DOMAIN listing : listing[j] = o
             front == SubSeq(listing, 1, i - 1)
             back == SubSeq(listing, i + 1, Len(listing))
  <2>1. i \in 1..Len(listing) /\ listing[i] = o
    BY <1>1, <1>3 DEF Listed
  <2>2. Without(o) = front \o back
    BY <1>3 DEF Without
  <2> HIDE DEF i
  <2>3. front \in Seq(Object) /\ Len(front) = i - 1
    BY <1>1, <2>1
  <2>4. /\ back \in Seq(Object) /\ Len(back) = Len(listing) - i
        /\ \A j \in 1..(Len(listing) - i) : back[j] = listing[i + j]
    <3>1. i + 1 \in Int /\ Len(listing) \in Int /\ \A j \in (i + 1)..Len(listing) : listing[j] \in Object
      BY <1>1, <2>1
    <3>2. /\ back \in Seq(Object)
          /\ Len(back) = IF i + 1 <= Len(listing) THEN Len(listing) - (i + 1) + 1 ELSE 0
          /\ \A j \in 1..(Len(listing) - (i + 1) + 1) : back[j] = listing[i + 1 + j - 1]
      BY <3>1, SubSeqProperties
    <3>3. Len(back) = Len(listing) - i
      <4>1. CASE i + 1 <= Len(listing)
        <5>1. Len(back) = Len(listing) - (i + 1) + 1
          BY <3>2, <4>1
        <5>2. Len(listing) - (i + 1) + 1 = Len(listing) - i
          BY <1>1, <2>1
        <5>3. QED
          BY <5>1, <5>2, Zenon
      <4>2. CASE ~(i + 1 <= Len(listing))
        <5>1. Len(back) = 0
          BY <3>2, <4>2
        <5>2. i \in Nat /\ i <= Len(listing)
          BY <1>1, <2>1
        <5>3. \A a, b \in Nat : a <= b /\ ~(a + 1 <= b) => 0 = b - a
          OBVIOUS
        <5>4. QED
          BY <1>1, <4>2, <5>1, <5>2, <5>3, Zenon
      <4>3. QED
        BY <4>1, <4>2
    <3>4. ASSUME NEW j \in 1..(Len(listing) - i) PROVE back[j] = listing[i + j]
      <4>1. j \in 1..(Len(listing) - (i + 1) + 1) /\ i + 1 + j - 1 = i + j
        BY <1>1, <2>1
      <4>2. QED
        BY <3>2, <4>1
    <3>5. QED
      BY <3>2, <3>3, <3>4
  <2>5. \A j \in 1..(i - 1) : front[j] = listing[j]
    BY <1>1, <2>1
  <2> HIDE DEF front, back
  <2>7. /\ Without(o) \in Seq(Object) /\ Len(Without(o)) = Len(front) + Len(back)
        /\ \A j \in 1..(Len(front) + Len(back)) : Without(o)[j] =
             IF j <= Len(front) THEN front[j] ELSE back[j - Len(front)]
    BY <2>2, <2>3, <2>4, ConcatProperties
  <2>8. ASSUME NEW j \in 1..Len(Without(o))
        PROVE  \/ j < i /\ j <= Len(listing) /\ Without(o)[j] = listing[j]
               \/ j >= i /\ j + 1 <= Len(listing) /\ Without(o)[j] = listing[j + 1]
    <3>1. CASE j <= i - 1
      <4>1. j \in 1..(i - 1) /\ j \in 1..(Len(front) + Len(back)) /\ j <= Len(front)
        BY <1>1, <2>1, <2>3, <2>4, <2>7, <3>1
      <4>2. Without(o)[j] = listing[j]
        BY <2>5, <2>7, <4>1
      <4>3. QED
        BY <1>1, <2>1, <4>1, <4>2
    <3>2. CASE j > i - 1
      <4>1. Without(o)[j] = back[j - (i - 1)] /\ j - (i - 1) \in 1..(Len(listing) - i)
        BY <1>1, <2>1, <2>3, <2>4, <2>7, <3>2
      <4>2. Without(o)[j] = listing[j + 1]
        BY <2>1, <2>4, <4>1
      <4>3. QED
        BY <1>1, <2>1, <2>3, <2>4, <2>7, <3>2, <4>2
    <3>3. QED
      BY <2>1, <3>1, <3>2
  <2>9. i \in 1..(Len(listing) + 1) /\ i # Len(listing) + 1
    BY <1>1, <2>1
  <2>10. QED
    BY <2>1, <2>7, <2>8, <2>9
<1>4. QED
  BY <1>2, <1>3

LEMMA WithoutShape ==
    ASSUME SourceTyped, NEW o \in Object
    PROVE  /\ Without(o) \in Seq(Object)
           /\ \A j \in 1..Len(Without(o)) : \E k \in 1..Len(listing) :
                k <= j + 1 /\ Without(o)[j] = listing[k]
<1>1. Len(listing) \in Nat /\ Without(o) \in Seq(Object) /\ Len(Without(o)) \in Nat
  BY WithoutPlaces DEF SourceTyped
<1>2. ASSUME NEW j \in 1..Len(Without(o))
      PROVE  \E k \in 1..Len(listing) : k <= j + 1 /\ Without(o)[j] = listing[k]
  <2>1. \/ j <= Len(listing) /\ Without(o)[j] = listing[j]
        \/ j + 1 <= Len(listing) /\ Without(o)[j] = listing[j + 1]
    BY WithoutPlaces
  <2>2. CASE j <= Len(listing) /\ Without(o)[j] = listing[j]
    BY <1>1, <2>2
  <2>3. CASE j + 1 <= Len(listing) /\ Without(o)[j] = listing[j + 1]
    BY <1>1, <2>3
  <2>4. QED
    BY <2>1, <2>2, <2>3
<1>3. QED
  BY <1>1, <1>2

(***************************************************************************)
(* A change puts an object in front; no other moves to the front.          *)
(***************************************************************************)
LEMMA ChangeMovesBack ==
    ASSUME SourceTyped, NEW o \in Object, Change(o)
    PROVE  /\ listing' \in Seq(Object)
           /\ \A j \in 1..Len(listing') :
                listing'[j] # o =>
                    \E k \in 1..Len(listing) : k <= j /\ listing'[j] = listing[k]
<1>1. Without(o) \in Seq(Object) /\ Len(Without(o)) \in Nat
  BY WithoutShape
<1>2. listing' = <<o>> \o Without(o)
  BY DEF Change
<1>3. listing' \in Seq(Object) /\ Len(listing') = Len(Without(o)) + 1
  BY <1>1, <1>2
<1>4. listing'[1] = o
  BY <1>1, <1>2
<1>5. \A j \in 2..Len(listing') : listing'[j] = Without(o)[j - 1]
  BY <1>1, <1>2, <1>3
<1>6. ASSUME NEW j \in 1..Len(listing'), listing'[j] # o
      PROVE  \E k \in 1..Len(listing) : k <= j /\ listing'[j] = listing[k]
  <2>1. j \in 2..Len(listing') /\ j - 1 \in 1..Len(Without(o))
    BY <1>1, <1>3, <1>4, <1>6
  <2>2. PICK k \in 1..Len(listing) : k <= j - 1 + 1 /\ Without(o)[j - 1] = listing[k]
    BY <2>1, WithoutShape
  <2>3. k <= j
    BY <2>1, <2>2
  <2>4. QED
    BY <1>5, <2>1, <2>2, <2>3
<1>7. QED
  BY <1>3, <1>6

-----------------------------------------------------------------------------
\* A step of one thread leaves the others, and the source, alone.
LEMMA BecomesTyped ==
    ASSUME Typed, NEW t \in Thread, NEW state, WellFormed(state), Becomes(t, state),
           UNCHANGED sourceVars
    PROVE  Typed' /\ sync'[t] = state /\ \A u \in Thread \ {t} : sync'[u] = sync[u]
<1>1. state \in SyncState /\ sync \in [Thread -> SyncState]
  BY DEF WellFormed, Typed, SyncTyped
<1>2. sync' \in [Thread -> SyncState] /\ sync'[t] = state
  BY <1>1 DEF Becomes
<1>3. \A u \in Thread \ {t} : sync'[u] = sync[u]
  BY <1>1 DEF Becomes
<1>4. \A u \in Thread : WellFormed(sync'[u])
  BY <1>2, <1>3 DEF Typed
<1>5. SourceTyped'
  BY DEF Typed, SourceTyped, sourceVars
<1>6. QED
  BY <1>2, <1>3, <1>4, <1>5 DEF Typed, SyncTyped

\* What a well-formed thread holds.
LEMMA ThreadFields ==
    ASSUME Typed, NEW t \in Thread
    PROVE  /\ sync[t] \in SyncState
           /\ sync[t].start \in Nat /\ sync[t].next \in Nat /\ sync[t].next >= 1
           /\ sync[t].events \in Seq(Event) /\ sync[t].fresh \in Seq(Event)
           /\ Len(sync[t].events) \in Nat /\ Len(sync[t].fresh) \in Nat
           /\ sync[t].pc = "add" => sync[t].next \in 1..Len(sync[t].events)
           /\ sync[t].pc \in {"idle", "page"} => sync[t].fresh = <<>>
           /\ sync[t].pc = "idle" => sync[t].start = 0
BY DEF Typed, SyncTyped, SyncState, WellFormed

\* The states the steps of a thread lead to are well formed.
LEMMA IdleWellFormed == WellFormed(Idle)
BY IdleTyped DEF WellFormed, Idle

LEMMA StartWellFormed ==
    ASSUME Typed, NEW t \in Thread, StartSync(t)
    PROVE  WellFormed([sync[t] EXCEPT !.pc = "page"])
BY ThreadFields DEF StartSync, Running, SyncState, WellFormed

LEMMA ReadWellFormed ==
    ASSUME Typed, NEW t \in Thread, ReadPage(t), NEW q \in {"test", "page"}
    PROVE  WellFormed([sync[t] EXCEPT !.events = @ \o Page(sync[t].start),
                                      !.start = NextStart(t), !.pc = q])
<1>1. Page(sync[t].start) \in Seq(Event) /\ Len(Page(sync[t].start)) \in Nat
  BY ThreadFields, PageTyped DEF Typed
<1>2. sync[t].events \o Page(sync[t].start) \in Seq(Event) /\ NextStart(t) \in Nat
  BY <1>1, ThreadFields DEF NextStart
<1>3. sync[t].fresh = <<>>
  BY ThreadFields DEF ReadPage
<1>4. QED
  BY <1>2, <1>3, ThreadFields DEF SyncState, WellFormed

LEMMA NextWellFormed ==
    ASSUME Typed, NEW t \in Thread, sync[t].pc \in {"test", "publish"}
    PROVE  WellFormed([sync[t] EXCEPT !.next = @ + 1])
<1>1. sync[t].next + 1 \in Nat \ {0}
  BY ThreadFields
<1>2. QED
  BY <1>1, ThreadFields DEF SyncState, WellFormed

LEMMA PassedWellFormed ==
    ASSUME Typed, NEW t \in Thread, sync[t].next <= Len(sync[t].events)
    PROVE  WellFormed([sync[t] EXCEPT !.pc = "add"])
<1>1. sync[t].next \in 1..Len(sync[t].events)
  BY ThreadFields
<1>2. QED
  BY <1>1, ThreadFields DEF SyncState, WellFormed

LEMMA MarkedWellFormed ==
    ASSUME Typed, NEW t \in Thread, DedupAdd(t), NEW e, e = sync[t].events[sync[t].next]
    PROVE  /\ e \in Event
           /\ WellFormed([sync[t] EXCEPT !.fresh = Append(@, e), !.next = @ + 1, !.pc = "test"])
<1>1. sync[t].next \in 1..Len(sync[t].events)
  BY ThreadFields DEF DedupAdd
<1>2. e \in Event
  BY <1>1, ThreadFields
<1>3. Append(sync[t].fresh, e) \in Seq(Event)
  BY <1>2, ThreadFields
<1>4. sync[t].next + 1 \in Nat \ {0}
  BY ThreadFields
<1>5. QED
  BY <1>2, <1>3, <1>4, ThreadFields DEF SyncState, WellFormed

LEMMA CollectedWellFormed ==
    ASSUME Typed, NEW t \in Thread
    PROVE  WellFormed([sync[t] EXCEPT !.pc = "publish", !.next = 1])
<1>1. 1 \in Nat \ {0}
  OBVIOUS
<1>2. QED
  BY <1>1, ThreadFields DEF SyncState, WellFormed

-----------------------------------------------------------------------------
(***************************************************************************)
(* Paging.  Whatever is listed was touched since the sync began, or        *)
(* collected, or is still beyond its offset, unless the listing shrank.    *)
(***************************************************************************)
Covered(t) ==
    sync[t].pc # "idle" /\ ~sync[t].shrunk =>
        \A j \in 1..Len(listing) :
            \/ listing[j] \in sync[t].touched
            \/ listing[j] \in Ids(sync[t].events)
            \/ sync[t].pc = "page" /\ j > sync[t].start

PageInv == \A t \in Thread : Covered(t)

\* The argument for one object of the listing at the last page or an earlier one.
LEMMA ReadCovers ==
    ASSUME Typed, NEW t \in Thread, Covered(t), ReadPage(t)
    PROVE  Covered(t)'
<1> DEFINE page == Page(sync[t].start)
           q == IF LastPage(t) THEN "test" ELSE "page"
           state == [sync[t] EXCEPT !.events = @ \o page, !.start = NextStart(t), !.pc = q]
<1>1. /\ page \in Seq(Event) /\ Len(page) \in Nat
      /\ \A j \in 1..Len(page) : page[j] = <<listing[sync[t].start + j],
                                             version[listing[sync[t].start + j]]>>
      /\ Len(page) = PageSize \/ sync[t].start + Len(page) >= Len(listing)
  BY ThreadFields, PageTyped DEF Typed
<1>2. WellFormed(state) /\ UNCHANGED sourceVars /\ Becomes(t, state)
  BY ReadWellFormed DEF ReadPage
<1>3. sync'[t] = state
  BY <1>2, BecomesTyped
<1>4. Typed'
  BY <1>2, BecomesTyped
<1>5. /\ state.events = sync[t].events \o page
      /\ state.start = sync[t].start + Len(page)
      /\ state.pc = q
      /\ state.touched = sync[t].touched /\ state.shrunk = sync[t].shrunk
  BY ThreadFields DEF SyncState, NextStart
<1> HIDE DEF page, state, q
<1>6. Ids(state.events) = Ids(sync[t].events) \cup Ids(page)
  <2>1. /\ Len(state.events) = Len(sync[t].events) + Len(page)
        /\ \A i \in 1..(Len(sync[t].events) + Len(page)) : state.events[i] =
             IF i <= Len(sync[t].events) THEN sync[t].events[i] ELSE page[i - Len(sync[t].events)]
        /\ state.events \in Seq(Event)
    BY <1>1, <1>5, ThreadFields, ConcatProperties
  <2>2. ASSUME NEW x \in Ids(state.events) PROVE x \in Ids(sync[t].events) \cup Ids(page)
    <3>1. PICK i \in 1..Len(state.events) : x = state.events[i][1]
      BY <2>1 DEF Ids
    <3>2. CASE i <= Len(sync[t].events)
      <4>1. i \in 1..Len(sync[t].events) /\ i \in 1..(Len(sync[t].events) + Len(page))
        BY <1>1, <2>1, <3>1, <3>2, ThreadFields
      <4>2. x = sync[t].events[i][1]
        BY <2>1, <3>1, <3>2, <4>1
      <4>3. QED
        BY <4>1, <4>2, ThreadFields DEF Ids
    <3>3. CASE ~(i <= Len(sync[t].events))
      <4>1. i - Len(sync[t].events) \in 1..Len(page)
        BY <1>1, <2>1, <3>1, <3>3, ThreadFields
      <4>2. x = page[i - Len(sync[t].events)][1]
        BY <2>1, <3>1, <3>3
      <4>3. QED
        BY <1>1, <4>1, <4>2 DEF Ids
    <3>4. QED
      BY <3>2, <3>3
  <2>3. ASSUME NEW x \in Ids(sync[t].events) PROVE x \in Ids(state.events)
    <3>1. PICK i \in 1..Len(sync[t].events) : x = sync[t].events[i][1]
      BY ThreadFields DEF Ids
    <3>2. i \in 1..(Len(sync[t].events) + Len(page)) /\ i <= Len(sync[t].events)
      BY <1>1, <3>1, ThreadFields
    <3>3. state.events[i] = sync[t].events[i]
      BY <2>1, <3>2
    <3>4. i \in DOMAIN state.events
      <4>1. DOMAIN state.events = 1..Len(state.events)
        BY <2>1
      <4>2. QED
        BY <2>1, <3>2, <4>1
    <3>5. QED
      BY <3>1, <3>3, <3>4 DEF Ids
  <2>4. ASSUME NEW x \in Ids(page) PROVE x \in Ids(state.events)
    <3>1. PICK i \in 1..Len(page) : x = page[i][1]
      BY <1>1 DEF Ids
    <3> DEFINE k == Len(sync[t].events) + i
    <3>2. /\ k \in 1..(Len(sync[t].events) + Len(page)) /\ ~(k <= Len(sync[t].events))
          /\ k - Len(sync[t].events) = i
      <4>1. Len(sync[t].events) \in Nat /\ Len(page) \in Nat /\ i \in 1..Len(page)
        BY <1>1, <3>1, ThreadFields
      <4>2. QED
        BY <4>1
    <3> HIDE DEF k
    <3>3. state.events[k] = IF k <= Len(sync[t].events) THEN sync[t].events[k]
                            ELSE page[k - Len(sync[t].events)]
      BY <2>1, <3>2
    <3>4. state.events[k] = page[i]
      BY <3>2, <3>3
    <3>5. k \in DOMAIN state.events
      <4>1. DOMAIN state.events = 1..Len(state.events)
        BY <2>1
      <4>2. QED
        BY <2>1, <3>2, <4>1
    <3>6. QED
      BY <3>1, <3>4, <3>5 DEF Ids
  <2>5. QED
    BY <2>2, <2>3, <2>4
<1>7. ASSUME ~sync[t].shrunk, NEW j \in 1..Len(listing)
      PROVE  \/ listing[j] \in sync[t].touched
             \/ listing[j] \in Ids(state.events)
             \/ q = "page" /\ j > state.start
  <2>1. \/ listing[j] \in sync[t].touched
        \/ listing[j] \in Ids(sync[t].events)
        \/ j > sync[t].start
    BY <1>7 DEF Covered, ReadPage
  <2>2. CASE j > sync[t].start /\ j <= sync[t].start + Len(page)
    <3>1. j - sync[t].start \in 1..Len(page) /\ sync[t].start + (j - sync[t].start) = j
      BY <1>1, <2>2, ThreadFields
    <3>2. page[j - sync[t].start][1] = listing[j]
      BY <1>1, <3>1
    <3>3. listing[j] \in Ids(page)
      BY <1>1, <3>1, <3>2 DEF Ids
    <3>4. QED
      BY <1>6, <3>3
  <2>3. CASE j > sync[t].start + Len(page)
    <3>1. sync[t].start + Len(page) < Len(listing)
      BY <1>1, <2>3, ThreadFields DEF Typed, SourceTyped
    <3>2. Len(page) = PageSize
      BY <1>1, <3>1, ThreadFields DEF Typed, SourceTyped
    <3>3. page # <<>>
      BY <1>1, <3>2, IngestionAssumption
    <3>4. ~LastPage(t)
      BY <1>1, <3>1, <3>3, ThreadFields DEF LastPage, NextStart, page, Typed, SourceTyped
    <3>5. QED
      BY <1>5, <2>3, <3>4 DEF q
  <2>4. QED
    BY <1>1, <1>6, <2>1, <2>2, <2>3, ThreadFields
<1>8. QED
  BY <1>2, <1>3, <1>5, <1>7 DEF Covered, sourceVars

\* A step of a thread that is not paging keeps what it collected.
LEMMA CoveredKept ==
    ASSUME Typed, NEW t \in Thread, Covered(t), NEW state, WellFormed(state),
           Becomes(t, state), UNCHANGED sourceVars,
           \/ state.pc = "idle"
           \/ /\ sync[t].pc \notin {"idle", "page"}
              /\ state.pc \notin {"idle", "page"}
              /\ state.events = sync[t].events /\ state.touched = sync[t].touched
              /\ state.shrunk = sync[t].shrunk
    PROVE  Covered(t)'
<1>1. sync'[t] = state
  BY BecomesTyped
<1>2. CASE state.pc = "idle"
  BY <1>1, <1>2 DEF Covered
<1>3. CASE state.pc # "idle"
  BY <1>1, <1>3 DEF Covered, sourceVars
<1>4. QED
  BY <1>2, <1>3

\* A thread that another one's step leaves alone still covers the same listing.
LEMMA CoveredOther ==
    ASSUME NEW u \in Thread, Covered(u), sync'[u] = sync[u], UNCHANGED sourceVars
    PROVE  Covered(u)'
BY DEF Covered, sourceVars

LEMMA SourceStep ==
    ASSUME Typed, PageInv, NEW o \in Object, Change(o) \/ Remove(o)
    PROVE  Typed' /\ PageInv'
<1>1. CASE Change(o)
  <2>1. /\ listing' \in Seq(Object)
        /\ \A j \in 1..Len(listing') :
             listing'[j] # o => \E k \in 1..Len(listing) : k <= j /\ listing'[j] = listing[k]
    BY <1>1, ChangeMovesBack DEF Typed
  <2>2. version' \in [Object -> Nat \ {0}]
    BY <1>1 DEF Change, Typed, SourceTyped
  <2>3. ASSUME NEW t \in Thread PROVE sync'[t] \in SyncState /\ WellFormed(sync'[t]) /\ Covered(t)'
    <3>1. CASE ~Running(t)
      <4>1. sync'[t] = sync[t]
        BY <1>1, <3>1 DEF Change
      <4>2. QED
        BY <3>1, <4>1, ThreadFields DEF Running, Covered, Typed
    <3>2. CASE Running(t)
      <4>1. sync'[t] = [sync[t] EXCEPT !.touched = @ \cup {o}]
        BY <1>1, <3>2 DEF Change
      <4>2. WellFormed(sync'[t]) /\ sync'[t] \in SyncState
        BY <4>1, ThreadFields DEF SyncState, WellFormed
      <4>3. /\ sync'[t].touched = sync[t].touched \cup {o}
            /\ sync'[t].events = sync[t].events /\ sync'[t].start = sync[t].start
            /\ sync'[t].pc = sync[t].pc /\ sync'[t].shrunk = sync[t].shrunk
        BY <4>1, ThreadFields DEF SyncState
      <4>4. ASSUME ~sync[t].shrunk, NEW j \in 1..Len(listing')
            PROVE  \/ listing'[j] \in sync'[t].touched
                   \/ listing'[j] \in Ids(sync'[t].events)
                   \/ sync'[t].pc = "page" /\ j > sync'[t].start
        <5>1. CASE listing'[j] = o
          BY <4>3, <5>1
        <5>2. CASE listing'[j] # o
          <6>1. PICK k \in 1..Len(listing) : k <= j /\ listing'[j] = listing[k]
            BY <2>1, <5>2
          <6>2. \/ listing[k] \in sync[t].touched
                \/ listing[k] \in Ids(sync[t].events)
                \/ sync[t].pc = "page" /\ k > sync[t].start
            BY <3>2, <4>4 DEF PageInv, Covered, Running
          <6>3. k > sync[t].start => j > sync[t].start
            BY <2>1, <6>1, ThreadFields DEF Typed, SourceTyped
          <6>4. QED
            BY <4>3, <6>1, <6>2, <6>3
        <5>3. QED
          BY <5>1, <5>2
      <4>5. QED
        BY <4>2, <4>3, <4>4 DEF Covered
    <3>3. QED
      BY <3>1, <3>2
  <2>4. DOMAIN sync' = Thread /\ sync' = [t \in Thread |-> sync'[t]]
    BY <1>1 DEF Change
  <2>5. QED
    BY <2>1, <2>2, <2>3, <2>4 DEF Typed, SourceTyped, SyncTyped, PageInv
<1>2. CASE Remove(o)
  <2>1. listing' \in Seq(Object)
    BY <1>2, WithoutShape DEF Remove, Typed
  <2>2. version' \in [Object -> Nat \ {0}]
    BY <1>2 DEF Remove, Typed, SourceTyped
  <2>3. ASSUME NEW t \in Thread PROVE sync'[t] \in SyncState /\ WellFormed(sync'[t]) /\ Covered(t)'
    <3>1. CASE ~Running(t)
      <4>1. sync'[t] = sync[t]
        BY <1>2, <3>1 DEF Remove
      <4>2. QED
        BY <3>1, <4>1, ThreadFields DEF Running, Covered, Typed
    <3>2. CASE Running(t)
      <4>1. sync'[t] = [sync[t] EXCEPT !.touched = @ \cup {o}, !.shrunk = TRUE]
        BY <1>2, <3>2 DEF Remove
      <4>2. sync'[t].shrunk
        BY <4>1, ThreadFields DEF SyncState
      <4>3. /\ sync'[t].events = sync[t].events /\ sync'[t].fresh = sync[t].fresh
            /\ sync'[t].next = sync[t].next /\ sync'[t].pc = sync[t].pc
            /\ sync'[t].start = sync[t].start
        BY <4>1, ThreadFields DEF SyncState
      <4>4. sync'[t] \in SyncState
        <5>1. sync[t].touched \cup {o} \in SUBSET Object /\ TRUE \in BOOLEAN
          BY ThreadFields DEF SyncState
        <5>2. QED
          BY <4>1, <5>1, ThreadFields DEF SyncState
      <4>5. WellFormed(sync'[t])
        BY <4>3, <4>4, ThreadFields DEF WellFormed
      <4>6. QED
        BY <4>2, <4>4, <4>5 DEF Covered
    <3>3. QED
      BY <3>1, <3>2
  <2>4. DOMAIN sync' = Thread /\ sync' = [t \in Thread |-> sync'[t]]
    BY <1>2 DEF Remove
  <2>5. QED
    BY <2>1, <2>2, <2>3, <2>4 DEF Typed, SourceTyped, SyncTyped, PageInv
<1>3. QED
  BY <1>1, <1>2

-----------------------------------------------------------------------------
(***************************************************************************)
(* The ids a thread has marked and not published, as a function of its     *)
(* state.                                                                  *)
(***************************************************************************)
PendingIn(state) ==
    IF state.pc = "publish"
    THEN {state.fresh[i][1] : i \in state.next..Len(state.fresh)}
    ELSE Ids(state.fresh)

IInv == Typed /\ PageInv /\ SeenIsPublished

\* A step of thread t keeps SeenIsPublished if what it marks is pending for it, and what
\* was pending still is, or was published or given up.
LEMMA SeenKept ==
    ASSUME IInv, NEW t \in Thread, NEW state, WellFormed(state), Becomes(t, state),
           UNCHANGED sourceVars,
           seen' \subseteq seen \cup PendingIn(state),
           synced \subseteq synced', abandoned \subseteq abandoned',
           PendingIn(sync[t]) \subseteq PendingIn(state) \cup synced' \cup abandoned'
    PROVE  SeenIsPublished'
<1>1. sync'[t] = state /\ \A u \in Thread \ {t} : sync'[u] = sync[u]
  BY BecomesTyped DEF IInv
<1>2. \A u \in Thread : Pending(u) = PendingIn(sync[u])
  BY DEF Pending, PendingIn
<1>3. \A u \in Thread : Pending(u)' = PendingIn(sync'[u])
  BY DEF Pending, PendingIn
<1>4. ASSUME NEW x \in seen'
      PROVE  x \in synced' \/ x \in abandoned' \/ \E u \in Thread : x \in Pending(u)'
  <2>1. CASE x \in PendingIn(state)
    BY <1>1, <1>3, <2>1
  <2>2. CASE x \in seen
    <3>1. x \in synced \/ x \in abandoned \/ \E u \in Thread : x \in Pending(u)
      BY <2>2 DEF IInv, SeenIsPublished
    <3>2. ASSUME NEW u \in Thread, x \in Pending(u)
          PROVE  x \in synced' \/ x \in abandoned' \/ \E v \in Thread : x \in Pending(v)'
      <4>1. CASE u = t
        BY <1>1, <1>2, <1>3, <3>2, <4>1
      <4>2. CASE u # t
        BY <1>1, <1>2, <1>3, <3>2, <4>2
      <4>3. QED
        BY <4>1, <4>2
    <3>3. QED
      BY <3>1, <3>2
  <2>3. QED
    BY <2>1, <2>2
<1>5. QED
  BY <1>4 DEF SeenIsPublished

\* A step of thread t that is neither paging nor starting keeps the coverage.
LEMMA PageKept ==
    ASSUME IInv, NEW t \in Thread, NEW state, WellFormed(state), Becomes(t, state),
           UNCHANGED sourceVars, Covered(t)'
    PROVE  PageInv'
<1>1. \A u \in Thread \ {t} : sync'[u] = sync[u]
  BY BecomesTyped DEF IInv
<1>2. \A u \in Thread \ {t} : Covered(u)'
  BY <1>1, CoveredOther DEF IInv, PageInv
<1>3. QED
  BY <1>2 DEF PageInv

LEMMA StartStep ==
    ASSUME IInv, NEW t \in Thread, StartSync(t)
    PROVE  IInv'
<1> DEFINE state == [sync[t] EXCEPT !.pc = "page"]
<1>1. WellFormed(state) /\ Becomes(t, state) /\ UNCHANGED sourceVars
  BY StartWellFormed DEF StartSync, IInv
<1>2. Typed' /\ sync'[t] = state
  BY <1>1, BecomesTyped DEF IInv
<1>3. /\ sync[t].pc = "idle" /\ sync[t].start = 0 /\ sync[t].fresh = <<>>
      /\ state.pc = "page" /\ state.start = 0 /\ state.fresh = <<>>
  BY ThreadFields DEF StartSync, Running, SyncState, IInv
<1>4. Covered(t)'
  <2>1. Len(listing) \in Nat
    BY DEF IInv, Typed, SourceTyped
  <2>2. \A j \in 1..Len(listing) : j > 0
    BY <2>1
  <2>3. QED
    BY <1>1, <1>2, <1>3, <2>2 DEF Covered, sourceVars
<1>5. PendingIn(sync[t]) = Ids(<<>>) /\ PendingIn(state) = Ids(<<>>)
  BY <1>3 DEF PendingIn
<1>6. seen' = seen /\ synced' = synced /\ abandoned' = abandoned
  BY DEF StartSync, historyVars
<1> HIDE DEF state
<1>7. SeenIsPublished'
  BY <1>1, <1>5, <1>6, SeenKept
<1>8. QED
  BY <1>1, <1>2, <1>4, <1>7, PageKept DEF IInv

LEMMA ReadStep ==
    ASSUME IInv, NEW t \in Thread, ReadPage(t)
    PROVE  IInv'
<1> DEFINE q == IF LastPage(t) THEN "test" ELSE "page"
           state == [sync[t] EXCEPT !.events = @ \o Page(sync[t].start),
                                    !.start = NextStart(t), !.pc = q]
<1>1. q \in {"test", "page"}
  OBVIOUS
<1>2. WellFormed(state) /\ Becomes(t, state) /\ UNCHANGED sourceVars
  BY <1>1, ReadWellFormed DEF ReadPage, IInv
<1>3. Typed' /\ sync'[t] = state
  BY <1>2, BecomesTyped DEF IInv
<1>4. Covered(t)'
  BY ReadCovers DEF IInv, PageInv
<1>5. sync[t].pc = "page" /\ sync[t].fresh = <<>> /\ state.fresh = <<>> /\ state.pc = q
  BY ThreadFields DEF ReadPage, SyncState, IInv
<1>6. PendingIn(sync[t]) = Ids(<<>>) /\ PendingIn(state) = Ids(<<>>)
  BY <1>5 DEF PendingIn
<1>7. seen' = seen /\ synced' = synced /\ abandoned' = abandoned
  BY DEF ReadPage, historyVars
<1> HIDE DEF state
<1>8. SeenIsPublished'
  BY <1>2, <1>6, <1>7, SeenKept
<1>9. QED
  BY <1>2, <1>3, <1>4, <1>8, PageKept DEF IInv

LEMMA TestStep ==
    ASSUME IInv, NEW t \in Thread, DedupTest(t)
    PROVE  IInv'
<1>1. PICK state : /\ WellFormed(state) /\ Becomes(t, state) /\ UNCHANGED sourceVars
                   /\ state.pc \in {"test", "add"} /\ state.fresh = sync[t].fresh
                   /\ state.events = sync[t].events /\ state.touched = sync[t].touched
                   /\ state.shrunk = sync[t].shrunk
  <2>1. CASE sync[t].events[sync[t].next][1] \in seen
    <3> DEFINE state == [sync[t] EXCEPT !.next = @ + 1]
    <3>1. WellFormed(state) /\ Becomes(t, state) /\ UNCHANGED sourceVars
      BY <2>1, NextWellFormed DEF DedupTest, IInv
    <3>2. /\ state.pc = "test" /\ state.fresh = sync[t].fresh
          /\ state.events = sync[t].events /\ state.touched = sync[t].touched
          /\ state.shrunk = sync[t].shrunk
      BY ThreadFields DEF DedupTest, SyncState, IInv
    <3> HIDE DEF state
    <3>3. QED
      BY <3>1, <3>2
  <2>2. CASE sync[t].events[sync[t].next][1] \notin seen
    <3> DEFINE state == [sync[t] EXCEPT !.pc = "add"]
    <3>1. WellFormed(state) /\ Becomes(t, state) /\ UNCHANGED sourceVars
      BY <2>2, PassedWellFormed DEF DedupTest, IInv
    <3>2. /\ state.pc = "add" /\ state.fresh = sync[t].fresh
          /\ state.events = sync[t].events /\ state.touched = sync[t].touched
          /\ state.shrunk = sync[t].shrunk
      BY ThreadFields DEF DedupTest, SyncState, IInv
    <3> HIDE DEF state
    <3>3. QED
      BY <3>1, <3>2
  <2>3. QED
    BY <2>1, <2>2
<1>2. Typed'
  BY <1>1, BecomesTyped DEF IInv
<1>3. sync[t].pc = "test"
  BY DEF DedupTest
<1>4. Covered(t)'
  BY <1>1, <1>3, CoveredKept DEF IInv, PageInv
<1>5. PendingIn(state) = PendingIn(sync[t])
  BY <1>1, <1>3 DEF PendingIn
<1>6. seen' = seen /\ synced' = synced /\ abandoned' = abandoned
  BY DEF DedupTest, historyVars
<1>7. SeenIsPublished'
  BY <1>1, <1>5, <1>6, SeenKept
<1>8. QED
  BY <1>1, <1>2, <1>4, <1>7, PageKept DEF IInv

\* The last of the marked ids is pending, and so are the others.
LEMMA AppendedPending ==
    ASSUME NEW s \in Seq(Event), NEW e \in Event
    PROVE  Ids(s) \cup {e[1]} \subseteq Ids(Append(s, e))
<1>1. Append(s, e) \in Seq(Event) /\ Len(Append(s, e)) = Len(s) + 1 /\ Len(s) \in Nat
  OBVIOUS
<1>2. Append(s, e)[Len(s) + 1] = e /\ \A i \in 1..Len(s) : Append(s, e)[i] = s[i]
  OBVIOUS
<1>3. e[1] \in Ids(Append(s, e))
  BY <1>1, <1>2 DEF Ids
<1>4. ASSUME NEW x \in Ids(s) PROVE x \in Ids(Append(s, e))
  <2>1. PICK i \in 1..Len(s) : x = s[i][1]
    BY DEF Ids
  <2>2. i \in 1..Len(Append(s, e)) /\ x = Append(s, e)[i][1]
    BY <1>1, <1>2, <2>1
  <2>3. QED
    BY <1>1, <2>2 DEF Ids
<1>5. QED
  BY <1>3, <1>4

LEMMA AddStep ==
    ASSUME IInv, NEW t \in Thread, DedupAdd(t)
    PROVE  IInv'
<1> DEFINE e == sync[t].events[sync[t].next]
           state == [sync[t] EXCEPT !.fresh = Append(@, e), !.next = @ + 1, !.pc = "test"]
<1>1. e \in Event /\ WellFormed(state)
  BY MarkedWellFormed DEF IInv
<1>2. Becomes(t, state) /\ UNCHANGED sourceVars
  BY DEF DedupAdd
<1>3. /\ state.pc = "test" /\ state.fresh = Append(sync[t].fresh, e)
      /\ state.events = sync[t].events /\ state.touched = sync[t].touched
      /\ state.shrunk = sync[t].shrunk
  BY ThreadFields DEF SyncState, IInv
<1>4. /\ sync[t].pc = "add" /\ seen' = seen \cup {e[1]}
      /\ synced' = synced /\ abandoned' = abandoned
  BY DEF DedupAdd, historyVars
<1> HIDE DEF state, e
<1>5. Typed'
  BY <1>1, <1>2, BecomesTyped DEF IInv
<1>6. Covered(t)'
  BY <1>1, <1>2, <1>3, <1>4, CoveredKept DEF IInv, PageInv
<1>7. Ids(sync[t].fresh) \cup {e[1]} \subseteq Ids(Append(sync[t].fresh, e))
  BY <1>1, AppendedPending, ThreadFields DEF IInv
<1>8. /\ PendingIn(sync[t]) = Ids(sync[t].fresh)
      /\ PendingIn(state) = Ids(Append(sync[t].fresh, e))
  BY <1>3, <1>4 DEF PendingIn
<1>9. SeenIsPublished'
  BY <1>1, <1>2, <1>4, <1>7, <1>8, SeenKept
<1>10. QED
  BY <1>1, <1>2, <1>5, <1>6, <1>9, PageKept DEF IInv

LEMMA CollectedStep ==
    ASSUME IInv, NEW t \in Thread, Collected(t)
    PROVE  IInv'
<1> DEFINE state == [sync[t] EXCEPT !.pc = "publish", !.next = 1]
<1>1. WellFormed(state) /\ Becomes(t, state) /\ UNCHANGED sourceVars
  BY CollectedWellFormed DEF Collected, IInv
<1>2. /\ state.pc = "publish" /\ state.next = 1 /\ state.fresh = sync[t].fresh
      /\ state.events = sync[t].events /\ state.touched = sync[t].touched
      /\ state.shrunk = sync[t].shrunk
  BY ThreadFields DEF SyncState, IInv
<1>3. sync[t].pc = "test" /\ seen' = seen /\ synced' = synced /\ abandoned' = abandoned
  BY DEF Collected, historyVars
<1> HIDE DEF state
<1>4. Typed'
  BY <1>1, BecomesTyped DEF IInv
<1>5. Covered(t)'
  BY <1>1, <1>2, <1>3, CoveredKept DEF IInv, PageInv
<1>6. PendingIn(sync[t]) \subseteq PendingIn(state)
  <2>1. DOMAIN sync[t].fresh = 1..Len(sync[t].fresh)
    BY ThreadFields DEF IInv
  <2>2. QED
    BY <1>2, <1>3, <2>1 DEF PendingIn, Ids
<1>7. SeenIsPublished'
  BY <1>1, <1>3, <1>6, SeenKept
<1>8. QED
  BY <1>1, <1>4, <1>5, <1>7, PageKept DEF IInv

LEMMA PublishStep ==
    ASSUME IInv, NEW t \in Thread, PublishNext(t)
    PROVE  IInv'
<1> DEFINE state == [sync[t] EXCEPT !.next = @ + 1]
           n == sync[t].next
<1>1. WellFormed(state) /\ Becomes(t, state) /\ UNCHANGED sourceVars
  BY NextWellFormed DEF PublishNext, IInv
<1>2. /\ state.pc = "publish" /\ state.next = n + 1 /\ state.fresh = sync[t].fresh
      /\ state.events = sync[t].events /\ state.touched = sync[t].touched
      /\ state.shrunk = sync[t].shrunk
  BY ThreadFields DEF PublishNext, SyncState, IInv
<1>3. /\ sync[t].pc = "publish" /\ seen' = seen /\ abandoned' = abandoned
      /\ synced' = synced \cup {sync[t].fresh[n][1]}
  BY DEF PublishNext
<1> HIDE DEF state
<1>4. Typed'
  BY <1>1, BecomesTyped DEF IInv
<1>5. Covered(t)'
  BY <1>1, <1>2, <1>3, CoveredKept DEF IInv, PageInv
<1>6. PendingIn(sync[t]) \subseteq PendingIn(state) \cup synced'
  <2>1. n \in Nat /\ Len(sync[t].fresh) \in Nat
    BY ThreadFields DEF IInv
  <2>2. \A i \in n..Len(sync[t].fresh) : i = n \/ i \in (n + 1)..Len(sync[t].fresh)
    BY <2>1
  <2>3. QED
    BY <1>2, <1>3, <2>2 DEF PendingIn
<1>7. SeenIsPublished'
  BY <1>1, <1>3, <1>6, SeenKept
<1>8. QED
  BY <1>1, <1>4, <1>5, <1>7, PageKept DEF IInv

LEMMA FinishStep ==
    ASSUME IInv, NEW t \in Thread, Finish(t)
    PROVE  IInv'
<1>1. WellFormed(Idle) /\ Becomes(t, Idle) /\ UNCHANGED sourceVars /\ Idle.pc = "idle"
  BY IdleWellFormed DEF Finish, Idle
<1>2. /\ sync[t].pc = "publish" /\ seen' = seen /\ synced' = synced /\ abandoned' = abandoned
      /\ sync[t].next > Len(sync[t].fresh)
  BY DEF Finish, historyVars
<1>3. Typed'
  BY <1>1, BecomesTyped DEF IInv
<1>4. Covered(t)'
  BY <1>1, CoveredKept DEF IInv, PageInv
<1>5. PendingIn(sync[t]) = {}
  <2>1. sync[t].next..Len(sync[t].fresh) = {}
    BY <1>2, ThreadFields DEF IInv
  <2>2. QED
    BY <1>2, <2>1 DEF PendingIn
<1>6. SeenIsPublished'
  BY <1>1, <1>2, <1>5, SeenKept
<1>7. QED
  BY <1>1, <1>3, <1>4, <1>6, PageKept DEF IInv

\* A new process: nothing is seen, nobody syncs.
LEMMA NewProcessStep ==
    ASSUME IInv, NewProcess, UNCHANGED sourceVars
    PROVE  IInv'
<1>1. \A t \in Thread : sync'[t] = Idle
  BY DEF NewProcess
<1>2. Typed'
  BY <1>1, IdleTyped, IdleWellFormed
     DEF NewProcess, IInv, Typed, SyncTyped, SourceTyped, sourceVars
<1>3. PageInv'
  BY <1>1 DEF PageInv, Covered, Idle
<1>4. SeenIsPublished'
  BY DEF NewProcess, SeenIsPublished
<1>5. QED
  BY <1>2, <1>3, <1>4 DEF IInv

LEMMA RaisesStep ==
    ASSUME IInv, NEW t \in Thread, SyncRaises(t)
    PROVE  IInv'
<1>1. CASE serving
  <2>1. /\ WellFormed(Idle) /\ Becomes(t, Idle) /\ UNCHANGED sourceVars /\ Idle.pc = "idle"
        /\ seen' = seen /\ synced' = synced
        /\ sync[t].pc = "publish" => abandoned' = abandoned \cup Pending(t)
        /\ sync[t].pc # "publish" => sync[t].pc = "page" /\ abandoned' = abandoned
    BY <1>1, IdleWellFormed DEF SyncRaises, Idle
  <2>2. Typed'
    BY <2>1, BecomesTyped DEF IInv
  <2>3. Covered(t)'
    BY <2>1, CoveredKept DEF IInv, PageInv
  <2>4. Pending(t) = PendingIn(sync[t])
    BY DEF Pending, PendingIn
  <2>5. PendingIn(sync[t]) \subseteq abandoned' /\ abandoned \subseteq abandoned'
    <3>1. CASE sync[t].pc = "publish"
      BY <2>1, <2>4, <3>1
    <3>2. CASE sync[t].pc # "publish"
      <4>1. sync[t].fresh = <<>>
        BY <2>1, <3>2, ThreadFields DEF IInv
      <4>2. PendingIn(sync[t]) = {}
        BY <3>2, <4>1 DEF PendingIn, Ids
      <4>3. QED
        BY <2>1, <3>2, <4>2
    <3>3. QED
      BY <3>1, <3>2
  <2>6. SeenIsPublished'
    BY <2>1, <2>5, SeenKept
  <2>7. QED
    BY <2>1, <2>2, <2>3, <2>6, PageKept DEF IInv
<1>2. CASE ~serving
  BY <1>2, NewProcessStep DEF SyncRaises
<1>3. QED
  BY <1>1, <1>2

\* The source changes nothing of what is pending.
LEMMA SourceKeepsSeen ==
    ASSUME IInv, NEW o \in Object, Change(o) \/ Remove(o)
    PROVE  SeenIsPublished'
<1>1. ASSUME NEW t \in Thread PROVE Pending(t)' = Pending(t)
  <2>1. /\ sync'[t].pc = sync[t].pc /\ sync'[t].fresh = sync[t].fresh
        /\ sync'[t].next = sync[t].next
    <3>1. \/ sync'[t] = sync[t]
          \/ sync'[t] = [sync[t] EXCEPT !.touched = @ \cup {o}]
          \/ sync'[t] = [sync[t] EXCEPT !.touched = @ \cup {o}, !.shrunk = TRUE]
      BY DEF Change, Remove
    <3>2. QED
      BY <3>1, ThreadFields DEF SyncState, IInv
  <2>2. QED
    BY <2>1 DEF Pending
<1>2. seen' = seen /\ synced' = synced /\ abandoned' = abandoned
  BY DEF Change, Remove, historyVars
<1>3. QED
  BY <1>1, <1>2 DEF IInv, SeenIsPublished

-----------------------------------------------------------------------------
LEMMA InvInit == Init => IInv
<1> SUFFICES ASSUME Init PROVE IInv
  OBVIOUS
<1>1. Cardinality(Object) \in Nat
  BY IngestionAssumption, FS_CardinalityType
<1>2. listing \in Seq(Object)
  BY <1>1 DEF Init
<1>3. version \in [Object -> Nat \ {0}]
  BY DEF Init
<1>4. Typed
  BY <1>2, <1>3, IdleTyped, IdleWellFormed DEF Init, Typed, SourceTyped, SyncTyped
<1>5. PageInv
  BY DEF Init, PageInv, Covered, Idle
<1>6. SeenIsPublished
  BY DEF Init, SeenIsPublished
<1>7. QED
  BY <1>4, <1>5, <1>6 DEF IInv

LEMMA InvStep == IInv /\ [Next]_vars => IInv'
<1> SUFFICES ASSUME IInv, [Next]_vars PROVE IInv'
  OBVIOUS
<1>1. ASSUME NEW o \in Object, Change(o) \/ Remove(o) PROVE IInv'
  BY <1>1, SourceStep, SourceKeepsSeen DEF IInv
<1>2. ASSUME NEW o \in Object, NEW v \in 1..version[o], Webhook(o, v) PROVE IInv'
  BY <1>2 DEF Webhook, sourceVars, historyVars, IInv, Typed, SourceTyped, SyncTyped,
              PageInv, Covered, SeenIsPublished, Pending
<1>3. ASSUME NEW t \in Thread,
             \/ StartSync(t) \/ ReadPage(t) \/ DedupTest(t) \/ DedupAdd(t) \/ Collected(t)
             \/ PublishNext(t) \/ Finish(t) \/ SyncRaises(t)
      PROVE  IInv'
  BY <1>3, StartStep, ReadStep, TestStep, AddStep, CollectedStep, PublishStep, FinishStep,
     RaisesStep
<1>4. CASE Crash
  BY <1>4, NewProcessStep DEF Crash
<1>5. CASE UNCHANGED vars
  BY <1>5 DEF vars, sourceVars, historyVars, IInv, Typed, SourceTyped, SyncTyped,
              PageInv, Covered, SeenIsPublished, Pending
<1>6. QED
  BY <1>1, <1>2, <1>3, <1>4, <1>5 DEF Next

(***************************************************************************)
(* For every page size, every number of syncs in parallel and every change *)
(* of the source: an object nobody touched while a sync paged is in what   *)
(* it collected, unless an object left the listing meanwhile.              *)
(***************************************************************************)
THEOREM PagingIsComplete == Spec => []UntouchedAreCollected
<1>1. IInv => UntouchedAreCollected
  <2> SUFFICES ASSUME IInv, NEW t \in Thread,
                      sync[t].pc \in {"test", "add", "publish"}, ~sync[t].shrunk,
                      NEW x \in Listed \ sync[t].touched
               PROVE  x \in Ids(sync[t].events)
    BY DEF UntouchedAreCollected
  <2>1. PICK j \in 1..Len(listing) : x = listing[j]
    BY DEF Listed, IInv, Typed, SourceTyped
  <2>2. Covered(t)
    BY DEF IInv, PageInv
  <2>3. QED
    BY <2>1, <2>2 DEF Covered
<1>2. QED
  BY <1>1, InvInit, InvStep, PTL DEF Spec

(***************************************************************************)
(* Nothing a process will skip was neither published by one of its syncs   *)
(* nor is about to be, unless its publish raised.                          *)
(***************************************************************************)
THEOREM NothingForgotten == Spec => []SeenIsPublished
<1>1. IInv => SeenIsPublished
  BY DEF IInv
<1>2. QED
  BY <1>1, InvInit, InvStep, PTL DEF Spec

-----------------------------------------------------------------------------
(***************************************************************************)
(* Types.  An offset stays within the number of objects because no object  *)
(* is listed twice and a page that holds anything ends within the listing. *)
(***************************************************************************)
NoRepeats == \A i, j \in 1..Len(listing) : listing[i] = listing[j] => i = j

StartsBounded == \A t \in Thread : sync[t].start <= Cardinality(Object)

RestTyped ==
    /\ serving \in BOOLEAN /\ published \in Seq(Event)
    /\ seen \subseteq Object /\ synced \subseteq Object /\ abandoned \subseteq Object
    /\ budget \in [{"change", "remove", "sync", "webhook", "fault"} -> Nat]

TInv == NoRepeats /\ StartsBounded /\ RestTyped

LEMMA WithoutRepeats ==
    ASSUME SourceTyped, NoRepeats, NEW o \in Object
    PROVE  /\ \A a, b \in 1..Len(Without(o)) : Without(o)[a] = Without(o)[b] => a = b
           /\ \A a \in 1..Len(Without(o)) : Without(o)[a] # o
<1>1. Len(listing) \in Nat /\ Len(Without(o)) \in Nat
  BY WithoutPlaces DEF SourceTyped
<1>2. PICK i \in 1..(Len(listing) + 1) :
        /\ i <= Len(listing) => listing[i] = o
        /\ i = Len(listing) + 1 => o \notin Listed
        /\ \A j \in 1..Len(Without(o)) :
             \/ j < i /\ j <= Len(listing) /\ Without(o)[j] = listing[j]
             \/ j >= i /\ j + 1 <= Len(listing) /\ Without(o)[j] = listing[j + 1]
  BY WithoutPlaces
<1>3. ASSUME NEW a \in 1..Len(Without(o))
      PROVE  \E k \in 1..Len(listing) : /\ Without(o)[a] = listing[k] /\ k # i
                                        /\ k = IF a < i THEN a ELSE a + 1
  <2>1. CASE a < i /\ a <= Len(listing) /\ Without(o)[a] = listing[a]
    BY <1>1, <2>1
  <2>2. CASE a >= i /\ a + 1 <= Len(listing) /\ Without(o)[a] = listing[a + 1]
    BY <1>1, <2>2
  <2>3. QED
    BY <1>2, <2>1, <2>2
<1>4. ASSUME NEW a \in 1..Len(Without(o)), NEW b \in 1..Len(Without(o)),
             Without(o)[a] = Without(o)[b]
      PROVE  a = b
  <2>1. PICK k \in 1..Len(listing) :
          Without(o)[a] = listing[k] /\ k = IF a < i THEN a ELSE a + 1
    BY <1>3
  <2>2. PICK l \in 1..Len(listing) :
          Without(o)[b] = listing[l] /\ l = IF b < i THEN b ELSE b + 1
    BY <1>3
  <2>3. k = l
    BY <1>4, <2>1, <2>2 DEF NoRepeats
  <2>4. QED
    BY <1>1, <2>1, <2>2, <2>3
<1>5. ASSUME NEW a \in 1..Len(Without(o)), Without(o)[a] = o PROVE FALSE
  <2>1. PICK k \in 1..Len(listing) : Without(o)[a] = listing[k] /\ k # i
    BY <1>3
  <2>2. CASE i <= Len(listing)
    <3>1. i \in 1..Len(listing) /\ listing[i] = o
      BY <1>1, <1>2, <2>2
    <3>2. QED
      BY <1>5, <2>1, <3>1 DEF NoRepeats
  <2>3. CASE i = Len(listing) + 1
    BY <1>2, <1>5, <2>1, <2>3 DEF Listed, SourceTyped
  <2>4. QED
    BY <1>1, <2>2, <2>3
<1>6. QED
  BY <1>4, <1>5

LEMMA RepeatsKept ==
    ASSUME Typed, NoRepeats, NEW o \in Object, Change(o) \/ Remove(o)
    PROVE  NoRepeats'
<1> DEFINE w == Without(o)
<1>1. SourceTyped
  BY DEF Typed
<1>2. /\ w \in Seq(Object) /\ Len(w) \in Nat
      /\ \A a, b \in 1..Len(w) : w[a] = w[b] => a = b
      /\ \A a \in 1..Len(w) : w[a] # o
  BY <1>1, WithoutPlaces, WithoutRepeats
<1>3. listing' = w \/ listing' = <<o>> \o w
  BY DEF Change, Remove
<1> HIDE DEF w
<1>4. CASE listing' = <<o>> \o w
  <2>1. /\ Len(listing') = Len(w) + 1 /\ listing'[1] = o
        /\ \A a \in 2..Len(listing') : listing'[a] = w[a - 1] /\ a - 1 \in 1..Len(w)
    BY <1>2, <1>4
  <2> SUFFICES ASSUME NEW a \in 1..Len(listing'), NEW b \in 1..Len(listing'),
                      listing'[a] = listing'[b]
               PROVE  a = b
    BY DEF NoRepeats
  <2>2. \A c \in 1..Len(listing') : c = 1 \/ c \in 2..Len(listing')
    BY <1>2, <2>1
  <2>3. CASE a \in 2..Len(listing') /\ b \in 2..Len(listing')
    <3>1. a - 1 = b - 1
      BY <1>2, <2>1, <2>3
    <3>2. QED
      BY <1>2, <2>1, <3>1
  <2>4. CASE a = 1 /\ b \in 2..Len(listing')
    BY <1>2, <2>1, <2>4
  <2>5. CASE b = 1 /\ a \in 2..Len(listing')
    BY <1>2, <2>1, <2>5
  <2>6. QED
    BY <2>2, <2>3, <2>4, <2>5
<1>5. CASE listing' = w
  BY <1>2, <1>5 DEF NoRepeats
<1>6. QED
  BY <1>3, <1>4, <1>5

LEMMA ListingIsShort ==
    ASSUME SourceTyped, NoRepeats
    PROVE  Len(listing) <= Cardinality(Object)
<1>1. Len(listing) \in Nat /\ listing \in [1..Len(listing) -> Object]
  BY DEF SourceTyped
<1>2. listing \in Injection(1..Len(listing), Object)
  BY <1>1 DEF NoRepeats, Injection, IsInjective
<1>3. Cardinality(1..Len(listing)) <= Cardinality(Object)
  BY <1>2, FS_Injection, IngestionAssumption
<1>4. Cardinality(1..Len(listing)) = IF 1 > Len(listing) THEN 0 ELSE Len(listing) - 1 + 1
  BY <1>1, FS_Interval
<1>5. QED
  BY <1>1, <1>3, <1>4

\* A step of one thread keeps the bound if its own offset does.
LEMMA BoundedKept ==
    ASSUME Typed, StartsBounded, NEW t \in Thread, NEW state, Becomes(t, state),
           state.start <= Cardinality(Object)
    PROVE  StartsBounded'
BY DEF Typed, SyncTyped, Becomes, StartsBounded

LEMMA SpendTyped ==
    ASSUME RestTyped, NEW what \in {"change", "remove", "sync", "webhook", "fault"}, Spend(what)
    PROVE  budget' \in [{"change", "remove", "sync", "webhook", "fault"} -> Nat]
<1>1. budget[what] - 1 \in Nat
  BY DEF RestTyped, Spend
<1>2. QED
  BY <1>1 DEF RestTyped, Spend

LEMMA PendingObjects ==
    ASSUME Typed, NEW t \in Thread
    PROVE  Pending(t) \subseteq Object
<1>1. \A i \in 1..Len(sync[t].fresh) : sync[t].fresh[i][1] \in Object
  BY ThreadFields DEF Event
<1>2. \A i \in sync[t].next..Len(sync[t].fresh) : i \in 1..Len(sync[t].fresh)
  BY ThreadFields
<1>3. DOMAIN sync[t].fresh = 1..Len(sync[t].fresh)
  BY ThreadFields
<1>4. QED
  BY <1>1, <1>2, <1>3 DEF Pending, Ids

LEMMA NewProcessTyped ==
    ASSUME RestTyped, NewProcess, UNCHANGED sourceVars, published' = published,
           Spend("fault"), NoRepeats
    PROVE  TInv'
<1>1. NoRepeats'
  BY DEF NoRepeats, sourceVars
<1>2. StartsBounded'
  <2>1. Cardinality(Object) \in Nat
    BY IngestionAssumption, FS_CardinalityType
  <2>2. QED
    BY <2>1 DEF NewProcess, StartsBounded, Idle
<1>3. RestTyped'
  BY SpendTyped DEF NewProcess, RestTyped
<1>4. QED
  BY <1>1, <1>2, <1>3 DEF TInv

LEMMA SourceTypes ==
    ASSUME Typed, TInv, NEW o \in Object, Change(o) \/ Remove(o)
    PROVE  TInv'
<1>1. NoRepeats'
  BY RepeatsKept DEF TInv
<1>2. ASSUME NEW t \in Thread PROVE sync'[t].start = sync[t].start
  <2>1. \/ sync'[t] = sync[t]
        \/ sync'[t] = [sync[t] EXCEPT !.touched = @ \cup {o}]
        \/ sync'[t] = [sync[t] EXCEPT !.touched = @ \cup {o}, !.shrunk = TRUE]
    BY DEF Change, Remove
  <2>2. QED
    BY <2>1, ThreadFields DEF SyncState
<1>3. StartsBounded'
  BY <1>2 DEF TInv, StartsBounded
<1>4. /\ UNCHANGED <<serving, seen, published, synced, abandoned>>
      /\ Spend("change") \/ Spend("remove")
  BY DEF Change, Remove, historyVars
<1>5. RestTyped'
  <2>1. budget' \in [{"change", "remove", "sync", "webhook", "fault"} -> Nat]
    BY <1>4, SpendTyped DEF TInv
  <2>2. QED
    BY <1>4, <2>1 DEF TInv, RestTyped
<1>6. QED
  BY <1>1, <1>3, <1>5 DEF TInv

LEMMA ThreadTypes ==
    ASSUME Typed, TInv, NEW t \in Thread,
           \/ StartSync(t) \/ ReadPage(t) \/ DedupTest(t) \/ DedupAdd(t) \/ Collected(t)
           \/ PublishNext(t) \/ Finish(t) \/ SyncRaises(t)
    PROVE  TInv'
<1>0. /\ sync[t] \in SyncState /\ sync[t].start <= Cardinality(Object)
      /\ Cardinality(Object) \in Nat
  BY ThreadFields, IngestionAssumption, FS_CardinalityType DEF TInv, StartsBounded
<1>1. CASE StartSync(t)
  <2>1. /\ Becomes(t, [sync[t] EXCEPT !.pc = "page"]) /\ UNCHANGED sourceVars
        /\ UNCHANGED <<serving, seen, published, historyVars>> /\ Spend("sync")
    BY <1>1 DEF StartSync
  <2>2. StartsBounded'
    BY <1>0, <2>1, BoundedKept DEF TInv, SyncState
  <2>3. RestTyped'
    BY <2>1, SpendTyped DEF TInv, RestTyped, historyVars
  <2>4. QED
    BY <2>1, <2>2, <2>3 DEF TInv, NoRepeats, sourceVars
<1>2. CASE ReadPage(t)
  <2>1. PICK q : Becomes(t, [sync[t] EXCEPT !.events = @ \o Page(sync[t].start),
                                          !.start = NextStart(t), !.pc = q])
    BY <1>2 DEF ReadPage
  <2>2. UNCHANGED <<sourceVars, serving, seen, published, historyVars, budget>>
    BY <1>2 DEF ReadPage
  <2>3. NextStart(t) <= Cardinality(Object)
    <3>1. /\ sync[t].start \in Nat /\ Len(Page(sync[t].start)) \in Nat
          /\ Len(Page(sync[t].start)) > 0 =>
               sync[t].start + Len(Page(sync[t].start)) <= Len(listing)
      BY ThreadFields, PageTyped DEF Typed
    <3>2. Len(listing) <= Cardinality(Object) /\ Len(listing) \in Nat
      BY ListingIsShort DEF Typed, TInv, SourceTyped
    <3>3. QED
      BY <1>0, <3>1, <3>2 DEF NextStart
  <2>4. StartsBounded'
    BY <1>0, <2>1, <2>3, BoundedKept DEF TInv, SyncState
  <2>5. QED
    BY <2>2, <2>4 DEF TInv, NoRepeats, RestTyped, sourceVars, historyVars
<1>3. CASE DedupTest(t)
  <2>1. PICK state : Becomes(t, state) /\ state.start = sync[t].start
    BY <1>0, <1>3 DEF DedupTest, SyncState
  <2>2. StartsBounded'
    BY <1>0, <2>1, BoundedKept DEF TInv
  <2>3. QED
    BY <1>3, <2>2 DEF DedupTest, TInv, NoRepeats, RestTyped, sourceVars, historyVars
<1>4. CASE DedupAdd(t)
  <2> DEFINE e == sync[t].events[sync[t].next]
  <2>1. /\ Becomes(t, [sync[t] EXCEPT !.fresh = Append(@, e), !.next = @ + 1, !.pc = "test"])
        /\ seen' = seen \cup {e[1]}
        /\ UNCHANGED <<sourceVars, serving, published, historyVars, budget>>
    BY <1>4 DEF DedupAdd
  <2>2. e \in Event
    BY <1>4, MarkedWellFormed
  <2>3. StartsBounded'
    BY <1>0, <2>1, BoundedKept DEF TInv, SyncState
  <2>4. QED
    BY <2>1, <2>2, <2>3 DEF TInv, NoRepeats, RestTyped, Event, sourceVars, historyVars
<1>5. CASE Collected(t)
  <2>1. /\ Becomes(t, [sync[t] EXCEPT !.pc = "publish", !.next = 1])
        /\ UNCHANGED <<sourceVars, serving, seen, published, historyVars, budget>>
    BY <1>5 DEF Collected
  <2>2. StartsBounded'
    BY <1>0, <2>1, BoundedKept DEF TInv, SyncState
  <2>3. QED
    BY <2>1, <2>2 DEF TInv, NoRepeats, RestTyped, sourceVars, historyVars
<1>6. CASE PublishNext(t)
  <2> DEFINE e == sync[t].fresh[sync[t].next]
  <2>1. /\ Becomes(t, [sync[t] EXCEPT !.next = @ + 1])
        /\ published' = Append(published, e) /\ synced' = synced \cup {e[1]}
        /\ UNCHANGED <<sourceVars, serving, seen, abandoned, budget>>
    BY <1>6 DEF PublishNext
  <2>2. e \in Event
    <3>1. sync[t].next \in 1..Len(sync[t].fresh)
      BY <1>6, ThreadFields DEF PublishNext
    <3>2. QED
      BY <3>1, ThreadFields
  <2>3. StartsBounded'
    BY <1>0, <2>1, BoundedKept DEF TInv, SyncState
  <2> HIDE DEF e
  <2>4. published' \in Seq(Event) /\ synced' \subseteq Object
    BY <2>1, <2>2 DEF TInv, RestTyped, Event
  <2>5. QED
    BY <2>1, <2>3, <2>4 DEF TInv, NoRepeats, RestTyped, sourceVars
<1>7. CASE Finish(t)
  <2>1. /\ Becomes(t, Idle) /\ serving' = TRUE
        /\ UNCHANGED <<sourceVars, seen, published, historyVars, budget>>
    BY <1>7 DEF Finish
  <2>2. StartsBounded'
    BY <1>0, <2>1, BoundedKept DEF TInv, Idle
  <2>3. QED
    BY <2>1, <2>2 DEF TInv, NoRepeats, RestTyped, sourceVars, historyVars
<1>8. CASE SyncRaises(t)
  <2>1. CASE serving
    <3>1. /\ Becomes(t, Idle) /\ UNCHANGED <<sourceVars, published, serving, seen, synced>>
          /\ abandoned' \subseteq abandoned \cup Pending(t) /\ Spend("fault")
      BY <1>8, <2>1 DEF SyncRaises
    <3>2. StartsBounded'
      BY <1>0, <3>1, BoundedKept DEF TInv, Idle
    <3>3. RestTyped'
      BY <3>1, SpendTyped, PendingObjects DEF TInv, RestTyped
    <3>4. QED
      BY <3>1, <3>2, <3>3 DEF TInv, NoRepeats, sourceVars
  <2>2. CASE ~serving
    BY <1>8, <2>2, NewProcessTyped DEF SyncRaises, TInv
  <2>3. QED
    BY <2>1, <2>2
<1>9. QED
  BY <1>1, <1>2, <1>3, <1>4, <1>5, <1>6, <1>7, <1>8

LEMMA WebhookTypes ==
    ASSUME Typed, TInv, NEW o \in Object, NEW v \in 1..version[o], Webhook(o, v)
    PROVE  TInv'
<1>1. <<o, v>> \in Event
  BY DEF Typed, SourceTyped, Event
<1>2. /\ published' = Append(published, <<o, v>>) /\ Spend("webhook")
      /\ UNCHANGED <<sourceVars, serving, seen, sync, historyVars>>
  BY DEF Webhook
<1>3. published' \in Seq(Event)
  BY <1>1, <1>2 DEF TInv, RestTyped
<1>4. RestTyped'
  BY <1>2, <1>3, SpendTyped DEF TInv, RestTyped, historyVars
<1>5. QED
  BY <1>2, <1>4 DEF TInv, NoRepeats, StartsBounded, sourceVars

LEMMA TypesInit == Init => TInv
<1> SUFFICES ASSUME Init PROVE TInv
  OBVIOUS
<1>1. Cardinality(Object) \in Nat /\ IsFiniteSet(Object)
  BY IngestionAssumption, FS_CardinalityType
<1>2. listing \in [1..Cardinality(Object) -> Object] /\ Listed = Object
  BY DEF Init
<1>3. NoRepeats
  <2> DEFINE N == 1..Cardinality(Object)
  <2>1. listing \in Surjection(N, Object)
    BY <1>2 DEF Surjection, Listed
  <2>2. IsFiniteSet(N) /\ Cardinality(N) = Cardinality(Object)
    <3>1. Cardinality(N) = IF 1 > Cardinality(Object) THEN 0 ELSE Cardinality(Object) - 1 + 1
      BY <1>1, FS_Interval
    <3>2. QED
      BY <1>1, <3>1, FS_Interval
  <2> HIDE DEF N
  <2>3. listing \in Injection(N, Object)
    BY <2>1, <2>2, FS_SurjSameCardinalityImpliesInj
  <2>4. Len(listing) = Cardinality(Object)
    BY <1>1, <1>2
  <2>5. QED
    BY <2>3, <2>4 DEF N, NoRepeats, Injection, IsInjective
<1>4. StartsBounded
  BY <1>1 DEF Init, StartsBounded, Idle
<1>5. RestTyped
  <2>1. {MaxChanges, MaxRemovals, MaxSyncs, MaxWebhooks, MaxFaults} \subseteq Nat
    BY IngestionAssumption
  <2>2. budget = [change |-> MaxChanges, remove |-> MaxRemovals, sync |-> MaxSyncs,
                  webhook |-> MaxWebhooks, fault |-> MaxFaults]
    BY DEF Init
  <2>3. budget \in [{"change", "remove", "sync", "webhook", "fault"} -> Nat]
    BY <2>1, <2>2
  <2>4. /\ serving = FALSE /\ published = <<>> /\ seen = {} /\ synced = {} /\ abandoned = {}
    BY DEF Init
  <2>5. serving \in BOOLEAN
    BY <2>4
  <2>6. published \in Seq(Event) /\ seen \subseteq Object /\ synced \subseteq Object
        /\ abandoned \subseteq Object
    BY <2>4
  <2>7. QED
    BY <2>3, <2>5, <2>6 DEF RestTyped
<1>6. QED
  BY <1>3, <1>4, <1>5 DEF TInv

LEMMA TypesStep == Typed /\ TInv /\ [Next]_vars => TInv'
<1> SUFFICES ASSUME Typed, TInv, [Next]_vars PROVE TInv'
  OBVIOUS
<1>1. CASE Crash
  BY <1>1, NewProcessTyped DEF Crash, TInv
<1>2. CASE UNCHANGED vars
  BY <1>2 DEF vars, sourceVars, historyVars, TInv, NoRepeats, StartsBounded, RestTyped
<1>3. QED
  BY <1>1, <1>2, SourceTypes, ThreadTypes, WebhookTypes DEF Next

(***************************************************************************)
(* The states of the program have the types they should: in particular no  *)
(* offset a sync asks a page at is beyond the number of objects.           *)
(***************************************************************************)
THEOREM IngestionIsTyped == Spec => []TypeOK
<1>1. Typed /\ TInv => TypeOK
  <2> SUFFICES ASSUME Typed, TInv PROVE TypeOK
    OBVIOUS
  <2>1. Cardinality(Object) \in Nat
    BY IngestionAssumption, FS_CardinalityType
  <2>2. \A t \in Thread : sync[t] \in SyncState /\ sync[t].start \in 0..Cardinality(Object)
    BY <2>1, ThreadFields DEF TInv, StartsBounded
  <2>3. \A t \in Thread :
          sync[t] \in [pc : {"idle", "page", "test", "add", "publish"},
                       start : 0..Cardinality(Object),
                       events : Seq(Event), fresh : Seq(Event), next : Nat \ {0},
                       touched : SUBSET Object, shrunk : BOOLEAN]
    BY <2>2 DEF SyncState
  <2>4. QED
    BY <2>3 DEF Typed, SyncTyped, SourceTyped, TInv, RestTyped, TypeOK
<1>2. IInv => Typed
  BY DEF IInv
<1>3. QED
  BY <1>1, <1>2, InvInit, InvStep, TypesInit, TypesStep, PTL DEF Spec
=============================================================================
