---------------------------- MODULE RetrievalProofs ----------------------------
(***************************************************************************)
(* retrieval-service for any number of nodes, organisations, HTTP threads, *)
(* changes, faults and restarts, any cache size, and an index that does or *)
(* does not survive: the cache and the index hold the vectors of their own *)
(* texts, the index follows the graph, and a search returns what both arms *)
(* agree on first while its arms are short enough for fusion to show it.   *)
(***************************************************************************)
EXTENDS Retrieval, FiniteSetTheorems, TLAPS

Fields == {"pc", "goal", "org", "attempt", "texts", "at", "vectors", "todo", "keyword", "answer"}
NodeTexts == Nodes \X (0..MaxVersion)
AllTexts == NodeTexts \cup {Query}

\* Where a thread is while it is inside CachedEmbedder.embed or about to use its result.
Stages == {"lookup", "touch", "provider", "put", "trim", "embedded"}

-----------------------------------------------------------------------------
(* The inductive invariant of the types: what is shared, and what a thread holds *)

\* What the graph, its announcements and the consumer's place in them look like.
GraphTyped ==
    /\ graph \in [Nodes -> 0..MaxVersion] /\ newest \in [Nodes -> 0..MaxVersion]
    /\ unannounced \subseteq Nodes /\ dead \subseteq Nodes /\ indexedOrgs \subseteq Orgs
    /\ changes \in Seq(SUBSET Nodes) /\ offset \in 0..Len(changes)
    /\ \A n \in unannounced : graph[n] # 0
    /\ \A i \in 1..Len(changes) : \A n \in changes[i] : graph[n] # 0

\* Each text once, with its own vector.
WellCached(c) ==
    /\ c \in Seq([text : AllTexts, vector : AllTexts])
    /\ \A i \in 1..Len(c) : c[i].vector = VectorOf(c[i].text)
    /\ \A i, j \in 1..Len(c) : c[i].text = c[j].text => i = j

\* A point is of its node, of a version that the graph had, and no newer one was there.
IndexTyped ==
    /\ DOMAIN index = Nodes
    /\ \A n \in Nodes :
          /\ newest[n] <= graph[n]
          /\ index[n] # NoPoint =>
                /\ index[n] \in [text : NodeTexts, vector : AllTexts]
                /\ index[n].vector = VectorOf(index[n].text)
                /\ index[n].text[1] = n /\ index[n].text[2] <= newest[n]

\* Each vector is missing or that of its text; missing ones are gone before they are used.
EmbedTyped(r) ==
    /\ r.texts \in Seq(AllTexts)
    /\ r.pc \in {"lookup", "touch"} => r.at \in 1..Len(r.texts)
    /\ DOMAIN r.vectors = 1..Len(r.texts)
    /\ \A i \in 1..Len(r.texts) : r.vectors[i] \in {None, VectorOf(r.texts[i])}
    /\ r.pc = "provider" => \E i \in 1..Len(r.texts) : r.vectors[i] = None
    /\ r.pc \in {"put", "trim", "embedded"} => \A i \in 1..Len(r.texts) : r.vectors[i] # None
    /\ r.pc \in {"put", "trim"} => r.todo \subseteq 1..Len(r.texts) /\ r.todo # {}
    /\ r.goal \in {"index", "query"}
    /\ r.goal = "query" => r.texts = <<Query>>
    /\ r.goal = "index" =>
          \A i \in 1..Len(r.texts) : r.texts[i] \in NodeTexts /\ r.texts[i][2] <= graph[r.texts[i][1]]

ConsumerTyped(r) ==
    /\ r.pc \in {"idle", "fetch", "upserted"} \cup Stages
    /\ r.goal = "index"
    /\ r.pc # "idle" => offset < Len(changes)

ClientTyped(r) ==
    /\ r.pc \in {"idle", "ensure", "upserted", "ready", "answered"} \cup Stages
    /\ r.pc \in {"idle", "ensure", "upserted", "ready"} => r.goal = "index"
    /\ r.pc \notin {"idle", "answered"} => r.org \in Orgs

\* Thread t may be in state r.
Fits(t, r) ==
    /\ DOMAIN r = Fields
    /\ t = Consumer => ConsumerTyped(r)
    /\ t \in Client => ClientTyped(r)
    /\ r.pc \in Stages => EmbedTyped(r)

ThreadsTyped == thread = [t \in Threads |-> thread[t]] /\ \A t \in Threads : Fits(t, thread[t])

Typed == GraphTyped /\ WellCached(cache) /\ IndexTyped /\ ThreadsTyped

-----------------------------------------------------------------------------
(* The bound of the cache *)

\* Only the thread that put an entry, and finds it in place, may be above the bound.
Trimming == {t \in Threads : /\ thread[t].pc = "trim"
                             /\ Cached(thread[t].texts[Min(thread[t].todo)])}
Trimmed == Len(cache) <= CacheSize + Cardinality(Trimming)

-----------------------------------------------------------------------------
(* The inductive invariant of what is indexed *)

\* Changes of n that the consumer has not begun.
Later(n) == n \in unannounced \/ \E i \in (offset + 2)..Len(changes) : n \in changes[i]
Excused(n) == Pending(n) \/ n \in dead

\* What an HTTP thread in state r is about to index, or has, for an organisation.
Bootstraps(r) ==
    \A n \in Nodes : OrgOf[n] = r.org /\ graph[n] # 0 =>
        \/ index[n] # NoPoint \/ Excused(n)
        \/ r.pc \in Stages /\ \E i \in 1..Len(r.texts) : r.texts[i][1] = n

\* The consumer is about to index what the event in its hand names, or has.
Consumes(r) ==
    /\ r.pc \in Stages => \A n \in changes[offset + 1] :
          /\ \E i \in 1..Len(r.texts) : r.texts[i][1] = n
          /\ \A i \in 1..Len(r.texts) :
                r.texts[i][1] = n => r.texts[i][2] = graph[n] \/ Later(n)
    /\ r.pc = "upserted" => \A n \in changes[offset + 1] :
          index[n] # NoPoint /\ (newest[n] = graph[n] \/ Later(n))

\* What is said of text that is behind the graph.
Behind(r) ==
    \A i \in 1..Len(r.texts) : \A n \in Nodes :
        r.texts[i][1] = n /\ r.texts[i][2] # graph[n] => Excused(n) \/ newest[n] = graph[n]

\* What a thread in state r keeps of the graph it has read.
Keeps(t, r) ==
    /\ r.pc \in Stages /\ r.goal = "index" => Behind(r)
    /\ t = Consumer => Consumes(r)
    /\ t \in Client /\ r.goal = "index" /\ r.pc \in Stages \cup {"upserted"} => Bootstraps(r)

Covered ==
    \A n \in Nodes : OrgOf[n] \in indexedOrgs /\ graph[n] # 0 => index[n] # NoPoint \/ Excused(n)
Current == \A n \in Nodes : index[n] # NoPoint /\ newest[n] # graph[n] => Excused(n)

Follows == Covered /\ Current /\ \A t \in Threads : Keeps(t, thread[t])

-----------------------------------------------------------------------------
(* Sets as sequences, and the order of the provider's rows *)

\* SetToSeq lists every member of a finite set once.
LEMMA Listed ==
    ASSUME NEW S, IsFiniteSet(S)
    PROVE  /\ SetToSeq(S) \in Seq(S) /\ Len(SetToSeq(S)) = Cardinality(S)
           /\ \A x \in S : \E i \in 1..Len(SetToSeq(S)) : SetToSeq(S)[i] = x
<1> DEFINE D == 1..Cardinality(S)
<1>1. Cardinality(S) \in Nat /\ ExistsBijection(D, S)
  BY FS_CardinalityType
<1>2. PICK f : f \in Injection(D, S)
  BY <1>1 DEF ExistsBijection, Bijection
<1>3. f \in [D -> S] /\ IsInjective(f)
  BY <1>2 DEF Injection
<1>4. SetToSeq(S) \in [D -> S] /\ IsInjective(SetToSeq(S))
  BY <1>3 DEF SetToSeq
<1>5. SetToSeq(S) \in Injection(D, S)
  BY <1>4 DEF Injection
<1>6. Cardinality(D) = Cardinality(S) /\ IsFiniteSet(D)
  BY <1>1, FS_Interval
<1>7. SetToSeq(S) \in Surjection(D, S)
  BY <1>5, <1>6, FS_Injection
<1>8. \A x \in S : \E i \in D : SetToSeq(S)[i] = x
  BY <1>7 DEF Surjection
<1>9. Len(SetToSeq(S)) = Cardinality(S) /\ SetToSeq(S) \in Seq(S)
  BY <1>1, <1>4
<1> QED
  BY <1>8, <1>9

\* Every order of a finite set has all its members, at distinct places.
LEMMA Ordered ==
    ASSUME NEW S, IsFiniteSet(S), NEW s \in SetToSeqs(S)
    PROVE  s \in Seq(S) /\ Len(s) = Cardinality(S) /\ ToSet(s) = S
<1> DEFINE D == 1..Cardinality(S)
<1>1. Cardinality(S) \in Nat
  BY FS_CardinalityType
<1>2. s \in [D -> S] /\ \A i, j \in D : i # j => s[i] # s[j]
  BY DEF SetToSeqs
<1>3. s \in Injection(D, S)
  BY <1>2 DEF Injection, IsInjective
<1>4. Cardinality(D) = Cardinality(S)
  BY <1>1, FS_Interval
<1>5. s \in Surjection(D, S)
  BY <1>3, <1>4, FS_Injection
<1>6. \A x \in S : \E i \in D : s[i] = x
  BY <1>5 DEF Surjection
<1>7. ToSet(s) = S
  BY <1>2, <1>6 DEF ToSet
<1>8. Len(s) = Cardinality(S) /\ s \in Seq(S)
  BY <1>1, <1>2
<1> QED
  BY <1>7, <1>8

\* The places of a set of naturals count its members up to each of them.
LEMMA Places ==
    ASSUME NEW S, S \subseteq Nat, IsFiniteSet(S)
    PROVE  /\ \A i \in S : RequestPlace(S, i) \in 1..Cardinality(S)
           /\ \A i, j \in S : i < j => RequestPlace(S, i) < RequestPlace(S, j)
<1> DEFINE Up(i) == {k \in S : k <= i}
<1>1. \A i \in S : Cardinality(Up(i)) \in Nat /\ IsFiniteSet(Up(i))
                   /\ Cardinality(Up(i)) <= Cardinality(S)
  <2> SUFFICES ASSUME NEW i \in S
               PROVE  Cardinality(Up(i)) \in Nat /\ IsFiniteSet(Up(i))
                      /\ Cardinality(Up(i)) <= Cardinality(S)
    OBVIOUS
  <2>1. Up(i) \in SUBSET S
    OBVIOUS
  <2> QED
    BY <2>1, FS_Subset, FS_CardinalityType
<1>2. \A i \in S : Cardinality(Up(i)) # 0
  <2> SUFFICES ASSUME NEW i \in S PROVE Cardinality(Up(i)) # 0
    OBVIOUS
  <2>1. i \in Up(i)
    OBVIOUS
  <2> QED
    BY <1>1, <2>1, FS_EmptySet
<1>3. \A i, j \in S : i < j => Cardinality(Up(i)) < Cardinality(Up(j))
  <2> SUFFICES ASSUME NEW i \in S, NEW j \in S, i < j
               PROVE  Cardinality(Up(i)) < Cardinality(Up(j))
    OBVIOUS
  <2>0. i \in Nat /\ j \in Nat /\ \A k \in S : k \in Nat
    OBVIOUS
  <2>1. Up(i) \in SUBSET Up(j) /\ j \in Up(j) /\ j \notin Up(i)
    <3>1. ~(j <= i) /\ \A k \in S : k <= i => k <= j
      BY <2>0
    <3>2. j <= j
      BY <2>0
    <3> QED
      BY <3>1, <3>2
  <2>2. Cardinality(Up(i)) <= Cardinality(Up(j))
        /\ (Cardinality(Up(j)) = Cardinality(Up(i)) => Up(j) = Up(i))
    BY <1>1, <2>1, FS_Subset
  <2>3. Cardinality(Up(i)) # Cardinality(Up(j))
    BY <2>1, <2>2
  <2> QED
    BY <1>1, <2>2, <2>3
<1>4. Cardinality(S) \in Nat
  BY FS_CardinalityType
<1>5. \A i \in S : RequestPlace(S, i) = Cardinality(Up(i))
  BY DEF RequestPlace
<1> HIDE DEF Up
<1>6. \A i \in S : RequestPlace(S, i) \in 1..Cardinality(S)
  BY <1>1, <1>2, <1>4, <1>5
<1> QED
  BY <1>3, <1>5, <1>6

\* In whatever order the rows come, sorting by index gives each text its own embedding.
LEMMA RowsFindTheirTexts ==
    ASSUME NEW S, S \subseteq Nat, IsFiniteSet(S), NEW texts,
           NEW rows \in SetToSeqs({Row(texts, S, i) : i \in S})
    PROVE  \A i \in S : ByIndex(rows)[RequestPlace(S, i)] = VectorOf(texts[i])
<1> DEFINE R(i) == Row(texts, S, i)
           Rows == {R(i) : i \in S}
           place == [i \in S |-> R(i)]
<1>1. /\ \A i \in S : RequestPlace(S, i) \in 1..Cardinality(S)
      /\ \A i, j \in S : i < j => RequestPlace(S, i) < RequestPlace(S, j)
  BY Places
<1>2. \A i, j \in S : RequestPlace(S, i) <= RequestPlace(S, j) <=> i <= j
  <2> SUFFICES ASSUME NEW i \in S, NEW j \in S
               PROVE  RequestPlace(S, i) <= RequestPlace(S, j) <=> i <= j
    OBVIOUS
  <2>1. i \in Nat /\ j \in Nat
    OBVIOUS
  <2>2. RequestPlace(S, i) \in Int /\ RequestPlace(S, j) \in Int
    BY <1>1, FS_CardinalityType
  <2> QED
    BY <1>1, <2>1, <2>2
<1>3. \A i \in S : R(i).index = RequestPlace(S, i) /\ R(i).embedding = VectorOf(texts[i])
  BY DEF Row
<1>4. \A i, j \in S : R(i) = R(j) => i = j
  <2> SUFFICES ASSUME NEW i \in S, NEW j \in S, R(i) = R(j) PROVE i = j
    OBVIOUS
  <2>1. RequestPlace(S, i) = RequestPlace(S, j) /\ i \in Nat /\ j \in Nat
    BY <1>3
  <2>2. RequestPlace(S, i) \in Int /\ RequestPlace(S, j) \in Int
    BY <1>1, FS_CardinalityType
  <2> QED
    BY <1>2, <2>1, <2>2
<1> HIDE DEF R
<1>5. ASSUME NEW T \in SUBSET S
      PROVE  IsFiniteSet({R(i) : i \in T}) /\ Cardinality({R(i) : i \in T}) = Cardinality(T)
  <2> DEFINE f == [i \in T |-> R(i)]
             U == {R(i) : i \in T}
  <2>1. IsFiniteSet(T)
    BY FS_Subset
  <2>2. f \in [T -> U] /\ \A u \in U : \E i \in T : f[i] = u
    OBVIOUS
  <2>3. f \in Surjection(T, U)
    BY <2>2 DEF Surjection
  <2>4. f \in Injection(T, U)
    BY <1>4, <2>2 DEF Injection, IsInjective
  <2> QED
    BY <2>1, <2>3, <2>4, FS_Surjection
<1>6. IsFiniteSet(Rows) /\ Cardinality(Rows) = Cardinality(S)
  BY <1>5
<1>7. rows \in Seq(Rows) /\ Len(rows) = Cardinality(S) /\ ToSet(rows) = Rows
  <2>1. rows \in SetToSeqs(Rows)
    BY DEF R
  <2> HIDE DEF Rows
  <2> QED
    BY <1>6, <2>1, Ordered
<1> SUFFICES ASSUME NEW i \in S
             PROVE  ByIndex(rows)[RequestPlace(S, i)] = VectorOf(texts[i])
  OBVIOUS
<1> DEFINE UpTo(row) == {other \in ToSet(rows) : other.index <= row.index}
<1>8. \A j \in S : Cardinality(UpTo(R(j))) = RequestPlace(S, j)
  <2> SUFFICES ASSUME NEW j \in S PROVE Cardinality(UpTo(R(j))) = RequestPlace(S, j)
    OBVIOUS
  <2>1. {k \in S : k <= j} \in SUBSET S
    OBVIOUS
  <2>2. UpTo(R(j)) = {R(k) : k \in {k \in S : k <= j}}
    BY <1>2, <1>3, <1>7
  <2> QED
    BY <1>5, <2>1, <2>2 DEF RequestPlace
<1>9. \A row \in ToSet(rows) : Cardinality(UpTo(row)) = RequestPlace(S, i) => row = R(i)
  <2> SUFFICES ASSUME NEW row \in ToSet(rows),
                      Cardinality(UpTo(row)) = RequestPlace(S, i)
               PROVE  row = R(i)
    OBVIOUS
  <2>1. PICK j \in S : row = R(j)
    BY <1>7
  <2>2. RequestPlace(S, j) = RequestPlace(S, i)
    BY <1>8, <2>1
  <2>3. RequestPlace(S, i) \in Int /\ i \in Nat /\ j \in Nat
    BY <1>1, FS_CardinalityType
  <2> QED
    BY <1>2, <2>1, <2>2, <2>3
<1>10. R(i) \in ToSet(rows)
  BY <1>7
<1>11. (CHOOSE row \in ToSet(rows) : Cardinality(UpTo(row)) = RequestPlace(S, i)) = R(i)
  BY <1>8, <1>9, <1>10
<1>12. RequestPlace(S, i) \in 1..Len(rows)
  BY <1>1, <1>7
<1>13. ByIndex(rows)[RequestPlace(S, i)]
         = (CHOOSE row \in ToSet(rows) : Cardinality(UpTo(row)) = RequestPlace(S, i)).embedding
  BY <1>12 DEF ByIndex
<1> HIDE DEF UpTo
<1> QED
  BY <1>3, <1>11, <1>13

-----------------------------------------------------------------------------
(* The cache *)

LEMMA Removed ==
    ASSUME NEW T, NEW s \in Seq(T), NEW i \in 1..Len(s)
    PROVE  /\ RemoveAt(s, i) \in Seq(T) /\ Len(RemoveAt(s, i)) = Len(s) - 1
           /\ \A j \in 1..(Len(s) - 1) : RemoveAt(s, i)[j] = IF j < i THEN s[j] ELSE s[j + 1]
<1>1. /\ SubSeq(s, 1, i - 1) \in Seq(T) /\ Len(SubSeq(s, 1, i - 1)) = i - 1
      /\ \A j \in 1..(i - 1) : SubSeq(s, 1, i - 1)[j] = s[j]
  OBVIOUS
<1>2. /\ SubSeq(s, i + 1, Len(s)) \in Seq(T) /\ Len(SubSeq(s, i + 1, Len(s))) = Len(s) - i
      /\ \A j \in 1..(Len(s) - i) : SubSeq(s, i + 1, Len(s))[j] = s[i + j]
  OBVIOUS
<1>3. PICK a, b : a = SubSeq(s, 1, i - 1) /\ b = SubSeq(s, i + 1, Len(s))
  OBVIOUS
<1>4. a \in Seq(T) /\ b \in Seq(T) /\ Len(a) = i - 1 /\ Len(b) = Len(s) - i
  BY <1>1, <1>2, <1>3
<1>5. RemoveAt(s, i) = a \o b
  BY <1>3 DEF RemoveAt
<1>6. a \o b \in Seq(T) /\ Len(a \o b) = Len(s) - 1
  BY <1>4
<1>7. ASSUME NEW j \in 1..(Len(s) - 1)
      PROVE  (a \o b)[j] = IF j < i THEN s[j] ELSE s[j + 1]
  <2>1. CASE j < i
    <3>1. j \in 1..(i - 1)
      BY <2>1
    <3>2. (a \o b)[j] = a[j]
      BY <1>4, <3>1
    <3>3. a[j] = s[j]
      BY <1>1, <1>3, <3>1
    <3> QED
      BY <2>1, <3>2, <3>3
  <2>2. CASE ~(j < i)
    <3>1. j - (i - 1) \in 1..(Len(s) - i) /\ i + (j - (i - 1)) = j + 1
      BY <2>2
    <3>2. (a \o b)[j] = b[j - (i - 1)]
      BY <1>4, <2>2
    <3>3. b[j - (i - 1)] = s[j + 1]
      BY <1>2, <1>3, <3>1
    <3> QED
      BY <2>2, <3>2, <3>3
  <2> QED
    BY <2>1, <2>2
<1> QED
  BY <1>5, <1>6, <1>7

\* move_to_end changes the order and nothing else.
LEMMA MovedKeeps ==
    ASSUME WellCached(cache), NEW text, Cached(text)
    PROVE  /\ WellCached(MovedToEnd(text)) /\ Len(MovedToEnd(text)) = Len(cache)
           /\ \A x : (\E j \in 1..Len(cache) : MovedToEnd(text)[j].text = x) <=> Cached(x)
<1> DEFINE T == [text : AllTexts, vector : AllTexts]
           p == Place(text)
           m == RemoveAt(cache, p)
<1>1. p \in 1..Len(cache) /\ cache[p].text = text
  BY DEF Cached, Place
<1>2. cache \in Seq(T)
  BY DEF WellCached
<1> HIDE DEF p, T
<1>3. /\ m \in Seq(T) /\ Len(m) = Len(cache) - 1
      /\ \A j \in 1..(Len(cache) - 1) : m[j] = IF j < p THEN cache[j] ELSE cache[j + 1]
  BY <1>1, <1>2, Removed
<1> HIDE DEF m
<1>4. MovedToEnd(text) = Append(m, cache[p])
  BY DEF MovedToEnd, Entry, m, p
<1>5. PICK c : c = MovedToEnd(text)
  OBVIOUS
<1>6. /\ c \in Seq(T) /\ Len(c) = Len(cache)
      /\ \A j \in 1..Len(cache) :
            c[j] = IF j < p THEN cache[j] ELSE IF j < Len(cache) THEN cache[j + 1] ELSE cache[p]
  BY <1>1, <1>2, <1>3, <1>4, <1>5
<1>7. \A j \in 1..Len(cache) : \E k \in 1..Len(cache) :
          /\ c[j] = cache[k]
          /\ k = IF j < p THEN j ELSE IF j < Len(cache) THEN j + 1 ELSE p
  BY <1>1, <1>2, <1>6
<1>8. \A k \in 1..Len(cache) : \E j \in 1..Len(cache) : c[j] = cache[k]
  <2> SUFFICES ASSUME NEW k \in 1..Len(cache) PROVE \E j \in 1..Len(cache) : c[j] = cache[k]
    OBVIOUS
  <2>0. Len(cache) \in Nat
    BY <1>2
  <2>1. CASE k < p
    BY <1>6, <2>1
  <2>2. CASE k = p
    BY <1>6, <2>0, <2>2, <1>1
  <2>3. CASE k > p
    <3>1. k - 1 \in 1..Len(cache) /\ ~(k - 1 < p) /\ k - 1 < Len(cache) /\ (k - 1) + 1 = k
      BY <1>1, <2>0, <2>3
    <3> QED
      BY <1>6, <3>1
  <2> QED
    BY <1>1, <2>1, <2>2, <2>3
<1>9. \A i, j \in 1..Len(cache) : c[i].text = c[j].text => i = j
  <2> SUFFICES ASSUME NEW i \in 1..Len(cache), NEW j \in 1..Len(cache), c[i].text = c[j].text
               PROVE  i = j
    OBVIOUS
  <2>1. PICK k \in 1..Len(cache), l \in 1..Len(cache) :
           /\ c[i] = cache[k] /\ c[j] = cache[l]
           /\ k = IF i < p THEN i ELSE IF i < Len(cache) THEN i + 1 ELSE p
           /\ l = IF j < p THEN j ELSE IF j < Len(cache) THEN j + 1 ELSE p
    BY <1>7
  <2>2. k = l
    BY <2>1 DEF WellCached
  <2>3. Len(cache) \in Nat
    BY <1>2
  <2> QED
    BY <1>1, <2>1, <2>2, <2>3
<1>10. WellCached(c)
  BY <1>6, <1>7, <1>9 DEF WellCached, T
<1>11. \A x : (\E j \in 1..Len(cache) : c[j].text = x) <=> Cached(x)
  <2>1. \A j \in 1..Len(cache) : \E k \in 1..Len(cache) : c[j].text = cache[k].text
    BY <1>7
  <2>2. \A k \in 1..Len(cache) : \E j \in 1..Len(cache) : c[j].text = cache[k].text
    BY <1>8
  <2> SUFFICES ASSUME NEW x
               PROVE  (\E j \in 1..Len(cache) : c[j].text = x) <=> Cached(x)
    OBVIOUS
  <2>3. ASSUME NEW j \in 1..Len(cache), c[j].text = x PROVE Cached(x)
    BY <2>1, <2>3 DEF Cached
  <2>4. ASSUME NEW k \in 1..Len(cache), cache[k].text = x
        PROVE  \E j \in 1..Len(cache) : c[j].text = x
    BY <2>2, <2>4
  <2> QED
    BY <2>3, <2>4 DEF Cached
<1> QED
  BY <1>5, <1>6, <1>10, <1>11

\* Eviction leaves the newest entries, CacheSize of them.
LEMMA EvictedFits ==
    ASSUME NEW c, WellCached(c), Len(c) > CacheSize
    PROVE  WellCached(Evicted(c)) /\ Len(Evicted(c)) = CacheSize
<1> DEFINE T == [text : AllTexts, vector : AllTexts]
<1>1. c \in Seq(T) /\ Len(c) \in Nat /\ CacheSize \in Nat
  BY BoundsAssumption DEF WellCached
<1> HIDE DEF T
<1>2. PICK k \in Nat : k = Len(c) - CacheSize /\ k > 0
  BY <1>1
<1>3. PICK e : e = Evicted(c)
  OBVIOUS
<1>4. /\ e \in Seq(T) /\ Len(e) = CacheSize
      /\ \A j \in 1..CacheSize : e[j] = c[k + j] /\ k + j \in 1..Len(c)
  BY <1>1, <1>2, <1>3 DEF Evicted
<1>5. \A i, j \in 1..CacheSize : k + i = k + j => i = j
  BY <1>1, <1>2
<1>6. \A i, j \in 1..CacheSize : e[i].text = e[j].text => k + i = k + j
  <2>1. \A i, j \in 1..Len(c) : c[i].text = c[j].text => i = j
    BY DEF WellCached
  <2>2. \A i \in 1..CacheSize : \E l \in 1..Len(c) : l = k + i /\ e[i] = c[l]
    BY <1>4
  <2> QED
    BY <2>1, <2>2
<1>7. WellCached(e)
  BY <1>4, <1>5, <1>6 DEF WellCached, T
<1> QED
  BY <1>3, <1>4, <1>7

\* Setting an entry replaces the vector of its text or appends it.
LEMMA StoredKeeps ==
    ASSUME WellCached(cache), NEW entry \in [text : AllTexts, vector : AllTexts],
           entry.vector = VectorOf(entry.text)
    PROVE  /\ WellCached(Stored(entry))
           /\ Len(Stored(entry)) = Len(cache) + (IF Cached(entry.text) THEN 0 ELSE 1)
           /\ \A x : (\E j \in 1..Len(Stored(entry)) : Stored(entry)[j].text = x)
                       <=> Cached(x) \/ x = entry.text
<1> DEFINE T == [text : AllTexts, vector : AllTexts]
<1>1. cache \in Seq(T) /\ Len(cache) \in Nat
  BY DEF WellCached
<1>2. PICK c : c = Stored(entry)
  OBVIOUS
<1>3. CASE Cached(entry.text)
  <2>1. c = [j \in 1..Len(cache) |-> IF cache[j].text = entry.text THEN entry ELSE cache[j]]
    BY <1>2, <1>3 DEF Stored
  <2>2. c \in Seq(T) /\ Len(c) = Len(cache)
    <3>0. entry \in T
      OBVIOUS
    <3> HIDE DEF T
    <3>1. c \in [1..Len(cache) -> T]
      BY <1>1, <2>1, <3>0
    <3> QED
      BY <1>1, <3>1
  <2>3. \A j \in 1..Len(cache) : c[j].text = cache[j].text /\ c[j].vector = VectorOf(c[j].text)
    BY <2>1 DEF WellCached
  <2>4. WellCached(c)
    BY <2>2, <2>3 DEF WellCached
  <2>5. \A x : (\E j \in 1..Len(c) : c[j].text = x) <=> Cached(x) \/ x = entry.text
    BY <1>3, <2>2, <2>3 DEF Cached
  <2>6. Len(c) = Len(cache) + (IF Cached(entry.text) THEN 0 ELSE 1)
    BY <1>1, <1>3, <2>2
  <2> QED
    BY <1>2, <2>4, <2>5, <2>6
<1>4. CASE ~Cached(entry.text)
  <2>1. c = Append(cache, entry)
    BY <1>2, <1>4 DEF Stored
  <2>2. /\ c \in Seq(T) /\ Len(c) = Len(cache) + 1
        /\ \A j \in 1..Len(cache) : c[j] = cache[j]
        /\ c[Len(cache) + 1] = entry
    <3> HIDE DEF T
    <3>1. entry \in T
      BY DEF T
    <3> QED
      BY <1>1, <2>1, <3>1
  <2>3. \A j \in 1..Len(c) : j \in 1..Len(cache) \/ j = Len(cache) + 1
    BY <1>1, <2>2
  <2>4. \A j \in 1..Len(cache) : cache[j].text # entry.text
    BY <1>4 DEF Cached
  <2>5. WellCached(c)
    BY <2>2, <2>3, <2>4 DEF WellCached
  <2>6. 1..Len(cache) \subseteq 1..Len(c) /\ Len(cache) + 1 \in 1..Len(c)
    BY <1>1, <2>2
  <2>7. \A x : (\E j \in 1..Len(c) : c[j].text = x) <=> Cached(x) \/ x = entry.text
    BY <2>2, <2>3, <2>6 DEF Cached
  <2> QED
    BY <1>2, <1>4, <2>2, <2>5, <2>7
<1> QED
  BY <1>3, <1>4

-----------------------------------------------------------------------------
(* States of a thread *)

\* What fits a thread still does when the graph and the consumer's place are unchanged.
LEMMA StillFits ==
    ASSUME UNCHANGED graph, NEW u, NEW y, Fits(u, y),
           u = Consumer => UNCHANGED <<offset, changes>>
    PROVE  Fits(u, y)'
<1>1. EmbedTyped(y)' <=> EmbedTyped(y)
  BY DEF EmbedTyped
<1>2. u = Consumer => (ConsumerTyped(y)' <=> ConsumerTyped(y))
  BY DEF ConsumerTyped
<1>3. ClientTyped(y)' <=> ClientTyped(y)
  BY DEF ClientTyped
<1> QED
  BY <1>1, <1>2, <1>3 DEF Fits

LEMMA ThreadGoesOn ==
    ASSUME ThreadsTyped, NEW t \in Threads, NEW x, Become(t, x), Fits(t, x)',
           UNCHANGED graph, t # Consumer => UNCHANGED <<offset, changes>>
    PROVE  ThreadsTyped'
<1>1. thread' = [thread EXCEPT ![t] = x]
  BY DEF Become
<1>2. \A u \in Threads : thread'[u] = IF u = t THEN x ELSE thread[u]
  BY <1>1 DEF ThreadsTyped
<1>3. thread' = [u \in Threads |-> thread'[u]]
  BY <1>1 DEF ThreadsTyped
<1>4. ASSUME NEW u \in Threads, u # t PROVE Fits(u, thread[u])'
  <2>1. PICK y : y = thread[u]
    OBVIOUS
  <2>2. u = Consumer => t # Consumer
    BY <1>4
  <2>3. Fits(u, y)'
    BY <2>1, <2>2, StillFits DEF ThreadsTyped
  <2>4. thread'[u] = y
    BY <1>2, <1>4, <2>1
  <2> QED
    BY <2>3, <2>4
<1>5. Fits(t, thread[t])'
  BY <1>2
<1>6. \A u \in Threads : Fits(u, thread[u])'
  BY <1>4, <1>5
<1> QED
  BY <1>3, <1>6 DEF ThreadsTyped

LEMMA IdleFields == DOMAIN Idle = Fields /\ Idle.pc = "idle" /\ Idle.goal = "index"
  BY DEF Idle, Fields

\* A state outside embed(), as the steps make them from Idle.
LEMMA RestingFits ==
    ASSUME NEW t, NEW r, DOMAIN r = Fields, r.pc \notin Stages,
           t = Consumer => ConsumerTyped(r), t \in Client => ClientTyped(r)
    PROVE  Fits(t, r)
  BY DEF Fits

LEMMA IdleFits == ASSUME NEW t PROVE Fits(t, Idle)
<1>1. Idle.pc \notin Stages
  BY IdleFields DEF Stages
<1> QED
  BY <1>1, IdleFields, RestingFits DEF ConsumerTyped, ClientTyped

\* embed() starts with texts that the graph has, or with the query.
LEMMA StartEmbedFits ==
    ASSUME NEW t, NEW r, DOMAIN r = Fields, NEW texts \in Seq(AllTexts),
           t = Consumer => r.goal = "index" /\ offset < Len(changes),
           t \in Client => r.org \in Orgs,
           \/ r.goal = "query" /\ texts = <<Query>>
           \/ /\ r.goal = "index"
              /\ \A i \in 1..Len(texts) :
                    texts[i] \in NodeTexts /\ texts[i][2] <= graph[texts[i][1]]
    PROVE  Fits(t, StartEmbed(r, texts))
<1>1. PICK x : x = StartEmbed(r, texts)
  OBVIOUS
<1>2. /\ DOMAIN x = Fields /\ x.goal = r.goal /\ x.org = r.org /\ x.texts = texts
      /\ x.at = 1 /\ x.vectors = [i \in 1..Len(texts) |-> None]
      /\ x.pc = IF texts = <<>> THEN "upserted" ELSE "lookup"
  BY <1>1 DEF StartEmbed, Fields
<1>3. CASE texts = <<>>
  <2>1. x.pc = "upserted" /\ r.goal = "index"
    BY <1>2, <1>3
  <2>2. x.pc \notin Stages
    BY <2>1 DEF Stages
  <2> QED
    BY <1>1, <1>2, <2>1, <2>2 DEF Fits, ConsumerTyped, ClientTyped
<1>4. CASE texts # <<>>
  <2>1. x.pc = "lookup" /\ "lookup" \in Stages /\ 1 \in 1..Len(texts)
    BY <1>2, <1>4 DEF Stages
  <2>2. EmbedTyped(x)
    BY <1>2, <2>1 DEF EmbedTyped
  <2> QED
    BY <1>1, <1>2, <2>1, <2>2 DEF Fits, ConsumerTyped, ClientTyped
<1> QED
  BY <1>3, <1>4

\* The first loop of embed() takes the next text, or leaves with what is missing.
LEMMA NextTextFits ==
    ASSUME NEW t, NEW r, Fits(t, r), r.pc \in {"lookup", "touch"}
    PROVE  Fits(t, NextText(r))
<1>1. PICK x : x = NextText(r)
  OBVIOUS
<1>2. /\ DOMAIN x = Fields /\ x.goal = r.goal /\ x.org = r.org /\ x.texts = r.texts
      /\ x.at = r.at + 1 /\ x.vectors = r.vectors
      /\ x.pc = IF r.at < Len(r.texts) THEN "lookup"
                ELSE IF Missing(r) = {} THEN "embedded" ELSE "provider"
  BY <1>1 DEF NextText, Fits, Fields
<1>3. r.pc \in Stages /\ x.pc \in Stages
  BY <1>2 DEF Stages
<1>4. EmbedTyped(r)
  BY <1>3 DEF Fits
<1>5. x.pc = "lookup" => r.at + 1 \in 1..Len(r.texts)
  BY <1>2, <1>4 DEF EmbedTyped
<1>6. x.pc = "embedded" => \A i \in 1..Len(r.texts) : r.vectors[i] # None
  BY <1>2 DEF Missing
<1>7. x.pc = "provider" => \E i \in 1..Len(r.texts) : r.vectors[i] = None
  BY <1>2 DEF Missing
<1>8. EmbedTyped(x)
  BY <1>2, <1>4, <1>5, <1>6, <1>7 DEF EmbedTyped
<1> QED
  BY <1>1, <1>2, <1>3, <1>8 DEF Fits, ConsumerTyped, ClientTyped

-----------------------------------------------------------------------------
(* The steps of embed() keep the types *)

Below == OpToRel(<, Nat)

LEMMA BelowPairs == \A x, y \in Nat : y < x => <<y, x>> \in Below
  BY DEF Below, OpToRel

\* The place that _store is at is one that is still to be stored.
LEMMA MinIsMember ==
    ASSUME NEW S, S \subseteq Nat, S # {}
    PROVE  Min(S) \in S
<1>1. IsWellFoundedOn(Below, Nat)
  BY NatLessThanWellFounded DEF Below
<1> HIDE DEF Below
<1>2. PICK m \in S : \A y \in S : ~ (<<y, m>> \in Below)
  BY <1>1, WFMin
<1>3. \A y \in S : m \in Nat /\ y \in Nat /\ ~(y < m)
  BY <1>2, BelowPairs
<1>4. \A y \in S : m <= y
  BY <1>3
<1> QED
  BY <1>4 DEF Min

LEMMA VectorsExist == \A text \in AllTexts : VectorOf(text) \in AllTexts /\ VectorOf(text) # None
  BY TextsAssumption DEF VectorOf, AllTexts, NodeTexts

LEMMA LocalTyped ==
    ASSUME Typed, NEW t \in Threads, NEW x, Fits(t, x), Local(t, x)
    PROVE  Typed'
<1>1. UNCHANGED <<graph, unannounced, changes, offset, index, cache, indexedOrgs, dead, newest>>
  BY DEF Local, external
<1>2. Fits(t, x)'
  BY <1>1, StillFits
<1>3. ThreadsTyped'
  BY <1>1, <1>2, ThreadGoesOn DEF Typed, Local
<1> QED
  BY <1>1, <1>3 DEF Typed, GraphTyped, WellCached, IndexTyped

\* An exception leaves a thread at rest; the consumer tries again, or is done with the event.
LEMMA RaiseTyped ==
    ASSUME Typed, NEW t \in Threads, Raise(t), thread[t].pc # "idle",
           UNCHANGED <<external, indexedOrgs, newest>>
    PROVE  GraphTyped' /\ ThreadsTyped'
<1>1. UNCHANGED <<graph, unannounced, changes>>
  BY DEF external
<1>2. CASE t # Consumer
  <2>1. UNCHANGED <<offset, dead>>
    BY <1>2 DEF Raise
  <2>2. PICK x : x = [Idle EXCEPT !.pc = "answered"]
    OBVIOUS
  <2>3. DOMAIN x = Fields /\ x.pc = "answered" /\ x.goal = "index" /\ Become(t, x)
    BY <1>2, <2>2 DEF Raise, Idle, Fields
  <2>4. Fits(t, x)
    BY <1>2, <2>3 DEF Fits, Stages, ClientTyped
  <2>5. Fits(t, x)'
    BY <1>1, <2>1, <2>4, StillFits
  <2> QED
    BY <1>1, <2>1, <2>3, <2>5, ThreadGoesOn DEF Typed, GraphTyped
<1>3. CASE t = Consumer
  <2>1. offset < Len(changes)
    BY <1>3 DEF Typed, ThreadsTyped, Fits, ConsumerTyped
  <2>2. t \notin Client
    BY <1>3, ThreadsAssumption
  <2>3. CASE thread[t].attempt < MaxAttempts
    <3>1. UNCHANGED <<offset, dead>>
      BY <1>3, <2>3 DEF Raise
    <3>2. PICK x : x = [Idle EXCEPT !.pc = "fetch", !.attempt = thread[t].attempt + 1]
      OBVIOUS
    <3>3. DOMAIN x = Fields /\ x.pc = "fetch" /\ x.goal = "index" /\ Become(t, x)
      BY <1>3, <2>3, <3>2 DEF Raise, Idle, Fields
    <3>4. Fits(t, x)
      BY <2>1, <2>2, <3>3 DEF Fits, Stages, ConsumerTyped
    <3>5. Fits(t, x)'
      BY <1>1, <3>1, <3>4, StillFits
    <3> QED
      BY <1>1, <3>1, <3>3, <3>5, ThreadGoesOn DEF Typed, GraphTyped
  <2>4. CASE ~(thread[t].attempt < MaxAttempts)
    <3>1. Become(t, Idle) /\ offset' = offset + 1 /\ dead' = dead \cup changes[offset + 1]
      BY <1>3, <2>4 DEF Raise
    <3>2. PICK x : x = Idle
      OBVIOUS
    <3>3. Fits(t, x)'
      <4>1. x.pc = "idle" /\ x.goal = "index" /\ DOMAIN x = Fields
        BY <3>2, IdleFields
      <4> QED
        BY <2>2, <4>1 DEF Fits, ConsumerTyped, Stages
    <3>4. ThreadsTyped'
      BY <1>1, <1>3, <3>1, <3>2, <3>3, ThreadGoesOn DEF Typed
    <3>5. GraphTyped'
      BY <1>1, <2>1, <3>1 DEF Typed, GraphTyped
    <3> QED
      BY <3>4, <3>5
  <2> QED
    BY <2>3, <2>4
<1> QED
  BY <1>2, <1>3

LEMMA EmbedHolds ==
    ASSUME Typed, NEW t \in Threads, thread[t].pc \in Stages
    PROVE  EmbedTyped(thread[t]) /\ Fits(t, thread[t])
  BY DEF Typed, ThreadsTyped, Fits

LEMMA LookupTyped ==
    ASSUME Typed, NEW t \in Threads, Lookup(t)
    PROVE  Typed'
<1>1. PICK r : r = thread[t]
  OBVIOUS
<1>2. r.pc = "lookup" /\ Fits(t, r) /\ EmbedTyped(r)
  BY <1>1, EmbedHolds DEF Lookup, Stages
<1>3. PICK text : text = r.texts[r.at]
  OBVIOUS
<1>4. text \in AllTexts
  BY <1>2, <1>3 DEF EmbedTyped
<1>5. CASE Cached(text)
  <2>1. PICK x : x = [r EXCEPT !.vectors[r.at] = Entry(text).vector, !.pc = "touch"]
    OBVIOUS
  <2>2. Entry(text).vector = VectorOf(text)
    BY <1>5 DEF Cached, Entry, Place, Typed, WellCached
  <2>3. /\ DOMAIN x = Fields /\ x.goal = r.goal /\ x.org = r.org /\ x.texts = r.texts
        /\ x.at = r.at /\ x.pc = "touch"
        /\ x.vectors = [r.vectors EXCEPT ![r.at] = VectorOf(text)]
    BY <1>2, <2>1, <2>2 DEF Fits, Fields
  <2>4. "touch" \in Stages /\ "lookup" \in Stages
    BY DEF Stages
  <2>5. EmbedTyped(x)
    BY <1>2, <1>3, <2>3 DEF EmbedTyped
  <2>6. Fits(t, x)
    BY <1>2, <2>3, <2>4, <2>5 DEF Fits, ConsumerTyped, ClientTyped
  <2>7. Local(t, x)
    BY <1>1, <1>3, <1>5, <2>1 DEF Lookup
  <2> QED
    BY <2>6, <2>7, LocalTyped
<1>6. CASE ~Cached(text)
  <2>1. PICK x : x = NextText(r)
    OBVIOUS
  <2>2. Fits(t, x)
    BY <1>2, <2>1, NextTextFits
  <2>3. Local(t, x)
    BY <1>1, <1>3, <1>6, <2>1 DEF Lookup
  <2> QED
    BY <2>2, <2>3, LocalTyped
<1> QED
  BY <1>5, <1>6

LEMMA TouchTyped ==
    ASSUME Typed, NEW t \in Threads, Touch(t)
    PROVE  Typed'
<1>1. PICK r : r = thread[t]
  OBVIOUS
<1>2. r.pc = "touch" /\ Fits(t, r) /\ EmbedTyped(r)
  BY <1>1, EmbedHolds DEF Touch, Stages
<1>3. PICK text : text = r.texts[r.at]
  OBVIOUS
<1>4. UNCHANGED <<external, index, indexedOrgs, newest>>
  BY DEF Touch
<1>5. CASE Cached(text)
  <2>1. cache' = MovedToEnd(text) /\ Become(t, NextText(r)) /\ UNCHANGED <<offset, dead>>
    BY <1>1, <1>3, <1>5 DEF Touch
  <2>2. WellCached(MovedToEnd(text))
    BY <1>5, MovedKeeps DEF Typed
  <2>3. WellCached(cache)'
    BY <2>1, <2>2 DEF WellCached
  <2>4. PICK x : x = NextText(r)
    OBVIOUS
  <2>5. Fits(t, x)
    BY <1>2, <2>4, NextTextFits
  <2>6. Fits(t, x)'
    BY <1>4, <2>1, <2>5, StillFits DEF external
  <2>7. ThreadsTyped'
    BY <1>4, <2>1, <2>4, <2>6, ThreadGoesOn DEF Typed, external
  <2> QED
    BY <1>4, <2>1, <2>3, <2>7 DEF Typed, GraphTyped, IndexTyped, external
<1>6. CASE ~Cached(text)
  <2>1. Raise(t) /\ UNCHANGED cache
    BY <1>1, <1>3, <1>6 DEF Touch
  <2>2. GraphTyped' /\ ThreadsTyped'
    BY <1>1, <1>2, <1>4, <2>1, RaiseTyped
  <2> QED
    BY <1>4, <2>1, <2>2 DEF Typed, WellCached, IndexTyped, external
<1> QED
  BY <1>5, <1>6

LEMMA ProviderTyped ==
    ASSUME Typed, NEW t \in Threads, Provider(t)
    PROVE  Typed'
<1>1. PICK r : r = thread[t]
  OBVIOUS
<1>2. r.pc = "provider" /\ Fits(t, r) /\ EmbedTyped(r)
  BY <1>1, EmbedHolds DEF Provider, Stages
<1>3. PICK missing : missing = Missing(r)
  OBVIOUS
<1>4. UNCHANGED <<external, index, cache, indexedOrgs, newest>>
  BY DEF Provider
<1>5. CASE Raise(t)
  <2>1. GraphTyped' /\ ThreadsTyped'
    BY <1>1, <1>2, <1>4, <1>5, RaiseTyped
  <2> QED
    BY <1>4, <2>1 DEF Typed, WellCached, IndexTyped, external
<1>6. CASE ~Raise(t)
  <2>1. PICK rows \in SetToSeqs({Row(r.texts, missing, i) : i \in missing}) :
           /\ Become(t, [r EXCEPT !.pc = "put", !.todo = missing,
                  !.vectors = [i \in 1..Len(r.texts) |->
                      IF i \in missing THEN ByIndex(rows)[RequestPlace(missing, i)]
                      ELSE r.vectors[i]]])
           /\ UNCHANGED <<offset, dead>>
    BY <1>1, <1>3, <1>6 DEF Provider
  <2>2. missing \subseteq 1..Len(r.texts) /\ missing \subseteq Nat /\ Len(r.texts) \in Nat
    BY <1>2, <1>3 DEF Missing, EmbedTyped
  <2>3. IsFiniteSet(missing)
    <3>1. IsFiniteSet(1..Len(r.texts)) /\ missing \in SUBSET (1..Len(r.texts))
      BY <2>2, FS_Interval
    <3> QED
      BY <3>1, FS_Subset
  <2>4. \A i \in missing : ByIndex(rows)[RequestPlace(missing, i)] = VectorOf(r.texts[i])
    BY <2>2, <2>3, RowsFindTheirTexts
  <2>5. PICK vectors : vectors = [i \in 1..Len(r.texts) |->
                      IF i \in missing THEN ByIndex(rows)[RequestPlace(missing, i)]
                      ELSE r.vectors[i]]
    OBVIOUS
  <2>6. DOMAIN vectors = 1..Len(r.texts) /\ \A i \in 1..Len(r.texts) : vectors[i] = VectorOf(r.texts[i])
    <3>1. \A i \in 1..Len(r.texts) : i \notin missing => r.vectors[i] = VectorOf(r.texts[i])
      BY <1>2, <1>3 DEF Missing, EmbedTyped
    <3> QED
      BY <2>4, <2>5, <3>1
  <2>7. PICK x : x = [r EXCEPT !.pc = "put", !.todo = missing, !.vectors = vectors]
    OBVIOUS
  <2>8. /\ DOMAIN x = Fields /\ x.goal = r.goal /\ x.org = r.org /\ x.texts = r.texts
        /\ x.pc = "put" /\ x.todo = missing /\ x.vectors = vectors
    BY <1>2, <2>7 DEF Fits, Fields
  <2>9. missing # {}
    BY <1>2, <1>3 DEF EmbedTyped, Missing
  <2>10. \A i \in 1..Len(r.texts) : vectors[i] # None
    BY <1>2, <2>6, VectorsExist DEF EmbedTyped
  <2>11. EmbedTyped(x)
    BY <1>2, <2>2, <2>6, <2>8, <2>9, <2>10 DEF EmbedTyped
  <2>12. Fits(t, x)
    BY <1>2, <2>8, <2>11 DEF Fits, ConsumerTyped, ClientTyped, Stages
  <2>13. Fits(t, x)'
    BY <1>4, <2>1, <2>12, StillFits DEF external
  <2>14. Become(t, x)
    BY <2>1, <2>5, <2>7
  <2>15. ThreadsTyped'
    BY <1>4, <2>1, <2>13, <2>14, ThreadGoesOn DEF Typed, external
  <2> QED
    BY <1>4, <2>1, <2>15 DEF Typed, GraphTyped, WellCached, IndexTyped, external
<1> QED
  BY <1>5, <1>6

LEMMA PutTyped ==
    ASSUME Typed, NEW t \in Threads, Put(t)
    PROVE  Typed'
<1>1. PICK r : r = thread[t]
  OBVIOUS
<1>2. r.pc = "put" /\ Fits(t, r) /\ EmbedTyped(r)
  BY <1>1, EmbedHolds DEF Put, Stages
<1>3. PICK i : i = Min(r.todo)
  OBVIOUS
<1>4. i \in 1..Len(r.texts)
  <2>1. r.todo \subseteq 1..Len(r.texts) /\ r.todo # {} /\ Len(r.texts) \in Nat
    BY <1>2 DEF EmbedTyped
  <2>2. r.todo \subseteq Nat
    BY <2>1
  <2> QED
    BY <1>3, <2>1, <2>2, MinIsMember
<1>5. PICK entry : entry = [text |-> r.texts[i], vector |-> r.vectors[i]]
  OBVIOUS
<1>6. r.texts[i] \in AllTexts /\ r.vectors[i] = VectorOf(r.texts[i])
  BY <1>2, <1>4 DEF EmbedTyped
<1>7. entry \in [text : AllTexts, vector : AllTexts] /\ entry.vector = VectorOf(entry.text)
  BY <1>5, <1>6, VectorsExist
<1>8. /\ cache' = Stored(entry) /\ Become(t, [r EXCEPT !.pc = "trim"])
      /\ UNCHANGED <<external, offset, index, indexedOrgs, dead, newest>>
  BY <1>1, <1>3, <1>5 DEF Put
<1>9. WellCached(cache)'
  <2>1. WellCached(Stored(entry))
    BY <1>7, StoredKeeps DEF Typed
  <2> QED
    BY <1>8, <2>1 DEF WellCached
<1>10. PICK x : x = [r EXCEPT !.pc = "trim"]
  OBVIOUS
<1>11. /\ DOMAIN x = Fields /\ x.goal = r.goal /\ x.org = r.org /\ x.texts = r.texts
       /\ x.pc = "trim" /\ x.todo = r.todo /\ x.vectors = r.vectors
  BY <1>2, <1>10 DEF Fits, Fields
<1>12. EmbedTyped(x)
  BY <1>2, <1>11 DEF EmbedTyped
<1>13. Fits(t, x)
  BY <1>2, <1>11, <1>12 DEF Fits, ConsumerTyped, ClientTyped, Stages
<1>14. Fits(t, x)'
  BY <1>8, <1>13, StillFits DEF external
<1>15. ThreadsTyped'
  BY <1>8, <1>10, <1>14, ThreadGoesOn DEF Typed, external
<1> QED
  BY <1>8, <1>9, <1>15 DEF Typed, GraphTyped, IndexTyped, external

LEMMA TrimTyped ==
    ASSUME Typed, NEW t \in Threads, Trim(t)
    PROVE  Typed'
<1>1. PICK r : r = thread[t]
  OBVIOUS
<1>2. r.pc = "trim" /\ Fits(t, r) /\ EmbedTyped(r)
  BY <1>1, EmbedHolds DEF Trim, Stages
<1>3. PICK i : i = Min(r.todo)
  OBVIOUS
<1>4. PICK text : text = r.texts[i]
  OBVIOUS
<1>5. UNCHANGED <<external, index, indexedOrgs, newest>>
  BY DEF Trim
<1>6. CASE Cached(text)
  <2>1. /\ cache' = IF Len(cache) > CacheSize THEN Evicted(MovedToEnd(text))
                    ELSE MovedToEnd(text)
        /\ Become(t, [r EXCEPT !.todo = @ \ {i},
                               !.pc = IF r.todo = {i} THEN "embedded" ELSE "put"])
        /\ UNCHANGED <<offset, dead>>
    BY <1>1, <1>3, <1>4, <1>6 DEF Trim
  <2>2. WellCached(cache)'
    <3>1. WellCached(MovedToEnd(text)) /\ Len(MovedToEnd(text)) = Len(cache)
      BY <1>6, MovedKeeps DEF Typed
    <3>2. CASE Len(cache) > CacheSize
      <4>1. WellCached(Evicted(MovedToEnd(text)))
        BY <3>1, <3>2, EvictedFits
      <4> QED
        BY <2>1, <3>2, <4>1 DEF WellCached
    <3>3. CASE ~(Len(cache) > CacheSize)
      BY <2>1, <3>1, <3>3 DEF WellCached
    <3> QED
      BY <3>2, <3>3
  <2>3. PICK x : x = [r EXCEPT !.todo = @ \ {i},
                               !.pc = IF r.todo = {i} THEN "embedded" ELSE "put"]
    OBVIOUS
  <2>4. /\ DOMAIN x = Fields /\ x.goal = r.goal /\ x.org = r.org /\ x.texts = r.texts
        /\ x.pc = (IF r.todo = {i} THEN "embedded" ELSE "put") /\ x.todo = r.todo \ {i}
        /\ x.vectors = r.vectors
    BY <1>2, <2>3 DEF Fits, Fields
  <2>5. EmbedTyped(x)
    BY <1>2, <2>4 DEF EmbedTyped
  <2>6. Fits(t, x)
    BY <1>2, <2>4, <2>5 DEF Fits, ConsumerTyped, ClientTyped, Stages
  <2>7. Fits(t, x)'
    BY <1>5, <2>1, <2>6, StillFits DEF external
  <2>8. ThreadsTyped'
    BY <1>5, <2>1, <2>3, <2>7, ThreadGoesOn DEF Typed, external
  <2> QED
    BY <1>5, <2>1, <2>2, <2>8 DEF Typed, GraphTyped, IndexTyped, external
<1>7. CASE ~Cached(text)
  <2>1. Raise(t) /\ UNCHANGED cache
    BY <1>1, <1>3, <1>4, <1>7 DEF Trim
  <2>2. GraphTyped' /\ ThreadsTyped'
    BY <1>1, <1>2, <1>5, <2>1, RaiseTyped
  <2> QED
    BY <1>5, <2>1, <2>2 DEF Typed, WellCached, IndexTyped, external
<1> QED
  BY <1>6, <1>7

-----------------------------------------------------------------------------
(* The steps of indexing and of the requests keep the types *)

\* The texts of a set of ids: of each node that the graph has, as it has it now.
LEMMA TextsRead ==
    ASSUME GraphTyped, NEW S, S \subseteq Nodes
    PROVE  /\ Texts(S) \in Seq(AllTexts)
           /\ \A i \in 1..Len(Texts(S)) :
                 LET text == Texts(S)[i]
                 IN text \in NodeTexts /\ text[1] \in S /\ text[2] = graph[text[1]] /\ text[2] # 0
           /\ \A n \in S : graph[n] # 0 => \E i \in 1..Len(Texts(S)) : Texts(S)[i][1] = n
<1>1. Present(S) \subseteq S /\ Present(S) \in SUBSET Nodes
  BY DEF Present
<1>2. IsFiniteSet(Present(S))
  BY <1>1, OrgsAssumption, FS_Subset
<1>3. PICK found : found = SetToSeq(Present(S))
  OBVIOUS
<1>4. /\ found \in Seq(Present(S)) /\ Len(found) \in Nat
      /\ \A n \in Present(S) : \E i \in 1..Len(found) : found[i] = n
  BY <1>2, <1>3, Listed
<1>5. PICK texts : texts = [i \in 1..Len(found) |-> <<found[i], graph[found[i]]>>]
  OBVIOUS
<1>6. Texts(S) = texts
  BY <1>3, <1>5 DEF Texts
<1>7. \A i \in 1..Len(found) :
         /\ found[i] \in S /\ found[i] \in Nodes /\ graph[found[i]] \in 0..MaxVersion
         /\ graph[found[i]] # 0
  <2>1. \A i \in 1..Len(found) : found[i] \in Present(S)
    BY <1>4
  <2>2. \A n \in Present(S) : n \in S /\ n \in Nodes /\ graph[n] # 0
    BY <1>1 DEF Present
  <2>3. \A n \in Nodes : graph[n] \in 0..MaxVersion
    BY DEF GraphTyped
  <2> QED
    BY <2>1, <2>2, <2>3
<1>8. \A i \in 1..Len(found) :
         /\ texts[i] \in NodeTexts /\ texts[i][1] = found[i] /\ texts[i][2] = graph[found[i]]
  BY <1>5, <1>7 DEF NodeTexts
<1>9. Len(texts) = Len(found) /\ texts \in Seq(AllTexts)
  <2>1. \A i \in 1..Len(found) : texts[i] \in AllTexts
    BY <1>8 DEF AllTexts
  <2> HIDE DEF AllTexts
  <2> QED
    BY <1>4, <1>5, <2>1
<1>10. \A n \in S : graph[n] # 0 => \E i \in 1..Len(found) : texts[i][1] = n
  BY <1>4, <1>8 DEF Present
<1>11. \A i \in 1..Len(texts) : texts[i] \in NodeTexts /\ texts[i][1] \in S
                                /\ texts[i][2] = graph[texts[i][1]] /\ texts[i][2] # 0
  BY <1>7, <1>8, <1>9
<1> QED
  BY <1>6, <1>9, <1>10, <1>11

\* A thread in state r begins to embed what it has read of the nodes of S.
LEMMA ReadTyped ==
    ASSUME Typed, NEW t \in Threads, NEW S, S \subseteq Nodes,
           Fits(t, thread[t]), thread[t].goal = "index",
           t = Consumer => offset < Len(changes), t \in Client => thread[t].org \in Orgs,
           Local(t, StartEmbed(thread[t], Texts(S)))
    PROVE  Typed'
<1>1. PICK texts : texts = Texts(S)
  OBVIOUS
<1>2. /\ texts \in Seq(AllTexts)
      /\ \A i \in 1..Len(texts) : texts[i] \in NodeTexts /\ texts[i][2] = graph[texts[i][1]]
  BY <1>1, TextsRead DEF Typed
<1>3. \A i \in 1..Len(texts) : texts[i][2] <= graph[texts[i][1]]
  BY <1>2 DEF Typed, GraphTyped, NodeTexts
<1>4. PICK r : r = thread[t]
  OBVIOUS
<1>5. Fits(t, StartEmbed(r, texts))
  <2>1. DOMAIN r = Fields /\ r.goal = "index" /\ (t \in Client => r.org \in Orgs)
    BY <1>4 DEF Fits
  <2>2. \A i \in 1..Len(texts) : texts[i] \in NodeTexts /\ texts[i][2] <= graph[texts[i][1]]
    BY <1>2, <1>3
  <2> QED
    BY <1>2, <2>1, <2>2, StartEmbedFits
<1>6. PICK x : x = StartEmbed(r, texts)
  OBVIOUS
<1> QED
  BY <1>1, <1>4, <1>5, <1>6, LocalTyped

LEMMA PollTyped ==
    ASSUME Typed, NEW t \in Threads, Poll(t)
    PROVE  Typed'
<1>1. PICK x : x = [Idle EXCEPT !.pc = "fetch", !.attempt = 1]
  OBVIOUS
<1>2. DOMAIN x = Fields /\ x.pc = "fetch" /\ x.goal = "index"
  BY <1>1 DEF Idle, Fields
<1>3. t = Consumer /\ t \notin Client /\ offset < Len(changes) /\ Local(t, x)
  BY <1>1, ThreadsAssumption DEF Poll
<1>4. Fits(t, x)
  BY <1>2, <1>3 DEF Fits, ConsumerTyped, Stages
<1> QED
  BY <1>3, <1>4, LocalTyped

LEMMA FetchTyped ==
    ASSUME Typed, NEW t \in Threads, Fetch(t)
    PROVE  Typed'
<1>1. Fits(t, thread[t]) /\ thread[t].pc = "fetch"
  BY DEF Typed, ThreadsTyped, Fetch
<1>2. t = Consumer /\ t \notin Client
  BY <1>1, ThreadsAssumption DEF Fits, ClientTyped, Stages, Threads
<1>3. offset < Len(changes) /\ thread[t].goal = "index"
  BY <1>1, <1>2 DEF Fits, ConsumerTyped
<1>4. changes[offset + 1] \subseteq Nodes
  BY <1>3 DEF Typed, GraphTyped
<1> QED
  BY <1>1, <1>2, <1>3, <1>4, ReadTyped DEF Fetch

LEMMA EnsureTyped ==
    ASSUME Typed, NEW t \in Threads, Ensure(t)
    PROVE  Typed'
<1>1. Fits(t, thread[t]) /\ thread[t].pc = "ensure"
  BY DEF Typed, ThreadsTyped, Ensure
<1>2. t # Consumer /\ t \in Client
  BY <1>1 DEF Fits, ConsumerTyped, Stages, Threads
<1>3. thread[t].org \in Orgs /\ thread[t].goal = "index"
  BY <1>1, <1>2 DEF Fits, ClientTyped
<1>4. CASE thread[t].org \in indexedOrgs
  <2>1. PICK x : x = [thread[t] EXCEPT !.pc = "ready"]
    OBVIOUS
  <2>2. DOMAIN x = Fields /\ x.pc = "ready" /\ x.goal = "index" /\ x.org \in Orgs
    BY <1>1, <1>3, <2>1 DEF Fits, Fields
  <2>3. Fits(t, x)
    BY <1>2, <2>2 DEF Fits, ClientTyped, Stages
  <2> QED
    BY <1>4, <2>1, <2>3, LocalTyped DEF Ensure
<1>5. CASE thread[t].org \notin indexedOrgs
  <2>1. NodesOf(thread[t].org) \subseteq Nodes
    BY DEF NodesOf
  <2> QED
    BY <1>1, <1>2, <1>3, <1>5, <2>1, ReadTyped DEF Ensure
<1> QED
  BY <1>4, <1>5

LEMMA RequestTyped ==
    ASSUME Typed, NEW t \in Client, NEW org \in Orgs \cup {None}, Request(t, org)
    PROVE  Typed'
<1>1. t # Consumer /\ t \in Threads
  BY ThreadsAssumption DEF Threads
<1>2. CASE org = None
  <2>1. PICK x : x = [Idle EXCEPT !.pc = "answered"]
    OBVIOUS
  <2>2. DOMAIN x = Fields /\ x.pc = "answered"
    BY <2>1 DEF Idle, Fields
  <2>3. Fits(t, x)
    BY <1>1, <2>2 DEF Fits, ClientTyped, Stages
  <2> QED
    BY <1>1, <1>2, <2>1, <2>3, LocalTyped DEF Request
<1>3. CASE org # None
  <2>1. PICK x : x = [Idle EXCEPT !.pc = "ensure", !.org = org]
    OBVIOUS
  <2>2. DOMAIN x = Fields /\ x.pc = "ensure" /\ x.org \in Orgs /\ x.goal = "index"
    BY <1>3, <2>1 DEF Idle, Fields
  <2>3. Fits(t, x)
    BY <1>1, <2>2 DEF Fits, ClientTyped, Stages
  <2> QED
    BY <1>1, <1>3, <2>1, <2>3, LocalTyped DEF Request
<1> QED
  BY <1>2, <1>3

LEMMA KeywordTyped ==
    ASSUME Typed, NEW t \in Threads, Keyword(t)
    PROVE  Typed'
<1>1. Fits(t, thread[t]) /\ thread[t].pc = "ready"
  BY DEF Typed, ThreadsTyped, Keyword
<1>2. t # Consumer /\ t \in Client /\ thread[t].org \in Orgs
  BY <1>1 DEF Fits, ConsumerTyped, ClientTyped, Stages, Threads
<1>3. PICK hits : Local(t, StartEmbed([thread[t] EXCEPT !.keyword = hits, !.goal = "query"],
                                      <<Query>>))
  BY DEF Keyword
<1>4. PICK r : r = [thread[t] EXCEPT !.keyword = hits, !.goal = "query"]
  OBVIOUS
<1>5. DOMAIN r = Fields /\ r.goal = "query" /\ r.org \in Orgs
  BY <1>1, <1>2, <1>4 DEF Fits, Fields
<1>6. <<Query>> \in Seq(AllTexts)
  BY DEF AllTexts
<1>7. Fits(t, StartEmbed(r, <<Query>>))
  BY <1>2, <1>5, <1>6, StartEmbedFits
<1>8. PICK x : x = StartEmbed(r, <<Query>>)
  OBVIOUS
<1> QED
  BY <1>3, <1>4, <1>7, <1>8, LocalTyped

\* A request is answered: by the vector arm or by the size of the index.
LEMMA AnswerTyped ==
    ASSUME Typed, NEW t \in Threads, VectorSearch(t) \/ Count(t)
    PROVE  Typed'
<1>1. Fits(t, thread[t]) /\ thread[t].pc \in {"embedded", "ready"}
  BY DEF Typed, ThreadsTyped, VectorSearch, Count
<1>2. VectorSearch(t) => thread[t].goal = "query"
  BY DEF VectorSearch
<1>3. t # Consumer
  BY <1>1, <1>2 DEF Fits, ConsumerTyped, Stages, Count
<1>4. PICK x : DOMAIN x = Fields /\ x.pc = "answered" /\ Local(t, x)
  <2>1. CASE Count(t)
    <3>1. PICK x : x = [Idle EXCEPT !.pc = "answered", !.goal = "stats"]
      OBVIOUS
    <3>2. DOMAIN x = Fields /\ x.pc = "answered"
      BY <3>1 DEF Idle, Fields
    <3> QED
      BY <2>1, <3>1, <3>2 DEF Count
  <2>2. CASE VectorSearch(t)
    <3>1. PICK answer : Local(t, [Idle EXCEPT !.pc = "answered", !.goal = "search",
                                              !.answer = answer])
      BY <2>2 DEF VectorSearch
    <3>2. PICK x : x = [Idle EXCEPT !.pc = "answered", !.goal = "search", !.answer = answer]
      OBVIOUS
    <3>3. DOMAIN x = Fields /\ x.pc = "answered"
      BY <3>2 DEF Idle, Fields
    <3> QED
      BY <3>1, <3>2, <3>3
  <2> QED
    BY <2>1, <2>2
<1>5. Fits(t, x)
  BY <1>3, <1>4 DEF Fits, ClientTyped, Stages
<1> QED
  BY <1>4, <1>5, LocalTyped

\* What an upsert makes of the point of a node: that of one of its texts in the batch, or
\* what it was; and of the newest text it ever had.
LEMMA Upserted ==
    ASSUME Typed, NEW t \in Threads, Upsert(t)
    PROVE  /\ thread[t].pc = "embedded" /\ thread[t].goal = "index" /\ EmbedTyped(thread[t])
           /\ DOMAIN index' = Nodes /\ newest' = [n \in Nodes |-> newest'[n]]
           /\ \A n \in Nodes :
                 \/ /\ index'[n] = index[n] /\ newest'[n] = newest[n]
                    /\ \A i \in 1..Len(thread[t].texts) : thread[t].texts[i][1] # n
                 \/ \E i \in 1..Len(thread[t].texts) :
                       /\ thread[t].texts[i][1] = n
                       /\ index'[n] # NoPoint /\ index'[n].text = thread[t].texts[i]
                       /\ index'[n] \in [text : NodeTexts, vector : AllTexts]
                       /\ index'[n].vector = VectorOf(index'[n].text)
                       /\ index'[n].text[1] = n
                       /\ newest'[n] = IF thread[t].texts[i][2] > newest[n]
                                       THEN thread[t].texts[i][2] ELSE newest[n]
<1>1. PICK r : r = thread[t]
  OBVIOUS
<1>2. r.pc = "embedded" /\ r.goal = "index" /\ EmbedTyped(r)
  BY <1>1, EmbedHolds DEF Upsert, Stages
<1>3. index' = WithPoints(r.texts, r.vectors)
  BY <1>1 DEF Upsert
<1>4. newest' = [n \in Nodes |-> IF index'[n] # NoPoint /\ index'[n].text[2] > newest[n]
                                 THEN index'[n].text[2] ELSE newest[n]]
  BY DEF Upsert
<1>5. ASSUME NEW n \in Nodes, \A i \in 1..Len(r.texts) : r.texts[i][1] # n
      PROVE  index'[n] = index[n] /\ newest'[n] = newest[n]
  <2>1. {i \in 1..Len(r.texts) : r.texts[i][1] = n} = {}
    BY <1>5
  <2>2. index'[n] = index[n]
    BY <1>3, <2>1 DEF WithPoints
  <2>3. index[n] # NoPoint =>
           index[n].text \in NodeTexts /\ index[n].text[2] <= newest[n]
    BY DEF Typed, IndexTyped
  <2>4. newest[n] \in Nat
    BY BoundsAssumption DEF Typed, GraphTyped
  <2>5. index[n] # NoPoint => ~(index[n].text[2] > newest[n])
    BY <2>3, <2>4 DEF NodeTexts
  <2> QED
    BY <1>4, <2>2, <2>5
<1>6. ASSUME NEW n \in Nodes, ~ \A i \in 1..Len(r.texts) : r.texts[i][1] # n
      PROVE  \E i \in 1..Len(r.texts) :
                /\ r.texts[i][1] = n
                /\ index'[n] # NoPoint /\ index'[n].text = r.texts[i]
                /\ index'[n] \in [text : NodeTexts, vector : AllTexts]
                /\ index'[n].vector = VectorOf(index'[n].text) /\ index'[n].text[1] = n
                /\ newest'[n] = IF r.texts[i][2] > newest[n] THEN r.texts[i][2] ELSE newest[n]
  <2>1. PICK is : is = {i \in 1..Len(r.texts) : r.texts[i][1] = n}
    OBVIOUS
  <2>2. is # {}
    BY <1>6, <2>1
  <2>3. PICK i \in is : index'[n] = [text |-> r.texts[i], vector |-> r.vectors[i]]
    BY <1>3, <2>1, <2>2 DEF WithPoints
  <2>4. /\ i \in 1..Len(r.texts) /\ r.texts[i][1] = n
        /\ r.texts[i] \in NodeTexts /\ r.texts[i] \in AllTexts
        /\ r.vectors[i] = VectorOf(r.texts[i])
    BY <1>2, <2>1 DEF EmbedTyped, AllTexts
  <2>5. /\ index'[n].text = r.texts[i] /\ index'[n].vector = VectorOf(r.texts[i])
        /\ index'[n] \in [text : NodeTexts, vector : AllTexts]
    BY <2>3, <2>4, VectorsExist
  <2>6. index'[n] # NoPoint
    BY <2>4, <2>5, TextsAssumption DEF NoPoint, NodeTexts
  <2> QED
    BY <1>4, <2>4, <2>5, <2>6
<1>7. DOMAIN index' = Nodes /\ newest' = [n \in Nodes |-> newest'[n]]
  <2>1. DOMAIN index' = Nodes
    BY <1>3 DEF WithPoints
  <2>2. PICK new : new = [n \in Nodes |-> IF index'[n] # NoPoint /\ index'[n].text[2] > newest[n]
                                          THEN index'[n].text[2] ELSE newest[n]]
    OBVIOUS
  <2>3. new = [n \in Nodes |-> new[n]]
    BY <2>2
  <2>4. newest' = new
    BY <1>4, <2>2
  <2> QED
    BY <2>1, <2>3, <2>4
<1> QED
  BY <1>1, <1>2, <1>5, <1>6, <1>7

LEMMA UpsertTyped ==
    ASSUME Typed, NEW t \in Threads, Upsert(t)
    PROVE  Typed'
<1>1. PICK r : r = thread[t]
  OBVIOUS
<1>2. UNCHANGED <<external, offset, cache, indexedOrgs, dead>>
  BY DEF Upsert
<1>3. r.pc = "embedded" /\ r.goal = "index" /\ EmbedTyped(r) /\ Fits(t, r)
  BY <1>1, Upserted DEF Typed, ThreadsTyped
<1>4. IndexTyped' /\ newest' \in [Nodes -> 0..MaxVersion]
  <2>1. DOMAIN index' = Nodes /\ newest' = [n \in Nodes |-> newest'[n]]
    BY Upserted
  <2>2. ASSUME NEW n \in Nodes
        PROVE  /\ newest'[n] <= graph[n] /\ newest'[n] \in 0..MaxVersion
               /\ index'[n] # NoPoint =>
                     /\ index'[n] \in [text : NodeTexts, vector : AllTexts]
                     /\ index'[n].vector = VectorOf(index'[n].text)
                     /\ index'[n].text[1] = n /\ index'[n].text[2] <= newest'[n]
    <3>1. newest[n] <= graph[n] /\ newest[n] \in 0..MaxVersion /\ graph[n] \in 0..MaxVersion
      BY DEF Typed, GraphTyped, IndexTyped
    <3>2. CASE index'[n] = index[n] /\ newest'[n] = newest[n]
      BY <3>1, <3>2 DEF Typed, IndexTyped
    <3>3. CASE ~(index'[n] = index[n] /\ newest'[n] = newest[n])
      <4>1. PICK i \in 1..Len(r.texts) :
               /\ r.texts[i][1] = n
               /\ index'[n] # NoPoint /\ index'[n].text = r.texts[i]
               /\ index'[n] \in [text : NodeTexts, vector : AllTexts]
               /\ index'[n].vector = VectorOf(index'[n].text) /\ index'[n].text[1] = n
               /\ newest'[n] = IF r.texts[i][2] > newest[n] THEN r.texts[i][2] ELSE newest[n]
        BY <1>1, <3>3, Upserted
      <4>2. r.texts[i] \in NodeTexts /\ r.texts[i][2] <= graph[n]
        BY <1>3, <4>1 DEF EmbedTyped
      <4>3. r.texts[i][2] \in 0..MaxVersion
        BY <4>2 DEF NodeTexts
      <4>4. /\ newest'[n] <= graph[n] /\ newest'[n] \in 0..MaxVersion
            /\ r.texts[i][2] <= newest'[n]
        BY <3>1, <4>1, <4>2, <4>3, BoundsAssumption
      <4> QED
        BY <4>1, <4>4
    <3> QED
      BY <3>2, <3>3
  <2>3. graph' = graph
    BY <1>2 DEF external
  <2> QED
    BY <2>1, <2>2, <2>3 DEF IndexTyped
<1>5. PICK x : x = [Idle EXCEPT !.pc = "upserted", !.org = r.org]
  OBVIOUS
<1>6. DOMAIN x = Fields /\ x.pc = "upserted" /\ x.goal = "index" /\ x.org = r.org
  BY <1>5 DEF Idle, Fields
<1>7. Fits(t, x)
  BY <1>3, <1>6 DEF Fits, ConsumerTyped, ClientTyped, Stages
<1>8. Fits(t, x)'
  BY <1>2, <1>7, StillFits DEF external
<1>9. ThreadsTyped'
  BY <1>1, <1>2, <1>5, <1>8, ThreadGoesOn DEF Typed, external, Upsert
<1> QED
  BY <1>2, <1>4, <1>9 DEF Typed, GraphTyped, WellCached, external

LEMMA CommitTyped ==
    ASSUME Typed, NEW t \in Threads, Commit(t)
    PROVE  Typed'
<1>1. t = Consumer /\ t \notin Client /\ thread[t].pc = "upserted"
  BY ThreadsAssumption DEF Commit
<1>2. offset < Len(changes)
  BY <1>1 DEF Typed, ThreadsTyped, Fits, ConsumerTyped
<1>3. /\ offset' = offset + 1 /\ Become(t, Idle)
      /\ UNCHANGED <<external, index, cache, indexedOrgs, dead, newest>>
  BY DEF Commit
<1>4. PICK x : x = Idle
  OBVIOUS
<1>5. Fits(t, x)'
  BY <1>1, <1>4, IdleFields DEF Fits, ConsumerTyped, Stages
<1>6. ThreadsTyped'
  BY <1>1, <1>3, <1>4, <1>5, ThreadGoesOn DEF Typed, external
<1>7. GraphTyped'
  BY <1>2, <1>3 DEF Typed, GraphTyped, external
<1> QED
  BY <1>3, <1>6, <1>7 DEF Typed, WellCached, IndexTyped, external

LEMMA MarkIndexedTyped ==
    ASSUME Typed, NEW t \in Threads, MarkIndexed(t)
    PROVE  Typed'
<1>1. t \in Client /\ t # Consumer /\ thread[t].pc = "upserted"
  BY ThreadsAssumption DEF MarkIndexed
<1>2. PICK org : org = thread[t].org
  OBVIOUS
<1>3. org \in Orgs
  BY <1>1, <1>2 DEF Typed, ThreadsTyped, Fits, ClientTyped
<1>4. /\ indexedOrgs' = indexedOrgs \cup {org}
      /\ Become(t, [Idle EXCEPT !.pc = "ready", !.org = org])
      /\ UNCHANGED <<external, offset, index, cache, dead, newest>>
  BY <1>2 DEF MarkIndexed
<1>5. PICK x : x = [Idle EXCEPT !.pc = "ready", !.org = org]
  OBVIOUS
<1>6. DOMAIN x = Fields /\ x.pc = "ready" /\ x.goal = "index" /\ x.org = org
  BY <1>5 DEF Idle, Fields
<1>7. Fits(t, x)
  BY <1>1, <1>3, <1>6 DEF Fits, ClientTyped, Stages
<1>8. Fits(t, x)'
  BY <1>4, <1>7, StillFits DEF external
<1>9. ThreadsTyped'
  BY <1>4, <1>5, <1>8, ThreadGoesOn DEF Typed, external
<1>10. GraphTyped'
  BY <1>3, <1>4 DEF Typed, GraphTyped, external
<1> QED
  BY <1>4, <1>9, <1>10 DEF Typed, WellCached, IndexTyped, external

-----------------------------------------------------------------------------
(* The graph and the process keep the types *)

\* A node that is written has at least the version it had.
LEMMA WriteTyped ==
    ASSUME Typed, NEW n \in Nodes, Write(n)
    PROVE  Typed'
<1>1. graph[n] < MaxVersion /\ graph[n] \in 0..MaxVersion /\ MaxVersion \in Nat
  BY BoundsAssumption DEF Write, Typed, GraphTyped
<1>2. /\ graph' = [graph EXCEPT ![n] = @ + 1] /\ unannounced' = unannounced \cup {n}
      /\ UNCHANGED <<changes, offset, index, cache, indexedOrgs, thread, dead, newest>>
  BY DEF Write
<1>3. \A m \in Nodes : /\ graph[m] \in 0..MaxVersion /\ graph'[m] \in 0..MaxVersion
                       /\ graph[m] <= graph'[m] /\ (graph'[m] = 0 => graph[m] = 0)
                       /\ (m = n => graph'[m] # 0)
  BY <1>1, <1>2 DEF Typed, GraphTyped
<1>4. GraphTyped'
  <2>1. graph' \in [Nodes -> 0..MaxVersion]
    BY <1>1, <1>2 DEF Typed, GraphTyped
  <2>2. unannounced' \subseteq Nodes /\ \A m \in unannounced' : graph'[m] # 0
    BY <1>2, <1>3 DEF Typed, GraphTyped
  <2>3. \A i \in 1..Len(changes) : \A m \in changes[i] : m \in Nodes /\ graph'[m] # 0
    BY <1>3 DEF Typed, GraphTyped
  <2> QED
    BY <1>2, <2>1, <2>2, <2>3 DEF Typed, GraphTyped
<1>5. IndexTyped'
  <2>1. \A m \in Nodes : newest[m] \in 0..MaxVersion /\ newest[m] <= graph[m]
    BY DEF Typed, GraphTyped, IndexTyped
  <2>2. \A m \in Nodes : newest[m] <= graph'[m]
    BY <1>1, <1>3, <2>1
  <2> QED
    BY <1>2, <2>2 DEF Typed, IndexTyped
<1>6. ASSUME NEW u \in Threads PROVE Fits(u, thread[u])'
  <2>1. PICK r : r = thread[u]
    OBVIOUS
  <2>2. Fits(u, r)
    BY <2>1 DEF Typed, ThreadsTyped
  <2>3. r.pc \in Stages => EmbedTyped(r)'
    <3> SUFFICES ASSUME r.pc \in Stages PROVE EmbedTyped(r)'
      OBVIOUS
    <3>1. EmbedTyped(r)
      BY <2>2 DEF Fits
    <3>2. ASSUME r.goal = "index", NEW i \in 1..Len(r.texts)
          PROVE  r.texts[i] \in NodeTexts /\ r.texts[i][2] <= graph'[r.texts[i][1]]
      <4>1. r.texts[i] \in NodeTexts /\ r.texts[i][2] <= graph[r.texts[i][1]]
        BY <3>1, <3>2 DEF EmbedTyped
      <4>2. r.texts[i][1] \in Nodes /\ r.texts[i][2] \in 0..MaxVersion
        BY <4>1 DEF NodeTexts
      <4> QED
        BY <1>1, <1>3, <4>1, <4>2
    <3> QED
      BY <3>1, <3>2 DEF EmbedTyped
  <2>4. Fits(u, r)'
    BY <1>2, <2>2, <2>3 DEF Fits, ConsumerTyped, ClientTyped
  <2> QED
    BY <1>2, <2>1, <2>4
<1>7. ThreadsTyped'
  BY <1>2, <1>6 DEF Typed, ThreadsTyped
<1> QED
  BY <1>2, <1>4, <1>5, <1>7 DEF Typed, WellCached

LEMMA AnnounceTyped ==
    ASSUME Typed, Announce
    PROVE  Typed'
<1>1. /\ changes' = Append(changes, unannounced) /\ unannounced' = {}
      /\ UNCHANGED <<graph, offset, index, cache, indexedOrgs, thread, dead, newest>>
  BY DEF Announce
<1>2. /\ changes \in Seq(SUBSET Nodes) /\ unannounced \in SUBSET Nodes
      /\ Len(changes) \in Nat /\ offset \in 0..Len(changes)
  BY DEF Typed, GraphTyped
<1>3. PICK c : c = Append(changes, unannounced)
  OBVIOUS
<1>4. /\ c \in Seq(SUBSET Nodes) /\ Len(c) = Len(changes) + 1
      /\ \A i \in 1..Len(changes) : c[i] = changes[i]
      /\ c[Len(changes) + 1] = unannounced
  BY <1>2, <1>3
<1>5. \A i \in 1..Len(c) : \A m \in c[i] : graph[m] # 0
  <2>1. \A i \in 1..Len(c) : i \in 1..Len(changes) \/ i = Len(changes) + 1
    BY <1>2, <1>4
  <2> QED
    BY <1>4, <2>1 DEF Typed, GraphTyped
<1>6. GraphTyped'
  <2>1. offset \in 0..Len(c)
    BY <1>2, <1>4
  <2> QED
    BY <1>1, <1>3, <1>4, <1>5, <2>1 DEF Typed, GraphTyped
<1>7. ASSUME NEW u \in Threads PROVE Fits(u, thread[u])'
  <2>1. PICK r : r = thread[u]
    OBVIOUS
  <2>2. Fits(u, r)
    BY <2>1 DEF Typed, ThreadsTyped
  <2>3. ConsumerTyped(r) => ConsumerTyped(r)'
    BY <1>1, <1>2, <1>3, <1>4 DEF ConsumerTyped
  <2>4. EmbedTyped(r) => EmbedTyped(r)'
    BY <1>1 DEF EmbedTyped
  <2>5. Fits(u, r)'
    BY <2>2, <2>3, <2>4 DEF Fits, ClientTyped
  <2> QED
    BY <1>1, <2>1, <2>5
<1>8. ThreadsTyped'
  BY <1>1, <1>7 DEF Typed, ThreadsTyped
<1> QED
  BY <1>1, <1>6, <1>8 DEF Typed, WellCached, IndexTyped

LEMMA RestartTyped ==
    ASSUME Typed, Restart
    PROVE  Typed'
<1>1. /\ cache' = <<>> /\ indexedOrgs' = {} /\ UNCHANGED <<external, offset, dead>>
      /\ index' = IF Durable THEN index ELSE EmptyIndex
      /\ newest' = IF Durable THEN newest ELSE [n \in Nodes |-> 0]
      /\ thread' = [t \in Threads |-> IF thread[t].pc = "answered" THEN thread[t] ELSE Idle]
  BY DEF Restart, Reopened
<1>2. UNCHANGED <<graph, unannounced, changes>>
  BY <1>1 DEF external
<1>3. newest' \in [Nodes -> 0..MaxVersion] /\ IndexTyped'
  <2>1. CASE Durable
    BY <1>1, <1>2, <2>1 DEF Typed, GraphTyped, IndexTyped
  <2>2. CASE ~Durable
    <3>1. newest' = [n \in Nodes |-> 0] /\ index' = [n \in Nodes |-> NoPoint]
      BY <1>1, <2>2 DEF EmptyIndex
    <3>2. \A n \in Nodes : 0 <= graph[n] /\ 0 \in 0..MaxVersion
      BY BoundsAssumption DEF Typed, GraphTyped
    <3>3. newest' \in [Nodes -> 0..MaxVersion]
      BY <3>1, BoundsAssumption
    <3> QED
      BY <1>2, <3>1, <3>2, <3>3 DEF IndexTyped
  <2> QED
    BY <2>1, <2>2
<1>4. GraphTyped'
  BY <1>1, <1>2, <1>3 DEF Typed, GraphTyped
<1>5. WellCached(cache)'
  BY <1>1 DEF WellCached
<1>6. ASSUME NEW u \in Threads PROVE Fits(u, thread[u])'
  <2>1. PICK r : r = thread[u]
    OBVIOUS
  <2>2. Fits(u, r) /\ Fits(u, Idle)
    BY <2>1, IdleFits DEF Typed, ThreadsTyped
  <2>3. PICK i : i = Idle
    OBVIOUS
  <2>4. Fits(u, r)' /\ Fits(u, i)'
    BY <1>1, <1>2, <2>2, <2>3, StillFits
  <2>5. thread'[u] = r \/ thread'[u] = i
    BY <1>1, <2>1, <2>3
  <2> QED
    BY <2>4, <2>5
<1>7. ThreadsTyped'
  <2>1. PICK f : f = [t \in Threads |-> IF thread[t].pc = "answered" THEN thread[t] ELSE Idle]
    OBVIOUS
  <2>2. f = [t \in Threads |-> f[t]]
    BY <2>1
  <2>3. thread' = f
    BY <1>1, <2>1
  <2>4. thread' = [t \in Threads |-> thread'[t]]
    BY <2>2, <2>3
  <2> QED
    BY <1>6, <2>4 DEF ThreadsTyped
<1> QED
  BY <1>3, <1>4, <1>5, <1>7 DEF Typed

LEMMA TypedInit == Init => Typed
<1> SUFFICES ASSUME Init PROVE Typed
  OBVIOUS
<1>1. GraphTyped
  <2>1. graph \in [Nodes -> 0..MaxVersion]
    BY BoundsAssumption DEF Init
  <2>2. newest \in [Nodes -> 0..MaxVersion]
    BY BoundsAssumption DEF Init
  <2>3. changes \in Seq(SUBSET Nodes) /\ Len(changes) = 0 /\ offset = 0
    BY DEF Init
  <2> QED
    BY <2>1, <2>2, <2>3 DEF Init, GraphTyped
<1>2. WellCached(cache)
  BY DEF Init, WellCached
<1>3. IndexTyped
  <2>1. \A n \in Nodes : graph[n] \in Nat /\ newest[n] = 0 /\ index[n] = NoPoint
    BY DEF Init, EmptyIndex
  <2> QED
    BY <2>1 DEF Init, EmptyIndex, IndexTyped
<1>4. ThreadsTyped
  BY IdleFits DEF Init, ThreadsTyped
<1> QED
  BY <1>1, <1>2, <1>3, <1>4 DEF Typed

LEMMA TypedStep == Typed /\ [Next]_vars => Typed'
<1> SUFFICES ASSUME Typed, [Next]_vars PROVE Typed'
  OBVIOUS
<1>1. ASSUME NEW n \in Nodes, Write(n) PROVE Typed'
  BY <1>1, WriteTyped
<1>2. CASE Announce \/ Restart
  BY <1>2, AnnounceTyped, RestartTyped
<1>3. ASSUME NEW t \in Client, NEW org \in Orgs \cup {None}, Request(t, org) PROVE Typed'
  BY <1>3, RequestTyped
<1>4. ASSUME NEW t \in Threads, Step(t) PROVE Typed'
  BY <1>4, LookupTyped, TouchTyped, ProviderTyped, PutTyped, TrimTyped, PollTyped, FetchTyped,
     UpsertTyped, CommitTyped, EnsureTyped, MarkIndexedTyped, KeywordTyped, AnswerTyped DEF Step
<1>5. CASE UNCHANGED vars
  BY <1>5 DEF vars, Typed, GraphTyped, WellCached, IndexTyped, ThreadsTyped, Fits, EmbedTyped,
     ConsumerTyped, ClientTyped
<1> QED
  BY <1>1, <1>2, <1>3, <1>4, <1>5 DEF Next

\* A vector in the cache or in the index is that of the text it stands for.
THEOREM VectorsAreOwn == Spec => []VectorsMatchTexts
<1>1. Typed => VectorsMatchTexts
  BY DEF Typed, WellCached, IndexTyped, VectorsMatchTexts
<1> QED
  BY <1>1, TypedInit, TypedStep, PTL DEF Spec

-----------------------------------------------------------------------------
(* The bound of the cache *)

LEMMA OthersKeep ==
    ASSUME Typed, NEW t, NEW x, Become(t, x)
    PROVE  \A u \in Threads : u # t => thread'[u] = thread[u]
  BY DEF Become, Typed, ThreadsTyped

LEMMA RaiseKeepsOthers ==
    ASSUME Typed, NEW t, Raise(t)
    PROVE  \A u \in Threads : u # t => thread'[u] = thread[u]
  BY OthersKeep DEF Raise

\* Nobody else moves in the step of a thread.
LEMMA StepKeepsOthers ==
    ASSUME Typed, NEW t \in Threads, Step(t)
    PROVE  \A u \in Threads : u # t => thread'[u] = thread[u]
<1>1. CASE Lookup(t) \/ Poll(t) \/ Fetch(t) \/ Ensure(t) \/ Keyword(t) \/ VectorSearch(t) \/ Count(t)
  <2>1. PICK x : Become(t, x)
    BY <1>1 DEF Lookup, Poll, Fetch, Ensure, Keyword, VectorSearch, Count, Local
  <2> QED
    BY <2>1, OthersKeep
<1>2. CASE Put(t) \/ Upsert(t) \/ Commit(t) \/ MarkIndexed(t)
  <2>1. PICK x : Become(t, x)
    BY <1>2 DEF Put, Upsert, Commit, MarkIndexed
  <2> QED
    BY <2>1, OthersKeep
<1>3. CASE Touch(t) \/ Provider(t) \/ Trim(t)
  <2>1. Raise(t) \/ \E x : Become(t, x)
    BY <1>3 DEF Touch, Provider, Trim
  <2> QED
    BY <2>1, OthersKeep, RaiseKeepsOthers
<1> QED
  BY <1>1, <1>2, <1>3 DEF Step

LEMMA TrimmingFinite ==
    /\ IsFiniteSet(Trimming) /\ Cardinality(Trimming) \in Nat
    /\ IsFiniteSet(Trimming') /\ Cardinality(Trimming') \in Nat
<1>1. IsFiniteSet(Threads)
  <2>1. IsFiniteSet({Consumer})
    BY FS_Singleton
  <2> QED
    BY <2>1, ThreadsAssumption, FS_Union DEF Threads
<1>2. Trimming \in SUBSET Threads /\ Trimming' \in SUBSET Threads
  BY DEF Trimming, Threads
<1> QED
  BY <1>1, <1>2, FS_Subset, FS_CardinalityType

\* While entries stay and threads in _store stay, a cache that does not grow is in bounds.
LEMMA QuietTrimmed ==
    ASSUME Typed, Typed', Trimmed, Len(cache') <= Len(cache), \A x : Cached(x) => Cached(x)',
           \A u \in Trimming : thread'[u] = thread[u]
    PROVE  Trimmed'
<1>1. Trimming \in SUBSET Trimming'
  <2> SUFFICES ASSUME NEW u \in Trimming PROVE u \in Trimming'
    OBVIOUS
  <2>1. PICK x : x = thread[u].texts[Min(thread[u].todo)]
    OBVIOUS
  <2>2. u \in Threads /\ thread[u].pc = "trim" /\ Cached(x)
    BY <2>1 DEF Trimming
  <2>3. Cached(x)' /\ thread'[u].pc = "trim" /\ x = thread'[u].texts[Min(thread'[u].todo)]
    BY <2>1, <2>2
  <2> QED
    BY <2>2, <2>3 DEF Trimming, Threads
<1>2. Cardinality(Trimming) <= Cardinality(Trimming')
  BY <1>1, TrimmingFinite, FS_Subset
<1>3. Len(cache) \in Nat /\ Len(cache') \in Nat /\ CacheSize \in Nat
  BY BoundsAssumption DEF Typed, WellCached
<1> QED
  BY <1>2, <1>3, TrimmingFinite DEF Trimmed

LEMMA PutTrimmed ==
    ASSUME Typed, Typed', Trimmed, NEW t \in Threads, Put(t)
    PROVE  Trimmed'
<1>1. PICK r : r = thread[t]
  OBVIOUS
<1>2. r.pc = "put" /\ Fits(t, r) /\ EmbedTyped(r)
  BY <1>1, EmbedHolds DEF Put, Stages
<1>3. PICK i : i = Min(r.todo)
  OBVIOUS
<1>4. i \in 1..Len(r.texts)
  <2>1. r.todo \subseteq 1..Len(r.texts) /\ r.todo # {} /\ Len(r.texts) \in Nat
    BY <1>2 DEF EmbedTyped
  <2>2. r.todo \subseteq Nat
    BY <2>1
  <2> QED
    BY <1>3, <2>1, <2>2, MinIsMember
<1>5. PICK entry : entry = [text |-> r.texts[i], vector |-> r.vectors[i]]
  OBVIOUS
<1>6. r.texts[i] \in AllTexts /\ r.vectors[i] = VectorOf(r.texts[i])
  BY <1>2, <1>4 DEF EmbedTyped
<1>7. /\ entry \in [text : AllTexts, vector : AllTexts] /\ entry.vector = VectorOf(entry.text)
      /\ entry.text = r.texts[i]
  BY <1>5, <1>6, VectorsExist
<1>8. cache' = Stored(entry) /\ thread' = [thread EXCEPT ![t] = [r EXCEPT !.pc = "trim"]]
  BY <1>1, <1>3, <1>5 DEF Put, Become
<1>9. PICK c : c = Stored(entry)
  OBVIOUS
<1>10. /\ Len(c) <= Len(cache) + 1 /\ Len(c) \in Nat /\ Len(cache) \in Nat
       /\ \A x : (\E j \in 1..Len(c) : c[j].text = x) <=> Cached(x) \/ x = entry.text
  <2>1. /\ WellCached(c) /\ Len(c) = Len(cache) + (IF Cached(entry.text) THEN 0 ELSE 1)
        /\ \A x : (\E j \in 1..Len(c) : c[j].text = x) <=> Cached(x) \/ x = entry.text
    BY <1>7, <1>9, StoredKeeps DEF Typed
  <2> QED
    BY <2>1 DEF WellCached, Typed
<1>11. \A x : Cached(x)' <=> Cached(x) \/ x = entry.text
  BY <1>8, <1>9, <1>10 DEF Cached
<1>12. t \notin Trimming /\ Trimming \cup {t} \in SUBSET Trimming'
  <2>1. t \notin Trimming
    BY <1>1, <1>2 DEF Trimming
  <2>2. t \in Trimming'
    <3>1. thread'[t] = [r EXCEPT !.pc = "trim"]
      BY <1>8 DEF Typed, ThreadsTyped
    <3>2. PICK x : x = [r EXCEPT !.pc = "trim"]
      OBVIOUS
    <3>3. x.pc = "trim" /\ x.texts = r.texts /\ x.todo = r.todo
      BY <1>2, <3>2 DEF Fits, Fields
    <3>4. thread'[t].pc = "trim" /\ thread'[t].texts[Min(thread'[t].todo)] = entry.text
      BY <1>3, <1>7, <3>1, <3>2, <3>3
    <3>5. PICK text : text = entry.text
      OBVIOUS
    <3>6. Cached(text)'
      BY <1>11, <3>5
    <3> QED
      BY <3>4, <3>5, <3>6 DEF Trimming, Threads
  <2>3. ASSUME NEW u \in Trimming PROVE u \in Trimming'
    <3>1. PICK x : x = thread[u].texts[Min(thread[u].todo)]
      OBVIOUS
    <3>2. u \in Threads /\ thread[u].pc = "trim" /\ Cached(x) /\ thread'[u] = thread[u]
      BY <2>1, <2>3, <3>1, <1>8 DEF Trimming, Typed, ThreadsTyped
    <3>3. Cached(x)' /\ thread'[u].pc = "trim" /\ x = thread'[u].texts[Min(thread'[u].todo)]
      BY <1>11, <3>1, <3>2
    <3> QED
      BY <3>2, <3>3 DEF Trimming, Threads
  <2> QED
    BY <2>1, <2>2, <2>3
<1>13. Cardinality(Trimming \cup {t}) = Cardinality(Trimming) + 1
  BY <1>12, TrimmingFinite, FS_AddElement
<1>14. Cardinality(Trimming \cup {t}) <= Cardinality(Trimming')
  BY <1>12, TrimmingFinite, FS_Subset
<1>15. Len(cache') <= Len(cache) + 1 /\ Len(cache') \in Nat
  BY <1>8, <1>9, <1>10
<1> QED
  BY <1>10, <1>13, <1>14, <1>15, TrimmingFinite, BoundsAssumption DEF Trimmed

\* Whoever moves without touching the cache, and is not in _store, leaves the bound alone.
LEMMA AwayTrimmed ==
    ASSUME Typed, Typed', Trimmed, NEW t \in Threads, Step(t), thread[t].pc # "trim",
           UNCHANGED cache
    PROVE  Trimmed'
<1>1. \A u \in Trimming : thread'[u] = thread[u]
  BY StepKeepsOthers DEF Trimming
<1>2. \A x : Cached(x) => Cached(x)'
  BY DEF Cached
<1>3. Len(cache') <= Len(cache)
  BY DEF Typed, WellCached
<1> QED
  BY <1>1, <1>2, <1>3, QuietTrimmed

LEMMA TouchTrimmed ==
    ASSUME Typed, Typed', Trimmed, NEW t \in Threads, Touch(t)
    PROVE  Trimmed'
<1>1. thread[t].pc = "touch" /\ Step(t)
  BY DEF Touch, Step
<1>2. PICK text : text = thread[t].texts[thread[t].at]
  OBVIOUS
<1>3. CASE Cached(text)
  <2>1. cache' = MovedToEnd(text)
    BY <1>2, <1>3 DEF Touch
  <2>2. PICK c : c = MovedToEnd(text)
    OBVIOUS
  <2>3. Len(c) = Len(cache) /\ \A x : (\E j \in 1..Len(cache) : c[j].text = x) <=> Cached(x)
    BY <1>3, <2>2, MovedKeeps DEF Typed
  <2>4. \A x : Cached(x) => Cached(x)'
    BY <2>1, <2>2, <2>3 DEF Cached
  <2>5. Len(cache') <= Len(cache)
    BY <2>1, <2>2, <2>3 DEF Typed, WellCached
  <2>6. \A u \in Trimming : thread'[u] = thread[u]
    BY <1>1, StepKeepsOthers DEF Trimming
  <2> QED
    BY <2>4, <2>5, <2>6, QuietTrimmed
<1>4. CASE ~Cached(text)
  <2>1. UNCHANGED cache
    BY <1>2, <1>4 DEF Touch
  <2> QED
    BY <1>1, <2>1, AwayTrimmed
<1> QED
  BY <1>3, <1>4

\* Whoever evicts brings the cache down to its size; a thread whose entry is gone counts
\* for nothing before it raises.
LEMMA TrimTrimmed ==
    ASSUME Typed, Typed', Trimmed, NEW t \in Threads, Trim(t)
    PROVE  Trimmed'
<1>1. Step(t)
  BY DEF Step
<1>2. PICK text : text = thread[t].texts[Min(thread[t].todo)]
  OBVIOUS
<1>3. CASE Cached(text)
  <2>1. PICK c : c = MovedToEnd(text)
    OBVIOUS
  <2>2. cache' = IF Len(cache) > CacheSize THEN Evicted(c) ELSE c
    BY <1>2, <1>3, <2>1 DEF Trim
  <2>3. WellCached(c) /\ Len(c) = Len(cache)
    BY <1>3, <2>1, MovedKeeps DEF Typed
  <2>4. Len(cache') <= CacheSize /\ Len(cache') \in Nat
    <3>1. CASE Len(cache) > CacheSize
      BY <2>2, <2>3, <3>1, EvictedFits, BoundsAssumption
    <3>2. CASE ~(Len(cache) > CacheSize)
      BY <2>2, <2>3, <3>2, BoundsAssumption DEF WellCached
    <3> QED
      BY <3>1, <3>2
  <2> QED
    BY <2>4, TrimmingFinite, BoundsAssumption DEF Trimmed
<1>4. CASE ~Cached(text)
  <2>1. UNCHANGED cache
    BY <1>2, <1>4 DEF Trim
  <2>2. t \notin Trimming
    BY <1>2, <1>4 DEF Trimming
  <2>3. \A u \in Trimming : thread'[u] = thread[u]
    BY <1>1, <2>2, StepKeepsOthers DEF Trimming
  <2>4. \A x : Cached(x) => Cached(x)'
    BY <2>1 DEF Cached
  <2>5. Len(cache') <= Len(cache)
    BY <2>1 DEF Typed, WellCached
  <2> QED
    BY <2>3, <2>4, <2>5, QuietTrimmed
<1> QED
  BY <1>3, <1>4

LEMMA TrimmedInit == Init => Trimmed
  BY TrimmingFinite, BoundsAssumption DEF Init, Trimmed

LEMMA TrimmedStep == Typed /\ Typed' /\ Trimmed /\ [Next]_vars => Trimmed'
<1> SUFFICES ASSUME Typed, Typed', Trimmed, [Next]_vars PROVE Trimmed'
  OBVIOUS
<1>1. ASSUME UNCHANGED <<cache, thread>> PROVE Trimmed'
  BY <1>1 DEF Trimmed, Trimming, Cached
<1>2. ASSUME NEW n \in Nodes, Write(n) PROVE Trimmed'
  BY <1>1, <1>2 DEF Write
<1>3. CASE Announce
  BY <1>1, <1>3 DEF Announce
<1>4. CASE Restart
  <2>1. Len(cache') = 0
    BY <1>4 DEF Restart
  <2> QED
    BY <2>1, TrimmingFinite, BoundsAssumption DEF Trimmed
<1>5. ASSUME NEW t \in Client, NEW org \in Orgs \cup {None}, Request(t, org) PROVE Trimmed'
  <2>1. PICK x : Become(t, x) /\ UNCHANGED cache
    BY <1>5 DEF Request, Local
  <2>2. \A u \in Trimming : thread'[u] = thread[u]
    BY <1>5, <2>1, OthersKeep DEF Trimming, Request
  <2>3. \A text : Cached(text) => Cached(text)'
    BY <2>1 DEF Cached
  <2>4. Len(cache') <= Len(cache)
    BY <2>1 DEF Typed, WellCached
  <2> QED
    BY <2>2, <2>3, <2>4, QuietTrimmed
<1>6. ASSUME NEW t \in Threads, Step(t) PROVE Trimmed'
  <2>1. CASE Touch(t) \/ Put(t) \/ Trim(t)
    BY <2>1, TouchTrimmed, PutTrimmed, TrimTrimmed
  <2>2. CASE ~(Touch(t) \/ Put(t) \/ Trim(t))
    <3>1. CASE Lookup(t) \/ Provider(t) \/ Poll(t) \/ Fetch(t) \/ Upsert(t) \/ Commit(t)
      <4>1. UNCHANGED cache /\ thread[t].pc # "trim"
        BY <3>1 DEF Lookup, Provider, Poll, Fetch, Upsert, Commit, Local
      <4> QED
        BY <1>6, <4>1, AwayTrimmed
    <3>2. CASE Ensure(t) \/ MarkIndexed(t) \/ Keyword(t) \/ VectorSearch(t) \/ Count(t)
      <4>1. UNCHANGED cache /\ thread[t].pc # "trim"
        BY <3>2 DEF Ensure, MarkIndexed, Keyword, VectorSearch, Count, Local
      <4> QED
        BY <1>6, <4>1, AwayTrimmed
    <3> QED
      BY <1>6, <2>2, <3>1, <3>2 DEF Step
  <2> QED
    BY <2>1, <2>2
<1>7. CASE UNCHANGED vars
  BY <1>1, <1>7 DEF vars
<1> QED
  BY <1>2, <1>3, <1>4, <1>5, <1>6, <1>7 DEF Next

\* Every variable holds a value of its type, and the cache is above its size only by the
\* entries of threads that are inside _store.
THEOREM RetrievalIsTyped == Spec => []TypeOK
<1>1. Typed /\ Trimmed => TypeOK
  <2> SUFFICES ASSUME Typed, Trimmed PROVE TypeOK
    OBVIOUS
  <2>1. CacheIsBounded
    <3> DEFINE T == {t \in Threads : thread[t].pc = "trim"}
    <3>1. Trimming \in SUBSET T /\ T \in SUBSET Threads
      BY DEF Trimming
    <3>2. IsFiniteSet(Threads)
      <4>1. IsFiniteSet({Consumer})
        BY FS_Singleton
      <4> QED
        BY <4>1, ThreadsAssumption, FS_Union DEF Threads
    <3>3. IsFiniteSet(T) /\ Cardinality(T) \in Nat
      BY <3>1, <3>2, FS_Subset, FS_CardinalityType
    <3>4. Cardinality(Trimming) <= Cardinality(T) /\ Cardinality(Trimming) \in Nat
      BY <3>1, <3>3, FS_Subset, TrimmingFinite
    <3>5. Len(cache) \in Nat
      BY DEF Typed, WellCached
    <3> HIDE DEF T
    <3>6. Len(cache) <= CacheSize + Cardinality(T)
      BY <3>3, <3>4, <3>5, BoundsAssumption DEF Trimmed
    <3> QED
      BY <3>6 DEF T, CacheIsBounded
  <2>2. DOMAIN thread = Threads
    BY DEF Typed, ThreadsTyped
  <2> QED
    BY <2>1, <2>2 DEF TypeOK, Typed, GraphTyped, WellCached, IndexTyped
<1> QED
  BY <1>1, TypedInit, TypedStep, TrimmedInit, TrimmedStep, PTL DEF Spec

-----------------------------------------------------------------------------
(* The index follows the graph: what steps of one thread leave to the others *)

\* A thread that is not indexing keeps nothing.
LEMMA RestKeeps ==
    ASSUME NEW t, NEW r,
           r.pc \notin Stages \cup {"upserted"} \/ (r.goal # "index" /\ t # Consumer)
    PROVE  Keeps(t, r)
  BY DEF Keeps, Consumes

\* Indexing goes on with the same texts.
LEMMA SameBatchKeeps ==
    ASSUME NEW t, NEW r, Keeps(t, r), r.pc \in Stages, NEW x, x.pc \in Stages,
           x.texts = r.texts, x.org = r.org, x.goal = r.goal
    PROVE  Keeps(t, x)
<1>1. x.pc # "upserted"
  BY DEF Stages
<1> QED
  BY <1>1 DEF Keeps, Consumes, Behind, Bootstraps

\* The graph stands, points stay, and an excuse is dropped for nodes that are up to date.
Steady ==
    /\ UNCHANGED graph
    /\ \A n \in Nodes : /\ index[n] # NoPoint => index'[n] # NoPoint
                        /\ newest[n] = graph[n] => newest'[n] = graph[n]
                        /\ Excused(n) => Excused(n)' \/ (index'[n] # NoPoint /\ newest'[n] = graph[n])

LEMMA SteadyKeeps ==
    ASSUME GraphTyped, Steady, NEW u, NEW r, Keeps(u, r),
           u = Consumer =>
              UNCHANGED <<unannounced, changes, offset>> /\ (r.pc # "idle" => offset < Len(changes))
    PROVE  Keeps(u, r)'
<1>1. Behind(r) => Behind(r)'
  BY DEF Behind, Steady
<1>2. Bootstraps(r) => Bootstraps(r)'
  BY DEF Bootstraps, Steady
<1>3. CASE u = Consumer
  <2>1. \A n \in Nodes : Later(n)' <=> Later(n)
    BY <1>3 DEF Later
  <2>2. r.pc # "idle" => changes[offset + 1] \subseteq Nodes
    BY <1>3 DEF GraphTyped
  <2>3. r.pc \in Stages \cup {"upserted"} => r.pc # "idle"
    BY DEF Stages
  <2>4. r.pc \in Stages =>
          (\A n \in changes[offset + 1] :
             /\ \E i \in 1..Len(r.texts) : r.texts[i][1] = n
             /\ \A i \in 1..Len(r.texts) :
                   r.texts[i][1] = n => r.texts[i][2] = graph[n] \/ Later(n))'
    BY <1>3, <2>1, <2>2, <2>3 DEF Keeps, Consumes, Steady
  <2>5. r.pc = "upserted" =>
          (\A n \in changes[offset + 1] : index[n] # NoPoint /\ (newest[n] = graph[n] \/ Later(n)))'
    BY <1>3, <2>1, <2>2, <2>3 DEF Keeps, Consumes, Steady
  <2>6. Consumes(r)'
    BY <2>4, <2>5 DEF Consumes
  <2> QED
    BY <1>1, <1>2, <2>6 DEF Keeps
<1>4. CASE u # Consumer
  BY <1>1, <1>2, <1>4 DEF Keeps
<1> QED
  BY <1>3, <1>4

\* A steady step of one thread, which keeps what it must, leaves the others what they keep.
LEMMA ThreadKeeps ==
    ASSUME Typed, Follows, Steady, NEW t \in Threads, NEW x, Become(t, x), Keeps(t, x)',
           UNCHANGED <<unannounced, changes>>, t # Consumer => UNCHANGED offset
    PROVE  \A u \in Threads : Keeps(u, thread[u])'
<1> SUFFICES ASSUME NEW u \in Threads PROVE Keeps(u, thread[u])'
  OBVIOUS
<1>1. CASE u = t
  <2>1. thread'[u] = x
    BY <1>1 DEF Become, Typed, ThreadsTyped
  <2> QED
    BY <1>1, <2>1
<1>2. CASE u # t
  <2>1. PICK r : r = thread[u]
    OBVIOUS
  <2>2. thread'[u] = r /\ Keeps(u, r)
    BY <1>2, <2>1, OthersKeep DEF Follows
  <2>3. u = Consumer => UNCHANGED offset /\ (r.pc # "idle" => offset < Len(changes))
    BY <1>2, <2>1 DEF Typed, ThreadsTyped, Fits, ConsumerTyped
  <2>4. Keeps(u, r)'
    BY <2>2, <2>3, SteadyKeeps DEF Typed
  <2> QED
    BY <2>2, <2>4
<1> QED
  BY <1>1, <1>2

\* ... and the index with the graph, when each new point is of the newest text or excused.
LEMMA ThreadFollows ==
    ASSUME Typed, Follows, Steady, NEW t \in Threads, NEW x, Become(t, x), Keeps(t, x)',
           UNCHANGED <<unannounced, changes, indexedOrgs>>, t # Consumer => UNCHANGED offset,
           \A n \in Nodes : index[n] = NoPoint /\ index'[n] # NoPoint =>
               newest'[n] = graph[n] \/ Excused(n)'
    PROVE  Follows'
<1>1. Covered'
  BY DEF Follows, Covered, Steady
<1>2. Current'
  BY DEF Follows, Current, Steady
<1>3. \A u \in Threads : Keeps(u, thread[u])'
  BY ThreadKeeps
<1> QED
  BY <1>1, <1>2, <1>3 DEF Follows

\* Steps that neither index nor finish an event.
Still == UNCHANGED <<graph, unannounced, changes, offset, index, dead, newest>>

LEMMA StillSteady == ASSUME Still PROVE Steady
  BY DEF Still, Steady, Excused, Pending

LEMMA StillFollows ==
    ASSUME Typed, Follows, Still, UNCHANGED indexedOrgs, NEW t \in Threads, NEW x,
           Become(t, x), Keeps(t, x), t = Consumer /\ x.pc # "idle" => offset < Len(changes)
    PROVE  Follows'
<1>1. Keeps(t, x)'
  BY StillSteady, SteadyKeeps DEF Typed, Still
<1>2. \A n \in Nodes : index'[n] = index[n]
  BY DEF Still
<1> QED
  BY <1>1, <1>2, StillSteady, ThreadFollows DEF Still

LEMMA RaiseFollows ==
    ASSUME Typed, Follows, NEW t \in Threads, Raise(t), thread[t].pc # "idle",
           UNCHANGED <<external, index, indexedOrgs, newest>>
    PROVE  Follows'
<1>1. UNCHANGED <<graph, unannounced, changes>>
  BY DEF external
<1>2. PICK x : Become(t, x) /\ x.pc \in {"answered", "fetch", "idle"}
  <2>1. \A i : [Idle EXCEPT !.pc = "answered"].pc = "answered"
               /\ [Idle EXCEPT !.pc = "fetch", !.attempt = i].pc = "fetch"
    BY DEF Idle
  <2>2. \/ Become(t, [Idle EXCEPT !.pc = "answered"])
        \/ \E i : Become(t, [Idle EXCEPT !.pc = "fetch", !.attempt = i])
        \/ Become(t, Idle)
    BY DEF Raise
  <2> QED
    BY <2>1, <2>2, IdleFields
<1>3. x.pc \notin Stages \cup {"upserted"}
  BY <1>2 DEF Stages
<1>4. t = Consumer => offset < Len(changes)
  BY DEF Typed, ThreadsTyped, Fits, ConsumerTyped
<1>5. CASE UNCHANGED <<offset, dead>>
  <2>1. Still
    BY <1>1, <1>5 DEF Still
  <2>2. Keeps(t, x)
    BY <1>3, RestKeeps
  <2> QED
    BY <1>2, <1>4, <2>1, <2>2, StillFollows
<1>6. CASE ~UNCHANGED <<offset, dead>>
  <2>1. t = Consumer /\ offset' = offset + 1 /\ dead' = dead \cup changes[offset + 1]
    BY <1>6 DEF Raise
  <2>2. offset \in Nat /\ offset < Len(changes) /\ Len(changes) \in Nat
    BY <1>4, <2>1 DEF Typed, GraphTyped
  <2>3. ASSUME NEW n \in Nodes, Excused(n) PROVE Excused(n)'
    <3>1. CASE n \in dead \/ n \in unannounced
      BY <1>1, <2>1, <3>1 DEF Excused, Pending
    <3>2. CASE ~(n \in dead \/ n \in unannounced)
      <4>1. PICK i \in (offset + 1)..Len(changes) : n \in changes[i]
        BY <2>3, <3>2 DEF Excused, Pending
      <4>2. CASE i = offset + 1
        BY <2>1, <4>1, <4>2 DEF Excused
      <4>3. CASE i # offset + 1
        <5>1. i \in (offset' + 1)..Len(changes')
          BY <1>1, <2>1, <2>2, <4>1, <4>3
        <5> QED
          BY <1>1, <4>1, <5>1 DEF Excused, Pending
      <4> QED
        BY <4>2, <4>3
    <3> QED
      BY <3>1, <3>2
  <2>4. Steady
    BY <1>1, <2>3 DEF Steady
  <2>5. Keeps(t, x)'
    BY <1>3 DEF Keeps, Consumes
  <2>6. \A n \in Nodes : index'[n] = index[n]
    OBVIOUS
  <2> QED
    BY <1>1, <1>2, <2>1, <2>4, <2>5, <2>6, ThreadFollows
<1> QED
  BY <1>5, <1>6

-----------------------------------------------------------------------------
(* The index follows the graph: each step *)

\* The steps of embed() keep the batch, or raise.
LEMMA EmbeddingFollows ==
    ASSUME Typed, Follows, NEW t \in Threads,
           Lookup(t) \/ Touch(t) \/ Provider(t) \/ Put(t) \/ Trim(t)
    PROVE  Follows'
<1>1. PICK r : r = thread[t]
  OBVIOUS
<1>2. r.pc \in Stages /\ DOMAIN r = Fields /\ Keeps(t, r) /\ r.pc # "idle"
  BY <1>1 DEF Lookup, Touch, Provider, Put, Trim, Stages, Typed, ThreadsTyped, Fits, Follows
<1>3. UNCHANGED <<external, index, indexedOrgs, newest>>
  BY DEF Lookup, Touch, Provider, Put, Trim, Local
<1>4. CASE Raise(t)
  BY <1>1, <1>2, <1>3, <1>4, RaiseFollows
<1>5. CASE ~Raise(t)
  <2>1. PICK x : /\ Become(t, x) /\ UNCHANGED <<offset, dead>>
                 /\ x.pc \in Stages /\ x.texts = r.texts /\ x.org = r.org /\ x.goal = r.goal
    <3>1. PICK n : n = NextText(r)
      OBVIOUS
    <3>2. /\ n.pc \in Stages /\ n.texts = r.texts /\ n.org = r.org /\ n.goal = r.goal
      BY <1>2, <3>1 DEF NextText, Stages, Fields
    <3>3. CASE Lookup(t)
      <4>1. \/ Become(t, n)
            \/ \E v : Become(t, [r EXCEPT !.vectors[r.at] = v, !.pc = "touch"])
        BY <1>1, <3>1, <3>3 DEF Lookup, Local
      <4>2. UNCHANGED <<offset, dead>>
        BY <3>3 DEF Lookup, Local
      <4>3. CASE Become(t, n)
        BY <3>2, <4>2, <4>3
      <4>4. CASE ~Become(t, n)
        <5>1. PICK v : Become(t, [r EXCEPT !.vectors[r.at] = v, !.pc = "touch"])
          BY <4>1, <4>4
        <5>2. PICK x : x = [r EXCEPT !.vectors[r.at] = v, !.pc = "touch"]
          OBVIOUS
        <5>3. x.pc \in Stages /\ x.texts = r.texts /\ x.org = r.org /\ x.goal = r.goal
          BY <1>2, <5>2 DEF Stages, Fields
        <5> QED
          BY <4>2, <5>1, <5>2, <5>3
      <4> QED
        BY <4>3, <4>4
    <3>4. CASE Touch(t)
      <4>1. Become(t, n) /\ UNCHANGED <<offset, dead>>
        BY <1>1, <1>5, <3>1, <3>4 DEF Touch
      <4> QED
        BY <3>2, <4>1
    <3>5. CASE Provider(t)
      <4>1. /\ \E m, v : Become(t, [r EXCEPT !.pc = "put", !.todo = m, !.vectors = v])
            /\ UNCHANGED <<offset, dead>>
        BY <1>1, <1>5, <3>5 DEF Provider
      <4>2. PICK m, v : Become(t, [r EXCEPT !.pc = "put", !.todo = m, !.vectors = v])
        BY <4>1
      <4>3. PICK x : x = [r EXCEPT !.pc = "put", !.todo = m, !.vectors = v]
        OBVIOUS
      <4>4. x.pc \in Stages /\ x.texts = r.texts /\ x.org = r.org /\ x.goal = r.goal
        BY <1>2, <4>3 DEF Stages, Fields
      <4> QED
        BY <4>1, <4>2, <4>3, <4>4
    <3>6. CASE Put(t)
      <4>1. Become(t, [r EXCEPT !.pc = "trim"]) /\ UNCHANGED <<offset, dead>>
        BY <1>1, <3>6 DEF Put
      <4>2. PICK x : x = [r EXCEPT !.pc = "trim"]
        OBVIOUS
      <4>3. x.pc \in Stages /\ x.texts = r.texts /\ x.org = r.org /\ x.goal = r.goal
        BY <1>2, <4>2 DEF Stages, Fields
      <4> QED
        BY <4>1, <4>2, <4>3
    <3>7. CASE Trim(t)
      <4>1. PICK i : i = Min(r.todo)
        OBVIOUS
      <4>2. /\ Become(t, [r EXCEPT !.todo = @ \ {i},
                                   !.pc = IF r.todo = {i} THEN "embedded" ELSE "put"])
            /\ UNCHANGED <<offset, dead>>
        BY <1>1, <1>5, <3>7, <4>1 DEF Trim
      <4>3. PICK x : x = [r EXCEPT !.todo = @ \ {i},
                                   !.pc = IF r.todo = {i} THEN "embedded" ELSE "put"]
        OBVIOUS
      <4>4. x.pc \in Stages /\ x.texts = r.texts /\ x.org = r.org /\ x.goal = r.goal
        BY <1>2, <4>3 DEF Stages, Fields
      <4> QED
        BY <4>2, <4>3, <4>4
    <3> QED
      BY <3>3, <3>4, <3>5, <3>6, <3>7
  <2>2. Keeps(t, x)
    BY <1>2, <2>1, SameBatchKeeps
  <2>3. Still
    BY <1>3, <2>1 DEF Still, external
  <2>4. t = Consumer => offset < Len(changes)
    BY <1>1, <1>2 DEF Typed, ThreadsTyped, Fits, ConsumerTyped
  <2> QED
    BY <1>3, <2>1, <2>2, <2>3, <2>4, StillFollows
<1> QED
  BY <1>4, <1>5

\* Steps to where nothing is being indexed.
LEMMA RestingFollows ==
    ASSUME Typed, Follows, NEW t \in Threads, NEW x, Local(t, x),
           x.pc \notin Stages \cup {"upserted"} \/ (x.goal # "index" /\ t # Consumer),
           t = Consumer /\ x.pc # "idle" => offset < Len(changes)
    PROVE  Follows'
<1>1. Still /\ UNCHANGED indexedOrgs /\ Become(t, x)
  BY DEF Local, Still, external
<1>2. Keeps(t, x)
  BY RestKeeps
<1> QED
  BY <1>1, <1>2, StillFollows

LEMMA PollFollows ==
    ASSUME Typed, Follows, NEW t \in Threads, Poll(t)
    PROVE  Follows'
<1>1. PICK x : x = [Idle EXCEPT !.pc = "fetch", !.attempt = 1]
  OBVIOUS
<1>2. x.pc \notin Stages \cup {"upserted"}
  BY <1>1 DEF Idle, Stages
<1>3. Local(t, x) /\ offset < Len(changes)
  BY <1>1 DEF Poll
<1> QED
  BY <1>2, <1>3, RestingFollows

LEMMA RequestFollows ==
    ASSUME Typed, Follows, NEW t \in Client, NEW org \in Orgs \cup {None}, Request(t, org)
    PROVE  Follows'
<1>1. t # Consumer /\ t \in Threads
  BY ThreadsAssumption DEF Threads
<1>2. PICK x : x = IF org = None THEN [Idle EXCEPT !.pc = "answered"]
                   ELSE [Idle EXCEPT !.pc = "ensure", !.org = org]
  OBVIOUS
<1>3. x.pc \notin Stages \cup {"upserted"}
  BY <1>2 DEF Idle, Stages
<1>4. Local(t, x)
  BY <1>2 DEF Request
<1> QED
  BY <1>1, <1>3, <1>4, RestingFollows

\* The query is embedded, or the request is answered.
LEMMA SearchFollows ==
    ASSUME Typed, Follows, NEW t \in Threads, Keyword(t) \/ VectorSearch(t) \/ Count(t)
    PROVE  Follows'
<1>1. t # Consumer
  <2>1. Fits(t, thread[t])
    BY DEF Typed, ThreadsTyped
  <2>2. thread[t].pc = "ready" \/ thread[t].goal = "query"
    BY DEF Keyword, VectorSearch, Count
  <2> QED
    BY <2>1, <2>2 DEF Fits, ConsumerTyped, Stages
<1>2. CASE Keyword(t)
  <2>1. PICK hits : Local(t, StartEmbed([thread[t] EXCEPT !.keyword = hits, !.goal = "query"],
                                        <<Query>>))
    BY <1>2 DEF Keyword
  <2>2. DOMAIN thread[t] = Fields
    BY DEF Typed, ThreadsTyped, Fits
  <2>3. PICK r : r = [thread[t] EXCEPT !.keyword = hits, !.goal = "query"]
    OBVIOUS
  <2>4. DOMAIN r = Fields /\ r.goal = "query"
    BY <2>2, <2>3 DEF Fields
  <2>5. PICK x : x = StartEmbed(r, <<Query>>)
    OBVIOUS
  <2>6. x.goal = "query"
    BY <2>4, <2>5 DEF StartEmbed, Fields
  <2> QED
    BY <1>1, <2>1, <2>3, <2>5, <2>6, RestingFollows
<1>3. CASE VectorSearch(t)
  <2>1. PICK answer : Local(t, [Idle EXCEPT !.pc = "answered", !.goal = "search",
                                            !.answer = answer])
    BY <1>3 DEF VectorSearch
  <2>2. PICK x : x = [Idle EXCEPT !.pc = "answered", !.goal = "search", !.answer = answer]
    OBVIOUS
  <2>3. x.pc \notin Stages \cup {"upserted"}
    BY <2>2 DEF Idle, Stages
  <2> QED
    BY <1>1, <2>1, <2>2, <2>3, RestingFollows
<1>4. CASE Count(t)
  <2>1. PICK x : x = [Idle EXCEPT !.pc = "answered", !.goal = "stats"]
    OBVIOUS
  <2>2. x.pc \notin Stages \cup {"upserted"}
    BY <2>1 DEF Idle, Stages
  <2> QED
    BY <1>1, <1>4, <2>1, <2>2, RestingFollows DEF Count
<1> QED
  BY <1>2, <1>3, <1>4

\* A thread that begins to embed what the graph has of S keeps what it must.
LEMMA ReadFollows ==
    ASSUME Typed, Follows, NEW t \in Threads, NEW S, S \subseteq Nodes, thread[t].goal = "index",
           t = Consumer => offset < Len(changes) /\ S = changes[offset + 1],
           t \in Client => S = NodesOf(thread[t].org),
           Local(t, StartEmbed(thread[t], Texts(S)))
    PROVE  Follows'
<1>1. PICK r : r = thread[t]
  OBVIOUS
<1>2. PICK texts : texts = Texts(S)
  OBVIOUS
<1>3. /\ texts \in Seq(AllTexts)
      /\ \A i \in 1..Len(texts) : texts[i][1] \in S /\ texts[i][2] = graph[texts[i][1]]
      /\ \A n \in S : graph[n] # 0 => \E i \in 1..Len(texts) : texts[i][1] = n
  BY <1>2, TextsRead DEF Typed
<1>4. DOMAIN r = Fields
  BY <1>1 DEF Typed, ThreadsTyped, Fits
<1>5. PICK x : x = StartEmbed(r, texts)
  OBVIOUS
<1>6. /\ x.goal = "index" /\ x.org = r.org /\ x.texts = texts
      /\ x.pc = IF texts = <<>> THEN "upserted" ELSE "lookup"
  BY <1>1, <1>4, <1>5 DEF StartEmbed, Fields
<1>7. x.pc \in Stages <=> texts # <<>>
  BY <1>6 DEF Stages
<1>8. Behind(x)
  BY <1>3, <1>6 DEF Behind
<1>9. texts = <<>> => \A n \in S : graph[n] = 0
  BY <1>3
<1>10. ASSUME t = Consumer PROVE Consumes(x)
  <2>1. \A n \in S : graph[n] # 0
    <3>1. /\ offset < Len(changes) /\ offset \in Nat /\ Len(changes) \in Nat
          /\ S = changes[offset + 1]
          /\ \A i \in 1..Len(changes) : \A n \in changes[i] : graph[n] # 0
      BY <1>10 DEF Typed, GraphTyped
    <3>2. offset + 1 \in 1..Len(changes)
      BY <3>1
    <3> QED
      BY <3>1, <3>2
  <2>2. S = changes[offset + 1]
    BY <1>10
  <2>3. x.pc = "upserted" => S = {}
    BY <1>6, <1>9, <2>1
  <2>4. \A n \in S : /\ \E i \in 1..Len(x.texts) : x.texts[i][1] = n
                     /\ \A i \in 1..Len(x.texts) : x.texts[i][1] = n => x.texts[i][2] = graph[n]
    BY <1>3, <1>6, <2>1
  <2> QED
    BY <2>2, <2>3, <2>4 DEF Consumes
<1>11. ASSUME t \in Client PROVE Bootstraps(x)
  <2>1. \A n \in Nodes : OrgOf[n] = x.org => n \in S
    BY <1>1, <1>6, <1>11 DEF NodesOf
  <2> QED
    BY <1>3, <1>6, <1>7, <1>9, <2>1 DEF Bootstraps
<1>12. Keeps(t, x)
  BY <1>8, <1>10, <1>11 DEF Keeps
<1>13. Still /\ UNCHANGED indexedOrgs /\ Become(t, x)
  BY <1>1, <1>2, <1>5 DEF Local, Still, external
<1> QED
  BY <1>12, <1>13, StillFollows

LEMMA FetchFollows ==
    ASSUME Typed, Follows, NEW t \in Threads, Fetch(t)
    PROVE  Follows'
<1>1. thread[t].pc = "fetch" /\ Fits(t, thread[t])
  BY DEF Fetch, Typed, ThreadsTyped
<1>2. t = Consumer /\ t \notin Client
  BY <1>1, ThreadsAssumption DEF Threads, Fits, ClientTyped, Stages
<1>3. offset < Len(changes) /\ thread[t].goal = "index"
  BY <1>1, <1>2 DEF Fits, ConsumerTyped
<1>4. changes[offset + 1] \subseteq Nodes
  BY <1>3 DEF Typed, GraphTyped
<1>5. Local(t, StartEmbed(thread[t], Texts(changes[offset + 1])))
  BY DEF Fetch
<1>6. PICK S : S = changes[offset + 1]
  OBVIOUS
<1> QED
  BY <1>2, <1>3, <1>4, <1>5, <1>6, ReadFollows

LEMMA EnsureFollows ==
    ASSUME Typed, Follows, NEW t \in Threads, Ensure(t)
    PROVE  Follows'
<1>1. thread[t].pc = "ensure" /\ Fits(t, thread[t])
  BY DEF Ensure, Typed, ThreadsTyped
<1>2. t \in Client /\ t # Consumer
  BY <1>1, ThreadsAssumption DEF Threads, Fits, ConsumerTyped, Stages
<1>3. thread[t].goal = "index"
  BY <1>1, <1>2 DEF Fits, ClientTyped
<1>4. CASE thread[t].org \in indexedOrgs
  <2>1. PICK x : x = [thread[t] EXCEPT !.pc = "ready"]
    OBVIOUS
  <2>2. x.pc \notin Stages \cup {"upserted"}
    BY <1>1, <2>1 DEF Fits, Fields, Stages
  <2>3. Local(t, x)
    BY <1>4, <2>1 DEF Ensure
  <2> QED
    BY <1>2, <2>2, <2>3, RestingFollows
<1>5. CASE thread[t].org \notin indexedOrgs
  <2>1. PICK S : S = NodesOf(thread[t].org)
    OBVIOUS
  <2>2. S \subseteq Nodes
    BY <2>1 DEF NodesOf
  <2>3. Local(t, StartEmbed(thread[t], Texts(S)))
    BY <1>5, <2>1 DEF Ensure
  <2> QED
    BY <1>2, <1>3, <2>1, <2>2, <2>3, ReadFollows
<1> QED
  BY <1>4, <1>5

\* A batch in the index: its points are of the newest text read, or the node is excused.
LEMMA UpsertFollows ==
    ASSUME Typed, Follows, NEW t \in Threads, Upsert(t)
    PROVE  Follows'
<1>1. PICK r : r = thread[t]
  OBVIOUS
<1>2. UNCHANGED <<graph, unannounced, changes, offset, indexedOrgs, dead>>
  BY DEF Upsert, external
<1>3. r.pc = "embedded" /\ r.goal = "index" /\ r.pc \in Stages /\ Keeps(t, r) /\ EmbedTyped(r)
  BY <1>1, Upserted DEF Follows, Stages
<1>4. Behind(r)
  BY <1>3 DEF Keeps
<1>5. ASSUME NEW n \in Nodes
      PROVE  \/ /\ index'[n] = index[n] /\ newest'[n] = newest[n]
                /\ \A i \in 1..Len(r.texts) : r.texts[i][1] # n
             \/ \E i \in 1..Len(r.texts) :
                   /\ r.texts[i][1] = n /\ index'[n] # NoPoint
                   /\ r.texts[i][2] = graph[n] => newest'[n] = graph[n]
                   /\ newest[n] = graph[n] => newest'[n] = graph[n]
  <2>1. CASE \A i \in 1..Len(r.texts) : r.texts[i][1] # n
    BY <1>1, <2>1, Upserted
  <2>2. CASE ~ \A i \in 1..Len(r.texts) : r.texts[i][1] # n
    <3>1. PICK i \in 1..Len(r.texts) :
             /\ r.texts[i][1] = n /\ index'[n] # NoPoint
             /\ newest'[n] = IF r.texts[i][2] > newest[n] THEN r.texts[i][2] ELSE newest[n]
      BY <1>1, <2>2, Upserted
    <3>2. r.texts[i] \in NodeTexts /\ r.texts[i][2] <= graph[n]
      BY <1>3, <3>1 DEF EmbedTyped
    <3>3. r.texts[i][2] \in Nat
      BY <3>2, BoundsAssumption DEF NodeTexts
    <3>4. graph[n] \in Nat /\ newest[n] \in Nat /\ newest[n] <= graph[n]
      BY BoundsAssumption DEF Typed, GraphTyped, IndexTyped
    <3>5. /\ r.texts[i][2] = graph[n] => newest'[n] = graph[n]
          /\ newest[n] = graph[n] => newest'[n] = graph[n]
      BY <3>1, <3>2, <3>3, <3>4
    <3> QED
      BY <3>1, <3>5
  <2> QED
    BY <2>1, <2>2
<1>6. \A n \in Nodes : (Excused(n)' <=> Excused(n)) /\ (Later(n)' <=> Later(n))
  BY <1>2 DEF Excused, Pending, Later
<1>7. \A n \in Nodes : /\ index[n] # NoPoint => index'[n] # NoPoint
                       /\ newest[n] = graph[n] => newest'[n] = graph[n]
  BY <1>5
<1>8. Steady
  BY <1>2, <1>6, <1>7 DEF Steady
<1>9. ASSUME NEW n \in Nodes, index[n] = NoPoint, index'[n] # NoPoint
      PROVE  newest'[n] = graph[n] \/ Excused(n)'
  <2>1. PICK i \in 1..Len(r.texts) :
           /\ r.texts[i][1] = n
           /\ r.texts[i][2] = graph[n] => newest'[n] = graph[n]
           /\ newest[n] = graph[n] => newest'[n] = graph[n]
    BY <1>5, <1>9
  <2>2. r.texts[i][2] = graph[n] \/ Excused(n) \/ newest[n] = graph[n]
    BY <1>4, <2>1 DEF Behind
  <2> QED
    BY <1>6, <2>1, <2>2
<1>10. PICK x : x = [Idle EXCEPT !.pc = "upserted", !.org = r.org]
  OBVIOUS
<1>11. x.pc = "upserted" /\ x.pc \notin Stages /\ x.org = r.org
  BY <1>10 DEF Idle, Stages
<1>12. ASSUME t = Consumer PROVE Consumes(x)'
  <2>1. offset < Len(changes)
    BY <1>1, <1>3, <1>12 DEF Typed, ThreadsTyped, Fits, ConsumerTyped
  <2>2. changes[offset + 1] \subseteq Nodes
    BY <2>1 DEF Typed, GraphTyped
  <2>3. ASSUME NEW n \in changes[offset + 1]
        PROVE  index'[n] # NoPoint /\ (newest'[n] = graph[n] \/ Later(n)')
    <3>1. /\ \E i \in 1..Len(r.texts) : r.texts[i][1] = n
          /\ \A i \in 1..Len(r.texts) : r.texts[i][1] = n => r.texts[i][2] = graph[n] \/ Later(n)
      BY <1>3, <1>12 DEF Keeps, Consumes
    <3>2. PICK i \in 1..Len(r.texts) :
             /\ r.texts[i][1] = n /\ index'[n] # NoPoint
             /\ r.texts[i][2] = graph[n] => newest'[n] = graph[n]
      BY <1>5, <2>2, <3>1
    <3> QED
      BY <1>6, <2>2, <3>1, <3>2
  <2> QED
    BY <1>2, <1>11, <2>3 DEF Consumes
<1>13. ASSUME t \in Client PROVE Bootstraps(x)'
  <2>1. ASSUME NEW n \in Nodes, OrgOf[n] = r.org, graph[n] # 0
        PROVE  index'[n] # NoPoint \/ Excused(n)'
    <3>1. \/ index[n] # NoPoint \/ Excused(n)
          \/ \E i \in 1..Len(r.texts) : r.texts[i][1] = n
      BY <1>3, <1>13, <2>1 DEF Keeps, Bootstraps
    <3> QED
      BY <1>5, <1>6, <1>7, <3>1
  <2> QED
    BY <1>2, <1>11, <2>1 DEF Bootstraps
<1>14. Keeps(t, x)'
  BY <1>11, <1>12, <1>13 DEF Keeps
<1>15. Become(t, x)
  BY <1>1, <1>10 DEF Upsert
<1> QED
  BY <1>2, <1>8, <1>9, <1>14, <1>15, ThreadFollows

\* An event is finished with only when its nodes are in the index as the graph has them, or
\* named by a later event.
LEMMA CommitFollows ==
    ASSUME Typed, Follows, NEW t \in Threads, Commit(t)
    PROVE  Follows'
<1>1. t = Consumer /\ thread[t].pc = "upserted"
  BY DEF Commit
<1>2. /\ offset' = offset + 1 /\ Become(t, Idle)
      /\ UNCHANGED <<graph, unannounced, changes, index, indexedOrgs, dead, newest>>
  BY DEF Commit, external
<1>3. offset < Len(changes) /\ offset \in Nat /\ Len(changes) \in Nat
  BY <1>1 DEF Typed, GraphTyped, ThreadsTyped, Fits, ConsumerTyped
<1>4. \A n \in changes[offset + 1] : index[n] # NoPoint /\ (newest[n] = graph[n] \/ Later(n))
  BY <1>1 DEF Follows, Keeps, Consumes
<1>5. \A n \in Nodes : Later(n) => Excused(n)'
  BY <1>2, <1>3 DEF Later, Excused, Pending
<1>6. ASSUME NEW n \in Nodes, Excused(n)
      PROVE  Excused(n)' \/ (index'[n] # NoPoint /\ newest'[n] = graph[n])
  <2>1. CASE n \in dead \/ n \in unannounced
    BY <1>2, <2>1 DEF Excused, Pending
  <2>2. CASE ~(n \in dead \/ n \in unannounced)
    <3>1. PICK i \in (offset + 1)..Len(changes) : n \in changes[i]
      BY <1>6, <2>2 DEF Excused, Pending
    <3>2. CASE i = offset + 1
      BY <1>2, <1>4, <1>5, <3>1, <3>2
    <3>3. CASE i # offset + 1
      <4>1. i \in (offset + 2)..Len(changes)
        BY <1>3, <3>1, <3>3
      <4> QED
        BY <1>5, <3>1, <4>1 DEF Later
    <3> QED
      BY <3>2, <3>3
  <2> QED
    BY <2>1, <2>2
<1>7. Steady
  BY <1>2, <1>6 DEF Steady
<1>8. PICK x : x = Idle
  OBVIOUS
<1>9. x.pc \notin Stages \cup {"upserted"}
  BY <1>8, IdleFields DEF Stages
<1>10. Keeps(t, x)'
  BY <1>9 DEF Keeps, Consumes
<1>11. Become(t, x) /\ \A n \in Nodes : index'[n] = index[n]
  BY <1>2, <1>8
<1> QED
  BY <1>1, <1>2, <1>7, <1>10, <1>11, ThreadFollows

\* An organisation is remembered when what was read of it is in the index.
LEMMA MarkIndexedFollows ==
    ASSUME Typed, Follows, NEW t \in Threads, MarkIndexed(t)
    PROVE  Follows'
<1>1. PICK r : r = thread[t]
  OBVIOUS
<1>2. t \in Client /\ t # Consumer /\ r.pc = "upserted" /\ r.pc \notin Stages
  BY <1>1, ThreadsAssumption DEF MarkIndexed, Stages
<1>3. r.goal = "index"
  BY <1>1, <1>2 DEF Typed, ThreadsTyped, Fits, ClientTyped
<1>4. Bootstraps(r)
  BY <1>1, <1>2, <1>3 DEF Follows, Keeps
<1>5. Still /\ indexedOrgs' = indexedOrgs \cup {r.org}
  BY <1>1 DEF MarkIndexed, Still, external
<1>6. \A n \in Nodes : OrgOf[n] = r.org /\ graph[n] # 0 => index[n] # NoPoint \/ Excused(n)
  BY <1>2, <1>4 DEF Bootstraps
<1>7. \A n \in Nodes : Excused(n)' <=> Excused(n)
  BY <1>5 DEF Still, Excused, Pending
<1>8. Covered'
  BY <1>5, <1>6, <1>7 DEF Follows, Covered, Still
<1>9. Current'
  BY <1>5, <1>7 DEF Follows, Current, Still
<1>10. PICK x : x = [Idle EXCEPT !.pc = "ready", !.org = r.org]
  OBVIOUS
<1>11. x.pc \notin Stages \cup {"upserted"}
  BY <1>10 DEF Idle, Stages
<1>12. Keeps(t, x)' /\ Become(t, x)
  BY <1>1, <1>2, <1>10, <1>11 DEF Keeps, MarkIndexed
<1>13. \A u \in Threads : Keeps(u, thread[u])'
  BY <1>5, <1>12, StillSteady, ThreadKeeps DEF Still
<1> QED
  BY <1>8, <1>9, <1>13 DEF Follows

\* A node that is written is excused until its change has been consumed.
LEMMA WriteFollows ==
    ASSUME Typed, Follows, NEW n \in Nodes, Write(n)
    PROVE  Follows'
<1>1. /\ graph' = [graph EXCEPT ![n] = @ + 1] /\ unannounced' = unannounced \cup {n}
      /\ UNCHANGED <<changes, offset, index, indexedOrgs, thread, dead, newest>>
  BY DEF Write
<1>2. Excused(n)' /\ Later(n)'
  BY <1>1 DEF Excused, Pending, Later
<1>3. \A m \in Nodes : m # n => graph'[m] = graph[m]
  BY <1>1 DEF Typed, GraphTyped
<1>4. \A m \in Nodes : (Excused(m) => Excused(m)') /\ (Later(m) => Later(m)')
  BY <1>1 DEF Excused, Pending, Later
<1>5. Covered'
  BY <1>1, <1>2, <1>3, <1>4 DEF Follows, Covered
<1>6. Current'
  BY <1>1, <1>2, <1>3, <1>4 DEF Follows, Current
<1>7. ASSUME NEW u \in Threads PROVE Keeps(u, thread[u])'
  <2>1. PICK r : r = thread[u]
    OBVIOUS
  <2>2. Keeps(u, r) /\ Fits(u, r)
    BY <2>1 DEF Follows, Typed, ThreadsTyped
  <2>3. Behind(r) => Behind(r)'
    BY <1>1, <1>2, <1>3, <1>4 DEF Behind
  <2>4. Bootstraps(r) => Bootstraps(r)'
    BY <1>1, <1>2, <1>3, <1>4 DEF Bootstraps
  <2>5. ASSUME u = Consumer PROVE Consumes(r)'
    <3>1. r.pc \in Stages \cup {"upserted"} => changes[offset + 1] \subseteq Nodes
      BY <2>2, <2>5 DEF Typed, GraphTyped, Fits, ConsumerTyped, Stages
    <3>2. Consumes(r)
      BY <2>2, <2>5 DEF Keeps
    <3> QED
      BY <1>1, <1>2, <1>3, <1>4, <3>1, <3>2 DEF Consumes
  <2>6. Keeps(u, r)'
    BY <2>2, <2>3, <2>4, <2>5 DEF Keeps
  <2> QED
    BY <1>1, <2>1, <2>6
<1> QED
  BY <1>5, <1>6, <1>7 DEF Follows

\* What was unannounced is in a change behind all others.
LEMMA AnnounceFollows ==
    ASSUME Typed, Follows, Announce
    PROVE  Follows'
<1>1. /\ changes' = Append(changes, unannounced) /\ unannounced' = {}
      /\ UNCHANGED <<graph, offset, index, indexedOrgs, thread, dead, newest>>
  BY DEF Announce
<1>2. PICK c : c = Append(changes, unannounced)
  OBVIOUS
<1>3. /\ Len(changes) \in Nat /\ offset \in Nat /\ offset <= Len(changes)
      /\ Len(c) = Len(changes) + 1 /\ c[Len(changes) + 1] = unannounced
      /\ \A i \in 1..Len(changes) : c[i] = changes[i]
  BY <1>2 DEF Typed, GraphTyped
<1>4. ASSUME NEW m, NEW from \in 1..(Len(changes) + 1),
             m \in unannounced \/ \E i \in from..Len(changes) : m \in changes[i]
      PROVE  \E i \in from..Len(c) : m \in c[i]
  <2>1. CASE m \in unannounced
    <3>1. Len(changes) + 1 \in from..Len(c)
      BY <1>3
    <3> QED
      BY <1>3, <2>1, <3>1
  <2>2. CASE m \notin unannounced
    <3>1. PICK i \in from..Len(changes) : m \in changes[i]
      BY <1>4, <2>2
    <3>2. i \in from..Len(c) /\ i \in 1..Len(changes)
      BY <1>3, <3>1
    <3> QED
      BY <1>3, <3>1, <3>2
  <2> QED
    BY <2>1, <2>2
<1>5. \A m \in Nodes : Excused(m) => Excused(m)'
  <2>1. offset + 1 \in 1..(Len(changes) + 1)
    BY <1>3
  <2> QED
    BY <1>1, <1>2, <1>4, <2>1 DEF Excused, Pending
<1>6. offset < Len(changes) => \A m \in Nodes : Later(m) => Later(m)'
  <2>1. offset < Len(changes) => offset + 2 \in 1..(Len(changes) + 1)
    BY <1>3
  <2> QED
    BY <1>1, <1>2, <1>4, <2>1 DEF Later
<1>7. Covered' /\ Current'
  BY <1>1, <1>5 DEF Follows, Covered, Current
<1>8. ASSUME NEW u \in Threads PROVE Keeps(u, thread[u])'
  <2>1. PICK r : r = thread[u]
    OBVIOUS
  <2>2. Keeps(u, r) /\ Fits(u, r)
    BY <2>1 DEF Follows, Typed, ThreadsTyped
  <2>3. Behind(r) => Behind(r)'
    BY <1>1, <1>5 DEF Behind
  <2>4. Bootstraps(r) => Bootstraps(r)'
    BY <1>1, <1>5 DEF Bootstraps
  <2>5. ASSUME u = Consumer PROVE Consumes(r)'
    <3>1. CASE r.pc \notin Stages \cup {"upserted"}
      BY <3>1 DEF Consumes
    <3>2. CASE r.pc \in Stages \cup {"upserted"}
      <4>1. offset < Len(changes)
        BY <2>2, <2>5, <3>2 DEF Fits, ConsumerTyped, Stages
      <4>2. changes'[offset' + 1] = changes[offset + 1] /\ changes[offset + 1] \subseteq Nodes
        BY <1>1, <1>2, <1>3, <4>1 DEF Typed, GraphTyped
      <4>3. Consumes(r)
        BY <2>2, <2>5 DEF Keeps
      <4> QED
        BY <1>1, <1>6, <4>1, <4>2, <4>3 DEF Consumes
    <3> QED
      BY <3>1, <3>2
  <2>6. Keeps(u, r)'
    BY <2>2, <2>3, <2>4, <2>5 DEF Keeps
  <2> QED
    BY <1>1, <2>1, <2>6
<1> QED
  BY <1>7, <1>8 DEF Follows

\* A restart forgets which organisations were bootstrapped, and with a volatile index the
\* points; what a thread was indexing is lost with it.
LEMMA RestartFollows ==
    ASSUME Typed, Follows, Restart
    PROVE  Follows'
<1>1. /\ indexedOrgs' = {} /\ UNCHANGED <<graph, unannounced, changes, offset, dead>>
      /\ index' = IF Durable THEN index ELSE EmptyIndex
      /\ newest' = IF Durable THEN newest ELSE [n \in Nodes |-> 0]
      /\ thread' = [t \in Threads |-> IF thread[t].pc = "answered" THEN thread[t] ELSE Idle]
  BY DEF Restart, Reopened, external
<1>2. Covered'
  BY <1>1 DEF Covered
<1>3. Current'
  <2>1. \A n \in Nodes : Excused(n)' <=> Excused(n)
    BY <1>1 DEF Excused, Pending
  <2>2. CASE Durable
    BY <1>1, <2>1, <2>2 DEF Follows, Current
  <2>3. CASE ~Durable
    BY <1>1, <2>3 DEF Current, EmptyIndex
  <2> QED
    BY <2>2, <2>3
<1>4. ASSUME NEW u \in Threads PROVE Keeps(u, thread[u])'
  <2>1. PICK x : x = thread'[u]
    OBVIOUS
  <2>2. x.pc \in {"answered", "idle"}
    BY <1>1, <2>1, IdleFields
  <2>3. x.pc \notin Stages \cup {"upserted"}
    BY <2>2 DEF Stages
  <2>4. Keeps(u, x)'
    BY <2>3 DEF Keeps, Consumes
  <2> QED
    BY <2>1, <2>4
<1> QED
  BY <1>2, <1>3, <1>4 DEF Follows

LEMMA FollowsInit == Init => Follows
<1> SUFFICES ASSUME Init PROVE Follows
  OBVIOUS
<1>1. Covered /\ Current
  BY DEF Init, Covered, Current, EmptyIndex
<1>2. \A u \in Threads : thread[u].pc \notin Stages \cup {"upserted"}
  BY IdleFields DEF Init, Stages
<1>3. \A u \in Threads : Keeps(u, thread[u])
  BY <1>2, RestKeeps
<1> QED
  BY <1>1, <1>3 DEF Follows

LEMMA FollowsStep == Typed /\ Follows /\ [Next]_vars => Follows'
<1> SUFFICES ASSUME Typed, Follows, [Next]_vars PROVE Follows'
  OBVIOUS
<1>1. ASSUME NEW n \in Nodes, Write(n) PROVE Follows'
  BY <1>1, WriteFollows
<1>2. CASE Announce \/ Restart
  BY <1>2, AnnounceFollows, RestartFollows
<1>3. ASSUME NEW t \in Client, NEW org \in Orgs \cup {None}, Request(t, org) PROVE Follows'
  BY <1>3, RequestFollows
<1>4. ASSUME NEW t \in Threads, Step(t) PROVE Follows'
  BY <1>4, EmbeddingFollows, PollFollows, FetchFollows, UpsertFollows, CommitFollows,
     EnsureFollows, MarkIndexedFollows, SearchFollows DEF Step
<1>5. CASE UNCHANGED vars
  BY <1>5 DEF vars, Follows, Covered, Current, Keeps, Behind, Consumes, Bootstraps, Excused,
     Pending, Later
<1> QED
  BY <1>1, <1>2, <1>3, <1>4, <1>5 DEF Next

\* A bootstrapped organisation has a point for each of its nodes, except those whose change
\* is on its way to the consumer or was dead-lettered.
THEOREM BootstrappedOrgsAreCovered == Spec => []IndexedOrgsAreCovered
<1>1. Follows => IndexedOrgsAreCovered
  BY DEF Follows, Covered, Excused, IndexedOrgsAreCovered
<1> QED
  BY <1>1, TypedInit, TypedStep, FollowsInit, FollowsStep, PTL DEF Spec

\* A point is behind the graph only while a change is on its way, when one was
\* dead-lettered, or when older text was written over newer.
THEOREM StalenessIsExplained == Spec => []StalePointsAreExplained
<1>1. Follows => StalePointsAreExplained
  BY DEF Follows, Current, Excused, StalePointsAreExplained
<1> QED
  BY <1>1, TypedInit, TypedStep, FollowsInit, FollowsStep, PTL DEF Spec

-----------------------------------------------------------------------------
(* Fusion: the scores are fractions, compared without division *)

LEMMA Times ==
    ASSUME NEW x \in Nat, NEW y \in Nat, NEW z \in Nat \ {0}
    PROVE  /\ x * z > y * z => x > y
           /\ x * z >= y * z => x >= y
           /\ x > y => x * z > y * z
           /\ x >= y => x * z >= y * z
OBVIOUS

\* Comparing fractions by cross-multiplication is transitive.
LEMMA Fractions ==
    ASSUME NEW a1 \in Nat \ {0}, NEW a2 \in Nat \ {0}, NEW b1 \in Nat \ {0}, NEW b2 \in Nat \ {0},
           NEW c1 \in Nat \ {0}, NEW c2 \in Nat \ {0},
           a1 * b2 >= b1 * a2, b1 * c2 >= c1 * b2
    PROVE  /\ a1 * c2 >= c1 * a2
           /\ a1 * c2 = c1 * a2 => a1 * b2 = b1 * a2 /\ b1 * c2 = c1 * b2
<1>1. /\ a1 * b2 \in Nat /\ b1 * a2 \in Nat /\ b1 * c2 \in Nat /\ c1 * b2 \in Nat
      /\ a1 * c2 \in Nat /\ c1 * a2 \in Nat
  OBVIOUS
<1>2. (a1 * b2) * c2 >= (b1 * a2) * c2 /\ (b1 * c2) * a2 >= (c1 * b2) * a2
  BY <1>1, Times
<1>3. /\ (a1 * b2) * c2 = (a1 * c2) * b2 /\ (b1 * a2) * c2 = (b1 * c2) * a2
      /\ (c1 * b2) * a2 = (c1 * a2) * b2
  OBVIOUS
<1>4. (a1 * c2) * b2 >= (c1 * a2) * b2
  BY <1>1, <1>2, <1>3
<1>5. a1 * c2 >= c1 * a2
  BY <1>1, <1>4, Times
<1>6. ASSUME a1 * c2 = c1 * a2
      PROVE  a1 * b2 = b1 * a2 /\ b1 * c2 = c1 * b2
  <2>1. (a1 * b2) * c2 = (b1 * a2) * c2 /\ (b1 * c2) * a2 = (c1 * b2) * a2
    BY <1>1, <1>2, <1>3, <1>6
  <2>2. ~(a1 * b2 > b1 * a2) /\ ~(b1 * c2 > c1 * b2)
    BY <1>1, <2>1, Times
  <2>3. QED
    BY <1>1, <2>2
<1>7. QED
  BY <1>5, <1>6

-----------------------------------------------------------------------------
\* An arm of a search: ids, each once.
Arm(s) == s \in Seq(Nodes) /\ \A i, j \in 1..Len(s) : s[i] = s[j] => i = j

\* The rank of a hit is the place it has in its arm.
LEMMA RankOfHit ==
    ASSUME NEW s, Arm(s), NEW n \in ToSet(s)
    PROVE  RankIn(s, n) \in 1..Len(s) /\ s[RankIn(s, n)] = n
<1>1. \E i \in 1..Len(s) : s[i] = n
  BY DEF Arm, ToSet
<1>2. QED
  BY <1>1 DEF RankIn

\* The two arms of a search, and the ids that one of them found.
Arms(arms) == arms = <<arms[1], arms[2]>> /\ Arm(arms[1]) /\ Arm(arms[2])
Found(arms) == ToSet(arms[1]) \cup ToSet(arms[2])

\* The denominator of arm a's term for n.
Weight(arms, a, n) == RrfK + RankIn(arms[a], n)

\* The score is one term or the sum of two, by the arms that found the id.
LEMMA ScoreCases ==
    ASSUME NEW arms, Arms(arms), NEW n \in Found(arms)
    PROVE  /\ n \in ToSet(arms[1]) => Weight(arms, 1, n) \in (RrfK + 1)..(RrfK + Len(arms[1]))
           /\ n \in ToSet(arms[2]) => Weight(arms, 2, n) \in (RrfK + 1)..(RrfK + Len(arms[2]))
           /\ n \notin ToSet(arms[2]) => Score(arms, n) = <<1, Weight(arms, 1, n)>>
           /\ n \notin ToSet(arms[1]) => Score(arms, n) = <<1, Weight(arms, 2, n)>>
           /\ n \in ToSet(arms[1]) \cap ToSet(arms[2]) =>
                 Score(arms, n) = <<Weight(arms, 1, n) + Weight(arms, 2, n),
                                    Weight(arms, 1, n) * Weight(arms, 2, n)>>
           /\ Score(arms, n)[1] \in Nat \ {0} /\ Score(arms, n)[2] \in Nat \ {0}
<1> DEFINE x == Weight(arms, 1, n)
           y == Weight(arms, 2, n)
<1>1. Len(arms[1]) \in Nat /\ Len(arms[2]) \in Nat
  BY DEF Arms, Arm
<1>2. n \in ToSet(arms[1]) => x \in (RrfK + 1)..(RrfK + Len(arms[1])) /\ x # 0 /\ x \in Nat
  BY <1>1, RankOfHit DEF Arms, RrfK, Weight
<1>3. n \in ToSet(arms[2]) => y \in (RrfK + 1)..(RrfK + Len(arms[2])) /\ y # 0 /\ y \in Nat
  BY <1>1, RankOfHit DEF Arms, RrfK, Weight
<1>4. Score(arms, n) =
        IF n \notin ToSet(arms[1]) THEN <<1, IF n \in ToSet(arms[2]) THEN y ELSE 0>>
        ELSE IF n \notin ToSet(arms[2]) THEN <<1, x>> ELSE <<x + y, x * y>>
  BY <1>2, <1>3 DEF Score, Weight
<1>5. n \in ToSet(arms[1]) \/ n \in ToSet(arms[2])
  BY DEF Found
<1> HIDE DEF x, y
<1>6. n \in ToSet(arms[1]) \cap ToSet(arms[2]) => x + y \in Nat \ {0} /\ x * y \in Nat \ {0}
  BY <1>2, <1>3
<1>7. Score(arms, n)[1] \in Nat \ {0} /\ Score(arms, n)[2] \in Nat \ {0}
  BY <1>2, <1>3, <1>4, <1>5, <1>6
<1>8. QED
  BY <1>2, <1>3, <1>4, <1>5, <1>7 DEF x, y

\* Each id enters the dictionary of scores at a place of its own.
LEMMA InsertedOnce ==
    ASSUME NEW arms, Arms(arms)
    PROVE  /\ \A n \in Found(arms) : Inserted(arms, n) \in Nat
           /\ \A m, n \in Found(arms) : Inserted(arms, m) = Inserted(arms, n) => m = n
<1>1. Len(arms[1]) \in Nat /\ Len(arms[2]) \in Nat
  BY DEF Arms, Arm
<1>2. \A n \in ToSet(arms[1]) : /\ RankIn(arms[1], n) \in 1..Len(arms[1])
                               /\ arms[1][RankIn(arms[1], n)] = n
  BY RankOfHit DEF Arms
<1>3. \A n \in ToSet(arms[2]) : /\ RankIn(arms[2], n) \in 1..Len(arms[2])
                               /\ arms[2][RankIn(arms[2], n)] = n
  BY RankOfHit DEF Arms
<1>4. \A n \in Found(arms) :
         \/ /\ n \in ToSet(arms[1]) /\ Inserted(arms, n) \in 1..Len(arms[1])
            /\ arms[1][Inserted(arms, n)] = n
         \/ /\ n \in ToSet(arms[2]) /\ Inserted(arms, n) - Len(arms[1]) \in 1..Len(arms[2])
            /\ Inserted(arms, n) \in Nat /\ arms[2][Inserted(arms, n) - Len(arms[1])] = n
  <2>1. SUFFICES ASSUME NEW n \in Found(arms), n \notin ToSet(arms[1])
                 PROVE  LET r == RankIn(arms[2], n) i == Inserted(arms, n)
                        IN  n \in ToSet(arms[2]) /\ i = Len(arms[1]) + r
    BY <1>1, <1>2, <1>3 DEF Found, Inserted
  <2>2. QED
    BY <2>1 DEF Found, Inserted
<1>5. QED
  BY <1>1, <1>4

\* The sort key orders the ids totally.
LEMMA StrictOrder ==
    ASSUME NEW arms, Arms(arms)
    PROVE  /\ \A n \in Found(arms) : ~Before(arms, n, n)
           /\ \A m, n \in Found(arms) : m # n => Before(arms, m, n) \/ Before(arms, n, m)
           /\ \A l, m, n \in Found(arms) :
                 Before(arms, l, m) /\ Before(arms, m, n) => Before(arms, l, n)
<1> DEFINE num(n) == Score(arms, n)[1]
           den(n) == Score(arms, n)[2]
           ins(n) == Inserted(arms, n)
<1>1. \A n \in Found(arms) : num(n) \in Nat \ {0} /\ den(n) \in Nat \ {0} /\ ins(n) \in Nat
  BY ScoreCases, InsertedOnce
<1>2. \A m, n : Before(arms, m, n) <=>
         \/ num(m) * den(n) > num(n) * den(m)
         \/ num(m) * den(n) = num(n) * den(m) /\ ins(m) < ins(n)
  BY DEF Before
<1>3. \A m, n \in Found(arms) : ins(m) = ins(n) => m = n
  BY InsertedOnce
<1> HIDE DEF num, den, ins
<1>4. \A m, n \in Found(arms) : num(m) * den(n) \in Nat
  BY <1>1
<1>5. \A n \in Found(arms) : ~Before(arms, n, n)
  BY <1>1, <1>2, <1>4
<1>6. \A m, n \in Found(arms) : m # n => Before(arms, m, n) \/ Before(arms, n, m)
  <2>1. SUFFICES ASSUME NEW m \in Found(arms), NEW n \in Found(arms), m # n
                 PROVE  Before(arms, m, n) \/ Before(arms, n, m)
    OBVIOUS
  <2>2. ins(m) # ins(n) /\ ins(m) \in Nat /\ ins(n) \in Nat
    BY <1>1, <1>3, <2>1
  <2>3. num(m) * den(n) \in Nat /\ num(n) * den(m) \in Nat
    BY <1>4
  <2>4. QED
    BY <1>2, <2>2, <2>3
<1>7. ASSUME NEW l \in Found(arms), NEW m \in Found(arms), NEW n \in Found(arms),
             Before(arms, l, m), Before(arms, m, n)
      PROVE  Before(arms, l, n)
  <2>1. /\ num(l) * den(m) >= num(m) * den(l)
        /\ num(l) * den(m) = num(m) * den(l) => ins(l) < ins(m)
    BY <1>2, <1>4, <1>7
  <2>2. /\ num(m) * den(n) >= num(n) * den(m)
        /\ num(m) * den(n) = num(n) * den(m) => ins(m) < ins(n)
    BY <1>2, <1>4, <1>7
  <2>3. /\ num(l) * den(n) >= num(n) * den(l)
        /\ num(l) * den(n) = num(n) * den(l) =>
              num(l) * den(m) = num(m) * den(l) /\ num(m) * den(n) = num(n) * den(m)
    <3>1. /\ num(l) \in Nat \ {0} /\ num(m) \in Nat \ {0} /\ num(n) \in Nat \ {0}
          /\ den(l) \in Nat \ {0} /\ den(m) \in Nat \ {0} /\ den(n) \in Nat \ {0}
      BY <1>1
    <3>2. QED
      BY ONLY <2>1, <2>2, <3>1, Fractions
  <2>4. ins(l) \in Nat /\ ins(m) \in Nat /\ ins(n) \in Nat
    BY <1>1
  <2>5. num(l) * den(n) \in Nat /\ num(n) * den(l) \in Nat
    BY <1>4
  <2>6. CASE num(l) * den(n) = num(n) * den(l)
    <3>1. ins(l) < ins(n)
      BY <2>1, <2>2, <2>3, <2>4, <2>6
    <3>2. QED
      BY <1>2, <2>6, <3>1
  <2>7. CASE num(l) * den(n) # num(n) * den(l)
    <3>1. num(l) * den(n) > num(n) * den(l)
      BY <2>3, <2>5, <2>7
    <3>2. QED
      BY <1>2, <3>1
  <2>8. QED
    BY <2>6, <2>7
<1>8. QED
  BY <1>5, <1>6, <1>7

\* Fusion lists what the arms found, each id once and behind those that come before it.
LEMMA FusedSorts ==
    ASSUME NEW arms, Arms(arms)
    PROVE  LET size == Cardinality(Found(arms)) fused == Fused(arms) IN
           /\ size \in Nat /\ fused \in Seq(Nodes) /\ Len(fused) = size
           /\ DOMAIN fused = 1..size
           /\ \A i \in 1..size : fused[i] \in Found(arms)
           /\ \A n \in Found(arms) : \E i \in 1..size : fused[i] = n
           /\ \A i, j \in 1..size : Before(arms, fused[i], fused[j]) => i < j
<1> DEFINE size == Cardinality(Found(arms))
           earlier(n) == {m \in Found(arms) : Before(arms, m, n)}
           place(n) == Cardinality(earlier(n))
           at == [n \in Found(arms) |-> place(n) + 1]
<1>1. Found(arms) \in SUBSET Nodes /\ IsFiniteSet(Nodes)
  BY OrgsAssumption DEF Found, ToSet, Arms, Arm
<1>2. IsFiniteSet(Found(arms)) /\ size \in Nat
  BY <1>1, FS_Subset, FS_CardinalityType
<1>3. \A n : IsFiniteSet(earlier(n)) /\ place(n) \in Nat /\ place(n) <= size
  <2>1. SUFFICES ASSUME NEW n
                 PROVE  IsFiniteSet(earlier(n)) /\ place(n) \in Nat /\ place(n) <= size
    OBVIOUS
  <2>2. earlier(n) \in SUBSET Found(arms)
    OBVIOUS
  <2>3. QED
    BY <1>2, <2>2, FS_Subset, FS_CardinalityType
<1>4. \A m, n \in Found(arms) : Before(arms, m, n) => place(m) < place(n)
  <2>1. SUFFICES ASSUME NEW m \in Found(arms), NEW n \in Found(arms), Before(arms, m, n)
                 PROVE  place(m) < place(n)
    OBVIOUS
  <2>2. earlier(m) \in SUBSET earlier(n) /\ m \in earlier(n) /\ m \notin earlier(m)
    BY <2>1, StrictOrder
  <2> HIDE DEF earlier
  <2>3. place(m) <= place(n) /\ place(m) # place(n)
    BY <1>3, <2>2, FS_Subset
  <2>4. QED
    BY <1>3, <2>3
<1>5. \A n \in Found(arms) : place(n) < size
  <2>1. SUFFICES ASSUME NEW n \in Found(arms) PROVE place(n) < size
    OBVIOUS
  <2>2. earlier(n) \in SUBSET Found(arms) /\ n \notin earlier(n)
    BY StrictOrder
  <2> HIDE DEF earlier
  <2>3. place(n) <= size /\ place(n) # size
    BY <1>2, <2>2, FS_Subset
  <2>4. QED
    BY <1>2, <1>3, <2>3
<1> HIDE DEF earlier, place
<1>6. at \in Injection(Found(arms), 1..size)
  <2>1. at \in [Found(arms) -> 1..size]
    <3>1. \A n \in Found(arms) : place(n) + 1 \in 1..size
      BY <1>2, <1>3, <1>5
    <3>2. QED
      BY <3>1
  <2>2. ASSUME NEW m \in Found(arms), NEW n \in Found(arms), at[m] = at[n] PROVE m = n
    <3>1. place(m) = place(n) /\ place(m) \in Nat
      BY <1>3, <2>2
    <3>2. ~Before(arms, m, n) /\ ~Before(arms, n, m)
      BY <1>4, <3>1
    <3>3. QED
      BY <3>2, StrictOrder
  <2> HIDE DEF at
  <2>3. QED
    BY <2>1, <2>2 DEF Injection, IsInjective
<1>7. at \in Surjection(Found(arms), 1..size)
  <2>1. IsFiniteSet(1..size) /\ Cardinality(1..size) = size
    BY <1>2, FS_Interval
  <2> HIDE DEF at
  <2>2. QED
    BY <1>6, <2>1, FS_Injection
<1>8. \A i \in 1..size : \E n \in Found(arms) : place(n) = i - 1
  <2>1. \A i \in 1..size : \E n \in Found(arms) : at[n] = i
    BY <1>7 DEF Surjection
  <2>2. QED
    BY <1>3, <2>1
<1> DEFINE fused == Fused(arms)
<1>9. fused = [i \in 1..size |-> CHOOSE n \in Found(arms) : place(n) = i - 1]
  BY DEF Fused, Found, place, earlier
<1> HIDE DEF fused
<1>10. \A i \in 1..size : fused[i] \in Found(arms) /\ place(fused[i]) = i - 1
  BY <1>8, <1>9
<1>11. fused \in Seq(Nodes) /\ Len(fused) = size /\ DOMAIN fused = 1..size
  <2>1. fused \in [1..size -> Nodes]
    BY <1>1, <1>9, <1>10
  <2>2. QED
    BY <1>2, <2>1
<1>12. \A n \in Found(arms) : \E i \in 1..size : fused[i] = n
  <2>1. SUFFICES ASSUME NEW n \in Found(arms)
                 PROVE  place(n) + 1 \in 1..size /\ fused[place(n) + 1] = n
    OBVIOUS
  <2>2. place(n) + 1 \in 1..size
    BY <1>2, <1>3, <1>5
  <2>3. PICK m \in Found(arms) : m = fused[place(n) + 1] /\ place(m) = place(n)
    BY <1>3, <1>10, <2>2
  <2>4. ~Before(arms, m, n) /\ ~Before(arms, n, m)
    BY <1>3, <1>4, <2>3
  <2>5. QED
    BY <2>2, <2>3, <2>4, StrictOrder
<1>13. \A i, j \in 1..size : Before(arms, fused[i], fused[j]) => i < j
  <2>1. SUFFICES ASSUME NEW i \in 1..size, NEW j \in 1..size, Before(arms, fused[i], fused[j])
                 PROVE  i < j
    OBVIOUS
  <2>2. place(fused[i]) < place(fused[j])
    BY <1>4, <1>10, <2>1
  <2>3. QED
    BY <1>2, <1>10, <2>2
<1>14. QED
  BY <1>2, <1>10, <1>11, <1>12, <1>13 DEF fused, size

\* What stands at the k-th of some places.
LEMMA PlacesTaken ==
    ASSUME NEW S \in SUBSET Nat, IsFiniteSet(S)
    PROVE  \A k \in 1..Cardinality(S) : \E i \in S : RequestPlace(S, i) = k
<1> DEFINE place == [i \in S |-> RequestPlace(S, i)]
<1>1. /\ \A i \in S : RequestPlace(S, i) \in 1..Cardinality(S)
      /\ \A i, j \in S : i < j => RequestPlace(S, i) < RequestPlace(S, j)
  BY Places
<1>2. place \in Injection(S, 1..Cardinality(S))
  <2>1. place \in [S -> 1..Cardinality(S)]
    BY <1>1
  <2>2. ASSUME NEW i \in S, NEW j \in S, place[i] = place[j] PROVE i = j
    <3>1. RequestPlace(S, i) = RequestPlace(S, j) /\ RequestPlace(S, i) \in Int
      BY <1>1, <2>2, FS_CardinalityType
    <3>2. i < j \/ j < i \/ i = j
      OBVIOUS
    <3>3. QED
      BY <1>1, <3>1, <3>2
  <2> HIDE DEF place
  <2>3. QED
    BY <2>1, <2>2 DEF Injection, IsInjective
<1>3. place \in Surjection(S, 1..Cardinality(S))
  <2>1. IsFiniteSet(1..Cardinality(S)) /\ Cardinality(1..Cardinality(S)) = Cardinality(S)
    BY FS_CardinalityType, FS_Interval
  <2> HIDE DEF place
  <2>2. QED
    BY <1>2, <2>1, FS_Injection
<1>4. QED
  BY <1>3 DEF Surjection

\* The hits are the ids that are there, in the order of the ids.
LEMMA HitsKeepOrder ==
    ASSUME NEW ids \in Seq(Nodes)
    PROVE  LET there == {i \in DOMAIN ids : graph[ids[i]] # 0} hits == Hits(ids)
               place(i) == RequestPlace(there, i) IN
           /\ Len(hits) = Cardinality(there) /\ hits \in Seq(Nodes)
           /\ \A i \in there : place(i) \in 1..Len(hits) /\ hits[place(i)] = ids[i]
           /\ \A k \in 1..Len(hits) : \E i \in there : hits[k] = ids[i] /\ place(i) = k
           /\ \A i, j \in there : i < j => place(i) < place(j)
<1> DEFINE there == {i \in DOMAIN ids : graph[ids[i]] # 0}
           size == Cardinality(there)
           place(i) == RequestPlace(there, i)
           hits == Hits(ids)
<1>1. DOMAIN ids = 1..Len(ids) /\ Len(ids) \in Nat
  OBVIOUS
<1>2. there \in SUBSET (DOMAIN ids) /\ there \in SUBSET Nat
  BY <1>1
<1>3. IsFiniteSet(there) /\ size \in Nat
  <2>1. IsFiniteSet(DOMAIN ids)
    BY <1>1, FS_Interval
  <2> HIDE DEF there
  <2>2. QED
    BY <1>2, <2>1, FS_Subset, FS_CardinalityType
<1>4. /\ \A i \in there : place(i) \in 1..size
      /\ \A i, j \in there : i < j => place(i) < place(j)
      /\ \A k \in 1..size : \E i \in there : place(i) = k
  <2> HIDE DEF there
  <2>1. QED
    BY <1>2, <1>3, Places, PlacesTaken
<1>5. hits = [k \in 1..size |-> ids[CHOOSE i \in there : place(i) = k]]
  BY DEF Hits, RequestPlace
<1> HIDE DEF there, place, hits, size
<1>6. ASSUME NEW i \in there PROVE hits[place(i)] = ids[i]
  <2>1. PICK j \in there : /\ j = CHOOSE l \in there : place(l) = place(i)
                           /\ place(j) = place(i)
    BY <1>6
  <2>2. i \in Nat /\ j \in Nat /\ place(i) \in 1..size
    BY <1>2, <1>4
  <2>3. ~(i < j) /\ ~(j < i)
    BY <1>3, <1>4, <2>1, <2>2
  <2>4. i = j
    BY <2>2, <2>3
  <2>5. QED
    BY <1>5, <2>1, <2>2, <2>4
<1>7. \A k \in 1..size : \E i \in there : hits[k] = ids[i] /\ place(i) = k
  BY <1>4, <1>6
<1>8. hits \in Seq(Nodes) /\ Len(hits) = size
  <2>1. \A i \in there : ids[i] \in Nodes
    BY <1>1, <1>2
  <2>2. \A k \in 1..size : hits[k] \in Nodes
    BY <1>7, <2>1
  <2>3. hits \in [1..size -> Nodes]
    BY <1>5, <2>2
  <2>4. QED
    BY <1>3, <2>3
<1>9. QED
  BY <1>4, <1>6, <1>7, <1>8 DEF there, place, hits, size

-----------------------------------------------------------------------------
\* Both arms' terms outweigh the best single one as long as the arms are short: with c the
\* largest weight of a rank, x and y the ranks' denominators, 1/x + 1/y > 1/c.
LEMMA TwoTermsOutweighOne ==
    ASSUME NEW c \in Nat \ {0}, NEW p \in Nat, NEW q \in Nat, p * q < c * c,
           NEW i \in 0..p, NEW j \in 0..q
    PROVE  ((c + i) + (c + j)) * c > (c + i) * (c + j)
<1>1. i * j <= p * j /\ p * j <= p * q /\ i * j \in Nat /\ p * j \in Nat /\ p * q \in Nat
  <2>1. /\ \A x, y, z \in Nat : x <= y => x * z <= y * z
        /\ \A x, y, z \in Nat : x <= y => z * x <= z * y
    OBVIOUS
  <2>2. i <= p /\ j <= q /\ i \in Nat /\ j \in Nat
    OBVIOUS
  <2>3. QED
    BY <2>1, <2>2
<1>2. i * j < c * c
  BY <1>1
<1>3. /\ (c + i) * (c + j) = c * c + c * i + c * j + i * j
      /\ ((c + i) + (c + j)) * c = c * c + c * c + c * i + c * j
  OBVIOUS
<1>4. c * c \in Nat /\ c * i \in Nat /\ c * j \in Nat
  OBVIOUS
<1>5. QED
  BY <1>1, <1>2, <1>3, <1>4

\* With short arms, an id of both arms comes before an id of one.
LEMMA AgreedBefore ==
    ASSUME NEW arms, Arms(arms), NEW m \in ToSet(arms[1]) \cap ToSet(arms[2]),
           NEW n \in Found(arms), n \notin ToSet(arms[1]) \cap ToSet(arms[2]),
           (Len(arms[1]) - 1) * (Len(arms[2]) - 1) < (RrfK + 1) * (RrfK + 1)
    PROVE  Before(arms, m, n)
<1> DEFINE c == RrfK + 1
           x == Weight(arms, 1, m)
           y == Weight(arms, 2, m)
           p == Len(arms[1]) - 1
           q == Len(arms[2]) - 1
           w == Score(arms, n)[2]
<1>1. Len(arms[1]) \in Nat /\ Len(arms[2]) \in Nat /\ RrfK = 60
  BY DEF Arms, Arm, RrfK
<1>2. /\ m \in Found(arms) /\ x \in c..(c + p) /\ y \in c..(c + q)
      /\ Score(arms, m) = <<x + y, x * y>>
  <2>1. m \in Found(arms)
    BY DEF Found
  <2>2. /\ x \in (RrfK + 1)..(RrfK + Len(arms[1])) /\ y \in (RrfK + 1)..(RrfK + Len(arms[2]))
        /\ Score(arms, m) = <<x + y, x * y>>
    BY <2>1, ScoreCases
  <2>3. RrfK + Len(arms[1]) = c + p /\ RrfK + Len(arms[2]) = c + q
    BY <1>1
  <2>4. QED
    BY <2>1, <2>2, <2>3
<1>3. Score(arms, n)[1] = 1 /\ w \in Nat /\ w >= c
  <2>1. n \in ToSet(arms[1]) \/ n \in ToSet(arms[2])
    BY DEF Found
  <2>2. CASE n \notin ToSet(arms[2])
    <3>1. /\ Score(arms, n) = <<1, Weight(arms, 1, n)>>
          /\ Weight(arms, 1, n) \in (RrfK + 1)..(RrfK + Len(arms[1]))
      BY <2>1, <2>2, ScoreCases
    <3>2. QED
      BY <1>1, <3>1
  <2>3. CASE n \notin ToSet(arms[1])
    <3>1. /\ Score(arms, n) = <<1, Weight(arms, 2, n)>>
          /\ Weight(arms, 2, n) \in (RrfK + 1)..(RrfK + Len(arms[2]))
      BY <2>1, <2>3, ScoreCases
    <3>2. QED
      BY <1>1, <3>1
  <2>4. QED
    BY <2>2, <2>3
<1>4. c \in Nat \ {0} /\ p \in Nat /\ q \in Nat /\ p * q < c * c
  <2>1. p \in Nat /\ q \in Nat
    BY <1>1, <1>2
  <2>2. c \in Nat \ {0}
    BY <1>1
  <2>3. p * q < c * c
    OBVIOUS
  <2>4. QED
    BY <2>1, <2>2, <2>3
<1> HIDE DEF c, p, q, x, y, w
<1>5. (x + y) * c > x * y
  <2>1. PICK i \in 0..p, j \in 0..q : x = c + i /\ y = c + j
    <3>1. x - c \in 0..p /\ y - c \in 0..q /\ x = c + (x - c) /\ y = c + (y - c)
      BY <1>2, <1>4
    <3>2. QED
      BY <3>1
  <2>2. ((c + i) + (c + j)) * c > (c + i) * (c + j)
    BY <1>4, TwoTermsOutweighOne
  <2>3. QED
    BY <2>1, <2>2
<1>6. (x + y) * w >= (x + y) * c
  <2>1. x + y \in Nat
    BY <1>2, <1>4
  <2>2. \A u, v, z \in Nat : u <= v => z * u <= z * v
    OBVIOUS
  <2>3. QED
    BY <1>3, <1>4, <2>1, <2>2
<1>7. (x + y) * w \in Int /\ (x + y) * c \in Int /\ x * y \in Int
  BY <1>2, <1>3, <1>4
<1>8. (x + y) * w > 1 * (x * y)
  BY <1>5, <1>6, <1>7
<1>9. QED
  BY <1>2, <1>3, <1>8 DEF Before, w

-----------------------------------------------------------------------------
\* What AgreedHitsFirst says of an answer.
AgreedFirst(a) ==
    LET both == ToSet(a.arms[1]) \cap ToSet(a.arms[2]) IN
    \A i \in 1..Len(a.hits) :
       a.hits[i] \notin both => both \subseteq ToSet(SubSeq(a.hits, 1, i - 1))

\* So it stands before it among the hits.
LEMMA SearchAgrees ==
    ASSUME NEW arms, Arms(arms),
           (Len(arms[1]) - 1) * (Len(arms[2]) - 1) < (RrfK + 1) * (RrfK + 1),
           \A n \in ToSet(arms[1]) : graph[n] # 0
    PROVE  AgreedFirst([arms |-> arms, hits |-> Hits(FirstOf(Fused(arms), Limit))])
<1> DEFINE both == ToSet(arms[1]) \cap ToSet(arms[2])
           size == Cardinality(Found(arms))
           fused == Fused(arms)
           ids == FirstOf(fused, Limit)
           hits == Hits(ids)
           there == {i \in DOMAIN ids : graph[ids[i]] # 0}
           place(i) == RequestPlace(there, i)
<1>1. /\ size \in Nat /\ fused \in Seq(Nodes) /\ Len(fused) = size
      /\ \A i \in 1..size : fused[i] \in Found(arms)
      /\ \A n \in Found(arms) : \E i \in 1..size : fused[i] = n
      /\ \A i, j \in 1..size : Before(arms, fused[i], fused[j]) => i < j
  BY FusedSorts
<1> HIDE DEF fused, size
<1>2. PICK k \in 0..size : /\ ids \in Seq(Nodes) /\ Len(ids) = k /\ DOMAIN ids = 1..k
                           /\ \A i \in 1..k : ids[i] = fused[i]
  <2> DEFINE k == IF Len(fused) < Limit THEN Len(fused) ELSE Limit
  <2>1. k \in 0..size
    BY <1>1, BoundsAssumption
  <2>2. ids = SubSeq(fused, 1, k)
    BY DEF FirstOf
  <2>3. /\ ids \in Seq(Nodes) /\ Len(ids) = k /\ DOMAIN ids = 1..k
        /\ \A i \in 1..k : ids[i] = fused[i]
    <3> HIDE DEF k, ids
    <3>1. QED
      BY <1>1, <2>1, <2>2
  <2>4. QED
    BY <2>1, <2>3
<1> HIDE DEF ids
<1>3. /\ Len(hits) = Cardinality(there) /\ hits \in Seq(Nodes)
      /\ \A i \in there : place(i) \in 1..Len(hits) /\ hits[place(i)] = ids[i]
      /\ \A l \in 1..Len(hits) : \E i \in there : hits[l] = ids[i] /\ place(i) = l
      /\ \A i, j \in there : i < j => place(i) < place(j)
  BY <1>2, HitsKeepOrder
<1>4. \A i : i \in there <=> i \in 1..k /\ graph[fused[i]] # 0
  BY <1>2
<1> HIDE DEF hits, there, place
<1>5. ASSUME NEW l \in 1..Len(hits), hits[l] \notin both, NEW m \in both
      PROVE  m \in ToSet(SubSeq(hits, 1, l - 1))
  <2>1. PICK i \in there : hits[l] = ids[i] /\ place(i) = l
    BY <1>3
  <2>2. i \in 1..k /\ i \in 1..size /\ hits[l] = fused[i]
    BY <1>1, <1>2, <1>4, <2>1
  <2>3. m \in Found(arms) /\ graph[m] # 0
    BY <1>5 DEF Found
  <2>4. PICK j \in 1..size : fused[j] = m
    BY <1>1, <2>3
  <2>5. Before(arms, fused[j], fused[i])
    BY <1>1, <1>5, <2>2, <2>4, AgreedBefore
  <2>6. j < i
    BY <1>1, <2>2, <2>4, <2>5
  <2>7. j \in there /\ ids[j] = m
    <3>1. j \in 1..k
      BY <1>1, <2>2, <2>4, <2>6
    <3>2. QED
      BY <1>2, <1>4, <2>3, <2>4, <3>1
  <2>8. /\ place(j) < l /\ place(j) \in 1..Len(hits) /\ hits[place(j)] = m
    BY <1>3, <2>1, <2>6, <2>7
  <2>9. Len(hits) \in Nat /\ l \in Nat /\ l <= Len(hits)
    BY <1>3
  <2>10. /\ SubSeq(hits, 1, l - 1) \in Seq(Nodes) /\ Len(SubSeq(hits, 1, l - 1)) = l - 1
         /\ \A x \in 1..(l - 1) : SubSeq(hits, 1, l - 1)[x] = hits[x]
    BY <1>3, <2>9
  <2>11. place(j) \in 1..(l - 1) /\ DOMAIN SubSeq(hits, 1, l - 1) = 1..(l - 1)
    BY <2>8, <2>9, <2>10
  <2>12. QED
    BY <2>8, <2>10, <2>11 DEF ToSet
<1>6. \A l \in 1..Len(hits) : hits[l] \notin both => both \subseteq ToSet(SubSeq(hits, 1, l - 1))
  BY <1>5
<1>7. QED
  BY <1>6 DEF AgreedFirst, hits, ids, fused

-----------------------------------------------------------------------------
(* The inductive invariant of a search *)

\* The arms of a search in any organisation are short enough for fusion to put the ids that
\* both found first: the last id of both arms still outweighs the first of one.  The vector
\* arm is cut off at its limit, the keyword arm only by the nodes there are.
ArmsAreShort ==
    \A org \in Orgs :
       LET all == Cardinality(NodesOf(org))
           nearest == IF all < VectorLimit THEN all ELSE VectorLimit
       IN  (all - 1) * (nearest - 1) < (RrfK + 1) * (RrfK + 1)

\* A keyword arm of this organisation, of nodes that are there.
KeywordArm(s, org) ==
    Arm(s) /\ ToSet(s) \subseteq NodesOf(org) /\ \A n \in ToSet(s) : graph[n] # 0

\* The state of a client that searches, or has searched.
Searches(r) ==
    /\ r.goal = "query" => KeywordArm(r.keyword, r.org)
    /\ r.goal = "search" => AgreedFirst(r.answer)

SearchTyped == \A t \in Client : Searches(thread[t])

\* An arm is no longer than the set it lists.
LEMMA ArmLength ==
    ASSUME NEW s, Arm(s), NEW S, ToSet(s) \subseteq S, IsFiniteSet(S)
    PROVE  Len(s) \in Nat /\ Len(s) <= Cardinality(S)
<1>1. s \in [1..Len(s) -> S] /\ Len(s) \in Nat
  BY DEF Arm, ToSet
<1>2. s \in Injection(1..Len(s), S)
  BY <1>1 DEF Injection, IsInjective, Arm
<1>3. Cardinality(1..Len(s)) = Len(s)
  <2>1. PICK k \in Nat : k = Len(s)
    BY <1>1
  <2>2. 1 \in Int /\ k \in Int
    OBVIOUS
  <2>3. Cardinality(1..k) = IF 1 > k THEN 0 ELSE k - 1 + 1
    BY <2>2, FS_Interval
  <2>4. QED
    BY <2>1, <2>3
<1>4. QED
  BY <1>1, <1>2, <1>3, FS_Injection

\* What a query of the graph returns is an arm.
LEMMA ListedOnce ==
    ASSUME NEW S \in SUBSET Nodes
    PROVE  Arm(SetToSeq(S)) /\ ToSet(SetToSeq(S)) = S
<1> DEFINE D == 1..Cardinality(S)
           s == SetToSeq(S)
<1>1. IsFiniteSet(S)
  BY OrgsAssumption, FS_Subset
<1>2. Cardinality(S) \in Nat /\ ExistsBijection(D, S)
  BY <1>1, FS_CardinalityType
<1>3. PICK f : f \in Injection(D, S)
  BY <1>2 DEF ExistsBijection, Bijection
<1>4. f \in [D -> S] /\ IsInjective(f)
  BY <1>3 DEF Injection
<1>5. s \in [D -> S] /\ IsInjective(s)
  BY <1>4 DEF SetToSeq
<1>6. /\ s \in Seq(S) /\ Len(s) = Cardinality(S)
      /\ \A x \in S : \E i \in 1..Len(s) : s[i] = x
  BY <1>1, Listed
<1>7. DOMAIN s = 1..Len(s) /\ s \in Seq(Nodes)
  BY <1>6
<1> HIDE DEF s
<1>8. Arm(s)
  BY <1>5, <1>6, <1>7 DEF Arm, IsInjective
<1>9. ToSet(s) = S
  BY <1>5, <1>6, <1>7 DEF ToSet
<1>10. QED
  BY <1>8, <1>9 DEF s

\* So is what the vector index returns, and it keeps to its limit.
LEMMA NearestIsArm ==
    ASSUME NEW org, NEW nearest \in Nearest(org)
    PROVE  Arm(nearest) /\ ToSet(nearest) \subseteq NodesOf(org) /\ Len(nearest) <= VectorLimit
<1> DEFINE S == OrgPoints(org)
<1>1. VectorLimit \in Nat
  BY BoundsAssumption DEF VectorLimit
<1>2. S \in SUBSET Nodes /\ IsFiniteSet(S) /\ S \subseteq NodesOf(org)
  <2>1. S \in SUBSET Nodes /\ S \subseteq NodesOf(org)
    BY DEF OrgPoints, NodesOf
  <2>2. QED
    BY <2>1, OrgsAssumption, FS_Subset
<1>3. PICK ranking \in SetToSeqs(S) : nearest = FirstOf(ranking, VectorLimit)
  BY DEF Nearest
<1> HIDE DEF S
<1>4. ranking \in Seq(S) /\ ToSet(ranking) = S /\ Len(ranking) = Cardinality(S)
  BY <1>2, Ordered
<1>5. \A i, j \in 1..Len(ranking) : ranking[i] = ranking[j] => i = j
  BY <1>4 DEF SetToSeqs
<1> DEFINE k == IF Len(ranking) < VectorLimit THEN Len(ranking) ELSE VectorLimit
<1>6. k \in 0..Len(ranking) /\ k <= VectorLimit /\ nearest = SubSeq(ranking, 1, k)
  BY <1>1, <1>3, <1>4 DEF FirstOf
<1> HIDE DEF k
<1>7. /\ nearest \in Seq(S) /\ Len(nearest) = k /\ DOMAIN nearest = 1..k
      /\ \A i \in 1..k : nearest[i] = ranking[i]
  BY <1>4, <1>6
<1>8. nearest \in Seq(Nodes) /\ ToSet(nearest) \subseteq S
  BY <1>2, <1>7 DEF ToSet
<1>9. \A i, j \in 1..k : nearest[i] = nearest[j] => i = j
  BY <1>4, <1>5, <1>6, <1>7
<1>10. QED
  BY <1>2, <1>6, <1>7, <1>8, <1>9 DEF Arm

\* Organisations of at most RrfK + 1 = 61 nodes have short arms, whatever the limit.
LEMMA SmallOrgs ==
    ASSUME \A org \in Orgs : Cardinality(NodesOf(org)) <= RrfK + 1
    PROVE  ArmsAreShort
<1> SUFFICES ASSUME NEW org \in Orgs,
                    NEW all, all = Cardinality(NodesOf(org)),
                    NEW nearest, nearest = IF all < VectorLimit THEN all ELSE VectorLimit
             PROVE  (all - 1) * (nearest - 1) < (RrfK + 1) * (RrfK + 1)
  BY DEF ArmsAreShort
<1>1. all \in 0..61 /\ VectorLimit \in Nat /\ VectorLimit >= 20 /\ RrfK = 60
  <2>1. NodesOf(org) \in SUBSET Nodes
    BY DEF NodesOf
  <2>2. all \in Nat
    BY <2>1, OrgsAssumption, FS_Subset, FS_CardinalityType
  <2>3. VectorLimit \in Nat /\ VectorLimit >= 20
    BY BoundsAssumption DEF VectorLimit
  <2> QED
    BY <2>2, <2>3 DEF RrfK
<1>2. nearest \in 0..all
  BY <1>1
<1>3. CASE all = 0
  BY <1>1, <1>2, <1>3
<1>4. CASE nearest = 0
  BY <1>1, <1>2, <1>4
<1>5. CASE all # 0 /\ nearest # 0
  <2>1. PICK p \in 0..60, q \in 0..60 : p = all - 1 /\ q = nearest - 1
    <3>1. all - 1 \in 0..60
      BY <1>1, <1>5
    <3>2. nearest - 1 \in 0..60
      BY <1>1, <1>2, <1>5
    <3> QED
      BY <3>1, <3>2
  <2>2. p * q <= 60 * 60
    <3>1. \A x, y \in Nat : x <= 60 /\ y <= 60 => x * y <= 60 * y /\ 60 * y <= 60 * 60
      OBVIOUS
    <3>2. p * q \in Nat /\ 60 * q \in Nat
      OBVIOUS
    <3> QED
      BY <3>1, <3>2
  <2>3. p * q \in Nat
    OBVIOUS
  <2> QED
    BY <1>1, <2>1, <2>2, <2>3
<1> QED
  BY <1>3, <1>4, <1>5

\* The arms of a search by a client.
LEMMA SearchAnswered ==
    ASSUME ArmsAreShort, NEW org \in Orgs, NEW keyword, KeywordArm(keyword, org),
           NEW nearest \in Nearest(org)
    PROVE  LET arms == <<keyword, nearest>>
           IN  AgreedFirst([arms |-> arms, hits |-> Hits(FirstOf(Fused(arms), Limit))])
<1> DEFINE arms == <<keyword, nearest>>
           all == Cardinality(NodesOf(org))
           limit == IF all < VectorLimit THEN all ELSE VectorLimit
<1>1. Arm(keyword) /\ ToSet(keyword) \subseteq NodesOf(org)
  BY DEF KeywordArm
<1>2. Arm(nearest) /\ ToSet(nearest) \subseteq NodesOf(org) /\ Len(nearest) <= VectorLimit
  BY NearestIsArm
<1>3. IsFiniteSet(NodesOf(org)) /\ all \in Nat /\ VectorLimit \in Nat
  <2>1. NodesOf(org) \in SUBSET Nodes
    BY DEF NodesOf
  <2>2. VectorLimit \in Nat
    BY BoundsAssumption DEF VectorLimit
  <2>3. QED
    BY <2>1, <2>2, OrgsAssumption, FS_Subset, FS_CardinalityType
<1>4. /\ Len(keyword) \in Nat /\ Len(keyword) <= all
      /\ Len(nearest) \in Nat /\ Len(nearest) <= limit
  BY <1>1, <1>2, <1>3, ArmLength
<1>5. (all - 1) * (limit - 1) < (RrfK + 1) * (RrfK + 1)
  BY DEF ArmsAreShort
<1>6. limit \in Nat /\ (RrfK + 1) * (RrfK + 1) = 3721
  BY <1>3 DEF RrfK
<1> HIDE DEF all, limit
<1>7. (Len(keyword) - 1) * (Len(nearest) - 1) < (RrfK + 1) * (RrfK + 1)
  <2>1. CASE Len(keyword) = 0
    <3>1. (Len(keyword) - 1) * (Len(nearest) - 1) = 1 - Len(nearest)
      BY <1>4, <2>1
    <3>2. QED
      BY <1>4, <1>6, <3>1
  <2>2. CASE Len(nearest) = 0
    <3>1. (Len(keyword) - 1) * (Len(nearest) - 1) = 1 - Len(keyword)
      BY <1>4, <2>2
    <3>2. QED
      BY <1>4, <1>6, <3>1
  <2>3. CASE Len(keyword) # 0 /\ Len(nearest) # 0
    <3> DEFINE i == Len(keyword) - 1
               j == Len(nearest) - 1
               p == all - 1
               q == limit - 1
    <3>1. i \in Nat /\ j \in Nat /\ p \in Nat /\ q \in Nat /\ i <= p /\ j <= q
      BY <1>3, <1>4, <1>6, <2>3
    <3>2. p * q < 3721
      BY <1>5, <1>6
    <3> HIDE DEF i, j, p, q
    <3>3. i * j <= p * j /\ p * j <= p * q
      <4>1. /\ \A x, y, z \in Nat : x <= y => x * z <= y * z
            /\ \A x, y, z \in Nat : x <= y => z * x <= z * y
        OBVIOUS
      <4>2. QED
        BY <3>1, <4>1
    <3>4. i * j \in Nat /\ p * j \in Nat /\ p * q \in Nat
      BY <3>1
    <3>5. i * j < 3721
      BY <3>2, <3>3, <3>4
    <3>6. QED
      BY <1>6, <3>5 DEF i, j
  <2>4. QED
    BY <2>1, <2>2, <2>3
<1>8. Arms(arms) /\ arms[1] = keyword /\ arms[2] = nearest
  BY <1>1, <1>2 DEF Arms
<1>9. \A n \in ToSet(keyword) : graph[n] # 0
  BY DEF KeywordArm
<1> HIDE DEF arms
<1>10. QED
  BY <1>7, <1>8, <1>9, SearchAgrees DEF arms

-----------------------------------------------------------------------------
(* A step of a thread leaves what a search knows, or ends it *)

\* What is known of a search in state r is known in state x, or x does not search.
Carries(r, x) ==
    \/ x.goal \in {"index", "stats"}
    \/ x.goal = r.goal /\ x.org = r.org /\ x.keyword = r.keyword /\ x.answer = r.answer

\* A node that is there stays there.
LEMMA SearchesStay ==
    ASSUME NEW r, NEW x, Searches(r), Carries(r, x),
           \A n \in Nodes : graph[n] # 0 => graph'[n] # 0
    PROVE  Searches(x)'
<1>1. ASSUME x.goal = "query" PROVE KeywordArm(x.keyword, x.org)'
  <2>1. x.keyword = r.keyword /\ x.org = r.org /\ KeywordArm(r.keyword, r.org)
    BY <1>1 DEF Carries, Searches
  <2>2. QED
    BY <2>1 DEF KeywordArm, NodesOf
<1>2. ASSUME x.goal = "search" PROVE AgreedFirst(x.answer)
  BY <1>2 DEF Carries, Searches
<1>3. QED
  BY <1>1, <1>2 DEF Searches

LEMMA StepSearches ==
    ASSUME Typed, SearchTyped, NEW t \in Threads, Step(t), UNCHANGED graph,
           t \in Client => Searches(thread[t])'
    PROVE  SearchTyped'
<1>1. ASSUME NEW u \in Client PROVE Searches(thread[u])'
  <2>1. CASE u = t
    BY <2>1
  <2>2. CASE u # t
    <3>1. PICK r : r = thread[u]
      OBVIOUS
    <3>2. thread'[u] = r /\ Searches(r)
      BY <2>2, <3>1, StepKeepsOthers DEF SearchTyped, Threads
    <3>3. Carries(r, r)
      BY DEF Carries
    <3>4. Searches(r)'
      BY <3>2, <3>3, SearchesStay
    <3>5. QED
      BY <3>2, <3>4
  <2>3. QED
    BY <2>1, <2>2
<1>2. QED
  BY <1>1 DEF SearchTyped

\* Where a thread goes from a state of embed(), and from an exception.
LEMMA EmbedCarries ==
    ASSUME NEW r, DOMAIN r = Fields
    PROVE  /\ Carries(r, NextText(r))
           /\ \A texts : Carries(r, StartEmbed(r, texts))
<1>1. PICK x : x = NextText(r)
  OBVIOUS
<1>2. x.goal = r.goal /\ x.org = r.org /\ x.keyword = r.keyword /\ x.answer = r.answer
  BY <1>1 DEF NextText, Fields
<1>3. ASSUME NEW texts PROVE Carries(r, StartEmbed(r, texts))
  <2>1. PICK y : y = StartEmbed(r, texts)
    OBVIOUS
  <2>2. y.goal = r.goal /\ y.org = r.org /\ y.keyword = r.keyword /\ y.answer = r.answer
    BY <2>1 DEF StartEmbed, Fields
  <2>3. QED
    BY <2>1, <2>2 DEF Carries
<1>4. QED
  BY <1>1, <1>2, <1>3 DEF Carries

LEMMA RaiseCarries ==
    ASSUME NEW t \in Threads, Typed, Raise(t)
    PROVE  Carries(thread[t], thread'[t])
<1>1. PICK x : x.goal = "index" /\ Become(t, x)
  <2>1. CASE t # Consumer
    <3>1. PICK x : x = [Idle EXCEPT !.pc = "answered"]
      OBVIOUS
    <3>2. x.goal = "index"
      BY <3>1 DEF Idle
    <3>3. QED
      BY <2>1, <3>1, <3>2 DEF Raise
  <2>2. CASE t = Consumer /\ thread[t].attempt < MaxAttempts
    <3>1. PICK x : x = [Idle EXCEPT !.pc = "fetch", !.attempt = thread[t].attempt + 1]
      OBVIOUS
    <3>2. x.goal = "index"
      BY <3>1 DEF Idle
    <3>3. QED
      BY <2>2, <3>1, <3>2 DEF Raise
  <2>3. CASE t = Consumer /\ ~(thread[t].attempt < MaxAttempts)
    BY <2>3, IdleFields DEF Raise
  <2>4. QED
    BY <2>1, <2>2, <2>3
<1>2. thread'[t] = x
  BY <1>1 DEF Become, Typed, ThreadsTyped
<1>3. QED
  BY <1>1, <1>2 DEF Carries

LEMMA BecomeCarries ==
    ASSUME Typed, NEW t \in Threads, NEW x, Become(t, x), Carries(thread[t], x)
    PROVE  Carries(thread[t], thread'[t])
  BY DEF Become, Typed, ThreadsTyped

LEMMA EmbeddingCarries ==
    ASSUME Typed, NEW t \in Threads,
           Lookup(t) \/ Touch(t) \/ Provider(t) \/ Put(t) \/ Trim(t)
    PROVE  Carries(thread[t], thread'[t])
<1>1. PICK r : r = thread[t]
  OBVIOUS
<1>2. DOMAIN r = Fields
  BY <1>1 DEF Typed, ThreadsTyped, Fits
<1>3. Carries(r, NextText(r))
  BY <1>2, EmbedCarries
<1>4. ASSUME NEW x, x.goal = r.goal, x.org = r.org, x.keyword = r.keyword, x.answer = r.answer,
             Become(t, x)
      PROVE  \E y : Become(t, y) /\ Carries(r, y)
  BY <1>4 DEF Carries
<1>5. Raise(t) \/ \E y : Become(t, y) /\ Carries(r, y)
  <2>1. CASE Lookup(t)
    <3>1. CASE Become(t, NextText(r))
      BY <1>3, <3>1
    <3>2. CASE ~Become(t, NextText(r))
      <4>1. PICK v, x : /\ x = [r EXCEPT !.vectors[r.at] = v, !.pc = "touch"]
                        /\ Become(t, x)
        BY <1>1, <2>1, <3>2 DEF Lookup, Local
      <4>2. DOMAIN x = Fields /\ \A f \in Fields \ {"vectors", "pc"} : x[f] = r[f]
        BY <1>2, <4>1
      <4>3. QED
        BY <1>4, <4>1, <4>2 DEF Fields
    <3>3. QED
      BY <3>1, <3>2
  <2>2. CASE Touch(t)
    BY <1>1, <1>3, <2>2 DEF Touch
  <2>3. CASE Provider(t)
    <3>1. CASE ~Raise(t)
      <4>1. PICK d, v, x : /\ x = [r EXCEPT !.pc = "put", !.todo = d, !.vectors = v]
                           /\ Become(t, x)
        BY <1>1, <2>3, <3>1 DEF Provider
      <4>2. DOMAIN x = Fields /\ \A f \in Fields \ {"pc", "todo", "vectors"} : x[f] = r[f]
        BY <1>2, <4>1
      <4>3. QED
        BY <1>4, <4>1, <4>2 DEF Fields
    <3>2. QED
      BY <3>1
  <2>4. CASE Put(t)
    <3>1. PICK x : x = [r EXCEPT !.pc = "trim"] /\ Become(t, x)
      BY <1>1, <2>4 DEF Put
    <3>2. DOMAIN x = Fields /\ \A f \in Fields \ {"pc"} : x[f] = r[f]
      BY <1>2, <3>1
    <3>3. QED
      BY <1>4, <3>1, <3>2 DEF Fields
  <2>5. CASE Trim(t)
    <3>1. CASE ~Raise(t)
      <4>1. PICK i, pc, x : x = [r EXCEPT !.todo = @ \ {i}, !.pc = pc] /\ Become(t, x)
        BY <1>1, <2>5, <3>1 DEF Trim
      <4>2. DOMAIN x = Fields /\ \A f \in Fields \ {"pc", "todo"} : x[f] = r[f]
        BY <1>2, <4>1
      <4>3. QED
        BY <1>4, <4>1, <4>2 DEF Fields
    <3>2. QED
      BY <3>1
  <2>6. QED
    BY <2>1, <2>2, <2>3, <2>4, <2>5
<1>6. QED
  BY <1>1, <1>5, RaiseCarries, BecomeCarries

LEMMA OtherCarries ==
    ASSUME Typed, NEW t \in Threads,
           \/ Poll(t) \/ Fetch(t) \/ Upsert(t) \/ Commit(t)
           \/ Ensure(t) \/ MarkIndexed(t) \/ Count(t)
    PROVE  Carries(thread[t], thread'[t])
<1>1. PICK r : r = thread[t]
  OBVIOUS
<1>2. DOMAIN r = Fields
  BY <1>1 DEF Typed, ThreadsTyped, Fits
<1>3. ASSUME NEW x, x.goal \in {"index", "stats"}, Become(t, x)
      PROVE  \E y : Become(t, y) /\ Carries(r, y)
  BY <1>3 DEF Carries
<1>4. Carries(r, [r EXCEPT !.pc = "ready"])
  <2>1. PICK x : x = [r EXCEPT !.pc = "ready"]
    OBVIOUS
  <2>2. x.goal = r.goal /\ x.org = r.org /\ x.keyword = r.keyword /\ x.answer = r.answer
    BY <1>2, <2>1 DEF Fields
  <2>3. QED
    BY <2>1, <2>2 DEF Carries
<1>5. \E x : Become(t, x) /\ Carries(r, x)
  <2>1. CASE Poll(t)
    <3>1. PICK x : x = [Idle EXCEPT !.pc = "fetch", !.attempt = 1]
      OBVIOUS
    <3>2. x.goal = "index"
      BY <3>1 DEF Idle
    <3>3. Become(t, x)
      BY <1>1, <2>1, <3>1 DEF Poll, Local
    <3>4. QED
      BY <1>3, <3>2, <3>3
  <2>2. CASE Fetch(t)
    BY <1>1, <1>2, <2>2, EmbedCarries DEF Fetch, Local
  <2>3. CASE Upsert(t)
    <3>1. PICK x : x = [Idle EXCEPT !.pc = "upserted", !.org = r.org]
      OBVIOUS
    <3>2. x.goal = "index"
      BY <3>1 DEF Idle
    <3>3. Become(t, x)
      BY <1>1, <2>3, <3>1 DEF Upsert
    <3>4. QED
      BY <1>3, <3>2, <3>3
  <2>4. CASE Commit(t)
    BY <1>3, <2>4, IdleFields DEF Commit
  <2>5. CASE Ensure(t)
    BY <1>1, <1>2, <1>4, <2>5, EmbedCarries DEF Ensure, Local
  <2>6. CASE MarkIndexed(t)
    <3>1. PICK x : x = [Idle EXCEPT !.pc = "ready", !.org = r.org]
      OBVIOUS
    <3>2. x.goal = "index"
      BY <3>1 DEF Idle
    <3>3. Become(t, x)
      BY <1>1, <2>6, <3>1 DEF MarkIndexed
    <3>4. QED
      BY <1>3, <3>2, <3>3
  <2>7. CASE Count(t)
    <3>1. PICK x : x = [Idle EXCEPT !.pc = "answered", !.goal = "stats"]
      OBVIOUS
    <3>2. x.goal = "stats"
      BY <3>1 DEF Idle
    <3>3. Become(t, x)
      BY <1>1, <2>7, <3>1 DEF Count, Local
    <3>4. QED
      BY <1>3, <3>2, <3>3
  <2>8. QED
    BY <2>1, <2>2, <2>3, <2>4, <2>5, <2>6, <2>7
<1>6. QED
  BY <1>1, <1>5, BecomeCarries

-----------------------------------------------------------------------------
(* The two steps that make what a search knows *)

\* The keyword arm lists nodes of the organisation that are in the graph, each once.
LEMMA KeywordSearches ==
    ASSUME Typed, NEW t \in Threads, Keyword(t)
    PROVE  Searches(thread[t])'
<1>1. DOMAIN thread[t] = Fields /\ thread' = [thread EXCEPT ![t] = thread'[t]]
      /\ DOMAIN thread = Threads /\ graph' = graph
  BY DEF Typed, ThreadsTyped, Fits, Keyword, Local, Become, external
<1> DEFINE S == {n \in Present(NodesOf(thread[t].org)) : <<n, graph[n]>> \in Matches}
<1>2. PICK hits : hits = SetToSeq(S)
  OBVIOUS
<1>3. PICK r : r = [thread[t] EXCEPT !.keyword = hits, !.goal = "query"]
  OBVIOUS
<1>4. r.goal = "query" /\ r.keyword = hits /\ r.org = thread[t].org /\ DOMAIN r = Fields
  BY <1>1, <1>3 DEF Fields
<1>5. PICK x : x = StartEmbed(r, <<Query>>)
  OBVIOUS
<1>6. x.goal = "query" /\ x.keyword = hits /\ x.org = thread[t].org
  BY <1>4, <1>5 DEF StartEmbed, Fields
<1>7. thread'[t] = x
  BY <1>1, <1>2, <1>3, <1>5 DEF Keyword, Local, Become
<1>8. S \in SUBSET Nodes /\ S \subseteq NodesOf(thread[t].org) /\ \A n \in S : graph[n] # 0
  BY DEF Present, NodesOf
<1> HIDE DEF S
<1>9. Arm(hits) /\ ToSet(hits) = S
  BY <1>2, <1>8, ListedOnce
<1>10. KeywordArm(hits, thread[t].org)
  BY <1>8, <1>9 DEF KeywordArm
<1>11. KeywordArm(x.keyword, x.org)'
  BY <1>1, <1>6, <1>10 DEF KeywordArm, NodesOf
<1>12. Searches(x)'
  BY <1>6, <1>11 DEF Searches
<1>13. QED
  BY <1>7, <1>12

\* The search is answered from its keyword arm and the nearest points of its organisation.
LEMMA VectorSearches ==
    ASSUME ArmsAreShort, Typed, SearchTyped, NEW t \in Client, VectorSearch(t)
    PROVE  Searches(thread[t])'
<1>1. PICK r : r = thread[t]
  OBVIOUS
<1>2. /\ r.pc = "embedded" /\ r.goal = "query" /\ t \in Threads /\ DOMAIN thread = Threads
      /\ r.org \in Orgs /\ KeywordArm(r.keyword, r.org)
  BY <1>1 DEF VectorSearch, Typed, ThreadsTyped, Fits, ClientTyped, SearchTyped, Searches, Threads
<1>3. PICK nearest \in Nearest(r.org) :
         LET arms == <<r.keyword, nearest>> IN
         Local(t, [Idle EXCEPT !.pc = "answered", !.goal = "search",
                     !.answer = [arms |-> arms, hits |-> Hits(FirstOf(Fused(arms), Limit))]])
  BY <1>1 DEF VectorSearch
<1>4. PICK answer : /\ answer = [arms |-> <<r.keyword, nearest>>,
                                 hits |-> Hits(FirstOf(Fused(<<r.keyword, nearest>>), Limit))]
                    /\ Local(t, [Idle EXCEPT !.pc = "answered", !.goal = "search",
                                             !.answer = answer])
  BY <1>3
<1>5. AgreedFirst(answer)
  BY <1>2, <1>4, SearchAnswered
<1>6. PICK x : x = [Idle EXCEPT !.pc = "answered", !.goal = "search", !.answer = answer]
  OBVIOUS
<1>7. x.goal = "search" /\ x.answer = answer
  BY <1>6 DEF Idle
<1>8. thread'[t] = x
  BY <1>2, <1>4, <1>6 DEF Local, Become
<1>9. Searches(x)'
  BY <1>5, <1>7 DEF Searches, AgreedFirst
<1>10. QED
  BY <1>8, <1>9

LEMMA SearchStep == ArmsAreShort /\ Typed /\ SearchTyped /\ [Next]_vars => SearchTyped'
<1> SUFFICES ASSUME ArmsAreShort, Typed, SearchTyped, [Next]_vars PROVE SearchTyped'
  OBVIOUS
<1>1. ASSUME \A u \in Client : Carries(thread[u], thread'[u]),
             \A n \in Nodes : graph[n] # 0 => graph'[n] # 0
      PROVE  SearchTyped'
  <2>1. ASSUME NEW u \in Client PROVE Searches(thread[u])'
    <3>1. PICK r, x : r = thread[u] /\ x = thread'[u]
      OBVIOUS
    <3>2. Searches(x)'
      BY <1>1, <3>1, SearchesStay DEF SearchTyped
    <3>3. QED
      BY <3>1, <3>2
  <2>2. QED
    BY <2>1 DEF SearchTyped
<1>2. ASSUME UNCHANGED thread PROVE \A u \in Client : Carries(thread[u], thread'[u])
  BY <1>2 DEF Carries
<1>3. ASSUME NEW n \in Nodes, Write(n) PROVE SearchTyped'
  <2>1. graph' = [graph EXCEPT ![n] = @ + 1] /\ UNCHANGED thread
    BY <1>3 DEF Write
  <2>2. graph \in [Nodes -> 0..MaxVersion] /\ MaxVersion \in Nat
    BY BoundsAssumption DEF Typed, GraphTyped
  <2>3. \A m \in Nodes : graph[m] # 0 => graph'[m] # 0
    BY <2>1, <2>2
  <2>4. QED
    BY <1>1, <1>2, <2>1, <2>3
<1>4. CASE Announce
  BY <1>1, <1>2, <1>4 DEF Announce
<1>5. CASE Restart
  <2>1. /\ thread' = [t \in Threads |-> IF thread[t].pc = "answered" THEN thread[t] ELSE Idle]
        /\ UNCHANGED graph
    BY <1>5 DEF Restart, external
  <2>2. \A u \in Client : thread'[u] = thread[u] \/ thread'[u] = Idle
    BY <2>1 DEF Threads
  <2>3. \A u \in Client : Carries(thread[u], thread'[u])
    BY <2>2, IdleFields DEF Carries
  <2>4. QED
    BY <1>1, <2>1, <2>3
<1>6. ASSUME NEW t \in Client, NEW org \in Orgs \cup {None}, Request(t, org) PROVE SearchTyped'
  <2>1. PICK x : Local(t, x) /\ (\/ x = [Idle EXCEPT !.pc = "answered"]
                                 \/ x = [Idle EXCEPT !.pc = "ensure", !.org = org])
    BY <1>6 DEF Request
  <2>2. x.goal = "index"
    BY <2>1 DEF Idle
  <2>3. \A u \in Client : thread'[u] = IF u = t THEN x ELSE thread[u]
    BY <2>1 DEF Local, Become, Typed, ThreadsTyped, Threads
  <2>4. \A u \in Client : Carries(thread[u], thread'[u])
    BY <2>2, <2>3 DEF Carries
  <2>5. UNCHANGED graph
    BY <2>1 DEF Local, external
  <2>6. QED
    BY <1>1, <2>4, <2>5
<1>7. ASSUME NEW t \in Threads, Step(t) PROVE SearchTyped'
  <2>1. UNCHANGED graph
    BY <1>7 DEF Step, Lookup, Touch, Provider, Put, Trim, Poll, Fetch, Upsert, Commit, Ensure,
       MarkIndexed, Keyword, VectorSearch, Count, Local, external
  <2>2. ASSUME t \in Client PROVE Searches(thread[t])'
    <3>1. CASE Keyword(t)
      BY <3>1, KeywordSearches
    <3>2. CASE VectorSearch(t)
      BY <2>2, <3>2, VectorSearches
    <3>3. CASE ~(Keyword(t) \/ VectorSearch(t))
      <4>1. Carries(thread[t], thread'[t])
        BY <1>7, <3>3, EmbeddingCarries, OtherCarries DEF Step
      <4>2. PICK r, x : r = thread[t] /\ x = thread'[t]
        OBVIOUS
      <4>3. Searches(x)'
        BY <2>1, <2>2, <4>1, <4>2, SearchesStay DEF SearchTyped
      <4>4. QED
        BY <4>2, <4>3
    <3>4. QED
      BY <3>1, <3>2, <3>3
  <2>3. QED
    BY <1>7, <2>1, <2>2, StepSearches
<1>8. CASE UNCHANGED vars
  BY <1>1, <1>2, <1>8 DEF vars
<1>9. QED
  BY <1>3, <1>4, <1>5, <1>6, <1>7, <1>8 DEF Next

LEMMA SearchInit == Init => SearchTyped
  BY IdleFields DEF Init, SearchTyped, Searches, Threads

\* While the arms are short enough, a search returns what the keyword arm and the vector arm
\* agree on before what a single one found (_rrf and search in service.py), in every order
\* of the threads' steps and whatever is written between the arms and the answer.
THEOREM AgreedAlwaysFirst ==
    ASSUME ArmsAreShort
    PROVE  Spec => []AgreedHitsFirst
<1>1. SearchTyped => AgreedHitsFirst
  BY DEF SearchTyped, Searches, AgreedFirst, AgreedHitsFirst
<1>2. Typed /\ SearchTyped /\ [Next]_vars => SearchTyped'
  BY SearchStep
<1>3. QED
  BY <1>1, <1>2, TypedInit, TypedStep, SearchInit, PTL DEF Spec
=============================================================================
