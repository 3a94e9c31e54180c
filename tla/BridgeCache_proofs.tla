------------------------ MODULE BridgeCache_proofs ------------------------
(***************************************************************************)
(* Proofs about BridgeCache for any number of goroutines, chunks and cache *)
(* slots.                                                                  *)
(***************************************************************************)
EXTENDS BridgeCache, SequenceTheorems, FiniteSetTheorems, TLAPS

-----------------------------------------------------------------------------
(* The list operations.                                                    *)

\* A sequence given by an explicit function is a sequence of its length.
LEMMA ExplicitSeq ==
  ASSUME NEW S, NEW n \in Nat, NEW f \in [1..n -> S]
  PROVE  f \in Seq(S) /\ Len(f) = n
<1>1. f \in Seq(S)
  BY SeqDef
<1>2. QED
  BY <1>1, LenProperties

Right(list) == \A i \in DOMAIN list : list[i].recs = Plaintext(list[i].idx)

\* Moving an element to the front keeps the elements and their number, keeps
\* them distinct, and brings the chunk's own element to the front.
LEMMA MoveToFrontLemma ==
  ASSUME NEW list \in Seq(Element), NEW c \in KeysOf(list), Distinct(list)
  PROVE  LET m == MoveToFront(list, c)
         IN  /\ m \in Seq(Element)
             /\ Len(m) = Len(list)
             /\ Len(m) > 0
             /\ KeysOf(m) = KeysOf(list)
             /\ Distinct(m)
             /\ m[1].idx = c
             /\ Right(list) => Right(m)
<1> DEFINE i == CHOOSE k \in DOMAIN list : list[k].idx = c
           m == MoveToFront(list, c)
           n == Len(list)
<1>1. n \in Nat /\ DOMAIN list = 1..n /\ list \in [1..n -> Element]
  BY LenProperties
<1>2. i \in 1..n /\ list[i].idx = c
  BY <1>1 DEF KeysOf
<1>3. m = [k \in 1..n |->
             IF k = 1 THEN list[i] ELSE IF k <= i THEN list[k - 1] ELSE list[k]]
  BY <1>1 DEF MoveToFront
<1> HIDE DEF i, m
<1>4. m \in [1..n -> Element]
  <2> SUFFICES ASSUME NEW k \in 1..n
               PROVE  m[k] \in Element
    BY <1>3
  <2>1. CASE k = 1
    BY <1>1, <1>2, <1>3, <2>1
  <2>2. CASE k # 1 /\ k <= i
    <3>1. k - 1 \in 1..n
      BY <1>1, <1>2, <2>2
    <3>2. QED
      BY <1>1, <1>3, <2>2, <3>1
  <2>3. CASE k # 1 /\ ~ (k <= i)
    BY <1>1, <1>3, <2>3
  <2>4. QED
    BY <2>1, <2>2, <2>3
<1>5. m \in Seq(Element) /\ Len(m) = n /\ DOMAIN m = 1..n
  BY <1>1, <1>4, ExplicitSeq
<1>6. \A k \in 1..n : \E l \in 1..n : m[k] = list[l]
  <2> TAKE k \in 1..n
  <2>1. CASE k = 1
    BY <1>2, <1>3, <2>1
  <2>2. CASE k # 1 /\ k <= i
    <3>1. k - 1 \in 1..n
      BY <1>1, <1>2, <2>2
    <3>2. QED
      BY <1>3, <2>2, <3>1
  <2>3. CASE k # 1 /\ ~ (k <= i)
    BY <1>3, <2>3
  <2>4. QED
    BY <2>1, <2>2, <2>3
<1>7. \A l \in 1..n : \E k \in 1..n : m[k] = list[l]
  <2> TAKE l \in 1..n
  <2>1. CASE l = i
    BY <1>1, <1>3, <2>1
  <2>2. CASE l < i
    <3>1. l + 1 \in 1..n /\ l + 1 # 1 /\ l + 1 <= i /\ (l + 1) - 1 = l
      BY <1>1, <1>2, <2>2
    <3>2. m[l + 1] = list[l]
      BY <1>3, <3>1
    <3>3. QED
      BY <3>1, <3>2
  <2>3. CASE l > i
    <3>1. l # 1 /\ ~ (l <= i)
      BY <1>1, <1>2, <2>3
    <3>2. QED
      BY <1>3, <3>1
  <2>4. QED
    BY <1>1, <1>2, <2>1, <2>2, <2>3
<1>8. KeysOf(m) = KeysOf(list)
  <2>1. KeysOf(m) = {m[k].idx : k \in 1..n} /\ KeysOf(list) = {list[k].idx : k \in 1..n}
    BY <1>1, <1>5, Zenon DEF KeysOf
  <2> HIDE DEF n
  <2>2. KeysOf(m) \subseteq KeysOf(list)
    BY <1>6, <2>1
  <2>3. KeysOf(list) \subseteq KeysOf(m)
    BY <1>7, <2>1
  <2>4. QED
    BY <2>2, <2>3
<1>9. Distinct(m)
  <2> DEFINE src(k) == IF k = 1 THEN i ELSE IF k <= i THEN k - 1 ELSE k
  <2>1. ASSUME NEW k \in 1..n PROVE src(k) \in 1..n /\ m[k] = list[src(k)]
    BY <1>1, <1>2, <1>3
  <2>2. ASSUME NEW k \in 1..n, NEW l \in 1..n, src(k) = src(l) PROVE k = l
    BY <1>1, <1>2, <2>2
  <2> HIDE DEF src
  <2>3. SUFFICES ASSUME NEW k \in 1..n, NEW l \in 1..n, m[k].idx = m[l].idx
                 PROVE  k = l
    BY <1>5 DEF Distinct
  <2>4. src(k) = src(l)
    BY <1>1, <2>1, <2>3 DEF Distinct
  <2>5. QED
    BY <2>2, <2>4
<1>10. m[1].idx = c /\ n > 0
  BY <1>1, <1>2, <1>3
<1>11. Right(list) => Right(m)
  <2> SUFFICES ASSUME Right(list), NEW k \in 1..n
               PROVE  m[k].recs = Plaintext(m[k].idx)
    BY <1>5, Zenon DEF Right
  <2>1. PICK l \in 1..n : m[k] = list[l]
    BY <1>6
  <2>2. list[l].recs = Plaintext(list[l].idx)
    BY <1>1 DEF Right
  <2>3. QED
    BY <2>1, <2>2
<1>12. QED
  BY <1>5, <1>8, <1>9, <1>10, <1>11 DEF m

\* Replacing the records of the first element keeps everything but them.
LEMMA SetFrontLemma ==
  ASSUME NEW list \in Seq(Element), NEW recs \in Records, Distinct(list),
         Len(list) > 0, recs = Plaintext(list[1].idx)
  PROVE  LET m == SetFront(list, recs)
         IN  /\ m \in Seq(Element)
             /\ Len(m) = Len(list)
             /\ KeysOf(m) = KeysOf(list)
             /\ Distinct(m)
             /\ Right(list) => Right(m)
<1> DEFINE m == SetFront(list, recs)
           n == Len(list)
<1>1. n \in Nat /\ DOMAIN list = 1..n /\ list \in [1..n -> Element] /\ n > 0
  BY LenProperties
<1>2. m = [k \in 1..n |->
             IF k = 1 THEN [list[1] EXCEPT !.recs = recs] ELSE list[k]]
  BY <1>1 DEF SetFront
<1> HIDE DEF m, n
<1>3. \A k \in 1..n : m[k] \in Element /\ m[k].idx = list[k].idx
  BY <1>1, <1>2 DEF Element
<1>4. m \in [1..n -> Element]
  BY <1>2, <1>3
<1>5. m \in Seq(Element) /\ Len(m) = n /\ DOMAIN m = 1..n
  BY <1>1, <1>4, ExplicitSeq
<1>6. KeysOf(m) = KeysOf(list)
  BY <1>1, <1>3, <1>5 DEF KeysOf
<1>7. Distinct(m)
  BY <1>1, <1>3, <1>5 DEF Distinct
<1>8. ASSUME Right(list) PROVE Right(m)
  <2> SUFFICES ASSUME NEW k \in 1..n PROVE m[k].recs = Plaintext(m[k].idx)
    BY <1>5, Zenon DEF Right
  <2>1. CASE k = 1
    <3>1. m[k].recs = recs
      BY <1>1, <1>2, <2>1 DEF Element
    <3>2. QED
      BY <1>3, <2>1, <3>1
  <2>2. CASE k # 1
    BY <1>1, <1>2, <1>8, <2>2 DEF Right
  <2>3. QED
    BY <2>1, <2>2
<1>9. QED
  BY <1>5, <1>6, <1>7, <1>8 DEF m, n

\* Inserting a new element in front and cutting the list at CacheCap keeps a
\* distinct, bounded list of right records.
LEMMA PushEvictLemma ==
  ASSUME NEW list \in Seq(Element), NEW e \in Element,
         Distinct(list), e.idx \notin KeysOf(list)
  PROVE  LET p == PushEvict(list, e)
         IN  /\ p \in Seq(Element)
             /\ Len(p) <= CacheCap
             /\ KeysOf(p) \subseteq KeysOf(list) \cup {e.idx}
             /\ Len(list) < CacheCap => KeysOf(p) = KeysOf(list) \cup {e.idx}
             /\ Distinct(p)
             /\ Right(list) /\ e.recs = Plaintext(e.idx) => Right(p)
<1> DEFINE p == PushEvict(list, e)
           l == Len(list)
           n == IF l + 1 <= CacheCap THEN l + 1 ELSE CacheCap
<1>1. l \in Nat /\ DOMAIN list = 1..l /\ list \in [1..l -> Element]
  BY LenProperties
<1>2. n \in Nat /\ n <= CacheCap /\ n <= l + 1
  BY <1>1, CacheCapAssumption
<1>3. p = [k \in 1..n |-> IF k = 1 THEN e ELSE list[k - 1]]
  BY DEF PushEvict
<1>4. l < CacheCap => n = l + 1
  BY <1>1, CacheCapAssumption
<1> HIDE DEF p, n, l
<1>5. \A k \in 1..n : k # 1 => k - 1 \in 1..l /\ p[k] = list[k - 1]
  BY <1>1, <1>2, <1>3
<1>6. n >= 1 => p[1] = e
  BY <1>2, <1>3
<1>7. p \in [1..n -> Element]
  BY <1>1, <1>2, <1>3, <1>5
<1>8. p \in Seq(Element) /\ Len(p) = n /\ DOMAIN p = 1..n
  BY <1>2, <1>7, ExplicitSeq
<1>9. KeysOf(list) = {list[k].idx : k \in 1..l} /\ KeysOf(p) = {p[k].idx : k \in 1..n}
  BY <1>1, <1>8, Zenon DEF KeysOf
<1>10. KeysOf(p) \subseteq KeysOf(list) \cup {e.idx}
  <2> SUFFICES ASSUME NEW k \in 1..n PROVE p[k].idx \in KeysOf(list) \cup {e.idx}
    BY <1>9
  <2>1. CASE k = 1
    BY <1>2, <1>6, <2>1
  <2>2. CASE k # 1
    BY <1>5, <1>9, <2>2
  <2>3. QED
    BY <2>1, <2>2
<1>11. ASSUME l < CacheCap PROVE KeysOf(list) \cup {e.idx} \subseteq KeysOf(p)
  <2>1. e.idx \in KeysOf(p)
    <3>1. 1 \in 1..n
      BY <1>1, <1>4, <1>11
    <3>2. QED
      BY <1>2, <1>6, <1>9, <3>1
  <2>2. ASSUME NEW k \in 1..l PROVE list[k].idx \in KeysOf(p)
    <3>1. k + 1 \in 1..n /\ k + 1 # 1 /\ (k + 1) - 1 = k
      BY <1>1, <1>4, <1>11
    <3>2. p[k + 1] = list[k]
      BY <1>5, <3>1
    <3>3. QED
      BY <1>9, <3>1, <3>2
  <2>3. QED
    BY <1>9, <2>1, <2>2
<1>12. Distinct(p)
  <2> SUFFICES ASSUME NEW i \in 1..n, NEW j \in 1..n, p[i].idx = p[j].idx
               PROVE  i = j
    BY <1>8 DEF Distinct
  <2>1. CASE i = 1 /\ j = 1
    BY <2>1
  <2>2. CASE i # 1 /\ j # 1
    <3>1. i - 1 = j - 1
      BY <1>1, <1>5, <2>2 DEF Distinct
    <3>2. QED
      BY <1>2, <3>1
  <2>3. CASE i = 1 /\ j # 1
    BY <1>2, <1>5, <1>6, <1>9, <2>3
  <2>4. CASE i # 1 /\ j = 1
    BY <1>2, <1>5, <1>6, <1>9, <2>4
  <2>5. QED
    BY <2>1, <2>2, <2>3, <2>4
<1>13. ASSUME Right(list), e.recs = Plaintext(e.idx) PROVE Right(p)
  <2> SUFFICES ASSUME NEW k \in 1..n PROVE p[k].recs = Plaintext(p[k].idx)
    BY <1>8, Zenon DEF Right
  <2>1. CASE k = 1
    BY <1>2, <1>6, <1>13, <2>1
  <2>2. CASE k # 1
    BY <1>1, <1>5, <1>13, <2>2 DEF Right
  <2>3. QED
    BY <2>1, <2>2
<1>14. QED
  BY <1>2, <1>8, <1>10, <1>11, <1>12, <1>13 DEF p, l

-----------------------------------------------------------------------------
(* The inductive invariant of the cache.  RightRecords says nothing of a   *)
(* goroutine that is still inside its Once, so the invariant also follows  *)
(* the records through the closure (Results), and it knows that a          *)
(* goroutine past the loop test works on a chunk that exists (Located).    *)

Located ==
  \A g \in Clients : pc[g] \notin {"connected", "next", "ended"} => at[g] \in Chunks

Results ==
  \A g \in Clients :
    /\ pc[g] \in {"do", "read", "open"} => result[g] = Nil
    /\ pc[g] \in {"leave", "forget"} => result[g] \in {Nil, Plaintext(at[g])}
    /\ pc[g] \in {"put", "emit"} => result[g] = Plaintext(at[g])

ListInv ==
  /\ cacheList \in Seq(Element)
  /\ CacheCoherent
  /\ CacheBounded
  /\ Right(cacheList)

CacheInv == TypeOK /\ ListInv /\ Located /\ Results

\* Plaintext(c) is one of the record values of the model.
LEMMA PlaintextType == \A c \in Chunks : Plaintext(c) \in Records
BY DEF Plaintext, Records

\* What a hit or a re-check reads is the plaintext of the chunk asked for.
LEMMA CachedIsPlaintext ==
  ASSUME ListInv, NEW c \in cache
  PROVE  Cached(c) = Plaintext(c)
<1> DEFINE i == CHOOSE k \in DOMAIN cacheList : cacheList[k].idx = c
<1>1. i \in DOMAIN cacheList /\ cacheList[i].idx = c
  BY DEF ListInv, CacheCoherent, KeysOf
<1>2. cacheList[i].recs = Plaintext(cacheList[i].idx)
  BY <1>1 DEF ListInv, Right
<1>3. QED
  BY <1>1, <1>2 DEF Cached

\* An empty cache and goroutines that hold nothing satisfy the invariant.
LEMMA InitCacheInv == Init => CacheInv
<1> SUFFICES ASSUME Init PROVE CacheInv
  OBVIOUS
<1>1. <<>> \in Seq(Element) /\ <<>> \in Seq(Chunks) /\ Len(<<>>) = 0 /\ DOMAIN <<>> = {}
  OBVIOUS
<1>2. TypeOK
  BY <1>1, NumChunksAssumption DEF Init, TypeOK, Labels, Reasons, Records, Chunks
<1>3. ListInv
  BY <1>1, CacheCapAssumption
  DEF Init, ListInv, CacheCoherent, CacheBounded, KeysOf, Distinct, Right
<1>4. Located /\ Results
  BY DEF Init, Located, Results
<1>5. QED
  BY <1>2, <1>3, <1>4 DEF CacheInv

\* A step that moves an element to the front, as both kinds of hit do.
LEMMA HitKeepsList ==
  ASSUME ListInv, NEW c \in cache, cacheList' = MoveToFront(cacheList, c),
         cache' = cache
  PROVE  ListInv'
<1>1. c \in KeysOf(cacheList) /\ Distinct(cacheList)
  BY DEF ListInv, CacheCoherent
<1>2. /\ cacheList' \in Seq(Element)
      /\ Len(cacheList') = Len(cacheList)
      /\ KeysOf(cacheList') = KeysOf(cacheList)
      /\ Distinct(cacheList')
      /\ Right(cacheList')
  BY <1>1, MoveToFrontLemma DEF ListInv
<1>3. QED
  BY <1>2 DEF ListInv, CacheCoherent, CacheBounded

\* cachePut keeps the cache coherent, bounded and right.
LEMMA PutKeepsList ==
  ASSUME CacheInv, NEW g \in Clients, CachePut(g)
  PROVE  ListInv'
<1> DEFINE c == at[g]
<1>1. /\ c \in Chunks
      /\ result[g] = Plaintext(c)
      /\ result[g] \in Records
      /\ Distinct(cacheList)
  BY DEF CacheInv, Located, Results, CachePut, TypeOK, ListInv, CacheCoherent
<1>2. CASE c \in cache
  <2> DEFINE m == MoveToFront(cacheList, c)
  <2>1. c \in KeysOf(cacheList) /\ cacheList \in Seq(Element)
    BY <1>2 DEF CacheInv, ListInv, CacheCoherent
  <2>2. /\ m \in Seq(Element)
        /\ Len(m) = Len(cacheList)
        /\ Len(m) > 0
        /\ KeysOf(m) = KeysOf(cacheList)
        /\ Distinct(m)
        /\ m[1].idx = c
        /\ Right(m)
    BY <1>1, <2>1, MoveToFrontLemma DEF CacheInv, ListInv
  <2> HIDE DEF m
  <2>3. /\ SetFront(m, result[g]) \in Seq(Element)
        /\ Len(SetFront(m, result[g])) = Len(m)
        /\ KeysOf(SetFront(m, result[g])) = KeysOf(m)
        /\ Distinct(SetFront(m, result[g]))
        /\ Right(SetFront(m, result[g]))
    BY <1>1, <2>2, SetFrontLemma
  <2>4. cacheList' = SetFront(m, result[g]) /\ cache' = cache
    BY <1>2 DEF CachePut, m
  <2>5. QED
    BY <2>2, <2>3, <2>4
    DEF CacheInv, ListInv, CacheCoherent, CacheBounded
<1>3. CASE c \notin cache
  <2> DEFINE e == [idx |-> c, recs |-> result[g]]
             p == PushEvict(cacheList, e)
  <2>1. e \in Element /\ e.idx = c /\ e.recs = Plaintext(c)
    BY <1>1 DEF Element
  <2>2. e.idx \notin KeysOf(cacheList) /\ cacheList \in Seq(Element)
    BY <1>3 DEF CacheInv, ListInv, CacheCoherent
  <2> HIDE DEF e
  <2>3. /\ p \in Seq(Element)
        /\ Len(p) <= CacheCap
        /\ KeysOf(p) \subseteq KeysOf(cacheList) \cup {c}
        /\ Distinct(p)
        /\ Right(p)
    BY <1>1, <2>1, <2>2, PushEvictLemma DEF CacheInv, ListInv
  <2>4. /\ cacheList' = p
        /\ cache' = (cache \cup {c}) \ ((KeysOf(cacheList) \cup {c}) \ KeysOf(p))
    BY <1>3 DEF CachePut, e
  <2> HIDE DEF p
  <2>5. cache' = KeysOf(p)
    BY <2>3, <2>4 DEF CacheInv, ListInv, CacheCoherent
  <2>6. QED
    BY <2>3, <2>4, <2>5
    DEF ListInv, CacheCoherent, CacheBounded
<1>4. QED
  BY <1>2, <1>3

\* Appending keeps a sequence a sequence over the same set.
LEMMA AppendType ==
  \A S : \A s \in Seq(S) : \A e \in S : Append(s, e) \in Seq(S)
OBVIOUS

\* Counting one up keeps a function into the naturals.
LEMMA BumpType ==
  \A S : \A f \in [S -> Nat] : \A x \in S : [f EXCEPT ![x] = f[x] + 1] \in [S -> Nat]
OBVIOUS

\* Chunk numbers are naturals, and the number after one is an index position.
LEMMA ChunkNumbers ==
  /\ \A i \in 0..NumChunks : i < NumChunks => i \in Chunks /\ i + 1 \in 0..NumChunks
  /\ \A c \in Chunks : c \in 0..NumChunks /\ c + 1 \in 0..NumChunks
BY NumChunksAssumption DEF Chunks

\* Everything in the invariant but the list follows from the list's part.
LEMMA TypeStep ==
  ASSUME CacheInv, [Next]_vars, ListInv'
  PROVE  TypeOK' /\ Located' /\ Results'
<1> USE DEF CacheInv, Located, Results, TypeOK, Labels, Reasons
<1>1. cache' \subseteq Chunks /\ cacheList' \in Seq(Element)
  <2>1. cacheList' \in Seq(Element) /\ cache' = KeysOf(cacheList')
    BY DEF ListInv, CacheCoherent
  <2>2. ASSUME NEW k \in DOMAIN cacheList' PROVE cacheList'[k].idx \in Chunks
    <3>1. cacheList'[k] \in Element
      BY <2>1, LenProperties, ElementOfSeq
    <3>2. QED
      BY <3>1 DEF Element
  <2>3. KeysOf(cacheList') \subseteq Chunks
    <3>1. ASSUME NEW c \in KeysOf(cacheList') PROVE c \in Chunks
      <4>1. PICK k \in DOMAIN cacheList' : c = cacheList'[k].idx
        BY <3>1, Zenon DEF KeysOf
      <4>2. QED
        BY <2>2, <4>1, Zenon
    <3>2. QED
      BY <3>1, Zenon
  <2>4. QED
    BY <2>1, <2>3
<1>2. ASSUME NEW g \in Clients, Subscribe(g)
      PROVE  TypeOK' /\ Located' /\ Results'
  <2>1. TypeOK'
    BY <1>1, <1>2 DEF Subscribe, Goto, Records, cacheVars, onceVars
  <2>2. Located' /\ Results'
    BY <1>2 DEF Subscribe, Goto
  <2>3. QED
    BY <2>1, <2>2
<1>3. ASSUME NEW g \in Clients, SkipChunk(g)
      PROVE  TypeOK' /\ Located' /\ Results'
  <2>1. at[g] + 1 \in 0..NumChunks
    BY <1>3, ChunkNumbers DEF SkipChunk
  <2>2. TypeOK'
    BY <1>1, <1>3, <2>1 DEF SkipChunk, Goto, cacheVars, onceVars
  <2>3. Located' /\ Results'
    BY <1>3, <2>1 DEF SkipChunk, Goto
  <2>4. QED
    BY <2>2, <2>3
<1>4. ASSUME NEW g \in Clients, Finish(g)
      PROVE  TypeOK' /\ Located' /\ Results'
  <2>1. TypeOK'
    BY <1>1, <1>4 DEF Finish, Stop, Records, cacheVars, onceVars
  <2>2. Located' /\ Results'
    BY <1>4 DEF Finish, Stop
  <2>3. QED
    BY <2>1, <2>2
<1>5. ASSUME NEW g \in Clients, LookupMiss(g)
      PROVE  TypeOK' /\ Located' /\ Results'
  <2>1. at[g] \in Chunks
    BY <1>5, ChunkNumbers DEF LookupMiss
  <2>2. TypeOK'
    BY <1>1, <1>5, <2>1 DEF LookupMiss, Goto, cacheVars, onceVars
  <2>3. Located' /\ Results'
    BY <1>5, <2>1 DEF LookupMiss, Goto
  <2>4. QED
    BY <2>2, <2>3
<1>6. ASSUME NEW g \in Clients, LoadOnce(g)
      PROVE  TypeOK' /\ Located' /\ Results'
  <2>1. TypeOK'
    BY <1>1, <1>6 DEF LoadOnce, Goto, Records, cacheVars, onceVars
  <2>2. Located' /\ Results'
    BY <1>6 DEF LoadOnce, Goto
  <2>3. QED
    BY <2>1, <2>2
<1>7. ASSUME NEW g \in Clients, StoreOnce(g)
      PROVE  TypeOK' /\ Located' /\ Results'
  <2>1. PICK o \in OnceIds :
          /\ decryptOnce' = [decryptOnce EXCEPT ![at[g]] = o]
          /\ onceState' = [onceState EXCEPT ![o] = "fresh"]
          /\ once' = [once EXCEPT ![g] = o]
    BY <1>7 DEF StoreOnce
  <2>2. /\ decryptOnce' \in [Chunks -> OnceIds \cup {NoOnce}]
        /\ onceState' \in [OnceIds -> {"fresh", "running", "done"}]
        /\ once' \in [Clients -> OnceIds \cup {NoOnce}]
    BY <2>1
  <2>3. TypeOK'
    BY <1>1, <1>7, <2>2 DEF StoreOnce, Goto, Records, cacheVars
  <2>4. Located' /\ Results'
    BY <1>7 DEF StoreOnce, Goto
  <2>5. QED
    BY <2>3, <2>4
<1>8. ASSUME NEW g \in Clients, DoRun(g)
      PROVE  TypeOK' /\ Located' /\ Results'
  <2>1. TypeOK'
    BY <1>1, <1>8 DEF DoRun, Goto, Records, cacheVars, onceVars
  <2>2. Located' /\ Results'
    BY <1>8 DEF DoRun, Goto
  <2>3. QED
    BY <2>1, <2>2
<1>9. ASSUME NEW g \in Clients, DoWait(g)
      PROVE  TypeOK' /\ Located' /\ Results'
  <2>1. TypeOK'
    BY <1>1, <1>9 DEF DoWait, Goto, Records, cacheVars, onceVars
  <2>2. Located' /\ Results'
    BY <1>9 DEF DoWait, Goto
  <2>3. QED
    BY <2>1, <2>2
<1>10. ASSUME NEW g \in Clients, ReadChunk(g)
      PROVE  TypeOK' /\ Located' /\ Results'
  <2>1. TypeOK'
    BY <1>1, <1>10 DEF ReadChunk, Goto, Records, cacheVars, onceVars
  <2>2. Located' /\ Results'
    BY <1>10 DEF ReadChunk, Goto
  <2>3. QED
    BY <2>1, <2>2
<1>11. ASSUME NEW g \in Clients, OpenChunk(g)
      PROVE  TypeOK' /\ Located' /\ Results'
  <2>1. at[g] \in Chunks /\ Plaintext(at[g]) \in Records
    BY <1>11, PlaintextType DEF OpenChunk
  <2>2. /\ pc[g] = "open"
        /\ UNCHANGED <<at, window, once, delivered, why, decryptOnce, onceState, closer>>
    BY <1>11 DEF OpenChunk, onceVars
  <2>3. CASE /\ failed' = [failed EXCEPT ![g] = TRUE]
             /\ pc' = [pc EXCEPT ![g] = "leave"]
             /\ result' = result
             /\ decryptCount' = decryptCount
    <3>1. TypeOK'
      BY <1>1, <2>2, <2>3
    <3>2. Located' /\ Results'
      BY <2>2, <2>3
    <3>3. QED
      BY <3>1, <3>2
  <2>4. CASE /\ decryptCount' = [decryptCount EXCEPT ![at[g]] = @ + 1]
             /\ result' = [result EXCEPT ![g] = Plaintext(at[g])]
             /\ pc' = [pc EXCEPT ![g] = "put"]
             /\ failed' = failed
    <3>1. decryptCount' \in [Chunks -> Nat]
      <4>1. decryptCount \in [Chunks -> Nat]
        BY Zenon
      <4>2. QED
        BY <2>1, <2>4, <4>1, BumpType, Zenon
    <3>2. result' \in [Clients -> Records] /\ pc' \in [Clients -> Labels]
      BY <2>1, <2>4
    <3>3. TypeOK'
      BY <1>1, <2>2, <2>4, <3>1, <3>2
    <3>4. Located' /\ Results'
      BY <2>2, <2>4
    <3>5. QED
      BY <3>3, <3>4
  <2>5. QED
    BY <1>11, <2>3, <2>4, Zenon DEF OpenChunk, Goto
<1>12. ASSUME NEW g \in Clients, LeaveOnce(g)
      PROVE  TypeOK' /\ Located' /\ Results'
  <2>1. TypeOK'
    BY <1>1, <1>12 DEF LeaveOnce, Goto, Records, cacheVars, onceVars
  <2>2. Located' /\ Results'
    BY <1>12 DEF LeaveOnce, Goto
  <2>3. QED
    BY <2>1, <2>2
<1>13. ASSUME NEW g \in Clients, ForgetOnce(g)
      PROVE  TypeOK' /\ Located' /\ Results'
  <2>1. TypeOK'
    BY <1>1, <1>13 DEF ForgetOnce, Goto, Stop, Records, cacheVars, onceVars
  <2>2. Located' /\ Results'
    BY <1>13 DEF ForgetOnce, Goto, Stop
  <2>3. QED
    BY <2>1, <2>2
<1>14. ASSUME NEW g \in Clients, RecheckMiss(g)
      PROVE  TypeOK' /\ Located' /\ Results'
  <2>1. TypeOK'
    BY <1>1, <1>14 DEF RecheckMiss, Stop, Records, cacheVars, onceVars
  <2>2. Located' /\ Results'
    BY <1>14 DEF RecheckMiss, Stop
  <2>3. QED
    BY <2>1, <2>2
<1>15. ASSUME NEW g \in Clients, Emit(g)
      PROVE  TypeOK' /\ Located' /\ Results'
  <2>1. at[g] \in Chunks /\ result[g] \in {Nil, at[g]}
    BY <1>15 DEF Emit, Plaintext
  <2>2. at[g] + 1 \in 0..NumChunks
    BY <2>1, ChunkNumbers
  <2>3. delivered' \in [Clients -> Seq(Chunks)]
    <3>1. ASSUME result[g] # Nil PROVE Append(delivered[g], result[g]) \in Seq(Chunks)
      <4>1. result[g] \in Chunks /\ delivered[g] \in Seq(Chunks)
        BY <2>1, <3>1, Zenon
      <4> HIDE DEF CacheInv
      <4>2. QED
        BY <4>1, AppendType
    <3>2. QED
      BY <1>15, <3>1 DEF Emit
  <2>4. TypeOK'
    BY <1>1, <1>15, <2>2, <2>3 DEF Emit, Goto, Records, cacheVars, onceVars
  <2>5. Located' /\ Results'
    BY <1>15 DEF Emit, Goto
  <2>6. QED
    BY <2>4, <2>5
<1>16. ASSUME NEW g \in Clients, SendFails(g)
      PROVE  TypeOK' /\ Located' /\ Results'
  <2>1. TypeOK'
    BY <1>1, <1>16 DEF SendFails, Stop, Records, cacheVars, onceVars
  <2>2. Located' /\ Results'
    BY <1>16 DEF SendFails, Stop
  <2>3. QED
    BY <2>1, <2>2
<1>17. ASSUME NEW g \in Clients, CachePut(g)
      PROVE  TypeOK' /\ Located' /\ Results'
  <2>1. TypeOK'
    BY <1>1, <1>17 DEF CachePut, Goto, Records, cacheVars, onceVars
  <2>2. Located' /\ Results'
    BY <1>17 DEF CachePut, Goto
  <2>3. QED
    BY <2>1, <2>2
<1>18. ASSUME NEW g \in Clients, LookupHit(g)
      PROVE  TypeOK' /\ Located' /\ Results'
  <2>1. Cached(at[g]) = Plaintext(at[g]) /\ at[g] \in Chunks
    BY <1>18, CachedIsPlaintext DEF LookupHit
  <2>2. Plaintext(at[g]) \in Records
    BY <2>1, PlaintextType
  <2>3. TypeOK'
    BY <1>1, <1>18, <2>1, <2>2 DEF LookupHit, Goto, Return, Records, cacheVars, onceVars
  <2>4. Located' /\ Results'
    BY <1>18, <2>1 DEF LookupHit, Goto, Return
  <2>5. QED
    BY <2>3, <2>4
<1>19. ASSUME NEW g \in Clients, RecheckHit(g)
      PROVE  TypeOK' /\ Located' /\ Results'
  <2>1. Cached(at[g]) = Plaintext(at[g]) /\ at[g] \in Chunks
    BY <1>19, CachedIsPlaintext DEF RecheckHit
  <2>2. Plaintext(at[g]) \in Records
    BY <2>1, PlaintextType
  <2>3. TypeOK'
    BY <1>1, <1>19, <2>1, <2>2 DEF RecheckHit, Goto, Return, Records, cacheVars, onceVars
  <2>4. Located' /\ Results'
    BY <1>19, <2>1 DEF RecheckHit, Goto, Return
  <2>5. QED
    BY <2>3, <2>4
<1>20. ASSUME CloseCache
      PROVE  TypeOK' /\ Located' /\ Results'
  BY <1>1, <1>20 DEF CloseCache, streamVars, cacheVars, onceVars
<1>21. ASSUME CloseKey
      PROVE  TypeOK' /\ Located' /\ Results'
  BY <1>1, <1>21 DEF CloseKey, streamVars, cacheVars, onceVars
<1>22. ASSUME CloseFile
      PROVE  TypeOK' /\ Located' /\ Results'
  BY <1>1, <1>22 DEF CloseFile, streamVars, cacheVars, onceVars
<1>23. ASSUME UNCHANGED vars
      PROVE  TypeOK' /\ Located' /\ Results'
  BY <1>1, <1>23 DEF vars
<1>24. QED
  BY <1>2, <1>3, <1>4, <1>5, <1>6, <1>7, <1>8, <1>9, <1>10, <1>11, <1>12, <1>13, <1>14, <1>15, <1>16, <1>17, <1>18, <1>19, <1>20, <1>21, <1>22, <1>23 DEF Next, Step

\* The list changes only under cacheMu: a hit, a put, or Close.
LEMMA ListStep ==
  ASSUME CacheInv, [Next]_vars
  PROVE  ListInv'
<1>1. CASE cacheVars' = cacheVars
  BY <1>1 DEF cacheVars, CacheInv, ListInv, CacheCoherent, CacheBounded
<1>2. ASSUME NEW g \in Clients, LookupHit(g) \/ RecheckHit(g)
      PROVE  ListInv'
  BY <1>2, HitKeepsList DEF LookupHit, RecheckHit, CacheInv
<1>3. ASSUME NEW g \in Clients, CachePut(g)
      PROVE  ListInv'
  BY <1>3, PutKeepsList
<1>4. CASE CloseCache
  <2>1. cacheList' = <<>> /\ cache' = {}
    BY <1>4 DEF CloseCache
  <2>2. <<>> \in Seq(Element) /\ Len(<<>>) = 0 /\ DOMAIN <<>> = {}
    OBVIOUS
  <2>3. CacheCoherent'
    BY <2>1, <2>2 DEF CacheCoherent, KeysOf, Distinct
  <2>4. CacheBounded' /\ Right(cacheList')
    BY <2>1, <2>2, CacheCapAssumption DEF CacheBounded, Right
  <2>5. QED
    BY <2>1, <2>2, <2>3, <2>4 DEF ListInv
<1>5. QED
  BY <1>1, <1>2, <1>3, <1>4
  DEF Next, Step, Subscribe, SkipChunk, Finish, LookupMiss, LoadOnce, StoreOnce,
      DoRun, DoWait, ReadChunk, OpenChunk, LeaveOnce, ForgetOnce, RecheckMiss,
      Emit, SendFails, CloseKey, CloseFile, vars, cacheVars

\* The state of the bridge stays well formed, and its cache coherent, bounded
\* and right, whatever getDecryptedChunk, cachePut and Close interleave.
THEOREM CacheInvariant == Spec => []CacheInv
<1>1. CacheInv /\ [Next]_vars => CacheInv'
  BY ListStep, TypeStep DEF CacheInv
<1>2. QED
  BY <1>1, InitCacheInv, PTL DEF Spec

\* Every variable of the bridge keeps its type, for any number of clients,
\* chunks and cache slots.
THEOREM TypeCorrect == Spec => []TypeOK
<1>1. CacheInv => TypeOK
  BY DEF CacheInv
<1>2. QED
  BY <1>1, CacheInvariant, PTL

\* The LRU map and list agree whatever goroutines and Close interleave
\* (getDecryptedChunk, cachePut, Close).
THEOREM CacheStaysCoherent == Spec => []CacheCoherent
<1>1. CacheInv => CacheCoherent
  BY DEF CacheInv, ListInv
<1>2. QED
  BY <1>1, CacheInvariant, PTL

\* The bridge never holds more than cacheCap decompressed chunks: the eviction
\* loop of cachePut, for any capacity, zero included.
THEOREM CacheStaysBounded == Spec => []CacheBounded
<1>1. CacheInv => CacheBounded
  BY DEF CacheInv, ListInv
<1>2. QED
  BY <1>1, CacheInvariant, PTL

\* Nobody is ever given the plaintext of another chunk by getDecryptedChunk,
\* from the cache or from a closure's captured result.
THEOREM RecordsStayRight == Spec => []RightRecords
<1>1. CacheInv => RightRecords
  BY DEF CacheInv, ListInv, Right, Results, RightRecords
<1>2. QED
  BY <1>1, CacheInvariant, PTL

-----------------------------------------------------------------------------
(* The sync.Once objects.  OnceIsHeld and RunningOnceHasRunner are         *)
(* inductive together with two facts about the goroutines themselves: one  *)
(* in flight refers to a Once, and one inside the closure to a running one.*)

OnceInv ==
  /\ OnceIsHeld
  /\ RunningOnceHasRunner
  /\ \A g \in Clients : InFlight(g) => once[g] \in OnceIds
  /\ \A g \in Clients : Inside(g) => onceState[once[g]] = "running"

\* A step that leaves the Once objects alone, and every goroutine on its side
\* of the closure and of the delete, keeps the invariant.
LEMMA OnceFrame ==
  ASSUME OnceInv, UNCHANGED <<once, decryptOnce, onceState>>,
         \A h \in Clients : /\ InFlight(h)' = InFlight(h)
                            /\ Inside(h)' = Inside(h)
                            /\ InFlight(h) => at'[h] = at[h]
  PROVE  OnceInv'
<1>1. OnceIsHeld'
  BY DEF OnceInv, OnceIsHeld
<1>2. RunningOnceHasRunner'
  BY DEF OnceInv, RunningOnceHasRunner
<1>3. QED
  BY <1>1, <1>2 DEF OnceInv

\* The steps of one goroutine that OnceFrame covers.
LEMMA OnceQuietStep ==
  ASSUME TypeOK, OnceInv, NEW g \in Clients,
         \/ Subscribe(g) \/ SkipChunk(g) \/ Finish(g)
         \/ LookupHit(g) \/ LookupMiss(g) \/ DoWait(g)
         \/ ReadChunk(g) \/ OpenChunk(g) \/ CachePut(g)
         \/ RecheckHit(g) \/ RecheckMiss(g) \/ Emit(g) \/ SendFails(g)
  PROVE  OnceInv'
<1>1. UNCHANGED <<once, decryptOnce, onceState>>
  BY DEF Subscribe, SkipChunk, Finish, LookupHit, LookupMiss, DoWait, ReadChunk,
         OpenChunk, CachePut, RecheckHit, RecheckMiss, Emit, SendFails, onceVars
<1>2. /\ pc' \in [Clients -> Labels]
      /\ \A h \in Clients \ {g} : pc'[h] = pc[h] /\ at'[h] = at[h]
  <2>1. \/ pc' = pc
        \/ \E l \in Labels : pc' = [pc EXCEPT ![g] = l]
    BY Zenon
    DEF Subscribe, SkipChunk, Finish, LookupHit, LookupMiss, DoWait, ReadChunk,
        OpenChunk, CachePut, RecheckHit, RecheckMiss, Emit, SendFails,
        Goto, Stop, Return, Labels
  <2>2. at' = at \/ at' = [at EXCEPT ![g] = at[g] + 1]
    BY DEF Subscribe, SkipChunk, Finish, LookupHit, LookupMiss, DoWait, ReadChunk,
           OpenChunk, CachePut, RecheckHit, RecheckMiss, Emit, SendFails
  <2>3. QED
    BY <2>1, <2>2 DEF TypeOK
<1>3. /\ InFlight(g)' = InFlight(g)
      /\ Inside(g)' = Inside(g)
      /\ InFlight(g) => at'[g] = at[g]
  <2>1. CASE Subscribe(g) \/ SkipChunk(g) \/ Finish(g) \/ LookupHit(g) \/ LookupMiss(g)
    BY <2>1 DEF TypeOK, InFlight, Inside, Subscribe, SkipChunk, Finish, LookupHit,
                LookupMiss, Goto, Stop, Return
  <2>2. CASE RecheckHit(g) \/ RecheckMiss(g) \/ Emit(g) \/ SendFails(g)
    <3>1. /\ pc[g] \in {"recheck", "emit"}
          /\ \E l \in {"emit", "next", "ended"} : pc' = [pc EXCEPT ![g] = l]
      BY <2>2, Zenon DEF RecheckHit, RecheckMiss, Emit, SendFails, Goto, Stop, Return
    <3>2. pc[g] \in {"recheck", "emit"} /\ pc'[g] \in {"emit", "next", "ended"}
      BY <3>1 DEF TypeOK
    <3>3. QED
      BY <3>2 DEF InFlight, Inside
  <2>3. CASE DoWait(g) \/ ReadChunk(g)
    BY <2>3 DEF TypeOK, InFlight, Inside, DoWait, ReadChunk, Goto
  <2>4. CASE OpenChunk(g)
    BY <2>4 DEF TypeOK, InFlight, Inside, OpenChunk, Goto
  <2>5. CASE CachePut(g)
    BY <2>5 DEF TypeOK, InFlight, Inside, CachePut, Goto
  <2>6. QED
    BY <2>1, <2>2, <2>3, <2>4, <2>5
<1>4. QED
  BY <1>1, <1>2, <1>3, OnceFrame DEF InFlight, Inside

\* Every step keeps the invariant on Once objects: StoreOnce puts a new one
\* in the map, ForgetOnce takes it out, DoRun and LeaveOnce enter and leave
\* its closure.
LEMMA OnceStep ==
  ASSUME TypeOK, Located, OnceInv, [Next]_vars
  PROVE  OnceInv'
<1>1. ASSUME NEW g \in Clients, LoadOnce(g)
      PROVE  OnceInv'
  <2>1. PICK h \in Clients : InFlight(h) /\ at[h] = at[g] /\ once[h] = decryptOnce[at[g]]
    BY <1>1 DEF LoadOnce, OnceInv, OnceIsHeld, Located
  <2>2. /\ pc[g] = "missed" /\ pc' = [pc EXCEPT ![g] = "do"]
        /\ once' = [once EXCEPT ![g] = once[h]]
        /\ UNCHANGED <<at, decryptOnce, onceState>>
    BY <1>1, <2>1 DEF LoadOnce, Goto, onceVars
  <2>3. /\ \A k \in Clients : k # g => pc'[k] = pc[k] /\ once'[k] = once[k]
        /\ pc'[g] = "do" /\ once'[g] = once[h] /\ g # h
    BY <2>1, <2>2 DEF TypeOK, InFlight
  <2>4. OnceIsHeld'
    BY <2>2, <2>3 DEF OnceInv, OnceIsHeld, InFlight
  <2>5. RunningOnceHasRunner'
    <3>1. \A k \in Clients : Inside(k)' <=> Inside(k)
      BY <2>2, <2>3 DEF Inside
    <3>2. \A k \in Clients : Inside(k) => once'[k] = once[k]
      BY <2>2, <2>3 DEF Inside
    <3>3. QED
      BY <2>2, <2>3, <3>1, <3>2 DEF OnceInv, RunningOnceHasRunner
  <2>6. QED
    BY <2>1, <2>2, <2>3, <2>4, <2>5 DEF OnceInv, InFlight, Inside
<1>2. ASSUME NEW g \in Clients, StoreOnce(g)
      PROVE  OnceInv'
  <2>1. PICK o \in OnceIds \ LiveOnces :
          /\ decryptOnce' = [decryptOnce EXCEPT ![at[g]] = o]
          /\ onceState' = [onceState EXCEPT ![o] = "fresh"]
          /\ once' = [once EXCEPT ![g] = o]
    BY <1>2 DEF StoreOnce
  <2>2. \A k \in Clients : once[k] # o
    BY <2>1 DEF LiveOnces
  <2>3. pc[g] = "missed" /\ pc' = [pc EXCEPT ![g] = "do"] /\ at' = at
    BY <1>2 DEF StoreOnce, Goto
  <2>4. /\ \A k \in Clients : k # g => pc'[k] = pc[k] /\ once'[k] = once[k]
        /\ pc'[g] = "do" /\ once'[g] = o /\ onceState'[o] = "fresh"
        /\ \A p \in OnceIds : p # o => onceState'[p] = onceState[p]
    BY <2>1, <2>3 DEF TypeOK
  <2>5. OnceIsHeld'
    <3> SUFFICES ASSUME NEW c \in Chunks, decryptOnce'[c] # NoOnce
                 PROVE  \E k \in Clients :
                          InFlight(k)' /\ at'[k] = c /\ once'[k] = decryptOnce'[c]
      BY DEF OnceIsHeld
    <3>1. CASE c = at[g]
      BY <2>1, <2>3, <2>4, <3>1 DEF TypeOK, InFlight
    <3>2. CASE c # at[g]
      <4>1. decryptOnce'[c] = decryptOnce[c]
        BY <2>1, <3>2 DEF TypeOK
      <4>2. PICK k \in Clients : InFlight(k) /\ at[k] = c /\ once[k] = decryptOnce[c]
        BY <4>1 DEF OnceInv, OnceIsHeld
      <4>3. QED
        BY <2>3, <2>4, <3>2, <4>1, <4>2 DEF InFlight
    <3>3. QED
      BY <3>1, <3>2
  <2>6. \A k \in Clients : /\ Inside(k)' <=> Inside(k)
                           /\ Inside(k) => once'[k] = once[k] /\ k # g
    BY <2>3, <2>4 DEF Inside
  <2>7. RunningOnceHasRunner'
    <3>1. ASSUME NEW h \in Clients, NEW k \in Clients, Inside(h)', Inside(k)',
                 once'[h] = once'[k]
          PROVE  h = k
      BY <2>6, <3>1 DEF OnceInv, RunningOnceHasRunner
    <3>2. ASSUME NEW k \in Clients, once'[k] \in OnceIds, onceState'[once'[k]] = "running"
          PROVE  \E h \in Clients : Inside(h)' /\ once'[h] = once'[k]
      <4>1. k # g /\ once'[k] = once[k] /\ onceState[once[k]] = "running"
        BY <2>2, <2>4, <3>2
      <4>2. PICK h \in Clients : Inside(h) /\ once[h] = once[k]
        BY <3>2, <4>1 DEF OnceInv, RunningOnceHasRunner
      <4>3. QED
        BY <2>6, <4>1, <4>2
    <3>3. QED
      BY <3>1, <3>2 DEF RunningOnceHasRunner
  <2>8. \A k \in Clients : InFlight(k)' => once'[k] \in OnceIds
    BY <2>1, <2>3, <2>4 DEF OnceInv, InFlight
  <2>9. \A k \in Clients : Inside(k)' => onceState'[once'[k]] = "running"
    <3> SUFFICES ASSUME NEW k \in Clients, Inside(k)'
                 PROVE  onceState'[once'[k]] = "running"
      OBVIOUS
    <3>1. Inside(k) /\ once'[k] = once[k] /\ once[k] \in OnceIds
      BY <2>6 DEF OnceInv, Inside, InFlight
    <3>2. QED
      BY <2>2, <2>4, <3>1 DEF OnceInv
  <2>10. QED
    BY <2>5, <2>7, <2>8, <2>9 DEF OnceInv
<1>3. ASSUME NEW g \in Clients, DoRun(g)
      PROVE  OnceInv'
  <2>1. /\ pc[g] = "do" /\ onceState[once[g]] = "fresh"
        /\ onceState' = [onceState EXCEPT ![once[g]] = "running"]
        /\ pc' = [pc EXCEPT ![g] = "read"]
        /\ UNCHANGED <<at, once, decryptOnce>>
    BY <1>3 DEF DoRun, Goto
  <2>2. once[g] \in OnceIds
    BY <2>1 DEF OnceInv, InFlight
  <2>3. /\ \A k \in Clients : k # g => pc'[k] = pc[k]
        /\ pc'[g] = "read" /\ onceState'[once[g]] = "running"
        /\ \A p \in OnceIds : p # once[g] => onceState'[p] = onceState[p]
    BY <2>1, <2>2 DEF TypeOK
  <2>4. \A k \in Clients : /\ InFlight(k)' <=> InFlight(k)
                           /\ Inside(k)' <=> Inside(k) \/ k = g
    BY <2>1, <2>3 DEF InFlight, Inside
  <2>5. \A k \in Clients : Inside(k) => once[k] # once[g]
    BY <2>1 DEF OnceInv
  <2>6. OnceIsHeld'
    BY <2>1, <2>4 DEF OnceInv, OnceIsHeld
  <2>7. RunningOnceHasRunner'
    <3>1. ASSUME NEW h \in Clients, NEW k \in Clients, Inside(h)', Inside(k)',
                 once'[h] = once'[k]
          PROVE  h = k
      BY <2>1, <2>4, <2>5, <3>1 DEF OnceInv, RunningOnceHasRunner
    <3>2. ASSUME NEW k \in Clients, once'[k] \in OnceIds, onceState'[once'[k]] = "running"
          PROVE  \E h \in Clients : Inside(h)' /\ once'[h] = once'[k]
      <4>1. CASE once[k] = once[g]
        BY <2>1, <2>4, <4>1
      <4>2. CASE once[k] # once[g]
        BY <2>1, <2>3, <2>4, <3>2, <4>2 DEF OnceInv, RunningOnceHasRunner
      <4>3. QED
        BY <4>1, <4>2
    <3>3. QED
      BY <3>1, <3>2 DEF RunningOnceHasRunner
  <2>8. \A k \in Clients : Inside(k)' => onceState'[once'[k]] = "running"
    <3> SUFFICES ASSUME NEW k \in Clients, Inside(k)'
                 PROVE  onceState'[once'[k]] = "running"
      OBVIOUS
    <3>1. CASE k = g
      BY <2>1, <2>3, <3>1
    <3>2. CASE k # g
      <4>1. Inside(k) /\ once[k] \in OnceIds /\ once[k] # once[g]
        BY <2>4, <2>5, <3>2 DEF OnceInv, Inside, InFlight
      <4>2. QED
        BY <2>1, <2>3, <4>1 DEF OnceInv
    <3>3. QED
      BY <3>1, <3>2
  <2>9. \A k \in Clients : InFlight(k)' => once'[k] \in OnceIds
    BY <2>1, <2>4 DEF OnceInv
  <2>10. QED
    BY <2>6, <2>7, <2>8, <2>9 DEF OnceInv
<1>4. ASSUME NEW g \in Clients, LeaveOnce(g)
      PROVE  OnceInv'
  <2>1. /\ pc[g] = "leave"
        /\ onceState' = [onceState EXCEPT ![once[g]] = "done"]
        /\ pc' = [pc EXCEPT ![g] = "forget"]
        /\ UNCHANGED <<at, once, decryptOnce>>
    BY <1>4 DEF LeaveOnce, Goto
  <2>2. once[g] \in OnceIds /\ Inside(g)
    BY <2>1 DEF OnceInv, InFlight, Inside
  <2>3. /\ \A k \in Clients : k # g => pc'[k] = pc[k]
        /\ pc'[g] = "forget" /\ onceState'[once[g]] = "done"
        /\ \A p \in OnceIds : p # once[g] => onceState'[p] = onceState[p]
    BY <2>1, <2>2 DEF TypeOK
  <2>4. \A k \in Clients : /\ InFlight(k)' <=> InFlight(k)
                           /\ Inside(k)' <=> Inside(k) /\ k # g
    BY <2>1, <2>3 DEF InFlight, Inside
  <2>5. \A k \in Clients : Inside(k) /\ k # g => once[k] # once[g]
    BY <2>2 DEF OnceInv, RunningOnceHasRunner
  <2>6. OnceIsHeld'
    BY <2>1, <2>4 DEF OnceInv, OnceIsHeld
  <2>7. RunningOnceHasRunner'
    <3>1. ASSUME NEW h \in Clients, NEW k \in Clients, Inside(h)', Inside(k)',
                 once'[h] = once'[k]
          PROVE  h = k
      BY <2>1, <2>4, <3>1 DEF OnceInv, RunningOnceHasRunner
    <3>2. ASSUME NEW k \in Clients, once'[k] \in OnceIds, onceState'[once'[k]] = "running"
          PROVE  \E h \in Clients : Inside(h)' /\ once'[h] = once'[k]
      <4>1. once[k] # once[g] /\ onceState[once[k]] = "running" /\ once[k] \in OnceIds
        BY <2>1, <2>3, <3>2
      <4>2. PICK h \in Clients : Inside(h) /\ once[h] = once[k]
        BY <4>1 DEF OnceInv, RunningOnceHasRunner
      <4>3. QED
        BY <2>1, <2>4, <4>1, <4>2
    <3>3. QED
      BY <3>1, <3>2 DEF RunningOnceHasRunner
  <2>8. \A k \in Clients : Inside(k)' => onceState'[once'[k]] = "running"
    <3> SUFFICES ASSUME NEW k \in Clients, Inside(k)'
                 PROVE  onceState'[once'[k]] = "running"
      OBVIOUS
    <3>1. Inside(k) /\ once[k] \in OnceIds /\ once[k] # once[g]
      BY <2>4, <2>5 DEF OnceInv, Inside, InFlight
    <3>2. QED
      BY <2>1, <2>3, <3>1 DEF OnceInv
  <2>9. \A k \in Clients : InFlight(k)' => once'[k] \in OnceIds
    BY <2>1, <2>4 DEF OnceInv
  <2>10. QED
    BY <2>6, <2>7, <2>8, <2>9 DEF OnceInv
<1>5. ASSUME NEW g \in Clients, ForgetOnce(g)
      PROVE  OnceInv'
  <2>1. /\ pc[g] = "forget" /\ at[g] \in Chunks
        /\ decryptOnce' = [decryptOnce EXCEPT ![at[g]] = NoOnce]
        /\ once' = [once EXCEPT ![g] = NoOnce]
        /\ UNCHANGED <<at, onceState>>
    BY <1>5 DEF ForgetOnce, Located
  <2>2. /\ \A k \in Clients : k # g => pc'[k] = pc[k] /\ once'[k] = once[k]
        /\ pc'[g] \in {"ended", "emit", "recheck"} /\ once'[g] = NoOnce
    BY <1>5, <2>1 DEF ForgetOnce, Goto, Stop, TypeOK
  <2>3. \A k \in Clients : /\ InFlight(k)' <=> InFlight(k) /\ k # g
                           /\ Inside(k)' <=> Inside(k)
                           /\ Inside(k) => k # g
    BY <2>1, <2>2 DEF InFlight, Inside
  <2>4. OnceIsHeld'
    <3> SUFFICES ASSUME NEW c \in Chunks, decryptOnce'[c] # NoOnce
                 PROVE  \E k \in Clients :
                          InFlight(k)' /\ at'[k] = c /\ once'[k] = decryptOnce'[c]
      BY DEF OnceIsHeld
    <3>1. c # at[g] /\ decryptOnce'[c] = decryptOnce[c]
      BY <2>1 DEF TypeOK
    <3>2. PICK k \in Clients : InFlight(k) /\ at[k] = c /\ once[k] = decryptOnce[c]
      BY <3>1 DEF OnceInv, OnceIsHeld
    <3>3. QED
      BY <2>1, <2>2, <2>3, <3>1, <3>2
  <2>5. RunningOnceHasRunner'
    <3>1. ASSUME NEW h \in Clients, NEW k \in Clients, Inside(h)', Inside(k)',
                 once'[h] = once'[k]
          PROVE  h = k
      BY <2>2, <2>3, <3>1 DEF OnceInv, RunningOnceHasRunner
    <3>2. ASSUME NEW k \in Clients, once'[k] \in OnceIds, onceState'[once'[k]] = "running"
          PROVE  \E h \in Clients : Inside(h)' /\ once'[h] = once'[k]
      <4>1. k # g /\ once'[k] = once[k] /\ onceState[once[k]] = "running"
        BY <2>1, <2>2, <3>2, NoOnceAssumption
      <4>2. PICK h \in Clients : Inside(h) /\ once[h] = once[k]
        BY <3>2, <4>1 DEF OnceInv, RunningOnceHasRunner
      <4>3. QED
        BY <2>2, <2>3, <4>1, <4>2
    <3>3. QED
      BY <3>1, <3>2 DEF RunningOnceHasRunner
  <2>6. /\ \A k \in Clients : InFlight(k)' => once'[k] \in OnceIds
        /\ \A k \in Clients : Inside(k)' => onceState'[once'[k]] = "running"
    BY <2>1, <2>2, <2>3 DEF OnceInv
  <2>7. QED
    BY <2>4, <2>5, <2>6 DEF OnceInv
<1>6. ASSUME CloseCache \/ CloseKey \/ CloseFile \/ UNCHANGED vars
      PROVE  OnceInv'
  <2>1. UNCHANGED <<pc, at, once, decryptOnce, onceState>>
    BY <1>6 DEF CloseCache, CloseKey, CloseFile, vars, streamVars, onceVars
  <2>2. QED
    BY <2>1, OnceFrame DEF InFlight, Inside
<1>7. QED
  BY <1>1, <1>2, <1>3, <1>4, <1>5, <1>6, OnceQuietStep DEF Next, Step

\* In the beginning there is no Once in the map and no goroutine in flight.
LEMMA InitOnceInv == Init => OnceInv
  BY NoOnceAssumption DEF Init, OnceInv, OnceIsHeld, RunningOnceHasRunner, InFlight, Inside

\* The sync.Once objects of getDecryptedChunk are used as they should be:
\* those in the map are held, those that run are run by one goroutine.
THEOREM OnceInvariant == Spec => []OnceInv
<1>1. CacheInv => TypeOK /\ Located
  BY DEF CacheInv
<1>2. TypeOK /\ Located /\ OnceInv /\ [Next]_vars => OnceInv'
  BY OnceStep
<1>3. QED
  BY <1>1, <1>2, InitOnceInv, CacheInvariant, PTL DEF Spec

\* No spent Once is ever left behind in the map (getDecryptedChunk).
THEOREM OnceStaysHeld == Spec => []OnceIsHeld
<1>1. OnceInv => OnceIsHeld
  BY DEF OnceInv
<1>2. QED
  BY <1>1, OnceInvariant, PTL

\* Nobody ever waits for a decryption that no goroutine is doing, and no two
\* goroutines are inside the same closure (once.Do).
THEOREM RunnersStayUnique == Spec => []RunningOnceHasRunner
<1>1. OnceInv => RunningOnceHasRunner
  BY DEF OnceInv
<1>2. QED
  BY <1>1, OnceInvariant, PTL

-----------------------------------------------------------------------------
(* The refinement of ChunkStreams.  What a stream has handed over is what  *)
(* it wants of the chunks ahead of the one it is at; a goroutine past the  *)
(* time test is at a chunk of its range.                                   *)

\* The chunks stream g has to hand over.
Wants(g) == {c \in Chunks : InRange(c, window[g]) /\ c \notin EmptyChunks}

HandedInv ==
  /\ \A g \in Clients : why[g] = "running" <=> pc[g] # "ended"
  /\ \A g \in Clients :
       pc[g] \notin {"connected", "next", "ended"} => Overlaps(at[g], window[g])
  /\ \A g \in Clients : Promise!Handed(g) = {c \in Wants(g) : c < at[g]}

\* The time test of iterateMessages is exact: it lets a chunk through when
\* some time lies both in the chunk and in the range.
LEMMA OverlapIsExact ==
  ASSUME NEW c \in Chunks, NEW w \in Windows
  PROVE  Overlaps(c, w) <=> InRange(c, w)
<1> DEFINE a == ChunkSpan[c].start
           b == ChunkSpan[c].end
<1>1. a \in Nat /\ b \in Nat /\ a <= b
  BY SpanAssumption
<1>2. w.from \in Nat /\ w.to \in Nat /\ w.from <= w.to
  BY WindowsAssumption
<1>3. Overlaps(c, w) <=> ~ (b < w.from \/ a > w.to)
  BY DEF Overlaps
<1>4. InRange(c, w) <=> \E t \in a .. b : w.from <= t /\ t <= w.to
  BY DEF InRange
<1> HIDE DEF a, b
<1>5. ASSUME Overlaps(c, w) PROVE InRange(c, w)
  <2>1. CASE a <= w.from
    BY <1>1, <1>2, <1>3, <1>4, <1>5, <2>1
  <2>2. CASE ~ (a <= w.from)
    <3>1. a \in a .. b /\ w.from <= a /\ a <= w.to
      BY <1>1, <1>2, <1>3, <1>5, <2>2
    <3>2. QED
      BY <1>4, <3>1
  <2>3. QED
    BY <2>1, <2>2
<1>6. ASSUME InRange(c, w) PROVE Overlaps(c, w)
  BY <1>1, <1>2, <1>3, <1>4, <1>6
<1>7. QED
  BY <1>5, <1>6

\* What a stream has handed over after one more chunk.
LEMMA HandedGrows ==
  ASSUME NEW S, NEW s \in Seq(S), NEW e \in S
  PROVE  {Append(s, e)[k] : k \in DOMAIN Append(s, e)} = {s[k] : k \in DOMAIN s} \cup {e}
<1>1. Len(s) \in Nat /\ DOMAIN s = 1..Len(s)
  OBVIOUS
<1>2. /\ DOMAIN Append(s, e) = 1..(Len(s) + 1)
      /\ Append(s, e)[Len(s) + 1] = e
      /\ \A k \in 1..Len(s) : Append(s, e)[k] = s[k]
  OBVIOUS
<1> DEFINE n == Len(s)
           t == Append(s, e)
<1> HIDE DEF n, t
<1>3. n \in Nat /\ DOMAIN s = 1..n /\ DOMAIN t = 1..(n + 1) /\ t[n + 1] = e
      /\ \A k \in 1..n : t[k] = s[k]
  BY <1>1, <1>2 DEF n, t
<1>4. ASSUME NEW k \in 1..(n + 1) PROVE t[k] \in {s[j] : j \in 1..n} \cup {e}
  <2>1. k = n + 1 \/ k \in 1..n
    BY <1>3
  <2>2. QED
    BY <1>3, <2>1
<1>5. ASSUME NEW k \in 1..n PROVE s[k] \in {t[j] : j \in 1..(n + 1)}
  <2>1. k \in 1..(n + 1) /\ t[k] = s[k]
    BY <1>3
  <2>2. QED
    BY <2>1
<1>6. e \in {t[j] : j \in 1..(n + 1)}
  <2>1. n + 1 \in 1..(n + 1)
    BY <1>3
  <2>2. QED
    BY <1>3, <2>1
<1>7. {t[k] : k \in 1..(n + 1)} = {s[k] : k \in 1..n} \cup {e}
  BY <1>4, <1>5, <1>6
<1>8. QED
  BY <1>3, <1>7 DEF t

\* Nothing has been handed over in the beginning.
LEMMA InitHandedInv == Init => HandedInv
<1> SUFFICES ASSUME Init PROVE HandedInv
  OBVIOUS
<1>1. ASSUME NEW g \in Clients
      PROVE  Promise!Handed(g) = {c \in Wants(g) : c < at[g]}
  <2>1. delivered[g] = <<>> /\ at[g] = 0
    BY DEF Init
  <2>2. \A c \in Wants(g) : ~ (c < at[g])
    BY <2>1, NumChunksAssumption DEF Wants, Chunks
  <2>3. Promise!Handed(g) = {}
    BY <2>1 DEF Promise!Handed
  <2>4. QED
    BY <2>2, <2>3
<1>2. QED
  BY <1>1 DEF Init, HandedInv

\* A step that hands nothing over and stays at its chunk.
LEMMA HandedFrame ==
  ASSUME HandedInv, UNCHANGED <<window, delivered, at>>,
         \A g \in Clients : why'[g] = "running" <=> pc'[g] # "ended",
         \A g \in Clients :
           pc'[g] \notin {"connected", "next", "ended"} => Overlaps(at[g], window[g])
  PROVE  HandedInv'
<1>1. \A g \in Clients : Promise!Handed(g)' = Promise!Handed(g) /\ Wants(g)' = Wants(g)
  BY DEF Promise!Handed, Wants
<1>2. QED
  BY <1>1 DEF HandedInv

\* The steps of one goroutine at its chunk: none hands anything over, and a
\* goroutine that ends gives a reason.
LEMMA HandedQuiet ==
  ASSUME TypeOK, HandedInv, NEW g \in Clients,
         \/ Subscribe(g) \/ Finish(g)
         \/ LookupHit(g) \/ LookupMiss(g) \/ LoadOnce(g) \/ StoreOnce(g)
         \/ DoRun(g) \/ DoWait(g)
         \/ ReadChunk(g) \/ OpenChunk(g) \/ CachePut(g) \/ LeaveOnce(g)
         \/ ForgetOnce(g) \/ RecheckHit(g) \/ RecheckMiss(g) \/ SendFails(g)
  PROVE  /\ UNCHANGED <<window, delivered, at>>
         /\ \/ why' = why
            \/ \E r \in Reasons \ {"running"} : why' = [why EXCEPT ![g] = r]
         /\ why' # why => pc[g] # "ended"
         /\ HandedInv'
         /\ \A h \in Clients : why'[h] = "complete" /\ why[h] # "complete" =>
              h = g /\ Finish(g)
<1>1. UNCHANGED <<window, delivered, at>>
  BY DEF Subscribe, Finish, LookupHit, LookupMiss, LoadOnce, StoreOnce, DoRun, DoWait,
         ReadChunk, OpenChunk, CachePut, LeaveOnce, ForgetOnce, RecheckHit,
         RecheckMiss, SendFails, Stop
<1>2. pc[g] # "ended"
  BY DEF Subscribe, Finish, LookupHit, LookupMiss, LoadOnce, StoreOnce, DoRun, DoWait,
         ReadChunk, OpenChunk, CachePut, LeaveOnce, ForgetOnce, RecheckHit,
         RecheckMiss, SendFails
<1>3. \/ /\ why' = why
         /\ \E l \in Labels \ {"ended"} : pc' = [pc EXCEPT ![g] = l]
      \/ /\ \E r \in Reasons \ {"running"} :
              why' = [why EXCEPT ![g] = r] /\ (r = "complete" => Finish(g))
         /\ pc' = [pc EXCEPT ![g] = "ended"]
  <2>1. CASE Finish(g)
    BY <2>1, Zenon DEF Finish, Stop, Reasons
  <2>2. CASE RecheckMiss(g) \/ SendFails(g)
    <3>1. /\ pc' = [pc EXCEPT ![g] = "ended"]
          /\ \/ why' = [why EXCEPT ![g] = "cache miss"]
             \/ why' = [why EXCEPT ![g] = "send error"]
      BY <2>2, Zenon DEF RecheckMiss, SendFails, Stop
    <3>2. {"cache miss", "send error"} \subseteq Reasons \ {"running", "complete"}
      BY DEF Reasons
    <3>3. QED
      BY <3>1, <3>2, Zenon
  <2>3. CASE ForgetOnce(g)
    <3>1. CASE failed[g]
      BY <2>3, <3>1, Zenon DEF ForgetOnce, Stop, Reasons
    <3>2. CASE ~ failed[g]
      <4>1. why' = why /\ (pc' = [pc EXCEPT ![g] = "emit"] \/ pc' = [pc EXCEPT ![g] = "recheck"])
        BY <2>3, <3>2 DEF ForgetOnce, Goto
      <4>2. QED
        BY <4>1 DEF Labels
    <3>3. QED
      BY <3>1, <3>2
  <2>4. CASE ReadChunk(g) \/ OpenChunk(g)
    BY <2>4 DEF ReadChunk, OpenChunk, Goto, Labels
  <2>5. CASE \/ Subscribe(g) \/ LookupHit(g) \/ LookupMiss(g) \/ LoadOnce(g) \/ StoreOnce(g)
             \/ DoRun(g) \/ DoWait(g) \/ CachePut(g) \/ LeaveOnce(g) \/ RecheckHit(g)
    BY <2>5 DEF Subscribe, LookupHit, LookupMiss, LoadOnce, StoreOnce, DoRun, DoWait,
                CachePut, LeaveOnce, RecheckHit, Goto, Return, Labels
  <2>6. QED
    BY <2>1, <2>2, <2>3, <2>4, <2>5
<1>4. \/ why' = why
      \/ \E r \in Reasons \ {"running"} : why' = [why EXCEPT ![g] = r]
  BY <1>3
<1>5. \A h \in Clients : why'[h] = "complete" /\ why[h] # "complete" => h = g /\ Finish(g)
  BY <1>3 DEF TypeOK
<1>6. \A h \in Clients : why'[h] = "running" <=> pc'[h] # "ended"
  BY <1>2, <1>3 DEF TypeOK, HandedInv
<1>7. \/ Subscribe(g) \/ Finish(g)
      \/ Overlaps(at[g], window[g])
  <2>1. ASSUME pc[g] \notin {"connected", "next", "ended"} PROVE Overlaps(at[g], window[g])
    BY <2>1 DEF HandedInv
  <2>2. QED
    BY <2>1 DEF LookupHit, LookupMiss, LoadOnce, StoreOnce, DoRun, DoWait,
         ReadChunk, OpenChunk, CachePut, LeaveOnce, ForgetOnce, RecheckHit,
         RecheckMiss, SendFails
<1>8. \A h \in Clients :
        pc'[h] \notin {"connected", "next", "ended"} => Overlaps(at[h], window[h])
  <2> SUFFICES ASSUME NEW h \in Clients, pc'[h] \notin {"connected", "next", "ended"}
               PROVE  Overlaps(at[h], window[h])
    OBVIOUS
  <2>1. CASE h # g
    <3>1. pc'[h] = pc[h]
      BY <1>3, <2>1 DEF TypeOK
    <3>2. QED
      BY <3>1 DEF HandedInv
  <2>2. CASE h = g
    <3>1. CASE Subscribe(g) \/ Finish(g)
      BY <2>2, <3>1 DEF Subscribe, Finish, Goto, Stop, TypeOK
    <3>2. QED
      BY <1>7, <2>2, <3>1
  <2>3. QED
    BY <2>1, <2>2
<1>9. HandedInv'
  BY <1>1, <1>6, <1>8, HandedFrame
<1>10. QED
  BY <1>1, <1>2, <1>4, <1>5, <1>9

\* SkipChunk passes over a chunk the stream does not want.
LEMMA HandedSkip ==
  ASSUME TypeOK, HandedInv, NEW g \in Clients, SkipChunk(g)
  PROVE  HandedInv'
<1>1. /\ pc[g] = "next" /\ at[g] \in Chunks
      /\ at' = [at EXCEPT ![g] = at[g] + 1]
      /\ UNCHANGED <<pc, window, delivered, why>>
      /\ window[g] \in Windows
  BY ChunkNumbers DEF SkipChunk, TypeOK
<1>2. at[g] \notin Wants(g)
  BY <1>1, OverlapIsExact DEF SkipChunk, Wants
<1>3. \A h \in Clients : /\ Promise!Handed(h)' = Promise!Handed(h)
                         /\ Wants(h)' = Wants(h)
                         /\ h # g => at'[h] = at[h]
  BY <1>1 DEF Promise!Handed, Wants, TypeOK
<1>4. {c \in Wants(g) : c < at'[g]} = {c \in Wants(g) : c < at[g]}
  <2>1. at'[g] = at[g] + 1
    BY <1>1 DEF TypeOK
  <2>2. ASSUME NEW c \in Wants(g) PROVE c < at'[g] <=> c < at[g]
    <3>1. c \in Nat /\ at[g] \in Nat /\ c # at[g]
      BY <1>1, <1>2, NumChunksAssumption DEF Wants, Chunks
    <3>2. QED
      BY <2>1, <3>1
  <2>3. QED
    BY <2>2
<1>5. \A h \in Clients : Promise!Handed(h)' = {c \in Wants(h)' : c < at'[h]}
  <2> SUFFICES ASSUME NEW h \in Clients
               PROVE  Promise!Handed(h)' = {c \in Wants(h)' : c < at'[h]}
    OBVIOUS
  <2>1. Promise!Handed(h) = {c \in Wants(h) : c < at[h]}
    BY DEF HandedInv
  <2>2. QED
    BY <1>3, <1>4, <2>1
<1>6. QED
  BY <1>1, <1>3, <1>5 DEF HandedInv

\* Emit hands over the chunk the stream is at, when it has records: the next
\* one it wants.
LEMMA HandedEmit ==
  ASSUME CacheInv, HandedInv, NEW g \in Clients, Emit(g)
  PROVE  /\ HandedInv'
         /\ UNCHANGED <<window, why>>
         /\ why[g] = "running"
         /\ \/ delivered' = delivered
            \/ /\ at[g] \in Wants(g) \ Promise!Handed(g)
               /\ \A d \in Wants(g) \ Promise!Handed(g) : at[g] <= d
               /\ delivered' = [delivered EXCEPT ![g] = Append(@, at[g])]
<1>1. /\ pc[g] = "emit" /\ at[g] \in Chunks /\ result[g] = Plaintext(at[g])
      /\ delivered' = [delivered EXCEPT ![g] =
                          IF result[g] = Nil THEN @ ELSE Append(@, result[g])]
      /\ at' = [at EXCEPT ![g] = at[g] + 1]
      /\ pc' = [pc EXCEPT ![g] = "next"]
      /\ UNCHANGED <<window, why>>
      /\ window[g] \in Windows
  BY DEF Emit, CacheInv, Located, Results, TypeOK, Goto
<1>2. InRange(at[g], window[g])
  BY <1>1, OverlapIsExact DEF HandedInv
<1>3. /\ at[g] \in Wants(g) <=> at[g] \notin EmptyChunks
      /\ at[g] \notin EmptyChunks => result[g] = at[g] /\ result[g] # Nil
      /\ at[g] \in EmptyChunks => result[g] = Nil
  BY <1>1, <1>2, NilAssumption DEF Wants, Plaintext
<1>4. Promise!Handed(g) = {c \in Wants(g) : c < at[g]}
  BY DEF HandedInv
<1>5. /\ at[g] \in Nat /\ Wants(g) \subseteq Nat
      /\ at'[g] = at[g] + 1
  BY <1>1, NumChunksAssumption DEF Wants, Chunks, CacheInv, TypeOK
<1>6. /\ delivered \in [Clients -> Seq(Chunks)]
      /\ at \in [Clients -> 0..NumChunks] /\ pc \in [Clients -> Labels]
  BY DEF CacheInv, TypeOK
<1>7. \A h \in Clients : Wants(h)' = Wants(h)
  BY <1>1 DEF Wants
<1>8. Promise!Handed(g)' = {c \in Wants(g)' : c < at'[g]}
  <2>1. Promise!Handed(g)' = {delivered'[g][k] : k \in DOMAIN delivered'[g]}
    BY DEF Promise!Handed
  <2>2. CASE at[g] \in EmptyChunks
    <3>1. Promise!Handed(g)' = Promise!Handed(g)
      BY <1>1, <1>3, <1>6, <2>1, <2>2 DEF Promise!Handed
    <3>2. \A c \in Wants(g) : c < at[g] <=> c < at'[g]
      BY <1>3, <1>5, <2>2
    <3>3. QED
      BY <1>4, <1>7, <3>1, <3>2
  <2>3. CASE at[g] \notin EmptyChunks
    <3>1. delivered'[g] = Append(delivered[g], at[g])
      BY <1>1, <1>3, <1>6, <2>3
    <3>2. Promise!Handed(g)' = Promise!Handed(g) \cup {at[g]}
      <4>1. delivered[g] \in Seq(Chunks)
        BY <1>6
      <4>2. QED
        BY <1>1, <2>1, <3>1, <4>1, HandedGrows DEF Promise!Handed
    <3>3. \A c \in Wants(g) : c < at'[g] <=> c < at[g] \/ c = at[g]
      BY <1>5
    <3>4. QED
      BY <1>3, <1>4, <1>7, <2>3, <3>2, <3>3
  <2>4. QED
    BY <2>2, <2>3
<1>9. HandedInv'
  <2>1. \A h \in Clients : h # g => /\ Promise!Handed(h)' = Promise!Handed(h)
                                   /\ at'[h] = at[h] /\ pc'[h] = pc[h]
    BY <1>1, <1>6 DEF Promise!Handed
  <2>2. pc'[g] = "next"
    BY <1>1, <1>6
  <2>3. \A h \in Clients : why'[h] = "running" <=> pc'[h] # "ended"
    BY <1>1, <2>1, <2>2 DEF HandedInv
  <2>4. \A h \in Clients :
          pc'[h] \notin {"connected", "next", "ended"} => Overlaps(at'[h], window'[h])
    BY <1>1, <2>1, <2>2 DEF HandedInv
  <2>5. ASSUME NEW h \in Clients
        PROVE  Promise!Handed(h)' = {c \in Wants(h)' : c < at'[h]}
    <3>1. CASE h = g
      BY <1>8, <3>1
    <3>2. CASE h # g
      <4>1. Promise!Handed(h) = {c \in Wants(h) : c < at[h]}
        BY DEF HandedInv
      <4>2. QED
        BY <1>7, <2>1, <3>2, <4>1
    <3>3. QED
      BY <3>1, <3>2
  <2>6. QED
    BY <2>3, <2>4, <2>5 DEF HandedInv
<1>10. \/ delivered' = delivered
       \/ /\ at[g] \in Wants(g) \ Promise!Handed(g)
          /\ \A d \in Wants(g) \ Promise!Handed(g) : at[g] <= d
          /\ delivered' = [delivered EXCEPT ![g] = Append(@, at[g])]
  <2>1. CASE at[g] \in EmptyChunks
    BY <1>1, <1>3, <1>6, <2>1
  <2>2. CASE at[g] \notin EmptyChunks
    <3>1. at[g] \in Wants(g) \ Promise!Handed(g)
      BY <1>3, <1>4, <1>5, <2>2
    <3>2. \A d \in Wants(g) \ Promise!Handed(g) : at[g] <= d
      BY <1>4, <1>5
    <3>3. delivered' = [delivered EXCEPT ![g] = Append(@, at[g])]
      BY <1>1, <1>3, <2>2
    <3>4. QED
      BY <3>1, <3>2, <3>3
  <2>3. QED
    BY <2>1, <2>2
<1>11. why[g] = "running"
  BY <1>1 DEF HandedInv
<1>12. QED
  BY <1>1, <1>9, <1>10, <1>11

\* Every step keeps the invariant.
LEMMA HandedStep ==
  ASSUME CacheInv, HandedInv, [Next]_vars
  PROVE  HandedInv'
<1>1. TypeOK
  BY DEF CacheInv
<1>2. CASE UNCHANGED <<window, delivered, at, why, pc>>
  BY <1>2, HandedFrame DEF HandedInv
<1>3. CASE CloseCache \/ CloseKey \/ CloseFile \/ UNCHANGED vars
  BY <1>2, <1>3 DEF CloseCache, CloseKey, CloseFile, vars, streamVars
<1>4. ASSUME NEW g \in Clients, Subscribe(g) \/ Step(g) \/ SendFails(g)
      PROVE  HandedInv'
  BY <1>1, <1>4, HandedQuiet, HandedSkip, HandedEmit DEF Step
<1>5. QED
  BY <1>3, <1>4 DEF Next

\* What each stream has handed over is what it wants of the chunks it has
\* passed.
THEOREM HandedInvariant == Spec => []HandedInv
<1>1. CacheInv /\ HandedInv /\ [Next]_vars => HandedInv'
  BY HandedStep
<1>2. QED
  BY <1>1, InitHandedInv, CacheInvariant, PTL DEF Spec


\* The state function a stream's client sees.
ClientStatus ==
  [g \in Clients |-> CASE why[g] = "running" -> "running"
                      [] why[g] = "complete" -> "complete"
                      [] OTHER -> "abandoned"]

\* The chunks all the streams have to hand over.
AllWants == [g \in Clients |-> Wants(g)]

\* Every step of the bridge is a step of ChunkStreams, or invisible to the
\* clients.
LEMMA PromiseStep ==
  ASSUME CacheInv, HandedInv, [Next]_vars
  PROVE  Promise!Next \/ UNCHANGED <<AllWants, delivered, ClientStatus>>
<1>1. /\ TypeOK
      /\ \A g \in Clients : AllWants[g] = Wants(g)
  BY DEF CacheInv, AllWants
<1>2. ASSUME window' = window PROVE AllWants' = AllWants
  BY <1>2 DEF AllWants, Wants
<1>3. ASSUME why' = why PROVE ClientStatus' = ClientStatus
  BY <1>3 DEF ClientStatus
<1>4. CASE UNCHANGED <<window, delivered, why>>
  BY <1>2, <1>3, <1>4
<1>5. CASE CloseCache \/ CloseKey \/ CloseFile \/ UNCHANGED vars
  BY <1>4, <1>5 DEF CloseCache, CloseKey, CloseFile, vars, streamVars
<1>6. ASSUME NEW g \in Clients, SkipChunk(g)
      PROVE  Promise!Next \/ UNCHANGED <<AllWants, delivered, ClientStatus>>
  BY <1>4, <1>6 DEF SkipChunk
<1>7. ASSUME NEW g \in Clients, Emit(g)
      PROVE  Promise!Next \/ UNCHANGED <<AllWants, delivered, ClientStatus>>
  <2>1. /\ UNCHANGED <<window, why>> /\ why[g] = "running"
        /\ \/ delivered' = delivered
           \/ /\ at[g] \in Wants(g) \ Promise!Handed(g)
              /\ \A d \in Wants(g) \ Promise!Handed(g) : at[g] <= d
              /\ delivered' = [delivered EXCEPT ![g] = Append(@, at[g])]
    BY <1>7, HandedEmit
  <2>2. CASE delivered' = delivered
    BY <1>4, <2>1, <2>2
  <2>3. CASE delivered' # delivered
    <3>1. AllWants' = AllWants /\ ClientStatus' = ClientStatus
      BY <1>2, <1>3, <2>1
    <3>2. ClientStatus[g] = "running"
      BY <2>1 DEF ClientStatus
    <3>3. Promise!Deliver(g)
      BY <1>1, <2>1, <2>3, <3>1, <3>2
      DEF Promise!Deliver, AllWants, ClientStatus, Wants
    <3>4. QED
      BY <3>3 DEF Promise!Next
  <2>4. QED
    BY <2>2, <2>3
<1>8. ASSUME NEW g \in Clients,
             \/ Subscribe(g) \/ Finish(g)
             \/ LookupHit(g) \/ LookupMiss(g) \/ LoadOnce(g) \/ StoreOnce(g)
             \/ DoRun(g) \/ DoWait(g)
             \/ ReadChunk(g) \/ OpenChunk(g) \/ CachePut(g) \/ LeaveOnce(g)
             \/ ForgetOnce(g) \/ RecheckHit(g) \/ RecheckMiss(g) \/ SendFails(g)
      PROVE  Promise!Next \/ UNCHANGED <<AllWants, delivered, ClientStatus>>
  <2>1. /\ UNCHANGED <<window, delivered, at>>
        /\ \/ why' = why
           \/ \E r \in Reasons \ {"running"} : why' = [why EXCEPT ![g] = r]
        /\ why' # why => pc[g] # "ended"
        /\ \A h \in Clients : why'[h] = "complete" /\ why[h] # "complete" =>
             h = g /\ Finish(g)
    BY <1>1, <1>8, HandedQuiet
  <2>2. CASE why' = why
    BY <1>4, <2>1, <2>2
  <2>3. CASE why' # why
    <3>1. PICK r \in Reasons \ {"running"} : why' = [why EXCEPT ![g] = r]
      BY <2>1, <2>3
    <3>2. why[g] = "running" /\ why'[g] = r
      BY <1>1, <2>1, <2>3, <3>1 DEF HandedInv, TypeOK
    <3>3. AllWants' = AllWants
      BY <1>2, <2>1
    <3>4. \A h \in Clients : h # g => why'[h] = why[h]
      BY <1>1, <3>1 DEF TypeOK
    <3>5. ClientStatus[g] = "running"
      BY <3>2 DEF ClientStatus
    <3>6. CASE r = "complete"
      <4>1. Finish(g)
        BY <2>1, <3>2, <3>6
      <4>2. Promise!Handed(g) = Wants(g)
        <5>1. at[g] = NumChunks /\ Promise!Handed(g) = {c \in Wants(g) : c < at[g]}
          BY <4>1 DEF Finish, HandedInv
        <5>2. \A c \in Wants(g) : c < NumChunks
          BY NumChunksAssumption DEF Wants, Chunks
        <5>3. QED
          BY <5>1, <5>2
      <4>3. ClientStatus' = [ClientStatus EXCEPT ![g] = "complete"]
        BY <3>2, <3>4, <3>6 DEF ClientStatus
      <4>4. Promise!Complete(g)
        BY <1>1, <2>1, <3>3, <3>5, <4>2, <4>3
        DEF Promise!Complete, AllWants, ClientStatus, Wants
      <4>5. QED
        BY <4>4 DEF Promise!Next
    <3>7. CASE r # "complete"
      <4>1. ClientStatus' = [ClientStatus EXCEPT ![g] = "abandoned"]
        BY <3>1, <3>2, <3>4, <3>7 DEF ClientStatus
      <4>2. Promise!Abandon(g)
        BY <2>1, <3>3, <3>5, <4>1
        DEF Promise!Abandon, AllWants, ClientStatus, Wants
      <4>3. QED
        BY <4>2 DEF Promise!Next
    <3>8. QED
      BY <3>6, <3>7
  <2>4. QED
    BY <2>2, <2>3
<1>9. QED
  BY <1>5, <1>6, <1>7, <1>8 DEF Next, Step

\* Sharing a cache, waiting on each other's decryptions and Close are invisible
\* to a client but for the end of its stream: streamWSStreamingMessages sends
\* each stream the chunks of its range in order, each exactly once.
THEOREM StreamsKeepTheirPromise == Spec => StreamsKeepPromise
<1>1. Init => Promise!Init
  <2> SUFFICES ASSUME Init PROVE Promise!Init
    OBVIOUS
  <2>1. AllWants \in [Clients -> SUBSET (0..(NumChunks - 1))]
    BY DEF AllWants, Wants, Chunks
  <2>2. delivered = [g \in Clients |-> <<>>]
    BY DEF Init
  <2>3. ClientStatus = [g \in Clients |-> "running"]
    BY DEF Init, ClientStatus
  <2>4. QED
    BY <2>1, <2>2, <2>3 DEF Promise!Init, AllWants, Wants, ClientStatus
<1>2. CacheInv /\ HandedInv /\ [Next]_vars => [Promise!Next]_(Promise!streams)
  BY PromiseStep DEF Promise!streams, AllWants, ClientStatus, Wants
<1>3. QED
  BY <1>1, <1>2, CacheInvariant, HandedInvariant, PTL
  DEF Spec, StreamsKeepPromise, Promise!Spec

-----------------------------------------------------------------------------
(* Streams that are not cut off.  With room for every chunk that opens,    *)
(* nothing is ever evicted before Close; so a chunk somebody has put is    *)
(* still there when those who waited for it look again.                    *)

Openable == Chunks \ BadChunks

Room == Cardinality(Openable) <= CacheCap

\* A stream at a chunk that opens has met no failure, and the chunk is cached
\* once its decryption is over.
Unhurt(g) ==
  at[g] \in Openable =>
    /\ InFlight(g) => ~ failed[g]
    /\ pc[g] \in {"leave", "forget", "recheck"} => at[g] \in cache
    /\ InFlight(g) /\ onceState[once[g]] = "done" => at[g] \in cache
    /\ why[g] \notin {"cache miss", "decrypt error"}

RoomInv ==
  /\ \A g \in Clients : pc[g] = "put" => at[g] \in Openable
  /\ cache \subseteq Openable
  /\ closer = "serving" => \A g \in Clients : Unhurt(g)

\* Goroutines that share a Once work on the same chunk.
OnceHasChunk ==
  \A g, h \in Clients : InFlight(g) /\ InFlight(h) /\ once[g] = once[h] => at[g] = at[h]

\* A list of distinct chunks that open is shorter than the cache while one of
\* them is missing.
LEMMA RoomForOneMore ==
  ASSUME Room, NEW list \in Seq(Element), Distinct(list), KeysOf(list) \subseteq Openable,
         NEW c \in Openable, c \notin KeysOf(list)
  PROVE  Len(list) < CacheCap
<1> DEFINE n == Len(list)
           f == [k \in 1..n |-> list[k].idx]
           S == Openable \ {c}
<1>1. n \in Nat /\ DOMAIN list = 1..n
  BY LenProperties
<1>2. KeysOf(list) = {list[k].idx : k \in 1..n}
  BY <1>1, Zenon DEF KeysOf
<1> HIDE DEF n
<1>3. IsFiniteSet(Openable) /\ Cardinality(Openable) \in Nat
  <2>1. IsFiniteSet(Chunks)
    BY FS_Interval, NumChunksAssumption DEF Chunks
  <2>2. IsFiniteSet(Openable)
    BY <2>1, FS_Subset DEF Openable
  <2>3. QED
    BY <2>2, FS_CardinalityType
<1>4. IsFiniteSet(S) /\ Cardinality(S) = Cardinality(Openable) - 1
  BY <1>3, FS_RemoveElement
<1>5. f \in Injection(1..n, S)
  <2>1. f \in [1..n -> S]
    BY <1>2
  <2>2. \A i, j \in 1..n : f[i] = f[j] => i = j
    BY <1>1 DEF Distinct
  <2>3. QED
    BY <2>1, <2>2 DEF Injection, IsInjective
<1> HIDE DEF f, S
<1>6. Cardinality(1..n) <= Cardinality(S)
  BY <1>4, <1>5, FS_Injection
<1>7. Cardinality(1..n) = n
  BY <1>1, FS_Interval
<1>8. n < CacheCap
  BY <1>1, <1>3, <1>4, <1>6, <1>7, CacheCapAssumption DEF Room
<1>9. QED
  BY <1>8 DEF n

\* With room, cachePut adds its chunk and evicts none.
LEMMA PutEvictsNothing ==
  ASSUME Room, CacheInv, RoomInv, NEW g \in Clients, CachePut(g)
  PROVE  cache' = cache \cup {at[g]} /\ at[g] \in Openable
<1> DEFINE c == at[g]
           e == [idx |-> c, recs |-> result[g]]
           p == PushEvict(cacheList, e)
<1>1. /\ c \in Openable /\ c \in Chunks
      /\ result[g] \in Records
      /\ cacheList \in Seq(Element) /\ Distinct(cacheList)
      /\ cache = KeysOf(cacheList)
      /\ cache \subseteq Openable
  BY DEF RoomInv, CacheInv, Located, CachePut, TypeOK, ListInv, CacheCoherent
<1>2. CASE c \in cache
  <2>1. cache' = cache
    BY <1>2 DEF CachePut
  <2>2. QED
    BY <1>1, <1>2, <2>1
<1>3. CASE c \notin cache
  <2>1. Len(cacheList) < CacheCap
    BY <1>1, <1>3, RoomForOneMore
  <2>2. e \in Element /\ e.idx = c
    BY <1>1 DEF Element
  <2> HIDE DEF e
  <2>3. KeysOf(p) = KeysOf(cacheList) \cup {c}
    BY <1>1, <1>3, <2>1, <2>2, PushEvictLemma
  <2>4. cache' = (cache \cup {c}) \ ((KeysOf(cacheList) \cup {c}) \ KeysOf(p))
    BY <1>3 DEF CachePut, e
  <2> HIDE DEF p
  <2>5. QED
    BY <1>1, <2>3, <2>4
<1>4. QED
  BY <1>2, <1>3

\* Nothing holds a Once, and nothing is cached, in the beginning.
LEMMA InitRoomInv == Init => RoomInv /\ OnceHasChunk
  BY DEF Init, RoomInv, OnceHasChunk, InFlight, Unhurt

\* A goroutine gets the Once of its own chunk: LoadOnce one that somebody
\* holds for that chunk, StoreOnce one that nobody holds.
LEMMA OnceHasChunkStep ==
  ASSUME TypeOK, Located, OnceInv, OnceHasChunk, [Next]_vars
  PROVE  OnceHasChunk'
<1>1. ASSUME \A g \in Clients : InFlight(g)' => InFlight(g) /\ once'[g] = once[g] /\ at'[g] = at[g]
      PROVE  OnceHasChunk'
  BY <1>1 DEF OnceHasChunk
<1>2. ASSUME NEW g \in Clients, LoadOnce(g)
      PROVE  OnceHasChunk'
  <2>1. PICK h \in Clients : InFlight(h) /\ at[h] = at[g] /\ once[h] = decryptOnce[at[g]]
    BY <1>2 DEF LoadOnce, OnceInv, OnceIsHeld, Located
  <2>2. /\ at' = at /\ once'[g] = once[h]
        /\ \A k \in Clients : k # g => pc'[k] = pc[k] /\ once'[k] = once[k]
    BY <1>2, <2>1 DEF LoadOnce, Goto, TypeOK
  <2>3. \A k \in Clients : InFlight(k)' /\ k # g => InFlight(k)
    BY <2>2 DEF InFlight
  <2>4. QED
    BY <2>1, <2>2, <2>3 DEF OnceHasChunk
<1>3. ASSUME NEW g \in Clients, StoreOnce(g)
      PROVE  OnceHasChunk'
  <2>1. PICK o \in OnceIds \ LiveOnces : once' = [once EXCEPT ![g] = o]
    BY <1>3 DEF StoreOnce
  <2>2. \A k \in Clients : once[k] # o
    BY <2>1 DEF LiveOnces
  <2>3. /\ at' = at /\ once'[g] = o
        /\ \A k \in Clients : k # g => pc'[k] = pc[k] /\ once'[k] = once[k]
    BY <1>3, <2>1 DEF StoreOnce, Goto, TypeOK
  <2>4. \A k \in Clients : InFlight(k)' /\ k # g => InFlight(k)
    BY <2>3 DEF InFlight
  <2>5. QED
    BY <2>2, <2>3, <2>4 DEF OnceHasChunk
<1>4. ASSUME NEW g \in Clients,
             \/ Subscribe(g) \/ SkipChunk(g) \/ Finish(g)
             \/ LookupHit(g) \/ LookupMiss(g)
             \/ RecheckHit(g) \/ RecheckMiss(g) \/ Emit(g) \/ SendFails(g)
      PROVE  OnceHasChunk'
  <2>1. /\ once' = once /\ pc[g] \in {"connected", "next", "recheck", "emit"}
        /\ \E l \in {"next", "ended", "emit", "missed"} :
             pc' = [pc EXCEPT ![g] = l] \/ pc' = pc
        /\ \/ at' = at
           \/ at' = [at EXCEPT ![g] = at[g] + 1]
    BY <1>4, Zenon DEF Subscribe, SkipChunk, Finish, LookupHit, LookupMiss, RecheckHit,
         RecheckMiss, Emit, SendFails, Goto, Stop, Return
  <2>2. /\ \A k \in Clients : k # g => pc'[k] = pc[k] /\ at'[k] = at[k]
        /\ pc'[g] \in {"connected", "next", "ended", "emit", "missed", "recheck"}
    BY <2>1 DEF TypeOK
  <2>3. QED
    BY <1>1, <2>1, <2>2 DEF InFlight
<1>5. ASSUME NEW g \in Clients,
             \/ DoRun(g) \/ DoWait(g) \/ ReadChunk(g) \/ OpenChunk(g) \/ CachePut(g)
             \/ LeaveOnce(g)
      PROVE  OnceHasChunk'
  <2>1. /\ once' = once /\ at' = at /\ InFlight(g)
        /\ \E l \in Labels : pc' = [pc EXCEPT ![g] = l]
    BY <1>5 DEF DoRun, DoWait, ReadChunk, OpenChunk, CachePut, LeaveOnce, Goto, Labels,
                InFlight
  <2>2. \A k \in Clients : k # g => pc'[k] = pc[k]
    BY <2>1 DEF TypeOK
  <2>3. QED
    BY <1>1, <2>1, <2>2 DEF InFlight
<1>6. ASSUME NEW g \in Clients, ForgetOnce(g)
      PROVE  OnceHasChunk'
  <2>1. /\ at' = at /\ once' = [once EXCEPT ![g] = NoOnce]
        /\ \E l \in {"ended", "emit", "recheck"} : pc' = [pc EXCEPT ![g] = l]
    BY <1>6, Zenon DEF ForgetOnce, Goto, Stop
  <2>2. /\ \A k \in Clients : k # g => pc'[k] = pc[k] /\ once'[k] = once[k]
        /\ pc'[g] \in {"ended", "emit", "recheck"}
    BY <2>1 DEF TypeOK
  <2>3. QED
    BY <1>1, <2>1, <2>2 DEF InFlight
<1>7. ASSUME CloseCache \/ CloseKey \/ CloseFile \/ UNCHANGED vars
      PROVE  OnceHasChunk'
  <2>1. UNCHANGED <<pc, at, once>>
    BY <1>7 DEF CloseCache, CloseKey, CloseFile, vars, streamVars
  <2>2. QED
    BY <1>1, <2>1 DEF InFlight
<1>8. QED
  BY <1>2, <1>3, <1>4, <1>5, <1>6, <1>7 DEF Next, Step


\* A goroutine that takes no step stays unhurt while nothing is evicted and no
\* Once is done before its chunk is cached.
LEMMA OthersUnhurt ==
  ASSUME NEW h \in Clients, Unhurt(h), cache \subseteq cache',
         pc'[h] = pc[h], at'[h] = at[h], failed'[h] = failed[h], why'[h] = why[h],
         once'[h] = once[h],
         InFlight(h) /\ onceState'[once[h]] = "done" /\ at[h] \in Openable =>
           onceState[once[h]] = "done" \/ at[h] \in cache'
  PROVE  Unhurt(h)'
<1>1. InFlight(h)' <=> InFlight(h)
  BY DEF InFlight
<1> SUFFICES ASSUME at'[h] \in Openable'
             PROVE  /\ InFlight(h)' => ~ failed'[h]
                    /\ pc'[h] \in {"leave", "forget", "recheck"} => at'[h] \in cache'
                    /\ InFlight(h)' /\ onceState'[once'[h]] = "done" => at'[h] \in cache'
                    /\ why'[h] \notin {"cache miss", "decrypt error"}
  BY DEF Unhurt
<1>2. at[h] \in Openable
  BY DEF Openable
<1>3. QED
  BY <1>1, <1>2 DEF Unhurt

\* Only what has opened is put, and only what has been put is cached.
LEMMA CachedOpens ==
  ASSUME CacheInv, RoomInv, [Next]_vars
  PROVE  /\ \A g \in Clients : pc'[g] = "put" => at'[g] \in Openable
         /\ cache' \subseteq Openable
<1>1. TypeOK
  BY DEF CacheInv
<1>2. ASSUME NEW g \in Clients, OpenChunk(g)
      PROVE  \A h \in Clients : pc'[h] = "put" => at'[h] \in Openable
  <2>1. /\ at' = at /\ at[g] \in Chunks
        /\ \E l \in {"leave", "put"} : pc' = [pc EXCEPT ![g] = l] /\ (l = "put" => at[g] \notin BadChunks)
    BY <1>2 DEF OpenChunk, Goto, CacheInv, Located
  <2>2. QED
    BY <1>1, <2>1 DEF RoomInv, TypeOK, Openable
<1>3. ASSUME NEW g \in Clients, (Subscribe(g) \/ Step(g) \/ SendFails(g)), ~ OpenChunk(g)
      PROVE  \A h \in Clients : pc'[h] = "put" => at'[h] \in Openable
  <2>1. \A h \in Clients : h # g => pc'[h] = pc[h] /\ at'[h] = at[h]
    <3>1. \/ pc' = pc
          \/ \E l \in Labels : pc' = [pc EXCEPT ![g] = l]
      BY <1>3, Zenon
      DEF Step, Subscribe, SkipChunk, Finish, LookupHit, LookupMiss, LoadOnce, StoreOnce, DoRun,
          DoWait, ReadChunk, CachePut, LeaveOnce, ForgetOnce, RecheckHit, RecheckMiss, Emit,
          SendFails, Goto, Stop, Return, Labels
    <3>2. at' = at \/ at' = [at EXCEPT ![g] = at[g] + 1]
      BY <1>3
      DEF Step, Subscribe, SkipChunk, Finish, LookupHit, LookupMiss, LoadOnce, StoreOnce, DoRun,
          DoWait, ReadChunk, CachePut, LeaveOnce, ForgetOnce, RecheckHit, RecheckMiss, Emit,
          SendFails
    <3>3. QED
      BY <1>1, <3>1, <3>2 DEF TypeOK
  <2>2. pc'[g] # "put"
    <3>1. CASE SkipChunk(g)
      BY <3>1 DEF SkipChunk
    <3>2. \/ SkipChunk(g)
          \/ \E l \in Labels \ {"put"} : pc' = [pc EXCEPT ![g] = l]
      BY <1>3, Zenon
      DEF Step, Subscribe, Finish, LookupHit, LookupMiss, LoadOnce, StoreOnce, DoRun,
          DoWait, ReadChunk, CachePut, LeaveOnce, ForgetOnce, RecheckHit, RecheckMiss, Emit,
          SendFails, Goto, Stop, Return, Labels
    <3>3. QED
      BY <1>1, <3>1, <3>2 DEF TypeOK
  <2>3. QED
    BY <2>1, <2>2 DEF RoomInv
<1>4. ASSUME CloseCache \/ CloseKey \/ CloseFile \/ UNCHANGED vars
      PROVE  \A h \in Clients : pc'[h] = "put" => at'[h] \in Openable
  BY <1>4 DEF CloseCache, CloseKey, CloseFile, vars, streamVars, RoomInv
<1>5. cache' \subseteq Openable
  <2>1. ASSUME NEW g \in Clients, CachePut(g) PROVE cache' \subseteq Openable
    <3>1. cache' \subseteq cache \cup {at[g]} /\ pc[g] = "put"
      BY <2>1 DEF CachePut
    <3>2. QED
      BY <3>1 DEF RoomInv
  <2>2. ASSUME NEW g \in Clients, (Subscribe(g) \/ Step(g) \/ SendFails(g)), ~ CachePut(g)
        PROVE  cache' = cache
    BY <2>2
    DEF Step, Subscribe, SkipChunk, Finish, LookupHit, LookupMiss, LoadOnce, StoreOnce, DoRun,
        DoWait, ReadChunk, OpenChunk, LeaveOnce, ForgetOnce, RecheckHit, RecheckMiss, Emit,
        SendFails, cacheVars
  <2>3. CASE CloseCache \/ CloseKey \/ CloseFile \/ UNCHANGED vars
    BY <2>3 DEF CloseCache, CloseKey, CloseFile, vars, cacheVars, RoomInv
  <2>4. QED
    BY <2>1, <2>2, <2>3 DEF Next, RoomInv
<1>6. QED
  BY <1>2, <1>3, <1>4, <1>5 DEF Next


\* The steps of goroutine g leave g itself unhurt.
LEMMA OwnUnhurt ==
  ASSUME Room, CacheInv, OnceInv, HandedInv, RoomInv, closer = "serving",
         NEW g \in Clients, Subscribe(g) \/ Step(g) \/ SendFails(g)
  PROVE  Unhurt(g)'
<1>1. /\ TypeOK /\ Located
      /\ why[g] \in Reasons
      /\ \A h \in Clients : Unhurt(h)
  BY DEF CacheInv, TypeOK, RoomInv
<1> SUFFICES ASSUME at'[g] \in Openable'
             PROVE  /\ InFlight(g)' => ~ failed'[g]
                    /\ pc'[g] \in {"leave", "forget", "recheck"} => at'[g] \in cache'
                    /\ InFlight(g)' /\ onceState'[once'[g]] = "done" => at'[g] \in cache'
                    /\ why'[g] \notin {"cache miss", "decrypt error"}
  BY DEF Unhurt
<1>2. Openable' = Openable
  BY DEF Openable
<1>3. ASSUME at' = at PROVE at[g] \in Openable /\ at'[g] = at[g]
  BY <1>2, <1>3
<1>4. CASE SkipChunk(g) \/ Emit(g)
  <2>1. pc'[g] = "next" /\ why' = why /\ pc[g] # "ended"
    BY <1>1, <1>4 DEF SkipChunk, Emit, Goto, TypeOK
  <2>2. why[g] = "running"
    BY <2>1 DEF HandedInv
  <2>3. QED
    BY <2>1, <2>2 DEF InFlight
<1>5. CASE Subscribe(g) \/ LookupHit(g) \/ LookupMiss(g) \/ RecheckHit(g)
  <2>1. /\ at' = at /\ why' = why
        /\ \E l \in {"next", "emit", "missed"} : pc' = [pc EXCEPT ![g] = l]
    BY <1>5, Zenon DEF Subscribe, LookupHit, LookupMiss, RecheckHit, Goto, Return
  <2>2. pc'[g] \in {"next", "emit", "missed"}
    BY <1>1, <2>1 DEF TypeOK
  <2>3. why[g] \notin {"cache miss", "decrypt error"}
    BY <1>1, <1>3, <2>1 DEF Unhurt
  <2>4. QED
    BY <2>1, <2>2, <2>3 DEF InFlight
<1>6. CASE Finish(g) \/ SendFails(g)
  <2>1. /\ pc'[g] = "ended" /\ why'[g] \in {"complete", "send error"}
    BY <1>1, <1>6 DEF Finish, SendFails, Stop, TypeOK
  <2>2. QED
    BY <2>1 DEF InFlight
<1>7. CASE RecheckMiss(g)
  <2>1. at' = at /\ pc[g] = "recheck" /\ at[g] \notin cache
    BY <1>7 DEF RecheckMiss
  <2>2. QED
    BY <1>1, <1>3, <2>1 DEF Unhurt
<1>8. CASE LoadOnce(g)
  <2>1. PICK h \in Clients : InFlight(h) /\ at[h] = at[g] /\ once[h] = decryptOnce[at[g]]
    BY <1>1, <1>8 DEF LoadOnce, OnceInv, OnceIsHeld, Located
  <2>2. /\ at' = at /\ why' = why /\ cache' = cache /\ onceState' = onceState
        /\ pc'[g] = "do" /\ once'[g] = once[h] /\ failed'[g] = FALSE
    BY <1>1, <1>8, <2>1 DEF LoadOnce, Goto, TypeOK, cacheVars, onceVars
  <2>3. Unhurt(h) /\ Unhurt(g) /\ at[g] \in Openable
    BY <1>1, <1>3, <2>2
  <2>4. QED
    BY <2>1, <2>2, <2>3 DEF Unhurt
<1>9. CASE StoreOnce(g)
  <2>1. PICK o \in OnceIds :
          /\ onceState' = [onceState EXCEPT ![o] = "fresh"]
          /\ once' = [once EXCEPT ![g] = o]
    BY <1>9 DEF StoreOnce
  <2>2. /\ at' = at /\ why' = why /\ pc'[g] = "do" /\ failed'[g] = FALSE
        /\ onceState'[once'[g]] = "fresh"
    BY <1>1, <1>9, <2>1 DEF StoreOnce, Goto, TypeOK
  <2>3. QED
    BY <1>1, <1>3, <2>2 DEF Unhurt
<1>10. CASE DoRun(g)
  <2>1. once[g] \in OnceIds
    BY <1>10 DEF OnceInv, InFlight, DoRun
  <2>2. /\ UNCHANGED <<at, why, failed>> /\ pc[g] = "do" /\ pc'[g] = "read"
        /\ onceState'[once'[g]] = "running"
    BY <1>1, <1>10, <2>1 DEF DoRun, Goto, TypeOK
  <2>3. QED
    BY <1>1, <1>3, <2>2 DEF Unhurt, InFlight
<1>11. CASE DoWait(g)
  <2>1. /\ UNCHANGED <<at, why, failed, cache>> /\ pc[g] = "do"
        /\ onceState[once[g]] = "done"
    BY <1>11 DEF DoWait, cacheVars
  <2>2. QED
    BY <1>1, <1>3, <2>1 DEF Unhurt, InFlight
<1>12. CASE ReadChunk(g)
  <2>1. /\ UNCHANGED <<at, why, failed, cache, once, onceState>>
        /\ pc[g] = "read" /\ pc'[g] = "open"
    BY <1>1, <1>12 DEF ReadChunk, Goto, TypeOK, cacheVars, onceVars
  <2>2. QED
    BY <1>1, <1>3, <2>1 DEF Unhurt, InFlight
<1>13. CASE OpenChunk(g)
  <2>1. at' = at /\ at[g] \notin BadChunks
    BY <1>3, <1>13 DEF OpenChunk, Openable
  <2>2. /\ UNCHANGED <<why, failed, cache, once, onceState>>
        /\ pc[g] = "open" /\ pc'[g] = "put"
    BY <1>1, <1>13, <2>1 DEF OpenChunk, Goto, TypeOK, cacheVars, onceVars
  <2>3. QED
    BY <1>1, <1>3, <2>1, <2>2 DEF Unhurt, InFlight
<1>14. CASE CachePut(g)
  <2>1. at[g] \in cache'
    BY <1>14, PutEvictsNothing
  <2>2. /\ UNCHANGED <<at, why, failed>> /\ pc[g] = "put"
    BY <1>14 DEF CachePut
  <2>3. QED
    BY <1>1, <1>3, <2>1, <2>2 DEF Unhurt, InFlight
<1>15. CASE LeaveOnce(g)
  <2>1. /\ UNCHANGED <<at, why, failed, cache>> /\ pc[g] = "leave"
    BY <1>15 DEF LeaveOnce, cacheVars
  <2>2. QED
    BY <1>1, <1>3, <2>1 DEF Unhurt, InFlight
<1>16. CASE ForgetOnce(g)
  <2>1. /\ UNCHANGED <<at, failed, cache>> /\ pc[g] = "forget"
    BY <1>16 DEF ForgetOnce, cacheVars
  <2>2. ~ failed[g] /\ at'[g] \in cache' /\ why[g] \notin {"cache miss", "decrypt error"}
    BY <1>1, <1>3, <2>1 DEF Unhurt, InFlight
  <2>3. why' = why
    BY <1>16, <2>2 DEF ForgetOnce
  <2>4. QED
    BY <2>1, <2>2, <2>3
<1>17. QED
  BY <1>4, <1>5, <1>6, <1>7, <1>8, <1>9, <1>10, <1>11, <1>12, <1>13, <1>14, <1>15, <1>16
  DEF Step

\* A step of one goroutine leaves the others alone.
LEMMA OthersLeftAlone ==
  ASSUME TypeOK, Located, NEW g \in Clients, (Subscribe(g) \/ Step(g) \/ SendFails(g)),
         NEW h \in Clients, h # g
  PROVE  /\ pc'[h] = pc[h] /\ at'[h] = at[h] /\ failed'[h] = failed[h]
         /\ why'[h] = why[h] /\ once'[h] = once[h]
<1>1. \/ pc' = pc
      \/ \E l \in Labels : pc' = [pc EXCEPT ![g] = l]
  BY Zenon
  DEF Step, Subscribe, SkipChunk, Finish, LookupHit, LookupMiss, LoadOnce, StoreOnce, DoRun,
      DoWait, ReadChunk, OpenChunk, CachePut, LeaveOnce, ForgetOnce, RecheckHit, RecheckMiss,
      Emit, SendFails, Goto, Stop, Return, Labels
<1>2. at' = at \/ at' = [at EXCEPT ![g] = at[g] + 1]
  BY
  DEF Step, Subscribe, SkipChunk, Finish, LookupHit, LookupMiss, LoadOnce, StoreOnce, DoRun,
      DoWait, ReadChunk, OpenChunk, CachePut, LeaveOnce, ForgetOnce, RecheckHit, RecheckMiss,
      Emit, SendFails
<1>3. failed' = failed \/ failed' = [failed EXCEPT ![g] = TRUE]
        \/ failed' = [failed EXCEPT ![g] = FALSE]
  BY Zenon
  DEF Step, Subscribe, SkipChunk, Finish, LookupHit, LookupMiss, LoadOnce, StoreOnce, DoRun,
      DoWait, ReadChunk, OpenChunk, CachePut, LeaveOnce, ForgetOnce, RecheckHit, RecheckMiss,
      Emit, SendFails
<1>4. why' = why \/ \E r \in Reasons : why' = [why EXCEPT ![g] = r]
  BY Zenon
  DEF Step, Subscribe, SkipChunk, Finish, LookupHit, LookupMiss, LoadOnce, StoreOnce, DoRun,
      DoWait, ReadChunk, OpenChunk, CachePut, LeaveOnce, ForgetOnce, RecheckHit, RecheckMiss,
      Emit, SendFails, Stop, Reasons
<1>5. \/ once' = once
      \/ \E o \in OnceIds \cup {NoOnce} : once' = [once EXCEPT ![g] = o]
  <2>1. CASE LoadOnce(g)
    <3>1. once' = [once EXCEPT ![g] = decryptOnce[at[g]]] /\ at[g] \in Chunks
      BY <2>1 DEF LoadOnce, Located
    <3>2. decryptOnce[at[g]] \in OnceIds \cup {NoOnce}
      BY <3>1 DEF TypeOK
    <3>3. QED
      BY <3>1, <3>2
  <2>2. CASE StoreOnce(g) \/ ForgetOnce(g)
    BY <2>2, Zenon DEF StoreOnce, ForgetOnce
  <2>3. CASE ~ (LoadOnce(g) \/ StoreOnce(g) \/ ForgetOnce(g))
    BY <2>3
    DEF Step, Subscribe, SkipChunk, Finish, LookupHit, LookupMiss, DoRun,
        DoWait, ReadChunk, OpenChunk, CachePut, LeaveOnce, RecheckHit, RecheckMiss,
        Emit, SendFails
  <2>4. QED
    BY <2>1, <2>2, <2>3
<1>6. QED
  BY <1>1, <1>2, <1>3, <1>4, <1>5 DEF TypeOK

\* With room nothing is evicted by a goroutine.
LEMMA CacheGrows ==
  ASSUME Room, CacheInv, RoomInv, NEW g \in Clients, Subscribe(g) \/ Step(g) \/ SendFails(g)
  PROVE  cache \subseteq cache' /\ closer' = closer
<1>1. CASE CachePut(g)
  BY <1>1, PutEvictsNothing DEF CachePut
<1>2. CASE ~ CachePut(g)
  BY <1>2
  DEF Step, Subscribe, SkipChunk, Finish, LookupHit, LookupMiss, LoadOnce, StoreOnce, DoRun,
      DoWait, ReadChunk, OpenChunk, LeaveOnce, ForgetOnce, RecheckHit, RecheckMiss, Emit,
      SendFails, cacheVars
<1>3. QED
  BY <1>1, <1>2

\* A Once that a step of g makes done is that of g's chunk, which is cached.
LEMMA DoneIsCached ==
  ASSUME CacheInv, OnceInv, OnceHasChunk, RoomInv, closer = "serving",
         NEW g \in Clients, (Subscribe(g) \/ Step(g) \/ SendFails(g)),
         NEW h \in Clients, h # g, InFlight(h), onceState'[once[h]] = "done",
         at[h] \in Openable
  PROVE  onceState[once[h]] = "done" \/ at[h] \in cache'
<1>1. /\ TypeOK /\ once[h] \in OnceIds
      /\ Unhurt(g)
  BY DEF CacheInv, OnceInv, RoomInv
<1>2. CASE LeaveOnce(g)
  <2>1. /\ onceState' = [onceState EXCEPT ![once[g]] = "done"] /\ cache' = cache
        /\ pc[g] = "leave" /\ InFlight(g)
    BY <1>2 DEF LeaveOnce, InFlight, cacheVars
  <2>2. CASE once[h] = once[g]
    <3>1. at[h] = at[g]
      BY <2>1, <2>2 DEF OnceHasChunk
    <3>2. QED
      BY <1>1, <2>1, <3>1 DEF Unhurt
  <2>3. CASE once[h] # once[g]
    BY <1>1, <2>1, <2>3 DEF TypeOK
  <2>4. QED
    BY <2>2, <2>3
<1>3. CASE StoreOnce(g)
  <2>1. PICK o \in OnceIds : onceState' = [onceState EXCEPT ![o] = "fresh"]
    BY <1>3 DEF StoreOnce
  <2>2. QED
    BY <1>1, <2>1 DEF TypeOK
<1>4. CASE DoRun(g)
  <2>1. onceState' = [onceState EXCEPT ![once[g]] = "running"] /\ once[g] \in OnceIds
    BY <1>4 DEF DoRun, OnceInv, InFlight
  <2>2. QED
    BY <1>1, <2>1 DEF TypeOK
<1>5. CASE ~ (LeaveOnce(g) \/ StoreOnce(g) \/ DoRun(g))
  BY <1>5
  DEF Step, Subscribe, SkipChunk, Finish, LookupHit, LookupMiss, LoadOnce,
      DoWait, ReadChunk, OpenChunk, CachePut, ForgetOnce, RecheckHit, RecheckMiss, Emit,
      SendFails, onceVars
<1>6. QED
  BY <1>2, <1>3, <1>4, <1>5

\* Every step keeps the invariant.
LEMMA RoomStep ==
  ASSUME Room, CacheInv, OnceInv, OnceHasChunk, HandedInv, RoomInv, [Next]_vars
  PROVE  RoomInv'
<1>1. TypeOK
  BY DEF CacheInv
<1>2. /\ \A g \in Clients : pc'[g] = "put" => at'[g] \in Openable
      /\ cache' \subseteq Openable
  BY CachedOpens
<1>3. Openable' = Openable
  BY DEF Openable
<1> SUFFICES ASSUME closer' = "serving", NEW h \in Clients
             PROVE  Unhurt(h)'
  BY <1>2, <1>3 DEF RoomInv
<1>4. ASSUME NEW g \in Clients, Subscribe(g) \/ Step(g) \/ SendFails(g)
      PROVE  Unhurt(h)'
  <2>1. closer = "serving" /\ cache \subseteq cache'
    BY <1>4, CacheGrows
  <2>2. CASE h = g
    BY <1>4, <2>1, <2>2, OwnUnhurt
  <2>3. CASE h # g
    <3>1. Unhurt(h)
      BY <2>1 DEF RoomInv
    <3>2. /\ pc'[h] = pc[h] /\ at'[h] = at[h] /\ failed'[h] = failed[h]
          /\ why'[h] = why[h] /\ once'[h] = once[h]
      BY <1>1, <1>4, <2>3, OthersLeftAlone DEF CacheInv
    <3>3. InFlight(h) /\ onceState'[once[h]] = "done" /\ at[h] \in Openable =>
            onceState[once[h]] = "done" \/ at[h] \in cache'
      BY <1>4, <2>1, <2>3, DoneIsCached
    <3>4. QED
      BY <2>1, <3>1, <3>2, <3>3, OthersUnhurt
  <2>4. QED
    BY <2>2, <2>3
<1>5. CASE UNCHANGED vars
  <2>1. /\ UNCHANGED <<pc, at, failed, why, once, cache, onceState, closer>>
    BY <1>5 DEF vars
  <2>2. Unhurt(h)
    BY <2>1 DEF RoomInv
  <2>3. QED
    BY <2>1, <2>2, OthersUnhurt
<1>6. ~ (CloseCache \/ CloseKey \/ CloseFile)
  BY DEF CloseCache, CloseKey, CloseFile
<1>7. QED
  BY <1>4, <1>5, <1>6 DEF Next

\* A stream that is cut off stands at a chunk, not behind the last one.
CutAtChunk ==
  \A g \in Clients : why[g] \in {"cache miss", "decrypt error"} => at[g] \in Chunks

\* Every step keeps it so.
LEMMA CutStep ==
  ASSUME CacheInv, HandedInv, CutAtChunk, [Next]_vars
  PROVE  CutAtChunk'
<1>1. TypeOK /\ Located
  BY DEF CacheInv
<1>2. Chunks' = Chunks
  OBVIOUS
<1>3. CASE UNCHANGED <<why, at>>
  BY <1>3 DEF CutAtChunk
<1>4. ASSUME NEW g \in Clients, Subscribe(g) \/ Step(g) \/ SendFails(g)
      PROVE  CutAtChunk'
  <2> SUFFICES ASSUME NEW h \in Clients, why'[h] \in {"cache miss", "decrypt error"}
               PROVE  at'[h] \in Chunks
    BY DEF CutAtChunk
  <2>1. CASE h # g
    <3>1. at'[h] = at[h] /\ why'[h] = why[h]
      BY <1>1, <1>4, <2>1, OthersLeftAlone
    <3>2. QED
      BY <3>1 DEF CutAtChunk
  <2>2. CASE h = g
    <3>1. CASE SkipChunk(g) \/ Emit(g)
      <4>1. pc[g] # "ended" /\ why' = why
        BY <3>1 DEF SkipChunk, Emit
      <4>2. QED
        BY <2>2, <4>1 DEF HandedInv
    <3>2. CASE RecheckMiss(g) \/ ForgetOnce(g)
      <4>1. at' = at /\ pc[g] \in {"recheck", "forget"}
        BY <3>2 DEF RecheckMiss, ForgetOnce
      <4>2. QED
        BY <1>1, <2>2, <4>1 DEF Located
    <3>3. CASE Finish(g) \/ SendFails(g)
      BY <1>1, <2>2, <3>3 DEF Finish, SendFails, Stop, TypeOK
    <3>4. CASE ~ (SkipChunk(g) \/ Emit(g) \/ RecheckMiss(g) \/ ForgetOnce(g) \/ Finish(g) \/ SendFails(g))
      <4>1. UNCHANGED <<why, at>>
        BY <1>4, <3>4
        DEF Step, Subscribe, LookupHit, LookupMiss, LoadOnce, StoreOnce, DoRun,
            DoWait, ReadChunk, OpenChunk, CachePut, LeaveOnce, RecheckHit
      <4>2. QED
        BY <2>2, <4>1 DEF CutAtChunk
    <3>5. QED
      BY <3>1, <3>2, <3>3, <3>4
  <2>3. QED
    BY <2>1, <2>2
<1>5. CASE CloseCache \/ CloseKey \/ CloseFile \/ UNCHANGED vars
  BY <1>3, <1>5 DEF CloseCache, CloseKey, CloseFile, vars, streamVars
<1>6. QED
  BY <1>4, <1>5 DEF Next

\* With room for every chunk that opens, no stream of a serving bridge is cut
\* off at one of them by getDecryptedChunk: a re-check always finds the chunk.
THEOREM NoStreamIsCutOff ==
  ASSUME Room
  PROVE  Spec => []NoSpuriousEnd
<1>1. CacheInv /\ OnceInv /\ OnceHasChunk /\ HandedInv /\ RoomInv /\ [Next]_vars
        => RoomInv' /\ OnceHasChunk'
  BY RoomStep, OnceHasChunkStep DEF CacheInv
<1>2. RoomInv /\ CutAtChunk => NoSpuriousEnd
  <2> SUFFICES ASSUME RoomInv, CutAtChunk, NEW g \in Clients, closer = "serving",
                      at[g] \notin BadChunks, why[g] \in {"cache miss", "decrypt error"}
               PROVE  FALSE
    BY DEF NoSpuriousEnd
  <2>1. at[g] \in Chunks
    BY DEF CutAtChunk
  <2>2. QED
    BY <2>1 DEF RoomInv, Unhurt, Openable
<1>3. CacheInv /\ HandedInv /\ CutAtChunk /\ [Next]_vars => CutAtChunk'
  BY CutStep
<1>4. Init => CutAtChunk
  BY DEF Init, CutAtChunk
<1>5. QED
  BY <1>1, <1>2, <1>3, <1>4, InitRoomInv, CacheInvariant, OnceInvariant, HandedInvariant, PTL DEF Spec

=============================================================================
