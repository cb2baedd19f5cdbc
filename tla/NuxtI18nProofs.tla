---------------------------- MODULE NuxtI18nProofs ----------------------------
(***************************************************************************)
(* The chunk Map of the view layer, for any number of contexts and any     *)
(* bound: what evictChunks deletes, and that every method that writes the  *)
(* Map keeps it typed, free of repetitions, within its bound, and keeps    *)
(* the chunk of the current context.  The proofs about TranslationLoader   *)
(* and Navigation rest on these lemmas.                                    *)
(***************************************************************************)
EXTENDS NuxtI18n, InsertionOrderProofs

\* A sequence without repetitions is as long as its set.
LEMMA LengthOfInjective ==
  ASSUME NEW S, NEW s \in Seq(S), IsInjective(s)
  PROVE  /\ IsFiniteSet(ToSet(s)) /\ Cardinality(ToSet(s)) = Len(s)
         /\ Len(s) \in Nat /\ ToSet(s) \subseteq S
<1> DEFINE n == Len(s)
<1>1. n \in Nat /\ DOMAIN s = 1..n /\ s \in [1..n -> S]
  OBVIOUS
<1> HIDE DEF n
<1>2. ToSet(s) = {s[i] : i \in 1..n}
  BY <1>1 DEF ToSet
<1>3. s \in [1..n -> ToSet(s)]
  <2>1. \A i \in 1..n : s[i] \in ToSet(s)
    BY <1>2
  <2> QED BY <1>1, <2>1
<1>4. s \in Bijection(1..n, ToSet(s))
  BY <1>1, <1>2, <1>3 DEF Bijection, Injection, Surjection, IsInjective
<1>5. IsFiniteSet(1..n) /\ Cardinality(1..n) = IF 1 > n THEN 0 ELSE n - 1 + 1
  BY <1>1, FS_Interval
<1>6. ExistsBijection(1..n, ToSet(s))
  BY <1>4 DEF ExistsBijection
<1>7. IsFiniteSet(ToSet(s)) /\ Cardinality(ToSet(s)) = Cardinality(1..n)
  BY <1>5, <1>6, FS_Bijection
<1>8. Cardinality(ToSet(s)) = n
  BY <1>1, <1>5, <1>7
<1>9. ToSet(s) \subseteq S
  BY <1>1, <1>2
<1> QED BY <1>1, <1>7, <1>8, <1>9 DEF n

\* The n oldest of K are n, or all of K where it has fewer.
LEMMA OldestAreMany ==
  ASSUME NEW S, NEW s \in Seq(S), IsInjective(s), NEW K \in SUBSET ToSet(s), NEW n \in Nat
  PROVE  /\ OldestOf(s, K, n) \subseteq K /\ IsFiniteSet(OldestOf(s, K, n))
         /\ IsFiniteSet(K) /\ Cardinality(K) \in Nat
         /\ Cardinality(OldestOf(s, K, n)) = IF n <= Cardinality(K) THEN n ELSE Cardinality(K)
<1> DEFINE p == [k \in K |-> Position(s, k)]
           rank == [k \in K |-> Rank(K, p, k)]
           size == Cardinality(K)
           oldest == {k \in K : rank[k] <= n}
<1>1. IsFiniteSet(K) /\ size \in Nat
  BY LengthOfInjective, FS_Subset, FS_CardinalityType
<1>2. p \in [K -> Int] /\ IsInjective(p)
  <2>1. \A k \in K : Position(s, k) \in 1..Len(s) /\ s[Position(s, k)] = k
    BY PositionIsIndex
  <2> QED BY <2>1 DEF IsInjective
<1>3. rank \in Bijection(K, 1..size)
  BY <1>1, <1>2, RankNumbers
<1>4. OldestOf(s, K, n) = oldest
  <2>1. \A k \in K : Rank(K, p, k)
          = Cardinality({j \in K : Position(s, j) <= Position(s, k)})
    <3> TAKE k \in K
    <3>1. {j \in K : p[j] <= p[k]} = {j \in K : Position(s, j) <= Position(s, k)}
      OBVIOUS
    <3> QED BY <3>1 DEF Rank
  <2> QED BY <2>1 DEF OldestOf
<1> HIDE DEF p, rank, size
<1>5. /\ rank \in [K -> 1..size]
      /\ \A j, k \in K : rank[j] = rank[k] => j = k
      /\ \A m \in 1..size : \E k \in K : rank[k] = m
  BY <1>3 DEF Bijection, Injection, Surjection, IsInjective
<1>6. CASE n <= size
  <2> DEFINE f == [k \in oldest |-> rank[k]]
  <2>1. f \in [oldest -> 1..n]
    BY <1>1, <1>5
  <2>2. \A m \in 1..n : \E k \in oldest : f[k] = m
    <3> TAKE m \in 1..n
    <3>1. m \in 1..size
      BY <1>1, <1>6
    <3>2. PICK k \in K : rank[k] = m
      BY <1>5, <3>1
    <3> QED BY <3>2
  <2>3. f \in Bijection(oldest, 1..n)
    BY <1>5, <2>1, <2>2 DEF Bijection, Injection, Surjection, IsInjective
  <2>4. IsFiniteSet(oldest)
    BY <1>1, FS_Subset
  <2>5. ExistsBijection(oldest, 1..n)
    BY <2>3 DEF ExistsBijection
  <2> HIDE DEF oldest, f
  <2>6. Cardinality(1..n) = Cardinality(oldest)
    BY <2>4, <2>5, FS_Bijection
  <2>7. Cardinality(1..n) = IF 1 > n THEN 0 ELSE n - 1 + 1
    BY FS_Interval
  <2>8. Cardinality(oldest) = n
    BY <2>6, <2>7
  <2> QED BY <1>1, <1>4, <1>6, <2>4, <2>8 DEF oldest, size
<1>7. CASE ~(n <= size)
  <2>1. oldest = K
    BY <1>1, <1>5, <1>7
  <2> QED BY <1>1, <1>4, <1>7, <2>1 DEF size
<1> QED BY <1>6, <1>7

\* evictChunks(keep) deletes as many entries as there are too many, not `keep`,
\* and the current one only when the Map holds a single entry.
LEMMA EvictedEnough ==
  ASSUME NEW w \in Views, IsInjective(w.order), NEW keep \in ToSet(w.order)
  PROVE  /\ Evicted(w, keep) \subseteq ToSet(w.order) \ {keep}
         /\ IsFiniteSet(Evicted(w, keep))
         /\ Cardinality(Evicted(w, keep)) =
              IF w.max = 0 \/ Len(w.order) <= w.max THEN 0 ELSE Len(w.order) - w.max
         /\ w.max # 1 => w.current \notin Evicted(w, keep)
<1> DEFINE s      == w.order
           len    == Len(s)
           excess == len - w.max
           keys   == ToSet(s)
           others == keys \ {keep, w.current}
           first  == OldestOf(s, others, excess)
           rest   == (keys \ first) \ {keep}
           second == OldestOf(s, rest, excess - Cardinality(first))
<1>1. s \in Seq(Contexts) /\ len \in Nat /\ w.max \in Nat /\ excess \in Int
  BY DEF Views
<1>2. IsFiniteSet(keys) /\ Cardinality(keys) = len
  BY <1>1, LengthOfInjective
<1>3. Evicted(w, keep) = IF w.max = 0 \/ excess <= 0 THEN {} ELSE first \union second
  BY DEF Evicted
<1> HIDE DEF first, second
<1>4. CASE w.max = 0 \/ excess <= 0
  <2>1. Evicted(w, keep) = {} /\ (w.max = 0 \/ len <= w.max)
    BY <1>1, <1>3, <1>4
  <2> QED BY <2>1, FS_EmptySet
<1>5. CASE ~(w.max = 0 \/ excess <= 0)
  <2>1. excess \in Nat /\ excess <= len - 1 /\ excess >= 1 /\ len - w.max = excess
    BY <1>1, <1>5
  <2> HIDE DEF excess
  <2>2. /\ first \subseteq others /\ IsFiniteSet(first)
        /\ IsFiniteSet(others) /\ Cardinality(others) \in Nat
        /\ Cardinality(first) = IF excess <= Cardinality(others) THEN excess
                                ELSE Cardinality(others)
    <3>1. others \in SUBSET ToSet(s)
      OBVIOUS
    <3>2. IsInjective(s) /\ first = OldestOf(s, others, excess)
      BY DEF first
    <3> HIDE DEF others, s
    <3> QED BY <1>1, <2>1, <3>1, <3>2, OldestAreMany
  <2>3. Cardinality(others) >= len - 2
    <3>1. IsFiniteSet(keys \ {keep}) /\ Cardinality(keys \ {keep}) = len - 1
      BY <1>2, FS_RemoveElement
    <3>2. (keys \ {keep}) \ {w.current} = others
      OBVIOUS
    <3> DEFINE others1 == keys \ {keep}
    <3> HIDE DEF others, others1, keys, len
    <3>3. Cardinality(others1 \ {w.current})
            = IF w.current \in others1 THEN Cardinality(others1) - 1 ELSE Cardinality(others1)
      BY <3>1, FS_RemoveElement DEF others1
    <3>4. Cardinality(others1) = len - 1 /\ others1 \ {w.current} = others
      BY <3>1, <3>2 DEF others1
    <3>5. Cardinality(others) = IF w.current \in others1 THEN len - 1 - 1 ELSE len - 1
      BY <3>3, <3>4
    <3>6. len \in Nat
      BY <1>1
    <3> QED BY <3>5, <3>6
  <2>4. Cardinality(first) \in Nat /\ Cardinality(first) <= excess
    BY <2>1, <2>2
  <2>5. IsFiniteSet(rest) /\ Cardinality(rest) = len - Cardinality(first) - 1
    <3>1. first \in SUBSET keys /\ keep \in keys \ first
      BY <2>2
    <3>2. keys \intersect first = first
      BY <3>1
    <3>3. IsFiniteSet(keys \ first) /\ Cardinality(keys \ first) = len - Cardinality(first)
      BY <1>2, <3>2, FS_Difference
    <3> DEFINE left == keys \ first
    <3>4. IsFiniteSet(left) /\ Cardinality(left) = len - Cardinality(first) /\ keep \in left
          /\ rest = left \ {keep}
      BY <3>1, <3>3
    <3> HIDE DEF left, rest, len
    <3>5. IsFiniteSet(left \ {keep}) /\ Cardinality(left \ {keep}) = Cardinality(left) - 1
      BY <3>4, FS_RemoveElement
    <3> QED BY <3>4, <3>5
  <2> DEFINE more == excess - Cardinality(first)
  <2>6. more \in Nat /\ more <= len - Cardinality(first) - 1
    BY <1>1, <2>1, <2>4
  <2>7. /\ second \subseteq rest /\ IsFiniteSet(second)
        /\ Cardinality(second) = IF more <= Cardinality(rest) THEN more ELSE Cardinality(rest)
    <3>1. rest \in SUBSET ToSet(s)
      OBVIOUS
    <3>2. second = OldestOf(s, rest, more)
      BY DEF second
    <3> HIDE DEF rest, s, more
    <3>3. IsInjective(s)
      BY DEF s
    <3> QED BY <1>1, <2>6, <3>1, <3>2, <3>3, OldestAreMany
  <2>8. Cardinality(second) = more
    <3> HIDE DEF more, rest
    <3> QED BY <2>5, <2>6, <2>7
  <2>9. /\ IsFiniteSet(first \union second)
        /\ Cardinality(first \union second) = excess
    <3>1. first \intersect second = {}
      BY <2>7
    <3>2. /\ IsFiniteSet(first \union second)
          /\ Cardinality(first \union second) = Cardinality(first) + Cardinality(second) - 0
      BY <2>2, <2>7, <3>1, FS_Union, FS_EmptySet
    <3> QED BY <2>1, <2>4, <2>8, <3>2
  <2>10. Evicted(w, keep) = first \union second
    BY <1>3, <1>5
  <2>11. Evicted(w, keep) \subseteq keys \ {keep}
    BY <2>2, <2>7, <2>10
  <2>12. ASSUME w.max # 1
         PROVE  w.current \notin Evicted(w, keep)
    <3>1. excess <= len - 2
      BY <1>1, <1>5, <2>1, <2>12
    <3>2. Cardinality(first) = excess
      BY <1>1, <2>1, <2>2, <2>3, <3>1
    <3>3. second = {}
      <4> HIDE DEF rest
      <4>1. Cardinality(second) = 0
        BY <2>1, <2>8, <3>2
      <4> QED BY <2>7, <4>1, FS_EmptySet
    <3> QED BY <2>2, <2>10, <3>3
  <2>13. ~(w.max = 0 \/ len <= w.max)
    BY <1>1, <1>5 DEF excess
  <2> QED BY <2>1, <2>9, <2>10, <2>11, <2>12, <2>13
<1> QED BY <1>4, <1>5

-----------------------------------------------------------------------------
(* The methods that write the Map. *)

\* Every chunk is listed, once.
Listed(w) ==
  /\ w \in Views
  /\ IsInjective(w.order)
  /\ \A c \in Contexts : w.chunk[c] # EmptyDict => hasChunk(w, c)

ChunksOK(w) == Listed(w) /\ (w.max > 0 => Len(w.order) <= w.max)

\* What v has kept of w: its bound, and the current chunk, if the Map has room
\* for two.
KeepsActive(w, v) ==
  /\ v.max = w.max
  /\ w.max # 1 /\ hasChunk(w, w.current) => hasChunk(v, w.current)

LEMMA EmptyIsDict == EmptyDict \in Dicts
  BY DEF EmptyDict, Dicts

LEMMA FieldTypes ==
  ASSUME NEW w \in Views
  PROVE  /\ w.order \in Seq(Contexts) /\ w.chunk \in [Contexts -> Dicts]
         /\ w.cached \in Dicts /\ w.outgoing \in Dicts \union {NoDict}
         /\ w.current \in Contexts \union {NoContext} /\ w.max \in Nat
  BY DEF Views

LEMMA EvictKeeps ==
  ASSUME NEW u, Listed(u), NEW keep, hasChunk(u, keep)
  PROVE  LET v == evictChunks(u, keep)
         IN  /\ ChunksOK(v) /\ KeepsActive(u, v)
             /\ v.cached = u.cached /\ v.outgoing = u.outgoing /\ v.current = u.current
             /\ hasChunk(v, keep)
             /\ \A c \in Contexts : hasChunk(v, c) => hasChunk(u, c) /\ v.chunk[c] = u.chunk[c]
<1> DEFINE gone  == Evicted(u, keep)
           I     == {i \in DOMAIN u.order : u.order[i] \notin gone}
           order == Picked(u.order, I)
           chunk == [c \in Contexts |-> IF c \in gone THEN EmptyDict ELSE u.chunk[c]]
           v     == [u EXCEPT !.order = order, !.chunk = chunk]
<1>1. v = evictChunks(u, keep)
  BY DEF evictChunks
<1>2. u \in Views /\ IsInjective(u.order) /\ keep \in ToSet(u.order)
  BY DEF Listed, hasChunk
<1>3. /\ gone \subseteq ToSet(u.order) \ {keep} /\ IsFiniteSet(gone)
      /\ Cardinality(gone) =
           IF u.max = 0 \/ Len(u.order) <= u.max THEN 0 ELSE Len(u.order) - u.max
      /\ u.max # 1 => u.current \notin gone
  BY <1>2, EvictedEnough
<1> HIDE DEF gone
<1>4. /\ order \in Seq(Contexts) /\ IsInjective(order)
      /\ ToSet(order) = {u.order[i] : i \in I}
  BY <1>2, FieldTypes, PickedElements
<1>5. ToSet(order) = ToSet(u.order) \ gone
  BY <1>4 DEF ToSet
<1> HIDE DEF order, I
<1>6. Len(order) = Len(u.order) - Cardinality(gone)
  <2>1. /\ IsFiniteSet(ToSet(u.order)) /\ Cardinality(ToSet(u.order)) = Len(u.order)
        /\ Cardinality(ToSet(order)) = Len(order)
    BY <1>2, <1>4, FieldTypes, LengthOfInjective
  <2>2. ToSet(u.order) \intersect gone = gone
    BY <1>3
  <2>3. Cardinality(ToSet(u.order) \ gone) = Cardinality(ToSet(u.order)) - Cardinality(gone)
    <3> DEFINE keys == ToSet(u.order)
    <3>1. IsFiniteSet(keys) /\ keys \intersect gone = gone
      BY <2>1, <2>2
    <3> HIDE DEF keys
    <3>2. Cardinality(keys \ gone) = Cardinality(keys) - Cardinality(keys \intersect gone)
      BY <3>1, FS_Difference
    <3> QED BY <3>1, <3>2 DEF keys
  <2> QED BY <1>5, <2>1, <2>3
<1>7. chunk \in [Contexts -> Dicts]
  BY <1>2, FieldTypes, EmptyIsDict
<1>8. /\ v \in Views
      /\ v.order = order /\ v.chunk = chunk /\ v.max = u.max
      /\ v.cached = u.cached /\ v.outgoing = u.outgoing /\ v.current = u.current
  <2> HIDE DEF chunk
  <2> QED BY <1>2, <1>4, <1>7 DEF Views
<1> HIDE DEF v
<1>9. \A c : hasChunk(v, c) <=> hasChunk(u, c) /\ c \notin gone
  BY <1>5, <1>8 DEF hasChunk
<1>10. \A c \in Contexts : v.chunk[c] # EmptyDict => hasChunk(v, c)
  BY <1>8, <1>9 DEF Listed
<1>11. v.max > 0 => Len(v.order) <= v.max
  <2>1. Len(u.order) \in Nat /\ u.max \in Nat
    BY <1>2, FieldTypes, LengthOfInjective
  <2> QED BY <1>3, <1>6, <1>8, <2>1
<1>12. hasChunk(v, keep)
  BY <1>2, <1>3, <1>9 DEF hasChunk
<1>13. KeepsActive(u, v)
  BY <1>3, <1>8, <1>9 DEF KeepsActive
<1>14. \A c \in Contexts : hasChunk(v, c) => hasChunk(u, c) /\ v.chunk[c] = u.chunk[c]
  BY <1>8, <1>9
<1> QED BY <1>1, <1>4, <1>8, <1>10, <1>11, <1>12, <1>13, <1>14 DEF ChunksOK, Listed

LEMMA WithProperties ==
  ASSUME NEW S, NEW s \in Seq(S), NEW k \in S, IsInjective(s)
  PROVE  /\ With(s, k) \in Seq(S) /\ IsInjective(With(s, k))
         /\ ToSet(With(s, k)) = ToSet(s) \union {k}
<1>1. CASE k \in ToSet(s)
  BY <1>1 DEF With
<1>2. CASE k \notin ToSet(s)
  BY <1>2, AppendNewKey DEF With
<1> QED BY <1>1, <1>2

\* The other fields of a view do not matter to the Map.
LEMMA SameMap ==
  ASSUME NEW w, ChunksOK(w), NEW v \in Views,
         v.order = w.order, v.chunk = w.chunk, v.max = w.max
  PROVE  ChunksOK(v)
  BY DEF ChunksOK, Listed, hasChunk

LEMMA SetChunkKeeps ==
  ASSUME NEW w, ChunksOK(w), NEW c \in Contexts, NEW data \in Dicts
  PROVE  LET v == setChunk(w, c, data)
         IN  /\ ChunksOK(v) /\ KeepsActive(w, v)
             /\ v.cached = w.cached /\ v.outgoing = w.outgoing /\ v.current = w.current
             /\ hasChunk(v, c) /\ v.chunk[c] = data
             /\ \A d \in Contexts \ {c} :
                  hasChunk(v, d) => hasChunk(w, d) /\ v.chunk[d] = w.chunk[d]
<1> DEFINE order == With(w.order, c)
           chunk == [w.chunk EXCEPT ![c] = data]
           u     == [w EXCEPT !.order = order, !.chunk[c] = data]
<1>1. setChunk(w, c, data) = evictChunks(u, c)
  BY DEF setChunk
<1>2. w \in Views /\ IsInjective(w.order)
  BY DEF ChunksOK, Listed
<1>3. /\ order \in Seq(Contexts) /\ IsInjective(order)
      /\ ToSet(order) = ToSet(w.order) \union {c}
  BY <1>2, FieldTypes, WithProperties
<1>4. chunk \in [Contexts -> Dicts] /\ chunk[c] = data
      /\ \A d \in Contexts \ {c} : chunk[d] = w.chunk[d]
  BY <1>2, FieldTypes
<1>5. u = [w EXCEPT !.order = order, !.chunk = chunk]
  BY <1>2 DEF Views
<1> HIDE DEF order, chunk, u
<1>6. /\ u \in Views
      /\ u.order = order /\ u.chunk = chunk /\ u.max = w.max
      /\ u.cached = w.cached /\ u.outgoing = w.outgoing /\ u.current = w.current
  BY <1>2, <1>3, <1>4, <1>5 DEF Views
<1>7. \A d : hasChunk(u, d) <=> hasChunk(w, d) \/ d = c
  BY <1>3, <1>6 DEF hasChunk
<1>8. Listed(u) /\ hasChunk(u, c)
  <2>1. \A d \in Contexts : u.chunk[d] # EmptyDict => hasChunk(u, d)
    BY <1>4, <1>6, <1>7 DEF ChunksOK, Listed
  <2> QED BY <1>3, <1>6, <1>7, <2>1 DEF Listed
<1> DEFINE v == evictChunks(u, c)
<1>9. /\ ChunksOK(v) /\ KeepsActive(u, v)
      /\ v.cached = u.cached /\ v.outgoing = u.outgoing /\ v.current = u.current
      /\ hasChunk(v, c)
      /\ \A d \in Contexts : hasChunk(v, d) => hasChunk(u, d) /\ v.chunk[d] = u.chunk[d]
  BY <1>8, EvictKeeps
<1> HIDE DEF v
<1>10. KeepsActive(w, v)
  BY <1>6, <1>7, <1>9 DEF KeepsActive
<1>11. v.chunk[c] = data
  BY <1>4, <1>6, <1>9
<1>12. \A d \in Contexts \ {c} : hasChunk(v, d) => hasChunk(w, d) /\ v.chunk[d] = w.chunk[d]
  BY <1>4, <1>6, <1>7, <1>9
<1> QED BY <1>1, <1>6, <1>9, <1>10, <1>11, <1>12 DEF v

LEMMA MergedIsDict ==
  ASSUME NEW a \in Dicts, NEW b \in Dicts
  PROVE  Merged(a, b) \in Dicts
  BY DEF Merged, Dicts

LEMMA MadeForIsDict ==
  ASSUME NEW c \in Contexts
  PROVE  File(c) \in Dicts /\ \A S : Patch(c, S) \in Dicts
  BY DEF File, Patch, Fragment, Dicts, Values

LEMMA SwitchKeeps ==
  ASSUME NEW w, ChunksOK(w), NEW c \in Contexts, NEW data \in Dicts
  PROVE  LET v == applySwitchContext(w, c, data)
         IN  /\ ChunksOK(v) /\ v.max = w.max
             /\ v.cached = data /\ v.current = c
             /\ hasChunk(v, c) /\ v.chunk[c] = data
             /\ w.max # 1 /\ w.current = c /\ hasChunk(w, c) => KeepsActive(w, v)
             /\ \A d \in Contexts \ {c} :
                  hasChunk(v, d) => hasChunk(w, d) /\ v.chunk[d] = w.chunk[d]
<1> DEFINE sameLocale == w.current # NoContext /\ LocaleOf(w.current) = LocaleOf(c)
           outgoing == IF sameLocale THEN w.cached ELSE NoDict
           u == [w EXCEPT !.outgoing = outgoing, !.cached = data, !.current = c]
           v == setChunk(u, c, data)
<1>1. applySwitchContext(w, c, data) = v
  BY DEF applySwitchContext
<1>2. w \in Views
  BY DEF ChunksOK, Listed
<1>3. outgoing \in Dicts \union {NoDict}
  BY <1>2, FieldTypes
<1> HIDE DEF outgoing
<1>4. /\ u \in Views /\ u.order = w.order /\ u.chunk = w.chunk /\ u.max = w.max
      /\ u.cached = data /\ u.current = c
  BY <1>2, <1>3 DEF Views
<1> HIDE DEF u
<1>5. ChunksOK(u)
  BY <1>4, SameMap
<1>6. /\ ChunksOK(v) /\ KeepsActive(u, v)
      /\ v.cached = u.cached /\ v.current = u.current
      /\ hasChunk(v, c) /\ v.chunk[c] = data
      /\ \A d \in Contexts \ {c} :
           hasChunk(v, d) => hasChunk(u, d) /\ v.chunk[d] = u.chunk[d]
  BY <1>5, SetChunkKeeps
<1> HIDE DEF v
<1>7. \A d : hasChunk(u, d) <=> hasChunk(w, d)
  BY <1>4 DEF hasChunk
<1> QED BY <1>1, <1>4, <1>6, <1>7 DEF KeepsActive

LEMMA PatchKeeps ==
  ASSUME NEW w, ChunksOK(w), NEW c \in Contexts, NEW data \in Dicts
  PROVE  LET v == patchContext(w, c, data)
         IN  /\ ChunksOK(v) /\ KeepsActive(w, v) /\ v.current = w.current
             /\ v.cached = IF c = w.current THEN Merged(w.cached, data) ELSE w.cached
             /\ v.chunk[c] = Merged(w.chunk[c], data) /\ hasChunk(v, c)
             /\ \A d \in Contexts \ {c} :
                  hasChunk(v, d) => hasChunk(w, d) /\ v.chunk[d] = w.chunk[d]
<1> DEFINE merged  == Merged(w.chunk[c], data)
           patched == mergeChunk(w, c, data)
           v       == patchContext(w, c, data)
<1>1. w \in Views /\ merged \in Dicts /\ patched = setChunk(w, c, merged)
  <2>1. w \in Views /\ w.chunk[c] \in Dicts
    BY FieldTypes DEF ChunksOK, Listed
  <2> QED BY <2>1, MergedIsDict DEF mergeChunk
<1> HIDE DEF merged, patched
<1>2. /\ ChunksOK(patched) /\ KeepsActive(w, patched) /\ patched.current = w.current
      /\ patched.cached = w.cached
      /\ hasChunk(patched, c) /\ patched.chunk[c] = merged
      /\ \A d \in Contexts \ {c} :
           hasChunk(patched, d) => hasChunk(w, d) /\ patched.chunk[d] = w.chunk[d]
  BY <1>1, SetChunkKeeps
<1>3. CASE c # w.current
  <2>1. v = patched
    BY <1>3 DEF patchContext, patched
  <2> HIDE DEF v
  <2> QED BY <1>2, <1>3, <2>1 DEF merged, v
<1>4. CASE c = w.current
  <2> DEFINE cached == Merged(w.cached, data)
  <2>1. v = [patched EXCEPT !.cached = cached]
    BY <1>4 DEF patchContext, patched
  <2>2. cached \in Dicts /\ patched \in Views
    BY <1>1, <1>2, FieldTypes, MergedIsDict DEF ChunksOK, Listed
  <2> HIDE DEF cached, v
  <2>3. /\ v \in Views /\ v.order = patched.order /\ v.chunk = patched.chunk
        /\ v.max = patched.max /\ v.current = patched.current /\ v.cached = cached
    BY <2>1, <2>2 DEF Views
  <2>4. ChunksOK(v) /\ \A d : hasChunk(v, d) <=> hasChunk(patched, d)
    BY <1>2, <2>3, SameMap DEF hasChunk
  <2> QED BY <1>2, <1>4, <2>3, <2>4 DEF KeepsActive, cached, merged, v
<1> QED BY <1>3, <1>4

\* d with `value` at the leaf l.
AtLeaf(d, l, value) == [d EXCEPT ![l] = value]

LEMMA SetTranslationKeeps ==
  ASSUME NEW w, ChunksOK(w), w.current \in Contexts, NEW l \in Leaves, NEW value \in Values
  PROVE  LET v == setTranslation(w, l, value)
         IN  /\ ChunksOK(v) /\ KeepsActive(w, v) /\ v.current = w.current
             /\ v.cached = AtLeaf(w.cached, l, value)
             /\ \A d \in Contexts \ {w.current} :
                  hasChunk(v, d) => hasChunk(w, d) /\ v.chunk[d] = w.chunk[d]
             /\ v.chunk[w.current] = AtLeaf(w.chunk[w.current], l, value)
<1> DEFINE cached == [w.cached EXCEPT ![l] = value]
           data   == [w.chunk[w.current] EXCEPT ![l] = value]
           u      == [w EXCEPT !.cached[l] = value]
           v      == setTranslation(w, l, value)
<1>1. w \in Views
  BY DEF ChunksOK, Listed
<1>2. cached \in Dicts /\ data \in Dicts
  <2>1. w.cached \in Dicts /\ w.chunk[w.current] \in Dicts
    BY <1>1, FieldTypes
  <2> QED BY <2>1 DEF Dicts
<1>3. u = [w EXCEPT !.cached = cached]
  BY <1>1 DEF Views
<1>4. v = setChunk(u, w.current, data)
  BY DEF setTranslation
<1> HIDE DEF cached, data, u
<1>5. /\ u \in Views /\ u.order = w.order /\ u.chunk = w.chunk /\ u.max = w.max
      /\ u.current = w.current /\ u.cached = cached
  BY <1>1, <1>2, <1>3 DEF Views
<1>6. ChunksOK(u) /\ \A d : hasChunk(u, d) <=> hasChunk(w, d)
  BY <1>5, SameMap DEF hasChunk
<1> HIDE DEF v
<1>7. /\ ChunksOK(v) /\ KeepsActive(u, v) /\ v.current = u.current
      /\ v.chunk[w.current] = data /\ v.cached = u.cached
      /\ \A d \in Contexts \ {w.current} :
           hasChunk(v, d) => hasChunk(u, d) /\ v.chunk[d] = u.chunk[d]
  BY <1>2, <1>4, <1>6, SetChunkKeeps
<1> QED BY <1>5, <1>6, <1>7 DEF KeepsActive, AtLeaf, cached, data, v

\* Appending keys that are not there, each once.
LEMMA AppendedKeys ==
  ASSUME NEW S, NEW s \in Seq(S), NEW t \in Seq(S), IsInjective(s), IsInjective(t),
         ToSet(s) \intersect ToSet(t) = {}
  PROVE  /\ s \o t \in Seq(S) /\ IsInjective(s \o t)
         /\ ToSet(s \o t) = ToSet(s) \union ToSet(t)
<1> DEFINE m == Len(s)
           n == Len(t)
           r == s \o t
<1>1. /\ m \in Nat /\ n \in Nat /\ r \in Seq(S) /\ Len(r) = m + n
      /\ \A i \in 1..(m + n) : r[i] = IF i <= m THEN s[i] ELSE t[i - m]
  OBVIOUS
<1>2. DOMAIN s = 1..m /\ DOMAIN t = 1..n /\ DOMAIN r = 1..(m + n)
  BY <1>1
<1> HIDE DEF m, n, r
<1>3. /\ ToSet(s) = {s[i] : i \in 1..m} /\ ToSet(t) = {t[i] : i \in 1..n}
      /\ ToSet(r) = {r[i] : i \in 1..(m + n)}
  BY <1>2 DEF ToSet
<1>4. \A i \in 1..m : i \in 1..(m + n) /\ r[i] = s[i]
  BY <1>1
<1>5. \A i \in 1..n : i + m \in 1..(m + n) /\ r[i + m] = t[i]
  <2> TAKE i \in 1..n
  <2>1. i + m \in 1..(m + n) /\ ~(i + m <= m) /\ (i + m) - m = i
    BY <1>1
  <2> QED BY <1>1, <2>1
<1>6. \A i \in 1..(m + n) :
        \/ i \in 1..m /\ r[i] = s[i]
        \/ i > m /\ i - m \in 1..n /\ r[i] = t[i - m]
  BY <1>1
<1>7. ToSet(r) = ToSet(s) \union ToSet(t)
  BY <1>3, <1>4, <1>5, <1>6
<1>8. ASSUME NEW i \in 1..(m + n), NEW j \in 1..(m + n), r[i] = r[j]
      PROVE  i = j
  <2>1. CASE i \in 1..m /\ r[i] = s[i] /\ j \in 1..m /\ r[j] = s[j]
    BY <1>2, <1>8, <2>1 DEF IsInjective
  <2>2. CASE i > m /\ i - m \in 1..n /\ r[i] = t[i - m] /\ j > m /\ j - m \in 1..n /\ r[j] = t[j - m]
    <3>1. i - m = j - m
      BY <1>2, <1>8, <2>2 DEF IsInjective
    <3> QED BY <1>1, <3>1
  <2>3. CASE i \in 1..m /\ r[i] = s[i] /\ j > m /\ j - m \in 1..n /\ r[j] = t[j - m]
    BY <1>3, <1>8, <2>3
  <2>4. CASE j \in 1..m /\ r[j] = s[j] /\ i > m /\ i - m \in 1..n /\ r[i] = t[i - m]
    BY <1>3, <1>8, <2>4
  <2> QED BY <1>6, <2>1, <2>2, <2>3, <2>4
<1>9. IsInjective(r)
  BY <1>2, <1>8 DEF IsInjective
<1>10. r \in Seq(S)
  BY <1>1
<1> QED BY <1>7, <1>9, <1>10 DEF r

LEMMA SeedKeeps ==
  ASSUME NEW w, ChunksOK(w), NEW seeds \in Seq(Contexts), IsInjective(seeds)
  PROVE  LET v == seedChunks(w, seeds)
         IN  /\ ChunksOK(v) /\ KeepsActive(w, v) /\ v.current = w.current /\ v.cached = w.cached
             /\ \A d \in Contexts : hasChunk(w, d) /\ hasChunk(v, d) => v.chunk[d] = w.chunk[d]
<1> DEFINE I     == {i \in DOMAIN seeds : ~hasChunk(w, seeds[i])}
           fresh == Picked(seeds, I)
           order == w.order \o fresh
           chunk == [c \in Contexts |-> IF c \in ToSet(fresh) THEN File(c) ELSE w.chunk[c]]
           u     == [w EXCEPT !.order = order, !.chunk = chunk]
           v     == evictChunks(u, Last(fresh))
<1>1. seedChunks(w, seeds) = IF fresh = <<>> THEN w ELSE v
  BY DEF seedChunks
<1>2. w \in Views /\ IsInjective(w.order) /\ w.order \in Seq(Contexts)
  BY FieldTypes DEF ChunksOK, Listed
<1>3. /\ fresh \in Seq(Contexts) /\ IsInjective(fresh)
      /\ ToSet(fresh) = {seeds[i] : i \in I}
  BY PickedElements
<1>4. \A c \in ToSet(fresh) : ~hasChunk(w, c)
  BY <1>3
<1> HIDE DEF fresh, I
<1>5. CASE fresh = <<>>
  BY <1>1, <1>5 DEF KeepsActive
<1>6. CASE fresh # <<>>
  <2>1. Last(fresh) \in ToSet(fresh)
    <3>1. Len(fresh) \in DOMAIN fresh
      BY <1>3, <1>6
    <3> QED BY <3>1 DEF Last, ToSet
  <2>2. /\ order \in Seq(Contexts) /\ IsInjective(order)
        /\ ToSet(order) = ToSet(w.order) \union ToSet(fresh)
    <3>1. ToSet(w.order) \intersect ToSet(fresh) = {}
      BY <1>4 DEF hasChunk
    <3> DEFINE listed == w.order
    <3>2. /\ listed \in Seq(Contexts) /\ IsInjective(listed)
          /\ ToSet(listed) \intersect ToSet(fresh) = {}
      BY <1>2, <3>1
    <3> HIDE DEF listed
    <3>3. /\ listed \o fresh \in Seq(Contexts) /\ IsInjective(listed \o fresh)
          /\ ToSet(listed \o fresh) = ToSet(listed) \union ToSet(fresh)
      BY <1>3, <3>2, AppendedKeys
    <3> QED BY <3>3 DEF listed
  <2>3. chunk \in [Contexts -> Dicts]
    BY <1>2, FieldTypes, MadeForIsDict
  <2> HIDE DEF order
  <2>4. /\ u \in Views /\ u.order = order /\ u.chunk = chunk /\ u.max = w.max
        /\ u.current = w.current /\ u.cached = w.cached
    <3> HIDE DEF chunk
    <3> QED BY <1>2, <2>2, <2>3 DEF Views
  <2> HIDE DEF u
  <2>5. \A c : hasChunk(u, c) <=> hasChunk(w, c) \/ c \in ToSet(fresh)
    BY <2>2, <2>4 DEF hasChunk
  <2>6. \A c \in Contexts : u.chunk[c] # EmptyDict => hasChunk(u, c)
    BY <2>4, <2>5 DEF ChunksOK, Listed
  <2>7. Listed(u) /\ hasChunk(u, Last(fresh))
    BY <2>1, <2>2, <2>4, <2>5, <2>6 DEF Listed
  <2>8. /\ ChunksOK(v) /\ KeepsActive(u, v) /\ v.current = u.current /\ v.cached = u.cached
        /\ \A c \in Contexts : hasChunk(v, c) => v.chunk[c] = u.chunk[c]
    BY <2>7, EvictKeeps
  <2> HIDE DEF v
  <2>9. \A d \in Contexts : hasChunk(w, d) /\ hasChunk(v, d) => v.chunk[d] = w.chunk[d]
    BY <1>4, <2>4, <2>8
  <2>10. KeepsActive(w, v)
    BY <2>4, <2>5, <2>8 DEF KeepsActive
  <2> QED BY <1>1, <1>6, <2>4, <2>8, <2>9, <2>10
<1> QED BY <1>5, <1>6

LEMMA FinishKeeps ==
  ASSUME NEW w, ChunksOK(w)
  PROVE  LET v == finishTransition(w)
         IN  /\ ChunksOK(v) /\ v.order = w.order /\ v.chunk = w.chunk /\ v.max = w.max
             /\ v.cached = w.cached /\ v.current = w.current
<1> DEFINE v == finishTransition(w)
<1>1. /\ v \in Views /\ v.order = w.order /\ v.chunk = w.chunk /\ v.max = w.max
      /\ v.cached = w.cached /\ v.current = w.current
  BY DEF ChunksOK, Listed, Views, finishTransition
<1> HIDE DEF v
<1>2. ChunksOK(v)
  BY <1>1, SameMap
<1> QED BY <1>1, <1>2 DEF v

\* An empty Map.
LEMMA EmptyMapOK ==
  ASSUME NEW v \in Views, v.order = <<>>, v.chunk = [c \in Contexts |-> EmptyDict]
  PROVE  ChunksOK(v)
<1>1. IsInjective(v.order) /\ Len(v.order) = 0
  BY DEF IsInjective
<1>2. v.max \in Nat
  BY FieldTypes
<1> QED BY <1>1, <1>2 DEF ChunksOK, Listed

LEMMA ClearKeeps ==
  ASSUME NEW w, ChunksOK(w)
  PROVE  LET v == clearCache(w)
         IN  ChunksOK(v) /\ v.max = w.max /\ v.current = w.current /\ v.cached = EmptyDict
<1> DEFINE v == clearCache(w)
           chunk == [c \in Contexts |-> EmptyDict]
<1>1. chunk \in [Contexts -> Dicts]
  BY EmptyIsDict
<1> HIDE DEF chunk
<1>2. v = [w EXCEPT !.order = <<>>, !.chunk = chunk, !.cached = EmptyDict, !.outgoing = NoDict]
  BY DEF clearCache, chunk
<1>3. w \in Views
  BY DEF ChunksOK, Listed
<1> HIDE DEF v
<1>4. <<>> \in Seq(Contexts)
  OBVIOUS
<1>5. v \in Views /\ v.order = <<>> /\ v.chunk = chunk /\ v.max = w.max /\ v.current = w.current
      /\ v.cached = EmptyDict
  BY <1>1, <1>2, <1>3, <1>4, EmptyIsDict DEF Views
<1>6. ChunksOK(v)
  BY <1>5, EmptyMapOK DEF chunk
<1> QED BY <1>5, <1>6 DEF v

LEMMA NewViewOK ==
  ASSUME NEW max \in Nat
  PROVE  ChunksOK(NewView(max)) /\ NewView(max).max = max /\ NewView(max).current = NoContext
<1>1. <<>> \in Seq(Contexts) /\ [c \in Contexts |-> EmptyDict] \in [Contexts -> Dicts]
  BY EmptyIsDict
<1>2. NewView(max) \in Views
  BY <1>1, EmptyIsDict DEF NewView, Views
<1> QED BY <1>2, EmptyMapOK DEF NewView

=============================================================================
