------------------------- MODULE CacheControlProofs -------------------------
(***************************************************************************)
(* CacheControl is correct for every set of keys and values, every set of  *)
(* limits and ttls it may be configured with and every clock.  The proofs  *)
(* go through the inductive invariant IInv of CacheControl: the Map order  *)
(* is the order of last use but for keys read without a limit, a deadline  *)
(* is a last use plus a ttl, and what is cached is what was written last.  *)
(***************************************************************************)
EXTENDS CacheControl, InsertionOrderProofs

LEMMA InitInv == Init => IInv
<1> SUFFICES ASSUME Init PROVE IInv
  OBVIOUS
<1>1. order \in Seq(Keys) /\ ToSet(order) = {} /\ DOMAIN order = {}
  BY DEF Init, ToSet
<1>2. reply \in [key : Keys, hit : BOOLEAN, val : Vals \union {None}]
  <2>1. PICK k \in Keys : reply = Lossy!Miss(k)
    BY DEF Init
  <2>2. QED
    BY <2>1 DEF Lossy!Miss
<1>3. TypeOK
  BY <1>1, <1>2, CacheAssumption DEF Init, TypeOK
<1>4. IndexesAgree
  BY <1>1 DEF Init, IndexesAgree, IsInjective, Cached
<1>5. OrderIsUseOrder /\ DeadlineIsLease /\ CacheHoldsWritten
  BY <1>1 DEF Init, OrderIsUseOrder, DeadlineIsLease, CacheHoldsWritten, Cached
<1>6. QED
  BY <1>3, <1>4, <1>5 DEF IInv

LEMMA ConfigureInv ==
  ASSUME IInv, NEW limit \in Limits, NEW life \in Ttls, configure(limit, life)
  PROVE  IInv'
<1> USE DEF IInv, configure, history
<1>1. TypeOK'
  BY DEF TypeOK
<1>2. IndexesAgree'
  BY CacheAssumption DEF TypeOK, IndexesAgree, Cached
<1>3. OrderIsUseOrder' /\ DeadlineIsLease' /\ CacheHoldsWritten'
  BY DEF TypeOK, OrderIsUseOrder, DeadlineIsLease, CacheHoldsWritten, Cached
<1>4. QED
  BY <1>1, <1>2, <1>3

\* Removing an entry, by delete() or by a lookup that finds it expired.
LEMMA ForgetInv ==
  ASSUME IInv, NEW k \in Keys, Forget(k), UNCHANGED <<config, now, lastUse, since, unranked>>,
         written' \in [Keys -> Vals \union {None}],
         \A j \in Keys : j # k => written'[j] = written[j],
         reply' \in [key : Keys, hit : BOOLEAN, val : Vals \union {None}]
  PROVE  IInv'
<1> USE DEF IInv, Forget, config
<1>1. /\ order' \in Seq(Keys) /\ IsInjective(order')
      /\ ToSet(order') = ToSet(order) \ {k}
      /\ \A i, j \in DOMAIN order' : i < j =>
           \E a, b \in DOMAIN order : a < b /\ order[a] = order'[i] /\ order[b] = order'[j]
  <2>1. order \in Seq(Keys) /\ IsInjective(order)
    BY DEF TypeOK, IndexesAgree
  <2>2. /\ Without(order, k) \in Seq(Keys) /\ IsInjective(Without(order, k))
        /\ ToSet(Without(order, k)) = ToSet(order) \ {k}
        /\ \A i, j \in DOMAIN Without(order, k) : i < j =>
             \E a, b \in DOMAIN order :
               /\ a < b /\ order[a] = Without(order, k)[i]
               /\ order[b] = Without(order, k)[j]
    BY <2>1, WithoutProperties
  <2>3. order' = Without(order, k)
    OBVIOUS
  <2>4. QED
    BY <2>2, <2>3
<1>2. /\ cache' = [cache EXCEPT ![k] = None]
      /\ expiry' = [expiry EXCEPT ![k] = 0]
      /\ cache \in [Keys -> Vals \union {None}] /\ expiry \in [Keys -> Nat]
  BY DEF TypeOK
<1>3. TypeOK'
  BY <1>1, <1>2 DEF TypeOK
<1>4. IndexesAgree'
  BY <1>1, <1>2 DEF IndexesAgree, Cached
<1>5. OrderIsUseOrder'
  BY <1>1 DEF OrderIsUseOrder
<1>6. DeadlineIsLease' /\ CacheHoldsWritten'
  BY <1>2 DEF DeadlineIsLease, CacheHoldsWritten, Cached
<1>7. QED
  BY <1>3, <1>4, <1>5, <1>6

\* A use that puts k last in the Map keeps the Map in the order of last use.
LEMMA UsedLast ==
  ASSUME order \in Seq(Keys), since \in [Keys -> SUBSET Keys], OrderIsUseOrder,
         NEW k \in Keys, LastAfter(order, k, order'), Used(k, TRUE)
  PROVE  OrderIsUseOrder'
<1>1. ASSUME NEW i \in DOMAIN order', NEW j \in DOMAIN order', i < j,
             order'[i] \notin unranked'
      PROVE  order'[j] \in since'[order'[i]]
  <2>1. CASE order'[j] = k /\ order'[i] \in ToSet(order) \ {k}
    <3>1. order'[i] \in Keys
      BY <2>1 DEF ToSet
    <3>2. QED
      BY <2>1, <3>1 DEF Used
  <2>2. CASE \E a, b \in DOMAIN order :
               /\ a < b /\ order[a] = order'[i] /\ order[b] = order'[j]
               /\ order[a] # k /\ order[b] # k
    <3>1. PICK a, b \in DOMAIN order :
            /\ a < b /\ order[a] = order'[i] /\ order[b] = order'[j]
            /\ order[a] # k /\ order[b] # k
      BY <2>2
    <3>2. order[b] \in since[order[a]] /\ order[a] \in Keys
      BY <1>1, <3>1 DEF OrderIsUseOrder, Used
    <3>3. QED
      BY <3>1, <3>2 DEF Used
  <2>3. QED
    BY <1>1, <2>1, <2>2 DEF LastAfter
<1>2. QED
  BY <1>1 DEF OrderIsUseOrder

LEMMA GetHitInv ==
  ASSUME IInv, NEW k \in Keys, GetHit(k)
  PROVE  IInv'
<1> USE DEF IInv
<1>1. /\ cache' = cache /\ written' = written /\ UNCHANGED <<maxSize, ttl, now>>
      /\ lastUse' = [lastUse EXCEPT ![k] = now] /\ cache[k] # None
      /\ reply' = Lossy!Found(k, cache[k])
      /\ expiry' = IF ttl > 0 THEN [expiry EXCEPT ![k] = now + ttl] ELSE expiry
  BY DEF GetHit, Cached, Lease, config
<1>2. /\ cache \in [Keys -> Vals \union {None}] /\ expiry \in [Keys -> Nat]
      /\ lastUse \in [Keys -> Nat] /\ now \in Nat /\ ttl \in Nat /\ ttl \in Ttls
      /\ order \in Seq(Keys) /\ IsInjective(order) /\ maxSize \in Nat
      /\ since \in [Keys -> SUBSET Keys] /\ k \in ToSet(order)
  BY <1>1, CacheAssumption DEF TypeOK, IndexesAgree, Cached
<1>3. /\ order' \in Seq(Keys) /\ IsInjective(order') /\ ToSet(order') = ToSet(order)
  <2>1. /\ Renewed(order, k) \in Seq(Keys) /\ IsInjective(Renewed(order, k))
        /\ ToSet(Renewed(order, k)) = ToSet(order) \union {k}
    BY <1>2, RenewedProperties
  <2>2. order' = Renewed(order, k) \/ order' = order
    BY DEF GetHit
  <2>3. QED
    BY <1>2, <2>1, <2>2
<1>4. since' \in [Keys -> SUBSET Keys] /\ unranked' \in SUBSET Keys
  <2>1. unranked \in SUBSET Keys
    BY DEF TypeOK
  <2>2. QED
    BY <1>2, <2>1 DEF GetHit, Used
<1>5. TypeOK'
  BY <1>1, <1>2, <1>3, <1>4 DEF TypeOK, Lossy!Found
<1>6. IndexesAgree'
  BY <1>1, <1>2, <1>3 DEF IndexesAgree, Cached
<1>7. OrderIsUseOrder'
  <2>1. CASE maxSize > 0
    <3>1. /\ LastAfter(order, k, Renewed(order, k))
          /\ order' = Renewed(order, k) /\ Used(k, TRUE)
      BY <1>2, <2>1, RenewedProperties DEF GetHit
    <3>2. QED
      BY <1>2, <3>1, UsedLast
  <2>2. CASE ~(maxSize > 0)
    <3>1. order' = order /\ Used(k, FALSE)
      BY <2>2 DEF GetHit, Used
    <3>2. ASSUME NEW i \in DOMAIN order, NEW j \in DOMAIN order, i < j,
                 order[i] \notin unranked'
          PROVE  order[j] \in since'[order[i]]
      <4>1. order[i] \in Keys /\ order[i] # k /\ order[i] \notin unranked
        BY <1>2, <3>1, <3>2 DEF Used
      <4>2. order[j] \in since[order[i]]
        BY <3>2, <4>1 DEF OrderIsUseOrder
      <4>3. QED
        BY <3>1, <4>1, <4>2 DEF Used
    <3>3. QED
      BY <3>1, <3>2 DEF OrderIsUseOrder
  <2>3. QED
    BY <2>1, <2>2
<1>8. DeadlineIsLease'
  BY <1>1, <1>2 DEF DeadlineIsLease, IndexesAgree
<1>9. CacheHoldsWritten'
  BY <1>1 DEF CacheHoldsWritten, Cached
<1>10. QED
  BY <1>5, <1>6, <1>7, <1>8, <1>9

\* A write, with or without an eviction.
LEMMA SetInv ==
  ASSUME IInv, NEW k \in Keys, NEW v \in Vals, set(k, v)
  PROVE  IInv'
<1> USE DEF IInv
<1> DEFINE gone == Victim(k)
<1>1. /\ cache' = [j \in Keys |->
            IF j = k THEN v ELSE IF j \in gone THEN None ELSE cache[j]]
      /\ expiry' =
           Lease([j \in Keys |-> IF j \in gone THEN 0 ELSE expiry[j]], k)
      /\ written' = [written EXCEPT ![k] = v]
      /\ lastUse' = [lastUse EXCEPT ![k] = now]
      /\ Used(k, TRUE)
      /\ UNCHANGED <<maxSize, ttl, now, reply>>
      /\ order' = IF gone = {} THEN Renewed(order, k) ELSE Append(Tail(order), k)
  BY DEF set, config
<1>2. /\ order \in Seq(Keys) /\ IsInjective(order) /\ maxSize \in Nat
      /\ ToSet(order) = {j \in Keys : Cached(j)} /\ Len(order) \in Nat
      /\ cache \in [Keys -> Vals \union {None}] /\ expiry \in [Keys -> Nat]
      /\ written \in [Keys -> Vals \union {None}] /\ lastUse \in [Keys -> Nat]
      /\ since \in [Keys -> SUBSET Keys] /\ now \in Nat
      /\ ttl \in Nat /\ ttl \in Ttls /\ v # None
  BY CacheAssumption DEF TypeOK, IndexesAgree
<1>3. /\ order' \in Seq(Keys) /\ IsInjective(order')
      /\ ToSet(order') = (ToSet(order) \ gone) \union {k}
      /\ LastAfter(order, k, order')
      /\ k \notin gone
  <2>1. CASE gone = {}
    BY <1>1, <1>2, <2>1, RenewedProperties
  <2>2. CASE gone # {}
    <3>1. /\ gone = {Head(order)} /\ k \notin ToSet(order) /\ Len(order) > 0
      BY <1>2, <2>2 DEF Victim
    <3>2. order # <<>>
      BY <3>1
    <3>3. order' = Append(Tail(order), k)
      BY <1>1, <2>2
    <3>4. QED
      BY <1>2, <3>1, <3>2, <3>3, ReplaceFirst
  <2>3. QED
    BY <2>1, <2>2
<1> HIDE DEF gone
<1>4. expiry' = [j \in Keys |->
        IF j = k /\ ttl > 0 THEN now + ttl ELSE IF j \in gone THEN 0 ELSE expiry[j]]
  BY <1>1 DEF Lease
<1>5. TypeOK'
  <2>1. cache' \in [Keys -> Vals \union {None}]
    BY <1>1, <1>2
  <2>2. expiry' \in [Keys -> Nat]
    <3>1. now + ttl \in Nat /\ 0 \in Nat
      BY <1>2
    <3>2. \A j \in Keys : expiry[j] \in Nat
      BY <1>2
    <3>3. QED
      BY <1>4, <3>1, <3>2
  <2>3. since' \in [Keys -> SUBSET Keys] /\ unranked' \in SUBSET Keys
    <3>1. unranked \in SUBSET Keys
      BY DEF TypeOK
    <3>2. QED
      BY <1>1, <1>2, <3>1 DEF Used
  <2>4. QED
    BY <1>1, <1>2, <1>3, <2>1, <2>2, <2>3 DEF TypeOK
<1>6. IndexesAgree'
  <2>1. {j \in Keys : Cached(j)}' = ({j \in Keys : Cached(j)} \ gone) \union {k}
    BY <1>1, <1>2, <1>3 DEF Cached
  <2>2. \A j \in Keys : expiry'[j] # 0 => Cached(j)' /\ ttl' > 0
    BY <1>1, <1>2, <1>4 DEF IndexesAgree, Cached
  <2>3. QED
    BY <1>2, <1>3, <2>1, <2>2 DEF IndexesAgree
<1>7. OrderIsUseOrder'
  BY <1>1, <1>2, <1>3, UsedLast
<1>8. DeadlineIsLease'
  BY <1>1, <1>2, <1>4 DEF DeadlineIsLease, IndexesAgree
<1>9. CacheHoldsWritten'
  BY <1>1, <1>2 DEF CacheHoldsWritten, Cached
<1>10. QED
  BY <1>5, <1>6, <1>7, <1>8, <1>9

LEMMA ClearInv ==
  ASSUME IInv, clear
  PROVE  IInv'
<1>1. order' \in Seq(Keys) /\ ToSet(order') = {} /\ DOMAIN order' = {}
  BY DEF clear, ToSet
<1>2. TypeOK'
  BY <1>1 DEF IInv, TypeOK, clear, config
<1>3. IndexesAgree'
  BY <1>1 DEF clear, IndexesAgree, IsInjective, Cached
<1>4. OrderIsUseOrder' /\ DeadlineIsLease' /\ CacheHoldsWritten'
  BY <1>1 DEF clear, OrderIsUseOrder, DeadlineIsLease, CacheHoldsWritten, Cached
<1>5. QED
  BY <1>2, <1>3, <1>4 DEF IInv

\* Steps that change neither the entries nor their history.
LEMMA QuietInv ==
  ASSUME IInv, UNCHANGED <<cache, order, expiry, config, history>>,
         now' \in Nat,
         reply' \in [key : Keys, hit : BOOLEAN, val : Vals \union {None}]
  PROVE  IInv'
<1> USE DEF config, history
<1>1. TypeOK' /\ IndexesAgree'
  BY DEF IInv, TypeOK, IndexesAgree, Cached
<1>2. OrderIsUseOrder' /\ DeadlineIsLease' /\ CacheHoldsWritten'
  BY DEF IInv, OrderIsUseOrder, DeadlineIsLease, CacheHoldsWritten, Cached
<1>3. QED
  BY <1>1, <1>2 DEF IInv

LEMMA NextInv == IInv /\ [Next]_vars => IInv'
<1> SUFFICES ASSUME IInv, [Next]_vars PROVE IInv'
  OBVIOUS
<1>1. now \in Nat /\ reply \in [key : Keys, hit : BOOLEAN, val : Vals \union {None}]
      /\ written \in [Keys -> Vals \union {None}]
  BY DEF IInv, TypeOK
<1>2. ASSUME NEW k \in Keys, GetMiss(k) \/ HasHit(k) PROVE IInv'
  <2>1. reply' \in [key : Keys, hit : BOOLEAN, val : Vals \union {None}]
    <3>1. reply' = Lossy!Miss(k) \/ reply' = Lossy!Present(k)
      BY <1>2 DEF GetMiss, HasHit
    <3>2. CASE reply' = Lossy!Miss(k)
      BY <3>2 DEF Lossy!Miss
    <3>3. CASE reply' = Lossy!Present(k)
      BY <3>3 DEF Lossy!Present
    <3>4. QED
      BY <3>1, <3>2, <3>3
  <2>2. UNCHANGED <<cache, order, expiry, config, now, history>>
    BY <1>2 DEF GetMiss, HasHit
  <2>3. QED
    BY <1>1, <2>1, <2>2, QuietInv
<1>3. ASSUME NEW k \in Keys, LookupExpired(k) PROVE IInv'
  BY <1>1, <1>3, ForgetInv DEF LookupExpired, history, Lossy!Miss
<1>4. ASSUME NEW k \in Keys, delete(k) PROVE IInv'
  BY <1>1, <1>4, ForgetInv DEF delete
<1>5. CASE \E limit \in Limits, life \in Ttls : configure(limit, life)
  BY <1>5, ConfigureInv
<1>6. ASSUME NEW k \in Keys, get(k) PROVE IInv'
  BY <1>2, <1>3, <1>6, GetHitInv DEF get
<1>7. ASSUME NEW k \in Keys, has(k) PROVE IInv'
  BY <1>2, <1>3, <1>7 DEF has
<1>8. ASSUME NEW k \in Keys, NEW v \in Vals, set(k, v) PROVE IInv'
  BY <1>8, SetInv
<1>9. CASE Tick
  BY <1>1, <1>9, QuietInv DEF Tick
<1>10. CASE UNCHANGED vars
  BY <1>1, <1>10, QuietInv DEF vars
<1>11. QED
  BY <1>4, <1>5, <1>6, <1>7, <1>8, <1>9, <1>10, ClearInv DEF Next

\* The strengthening of every invariant of CacheControl holds in every
\* reachable state, for all constants that satisfy CacheAssumption.
THEOREM CacheInvariant == Spec => []IInv
  BY InitInv, NextInv, PTL DEF Spec

-----------------------------------------------------------------------------
\* The variables of cache-control.ts keep their types.
THEOREM CacheTypes == Spec => []TypeOK
<1>1. IInv => TypeOK
  BY DEF IInv
<1>2. QED
  BY <1>1, CacheInvariant, PTL

\* The value Map and the deadline Map never drift apart.
THEOREM CacheIndexesAgree == Spec => []IndexesAgree
<1>1. IInv => IndexesAgree
  BY DEF IInv
<1>2. QED
  BY <1>1, CacheInvariant, PTL

\* Only set() brings a key into the cache.
LEMMA OnlySetAdds ==
  ASSUME IInv, Next, NEW n \in Keys, ~Cached(n), cache'[n] # None
  PROVE  \E v \in Vals : set(n, v)
<1>1. cache \in [Keys -> Vals \union {None}]
  BY DEF IInv, TypeOK
<1>2. ASSUME NEW k \in Keys, get(k) \/ has(k) \/ delete(k) PROVE FALSE
  BY <1>1, <1>2 DEF get, has, delete, GetMiss, LookupExpired, GetHit, HasHit,
                    Forget, Cached
<1>3. ASSUME NEW k \in Keys, NEW v \in Vals, set(k, v), k # n PROVE FALSE
  BY <1>1, <1>3 DEF set, Cached
<1>4. ~clear /\ ~Tick
  BY DEF clear, Tick, Cached
<1>5. ~(\E limit \in Limits, life \in Ttls : configure(limit, life))
  BY DEF configure, Cached
<1>6. QED
  BY <1>2, <1>3, <1>4, <1>5 DEF Next

\* A write that pushes an entry out keeps only entries used after it, if the
\* code ranked its last use.
LEMMA EvictionStep ==
  ASSUME IInv, NEW n \in Keys, NEW v \in Vals, set(n, v),
         NEW k \in Keys, Cached(k), cache'[k] = None, k \notin unranked,
         NEW j \in Keys, cache'[j] # None
  PROVE  j \in since'[k]
<1>1. /\ order \in Seq(Keys) /\ IsInjective(order)
      /\ ToSet(order) = {i \in Keys : Cached(i)}
      /\ cache \in [Keys -> Vals \union {None}]
      /\ since \in [Keys -> SUBSET Keys] /\ v # None
  BY CacheAssumption DEF IInv, TypeOK, IndexesAgree
<1>2. k # n /\ k \in Victim(n)
  BY <1>1 DEF set, Cached
<1>3. Len(order) > 0 /\ k = Head(order)
  BY <1>1, <1>2 DEF Victim, ToSet
<1>4. since'[k] = since[k] \union {n}
  BY <1>2 DEF set, Used
<1>5. CASE j # n
  <2>1. j \in ToSet(order)
    BY <1>1, <1>5 DEF set, Cached
  <2>2. PICK b \in DOMAIN order : order[b] = j
    BY <2>1 DEF ToSet
  <2>3. j # k
    OBVIOUS
  <2>4. 1 \in DOMAIN order /\ order[1] = k /\ 1 < b
    BY <1>1, <1>3, <2>2, <2>3
  <2>5. j \in since[k]
    BY <2>2, <2>4 DEF IInv, OrderIsUseOrder
  <2>6. QED
    BY <1>4, <2>5
<1>6. QED
  BY <1>4, <1>5

\* Eviction is least-recently-used over every read and write, whatever limits
\* were in force: "LRU (Least Recently Used) based on native Map insertion
\* order".  Only a victim last read without a limit may go before its turn.
THEOREM CacheEvictsLRU == Spec => EvictsLeastRecentlyUsed
<1>1. ASSUME IInv, [Next]_vars, NEW n \in Keys, NEW k \in Keys,
             ~Cached(n), cache'[n] # None, Cached(k), cache'[k] = None,
             k \notin unranked,
             NEW j \in Keys, cache'[j] # None
      PROVE  j \in since'[k]
  <2>1. Next
    BY <1>1 DEF vars, Cached
  <2>2. PICK v \in Vals : set(n, v)
    BY <1>1, <2>1, OnlySetAdds
  <2>3. QED
    BY <1>1, <2>2, EvictionStep
<1>2. IInv /\ [Next]_vars =>
        [\A n, k \in Keys :
           /\ ~Cached(n) /\ cache'[n] # None
           /\ Cached(k) /\ cache'[k] = None /\ k \notin unranked
           => \A j \in Keys : cache'[j] # None => j \in since'[k]]_vars
  BY <1>1
<1>3. QED
  BY <1>2, CacheInvariant, PTL DEF Spec, EvictsLeastRecentlyUsed

\* No lookup finds an entry past the lease of its last use.
THEOREM CacheServesOnlyLive == Spec => ServesOnlyLive
<1>1. ASSUME IInv, NEW k \in Keys, get(k) \/ has(k),
             reply'.hit, ttl > 0, expiry[k] # 0
      PROVE  \E t \in Ttls : now <= lastUse[k] + t
  <2>1. ~Expired(k)
    <3>1. CASE GetMiss(k) \/ LookupExpired(k)
      <4>1. reply' = Lossy!Miss(k)
        BY <3>1 DEF GetMiss, LookupExpired
      <4>2. QED
        BY <1>1, <4>1 DEF Lossy!Miss
    <3>2. CASE GetHit(k) \/ HasHit(k)
      BY <3>2 DEF GetHit, HasHit
    <3>3. QED
      BY <1>1, <3>1, <3>2 DEF get, has
  <2>2. PICK t \in Ttls : expiry[k] = lastUse[k] + t
    BY <1>1 DEF IInv, DeadlineIsLease
  <2>3. now \in Nat /\ expiry[k] \in Nat
    <3>1. now \in Nat /\ expiry \in [Keys -> Nat]
      BY <1>1 DEF IInv, TypeOK
    <3>2. QED
      BY <3>1
  <2>4. now <= expiry[k]
    BY <1>1, <2>1, <2>3 DEF Expired
  <2>5. QED
    BY <2>2, <2>4
<1>2. IInv /\ [Next]_vars =>
        [\A k \in Keys :
           /\ get(k) \/ has(k)
           /\ reply'.hit /\ ttl > 0 /\ expiry[k] # 0
           => \E t \in Ttls : now <= lastUse[k] + t]_vars
  BY <1>1
<1>3. QED
  BY <1>2, CacheInvariant, PTL DEF Spec, ServesOnlyLive

\* Under a limit the cache never grows past it.
THEOREM CacheNeverGrowsPastLimit == Spec => NeverGrowsPastLimit
<1>1. ASSUME IInv, [Next]_vars, maxSize > 0, Len(order') > Len(order)
      PROVE  Len(order') <= maxSize
  <2>1. /\ order \in Seq(Keys) /\ IsInjective(order) /\ Len(order) \in Nat
        /\ ToSet(order) = {k \in Keys : Cached(k)} /\ maxSize \in Nat
    <3>1. order \in Seq(Keys) /\ maxSize \in Nat
      BY <1>1, CacheAssumption DEF IInv, TypeOK
    <3>2. IsInjective(order) /\ ToSet(order) = {k \in Keys : Cached(k)}
      BY <1>1 DEF IInv, IndexesAgree
    <3>3. QED
      BY <3>1, <3>2
  <2>2. ASSUME NEW k \in Keys, Forget(k) PROVE FALSE
    <3>1. Len(Without(order, k)) <= Len(order) /\ Len(Without(order, k)) \in Nat
      BY <2>1, WithoutProperties
    <3>2. QED
      BY <1>1, <2>1, <2>2, <3>1 DEF Forget
  <2>3. ASSUME NEW k \in Keys, GetHit(k) PROVE FALSE
    <3>1. k \in ToSet(order) /\ order' = Renewed(order, k)
      BY <1>1, <2>1, <2>3 DEF GetHit
    <3>2. Len(order') = Len(order)
      BY <2>1, <3>1, RenewedProperties
    <3>3. QED
      BY <1>1, <2>1, <3>2
  <2>4. ASSUME NEW k \in Keys, NEW v \in Vals, set(k, v)
        PROVE  Len(order') <= maxSize
    <3>1. CASE Victim(k) = {}
      <4>1. order' = Renewed(order, k)
        BY <2>4, <3>1 DEF set
      <4>2. k \notin ToSet(order)
        <5>1. k \in ToSet(order) => Len(order') = Len(order)
          BY <2>1, <4>1, RenewedProperties
        <5>2. QED
          BY <1>1, <2>1, <5>1
      <4>3. Len(order') = Len(order) + 1
        BY <2>1, <4>1, <4>2, RenewedProperties
      <4>4. Len(order) < maxSize
        BY <1>1, <2>1, <3>1, <4>2 DEF Victim
      <4>5. QED
        BY <2>1, <4>3, <4>4
    <3>2. CASE Victim(k) # {}
      <4>1. /\ order' = Append(Tail(order), k) /\ k \notin ToSet(order)
            /\ Len(order) > 0
        BY <1>1, <2>1, <2>4, <3>2 DEF set, Victim
      <4>2. Len(order') = Len(order)
        BY <2>1, <4>1, ReplaceFirst
      <4>3. QED
        BY <1>1, <2>1, <4>2
    <3>3. QED
      BY <3>1, <3>2
  <2>5. ~clear
    BY <1>1, <2>1 DEF clear
  <2>6. order' # order
    BY <1>1, <2>1
  <2>7. ASSUME NEW k \in Keys, get(k) \/ has(k) \/ delete(k) PROVE FALSE
    BY <2>2, <2>3, <2>6, <2>7 DEF get, has, delete, GetMiss, LookupExpired, HasHit
  <2>8. ~Tick /\ ~(\E limit \in Limits, life \in Ttls : configure(limit, life))
    BY <2>6 DEF Tick, configure
  <2>9. QED
    BY <1>1, <2>4, <2>5, <2>6, <2>7, <2>8 DEF Next, vars
<1>2. IInv /\ [Next]_vars =>
        [maxSize > 0 /\ Len(order') > Len(order) => Len(order') <= maxSize]_vars
  BY <1>1
<1>3. QED
  BY <1>2, CacheInvariant, PTL DEF Spec, NeverGrowsPastLimit

\* CacheControl implements LossyMap: whatever mixture of ttls, limits, lazy
\* expiries and evictions happens, a reader gets a miss or the last write.
LEMMA LossyStep ==
  ASSUME IInv, [Next]_vars
  PROVE  [Lossy!Next]_(Lossy!vars)
<1> USE DEF Lossy!vars
<1>1. written \in [Keys -> Vals \union {None}]
  BY DEF IInv, TypeOK
<1>2. ASSUME NEW k \in Keys, get(k) \/ has(k) PROVE Lossy!Read(k)
  <2>1. CASE GetMiss(k) \/ LookupExpired(k)
    BY <2>1 DEF GetMiss, LookupExpired, history, Lossy!Read
  <2>2. CASE GetHit(k) \/ HasHit(k)
    <3>1. cache[k] = written[k] /\ written[k] # None /\ UNCHANGED written
      BY <2>2 DEF GetHit, HasHit, history, IInv, CacheHoldsWritten, Cached
    <3>2. reply' \in {Lossy!Present(k), Lossy!Found(k, written[k])}
      BY <2>2, <3>1 DEF GetHit, HasHit
    <3>3. QED
      BY <3>1, <3>2 DEF Lossy!Read
  <2>3. QED
    BY <1>2, <2>1, <2>2 DEF get, has
<1>3. ASSUME NEW k \in Keys, NEW v \in Vals, set(k, v) PROVE Lossy!Write(k, v)
  BY <1>3 DEF set, Lossy!Write
<1>4. ASSUME NEW k \in Keys, delete(k) PROVE Lossy!Erase({k})
  BY <1>1, <1>4 DEF delete, Lossy!Erase
<1>5. CASE clear
  <2>1. Lossy!Erase(Keys)
    BY <1>5 DEF clear, Lossy!Erase
  <2>2. QED
    BY <2>1 DEF Lossy!Next
<1>6. CASE Tick \/ \E limit \in Limits, life \in Ttls : configure(limit, life)
  BY <1>6 DEF Tick, configure, history
<1>7. CASE UNCHANGED vars
  BY <1>7 DEF vars, history
<1>8. ASSUME NEW k \in Keys, get(k) \/ has(k) \/ delete(k)
      PROVE  Lossy!Next
  BY <1>2, <1>4, <1>8 DEF Lossy!Next
<1>9. QED
  BY <1>3, <1>5, <1>6, <1>7, <1>8 DEF Next, Lossy!Next

THEOREM CacheKeepsLossyPromise == Spec => KeepsLossyPromise
<1>1. Init => Lossy!Init
  BY DEF Init, Lossy!Init
<1>2. IInv /\ [Next]_vars => [Lossy!Next]_(Lossy!vars)
  BY LossyStep
<1>3. QED
  BY <1>1, <1>2, CacheInvariant, PTL DEF Spec, KeepsLossyPromise, Lossy!Spec

=============================================================================
