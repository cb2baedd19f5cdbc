---------------------------- MODULE CacheControl ----------------------------
(***************************************************************************)
(* packages/utils/src/cache-control.ts: the LRU cache with a sliding       *)
(* time-to-live behind the storage cache of the runtime and behind the     *)
(* server loader.  One action per method, plus the clock.                  *)
(*                                                                         *)
(* `order` is the insertion order of the `cache` Map, so its first element *)
(* is the next victim.  The last four variables are history variables:     *)
(* the code does not have them and no action reads them.                   *)
(***************************************************************************)
EXTENDS InsertionOrder

CONSTANTS
  Keys, Vals,
  None,      \* `undefined`
  Limits,    \* the maxSize values configure() may be given, 0 = unlimited
  Ttls,      \* the ttl values configure() may be given, 0 = never expires
  MaxTime    \* bound on the clock

ASSUME CacheAssumption ==
  /\ None \notin Vals
  /\ Limits \subseteq Nat
  /\ Ttls \subseteq Nat
  /\ MaxTime \in Nat

VARIABLES
  cache,     \* cache[k]: the stored value, None when absent
  order,     \* insertion order of the cache Map
  expiry,    \* expiry[k]: the time k is good until, 0 when there is none
  maxSize, ttl,
  now,       \* Date.now()
  reply,     \* what the last get() or has() returned
  written,   \* history: what was last set() and not deleted
  lastUse,   \* history: the time of the last set() or successful get()
  since,     \* history: since[k] = the keys used after k was last used
  unranked   \* history: the keys whose last use was a read without a limit

config  == <<maxSize, ttl>>
history == <<written, lastUse, since, unranked>>
vars    == <<cache, order, expiry, config, now, reply, history>>

\* What the cache promises its users: the same history, the same answers.
Lossy == INSTANCE LossyMap WITH Keys <- Keys, Vals <- Vals, None <- None,
                               written <- written, reply <- reply

Init ==
  /\ cache = [k \in Keys |-> None]
  /\ order = <<>>
  /\ expiry = [k \in Keys |-> 0]
  /\ maxSize \in Limits /\ ttl \in Ttls
  /\ now = 1
  /\ reply \in {Lossy!Miss(k) : k \in Keys}
  /\ written = [k \in Keys |-> None]
  /\ lastUse = [k \in Keys |-> 0]
  /\ since = [k \in Keys |-> {}]
  /\ unranked = {}

-----------------------------------------------------------------------------
Cached(k)  == cache[k] # None
Expired(k) == ttl > 0 /\ expiry[k] # 0 /\ now > expiry[k]

\* Mutant of Forget: the deadline outlives the entry.
ForgetLeavesDeadline(k) ==
  /\ cache' = [cache EXCEPT ![k] = None]
  /\ order' = Without(order, k)
  /\ UNCHANGED expiry

\* The private effect of this.delete(k).
Forget(k) ==
  /\ cache' = [cache EXCEPT ![k] = None]
  /\ order' = Without(order, k)
  /\ expiry' = [expiry EXCEPT ![k] = 0]

\* The deadline a read or a write gives k under the current ttl.
Lease(e, k) == IF ttl > 0 THEN [e EXCEPT ![k] = now + ttl] ELSE e

\* History: k is used now, after every other key.  `ranked` tells whether the
\* code moves it to the end of the Map.
Used(k, ranked) ==
  /\ since' = [j \in Keys |-> IF j = k THEN {} ELSE since[j] \union {k}]
  /\ unranked' = IF ranked THEN unranked \ {k} ELSE unranked \union {k}

\* Mutant of configure: the two options swapped.
ConfigureSwapped(limit, life) ==
  /\ maxSize' = life /\ ttl' = limit
  /\ expiry' = IF limit = 0 THEN [k \in Keys |-> 0] ELSE expiry
  /\ UNCHANGED <<cache, order, now, reply, history>>

configure(limit, life) ==
  /\ maxSize' = limit /\ ttl' = life
  /\ expiry' = IF life = 0 THEN [k \in Keys |-> 0] ELSE expiry
  /\ UNCHANGED <<cache, order, now, reply, history>>

GetMiss(k) ==
  /\ ~Cached(k)
  /\ reply' = Lossy!Miss(k)
  /\ UNCHANGED <<cache, order, expiry, config, now, history>>

\* get() and has() both drop an entry they find expired.
LookupExpired(k) ==
  /\ Cached(k) /\ Expired(k)
  /\ Forget(k)
  /\ reply' = Lossy!Miss(k)
  /\ UNCHANGED <<config, now, history>>

\* Mutant of GetHit: a read does not move the key to the end of the Map.
GetHitInPlace(k) ==
  /\ Cached(k) /\ ~Expired(k)
  /\ expiry' = Lease(expiry, k)
  /\ reply' = Lossy!Found(k, cache[k])
  /\ lastUse' = [lastUse EXCEPT ![k] = now]
  /\ Used(k, maxSize > 0)
  /\ UNCHANGED <<cache, order, config, now, written>>

\* A hit renews the deadline; it moves the key only under a limit ("Recency
\* only decides who gets evicted", cache-control.ts:49-55).
GetHit(k) ==
  /\ Cached(k) /\ ~Expired(k)
  /\ expiry' = Lease(expiry, k)
  /\ order' = IF maxSize > 0 THEN Renewed(order, k) ELSE order
  /\ reply' = Lossy!Found(k, cache[k])
  /\ lastUse' = [lastUse EXCEPT ![k] = now]
  /\ Used(k, maxSize > 0)
  /\ UNCHANGED <<cache, config, now, written>>

get(k) == GetMiss(k) \/ LookupExpired(k) \/ GetHit(k)

\* Mutant of HasHit: has() prolongs the life of the entry as get() does.
HasHitRenews(k) ==
  /\ Cached(k) /\ ~Expired(k)
  /\ expiry' = Lease(expiry, k)
  /\ reply' = Lossy!Present(k)
  /\ UNCHANGED <<cache, order, config, now, history>>

HasHit(k) ==
  /\ Cached(k) /\ ~Expired(k)
  /\ reply' = Lossy!Present(k)
  /\ UNCHANGED <<cache, order, expiry, config, now, history>>

has(k) == GetMiss(k) \/ LookupExpired(k) \/ HasHit(k)

\* Mutant of Victim: evicts only once the limit is exceeded.
VictimPastLimit(k) ==
  IF ~Cached(k) /\ maxSize > 0 /\ Len(order) > maxSize THEN {Head(order)} ELSE {}

\* A new key at the limit pushes out one entry, the first of the order.
Victim(k) ==
  IF ~Cached(k) /\ maxSize > 0 /\ Len(order) >= maxSize THEN {Head(order)} ELSE {}

set(k, v) ==
  /\ cache' = [j \in Keys |->
       IF j = k THEN v ELSE IF j \in Victim(k) THEN None ELSE cache[j]]
  /\ order' = IF Victim(k) = {} THEN Renewed(order, k) ELSE Append(Tail(order), k)
  /\ expiry' =
       Lease([j \in Keys |-> IF j \in Victim(k) THEN 0 ELSE expiry[j]], k)
  /\ written' = [written EXCEPT ![k] = v]
  /\ lastUse' = [lastUse EXCEPT ![k] = now]
  /\ Used(k, TRUE)
  /\ UNCHANGED <<config, now, reply>>

delete(k) ==
  /\ Forget(k)
  /\ written' = [written EXCEPT ![k] = None]
  /\ UNCHANGED <<config, now, reply, lastUse, since, unranked>>

\* Mutant of clear: the deadlines go and the values stay.
ClearDeadlinesOnly ==
  /\ expiry' = [k \in Keys |-> 0]
  /\ written' = [k \in Keys |-> None]
  /\ UNCHANGED <<cache, order, config, now, reply, lastUse, since, unranked>>

clear ==
  /\ cache' = [k \in Keys |-> None]
  /\ order' = <<>>
  /\ expiry' = [k \in Keys |-> 0]
  /\ written' = [k \in Keys |-> None]
  /\ UNCHANGED <<config, now, reply, lastUse, since, unranked>>

Tick ==
  /\ now < MaxTime
  /\ now' = now + 1
  /\ UNCHANGED <<cache, order, expiry, config, reply, history>>

Next ==
  \/ \E limit \in Limits, life \in Ttls : configure(limit, life)
  \/ \E k \in Keys : get(k) \/ has(k) \/ delete(k)
  \/ \E k \in Keys, v \in Vals : set(k, v)
  \/ clear
  \/ Tick

Spec == Init /\ [][Next]_vars

-----------------------------------------------------------------------------
TypeOK ==
  /\ cache \in [Keys -> Vals \union {None}]
  /\ order \in Seq(Keys)
  /\ expiry \in [Keys -> Nat]
  /\ maxSize \in Limits /\ ttl \in Ttls
  /\ now \in Nat
  /\ reply \in [key : Keys, hit : BOOLEAN, val : Vals \union {None}]
  /\ written \in [Keys -> Vals \union {None}]
  /\ lastUse \in [Keys -> Nat]
  /\ since \in [Keys -> SUBSET Keys]
  /\ unranked \in SUBSET Keys

\* The two Maps never drift apart: the order lists exactly the cached keys,
\* each once, and no deadline outlives its entry (evictions, lazy expiry and
\* configure() all go through here), nor exists while nothing may expire.
IndexesAgree ==
  /\ IsInjective(order)
  /\ ToSet(order) = {k \in Keys : Cached(k)}
  /\ \A k \in Keys : expiry[k] # 0 => Cached(k) /\ ttl > 0

\* A step that evicts keeps only keys that were used after the victim's last
\* use, counting every successful get() and every set() under whatever mixture
\* of limits, expiries and reconfigurations ("LRU (Least Recently Used) based
\* on native Map insertion order").  The one exception is a victim whose last
\* use was a read while there was no limit: the code does not move a key then
\* (cache-control.ts:49-55), so a limit configured later may evict it early.
\* A use under a limit and every write end the exception.
EvictsLeastRecentlyUsed ==
  [][\A n, k \in Keys :
       /\ ~Cached(n) /\ cache'[n] # None
       /\ Cached(k) /\ cache'[k] = None /\ k \notin unranked
       => \A j \in Keys : cache'[j] # None => j \in since'[k]]_vars

\* A lookup finds an entry that has a deadline only while its last write or
\* successful get() is at most one configured ttl old: has() must not prolong
\* a life, and no key may inherit the deadline of an earlier entry.
ServesOnlyLive ==
  [][\A k \in Keys :
       /\ get(k) \/ has(k)
       /\ reply'.hit /\ ttl > 0 /\ expiry[k] # 0
       => \E t \in Ttls : now <= lastUse[k] + t]_vars

\* With a limit in force the cache never grows beyond it.  It may be larger
\* already, after configure() lowered the limit: set() evicts one entry only.
NeverGrowsPastLimit ==
  [][maxSize > 0 /\ Len(order') > Len(order) => Len(order') <= maxSize]_vars

\* The cache keeps the promise its users rely on.
KeepsLossyPromise == Lossy!Spec

-----------------------------------------------------------------------------
(* What makes the above inductive. *)

\* The order of the Map is the order of last use, but for a key that was read
\* without a limit: it may stand before keys used earlier, never after later ones.
OrderIsUseOrder ==
  \A i, j \in DOMAIN order :
    i < j /\ order[i] \notin unranked => order[j] \in since[order[i]]

\* A deadline is a last use plus a ttl.
DeadlineIsLease ==
  \A k \in Keys : expiry[k] # 0 => \E t \in Ttls : expiry[k] = lastUse[k] + t

\* What is cached is what was written last.
CacheHoldsWritten ==
  \A k \in Keys : Cached(k) => cache[k] = written[k]

IInv == /\ TypeOK /\ IndexesAgree
        /\ OrderIsUseOrder /\ DeadlineIsLease /\ CacheHoldsWritten

=============================================================================
