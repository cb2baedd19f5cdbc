-------------------------- MODULE NavigationProofs --------------------------
(***************************************************************************)
(* That a navigation passes its guard, and that one which nothing disturbs *)
(* leaves the dictionary, the locale state and the route in agreement, for *)
(* every set of locales and pages and every bound.                         *)
(*                                                                         *)
(* What the module checks of the calls on their way is a count of two sets *)
(* of positions.  The inductive form names the one call instead: while a   *)
(* navigation is in its guard, exactly one live call waits or is due, and  *)
(* its context is the one the navigation asks for (GuardCalls).            *)
(***************************************************************************)
EXTENDS Navigation, NuxtI18nProofs, TLAPS

Navigations   == [to : Locations, stage : {"guard", "resolving"}]
Continuations == [call : Calls, data : Dicts]

LiveGuard(call)   == call.by = "guard" /\ call.live
NoLive(calls)     == \A i \in DOMAIN calls : ~LiveGuard(calls[i])
OnlyLive(calls, i) ==
  /\ i \in DOMAIN calls /\ LiveGuard(calls[i])
  /\ \A j \in DOMAIN calls : LiveGuard(calls[j]) => j = i

CallsOf(due) == [i \in DOMAIN due |-> due[i].call]

\* The call asks for the context of the location `to`.
AsksFor(call, to) ==
  call.ctx[2] = to[2] /\ (strategy = "prefix" => call.ctx[1] = to[1])

AtGuard == pending # NoNavigation /\ pending.stage = "guard"

GuardCalls ==
  IF AtGuard
  THEN \/ /\ NoLive(CallsOf(ready))
          /\ \E i \in DOMAIN waiting : OnlyLive(waiting, i) /\ AsksFor(waiting[i], pending.to)
       \/ /\ NoLive(waiting)
          /\ \E i \in DOMAIN ready :
               OnlyLive(CallsOf(ready), i) /\ AsksFor(ready[i].call, pending.to)
  ELSE NoLive(waiting) /\ NoLive(CallsOf(ready))

Types ==
  /\ strategy \in Strategies /\ animated \in BOOLEAN
  /\ ChunksOK(view) /\ view.current \in Contexts
  /\ localeState \in Locales
  /\ route \in Locations
  /\ pending \in Navigations \union {NoNavigation}
  /\ waiting \in Seq(Calls)
  /\ ready \in Seq(Continuations)
  /\ leaving \in Seq(Pages)
  /\ disturbed \in BOOLEAN
  /\ hops \in 0..2

ContextsOf(calls) == {calls[i].ctx : i \in DOMAIN calls}

\* The inductive invariant.
NavInv ==
  /\ Types
  /\ fetching = ContextsOf(waiting)
  /\ GuardCalls
  /\ UndisturbedAgrees
  /\ StateMatchesDictionary

-----------------------------------------------------------------------------
(* Locations, calls and the count of switches. *)

LEMMA LocationContexts ==
  ASSUME NEW to \in Locations, NEW locale \in Locales
  PROVE  LET c == contextOf(to, locale)
         IN  /\ to \in Contexts /\ c \in Contexts /\ c[1] \in Locales /\ c[2] = to[2]
             /\ strategy = "prefix" => c[1] = to[1]
             /\ strategy # "prefix" => c[1] = locale
             /\ contextOf(to, c[1]) = c
<1>1. to \in Locales \X Pages
  BY NavigationAssumption DEF Locations
<1> QED BY <1>1, NavigationAssumption DEF contextOf

LEMMA ContextParts ==
  ASSUME NEW c \in Contexts
  PROVE  c[1] \in Locales /\ c[2] \in Pages /\ c = <<c[1], c[2]>>
  BY NavigationAssumption

LEMMA SupersededCalls ==
  ASSUME NEW calls \in Seq(Calls)
  PROVE  /\ Superseded(calls) \in Seq(Calls) /\ NoLive(Superseded(calls))
         /\ ContextsOf(Superseded(calls)) = ContextsOf(calls)
         /\ Superseded(calls) = <<>> => calls = <<>>
<1> DEFINE s == Superseded(calls)
           dead(x) == IF x.by = "guard" THEN [x EXCEPT !.live = FALSE] ELSE x
<1>1. \A x \in Calls : dead(x) \in Calls /\ dead(x).ctx = x.ctx /\ ~LiveGuard(dead(x))
  BY DEF Calls, LiveGuard
<1>2. s = [i \in DOMAIN calls |-> dead(calls[i])]
  BY DEF Superseded
<1> HIDE DEF dead, s
<1>3. DOMAIN calls = 1..Len(calls) /\ Len(calls) \in Nat /\ \A i \in DOMAIN calls : calls[i] \in Calls
  OBVIOUS
<1>4. s \in [1..Len(calls) -> Calls]
  BY <1>1, <1>2, <1>3
<1>5. s \in Seq(Calls) /\ DOMAIN s = DOMAIN calls
  BY <1>3, <1>4
<1>6. \A i \in DOMAIN s : s[i].ctx = calls[i].ctx /\ ~LiveGuard(s[i])
  BY <1>1, <1>2, <1>3, <1>5
<1>7. ContextsOf(s) = ContextsOf(calls) /\ NoLive(s)
  BY <1>5, <1>6 DEF ContextsOf, NoLive
<1>8. s = <<>> => calls = <<>>
  BY <1>5
<1> QED BY <1>5, <1>7, <1>8 DEF s

LEMMA HopsTyped ==
  ASSUME hops \in 0..2, NEW n \in 0..2, Hops(n)
  PROVE  hops' \in 0..2
<1> DEFINE more == IF n > 0 /\ leaving # <<>> THEN 2 ELSE n
<1>1. more \in 0..2
  OBVIOUS
<1>2. hops' = IF AtRest' /\ view'.current[2] = route'[2] THEN 0
              ELSE IF hops + more > 2 THEN 2 ELSE hops + more
  BY DEF Hops
<1> HIDE DEF more
<1> QED BY <1>1, <1>2

LEMMA AppendedCall ==
  ASSUME NEW calls \in Seq(Calls), NEW call \in Calls
  PROVE  LET s == Append(calls, call)
         IN  /\ s \in Seq(Calls) /\ s # <<>>
             /\ ContextsOf(s) = ContextsOf(calls) \union {call.ctx}
             /\ Len(s) \in DOMAIN s /\ s[Len(s)] = call
             /\ NoLive(calls) /\ LiveGuard(call) => OnlyLive(s, Len(s))
             /\ NoLive(calls) /\ ~LiveGuard(call) => NoLive(s)
             /\ \A i \in DOMAIN calls : i \in DOMAIN s /\ s[i] = calls[i]
             /\ \A i \in DOMAIN calls : OnlyLive(calls, i) /\ ~LiveGuard(call) => OnlyLive(s, i)
<1> DEFINE s == Append(calls, call)
           n == Len(calls)
<1>1. /\ n \in Nat /\ DOMAIN calls = 1..n /\ s \in Seq(Calls) /\ DOMAIN s = 1..(n + 1)
      /\ Len(s) = n + 1 /\ s[n + 1] = call /\ \A i \in 1..n : s[i] = calls[i]
  OBVIOUS
<1> HIDE DEF s, n
<1>2. s # <<>>
  BY <1>1
<1>3. ContextsOf(s) = ContextsOf(calls) \union {call.ctx}
  <2>1. \A x : x \in ContextsOf(s) <=> \E i \in 1..(n + 1) : x = s[i].ctx
    BY <1>1 DEF ContextsOf
  <2>2. \A x : x \in ContextsOf(calls) <=> \E i \in 1..n : x = calls[i].ctx
    BY <1>1 DEF ContextsOf
  <2>3. \A i : i \in 1..(n + 1) <=> i \in 1..n \/ i = n + 1
    BY <1>1
  <2>4. \A x : x \in ContextsOf(s) <=> x \in ContextsOf(calls) \/ x = call.ctx
    BY <1>1, <2>1, <2>2, <2>3
  <2> QED BY <2>4
<1>4. NoLive(calls) /\ LiveGuard(call) => OnlyLive(s, n + 1)
  BY <1>1 DEF NoLive, OnlyLive
<1>5. NoLive(calls) /\ ~LiveGuard(call) => NoLive(s)
  BY <1>1 DEF NoLive
<1>6. ASSUME NEW i \in DOMAIN calls, OnlyLive(calls, i), ~LiveGuard(call)
      PROVE  OnlyLive(s, i)
  BY <1>1, <1>6 DEF OnlyLive
<1> QED BY <1>1, <1>2, <1>3, <1>4, <1>5, <1>6 DEF s

-----------------------------------------------------------------------------
(* A navigation begins. *)

\* What a caller of push or replace leaves as it was, and what it passes on.
Passes(v, locale, calls, n) ==
  /\ Types
  /\ UNCHANGED <<strategy, animated, route, leaving>>
  /\ ready' \in Seq(Continuations) /\ NoLive(CallsOf(ready'))
  /\ ChunksOK(v) /\ v.current \in Contexts
  /\ locale \in Locales
  /\ calls \in Seq(Calls) /\ NoLive(calls) /\ ContextsOf(calls) = fetching
  /\ n \in 0..1

LEMMA NavigationRecord ==
  ASSUME NEW to \in Locations, NEW stage \in {"guard", "resolving"}
  PROVE  [to |-> to, stage |-> stage] \in Navigations \ {NoNavigation}
<1>1. Locations \subseteq Contexts
  BY NavigationAssumption DEF Locations
<1> QED BY <1>1, NavigationAssumption DEF Navigations

LEMMA GuardPasses ==
  ASSUME NEW to \in Locations, NEW v, NEW locale, NEW calls, NEW n,
         Passes(v, locale, calls, n), beforeEach(to, v, locale, calls, n),
         LET target == contextOf(to, locale)
         IN  v.current = target \/ hasChunk(v, target)
  PROVE  NavInv'
<1> DEFINE target == contextOf(to, locale)
           here   == v.current = target
<1>1. /\ target \in Contexts /\ target[1] \in Locales /\ contextOf(to, target[1]) = target
  BY LocationContexts DEF Passes
<1>2. /\ view' = IF here THEN v ELSE applySwitchContext(v, target, getChunk(v, target))
      /\ localeState' = target[1]
      /\ pending' = [to |-> to, stage |-> "resolving"]
      /\ waiting' = calls /\ fetching' = fetching
      /\ disturbed' = FALSE
      /\ Hops(IF here THEN n ELSE n + 1)
  BY DEF beforeEach
<1> HIDE DEF target, here
<1>3. ChunksOK(view') /\ view'.current = target
  <2>1. CASE here
    BY <1>2, <2>1 DEF here, Passes
  <2>2. CASE ~here
    <3>1. ChunksOK(v) /\ getChunk(v, target) \in Dicts
      BY <1>1, FieldTypes DEF Passes, ChunksOK, Listed, getChunk
    <3> QED BY <1>1, <1>2, <2>2, <3>1, SwitchKeeps
  <2> QED BY <2>1, <2>2
<1>4. hops' \in 0..2
  <2> DEFINE m == IF here THEN n ELSE n + 1
  <2>1. m \in 0..2 /\ hops \in 0..2
    BY DEF Passes, Types
  <2>2. Hops(m)
    BY <1>2
  <2> HIDE DEF m
  <2> QED BY <2>1, <2>2, HopsTyped
<1>5. pending' \in Navigations' \ {NoNavigation} /\ pending'.stage = "resolving" /\ pending'.to = to
  BY <1>2, NavigationRecord DEF Navigations, Locations, Passes
<1>6. Types'
  BY <1>1, <1>2, <1>3, <1>4, <1>5 DEF Types, Passes, Locations
<1>7. fetching' = ContextsOf(waiting)'
  BY <1>2 DEF Passes, ContextsOf
<1>8. GuardCalls'
  BY <1>2, <1>5 DEF GuardCalls, AtGuard, Passes, NoLive, CallsOf
<1>9. UndisturbedAgrees'
  BY <1>1, <1>2, <1>3, <1>5 DEF UndisturbedAgrees, Agreed, contextOf, LocaleOf, Passes
<1>10. StateMatchesDictionary'
  BY <1>2, <1>3 DEF StateMatchesDictionary, LocaleOf
<1> QED BY <1>6, <1>7, <1>8, <1>9, <1>10 DEF NavInv

LEMMA GuardWaits ==
  ASSUME NEW to \in Locations, NEW v, NEW locale, NEW calls, NEW n,
         Passes(v, locale, calls, n), beforeEach(to, v, locale, calls, n),
         LET target == contextOf(to, locale)
         IN  v.current # target /\ ~hasChunk(v, target)
  PROVE  NavInv'
<1> DEFINE target == contextOf(to, locale)
           call   == [by |-> "guard", ctx |-> target, live |-> TRUE]
<1>1. /\ target \in Contexts /\ target[2] = to[2]
      /\ strategy = "prefix" => target[1] = to[1]
  BY LocationContexts DEF Passes
<1>2. call \in Calls /\ LiveGuard(call) /\ call.ctx = target
  BY <1>1 DEF Calls, LiveGuard
<1>3. /\ view' = v /\ localeState' = locale
      /\ pending' = [to |-> to, stage |-> "guard"]
      /\ waiting' = Append(calls, call) /\ fetching' = fetching \union {call.ctx}
      /\ disturbed' = (disturbed \/ locale # localeState)
      /\ Hops(n)
  BY DEF beforeEach, Await
<1> HIDE DEF call, target
<1>4. /\ waiting' \in Seq(Calls) /\ waiting' # <<>>
      /\ ContextsOf(waiting') = ContextsOf(calls) \union {call.ctx}
      /\ Len(waiting') \in DOMAIN waiting' /\ waiting'[Len(waiting')] = call
      /\ OnlyLive(waiting', Len(waiting'))
  BY <1>2, <1>3, AppendedCall DEF Passes
<1>5. hops' \in 0..2
  <2>1. n \in 0..2 /\ hops \in 0..2
    BY DEF Passes, Types
  <2> QED BY <1>3, <2>1, HopsTyped
<1>6. pending' \in Navigations' \ {NoNavigation} /\ pending'.stage = "guard" /\ pending'.to = to
  BY <1>3, NavigationRecord DEF Navigations, Locations, Passes
<1>7. Types'
  BY <1>3, <1>4, <1>5, <1>6 DEF Types, Passes, Locations
<1>8. fetching' = ContextsOf(waiting)'
  BY <1>3, <1>4 DEF Passes, ContextsOf
<1>9. GuardCalls'
  <2>1. AsksFor(waiting[Len(waiting)], pending.to)'
    BY <1>1, <1>2, <1>4, <1>6 DEF AsksFor, Passes
  <2>2. AtGuard' /\ NoLive(CallsOf(ready))'
    BY <1>6 DEF AtGuard, Passes, NoLive, CallsOf
  <2>3. OnlyLive(waiting, Len(waiting))' /\ Len(waiting') \in DOMAIN waiting'
    BY <1>4 DEF OnlyLive
  <2> QED BY <2>1, <2>2, <2>3 DEF GuardCalls
<1>10. UndisturbedAgrees'
  BY <1>6 DEF UndisturbedAgrees
<1>11. StateMatchesDictionary'
  BY <1>4 DEF StateMatchesDictionary
<1> QED BY <1>7, <1>8, <1>9, <1>10, <1>11 DEF NavInv

LEMMA GuardKeeps ==
  ASSUME NEW to \in Locations, NEW v, NEW locale, NEW calls, NEW n,
         Passes(v, locale, calls, n), beforeEach(to, v, locale, calls, n)
  PROVE  NavInv'
<1>1. CASE LET target == contextOf(to, locale)
           IN  v.current = target \/ hasChunk(v, target)
  BY <1>1, GuardPasses
<1>2. CASE LET target == contextOf(to, locale)
           IN  v.current # target /\ ~hasChunk(v, target)
  BY <1>2, GuardWaits
<1> QED BY <1>1, <1>2

\* A push to the current route leaves locale and dictionary as the caller had
\* them, so they must agree there.
LEMMA PushKeeps ==
  ASSUME NEW to \in Locations, NEW v, NEW locale, NEW calls, NEW n,
         Passes(v, locale, calls, n), push(to, v, locale, calls, n),
         strategy = "no_prefix" /\ calls = <<>> /\ ready' = <<>> => locale = LocaleOf(v.current)
  PROVE  NavInv'
<1>1. CASE to # route
  BY <1>1, GuardKeeps DEF push
<1>2. CASE to = route
  <2>1. /\ view' = v /\ localeState' = locale /\ pending' = NoNavigation
        /\ waiting' = calls /\ fetching' = fetching /\ disturbed' = TRUE /\ Hops(n)
    BY <1>2 DEF push, Duplicate
  <2>2. hops' \in 0..2
    <3>1. n \in 0..2 /\ hops \in 0..2
      BY DEF Passes, Types
    <3> QED BY <2>1, <3>1, HopsTyped
  <2>3. Types'
    BY <2>1, <2>2 DEF Types, Passes, Locations
  <2>4. fetching' = ContextsOf(waiting)'
    BY <2>1 DEF Passes, ContextsOf
  <2>5. GuardCalls'
    BY <2>1 DEF GuardCalls, AtGuard, Passes, NoLive, CallsOf
  <2>6. UndisturbedAgrees'
    BY <2>1 DEF UndisturbedAgrees
  <2>7. StateMatchesDictionary'
    BY <2>1 DEF StateMatchesDictionary, Passes
  <2> QED BY <2>3, <2>4, <2>5, <2>6, <2>7 DEF NavInv
<1> QED BY <1>1, <1>2

LEMMA SwitchLogicKeeps ==
  ASSUME NEW lang \in Locales, NEW v, NEW locale, NEW calls, NEW n,
         Passes(v, locale, calls, n), switchLocaleLogic(lang, v, locale, calls, n)
  PROVE  NavInv'
<1>1. route \in Locations
  BY DEF Passes, Types
<1>2. CASE strategy = "no_prefix"
  <2>1. beforeEach(route, v, locale, calls, n)
    BY <1>2 DEF switchLocaleLogic, replace
  <2> QED BY <1>1, <2>1, GuardKeeps
<1>3. CASE strategy # "no_prefix"
  <2>1. push(<<lang, route[2]>>, v, locale, calls, n)
    BY <1>3 DEF switchLocaleLogic
  <2>2. <<lang, route[2]>> \in Locations
    BY <1>1, <1>3, NavigationAssumption DEF Locations
  <2> QED BY <1>3, <2>1, <2>2, PushKeeps
<1> QED BY <1>2, <1>3

-----------------------------------------------------------------------------
(* The user follows a link or switches the locale. *)

LEMMA NothingDue ==
  ASSUME Idle
  PROVE  ready \in Seq(Continuations) /\ NoLive(CallsOf(ready))
  BY DEF Idle, NoLive, CallsOf

\* The user's own calls supersede the navigation in progress.
LEMMA UserPasses ==
  ASSUME NavInv, Idle, UNCHANGED <<strategy, animated, route, ready, leaving>>,
         NEW v, ChunksOK(v), v.current \in Contexts, NEW locale \in Locales, NEW n \in 0..1
  PROVE  Passes(v, locale, Superseded(waiting), n)
<1>1. waiting \in Seq(Calls) /\ fetching = ContextsOf(waiting)
  BY DEF NavInv, Types
<1>2. ready' \in Seq(Continuations) /\ NoLive(CallsOf(ready'))
  BY NothingDue
<1> QED BY <1>1, <1>2, SupersededCalls DEF Passes, NavInv

LEMMA PushStep ==
  ASSUME NavInv, NEW to \in Locations, Push(to)
  PROVE  NavInv'
<1> DEFINE calls == Superseded(waiting)
<1>1. Idle /\ push(to, view, localeState, calls, 0)
  BY DEF Push, MayCall
<1>2. Passes(view, localeState, calls, 0)
  BY <1>1, UserPasses DEF NavInv, Types, Push
<1>3. calls = <<>> => waiting = <<>>
  BY SupersededCalls DEF NavInv, Types
<1>4. strategy = "no_prefix" /\ calls = <<>> => localeState = LocaleOf(view.current)
  BY <1>1, <1>3 DEF NavInv, StateMatchesDictionary, Idle
<1> HIDE DEF calls
<1> QED BY <1>1, <1>2, <1>4, PushKeeps

LEMMA SwitchLocaleStep ==
  ASSUME NavInv, NEW locale \in Locales, switchLocale(locale)
  PROVE  NavInv'
<1> DEFINE c     == <<locale, route[2]>>
           calls == Superseded(waiting)
<1>1. Idle /\ UNCHANGED <<strategy, animated, route, ready, leaving>>
  BY DEF switchLocale, MayCall
<1>2. c \in Contexts
  <2>1. route \in Contexts
    BY NavigationAssumption DEF NavInv, Types, Locations
  <2> QED BY <2>1, NavigationAssumption
<1>3. ChunksOK(view) /\ view.current \in Contexts
  BY DEF NavInv, Types
<1>4. CASE /\ strategy = "prefix"
           /\ switchLocaleLogic(locale, view, locale, calls, 0)
  <2>1. Passes(view, locale, calls, 0)
    BY <1>1, <1>3, UserPasses
  <2> HIDE DEF calls
  <2> QED BY <1>4, <2>1, SwitchLogicKeeps
<1>5. CASE /\ strategy # "prefix" /\ hasChunk(view, c)
           /\ switchLocaleLogic(locale, applySwitchContext(view, c, getChunk(view, c)),
                                locale, calls, 1)
  <2> DEFINE v == applySwitchContext(view, c, getChunk(view, c))
  <2>1. getChunk(view, c) \in Dicts
    BY <1>2, <1>3, FieldTypes DEF getChunk, ChunksOK, Listed
  <2>2. ChunksOK(v) /\ v.current = c
    BY <1>2, <1>3, <2>1, SwitchKeeps
  <2>3. switchLocaleLogic(locale, v, locale, calls, 1)
    BY <1>5
  <2> HIDE DEF v, c
  <2>4. Passes(v, locale, calls, 1)
    BY <1>1, <1>2, <2>2, UserPasses
  <2> HIDE DEF calls
  <2> QED BY <2>3, <2>4, SwitchLogicKeeps
<1>6. CASE /\ strategy # "prefix" /\ ~hasChunk(view, c)
           /\ localeState' = locale
           /\ Await(waiting, [by |-> "switchLocale", ctx |-> c, live |-> TRUE])
           /\ disturbed' = TRUE
           /\ UNCHANGED <<view, pending>>
           /\ Hops(0)
  <2> DEFINE call == [by |-> "switchLocale", ctx |-> c, live |-> TRUE]
  <2>1. call \in Calls /\ ~LiveGuard(call)
    BY <1>2 DEF Calls, LiveGuard
  <2>2. waiting' = Append(waiting, call) /\ fetching' = fetching \union {call.ctx}
    BY <1>6 DEF Await
  <2> HIDE DEF call, c
  <2>3. /\ waiting' \in Seq(Calls) /\ waiting' # <<>>
        /\ ContextsOf(waiting') = ContextsOf(waiting) \union {call.ctx}
        /\ NoLive(waiting) => NoLive(waiting')
        /\ \A i \in DOMAIN waiting : i \in DOMAIN waiting' /\ waiting'[i] = waiting[i]
        /\ \A i \in DOMAIN waiting : OnlyLive(waiting, i) => OnlyLive(waiting', i)
    BY <2>1, <2>2, AppendedCall DEF NavInv, Types
  <2>4. Types'
    <3>1. hops' \in 0..2
      BY <1>6, HopsTyped DEF NavInv, Types
    <3> QED BY <1>1, <1>6, <2>3, <3>1 DEF NavInv, Types, Navigations, Locations
  <2>5. fetching' = ContextsOf(waiting)'
    BY <2>2, <2>3 DEF NavInv, ContextsOf
  <2>6. GuardCalls'
    <3>1. AtGuard' = AtGuard /\ NoLive(CallsOf(ready))' /\ NoLive(CallsOf(ready))
      BY <1>1, <1>6, NothingDue DEF AtGuard, NoLive, CallsOf, Idle
    <3>2. CASE ~AtGuard
      BY <2>3, <3>1, <3>2 DEF GuardCalls, NavInv, NoLive
    <3>3. CASE AtGuard
      <4>1. PICK i \in DOMAIN waiting : OnlyLive(waiting, i) /\ AsksFor(waiting[i], pending.to)
        BY <1>1, <3>3 DEF NavInv, GuardCalls, Idle
      <4>2. i \in DOMAIN waiting' /\ OnlyLive(waiting, i)'
        BY <2>3, <4>1 DEF OnlyLive
      <4>3. AsksFor(waiting[i], pending.to)'
        BY <1>1, <1>6, <2>3, <4>1 DEF AsksFor
      <4> QED BY <3>1, <3>3, <4>2, <4>3 DEF GuardCalls
    <3> QED BY <3>2, <3>3
  <2>7. UndisturbedAgrees'
    BY <1>6 DEF UndisturbedAgrees
  <2>8. StateMatchesDictionary'
    BY <2>3 DEF StateMatchesDictionary
  <2> QED BY <2>4, <2>5, <2>6, <2>7, <2>8 DEF NavInv
<1> QED BY <1>4, <1>5, <1>6 DEF switchLocale

-----------------------------------------------------------------------------
(* A load ends. *)

\* Picking keeps the one live call, if its position is picked.
LEMMA PickedLive ==
  ASSUME NEW s \in Seq(Calls), NEW I \in SUBSET DOMAIN s
  PROVE  LET t == Picked(s, I)
         IN  /\ t \in Seq(Calls)
             /\ \A j \in DOMAIN t : \E i \in I : t[j] = s[i]
             /\ \A i \in I : \E j \in DOMAIN t : t[j] = s[i]
             /\ NoLive(s) => NoLive(t)
             /\ \A i \in I : OnlyLive(s, i) =>
                  \E j \in DOMAIN t : t[j] = s[i] /\ OnlyLive(t, j)
             /\ \A i \in DOMAIN s \ I : OnlyLive(s, i) => NoLive(t)
<1> DEFINE t == Picked(s, I)
           n == Cardinality(I)
<1>1. PICK at \in Bijection(1..n, I) : \A j \in 1..n : t[j] = s[at[j]]
  BY PickedPositions
<1>2. t \in Seq(Calls) /\ DOMAIN t = 1..n
  <2>1. t \in Seq(Calls) /\ Len(t) = n /\ n \in Nat
    BY PickedPositions
  <2> QED BY <2>1
<1> HIDE DEF t, n
<1>3. /\ \A j \in 1..n : at[j] \in I
      /\ \A i \in I : \E j \in 1..n : at[j] = i
      /\ \A j, k \in 1..n : at[j] = at[k] => j = k
  BY <1>1 DEF Bijection, Injection, Surjection, IsInjective
<1>4. /\ \A j \in DOMAIN t : \E i \in I : t[j] = s[i]
      /\ \A i \in I : \E j \in DOMAIN t : t[j] = s[i]
  BY <1>1, <1>2, <1>3
<1>5. NoLive(s) => NoLive(t)
  BY <1>4 DEF NoLive
<1>6. ASSUME NEW i \in I, OnlyLive(s, i)
      PROVE  \E j \in DOMAIN t : t[j] = s[i] /\ OnlyLive(t, j)
  <2>1. PICK j \in 1..n : at[j] = i
    BY <1>3
  <2>2. OnlyLive(t, j) /\ t[j] = s[i]
    BY <1>1, <1>2, <1>3, <1>6, <2>1 DEF OnlyLive
  <2> QED BY <1>2, <2>2
<1>7. ASSUME NEW i \in DOMAIN s \ I, OnlyLive(s, i)
      PROVE  NoLive(t)
  BY <1>1, <1>2, <1>3, <1>7 DEF OnlyLive, NoLive
<1> QED BY <1>2, <1>4, <1>5, <1>6, <1>7 DEF t

LEMMA SettleKeeps ==
  ASSUME NavInv, Idle, NEW c \in Contexts, NEW data \in Dicts, Settle(c, data),
         ChunksOK(view'), view'.current = view.current
  PROVE  NavInv'
<1> DEFINE mine == {i \in DOMAIN waiting : waiting[i].ctx = c}
           rest == {i \in DOMAIN waiting : waiting[i].ctx # c}
           t    == Picked(waiting, mine)
           u    == Picked(waiting, rest)
           due  == [i \in DOMAIN t |-> [call |-> t[i], data |-> data]]
<1>1. /\ c \in fetching /\ fetching' = fetching \ {c} /\ ready' = due /\ waiting' = u
      /\ UNCHANGED <<strategy, animated, localeState, route, pending, leaving, disturbed>>
      /\ Hops(0)
  BY DEF Settle
<1>2. /\ mine \in SUBSET DOMAIN waiting /\ rest \in SUBSET DOMAIN waiting
      /\ \A i \in DOMAIN waiting : i \in rest <=> i \notin mine
      /\ waiting \in Seq(Calls) /\ fetching = ContextsOf(waiting)
  BY DEF NavInv, Types
<1>3. /\ t \in Seq(Calls) /\ u \in Seq(Calls)
      /\ \A j \in DOMAIN u : \E i \in rest : u[j] = waiting[i]
      /\ \A i \in rest : \E j \in DOMAIN u : u[j] = waiting[i]
      /\ \A i \in mine : \E j \in DOMAIN t : t[j] = waiting[i]
  BY <1>2, PickedLive
<1>4. /\ NoLive(waiting) => NoLive(t) /\ NoLive(u)
      /\ \A i \in mine : OnlyLive(waiting, i) =>
           NoLive(u) /\ \E j \in DOMAIN t : t[j] = waiting[i] /\ OnlyLive(t, j)
      /\ \A i \in rest : OnlyLive(waiting, i) =>
           NoLive(t) /\ \E j \in DOMAIN u : u[j] = waiting[i] /\ OnlyLive(u, j)
  BY <1>2, PickedLive
<1>5. mine # {}
  BY <1>1, <1>2 DEF ContextsOf
<1>6. ContextsOf(u) = ContextsOf(waiting) \ {c}
  <2> HIDE DEF u
  <2>1. ContextsOf(u) = {waiting[i].ctx : i \in rest}
    BY <1>3 DEF ContextsOf
  <2> QED BY <2>1 DEF ContextsOf
<1> HIDE DEF t, u
<1>7. due \in Seq(Continuations) /\ CallsOf(due) = t /\ DOMAIN due = DOMAIN t
  <2>1. DOMAIN t = 1..Len(t) /\ Len(t) \in Nat /\ \A i \in 1..Len(t) : t[i] \in Calls
    BY <1>3
  <2>2. due \in [1..Len(t) -> Continuations]
    BY <2>1 DEF Continuations
  <2>3. t = [i \in DOMAIN t |-> t[i]]
    BY <1>3
  <2>4. CallsOf(due) = t
    BY <2>3 DEF CallsOf
  <2> HIDE DEF due
  <2> QED BY <2>1, <2>2, <2>4
<1>8. \A i \in DOMAIN t : due[i].call = t[i]
  OBVIOUS
<1> HIDE DEF due, mine, rest
<1>9. Types'
  <2>1. hops' \in 0..2
    BY <1>1, HopsTyped DEF NavInv, Types
  <2> QED BY <1>1, <1>3, <1>7, <2>1 DEF NavInv, Types, Navigations, Locations
<1>10. fetching' = ContextsOf(waiting)'
  BY <1>1, <1>2, <1>6 DEF ContextsOf
<1>11. GuardCalls'
  <2>1. AtGuard' = AtGuard
    BY <1>1 DEF AtGuard
  <2>2. CASE ~AtGuard
    <3>1. NoLive(waiting)
      BY <2>2 DEF NavInv, GuardCalls
    <3>2. NoLive(waiting') /\ NoLive(CallsOf(ready'))
      BY <1>1, <1>4, <1>7, <3>1
    <3> QED BY <2>1, <2>2, <3>2 DEF GuardCalls, NoLive, CallsOf
  <2>3. CASE AtGuard
    <3>1. PICK i \in DOMAIN waiting : OnlyLive(waiting, i) /\ AsksFor(waiting[i], pending.to)
      BY <2>3 DEF NavInv, GuardCalls, Idle
    <3>2. CASE i \in mine
      <4>1. PICK j \in DOMAIN t : t[j] = waiting[i] /\ OnlyLive(t, j)
        BY <1>4, <3>1, <3>2
      <4>2. NoLive(u)
        BY <1>4, <3>1, <3>2
      <4>3. NoLive(waiting)' /\ OnlyLive(CallsOf(ready), j)' /\ j \in DOMAIN ready'
        BY <1>1, <1>7, <4>1, <4>2 DEF NoLive, OnlyLive, CallsOf
      <4>4. AsksFor(ready[j].call, pending.to)'
        BY <1>1, <1>8, <3>1, <4>1 DEF AsksFor
      <4> QED BY <2>1, <2>3, <4>3, <4>4 DEF GuardCalls
    <3>3. CASE i \in rest
      <4>1. PICK j \in DOMAIN u : u[j] = waiting[i] /\ OnlyLive(u, j)
        BY <1>4, <3>1, <3>3
      <4>2. NoLive(t)
        BY <1>4, <3>1, <3>3
      <4>3. NoLive(CallsOf(ready))' /\ OnlyLive(waiting, j)' /\ j \in DOMAIN waiting'
        BY <1>1, <1>7, <4>1, <4>2 DEF NoLive, OnlyLive, CallsOf
      <4>4. AsksFor(waiting[j], pending.to)'
        BY <1>1, <3>1, <4>1 DEF AsksFor
      <4> QED BY <2>1, <2>3, <4>3, <4>4 DEF GuardCalls
    <3> QED BY <1>2, <3>1, <3>2, <3>3
  <2> QED BY <2>2, <2>3
<1>12. UndisturbedAgrees'
  BY <1>1 DEF NavInv, UndisturbedAgrees, Agreed, contextOf
<1>13. StateMatchesDictionary'
  <2>1. PICK i \in mine : TRUE
    BY <1>5
  <2>2. ready' # <<>>
    BY <1>1, <1>3, <1>7, <2>1
  <2> QED BY <2>2 DEF StateMatchesDictionary
<1> QED BY <1>9, <1>10, <1>11, <1>12, <1>13 DEF NavInv

LEMMA LoadDoneStep ==
  ASSUME NavInv, NEW c \in Contexts, LoadDone(c)
  PROVE  NavInv'
<1> DEFINE chunk == Merged(File(c), getChunk(view, c))
<1>1. ChunksOK(view) /\ view.chunk[c] \in Dicts
  BY FieldTypes DEF NavInv, Types, ChunksOK, Listed
<1>2. chunk \in Dicts
  BY <1>1, MadeForIsDict, MergedIsDict DEF getChunk
<1>3. Idle /\ Settle(c, chunk) /\ view' = setChunk(view, c, chunk)
  BY DEF LoadDone
<1> HIDE DEF chunk
<1>4. ChunksOK(view') /\ view'.current = view.current
  BY <1>1, <1>2, <1>3, SetChunkKeeps
<1> QED BY <1>2, <1>3, <1>4, SettleKeeps

LEMMA LoadFailedStep ==
  ASSUME NavInv, NEW c \in Contexts, LoadFailed(c)
  PROVE  NavInv'
<1>1. Idle /\ Settle(c, EmptyDict) /\ view' = view
  BY DEF LoadFailed
<1>2. ChunksOK(view') /\ view'.current = view.current
  BY <1>1 DEF NavInv, Types
<1> QED BY <1>1, <1>2, EmptyIsDict, SettleKeeps

-----------------------------------------------------------------------------
(* A continuation runs. *)

\* What is left to run after the oldest continuation.
LEMMA TailCalls ==
  ASSUME NEW due \in Seq(Continuations), due # <<>>
  PROVE  /\ Head(due) \in Continuations /\ Tail(due) \in Seq(Continuations)
         /\ 1 \in DOMAIN due /\ Head(due) = due[1]
         /\ OnlyLive(CallsOf(due), 1) => NoLive(CallsOf(Tail(due)))
         /\ LiveGuard(Head(due).call) => \A i \in DOMAIN due : OnlyLive(CallsOf(due), i) => i = 1
         /\ NoLive(CallsOf(due)) => NoLive(CallsOf(Tail(due))) /\ ~LiveGuard(Head(due).call)
         /\ \A i \in DOMAIN due : OnlyLive(CallsOf(due), i) /\ i # 1 =>
              /\ i - 1 \in DOMAIN Tail(due) /\ Tail(due)[i - 1] = due[i]
              /\ OnlyLive(CallsOf(Tail(due)), i - 1)
<1> DEFINE n == Len(due)
           t == Tail(due)
<1>1. /\ n \in Nat /\ n >= 1 /\ DOMAIN due = 1..n /\ DOMAIN t = 1..(n - 1)
      /\ t \in Seq(Continuations) /\ \A i \in 1..(n - 1) : t[i] = due[i + 1]
      /\ Head(due) = due[1] /\ due[1] \in Continuations
  OBVIOUS
<1> HIDE DEF n, t
<1>2. /\ DOMAIN CallsOf(due) = 1..n /\ \A i \in 1..n : CallsOf(due)[i] = due[i].call
      /\ DOMAIN CallsOf(t) = 1..(n - 1)
      /\ \A i \in 1..(n - 1) : CallsOf(t)[i] = due[i + 1].call
  BY <1>1 DEF CallsOf
<1>3. /\ NoLive(CallsOf(due)) => \A i \in 1..n : ~LiveGuard(due[i].call)
      /\ (\A i \in 1..(n - 1) : ~LiveGuard(due[i + 1].call)) => NoLive(CallsOf(t))
      /\ OnlyLive(CallsOf(due), 1) => \A i \in 1..n : LiveGuard(due[i].call) => i = 1
  BY <1>2 DEF NoLive, OnlyLive
<1>4. 1 \in 1..n /\ \A i \in 1..(n - 1) : i + 1 \in 1..n /\ i + 1 # 1
  BY <1>1
<1>5. OnlyLive(CallsOf(due), 1) => NoLive(CallsOf(t))
  BY <1>3, <1>4
<1>6. LiveGuard(Head(due).call) => \A i \in DOMAIN due : OnlyLive(CallsOf(due), i) => i = 1
  BY <1>1, <1>2 DEF OnlyLive
<1>7. NoLive(CallsOf(due)) => NoLive(CallsOf(t)) /\ ~LiveGuard(Head(due).call)
  BY <1>1, <1>3, <1>4
<1>8. ASSUME NEW i \in DOMAIN due, OnlyLive(CallsOf(due), i), i # 1
      PROVE  /\ i - 1 \in DOMAIN t /\ t[i - 1] = due[i] /\ OnlyLive(CallsOf(t), i - 1)
  <2>1. i \in 2..n /\ i - 1 \in 1..(n - 1) /\ (i - 1) + 1 = i
    BY <1>1, <1>8
  <2>2. t[i - 1] = due[i] /\ CallsOf(t)[i - 1] = due[i].call
    BY <1>1, <1>2, <2>1
  <2>3. LiveGuard(due[i].call) /\ \A j \in 1..n : LiveGuard(due[j].call) => j = i
    BY <1>1, <1>2, <1>8 DEF OnlyLive
  <2>4. \A j \in 1..(n - 1) : LiveGuard(CallsOf(t)[j]) => j = i - 1
    <3> SUFFICES ASSUME NEW j \in 1..(n - 1), LiveGuard(CallsOf(t)[j])
                 PROVE  j = i - 1
      OBVIOUS
    <3>1. j + 1 \in 1..n /\ LiveGuard(due[j + 1].call)
      BY <1>1, <1>2
    <3>2. j + 1 = i
      BY <2>3, <3>1
    <3> QED BY <2>1, <3>2
  <2> QED BY <1>1, <1>2, <2>1, <2>2, <2>3, <2>4 DEF OnlyLive
<1> QED BY <1>1, <1>5, <1>6, <1>7, <1>8 DEF t

\* The call that runs, and the view it leaves.
LEMMA ResumedCall ==
  ASSUME NavInv, Resume
  PROVE  LET call == Head(ready).call
             v    == applySwitchContext(view, call.ctx, Head(ready).data)
         IN  /\ ready # <<>> /\ call \in Calls /\ call.ctx[1] \in Locales
             /\ ChunksOK(v) /\ v.current = call.ctx /\ v.current \in Contexts
<1>1. ready # <<>> /\ ready \in Seq(Continuations)
  BY DEF Resume, NavInv, Types
<1>2. Head(ready).call \in Calls /\ Head(ready).data \in Dicts
  BY <1>1, TailCalls DEF Continuations
<1>3. Head(ready).call.ctx \in Contexts
  BY <1>2 DEF Calls
<1>4. ChunksOK(view)
  BY DEF NavInv, Types
<1> QED BY <1>1, <1>2, <1>3, <1>4, ContextParts, SwitchKeeps

LEMMA GuardResumesStep ==
  ASSUME NavInv, Resume, Head(ready).call.by = "guard"
  PROVE  NavInv'
<1> DEFINE call == Head(ready).call
           v    == applySwitchContext(view, call.ctx, Head(ready).data)
<1>1. /\ ready # <<>> /\ call \in Calls /\ call.ctx[1] \in Locales
      /\ ChunksOK(v) /\ v.current = call.ctx /\ v.current \in Contexts
  BY ResumedCall
<1>2. /\ UNCHANGED <<strategy, animated, route, leaving, fetching, waiting>>
      /\ view' = v /\ localeState' = call.ctx[1]
      /\ pending' = IF call.live THEN [pending EXCEPT !.stage = "resolving"] ELSE pending
      /\ disturbed' = ~call.live /\ ready' = Tail(ready)
      /\ Hops(IF call.live THEN 1 ELSE 2)
  BY DEF Resume, GuardResumes
<1>3. /\ call = Head(ready).call /\ (LiveGuard(call) <=> call.live) /\ call.live \in BOOLEAN
  BY <1>1 DEF LiveGuard, Calls
<1> HIDE DEF call, v
<1>4. ready \in Seq(Continuations) /\ pending \in Navigations \union {NoNavigation}
  BY DEF NavInv, Types
<1>5. ready' \in Seq(Continuations)
  BY <1>1, <1>2, <1>4, TailCalls
<1>6. hops' \in 0..2
  <2> DEFINE m == IF call.live THEN 1 ELSE 2
  <2>1. m \in 0..2 /\ Hops(m)
    BY <1>2
  <2> HIDE DEF m
  <2> QED BY <2>1, HopsTyped DEF NavInv, Types
<1>7. fetching' = ContextsOf(waiting)'
  BY <1>2 DEF NavInv, ContextsOf
<1>8. StateMatchesDictionary'
  BY <1>1, <1>2 DEF StateMatchesDictionary, LocaleOf
<1>9. CASE ~call.live
  <2>1. pending' = pending /\ disturbed' = TRUE
    BY <1>2, <1>3, <1>9
  <2>2. Types'
    BY <1>1, <1>2, <1>5, <1>6, <2>1 DEF NavInv, Types, Navigations, Locations
  <2>3. UndisturbedAgrees'
    BY <2>1 DEF UndisturbedAgrees
  <2>4. GuardCalls'
    <3>1. AtGuard' = AtGuard /\ NoLive(waiting)' = NoLive(waiting)
      BY <1>2, <2>1 DEF AtGuard, NoLive
    <3>2. NoLive(CallsOf(ready)) => NoLive(CallsOf(ready'))
      BY <1>1, <1>2, <1>4, TailCalls
    <3>3. CASE ~AtGuard
      BY <3>1, <3>2, <3>3 DEF NavInv, GuardCalls, NoLive, CallsOf
    <3>4. CASE /\ AtGuard /\ NoLive(CallsOf(ready))
               /\ \E i \in DOMAIN waiting : OnlyLive(waiting, i) /\ AsksFor(waiting[i], pending.to)
      <4>1. PICK i \in DOMAIN waiting : OnlyLive(waiting, i) /\ AsksFor(waiting[i], pending.to)
        BY <3>4
      <4>2. i \in DOMAIN waiting' /\ OnlyLive(waiting, i)' /\ AsksFor(waiting[i], pending.to)'
        BY <1>2, <2>1, <4>1 DEF OnlyLive, AsksFor
      <4>3. NoLive(CallsOf(ready))'
        BY <3>2, <3>4 DEF NoLive, CallsOf
      <4> QED BY <3>1, <3>4, <4>2, <4>3 DEF GuardCalls
    <3>5. CASE /\ AtGuard /\ NoLive(waiting)
               /\ \E i \in DOMAIN ready :
                    OnlyLive(CallsOf(ready), i) /\ AsksFor(ready[i].call, pending.to)
      <4>1. PICK i \in DOMAIN ready :
              OnlyLive(CallsOf(ready), i) /\ AsksFor(ready[i].call, pending.to)
        BY <3>5
      <4>2. i # 1
        <5>1. OnlyLive(CallsOf(ready), 1) => LiveGuard(ready[1].call)
          BY DEF OnlyLive, CallsOf
        <5>2. ready[1].call = call
          BY <1>1, <1>3, <1>4, TailCalls
        <5> QED BY <1>3, <1>9, <4>1, <5>1, <5>2
      <4>3. /\ i - 1 \in DOMAIN ready' /\ ready'[i - 1] = ready[i]
            /\ OnlyLive(CallsOf(ready'), i - 1)
        BY <1>1, <1>2, <1>4, <4>1, <4>2, TailCalls
      <4>4. AsksFor(ready[i - 1].call, pending.to)' /\ OnlyLive(CallsOf(ready), i - 1)'
        BY <1>2, <2>1, <4>1, <4>3 DEF AsksFor, OnlyLive, CallsOf
      <4> QED BY <3>1, <3>5, <4>3, <4>4 DEF GuardCalls
    <3> QED BY <3>3, <3>4, <3>5 DEF NavInv, GuardCalls
  <2> QED BY <1>7, <1>8, <2>2, <2>3, <2>4 DEF NavInv
<1>10. CASE call.live
  <2>1. LiveGuard(Head(ready).call)
    BY <1>3, <1>10
  <2>2. ~NoLive(CallsOf(ready))
    BY <1>1, <1>4, <2>1, TailCalls
  <2>3. /\ AtGuard /\ NoLive(waiting) /\ OnlyLive(CallsOf(ready), 1)
        /\ AsksFor(call, pending.to)
    <3>1. PICK i \in DOMAIN ready :
            OnlyLive(CallsOf(ready), i) /\ AsksFor(ready[i].call, pending.to)
      BY <2>2 DEF NavInv, GuardCalls
    <3>2. i = 1 /\ ready[1] = Head(ready)
      BY <1>1, <1>4, <2>1, <3>1, TailCalls
    <3> QED BY <1>3, <2>2, <3>1, <3>2 DEF NavInv, GuardCalls
  <2>4. pending \in Navigations
    BY <1>4, <2>3 DEF AtGuard
  <2>5. /\ pending' = [pending EXCEPT !.stage = "resolving"] /\ disturbed' = FALSE
    BY <1>2, <1>10
  <2>6. pending' = [to |-> pending.to, stage |-> "resolving"]
    BY <2>4, <2>5 DEF Navigations
  <2>7. pending.to \in Locations
    BY <2>4 DEF Navigations
  <2>8. pending' \in Navigations' \ {NoNavigation}
    BY <1>2, <2>6, <2>7, NavigationRecord DEF Navigations, Locations
  <2>9. pending'.to = pending.to /\ pending'.stage = "resolving"
    BY <2>6
  <2>10. Types'
    BY <1>1, <1>2, <1>5, <1>6, <2>5, <2>8 DEF NavInv, Types, Locations
  <2>11. GuardCalls'
    <3>1. NoLive(waiting)' /\ NoLive(CallsOf(ready'))
      BY <1>1, <1>2, <1>4, <2>3, TailCalls DEF NoLive
    <3>2. ~AtGuard'
      BY <2>9 DEF AtGuard
    <3> QED BY <3>1, <3>2 DEF GuardCalls, NoLive, CallsOf
  <2>12. UndisturbedAgrees'
    <3>1. contextOf(pending.to, localeState)' = call.ctx
      <4>1. call.ctx = <<call.ctx[1], call.ctx[2]>>
        BY <1>1, ContextParts
      <4> QED BY <1>2, <2>3, <2>9, <4>1 DEF contextOf, AsksFor
    <3>2. Agreed(pending.to)'
      BY <1>1, <1>2, <3>1 DEF Agreed, LocaleOf, contextOf
    <3> QED BY <2>8, <3>2 DEF UndisturbedAgrees
  <2> QED BY <1>7, <1>8, <2>10, <2>11, <2>12 DEF NavInv
<1> QED BY <1>3, <1>9, <1>10

LEMMA SwitchLocaleResumesStep ==
  ASSUME NavInv, Resume, Head(ready).call.by # "guard"
  PROVE  NavInv'
<1> DEFINE call == Head(ready).call
           v    == applySwitchContext(view, call.ctx, Head(ready).data)
           t    == Tail(ready)
           dead(x) == Superseded(<<x>>)[1]
           due  == [i \in DOMAIN t |-> [t[i] EXCEPT !.call = dead(t[i].call)]]
<1>1. /\ ready # <<>> /\ call \in Calls /\ call.ctx[1] \in Locales
      /\ ChunksOK(v) /\ v.current = call.ctx /\ v.current \in Contexts
  BY ResumedCall
<1>2. /\ UNCHANGED <<strategy, animated, route, leaving>>
      /\ ready' = due
      /\ switchLocaleLogic(call.ctx[1], v, localeState, Superseded(waiting), 1)
  BY DEF Resume, SwitchLocaleResumes
<1>3. t \in Seq(Continuations)
  BY <1>1, TailCalls DEF NavInv, Types
<1>4. \A x \in Calls : dead(x) \in Calls /\ ~LiveGuard(dead(x))
  <2> SUFFICES ASSUME NEW x \in Calls
               PROVE  dead(x) \in Calls /\ ~LiveGuard(dead(x))
    OBVIOUS
  <2>1. dead(x) = IF x.by = "guard" THEN [x EXCEPT !.live = FALSE] ELSE x
    <3> DEFINE s == <<x>>
    <3>1. 1 \in DOMAIN s /\ s[1] = x
      OBVIOUS
    <3> HIDE DEF s
    <3>2. Superseded(s)[1] = IF s[1].by = "guard" THEN [s[1] EXCEPT !.live = FALSE] ELSE s[1]
      BY <3>1 DEF Superseded
    <3> QED BY <3>1, <3>2 DEF s
  <2> QED BY <2>1 DEF Calls, LiveGuard
<1> HIDE DEF t, dead
<1>5. due \in Seq(Continuations) /\ NoLive(CallsOf(due))
  <2>1. DOMAIN t = 1..Len(t) /\ Len(t) \in Nat /\ \A i \in 1..Len(t) : t[i] \in Continuations
    BY <1>3
  <2>2. \A i \in 1..Len(t) :
          /\ [t[i] EXCEPT !.call = dead(t[i].call)] \in Continuations
          /\ [t[i] EXCEPT !.call = dead(t[i].call)].call = dead(t[i].call)
          /\ ~LiveGuard(dead(t[i].call))
    BY <1>4, <2>1 DEF Continuations
  <2>3. due \in [1..Len(t) -> Continuations]
    BY <2>1, <2>2
  <2>4. \A i \in DOMAIN due : ~LiveGuard(due[i].call)
    BY <2>1, <2>2
  <2> HIDE DEF due
  <2>5. due \in Seq(Continuations)
    BY <2>1, <2>3
  <2> QED BY <2>4, <2>5 DEF NoLive, CallsOf
<1> HIDE DEF due
<1>6. waiting \in Seq(Calls) /\ localeState \in Locales /\ fetching = ContextsOf(waiting) /\ Types
  BY DEF NavInv, Types
<1> HIDE DEF call, v
<1>7. Passes(v, localeState, Superseded(waiting), 1)
  BY <1>1, <1>2, <1>5, <1>6, SupersededCalls DEF Passes
<1> QED BY <1>1, <1>2, <1>7, SwitchLogicKeeps

-----------------------------------------------------------------------------
(* The navigation ends; the transition ends. *)

\* Nobody awaits a load for a navigation that has passed its guard.
LEMMA PassedGuard ==
  ASSUME NavInv, ~AtGuard, UNCHANGED <<waiting, ready>>, ~AtGuard'
  PROVE  GuardCalls'
  BY DEF NavInv, GuardCalls, NoLive, CallsOf

LEMMA ArriveStep ==
  ASSUME NavInv, Arrive
  PROVE  NavInv'
<1>1. /\ pending # NoNavigation /\ pending.stage = "resolving" /\ pending \in Navigations
      /\ route' = pending.to /\ pending' = NoNavigation
      /\ leaving' = IF animated /\ pending.to # route THEN Append(leaving, route[2]) ELSE leaving
      /\ UNCHANGED <<strategy, animated, view, localeState, fetching, waiting, ready, disturbed>>
      /\ Hops(0)
  BY DEF Arrive, NavInv, Types
<1>2. hops' \in 0..2
  BY <1>1, HopsTyped DEF NavInv, Types
<1>3. pending.to \in Locations /\ route[2] \in Pages
  BY <1>1, NavigationAssumption DEF Navigations, NavInv, Types, Locations
<1>4. leaving' \in Seq(Pages)
  BY <1>1, <1>3 DEF NavInv, Types
<1>5. Types'
  BY <1>1, <1>2, <1>3, <1>4 DEF NavInv, Types, Locations
<1>6. fetching' = ContextsOf(waiting)'
  BY <1>1 DEF NavInv, ContextsOf
<1>7. GuardCalls'
  BY <1>1, PassedGuard DEF AtGuard
<1>8. UndisturbedAgrees'
  BY <1>1 DEF NavInv, UndisturbedAgrees, Agreed, contextOf
<1>9. StateMatchesDictionary'
  BY <1>1 DEF NavInv, StateMatchesDictionary
<1> QED BY <1>5, <1>6, <1>7, <1>8, <1>9 DEF NavInv

LEMMA AbortStep ==
  ASSUME NavInv, Abort
  PROVE  NavInv'
<1>1. /\ pending # NoNavigation /\ pending.stage = "resolving"
      /\ pending' = NoNavigation /\ disturbed' = TRUE
      /\ UNCHANGED <<strategy, animated, view, localeState, route, fetching, waiting, ready, leaving>>
      /\ Hops(0)
  BY DEF Abort
<1>2. hops' \in 0..2
  BY <1>1, HopsTyped DEF NavInv, Types
<1>3. Types'
  BY <1>1, <1>2 DEF NavInv, Types, Locations
<1>4. fetching' = ContextsOf(waiting)'
  BY <1>1 DEF NavInv, ContextsOf
<1>5. GuardCalls'
  BY <1>1, PassedGuard DEF AtGuard
<1>6. UndisturbedAgrees' /\ StateMatchesDictionary'
  BY <1>1 DEF NavInv, UndisturbedAgrees, StateMatchesDictionary
<1> QED BY <1>3, <1>4, <1>5, <1>6 DEF NavInv

LEMMA TransitionFinishStep ==
  ASSUME NavInv, TransitionFinish
  PROVE  NavInv'
<1>1. /\ leaving # <<>> /\ leaving' = Tail(leaving) /\ view' = finishTransition(view)
      /\ UNCHANGED <<strategy, animated, localeState, route, pending, fetching, waiting,
                     ready, disturbed>>
      /\ Hops(0)
  BY DEF TransitionFinish
<1>2. ChunksOK(view') /\ view'.current = view.current
  BY <1>1, FinishKeeps DEF NavInv, Types
<1>3. hops' \in 0..2
  BY <1>1, HopsTyped DEF NavInv, Types
<1>4. leaving' \in Seq(Pages)
  BY <1>1 DEF NavInv, Types
<1>5. Types'
  BY <1>1, <1>2, <1>3, <1>4 DEF NavInv, Types, Navigations, Locations
<1>6. fetching' = ContextsOf(waiting)'
  BY <1>1 DEF NavInv, ContextsOf
<1>7. GuardCalls'
  BY <1>1 DEF NavInv, GuardCalls, AtGuard, NoLive, OnlyLive, CallsOf, AsksFor
<1>8. UndisturbedAgrees' /\ StateMatchesDictionary'
  BY <1>1, <1>2 DEF NavInv, UndisturbedAgrees, Agreed, contextOf, StateMatchesDictionary
<1> QED BY <1>5, <1>6, <1>7, <1>8 DEF NavInv

-----------------------------------------------------------------------------
LEMMA NavInit == Init => NavInv
<1> SUFFICES ASSUME Init PROVE NavInv
  OBVIOUS
<1> DEFINE c == <<localeState, route[2]>>
<1>1. /\ strategy \in Strategies /\ animated \in BOOLEAN /\ route \in Locations
      /\ localeState \in Locales /\ view = applySwitchContext(NewView(0), c, File(c))
      /\ disturbed = (contextOf(route, localeState) # view.current)
      /\ pending = NoNavigation /\ fetching = {} /\ waiting = <<>> /\ ready = <<>>
      /\ leaving = <<>> /\ hops = 0
  BY DEF Init
<1>2. c \in Contexts
  BY <1>1, NavigationAssumption DEF Locations
<1>3. ChunksOK(NewView(0)) /\ File(c) \in Dicts
  BY <1>2, NewViewOK, MadeForIsDict
<1>4. ChunksOK(view) /\ view.current = c
  BY <1>1, <1>2, <1>3, SwitchKeeps
<1>5. Types
  BY <1>1, <1>2, <1>4 DEF Types
<1>6. fetching = ContextsOf(waiting)
  BY <1>1 DEF ContextsOf
<1>7. GuardCalls
  BY <1>1 DEF GuardCalls, AtGuard, NoLive, CallsOf
<1>8. localeState = LocaleOf(view.current)
  BY <1>4 DEF LocaleOf
<1>9. UndisturbedAgrees
  <2>1. ~disturbed => view.current = contextOf(route, localeState)
    BY <1>1
  <2> QED BY <1>1, <1>8, <2>1 DEF UndisturbedAgrees, Agreed
<1>10. StateMatchesDictionary
  BY <1>8 DEF StateMatchesDictionary
<1> QED BY <1>5, <1>6, <1>7, <1>9, <1>10 DEF NavInv

LEMMA NavNext == NavInv /\ [Next]_vars => NavInv'
<1> SUFFICES ASSUME NavInv, [Next]_vars PROVE NavInv'
  OBVIOUS
<1>1. ASSUME NEW to \in Locations, Push(to) PROVE NavInv'
  BY <1>1, PushStep
<1>2. ASSUME NEW locale \in Locales, switchLocale(locale) PROVE NavInv'
  BY <1>2, SwitchLocaleStep
<1>3. ASSUME NEW c \in Contexts, LoadDone(c) \/ LoadFailed(c) PROVE NavInv'
  BY <1>3, LoadDoneStep, LoadFailedStep
<1>4. CASE Resume
  BY <1>4, GuardResumesStep, SwitchLocaleResumesStep
<1>5. CASE Arrive
  BY <1>5, ArriveStep
<1>6. CASE Abort
  BY <1>6, AbortStep
<1>7. CASE TransitionFinish
  BY <1>7, TransitionFinishStep
<1>8. CASE UNCHANGED vars
  <2>1. UNCHANGED <<strategy, animated, view, localeState, route, pending, fetching, waiting,
                    ready, leaving, disturbed, hops>>
    BY <1>8 DEF vars, app
  <2>2. Types'
    BY <2>1 DEF NavInv, Types, Navigations, Locations
  <2>3. fetching' = ContextsOf(waiting)' /\ GuardCalls'
    BY <2>1 DEF NavInv, GuardCalls, AtGuard, NoLive, OnlyLive, CallsOf, AsksFor, ContextsOf
  <2>4. UndisturbedAgrees' /\ StateMatchesDictionary'
    BY <2>1 DEF NavInv, UndisturbedAgrees, Agreed, contextOf, StateMatchesDictionary
  <2> QED BY <2>2, <2>3, <2>4 DEF NavInv
<1> QED BY <1>1, <1>2, <1>3, <1>4, <1>5, <1>6, <1>7, <1>8 DEF Next

\* The invariant holds in every state the application reaches.
THEOREM NavigationInvariant == Spec => []NavInv
  BY NavInit, NavNext, PTL DEF Spec

\* Types, and a load is on its way exactly for the contexts somebody awaits.
THEOREM NavigationTypes == Spec => []TypeOK
<1>1. NavInv => TypeOK
  BY DEF NavInv, Types, TypeOK, ChunksOK, Listed, Navigations, Continuations, ContextsOf
<1> QED BY <1>1, NavigationInvariant, PTL

\* A navigation in its guard has one live call that awaits a load or is due,
\* whatever supersedes, fails or settles late (beforeEach, GuardResumes).
THEOREM NavigationAwaitsGuard == Spec => []GuardIsAwaited
<1>1. NavInv => GuardIsAwaited
  <2> SUFFICES ASSUME NavInv PROVE GuardIsAwaited
    OBVIOUS
  <2> DEFINE W == {i \in DOMAIN waiting : waiting[i].by = "guard" /\ waiting[i].live}
             R == {i \in DOMAIN ready : ready[i].call.by = "guard" /\ ready[i].call.live}
  <2>1. /\ NoLive(waiting) => W = {}
        /\ NoLive(CallsOf(ready)) => R = {}
        /\ \A i \in DOMAIN waiting : OnlyLive(waiting, i) => W = {i}
        /\ \A i \in DOMAIN ready : OnlyLive(CallsOf(ready), i) => R = {i}
    BY DEF NoLive, OnlyLive, LiveGuard, CallsOf
  <2>2. LiveGuards = Cardinality(W) + Cardinality(R)
    BY DEF LiveGuards
  <2>3. Cardinality({}) = 0 /\ \A i : Cardinality({i}) = 1
    BY FS_EmptySet, FS_Singleton
  <2> HIDE DEF W, R
  <2>4. CASE AtGuard
    <3>1. \/ R = {} /\ \E i \in DOMAIN waiting : W = {i}
          \/ W = {} /\ \E i \in DOMAIN ready : R = {i}
      BY <2>1, <2>4 DEF NavInv, GuardCalls
    <3>2. \/ Cardinality(R) = 0 /\ Cardinality(W) = 1
          \/ Cardinality(W) = 0 /\ Cardinality(R) = 1
      BY <2>3, <3>1, Zenon
    <3>3. Cardinality(W) + Cardinality(R) = 1
      BY <3>2
    <3> QED BY <2>2, <2>4, <3>3 DEF GuardIsAwaited, AtGuard
  <2>5. CASE ~AtGuard
    <3>1. Cardinality(W) + Cardinality(R) = 0
      BY <2>1, <2>3, <2>5 DEF NavInv, GuardCalls
    <3> QED BY <2>2, <2>5, <3>1 DEF GuardIsAwaited, AtGuard
  <2> QED BY <2>4, <2>5
<1> QED BY <1>1, NavigationInvariant, PTL

\* After a navigation nothing disturbed, the dictionary, the locale state and
\* the route agree, whatever was wrong before it (plugins/01.plugin.ts).
THEOREM NavigationAgrees == Spec => []UndisturbedAgrees
<1>1. NavInv => UndisturbedAgrees
  BY DEF NavInv
<1> QED BY <1>1, NavigationInvariant, PTL

\* Under no_prefix the locale state and the dictionary are in one locale when
\* every call is through.
THEOREM NavigationMatchesLocale == Spec => []StateMatchesDictionary
<1>1. NavInv => StateMatchesDictionary
  BY DEF NavInv
<1> QED BY <1>1, NavigationInvariant, PTL

-----------------------------------------------------------------------------
(* That a page keeps its strings.                                          *)
(*                                                                         *)
(* A string that only the dictionary of the page before answers is lost    *)
(* with the next switch.  What rules that out is where the user is after   *)
(* at most one switch (Trail), and that every dictionary is the chunk of   *)
(* one context (Installed), so that a page whose context is current needs  *)
(* no other.                                                               *)

\* What a dictionary of the view may be: the chunk of a context is its file
\* payload or, after a load that failed, empty; the two dictionaries in use are
\* chunks of the Map.
Installed(v) ==
  /\ v.max = 0
  /\ \A c \in Contexts : v.chunk[c] \in {EmptyDict, File(c)}
  /\ hasChunk(v, v.current) /\ v.cached = v.chunk[v.current]
  /\ v.outgoing # NoDict => \E c \in Contexts : hasChunk(v, c) /\ v.outgoing = v.chunk[c]

\* A context is loaded once: not while its chunk is there.
LoadsMissing(v, loads) == \A c \in loads : ~hasChunk(v, c)

\* The continuations that are due come from one load, which is over.
DueFromOneLoad(v, due, loads) ==
  \A i \in DOMAIN due :
    /\ due[i].call.ctx \notin loads
    /\ due[i].data \in {EmptyDict, File(due[i].call.ctx)}
    /\ hasChunk(v, due[i].call.ctx) => v.chunk[due[i].call.ctx] = due[i].data
    /\ \A j \in DOMAIN due : due[j].call.ctx = due[i].call.ctx /\ due[j].data = due[i].data

\* Where the user is after at most one switch.  Without one the view is on the
\* current page; after one, made when no page was leaving, the page it left is
\* the oldest that leaves, and everything after it is the page of the view.
Trail ==
  /\ hops = 0 => view.current[2] = route[2]
  /\ hops <= 1 =>
       /\ pending # NoNavigation /\ pending.stage = "resolving" =>
            pending.to[2] = view.current[2]
       /\ leaving # <<>> => route[2] = view.current[2]
       /\ \A i \in DOMAIN leaving : i # 1 => leaving[i] = view.current[2]

\* The invariant under which a page keeps its strings.
PagesInv ==
  /\ NavInv
  /\ Installed(view)
  /\ LoadsMissing(view, fetching)
  /\ DueFromOneLoad(view, ready, fetching)
  /\ Trail

LEMMA SetUnbounded ==
  ASSUME NEW w, ChunksOK(w), w.max = 0, NEW c \in Contexts, NEW data \in Dicts
  PROVE  LET v == setChunk(w, c, data)
         IN  /\ ChunksOK(v) /\ v.max = 0 /\ v.chunk = [w.chunk EXCEPT ![c] = data]
             /\ v.cached = w.cached /\ v.outgoing = w.outgoing /\ v.current = w.current
             /\ \A d \in Contexts : hasChunk(v, d) <=> hasChunk(w, d) \/ d = c
<1> DEFINE order == With(w.order, c)
           chunk == [w.chunk EXCEPT ![c] = data]
           u     == [w EXCEPT !.order = order, !.chunk[c] = data]
           v     == setChunk(w, c, data)
<1>1. w \in Views /\ IsInjective(w.order) /\ w.chunk \in [Contexts -> Dicts]
  BY FieldTypes DEF ChunksOK, Listed
<1>2. /\ order \in Seq(Contexts) /\ IsInjective(order)
      /\ ToSet(order) = ToSet(w.order) \union {c}
  BY <1>1, FieldTypes, WithProperties
<1>3. u.order = order /\ u.chunk = chunk /\ u.max = 0
  BY <1>1 DEF Views
<1>4. Evicted(u, c) = {}
  BY <1>3 DEF Evicted
<1>5. v = evictChunks(u, c)
  BY DEF setChunk
<1> HIDE DEF u
<1>6. /\ v.order = Picked(order, DOMAIN order)
      /\ v.chunk = [d \in Contexts |-> chunk[d]]
  <2>1. DOMAIN order = {i \in DOMAIN order : order[i] \notin {}}
    OBVIOUS
  <2>2. u = [u EXCEPT !.order = u.order, !.chunk = u.chunk] /\ u \in Views
    <3>1. chunk \in [Contexts -> Dicts]
      BY <1>1
    <3> QED BY <1>1, <1>2, <3>1 DEF u, Views
  <2> HIDE DEF order, chunk
  <2> QED BY <1>3, <1>4, <1>5, <2>1, <2>2 DEF evictChunks, Views
<1>7. v.chunk = chunk
  BY <1>1, <1>6
<1>8. ToSet(v.order) = ToSet(order)
  <2>1. ToSet(Picked(order, DOMAIN order)) = {order[i] : i \in DOMAIN order}
    BY <1>2, PickedElements
  <2> QED BY <1>6, <2>1 DEF ToSet
<1>9. \A d \in Contexts : hasChunk(v, d) <=> hasChunk(w, d) \/ d = c
  BY <1>2, <1>8 DEF hasChunk
<1>10. /\ ChunksOK(v) /\ v.max = 0
       /\ v.cached = w.cached /\ v.outgoing = w.outgoing /\ v.current = w.current
  BY SetChunkKeeps DEF KeepsActive
<1> QED BY <1>7, <1>9, <1>10

LEMMA LoadedDicts ==
  ASSUME NEW c \in Contexts
  PROVE  /\ EmptyDict \in Dicts /\ File(c) \in Dicts
         /\ Merged(File(c), EmptyDict) = File(c)
<1>1. EmptyDict \in Dicts /\ File(c) \in Dicts
  BY EmptyIsDict, MadeForIsDict
<1>2. Merged(File(c), EmptyDict) = [l \in Leaves |-> File(c)[l]]
  BY DEF Merged, EmptyDict
<1>3. [l \in Leaves |-> File(c)[l]] = File(c)
  BY DEF File, Fragment
<1> QED BY <1>1, <1>2, <1>3

\* A chunk that is set for the first time changes no dictionary in use.
LEMMA NewChunk ==
  ASSUME NEW w, ChunksOK(w), Installed(w), NEW c \in Contexts, ~hasChunk(w, c),
         NEW data \in {EmptyDict, File(c)}
  PROVE  Installed(setChunk(w, c, data))
<1> DEFINE v == setChunk(w, c, data)
<1>1. data \in Dicts /\ w.max = 0 /\ w \in Views
  BY LoadedDicts DEF Installed, ChunksOK, Listed
<1>2. /\ v.max = 0 /\ v.chunk = [w.chunk EXCEPT ![c] = data]
      /\ v.cached = w.cached /\ v.outgoing = w.outgoing /\ v.current = w.current
      /\ \A d \in Contexts : hasChunk(v, d) <=> hasChunk(w, d) \/ d = c
  BY <1>1, SetUnbounded
<1> HIDE DEF v
<1>3. \A d \in Contexts : v.chunk[d] = IF d = c THEN data ELSE w.chunk[d]
  BY <1>1, <1>2, FieldTypes
<1>4. \A d \in Contexts : hasChunk(w, d) => hasChunk(v, d) /\ v.chunk[d] = w.chunk[d]
  BY <1>2, <1>3
<1>5. \A d \in Contexts : v.chunk[d] \in {EmptyDict, File(d)}
  BY <1>3 DEF Installed
<1>6. w.current \in Contexts
  <2>1. w.current \in ToSet(w.order)
    BY DEF Installed, hasChunk
  <2> QED BY <1>1, <2>1, FieldTypes DEF ToSet
<1>7. hasChunk(v, v.current) /\ v.cached = v.chunk[v.current]
  BY <1>2, <1>4, <1>6 DEF Installed
<1>8. v.outgoing # NoDict => \E d \in Contexts : hasChunk(v, d) /\ v.outgoing = v.chunk[d]
  BY <1>2, <1>4 DEF Installed
<1> QED BY <1>2, <1>5, <1>7, <1>8 DEF Installed, v

\* A switch to the chunk the Map has, or to one that a load has just brought.
LEMMA SwitchInstalls ==
  ASSUME NEW w, ChunksOK(w), Installed(w), w.current \in Contexts, NEW c \in Contexts,
         NEW data \in {EmptyDict, File(c)}, hasChunk(w, c) => w.chunk[c] = data
  PROVE  LET v == applySwitchContext(w, c, data)
         IN  /\ Installed(v) /\ ChunksOK(v) /\ v.current = c /\ v.cached = data
             /\ v.outgoing = IF LocaleOf(w.current) = LocaleOf(c) THEN w.cached ELSE NoDict
             /\ \A d \in Contexts : hasChunk(v, d) <=> hasChunk(w, d) \/ d = c
             /\ \A d \in Contexts : hasChunk(w, d) => v.chunk[d] = w.chunk[d]
             /\ v.chunk[c] = data
<1> DEFINE outgoing == IF LocaleOf(w.current) = LocaleOf(c) THEN w.cached ELSE NoDict
           u == [w EXCEPT !.outgoing = outgoing, !.cached = data, !.current = c]
           v == setChunk(u, c, data)
<1>1. w.current # NoContext /\ w \in Views /\ data \in Dicts
  BY NuxtI18nAssumption, LoadedDicts DEF ChunksOK, Listed
<1>2. applySwitchContext(w, c, data) = v
  BY <1>1 DEF applySwitchContext
<1>3. outgoing \in Dicts \union {NoDict}
  BY <1>1, FieldTypes
<1> HIDE DEF outgoing
<1>4. /\ u \in Views /\ u.order = w.order /\ u.chunk = w.chunk /\ u.max = w.max
      /\ u.cached = data /\ u.current = c /\ u.outgoing = outgoing
  BY <1>1, <1>3 DEF Views
<1> HIDE DEF u
<1>5. ChunksOK(u) /\ u.max = 0 /\ \A d : hasChunk(u, d) <=> hasChunk(w, d)
  BY <1>4, SameMap DEF hasChunk, Installed
<1>6. /\ ChunksOK(v) /\ v.max = 0 /\ v.chunk = [u.chunk EXCEPT ![c] = data]
      /\ v.cached = u.cached /\ v.outgoing = u.outgoing /\ v.current = u.current
      /\ \A d \in Contexts : hasChunk(v, d) <=> hasChunk(u, d) \/ d = c
  BY <1>1, <1>5, SetUnbounded
<1> HIDE DEF v
<1>7. \A d \in Contexts : v.chunk[d] = IF d = c THEN data ELSE w.chunk[d]
  BY <1>1, <1>4, <1>6, FieldTypes
<1>8. \A d \in Contexts : hasChunk(v, d) <=> hasChunk(w, d) \/ d = c
  BY <1>5, <1>6
<1>9. \A d \in Contexts : hasChunk(w, d) => v.chunk[d] = w.chunk[d]
  BY <1>7
<1>10. Installed(v)
  <2>1. \A d \in Contexts : v.chunk[d] \in {EmptyDict, File(d)}
    BY <1>7 DEF Installed
  <2>2. hasChunk(v, v.current) /\ v.cached = v.chunk[v.current]
    BY <1>4, <1>6, <1>7, <1>8
  <2>3. v.outgoing # NoDict => hasChunk(v, w.current) /\ v.outgoing = v.chunk[w.current]
    BY <1>4, <1>6, <1>8, <1>9 DEF outgoing, Installed
  <2> QED BY <1>6, <2>1, <2>2, <2>3 DEF Installed
<1> QED BY <1>2, <1>4, <1>6, <1>7, <1>8, <1>9, <1>10 DEF outgoing

\* A chunk of the Map is what a switch to its context installs.
LEMMA ChunkInstalls ==
  ASSUME NEW w, Installed(w), NEW c \in Contexts
  PROVE  getChunk(w, c) \in {EmptyDict, File(c)} /\ (hasChunk(w, c) => w.chunk[c] = getChunk(w, c))
  BY DEF Installed, getChunk

-----------------------------------------------------------------------------
(* Trail. *)

\* What any step does that leaves the route and the leaving pages alone, and
\* that switches the context n times.
LEMMA TrailStep ==
  ASSUME Types, Trail, NEW n \in 0..2, Hops(n), route' = route, leaving' = leaving,
         n = 0 => view'.current = view.current,
         pending' # NoNavigation /\ pending'.stage = "resolving" =>
           pending'.to[2] = view'.current[2] \/ n = 2 \/ (n = 0 /\ pending' = pending)
  PROVE  Trail'
<1> DEFINE more == IF n > 0 /\ leaving # <<>> THEN 2 ELSE n
           rest == AtRest' /\ view'.current[2] = route'[2]
<1>1. hops' = IF rest THEN 0 ELSE IF hops + more > 2 THEN 2 ELSE hops + more
  BY DEF Hops
<1>2. hops \in 0..2 /\ more \in 0..2
  BY DEF Types
<1>3. CASE rest
  BY <1>1, <1>3 DEF Trail, AtRest
<1>4. CASE ~rest /\ n = 0
  <2>1. hops' = hops
    BY <1>1, <1>2, <1>4
  <2> QED BY <1>4, <2>1 DEF Trail
<1>5. CASE ~rest /\ n # 0 /\ hops' <= 1
  <2>1. n = 1 /\ leaving = <<>> /\ hops' = 1
    BY <1>1, <1>2, <1>5
  <2> QED BY <2>1 DEF Trail
<1>6. CASE ~rest /\ hops' > 1
  BY <1>1, <1>2, <1>6 DEF Trail
<1>7. hops' <= 1 \/ hops' > 1
  BY <1>1, <1>2
<1> QED BY <1>3, <1>4, <1>5, <1>6, <1>7

LEMMA ArriveTrail ==
  ASSUME NavInv, Trail, Arrive
  PROVE  Trail'
<1>1. /\ pending # NoNavigation /\ pending.stage = "resolving"
      /\ route' = pending.to /\ pending' = NoNavigation /\ view' = view
      /\ leaving' = IF animated /\ pending.to # route THEN Append(leaving, route[2]) ELSE leaving
      /\ Hops(0)
  BY DEF Arrive
<1>2. hops \in 0..2 /\ leaving \in Seq(Pages)
  BY DEF NavInv, Types
<1>3. CASE AtRest' /\ view'.current[2] = route'[2]
  BY <1>1, <1>3 DEF Trail, AtRest, Hops
<1>4. CASE ~(AtRest' /\ view'.current[2] = route'[2])
  <2>1. hops' = hops
    BY <1>1, <1>2, <1>4 DEF Hops
  <2>2. CASE hops <= 1
    <3>1. route'[2] = view'.current[2]
      BY <1>1, <2>2 DEF Trail
    <3>2. \A i \in DOMAIN leaving' : i # 1 => leaving'[i] = view.current[2]
      <4>1. CASE leaving' = leaving
        BY <2>2, <4>1 DEF Trail
      <4>2. CASE leaving' = Append(leaving, route[2])
        <5>1. DOMAIN leaving' = 1..(Len(leaving) + 1) /\ Len(leaving) \in Nat
          BY <1>2, <4>2
        <5>2. \A i \in 1..Len(leaving) : leaving'[i] = leaving[i]
          BY <1>2, <4>2
        <5>3. leaving'[Len(leaving) + 1] = route[2]
          BY <1>2, <4>2
        <5>4. Len(leaving) + 1 # 1 => leaving # <<>>
          BY <1>2
        <5> QED BY <1>2, <2>2, <5>1, <5>2, <5>3, <5>4 DEF Trail
      <4> QED BY <1>1, <4>1, <4>2
    <3> QED BY <1>1, <3>1, <3>2 DEF Trail
  <2>3. CASE hops > 1
    BY <1>2, <2>1, <2>3 DEF Trail
  <2> QED BY <1>2, <2>2, <2>3
<1> QED BY <1>3, <1>4

LEMMA FinishTrail ==
  ASSUME NavInv, Trail, TransitionFinish
  PROVE  Trail'
<1>1. /\ leaving # <<>> /\ leaving' = Tail(leaving) /\ view' = finishTransition(view)
      /\ UNCHANGED <<route, pending>> /\ Hops(0)
  BY DEF TransitionFinish
<1>2. hops \in 0..2 /\ leaving \in Seq(Pages) /\ view'.current = view.current
  BY <1>1, FinishKeeps DEF NavInv, Types
<1>3. CASE AtRest' /\ view'.current[2] = route'[2]
  BY <1>1, <1>3 DEF Trail, AtRest, Hops
<1>4. CASE ~(AtRest' /\ view'.current[2] = route'[2])
  <2>1. hops' = hops
    BY <1>1, <1>2, <1>4 DEF Hops
  <2>2. \A i \in DOMAIN leaving' : i + 1 \in DOMAIN leaving /\ leaving'[i] = leaving[i + 1] /\ i + 1 # 1
    BY <1>1, <1>2
  <2> QED BY <1>1, <1>2, <2>1, <2>2 DEF Trail
<1> QED BY <1>3, <1>4

-----------------------------------------------------------------------------
(* The steps keep the invariant. *)

\* What the guard is given by its callers: a view whose context is switched
\* n times since the step began, and continuations whose chunk is there.
Hands(v, n, due) ==
  /\ ChunksOK(v) /\ v.current \in Contexts
  /\ Installed(v) /\ LoadsMissing(v, fetching) /\ DueFromOneLoad(v, due, fetching)
  /\ \A i \in DOMAIN due : due[i].call.ctx \in Contexts /\ hasChunk(v, due[i].call.ctx)
  /\ n = 0 => v = view

Pieces ==
  /\ Installed(view)
  /\ LoadsMissing(view, fetching)
  /\ DueFromOneLoad(view, ready, fetching)
  /\ Trail

LEMMA GuardPieces ==
  ASSUME Types, Trail, UNCHANGED <<route, leaving>>,
         NEW to \in Locations, NEW v, NEW locale \in Locales, NEW calls, NEW n \in 0..1,
         Hands(v, n, ready'), beforeEach(to, v, locale, calls, n)
  PROVE  Pieces'
<1> DEFINE target == contextOf(to, locale)
           here   == v.current = target
           data   == getChunk(v, target)
<1>1. target \in Contexts /\ target[2] = to[2]
  BY LocationContexts
<1>2. data \in {EmptyDict, File(target)} /\ (hasChunk(v, target) => v.chunk[target] = data)
  BY <1>1, ChunkInstalls DEF Hands
<1> HIDE DEF target, data
<1>3. CASE here /\ view' = v /\ pending' = [to |-> to, stage |-> "resolving"]
           /\ fetching' = fetching /\ Hops(n)
  <2>1. Trail'
    BY <1>1, <1>3, TrailStep DEF Hands
  <2> QED BY <1>3, <2>1 DEF Pieces, Hands, Installed, LoadsMissing, DueFromOneLoad
<1>4. CASE ~here /\ hasChunk(v, target) /\ view' = applySwitchContext(v, target, data)
           /\ pending' = [to |-> to, stage |-> "resolving"]
           /\ fetching' = fetching /\ Hops(n + 1)
  <2>1. /\ Installed(view') /\ view'.current = target
        /\ \A d \in Contexts : hasChunk(view', d) <=> hasChunk(v, d) \/ d = target
        /\ \A d \in Contexts : hasChunk(v, d) => view'.chunk[d] = v.chunk[d]
    BY <1>1, <1>2, <1>4, SwitchInstalls DEF Hands
  <2>2. \A d \in Contexts : hasChunk(view', d) <=> hasChunk(v, d)
    BY <1>1, <1>4, <2>1
  <2>3. Trail'
    <3>1. n + 1 \in 0..2 /\ n + 1 # 0
      OBVIOUS
    <3>2. pending'.to[2] = view'.current[2]
      BY <1>1, <1>4, <2>1
    <3> DEFINE m == n + 1
    <3>3. m \in 0..2 /\ m # 0 /\ Hops(m)
      BY <1>4, <3>1
    <3> HIDE DEF m
    <3> QED BY <3>2, <3>3, TrailStep
  <2>5. \A c \in fetching : ~hasChunk(view', c)
    <3>1. \A d : d \notin Contexts => ~hasChunk(view', d)
      <4>1. view' \in Views
        BY <1>1, <1>2, <1>4, LoadedDicts, SwitchKeeps DEF Hands, ChunksOK, Listed
      <4> QED BY <4>1, FieldTypes DEF hasChunk, ToSet
    <3> QED BY <2>2, <3>1 DEF Hands, LoadsMissing
  <2>6. DueFromOneLoad(view', ready', fetching')
    <3>1. \A i \in DOMAIN ready' :
            /\ ready'[i].call.ctx \in Contexts /\ hasChunk(v, ready'[i].call.ctx)
            /\ view'.chunk[ready'[i].call.ctx] = v.chunk[ready'[i].call.ctx]
      BY <2>1 DEF Hands
    <3> QED BY <1>4, <3>1 DEF Hands, DueFromOneLoad
  <2> QED BY <1>4, <2>1, <2>3, <2>5, <2>6 DEF Pieces, LoadsMissing, Installed, DueFromOneLoad
<1>5. CASE ~here /\ ~hasChunk(v, target) /\ view' = v
           /\ pending' = [to |-> to, stage |-> "guard"]
           /\ fetching' = fetching \union {target} /\ Hops(n)
  <2>1. Trail'
    BY <1>5, TrailStep DEF Hands
  <2>2. LoadsMissing(view', fetching')
    BY <1>5 DEF Hands, LoadsMissing
  <2>3. DueFromOneLoad(view', ready', fetching')
    BY <1>5 DEF Hands, DueFromOneLoad
  <2> QED BY <1>5, <2>1, <2>2, <2>3 DEF Pieces, Hands, Installed, LoadsMissing, DueFromOneLoad
<1>6. \/ /\ here \/ hasChunk(v, target)
         /\ view' = IF here THEN v ELSE applySwitchContext(v, target, data)
         /\ pending' = [to |-> to, stage |-> "resolving"]
         /\ fetching' = fetching
         /\ Hops(IF here THEN n ELSE n + 1)
      \/ /\ ~here /\ ~hasChunk(v, target) /\ view' = v
         /\ pending' = [to |-> to, stage |-> "guard"]
         /\ fetching' = fetching \union {target} /\ Hops(n)
  BY DEF beforeEach, Await, target, data
<1> HIDE DEF here
<1>7. CASE here
  BY <1>3, <1>6, <1>7
<1>8. CASE ~here
  BY <1>4, <1>5, <1>6, <1>8
<1> QED BY <1>7, <1>8

LEMMA PushPieces ==
  ASSUME Types, Trail, UNCHANGED <<route, leaving>>,
         NEW to \in Locations, NEW v, NEW locale \in Locales, NEW calls, NEW n \in 0..1,
         Hands(v, n, ready'), push(to, v, locale, calls, n)
  PROVE  Pieces'
<1>1. CASE to # route
  BY <1>1, GuardPieces DEF push
<1>2. CASE to = route
  <2>1. view' = v /\ pending' = NoNavigation /\ fetching' = fetching /\ Hops(n)
    BY <1>2 DEF push, Duplicate
  <2>2. Trail'
    BY <2>1, TrailStep DEF Hands
  <2> QED BY <2>1, <2>2 DEF Pieces, Hands, Installed, LoadsMissing, DueFromOneLoad
<1> QED BY <1>1, <1>2

LEMMA SwitchLogicPieces ==
  ASSUME Types, Trail, UNCHANGED <<route, leaving>>,
         NEW lang \in Locales, NEW v, NEW locale \in Locales, NEW calls, NEW n \in 0..1,
         Hands(v, n, ready'), switchLocaleLogic(lang, v, locale, calls, n)
  PROVE  Pieces'
<1>1. route \in Locations
  BY DEF Types
<1>2. CASE strategy = "no_prefix"
  <2>1. beforeEach(route, v, locale, calls, n)
    BY <1>2 DEF switchLocaleLogic, replace
  <2> QED BY <1>1, <2>1, GuardPieces
<1>3. CASE strategy # "no_prefix"
  <2>1. push(<<lang, route[2]>>, v, locale, calls, n)
    BY <1>3 DEF switchLocaleLogic
  <2>2. <<lang, route[2]>> \in Locations
    BY <1>1, <1>3, NavigationAssumption DEF Locations
  <2> QED BY <2>1, <2>2, PushPieces
<1> QED BY <1>2, <1>3

LEMMA FetchedContexts ==
  ASSUME NavInv
  PROVE  fetching \subseteq Contexts
<1>1. \A i \in DOMAIN waiting : waiting[i] \in Calls
  BY DEF NavInv, Types
<1> QED BY <1>1 DEF NavInv, ContextsOf, Calls

LEMMA UserPieces ==
  ASSUME PagesInv, Idle, ready' = ready
  PROVE  Hands(view, 0, ready')
  BY DEF PagesInv, NavInv, Types, Hands, Idle, DueFromOneLoad

LEMMA PushKeepsPieces ==
  ASSUME PagesInv, NEW to \in Locations, Push(to)
  PROVE  Pieces'
<1> DEFINE calls == Superseded(waiting)
<1>1. /\ Idle /\ UNCHANGED <<route, ready, leaving>>
      /\ push(to, view, localeState, calls, 0)
  BY DEF Push, MayCall
<1> HIDE DEF calls
<1>2. Types /\ Trail /\ localeState \in Locales /\ Hands(view, 0, ready') /\ 0 \in 0..1
  BY <1>1, UserPieces DEF PagesInv, NavInv, Types
<1> QED BY <1>1, <1>2, PushPieces

LEMMA SwitchLocaleKeepsPieces ==
  ASSUME PagesInv, NEW locale \in Locales, switchLocale(locale)
  PROVE  Pieces'
<1> DEFINE c == <<locale, route[2]>>
           calls == Superseded(waiting)
           data == getChunk(view, c)
<1>1. Idle /\ UNCHANGED <<strategy, animated, route, ready, leaving>>
  BY DEF switchLocale, MayCall
<1>2. /\ c \in Contexts /\ Types /\ Trail /\ Hands(view, 0, ready')
      /\ ChunksOK(view) /\ view.current \in Contexts /\ Installed(view)
  <2>1. route \in Contexts
    BY NavigationAssumption DEF PagesInv, NavInv, Types, Locations
  <2> QED BY <1>1, <2>1, UserPieces, NavigationAssumption DEF PagesInv, NavInv, Types
<1>3. data \in {EmptyDict, File(c)} /\ (hasChunk(view, c) => view.chunk[c] = data)
  BY <1>2, ChunkInstalls
<1> HIDE DEF data
<1>4. CASE strategy = "prefix" /\ switchLocaleLogic(locale, view, locale, calls, 0)
  <2> HIDE DEF calls
  <2> QED BY <1>1, <1>2, <1>4, SwitchLogicPieces
<1>5. CASE /\ strategy # "prefix" /\ hasChunk(view, c)
           /\ switchLocaleLogic(locale, applySwitchContext(view, c, data), locale, calls, 1)
  <2> DEFINE v == applySwitchContext(view, c, data)
  <2> HIDE DEF c
  <2>1. /\ Installed(v) /\ ChunksOK(v) /\ v.current = c
        /\ \A d \in Contexts : hasChunk(v, d) <=> hasChunk(view, d) \/ d = c
    BY <1>2, <1>3, SwitchInstalls
  <2>2. switchLocaleLogic(locale, v, locale, calls, 1)
    BY <1>5
  <2> HIDE DEF v, calls
  <2>3. LoadsMissing(v, fetching)
    BY <1>2, <1>5, <2>1, FetchedContexts DEF PagesInv, LoadsMissing
  <2>4. Hands(v, 1, ready')
    BY <1>1, <1>2, <2>1, <2>3 DEF Hands, Idle, DueFromOneLoad
  <2> QED BY <1>1, <1>2, <2>2, <2>4, SwitchLogicPieces
<1>6. CASE /\ ~hasChunk(view, c) /\ fetching' = fetching \union {c}
           /\ view' = view /\ pending' = pending /\ Hops(0)
  <2>1. Trail'
    BY <1>1, <1>2, <1>6, TrailStep
  <2>2. DueFromOneLoad(view', ready', fetching')
    BY <1>1 DEF DueFromOneLoad, Idle
  <2>3. LoadsMissing(view', fetching')
    BY <1>6 DEF PagesInv, LoadsMissing
  <2> QED BY <1>2, <1>6, <2>1, <2>2, <2>3 DEF Pieces, Installed, LoadsMissing, DueFromOneLoad
<1>7. \/ strategy = "prefix" /\ switchLocaleLogic(locale, view, locale, calls, 0)
      \/ /\ strategy # "prefix" /\ hasChunk(view, c)
         /\ switchLocaleLogic(locale, applySwitchContext(view, c, data), locale, calls, 1)
      \/ /\ ~hasChunk(view, c) /\ fetching' = fetching \union {c}
         /\ view' = view /\ pending' = pending /\ Hops(0)
  BY DEF switchLocale, Await, data
<1> QED BY <1>4, <1>5, <1>6, <1>7

\* The calls a load hands over all asked for its context.
LEMMA SettledCalls ==
  ASSUME NavInv, NEW c \in Contexts, NEW data, Settle(c, data)
  PROVE  /\ \A i \in DOMAIN ready' : ready'[i].call.ctx = c /\ ready'[i].data = data
         /\ fetching' = fetching \ {c} /\ c \in fetching
         /\ UNCHANGED <<route, pending, leaving>> /\ Hops(0)
<1> DEFINE mine == {i \in DOMAIN waiting : waiting[i].ctx = c}
           t    == Picked(waiting, mine)
<1>1. waiting \in Seq(Calls) /\ mine \in SUBSET DOMAIN waiting
  BY DEF NavInv, Types
<1>2. \A j \in DOMAIN t : \E i \in mine : t[j] = waiting[i]
  BY <1>1, PickedLive
<1>3. \A j \in DOMAIN t : t[j].ctx = c
  BY <1>2
<1> HIDE DEF mine, t
<1>4. /\ ready' = [i \in DOMAIN t |-> [call |-> t[i], data |-> data]]
      /\ fetching' = fetching \ {c} /\ c \in fetching
      /\ UNCHANGED <<route, pending, leaving>> /\ Hops(0)
  BY DEF Settle, mine, t
<1> QED BY <1>3, <1>4

LEMMA LoadKeepsPieces ==
  ASSUME PagesInv, NEW c \in Contexts, LoadDone(c) \/ LoadFailed(c)
  PROVE  Pieces' /\ view'.cached = view.cached /\ view'.outgoing = view.outgoing
<1>1. /\ NavInv /\ Types /\ Trail /\ ChunksOK(view) /\ Installed(view)
      /\ LoadsMissing(view, fetching)
  BY DEF PagesInv, NavInv, Types
<1>2. c \in fetching
  BY DEF LoadDone, LoadFailed, Settle
<1>3. ~hasChunk(view, c) /\ view.chunk[c] = EmptyDict
  BY <1>1, <1>2 DEF LoadsMissing, ChunksOK, Listed
<1>4. CASE LoadFailed(c)
  <2>1. Settle(c, EmptyDict) /\ view' = view
    BY <1>4 DEF LoadFailed
  <2>2. /\ \A i \in DOMAIN ready' : ready'[i].call.ctx = c /\ ready'[i].data = EmptyDict
        /\ fetching' = fetching \ {c} /\ UNCHANGED <<route, pending, leaving>> /\ Hops(0)
    BY <1>1, <2>1, SettledCalls
  <2>3. Trail'
    BY <1>1, <2>1, <2>2, TrailStep
  <2>4. DueFromOneLoad(view', ready', fetching')
    BY <1>3, <2>1, <2>2 DEF DueFromOneLoad
  <2>5. Installed(view') /\ LoadsMissing(view', fetching')
    BY <1>1, <2>1, <2>2 DEF LoadsMissing
  <2> QED BY <2>1, <2>3, <2>4, <2>5 DEF Pieces, Installed, LoadsMissing, DueFromOneLoad
<1>5. CASE LoadDone(c)
  <2>1. Settle(c, File(c)) /\ view' = setChunk(view, c, File(c))
    BY <1>3, <1>5, LoadedDicts DEF LoadDone, getChunk
  <2>2. /\ \A i \in DOMAIN ready' : ready'[i].call.ctx = c /\ ready'[i].data = File(c)
        /\ fetching' = fetching \ {c} /\ UNCHANGED <<route, pending, leaving>> /\ Hops(0)
    BY <1>1, <2>1, SettledCalls
  <2>3. /\ view'.chunk[c] = File(c)
        /\ view'.cached = view.cached /\ view'.outgoing = view.outgoing
        /\ view'.current = view.current
        /\ \A d \in Contexts : hasChunk(view', d) <=> hasChunk(view, d) \/ d = c
    <3>1. File(c) \in Dicts /\ view.max = 0 /\ view.chunk \in [Contexts -> Dicts]
      BY <1>1, LoadedDicts, FieldTypes DEF Installed, ChunksOK, Listed
    <3>2. /\ view'.chunk = [view.chunk EXCEPT ![c] = File(c)]
          /\ view'.cached = view.cached /\ view'.outgoing = view.outgoing
          /\ view'.current = view.current
          /\ \A d \in Contexts : hasChunk(view', d) <=> hasChunk(view, d) \/ d = c
      BY <1>1, <2>1, <3>1, SetUnbounded
    <3> QED BY <3>1, <3>2
  <2>4. Installed(view')
    BY <1>1, <1>3, <2>1, NewChunk
  <2>5. Trail'
    BY <1>1, <2>2, <2>3, TrailStep
  <2>6. DueFromOneLoad(view', ready', fetching')
    BY <2>2, <2>3 DEF DueFromOneLoad
  <2>7. LoadsMissing(view', fetching')
    BY <1>1, <2>2, <2>3, FetchedContexts DEF LoadsMissing
  <2> QED BY <2>3, <2>4, <2>5, <2>6, <2>7 DEF Pieces, Installed, LoadsMissing, DueFromOneLoad
<1> QED BY <1>4, <1>5

\* The continuation that runs switches to the chunk its load has brought.
LEMMA ResumedView ==
  ASSUME PagesInv, Resume
  PROVE  LET call == Head(ready).call
             data == Head(ready).data
             v    == applySwitchContext(view, call.ctx, data)
         IN  /\ call.ctx \in Contexts /\ call.ctx[1] \in Locales
             /\ data \in {EmptyDict, File(call.ctx)}
             /\ hasChunk(view, call.ctx) => view.chunk[call.ctx] = data
             /\ Installed(v) /\ ChunksOK(v) /\ v.current = call.ctx
             /\ LoadsMissing(v, fetching)
             /\ \A i \in DOMAIN ready :
                  /\ ready[i].call.ctx = call.ctx /\ ready[i].data = data
                  /\ call.ctx \notin fetching
             /\ hasChunk(v, call.ctx) /\ v.chunk[call.ctx] = data
<1> DEFINE call == Head(ready).call
           data == Head(ready).data
           v    == applySwitchContext(view, call.ctx, data)
<1>1. /\ ready # <<>> /\ call \in Calls /\ call.ctx[1] \in Locales
  BY ResumedCall DEF PagesInv
<1>2. ready \in Seq(Continuations) /\ 1 \in DOMAIN ready /\ Head(ready) = ready[1]
  BY <1>1 DEF PagesInv, NavInv, Types
<1>3. /\ call.ctx \notin fetching /\ data \in {EmptyDict, File(call.ctx)}
      /\ hasChunk(view, call.ctx) => view.chunk[call.ctx] = data
      /\ \A i \in DOMAIN ready : ready[i].call.ctx = call.ctx /\ ready[i].data = data
  BY <1>2 DEF PagesInv, DueFromOneLoad
<1>4. call.ctx \in Contexts
  BY <1>1 DEF Calls
<1> HIDE DEF call, data
<1>5. /\ Installed(v) /\ ChunksOK(v) /\ v.current = call.ctx
      /\ \A d \in Contexts : hasChunk(v, d) <=> hasChunk(view, d) \/ d = call.ctx
      /\ v.chunk[call.ctx] = data
  BY <1>3, <1>4, SwitchInstalls DEF PagesInv, NavInv, Types
<1> HIDE DEF v
<1>6. LoadsMissing(v, fetching)
  BY <1>3, <1>5, FetchedContexts DEF PagesInv, LoadsMissing
<1> QED BY <1>1, <1>3, <1>4, <1>5, <1>6 DEF call, data, v

LEMMA ResumeKeepsPieces ==
  ASSUME PagesInv, Resume
  PROVE  Pieces'
<1> DEFINE call == Head(ready).call
           data == Head(ready).data
           v    == applySwitchContext(view, call.ctx, data)
           t    == Tail(ready)
<1>1. /\ call.ctx \in Contexts /\ call.ctx[1] \in Locales /\ data \in {EmptyDict, File(call.ctx)}
      /\ Installed(v) /\ ChunksOK(v) /\ v.current = call.ctx
      /\ LoadsMissing(v, fetching)
      /\ \A i \in DOMAIN ready :
           /\ ready[i].call.ctx = call.ctx /\ ready[i].data = data /\ call.ctx \notin fetching
      /\ hasChunk(v, call.ctx) /\ v.chunk[call.ctx] = data
  BY ResumedView
<1>2. Types /\ Trail /\ NavInv /\ ready \in Seq(Continuations) /\ localeState \in Locales
  BY DEF PagesInv, NavInv, Types
<1>3. ready # <<>> /\ UNCHANGED <<route, leaving>>
  BY DEF Resume
<1>4. \A i \in DOMAIN t : i + 1 \in DOMAIN ready /\ t[i] = ready[i + 1]
  BY <1>2, <1>3
<1>5. \A i \in DOMAIN t : t[i].call.ctx = call.ctx /\ t[i].data = data /\ call.ctx \notin fetching
  BY <1>1, <1>4
<1>6. CASE call.by = "guard"
  <2>1. /\ view' = v /\ fetching' = fetching /\ ready' = t
        /\ pending' = IF call.live THEN [pending EXCEPT !.stage = "resolving"] ELSE pending
        /\ Hops(IF call.live THEN 1 ELSE 2)
    BY <1>6 DEF Resume, GuardResumes
  <2> HIDE DEF v, t, data
  <2>2. DueFromOneLoad(view', ready', fetching')
    BY <1>1, <1>5, <2>1 DEF DueFromOneLoad
  <2>3. Trail'
    <3>1. CASE ~call.live
      BY <1>2, <1>3, <2>1, <3>1, TrailStep
    <3>2. CASE call.live
      <4>1. call \in Calls /\ LiveGuard(call) /\ 1 \in DOMAIN ready /\ ready[1].call = call
        <5>1. Head(ready) \in Continuations /\ 1 \in DOMAIN ready /\ Head(ready) = ready[1]
          BY <1>2, <1>3, TailCalls
        <5> QED BY <1>6, <3>2, <5>1 DEF Continuations, LiveGuard
      <4>2. ~NoLive(CallsOf(ready))
        BY <4>1 DEF NoLive, CallsOf
      <4>3. PICK i \in DOMAIN ready :
              OnlyLive(CallsOf(ready), i) /\ AsksFor(ready[i].call, pending.to)
        BY <1>2, <4>2 DEF NavInv, GuardCalls
      <4>4. call.ctx[2] = pending.to[2] /\ AtGuard
        BY <1>1, <1>2, <4>2, <4>3 DEF AsksFor, NavInv, GuardCalls
      <4>5. pending \in Navigations
        BY <1>2, <4>4 DEF AtGuard, Types
      <4>6. pending'.to = pending.to
        BY <2>1, <3>2, <4>5 DEF Navigations
      <4>7. Hops(1)
        BY <2>1, <3>2
      <4> QED BY <1>1, <1>2, <1>3, <2>1, <4>4, <4>6, <4>7, TrailStep
    <3> QED BY <3>1, <3>2
  <2> QED BY <1>1, <2>1, <2>2, <2>3 DEF Pieces, Installed, LoadsMissing, DueFromOneLoad
<1>7. CASE call.by # "guard"
  <2> DEFINE dead(x) == Superseded(<<x>>)[1]
  <2>1. /\ ready' = [i \in DOMAIN t |-> [t[i] EXCEPT !.call = dead(t[i].call)]]
        /\ switchLocaleLogic(call.ctx[1], v, localeState, Superseded(waiting), 1)
    BY <1>7 DEF Resume, SwitchLocaleResumes
  <2>2. \A x \in Calls : dead(x).ctx = x.ctx
    <3> SUFFICES ASSUME NEW x \in Calls PROVE dead(x).ctx = x.ctx
      OBVIOUS
    <3>1. <<x>> \in Seq(Calls) /\ DOMAIN <<x>> = 1..1 /\ <<x>>[1] = x
      OBVIOUS
    <3>2. dead(x) = IF x.by = "guard" THEN [x EXCEPT !.live = FALSE] ELSE x
      <4> DEFINE s == <<x>>
      <4>1. 1 \in DOMAIN s /\ s[1] = x
        OBVIOUS
      <4> HIDE DEF s
      <4>2. Superseded(s)[1] = IF s[1].by = "guard" THEN [s[1] EXCEPT !.live = FALSE] ELSE s[1]
        BY <4>1 DEF Superseded
      <4> QED BY <4>1, <4>2 DEF s
    <3> QED BY <3>2 DEF Calls
  <2> HIDE DEF dead
  <2>3. \A i \in DOMAIN t : t[i] \in Continuations
    BY <1>2, <1>3
  <2>4. \A i \in DOMAIN ready' : ready'[i].call.ctx = call.ctx /\ ready'[i].data = data
    <3> HIDE DEF t, call, data
    <3> QED BY <1>5, <2>1, <2>2, <2>3 DEF Continuations
  <2>5. \A i \in DOMAIN ready' : call.ctx \notin fetching
    BY <1>5, <2>1
  <2> HIDE DEF v, t, data, call
  <2>6. DueFromOneLoad(v, ready', fetching)
    BY <1>1, <2>4, <2>5 DEF DueFromOneLoad
  <2>7. Hands(v, 1, ready')
    BY <1>1, <2>4, <2>6 DEF Hands
  <2> DEFINE calls == Superseded(waiting)
             lang  == call.ctx[1]
  <2>8. switchLocaleLogic(lang, v, localeState, calls, 1) /\ lang \in Locales /\ 1 \in 0..1
    BY <1>1, <2>1
  <2> HIDE DEF calls, lang
  <2> QED BY <1>1, <1>2, <1>3, <2>7, <2>8, SwitchLogicPieces
<1> QED BY <1>6, <1>7

LEMMA EndKeepsPieces ==
  ASSUME PagesInv, Arrive \/ Abort \/ TransitionFinish
  PROVE  Pieces'
<1>1. NavInv /\ Types /\ Trail /\ ChunksOK(view) /\ Installed(view)
  BY DEF PagesInv, NavInv, Types
<1>2. CASE Arrive
  <2>1. view' = view /\ fetching' = fetching /\ ready' = ready
    BY <1>2 DEF Arrive
  <2> QED BY <1>1, <1>2, <2>1, ArriveTrail
       DEF PagesInv, Pieces, Installed, LoadsMissing, DueFromOneLoad
<1>3. CASE Abort
  <2>1. /\ view' = view /\ fetching' = fetching /\ ready' = ready /\ UNCHANGED <<route, leaving>>
        /\ pending' = NoNavigation /\ Hops(0)
    BY <1>3 DEF Abort
  <2>2. Trail'
    BY <1>1, <2>1, TrailStep
  <2> QED BY <2>1, <2>2 DEF PagesInv, Pieces, Installed, LoadsMissing, DueFromOneLoad
<1>4. CASE TransitionFinish
  <2>1. view' = finishTransition(view) /\ fetching' = fetching /\ ready' = ready
    BY <1>4 DEF TransitionFinish
  <2>2. /\ view'.order = view.order /\ view'.chunk = view.chunk /\ view'.max = view.max
        /\ view'.cached = view.cached /\ view'.current = view.current
    BY <1>1, <2>1, FinishKeeps
  <2>3. view'.outgoing = NoDict
    BY <1>1, <2>1 DEF finishTransition, ChunksOK, Listed, Views
  <2>4. \A d : hasChunk(view', d) <=> hasChunk(view, d)
    BY <2>2 DEF hasChunk
  <2>5. Installed(view')
    BY <1>1, <2>2, <2>3, <2>4 DEF Installed
  <2>6. LoadsMissing(view', fetching') /\ DueFromOneLoad(view', ready', fetching')
    BY <2>1, <2>2, <2>4 DEF PagesInv, LoadsMissing, DueFromOneLoad
  <2> QED BY <1>1, <1>4, <2>5, <2>6, FinishTrail DEF Pieces, Installed, LoadsMissing, DueFromOneLoad
<1> QED BY <1>2, <1>3, <1>4

LEMMA PagesInit == Init => PagesInv
<1> SUFFICES ASSUME Init PROVE PagesInv
  OBVIOUS
<1> DEFINE c == <<localeState, route[2]>>
           w == NewView(0)
           u == [w EXCEPT !.outgoing = NoDict, !.cached = File(c), !.current = c]
<1>1. /\ route \in Locations /\ localeState \in Locales
      /\ view = applySwitchContext(w, c, File(c))
      /\ pending = NoNavigation /\ fetching = {} /\ ready = <<>> /\ leaving = <<>> /\ hops = 0
  BY DEF Init
<1>2. c \in Contexts /\ c[2] = route[2] /\ File(c) \in Dicts
  BY <1>1, NavigationAssumption, LoadedDicts DEF Locations
<1> HIDE DEF c
<1>3. ChunksOK(w) /\ w.max = 0 /\ w.current = NoContext /\ w.chunk = [d \in Contexts |-> EmptyDict]
  BY NewViewOK DEF NewView
<1> HIDE DEF w
<1>4. view = setChunk(u, c, File(c))
  BY <1>1, <1>3 DEF applySwitchContext
<1>5. /\ u \in Views /\ u.order = w.order /\ u.chunk = w.chunk /\ u.max = 0
      /\ u.cached = File(c) /\ u.current = c /\ u.outgoing = NoDict
  BY <1>2, <1>3 DEF ChunksOK, Listed, Views
<1> HIDE DEF u
<1>6. ChunksOK(u)
  BY <1>3, <1>5, SameMap
<1>7. /\ view.max = 0 /\ view.chunk = [u.chunk EXCEPT ![c] = File(c)]
      /\ view.cached = File(c) /\ view.outgoing = NoDict /\ view.current = c
      /\ hasChunk(view, c)
  BY <1>2, <1>4, <1>5, <1>6, SetUnbounded
<1>8. \A d \in Contexts : view.chunk[d] = IF d = c THEN File(c) ELSE EmptyDict
  BY <1>2, <1>3, <1>5, <1>7
<1>9. Installed(view)
  BY <1>2, <1>7, <1>8 DEF Installed
<1>10. LoadsMissing(view, fetching) /\ DueFromOneLoad(view, ready, fetching)
  BY <1>1 DEF LoadsMissing, DueFromOneLoad
<1>11. Trail
  BY <1>1, <1>2, <1>7 DEF Trail
<1> QED BY <1>9, <1>10, <1>11, NavInit DEF PagesInv

LEMMA PagesNext == PagesInv /\ [Next]_vars => PagesInv'
<1> SUFFICES ASSUME PagesInv, [Next]_vars PROVE PagesInv'
  OBVIOUS
<1>a. NavInv'
  BY NavNext DEF PagesInv
<1> SUFFICES Pieces'
  BY <1>a DEF PagesInv, Pieces, Installed, LoadsMissing, DueFromOneLoad, Trail
<1>1. ASSUME NEW to \in Locations, Push(to) PROVE Pieces'
  BY <1>1, PushKeepsPieces
<1>2. ASSUME NEW locale \in Locales, switchLocale(locale) PROVE Pieces'
  BY <1>2, SwitchLocaleKeepsPieces
<1>3. ASSUME NEW c \in Contexts, LoadDone(c) \/ LoadFailed(c) PROVE Pieces'
  BY <1>3, LoadKeepsPieces
<1>4. CASE Resume
  BY <1>4, ResumeKeepsPieces
<1>5. CASE Arrive \/ Abort \/ TransitionFinish
  BY <1>5, EndKeepsPieces
<1>6. CASE UNCHANGED vars
  <2>1. UNCHANGED <<view, route, pending, fetching, ready, leaving, hops>>
    BY <1>6 DEF vars, app
  <2> QED BY <2>1 DEF PagesInv, Pieces, Installed, LoadsMissing, DueFromOneLoad, Trail
<1> QED BY <1>1, <1>2, <1>3, <1>4, <1>5, <1>6 DEF Next

-----------------------------------------------------------------------------
(* What a step does to the strings that pages in the document show. *)

\* A page of the current locale shows its own string from the active
\* dictionary, or from the outgoing one, which then is its chunk; the page of
\* the current context from the active one.
LEMMA OwnStrings ==
  ASSUME PagesInv, NEW p \in Pages, NEW l \in Leaves, ShowsOwn(p, l)
  PROVE  LET e == <<LocaleOf(view.current), p>>
         IN  /\ view.cached[l] = Absent => 
                  /\ view.outgoing # NoDict /\ view.outgoing[l] # Absent
                  /\ e # view.current /\ hasChunk(view, e) /\ view.chunk[e][l] # Absent
             /\ e \in Contexts
<1> DEFINE e   == <<LocaleOf(view.current), p>>
           own == [ctx |-> e, by |-> "file"]
<1>1. /\ view \in Views /\ view.current \in Contexts /\ Installed(view)
  BY DEF PagesInv, NavInv, Types, ChunksOK, Listed
<1>2. e \in Contexts
  BY <1>1, NavigationAssumption DEF LocaleOf
<1>3. own \in Values /\ own # Absent /\ own.ctx = e
  BY <1>2, NothingAssumption DEF Values
<1>4. resolveLookup(view, l) = own
  BY DEF ShowsOwn
<1> HIDE DEF own, e
<1>5. ASSUME NEW c \in Contexts, view.chunk[c][l] = own PROVE c = e
  <2>1. view.chunk[c] = File(c)
    BY <1>1, <1>3, <1>5 DEF Installed, EmptyDict
  <2>2. File(c)[l] \in {Absent, [ctx |-> c, by |-> "file"]}
    BY DEF File, Fragment
  <2> QED BY <1>3, <1>5, <2>1, <2>2
<1>6. ASSUME view.cached[l] = Absent
      PROVE  /\ view.outgoing # NoDict /\ view.outgoing[l] # Absent
             /\ e # view.current /\ hasChunk(view, e) /\ view.chunk[e][l] # Absent
  <2>1. view.outgoing # NoDict /\ view.outgoing[l] = own
    BY <1>3, <1>4, <1>6 DEF resolveLookup
  <2>2. PICK c \in Contexts : hasChunk(view, c) /\ view.outgoing = view.chunk[c]
    BY <1>1, <2>1 DEF Installed
  <2>3. c = e
    BY <1>5, <2>1, <2>2
  <2>4. view.cached = view.chunk[view.current]
    BY <1>1 DEF Installed
  <2> QED BY <1>3, <1>6, <2>1, <2>2, <2>3, <2>4
<1> QED BY <1>2, <1>6 DEF e

LEMMA PagesAreStrings ==
  ASSUME PagesInv, NEW p \in Shown
  PROVE  p \in Pages
<1>1. route[2] \in Pages /\ leaving \in Seq(Pages)
  BY NavigationAssumption DEF PagesInv, NavInv, Types, Locations
<1> QED BY <1>1 DEF Shown, ToSet

\* The goal, of one page and one leaf.
Keeps(p, l) == ShowsOwn(p, l) => resolveLookup(view', l) # Absent

\* One switch, within one locale, when it is the only one under way.
LEMMA SwitchKeepsStrings ==
  ASSUME PagesInv, NEW c \in Contexts, NEW data \in {EmptyDict, File(c)},
         hasChunk(view, c) => view.chunk[c] = data,
         view' = applySwitchContext(view, c, data), UNCHANGED <<route, leaving>>,
         NEW n \in 1..2, Hops(n), hops' <= 1, LocaleOf(c) = LocaleOf(view.current),
         NEW p \in Shown, NEW l \in Leaves
  PROVE  Keeps(p, l)
<1> SUFFICES ASSUME ShowsOwn(p, l) PROVE resolveLookup(view', l) # Absent
  BY DEF Keeps
<1> DEFINE e == <<LocaleOf(view.current), p>>
<1>1. /\ ChunksOK(view) /\ view.current \in Contexts /\ Installed(view) /\ Trail
      /\ hops \in 0..2 /\ leaving \in Seq(Pages) /\ view \in Views
  BY DEF PagesInv, NavInv, Types, ChunksOK, Listed
<1>2. /\ view'.current = c /\ view'.cached = data /\ view'.outgoing = view.cached
  BY <1>1, SwitchInstalls
<1>3. /\ e \in Contexts
      /\ view.cached[l] = Absent => e # view.current /\ hasChunk(view, e) /\ view.chunk[e][l] # Absent
  BY PagesAreStrings, OwnStrings
<1>4. view.cached # NoDict
  BY <1>1, FieldTypes, NothingAssumption
<1>5. CASE view.cached[l] # Absent
  BY <1>2, <1>4, <1>5 DEF resolveLookup
<1>6. CASE view.cached[l] = Absent
  <2>1. view.current = <<view.current[1], view.current[2]>> /\ c = <<c[1], c[2]>>
    BY <1>1, ContextParts
  <2>2. CASE AtRest' /\ view'.current[2] = route'[2]
    <3>1. p = route[2]
      BY <2>2 DEF AtRest, Shown, ToSet
    <3>2. c = e
      BY <1>2, <2>1, <2>2, <3>1 DEF LocaleOf
    <3> QED BY <1>2, <1>3, <1>6, <3>2 DEF resolveLookup
  <2>3. CASE ~(AtRest' /\ view'.current[2] = route'[2])
    <3>1. hops = 0 /\ leaving = <<>>
      <4> DEFINE more == IF n > 0 /\ leaving # <<>> THEN 2 ELSE n
      <4>1. hops' = IF hops + more > 2 THEN 2 ELSE hops + more
        BY <2>3 DEF Hops
      <4> QED BY <1>1, <4>1
    <3>2. p = route[2] /\ view.current[2] = route[2]
      BY <1>1, <3>1 DEF Shown, ToSet, Trail
    <3>3. e = view.current
      BY <2>1, <3>2 DEF LocaleOf
    <3> QED BY <1>3, <1>6, <3>3
  <2> QED BY <2>2, <2>3
<1> QED BY <1>5, <1>6

\* A step that leaves both dictionaries alone.
LEMMA SameKeepsStrings ==
  ASSUME NEW p, NEW l, view'.cached = view.cached, view'.outgoing = view.outgoing,
         PagesInv, p \in Pages, l \in Leaves
  PROVE  Keeps(p, l)
<1>1. ShowsOwn(p, l) => resolveLookup(view, l) # Absent
  BY OwnStrings DEF resolveLookup
<1> QED BY <1>1 DEF Keeps, resolveLookup

\* The guard as its callers hand it a view that is switched n times: when it
\* switches once more, that is the second switch.
LEMMA GuardKeepsStrings ==
  ASSUME PagesInv, UNCHANGED <<route, leaving>>,
         NEW to \in Locations, NEW locale \in Locales, NEW v, NEW calls, NEW n \in 0..1,
         beforeEach(to, v, locale, calls, n), n = 0 => v = view,
         hops' <= 1, LocaleOf(view'.current) = LocaleOf(view.current),
         NEW p \in Shown, NEW l \in Leaves, view' # v
  PROVE  Keeps(p, l)
<1> DEFINE target == contextOf(to, locale)
           here   == v.current = target
           data   == getChunk(v, target)
<1>1. /\ ~here /\ view' = applySwitchContext(v, target, data)
      /\ pending' = [to |-> to, stage |-> "resolving"]
      /\ Hops(n + 1) /\ hasChunk(v, target)
  BY DEF beforeEach
<1>2. target \in Contexts
  BY LocationContexts
<1> HIDE DEF target, data
<1>3. hops \in 0..2 /\ ChunksOK(view) /\ view.current \in Contexts /\ Installed(view)
  BY DEF PagesInv, NavInv, Types
<1>4. CASE n = 1
  <2>1. ~AtRest'
    BY <1>1, NavigationRecord DEF AtRest
  <2>2. Hops(2)
    BY <1>1, <1>4
  <2>3. hops' = 2
    BY <1>3, <2>1, <2>2 DEF Hops
  <2> QED BY <2>3
<1>5. CASE n = 0
  <2>1. data \in {EmptyDict, File(target)} /\ (hasChunk(view, target) => view.chunk[target] = data)
    BY <1>2, <1>3, <1>5, ChunkInstalls DEF data
  <2>2. view' = applySwitchContext(view, target, data)
    BY <1>1, <1>5
  <2>3. LocaleOf(target) = LocaleOf(view.current)
    BY <1>2, <1>3, <2>1, <2>2, SwitchInstalls
  <2>4. Hops(1) /\ 1 \in 1..2
    BY <1>1, <1>5
  <2> QED BY <1>2, <2>1, <2>2, <2>3, <2>4, SwitchKeepsStrings
<1> QED BY <1>4, <1>5

LEMMA LogicKeepsStrings ==
  ASSUME PagesInv, UNCHANGED <<route, leaving>>,
         NEW lang \in Locales, NEW locale \in Locales, NEW v, NEW calls, NEW n \in 0..1,
         switchLocaleLogic(lang, v, locale, calls, n), n = 0 => v = view,
         hops' <= 1, LocaleOf(view'.current) = LocaleOf(view.current),
         NEW p \in Shown, NEW l \in Leaves
  PROVE  /\ view' # v => Keeps(p, l)
         /\ Hops(n) \/ Hops(n + 1)
<1>1. route \in Locations /\ <<lang, route[2]>> \in Contexts
  BY NavigationAssumption DEF PagesInv, NavInv, Types, Locations
<1>2. PICK to \in Locations : beforeEach(to, v, locale, calls, n) \/ Duplicate(v, locale, calls, n)
  <2>1. CASE strategy = "no_prefix"
    BY <1>1, <2>1 DEF switchLocaleLogic, replace
  <2>2. CASE strategy # "no_prefix"
    BY <1>1, <2>2 DEF switchLocaleLogic, push, Locations
  <2> QED BY <2>1, <2>2
<1>3. Hops(n) \/ Hops(n + 1)
  BY <1>2 DEF beforeEach, Duplicate
<1>4. view' # v => Keeps(p, l)
  <2>1. Duplicate(v, locale, calls, n) => view' = v
    BY DEF Duplicate
  <2> QED BY <1>2, <2>1, GuardKeepsStrings
<1> QED BY <1>3, <1>4

LEMMA StepKeepsStrings ==
  ASSUME PagesInv, [Next]_vars, hops' <= 1, LocaleOf(view'.current) = LocaleOf(view.current),
         NEW p \in Shown \intersect Shown', NEW l \in Leaves
  PROVE  Keeps(p, l)
<1>1. /\ p \in Pages /\ NavInv /\ Types /\ ChunksOK(view) /\ view.current \in Contexts
      /\ Installed(view) /\ Trail /\ localeState \in Locales /\ route \in Contexts
  BY PagesAreStrings, NavigationAssumption DEF PagesInv, NavInv, Types, Locations
<1> USE DEF Hops
<1>2. ASSUME view' = view PROVE Keeps(p, l)
  BY <1>1, <1>2, SameKeepsStrings
<1>3. ASSUME NEW to \in Locations, Push(to) PROVE Keeps(p, l)
  <2> DEFINE calls == Superseded(waiting)
  <2>1. push(to, view, localeState, calls, 0) /\ UNCHANGED <<route, leaving>> /\ 0 \in 0..1
    BY <1>3 DEF Push
  <2> HIDE DEF calls
  <2>2. beforeEach(to, view, localeState, calls, 0) \/ view' = view
    BY <2>1 DEF push, Duplicate
  <2> QED BY <1>1, <1>2, <2>1, <2>2, GuardKeepsStrings
<1>4. ASSUME NEW locale \in Locales, switchLocale(locale) PROVE Keeps(p, l)
  <2> DEFINE calls == Superseded(waiting)
             c     == <<locale, route[2]>>
             data  == getChunk(view, c)
             v     == applySwitchContext(view, c, data)
  <2>1. UNCHANGED <<route, leaving>> /\ 0 \in 0..1 /\ 1 \in 0..1
    BY <1>4 DEF switchLocale
  <2>2. \/ switchLocaleLogic(locale, view, locale, calls, 0)
        \/ hasChunk(view, c) /\ switchLocaleLogic(locale, v, locale, calls, 1)
        \/ view' = view
    BY <1>4 DEF switchLocale
  <2>3. c \in Contexts
    BY <1>1, NavigationAssumption
  <2>4. data \in {EmptyDict, File(c)} /\ (hasChunk(view, c) => view.chunk[c] = data)
    BY <1>1, <2>3, ChunkInstalls
  <2> HIDE DEF calls, c, data, Hops
  <2>5. v.current = c
    BY <1>1, <2>3, <2>4, SwitchInstalls
  <2> HIDE DEF v
  <2>6. CASE switchLocaleLogic(locale, view, locale, calls, 0)
    BY <1>2, <2>1, <2>6, LogicKeepsStrings
  <2>7. CASE switchLocaleLogic(locale, v, locale, calls, 1)
    <3>1. (view' # v => Keeps(p, l)) /\ (Hops(1) \/ Hops(1 + 1))
      BY <2>1, <2>7, LogicKeepsStrings
    <3>2. CASE view' = v
      <4>1. LocaleOf(c) = LocaleOf(view.current) /\ 1 \in 1..2 /\ 2 \in 1..2 /\ 1 + 1 = 2
        BY <2>5, <3>2
      <4> QED BY <2>1, <2>3, <2>4, <3>1, <3>2, <4>1, SwitchKeepsStrings DEF v
    <3> QED BY <3>1, <3>2
  <2> QED BY <1>2, <2>2, <2>6, <2>7
<1>5. ASSUME NEW c \in Contexts, LoadDone(c) \/ LoadFailed(c) PROVE Keeps(p, l)
  <2>1. view'.cached = view.cached /\ view'.outgoing = view.outgoing
    BY <1>5, LoadKeepsPieces
  <2> QED BY <1>1, <2>1, SameKeepsStrings
<1>6. ASSUME Resume PROVE Keeps(p, l)
  <2> DEFINE call  == Head(ready).call
             c     == call.ctx
             data  == Head(ready).data
             v     == applySwitchContext(view, c, data)
             calls == Superseded(waiting)
  <2>1. /\ c \in Contexts /\ c[1] \in Locales /\ data \in {EmptyDict, File(c)} /\ v.current = c
        /\ hasChunk(view, c) => view.chunk[c] = data
    BY <1>6, ResumedView
  <2>2. UNCHANGED <<route, leaving>> /\ 1 \in 0..1 /\ 1 \in 1..2 /\ 2 \in 1..2 /\ 1 + 1 = 2
    BY <1>6 DEF Resume
  <2> HIDE DEF Hops
  <2>3. \/ view' = v /\ (Hops(1) \/ Hops(2))
        \/ switchLocaleLogic(c[1], v, localeState, calls, 1)
    BY <1>6 DEF Resume, GuardResumes, SwitchLocaleResumes
  <2> DEFINE lang == c[1]
  <2>4. lang \in Locales
    BY <2>1
  <2>5. ASSUME view' = v, Hops(1) \/ Hops(2) PROVE Keeps(p, l)
    <3>1. LocaleOf(c) = LocaleOf(view.current)
      BY <2>1, <2>5
    <3> HIDE DEF c, data
    <3> QED BY <2>1, <2>2, <2>5, <3>1, SwitchKeepsStrings
  <2>6. CASE switchLocaleLogic(lang, v, localeState, calls, 1)
    <3> HIDE DEF v, calls, lang
    <3>1. (view' # v => Keeps(p, l)) /\ (Hops(1) \/ Hops(1 + 1))
      BY <1>1, <2>2, <2>4, <2>6, LogicKeepsStrings
    <3> QED BY <2>2, <2>5, <3>1
  <2> QED BY <2>3, <2>5, <2>6
<1>7. ASSUME Arrive \/ Abort PROVE Keeps(p, l)
  BY <1>2, <1>7 DEF Arrive, Abort
<1>8. ASSUME TransitionFinish PROVE Keeps(p, l)
  <2> SUFFICES ASSUME ShowsOwn(p, l) PROVE resolveLookup(view', l) # Absent
    BY DEF Keeps
  <2>1. /\ leaving # <<>> /\ leaving' = Tail(leaving) /\ route' = route
        /\ view' = finishTransition(view) /\ Hops(0)
    BY <1>8 DEF TransitionFinish
  <2>2. view'.cached = view.cached /\ view'.current = view.current
    BY <1>1, <2>1, FinishKeeps
  <2>3. view'.outgoing = NoDict
    BY <1>1, <2>1 DEF finishTransition, ChunksOK, Listed, Views
  <2>4. SUFFICES ASSUME view.cached[l] = Absent PROVE FALSE
    BY <2>2, <2>3 DEF resolveLookup
  <2>5. <<LocaleOf(view.current), p>> # view.current
    BY <1>1, <2>4, OwnStrings
  <2>6. p # view.current[2]
    BY <1>1, <2>5, ContextParts DEF LocaleOf
  <2>7. hops \in 0..2 /\ leaving \in Seq(Pages)
    BY <1>1 DEF Types
  <2>8. CASE AtRest' /\ view'.current[2] = route'[2]
    <3>1. p = view.current[2]
      BY <2>2, <2>8 DEF AtRest, Shown, ToSet
    <3> QED BY <2>6, <3>1
  <2>9. CASE ~(AtRest' /\ view'.current[2] = route'[2])
    <3>1. hops <= 1
      BY <2>1, <2>7, <2>9
    <3>2. p = route[2] \/ \E i \in DOMAIN leaving : i # 1 /\ p = leaving[i]
      <4>1. \A i \in DOMAIN leaving' : i + 1 \in DOMAIN leaving /\ leaving'[i] = leaving[i + 1] /\ i + 1 # 1
        BY <2>1, <2>7
      <4>2. p = route'[2] \/ \E i \in DOMAIN leaving' : p = leaving'[i]
        BY DEF Shown, ToSet
      <4> QED BY <2>1, <4>1, <4>2
    <3> QED BY <1>1, <2>1, <2>6, <3>1, <3>2 DEF Trail
  <2> QED BY <2>8, <2>9
<1>9. CASE UNCHANGED vars
  BY <1>2, <1>9 DEF vars, app
<1> QED BY <1>3, <1>4, <1>5, <1>6, <1>7, <1>8, <1>9 DEF Next

\* Every dictionary in use is the chunk of one context, a context is loaded
\* once, and after at most one switch the pages in the document are the one it
\* left and the one it went to.
THEOREM NavigationPages == Spec => []PagesInv
  BY PagesInit, PagesNext, PTL DEF Spec

\* A page in the document keeps its strings while the next one comes in, as
\* long as that switch is the only one under way (applySwitchContext,
\* finishTransition, the guard and $switchLocale).
THEOREM NavigationKeepsStrings == Spec => PagesKeepStrings
<1> DEFINE Kept == hops' <= 1 /\ LocaleOf(view'.current) = LocaleOf(view.current) =>
       \A p \in Shown \intersect Shown', l \in Leaves :
         ShowsOwn(p, l) => resolveLookup(view', l) # Absent
<1>1. PagesInv /\ [Next]_vars => [Kept]_vars
  BY StepKeepsStrings DEF Keeps
<1>2. Spec => [][Kept]_vars
  BY <1>1, NavigationPages, PTL DEF Spec
<1> QED BY <1>2 DEF PagesKeepStrings

=============================================================================
