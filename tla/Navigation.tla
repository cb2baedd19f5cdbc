----------------------------- MODULE Navigation -----------------------------
(***************************************************************************)
(* A user who follows links and switches the locale while translations are *)
(* on their way: the navigation guard of src/runtime/plugins/01.plugin.ts, *)
(* the locale state of src/runtime/composables/useI18nLocale.ts and        *)
(* $switchLocale of src/runtime/utils/nuxt-i18n.ts, on the view layer.     *)
(*                                                                         *)
(* vue-router is modelled from how the plugin uses it.  A navigation runs  *)
(* the guard and, when that has returned, may arrive (the current route    *)
(* changes) or be aborted by a later guard.  A newer navigation supersedes *)
(* it: its guard still runs to its end, but it never arrives.  A push to   *)
(* the current route runs no guard and supersedes all the same.            *)
(*                                                                         *)
(* A location is a <<locale, page>>; without a prefix the URL carries the  *)
(* page only, and the first component is DefaultLocale throughout.  The    *)
(* chunk Map is unbounded here (the loader's module has the bounded one),  *)
(* so that a chunk in the storage cache is also in the Map.                *)
(***************************************************************************)
EXTENDS NuxtI18n

CONSTANTS
  Locales, Pages,
  DefaultLocale,
  Strategies,    \* a subset of "prefix", "no_prefix", "hash"
  NoNavigation,
  MayAbort,      \* whether the application has guards that end navigations
  MaxWaiting,    \* bound: calls that wait for a load at the same time
  MaxLeaving     \* bound: pages whose leave transition runs at the same time

ASSUME NavigationAssumption ==
  /\ Contexts = Locales \X Pages
  /\ DefaultLocale \in Locales
  /\ Strategies \subseteq {"prefix", "no_prefix", "hash"}
  /\ NoNavigation \notin [to : Contexts, stage : {"guard", "resolving"}]
  /\ MayAbort \in BOOLEAN
  /\ MaxWaiting \in Nat \ {0}
  /\ MaxLeaving \in Nat \ {0}

VARIABLES
  strategy,     \* module option, never changed ("hash": hashMode)
  animated,     \* whether the application has page transitions
  view,         \* the NuxtI18n instance
  localeState,  \* useState('i18n-locale'), mirrored in the cookie
  route,        \* router.currentRoute
  pending,      \* the navigation in progress and the stage it is in
  fetching,     \* contexts whose payload is on its way (pendingLoads)
  waiting,      \* calls that await a load, oldest first
  ready,        \* continuations to run, with the data their load resolved to
  leaving,      \* pages whose leave transition runs, oldest first
  disturbed,    \* history: something other than the latest navigation that
                \* passed its guard has moved the view or the locale since
  hops          \* history: applySwitchContext calls since the last rest, up to 2

app     == <<view, localeState, pending, fetching, waiting, ready>>
vars    == <<strategy, animated, app, route, leaving, disturbed, hops>>

Calls == [by : {"guard", "switchLocale"}, ctx : Contexts, live : BOOLEAN]

Locations ==
  IF strategy = "no_prefix" THEN {DefaultLocale} \X Pages ELSE Contexts

\* getEffectiveLocale and getPluginRouteName of a location, with the locale
\* state `locale`: the URL decides under a prefix strategy only.
contextOf(to, locale) ==
  <<IF strategy = "prefix" THEN to[1] ELSE locale, to[2]>>

Idle == ready = <<>>

\* Nothing moves: no navigation, no load, no transition.
AtRest == pending = NoNavigation /\ waiting = <<>> /\ ready = <<>> /\ leaving = <<>>

\* Counts n more context switches.  A switch made while a page leaves, or for
\* a superseded navigation, counts twice; at rest on the current page the count starts again.
Hops(n) ==
  LET more == IF n > 0 /\ leaving # <<>> THEN 2 ELSE n
  IN  hops' = IF AtRest' /\ view'.current[2] = route'[2] THEN 0
              ELSE IF hops + more > 2 THEN 2 ELSE hops + more

\* The page is rendered by the server or the client loads its first context;
\* a locale set beforehand wins over the one in the URL (resolveInitialLocale).
Init ==
  /\ strategy \in Strategies
  /\ animated \in BOOLEAN
  /\ route \in Locations
  /\ localeState \in Locales
  /\ LET c == <<localeState, route[2]>>
     IN  view = applySwitchContext(NewView(0), c, File(c))
  /\ disturbed = (contextOf(route, localeState) # view.current)
  /\ pending = NoNavigation
  /\ fetching = {}
  /\ waiting = <<>> /\ ready = <<>> /\ leaving = <<>>
  /\ hops = 0

-----------------------------------------------------------------------------
\* What is left of the calls when their navigation is superseded: the guard
\* goes on, for a navigation that will not arrive.
Superseded(calls) ==
  [i \in DOMAIN calls |->
     IF calls[i].by = "guard" THEN [calls[i] EXCEPT !.live = FALSE] ELSE calls[i]]

\* loadAsync(c) on behalf of `call`: joins the load of c that is pending.
Await(calls, call) ==
  /\ waiting' = Append(calls, call)
  /\ fetching' = fetching \union {call.ctx}

\* Mutant of beforeEach: compares the locale and not the route name.
GuardComparesLocale(to, v, locale, calls, n) ==
  LET target == contextOf(to, locale)
      here   == v.current[1] = target[1]
  IN  \/ /\ here \/ hasChunk(v, target)
         /\ view' = IF here THEN v ELSE applySwitchContext(v, target, getChunk(v, target))
         /\ localeState' = target[1]
         /\ pending' = [to |-> to, stage |-> "resolving"]
         /\ waiting' = calls /\ UNCHANGED fetching
         /\ disturbed' = FALSE
         /\ Hops(IF here THEN n ELSE n + 1)
      \/ /\ ~here /\ ~hasChunk(v, target)
         /\ view' = v
         /\ localeState' = locale
         /\ pending' = [to |-> to, stage |-> "guard"]
         /\ Await(calls, [by |-> "guard", ctx |-> target, live |-> TRUE])
         /\ disturbed' = (disturbed \/ locale # localeState)
         /\ Hops(n)

\* router.beforeEach of the plugin, up to its await: a navigation to `to`
\* begins, with the view v, the locale state `locale` and the waiting calls
\* as the caller leaves them after n context switches of its own.
beforeEach(to, v, locale, calls, n) ==
  LET target == contextOf(to, locale)
      here   == v.current = target
  IN  \/ /\ here \/ hasChunk(v, target)
         /\ view' = IF here THEN v ELSE applySwitchContext(v, target, getChunk(v, target))
         /\ localeState' = target[1]
         /\ pending' = [to |-> to, stage |-> "resolving"]
         /\ waiting' = calls /\ UNCHANGED fetching
         /\ disturbed' = FALSE
         /\ Hops(IF here THEN n ELSE n + 1)
      \/ /\ ~here /\ ~hasChunk(v, target)
         /\ view' = v
         /\ localeState' = locale
         /\ pending' = [to |-> to, stage |-> "guard"]
         /\ Await(calls, [by |-> "guard", ctx |-> target, live |-> TRUE])
         /\ disturbed' = (disturbed \/ locale # localeState)
         /\ Hops(n)

\* A push to the current route: no guard runs, a pending navigation is lost.
Duplicate(v, locale, calls, n) ==
  /\ view' = v
  /\ localeState' = locale
  /\ pending' = NoNavigation
  /\ waiting' = calls /\ UNCHANGED fetching
  /\ disturbed' = TRUE
  /\ Hops(n)

\* router.push(to).
push(to, v, locale, calls, n) ==
  IF to = route THEN Duplicate(v, locale, calls, n)
                ELSE beforeEach(to, v, locale, calls, n)

\* router.replace(current route, force): the guard runs, the URL stays.
replace(v, locale, calls, n) == beforeEach(route, v, locale, calls, n)

\* The end of $switchLocale(locale): go to the current page in that locale.
switchLocaleLogic(locale, v, state, calls, n) ==
  IF strategy = "no_prefix" THEN replace(v, state, calls, n)
                            ELSE push(<<locale, route[2]>>, v, state, calls, n)

-----------------------------------------------------------------------------
MayCall ==
  /\ Idle
  /\ Len(waiting) < MaxWaiting
  /\ Len(leaving) < MaxLeaving

\* The user follows a link.
Push(to) ==
  /\ MayCall
  /\ UNCHANGED <<strategy, animated, route, ready, leaving>>
  /\ push(to, view, localeState, Superseded(waiting), 0)

\* $switchLocale(locale).  The URL has the locale under a prefix strategy;
\* otherwise the context is switched here, before the navigation begins.
switchLocale(locale) ==
  /\ MayCall
  /\ UNCHANGED <<strategy, animated, route, ready, leaving>>
  /\ LET c == <<locale, route[2]>>
     IN  \/ /\ strategy = "prefix"
            /\ switchLocaleLogic(locale, view, locale, Superseded(waiting), 0)
         \/ /\ strategy # "prefix" /\ hasChunk(view, c)
            /\ switchLocaleLogic(locale, applySwitchContext(view, c, getChunk(view, c)),
                                 locale, Superseded(waiting), 1)
         \/ /\ strategy # "prefix" /\ ~hasChunk(view, c)
            /\ localeState' = locale
            /\ Await(waiting, [by |-> "switchLocale", ctx |-> c, live |-> TRUE])
            /\ disturbed' = TRUE
            /\ UNCHANGED <<view, pending>>
            /\ Hops(0)

\* Mutant of Settle: the entry of the load stays in pendingLoads.
SettleKeepsPending(c, data) ==
  /\ c \in fetching
  /\ LET mine == Picked(waiting, {i \in DOMAIN waiting : waiting[i].ctx = c})
     IN  ready' = [i \in DOMAIN mine |-> [call |-> mine[i], data |-> data]]
  /\ waiting' = Picked(waiting, {i \in DOMAIN waiting : waiting[i].ctx # c})
  /\ UNCHANGED <<strategy, animated, localeState, route, pending, fetching, leaving, disturbed>>
  /\ Hops(0)

\* The load of c ends: the calls that await it become ready, in their order.
Settle(c, data) ==
  /\ c \in fetching
  /\ fetching' = fetching \ {c}
  /\ LET mine == Picked(waiting, {i \in DOMAIN waiting : waiting[i].ctx = c})
     IN  ready' = [i \in DOMAIN mine |-> [call |-> mine[i], data |-> data]]
  /\ waiting' = Picked(waiting, {i \in DOMAIN waiting : waiting[i].ctx # c})
  /\ UNCHANGED <<strategy, animated, localeState, route, pending, leaving, disturbed>>
  /\ Hops(0)

LoadDone(c) ==
  /\ Idle
  /\ Settle(c, Merged(File(c), getChunk(view, c)))
  /\ view' = setChunk(view, c, Merged(File(c), getChunk(view, c)))

\* Mutant of LoadFailed: the callers of a load that fails are forgotten.
FailureForgetsCallers(c) ==
  /\ Idle /\ c \in fetching
  /\ fetching' = fetching \ {c}
  /\ waiting' = Picked(waiting, {i \in DOMAIN waiting : waiting[i].ctx # c})
  /\ UNCHANGED <<strategy, animated, view, localeState, route, pending, ready, leaving, disturbed>>
  /\ Hops(0)

\* A load that fails resolves to an empty dictionary.
LoadFailed(c) ==
  /\ Idle
  /\ Settle(c, EmptyDict)
  /\ UNCHANGED view

\* Mutant of GuardResumes: the locale is set for the navigation in progress only.
DeadGuardKeepsLocale(call, v) ==
  /\ view' = v
  /\ localeState' = IF call.live THEN call.ctx[1] ELSE localeState
  /\ pending' = IF call.live THEN [pending EXCEPT !.stage = "resolving"] ELSE pending
  /\ disturbed' = ~call.live
  /\ ready' = Tail(ready)
  /\ UNCHANGED <<fetching, waiting>>
  /\ Hops(IF call.live THEN 1 ELSE 2)

\* The rest of the guard.  It does not ask whether its navigation is still the
\* one in progress.
GuardResumes(call, v) ==
  /\ view' = v
  /\ localeState' = call.ctx[1]
  /\ pending' = IF call.live THEN [pending EXCEPT !.stage = "resolving"] ELSE pending
  /\ disturbed' = ~call.live
  /\ ready' = Tail(ready)
  /\ UNCHANGED <<fetching, waiting>>
  /\ Hops(IF call.live THEN 1 ELSE 2)

\* The rest of $switchLocale.
SwitchLocaleResumes(call, v) ==
  /\ ready' = [i \in DOMAIN Tail(ready) |->
       [Tail(ready)[i] EXCEPT !.call = Superseded(<<@>>)[1]]]
  /\ switchLocaleLogic(call.ctx[1], v, localeState, Superseded(waiting), 1)

\* switchContext returns to its caller with the context applied.
Resume ==
  /\ ready # <<>>
  /\ UNCHANGED <<strategy, animated, route, leaving>>
  /\ LET call == Head(ready).call
         v    == applySwitchContext(view, call.ctx, Head(ready).data)
     IN  IF call.by = "guard" THEN GuardResumes(call, v) ELSE SwitchLocaleResumes(call, v)

-----------------------------------------------------------------------------
\* vue-router finishes the navigation; with page transitions the old page
\* begins to leave, without them it is gone.
Arrive ==
  /\ Idle
  /\ pending # NoNavigation
  /\ pending.stage = "resolving"
  /\ route' = pending.to
  /\ leaving' = IF animated /\ pending.to # route THEN Append(leaving, route[2]) ELSE leaving
  /\ pending' = NoNavigation
  /\ UNCHANGED <<strategy, animated, view, localeState, fetching, waiting, ready, disturbed>>
  /\ Hops(0)

\* A later guard, or a page component that cannot be loaded, ends it instead.
Abort ==
  /\ MayAbort /\ Idle
  /\ pending # NoNavigation
  /\ pending.stage = "resolving"
  /\ pending' = NoNavigation
  /\ disturbed' = TRUE
  /\ UNCHANGED <<strategy, animated, view, localeState, route, fetching, waiting, ready, leaving>>
  /\ Hops(0)

\* The hook page:transition:finish.
TransitionFinish ==
  /\ Idle
  /\ leaving # <<>>
  /\ leaving' = Tail(leaving)
  /\ view' = finishTransition(view)
  /\ UNCHANGED <<strategy, animated, localeState, route, pending, fetching, waiting, ready, disturbed>>
  /\ Hops(0)

Next ==
  \/ \E to \in Locations : Push(to)
  \/ \E locale \in Locales : switchLocale(locale)
  \/ \E c \in Contexts : LoadDone(c) \/ LoadFailed(c)
  \/ Resume
  \/ Arrive
  \/ Abort
  \/ TransitionFinish

Spec == Init /\ [][Next]_vars

-----------------------------------------------------------------------------
TypeOK ==
  /\ strategy \in Strategies /\ animated \in BOOLEAN
  /\ view \in Views
  /\ localeState \in Locales
  /\ route \in Locations
  /\ pending \in [to : Locations, stage : {"guard", "resolving"}] \union {NoNavigation}
  /\ fetching = {waiting[i].ctx : i \in DOMAIN waiting}
  /\ waiting \in Seq(Calls)
  /\ ready \in Seq([call : Calls, data : Dicts])
  /\ leaving \in Seq(Pages)
  /\ disturbed \in BOOLEAN
  /\ hops \in 0..2

Agreed(to) ==
  /\ view.current = contextOf(to, localeState)
  /\ localeState = LocaleOf(view.current)

\* A navigation that nothing disturbs puts everything right, whatever went
\* wrong before it: once it has passed its guard, and after it has arrived,
\* the dictionary, the locale state and the route agree.
UndisturbedAgrees ==
  ~disturbed =>
    /\ pending = NoNavigation => Agreed(route)
    /\ pending # NoNavigation /\ pending.stage = "resolving" => Agreed(pending.to)

\* Under no_prefix the locale state and the dictionary end up in the same
\* locale by themselves: every call that is through has left both in one
\* locale, also the calls of navigations that were superseded or aborted.
StateMatchesDictionary ==
  strategy = "no_prefix" /\ waiting = <<>> /\ ready = <<>> =>
    localeState = LocaleOf(view.current)

\* Documented: the active dictionary "is what the current page renders from"
\* (nuxt-i18n.ts:354).  When everything has come to rest after a switch of
\* the context, the view is in the context of the current route.
RestsOnCurrentPage ==
  [][AtRest' /\ hops > 0 => view'.current = contextOf(route', localeState')]_vars

\* Documented: under no_prefix, $switchLocale "updates locale and translations
\* without changing the URL path" (docs/api/methods.md:520).  The calls that
\* are already on their way do not take the locale back.
SwitchedLocaleStays ==
  [][strategy = "no_prefix" /\ ready # <<>> => localeState' = localeState]_vars

LiveGuards ==
  Cardinality({i \in DOMAIN waiting : waiting[i].by = "guard" /\ waiting[i].live})
  + Cardinality({i \in DOMAIN ready : ready[i].call.by = "guard" /\ ready[i].call.live})

\* A navigation in progress never hangs in the guard and passes it once: while
\* it is there, exactly one call awaits a load for it, also when loads fail or
\* settle in another order than they began; afterwards none does.
GuardIsAwaited ==
  LiveGuards = IF pending # NoNavigation /\ pending.stage = "guard" THEN 1 ELSE 0

\* The pages in the document: the current one and those that are leaving.
Shown == {route[2]} \union ToSet(leaving)

\* A page in the document shows its own string at the leaf l.
ShowsOwn(p, l) ==
  resolveLookup(view, l) = [ctx |-> <<LocaleOf(view.current), p>>, by |-> "file"]

\* A string of its own that a page in the document shows does not give way to
\* the raw key while the next page of the same locale is on its way in, through
\* the switch of the context, late or failing loads and the end of the
\* transition ("so the old page keeps rendering while the new chunk is already
\* installed"), as long as it is the only switch under way.
PagesKeepStrings ==
  [][hops' <= 1 /\ LocaleOf(view'.current) = LocaleOf(view.current) =>
       \A p \in Shown \intersect Shown', l \in Leaves :
         ShowsOwn(p, l) => resolveLookup(view', l) # Absent]_vars

=============================================================================
