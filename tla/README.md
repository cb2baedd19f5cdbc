# A verification of nuxt-i18n-micro

nuxt-i18n-micro is an internationalisation module for Nuxt.  Its translations
are split into one *chunk* per (locale, page), loaded on navigation, kept in
caches on both sides of the wire, and swapped in and out of a view layer that
`$t` reads.  Most of what can go wrong in it goes wrong there: a user clicks
faster than chunks load, a cache evicts what is being shown, a page leaves while
the next one is installed.  This directory models those parts in TLA+, checks
them with TLC on small instances, and proves the most important statements for
all instances with TLAPS.

Paths below are relative to the repository; `runtime/` is `src/runtime/`.

## 1. The system

| Component | Where | State it keeps | Operations |
|---|---|---|---|
| Cache with limits | `packages/utils/src/cache-control.ts` | a value Map whose key order is the recency order, a deadline Map, a size limit, a ttl | `configure`, `get`, `has`, `set`, `delete`, `clear` |
| Storage cache | `runtime/utils/storage.ts` | one process-wide cache with limits of payloads by (locale, page) | `getFromCache`, `load`, `clear` |
| View layer | `runtime/utils/nuxt-i18n.ts`, class `NuxtI18n` | chunk Map with a FIFO bound, active dictionary, outgoing dictionary, current locale and route | `setChunk`, `mergeChunk`, `seedChunks`, `applySwitchContext`, `finishTransition`, `mergeTranslations`, `loadPageTranslations`, `mergeTranslationAsync`, `setTranslation`, `clearCache`, lookups |
| Translation loader | same file, class `NuxtTranslationLoader` | loads in flight (`pendingLoads`) | `loadAsync`, `switchContext` |
| Navigation | `runtime/plugins/01.plugin.ts`, `03.define.ts`, `05.hooks.ts` | none of its own; two `router.beforeEach` guards and the transition hook | guard, first load, register hook, inline translations |
| Locale state | `runtime/composables/useI18nLocale.ts` | `useState('i18n-locale')` and its cookies | `setLocale`, `getEffectiveLocale`, `resolveInitialLocale` |
| Server loader | `runtime/server/utils/server-loader.ts` | a process-wide cache of merged trees | `loadTranslationsFromServer` |
| Translation watcher | `packages/hmr/src/watcher.ts`, `runtime/server/plugins/watcher.dev.ts` | content hashes | merge a changed file into the server cache, drop storage entries |
| Locale detection, redirects | `runtime/server/utils/*`, `runtime/plugins/06.redirect.ts`, `runtime/middleware/*`, `packages/utils/src/resolve-locale.ts` | none | decide the locale and the redirect for a URL, twice: on the server and on the client |
| Path and route strategies | `packages/path-strategy`, `packages/route-strategy` | none | URLs and routes to and from localized ones, four strategies |
| Trees and lookups | `packages/core` | a Map from (locale, route) to objects, a revision and its subscribers | merge, set a key, lookup with fallback, the dump of two layers |
| Adapters | `packages/react`, `astro`, `node`, `preact`, `vue`, `solid` | what a component rendered; clones per request; files being read | subscribe and render, `clone`, `loadTranslations`, `reload` |
| Published URLs | `runtime/composables/useLocaleHead.ts`, `src/module.ts` | none | alternate links, routes to prerender |
| Devtools, other build hooks, components | other packages, `src/module.ts` | thin or none | rendering, file generation |

**How they interact.**  The guard of `01.plugin.ts` asks the path strategy and
the locale state where a navigation goes, and awaits
`loader.switchContext(locale, route)`.  The loader answers from the chunk Map,
else from the storage cache, else it fetches, shares the fetch with every other
caller, and installs the result in the Map.  `applySwitchContext` then makes the
chunk the active dictionary; the old one stays readable as the *outgoing*
dictionary until Nuxt's `page:transition:finish`.  In between, components write
translations into the same chunks (`$mergeTranslations`, `$setTranslation`, the
`i18n:register` hook) and `$switchLocale` moves locale state, dictionary and URL
one after the other.  On the server the storage cache is filled through the
server loader, whose cache the file watcher rewrites during development.

**What is hard.**  Everything runs on an event loop, so the interleavings are
those of code before and after an `await`: calls that share one pending load,
continuations that apply a result after the state they were started in has
gone, navigations that are superseded while they wait.  Loads fail.  Caches
evict and expire while someone relies on them.  The same data is held in two
places (the active dictionary and its chunk; a value and its deadline) that
separate method calls must keep together.  `PROJECT.json` lists each such hazard
with its line.

**What makes the components correct.**  The cache: one recency order, nothing
served past its lease, and only ever the value last written.  The view layer: no
string of another page or locale, nothing lost that was patched in, a bounded
Map that keeps the active page.  The loader: no caller forgotten.  Navigation:
route, locale state and dictionary end up together, and a page keeps its strings
while it leaves.  Server and watcher: the cache ends up with the newest file.
Redirects: they settle, and a link, a switch, an alternate or a prerendered URL
ends on the page it stands for, also when it is loaded again.  Dictionaries:
what is rendered is what `t` answers, the dump answers as `t` does, and no
object is written that somebody else holds.

## 2. The modules

```
InsertionOrder --> CacheControl --(implements)--> LossyMap
      |                 |
      |          CacheControlProofs (with InsertionOrderProofs)
      v
   NuxtI18n ----> TranslationLoader --> TranslationLoaderProofs
      |  |                                |
      |  +--> NuxtI18nProofs -------------+
      |                                   |
      +-------> Navigation ------> NavigationProofs

   ServerLoader --> ServerLoaderProofs

   RouteGeneration --> PathStrategy --> Redirects --> PublishedPaths
                       LocaleDetection -^   |
                                            v
                                     RedirectsProofs

   TranslationTrees --> MessageStore --> MessageStoreProofs
```

`CacheControl` instantiates LossyMap (`INSTANCE LossyMap WITH ...`) and states
its specification as a property of the cache.

**InsertionOrder** — a JavaScript Map's key order: overwriting keeps a key's
place (`With`), deleting and setting again moves it to the end (`Renewed`).

**LossyMap** — the abstract specification of a cache: it may forget any entry at
any time, but it never answers with anything but the value last written.

**CacheControl** — `cache-control.ts`, one action per method and one for the
clock.  `cache`, `order` and `expiry` are the two Maps; `written`, `lastUse`,
`since` and `unranked` are history variables.  `get` and `has` are split into what
the code's branches do: a miss, an entry found expired (and deleted), a hit.
`reply` records what a reader was told.  Every hit and every write enters `since`,
the order of use that evictions are judged by.  A hit moves the key in the Map
only under a limit (`cache-control.ts:49-55`), so a key whose last use was a read
without one is in `unranked`: a limit configured later may evict it before keys
used earlier, and the LRU property leaves out such a victim.

**NuxtI18n** — the methods of the view layer as operators from a view (a record
of the object's fields) to a view.  A translation tree is reduced to its leaves;
a value at a leaf is the context it was written for and whether it came from a
file or from a patch.  A deep merge is then an override leaf by leaf, which is
what the merge functions do as long as no leaf of one tree is a branch of the
other (trees with their branches are in TranslationTrees).  The empty route name and `index`,
which name the same chunk, are one route here.

**TranslationLoader** — loader, view and storage cache, and every call of the
provided API that changes them.  An action is a call up to its first `await`;
when a load settles, its continuations enter `ready` in the order in which they
began to wait and `Resume` runs them before the next call is taken in, as
promise jobs do.  `load[c]` distinguishes a payload found in storage (`hit`,
still one turn away because `load` is async) from one being fetched.  The
storage cache is not the cache module itself but the promise it was shown to
keep: a lookup hits or misses, nondeterministically where the entry might have
gone.

**Navigation** — the guard of `01.plugin.ts`, the locale state and
`$switchLocale` over the view layer, for a prefix strategy, `no_prefix` and hash
mode.  vue-router and the page component are external and modelled from how the
plugin uses them: a newer navigation supersedes an older one, whose guard still
runs to its end but which never arrives; a push to the current location runs no
guard and supersedes all the same; after the guard a navigation arrives or is
aborted; with page transitions the old page stays in the document until its
transition ends.  The storage cache is left out here, and the chunk Map is
unbounded: what either adds is covered by TranslationLoader.  The cookie always
holds the locale state, because `setLocale` writes both.

**ServerLoader** — the server during development: requests that miss the storage
cache and ask the server loader, which answers from its process-wide cache or
reads what was built at start-up; and the file watcher, which merges a changed
file into the server cache and drops the storage entries of the page and its
aliases.  A translation file is its version, `Broken` (text that does not parse)
or `Gone`; a cached entry says which version of which file went into it.  The
event handler reads synchronously and is one step; a request waits twice, for
its file and for its answer, and writes a cache after either.  `Mergeable` is
the `Promise.all` over the pages of a root file, `hashes` the content tracker,
which forgets a file whose event failed.  The file system and chokidar are
external: a write (`events`) and a deletion (`removed`) are each followed by an
event later, writes in a row share one, and so may a deletion and the write after
it; where they do not, the two events come in either order.  A write may find its
file gone, and the handler then keeps the hash; a deletion forgets it, also when
the file is back.  Two histories mark what no event will repair by itself:
`late`, keys under which a load that read an old file wrote last, and `ahead`,
files that were read with content other than they were last processed with: on
another file's event, or because they had vanished before their own was handled.

In TranslationLoader, *waiting* calls are kept per load; in Navigation in one
queue, with a flag `live` that says whether the call's navigation is still the
router's pending one.  `disturbed`, `hops` and `raced` are history variables
that no action's guard reads; they say when a property's premise applies.

**RouteGeneration** — `packages/route-strategy`: the records of the router that
the four strategies generate for a set of pages, from the options `off` (pages
without localization), `custom` (a path per page and locale) and `only`
(`routeLocales`), and `Match`, the records a path is matched with.  A path is a
pair of a locale prefix, or none, and a rest, and a record's name a tuple
(`localized-about-de` is `<<"localized", about, de>>`); what a segment is made of
does not matter to any decision here.  The assumptions of the module say which options a
site can have: a custom path is not another page's path, and no path is matched
by records of two pages, which would be a mistake of the application.

**PathStrategy** — `packages/path-strategy`: `localeRoute` by name and by path,
`switchLocaleRoute`, `getClientRedirect`, `shouldReturn404` and the resolution
between pages and paths, for each strategy, as functions of the options, the
current path and, for a switch, the base of the current route's name
(`getBaseRouteName`, which takes off the current locale and no other).

**LocaleDetection** — `resolve-locale.ts`, `accept-language.ts` and
`auto-detect-path.ts`: the precedence of path, query, cookie and header, and
which paths a preference may redirect.

**Redirects** — one browser tab over these three: it loads and reloads URLs
with any cookie, header and `?locale=`, follows localized and plain links, and
switches the locale.  The server's answer is `RespondNotFound`,
`RespondRedirect` (where the plugin and a redirect record of the router both
have a target, either may win) or `Respond`; the client's is
`RedirectNavigation`, `Duplicate` or `Arrive`.  `aim` remembers what a link or
a switch promised, `entered` the URL that was loaded, `hops` the redirects
since.  The tab has the name of its route besides its path, because a switch
starts from the name: `$switchLocale` sets the state first, so that the name is
taken apart with the locale it switches to (`baseName`, `nuxt-i18n.ts:580`,
`501`).  At the custom path of one locale another locale's suffix then stays in
the base.

**PublishedPaths** — URLs nobody clicks: the alternate links of
`useLocaleHead.ts` at the tab's page and the routes the hook
`prerender:routes` of `src/module.ts` adds.  They are operators on the state of
Redirects and come from other code than the routes they have to hit.

**TranslationTrees** — trees as functions from positions to leaves.  A position
is a sequence of members and a member a sequence of segments, so that
`{ a: { b: 'x' } }` is the position `<<a>>, <<b>>` and the flat
`{ 'a.b': 'x' }` the single member `<<a, b>>`.  Segments are a constant, any set.  `WellFormed` says that no leaf
lies on the way to another.  The operators are the lookup that tries flat keys
and then sections, the write of a key, `Object.assign`, the merge of two layers
and the merge at two levels of `packages/utils`.

**MessageStore** — the storage of `translation.ts` and `base.ts`, with the
identity of its objects, under three adapters that each add what the others
lack: React a component that renders and subscribes, Astro a clone for each
request, Node files that are read while other calls run.  `Memory` is the pair
of an instance's Map and the objects; each write of the code is an operator
from a memory to a memory and says whether it copies, keeps the caller's object
or writes in place.

`MCCacheControl`, `MCTranslationLoader`, `MCNavigation`, `MCServerLoader`,
`MCRedirects` and `MCMessageStore` give the constants their values.  Operators whose comment starts with "Mutant of" are deliberately
wrong variants of the definition they precede; they are not part of any
specification and serve to show that a property can fail.

## 3. What the runs check

| Run | Instance | Question |
|---|---|---|
| `cache_control` | 3 keys, 2 values, limits 0/1/2, ttl off/1, clock to 4 | The two Maps agree, the victim is the least recently used key, no answer after its lease, the limit is never passed by a write, LossyMap is implemented. |
| `translation_loader` | 3 contexts in 2 locales, Map bound 1 or 2, 2 switches and 1 register call waiting, one SSR payload | No value in a foreign context; the Map bounded and duplicate-free; what is shown is in the chunk; patches survive; the active chunk stays; no caller forgotten. |
| `loader_liveness` | 2 contexts, unbounded Map, 2 switches waiting | A switch that waits is carried out, also when the load fails and calls keep coming. |
| `navigation` | 2 locales, 2 pages, 3 strategies, 2 calls waiting, 2 pages leaving | A navigation that nothing disturbs leaves route, state and dictionary in agreement; under `no_prefix` state and dictionary agree whenever all calls are through; the guard is awaited by exactly one live call; a page keeps its own strings through one switch and its transition. |
| `server_loader` | 1 locale, 2 pages, 1 alias, 2 versions of a file, 3 edits, 1 request, 1 eviction | After the watcher's events are through, the server's and the storage cache have the newest content of every file, whatever failed before; an unreadable file takes nothing out of an entry. |
| `redirects` | 3 locales, 3 pages, 6 path rests, 4 strategies, 144 combinations of options; any cookie, a header or none, `?locale=` or none | At most two redirects follow an action; a link or a switch ends on its page, at the URL of the build, with that dictionary and state, and stays there on reload; a deep link stays at its path or ends at its one URL in the default locale; a page's own path reaches it; a visit is remembered; alternates and prerendered routes are served. |
| `message_store` | 2 locales, 2 routes, 3 objects of the application, 1 clone, 3 files, 2 writes | What is rendered is what `t` answers; the dump answers as `t` does; a key that is set reads back and disturbs no other; objects of the application and of other requests are not written; pages contain their locale's root file after any load. |
| `watcher_fallback` (violation) | 2 locales, one the fallback of the other | With premerged payloads the watcher's merge leaves out the fallback locale that the build put in. |
| `register_race` (violation) | 2 contexts, 2 register calls | Two register calls for a chunk that is not loaded: the second loses the first one's patch. |
| `deep_link` (violation) | the instance of `redirects`, without header and `?locale=` | Under `prefix_except_default` a deep link is rendered in the cookie's locale, where the documentation has the default one. |
| `late_guard` (violation) | prefix strategy | A navigation that passed the guard and was then superseded leaves the current page on another page's dictionary. |
| `locale_reverted` (violation) | `no_prefix` | A waiting guard reverts the locale chosen with `$switchLocale` meanwhile. |

A violation run states what the repository's documentation says and shows a
behaviour of the code that does otherwise; `PROJECT.json` quotes the line under
"findings".  The premises of the passing properties name the same cases: that is
why `ShownIsKept` excludes contexts in `raced`, `PatchesSurvive` excludes the
continuations that themselves waited, and `UndisturbedAgrees` and
`PagesKeepStrings` exclude navigations that another one disturbs.

**Bounds, and why they are enough.**  Three keys against limits 1 and 2 make
every eviction choose between a key used recently and one that was not; a ttl of
one tick and a clock of four let an entry expire, be written again and expire
again.  Three contexts against a Map of two force evictions that must pick
between the written, the current and a third entry; a bound of one is the case
in which the current chunk cannot stay.  Two waiting switches and a register
call are enough for a continuation to find that another one came first, and a
third context in another locale for a value to leak across locales.  Two
locales and two pages give every kind of navigation (same page, same locale,
both different) and two waiting calls a superseded one next to a live one.
In ServerLoader a page has two files, so that one of them can fail or be read on
the other's event; the root file feeds two pages, of which one can fail; three
edits let a file break, be merged into on another event, and be repaired, or be
deleted and written again with both events to come.
`MaxEdits` and `MaxEvictions` stop the user and the cache; the theorems have
neither bound, nor one on requests.
In Redirects the three locales are the default, the one a user prefers and a
third one, which is what two locales without a custom path next to one with it
take; the options vary one page and leave another page and the index plain, so
that links go from either kind to the other.  `SmallConfigs` leaves out redirect
options where a strategy does not read them.  The tab acts as long as it likes:
nothing bounds the run but the finite state.
In MessageStore two calls that write follow an instance that may start with
messages, so that a merge finds an entry, a copy or the caller's own object; the
three objects are a section two deep beside `null`, a leaf in the place of that
section, and the same key written flat.  Of the three files any subset fails.
`MaxWrites` only stops calls; renders and clones are not counted.
Bounds on waiting calls (`MaxSwitches`, `MaxRegisters`, `MaxWaiting`) and leaving pages
(`MaxLeaving`) only stop new calls; the code has no such limits.  `MaxTime`
stops the clock.

**Deadlock** is checked in every run of the cache, the loader, navigation and
redirects: no state has the application stuck.  The runs of ServerLoader and
MessageStore switch it off: with everything cached, all events handled and all
edits made, the server rests, and so does an instance when `MaxWrites` calls
were made.

**What freshness does not say.**  `ServerIsFresh` and `StorageIsFresh` speak of
settled keys: no event to come for a file of the key, all of them readable, no
file `ahead`, and the key not `late`.  The last is a real gap in the code, not
of the model: a request that began before an edit writes what was built over
what the watcher wrote (`server-loader.ts:87`, `storage.ts:121`), and the entry
stays old until a file of that page changes again; the properties show that this
is then enough.  In source mode a key with a fallback is left out, because a
change of a fallback's file does not reach it (`watcher.ts:113-144` merges for
the file's own locale only).

**Fairness** is assumed in `loader_liveness` only: the event loop runs a
continuation that is due (weak fairness of `Resume`), and a fetch settles one way
or the other (strong fairness of `LoadDone \/ LoadFailed` per context: strong,
because a load cannot settle during the moments in which continuations are run,
which recur; a fetch that ends in an error or a timeout is `LoadFailed`).
Nothing is assumed about the user or about components.

**What the properties leave out.**  Their premises name behaviour of the code that
a reader of the properties should know of.  One case has a run of its own,
`deep_link`; for the others the sentence here has to do:

- *A page shown in another locale than its URL's.*  The server renders `/about`
  in the locale of the cookie when `autoDetectPath` keeps the preference from
  redirecting: run `deep_link`.  `DeepLinksStay` therefore asks for the locale only
  where the URL carries the default's prefix.  On such a page a switch to the
  URL's locale goes nowhere, and no guard loads its dictionary (`SwitchIsSeen`).
- *A switch from the custom path of another locale.*  Under `no_prefix` the record
  of such a path is named `localized-{page}-{locale}`, and `$switchLocale` takes
  its name apart with the locale it has just set (`nuxt-i18n.ts:580`, `501`).  The
  base keeps its suffix, the record is found again (`helpers.ts:27-28` of
  path-strategy), and the tab stays at the old locale's custom path with the new
  dictionary.  From the page's own path the same switch moves to the custom path.
  `docs/guide/faq.md:71-75` and `docs/api/methods.md:520` have the path unchanged by
  any switch under `no_prefix`.  `SwitchIsSeen` and the premise of
  `AlternatesServed` ask that the base is the page's (`baseName`), which it is at a
  page's own path and at its custom path of the locale in the state.
- *Routes without a name of their own.*  Locales a page with custom paths gives
  none all get the name `localized-{page}`, and the router keeps one of the
  records (`HasOwnName`; `prefix-except-default.ts:76` of route-strategy).
- *A link by name takes the current locale along.*  `localized-{page}-{locale}`
  is resolved without its `:locale` parameter, which vue-router fills in from
  the current route (`ReachedByName`; `helpers.ts:73-83` of path-strategy).  With
  `prefix_except_default`, the name of a page whose default locale alone has a
  custom path leads other locales to a 404.
- *Not every locale is remembered.*  A locale taken from `?locale=` or the
  header is in the state but in no cookie, and the guard writes the cookie only
  when the state changes (`01.plugin.ts:172`; premise of `ReloadStays`).
- *The rewrite of `*` keeps another locale's custom path* behind the new prefix
  (premise of `OwnPathServed`), and a preference or `$switchLocale` may send to a
  locale that `routeLocales` excludes, a 404.
- *An `autoDetectPath` that is a custom path* gets a prefix put before it when a
  preference redirects what was sent there: with `/team`, the custom path of
  `/about` in the default locale, `/about` leads to `/team` and on to `/de/team`,
  which is no page (premise of `OwnPathServed`).
- *Published URLs.*  `useLocaleHead` looks `routeLocales` up by a name that custom
  paths do not have, and lists alternates for pages without localization; the
  prerender hook lists `/de/help` for those as well, and under `*` it lists
  locales of which only the default is ever served.  With `redirects: false` and
  `prefix`, `/` is listed although nothing redirects it to the default locale
  (`module.ts:850-852` has it "renders as the redirect stub"), and so is
  the path of a page whose default locale has a custom one.
- *Fragments.*  In the loader, a patch for a context that is not loaded becomes the
  whole chunk (`nuxt-i18n.ts:283` through `163-170`), and the next switch to it
  finds a chunk and fetches nothing (`411-413`).  `PatchesSurvive` and
  `NoLeakAcrossContexts` say what a chunk may hold, not that it is complete.
- *The dump and flat keys.*  With `a.b` nested in the locale's layer and flat in
  the fallback's, `t` answers from the first and `resolveTranslations` from the
  second, where `base.ts:132-133` says they match (`SameShape`).
- *Objects that are kept.*  `addTranslations(..., false)` stores the caller's
  object itself, and a later merge writes into it and into every entry that was
  given the same one (`handed`).  One object stored for two locales takes the root
  files of both on the next load, and pages of either locale get leaves of the
  other's (`Unshared`, the premise of `PagesBakeRoot` that its proof asked for).
- *Merges have different depths.*  `addTranslations` assigns at the top level, root
  files are baked in at two levels, layers of a dump are merged at every level.
  `docs/integrations/preact-package.md:1592` describes a merge of the base
  translations into a route's that the code does not do.
- *Adapters beside these three.*  Preact's component subscribes in an effect
  without comparing, so a write between its render and its effect is missed
  until the next one; Vue's revision is read by nothing, so translations that are
  added do not render (`docs/integrations/vue-package.md:16` speaks of automatic
  updates); an Astro clone has no initial messages, so its `clearCache` leaves it
  empty; two reloads of the Node adapter at a time may apply older files last,
  where the model has the caller await the first.

## 4. What is proved

`tlapm` checks eight proof modules, about 12,300 obligations in all, under the constants'
assumptions (`CacheAssumption`, `NuxtI18nAssumption`, `NothingAssumption`,
`LoaderAssumption`, `NavigationAssumption`, `ServerAssumption`,
`RouteGenerationAssumption`, `UnambiguousAssumption`, `RedirectsAssumption`,
`MessageStoreAssumption`).  Sets of keys, contexts, leaves, locales and pages may be
infinite, and every bound is arbitrary; only the files of the Node adapter are
finitely many.  Every property of a passing run is the statement of a theorem, but
for `SwitchesHappen`.

**InsertionOrderProofs** — what removing a key and appending it does to a sequence
without repetitions: its set, its injectivity and the relative order of the keys
that stay; and that picking positions out of a sequence (`Picked`) keeps order and
injectivity, by counting the positions picked before one (`Rank`).

**CacheControlProofs** — types, agreement of the two Maps, LRU eviction, leases,
the limit, and that the cache implements LossyMap (`CacheKeepsLossyPromise`).
None is inductive alone.  The invariant `IInv` adds three facts: the Map order is
the order of last use but for unranked keys (`OrderIsUseOrder`, from which the
first key, if it is ranked, is the least recently used), a deadline is a last use plus one of the ttls
(`DeadlineIsLease`), and what is cached is what was last written
(`CacheHoldsWritten`, which gives the refinement).  One lemma per method shows
that it keeps `IInv`; each action property then follows from `IInv` and one step.

**NuxtI18nProofs** — lemmas about the view layer, for the two modules built on it.
`ChunksOK` says that the Map lists every chunk once and, with a bound, no more
than that; a lemma per method says that it keeps `ChunksOK`, that it keeps the
active chunk when there is room for two (`KeepsActive`), and which chunks and which
dictionary it writes.  The work is in `Evicted`: the two passes of `evictChunks`
together take exactly the excess, and the second one reaches the current chunk
only when the first found too few.

**TranslationLoaderProofs** — all of the loader's invariants and action properties,
from three inductive invariants, each resting on the one before.

- `IInv`: no value is ever in a chunk, or in the active or outgoing dictionary, of
  a context (locale, for the outgoing one) other than the one it was written for
  (`LoaderLeaksNothing`).  A dictionary also travels inside calls that wait and
  continuations that are due, so the induction needs `NoLeakInFlight`: the
  patch of a waiting call and the data of a due continuation belong to the
  call's context.  This part holds for any eviction policy.  With it goes
  `LoaderForgetsNoCall`: calls wait for a context exactly while a load of it is
  in flight.
- `MapInv` adds `ChunksOK`.  Every step but `clearCache()` and a seed writes one
  chunk (`Gentle`), from which follow the bound (`LoaderBoundsChunks`), the active
  chunk (`LoaderKeepsActiveChunk`) and the patches (`LoaderKeepsPatches`).  A seed
  only writes chunks that are absent.  `LoaderAssumption` has the contexts of a
  payload distinct, because they are the keys of one object.
- `ShownInv` adds that what is shown is kept, `LoaderKeepsShown`.  A continuation
  installs data that may be older than the chunk it overwrites, so the induction
  has to know why that is harmless unless calls raced: a merge that waits is alone
  with its load (`WaitAlone`), no second load of its context begins while it is due
  (`DueSettled`, `DueAlone`), and the data it brings contains what the page shows
  (`DueFollows`).  `raced` marks the contexts where the first of these may fail,
  or the last one, because a load failed after its chunk had been patched.

**NavigationProofs** — `NavInv` is inductive and contains three of Navigation's
properties.  `NavigationAwaitsGuard` counts live calls; the proof names the one
there is instead: while a navigation is in its guard exactly one live call waits
or is due, and it asks for the navigation's own page and, where the URL has the
locale, for its locale (`GuardCalls`).  That is what makes its resumption put route,
state and dictionary in agreement (`NavigationAgrees`).  `NavigationMatchesLocale`
is the same for `no_prefix`, over all calls.

`NavigationKeepsStrings` (`PagesKeepStrings`) has a premise about the past: the page
left, and the user made no other switch since.  `PagesInv` says where one switch
can have led.  Without one the view is on the current page; after one, the page
that was left is the oldest that leaves and all after it is the page of the view
(`Trail`).  The lookup then needs that what the view shows is the chunk of its
context (`Installed`), that no chunk is present while it is being loaded
(`LoadsMissing`), and that all continuations due come from one load, so that a
chunk they find is the one they bring (`DueFromOneLoad`).

**ServerLoaderProofs** — freshness of both caches (`ServerFreshness`,
`StorageFreshness`), and that an unreadable file takes nothing away
(`GoodEntriesStay`).  Freshness is not inductive: a stale entry may be waiting
for its event.  `FreshInv` says what the watcher owes.  A file has the content
recorded for it, or no record, or the event of its last edit is to come, that of
a deletion for a file that is gone (`HashesAreCurrent`); text
that does not parse is never recorded (`HashesAreOfMerged`); and an entry has
the recorded content of each file, or the newest if none is recorded, unless an
event of the file is to come, it is `ahead`, or some file of the key is unreadable without a record,
so that its repair will cause an event that is not skipped (`FollowsHashes`,
`Repair`).  The interesting step is an event that fails for one page of a root
file: `RepairIsDue` shows that the file in the way has no record or is noted as
ahead of it.

**RedirectsProofs** — all of Redirects and PublishedPaths, for any number of
locales, pages and custom paths and any options the assumptions allow.  The
lemmas fall into three groups.

- *The router's table.*  A page's records are known by the shape of their names
  (own path, custom path, custom paths of the other locales, shared prefix), and
  `Kept` drops one for another of the same name.  The lemmas say for each shape which
  page and path a record of that name has, and which of them stays: so
  `resolve` of a name that a helper puts together has a value.  `SwitchReaches` (from
  a route whose base name is its page) and `LinkReaches` then say that the switch
  and the link built by
  `packages/path-strategy` are the URL that `packages/route-strategy` gave the page,
  and `HomeServed`, `HomeRests` that this URL is served and that nothing moves it
  on.  The premises `HasOwnName` and `ReachedByName` are where these fail.
- *Redirects.*  A path `Rests` when neither a record, nor a preference, nor the
  rewrite of `*` moves it on.  `SettleInv` relates `hops` to the path under way: after
  two redirects by the server the path rests, after one it rests or has one of
  the forms (`Nearly`) from which the next redirect leads to rest, and on the
  client it rests after the first (`RedirectsSettled`).  `LoadInv` relates `cookie` and
  `entered` to that path (`VisitsRemembered`, `DeepLinksKept`: the only places a deep
  link's request can be under way to are itself and `DeepHome`).
- *Promises.*  `AimInv` follows a link or a switch: until it arrives, the
  navigation is to the URL that was promised, by the name of a record of the page
  if by name, and the locale state is right where the URL does not say it
  (`PromisesKept`, `ReloadsStay`).  `RecordInv` says that the tab's route name is that
  of a record of the page on show, so that its alternates can be looked up
  (`AlternatesReached`).  `OwnInv` says that a page's own path is only ever redirected
  to a path of the same page, and that a path without a prefix that is not the
  page's own was chosen for the default locale, which is therefore still preferred
  (`OwnPathsServed`).  `PrerenderingIsClosed` needs no invariant beyond the types.

Two premises were missing before the proofs: the run had no `autoDetectPath` that is
a custom path, and no site with `redirects: false` on which a page without a prefix
is prerendered.  Both instances are in the run now.

**MessageStoreProofs** — all of MessageStore, for the three adapters.

- `OwnInv`: an entry holds nothing, the object made for it, or one that was handed
  in, and every object is a tree (`IsObject`).  A write in place therefore goes to the
  entry's own object or a handed one (`RequestsKeepTheirOwn`,
  `CallersKeepTheirObjects`, and with the counters `StoreTypeOK`).
- `ViewInv`: what the component was rendered from is kept as the triple of locale,
  route and revision, and the revision never comes back, so a snapshot that equals
  the current one was taken of the same dictionaries (`RenderedStaysCurrent`).  It
  needs that every call notifies after its write.
- A load of the Node adapter is a fold over its files.  `FilesStored` shows that
  the fold is the value of a recursive function on sets of files, and
  `SubsetInduction` that what holds of the empty set and is kept by each file holds of
  every set of files.  So `PagesBakeTheirRoot` follows one page's object through the
  files: its root's leaves go in first, and no file of another page reaches it unless
  the application stored one object for both (`Unshared`).
- `SetsReadBack` and `DumpsAnswerLookups` are about lookups in trees of any depth.
  What `t` finds at a key depends only on what the tree has at, above and below one
  position, nested or flat (`SameBelow`, `FlatLookup`), and `LayersAgree` compares a
  lookup layer by layer with one in the merge of the layers.

**Only model-checked:** `SwitchesHappen`, since liveness is outside the prover's reach
with anything that speaks of fairness or `ENABLED`, and the violation runs, which
show behaviours.

## 5. Not modelled

Listed with reasons in `PROJECT.json`.  Formatting of numbers, dates and plurals,
head tags, devtools, rendering components, type generation and build-time wiring
keep no state that the properties here speak of; they are most of the
repository's lines.  What is left out of the parts that are modelled:

- *Navigation*: the watcher of `defineI18nRoute` and the route-params state.  The
  watcher merges the new locale's inline translations into the old context while
  the switch is awaited, and the switch then installs a dictionary without them
  (`03.define.ts:38`, in the list of hazards).
- *ServerLoader*: payloads fetched from another host (and the empty answer cached
  when that fails), disabled and not configured locales, several layers of
  translation directories, a restart of the server (which builds again), and a
  writer in another process that changes a file between two reads of one event,
  which `awaitWriteFinish` makes unlikely and a further event follows.
- *Redirects and strategies*: locales with domains of their own, `metaDetection`,
  `noPrefixRedirect`, `customRegexMatcher`, a custom base URL, hash mode, nested
  routes, aliases, params, query and hash, and internal paths.  Translations
  arrive at once there; Navigation is the module in which they take time.
- *Trees and adapters*: interpolation, plurals, arrays other than as leaves,
  `__proto__`, empty objects inside a tree, formatter caches; the components of
  Preact, Vue and Solid, VitePress, the adapters' routers; a page directory named
  `index` in Node.

## 6. Plan

1. *Done:* CacheControl with LossyMap; NuxtI18n with TranslationLoader; Navigation;
   all their safety properties as theorems.  Left: inline translations
   (`defineI18nRoute`) and the route-params state.
2. *Done:* ServerLoader with the watcher, checked and proved.  Left: payloads from
   another host.
3. *Done:* Redirects with route generation, the path strategies and detection;
   alternates and prerendered routes; all their properties as theorems.  Left:
   locales with domains of their own, hash mode.
4. *Done:* trees with flat and nested keys, lookups and the dump, checked and proved.
   Left: the layering of several directories at build time against the layering at
   run time.
5. *Done:* the storage under the React, Astro and Node adapters, checked and proved.
   Left: the adapters that differ in when they render (Preact, Vue).

Theorems to add: algebraic laws of the leaf merge (associative, idempotent, the
empty dictionary neutral), which the watcher's and the loader's merges rely on when
the same payload arrives twice.
