----------------------------- MODULE MessageStore -----------------------------
(***************************************************************************)
(* The dictionaries of core (translation.ts, base.ts, reactive-store.ts)   *)
(* as three adapters use them:                                             *)
(*   react   one instance, and components that render from it              *)
(*           (react/src/i18n.ts, react/src/context.tsx);                   *)
(*   astro   the application's instance and one clone per request          *)
(*           (astro/src/composer.ts, astro/src/middleware.ts);             *)
(*   node    one instance that reads its files (node/src/i18n.ts).         *)
(*                                                                         *)
(* A storage is a Map from entries, <<locale, route>>, to objects, and     *)
(* objects have an identity: Object.assign writes into the object that is  *)
(* there, other writes put a new one or the caller's own in its place.     *)
(* Members of an object are never written in place, so only the objects    *)
(* the Map holds need one.  A new object is named after the entry it is    *)
(* made for, since nothing else holds what that entry held before.         *)
(***************************************************************************)
EXTENDS TranslationTrees, FiniteSets

CONSTANTS
  Locales, Routes,
  Keys,          \* keys that are looked up and set
  Watched,       \* the key the component shows
  Values,        \* what a key is set to
  Adapters,      \* a subset of {"react", "astro", "node"}
  Requests,      \* the clones of the astro adapter
  Given,         \* objects the application holds and passes in
  Content,       \* Content[o]: what object o holds at the start
  MessageSets,   \* values of the option `messages`: locales to objects
  Files,         \* Files[e]: the content of {locale}.json where e is of the
                 \* route `index`, of pages/{route}/{locale}.json otherwise
  None,
  MaxWrites      \* bound on calls that change something

Entries   == Locales \X Routes
Instances == {"app"} \union Requests
Refs      == Given \union (Instances \X Entries)
Root(e)   == <<e[1], "index">>

ASSUME MessageStoreAssumption ==
  /\ "index" \in Routes
  /\ Watched \in Keys
  /\ Keys \subseteq Names \ {<<>>}
  /\ DOMAIN Files \subseteq Locales \X Routes /\ IsFiniteSet(DOMAIN Files)
  /\ \A e \in DOMAIN Files : IsObject(Files[e])
  /\ \A o \in Given : IsObject(Content[o])
  /\ \A given \in MessageSets :
       DOMAIN given \subseteq Locales /\ \A l \in DOMAIN given : given[l] \in Given
  /\ \A v \in Values : WellFormed(v) /\ v # Undefined /\ v = [p \in DOMAIN v |-> v[p]]
  /\ MaxWrites \in Nat
  /\ Given \intersect (Instances \X Entries) = {}
  /\ None \notin Refs

VARIABLES
  adapter,
  messages,  \* initialMessages, per instance
  active,    \* locale, fallback locale and current route, per instance
  entry,     \* entry[i][e]: the object the Map of instance i holds, or None
  object,    \* object[r]: what object r holds
  handed,    \* objects passed in to be stored themselves (history)
  revision,  \* of the reactive store
  view,      \* the component: its life, what it rendered and from what
  loading,   \* node: files are being read
  alive,     \* the instances that exist
  writes

vars == <<adapter, messages, active, entry, object, handed, revision, view,
          loading, alive, writes>>

-----------------------------------------------------------------------------
(* Lookups: base.ts *)

getCache(i, e) == IF entry[i][e] = None THEN Undefined ELSE object[entry[i][e]]

resolveLookup(i, key) ==
  LET a    == active[i]
      here == resolveTranslation(getCache(i, <<a.locale, a.route>>), key)
  IN  IF here # Undefined THEN here
      ELSE resolveTranslation(getCache(i, <<a.fallback, a.route>>), key)

resolveTranslations(i) ==
  LET a     == active[i]
      upper == getCache(i, <<a.locale, a.route>>)
  IN  IF a.fallback = a.locale \/ entry[i][<<a.fallback, a.route>>] = None THEN upper
      ELSE mergeTranslationLayers(getCache(i, <<a.fallback, a.route>>), upper)

\* Mutant of getSnapshot: locale and route alone.
SnapshotOfPlace == <<active["app"].locale, active["app"].route, 0>>

getSnapshot == <<active["app"].locale, active["app"].route, revision>>

-----------------------------------------------------------------------------
(* Writes to one storage: translation.ts.  A memory is the pair of the    *)
(* instance's Map and the objects.                                        *)

Memory(i) == [map |-> entry[i], object |-> object]

\* { ...data } as the entry's object.
Copied(m, i, e, data) ==
  [map |-> [m.map EXCEPT ![e] = <<i, e>>], object |-> [m.object EXCEPT ![<<i, e>>] = data]]

\* setTranslations: the caller's object itself.
setTranslations(m, i, e, o) ==
  [map |-> [m.map EXCEPT ![e] = o], object |-> [m.object EXCEPT ![<<i, e>>] = Undefined]]

\* Mutant of mergeTranslation: Object.assign with its arguments swapped.
MergeIntoArgument(m, i, e, o) ==
  IF m.map[e] = None THEN Copied(m, i, e, m.object[o])
  ELSE [setTranslations(m, i, e, o) EXCEPT !.object[o] = assign(@, m.object[m.map[e]])]

\* loadTranslations and mergeTranslation of the object o.
mergeTranslation(m, i, e, o) ==
  IF m.map[e] = None THEN Copied(m, i, e, m.object[o])
  ELSE [m EXCEPT !.object[m.map[e]] = assign(@, m.object[o])]

\* The same where the data comes from a file.
mergeData(m, i, e, data) ==
  IF m.map[e] = None THEN Copied(m, i, e, data)
  ELSE [m EXCEPT !.object[m.map[e]] = assign(@, data)]

loadPageTranslations(m, i, e, data) ==
  IF m.map[e] = None \/ m.object[m.map[e]] = Undefined THEN Copied(m, i, e, data)
  ELSE [m EXCEPT !.object[m.map[e]] = assign(@, data)]

Cleared(m, i) ==
  [map    |-> [e \in Entries |-> None],
   object |-> [r \in Refs |-> IF r \in {i} \X Entries THEN Undefined ELSE m.object[r]]]

\* loadTranslations(lang, msgs) for every locale of the option.
WithMessages(m, i, given) ==
  LET e(l) == <<l, "index">>
  IN  [map    |-> [f \in Entries |-> IF \E l \in DOMAIN given : f = e(l) THEN <<i, f>> ELSE m.map[f]],
       object |-> [r \in Refs |-> IF \E l \in DOMAIN given : r = <<i, e(l)>>
                                  THEN m.object[given[CHOOSE l \in DOMAIN given : r = <<i, e(l)>>]]
                                  ELSE m.object[r]]]

NoMessages == [l \in {} |-> None]
NoView     == [stage |-> "none", snap |-> None, shown |-> Undefined, dirty |-> FALSE]

Init ==
  /\ adapter \in Adapters
  /\ \E given \in MessageSets, l, f \in Locales :
       LET empty == [map    |-> [e \in Entries |-> None],
                     object |-> [r \in Refs |-> IF r \in Given THEN Content[r] ELSE Undefined]]
           start == IF adapter = "node" THEN empty ELSE WithMessages(empty, "app", given)
       IN  /\ messages = [i \in Instances |-> IF i = "app" THEN given ELSE NoMessages]
           /\ active = [i \in Instances |-> [locale |-> l, fallback |-> f, route |-> "index"]]
           /\ entry  = [i \in Instances |-> IF i = "app" THEN start.map ELSE empty.map]
           /\ object = start.object
  /\ handed = {}
  /\ revision = 0
  /\ view = NoView
  /\ loading = FALSE
  /\ alive = {"app"}
  /\ writes = 0

-----------------------------------------------------------------------------
(* Calls *)

Counted == writes < MaxWrites /\ writes' = writes + 1

\* notify of the reactive store, and what React's useSyncExternalStore does
\* with it: a mounted component whose snapshot is not the current one is
\* rendered again.
notify ==
  IF adapter # "react" THEN UNCHANGED <<revision, view>>
  ELSE /\ revision' = revision + 1
       /\ view' = IF view.stage # "mounted" THEN view
                  ELSE [view EXCEPT !.dirty = view.dirty \/ view.snap # getSnapshot']

Store(i, m) == entry' = [entry EXCEPT ![i] = m.map] /\ object' = m.object

\* addTranslations and addRouteTranslations with merge, and mergeTranslations.
Add(i, e, o) ==
  /\ i \in alive
  /\ Counted
  /\ Store(i, mergeTranslation(Memory(i), i, e, o))
  /\ UNCHANGED <<adapter, messages, active, handed, loading, alive>>
  /\ notify

\* addTranslations(l, o, false).
addTranslations(i, l, o) ==
  /\ i \in alive
  /\ Counted
  /\ Store(i, setTranslations(Memory(i), i, <<l, "index">>, o))
  /\ handed' = handed \union {o}
  /\ UNCHANGED <<adapter, messages, active, loading, alive>>
  /\ notify

\* addRouteTranslations(l, r, o, false).
addRouteTranslations(i, e, o) ==
  /\ i \in alive
  /\ Counted
  /\ Store(i, loadPageTranslations(Memory(i), i, e, object[o]))
  /\ UNCHANGED <<adapter, messages, active, handed, loading, alive>>
  /\ notify

setTranslation(i, key, value) ==
  LET e == <<active[i].locale, active[i].route>>
  IN  /\ i \in alive
      /\ Counted
      /\ Store(i, Copied(Memory(i), i, e, setTranslationAtKey(getCache(i, e), key, value)))
      /\ UNCHANGED <<adapter, messages, active, handed, loading, alive>>
      /\ notify

\* The astro adapter loads its messages again.
clearCache(i) ==
  /\ i \in alive
  /\ Counted
  /\ Store(i, IF adapter = "astro"
              THEN WithMessages(Cleared(Memory(i), i), i, messages[i])
              ELSE Cleared(Memory(i), i))
  /\ UNCHANGED <<adapter, messages, active, handed, loading, alive>>
  /\ notify

\* The setters of the locale, the fallback locale and the route.
Select(i, field, value) ==
  /\ i \in alive
  /\ active[i][field] # value
  /\ Counted
  /\ active' = [active EXCEPT ![i][field] = value]
  /\ UNCHANGED <<adapter, messages, entry, object, handed, loading, alive>>
  /\ notify

Call ==
  \E i \in Instances :
    \/ \E e \in Entries, o \in Given : Add(i, e, o)
    \/ \E l \in Locales, o \in Given : addTranslations(i, l, o)
    \/ \E e \in Entries, o \in Given : addRouteTranslations(i, e, o)
    \/ \E k \in Keys, v \in Values : setTranslation(i, k, v)
    \/ clearCache(i)
    \/ \E l \in Locales : Select(i, "locale", l) \/ Select(i, "fallback", l)
    \/ \E r \in Routes : Select(i, "route", r)

-----------------------------------------------------------------------------
(* react: one component that calls useI18n *)

Rendered(stage) ==
  [stage |-> stage, snap |-> getSnapshot, shown |-> resolveLookup("app", Watched),
   dirty |-> FALSE]

Component(stage, next) ==
  /\ adapter = "react"
  /\ view.stage = stage
  /\ view' = next
  /\ UNCHANGED <<adapter, messages, active, entry, object, handed, revision,
                 loading, alive, writes>>

Render == Component("none", Rendered("rendered"))

\* The effect subscribes, and compares the snapshot that was rendered.
Subscribe ==
  Component("rendered", [view EXCEPT !.stage = "mounted", !.dirty = view.snap # getSnapshot])

Rerender == view.dirty /\ Component("mounted", Rendered("mounted"))

Unmount == Component("mounted", NoView)

-----------------------------------------------------------------------------
(* astro: the middleware clones the application's instance for a request *)

\* Mutant of cloneStorage: the Map is copied and its objects are shared.
CloneShares(m, i) == [map |-> entry["app"], object |-> m.object]

cloneStorage(m, i) ==
  [map    |-> [e \in Entries |-> IF entry["app"][e] = None THEN None ELSE <<i, e>>],
   object |-> [r \in Refs |-> IF r \in {i} \X Entries THEN getCache("app", r[2])
                              ELSE m.object[r]]]

clone(i, l, r) ==
  /\ adapter = "astro"
  /\ i \notin alive
  /\ Store(i, cloneStorage(Memory(i), i))
  /\ active' = [active EXCEPT ![i] = [active["app"] EXCEPT !.locale = l, !.route = r]]
  /\ alive' = alive \union {i}
  /\ UNCHANGED <<adapter, messages, handed, revision, view, loading, writes>>

-----------------------------------------------------------------------------
(* node: reading the files *)

\* reload clears before it reads; loadTranslations alone does not.  The
\* caller awaits either before the next.
LoadStarts(reload) ==
  /\ adapter = "node"
  /\ ~loading
  /\ Counted
  /\ loading' = TRUE
  /\ IF reload THEN Store("app", Cleared(Memory("app"), "app")) ELSE UNCHANGED <<entry, object>>
  /\ UNCHANGED <<adapter, messages, active, handed, revision, view, alive>>

\* mergeRouteTranslationsWithRoot on the entry `index` of the memory m.
Baked(m, e) ==
  deepMergeTranslations(IF m.map[Root(e)] = None THEN Undefined
                        ELSE m.object[m.map[Root(e)]], Files[e])

\* The memory m after the file of e is stored.
Stored(m, e) ==
  IF e = Root(e) THEN mergeData(m, "app", e, Files[e])
                 ELSE loadPageTranslations(m, "app", e, Baked(m, e))

WithFiles(m, files) == FoldSet(LAMBDA e, n : Stored(n, e), m, files)

WithRoots(m, read) == WithFiles(m, {e \in read : e = Root(e)})
WithPages(m, read) == WithFiles(m, {e \in read : e # Root(e)})

\* Mutant of Loaded: the pages are stored while the root files are not.
PagesFirst(m, read) == WithRoots(WithPages(m, read), read)

\* The root files first, so that pages find them in the entry `index`.
Loaded(m, read) == WithPages(WithRoots(m, read), read)

\* `read` are the files that could be read and parsed.
LoadEnds(read) ==
  /\ loading
  /\ loading' = FALSE
  /\ Store("app", Loaded(Memory("app"), read))
  /\ UNCHANGED <<adapter, messages, active, handed, revision, view, alive, writes>>

Next ==
  \/ Call
  \/ Render \/ Subscribe \/ Rerender \/ Unmount
  \/ \E i \in Requests, l \in Locales, r \in Routes : clone(i, l, r)
  \/ \E reload \in BOOLEAN : LoadStarts(reload)
  \/ \E read \in SUBSET DOMAIN Files : LoadEnds(read)

Spec == Init /\ [][Next]_vars

-----------------------------------------------------------------------------
(* Properties *)

\* Every object is a tree, and every entry of a storage is an object that
\* the application passed in or one made for an entry (translation.ts).
TypeOK ==
  /\ adapter \in Adapters
  /\ active \in [Instances -> [locale : Locales, fallback : Locales, route : Routes]]
  /\ entry \in [Instances -> [Entries -> Refs \union {None}]]
  /\ DOMAIN object = Refs
  /\ \A r \in Refs : IsObject(object[r])
  /\ handed \subseteq Given
  /\ view.stage \in {"none", "rendered", "mounted"} /\ view.dirty \in BOOLEAN
  /\ revision \in 0..MaxWrites /\ writes \in 0..MaxWrites

\* Both layers write their members one way: nested, or flat.
SameShape(lower, upper) ==
  LET positions == DOMAIN lower \union DOMAIN upper
  IN  \/ \A p \in positions : \A n \in 1..Len(p) : Len(p[n]) = 1
      \/ \A p \in positions : Len(p) = 1

IsLeaf(value) == DOMAIN value = {<<>>}

\* "so the dump matches t()" (base.ts:133): where the locale's and the
\* fallback's dictionaries are written in one shape, the tree that
\* resolveTranslations returns answers each key as t() does, except that an
\* object of both layers is merged in the dump.
DumpAnswersLookups ==
  \A i \in alive :
    LET a == active[i]
    IN  SameShape(getCache(i, <<a.fallback, a.route>>), getCache(i, <<a.locale, a.route>>)) =>
          \A k \in Keys :
            LET answer == resolveLookup(i, k)
                dumped == resolveTranslation(resolveTranslations(i), k)
            IN  (IsLeaf(answer) \/ IsLeaf(dumped) \/ answer = Undefined) => dumped = answer

\* "the change is visible to t() immediately" (base.ts:312), unless it is null,
\* which counts as a miss; and keys beside the one that is set answer what they
\* did: on nested and on flat dictionaries, over leaves, objects and nothing.
SetReadsBack ==
  [][\A i \in Instances, k \in Keys, v \in Values :
       setTranslation(i, k, v) =>
         /\ v # Leaf(Nil) => resolveLookup(i, k)' = v
         /\ \A other \in Keys :
              ~Comparable(k, other) => resolveLookup(i, other)' = resolveLookup(i, other)]_vars

\* No call writes into an object of the application, unless that object was
\* passed to addTranslations(..., false), which stores it as it is.
CallerObjectsStay ==
  [][\A o \in Given : object'[o] # object[o] => o \in handed]_vars

\* Two entries, of one instance or of two, never hold one object, unless the
\* application had that object stored: what a request writes shows in no
\* other request and not in the application's instance.
EntriesAreOwn ==
  \A x, y \in alive \X Entries :
    LET held == entry[x[1]][x[2]]
    IN  x # y /\ held # None /\ held = entry[y[1]][y[2]] => held \in handed

\* A component at rest shows what t() answers now, whatever changed between
\* its render and its subscription and in whatever order.
RenderedIsCurrent ==
  view.stage = "mounted" /\ ~view.dirty => view.shown = resolveLookup("app", Watched)

\* No other file that was read goes into the object of entry e.
Unshared(e, read) ==
  \A f \in read \ {e} : entry["app"][f] # entry["app"][e] \/ entry["app"][f] = None

\* After a load, every page whose file was read has in it that file and the
\* leaves of its locale's root file of which the page's file leaves the section
\* alone, whatever was added, set or cleared while the files were read.  Where
\* the application had one object stored for two locales, the root files of
\* both go into that object, and the pages of one have leaves of the other.
PagesBakeRoot ==
  [][\A read \in SUBSET DOMAIN Files : LoadEnds(read) =>
       \A e \in read : e # Root(e) =>
         LET page == getCache("app", e)'
             root == Files[Root(e)]
         IN  /\ \A p \in DOMAIN Files[e] : p \in DOMAIN page /\ page[p] = Files[e][p]
             /\ Root(e) \in read /\ Unshared(Root(e), read) =>
                  \A q \in DOMAIN root :
                    (\A p \in DOMAIN Files[e] : ~Comparable(Cut(p, 2), Cut(q, 2))) =>
                      q \in DOMAIN page /\ page[q] = root[q]]_vars

=============================================================================
