------------------------------ MODULE NuxtI18n ------------------------------
(***************************************************************************)
(* The view layer of the Nuxt runtime: class NuxtI18n of                   *)
(* src/runtime/utils/nuxt-i18n.ts.  It keeps one translation chunk per     *)
(* (locale, route) in an insertion-ordered Map with an optional size bound,*)
(* and the two dictionaries that $t reads: the one of the current context  *)
(* and, during a page transition, the one of the page that is leaving.     *)
(*                                                                         *)
(* A translation tree is abstracted to its leaves: a dictionary gives each *)
(* leaf a value or Absent, and a deep merge is an override leaf by leaf.   *)
(* A value records the context it was written for and whether it came from *)
(* a locale file or from a patch made at run time.  That is all the        *)
(* properties tell apart.                                                  *)
(*                                                                         *)
(* The methods are operators from a view to a view, so that a caller       *)
(* composes them in the order the code calls them; the module of the       *)
(* loader turns them into actions.                                         *)
(***************************************************************************)
EXTENDS Integers, InsertionOrder, FiniteSets

CONSTANTS
  Contexts,    \* the <<locale, route>> pairs in use
  NoContext,   \* currentLocale and currentRouteName before the first switch
  Leaves,
  FileLeaves,  \* FileLeaves[c]: the leaves the locale files define for c
  Absent,      \* no value at a leaf
  NoDict       \* outgoingTranslations = null

ASSUME NuxtI18nAssumption ==
  /\ NoContext \notin Contexts
  /\ FileLeaves \in [Contexts -> SUBSET Leaves]

LocaleOf(c) == c[1]

Values == [ctx : Contexts, by : {"file", "patch"}]
Dicts  == [Leaves -> Values \union {Absent}]

\* undefined is no string and null is no dictionary.
ASSUME NothingAssumption == Absent \notin Values /\ NoDict \notin Dicts

EmptyDict == [l \in Leaves |-> Absent]

\* The dictionary that holds `value` at the leaves S and nothing else.
Fragment(S, value) == [l \in Leaves |-> IF l \in S THEN value ELSE Absent]

\* The payload the server answers with for context c.
File(c) == Fragment(FileLeaves[c], [ctx |-> c, by |-> "file"])

\* A patch a caller makes for context c.
Patch(c, S) == Fragment(S, [ctx |-> c, by |-> "patch"])

\* Deep merge, `top` wins (mergeTranslationChunk, deepMergeTranslationsRecursive).
Merged(base, top) ==
  [l \in Leaves |-> IF top[l] # Absent THEN top[l] ELSE base[l]]

\* Every value in d was written for one of the contexts C.
WrittenFor(d, C) == \A l \in Leaves : d[l] # Absent => d[l].ctx \in C

-----------------------------------------------------------------------------
Views == [order    : Seq(Contexts),        \* key order of storage.translations
          chunk    : [Contexts -> Dicts],  \* its values, EmptyDict when absent
          cached   : Dicts,
          outgoing : Dicts \union {NoDict},
          current  : Contexts \union {NoContext},
          max      : Nat]                  \* cacheMaxSize, never changed

NewView(max) ==
  [order |-> <<>>, chunk |-> [c \in Contexts |-> EmptyDict],
   cached |-> EmptyDict, outgoing |-> NoDict, current |-> NoContext, max |-> max]

hasChunk(w, c) == c \in ToSet(w.order)
getChunk(w, c) == w.chunk[c]

\* The n entries of S that were inserted first.
OldestOf(s, S, n) ==
  {k \in S : Cardinality({j \in S : Position(s, j) <= Position(s, k)}) <= n}

\* Mutant of Evicted: the current context is as good a victim as any.
EvictedInOrder(w, keep) ==
  IF w.max = 0 \/ Len(w.order) <= w.max THEN {}
  ELSE OldestOf(w.order, ToSet(w.order) \ {keep}, Len(w.order) - w.max)

\* What evictChunks(keep) deletes: first entries that are neither `keep` nor
\* current, oldest first; where those do not suffice, anything but `keep`.
Evicted(w, keep) ==
  LET excess == Len(w.order) - w.max
      keys   == ToSet(w.order)
      first  == OldestOf(w.order, keys \ {keep, w.current}, excess)
      second == OldestOf(w.order, (keys \ first) \ {keep},
                         excess - Cardinality(first))
  IN  IF w.max = 0 \/ excess <= 0 THEN {} ELSE first \union second

evictChunks(w, keep) ==
  LET gone == Evicted(w, keep)
  IN  [w EXCEPT !.order = Picked(w.order, {i \in DOMAIN w.order : w.order[i] \notin gone}),
                !.chunk = [c \in Contexts |->
                             IF c \in gone THEN EmptyDict ELSE w.chunk[c]]]

setChunk(w, c, data) ==
  evictChunks([w EXCEPT !.order = With(w.order, c), !.chunk[c] = data], c)

mergeChunk(w, c, data) == setChunk(w, c, Merged(w.chunk[c], data))

\* Mutant of seedChunks: seeds the Map directly and never evicts.
SeedPastBound(w, seeds) ==
  LET fresh == Picked(seeds, {i \in DOMAIN seeds : ~hasChunk(w, seeds[i])})
  IN  [w EXCEPT
        !.order = w.order \o fresh,
        !.chunk = [c \in Contexts |-> IF c \in ToSet(fresh) THEN File(c) ELSE w.chunk[c]]]

\* Chunks of the SSR payload: installed in the order given, where absent.
seedChunks(w, seeds) ==
  LET fresh == Picked(seeds, {i \in DOMAIN seeds : ~hasChunk(w, seeds[i])})
      seeded == [w EXCEPT
        !.order = w.order \o fresh,
        !.chunk = [c \in Contexts |-> IF c \in ToSet(fresh) THEN File(c) ELSE w.chunk[c]]]
  IN  IF fresh = <<>> THEN w ELSE evictChunks(seeded, Last(fresh))

\* Mutant of applySwitchContext: the fallback is kept across locales too.
SwitchKeepsOutgoing(w, c, data) ==
  setChunk([w EXCEPT !.outgoing = IF w.current # NoContext THEN w.cached ELSE NoDict,
                     !.cached = data,
                     !.current = c], c, data)

\* Mutant of applySwitchContext: no fallback for the page that is leaving.
SwitchDropsOutgoing(w, c, data) ==
  setChunk([w EXCEPT !.outgoing = NoDict, !.cached = data, !.current = c], c, data)

\* Replace the active dictionary.  The old one is kept as a fallback for the
\* leaving page when the locale stays the same, and dropped otherwise.
applySwitchContext(w, c, data) ==
  LET sameLocale == w.current # NoContext /\ LocaleOf(w.current) = LocaleOf(c)
  IN  setChunk([w EXCEPT !.outgoing = IF sameLocale THEN w.cached ELSE NoDict,
                         !.cached = data,
                         !.current = c], c, data)

finishTransition(w) == [w EXCEPT !.outgoing = NoDict]

\* loadPageTranslations, and the synchronous tail of mergeTranslationAsync:
\* patch the chunk of c, and the active dictionary too when c is current.
patchContext(w, c, data) ==
  LET patched == mergeChunk(w, c, data)
  IN  IF c = w.current
      THEN [patched EXCEPT !.cached = Merged(w.cached, data)]
      ELSE patched

mergeTranslations(w, data) == patchContext(w, w.current, data)

\* Mutant of setTranslation: only the active dictionary is written.
SetTranslationShown(w, l, value) == [w EXCEPT !.cached[l] = value]

\* setTranslation(l, value): at one leaf, in the dictionary and in the chunk.
setTranslation(w, l, value) ==
  setChunk([w EXCEPT !.cached[l] = value], w.current,
           [w.chunk[w.current] EXCEPT ![l] = value])

\* Mutant of clearCache: both dictionaries are nulled.
ClearToNull(w) ==
  [w EXCEPT !.order = <<>>, !.chunk = [c \in Contexts |-> EmptyDict],
            !.cached = NoDict, !.outgoing = NoDict]

clearCache(w) ==
  [w EXCEPT !.order = <<>>, !.chunk = [c \in Contexts |-> EmptyDict],
            !.cached = EmptyDict, !.outgoing = NoDict]

\* What $t answers for a leaf: the active dictionary, then the outgoing one.
resolveLookup(w, l) ==
  IF w.cached[l] # Absent \/ w.outgoing = NoDict THEN w.cached[l] ELSE w.outgoing[l]

=============================================================================
