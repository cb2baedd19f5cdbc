---------------------- MODULE TranslationLoaderProofs ----------------------
(***************************************************************************)
(* TranslationLoader's properties, for every set of contexts, leaves,      *)
(* patches and payloads, every size of the chunk Map and every number of   *)
(* waiting calls.                                                          *)
(*                                                                         *)
(* No value leaks into another context, and a call waits exactly while its *)
(* load is in flight.  The first is not inductive by itself: a dictionary  *)
(* also travels through the calls that wait for a load and through the     *)
(* continuations that are due, so IInv covers these (NoLeakInFlight).      *)
(*                                                                         *)
(* The chunk Map keeps its bound, the active chunk and the patches: MapInv *)
(* adds ChunksOK of NuxtI18nProofs.                                        *)
(*                                                                         *)
(* What the page shows is kept: ShownInv adds what is known of the data a  *)
(* call brings when it resumes.                                            *)
(***************************************************************************)
EXTENDS TranslationLoader, NuxtI18nProofs, TLAPS

\* The one view with the given fields, as a set of records.
Records(order, chunk, cached, outgoing, current, max) ==
  [order : {order}, chunk : {chunk}, cached : {cached},
   outgoing : {outgoing}, current : {current}, max : {max}]

\* What the proofs need to know of a view: its fields and the types of those
\* that hold dictionaries.  The key order of the chunk Map is immaterial.
IsView(w) ==
  /\ w \in Records(w.order, w.chunk, w.cached, w.outgoing, w.current, w.max)
  /\ w.chunk \in [Contexts -> Dicts]
  /\ w.cached \in Dicts
  /\ w.outgoing \in Dicts \union {NoDict}
  /\ w.current \in Contexts \union {NoContext}

ViewNoLeak(w) ==
  /\ IsView(w)
  /\ \A c \in Contexts : WrittenFor(w.chunk[c], {c})
  /\ WrittenFor(w.cached, {w.current})
  /\ w.outgoing # NoDict =>
       WrittenFor(w.outgoing, {c \in Contexts : LocaleOf(c) = LocaleOf(w.current)})

LEMMA EmptyIsNoLeak ==
  /\ EmptyDict \in Dicts
  /\ \A C : WrittenFor(EmptyDict, C)
  BY DEF EmptyDict, Dicts, WrittenFor

LEMMA PatchIsOwn ==
  ASSUME NEW c \in Contexts, NEW S
  PROVE  Patch(c, S) \in Dicts /\ WrittenFor(Patch(c, S), {c})
  BY DEF Patch, Fragment, Dicts, Values, WrittenFor

LEMMA FileIsOwn ==
  ASSUME NEW c \in Contexts
  PROVE  File(c) \in Dicts /\ WrittenFor(File(c), {c})
  BY DEF File, Fragment, Dicts, Values, WrittenFor

LEMMA MergedIsOwn ==
  ASSUME NEW C, NEW a \in Dicts, NEW b \in Dicts, WrittenFor(a, C), WrittenFor(b, C)
  PROVE  Merged(a, b) \in Dicts /\ WrittenFor(Merged(a, b), C)
  BY DEF Merged, Dicts, WrittenFor

\* A subset of the values may come from a larger set of contexts.
LEMMA WrittenForMore ==
  ASSUME NEW d, NEW C, NEW D, C \subseteq D, WrittenFor(d, C)
  PROVE  WrittenFor(d, D)
  BY DEF WrittenFor

-----------------------------------------------------------------------------
(* The methods of the view layer. *)

\* evictChunks, whatever it evicts, only empties chunks.
LEMMA EvictNoLeak ==
  ASSUME NEW u, ViewNoLeak(u), NEW keep
  PROVE  ViewNoLeak(evictChunks(u, keep))
<1> DEFINE gone == Evicted(u, keep)
           order == Picked(u.order, {i \in DOMAIN u.order : u.order[i] \notin gone})
           chunk == [d \in Contexts |-> IF d \in gone THEN EmptyDict ELSE u.chunk[d]]
           v == [u EXCEPT !.order = order, !.chunk = chunk]
<1>1. v = evictChunks(u, keep)
  BY DEF evictChunks
<1> HIDE DEF gone, order
<1>2. chunk \in [Contexts -> Dicts]
  BY EmptyIsNoLeak DEF IsView, ViewNoLeak
<1>3. \A d \in Contexts : WrittenFor(chunk[d], {d})
  BY EmptyIsNoLeak DEF ViewNoLeak
<1> HIDE DEF chunk
<1>4. v \in Records(order, chunk, u.cached, u.outgoing, u.current, u.max)
  BY DEF ViewNoLeak, IsView, Records
<1> HIDE DEF v
<1>5. /\ v \in Records(v.order, v.chunk, v.cached, v.outgoing, v.current, v.max)
      /\ v.chunk = chunk /\ v.cached = u.cached
      /\ v.outgoing = u.outgoing /\ v.current = u.current
  BY <1>4 DEF Records
<1>6. ViewNoLeak(v)
  BY <1>2, <1>3, <1>5 DEF ViewNoLeak, IsView
<1>7. QED
  BY <1>1, <1>6

\* Installing a dictionary of c as the chunk of c.
LEMMA SetChunkNoLeak ==
  ASSUME NEW w, ViewNoLeak(w), NEW c \in Contexts, NEW data \in Dicts,
         WrittenFor(data, {c})
  PROVE  ViewNoLeak(setChunk(w, c, data))
<1> DEFINE u == [w EXCEPT !.order = With(w.order, c), !.chunk[c] = data]
<1>1. u \in Records(With(w.order, c), [w.chunk EXCEPT ![c] = data],
                  w.cached, w.outgoing, w.current, w.max)
  BY DEF ViewNoLeak, IsView, Records
<1>2. setChunk(w, c, data) = evictChunks(u, c)
  BY DEF setChunk
<1> HIDE DEF u
<1>3. /\ u \in Records(u.order, u.chunk, u.cached, u.outgoing, u.current, u.max)
      /\ u.chunk = [w.chunk EXCEPT ![c] = data]
      /\ u.cached = w.cached /\ u.outgoing = w.outgoing
      /\ u.current = w.current
  BY <1>1 DEF Records
<1>4. ViewNoLeak(u)
  BY <1>3 DEF ViewNoLeak, IsView
<1>5. QED
  BY <1>2, <1>4, EvictNoLeak

\* setChunk leaves the current context alone.
LEMMA SetChunkCurrent ==
  ASSUME NEW w, ViewNoLeak(w), NEW c, NEW data
  PROVE  /\ setChunk(w, c, data).current = w.current
         /\ setChunk(w, c, data).cached = w.cached
<1> DEFINE u == [w EXCEPT !.order = With(w.order, c), !.chunk[c] = data]
<1>1. u \in Records(With(w.order, c), [w.chunk EXCEPT ![c] = data],
                  w.cached, w.outgoing, w.current, w.max)
  BY DEF ViewNoLeak, IsView, Records
<1> DEFINE order == Picked(u.order, {i \in DOMAIN u.order : u.order[i] \notin Evicted(u, c)})
           chunk == [d \in Contexts |->
                       IF d \in Evicted(u, c) THEN EmptyDict ELSE u.chunk[d]]
<1>2. setChunk(w, c, data) = [u EXCEPT !.order = order, !.chunk = chunk]
  BY DEF setChunk, evictChunks
<1> HIDE DEF u, order, chunk
<1>3. u.current = w.current /\ u.cached = w.cached
  BY <1>1 DEF Records
<1>4. [u EXCEPT !.order = order, !.chunk = chunk] \in
        Records(order, chunk, u.cached, u.outgoing, u.current, u.max)
  BY <1>1 DEF Records
<1>5. QED
  BY <1>2, <1>3, <1>4 DEF Records

LEMMA MergeChunkNoLeak ==
  ASSUME NEW w, ViewNoLeak(w), NEW c \in Contexts, NEW data \in Dicts,
         WrittenFor(data, {c})
  PROVE  ViewNoLeak(mergeChunk(w, c, data))
<1>1. w.chunk[c] \in Dicts /\ WrittenFor(w.chunk[c], {c})
  BY DEF ViewNoLeak, IsView
<1>2. Merged(w.chunk[c], data) \in Dicts /\ WrittenFor(Merged(w.chunk[c], data), {c})
  BY <1>1, MergedIsOwn
<1>3. QED
  BY <1>2, SetChunkNoLeak DEF mergeChunk

LEMMA SeedNoLeak ==
  ASSUME NEW w, ViewNoLeak(w), NEW seeds
  PROVE  ViewNoLeak(seedChunks(w, seeds))
<1> DEFINE fresh == Picked(seeds, {i \in DOMAIN seeds : ~hasChunk(w, seeds[i])})
           order == w.order \o fresh
           chunk == [c \in Contexts |-> IF c \in ToSet(fresh) THEN File(c) ELSE w.chunk[c]]
           u == [w EXCEPT !.order = order, !.chunk = chunk]
<1>1. seedChunks(w, seeds) = IF fresh = <<>> THEN w ELSE evictChunks(u, Last(fresh))
  BY DEF seedChunks
<1> HIDE DEF fresh
<1>2. chunk \in [Contexts -> Dicts]
  BY FileIsOwn DEF ViewNoLeak, IsView
<1>3. \A c \in Contexts : WrittenFor(chunk[c], {c})
  BY FileIsOwn DEF ViewNoLeak
<1> HIDE DEF order, chunk
<1>4. u \in Records(order, chunk, w.cached, w.outgoing, w.current, w.max)
  BY DEF ViewNoLeak, IsView, Records
<1> HIDE DEF u
<1>5. /\ u \in Records(u.order, u.chunk, u.cached, u.outgoing, u.current, u.max)
      /\ u.chunk = chunk /\ u.cached = w.cached
      /\ u.outgoing = w.outgoing /\ u.current = w.current
  BY <1>4 DEF Records
<1>6. ViewNoLeak(u)
  BY <1>2, <1>3, <1>5 DEF ViewNoLeak, IsView
<1>7. QED
  BY <1>1, <1>6, EvictNoLeak

\* Across locales the old dictionary is dropped; within a locale its values
\* are all of that locale.
LEMMA SwitchNoLeak ==
  ASSUME NEW w, ViewNoLeak(w), NEW c \in Contexts, NEW data \in Dicts,
         WrittenFor(data, {c})
  PROVE  ViewNoLeak(applySwitchContext(w, c, data))
<1> DEFINE sameLocale == w.current # NoContext /\ LocaleOf(w.current) = LocaleOf(c)
           outgoing == IF sameLocale THEN w.cached ELSE NoDict
           u == [w EXCEPT !.outgoing = outgoing, !.cached = data, !.current = c]
           same == {d \in Contexts : LocaleOf(d) = LocaleOf(c)}
<1>1. applySwitchContext(w, c, data) = setChunk(u, c, data)
  BY DEF applySwitchContext
<1>2. outgoing # NoDict => WrittenFor(outgoing, same)
  <2>1. CASE sameLocale
    <3>1. w.current \in same
      BY <2>1 DEF ViewNoLeak, IsView
    <3>2. WrittenFor(w.cached, same)
      BY <3>1, WrittenForMore DEF ViewNoLeak
    <3>3. QED
      BY <3>2, <2>1
  <2>2. CASE ~sameLocale
    BY <2>2
  <2>3. QED
    BY <2>1, <2>2
<1>3. outgoing \in Dicts \union {NoDict}
  BY DEF ViewNoLeak, IsView
<1> HIDE DEF outgoing
<1>4. u \in Records(w.order, w.chunk, data, outgoing, c, w.max)
  BY DEF ViewNoLeak, IsView, Records
<1> HIDE DEF u
<1>5. /\ u \in Records(u.order, u.chunk, u.cached, u.outgoing, u.current, u.max)
      /\ u.chunk = w.chunk /\ u.cached = data
      /\ u.outgoing = outgoing /\ u.current = c
  BY <1>4 DEF Records
<1>6. ViewNoLeak(u)
  BY <1>2, <1>3, <1>5 DEF ViewNoLeak, IsView
<1>7. QED
  BY <1>1, <1>6, SetChunkNoLeak

LEMMA FinishNoLeak ==
  ASSUME NEW w, ViewNoLeak(w)
  PROVE  ViewNoLeak(finishTransition(w))
<1> DEFINE u == finishTransition(w)
<1>1. u \in Records(w.order, w.chunk, w.cached, NoDict, w.current, w.max)
  BY DEF ViewNoLeak, IsView, Records, finishTransition
<1> HIDE DEF u
<1>2. /\ u \in Records(u.order, u.chunk, u.cached, u.outgoing, u.current, u.max)
      /\ u.chunk = w.chunk /\ u.cached = w.cached
      /\ u.outgoing = NoDict /\ u.current = w.current
  BY <1>1 DEF Records
<1>3. ViewNoLeak(u)
  BY <1>2 DEF ViewNoLeak, IsView
<1>4. QED
  BY <1>3 DEF u

\* Writing values of the current context into the active dictionary.
LEMMA ShowNoLeak ==
  ASSUME NEW w, ViewNoLeak(w), NEW data \in Dicts, WrittenFor(data, {w.current})
  PROVE  ViewNoLeak([w EXCEPT !.cached = data])
<1> DEFINE u == [w EXCEPT !.cached = data]
<1>1. u \in Records(w.order, w.chunk, data, w.outgoing, w.current, w.max)
  BY DEF ViewNoLeak, IsView, Records
<1> HIDE DEF u
<1>2. /\ u \in Records(u.order, u.chunk, u.cached, u.outgoing, u.current, u.max)
      /\ u.chunk = w.chunk /\ u.cached = data
      /\ u.outgoing = w.outgoing /\ u.current = w.current
  BY <1>1 DEF Records
<1>3. ViewNoLeak(u)
  BY <1>2 DEF ViewNoLeak, IsView
<1>4. QED
  BY <1>3 DEF u

LEMMA PatchNoLeak ==
  ASSUME NEW w, ViewNoLeak(w), NEW c \in Contexts, NEW data \in Dicts,
         WrittenFor(data, {c})
  PROVE  ViewNoLeak(patchContext(w, c, data))
<1> DEFINE patched == mergeChunk(w, c, data)
<1>1. ViewNoLeak(patched) /\ patched.current = w.current
  BY MergeChunkNoLeak, SetChunkCurrent DEF mergeChunk
<1>2. CASE c = w.current
  <2>1. w.cached \in Dicts /\ WrittenFor(w.cached, {c})
    BY <1>2 DEF ViewNoLeak, IsView
  <2>2. Merged(w.cached, data) \in Dicts /\ WrittenFor(Merged(w.cached, data), {c})
    BY <2>1, MergedIsOwn
  <2> HIDE DEF patched
  <2>3. ViewNoLeak([patched EXCEPT !.cached = Merged(w.cached, data)])
    BY <1>1, <1>2, <2>2, ShowNoLeak
  <2>4. QED
    BY <1>2, <2>3 DEF patchContext, patched
<1>3. CASE c # w.current
  BY <1>1, <1>3 DEF patchContext
<1>4. QED
  BY <1>2, <1>3

LEMMA SetTranslationNoLeak ==
  ASSUME NEW w, ViewNoLeak(w), w.current \in Contexts, NEW l \in Leaves,
         NEW value \in Values, value.ctx = w.current
  PROVE  ViewNoLeak(setTranslation(w, l, value))
<1> DEFINE shown == [w.cached EXCEPT ![l] = value]
           chunk == [w.chunk[w.current] EXCEPT ![l] = value]
           u == [w EXCEPT !.cached = shown]
<1>1. shown \in Dicts /\ WrittenFor(shown, {w.current})
  BY DEF ViewNoLeak, IsView, WrittenFor, Dicts
<1>2. chunk \in Dicts /\ WrittenFor(chunk, {w.current})
  BY DEF ViewNoLeak, IsView, WrittenFor, Dicts
<1>3. [w EXCEPT !.cached[l] = value] = u
  OBVIOUS
<1>4. ViewNoLeak(u)
  <2> HIDE DEF shown
  <2>1. QED
    BY <1>1, ShowNoLeak
<1>5. setTranslation(w, l, value) = setChunk(u, w.current, chunk)
  BY <1>3 DEF setTranslation
<1> HIDE DEF u, chunk
<1>6. QED
  BY <1>2, <1>4, <1>5, SetChunkNoLeak

LEMMA ClearNoLeak ==
  ASSUME NEW w, ViewNoLeak(w)
  PROVE  ViewNoLeak(clearCache(w))
<1> DEFINE u == clearCache(w)
           chunk == [c \in Contexts |-> EmptyDict]
<1>1. u \in Records(<<>>, chunk, EmptyDict, NoDict, w.current, w.max)
  BY DEF ViewNoLeak, IsView, Records, clearCache
<1>2. chunk \in [Contexts -> Dicts] /\ \A c \in Contexts : WrittenFor(chunk[c], {c})
  BY EmptyIsNoLeak
<1> HIDE DEF u, chunk
<1>3. /\ u \in Records(u.order, u.chunk, u.cached, u.outgoing, u.current, u.max)
      /\ u.chunk = chunk /\ u.cached = EmptyDict
      /\ u.outgoing = NoDict /\ u.current = w.current
  BY <1>1 DEF Records
<1>4. ViewNoLeak(u)
  BY <1>2, <1>3, EmptyIsNoLeak DEF ViewNoLeak, IsView
<1>5. QED
  BY <1>4 DEF u

-----------------------------------------------------------------------------
(* The loader. *)

\* A call for c, with a patch of c.
OwnCalls(c) == {call \in Calls : call.ctx = c /\ WrittenFor(call.patch, {c})}

\* A continuation of a call for some c, with data of c.
Due ==
  {r \in [call : Calls, data : Dicts] :
     WrittenFor(r.call.patch, {r.call.ctx}) /\ WrittenFor(r.data, {r.call.ctx})}

\* What waits and what is due carries values of its own context only.
NoLeakInFlight ==
  /\ waiting = [c \in Contexts |-> waiting[c]]
  /\ \A c \in Contexts : waiting[c] \in Seq(OwnCalls(c))
  /\ ready \in Seq(Due)

LoadTypes ==
  /\ stored \subseteq Contexts
  /\ load \in [Contexts -> {"none", "hit", "fetching"}]
  /\ raced \subseteq Contexts

\* The inductive invariant.
IInv ==
  /\ ViewNoLeak(view)
  /\ NoLeakInFlight
  /\ LoadTypes
  /\ CallsAwaitLoads

LEMMA InitInv == Init => IInv
<1> SUFFICES ASSUME Init PROVE IInv
  OBVIOUS
<1>1. PICK max \in CacheSizes : view = NewView(max)
  BY DEF Init
<1>2. ViewNoLeak(view)
  <2> DEFINE chunk == [c \in Contexts |-> EmptyDict]
  <2>1. chunk \in [Contexts -> Dicts] /\ \A c \in Contexts : WrittenFor(chunk[c], {c})
    BY EmptyIsNoLeak
  <2> HIDE DEF chunk
  <2>2. view \in Records(<<>>, chunk, EmptyDict, NoDict, NoContext, max)
    BY <1>1 DEF NewView, Records, chunk
  <2>3. QED
    BY <2>1, <2>2, EmptyIsNoLeak DEF ViewNoLeak, IsView, Records
<1>3. NoLeakInFlight
  BY DEF Init, NoLeakInFlight
<1>4. LoadTypes /\ CallsAwaitLoads
  BY DEF Init, LoadTypes, CallsAwaitLoads
<1>5. QED
  BY <1>2, <1>3, <1>4 DEF IInv

\* A call that begins to wait.
LEMMA WaitInv ==
  ASSUME IInv, NEW c \in Contexts, NEW call \in OwnCalls(c), NEW hit \in BOOLEAN,
         loadAsync(c, call, hit)
  PROVE  /\ LoadTypes' /\ CallsAwaitLoads'
         /\ waiting' = [d \in Contexts |-> waiting'[d]]
         /\ \A d \in Contexts : waiting'[d] \in Seq(OwnCalls(d))
<1>1. waiting' = [waiting EXCEPT ![c] = Append(@, call)]
  BY DEF loadAsync
<1>2. load' = [load EXCEPT ![c] = IF @ # "none" THEN @ ELSE IF hit THEN "hit" ELSE "fetching"]
  BY DEF loadAsync
<1>3. waiting = [d \in Contexts |-> waiting[d]] /\ \A d \in Contexts : waiting[d] \in Seq(OwnCalls(d))
  BY DEF IInv, NoLeakInFlight
<1>4. \A d \in Contexts : waiting'[d] = IF d = c THEN Append(waiting[c], call) ELSE waiting[d]
  BY <1>1, <1>3
<1>5. \A d \in Contexts : waiting'[d] \in Seq(OwnCalls(d))
  <2>1. Append(waiting[c], call) \in Seq(OwnCalls(c))
    BY <1>3
  <2>2. QED
    BY <1>3, <1>4, <2>1
<1>6. LoadTypes'
  BY <1>2 DEF IInv, LoadTypes, loadAsync
<1>7. waiting'[c] # <<>> /\ load'[c] # "none"
  <2>1. Append(waiting[c], call) # <<>>
    <3> DEFINE q == waiting[c]
    <3>1. q \in Seq(OwnCalls(c))
      BY <1>3
    <3> HIDE DEF q
    <3>2. Append(q, call) # <<>>
      BY <3>1
    <3> QED BY <3>2 DEF q
  <2>2. QED
    BY <1>2, <1>4, <2>1 DEF IInv, LoadTypes
<1>8. \A d \in Contexts : d # c => waiting'[d] = waiting[d] /\ load'[d] = load[d]
  BY <1>2, <1>4 DEF IInv, LoadTypes
<1>9. CallsAwaitLoads'
  BY <1>7, <1>8 DEF IInv, CallsAwaitLoads
<1>10. QED
  BY <1>1, <1>3, <1>5, <1>6, <1>9

\* A load that ends with data of its own context.
LEMMA SettleInv ==
  ASSUME IInv, NEW c \in Contexts, NEW data \in Dicts, WrittenFor(data, {c}),
         Settle(c, data), stored' \subseteq Contexts, raced' \subseteq Contexts
  PROVE  NoLeakInFlight' /\ LoadTypes' /\ CallsAwaitLoads'
<1> DEFINE due == [i \in DOMAIN waiting[c] |-> [call |-> waiting[c][i], data |-> data]]
<1>1. waiting' = [waiting EXCEPT ![c] = <<>>] /\ load' = [load EXCEPT ![c] = "none"]
  BY DEF Settle
<1>2. ready' = ready \o due
  BY DEF Settle
<1>3. waiting[c] \in Seq(OwnCalls(c))
  BY DEF IInv, NoLeakInFlight
<1>4. \A i \in DOMAIN waiting[c] : [call |-> waiting[c][i], data |-> data] \in Due
  <2> SUFFICES ASSUME NEW i \in DOMAIN waiting[c]
               PROVE  [call |-> waiting[c][i], data |-> data] \in Due
    OBVIOUS
  <2>1. waiting[c][i] \in OwnCalls(c)
    BY <1>3
  <2>2. QED
    BY <2>1 DEF OwnCalls, Due
<1>5. due \in Seq(Due)
  <2>1. DOMAIN waiting[c] = 1..Len(waiting[c]) /\ Len(waiting[c]) \in Nat
    BY <1>3
  <2>2. due \in [1..Len(waiting[c]) -> Due]
    BY <2>1, <1>4
  <2> HIDE DEF due
  <2>3. QED
    BY <2>1, <2>2
<1> HIDE DEF due
<1>6. NoLeakInFlight'
  <2>1. ready' \in Seq(Due)
    BY <1>2, <1>5 DEF IInv, NoLeakInFlight
  <2>2. /\ waiting = [d \in Contexts |-> waiting[d]]
        /\ \A d \in Contexts : waiting[d] \in Seq(OwnCalls(d))
    BY DEF IInv, NoLeakInFlight
  <2>3. waiting' = [d \in Contexts |-> IF d = c THEN <<>> ELSE waiting[d]]
    BY <1>1, <2>2
  <2>4. /\ waiting' = [d \in Contexts |-> waiting'[d]]
        /\ \A d \in Contexts : waiting'[d] \in Seq(OwnCalls(d))
    BY <2>2, <2>3
  <2>5. QED
    BY <2>1, <2>4 DEF NoLeakInFlight
<1>7. LoadTypes'
  BY <1>1 DEF IInv, LoadTypes
<1>8. CallsAwaitLoads'
  BY <1>1 DEF IInv, LoadTypes, NoLeakInFlight, CallsAwaitLoads
<1>9. QED
  BY <1>6, <1>7, <1>8

-----------------------------------------------------------------------------
(* The steps. *)

LEMMA SwitchContextInv ==
  ASSUME IInv, NEW c \in Contexts, switchContext(c)
  PROVE  IInv'
<1>1. ViewNoLeak(view) /\ view.chunk[c] \in Dicts /\ WrittenFor(view.chunk[c], {c})
  BY DEF IInv, ViewNoLeak, IsView
<1>2. CASE SwitchFromChunk(c)
  <2>1. ViewNoLeak(view')
    BY <1>1, <1>2, SwitchNoLeak DEF SwitchFromChunk, getChunk
  <2>2. QED
    BY <1>2, <2>1 DEF SwitchFromChunk, NoLoad, switchContext, IInv, NoLeakInFlight,
                      LoadTypes, CallsAwaitLoads
<1>3. CASE SwitchFromStorage(c)
  <2>1. ViewNoLeak(setChunk(view, c, File(c)))
    BY <1>1, FileIsOwn, SetChunkNoLeak
  <2>2. ViewNoLeak(view')
    BY <1>3, <2>1, FileIsOwn, SwitchNoLeak DEF SwitchFromStorage
  <2>3. QED
    BY <1>3, <2>2 DEF SwitchFromStorage, NoLoad, switchContext, IInv, NoLeakInFlight,
                      LoadTypes, CallsAwaitLoads
<1>4. CASE SwitchAfterLoad(c)
  <2> DEFINE call == [op |-> "switch", ctx |-> c, patch |-> EmptyDict]
  <2>1. call \in OwnCalls(c)
    BY EmptyIsNoLeak DEF OwnCalls, Calls
  <2>2. loadAsync(c, call, FALSE) /\ view' = view /\ ready' = ready
    BY <1>4 DEF SwitchAfterLoad, switchContext
  <2> HIDE DEF call
  <2>3. /\ LoadTypes' /\ CallsAwaitLoads' /\ waiting' = [d \in Contexts |-> waiting'[d]]
        /\ \A d \in Contexts : waiting'[d] \in Seq(OwnCalls(d))
    BY <2>1, <2>2, WaitInv
  <2>4. QED
    BY <1>1, <2>2, <2>3 DEF IInv, NoLeakInFlight
<1>5. QED
  BY <1>2, <1>3, <1>4 DEF switchContext

LEMMA MergeInv ==
  ASSUME IInv, NEW c \in Contexts, NEW data \in Dicts, WrittenFor(data, {c}),
         mergeTranslationAsync(c, data)
  PROVE  IInv'
<1>1. CASE MergeNow(c, data)
  <2>1. ViewNoLeak(view')
    BY <1>1, PatchNoLeak DEF MergeNow, IInv
  <2>2. QED
    BY <1>1, <2>1 DEF MergeNow, NoLoad, mergeTranslationAsync, IInv, NoLeakInFlight,
                      LoadTypes, CallsAwaitLoads
<1>2. CASE MergeAfterLoad(c, data)
  <2> DEFINE call == [op |-> "merge", ctx |-> c, patch |-> data]
  <2>1. call \in OwnCalls(c)
    BY DEF OwnCalls, Calls
  <2>2. PICK hit \in BOOLEAN : loadAsync(c, call, hit)
    BY <1>2 DEF MergeAfterLoad
  <2>3. view' = view /\ ready' = ready
    BY <1>2 DEF MergeAfterLoad, mergeTranslationAsync
  <2> HIDE DEF call
  <2>4. /\ LoadTypes' /\ CallsAwaitLoads' /\ waiting' = [d \in Contexts |-> waiting'[d]]
        /\ \A d \in Contexts : waiting'[d] \in Seq(OwnCalls(d))
    BY <2>1, <2>2, WaitInv
  <2>5. QED
    BY <2>3, <2>4 DEF IInv, NoLeakInFlight
<1>3. QED
  BY <1>1, <1>2 DEF mergeTranslationAsync

\* A call that only changes the view.
LEMMA EditInv ==
  ASSUME IInv, NEW v, ViewNoLeak(v), Edit(v)
  PROVE  IInv'
  BY DEF Edit, IInv, NoLeakInFlight, LoadTypes, CallsAwaitLoads

LEMMA StartedContext ==
  ASSUME IInv, Started
  PROVE  view.current \in Contexts
  BY DEF IInv, ViewNoLeak, IsView, Started

LEMMA MergeTranslationsInv ==
  ASSUME IInv, NEW S, MergeTranslations(S)
  PROVE  IInv'
<1>1. view.current \in Contexts
  BY StartedContext DEF MergeTranslations, Edit
<1>2. ViewNoLeak(mergeTranslations(view, Patch(view.current, S)))
  BY <1>1, PatchIsOwn, PatchNoLeak DEF mergeTranslations, IInv
<1>3. QED
  BY <1>2, EditInv DEF MergeTranslations

LEMMA SetTranslationInv ==
  ASSUME IInv, NEW l \in Leaves, SetTranslation(l)
  PROVE  IInv'
<1> DEFINE value == Patch(view.current, {l})[l]
<1>1. view.current \in Contexts
  BY StartedContext DEF SetTranslation, Edit
<1>2. value \in Values /\ value.ctx = view.current
  BY <1>1 DEF Patch, Fragment, Values
<1> HIDE DEF value
<1>3. ViewNoLeak(setTranslation(view, l, value))
  BY <1>1, <1>2, SetTranslationNoLeak DEF IInv
<1>4. QED
  BY <1>3, EditInv DEF SetTranslation, value

LEMMA ClearInv ==
  ASSUME IInv, ClearCache
  PROVE  IInv'
<1>1. ViewNoLeak(view')
  BY ClearNoLeak DEF ClearCache, IInv
<1>2. QED
  BY <1>1 DEF ClearCache, IInv, NoLeakInFlight, LoadTypes, CallsAwaitLoads

LEMMA LoadDoneInv ==
  ASSUME IInv, NEW c \in Contexts, LoadDone(c)
  PROVE  IInv'
<1> DEFINE chunk == Merged(File(c), getChunk(view, c))
<1>1. view.chunk[c] \in Dicts /\ WrittenFor(view.chunk[c], {c})
  BY DEF IInv, ViewNoLeak, IsView
<1>2. chunk \in Dicts /\ WrittenFor(chunk, {c})
  BY <1>1, FileIsOwn, MergedIsOwn DEF getChunk
<1>3. /\ view' = setChunk(view, c, chunk) /\ Settle(c, chunk)
      /\ stored' = stored \union {c} /\ raced' = raced
  BY DEF LoadDone
<1> HIDE DEF chunk
<1>4. ViewNoLeak(view')
  BY <1>2, <1>3, SetChunkNoLeak DEF IInv
<1>5. NoLeakInFlight' /\ LoadTypes' /\ CallsAwaitLoads'
  BY <1>2, <1>3, SettleInv DEF IInv, LoadTypes
<1>6. QED
  BY <1>4, <1>5 DEF IInv

LEMMA LoadFailedInv ==
  ASSUME IInv, NEW c \in Contexts, LoadFailed(c)
  PROVE  IInv'
<1>1. view' = view /\ Settle(c, EmptyDict) /\ stored' = stored /\ raced' \subseteq Contexts
  BY DEF LoadFailed, IInv, LoadTypes
<1>2. NoLeakInFlight' /\ LoadTypes' /\ CallsAwaitLoads'
  BY <1>1, EmptyIsNoLeak, SettleInv DEF IInv, LoadTypes
<1>3. QED
  BY <1>1, <1>2 DEF IInv

LEMMA ResumeInv ==
  ASSUME IInv, Resume
  PROVE  IInv'
<1> DEFINE call == Head(ready).call
           data == Head(ready).data
<1>1. Head(ready) \in Due /\ Tail(ready) \in Seq(Due)
  BY DEF Resume, IInv, NoLeakInFlight
<1>2. /\ call.ctx \in Contexts /\ call.patch \in Dicts /\ data \in Dicts
      /\ WrittenFor(call.patch, {call.ctx}) /\ WrittenFor(data, {call.ctx})
  BY <1>1 DEF Due, Calls
<1>3. view' = IF call.op = "switch"
              THEN applySwitchContext(view, call.ctx, data)
              ELSE patchContext(setChunk(view, call.ctx, data), call.ctx, call.patch)
  BY DEF Resume
<1> HIDE DEF call, data
<1>4. ViewNoLeak(applySwitchContext(view, call.ctx, data))
  BY <1>2, SwitchNoLeak DEF IInv
<1>5. ViewNoLeak(setChunk(view, call.ctx, data))
  BY <1>2, SetChunkNoLeak DEF IInv
<1>6. ViewNoLeak(patchContext(setChunk(view, call.ctx, data), call.ctx, call.patch))
  BY <1>2, <1>5, PatchNoLeak
<1>7. ViewNoLeak(view')
  BY <1>3, <1>4, <1>6
<1>8. QED
  BY <1>1, <1>7 DEF Resume, IInv, NoLeakInFlight, LoadTypes, CallsAwaitLoads

LEMMA NextInv == IInv /\ [Next]_vars => IInv'
<1> SUFFICES ASSUME IInv, [Next]_vars PROVE IInv'
  OBVIOUS
<1>1. ASSUME NEW c \in Contexts, switchContext(c) PROVE IInv'
  BY <1>1, SwitchContextInv
<1>2. ASSUME NEW c \in Contexts, LoadDone(c) PROVE IInv'
  BY <1>2, LoadDoneInv
<1>3. ASSUME NEW c \in Contexts, LoadFailed(c) PROVE IInv'
  BY <1>3, LoadFailedInv
<1>4. ASSUME NEW c \in Contexts, NEW S \in Patches, mergeTranslationAsync(c, Patch(c, S))
      PROVE  IInv'
  BY <1>4, PatchIsOwn, MergeInv
<1>5. ASSUME NEW c \in Contexts, NEW S \in Patches, LoadPageTranslations(c, Patch(c, S))
      PROVE  IInv'
  <2>1. ViewNoLeak(patchContext(view, c, Patch(c, S)))
    BY PatchIsOwn, PatchNoLeak DEF IInv
  <2>2. QED
    BY <1>5, <2>1, EditInv DEF LoadPageTranslations
<1>6. ASSUME NEW S \in Patches, MergeTranslations(S) PROVE IInv'
  BY <1>6, MergeTranslationsInv
<1>7. ASSUME NEW S \in Patches, NEW l \in S, SetTranslation(l) PROVE IInv'
  <2>1. l \in Leaves
    BY LoaderAssumption
  <2>2. QED
    BY <1>7, <2>1, SetTranslationInv
<1>8. ASSUME NEW seeds \in Payloads, SeedChunks(seeds) PROVE IInv'
  <2>1. ViewNoLeak(seedChunks(view, seeds))
    BY SeedNoLeak DEF IInv
  <2>2. QED
    BY <1>8, <2>1, EditInv DEF SeedChunks
<1>9. CASE FinishTransition
  <2>1. ViewNoLeak(finishTransition(view))
    BY FinishNoLeak DEF IInv
  <2>2. QED
    BY <1>9, <2>1, EditInv DEF FinishTransition
<1>10. CASE ClearCache
  BY <1>10, ClearInv
<1>11. CASE Resume
  BY <1>11, ResumeInv
<1>12. CASE UNCHANGED vars
  BY <1>12 DEF vars, IInv, NoLeakInFlight, LoadTypes, CallsAwaitLoads
<1>13. QED
  BY <1>1, <1>2, <1>3, <1>4, <1>5, <1>6, <1>7, <1>8, <1>9, <1>10, <1>11, <1>12 DEF Next

\* The invariant holds in every state the runtime reaches.
THEOREM LoaderInvariant == Spec => []IInv
  BY InitInv, NextInv, PTL DEF Spec

\* No value of one (locale, route) ever shows in the chunk or the dictionary
\* of another, through any interleaving of switches, loads that are late or
\* fail, patches, seeds, evictions and clears, for every bound of the Map.
THEOREM LoaderLeaksNothing == Spec => []NoLeakAcrossContexts
<1>1. IInv => NoLeakAcrossContexts
  BY DEF IInv, ViewNoLeak, NoLeakAcrossContexts
<1>2. QED
  BY <1>1, LoaderInvariant, PTL

\* A caller of loadAsync is never left behind: calls wait for c exactly while
\* a load of c is registered in pendingLoads.
THEOREM LoaderForgetsNoCall == Spec => []CallsAwaitLoads
<1>1. IInv => CallsAwaitLoads
  BY DEF IInv
<1>2. QED
  BY <1>1, LoaderInvariant, PTL

-----------------------------------------------------------------------------
(* The chunk Map.  Its invariant is ChunksOK of NuxtI18nProofs; what a step *)
(* may do to the Map is shown for each step together with it.               *)

MapInv == IInv /\ ChunksOK(view)

PatchAt(w, c, l) == w.chunk[c][l] # Absent /\ w.chunk[c][l].by = "patch"

\* The chunks other than c's are kept or dropped, never changed.
OthersKept(w, v, c) ==
  \A d \in Contexts \ {c} : hasChunk(v, d) => hasChunk(w, d) /\ v.chunk[d] = w.chunk[d]

PatchesKept(w, v, c) ==
  \A l \in Leaves : PatchAt(w, c, l) => v.chunk[c][l] = w.chunk[c][l]

\* A step that writes the chunk of one context and keeps the current one.
Gentle(v) ==
  /\ ChunksOK(v)
  /\ v.current = view.current => KeepsActive(view, v)
  /\ \E c \in Contexts :
       /\ OthersKept(view, v, c)
       /\ PatchesKept(view, v, c) \/ (ready # <<>> /\ Head(ready).call.ctx = c)

\* What is proved of a step.
StepKeeps ==
  /\ ChunksOK(view')
  /\ view.max # 1 /\ view'.current = view.current /\ hasChunk(view, view.current)
     => hasChunk(view', view.current) \/ view' = clearCache(view)
  /\ \A c \in Contexts, l \in Leaves :
       PatchAt(view, c, l) /\ hasChunk(view', c) /\ (ready = <<>> \/ Head(ready).call.ctx # c)
       => view'.chunk[c][l] = view.chunk[c][l]

LEMMA GentleKeeps ==
  ASSUME MapInv, Gentle(view')
  PROVE  StepKeeps
<1>1. PICK c \in Contexts :
        /\ OthersKept(view, view', c)
        /\ PatchesKept(view, view', c) \/ (ready # <<>> /\ Head(ready).call.ctx = c)
  BY DEF Gentle
<1>2. ASSUME NEW d \in Contexts, NEW l \in Leaves, PatchAt(view, d, l), hasChunk(view', d),
             ready = <<>> \/ Head(ready).call.ctx # d
      PROVE  view'.chunk[d][l] = view.chunk[d][l]
  BY <1>1, <1>2 DEF OthersKept, PatchesKept
<1> QED BY <1>2 DEF Gentle, StepKeeps, KeepsActive

\* Patches of one context are all the same value, so a patch over a patch
\* changes nothing of it.
LEMMA PatchOverPatch ==
  ASSUME NEW c \in Contexts, NEW base \in Dicts, WrittenFor(base, {c}), NEW S,
         NEW l \in Leaves, base[l] # Absent, base[l].by = "patch"
  PROVE  Merged(base, Patch(c, S))[l] = base[l]
<1>1. base[l] \in Values /\ base[l].ctx = c
  BY DEF Dicts, WrittenFor
<1>2. base[l] = [ctx |-> c, by |-> "patch"]
  BY <1>1 DEF Values
<1> QED BY <1>2 DEF Merged, Patch, Fragment

LEMMA OwnChunk ==
  ASSUME MapInv, NEW c \in Contexts
  PROVE  view.chunk[c] \in Dicts /\ WrittenFor(view.chunk[c], {c})
  BY DEF MapInv, IInv, ViewNoLeak, IsView

LEMMA PatchGentle ==
  ASSUME MapInv, NEW c \in Contexts, NEW S
  PROVE  Gentle(patchContext(view, c, Patch(c, S)))
<1> DEFINE v == patchContext(view, c, Patch(c, S))
<1>1. /\ ChunksOK(v) /\ KeepsActive(view, v)
      /\ v.chunk[c] = Merged(view.chunk[c], Patch(c, S))
      /\ OthersKept(view, v, c)
  BY MadeForIsDict, PatchKeeps DEF MapInv, OthersKept
<1> HIDE DEF v
<1>2. PatchesKept(view, v, c)
  <2> SUFFICES ASSUME NEW l \in Leaves, PatchAt(view, c, l)
               PROVE  v.chunk[c][l] = view.chunk[c][l]
    BY DEF PatchesKept
  <2>1. view.chunk[c] \in Dicts /\ WrittenFor(view.chunk[c], {c})
    BY OwnChunk
  <2>2. Merged(view.chunk[c], Patch(c, S))[l] = view.chunk[c][l]
    BY <2>1, PatchOverPatch DEF PatchAt
  <2> QED BY <1>1, <2>2
<1> QED BY <1>1, <1>2 DEF Gentle, v

LEMMA SwitchContextKeeps ==
  ASSUME MapInv, NEW c \in Contexts, switchContext(c)
  PROVE  StepKeeps
<1>1. CASE SwitchFromChunk(c)
  <2>1. hasChunk(view, c) /\ view' = applySwitchContext(view, c, view.chunk[c])
    BY <1>1 DEF SwitchFromChunk, getChunk
  <2>2. /\ ChunksOK(view') /\ view'.max = view.max /\ view'.current = c /\ hasChunk(view', c)
        /\ view'.chunk[c] = view.chunk[c] /\ OthersKept(view, view', c)
    <3>1. ChunksOK(view) /\ view.chunk[c] \in Dicts
      BY OwnChunk DEF MapInv
    <3> QED BY <2>1, <3>1, SwitchKeeps DEF OthersKept
  <2>3. Gentle(view')
    BY <2>2 DEF Gentle, KeepsActive, PatchesKept
  <2> QED BY <2>3, GentleKeeps
<1>2. CASE SwitchFromStorage(c)
  <2> DEFINE w == setChunk(view, c, File(c))
  <2>1. ~hasChunk(view, c) /\ view' = applySwitchContext(w, c, File(c))
    BY <1>2 DEF SwitchFromStorage
  <2>2. ChunksOK(w) /\ w.max = view.max /\ OthersKept(view, w, c)
    BY MadeForIsDict, SetChunkKeeps DEF MapInv, OthersKept, KeepsActive
  <2> HIDE DEF w
  <2>3. /\ ChunksOK(view') /\ view'.max = w.max /\ view'.current = c /\ hasChunk(view', c)
        /\ OthersKept(w, view', c)
    BY <2>1, <2>2, MadeForIsDict, SwitchKeeps DEF OthersKept
  <2>4. view.chunk[c] = EmptyDict
    BY <2>1 DEF MapInv, ChunksOK, Listed
  <2>5. PatchesKept(view, view', c)
    BY <2>4 DEF PatchesKept, PatchAt, EmptyDict
  <2>6. OthersKept(view, view', c)
    BY <2>2, <2>3 DEF OthersKept
  <2>7. Gentle(view')
    BY <2>2, <2>3, <2>5, <2>6 DEF Gentle, KeepsActive
  <2> QED BY <2>7, GentleKeeps
<1>3. CASE SwitchAfterLoad(c)
  BY <1>3 DEF SwitchAfterLoad, StepKeeps, MapInv
<1> QED BY <1>1, <1>2, <1>3 DEF switchContext

LEMMA LoadDoneKeeps ==
  ASSUME MapInv, NEW c \in Contexts, LoadDone(c)
  PROVE  StepKeeps
<1> DEFINE chunk == Merged(File(c), getChunk(view, c))
<1>1. chunk \in Dicts /\ view' = setChunk(view, c, chunk)
  BY OwnChunk, MadeForIsDict, MergedIsDict DEF LoadDone, getChunk
<1>2. \A l \in Leaves : PatchAt(view, c, l) => chunk[l] = view.chunk[c][l]
  BY DEF PatchAt, Merged, getChunk
<1> HIDE DEF chunk
<1>3. /\ ChunksOK(view') /\ KeepsActive(view, view') /\ view'.chunk[c] = chunk
      /\ OthersKept(view, view', c)
  BY <1>1, SetChunkKeeps DEF MapInv, OthersKept
<1>4. Gentle(view')
  BY <1>2, <1>3 DEF Gentle, PatchesKept
<1> QED BY <1>4, GentleKeeps

LEMMA ResumeKeeps ==
  ASSUME MapInv, Resume
  PROVE  StepKeeps
<1> DEFINE call == Head(ready).call
           data == Head(ready).data
<1>1. ready # <<>> /\ call.ctx \in Contexts /\ call.patch \in Dicts /\ data \in Dicts
  <2>1. Head(ready) \in Due
    BY DEF Resume, MapInv, IInv, NoLeakInFlight
  <2> QED BY <2>1 DEF Due, Calls, Resume
<1>2. view' = IF call.op = "switch"
              THEN applySwitchContext(view, call.ctx, data)
              ELSE patchContext(setChunk(view, call.ctx, data), call.ctx, call.patch)
  BY DEF Resume
<1> DEFINE c == call.ctx
           p == call.patch
<1>3. /\ c \in Contexts /\ p \in Dicts /\ data \in Dicts
      /\ ready # <<>> /\ Head(ready).call.ctx = c
  BY <1>1
<1> HIDE DEF call, data
<1>4. CASE call.op = "switch"
  <2>1. view' = applySwitchContext(view, c, data)
    BY <1>2, <1>4
  <2> HIDE DEF c, p
  <2>2. /\ ChunksOK(view') /\ view'.max = view.max /\ view'.current = c /\ hasChunk(view', c)
        /\ OthersKept(view, view', c)
    <3>1. ChunksOK(view)
      BY DEF MapInv
    <3> QED BY <1>3, <2>1, <3>1, SwitchKeeps DEF OthersKept
  <2>3. Gentle(view')
    BY <1>3, <2>2 DEF Gentle, KeepsActive
  <2> QED BY <2>3, GentleKeeps
<1>5. CASE call.op # "switch"
  <2> DEFINE w == setChunk(view, c, data)
  <2>1. view' = patchContext(w, c, p)
    BY <1>2, <1>5
  <2> HIDE DEF c, p
  <2>2. ChunksOK(w) /\ KeepsActive(view, w) /\ w.current = view.current /\ OthersKept(view, w, c)
    BY <1>3, SetChunkKeeps DEF MapInv, OthersKept
  <2> HIDE DEF w
  <2>3. /\ ChunksOK(view') /\ KeepsActive(w, view') /\ view'.current = w.current
        /\ OthersKept(w, view', c)
    BY <1>3, <2>1, <2>2, PatchKeeps DEF OthersKept
  <2>4. OthersKept(view, view', c) /\ KeepsActive(view, view')
    BY <2>2, <2>3 DEF OthersKept, KeepsActive
  <2>5. Gentle(view')
    BY <1>3, <2>3, <2>4 DEF Gentle
  <2> QED BY <2>5, GentleKeeps
<1> QED BY <1>4, <1>5

LEMMA SetTranslationStepKeeps ==
  ASSUME MapInv, NEW l \in Leaves, SetTranslation(l)
  PROVE  StepKeeps
<1> DEFINE value == Patch(view.current, {l})[l]
           c     == view.current
<1>1. c \in Contexts
  BY StartedContext DEF SetTranslation, Edit, MapInv
<1>2. value = [ctx |-> c, by |-> "patch"] /\ value \in Values
  BY <1>1 DEF Patch, Fragment, Values
<1>3. view' = setTranslation(view, l, value)
  BY DEF SetTranslation, Edit
<1> HIDE DEF value
<1>4. /\ ChunksOK(view') /\ KeepsActive(view, view')
      /\ OthersKept(view, view', c)
      /\ view'.chunk[c] = [view.chunk[c] EXCEPT ![l] = value]
  <2> DEFINE v == setTranslation(view, l, value)
  <2>1. /\ ChunksOK(v) /\ KeepsActive(view, v)
        /\ \A d \in Contexts \ {c} :
             hasChunk(v, d) => hasChunk(view, d) /\ v.chunk[d] = view.chunk[d]
        /\ v.chunk[c] = [view.chunk[c] EXCEPT ![l] = value]
    <3>1. ChunksOK(view) /\ view.current \in Contexts /\ value \in Values
      BY <1>1, <1>2 DEF MapInv
    <3>2. /\ ChunksOK(v) /\ KeepsActive(view, v)
          /\ \A d \in Contexts \ {view.current} :
               hasChunk(v, d) => hasChunk(view, d) /\ v.chunk[d] = view.chunk[d]
          /\ v.chunk[view.current] = AtLeaf(view.chunk[view.current], l, value)
      BY <3>1, SetTranslationKeeps
    <3> QED BY <3>2 DEF AtLeaf
  <2> HIDE DEF v
  <2>2. view' = v
    BY <1>3 DEF v
  <2> QED BY <2>1, <2>2 DEF OthersKept
<1>5. \A k \in Leaves : PatchAt(view, c, k) => view.chunk[c][k] = [ctx |-> c, by |-> "patch"]
  <2> TAKE k \in Leaves
  <2> HAVE PatchAt(view, c, k)
  <2>1. view.chunk[c][k] \in Values /\ view.chunk[c][k].ctx = c
    BY <1>1, OwnChunk DEF PatchAt, Dicts, WrittenFor
  <2> QED BY <2>1 DEF Values, PatchAt
<1>6. view.chunk[c] \in [Leaves -> Values \union {Absent}]
  BY <1>1, OwnChunk DEF Dicts
<1>7. PatchesKept(view, view', c)
  BY <1>2, <1>4, <1>5, <1>6 DEF PatchesKept
<1> QED BY <1>1, <1>4, <1>7, GentleKeeps DEF Gentle

LEMMA MapStep ==
  ASSUME MapInv, [Next]_vars
  PROVE  StepKeeps
<1>1. ASSUME NEW c \in Contexts, switchContext(c) PROVE StepKeeps
  BY <1>1, SwitchContextKeeps
<1>2. ASSUME NEW c \in Contexts, LoadDone(c) PROVE StepKeeps
  BY <1>2, LoadDoneKeeps
<1>3. ASSUME view' = view PROVE StepKeeps
  BY <1>3 DEF StepKeeps, MapInv
<1>4. ASSUME NEW c \in Contexts, LoadFailed(c) PROVE StepKeeps
  BY <1>3, <1>4 DEF LoadFailed
<1>5. ASSUME NEW c \in Contexts, NEW S \in Patches, mergeTranslationAsync(c, Patch(c, S))
      PROVE  StepKeeps
  <2>1. CASE MergeNow(c, Patch(c, S))
    BY <2>1, PatchGentle, GentleKeeps DEF MergeNow
  <2>2. CASE MergeAfterLoad(c, Patch(c, S))
    BY <1>3, <2>2 DEF MergeAfterLoad
  <2> QED BY <1>5, <2>1, <2>2 DEF mergeTranslationAsync
<1>6. ASSUME NEW c \in Contexts, NEW S \in Patches, LoadPageTranslations(c, Patch(c, S))
      PROVE  StepKeeps
  BY <1>6, PatchGentle, GentleKeeps DEF LoadPageTranslations, Edit
<1>7. ASSUME NEW S \in Patches, MergeTranslations(S) PROVE StepKeeps
  <2>1. view.current \in Contexts
    BY <1>7, StartedContext DEF MergeTranslations, Edit, MapInv
  <2> QED BY <1>7, <2>1, PatchGentle, GentleKeeps DEF MergeTranslations, mergeTranslations, Edit
<1>8. ASSUME NEW S \in Patches, NEW l \in S, SetTranslation(l) PROVE StepKeeps
  BY <1>8, LoaderAssumption, SetTranslationStepKeeps
<1>9. ASSUME NEW seeds \in Payloads, SeedChunks(seeds) PROVE StepKeeps
  <2>1. view' = seedChunks(view, seeds)
    BY <1>9 DEF SeedChunks, Edit
  <2>2. /\ ChunksOK(view') /\ KeepsActive(view, view') /\ view'.current = view.current
        /\ \A d \in Contexts : hasChunk(view, d) /\ hasChunk(view', d)
                                => view'.chunk[d] = view.chunk[d]
    BY <2>1, LoaderAssumption, SeedKeeps DEF MapInv
  <2>3. \A c \in Contexts, l \in Leaves : PatchAt(view, c, l) => hasChunk(view, c)
    BY DEF PatchAt, EmptyDict, MapInv, ChunksOK, Listed
  <2> QED BY <2>2, <2>3 DEF StepKeeps, KeepsActive
<1>10. CASE FinishTransition
  <2>1. view' = finishTransition(view)
    BY <1>10 DEF FinishTransition, Edit
  <2>2. /\ ChunksOK(view') /\ view'.order = view.order /\ view'.chunk = view.chunk
        /\ view'.current = view.current
    BY <2>1, FinishKeeps DEF MapInv
  <2> QED BY <2>2 DEF StepKeeps, hasChunk
<1>11. CASE ClearCache
  <2>1. view' = clearCache(view) /\ ChunksOK(view')
    BY <1>11, ClearKeeps DEF ClearCache, MapInv
  <2>2. \A c : ~hasChunk(view', c)
    <3>1. view'.order = <<>>
      BY <2>1 DEF clearCache, MapInv, ChunksOK, Listed, Views
    <3> QED BY <3>1 DEF hasChunk, ToSet
  <2> QED BY <2>1, <2>2 DEF StepKeeps
<1>12. CASE Resume
  BY <1>12, ResumeKeeps
<1>13. CASE UNCHANGED vars
  BY <1>3, <1>13 DEF vars
<1> QED
  BY <1>1, <1>2, <1>4, <1>5, <1>6, <1>7, <1>8, <1>9, <1>10, <1>11, <1>12, <1>13 DEF Next

\* A sequence over a set is one over every larger set.
LEMMA SubsetSeq ==
  ASSUME NEW S, NEW T, S \subseteq T, NEW s \in Seq(S)
  PROVE  s \in Seq(T)
<1>1. s \in [1..Len(s) -> S] /\ Len(s) \in Nat
  OBVIOUS
<1>2. s \in [1..Len(s) -> T]
  BY <1>1
<1> QED BY <1>1, <1>2

LEMMA MapInit == Init => MapInv
<1> SUFFICES ASSUME Init PROVE MapInv
  OBVIOUS
<1>1. PICK max \in CacheSizes : view = NewView(max)
  BY DEF Init
<1>2. max \in Nat
  BY LoaderAssumption
<1> QED BY <1>1, <1>2, NewViewOK, InitInv DEF MapInv

LEMMA MapNext == MapInv /\ [Next]_vars => MapInv'
  BY NextInv, MapStep DEF MapInv, StepKeeps

LEMMA MapInvariant == Spec => []MapInv
  BY MapInit, MapNext, PTL DEF Spec

\* The chunk Map stays within cacheMaxSize, lists every chunk once and none it
\* does not have (evictChunks, setChunk, seedChunks).
THEOREM LoaderBoundsChunks == Spec => []ChunkMapBounded
<1>1. MapInv => ChunkMapBounded
  BY DEF MapInv, ChunksOK, Listed, ChunkMapBounded
<1> QED BY <1>1, MapInvariant, PTL

\* Types of the loader's state.
THEOREM LoaderTypes == Spec => []TypeOK
<1>1. MapInv => TypeOK
  <2> SUFFICES ASSUME MapInv PROVE TypeOK
    OBVIOUS
  <2>1. view \in Views
    BY DEF MapInv, ChunksOK, Listed
  <2>2. waiting \in [Contexts -> Seq(Calls)]
    <3>1. \A c \in Contexts : waiting[c] \in Seq(OwnCalls(c)) /\ OwnCalls(c) \subseteq Calls
      BY DEF MapInv, IInv, NoLeakInFlight, OwnCalls
    <3>2. \A c \in Contexts : waiting[c] \in Seq(Calls)
      BY <3>1, SubsetSeq
    <3>3. waiting = [c \in Contexts |-> waiting[c]]
      BY DEF MapInv, IInv, NoLeakInFlight
    <3> QED BY <3>2, <3>3
  <2>3. ready \in Seq([call : Calls, data : Dicts])
    <3>1. ready \in Seq(Due) /\ Due \subseteq [call : Calls, data : Dicts]
      BY DEF MapInv, IInv, NoLeakInFlight, Due
    <3> QED BY <3>1, SubsetSeq
  <2> QED BY <2>1, <2>2, <2>3 DEF TypeOK, MapInv, IInv, LoadTypes
<1> QED BY <1>1, MapInvariant, PTL

\* Only clearCache() takes the chunk of the active page out of a Map that has
\* room for two, whatever is loaded, seeded or patched meanwhile.
THEOREM LoaderKeepsActiveChunk == Spec => ActiveChunkStays
<1>1. MapInv /\ [Next]_vars =>
        [view.max # 1 /\ view'.current = view.current /\ hasChunk(view, view.current)
         => hasChunk(view', view.current) \/ view' = clearCache(view)]_vars
  BY MapStep DEF StepKeeps
<1> QED BY <1>1, MapInvariant, PTL DEF Spec, ActiveChunkStays

\* What was patched into a chunk stays as long as the chunk does, except for
\* continuations of calls that waited for a load of that chunk.
THEOREM LoaderKeepsPatches == Spec => PatchesSurvive
<1>1. MapInv /\ [Next]_vars =>
        [\A c \in Contexts, l \in Leaves :
           /\ view.chunk[c][l] # Absent /\ view.chunk[c][l].by = "patch"
           /\ hasChunk(view', c)
           /\ ready = <<>> \/ Head(ready).call.ctx # c
           => view'.chunk[c][l] = view.chunk[c][l]]_vars
  BY MapStep DEF StepKeeps, PatchAt
<1> QED BY <1>1, MapInvariant, PTL DEF Spec, PatchesSurvive

-----------------------------------------------------------------------------
(* What the page shows is kept.  A call that resumes installs the data its  *)
(* load resolved to, which may be older than the chunk by then.  Unless     *)
(* calls raced (the history variable), a merge that resumes is alone with   *)
(* its load, and what the page shows is part of the data it brings.         *)

\* What a shows, b has.
Below(a, b) == \A l \in Leaves : a[l] # Absent => b[l] = a[l]

WaitAlone ==
  \A c \in Contexts \ raced : \A i \in DOMAIN waiting[c] :
    waiting[c][i].op = "merge" => Len(waiting[c]) = 1

\* No load is in flight for a context with a continuation that is due.
DueSettled == \A i \in DOMAIN ready : load[ready[i].call.ctx] = "none"

Merges(i) == ready[i].call.op = "merge" /\ ready[i].call.ctx \notin raced

DueAlone ==
  \A i, j \in DOMAIN ready :
    Merges(i) /\ ready[j].call.ctx = ready[i].call.ctx => j = i

DueFollows ==
  \A i \in DOMAIN ready :
    Merges(i) /\ ready[i].call.ctx = view.current /\ view.max # 1
    => Below(view.cached, ready[i].data)

ShownInv ==
  /\ MapInv
  /\ ShownIsKept
  /\ WaitAlone
  /\ DueSettled /\ DueAlone /\ DueFollows

\* A step that leaves the current context, what it shows, and its chunk.
LEMMA OtherChunks ==
  ASSUME NEW w, ChunksOK(w), NEW v, KeepsActive(w, v), w.max # 1,
         v.current = w.current, v.cached = w.cached, w.current \in Contexts,
         hasChunk(w, w.current) /\ hasChunk(v, w.current) =>
           v.chunk[w.current] = w.chunk[w.current],
         Below(w.cached, w.chunk[w.current])
  PROVE  Below(v.cached, v.chunk[v.current])
<1>1. CASE hasChunk(w, w.current)
  BY <1>1 DEF KeepsActive
<1>2. CASE ~hasChunk(w, w.current)
  <2>1. w.chunk[w.current] = EmptyDict
    BY <1>2 DEF ChunksOK, Listed
  <2>2. \A l \in Leaves : w.cached[l] = Absent
    BY <2>1 DEF Below, EmptyDict
  <2> QED BY <2>2 DEF Below
<1> QED BY <1>1, <1>2

LEMMA MergedBelow ==
  ASSUME NEW a, NEW b, NEW top, Below(a, b)
  PROVE  Below(Merged(a, top), Merged(b, top))
  BY DEF Below, Merged

\* The dictionary that is patched is the one of the chunk.
LEMMA PatchShown ==
  ASSUME NEW w, ChunksOK(w), NEW c \in Contexts, NEW data \in Dicts, w.max # 1,
         w.current \in Contexts, Below(w.cached, w.chunk[w.current])
  PROVE  LET v == patchContext(w, c, data)
         IN  Below(v.cached, v.chunk[v.current])
<1> DEFINE v == patchContext(w, c, data)
<1>1. /\ ChunksOK(v) /\ KeepsActive(w, v) /\ v.current = w.current
      /\ v.cached = IF c = w.current THEN Merged(w.cached, data) ELSE w.cached
      /\ v.chunk[c] = Merged(w.chunk[c], data)
      /\ OthersKept(w, v, c)
  BY PatchKeeps DEF OthersKept
<1> HIDE DEF v
<1>2. ASSUME c = w.current PROVE Below(v.cached, v.chunk[v.current])
  BY <1>1, <1>2, MergedBelow
<1>3. ASSUME c # w.current PROVE Below(v.cached, v.chunk[v.current])
  BY <1>1, <1>3, OtherChunks DEF OthersKept
<1> QED BY <1>2, <1>3 DEF v

\* The chunk of c is written and nothing else changes.
LEMMA SetChunkShown ==
  ASSUME NEW w, ChunksOK(w), NEW c \in Contexts, NEW data \in Dicts, w.max # 1,
         w.current \in Contexts, Below(w.cached, w.chunk[w.current]),
         c = w.current => Below(w.cached, data)
  PROVE  LET v == setChunk(w, c, data)
         IN  Below(v.cached, v.chunk[v.current])
<1> DEFINE v == setChunk(w, c, data)
<1>1. /\ ChunksOK(v) /\ KeepsActive(w, v) /\ v.current = w.current /\ v.cached = w.cached
      /\ v.chunk[c] = data /\ OthersKept(w, v, c)
  BY SetChunkKeeps DEF OthersKept
<1> HIDE DEF v
<1>2. ASSUME c = w.current PROVE Below(v.cached, v.chunk[v.current])
  BY <1>1, <1>2
<1>3. ASSUME c # w.current PROVE Below(v.cached, v.chunk[v.current])
  BY <1>1, <1>3, OtherChunks DEF OthersKept
<1> QED BY <1>2, <1>3 DEF v

LEMMA SwitchShown ==
  ASSUME NEW w, ChunksOK(w), NEW c \in Contexts, NEW data \in Dicts
  PROVE  LET v == applySwitchContext(w, c, data)
         IN  v.max = w.max /\ v.current = c /\ Below(v.cached, v.chunk[v.current])
<1> DEFINE v == applySwitchContext(w, c, data)
<1>1. v.max = w.max /\ v.current = c /\ v.cached = data /\ v.chunk[c] = data
  BY SwitchKeeps
<1> HIDE DEF v
<1> QED BY <1>1 DEF Below, v

LEMMA SetTranslationShownBelow ==
  ASSUME NEW w, ChunksOK(w), w.current \in Contexts, NEW l \in Leaves, NEW value \in Values,
         Below(w.cached, w.chunk[w.current])
  PROVE  LET v == setTranslation(w, l, value)
         IN  v.max = w.max /\ v.current = w.current /\ Below(v.cached, v.chunk[v.current])
<1> DEFINE v == setTranslation(w, l, value)
<1>1. /\ KeepsActive(w, v) /\ v.current = w.current
      /\ v.cached = AtLeaf(w.cached, l, value)
      /\ v.chunk[w.current] = AtLeaf(w.chunk[w.current], l, value)
  BY SetTranslationKeeps
<1>2. w.cached \in Dicts /\ w.chunk[w.current] \in Dicts
  BY FieldTypes DEF ChunksOK, Listed
<1> HIDE DEF v
<1>3. Below(AtLeaf(w.cached, l, value), AtLeaf(w.chunk[w.current], l, value))
  BY <1>2 DEF Below, Dicts, AtLeaf
<1> QED BY <1>1, <1>3 DEF KeepsActive, v

-----------------------------------------------------------------------------
\* A step of the idle runtime that begins no load.
LEMMA QuietKeeps ==
  ASSUME ShownInv, MapInv', Idle, UNCHANGED <<load, waiting, ready, raced>>, ShownIsKept'
  PROVE  ShownInv'
<1>1. ready = <<>> /\ ready' = <<>>
  BY DEF Idle
<1>2. WaitAlone'
  BY DEF ShownInv, WaitAlone
<1> QED BY <1>1, <1>2 DEF ShownInv, DueSettled, DueAlone, DueFollows

\* The current context is one of Contexts once the runtime has started.
LEMMA CurrentTyped ==
  ASSUME MapInv
  PROVE  /\ view.current \in Contexts \union {NoContext}
         /\ Started <=> view.current \in Contexts
  BY FieldTypes, NuxtI18nAssumption DEF MapInv, ChunksOK, Listed, Started

\* An edit that keeps the context keeps what it shows.
LEMMA EditShown ==
  ASSUME ShownInv, MapInv', view'.max = view.max, view'.current = view.current,
         raced \subseteq raced',
         view.max # 1 /\ view.current \in Contexts /\ Below(view.cached, view.chunk[view.current])
           => Below(view'.cached, view'.chunk[view'.current])
  PROVE  ShownIsKept'
<1>1. Started' = Started
  BY DEF Started
<1>2. Started => view.current \in Contexts
  BY CurrentTyped DEF ShownInv
<1> QED BY <1>1, <1>2 DEF ShownInv, ShownIsKept, Below

LEMMA SwitchedShown ==
  ASSUME Below(view'.cached, view'.chunk[view'.current])
  PROVE  ShownIsKept'
  BY DEF ShownIsKept, Below

LEMMA NotEmpty ==
  ASSUME NEW S, NEW q \in Seq(S), NEW i \in DOMAIN q
  PROVE  Len(q) = 1 \/ Len(q) > 1
<1>1. Len(q) \in Nat /\ i \in 1..Len(q)
  OBVIOUS
<1> DEFINE n == Len(q)
<1>2. n \in Nat /\ i \in 1..n
  BY <1>1
<1> HIDE DEF n
<1>3. n = 1 \/ n > 1
  BY <1>2
<1> QED BY <1>3 DEF n

\* A call begins to wait for a load of c.
LEMMA WaitShown ==
  ASSUME ShownInv, MapInv', Idle, NEW c \in Contexts, NEW call \in OwnCalls(c),
         NEW hit \in BOOLEAN, loadAsync(c, call, hit), UNCHANGED <<view, ready>>
  PROVE  ShownInv'
<1>1. /\ waiting' = [waiting EXCEPT ![c] = Append(@, call)]
      /\ raced' = IF \E i \in DOMAIN waiting'[c] :
                        waiting'[c][i].op = "merge" /\ Len(waiting'[c]) > 1
                  THEN raced \union {c} ELSE raced
  BY DEF loadAsync
<1>2. ready = <<>> /\ ready' = <<>>
  BY DEF Idle
<1>3. /\ waiting = [d \in Contexts |-> waiting[d]]
      /\ \A d \in Contexts : waiting'[d] \in Seq(OwnCalls(d))
  BY DEF ShownInv, MapInv, IInv, NoLeakInFlight
<1>4. raced \subseteq raced' /\ \A d \in Contexts \ {c} : waiting'[d] = waiting[d]
  BY <1>1, <1>3
<1>5. WaitAlone'
  <2> SUFFICES ASSUME NEW d \in Contexts \ raced', NEW i \in DOMAIN waiting'[d],
                      waiting'[d][i].op = "merge"
               PROVE  Len(waiting'[d]) = 1
    BY DEF WaitAlone
  <2>1. CASE d = c
    <3>1. waiting'[c] \in Seq(OwnCalls(c)) /\ i \in DOMAIN waiting'[c]
      BY <1>3, <2>1
    <3>2. ~(Len(waiting'[c]) > 1)
      BY <1>1, <2>1
    <3>3. Len(waiting'[c]) = 1 \/ Len(waiting'[c]) > 1
      BY <3>1, NotEmpty
    <3> QED BY <2>1, <3>2, <3>3
  <2>2. CASE d # c
    BY <1>4, <2>2 DEF ShownInv, WaitAlone
  <2> QED BY <2>1, <2>2
<1>6. ShownIsKept'
  BY <1>4, EditShown
<1> QED BY <1>2, <1>5, <1>6 DEF ShownInv, DueSettled, DueAlone, DueFollows

LEMMA FunctionIsSeq ==
  ASSUME NEW S, NEW n \in Nat, NEW f \in [1..n -> S]
  PROVE  f \in Seq(S) /\ Len(f) = n
  OBVIOUS

LEMMA Concatenated ==
  ASSUME NEW S, NEW T, NEW s \in Seq(S), NEW t \in Seq(T)
  PROVE  \A i \in DOMAIN (s \o t) :
           \/ i \in DOMAIN s /\ (s \o t)[i] = s[i]
           \/ i - Len(s) \in DOMAIN t /\ (s \o t)[i] = t[i - Len(s)]
<1> DEFINE m == Len(s)
           n == Len(t)
           r == s \o t
<1>1. /\ m \in Nat /\ n \in Nat /\ DOMAIN s = 1..m /\ DOMAIN t = 1..n
      /\ s \in Seq(S \union T) /\ t \in Seq(S \union T)
  BY SubsetSeq
<1>2. /\ DOMAIN r = 1..(m + n)
      /\ \A i \in 1..(m + n) : r[i] = IF i <= m THEN s[i] ELSE t[i - m]
  BY <1>1
<1> HIDE DEF m, n, r
<1>3. ASSUME NEW i \in 1..(m + n)
      PROVE  (i \in 1..m /\ i <= m) \/ (i - m \in 1..n /\ ~(i <= m))
  BY <1>1
<1>4. \A i \in DOMAIN r :
        \/ i \in DOMAIN s /\ r[i] = s[i]
        \/ i - m \in DOMAIN t /\ r[i] = t[i - m]
  BY <1>1, <1>2, <1>3
<1> QED BY <1>4 DEF m, r

\* A load of c ends with `data`, and its callers become due.
LEMMA SettleShown ==
  ASSUME ShownInv, MapInv', NEW c \in Contexts, NEW data, Settle(c, data), load[c] # "none",
         view'.current = view.current, view'.cached = view.cached, view'.max = view.max,
         raced \subseteq raced', ShownIsKept',
         c \notin raced' /\ c = view.current /\ view.max # 1 => Below(view.cached, data)
  PROVE  ShownInv'
<1> DEFINE q   == waiting[c]
           due == [i \in DOMAIN q |-> [call |-> q[i], data |-> data]]
           n   == Len(ready)
<1>1. /\ load' = [load EXCEPT ![c] = "none"] /\ waiting' = [waiting EXCEPT ![c] = <<>>]
      /\ ready' = ready \o due
  BY DEF Settle
<1>2. /\ q \in Seq(OwnCalls(c)) /\ waiting = [d \in Contexts |-> waiting[d]]
      /\ ready \in Seq(Due) /\ load \in [Contexts -> {"none", "hit", "fetching"}]
  BY DEF ShownInv, MapInv, IInv, NoLeakInFlight, LoadTypes
<1>3. \A k \in DOMAIN q : q[k].ctx = c
  <2> TAKE k \in DOMAIN q
  <2>1. q[k] \in OwnCalls(c)
    BY <1>2
  <2> QED BY <2>1 DEF OwnCalls
<1>4. c \notin raced => \A k, m \in DOMAIN q : q[k].op = "merge" => k = m
  <2> SUFFICES ASSUME c \notin raced, NEW k \in DOMAIN q, NEW m \in DOMAIN q, q[k].op = "merge"
               PROVE  k = m
    OBVIOUS
  <2>1. Len(q) = 1
    BY DEF ShownInv, WaitAlone
  <2>2. DOMAIN q = 1..1
    BY <1>2, <2>1
  <2> QED BY <2>2
<1>5. WaitAlone'
  BY <1>1, <1>2 DEF ShownInv, WaitAlone
<1> HIDE DEF q
<1>6. /\ n \in Nat /\ DOMAIN ready = 1..n
      /\ \A i \in DOMAIN ready' :
           \/ i \in DOMAIN ready /\ ready'[i] = ready[i]
           \/ /\ i - n \in DOMAIN q
              /\ ready'[i].call = q[i - n] /\ ready'[i].data = data
  <2>1. n \in Nat /\ DOMAIN ready = 1..n /\ DOMAIN q = 1..Len(q) /\ Len(q) \in Nat
    BY <1>2
  <2>2. due \in Seq([call : OwnCalls(c), data : {data}])
    <3>1. \A k \in 1..Len(q) : q[k] \in OwnCalls(c)
      BY <1>2, <2>1
    <3>2. due \in [1..Len(q) -> [call : OwnCalls(c), data : {data}]]
      BY <2>1, <3>1
    <3> HIDE DEF due
    <3> QED BY <2>1, <3>2, FunctionIsSeq
  <2>3. DOMAIN due = DOMAIN q /\ \A k \in DOMAIN q : due[k].call = q[k] /\ due[k].data = data
    OBVIOUS
  <2> HIDE DEF due
  <2>4. \A i \in DOMAIN (ready \o due) :
          \/ i \in DOMAIN ready /\ (ready \o due)[i] = ready[i]
          \/ i - n \in DOMAIN due /\ (ready \o due)[i] = due[i - n]
    BY <1>2, <2>2, Concatenated
  <2> HIDE DEF n
  <2> QED BY <1>1, <2>1, <2>3, <2>4
<1> HIDE DEF due, n
<1>7. \A i \in DOMAIN ready : ready[i].call.ctx # c /\ ready[i].call.ctx \in Contexts
  <2> TAKE i \in DOMAIN ready
  <2>1. ready[i] \in Due
    BY <1>2
  <2> QED BY <2>1 DEF ShownInv, DueSettled, Due, Calls
<1>8. DueSettled'
  BY <1>1, <1>2, <1>3, <1>6, <1>7 DEF ShownInv, DueSettled
<1>9. DueAlone'
  <2> SUFFICES ASSUME NEW i \in DOMAIN ready', NEW j \in DOMAIN ready', Merges(i)',
                      ready'[j].call.ctx = ready'[i].call.ctx
               PROVE  j = i
    BY DEF DueAlone, Merges
  <2>1. CASE i \in DOMAIN ready /\ ready'[i] = ready[i]
    <3>1. j \in DOMAIN ready /\ ready'[j] = ready[j]
      BY <1>3, <1>6, <1>7, <2>1
    <3> QED BY <2>1, <3>1 DEF ShownInv, DueAlone, Merges
  <2>2. CASE /\ i - n \in DOMAIN q
             /\ ready'[i].call = q[i - n] /\ ready'[i].data = data
    <3>1. j - n \in DOMAIN q
      BY <1>3, <1>6, <1>7, <2>2
    <3>2. c \notin raced /\ q[i - n].op = "merge"
      BY <1>3, <2>2 DEF Merges
    <3>3. i - n = j - n
      BY <1>4, <2>2, <3>1, <3>2
    <3>4. i \in Int /\ j \in Int /\ n \in Int
      <4>1. ready' \in Seq(Due)
        BY DEF MapInv, IInv, NoLeakInFlight
      <4>2. DOMAIN ready' \subseteq Int
        BY <4>1
      <4> QED BY <1>6, <4>2
    <3> QED BY <3>3, <3>4
  <2> QED BY <1>6, <2>1, <2>2
<1>10. DueFollows'
  <2> SUFFICES ASSUME NEW i \in DOMAIN ready', Merges(i)',
                      ready'[i].call.ctx = view.current, view.max # 1
               PROVE  Below(view.cached, ready'[i].data)
    BY DEF DueFollows, Merges
  <2>1. CASE i \in DOMAIN ready /\ ready'[i] = ready[i]
    BY <2>1 DEF ShownInv, DueFollows, Merges
  <2>2. CASE /\ i - n \in DOMAIN q
             /\ ready'[i].call = q[i - n] /\ ready'[i].data = data
    BY <1>3, <2>2 DEF Merges
  <2> QED BY <1>6, <2>1, <2>2
<1> QED BY <1>5, <1>8, <1>9, <1>10 DEF ShownInv

LEMMA LoadDoneShown ==
  ASSUME ShownInv, MapInv', NEW c \in Contexts, LoadDone(c)
  PROVE  ShownInv'
<1> DEFINE chunk == Merged(File(c), getChunk(view, c))
<1>1. /\ load[c] # "none" /\ view' = setChunk(view, c, chunk) /\ Settle(c, chunk)
      /\ raced' = raced
  BY DEF LoadDone
<1>2. ChunksOK(view) /\ MapInv /\ chunk \in Dicts
  BY OwnChunk, MadeForIsDict, MergedIsDict DEF ShownInv, MapInv, getChunk
<1>3. Below(view.cached, view.chunk[c]) => Below(view.cached, chunk)
  BY DEF Below, Merged, getChunk
<1> HIDE DEF chunk
<1>4. /\ view'.current = view.current /\ view'.cached = view.cached /\ view'.max = view.max
  BY <1>1, <1>2, SetChunkKeeps DEF KeepsActive
<1>5. ASSUME view.max # 1, view.current \in Contexts,
             Below(view.cached, view.chunk[view.current])
      PROVE  Below(view'.cached, view'.chunk[view'.current])
  BY <1>1, <1>2, <1>3, <1>5, SetChunkShown
<1>6. ShownIsKept'
  BY <1>1, <1>4, <1>5, EditShown
<1>7. ASSUME c \notin raced', c = view.current, view.max # 1
      PROVE  Below(view.cached, chunk)
  <2>1. Started
    BY <1>2, <1>7, CurrentTyped
  <2> QED BY <1>1, <1>3, <1>7, <2>1 DEF ShownInv, ShownIsKept, Below
<1> QED BY <1>1, <1>4, <1>6, <1>7, SettleShown

LEMMA LoadFailedShown ==
  ASSUME ShownInv, MapInv', NEW c \in Contexts, LoadFailed(c)
  PROVE  ShownInv'
<1>1. /\ load[c] # "none" /\ Settle(c, EmptyDict) /\ view' = view
      /\ raced' = IF getChunk(view, c) # EmptyDict THEN raced \union {c} ELSE raced
  BY DEF LoadFailed
<1>2. raced \subseteq raced' /\ (c \notin raced' => view.chunk[c] = EmptyDict)
  BY <1>1 DEF getChunk
<1>3. ShownIsKept'
  BY <1>1, <1>2, EditShown
<1>4. ASSUME c \notin raced', c = view.current, view.max # 1
      PROVE  Below(view.cached, EmptyDict)
  <2>1. Started
    BY <1>4, CurrentTyped DEF ShownInv
  <2>2. c \notin raced
    BY <1>2, <1>4
  <2> QED BY <1>2, <1>4, <2>1, <2>2 DEF ShownInv, ShownIsKept, Below
<1> QED BY <1>1, <1>2, <1>3, <1>4, SettleShown

-----------------------------------------------------------------------------
LEMMA SwitchContextShown ==
  ASSUME ShownInv, MapInv', NEW c \in Contexts, switchContext(c)
  PROVE  ShownInv'
<1>1. Idle /\ ready' = ready /\ ChunksOK(view)
  BY DEF switchContext, ShownInv, MapInv
<1>2. CASE SwitchFromChunk(c)
  <2>1. view' = applySwitchContext(view, c, view.chunk[c]) /\ NoLoad
    BY <1>2 DEF SwitchFromChunk, getChunk
  <2>2. view.chunk[c] \in Dicts
    BY OwnChunk DEF ShownInv
  <2>3. Below(view'.cached, view'.chunk[view'.current])
    BY <1>1, <2>1, <2>2, SwitchShown
  <2> QED BY <1>1, <2>1, <2>3, SwitchedShown, QuietKeeps DEF NoLoad
<1>3. CASE SwitchFromStorage(c)
  <2> DEFINE w == setChunk(view, c, File(c))
  <2>1. view' = applySwitchContext(w, c, File(c)) /\ NoLoad
    BY <1>3 DEF SwitchFromStorage
  <2>2. ChunksOK(w) /\ File(c) \in Dicts
    BY <1>1, MadeForIsDict, SetChunkKeeps
  <2> HIDE DEF w
  <2>3. Below(view'.cached, view'.chunk[view'.current])
    BY <2>1, <2>2, SwitchShown
  <2> QED BY <1>1, <2>1, <2>3, SwitchedShown, QuietKeeps DEF NoLoad
<1>4. CASE SwitchAfterLoad(c)
  <2> DEFINE call == [op |-> "switch", ctx |-> c, patch |-> EmptyDict]
  <2>1. call \in OwnCalls(c)
    BY EmptyIsNoLeak DEF OwnCalls, Calls
  <2>2. loadAsync(c, call, FALSE) /\ view' = view
    BY <1>4 DEF SwitchAfterLoad
  <2> HIDE DEF call
  <2> QED BY <1>1, <2>1, <2>2, WaitShown
<1> QED BY <1>2, <1>3, <1>4 DEF switchContext

\* A patch of any context, at once.
LEMMA PatchNowShown ==
  ASSUME ShownInv, MapInv', Idle, NEW c \in Contexts, NEW S,
         view' = patchContext(view, c, Patch(c, S)),
         UNCHANGED <<load, waiting, ready, raced>>
  PROVE  ShownInv'
<1>1. ChunksOK(view) /\ Patch(c, S) \in Dicts
  BY PatchIsOwn DEF ShownInv, MapInv
<1>2. view'.max = view.max /\ view'.current = view.current
  BY <1>1, PatchKeeps DEF KeepsActive
<1>3. ASSUME view.max # 1, view.current \in Contexts,
             Below(view.cached, view.chunk[view.current])
      PROVE  Below(view'.cached, view'.chunk[view'.current])
  BY <1>1, <1>3, PatchShown
<1> QED BY <1>2, <1>3, EditShown, QuietKeeps

LEMMA MergeShown ==
  ASSUME ShownInv, MapInv', NEW c \in Contexts, NEW S,
         mergeTranslationAsync(c, Patch(c, S))
  PROVE  ShownInv'
<1>1. Idle /\ ready' = ready
  BY DEF mergeTranslationAsync
<1>2. CASE MergeNow(c, Patch(c, S))
  BY <1>1, <1>2, PatchNowShown DEF MergeNow, NoLoad
<1>3. CASE MergeAfterLoad(c, Patch(c, S))
  <2> DEFINE call == [op |-> "merge", ctx |-> c, patch |-> Patch(c, S)]
  <2>1. call \in OwnCalls(c)
    BY PatchIsOwn DEF OwnCalls, Calls
  <2>2. PICK hit \in BOOLEAN : loadAsync(c, call, hit)
    BY <1>3 DEF MergeAfterLoad
  <2>3. view' = view
    BY <1>3 DEF MergeAfterLoad
  <2> HIDE DEF call
  <2> QED BY <1>1, <2>1, <2>2, <2>3, WaitShown
<1> QED BY <1>2, <1>3 DEF mergeTranslationAsync

LEMMA SetTranslationShownInv ==
  ASSUME ShownInv, MapInv', NEW l \in Leaves, SetTranslation(l)
  PROVE  ShownInv'
<1> DEFINE value == Patch(view.current, {l})[l]
<1>1. /\ Idle /\ view' = setTranslation(view, l, value)
      /\ UNCHANGED <<load, waiting, ready, raced>>
  BY DEF SetTranslation, Edit
<1>2. view.current \in Contexts /\ ChunksOK(view)
  BY CurrentTyped DEF SetTranslation, Edit, ShownInv, MapInv
<1>3. value \in Values
  BY <1>2 DEF Patch, Fragment, Values
<1> HIDE DEF value
<1>4. view'.max = view.max /\ view'.current = view.current
  BY <1>1, <1>2, <1>3, SetTranslationKeeps DEF KeepsActive
<1>5. ASSUME Below(view.cached, view.chunk[view.current])
      PROVE  Below(view'.cached, view'.chunk[view'.current])
  BY <1>1, <1>2, <1>3, <1>5, SetTranslationShownBelow
<1> QED BY <1>1, <1>4, <1>5, EditShown, QuietKeeps

LEMMA SeedShown ==
  ASSUME ShownInv, MapInv', NEW seeds \in Payloads, SeedChunks(seeds)
  PROVE  ShownInv'
<1>1. /\ Idle /\ view' = seedChunks(view, seeds)
      /\ UNCHANGED <<load, waiting, ready, raced>>
  BY DEF SeedChunks, Edit
<1>2. /\ ChunksOK(view) /\ KeepsActive(view, view')
      /\ view'.current = view.current /\ view'.cached = view.cached
      /\ \A d \in Contexts : hasChunk(view, d) /\ hasChunk(view', d)
                              => view'.chunk[d] = view.chunk[d]
  BY <1>1, LoaderAssumption, SeedKeeps DEF ShownInv, MapInv
<1>3. ASSUME view.max # 1, view.current \in Contexts,
             Below(view.cached, view.chunk[view.current])
      PROVE  Below(view'.cached, view'.chunk[view'.current])
  BY <1>2, <1>3, OtherChunks
<1>4. ShownIsKept'
  BY <1>1, <1>2, <1>3, EditShown DEF KeepsActive
<1> QED BY <1>1, <1>4, QuietKeeps

LEMMA FinishShown ==
  ASSUME ShownInv, MapInv', FinishTransition
  PROVE  ShownInv'
<1>1. Idle /\ view' = finishTransition(view) /\ UNCHANGED <<load, waiting, ready, raced>>
  BY DEF FinishTransition, Edit
<1>2. /\ view'.chunk = view.chunk /\ view'.max = view.max
      /\ view'.cached = view.cached /\ view'.current = view.current
  BY <1>1, FinishKeeps DEF ShownInv, MapInv
<1> QED BY <1>1, <1>2, EditShown, QuietKeeps

LEMMA ClearShown ==
  ASSUME ShownInv, MapInv', ClearCache
  PROVE  ShownInv'
<1>1. Idle /\ view' = clearCache(view) /\ UNCHANGED <<load, waiting, ready, raced>>
  BY DEF ClearCache
<1>2. view'.cached = EmptyDict
  BY <1>1, ClearKeeps DEF ShownInv, MapInv
<1>3. Below(view'.cached, view'.chunk[view'.current])
  BY <1>2 DEF Below, EmptyDict
<1> QED BY <1>1, <1>3, SwitchedShown, QuietKeeps

-----------------------------------------------------------------------------
LEMMA Popped ==
  ASSUME NEW S, NEW q \in Seq(S), q # <<>>
  PROVE  /\ 1 \in DOMAIN q /\ Head(q) = q[1] /\ DOMAIN q \subseteq Int
         /\ \A j \in DOMAIN Tail(q) :
              j \in Int /\ j + 1 \in DOMAIN q /\ j + 1 # 1 /\ Tail(q)[j] = q[j + 1]
<1> DEFINE n == Len(q)
<1>1. n \in Nat /\ DOMAIN q = 1..n /\ n # 0 /\ Head(q) = q[1]
  OBVIOUS
<1>2. DOMAIN Tail(q) = 1..(n - 1) /\ \A j \in 1..(n - 1) : Tail(q)[j] = q[j + 1]
  OBVIOUS
<1> HIDE DEF n
<1> QED BY <1>1, <1>2

\* The continuations that stay due, after one that leaves alone what another
\* context shows.
LEMMA StillDue ==
  ASSUME ShownInv, MapInv', Resume, ShownIsKept', view'.max = view.max,
         view'.current \in {view.current, Head(ready).call.ctx},
         Head(ready).call.ctx # view'.current => view'.cached = view.cached
  PROVE  ShownInv'
<1> DEFINE head == ready[1].call.ctx
<1>1. ready' = Tail(ready) /\ UNCHANGED <<load, waiting, raced>>
  BY DEF Resume
<1>2. /\ 1 \in DOMAIN ready /\ Head(ready).call.ctx = head
      /\ \A j \in DOMAIN ready' :
           j \in Int /\ j + 1 \in DOMAIN ready /\ j + 1 # 1 /\ ready'[j] = ready[j + 1]
  <2>1. ready \in Seq(Due) /\ ready # <<>>
    BY DEF ShownInv, MapInv, IInv, NoLeakInFlight, Resume
  <2> QED BY <1>1, <2>1, Popped
<1>3. WaitAlone' /\ DueSettled'
  BY <1>1, <1>2 DEF ShownInv, WaitAlone, DueSettled
<1>4. DueAlone'
  <2> SUFFICES ASSUME NEW i \in DOMAIN ready', NEW j \in DOMAIN ready', Merges(i)',
                      ready'[j].call.ctx = ready'[i].call.ctx
               PROVE  j = i
    BY DEF DueAlone, Merges
  <2>1. Merges(i + 1) /\ ready[j + 1].call.ctx = ready[i + 1].call.ctx
    BY <1>1, <1>2 DEF Merges
  <2>2. j + 1 = i + 1
    BY <1>2, <2>1 DEF ShownInv, DueAlone
  <2> QED BY <1>2, <2>2
<1>5. DueFollows'
  <2> SUFFICES ASSUME NEW j \in DOMAIN ready', Merges(j)',
                      ready'[j].call.ctx = view'.current, view'.max # 1
               PROVE  Below(view'.cached, ready'[j].data)
    BY DEF DueFollows, Merges
  <2>1. /\ j + 1 \in DOMAIN ready /\ Merges(j + 1) /\ ready'[j] = ready[j + 1]
        /\ ready[j + 1].call.ctx = view'.current
    BY <1>1, <1>2 DEF Merges
  <2>2. head # view'.current
    BY <1>2, <2>1 DEF ShownInv, DueAlone
  <2>3. view'.current = view.current /\ view'.cached = view.cached
    BY <1>2, <2>2
  <2> QED BY <2>1, <2>3 DEF ShownInv, DueFollows
<1> QED BY <1>3, <1>4, <1>5 DEF ShownInv

LEMMA ResumeShown ==
  ASSUME ShownInv, MapInv', Resume
  PROVE  ShownInv'
<1> DEFINE call == Head(ready).call
           data == Head(ready).data
           c    == call.ctx
<1>1. /\ call.ctx \in Contexts /\ call.patch \in Dicts /\ data \in Dicts
      /\ call.op \in {"switch", "merge"} /\ Head(ready) = ready[1] /\ 1 \in DOMAIN ready
  <2>1. ready \in Seq(Due) /\ ready # <<>>
    BY DEF ShownInv, MapInv, IInv, NoLeakInFlight, Resume
  <2>2. Head(ready) \in Due
    BY <2>1
  <2> QED BY <2>1, <2>2, Popped DEF Due, Calls
<1>2. view' = IF call.op = "switch"
              THEN applySwitchContext(view, c, data)
              ELSE patchContext(setChunk(view, c, data), c, call.patch)
  BY DEF Resume
<1>3. ChunksOK(view) /\ raced' = raced
  BY DEF ShownInv, MapInv, Resume
<1>4. CASE call.op = "switch"
  <2>1. /\ view'.max = view.max /\ view'.current = c
        /\ Below(view'.cached, view'.chunk[view'.current])
    BY <1>1, <1>2, <1>3, <1>4, SwitchShown
  <2> QED BY <2>1, SwitchedShown, StillDue
<1>5. CASE call.op = "merge"
  <2> DEFINE w == setChunk(view, c, data)
  <2>1. view' = patchContext(w, c, call.patch)
    BY <1>2, <1>5
  <2>2. /\ ChunksOK(w) /\ w.max = view.max /\ w.current = view.current
        /\ w.cached = view.cached
    BY <1>1, <1>3, SetChunkKeeps DEF KeepsActive
  <2>3. ASSUME view.max # 1, view.current \in Contexts,
               Below(view.cached, view.chunk[view.current]),
               c = view.current => Below(view.cached, data)
        PROVE  Below(w.cached, w.chunk[w.current])
    BY <1>1, <1>3, <2>3, SetChunkShown
  <2> HIDE DEF w
  <2>4. /\ view'.max = view.max /\ view'.current = view.current
        /\ c # view.current => view'.cached = view.cached
    BY <1>1, <2>1, <2>2, PatchKeeps DEF KeepsActive
  <2>5. ShownIsKept'
    <3> SUFFICES ASSUME Started', view'.max # 1, view'.current \notin raced'
                 PROVE  Below(view'.cached, view'.chunk[view'.current])
      BY DEF ShownIsKept, Below
    <3>1. view.current \in Contexts /\ Started
      BY <2>4, CurrentTyped DEF Started, ShownInv
    <3>2. Below(view.cached, view.chunk[view.current])
      BY <1>3, <2>4, <3>1 DEF ShownInv, ShownIsKept, Below
    <3>3. c = view.current => Below(view.cached, data)
      <4> HAVE c = view.current
      <4>1. Merges(1)
        BY <1>1, <1>3, <1>5, <2>4 DEF Merges
      <4> QED BY <1>1, <2>4, <4>1 DEF ShownInv, DueFollows
    <3>4. Below(w.cached, w.chunk[w.current])
      BY <2>3, <2>4, <3>1, <3>2, <3>3
    <3> QED BY <1>1, <2>1, <2>2, <2>4, <3>1, <3>4, PatchShown
  <2> QED BY <2>4, <2>5, StillDue
<1> QED BY <1>1, <1>4, <1>5

-----------------------------------------------------------------------------
LEMMA ShownInit == Init => ShownInv
<1> SUFFICES ASSUME Init PROVE ShownInv
  OBVIOUS
<1>1. MapInv
  BY MapInit
<1>2. ready = <<>> /\ ~Started
  BY DEF Init, NewView, Started
<1>3. WaitAlone
  BY DEF Init, WaitAlone
<1> QED BY <1>1, <1>2, <1>3 DEF ShownInv, ShownIsKept, DueSettled, DueAlone, DueFollows

LEMMA ShownNext == ShownInv /\ [Next]_vars => ShownInv'
<1> SUFFICES ASSUME ShownInv, [Next]_vars PROVE ShownInv'
  OBVIOUS
<1>1. MapInv'
  BY MapNext DEF ShownInv
<1>2. ASSUME NEW c \in Contexts, switchContext(c) PROVE ShownInv'
  BY <1>1, <1>2, SwitchContextShown
<1>3. ASSUME NEW c \in Contexts, LoadDone(c) PROVE ShownInv'
  BY <1>1, <1>3, LoadDoneShown
<1>4. ASSUME NEW c \in Contexts, LoadFailed(c) PROVE ShownInv'
  BY <1>1, <1>4, LoadFailedShown
<1>5. ASSUME NEW c \in Contexts, NEW S \in Patches, mergeTranslationAsync(c, Patch(c, S))
      PROVE  ShownInv'
  BY <1>1, <1>5, MergeShown
<1>6. ASSUME NEW c \in Contexts, NEW S \in Patches, LoadPageTranslations(c, Patch(c, S))
      PROVE  ShownInv'
  BY <1>1, <1>6, PatchNowShown DEF LoadPageTranslations, Edit
<1>7. ASSUME NEW S \in Patches, MergeTranslations(S) PROVE ShownInv'
  <2>1. view.current \in Contexts
    BY <1>7, CurrentTyped DEF MergeTranslations, Edit, ShownInv
  <2> QED BY <1>1, <1>7, <2>1, PatchNowShown DEF MergeTranslations, mergeTranslations, Edit
<1>8. ASSUME NEW S \in Patches, NEW l \in S, SetTranslation(l) PROVE ShownInv'
  BY <1>1, <1>8, LoaderAssumption, SetTranslationShownInv
<1>9. ASSUME NEW seeds \in Payloads, SeedChunks(seeds) PROVE ShownInv'
  BY <1>1, <1>9, SeedShown
<1>10. CASE FinishTransition
  BY <1>1, <1>10, FinishShown
<1>11. CASE ClearCache
  BY <1>1, <1>11, ClearShown
<1>12. CASE Resume
  BY <1>1, <1>12, ResumeShown
<1>13. CASE UNCHANGED vars
  BY <1>1, <1>13 DEF vars, ShownInv, ShownIsKept, Started, WaitAlone, DueSettled, DueAlone,
                     DueFollows, Merges
<1> QED BY <1>2, <1>3, <1>4, <1>5, <1>6, <1>7, <1>8, <1>9, <1>10, <1>11, <1>12, <1>13 DEF Next

\* Whatever the active page shows, a return to its route shows again: no
\* interleaving of merges, late or failed loads, evictions, seeds and clears
\* takes a value out of the chunk behind the page, as long as the Map has room
\* for two entries and no calls raced for the load of this context.
THEOREM LoaderKeepsShown == Spec => []ShownIsKept
<1>1. ShownInv => ShownIsKept
  BY DEF ShownInv
<1> QED BY <1>1, ShownInit, ShownNext, PTL DEF Spec

=============================================================================
