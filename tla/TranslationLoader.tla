-------------------------- MODULE TranslationLoader --------------------------
(***************************************************************************)
(* The Nuxt runtime at work: NuxtTranslationLoader on top of the view      *)
(* layer (NuxtI18n) and of the storage cache, and the calls the rest of    *)
(* the application makes into the three.  src/runtime/utils/nuxt-i18n.ts,  *)
(* src/runtime/utils/storage.ts.                                           *)
(*                                                                         *)
(* The unit of interleaving is the event loop's: a call runs up to its     *)
(* first `await`; when a load settles, everything that awaits it resumes,  *)
(* in the order in which it began to wait, before the next call is taken   *)
(* in.  `ready` is that queue of continuations.                            *)
(*                                                                         *)
(* The storage cache is what LossyMap promises: a lookup answers with the  *)
(* payload or misses, and a miss is an entry that was evicted or expired.  *)
(***************************************************************************)
EXTENDS NuxtI18n

CONSTANTS
  CacheSizes,    \* the values of the module option cacheMaxSize
  Patches,       \* the sets of leaves a patch may define
  Payloads,      \* the lists of contexts an SSR payload may carry
  MaxSwitches,   \* bound: context switches that wait at the same time
  MaxRegisters   \* bound: mergeTranslation calls that wait at the same time

ASSUME LoaderAssumption ==
  /\ CacheSizes \subseteq Nat
  /\ Patches \subseteq SUBSET Leaves
  /\ Payloads \subseteq Seq(Contexts)
  /\ \A seeds \in Payloads : IsInjective(seeds)   \* keys of one object
  /\ MaxSwitches \in Nat \ {0}
  /\ MaxRegisters \in Nat

VARIABLES
  view,     \* the NuxtI18n instance
  stored,   \* contexts whose payload is in the storage cache
  load,     \* pendingLoads: load[c] is none, hit (found in storage) or fetching
  waiting,  \* waiting[c]: the calls that await the load of c, oldest first
  ready,    \* continuations to run, each with the data its load resolved to
  raced     \* history: contexts where a call that waited for a load may
            \* overwrite a patch: a patch shared the load with another call,
            \* or the load failed after the chunk had been patched

vars == <<view, stored, load, waiting, ready, raced>>

Calls == [op : {"switch", "merge"}, ctx : Contexts, patch : Dicts]

Init ==
  /\ view \in {NewView(max) : max \in CacheSizes}
  /\ stored = {}
  /\ load = [c \in Contexts |-> "none"]
  /\ waiting = [c \in Contexts |-> <<>>]
  /\ ready = <<>>
  /\ raced = {}

\* No continuation is due, so the event loop may take the next call.
Idle == ready = <<>> /\ \A c \in Contexts : load[c] # "hit"

\* The plugin awaits the first switchContext before it provides its API.
Started == view.current # NoContext

Waiting(op) ==
  {w \in Contexts \X (1..(MaxSwitches + MaxRegisters)) :
     w[2] \in DOMAIN waiting[w[1]] /\ waiting[w[1]][w[2]].op = op}

-----------------------------------------------------------------------------
\* loadAsync(c) by `call`: join the pending load, or begin one.  `hit` says
\* whether storage.load finds the payload in the storage cache.
loadAsync(c, call, hit) ==
  /\ waiting' = [waiting EXCEPT ![c] = Append(@, call)]
  /\ load' = [load EXCEPT ![c] =
       IF @ # "none" THEN @ ELSE IF hit THEN "hit" ELSE "fetching"]
  /\ stored' = IF hit THEN stored ELSE stored \ {c}
  /\ raced' = IF \E i \in DOMAIN waiting'[c] :
                    waiting'[c][i].op = "merge" /\ Len(waiting'[c]) > 1
               THEN raced \union {c} ELSE raced

NoLoad == UNCHANGED <<stored, load, waiting, raced>>

\* switchContext(c): at once from the chunk Map, at once from the storage
\* cache (which also installs the chunk), or after a load.
SwitchFromChunk(c) ==
  /\ hasChunk(view, c)
  /\ view' = applySwitchContext(view, c, getChunk(view, c))
  /\ NoLoad

SwitchFromStorage(c) ==
  /\ ~hasChunk(view, c) /\ c \in stored
  /\ view' = applySwitchContext(setChunk(view, c, File(c)), c, File(c))
  /\ NoLoad

SwitchAfterLoad(c) ==
  /\ ~hasChunk(view, c)
  /\ Cardinality(Waiting("switch")) < MaxSwitches
  /\ loadAsync(c, [op |-> "switch", ctx |-> c, patch |-> EmptyDict], FALSE)
  /\ UNCHANGED view

switchContext(c) ==
  /\ Idle
  /\ Started \/ Waiting("switch") = {}
  /\ SwitchFromChunk(c) \/ SwitchFromStorage(c) \/ SwitchAfterLoad(c)
  /\ UNCHANGED ready

\* helper.mergeTranslation, the target of every i18n:register call.
MergeNow(c, data) ==
  /\ hasChunk(view, c)
  /\ view' = patchContext(view, c, data)
  /\ NoLoad

MergeAfterLoad(c, data) ==
  /\ ~hasChunk(view, c)
  /\ Cardinality(Waiting("merge")) < MaxRegisters
  /\ \E hit \in BOOLEAN :
       /\ hit => c \in stored
       /\ loadAsync(c, [op |-> "merge", ctx |-> c, patch |-> data], hit)
  /\ UNCHANGED view

mergeTranslationAsync(c, data) ==
  /\ Idle /\ Started
  /\ MergeNow(c, data) \/ MergeAfterLoad(c, data)
  /\ UNCHANGED ready

\* The synchronous part of the API, each one operator of the view layer.
Edit(newView) ==
  /\ Idle /\ Started
  /\ view' = newView
  /\ UNCHANGED <<stored, load, waiting, ready, raced>>

LoadPageTranslations(c, data) == Edit(patchContext(view, c, data))
MergeTranslations(S)          == Edit(mergeTranslations(view, Patch(view.current, S)))
SetTranslation(l)             == Edit(setTranslation(view, l, Patch(view.current, {l})[l]))
SeedChunks(seeds)             == Edit(seedChunks(view, seeds))

FinishTransition ==
  /\ view.outgoing # NoDict
  /\ Edit(finishTransition(view))

\* $clearCache(): the storage cache, then the view; pending loads go on.
ClearCache ==
  /\ Idle /\ Started
  /\ stored' = {}
  /\ view' = clearCache(view)
  /\ UNCHANGED <<load, waiting, ready, raced>>

-----------------------------------------------------------------------------
\* Mutant of Settle: the load is not taken off pendingLoads.
SettleLeavesPending(c, data) ==
  /\ waiting' = [waiting EXCEPT ![c] = <<>>]
  /\ ready' = ready \o [i \in DOMAIN waiting[c] |-> [call |-> waiting[c][i], data |-> data]]
  /\ UNCHANGED load

\* The load of c ends: its callers become ready, each with the same data.
Settle(c, data) ==
  /\ load' = [load EXCEPT ![c] = "none"]
  /\ waiting' = [waiting EXCEPT ![c] = <<>>]
  /\ ready' = ready \o [i \in DOMAIN waiting[c] |-> [call |-> waiting[c][i], data |-> data]]

\* Mutant of LoadDone: the payload replaces the chunk.
LoadOverwrites(c) ==
  /\ \/ load[c] = "hit"
     \/ load[c] = "fetching" /\ Idle
  /\ view' = setChunk(view, c, File(c))
  /\ Settle(c, File(c))
  /\ stored' = stored \union {c}
  /\ UNCHANGED raced

\* The payload arrived, or was in storage.  What the chunk holds by now wins
\* over it (preserveExisting).
LoadDone(c) ==
  /\ \/ load[c] = "hit"
     \/ load[c] = "fetching" /\ Idle
  /\ LET chunk == Merged(File(c), getChunk(view, c))
     IN  /\ view' = setChunk(view, c, chunk)
         /\ Settle(c, chunk)
  /\ stored' = stored \union {c}
  /\ UNCHANGED raced

\* Mutant of LoadFailed: the rejection is swallowed with its callers.
FailureForgetsCallers(c) ==
  /\ load[c] = "fetching" /\ Idle
  /\ load' = [load EXCEPT ![c] = "none"]
  /\ waiting' = [waiting EXCEPT ![c] = <<>>]
  /\ UNCHANGED <<view, stored, ready, raced>>

\* $fetch rejected: the load resolves to an empty dictionary all the same.
LoadFailed(c) ==
  /\ load[c] = "fetching" /\ Idle
  /\ Settle(c, EmptyDict)
  /\ raced' = IF getChunk(view, c) # EmptyDict THEN raced \union {c} ELSE raced
  /\ UNCHANGED <<view, stored>>

\* The rest of switchContext or of mergeTranslationAsync, after its await.
Resume ==
  /\ ready # <<>>
  /\ LET call == Head(ready).call
         data == Head(ready).data
     IN  view' = IF call.op = "switch"
                 THEN applySwitchContext(view, call.ctx, data)
                 ELSE patchContext(setChunk(view, call.ctx, data), call.ctx, call.patch)
  /\ ready' = Tail(ready)
  /\ UNCHANGED <<stored, load, waiting, raced>>

-----------------------------------------------------------------------------
Next ==
  \/ \E c \in Contexts :
       \/ switchContext(c)
       \/ LoadDone(c)
       \/ LoadFailed(c)
  \/ \E c \in Contexts, S \in Patches :
       \/ mergeTranslationAsync(c, Patch(c, S))
       \/ LoadPageTranslations(c, Patch(c, S))
  \/ \E S \in Patches : MergeTranslations(S)
  \/ \E S \in Patches : \E l \in S : SetTranslation(l)
  \/ \E seeds \in Payloads : SeedChunks(seeds)
  \/ FinishTransition
  \/ ClearCache
  \/ Resume

\* Every $fetch settles one way or the other, however busy the application
\* keeps the event loop, and queued continuations run.
Fairness ==
  /\ WF_vars(Resume)
  /\ \A c \in Contexts : SF_vars(LoadDone(c) \/ LoadFailed(c))

Spec == Init /\ [][Next]_vars

FairSpec == Spec /\ Fairness

-----------------------------------------------------------------------------
TypeOK ==
  /\ view \in Views
  /\ stored \subseteq Contexts
  /\ load \in [Contexts -> {"none", "hit", "fetching"}]
  /\ waiting \in [Contexts -> Seq(Calls)]
  /\ ready \in Seq([call : Calls, data : Dicts])
  /\ raced \subseteq Contexts

\* The chunk Map never exceeds cacheMaxSize, whatever is seeded, prefetched
\* or patched while another page is active ("so the configured bound is
\* always enforced"), and its order lists every entry once.
ChunkMapBounded ==
  /\ view.max > 0 => Len(view.order) <= view.max
  /\ IsInjective(view.order)
  /\ \A c \in Contexts : view.chunk[c] # EmptyDict => hasChunk(view, c)

\* No value ever turns up in another context's chunk, the active dictionary
\* holds values of the current context only, and the outgoing one values of
\* the current locale: "Cross-locale: drop it, old keys must not leak".
NoLeakAcrossContexts ==
  /\ \A c \in Contexts : WrittenFor(view.chunk[c], {c})
  /\ WrittenFor(view.cached, {view.current})
  /\ view.outgoing # NoDict =>
       WrittenFor(view.outgoing, {c \in Contexts : LocaleOf(c) = LocaleOf(view.current)})

\* Whatever the active page shows, a return to its route will show again:
\* every value of the active dictionary is also in the chunk behind it
\* ("Writing only the first makes the change vanish on the next navigation"),
\* through every merge, load, eviction and clearCache(), unless the Map has
\* room for one entry only or calls raced for a load of this context.
ShownIsKept ==
  Started /\ view.max # 1 /\ view.current \notin raced =>
    \A l \in Leaves : view.cached[l] # Absent =>
      view.chunk[view.current][l] = view.cached[l]

\* Nothing but clearCache() takes the active page's chunk out of the Map,
\* unless the Map holds a single entry.
ActiveChunkStays ==
  [][view.max # 1 /\ view'.current = view.current /\ hasChunk(view, view.current)
     => hasChunk(view', view.current) \/ view' = clearCache(view)]_vars

\* A patch in a chunk survives everything that does not drop the chunk:
\* patches to it and to others, navigations, and a payload that arrives late
\* ("everything it does not mention has to survive").  The continuation of a
\* call that itself waited for a load of the chunk is the exception.
PatchesSurvive ==
  [][\A c \in Contexts, l \in Leaves :
       /\ view.chunk[c][l] # Absent /\ view.chunk[c][l].by = "patch"
       /\ hasChunk(view', c)
       /\ ready = <<>> \/ Head(ready).call.ctx # c
       => view'.chunk[c][l] = view.chunk[c][l]]_vars

\* A call that waits is never forgotten: somebody awaits exactly the loads
\* that are in flight, so every load that ends finds its callers and no load
\* stays registered as pending after its end.
CallsAwaitLoads ==
  \A c \in Contexts : waiting[c] # <<>> <=> load[c] # "none"

\* However busy the application is, a context switch that waits for a load is
\* carried out in the end, also when the load fails.
SwitchesHappen ==
  \A c \in Contexts :
    (\E w \in Waiting("switch") : w[1] = c) ~> view.current = c

-----------------------------------------------------------------------------
(* What the documentation says and the code does not do. *)

\* "The `register` function merges these translations into the existing set
\* for the provided locale": a register call that resumes after a successful
\* load leaves the patches of the calls that resumed before it in place.
RegisterMergesIntoExisting ==
  [][\A c \in Contexts, l \in Leaves :
       /\ view.chunk[c][l] # Absent /\ view.chunk[c][l].by = "patch"
       /\ ready # <<>> /\ ready' = Tail(ready)
       /\ Head(ready).call.op = "merge" /\ Head(ready).data # EmptyDict
       => view'.chunk[c][l] # Absent /\ view'.chunk[c][l].by = "patch"]_vars

=============================================================================
