---------------------------- MODULE ServerLoader ----------------------------
(***************************************************************************)
(* Translations on the server during development: requests load what was   *)
(* built at start-up into two process-wide caches while the file watcher   *)
(* rewrites the first and drops entries of the second.                     *)
(* src/runtime/server/utils/server-loader.ts, src/runtime/utils/storage.ts,*)
(* packages/hmr/src/watcher.ts, src/runtime/server/plugins/watcher.dev.ts. *)
(*                                                                         *)
(* A translation file is its version: what the properties ask of a merged  *)
(* entry is which version of which file went into it.  All files of a page *)
(* exist at start-up, in version 0.  The file system and chokidar are      *)
(* external: writes and deletions each have an event, late, and edits in a *)
(* row may share it.  The event handler reads its files synchronously and  *)
(* is one step, while a request waits for its file and for its answer.     *)
(***************************************************************************)
EXTENDS Naturals, FiniteSets

CONSTANTS
  Locales, Pages,
  Root,          \* the page of a locale's root file
  Links,         \* routesLocaleLinks: alias route name -> page
  Chain,         \* Chain[l]: l and its fallback locales
  Modes,         \* a subset of "premerged", "source"
  Versions,      \* what may be written into a file, next to:
  Broken, Gone,  \* text that does not parse; no such file
  NoHash, NoEntry, NoRequest,
  Requests,      \* requests that may be under way at the same time
  MaxEvictions,  \* bound: entries dropped by a limit or a ttl, 0 without them
  MaxEdits       \* bound: edits of files

ASSUME ServerAssumption ==
  /\ Root \notin Pages
  /\ Links \in [DOMAIN Links -> Pages] /\ DOMAIN Links \intersect Pages = {}
  /\ Chain \in [Locales -> SUBSET Locales] /\ \A l \in Locales : l \in Chain[l]
  /\ Modes \subseteq {"premerged", "source"}
  /\ Versions \subseteq Nat /\ 0 \in Versions
  /\ {Broken, Gone, NoHash} \intersect Versions = {}
  /\ Broken # Gone /\ Broken # NoHash
  /\ MaxEvictions \in Nat /\ MaxEdits \in Nat

VARIABLES
  mode,      \* translationPayloadMode, never changed
  files,     \* the translation files
  events,    \* files with an `add` or `change` event to come
  removed,   \* files with an `unlink` event to come
  hashes,    \* TranslationContentTracker.hashes
  server,    \* the server loader's cache
  storage,   \* the storage cache of the rendering application
  request,   \* requests under way
  edits,     \* number of edits so far
  evictions, \* number of evictions so far
  late,      \* history: keys under which a load that read an outdated file
             \* has written since the watcher last wrote them
  ahead      \* history: files read with content other than the one they
             \* were last processed with: on another file's event, or when
             \* they had vanished before their own was handled

history == <<edits, evictions, late, ahead>>
vars    == <<mode, files, events, removed, hashes, server, storage, request, history>>

Files   == Locales \X (Pages \union {Root})
Routes  == Pages \union DOMAIN Links
Keys    == Locales \X Routes
Entries == [Files -> Versions \union {Gone}]

\* resolveTranslationPayloadPage.
PageOf(r) == IF r \in DOMAIN Links THEN Links[r] ELSE r

\* The files of the key's own locale, and those of its fallback chain.
Own(k)    == {k[1]} \X {Root, PageOf(k[2])}
Layers(k) == Chain[k[1]] \X {Root, PageOf(k[2])}

\* The cache keys a file feeds: all of the locale for a root file.
KeysOf(f) == {k \in Keys : f \in Own(k)}

\* The entry merged from the files S with the content `from`.
Merge(S, from) == [f \in Files |-> IF f \in S THEN from[f] ELSE Gone]

\* What the build has written, for a fallback chain as for a single locale.
Built == [f \in Files |-> 0]

Outdated(k, entry) == \E f \in Own(k) : entry[f] # files[f]

\* Also when the file has gone back to what it was before its last event.
ReadBefore(k, entry) ==
  Outdated(k, entry) \/ \E f \in Own(k) : hashes[f] \notin {NoHash, entry[f]}

Init ==
  /\ mode \in Modes
  /\ files = Built
  /\ events = {} /\ removed = {}
  /\ hashes = [f \in Files |-> NoHash]
  /\ server = [k \in Keys |-> NoEntry]
  /\ storage = [k \in Keys |-> NoEntry]
  /\ request = [r \in Requests |-> NoRequest]
  /\ edits = 0 /\ evictions = 0 /\ late = {} /\ ahead = {}

-----------------------------------------------------------------------------
\* Somebody writes, damages or deletes a file.  chokidar holds a write back until
\* the file has settled (awaitWriteFinish), so that the events of a file that is
\* deleted and written come in either order, and makes one `change` of a
\* deletion that a write follows at once.
Edit(f, content) ==
  /\ edits < MaxEdits
  /\ content # files[f]
  /\ files' = [files EXCEPT ![f] = content]
  /\ \/ content = Gone /\ removed' = removed \union {f} /\ UNCHANGED events
     \/ /\ content # Gone /\ events' = events \union {f}
        /\ removed' \in {removed, removed \ {f}}
  /\ edits' = edits + 1
  /\ UNCHANGED <<mode, hashes, server, storage, request, evictions, late, ahead>>

\* Whether shouldProcess(f) says no: a file that is gone cannot be read and is
\* processed.
Unchanged(f) == files[f] # Gone /\ hashes[f] = files[f]

\* The files mergeDevTranslations reads for k: without the fallback chain unless
\* the payloads are merged at run time.
Watched(k) == IF mode = "source" THEN Layers(k) ELSE Own(k)

\* Mutant of readTranslationFile: a file that does not parse reads as no file.
ReadLenient(f) == IF files[f] = Broken THEN Gone ELSE files[f]

\* Broken stands for the exception; a file that does not exist is empty.
readTranslationFile(f) == files[f]

\* Mutant of Readable: nothing throws.
AlwaysReadable(k) == TRUE

Readable(k) == \A f \in Watched(k) : readTranslationFile(f) # Broken

mergeDevTranslations(k) == Merge(Watched(k), [f \in Files |-> readTranslationFile(f)])

\* Mutant of applyUpdate: the aliases stay in the storage cache.
UpdateForgetsAliases(K) ==
  /\ server' = [k \in Keys |-> IF k \in K THEN mergeDevTranslations(k) ELSE server[k]]
  /\ storage' = [k \in Keys |->
       IF k \in K /\ k[2] \notin DOMAIN Links THEN NoEntry ELSE storage[k]]

\* applyTranslationWatchCacheUpdate for the keys K: pages and their aliases.
applyUpdate(K) ==
  /\ server' = [k \in Keys |-> IF k \in K THEN mergeDevTranslations(k) ELSE server[k]]
  /\ storage' = [k \in Keys |-> IF k \in K THEN NoEntry ELSE storage[k]]

\* Mutant of Mergeable: pages are written when all of them have been merged.
AllOrNothing(f) ==
  IF \A k \in KeysOf(f) : Readable(k) THEN KeysOf(f) ELSE {}

\* Every page that f feeds is merged by itself (Promise.all): one that fails
\* does not keep the others from being written.
Mergeable(f) == {k \in KeysOf(f) : Readable(k)}

\* The hash recorded for f, forgotten again after a merge that failed.
Remember(f, hash) ==
  hashes' = [hashes EXCEPT ![f] = IF Mergeable(f) = KeysOf(f) THEN hash ELSE NoHash]

\* An event for a file with the content it was last processed with.
IgnoreEvent(f) ==
  /\ f \in events
  /\ Unchanged(f)
  /\ events' = events \ {f}
  /\ UNCHANGED <<mode, files, removed, hashes, server, storage, request, history>>

\* The files read for what f feeds.
ReadFor(f) == UNION {Watched(k) : k \in KeysOf(f)}

\* Those of them with a record of other content than was read.
Outrun(S) == {g \in S : hashes'[g] # NoHash /\ hashes'[g] # files[g]}

\* The rest of invalidateAndRefresh(f): merge what f feeds.
Refresh(f, hash) ==
  /\ applyUpdate(Mergeable(f))
  /\ Remember(f, hash)
  /\ late' = late \ Mergeable(f)
  /\ UNCHANGED <<mode, files, request, edits, evictions>>

\* For a write: the hash stays what it was when the file has vanished since.
HandleWrite(f) ==
  /\ f \in events
  /\ ~Unchanged(f)
  /\ events' = events \ {f}
  /\ Refresh(f, IF files[f] = Gone THEN hashes[f] ELSE files[f])
  /\ ahead' = (ahead \ {f}) \union Outrun(ReadFor(f))
  /\ UNCHANGED removed

\* For a deletion: the hash is forgotten, also when the file is back by now.
HandleUnlink(f) ==
  /\ f \in removed
  /\ removed' = removed \ {f}
  /\ Refresh(f, NoHash)
  /\ ahead' = (ahead \ {f}) \union Outrun(ReadFor(f) \ {f})
  /\ UNCHANGED events

-----------------------------------------------------------------------------
\* The server loader's key: the request names the page, not the alias.
ServerKey(k) == <<k[1], PageOf(k[2])>>

Began(k, stage, entry) == [key |-> k, stage |-> stage, entry |-> entry]

\* A page is rendered and its translations are not in the storage cache: the
\* application asks the server loader, which answers from its cache ...
RequestCached(r, k) ==
  /\ request[r] = NoRequest
  /\ storage[k] = NoEntry
  /\ server[ServerKey(k)] # NoEntry
  /\ request' = [request EXCEPT ![r] = Began(k, "answering", server[ServerKey(k)])]
  /\ UNCHANGED <<mode, files, events, removed, hashes, server, storage, history>>

\* ... or reads what was built.
RequestRead(r, k) ==
  /\ request[r] = NoRequest
  /\ storage[k] = NoEntry
  /\ server[ServerKey(k)] = NoEntry
  /\ request' = [request EXCEPT ![r] = Began(k, "reading", NoEntry)]
  /\ UNCHANGED <<mode, files, events, removed, hashes, server, storage, history>>

\* The read ends.  The loader does not look at its cache again.
ReadDone(r) ==
  /\ request[r] # NoRequest /\ request[r].stage = "reading"
  /\ LET k     == ServerKey(request[r].key)
         entry == Merge(Layers(k), Built)
     IN  /\ server' = [server EXCEPT ![k] = entry]
         /\ request' = [request EXCEPT ![r] = Began(@.key, "answering", entry)]
         /\ late' = IF ReadBefore(k, entry) THEN late \union {k} ELSE late
  /\ UNCHANGED <<mode, files, events, removed, hashes, storage, edits, evictions, ahead>>

\* The answer arrives in the application, which stores it.
Answered(r) ==
  /\ request[r] # NoRequest /\ request[r].stage = "answering"
  /\ LET k == request[r].key
     IN  /\ storage' = [storage EXCEPT ![k] = request[r].entry]
         /\ late' = IF ReadBefore(k, request[r].entry) THEN late \union {k} ELSE late
  /\ request' = [request EXCEPT ![r] = NoRequest]
  /\ UNCHANGED <<mode, files, events, removed, hashes, server, edits, evictions, ahead>>

\* Either cache may drop an entry that it has no room or no lease for.
Evict(k) ==
  /\ evictions < MaxEvictions
  /\ evictions' = evictions + 1
  /\ \/ server[k] # NoEntry /\ server' = [server EXCEPT ![k] = NoEntry]
        /\ UNCHANGED storage
     \/ storage[k] # NoEntry /\ storage' = [storage EXCEPT ![k] = NoEntry]
        /\ UNCHANGED server
  /\ UNCHANGED <<mode, files, events, removed, hashes, request, edits, late, ahead>>

Next ==
  \/ \E f \in Files, content \in Versions \union {Broken, Gone} : Edit(f, content)
  \/ \E f \in Files : IgnoreEvent(f) \/ HandleWrite(f) \/ HandleUnlink(f)
  \/ \E r \in Requests, k \in Keys : RequestCached(r, k) \/ RequestRead(r, k)
  \/ \E r \in Requests : ReadDone(r) \/ Answered(r)
  \/ \E k \in Keys : Evict(k)

Spec == Init /\ [][Next]_vars

-----------------------------------------------------------------------------
TypeOK ==
  /\ mode \in Modes
  /\ files \in [Files -> Versions \union {Broken, Gone}]
  /\ events \subseteq Files /\ removed \subseteq Files
  /\ hashes \in [Files -> Versions \union {Broken, NoHash}]
  /\ server \in [Keys -> Entries \union {NoEntry}]
  /\ storage \in [Keys -> Entries \union {NoEntry}]
  /\ request \in [Requests -> {NoRequest} \union
       [key : Keys, stage : {"reading", "answering"}, entry : Entries \union {NoEntry}]]
  /\ edits \in 0..MaxEdits /\ evictions \in 0..MaxEvictions
  /\ late \subseteq Keys /\ ahead \subseteq Files

\* Nothing about k is under way or unreadable, and neither of the histories
\* speaks of it.  A watcher that reads fallback files is not told of their
\* changes, and is left out.
Settled(k) ==
  /\ Watched(k) = Own(k)
  /\ k \notin late
  /\ Own(k) \intersect (events \union removed \union ahead) = {}
  /\ Readable(k)

\* Once the events are through, the server's cache has the newest content of
\* every file of the key's locale, whatever failed before: half-written files,
\* a failure of one page among those of a root file, evictions, deletions.
\* "a single failed read" must not "freeze the page on its stale chunk".
ServerIsFresh ==
  \A k \in Keys : Settled(k) /\ server[k] # NoEntry => ~Outdated(k, server[k])

\* So has the storage cache, also under a page's aliases.
StorageIsFresh ==
  \A k \in Keys : Settled(k) /\ storage[k] # NoEntry => ~Outdated(k, storage[k])

\* A file that does not parse never takes its translations out of a cached
\* entry: "Failing here leaves the last good entry in place instead".
LastGoodEntryStays ==
  [][\A k \in Keys, f \in Files :
       /\ f \in Own(k)
       /\ server[k] # NoEntry /\ server'[k] # NoEntry
       /\ server[k][f] # Gone /\ server'[k][f] = Gone
       => files[f] = Gone]_vars

(* What makes freshness inductive. *)

\* A file has the content it was processed with, or none is recorded, or the
\* event of its last edit is to come.
HashesAreCurrent ==
  \A f \in Files :
    \/ hashes[f] \in {NoHash, files[f]}
    \/ IF files[f] = Gone THEN f \in removed ELSE f \in events

\* Content that does not parse is not recorded for a file that feeds a key.
HashesAreOfMerged ==
  \A f \in Files : KeysOf(f) # {} => hashes[f] # Broken

\* What will bring an entry of k up to date, or excuses it.
Repair(k) ==
  \E g \in Own(k) :
    g \in ahead \/ (hashes[g] = NoHash /\ (g \in events \union removed \/ files[g] = Broken))

\* An entry of k has the content that f was processed with; without a record,
\* the newest one, or its repair is due.
Agrees(entry, k, f) ==
  \/ hashes[f] # NoHash /\ (f \in ahead \/ entry[f] = hashes[f])
  \/ hashes[f] = NoHash /\ (f \in events \union removed \/ entry[f] = files[f] \/ Repair(k))

FollowsHashes(entries) ==
  \A k \in Keys : Watched(k) = Own(k) /\ k \notin late /\ entries[k] # NoEntry =>
    \A f \in Own(k) : Agrees(entries[k], k, f)

FreshInv ==
  /\ TypeOK
  /\ HashesAreCurrent /\ HashesAreOfMerged
  /\ FollowsHashes(server) /\ FollowsHashes(storage)

-----------------------------------------------------------------------------
\* Documented: the route "Returns translations with fallback locales".  What
\* the watcher writes is merged from the whole chain, like what is loaded.
WatcherKeepsFallback ==
  [][\A k \in Keys :
       server'[k] # server[k] /\ server'[k] # NoEntry
       => \A f \in Layers(k) : files[f] # Gone => server'[k][f] # Gone]_vars

=============================================================================
