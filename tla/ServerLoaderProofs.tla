------------------------- MODULE ServerLoaderProofs -------------------------
(***************************************************************************)
(* The caches of the server end up with the newest files, for every set of *)
(* locales, pages, aliases and fallback chains, any number of requests and *)
(* any number of edits.                                                    *)
(*                                                                         *)
(* What has to be remembered for that is what the watcher owes: an entry   *)
(* has the content that a file was last processed with, or a file that     *)
(* feeds it is still to be processed (FreshInv).                           *)
(***************************************************************************)
EXTENDS ServerLoader, TLAPS

LEMMA KeyShape ==
  ASSUME NEW k \in Keys
  PROVE  /\ k[1] \in Locales /\ PageOf(k[2]) \in Pages
         /\ Own(k) \subseteq Files /\ Layers(k) \subseteq Files
         /\ Own(k) \subseteq Layers(k)
         /\ ServerKey(k) \in Keys /\ Own(ServerKey(k)) = Own(k)
<1>1. k[1] \in Locales /\ k[2] \in Routes
  BY DEF Keys
<1>2. PageOf(k[2]) \in Pages
  BY <1>1, ServerAssumption DEF PageOf, Routes
<1>3. PageOf(PageOf(k[2])) = PageOf(k[2])
  BY <1>2, ServerAssumption DEF PageOf
<1>4. Own(k) \subseteq Files /\ Layers(k) \subseteq Files /\ Own(k) \subseteq Layers(k)
  BY <1>1, <1>2, ServerAssumption DEF Own, Layers, Files
<1>5. ServerKey(k) \in Keys /\ Own(ServerKey(k)) = Own(k)
  BY <1>1, <1>2, <1>3 DEF ServerKey, Keys, Routes, Own
<1> QED
  BY <1>1, <1>2, <1>4, <1>5

LEMMA WatchedFiles ==
  ASSUME NEW k \in Keys
  PROVE  Watched(k) \subseteq Files /\ Own(k) \subseteq Watched(k)
  BY KeyShape DEF Watched

\* An entry merged from readable files has no text that does not parse.
LEMMA MergeTypes ==
  ASSUME TypeOK, NEW k \in Keys, Readable(k)
  PROVE  /\ mergeDevTranslations(k) \in Entries
         /\ \A f \in Own(k) : mergeDevTranslations(k)[f] = files[f]
<1>1. \A f \in Watched(k) : files[f] \in Versions \union {Gone}
  BY WatchedFiles DEF TypeOK, Readable, readTranslationFile
<1> QED
  BY <1>1, WatchedFiles DEF mergeDevTranslations, readTranslationFile, Merge, Entries

LEMMA BuiltTypes ==
  ASSUME NEW k \in Keys
  PROVE  /\ Merge(Layers(k), Built) \in Entries
         /\ \A f \in Own(k) : Merge(Layers(k), Built)[f] = 0
  BY KeyShape, ServerAssumption DEF Merge, Built, Entries

LEMMA InitInv == Init => FreshInv
<1> SUFFICES ASSUME Init PROVE FreshInv
  OBVIOUS
<1>1. TypeOK
  BY ServerAssumption DEF Init, TypeOK, Built
<1>2. HashesAreCurrent
  BY DEF Init, HashesAreCurrent
<1>3. HashesAreOfMerged
  BY ServerAssumption DEF Init, HashesAreOfMerged
<1>4. FollowsHashes(server) /\ FollowsHashes(storage)
  BY DEF Init, FollowsHashes
<1> QED
  BY <1>1, <1>2, <1>3, <1>4 DEF FreshInv

-----------------------------------------------------------------------------
\* What an event's handler writes has its type.
LEMMA RefreshTypes ==
  ASSUME TypeOK, NEW f \in Files, NEW hash \in Versions \union {Broken, NoHash},
         Refresh(f, hash), events' \subseteq Files, removed' \subseteq Files,
         ahead' \subseteq ahead \union ReadFor(f)
  PROVE  TypeOK'
<1>1. Mergeable(f) \subseteq Keys
  BY DEF Mergeable, KeysOf
<1>2. server' \in [Keys -> Entries \union {NoEntry}]
  <2>1. \A k \in Mergeable(f) : mergeDevTranslations(k) \in Entries
    BY <1>1, MergeTypes DEF Mergeable
  <2> QED
    BY <2>1 DEF Refresh, applyUpdate, TypeOK
<1>3. storage' \in [Keys -> Entries \union {NoEntry}]
  BY DEF Refresh, applyUpdate, TypeOK
<1>4. hashes' \in [Files -> Versions \union {Broken, NoHash}]
  BY DEF Refresh, Remember, TypeOK
<1>5. late' \subseteq Keys
  BY DEF Refresh, TypeOK
<1>6. ahead' \subseteq Files
  <2>1. \A k \in KeysOf(f) : Watched(k) \subseteq Files
    BY WatchedFiles DEF KeysOf
  <2> QED
    BY <2>1 DEF ReadFor, TypeOK
<1>7. /\ mode' = mode /\ files' = files /\ request' = request
      /\ edits' = edits /\ evictions' = evictions
  BY DEF Refresh
<1> QED
  BY <1>2, <1>3, <1>4, <1>5, <1>6, <1>7 DEF TypeOK

\* One step keeps the types.
LEMMA TypeStep == TypeOK /\ [Next]_vars => TypeOK'
<1> SUFFICES ASSUME TypeOK, [Next]_vars PROVE TypeOK'
  OBVIOUS
<1>1. ASSUME NEW f \in Files, NEW content \in Versions \union {Broken, Gone},
             Edit(f, content)
      PROVE  TypeOK'
  BY <1>1, ServerAssumption DEF TypeOK, Edit
<1>2. ASSUME NEW f \in Files, IgnoreEvent(f) PROVE TypeOK'
  BY <1>2 DEF TypeOK, IgnoreEvent, history
<1>3. ASSUME NEW f \in Files, HandleWrite(f) PROVE TypeOK'
  <2>1. /\ events' \subseteq Files /\ removed' \subseteq Files
        /\ (IF files[f] = Gone THEN hashes[f] ELSE files[f])
              \in Versions \union {Broken, NoHash}
        /\ ahead' \subseteq ahead \union ReadFor(f)
    BY <1>3 DEF HandleWrite, Outrun, TypeOK
  <2> QED
    BY <2>1, <1>3, RefreshTypes DEF HandleWrite
<1>10. ASSUME NEW f \in Files, HandleUnlink(f) PROVE TypeOK'
  <2>1. /\ events' \subseteq Files /\ removed' \subseteq Files
        /\ ahead' \subseteq ahead \union ReadFor(f)
    BY <1>10 DEF HandleUnlink, Outrun, TypeOK
  <2> QED
    BY <2>1, <1>10, RefreshTypes DEF HandleUnlink
<1>4. ASSUME NEW r \in Requests, NEW k \in Keys, RequestCached(r, k) PROVE TypeOK'
  <2>1. server[ServerKey(k)] \in Entries \union {NoEntry}
    BY KeyShape DEF TypeOK
  <2> QED
    BY <2>1, <1>4 DEF TypeOK, RequestCached, Began, history
<1>5. ASSUME NEW r \in Requests, NEW k \in Keys, RequestRead(r, k) PROVE TypeOK'
  BY <1>5 DEF TypeOK, RequestRead, Began, history
<1>6. ASSUME NEW r \in Requests, ReadDone(r) PROVE TypeOK'
  <2> DEFINE k     == ServerKey(request[r].key)
             entry == Merge(Layers(k), Built)
  <2>1. request[r].key \in Keys /\ k \in Keys
    BY <1>6, KeyShape DEF ReadDone, TypeOK
  <2>2. entry \in Entries
    BY <2>1, BuiltTypes
  <2>3. /\ server' = [server EXCEPT ![k] = entry]
        /\ request' = [request EXCEPT ![r] = Began(request[r].key, "answering", entry)]
        /\ late' = late \/ late' = late \union {k}
        /\ UNCHANGED <<mode, files, events, removed, hashes, storage, edits, evictions, ahead>>
    BY <1>6 DEF ReadDone
  <2> HIDE DEF k, entry
  <2> QED
    BY <2>1, <2>2, <2>3 DEF TypeOK, Began
<1>7. ASSUME NEW r \in Requests, Answered(r) PROVE TypeOK'
  <2>1. request[r].key \in Keys /\ request[r].entry \in Entries \union {NoEntry}
    BY <1>7 DEF Answered, TypeOK
  <2>2. /\ storage' = [storage EXCEPT ![request[r].key] = request[r].entry]
        /\ request' = [request EXCEPT ![r] = NoRequest]
        /\ late' = late \/ late' = late \union {request[r].key}
        /\ UNCHANGED <<mode, files, events, removed, hashes, server, edits, evictions, ahead>>
    BY <1>7 DEF Answered
  <2> QED
    BY <2>1, <2>2 DEF TypeOK
<1>8. ASSUME NEW k \in Keys, Evict(k) PROVE TypeOK'
  BY <1>8, ServerAssumption DEF TypeOK, Evict
<1>9. CASE UNCHANGED vars
  BY <1>9 DEF TypeOK, vars, history
<1> QED
  BY <1>1, <1>2, <1>3, <1>4, <1>5, <1>6, <1>7, <1>8, <1>9, <1>10 DEF Next

\* The types, for any translations, files and requests.
THEOREM ServerTypes == Spec => []TypeOK
<1>1. Init => TypeOK
  BY InitInv DEF FreshInv
<1> QED
  BY <1>1, TypeStep, PTL DEF Spec

-----------------------------------------------------------------------------
\* An edit: the file has an event to come.
LEMMA EditStep ==
  ASSUME FreshInv, NEW f \in Files, NEW content \in Versions \union {Broken, Gone},
         Edit(f, content)
  PROVE  FreshInv'
<1> USE DEF Edit
<1>1. TypeOK'
  BY TypeStep DEF FreshInv, Next
<1>2. HashesAreCurrent'
  BY DEF FreshInv, TypeOK, HashesAreCurrent
<1>3. HashesAreOfMerged'
  BY DEF FreshInv, HashesAreOfMerged
<1>4. ASSUME NEW entry, NEW k \in Keys, NEW g \in Own(k), Agrees(entry, k, g)
      PROVE  Agrees(entry, k, g)'
  <2>1. Own(k) \subseteq Files
    BY KeyShape
  <2>2. \A h \in Files : h # f => files'[h] = files[h]
    BY DEF FreshInv, TypeOK
  <2>3. Repair(k) => Repair(k)'
    BY <2>1, <2>2 DEF Repair
  <2> QED
    BY <1>4, <2>1, <2>2, <2>3 DEF Agrees
<1>5. FollowsHashes(server)' /\ FollowsHashes(storage)'
  <2>1. \A k \in Keys : (Watched(k) = Own(k))' <=> Watched(k) = Own(k)
    BY DEF Watched
  <2> QED
    BY <1>4, <2>1 DEF FreshInv, FollowsHashes
<1> QED
  BY <1>1, <1>2, <1>3, <1>5 DEF FreshInv

\* An event that is ignored: the file still has the content recorded for it.
LEMMA IgnoreStep ==
  ASSUME FreshInv, NEW f \in Files, IgnoreEvent(f)
  PROVE  FreshInv'
<1> USE DEF IgnoreEvent, history
<1>1. TypeOK'
  BY TypeStep DEF FreshInv, Next
<1>2. hashes[f] = files[f] /\ hashes[f] # NoHash
  BY ServerAssumption DEF Unchanged, FreshInv, TypeOK
<1>3. HashesAreCurrent'
  BY <1>2 DEF FreshInv, HashesAreCurrent
<1>4. HashesAreOfMerged'
  BY DEF FreshInv, HashesAreOfMerged
<1>5. ASSUME NEW entry, NEW k \in Keys, NEW g \in Own(k), Agrees(entry, k, g)
      PROVE  Agrees(entry, k, g)'
  <2>1. Repair(k) => Repair(k)'
    BY <1>2 DEF Repair
  <2> QED
    BY <1>2, <1>5, <2>1 DEF Agrees
<1>6. FollowsHashes(server)' /\ FollowsHashes(storage)'
  <2>1. \A k \in Keys : (Watched(k) = Own(k))' <=> Watched(k) = Own(k)
    BY DEF Watched
  <2> QED
    BY <1>5, <2>1 DEF FreshInv, FollowsHashes
<1> QED
  BY <1>1, <1>3, <1>4, <1>6 DEF FreshInv

\* What was read with other content than is recorded is noted.
Noted(f) ==
  /\ ahead \ {f} \subseteq ahead'
  /\ \A g \in ReadFor(f) : hashes'[g] # NoHash /\ hashes'[g] # files[g] => g \in ahead'

\* A key of f that could not be merged has a file that cannot be read: the file
\* has no record, or is noted as ahead of it.
LEMMA RepairIsDue ==
  ASSUME FreshInv, NEW f \in Files, NEW hash, Refresh(f, hash), Noted(f),
         NEW k \in Keys, f \in Own(k), ~Readable(k), Watched(k) = Own(k)
  PROVE  Repair(k)' /\ hashes'[f] = NoHash
<1>1. k \in KeysOf(f) /\ k \notin Mergeable(f)
  BY DEF KeysOf, Mergeable
<1>2. hashes' = [hashes EXCEPT ![f] = NoHash]
  BY <1>1 DEF Refresh, Remember
<1>3. hashes'[f] = NoHash
  BY <1>2 DEF FreshInv, TypeOK
<1>4. PICK g \in Own(k) : files[g] = Broken
  BY DEF Readable, readTranslationFile
<1>5. g \in Files /\ k \in KeysOf(g) /\ files'[g] = Broken
  BY <1>4, KeyShape DEF KeysOf, Refresh
<1>6. CASE hashes'[g] = NoHash
  BY <1>3, <1>4, <1>5, <1>6 DEF Repair
<1>7. CASE hashes'[g] # NoHash
  <2>1. hashes'[g] = hashes[g]
    BY <1>2, <1>3, <1>5, <1>7 DEF FreshInv, TypeOK
  <2>2. hashes'[g] # files[g]
    BY <1>4, <1>5, <2>1 DEF FreshInv, HashesAreOfMerged
  <2>3. g \in ReadFor(f)
    BY <1>1, <1>4 DEF ReadFor
  <2>4. g \in ahead'
    BY <1>7, <2>2, <2>3 DEF Noted
  <2> QED
    BY <1>3, <1>4, <2>4 DEF Repair
<1> QED
  BY <1>6, <1>7

\* What was merged agrees with every record, or the file is ahead of its record.
LEMMA MergedAgrees ==
  ASSUME FreshInv, NEW f \in Files, NEW hash, Refresh(f, hash), Noted(f),
         NEW k \in Mergeable(f), NEW g \in Own(k)
  PROVE  Agrees(mergeDevTranslations(k), k, g)'
<1>1. k \in Keys /\ k \in KeysOf(f) /\ Readable(k)
  BY DEF Mergeable, KeysOf
<1>2. g \in Watched(k)
  BY <1>1, WatchedFiles
<1>3. mergeDevTranslations(k)[g] = files[g] /\ files' = files /\ mode' = mode
  BY <1>1, MergeTypes DEF FreshInv, Refresh
<1>4. mergeDevTranslations(k)' = mergeDevTranslations(k)
  BY <1>3 DEF mergeDevTranslations, readTranslationFile, Merge, Watched
<1>5. hashes'[g] # NoHash /\ hashes'[g] # files[g] => g \in ahead'
  BY <1>1, <1>2 DEF Noted, ReadFor
<1> QED
  BY <1>3, <1>4, <1>5 DEF Agrees

\* An entry that the handler leaves alone stays as well recorded as it was.
LEMMA UntouchedAgrees ==
  ASSUME FreshInv, NEW f \in Files, NEW hash, Refresh(f, hash), Noted(f),
         \A h \in Files \ {f} : h \in events \union removed => h \in (events \union removed)',
         NEW k \in Keys, k \notin Mergeable(f), Watched(k) = Own(k),
         NEW entry, NEW g \in Own(k), Agrees(entry, k, g)
  PROVE  Agrees(entry, k, g)'
<1>1. g \in Files /\ files' = files /\ Own(k) \subseteq Files
  BY KeyShape DEF Refresh
<1>2. \A h \in Files \ {f} :
        /\ hashes'[h] = hashes[h]
        /\ h \in events \union removed => h \in (events \union removed)'
        /\ h \in ahead => h \in ahead'
  BY DEF Refresh, Remember, Noted, FreshInv, TypeOK
<1>3. CASE f \in Own(k)
  <2>1. Repair(k)' /\ hashes'[f] = NoHash
    BY <1>3, RepairIsDue DEF Mergeable, KeysOf
  <2>2. CASE g = f
    BY <2>1, <2>2 DEF Agrees
  <2>3. CASE g # f
    BY <1>1, <1>2, <2>1, <2>3 DEF Agrees
  <2> QED
    BY <2>2, <2>3
<1>4. CASE f \notin Own(k)
  <2>1. Repair(k) => Repair(k)'
    BY <1>1, <1>2, <1>4 DEF Repair
  <2> QED
    BY <1>1, <1>2, <1>4, <2>1 DEF Agrees
<1> QED
  BY <1>3, <1>4

\* An event that is handled leaves the hash of the file, of nothing, or, where
\* the file has vanished, the one it had.
LEMMA RefreshStep ==
  ASSUME FreshInv, TypeOK', NEW f \in Files,
         NEW hash \in {NoHash, hashes[f], files[f]}, Refresh(f, hash), Noted(f),
         hash = hashes[f] => hashes[f] = NoHash \/ (files[f] = Gone /\ removed' = removed),
         \A h \in Files \ {f} :
           (h \in events => h \in events') /\ (h \in removed => h \in removed')
  PROVE  FreshInv'
<1>1. /\ files' = files /\ mode' = mode
      /\ late' = late \ Mergeable(f) /\ applyUpdate(Mergeable(f))
  BY DEF Refresh
<1>2. hashes' = [hashes EXCEPT ![f] = IF Mergeable(f) = KeysOf(f) THEN hash ELSE NoHash]
  BY DEF Refresh, Remember
<1>3. \A h \in Files \ {f} : h \in events \union removed => h \in (events \union removed)'
  OBVIOUS
<1>4. HashesAreCurrent'
  <2> SUFFICES ASSUME NEW g \in Files
               PROVE  \/ hashes'[g] \in {NoHash, files[g]}
                      \/ IF files[g] = Gone THEN g \in removed' ELSE g \in events'
    BY <1>1 DEF HashesAreCurrent
  <2>1. \/ hashes[g] \in {NoHash, files[g]}
        \/ IF files[g] = Gone THEN g \in removed ELSE g \in events
    BY DEF FreshInv, HashesAreCurrent
  <2>2. CASE g = f
    <3>1. hashes'[f] \in {NoHash, hash}
      BY <1>2 DEF FreshInv, TypeOK
    <3> QED
      BY <2>1, <2>2, <3>1
  <2>3. CASE g # f
    BY <1>2, <2>1, <2>3 DEF FreshInv, TypeOK
  <2> QED
    BY <2>2, <2>3
<1>5. HashesAreOfMerged'
  <2> SUFFICES ASSUME NEW g \in Files, KeysOf(g) # {} PROVE hashes'[g] # Broken
    BY DEF HashesAreOfMerged
  <2>1. hashes[g] # Broken /\ NoHash # Broken
    BY ServerAssumption DEF FreshInv, HashesAreOfMerged
  <2>2. CASE g = f /\ Mergeable(f) = KeysOf(f)
    <3>1. PICK k \in KeysOf(f) : Readable(k)
      BY <2>2 DEF Mergeable
    <3>2. k \in Keys /\ f \in Watched(k)
      BY <3>1, WatchedFiles DEF KeysOf
    <3>3. files[f] # Broken
      BY <3>1, <3>2 DEF Readable, readTranslationFile
    <3>4. hashes'[f] = hash
      BY <1>2, <2>2 DEF FreshInv, TypeOK
    <3> QED
      BY <2>1, <2>2, <3>3, <3>4
  <2>3. CASE g = f /\ Mergeable(f) # KeysOf(f)
    BY <1>2, <2>1, <2>3 DEF FreshInv, TypeOK
  <2>4. CASE g # f
    BY <1>2, <2>1, <2>4 DEF FreshInv, TypeOK
  <2> QED
    BY <2>2, <2>3, <2>4
<1>6. \A k \in Keys : (Watched(k) = Own(k))' <=> Watched(k) = Own(k)
  BY <1>1 DEF Watched
<1>7. FollowsHashes(server)'
  <2> SUFFICES ASSUME NEW k \in Keys, Watched(k) = Own(k), k \notin late',
                      server'[k] # NoEntry, NEW g \in Own(k)
               PROVE  Agrees(server[k], k, g)'
    BY <1>6 DEF FollowsHashes
  <2>1. CASE k \in Mergeable(f)
    <3>1. server'[k] = mergeDevTranslations(k)
      BY <1>1, <2>1 DEF applyUpdate
    <3>2. mergeDevTranslations(k)' = mergeDevTranslations(k)
      BY <1>1 DEF mergeDevTranslations, readTranslationFile, Merge, Watched
    <3>3. Agrees(mergeDevTranslations(k), k, g)'
      BY <2>1, MergedAgrees
    <3> QED
      BY <3>1, <3>2, <3>3 DEF Agrees
  <2>2. CASE k \notin Mergeable(f)
    <3>1. server'[k] = server[k] /\ k \notin late
      BY <1>1, <2>2 DEF applyUpdate
    <3>2. Agrees(server[k], k, g)
      BY <3>1 DEF FreshInv, FollowsHashes
    <3>3. \A e : Agrees(e, k, g) => Agrees(e, k, g)'
      BY <1>3, <2>2, UntouchedAgrees
    <3> QED
      BY <3>1, <3>2, <3>3 DEF Agrees
  <2> QED
    BY <2>1, <2>2
<1>8. FollowsHashes(storage)'
  <2> SUFFICES ASSUME NEW k \in Keys, Watched(k) = Own(k), k \notin late',
                      storage'[k] # NoEntry, NEW g \in Own(k)
               PROVE  Agrees(storage[k], k, g)'
    BY <1>6 DEF FollowsHashes
  <2>1. k \notin Mergeable(f) /\ storage'[k] = storage[k] /\ k \notin late
    BY <1>1 DEF applyUpdate
  <2>2. Agrees(storage[k], k, g)
    BY <2>1 DEF FreshInv, FollowsHashes
  <2>3. \A e : Agrees(e, k, g) => Agrees(e, k, g)'
    BY <1>3, <2>1, UntouchedAgrees
  <2> QED
    BY <2>1, <2>2, <2>3 DEF Agrees
<1> QED
  BY <1>4, <1>5, <1>7, <1>8 DEF FreshInv

LEMMA HandleStep ==
  ASSUME FreshInv, NEW f \in Files, HandleWrite(f) \/ HandleUnlink(f)
  PROVE  FreshInv'
<1>1. TypeOK'
  BY TypeStep DEF FreshInv, Next
<1>2. CASE HandleWrite(f)
  <2> DEFINE hash == IF files[f] = Gone THEN hashes[f] ELSE files[f]
  <2>1. Refresh(f, hash) /\ events' = events \ {f} /\ removed' = removed /\ Noted(f)
    BY <1>2 DEF HandleWrite, Noted, Outrun
  <2>2. CASE files[f] = Gone
    <3>1. hash = hashes[f]
      BY <2>2
    <3> QED
      BY <1>1, <2>1, <2>2, <3>1, RefreshStep
  <2>3. CASE files[f] # Gone
    <3>1. hash = files[f] /\ hashes[f] # files[f]
      BY <1>2, <2>3 DEF HandleWrite, Unchanged
    <3> QED
      BY <1>1, <2>1, <3>1, RefreshStep
  <2> QED
    BY <2>2, <2>3
<1>3. CASE HandleUnlink(f)
  <2>1. Refresh(f, NoHash) /\ removed' = removed \ {f} /\ events' = events
    BY <1>3 DEF HandleUnlink
  <2>2. hashes'[f] = NoHash
    BY <2>1 DEF Refresh, Remember, FreshInv, TypeOK
  <2>3. Noted(f)
    BY <1>3, <2>2 DEF HandleUnlink, Noted, Outrun
  <2> QED
    BY <1>1, <2>1, <2>3, RefreshStep
<1> QED
  BY <1>2, <1>3

\* What was built agrees with every record, or the load was late.
LEMMA BuiltAgrees ==
  ASSUME NEW k \in Keys, NEW entry, ~ReadBefore(k, entry), NEW g \in Own(k)
  PROVE  Agrees(entry, k, g)
  BY DEF ReadBefore, Outdated, Agrees

\* Requests write nothing but late or agreeing entries, evictions none at all.
LEMMA ReadDoneStep ==
  ASSUME FreshInv, NEW r \in Requests, ReadDone(r)
  PROVE  FreshInv'
<1> DEFINE key   == ServerKey(request[r].key)
           entry == Merge(Layers(key), Built)
<1>1. TypeOK'
  BY TypeStep DEF FreshInv, Next
<1>2. /\ server' = [server EXCEPT ![key] = entry]
      /\ late' = IF ReadBefore(key, entry) THEN late \union {key} ELSE late
      /\ UNCHANGED <<mode, files, events, removed, hashes, storage, ahead>>
  BY DEF ReadDone
<1> HIDE DEF key, entry
<1>3. HashesAreCurrent' /\ HashesAreOfMerged'
  BY <1>2 DEF FreshInv, HashesAreCurrent, HashesAreOfMerged
<1>4. ASSUME NEW e, NEW k \in Keys, NEW g \in Own(k), Agrees(e, k, g)
      PROVE  Agrees(e, k, g)'
  BY <1>2, <1>4 DEF Agrees, Repair
<1>5. \A k \in Keys : (Watched(k) = Own(k))' <=> Watched(k) = Own(k)
  BY <1>2 DEF Watched
<1>6. FollowsHashes(storage)'
  BY <1>2, <1>4, <1>5 DEF FreshInv, FollowsHashes
<1>7. FollowsHashes(server)'
  <2> SUFFICES ASSUME NEW k \in Keys, Watched(k) = Own(k), k \notin late',
                      server'[k] # NoEntry, NEW g \in Own(k)
               PROVE  Agrees(server[k], k, g)'
    BY <1>5 DEF FollowsHashes
  <2>1. CASE k = key
    <3>1. server'[k] = entry /\ ~ReadBefore(k, entry)
      BY <1>2, <2>1 DEF FreshInv, TypeOK
    <3>2. Agrees(entry, k, g)
      BY <3>1, BuiltAgrees
    <3> QED
      BY <1>2, <3>1, <3>2 DEF Agrees, Repair
  <2>2. CASE k # key
    <3>1. server'[k] = server[k] /\ k \notin late
      BY <1>2, <2>2 DEF FreshInv, TypeOK
    <3>2. Agrees(server[k], k, g)
      BY <3>1 DEF FreshInv, FollowsHashes
    <3> QED
      BY <1>2, <3>1, <3>2 DEF Agrees, Repair
  <2> QED
    BY <2>1, <2>2
<1> QED
  BY <1>1, <1>3, <1>6, <1>7 DEF FreshInv

LEMMA AnsweredStep ==
  ASSUME FreshInv, NEW r \in Requests, Answered(r)
  PROVE  FreshInv'
<1> DEFINE key   == request[r].key
           entry == request[r].entry
<1>1. TypeOK'
  BY TypeStep DEF FreshInv, Next
<1>2. /\ storage' = [storage EXCEPT ![key] = entry]
      /\ late' = IF ReadBefore(key, entry) THEN late \union {key} ELSE late
      /\ UNCHANGED <<mode, files, events, removed, hashes, server, ahead>>
  BY DEF Answered
<1> HIDE DEF key, entry
<1>3. HashesAreCurrent' /\ HashesAreOfMerged'
  BY <1>2 DEF FreshInv, HashesAreCurrent, HashesAreOfMerged
<1>4. ASSUME NEW e, NEW k \in Keys, NEW g \in Own(k), Agrees(e, k, g)
      PROVE  Agrees(e, k, g)'
  BY <1>2, <1>4 DEF Agrees, Repair
<1>5. \A k \in Keys : (Watched(k) = Own(k))' <=> Watched(k) = Own(k)
  BY <1>2 DEF Watched
<1>6. FollowsHashes(server)'
  BY <1>2, <1>4, <1>5 DEF FreshInv, FollowsHashes
<1>7. FollowsHashes(storage)'
  <2> SUFFICES ASSUME NEW k \in Keys, Watched(k) = Own(k), k \notin late',
                      storage'[k] # NoEntry, NEW g \in Own(k)
               PROVE  Agrees(storage[k], k, g)'
    BY <1>5 DEF FollowsHashes
  <2>1. CASE k = key
    <3>1. storage'[k] = entry /\ ~ReadBefore(k, entry)
      BY <1>2, <2>1 DEF FreshInv, TypeOK
    <3>2. Agrees(entry, k, g)
      BY <3>1, BuiltAgrees
    <3> QED
      BY <1>2, <3>1, <3>2 DEF Agrees, Repair
  <2>2. CASE k # key
    <3>1. storage'[k] = storage[k] /\ k \notin late
      BY <1>2, <2>2 DEF FreshInv, TypeOK
    <3>2. Agrees(storage[k], k, g)
      BY <3>1 DEF FreshInv, FollowsHashes
    <3> QED
      BY <1>2, <3>1, <3>2 DEF Agrees, Repair
  <2> QED
    BY <2>1, <2>2
<1> QED
  BY <1>1, <1>3, <1>6, <1>7 DEF FreshInv

\* Steps that write no entry at all, or take some away.
LEMMA QuietStep ==
  ASSUME FreshInv, TypeOK',
         UNCHANGED <<mode, files, events, removed, hashes, late, ahead>>,
         \A k \in Keys : server'[k] \in {server[k], NoEntry}
                      /\ storage'[k] \in {storage[k], NoEntry}
  PROVE  FreshInv'
<1>1. HashesAreCurrent' /\ HashesAreOfMerged'
  BY DEF FreshInv, HashesAreCurrent, HashesAreOfMerged
<1>2. ASSUME NEW e, NEW k \in Keys, NEW g \in Own(k), Agrees(e, k, g)
      PROVE  Agrees(e, k, g)'
  BY <1>2 DEF Agrees, Repair
<1>3. \A k \in Keys : (Watched(k) = Own(k))' <=> Watched(k) = Own(k)
  BY DEF Watched
<1>4. FollowsHashes(server)' /\ FollowsHashes(storage)'
  <2> SUFFICES ASSUME NEW k \in Keys, Watched(k) = Own(k), k \notin late,
                      NEW g \in Own(k)
               PROVE  /\ server'[k] # NoEntry => Agrees(server[k], k, g)'
                      /\ storage'[k] # NoEntry => Agrees(storage[k], k, g)'
    BY <1>3 DEF FollowsHashes
  <2>1. server[k] # NoEntry => Agrees(server[k], k, g)
    BY DEF FreshInv, FollowsHashes
  <2>2. storage[k] # NoEntry => Agrees(storage[k], k, g)
    BY DEF FreshInv, FollowsHashes
  <2> QED
    BY <2>1, <2>2 DEF Agrees, Repair
<1> QED
  BY <1>1, <1>4 DEF FreshInv

LEMMA FreshStep == FreshInv /\ [Next]_vars => FreshInv'
<1> SUFFICES ASSUME FreshInv, [Next]_vars PROVE FreshInv'
  OBVIOUS
<1>1. TypeOK'
  BY TypeStep DEF FreshInv
<1>2. CASE \E r \in Requests, k \in Keys : RequestCached(r, k) \/ RequestRead(r, k)
  BY <1>1, <1>2, QuietStep DEF RequestCached, RequestRead, history
<1>3. CASE \E k \in Keys : Evict(k)
  <2>1. PICK key \in Keys : Evict(key)
    BY <1>3
  <2> QED
    BY <1>1, <2>1, QuietStep DEF Evict, FreshInv, TypeOK
<1>4. CASE UNCHANGED vars
  BY <1>1, <1>4, QuietStep DEF vars, history
<1> QED
  BY <1>2, <1>3, <1>4, EditStep, IgnoreStep, HandleStep, ReadDoneStep, AnsweredStep
  DEF Next

\* An entry of a key about which nothing is under way has the newest content.
LEMMA SettledIsFresh ==
  ASSUME FreshInv, NEW k \in Keys, Settled(k), NEW entry,
         \A f \in Own(k) : Agrees(entry, k, f)
  PROVE  ~Outdated(k, entry)
<1> SUFFICES ASSUME NEW f \in Own(k) PROVE entry[f] = files[f]
  BY DEF Outdated
<1>1. Own(k) \subseteq Files /\ Own(k) \intersect (events \union removed \union ahead) = {}
  BY KeyShape DEF Settled
<1>2. \A g \in Own(k) : files[g] # Broken
  BY DEF Settled, Readable, readTranslationFile
<1>3. hashes[f] \in {NoHash, files[f]}
  BY <1>1 DEF FreshInv, HashesAreCurrent
<1>4. ~Repair(k)
  BY <1>1, <1>2 DEF Repair
<1> QED
  BY <1>1, <1>3, <1>4 DEF Agrees

\* The server's cache never stays behind the files, for any number of locales,
\* pages, requests, edits and evictions, where what the watcher reads is what it
\* is told of (Settled).
THEOREM ServerFreshness == Spec => []ServerIsFresh
<1>1. FreshInv => ServerIsFresh
  <2> SUFFICES ASSUME FreshInv, NEW k \in Keys, Settled(k), server[k] # NoEntry
               PROVE  ~Outdated(k, server[k])
    BY DEF ServerIsFresh
  <2>1. \A f \in Own(k) : Agrees(server[k], k, f)
    BY DEF FreshInv, FollowsHashes, Settled
  <2> QED
    BY <2>1, SettledIsFresh
<1> QED
  BY <1>1, InitInv, FreshStep, PTL DEF Spec

\* Nor does the storage cache of the rendering application.
THEOREM StorageFreshness == Spec => []StorageIsFresh
<1>1. FreshInv => StorageIsFresh
  <2> SUFFICES ASSUME FreshInv, NEW k \in Keys, Settled(k), storage[k] # NoEntry
               PROVE  ~Outdated(k, storage[k])
    BY DEF StorageIsFresh
  <2>1. \A f \in Own(k) : Agrees(storage[k], k, f)
    BY DEF FreshInv, FollowsHashes, Settled
  <2> QED
    BY <2>1, SettledIsFresh
<1> QED
  BY <1>1, InitInv, FreshStep, PTL DEF Spec

\* A half-written file never takes translations away: an entry loses those of a
\* file only when the file is gone.
THEOREM GoodEntriesStay == Spec => LastGoodEntryStays
<1> DEFINE Step == \A k \in Keys, f \in Files :
       /\ f \in Own(k)
       /\ server[k] # NoEntry /\ server'[k] # NoEntry
       /\ server[k][f] # Gone /\ server'[k][f] = Gone
       => files[f] = Gone
<1>1. TypeOK /\ [Next]_vars => [Step]_vars
  <2> SUFFICES ASSUME TypeOK, Next,
                      NEW k \in Keys, NEW f \in Own(k), server'[k] # NoEntry,
                      server[k][f] # Gone, server'[k][f] = Gone
               PROVE  files[f] = Gone
    OBVIOUS
  <2>1. server'[k] # server[k]
    OBVIOUS
  <2>2. ASSUME NEW g \in Files, HandleWrite(g) \/ HandleUnlink(g) PROVE files[f] = Gone
    <3>1. k \in Mergeable(g) /\ server'[k] = mergeDevTranslations(k)
      BY <2>1, <2>2 DEF HandleWrite, HandleUnlink, Refresh, applyUpdate
    <3> QED
      BY <3>1, MergeTypes DEF Mergeable
  <2>3. ASSUME NEW r \in Requests, ReadDone(r) PROVE FALSE
    <3>1. k = ServerKey(request[r].key) /\ server'[k] = Merge(Layers(k), Built)
      BY <2>1, <2>3 DEF ReadDone, TypeOK
    <3>2. server'[k][f] = 0
      BY <3>1, BuiltTypes
    <3> QED
      BY <3>2, ServerAssumption
  <2>4. ASSUME NEW e \in Keys, Evict(e) PROVE FALSE
    BY <2>1, <2>4 DEF Evict, TypeOK
  <2> QED
    BY <2>1, <2>2, <2>3, <2>4
    DEF Next, Edit, IgnoreEvent, RequestCached, RequestRead, Answered
<1>2. Init => TypeOK
  BY InitInv DEF FreshInv
<1> QED
  BY <1>1, <1>2, TypeStep, PTL DEF Spec, LastGoodEntryStays

=============================================================================
