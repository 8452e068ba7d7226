--------------------------- MODULE ResponseCache ---------------------------
(* proxy-cache and graphql-proxy-cache: one plugin instance over a memory     *)
(* zone (bounded in bytes), a disk zone (entry and index files, a size that    *)
(* is enforced after every store) or a map of its own.                        *)
(*                                                                            *)
(* A response that names request headers in Vary is stored under the key and  *)
(* the values of those headers (its signature); an index per key says which   *)
(* headers count and which signatures were stored.  A storage key is a pair;  *)
(* the empty signature is the key itself.                                     *)
EXTENDS Integers, Sequences, FiniteSets, FiniteSetsExt, Functions, TLC

CONSTANTS Requests,
          Settings,        \* plugin settings the route may have
          Queries,         \* requests: uri, consumer, headers shown, method, freshness asked for
          Nobody,          \* the consumer of a request without one
          Answers,         \* responses of the upstream
          MaxVariants,     \* maxVaryVariants
          CleanupPeriod,
          MaxClock         \* bound: the clock stops here

VARIABLES cfg, clock,
          entries,      \* storage key -> entry, in memory
          vary,         \* key -> index, in memory
          loaded,       \* keys whose index file was looked for
          files,        \* storage key -> entry, on disk
          indexFiles,   \* key -> index, on disk
          cleaned,      \* lastCleanup, 0: never
          reqs

vars == <<cfg, clock, entries, vary, loaded, files, indexFiles, cleaned, reqs>>
stored == <<entries, vary, loaded, files, indexFiles, cleaned>>

(* Settings after the defaults; capacity and disk_size 0: no limit.          *)
ProxyCacheConfigs ==
  [plugin : {"proxy"}, strategy : {"zone", "disk", "local"}, isolation : BOOLEAN, identity : BOOLEAN,
   cache_control : BOOLEAN, set_cookie : BOOLEAN, ttl : Nat \ {0}, capacity : Nat, disk_size : Nat]
GraphQLCacheConfigs ==
  [plugin : {"graphql"}, strategy : {"zone", "disk", "local"}, isolation : BOOLEAN, identity : {FALSE},
   cache_control : {FALSE}, set_cookie : BOOLEAN, ttl : Nat \ {0}, capacity : Nat, disk_size : Nat]

CacheConfig ==
  /\ \A c \in Settings : c \in ProxyCacheConfigs \/ c \in GraphQLCacheConfigs
  /\ \A q \in Queries : DOMAIN q = {"uri", "consumer", "shown", "ask", "method"}
  /\ \A a \in Answers : a.status \in BOOLEAN /\ a.skip \in BOOLEAN /\ a.cookie \in BOOLEAN /\ a.ttl \in Nat
  /\ MaxVariants \in Nat \ {0} /\ MaxClock \in Nat \ {0} /\ CleanupPeriod \in Nat \ {0}

Idle == [phase |-> "idle"]

Init ==
  /\ cfg \in Settings
  /\ clock = 1
  /\ entries = <<>> /\ vary = <<>> /\ loaded = {}
  /\ files = <<>> /\ indexFiles = <<>> /\ cleaned = 0
  /\ reqs = [r \in Requests |-> Idle]

Without(f, S) == Restrict(f, DOMAIN f \ S)
Disk == cfg.strategy = "disk"
Zone == cfg.strategy = "zone"

(***************************************************************************)
(* Keys, signatures and what a request may ask for                           *)
(***************************************************************************)
cacheKey_Shared(q) == <<Nobody, q.uri>>

(* consumer_isolation puts the consumer before a key without an identity of  *)
(* its own (graphql-proxy-cache always).                                     *)
cacheKey(q) == <<IF cfg.isolation \/ cfg.identity THEN q.consumer ELSE Nobody, q.uri>>

VarySignature(headers, shown) == Restrict(shown, headers)

cacheControlEnabled == cfg.cache_control /\ ~Disk /\ ~cfg.identity
cacheSetCookieEnabled == cfg.set_cookie /\ ~Disk

onlyIfCachedMiss(q) == cacheControlEnabled /\ "only-if-cached" \in DOMAIN q.ask

requestCacheControlStale(q, e) ==
  /\ cacheControlEnabled
  /\ LET age == clock - e.at IN
     \/ "max-age" \in DOMAIN q.ask /\ age > q.ask["max-age"]
     \/ "max-stale" \in DOMAIN q.ask /\ age - e.ttl > q.ask["max-stale"]
     \/ "min-fresh" \in DOMAIN q.ask /\ e.ttl - age < q.ask["min-fresh"]

(***************************************************************************)
(* The memory zone: entries, indexes and loaded keys count                   *)
(***************************************************************************)
entryBytes == 2
indexBytes(index) == 1 + Len(index.sigs)
loadedBytes == 1

(* Bytes of a zone that holds these.                                         *)
usedBytes(es, vs, ls) ==
  entryBytes * Cardinality(DOMAIN es) + SumFunction([k \in DOMAIN vs |-> indexBytes(vs[k])])
    + loadedBytes * Cardinality(ls)

canStoreMemoryEntryWithVary(headers) ==
  (Zone /\ cfg.capacity > 0) =>
    entryBytes + (IF headers = {} THEN 0 ELSE indexBytes([sigs |-> <<1>>]) + loadedBytes) <= cfg.capacity

(* A signature without an entry leaves its index, an empty index goes.       *)
removeVaryStorageKey_Keep(vs, sk) == vs
removeVaryStorageKey(vs, sk) ==
  LET left == [k \in DOMAIN vs |->
                 IF k = sk[1] THEN [vs[k] EXCEPT !.sigs = SelectSeq(@, LAMBDA s : s # sk[2])] ELSE vs[k]]
  IN  RestrictValues(left, LAMBDA index : index.sigs # <<>>)
RemovedVaryKeys(vs, sk) == DOMAIN vs \ DOMAIN removeVaryStorageKey(vs, sk)

(* Oldest entries go first, until the zone fits.                             *)
enforceCapacity(z) ==
  LET Fits(y) == cfg.capacity = 0 \/ usedBytes(y.entries, y.vary, y.loaded) <= cfg.capacity
      Oldest(y) == CHOOSE sk \in DOMAIN y.entries : \A other \in DOMAIN y.entries : y.entries[sk].at <= y.entries[other].at
      Drop(y) == LET sk == Oldest(y) IN
                 [entries |-> Without(y.entries, {sk}), vary |-> removeVaryStorageKey(y.vary, sk),
                  loaded |-> y.loaded \ RemovedVaryKeys(y.vary, sk)]
      Shrink[n \in Nat] == IF n = 0 THEN z ELSE LET y == Shrink[n - 1] IN
                           IF Fits(y) \/ DOMAIN y.entries = {} THEN y ELSE Drop(y)
  IN  Shrink[Cardinality(DOMAIN z.entries)]

(* Deletes one entry of the zone.                                            *)
deleteEntry(z, sk) ==
  IF sk \notin DOMAIN z.entries THEN z
  ELSE [entries |-> Without(z.entries, {sk}), vary |-> removeVaryStorageKey(z.vary, sk),
        loaded |-> z.loaded \ RemovedVaryKeys(z.vary, sk)]

(***************************************************************************)
(* The disk zone                                                             *)
(***************************************************************************)
(* s: the whole cache, [entries, vary, loaded, files, indexFiles, cleaned].  *)
State == [entries |-> entries, vary |-> vary, loaded |-> loaded, files |-> files,
          indexFiles |-> indexFiles, cleaned |-> cleaned]
Becomes(s) ==
  /\ entries' = s.entries /\ vary' = s.vary /\ loaded' = s.loaded
  /\ files' = s.files /\ indexFiles' = s.indexFiles /\ cleaned' = s.cleaned

(* The index file is read once per key, until a purge forgets it.            *)
loadVaryIndex(s, key) ==
  IF ~Disk \/ key \in s.loaded THEN s
  ELSE [s EXCEPT !.loaded = @ \union {key},
                 !.vary = IF key \in DOMAIN s.indexFiles THEN (key :> s.indexFiles[key]) @@ @ ELSE @]

(* A file is written beside and renamed: a reader finds all of it or none.   *)
writeDiskJSON(dir, path, value) == (path :> value) @@ dir

removeEntry(s, sks) == IF Disk THEN [s EXCEPT !.files = Without(@, sks)] ELSE s

Expired(e) == clock > e.until

(* Oldest entry files first, index files only when no entry file is left.    *)
NextEvicted_AnyOrder(s) ==
  {<<"entry", sk>> : sk \in DOMAIN s.files} \union {<<"index", k>> : k \in DOMAIN s.indexFiles}
NextEvicted(s) ==
  IF DOMAIN s.files # {}
  THEN {<<"entry", sk>> : sk \in {x \in DOMAIN s.files : \A y \in DOMAIN s.files : s.files[x].at <= s.files[y].at}}
  ELSE {<<"index", k>> : k \in DOMAIN s.indexFiles}

Evict(s, file) ==
  IF file[1] = "entry"
  THEN [s EXCEPT !.files = Without(@, {file[2]}), !.entries = Without(@, {file[2]})]
  ELSE [s EXCEPT !.indexFiles = Without(@, {file[2]})]

(* Expired and malformed entry files go, then files until the rest fits;     *)
(* what goes is forgotten in memory.                                         *)
cleanupDisk(s) ==
  LET gone == {sk \in DOMAIN s.files : Expired(s.files[sk])}
      kept == [s EXCEPT !.files = Without(@, gone), !.entries = Without(@, gone),
                         !.cleaned = IF cfg.plugin = "proxy" THEN clock ELSE @]
      Total(x) == Cardinality(DOMAIN x.files) + Cardinality(DOMAIN x.indexFiles)
      After[n \in Nat] ==
        IF n = 0 THEN {kept}
        ELSE UNION {IF cfg.disk_size = 0 \/ Total(x) <= cfg.disk_size THEN {x}
                    ELSE {Evict(x, file) : file \in NextEvicted(x)} : x \in After[n - 1]}
  IN  After[Total(kept)]

maybeCleanupDisk(s) ==
  IF ~Disk \/ (s.cleaned # 0 /\ clock < s.cleaned + CleanupPeriod) THEN {s} ELSE cleanupDisk(s)

(***************************************************************************)
(* proxy-cache                                                               *)
(***************************************************************************)
storageKey(s, q, key) ==
  IF key \notin DOMAIN s.vary \/ clock > s.vary[key].until \/ s.vary[key].headers = {} THEN <<key, <<>>>>
  ELSE <<key, VarySignature(s.vary[key].headers, q.shown)>>

loadEntry(s, sk) ==
  IF sk \in DOMAIN s.entries \/ ~Disk \/ sk \notin DOMAIN s.files THEN s
  ELSE [s EXCEPT !.entries = (sk :> s.files[sk]) @@ @]

ForgetExpired(s, sk) ==
  LET y == IF Zone THEN LET z == deleteEntry(s, sk) IN [s EXCEPT !.entries = z.entries, !.vary = z.vary, !.loaded = z.loaded]
           ELSE [s EXCEPT !.entries = Without(@, {sk})]
  IN  removeEntry(y, {sk})

Hit(r, q, e) == reqs' = [reqs EXCEPT ![r] = [phase |-> "hit", q |-> q, entry |-> e]]
(* Without the intent to store (HEAD) the cache sees no more of the request. *)
Fetch(r, q) ==
  reqs' = [reqs EXCEPT ![r] = IF q.method = "HEAD" THEN Idle ELSE
             [phase |-> "fetch", q |-> [uri |-> q.uri, consumer |-> q.consumer, shown |-> q.shown]]]
Answered(r) == reqs' = [reqs EXCEPT ![r] = Idle]

(* An entry is served, or found too old and removed (EXPIRED), or too old     *)
(* for this request (STALE), or absent (MISS, or 504 for only-if-cached).     *)
(* Anything but a HEAD without a hit goes on with the intent to store.       *)
lookup(r, q) ==
  LET key == cacheKey(q)
      s1 == loadVaryIndex(State, key)
      sk == storageKey(s1, q, key)
  IN  \E s2 \in maybeCleanupDisk(loadEntry(s1, sk)) :
        LET read == loadEntry(s1, sk) IN
        IF sk \notin DOMAIN read.entries
        THEN Becomes(s2) /\ (IF onlyIfCachedMiss(q) THEN Answered(r) ELSE Fetch(r, q))
        ELSE LET e == read.entries[sk] IN
             IF Expired(e) THEN Becomes(ForgetExpired(s2, sk)) /\ Fetch(r, q)
             ELSE Becomes(s2) /\ IF requestCacheControlStale(q, e) THEN Fetch(r, q) ELSE Hit(r, q, e)

(* The key, its variants and its index go, in memory and on disk.            *)
purgeAll(s, key) ==
  LET sigs == IF key \in DOMAIN s.vary THEN Range(s.vary[key].sigs) ELSE {}
      sks == {<<key, sig>> : sig \in sigs \union {<<>>}}
      y == removeEntry([s EXCEPT !.entries = Without(@, sks), !.vary = Without(@, {key}), !.loaded = @ \ {key}], sks)
  IN  IF Disk THEN [y EXCEPT !.indexFiles = Without(@, {key})] ELSE y

Purge(r, q) == Becomes(purgeAll(loadVaryIndex(State, cacheKey(q)), cacheKey(q))) /\ Answered(r)

(* The same headers: one more signature, the oldest beyond the bound go with  *)
(* their entries.  Other headers: a new index, all old variants go.           *)
updateVaryIndex_KeepOld(s, key, headers, sig, until) ==
  [s EXCEPT !.loaded = @ \union {key},
            !.vary = (key :> [headers |-> headers, sigs |-> <<sig>>, until |-> until]) @@ @]
updateVaryIndex(s, key, headers, sig, until) ==
  IF key \in DOMAIN s.vary /\ s.vary[key].headers = headers
  THEN LET sigs == s.vary[key].sigs
           all == IF sig \in Range(sigs) THEN sigs ELSE Append(sigs, sig)
           over == Len(all) - MaxVariants
           kept == IF over > 0 THEN SubSeq(all, over + 1, Len(all)) ELSE all
           out == {<<key, x>> : x \in Range(all) \ Range(kept)}
       IN  removeEntry([s EXCEPT !.entries = Without(@, out), !.vary[key].sigs = kept, !.vary[key].until = until], out)
  ELSE LET out == IF key \in DOMAIN s.vary THEN {<<key, x>> : x \in Range(s.vary[key].sigs)} ELSE {}
       IN  removeEntry([s EXCEPT !.entries = Without(@, out), !.loaded = @ \union {key},
                                 !.vary = (key :> [headers |-> headers, sigs |-> <<sig>>, until |-> until]) @@ @], out)

(* By the storage key's own headers: the request the entry was stored for.   *)
Entry(q, a, ttl) ==
  [q |-> [q EXCEPT !.shown = Restrict(q.shown, a.vary)], at |-> clock, ttl |-> ttl, until |-> clock + ttl]

Persist(s, key, sk, e) ==
  IF ~Disk THEN {s}
  ELSE cleanupDisk([s EXCEPT !.files = writeDiskJSON(@, sk, e),
                             !.indexFiles = IF key \in DOMAIN s.vary THEN writeDiskJSON(@, key, s.vary[key]) ELSE @])

(* A variant is listed before it is stored; a response without Vary replaces  *)
(* all variants.  The zone then drops what is too much.                      *)
storeState(q, key, a, ttl) ==
  LET e == Entry(q, a, ttl)
      sk == <<key, VarySignature(a.vary, q.shown)>>
      s1 == loadVaryIndex(State, key)
      s2 == IF a.vary # {}
            THEN LET y == updateVaryIndex(s1, key, a.vary, sk[2], e.until) IN [y EXCEPT !.entries = Without(@, {<<key, <<>>>>})]
            ELSE IF key \in DOMAIN s1.vary THEN purgeAll(s1, key) ELSE s1
      s3 == [s2 EXCEPT !.entries = (sk :> e) @@ @]
      s4 == IF Zone THEN LET z == enforceCapacity([entries |-> s3.entries, vary |-> s3.vary, loaded |-> s3.loaded])
                         IN  [s3 EXCEPT !.entries = z.entries, !.vary = z.vary, !.loaded = z.loaded]
            ELSE s3
  IN  IF ~canStoreMemoryEntryWithVary(a.vary) THEN UNCHANGED stored
      ELSE \E s \in Persist(s4, key, sk, e) : Becomes(s)

(* Not stored: a status, a Cache-Control or a cookie that forbids it, Vary *, *)
(* and with cache_control a response that gives no time to live.             *)
Cacheable(a) == a.status /\ ~a.skip /\ (cacheSetCookieEnabled \/ ~a.cookie)
responseCacheControlTTL(a) == IF cacheControlEnabled THEN a.ttl ELSE cfg.ttl

RunFinalResponseStore(r) ==
  /\ cfg.plugin = "proxy" /\ reqs[r].phase = "fetch"
  /\ \E a \in Answers :
       IF Cacheable(a) /\ responseCacheControlTTL(a) > 0
       THEN storeState(reqs[r].q, cacheKey(reqs[r].q), a, responseCacheControlTTL(a))
       ELSE UNCHANGED stored
  /\ Answered(r) /\ UNCHANGED <<cfg, clock>>

(* Bypassed requests (cache_bypass, no-cache) neither look up nor store.     *)
RunRequestPhase(r) ==
  /\ cfg.plugin = "proxy" /\ reqs[r].phase = "idle"
  /\ \E q \in Queries : lookup(r, q) \/ Purge(r, q)
  /\ UNCHANGED <<cfg, clock>>

(* The background sweep of a disk zone.                                      *)
startDiskCleanup ==
  /\ Disk
  /\ \E s \in cleanupDisk(State) : Becomes(s)
  /\ UNCHANGED <<cfg, clock, reqs>>

(* A new instance on the same disk zone: what was in memory is gone, and so  *)
(* are the requests.                                                         *)
PostInit ==
  /\ Disk
  /\ entries' = <<>> /\ vary' = <<>> /\ loaded' = {} /\ cleaned' = 0
  /\ reqs' = [r \in Requests |-> Idle]
  /\ UNCHANGED <<cfg, clock, files, indexFiles>>

(***************************************************************************)
(* graphql-proxy-cache: its own index, entries in the zone                   *)
(***************************************************************************)
InStore == IF Disk THEN files ELSE entries
StorePut(s, sk, e) ==
  IF Disk THEN [s EXCEPT !.files = writeDiskJSON(@, sk, e)]
  ELSE [s EXCEPT !.entries = (sk :> e) @@ @]
StoreDelete(s, sks) ==
  IF Disk THEN [s EXCEPT !.files = Without(@, sks)] ELSE [s EXCEPT !.entries = Without(@, sks)]

graphqlStorageKey(q, key) ==
  IF key \notin DOMAIN vary THEN <<key, <<>>>> ELSE <<key, VarySignature(vary[key].headers, q.shown)>>

(* A mutation or an unreadable query goes on or ends without the cache.      *)
graphqlLookup(r, q) ==
  LET sk == graphqlStorageKey(q, cacheKey(q)) IN
  IF sk \in DOMAIN InStore /\ ~Expired(InStore[sk]) THEN Hit(r, q, InStore[sk]) /\ UNCHANGED stored
  ELSE /\ Fetch(r, q)
       /\ IF sk \in DOMAIN InStore /\ cfg.strategy # "local" THEN Becomes(StoreDelete(State, {sk})) ELSE UNCHANGED stored

graphqlRequestPhase(r) ==
  /\ cfg.plugin = "graphql" /\ reqs[r].phase = "idle"
  /\ \E q \in Queries : q.method = "GET" /\ graphqlLookup(r, q)
  /\ UNCHANGED <<cfg, clock>>

graphqlCacheable(a) == a.status /\ ~a.skip /\ (cacheSetCookieEnabled \/ ~a.cookie)
diskResponseTTL(a) == IF Disk /\ a.ttl > 0 THEN a.ttl ELSE cfg.ttl

(* The index is changed first; the keys it made stale and the new entry      *)
(* follow without the lock.                                                  *)
prepareStorageKey(r) ==
  /\ cfg.plugin = "graphql" /\ reqs[r].phase = "fetch"
  /\ \E a \in Answers :
       LET q == reqs[r].q
           key == cacheKey(q)
           old == IF key \in DOMAIN vary THEN vary[key] ELSE [headers |-> {}, sigs |-> <<>>, until |-> 0]
           stale == IF old.headers # a.vary THEN {<<key, x>> : x \in Range(old.sigs)} ELSE {}
           sig == VarySignature(a.vary, q.shown)
           sigs == IF old.headers # a.vary THEN <<sig>>
                   ELSE IF sig \in Range(old.sigs) THEN old.sigs ELSE Append(old.sigs, sig)
           local == IF cfg.strategy = "local" THEN stale \union (IF a.vary = {} THEN {} ELSE {<<key, <<>>>>}) ELSE {}
       IN  IF ~graphqlCacheable(a)
           THEN Answered(r) /\ UNCHANGED stored
           ELSE /\ vary' = IF a.vary = {} THEN Without(vary, {key})
                           ELSE (key :> [headers |-> a.vary, sigs |-> sigs, until |-> 0]) @@ vary
                /\ entries' = Without(entries, local)
                /\ reqs' = [reqs EXCEPT ![r] = [phase |-> "store", q |-> q, sk |-> <<key, sig>>,
                               stale |-> stale \union (IF a.vary = {} THEN {} ELSE {<<key, <<>>>>}),
                               entry |-> Entry(q, a, diskResponseTTL(a))]]
                /\ UNCHANGED <<loaded, files, indexFiles, cleaned>>
  /\ UNCHANGED <<cfg, clock>>

graphqlStore(r) ==
  /\ cfg.plugin = "graphql" /\ reqs[r].phase = "store"
  /\ LET s == IF cfg.strategy = "local" THEN State ELSE StoreDelete(State, reqs[r].stale)
         put == StorePut(s, reqs[r].sk, reqs[r].entry)
     IN  IF ~Zone THEN Becomes(put)
         ELSE IF ~canStoreMemoryEntryWithVary({}) THEN Becomes(s)
         ELSE Becomes([put EXCEPT !.entries =
                         enforceCapacity([entries |-> put.entries, vary |-> <<>>, loaded |-> {}]).entries])
  /\ Answered(r) /\ UNCHANGED <<cfg, clock>>

graphqlPurge(r) ==
  /\ cfg.plugin = "graphql" /\ reqs[r].phase = "idle"
  /\ \E q \in Queries :
       LET key == cacheKey(q)
           sigs == IF key \in DOMAIN vary THEN Range(vary[key].sigs) ELSE {}
       IN  Becomes([StoreDelete(State, {<<key, sig>> : sig \in sigs \union {<<>>}}) EXCEPT !.vary = Without(@, {key})])
  /\ Answered(r) /\ UNCHANGED <<cfg, clock>>

Tick ==
  /\ clock < MaxClock /\ clock' = clock + 1
  /\ UNCHANGED <<cfg, stored, reqs>>

(* A hit is written from the entry it found; it shares nothing any more.     *)
publishCacheHit(r) == reqs[r].phase = "hit" /\ Answered(r) /\ UNCHANGED <<cfg, clock, stored>>
Serving == \E r \in Requests : reqs[r].phase = "hit"

Step ==
  \/ Tick \/ startDiskCleanup \/ PostInit
  \/ \E r \in Requests :
       \/ RunRequestPhase(r) \/ RunFinalResponseStore(r)
       \/ graphqlRequestPhase(r) \/ prepareStorageKey(r) \/ graphqlStore(r) \/ graphqlPurge(r)

Next == (~Serving /\ Step) \/ \E r \in Requests : publishCacheHit(r)

Spec == Init /\ [][Next]_vars

----------------------------------------------------------------------------
TypeOK ==
  /\ cfg \in Settings /\ clock \in 1 .. MaxClock /\ cleaned \in 0 .. MaxClock
  /\ \A sk \in DOMAIN entries \union DOMAIN files : \E q \in Queries : sk[1] = cacheKey(q)
  /\ \A k \in DOMAIN vary : IsInjective(vary[k].sigs) /\ (cfg.plugin = "proxy" => Len(vary[k].sigs) <= MaxVariants)
  /\ \A r \in Requests : reqs[r].phase \in {"idle", "hit", "fetch", "store"}

(* A cached response is served only to a request for the same uri, of the    *)
(* same consumer under consumer_isolation, with the same values in every      *)
(* header the response named in Vary, within its time to live, and, with      *)
(* cache_control, not older than the request's max-age.                      *)
ServedRight ==
  \A r \in Requests :
    reqs[r].phase = "hit" =>
      LET q == reqs[r].q
          e == reqs[r].entry IN
      /\ e.q.uri = q.uri
      /\ cfg.isolation => e.q.consumer = q.consumer
      /\ \A h \in DOMAIN e.q.shown : q.shown[h] = e.q.shown[h]
      /\ clock <= e.until
      /\ cacheControlEnabled /\ "max-age" \in DOMAIN q.ask => clock - e.at <= q.ask["max-age"]

(* Every variant proxy-cache holds is listed by the index a PURGE of its key  *)
(* would use - in memory or, for a key not read yet, on disk: no variant can  *)
(* outlive the purge that reports it gone.                                   *)
VariantsListed ==
  cfg.plugin = "proxy" =>
    \A sk \in DOMAIN entries \union DOMAIN files :
      sk[2] # <<>> =>
        LET index == IF Disk /\ sk[1] \notin loaded THEN indexFiles ELSE vary IN
        sk[1] \in DOMAIN index /\ sk[2] \in Range(index[sk[1]].sigs)

(* A memory zone stays within its size, indexes included, and its indexes     *)
(* list nothing that is not stored.                                          *)
ZoneBounded ==
  Zone /\ cfg.plugin = "proxy" =>
    /\ cfg.capacity > 0 => usedBytes(entries, vary, loaded) <= cfg.capacity
    /\ \A k \in DOMAIN vary : \A sig \in Range(vary[k].sigs) : <<k, sig>> \in DOMAIN entries
=============================================================================
