----------------------------- MODULE SharedState -----------------------------
(***************************************************************************)
(* What plugin instances, and the requests that pass through them, share:  *)
(* clients of one configuration, the groups of the counting limiters, the  *)
(* map those keep their counters in, and the tokens of service accounts.   *)
(* Four state machines, each with its own variables.                       *)
(***************************************************************************)
EXTENDS Integers, FiniteSets

-----------------------------------------------------------------------------
(***************************************************************************)
(* The registry of clients that plugins with the same configuration share  *)
(* (pkg/shared/clients.go), for one key.                                   *)
(*                                                                         *)
(* The registry mutex guards only look-ups, insertions and deletions; an   *)
(* entry's own mutex guards its value, its count and its closed flag and   *)
(* is held while the client is created.  Plugin instances acquire and      *)
(* release concurrently whenever a route generation is built or retired.   *)
(***************************************************************************)

CONSTANTS
    Users,      \* plugin instances
    MaxEntries, \* bound on the entries ever inserted
    MaxUses     \* bound on the acquisitions of one instance

VARIABLES
    registered, \* the entry under the key, 0 when there is none
    inserted,    \* how many entries were ever inserted
    value,      \* per entry: "none", "open" or "closed"
    refs, closed, lock,
    stage, position,     \* per user: where it is and the entry it works on
    uses,
    failed      \* whether a create ever failed

clientsVars == <<registered, inserted, value, refs, closed, lock, stage, position, uses, failed>>

Entries == 1 .. MaxEntries

ClientsInit ==
    /\ registered = 0 /\ inserted = 0
    /\ value = [e \in Entries |-> "none"]
    /\ refs = [e \in Entries |-> 0]
    /\ closed = [e \in Entries |-> FALSE]
    /\ lock = [e \in Entries |-> FALSE]
    /\ stage = [u \in Users |-> "out"]
    /\ position = [u \in Users |-> 0]
    /\ uses = [u \in Users |-> 0]
    /\ failed = FALSE

Moves(u, here) == stage' = [stage EXCEPT ![u] = here]

\* AcquireClient: find the entry of the key or insert a new one.
Lookup(u) ==
    /\ stage[u] = "out" /\ uses[u] < MaxUses
    /\ registered # 0 \/ inserted < MaxEntries
    /\ inserted' = IF registered = 0 THEN inserted + 1 ELSE inserted
    /\ registered' = IF registered = 0 THEN inserted' ELSE registered
    /\ position' = [position EXCEPT ![u] = registered']
    /\ Moves(u, "found")
    /\ UNCHANGED <<value, refs, closed, lock, uses, failed>>

\* Under the entry's mutex: a closed entry is left alone, an empty one is
\* filled, any other one gains a reference.
Enter_NoClosedCheck(u) ==
    /\ stage[u] = "found" /\ ~lock[position[u]]
    /\ \/ /\ value[position[u]] = "none"
          /\ lock' = [lock EXCEPT ![position[u]] = TRUE]
          /\ Moves(u, "creating")
          /\ UNCHANGED <<refs, uses>>
       \/ /\ value[position[u]] # "none"
          /\ refs' = [refs EXCEPT ![position[u]] = @ + 1]
          /\ uses' = [uses EXCEPT ![u] = @ + 1]
          /\ Moves(u, "holding")
          /\ UNCHANGED lock
    /\ UNCHANGED <<registered, inserted, value, closed, position, failed>>

Enter(u) ==
    /\ stage[u] = "found" /\ ~lock[position[u]]
    /\ \/ /\ closed[position[u]]
          /\ Moves(u, "stale")
          /\ UNCHANGED <<refs, lock, uses>>
       \/ /\ ~closed[position[u]] /\ value[position[u]] = "none"
          /\ lock' = [lock EXCEPT ![position[u]] = TRUE]
          /\ Moves(u, "creating")
          /\ UNCHANGED <<refs, uses>>
       \/ /\ ~closed[position[u]] /\ value[position[u]] # "none"
          /\ refs' = [refs EXCEPT ![position[u]] = @ + 1]
          /\ uses' = [uses EXCEPT ![u] = @ + 1]
          /\ Moves(u, "holding")
          /\ UNCHANGED lock
    /\ UNCHANGED <<registered, inserted, value, closed, position, failed>>

\* Delete the entry from the registry if it is still the registered one.
Forget(u) == registered' = IF registered = position[u] THEN 0 ELSE registered

DropStale(u) ==
    /\ stage[u] = "stale"
    /\ Forget(u)
    /\ Moves(u, "out")
    /\ UNCHANGED <<inserted, value, refs, closed, lock, position, uses, failed>>

Create(u) ==
    /\ stage[u] = "creating"
    /\ value' = [value EXCEPT ![position[u]] = "open"]
    /\ refs' = [refs EXCEPT ![position[u]] = @ + 1]
    /\ lock' = [lock EXCEPT ![position[u]] = FALSE]
    /\ uses' = [uses EXCEPT ![u] = @ + 1]
    /\ Moves(u, "holding")
    /\ UNCHANGED <<registered, inserted, closed, position, failed>>

CreateFails(u) ==
    /\ stage[u] = "creating"
    /\ Forget(u)
    /\ lock' = [lock EXCEPT ![position[u]] = FALSE]
    /\ uses' = [uses EXCEPT ![u] = @ + 1]
    /\ failed' = TRUE
    /\ Moves(u, "out")
    /\ UNCHANGED <<inserted, value, refs, closed, position>>

\* release, once: the last one closes the entry before anyone can enter it.
Release_Late(u) ==
    /\ stage[u] = "holding" /\ ~lock[position[u]]
    /\ refs' = [refs EXCEPT ![position[u]] = @ - 1]
    /\ Moves(u, IF refs[position[u]] = 1 THEN "closing" ELSE "out")
    /\ UNCHANGED <<registered, inserted, value, closed, lock, position, uses, failed>>

ReleaseClient(u) ==
    /\ stage[u] = "holding" /\ ~lock[position[u]]
    /\ refs' = [refs EXCEPT ![position[u]] = @ - 1]
    /\ closed' = [closed EXCEPT ![position[u]] = refs[position[u]] = 1]
    /\ Moves(u, IF refs[position[u]] = 1 THEN "closing" ELSE "out")
    /\ UNCHANGED <<registered, inserted, value, lock, position, uses, failed>>

CloseClient(u) ==
    /\ stage[u] = "closing"
    /\ value' = [value EXCEPT ![position[u]] = "closed"]
    /\ Moves(u, "unregister")
    /\ UNCHANGED <<registered, inserted, refs, closed, lock, position, uses, failed>>

Unregister(u) ==
    /\ stage[u] = "unregister"
    /\ Forget(u)
    /\ Moves(u, "out")
    /\ UNCHANGED <<inserted, value, refs, closed, lock, position, uses, failed>>

ClientsNext ==
    \/ \E u \in Users : Lookup(u)
    \/ \E u \in Users : Enter(u)
    \/ \E u \in Users : DropStale(u)
    \/ \E u \in Users : Create(u)
    \/ \E u \in Users : CreateFails(u)
    \/ \E u \in Users : ReleaseClient(u)
    \/ \E u \in Users : CloseClient(u)
    \/ \E u \in Users : Unregister(u)

ClientsSpec == ClientsInit /\ [][ClientsNext]_clientsVars

-----------------------------------------------------------------------------
(* Properties. *)

\* A client in use is open and counted; instances that hold a client at the
\* same time hold the same one unless a create failed; and a client that
\* nobody uses or is about to close is not left open.
ClientsRight ==
    /\ \A u \in Users : stage[u] = "holding" => value[position[u]] = "open"
    /\ \A e \in Entries : refs[e] = Cardinality({u \in Users : stage[u] = "holding" /\ position[u] = e})
    /\ \A u, v \in Users : stage[u] = "holding" /\ stage[v] = "holding" => position[u] = position[v] \/ failed
    /\ \A e \in Entries : value[e] = "open" =>
          \E u \in Users : position[u] = e /\ stage[u] \in {"holding", "closing"}

-----------------------------------------------------------------------------
(***************************************************************************)
(* The groups of limit-count and graphql-limit-count: plugin instances of  *)
(* one group have one configuration and count together.                    *)
(*                                                                         *)
(* Each plugin has a process-wide table of groups, with a fingerprint of   *)
(* the configuration, a number of references and, for limit-count, the     *)
(* store of the counters; graphql-limit-count keeps the counters of all    *)
(* groups in one map by group name.  Instances register when they are      *)
(* built and release when they are stopped, in any order: while a new      *)
(* route generation is built the old one still serves.                     *)
(***************************************************************************)

CONSTANTS
    Instances,
    Plugins,    \* "limit-count" and "graphql-limit-count"
    Groups, Configs,
    NoGroup,
    MaxStores   \* bound on the stores ever made

VARIABLES
    table,      \* per plugin and group: the entry, with refs = 0 when absent
    inst,       \* per instance: its state and what it holds
    made        \* how many stores were made

groupsVars == <<table, inst, made>>

Absent == [fingerprint |-> NoGroup, store |-> 0, refs |-> 0]

Out == [at |-> "out", plugin |-> "limit-count", group |-> NoGroup, conf |-> NoGroup,
        registered |-> FALSE, store |-> 0]

GroupsInit ==
    /\ table = [p \in Plugins |-> [g \in Groups |-> Absent]]
    /\ inst = [i \in Instances |-> Out]
    /\ made = 0

Entry(i) == table[inst[i].plugin][inst[i].group]

SetEntry(i, entry) == table' = [table EXCEPT ![inst[i].plugin][inst[i].group] = entry]

\* A plugin instance gets its configuration.
Configure(i) ==
    /\ inst[i].at = "out"
    /\ \E p \in Plugins, g \in Groups \cup {NoGroup}, c \in Configs :
        inst' = [inst EXCEPT ![i] = [Out EXCEPT !.at = "new", !.plugin = p, !.group = g, !.conf = c]]
    /\ UNCHANGED <<table, made>>

\* registerGroup.  An instance outside any group has a store of its own.
registerGroup(i) ==
    /\ inst[i].at = "new" /\ inst[i].plugin = "limit-count"
    /\ made < MaxStores
    /\ \/ /\ inst[i].group = NoGroup
          /\ made' = made + 1
          /\ inst' = [inst EXCEPT ![i].at = "ready", ![i].store = made']
          /\ UNCHANGED table
       \/ /\ inst[i].group # NoGroup
          /\ IF Entry(i).refs = 0
             THEN /\ made' = made + 1
                  /\ SetEntry(i, [fingerprint |-> inst[i].conf, store |-> made', refs |-> 1])
                  /\ inst' = [inst EXCEPT ![i].at = "registered", ![i].registered = TRUE]
             ELSE IF Entry(i).fingerprint # inst[i].conf
             THEN inst' = [inst EXCEPT ![i] = Out] /\ UNCHANGED <<table, made>>
             ELSE /\ SetEntry(i, [Entry(i) EXCEPT !.refs = @ + 1])
                  /\ inst' = [inst EXCEPT ![i].at = "registered", ![i].registered = TRUE]
                  /\ UNCHANGED made

GraphqlRegisterGroup_AnyConf(i) ==
    /\ inst[i].at = "new" /\ inst[i].plugin = "graphql-limit-count"
    /\ IF inst[i].group = NoGroup
       THEN inst' = [inst EXCEPT ![i].at = "ready"] /\ UNCHANGED table
       ELSE /\ SetEntry(i, [fingerprint |-> inst[i].conf, store |-> 0, refs |-> Entry(i).refs + 1])
            /\ inst' = [inst EXCEPT ![i].at = "ready", ![i].registered = TRUE]
    /\ UNCHANGED made
\* graphql-limit-count's registerGroup.
GraphqlRegisterGroup(i) ==
    /\ inst[i].at = "new" /\ inst[i].plugin = "graphql-limit-count"
    /\ IF inst[i].group = NoGroup
       THEN inst' = [inst EXCEPT ![i].at = "ready"] /\ UNCHANGED table
       ELSE IF Entry(i).refs # 0 /\ Entry(i).fingerprint # inst[i].conf
       THEN inst' = [inst EXCEPT ![i] = Out] /\ UNCHANGED table
       ELSE /\ SetEntry(i, [fingerprint |-> inst[i].conf, store |-> 0, refs |-> Entry(i).refs + 1])
            /\ inst' = [inst EXCEPT ![i].at = "ready", ![i].registered = TRUE]
    /\ UNCHANGED made

\* releaseGroup, of the last member too: the entry and its store go with it.
ReleasedEntry_Keep(entry) == entry
ReleasedEntry(entry) == IF entry.refs <= 1 THEN Absent ELSE [entry EXCEPT !.refs = @ - 1]

ReleaseGroup(i, at) ==
    /\ IF inst[i].registered /\ inst[i].group # NoGroup
       THEN SetEntry(i, ReleasedEntry(Entry(i))) ELSE UNCHANGED table
    /\ inst' = [inst EXCEPT ![i].at = at, ![i].registered = FALSE]

\* The rest of PostInit: the group's store is looked up under the table's
\* lock again (localStore), or the limiter cannot be built and the group is
\* released.
Build(i) ==
    /\ inst[i].at = "registered"
    /\ \/ inst' = [inst EXCEPT ![i].at = "ready", ![i].store = Entry(i).store] /\ UNCHANGED table
       \/ ReleaseGroup(i, "stopped")
    /\ UNCHANGED made

\* Limits that depend on the request get a new limiter, and look the store
\* up again, for every request.
LookUp(i) ==
    /\ inst[i].at = "ready" /\ inst[i].plugin = "limit-count" /\ inst[i].group # NoGroup
    /\ inst' = [inst EXCEPT ![i].store = Entry(i).store]
    /\ UNCHANGED <<table, made>>

\* Stop, also of an instance that was stopped.
Stop_Twice(i) ==
    /\ inst[i].at \in {"ready", "stopped"}
    /\ IF inst[i].group # NoGroup
       THEN SetEntry(i, ReleasedEntry(Entry(i))) ELSE UNCHANGED table
    /\ inst' = [inst EXCEPT ![i].at = "stopped", ![i].registered = FALSE]
    /\ UNCHANGED made
Stop(i) ==
    /\ inst[i].at \in {"ready", "stopped"}
    /\ ReleaseGroup(i, "stopped")
    /\ UNCHANGED made

\* A stopped instance is dropped, and the next generation has a new one.
Replace(i) ==
    /\ inst[i].at = "stopped"
    /\ inst' = [inst EXCEPT ![i] = Out]
    /\ UNCHANGED <<table, made>>

GroupsNext == \E i \in Instances :
    \/ Configure(i) \/ registerGroup(i) \/ GraphqlRegisterGroup(i) \/ Build(i) \/ LookUp(i)
    \/ Stop(i) \/ Replace(i)

GroupsSpec == GroupsInit /\ [][GroupsNext]_groupsVars

---------------------------------------------------------------------------
Members(p, g) ==
    {i \in Instances : inst[i].registered /\ inst[i].plugin = p /\ inst[i].group = g}

GroupsTypeOK ==
    /\ \A p \in Plugins, g \in Groups : table[p][g].refs \in 0 .. Cardinality(Instances)
    /\ \A i \in Instances : inst[i].at \in {"out", "new", "registered", "ready", "stopped"}
    /\ made \in 0 .. MaxStores

\* The members of a group, those that are being built too, have the group's
\* configuration, the ones that serve count in one store, the one the table
\* has, and the references of the table are exactly the members: no sequence
\* of builds, failed builds and stops takes a group from under a member or
\* keeps one that nobody uses.
GroupsAgree ==
    \A p \in Plugins, g \in Groups :
        /\ table[p][g].refs = Cardinality(Members(p, g))
        /\ \A i \in Members(p, g) :
            /\ table[p][g].fingerprint = inst[i].conf
            /\ p = "limit-count" /\ inst[i].at = "ready" =>
                   inst[i].store = table[p][g].store /\ inst[i].store # 0

-----------------------------------------------------------------------------
(***************************************************************************)
(* The bounded map with expiring entries that the limiters keep their      *)
(* counters in (pkg/plugin/cacheutil/bounded_map.go).                      *)
(*                                                                         *)
(* A heap orders the entries by expiry.  Replacing, expiring or deleting   *)
(* an entry leaves its element in the heap, told from a current one by a   *)
(* sequence number, until it comes to the root or the heap is rebuilt.     *)
(* Every operation runs under the map's lock and is one step.  The values  *)
(* are left out: only Mutate's function and the callers look at them.      *)
(***************************************************************************)

CONSTANTS
    Keys,
    TTLs,       \* how long an entry may be kept
    Cap,
    Slack,      \* stale elements the heap holds over twice the entries: 64
    MaxSeq, MaxClock

VARIABLES entries, order, seq, clock

mapVars == <<entries, order, seq, clock>>

MapConfig == Cap \in Nat \ {0} /\ Slack \in Nat /\ TTLs \subseteq Nat \ {0}

Elements == [key : Keys, expiresAt : Nat, seq : Nat]

\* ttlHeap.Less
Less(a, b) == a.expiresAt < b.expiresAt \/ (a.expiresAt = b.expiresAt /\ a.seq < b.seq)

UpTo(heap, e) == {o \in heap : Less(o, e) \/ o = e}

\* The elements are current ones: an entry has the sequence number.
Current_ByKey(now, heap) == {e \in heap : \E o \in now : o.key = e.key}
Current(now, heap) == {e \in heap : e \in now}

Root(heap) == CHOOSE e \in heap : \A o \in heap : e = o \/ Less(e, o)

Unended(e) == clock < e.expiresAt

\* evictExpiredLocked takes elements off the heap until the root is that of
\* an entry that has not expired.
evictExpired(now, heap) ==
    LET staying == {e \in Current(now, heap) : Unended(e)}
    IN  [entries |-> {e \in now : \E o \in staying : o.key = e.key},
         order |-> IF staying = {} THEN {} ELSE {e \in heap : ~Less(e, Root(staying))}]

\* While the map is over its capacity the first current element goes, and
\* with it the stale ones before it.
evictOver(s) ==
    IF Cardinality(s.entries) <= Cap THEN s
    ELSE LET first == Root(Current(s.entries, s.order))
         IN  [entries |-> {e \in s.entries : e.key # first.key}, order |-> s.order \ UpTo(s.order, first)]

compactOrder_Never(s) == s
compactOrder(s) ==
    IF Cardinality(s.order) <= 2 * Cardinality(s.entries) + Slack THEN s
    ELSE [s EXCEPT !.order = s.entries]

Becomes(s) == entries' = s.entries /\ order' = s.order

MapInit == entries = {} /\ order = {} /\ seq = 0 /\ clock = 0

\* Set, and Mutate when its function stores a value.
Set(k, ttl) ==
    /\ seq < MaxSeq
    /\ seq' = seq + 1
    /\ LET entry == [key |-> k, expiresAt |-> clock + ttl, seq |-> seq']
           now == {e \in entries : e.key # k} \cup {entry}
       IN  Becomes(compactOrder(evictOver(evictExpired(now, order \cup {entry}))))
    /\ UNCHANGED clock

\* Get, and Mutate when its function stores nothing: an expired entry goes.
Get(k) ==
    /\ Becomes([entries |-> {e \in entries : e.key = k => Unended(e)}, order |-> order])
    /\ UNCHANGED <<seq, clock>>

Delete(k) ==
    /\ Becomes(compactOrder([entries |-> {e \in entries : e.key # k}, order |-> order]))
    /\ UNCHANGED <<seq, clock>>

PurgeExpired ==
    /\ Becomes(evictExpired(entries, order))
    /\ UNCHANGED <<seq, clock>>

Tick == clock < MaxClock /\ clock' = clock + 1 /\ UNCHANGED <<entries, order, seq>>

MapNext ==
    \/ \E k \in Keys : Get(k) \/ Delete(k) \/ \E ttl \in TTLs : Set(k, ttl)
    \/ PurgeExpired
    \/ Tick

MapSpec == MapInit /\ [][MapNext]_mapVars

---------------------------------------------------------------------------
MapTypeOK ==
    /\ entries \subseteq Elements /\ order \subseteq Elements
    /\ seq \in 0 .. MaxSeq /\ clock \in 0 .. MaxClock

\* An eviction always finds its entry: every entry has its element in the
\* heap, so the loop of Set never pops an empty heap.  There is one entry of
\* a key, never more than the capacity, and the heap does not outgrow it.
Tracked ==
    /\ entries \subseteq order
    /\ \A a, b \in entries : a.key = b.key => a = b
    /\ Cardinality(entries) <= Cap
    /\ Cardinality(order) <= 2 * Cap + Slack

\* A step that stores an entry throws out a fresh entry of another key only
\* over the capacity, one entry, and no entry that stays expires earlier;
\* expired entries are gone after it.
EvictsEarliest ==
    seq' # seq =>
        LET gone == {e \in entries : Unended(e) /\ ~\E o \in entries' : o.key = e.key}
        IN  /\ gone # {} => Cardinality(entries') = Cap /\ Cardinality(gone) = 1
            /\ \A e \in gone, o \in entries' : e.expiresAt <= o.expiresAt
            /\ \A o \in entries' : Unended(o)

MapRight == Tracked' /\ EvictsEarliest

-----------------------------------------------------------------------------
(***************************************************************************)
(* The GCP token source of the AI plugins: one access token per service    *)
(* account, kept until shortly before it ends.  The caller that finds none *)
(* exchanges a new one outside the lock; callers that come meanwhile wait  *)
(* for that refresh or for the end of their own request.                   *)
(***************************************************************************)

CONSTANTS Callers, Accounts,
          MaxTTL,        \* the longest time a caller's configuration keeps a token
          Early,         \* expire_early_secs
          Life,          \* what the authority gives a token; 0: it names no expiry
          DefaultLife, MaxTokenClock

VARIABLES tokenClock, cache, inflight, refresh, caller, last

gcpVars == <<tokenClock, cache, inflight, refresh, caller, last>>

\* Refresh objects; a refresh is live while a caller holds a pointer to it.
Refreshes == 1..Cardinality(Callers)

NoToken == [account |-> "none", issued |-> 0, ends |-> 0]
Idle == [pc |-> "idle", account |-> "none", now |-> 0, of |-> 0]
NoAnswer == [account |-> "none", how |-> "none", token |-> NoToken, at |-> 0, since |-> 0]

TokensConfig ==
    /\ Early \in Nat /\ Life \in Nat /\ DefaultLife \in Nat \ {0} /\ MaxTokenClock \in Nat
    /\ MaxTTL \in [Callers -> Nat \ {0}]

TokensTypeOK ==
    /\ tokenClock \in 0..MaxClock
    /\ DOMAIN cache = Accounts
    /\ inflight \in [Accounts -> {0} \union Refreshes]
    /\ DOMAIN refresh = Refreshes
    /\ \A c \in Callers : /\ caller[c].pc \in {"idle", "exchanging", "closing", "waiting"}
                          /\ caller[c].of \in {0} \union Refreshes
    /\ last.how \in {"none", "cache", "refresh", "failed", "cancelled"}

TokensInit ==
    /\ tokenClock = 0
    /\ cache = [a \in Accounts |-> [token |-> NoToken, expires |-> 0]]
    /\ inflight = [a \in Accounts |-> 0]
    /\ refresh = [r \in Refreshes |-> [done |-> FALSE, token |-> NoToken]]
    /\ caller = [c \in Callers |-> Idle]
    /\ last = NoAnswer

----------------------------------------------------------------------------

Smaller(a, b) == IF a < b THEN a ELSE b

shortenedGCPTokenExpiry_Extended(c, ends, now) == ends + Early

shortenedGCPTokenExpiry(c, ends, now) ==
    Smaller(IF ends - now > Early THEN ends - Early ELSE ends, now + MaxTTL[c])

Cached(a) == tokenClock < cache[a].expires

Returns(c, account, how, token, since) ==
    /\ caller' = [caller EXCEPT ![c] = Idle]
    /\ last' = [account |-> account, how |-> how, token |-> token, at |-> tokenClock,
                since |-> since]

Holds(c, pc, account, of) ==
    /\ caller' = [caller EXCEPT ![c] = [pc |-> pc, account |-> account, now |-> tokenClock,
                                        of |-> of]]
    /\ last' = NoAnswer

NewRefresh == CHOOSE r \in Refreshes : \A c \in Callers : caller[c].of # r

\* Token, up to the first release of the lock.
Token_NotJoining(c, a) ==
    /\ caller[c] = Idle
    /\ IF Cached(a)
         THEN Returns(c, a, "cache", cache[a].token, tokenClock) /\ UNCHANGED <<inflight, refresh>>
         ELSE /\ Holds(c, "exchanging", a, NewRefresh)
              /\ inflight' = [inflight EXCEPT ![a] = NewRefresh]
              /\ refresh' = [refresh EXCEPT ![NewRefresh] = [done |-> FALSE, token |-> NoToken]]
    /\ UNCHANGED <<tokenClock, cache>>

Token(c, a) ==
    /\ caller[c] = Idle
    /\ CASE Cached(a) ->
              Returns(c, a, "cache", cache[a].token, tokenClock) /\ UNCHANGED <<inflight, refresh>>
         [] ~Cached(a) /\ inflight[a] # 0 ->
              Holds(c, "waiting", a, inflight[a]) /\ UNCHANGED <<inflight, refresh>>
         [] OTHER ->
              /\ Holds(c, "exchanging", a, NewRefresh)
              /\ inflight' = [inflight EXCEPT ![a] = NewRefresh]
              /\ refresh' = [refresh EXCEPT ![NewRefresh] = [done |-> FALSE, token |-> NoToken]]
    /\ UNCHANGED <<tokenClock, cache>>

\* exchangeToken: the authority issues a token, or the exchange fails (the
\* owner's request was cancelled, or the answer holds no token).
exchangeToken(c) ==
    {NoToken,
     [account |-> caller[c].account, issued |-> tokenClock,
      ends |-> IF Life = 0 THEN caller[c].now + DefaultLife ELSE tokenClock + Life]}

\* The second critical section.  After a failure a cached token that is still
\* valid is the refresh's value.
Exchanged_LeavesInflight(c, token) ==
    LET a == caller[c].account IN
    /\ cache' = IF token = NoToken THEN cache
                ELSE [cache EXCEPT ![a] =
                        [token |-> token,
                         expires |-> shortenedGCPTokenExpiry(c, token.ends, caller[c].now)]]
    /\ refresh' = [refresh EXCEPT ![caller[c].of].token = token]
    /\ inflight' = IF token = NoToken THEN inflight ELSE [inflight EXCEPT ![a] = 0]

Exchanged(c, token) ==
    LET a == caller[c].account IN
    /\ cache' = IF token = NoToken THEN cache
                ELSE [cache EXCEPT ![a] =
                        [token |-> token,
                         expires |-> shortenedGCPTokenExpiry(c, token.ends, caller[c].now)]]
    /\ refresh' = [refresh EXCEPT ![caller[c].of].token =
                     IF token = NoToken /\ Cached(a) THEN cache[a].token ELSE token]
    /\ inflight' = [inflight EXCEPT ![a] = 0]

Exchange(c) ==
    /\ caller[c].pc = "exchanging"
    /\ \E token \in exchangeToken(c) : Exchanged(c, token)
    /\ caller' = [caller EXCEPT ![c].pc = "closing"]
    /\ last' = NoAnswer
    /\ UNCHANGED tokenClock

\* What Token returns of a finished refresh.
Result(c) ==
    LET r == refresh[caller[c].of] IN
    Returns(c, caller[c].account, IF r.token = NoToken THEN "failed" ELSE "refresh",
            r.token, caller[c].now)

\* close(refresh.done), after the lock is given up; the owner returns.
CloseDone(c) ==
    /\ caller[c].pc = "closing"
    /\ refresh' = [refresh EXCEPT ![caller[c].of].done = TRUE]
    /\ Result(c)
    /\ UNCHANGED <<tokenClock, cache, inflight>>

\* The two cases of a waiter's select.
Waited(c) ==
    /\ caller[c].pc = "waiting"
    /\ \/ refresh[caller[c].of].done /\ Result(c)
       \/ Returns(c, caller[c].account, "cancelled", NoToken, caller[c].now)
    /\ UNCHANGED <<tokenClock, cache, inflight, refresh>>

TokensTick ==
    /\ tokenClock < MaxTokenClock
    /\ tokenClock' = tokenClock + 1
    /\ last' = NoAnswer
    /\ UNCHANGED <<cache, inflight, refresh, caller>>

TokensNext ==
    \/ \E c \in Callers : \/ \E a \in Accounts : Token(c, a)
                          \/ Exchange(c)
                          \/ CloseDone(c)
                          \/ Waited(c)
    \/ TokensTick

TokensSpec == TokensInit /\ [][TokensNext]_gcpVars

----------------------------------------------------------------------------

\* A caller is given a token of its own service account that had not ended when
\* it was read from the cache, or one that was issued after its call began:
\* neither another account's token nor one the authority no longer accepts.
TokensRight ==
    /\ last.how \in {"cache", "refresh"} => last.token.account = last.account
    /\ last.how = "cache" => last.at < last.token.ends
    /\ last.how = "refresh" => last.token.issued >= last.since

\* At most one exchange per account is under way, it is the registered one, and
\* whoever waits for a refresh waits for one that is finished or whose owner is
\* still at work on the waiter's account: no caller waits for a refresh that
\* nobody will complete.
RefreshShared ==
    /\ \A c \in Callers : caller[c].pc = "exchanging" =>
         /\ inflight[caller[c].account] = caller[c].of
         /\ \A d \in Callers \ {c} : caller[d].pc = "exchanging" =>
              caller[d].account # caller[c].account
    /\ \A a \in Accounts : inflight[a] # 0 =>
         \E c \in Callers : caller[c].pc = "exchanging" /\ caller[c].of = inflight[a]
    /\ \A c \in Callers : caller[c].pc = "waiting" =>
         \/ refresh[caller[c].of].done
         \/ \E d \in Callers \ {c} : /\ caller[d].pc \in {"exchanging", "closing"}
                                     /\ caller[d].of = caller[c].of
                                     /\ caller[d].account = caller[c].account

=============================================================================
