---------------------------- MODULE CountLimits ----------------------------
(***************************************************************************)
(* The plugins that limit the number of requests of a key in a window:     *)
(* limit-count (pkg/plugin/limit_count), with fixed or sliding windows,    *)
(* and graphql-limit-count, whose requests cost the depth of their query.  *)
(* The counters are in memory, bounded in number, or in a Redis that may   *)
(* fail.  DelayedSync has the counters that reach Redis with a delay, and  *)
(* SharedState the sharing of a store by a group.                          *)
(*                                                                         *)
(* A handler goes through its rules one by one, and requests interleave    *)
(* between rules.  A sliding limiter reads the clock before it takes the   *)
(* lock of its store, and reads the previous window's counter from Redis   *)
(* before the script that checks and increments the current one.           *)
(***************************************************************************)
EXTENDS Integers, Sequences, FiniteSets, TLC

CONSTANTS
    Requests,
    Settings,   \* configurations, of limit-count or graphql-limit-count
    Asks,       \* what a request resolves: keys, known limits, query depth
    NoKey,      \* the key of a rule whose variables are all empty
    Capacity,   \* counters an in-memory store holds
    MaxClock,   \* bound on the clock
    MaxValue,   \* bound on what rejected requests add to a counter
    MaxLag      \* how long a handler is delayed after it has read the clock

VARIABLES cfg, clock, counters, reqs,
    taken       \* what requests were admitted for in each sliding window

vars == <<cfg, clock, counters, reqs, taken>>

---------------------------------------------------------------------------
(* Configuration.                                                          *)

\* limit-count: a limit or a list of rules, a policy and a kind of window.
LimitCountSettings ==
    [plugin : {"limit-count"}, rules : Seq([key : STRING, count : Nat, window : Nat]),
     ruled : BOOLEAN, cost : Nat, window_type : {"fixed", "sliding"},
     policy : {"local", "redis", "redis-cluster", "redis-sentinel"},
     sync_interval : Nat, dynamic : BOOLEAN, allow_degradation : BOOLEAN]

\* graphql-limit-count has fixed windows only and its cost is the query's.
GraphqlSettings ==
    [plugin : {"graphql"}, rules : Seq([key : STRING, count : Nat, window : Nat]),
     ruled : BOOLEAN, cost : {0}, window_type : {"fixed"},
     policy : {"local", "redis", "redis-cluster"},
     sync_interval : {0}, dynamic : BOOLEAN, allow_degradation : BOOLEAN]

\* validateLimitInt, of every count and window that is known when the plugin
\* is built.
validateLimitInt(value) == value > 0

\* No two rules have the same key and every rule has one.
validateRules(rules) ==
    /\ \A i \in DOMAIN rules :
           rules[i].key # "" /\ validateLimitInt(rules[i].count) /\ validateLimitInt(rules[i].window)
    /\ \A i, j \in DOMAIN rules : rules[i].key = rules[j].key => i = j

\* A delayed synchronization, in tenths of a second, is at least 0.1 s and
\* shorter than the window.  With dynamic limits it is never used.
delayedSyncEnabled(s) == ~s.dynamic /\ s.policy # "local" /\ s.sync_interval > 0
delayedSyncEnabledFor(s, window) == delayedSyncEnabled(s) /\ s.sync_interval < 10 * window

PostInit(s) ==
    /\ s.ruled => validateRules(s.rules)
    /\ ~s.ruled => /\ Len(s.rules) = 1
                   /\ validateLimitInt(s.rules[1].count) /\ validateLimitInt(s.rules[1].window)
                   /\ delayedSyncEnabled(s) => s.sync_interval < 10 * s.rules[1].window

GraphqlPostInit(s) ==
    IF s.ruled THEN validateRules(s.rules)
    ELSE /\ Len(s.rules) = 1
         /\ validateLimitInt(s.rules[1].count) /\ validateLimitInt(s.rules[1].window)

Accepted(s) == IF s.plugin = "graphql" THEN GraphqlPostInit(s) ELSE PostInit(s)

CountConfig ==
    /\ \A s \in Settings : Accepted(s) /\ \A i \in DOMAIN s.rules :
           ~delayedSyncEnabledFor(s, s.rules[i].window)
    /\ Capacity \in Nat \ {0} /\ MaxClock \in Nat /\ MaxLag \in Nat

---------------------------------------------------------------------------
(* The stores.  A counter is missing when its time is over.  "ok" is what   *)
(* each rule has admitted since the counter was started.                    *)

Zero == [value |-> 0, until |-> 0, ok |-> [i \in DOMAIN cfg.rules |-> 0]]

Live(c) == clock < c.until

Counter(id) == IF id \in DOMAIN counters /\ Live(counters[id]) THEN counters[id] ELSE Zero

Unexpired == {id \in DOMAIN counters : Live(counters[id])}

Only(store, ids) == [id \in ids |-> store[id]]

Earliest_Latest(store) ==
    {id \in DOMAIN store : \A other \in DOMAIN store : store[id].until >= store[other].until}
Earliest(store) ==
    {id \in DOMAIN store : \A other \in DOMAIN store : store[id].until <= store[other].until}

InMemory == cfg.policy = "local"

\* BoundedTTLMap's Set and Mutate: the entry is put in, the expired ones go,
\* then one that expires first while the map is over its capacity.  Entries
\* of one expiry go oldest first, which is left open here.
Kept(id, entry) ==
    LET store == (id :> entry) @@ Only(counters, Unexpired)
    IN  IF Cardinality(DOMAIN store) > Capacity
        THEN {Only(store, DOMAIN store \ {gone}) : gone \in Earliest(store)}
        ELSE {store}

\* A Redis key expires by itself and is not evicted.
RedisKept(id, entry) == {(id :> entry) @@ Only(counters, Unexpired)}

Stored(id, entry) == IF InMemory THEN Kept(id, entry) ELSE RedisKept(id, entry)

---------------------------------------------------------------------------
(* The steps of a handler.                                                 *)

Idle == [at |-> "idle", ask |-> [keys |-> <<>>, known |-> <<>>, depth |-> 0], i |-> 1,
         now |-> 0, last |-> 0, applied |-> FALSE, counted |-> {}]

\* The request is answered; only a forwarded one is looked at again.
Done(r, verdict) ==
    reqs' = [reqs EXCEPT ![r] = IF verdict = "forwarded" THEN [@ EXCEPT !.at = verdict] ELSE Idle]

\* A rule let the request through: on to the next one.
Passed(r) ==
    reqs' = [reqs EXCEPT ![r].at = "rule", ![r].i = @ + 1, ![r].applied = TRUE, ![r].now = 0, ![r].last = 0,
                         ![r].counted = @ \cup {reqs[r].i}]

\* A rule was not applied, or its store failed and degradation is allowed.
Skipped(r, applied) ==
    reqs' = [reqs EXCEPT ![r].at = "rule", ![r].i = @ + 1, ![r].applied = @ \/ applied]

Rule(r) == cfg.rules[reqs[r].i]
Key(r) == reqs[r].ask.keys[reqs[r].i]

\* An error of the limiter.
LimiterFails(r) ==
    IF cfg.allow_degradation THEN Skipped(r, TRUE) ELSE Done(r, "failed")

\* A rule that did not let the request through.
Rejected(r) == Done(r, "limited")

---------------------------------------------------------------------------
(* Fixed windows.  Every request adds its cost, also the ones rejected.    *)

\* The local store's increment.  The limiter library's script does the same
\* to Redis.
increment(c, delta, window) ==
    [c EXCEPT !.value = @ + delta, !.until = IF c = Zero THEN clock + window ELSE @]

\* contextFromState: the limit is reached once the count is above it.
contextFromState_Late(limit, count) == count <= limit + 1
contextFromState(limit, count) == count <= limit

\* A counter belongs to a key, whatever the rule.
FixedId(r) == <<Key(r), 0, 0, 0>>

\* runLimit.  A request that costs nothing only looks at the counter.
runLimit(r) ==
    LET c == increment(Counter(FixedId(r)), cfg.cost, Rule(r).window)
        passes == contextFromState(Rule(r).count, c.value)
        entry == IF passes THEN [c EXCEPT !.ok[reqs[r].i] = @ + cfg.cost] ELSE c
    IN  /\ IF cfg.cost = 0 THEN UNCHANGED counters
           ELSE counters' \in Stored(FixedId(r), entry)
        /\ IF passes THEN Passed(r) ELSE Rejected(r)

---------------------------------------------------------------------------
(* Sliding windows.  The previous window counts by the part of it that a   *)
(* window ending now still covers.                                         *)

\* counterKeys and remainingWindow.
WindowId(now, window) == now \div window
remainingWindow(now, window) == window - (now % window)

SlidingId(r, w) == <<Key(r), w, 0, 0>>

Least(a, b) == IF a <= b THEN a ELSE b

\* The comparison of the estimate with the limit, multiplied by the window.
Fits(last, current, cost, limit, window, now) ==
    Least(last, limit) * remainingWindow(now, window) + (current + cost) * window <= limit * window

\* A counter lives for two windows from its first request, so that it is
\* there all through the window that follows its own.
SlidingExpiry_OneWindow(window) == window
SlidingExpiry(window) == 2 * window

\* setLocked: an eviction makes room for a counter that is not there yet.
setLocked(id, value, until) ==
    LET store == Only(counters, Unexpired)
    IN  IF id \in DOMAIN store THEN {[store EXCEPT ![id].value = value]}
        ELSE LET room == IF Cardinality(DOMAIN store) >= Capacity
                         THEN {Only(store, DOMAIN store \ {gone}) : gone \in Earliest(store)}
                         ELSE {store}
             IN  {(id :> [value |-> value, until |-> until, ok |-> Zero.ok]) @@ rest : rest \in room}

SlidingCost(r) == cfg.cost

Took(r, w) ==
    taken' = (<<Key(r), w>> :> ((IF <<Key(r), w>> \in DOMAIN taken THEN taken[<<Key(r), w>>] ELSE 0)
                                + SlidingCost(r))) @@ taken

\* memorySlidingWindowStore.checkAndIncrement, with the time the handler read.
\* The store drops what has expired by that time.
memoryCheckAndIncrement(r) ==
    LET window == Rule(r).window
        w == WindowId(reqs[r].now, window)
        current == Counter(SlidingId(r, w)).value
        last == Counter(SlidingId(r, w - 1)).value
    IN  IF Fits(last, current, SlidingCost(r), Rule(r).count, window, reqs[r].now)
        THEN /\ counters' \in setLocked(SlidingId(r, w), current + SlidingCost(r),
                                        reqs[r].now + SlidingExpiry(window))
             /\ Took(r, w) /\ Passed(r)
        ELSE UNCHANGED <<counters, taken>> /\ Rejected(r)

\* redisSlidingWindowStore.checkAndIncrement: a GET of the previous window ...
redisGetLast(r) ==
    /\ reqs' = [reqs EXCEPT ![r].at = "fetched",
           ![r].last = Counter(SlidingId(r, WindowId(reqs[r].now, Rule(r).window) - 1)).value]
    /\ UNCHANGED <<counters, taken>>

\* ... then the script, which checks and increments at once.
redisSlidingScript_CheckOnly(r) ==
    LET window == Rule(r).window
        w == WindowId(reqs[r].now, window)
        c == Counter(SlidingId(r, w))
    IN  IF Fits(reqs[r].last, c.value, 0, Rule(r).count, window, reqs[r].now)
        THEN /\ counters' \in RedisKept(SlidingId(r, w),
                    [c EXCEPT !.value = @ + SlidingCost(r),
                              !.until = IF c = Zero THEN clock + SlidingExpiry(window) ELSE @])
             /\ Took(r, w) /\ Passed(r)
        ELSE UNCHANGED <<counters, taken>> /\ Rejected(r)
redisSlidingScript(r) ==
    LET window == Rule(r).window
        w == WindowId(reqs[r].now, window)
        c == Counter(SlidingId(r, w))
    IN  IF Fits(reqs[r].last, c.value, SlidingCost(r), Rule(r).count, window, reqs[r].now)
        THEN /\ counters' \in RedisKept(SlidingId(r, w),
                    [c EXCEPT !.value = @ + SlidingCost(r),
                              !.until = IF c = Zero THEN clock + SlidingExpiry(window) ELSE @])
             /\ Took(r, w) /\ Passed(r)
        ELSE UNCHANGED <<counters, taken>> /\ Rejected(r)

---------------------------------------------------------------------------
(* graphql-limit-count.                                                    *)

\* queryDepth: the deepest operation of the document, at least one.
queryDepth(r) == reqs[r].ask.depth

\* incomingLocal: a counter belongs to a rule with its limits and a key, and
\* a request that is rejected adds nothing.
GraphqlId(r) == <<Key(r), reqs[r].i, Rule(r).count, Rule(r).window>>

incomingLocal(r) ==
    LET here == Counter(GraphqlId(r))
        c == [here EXCEPT !.until = IF here = Zero THEN clock + Rule(r).window ELSE @]
        cost == queryDepth(r)
        passes == c.value + cost <= Rule(r).count
        entry == IF passes THEN [c EXCEPT !.value = @ + cost, !.ok[reqs[r].i] = @ + cost] ELSE c
    IN  /\ counters' \in IF here = Zero THEN Kept(GraphqlId(r), entry)
                         ELSE {[counters EXCEPT ![GraphqlId(r)] = entry]}
        /\ IF passes THEN Passed(r) ELSE Rejected(r)

\* redisLimitCountScript: a key of the rule alone, increased in any case.
redisLimitCountScript(r) ==
    LET id == <<Key(r), reqs[r].i, 0, 0>>
        c == increment(Counter(id), queryDepth(r), Rule(r).window)
        passes == c.value <= Rule(r).count
        entry == IF passes THEN [c EXCEPT !.ok[reqs[r].i] = @ + queryDepth(r)] ELSE c
    IN  /\ counters' \in RedisKept(id, entry)
        /\ IF passes THEN Passed(r) ELSE Rejected(r)

\* incoming, with the counters of the instance, of its group or of Redis.
incoming(r) == IF InMemory THEN incomingLocal(r) ELSE redisLimitCountScript(r)

\* graphqlQuery and queryDepth: a request without a query that parses is
\* refused before any rule.
GraphqlRefuses(ask) == ask.depth = 0

---------------------------------------------------------------------------
(* Actions.                                                                *)

Init ==
    /\ cfg \in Settings
    /\ clock = 0
    /\ counters = <<>>
    /\ taken = <<>>
    /\ reqs = [r \in Requests |-> Idle]

Resting(r) == reqs[r].at \in {"idle", "forwarded"}

\* A request comes; its answer was sent.
Arrive(r) ==
    /\ Resting(r)
    /\ \E ask \in Asks :
        /\ Len(ask.keys) = Len(cfg.rules)
        /\ cfg.ruled \/ NoKey \notin {ask.keys[i] : i \in DOMAIN ask.keys}
        /\ cfg.dynamic \/ \A i \in DOMAIN ask.known : ask.known[i]
        /\ reqs' = [reqs EXCEPT ![r] = IF cfg.plugin = "graphql" /\ GraphqlRefuses(ask) THEN Idle
                                        ELSE [Idle EXCEPT !.ask = ask, !.at = "rule"]]
    /\ UNCHANGED <<cfg, clock, counters, taken>>

\* A rule without a value for its key does not apply (resolveRuleKey).
SkipsRule(r) ==
    /\ reqs[r].at = "rule" /\ reqs[r].i <= Len(cfg.rules)
    /\ Key(r) = NoKey
    /\ Skipped(r, FALSE)
    /\ UNCHANGED <<cfg, clock, counters, taken>>

\* A count or a window that does not resolve to a positive number.
resolveRuleLimit_Continues(r) == Skipped(r, FALSE)
resolveRuleLimit(r) ==
    IF cfg.allow_degradation \/ (cfg.plugin = "graphql" /\ cfg.ruled)
    THEN Skipped(r, FALSE) ELSE Done(r, "failed")

Unresolved(r) ==
    /\ reqs[r].at = "rule" /\ reqs[r].i <= Len(cfg.rules)
    /\ Key(r) # NoKey /\ ~reqs[r].ask.known[reqs[r].i]
    /\ resolveRuleLimit(r)
    /\ UNCHANGED <<cfg, clock, counters, taken>>

Ready(r) ==
    /\ reqs[r].at = "rule" /\ reqs[r].i <= Len(cfg.rules)
    /\ Key(r) # NoKey /\ reqs[r].ask.known[reqs[r].i]

Bounded == \A id \in DOMAIN counters : counters[id].value <= MaxValue

\* limit-count's rule, or its only limit, with a fixed window.
Fixed(r) ==
    /\ Ready(r) /\ cfg.plugin = "limit-count" /\ cfg.window_type = "fixed" /\ Bounded
    /\ \/ runLimit(r)
       \/ ~InMemory /\ LimiterFails(r) /\ UNCHANGED counters
    /\ UNCHANGED <<cfg, clock, taken>>

\* applyLimit, of graphql-limit-count.
applyLimit(r) ==
    /\ Ready(r) /\ cfg.plugin = "graphql" /\ Bounded
    /\ \/ incoming(r)
       \/ ~InMemory /\ LimiterFails(r) /\ UNCHANGED counters
    /\ UNCHANGED <<cfg, clock, taken>>

\* runSlidingLimit is given the time.
ReadClock(r) ==
    /\ Ready(r) /\ cfg.window_type = "sliding"
    /\ reqs' = [reqs EXCEPT ![r].at = "clocked", ![r].now = clock]
    /\ UNCHANGED <<cfg, clock, counters, taken>>

Slides(r) ==
    /\ \/ reqs[r].at = "clocked" /\ IF InMemory THEN memoryCheckAndIncrement(r) ELSE redisGetLast(r)
       \/ reqs[r].at = "fetched" /\ redisSlidingScript(r)
       \/ /\ reqs[r].at \in {"clocked", "fetched"} /\ ~InMemory
          /\ LimiterFails(r) /\ UNCHANGED <<counters, taken>>
    /\ UNCHANGED <<cfg, clock>>

\* After the last rule.  Rules of which none applied are an error.
Ends(r) ==
    /\ reqs[r].at = "rule" /\ reqs[r].i > Len(cfg.rules)
    /\ Done(r, IF cfg.ruled /\ ~reqs[r].applied /\ ~cfg.allow_degradation
               THEN "failed" ELSE "forwarded")
    /\ UNCHANGED <<cfg, clock, counters, taken>>

\* Time passes.  A counter whose time is over is as good as gone: whatever
\* touches the store drops it first.  No handler is held up for longer than MaxLag between the
\* reading of the clock and the use of the store.
Tick ==
    /\ clock < MaxClock
    /\ \A r \in Requests : reqs[r].at \in {"clocked", "fetched"} => clock < reqs[r].now + MaxLag
    /\ clock' = clock + 1
    /\ counters' = Only(counters, {id \in DOMAIN counters : clock' < counters[id].until})
    /\ taken' = Only(taken, {kw \in DOMAIN taken :
                               kw[2] + 2 >= WindowId(clock', cfg.rules[1].window)})
    /\ UNCHANGED <<cfg, reqs>>

Next ==
    \/ \E r \in Requests :
        Arrive(r) \/ SkipsRule(r) \/ Unresolved(r) \/ Fixed(r) \/ applyLimit(r)
        \/ ReadClock(r) \/ Slides(r) \/ Ends(r)
    \/ Tick

Spec == Init /\ [][Next]_vars

---------------------------------------------------------------------------
TypeOK ==
    /\ cfg \in Settings /\ clock \in 0 .. MaxClock
    /\ \A id \in DOMAIN counters : counters[id].value \in Nat /\ counters[id].until \in Nat
    /\ \A r \in Requests :
        /\ reqs[r].at \in {"idle", "rule", "clocked", "fetched", "forwarded"}
        /\ reqs[r].counted \subseteq DOMAIN cfg.rules
    /\ InMemory => Cardinality(DOMAIN counters) <= Capacity

\* In one life of a counter no rule admits more than its count, although
\* rules with one key share the counter, rejected requests add to it and
\* requests interleave between their rules.
WindowsHold ==
    \A id \in DOMAIN counters, i \in DOMAIN cfg.rules : counters[id].ok[i] <= cfg.rules[i].count

\* A request is forwarded only when every rule that applies to it has counted
\* it, unless degradation is allowed; without any rule it is not forwarded.
ForwardedRight ==
    \A r \in Requests : reqs[r].at = "forwarded" /\ ~cfg.allow_degradation =>
        /\ reqs[r].counted # {}
        /\ \A i \in DOMAIN cfg.rules :
            reqs[r].ask.keys[i] # NoKey
            /\ (reqs[r].ask.known[i] \/ cfg.plugin = "limit-count") => i \in reqs[r].counted

Taken(k, w) == IF <<k, w>> \in DOMAIN taken THEN taken[<<k, w>>] ELSE 0

\* An aligned sliding window never admits more than the limit, with Redis
\* too; and in memory what a request is admitted for fits together with the
\* part of the previous window that still counts, as long as the store can
\* hold two windows of every key: then no eviction takes a counter that is
\* still needed.
SlidingHolds ==
    cfg.window_type = "sliding" =>
     /\ \A kw \in DOMAIN taken' : taken'[kw] <= cfg.rules[1].count
     /\ \A r \in Requests :
         /\ InMemory /\ reqs[r].at = "clocked" /\ reqs[r].now = clock
         /\ reqs'[r] # reqs[r] /\ taken' # taken
         => LET window == cfg.rules[1].window
                w == WindowId(clock, window)
            IN  Fits(Taken(Key(r), w - 1), Taken(Key(r), w), SlidingCost(r),
                     cfg.rules[1].count, window, clock)
=============================================================================
