------------------------------ MODULE Limiters -------------------------------
(***************************************************************************)
(* Plugins that refuse requests by what they count themselves: limit-conn, *)
(* api-breaker and limit-req. Three state machines, each with its own      *)
(* variables.                                                              *)
(***************************************************************************)
EXTENDS Integers, Sequences, FiniteSets, SequencesExt, FiniteSetsExt

-----------------------------------------------------------------------------
(***************************************************************************)
(* The concurrency limiter limit-conn (pkg/plugin/limit_conn): a request   *)
(* takes one slot per configured rule, one critical section or one Redis   *)
(* script at a time, and gives all of them back when a later rule refuses  *)
(* it, when its release cannot be registered, or when it ends.             *)
(*                                                                         *)
(* The delay a request beyond conn sleeps, and the running average it is   *)
(* computed from, do not change any decision and are left out.             *)
(***************************************************************************)

CONSTANTS
    Requests,
    Rules,              \* one rule per configured limit: [conn, burst]
    Key,                \* Key[r][i]: the key rule i resolves to, or NoKey
    NoKey,
    Redis,              \* policy redis or redis-cluster; local otherwise
    AllowDegradation,
    TTL,                \* key_ttl: life of a Redis member
    MaxClock,           \* bound: ticks of time while requests run
    MaxFaults           \* bound: Redis calls that fail

ConnConfig ==
    /\ IsFiniteSet(Requests)
    /\ Rules # <<>>
    /\ \A i \in DOMAIN Rules : Rules[i].conn \in Nat \ {0} /\ Rules[i].burst \in Nat
    /\ Key \in [Requests -> Seq(UNION {{Key[r][i] : i \in DOMAIN Rules} : r \in Requests})]
    /\ Redis \in BOOLEAN /\ AllowDegradation \in BOOLEAN
    /\ TTL \in Nat \ {0} /\ MaxClock \in Nat /\ MaxFaults \in Nat

Keys == {Key[r][i] : r \in Requests, i \in DOMAIN Rules} \ {NoKey}

VARIABLES
    req,        \* the requests: where they are, the rule they try, what they hold
    conns,      \* local policy: p.conns
    members,    \* redis policy: the sorted set of every key, member to expiry
    clock,
    faults

connVars == <<req, conns, members, clock, faults>>

Start == [pc |-> "rules", rule |-> 1, held |-> <<>>, outcome |-> "none"]

ConnInit ==
    /\ req = [r \in Requests |-> Start]
    /\ conns = [k \in Keys |-> 0]
    /\ members = [k \in Keys |-> <<>>]
    /\ clock = 0
    /\ faults = 0

Limit(i) == Rules[i].conn + Rules[i].burst

\* The member of rule i; member ids are random, and never shared.
Member(r, i) == <<r, i>>

\* The slots of sorted set s that ZREMRANGEBYSCORE keeps.
Unexpired(s) == {m \in DOMAIN s : s[m] > clock}

\* decreaseAdmissions over what the request holds, then its answer. Without
\* anything to release the answer is immediate.
GiveUp(r, outcome) ==
    req' = [req EXCEPT ![r].outcome = outcome,
                       ![r].pc = IF req[r].held = <<>> THEN "done" ELSE "release"]

Took(r, i) ==
    req' = [req EXCEPT ![r].rule = i + 1,
                       ![r].held = Append(@, [key |-> Key[r][i], member |-> Member(r, i)])]

\* A rule whose variables do not resolve is skipped.
SkipRule(r) ==
    LET i == req[r].rule IN
    /\ req[r].pc = "rules" /\ i \in DOMAIN Rules
    /\ Key[r][i] = NoKey
    /\ req' = [req EXCEPT ![r].rule = i + 1]
    /\ UNCHANGED <<conns, members, clock, faults>>

\* Off by one: the limit is compared before this request is counted.
IncreaseLocal_OneMore(r) ==
    LET i == req[r].rule
        k == Key[r][i]
    IN  /\ ~Redis
        /\ req[r].pc = "rules" /\ i \in DOMAIN Rules /\ Key[r][i] # NoKey
        /\ IF conns[k] > Limit(i)
           THEN GiveUp(r, "rejected") /\ UNCHANGED conns
           ELSE Took(r, i) /\ conns' = [conns EXCEPT ![k] = @ + 1]
        /\ UNCHANGED <<members, clock, faults>>

IncreaseLocal(r) ==
    LET i == req[r].rule
        k == Key[r][i]
    IN  /\ ~Redis
        /\ req[r].pc = "rules" /\ i \in DOMAIN Rules /\ Key[r][i] # NoKey
        /\ IF conns[k] + 1 > Limit(i)
           THEN GiveUp(r, "rejected") /\ UNCHANGED conns
           ELSE Took(r, i) /\ conns' = [conns EXCEPT ![k] = @ + 1]
        /\ UNCHANGED <<members, clock, faults>>

\* The script counts the members that have expired with the others.
Incoming_KeepsExpired(k, i, m) ==
    LET kept == DOMAIN members[k] IN
    [x \in IF Cardinality(kept) >= Limit(i) THEN kept ELSE kept \cup {m} |->
        IF x = m THEN clock + TTL ELSE members[k][x]]

\* redisLimitConnIncomingScript: the sorted set after it ran.
Incoming(k, i, m) ==
    LET kept == Unexpired(members[k]) IN
    [x \in IF Cardinality(kept) >= Limit(i) THEN kept ELSE kept \cup {m} |->
        IF x = m THEN clock + TTL ELSE members[k][x]]

IncreaseRedis(r) ==
    LET i == req[r].rule
        k == Key[r][i]
        after == Incoming(k, i, Member(r, i))
    IN  /\ Redis
        /\ req[r].pc = "rules" /\ i \in DOMAIN Rules /\ Key[r][i] # NoKey
        /\ members' = [members EXCEPT ![k] = after]
        /\ IF Member(r, i) \in DOMAIN after THEN Took(r, i) ELSE GiveUp(r, "rejected")
        /\ UNCHANGED <<conns, clock, faults>>

\* The script fails, or runs while its reply is lost. admit continues without
\* a release when degradation is allowed.
RedisError(r) ==
    LET i == req[r].rule
        k == Key[r][i]
    IN  /\ Redis /\ faults < MaxFaults
        /\ faults' = faults + 1
        /\ req[r].pc = "rules" /\ i \in DOMAIN Rules /\ Key[r][i] # NoKey
        /\ \/ UNCHANGED members
           \/ members' = [members EXCEPT ![k] = Incoming(k, i, Member(r, i))]
        /\ GiveUp(r, IF AllowDegradation THEN "degraded" ELSE "error")
        /\ UNCHANGED <<conns, clock>>

\* All rules have been walked: without any admission the request is refused or
\* degraded, otherwise its release becomes a finalizer of the lifecycle.
Register(r) ==
    /\ req[r].pc = "rules" /\ req[r].rule > Len(Rules)
    /\ IF req[r].held = <<>>
       THEN GiveUp(r, IF AllowDegradation THEN "degraded" ELSE "error")
       ELSE req' = [req EXCEPT ![r].pc = "serving", ![r].outcome = "served"]
    /\ UNCHANGED <<conns, members, clock, faults>>

\* The failed registration forgets the slots.
RegisterFails_NoRollback(r) ==
    /\ req[r].pc = "rules" /\ req[r].rule > Len(Rules) /\ req[r].held # <<>>
    /\ req' = [req EXCEPT ![r].pc = "done", ![r].outcome = "error", ![r].held = <<>>]
    /\ UNCHANGED <<conns, members, clock, faults>>

\* The lifecycle no longer takes finalizers: rollback, and status 500.
RegisterFails(r) ==
    /\ req[r].pc = "rules" /\ req[r].rule > Len(Rules) /\ req[r].held # <<>>
    /\ GiveUp(r, "error")
    /\ UNCHANGED <<conns, members, clock, faults>>

\* The upstream's answer is complete, and the finalizers run.
Leave(r) ==
    /\ req[r].pc = "serving"
    /\ req' = [req EXCEPT ![r].pc = "release"]
    /\ UNCHANGED <<conns, members, clock, faults>>

Released(r) == [req EXCEPT ![r].held = Tail(@),
                           ![r].pc = IF Len(req[r].held) = 1 THEN "done" ELSE @]

\* decreaseLocal
ReleaseLocal(r) ==
    /\ ~Redis /\ req[r].pc = "release"
    /\ conns' = [conns EXCEPT ![Head(req[r].held).key] = IF @ <= 1 THEN 0 ELSE @ - 1]
    /\ req' = Released(r)
    /\ UNCHANGED <<members, clock, faults>>

\* redisLimitConnLeavingScript removes the member, whether it has expired or not.
ReleaseRedis(r) ==
    LET h == Head(req[r].held) IN
    /\ Redis /\ req[r].pc = "release"
    /\ members' = [members EXCEPT ![h.key] =
           [m \in DOMAIN members[h.key] \ {h.member} |-> members[h.key][m]]]
    /\ req' = Released(r)
    /\ UNCHANGED <<conns, clock, faults>>

\* leaving fails; its error is dropped and the member stays until it expires.
ReleaseError(r) ==
    /\ Redis /\ faults < MaxFaults
    /\ req[r].pc = "release"
    /\ faults' = faults + 1
    /\ req' = Released(r)
    /\ UNCHANGED <<conns, members, clock>>

\* Time goes on past the bound once every request has ended.
Tick ==
    /\ \/ clock < MaxClock
       \/ clock < MaxClock + TTL /\ \A r \in Requests : req[r].pc = "done"
    /\ clock' = clock + 1
    /\ UNCHANGED <<req, conns, members, faults>>

Step(r) ==
    \/ SkipRule(r) \/ IncreaseLocal(r) \/ IncreaseRedis(r) \/ RedisError(r)
    \/ Register(r) \/ RegisterFails(r) \/ Leave(r)
    \/ ReleaseLocal(r) \/ ReleaseRedis(r) \/ ReleaseError(r)

ConnNext == Tick \/ \E r \in Requests : Step(r)

ConnSpec == ConnInit /\ [][ConnNext]_connVars

-----------------------------------------------------------------------------
\* The slots of key k that requests hold and will give back.
Holders(k) == {rj \in Requests \X (1 .. Len(Rules)) :
                 rj[2] \in DOMAIN req[rj[1]].held /\ req[rj[1]].held[rj[2]].key = k}

HeldMembers(k) == {req[rj[1]].held[rj[2]].member : rj \in Holders(k)}

\* Every variable has its type; a request that is done holds nothing.
ConnTypeOK ==
    /\ conns \in [Keys -> Nat]
    /\ DOMAIN members = Keys
    /\ \A r \in Requests :
         /\ req[r].pc \in {"rules", "serving", "release", "done"}
         /\ req[r].outcome \in {"none", "served", "rejected", "degraded", "error"}
         /\ (req[r].pc = "done" => req[r].held = <<>>)

\* The local counters are exactly the slots held, through refusals by a later
\* rule, failed registrations and requests that end in any order: no slot is
\* leaked and none is given back twice (increaseRules, decreaseLocal).
SlotsExact == ~Redis => \A k \in Keys : conns[k] = Cardinality(Holders(k))

\* No more requests than conn + burst are past a rule at a time. With Redis
\* this counts the members that have not expired, the requests that outlive
\* key_ttl being the documented exception.
LimitHolds ==
    \A i \in DOMAIN Rules : \A k \in {Key[r][i] : r \in Requests} \ {NoKey} :
        Cardinality({rj \in Holders(k) :
            Redis => req[rj[1]].held[rj[2]].member \in Unexpired(members[k])}) <= Limit(i)

\* A slot nobody will give back costs a failed Redis call, and only until its
\* member expires: orphans never outnumber the faults.
OrphansAreFaults ==
    Cardinality(UNION {{m \in DOMAIN members[k] : m \notin HeldMembers(k)} : k \in Keys}) <= faults

\* A step that refuses is honest: the key was full of requests or of unexpired orphans.
RefusedWhenFull ==
    \A r \in Requests :
        LET i == req[r].rule IN
        req[r].pc = "rules" /\ req'[r].outcome = "rejected" =>
          IF Redis THEN Cardinality(Unexpired(members[Key[r][i]])) >= Limit(i)
          ELSE Cardinality(Holders(Key[r][i])) >= Limit(i)

\* No slot is taken, by a request or by an unexpired member.
AllFree == \A k \in Keys : conns[k] = 0 /\ Unexpired(members[k]) = {}

\* Every slot becomes free again: all requests end, and their members expire.
SlotsComeBack == <>[]AllFree

\* The slots are counted exactly and never exceed the limits.
SlotsRight == ConnTypeOK /\ SlotsExact /\ OrphansAreFaults /\ LimitHolds

-----------------------------------------------------------------------------
(***************************************************************************)
(* The circuit breaker api-breaker (pkg/plugin/api_breaker): requests are  *)
(* let through or refused by shouldBreak, and the outcomes of the ones let *)
(* through are observed when they end, in any order and however long after *)
(* the decision.                                                           *)
(***************************************************************************)

CONSTANTS
    Calls,          \* the requests of an instance
    Failures,       \* unhealthy.failures
    Successes,      \* healthy.successes
    MaxBreaker,     \* max_breaker_sec
    MaxTime         \* bound: seconds

BreakerConfig ==
    /\ IsFiniteSet(Calls)
    /\ {Failures, Successes} \subseteq Nat \ {0}
    /\ MaxBreaker \in Nat /\ MaxBreaker >= 3
    /\ MaxTime \in Nat

VARIABLES
    unhealthyCount, healthyCount,
    lastUnhealthy,  \* the time, or Never
    now,
    calls,          \* "new", "inside", "refused" or how the request ended
    streak          \* history: failures since the breaker was last closed

breakerVars == <<unhealthyCount, healthyCount, lastUnhealthy, now, calls, streak>>

Never == -1

BreakerInit ==
    /\ unhealthyCount = 0 /\ healthyCount = 0
    /\ lastUnhealthy = Never
    /\ now = 0
    /\ calls = [c \in Calls |-> "new"]
    /\ streak = 0

\* The loop of breakerSeconds: n doublings of 2, given up at the maximum.
Doubled(n) ==
    LET after[i \in 0 .. n] ==
            IF i = 0 THEN 2
            ELSE LET s == after[i - 1] IN
                 IF s >= MaxBreaker \/ s > MaxBreaker \div 2 THEN MaxBreaker ELSE 2 * s
    IN  after[n]

breakerSeconds ==
    LET times == IF unhealthyCount \div Failures > 1 THEN unhealthyCount \div Failures ELSE 1
        seconds == Doubled(times - 1)
    IN  IF seconds > MaxBreaker THEN MaxBreaker ELSE seconds

shouldBreak ==
    /\ unhealthyCount # 0 /\ lastUnhealthy # Never
    /\ ~(now > lastUnhealthy + breakerSeconds)

\* RunRequestPhase: the break response, or the finalizer that will observe
\* the outcome.
Admit(c) ==
    /\ calls[c] = "new"
    /\ calls' = [calls EXCEPT ![c] = IF shouldBreak THEN "refused" ELSE "inside"]
    /\ UNCHANGED <<unhealthyCount, healthyCount, lastUnhealthy, now, streak>>

\* Every failure opens the breaker.
ObserveUnhealthy_Each(c) ==
    /\ calls[c] = "inside"
    /\ calls' = [calls EXCEPT ![c] = "failed"]
    /\ unhealthyCount' = unhealthyCount + 1
    /\ healthyCount' = 0
    /\ lastUnhealthy' = now
    /\ streak' = streak + 1
    /\ UNCHANGED now

ObserveUnhealthy(c) ==
    /\ calls[c] = "inside"
    /\ calls' = [calls EXCEPT ![c] = "failed"]
    /\ unhealthyCount' = unhealthyCount + 1
    /\ healthyCount' = 0
    /\ lastUnhealthy' = IF unhealthyCount' % Failures = 0 THEN now ELSE lastUnhealthy
    /\ streak' = streak + 1
    /\ UNCHANGED now

\* Successes count towards closing only after a failure.
ObserveHealthy(c) ==
    /\ calls[c] = "inside"
    /\ calls' = [calls EXCEPT ![c] = "succeeded"]
    /\ CASE unhealthyCount = 0 ->
              UNCHANGED <<unhealthyCount, healthyCount, lastUnhealthy, streak>>
         [] unhealthyCount # 0 /\ healthyCount + 1 >= Successes ->
              /\ unhealthyCount' = 0 /\ healthyCount' = 0
              /\ lastUnhealthy' = Never
              /\ streak' = 0
         [] OTHER ->
              /\ healthyCount' = healthyCount + 1
              /\ UNCHANGED <<unhealthyCount, lastUnhealthy, streak>>
    /\ UNCHANGED now

\* A status in neither list, or an outcome that is not a completed response.
ObserveNothing(c) ==
    /\ calls[c] = "inside"
    /\ calls' = [calls EXCEPT ![c] = "ignored"]
    /\ UNCHANGED <<unhealthyCount, healthyCount, lastUnhealthy, now, streak>>

SecondPasses ==
    /\ now < MaxTime
    /\ now' = now + 1
    /\ UNCHANGED <<unhealthyCount, healthyCount, lastUnhealthy, calls, streak>>

BreakerNext ==
    \/ SecondPasses
    \/ \E c \in Calls :
         Admit(c) \/ ObserveUnhealthy(c) \/ ObserveHealthy(c) \/ ObserveNothing(c)

BreakerSpec == BreakerInit /\ [][BreakerNext]_breakerVars

-----------------------------------------------------------------------------
\* The breaker opens only after failures without enough successes between
\* them, never for longer than max_breaker_sec, and for twice as long at each
\* further batch of failures: outcomes of requests admitted before it opened,
\* which arrive while it is open, do not break this.
OpensRightly ==
    shouldBreak =>
        /\ streak >= Failures
        /\ now <= lastUnhealthy + MaxBreaker
        /\ now <= lastUnhealthy + 2^(streak \div Failures)

\* Successes of requests that were let through close the breaker as soon as
\* there are enough of them without a failure between, and then it is as new:
\* nothing of the old failures is left to open it again.
Closes ==
    /\ healthyCount < Successes
    /\ unhealthyCount = 0 => healthyCount = 0 /\ lastUnhealthy = Never
    /\ lastUnhealthy # Never => unhealthyCount >= Failures

\* The breaker is right about when to refuse and when to stop refusing.
BreakerRight ==
    /\ calls \in [Calls -> {"new", "inside", "refused", "failed", "succeeded", "ignored"}]
    /\ OpensRightly
    /\ Closes

-----------------------------------------------------------------------------
(***************************************************************************)
(* The leaky bucket of limit-req (pkg/plugin/limit_req) with its two local *)
(* homes: the bucket map of a plugin instance, whose entries expire after  *)
(* bucketTTL, and the stores that instances of one configuration share for *)
(* consumer overrides, counted by reference across configuration reloads.  *)
(*                                                                         *)
(* Excess is counted in units of which a request adds Unit and a tick      *)
(* drains Rate; Second ticks are one second of the TTL's rounding.         *)
(***************************************************************************)

CONSTANTS
    Plugins,        \* instances of one configuration, as reloads make them
    Unit, Rate, Second,
    Burst,
    MaxAdmitted,    \* bound: requests admitted
    MaxTick         \* bound: ticks of time

ReqConfig ==
    /\ IsFiniteSet(Plugins)
    /\ {Unit, Rate, Second} \subseteq Nat \ {0}
    /\ {Burst, MaxAdmitted, MaxTick} \subseteq Nat

VARIABLES
    plugin,     \* instances: their own store and the shared store they hold
    entry,      \* consumerBucketStores: the store of the configuration, and refs
    buckets,    \* the bucket of every store, indexed by store
    tick,
    times       \* history: when each store admitted its requests

reqVars == <<plugin, entry, buckets, tick, times>>

NoStore == 0
NoEntry == [store |-> NoStore, refs |-> 0]
NoBucket == [excess |-> 0, last |-> 0, expires |-> 0]

\* Store 1 is the map of the instances themselves (one key of one of them);
\* shared stores are numbered from 2.
Own == 1

ReqInit ==
    /\ plugin = [p \in Plugins |-> [state |-> "live", store |-> NoStore]]
    /\ entry = NoEntry
    /\ buckets = <<NoBucket>>
    /\ tick = 0
    /\ times = << <<>> >>

\* The TTL is rounded down.
bucketTTL_Floor == Second * (((Burst + 1) * Unit) \div (Rate * Second))

\* bucketTTL: ceil((burst + 1) / rate) seconds, at least one.
bucketTTL == Max({1, ((Burst + 1) * Unit + Rate * Second - 1) \div (Rate * Second)}) * Second

\* BoundedTTLMap.Get: an expired bucket is absent, and a fresh one used.
Bucket(s) ==
    IF tick < buckets[s].expires THEN buckets[s] ELSE [NoBucket EXCEPT !.last = tick]

Excess(s) == LET b == Bucket(s) IN
    Max({0, b.excess - (tick - b.last) * Rate}) + Unit

\* incomingWithConsumer under the mutex of store s: a rejected request leaves
\* the bucket as it is.
IncomingReq(s) ==
    IF Excess(s) > (Burst + 1) * Unit
    THEN UNCHANGED <<buckets, times>>
    ELSE /\ buckets' = [buckets EXCEPT ![s] =
                [excess |-> Excess(s), last |-> tick, expires |-> tick + bucketTTL]]
         /\ times' = [times EXCEPT ![s] = Append(@, tick)]

Admitted == FoldSet(LAMBDA s, n : n + Len(times[s]), 0, DOMAIN times)

\* A request without a consumer override.
Request(p) ==
    /\ plugin[p].state = "live" /\ Admitted < MaxAdmitted
    /\ IncomingReq(Own)
    /\ UNCHANGED <<plugin, entry, tick>>

\* consumerBucketStore at the first overridden request of an instance.
Acquire(p) ==
    LET s == IF entry.refs = 0 THEN Len(buckets) + 1 ELSE entry.store IN
    /\ plugin[p].state = "live" /\ plugin[p].store = NoStore
    /\ entry' = [store |-> s, refs |-> entry.refs + 1]
    /\ plugin' = [plugin EXCEPT ![p].store = s]
    /\ buckets' = IF s > Len(buckets) THEN Append(buckets, NoBucket) ELSE buckets
    /\ times' = IF s > Len(buckets) THEN Append(times, <<>>) ELSE times
    /\ UNCHANGED tick

\* A request of a consumer.
ConsumerRequest(p) ==
    /\ plugin[p].state = "live" /\ plugin[p].store # NoStore /\ Admitted < MaxAdmitted
    /\ IncomingReq(plugin[p].store)
    /\ UNCHANGED <<plugin, entry, tick>>

\* What releaseConsumerBucketStore leaves of the entry.
ReqReleased(p) ==
    IF plugin[p].store = NoStore \/ plugin[p].store # entry.store THEN entry
    ELSE IF entry.refs - 1 <= 0 THEN NoEntry ELSE [entry EXCEPT !.refs = @ - 1]

\* Stop
Stop(p) ==
    /\ plugin[p].state = "live"
    /\ entry' = ReqReleased(p)
    /\ plugin' = [plugin EXCEPT ![p] = [state |-> "stopped", store |-> NoStore]]
    /\ UNCHANGED <<buckets, tick, times>>

ReqTick ==
    /\ tick < MaxTick
    /\ tick' = tick + 1
    /\ UNCHANGED <<plugin, entry, buckets, times>>

ReqNext ==
    \/ ReqTick
    \/ \E p \in Plugins : Request(p) \/ Acquire(p) \/ ConsumerRequest(p) \/ Stop(p)

ReqSpec == ReqInit /\ [][ReqNext]_reqVars

-----------------------------------------------------------------------------
\* Whatever expires, no bucket lets more requests through in any span of time
\* than burst, one, and what leaks in that span: a bucket that is dropped had
\* nothing left in it.
RateHolds ==
    \A s \in DOMAIN times : \A i, j \in DOMAIN times[s] :
        i <= j => (j - i) * Unit <= Burst * Unit + (times[s][j] - times[s][i]) * Rate

\* Instances of one configuration that live at the same time share their
\* consumer store, through reloads in any order: it is dropped with the last
\* of them and never sooner.
StoreShared ==
    LET holders == {p \in Plugins : plugin[p].store # NoStore} IN
    /\ entry.refs = Cardinality(holders)
    /\ \A p \in holders : plugin[p].store = entry.store

\* The limit-req buckets keep their rate and their sharing.
BucketsRight ==
    /\ \A s \in DOMAIN buckets : buckets[s].excess \in 0 .. (Burst + 1) * Unit
    /\ RateHolds
    /\ StoreShared

=============================================================================
