-------------------------- MODULE MCRouteGeneration --------------------------
(***************************************************************************)
(* RouteGeneration and the limiting plugins, each explored by itself:      *)
(* `part' names the one that runs, and the others stay in an initial       *)
(* state. limit-conn runs with its local and with its Redis policy.        *)
(***************************************************************************)
EXTENDS RouteGeneration, TLC

CONSTANTS r1, r2, r3, route, alice, NoKey, k1, k2

VARIABLES
    part, clock, faults,
    req, conns, members,
    states, queue, retry, retryNext, reqs, run, stop, remote, ghost,
    unhealthyCount, healthyCount, lastUnhealthy, now, calls, streak,
    plugin, entry, buckets, tick, times

conn == <<req, conns, members>>
delayed == <<states, queue, retry, retryNext, reqs, run, stop, remote, ghost>>
time == <<clock, faults>>
breaker == <<unhealthyCount, healthyCount, lastUnhealthy, now, calls, streak>>
bucket == <<plugin, entry, buckets, tick, times>>
limiters == <<time, conn, delayed, breaker, bucket>>

\* Two rules, the first keyed by the route and the second by the client; r3
\* has no client, and in the Redis instance no key at all.
ConnRules == <<[conn |-> 1, burst |-> 1], [conn |-> 1, burst |-> 0]>>
ConnKey == (r1 :> <<route, alice>>) @@ (r2 :> <<route, alice>>) @@ (r3 :> <<route, NoKey>>)
ConnKeyNone == (r1 :> <<route, alice>>) @@ (r2 :> <<route, alice>>) @@ (r3 :> <<NoKey, NoKey>>)

\* Two requests for one counter, and one for a second that finds no room.
Limited == {r1, r2, r3}
DelayedKey == (r1 :> k1) @@ (r2 :> k1) @@ (r3 :> k2)

\* The constants of api-breaker and of limit-req, the same in both instances.
Calls == 1 .. 4
Failures == 2
Successes == 2
MaxBreaker == 3
MaxTime == 3
Plugins == {"old", "new"}
Unit == 4
Rate == 3
Second == 2
Burst == 1
MaxAdmitted == 4
MaxTick == 4

Local == INSTANCE Limiters WITH
    Requests <- Limited, Rules <- ConnRules, Key <- ConnKey, Redis <- FALSE,
    AllowDegradation <- FALSE, TTL <- 1, MaxClock <- 0, MaxFaults <- 0
Shared == INSTANCE Limiters WITH
    Requests <- Limited, Rules <- ConnRules, Key <- ConnKeyNone, Redis <- TRUE,
    AllowDegradation <- TRUE, TTL <- 1, MaxClock <- 1, MaxFaults <- 1
Delayed == INSTANCE DelayedSync WITH
    Requests <- Limited, Keys <- {k1, k2}, KeyOf <- DelayedKey, Limit <- 1, Window <- 1,
    QueueSize <- 1, MaxStates <- 1, MaxClock <- 1, MaxFaults <- 1

ASSUME Local!ConnConfig /\ Shared!ConnConfig /\ Delayed!DelayedConfig
       /\ Local!BreakerConfig /\ Local!ReqConfig

-----------------------------------------------------------------------------
MCInit ==
    /\ part \in {"generation", "local", "shared", "delayed", "breaker", "bucket"}
    /\ Init
    /\ IF part = "local" THEN Local!ConnInit ELSE Shared!ConnInit
    /\ Delayed!Init /\ Local!BreakerInit /\ Local!ReqInit

\* Outside the route generations, a part may come to its end.
Rest == part # "generation" /\ UNCHANGED <<vars, limiters>>

LimiterNext ==
    \/ part = "local" /\ Local!ConnNext /\ UNCHANGED <<delayed, breaker, bucket>>
    \/ part = "shared" /\ Shared!ConnNext /\ UNCHANGED <<delayed, breaker, bucket>>
    \/ part = "delayed" /\ Delayed!Next /\ UNCHANGED <<conn, breaker, bucket>>
    \/ part = "breaker" /\ Local!BreakerNext /\ UNCHANGED <<time, conn, delayed, bucket>>
    \/ part = "bucket" /\ Local!ReqNext /\ UNCHANGED <<time, conn, delayed, breaker>>

MCNext ==
    /\ UNCHANGED part
    /\ \/ part = "generation" /\ Next /\ UNCHANGED limiters
       \/ LimiterNext /\ UNCHANGED vars
       \/ Rest

\* The fairness of RouteGeneration, while its part runs.
GenerationFairness ==
    /\ \A t \in Threads :
         /\ WF_vars(/\ part = "generation"
                    /\ \/ AcquireLoad(t) \/ AcquireCAS(t) \/ LeaseLoad(t) \/ LeaseCAS(t)
                       \/ RegisterHijacked(t) \/ Release(t) \/ CloseDrained(t))
         /\ SF_vars(part = "generation" /\ (RegisterCheck(t) \/ Unregister(t)))
         /\ WF_vars(part = "generation" /\ t \notin open /\ Return(t))
    /\ \A p \in Publishers :
         /\ WF_vars(part = "generation" /\ RetireStep(p))
         /\ SF_vars(part = "generation" /\ CloseHijacked(p))
    /\ \A g \in Gens : WF_vars(part = "generation" /\ StopRouteSet(g))

\* Handlers run, upstreams answer and time passes; the ticker of the flush
\* goroutine fires again and again, and a select that finds the stop channel
\* closed again and again takes it.
LimiterFairness ==
    /\ WF_<<time, conn>>(part = "local" /\ Local!Tick)
    /\ WF_<<time, conn>>(part = "shared" /\ Shared!Tick)
    /\ \A r \in Limited :
         /\ WF_<<time, conn>>(part = "local" /\ Local!Step(r))
         /\ WF_<<time, conn>>(part = "shared" /\ Shared!Step(r))
         /\ WF_<<time, delayed>>(part = "delayed" /\ Delayed!Request(r))
    /\ WF_<<time, delayed>>(part = "delayed" /\ Delayed!Flusher)
    /\ SF_<<time, delayed>>(part = "delayed" /\ Delayed!StopFlush)
    /\ WF_<<time, delayed>>(part = "delayed" /\ Delayed!Exit)

MCSpec ==
    /\ MCInit /\ [][MCNext]_<<part, vars, limiters>>
    /\ GenerationFairness /\ LimiterFairness

-----------------------------------------------------------------------------
\* limit-conn counts exactly the slots requests hold, admits no more than conn
\* plus burst and leaves a slot behind only after a failed Redis call; the
\* delayed syncer of limit-count counts each admitted unit once, locally, in
\* flight or in Redis, and forgets no key that still has something to flush; the
\* api-breaker refuses only after enough failures without enough successes
\* between them, for no longer than their number and max_breaker_sec allow,
\* and is as new after enough successes; limit-req admits no faster than rate
\* and burst allow, and the plugins of one consumer share one bucket store
\* until the last of them stops.
LimitersRight ==
    /\ part = "local" => Local!SlotsRight
    /\ part = "shared" => Shared!SlotsRight
    /\ part = "delayed" => Delayed!DeltasRight
    /\ part = "breaker" => Local!BreakerRight
    /\ part = "bucket" => Local!BucketsRight

\* limit-conn refuses a request only when its key is full.
RefusalsRight ==
    [][(part = "local" => Local!RefusedWhenFull) /\ (part = "shared" => Shared!RefusedWhenFull)]_<<time, conn>>

\* Retired generations are stopped, and those who retire them return; every slot
\* of limit-conn is given back or expires; every request to the delayed syncer
\* is answered, and Redis has counted every admitted unit in the end unless
\* the flush of Stop itself failed.
AllSettles ==
    <>[](/\ part = "generation" => Settled
         /\ part = "local" => Local!AllFree
         /\ part = "shared" => Shared!AllFree
         /\ part = "delayed" => Delayed!Synchronized)

=============================================================================
