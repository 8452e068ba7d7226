---------------------------- MODULE HealthChecks -----------------------------
(***************************************************************************)
(* The health of upstream targets and of the instances of ai-proxy-multi:  *)
(* two checkers, each with its own variables.                              *)
(***************************************************************************)
EXTENDS Integers, FiniteSets, FiniteSetsExt

-----------------------------------------------------------------------------
(***************************************************************************)
(* Health of the targets of one upstream cluster (pkg/proxy/health.go,     *)
(* pkg/proxy/active_health.go, the Close of pkg/proxy/cluster.go).         *)
(*                                                                         *)
(* Request goroutines report passive outcomes; one probe goroutine per     *)
(* target probes it and applies the result.  Both change the same          *)
(* healthState under the balancer's mutex, but a probe goroutine drops the *)
(* mutex between reading the state and changing it, and carries its        *)
(* counters from one probe to the next.  A generation number, raised on    *)
(* every transition, is what keeps an old probe from judging a newer       *)
(* state.                                                                  *)
(*                                                                         *)
(* up[t] is the environment: whether the target answers well now.  It is   *)
(* sampled when an outcome is produced; a passive outcome is reported      *)
(* after that, so an old one may still be in flight (late).                *)
(***************************************************************************)

CONSTANTS
    Targets,            \* the selector keys of the cluster
    HealthySuccesses,   \* checks.passive.healthy.successes, 0 disables recovery
    HTTPFailures,       \* checks.passive.unhealthy.*, 0 disables the class
    TCPFailures,
    Timeouts,
    ActiveSuccesses,    \* checks.active.healthy.successes
    ActiveHTTPFails,    \* checks.active.unhealthy.*, 0 disables the class
    ActiveTCPFails,
    ActiveTimeouts,
    Concurrency,        \* capacity of the probe semaphore
    Unreliable,         \* bound: the targets whose condition changes
    MaxFlips,           \* bound: how often it does
    MaxLate,            \* bound: passive outcomes in flight per target
    MaxCount            \* bound: failures counted in a disabled class

HealthConfig ==
    /\ IsFiniteSet(Targets) /\ Unreliable \subseteq Targets
    /\ {HealthySuccesses, HTTPFailures, TCPFailures, Timeouts,
        ActiveHTTPFails, ActiveTCPFails, ActiveTimeouts,
        MaxFlips, MaxLate, MaxCount} \subseteq Nat
    /\ {ActiveSuccesses, Concurrency} \subseteq Nat \ {0}

VARIABLES
    states,     \* healthState of each target
    status,     \* the last value the observer was given for each target
    observing,  \* lb.observer is set (clearObserver has not run)
    prober,     \* the probe goroutine of each target
    semaphore,  \* tokens taken of the probe semaphore
    closing,    \* "no", "cancelled" (ctx cancelled, Close waits), "closed"
    up,         \* environment: the target answers well
    flips,      \* environment: changes of up so far
    late,       \* environment: passive outcomes not yet reported
    streak      \* history: outcomes of the probes since the last transition

clusterVars == <<states, status, observing, prober, semaphore, closing, up, flips, late, streak>>

-----------------------------------------------------------------------------
Failures == {"http", "tcp", "timeout"}

NoFailures == [f \in Failures |-> 0]

FreshState == [fails |-> NoFailures, successes |-> 0, unhealthy |-> FALSE, generation |-> 0]

\* activeProbeCounters of a goroutine, tagged with the generation they count in.
Counters(g) == [fails |-> NoFailures, successes |-> 0, generation |-> g]

FreshProber == [pc |-> "sleep", expected |-> 0, result |-> "none", healthy |-> TRUE,
                counters |-> Counters(0)]

NoStreak == [successes |-> 0, fails |-> NoFailures]

PassiveThreshold == [f \in Failures |->
    CASE f = "http" -> HTTPFailures [] f = "tcp" -> TCPFailures [] OTHER -> Timeouts]

ActiveThreshold == [f \in Failures |->
    CASE f = "http" -> ActiveHTTPFails [] f = "tcp" -> ActiveTCPFails [] OTHER -> ActiveTimeouts]

Reached(n, threshold) == threshold > 0 /\ n >= threshold

ClusterInit ==
    /\ states = [t \in Targets |-> FreshState]
    /\ status = [t \in Targets |-> TRUE]
    /\ observing = TRUE
    /\ prober = [t \in Targets |-> FreshProber]
    /\ semaphore = 0
    /\ closing = "no"
    /\ up = [t \in Targets |-> TRUE]
    /\ flips = 0
    /\ late = [t \in Targets |-> 0]
    /\ streak = [t \in Targets |-> NoStreak]

-----------------------------------------------------------------------------
(***************************************************************************)
(* State transitions, each made while the balancer's mutex is held.  The   *)
(* observer is told before the mutex is released.                          *)
(***************************************************************************)
Recovered(s) == [FreshState EXCEPT !.generation = s.generation + 1]

Quarantined(s) == [s EXCEPT !.unhealthy = TRUE, !.generation = @ + 1]

\* ReportHTTP with a status of HealthyStatuses.
AfterSuccess(s) ==
    IF ~s.unhealthy THEN [s EXCEPT !.fails = NoFailures, !.successes = 0]
    ELSE IF HealthySuccesses = 0 THEN s
    ELSE IF s.successes + 1 >= HealthySuccesses THEN Recovered(s)
    ELSE [s EXCEPT !.successes = @ + 1]

\* ReportHTTP with a status of UnhealthyStatuses, or ReportTCPFailure.
AfterFailure(s, f) ==
    LET r == [s EXCEPT !.successes = 0]
        c == [r EXCEPT !.fails[f] = @ + 1]
    IN  IF s.unhealthy THEN r
        ELSE IF Reached(c.fails[f], PassiveThreshold[f]) THEN Quarantined(c)
        ELSE c

MarkHealthyApplies_AnyGeneration(s, g) == s.unhealthy

\* markHealthyLocked and markUnhealthyLocked, with requireGeneration.
MarkHealthyApplies(s, g) == s.unhealthy /\ s.generation = g

MarkUnhealthyApplies(s, g) == ~s.unhealthy /\ s.generation = g

\* Installs s as the state of t and publishes a transition.
Publish(t, s, watched) ==
    status' = IF watched /\ s.unhealthy # states[t].unhealthy
              THEN [status EXCEPT ![t] = ~s.unhealthy] ELSE status

SetState(t, s, watched) ==
    /\ states' = [states EXCEPT ![t] = s]
    /\ Publish(t, s, watched)
    /\ streak' = IF s.generation # states[t].generation
                 THEN [streak EXCEPT ![t] = NoStreak] ELSE streak

-----------------------------------------------------------------------------
(***************************************************************************)
(* Request goroutines.                                                     *)
(***************************************************************************)
\* A request that ran while the target was failing has a failure to report.
Observe(t) ==
    /\ ~up[t]
    /\ late[t] < MaxLate
    /\ late' = [late EXCEPT ![t] = @ + 1]
    /\ UNCHANGED <<states, status, observing, prober, semaphore, closing, up, flips, streak>>

\* ReportHTTP with an unhealthy status and ReportTCPFailure, for a failure of
\* class f seen some time ago.
ReportFailure(t, f) ==
    /\ late[t] > 0
    /\ PassiveThreshold[f] = 0 => states[t].fails[f] < MaxCount
    /\ late' = [late EXCEPT ![t] = @ - 1]
    /\ SetState(t, AfterFailure(states[t], f), observing)
    /\ UNCHANGED <<observing, prober, semaphore, closing, up, flips>>

\* ReportHTTP with a healthy status.
ReportSuccess(t) ==
    /\ up[t]
    /\ SetState(t, AfterSuccess(states[t]), observing)
    /\ UNCHANGED <<observing, prober, semaphore, closing, up, flips, late>>

-----------------------------------------------------------------------------
(***************************************************************************)
(* probeTarget: the loop of the goroutine of target t.                     *)
(***************************************************************************)
Goto(t, pc) == prober' = [prober EXCEPT ![t].pc = pc]

\* The interval timer fires.  (time.After(interval); the length of the
\* interval depends on IsHealthy and is not modelled.)
Wake(t) ==
    /\ prober[t].pc = "sleep"
    /\ Goto(t, "acquire")
    /\ UNCHANGED <<states, status, observing, semaphore, closing, up, flips, late, streak>>

\* acquireSemaphore takes a token.
Acquire(t) ==
    /\ prober[t].pc = "acquire"
    /\ semaphore < Concurrency
    /\ semaphore' = semaphore + 1
    /\ Goto(t, "read")
    /\ UNCHANGED <<states, status, observing, closing, up, flips, late, streak>>

\* The select statements of the loop see ctx.Done.
StopWaiting(t) ==
    /\ prober[t].pc \in {"sleep", "acquire"}
    /\ closing # "no"
    /\ Goto(t, "done")
    /\ UNCHANGED <<states, status, observing, semaphore, closing, up, flips, late, streak>>

\* _, probeGeneration := healthStatus(target)
ReadGeneration(t) ==
    /\ prober[t].pc = "read"
    /\ prober' = [prober EXCEPT ![t].pc = "probe", ![t].expected = states[t].generation]
    /\ UNCHANGED <<states, status, observing, semaphore, closing, up, flips, late, streak>>

ProbeResults(t) ==
    (IF up[t] THEN {"success", "neutral"} ELSE Failures) \cup
    (IF closing # "no" THEN {"canceled"} ELSE {})

\* probeResult and probeHTTP: the answer is classified.  A target that
\* answers well may also answer with a status of neither set.
Probe(t, result) ==
    /\ prober[t].pc = "probe"
    /\ result \in ProbeResults(t)
    /\ result \in Failures /\ ActiveThreshold[result] = 0 =>
          prober[t].counters.fails[result] < MaxCount
    /\ prober' = [prober EXCEPT ![t].pc = "release", ![t].result = result]
    /\ UNCHANGED <<states, status, observing, semaphore, closing, up, flips, late, streak>>

\* A cancelled probe returns without giving its token back.
Release_Leak(t) ==
    /\ prober[t].pc = "release"
    /\ semaphore' = IF prober[t].result = "canceled" THEN semaphore ELSE semaphore - 1
    /\ Goto(t, IF prober[t].result = "canceled" \/ closing # "no" THEN "done" ELSE "apply")
    /\ UNCHANGED <<states, status, observing, closing, up, flips, late, streak>>

\* releaseSemaphore, then the test for a cancelled probe.
Release(t) ==
    /\ prober[t].pc = "release"
    /\ semaphore' = semaphore - 1
    /\ Goto(t, IF prober[t].result = "canceled" \/ closing # "no" THEN "done" ELSE "apply")
    /\ UNCHANGED <<states, status, observing, closing, up, flips, late, streak>>

-----------------------------------------------------------------------------
(***************************************************************************)
(* applyProbeResultAtGeneration.  Apply holds the mutex only while it      *)
(* reads the status; the counters belong to the goroutine.  Mark takes the *)
(* mutex again.                                                            *)
(***************************************************************************)
\* The counters after a result, and whether a threshold was reached.
Judge(c, result, healthy) ==
    CASE result = "neutral" -> [counters |-> c, mark |-> FALSE]
      [] result = "success" /\ healthy -> [counters |-> Counters(c.generation), mark |-> FALSE]
      [] result = "success" /\ ~healthy ->
            IF c.successes + 1 >= ActiveSuccesses
            THEN [counters |-> Counters(c.generation), mark |-> TRUE]
            ELSE [counters |-> [Counters(c.generation) EXCEPT !.successes = c.successes + 1],
                  mark |-> FALSE]
      [] result \in Failures /\ ~healthy -> [counters |-> Counters(c.generation), mark |-> FALSE]
      [] result \in Failures /\ healthy ->
            LET d == [c EXCEPT !.successes = 0, !.fails[result] = @ + 1] IN
            IF Reached(d.fails[result], ActiveThreshold[result])
            THEN [counters |-> Counters(c.generation), mark |-> TRUE]
            ELSE [counters |-> d, mark |-> FALSE]

\* What the history records of a probe that began in the present generation.
Recorded(k, result, healthy) ==
    CASE result = "neutral" -> k
      [] result = "success" ->
            [successes |-> IF healthy THEN 0 ELSE k.successes + 1, fails |-> NoFailures]
      [] OTHER ->
            IF healthy THEN [successes |-> 0, fails |-> [k.fails EXCEPT ![result] = @ + 1]]
            ELSE NoStreak

\* The counters the result is added to: those of the present generation.
CountersAt(c, g) == IF c.generation = g THEN c ELSE Counters(g)

\* The goroutine gives up on a result of an older generation.
Apply_StaleReturns(t) ==
    LET p == prober[t]
        s == states[t]
        stale == s.generation # p.expected
        j == Judge(CountersAt(p.counters, s.generation), p.result, ~s.unhealthy)
    IN  /\ p.pc = "apply"
        /\ prober' = [prober EXCEPT ![t] =
               IF stale THEN [p EXCEPT !.pc = "done"]
               ELSE [p EXCEPT !.pc = IF j.mark THEN "mark" ELSE "sleep",
                              !.counters = j.counters, !.healthy = ~s.unhealthy]]
        /\ streak' = IF stale THEN streak
                     ELSE [streak EXCEPT ![t] = Recorded(@, p.result, ~s.unhealthy)]
        /\ UNCHANGED <<states, status, observing, semaphore, closing, up, flips, late>>

Apply(t) ==
    LET p == prober[t]
        s == states[t]
        stale == s.generation # p.expected
        j == Judge(CountersAt(p.counters, s.generation), p.result, ~s.unhealthy)
    IN  /\ p.pc = "apply"
        /\ prober' = [prober EXCEPT ![t] =
               IF stale THEN [p EXCEPT !.pc = "sleep", !.counters = Counters(s.generation)]
               ELSE [p EXCEPT !.pc = IF j.mark THEN "mark" ELSE "sleep",
                              !.counters = j.counters, !.healthy = ~s.unhealthy]]
        /\ streak' = IF stale THEN streak
                     ELSE [streak EXCEPT ![t] = Recorded(@, p.result, ~s.unhealthy)]
        /\ UNCHANGED <<states, status, observing, semaphore, closing, up, flips, late>>

\* markHealthyAtGeneration or markUnhealthyAtGeneration.  The observer is the
\* checker's own, which clearObserver does not take away.
Mark(t) ==
    LET p == prober[t]
        s == states[t]
        applies == IF p.healthy THEN MarkUnhealthyApplies(s, p.expected)
                                ELSE MarkHealthyApplies(s, p.expected)
    IN  /\ p.pc = "mark"
        /\ IF applies
           THEN /\ SetState(t, IF p.healthy THEN Quarantined([s EXCEPT !.successes = 0])
                                            ELSE Recovered(s), TRUE)
                /\ Goto(t, "sleep")
           ELSE /\ Goto(t, "reset")
                /\ UNCHANGED <<states, status, streak>>
        /\ UNCHANGED <<observing, semaphore, closing, up, flips, late>>

\* resetProbeCounters
Reset(t) ==
    /\ prober[t].pc = "reset"
    /\ prober' = [prober EXCEPT ![t].pc = "sleep", ![t].counters = Counters(states[t].generation)]
    /\ UNCHANGED <<states, status, observing, semaphore, closing, up, flips, late, streak>>

-----------------------------------------------------------------------------
(***************************************************************************)
(* Cluster.Close: cancel the probes, wait for the goroutines, then drop    *)
(* the passive observer.                                                   *)
(***************************************************************************)
Cancel ==
    /\ closing = "no"
    /\ closing' = "cancelled"
    /\ UNCHANGED <<states, status, observing, prober, semaphore, up, flips, late, streak>>

Close ==
    /\ closing = "cancelled"
    /\ \A t \in Targets : prober[t].pc = "done"
    /\ closing' = "closed"
    /\ observing' = FALSE
    /\ UNCHANGED <<states, status, prober, semaphore, up, flips, late, streak>>

\* Environment: a target fails or comes back.
Flip(t) ==
    /\ t \in Unreliable /\ flips < MaxFlips
    /\ flips' = flips + 1
    /\ up' = [up EXCEPT ![t] = ~@]
    /\ UNCHANGED <<states, status, observing, prober, semaphore, closing, late, streak>>

ProbeStep(t) ==
    \/ Wake(t) \/ Acquire(t) \/ StopWaiting(t) \/ ReadGeneration(t)
    \/ \E result \in {"success", "neutral", "canceled"} \cup Failures : Probe(t, result)
    \/ Release(t) \/ Apply(t) \/ Mark(t) \/ Reset(t)

ClusterNext ==
    \/ \E t \in Targets :
          \/ Observe(t) \/ ReportSuccess(t) \/ Flip(t) \/ ProbeStep(t)
          \/ \E f \in Failures : ReportFailure(t, f)
    \/ Cancel
    \/ Close

ClusterSpec == ClusterInit /\ [][ClusterNext]_clusterVars

-----------------------------------------------------------------------------
\* Every variable has its type.
ClusterTypeOK ==
    /\ \A t \in Targets :
          /\ states[t].unhealthy \in BOOLEAN
          /\ states[t].generation \in Nat
          /\ states[t].successes \in Nat
          /\ states[t].fails \in [Failures -> Nat]
          /\ prober[t].pc \in {"sleep", "acquire", "read", "probe", "release",
                               "apply", "mark", "reset", "done"}
          /\ prober[t].result \in {"none", "success", "neutral", "canceled"} \cup Failures
          /\ prober[t].expected \in Nat
    /\ status \in [Targets -> BOOLEAN]
    /\ up \in [Targets -> BOOLEAN]
    /\ flips \in 0 .. MaxFlips
    /\ late \in [Targets -> 0 .. MaxLate]
    /\ observing \in BOOLEAN
    /\ closing \in {"no", "cancelled", "closed"}

\* The health series of a target (ClusterObserver.SetHealth) always shows the
\* state the balancer selects by, whichever of a passive report and a probe
\* made the last transition: the observer is told under the same mutex.
StatusIsCurrent ==
    observing => \A t \in Targets : status[t] = ~states[t].unhealthy

\* A probe goroutine changes the health of a target only on enough results in
\* a row, all of them from probes that began after the target last changed:
\* neither a probe sent before a transition nor a count begun before one is
\* held against, or in favour of, the state that followed.
ProbesJudgeTheirGeneration ==
    [][\A t \in Targets :
          (prober[t].pc = "mark" /\ states'[t].generation # states[t].generation
           /\ prober'[t].pc # "mark")
          => IF states[t].unhealthy
             THEN streak[t].successes >= ActiveSuccesses
             ELSE \E f \in Failures : Reached(streak[t].fails[f], ActiveThreshold[f])]_clusterVars

\* The semaphore counts exactly the goroutines that are probing, so there are
\* never more probes in flight than checks.active.concurrency and no token is
\* lost on any way out of the loop; a goroutine ends only when Close asks.
ProbesBounded ==
    /\ semaphore = Cardinality({t \in Targets : prober[t].pc \in {"read", "probe", "release"}})
    /\ semaphore \in 0 .. Concurrency
    /\ \A t \in Targets : prober[t].pc = "done" => closing # "no"

\* Once Close has returned, no probe is running and none will change the
\* cluster or write a health series that the registry is about to delete.
CloseQuiesces ==
    [][closing = "closed" => UNCHANGED <<prober, status>>]_clusterVars

\* The observer, the semaphore and the balancer agree in every state.
Consistent == ClusterTypeOK /\ StatusIsCurrent /\ ProbesBounded

\* What a probe may do to the health of its target, and that nothing does
\* after Close.
ProbesHonest == ProbesJudgeTheirGeneration /\ CloseQuiesces

\* Every target that answers well is selectable, and Close is not waiting.
AtRest ==
    /\ \A t \in Targets : up[t] /\ closing = "no" => ~states[t].unhealthy
    /\ closing # "cancelled"

\* A target that stays up is selectable again in the end, as long as the
\* cluster is not closed, whatever failures were reported late and whatever
\* probes were in flight when it came back; and Cluster.Close returns: every
\* probe goroutine sees the cancellation. (Targets go down finitely often.)
Settles == <>[]AtRest

-----------------------------------------------------------------------------
(***************************************************************************)
(* The active health checks of ai-proxy-multi                              *)
(* (pkg/plugin/ai_proxy_multi/health.go): one goroutine per plugin, woken  *)
(* by requests, probes the instances that are due and publishes what it    *)
(* learned as one snapshot.  Stop ends it while requests still arrive.     *)
(***************************************************************************)

CONSTANTS
    Instances,
    Checks,       \* instance -> its thresholds and intervals, see HealthConfig
    MaxClock      \* bound: the clock

VARIABLES
    health,       \* instance -> instanceHealthState
    snapshot,     \* instance -> BOOLEAN, the published healthSnapshot
    wakeHealth,   \* the wake channel holds a token
    loop,         \* "waiting", "probing", "ended"
    probing,      \* instances of this pass whose probe is in flight
    stopper,      \* "none", "closing", "stopped"
    clients,      \* the probes' HTTP clients are there
    waking,       \* a request is past the check of stoppedHealth
    clock,
    run           \* ghost: instance -> failures and successes since the last of the other

aiVars == <<health, snapshot, wakeHealth, loop, probing, stopper, clients, waking, clock, run>>

\* applyHealthDefaults makes every threshold and interval positive.
AIHealthConfig ==
    \A i \in Instances :
        /\ Checks[i].tcp \in BOOLEAN
        /\ \A f \in {"successes", "httpFailures", "tcpFailures", "timeouts", "wellInterval", "illInterval"} :
               Checks[i][f] \in Nat \ {0}

\* initHealthStates: healthy until probes say otherwise; published at once.
AIInit ==
    /\ health = [i \in Instances |-> [healthy |-> TRUE, successes |-> 0, httpFailures |-> 0,
                                      tcpFailures |-> 0, timeouts |-> 0, nextCheck |-> 0]]
    /\ snapshot = [i \in Instances |-> TRUE]
    /\ wakeHealth = FALSE /\ waking = FALSE
    /\ loop = "waiting" /\ probing = {}
    /\ stopper = "none" /\ clients = TRUE
    /\ clock = 0
    /\ run = [i \in Instances |-> [failures |-> 0, successes |-> 0]]

-----------------------------------------------------------------------------
\* wakeHealthRefresh, of a request: dropped once stopped; the send comes after
\* the check, and a token that is there already stands for this one.
Check ==
    /\ ~waking /\ stopper = "none"
    /\ waking' = TRUE
    /\ UNCHANGED <<health, snapshot, wakeHealth, loop, probing, stopper, clients, clock, run>>

wakeHealthRefresh ==
    /\ waking
    /\ waking' = FALSE /\ wakeHealth' = TRUE
    /\ UNCHANGED <<health, snapshot, loop, probing, stopper, clients, clock, run>>

Due == {i \in Instances : clock >= health[i].nextCheck}

\* healthLoop takes a wake and refreshHealthPass starts the probes that are due.
healthLoop ==
    /\ loop = "waiting" /\ wakeHealth
    /\ wakeHealth' = FALSE
    /\ loop' = "probing" /\ probing' = Due
    /\ UNCHANGED <<health, snapshot, stopper, clients, waking, clock, run>>

\* Of a wake and a stop that are both there either may be taken.
healthLoopEnds ==
    /\ loop = "waiting" /\ stopper = "closing"
    /\ loop' = "ended"
    /\ UNCHANGED <<health, snapshot, wakeHealth, probing, stopper, clients, waking, clock, run>>

Least(a, b) == IF a < b THEN a ELSE b

\* What a failure adds to; a counter is not followed past its threshold.
Counted(i, s, kind) ==
    LET c == Checks[i] IN
    CASE kind = "timeout" -> [s EXCEPT !.timeouts = Least(@ + 1, c.timeouts)]
      [] kind = "error" \/ c.tcp -> [s EXCEPT !.tcpFailures = Least(@ + 1, c.tcpFailures)]
      [] OTHER -> [s EXCEPT !.httpFailures = Least(@ + 1, c.httpFailures)]

IllOf(i, s) ==
    LET c == Checks[i] IN
    s.httpFailures >= c.httpFailures \/ s.tcpFailures >= c.tcpFailures \/ s.timeouts >= c.timeouts

\* Mutants of Recorded: a failure leaves the successes; another kind of failure
\* starts the count again.
Recorded_KeepsSuccesses(i, result) ==
    LET s == health[i] IN
    CASE result = "well" ->
           LET n == Least(s.successes + 1, Checks[i].successes) IN
           [s EXCEPT !.successes = n, !.httpFailures = 0, !.tcpFailures = 0, !.timeouts = 0,
                     !.healthy = @ \/ n >= Checks[i].successes]
      [] result = "neutral" -> s
      [] OTHER -> LET f == Counted(i, s, result) IN [f EXCEPT !.healthy = @ /\ ~IllOf(i, f)]
Recorded_LastKind(i, result) ==
    LET s == health[i]
        o == [s EXCEPT !.httpFailures = IF result = "status" THEN @ ELSE 0,
                       !.tcpFailures = IF result = "error" THEN @ ELSE 0,
                       !.timeouts = IF result = "timeout" THEN @ ELSE 0] IN
    CASE result = "well" ->
           LET n == Least(s.successes + 1, Checks[i].successes) IN
           [s EXCEPT !.successes = n, !.httpFailures = 0, !.tcpFailures = 0, !.timeouts = 0,
                     !.healthy = @ \/ n >= Checks[i].successes]
      [] result = "neutral" -> s
      [] OTHER -> LET f == Counted(i, [o EXCEPT !.successes = 0], result) IN [f EXCEPT !.healthy = @ /\ ~IllOf(i, f)]

\* recordProbeResult, before the next check is set: a status in neither list
\* changes nothing.
AIRecorded(i, result) ==
    LET s == health[i] IN
    CASE result = "well" ->
           LET n == Least(s.successes + 1, Checks[i].successes) IN
           [s EXCEPT !.successes = n, !.httpFailures = 0, !.tcpFailures = 0, !.timeouts = 0,
                     !.healthy = @ \/ n >= Checks[i].successes]
      [] result = "neutral" -> s
      [] OTHER -> LET f == Counted(i, [s EXCEPT !.successes = 0], result) IN
                  [f EXCEPT !.healthy = @ /\ ~IllOf(i, f)]

\* The results probeInstance can have: a TCP probe has no status.
Results(i) == {"well", "error", "timeout"} \cup (IF Checks[i].tcp THEN {} ELSE {"status", "neutral"})

\* The most failures in a row an instance can have and be healthy.
Patience(i) == Checks[i].httpFailures + Checks[i].tcpFailures + Checks[i].timeouts - 3

\* probeInstance and recordProbeResult: the probes of a pass end in any order.
probeInstance(i) ==
    /\ i \in probing
    /\ probing' = probing \ {i}
    /\ \E result \in Results(i) :
         /\ LET s == AIRecorded(i, result) IN
            health' = [health EXCEPT ![i] =
                [s EXCEPT !.nextCheck = clock + (IF s.healthy THEN Checks[i].wellInterval ELSE Checks[i].illInterval)]]
         /\ run' = [run EXCEPT ![i] =
                CASE result = "well" -> [failures |-> 0, successes |-> Least(@.successes + 1, Checks[i].successes)]
                  [] result = "neutral" -> @
                  [] OTHER -> [failures |-> Least(@.failures + 1, Patience(i) + 1), successes |-> 0]]
    /\ UNCHANGED <<snapshot, wakeHealth, loop, stopper, clients, waking, clock>>

\* A mutant of publishHealthSnapshot: published while probes are in flight.
publishHealthSnapshot_Early == loop = "probing"

\* publishHealthSnapshot, once every probe of the pass is recorded.
publishHealthSnapshot == loop = "probing" /\ probing = {}

refreshHealthPass ==
    /\ publishHealthSnapshot
    /\ snapshot' = [i \in Instances |-> health[i].healthy]
    /\ loop' = "waiting"
    /\ UNCHANGED <<health, wakeHealth, probing, stopper, clients, waking, clock, run>>

-----------------------------------------------------------------------------
\* Stop sets stoppedHealth and closes stopHealth ...
Stop ==
    /\ stopper = "none"
    /\ stopper' = "closing"
    /\ UNCHANGED <<health, snapshot, wakeHealth, loop, probing, clients, waking, clock, run>>

\* A mutant of StopWaits: the loop is told and not waited for.
StopWaits_Not == stopper = "closing"

\* ... waits for healthDone, and only then takes the clients away.
StopWaits == stopper = "closing" /\ loop = "ended"

StopEnds ==
    /\ StopWaits
    /\ stopper' = "stopped" /\ clients' = FALSE
    /\ UNCHANGED <<health, snapshot, wakeHealth, loop, probing, waking, clock, run>>

Tick ==
    /\ clock < MaxClock
    /\ clock' = clock + 1
    /\ UNCHANGED <<health, snapshot, wakeHealth, loop, probing, stopper, clients, waking, run>>

AINext ==
    \/ Check \/ wakeHealthRefresh \/ healthLoop \/ healthLoopEnds \/ refreshHealthPass
    \/ Stop \/ StopEnds \/ Tick
    \/ \E i \in Instances : probeInstance(i)

\* The loop, its probes (each has a timeout), a request past its check and Stop
\* go on; requests, Stop itself and time need not come.
Fairness ==
    /\ WF_aiVars(wakeHealthRefresh) /\ WF_aiVars(healthLoop) /\ WF_aiVars(healthLoopEnds)
    /\ WF_aiVars(refreshHealthPass) /\ WF_aiVars(StopEnds)
    /\ \A i \in Instances : WF_aiVars(probeInstance(i))

AISpec == AIInit /\ [][AINext]_aiVars /\ Fairness

-----------------------------------------------------------------------------
AITypeOK ==
    /\ \A i \in Instances : health[i].healthy \in BOOLEAN /\ health[i].nextCheck \in Nat
    /\ snapshot \in [Instances -> BOOLEAN] /\ wakeHealth \in BOOLEAN /\ waking \in BOOLEAN
    /\ loop \in {"waiting", "probing", "ended"} /\ probing \subseteq Instances
    /\ stopper \in {"none", "closing", "stopped"} /\ clients \in BOOLEAN /\ clock \in 0..MaxClock

\* What requests choose by: between passes the snapshot is what the probes have
\* shown, and an instance that failed more often in a row than its thresholds
\* allow together, whatever the kinds of failure, is unhealthy.
SnapshotHonest ==
    /\ loop # "probing" => \A i \in Instances : snapshot[i] = health[i].healthy
    /\ \A i \in Instances : run[i].failures > Patience(i) => ~health[i].healthy

\* Recovery is earned: an instance becomes healthy again only with its last
\* probes, as many as required, all successful, and only a whole pass says so.
RecoveryEarned ==
    \A i \in Instances :
     /\ ~health[i].healthy /\ health'[i].healthy => run'[i].successes = Checks[i].successes
     /\ snapshot'[i] # snapshot[i] => probing = {}

\* Once Stop has returned no probe is in flight and none will start: the clients
\* it took away are not asked for again.
NoProbeAfterStop == ~clients => probing = {} /\ loop = "ended"

\* Stop returns, whatever requests still wake the loop.
StopReturns == <>[](stopper # "closing")

=============================================================================
