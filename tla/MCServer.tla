------------------------------ MODULE MCServer ------------------------------
(***************************************************************************)
(* The process around the HTTP data path, and its background goroutines,   *)
(* each explored by itself: `part' names the one that runs, and the others *)
(* stay in their initial states.                                           *)
(***************************************************************************)
EXTENDS ServerLifecycle, StandaloneConfig, Sequences

CONSTANTS t1, t2, t3, w1, w2

VARIABLES
    part,
    pc, halted, tried, remaining, dials, sent, eof, delivered, copying, results, half, closed,
    buffer, batches, ready, active, worker, count, flushTimer, stopped, shut, pushed, sink,
    states, status, observing, prober, semaphore, closing, up, flips, late, streak,
    timer, launched, cutting, io, owner, gone, overtaken,
    health, snapshot, wakeHealth, loop, probing, stopper, clients, waking, clock, run

stream == <<pc, halted, tried, remaining, dials, sent, eof, delivered, copying, results, half, closed>>
logger == <<buffer, batches, ready, active, worker, count, flushTimer, stopped, shut, pushed, sink>>
checker == <<states, status, observing, prober, semaphore, closing, up, flips, late, streak>>
timeout == <<timer, launched, cutting, io, owner, gone, overtaken>>
probes == <<health, snapshot, wakeHealth, loop, probing, stopper, clients, waking, clock, run>>

\* Two targets of high priority and one of low, and enough retries for a
\* second round; a duplex body.
Sides == {"read", "write"}
Peers == INSTANCE PeerConnections WITH
    Groups <- <<{t1, t2}, {t3}>>, Retries <- 3, MaxUnits <- 1, cancelled <- halted,
    MaxTransfers <- 1, closing <- cutting, late <- overtaken

\* More entries than two batches hold, and than may be pending.
Workers == {w1, w2}
Logger == INSTANCE LoggerBatch WITH
    BatchMaxSize <- 2, MaxPending <- 2, MaxRetryCount <- 1, MaxEntries <- 3, timer <- flushTimer

\* Two targets share one probe token; one of them goes down and comes back. Of
\* the instances of ai-proxy-multi, one is probed over HTTP and one over TCP.
Instances == {1, 2}
Checks == [i \in Instances |->
    [tcp |-> i = 2, successes |-> 2, httpFailures |-> 2, tcpFailures |-> 1 + (i % 2),
     timeouts |-> 2, wellInterval |-> 1, illInterval |-> 2]]
Health == INSTANCE HealthChecks WITH
    Targets <- {t1, t2}, HealthySuccesses <- 1, HTTPFailures <- 0, TCPFailures <- 1, Timeouts <- 0,
    ActiveSuccesses <- 2, ActiveHTTPFails <- 0, ActiveTCPFails <- 1, ActiveTimeouts <- 0,
    Concurrency <- 1, Unreliable <- {t1}, MaxFlips <- 2, MaxLate <- 1, MaxCount <- 0, MaxClock <- 4

ASSUME StandaloneConfigOK /\ Peers!StreamConfigOK /\ Logger!BatchConfig
       /\ Health!HealthConfig /\ Peers!SidesConfig /\ Health!AIHealthConfig

-----------------------------------------------------------------------------
MCInit ==
    /\ part \in {"lifecycle", "standalone", "stream", "logger", "checker", "timeout", "probes"}
    /\ Init /\ StandaloneInit /\ Peers!BridgeInit /\ Logger!Init /\ Health!ClusterInit /\ Peers!TimeoutInit /\ Health!AIInit
    /\ part = "lifecycle" \/ provider = "etcd"
    /\ part = "standalone" \/ \A k \in DOMAIN file : file[k] = "v0"

MCNext ==
    /\ UNCHANGED part
    /\ \/ part = "lifecycle" /\ Next
          /\ UNCHANGED <<standaloneVars, stream, logger, checker, timeout, probes>>
       \/ part = "standalone" /\ StandaloneNext
          /\ UNCHANGED <<vars, stream, logger, checker, timeout, probes>>
       \/ part = "stream" /\ Peers!BridgeNext
          /\ UNCHANGED <<vars, standaloneVars, logger, checker, timeout, probes>>
       \/ part = "logger" /\ Logger!Next
          /\ UNCHANGED <<vars, standaloneVars, stream, checker, timeout, probes>>
       \/ part = "checker" /\ Health!ClusterNext
          /\ UNCHANGED <<vars, standaloneVars, stream, logger, timeout, probes>>
       \/ part = "timeout" /\ Peers!TimeoutNext
          /\ UNCHANGED <<vars, standaloneVars, stream, logger, checker, probes>>
       \/ part = "probes" /\ Health!AINext
          /\ UNCHANGED <<vars, standaloneVars, stream, logger, checker, timeout>>

\* Goroutines run: Start, the callers of shutdown, the copying goroutines and
\* the dialling loop take the steps they can, and handlers leave. Signals,
\* failures, deadlines and peers are under no obligation.
ServerFairness ==
    /\ WF_vars(part = "lifecycle" /\ StartStep)
    /\ WF_vars(part = "lifecycle" /\ StopServing /\ cancelled)
    /\ WF_vars(part = "lifecycle" /\ SchedulerExits)
    /\ WF_vars(part = "lifecycle" /\ CleanupStep)
    /\ \A r \in Requests : WF_vars(part = "lifecycle" /\ RequestStep(r))
    /\ \A p \in Callers : WF_vars(part = "lifecycle" /\ CallerStep(p))
    /\ WF_stream(part = "stream" /\ Peers!Serve)
    /\ \A d \in Peers!Directions : WF_stream(part = "stream" /\ Peers!CopyStep(d))

\* The batch processor: timers fire and goroutines run; every delivery returns
\* after its timeout. Whether Stop's deadline comes is left open.
LoggerFairness ==
    /\ WF_logger(part = "logger" /\ Logger!TimerExpires)
    /\ WF_logger(part = "logger" /\ \E g \in flushTimer.expired : Logger!OnTimer(g))
    /\ \A w \in Workers : WF_logger(part = "logger" /\ Logger!Work(w))
                          /\ WF_logger(part = "logger" /\ Logger!Delivers(w))
    /\ WF_logger(part = "logger" /\ Logger!WorkersDone) /\ WF_logger(part = "logger" /\ Logger!StopReturns)
    /\ WF_logger(part = "logger" /\ Logger!Cleanup)

\* The health checker: timers fire, a probe ends (its request has a timeout), a
\* goroutine blocked on the semaphore channel is served in turn, and a target
\* that answers well does not answer neutrally for ever.
CheckerFairness ==
    /\ \A t \in {t1, t2} :
          /\ WF_checker(part = "checker" /\ Health!ProbeStep(t))
          /\ SF_checker(part = "checker" /\ Health!Acquire(t))
          /\ SF_checker(part = "checker" /\ Health!Probe(t, "success"))
          /\ WF_checker(part = "checker" /\ \E f \in Health!Failures : Health!ReportFailure(t, f))
    /\ WF_checker(part = "checker" /\ Health!Close)

\* A timed body: time passes, goroutines run, a closed connection returns, and
\* ReverseProxy closes the body when a side has ended. The upstream owes nothing.
TimeoutFairness ==
    /\ \A s \in Sides :
          /\ WF_timeout(part = "timeout" /\ Peers!Goroutine(s))
          /\ WF_timeout(part = "timeout" /\ Peers!Fire(s))
          /\ WF_timeout(part = "timeout" /\ Peers!Expiry(s))
          /\ WF_timeout(part = "timeout" /\ gone # "nobody" /\ Peers!Returns(s, FALSE, TRUE))
    /\ WF_timeout(part = "timeout" /\ (\E s \in Sides : io[s].pc = "ended") /\ Peers!OwnerStops)
    /\ WF_timeout(part = "timeout" /\ (Peers!OwnerStopsWrite \/ Peers!OwnerCloses))

\* The AI instances' checker: its loop and its probes run; requests may come.
ProbesFairness ==
    /\ WF_probes(part = "probes" /\ Health!wakeHealthRefresh)
    /\ WF_probes(part = "probes" /\ Health!healthLoop) /\ WF_probes(part = "probes" /\ Health!healthLoopEnds)
    /\ WF_probes(part = "probes" /\ Health!refreshHealthPass) /\ WF_probes(part = "probes" /\ Health!StopEnds)
    /\ \A i \in Instances : WF_probes(part = "probes" /\ Health!probeInstance(i))

MCSpec ==
    /\ MCInit /\ [][MCNext]_<<part, vars, standaloneVars, stream, logger, checker, timeout, probes>>
    /\ ServerFairness /\ LoggerFairness /\ CheckerFairness /\ TimeoutFairness /\ ProbesFairness

-----------------------------------------------------------------------------
\* A stream connection dials its targets by priority and within its retries,
\* half-closes a direction only after everything sent in it, and leaves
\* neither connection nor copying goroutine behind (dial, Pump).
BridgeRight == part = "stream" => Peers!BridgeRight

\* The batch processor counts every entry exactly once and confirms none twice;
\* Stop leaves nothing queued, and nothing is released under a delivery.
LoggerRight == part = "logger" => Logger!EntriesRight /\ Logger!StopRight

\* The health a target is given, its series, its recovery probes and the probe
\* semaphore agree at every step of the checker; a read or write that the
\* progress timer cuts off reports the timeout, not the error of the connection
\* closed under it; and what requests choose an AI instance by is what its
\* probes have shown, none of them in flight once Stop has returned.
ChecksRight ==
    /\ part = "checker" => Health!Consistent
    /\ part = "timeout" => Peers!Reported
    /\ part = "probes" => Health!AITypeOK /\ Health!SnapshotHonest /\ Health!NoProbeAfterStop

\* A probe of an upstream target judges only the generation it began in, and
\* none is left after Close; a timer that fires for an epoch that is over closes
\* nothing; an AI instance recovers only with as many successes as required.
ChecksEarned ==
    /\ Health!ProbesHonest
    /\ Peers!LateTimersHarmless
    /\ [][part = "probes" => Health!RecoveryEarned]_probes

\* Everything that is stopped or closed comes to its end: the process releases
\* all it started, streams drain, the batch processor becomes empty, targets
\* that answer well become healthy again, Close of a cluster returns although
\* probes wait for the semaphore, a silent peer ends the call that waits for
\* it, and Stop of the AI checker returns.
ProcessSettles ==
    <>[](/\ part = "lifecycle" => AllReleased
         /\ part = "stream" => Peers!Drained
         /\ part = "logger" => Logger!Quiet
         /\ part = "checker" => Health!AtRest
         /\ part = "timeout" => Peers!NoneBlocked
         /\ part = "probes" => stopper # "closing")

=============================================================================
