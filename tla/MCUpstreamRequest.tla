-------------------------- MODULE MCUpstreamRequest --------------------------
(***************************************************************************)
(* Requests to an upstream, the choice of their targets, the registry of   *)
(* upstream clusters, and a request in the plugin pipeline, each explored  *)
(* by itself: `part' names the one that runs, and the others stay in an    *)
(* initial state.                                                          *)
(***************************************************************************)
EXTENDS UpstreamRequest

CONSTANTS p1, p2, p3, p0, NoTarget, Leases

VARIABLES
    part,
    unhealthy, current, filtered, choice, window,
    entries, clusters, lease, series, mutex, closer,
    cfg, pc, panicking, exec, capture, client, hijacked, source, foreign, published, gone, body,
    stream, log, finalizers, ran, logged, outcome, lateError

selection == <<unhealthy, current, filtered, choice, window>>
registry == <<entries, clusters, lease, series, mutex, closer>>
pipeline == <<cfg, pc, panicking, exec, capture, client, hijacked, source, foreign, published, gone,
              body, stream, log, finalizers, ran, logged, outcome, lateError>>

\* Two targets of unequal weight in the front group, one behind, and one with
\* no weight.
PoolWeight == [t \in {p1, p2, p3, p0} |->
    CASE t = p1 -> 1 [] t = p2 -> 2 [] t = p3 -> 1 [] OTHER -> 0]
PoolPriority == [t \in {p1, p2, p3, p0} |-> IF t = p3 THEN 0 ELSE 1]

\* Two configurations of one upstream with a common target (an edited
\* upstream) and one of another upstream.
UpstreamConfigs == {"old", "new", "other"}
UpstreamName == [x \in UpstreamConfigs |-> IF x = "other" THEN "u2" ELSE "u1"]
UpstreamTargets == [x \in UpstreamConfigs |->
    CASE x = "old" -> {"t1", "t2"} [] x = "new" -> {"t1"} [] OTHER -> {"t2"}]

Clusters == INSTANCE UpstreamClusters WITH
    Order <- <<p1, p2, p3, p0>>, Weight <- PoolWeight, Priority <- PoolPriority,
    HealthAware <- TRUE, MaxAttempts <- 3, req <- choice,
    Configs <- UpstreamConfigs, Name <- UpstreamName, TargetsOf <- UpstreamTargets,
    MaxClusters <- 2

Pipeline == INSTANCE RequestPipeline WITH Buffers <- BOOLEAN, Logs <- BOOLEAN

ASSUME Clusters!SelectionConfig /\ Clusters!RegistryConfig /\ Pipeline!PipelineConfig

-----------------------------------------------------------------------------
MCInit ==
    /\ part \in {"request", "selection", "registry", "pipeline"}
    /\ Init /\ Clusters!SelectionInit /\ Clusters!RegistryInit /\ Pipeline!Init
    /\ part = "request" \/ \A r \in Requests : rq[r].replayable
    /\ part = "pipeline" \/ (body = "fits" /\ cfg = CHOOSE x \in Pipeline!Routes : TRUE)

MCNext ==
    /\ UNCHANGED part
    /\ \/ part = "request" /\ Next /\ UNCHANGED <<selection, registry, pipeline>>
       \/ part = "selection" /\ Clusters!SelectionNext /\ UNCHANGED <<vars, registry, pipeline>>
       \/ part = "registry" /\ Clusters!RegistryNext /\ UNCHANGED <<vars, selection, pipeline>>
       \/ part = "pipeline" /\ Pipeline!Next /\ UNCHANGED <<vars, selection, registry>>

\* Handlers and plugins run, upstreams answer or time out, and ReverseProxy
\* closes every body.
MCSpec ==
    /\ MCInit /\ [][MCNext]_<<part, vars, selection, registry, pipeline>>
    /\ \A r \in Requests : WF_vars(part = "request" /\ Step(r))
    /\ WF_pipeline(part = "pipeline" /\ Pipeline!Step)

-----------------------------------------------------------------------------
\* The healthy selectors are rebuilt for the targets that are healthy now, and a
\* full round of the smooth weighted round robin follows the weights; each
\* cluster's reference count is the number of its leases, no lease is on a
\* cluster that acquire and release have closed, and the upstream_status series
\* are those of the targets of live clusters, also when an edited upstream's
\* old and new cluster share a target.
UpstreamsRight ==
    /\ part = "selection" => Clusters!RoundsRight
    /\ part = "registry" => Clusters!LeasesHold /\ Clusters!SeriesExact

\* The client of a route gets one response, whole and in its place, however
\* plugins stop, panic, overflow the capture or hijack the connection, and the
\* log entry and every finalizer of the request run exactly once, the last
\* registered first.
PipelineRight == part = "pipeline" => Pipeline!OneResponse /\ Pipeline!FinalizedOnce

\* A request is given a healthy target while its group has one, and a retry goes
\* to a target it has not tried while there is one.
ChoicesRight == Clusters!ChoicesRight

\* Every request ends: the one to the upstream with its admission token given
\* back, the one in the pipeline with its writers closed and its finalizers run.
RequestsEnd ==
    <>[](/\ part = "request" => AllDone
         /\ part = "pipeline" => Pipeline!Ended)

=============================================================================
