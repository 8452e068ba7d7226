--------------------------- MODULE ServerLifecycle ---------------------------
(***************************************************************************)
(* Start and Shutdown of the gateway process (pkg/server/server.go,        *)
(* runServerWithSignals in cmd/root.go). Start brings up one resource      *)
(* after another and serves until its context ends; a signal, the cleanup  *)
(* of Start and the cleanup's background retry may each call shutdown, at  *)
(* any time. One shutdown attempt runs at a time; an attempt that times    *)
(* out is incomplete and is repeated by the next caller.                   *)
(*                                                                         *)
(* Deadlines are nondeterministic: a bounded caller may time out wherever  *)
(* it waits.                                                               *)
(***************************************************************************)
EXTENDS Naturals

CONSTANTS Requests    \* HTTP requests that may be in flight

Providers == {"etcd", "file"}
Callers == {"signal", "cleanup", "background"}
Bounded == {"signal", "cleanup"}
Resources == {"expiration", "store", "producer", "stream", "scheduler", "exporter"}

VARIABLES
    provider,   \* the configuration source
    start,      \* where Start is
    cancelled,  \* the context Start runs under is done
    requested,  \* shutdownRequested
    running,    \* resources in use
    producer,   \* the configProducer: "none", "retained" or "stopped"
    http,       \* net/http server: "open", "shut" or "closed"
    request,    \* where each request is: "none", "arrived" or "inside" a generation
    routes,     \* routeHandler: "open", "closing" or "closed"
    caller,     \* where each caller of shutdown is
    attempt,    \* the caller whose attempt is in progress, or "nobody"
    complete    \* shutdownComplete

vars == <<provider, start, cancelled, requested, running, producer, http, request, routes,
          caller, attempt, complete>>

startVars == <<start, producer>>
httpVars == <<http, request, routes>>
shutdownVars == <<caller, attempt, complete>>

\* The order of Start. The etcd watch starts as soon as the first fetch is
\* in; the file is watched once routes and streams are built from it.
Following(step) ==
    CASE step = "expiration" -> "store"
      [] step = "store" -> "retain"
      [] step = "retain" -> "load"
      [] step = "load" -> IF provider = "etcd" THEN "watch" ELSE "stream"
      [] step = "watch" -> IF provider = "etcd" THEN "stream" ELSE "scheduler"
      [] step = "stream" -> IF provider = "etcd" THEN "scheduler" ELSE "watch"
      [] step = "scheduler" -> "exporter"
      [] step = "exporter" -> "serve"

Startup == {"expiration", "store", "retain", "load", "watch", "stream", "scheduler", "exporter",
            "serve", "finish"}

Init ==
    /\ provider \in Providers
    /\ start = "new" /\ cancelled = FALSE /\ requested = FALSE
    /\ running = {} /\ producer = "none"
    /\ http = "open" /\ request = [r \in Requests |-> "none"] /\ routes = "open"
    /\ caller = [c \in Callers |-> "idle"] /\ attempt = "nobody" /\ complete = FALSE

-----------------------------------------------------------------------------
(* Start *)

\* beginStart
BeginStart ==
    /\ start = "new"
    /\ start' = IF requested THEN "refused" ELSE "expiration"
    /\ UNCHANGED <<provider, cancelled, requested, running, producer, httpVars, shutdownVars>>

InStartup == start \in Startup

MayFail ==
    {"expiration", "retain", "load", "stream", "exporter"}
    \cup (IF provider = "file" THEN {"watch"} ELSE {})

\* A step fails, or Start looks at its context and finds it done.
StartFails ==
    /\ start \in MayFail
    /\ start' = "finish"
    /\ running' = IF start = "exporter" THEN running \ {"stream"} ELSE running
    /\ UNCHANGED <<provider, cancelled, requested, producer, httpVars, shutdownVars>>

\* retainPrometheusExpiration, startStreamProxy, startPrometheusExportServer:
\* once a shutdown is requested the resource just started is stopped again.
Keep(r) ==
    IF requested
    THEN start' = "finish" /\ running' = IF r = "exporter" THEN running \ {"stream"} ELSE running
    ELSE running' = running \cup {r} /\ start' = Following(start)

StartResource(r) ==
    /\ start = r /\ r \in {"expiration", "stream", "exporter"}
    /\ \/ Keep(r)
       \/ running' = running /\ start' = Following(start)      \* not configured
    /\ UNCHANGED <<provider, cancelled, requested, producer, httpVars, shutdownVars>>

StartStorage ==
    /\ start = "store"
    /\ running' = running \cup {"store"}
    /\ start' = Following(start)
    /\ UNCHANGED <<provider, cancelled, requested, producer, httpVars, shutdownVars>>

\* The producer is retained without a look at shutdownRequested.
retainProducer_Unchecked ==
    /\ start = "retain"
    /\ producer' = "retained" /\ start' = Following(start)
    /\ UNCHANGED <<provider, cancelled, requested, running, httpVars, shutdownVars>>

retainProducer ==
    /\ start = "retain"
    /\ IF requested
       THEN producer' = "stopped" /\ start' = "finish"
       ELSE producer' = "retained" /\ start' = Following(start)
    /\ UNCHANGED <<provider, cancelled, requested, running, httpVars, shutdownVars>>

\* The first fetch, or the first read of the file.
LoadConfig ==
    /\ start = "load"
    /\ start' = Following(start)
    /\ UNCHANGED <<provider, cancelled, requested, running, producer, httpVars, shutdownVars>>

\* etcdConfigProducer.Start and StandaloneFileWatcher.Start
StartProducer ==
    /\ start = "watch"
    /\ running' = IF producer = "stopped" THEN running ELSE running \cup {"producer"}
    /\ start' = Following(start)
    /\ UNCHANGED <<provider, cancelled, requested, producer, httpVars, shutdownVars>>

startReloadScheduler ==
    /\ start = "scheduler"
    /\ running' = IF requested THEN running ELSE running \cup {"scheduler"}
    /\ start' = Following(start)
    /\ UNCHANGED <<provider, cancelled, requested, producer, httpVars, shutdownVars>>

\* startHTTPListeners blocks until the context is done or a listener fails;
\* in the second case the stream runtime is closed too.
StopServing ==
    /\ start = "serve"
    /\ start' = "finish"
    /\ \/ cancelled /\ running' = running
       \/ running' = running \ {"stream"}
    /\ UNCHANGED <<provider, cancelled, requested, producer, httpVars, shutdownVars>>

\* finishStart, after which the deferred cleanup begins.
finishStart ==
    /\ start = "finish"
    /\ start' = "cleanup"
    /\ caller' = [caller EXCEPT !["cleanup"] = "enter"]
    /\ UNCHANGED <<provider, cancelled, requested, running, producer, httpVars, attempt, complete>>

\* listenReloadEvent returns once its context is done.
SchedulerExits ==
    /\ "scheduler" \in running /\ cancelled
    /\ running' = running \ {"scheduler"}
    /\ UNCHANGED <<provider, cancelled, requested, startVars, httpVars, shutdownVars>>

-----------------------------------------------------------------------------
(* Requests *)

Arrive(r) ==
    /\ start = "serve" /\ http = "open" /\ request[r] = "none"
    /\ request' = [request EXCEPT ![r] = "arrived"]
    /\ UNCHANGED <<provider, startVars, cancelled, requested, running, http, routes, shutdownVars>>

\* routeHandler.ServeHTTP: a closed handler has no generation to acquire.
EnterRoutes(r) ==
    /\ request[r] = "arrived"
    /\ request' = [request EXCEPT ![r] = IF routes = "open" THEN "inside" ELSE "none"]
    /\ UNCHANGED <<provider, startVars, cancelled, requested, running, http, routes, shutdownVars>>

Leave(r) ==
    /\ request[r] = "inside"
    /\ request' = [request EXCEPT ![r] = "none"]
    /\ UNCHANGED <<provider, startVars, cancelled, requested, running, http, routes, shutdownVars>>

-----------------------------------------------------------------------------
(* Shutdown *)

To(c, pc) == caller' = [caller EXCEPT ![c] = pc]

\* runServerWithSignals receives a signal.
Signal ==
    /\ caller["signal"] = "idle"
    /\ To("signal", "enter")
    /\ UNCHANGED <<provider, startVars, cancelled, requested, running, httpVars, attempt, complete>>

\* The loop of shutdown: the result of a complete shutdown is returned, an
\* attempt in progress is waited for, and otherwise this caller attempts.
Enter(c) ==
    /\ caller[c] = "enter"
    /\ \/ complete /\ To(c, "returned") /\ attempt' = attempt
       \/ ~complete /\ attempt = "nobody" /\ To(c, "http") /\ attempt' = c
    /\ UNCHANGED <<provider, startVars, cancelled, requested, running, httpVars, complete>>

HttpShutdown(c) ==
    /\ caller[c] = "http"
    /\ http' = IF http = "open" THEN "shut" ELSE http
    /\ To(c, "drain")
    /\ UNCHANGED <<provider, startVars, cancelled, requested, running, request, routes, attempt, complete>>

\* net/http waits for its connections, which after Close it no longer has.
Drained == http = "closed" \/ \A r \in Requests : request[r] = "none"

HttpDrained(c) ==
    /\ caller[c] = "drain" /\ Drained
    /\ To(c, "expiration")
    /\ UNCHANGED <<provider, startVars, cancelled, requested, running, httpVars, attempt, complete>>

stopPrometheusExpirationRuntime(c) ==
    /\ caller[c] = "expiration"
    /\ requested' = TRUE
    /\ running' = running \ {"expiration"}
    /\ To(c, "producer")
    /\ UNCHANGED <<provider, startVars, cancelled, httpVars, attempt, complete>>

\* lifecycleResourcesForShutdown, producer.Stop and the cancel of the context.
StopProducer ==
    /\ requested' = TRUE /\ cancelled' = TRUE
    /\ producer' = IF producer = "none" THEN producer ELSE "stopped"

stopProducerAndScheduler(c) ==
    /\ caller[c] = "producer"
    /\ StopProducer
    /\ running' = running \ {"producer"}
    /\ To(c, "startup")
    /\ UNCHANGED <<provider, start, httpVars, attempt, complete>>

\* startupDone is closed, or there never was one.
StartupOver == ~InStartup

\* The two waits of waitForLifecycle.
AwaitLifecycle(c) ==
    /\ \/ caller[c] = "startup" /\ StartupOver /\ To(c, "scheduler")
       \/ caller[c] = "scheduler" /\ "scheduler" \notin running /\ To(c, "stream")
    /\ UNCHANGED <<provider, startVars, cancelled, requested, running, httpVars, attempt, complete>>

CloseStream(c) ==
    /\ caller[c] = "stream"
    /\ running' = running \ {"stream"}
    /\ To(c, "routes")
    /\ UNCHANGED <<provider, startVars, cancelled, requested, httpVars, attempt, complete>>

\* routes.Close refuses new requests, then waits for those inside.
CloseRoutes(c) ==
    /\ \/ caller[c] = "routes" /\ routes' = "closing" /\ To(c, "handlers")
       \/ /\ caller[c] = "handlers" /\ \A r \in Requests : request[r] # "inside"
          /\ routes' = "closed" /\ To(c, "store")
    /\ UNCHANGED <<provider, startVars, cancelled, requested, running, http, request, attempt, complete>>

\* clusters.Close and storage.Stop
StopStorage(c) ==
    /\ caller[c] = "store"
    /\ running' = running \ {"store"}
    /\ To(c, "exporter")
    /\ UNCHANGED <<provider, startVars, cancelled, requested, httpVars, attempt, complete>>

\* The exporter and tracing stop, and the attempt is complete whatever errors
\* it collected on the way.
FinishAttempt(c) ==
    /\ caller[c] = "exporter"
    /\ running' = running \ {"exporter"}
    /\ \E result \in {"returned", "failed"} : To(c, result)
    /\ attempt' = "nobody" /\ complete' = TRUE
    /\ UNCHANGED <<provider, startVars, cancelled, requested, httpVars>>

\* A bounded caller's context ends while it waits. Its attempt, if it has
\* one, is incomplete.
TimeOut(c) ==
    /\ c \in Bounded
    /\ \/ caller[c] = "enter" /\ attempt # "nobody"
       \/ caller[c] = "drain" /\ ~Drained
       \/ caller[c] = "expiration" /\ "expiration" \in running
       \/ caller[c] \in {"startup", "scheduler"} /\ start \notin {"new", "refused"}
    /\ To(c, "failed")
    /\ attempt' = IF attempt = c THEN "nobody" ELSE attempt
    /\ requested' = (requested \/ caller[c] = "expiration")
    /\ UNCHANGED <<provider, startVars, cancelled, running, httpVars, complete>>

\* runServerWithSignals cancels its context once Shutdown returned.
SignalReturns ==
    /\ caller["signal"] \in {"returned", "failed"}
    /\ To("signal", "done")
    /\ cancelled' = TRUE
    /\ UNCHANGED <<provider, startVars, requested, running, httpVars, attempt, complete>>

CleanupReturns ==
    /\ caller["cleanup"] = "returned"
    /\ To("cleanup", "done") /\ start' = "done"
    /\ UNCHANGED <<provider, producer, cancelled, requested, running, httpVars, attempt, complete>>

\* The rest of cleanupAfterStart after a failed shutdown, with no retry left
\* behind.
CleanupFallback_NoRetry ==
    /\ caller["cleanup"] = "failed"
    /\ StopProducer
    /\ running' = running \ {"producer"}
    /\ http' = "closed"
    /\ caller' = [caller EXCEPT !["cleanup"] = "done"]
    /\ start' = "done"
    /\ UNCHANGED <<provider, request, routes, attempt, complete>>

\* The rest of cleanupAfterStart after a failed shutdown: producers stop,
\* listeners and connections are closed, and shutdown is retried without a
\* deadline in the background.
CleanupFallback ==
    /\ caller["cleanup"] = "failed"
    /\ StopProducer
    /\ running' = running \ {"producer"}
    /\ http' = "closed"
    /\ caller' = [caller EXCEPT !["cleanup"] = "done", !["background"] = "enter"]
    /\ start' = "done"
    /\ UNCHANGED <<provider, request, routes, attempt, complete>>

-----------------------------------------------------------------------------
StartStep ==
    \/ BeginStart \/ StartStorage \/ retainProducer \/ LoadConfig \/ StartProducer
    \/ startReloadScheduler \/ finishStart
    \/ \E r \in Resources : StartResource(r)

RequestStep(r) == EnterRoutes(r) \/ Leave(r)

CallerStep(c) ==
    \/ Enter(c) \/ HttpShutdown(c) \/ HttpDrained(c) \/ stopPrometheusExpirationRuntime(c)
    \/ stopProducerAndScheduler(c) \/ AwaitLifecycle(c) \/ CloseStream(c) \/ CloseRoutes(c)
    \/ StopStorage(c) \/ FinishAttempt(c)

CleanupStep == SignalReturns \/ CleanupReturns \/ CleanupFallback

Next ==
    \/ StartStep \/ StartFails \/ StopServing \/ SchedulerExits
    \/ \E r \in Requests : Arrive(r) \/ RequestStep(r)
    \/ Signal \/ CleanupStep
    \/ \E c \in Callers : CallerStep(c) \/ TimeOut(c)

Spec == Init /\ [][Next]_vars

-----------------------------------------------------------------------------
Resting == {"idle", "enter", "returned", "failed", "done"}
Attempting == {"http", "drain", "expiration", "producer", "startup", "scheduler", "stream",
               "routes", "handlers", "store", "exporter"}

\* Every variable has its type.
TypeOK ==
    /\ provider \in Providers /\ running \subseteq Resources
    /\ start \in Startup \cup {"new", "refused", "cleanup", "done"}
    /\ producer \in {"none", "retained", "stopped"}
    /\ http \in {"open", "shut", "closed"} /\ routes \in {"open", "closing", "closed"}
    /\ request \in [Requests -> {"none", "arrived", "inside"}]
    /\ caller \in [Callers -> Attempting \cup Resting]
    /\ attempt \in Callers \cup {"nobody"}
    /\ {cancelled, requested, complete} \subseteq BOOLEAN

\* The store is stopped only when nothing can use it any more: no request is
\* inside a route generation, Start is not building on it, and neither the
\* producer nor the reload scheduler runs. This holds although net/http
\* forgets its handlers when it is closed, and attempts time out half-way.
StoreOutlivesUsers ==
    "store" \in running
    \/ /\ \A r \in Requests : request[r] # "inside"
       /\ ~InStartup \/ start \in {"expiration", "store"} \/ (start = "finish" /\ producer = "none")
       /\ running \cap {"producer", "scheduler", "stream"} = {}

\* A shutdown reported complete has released everything, and a Start that
\* comes later or is still on its way brings nothing back.
CompleteIsFinal ==
    complete => running = {} /\ ~InStartup /\ routes = "closed" /\ attempt = "nobody"

\* The shutdown steps belong to one caller at a time.
OneAttempt ==
    \A c \in Callers :
        caller[c] \in Attempting <=> attempt = c

\* Nothing is released under its users, and complete means complete.
ReleaseRight == TypeOK /\ StoreOutlivesUsers /\ CompleteIsFinal /\ OneAttempt

\* Neither Start's end nor a signal is still being worked on, and after either
\* of them everything is released.
AllReleased ==
    /\ start # "finish"
    /\ caller["signal"] \in {"idle", "done"}
    /\ start = "done" \/ caller["signal"] # "idle" => complete

\* Once Start is over, or a signal arrived, everything is released in the end,
\* whichever attempts time out, provided requests leave their handlers; and
\* Start and the signal's caller return. (Each happens once, so all of this is
\* over at some point.)
EverythingReleased == <>[]AllReleased

=============================================================================
