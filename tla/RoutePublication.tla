-------------------------- MODULE RoutePublication ---------------------------
(***************************************************************************)
(* What the server makes of the store: a generation of HTTP routes, built and *)
(* published or refused, and the table of stream routes. Two state machines, *)
(* each with its own variables.                                            *)
(***************************************************************************)
EXTENDS Naturals, Sequences, FiniteSets, SequencesExt

-----------------------------------------------------------------------------
(***************************************************************************)
(* How a configuration becomes a published route generation: the store's   *)
(* acknowledged hook asks the server for a publication, the server builds  *)
(* with a fresh Builder (pkg/route/builder.go) and the Builder initializes *)
(* plugins, acquires clusters and registers routes, rolling back whatever  *)
(* a broken route left behind.  The build of one generation is sequential  *)
(* and runs on the store's goroutine, so it is one action; what interleaves *)
(* with it is the draining of earlier generations (whose Builder.Stop runs *)
(* when their last request ends, see RouteGeneration) and the delivery of  *)
(* error-log entries to the observer the generations replace.              *)
(*                                                                         *)
(* Everything with a Stop method that a build creates (a plugin, a cluster *)
(* lease) is an instance, numbered in creation order; a build is a record: *)
(*   stops    per instance, how often Stop ran        (history)            *)
(*   stoppers b.stoppers           services  b.servicePlugins              *)
(*   claims   the public-API registry (owner -> identity, who registered)  *)
(*   mux      the registered routes and, for each, the bindings it runs    *)
(*   skipped  b.snapshotQuarantineCount                                    *)
(* A plugin configuration ("source") is abstracted to what the builder     *)
(* does with it: [name, outcome, owns, leases, claim, weak], where outcome *)
(* says how far its initialization gets.                                   *)
(***************************************************************************)

CONSTANTS Snapshots,      \* the configurations the store may commit
          Strict,         \* whether the http-data-plane/v1 profile is active
          MaxGeneration,  \* bound: committed configurations
          MaxEvents,      \* bound: HTTP events of one acknowledged batch
          MaxEntries      \* bound: error-log entries

VARIABLES store,      \* [snapshot, generation]: the store's committed configuration
          queue,      \* events of the batch whose hooks have still to run
          answers,    \* what the hooks of this batch returned        (history)
          published,  \* httpPublicationAttempted / Generation / Err
          current,    \* the generation requests are routed by
          retired,    \* replaced generations that have not drained
          ended,      \* the last build that was stopped              (history)
          builds,     \* number of builds started for this generation (history)
          observer,   \* the registered error-log observer
          pending,    \* callbacks copied by notifyObservers, not yet called
          lost,       \* entries pushed to an instance already stopped(history)
          closing     \* the server context is cancelled

buildVars == <<store, queue, answers, published, current, retired, ended, builds,
          observer, pending, lost, closing>>

-----------------------------------------------------------------------------
(* Plugin sources and what the configuration resolves to *)

Names(ps) == {ps[i].name : i \in 1..Len(ps)}
Without(ps, names) == SelectSeq(ps, LAMBDA p : p.name \notin names)

\* route plugins, then those of the plugin_config, then the service's, each
\* name once; the service's kafka-logger is kept apart, to be shared
LocalSources(r, pc, sv) ==
    LET upper == r.plugins \o Without(pc, Names(r.plugins))
    IN  upper \o Without(sv, Names(upper) \cup {"kafka-logger"})
ServiceSources(r, pc, sv) ==
    SelectSeq(sv, LAMBDA p : p.name = "kafka-logger" /\ p.name \notin Names(r.plugins \o pc))

\* a plugin that two global rules configure runs in neither
Duplicated(rules) ==
    UNION {Names(rules[i]) \cap Names(rules[j]) :
           <<i, j>> \in {p \in (1..Len(rules)) \X (1..Len(rules)) : p[1] < p[2]}}
deduplicateGlobalRules_FirstWins(rules) ==
    [i \in 1..Len(rules) |-> Without(rules[i], UNION {Names(rules[j]) : j \in 1..(i - 1)})]
deduplicateGlobalRules(rules) ==
    [i \in 1..Len(rules) |-> Without(rules[i], Duplicated(rules))]

validateHTTPDataPlanePluginPolicy(ps) ==
    Strict => \A i \in 1..Len(ps) : ps[i].weak => ps[i].outcome = "disabled"
validatePluginConfigSource(s, ps) == Names(ps) \subseteq s.enabled

\* inline route, route upstream_id, inline service, service upstream_id
resolveRouteUpstream(s, r, sv) ==
    CASE r.inline # "none"    -> r.inline
      [] r.upstream # 0       -> s.upstreams[r.upstream]
      [] sv.inline # "none"   -> sv.inline
      [] sv.upstream # 0      -> s.upstreams[sv.upstream]
      [] OTHER                -> "empty"

validateHTTPDataPlaneUpstreamPolicy(up) == Strict => up # "insecure"
\* scheme, type, pass_host and every node checked before anything is acquired
UpstreamBuildable(up) == up \in {"nodes", "insecure", "empty"}
Leases(up) == up \in {"nodes", "insecure"}

-----------------------------------------------------------------------------
(* The Builder *)

NewBuilder(n) ==
    [number |-> n, generation |-> 0, stops |-> <<>>, stoppers |-> <<>>,
     services |-> {}, claims |-> {}, mux |-> <<>>, missing |-> {},
     skipped |-> 0, watch |-> 0, failed |-> "no"]

Instance(b) == [b EXCEPT !.stops = Append(@, 0)]
Newest(b) == Len(b.stops)
addStopper(b, i) == [b EXCEPT !.stoppers = Append(@, i)]
\* Stop of every instance of the sequence is, in order
StopAll(b, is) ==
    [b EXCEPT !.stops = [i \in DOMAIN @ |-> @[i] + Cardinality({k \in 1..Len(is) : is[k] = i})]]

\* a traffic-split cluster lease goes straight to the builder's stoppers
Acquire(b) == LET m == Instance(b) IN addStopper(m, Newest(m))

\* wolf-rbac: two configurations of one generation may not both own the APIs
ClaimOwner(b, p, who) ==
    IF p.claim = "none" THEN [b |-> b, ok |-> TRUE]
    ELSE IF \E c \in b.claims : c.owner = p.name /\ c.identity # p.claim
         THEN [b |-> b, ok |-> FALSE]
         ELSE [b  |-> [b EXCEPT !.claims = @ \cup {[owner |-> p.name, identity |-> p.claim, by |-> who]}],
               ok |-> TRUE]

\* PostInit: leases and claims are made before it can fail
PostInit(b, p, who) ==
    LET c == ClaimOwner(IF p.leases THEN Acquire(b) ELSE b, p, who)
    IN  [b |-> c.b, end |-> IF p.outcome = "panics" THEN "panic"
                            ELSE IF c.ok /\ p.outcome \in {"ready", "unbound"} THEN "no" ELSE "error"]

\* One source.  acc.queue is pendingStoppers: a plugin that owns secrets is
\* queued before PostInit, any other after it succeeded.
InitSource(acc, p, who) ==
    IF acc.failed # "no" \/ p.outcome = "disabled" THEN acc
    ELSE IF p.outcome = "refused" THEN [acc EXCEPT !.failed = "error"]
    ELSE LET early == IF p.owns THEN Instance(acc.b) ELSE acc.b
             post  == PostInit(early, p, who)
             late  == IF ~p.owns /\ post.end = "no" THEN Instance(post.b) ELSE post.b
             i     == IF p.owns THEN Newest(early) ELSE Newest(late)
             queued == p.owns \/ post.end = "no"
         IN  [b        |-> late,
              queue    |-> IF queued THEN Append(acc.queue, i) ELSE acc.queue,
              bindings |-> IF queued THEN acc.bindings \cup {[name |-> p.name, config |-> p.config, instance |-> i]}
                                     ELSE acc.bindings,
              failed   |-> IF post.end = "no" /\ p.outcome = "unbound" THEN "error" ELSE post.end]

\* f(x), with x computed once
With(x, f(_)) == CHOOSE y \in {f(v) : v \in {x}} : TRUE

Nothing(b) == [b |-> b, bindings |-> {}, failed |-> "no"]
Committed(acc) ==
    [b |-> [acc.b EXCEPT !.stoppers = @ \o acc.queue], bindings |-> acc.bindings, failed |-> "no"]
InitSources(b, ps, who) ==
    FoldLeft(LAMBDA a, p : InitSource(a, p, who), [b |-> b, queue |-> <<>>, bindings |-> {}, failed |-> "no"], ps)
initPluginBindingsStrict_KeepsPending(b, ps, who) ==
    With(InitSources(b, ps, who), LAMBDA acc :
        IF acc.failed = "no" THEN Committed(acc)
        ELSE [b |-> acc.b, bindings |-> {}, failed |-> acc.failed])
\* all sources or none: what was queued is stopped backwards on any failure
initPluginBindingsStrict(b, ps, who) ==
    With(InitSources(b, ps, who), LAMBDA acc :
        IF acc.failed = "no" THEN Committed(acc)
        ELSE [b |-> StopAll(acc.b, Reverse(acc.queue)), bindings |-> {}, failed |-> acc.failed])

\* the service's kafka-logger, one instance per (service, configuration)
initServicePluginBindingsStrict(b, ps, service, who) ==
    IF ps = <<>> THEN Nothing(b)
    ELSE LET known == {e \in b.services : e.service = service /\ e.config = ps[1].config}
             fresh == initPluginBindingsStrict(b, ps, who)
         IN  IF known # {}
             THEN [b |-> b, failed |-> "no",
                   bindings |-> {[name |-> ps[1].name, config |-> ps[1].config, instance |-> e.instance] : e \in known}]
             ELSE IF fresh.failed # "no" THEN fresh
             ELSE [fresh EXCEPT !.b.services = @ \cup
                     {[service |-> service, config |-> x.config, instance |-> x.instance] : x \in fresh.bindings}]

initGlobalPluginBindingsStrict(b, s, who) ==
    LET rules == deduplicateGlobalRules(s.rules)
        step(acc, rule) ==
            IF acc.failed # "no" THEN acc
            ELSE IF ~validatePluginConfigSource(s, rule) THEN [acc EXCEPT !.failed = "error"]
            ELSE LET r == initPluginBindingsStrict(acc.b, rule, who)
                 IN  [r EXCEPT !.bindings = @ \cup acc.bindings]
    IN  FoldLeft(step, Nothing(b), rules)

\* buildReverseHandlerWithTerminals: the cluster lease is the last thing taken
buildReverseHandler(b, up) ==
    IF ~UpstreamBuildable(up) THEN [Nothing(b) EXCEPT !.failed = "error"]
    ELSE IF Leases(up) THEN Nothing(Acquire(b)) ELSE Nothing(b)

\* a step that runs only if the ones before it succeeded
After(acc, step(_)) ==
    IF acc.failed # "no" THEN acc
    ELSE LET r == step(acc.b) IN [r EXCEPT !.bindings = @ \cup acc.bindings]
Check(b, ok) == [Nothing(b) EXCEPT !.failed = IF ok THEN "no" ELSE "error"]

\* materializeRouteStrict and buildHandlerWithServiceStrict, in their order
Stages == <<"sources", "plugins", "shared", "policy", "rules", "upstream", "proxy", "plan">>
materializeRouteStrict(b, s, r) ==
    LET sv == s.services[r.service]
        pc == s.configs[r.config]
        known == r.service \in DOMAIN s.services /\ r.config \in DOMAIN s.configs
        local == LocalSources(r, pc, sv.plugins)
        shared == ServiceSources(r, pc, sv.plugins)
        up == resolveRouteUpstream(s, r, sv)
        stage(k, x) ==
            CASE k = "sources"  -> Check(x, /\ validatePluginConfigSource(s, pc \o sv.plugins \o r.plugins)
                                            /\ validateHTTPDataPlanePluginPolicy(local \o shared))
              [] k = "plugins"  -> initPluginBindingsStrict(x, local, r.id)
              [] k = "shared"   -> initServicePluginBindingsStrict(x, shared, r.service, r.id)
              [] k = "policy"   -> Check(x, \A i \in 1..Len(s.rules) :
                                             validateHTTPDataPlanePluginPolicy(deduplicateGlobalRules(s.rules)[i]))
              [] k = "rules"    -> initGlobalPluginBindingsStrict(x, s, r.id)
              [] k = "upstream" -> Check(x, up # "missing" /\ validateHTTPDataPlaneUpstreamPolicy(up))
              [] k = "proxy"    -> buildReverseHandler(x, up)
              [] k = "plan"     -> Check(x, r.plan)
    IN  IF ~r.sound \/ ~known THEN Check(b, FALSE)
        ELSE FoldLeft(LAMBDA acc, k : After(acc, LAMBDA x : stage(k, x)), Nothing(b), Stages)

rollbackRouteBuild_KeepsServices(b, point) ==
    [StopAll(b, Reverse(SubSeq(b.stoppers, Len(point.stoppers) + 1, Len(b.stoppers))))
       EXCEPT !.claims = point.claims, !.stoppers = point.stoppers]
rollbackRouteBuild_KeepsClaims(b, point) ==
    [StopAll(b, Reverse(SubSeq(b.stoppers, Len(point.stoppers) + 1, Len(b.stoppers))))
       EXCEPT !.services = point.services, !.stoppers = point.stoppers]
\* back to the checkpoint: registry, shared plugins, and the stoppers added since
rollbackRouteBuild(b, point) ==
    [StopAll(b, Reverse(SubSeq(b.stoppers, Len(point.stoppers) + 1, Len(b.stoppers))))
       EXCEPT !.claims = point.claims, !.services = point.services, !.stoppers = point.stoppers]

\* one route of the build; a panic is not the route's alone, it ends the build
BuildRoute(b, s, r) ==
    IF b.failed # "no" \/ r.disabled THEN b
    ELSE With(IF r.uris THEN materializeRouteStrict(b, s, r) ELSE Check(b, FALSE), LAMBDA m :
            CASE m.failed = "no"    -> [m.b EXCEPT !.mux = Append(@, [id |-> r.id, bindings |-> m.bindings])]
              [] m.failed = "error" -> [rollbackRouteBuild(m.b, b) EXCEPT !.skipped = @ + 1]
              [] m.failed = "panic" -> [m.b EXCEPT !.failed = "panic"])

buildGlobalNotFoundHandler(b, s) ==
    IF b.failed # "no" THEN b
    ELSE IF \E i \in 1..Len(s.rules) : ~validateHTTPDataPlanePluginPolicy(deduplicateGlobalRules(s.rules)[i])
    THEN [b EXCEPT !.failed = "error"]
    ELSE LET g == initGlobalPluginBindingsStrict(b, s, 0)
         IN  [g.b EXCEPT !.failed = g.failed, !.missing = g.bindings]

\* The metadata the observer is started with.  The variable passed on is the
\* outer one, which the condition's own `metadata` shadows: it is never set.
ObserverConfig(s) == "unset"
observing(s) == "error-log-logger" \in s.enabled /\ s.metadata # "none"
startGlobalErrorLogObserver(b) ==
    LET m == addStopper(Instance(b), Newest(b) + 1) IN [m EXCEPT !.watch = Newest(m)]

\* buildRoutes with quarantine, and the observer it configures last
BuildWithRouteQuarantine(s, n) ==
    LET start  == [NewBuilder(n) EXCEPT !.skipped = s.invalid, !.generation = store.generation]
        routed == FoldLeft(LAMBDA b, r : BuildRoute(b, s, r), start, s.routes)
    IN  With(With(routed, LAMBDA b : buildGlobalNotFoundHandler(b, s)), LAMBDA ready :
            IF ready.failed = "no" /\ observing(s) THEN startGlobalErrorLogObserver(ready) ELSE ready)

\* Builder.Stop: every stopper once (stopOnce)
Stop(b) == StopAll(b, b.stoppers)

-----------------------------------------------------------------------------
(* The logger's observers *)

NoObserver == [number |-> 0, instance |-> 0, config |-> "none"]
ReplaceObserver(b, s) ==
    IF b.watch = 0 THEN NoObserver
    ELSE [number |-> b.number, instance |-> b.watch, config |-> ObserverConfig(s)]
RemovedBy_Name(o, b) == IF b.watch # 0 THEN NoObserver ELSE o
\* the stop function of one registration leaves a newer one alone
RemovedBy(o, b) == IF o.number = b.number /\ b.watch # 0 THEN NoObserver ELSE o

-----------------------------------------------------------------------------
(* Publication *)

Idle == NewBuilder(0)
BuildInit ==
    /\ store = [snapshot |-> CHOOSE s \in Snapshots : TRUE, generation |-> 0]
    /\ queue = 0 /\ answers = {} /\ builds = 0
    /\ published = [attempted |-> FALSE, generation |-> 0, err |-> "no"]
    /\ current = Idle /\ retired = {} /\ ended = Idle
    /\ observer = NoObserver /\ pending = {} /\ lost = {} /\ closing = FALSE

\* The store commits a batch; its acknowledged hooks run before the next one.
Commit(s) ==
    /\ queue = 0 /\ store.generation < MaxGeneration
    /\ store' = [snapshot |-> s, generation |-> store.generation + 1]
    /\ queue' \in 1..MaxEvents
    /\ answers' = {} /\ builds' = 0 /\ ended' = Idle
    /\ UNCHANGED <<published, current, retired, observer, pending, lost, closing>>

\* reload: a failed or panicking build is stopped and the handler kept
Reload ==
    \E b \in {BuildWithRouteQuarantine(store.snapshot, store.generation)} :
        /\ builds' = builds + 1
        /\ published' = [attempted |-> TRUE, generation |-> store.generation, err |-> b.failed]
        /\ answers' = answers \cup {b.failed}
        /\ IF b.failed = "no"
           THEN /\ current' = b
                /\ retired' = retired \cup (IF current = Idle THEN {} ELSE {current})
                /\ observer' = ReplaceObserver(b, store.snapshot)
                /\ UNCHANGED ended
           ELSE /\ ended' = Stop(b)
                /\ UNCHANGED <<current, retired, observer>>

Recorded_Forgets(err) ==
    /\ answers' = answers \cup {"no"}
    /\ UNCHANGED <<published, current, retired, observer, builds, ended>>
\* a generation already attempted answers with the recorded result
Recorded(err) ==
    /\ answers' = answers \cup {err}
    /\ UNCHANGED <<published, current, retired, observer, builds, ended>>
\* reloadAcknowledgedHTTP of a cancelled server: no build, the error is recorded
Refuse ==
    /\ published' = [attempted |-> TRUE, generation |-> store.generation, err |-> "error"]
    /\ answers' = answers \cup {"error"}
    /\ UNCHANGED <<current, retired, observer, builds, ended>>

publishAcknowledgedHTTPGeneration ==
    IF published.attempted /\ published.generation = store.generation
    THEN Recorded(published.err)
    ELSE IF closing THEN Refuse ELSE Reload

\* the hook of one HTTP event of the batch
HandleAcknowledgedStoreEvent ==
    /\ queue > 0 /\ queue' = queue - 1
    /\ publishAcknowledgedHTTPGeneration
    /\ UNCHANGED <<store, pending, lost, closing>>

\* the last request of a replaced generation ended: its Builder is stopped
Drained(b) ==
    /\ b \in retired /\ retired' = retired \ {b}
    /\ ended' = Stop(b)
    /\ observer' = RemovedBy(observer, b)
    /\ UNCHANGED <<store, queue, answers, published, current, builds, pending, lost, closing>>

\* cancellation, then the generation handler is closed
Cancel ==
    /\ ~closing /\ closing' = TRUE
    /\ UNCHANGED <<store, queue, answers, published, current, retired, ended, builds, observer, pending, lost>>
Close ==
    /\ closing /\ queue = 0 /\ current # Idle
    /\ retired' = retired \cup {current} /\ current' = Idle
    /\ UNCHANGED <<store, queue, answers, published, ended, builds, observer, pending, lost, closing>>

\* notifyObservers copies the callbacks under the lock and calls them after it
NotifyObservers(e) ==
    /\ observer # NoObserver /\ e \notin {x.entry : x \in pending \cup lost}
    /\ pending' = pending \cup {[entry |-> e, to |-> observer]}
    /\ UNCHANGED <<store, queue, answers, published, current, retired, ended, builds, observer, lost, closing>>
\* a batch processor that is stopped refuses the entry
Observe(x) ==
    /\ x \in pending /\ pending' = pending \ {x}
    /\ lost' = IF x.to.number \in {b.number : b \in retired \cup {current}} THEN lost ELSE lost \cup {x}
    /\ UNCHANGED <<store, queue, answers, published, current, retired, ended, builds, observer, closing>>

BuildNext ==
    \/ \E s \in Snapshots : Commit(s)
    \/ HandleAcknowledgedStoreEvent
    \/ \E b \in retired : Drained(b)
    \/ Cancel \/ Close
    \/ \E e \in 1..MaxEntries : NotifyObservers(e)
    \/ \E x \in pending : Observe(x)

BuildSpec == BuildInit /\ [][BuildNext]_buildVars

-----------------------------------------------------------------------------
(* Properties *)

BuildTypeOK ==
    /\ queue \in 0..MaxEvents /\ store.generation \in 0..MaxGeneration
    /\ published.err \in {"no", "error", "panic"}
    /\ answers \subseteq {"no", "error", "panic"}
    /\ \A b \in retired \cup {current} : b.failed = "no"

\* Whatever a build created is stopped exactly once: what belongs to a live
\* generation is in its Builder's stoppers exactly once and not yet stopped,
\* what a broken route or source left behind was stopped by its rollback and
\* is not stopped again, and when a Builder has been stopped (drained, or its
\* build failed or panicked) nothing it created is left running
\* (builder.go Stop, rollbackRouteBuild, initPluginBindingsStrict's defer).
OwnedOnce ==
    /\ \A b \in retired \cup {current} : \A i \in DOMAIN b.stops :
          b.stops[i] + Cardinality({k \in DOMAIN b.stoppers : b.stoppers[k] = i}) = 1
    /\ \A i \in DOMAIN ended.stops : ended.stops[i] = 1

\* What the routes of a snapshot should run, stated by name and not by the
\* order of construction.
Effective(s, r, rules) ==
    LET of(ps) == {<<ps[i].name, ps[i].config>> : i \in {k \in 1..Len(ps) : ps[k].outcome # "disabled"}}
        layers == <<r.plugins, s.configs[r.config], s.services[r.service].plugins>>
        wins(k, n) == n \in Names(layers[k]) /\ \A j \in 1..(k - 1) : n \notin Names(layers[j])
    IN  {x \in UNION {of(layers[k]) : k \in 1..3} :
            \E k \in 1..3 : x \in of(layers[k]) /\ wins(k, x[1])}
        \cup {x \in UNION {of(rules[i]) : i \in 1..Len(rules)} :
                Cardinality({i \in 1..Len(rules) : x[1] \in Names(rules[i])}) = 1}

\* a route with nothing wrong in it or in what it refers to
Faultless(s, r) ==
    LET fine(ps) == \A i \in 1..Len(ps) : /\ ps[i].outcome \in {"ready", "disabled"} /\ ps[i].claim = "none"
                                          /\ ~ps[i].weak /\ ps[i].name \in s.enabled
    IN  /\ ~r.disabled /\ r.uris /\ r.sound /\ r.plan
        /\ r.service \in DOMAIN s.services /\ r.config \in DOMAIN s.configs
        /\ fine(r.plugins) /\ fine(s.configs[r.config]) /\ fine(s.services[r.service].plugins)
        /\ \A i \in 1..Len(s.rules) : fine(s.rules[i])
        /\ resolveRouteUpstream(s, r, s.services[r.service]) \in {"nodes", "empty"}

\* A published generation serves routes that work, and all the faultless ones: no route it serves runs an
\* instance that was stopped, each runs exactly the plugins the configuration
\* gives it (route over plugin_config over service, and the global rules'
\* plugins that only one rule configures), the routes of one service share
\* its logger and no other instance, and the public APIs are owned by
\* published routes (or the global handler) only (builder.go buildRoutes,
\* initServicePluginBindingsStrict; public_api Registry.Rollback).
PublishedRight ==
    current # Idle =>
        /\ \A k \in DOMAIN current.mux :
             LET m == current.mux[k] IN
                /\ \A x \in m.bindings : current.stops[x.instance] = 0
                /\ \A j \in 1..(k - 1) : \A x \in m.bindings, y \in current.mux[j].bindings :
                      x.instance = y.instance => x.name = "kafka-logger" /\ x = y
                /\ (current.generation = store.generation) =>
                     \E i \in DOMAIN store.snapshot.routes :
                        LET r == store.snapshot.routes[i] IN
                        /\ r.id = m.id /\ ~r.disabled
                        /\ {<<x.name, x.config>> : x \in m.bindings} = Effective(store.snapshot, r, store.snapshot.rules)
        /\ {c.by : c \in current.claims} \subseteq {current.mux[k].id : k \in DOMAIN current.mux} \cup {0}
        /\ \A c, d \in current.claims : c.owner = d.owner => c.identity = d.identity
        /\ (current.generation = store.generation) =>
             /\ Len(current.mux) + current.skipped = store.snapshot.invalid
                  + Cardinality({i \in DOMAIN store.snapshot.routes : ~store.snapshot.routes[i].disabled})
             /\ \A i \in DOMAIN store.snapshot.routes :
                  LET r == store.snapshot.routes[i] IN
                  Faultless(store.snapshot, r) => r.id \in {current.mux[k].id : k \in DOMAIN current.mux}

\* The hooks of one batch tell the truth and agree: a generation is built at
\* most once however many events of its batch ask for it, all of them get the
\* same result, success means that this very generation is being served, and
\* failure leaves the earlier one in place (server.go
\* publishAcknowledgedHTTPGeneration, reload.go reload).
AnswersRight ==
    /\ builds <= 1 /\ Cardinality(answers) <= 1
    /\ ("no" \in answers /\ current # Idle) => current.generation = store.generation
    /\ (answers # {} /\ "no" \notin answers) => current.generation < store.generation
    /\ current.failed = "no"

\* The observer of the error log belongs to the generation being served, and
\* to an instance that is still running; draining an older generation does not
\* take it away.  An entry that was on its way when its generation was stopped
\* is all that can be lost (logger/init.go ReplaceObserver: "stopping a retired
\* owner cannot remove a newer replacement with the same name").
ObserverRight ==
    /\ (current # Idle) =>
          /\ observer.number = (IF current.watch = 0 THEN 0 ELSE current.number)
          /\ observer.instance = current.watch
    /\ (observer # NoObserver) => observer.number \in {b.number : b \in retired \cup {current}}
    /\ \A x \in lost : x.to.number < store.generation \/ closing

\* The documentation of error-log-logger: it delivers where its
\* plugin_metadata says (docs/plugins.md:147).
ObserverConfigured ==
    (observer # NoObserver /\ current.generation = store.generation) => observer.config = store.snapshot.metadata

BuildConfig ==
    /\ \A s \in Snapshots : 0 \in DOMAIN s.services /\ 0 \in DOMAIN s.configs
    /\ Strict \in BOOLEAN
    /\ MaxGeneration \in Nat /\ MaxEvents \in Nat \ {0} /\ MaxEntries \in Nat

-----------------------------------------------------------------------------
(***************************************************************************)
(* Publication of the TCP stream routes: the server loads them from the    *)
(* store (pkg/store/getter.go, with the last good version of an entry that *)
(* no longer parses), merges the service and upstream each refers to,      *)
(* validates all of them and swaps the router's table (pkg/stream).  The   *)
(* start of the stream proxy races the acknowledged store events; a        *)
(* connection keeps the entry it was matched to.                           *)
(*                                                                         *)
(* A configuration is [entries, upstreams, services]: a set of entries     *)
(* with distinct ids, and what the ids they refer to hold.  An upstream is *)
(* abstracted to what the router's checks tell apart: "ok", "none" (no     *)
(* nodes), "zero" (no positive weight), "tls", and "missing".              *)
(***************************************************************************)

CONSTANTS Configs,     \* the configurations the store may hold
          Peers,       \* connections: [port |-> ...] by name
          MaxCommits   \* bound: committed batches

VARIABLES conf,      \* what the store holds
          commits,   \* batches committed                             (bound)
          events,    \* buckets of the batch whose hooks have to run
          verdict,   \* joined result of the batch's hooks            (history)
          running,   \* "down", "up" or "closed": s.streamRuntime
          starting,  \* the routes startStreamProxy has loaded, holding the lock
          table,     \* the router's entries
          streamRoutes,    \* s.streamRoutes
          lastGood,  \* store's streamRouteLastGood
          shown,     \* the configuration the last reload published   (history)
          conns      \* the entry every connection is served by

streamsVars == <<conf, commits, events, verdict, running, starting, table, streamRoutes, lastGood, shown, conns>>

-----------------------------------------------------------------------------
Failed == [ok |-> FALSE, routes |-> {}, candidate |-> {}]
Nobody == [id |-> 0]

\* listStreamRoutes: an entry that does not parse is replaced by its last good
\* version, and fails the whole list when there is none
Known(e) == {g \in lastGood : g.id = e.id}
Parsed(e) == IF e.parses THEN {e} ELSE Known(e)
listStreamRoutes ==
    IF \E e \in conf.entries : Parsed(e) = {} THEN Failed
    ELSE [ok |-> TRUE, routes |-> UNION {Parsed(e) : e \in conf.entries},
          candidate |-> UNION {Parsed(e) : e \in conf.entries}]

\* a route that names a service and no upstream inherits the service's plugins
\* and, without nodes of its own, its upstream
mergeStreamService(r) ==
    IF r.service = 0 \/ r.upstream # 0 THEN r
    ELSE LET sv == conf.services[r.service]
             own == r.nodes # "none"
         IN  [r EXCEPT !.plugins = @ \cup sv.plugins,
                       !.nodes = IF own THEN @ ELSE sv.nodes,
                       !.upstream = IF own THEN @ ELSE sv.upstream]
Resolved(r) ==
    LET m == mergeStreamService(r)
    IN  IF m.upstream = 0 \/ m.nodes # "none" THEN m ELSE [m EXCEPT !.nodes = conf.upstreams[m.upstream]]
Dangling(r) ==
    \/ r.service # 0 /\ r.upstream = 0 /\ r.service \notin DOMAIN conf.services
    \/ LET m == mergeStreamService(r)
       IN  m.upstream # 0 /\ m.nodes = "none" /\ m.upstream \notin DOMAIN conf.upstreams
loadStreamRoutes ==
    LET l == listStreamRoutes
    IN  IF ~l.ok \/ \E r \in l.routes : Dangling(r) THEN Failed
        ELSE [l EXCEPT !.routes = {Resolved(r) : r \in l.routes}]

\* one listen address, one route; a route without address takes any
rejectConflictingStreamListens_No(rs) == FALSE
rejectConflictingStreamListens(rs) ==
    \E r, q \in rs : r.id # q.id /\ r.port # 0 /\ r.port = q.port
buildRouteEntry(r) == r.nodes = "ok" /\ (r.plugins = {} \/ r.plugins = {"mqtt-proxy"})
\* Runtime.Reload and NewRuntime: all routes or none ("tls" is refused here)
Acceptable(rs) == ~rejectConflictingStreamListens(rs) /\ \A r \in rs : buildRouteEntry(r)

routeMatches(r, port) == r.port = 0 \/ r.port = port
\* matchEntry: the first of the table, which is in the order of the ids
matchEntry(t, port) ==
    LET fit == {r \in t : routeMatches(r, port)}
    IN  IF fit = {} THEN Nobody ELSE CHOOSE r \in fit : \A q \in fit : r.id <= q.id

-----------------------------------------------------------------------------
StreamsInit ==
    /\ conf \in Configs /\ commits = 0 /\ events = {} /\ verdict = "ok"
    /\ running = "down" /\ starting = Failed
    /\ table = {} /\ streamRoutes = {} /\ lastGood = {} /\ shown = conf
    /\ conns = [p \in DOMAIN Peers |-> Nobody]

Publish(l) ==
    /\ table' = l.routes /\ streamRoutes' = l.routes /\ lastGood' = l.candidate /\ shown' = conf

\* startStreamProxy holds streamReloadMu from the load to the publication
BeginStart ==
    /\ running = "down" /\ ~starting.ok
    /\ starting' = loadStreamRoutes
    /\ running' = IF starting'.ok THEN running ELSE "closed"
    /\ UNCHANGED <<conf, commits, events, verdict, table, streamRoutes, lastGood, shown, conns>>
FinishStart ==
    /\ starting.ok /\ starting' = Failed
    /\ IF Acceptable(starting.routes)
       THEN /\ running' = "up"
            /\ table' = starting.routes /\ streamRoutes' = starting.routes /\ lastGood' = starting.candidate
            /\ UNCHANGED shown
       ELSE running' = "closed" /\ UNCHANGED <<table, streamRoutes, lastGood, shown>>
    /\ UNCHANGED <<conf, commits, events, verdict, conns>>

\* shutdown was requested meanwhile: the new runtime is closed again
StartCancelled ==
    /\ starting.ok /\ starting' = Failed /\ running' = "closed"
    /\ UNCHANGED <<conf, commits, events, verdict, table, streamRoutes, lastGood, shown, conns>>

\* The store commits a batch.  `shown` follows only while nothing is loaded:
\* the configuration the start reads is the one it publishes.
CommitStreams(c) ==
    /\ events = {} /\ commits < MaxCommits /\ commits' = commits + 1
    /\ conf' = c /\ verdict' = "ok"
    /\ events' \in {{"stream_routes"}, {"upstreams"}, {"stream_routes", "upstreams"}}
    /\ shown' = IF running = "down" /\ ~starting.ok THEN c ELSE shown
    /\ UNCHANGED <<running, starting, table, streamRoutes, lastGood, conns>>

Reload_Early ==
    LET l == loadStreamRoutes
    IN  IF ~l.ok THEN verdict' = "error" /\ UNCHANGED <<table, streamRoutes, lastGood, shown>>
        ELSE IF l.routes = streamRoutes
        THEN verdict' = verdict /\ lastGood' = l.candidate /\ shown' = conf /\ UNCHANGED <<table, streamRoutes>>
        ELSE /\ streamRoutes' = l.routes
             /\ IF Acceptable(l.routes)
                THEN verdict' = verdict /\ table' = l.routes /\ lastGood' = l.candidate /\ shown' = conf
                ELSE verdict' = "error" /\ UNCHANGED <<table, lastGood, shown>>
Reload_KeepsCandidate ==
    LET l == loadStreamRoutes
    IN  IF ~l.ok THEN verdict' = "error" /\ UNCHANGED <<table, streamRoutes, lastGood, shown>>
        ELSE IF Acceptable(l.routes) THEN verdict' = verdict /\ Publish(l)
        ELSE verdict' = "error" /\ lastGood' = l.candidate /\ UNCHANGED <<table, streamRoutes, shown>>
\* reloadStreamRoutesIfStarted: routes already published only refresh lastGood
ReloadStreams ==
    LET l == loadStreamRoutes
    IN  IF ~l.ok THEN verdict' = "error" /\ UNCHANGED <<table, streamRoutes, lastGood, shown>>
        ELSE IF l.routes = streamRoutes
        THEN verdict' = verdict /\ lastGood' = l.candidate /\ shown' = conf /\ UNCHANGED <<table, streamRoutes>>
        ELSE IF Acceptable(l.routes) THEN verdict' = verdict /\ Publish(l)
        ELSE verdict' = "error" /\ UNCHANGED <<table, streamRoutes, lastGood, shown>>

\* handleAcknowledgedStoreEvent of one bucket.  An upstreams event is an HTTP
\* event too: when the HTTP publication fails the stream reload is not tried.
\* The hook waits for streamReloadMu while the proxy starts.
HandleStreamEvent(bucket, httpFails) ==
    /\ bucket \in events
    /\ httpFails => bucket = "upstreams"
    /\ events' = events \ {bucket}
    /\ IF httpFails THEN verdict' = "error" /\ UNCHANGED <<table, streamRoutes, lastGood, shown>>
       ELSE /\ ~starting.ok
            /\ IF running = "up" THEN ReloadStreams
               ELSE UNCHANGED <<verdict, table, streamRoutes, lastGood, shown>>
    /\ UNCHANGED <<conf, commits, running, starting, conns>>

\* Router.Serve
Accept(p) ==
    /\ running = "up" /\ conns[p] = Nobody
    /\ conns' = [conns EXCEPT ![p] = matchEntry(table, Peers[p].port)]
    /\ UNCHANGED <<conf, commits, events, verdict, running, starting, table, streamRoutes, lastGood, shown>>
Disconnect(p) ==
    /\ conns[p] # Nobody /\ conns' = [conns EXCEPT ![p] = Nobody]
    /\ UNCHANGED <<conf, commits, events, verdict, running, starting, table, streamRoutes, lastGood, shown>>

\* closeStartedStreamRuntime, when serving HTTP cannot start
CloseStarted ==
    /\ running = "up" /\ running' = "closed" /\ streamRoutes' = {}
    /\ UNCHANGED <<conf, commits, events, verdict, starting, table, lastGood, shown, conns>>

StreamsNext ==
    \/ BeginStart \/ FinishStart \/ StartCancelled \/ CloseStarted
    \/ \E c \in Configs : CommitStreams(c)
    \/ \E b \in {"stream_routes", "upstreams"}, f \in BOOLEAN : HandleStreamEvent(b, f)
    \/ \E p \in DOMAIN Peers : Accept(p) \/ Disconnect(p)
StreamsSpec == StreamsInit /\ [][StreamsNext]_streamsVars

-----------------------------------------------------------------------------
StreamsTypeOK ==
    /\ running \in {"down", "up", "closed"} /\ verdict \in {"ok", "error"}
    /\ events \subseteq {"stream_routes", "upstreams"} /\ commits \in 0..MaxCommits

\* The table the router serves from is one complete configuration: one entry
\* for each of its routes and no other, the configured one or, where that no
\* longer parses, the last good version of the same route; every entry can be
\* served and no two claim one address; the server's copy and the store's last
\* good versions belong to that same table; and when the hooks of a batch
\* succeeded it is the configuration the store holds (server.go
\* reloadStreamRoutesIfStarted, getter.go commitStreamRouteLastGood).
TableRight ==
    running = "up" =>
        /\ table = streamRoutes
        /\ {r.id : r \in table} = {e.id : e \in shown.entries}
        /\ {r.id : r \in table} = {g.id : g \in lastGood}
        /\ Cardinality(table) = Cardinality(shown.entries)
        /\ \A r \in table : r.nodes = "ok" /\ (r.plugins = {} \/ r.plugins = {"mqtt-proxy"})
        /\ \A r, q \in table : r.id # q.id /\ r.port = q.port => r.port = 0
        /\ \A e \in shown.entries : e.parses => e \in lastGood
        /\ (events = {} /\ verdict = "ok" /\ commits > 0) => shown = conf

\* A reload that fails changes nothing: the table, the server's copy and the
\* last good versions stay; and no reload touches the connections being served
\* (server.go handleAcknowledgedStoreEvent; router.go Serve copies the entry).
FailedReloadKeeps ==
    /\ (verdict = "ok" /\ verdict' = "error" => UNCHANGED <<table, streamRoutes, lastGood>>)
    /\ (table' # table => UNCHANGED conns)

StreamConfig ==
    /\ \A c \in Configs : \A e, f \in c.entries : e.id = f.id => e = f
    /\ MaxCommits \in Nat

=============================================================================
