---------------------------- MODULE RouteMatching ----------------------------
(***************************************************************************)
(* Registration of the URIs of a generation's routes and the dispatch of a  *)
(* request among them.  The router (chi) finds a pattern by path; behind a  *)
(* pattern a dispatcher chooses by embedded wildcard, host, method and      *)
(* order of registration, from indexes built while routes are registered.   *)
(* A path is the sequence of its segments, a host the sequence of its       *)
(* labels.                                                                  *)
(***************************************************************************)
EXTENDS Integers, FiniteSets, Sequences, SequencesExt, TLC

CONSTANTS Tables,      \* sequences of routes [uris, hosts, methods, priority]
          Requests,    \* [path, host, method]
          Methods, Params

VARIABLES table,       \* the snapshot's routes, then the same in order of registration
          registrar, answer

matchVars == <<table, registrar, answer>>

Refused == <<"refused">>
NoAnswer == [kind |-> "none", route |-> 0, via |-> <<>>, allow |-> {}]

RoutesConfig ==
    /\ Methods # {} /\ "*" \notin Methods /\ "*" \notin Params
    /\ \A t \in Tables : \A i \in 1..Len(t) :
         t[i].methods \subseteq Methods /\ t[i].priority \in Nat

----------------------------------------------------------------------------
\* URIs.

Stars(uri) == {i \in 1..Len(uri) : uri[i] = "*"}

Named(uri) == {i \in 1..Len(uri) : uri[i] \in Params}

\* convertURI: parameters with distinct names, or one wildcard; of an embedded
\* wildcard the part up to the wildcard.
convertURI(uri) ==
    CASE Stars(uri) = {} ->
           IF \E i, j \in Named(uri) : i # j /\ uri[i] = uri[j] THEN Refused ELSE uri
      [] Named(uri) = {} /\ Cardinality(Stars(uri)) = 1 ->
           SubSeq(uri, 1, CHOOSE i \in Stars(uri) : TRUE)
      [] OTHER -> Refused

\* The router ignores the names of parameters.
effectiveRouteURI(converted) ==
    [i \in 1..Len(converted) |-> IF converted[i] \in Params THEN ":" ELSE converted[i]]

Embedded(uri) == Stars(uri) # {} /\ Len(uri) \notin Stars(uri)

Prefix(converted) == SubSeq(converted, 1, Len(converted) - 1)

Suffix(uri) == SubSeq(uri, Len(convertURI(uri)) + 1, Len(uri))

matchesParameterizedRoute(pattern, path) ==
    /\ Len(pattern) = Len(path)
    /\ \A i \in 1..Len(path) :
         IF pattern[i] \in Params THEN path[i] # "" ELSE pattern[i] = path[i]

\* matchesRoutePath, for a URI without an embedded wildcard.
matchesRoutePath(pattern, path) ==
    IF Stars(pattern) = {}
    THEN matchesParameterizedRoute(pattern, path)
    ELSE IsPrefix(Prefix(pattern), path) /\ Len(path) >= Len(pattern)

----------------------------------------------------------------------------
\* Hosts.

wildcardRouteHostKey(host) == Tail(host)

wildcardHostKey(host) == IF Len(host) >= 2 THEN Tail(host) ELSE <<>>

\* Where a host of a route is indexed; a malformed wildcard nowhere.
HostKeys(hosts) ==
    IF hosts = {} THEN {<<0, <<>>>>}
    ELSE {IF h[1] = "*" THEN <<1, wildcardRouteHostKey(h)>> ELSE <<2, h>> :
            h \in {g \in hosts : "*" \notin Range(Tail(g)) /\ g # <<"*">>}}

hostDecision_LabelsAny(host, rank) ==
    CASE rank = 2 -> <<2, host>>
      [] rank = 1 -> <<1, SubSeq(host, Len(host), Len(host))>>
      [] OTHER -> <<0, <<>>>>

hostDecision(host, rank) ==
    CASE rank = 2 -> <<2, host>>
      [] rank = 1 -> <<1, wildcardHostKey(host)>>
      [] OTHER -> <<0, <<>>>>

----------------------------------------------------------------------------
\* The index of one pattern: for every host key the latest route per method,
\* "*" for a route that names no method.

EmptyIndex == [pattern |-> <<>>, at |-> <<>>]

Decision(index, key) == IF key \in DOMAIN index.at THEN index.at[key] ELSE <<>>

\* routeHostDecision.add
Latest_First(decision, method, route) ==
    IF method \in DOMAIN decision THEN decision ELSE (method :> route) @@ decision

Latest(decision, method, route) ==
    IF method \in DOMAIN decision /\ decision[method] >= route
    THEN decision ELSE (method :> route) @@ decision

\* routeDecisionIndex.add, for every host of the route.
add(index, pattern, keys, method, route) ==
    [pattern |-> IF index.pattern = <<>> THEN pattern ELSE index.pattern,
     at |-> [k \in keys |-> Latest(Decision(index, k), method, route)] @@ index.at]

\* lookup: the route of this rank and method, 0 when there is none.
lookup(index, host, rank, method) ==
    LET d == Decision(index, hostDecision(host, rank)) IN
    IF (rank # 1 \/ Len(host) >= 2) /\ method \in DOMAIN d THEN d[method] ELSE 0

HasHost(index, host) ==
    \E rank \in 0..2 : /\ rank # 1 \/ Len(host) >= 2
                       /\ DOMAIN Decision(index, hostDecision(host, rank)) # {}

\* addAllowedMethods
Allowed_AnyHost(index, host) ==
    UNION {DOMAIN index.at[k] \ {"*"} : k \in DOMAIN index.at}

Allowed(index, host) ==
    UNION {DOMAIN Decision(index, hostDecision(host, rank)) \ {"*"} :
             rank \in IF Len(host) >= 2 THEN 0..2 ELSE {0, 2}}

----------------------------------------------------------------------------
\* Registration.

NoDispatcher == [plain |-> EmptyIndex, embedded |-> <<>>]

Dispatcher(r, converted) ==
    IF converted \in DOMAIN r.dispatchers THEN r.dispatchers[converted] ELSE NoDispatcher

\* chi: Handle replaces what a pattern has for every method, Method for one.
Handle(mux, shape, ms, target) ==
    LET old == IF shape \in DOMAIN mux THEN mux[shape] ELSE <<>>
    IN (shape :> ([m \in ms |-> target] @@ old)) @@ mux

\* wildcardDispatcher.add
Dispatched(d, uri, keys, method, route) ==
    IF Embedded(uri)
    THEN LET s == Suffix(uri)
             old == IF s \in DOMAIN d.embedded THEN d.embedded[s] ELSE EmptyIndex
         IN [d EXCEPT !.embedded = (s :> add(old, uri, keys, method, route)) @@ d.embedded]
    ELSE [d EXCEPT !.plain = add(d.plain, uri, keys, method, route)]

registerWildcardRoute(r, uri, route, n) ==
    LET c == convertURI(uri)
        ms == SetToSeq(IF route.methods = {} THEN {"*"} ELSE route.methods)
        d == FoldLeft(LAMBDA acc, m : Dispatched(acc, uri, HostKeys(route.hosts), m, n),
                      Dispatcher(r, c), ms)
    IN [mux |-> IF c \in DOMAIN r.dispatchers THEN r.mux
                ELSE Handle(r.mux, effectiveRouteURI(c), Methods, [via |-> c, route |-> 0]),
        dispatchers |-> (c :> d) @@ r.dispatchers]

\* registerRouteWithHosts: a parameter URI of a route without hosts goes to the
\* router itself.
Direct(uri, route) == Stars(uri) = {} /\ route.hosts = {} /\ Named(uri) # {}

registerRouteWithHosts(r, uri, route, n) ==
    IF Direct(uri, route)
    THEN [r EXCEPT !.mux = Handle(r.mux, effectiveRouteURI(convertURI(uri)),
                                  IF route.methods = {} THEN Methods ELSE route.methods,
                                  [via |-> <<>>, route |-> n])]
    ELSE registerWildcardRoute(r, uri, route, n)

\* The checks of buildRoutes before a route is registered at all.
Registrable(route) ==
    LET c(i) == convertURI(route.uris[i]) IN
    \A i \in 1..Len(route.uris) :
      /\ c(i) # Refused
      /\ \A j \in 1..(i - 1) : effectiveRouteURI(c(i)) # effectiveRouteURI(c(j))

\* Routes by ascending priority, equal ones in their order: the later
\* registration wins.
Earlier(t, i) ==
    {j \in 1..Len(t) : \/ t[j].priority < t[i].priority
                       \/ t[j].priority = t[i].priority /\ j < i}

SortedByPriority_LatestFirst(t) ==
    [n \in 1..Len(t) |->
       t[CHOOSE i \in 1..Len(t) : Cardinality(Earlier(t, i)) = Len(t) - n]]

SortedByPriority(t) ==
    [n \in 1..Len(t) |-> t[CHOOSE i \in 1..Len(t) : Cardinality(Earlier(t, i)) = n - 1]]

Registered(routes) ==
    LET Add(r, n) == LET route == routes[n] IN
                     IF Registrable(route)
                     THEN FoldLeft(LAMBDA acc, uri : registerRouteWithHosts(acc, uri, route, n),
                                   r, route.uris)
                     ELSE r
    IN FoldLeft(Add, [mux |-> <<>>, dispatchers |-> <<>>], [n \in 1..Len(routes) |-> n])

----------------------------------------------------------------------------
\* Dispatch.

\* chi: a pattern matches segment by segment; static before parameter before
\* catch-all at the first segment where two patterns differ.
ShapeMatches(shape, path) ==
    LET n == Len(shape) IN
    IF n > 0 /\ shape[n] = "*"
    THEN Len(path) >= n /\ \A i \in 1..(n - 1) : shape[i] \in {":", path[i]}
    ELSE /\ Len(path) = n
         /\ \A i \in 1..n : shape[i] = path[i] \/ (shape[i] = ":" /\ (i < n \/ path[i] # ""))

Weight(segment) == CASE segment = "*" -> 2 [] segment = ":" -> 1 [] OTHER -> 0

Before(a, b) ==
    \E i \in 1..Len(a) : /\ i <= Len(b) /\ Weight(a[i]) < Weight(b[i])
                         /\ \A j \in 1..(i - 1) : Weight(a[j]) = Weight(b[j])

\* The suffixes of an embedded wildcard that end the path after at least one
\* character in the wildcard's place.
EmbeddedSuffixes_Empty(d, c, path) ==
    {s \in DOMAIN d.embedded :
       /\ IsPrefix(Prefix(c), path) /\ IsSuffix(s, path)
       /\ Len(path) > Len(Prefix(c)) + Len(s)}

EmbeddedSuffixes(d, c, path) ==
    {s \in DOMAIN d.embedded :
       /\ IsPrefix(Prefix(c), path) /\ IsSuffix(s, path)
       /\ Len(path) > Len(Prefix(c)) + Len(s)
       /\ SubSeq(path, Len(c), Len(path) - Len(s)) # <<"">>}

\* matchEmbeddedRoute: the latest registration over all matching suffixes.
matchEmbeddedRoute(d, c, q, rank, method) ==
    LET found == {lookup(d.embedded[s], q.host, rank, method) : s \in EmbeddedSuffixes(d, c, q.path)}
    IN IF found = {} THEN 0 ELSE CHOOSE n \in found : \A o \in found : o <= n

matchNonEmbeddedRoute(d, q, rank, method) ==
    IF d.plain.pattern # <<>> /\ matchesRoutePath(d.plain.pattern, q.path)
    THEN lookup(d.plain, q.host, rank, method) ELSE 0

\* The order in which ServeHTTP tries: embedded first, then the host, then the
\* method.
Tries_MethodFirst == [i \in 1..12 |-> <<(i - 1) \div 6, 2 - (((i - 1) % 6) % 3), ((i - 1) % 6) \div 3>>]

Tries == [i \in 1..12 |-> <<(i - 1) \div 6, 2 - (((i - 1) % 6) \div 2), (i - 1) % 2>>]

Found(d, c, q, try) ==
    LET method == IF try[3] = 0 THEN q.method ELSE "*" IN
    IF try[1] = 0 THEN matchEmbeddedRoute(d, c, q, try[2], method)
    ELSE matchNonEmbeddedRoute(d, q, try[2], method)

\* The indexes whose path matches; allowedMethods walks the same ones.
Matched(d, c, q) ==
    {d.embedded[s] : s \in EmbeddedSuffixes(d, c, q.path)} \union
    (IF d.plain.pattern # <<>> /\ matchesRoutePath(d.plain.pattern, q.path)
     THEN {d.plain} ELSE {})

allowedMethods(d, c, q) == UNION {Allowed(index, q.host) : index \in Matched(d, c, q)}

ServeHTTP(d, c, q) ==
    LET hits == {i \in 1..12 : Found(d, c, q, Tries[i]) # 0}
        first == CHOOSE i \in hits : \A j \in hits : i <= j
    IN CASE hits # {} -> [kind |-> "route", route |-> Found(d, c, q, Tries[first]), via |-> c,
                          allow |-> {}]
         [] hits = {} /\ (\E index \in Matched(d, c, q) : HasHost(index, q.host)) ->
              [kind |-> "not allowed", route |-> 0, via |-> c, allow |-> allowedMethods(d, c, q)]
         [] OTHER -> [kind |-> "not found", route |-> 0, via |-> c, allow |-> {}]

\* The router: the preferred pattern that has a handler for the method.
Routed(r, q) ==
    LET matching == {s \in DOMAIN r.mux : ShapeMatches(s, q.path)}
        able == {s \in matching : q.method \in DOMAIN r.mux[s]}
        chosen == CHOOSE s \in able : \A o \in able \ {s} : Before(s, o)
        target == r.mux[chosen][q.method]
    IN CASE able # {} /\ target.route # 0 ->
              [kind |-> "route", route |-> target.route, via |-> <<>>, allow |-> {}]
         [] able # {} /\ target.route = 0 ->
              ServeHTTP(r.dispatchers[target.via], target.via, q)
         [] able = {} /\ matching # {} -> [NoAnswer EXCEPT !.kind = "router not allowed"]
         [] OTHER -> [NoAnswer EXCEPT !.kind = "global not found"]

----------------------------------------------------------------------------

Init ==
    /\ table \in Tables
    /\ registrar = [mux |-> <<>>, dispatchers |-> <<>>]
    /\ answer = [request |-> "none", is |-> NoAnswer]

Build ==
    /\ registrar.mux = <<>>
    /\ table' = SortedByPriority(table)
    /\ registrar' = Registered(table')
    /\ UNCHANGED answer

Serve(q) ==
    /\ registrar.mux # <<>> /\ answer.is = NoAnswer
    /\ answer' = [request |-> q, is |-> Routed(registrar, q)]
    /\ UNCHANGED <<table, registrar>>

Next == Build \/ \E q \in Requests : Serve(q)

Spec == Init /\ [][Next]_matchVars

----------------------------------------------------------------------------
\* What a route says of a request, without any index.

Uris(n) == Range(table[n].uris)

PathFits(uri, path) ==
    IF Embedded(uri)
    THEN \E k \in (Len(convertURI(uri)))..Len(path) :
           /\ SubSeq(path, 1, Len(Prefix(convertURI(uri)))) = Prefix(convertURI(uri))
           /\ SubSeq(path, k + 1, Len(path)) = Suffix(uri)
           /\ SubSeq(path, Len(convertURI(uri)), k) # <<"">>
    ELSE matchesRoutePath(uri, path)

HostFits(host, h) ==
    IF h[1] = "*" THEN Len(host) >= 2 /\ Tail(host) = Tail(h) ELSE h = host

HostRank(n, host) ==
    CASE table[n].hosts = {} -> 0
      [] host \in table[n].hosts -> 2
      [] \E h \in table[n].hosts : HostFits(host, h) -> 1
      [] OTHER -> -1

MethodRank(n, method) ==
    CASE method \in table[n].methods -> 1
      [] table[n].methods = {} -> 0
      [] OTHER -> -1

\* How well URI u of route n fits a request, the better the larger.
Fit(n, u, q) ==
    <<IF Embedded(u) THEN 1 ELSE 0, HostRank(n, q.host), MethodRank(n, q.method),
      table[n].priority, n>>

Fits(n, u, q) ==
    PathFits(u, q.path) /\ HostRank(n, q.host) >= 0 /\ MethodRank(n, q.method) >= 0

Better(a, b) ==
    \E i \in 1..5 : a[i] > b[i] /\ \A j \in 1..(i - 1) : a[j] = b[j]

\* The URIs registered behind a pattern through its dispatcher.
Behind(c) ==
    {p \in (1..Len(table)) \X UNION {Uris(n) : n \in 1..Len(table)} :
       /\ p[2] \in Uris(p[1]) /\ Registrable(table[p[1]])
       /\ convertURI(p[2]) = c /\ ~Direct(p[2], table[p[1]])}

TypeOK ==
    /\ answer.is.kind \in {"none", "route", "not allowed", "not found", "router not allowed",
                           "global not found"}
    /\ answer.is.route \in 0..Len(table)

\* A request is answered by a route that fits its path, host and method, and of
\* the URIs behind the same pattern by the best: an embedded wildcard before a
\* plain URI, an exact host before a wildcard one before none, a named method
\* before any, the higher priority and then the later route.  The indexes that
\* registration builds say the same as the routes themselves.
AnsweredRight ==
    answer.is.kind = "route" =>
      LET q == answer.request
          n == answer.is.route
          c == answer.is.via
      IN /\ \E u \in Uris(n) : Fits(n, u, q)
         /\ c # <<>> => \E u \in Uris(n) :
              /\ <<n, u>> \in Behind(c) /\ Fits(n, u, q)
              /\ \A p \in Behind(c) : Fits(p[1], p[2], q) =>
                   ~Better(Fit(p[1], p[2], q), Fit(n, u, q))
         /\ c = <<>> => \A m \in (n + 1)..Len(table) : \A u \in Uris(m) :
              ~(/\ Registrable(table[m]) /\ Direct(u, table[m]) /\ Fits(m, u, q)
                /\ \E w \in Uris(n) : effectiveRouteURI(u) = effectiveRouteURI(w))

\* A dispatcher refuses a method only when some URI behind it fits path and
\* host and none fits the method as well, and names exactly the methods of
\* those; it answers "not found" only when none fits path and host.
RefusedRight ==
    answer.is.kind \in {"not allowed", "not found"} =>
      LET q == answer.request
          near == {p \in Behind(answer.is.via) :
                     PathFits(p[2], q.path) /\ HostRank(p[1], q.host) >= 0}
      IN /\ \A p \in near : MethodRank(p[1], q.method) < 0
         /\ answer.is.kind = "not allowed" <=> near # {}
         /\ answer.is.allow = UNION {table[p[1]].methods : p \in near}
=============================================================================
