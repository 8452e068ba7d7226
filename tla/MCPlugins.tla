------------------------------ MODULE MCPlugins ------------------------------
(***************************************************************************)
(* The logging pipeline behind the batch processor, what plugin instances  *)
(* share, the building of routes from the store and the dispatch among     *)
(* them, and the AI plugins, each explored by itself: `part' names the one *)
(* that runs and v1 to v12 hold its variables; what it does not need of    *)
(* them stays 0.                                                           *)
(***************************************************************************)
EXTENDS Integers, Sequences, TLC

CONSTANTS r1, r2, r3

VARIABLES part, v1, v2, v3, v4, v5, v6, v7, v8, v9, v10, v11, v12

vars == <<part, v1, v2, v3, v4, v5, v6, v7, v8, v9, v10, v11, v12>>

-----------------------------------------------------------------------------
(* Inputs                                                                  *)

BatchSinks ==
    {"elasticsearch", "clickhouse", "tencent", "http", "tcp", "udp", "sls", "loggly", "skywalking",
     "kafka", "rocketmq", "lago", "loki", "splunk", "google", "datadog"}
EntrySinks == BatchSinks \union {"syslog"}

\* Two frames that fit the buffer together and one that is over its limit.
FrameSizes == [f \in {"f1", "f2", "f3"} |-> IF f = "f3" THEN 3 ELSE 1]

\* Two instances of unequal and of equal priority, chosen in turn and by hash,
\* with limits of their own, one in common and a list of rules, and the
\* single instance of ai-proxy.
Inst(priority, weight, bedrock) == [priority |-> priority, weight |-> weight, bedrock |-> bedrock]
Multi ==
    [plugin |-> "ai-proxy-multi", instances |-> <<Inst(1, 1, FALSE), Inst(0, 1, FALSE)>>,
     algorithm |-> "roundrobin", fallback |-> {"rate_limiting", "http_5xx"}, max_retries |-> 1,
     limits |-> <<2, 1>>, limit |-> 0, rules |-> <<>>, checked |-> {}, window |-> 1, policy |-> "local"]
Proxy == [Multi EXCEPT !.plugin = "ai-proxy", !.limits = <<2>>, !.fallback = {}]
GatewaySettings ==
    {[Multi EXCEPT !.checked = {1}, !.max_retries = 0],
     [Multi EXCEPT !.instances = <<Inst(1, 1, FALSE), Inst(1, 2, FALSE)>>, !.limits = <<1, 0>>, !.limit = 2,
                   !.fallback = {"rate_limiting", "http_429", "http_5xx"}],
     [Multi EXCEPT !.algorithm = "chash", !.instances = <<Inst(1, 1, FALSE), Inst(1, 1, FALSE)>>,
                   !.limits = <<0, 1>>, !.max_retries = -1],
     [Multi EXCEPT !.rules = <<2, 1>>, !.instances = <<Inst(1, 1, FALSE), Inst(0, 0, FALSE)>>,
                   !.limits = <<0, 0>>, !.policy = "redis", !.max_retries = 0]}
    \union {[Proxy EXCEPT !.instances = <<Inst(0, 1, b)>>] : b \in BOOLEAN}

-----------------------------------------------------------------------------
\* Route tables and requests for RouteMatching.  The routes overlap in
\* every way the dispatcher decides between: an exact URI, a parameter, a
\* trailing and an embedded wildcard over one prefix; no host, an exact
\* host and wildcard hosts; any method and some; equal and unequal
\* priorities.
Exact == <<"a">>
Trailing == <<"a", "*">>
Embedded == <<"a", "*", "b">>
Deeper == <<"a", "*", "c", "b">>
Param == <<"a", ":x">>
Renamed == <<"a", ":y">>

Host == <<"h", "d">>
AnySub == <<"*", "d">>
AnyHost == <<"*", "*">>

Route(uris, hosts, methods) == [uris |-> uris, hosts |-> hosts, methods |-> methods]

Routes ==
    {Route(<<u>>, hs, ms) : u \in {Exact, Trailing, Embedded, Deeper, Param},
                            <<hs, ms>> \in {{}} \X {{}, {"GET"}} \union {<<{Host}, {"GET"}>>, <<{AnySub}, {}>>}}
    \union {Route(<<Trailing>>, {AnyHost}, {}),
            Route(<<Embedded>>, {AnyHost, Host}, {"GET", "PUT"}),
            Route(<<Exact, Embedded>>, {}, {"PUT"}), Route(<<Trailing, Embedded>>, {}, {"PUT"}),
            Route(<<Renamed>>, {}, {}), Route(<<Renamed>>, {Host}, {"GET"}),
            Route(<< <<"a", ":x", "*">> >>, {}, {}), Route(<< <<":x", ":x">> >>, {}, {}),
            Route(<< <<"*">> >>, {}, {})}

With(r, p) == [uris |-> r.uris, hosts |-> r.hosts, methods |-> r.methods, priority |-> p]

Of(us) == {r \in Routes : Len(r.uris) = 1 /\ r.uris[1] \in us}

Tables ==
    {<<With(a, 1), With(b, p)>> : a \in Routes, b \in Routes, p \in {0, 1}}
    \union {<<With(a, 0), With(b, 0), With(c, 0)>> :
               a \in Of({Embedded, Deeper}), b \in Of({Trailing, Deeper}), c \in Of({Embedded})}

Requests ==
    [path : {<<"a">>, <<"a", "">>, <<"a", "b">>, <<"a", "x", "b">>, <<"a", "", "b">>,
             <<"a", "x", "c", "b">>, <<"a", "c", "b">>, <<"z">>},
     host : {<<"h", "d">>, <<"k", "d">>, <<"d">>, <<"k", "h", "d">>},
     method : {"GET", "PUT"}]

-----------------------------------------------------------------------------
\* Store contents for RoutePublication.  A snapshot has a route
\* of every shape the builder treats differently and a second one after
\* it, over two services (the second with a missing upstream), a plugin
\* configuration and global rules with a plugin in common.
Src(name, outcome) ==
    [name |-> name, outcome |-> outcome, owns |-> FALSE, leases |-> FALSE, claim |-> "none",
     weak |-> FALSE, config |-> "c"]
Counting == Src("limit-count", "ready")
Claims(x) == [Src("wolf-rbac", "ready") EXCEPT !.claim = x]
Split(outcome) == [Src("traffic-split", outcome) EXCEPT !.leases = TRUE]

Services ==
    0 :> [plugins |-> <<>>, inline |-> "none", upstream |-> 0]
    @@ 1 :> [plugins |-> <<Src("kafka-logger", "ready"), [Counting EXCEPT !.config = "s"]>>,
             inline |-> "none", upstream |-> 1]
    @@ 2 :> [plugins |-> <<[Src("kafka-logger", "ready") EXCEPT !.config = "d"]>>,
             inline |-> "none", upstream |-> 2]

Built(plugins) ==
    [id |-> 1, disabled |-> FALSE, uris |-> TRUE, sound |-> TRUE, plan |-> TRUE, service |-> 0,
     config |-> 0, plugins |-> plugins, inline |-> "none", upstream |-> 0]
Sound == Built(<<Counting>>)
Served == [Built(<<>>) EXCEPT !.service = 1]

Shapes ==
    { Sound, Served, [Sound EXCEPT !.service = 1, !.config = 1],
      [Served EXCEPT !.plan = FALSE], [Served EXCEPT !.service = 2], [Served EXCEPT !.inline = "bad"],
      [Built(<<>>) EXCEPT !.disabled = TRUE], [Sound EXCEPT !.uris = FALSE], [Served EXCEPT !.service = 9],
      Built(<<[Counting EXCEPT !.owns = TRUE], Split("unready")>>),
      [Built(<<Split("ready")>>) EXCEPT !.inline = "nodes"],
      Built(<<Counting, [Src("key-auth", "unready") EXCEPT !.owns = TRUE]>>),
      Built(<<Counting, Src("opa", "unbound")>>), Built(<<Counting, Src("opa", "panics")>>),
      Built(<<Src("opa", "disabled")>>), Built(<<Counting, Src("opa", "refused")>>),
      [Built(<<Claims("x")>>) EXCEPT !.plan = FALSE], Built(<<Claims("x")>>), Built(<<Claims("y")>>),
      Built(<<[Src("key-auth", "ready") EXCEPT !.weak = TRUE]>>),
      [Built(<<>>) EXCEPT !.inline = "insecure"], [Built(<<Src("gone", "ready")>>) EXCEPT !.upstream = 1],
      [Built(<<>>) EXCEPT !.config = 1] }

Seconds == {Sound, Served, Built(<<Claims("y")>>), Built(<<Counting, Src("opa", "unbound")>>)}

RuleSets == {<<>>, << <<Counting>>, <<Counting, Src("opa", "ready")>> >>, << <<Counting, Src("opa", "unready")>> >>}

Snapshot(first, second, rules, metadata) ==
    [routes |-> <<first, [second EXCEPT !.id = 2]>>, services |-> Services,
     configs |-> 0 :> <<>> @@ 1 :> <<Src("kafka-logger", "disabled"), Src("opa", "ready")>>,
     upstreams |-> <<"nodes", "missing">>, rules |-> rules, metadata |-> metadata, invalid |-> 1,
     enabled |-> {"kafka-logger", "limit-count", "traffic-split", "key-auth", "opa", "wolf-rbac",
                  "error-log-logger"}]

Snapshots ==
    {Snapshot(a, b, <<>>, "none") : a \in Shapes, b \in Seconds}
    \union {Snapshot(a, Served, rs, "m") : a \in {Sound, Built(<<Counting, Src("opa", "panics")>>)}, rs \in RuleSets}

\* Stream routes: one that has its nodes, its service's or an upstream's, and
\* one on the same or on another port; and two clients.
StreamEntry(i) ==
    [id |-> i, parses |-> TRUE, port |-> 0, service |-> 0, upstream |-> 0, nodes |-> "ok", plugins |-> {}]

Firsts ==
    {[StreamEntry(1) EXCEPT !.port = 1], [StreamEntry(1) EXCEPT !.parses = FALSE],
     [StreamEntry(1) EXCEPT !.nodes = "none", !.service = 1],
     [StreamEntry(1) EXCEPT !.nodes = "none", !.upstream = 1], [StreamEntry(1) EXCEPT !.nodes = "none", !.upstream = 2]}

Seconded ==
    {[StreamEntry(2) EXCEPT !.port = 1], [StreamEntry(2) EXCEPT !.port = 2, !.plugins = {"mqtt-proxy"}],
     [StreamEntry(2) EXCEPT !.parses = FALSE]}

StreamConfig(es, u, p) ==
    [entries |-> es, upstreams |-> <<u>>, services |-> << [nodes |-> "none", upstream |-> 1, plugins |-> p] >>]

StreamConfigs ==
    {StreamConfig({a}, u, p) : a \in Firsts, u \in {"ok", "zero"}, p \in {{}, {"mqtt-proxy", "other"}}}
    \union {StreamConfig({a, b}, "ok", {}) : a \in Firsts, b \in Seconded}

Peers == "p" :> [port |-> 1] @@ "q" :> [port |-> 2]

-----------------------------------------------------------------------------
\* Requests and configured instances for AIRequest: every protocol and
\* provider, overrides and options of a plain and of a nested field, and
\* tools whose names become equal when they are made acceptable.
Leaf(x) == [leaf |-> x]
Object(k) == [map |-> k]

\* The maps the request, an override and an option refer to.
Maps == << "topP" :> "client", [maxTokens |-> "override", stop |-> "override"], "topP" :> "option" >>

Ask(protocol) ==
    [protocol |-> protocol, tools |-> <<>>, choice |-> <<>>, turns |-> <<>>, apiKey |-> TRUE,
     body |-> "model" :> Leaf("m") @@ "stream" :> Leaf("true") @@ "max_tokens" :> Leaf("client")
              @@ "input" :> Leaf("text")]
Bedrock ==
    [Ask("bedrock") EXCEPT !.body = "model" :> Leaf("m") @@ "inferenceConfig" :> Object(1) @@ "stream" :> Leaf("true")]
Plain == {Ask("chat"), Ask("responses"), Ask("embeddings"), Bedrock, Ask("passthrough")}

Turn(role, uses, results, parts) == [role |-> role, uses |-> uses, results |-> results, parts |-> parts]
Turns ==
    <<Turn("user", <<>>, <<>>, <<"text">>), Turn("assistant", <<"i1", "i2">>, <<>>, <<"text">>),
      Turn("user", <<>>, <<"i1", "i2">>, <<"text", "image">>)>>

Tools ==
    { << <<"a", ".">>, <<"a", "_">> >>, << <<"a", "_">>, <<"a", ".">>, <<"a", "_", "2">> >>,
      << <<"a", "b", "c", ".">>, <<"a", "b", "c", "_", "x">>, <<"a", "b", "_", "2">> >>,
      << <<"a", ".", ".">>, <<"a", "_", ".">>, <<"a", ".", "_">> >> }
Wanted == {<<>>, <<"a", "_">>, <<"a", ".">>, <<"a", "b", "c", ".">>, <<"a", "_", ".">>}

Anthropic ==
    {[Ask("anthropic") EXCEPT !.body = "system" :> Leaf("s") @@ @, !.tools = t, !.choice = c,
                              !.turns = Turns, !.apiKey = k] : t \in Tools, c \in Wanted, k \in BOOLEAN}

Providers == {"openai", "openai-compatible", "azure-openai", "gemini", "vertex-ai", "anthropic", "bedrock"}

ModelInstance(plugin, provider) ==
    [plugin |-> plugin, provider |-> provider, options |-> <<>>, limit |-> TRUE, override |-> <<>>,
     overrideOf |-> "any", force |-> FALSE, endpoint |-> "none", auth |-> TRUE]

Overrides ==
    {[o |-> <<>>, f |-> FALSE]}
    \union [o : {"inferenceConfig" :> Object(2), "max_tokens" :> Leaf("override"), "stream_options" :> Leaf("none")},
            f : BOOLEAN]
Options == {<<>>, "inferenceConfig" :> Object(3), "temperature" :> Leaf("option")}

Single ==
    {[ModelInstance("ai-proxy", v) EXCEPT !.override = o.o, !.force = o.f, !.overrideOf = of, !.endpoint = e,
                                     !.options = op] :
        v \in Providers, o \in Overrides, of \in {"any", "bedrock"}, e \in {"none", "root"}, op \in Options}
Converting ==
    {[ModelInstance(p, v) EXCEPT !.auth = a, !.options = op] :
        p \in {"ai-proxy", "ai-proxy-multi"}, v \in Providers, a \in BOOLEAN, op \in Options}
Several ==
    {[ModelInstance("ai-proxy-multi", v) EXCEPT !.override = o.o, !.force = o.f, !.overrideOf = "bedrock", !.limit = l,
                                           !.options = op] :
        v \in {"bedrock", "gemini"}, o \in {x \in Overrides : "stream_options" \notin DOMAIN x.o},
        l \in BOOLEAN, op \in Options}

Exchanges ==
    {[ask |-> a, instances |-> <<i>>] : a \in Plain, i \in Single}
    \union {[ask |-> a, instances |-> <<i>>] : a \in Anthropic, i \in Converting}
    \union {[ask |-> Bedrock, instances |-> <<i, j>>] : i \in Several, j \in Several}

-----------------------------------------------------------------------------
\* Bodies, routes and answers for AIPrompts: the conversation shapes of
\* every protocol, with and without the fields the plugins look for, and
\* the sets of plugins that meet on a route.  A text is a sequence of
\* words, "bad" the one that is denied and "_" blank.
Blank == "_"

Message(role, text) == [role |-> role, text |-> text]
Item(form, text) == [role |-> "user", form |-> form, text |-> text]

Nothing ==
    [path |-> "other", has |-> {}, msgs |-> <<>>, input |-> <<>>, instr |-> <<>>, sys |-> <<>>,
     stream |-> FALSE, template |-> "", values |-> <<>>]

RagFields == {"ai_rag", "ai_rag.vector_search.fields", "ai_rag.embeddings.input"}

Talks ==
    {<<>>, <<Message("user", <<"c1">>)>>,
     <<Message("system", <<"c0">>), Message("user", <<"c1", "c2">>)>>,
     <<Message("user", <<"c1", "bad">>), Message("assistant", <<"c2">>)>>,
     <<Message("user", <<"c1">>), Message("user", <<"bad">>)>>,
     <<Message("user", <<Blank>>)>>}

WithTalk ==
    {[Nothing EXCEPT !.path = p, !.has = {"messages", "model"} \union h, !.msgs = t, !.stream = s] :
        p \in {"converse", "messages", "other"}, t \in Talks, h \in {{}, RagFields}, s \in BOOLEAN}
    \union {[Nothing EXCEPT !.path = p, !.has = {"messages", "system"}, !.msgs = t, !.sys = << <<"s1">> >>] :
        p \in {"converse", "messages"}, t \in Talks}

WithInput ==
    {[Nothing EXCEPT !.path = p, !.has = {"input"} \union h, !.input = n,
                     !.instr = IF "instructions" \in h THEN <<"i1">> ELSE <<>>] :
        p \in {"responses", "other"}, h \in {{}, {"instructions"}, RagFields},
        n \in {<<Item("whole", <<"c1", "c2", "c3">>)>>, <<Item("string", <<"c1">>), Item("string", <<"bad">>)>>,
               <<Item("object", <<"c1">>), Item("parts", <<"bad">>)>>}}

Templated(name, text) ==
    [Nothing EXCEPT !.has = {"template_name", "q"}, !.template = name, !.values = <<[key |-> "q", text |-> text]>>]

Untalking ==
    {Nothing, [Nothing EXCEPT !.path = "messages"], [Nothing EXCEPT !.has = {"model"}],
     [Nothing EXCEPT !.has = RagFields], [Nothing EXCEPT !.has = {"ai_rag"}],
     Templated("t1", <<"c1", "bad">>), Templated("t1", <<"c1", "c2", "c3">>),
     [Nothing EXCEPT !.has = {"template_name"}, !.template = "t2"],
     [Nothing EXCEPT !.has = {"template_name"}, !.template = "t3"]}

Body(kind, doc, typed) == [kind |-> kind, doc |-> doc, typed |-> typed]

Bodies ==
    {Body(k, Nothing, TRUE) : k \in {"empty", "blank", "text"}}
    \union {Body("json", d, TRUE) : d \in WithTalk \union WithInput \union Untalking}
    \union {Body("json", d, FALSE) : d \in Untalking}

Rewrites ==
    {Body(k, Nothing, TRUE) : k \in {"empty", "text"}}
    \union {Body("json", [Nothing EXCEPT !.has = {"messages"}, !.msgs = t], TRUE) : t \in Talks}

Guard(mode, roles, history, allow) ==
    [mode |-> mode, roles |-> roles, history |-> history, allow |-> allow, deny |-> {"bad"}]

Rewriter(provider, override, model) ==
    [provider |-> provider, override |-> override, model |-> model, maxTokens |-> FALSE, prompt |-> <<"rewrite">>]

Aliyun(mode, checkRequest) ==
    [mode |-> mode, checkRequest |-> checkRequest, limit |-> 2, bar |-> "high", denyCode |-> 200]

Conf ==
    [plugins |-> {"ai-proxy"}, proxyScope |-> "route",
     rewrite |-> Rewriter("openai", FALSE, TRUE), guard |-> Guard("error", TRUE, TRUE, {}),
     aws |-> [mode |-> "skip", threshold |-> 1, denyCode |-> 200, categories |-> [INSULT |-> 0]],
     aliyun |-> Aliyun("error", TRUE), found |-> <<"found">>,
     prepend |-> <<Message("system", <<"p1">>), Message("user", <<"p2">>)>>,
     append |-> <<Message("system", <<"a1">>), Message("user", <<"a2">>)>>,
     templates |->
        <<[name |-> "t1", messages |->
             <<[role |-> "system", text |-> <<[ref |-> FALSE, word |-> "t"]>>],
               [role |-> "user", text |-> <<[ref |-> TRUE, word |-> "q"], [ref |-> TRUE, word |-> "z"]>>]>>],
          [name |-> "t2", messages |-> <<>>]>>]

Guarded ==
    {{"ai-prompt-decorator", "ai-prompt-guard"}, {"ai-request-rewrite", "ai-prompt-guard"},
     {"ai-prompt-template", "ai-prompt-decorator", "ai-prompt-guard"},
     {"ai-prompt-guard", "ai-rag", "ai-aliyun-content-moderation"}}
Unguarded ==
    {{"ai-prompt-decorator", "ai-rag"}, {"ai-prompt-decorator", "ai-aliyun-content-moderation"},
     {"ai-aws-content-moderation"}}

Confs ==
    {[Conf EXCEPT !.plugins = @ \union s, !.guard = Guard(m, r, h, a)] :
        s \in Guarded, m \in {"error", "warn"}, r \in BOOLEAN, h \in BOOLEAN, a \in {{}, {"c1"}}}
    \union {[Conf EXCEPT !.plugins = @ \union s, !.proxyScope = sc, !.aws.mode = m, !.aliyun = Aliyun(am, c)] :
        s \in Unguarded, sc \in {"route", "global"}, m \in {"error", "skip"}, am \in {"error", "warn"}, c \in BOOLEAN}
    \union {[Conf EXCEPT !.plugins = @ \union {"ai-request-rewrite"}, !.rewrite = r] :
        r \in {Rewriter("bedrock", FALSE, TRUE), Rewriter("bedrock", FALSE, FALSE),
               Rewriter("anthropic", FALSE, TRUE), Rewriter("azure-openai", TRUE, TRUE)}}
    \union {[Conf EXCEPT !.plugins = @ \union {"ai-prompt-decorator"}, !.prepend = <<>>, !.append = <<>>]}

\* What the detection service answers for the categories of a text.
Comprehend ==
    {<<>>, <<[toxicity |-> 1, labels |-> [PROFANITY |-> 2]]>>,
     <<[toxicity |-> 1, labels |-> [INSULT |-> 1]]>>, <<[toxicity |-> 2, labels |-> [INSULT |-> 0]]>>}

(* Answers to be moderated.  Half a word is one read; a line is two halves  *)
(* and its end.                                                             *)

Half(word, n) == [word |-> word, part |-> n]
End == Half("", 0)
Line(word) == <<Half(word, 1), Half(word, 2), End>>
Done == <<Half("", 3), End>>

ModeratedStreams ==
    {Line("a") \o <<End>> \o Line("b") \o Line("c") \o Done,
     Line("a") \o Line("b") \o <<Half("c", 1), Half("c", 2)>>,
     Line("a") \o <<Half("x", 1), End>> \o Line("b") \o Done \o Line("c"), <<>>}

ModeratedAnswers == [status : {200, 500}, valid : BOOLEAN, text : {<<>>, <<"a">>}]

ModerationSettings ==
    {s \in [checkResponse : BOOLEAN, streamCheckMode : {"realtime", "final_packet"}, readable : BOOLEAN,
            streaming : BOOLEAN, failMode : {"error", "warn", "skip"}, cacheSize : {1, 2}] :
        ~(s.failMode = "error" /\ s.checkResponse /\ s.streamCheckMode = "realtime")}

-----------------------------------------------------------------------------
\* Every batch of up to three mutations of three consumers over two keys, and
\* of up to two when some row is malformed,
\* incremental or replacing the whole store.
ConsumerNames == {"alice", "bob", "carol"}

ConsumerTable == INSTANCE StoreBatch WITH Consumers <- ConsumerNames, Others <- {}, Keys <- {"k1", "k2"}

ConsumerRows == {ConsumerTable!None, ConsumerTable!Row("bad", {}, 1)} \cup {ConsumerTable!Row("ok", ks, 1) : ks \in {{"k1"}, {"k2"}, {"k1", "k2"}}}
ConsumerMutations ==
    {s \in UNION {[1 .. n -> [res : ConsumerNames, row : ConsumerRows]] : n \in 0 .. 3} :
        Len(s) = 3 => \A i \in DOMAIN s : s[i].row.st # "bad"}

StoreBatches == {ConsumerTable!Batch(s, replace, {}) : s \in ConsumerMutations, replace \in BOOLEAN}

-----------------------------------------------------------------------------
(* Parts                                                                   *)

Delivery == INSTANCE LogDelivery WITH
    MaxBody <- 2, Limits <- {0, 1}, Sizes <- {0, 3}, Loggers <- EntrySinks, pc <- v1,
    conf <- v2, plugin <- v3, other <- v4, late <- v5, sanitizers <- v6, body <- v7,
    captured <- v8, capture <- v9, reply <- v10, entry <- v11,
    Sinks <- BatchSinks, BatchSize <- 3, MaxRetryCount <- 2, SizeLimit <- 2,
    TokenLife <- 4, Skew <- 2, Delay <- 1, sink <- v1, size <- v2, left <- v3,
    attempt <- v4, status <- v5, copies <- v6, sure <- v7, gone <- v8, conn <- v9,
    stream <- v10, token <- v11, stale <- v12,
    Frames <- DOMAIN FrameSizes, FrameSize <- FrameSizes, FlushLimit <- 2, DropLimit <- 3,
    PoolSize <- 1, MaxTries <- 2, MaxConns <- 4, buffer <- v1, idle <- v2, wire <- v3,
    tries <- v4, state <- v5, discarded <- v6, closed <- v7

Shared == INSTANCE SharedState WITH
    Users <- {r1, r2, r3}, MaxEntries <- 4, MaxUses <- 2, registered <- v1, inserted <- v2,
    value <- v3, refs <- v4, closed <- v5, lock <- v6, stage <- v7, position <- v8,
    uses <- v9, failed <- v10,
    Instances <- {r1, r2, r3}, Plugins <- {"limit-count", "graphql-limit-count"},
    Groups <- {"g"}, Configs <- {"c", "d"}, NoGroup <- "none", MaxStores <- 4, table <- v1,
    inst <- v2, made <- v3,
    Keys <- {"k", "l", "m"}, TTLs <- {1, 3}, Cap <- 2, Slack <- 0, MaxSeq <- 4,
    MaxClock <- 3, entries <- v1, order <- v2, seq <- v3, clock <- v4,
    Callers <- {r1, r2}, Accounts <- {"a", "b"}, MaxTTL <- r1 :> 2 @@ r2 :> 1, Early <- 1,
    Life <- 2, DefaultLife <- 3, MaxTokenClock <- 3, tokenClock <- v1, cache <- v2,
    inflight <- v3, refresh <- v4, caller <- v5, last <- v6

Batches == INSTANCE BatchRetry WITH
    Consumers <- ConsumerNames, Others <- {}, Keys <- {"k1", "k2"}, Batches <- StoreBatches,
    table <- v1, before <- v2, sent <- v3, verdict <- v4

Matching == INSTANCE RouteMatching WITH
    Tables <- Tables, Requests <- Requests, Methods <- {"GET", "PUT"},
    Params <- {":x", ":y"}, table <- v1, registrar <- v2, answer <- v3

Publication == INSTANCE RoutePublication WITH
    Snapshots <- Snapshots, Strict <- TRUE, MaxGeneration <- 2, MaxEvents <- 2,
    MaxEntries <- 1, store <- v1, queue <- v2, answers <- v3, published <- v4,
    current <- v5, retired <- v6, ended <- v7, builds <- v8, observer <- v9,
    pending <- v10, lost <- v11, closing <- v12,
    Configs <- StreamConfigs, Peers <- Peers, MaxCommits <- 2, conf <- v1,
    commits <- v2, events <- v3, verdict <- v4, running <- v5, starting <- v6, table <- v7,
    streamRoutes <- v8, lastGood <- v9, shown <- v10, conns <- v11

Models == INSTANCE AIRequest WITH
    Exchanges <- Exchanges, Maps <- Maps, Own <- {1}, MaxLength <- 4,
    ask <- v1, instances <- v2, heap <- v3, attempt <- v4, sent <- v5, nameMap <- v6,
    answer <- v7,
    Requests <- {r1, r2}, Settings <- GatewaySettings, Costs <- {2}, MaxClock <- 1,
    cfg <- v1, nextSlot <- v2, healthy <- v3, clock <- v4, counters <- v5, reqs <- v6

Prompts == INSTANCE AIPrompts WITH
    Confs <- Confs, Bodies <- Bodies, Rewrites <- Rewrites,
    Comprehend <- Comprehend, Blank <- Blank, conf <- v1, body <- v2, left <- v3,
    picked <- v4, captured <- v5, judged <- v6, asked <- v7, told <- v8, answer <- v9

Answer == INSTANCE AIAnswer WITH
    Kinds <- {"sse", "aws", "anthropic"}, Owners <- {"ai-proxy", "ai-proxy-multi"},
    MaxLines <- 4, MaxTools <- 2, cfg <- v1, pc <- v2, lines <- v3, held <- v4, conv <- v5,
    usage <- v6, fw <- v7, client <- v8, request <- v9, outcome <- v10, counted <- v11,
    Streams <- ModeratedStreams, BufferedAnswers <- ModeratedAnswers,
    Settings <- ModerationSettings, MaxPiece <- 4, setting <- v1, status <- v2, rest <- v3,
    received <- v4, pending <- v5, content <- v6, moderated <- v7, sent <- v8,
    blocked <- v9, closed <- v10

ASSUME /\ Delivery!EntriesConfig /\ Delivery!SinksConfig /\ Delivery!TransportConfig /\ Shared!MapConfig
       /\ Matching!RoutesConfig /\ Publication!BuildConfig /\ Publication!StreamConfig
       /\ Models!ExchangeConfig /\ Prompts!PromptsConfig /\ Models!AIConfig
       /\ Shared!TokensConfig /\ Answer!ModerationConfig

\* The variables a part with fewer than twelve leaves alone.
after3 == <<v4, v5, v6, v7, v8, v9, v10, v11, v12>>
after4 == <<v5, v6, v7, v8, v9, v10, v11, v12>>
after6 == <<v7, v8, v9, v10, v11, v12>>
after7 == <<v8, v9, v10, v11, v12>>
after9 == <<v10, v11, v12>>
after10 == <<v11, v12>>
after11 == <<v12>>

Free11 == v12 = 0
Free10 == v11 = 0 /\ Free11
Free9 == v10 = 0 /\ Free10
Free7 == v8 = 0 /\ v9 = 0 /\ Free9
Free6 == v7 = 0 /\ Free7
Free4 == v5 = 0 /\ v6 = 0 /\ Free6
Free3 == v4 = 0 /\ Free4

Init ==
    \/ part = "entries" /\ Delivery!EntriesInit /\ Free11
    \/ part = "sinks" /\ Delivery!SinksInit
    \/ part = "syslog" /\ Delivery!SyslogInit /\ Free7
    \/ part = "clients" /\ Shared!ClientsInit /\ Free10
    \/ part = "ttlmap" /\ Shared!MapInit /\ Free4
    \/ part = "groups" /\ Shared!GroupsInit /\ Free3
    \/ part = "batches" /\ Batches!Init /\ Free4
    \/ part = "matching" /\ Matching!Init /\ Free3
    \/ part = "build" /\ Publication!BuildInit
    \/ part = "streams" /\ Publication!StreamsInit /\ Free11
    \/ part = "exchange" /\ Models!ExchangeInit /\ Free7
    \/ part = "prompts" /\ Prompts!Init /\ Free9
    \/ part = "gateway" /\ Models!GatewayInit /\ Free6
    \/ part = "tokens" /\ Shared!TokensInit /\ Free6
    \/ part = "aistream" /\ Answer!StreamInit /\ Free11
    \/ part = "moderation" /\ Answer!ModerationInit /\ Free10

Next ==
    \/ part = "entries" /\ Delivery!EntriesNext /\ UNCHANGED <<part, after11>>
    \/ part = "sinks" /\ Delivery!SinksNext /\ UNCHANGED part
    \/ part = "syslog" /\ Delivery!SyslogNext /\ UNCHANGED <<part, after7>>
    \/ part = "clients" /\ Shared!ClientsNext /\ UNCHANGED <<part, after10>>
    \/ part = "ttlmap" /\ Shared!MapNext /\ UNCHANGED <<part, after4>>
    \/ part = "groups" /\ Shared!GroupsNext /\ UNCHANGED <<part, after3>>
    \/ part = "batches" /\ Batches!Next /\ UNCHANGED <<part, after4>>
    \/ part = "matching" /\ Matching!Next /\ UNCHANGED <<part, after3>>
    \/ part = "build" /\ Publication!BuildNext /\ UNCHANGED part
    \/ part = "streams" /\ Publication!StreamsNext /\ UNCHANGED <<part, after11>>
    \/ part = "exchange" /\ Models!ExchangeNext /\ UNCHANGED <<part, after7>>
    \/ part = "prompts" /\ Prompts!Next /\ UNCHANGED <<part, after9>>
    \/ part = "gateway" /\ Models!GatewayNext /\ UNCHANGED <<part, after6>>
    \/ part = "tokens" /\ Shared!TokensNext /\ UNCHANGED <<part, after6>>
    \/ part = "aistream" /\ Answer!StreamNext /\ UNCHANGED <<part, after11>>
    \/ part = "moderation" /\ Answer!ModerationNext /\ UNCHANGED <<part, after10>>

Spec == Init /\ [][Next]_vars

\* Requests, users and callers are interchangeable.
Symmetry == Permutations({r1, r2})

-----------------------------------------------------------------------------
(* Properties                                                              *)

\* An access log entry holds the bodies its plugin's configuration asks for, up
\* to its limit and whichever plugin reads the body first, and no field that a
\* plugin declares secret leaves unmasked (log capture, LogFields). What a sink
\* reports delivered has arrived, is held by a producer or was dropped as too
\* large; no frame follows a torn one; and the syslog buffer loses only what it
\* counts as lost (SendBatch of the loggers, syslog transport).
LogsRight ==
    /\ part = "entries" => Delivery!BodiesAsConfigured /\ Delivery!NeverUnmasked
    /\ part = "sinks" => Delivery!ReportsHold /\ Delivery!TransportsClean
    /\ part = "syslog" => Delivery!FramesWhole /\ Delivery!OwnedIsKept

\* What plugin instances share: a client is closed once, after its last user;
\* the instances of a limit group have one configuration and one store until
\* the last one stops; the map of local counters finds an entry to evict; and a
\* service account's token is refreshed by one caller and never used past its
\* end.
SharedRight ==
    /\ part = "clients" => Shared!ClientsRight
    /\ part = "groups" => Shared!GroupsTypeOK /\ Shared!GroupsAgree
    /\ part = "ttlmap" => Shared!MapTypeOK /\ Shared!Tracked
    /\ part = "tokens" => Shared!TokensTypeOK /\ Shared!TokensRight /\ Shared!RefreshShared

\* A batch is accepted exactly when the table it would leave is valid, a key
\* stays with the consumer that holds and still claims it, and an accepted
\* retry keeps the last good row of what it excluded (the store's batch
\* validation and the pruned retry of the etcd client).
VerdictRight == part = "batches" => Batches!VerdictRight

\* A build publishes exactly what the routes of its snapshot ask for or nothing,
\* everything a failed build started is stopped once, a refused event is
\* answered as refused, and the error log observer belongs to the published
\* generation; a stream table is always one whole configuration (Builder.Build,
\* reloadStreamRoutesIfStarted). A request is answered by the route the
\* configuration means: the URI most specific to the router, then the host,
\* then priority and order; and it is refused, with the methods that are
\* allowed, only when no route takes it.
RoutesRight ==
    /\ part = "build" => /\ Publication!BuildTypeOK /\ Publication!OwnedOnce /\ Publication!PublishedRight
                         /\ Publication!AnswersRight /\ Publication!ObserverRight
    /\ part = "streams" => Publication!StreamsTypeOK /\ Publication!TableRight
    /\ part = "matching" => Matching!TypeOK /\ Matching!AnsweredRight /\ Matching!RefusedRight

\* A request to a model: each attempt's document is the client's with the
\* configured overrides and nothing of another attempt; tools keep their
\* identity through a conversion; prompts are composed, guarded and judged in
\* the order of the plugins; and instances are charged what they used. Its
\* answer: the events a client is sent form one
\* well-formed message whatever the provider's lines are, a failed stream says
\* so, and text that is moderated is judged once, in order, before the client
\* has it.
AIRight ==
    /\ part = "exchange" => /\ Models!ExchangeTypeOK /\ Models!SentRight
                            /\ Models!ConversionRight /\ Models!AnsweredRight
    /\ part = "prompts" => Prompts!TypeOK /\ Prompts!Composed /\ Prompts!GuardedRight /\ Prompts!JudgedRight
    /\ part = "gateway" => Models!GatewayTypeOK /\ Models!UsageRight /\ Models!AttemptsRight
    /\ part = "aistream" => Answer!StreamTypeOK /\ Answer!MessageWellFormed /\ Answer!ClientToldRight
    /\ part = "moderation" =>
         Answer!ModerationTypeOK /\ Answer!TextJudgedOnce /\ Answer!DenialEnds /\ Answer!BufferedRight

\* What a step may not do: send an entry again that its sink knows to have
\* arrived; change the stream table in a reload that fails, or the connections
\* in any; pick an instance over a healthy untried one of higher priority; evict
\* a counter while one that ends earlier stays.
StepsRight ==
    [][/\ part = "sinks" => Delivery!ConfirmedOnce
       /\ part = "streams" => Publication!FailedReloadKeeps
       /\ part = "gateway" => Models!PicksRight
       /\ part = "ttlmap" => Shared!EvictsEarliest]_vars

\* A pruned retry is accepted, because it is validated again (retryable).
RetryValidates == part = "batches" => Batches!RetryValidates

\* The error log observer of a generation runs with the plugin metadata the
\* store holds.
ObserverConfigured == part = "build" => Publication!ObserverConfigured

=============================================================================
