----------------------------- MODULE LogDelivery -----------------------------
(***************************************************************************)
(* How log entries are made and leave the gateway: what an entry holds, the *)
(* delivery of a batch by a sink, and the buffered transport of the syslog *)
(* logger. Three state machines, each with its own variables.              *)
(***************************************************************************)
EXTENDS Integers, Sequences, FiniteSets, SequencesExt, FiniteSetsExt, TLC

-----------------------------------------------------------------------------
(***************************************************************************)
(* What a logger of a route writes about one request.                      *)
(*                                                                         *)
(* Every log sink turns its configuration and its plugin metadata into a   *)
(* capture policy (PostInit, LogCapturePolicy).  The log executor captures *)
(* the request and the response body once, at the largest limit any bound  *)
(* logger asks for, may capture again when the authenticated consumer      *)
(* brings loggers of its own, seals the body before the proxy phase, and   *)
(* after the response runs the sanitizers and then every logger on a       *)
(* private clone cut to that logger's own limit (pkg/plugin/log_executor). *)
(*                                                                         *)
(* A body is its length, a log format the set of variables it names: the   *)
(* three body variables, "route_id" for any other one, "empty" for a       *)
(* format object without fields.  Responses are not content-encoded.       *)
(***************************************************************************)

CONSTANTS
    MaxBody,   \* MAX_REQ_BODY = MAX_RESP_BODY
    Limits,    \* configured max_{req,resp}_body_bytes; 0: not configured
    Sizes,     \* body lengths
    Loggers      \* the log sinks configured

Sides == {"request", "response"}

EntriesConfig ==
    /\ MaxBody \in Nat \ {0}
    /\ Limits \subseteq 0 .. MaxBody
    /\ Sizes \subseteq Nat

VARIABLES
    pc,         \* where the request is
    conf,       \* the configuration and the metadata of the logger observed
    plugin,     \* that logger after PostInit
    other,      \* the body limit of another logger of the same route
    late,       \* which of the two loggers the consumer brings
    sanitizers, \* bound sanitizers, and whether one fails
    body,       \* the request's body: its length and whether reading fails
    captured,      \* LogRequestState
    capture,    \* ResponseCapture
    reply,      \* length of the response body
    entry       \* what the observed logger enqueued

entriesVars == <<pc, conf, plugin, other, late, sanitizers, body, captured, capture,
          reply, entry>>

-----------------------------------------------------------------------------
(* Configurations: what each sink's schema and Config accept. *)

BodyFormats == {{}, {"route_id"}, {"request_body"}, {"response_body"}, {"resp_body"}}
Includes == [Sides -> BOOLEAN]

Configs(sink, includes, limits, formats, extras, labels, origins) ==
    [sink : {sink}, include : includes, limit : limits, format : formats,
     extra : extras, labels : labels, origin : origins]

BodyConfigs(sink) ==
    Configs(sink, Includes, Limits, BodyFormats, {{}}, {{}}, {FALSE})

NoBodies == {[s \in Sides |-> FALSE]}

ElasticsearchConfigs == BodyConfigs("elasticsearch")
ClickhouseConfigs == BodyConfigs("clickhouse")
TencentConfigs == BodyConfigs("tencent")
HTTPConfigs == BodyConfigs("http")
TCPConfigs == BodyConfigs("tcp")
UDPConfigs == BodyConfigs("udp")
SLSConfigs == BodyConfigs("sls")
LogglyConfigs == BodyConfigs("loggly")
SkyWalkingConfigs == BodyConfigs("skywalking")
KafkaConfigs ==
    Configs("kafka", Includes, Limits, BodyFormats, {{}}, {{}}, BOOLEAN)
RocketMQConfigs ==
    Configs("rocketmq", Includes, Limits, BodyFormats, {{}}, {{}}, BOOLEAN)
LokiConfigs ==
    Configs("loki", Includes, Limits, BodyFormats, {{}}, {{}, {"response_body"}}, {FALSE})
SyslogConfigs ==
    Configs("syslog", Includes, Limits, BodyFormats \cup {{"empty"}},
            {{}, {"request_body"}}, {{}}, {FALSE})
SplunkConfigs ==
    Configs("splunk", NoBodies, {0}, BodyFormats \cup {{"empty"}},
            {{}, {"request_body"}}, {{}}, {FALSE})
GoogleConfigs == Configs("google", NoBodies, {0}, BodyFormats, {{}}, {{}}, {FALSE})
\* lago's format is the set of variables its event templates name.
LagoConfigs == BodyConfigs("lago")
DatadogConfigs == Configs("datadog", NoBodies, {0}, {{}}, {{}}, {{}}, {FALSE})

AllConfigs ==
    UNION {ElasticsearchConfigs, ClickhouseConfigs, TencentConfigs, HTTPConfigs,
           TCPConfigs, UDPConfigs, SLSConfigs, LogglyConfigs, SkyWalkingConfigs,
           KafkaConfigs, RocketMQConfigs, LokiConfigs, SyslogConfigs,
           SplunkConfigs, GoogleConfigs, LagoConfigs, DatadogConfigs}

Metadata == [format : {{}, {"request_body"}}, extra : {{"response_body"}}]

-----------------------------------------------------------------------------
(* PostInit. *)

HasFields(format) == format \ {"empty"} # {}

\* RequireStringLogFormat and the loggers' own "config, else metadata".
Chosen(c, m) == IF HasFields(c.format) THEN c.format ELSE m.format

Default(limit) == IF limit = 0 THEN MaxBody ELSE limit

\* SetLogCapturePolicy: `bytes` are the limits the base logger knows of.
WithPolicy(c, format, extra) ==
    [c EXCEPT !.limit = Default(@), !.format = format, !.extra = extra]
        @@ [bytes |-> Default(c.limit), failed |-> FALSE]

WithoutPolicy(c, format, extra) ==
    [c EXCEPT !.format = format, !.extra = extra] @@ [bytes |-> 0, failed |-> FALSE]

Rejected(c) == c @@ [bytes |-> 0, failed |-> TRUE]

RequiringFormat(c, m) ==
    IF HasFields(Chosen(c, m)) THEN WithPolicy(c, Chosen(c, m), {}) ELSE Rejected(c)

ElasticsearchPostInit(c, m) == RequiringFormat(c, m)
ClickhousePostInit(c, m) == RequiringFormat(c, m)
TencentPostInit(c, m) == RequiringFormat(c, m)
HTTPPostInit(c, m) == WithPolicy(c, Chosen(c, m), {})
TCPPostInit(c, m) == WithPolicy(c, Chosen(c, m), {})
UDPPostInit(c, m) == WithPolicy(c, Chosen(c, m), {})
SLSPostInit(c, m) == WithPolicy(c, Chosen(c, m), {})
LogglyPostInit(c, m) == WithPolicy(c, Chosen(c, m), {})
SkyWalkingPostInit(c, m) == WithPolicy(c, Chosen(c, m), {})
KafkaPostInit(c, m) == WithPolicy(c, Chosen(c, m), {})
RocketMQPostInit(c, m) == WithPolicy(c, Chosen(c, m), {})
LagoPostInit(c, m) == WithPolicy(c, c.format, {})
\* The metadata's extra fields come with the metadata's format.
LokiPostInit(c, m) ==
    WithPolicy(c, Chosen(c, m), IF HasFields(c.format) THEN {} ELSE m.extra)
\* selectLogFormats: a format, even an empty one, leaves no room for extras.
SelectLogFormats(c, m) ==
    CASE c.format # {} -> <<c.format, {}>>
      [] c.format = {} /\ HasFields(m.format) -> <<m.format, {}>>
      [] OTHER -> <<{}, IF c.extra # {} THEN c.extra ELSE m.extra>>
SyslogPostInit(c, m) ==
    WithPolicy(c, SelectLogFormats(c, m)[1], SelectLogFormats(c, m)[2])
SplunkPostInit(c, m) ==
    WithoutPolicy(c, IF c.format # {} THEN c.format ELSE m.format,
                  IF c.format # {} \/ m.format # {} THEN {}
                  ELSE IF c.extra # {} THEN c.extra ELSE m.extra)
GooglePostInit(c, m) == WithoutPolicy(c, Chosen(c, m), {})
DatadogPostInit(c, m) == WithoutPolicy(c, {}, {})

PostInitOf(c, m) ==
    CASE c.sink = "elasticsearch" -> ElasticsearchPostInit(c, m)
      [] c.sink = "clickhouse" -> ClickhousePostInit(c, m)
      [] c.sink = "tencent" -> TencentPostInit(c, m)
      [] c.sink = "http" -> HTTPPostInit(c, m)
      [] c.sink = "tcp" -> TCPPostInit(c, m)
      [] c.sink = "udp" -> UDPPostInit(c, m)
      [] c.sink = "sls" -> SLSPostInit(c, m)
      [] c.sink = "loggly" -> LogglyPostInit(c, m)
      [] c.sink = "skywalking" -> SkyWalkingPostInit(c, m)
      [] c.sink = "kafka" -> KafkaPostInit(c, m)
      [] c.sink = "rocketmq" -> RocketMQPostInit(c, m)
      [] c.sink = "lago" -> LagoPostInit(c, m)
      [] c.sink = "loki" -> LokiPostInit(c, m)
      [] c.sink = "syslog" -> SyslogPostInit(c, m)
      [] c.sink = "splunk" -> SplunkPostInit(c, m)
      [] c.sink = "google" -> GooglePostInit(c, m)
      [] c.sink = "datadog" -> DatadogPostInit(c, m)

-----------------------------------------------------------------------------
(* LogCapturePolicy. *)

Nothing == [s \in Sides |-> 0]
Larger(a, b) == [s \in Sides |-> Max({a[s], b[s]})]

LogCapturePolicyForFormats(limit, formats) ==
    [s \in Sides |->
        IF \E f \in formats :
              f \cap (IF s = "request" THEN {"request_body"}
                                       ELSE {"resp_body", "response_body"}) # {}
        THEN Default(limit) ELSE 0]

BasePolicy(p, formats) ==
    LET formatted == LogCapturePolicyForFormats(p.bytes, formats)
    IN  [s \in Sides |-> IF p.include[s] \/ formatted[s] > 0
                         THEN Default(p.bytes) ELSE 0]

LokiPolicy(p) ==
    Larger(BasePolicy(p, {p.format}),
           LogCapturePolicyForFormats(p.limit, {p.extra, p.labels}))
SplunkPolicy(p) ==
    Larger(BasePolicy(p, {p.format}), LogCapturePolicyForFormats(p.bytes, {p.extra}))

\* lago tells the base logger of no format, datadog asks for no body at all.
LogCapturePolicy(p) ==
    CASE p.sink = "loki" -> LokiPolicy(p)
      [] p.sink = "splunk" -> SplunkPolicy(p)
      [] p.sink = "datadog" -> Nothing
      [] p.sink = "lago" -> BasePolicy(p, {})
      [] OTHER -> BasePolicy(p, {p.format, p.extra})

-----------------------------------------------------------------------------
(* RunLogPhase: the entry a sink builds from its clone of the snapshot.    *)
(* `included` are the bodies under request.body and response.body,         *)
(* `fields` the expansions of the body variables of formats and labels.    *)

\* SnapshotRequestBody, SnapshotResponseBody
Included(p, snap) ==
    [s \in Sides |-> IF p.include[s] /\ snap.matches
                     THEN Min({snap.body[s], p.limit}) ELSE 0]

\* GetFieldsFromSnapshot: snapshotField knows no $resp_body.
Expand(names, snap) ==
    [s \in Sides |-> IF (IF s = "request" THEN "request_body" ELSE "response_body")
                            \in names
                     THEN snap.body[s] ELSE 0]

Entry(included, fields, snap) ==
    [logged |-> TRUE, included |-> included, fields |-> fields,
     masks |-> snap.masks, cut |-> snap.cut, matches |-> snap.matches]
NoEntry == [logged |-> FALSE, included |-> Nothing, fields |-> Nothing,
            masks |-> {}, cut |-> [s \in Sides |-> FALSE], matches |-> FALSE]

BaseRunLogPhase(p, snap) == Entry(Included(p, snap), Expand(p.format, snap), snap)

ElasticsearchRunLogPhase(p, snap) == BaseRunLogPhase(p, snap)
TencentRunLogPhase(p, snap) == BaseRunLogPhase(p, snap)
TCPRunLogPhase(p, snap) == BaseRunLogPhase(p, snap)
UDPRunLogPhase(p, snap) == BaseRunLogPhase(p, snap)
SLSRunLogPhase(p, snap) == BaseRunLogPhase(p, snap)
LogglyRunLogPhase(p, snap) == BaseRunLogPhase(p, snap)
SkyWalkingRunLogPhase(p, snap) == BaseRunLogPhase(p, snap)

\* http-logger gates its format's body variables too, and knows $resp_body.
HTTPRunLogPhase(p, snap) ==
    LET seen == [snap EXCEPT !.body = [s \in Sides |->
                    IF snap.matches THEN Min({@[s], LogCapturePolicy(p)[s]}) ELSE 0]]
        names == p.format \cup (IF "resp_body" \in p.format THEN {"response_body"} ELSE {})
    IN  Entry(Included(p, seen), Expand(names, seen), snap)

\* meta_format "origin": the raw request, and of the bodies only its own.
OriginEntry(p, snap) ==
    Entry([Included(p, snap) EXCEPT !["response"] = 0], Nothing, snap)
KafkaRunLogPhase(p, snap) ==
    IF p.origin THEN OriginEntry(p, snap) ELSE BaseRunLogPhase(p, snap)
RocketMQRunLogPhase(p, snap) ==
    IF p.origin THEN OriginEntry(p, snap) ELSE BaseRunLogPhase(p, snap)

LokiRunLogPhase(p, snap) ==
    Entry(Included(p, snap), Expand(p.format \cup p.extra \cup p.labels, snap), snap)
SyslogRunLogPhase(p, snap) ==
    Entry(Included(p, snap), Expand(p.format \cup p.extra, snap), snap)
SplunkRunLogPhase(p, snap) ==
    Entry(Nothing, Expand(p.format \cup p.extra, snap), snap)
GoogleRunLogPhase(p, snap) == Entry(Nothing, Expand(p.format, snap), snap)
DatadogRunLogPhase(p, snap) == Entry(Nothing, Nothing, snap)

\* lagoSnapshotFields ignores the expressions; a template's body variable
\* finds a body only where that body is included.
LagoRunLogPhase(p, snap) ==
    LET seen == [snap EXCEPT !.matches = TRUE]
    IN  Entry(Included(p, seen), Expand(p.format, seen), snap)

RunLogPhase(p, snap) ==
    CASE p.sink = "elasticsearch" -> ElasticsearchRunLogPhase(p, snap)
      [] p.sink = "clickhouse" -> BaseRunLogPhase(p, snap)
      [] p.sink = "tencent" -> TencentRunLogPhase(p, snap)
      [] p.sink = "http" -> HTTPRunLogPhase(p, snap)
      [] p.sink = "tcp" -> TCPRunLogPhase(p, snap)
      [] p.sink = "udp" -> UDPRunLogPhase(p, snap)
      [] p.sink = "sls" -> SLSRunLogPhase(p, snap)
      [] p.sink = "loggly" -> LogglyRunLogPhase(p, snap)
      [] p.sink = "skywalking" -> SkyWalkingRunLogPhase(p, snap)
      [] p.sink = "kafka" -> KafkaRunLogPhase(p, snap)
      [] p.sink = "rocketmq" -> RocketMQRunLogPhase(p, snap)
      [] p.sink = "lago" -> LagoRunLogPhase(p, snap)
      [] p.sink = "loki" -> LokiRunLogPhase(p, snap)
      [] p.sink = "syslog" -> SyslogRunLogPhase(p, snap)
      [] p.sink = "splunk" -> SplunkRunLogPhase(p, snap)
      [] p.sink = "google" -> GoogleRunLogPhase(p, snap)
      [] p.sink = "datadog" -> DatadogRunLogPhase(p, snap)

-----------------------------------------------------------------------------
(* The log executor. *)

NoState == [here |-> FALSE, max |-> 0, captured |-> 0, got |-> 0, truncated |-> FALSE,
            bound |-> {}, sameRequest |-> FALSE, sameBody |-> FALSE]
NoCapture == [limit |-> 0, got |-> 0, truncated |-> FALSE]

EntriesInit ==
    /\ pc = "init"
    /\ conf \in {[config |-> c, metadata |-> m] :
                    c \in {k \in AllConfigs : k.sink \in Loggers}, m \in Metadata}
    /\ plugin = Rejected(conf.config)
    /\ other = 0
    /\ late = {}
    /\ sanitizers = [bound |-> {}, fails |-> FALSE]
    /\ body = [size |-> 0, broken |-> FALSE]
    /\ captured = NoState
    /\ capture = NoCapture
    /\ reply = 0
    /\ entry = NoEntry

\* The configuration becomes a logger, or is refused.
PostInit ==
    /\ pc = "init"
    /\ plugin' = PostInitOf(conf.config, conf.metadata)
    /\ pc' = IF plugin'.failed THEN "refused" ELSE "request"
    /\ UNCHANGED <<conf, other, late, sanitizers, body, captured, capture, reply, entry>>

\* NewLogExecutor: the largest limits of a set of bindings.
Limit(bindings) ==
    Larger(IF "mine" \in bindings THEN LogCapturePolicy(plugin) ELSE Nothing,
           IF "other" \in bindings THEN [s \in Sides |-> other] ELSE Nothing)

\* EnableBodyCapture: nothing is written yet, so only the limit changes.
Enabled(limit) ==
    [capture EXCEPT !.limit = IF limit = 0 THEN 0 ELSE Max({@, limit})]

\* readAndRestoreBody
Read(limit) == [got |-> Min({body.size, limit}), truncated |-> body.size > limit]

\* The first Prepare of a request that carries no log state.
Fresh(bindings) ==
    LET limit == Limit(bindings)["request"]
        read  == Read(limit)
    IN  [here |-> TRUE, max |-> limit, captured |-> limit,
         got |-> IF limit = 0 \/ body.broken THEN 0 ELSE read.got,
         truncated |-> limit > 0 /\ ~body.broken /\ read.truncated,
         bound |-> bindings, sameRequest |-> TRUE, sameBody |-> TRUE]

\* A second Prepare keeps what was captured unless more is asked for now.
Again_Stale(bindings) ==
    [captured EXCEPT !.max = Limit(bindings)["request"], !.bound = bindings]

Again(bindings) ==
    LET limit == Limit(bindings)["request"]
        more  == limit > captured.captured
        read  == Read(limit)
    IN  [captured EXCEPT !.max = limit, !.bound = bindings,
            !.got = IF ~more THEN @ ELSE IF body.broken THEN 0 ELSE read.got,
            !.truncated = IF ~more THEN @ ELSE ~body.broken /\ read.truncated,
            !.captured = IF more THEN limit ELSE @,
            !.sameBody = @ \/ more]

Fails(bindings) ==
    body.broken /\ Limit(bindings)["request"] > captured.captured

\* The static executor prepares the request when it enters the pipeline.
Prepare ==
    /\ pc = "request"
    /\ other' \in {0, MaxBody}
    /\ late' \in {{}, {"mine"}, {"other"}}
    /\ sanitizers' \in [bound : {{1, 2}}, fails : BOOLEAN]
                          \cup [bound : {{}}, fails : {FALSE}]
    /\ body' \in [size : Sizes, broken : BOOLEAN]
    /\ pc' = "prepare"
    /\ UNCHANGED <<conf, plugin, captured, capture, reply, entry>>

PrepareStatic ==
    /\ pc = "prepare"
    /\ LET bindings == {"mine", "other"} \ late
       IN  /\ captured' = Fresh(bindings)
           /\ capture' = Enabled(Limit(bindings)["response"])
           /\ pc' = IF Fails(bindings) THEN "sealed" ELSE "access"
    /\ UNCHANGED <<conf, plugin, other, late, sanitizers, body, reply, entry>>

\* A plugin hands on a request with a context of its own, or a new body.
AttachContext ==
    /\ pc = "access"
    /\ captured.sameRequest
    /\ captured' = [captured EXCEPT !.sameRequest = FALSE]
    /\ UNCHANGED <<pc, conf, plugin, other, late, sanitizers, body, capture, reply, entry>>

RewriteBody ==
    /\ pc = "access"
    /\ captured.sameBody /\ ~body.broken
    /\ \E n \in Sizes : body' = [body EXCEPT !.size = n]
    /\ captured' = [captured EXCEPT !.sameBody = FALSE]
    /\ UNCHANGED <<pc, conf, plugin, other, late, sanitizers, capture, reply, entry>>

\* The consumer's loggers join: the materialized executor prepares again.
PrepareMaterialized ==
    /\ pc = "access"
    /\ late # {}
    /\ LET bindings == {"mine", "other"}
       IN  /\ capture' = Enabled(Limit(bindings)["response"])
           /\ captured' = Again(bindings)
           /\ pc' = IF Fails(bindings) THEN "sealed" ELSE "access"
    /\ late' = {}
    /\ UNCHANGED <<conf, plugin, other, sanitizers, body, reply, entry>>

\* SealFinalRequest; a failing read leaves the prefix it had got.
Seal ==
    /\ pc = "access"
    /\ late = {}
    /\ LET reread == ~(captured.sameRequest /\ captured.sameBody) /\ captured.max > 0
           read   == Read(captured.max)
       IN  \/ /\ ~reread
              /\ UNCHANGED captured
           \/ /\ reread /\ ~body.broken
              /\ captured' = [captured EXCEPT !.got = read.got, !.truncated = read.truncated]
           \/ /\ reread /\ body.broken
              /\ \E k \in 0 .. read.got :
                    captured' = [captured EXCEPT !.got = k, !.truncated = FALSE]
    /\ pc' = "sealed"
    /\ UNCHANGED <<conf, plugin, other, late, sanitizers, body, capture, reply, entry>>

\* The response passes the capture.
Respond ==
    /\ pc = "sealed"
    /\ \E n \in Sizes :
          /\ reply' = n
          /\ capture' = [capture EXCEPT !.got = Min({n, capture.limit}),
                                        !.truncated = capture.limit > 0 /\ n > capture.limit]
    /\ pc' = "responded"
    /\ UNCHANGED <<conf, plugin, other, late, sanitizers, body, captured, entry>>

\* boundedBody, for one side of a snapshot
Bounded(n, cut, limit) ==
    IF limit <= 0 THEN <<0, FALSE>>
    ELSE IF n > limit THEN <<limit, TRUE>> ELSE <<n, cut>>

CloneLogSnapshotForPolicy(snap, policy) ==
    [snap EXCEPT
        !.body = [s \in Sides |-> Bounded(snap.body[s], snap.cut[s], policy[s])[1]],
        !.cut  = [s \in Sides |-> Bounded(snap.body[s], snap.cut[s], policy[s])[2]]]

\* ShouldSanitizeLogSnapshot: the second sanitizer looks for the text the
\* first one masks.
Selects(i, snap) == i = 1 \/ snap.masks = {}

\* Every selector sees the snapshot before any sanitizer ran.
Sanitized_InTurn(snap) ==
    LET first == IF 1 \in sanitizers.bound THEN {1} ELSE {}
        then  == IF 2 \in sanitizers.bound
                    /\ Selects(2, [snap EXCEPT !.masks = first]) THEN {2} ELSE {}
    IN  [snap EXCEPT !.masks = first \cup then]

Sanitized(snap) ==
    [snap EXCEPT !.masks = {i \in sanitizers.bound : Selects(i, snap)}]

\* runComposite: a failing sanitizer stops it, a failing logger does not.
RunComposite ==
    /\ pc = "responded"
    /\ \E matches \in BOOLEAN :
          LET snap == [body |-> [s \in Sides |-> IF s = "request" THEN captured.got
                                                 ELSE capture.got],
                       cut |-> [s \in Sides |-> IF s = "request" THEN captured.truncated
                                                ELSE capture.truncated],
                       masks |-> {}, matches |-> matches]
          IN  entry' = IF sanitizers.fails \/ "mine" \notin captured.bound
                       THEN NoEntry
                       ELSE RunLogPhase(plugin,
                               CloneLogSnapshotForPolicy(Sanitized(snap),
                                                         LogCapturePolicy(plugin)))
    /\ pc' = "logged"
    /\ UNCHANGED <<conf, plugin, other, late, sanitizers, body, captured, capture, reply>>

EntriesNext ==
    \/ PostInit
    \/ Prepare
    \/ PrepareStatic
    \/ AttachContext
    \/ RewriteBody
    \/ PrepareMaterialized
    \/ Seal
    \/ Respond
    \/ RunComposite

EntriesSpec == EntriesInit /\ [][EntriesNext]_entriesVars

-----------------------------------------------------------------------------
(* Properties. *)

\* What the configuration of the logger asks for, side by side.
Ceiling == Default(conf.config.limit)
Named(s) ==
    (IF s = "request" THEN "request_body" ELSE "response_body")
        \in plugin.format \cup plugin.extra \cup plugin.labels
Full(s) == IF s = "request" THEN body.size ELSE reply
Readable(s) == s = "response" \/ ~body.broken

\* An entry holds each body exactly as far as its own logger's configuration
\* asks: request.body and response.body are the whole final body cut at that
\* logger's limit, whatever the limits of the other loggers bound to the
\* route, whenever the logger was bound, and however often the body was read,
\* replaced or handed on under another request before the seal.
BodiesAsConfigured ==
    (pc = "logged" /\ entry.logged) =>
        \A s \in Sides : Readable(s) =>
            /\ entry.included[s] =
                  IF /\ plugin.include[s]
                     /\ entry.matches \/ plugin.sink = "lago"
                     /\ ~(plugin.origin /\ s = "response")
                  THEN Min({Full(s), Ceiling}) ELSE 0
            /\ (Named(s) /\ ~plugin.origin /\ plugin.sink \notin {"http", "lago"}) =>
                  entry.fields[s] = Min({Full(s), Ceiling})
            /\ entry.fields[s] <= Ceiling
            /\ (LogCapturePolicy(plugin)[s] > 0 =>
                  (entry.cut[s] <=> Full(s) > LogCapturePolicy(plugin)[s]))

\* A sanitizer the unmasked entry calls for has always run before any logger
\* sees the entry, and when one fails no logger sees it at all.
NeverUnmasked ==
    entry.logged => /\ entry.masks = sanitizers.bound
                    /\ ~sanitizers.fails

-----------------------------------------------------------------------------
(***************************************************************************)
(* How the log sinks deliver one batch of entries.                         *)
(*                                                                         *)
(* The batch processor calls a sink's SendBatch with the entries it still  *)
(* owes and reads its answer (firstFail, err): no error means all of them  *)
(* arrived, an error with a firstFail beyond 1 that the entries before it  *)
(* did.  The rest is offered again, at most MaxRetryCount times.           *)
(*                                                                         *)
(* A SendBatch is the set of its possible outcomes: what it answers, which *)
(* positions of the batch the other side took, which of those the sink was *)
(* told of one by one, and the connection it leaves behind.  HTTP answers  *)
(* are 200, 204, 400 and 503; redirects are left out.                      *)
(***************************************************************************)

CONSTANTS
    Sinks,          \* the sinks that deliver
    BatchSize,      \* entries in the batch
    MaxRetryCount,
    SizeLimit,      \* CLS log group and UDP datagram limit
    TokenLife,      \* lifetime of a Google access token, in ticks
    Skew,           \* tokenRefreshSkew, in ticks
    Delay           \* the longest a request is under way, in ticks

SinksConfig ==
    /\ BatchSize \in Nat \ {0} /\ MaxRetryCount \in Nat
    /\ SizeLimit \in Nat /\ TokenLife > Skew /\ Skew > Delay

VARIABLES
    sink,     \* the sink of this batch
    size,     \* the encoded size of every entry
    left,     \* the entries still owed
    attempt,
    status,   \* what the processor recorded of each entry
    copies,   \* how often the other side took it
    sure,     \* entries the sink was told arrived
    gone,     \* entries handed to an asynchronous producer, or dropped
    conn,     \* the cached connection: "none", "open" or "closed"
    stream,   \* whether that connection carries a torn frame
    token,    \* ticks until the cached access token expires
    stale     \* whether an expired token was ever presented

sinksVars == <<sink, size, left, attempt, status, copies, sure, gone, conn, stream,
          token, stale>>

Entries == 1 .. BatchSize

-----------------------------------------------------------------------------
(* Outcomes. *)

Out(first, err, took, told) ==
    [first |-> first, err |-> err, took |-> took, told |-> told, aside |-> {},
     conn |-> conn, torn |-> FALSE]

Answers == {200, 204, 400, 503}

\* One request with all n entries: never sent, sent with the answer lost, or
\* answered with a status the sink accepts or not.
Post(n, Accepts(_)) ==
    {Out(0, TRUE, {}, {}), Out(0, TRUE, 1 .. n, {})}
    \cup {Out(0, ~Accepts(s), IF s < 300 THEN 1 .. n ELSE {}, {}) : s \in Answers}

BelowError(s) == s < 400
BelowRedirect(s) == s < 300
OnlyOK(s) == s = 200

HTTPSendBatch(n) == Post(n, BelowError)
ClickhouseSendBatch(n) == Post(n, BelowError)
SkyWalkingSendBatch(n) == Post(n, BelowError)
LokiSendBatch(n) == Post(n, BelowRedirect)
LagoSendBatch(n) == Post(n, BelowRedirect)
SplunkSendBatch(n) == Post(n, OnlyOK)

\* bulkResultFailure: the first failing item, counted from 1; an answer that
\* cannot be read, or that reports errors without an item, fails at 1.
BulkResultFailure_ZeroBased(n, failing) ==
    IF failing = {} THEN Out(0, FALSE, 1 .. n, 1 .. n)
    ELSE Out(Min(failing) - 1, TRUE, (1 .. n) \ failing, 1 .. (Min(failing) - 1))

BulkResultFailure(n, failing) ==
    IF failing = {} THEN Out(0, FALSE, 1 .. n, 1 .. n)
    ELSE Out(Min(failing), TRUE, (1 .. n) \ failing, 1 .. (Min(failing) - 1))

ElasticsearchSendBatch(n) ==
    {Out(0, TRUE, {}, {}), Out(0, TRUE, 1 .. n, {}), Out(1, TRUE, 1 .. n, {})}
    \cup {BulkResultFailure(n, failing) : failing \in SUBSET (1 .. n)}

\* buildBatchPayload: an entry over the limit is left out, and from the first
\* one that no longer fits beside the others the rest of the batch too.
KeptByCLS(batch) ==
    LET fits  == {i \in DOMAIN batch : size[batch[i]] <= SizeLimit}
        total(i) == MapThenSumSet(LAMBDA j : size[batch[j]], {j \in fits : j <= i})
    IN  {i \in fits : \A j \in fits : j <= i => total(j) <= SizeLimit}

TencentSendBatch(batch) ==
    LET kept == KeptByCLS(batch)
    IN  {[o EXCEPT !.took = @ \cap kept, !.aside = IF o.err THEN {} ELSE DOMAIN batch \ kept] :
            o \in IF kept = {} THEN {Out(0, FALSE, {}, {})}
                  ELSE Post(Len(batch), BelowRedirect)}

\* WriteMessages: an asynchronous producer takes the message and says nothing.
KafkaSendBatch(n) ==
    {Out(0, TRUE, {}, {}), Out(0, TRUE, 1 .. n, {}), Out(0, FALSE, 1 .. n, {}),
     [Out(0, FALSE, {}, {}) EXCEPT !.aside = 1 .. n]}
RocketMQSendBatch(n) ==
    {Out(0, TRUE, {}, {}), Out(0, TRUE, 1 .. n, {}), Out(0, FALSE, 1 .. n, {})}

\* One datagram per entry on a cached socket, which an error closes.
Datagrams(n, faults) ==
    {[Out(0, FALSE, 1 .. n, 1 .. n) EXCEPT !.conn = "open"]}
    \cup {[Out(i, TRUE, 1 .. (i - 1 + k), 1 .. (i - 1)) EXCEPT !.conn = "none"] :
             i \in 1 .. n, k \in faults}

\* send: several datagrams when the metrics of one entry exceed 8 KiB, so a
\* failing entry may still have arrived in part.
DatadogDeliver_OffByOne(n) ==
    {[o EXCEPT !.first = IF o.err THEN @ + 1 ELSE 0] : o \in Datagrams(n, {0, 1})}
DatadogDeliver(n) == Datagrams(n, {0, 1})

\* sendUDPMessage reports an expired context even after a complete write.
LogglySendBatch(n) == Datagrams(n, {0, 1}) \cup Post(n, BelowError)

\* The whole batch in one datagram; one that is too large fails every time.
UDPSendBatch(batch) ==
    {Out(0, TRUE, {}, {})}
    \cup (IF MapThenSumSet(LAMBDA i : size[batch[i]], DOMAIN batch) > SizeLimit THEN {}
          ELSE {Out(0, FALSE, DOMAIN batch, {}), Out(0, TRUE, DOMAIN batch, {})})

\* A connection of its own per batch; a torn write ends with its connection.
SLSSendBatch(n) ==
    {Out(0, FALSE, 1 .. n, {})} \cup {Out(0, TRUE, 1 .. k, {}) : k \in 0 .. n}

\* sendBody: the cached connection, dialled when there is none; a write error
\* closes it and forgets it.  The watcher of an expired context may close the
\* connection after the write, which leaves a closed one behind.
TCPSendBatch_KeepsConn(n) ==
    (IF conn = "none" THEN {Out(0, TRUE, {}, {})} ELSE {})
    \cup (IF conn = "closed" THEN {}
          ELSE {[Out(0, FALSE, 1 .. n, {}) EXCEPT !.conn = c] : c \in {"open", "closed"}})
    \cup {[Out(0, TRUE, {}, {}) EXCEPT !.conn = "open", !.torn = conn # "closed"]}

TCPSendBatch(n) ==
    (IF conn = "none" THEN {Out(0, TRUE, {}, {})} ELSE {})
    \cup (IF conn = "closed" THEN {}
          ELSE {[Out(0, FALSE, 1 .. n, {}) EXCEPT !.conn = c] : c \in {"open", "closed"}})
    \cup {[Out(0, TRUE, {}, {}) EXCEPT !.conn = "none"]}

GoogleSendBatch(n) == Post(n, OnlyOK)

SendBatch(batch) ==
    LET n == Len(batch)
    IN  CASE sink = "http" -> HTTPSendBatch(n)
          [] sink = "clickhouse" -> ClickhouseSendBatch(n)
          [] sink = "skywalking" -> SkyWalkingSendBatch(n)
          [] sink = "loki" -> LokiSendBatch(n)
          [] sink = "lago" -> LagoSendBatch(n)
          [] sink = "splunk" -> SplunkSendBatch(n)
          [] sink = "elasticsearch" -> ElasticsearchSendBatch(n)
          [] sink = "tencent" -> TencentSendBatch(batch)
          [] sink = "kafka" -> KafkaSendBatch(n)
          [] sink = "rocketmq" -> RocketMQSendBatch(n)
          [] sink = "datadog" -> DatadogDeliver(n)
          [] sink = "loggly" -> LogglySendBatch(n)
          [] sink = "udp" -> UDPSendBatch(batch)
          [] sink = "sls" -> SLSSendBatch(n)
          [] sink = "tcp" -> TCPSendBatch(n)
          [] sink = "google" -> GoogleSendBatch(n)

-----------------------------------------------------------------------------

SinksInit ==
    /\ sink \in Sinks
    /\ size \in [Entries -> {1, SizeLimit + 1}]
    /\ left = [i \in Entries |-> i]
    /\ attempt = 0
    /\ status = [e \in Entries |-> "owed"]
    /\ copies = [e \in Entries |-> 0]
    /\ sure = {} /\ gone = {}
    /\ conn = "none" /\ stream = FALSE
    /\ token = 0 /\ stale = FALSE

\* process: one attempt's outcome, and what it leaves to be sent again.
Record(o) ==
    LET n    == Len(left)
        done == IF ~o.err THEN n
                ELSE IF o.first \in 2 .. n THEN o.first - 1 ELSE 0
        over == o.err /\ attempt >= MaxRetryCount
        At(S) == {left[i] : i \in S}
    IN  /\ copies' = [e \in Entries |-> copies[e] + IF e \in At(o.took) THEN 1 ELSE 0]
        /\ sure' = sure \cup At(o.told)
        /\ gone' = gone \cup At(o.aside)
        /\ status' = [e \in Entries |->
                        IF e \in At(1 .. done) THEN "delivered"
                        ELSE IF over /\ e \in At(1 .. n) THEN "failed"
                        ELSE status[e]]
        /\ left' = IF over THEN <<>> ELSE SubSeq(left, done + 1, n)
        /\ attempt' = attempt + 1
        /\ conn' = o.conn
        \* A frame is torn only on the connection it was written to.
        /\ stream' = IF o.conn = "open" THEN stream \/ o.torn ELSE FALSE
        /\ UNCHANGED <<sink, size>>

Send ==
    /\ left # <<>>
    /\ sink # "google"
    /\ \E o \in SendBatch(left) : Record(o)
    /\ UNCHANGED <<token, stale>>

\* accessTokenFor: the cached token unless it expires within the skew.
Cached_NoSkew == token > 0
Cached == token > Skew

\* Google: fetch a token when the cached one is too old, then post with it.
SendGoogle ==
    /\ left # <<>>
    /\ sink = "google"
    /\ \/ /\ ~Cached
          /\ Record(Out(0, TRUE, {}, {}))
          /\ UNCHANGED <<token, stale>>
       \/ \E slow \in 0 .. Delay :
             /\ token' = (IF Cached THEN token ELSE TokenLife) - slow
             /\ stale' = (stale \/ token' <= 0)
             /\ \E o \in SendBatch(left) : Record(o)

Tick ==
    /\ sink = "google" /\ token > 0
    /\ token' = token - 1
    /\ UNCHANGED <<sink, size, left, attempt, status, copies, sure, gone, conn, stream, stale>>

SinksNext == Send \/ SendGoogle \/ Tick

SinksSpec == SinksInit /\ [][SinksNext]_sinksVars

-----------------------------------------------------------------------------
(* Properties. *)

\* What a sink reports delivered the other side has taken, an asynchronous
\* producer holds, or the sink dropped as too large: never an entry that
\* a failed SendBatch left behind.
ReportsHold ==
    \A e \in Entries : status[e] = "delivered" => copies[e] > 0 \/ e \in gone

\* An entry whose arrival a sink learned by itself, before the first entry
\* that failed, is never sent again, however often the rest is retried.
ConfirmedOnce == \A e \in sure : copies'[e] = copies[e]

\* No frame follows a torn one on the same connection, and no request carries
\* an access token that has expired by the time it arrives.
TransportsClean == ~stream /\ ~stale

-----------------------------------------------------------------------------
(***************************************************************************)
(* The syslog logger's transport (pkg/plugin/syslog/transport.go): frames  *)
(* are gathered in a buffer, written in one piece once the buffer reaches  *)
(* flush_limit, and travel on TCP connections kept in an idle pool.        *)
(*                                                                         *)
(* A frame is an identifier with a size.  A connection is the sequence of  *)
(* whole frames the peer read from it; "torn" marks a frame cut short.     *)
(***************************************************************************)

CONSTANTS
    Frames,       \* frames the loggers produce
    FrameSize,    \* their sizes: [Frames -> Nat]
    FlushLimit, DropLimit,
    PoolSize,     \* capacity of the idle pool
    MaxTries,     \* how often the batch processor offers a frame
    MaxConns      \* bound on the connections dialled

\* newSyslogTransport refuses limits in any other order.
TransportConfig ==
    /\ FlushLimit \in Nat /\ DropLimit \in Nat /\ FlushLimit < DropLimit
    /\ FrameSize \in [Frames -> Nat \ {0}]

VARIABLES
    buffer,    \* frames the transport owns, in order
    idle,      \* pooled connections
    wire,      \* what the peer read from each connection
    tries,     \* offers of each frame so far
    state,     \* per frame: "new", "owned", "back" (handed back) or "dropped"
    discarded, \* frames of a batch given up after an ambiguous write
    closed

syslogVars == <<buffer, idle, wire, tries, state, discarded, closed>>

Size(frames) == FoldLeft(LAMBDA sum, f : sum + FrameSize[f], 0, frames)
Conns == DOMAIN wire

SyslogInit ==
    /\ buffer = <<>> /\ idle = <<>> /\ wire = <<>>
    /\ tries = [f \in Frames |-> 0]
    /\ state = [f \in Frames |-> "new"]
    /\ discarded = {}
    /\ closed = FALSE

-----------------------------------------------------------------------------

\* release: back to the pool, or closed when the pool is full.
Release(pool, c) == IF Len(pool) < PoolSize THEN Append(pool, c) ELSE pool

\* connection: the oldest idle connection, or a new one.
Connection ==
    IF idle # <<>> THEN [id |-> Head(idle), pool |-> Tail(idle), known |-> wire]
    ELSE [id |-> Len(wire) + 1, pool |-> <<>>, known |-> Append(wire, <<>>)]

\* write returns how much the peer was sent and whether it failed: no
\* connection; an error after k whole frames, and perhaps a part of the next;
\* an error after all of them; or success.
Failed(pool, known, sent) ==
    [ok |-> FALSE, sent |-> sent, pool |-> pool, wire |-> known]

Write_Pooled(payload) ==
    LET on == Connection
        After(items) == [on.known EXCEPT ![on.id] = @ \o items]
    IN  {Failed(idle, wire, FALSE)}
        \cup {Failed(Release(on.pool, on.id), After(SubSeq(payload, 1, k) \o torn), k > 0 \/ torn # <<>>) :
                 k \in 0 .. Len(payload) - 1, torn \in {<<>>, <<"torn">>}}
        \cup {[ok |-> TRUE, sent |-> TRUE, pool |-> Release(on.pool, on.id), wire |-> After(payload)]}

Write(payload) ==
    LET on == Connection
        After(items) == [on.known EXCEPT ![on.id] = @ \o items]
    IN  {Failed(idle, wire, FALSE)}
        \cup {Failed(on.pool, After(SubSeq(payload, 1, k) \o torn), k > 0 \/ torn # <<>>) :
                 k \in 0 .. Len(payload) - 1, torn \in {<<>>, <<"torn">>}}
        \cup {Failed(on.pool, After(payload), TRUE),
              [ok |-> TRUE, sent |-> TRUE, pool |-> Release(on.pool, on.id), wire |-> After(payload)]}

\* flushLocked: success empties the buffer, an ambiguous write discards it.
FlushLocked(frames) ==
    IF frames = <<>>
    THEN {[err |-> FALSE, sent |-> FALSE, buffer |-> <<>>, lost |-> {}, pool |-> idle, wire |-> wire]}
    ELSE {[err |-> ~w.ok, sent |-> w.sent,
           buffer |-> IF w.sent THEN <<>> ELSE frames,
           lost |-> IF w.sent /\ ~w.ok THEN Range(frames) ELSE {},
           pool |-> w.pool, wire |-> w.wire] : w \in Write(frames)}

Apply(flush) ==
    /\ idle' = flush.pool
    /\ wire' = flush.wire
    /\ discarded' = discarded \cup flush.lost

\* The processor offers a frame, or offers again one it got back.
Offered(f) ==
    /\ ~closed
    /\ state[f] \in {"new", "back"}
    /\ tries[f] < MaxTries
    /\ Len(wire) < MaxConns
    /\ tries' = [tries EXCEPT ![f] = @ + 1]
    /\ UNCHANGED closed

\* LogContext: the frame fits below the flush limit.
Buffer(f) ==
    /\ Offered(f)
    /\ Size(buffer) + FrameSize[f] < FlushLimit
    /\ buffer' = Append(buffer, f)
    /\ state' = [state EXCEPT ![f] = "owned"]
    /\ UNCHANGED <<idle, wire, discarded>>

\* LogContext: the frame triggers a flush; when nothing was sent the buffer
\* is restored and the frame handed back.
FlushWith_Forgets(f) ==
    /\ Offered(f)
    /\ Size(buffer) + FrameSize[f] \in FlushLimit .. DropLimit
    /\ \E flush \in FlushLocked(Append(buffer, f)) :
          /\ Apply(flush)
          /\ buffer' = <<>>
          /\ state' = [state EXCEPT ![f] = IF flush.err THEN "back" ELSE "owned"]

FlushWith(f) ==
    /\ Offered(f)
    /\ Size(buffer) + FrameSize[f] \in FlushLimit .. DropLimit
    /\ \E flush \in FlushLocked(Append(buffer, f)) :
          /\ Apply(flush)
          /\ buffer' = IF flush.err /\ ~flush.sent THEN buffer ELSE flush.buffer
          /\ state' = [state EXCEPT ![f] = IF flush.err THEN "back" ELSE "owned"]

\* LogContext: the frame does not fit at all and is dropped, with or without
\* an error of the flush it still attempts.
DropFrame(f) ==
    /\ Offered(f)
    /\ Size(buffer) + FrameSize[f] > DropLimit
    /\ \E flush \in FlushLocked(buffer) :
          /\ Apply(flush)
          /\ buffer' = flush.buffer
          /\ state' = [state EXCEPT ![f] = IF flush.err THEN "back" ELSE "dropped"]

\* Close flushes once and empties the pool.
Close ==
    /\ ~closed
    /\ Len(wire) < MaxConns
    /\ \E flush \in FlushLocked(buffer) :
          /\ wire' = flush.wire
          /\ discarded' = discarded \cup flush.lost \cup Range(flush.buffer)
          /\ buffer' = flush.buffer
    /\ idle' = <<>>
    /\ closed' = TRUE
    /\ UNCHANGED <<tries, state>>

SyslogNext ==
    \/ \E f \in Frames : Buffer(f)
    \/ \E f \in Frames : FlushWith(f)
    \/ \E f \in Frames : DropFrame(f)
    \/ Close

SyslogSpec == SyslogInit /\ [][SyslogNext]_syslogVars

-----------------------------------------------------------------------------
(* Properties. *)

\* A connection that carried a torn frame carries nothing after it, and is
\* not in the pool.
FramesWhole ==
    \A c \in Conns : \A i \in DOMAIN wire[c] :
        wire[c][i] = "torn" => i = Len(wire[c]) /\ c \notin Range(idle)

\* A frame the transport owns is in the buffer or was sent, unless the batch
\* it was in was discarded after a write that had begun, or at Close; and
\* the buffer never grows to the flush limit.
OwnedIsKept ==
    /\ Size(buffer) < FlushLimit
    /\ \A f \in Frames : state[f] = "owned" =>
          \/ f \in Range(buffer)
          \/ \E c \in Conns : f \in Range(wire[c])
          \/ f \in discarded

=============================================================================
