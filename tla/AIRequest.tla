------------------------------ MODULE AIRequest ------------------------------
(***************************************************************************)
(* A request to a language model: its document in each attempt, and the choice *)
(* of the instances that are attempted. Two state machines, each with its  *)
(* own variables.                                                          *)
(***************************************************************************)
EXTENDS Integers, Sequences, FiniteSets, SequencesExt, FiniteSetsExt, TLC

-----------------------------------------------------------------------------
(***************************************************************************)
(* What a provider is sent and what the client gets back (pkg/plugin:      *)
(* ai_proxy, ai_proxy_multi, ai_protocols, ai_common).  The decoded        *)
(* document of a request is shared by the attempts of ai-proxy-multi: each *)
(* copies its top level, applies the options and overrides of its instance *)
(* and encodes the result only when something changed.  Nested objects     *)
(* live in a heap, so what an attempt writes into an object it shares with *)
(* the client's document or with the configuration is seen by the next.    *)
(*                                                                         *)
(* An Anthropic request for a provider that speaks OpenAI's protocol is    *)
(* converted, and the answer is converted back.  A name of a tool is a     *)
(* sequence of characters, of which "." stands for those OpenAI refuses.   *)
(***************************************************************************)

CONSTANTS
    Exchanges,   \* [ask, instances]: a request and the instances it will be tried on
    Maps,        \* the nested objects of the request and of the configuration
    Own,         \* those of them that belong to the request
    MaxLength    \* openAIToolNameMaxLength

VARIABLES
    ask,         \* [protocol, body, tools, choice, turns, apiKey]
    instances,
    heap,
    attempt,
    sent,        \* what the instance of this attempt was sent
    nameMap,
    answer

exchangeVars == <<ask, instances, heap, attempt, sent, nameMap, answer>>

None == [none |-> TRUE]
Leaf(x) == [leaf |-> x]
Object(a) == [map |-> a]
Shown(h, v) == IF "map" \in DOMAIN v THEN h[v.map] ELSE "" :> v.leaf
ShownBody(h, b) == [f \in DOMAIN b |-> Shown(h, b[f])]
Without(b, fields) == [f \in DOMAIN b \ fields |-> b[f]]
Has(b, f, x) == f \in DOMAIN b /\ b[f] = Leaf(x)

\* What the schemas admit of an instance: who the provider is and what the
\* configuration adds, limits, overrides and authenticates with.
ProviderSettings(i) ==
    /\ i.provider \in {"openai", "deepseek", "azure-openai", "aimlapi", "anthropic", "openrouter", "gemini",
                       "vertex-ai", "bedrock", "openai-compatible"}
    /\ i.auth \in BOOLEAN

OverrideSettings(i) ==
    /\ i.endpoint \in {"none", "root", "path"} /\ i.limit \in BOOLEAN /\ i.force \in BOOLEAN
    /\ i.overrideOf \in {"any", "chat", "responses", "embeddings", "anthropic", "bedrock", "passthrough"}

\* PostInit: some providers have no endpoint of their own.
PostInit(i) == i.provider \in {"openai-compatible", "azure-openai"} => i.endpoint # "none"

ExchangeConfig ==
    \A x \in Exchanges : \A k \in DOMAIN x.instances :
        ProviderSettings(x.instances[k]) /\ OverrideSettings(x.instances[k])

-----------------------------------------------------------------------------
(* Documents: s is [heap, body, changed].                                  *)

CloneJSONValue(h, v) ==
    IF "map" \in DOMAIN v THEN [heap |-> Append(h, h[v.map]), value |-> Object(Len(h) + 1)]
    ELSE [heap |-> h, value |-> v]

JSONValueEqual(h, b, f, v) == f \in DOMAIN b /\ Shown(h, b[f]) = Shown(h, v)

\* A field set to a copy of a value.
Put(s, f, v) ==
    LET c == CloneJSONValue(s.heap, v) IN
    [heap |-> c.heap, body |-> (f :> c.value) @@ s.body,
     changed |-> s.changed \/ ~JSONValueEqual(s.heap, s.body, f, v)]

Removed(s, fields) ==
    [s EXCEPT !.body = Without(@, fields), !.changed = @ \/ fields \cap DOMAIN s.body # {}]

\* The options of an instance replace the client's fields.
Options(s, options) == FoldSet(LAMBDA f, acc : Put(acc, f, options[f]), s, DOMAIN options)

\* A nested object of the document written through a copy.
CopyOnWrite(s, f, writes) ==
    LET old == IF f \in DOMAIN s.body /\ "map" \in DOMAIN s.body[f] THEN s.heap[s.body[f].map] ELSE <<>>
        new == writes @@ old IN
    [heap |-> Append(s.heap, new), body |-> (f :> Object(Len(s.heap) + 1)) @@ s.body,
     changed |-> s.changed \/ new # old]

InPlace(s, f, writes) ==
    IF f \in DOMAIN s.body /\ "map" \in DOMAIN s.body[f]
    THEN LET old == s.heap[s.body[f].map] IN
         [s EXCEPT !.heap[s.body[f].map] = writes @@ old, !.changed = @ \/ writes @@ old # old]
    ELSE CopyOnWrite(s, f, writes)

\* What an override adds to a nested object.
Added(new, old, force) == IF force THEN new ELSE [k \in DOMAIN new \ DOMAIN old |-> new[k]]

\* A mutant of MergeBodyMap: nested objects are not cloned.
MergeBodyMap_Shared(s, override, force) ==
    FoldSet(LAMBDA f, acc :
                IF f \in DOMAIN acc.body /\ "map" \in DOMAIN acc.body[f] /\ "map" \in DOMAIN override[f]
                THEN InPlace(acc, f, Added(acc.heap[override[f].map], acc.heap[acc.body[f].map], force))
                ELSE IF force \/ f \notin DOMAIN acc.body THEN Put(acc, f, override[f]) ELSE acc,
            s, DOMAIN override)

MergeBodyMap(s, override, force) ==
    FoldSet(LAMBDA f, acc :
                IF f \in DOMAIN acc.body /\ "map" \in DOMAIN acc.body[f] /\ "map" \in DOMAIN override[f]
                THEN CopyOnWrite(acc, f, Added(acc.heap[override[f].map], acc.heap[acc.body[f].map], force))
                ELSE IF force \/ f \notin DOMAIN acc.body THEN Put(acc, f, override[f]) ELSE acc,
            s, DOMAIN override)

\* HasProtocolRequestBodyOverride and requestBodyOverride: the override of the
\* protocol; one that names no protocol is for OpenAI's chat.
requestBodyOverride(i, protocol) ==
    IF i.overrideOf = protocol \/ (i.overrideOf = "any" /\ protocol = "chat") THEN i.override ELSE <<>>

applyRequestBodyOverride(s, i, protocol) == MergeBodyMap(s, requestBodyOverride(i, protocol), i.force)

\* The field that carries the limit of tokens, "" for none: applyLLMOptions of
\* ai-proxy-multi, and what ai-proxy does otherwise.
MultiLimitField(provider, protocol) ==
    CASE provider = "openai" /\ protocol = "chat" -> "max_completion_tokens"
      [] provider = "openai" /\ protocol = "responses" -> "max_output_tokens"
      [] provider \in {"gemini", "vertex-ai"} /\ protocol = "chat" -> "max_completion_tokens"
      [] provider = "bedrock" /\ protocol = "bedrock" -> "inferenceConfig"
      [] provider \notin {"openai", "gemini", "vertex-ai", "bedrock"} /\ protocol = "chat" -> "max_tokens"
      [] OTHER -> ""

ProxyLimitField(provider, protocol) ==
    IF provider = "openai-compatible" /\ protocol = "responses" THEN "max_output_tokens"
    ELSE MultiLimitField(provider, protocol)

LimitField(i, protocol) ==
    IF ~i.limit THEN ""
    ELSE IF i.plugin = "ai-proxy" THEN ProxyLimitField(i.provider, protocol)
    ELSE MultiLimitField(i.provider, protocol)

\* A mutant of applyLLMOptions: the object the document shares is written.
applyLLMOptions_Shared(s, i, protocol) ==
    LET f == LimitField(i, protocol) IN
    CASE f = "" -> s
      [] f = "inferenceConfig" -> InPlace(s, f, "maxTokens" :> "limit")
      [] OTHER -> LET set == Put(s, f, Leaf("limit")) IN
                  IF f = "max_completion_tokens" /\ i.provider = "openai" THEN Removed(set, {"max_tokens"}) ELSE set

applyLLMOptions(s, i, protocol) ==
    LET f == LimitField(i, protocol)
        nested == "maxTokens" :> "limit" IN
    CASE f = "" -> s
      [] f = "inferenceConfig" /\ i.plugin = "ai-proxy" -> InPlace(s, f, nested)
      [] f = "inferenceConfig" -> CopyOnWrite(s, f, nested)
      [] OTHER -> LET set == Put(s, f, Leaf("limit")) IN
                  IF f = "max_completion_tokens" /\ i.provider = "openai" THEN Removed(set, {"max_tokens"}) ELSE set

\* The fields a provider takes from the path instead.
applyProviderBodyRules(s, i) ==
    Removed(s, (IF i.provider \in {"azure-openai", "bedrock"} THEN {"model"} ELSE {})
               \cup (IF i.provider = "bedrock" THEN {"stream"} ELSE {}))

ProxyBodyRules(s, i) == Removed(s, IF i.provider = "azure-openai" THEN {"model"} ELSE {})

IsStreaming(protocol, b) == protocol # "embeddings" /\ Has(b, "stream", "true")

\* A streaming chat reports its usage.
IncludeUsage(s, protocol) ==
    IF protocol = "chat" /\ IsStreaming(protocol, s.body) THEN Put(s, "stream_options", Leaf("include_usage")) ELSE s

-----------------------------------------------------------------------------
(* Conversion from Anthropic's protocol to OpenAI's.                       *)

ProviderUsesOpenAIChat(provider) == provider \notin {"anthropic", "bedrock"}

Cut(name, n) == SubSeq(name, 1, IF Len(name) < n THEN Len(name) ELSE n)

sanitizeOpenAIToolName(name) == Cut([k \in DOMAIN name |-> IF name[k] = "." THEN "_" ELSE name[k]], MaxLength)

NameSuffixes == <<"2", "3", "4", "5">>

uniqueOpenAIToolName(name, used) ==
    LET candidate(n) == Cut(name, MaxLength - 2) \o <<"_", NameSuffixes[n]>> IN
    IF name \notin used THEN name
    ELSE candidate(CHOOSE n \in DOMAIN NameSuffixes :
                      candidate(n) \notin used /\ \A m \in 1..(n - 1) : candidate(m) \in used)

\* A mutant of convertAnthropicTools: the names taken are those before they were
\* made unique.
convertAnthropicTools_Sanitized(tools) ==
    FoldLeft(LAMBDA acc, original :
                 LET clean == sanitizeOpenAIToolName(original)
                     name == uniqueOpenAIToolName(clean, acc.used) IN
                 [used |-> acc.used \cup {clean}, names |-> Append(acc.names, name),
                  map |-> IF name = original THEN acc.map ELSE (name :> original) @@ acc.map],
             [used |-> {}, names |-> <<>>, map |-> <<>>], tools)

\* The names offered, and the client's names of those that differ.
convertAnthropicTools(tools) ==
    FoldLeft(LAMBDA acc, original :
                 LET name == uniqueOpenAIToolName(sanitizeOpenAIToolName(original), acc.used) IN
                 [used |-> acc.used \cup {name}, names |-> Append(acc.names, name),
                  map |-> IF name = original THEN acc.map ELSE (name :> original) @@ acc.map],
             [used |-> {}, names |-> <<>>, map |-> <<>>], tools)

\* A mutant of rewriteConvertedToolChoice: a choice that is offered under its
\* own letters is taken as it is.
rewriteConvertedToolChoice_AsOffered(choice, t) ==
    IF choice \in ToSet(t.names) THEN {choice}
    ELSE {name \in DOMAIN t.map : t.map[name] = choice}

\* rewriteConvertedToolChoice: any offered name that stands for the choice; the
\* order of a map is not defined.
rewriteConvertedToolChoice(choice, t) ==
    LET standing == {name \in DOMAIN t.map : t.map[name] = choice} IN
    IF standing = {} THEN {choice} ELSE standing

\* A mutant of convertAnthropicMessage: the results of tools come last.
convertAnthropicMessage_PartsFirst(turn) ==
    IF turn.results # <<>>
    THEN (IF turn.parts = <<>> THEN <<>> ELSE <<[role |-> turn.role, uses |-> <<>>, of |-> "", parts |-> turn.parts]>>)
         \o [k \in DOMAIN turn.results |-> [role |-> "tool", uses |-> <<>>, of |-> turn.results[k], parts |-> <<>>]]
    ELSE <<[role |-> turn.role, uses |-> turn.uses, of |-> "", parts |-> turn.parts]>>

\* The results of tools come first, then what the client said with them; a turn
\* is [role, uses, results, parts]. Media beside calls is left out.
convertAnthropicMessage(turn) ==
    IF turn.results # <<>>
    THEN [k \in DOMAIN turn.results |-> [role |-> "tool", uses |-> <<>>, of |-> turn.results[k], parts |-> <<>>]]
         \o (IF turn.parts = <<>> THEN <<>> ELSE <<[role |-> turn.role, uses |-> <<>>, of |-> "", parts |-> turn.parts]>>)
    ELSE <<[role |-> turn.role, uses |-> turn.uses, of |-> "",
            parts |-> IF turn.uses # <<>> THEN SelectSeq(turn.parts, LAMBDA p : p # "image") ELSE turn.parts]>>

convertAnthropicSystem(b) ==
    IF "system" \in DOMAIN b THEN <<[role |-> "system", uses |-> <<>>, of |-> "", parts |-> <<"text">>]>> ELSE <<>>

\* The fields OpenAI has, under its names; what else the request has is left.
ConvertFields(b) ==
    LET kept == {"model", "stream", "temperature"} \cap DOMAIN b IN
    [f \in kept |-> b[f]]
    @@ (IF "max_tokens" \in DOMAIN b THEN "max_completion_tokens" :> b["max_tokens"] ELSE <<>>)
    @@ (IF Has(b, "stream", "true") THEN "stream_options" :> Leaf("include_usage") ELSE <<>>)

\* ConvertAnthropicMessagesDocumentToOpenAI, of the request with a body; it has
\* an error when there are no messages.
ConvertAnthropicMessagesDocumentToOpenAI(b, choice) ==
    LET t == convertAnthropicTools(ask.tools) IN
    [body |-> ConvertFields(b), names |-> t.names, map |-> t.map, choice |-> choice,
     turns |-> convertAnthropicSystem(b) \o FlattenSeq([k \in DOMAIN ask.turns |-> convertAnthropicMessage(ask.turns[k])])]

ToolChoices ==
    IF ask.choice = <<>> \/ ask.tools = <<>> THEN {<<>>}
    ELSE rewriteConvertedToolChoice(ask.choice, convertAnthropicTools(ask.tools))

\* ConvertAnthropicHeadersToOpenAI: the client's key is the credential only when
\* none is configured, and never goes on under its own name.
ConvertAnthropicHeadersToOpenAI(i) ==
    [authorization |-> IF i.auth THEN "configured" ELSE IF ask.apiKey THEN "client" ELSE "", apiKey |-> ""]

Headers(i) == [authorization |-> IF i.auth THEN "configured" ELSE "", apiKey |-> IF ask.apiKey THEN "client" ELSE ""]

-----------------------------------------------------------------------------
(* What is sent.                                                           *)

AppendProtocolEndpoint(i, protocol) == IF i.endpoint = "path" THEN "configured" ELSE protocol

AppendBedrockEndpoint(i, model) ==
    IF model = "" THEN "error" ELSE IF i.endpoint = "path" THEN "configured" ELSE "bedrock"

instanceModelDocument(i, b) ==
    IF "model" \in DOMAIN i.options THEN i.options["model"].leaf
    ELSE IF "model" \in DOMAIN b THEN b["model"].leaf ELSE ""

vertexEndpoint(i, protocol, b) ==
    IF protocol # "embeddings" THEN "chat"
    ELSE IF instanceModelDocument(i, b) = "" THEN "error" ELSE "predict"

\* endpoint, as the protocol its path is for: "configured" when the path is the
\* configuration's, "error" when there is none.
endpoint(i, protocol, b) ==
    IF i.endpoint # "none"
    THEN CASE protocol = "passthrough" -> "configured"
           [] i.provider \in {"openai", "openai-compatible"} -> AppendProtocolEndpoint(i, protocol)
           [] i.provider = "bedrock" -> AppendBedrockEndpoint(i, instanceModelDocument(i, b))
           [] OTHER -> "configured"
    ELSE CASE i.provider \in {"openai", "anthropic"} -> protocol
           [] i.provider \in {"deepseek", "gemini"} -> "chat"
           [] i.provider = "bedrock" -> AppendBedrockEndpoint(i, instanceModelDocument(i, b))
           [] i.provider = "vertex-ai" -> vertexEndpoint(i, protocol, b)
           [] OTHER -> "error"

\* ConvertOpenAIEmbeddingsToVertex, of an encoded body.
ConvertOpenAIEmbeddingsToVertex(shown) == "instances" :> shown["input"]

Start(h, b) == [heap |-> h, body |-> b, changed |-> FALSE]

\* The bytes sent: those of the client when nothing changed. With always they
\* are encoded anew, which is what the bytes ought to say.
Encoded(h, b, s, always) == IF s.changed \/ always THEN ShownBody(s.heap, s.body) ELSE ShownBody(h, b)

\* providerBody of ai-proxy-multi.
providerBody(h, b, protocol, i, always) ==
    LET s == IncludeUsage(applyProviderBodyRules(applyRequestBodyOverride(
                 applyLLMOptions(Options(Start(h, b), i.options), i, protocol), i, protocol), i), protocol)
        shown == Encoded(h, b, s, always \/ (i.provider = "vertex-ai" /\ protocol = "embeddings")) IN
    [heap |-> s.heap,
     shown |-> IF i.provider = "vertex-ai" /\ protocol = "embeddings" THEN ConvertOpenAIEmbeddingsToVertex(shown) ELSE shown]

\* readJSONDocument of ai-proxy, for a request that is not converted: the usage
\* is asked for before the override, which may take it back.
readJSONDocument(h, b, protocol, i) ==
    ProxyBodyRules(applyRequestBodyOverride(IncludeUsage(
        applyLLMOptions(Options(Start(h, b), i.options), i, protocol), protocol), i, protocol), i)

finalProviderBody(h, b, s, protocol, i, always) ==
    CASE i.provider = "vertex-ai" /\ protocol = "embeddings" ->
           ConvertOpenAIEmbeddingsToVertex(Encoded(h, b, s, always))
      [] i.provider = "bedrock" /\ protocol = "bedrock" -> ShownBody(s.heap, Without(s.body, {"model", "stream"}))
      [] OTHER -> Encoded(h, b, s, always)

\* The rest of a converted request: prepareInstanceRequest of ai-proxy-multi.
prepareInstanceRequest(h, c, i) ==
    LET s == applyProviderBodyRules(applyRequestBodyOverride(
                 applyLLMOptions(Start(h, c.body), i, "chat"), i, "chat"), i)
    IN  IncludeUsage(s, "chat")

\* prepareProviderRequest of ai-proxy.
prepareProviderRequest(h, c, i) ==
    LET s == ProxyBodyRules(applyRequestBodyOverride(
                 applyLLMOptions(Start(h, c.body), i, "chat"), i, "chat"), i)
    IN  IncludeUsage(s, "chat")

Converts(i) == ask.protocol = "anthropic" /\ ProviderUsesOpenAIChat(i.provider)

\* The request instance i is sent, from a heap; always encodes it anew.
Prepared(h, i, choice, always) ==
    IF Converts(i)
    THEN LET o == Options(Start(h, ask.body), i.options)
             c == ConvertAnthropicMessagesDocumentToOpenAI(o.body, choice)
             s == IF i.plugin = "ai-proxy" THEN prepareProviderRequest(o.heap, c, i) ELSE prepareInstanceRequest(o.heap, c, i) IN
         [heap |-> s.heap, protocol |-> "chat", shown |-> ShownBody(s.heap, s.body), names |-> c.names,
          choice |-> c.choice, turns |-> c.turns, map |-> c.map, headers |-> ConvertAnthropicHeadersToOpenAI(i),
          path |-> endpoint(i, "chat", IF i.plugin = "ai-proxy" THEN s.body ELSE ask.body)]
    ELSE LET s == readJSONDocument(h, ask.body, ask.protocol, i)
             p == IF i.plugin = "ai-proxy"
                  THEN [heap |-> s.heap, shown |-> finalProviderBody(h, ask.body, s, ask.protocol, i, always)]
                  ELSE providerBody(h, ask.body, ask.protocol, i, always) IN
         [heap |-> p.heap, protocol |-> ask.protocol, shown |-> p.shown, names |-> ask.tools,
          choice |-> ask.choice, turns |-> ask.turns, map |-> <<>>, headers |-> Headers(i),
          path |-> endpoint(i, ask.protocol, IF i.plugin = "ai-proxy" THEN s.body ELSE ask.body)]

\* Bedrock takes only its own protocol, and a model for the path.
validateProviderRequest(i) ==
    i.provider = "bedrock" => ask.protocol = "bedrock" /\ instanceModelDocument(i, ask.body) # ""

-----------------------------------------------------------------------------
(* What comes back.                                                        *)

\* A mutant of ConvertOpenAIChatToAnthropic: the names are the provider's.
ConvertOpenAIChatToAnthropic_AsNamed(a) ==
    IF a.calls = <<>> /\ ~a.ok THEN [protocol |-> "error", calls |-> <<>>, input |-> 0, cached |-> 0]
    ELSE [protocol |-> "anthropic", calls |-> a.calls,
          input |-> IF a.prompt > a.cached THEN a.prompt - a.cached ELSE 0, cached |-> a.cached]

\* The client's names are put back and the cached tokens taken out of the input.
ConvertOpenAIChatToAnthropic(a) ==
    IF ~a.ok THEN [protocol |-> "error", calls |-> <<>>, input |-> 0, cached |-> 0]
    ELSE [protocol |-> "anthropic",
          calls |-> [k \in DOMAIN a.calls |-> IF a.calls[k] \in DOMAIN nameMap THEN nameMap[a.calls[k]] ELSE a.calls[k]],
          input |-> IF a.prompt > a.cached THEN a.prompt - a.cached ELSE 0, cached |-> a.cached]

ConvertVertexEmbeddingsToOpenAI(a) ==
    [protocol |-> IF a.ok THEN "embeddings" ELSE "error", calls |-> <<>>, input |-> a.prompt, cached |-> 0]

\* The answers a provider may give: choices or none, calls of tools it was offered.
ProviderAnswers ==
    [ok : BOOLEAN, calls : {<<>>} \cup {<<sent.names[k]>> : k \in DOMAIN sent.names}, prompt : {1, 2}, cached : {0, 1}]

\* writeProviderResponse of an answer that is not streamed: a conversion that
\* fails answers 502; the length is the provider's unless it was converted.
writeProviderResponse(a) ==
    LET i == instances[attempt]
        converted == IF Converts(i) THEN ConvertOpenAIChatToAnthropic(a)
                     ELSE IF i.provider = "vertex-ai" /\ ask.protocol = "embeddings" THEN ConvertVertexEmbeddingsToOpenAI(a)
                     ELSE [protocol |-> ask.protocol, calls |-> a.calls, input |-> a.prompt - a.cached, cached |-> a.cached] IN
    [converted EXCEPT !.protocol = IF @ = "error" THEN "502" ELSE @]
    @@ [length |-> ~Converts(i) /\ ~(i.provider = "vertex-ai" /\ ask.protocol = "embeddings"), from |-> a]

-----------------------------------------------------------------------------
ExchangeInit ==
    /\ \E x \in Exchanges :
         /\ \A k \in DOMAIN x.instances : PostInit(x.instances[k])
         /\ ask = x.ask /\ instances = x.instances
    /\ heap = Maps
    /\ attempt = 1
    /\ sent = None /\ nameMap = <<>> /\ answer = None

\* requestInstance and buildProviderRequestDocument.
requestInstance ==
    /\ sent = None /\ answer = None
    /\ LET i == instances[attempt] IN
       \E choice \in IF Converts(i) THEN ToolChoices ELSE {ask.choice} :
         LET p == Prepared(heap, i, choice, FALSE) IN
         /\ heap' = p.heap
         /\ IF p.path = "error" \/ ~validateProviderRequest(i) THEN sent' = [path |-> "error", names |-> <<>>] ELSE sent' = Without(p, {"heap", "map"})
         /\ nameMap' = p.map
    /\ UNCHANGED <<ask, instances, attempt, answer>>

\* The attempt failed and another instance is asked.
Retry ==
    /\ sent # None /\ answer = None /\ attempt < Len(instances)
    /\ attempt' = attempt + 1
    /\ sent' = None /\ nameMap' = <<>>
    /\ UNCHANGED <<ask, instances, heap, answer>>

Answered ==
    /\ sent # None /\ sent.path # "error" /\ answer = None
    /\ \E a \in ProviderAnswers : answer' = writeProviderResponse(a)
    /\ UNCHANGED <<ask, instances, heap, attempt, sent, nameMap>>

ExchangeNext == requestInstance \/ Retry \/ Answered

ExchangeSpec == ExchangeInit /\ [][ExchangeNext]_exchangeVars

-----------------------------------------------------------------------------
IsSent == sent # None /\ sent.path # "error"

ExchangeTypeOK ==
    /\ attempt \in DOMAIN instances
    /\ \A a \in DOMAIN Maps : DOMAIN heap[a] # {}

\* What an instance is sent is what it would be sent if it had been asked first:
\* neither the attempts before it nor the options of their instances show, the
\* objects of the configuration and, under retries, of the client's document
\* are untouched, and a document that differs from the client's is encoded. A
\* limit is there unless the override forces its field, and so is all that is
\* forced; the path is for the protocol of the body.
SentRight ==
    /\ \A a \in DOMAIN Maps : (a \in Own => instances[1].plugin = "ai-proxy-multi") => heap[a] = Maps[a]
    /\ IsSent =>
         LET i == instances[attempt]
             override == requestBodyOverride(i, sent.protocol)
             f == LimitField(i, sent.protocol) IN
         /\ sent.shown = Prepared(Maps, i, sent.choice, TRUE).shown
         /\ sent.path \in {sent.protocol, "configured", "predict"} \/ ~(i.provider \in {"openai", "bedrock"})
         /\ f \notin {"", "inferenceConfig"} /\ ~(i.force /\ f \in DOMAIN override) => sent.shown[f] = "" :> "limit"
         /\ i.force => \A g \in DOMAIN override \ {"model", "stream", "stream_options", "input"} :
                           \A k \in DOMAIN Shown(Maps, override[g]) :
                               sent.shown[g][k] = Shown(Maps, override[g])[k]

\* The tools of a converted request are offered under names that are distinct
\* and short enough, and each stands for the client's tool; the choice is the
\* client's. The calls of a turn are answered by the turns right after it, and
\* the client's key is not sent to a provider that has its own credential.
ConversionRight ==
    IsSent /\ Converts(instances[attempt]) =>
        LET back(name) == IF name \in DOMAIN nameMap THEN nameMap[name] ELSE name IN
        /\ IsInjective(sent.names)
        /\ \A k \in DOMAIN sent.names : Len(sent.names[k]) <= MaxLength /\ back(sent.names[k]) = ask.tools[k]
        /\ ask.choice # <<>> /\ ask.choice \in ToSet(ask.tools) => sent.choice \in ToSet(sent.names) /\ back(sent.choice) = ask.choice
        /\ \A k \in DOMAIN sent.turns : \A u \in DOMAIN sent.turns[k].uses :
               k + u \in DOMAIN sent.turns /\ sent.turns[k + u].of = sent.turns[k].uses[u]
        /\ sent.headers.apiKey = "" /\ (instances[attempt].auth => sent.headers.authorization = "configured")

\* The client is answered in its own protocol, with calls of its own tools by
\* its own names, every token counted once, and no length of another document.
AnsweredRight ==
    answer # None /\ answer.protocol # "502" =>
        /\ answer.protocol = ask.protocol
        /\ \A k \in DOMAIN answer.calls : answer.calls[k] \in ToSet(ask.tools)
        /\ answer.input + answer.cached = answer.from.prompt
        /\ answer.length => sent.protocol = ask.protocol

-----------------------------------------------------------------------------
(***************************************************************************)
(* Requests to language models through ai-proxy or ai-proxy-multi under    *)
(* ai-rate-limiting (pkg/plugin: ai_proxy, ai_proxy_multi, ai_runtime,     *)
(* ai_rate_limiting).  A request is bound to an instance, reserves one     *)
(* token of every quota that applies, falls back to other instances when a *)
(* quota refuses it, is sent to its instance and retried on others when    *)
(* that fails, and is charged for the tokens of its answer.  Requests run  *)
(* concurrently; the health of the instances is published by the checker   *)
(* of the module HealthChecks, here at any moment.                         *)
(*                                                                         *)
(* A quota is identified by the instance or by the rule it belongs to, a   *)
(* window by the moment its counter is reset.  Counters of the gateway and *)
(* of Redis follow the same steps; Redis may fail.                         *)
(***************************************************************************)

CONSTANTS
    Requests,
    Settings,   \* the configurations of the two plugins, see MultiSettings
    Costs,      \* the tokens an answer may cost
    MaxClock    \* bound: the clock

VARIABLES
    cfg,
    nextSlot,   \* the rotation of every priority
    healthy,    \* the published snapshot of health
    clock,
    counters,   \* quota -> [used, reset] and the ghosts of its window
    reqs

gatewayVars == <<cfg, nextSlot, healthy, clock, counters, reqs>>

\* What the schemas admit: one instance of ai-proxy; weighted instances with
\* priorities of ai-proxy-multi, and how it balances and falls back; limits of
\* instances, of all others, or rules that apply to every request.
ProxySettings(s) == s.plugin = "ai-proxy" /\ Len(s.instances) = 1 /\ s.fallback = {}

InstanceSettings == [priority : Int, weight : Nat, bedrock : BOOLEAN]

HealthSettings(s) == s.checked \subseteq DOMAIN s.instances

MultiSettings(s) ==
    /\ s.plugin = "ai-proxy-multi" /\ s.algorithm \in {"roundrobin", "chash"}
    /\ s.fallback \subseteq {"rate_limiting", "http_429", "http_5xx"} /\ s.max_retries \in Nat \cup {-1}

RateLimitSettings(s) ==
    /\ s.limits \in Seq(Nat) /\ s.limit \in Nat /\ s.rules \in Seq(Nat)   \* 0 for none
    /\ s.window \in Nat \ {0} /\ s.policy \in {"local", "redis"}

\* PostInit of ai-rate-limiting.
RateLimitAccepts(s) ==
    /\ s.rules # <<>> => s.limit = 0 /\ \A i \in DOMAIN s.limits : s.limits[i] = 0
    /\ \A i \in DOMAIN s.rules : s.rules[i] > 0

\* PostInit of ai-proxy-multi: an instance without weight is never picked.
ProxyAccepts(s) == \E i \in DOMAIN s.instances : s.instances[i].weight > 0

AIConfig ==
    /\ \A s \in Settings :
         /\ \A i \in DOMAIN s.instances : s.instances[i] \in InstanceSettings
         /\ HealthSettings(s) /\ (ProxySettings(s) \/ MultiSettings(s))
         /\ RateLimitSettings(s) /\ Len(s.limits) = Len(s.instances)
         /\ RateLimitAccepts(s) /\ ProxyAccepts(s)
    /\ Costs \subseteq Nat

Weighted(p) == {i \in DOMAIN cfg.instances : cfg.instances[i].weight > 0 /\ cfg.instances[i].priority = p}
Priorities == {p \in {cfg.instances[i].priority : i \in DOMAIN cfg.instances} : Weighted(p) # {}}
ByPriority == SetToSortSeq(Priorities, LAMBDA a, b : a > b)

NoRequest == [at |-> "idle", ask |-> [order |-> <<>>, keys |-> <<>>], tried |-> {}, index |-> 0,
              retries |-> 0, attempts |-> <<>>, quotas |-> <<>>, held |-> <<>>, todo |-> <<>>, cost |-> 0]

GatewayInit ==
    /\ cfg \in Settings
    /\ nextSlot = [p \in Priorities |-> 0]
    /\ healthy = DOMAIN cfg.instances
    /\ clock = 0
    /\ counters = <<>>
    /\ reqs = [r \in Requests |-> NoRequest]

-----------------------------------------------------------------------------
(* Picking an instance.                                                    *)

\* weightInstanceAtSlot, as the order in which the instances of a priority are
\* walked from a slot.
weightInstanceAtSlot(p, slot) ==
    LET ids == SetToSortSeq(Weighted(p), LAMBDA a, b : a < b)
        upto(i) == MapThenSumSet(LAMBDA j : cfg.instances[ids[j]].weight, 1..i)
        first == CHOOSE i \in DOMAIN ids : upto(i) > slot /\ \A j \in 1..(i - 1) : upto(j) <= slot
    IN  [i \in DOMAIN ids |-> ids[((first + i - 2) % Len(ids)) + 1]]

Total(p) == MapThenSumSet(LAMBDA i : cfg.instances[i].weight, Weighted(p))

\* The candidates of a priority: from its slot, or in the order of the ring for
\* the hash of the request.
Walk(q, p) ==
    IF cfg.algorithm = "chash"
    THEN SelectSeq(q.ask.order, LAMBDA i : i \in Weighted(p))
    ELSE weightInstanceAtSlot(p, nextSlot[p])

InOrder(q) == FlattenSeq([k \in DOMAIN ByPriority |-> Walk(q, ByPriority[k])])

\* The first of a sequence that passes, or 0.
FirstOf(s, Passes(_)) ==
    IF \E i \in DOMAIN s : Passes(s[i])
    THEN s[CHOOSE i \in DOMAIN s : Passes(s[i]) /\ \A j \in 1..(i - 1) : ~Passes(s[j])]
    ELSE 0

\* Mutants of pickInstance: tried instances are picked again; the health is
\* asked only within a priority.
pickInstance_Again(q) ==
    LET well == FirstOf(InOrder(q), LAMBDA i : i \in healthy)
    IN  IF well # 0 THEN well ELSE FirstOf(InOrder(q), LAMBDA i : TRUE)
pickInstance_ByPriority(q) == FirstOf(InOrder(q), LAMBDA i : i \notin q.tried)

\* pickInstance and pickChashInstance: the healthy of every priority first.
pickInstance(q) ==
    LET well == FirstOf(InOrder(q), LAMBDA i : i \notin q.tried /\ i \in healthy)
    IN  IF well # 0 THEN well ELSE FirstOf(InOrder(q), LAMBDA i : i \notin q.tried)

\* nextWeightedSlot: every priority's, once per pick.
nextWeightedSlot ==
    nextSlot' = IF cfg.algorithm = "chash" THEN nextSlot
                ELSE [p \in DOMAIN nextSlot |-> (nextSlot[p] + 1) % Total(p)]

-----------------------------------------------------------------------------
(* Quotas.                                                                 *)

Quota(key, limit) == [key |-> key, limit |-> limit]

\* quotaForRequest: of the instance, or of all that have none of their own.
LimitOf(i) == IF cfg.limits[i] > 0 THEN cfg.limits[i] ELSE cfg.limit

\* quotasForRequest: a rule whose key the request does not resolve is skipped.
quotasForRequest(q) ==
    IF cfg.rules # <<>>
    THEN LET used == SelectSeq([j \in DOMAIN cfg.rules |-> j], LAMBDA j : q.ask.keys[j])
         IN  [k \in DOMAIN used |-> Quota(<<"rule", used[k]>>, cfg.rules[used[k]])]
    ELSE IF LimitOf(q.index) > 0
    THEN <<Quota(<<"instance", q.index>>, LimitOf(q.index))>>
    ELSE <<>>

\* The counter of a quota: absent once its window is over.
Fresh == [used |-> 0, reset |-> clock + cfg.window, spent |-> 0, left |-> 0, pure |-> TRUE, clean |-> TRUE]
CounterOf(q) == IF q.key \in DOMAIN counters THEN counters[q.key] ELSE Fresh

\* The ghosts are kept as long as they can be told exactly.
With(q, c) ==
    (q.key :> [c EXCEPT !.spent = IF c.pure THEN @ ELSE 0, !.left = IF c.clean THEN @ ELSE 0]) @@ counters

\* reserve and redisReserveScript, of one token.
Accepts(q) == CounterOf(q).used <= q.limit - 1
reserve(q) == With(q, [CounterOf(q) EXCEPT !.used = @ + 1])

\* A reservation nobody will settle.
leave(q, cs) == [cs EXCEPT ![q.key].left = IF cs[q.key].clean THEN @ + 1 ELSE 0]

Clamp(x, lo, hi) == IF x < lo THEN lo ELSE IF x > hi THEN hi ELSE x

\* reconcile and redisReconcileScript: nothing for a window that is over,
\* unless it may create one. The ghosts follow what it stands for: the tokens
\* spent, whether the sum was clamped, and whether it settles a reservation of
\* another window.
reconcile(q, delta, create, spends, stale) ==
    IF q.key \notin DOMAIN counters /\ ~create THEN counters
    ELSE LET c == CounterOf(q)
             sum == c.used + Clamp(delta, -q.limit, q.limit) IN
         With(q, [c EXCEPT !.used = Clamp(sum, 0, q.limit), !.spent = @ + spends,
                           !.pure = @ /\ sum = c.used + delta /\ sum \in 0..q.limit /\ ~stale,
                           !.clean = @ /\ ~stale])

\* A reconcile that Redis did not do.
Lost(q) == IF q.key \in DOMAIN counters THEN With(q, [counters[q.key] EXCEPT !.pure = FALSE]) ELSE counters

\* The reservation a request holds of a quota is of a window that is over.
Stale(r, q) ==
    \E k \in DOMAIN reqs[r].held :
        reqs[r].held[k].key = q.key /\ q.key \in DOMAIN counters /\ reqs[r].held[k].reset # counters[q.key].reset

Set(r, changes) == reqs' = [reqs EXCEPT ![r] = changes @@ @]
Leave(r) == reqs' = [reqs EXCEPT ![r] = NoRequest]

-----------------------------------------------------------------------------
(* The request phase.                                                      *)

\* The request bound to an instance, with the quotas ai-rate-limiting will ask:
\* admitted at once when there are none, refused when no rule applies.
Bound(q, i) ==
    LET bound == [q EXCEPT !.index = i, !.tried = @ \cup {i}, !.held = <<>>]
        quotas == quotasForRequest(bound) IN
    IF quotas = <<>> /\ cfg.rules # <<>> THEN NoRequest
    ELSE [bound EXCEPT !.quotas = quotas, !.at = IF quotas = <<>> THEN "admitted" ELSE "reserving"]

\* RunRequestPhase of the proxy, with the order of the ring for its hash key and
\* the rules it resolves; a body that is no JSON document of a known protocol is
\* refused before.
RunRequestPhase(r) ==
    /\ reqs[r].at = "idle"
    /\ \E order \in IF cfg.algorithm = "chash" THEN SetToSeqs(DOMAIN cfg.instances) ELSE {<<>>},
          keys \in [DOMAIN cfg.rules -> BOOLEAN] :
         LET q == [NoRequest EXCEPT !.ask = [order |-> order, keys |-> keys]] IN
         reqs' = [reqs EXCEPT ![r] = Bound(q, pickInstance(q))]
    /\ nextWeightedSlot
    /\ UNCHANGED <<cfg, healthy, clock, counters>>

NextQuota(r) == reqs[r].quotas[Len(reqs[r].held) + 1]

Reserved(r) ==
    /\ reqs[r].at = "reserving" /\ Accepts(NextQuota(r))
    /\ counters' = reserve(NextQuota(r))
    /\ LET held == Append(reqs[r].held, [key |-> NextQuota(r).key, reset |-> counters'[NextQuota(r).key].reset]) IN
       Set(r, [held |-> held, at |-> IF Len(held) = Len(reqs[r].quotas) THEN "admitted" ELSE "reserving"])
    /\ UNCHANGED <<cfg, nextSlot, healthy, clock>>

\* What is to be reconciled: [quota, delta, create, spends].
Back(q) == [quota |-> q, delta |-> -1, create |-> FALSE, spends |-> 0]

\* A mutant of reserveQuotas: what was reserved before the refusal is kept.
reserveQuotas_Keeps(r) == <<>>

\* reserveQuotas: a refusal gives back what the quotas before it gave.
reserveQuotas(r) == [k \in DOMAIN reqs[r].held |-> Back(reqs[r].quotas[k])]

\* reserve that is refused, or that Redis did and did not answer for.
Refused(r) ==
    /\ reqs[r].at = "reserving"
    /\ ~Accepts(NextQuota(r)) \/ cfg.policy = "redis"
    /\ \/ UNCHANGED counters
       \/ /\ cfg.policy = "redis" /\ Accepts(NextQuota(r))
          /\ counters' = leave(NextQuota(r), reserve(NextQuota(r)))
    /\ Set(r, [at |-> "refused", todo |-> reserveQuotas(r)])
    /\ UNCHANGED <<cfg, nextSlot, healthy, clock>>

\* One reconcile of those a request has still to do; Redis may not do it.
Reconciles(r) ==
    /\ reqs[r].at \in {"refused", "charging"} /\ reqs[r].todo # <<>>
    /\ LET t == Head(reqs[r].todo)
           settles == ~t.create IN
       /\ \/ counters' = reconcile(t.quota, t.delta, t.create, IF settles /\ Stale(r, t.quota) THEN 0 ELSE t.spends,
                                   settles /\ Stale(r, t.quota))
          \/ cfg.policy = "redis" /\ counters' = Lost(t.quota)
       /\ IF reqs[r].at = "charging" /\ Len(reqs[r].todo) = 1 THEN Leave(r)
          ELSE Set(r, [todo |-> Tail(reqs[r].todo),
                  held |-> IF settles THEN SelectSeq(reqs[r].held, LAMBDA h : h.key # t.quota.key)
                           ELSE reqs[r].held])
    /\ UNCHANGED <<cfg, nextSlot, healthy, clock>>

\* AdvanceRateLimitTarget: another instance, when the proxy falls back for rate
\* limits and the quotas are those of the instances.
AdvanceRateLimitTarget(r) ==
    /\ reqs[r].at = "refused" /\ reqs[r].todo = <<>>
    /\ IF cfg.rules = <<>> /\ "rate_limiting" \in cfg.fallback
       THEN /\ LET i == pickInstance(reqs[r]) IN
               IF i = 0 THEN Leave(r)
               ELSE reqs' = [reqs EXCEPT ![r] = Bound(@, i)]
            /\ nextWeightedSlot
       ELSE Leave(r) /\ UNCHANGED nextSlot
    /\ UNCHANGED <<cfg, healthy, clock, counters>>

-----------------------------------------------------------------------------
(* Execution.                                                              *)

\* A later stage answers instead: a bounded response is still accounted, with
\* no tokens; a streaming one never gets its writer.
Stopped(r) ==
    /\ reqs[r].at = "admitted"
    /\ \/ Set(r, [at |-> "answered", cost |-> 0]) /\ UNCHANGED counters
       \/ /\ Leave(r)
          /\ counters' = [k \in DOMAIN counters |->
                IF counters[k].clean /\ \E h \in Range(reqs[r].held) : h.key = k /\ h.reset = counters[k].reset
                THEN [counters[k] EXCEPT !.left = @ + 1] ELSE counters[k]]
    /\ UNCHANGED <<cfg, nextSlot, healthy, clock>>

\* Consume: the prepared operation is executed once.
Consume(r) ==
    /\ reqs[r].at = "admitted"
    /\ Set(r, [at |-> "sending"])
    /\ UNCHANGED <<cfg, nextSlot, healthy, clock, counters>>

\* validateBedrockInstanceRequest refuses before anything is sent.
validateBedrockInstanceRequest(r) ==
    /\ reqs[r].at = "sending" /\ cfg.instances[reqs[r].index].bedrock
    /\ Set(r, [at |-> "answered", cost |-> 0])
    /\ UNCHANGED <<cfg, nextSlot, healthy, clock, counters>>

\* A mutant of canRetry: one retry too many.
canRetry_OneMore(r, code, late) ==
    /\ cfg.max_retries >= 0 => reqs[r].retries <= cfg.max_retries
    /\ ~late
    /\ IF code = 429 THEN "http_429" \in cfg.fallback ELSE code = 503 /\ "http_5xx" \in cfg.fallback

\* canRetry: the retries, the time the failure took and its kind allow one.
canRetry(r, code, late) ==
    /\ cfg.max_retries >= 0 => reqs[r].retries < cfg.max_retries
    /\ ~late
    /\ IF code = 429 THEN "http_429" \in cfg.fallback ELSE code = 503 /\ "http_5xx" \in cfg.fallback

\* The request as requestInstance leaves it: one more attempt.
Attempted(r) ==
    [reqs[r] EXCEPT !.attempts = Append(@, reqs[r].index), !.tried = @ \cup {reqs[r].index}]

Answer(r, q, cost) == reqs' = [reqs EXCEPT ![r] = [q EXCEPT !.at = "answered", !.cost = cost]]

RetryOther(r, q) ==
    LET i == pickInstance(q) IN
    /\ IF i = 0 THEN Answer(r, q, 0)
       ELSE reqs' = [reqs EXCEPT ![r] = [q EXCEPT !.index = i, !.retries = @ + 1]]
    /\ nextWeightedSlot

\* executeInstanceRequest: no answer, or one of some status. A response is
\* given up only while some instance has not been tried.
executeInstanceRequest(r) ==
    /\ reqs[r].at = "sending" /\ ~cfg.instances[reqs[r].index].bedrock /\ cfg.plugin = "ai-proxy-multi"
    /\ LET q == Attempted(r) IN
       \E result \in {"error", "response"}, late \in BOOLEAN, code \in {200, 429, 503} :
         /\ result = "error" => code = 503
         /\ IF canRetry(r, code, late)
               /\ (result = "error" \/ Cardinality(q.tried) < Len(cfg.instances))
            THEN RetryOther(r, q)
            ELSE /\ \E cost \in IF result = "response" /\ code = 200 THEN Costs ELSE {0} : Answer(r, q, cost)
                 /\ UNCHANGED nextSlot
    /\ UNCHANGED <<cfg, healthy, clock, counters>>

\* executeProviderRequest, of ai-proxy: one attempt.
executeProviderRequest(r) ==
    /\ reqs[r].at = "sending" /\ ~cfg.instances[reqs[r].index].bedrock /\ cfg.plugin = "ai-proxy"
    /\ \E cost \in Costs \cup {0} : Answer(r, Attempted(r), cost)
    /\ UNCHANGED <<cfg, nextSlot, healthy, clock, counters>>

-----------------------------------------------------------------------------
(* The response.                                                           *)

\* quotasForResponse: of the instance that answered.
quotasForResponse(r) ==
    IF cfg.rules = <<>> /\ quotasForRequest(reqs[r]) # <<>> THEN quotasForRequest(reqs[r]) ELSE reqs[r].quotas

\* A mutant of chargeOnce: the answer is charged and the reservation kept.
chargeOnce_Keeps(r) ==
    [k \in DOMAIN reqs[r].quotas |->
        [quota |-> reqs[r].quotas[k], delta |-> reqs[r].cost, create |-> FALSE, spends |-> reqs[r].cost]]

\* chargeOnce: the reservation becomes the cost; or it is given back and the
\* cost is charged to the quota of the instance that answered.
chargeOnce(r) ==
    LET own == reqs[r].quotas
        final == quotasForResponse(r)
        cost == reqs[r].cost IN
    IF own = final
    THEN [k \in DOMAIN own |-> [quota |-> own[k], delta |-> cost - 1, create |-> FALSE, spends |-> cost]]
    ELSE [k \in DOMAIN own |-> Back(own[k])]
         \o (IF cost <= 0 THEN <<>>
             ELSE [k \in DOMAIN final |-> [quota |-> final[k], delta |-> cost, create |-> TRUE, spends |-> cost]])

\* RunBufferedBodyFilter and FinishStreamingResponse.
Charge(r) ==
    /\ reqs[r].at = "answered" /\ reqs[r].quotas # <<>>
    /\ Set(r, [at |-> "charging", todo |-> chargeOnce(r)])
    /\ UNCHANGED <<cfg, nextSlot, healthy, clock, counters>>

\* responseQuotaState: a request admitted without a quota that ends at a limited
\* instance reserves now, unless it streams; a refusal fails the response.
responseQuotaState(r) ==
    /\ reqs[r].at = "answered" /\ reqs[r].quotas = <<>>
    /\ LET late == quotasForRequest(reqs[r]) IN
       IF late = <<>> THEN Leave(r) /\ UNCHANGED counters
       ELSE \/ Leave(r) /\ UNCHANGED counters
            \/ /\ Accepts(late[1])
               /\ counters' = reserve(late[1])
               /\ Set(r, [quotas |-> late, held |-> <<[key |-> late[1].key, reset |-> counters'[late[1].key].reset]>>])
    /\ UNCHANGED <<cfg, nextSlot, healthy, clock>>

\* publishHealthSnapshot, of the checker.
publishHealthSnapshot ==
    /\ \E ill \in SUBSET cfg.checked : healthy' = DOMAIN cfg.instances \ ill
    /\ healthy' # healthy
    /\ UNCHANGED <<cfg, nextSlot, clock, counters, reqs>>

Tick ==
    /\ clock < MaxClock
    /\ clock' = clock + 1
    /\ counters' = [k \in {j \in DOMAIN counters : clock + 1 < counters[j].reset} |-> counters[k]]
    /\ UNCHANGED <<cfg, nextSlot, healthy, reqs>>

GatewayNext ==
    \/ publishHealthSnapshot \/ Tick
    \/ \E r \in Requests :
         \/ RunRequestPhase(r) \/ Reserved(r) \/ Refused(r)
         \/ Reconciles(r) \/ AdvanceRateLimitTarget(r) \/ Stopped(r) \/ Consume(r)
         \/ validateBedrockInstanceRequest(r) \/ executeInstanceRequest(r)
         \/ executeProviderRequest(r) \/ Charge(r) \/ responseQuotaState(r)

GatewaySpec == GatewayInit /\ [][GatewayNext]_gatewayVars

-----------------------------------------------------------------------------
GatewayTypeOK ==
    /\ cfg \in Settings /\ clock \in 0..MaxClock /\ healthy \subseteq DOMAIN cfg.instances
    /\ \A k \in DOMAIN counters : counters[k].used \in Nat /\ counters[k].reset > clock
    /\ \A r \in Requests : reqs[r].index \in 0..Len(cfg.instances) /\ reqs[r].tried \subseteq DOMAIN cfg.instances

\* The reservations of a window that are not settled yet.
Open(k) == Cardinality({r \in Requests : \E h \in Range(reqs[r].held) : h.key = k /\ h.reset = counters[k].reset})
               + counters[k].left
Limit(k) == IF k[1] = "rule" THEN cfg.rules[k[2]] ELSE LimitOf(k[2])

\* What a counter says: it stays within its limit; it covers every reservation
\* of its window that is not settled, whatever answers cost; and as long as no
\* answer cost more than was left it is exactly those reservations and the
\* tokens spent. A refused, failed or retried request leaves nothing behind.
UsageRight ==
    \A k \in DOMAIN counters :
        /\ counters[k].used \in 0..Limit(k)
        /\ counters[k].clean => Open(k) <= counters[k].used
        /\ counters[k].pure => counters[k].used = Open(k) + counters[k].spent

\* A request is sent to no instance twice, to none without weight, no more often
\* than max_retries allows, and first to the instance whose quota admitted it.
AttemptsRight ==
    \A r \in Requests :
        LET a == reqs[r].attempts IN
        /\ IsInjective(a)
        /\ \A i \in DOMAIN a : cfg.instances[a[i]].weight > 0
        /\ cfg.max_retries >= 0 => Len(a) <= cfg.max_retries + 1
        /\ a # <<>> /\ reqs[r].at = "sending" /\ reqs[r].quotas # <<>> /\ cfg.rules = <<>> => reqs[r].quotas[1].key = <<"instance", a[1]>>

\* An instance is picked over a healthy one that the request has not tried only
\* when it is healthy itself and of no lower priority.
PicksRight ==
    \A r \in Requests :
     reqs'[r].index # reqs[r].index /\ reqs'[r].index # 0 =>
         \A i \in healthy \ reqs[r].tried :
             cfg.instances[i].weight > 0 =>
                 /\ reqs'[r].index \in healthy
                 /\ cfg.instances[reqs'[r].index].priority >= cfg.instances[i].priority

=============================================================================
