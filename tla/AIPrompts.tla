------------------------------ MODULE AIPrompts ------------------------------
(***************************************************************************)
(* What the AI plugins of a route do to a request before its provider is   *)
(* called: ai-request-rewrite, ai-prompt-template, ai-prompt-decorator and *)
(* ai-rag change the document, ai-prompt-guard and the two content         *)
(* moderations judge it, and ai-proxy keeps the document it will send.     *)
(* Their order is the executor's: first the stage, then the scope, then    *)
(* the priority.                                                           *)
(*                                                                         *)
(* A text is a sequence of words; blanks and separators are the word       *)
(* Blank.  A document is a record of the fields the plugins look at;       *)
(* "has" says which of them the JSON object holds.                         *)
(***************************************************************************)
EXTENDS Integers, Sequences, FiniteSets, SequencesExt

CONSTANTS Confs, Bodies, Rewrites, Comprehend, Blank

VARIABLES conf, body, left, picked, captured, judged, asked, told, answer

vars == <<conf, body, left, picked, captured, judged, asked, told, answer>>

Plugins == {"ai-request-rewrite", "ai-prompt-template", "ai-prompt-decorator",
            "ai-rag", "ai-prompt-guard", "ai-aws-content-moderation",
            "ai-proxy", "ai-aliyun-content-moderation"}

Modes == {"error", "warn", "skip"}

Risks == {"none", "low", "medium", "high", "max"}

----------------------------------------------------------------------------
(* Documents. *)

NoDoc == [path |-> "other", has |-> {}, msgs |-> <<>>, input |-> <<>>,
          instr |-> <<>>, sys |-> <<>>, stream |-> FALSE, template |-> "",
          values |-> <<>>]

Trimmed(text) == SelectSeq(text, LAMBDA w : w # Blank)

Joined(texts) == FlattenSeq(texts)

Texts(messages) == [i \in DOMAIN messages |-> messages[i].text]

Detect(d) ==
    CASE d.path = "converse" /\ "messages" \in d.has -> "bedrock"
      [] d.path = "messages" -> "anthropic"
      [] d.path = "responses" /\ "input" \in d.has -> "responses"
      [] OTHER -> CASE "messages" \in d.has -> "chat"
                    [] "messages" \notin d.has /\ "input" \in d.has -> "embeddings"
                    [] d.has = {} -> "none"
                    [] OTHER -> "passthrough"

IsStreaming(protocol, d) == protocol # "embeddings" /\ d.stream

Filled(messages) == SelectSeq(messages, LAMBDA m : m.text # <<>>)

Talk(messages) == [i \in DOMAIN messages |->
                      [role |-> messages[i].role, text |-> messages[i].text]]

chatMessages(d) == Filled(Talk(d.msgs))

\* An input item of a list is kept when it is a string or when its content
\* is one: a list of content parts is no string.
responseMessages(d) ==
    (IF "instructions" \in d.has
       THEN <<[role |-> "system", text |-> d.instr]>> ELSE <<>>)
    \o Talk(SelectSeq(d.input, LAMBDA m :
               \/ m.form \in {"whole", "string"}
               \/ m.form = "object" /\ m.text # <<>>))

anthropicMessages(d) ==
    (IF "system" \in d.has
       THEN <<[role |-> "system", text |-> Joined(d.sys)]>> ELSE <<>>)
    \o Filled(Talk(d.msgs))

bedrockMessages(d) ==
    Filled(<<[role |-> "system", text |-> Joined(d.sys)]>> \o Talk(d.msgs))

ExtractMessages(protocol, d) ==
    CASE protocol = "responses"  -> responseMessages(d)
      [] protocol = "embeddings" ->
            Talk(SelectSeq(d.input, LAMBDA m : m.form \in {"whole", "string"}))
      [] protocol = "anthropic"  -> anthropicMessages(d)
      [] protocol = "bedrock"    -> bedrockMessages(d)
      [] protocol = "chat"       -> chatMessages(d)
      [] OTHER                   -> <<>>

ExtractRequestContent(protocol, d) ==
    Joined(Texts(SelectSeq(ExtractMessages(protocol, d),
                           LAMBDA m : Trimmed(m.text) # <<>>)))

OfSystem(messages) == SelectSeq(messages, LAMBDA m : m.role = "system")
OfOthers(messages) == SelectSeq(messages, LAMBDA m : m.role # "system")

With(d, fields) == [d EXCEPT !.has = @ \union fields]

prependBedrockMessages_Behind(d, ms) ==
    [d EXCEPT !.sys  = @ \o Texts(OfSystem(ms)),
              !.msgs = @ \o OfOthers(ms)]

prependBedrockMessages(d, ms) ==
    [d EXCEPT !.sys  = Texts(OfSystem(ms)) \o @,
              !.msgs = OfOthers(ms) \o @]

appendBedrockMessages(d, ms) ==
    [d EXCEPT !.sys  = @ \o Texts(OfSystem(ms)),
              !.msgs = @ \o OfOthers(ms)]

PrependMessages(protocol, d, ms) ==
    CASE ms = <<>> -> d
      [] protocol = "responses" ->
            With([d EXCEPT !.instr = Joined(Texts(ms)) \o @], {"instructions"})
      [] protocol \in {"anthropic", "chat"} ->
            With([d EXCEPT !.msgs = ms \o @], {"messages"})
      [] protocol = "bedrock" ->
            With(prependBedrockMessages(d, ms),
                 IF OfSystem(ms) = <<>> THEN {} ELSE {"system"})
      [] OTHER -> d

AppendMessages_Twice(protocol, d, ms) ==
    CASE protocol \in {"anthropic", "chat"} ->
            [d EXCEPT !.msgs = @ \o ms \o ms]
      [] OTHER -> d

\* The text of a string input grows; a list of items gets one more item.
AppendMessages(protocol, d, ms) ==
    CASE ms = <<>> -> d
      [] protocol = "responses" /\ Len(d.input) = 1 /\ d.input[1].form = "whole" ->
            [d EXCEPT !.input[1].text = @ \o Joined(Texts(ms))]
      [] protocol = "responses" ->
            [d EXCEPT !.input = Append(@, [role |-> "user", form |-> "object",
                                           text |-> Joined(Texts(ms))])]
      [] protocol \in {"anthropic", "chat"} ->
            With([d EXCEPT !.msgs = @ \o ms], {"messages"})
      [] protocol = "bedrock" ->
            With(appendBedrockMessages(d, ms),
                 IF OfSystem(ms) = <<>> THEN {} ELSE {"system"})
      [] OTHER -> d

----------------------------------------------------------------------------
(* Order of the plugins. *)

Stage_GuardRewrites(p) ==
    IF p \in {"ai-request-rewrite", "ai-prompt-template", "ai-prompt-decorator",
              "ai-rag", "ai-prompt-guard"} THEN 1 ELSE 2

Stage(p) ==
    IF p \in {"ai-request-rewrite", "ai-prompt-template", "ai-prompt-decorator",
              "ai-rag"} THEN 1 ELSE 2

Priority(p) ==
    CASE p = "ai-request-rewrite"           -> 1073
      [] p = "ai-prompt-guard"              -> 1072
      [] p = "ai-prompt-template"           -> 1071
      [] p = "ai-prompt-decorator"          -> 1070
      [] p = "ai-rag"                       -> 1060
      [] p = "ai-aws-content-moderation"    -> 1050
      [] p = "ai-proxy"                     -> 1040
      [] p = "ai-aliyun-content-moderation" -> 1029

\* A global rule's access plugins run before the route's.
ScopeRank(p) == IF p = "ai-proxy" /\ conf.proxyScope = "global" THEN 0 ELSE 1

Before(p, q) ==
    \/ Stage(p) < Stage(q)
    \/ Stage(p) = Stage(q) /\ ScopeRank(p) < ScopeRank(q)
    \/ /\ Stage(p) = Stage(q) /\ ScopeRank(p) = ScopeRank(q)
       /\ Priority(p) > Priority(q)

Turn(p) ==
    /\ answer.by = "nobody"
    /\ p \in left
    /\ \A q \in left \ {p} : Before(p, q)

Continue(p) == left' = left \ {p} /\ UNCHANGED answer

Written(form) == [protocol |-> form, events |-> FALSE]

Respond(p, status, form) ==
    /\ answer' = [by |-> p, status |-> status, form |-> form]
    /\ UNCHANGED <<left, body, picked, captured>>

----------------------------------------------------------------------------
(* How an operational failure of a check ends. *)

SafetyClasses == {"invalid_payload", "unknown_protocol", "empty_content",
                  "backend_unavailable", "backend_invalid_response"}

DecideSafetyFailure_Open(mode, class) == [reject |-> FALSE, status |-> 0]

DecideSafetyFailure(mode, class) ==
    IF mode \in {"warn", "skip"}
      THEN [reject |-> FALSE, status |-> 0]
      ELSE [reject |-> TRUE,
            status |-> IF class \in {"backend_unavailable", "backend_invalid_response"}
                         THEN 503 ELSE 400]

Failed(p, mode, class) ==
    LET d == DecideSafetyFailure(mode, class)
    IN IF d.reject THEN Respond(p, d.status, Written("message"))
                   ELSE Continue(p) /\ UNCHANGED <<body, picked, captured>>

\* A denial is written in the protocol the client speaks, as events when the
\* client asked for a stream and the protocol has a textual one.
BuildDenyWireResponse(protocol, streaming) ==
    [protocol |-> protocol,
     events |-> streaming /\ protocol \notin {"embeddings", "bedrock", "passthrough"}]

----------------------------------------------------------------------------
(* ai-request-rewrite: the provider's answer replaces the whole body. *)

preferredProtocol(provider) ==
    CASE provider = "anthropic" -> "anthropic"
      [] provider = "bedrock"   -> "bedrock"
      [] OTHER                  -> "chat"

\* Providers whose address depends on the configuration.
endpoint(c) ==
    CASE c.override -> TRUE
      [] c.provider = "bedrock" -> c.model
      [] OTHER -> c.provider \notin {"openai-compatible", "azure-openai"}

RewriteSchema(c) ==
    c.provider \in {"openai", "deepseek", "aimlapi", "anthropic", "openai-compatible",
                    "azure-openai", "openrouter", "gemini", "vertex-ai", "bedrock"}

RewriteSettings(c) == c.provider \in {"openai-compatible", "azure-openai"} => c.override

\* The client's body is the user's part, the prompt the system's part.
BuildSimpleRequest(protocol, prompt, content, c) ==
    [system |-> IF protocol = "chat" \/ prompt # <<>> THEN <<prompt>> ELSE <<>>,
     user   |-> content,
     capped |-> protocol = "anthropic" \/ c.maxTokens,
     model  |-> c.model /\ protocol # "bedrock" /\ c.provider # "azure-openai"]

Lost == [kind |-> "lost", doc |-> NoDoc, typed |-> TRUE]

\* The text of the provider's answer, or no answer that can be used.
requestLLM(c) ==
    IF endpoint(c) THEN {Lost} \union {r \in Rewrites : r.kind # "empty"}
                   ELSE {Lost}

RequestRewrite ==
    LET p == "ai-request-rewrite"
        c == conf.rewrite
    IN
    /\ Turn(p)
    /\ UNCHANGED <<conf, judged>>
    /\ IF body.kind \in {"empty", "blank"}
         THEN Respond(p, 400, Written("message")) /\ UNCHANGED <<asked, told>>
         ELSE /\ asked' = IF endpoint(c)
                            THEN <<BuildSimpleRequest(preferredProtocol(c.provider),
                                                      c.prompt, body, c)>>
                            ELSE asked
              /\ \E r \in requestLLM(c) :
                    IF r = Lost
                      THEN Respond(p, 500, Written("message")) /\ UNCHANGED told
                      ELSE /\ body' = [r EXCEPT !.typed = body.typed]
                           /\ told' = body'
                           /\ Continue(p)
                           /\ UNCHANGED <<picked, captured>>

----------------------------------------------------------------------------
(* ai-prompt-template: a configured template replaces the document. *)

\* A word of a template is itself or the value of the client's field.
lookupValue(values, key) ==
    IF \E i \in DOMAIN values : values[i].key = key
      THEN values[CHOOSE i \in DOMAIN values : values[i].key = key].text
      ELSE <<>>

renderString(text, values) ==
    Joined([i \in DOMAIN text |->
              IF text[i].ref THEN lookupValue(values, text[i].word)
                             ELSE <<text[i].word>>])

renderTemplate(t, d) ==
    [NoDoc EXCEPT
       !.path = d.path,
       !.has  = IF t.messages = <<>> THEN {} ELSE {"messages"},
       !.msgs = [i \in DOMAIN t.messages |->
                   [role |-> t.messages[i].role,
                    text |-> renderString(t.messages[i].text, d.values)]]]

\* The handlers that need an object refuse a body that is none.
Unparsed(p) ==
    /\ body.kind # "json"
    /\ Respond(p, 400, Written("message"))

PromptTemplate ==
    LET p == "ai-prompt-template"
        d == body.doc
        found == {i \in DOMAIN conf.templates : conf.templates[i].name = d.template}
    IN
    /\ Turn(p)
    /\ UNCHANGED <<conf, judged, asked>>
    /\ \/ Unparsed(p) /\ UNCHANGED told
       \/ /\ body.kind = "json"
          /\ IF d.template = "" \/ found = {}
               THEN Respond(p, 400, Written("message")) /\ UNCHANGED told
               ELSE LET t == conf.templates[CHOOSE i \in found : \A j \in found : i <= j]
                    IN /\ body' = [body EXCEPT !.doc = renderTemplate(t, d)]
                       /\ told' = body'
                       /\ Continue(p)
                       /\ UNCHANGED <<picked, captured>>

----------------------------------------------------------------------------
(* ai-prompt-decorator and ai-rag. *)

PromptDecorate ==
    LET p == "ai-prompt-decorator"
        d == body.doc
        protocol == Detect(d)
    IN
    /\ Turn(p)
    /\ UNCHANGED <<conf, judged, asked, told>>
    /\ \/ Unparsed(p)
       \/ /\ body.kind = "json"
          /\ IF protocol = "none"
               THEN Respond(p, 400, Written("message"))
               ELSE /\ body' = [body EXCEPT !.doc =
                           AppendMessages(protocol,
                              PrependMessages(protocol, d, conf.prepend),
                              conf.append)]
                    /\ Continue(p)
                    /\ UNCHANGED <<picked, captured>>

RagFields == {"ai_rag", "ai_rag.vector_search.fields", "ai_rag.embeddings.input"}

parseAIRAG(d) == RagFields \subseteq d.has

appendSearchResult(d, result) ==
    LET e == [d EXCEPT !.has = @ \ RagFields]
        protocol == IF Detect(e) = "none" THEN "chat" ELSE Detect(e)
    IN AppendMessages(protocol, e, <<[role |-> "user", text |-> result]>>)

\* How the calls of the embeddings and the search service end: the status of a
\* refusal is passed on (429 stands for it), any other failure is 500.
postAzureJSON == {"ok", "refused", "unusable"}

Rag ==
    LET p == "ai-rag" IN
    /\ Turn(p)
    /\ UNCHANGED <<conf, judged, asked, told>>
    /\ \/ Unparsed(p)
       \/ /\ body.kind = "json"
          /\ IF ~parseAIRAG(body.doc)
               THEN Respond(p, 400, Written("plain"))
               ELSE \E r \in postAzureJSON :
                      IF r # "ok"
                        THEN Respond(p, IF r = "refused" THEN 429 ELSE 500,
                                     Written("plain"))
                        ELSE /\ body' = [body EXCEPT !.doc =
                                            appendSearchResult(@, conf.found)]
                             /\ Continue(p)
                             /\ UNCHANGED <<picked, captured>>

----------------------------------------------------------------------------
(* ai-prompt-guard. *)

\* Content parts of Responses items come after the messages of all other items.
extractMessages(protocol, d) ==
    ExtractMessages(protocol, d)
    \o (IF protocol = "responses"
          THEN Talk(SelectSeq(d.input, LAMBDA m : m.form = "parts" /\ m.text # <<>>))
          ELSE <<>>)

lastMessage(messages) ==
    IF messages = <<>> THEN <<>> ELSE <<Last(messages)>>

Inspected(g, d) ==
    LET protocol == Detect(d)
        all  == extractMessages(protocol, d)
        seen == IF protocol = "responses" \/ g.history THEN all ELSE lastMessage(all)
    IN IF g.roles THEN seen ELSE SelectSeq(seen, LAMBDA m : m.role = "user")

matchesAny(patterns, text) == ToSet(text) \cap patterns # {}

GuardVerdict(g, d) ==
    LET text == Joined(Texts(Inspected(g, d)))
    IN CASE Detect(d) \in {"none", "passthrough"} -> "unknown_protocol"
         [] Detect(d) \notin {"none", "passthrough"} /\ Trimmed(text) = <<>>
              -> "empty_content"
         [] OTHER -> IF \/ g.allow # {} /\ ~matchesAny(g.allow, text)
                        \/ matchesAny(g.deny, text)
                       THEN "denied" ELSE "clean"

PromptGuard ==
    LET p == "ai-prompt-guard"
        g == conf.guard
        verdict == IF body.kind = "json" THEN GuardVerdict(g, body.doc)
                                         ELSE "invalid_payload"
    IN
    /\ Turn(p)
    /\ UNCHANGED <<conf, judged, asked, told>>
    /\ CASE body.kind \in {"empty", "blank"} \/ verdict = "denied" ->
                Respond(p, 400, Written("message"))
         [] body.kind \notin {"empty", "blank"} /\ verdict = "clean" ->
                Continue(p) /\ UNCHANGED <<body, picked, captured>>
         [] OTHER -> Failed(p, g.mode, verdict)

----------------------------------------------------------------------------
(* ai-aws-content-moderation. *)

handleMissingAIInstance(p, mode) ==
    IF mode = "error"
      THEN Respond(p, 500, Written("text"))
      ELSE Continue(p) /\ UNCHANGED <<body, picked, captured>>

\* Comprehend's scores against the thresholds; no result is an error.
checkContent(c, results) ==
    CASE results = <<>> -> "unavailable"
      [] \E i \in DOMAIN results :
            \/ \E l \in DOMAIN results[i].labels \cap DOMAIN c.categories :
                  results[i].labels[l] > c.categories[l]
            \/ results[i].toxicity > c.threshold -> "toxic"
      [] OTHER -> "clean"

\* The whole content is judged as one segment.
AWSModerate ==
    LET p == "ai-aws-content-moderation"
        d == body.doc
        protocol == Detect(d)
        content  == ExtractRequestContent(protocol, d)
    IN
    /\ Turn(p)
    /\ UNCHANGED <<conf, asked, told>>
    /\ IF ~picked
         THEN handleMissingAIInstance(p, conf.aws.mode) /\ UNCHANGED judged
         ELSE \/ /\ body.kind # "json" \/ protocol \in {"none", "passthrough"}
                 /\ Respond(p, 400, Written("message"))
                 /\ UNCHANGED judged
              \/ /\ body.kind = "json" /\ protocol \notin {"none", "passthrough"}
                 /\ content = <<>>
                 /\ Continue(p)
                 /\ UNCHANGED <<body, picked, captured, judged>>
              \/ /\ body.kind = "json" /\ protocol \notin {"none", "passthrough"}
                 /\ content # <<>>
                 /\ \E results \in Comprehend :
                    LET verdict == checkContent(conf.aws, results) IN
                      /\ judged' = [judged EXCEPT !.aws = Append(@,
                                      [text |-> content, verdict |-> verdict])]
                      /\ CASE verdict = "unavailable" -> Respond(p, 500, Written("text"))
                           [] verdict = "toxic" ->
                                Respond(p, conf.aws.denyCode, BuildDenyWireResponse(protocol,
                                                  IsStreaming(protocol, d)))
                           [] verdict = "clean" ->
                                Continue(p) /\ UNCHANGED <<body, picked, captured>>

----------------------------------------------------------------------------
(* ai-proxy: the document read now is the one that is sent. *)

ProxyPrepare ==
    LET p == "ai-proxy" IN
    /\ Turn(p)
    /\ UNCHANGED <<conf, judged, asked, told>>
    /\ IF body.kind # "json" \/ Detect(body.doc) = "none"
         THEN Respond(p, 400, Written("message"))
         ELSE /\ picked' = TRUE
              /\ captured' = body
              /\ Continue(p)
              /\ UNCHANGED body

----------------------------------------------------------------------------
(* ai-aliyun-content-moderation, the request. *)

riskLevelToInt(risk) ==
    CASE risk = "none" -> 0 [] risk = "low" -> 1 [] risk = "medium" -> 2
      [] risk = "high" -> 3 [] risk = "max" -> 4

CeilDiv(n, k) == (n + k - 1) \div k

Chunk_Overlapping(text, limit, i) ==
    SubSeq(text, (i - 1) * limit + 1, (i - 1) * limit + limit - 1)

Chunk(text, limit, i) ==
    SubSeq(text, (i - 1) * limit + 1,
           IF i * limit < Len(text) THEN i * limit ELSE Len(text))

checkSingleContent == {"low", "high", "backend_unavailable", "backend_invalid_response"}

Hit(risk, bar) == risk \in Risks /\ riskLevelToInt(risk) >= riskLevelToInt(bar)

\* The answers of the service to the chunks, up to the first that ends the
\* check: a failure or a risk at the bar.
moderateContent(text, limit, bar) ==
    LET n == CeilDiv(Len(text), limit)
        ends(v) == v \notin Risks \/ Hit(v, bar)
    IN {r \in UNION {[1 .. k -> checkSingleContent] : k \in 1 .. n} :
          /\ \A i \in 1 .. Len(r) - 1 : ~ends(r[i])
          /\ Len(r) < n => ends(r[Len(r)])}

AliyunModerate ==
    LET p == "ai-aliyun-content-moderation"
        a == conf.aliyun
        d == body.doc
        protocol == Detect(d)
        content  == ExtractRequestContent(protocol, d)
        class    == CASE body.kind # "json" \/ ~body.typed -> "invalid_payload"
                      [] body.kind = "json" /\ body.typed /\ protocol \in {"none", "passthrough"}
                           -> "unknown_protocol"
                      [] OTHER -> "empty_content"
        readable == body.kind = "json" /\ body.typed /\ protocol \notin {"none", "passthrough"}
    IN
    /\ Turn(p)
    /\ UNCHANGED <<conf, asked, told>>
    /\ \/ /\ ~a.checkRequest
          /\ Continue(p)
          /\ UNCHANGED <<body, picked, captured, judged>>
       \/ /\ a.checkRequest
          /\ ~readable \/ Trimmed(content) = <<>>
          /\ Failed(p, a.mode, class)
          /\ UNCHANGED judged
       \/ /\ a.checkRequest /\ readable /\ Trimmed(content) # <<>>
          /\ \E r \in moderateContent(content, a.limit, a.bar) :
               /\ judged' = [judged EXCEPT !.aliyun =
                     [i \in DOMAIN r |-> [text |-> Chunk(content, a.limit, i),
                                          verdict |-> r[i]]]]
               /\ CASE Last(r) \notin Risks -> Failed(p, a.mode, Last(r))
                    [] Last(r) \in Risks /\ Hit(Last(r), a.bar) ->
                         Respond(p, a.denyCode,
                                 BuildDenyWireResponse(protocol, IsStreaming(protocol, d)))
                    [] OTHER -> Continue(p) /\ UNCHANGED <<body, picked, captured>>

----------------------------------------------------------------------------

NoAnswer == [by |-> "nobody", status |-> 0, form |-> Written("message")]

Init ==
    /\ conf \in Confs
    /\ body \in Bodies
    /\ left = conf.plugins
    /\ picked = FALSE
    /\ captured = Lost
    /\ judged = [aws |-> <<>>, aliyun |-> <<>>]
    /\ asked = <<>>
    /\ told = body
    /\ answer = NoAnswer

Next ==
    \/ RequestRewrite \/ PromptTemplate \/ PromptDecorate \/ Rag
    \/ PromptGuard \/ AWSModerate \/ ProxyPrepare \/ AliyunModerate

Spec == Init /\ [][Next]_vars

Prompts(ms) ==
    \A i \in DOMAIN ms : /\ ms[i].role \in {"system", "user", "assistant"}
                         /\ ms[i].text # <<>>

GuardSettings(g) == g.mode \in Modes /\ {g.roles, g.history} \subseteq BOOLEAN

DecoratorSettings(c) == Prompts(c.prepend) /\ Prompts(c.append)

TemplateSettings(ts) ==
    ts # <<>> /\ \A i \in DOMAIN ts : ts[i].name # "" /\ Prompts(ts[i].messages)

AWSSettings(c) == c.mode \in Modes /\ c.denyCode \in 200 .. 599

AliyunSettings(a) ==
    /\ a.mode \in Modes /\ a.bar \in Risks /\ a.checkRequest \in BOOLEAN
    /\ a.limit >= 1 /\ a.denyCode \in 200 .. 599

PromptsConfig ==
    \A c \in Confs :
       /\ c.plugins \subseteq Plugins
       /\ RewriteSchema(c.rewrite) /\ RewriteSettings(c.rewrite)
       /\ GuardSettings(c.guard) /\ DecoratorSettings(c)
       /\ TemplateSettings(c.templates) /\ AWSSettings(c.aws)
       /\ AliyunSettings(c.aliyun)

----------------------------------------------------------------------------
(* Properties. *)

TypeOK ==
    /\ conf \in Confs
    /\ left \subseteq conf.plugins
    /\ picked \in BOOLEAN
    /\ body.kind \in {"empty", "blank", "text", "json"}
    /\ answer.by \in Plugins \union {"nobody"}

Forwarded == left = {} /\ answer = NoAnswer /\ picked

Runs(p) == p \in conf.plugins

\* The words of a document in the order a provider reads them.
Spoken(d) == d.instr \o Joined(d.sys) \o Joined(Texts(d.msgs)) \o Joined(Texts(d.input))

Said(d) == Joined(Texts(OfOthers(d.msgs))) \o Joined(Texts(d.input))

Words(ms) == ToSet(Joined(Texts(ms)))

Pre  == IF Runs("ai-prompt-decorator") THEN conf.prepend ELSE <<>>

Post == (IF Runs("ai-prompt-decorator") THEN conf.append ELSE <<>>)
        \o (IF Runs("ai-rag") THEN <<[role |-> "user", text |-> conf.found]>> ELSE <<>>)

Conversations == {"chat", "anthropic", "bedrock", "responses"}

Occurs(word, text) == Cardinality({i \in DOMAIN text : text[i] = word})

\* When the client's document is a conversation, the one ai-proxy keeps is that
\* conversation (or the one its
\* template or its rewriting provider made of it) with every configured prompt
\* and the search result in it exactly once: nothing of the conversation is
\* lost or reordered, prepended prompts come before what was said in it and
\* appended ones after it, in each of the protocols' document forms.
Composed ==
    (captured # Lost /\ Detect(told.doc) \in Conversations) =>
       LET all   == Spoken(captured.doc)
           added == Words(Pre) \union Words(Post)
           said  == ToSet(Said(told.doc))
           place(w) == CHOOSE i \in DOMAIN all : all[i] = w
       IN /\ SelectSeq(all, LAMBDA w : w \notin added) = Spoken(told.doc)
          /\ \A w \in added : Occurs(w, all) = 1
          /\ \A w \in Words(Pre), v \in said : place(w) < place(v)
          /\ \A w \in Words(OfOthers(Post)), v \in said : place(w) > place(v)

\* The guard judges the document that is sent, not an earlier one: a request
\* that goes on has a clean verdict on the captured document, or at least no
\* denial when the configuration lets undecidable requests pass.
GuardedRight ==
    (Forwarded /\ Runs("ai-prompt-guard")) =>
       LET verdict == GuardVerdict(conf.guard, captured.doc)
       IN /\ verdict # "denied"
          /\ conf.guard.mode = "error" => verdict = "clean"

\* The chunks given to the moderation service are the whole content of the
\* document that is sent, in order; none was at the bar, and with fail mode
\* error none was left unjudged.
JudgedRight ==
    (Forwarded /\ Runs("ai-aliyun-content-moderation") /\ conf.aliyun.checkRequest) =>
       LET chunks == judged.aliyun
       IN /\ \A i \in DOMAIN chunks : ~Hit(chunks[i].verdict, conf.aliyun.bar)
          /\ conf.aliyun.mode = "error" =>
                /\ \A i \in DOMAIN chunks : chunks[i].verdict \in Risks
                /\ Joined(Texts(chunks)) =
                     ExtractRequestContent(Detect(captured.doc), captured.doc)

=============================================================================
